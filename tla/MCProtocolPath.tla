--------------------------- MODULE MCProtocolPath ---------------------------
(* Specifications of one or two channels and packets, every position of two
   CPIs with three PRTs, a datagram for each way to be refused, and four sent
   datagrams in one to three frames, of which one has a wrong UDP length. *)
EXTENDS ProtocolPath

MCSpecs == {[channels |-> c, packets |-> p, data |-> 3, lastUsed |-> 2] :
              c \in 1..2, p \in 1..2} \ {[channels |-> 1, packets |-> 1, data |-> 3, lastUsed |-> 2]}

At(cpi, prt, ch, idx) ==
    [null |-> FALSE, passes |-> TRUE, magic |-> "data", len |-> 3, cpi |-> cpi, ch |-> ch,
     prt |-> prt, idx |-> idx, tail |-> "none", dirty |-> 2]
First == At(0, 1, 0, 1)

Positions == {At(cpi, prt, ch, idx) : cpi \in 0..1, prt \in 0..2, ch \in 0..1, idx \in 1..2}
Others ==
    {[First EXCEPT !.magic = "control"], [First EXCEPT !.magic = "control", !.len = 2],
     [First EXCEPT !.null = TRUE], [First EXCEPT !.passes = FALSE], [First EXCEPT !.len = -1],
     [First EXCEPT !.magic = "other"], [First EXCEPT !.len = 2], [First EXCEPT !.idx = 0],
     [First EXCEPT !.tail = "magic"], [First EXCEPT !.tail = "other"], [First EXCEPT !.dirty = 3]}
MCDatagrams == Positions \union Others

SentAs(key, units, udp, cuts, content) ==
    [key |-> key, units |-> units, udp |-> udp, cuts |-> cuts, content |-> content]
MCSent == <<SentAs("a", 3, 3, {1, 2}, First), SentAs("b", 3, 2, {2}, At(0, 1, 0, 2)),
            SentAs("c", 2, 3, {1}, First), SentAs("d", 2, 2, {}, First)>>
=============================================================================
