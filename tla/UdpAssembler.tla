---------------------------- MODULE UdpAssembler ----------------------------
(***************************************************************************)
(* UdpAssembler: UdpPayloadAssembler::push() puts IP fragments together.   *)
(* Lengths and offsets are in units of eight bytes, so that unit 0 of a    *)
(* datagram is its UDP header; unit k of the datagram sent as number d is  *)
(* the pair <<d, k>>.                                                      *)
(*                                                                         *)
(* A frame is [sound, key, of, off, len, more, udp]: units off..off+len-1  *)
(* of the datagram number of; udp is the length in the UDP header, known   *)
(* from unit 0; key stands for addresses, identification and protocol;     *)
(* sound says that it is IPv4/UDP with consistent header lengths.          *)
(***************************************************************************)
EXTENDS Integers, SequencesExt, FiniteSets

VARIABLE fragments  \* fragments_: key -> assembly

\* A total or a UDP length that has not come yet is -1.
NoAssembly == [pieces |-> <<>>, total |-> -1, udp |-> -1]

Units(f) == [k \in 1..f.len |-> <<f.of, f.off + k - 1>>]

\* The assembly of f's key with f in it: a piece at the same offset is
\* replaced, the first unit brings the UDP length, the last piece the total.
WithPiece(f) ==
    LET old == IF f.key \in DOMAIN fragments THEN fragments[f.key] ELSE NoAssembly
    IN [pieces |-> [o \in DOMAIN old.pieces \union {f.off} |->
                      IF o = f.off THEN Units(f) ELSE old.pieces[o]],
        total  |-> IF f.more THEN old.total ELSE f.off + f.len,
        udp    |-> IF f.off = 0 THEN f.udp ELSE old.udp]

\* The pieces from offset 0 on until the total is reached, each beginning
\* where the one before ends; a gap ends in Missing.
Missing == <<0, -1>>
Joined(a) ==
    LET from[o \in Nat] == IF o >= a.total THEN <<>>
                           ELSE IF o \notin DOMAIN a.pieces THEN <<Missing>>
                           ELSE a.pieces[o] \o from[o + Len(a.pieces[o])]
    IN from[0]

\* Mutant of Complete: gaps are not looked for.
CompleteUnchecked(a) == a.total # -1 /\ a.udp # -1

Complete(a) == a.total # -1 /\ a.udp # -1 /\ Missing \notin ToSet(Joined(a))

\* What push(f) returns: the datagrams, none or one, without UDP header; one
\* with a UDP length below the header's or above what came is dropped.
Datagram(units, udp) ==
    IF udp < 1 \/ udp > Len(units) THEN <<>> ELSE <<SubSeq(units, 2, udp)>>

Whole(f) == f.off = 0 /\ ~f.more

Result(f) ==
    CASE ~f.sound -> <<>>
      [] f.sound /\ Whole(f) -> Datagram(Units(f), f.udp)
      [] OTHER -> LET a == WithPiece(f)
                  IN IF Complete(a) THEN Datagram(Joined(a), a.udp) ELSE <<>>

\* A complete assembly is erased, also when its UDP length is wrong.
Push(f) ==
    fragments' =
      IF ~f.sound \/ Whole(f) THEN fragments
      ELSE LET a == WithPiece(f)
           IN [key \in IF Complete(a) THEN DOMAIN fragments \ {f.key}
                                      ELSE DOMAIN fragments \union {f.key} |->
                 IF key = f.key THEN a ELSE fragments[key]]
=============================================================================
