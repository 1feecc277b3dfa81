---------------------------- MODULE ProtocolPath ----------------------------
(***************************************************************************)
(* ProtocolPath: what happens to a UDP datagram between the backend and    *)
(* the coordinator: UdpDatagramPipeline (filter, parser, validator,        *)
(* interpreter), the DataOrderTracker, and the counts and coverage that    *)
(* the run summary is made of.  Datagrams come from a backend (the owner   *)
(* loop) or out of the frames of PacketPipeline, put together by           *)
(* UdpAssembler.  Whether the coordinator admits a packet is a choice.     *)
(*                                                                         *)
(* A datagram is [null, passes, magic, len, cpi, ch, prt, idx, tail,       *)
(* dirty]: len counts the payload after the packet header (-1: no whole    *)
(* header), dirty is the position of its last byte that is not zero.       *)
(***************************************************************************)
EXTENDS UdpAssembler

CONSTANTS
    Specs,        \* protocol specifications [channels, packets, data, lastUsed]
    Datagrams,    \* datagrams a backend may deliver
    Sent,         \* datagrams sent as frames: [key, units, udp, cuts, content]
    CpiMod,       \* CPI ids, 2^16
    PrtMod,       \* PRT numbers, 2^16
    MaxDatagrams, \* bound: datagrams processed in one run
    MaxFrames     \* bound: frames received in one run

Headers == [null : BOOLEAN, passes : BOOLEAN, magic : {"data", "control", "other"}, len : Int,
            cpi : 0..(CpiMod - 1), ch : Nat, prt : 0..(PrtMod - 1), idx : Nat,
            tail : {"none", "magic", "other"}, dirty : Nat]

ASSUME ProtocolAssumption ==
    /\ CpiMod \in Nat \ {0, 1} /\ PrtMod \in Nat \ {0, 1}
    /\ Specs \subseteq [channels : Nat \ {0}, packets : Nat \ {0}, data : Nat, lastUsed : Nat]
    /\ \A s \in Specs : s.lastUsed <= s.data
    /\ Datagrams \subseteq Headers
    /\ \A n \in DOMAIN Sent :
         /\ Sent[n].units \in Nat \ {0} /\ Sent[n].udp \in Nat \ {0, 1}
         /\ Sent[n].cuts \subseteq 1..(Sent[n].units - 1) /\ Sent[n].content \in Headers
    /\ MaxDatagrams \in Nat /\ MaxFrames \in Nat

VARIABLES
    spec,     \* the specification of this run
    stats,    \* the counters of the metrics and of OwnerLoopRuntimeState
    coverage, \* prt_coverage: the set of <<cpi, prt, ch, idx>>
    tracker,  \* the DataOrderTracker
    stream,   \* datagrams processed, history
    admitted, \* those the coordinator admitted, history
    received, \* frames received, history
    assembled \* what the assembler returned, history

vars == <<spec, stats, coverage, tracker, stream, admitted, received, assembled, fragments>>

NoPoint == [cpi |-> 0, ch |-> 0, prt |-> 0, idx |-> 0]
Point(d) == [cpi |-> d.cpi, ch |-> d.ch, prt |-> d.prt, idx |-> d.idx]

-----------------------------------------------------------------------------
(* Parser, validator and interpreter: "none" or the reason to reject *)

ParseReason(d) ==
    CASE d.len < 0 -> "invalid_len"
      [] d.len >= 0 /\ d.magic = "other" -> "invalid_header"
      [] OTHER -> "none"

ValidateReason(d) ==
    IF ParseReason(d) # "none" THEN ParseReason(d)
    ELSE IF d.magic = "control" THEN IF d.len # spec.data THEN "invalid_len" ELSE "none"
    ELSE CASE d.ch >= spec.channels -> "invalid_channel"
           [] d.ch < spec.channels /\ d.idx \notin 1..spec.packets -> "invalid_packet_index"
           [] d.ch < spec.channels /\ d.idx \in 1..spec.packets /\ d.len # spec.data -> "invalid_len"
           [] OTHER -> IF d.tail = "other" THEN "invalid_tail"
                       ELSE IF d.tail = "magic" /\ d.idx # spec.packets
                              THEN "invalid_field_combo" ELSE "none"

\* interpret() repeats the validator's tests of a packet and adds that the
\* last packet of a channel is padded with zeros.
InterpretReason(d) ==
    IF d.magic = "data" /\ d.idx = spec.packets /\ d.dirty > spec.lastUsed
      THEN "invalid_field_combo" ELSE "none"

RejectReason(d) ==
    IF ValidateReason(d) # "none" THEN ValidateReason(d) ELSE InterpretReason(d)

-----------------------------------------------------------------------------
(* DataOrderTracker *)

NoOrder == [checked |-> 0, previous |-> NoPoint, expected |-> NoPoint,
            matches |-> TRUE, batched |-> FALSE, mismatch |-> 0]

BuildNextExpected(p) ==
    CASE p.idx < spec.packets -> [p EXCEPT !.idx = @ + 1]
      [] p.idx >= spec.packets /\ p.ch + 1 < spec.channels -> [p EXCEPT !.idx = 1, !.ch = @ + 1]
      [] OTHER -> [p EXCEPT !.idx = 1, !.ch = 0, !.prt = (@ + 1) % PrtMod]

\* Mutant of IsCpiRollover: the cast to 16 bits is forgotten.
IsCpiRolloverNoWrap(p, q) ==
    /\ p.idx = spec.packets /\ p.ch + 1 = spec.channels
    /\ q = [cpi |-> p.cpi + 1, prt |-> 1, ch |-> 0, idx |-> 1]

IsCpiRollover(p, q) ==
    /\ p.idx = spec.packets /\ p.ch + 1 = spec.channels
    /\ q = [cpi |-> (p.cpi + 1) % CpiMod, prt |-> 1, ch |-> 0, idx |-> 1]

LooksBatched(p, q) ==
    p.idx = spec.packets /\ q.idx = 1 /\ q.ch = p.ch /\ q.prt = (p.prt + 1) % PrtMod

Observe(q) ==
    LET deviates == /\ tracker.checked > 0 /\ tracker.matches
                    /\ ~IsCpiRollover(tracker.previous, q) /\ q # tracker.expected
    IN tracker' = [checked  |-> tracker.checked + 1,
                   previous |-> q,
                   expected |-> BuildNextExpected(q),
                   matches  |-> tracker.matches /\ ~deviates,
                   batched  |-> IF deviates THEN LooksBatched(tracker.previous, q)
                                            ELSE tracker.batched,
                   mismatch |-> IF deviates THEN tracker.checked + 1 ELSE tracker.mismatch]

-----------------------------------------------------------------------------
(* process_datagram() and the owner loop's callback *)

NoStats == [errors |-> 0, filtered |-> 0, accepted |-> 0, dropped |-> 0, control |-> 0,
            data |-> 0, captured |-> 0, tails |-> 0, cpis |-> {}, latest |-> NoPoint]

\* A datagram the pipeline does not hand on.
Refuse(d) ==
    /\ \/ d.null /\ stats' = [stats EXCEPT !.errors = @ + 1]
       \/ ~d.null /\ ~d.passes /\ stats' = [stats EXCEPT !.filtered = @ + 1]
       \/ /\ ~d.null /\ d.passes /\ RejectReason(d) # "none"
          /\ stats' = [stats EXCEPT !.accepted = @ + 1, !.dropped = @ + 1]
    /\ UNCHANGED <<coverage, tracker, admitted>>

HandOn(d, magic) ==
    ~d.null /\ d.passes /\ RejectReason(d) = "none" /\ d.magic = magic

Control(d) ==
    /\ HandOn(d, "control")
    /\ stats' = [stats EXCEPT !.accepted = @ + 1, !.control = @ + 1, !.captured = @ + 1,
                              !.cpis = @ \union {d.cpi}]
    /\ UNCHANGED <<coverage, tracker, admitted>>

\* Mutant of Data: recorded whether admitted or not.
DataUnadmitted(d) ==
    /\ HandOn(d, "data") /\ Observe(Point(d))
    /\ stats' = [stats EXCEPT !.accepted = @ + 1, !.data = @ + 1, !.captured = @ + 1,
                    !.cpis = @ \union {d.cpi}, !.latest = Point(d),
                    !.tails = IF d.tail = "magic" THEN @ + 1 ELSE @]
    /\ coverage' = coverage \union {<<d.cpi, d.prt, d.ch, d.idx>>}
    /\ admitted' \in {admitted, admitted \union {Len(stream) + 1}}

\* record_data_packet() and the capture are for packets the coordinator admits.
Data(d) ==
    /\ HandOn(d, "data") /\ Observe(Point(d))
    /\ LET counted == [stats EXCEPT !.accepted = @ + 1, !.data = @ + 1,
                                    !.cpis = @ \union {d.cpi}]
       IN \/ stats' = counted /\ UNCHANGED <<coverage, admitted>>
          \/ /\ stats' = [counted EXCEPT !.captured = @ + 1, !.latest = Point(d),
                            !.tails = IF d.tail = "magic" THEN @ + 1 ELSE @]
             /\ coverage' = coverage \union {<<d.cpi, d.prt, d.ch, d.idx>>}
             /\ admitted' = admitted \union {Len(stream) + 1}

ProcessDatagram(d) ==
    /\ stream' = Append(stream, d) /\ (Refuse(d) \/ Control(d) \/ Data(d))
    /\ UNCHANGED spec

-----------------------------------------------------------------------------
(* The summary *)

SeenPrts(cpi) == {u[2] : u \in {u \in coverage : u[1] = cpi}}

PrtComplete(cpi, prt) ==
    \A ch \in 0..(spec.channels - 1) :
        Cardinality({u \in coverage : u[1] = cpi /\ u[2] = prt /\ u[3] = ch}) = spec.packets

\* The first PRT of the latest CPI that is incomplete, else the last one seen.
ActivePrt ==
    LET cpi == stats.latest.cpi
        open == {prt \in SeenPrts(cpi) : ~PrtComplete(cpi, prt)}
    IN IF open # {} THEN Min(open)
       ELSE IF SeenPrts(cpi) # {} THEN Max(SeenPrts(cpi)) ELSE stats.latest.prt

CompletePrtCount ==
    Cardinality({u \in {<<v[1], v[2]>> : v \in coverage} :
        \A ch \in 0..(spec.channels - 1), idx \in 1..spec.packets :
            <<u[1], u[2], ch, idx>> \in coverage})

-----------------------------------------------------------------------------
Init ==
    /\ spec \in Specs /\ stats = NoStats /\ coverage = {} /\ tracker = NoOrder
    /\ fragments = <<>> /\ stream = <<>> /\ admitted = {} /\ received = <<>>
    /\ assembled = <<>>

\* The owner loop takes a datagram out of a burst.
ReceiveDatagram(d) ==
    /\ received = <<>> /\ Len(stream) < MaxDatagrams
    /\ ProcessDatagram(d) /\ UNCHANGED <<fragments, received, assembled>>

\* The frames of the sent datagram n: one, or a fragment from each cut on.
FramesOf(n) ==
    LET s == Sent[n]
        end(o) == Min({e \in s.cuts \union {s.units} : e > o})
    IN {[sound |-> TRUE, key |-> s.key, of |-> n, off |-> o, len |-> end(o) - o,
         more |-> end(o) < s.units, udp |-> s.udp] : o \in s.cuts \union {0}}

Noise == [sound |-> FALSE, key |-> "other", of |-> 0, off |-> 0, len |-> 1,
          more |-> FALSE, udp |-> 1]

\* What an assembled datagram says: its first unit holds the packet header.
Content(units) == Sent[units[1][1]].content

\* PacketPipeline::process_packet(); frames are lost, doubled and overtaken.
ProcessPacket(f) ==
    /\ stream = <<>> \/ received # <<>>
    /\ Len(received) < MaxFrames
    /\ Push(f) /\ received' = Append(received, f) /\ assembled' = assembled \o Result(f)
    /\ IF Result(f) = <<>> THEN UNCHANGED <<spec, stats, coverage, tracker, stream, admitted>>
       ELSE ProcessDatagram(Content(Result(f)[1]))

Next ==
    \/ \E d \in Datagrams : ReceiveDatagram(d)
    \/ \E n \in DOMAIN Sent : \E f \in FramesOf(n) : ProcessPacket(f)
    \/ ProcessPacket(Noise)

Spec == Init /\ [][Next]_vars

-----------------------------------------------------------------------------
\* The data packets handed on, by their position in the stream.
DataAt == {i \in DOMAIN stream : HandOn(stream[i], "data")}
Earlier(i) == {j \in DataAt : j < i}

\* The verdict on the order is what a look at the whole sequence gives, with
\* positions as ranks in a CPI: "in order" exactly if every packet follows its
\* predecessor, at the wrap of PRT numbers and CPI ids too; the deviation
\* reported is the first, and "by channel" is said exactly of a first
\* deviation from the end of a channel to its begin in the next PRT.
Rank(p) == (p.prt * spec.channels + p.ch) * spec.packets + p.idx - 1
PerPrt == spec.channels * spec.packets
Follows(p, q) ==
    \/ q.cpi = p.cpi /\ Rank(q) = (Rank(p) + 1) % (PrtMod * PerPrt)
    \/ /\ q.cpi = (p.cpi + 1) % CpiMod
       /\ Rank(p) % PerPrt = PerPrt - 1 /\ Rank(q) = PerPrt
FirstOfChannel(p, q) ==
    /\ Rank(q) = (Rank(p) + 1 + PerPrt - spec.packets) % (PrtMod * PerPrt)
    /\ Rank(q) % spec.packets = 0
Deviating == {i \in DataAt : /\ Earlier(i) # {}
                             /\ ~Follows(stream[Max(Earlier(i))], stream[i])}
OrderVerdict ==
    /\ tracker.checked = Cardinality(DataAt)
    /\ tracker.matches <=> Deviating = {}
    /\ Deviating # {} =>
         LET first == Min(Deviating)
         IN /\ tracker.mismatch = Cardinality(Earlier(first)) + 1
            /\ tracker.batched <=> FirstOfChannel(stream[Max(Earlier(first))], stream[first])

\* The summary is a true account of what came, whatever mixture came and
\* whatever the coordinator refused: each datagram is in one of the counts, a
\* PRT is complete exactly if each of its packets was admitted once at least,
\* and the PRT the panel shows is complete only if all of its CPI's are.
SummaryTruthful ==
    LET taken == {i \in admitted : stream[i].magic = "data"}
        has(cpi, prt, ch, idx) ==
          \E i \in taken : Point(stream[i]) = [cpi |-> cpi, prt |-> prt, ch |-> ch, idx |-> idx]
        whole(cpi, prt) ==
          \A ch \in 0..(spec.channels - 1), idx \in 1..spec.packets : has(cpi, prt, ch, idx)
        prts == {<<stream[i].cpi, stream[i].prt>> : i \in taken}
    IN /\ Len(stream) = stats.errors + stats.filtered + stats.dropped + stats.control + stats.data
       /\ stats.accepted = stats.dropped + stats.control + stats.data
       /\ stats.captured = stats.control + Cardinality(taken)
       /\ CompletePrtCount = Cardinality({u \in prts : whole(u[1], u[2])})
       /\ taken # {} =>
            LET cpi == stream[Max(taken)].cpi
            IN PrtComplete(cpi, ActivePrt) <=> \A u \in prts : u[1] = cpi => whole(u[1], u[2])

\* Only sent datagrams come out of the assembler, in one piece and at their
\* length, although fragments are lost, doubled and overtaken and the ones of
\* several datagrams come mixed; and a datagram whose fragments all came once
\* has come out.
SentPayload(n) == [k \in 1..(Sent[n].udp - 1) |-> <<n, k>>]
Usable(n) == Sent[n].udp \in 1..Sent[n].units
ReassemblyExact ==
    /\ ToSet(assembled) \subseteq {SentPayload(n) : n \in {n \in DOMAIN Sent : Usable(n)}}
    /\ \A n \in DOMAIN Sent :
         (Usable(n) /\ FramesOf(n) \subseteq ToSet(received)) => SentPayload(n) \in ToSet(assembled)
=============================================================================
