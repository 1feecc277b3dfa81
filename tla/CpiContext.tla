----------------------------- MODULE CpiContext -----------------------------
(***************************************************************************)
(* The data of one CPI and the pure functions on it: the binding of the    *)
(* number of PRTs, the slot writer, the progress tracker, the finalizer    *)
(* and the admission judgement.  Payload bytes, counts of duplicates and   *)
(* time stamps other than "there is one" are left out: no decision of the  *)
(* receiver depends on them.                                               *)
(***************************************************************************)
EXTENDS Integers, Sequences, FiniteSets

CONSTANTS
  IdMod,       (* CPI ids are unsigned integers modulo IdMod (2^16)         *)
  MaxPrt,      (* kCpiPrtMax                                                *)
  Channels,    (* channels_per_prt, at most kCpiMaxChannelCount             *)
  Packets,     (* packets_per_channel                                       *)
  ClosedDepth  (* RecentClosedRing::kDepth                                  *)

ASSUME ContextAssumption ==
  /\ IdMod \in Nat \ {0} /\ MaxPrt \in Nat \ {0}
  /\ Channels \in Nat \ {0} /\ Packets \in Nat \ {0}
  /\ ClosedDepth \in Nat \ {0}

Ids == 0 .. IdMod - 1
Prts == 1 .. MaxPrt

(* The slots of PRTs 1 .. n. *)
SlotsOf(n) == (1 .. n) \X (0 .. Channels - 1) \X (1 .. Packets)

Snapshots ==
  [cpi : Ids, n : 0 .. MaxPrt, valid : BOOLEAN, source : {"fixed", "provisional", "control"},
   conflict : BOOLEAN]

Decisions == {"COMPLETE_OK", "INCOMPLETE_BUT_COMMITTABLE", "ABNORMAL_CUTOFF_COMMIT"}

Contexts ==
  [cpi : Ids, control : Snapshots, observed : 0 .. MaxPrt, slots : SUBSET SlotsOf(MaxPrt),
   received : Nat, readyChannels : [Prts -> Nat], complete : SUBSET Prts,
   tails : SUBSET Prts, readyPrts : Nat]

Outputs ==
  [cpi : Ids, decision : Decisions, received : Nat, missing : Nat, prts : 0 .. MaxPrt,
   slots : SUBSET SlotsOf(MaxPrt)]

Lesser(m, n) == IF m <= n THEN m ELSE n

-----------------------------------------------------------------------------
(* Control snapshots: how many PRTs a CPI has, and who says so *)

Snapshot(c, n, source) ==
  [cpi |-> c, n |-> n, valid |-> n > 0, source |-> source, conflict |-> FALSE]

(* current_control_ before any packet. *)
NoControl == Snapshot(0, 0, "fixed")

FixedSnapshot(c, spec) == Snapshot(c, Lesser(spec.expected, MaxPrt), "fixed")

ProvisionalSnapshot(c, spec) == Snapshot(c, Lesser(spec.max, MaxPrt), "provisional")

(* What a control packet that announces n PRTs amounts to. *)
ControlSnapshot(c, n, spec) ==
  IF spec.dynamic /\ n \in 1 .. Lesser(spec.max, MaxPrt)
  THEN Snapshot(c, n, "control")
  ELSE FixedSnapshot(c, spec)

(* What a CPI is bound to when it opens. *)
OpenSnapshot(c, spec, staged) ==
  CASE ~spec.dynamic -> FixedSnapshot(c, spec)
    [] spec.dynamic /\ staged.cpi = c /\ staged.valid -> staged
    [] OTHER -> ProvisionalSnapshot(c, spec)

-----------------------------------------------------------------------------
(* Contexts *)

(* A context just acquired and bound.  expected_n_prt and                  *)
(* expected_slot_count follow the bound snapshot at all times.             *)
NewContext(c, snapshot) ==
  [cpi |-> c, control |-> snapshot,
   observed |-> 0,                        \* observed_n_prt
   slots |-> {},                          \* ch_pkt_bitmap, of every PRT
   received |-> 0,                        \* received_slot_count
   readyChannels |-> [p \in Prts |-> 0],  \* ready_channel_count, of every PRT
   complete |-> {},                       \* PRTs with PrtFlagComplete
   tails |-> {},                          \* PRTs with PrtFlagSeenTail
   readyPrts |-> 0]                       \* ready_prt_count

ExpectedPrts(ctx) == IF ctx.control.valid THEN ctx.control.n ELSE 0

ExpectedSlots(ctx) == ExpectedPrts(ctx) * Channels * Packets

(* Mutants of Merged: what was observed is not looked at; the latest       *)
(* control packet wins.                                                    *)
MergedUnchecked(ctx, candidate) ==
  IF ctx.control.source = "control" \/ candidate.source # "control" THEN ctx
  ELSE [ctx EXCEPT !.control = candidate]

MergedLatest(ctx, candidate) ==
  IF candidate.source = "control" /\ candidate.n >= ctx.observed
  THEN [ctx EXCEPT !.control = candidate] ELSE ctx

(* merge_control_snapshot: a control packet reaches a CPI that is open. *)
Merged(ctx, candidate) ==
  LET bound == ctx.control
      announced == candidate.source = "control" /\ candidate.valid
  IN  CASE bound.source = "control" ->
             [ctx EXCEPT !.control.conflict =
                @ \/ (announced /\ bound.valid /\ bound.n # candidate.n)]
        [] bound.source = "provisional" ->
             IF announced /\ candidate.n >= ctx.observed
             THEN [ctx EXCEPT !.control = candidate]
             ELSE [ctx EXCEPT !.control.conflict = @ \/ announced]
        [] OTHER ->
             IF announced \/ bound.cpi = 0 \/ ~bound.valid
             THEN [ctx EXCEPT !.control = candidate]
             ELSE ctx

-----------------------------------------------------------------------------
(* SlotWriter and ProgressTracker.  A data packet is a record              *)
(* [cpi, prt, channel, index, tail].                                       *)

Coordinate(pkt) == <<pkt.prt, pkt.channel, pkt.index>>

Writable(ctx, pkt) ==
  /\ Coordinate(pkt) \in SlotsOf(MaxPrt)
  /\ ExpectedPrts(ctx) > 0 => pkt.prt <= ExpectedPrts(ctx)

(* Mutant of FirstWrite: the bitmap is not looked at. *)
FirstWriteAlways(ctx, pkt) == Writable(ctx, pkt)

FirstWrite(ctx, pkt) == Writable(ctx, pkt) /\ Coordinate(pkt) \notin ctx.slots

Written(ctx, pkt) ==
  [ctx EXCEPT !.slots = @ \cup {Coordinate(pkt)},
              !.received = @ + 1,
              !.observed = IF pkt.prt > @ THEN pkt.prt ELSE @]

(* ch_recv_count *)
ChannelCount(ctx, prt, channel) ==
  Cardinality({s \in ctx.slots : s[1] = prt /\ s[2] = channel})

FirstTail(ctx, pkt) == pkt.tail /\ pkt.prt \notin ctx.tails

(* Mutant of Advanced: a PRT is complete when one of its channels is. *)
AdvancedByChannel(ctx, pkt) ==
  LET full == ChannelCount(ctx, pkt.prt, pkt.channel) = Packets
  IN  [ctx EXCEPT
         !.readyChannels[pkt.prt] = @ + (IF full THEN 1 ELSE 0),
         !.complete = @ \cup {p \in {pkt.prt} : full},
         !.readyPrts = @ + (IF full /\ pkt.prt \notin ctx.complete THEN 1 ELSE 0),
         !.tails = IF FirstTail(ctx, pkt) THEN @ \cup {pkt.prt} ELSE @]

(* What advance counts, after the packet was written, ... *)
Advanced(ctx, pkt) ==
  LET ready == ctx.readyChannels[pkt.prt]
               + (IF ChannelCount(ctx, pkt.prt, pkt.channel) = Packets THEN 1 ELSE 0)
      completes == ready = Channels /\ pkt.prt \notin ctx.complete
  IN  [ctx EXCEPT
         !.readyChannels[pkt.prt] = ready,
         !.complete = IF completes THEN @ \cup {pkt.prt} ELSE @,
         !.readyPrts = IF completes THEN @ + 1 ELSE @,
         !.tails = IF FirstTail(ctx, pkt) THEN @ \cup {pkt.prt} ELSE @]

(* Mutant of Due: one slot may be missing. *)
DueEarly(ctx, pkt) ==
  {t \in {"FullReady"} : ctx.received + 1 >= ExpectedSlots(ctx)}

(* ... and the trigger bits it sets that finalize a CPI.  Neither of them  *)
(* stays in the header of an active CPI: it is finalized at once.          *)
Due(ctx, pkt) ==
  {t \in {"WaveEnd"} : /\ FirstTail(ctx, pkt)
                       /\ ExpectedPrts(ctx) > 0 /\ pkt.prt >= ExpectedPrts(ctx)}
  \cup {t \in {"FullReady"} : /\ ExpectedSlots(ctx) > 0
                              /\ ctx.received >= ExpectedSlots(ctx)}

Stored(ctx, pkt) == Advanced(Written(ctx, pkt), pkt)

ReadyChannels(ctx, p) ==
  {ch \in 0 .. Channels - 1 : ChannelCount(ctx, p, ch) = Packets}

(* The counters agree with the bitmap: a channel and a PRT are counted     *)
(* once, when their last packet came.                                      *)
Consistent(ctx) ==
  /\ ctx.received = Cardinality(ctx.slots)
  /\ \A p \in Prts : ctx.readyChannels[p] = Cardinality(ReadyChannels(ctx, p))
  /\ ctx.complete = {p \in Prts : ctx.readyChannels[p] = Channels}
  /\ ctx.readyPrts = Cardinality(ctx.complete)
  /\ \A s \in ctx.slots : s[1] <= ctx.observed

-----------------------------------------------------------------------------
(* CpiFinalizer *)

(* Timeout and Stop alone yield no output. *)
Commits(trigger) == trigger \cap {"FullReady", "CpiSwitch", "WaveEnd"} # {}

Decision(ctx, trigger) ==
  CASE "FullReady" \in trigger -> "COMPLETE_OK"
    [] "FullReady" \notin trigger /\ ctx.readyPrts > 0 -> "INCOMPLETE_BUT_COMMITTABLE"
    [] OTHER -> "ABNORMAL_CUTOFF_COMMIT"

(* The CpiOutput, with what its view shows of the context. *)
Output(ctx, trigger) ==
  [cpi |-> ctx.cpi,
   decision |-> Decision(ctx, trigger),
   received |-> ctx.received,
   missing |-> IF ExpectedSlots(ctx) > ctx.received
               THEN ExpectedSlots(ctx) - ctx.received ELSE 0,
   prts |-> IF ctx.control.valid THEN ctx.control.n ELSE ctx.observed,
   slots |-> ctx.slots]

(* What an output says is true of the slots its view shows.                *)
Truthful(out) ==
  /\ out.slots \subseteq SlotsOf(out.prts)
  /\ out.missing = Cardinality(SlotsOf(out.prts) \ out.slots)
  /\ out.decision = "COMPLETE_OK" => out.missing = 0
  /\ out.decision = "INCOMPLETE_BUT_COMMITTABLE" =>
        \E p \in Prts : SlotsOf(p) \ SlotsOf(p - 1) \subseteq out.slots

-----------------------------------------------------------------------------
(* RecentClosedRing and CpiAdmission *)

(* Mutant of Remembered: nothing is forgotten. *)
RememberedAll(closed, c) == <<c>> \o closed

(* The entries and next_index_: the ids closed last, newest first. *)
Remembered(closed, c) == SubSeq(<<c>> \o closed, 1, Lesser(Len(closed) + 1, ClosedDepth))

Contains(closed, c) == \E i \in DOMAIN closed : closed[i] = c

Judge(c, active, closed) ==
  CASE c = active -> "WRITE_ACTIVE"
    [] c = (active + 1) % IdMod /\ c # active -> "TRIGGER_CPI_SWITCH"
    [] OTHER -> IF Contains(closed, c) THEN "LATE_TO_CLOSED" ELSE "DROP"
=============================================================================
