--------------------------- MODULE CpiCoordinator ---------------------------
(***************************************************************************)
(* CpiStateCoordinator: the owner thread's automaton that turns control    *)
(* packets and data packets into decided CPIs, with two windows (the       *)
(* active CPI and the previous one), the ring of recently closed ids, the  *)
(* context pool and the two rings to the consumer.                         *)
(*                                                                         *)
(* The handlers run one after another on the owner thread, so each is one  *)
(* action.  Its effect is a function of the coordinator's members, built   *)
(* from the same calls in the same order as the code.  The consumer is     *)
(* seen from here only: it takes outputs and its tokens come back          *)
(* (OutputPipeline.tla has its steps).  The sender and the network choose  *)
(* the packets.                                                            *)
(***************************************************************************)
EXTENDS CpiContext

CONSTANTS
  Specs,           (* protocol specifications the receiver may be configured *)
                   (* with: [dynamic, expected, max, timeout]                *)
  Depth,           (* kCpiContextPoolDepth                                   *)
  OutputCapacity,  (* usable capacity of the output ring                     *)
  None,            (* no context in a window                                 *)
  (* The environment. *)
  First, Span,     (* the sender's CPIs: First, First + 1, ... (Span of them) *)
  Lag, Ahead,      (* how far behind, and ahead of, the newest CPI seen a    *)
                   (* packet may be                                          *)
  ControlPrts,     (* what control packets announce                          *)
  DataPrts,        (* the PRT numbers of data packets                        *)
  Stamped          (* parsed packets carry their receive time                *)

ASSUME CoordinatorAssumption ==
  /\ \A spec \in Specs : /\ spec.dynamic \in BOOLEAN /\ spec.timeout \in BOOLEAN
                         /\ spec.expected \in Nat /\ spec.max \in Nat
  /\ Depth \in Nat \ {0} /\ OutputCapacity \in Nat \ {0}
  /\ First \in Nat /\ Span \in 1 .. IdMod /\ Lag \in Nat /\ Ahead \in Nat \ {0}
  /\ ControlPrts \subseteq Nat /\ DataPrts \subseteq Nat
  /\ Stamped \in BOOLEAN
  /\ None \notin Contexts

VARIABLES
  spec,      (* spec_                                                        *)
  coord,     (* the coordinator's members, with its end of the rings:        *)
             (*   active, previous   the contexts in the windows, or None    *)
             (*   control            current_control_                        *)
             (*   closed             closed_ring_                            *)
             (*   inUse              how many contexts of the pool are taken *)
             (*   outputs            output_ring_                            *)
             (*   lent               contexts with the consumer or on their  *)
             (*                      way back in recycle_ring_               *)
             (*   degraded           output_degraded_                        *)
             (*   error              run_error: "cpi context pool exhausted" *)
             (*   decided            history: how often each CPI was decided *)
             (*                      (counted up to 2)                       *)
  stopped,   (* finalize_active_for_shutdown has run                         *)
  newest,    (* environment: how many CPIs the sender has got to             *)
  overtaken  (* history: a data packet of an older CPI arrived               *)

vars == <<spec, coord, stopped, newest, overtaken>>

Windows == {"active", "previous"}

Members ==
  [active : Contexts \cup {None}, previous : Contexts \cup {None}, control : Snapshots,
   closed : {closed \in Seq(Ids) : Len(closed) <= ClosedDepth},
   inUse : 0 .. Depth, outputs : {outputs \in Seq(Outputs) : Len(outputs) <= OutputCapacity},
   lent : 0 .. Depth, degraded : BOOLEAN, error : BOOLEAN, decided : [Ids -> 0 .. 2]]

TypeOK ==
  /\ spec \in Specs /\ coord \in Members
  /\ stopped \in BOOLEAN /\ overtaken \in BOOLEAN
  /\ newest \in 0 .. Span

Init ==
  /\ spec \in Specs
  /\ coord = [active |-> None, previous |-> None, control |-> NoControl,
              closed |-> <<>>, inUse |-> 0, outputs |-> <<>>, lent |-> 0,
              degraded |-> FALSE, error |-> FALSE,
              decided |-> [c \in Ids |-> 0]]
  /\ stopped = FALSE
  /\ newest = 0 /\ overtaken = FALSE

-----------------------------------------------------------------------------
(* The coordinator's private operations, on its members m *)

(* Mutant of Finalized: a dropped output does not give the context back.   *)
FinalizedLeaks(m, window, trigger) ==
  LET ctx == m[window]
      gone == [m EXCEPT ![window] = None]
  IN  CASE ctx = None -> m
        [] ctx # None /\ ~Commits(trigger) -> [gone EXCEPT !.inUse = @ - 1]
        [] ctx # None /\ Commits(trigger) /\ Len(m.outputs) < OutputCapacity ->
             [gone EXCEPT !.outputs = Append(@, Output(ctx, trigger))]
        [] OTHER -> [gone EXCEPT !.degraded = TRUE]

(* finalize_active and finalize_previous: an output for the consumer and   *)
(* an entry in the ring of closed ids, or just the context back.           *)
Finalized(m, window, trigger) ==
  LET ctx == m[window]
      gone == [m EXCEPT ![window] = None]
      closed == [gone EXCEPT !.closed = Remembered(@, ctx.cpi),
                             !.decided[ctx.cpi] = Lesser(@ + 1, 2)]
  IN  CASE ctx = None -> m
        [] ctx # None /\ ~Commits(trigger) -> [gone EXCEPT !.inUse = @ - 1]
        [] ctx # None /\ Commits(trigger) /\ Len(m.outputs) < OutputCapacity ->
             [closed EXCEPT !.outputs = Append(@, Output(ctx, trigger))]
        [] OTHER -> [closed EXCEPT !.inUse = @ - 1, !.degraded = TRUE]

(* open_active, when tokens contexts are back in the recycle ring by the   *)
(* time it looks there: it looks only if the pool has no context left.     *)
Opened(m, c, tokens) ==
  LET drained == IF m.inUse < Depth THEN m
                 ELSE [m EXCEPT !.inUse = @ - tokens, !.lent = @ - tokens]
      bound == OpenSnapshot(c, spec, m.control)
  IN  IF drained.inUse = Depth
      THEN [drained EXCEPT !.error = TRUE]
      ELSE [drained EXCEPT !.inUse = @ + 1,
                           !.active = NewContext(c, bound),
                           !.control = bound]

(* The active CPI moves to the previous window. *)
Rotated(m) == [m EXCEPT !.previous = m.active, !.active = None]

(* The end of process_data_packet: write, advance, and finalize if due. *)
WrittenToActive(m, pkt) ==
  LET stored == [m EXCEPT !.active = Stored(@, pkt)]
      due == Due(Written(m.active, pkt), pkt)
  IN  CASE ~FirstWrite(m.active, pkt) -> m
        [] FirstWrite(m.active, pkt) /\ due = {} -> stored
        [] OTHER -> Finalized(stored, "active", due)

WrittenToPrevious(m, pkt) ==
  IF m.previous # None /\ m.previous.cpi = pkt.cpi /\ FirstWrite(m.previous, pkt)
  THEN [m EXCEPT !.previous = Stored(@, pkt)]
  ELSE m

Admitted(m, pkt, tokens) ==
  LET verdict == Judge(pkt.cpi, m.active.cpi, m.closed)
      switched == Opened(Rotated(Finalized(m, "previous", {"CpiSwitch"})), pkt.cpi, tokens)
  IN  CASE verdict = "WRITE_ACTIVE" -> WrittenToActive(m, pkt)
        [] verdict = "TRIGGER_CPI_SWITCH" ->
             IF switched.error THEN switched ELSE WrittenToActive(switched, pkt)
        [] OTHER -> WrittenToPrevious(m, pkt)

(* Mutant of DataProcessed: the closed ids are not looked at. *)
DataProcessedReopens(m, pkt, tokens) ==
  LET opened == Opened(m, pkt.cpi, tokens)
  IN  IF m.active = None
      THEN IF opened.error THEN opened ELSE Admitted(opened, pkt, tokens)
      ELSE Admitted(m, pkt, tokens)

(* process_data_packet *)
DataProcessed(m, pkt, tokens) ==
  LET opened == Opened(m, pkt.cpi, tokens)
  IN  CASE m.active = None /\ Contains(m.closed, pkt.cpi) -> m
        [] m.active = None /\ ~Contains(m.closed, pkt.cpi) ->
             IF opened.error THEN opened ELSE Admitted(opened, pkt, tokens)
        [] OTHER -> Admitted(m, pkt, tokens)

(* process_control_packet *)
ControlProcessed(m, candidate) ==
  CASE m.active # None /\ m.active.cpi = candidate.cpi ->
         LET merged == Merged(m.active, candidate)
         IN  [m EXCEPT !.active = merged, !.control = merged.control]
    [] /\ ~(m.active # None /\ m.active.cpi = candidate.cpi)
       /\ m.previous # None /\ m.previous.cpi = candidate.cpi ->
         [m EXCEPT !.previous = Merged(@, candidate)]
    [] OTHER -> [m EXCEPT !.control = candidate]

-----------------------------------------------------------------------------
(* The environment's packets *)

WireId(k) == (First + k) % IdMod

(* CPIs a packet may belong to, counted from First. *)
Reachable == {k \in 0 .. Span - 1 : k + Lag + 1 >= newest /\ k < newest + Ahead}

Sent(k) == newest' = IF k >= newest THEN k + 1 ELSE newest

(* What the sender builds: the tail marks the last packet of a channel.    *)
DataPackets(k) ==
  {pkt \in [cpi : {WireId(k)}, prt : DataPrts, channel : 0 .. Channels - 1,
            index : 1 .. Packets, tail : BOOLEAN] :
     pkt.tail => pkt.index = Packets}

Running == ~stopped /\ ~coord.error

(* How many tokens open_active finds in the recycle ring, if it looks.     *)
Tokens == IF coord.inUse < Depth THEN {0} ELSE 0 .. coord.lent

DataPacket ==
  /\ Running
  /\ \E k \in Reachable :
       /\ Sent(k)
       /\ overtaken' = (overtaken \/ k + 1 < newest)
       /\ \E pkt \in DataPackets(k), tokens \in Tokens :
            coord' = DataProcessed(coord, pkt, tokens)
  /\ UNCHANGED <<spec, stopped>>

ControlPacket ==
  /\ Running
  /\ \E k \in Reachable, n \in ControlPrts :
       /\ Sent(k)
       /\ coord' = ControlProcessed(coord, ControlSnapshot(WireId(k), n, spec))
  /\ UNCHANGED <<spec, stopped, overtaken>>

(* check_timeout: the previous CPI first, then the active one; each may    *)
(* have expired if a packet written to it carried a receive time.          *)
Expirable(w) == coord[w] # None /\ spec.timeout /\ Stamped /\ coord[w].slots # {}

CheckTimeout ==
  /\ Running
  /\ \E expired \in SUBSET {w \in Windows : Expirable(w)} :
       LET one == IF "previous" \in expired
                  THEN Finalized(coord, "previous", {"Timeout"}) ELSE coord
       IN  coord' = IF "active" \in expired
                    THEN Finalized(one, "active", {"Timeout"}) ELSE one
  /\ UNCHANGED <<spec, stopped, newest, overtaken>>

(* drain_recycle, with the tokens it finds. *)
DrainRecycle ==
  /\ \E tokens \in 1 .. coord.lent :
       coord' = [coord EXCEPT !.inUse = @ - tokens, !.lent = @ - tokens]
  /\ UNCHANGED <<spec, stopped, newest, overtaken>>

(* finalize_active_for_shutdown *)
Shutdown ==
  /\ ~stopped
  /\ stopped' = TRUE
  /\ coord' = Finalized(Finalized(coord, "previous", {"Stop"}), "active", {"Stop"})
  /\ UNCHANGED <<spec, newest, overtaken>>

(* The consumer thread takes an output. *)
ConsumerTakes ==
  /\ coord.outputs # <<>>
  /\ coord' = [coord EXCEPT !.outputs = Tail(@), !.lent = @ + 1]
  /\ UNCHANGED <<spec, stopped, newest, overtaken>>

Next ==
  \/ DataPacket \/ ControlPacket \/ CheckTimeout \/ DrainRecycle \/ Shutdown
  \/ ConsumerTakes

Spec == Init /\ [][Next]_vars

-----------------------------------------------------------------------------
(* Properties *)

(* No context of the pool is lost or given back twice: those taken are the *)
(* two windows', the output ring's and the consumer's, on every path       *)
(* through the handlers - a dropped output, a declined finalization, an    *)
(* exhausted pool after the windows were already switched.                 *)
PoolBalances ==
  coord.inUse = Cardinality({w \in Windows : coord[w] # None})
                + Len(coord.outputs) + coord.lent

(* The counters the decisions are taken from agree with the bitmap of what *)
(* is there, in both windows, whatever order packets and duplicates came   *)
(* in: the tracker counts a channel, and a PRT, once.                      *)
SummaryMatchesSlots == \A w \in Windows : coord[w] # None => Consistent(coord[w])

(* What the consumer is told about a CPI is true of the slots it is shown: *)
(* the number of missing slots is the number of slots of its PRTs that     *)
(* were not received, COMPLETE_OK means that none is missing, and an       *)
(* incomplete CPI is committable if some PRT is whole.                     *)
OutputTruthful == \A i \in DOMAIN coord.outputs : Truthful(coord.outputs[i])

(* A CPI is decided once, as long as the network keeps the CPIs in order:  *)
(* packets of one CPI may be lost, duplicated and shuffled, and control    *)
(* packets may be late.  An early one counts as news of its CPI: data of a *)
(* CPI before it is then out of order.                                     *)
InOrderDecidedOnce == ~overtaken => \A c \in Ids : coord.decided[c] < 2

(* The same, for packets that come in any order.                           *)
DecidedOnce == \A c \in Ids : coord.decided[c] < 2

(* A CPI of which every slot was received is reported complete.            *)
FullIsComplete ==
  \A i \in DOMAIN coord.outputs :
    coord.outputs[i].missing = 0 => coord.outputs[i].decision = "COMPLETE_OK"

OpenTwice ==
  /\ coord.active # None /\ coord.previous # None
  /\ coord.active.cpi = coord.previous.cpi

(* What is in window w after a step was in window v before it: the active  *)
(* CPI stays or becomes the previous one, which stays.  The id tells, but  *)
(* in the previous window not while a late packet has opened the id in the *)
(* active one too (see DecidedOnce).                                       *)
SameContext(v, w) ==
  /\ coord[v] # None /\ coord'[w] # None /\ coord'[w].cpi = coord[v].cpi
  /\ \/ v = "active" /\ w = "active"
     \/ w = "previous" /\ ~OpenTwice

(* Once a control packet has told how many PRTs the CPI of a context has,  *)
(* nothing changes that while the context is open: no other control        *)
(* packet, repeated or contradicting, and not the switch to the previous   *)
(* window, whatever order the packets come in.  An id that a late packet   *)
(* opens again has a new context, which may be bound otherwise; while the  *)
(* old one still waits in the previous window, nothing is said of that.    *)
ControlBindingIsFinal ==
  [][\A v, w \in Windows :
       SameContext(v, w) /\ coord[v].control.source = "control"
       => coord'[w].control.source = "control" /\ coord'[w].control.n = coord[v].control.n]_vars
=============================================================================
