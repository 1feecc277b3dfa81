--------------------------- MODULE OutputPipeline ---------------------------
(***************************************************************************)
(* The two threads of the receiver and the CPI contexts that travel        *)
(* between them: OwnerLoop::run with the context handling of               *)
(* CpiStateCoordinator on one side, CpiConsumer::run on the other, and the *)
(* output ring and the recycle ring between them.                          *)
(*                                                                         *)
(* A step is one access to something both threads see: a push or a pop of  *)
(* a ring (atomic here: SpscRing implements BoundedFifo), a load or the    *)
(* store of consumer_stop.  What a packet holds is abstracted to what it   *)
(* makes the coordinator do to its contexts; CpiCoordinator.tla has the    *)
(* data.                                                                   *)
(***************************************************************************)
EXTENDS Naturals, FiniteSets, SequencesExt

CONSTANTS
  Depth,          (* kCpiContextPoolDepth                              *)
  OutputCapacity, (* usable capacity of the output ring                *)
  RecycleCapacity,(* usable capacity of the recycle ring               *)
  DropIsError,    (* output_drop_policy = "error"                      *)
  None            (* kInvalidPoolIndex, and "holds no output"          *)

Slots == 0 .. Depth - 1

ASSUME PipelineAssumption ==
  /\ Depth \in Nat \ {0}
  /\ OutputCapacity \in Nat \ {0} /\ RecycleCapacity \in Nat \ {0}
  /\ DropIsError \in BOOLEAN
  /\ None \notin Slots

VARIABLES
  state,       (* header.state of each context; it is in use unless recycled  *)
  active,      (* active_ctx_index_                                           *)
  previous,    (* previous_ctx_index_                                         *)
  outputRing,  (* pool_index of each CpiOutput in the ring                    *)
  recycleRing, (* ctx_pool_index of each ReleaseToken in the ring             *)
  pc,          (* where the owner thread is                                   *)
  attempt,     (* open_active's retry counter                                 *)
  degraded,    (* output_degraded_                                            *)
  runStatus,   (* run_status                                                  *)
  runError,    (* run_error is not empty                                      *)
  stop,        (* consumer_stop                                               *)
  conPc,       (* where the consumer thread is                                *)
  held         (* pool_index of the output the consumer is working on         *)

contextVars == <<state, active, previous>>
ownerVars == <<pc, attempt, degraded, runStatus, runError, stop>>
consumerVars == <<conPc, held>>
vars == <<contextVars, outputRing, recycleRing, ownerVars, consumerVars>>

OwnerSteps ==
  {"loop", "drain", "process", "rotate", "open", "openDrain", "openRecycled",
   "openYield", "write", "degrade", "next", "timeout", "timeoutActive", "drainEnd",
   "stopPrevious", "stopActive", "stopConsumer", "join", "drainFinal", "done"}

ConsumerSteps ==
  {"poll", "pop", "handle", "return", "spin", "drainPop", "drainHandle", "drainReturn",
   "exited"}

TypeOK ==
  /\ state \in [Slots -> {"recycled", "active", "sealed"}]
  /\ active \in Slots \cup {None}
  /\ previous \in Slots \cup {None}
  /\ outputRing \in Seq(Slots) /\ Len(outputRing) <= OutputCapacity
  /\ recycleRing \in Seq(Slots) /\ Len(recycleRing) <= RecycleCapacity
  /\ pc \in OwnerSteps
  /\ attempt \in 0 .. 3
  /\ degraded \in BOOLEAN /\ runError \in BOOLEAN /\ stop \in BOOLEAN
  /\ runStatus \in {"success", "degraded", "error"}
  /\ conPc \in ConsumerSteps
  /\ held \in Slots \cup {None}

Init ==
  /\ state = [s \in Slots |-> "recycled"]
  /\ active = None /\ previous = None
  /\ outputRing = <<>> /\ recycleRing = <<>>
  /\ pc = "loop" /\ attempt = 0
  /\ degraded = FALSE /\ runStatus = "success" /\ runError = FALSE
  /\ stop = FALSE
  /\ conPc = "poll" /\ held = None

-----------------------------------------------------------------------------
(* Operations of the pool and the ring ends, as the owner uses them *)

Owner(from, to) == pc = from /\ pc' = to /\ UNCHANGED consumerVars

Free == {s \in Slots : state[s] = "recycled"}

(* Mutant of Acquired: a context lent to the consumer counts as free. *)
AcquiredLent(s) ==
  /\ state[s] # "active"
  /\ \A t \in Slots : state[t] # "active" => s <= t

(* CpiContextPool::acquire: the lowest free index. *)
Acquired(s) == s \in Free /\ \A t \in Free : s <= t

(* CpiContextPool::release. *)
Release(s) == state' = [state EXCEPT ![s] = "recycled"]

(* One iteration of a drain loop: pop a token and release its context, ... *)
Drain(from, to) ==
  /\ Owner(from, to)
  /\ recycleRing # <<>>
  /\ Release(Head(recycleRing))
  /\ recycleRing' = Tail(recycleRing)
  /\ UNCHANGED <<active, previous, outputRing, attempt, degraded, runStatus, runError, stop>>

(* ... and the pop that finds the ring empty and ends the loop. *)
Drained(from, to) ==
  /\ Owner(from, to)
  /\ recycleRing = <<>>
  /\ UNCHANGED <<contextVars, outputRing, recycleRing, degraded, runStatus, runError, stop>>

(* Mutants of Output: one element too many or too few fits the ring; the   *)
(* context is released although its output was pushed.                     *)
OutputOverfills(s) ==
  /\ outputRing' = Append(outputRing, s)
  /\ state' = [state EXCEPT ![s] = "sealed"]
  /\ UNCHANGED degraded

OutputUnderfills(s) ==
  IF Len(outputRing) < OutputCapacity - 1
  THEN OutputOverfills(s)
  ELSE Release(s) /\ degraded' = TRUE /\ UNCHANGED outputRing

OutputReleases(s) ==
  IF Len(outputRing) < OutputCapacity
  THEN Release(s) /\ outputRing' = Append(outputRing, s) /\ UNCHANGED degraded
  ELSE Release(s) /\ degraded' = TRUE /\ UNCHANGED outputRing

(* The output of a finalized context: one non-blocking push.  On a full    *)
(* ring the output is dropped and its context released at once.            *)
Output(s) ==
  IF Len(outputRing) < OutputCapacity
  THEN /\ outputRing' = Append(outputRing, s)
       /\ state' = [state EXCEPT ![s] = "sealed"]
       /\ UNCHANGED degraded
  ELSE /\ Release(s)
       /\ degraded' = TRUE
       /\ UNCHANGED outputRing

-----------------------------------------------------------------------------
(* The owner thread: OwnerLoop::run *)

(* The loop condition holds and recv_burst returns datagrams or none. *)
ReceiveBurst ==
  /\ \E to \in {"drain", "timeout"} : Owner("loop", to)
  /\ UNCHANGED <<contextVars, outputRing, recycleRing, attempt, degraded, runStatus, runError, stop>>

(* should_stop() is true: the loop ends. *)
StopRequested ==
  /\ Owner("loop", "stopPrevious")
  /\ UNCHANGED <<contextVars, outputRing, recycleRing, attempt, degraded, runStatus, runError, stop>>

(* recv_burst fails: the loop ends with an error. *)
ReceiveFails ==
  /\ Owner("loop", "stopPrevious")
  /\ runStatus' = "error" /\ runError' = TRUE
  /\ UNCHANGED <<contextVars, outputRing, recycleRing, attempt, degraded, stop>>

(* drain_recycle before each datagram. *)
DrainDatagram == Drain("drain", "drain") \/ (Drained("drain", "process") /\ UNCHANGED attempt)

(* A datagram that changes no context: filtered, malformed, a control      *)
(* packet, a duplicate, a late packet, or data that completes nothing.     *)
NoContextChange ==
  /\ Owner("process", "degrade")
  /\ UNCHANGED <<contextVars, outputRing, recycleRing, attempt, degraded, runStatus, runError, stop>>

(* Mutant of FinalizeActive: the active window is not cleared. *)
FinalizeActiveKeeps ==
  /\ pc \in {"process", "write"} /\ pc' = "degrade"
  /\ active # None
  /\ Output(active)
  /\ UNCHANGED <<active, previous, recycleRing, attempt, runStatus, runError, stop, consumerVars>>

(* A data packet that completes the active CPI: finalize_active.  Also the *)
(* end of process_data_packet after it opened a CPI of its own.            *)
FinalizeActive ==
  /\ pc \in {"process", "write"} /\ pc' = "degrade"
  /\ active # None
  /\ Output(active)
  /\ active' = None
  /\ UNCHANGED <<previous, recycleRing, attempt, runStatus, runError, stop, consumerVars>>

(* A data packet finds no active CPI and opens its own. *)
OpenFirst ==
  /\ Owner("process", "open")
  /\ active = None
  /\ attempt' = 0
  /\ UNCHANGED <<contextVars, outputRing, recycleRing, degraded, runStatus, runError, stop>>

(* A data packet of the next CPI: finalize_previous(TriggerCpiSwitch), ... *)
SwitchFinalizePrevious ==
  /\ Owner("process", "rotate")
  /\ active # None
  /\ IF previous = None
     THEN UNCHANGED <<state, outputRing, degraded>>
     ELSE Output(previous)
  /\ previous' = None
  /\ UNCHANGED <<active, recycleRing, attempt, runStatus, runError, stop>>

(* Mutant of SwitchRotate: the active window is not cleared. *)
SwitchRotateKeeps ==
  /\ Owner("rotate", "open")
  /\ previous' = active
  /\ attempt' = 0
  /\ UNCHANGED <<state, active, outputRing, recycleRing, degraded, runStatus, runError, stop>>

(* ... then the active CPI becomes the previous one. *)
SwitchRotate ==
  /\ Owner("rotate", "open")
  /\ previous' = active
  /\ active' = None
  /\ attempt' = 0
  /\ UNCHANGED <<state, outputRing, recycleRing, degraded, runStatus, runError, stop>>

(* open_active: acquire a context, ... *)
OpenAcquire ==
  /\ Owner("open", "write")
  /\ \E s \in Slots : /\ Acquired(s)
                      /\ active' = s
                      /\ state' = [state EXCEPT ![s] = "active"]
  /\ UNCHANGED <<previous, outputRing, recycleRing, attempt, degraded, runStatus, runError, stop>>

(* ... or, up to three times, drain the recycle ring and try again: a      *)
(* drain that found nothing is repeated after a yield ...                  *)
OpenRetry ==
  /\ Owner("open", "openDrain")
  /\ Free = {}
  /\ attempt < 3
  /\ UNCHANGED <<contextVars, outputRing, recycleRing, attempt, degraded, runStatus, runError, stop>>

(* (Mutant of OpenDrain: nothing is drained.) *)
OpenDrainNothing ==
  /\ \/ Owner("openDrain", "openYield") /\ UNCHANGED attempt
     \/ Owner("openYield", "open") /\ attempt' = attempt + 1
  /\ UNCHANGED <<contextVars, outputRing, recycleRing, degraded, runStatus, runError, stop>>

OpenDrain ==
  \/ Drain("openDrain", "openRecycled")
  \/ Drain("openRecycled", "openRecycled")
  \/ Drain("openYield", "openYield")
  \/ Drained("openDrain", "openYield") /\ UNCHANGED attempt
  \/ Drained("openRecycled", "open") /\ attempt' = attempt + 1
  \/ Drained("openYield", "open") /\ attempt' = attempt + 1

(* ... and after the third time the run ends in error. *)
PoolExhausted ==
  /\ Owner("open", "degrade")
  /\ Free = {}
  /\ attempt = 3
  /\ runStatus' = "error" /\ runError' = TRUE
  /\ UNCHANGED <<contextVars, outputRing, recycleRing, attempt, degraded, stop>>

(* The packet that opened the CPI is written, or rejected, and does not    *)
(* complete it.                                                            *)
FirstWrite ==
  /\ Owner("write", "degrade")
  /\ UNCHANGED <<contextVars, outputRing, recycleRing, attempt, degraded, runStatus, runError, stop>>

(* apply_output_degradation. *)
Degrade ==
  runStatus' = IF degraded /\ (runStatus = "success" \/ (runStatus = "degraded" /\ DropIsError))
               THEN IF DropIsError THEN "error" ELSE "degraded"
               ELSE runStatus

(* After each datagram: degradation, then out of both loops on an error. *)
AfterDatagram ==
  /\ Owner("degrade", IF runError THEN "stopPrevious" ELSE "next")
  /\ Degrade
  /\ UNCHANGED <<contextVars, outputRing, recycleRing, attempt, degraded, runError, stop>>

(* Another datagram of the burst, or the end of it. *)
NextDatagram ==
  /\ \E to \in {"drain", "timeout"} : Owner("next", to)
  /\ UNCHANGED <<contextVars, outputRing, recycleRing, attempt, degraded, runStatus, runError, stop>>

(* A context given up without an output: finalize_* with a trigger the     *)
(* finalizer declines.                                                     *)
Discard(from, to) ==
  /\ Owner(from, to)
  /\ UNCHANGED <<outputRing, recycleRing, attempt, degraded, runStatus, runError, stop>>

DiscardPrevious(from, to) ==
  /\ Discard(from, to)
  /\ IF previous = None THEN UNCHANGED state ELSE Release(previous)
  /\ previous' = None
  /\ UNCHANGED active

DiscardActive(from, to) ==
  /\ Discard(from, to)
  /\ IF active = None THEN UNCHANGED state ELSE Release(active)
  /\ active' = None
  /\ UNCHANGED previous

(* check_timeout: either context may have expired. *)
CheckTimeout ==
  \/ DiscardPrevious("timeout", "timeoutActive")
  \/ DiscardActive("timeoutActive", "drainEnd")
  \/ /\ \/ Discard("timeout", "timeoutActive")
        \/ Discard("timeoutActive", "drainEnd")
     /\ UNCHANGED contextVars

(* drain_recycle at the end of the iteration. *)
DrainBurst == Drain("drainEnd", "drainEnd") \/ (Drained("drainEnd", "loop") /\ UNCHANGED attempt)

(* Shutdown: finalize_active_for_shutdown, degradation, consumer_stop,     *)
(* join, the last drain.                                                   *)
Shutdown ==
  \/ DiscardPrevious("stopPrevious", "stopActive")
  \/ DiscardActive("stopActive", "stopConsumer")

StopConsumer ==
  /\ Owner("stopConsumer", "join")
  /\ Degrade
  /\ stop' = TRUE
  /\ UNCHANGED <<contextVars, outputRing, recycleRing, attempt, degraded, runError>>

Join ==
  /\ Owner("join", "drainFinal")
  /\ conPc = "exited"
  /\ UNCHANGED <<contextVars, outputRing, recycleRing, attempt, degraded, runStatus, runError, stop>>

(* Mutant of DrainFinal: the last drain is left out. *)
DrainFinalNothing ==
  /\ Owner("drainFinal", "done")
  /\ UNCHANGED <<contextVars, outputRing, recycleRing, attempt, degraded, runStatus, runError, stop>>

DrainFinal == Drain("drainFinal", "drainFinal") \/ (Drained("drainFinal", "done") /\ UNCHANGED attempt)

OwnerNext ==
  \/ ReceiveBurst \/ StopRequested \/ ReceiveFails
  \/ DrainDatagram \/ NoContextChange \/ FinalizeActive
  \/ OpenFirst \/ SwitchFinalizePrevious \/ SwitchRotate
  \/ OpenAcquire \/ OpenRetry \/ OpenDrain \/ PoolExhausted \/ FirstWrite
  \/ AfterDatagram \/ NextDatagram \/ CheckTimeout \/ DrainBurst
  \/ Shutdown \/ StopConsumer \/ Join \/ DrainFinal

-----------------------------------------------------------------------------
(* The consumer thread: CpiConsumer::run *)

Consumer(from, to) ==
  /\ conPc = from /\ conPc' = to
  /\ UNCHANGED <<contextVars, ownerVars>>

(* Mutant of Poll: the stop flag is not looked at. *)
PollForever ==
  /\ Consumer("poll", "pop")
  /\ UNCHANGED <<held, outputRing, recycleRing>>

(* while (!stop_flag) *)
Poll ==
  /\ Consumer("poll", IF stop THEN "drainPop" ELSE "pop")
  /\ UNCHANGED <<held, outputRing, recycleRing>>

Take(from, to) ==
  /\ Consumer(from, to)
  /\ outputRing # <<>>
  /\ held' = Head(outputRing)
  /\ outputRing' = Tail(outputRing)
  /\ UNCHANGED recycleRing

TakeEmpty(from, to) ==
  /\ Consumer(from, to)
  /\ outputRing = <<>>
  /\ UNCHANGED <<held, outputRing, recycleRing>>

PopOutput == Take("pop", "handle") \/ TakeEmpty("pop", "poll")

(* The handler reads the context through the output's view. *)
Handle ==
  /\ Consumer("handle", "return") \/ Consumer("drainHandle", "drainReturn")
  /\ UNCHANGED <<held, outputRing, recycleRing>>

ReturnToken(from, to) ==
  /\ Consumer(from, to)
  /\ Len(recycleRing) < RecycleCapacity
  /\ recycleRing' = Append(recycleRing, held)
  /\ held' = None
  /\ UNCHANGED outputRing

ReturnFull(from, to) ==
  /\ Consumer(from, to)
  /\ Len(recycleRing) = RecycleCapacity
  /\ UNCHANGED <<outputRing, recycleRing>>

(* Mutant of Return: the token is not pushed. *)
ReturnNothing ==
  /\ Consumer("return", "poll")
  /\ held' = None
  /\ UNCHANGED <<outputRing, recycleRing>>

(* Push the release token; on a full ring, spin until there is room ... *)
Return ==
  \/ ReturnToken("return", "poll")
  \/ ReturnFull("return", "spin") /\ UNCHANGED held

(* (Mutant of Spin: the stop flag is not looked at.) *)
SpinForever ==
  /\ Consumer("spin", "return")
  /\ UNCHANGED <<held, outputRing, recycleRing>>

(* ... or the stop flag is seen, and then the token is given up. *)
Spin ==
  /\ Consumer("spin", IF stop THEN "poll" ELSE "return")
  /\ held' = IF stop THEN None ELSE held
  /\ UNCHANGED <<outputRing, recycleRing>>

(* The drain after the loop: the result of the push is ignored. *)
DrainOutputs ==
  \/ Take("drainPop", "drainHandle")
  \/ TakeEmpty("drainPop", "exited")
  \/ ReturnToken("drainReturn", "drainPop")
  \/ ReturnFull("drainReturn", "drainPop") /\ held' = None

ConsumerNext == Poll \/ PopOutput \/ Handle \/ Return \/ Spin \/ DrainOutputs

-----------------------------------------------------------------------------
Terminated == pc = "done" /\ conPc = "exited" /\ UNCHANGED vars

Next == OwnerNext \/ ConsumerNext \/ Terminated

Spec == Init /\ [][Next]_vars

(* Both threads keep running: recv_burst returns (it polls, or its socket  *)
(* has a timeout) and the output handler returns.                          *)
FairSpec == Spec /\ WF_vars(OwnerNext) /\ WF_vars(ConsumerNext)

-----------------------------------------------------------------------------
(* Properties *)

(* A context lent to the consumer is in one place of one ring, or held.    *)
LentOnce ==
  /\ IsInjective(outputRing) /\ IsInjective(recycleRing)
  /\ ToSet(outputRing) \cap ToSet(recycleRing) = {}
  /\ held \notin ToSet(outputRing) \cup ToSet(recycleRing)
  /\ \A s \in ToSet(outputRing) \cup ToSet(recycleRing) : state[s] = "sealed"
  /\ held # None => state[held] = "sealed"

(* The windows are two different contexts, and the only active ones.       *)
WindowsDistinct ==
  /\ active # None => state[active] = "active"
  /\ previous # None => state[previous] = "active"
  /\ active # None => active # previous
  /\ \A s \in Slots : state[s] = "active" => s \in {active, previous}

(* Every context has one holder: the pool, the active or the previous      *)
(* window, the output ring, the consumer or the recycle ring.  So the      *)
(* owner never resets or rewrites a context the consumer may still read,   *)
(* and no context is recycled twice.                                       *)
OneHolder == LentOnce /\ WindowsDistinct

(* What the two threads' places in their loops say of the rest.  While     *)
(* open_active is under way no CPI is active, between the two halves of a  *)
(* switch none is previous - or the assignment of either window would lose *)
(* a context -, a drain of open_active leaves an attempt, and the consumer *)
(* holds an output exactly from the pop to the push of its token.          *)
PlaceInvariant ==
  /\ pc \in {"open", "openDrain", "openRecycled", "openYield"} => active = None
  /\ pc \in {"openDrain", "openRecycled", "openYield"} => attempt < 3
  /\ pc = "rotate" => previous = None /\ active # None
  /\ held # None <=>
       conPc \in {"handle", "return", "spin", "drainHandle", "drainReturn"}

(* The inductive invariant.                                                *)
PipelineInvariant == TypeOK /\ OneHolder /\ PlaceInvariant

(* While the consumer can reach a context through an output it has not     *)
(* returned, nothing about that context changes.                           *)
ViewIsStable ==
  [][\A s \in ToSet(outputRing) \cup {held} :
       s # None /\ s \in ToSet(outputRing') \cup {held'} => state'[s] = state[s]]_vars

Holder ==
  [s \in Slots |-> IF s = active THEN "active"
                   ELSE IF s = previous THEN "previous"
                   ELSE IF state[s] = "sealed" THEN "lent"
                   ELSE "free"]

Lifecycle == INSTANCE ContextLifecycle WITH holder <- Holder

(* The pipeline implements the hand-over protocol of the contexts. *)
ImplementsLifecycle == Lifecycle!Spec

(* A slow consumer degrades the run's result at worst: the run is ended by *)
(* an error of the backend, at the top of the loop, and by nothing that    *)
(* happens while a packet is processed.                                    *)
SlowConsumerNotFatal == [][runError' # runError => pc = "loop"]_vars

(* An output ring with room for every context of the pool never overflows, *)
(* however slow the consumer is.                                           *)
OutputNeverDropped == OutputCapacity >= Depth => ~degraded

(* After the last drain every context is back in the pool. *)
AllReleasedAtExit == pc = "done" => Free = Slots

(* A run that is stopped comes to its end: the join never hangs. *)
ShutdownCompletes == (pc = "stopPrevious") ~> (pc = "done")

(* Every context handed to the consumer returns to the pool. *)
LentIsReturned == \A s \in Slots : (state[s] = "sealed") ~> (state[s] = "recycled")
=============================================================================
