------------------------ MODULE OutputPipelineProofs ------------------------
(***************************************************************************)
(* Proofs about OutputPipeline.tla, for every pool, every capacity of the  *)
(* two rings and both drop policies: each context has one holder at a      *)
(* time, the two threads implement the hand-over protocol of               *)
(* ContextLifecycle.tla, and for which sizes of pool and rings nothing is  *)
(* dropped, nothing is lost and the pool never runs dry.                   *)
(***************************************************************************)
EXTENDS OutputPipeline, SequenceFacts, FiniteSetTheorems, TLAPS

-----------------------------------------------------------------------------
(* What the steps that move a context do to the invariant *)

(* Nothing of the contexts, the rings or the consumer's output changes.    *)
LEMMA NothingMoves ==
  ASSUME OneHolder, UNCHANGED <<contextVars, outputRing, recycleRing, held>>
  PROVE  OneHolder'
BY DEF OneHolder, LentOnce, WindowsDistinct, contextVars

(* A window's context goes back to the pool: nobody else refers to it.     *)
LEMMA ReleaseKeepsLent ==
  ASSUME TypeOK, LentOnce, NEW s \in Slots, state[s] = "active", Release(s),
         UNCHANGED <<outputRing, recycleRing, held>>
  PROVE  LentOnce'
<1>1. \A t \in Slots : t # s => state'[t] = state[t]
  BY DEF Release, TypeOK
<1>2. \A t \in ToSet(outputRing) \cup ToSet(recycleRing) : t \in Slots /\ t # s
  BY DEF TypeOK, LentOnce, ToSet
<1>3. held # None => held \in Slots /\ held # s
  BY DEF TypeOK, LentOnce
<1>4. QED
  BY <1>1, <1>2, <1>3 DEF LentOnce

(* A window's context is finalized: lent through the output ring, or back  *)
(* in the pool when the ring is full.                                      *)
LEMMA OutputKeepsLent ==
  ASSUME TypeOK, LentOnce, NEW s \in Slots, state[s] = "active", Output(s),
         UNCHANGED <<recycleRing, held>>
  PROVE  /\ LentOnce'
         /\ outputRing' \in Seq(Slots) /\ Len(outputRing') <= OutputCapacity
         /\ degraded' \in BOOLEAN
         /\ \E to \in {"sealed", "recycled"} : state' = [state EXCEPT ![s] = to]
<1> USE PipelineAssumption
<1>1. CASE Len(outputRing) < OutputCapacity
  <2>1. /\ outputRing' = Append(outputRing, s) /\ degraded' = degraded
        /\ state' = [state EXCEPT ![s] = "sealed"]
    BY <1>1 DEF Output
  <2>2. s \notin ToSet(outputRing) \cup ToSet(recycleRing) /\ s # held /\ s # None
    BY DEF LentOnce
  <2>3. /\ outputRing' \in Seq(Slots) /\ Len(outputRing') = Len(outputRing) + 1
        /\ ToSet(outputRing') = ToSet(outputRing) \cup {s}
        /\ IsInjective(outputRing')
    BY <2>1, <2>2, AppendFacts DEF TypeOK, LentOnce
  <2>4. state'[s] = "sealed" /\ \A t \in Slots : t # s => state'[t] = state[t]
    BY <2>1 DEF TypeOK
  <2>5. ToSet(outputRing) \cup ToSet(recycleRing) \subseteq Slots
    BY DEF TypeOK, ToSet
  <2>6. LentOnce'
    BY <2>2, <2>3, <2>4, <2>5 DEF LentOnce, TypeOK
  <2>7. QED
    BY <1>1, <2>1, <2>3, <2>6 DEF TypeOK
<1>2. CASE ~(Len(outputRing) < OutputCapacity)
  <2>1. Release(s) /\ degraded' = TRUE /\ UNCHANGED outputRing
    BY <1>2 DEF Output
  <2>2. QED
    BY <2>1, ReleaseKeepsLent DEF Release, TypeOK
<1>3. QED
  BY <1>1, <1>2

(* A token is drained: its context was lent, so it is in no window.        *)
LEMMA DrainKeeps ==
  ASSUME TypeOK, OneHolder, NEW from, NEW to \in OwnerSteps, Drain(from, to)
  PROVE  TypeOK' /\ OneHolder' /\ state[Head(recycleRing)] = "sealed"
         /\ Head(recycleRing) \in Slots
<1> DEFINE s == Head(recycleRing)
<1>1. /\ recycleRing # <<>> /\ recycleRing' = Tail(recycleRing)
      /\ state' = [state EXCEPT ![s] = "recycled"]
      /\ UNCHANGED <<active, previous, outputRing, attempt, degraded, runStatus, runError,
                     stop, conPc, held>>
      /\ pc' = to
  BY DEF Drain, Owner, Release, consumerVars
<1>2. /\ recycleRing' \in Seq(Slots) /\ Len(recycleRing') = Len(recycleRing) - 1
      /\ s \in Slots /\ s \in ToSet(recycleRing)
      /\ ToSet(recycleRing') \subseteq ToSet(recycleRing)
      /\ IsInjective(recycleRing') /\ s \notin ToSet(recycleRing')
  BY <1>1, TailFacts DEF TypeOK, OneHolder, LentOnce
<1> HIDE DEF s
<1>3. state[s] = "sealed"
  BY <1>2 DEF OneHolder, LentOnce
<1>4. state'[s] = "recycled" /\ \A t \in Slots : t # s => state'[t] = state[t]
  BY <1>1, <1>2 DEF TypeOK
<1>5. TypeOK'
  <2>1. state' \in [Slots -> {"recycled", "active", "sealed"}]
    BY <1>1, <1>2 DEF TypeOK
  <2>2. Len(recycleRing') <= RecycleCapacity
    BY <1>2, PipelineAssumption DEF TypeOK
  <2>3. QED
    BY <1>1, <1>2, <2>1, <2>2 DEF TypeOK
<1>6. LentOnce'
  <2>1. ToSet(outputRing) \subseteq Slots /\ ToSet(recycleRing') \subseteq Slots
    BY <1>2 DEF TypeOK, ToSet
  <2>2. s \notin ToSet(outputRing) /\ s # held
    BY <1>2 DEF OneHolder, LentOnce
  <2>3. QED
    BY <1>1, <1>2, <1>4, <2>1, <2>2 DEF OneHolder, LentOnce, TypeOK
<1>7. WindowsDistinct'
  BY <1>1, <1>3, <1>4 DEF OneHolder, WindowsDistinct, TypeOK
<1>8. QED
  BY <1>2, <1>3, <1>5, <1>6, <1>7 DEF OneHolder, s

(* The consumer takes an output: from the ring into its hands.             *)
LEMMA TakeKeeps ==
  ASSUME TypeOK, OneHolder, NEW from, NEW to \in ConsumerSteps, Take(from, to)
  PROVE  TypeOK' /\ OneHolder' /\ held' # None
<1>1. /\ outputRing # <<>> /\ outputRing' = Tail(outputRing) /\ held' = Head(outputRing)
      /\ UNCHANGED <<state, active, previous, recycleRing>>
      /\ UNCHANGED ownerVars /\ conPc' = to
  BY DEF Take, Consumer, contextVars
<1>2. /\ outputRing' \in Seq(Slots) /\ Len(outputRing') = Len(outputRing) - 1
      /\ held' \in Slots /\ held' \in ToSet(outputRing)
      /\ ToSet(outputRing') \subseteq ToSet(outputRing)
      /\ IsInjective(outputRing') /\ held' \notin ToSet(outputRing')
  BY <1>1, TailFacts DEF TypeOK, OneHolder, LentOnce
<1>3. TypeOK'
  BY <1>1, <1>2, PipelineAssumption DEF TypeOK, ownerVars
<1>4. LentOnce'
  BY <1>1, <1>2 DEF OneHolder, LentOnce
<1>5. WindowsDistinct'
  BY <1>1 DEF OneHolder, WindowsDistinct
<1>6. QED
  BY <1>2, <1>3, <1>4, <1>5, PipelineAssumption DEF OneHolder

(* The consumer returns a token: from its hands into the recycle ring.     *)
LEMMA ReturnKeeps ==
  ASSUME TypeOK, OneHolder, held # None,
         NEW from, NEW to \in ConsumerSteps, ReturnToken(from, to)
  PROVE  TypeOK' /\ OneHolder' /\ held' = None
<1>1. /\ Len(recycleRing) < RecycleCapacity
      /\ recycleRing' = Append(recycleRing, held) /\ held' = None
      /\ UNCHANGED <<state, active, previous, outputRing>>
      /\ UNCHANGED ownerVars /\ conPc' = to
  BY DEF ReturnToken, Consumer, contextVars
<1>2. held \in Slots /\ held \notin ToSet(outputRing) \cup ToSet(recycleRing)
  BY DEF TypeOK, OneHolder, LentOnce
<1>3. /\ recycleRing' \in Seq(Slots) /\ Len(recycleRing') = Len(recycleRing) + 1
      /\ ToSet(recycleRing') = ToSet(recycleRing) \cup {held}
      /\ IsInjective(recycleRing')
  BY <1>1, <1>2, AppendFacts DEF TypeOK, OneHolder, LentOnce
<1>4. ToSet(outputRing) \cup ToSet(recycleRing') \subseteq Slots
  BY <1>3, <1>2 DEF TypeOK, ToSet
<1>5. TypeOK'
  BY <1>1, <1>3, PipelineAssumption DEF TypeOK, ownerVars
<1>6. LentOnce'
  BY <1>1, <1>2, <1>3, <1>4, PipelineAssumption DEF OneHolder, LentOnce
<1>7. WindowsDistinct'
  BY <1>1 DEF OneHolder, WindowsDistinct
<1>8. QED
  BY <1>1, <1>5, <1>6, <1>7 DEF OneHolder

(* A step of the owner that moves no context and goes on to a place that   *)
(* promises nothing about the windows.                                     *)
LEMMA OwnerGoesOn ==
  ASSUME PipelineInvariant, NEW from,
         NEW to \in OwnerSteps \ {"rotate", "open", "openDrain", "openRecycled", "openYield"},
         Owner(from, to), UNCHANGED <<contextVars, outputRing, recycleRing>>,
         attempt' \in 0 .. 3, degraded' = degraded, runError' \in BOOLEAN, stop' \in BOOLEAN,
         runStatus' \in {"success", "degraded", "error"}
  PROVE  PipelineInvariant'
<1>1. UNCHANGED <<state, active, previous, outputRing, recycleRing, conPc, held>> /\ pc' = to
  BY DEF Owner, contextVars, consumerVars
<1>2. TypeOK'
  BY <1>1 DEF PipelineInvariant, TypeOK
<1>3. OneHolder'
  BY <1>1, NothingMoves DEF PipelineInvariant, contextVars
<1>4. PlaceInvariant'
  BY <1>1 DEF PipelineInvariant, PlaceInvariant
<1>5. QED
  BY <1>2, <1>3, <1>4 DEF PipelineInvariant

(* An iteration of a drain loop, at a place where the windows stay as they *)
(* are.                                                                    *)
LEMMA DrainGoesOn ==
  ASSUME PipelineInvariant, NEW from, NEW to \in OwnerSteps \ {"rotate"},
         to \in {"open", "openDrain", "openRecycled", "openYield"} => active = None,
         to \in {"openDrain", "openRecycled", "openYield"} => attempt < 3,
         Drain(from, to)
  PROVE  PipelineInvariant'
<1>1. TypeOK' /\ OneHolder'
  BY DrainKeeps DEF PipelineInvariant
<1>2. UNCHANGED <<active, attempt, conPc, held>> /\ pc' = to
  BY DEF Drain, Owner, consumerVars
<1>3. QED
  BY <1>1, <1>2 DEF PipelineInvariant, PlaceInvariant

(* A window is given up without an output.                                 *)
LEMMA DiscardGoesOn ==
  ASSUME PipelineInvariant, NEW from,
         NEW to \in OwnerSteps \ {"rotate", "open", "openDrain", "openRecycled", "openYield"},
         DiscardPrevious(from, to) \/ DiscardActive(from, to)
  PROVE  PipelineInvariant'
<1> USE PipelineAssumption
<1> TypeOK /\ OneHolder /\ LentOnce /\ WindowsDistinct
  BY DEF PipelineInvariant, OneHolder
<1>1. /\ UNCHANGED <<outputRing, recycleRing, attempt, degraded, runStatus, runError, stop,
                     conPc, held>>
      /\ pc' = to
  BY DEF DiscardPrevious, DiscardActive, Discard, Owner, consumerVars
<1>2. CASE DiscardPrevious(from, to)
  <2>1. /\ previous' = None /\ active' = active
        /\ state' = IF previous = None THEN state
                    ELSE [state EXCEPT ![previous] = "recycled"]
    BY <1>2 DEF DiscardPrevious, Release
  <2>2. LentOnce'
    <3>1. CASE previous = None
      BY <1>1, <2>1, <3>1 DEF LentOnce
    <3>2. CASE previous # None
      <4>1. previous \in Slots /\ state[previous] = "active" /\ Release(previous)
        BY <2>1, <3>2 DEF TypeOK, WindowsDistinct, Release
      <4>2. QED
        BY <1>1, <4>1, ReleaseKeepsLent
    <3>3. QED
      BY <3>1, <3>2
  <2>3. TypeOK' /\ WindowsDistinct'
    BY <1>1, <2>1 DEF TypeOK, WindowsDistinct
  <2>4. QED
    BY <1>1, <2>1, <2>2, <2>3 DEF PipelineInvariant, OneHolder, PlaceInvariant
<1>3. CASE DiscardActive(from, to)
  <2>1. /\ active' = None /\ previous' = previous
        /\ state' = IF active = None THEN state
                    ELSE [state EXCEPT ![active] = "recycled"]
    BY <1>3 DEF DiscardActive, Release
  <2>2. LentOnce'
    <3>1. CASE active = None
      BY <1>1, <2>1, <3>1 DEF LentOnce
    <3>2. CASE active # None
      <4>1. active \in Slots /\ state[active] = "active" /\ Release(active)
        BY <2>1, <3>2 DEF TypeOK, WindowsDistinct, Release
      <4>2. QED
        BY <1>1, <4>1, ReleaseKeepsLent
    <3>3. QED
      BY <3>1, <3>2
  <2>3. TypeOK' /\ WindowsDistinct'
    BY <1>1, <2>1 DEF TypeOK, WindowsDistinct
  <2>4. QED
    BY <1>1, <2>1, <2>2, <2>3 DEF PipelineInvariant, OneHolder, PlaceInvariant
<1>4. QED
  BY <1>2, <1>3

(* A step of the consumer that moves no context.                           *)
LEMMA ConsumerGoesOn ==
  ASSUME PipelineInvariant, NEW from, NEW to \in ConsumerSteps, Consumer(from, to),
         UNCHANGED <<outputRing, recycleRing>>, held' \in {held, None},
         held' # None <=> to \in {"handle", "return", "spin", "drainHandle", "drainReturn"}
  PROVE  PipelineInvariant'
<1>1. UNCHANGED <<state, active, previous, outputRing, recycleRing, ownerVars>> /\ conPc' = to
  BY DEF Consumer, contextVars
<1>2. TypeOK'
  BY <1>1 DEF PipelineInvariant, TypeOK, ownerVars
<1>3. LentOnce'
  <2>1. ToSet(outputRing) \cup ToSet(recycleRing) \subseteq Slots
    BY DEF PipelineInvariant, TypeOK, ToSet
  <2>2. QED
    BY <1>1, <2>1, PipelineAssumption DEF PipelineInvariant, OneHolder, LentOnce
<1>4. WindowsDistinct' /\ PlaceInvariant'
  BY <1>1 DEF PipelineInvariant, OneHolder, WindowsDistinct, PlaceInvariant, ownerVars
<1>5. QED
  BY <1>2, <1>3, <1>4 DEF PipelineInvariant, OneHolder

-----------------------------------------------------------------------------
(* The steps that change a window *)

(* A finalized window: the output is pushed or dropped, and the window is  *)
(* empty.                                                                  *)
LEMMA FinalizeActiveKeepsInvariant ==
  ASSUME PipelineInvariant, FinalizeActive
  PROVE  PipelineInvariant'
<1> USE PipelineAssumption
<1>1. /\ active # None /\ Output(active) /\ active' = None /\ pc' = "degrade"
      /\ UNCHANGED <<previous, recycleRing, attempt, runStatus, runError, stop, conPc, held>>
  BY DEF FinalizeActive, consumerVars
<1>2. active \in Slots /\ state[active] = "active"
  BY <1>1 DEF PipelineInvariant, OneHolder, WindowsDistinct, TypeOK
<1>3. /\ LentOnce'
      /\ outputRing' \in Seq(Slots) /\ Len(outputRing') <= OutputCapacity
      /\ degraded' \in BOOLEAN
  BY <1>1, <1>2, OutputKeepsLent DEF PipelineInvariant, OneHolder
<1>4. PICK to \in {"sealed", "recycled"} : state' = [state EXCEPT ![active] = to]
  BY <1>1, <1>2, OutputKeepsLent DEF PipelineInvariant, OneHolder
<1>5. TypeOK'
  BY <1>1, <1>2, <1>3, <1>4 DEF PipelineInvariant, TypeOK, OwnerSteps
<1>6. WindowsDistinct'
  BY <1>1, <1>2, <1>4 DEF PipelineInvariant, OneHolder, WindowsDistinct, TypeOK
<1>7. PlaceInvariant'
  BY <1>1 DEF PipelineInvariant, PlaceInvariant
<1>8. QED
  BY <1>3, <1>5, <1>6, <1>7 DEF PipelineInvariant, OneHolder

LEMMA SwitchFinalizeKeepsInvariant ==
  ASSUME PipelineInvariant, SwitchFinalizePrevious
  PROVE  PipelineInvariant'
<1> USE PipelineAssumption
<1>1. /\ active # None /\ previous' = None /\ pc' = "rotate"
      /\ UNCHANGED <<active, recycleRing, attempt, runStatus, runError, stop, conPc, held>>
  BY DEF SwitchFinalizePrevious, Owner, consumerVars
<1>2. CASE previous = None
  <2>1. UNCHANGED <<state, outputRing, degraded>>
    BY <1>2 DEF SwitchFinalizePrevious
  <2>2. OneHolder'
    BY <1>1, <1>2, <2>1, NothingMoves DEF PipelineInvariant, contextVars
  <2>3. QED
    BY <1>1, <2>1, <2>2 DEF PipelineInvariant, TypeOK, OwnerSteps, PlaceInvariant
<1>3. CASE previous # None
  <2>1. Output(previous) /\ previous \in Slots /\ state[previous] = "active"
    BY <1>3 DEF SwitchFinalizePrevious, PipelineInvariant, OneHolder, WindowsDistinct, TypeOK
  <2>2. /\ LentOnce'
        /\ outputRing' \in Seq(Slots) /\ Len(outputRing') <= OutputCapacity
        /\ degraded' \in BOOLEAN
    BY <1>1, <2>1, OutputKeepsLent DEF PipelineInvariant, OneHolder
  <2>3. PICK to \in {"sealed", "recycled"} : state' = [state EXCEPT ![previous] = to]
    BY <1>1, <2>1, OutputKeepsLent DEF PipelineInvariant, OneHolder
  <2>4. TypeOK'
    BY <1>1, <2>1, <2>2, <2>3 DEF PipelineInvariant, TypeOK, OwnerSteps
  <2>5. WindowsDistinct'
    BY <1>1, <2>1, <2>3 DEF PipelineInvariant, OneHolder, WindowsDistinct, TypeOK
  <2>6. PlaceInvariant'
    BY <1>1 DEF PipelineInvariant, PlaceInvariant
  <2>7. QED
    BY <2>2, <2>4, <2>5, <2>6 DEF PipelineInvariant, OneHolder
<1>4. QED
  BY <1>2, <1>3

LEMMA SwitchRotateKeepsInvariant ==
  ASSUME PipelineInvariant, SwitchRotate
  PROVE  PipelineInvariant'
<1>1. /\ pc = "rotate" /\ pc' = "open" /\ previous' = active /\ active' = None /\ attempt' = 0
      /\ UNCHANGED <<state, outputRing, recycleRing, degraded, runStatus, runError, stop,
                     conPc, held>>
  BY DEF SwitchRotate, Owner, consumerVars
<1>2. previous = None /\ active # None
  BY <1>1 DEF PipelineInvariant, PlaceInvariant
<1>3. TypeOK' /\ PlaceInvariant'
  BY <1>1 DEF PipelineInvariant, TypeOK, OwnerSteps, PlaceInvariant
<1>4. LentOnce'
  BY <1>1 DEF PipelineInvariant, OneHolder, LentOnce
<1>5. WindowsDistinct'
  BY <1>1, <1>2, PipelineAssumption DEF PipelineInvariant, OneHolder, WindowsDistinct
<1>6. QED
  BY <1>3, <1>4, <1>5 DEF PipelineInvariant, OneHolder

LEMMA OpenAcquireKeepsInvariant ==
  ASSUME PipelineInvariant, OpenAcquire
  PROVE  PipelineInvariant'
<1> USE PipelineAssumption
<1>1. /\ pc = "open" /\ pc' = "write"
      /\ UNCHANGED <<previous, outputRing, recycleRing, attempt, degraded, runStatus, runError,
                     stop, conPc, held>>
  BY DEF OpenAcquire, Owner, consumerVars
<1>2. PICK s \in Slots : /\ Acquired(s) /\ active' = s
                         /\ state' = [state EXCEPT ![s] = "active"]
  BY DEF OpenAcquire
<1>3. state[s] = "recycled" /\ active = None /\ s # None
  BY <1>1, <1>2 DEF Acquired, Free, PipelineInvariant, PlaceInvariant
<1>4. state'[s] = "active" /\ \A t \in Slots : t # s => state'[t] = state[t]
  BY <1>2 DEF PipelineInvariant, TypeOK
<1>5. TypeOK'
  BY <1>1, <1>2 DEF PipelineInvariant, TypeOK, OwnerSteps
<1>6. LentOnce'
  <2>1. ToSet(outputRing) \cup ToSet(recycleRing) \subseteq Slots
    BY DEF PipelineInvariant, TypeOK, ToSet
  <2>2. s \notin ToSet(outputRing) \cup ToSet(recycleRing) /\ s # held
    BY <1>3 DEF PipelineInvariant, OneHolder, LentOnce
  <2>3. held # None => held \in Slots
    BY DEF PipelineInvariant, TypeOK
  <2>4. QED
    BY <1>1, <1>4, <2>1, <2>2, <2>3 DEF PipelineInvariant, OneHolder, LentOnce
<1>7. WindowsDistinct'
  BY <1>1, <1>2, <1>3, <1>4 DEF PipelineInvariant, OneHolder, WindowsDistinct, TypeOK
<1>8. PlaceInvariant'
  BY <1>1 DEF PipelineInvariant, PlaceInvariant
<1>9. QED
  BY <1>5, <1>6, <1>7, <1>8 DEF PipelineInvariant, OneHolder

(* Within open_active: no CPI is active, and only the drains change a      *)
(* context.                                                                *)
LEMMA OpenGoesOn ==
  ASSUME PipelineInvariant, NEW from \in {"process", "open", "openDrain", "openRecycled", "openYield"},
         NEW to \in {"open", "openDrain", "openRecycled", "openYield"},
         Owner(from, to), active = None, UNCHANGED <<contextVars, outputRing, recycleRing>>,
         attempt' \in 0 .. 3, UNCHANGED <<degraded, runStatus, runError, stop>>,
         to \in {"openDrain", "openRecycled", "openYield"} => attempt' < 3
  PROVE  PipelineInvariant'
<1>1. UNCHANGED <<state, active, previous, outputRing, recycleRing, conPc, held>> /\ pc' = to
  BY DEF Owner, contextVars, consumerVars
<1>2. TypeOK' /\ PlaceInvariant'
  BY <1>1 DEF PipelineInvariant, TypeOK, OwnerSteps, PlaceInvariant
<1>3. OneHolder'
  BY <1>1, NothingMoves DEF PipelineInvariant, contextVars
<1>4. QED
  BY <1>2, <1>3 DEF PipelineInvariant

-----------------------------------------------------------------------------
(* The invariant *)

LEMMA InitEstablishes == Init => PipelineInvariant
<1> SUFFICES ASSUME Init PROVE PipelineInvariant
  OBVIOUS
<1> USE PipelineAssumption
<1>1. TypeOK
  <2>1. <<>> \in Seq(Slots) /\ Len(<<>>) = 0
    OBVIOUS
  <2>2. /\ state \in [Slots -> {"recycled", "active", "sealed"}]
        /\ outputRing \in Seq(Slots) /\ recycleRing \in Seq(Slots)
    BY <2>1 DEF Init
  <2>3. Len(outputRing) <= OutputCapacity /\ Len(recycleRing) <= RecycleCapacity
    BY <2>1 DEF Init
  <2>4. pc \in OwnerSteps /\ conPc \in ConsumerSteps
    BY DEF Init, OwnerSteps, ConsumerSteps
  <2>5. /\ {active, previous, held} \subseteq Slots \cup {None}
        /\ attempt \in 0 .. 3 /\ runStatus \in {"success", "degraded", "error"}
    BY DEF Init
  <2>6. degraded \in BOOLEAN /\ runError \in BOOLEAN /\ stop \in BOOLEAN
    BY DEF Init
  <2>7. QED
    BY <2>2, <2>3, <2>4, <2>5, <2>6 DEF TypeOK
<1>2. OneHolder
  BY DEF Init, OneHolder, LentOnce, WindowsDistinct, ToSet, IsInjective
<1>3. PlaceInvariant
  BY DEF Init, PlaceInvariant
<1>4. QED
  BY <1>1, <1>2, <1>3 DEF PipelineInvariant

LEMMA OwnerKeeps ==
  ASSUME PipelineInvariant, OwnerNext
  PROVE  PipelineInvariant'
<1> TypeOK /\ PlaceInvariant
  BY DEF PipelineInvariant
<1> USE DEF OwnerSteps
<1>1. CASE ReceiveBurst
  BY <1>1, OwnerGoesOn DEF ReceiveBurst, TypeOK
<1>2. CASE StopRequested
  BY <1>2, OwnerGoesOn DEF StopRequested, TypeOK
<1>3. CASE ReceiveFails
  BY <1>3, OwnerGoesOn DEF ReceiveFails, TypeOK
<1>4. CASE DrainDatagram
  <2>1. CASE Drain("drain", "drain")
    BY <2>1, DrainGoesOn
  <2>2. CASE Drained("drain", "process") /\ UNCHANGED attempt
    BY <2>2, OwnerGoesOn DEF Drained, TypeOK
  <2>3. QED
    BY <1>4, <2>1, <2>2 DEF DrainDatagram
<1>5. CASE NoContextChange
  BY <1>5, OwnerGoesOn DEF NoContextChange, TypeOK
<1>6. CASE FinalizeActive
  BY <1>6, FinalizeActiveKeepsInvariant
<1>7. CASE OpenFirst
  BY <1>7, OpenGoesOn DEF OpenFirst
<1>8. CASE SwitchFinalizePrevious
  BY <1>8, SwitchFinalizeKeepsInvariant
<1>9. CASE SwitchRotate
  BY <1>9, SwitchRotateKeepsInvariant
<1>10. CASE OpenAcquire
  BY <1>10, OpenAcquireKeepsInvariant
<1>11. CASE OpenRetry
  <2>1. active = None
    BY <1>11 DEF OpenRetry, Owner, PlaceInvariant
  <2>2. QED
    BY <1>11, <2>1, OpenGoesOn DEF OpenRetry, TypeOK
<1>12. CASE OpenDrain
  <2>1. active = None /\ attempt \in 0 .. 2
    BY <1>12 DEF OpenDrain, Drain, Drained, Owner, PlaceInvariant, TypeOK
  <2>2. CASE \/ Drain("openDrain", "openRecycled") \/ Drain("openRecycled", "openRecycled")
             \/ Drain("openYield", "openYield")
    BY <2>1, <2>2, DrainGoesOn
  <2>3. CASE Drained("openDrain", "openYield") /\ UNCHANGED attempt
    BY <2>1, <2>3, OpenGoesOn DEF Drained
  <2>4. CASE Drained("openRecycled", "open") /\ attempt' = attempt + 1
    BY <2>1, <2>4, OpenGoesOn DEF Drained
  <2>5. CASE Drained("openYield", "open") /\ attempt' = attempt + 1
    BY <2>1, <2>5, OpenGoesOn DEF Drained
  <2>6. QED
    BY <1>12, <2>2, <2>3, <2>4, <2>5 DEF OpenDrain
<1>13. CASE PoolExhausted
  BY <1>13, OwnerGoesOn DEF PoolExhausted, TypeOK
<1>14. CASE FirstWrite
  BY <1>14, OwnerGoesOn DEF FirstWrite, TypeOK
<1>15. CASE AfterDatagram
  <2>1. runStatus' \in {"success", "degraded", "error"}
    BY <1>15 DEF AfterDatagram, Degrade, TypeOK
  <2>2. QED
    BY <1>15, <2>1, OwnerGoesOn DEF AfterDatagram, TypeOK
<1>16. CASE NextDatagram
  BY <1>16, OwnerGoesOn DEF NextDatagram, TypeOK
<1>17. CASE CheckTimeout
  <2>1. CASE DiscardPrevious("timeout", "timeoutActive")
    BY <2>1, DiscardGoesOn
  <2>2. CASE DiscardActive("timeoutActive", "drainEnd")
    BY <2>2, DiscardGoesOn
  <2>3. CASE /\ \/ Discard("timeout", "timeoutActive")
                \/ Discard("timeoutActive", "drainEnd")
             /\ UNCHANGED contextVars
    BY <2>3, OwnerGoesOn DEF Discard, TypeOK
  <2>4. QED
    BY <1>17, <2>1, <2>2, <2>3 DEF CheckTimeout
<1>18. CASE DrainBurst
  <2>1. CASE Drain("drainEnd", "drainEnd")
    BY <2>1, DrainGoesOn
  <2>2. CASE Drained("drainEnd", "loop") /\ UNCHANGED attempt
    BY <2>2, OwnerGoesOn DEF Drained, TypeOK
  <2>3. QED
    BY <1>18, <2>1, <2>2 DEF DrainBurst
<1>19. CASE Shutdown
  BY <1>19, DiscardGoesOn DEF Shutdown
<1>20. CASE StopConsumer
  <2>1. runStatus' \in {"success", "degraded", "error"}
    BY <1>20 DEF StopConsumer, Degrade, TypeOK
  <2>2. QED
    BY <1>20, <2>1, OwnerGoesOn DEF StopConsumer, TypeOK
<1>21. CASE Join
  BY <1>21, OwnerGoesOn DEF Join, TypeOK
<1>22. CASE DrainFinal
  <2>1. CASE Drain("drainFinal", "drainFinal")
    BY <2>1, DrainGoesOn
  <2>2. CASE Drained("drainFinal", "done") /\ UNCHANGED attempt
    BY <2>2, OwnerGoesOn DEF Drained, TypeOK
  <2>3. QED
    BY <1>22, <2>1, <2>2 DEF DrainFinal
<1>23. QED
  BY <1>1, <1>2, <1>3, <1>4, <1>5, <1>6, <1>7, <1>8, <1>9, <1>10, <1>11, <1>12, <1>13,
     <1>14, <1>15, <1>16, <1>17, <1>18, <1>19, <1>20, <1>21, <1>22
     DEF OwnerNext

LEMMA ConsumerKeeps ==
  ASSUME PipelineInvariant, ConsumerNext
  PROVE  PipelineInvariant'
<1> TypeOK /\ OneHolder /\ PlaceInvariant
  BY DEF PipelineInvariant
<1> USE DEF ConsumerSteps
<1>1. CASE Poll
  <2>1. held = None
    BY <1>1 DEF Poll, Consumer, PlaceInvariant
  <2>2. QED
    BY <1>1, <2>1, ConsumerGoesOn DEF Poll
<1>2. ASSUME NEW from, NEW to \in {"handle", "drainHandle"}, Take(from, to)
      PROVE  PipelineInvariant'
  <2>1. TypeOK' /\ OneHolder' /\ held' # None
    BY <1>2, TakeKeeps
  <2>2. UNCHANGED <<active, previous, ownerVars>> /\ conPc' = to
    BY <1>2 DEF Take, Consumer, contextVars
  <2>3. QED
    BY <2>1, <2>2 DEF PipelineInvariant, PlaceInvariant, ownerVars
<1>3. ASSUME NEW from \in {"return", "drainReturn"}, NEW to \in {"poll", "drainPop"},
             ReturnToken(from, to)
      PROVE  PipelineInvariant'
  <2>1. held # None
    BY <1>3 DEF ReturnToken, Consumer, PlaceInvariant
  <2>2. TypeOK' /\ OneHolder' /\ held' = None
    BY <1>3, <2>1, ReturnKeeps
  <2>3. UNCHANGED <<active, previous, ownerVars>> /\ conPc' = to
    BY <1>3 DEF ReturnToken, Consumer, contextVars
  <2>4. QED
    BY <2>2, <2>3 DEF PipelineInvariant, PlaceInvariant, ownerVars
<1>4. CASE PopOutput
  <2>1. CASE TakeEmpty("pop", "poll")
    <3>1. held = None
      BY <2>1 DEF TakeEmpty, Consumer, PlaceInvariant
    <3>2. QED
      BY <2>1, <3>1, ConsumerGoesOn DEF TakeEmpty
  <2>2. QED
    BY <1>2, <1>4, <2>1 DEF PopOutput
<1>5. CASE Handle
  <2>1. held # None
    BY <1>5 DEF Handle, Consumer, PlaceInvariant
  <2>2. QED
    BY <1>5, <2>1, ConsumerGoesOn DEF Handle
<1>6. CASE Return
  <2>1. CASE ReturnFull("return", "spin") /\ UNCHANGED held
    <3>1. held # None
      BY <2>1 DEF ReturnFull, Consumer, PlaceInvariant
    <3>2. QED
      BY <2>1, <3>1, ConsumerGoesOn DEF ReturnFull
  <2>2. QED
    BY <1>3, <1>6, <2>1 DEF Return
<1>7. CASE Spin
  <2>1. held # None
    BY <1>7 DEF Spin, Consumer, PlaceInvariant
  <2>2. QED
    BY <1>7, <2>1, ConsumerGoesOn DEF Spin
<1>8. CASE DrainOutputs
  <2>1. CASE TakeEmpty("drainPop", "exited")
    <3>1. held = None
      BY <2>1 DEF TakeEmpty, Consumer, PlaceInvariant
    <3>2. QED
      BY <2>1, <3>1, ConsumerGoesOn DEF TakeEmpty
  <2>2. CASE ReturnFull("drainReturn", "drainPop") /\ held' = None
    BY <2>2, ConsumerGoesOn DEF ReturnFull
  <2>3. QED
    BY <1>2, <1>3, <1>8, <2>1, <2>2 DEF DrainOutputs
<1>9. QED
  BY <1>1, <1>4, <1>5, <1>6, <1>7, <1>8 DEF ConsumerNext

(* The type invariant, OneHolder and PlaceInvariant hold in every state,   *)
(* for every pool and all capacities of the rings.                         *)
THEOREM PipelineInvariantHolds == Spec => []PipelineInvariant
<1>1. PipelineInvariant /\ [Next]_vars => PipelineInvariant'
  <2> SUFFICES ASSUME PipelineInvariant, [Next]_vars PROVE PipelineInvariant'
    OBVIOUS
  <2>1. CASE UNCHANGED vars
    <3>1. UNCHANGED <<contextVars, outputRing, recycleRing, held>>
      BY <2>1 DEF vars, consumerVars
    <3>2. TypeOK' /\ PlaceInvariant'
      BY <2>1 DEF PipelineInvariant, TypeOK, PlaceInvariant, vars, contextVars, ownerVars,
                  consumerVars
    <3>3. QED
      BY <3>1, <3>2, NothingMoves DEF PipelineInvariant
  <2>2. QED
    BY <2>1, OwnerKeeps, ConsumerKeeps DEF Next, Terminated
<1>2. QED
  BY <1>1, InitEstablishes, PTL DEF Spec

(* The types of the state, for every pool and all capacities.              *)
THEOREM PipelineTypes == Spec => []TypeOK
BY PipelineInvariantHolds, PTL DEF PipelineInvariant

(* Every context has one holder: the owner never reuses a context that the *)
(* consumer may still read, whatever the sizes of pool and rings, whatever *)
(* outputs are dropped and however the shutdown interleaves.               *)
THEOREM OneHolderHolds == Spec => []OneHolder
BY PipelineInvariantHolds, PTL DEF PipelineInvariant

-----------------------------------------------------------------------------
(* The hand-over protocol *)

(* A step that changes the holder of one context only is a hand-over.      *)
LEMMA OneHandOver ==
  ASSUME NEW s \in Slots, NEW to, Holder'[s] = to,
         \A t \in Slots : t # s => Holder'[t] = Holder[t]
  PROVE  Lifecycle!Hand(s, to)
BY DEF Lifecycle!Hand, Holder

(* Who holds a context, case by case.                                      *)
LEMMA HolderCases ==
  ASSUME NEW s \in Slots
  PROVE  /\ s = active => Holder[s] = "active"
         /\ s # active /\ s = previous => Holder[s] = "previous"
         /\ s # active /\ s # previous /\ state[s] = "sealed" => Holder[s] = "lent"
         /\ s # active /\ s # previous /\ state[s] # "sealed" => Holder[s] = "free"
         /\ s = active' => Holder'[s] = "active"
         /\ s # active' /\ s = previous' => Holder'[s] = "previous"
         /\ s # active' /\ s # previous' /\ state'[s] = "sealed" => Holder'[s] = "lent"
         /\ s # active' /\ s # previous' /\ state'[s] # "sealed" => Holder'[s] = "free"
BY DEF Holder

LEMMA NoChangeNoHandOver ==
  ASSUME UNCHANGED contextVars
  PROVE  UNCHANGED Holder
BY DEF contextVars, Holder

LEMMA DrainReturns ==
  ASSUME PipelineInvariant, NEW from, NEW to \in OwnerSteps, Drain(from, to)
  PROVE  Lifecycle!Next
<1> DEFINE s == Head(recycleRing)
<1>1. s \in Slots /\ state[s] = "sealed"
  BY DrainKeeps DEF PipelineInvariant
<1>2. /\ UNCHANGED <<active, previous>>
      /\ state' = [state EXCEPT ![s] = "recycled"]
  BY DEF Drain, Release
<1> HIDE DEF s
<1>3. state'[s] = "recycled" /\ \A t \in Slots : t # s => state'[t] = state[t]
  BY <1>1, <1>2 DEF PipelineInvariant, TypeOK
<1>4. s # active /\ s # previous
  BY <1>1, PipelineAssumption DEF PipelineInvariant, OneHolder, WindowsDistinct
<1>5. Holder[s] = "lent" /\ Holder'[s] = "free"
  BY <1>1, <1>2, <1>3, <1>4, HolderCases
<1>6. \A t \in Slots : t # s => Holder'[t] = Holder[t]
  BY <1>2, <1>3 DEF Holder
<1>7. Lifecycle!Return(s)
  BY <1>1, <1>5, <1>6, OneHandOver DEF Lifecycle!Return
<1>8. QED
  BY <1>1, <1>7 DEF Lifecycle!Next

(* A window is emptied, and its context is sealed or recycled.             *)
LEMMA WindowHandsOver ==
  ASSUME PipelineInvariant, NEW s \in Slots, s \in {active, previous},
         active' = IF s = active THEN None ELSE active,
         previous' = IF s = active THEN previous ELSE None,
         NEW to \in {"sealed", "recycled"}, state' = [state EXCEPT ![s] = to]
  PROVE  Lifecycle!Next
<1> USE PipelineAssumption
<1>1. active # None => active # previous
  BY DEF PipelineInvariant, OneHolder, WindowsDistinct
<1>2. state'[s] = to /\ \A t \in Slots : t # s => state'[t] = state[t]
  BY DEF PipelineInvariant, TypeOK
<1>3. s # active' /\ s # previous' /\ s # None
  BY <1>1
<1>4. Holder[s] \in {"active", "previous"}
  BY HolderCases
<1>5. Holder'[s] = IF to = "sealed" THEN "lent" ELSE "free"
  BY <1>2, <1>3, HolderCases
<1>6. \A t \in Slots : t # s => Holder'[t] = Holder[t]
  BY <1>2 DEF Holder
<1>7. Lifecycle!Lend(s) \/ Lifecycle!Discard(s)
  <2>1. CASE to = "sealed"
    BY <2>1, <1>4, <1>5, <1>6, OneHandOver DEF Lifecycle!Lend
  <2>2. CASE to = "recycled"
    BY <2>2, <1>4, <1>5, <1>6, OneHandOver DEF Lifecycle!Discard
  <2>3. QED
    BY <2>1, <2>2
<1>8. QED
  BY <1>7 DEF Lifecycle!Next

LEMMA OutputHandsOver ==
  ASSUME PipelineInvariant, FinalizeActive \/ SwitchFinalizePrevious
  PROVE  Lifecycle!Next \/ UNCHANGED Holder
<1> USE PipelineAssumption
<1>1. ASSUME NEW s \in Slots, Output(s)
      PROVE  \E to \in {"sealed", "recycled"} : state' = [state EXCEPT ![s] = to]
  BY <1>1 DEF Output, Release
<1>2. CASE FinalizeActive
  <2>1. active \in Slots /\ Output(active) /\ active' = None /\ previous' = previous
    BY <1>2 DEF FinalizeActive, PipelineInvariant, TypeOK
  <2>2. QED
    BY <1>1, <2>1, WindowHandsOver
<1>3. CASE SwitchFinalizePrevious /\ previous # None
  <2>1. /\ previous \in Slots /\ Output(previous) /\ previous' = None
        /\ active' = active /\ active # previous
    BY <1>3 DEF SwitchFinalizePrevious, PipelineInvariant, TypeOK, OneHolder, WindowsDistinct
  <2>2. QED
    BY <1>1, <2>1, WindowHandsOver
<1>4. CASE SwitchFinalizePrevious /\ previous = None
  BY <1>4, NoChangeNoHandOver DEF SwitchFinalizePrevious, contextVars
<1>5. QED
  BY <1>2, <1>3, <1>4

LEMMA DiscardHandsOver ==
  ASSUME PipelineInvariant, NEW from, NEW to,
         DiscardPrevious(from, to) \/ DiscardActive(from, to)
  PROVE  Lifecycle!Next \/ UNCHANGED Holder
<1> USE PipelineAssumption
<1>1. CASE DiscardPrevious(from, to) /\ previous # None
  <2>1. /\ previous \in Slots /\ previous' = None /\ active' = active /\ active # previous
        /\ state' = [state EXCEPT ![previous] = "recycled"]
    BY <1>1 DEF DiscardPrevious, Release, PipelineInvariant, TypeOK, OneHolder,
                WindowsDistinct
  <2>2. QED
    BY <2>1, WindowHandsOver
<1>2. CASE DiscardActive(from, to) /\ active # None
  <2>1. /\ active \in Slots /\ active' = None /\ previous' = previous
        /\ state' = [state EXCEPT ![active] = "recycled"]
    BY <1>2 DEF DiscardActive, Release, PipelineInvariant, TypeOK
  <2>2. QED
    BY <2>1, WindowHandsOver
<1>3. CASE \/ DiscardPrevious(from, to) /\ previous = None
           \/ DiscardActive(from, to) /\ active = None
  BY <1>3, NoChangeNoHandOver DEF DiscardPrevious, DiscardActive, contextVars
<1>4. QED
  BY <1>1, <1>2, <1>3

LEMMA RotateHandsOver ==
  ASSUME PipelineInvariant, SwitchRotate
  PROVE  Lifecycle!Next
<1> USE PipelineAssumption
<1>1. /\ active \in Slots /\ previous = None
      /\ previous' = active /\ active' = None /\ state' = state
  BY DEF SwitchRotate, Owner, PipelineInvariant, PlaceInvariant, TypeOK
<1>2. Holder[active] = "active" /\ Holder'[active] = "previous"
  BY <1>1, HolderCases
<1>3. \A t \in Slots : t # active => Holder'[t] = Holder[t]
  BY <1>1 DEF Holder
<1>4. Lifecycle!HeldBy("previous") = {}
  BY <1>1 DEF Lifecycle!HeldBy, Holder
<1>5. Lifecycle!Rotate(active)
  BY <1>1, <1>2, <1>3, <1>4, OneHandOver DEF Lifecycle!Rotate
<1>6. QED
  BY <1>1, <1>5 DEF Lifecycle!Next

LEMMA AcquireHandsOver ==
  ASSUME PipelineInvariant, OpenAcquire
  PROVE  Lifecycle!Next
<1> USE PipelineAssumption
<1>1. PICK s \in Slots : /\ Acquired(s) /\ active' = s
                         /\ state' = [state EXCEPT ![s] = "active"]
  BY DEF OpenAcquire
<1>2. active = None /\ previous' = previous /\ state[s] = "recycled"
  BY <1>1 DEF OpenAcquire, Owner, PipelineInvariant, PlaceInvariant, Acquired, Free
<1>3. s # previous /\ s # None
  BY <1>2 DEF PipelineInvariant, OneHolder, WindowsDistinct
<1>4. Holder[s] = "free" /\ Holder'[s] = "active"
  BY <1>1, <1>2, <1>3, HolderCases
<1>5. \A t \in Slots : t # s => Holder'[t] = Holder[t]
  BY <1>1, <1>2 DEF Holder, PipelineInvariant, TypeOK
<1>6. Lifecycle!HeldBy("active") = {}
  BY <1>2 DEF Lifecycle!HeldBy, Holder
<1>7. Lifecycle!Acquire(s)
  BY <1>4, <1>5, <1>6, OneHandOver DEF Lifecycle!Acquire
<1>8. QED
  BY <1>7 DEF Lifecycle!Next

LEMMA OwnerHandsOver ==
  ASSUME PipelineInvariant, OwnerNext
  PROVE  Lifecycle!Next \/ UNCHANGED Holder
<1> USE DEF OwnerSteps
<1>1. CASE \/ ReceiveBurst \/ StopRequested \/ ReceiveFails \/ NoContextChange
           \/ OpenFirst \/ OpenRetry \/ PoolExhausted \/ FirstWrite \/ AfterDatagram
           \/ NextDatagram \/ StopConsumer \/ Join
  BY <1>1, NoChangeNoHandOver
     DEF ReceiveBurst, StopRequested, ReceiveFails, NoContextChange, OpenFirst, OpenRetry,
         PoolExhausted, FirstWrite, AfterDatagram, NextDatagram, StopConsumer, Join
<1>2. CASE FinalizeActive \/ SwitchFinalizePrevious
  BY <1>2, OutputHandsOver
<1>3. CASE SwitchRotate \/ OpenAcquire
  BY <1>3, RotateHandsOver, AcquireHandsOver
<1>4. CASE DrainDatagram \/ OpenDrain \/ DrainBurst \/ DrainFinal
  <2>1. ASSUME NEW from, NEW to \in OwnerSteps, Drain(from, to)
        PROVE  Lifecycle!Next
    BY <2>1, DrainReturns
  <2>2. ASSUME NEW from, NEW to, Drained(from, to)
        PROVE  UNCHANGED Holder
    BY <2>2, NoChangeNoHandOver DEF Drained
  <2>3. QED
    BY <1>4, <2>1, <2>2 DEF DrainDatagram, OpenDrain, DrainBurst, DrainFinal
<1>5. CASE CheckTimeout \/ Shutdown
  BY <1>5, DiscardHandsOver, NoChangeNoHandOver DEF CheckTimeout, Shutdown
<1>6. QED
  BY <1>1, <1>2, <1>3, <1>4, <1>5 DEF OwnerNext

(* The consumer never changes a context.                                   *)
LEMMA ConsumerChangesNothing ==
  ASSUME ConsumerNext
  PROVE  UNCHANGED contextVars
BY DEF ConsumerNext, Poll, PopOutput, Handle, Return, Spin, DrainOutputs, Take, TakeEmpty,
       ReturnToken, ReturnFull, Consumer

(* The two threads, the pool and the two rings implement the hand-over     *)
(* protocol: contexts go from the pool to the active window, on to the     *)
(* previous one, to the consumer and back, one hand at a time.             *)
THEOREM PipelineImplementsLifecycle == Spec => ImplementsLifecycle
<1>1. Init => Lifecycle!Init
  BY PipelineAssumption DEF Init, Lifecycle!Init, Holder
<1>2. PipelineInvariant /\ [Next]_vars => [Lifecycle!Next]_Holder
  <2> SUFFICES ASSUME PipelineInvariant, [Next]_vars
               PROVE  Lifecycle!Next \/ UNCHANGED Holder
    OBVIOUS
  <2>1. CASE OwnerNext
    BY <2>1, OwnerHandsOver
  <2>2. CASE ConsumerNext
    BY <2>2, ConsumerChangesNothing, NoChangeNoHandOver
  <2>3. CASE Terminated \/ UNCHANGED vars
    BY <2>3, NoChangeNoHandOver DEF Terminated, vars
  <2>4. QED
    BY <2>1, <2>2, <2>3 DEF Next
<1>3. QED
  BY <1>1, <1>2, PipelineInvariantHolds, PTL DEF Spec, ImplementsLifecycle, Lifecycle!Spec

-----------------------------------------------------------------------------
(* The consumer's view *)

LEMMA SealedStays ==
  ASSUME PipelineInvariant, [Next]_vars,
         NEW s \in Slots, state[s] = "sealed", s \notin ToSet(recycleRing)
  PROVE  state'[s] = state[s]
<1> USE PipelineAssumption
<1> TypeOK /\ OneHolder /\ WindowsDistinct
  BY DEF PipelineInvariant, OneHolder
<1>1. s # active /\ s # previous
  BY DEF WindowsDistinct
<1>2. ASSUME NEW t \in Slots, t # s, Release(t) \/ Output(t)
      PROVE  state'[s] = state[s]
  BY <1>2 DEF Release, Output, TypeOK
<1>3. ASSUME NEW from, NEW to, Drain(from, to)
      PROVE  state'[s] = state[s]
  <2>1. recycleRing \in Seq(Slots) /\ recycleRing # <<>>
    BY <1>3 DEF Drain, TypeOK
  <2>2. Head(recycleRing) \in Slots /\ Head(recycleRing) \in ToSet(recycleRing)
    BY <2>1, TailFacts
  <2>3. QED
    BY <1>2, <1>3, <2>2 DEF Drain
<1>4. ASSUME NEW from, NEW to, Drained(from, to)
      PROVE  state'[s] = state[s]
  BY <1>4 DEF Drained, contextVars
<1>5. CASE DrainDatagram \/ OpenDrain \/ DrainBurst \/ DrainFinal
  BY <1>3, <1>4, <1>5 DEF DrainDatagram, OpenDrain, DrainBurst, DrainFinal
<1>6. CASE FinalizeActive
  BY <1>1, <1>2, <1>6 DEF FinalizeActive, TypeOK
<1>7. CASE SwitchFinalizePrevious
  BY <1>1, <1>2, <1>7 DEF SwitchFinalizePrevious, TypeOK
<1>8. CASE OpenAcquire
  BY <1>8 DEF OpenAcquire, Acquired, Free, TypeOK
<1>9. ASSUME NEW from, NEW to, DiscardPrevious(from, to) \/ DiscardActive(from, to)
      PROVE  state'[s] = state[s]
  BY <1>1, <1>2, <1>9 DEF DiscardPrevious, DiscardActive, TypeOK
<1>10. CASE CheckTimeout \/ Shutdown
  BY <1>9, <1>10 DEF CheckTimeout, Shutdown, contextVars
<1>11. CASE SwitchRotate
  BY <1>11 DEF SwitchRotate
<1>12. CASE \/ ReceiveBurst \/ StopRequested \/ ReceiveFails \/ NoContextChange
            \/ OpenFirst \/ OpenRetry \/ PoolExhausted \/ FirstWrite \/ AfterDatagram
            \/ NextDatagram \/ StopConsumer \/ Join
  BY <1>12
     DEF ReceiveBurst, StopRequested, ReceiveFails, NoContextChange, OpenFirst, OpenRetry,
         PoolExhausted, FirstWrite, AfterDatagram, NextDatagram, StopConsumer, Join,
         contextVars
<1>13. CASE ConsumerNext
  BY <1>13, ConsumerChangesNothing DEF contextVars
<1>14. CASE Terminated \/ UNCHANGED vars
  BY <1>14 DEF Terminated, vars, contextVars
<1>15. QED
  BY <1>5, <1>6, <1>7, <1>8, <1>10, <1>11, <1>12, <1>13, <1>14 DEF Next, OwnerNext

(* A context the consumer can reach through an output is not touched: its  *)
(* state changes only after its release token was taken.                   *)
THEOREM ViewIsStableHolds == Spec => ViewIsStable
<1> DEFINE Stable ==
      \A s \in ToSet(outputRing) \cup {held} :
        s # None /\ s \in ToSet(outputRing') \cup {held'} => state'[s] = state[s]
<1>1. PipelineInvariant /\ [Next]_vars => Stable
  <2> SUFFICES ASSUME PipelineInvariant, [Next]_vars,
                      NEW s \in ToSet(outputRing) \cup {held}, s # None
               PROVE  state'[s] = state[s]
    OBVIOUS
  <2>1. s \in Slots
    BY DEF PipelineInvariant, TypeOK, ToSet
  <2>2. state[s] = "sealed" /\ s \notin ToSet(recycleRing)
    BY DEF PipelineInvariant, OneHolder, LentOnce
  <2>3. QED
    BY <2>1, <2>2, SealedStays
<1>2. QED
  BY <1>1, PipelineInvariantHolds, PTL DEF Spec, ViewIsStable

-----------------------------------------------------------------------------
(* The capacity of the output ring *)

(* The ring holds different contexts, so when a window's context is not    *)
(* among them there are fewer than the pool has.                           *)
LEMMA RingBelowDepth ==
  ASSUME PipelineInvariant, NEW s \in Slots, state[s] = "active"
  PROVE  Len(outputRing) < Depth
<1> USE PipelineAssumption
<1> DEFINE n == Len(outputRing)
           Others == Slots \ {s}
<1>1. /\ outputRing \in Seq(Slots) /\ n \in Nat /\ DOMAIN outputRing = 1 .. n
      /\ IsInjective(outputRing)
  BY DEF PipelineInvariant, TypeOK, OneHolder, LentOnce
<1>2. s \notin ToSet(outputRing)
  BY DEF PipelineInvariant, OneHolder, LentOnce
<1>3. \A i \in 1 .. n : outputRing[i] \in Others
  BY <1>1, <1>2 DEF ToSet
<1>4. outputRing \in [1 .. n -> Others]
  <2>1. outputRing \in [1 .. n -> Slots]
    BY <1>1
  <2>2. QED
    BY <1>3, <2>1
<1>5. outputRing \in Injection(1 .. n, Others)
  BY <1>1, <1>4 DEF Injection
<1>6. IsFiniteSet(Slots) /\ Cardinality(Slots) = Depth
  BY FS_Interval DEF Slots
<1>7. IsFiniteSet(Others) /\ Cardinality(Others) = Depth - 1
  BY <1>6, FS_RemoveElement
<1> HIDE DEF n, Others
<1>8. Cardinality(1 .. n) <= Cardinality(Others)
  BY <1>5, <1>7, FS_Injection
<1>9. Cardinality(1 .. n) = n
  BY <1>1, FS_Interval
<1>10. QED
  BY <1>1, <1>7, <1>8, <1>9 DEF n

(* With an output ring that has room for the whole pool no output is ever  *)
(* dropped, and the run is never degraded, however slow the consumer is.   *)
THEOREM OutputNeverDroppedHolds == Spec => []OutputNeverDropped
<1>1. Init => OutputNeverDropped
  BY DEF Init, OutputNeverDropped
<1>2. PipelineInvariant /\ OutputNeverDropped /\ [Next]_vars => OutputNeverDropped'
  <2> SUFFICES ASSUME PipelineInvariant, [Next]_vars, OutputCapacity >= Depth
               PROVE  degraded' = degraded
    BY DEF OutputNeverDropped
  <2> USE PipelineAssumption
  <2>1. ASSUME NEW s \in Slots, state[s] = "active", Output(s)
        PROVE  degraded' = degraded
    <3>1. Len(outputRing) < OutputCapacity
      <4>1. Len(outputRing) \in Nat /\ Len(outputRing) < Depth
        BY <2>1, RingBelowDepth DEF PipelineInvariant, TypeOK
      <4>2. QED
        BY <4>1
    <3>2. QED
      BY <2>1, <3>1 DEF Output
  <2>2. CASE FinalizeActive
    BY <2>1, <2>2
       DEF FinalizeActive, PipelineInvariant, TypeOK, OneHolder, WindowsDistinct
  <2>3. CASE SwitchFinalizePrevious
    BY <2>1, <2>3
       DEF SwitchFinalizePrevious, PipelineInvariant, TypeOK, OneHolder, WindowsDistinct
  <2>4. CASE \/ ReceiveBurst \/ StopRequested \/ ReceiveFails \/ NoContextChange
             \/ OpenFirst \/ SwitchRotate \/ OpenAcquire \/ OpenRetry \/ PoolExhausted
             \/ FirstWrite \/ AfterDatagram \/ NextDatagram \/ StopConsumer \/ Join
    BY <2>4
       DEF ReceiveBurst, StopRequested, ReceiveFails, NoContextChange, OpenFirst,
           SwitchRotate, OpenAcquire, OpenRetry, PoolExhausted, FirstWrite, AfterDatagram,
           NextDatagram, StopConsumer, Join
  <2>5. CASE \/ DrainDatagram \/ OpenDrain \/ DrainBurst \/ DrainFinal
             \/ CheckTimeout \/ Shutdown
    BY <2>5
       DEF DrainDatagram, OpenDrain, DrainBurst, DrainFinal, CheckTimeout, Shutdown,
           Drain, Drained, DiscardPrevious, DiscardActive, Discard
  <2>6. CASE ConsumerNext
    BY <2>6
       DEF ConsumerNext, Poll, PopOutput, Handle, Return, Spin, DrainOutputs, Take,
           TakeEmpty, ReturnToken, ReturnFull, Consumer, ownerVars
  <2>7. CASE Terminated \/ UNCHANGED vars
    BY <2>7 DEF Terminated, vars, ownerVars
  <2>8. QED
    BY <2>2, <2>3, <2>4, <2>5, <2>6, <2>7 DEF Next, OwnerNext
<1>3. QED
  BY <1>1, <1>2, PipelineInvariantHolds, PTL DEF Spec

-----------------------------------------------------------------------------
(* The end of a run *)

(* What the shutdown has done so far: the consumer leaves its loop only    *)
(* once it is told to, the owner goes on only once the consumer is gone,   *)
(* and from then on nothing is pushed.                                     *)
ShutdownHolds ==
  /\ stop <=> pc \in {"join", "drainFinal", "done"}
  /\ conPc \in {"drainPop", "drainHandle", "drainReturn", "exited"} => stop
  /\ conPc = "exited" => outputRing = <<>>
  /\ pc \in {"drainFinal", "done"} => conPc = "exited"
  /\ pc = "stopActive" => previous = None
  /\ pc \in {"stopConsumer", "join", "drainFinal", "done"} => active = None /\ previous = None
  /\ pc = "done" => recycleRing = <<>>

(* A lent context is in a ring or in the consumer's hands: no token was    *)
(* given up, because the consumer never met a full recycle ring.           *)
LentIsSomewhere ==
  /\ conPc # "spin"
  /\ \A s \in Slots : state[s] = "sealed" =>
       s \in ToSet(outputRing) \cup ToSet(recycleRing) \cup {held}

LEMMA NextKeepsShutdown ==
  ASSUME PipelineInvariant, ShutdownHolds, [Next]_vars
  PROVE  ShutdownHolds'
<1> USE DEF ShutdownHolds, Owner, Consumer, contextVars, ownerVars, consumerVars
<1>1. CASE \/ ReceiveBurst \/ StopRequested \/ ReceiveFails \/ NoContextChange
           \/ OpenFirst \/ OpenRetry \/ PoolExhausted
           \/ FirstWrite \/ AfterDatagram \/ NextDatagram \/ StopConsumer \/ Join
  BY <1>1
     DEF ReceiveBurst, StopRequested, ReceiveFails, NoContextChange, OpenFirst,
         OpenRetry, PoolExhausted, FirstWrite, AfterDatagram, NextDatagram, StopConsumer, Join
<1>2. CASE SwitchRotate \/ OpenAcquire
  BY <1>2 DEF SwitchRotate, OpenAcquire
<1>3. CASE FinalizeActive \/ SwitchFinalizePrevious
  BY <1>3 DEF FinalizeActive, SwitchFinalizePrevious, Output
<1>4. CASE DrainDatagram \/ OpenDrain \/ DrainBurst \/ DrainFinal
  BY <1>4 DEF DrainDatagram, OpenDrain, DrainBurst, DrainFinal, Drain, Drained
<1>5. CASE CheckTimeout \/ Shutdown
  BY <1>5 DEF CheckTimeout, Shutdown, DiscardPrevious, DiscardActive, Discard
<1>6. CASE Poll \/ Handle \/ Spin
  BY <1>6 DEF Poll, Handle, Spin
<1>7. CASE PopOutput \/ Return \/ DrainOutputs
  BY <1>7 DEF PopOutput, Return, DrainOutputs, Take, TakeEmpty, ReturnToken, ReturnFull
<1>8. CASE Terminated \/ UNCHANGED vars
  BY <1>8 DEF Terminated, vars
<1>9. QED
  BY <1>1, <1>2, <1>3, <1>4, <1>5, <1>6, <1>7, <1>8 DEF Next, OwnerNext, ConsumerNext

(* The tokens in the recycle ring are different contexts, and the one the  *)
(* consumer returns is not among them.                                     *)
LEMMA TokenHasRoom ==
  ASSUME PipelineInvariant, held # None, RecycleCapacity >= Depth
  PROVE  Len(recycleRing) < RecycleCapacity
<1> USE PipelineAssumption
<1> DEFINE Others == Slots \ {held}
<1>1. /\ recycleRing \in Seq(Slots) /\ Len(recycleRing) \in Nat /\ IsInjective(recycleRing)
      /\ held \in Slots /\ held \notin ToSet(recycleRing)
  BY DEF PipelineInvariant, TypeOK, OneHolder, LentOnce
<1>2. IsFiniteSet(Slots) /\ Cardinality(Slots) = Depth
  BY FS_Interval DEF Slots
<1>3. IsFiniteSet(Others) /\ Cardinality(Others) = Depth - 1
  BY <1>1, <1>2, FS_RemoveElement
<1>4. IsFiniteSet(ToSet(recycleRing)) /\ Cardinality(ToSet(recycleRing)) = Len(recycleRing)
  BY <1>1, <1>2, LengthIsCardinality
<1>5. ToSet(recycleRing) \subseteq Others
  BY <1>1 DEF ToSet
<1> HIDE DEF Others
<1>6. Cardinality(ToSet(recycleRing)) <= Cardinality(Others)
  BY <1>3, <1>5, FS_Subset
<1>7. QED
  BY <1>1, <1>3, <1>4, <1>6

(* Only the first element of a queue leaves it.                            *)
LEMMA HeadLeaves ==
  ASSUME NEW S, NEW q \in Seq(S), q # <<>>
  PROVE  ToSet(q) \subseteq ToSet(Tail(q)) \cup {Head(q)}
<1>1. Len(q) \in Nat \ {0} /\ DOMAIN q = 1 .. Len(q) /\ Head(q) = q[1]
  OBVIOUS
<1>2. /\ DOMAIN Tail(q) = 1 .. Len(q) - 1
      /\ \A i \in 1 .. Len(q) - 1 : Tail(q)[i] = q[i + 1]
  OBVIOUS
<1>3. ASSUME NEW i \in 1 .. Len(q), i # 1
      PROVE  q[i] \in ToSet(Tail(q))
  <2>1. i - 1 \in 1 .. Len(q) - 1 /\ (i - 1) + 1 = i
    BY <1>1, <1>3
  <2>2. Tail(q)[i - 1] = q[i]
    BY <1>2, <2>1
  <2>3. QED
    BY <1>2, <2>1, <2>2 DEF ToSet
<1>4. QED
  BY <1>1, <1>3 DEF ToSet

LEMMA NextKeepsLent ==
  ASSUME PipelineInvariant, LentIsSomewhere, [Next]_vars, RecycleCapacity >= Depth
  PROVE  LentIsSomewhere'
<1> USE PipelineAssumption
<1> TypeOK /\ OneHolder /\ WindowsDistinct /\ PlaceInvariant
  BY DEF PipelineInvariant, OneHolder
<1>1. ASSUME NEW s \in Slots, state'[s] = "sealed", UNCHANGED <<outputRing, recycleRing, held>>,
             \A t \in Slots : state'[t] = "sealed" => state[t] = "sealed"
      PROVE  s \in ToSet(outputRing') \cup ToSet(recycleRing') \cup {held'}
  BY <1>1 DEF LentIsSomewhere
<1>2. ASSUME NEW t \in Slots, Release(t)
      PROVE  \A s \in Slots : state'[s] = "sealed" => state[s] = "sealed" /\ s # t
  BY <1>2 DEF Release, TypeOK
<1>3. ASSUME NEW t \in Slots, Output(t), UNCHANGED <<recycleRing, held>>
      PROVE  \A s \in Slots : state'[s] = "sealed" =>
               s \in ToSet(outputRing') \cup ToSet(recycleRing') \cup {held'}
  <2>1. CASE Len(outputRing) < OutputCapacity
    <3>1. outputRing' = Append(outputRing, t) /\ state' = [state EXCEPT ![t] = "sealed"]
      BY <1>3, <2>1 DEF Output
    <3>2. ToSet(outputRing') = ToSet(outputRing) \cup {t}
      BY <3>1, AppendFacts DEF TypeOK
    <3>3. \A s \in Slots : state'[s] = "sealed" => s = t \/ state[s] = "sealed"
      BY <3>1 DEF TypeOK
    <3>4. QED
      BY <1>3, <3>2, <3>3 DEF LentIsSomewhere
  <2>2. CASE ~(Len(outputRing) < OutputCapacity)
    <3>1. Release(t) /\ UNCHANGED outputRing
      BY <1>3, <2>2 DEF Output
    <3>2. QED
      BY <1>2, <1>3, <3>1 DEF LentIsSomewhere
  <2>3. QED
    BY <2>1, <2>2
<1>4. ASSUME NEW from, NEW to, Drain(from, to)
      PROVE  LentIsSomewhere'
  <2>1. /\ recycleRing # <<>> /\ recycleRing' = Tail(recycleRing)
        /\ Release(Head(recycleRing)) /\ UNCHANGED <<outputRing, held, conPc>>
    BY <1>4 DEF Drain, Owner, consumerVars
  <2>2. /\ ToSet(recycleRing) \subseteq ToSet(recycleRing') \cup {Head(recycleRing)}
        /\ Head(recycleRing) \in Slots
    BY <2>1, HeadLeaves, TailFacts DEF TypeOK
  <2>3. \A s \in Slots : state'[s] = "sealed" => state[s] = "sealed" /\ s # Head(recycleRing)
    BY <1>2, <2>1, <2>2
  <2>4. QED
    BY <2>1, <2>2, <2>3 DEF LentIsSomewhere
<1>5. ASSUME NEW from, NEW to, Drained(from, to)
      PROVE  LentIsSomewhere'
  BY <1>5 DEF Drained, Owner, contextVars, consumerVars, LentIsSomewhere
<1>6. CASE DrainDatagram \/ OpenDrain \/ DrainBurst \/ DrainFinal
  BY <1>4, <1>5, <1>6 DEF DrainDatagram, OpenDrain, DrainBurst, DrainFinal
<1>7. CASE FinalizeActive
  BY <1>3, <1>7 DEF FinalizeActive, consumerVars, TypeOK, LentIsSomewhere
<1>8. CASE SwitchFinalizePrevious
  BY <1>3, <1>8 DEF SwitchFinalizePrevious, Owner, consumerVars, TypeOK, LentIsSomewhere
<1>9. CASE OpenAcquire
  <2>1. UNCHANGED <<outputRing, recycleRing, held, conPc>>
    BY <1>9 DEF OpenAcquire, Owner, consumerVars
  <2>2. \A s \in Slots : state'[s] = "sealed" => state[s] = "sealed"
    BY <1>9 DEF OpenAcquire, TypeOK
  <2>3. QED
    BY <2>1, <2>2 DEF LentIsSomewhere
<1>10. ASSUME NEW from, NEW to, DiscardPrevious(from, to) \/ DiscardActive(from, to)
       PROVE  LentIsSomewhere'
  <2>1. UNCHANGED <<outputRing, recycleRing, held, conPc>>
    BY <1>10 DEF DiscardPrevious, DiscardActive, Discard, Owner, consumerVars
  <2>2. \A s \in Slots : state'[s] = "sealed" => state[s] = "sealed"
    BY <1>2, <1>10 DEF DiscardPrevious, DiscardActive, TypeOK
  <2>3. QED
    BY <2>1, <2>2 DEF LentIsSomewhere
<1>11. CASE CheckTimeout \/ Shutdown
  BY <1>10, <1>11
     DEF CheckTimeout, Shutdown, Discard, Owner, contextVars, consumerVars, LentIsSomewhere
<1>12. CASE \/ ReceiveBurst \/ StopRequested \/ ReceiveFails \/ NoContextChange
            \/ OpenFirst \/ SwitchRotate \/ OpenRetry \/ PoolExhausted \/ FirstWrite
            \/ AfterDatagram \/ NextDatagram \/ StopConsumer \/ Join
  BY <1>12
     DEF ReceiveBurst, StopRequested, ReceiveFails, NoContextChange, OpenFirst, SwitchRotate,
         OpenRetry, PoolExhausted, FirstWrite, AfterDatagram, NextDatagram, StopConsumer, Join,
         Owner, contextVars, consumerVars, LentIsSomewhere
<1>13. ASSUME NEW from, NEW to \in ConsumerSteps \ {"spin"}, Take(from, to), held = None
       PROVE  LentIsSomewhere'
  <2>1. /\ outputRing # <<>> /\ outputRing' = Tail(outputRing) /\ held' = Head(outputRing)
        /\ UNCHANGED <<state, recycleRing>> /\ conPc' = to
    BY <1>13 DEF Take, Consumer, contextVars
  <2>2. ToSet(outputRing) \subseteq ToSet(outputRing') \cup {held'}
    BY <2>1, HeadLeaves DEF TypeOK
  <2>3. QED
    BY <1>13, <2>1, <2>2 DEF LentIsSomewhere
<1>14. ASSUME NEW from, NEW to \in ConsumerSteps \ {"spin"}, ReturnToken(from, to), held # None
       PROVE  LentIsSomewhere'
  <2>1. /\ recycleRing' = Append(recycleRing, held) /\ held \in Slots
        /\ UNCHANGED <<state, outputRing>> /\ conPc' = to
    BY <1>14 DEF ReturnToken, Consumer, contextVars, TypeOK
  <2>2. ToSet(recycleRing') = ToSet(recycleRing) \cup {held}
    BY <2>1, AppendFacts DEF TypeOK
  <2>3. QED
    BY <1>14, <2>1, <2>2 DEF LentIsSomewhere
<1>15. CASE Poll \/ Handle \/ Spin
  BY <1>15 DEF Poll, Handle, Spin, Consumer, contextVars, LentIsSomewhere
<1>16. CASE PopOutput
  <2>1. held = None
    BY <1>16 DEF PopOutput, Take, TakeEmpty, Consumer, PlaceInvariant
  <2>2. CASE Take("pop", "handle")
    BY <1>13, <2>1, <2>2 DEF ConsumerSteps
  <2>3. CASE TakeEmpty("pop", "poll")
    BY <2>3 DEF TakeEmpty, Consumer, contextVars, LentIsSomewhere
  <2>4. QED
    BY <1>16, <2>2, <2>3 DEF PopOutput
<1>17. CASE Return
  <2>1. held # None
    BY <1>17 DEF Return, ReturnToken, ReturnFull, Consumer, PlaceInvariant
  <2>2. ~ReturnFull("return", "spin")
    BY <2>1, TokenHasRoom DEF ReturnFull, TypeOK
  <2>3. QED
    BY <1>14, <1>17, <2>1, <2>2 DEF Return, ConsumerSteps
<1>18. CASE DrainOutputs
  <2>1. CASE Take("drainPop", "drainHandle")
    <3>1. held = None
      BY <2>1 DEF Take, Consumer, PlaceInvariant
    <3>2. QED
      BY <1>13, <2>1, <3>1 DEF ConsumerSteps
  <2>2. CASE TakeEmpty("drainPop", "exited")
    BY <2>2 DEF TakeEmpty, Consumer, contextVars, LentIsSomewhere
  <2>3. CASE conPc = "drainReturn"
    <3>1. held # None
      BY <2>3 DEF PlaceInvariant
    <3>2. ~ReturnFull("drainReturn", "drainPop")
      BY <3>1, TokenHasRoom DEF ReturnFull, TypeOK
    <3>3. ReturnToken("drainReturn", "drainPop")
      BY <1>18, <2>3, <3>2 DEF DrainOutputs, Take, TakeEmpty, Consumer
    <3>4. QED
      BY <1>14, <3>1, <3>3 DEF ConsumerSteps
  <2>4. QED
    BY <1>18, <2>1, <2>2, <2>3 DEF DrainOutputs, ReturnToken, ReturnFull, Consumer
<1>19. CASE Terminated \/ UNCHANGED vars
  BY <1>19 DEF Terminated, vars, contextVars, consumerVars, LentIsSomewhere
<1>20. QED
  BY <1>6, <1>7, <1>8, <1>9, <1>11, <1>12, <1>15, <1>16, <1>17, <1>18, <1>19
     DEF Next, OwnerNext, ConsumerNext

(* With a recycle ring that has room for the whole pool, every context is  *)
(* back in the pool when the run is over, whatever the consumer was at     *)
(* when it was told to stop.                                               *)
THEOREM AllReleasedAtExitHolds ==
  ASSUME RecycleCapacity >= Depth
  PROVE  Spec => []AllReleasedAtExit
<1>1. Init => ShutdownHolds /\ LentIsSomewhere
  BY DEF Init, ShutdownHolds, LentIsSomewhere
<1>2. PipelineInvariant /\ ShutdownHolds /\ LentIsSomewhere /\ [Next]_vars =>
        ShutdownHolds' /\ LentIsSomewhere'
  BY NextKeepsShutdown, NextKeepsLent
<1>3. PipelineInvariant /\ ShutdownHolds /\ LentIsSomewhere => AllReleasedAtExit
  <2> SUFFICES ASSUME PipelineInvariant, ShutdownHolds, LentIsSomewhere, pc = "done",
                      NEW s \in Slots
               PROVE  state[s] = "recycled"
    BY DEF AllReleasedAtExit, Free
  <2>1. /\ outputRing = <<>> /\ recycleRing = <<>> /\ held = None
        /\ active = None /\ previous = None
    BY DEF ShutdownHolds, PipelineInvariant, PlaceInvariant
  <2>2. ToSet(outputRing) = {} /\ ToSet(recycleRing) = {} /\ s # None
    BY <2>1, PipelineAssumption DEF ToSet
  <2>3. state[s] # "sealed"
    BY <2>1, <2>2 DEF LentIsSomewhere
  <2>4. state[s] # "active"
    BY <2>1, <2>2 DEF PipelineInvariant, OneHolder, WindowsDistinct
  <2>5. state[s] \in {"recycled", "active", "sealed"}
    BY DEF PipelineInvariant, TypeOK
  <2>6. QED
    BY <2>3, <2>4, <2>5
<1>4. QED
  BY <1>1, <1>2, <1>3, PipelineInvariantHolds, PTL DEF Spec

-----------------------------------------------------------------------------
(* The pool and a slow consumer *)

(* A drain that empties the recycle ring leaves a free context, if the     *)
(* pool has more than the output ring, the consumer and one window hold.   *)
LEMMA DrainFindsFree ==
  ASSUME PipelineInvariant, LentIsSomewhere, active = None, recycleRing = <<>>,
         OutputCapacity + 2 < Depth
  PROVE  Free # {}
<1> USE PipelineAssumption
<1> DEFINE Ring == ToSet(outputRing)
           T == Ring \cup {held}
           U == T \cup {previous}
<1>1. IsFiniteSet(Slots) /\ Cardinality(Slots) = Depth
  BY FS_Interval DEF Slots
<1>2. IsFiniteSet(Ring) /\ Cardinality(Ring) = Len(outputRing)
  BY <1>1, LengthIsCardinality DEF PipelineInvariant, TypeOK, OneHolder, LentOnce
<1>3. Len(outputRing) \in Nat /\ Len(outputRing) <= OutputCapacity
  BY DEF PipelineInvariant, TypeOK
<1>4. ASSUME Free = {}
      PROVE  Slots \subseteq U
  <2> SUFFICES ASSUME NEW s \in Slots
               PROVE  s \in U
    OBVIOUS
  <2>1. state[s] \in {"active", "sealed"}
    BY <1>4 DEF Free, PipelineInvariant, TypeOK
  <2>2. CASE state[s] = "active"
    BY <2>2 DEF PipelineInvariant, OneHolder, WindowsDistinct
  <2>3. CASE state[s] = "sealed"
    BY <2>3 DEF LentIsSomewhere, ToSet
  <2>4. QED
    BY <2>1, <2>2, <2>3
<1> HIDE DEF Ring
<1>5. IsFiniteSet(T) /\ Cardinality(T) \in {Cardinality(Ring), Cardinality(Ring) + 1}
  BY <1>2, FS_AddElement
<1> HIDE DEF T
<1>6. IsFiniteSet(U) /\ Cardinality(U) \in {Cardinality(T), Cardinality(T) + 1}
  BY <1>5, FS_AddElement
<1> HIDE DEF U
<1>7. Cardinality(U) <= OutputCapacity + 2
  BY <1>2, <1>3, <1>5, <1>6
<1>8. ASSUME Slots \subseteq U
      PROVE  Depth <= Cardinality(U)
  BY <1>1, <1>6, <1>8, FS_Subset
<1>9. Cardinality(U) \in Nat
  BY <1>2, <1>3, <1>5, <1>6
<1>10. QED
  BY <1>4, <1>7, <1>8, <1>9

(* open_active comes back from a drain only with a free context.           *)
DrainFreed == pc = "open" /\ attempt # 0 => Free # {}

LEMMA NextKeepsFreed ==
  ASSUME PipelineInvariant, LentIsSomewhere, DrainFreed, [Next]_vars,
         OutputCapacity + 2 < Depth
  PROVE  DrainFreed' /\ (runError' # runError => pc = "loop")
<1> USE DEF DrainFreed, Owner
<1>1. CASE UNCHANGED <<pc, attempt, state, runError>>
  BY <1>1 DEF Free
<1>2. ASSUME NEW from, NEW to, Drained(from, to), UNCHANGED attempt, to # "open"
      PROVE  pc' # "open" /\ runError' = runError
  BY <1>2 DEF Drained
<1>3. ASSUME NEW from, NEW to \in OwnerSteps \ {"open"}, Drain(from, to)
      PROVE  pc' # "open" /\ runError' = runError
  BY <1>3 DEF Drain
<1>4. CASE OpenDrain
  <2>1. CASE \/ Drained("openRecycled", "open")
             \/ Drained("openYield", "open")
    <3>1. active = None /\ recycleRing = <<>> /\ UNCHANGED <<state, runError>>
      BY <2>1 DEF Drained, contextVars, PipelineInvariant, PlaceInvariant
    <3>2. Free # {}
      BY <3>1, DrainFindsFree
    <3>3. QED
      BY <3>1, <3>2 DEF Free
  <2>2. QED
    BY <1>2, <1>3, <1>4, <2>1 DEF OpenDrain, OwnerSteps
<1>5. CASE PoolExhausted
  BY <1>5 DEF PoolExhausted
<1>6. CASE OpenFirst \/ SwitchRotate
  BY <1>6 DEF OpenFirst, SwitchRotate
<1>7. CASE \/ ReceiveBurst \/ StopRequested \/ ReceiveFails \/ NoContextChange
           \/ FinalizeActive \/ SwitchFinalizePrevious \/ OpenAcquire \/ OpenRetry
           \/ FirstWrite \/ AfterDatagram \/ NextDatagram \/ StopConsumer \/ Join
  BY <1>7
     DEF ReceiveBurst, StopRequested, ReceiveFails, NoContextChange, FinalizeActive,
         SwitchFinalizePrevious, OpenAcquire, OpenRetry, FirstWrite, AfterDatagram,
         NextDatagram, StopConsumer, Join
<1>8. CASE DrainDatagram \/ DrainBurst \/ DrainFinal
  BY <1>2, <1>3, <1>8 DEF DrainDatagram, DrainBurst, DrainFinal, OwnerSteps
<1>9. CASE CheckTimeout \/ Shutdown
  BY <1>9 DEF CheckTimeout, Shutdown, DiscardPrevious, DiscardActive, Discard
<1>10. CASE ConsumerNext
  BY <1>1, <1>10
     DEF ConsumerNext, Poll, PopOutput, Handle, Return, Spin, DrainOutputs, Take,
         TakeEmpty, ReturnToken, ReturnFull, Consumer, ownerVars, contextVars
<1>11. CASE Terminated \/ UNCHANGED vars
  BY <1>1, <1>11 DEF Terminated, vars, ownerVars, contextVars
<1>12. QED
  BY <1>4, <1>5, <1>6, <1>7, <1>8, <1>9, <1>10, <1>11 DEF Next, OwnerNext

(* With a pool of at least three contexts more than the output ring holds, *)
(* and a recycle ring that has room for the pool, no consumer is slow      *)
(* enough to end the run: the pool is never exhausted.                     *)
THEOREM SlowConsumerNotFatalHolds ==
  ASSUME RecycleCapacity >= Depth, OutputCapacity + 2 < Depth
  PROVE  Spec => SlowConsumerNotFatal
<1>1. Init => LentIsSomewhere /\ DrainFreed
  BY DEF Init, LentIsSomewhere, DrainFreed
<1>2. PipelineInvariant /\ LentIsSomewhere /\ DrainFreed /\ [Next]_vars =>
        LentIsSomewhere' /\ DrainFreed' /\ (runError' # runError => pc = "loop")
  BY NextKeepsLent, NextKeepsFreed
<1>3. QED
  BY <1>1, <1>2, PipelineInvariantHolds, PTL DEF Spec, SlowConsumerNotFatal
=============================================================================
