---------------------- MODULE ReceiveRunVerdictProofs ----------------------
(***************************************************************************)
(* Proofs about what a run of ReceiveRun.tla says of itself: its counters  *)
(* account for every frame, its exit code tells whether anything went      *)
(* wrong, and its kernel drops are not more than there were, for any       *)
(* frames, files and command lines and any modulus of the kernel's total;  *)
(* and about the configuration it starts with: where every value comes     *)
(* from, and that one which passed validate_config() works.                *)
(***************************************************************************)
EXTENDS ReceiveRunProofs

Before == Starting \union {"init", "record"}
Loop == {"check", "recv", "process", "finalize"}

(* Frames of the burst that no counter of the run has seen yet, and        *)
(* datagrams of the burst that EndBurst will add to rx.                    *)
Pending == IF pc = "recv" THEN Len(burst)
           ELSE IF pc = "process" THEN Len(burst) + 1 - next ELSE 0
Unsettled == IF pc = "process" THEN accepted ELSE 0

(* What the loop has taken from the backend is in a counter or pending,    *)
(* until the pool runs dry in the middle of a burst.                       *)
CountsHold ==
  /\ next \in Nat \ {0} /\ accepted \in Nat /\ filtered \in Nat /\ rx \in Nat
  /\ parsed \in Nat /\ rejected \in Nat /\ discarded \in Nat /\ rxPackets \in Nat
  /\ pc = "process" => next <= Len(burst) + 1
  /\ rx + Unsettled <= parsed + rejected
  /\ discarded + filtered + parsed + rejected + Pending <= rxPackets
  /\ "pool" \notin faults =>
       /\ rx + Unsettled = parsed + rejected
       /\ rxPackets = discarded + filtered + parsed + rejected + Pending

(* A call that waits has lent nothing, nor has one that failed, and after  *)
(* it the loop is over; the length of a burst is a number.                 *)
WaitsEmpty ==
  /\ waiting => burst = <<>>
  /\ ~recvOk => burst = <<>> /\ ~calling /\ pc \notin Before \union {"check", "process"}
  /\ Len(burst) \in Nat

(* A fault is in the status, but for a writer of the recorder that failed, *)
(* until the runner asks for it; and the exit code says what the status    *)
(* says.                                                                   *)
VerdictHolds ==
  /\ status \in {"none", "success", "degraded", "error", "unavailable", "thrown"}
  /\ status = "none" => faults = {} /\ pc \in Before \union {"exited", "killed"}
  /\ pc \in Before => status = "none"
  /\ pc \in Loop \union {"join", "stoprec", "judge"} => status \in {"success", "degraded", "error"}
  /\ status = "success" => faults = IF recFailed THEN {"recorder"} ELSE {}
  /\ status = "success" /\ recFailed => pc \in Loop \union {"join", "stoprec", "judge", "killed"}
  /\ recFailed => status \notin {"none", "unavailable"}
  /\ status \in {"degraded", "error", "thrown"} => faults # {} /\ "unavailable" \notin faults
  /\ status = "unavailable" => faults = {"unavailable"}
  /\ pc = "exited" /\ status # "none" =>
       exit = IF status = "success" THEN 0 ELSE IF status = "unavailable" THEN 2 ELSE 1

-----------------------------------------------------------------------------
LEMMA NextKeepsWaits ==
  PlacesHold /\ SocketHolds /\ MbufsHold' /\ WaitsEmpty /\ [Next]_vars => WaitsEmpty'
<1> SUFFICES ASSUME PlacesHold, SocketHolds, MbufsHold', WaitsEmpty, [Next]_vars
             PROVE  WaitsEmpty'
  OBVIOUS
<1> USE DEF WaitsEmpty, Goto, Before, Starting
<1> USE DEF jobVars, stopVars, helperVars, countVars, verdictVars, backendVars, ingressVars,
            dpdkVars, socketVars, replayVars
<1>0. Len(burst') \in Nat
  <2>1. burst' \in Seq(Mbufs) \/ burst' \in Seq(Nat)
    BY DEF MbufsHold
  <2>2. QED
    BY <2>1
<1>1. CASE ParseArgs
  BY <1>0, <1>1 DEF ParseArgs, Exit, StartupUnchanged
<1>2. CASE LoadConfig
  BY <1>0, <1>2 DEF LoadConfig, Exit, StartupUnchanged
<1>3. CASE ValidateConfig
  BY <1>0, <1>3 DEF ValidateConfig, Exit, StartupUnchanged
<1>4. CASE OpenLog
  BY <1>0, <1>4 DEF OpenLog, Exit, StartupUnchanged
<1>5. CASE ResetStop
  BY <1>0, <1>5 DEF ResetStop
<1>6. CASE InstallHandlers
  BY <1>0, <1>6 DEF InstallHandlers
<1>7. CASE BackendInit
  BY <1>0, <1>7 DEF BackendInit, DpdkInit, DpdkDrain, SocketAddress, SocketOpen,
     SocketOption, ReplayInit
<1>8. CASE InitFailed
  BY <1>0, <1>8 DEF InitFailed, Fault, BackendShutdown, DpdkShutdown,
     SocketShutdown, ReplayShutdown
<1>9. CASE OpenCapture
  BY <1>0, <1>9 DEF OpenCapture, Throws, Fault
<1>10. CASE StartRecorder
  BY <1>0, <1>10 DEF StartRecorder, Throws, Fault
<1>11. CASE BeginRecv
  BY <1>0, <1>11 DEF BeginRecv, DpdkRecv, SocketRecv, CallRecv, ReplayRecv,
     LoopUnchanged
<1>12. CASE Receive
  BY <1>0, <1>12 DEF Receive, DpdkAnswer, DpdkDiscard, DpdkLend, TakeFrame,
     SocketReceive, SocketEmpty, SocketError, SocketMessage, ReplayAdapt,
     ReturnBurst, LoopUnchanged, SocketHolds, PlacesHold
<1>13. CASE RecvFailed
  BY <1>0, <1>13 DEF RecvFailed, Fault, ReleaseBurst, DpdkRelease, SocketRelease,
     ReplayRelease, LoopUnchanged
<1>14. CASE RecvDone
  BY <1>0, <1>14 DEF RecvDone, LoopUnchanged
<1>15. CASE FilterDatagram
  BY <1>0, <1>15 DEF FilterDatagram, HasDatagram, LoopUnchanged
<1>16. CASE RejectDatagram
  BY <1>0, <1>16 DEF RejectDatagram, HasDatagram, LoopUnchanged
<1>17. CASE DeliverDatagram
  BY <1>0, <1>17 DEF DeliverDatagram, HasDatagram, MayDropOutput, LoopUnchanged
<1>18. CASE ExhaustPool
  BY <1>0, <1>18 DEF ExhaustPool, Fault, HasDatagram, ReleaseBurst, DpdkRelease,
     SocketRelease, ReplayRelease, LoopUnchanged
<1>19. CASE EndBurst
  BY <1>0, <1>19 DEF EndBurst, ReleaseBurst, DpdkRelease,
     SocketRelease, ReplayRelease, LoopUnchanged
<1>20. CASE LeaveLoop
  BY <1>0, <1>20 DEF LeaveLoop, LoopUnchanged
<1>21. CASE FinalizeActive
  BY <1>0, <1>21 DEF FinalizeActive, LoopUnchanged
<1>22. CASE JoinConsumer
  BY <1>0, <1>22 DEF JoinConsumer
<1>23. CASE StopRecorder
  BY <1>0, <1>23 DEF StopRecorder
<1>24. CASE JudgeRun
  BY <1>0, <1>24 DEF JudgeRun, Throws, Fault, BackendShutdown, DpdkShutdown,
     SocketShutdown, ReplayShutdown, LoopUnchanged
<1>25. CASE Unwind
  BY <1>0, <1>25 DEF Unwind, BackendShutdown, DpdkShutdown, SocketShutdown,
     ReplayShutdown
<1>26. CASE LeaveRunner
  BY <1>0, <1>26 DEF LeaveRunner
<1>27. CASE Deadline
  BY <1>0, <1>27 DEF Deadline
<1>28. CASE Signal
  BY <1>0, <1>28 DEF Signal, Running
<1>29. CASE RequestStop
  BY <1>0, <1>29 DEF RequestStop, Running
<1>30. CASE RecorderFails
  BY <1>0, <1>30 DEF RecorderFails, Fault, Running
<1>31. CASE Arrive
  <2>1. UNCHANGED <<waiting, burst, recvOk, calling, pc>>
    BY <1>31 DEF Arrive, DpdkArrive, DpdkSent, SocketArrive, SocketLose, Arrives
  <2>2. QED
    BY <1>0, <2>1
<1>32. CASE UNCHANGED vars
  BY <1>0, <1>32 DEF vars
<1>33. QED
  BY <1>0, <1>1, <1>2, <1>3, <1>4, <1>5, <1>6, <1>7, <1>8, <1>9, <1>10, <1>11,
     <1>12, <1>13, <1>14, <1>15, <1>16, <1>17, <1>18, <1>19, <1>20, <1>21,
     <1>22, <1>23, <1>24, <1>25, <1>26, <1>27, <1>28, <1>29, <1>30, <1>31,
     <1>32 DEF Next, Program, Environment

LEMMA InitCounts == Init => WaitsEmpty /\ CountsHold /\ VerdictHolds
BY DEF Init, IngressInit, DpdkPlain, SocketPlain, WaitsEmpty, CountsHold, VerdictHolds,
   Pending, Unsettled, Starting, Before, Loop

LEMMA NextKeepsCounts ==
  RunInvariant /\ WaitsEmpty /\ CountsHold /\ [Next]_vars => CountsHold'
<1> SUFFICES ASSUME PlacesHold, MbufsHold, WaitsEmpty, CountsHold, [Next]_vars
             PROVE  CountsHold'
  BY DEF RunInvariant
<1> USE DEF CountsHold, Pending, Unsettled, Goto
<1> USE DEF jobVars, stopVars, helperVars, countVars, verdictVars, backendVars, ingressVars,
            dpdkVars, socketVars, replayVars
<1>1. CASE ParseArgs
  BY <1>1 DEF ParseArgs, Exit, StartupUnchanged
<1>2. CASE LoadConfig
  BY <1>2 DEF LoadConfig, Exit, StartupUnchanged
<1>3. CASE ValidateConfig
  BY <1>3 DEF ValidateConfig, Exit, StartupUnchanged
<1>4. CASE OpenLog
  BY <1>4 DEF OpenLog, Exit, StartupUnchanged
<1>5. CASE ResetStop
  BY <1>5 DEF ResetStop
<1>6. CASE InstallHandlers
  BY <1>6 DEF InstallHandlers
<1>7. CASE BackendInit
  BY <1>7 DEF BackendInit, DpdkInit, DpdkDrain, SocketAddress, SocketOpen,
     SocketOption, ReplayInit
<1>8. CASE InitFailed
  BY <1>8 DEF InitFailed, Fault, BackendShutdown, DpdkShutdown,
     SocketShutdown, ReplayShutdown
<1>9. CASE OpenCapture
  BY <1>9 DEF OpenCapture, Throws, Fault
<1>10. CASE StartRecorder
  BY <1>10 DEF StartRecorder, Throws, Fault
<1>11. CASE BeginRecv
  BY <1>11 DEF BeginRecv, DpdkRecv, SocketRecv, CallRecv, ReplayRecv,
     LoopUnchanged, PlacesHold
<1>12. CASE Receive
  <2>1. pc = "recv" /\ pc' = pc /\ UNCHANGED <<countVars, faults>> /\ Len(burst) \in Nat
    BY <1>12 DEF Receive, WaitsEmpty
  <2>2. CASE UNCHANGED <<discarded, rxPackets, burst>>
    BY <2>1, <2>2
  <2>3. CASE discarded' = discarded + 1 /\ rxPackets' = rxPackets + 1 /\ burst' = burst
    BY <2>1, <2>3
  <2>4. CASE discarded' = discarded /\ rxPackets' = rxPackets + 1 /\ \E e : burst' = Append(burst, e)
    <3>1. burst \in Seq(Mbufs) \/ burst \in Seq(Nat)
      BY DEF MbufsHold
    <3>2. Len(burst') = Len(burst) + 1
      BY <2>4, <3>1
    <3>3. QED
      BY <2>1, <2>4, <3>2
  <2>5. QED
    BY <1>12, <2>2, <2>3, <2>4 DEF Receive, DpdkAnswer, DpdkDiscard, DpdkLend, TakeFrame,
       SocketReceive, SocketEmpty, SocketError, SocketMessage, ReplayAdapt, ReturnBurst
<1>13. CASE RecvFailed
  BY <1>13 DEF RecvFailed, Fault, ReleaseBurst, DpdkRelease, SocketRelease,
     ReplayRelease, LoopUnchanged, WaitsEmpty
<1>14. CASE RecvDone
  BY <1>14 DEF RecvDone, LoopUnchanged, WaitsEmpty
<1>15. CASE FilterDatagram
  BY <1>15 DEF FilterDatagram, HasDatagram, LoopUnchanged
<1>16. CASE RejectDatagram
  BY <1>16 DEF RejectDatagram, HasDatagram, LoopUnchanged
<1>17. CASE DeliverDatagram
  BY <1>17 DEF DeliverDatagram, HasDatagram, MayDropOutput, LoopUnchanged
<1>18. CASE ExhaustPool
  BY <1>18 DEF ExhaustPool, Fault, HasDatagram, ReleaseBurst, DpdkRelease,
     SocketRelease, ReplayRelease, LoopUnchanged
<1>19. CASE EndBurst
  <2>1. pc = "process" /\ pc' = "check" /\ rx' = rx + accepted /\ Len(burst) \in Nat
        /\ UNCHANGED <<next, accepted, filtered, parsed, rejected, discarded, rxPackets>>
    BY <1>19 DEF EndBurst, ReleaseBurst, DpdkRelease, SocketRelease, ReplayRelease, WaitsEmpty
  <2>2. next = Len(burst) + 1
    BY <1>19, <2>1 DEF EndBurst
  <2>3. "pool" \notin faults' => "pool" \notin faults
    BY <1>19 DEF EndBurst
  <2>4. QED
    BY <2>1, <2>2, <2>3
<1>20. CASE LeaveLoop
  BY <1>20 DEF LeaveLoop, LoopUnchanged
<1>21. CASE FinalizeActive
  BY <1>21 DEF FinalizeActive, LoopUnchanged
<1>22. CASE JoinConsumer
  BY <1>22 DEF JoinConsumer
<1>23. CASE StopRecorder
  BY <1>23 DEF StopRecorder
<1>24. CASE JudgeRun
  BY <1>24 DEF JudgeRun, Throws, Fault, BackendShutdown, DpdkShutdown,
     SocketShutdown, ReplayShutdown, LoopUnchanged
<1>25. CASE Unwind
  BY <1>25 DEF Unwind, BackendShutdown, DpdkShutdown, SocketShutdown,
     ReplayShutdown
<1>26. CASE LeaveRunner
  BY <1>26 DEF LeaveRunner
<1>27. CASE Deadline
  BY <1>27 DEF Deadline
<1>28. CASE Signal
  BY <1>28 DEF Signal, Running, PlacesHold, Up
<1>29. CASE RequestStop
  BY <1>29 DEF RequestStop, Running
<1>30. CASE RecorderFails
  BY <1>30 DEF RecorderFails, Fault, Running
<1>31. CASE Arrive
  <2>1. UNCHANGED <<pc, burst, next, accepted, filtered, rx, parsed, rejected, discarded, rxPackets, faults>>
    BY <1>31 DEF Arrive, DpdkArrive, DpdkSent, SocketArrive, SocketLose, Arrives
  <2>2. QED
    BY <2>1
<1>32. CASE UNCHANGED vars
  BY <1>32 DEF vars
<1>33. QED
  BY <1>1, <1>2, <1>3, <1>4, <1>5, <1>6, <1>7, <1>8, <1>9, <1>10, <1>11,
     <1>12, <1>13, <1>14, <1>15, <1>16, <1>17, <1>18, <1>19, <1>20, <1>21,
     <1>22, <1>23, <1>24, <1>25, <1>26, <1>27, <1>28, <1>29, <1>30, <1>31,
     <1>32 DEF Next, Program, Environment

LEMMA NextKeepsVerdict ==
  PlacesHold /\ VerdictHolds /\ [Next]_vars => VerdictHolds'
<1> SUFFICES ASSUME PlacesHold, VerdictHolds, [Next]_vars
             PROVE  VerdictHolds'
  OBVIOUS
<1> USE DEF VerdictHolds, Starting, Before, Loop, Goto
<1> USE DEF jobVars, stopVars, helperVars, countVars, verdictVars, backendVars, ingressVars,
            dpdkVars, socketVars, replayVars
<1>1. CASE ParseArgs
  BY <1>1 DEF ParseArgs, Exit, StartupUnchanged
<1>2. CASE LoadConfig
  BY <1>2 DEF LoadConfig, Exit, StartupUnchanged
<1>3. CASE ValidateConfig
  BY <1>3 DEF ValidateConfig, Exit, StartupUnchanged
<1>4. CASE OpenLog
  BY <1>4 DEF OpenLog, Exit, StartupUnchanged
<1>5. CASE ResetStop
  BY <1>5 DEF ResetStop
<1>6. CASE InstallHandlers
  BY <1>6 DEF InstallHandlers
<1>7. CASE BackendInit
  BY <1>7 DEF BackendInit, DpdkInit, DpdkDrain, SocketAddress, SocketOpen,
     SocketOption, ReplayInit
<1>8. CASE InitFailed
  BY <1>8 DEF InitFailed, Fault, BackendShutdown, DpdkShutdown,
     SocketShutdown, ReplayShutdown
<1>9. CASE OpenCapture
  BY <1>9 DEF OpenCapture, Throws, Fault
<1>10. CASE StartRecorder
  BY <1>10 DEF StartRecorder, Throws, Fault
<1>11. CASE BeginRecv
  BY <1>11 DEF BeginRecv, DpdkRecv, SocketRecv, CallRecv, ReplayRecv,
     LoopUnchanged
<1>12. CASE Receive
  BY <1>12 DEF Receive, DpdkAnswer, DpdkDiscard, DpdkLend, TakeFrame,
     SocketReceive, SocketEmpty, SocketError, SocketMessage, ReplayAdapt,
     ReturnBurst, LoopUnchanged
<1>13. CASE RecvFailed
  BY <1>13 DEF RecvFailed, Fault, ReleaseBurst, DpdkRelease, SocketRelease,
     ReplayRelease, LoopUnchanged
<1>14. CASE RecvDone
  BY <1>14 DEF RecvDone, LoopUnchanged
<1>15. CASE FilterDatagram
  BY <1>15 DEF FilterDatagram, HasDatagram, LoopUnchanged, Settled, Degraded
<1>16. CASE RejectDatagram
  BY <1>16 DEF RejectDatagram, HasDatagram, LoopUnchanged, Settled, Degraded
<1>17. CASE DeliverDatagram
  BY <1>17 DEF DeliverDatagram, HasDatagram, MayDropOutput, LoopUnchanged,
     Settled, Degraded
<1>18. CASE ExhaustPool
  BY <1>18 DEF ExhaustPool, Fault, HasDatagram, ReleaseBurst, DpdkRelease,
     SocketRelease, ReplayRelease, LoopUnchanged
<1>19. CASE EndBurst
  BY <1>19 DEF EndBurst, ReleaseBurst, DpdkRelease,
     SocketRelease, ReplayRelease, LoopUnchanged
<1>20. CASE LeaveLoop
  BY <1>20 DEF LeaveLoop, LoopUnchanged
<1>21. CASE FinalizeActive
  BY <1>21 DEF FinalizeActive, LoopUnchanged, Settled, Degraded
<1>22. CASE JoinConsumer
  BY <1>22 DEF JoinConsumer
<1>23. CASE StopRecorder
  BY <1>23 DEF StopRecorder
<1>24. CASE JudgeRun
  BY <1>24 DEF JudgeRun, Throws, Fault, BackendShutdown, DpdkShutdown,
     SocketShutdown, ReplayShutdown, LoopUnchanged
<1>25. CASE Unwind
  BY <1>25 DEF Unwind, BackendShutdown, DpdkShutdown, SocketShutdown,
     ReplayShutdown
<1>26. CASE LeaveRunner
  BY <1>26 DEF LeaveRunner
<1>27. CASE Deadline
  BY <1>27 DEF Deadline
<1>28. CASE Signal
  BY <1>28 DEF Signal, Running
<1>29. CASE RequestStop
  BY <1>29 DEF RequestStop, Running
<1>30. CASE RecorderFails
  <2>1. /\ pc \in AtWork /\ pc' = pc /\ status' = status /\ exit' = exit
        /\ faults' = faults \union {"recorder"} /\ recFailed'
    BY <1>30 DEF RecorderFails, Fault, Running, PlacesHold
  <2>2. pc \in Loop \union {"join", "stoprec"} /\ status \in {"success", "degraded", "error"}
    BY <2>1 DEF AtWork
  <2>3. status = "success" => faults \subseteq {"recorder"}
    OBVIOUS
  <2>4. QED
    BY <2>1, <2>2, <2>3
<1>31. CASE Arrive
  <2>1. UNCHANGED <<pc, status, faults, exit, recFailed>>
    BY <1>31 DEF Arrive, DpdkArrive, DpdkSent, SocketArrive, SocketLose, Arrives
  <2>2. QED
    BY <2>1
<1>32. CASE UNCHANGED vars
  BY <1>32 DEF vars
<1>33. QED
  BY <1>1, <1>2, <1>3, <1>4, <1>5, <1>6, <1>7, <1>8, <1>9, <1>10, <1>11,
     <1>12, <1>13, <1>14, <1>15, <1>16, <1>17, <1>18, <1>19, <1>20, <1>21,
     <1>22, <1>23, <1>24, <1>25, <1>26, <1>27, <1>28, <1>29, <1>30, <1>31,
     <1>32 DEF Next, Program, Environment

-----------------------------------------------------------------------------
(* What holds of every run                                                 *)

VerdictInvariant == WaitsEmpty /\ CountsHold /\ VerdictHolds

THEOREM VerdictInvariantHolds == Spec => []VerdictInvariant
<1>1. Init => VerdictInvariant
  BY InitCounts DEF VerdictInvariant
<1>2. RunInvariant /\ RunInvariant' /\ VerdictInvariant /\ [Next]_vars => VerdictInvariant'
  BY NextKeepsWaits, NextKeepsCounts, NextKeepsVerdict DEF VerdictInvariant, RunInvariant
<1>3. QED
  BY <1>1, <1>2, RunInvariantHolds, PTL DEF Spec

(* The counters of the summary account for every frame the backend         *)
(* received, with any mixture of filtered, rejected and parsed datagrams;  *)
(* a loop that ends in the middle of a burst reports too few, never more.  *)
THEOREM PacketsAccountedHolds == Spec => []PacketsAccounted
<1>1. VerdictInvariant => PacketsAccounted
  <2> SUFFICES ASSUME VerdictInvariant, LoopOver
               PROVE  /\ "pool" \notin faults =>
                           (rx = parsed + rejected /\ rxPackets = discarded + filtered + rx)
                      /\ rx <= parsed + rejected
                      /\ discarded + filtered + parsed + rejected <= rxPackets
    BY DEF PacketsAccounted
  <2>1. Pending = 0 /\ Unsettled = 0
    BY DEF LoopOver, Pending, Unsettled
  <2>2. QED
    BY <2>1 DEF VerdictInvariant, CountsHold
<1>2. QED
  BY <1>1, VerdictInvariantHolds, PTL

(* The exit code is 0 exactly if nothing went wrong and no output was      *)
(* dropped, and 2 exactly if the backend is not built in.                  *)
THEOREM ExitCodeTruthfulHolds == Spec => []ExitCodeTruthful
<1>1. VerdictInvariant => ExitCodeTruthful
  BY DEF VerdictInvariant, VerdictHolds, ExitCodeTruthful, Loop
<1>2. QED
  BY <1>1, VerdictInvariantHolds, PTL

-----------------------------------------------------------------------------
(* Wrapped totals                                                          *)

LEMMA RemainderOf ==
  ASSUME NEW d \in Nat \ {0}, NEW x \in Nat, NEW q \in Nat, NEW r \in 0 .. d - 1, x = d * q + r
  PROVE  x % d = r
OBVIOUS

LEMMA QuotientBelow ==
  ASSUME NEW d \in Nat \ {0}, NEW x \in Nat
  PROVE  x \div d \in Int /\ d * (x \div d) <= x
OBVIOUS

LEMMA QuotientAbove ==
  ASSUME NEW d \in Nat \ {0}, NEW x \in Nat
  PROVE  x \div d \in Nat /\ x - d < d * (x \div d)
OBVIOUS

LEMMA Divided ==
  ASSUME NEW d \in Nat \ {0}, NEW x \in Nat
  PROVE  \E q \in Nat : \E r \in 0 .. d - 1 : x = d * q + r /\ x % d = r
<1> DEFINE q == x \div d
           r == x - d * q
<1>1. q \in Nat /\ d * q <= x /\ x - d < d * q
  BY QuotientBelow, QuotientAbove
<1> HIDE DEF q
<1>2. d * q \in Nat
  BY <1>1
<1>3. r \in 0 .. d - 1 /\ x = d * q + r
  BY <1>1, <1>2
<1>4. x % d = r
  BY <1>1, <1>3, RemainderOf
<1>5. QED
  BY <1>1, <1>3, <1>4

(* A later total minus an earlier one is congruent to the difference of    *)
(* the wrapped totals, and so no smaller than it.                          *)
LEMMA WrappedDifference ==
  ASSUME NEW d \in Nat \ {0}, NEW x \in Nat, NEW y \in Nat, x <= y
  PROVE  \E v, w \in 0 .. d - 1 :
           /\ v = x % d /\ w = y % d
           /\ w >= v => w - v <= y - x
           /\ x < d => v = x
           /\ y < d => w = y
<1>1. PICK p \in Nat, s \in 0 .. d - 1 : x = d * p + s /\ x % d = s
  BY Divided
<1>2. PICK q \in Nat, t \in 0 .. d - 1 : y = d * q + t /\ y % d = t
  BY Divided
<1>3. q >= p
  <2>1. SUFFICES ASSUME q < p
                 PROVE  FALSE
    BY <1>1, <1>2
  <2>2. PICK k \in Nat : p = q + 1 + k
    <3>1. p - q - 1 \in Nat /\ p = q + 1 + (p - q - 1)
      BY <1>1, <1>2, <2>1
    <3>2. QED
      BY <3>1
  <2>3. d * p = d * q + d + d * k /\ d * k \in Nat /\ d * q \in Nat
    BY <2>2
  <2>4. QED
    BY <1>1, <1>2, <2>3
<1>4. PICK k \in Nat : q = p + k
  <2>1. q - p \in Nat /\ q = p + (q - p)
    BY <1>1, <1>2, <1>3
  <2>2. QED
    BY <2>1
<1>5. d * q = d * p + d * k /\ d * k \in Nat /\ d * p \in Nat
  BY <1>4
<1>6. t >= s => t - s <= y - x
  BY <1>1, <1>2, <1>5
<1>7. x < d => s = x
  BY <1>1
<1>8. y < d => t = y
  BY <1>2
<1>9. QED
  BY <1>1, <1>2, <1>6, <1>7, <1>8

LEMMA SmallestOfTwo ==
  ASSUME NEW x \in Nat, NEW y \in Nat
  PROVE  Min({x, y}) \in 0 .. y
<1>1. \E v \in {x, y} : \A w \in {x, y} : v <= w
  OBVIOUS
<1>2. Min({x, y}) \in {x, y} /\ \A w \in {x, y} : Min({x, y}) <= w
  BY <1>1 DEF Min
<1>3. QED
  BY <1>2

-----------------------------------------------------------------------------
(* The kernel's drop counter                                               *)

Messages == [inet : BOOLEAN, total : Nat]

(* The totals that were stamped on the messages under way, s, before they  *)
(* wrapped, and the newest one the backend has used, b.                    *)
Stamps(b, s) ==
  /\ b \in Nat /\ s \in [Nat -> Nat]
  /\ b % DropMod = lastSeen /\ reported <= b /\ b <= kdrops
  /\ kdrops < DropMod => reported = b
  /\ \A i \in 1 .. Len(msgs) : msgs[i].total = s[i] % DropMod
  /\ \A i \in 1 .. Len(queue) : queue[i].total = s[Len(msgs) + i] % DropMod
  /\ \A i \in 1 .. Len(msgs) + Len(queue) : b <= s[i] /\ s[i] <= kdrops
  /\ \A i, j \in 1 .. Len(msgs) + Len(queue) : i <= j => s[i] <= s[j]

DropsHold ==
  /\ kdrops \in Nat /\ reported \in Nat /\ reported <= kdrops
  /\ msgs \in Seq(Messages) /\ queue \in Seq(Messages)
  /\ msgs # <<>> => calling /\ ~waiting
  /\ fd # "owned" => msgs = <<>> /\ queue = <<>>
  /\ fd # "owned" /\ pc \in Starting \union {"init"} =>
       kdrops = 0 /\ reported = 0 /\ lastSeen = 0
  /\ fd = "owned" => \E b, s : Stamps(b, s)

LEMMA InitDrops == Init => DropsHold
BY DEF Init, IngressInit, SocketPlain, DropsHold

(* Nothing that concerns the counter happens.                              *)
LEMMA DropsStay ==
  ASSUME DropsHold, UNCHANGED <<fd, msgs, queue, kdrops, lastSeen, reported>>,
         msgs # <<>> => calling' /\ ~waiting',
         pc' \in Starting \union {"init"} => pc \in Starting \union {"init"}
  PROVE  DropsHold'
<1>1. \A b, s : Stamps(b, s) => Stamps(b, s)'
  BY DEF Stamps
<1>2. QED
  BY <1>1 DEF DropsHold

(* A message of the batch is looked at, with its control data or without.  *)
LEMMA MessageKeepsDrops ==
  ASSUME DropsHold, SocketMessage, UNCHANGED pc
  PROVE  DropsHold'
<1>1. /\ msgs # <<>> /\ msgs' = Tail(msgs) /\ calling' /\ ~waiting'
      /\ UNCHANGED <<fd, queue, kdrops>> /\ fd = "owned"
  BY DEF SocketMessage, DropsHold
<1>2. PICK b, s : Stamps(b, s)
  BY <1>1 DEF DropsHold
<1> DEFINE r == [i \in Nat |-> s[i + 1]]
           n == Len(msgs)
           l == Len(queue)
<1>3. /\ n \in Nat \ {0} /\ l \in Nat /\ Tail(msgs) \in Seq(Messages)
      /\ Len(Tail(msgs)) = n - 1 /\ \A i \in 1 .. n - 1 : Tail(msgs)[i] = msgs[i + 1]
      /\ Head(msgs) = msgs[1] /\ msgs[1] \in Messages
  BY <1>1 DEF DropsHold
<1>4. /\ s \in [Nat -> Nat] /\ r \in [Nat -> Nat] /\ s[1] \in Nat /\ b \in Nat
      /\ b <= s[1] /\ s[1] <= kdrops /\ Head(msgs).total = s[1] % DropMod
      /\ b % DropMod = lastSeen /\ reported <= b
      /\ kdrops < DropMod => reported = b
  <2>1. s \in [Nat -> Nat] /\ b \in Nat /\ b % DropMod = lastSeen /\ reported <= b
    BY <1>2 DEF Stamps
  <2>2. r \in [Nat -> Nat]
    BY <2>1
  <2>3. 1 \in 1 .. n /\ 1 \in 1 .. n + l
    BY <1>3
  <2> HIDE DEF r
  <2>4. b <= s[1] /\ s[1] <= kdrops /\ Head(msgs).total = s[1] % DropMod
    BY <1>2, <1>3, <2>3 DEF Stamps
  <2>5. QED
    BY <1>2, <2>1, <2>2, <2>4 DEF Stamps
<1>5. /\ \A i \in 1 .. n - 1 : Tail(msgs)[i].total = r[i] % DropMod
      /\ \A i \in 1 .. l : queue[i].total = r[n - 1 + i] % DropMod
  <2>1. \A i \in 1 .. n - 1 : i \in Nat /\ i + 1 \in 1 .. n /\ r[i] = s[i + 1]
    BY <1>3, <1>4
  <2>2. \A i \in 1 .. l : n - 1 + i \in Nat /\ r[n - 1 + i] = s[n + i]
    <3> SUFFICES ASSUME NEW i \in 1 .. l
                 PROVE  n - 1 + i \in Nat /\ r[n - 1 + i] = s[n + i]
      OBVIOUS
    <3>1. n - 1 + i \in Nat /\ (n - 1 + i) + 1 = n + i
      BY <1>3
    <3>2. QED
      BY <3>1
  <2>3. /\ \A i \in 1 .. n : msgs[i].total = s[i] % DropMod
        /\ \A i \in 1 .. l : queue[i].total = s[n + i] % DropMod
    BY <1>2 DEF Stamps
  <2> HIDE DEF r, n, l
  <2>4. \A i \in 1 .. n - 1 : Tail(msgs)[i].total = r[i] % DropMod
    BY <1>3, <2>1, <2>3
  <2>5. \A i \in 1 .. l : queue[i].total = r[n - 1 + i] % DropMod
    BY <2>2, <2>3
  <2>6. QED
    BY <2>4, <2>5
<1>6. \A i \in 1 .. (n - 1) + l :
          i \in Nat /\ i + 1 \in 1 .. n + l /\ r[i] = s[i + 1] /\ 1 \in 1 .. n + l
  <2> SUFFICES ASSUME NEW i \in 1 .. (n - 1) + l
               PROVE  i \in Nat /\ i + 1 \in 1 .. n + l /\ r[i] = s[i + 1] /\ 1 \in 1 .. n + l
    OBVIOUS
  <2> HIDE DEF n, l
  <2>1. i \in Nat /\ i + 1 \in 1 .. n + l /\ 1 \in 1 .. n + l
    BY <1>3
  <2>2. r[i] = s[i + 1]
    BY <2>1
  <2>3. QED
    BY <2>1, <2>2
<1>7. /\ \A i \in 1 .. n + l : b <= s[i] /\ s[i] <= kdrops
      /\ \A i, j \in 1 .. n + l : i <= j => s[i] <= s[j]
  BY <1>2 DEF Stamps
<1> HIDE DEF r, n, l
<1>8. \A i \in 1 .. (n - 1) + l : s[1] <= r[i] /\ r[i] <= kdrops
  <2> SUFFICES ASSUME NEW i \in 1 .. (n - 1) + l
               PROVE  s[1] <= s[i + 1] /\ s[i + 1] <= kdrops
    BY <1>6
  <2>1. 1 \in 1 .. n + l /\ i + 1 \in 1 .. n + l /\ 1 <= i + 1
    BY <1>6
  <2>2. QED
    BY <1>7, <2>1
<1>9. \A i, j \in 1 .. (n - 1) + l : i <= j => r[i] <= r[j]
  <2> SUFFICES ASSUME NEW i \in 1 .. (n - 1) + l, NEW j \in 1 .. (n - 1) + l, i <= j
               PROVE  s[i + 1] <= s[j + 1]
    BY <1>6
  <2>1. i + 1 \in 1 .. n + l /\ j + 1 \in 1 .. n + l /\ i + 1 <= j + 1
    BY <1>6
  <2>2. QED
    BY <1>7, <2>1
<1>10. kdrops \in Nat /\ reported \in Nat /\ DropMod \in Nat \ {0}
  BY SocketAssumption DEF DropsHold
<1>11. CASE UNCHANGED <<lastSeen, reported>>
  <2>1. \A i \in 1 .. (n - 1) + l : b <= r[i]
    <3> SUFFICES ASSUME NEW i \in 1 .. (n - 1) + l
                 PROVE  b <= r[i]
      OBVIOUS
    <3>1. s[1] <= r[i] /\ r[i] \in Nat
      BY <1>4, <1>6, <1>8
    <3>2. QED
      BY <1>4, <3>1
  <2>2. Stamps(b, r)'
    BY <1>1, <1>2, <1>3, <1>4, <1>5, <1>8, <1>9, <1>11, <2>1 DEF Stamps, n, l
  <2>3. QED
    BY <1>1, <1>3, <1>11, <2>2 DEF DropsHold
<1>12. CASE /\ Head(msgs).total # 0 /\ lastSeen' = s[1] % DropMod
            /\ reported' = IF s[1] % DropMod < lastSeen THEN reported
                           ELSE reported + ((s[1] % DropMod) - lastSeen)
  <2>1. PICK t \in Nat : t = s[1]
    BY <1>4
  <2>2. /\ lastSeen' = t % DropMod /\ b <= t /\ t <= kdrops
        /\ reported' = IF t % DropMod < lastSeen THEN reported
                       ELSE reported + ((t % DropMod) - lastSeen)
    BY <1>4, <1>12, <2>1
  <2>3. PICK v \in 0 .. DropMod - 1, w \in 0 .. DropMod - 1 :
           /\ v = b % DropMod /\ w = t % DropMod
           /\ w >= v => w - v <= t - b
           /\ b < DropMod => v = b
           /\ t < DropMod => w = t
    BY <1>4, <1>10, <2>2, WrappedDifference
  <2>4. v \in Nat /\ w \in Nat /\ v = lastSeen
    BY <1>4, <1>10, <2>3
  <2>5. reported' = IF w < v THEN reported ELSE reported + (w - v)
    BY <2>2, <2>3, <2>4
  <2>6. reported' \in Nat /\ reported' <= t /\ reported' <= kdrops
    BY <1>4, <1>10, <2>2, <2>3, <2>4, <2>5
  <2>7. kdrops < DropMod => reported' = t
    BY <1>4, <1>10, <2>2, <2>3, <2>4, <2>5
  <2>8. \A i \in 1 .. (n - 1) + l : t <= r[i]
    BY <1>8, <2>1
  <2>9. Stamps(t, r)'
    BY <1>1, <1>3, <1>4, <1>5, <1>8, <1>9, <1>12, <2>2, <2>6, <2>7, <2>8 DEF Stamps, n, l
  <2>10. QED
    BY <1>1, <1>3, <1>10, <2>6, <2>9 DEF DropsHold, l
<1>13. QED
  BY <1>4, <1>11, <1>12 DEF SocketMessage, UpdateDrops

(* The kernel gives a batch.                                               *)
LEMMA BatchKeepsDrops ==
  ASSUME DropsHold, SocketReceive(cfg.maxBurst), calling, cfg.maxBurst \in Nat, UNCHANGED pc
  PROVE  DropsHold'
<1> DEFINE n == Min({cfg.maxBurst, Len(queue)})
           a == SubSeq(queue, 1, n)
           b == SubSeq(queue, n + 1, Len(queue))
<1>1. /\ queue # <<>> /\ msgs' = a /\ queue' = b /\ calling' /\ ~waiting' /\ msgs = <<>>
      /\ fd = "owned" /\ UNCHANGED <<fd, kdrops, lastSeen, reported>>
  BY DEF SocketReceive, DropsHold
<1>2. queue \in Seq(Messages) /\ Len(queue) \in Nat
  BY DEF DropsHold
<1>3. n \in 0 .. Len(queue)
  BY <1>2, SmallestOfTwo
<1> HIDE DEF n
<1>4. /\ a \in Seq(Messages) /\ Len(a) = n /\ b \in Seq(Messages) /\ Len(b) = Len(queue) - n
      /\ \A i \in 1 .. n : a[i] = queue[i]
      /\ \A i \in 1 .. Len(queue) - n : b[i] = queue[n + i]
  <2>1. CASE n = 0
    <3>1. a = <<>> /\ b = queue
      BY <1>2, <2>1
    <3>2. QED
      BY <1>2, <2>1, <3>1
  <2>2. CASE n # 0
    <3>1. n \in 1 .. Len(queue)
      BY <1>3, <2>2
    <3>2. QED
      BY <1>2, <3>1, SplitFacts
  <2>3. QED
    BY <2>1, <2>2
<1> HIDE DEF a, b
<1>5. PICK c, s : Stamps(c, s)
  BY <1>1 DEF DropsHold
<1>6. Len(msgs) = 0 /\ Len(a) + Len(b) = Len(queue)
  BY <1>1, <1>2, <1>3, <1>4
<1>7. \A i \in 1 .. Len(a) : a[i].total = s[i] % DropMod
  <2> SUFFICES ASSUME NEW i \in 1 .. Len(a)
               PROVE  a[i].total = s[i] % DropMod
    OBVIOUS
  <2>1. i \in 1 .. Len(queue) /\ a[i] = queue[i] /\ Len(msgs) + i = i
    BY <1>2, <1>3, <1>4, <1>6
  <2>2. queue[i].total = s[Len(msgs) + i] % DropMod
    BY <1>5, <2>1 DEF Stamps
  <2>3. QED
    BY <2>1, <2>2
<1>8. \A i \in 1 .. Len(b) : b[i].total = s[Len(a) + i] % DropMod
  <2> SUFFICES ASSUME NEW i \in 1 .. Len(b)
               PROVE  b[i].total = s[Len(a) + i] % DropMod
    OBVIOUS
  <2>1. n + i \in 1 .. Len(queue) /\ b[i] = queue[n + i] /\ Len(msgs) + (n + i) = Len(a) + i
    BY <1>2, <1>3, <1>4, <1>6
  <2>2. queue[n + i].total = s[Len(msgs) + (n + i)] % DropMod
    BY <1>5, <2>1 DEF Stamps
  <2>3. QED
    BY <2>1, <2>2
<1>9. Len(msgs) + Len(queue) = Len(a) + Len(b)
  BY <1>2, <1>6
<1>10. Stamps(c, s)'
  BY <1>1, <1>5, <1>7, <1>8, <1>9 DEF Stamps
<1>11. QED
  BY <1>1, <1>4, <1>10 DEF DropsHold

(* A datagram is queued with the present total, or dropped.                *)
LEMMA ArrivalKeepsDrops ==
  ASSUME DropsHold, NEW inet \in BOOLEAN, SocketArrive(inet), UNCHANGED <<pc, calling>>
  PROVE  DropsHold'
<1> DEFINE e == [inet |-> inet, total |-> kdrops % DropMod]
<1>1. /\ queue' = Append(queue, e) /\ fd = "owned"
      /\ UNCHANGED <<fd, msgs, kdrops, lastSeen, reported, waiting>>
  BY DEF SocketArrive
<1>2. /\ msgs \in Seq(Messages) /\ queue \in Seq(Messages)
      /\ Len(msgs) \in Nat /\ Len(queue) \in Nat /\ kdrops \in Nat /\ DropMod \in Nat \ {0}
  BY SocketAssumption DEF DropsHold
<1>3. PICK b, s : Stamps(b, s)
  BY <1>1 DEF DropsHold
<1>4. kdrops % DropMod \in Nat
  BY <1>2
<1>5. e \in Messages /\ e.total = kdrops % DropMod
  BY <1>4 DEF Messages
<1> HIDE DEF e
<1>6. /\ queue' \in Seq(Messages) /\ Len(queue') = Len(queue) + 1
      /\ queue'[Len(queue) + 1] = e
      /\ \A i \in 1 .. Len(queue) : queue'[i] = queue[i]
  BY <1>1, <1>2, <1>5
<1>7. PICK n \in Nat : n = Len(msgs) + Len(queue)
  BY <1>2
<1>8. /\ s \in [Nat -> Nat] /\ b <= kdrops
      /\ \A i \in 1 .. n : b <= s[i] /\ s[i] <= kdrops
      /\ \A i, j \in 1 .. n : i <= j => s[i] <= s[j]
  BY <1>3, <1>7 DEF Stamps
<1>9. PICK r \in [Nat -> Nat] : r[n + 1] = kdrops /\ \A i \in 1 .. n : r[i] = s[i]
  <2> DEFINE q == [i \in Nat |-> IF i = n + 1 THEN kdrops ELSE s[i]]
  <2>1. q \in [Nat -> Nat]
    BY <1>2, <1>8
  <2>2. q[n + 1] = kdrops
    OBVIOUS
  <2>3. \A i \in 1 .. n : i \in Nat /\ i # n + 1
    OBVIOUS
  <2>4. \A i \in 1 .. n : q[i] = s[i]
    BY <2>3
  <2> HIDE DEF q
  <2>5. QED
    BY <2>1, <2>2, <2>4
<1>10. \A i \in 1 .. Len(msgs) : msgs'[i].total = r[i] % DropMod
  <2> SUFFICES ASSUME NEW i \in 1 .. Len(msgs)
               PROVE  msgs[i].total = r[i] % DropMod
    BY <1>1
  <2>1. i \in 1 .. n
    BY <1>2, <1>7
  <2>2. r[i] = s[i]
    BY <1>9, <2>1
  <2>3. msgs[i].total = s[i] % DropMod
    BY <1>3 DEF Stamps
  <2>4. QED
    BY <2>2, <2>3
<1>11. \A i \in 1 .. Len(queue') : queue'[i].total = r[Len(msgs') + i] % DropMod
  <2> SUFFICES ASSUME NEW i \in 1 .. Len(queue')
               PROVE  queue'[i].total = r[Len(msgs) + i] % DropMod
    BY <1>1
  <2>1. CASE i = Len(queue) + 1
    <3>1. Len(msgs) + i = n + 1
      BY <1>2, <1>7, <2>1
    <3>2. queue'[i].total = kdrops % DropMod
      BY <1>5, <1>6, <2>1
    <3>3. QED
      BY <1>9, <3>1, <3>2
  <2>2. CASE i \in 1 .. Len(queue)
    <3>1. Len(msgs) + i \in 1 .. n
      BY <1>2, <1>7, <2>2
    <3>2. queue[i].total = s[Len(msgs) + i] % DropMod
      BY <1>3, <2>2 DEF Stamps
    <3>3. QED
      BY <1>6, <1>9, <2>2, <3>1, <3>2
  <2>3. QED
    BY <1>2, <1>6, <2>1, <2>2
<1>12. Len(msgs') + Len(queue') = n + 1
  BY <1>1, <1>2, <1>6, <1>7
<1>13. \A i \in 1 .. n + 1 : b <= r[i] /\ r[i] <= kdrops
  <2> SUFFICES ASSUME NEW i \in 1 .. n + 1
               PROVE  b <= r[i] /\ r[i] <= kdrops
    OBVIOUS
  <2>1. CASE i = n + 1
    BY <1>2, <1>8, <1>9, <2>1
  <2>2. CASE i \in 1 .. n
    BY <1>8, <1>9, <2>2
  <2>3. QED
    BY <2>1, <2>2
<1>14. \A i, j \in 1 .. n + 1 : i <= j => r[i] <= r[j]
  <2> SUFFICES ASSUME NEW i \in 1 .. n + 1, NEW j \in 1 .. n + 1, i <= j
               PROVE  r[i] <= r[j]
    OBVIOUS
  <2>1. CASE j = n + 1
    <3>1. r[j] = kdrops
      BY <1>9, <2>1
    <3>2. QED
      BY <1>13, <3>1
  <2>2. CASE j \in 1 .. n
    <3>1. i \in 1 .. n
      BY <2>2
    <3>2. s[i] <= s[j]
      BY <1>8, <2>2, <3>1
    <3>3. QED
      BY <1>9, <2>2, <3>1, <3>2
  <2>3. QED
    BY <2>1, <2>2
<1>15. Stamps(b, r)'
  BY <1>1, <1>3, <1>9, <1>10, <1>11, <1>12, <1>13, <1>14 DEF Stamps
<1>16. QED
  BY <1>1, <1>6, <1>15 DEF DropsHold

(* A datagram finds the receive buffer full.                               *)
LEMMA LossKeepsDrops ==
  ASSUME DropsHold, SocketLose, UNCHANGED <<pc, calling>>
  PROVE  DropsHold'
<1>1. /\ fd = "owned" /\ kdrops' = kdrops + 1 /\ kdrops \in Nat
      /\ UNCHANGED <<fd, msgs, queue, lastSeen, reported, waiting>>
  BY DEF SocketLose, DropsHold
<1>2. PICK b, s : Stamps(b, s)
  BY <1>1 DEF DropsHold
<1>3. /\ b \in Nat /\ b <= kdrops' /\ (kdrops' < DropMod => kdrops < DropMod)
      /\ \A i \in 1 .. Len(msgs) + Len(queue) : b <= s[i] /\ s[i] <= kdrops'
  <2>1. /\ b \in Nat /\ b <= kdrops /\ s \in [Nat -> Nat] /\ DropMod \in Nat
        /\ Len(msgs) + Len(queue) \in Nat
    <3>1. Len(msgs) \in Nat /\ Len(queue) \in Nat
      BY DEF DropsHold
    <3>2. b \in Nat /\ b <= kdrops /\ s \in [Nat -> Nat]
      BY <1>2 DEF Stamps
    <3>3. DropMod \in Nat /\ Len(msgs) + Len(queue) \in Nat
      BY <3>1, SocketAssumption
    <3>4. QED
      BY <3>2, <3>3
  <2>2. b <= kdrops' /\ (kdrops' < DropMod => kdrops < DropMod)
    BY <1>1, <2>1
  <2>3. \A i \in 1 .. Len(msgs) + Len(queue) : b <= s[i] /\ s[i] <= kdrops
    BY <1>2 DEF Stamps
  <2>4. \A i \in 1 .. Len(msgs) + Len(queue) : s[i] \in Nat
    BY <2>1
  <2>5. QED
    BY <1>1, <2>1, <2>2, <2>3, <2>4
<1>4. Stamps(b, s)'
  BY <1>1, <1>2, <1>3 DEF Stamps
<1>5. reported' <= kdrops' /\ kdrops' \in Nat
  BY <1>1 DEF DropsHold
<1>6. QED
  BY <1>1, <1>4, <1>5 DEF DropsHold

(* init() takes the socket over with an empty buffer and no drops, or not. *)
LEMMA SetupKeepsDrops ==
  ASSUME DropsHold, SocketHolds, pc = "init", SocketOpen \/ SocketOption, UNCHANGED pc
  PROVE  DropsHold'
<1>1. /\ fd # "owned" /\ msgs = <<>> /\ queue = <<>>
      /\ kdrops = 0 /\ reported = 0 /\ lastSeen = 0
  BY DEF SocketOpen, SocketOption, SocketHolds, DropsHold
<1>2. UNCHANGED <<msgs, queue, kdrops, lastSeen, reported, waiting, calling>>
  BY DEF SocketOpen, SocketOption
<1> DEFINE s == [i \in Nat |-> 0]
<1>3. DropMod \in Nat \ {0} /\ 0 % DropMod = 0
  BY SocketAssumption
<1>4. Stamps(0, s)'
  <2>1. Len(msgs') = 0 /\ Len(queue') = 0 /\ s \in [Nat -> Nat]
    BY <1>1, <1>2
  <2> HIDE DEF s
  <2>2. QED
    BY <1>1, <1>2, <1>3, <2>1 DEF Stamps
<1> HIDE DEF s
<1>5. QED
  BY <1>1, <1>2, <1>4 DEF DropsHold

(* shutdown() forgets what was queued and the newest total.                *)
LEMMA ShutdownKeepsDrops ==
  ASSUME DropsHold, SocketHolds, BackendShutdown, ~calling, dev # "init", pc' = "leave"
  PROVE  DropsHold'
<1>1. msgs = <<>> /\ fd \in {"none", "owned"}
  BY DEF DropsHold, SocketHolds
<1>2. CASE cfg.backend # "socket"
  <2>1. UNCHANGED <<fd, msgs, queue, kdrops, lastSeen, reported>>
    BY <1>2 DEF BackendShutdown, socketVars
  <2>2. QED
    BY <1>1, <2>1, DropsStay DEF Starting
<1>3. CASE UNCHANGED socketVars
  BY <1>1, <1>3, DropsStay DEF socketVars, Starting
<1>4. CASE SocketShutdown
  <2>1. fd' = "none" /\ queue' = <<>> /\ msgs' = <<>> /\ UNCHANGED <<kdrops, reported>>
    BY <1>1, <1>4 DEF SocketShutdown, DropsHold
  <2>2. <<>> \in Seq(Messages)
    OBVIOUS
  <2>3. QED
    BY <2>1, <2>2 DEF DropsHold, Starting
<1>5. QED
  BY <1>2, <1>3, <1>4 DEF BackendShutdown

LEMMA NextKeepsDrops ==
  PlacesHold /\ SocketHolds /\ MbufsHold /\ DropsHold /\ [Next]_vars => DropsHold'
<1> SUFFICES ASSUME PlacesHold, SocketHolds, MbufsHold, DropsHold, [Next]_vars
             PROVE  DropsHold'
  OBVIOUS
<1>0. /\ msgs # <<>> => calling /\ ~waiting /\ pc = "recv"
      /\ waiting => calling /\ msgs = <<>>
      /\ cfg.maxBurst \in Nat
  BY DEF DropsHold, PlacesHold, SocketHolds, MbufsHold
<1> USE DEF Goto, jobVars, stopVars, helperVars, countVars, verdictVars, backendVars,
            ingressVars, dpdkVars, socketVars, replayVars
<1>1. CASE ParseArgs
  BY <1>0, <1>1, DropsStay DEF ParseArgs, Exit, StartupUnchanged, Starting
<1>2. CASE LoadConfig
  BY <1>0, <1>2, DropsStay DEF LoadConfig, Exit, StartupUnchanged, Starting
<1>3. CASE ValidateConfig
  BY <1>0, <1>3, DropsStay DEF ValidateConfig, Exit, StartupUnchanged,
     Starting
<1>4. CASE OpenLog
  BY <1>0, <1>4, DropsStay DEF OpenLog, Exit, StartupUnchanged, Starting
<1>5. CASE ResetStop
  BY <1>0, <1>5, DropsStay DEF ResetStop, Starting
<1>6. CASE InstallHandlers
  BY <1>0, <1>6, DropsStay DEF InstallHandlers, Starting
<1>7. CASE BackendInit
  <2>1. pc = "init" /\ UNCHANGED pc
    BY <1>7 DEF BackendInit
  <2>2. CASE SocketOpen \/ SocketOption
    BY <2>1, <2>2, SetupKeepsDrops
  <2>3. CASE ~(SocketOpen \/ SocketOption)
    <3>1. UNCHANGED <<fd, msgs, queue, kdrops, lastSeen, reported>>
      BY <1>7, <2>3 DEF BackendInit, SocketAddress
    <3>2. msgs = <<>>
      BY <1>0, <2>1
    <3>3. QED
      BY <2>1, <3>1, <3>2, DropsStay
  <2>4. QED
    BY <2>2, <2>3
<1>8. CASE InitFailed
  <2>1. BackendShutdown /\ ~calling /\ dev # "init" /\ pc' = "leave"
    BY <1>8 DEF InitFailed, PlacesHold, Starting, Up
  <2>2. QED
    BY <2>1, ShutdownKeepsDrops
<1>9. CASE OpenCapture
  BY <1>0, <1>9, DropsStay DEF OpenCapture, Throws, Fault, Starting
<1>10. CASE StartRecorder
  BY <1>0, <1>10, DropsStay DEF StartRecorder, Throws, Fault, Starting
<1>11. CASE BeginRecv
  BY <1>0, <1>11, DropsStay DEF BeginRecv, DpdkRecv, SocketRecv, CallRecv,
     ReplayRecv, LoopUnchanged, Starting
<1>12. CASE Receive
  <2>1. pc = "recv" /\ UNCHANGED pc
    BY <1>12 DEF Receive
  <2>2. CASE SocketMessage
    BY <2>1, <2>2, MessageKeepsDrops
  <2>3. CASE SocketReceive(cfg.maxBurst)
    BY <1>0, <2>1, <2>3, BatchKeepsDrops DEF SocketReceive
  <2>4. CASE SocketEmpty(BlocksForever) \/ SocketError
    BY <1>0, <2>1, <2>4, DropsStay DEF SocketEmpty, SocketError
  <2>5. CASE UNCHANGED socketVars /\ (calling' = calling \/ msgs = <<>>)
    BY <1>0, <2>1, <2>5, DropsStay
  <2>6. QED
    BY <1>12, <2>2, <2>3, <2>4, <2>5 DEF Receive, DpdkAnswer, DpdkDiscard, DpdkLend, TakeFrame,
       ReplayAdapt, ReturnBurst
<1>13. CASE RecvFailed
  BY <1>0, <1>13, DropsStay DEF RecvFailed, Fault, ReleaseBurst, DpdkRelease,
     SocketRelease, ReplayRelease, LoopUnchanged, Starting
<1>14. CASE RecvDone
  BY <1>0, <1>14, DropsStay DEF RecvDone, LoopUnchanged, Starting
<1>15. CASE FilterDatagram
  BY <1>0, <1>15, DropsStay DEF FilterDatagram, HasDatagram, LoopUnchanged,
     Starting
<1>16. CASE RejectDatagram
  BY <1>0, <1>16, DropsStay DEF RejectDatagram, HasDatagram, LoopUnchanged,
     Starting
<1>17. CASE DeliverDatagram
  BY <1>0, <1>17, DropsStay DEF DeliverDatagram, HasDatagram, MayDropOutput,
     LoopUnchanged, Starting
<1>18. CASE ExhaustPool
  BY <1>0, <1>18, DropsStay DEF ExhaustPool, Fault, HasDatagram, ReleaseBurst,
     DpdkRelease, SocketRelease, ReplayRelease, LoopUnchanged, Starting
<1>19. CASE EndBurst
  BY <1>0, <1>19, DropsStay DEF EndBurst, ReleaseBurst,
     DpdkRelease, SocketRelease, ReplayRelease, LoopUnchanged, Starting
<1>20. CASE LeaveLoop
  BY <1>0, <1>20, DropsStay DEF LeaveLoop, LoopUnchanged, Starting
<1>21. CASE FinalizeActive
  BY <1>0, <1>21, DropsStay DEF FinalizeActive, LoopUnchanged,
     Starting
<1>22. CASE JoinConsumer
  BY <1>0, <1>22, DropsStay DEF JoinConsumer, Starting
<1>23. CASE StopRecorder
  BY <1>0, <1>23, DropsStay DEF StopRecorder, Starting
<1>24. CASE JudgeRun
  <2>1. CASE BackendShutdown /\ pc' = "leave"
    <3>1. ~calling /\ dev # "init"
      BY <1>24 DEF JudgeRun, PlacesHold, Up
    <3>2. QED
      BY <2>1, <3>1, ShutdownKeepsDrops
  <2>2. CASE Throws("recorder") /\ UNCHANGED backendVars
    BY <1>0, <1>24, <2>2, DropsStay DEF JudgeRun, Throws, Starting
  <2>3. QED
    BY <1>24, <2>1, <2>2 DEF JudgeRun
<1>25. CASE Unwind
  <2>1. BackendShutdown /\ ~calling /\ dev # "init" /\ pc' = "leave"
    BY <1>25 DEF Unwind, PlacesHold, Starting, Up
  <2>2. QED
    BY <2>1, ShutdownKeepsDrops
<1>26. CASE LeaveRunner
  BY <1>0, <1>26, DropsStay DEF LeaveRunner, Starting
<1>27. CASE Deadline
  BY <1>0, <1>27, DropsStay DEF Deadline, Starting
<1>28. CASE Signal
  BY <1>0, <1>28, DropsStay DEF Signal, Running, Starting
<1>29. CASE RequestStop
  BY <1>0, <1>29, DropsStay DEF RequestStop, Running, Starting
<1>30. CASE RecorderFails
  BY <1>0, <1>30, DropsStay DEF RecorderFails, Fault, Running, Starting
<1>31. CASE Arrive
  <2>1. UNCHANGED <<pc, calling>>
    BY <1>31 DEF Arrive, DpdkArrive, DpdkSent, SocketArrive, SocketLose, Arrives
  <2>2. CASE SocketLose
    BY <2>1, <2>2, LossKeepsDrops
  <2>3. ASSUME NEW inet \in BOOLEAN, SocketArrive(inet)
        PROVE  DropsHold'
    BY <2>1, <2>3, ArrivalKeepsDrops
  <2>4. CASE UNCHANGED socketVars
    BY <1>0, <2>1, <2>4, DropsStay
  <2>5. QED
    BY <1>31, <2>2, <2>3, <2>4 DEF Arrive
<1>32. CASE UNCHANGED vars
  BY <1>0, <1>32, DropsStay DEF vars, Starting
<1>33. QED
  BY <1>1, <1>2, <1>3, <1>4, <1>5, <1>6, <1>7, <1>8, <1>9, <1>10, <1>11,
     <1>12, <1>13, <1>14, <1>15, <1>16, <1>17, <1>18, <1>19, <1>20, <1>21,
     <1>22, <1>23, <1>24, <1>25, <1>26, <1>27, <1>28, <1>29, <1>30, <1>31,
     <1>32 DEF Next, Program, Environment

-----------------------------------------------------------------------------
(* The run never reports more kernel drops than there were, although the   *)
(* total wraps and not every message carries one; until it wraps, what is  *)
(* reported is the newest total a message carried.                         *)
THEOREM KernelDropsTruthfulHolds == Spec => []KernelDropsTruthful
<1>1. Init => RunInvariant /\ DropsHold
  BY InitDrops, InitPlaces, InitMbufs DEF RunInvariant
<1>2. RunInvariant /\ DropsHold /\ [Next]_vars => RunInvariant' /\ DropsHold'
  BY NextKeepsDrops, NextKeepsPlaces, NextKeepsSocket, NextKeepsMbufs DEF RunInvariant
<1>3. DropsHold => KernelDropsTruthful
  <2> SUFFICES ASSUME DropsHold
               PROVE  KernelDropsTruthful
    OBVIOUS
  <2>1. CASE kdrops < DropMod /\ fd = "owned"
    <3>1. PICK b, s : Stamps(b, s)
      BY <2>1 DEF DropsHold
    <3>2. /\ b \in Nat /\ b <= kdrops /\ kdrops \in Nat /\ DropMod \in Nat \ {0}
          /\ reported = b /\ b % DropMod = lastSeen
      BY <2>1, <3>1, SocketAssumption DEF Stamps, DropsHold
    <3>3. b % DropMod = b
      BY <2>1, <3>2
    <3>4. QED
      BY <3>2, <3>3 DEF KernelDropsTruthful, DropsHold
  <2>2. CASE ~(kdrops < DropMod /\ fd = "owned")
    BY <2>2 DEF KernelDropsTruthful, DropsHold
  <2>3. QED
    BY <2>1, <2>2
<1>4. QED
  BY <1>1, <1>2, <1>3, PTL DEF Spec
-----------------------------------------------------------------------------
(* The configuration of a run *)

Early == {"args", "load", "validate", "log"}
Over == {"exited", "killed"}

(* Beyond the four steps that make the configuration nothing changes it,   *)
(* and the runner ends a run only at its last place.                       *)
LaterStep ==
  /\ cfg' = cfg
  /\ \/ UNCHANGED <<pc, exit>>
     \/ pc' = "killed"
     \/ pc \notin Early \union Over /\ pc' \notin Early \union Over
     \/ pc = "leave" /\ pc' = "exited"

LEMMA StepsOfConfig ==
  ASSUME PlacesHold, [Next]_vars
  PROVE  job' = job /\ (ParseArgs \/ LoadConfig \/ ValidateConfig \/ OpenLog \/ LaterStep)
<1> USE DEF LaterStep, Early, Over, Goto, jobVars, verdictVars
<1>1. CASE ParseArgs \/ LoadConfig \/ ValidateConfig \/ OpenLog
  BY <1>1 DEF ParseArgs, LoadConfig, ValidateConfig, OpenLog, StartupUnchanged
<1>2. CASE ResetStop
  BY <1>2 DEF ResetStop
<1>3. CASE InstallHandlers
  BY <1>3 DEF InstallHandlers
<1>4. CASE BackendInit
  BY <1>4 DEF BackendInit
<1>5. CASE InitFailed
  BY <1>5 DEF InitFailed
<1>6. CASE OpenCapture
  BY <1>6 DEF OpenCapture, Throws
<1>7. CASE StartRecorder
  BY <1>7 DEF StartRecorder, Throws
<1>8. CASE BeginRecv
  BY <1>8 DEF BeginRecv, LoopUnchanged
<1>9. CASE Receive
  BY <1>9 DEF Receive, LoopUnchanged
<1>10. CASE RecvFailed
  BY <1>10 DEF RecvFailed, LoopUnchanged
<1>11. CASE RecvDone
  BY <1>11 DEF RecvDone, LoopUnchanged
<1>12. CASE FilterDatagram
  BY <1>12 DEF FilterDatagram, Settled, LoopUnchanged
<1>13. CASE RejectDatagram
  BY <1>13 DEF RejectDatagram, Settled, LoopUnchanged
<1>14. CASE DeliverDatagram
  BY <1>14 DEF DeliverDatagram, HasDatagram, Settled, LoopUnchanged
<1>15. CASE ExhaustPool
  BY <1>15 DEF ExhaustPool, HasDatagram, LoopUnchanged
<1>16. CASE EndBurst
  BY <1>16 DEF EndBurst, LoopUnchanged
<1>17. CASE LeaveLoop
  BY <1>17 DEF LeaveLoop, LoopUnchanged
<1>18. CASE FinalizeActive
  BY <1>18 DEF FinalizeActive, LoopUnchanged
<1>19. CASE JoinConsumer
  BY <1>19 DEF JoinConsumer
<1>20. CASE StopRecorder
  BY <1>20 DEF StopRecorder
<1>21. CASE JudgeRun
  BY <1>21 DEF JudgeRun, Throws, LoopUnchanged
<1>22. CASE Unwind
  BY <1>22 DEF Unwind
<1>23. CASE LeaveRunner
  BY <1>23 DEF LeaveRunner
<1>24. CASE Deadline
  BY <1>24 DEF Deadline
<1>25. CASE Signal
  BY <1>25 DEF Signal
<1>26. CASE RequestStop
  BY <1>26 DEF RequestStop
<1>27. CASE RecorderFails
  BY <1>27 DEF RecorderFails
<1>28. CASE Arrive
  BY <1>28 DEF Arrive
<1>29. CASE UNCHANGED vars
  BY <1>29 DEF vars
<1>30. QED
  BY <1>1, <1>2, <1>3, <1>4, <1>5, <1>6, <1>7, <1>8, <1>9, <1>10, <1>11, <1>12, <1>13,
     <1>14, <1>15, <1>16, <1>17, <1>18, <1>19, <1>20, <1>21, <1>22, <1>23, <1>24, <1>25,
     <1>26, <1>27, <1>28, <1>29 DEF Next, Program, Environment

(* The sizes and ports are numbers, and only what passed validate_config() *)
(* is opened or reported as valid by a dry run.                            *)
Sized(c) ==
  /\ c.destPort \in Nat /\ c.bindPort \in Nat
  /\ c.segmentBytes \in Nat /\ c.totalBytes \in Nat
DryRunEnds == Args.dryRun => pc \in {"args", "load", "validate"} \union Over
Validated ==
  /\ job \in Jobs
  /\ Sized(cfg)
  /\ job.entry = "app" => DryRunEnds /\ (Accepted => ConfigValid(cfg))

LEMMA LoadedSized ==
  ASSUME NEW j \in Jobs, NEW file \in {j.file, <<>>}
  PROVE  Sized(LoadConfigFile(file).cfg)
<1> DEFINE c == LoadConfigFile(file).cfg
<1>1. ConfigTypes(c)
  BY LoadedBound
<1> HIDE DEF c
<1>2. \A key \in Numbers : c[key] \in Nat
  BY <1>1 DEF ConfigTypes
<1>3. Sized(c)
  BY <1>2 DEF Sized, Numbers
<1>4. QED
  BY <1>3 DEF c

LEMMA EffectiveSized ==
  ASSUME NEW c, NEW backend, NEW args, Sized(c)
  PROVE  Sized(EffectiveConfig(backend, args, c))
BY DEF Sized, EffectiveConfig

LEMMA InitValidated == Init => Validated
<1> SUFFICES ASSUME Init
             PROVE  Validated
  OBVIOUS
<1>1. job \in Jobs /\ exit = -1 /\ (job.entry = "app" => pc = "args")
  BY DEF Init
<1>2. Sized(cfg)
  <2>1. CASE cfg = DefaultConfig
    <3>1. DefaultConfig.destPort = 0 /\ DefaultConfig.bindPort = 0
      BY SMTT(60) DEF DefaultConfig
    <3>2. DefaultConfig.segmentBytes = 512 /\ DefaultConfig.totalBytes = 5120
      BY SMTT(60) DEF DefaultConfig
    <3>3. QED
      BY <2>1, <3>1, <3>2 DEF Sized
  <2>2. CASE cfg = [LoadConfigFile(job.file).cfg EXCEPT !.backend = job.backend]
    <3> DEFINE c == LoadConfigFile(job.file).cfg
    <3>1. Sized(c)
      BY <1>1, LoadedSized
    <3> HIDE DEF c
    <3>2. cfg = [c EXCEPT !.backend = job.backend]
      BY <2>2 DEF c
    <3>3. QED
      BY <3>1, <3>2 DEF Sized
  <2>3. QED
    BY <2>1, <2>2 DEF Init
<1>3. QED
  BY <1>1, <1>2 DEF Validated, DryRunEnds, Accepted

LEMMA NextKeepsValidated == PlacesHold /\ Validated /\ [Next]_vars => Validated'
<1> SUFFICES ASSUME PlacesHold, Validated, [Next]_vars
             PROVE  Validated'
  OBVIOUS
<1>1. job' = job /\ (ParseArgs \/ LoadConfig \/ ValidateConfig \/ OpenLog \/ LaterStep)
  BY StepsOfConfig
<1>2. Args' = Args
  BY <1>1 DEF Args
<1> USE DEF Validated, DryRunEnds, Accepted, Over
<1>3. CASE ParseArgs
  BY <1>1, <1>2, <1>3 DEF ParseArgs, Exit
<1>4. CASE LoadConfig
  <2>1. pc = "load" /\ pc' \in {"validate", "exited"} /\ (pc' = "exited" => exit' = 1)
    BY <1>4 DEF LoadConfig, Exit
  <2>2. Sized(cfg')
    <3>1. CASE UNCHANGED cfg
      BY <3>1
    <3>2. CASE \E file \in {job.file, <<>>} :
                  cfg' = EffectiveConfig(job.backend, Args, LoadConfigFile(file).cfg)
      BY <3>2, LoadedSized, EffectiveSized
    <3>3. (IF Args.config THEN job.file ELSE <<>>) \in {job.file, <<>>}
      OBVIOUS
    <3>4. QED
      BY <1>4, <3>1, <3>2, <3>3 DEF LoadConfig
  <2>3. QED
    BY <1>1, <1>2, <2>1, <2>2
<1>5. CASE ValidateConfig
  BY <1>1, <1>2, <1>5 DEF ValidateConfig, Exit
<1>6. CASE OpenLog
  BY <1>1, <1>2, <1>6 DEF OpenLog, Exit
<1>7. CASE LaterStep
  <2>1. CASE UNCHANGED <<pc, exit>>
    BY <1>1, <1>2, <1>7, <2>1 DEF LaterStep
  <2>2. CASE ~UNCHANGED <<pc, exit>>
    BY <1>1, <1>2, <1>7, <2>2 DEF LaterStep, Early
  <2>3. QED
    BY <2>1, <2>2
<1>8. QED
  BY <1>1, <1>3, <1>4, <1>5, <1>6, <1>7

LEMMA ValidatedHolds == Spec => []Validated
<1>1. RunInvariant /\ Validated /\ [Next]_vars => Validated'
  BY NextKeepsValidated DEF RunInvariant
<1>2. QED
  BY <1>1, InitValidated, RunInvariantHolds, PTL DEF Spec

(* What validate_config() lets pass a socket can be bound to, and the      *)
(* receiver's own filter lets pass what is sent there.                     *)
LEMMA ValidSocketUsable ==
  ASSUME NEW c, Sized(c), ConfigValid(c), c.backend = "socket"
  PROVE  /\ EffectiveBindIp(c) # "" /\ EffectiveBindPort(c) \in 1 .. MaxPort
         /\ (EffectiveBindIp(c) # "any" /\ EffectiveBindIp(c) # "bad" /\ c.recvIp # "bad") =>
              MatchesFilter(c, Address(c.srcIp), EffectiveBindIp(c), EffectiveBindPort(c))
<1>1. SocketValid(c) /\ c.destPort <= MaxPort
  BY DEF ConfigValid
<1>2. MaxPort \in Nat \ {0} /\ c.destPort \in Nat /\ c.bindPort \in Nat
  BY PortAssumption DEF Sized
<1>3. EffectiveBindIp(c) # ""
  BY <1>1 DEF SocketValid
<1>4. /\ EffectiveBindPort(c) \in 1 .. MaxPort
      /\ c.destPort # 0 => EffectiveBindPort(c) = c.destPort
  <2>1. EffectiveBindPort(c) # 0 /\ c.bindPort <= MaxPort
        /\ (c.bindPort = 0 \/ c.destPort = 0 \/ c.bindPort = c.destPort)
    BY <1>1 DEF SocketValid
  <2>2. QED
    BY <1>1, <1>2, <2>1 DEF EffectiveBindPort
<1>5. c.destPort % (MaxPort + 1) = c.destPort
  BY <1>1, <1>2
<1>6. ASSUME EffectiveBindIp(c) # "any", c.recvIp # "bad", c.recvIp # ""
      PROVE  EffectiveBindIp(c) = Address(c.recvIp)
  BY <1>1, <1>6 DEF SocketValid, EffectiveBindIp, Address
<1>7. QED
  BY <1>3, <1>4, <1>5, <1>6 DEF MatchesFilter

(* A configuration that passes validate_config() works: the socket has an  *)
(* address and a port, what is sent there passes the receiver's own        *)
(* filter, and the recorder runs with the sizes it was given.              *)
THEOREM ConfigUsableHolds == Spec => []ConfigUsable
<1>1. Validated => ConfigUsable
  <2> SUFFICES ASSUME Validated, job.entry = "app", Accepted
               PROVE  /\ cfg.backend = "socket" =>
                           /\ EffectiveBindIp(cfg) # "" /\ EffectiveBindPort(cfg) \in 1 .. MaxPort
                           /\ (EffectiveBindIp(cfg) # "any" /\ AddressOk) =>
                                MatchesFilter(cfg, Address(cfg.srcIp), EffectiveBindIp(cfg),
                                              EffectiveBindPort(cfg))
                      /\ cfg.record =>
                           /\ 0 \notin {cfg.ringSlots, cfg.batchSize, cfg.frameBytes}
                           /\ cfg.segmentBytes \in 1 .. cfg.totalBytes
    BY DEF ConfigUsable
  <2>1. ConfigValid(cfg) /\ Sized(cfg)
    BY DEF Validated
  <2>2. cfg.record => RecordValid(cfg)
    BY <2>1 DEF ConfigValid
  <2>3. cfg.record => /\ 0 \notin {cfg.ringSlots, cfg.batchSize, cfg.frameBytes}
                      /\ cfg.segmentBytes \in 1 .. cfg.totalBytes
    <3> SUFFICES ASSUME cfg.record
                 PROVE  /\ 0 \notin {cfg.ringSlots, cfg.batchSize, cfg.frameBytes}
                        /\ cfg.segmentBytes \in 1 .. cfg.totalBytes
      OBVIOUS
    <3>1. /\ 0 \notin {cfg.ringSlots, cfg.batchSize, cfg.frameBytes}
          /\ cfg.segmentBytes # 0 /\ cfg.segmentBytes <= cfg.totalBytes
      BY <2>2 DEF RecordValid
    <3>2. cfg.segmentBytes \in Nat /\ cfg.totalBytes \in Nat
      BY <2>1 DEF Sized
    <3>3. QED
      BY <3>1, <3>2
  <2>4. QED
    BY <2>1, <2>3, ValidSocketUsable DEF AddressOk
<1>2. QED
  BY <1>1, ValidatedHolds, PTL

(* What the command line leaves of a value.                                *)
Overlaid(args, key, value) ==
  CASE key = "duration" /\ args.duration # <<>> -> args.duration[1]
    [] key = "untilStopped" /\ args.untilStopped -> TRUE
    [] OTHER -> value

LEMMA EffectiveValues ==
  ASSUME NEW c, DOMAIN c = DOMAIN DefaultConfig, c.untilStopped \in BOOLEAN,
         NEW backend, NEW args, NEW key \in DOMAIN DefaultConfig, key # "backend"
  PROVE  EffectiveConfig(backend, args, c)[key] = Overlaid(args, key, c[key])
<1> DEFINE e == EffectiveConfig(backend, args, c)
           length == IF args.duration = <<>> THEN c.duration ELSE args.duration[1]
           endless == c.untilStopped \/ args.untilStopped
<1>1. "duration" \in DOMAIN c /\ "untilStopped" \in DOMAIN c /\ "backend" \in DOMAIN c
  BY SMTT(60) DEF DefaultConfig
<1>2. e = [c EXCEPT !["backend"] = backend, !["untilStopped"] = endless, !["duration"] = length]
  BY DEF EffectiveConfig
<1>3. endless = IF args.untilStopped THEN TRUE ELSE c.untilStopped
  <2>1. CASE args.untilStopped
    BY <2>1
  <2>2. CASE ~args.untilStopped
    BY <2>2
  <2>3. QED
    BY <2>1, <2>2
<1> HIDE DEF length, endless, e
<1>5. CASE key = "duration"
  <2>1. e[key] = length
    BY <1>1, <1>2, <1>5
  <2>2. QED
    BY <1>5, <2>1 DEF length, e, Overlaid
<1>6. CASE key = "untilStopped"
  <2>1. e[key] = endless
    BY <1>1, <1>2, <1>6
  <2>2. CASE args.untilStopped
    <3>1. e[key] = TRUE
      BY <1>3, <2>1, <2>2
    <3>2. QED
      BY <1>6, <2>2, <3>1 DEF e, Overlaid
  <2>3. CASE ~args.untilStopped
    <3>1. e[key] = c[key]
      BY <1>3, <1>6, <2>1, <2>3
    <3>2. QED
      BY <1>6, <2>3, <3>1 DEF e, Overlaid
  <2>4. QED
    BY <2>2, <2>3
<1>7. CASE key # "duration" /\ key # "untilStopped"
  <2>1. e[key] = c[key]
    BY <1>2, <1>7
  <2>2. QED
    BY <1>7, <2>1 DEF e, Overlaid
<1>8. QED
  BY <1>5, <1>6, <1>7

LEMMA LoadPrecedence ==
  ASSUME job \in Jobs, LoadConfig, Args.config, pc' = "validate",
         NEW key \in DOMAIN cfg' \ {"dropPolicy", "backend"}
  PROVE  cfg'[key] = Overlaid(Args, key, FromFile(key))
<1> DEFINE loaded == LoadConfigFile(job.file)
           c == loaded.cfg
<1>1. ~loaded.threw /\ cfg' = EffectiveConfig(job.backend, Args, c)
  BY DEF LoadConfig, Exit
<1>2. job.file \in Seq(ToSet(job.file)) /\ \A n \in 1 .. Len(job.file) : WellFormed(job.file[n])
  BY FileLines
<1>3. Read(job.file, Len(job.file), loaded)
  <2> DEFINE L == ToSet(job.file)
  <2> HIDE DEF L
  <2>1. QED
    BY <1>1, <1>2, LoadedValues DEF L
<1>4. ConfigTypes(c)
  BY LoadedBound
<1> HIDE DEF loaded
<1>5. DOMAIN c = DOMAIN DefaultConfig /\ c.untilStopped \in BOOLEAN
  BY <1>4 DEF ConfigTypes, Flags
<1>6. key \in DOMAIN DefaultConfig
  <2>1. DOMAIN EffectiveConfig(job.backend, Args, c) = DOMAIN c
    BY DEF EffectiveConfig
  <2>2. QED
    BY <1>1, <1>5, <2>1
<1>7. c[key] = FromFile(key)
  <2>1. DOMAIN job.file = 1 .. Len(job.file)
    BY <1>2
  <2>2. \A inSection : LinesOf(key, inSection) = LinesIn(job.file, key, inSection, Len(job.file))
    BY <2>1 DEF LinesOf, LinesIn
  <2>3. c[key] = ValueIn(job.file, key, Len(job.file))
    BY <1>3, <1>6 DEF Read
  <2> DEFINE inSection == LinesIn(job.file, key, TRUE, Len(job.file))
             flat == LinesIn(job.file, key, FALSE, Len(job.file))
  <2>4. c[key] = IF inSection # {} THEN job.file[Max(inSection)].set[key]
                 ELSE IF flat # {} THEN job.file[Max(flat)].set[key] ELSE DefaultConfig[key]
    BY <2>3 DEF ValueIn
  <2>5. LinesOf(key, TRUE) = inSection /\ LinesOf(key, FALSE) = flat
    BY <2>2
  <2> HIDE DEF inSection, flat, c
  <2>6. FromFile(key) = IF inSection # {} THEN job.file[Max(inSection)].set[key]
                        ELSE IF flat # {} THEN job.file[Max(flat)].set[key] ELSE DefaultConfig[key]
    BY <2>5, Zenon DEF FromFile
  <2>7. QED
    BY <2>4, <2>6
<1> HIDE DEF c
<1> DEFINE backend == job.backend
           args == Args
<1> HIDE DEF backend, args
<1>8. EffectiveConfig(backend, args, c)[key] = Overlaid(args, key, c[key])
  <2>1. key # "backend"
    OBVIOUS
  <2>2. QED
    BY <1>5, <1>6, <2>1, EffectiveValues
<1>9. cfg'[key] = Overlaid(Args, key, c[key])
  BY <1>1, <1>8 DEF backend, args
<1>10. QED
  BY <1>7, <1>9

(* Where the value of a setting comes from: the command line before the    *)
(* file, in the file the last line under a section before the last line    *)
(* outside of the sections, whatever their order, and the default last.    *)
THEOREM ConfigPrecedenceHolds == Spec => []ConfigPrecedence
<1>1. Init => ConfigPrecedence
  BY DEF Init, ConfigPrecedence
<1>2. RunInvariant /\ Validated /\ ConfigPrecedence /\ [Next]_vars => ConfigPrecedence'
  <2> SUFFICES ASSUME RunInvariant, Validated, ConfigPrecedence, [Next]_vars,
                      pc' = "validate", Args'.config
               PROVE  \A key \in DOMAIN cfg' \ {"dropPolicy", "backend"} :
                        cfg'[key] = Overlaid(Args', key, FromFile(key)')
    BY DEF ConfigPrecedence, Overlaid
  <2>1. job' = job /\ (ParseArgs \/ LoadConfig \/ ValidateConfig \/ OpenLog \/ LaterStep)
    BY StepsOfConfig DEF RunInvariant
  <2>2. Args' = Args /\ \A key : FromFile(key)' = FromFile(key)
    BY <2>1 DEF Args, FromFile, LinesOf
  <2>3. CASE LoadConfig
    BY <2>2, <2>3, LoadPrecedence DEF Validated
  <2>4. CASE ~LoadConfig
    <3>1. UNCHANGED <<pc, cfg>>
      BY <2>1, <2>4 DEF ParseArgs, ValidateConfig, OpenLog, Exit, LaterStep, Early
    <3>2. QED
      BY <2>2, <3>1 DEF ConfigPrecedence, Overlaid
  <2>5. QED
    BY <2>3, <2>4
<1>3. QED
  BY <1>1, <1>2, ValidatedHolds, RunInvariantHolds, PTL DEF Spec
=============================================================================
