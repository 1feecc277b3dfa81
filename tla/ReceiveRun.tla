----------------------------- MODULE ReceiveRun -----------------------------
(***************************************************************************)
(* ReceiveRun: one run of the receiver from the command line to the exit   *)
(* code: run_app(), ReceiveRunner::run() and OwnerLoop::run() over one of  *)
(* the three backends, with the recorder and the consumer thread they      *)
(* start and stop, signals and the deadline.                               *)
(*                                                                         *)
(* The coordinator and the output path are the subject of OutputPipeline   *)
(* and CpiCoordinator; here a datagram has a verdict and an output may be  *)
(* dropped.  A file that cannot be opened or a thread that fails is a      *)
(* choice; faults remembers the choices made.                              *)
(***************************************************************************)
EXTENDS DpdkIngress, SocketIngress, FileReplayIngress, RxConfig

CONSTANT Jobs  \* [entry, backend, linked, tokens, file]: how runs are started

\* Datagrams of the socket and of the replay are numbers, mbufs are not; a file
\* is a sequence of lines.
ASSUME RunAssumption ==
    /\ Mbufs \intersect Nat = {}
    /\ \A job \in Jobs : /\ job.file \in Seq(ToSet(job.file))
                         /\ \A line \in ToSet(job.file) : WellFormed(line)

VARIABLES
    pc, job, cfg,
    handlers,  \* the signal handlers are installed
    stopFlag,  \* g_stop_requested
    signalled, \* a signal or a stop call came, bounds them to one
    late,      \* the deadline has passed
    rec,       \* the recorder: "off", "on" or "stopped"
    recFailed, \* its writer has failed
    consumer,  \* the consumer thread: "off", "on" or "joined"
    next,      \* next datagram of the burst
    accepted,  \* accepted_packets of the burst
    filtered, rx, parsed, rejected,  \* the run's counters
    status,    \* run_status, "none" before and "thrown" after an exception
    faults,    \* what went wrong, history
    exit       \* the exit code, -1 before

jobVars == <<job, cfg>>
stopVars == <<handlers, stopFlag, signalled, late>>
helperVars == <<rec, recFailed, consumer>>
countVars == <<next, accepted, filtered, rx, parsed, rejected>>
verdictVars == <<status, faults, exit>>
backendVars == <<ingressVars, dpdkVars, socketVars, replayVars>>
vars == <<pc, jobVars, stopVars, helperVars, countVars, verdictVars, backendVars>>

Init ==
    /\ IngressInit /\ DpdkPlain /\ SocketPlain /\ ReplayPlain
    /\ job \in Jobs
    /\ IF job.entry = "app" THEN pc = "args" /\ cfg = DefaultConfig
         ELSE /\ pc = "reset"
              /\ cfg = [LoadConfigFile(job.file).cfg EXCEPT !.backend = job.backend]
    /\ handlers = FALSE /\ stopFlag = FALSE /\ signalled = FALSE /\ late = FALSE
    /\ rec = "off" /\ recFailed = FALSE /\ consumer = "off"
    /\ next = 1 /\ accepted = 0 /\ filtered = 0 /\ rx = 0 /\ parsed = 0 /\ rejected = 0
    /\ status = "none" /\ faults = {} /\ exit = -1

Goto(from, to) == pc = from /\ pc' = to
Fault(name) == faults' = faults \union {name}

-----------------------------------------------------------------------------
(* run_app() up to the call of the runner *)

Args == ParseCliArgs(job.tokens)

Exit(code) == pc' = "exited" /\ exit' = code /\ UNCHANGED <<status, faults>>

StartupUnchanged == UNCHANGED <<job, stopVars, helperVars, countVars, backendVars>>

ParseArgs ==
    /\ pc = "args"
    /\ \/ ~Args.valid /\ Exit(1)
       \/ Args.valid /\ Args.help /\ Exit(0)
       \/ Args.valid /\ ~Args.help /\ ~Args.config /\ ~Args.dryRun /\ Exit(1)
       \/ /\ Args.valid /\ ~Args.help /\ (Args.config \/ Args.dryRun)
          /\ pc' = "load" /\ UNCHANGED verdictVars
    /\ UNCHANGED cfg /\ StartupUnchanged

LoadConfig ==
    LET loaded == LoadConfigFile(IF Args.config THEN job.file ELSE <<>>)
    IN /\ pc = "load"
       /\ \/ (Args.config \/ loaded.threw) /\ Exit(1) /\ UNCHANGED cfg
          \/ /\ ~loaded.threw /\ cfg' = EffectiveConfig(job.backend, Args, loaded.cfg)
             /\ pc' = "validate" /\ UNCHANGED verdictVars
       /\ StartupUnchanged

ValidateConfig ==
    /\ pc = "validate"
    /\ \/ ~ConfigValid(cfg) /\ Exit(1)
       \/ ConfigValid(cfg) /\ Args.dryRun /\ Exit(0)
       \/ ConfigValid(cfg) /\ ~Args.dryRun /\ pc' = "log" /\ UNCHANGED verdictVars
    /\ UNCHANGED cfg /\ StartupUnchanged

OpenLog ==
    /\ pc = "log"
    /\ \/ cfg.logOutput = "file" /\ Exit(1)
       \/ pc' = "reset" /\ UNCHANGED verdictVars
    /\ UNCHANGED cfg /\ StartupUnchanged

-----------------------------------------------------------------------------
(* ReceiveRunner::run() up to the owner loop *)

ResetStop ==
    /\ Goto("reset", "handlers") /\ stopFlag' = FALSE
    /\ UNCHANGED <<jobVars, handlers, signalled, late, helperVars, countVars,
                   verdictVars, backendVars>>

InstallHandlers ==
    /\ Goto("handlers", "init") /\ handlers' = TRUE /\ dev' = "init"
    /\ UNCHANGED <<jobVars, stopFlag, signalled, late, helperVars, countVars, verdictVars,
                   calling, recvOk, burst, rxPackets, arrived,
                   dpdkVars, socketVars, replayVars>>

\* A build without the DPDK runtime reports the backend as unavailable.
Linked == cfg.backend # "dpdk" \/ job.linked
AddressOk == EffectiveBindIp(cfg) # "bad" /\ cfg.recvIp # "bad"

BackendInit ==
    /\ pc = "init"
    /\ \/ /\ cfg.backend = "dpdk" /\ Linked /\ (DpdkInit \/ DpdkDrain)
          /\ UNCHANGED <<socketVars, replayVars>>
       \/ /\ cfg.backend = "dpdk" /\ ~Linked /\ dev = "init" /\ dev' = "failed"
          /\ UNCHANGED <<calling, recvOk, burst, rxPackets, arrived, dpdkVars,
                         socketVars, replayVars>>
       \/ /\ cfg.backend = "socket" /\ (SocketAddress(AddressOk) \/ SocketOpen \/ SocketOption)
          /\ UNCHANGED <<dpdkVars, replayVars>>
       \/ /\ cfg.backend = "filereplay" /\ ReplayInit
          /\ UNCHANGED <<dpdkVars, socketVars>>
    /\ UNCHANGED <<pc, jobVars, stopVars, helperVars, countVars, verdictVars>>

BackendShutdown ==
    /\ dev' = "down"
    /\ UNCHANGED <<calling, recvOk, burst, rxPackets, arrived>>
    /\ \/ cfg.backend = "dpdk" /\ DpdkShutdown /\ UNCHANGED <<socketVars, replayVars>>
       \/ cfg.backend = "socket" /\ SocketShutdown /\ UNCHANGED <<dpdkVars, replayVars>>
       \/ cfg.backend = "filereplay" /\ ReplayShutdown /\ UNCHANGED <<dpdkVars, socketVars>>

InitFailed ==
    /\ dev = "failed" /\ Goto("init", "leave")
    /\ status' = IF Linked THEN "error" ELSE "unavailable"
    /\ Fault(IF Linked THEN "init" ELSE "unavailable")
    /\ BackendShutdown
    /\ UNCHANGED <<jobVars, stopVars, helperVars, countVars, exit>>

Throws(name) == pc' = "unwind" /\ status' = "thrown" /\ Fault(name) /\ UNCHANGED exit

\* Mutant of OpenCapture: the stop flag is reset when the backend is up.
OpenCaptureResets ==
    /\ pc = "init" /\ dev = "up" /\ stopFlag' = FALSE
    /\ \/ cfg.capture /\ Throws("capture")
       \/ pc' = "record" /\ UNCHANGED verdictVars
    /\ UNCHANGED <<jobVars, handlers, signalled, late, helperVars, countVars, backendVars>>

OpenCapture ==
    /\ pc = "init" /\ dev = "up"
    /\ \/ cfg.capture /\ Throws("capture")
       \/ pc' = "record" /\ UNCHANGED verdictVars
    /\ UNCHANGED <<jobVars, stopVars, helperVars, countVars, backendVars>>

StartRecorder ==
    /\ pc = "record"
    /\ \/ cfg.record /\ Throws("recorder") /\ UNCHANGED helperVars
       \/ /\ pc' = "check" /\ rec' = IF cfg.record THEN "on" ELSE "off"
          /\ consumer' = "on" /\ status' = "success" /\ UNCHANGED <<recFailed, faults, exit>>
    /\ UNCHANGED <<jobVars, stopVars, countVars, backendVars>>

-----------------------------------------------------------------------------
(* OwnerLoop::run() *)

ShouldStop == IF cfg.untilStopped THEN stopFlag ELSE late

LoopUnchanged == UNCHANGED <<jobVars, stopVars, helperVars>>

BeginRecv ==
    /\ ~ShouldStop /\ Goto("check", "recv")
    /\ \/ cfg.backend = "dpdk" /\ DpdkRecv(cfg.maxBurst) /\ UNCHANGED <<socketVars, replayVars>>
       \/ cfg.backend = "socket" /\ SocketRecv(cfg.maxBurst) /\ UNCHANGED <<dpdkVars, replayVars>>
       \/ /\ cfg.backend = "filereplay" /\ ReplayRecv(cfg.maxBurst)
          /\ UNCHANGED <<dpdkVars, socketVars>>
    /\ UNCHANGED <<countVars, verdictVars>> /\ LoopUnchanged

BlocksForever == /\ cfg.backend = "socket" /\ ~cfg.nonblocking /\ cfg.timeoutMs = 0
                 /\ cfg.maxBurst > 0

Receive ==
    /\ pc = "recv"
    /\ \/ (DpdkAnswer \/ DpdkDiscard \/ DpdkLend) /\ cfg.backend = "dpdk"
          /\ UNCHANGED <<socketVars, replayVars>>
       \/ /\ SocketReceive(cfg.maxBurst) \/ SocketEmpty(BlocksForever) \/ SocketError
             \/ (cfg.backend = "socket" /\ SocketMessage)
          /\ UNCHANGED <<dpdkVars, replayVars>>
       \/ cfg.backend = "filereplay" /\ ReplayAdapt /\ UNCHANGED <<dpdkVars, socketVars>>
       \/ taken = <<>> /\ msgs = <<>> /\ cursor >= upto /\ ~waiting /\ ReturnBurst /\ UNCHANGED <<dpdkVars, socketVars, replayVars>>
    /\ UNCHANGED <<pc, countVars, verdictVars>> /\ LoopUnchanged

\* release_burst()
ReleaseBurst ==
    /\ UNCHANGED <<dev, calling, recvOk, rxPackets, arrived>>
    /\ \/ cfg.backend = "dpdk" /\ DpdkRelease /\ UNCHANGED <<socketVars, replayVars>>
       \/ cfg.backend = "socket" /\ SocketRelease /\ UNCHANGED <<dpdkVars, replayVars>>
       \/ cfg.backend = "filereplay" /\ ReplayRelease /\ UNCHANGED <<dpdkVars, socketVars>>

RecvFailed ==
    /\ ~calling /\ ~recvOk /\ Goto("recv", "finalize")
    /\ status' = "error" /\ Fault("recv") /\ ReleaseBurst
    /\ UNCHANGED <<countVars, exit>> /\ LoopUnchanged

RecvDone ==
    /\ ~calling /\ recvOk /\ Goto("recv", "process")
    /\ next' = 1 /\ accepted' = 0
    /\ UNCHANGED <<filtered, rx, parsed, rejected, verdictVars, backendVars>> /\ LoopUnchanged

\* apply_output_degradation(), when an output has ever been dropped.
Degraded(st, dropped) ==
    IF ~dropped \/ st \notin {"success", "degraded"} THEN st
    ELSE IF cfg.dropPolicy = "error" THEN "error" ELSE "degraded"

\* An output that meets a full ring is dropped; only a data packet makes one,
\* and none in the call that exhausts the pool, for a drop frees a context.
MayDropOutput == faults' \in {faults, faults \union {"output"}}

Settled == status' = Degraded(status, "output" \in faults') /\ UNCHANGED exit

HasDatagram == pc = "process" /\ next <= Len(burst) /\ next' = next + 1

\* The filter compares the addresses of the datagram; those of a replayed
\* frame are not set.
MayPass == cfg.backend = "filereplay" => MatchesFilter(cfg, "any", "any", 0)
MayFail == /\ cfg.srcIp # "" \/ cfg.recvIp # "" \/ cfg.destPort # 0
           /\ cfg.backend = "filereplay" => ~MayPass

FilterDatagram ==
    /\ HasDatagram /\ MayFail
    /\ filtered' = filtered + 1 /\ UNCHANGED <<pc, accepted, rx, parsed, rejected, faults>>
    /\ Settled /\ UNCHANGED backendVars /\ LoopUnchanged

\* Rejected by the validator or the interpreter; a datagram without payload is.
RejectDatagram ==
    /\ HasDatagram /\ MayPass
    /\ rejected' = rejected + 1 /\ accepted' = accepted + 1
    /\ UNCHANGED <<pc, filtered, rx, parsed, faults>>
    /\ Settled /\ UNCHANGED backendVars /\ LoopUnchanged

DeliverDatagram ==
    /\ HasDatagram /\ cfg.backend # "filereplay"
    /\ parsed' = parsed + 1 /\ accepted' = accepted + 1
    /\ UNCHANGED <<pc, filtered, rx, rejected>>
    /\ MayDropOutput /\ Settled /\ UNCHANGED backendVars /\ LoopUnchanged

\* Mutant of ExhaustPool: the burst is not released.
ExhaustPoolKeeps ==
    /\ HasDatagram /\ cfg.backend # "filereplay" /\ pc' = "finalize"
    /\ parsed' = parsed + 1 /\ status' = "error" /\ Fault("pool")
    /\ UNCHANGED <<accepted, filtered, rx, rejected, exit, backendVars>> /\ LoopUnchanged

\* The context pool is exhausted: the loop is left in the middle of the burst,
\* whose release guard runs; its datagrams are not added to rx.
ExhaustPool ==
    /\ HasDatagram /\ cfg.backend # "filereplay" /\ pc' = "finalize"
    /\ parsed' = parsed + 1 /\ status' = "error" /\ Fault("pool")
    /\ UNCHANGED <<accepted, filtered, rx, rejected, exit>>
    /\ ReleaseBurst /\ LoopUnchanged

\* Mutant of EndBurst: every datagram of the burst is counted.
EndBurstAll ==
    /\ next > Len(burst) /\ Goto("process", "check")
    /\ rx' = rx + Len(burst)
    /\ UNCHANGED <<next, accepted, filtered, parsed, rejected, verdictVars>>
    /\ ReleaseBurst /\ LoopUnchanged

\* A CPI that times out here has no output that could be dropped.
EndBurst ==
    /\ next > Len(burst) /\ Goto("process", "check")
    /\ rx' = rx + accepted
    /\ UNCHANGED <<next, accepted, filtered, parsed, rejected, verdictVars>>
    /\ ReleaseBurst /\ LoopUnchanged

LeaveLoop ==
    /\ ShouldStop /\ Goto("check", "finalize")
    /\ UNCHANGED <<countVars, verdictVars, backendVars>> /\ LoopUnchanged

\* The finalizer declines a stop, so there is no output to drop, and the second
\* look at the status (step 2b) finds it settled.
FinalizeActive ==
    /\ Goto("finalize", "join") /\ UNCHANGED faults /\ Settled
    /\ UNCHANGED <<countVars, backendVars>> /\ LoopUnchanged

JoinConsumer ==
    /\ Goto("join", "stoprec") /\ consumer' = "joined"
    /\ UNCHANGED <<jobVars, stopVars, rec, recFailed, countVars, verdictVars, backendVars>>

StopRecorder ==
    /\ Goto("stoprec", "judge") /\ rec' = IF rec = "on" THEN "stopped" ELSE rec
    /\ UNCHANGED <<jobVars, stopVars, recFailed, consumer, countVars, verdictVars, backendVars>>

-----------------------------------------------------------------------------
(* ReceiveRunner::run() after the owner loop, and run_app() after the runner *)

\* Mutant of JudgeRun: the recorder is not asked whether it failed.
JudgeRunTrusts ==
    /\ Goto("judge", "leave") /\ BackendShutdown
    /\ UNCHANGED <<countVars, verdictVars>> /\ LoopUnchanged

JudgeRun ==
    /\ pc = "judge"
    /\ \/ recFailed /\ Throws("recorder") /\ UNCHANGED backendVars
       \/ ~recFailed /\ pc' = "leave" /\ BackendShutdown /\ UNCHANGED verdictVars
    /\ UNCHANGED countVars /\ LoopUnchanged

\* Mutant of Unwind: the backend is left open.
UnwindOpen ==
    /\ Goto("unwind", "leave") /\ rec' = IF rec = "on" THEN "stopped" ELSE rec
    /\ UNCHANGED <<jobVars, stopVars, recFailed, consumer, countVars, verdictVars, backendVars>>

\* The catch block; the recorder's destructor has run before it.
Unwind ==
    /\ Goto("unwind", "leave") /\ BackendShutdown
    /\ rec' = IF rec = "on" THEN "stopped" ELSE rec
    /\ UNCHANGED <<jobVars, stopVars, recFailed, consumer, countVars, verdictVars>>

LeaveRunner ==
    /\ Goto("leave", "exited") /\ handlers' = FALSE
    /\ exit' = IF status = "success" THEN 0 ELSE IF status = "unavailable" THEN 2 ELSE 1
    /\ UNCHANGED <<jobVars, stopFlag, signalled, late, helperVars, countVars, status, faults,
                   backendVars>>

-----------------------------------------------------------------------------
(* The environment *)

Running == pc \notin {"exited", "killed"}

\* SIGINT or SIGTERM: without the handlers it ends the process.
Signal ==
    /\ Running /\ ~signalled /\ signalled' = TRUE
    /\ IF handlers THEN stopFlag' = TRUE /\ UNCHANGED pc
                   ELSE pc' = "killed" /\ UNCHANGED stopFlag
    /\ UNCHANGED <<jobVars, handlers, late, helperVars, countVars, verdictVars, backendVars>>

\* request_receive_stop(), from another thread of a program that uses the runner.
RequestStop ==
    /\ Running /\ job.entry = "library" /\ ~signalled
    /\ signalled' = TRUE /\ stopFlag' = TRUE
    /\ UNCHANGED <<pc, jobVars, handlers, late, helperVars, countVars, verdictVars, backendVars>>

Deadline ==
    /\ consumer = "on" /\ ~cfg.untilStopped /\ ~late /\ late' = TRUE
    /\ UNCHANGED <<pc, jobVars, handlers, stopFlag, signalled, helperVars, countVars,
                   verdictVars, backendVars>>

\* The writer thread fails; nobody looks before JudgeRun.
RecorderFails ==
    /\ Running /\ rec = "on" /\ ~recFailed /\ recFailed' = TRUE /\ Fault("recorder")
    /\ UNCHANGED <<pc, jobVars, stopVars, rec, consumer, countVars, status, exit, backendVars>>

Arrive ==
    /\ Running
    /\ \/ \E f \in Frames : cfg.backend = "dpdk" /\ DpdkArrive(f)
                            /\ UNCHANGED <<socketVars, replayVars>>
       \/ DpdkSent /\ UNCHANGED <<socketVars, replayVars>>
       \/ \E inet \in BOOLEAN : SocketArrive(inet) /\ UNCHANGED <<dpdkVars, replayVars>>
       \/ SocketLose /\ UNCHANGED <<dpdkVars, replayVars>>
    /\ UNCHANGED <<pc, jobVars, stopVars, helperVars, countVars, verdictVars>>

Program ==
    \/ ParseArgs \/ LoadConfig \/ ValidateConfig \/ OpenLog
    \/ ResetStop \/ InstallHandlers \/ BackendInit \/ InitFailed
    \/ OpenCapture \/ StartRecorder
    \/ BeginRecv \/ Receive \/ RecvFailed \/ RecvDone
    \/ FilterDatagram \/ RejectDatagram \/ DeliverDatagram \/ ExhaustPool \/ EndBurst
    \/ LeaveLoop \/ FinalizeActive \/ JoinConsumer \/ StopRecorder
    \/ JudgeRun \/ Unwind \/ LeaveRunner

Environment == Signal \/ RequestStop \/ RecorderFails \/ Arrive

Next == Program \/ Deadline \/ Environment

\* The process is scheduled and its clock advances.
Spec == Init /\ [][Next]_vars /\ WF_vars(Program) /\ WF_vars(Deadline)

-----------------------------------------------------------------------------
\* However a run ends (stop, deadline, a receive error, a throw anywhere after
\* the backend was opened), the backend is down and has everything back, the
\* socket is closed, both threads are gone and the handlers are restored.
ResourcesReleased ==
    pc = "exited" =>
        /\ dev = "down" /\ burst = <<>> /\ fd = "none"
        /\ \A m \in Mbufs : at[m] = "pool"
        /\ rec # "on" /\ consumer # "on" /\ ~handlers

Contract == INSTANCE IngressContract WITH
    phase <- IF dev # "up" THEN "closed" ELSE IF calling THEN "calling" ELSE "open",
    lent <- ToSet(burst)

\* Runner, loop and backends keep the contract of IRxBackend: nothing is
\* received or closed while a datagram that points into the backend is lent.
KeepsContract == Contract!Spec

\* The exit code tells the truth: 0 exactly if nothing failed, in whichever
\* thread and at whatever time, and no output was dropped; 2 exactly if the
\* backend is not built in.
ExitCodeTruthful ==
    (pc = "exited" /\ status # "none") =>
        /\ (exit = 0) <=> (faults = {})
        /\ (exit = 2) <=> (faults = {"unavailable"})

\* Every frame the backend counted is filtered, rejected, parsed or consumed
\* by the backend, and rx is what was parsed or rejected; a loop left because
\* the pool ran dry reports too few, never too many.
LoopOver == pc \in {"finalize", "join", "stoprec", "judge"}
PacketsAccounted ==
    LoopOver =>
        /\ ("pool" \notin faults) =>
             (rx = parsed + rejected /\ rxPackets = discarded + filtered + rx)
        /\ rx <= parsed + rejected
        /\ discarded + filtered + parsed + rejected <= rxPackets

\* A stop that is asked for ends the run: no signal after the handlers are
\* installed is lost and no wait lasts for ever, unless the socket was
\* configured to block without a timeout and then waits at all.
MustStop == consumer = "on" /\ ShouldStop /\ ~BlocksForever
StopHonoured == /\ MustStop ~> (pc \in {"exited", "killed"})
                /\ (handlers /\ stopFlag /\ cfg.untilStopped /\ ~BlocksForever)
                     ~> (pc \in {"exited", "killed"})

\* A configuration that passes validate_config() works: the socket has an
\* address and a port, what is sent there passes the receiver's own filter,
\* and the recorder runs with the sizes it was given.
Accepted == \/ pc = "log"
            \/ pc = "exited" /\ exit = 0 /\ Args.dryRun /\ ~Args.help
ConfigUsable ==
    (job.entry = "app" /\ Accepted) =>
        /\ cfg.backend = "socket" =>
             /\ EffectiveBindIp(cfg) # "" /\ EffectiveBindPort(cfg) \in 1..MaxPort
             /\ (EffectiveBindIp(cfg) # "any" /\ AddressOk) =>
                  MatchesFilter(cfg, Address(cfg.srcIp), EffectiveBindIp(cfg),
                                EffectiveBindPort(cfg))
        /\ cfg.record => /\ 0 \notin {cfg.ringSlots, cfg.batchSize, cfg.frameBytes}
                         /\ cfg.segmentBytes \in 1..cfg.totalBytes

\* Where the value of a setting comes from: the command line before the file,
\* in the file the last line under a section before the last line outside of
\* the sections, whatever their order, and the default last.
LinesOf(key, inSection) ==
    {i \in DOMAIN job.file : Key(job.file[i]) = key /\ job.file[i].section = inSection}
FromFile(key) ==
    LET inSection == LinesOf(key, TRUE)
        flat == LinesOf(key, FALSE)
    IN IF inSection # {} THEN job.file[Max(inSection)].set[key]
       ELSE IF flat # {} THEN job.file[Max(flat)].set[key] ELSE DefaultConfig[key]
ConfigPrecedence ==
    (pc = "validate" /\ Args.config) =>
        \A key \in DOMAIN cfg \ {"dropPolicy", "backend"} :
            cfg[key] = CASE key = "duration" /\ Args.duration # <<>> -> Args.duration[1]
                         [] key = "untilStopped" /\ Args.untilStopped -> TRUE
                         [] OTHER -> FromFile(key)
=============================================================================
