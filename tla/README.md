# TLA+ verification of rx_tech_demo

rx_tech_demo is the receiving end of a radar data link: UDP datagrams carry the
PRTs (pulses) of a CPI (coherent processing interval) channel by channel; the
receiver puts them into one context per CPI, decides when the CPI is over, and
hands it to a consumer thread through a lock-free ring without copying it.

This directory holds TLA+ modules for the parts of it that are hard to test, the
TLC configurations that check them, and proofs checked by TLAPS. Paths below are
relative to the repository.

## 1. The system

### Components

| component | state it keeps | operations | what makes it correct |
|---|---|---|---|
| SPSC ring (`include/rxtech/spsc_ring.h`) | slots, two published indices, one cached copy of the other's index per side | `push`, `pop`, capacity rounding | a bounded FIFO; no slot touched by both threads at once; a published element is delivered |
| Owner loop (`src/receiver/core/owner_loop.cpp`, `internal/owner_loop_runtime_state.h`) | run status and error, output degradation, last timeout check, consumer thread, stop flag | one iteration: receive, drain tokens, parse, validate, interpret, feed the coordinator, time out, report; shutdown | every context has one holder; the shutdown ends and releases everything; the result reflects what was dropped |
| CPI consumer (`src/receiver/output/cpi_consumer.cpp`) | the output it works on | pop, handle, push the release token, spin, drain at the stop | returns every context it took; never hangs the shutdown |
| Context pool (`include/rxtech/cpi_context_pool.h`) | free flag (`Recycled`) per context | `acquire` (lowest free index), `release` | never hands out a context somebody holds |
| CPI state coordinator (`src/receiver/core/cpi_state_coordinator.cpp`) | active and previous context, current control snapshot, ring of closed ids, the owner's ends of both rings | data packet, control packet, timeout, drain, shutdown | contexts balance on every path; outputs are true; a CPI is decided once |
| CPI context, slot writer, progress tracker, finalizer, admission (`cpi_context.h`, `storage/`, `finalize/`, `admit/`) | bitmap and counters of a CPI, its bound number of PRTs; the ids closed last | write, advance, finalize, judge, merge control snapshots | counters agree with the bitmap whatever the order of packets; decisions follow from them |
| Protocol pipeline (`src/receiver/protocol/`, `core/udp_datagram_pipeline.cpp`) | counters of what was taken, filtered, refused | filter, parse, validate, interpret | hands on exactly what the coordinator expects and counts every datagram once |
| Data order tracker (`protocol/data_order_tracker.cpp`) | previous point, expected point, first mismatch | `observe` | the verdict is that of a look at the whole sequence |
| UDP payload assembler (`protocol/udp_payload_assembler.cpp`) | pieces of each datagram under way | `push` | only sent datagrams come out, whole |
| Raw frame recorder (`runtime/raw_frame_recorder.cpp`) | buffer pool, queue, writer thread, segments, retention | `start`, `submit`, writer loop, roll, retire, `stop` | every frame is written, counted as dropped or bounded in number; buffers come home; retention accounts exactly |
| Socket backend (`ingress/socket/`) | socket, datagrams of the burst, kernel drop counter | `init`, `recv_burst`, `release_burst`, `shutdown` | the socket is closed on every path; the counter does not wrap into nonsense |
| DPDK backend and ARP responder (`ingress/dpdk/`) | port, mbufs of the burst | the same, and ARP replies | each mbuf is freed exactly once |
| File replay backend (`ingress/filereplay/`) | frames, cursor, loop count | the same | serves each frame of each loop once, then nothing |
| Receive runner (`runtime/receive_runner.cpp`) | backend, loop, signal handlers and stop flag, recorder | start, run, stop | whatever ends the run, everything is given back |
| Configuration (`runtime/rx_config.cpp`) | one record | read lines, precedence, effective values, validation | what passes the validation works |
| Application entry points (`app/`) | command line, exit code | parse, load, validate, run | the exit code tells the truth |
| Metrics, status panel and run summary | counters, coverage, text | count, judge completeness, print | a true account of the run |
| Slow consumer harness, CPI verifier, replay sender | - | tools around the receiver | see section 7 |

### How they interact

The **owner thread** runs `OwnerLoop::run`: `recv_burst` of a backend, then for each
datagram `drain_recycle`, the protocol pipeline, and `process_control_packet` or
`process_data_packet` of the coordinator; at the end of a burst `check_timeout` and
`drain_recycle`. A data packet may open a context of the pool, write to the
active or the previous one, switch to the next CPI, and finalize. A finalized
context is pushed on the **output ring** (owner produces, consumer consumes) and
is from then on the consumer's to read. The **consumer thread** (`CpiConsumer::run`) pops
an output, calls the handler with a view of the context, and pushes the index of the
context on the **recycle ring** (consumer produces, owner consumes). Nothing else is shared
except the flag `consumer_stop`. At the end the owner finalizes what is open,
raises the flag, joins the thread and drains the recycle ring a last time. The
recorder's **writer thread** shares a queue and a buffer pool with the owner thread,
under a mutex and a condition variable.

`run_app` reads the command line and the file, validates, and calls
`ReceiveRunner::run`, which installs the signal handlers, opens the backend (one of
three behind `IRxBackend`), the capture files and the recorder, runs the owner loop and
takes everything down again. The datagrams of a burst point into the backend's
memory (mbufs, receive buffers) until `release_burst`. Signals and
`request_receive_stop` set one flag, which the loop polls.

### What is hard

* two threads without locks: a ring with stale cached indices, contexts read
  by one thread and recycled by the other;
* everything at its limit: output ring full, recycle ring full, pool empty,
  ring of closed ids forgetting, ids wrapping;
* UDP: loss, duplication and reordering, of packets, of whole CPIs, and of the
  control packets that tell how many PRTs a CPI has;
* decisions taken from counters that several paths advance;
* timeouts and shutdown against work in flight; failure in the middle of a switch;
* a writer thread that fails at any record while the owner goes on submitting;
* memory lent by a driver on five paths (ARP, discard, lend, release, shutdown);
* a run that may end by a stop, a signal, the deadline, a receive error, an exhausted pool or an
  exception, before, in the middle of or after each of its steps.

`PROJECT.json` lists each hazard at its line with the properties that cover it.

## 2. Modules

```
BoundedFifo  <--implements--  SpscRing            ContextLifecycle
     | (push and pop in                                  ^
     |  one step each)                                   | implements
     +---> OutputPipeline -------------------------------+

CpiContext  <--extends--  CpiCoordinator  <--extends--  MCCpiCoordinator

UdpAssembler  <--extends--  ProtocolPath  <--extends--  MCProtocolPath

RawFrameRecorder  <--extends--  MCRawFrameRecorder

             +- DpdkIngress -------+
Ingress  <---+- SocketIngress -----+<--extends--  ReceiveRun  <--extends--  MCReceiveRun
             +- FileReplayIngress -+                |
                RxConfig ----------+                +--implements-->  IngressContract
```

Proofs are in modules of their own: SpscRingProofs, OutputPipelineProofs, CpiCoordinatorProofs,
ProtocolPathProofs, RawFrameRecorderProofs, ReceiveRunProofs, ReceiveRunVerdictProofs; SequenceFacts has the
facts on sequences and numbers they share. A definition whose comment says "mutant of" is not part of a specification: it is
the code with a plausible bug, and shows that a property notices it.

**SpscRing** is `rxtech::SpscRing` at the granularity of single accesses to shared
memory: the test against the cached index (`PushBegin`, `PopBegin`), the acquire load and the
second test (`PushReload`, `PopReload`), the slot access (`PushWrite`, `PopRead`), the release store
(`PushPublish`, `PopPublish`). `Mask` is `mask_`, so the ring holds `Mask` elements. Because every index
that is loaded was stored with release, an interleaving of these steps is what the C++
memory model allows. The implementation masks with a power of two; the
module needs only that indices wrap after `Mask`.

**BoundedFifo** is what the ring promises: push and pop as one step each, failing only on a
full or empty queue. The other modules use rings as this module describes them.

**OutputPipeline** is both threads. A step is one access to what both can see: a ring
operation, a load or the store of `consumer_stop`. `pc` and `conPc` are the places
between such accesses. Contexts are pool indices; `state` is `header.state` with `Ready` and
later states folded into "sealed". What a packet *says* is abstracted to what it makes the
coordinator do: nothing (`NoContextChange`), complete the active CPI (`FinalizeActive`), open one
(`OpenFirst`), switch (`SwitchFinalizePrevious`, `SwitchRotate`); `open_active` with its three drain-and-yield
attempts is `OpenAcquire`, `OpenRetry`, `OpenDrain`, `PoolExhausted`. `Degrade` is `apply_output_degradation`.

**ContextLifecycle** is what the pipeline promises about contexts: each has one holder
(free, active, previous, lent) and changes hands only along the arrows in the module.

**CpiContext** has the data of one CPI and the pure functions on it: `Merged` is
`merge_control_snapshot`, `Writable`, `FirstWrite` and `Written` are `SlotWriter::write`, `Advanced` and `Due` are
`ProgressTracker::advance`, `Decision` and `Output` are `CpiFinalizer::try_finalize`, `Judge` is `CpiAdmission::judge`,
`Remembered` and `Contains` are `RecentClosedRing`.

**CpiCoordinator** composes them into `CpiStateCoordinator`. All handlers run on the owner
thread, so a handler is one action; its effect is an operator on the record `coord` of the
coordinator's members, built from the same private calls in the same order
(`Finalized`, `Opened`, `Rotated`, `WrittenToActive`, `Admitted`, `DataProcessed`). The environment sends packets
of CPIs `First`, `First + 1`, ... modulo `IdMod`; a packet may be up to `Lag` CPIs behind and `Ahead` ahead
of the newest CPI seen, and may come never, once or often. A control packet, too, makes its CPI the newest if it is.

**UdpAssembler** is `UdpPayloadAssembler::push`: a table from (addresses, identification, protocol) to pieces by
offset, the total length known from the last piece, the UDP length from the first; `Joined` walks
the pieces from offset 0 and fails at a gap. Lengths are in units of eight bytes.

**ProtocolPath** is the way of a datagram from the backend to the coordinator: `ParseReason`, `ValidateReason` and
`InterpretReason` are the three stages with their reasons to refuse, in the code's order; `Refuse`, `Control` and
`Data` are the callback of the owner loop with the counters it advances; `Observe` is `DataOrderTracker::observe`; `coverage`,
`PrtComplete`, `ActivePrt` and `CompletePrtCount` are what summary and panel are computed from. Datagrams come as
such (`ReceiveDatagram`) or out of frames through the assembler (`ProcessPacket`). Whether the
coordinator admits a packet is a choice here.

**RawFrameRecorder** has the owner's `start`, `submit`, `stop` and the writer's loop. Each critical section (under
`queue_mutex` or `state_mutex`) and each file operation is a step: `SubmitCheck` (failed writer?
too long?), `SubmitQueue` (a free buffer?), `SubmitNotify`; `TakeBatch`, `EnsureSegment`, `OpenSegment`, `WriteRecord`, `GiveBack`; and
on a failure `RecordFailure`, `DrainOnFailure`, `Finish`. `Trim` is `trim_retention_locked`: it takes the oldest
closed segments until the limit is met, and any subset of the unlinks may fail. A notification wakes the
writer only if it sleeps (`Wake`), so a lost wake-up would show.

**Ingress** is what the backends share: `dev`, the call in progress, the burst. **DpdkIngress** says where every mbuf
is (`at`: pool, NIC, held by the call, lent, in transmission); one frame of a burst is one step (`DpdkAnswer`,
`DpdkDiscard`, `DpdkLend`), and `FreeAndMove` notes a free of what is free already. **SocketIngress** has `init` system call by system call,
each of which may fail, `recvmmsg`, the adaption message by message, and `update_kernel_drop_count_from_cmsg` (`UpdateDrops`) on a
kernel that counts modulo `DropMod`, attaches no stamp of value 0 and may truncate control data. **FileReplayIngress** serves
`ReplayFrames` frames `LoopCount` times.

**IngressContract** is how a backend may be used, as `IRxBackend` promises it: opened, one call at a time, none while
something is lent, closed with nothing lent.

**RxConfig** has the command line (`ParseCliArgs`), the file as lines that assign settings under a section or outside of
one (`AssignLine`), `EffectiveConfig`, the effective address and port, `ConfigValid`, and the packet filter.

**ReceiveRun** composes these into one run: `pc` is the place in `run_app`, `ReceiveRunner::run` and
`OwnerLoop::run`, from `ParseArgs` to the exit code. Every call that may fail or throw has
both outcomes (`InitFailed`, `OpenCapture`, `StartRecorder`, `RecvFailed`, `JudgeRun`); `Unwind` is the catch block with the
destructors before it. The environment delivers frames, sends one signal or stop request at any time, lets
the deadline pass and the recorder's writer fail. A datagram is filtered, rejected, delivered
(`DeliverDatagram`) or exhausts the pool; what happens to it beyond is the subject of CpiCoordinator and
OutputPipeline, from which ReceiveRun takes that an output may be dropped (`MayDropOutput`) at a
delivery. It can be dropped nowhere else: the finalizer declines a timeout and a stop (`cpi_finalizer.cpp:25-28`), so
neither the end of a burst nor the last finalization has an output, and the second look at the status there (step 2b of the owner
loop) finds it settled. A failure of the recorder is a fault when it happens, in `status` only when `JudgeRun` asks.

### Abstractions

* Payload bytes, time stamps, duplicate counts, output numbers and rates are left out: no decision reads them.
* A slot write, the advance and the finalization happen in one handler call, so
  trigger bits are computed where they are used (`Due`) instead of being stored. The one
  bit that stays, `FullReady` set in the previous window, is ignored by the code
  (`finalize_previous` passes `CpiSwitch` alone), and so is not kept.
* In CpiCoordinator the consumer and the recycle ring are one number, `lent`: how many contexts are out.
  `Tokens` lets any number of them be back when `open_active` looks.
* A static specification with `expected_n_prt = 0` is left out of the runs: the receiver then knows no number
  of slots, and reports 0 missing.
* The consumer's accesses are in program order although `stop_flag` is loaded relaxed.
* `Stamped` says whether data packets carry a receive time. `SamplePacketParser` does not set it
  (`sample_packet_parser.cpp:144`), unit tests of the coordinator do; the runs with
  `Stamped = TRUE` check the coordinator's timeout path as those callers use it.
* Fragments are not empty, a sent datagram is always cut the same way, and datagrams under way have distinct keys; two sent
  under one 16-bit identification can be put together from pieces of both, which section 7 returns to.
* A segment of the recorder is a number of bytes; a record is a header and its frame. What a failed write left in a file is not counted, as
  in the code.
* In ReceiveRun the recorder and the consumer are "on" or not: their threads are RawFrameRecorder and OutputPipeline.
* Configuration text is split into lines and values beforehand; an address is a model string, of which "bad" does not parse.
  The `protocol_*` file of a dynamic specification and the display settings are left out.
* The used bytes of a channel's last packet are at most its payload (`ProtocolAssumption`), so the interpreter's refusal of more is left out.
* At most one signal or stop request comes in a run, and the NIC delivers finitely many frames (`MaxFrames`).

## 3. Runs

All runs are exhaustive.

| run | what it checks | bounds, and why they suffice |
|---|---|---|
| `spsc_ring` | the inductive invariant, `NoSlotRace`, refinement of BoundedFifo, delivery | `Mask = 3`, two values: both indices wrap with every lag of the cached copies; two values tell lost from duplicated. The proofs cover every `Mask` |
| `pipeline_roomy` | one holder, stable views, lifecycle refinement, nothing lost at the exit, every lent context returns, a slow consumer is not fatal, the shutdown ends | `Depth = 4`, output ring 1, recycle ring 7: the smallest pool with `OutputCapacity + 3 <= Depth` (both windows and the consumer's context besides the full ring) |
| `pipeline_tight` | the inductive invariant (one holder among it), no output dropped when the ring has room for the pool, the shutdown ends | `Depth = 3`, output ring 3, recycle ring 1: the consumer spins, gives tokens up, and the pool is exhausted; `output_drop_policy = error` |
| `pipeline_slow_consumer` | finds the violation of `SlowConsumerNotFatal` | ring larger than the pool, the relation of the default sizes |
| `coordinator_windows` | pool balance, counters against bitmap, truth of outputs, one decision per CPI while no data comes of an older CPI than the newest seen | three CPIs with ids 3, 0, 1 modulo 4; a switch skipped by loss (`Ahead = 2`), a CPI late by two; `ClosedDepth = 2` forgets one; pool of 3 with output ring of 1 runs full and dry; default, dynamic with fallback and timeout, and static specification |
| `coordinator_slots` | counters against bitmap and truth of outputs for two channels and two PRTs, and finality of the control binding of an open context | two CPIs, so both windows are bound; contradicting control packets; data late by one CPI (`Lag = 1`), after which a CPI may be open twice and be bound in either window |
| `coordinator_overtaken`, `coordinator_rebound`, `coordinator_full` | find the violations described in section 6 | as small as shows them |
| `raw_recorder` | buffers neither shared nor lost, frames written in order without gaps, losses counted or bounded, exact retention, every accepted frame written unless the writer fails, the stop ends | two buffers and batches of two: the ring is full, a batch is taken while another frame is queued; frames of 1 to 3 units against buffers of 2 and segments of 4: too long, one or two records to a segment; a limit of 6 with nothing or two segments found at the start: trimmed at start, open, write and close |
| `protocol_path` | the order verdict against the whole sequence, the summary against the history of datagrams, reassembly | positions of 2 CPIs and 3 PRT numbers, so both wrap; 1 or 2 channels and packets; three datagrams, which is a packet, a deviation and what comes after; one datagram for each reason to refuse; or up to 5 frames of four sent datagrams in one to three fragments, one with a wrong UDP length |
| `receive_run` | everything released at the exit, each mbuf freed once, the contract of the backends, counters, kernel drops, exit code, precedence and usability of configurations, a stop is honoured | 10 full runs that cover the backends, both ends (deadline, until stopped), recording, capture, log file, drop policy, a file that throws, a bind address that does not parse, a blocking socket, that socket with bursts of 0 (which returns without waiting), a build without DPDK; 5 command lines; dry runs over every file of three lines out of 8 address settings or 5 settings with repetition and sections, and two out of 4 recording settings. Three frames against 2 mbufs, bursts of 2, a receive buffer of one, a drop counter modulo 3 with 4 drops |

Bounds are constants of the modules or, for `decided`, a cap of 2 named at the variable.
Deadlock is not checked where the system stops: the coordinator after the shutdown and the last token, a recorder that has been stopped,
ProtocolPath after the last of its bounded inputs, a process that has exited. OutputPipeline has an explicit terminated step instead.

**Fairness.** `SpscRing!FairSpec`: the consumer thread polls without blocking, and a thread inside `push` or `pop`
has no wait in it; the producer need not push. `OutputPipeline!FairSpec`: both threads keep running. That
`recv_burst` returns is the backends' contract (`poll` with a timeout, a
polled NIC, a file), and the consumer's handler is assumed to return, as `join` does. Weak
fairness of each thread as a whole is enough, since no step of either is ever disabled except the
join. Nothing says that `should_stop` ever becomes true: `ShutdownCompletes` starts when it did.
`RawFrameRecorder!Spec`: the writer thread is scheduled, and the owner goes on with a `submit` or `stop` it has begun
(`OwnerGoesOn`); nothing forces it to submit or to stop. `ReceiveRun!Spec`: the process is scheduled
(`WF_vars(Program)`) and its clock advances (`WF_vars(Deadline)`); frames, signals and failures come or do not.
`StopHonoured` excludes the one configuration that cannot honour it, a blocking socket without a timeout and with bursts of at least one (`BlocksForever`).

## 4. Proofs

**SpscRingProofs**, for every `Mask >= 1` and every set of values:

* `RingInvariantHolds`: `Spec => []RingInvariant`. Type correctness and "a cached index errs on the safe
  side" are not inductive alone; the invariant adds that a thread past its test holds a slot the other cannot
  reach, and that the slot's content survives until it is published or delivered.
* `NoSlotRaceHolds` follows from it.
* `RingImplementsFifo`: `Spec => ImplementsFifo`, with `Contents` as the refinement mapping.
  `PushPublish` appends the argument (needs: the slot still holds it), `PopPublish` removes the head
  (needs: what was read is still the head), the two reloads are the failing operations, everything else stutters.

The only assumption is `RingAssumption`.

**OutputPipelineProofs**, for every pool, every capacity of either ring and both drop policies:

* `PipelineInvariantHolds`: `Spec => []PipelineInvariant`. `OneHolder` alone is not inductive: the
  assignments of the windows (`active' = s`, `previous' = active`) would lose a context if the window were not
  empty, and the consumer pushes whatever it holds. `PlaceInvariant` says what the threads' places guarantee: no
  CPI is active within `open_active`, none is previous between the halves of a switch, `held` is a context
  exactly between the pop and the push of its token. The proof has a lemma for each way a context moves (drain, output, discard, acquire, rotate,
  take, return) and one step per action.
* `PipelineTypes`, `OneHolderHolds`: its parts.
* `ViewIsStableHolds`: `Spec => ViewIsStable`; a sealed context that is not in the recycle ring keeps its state (`SealedStays`).
* `PipelineImplementsLifecycle`: `Spec => ImplementsLifecycle`, with `Holder` as the refinement mapping; every step hands over
  one context or none.
* `OutputNeverDroppedHolds`: with `OutputCapacity >= Depth` nothing is dropped. The ring holds
  different contexts (`OneHolder`) and not the one about to be pushed, so by the pigeonhole principle it holds fewer than `Depth`.

* `AllReleasedAtExitHolds`: with `RecycleCapacity >= Depth` nothing is lost at the exit. The same pigeonhole argument on the recycle
  ring shows that the consumer never meets it full, so no token is given up (`LentIsSomewhere`: a sealed context is in a ring or in the
  consumer's hands); `ShutdownHolds` says which of the two threads has finished what when the last drain finds its ring empty.
* `SlowConsumerNotFatalHolds`: with, besides, `OutputCapacity + 2 < Depth` the pool is never exhausted. After a drain that emptied the recycle
  ring, what is not free is in the output ring, with the consumer or in the previous window, and that is less than the pool
  (`DrainFindsFree`); what is free stays free until `open_active` takes it (`DrainFreed`). This condition and that of
  `OutputNeverDroppedHolds` exclude each other: a slow consumer costs outputs or the run, whatever the sizes.

The only assumptions are `PipelineAssumption` and, where named, the relations of the sizes.

**RawFrameRecorderProofs**, for every number of buffers, every size and limit, and whatever files fail:

* `RecorderInvariantHolds`: the inductive invariant is `TypeOK`, `Control` (which buffers the writer holds at which place, `pos`
  within the batch, a failed writer only in its last steps), `BuffersConserved`, `Queued` (what lies in the filled buffers and the rest
  of the batch is what was accepted and not written) and `InOrder`. `WrittenInOrder` alone says nothing of
  the bytes in the buffers; `Queued` does, and needs `BuffersConserved` so that `submit` cannot overwrite them.
* `BuffersConservedHolds`, `WrittenInOrderHolds`, `RecorderTypes`: its parts; `LossBoundedHolds`: by counting, with what a failing writer can hold at most. The run's three frames do not
  reach that bound; that it holds for longer runs rests on this theorem.
* `RetentionHolds`: the invariant `Books` balances `retained_bytes` with the closed segments, the open one and those whose unlink
  failed (`BytesBalance`), bounds the open segment by one record or the limit of a segment (`LongestSegment`), and keeps the whole at the
  limit while a closed segment is left to remove. `Total`, the sum over the closed segments, is a recursive function; that it adds what is
  appended and takes off what `Trim` removes is proved by induction along the sequence, as is that `Trim` stops only
  under the limit or with no segment left.

The assumption is `RecorderAssumption`.

**CpiCoordinatorProofs** (CpiContext and CpiCoordinator), for every number of PRTs, channels, packets, ids and contexts:

* `StoredIsConsistent`: a write, first or repeated, keeps the counters of slots, full channels and complete PRTs in agreement with the bitmap
  (`Consistent`). `OutputOfBoundIsTruthful`: what the finalizer says of such a CPI is true, if it is bound to a number of PRTs
  and its slots are within them.
* `CoordinatorTypes`, `PoolBalancesHolds`, `SummaryMatchesSlotsHolds`: the invariant `Balanced` says that what is in use is the
  held windows, the outputs and what is lent. It is an invariant of every private call, not only of the handlers: each of
  `Finalized`, `Rotated`, `Opened`, `Admitted` has a lemma, and a handler's proof composes them in the order of its calls.
* `OutputTruthfulHolds`: under `BindingsAreSound` (control packets announce permitted numbers and no fallback is larger than what may be announced)
  every output is truthful, for slots stay within the bound number (`Fitting`). The run `coordinator_rebound` shows that the assumption is needed.
* `InOrderDecidedOnceHolds`: the ring of closed ids forgets, so it is not what keeps a CPI from a second decision. The invariant `Ordered`
  (until `overtaken`, which the environment sets when a packet comes of a CPI older than the newest) is that every decided CPI is older than
  the active one, the previous one is older too and undecided, and the newest CPI, if it was decided, is still in the ring
  (`NewestRemembered`). Ids wrap, so "older" is about the sender's numbering of the CPIs (`Before`), in which no id occurs twice.
* `ControlBindingIsFinalHolds`: an action property, from the inductive invariant above without `Ordered`, so for late packets too. It follows an open context (`SameContext`): one that stays
  active, stays previous or is rotated from one to the other. Each private call keeps what a context is bound to or opens one under an id
  the active window did not have. A late packet may open the id of the previous window anew in the active one (`OpenTwice`, possible once no CPI is active):
  the two contexts then have one id, and until one of them is gone only the newer is followed, while it is active.

Assumptions are those of the two modules, in particular that `None` is no context.

**ProtocolPathProofs**, for any specifications (channels, packets, lengths), any datagrams, any moduli of CPI and PRT numbers, and any way
to cut what is sent into frames:

* `OrderVerdictHolds`: the tracker goes by four cases (next packet, channel, PRT, CPI), the property by the rank of a packet in its CPI, a number in
  mixed radix. The first part of the module shows that both say the same, at the wrap of either counter too.
  The inductive invariant `TrackerRight` is that the tracker expects the successor of the last data packet, and that its verdict
  is that of the sequence so far; the property is about the whole stream.
* `SummaryTruthfulHolds`: `Counted` says that the counters add up to the stream and that `coverage` holds the places of what was admitted. The panel
  only counts packets per channel: that a count of `packets` means each of them came is an injection
  between finite sets of the same size, which needs that nothing outside of the specification is admitted.
* `ReassemblyExactHolds`: `Reassembling` says that the pieces under a key are of one sent datagram (`Owned`), that what came of a datagram
  that is not out yet is there (`Kept`), and that no complete assembly stays. `Joined` is a recursive function along the pieces: by induction it gives
  the datagram's units up to where the pieces reach. The hypothesis `KeysApart` (no two sent datagrams have the same
  addresses, identification and protocol) is what the 16-bit identification is for; section 7 says what happens without it.

The assumption is `ProtocolAssumption`, which types the inputs.

**ReceiveRunProofs**, for any mbufs, frames, files, command lines and failures:

* `RunInvariantHolds`: `PlacesHold` says what is open (backend, recorder, consumer, handlers, burst) from where the thread is;
  `SocketHolds` whose the socket is during `init`; `MbufsHold` that `at` agrees with the NIC's queue, the call's and the
  caller's burst, each of them without repetition.
* `MbufsConservedHolds`, `ResourcesReleasedHolds`: what follows of it. The first needs no fact of the places but that nothing is held
  outside of a call.
* `RunKeepsContract`: `Spec => KeepsContract`, with the phase computed from `dev` and `calling` and the lent datagrams as the set of the burst.

**ReceiveRunVerdictProofs**, on the same specification:

* `PacketsAccountedHolds`: `CountsHold` balances the counters inside a burst too, with what no counter has seen yet
  (`Pending`) and what `EndBurst` will add to `rx` (`Unsettled`).
* `ExitCodeTruthfulHolds`: `VerdictHolds` says that every fault is in `status` at once, except for a failure of the recorder, which happens in
  another thread: the loop ends in "success" beside it, and only the question after `raw_frame_recorder.stop()` (`JudgeRun`) turns it into an error.
* `KernelDropsTruthfulHolds`: `DropsHold` has as witnesses the unwrapped totals behind the stamps on the messages under way: they do not decrease, none is above
  what was dropped, and the last one used is at least what was reported (`Stamps`). `WrappedDifference` is the arithmetic: a wrapped
  total that did not decrease is ahead by no more than the unwrapped one.

* `ConfigUsableHolds`: `Validated` says that nothing is opened, and no dry run reports success, before the configuration has passed
  `validate_config`, and that ports and sizes are numbers wherever they come from. That such a configuration works is a statement about
  the validation alone (`ValidSocketUsable`): each of its checks of the two addresses and the two ports is needed.
* `ConfigPrecedenceHolds`: `Read` says what has been read of a file: a setting has the value that the lines so far give it,
  and the settings a section has assigned are the ones a line under a section names. It is kept by a line, read or passed over
  (`LineRead`), and so holds of files of any length (`LoadedValues`, by induction along the lines).

Assumptions: `RunAssumption` (mbufs are no numbers; a file is a sequence of lines, and a value that parses is a number or a flag where the
setter asks for one: `WellFormed`), `SocketAssumption`, `PortAssumption`.

**Induction over data.** The induction theorems of the library take a predicate as parameter and cannot be used. SequenceFacts
states what is needed with a set instead of a predicate: a set of numbers that is not empty has a least element (`LeastNumber`, from the
well-foundedness of `<`), and a subset of an interval that has its first number and with each the next is all of it
(`IntervalInduction`). `LoadConfigFile`, `Total` and `Joined` are recursive functions, whose existence is proved the same way.

## 5. What is only model-checked

Liveness (`PublishedIsDelivered`, `ShutdownCompletes`, `LentIsReturned`, the recorder's `Progress`, `StopHonoured`) is out of the prover's
reach, as is anything about `ENABLED`. Every safety invariant and action property that a passing run checks is proved. What `FoldLeft` makes of the command line
(`ParseCliArgs`) is opaque to the proofs: they hold for whatever it returns, and the runs evaluate it.

## 6. Findings

* **A slow consumer ends the run** (`pipeline_slow_consumer`): contexts stay out until consumed and the
  default output ring (31) holds more than the pool (16), so the pool runs dry before an output is dropped and
  the run ends in "cpi context pool exhausted". The design note says a slow consumer is not
  an error of the main chain. `pipeline_roomy` shows the condition under which that is true: `OutputCapacity + 3 <= Depth`.
* **A CPI may be decided twice** (`coordinator_overtaken`): with no active CPI, a late packet of the CPI
  waiting in the previous window opens a second context for it; and a switch to `active + 1` does not look at
  the closed ids. `InOrderDecidedOnce` shows it cannot happen while no older CPI's packet comes after a newer one's.
* **COMPLETE_OK with slots missing** (`coordinator_rebound`): rebinding from the fixed fallback to a control packet's
  smaller number of PRTs does not look at what was already received. The runs without it use `ValidControl`
  (`coordinator_slots`) or a maximum of one PRT (`coordinator_windows`), where the bindings cannot disagree that way.
* **A full CPI reported incomplete** (`coordinator_full`): fullness is looked for only when a slot of the
  *active* CPI is first written.

## 7. Not modelled

* **Replay sender**: a separate sequential tool; what it can send is covered by the environments of CpiCoordinator and ProtocolPath.
* **Slow consumer harness**: a consumer for stress tests, `CpiConsumer::run` with a delay and without the drain.
* **CPI verifier**: compares payload bytes of one output with a template; tests only.
* **Status panel and metrics**, other than the counts, the coverage and the verdicts of the summary: rates, latencies, watermarks and layout
  are read by nobody but the user.
* **Rounding of ring capacities** to a power of two: the modules take the resulting capacity.
* **Text**: splitting lines, parsing numbers and addresses, naming files and run directories. `merge_config` is called by tests only.
* **Capture files**: only that opening them may throw. Exceptions inside the owner loop are not modelled: it throws none itself.
* **Timeouts in the composed receiver**: nothing on the datagram path sets the receive time, so a configured timeout does not fire.
* **DPDK, the NIC, the kernel's socket queue** are external and modelled from how the code uses them; a device that delivers without end
  would keep `init` in its draining loop, which the bounded `MaxFrames` excludes.
* **Stale fragments**: the assembler keeps what is never completed; when the 16-bit identification comes round it may join pieces of two datagrams.
  There is no bound or clock in the code a property could rest on, so `ReassemblyExact` assumes distinct keys.
* **Weak memory beyond the ring's own order**: the relaxed load of `stop_flag` is taken in program order.

With a recycle ring smaller than the pool the consumer gives tokens up at the stop (`cpi_consumer.cpp:50`), so
`AllReleasedAtExit` is checked and proved for a recycle ring that has room for the pool, as the default sizes have.
