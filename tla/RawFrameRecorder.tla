-------------------------- MODULE RawFrameRecorder --------------------------
(***************************************************************************)
(* RawFrameRecorder: the owner loop submits every raw frame it receives,   *)
(* a writer thread writes them into segment files of bounded size and      *)
(* removes the oldest segments when the directory holds too many bytes.    *)
(* A frame travels in one of RingSlots buffers: free -> filled -> batch -> *)
(* free.  Each critical section of the code, under queue_mutex or under    *)
(* state_mutex, is one step.                                               *)
(*                                                                         *)
(* Sizes are counted in abstract units: a segment starts with HeaderBytes, *)
(* a record is a record header and the frame.  Statistics that no code     *)
(* reads back (bytes, high watermark, latest path) are left out.           *)
(***************************************************************************)
EXTENDS Integers, SequencesExt, FiniteSets

CONSTANTS
    Buffers,       \* the ring_slots buffers
    BatchSize,     \* writer_batch_size
    MaxFrameBytes, \* max_frame_bytes
    MaxTotalBytes, \* max_total_bytes: the retention limit
    SegmentBytes,  \* segment_bytes as configured
    HeaderBytes,   \* sizeof(RawFrameFileHeader)
    RecordHeader,  \* sizeof(RawFrameRecordHeader)
    FrameLens,     \* lengths of the frames that arrive
    Existing,      \* segment files, oldest first, that start() may find
    MaxFrames      \* bound: frames submitted in one run

ASSUME RecorderAssumption ==
    /\ IsFiniteSet(Buffers) /\ Buffers # {}
    /\ BatchSize \in Nat \ {0}
    /\ MaxFrameBytes \in Nat \ {0} /\ MaxTotalBytes \in Nat \ {0}
    /\ SegmentBytes \in Nat \ {0}
    /\ HeaderBytes \in Nat /\ RecordHeader \in Nat
    /\ FrameLens \subseteq Nat \ {0}
    /\ Existing \subseteq Seq(Nat)
    /\ MaxFrames \in Nat

VARIABLES
    opc,       \* where the owner thread is
    frame,     \* [id, len] of the frame being submitted
    submitted, \* frames passed to submit(), history
    accepted,  \* frames put into filled_buffers, history
    dropped,   \* stats.dropped_frames
    free,      \* free_buffers (its order is immaterial)
    filled,    \* filled_buffers, oldest first
    content,   \* the frame each buffer holds
    stopReq,   \* stop_requested
    wpc,       \* where the writer thread is
    batch,     \* the writer's batch
    pos,       \* buffers of the batch already written
    written,   \* frames written, history; its length is stats.written_frames
    failed,    \* failure_message is not empty
    open,      \* active_stream.is_open()
    active,    \* active_segment_bytes
    closed,    \* closed_segments, oldest first
    retained,  \* retained_bytes
    orphaned   \* bytes of segments whose unlink failed, history

ownerVars == <<opc, frame, submitted, accepted, dropped>>
queueVars == <<free, filled, content, stopReq>>
batchVars == <<batch, pos>>
fileVars  == <<open, active, closed, retained, orphaned>>
vars == <<ownerVars, queueVars, wpc, batchVars, written, failed, fileVars>>

Frames == [id : Nat, len : Nat]
OwnerStates == {"off", "run", "queue", "notify", "stop", "join", "stopped"}
WriterStates == {"off", "wait", "sleep", "ensure", "open", "write", "giveback",
                 "close", "fail", "drain", "failclose", "done"}

\* segment_bytes is clamped to the retention limit by the constructor.
SegmentLimit == IF SegmentBytes < MaxTotalBytes THEN SegmentBytes ELSE MaxTotalBytes

Total(sizes) ==
    LET sum[i \in 0..Len(sizes)] == IF i = 0 THEN 0 ELSE sum[i - 1] + sizes[i]
    IN  sum[Len(sizes)]

NoFrame == [id |-> 0, len |-> 0]

-----------------------------------------------------------------------------
(* Retention: trim_retention_locked() pops the oldest closed segments until
   the limit is met or none is left; an unlink may fail, and then the bytes
   stay counted although the segment is forgotten. *)

\* Bytes freed by the first n segments of cl when the unlinks in F fail.
Freed(cl, n, F) == Total([i \in 1..n |-> IF i \in F THEN 0 ELSE cl[i]])

\* Mutant of Trim: the result of the unlink is not looked at.
TrimUnchecked(cl, bytes) ==
    \E n \in 0..Len(cl) : \E F \in SUBSET (1..n) :
        /\ \A k \in 0..(n - 1) : bytes - Freed(cl, k, {}) > MaxTotalBytes
        /\ n < Len(cl) => bytes - Freed(cl, n, {}) <= MaxTotalBytes
        /\ closed' = SubSeq(cl, n + 1, Len(cl))
        /\ retained' = bytes - Freed(cl, n, {})
        /\ orphaned' = orphaned + Total(SubSeq(cl, 1, n)) - Freed(cl, n, F)

Trim(cl, bytes) ==
    \E n \in 0..Len(cl) : \E F \in SUBSET (1..n) :
        /\ \A k \in 0..(n - 1) : bytes - Freed(cl, k, F) > MaxTotalBytes
        /\ n < Len(cl) => bytes - Freed(cl, n, F) <= MaxTotalBytes
        /\ closed' = SubSeq(cl, n + 1, Len(cl))
        /\ retained' = bytes - Freed(cl, n, F)
        /\ orphaned' = orphaned + Total(SubSeq(cl, 1, n)) - Freed(cl, n, F)

\* close_active_segment()
CloseActive ==
    \/ ~open /\ UNCHANGED fileVars
    \/ /\ open
       /\ Trim(Append(closed, active), retained)
       /\ open' = FALSE /\ active' = 0

-----------------------------------------------------------------------------
(* The owner thread: start(), submit(), stop(). *)

Init ==
    /\ opc = "off" /\ frame = NoFrame /\ submitted = 0
    /\ accepted = <<>> /\ dropped = 0
    /\ free = {} /\ filled = <<>> /\ content = [b \in Buffers |-> NoFrame]
    /\ stopReq = FALSE
    /\ wpc = "off" /\ batch = <<>> /\ pos = 0
    /\ written = <<>> /\ failed = FALSE
    /\ open = FALSE /\ active = 0 /\ orphaned = 0
    /\ closed \in Existing /\ retained = Total(closed)

Start ==
    /\ opc = "off"
    /\ opc' = "run" /\ free' = Buffers /\ wpc' = "wait"
    /\ Trim(closed, retained)
    /\ UNCHANGED <<frame, submitted, accepted, dropped, filled, content, stopReq,
                   batchVars, written, failed, open, active>>

\* submit() up to the queue lock: dropped when the writer has failed or the
\* frame is longer than a buffer.
SubmitCheck(len) ==
    /\ opc = "run" /\ submitted < MaxFrames
    /\ submitted' = submitted + 1
    /\ IF failed \/ len > MaxFrameBytes
         THEN dropped' = dropped + 1 /\ UNCHANGED <<opc, frame>>
         ELSE /\ opc' = "queue" /\ frame' = [id |-> submitted + 1, len |-> len]
              /\ UNCHANGED dropped
    /\ UNCHANGED <<accepted, queueVars, wpc, batchVars, written, failed, fileVars>>

\* Mutant of SubmitQueue: a frame that meets a full ring is not counted.
SubmitQueueSilent ==
    /\ opc = "queue"
    /\ \/ /\ stopReq \/ free = {}
          /\ opc' = "run" /\ UNCHANGED <<dropped, accepted, queueVars>>
       \/ /\ ~stopReq
          /\ \E b \in free :
               /\ free' = free \ {b}
               /\ filled' = Append(filled, b)
               /\ content' = [content EXCEPT ![b] = frame]
          /\ opc' = "notify" /\ accepted' = Append(accepted, frame)
          /\ UNCHANGED <<dropped, stopReq>>
    /\ UNCHANGED <<frame, submitted, wpc, batchVars, written, failed, fileVars>>

\* submit() under queue_mutex: the frame is copied into a free buffer, or
\* dropped when there is none.
SubmitQueue ==
    /\ opc = "queue"
    /\ \/ /\ stopReq \/ free = {}
          /\ opc' = "run" /\ dropped' = dropped + 1
          /\ UNCHANGED <<accepted, queueVars>>
       \/ /\ ~stopReq
          /\ \E b \in free :
               /\ free' = free \ {b}
               /\ filled' = Append(filled, b)
               /\ content' = [content EXCEPT ![b] = frame]
          /\ opc' = "notify" /\ accepted' = Append(accepted, frame)
          /\ UNCHANGED <<dropped, stopReq>>
    /\ UNCHANGED <<frame, submitted, wpc, batchVars, written, failed, fileVars>>

\* A notification reaches the writer only while it sleeps in wait().
Wake == wpc' = IF wpc = "sleep" THEN "wait" ELSE wpc

SubmitNotify ==
    /\ opc = "notify" /\ opc' = "run" /\ Wake
    /\ UNCHANGED <<frame, submitted, accepted, dropped, queueVars, batchVars,
                   written, failed, fileVars>>

RequestStop ==
    /\ opc = "run" /\ opc' = "stop" /\ stopReq' = TRUE
    /\ UNCHANGED <<frame, submitted, accepted, dropped, free, filled, content, wpc,
                   batchVars, written, failed, fileVars>>

\* Mutant of StopNotify: the writer is not woken.
StopNotifySilent ==
    /\ opc = "stop" /\ opc' = "join"
    /\ UNCHANGED <<frame, submitted, accepted, dropped, queueVars, wpc, batchVars,
                   written, failed, fileVars>>

StopNotify ==
    /\ opc = "stop" /\ opc' = "join" /\ Wake
    /\ UNCHANGED <<frame, submitted, accepted, dropped, queueVars, batchVars,
                   written, failed, fileVars>>

Join ==
    /\ opc = "join" /\ wpc = "done" /\ opc' = "stopped"
    /\ UNCHANGED <<frame, submitted, accepted, dropped, queueVars, wpc, batchVars,
                   written, failed, fileVars>>

-----------------------------------------------------------------------------
(* The writer thread: writer_loop(). *)

\* Mutant of TakeBatch: the buffers are free again before they are written.
TakeBatchFrees ==
    /\ wpc = "wait"
    /\ \/ /\ filled = <<>>
          /\ wpc' = IF stopReq THEN "close" ELSE "sleep"
          /\ UNCHANGED <<filled, batchVars, free>>
       \/ /\ filled # <<>>
          /\ LET n == IF BatchSize < Len(filled) THEN BatchSize ELSE Len(filled)
             IN /\ batch' = SubSeq(filled, 1, n)
                /\ filled' = SubSeq(filled, n + 1, Len(filled))
                /\ free' = free \union ToSet(batch')
          /\ pos' = 0 /\ wpc' = "ensure"
    /\ UNCHANGED <<ownerVars, content, stopReq, written, failed, fileVars>>

\* The wait and the batch it takes, under queue_mutex.
TakeBatch ==
    /\ wpc = "wait"
    /\ \/ /\ filled = <<>>
          /\ wpc' = IF stopReq THEN "close" ELSE "sleep"
          /\ UNCHANGED <<filled, batchVars>>
       \/ /\ filled # <<>>
          /\ LET n == IF BatchSize < Len(filled) THEN BatchSize ELSE Len(filled)
             IN /\ batch' = SubSeq(filled, 1, n)
                /\ filled' = SubSeq(filled, n + 1, Len(filled))
          /\ pos' = 0 /\ wpc' = "ensure"
    /\ UNCHANGED <<ownerVars, free, content, stopReq, written, failed, fileVars>>

RecordBytes == RecordHeader + content[batch[pos + 1]].len

\* ensure_active_segment(): go on in the open segment if the record fits,
\* else close it first.
EnsureSegment ==
    /\ wpc = "ensure"
    /\ \/ /\ open /\ active + RecordBytes <= SegmentLimit
          /\ wpc' = "write" /\ UNCHANGED fileVars
       \/ /\ ~(open /\ active + RecordBytes <= SegmentLimit)
          /\ wpc' = "open" /\ CloseActive
    /\ UNCHANGED <<ownerVars, queueVars, batchVars, written, failed>>

\* Opening the next segment and writing its header may fail.
OpenSegment ==
    /\ wpc = "open"
    /\ \/ wpc' = "fail" /\ UNCHANGED fileVars
       \/ /\ wpc' = "write" /\ open' = TRUE /\ active' = HeaderBytes
          /\ Trim(closed, retained + HeaderBytes)
    /\ UNCHANGED <<ownerVars, queueVars, batchVars, written, failed>>

\* write_buffer() after the segment is there; the stream may have failed.
WriteRecord ==
    /\ wpc = "write"
    /\ \/ wpc' = "fail" /\ UNCHANGED <<pos, written, fileVars>>
       \/ /\ active' = active + RecordBytes
          /\ Trim(closed, retained + RecordBytes)
          /\ written' = Append(written, content[batch[pos + 1]])
          /\ pos' = pos + 1
          /\ wpc' = IF pos + 1 < Len(batch) THEN "ensure" ELSE "giveback"
          /\ UNCHANGED open
    /\ UNCHANGED <<ownerVars, queueVars, batch, failed>>

GiveBack ==
    /\ wpc = "giveback" /\ wpc' = "wait"
    /\ free' = free \union ToSet(batch)
    /\ batch' = <<>> /\ pos' = 0
    /\ UNCHANGED <<ownerVars, filled, content, stopReq, written, failed, fileVars>>

Finish ==
    /\ wpc \in {"close", "failclose"} /\ wpc' = "done"
    /\ CloseActive
    /\ UNCHANGED <<ownerVars, queueVars, batchVars, written, failed>>

\* The catch block: the message first, under state_mutex, ...
RecordFailure ==
    /\ wpc = "fail" /\ wpc' = "drain" /\ failed' = TRUE
    /\ UNCHANGED <<ownerVars, queueVars, batchVars, written, fileVars>>

\* Mutant of DrainOnFailure: the batch is forgotten.
DrainOnFailureNoBatch ==
    /\ wpc = "drain" /\ wpc' = "failclose"
    /\ free' = free \union ToSet(filled)
    /\ batch' = <<>> /\ pos' = 0 /\ filled' = <<>>
    /\ UNCHANGED <<ownerVars, content, stopReq, written, failed, fileVars>>

\* ... then every buffer of the batch and of the queue, under queue_mutex.
DrainOnFailure ==
    /\ wpc = "drain" /\ wpc' = "failclose"
    /\ free' = free \union ToSet(batch) \union ToSet(filled)
    /\ batch' = <<>> /\ pos' = 0 /\ filled' = <<>>
    /\ UNCHANGED <<ownerVars, content, stopReq, written, failed, fileVars>>

-----------------------------------------------------------------------------
OwnerGoesOn == SubmitQueue \/ SubmitNotify \/ StopNotify \/ Join

Owner == Start \/ (\E len \in FrameLens : SubmitCheck(len)) \/ RequestStop \/ OwnerGoesOn

Writer == \/ TakeBatch \/ EnsureSegment \/ OpenSegment \/ WriteRecord \/ GiveBack
          \/ Finish \/ RecordFailure \/ DrainOnFailure

Next == Owner \/ Writer

\* Both threads are scheduled; nothing forces the owner to submit or to stop.
Spec == Init /\ [][Next]_vars /\ WF_vars(Writer) /\ WF_vars(OwnerGoesOn)

-----------------------------------------------------------------------------
TypeOK ==
    /\ opc \in OwnerStates /\ wpc \in WriterStates
    /\ frame \in Frames /\ submitted \in Nat /\ dropped \in Nat
    /\ accepted \in Seq(Frames) /\ written \in Seq(Frames)
    /\ free \subseteq Buffers /\ filled \in Seq(Buffers) /\ batch \in Seq(Buffers)
    /\ content \in [Buffers -> Frames] /\ pos \in Nat
    /\ stopReq \in BOOLEAN /\ failed \in BOOLEAN /\ open \in BOOLEAN

\* No buffer is in two places, and none is lost, whatever the writer ran into:
\* a buffer that were free and filled would be overwritten before it is
\* written, a lost one would shrink the ring for the rest of the run.
BuffersConserved ==
    /\ free \intersect ToSet(filled) = {}
    /\ free \intersect ToSet(batch) = {}
    /\ ToSet(filled) \intersect ToSet(batch) = {}
    /\ IsInjective(filled) /\ IsInjective(batch)
    /\ opc # "off" => free \union ToSet(filled) \union ToSet(batch) = Buffers

\* The file holds the accepted frames, in the order of submit(), without a gap
\* and with the bytes they had, although buffers are reused all the time and
\* the writer may stop at any record.
WrittenInOrder == IsPrefix(written, accepted)

\* A frame passed to submit() is written, counted as dropped, or on its way;
\* only a writer that fails loses frames without counting them, and then at
\* most what the ring held and one frame the owner queued after its check.
InSubmit == IF opc = "queue" THEN 1 ELSE 0
OnItsWay == InSubmit + Len(filled) + Len(batch) - pos
Unaccounted == submitted - dropped - Len(written) - OnItsWay
LossBounded ==
    /\ Unaccounted >= 0
    /\ Unaccounted > 0 => failed
    /\ Unaccounted + Len(filled) <= Cardinality(Buffers) + 1

\* retained_bytes is what was written to the directory and not removed - the
\* closed segments, the active one and those whose unlink failed - however often
\* segments are opened, closed and removed (what a failed write left behind is
\* not counted by the code); and once start() has trimmed it the directory
\* stays under the limit, unless an unlink failed or one record alone is larger
\* than a segment may be.
Larger(a, b) == IF a < b THEN b ELSE a
Retention ==
    /\ retained = Total(closed) + active + orphaned
    /\ (opc # "off" /\ orphaned = 0) =>
          retained <= Larger(MaxTotalBytes, HeaderBytes + RecordHeader + MaxFrameBytes)

\* An accepted frame is written or the writer fails, and stop() returns: no
\* notification is lost between the writer's test and its sleep.
Progress ==
    /\ \A n \in 1..MaxFrames : (Len(accepted) >= n) ~> (Len(written) >= n \/ failed)
    /\ stopReq ~> (opc = "stopped")
=============================================================================
