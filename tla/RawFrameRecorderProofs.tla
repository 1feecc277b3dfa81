----------------------- MODULE RawFrameRecorderProofs -----------------------
(***************************************************************************)
(* Proofs about RawFrameRecorder.tla, for every ring, batch and segment    *)
(* size and however the disk fails: no buffer is lost or used twice, the   *)
(* files hold the accepted frames in order, and the directory stays under  *)
(* its limit, its size being counted to the byte.                          *)
(***************************************************************************)
EXTENDS RawFrameRecorder, SequenceFacts, FiniteSetTheorems, TLAPS

-----------------------------------------------------------------------------
(* The invariant *)

(* What the two program counters say about the buffers: before start() all *)
(* is empty, a batch is under way only while the writer works on it.       *)
Control ==
    /\ opc = "off" <=> wpc = "off"
    /\ opc = "off" => filled = <<>> /\ free = {}
    /\ wpc \in {"off", "wait", "sleep"} => batch = <<>> /\ pos = 0
    /\ wpc \in {"ensure", "open", "write"} => pos < Len(batch)
    /\ wpc = "giveback" => pos = Len(batch)
    /\ pos <= Len(batch)

(* After the catch block has given the buffers back nothing is written.    *)
Writing == wpc \notin {"failclose", "done"}

(* The accepted frames are those written, then those in the rest of the    *)
(* batch, then those in the queue, as the buffers hold them.               *)
Queued ==
    Writing =>
      /\ Len(accepted) = Len(written) + (Len(batch) - pos) + Len(filled)
      /\ \A i \in 1 .. Len(batch) :
           i > pos => content[batch[i]] = accepted[Len(written) - pos + i]
      /\ \A i \in 1 .. Len(filled) :
           content[filled[i]] = accepted[Len(written) + (Len(batch) - pos) + i]

InOrder ==
    /\ Len(written) <= Len(accepted)
    /\ \A i \in 1 .. Len(written) : written[i] = accepted[i]

RecorderInvariant == TypeOK /\ Control /\ BuffersConserved /\ Queued /\ InOrder

-----------------------------------------------------------------------------
-----------------------------------------------------------------------------
(* Steps that move no buffer and write no frame *)

buffers == <<accepted, free, filled, content, batch, pos, written>>

(* Only the places of the threads change, and the writer does not come to  *)
(* a place that promises more about the batch.                             *)
LEMMA NothingMoves ==
  ASSUME RecorderInvariant, TypeOK', UNCHANGED buffers,
         opc' = "off" <=> opc = "off", wpc' = "off" <=> wpc = "off",
         wpc' \in {"wait", "sleep"} => wpc \in {"wait", "sleep"},
         wpc' \in {"ensure", "open", "write"} => wpc \in {"ensure", "open", "write"},
         wpc' = "giveback" => wpc = "giveback",
         wpc \in {"failclose", "done"} => wpc' \in {"failclose", "done"}
  PROVE  RecorderInvariant'
<1>1. Control'
  BY DEF RecorderInvariant, Control, buffers
<1>2. BuffersConserved'
  BY DEF RecorderInvariant, BuffersConserved, buffers
<1>3. Queued' /\ InOrder'
  BY DEF RecorderInvariant, Queued, Writing, InOrder, buffers
<1>4. QED
  BY <1>1, <1>2, <1>3 DEF RecorderInvariant

(* The owner's steps outside the queue's lock.                             *)
LEMMA OwnerGoesOnKeeps ==
  ASSUME RecorderInvariant,
         \/ \E len \in FrameLens : SubmitCheck(len)
         \/ SubmitNotify \/ RequestStop \/ StopNotify \/ Join
  PROVE  RecorderInvariant'
<1> USE RecorderAssumption
<1>1. UNCHANGED buffers
  BY DEF SubmitCheck, SubmitNotify, RequestStop, StopNotify, Join, ownerVars, queueVars,
         batchVars, buffers
<1>2. /\ opc # "off" /\ opc' \in OwnerStates \ {"off"}
      /\ wpc' \in {wpc, IF wpc = "sleep" THEN "wait" ELSE wpc}
  BY DEF SubmitCheck, SubmitNotify, RequestStop, StopNotify, Join, Wake, OwnerStates
<1>3. /\ frame' \in Frames /\ submitted' \in Nat /\ dropped' \in Nat
      /\ stopReq' \in BOOLEAN /\ failed' = failed /\ open' = open
  <2>1. CASE \E len \in FrameLens : SubmitCheck(len)
    BY <2>1 DEF RecorderInvariant, TypeOK, SubmitCheck, queueVars, fileVars, Frames
  <2>2. CASE SubmitNotify \/ RequestStop \/ StopNotify \/ Join
    BY <2>2 DEF RecorderInvariant, TypeOK, SubmitNotify, RequestStop, StopNotify, Join,
                queueVars, fileVars
  <2>3. QED
    BY <2>1, <2>2
<1>4. TypeOK'
  BY <1>1, <1>2, <1>3 DEF RecorderInvariant, TypeOK, buffers, WriterStates
<1>5. QED
  BY <1>1, <1>2, <1>4, NothingMoves DEF WriterStates

(* The writer's steps between taking a batch and giving it back, except    *)
(* for the record itself.                                                  *)
LEMMA WriterGoesOnKeeps ==
  ASSUME RecorderInvariant,
         EnsureSegment \/ OpenSegment \/ Finish \/ RecordFailure
  PROVE  RecorderInvariant'
<1>1. UNCHANGED buffers /\ UNCHANGED <<opc, frame, submitted, dropped, stopReq>>
  BY DEF EnsureSegment, OpenSegment, Finish, RecordFailure, ownerVars, queueVars,
         batchVars, buffers
<1>2. \/ wpc \in {"ensure", "open"} /\ wpc' \in {"open", "write", "fail"}
      \/ wpc = "fail" /\ wpc' = "drain"
      \/ wpc \in {"close", "failclose"} /\ wpc' = "done"
  BY DEF EnsureSegment, OpenSegment, Finish, RecordFailure
<1>3. failed' \in BOOLEAN /\ open' \in BOOLEAN
  BY DEF RecorderInvariant, TypeOK, EnsureSegment, OpenSegment, Finish, RecordFailure,
         CloseActive, fileVars
<1>4. TypeOK'
  BY <1>1, <1>2, <1>3 DEF RecorderInvariant, TypeOK, buffers, WriterStates
<1>5. QED
  BY <1>1, <1>2, <1>4, NothingMoves

-----------------------------------------------------------------------------
(* Steps that move buffers *)

LEMMA InitHolds ==
  ASSUME Init
  PROVE  RecorderInvariant
<1>1. TypeOK
  <2>1. frame \in Frames /\ content \in [Buffers -> Frames]
    BY DEF Init, NoFrame, Frames
  <2>2. accepted \in Seq(Frames) /\ written \in Seq(Frames)
    BY DEF Init
  <2>3. filled \in Seq(Buffers) /\ batch \in Seq(Buffers) /\ free \subseteq Buffers
    BY DEF Init
  <2>4. QED
    BY <2>1, <2>2, <2>3 DEF Init, TypeOK, OwnerStates, WriterStates
<1>2. Control /\ BuffersConserved
  BY DEF Init, Control, BuffersConserved, ToSet, IsInjective
<1>3. Queued /\ InOrder
  BY DEF Init, Queued, InOrder
<1>4. QED
  BY <1>1, <1>2, <1>3 DEF RecorderInvariant

LEMMA StartKeeps ==
  ASSUME RecorderInvariant, Start
  PROVE  RecorderInvariant'
<1>1. /\ opc = "off" /\ wpc = "off" /\ filled = <<>> /\ batch = <<>> /\ pos = 0
      /\ opc' = "run" /\ wpc' = "wait" /\ free' = Buffers
      /\ UNCHANGED <<frame, submitted, accepted, dropped, filled, content, stopReq,
                     batch, pos, written, failed, open>>
  BY DEF RecorderInvariant, Control, Start, batchVars
<1>2. TypeOK'
  BY <1>1 DEF RecorderInvariant, TypeOK, OwnerStates, WriterStates
<1>3. Control'
  BY <1>1 DEF RecorderInvariant, Control
<1>4. BuffersConserved'
  BY <1>1 DEF RecorderInvariant, BuffersConserved, ToSet, IsInjective
<1>5. Queued' /\ InOrder'
  BY <1>1 DEF RecorderInvariant, Queued, Writing, InOrder
<1>6. QED
  BY <1>2, <1>3, <1>4, <1>5 DEF RecorderInvariant

(* A frame enters the queue in a free buffer: neither the batch nor the    *)
(* queue looks at that buffer.                                             *)
LEMMA SubmitQueueKeeps ==
  ASSUME RecorderInvariant, SubmitQueue
  PROVE  RecorderInvariant'
<1>1. /\ opc = "queue" /\ wpc # "off" /\ frame \in Frames
      /\ UNCHANGED <<frame, submitted, wpc, batch, pos, written, failed, open>>
  BY DEF RecorderInvariant, TypeOK, Control, SubmitQueue, batchVars, fileVars
<1>2. CASE /\ opc' = "run" /\ dropped' = dropped + 1
           /\ UNCHANGED <<accepted, queueVars>>
  <2>1. TypeOK'
    BY <1>1, <1>2 DEF RecorderInvariant, TypeOK, OwnerStates, queueVars
  <2>2. QED
    BY <1>1, <1>2, <2>1, NothingMoves DEF buffers, queueVars
<1>3. ASSUME NEW b \in free,
             free' = free \ {b}, filled' = Append(filled, b),
             content' = [content EXCEPT ![b] = frame],
             opc' = "notify", accepted' = Append(accepted, frame),
             UNCHANGED <<dropped, stopReq>>
      PROVE  RecorderInvariant'
  <2>1. b \in Buffers /\ b \notin ToSet(filled) /\ b \notin ToSet(batch)
    BY <1>3 DEF RecorderInvariant, TypeOK, BuffersConserved
  <2>2. /\ filled' \in Seq(Buffers) /\ Len(filled') = Len(filled) + 1
        /\ ToSet(filled') = ToSet(filled) \cup {b} /\ IsInjective(filled')
    BY <1>3, <2>1, AppendFacts DEF RecorderInvariant, TypeOK, BuffersConserved
  <2>3. /\ accepted' \in Seq(Frames) /\ Len(accepted') = Len(accepted) + 1
        /\ accepted'[Len(accepted) + 1] = frame
        /\ \A i \in 1 .. Len(accepted) : accepted'[i] = accepted[i]
    BY <1>1, <1>3 DEF RecorderInvariant, TypeOK
  <2>4. /\ content' \in [Buffers -> Frames] /\ content'[b] = frame
        /\ \A c \in Buffers : c # b => content'[c] = content[c]
    BY <1>1, <1>3, <2>1 DEF RecorderInvariant, TypeOK
  <2>5. TypeOK'
    BY <1>1, <1>3, <2>2, <2>3, <2>4 DEF RecorderInvariant, TypeOK, OwnerStates
  <2>6. Control'
    BY <1>1, <1>3 DEF RecorderInvariant, Control
  <2>7. BuffersConserved'
    BY <1>1, <1>3, <2>1, <2>2 DEF RecorderInvariant, BuffersConserved
  <2>8. InOrder'
    BY <1>1, <2>3 DEF RecorderInvariant, TypeOK, InOrder
  <2>9. ASSUME Writing'
        PROVE  Queued'
    <3> DEFINE next == Len(written) + (Len(batch) - pos)
    <3>1. /\ Len(accepted) = next + Len(filled)
          /\ \A i \in 1 .. Len(batch) :
               i > pos => content[batch[i]] = accepted[Len(written) - pos + i]
          /\ \A i \in 1 .. Len(filled) : content[filled[i]] = accepted[next + i]
      BY <1>1, <2>9 DEF RecorderInvariant, Queued, Writing
    <3>2. /\ Len(written) \in Nat /\ Len(batch) \in Nat /\ Len(filled) \in Nat
          /\ pos \in Nat /\ pos <= Len(batch) /\ next \in Nat
      BY DEF RecorderInvariant, TypeOK, Control
    <3>3. \A i \in 1 .. Len(batch) : batch[i] \in Buffers /\ batch[i] # b
      BY <2>1 DEF RecorderInvariant, TypeOK, ToSet
    <3>4. \A i \in 1 .. Len(filled) : filled[i] \in Buffers /\ filled[i] # b
      BY <2>1 DEF RecorderInvariant, TypeOK, ToSet
    <3>5. /\ filled'[Len(filled) + 1] = b
          /\ \A i \in 1 .. Len(filled) : filled'[i] = filled[i]
      BY <1>3 DEF RecorderInvariant, TypeOK
    <3> HIDE DEF next
    <3>6. \A i \in 1 .. Len(batch) :
            i > pos => content'[batch[i]] = accepted'[Len(written) - pos + i]
      <4> SUFFICES ASSUME NEW i \in 1 .. Len(batch), i > pos
                   PROVE  content'[batch[i]] = accepted'[Len(written) - pos + i]
        OBVIOUS
      <4>1. Len(written) - pos + i \in 1 .. Len(accepted)
        BY <3>1, <3>2 DEF next
      <4>2. QED
        BY <2>3, <2>4, <3>1, <3>3, <4>1
    <3>7. \A i \in 1 .. Len(filled') : content'[filled'[i]] = accepted'[next + i]
      <4> SUFFICES ASSUME NEW i \in 1 .. Len(filled')
                   PROVE  content'[filled'[i]] = accepted'[next + i]
        OBVIOUS
      <4>1. CASE i \in 1 .. Len(filled)
        <5>1. next + i \in 1 .. Len(accepted)
          BY <3>1, <3>2, <4>1
        <5>2. QED
          BY <2>3, <2>4, <3>1, <3>4, <3>5, <4>1, <5>1
      <4>2. CASE i = Len(filled) + 1
        <5>1. next + i = Len(accepted) + 1
          BY <3>1, <3>2, <4>2
        <5>2. QED
          BY <2>3, <2>4, <3>5, <4>2, <5>1
      <4>3. QED
        BY <2>2, <3>2, <4>1, <4>2
    <3>8. Len(accepted') = next + Len(filled')
      BY <2>2, <2>3, <3>1, <3>2
    <3>9. QED
      BY <1>1, <3>6, <3>7, <3>8 DEF Queued, next
  <2>10. QED
    BY <2>5, <2>6, <2>7, <2>8, <2>9 DEF RecorderInvariant, Queued
<1>4. QED
  BY <1>2, <1>3 DEF SubmitQueue

(* The head of the queue becomes the batch.                                *)
LEMMA TakeBatchKeeps ==
  ASSUME RecorderInvariant, TakeBatch
  PROVE  RecorderInvariant'
<1>1. /\ wpc = "wait" /\ batch = <<>> /\ pos = 0 /\ opc # "off"
      /\ UNCHANGED <<opc, frame, submitted, accepted, dropped, free, content, stopReq,
                     written, failed, open>>
  BY DEF RecorderInvariant, Control, TakeBatch, ownerVars, fileVars
<1>2. CASE filled = <<>> /\ UNCHANGED <<filled, batchVars>>
           /\ wpc' = IF stopReq THEN "close" ELSE "sleep"
  <2>1. TypeOK'
    BY <1>1, <1>2 DEF RecorderInvariant, TypeOK, WriterStates, batchVars
  <2>2. QED
    BY <1>1, <1>2, <2>1, NothingMoves DEF buffers, batchVars
<1>3. CASE filled # <<>>
  <2> DEFINE n == IF BatchSize < Len(filled) THEN BatchSize ELSE Len(filled)
  <2>1. n \in 1 .. Len(filled) /\ Len(filled) \in Nat
    BY <1>3, RecorderAssumption DEF RecorderInvariant, TypeOK
  <2>2. /\ batch' = SubSeq(filled, 1, n) /\ filled' = SubSeq(filled, n + 1, Len(filled))
        /\ pos' = 0 /\ wpc' = "ensure"
    BY <1>3 DEF TakeBatch
  <2> HIDE DEF n
  <2>3. /\ batch' \in Seq(Buffers) /\ Len(batch') = n
        /\ filled' \in Seq(Buffers) /\ Len(filled') = Len(filled) - n
        /\ \A i \in 1 .. n : batch'[i] = filled[i]
        /\ \A i \in 1 .. Len(filled) - n : filled'[i] = filled[n + i]
    BY <2>1, <2>2, SplitFacts DEF RecorderInvariant, TypeOK
  <2>4. /\ IsInjective(batch') /\ IsInjective(filled')
        /\ ToSet(batch') \intersect ToSet(filled') = {}
        /\ ToSet(batch') \union ToSet(filled') = ToSet(filled)
    BY <2>1, <2>2, SplitApart DEF RecorderInvariant, TypeOK, BuffersConserved
  <2>5. TypeOK'
    BY <1>1, <2>2, <2>3 DEF RecorderInvariant, TypeOK, WriterStates
  <2>6. Control'
    BY <1>1, <2>1, <2>2, <2>3 DEF RecorderInvariant, Control
  <2>7. BuffersConserved'
    <3>1. ToSet(batch) = {}
      BY <1>1 DEF ToSet
    <3>2. QED
      BY <1>1, <2>4, <3>1 DEF RecorderInvariant, BuffersConserved
  <2>8. Queued' /\ InOrder'
    <3>1. /\ Len(accepted) = Len(written) + Len(filled)
          /\ \A i \in 1 .. Len(filled) : content[filled[i]] = accepted[Len(written) + i]
      BY <1>1 DEF RecorderInvariant, TypeOK, Queued, Writing
    <3>2. Len(written) \in Nat /\ n \in Nat /\ n <= Len(filled)
      BY <2>1 DEF RecorderInvariant, TypeOK
    <3>3. \A i \in 1 .. n : content[batch'[i]] = accepted[Len(written) - 0 + i]
      <4> SUFFICES ASSUME NEW i \in 1 .. n
                   PROVE  content[batch'[i]] = accepted[Len(written) - 0 + i]
        OBVIOUS
      <4>1. i \in 1 .. Len(filled) /\ Len(written) - 0 + i = Len(written) + i
        BY <2>1, <3>2
      <4>2. QED
        BY <2>3, <3>1, <4>1
    <3>4. \A i \in 1 .. Len(filled') :
            content[filled'[i]] = accepted[Len(written) + (n - 0) + i]
      <4> SUFFICES ASSUME NEW i \in 1 .. Len(filled) - n
                   PROVE  content[filled'[i]] = accepted[Len(written) + (n - 0) + i]
        BY <2>3
      <4>1. n + i \in 1 .. Len(filled) /\ Len(written) + (n + i) = Len(written) + (n - 0) + i
        BY <2>1, <3>2
      <4>2. QED
        BY <2>3, <3>1, <4>1
    <3>5. Len(accepted) = Len(written) + (n - 0) + Len(filled')
      BY <2>1, <2>3, <3>1, <3>2
    <3>6. Queued'
      BY <1>1, <2>2, <2>3, <3>3, <3>4, <3>5 DEF Queued
    <3>7. InOrder'
      BY <1>1 DEF RecorderInvariant, InOrder
    <3>8. QED
      BY <3>6, <3>7
  <2>9. QED
    BY <2>5, <2>6, <2>7, <2>8 DEF RecorderInvariant
<1>4. QED
  BY <1>1, <1>2, <1>3 DEF TakeBatch

(* The record written is the next accepted frame.                          *)
LEMMA WriteRecordKeeps ==
  ASSUME RecorderInvariant, WriteRecord
  PROVE  RecorderInvariant'
<1>1. /\ wpc = "write" /\ pos < Len(batch) /\ pos \in Nat /\ Len(batch) \in Nat
      /\ Len(written) \in Nat /\ Len(filled) \in Nat /\ Len(accepted) \in Nat
      /\ UNCHANGED <<opc, frame, submitted, accepted, dropped, free, filled, content,
                     stopReq, batch, failed, open>>
  BY DEF RecorderInvariant, TypeOK, Control, WriteRecord, ownerVars, queueVars, fileVars
<1>2. CASE wpc' = "fail" /\ UNCHANGED <<pos, written>>
  <2>1. TypeOK'
    BY <1>1, <1>2 DEF RecorderInvariant, TypeOK, WriterStates
  <2>2. QED
    BY <1>1, <1>2, <2>1, NothingMoves DEF buffers
<1>3. CASE /\ written' = Append(written, content[batch[pos + 1]])
           /\ pos' = pos + 1
           /\ wpc' = IF pos + 1 < Len(batch) THEN "ensure" ELSE "giveback"
  <2>1. pos + 1 \in 1 .. Len(batch) /\ content[batch[pos + 1]] \in Frames
    BY <1>1 DEF RecorderInvariant, TypeOK
  <2>2. /\ Len(accepted) = Len(written) + (Len(batch) - pos) + Len(filled)
        /\ \A i \in 1 .. Len(batch) :
             i > pos => content[batch[i]] = accepted[Len(written) - pos + i]
        /\ \A i \in 1 .. Len(filled) :
             content[filled[i]] = accepted[Len(written) + (Len(batch) - pos) + i]
    BY <1>1 DEF RecorderInvariant, Queued, Writing
  <2>3. /\ written' \in Seq(Frames) /\ Len(written') = Len(written) + 1
        /\ written'[Len(written) + 1] = content[batch[pos + 1]]
        /\ \A i \in 1 .. Len(written) : written'[i] = written[i]
    BY <1>3, <2>1 DEF RecorderInvariant, TypeOK
  <2>4. TypeOK'
    BY <1>1, <1>3, <2>3 DEF RecorderInvariant, TypeOK, WriterStates
  <2>5. Control'
    BY <1>1, <1>3 DEF RecorderInvariant, Control
  <2>6. BuffersConserved'
    BY <1>1 DEF RecorderInvariant, BuffersConserved
  <2>7. InOrder'
    <3>1. content[batch[pos + 1]] = accepted[Len(written) + 1]
      <4>1. Len(written) - pos + (pos + 1) = Len(written) + 1 /\ pos + 1 > pos
        BY <1>1
      <4>2. QED
        BY <2>1, <2>2, <4>1
    <3>2. Len(written) + 1 <= Len(accepted)
      BY <1>1, <2>2
    <3>3. \A i \in 1 .. Len(written) + 1 : i \in 1 .. Len(written) \/ i = Len(written) + 1
      BY <1>1
    <3>4. QED
      BY <1>1, <2>3, <3>1, <3>2, <3>3 DEF RecorderInvariant, InOrder
  <2>8. Queued'
    <3>1. Len(accepted) = Len(written') + (Len(batch) - pos') + Len(filled)
      BY <1>1, <1>3, <2>2, <2>3
    <3>2. \A i \in 1 .. Len(batch) :
            i > pos' => content[batch[i]] = accepted[Len(written') - pos' + i]
      <4>1. Len(written') - pos' = Len(written) - pos /\ pos' > pos
        BY <1>1, <1>3, <2>3
      <4>2. \A i \in 1 .. Len(batch) : i > pos' => i > pos
        BY <1>1, <1>3
      <4>3. QED
        BY <2>2, <4>1, <4>2
    <3>3. Len(written') + (Len(batch) - pos') = Len(written) + (Len(batch) - pos)
      BY <1>1, <1>3, <2>3
    <3>4. QED
      BY <1>1, <2>2, <3>1, <3>2, <3>3 DEF Queued
  <2>9. QED
    BY <2>4, <2>5, <2>6, <2>7, <2>8 DEF RecorderInvariant
<1>4. QED
  BY <1>2, <1>3 DEF WriteRecord

(* A written batch is given back.                                          *)
LEMMA GiveBackKeeps ==
  ASSUME RecorderInvariant, GiveBack
  PROVE  RecorderInvariant'
<1>1. /\ wpc = "giveback" /\ wpc' = "wait" /\ opc # "off"
      /\ free' = free \union ToSet(batch) /\ batch' = <<>> /\ pos' = 0
      /\ pos = Len(batch)
      /\ UNCHANGED <<opc, frame, submitted, accepted, dropped, filled, content, stopReq,
                     written, failed, open>>
  BY DEF RecorderInvariant, Control, GiveBack, ownerVars, fileVars
<1>2. ToSet(batch) \subseteq Buffers /\ ToSet(batch') = {} /\ IsInjective(batch')
  BY <1>1 DEF RecorderInvariant, TypeOK, ToSet, IsInjective
<1>3. TypeOK' /\ Control'
  BY <1>1, <1>2 DEF RecorderInvariant, TypeOK, Control, WriterStates
<1>4. BuffersConserved'
  BY <1>1, <1>2 DEF RecorderInvariant, BuffersConserved
<1>5. Queued' /\ InOrder'
  <2>1. Len(batch) - pos = 0 /\ Len(batch') - pos' = 0
    BY <1>1 DEF RecorderInvariant, TypeOK
  <2>2. QED
    BY <1>1, <2>1 DEF RecorderInvariant, Queued, Writing, InOrder
<1>6. QED
  BY <1>3, <1>4, <1>5 DEF RecorderInvariant

(* The writer that failed gives everything back and writes no more.        *)
LEMMA DrainOnFailureKeeps ==
  ASSUME RecorderInvariant, DrainOnFailure
  PROVE  RecorderInvariant'
<1>1. /\ wpc = "drain" /\ wpc' = "failclose" /\ opc # "off"
      /\ free' = free \union ToSet(batch) \union ToSet(filled)
      /\ batch' = <<>> /\ pos' = 0 /\ filled' = <<>>
      /\ UNCHANGED <<opc, frame, submitted, accepted, dropped, content, stopReq,
                     written, failed, open>>
  BY DEF RecorderInvariant, Control, DrainOnFailure, ownerVars, fileVars
<1>2. /\ ToSet(batch) \subseteq Buffers /\ ToSet(filled) \subseteq Buffers
      /\ ToSet(batch') = {} /\ ToSet(filled') = {}
      /\ IsInjective(batch') /\ IsInjective(filled')
  BY <1>1 DEF RecorderInvariant, TypeOK, ToSet, IsInjective
<1>3. TypeOK' /\ Control'
  BY <1>1, <1>2 DEF RecorderInvariant, TypeOK, Control, WriterStates
<1>4. BuffersConserved'
  BY <1>1, <1>2 DEF RecorderInvariant, BuffersConserved
<1>5. Queued' /\ InOrder'
  BY <1>1 DEF RecorderInvariant, Queued, Writing, InOrder
<1>6. QED
  BY <1>3, <1>4, <1>5 DEF RecorderInvariant

-----------------------------------------------------------------------------
(* The theorems *)

LEMMA NextKeeps ==
  ASSUME RecorderInvariant, [Next]_vars
  PROVE  RecorderInvariant'
<1>1. CASE Owner
  BY <1>1, StartKeeps, OwnerGoesOnKeeps, SubmitQueueKeeps DEF Owner, OwnerGoesOn
<1>2. CASE Writer
  BY <1>2, TakeBatchKeeps, WriterGoesOnKeeps, WriteRecordKeeps, GiveBackKeeps,
     DrainOnFailureKeeps DEF Writer
<1>3. CASE UNCHANGED vars
  <2>1. UNCHANGED buffers /\ opc' = opc /\ wpc' = wpc
    BY <1>3 DEF vars, ownerVars, queueVars, batchVars, buffers
  <2>2. TypeOK'
    BY <1>3 DEF RecorderInvariant, TypeOK, vars, ownerVars, queueVars, batchVars, fileVars
  <2>3. QED
    BY <2>1, <2>2, NothingMoves
<1>4. QED
  BY <1>1, <1>2, <1>3 DEF Next

(* The inductive invariant of the two threads.                             *)
THEOREM RecorderInvariantHolds == Spec => []RecorderInvariant
<1>1. Init => RecorderInvariant
  BY InitHolds
<1>2. RecorderInvariant /\ [Next]_vars => RecorderInvariant'
  BY NextKeeps
<1>3. QED
  BY <1>1, <1>2, PTL DEF Spec

(* Type correctness of the recorder: the queues hold buffers of the ring,  *)
(* the buffers hold frames.                                                *)
THEOREM RecorderTypes == Spec => []TypeOK
<1>1. RecorderInvariant => TypeOK
  BY DEF RecorderInvariant
<1>2. QED
  BY <1>1, RecorderInvariantHolds, PTL

(* However often the ring overruns and wherever the writer fails, every    *)
(* buffer is in one place: none is lost, none is refilled before it was    *)
(* written.                                                                *)
THEOREM BuffersConservedHolds == Spec => []BuffersConserved
<1>1. RecorderInvariant => BuffersConserved
  BY DEF RecorderInvariant
<1>2. QED
  BY <1>1, RecorderInvariantHolds, PTL

(* The segments hold a prefix of the accepted frames, with the bytes they  *)
(* had when submit() copied them.                                          *)
THEOREM WrittenInOrderHolds == Spec => []WrittenInOrder
<1>1. ASSUME RecorderInvariant
      PROVE  WrittenInOrder
  <2>1. /\ written \in Seq(Frames) /\ accepted \in Seq(Frames)
        /\ Len(written) \in Nat /\ Len(accepted) \in Nat
        /\ Len(written) <= Len(accepted)
        /\ \A i \in 1 .. Len(written) : written[i] = accepted[i]
    BY <1>1 DEF RecorderInvariant, TypeOK, InOrder
  <2>2. SubSeq(written, 1, Len(written)) = SubSeq(accepted, 1, Len(written))
    BY <2>1
  <2>3. QED
    BY <2>1, <2>2 DEF WrittenInOrder, IsPrefix
<1>2. QED
  BY <1>1, RecorderInvariantHolds, PTL

-----------------------------------------------------------------------------
(* How many frames a failure may lose *)

(* Until the writer that failed gives its buffers back every frame is      *)
(* written, counted or on its way.  Then it has lost what the ring held,   *)
(* and one frame the owner was submitting may still follow: it finds a     *)
(* buffer nobody will write.                                               *)
Accounted ==
    /\ wpc \in {"drain", "failclose"} => failed
    /\ failed => wpc \in {"drain", "failclose", "done"}
    /\ ~failed \/ wpc = "drain" => Unaccounted = 0
    /\ failed /\ wpc # "drain" =>
         /\ Unaccounted >= 0
         /\ Unaccounted + Len(filled) + InSubmit <= Cardinality(Buffers) + 1

(* No more buffers are queued than there are.                              *)
LEMMA QueuesFit ==
  ASSUME RecorderInvariant
  PROVE  /\ Cardinality(Buffers) \in Nat
         /\ Len(filled) + Len(batch) <= Cardinality(Buffers)
<1>1. /\ filled \in Seq(Buffers) /\ batch \in Seq(Buffers)
      /\ IsInjective(filled) /\ IsInjective(batch)
      /\ ToSet(filled) \intersect ToSet(batch) = {} /\ IsFiniteSet(Buffers)
  BY RecorderAssumption DEF RecorderInvariant, TypeOK, BuffersConserved
<1>2. /\ IsFiniteSet(ToSet(filled)) /\ Cardinality(ToSet(filled)) = Len(filled)
      /\ IsFiniteSet(ToSet(batch)) /\ Cardinality(ToSet(batch)) = Len(batch)
  BY <1>1, LengthIsCardinality
<1>3. Cardinality(ToSet(filled) \union ToSet(batch)) = Len(filled) + Len(batch)
  <2>1. /\ Cardinality(ToSet(filled) \cup ToSet(batch)) =
             Len(filled) + Len(batch) - Cardinality(ToSet(filled) \cap ToSet(batch))
        /\ Len(filled) \in Nat /\ Len(batch) \in Nat
    BY <1>1, <1>2, FS_Union
  <2>2. Cardinality(ToSet(filled) \cap ToSet(batch)) = 0
    BY <1>1, FS_EmptySet
  <2>3. QED
    BY <2>1, <2>2
<1>4. ToSet(filled) \union ToSet(batch) \subseteq Buffers
  BY <1>1 DEF ToSet
<1>5. QED
  BY <1>1, <1>3, <1>4, FS_Subset, FS_CardinalityType

(* What the counts are, for the arithmetic of the steps.                   *)
LEMMA CountTypes ==
  ASSUME RecorderInvariant
  PROVE  /\ submitted \in Nat /\ dropped \in Nat /\ pos \in Nat
         /\ Len(written) \in Nat /\ Len(filled) \in Nat /\ Len(batch) \in Nat
         /\ Cardinality(Buffers) \in Nat /\ failed \in BOOLEAN
         /\ pos <= Len(batch)
BY QueuesFit DEF RecorderInvariant, TypeOK, Control

(* A frame comes in and is dropped or is in submit(); one of the batch is   *)
(* written.                                                                *)
LEMMA Balance ==
  ASSUME NEW s \in Int, NEW d \in Int, NEW w \in Int, NEW k \in Int, NEW f \in Int,
         NEW b \in Int, NEW p \in Int
  PROVE  /\ (s + 1) - (d + 1) - w - (0 + f + b - p) = s - d - w - (0 + f + b - p)
         /\ (s + 1) - d - w - (1 + f + b - p) = s - d - w - (0 + f + b - p)
         /\ s - d - (w + 1) - (k + f + b - (p + 1)) = s - d - w - (k + f + b - p)
OBVIOUS

LEMMA OwnerKeepsAccount ==
  ASSUME RecorderInvariant, Accounted, Owner
  PROVE  Accounted'
<1> USE CountTypes
<1>1. /\ UNCHANGED <<pos, batch, written, failed>>
      /\ wpc' = wpc \/ (wpc' = "wait" /\ wpc \in {"off", "sleep"})
  <2>1. CASE Start
    BY <2>1 DEF Start, batchVars, RecorderInvariant, Control
  <2>2. CASE \E len \in FrameLens : SubmitCheck(len)
    BY <2>2 DEF SubmitCheck, batchVars
  <2>3. CASE SubmitQueue
    BY <2>3 DEF SubmitQueue, batchVars
  <2>4. CASE SubmitNotify \/ RequestStop \/ StopNotify \/ Join
    BY <2>4 DEF SubmitNotify, RequestStop, StopNotify, Join, Wake, batchVars
  <2>5. QED
    BY <2>1, <2>2, <2>3, <2>4 DEF Owner, OwnerGoesOn
<1>2. CASE UNCHANGED <<submitted, dropped, filled>> /\ InSubmit' = InSubmit
  BY <1>1, <1>2 DEF Accounted, Unaccounted, OnItsWay
<1>3. CASE \E len \in FrameLens : SubmitCheck(len)
  <2>1. /\ submitted' = submitted + 1 /\ filled' = filled /\ InSubmit = 0 /\ wpc' = wpc
        /\ \/ dropped' = dropped + 1 /\ InSubmit' = 0
           \/ dropped' = dropped /\ InSubmit' = 1 /\ ~failed
    BY <1>3 DEF SubmitCheck, InSubmit, queueVars
  <2>2. Unaccounted' = Unaccounted /\ Len(filled') = Len(filled)
    <3>1. /\ Unaccounted = submitted - dropped - Len(written)
                          - (0 + Len(filled) + Len(batch) - pos)
          /\ Unaccounted' = (submitted + 1) - dropped' - Len(written)
                           - (InSubmit' + Len(filled) + Len(batch) - pos)
          /\ Len(filled') = Len(filled)
      BY <1>1, <2>1 DEF Unaccounted, OnItsWay
    <3>2. /\ (submitted + 1) - (dropped + 1) - Len(written) - (0 + Len(filled) + Len(batch) - pos)
               = submitted - dropped - Len(written) - (0 + Len(filled) + Len(batch) - pos)
          /\ (submitted + 1) - dropped - Len(written) - (1 + Len(filled) + Len(batch) - pos)
               = submitted - dropped - Len(written) - (0 + Len(filled) + Len(batch) - pos)
      BY Balance
    <3>3. CASE dropped' = dropped + 1 /\ InSubmit' = 0
      BY <3>1, <3>2, <3>3, Zenon
    <3>4. CASE dropped' = dropped /\ InSubmit' = 1
      BY <3>1, <3>2, <3>4, Zenon
    <3>5. QED
      BY <2>1, <3>3, <3>4
  <2>3. CASE InSubmit' = 0
    BY <1>1, <2>1, <2>2, <2>3 DEF Accounted
  <2>4. CASE ~failed
    BY <1>1, <2>1, <2>2, <2>4 DEF Accounted
  <2>5. QED
    BY <2>1, <2>3, <2>4
<1>4. CASE SubmitQueue
  <2>1. /\ submitted' = submitted /\ InSubmit = 1 /\ InSubmit' = 0 /\ wpc' = wpc
        /\ \/ dropped' = dropped + 1 /\ Len(filled') = Len(filled)
           \/ dropped' = dropped /\ Len(filled') = Len(filled) + 1
    BY <1>4 DEF SubmitQueue, InSubmit, queueVars, RecorderInvariant, TypeOK
  <2>2. /\ Unaccounted' = Unaccounted
        /\ Len(filled') + InSubmit' <= Len(filled) + InSubmit
    <3>1. /\ Unaccounted = submitted - dropped - Len(written)
                          - (1 + Len(filled) + Len(batch) - pos)
          /\ Unaccounted' = submitted - dropped' - Len(written)
                           - (0 + Len(filled') + Len(batch) - pos)
      BY <1>1, <2>1 DEF Unaccounted, OnItsWay
    <3>2. CASE dropped' = dropped + 1 /\ Len(filled') = Len(filled)
      <4>1. submitted - (dropped + 1) - Len(written) - (0 + Len(filled) + Len(batch) - pos)
              = submitted - dropped - Len(written) - (1 + Len(filled) + Len(batch) - pos)
        OBVIOUS
      <4>2. Unaccounted' = submitted - (dropped + 1) - Len(written)
                             - (0 + Len(filled) + Len(batch) - pos)
        BY <3>1, <3>2
      <4>3. Len(filled') + InSubmit' <= Len(filled) + InSubmit
        BY <2>1, <3>2
      <4>4. QED
        BY <3>1, <4>1, <4>2, <4>3
    <3>3. CASE dropped' = dropped /\ Len(filled') = Len(filled) + 1
      BY <2>1, <3>1, <3>3
    <3>4. QED
      BY <2>1, <3>2, <3>3
  <2>3. Unaccounted \in Int /\ Len(filled') \in Nat
    BY <2>1 DEF Unaccounted, OnItsWay
  <2>4. QED
    BY <1>1, <2>1, <2>2, <2>3 DEF Accounted
<1>5. CASE Start \/ SubmitNotify \/ RequestStop \/ StopNotify \/ Join
  <2>1. UNCHANGED <<submitted, dropped, filled>> /\ InSubmit' = InSubmit
    BY <1>5 DEF Start, SubmitNotify, RequestStop, StopNotify, Join, InSubmit, queueVars
  <2>2. QED
    BY <1>2, <2>1
<1>6. QED
  BY <1>3, <1>4, <1>5 DEF Owner, OwnerGoesOn

LEMMA WriterKeepsAccount ==
  ASSUME RecorderInvariant, Accounted, Writer
  PROVE  Accounted'
<1> USE CountTypes
<1>1. UNCHANGED <<submitted, dropped>> /\ InSubmit' = InSubmit /\ InSubmit \in {0, 1}
  BY DEF Writer, TakeBatch, EnsureSegment, OpenSegment, WriteRecord, GiveBack, Finish,
         RecordFailure, DrainOnFailure, ownerVars, InSubmit
<1>2. CASE TakeBatch
  <2>1. /\ wpc = "wait" /\ wpc' \in {"close", "sleep", "ensure"} /\ failed' = failed
        /\ written' = written /\ batch = <<>> /\ pos = 0 /\ pos' = 0
        /\ Len(filled') + Len(batch') = Len(filled)
        /\ Len(filled') \in Nat /\ Len(batch') \in Nat
    <3>1. RecorderInvariant'
      BY <1>2, TakeBatchKeeps
    <3>2. Len(filled') \in Nat /\ Len(batch') \in Nat
      BY <3>1 DEF RecorderInvariant, TypeOK
    <3>3. /\ wpc = "wait" /\ wpc' \in {"close", "sleep", "ensure"} /\ failed' = failed
          /\ written' = written /\ accepted' = accepted /\ batch = <<>> /\ pos = 0 /\ pos' = 0
      BY <1>2 DEF TakeBatch, RecorderInvariant, Control, batchVars, ownerVars
    <3>4. /\ Len(accepted) = Len(written) + (Len(batch) - pos) + Len(filled)
          /\ Len(accepted) = Len(written) + (Len(batch') - pos') + Len(filled')
      BY <3>1, <3>3 DEF RecorderInvariant, Queued, Writing
    <3>5. QED
      BY <3>2, <3>3, <3>4
  <2>2. QED
    BY <1>1, <2>1 DEF Accounted, Unaccounted, OnItsWay
<1>3. CASE WriteRecord
  <2>1. /\ wpc = "write" /\ UNCHANGED <<filled, batch, failed>>
        /\ wpc' \in {"fail", "ensure", "giveback"}
        /\ \/ UNCHANGED <<pos, written>>
           \/ pos' = pos + 1 /\ Len(written') = Len(written) + 1
    BY <1>3 DEF WriteRecord, queueVars, RecorderInvariant, TypeOK
  <2>2. Unaccounted' = Unaccounted
    <3>1. CASE UNCHANGED <<pos, written>>
      BY <1>1, <2>1, <3>1 DEF Unaccounted, OnItsWay
    <3>2. CASE pos' = pos + 1 /\ Len(written') = Len(written) + 1
      <4>1. /\ Unaccounted = submitted - dropped - Len(written)
                            - (InSubmit + Len(filled) + Len(batch) - pos)
            /\ Unaccounted' = submitted - dropped - (Len(written) + 1)
                             - (InSubmit + Len(filled) + Len(batch) - (pos + 1))
        BY <1>1, <2>1, <3>2 DEF Unaccounted, OnItsWay
      <4>2. InSubmit \in Int /\ pos \in Int /\ Len(batch) \in Int /\ Len(filled) \in Int
        BY <1>1
      <4>3. QED
        BY <4>1, <4>2, Balance
    <3>3. QED
      BY <2>1, <3>1, <3>2
  <2>3. ~failed /\ Unaccounted = 0
    BY <2>1 DEF Accounted
  <2>4. QED
    BY <2>1, <2>2, <2>3 DEF Accounted
<1>4. CASE GiveBack
  <2>1. /\ wpc = "giveback" /\ wpc' = "wait" /\ pos = Len(batch) /\ pos' = 0
        /\ Len(batch') = 0 /\ UNCHANGED <<filled, written, failed>>
    BY <1>4 DEF GiveBack, RecorderInvariant, Control
  <2>2. QED
    BY <1>1, <2>1 DEF Accounted, Unaccounted, OnItsWay
<1>5. CASE DrainOnFailure
  <2>1. /\ wpc = "drain" /\ wpc' = "failclose" /\ pos' = 0 /\ UNCHANGED <<written, failed>>
        /\ Len(batch') = 0 /\ Len(filled') = 0
    BY <1>5 DEF DrainOnFailure
  <2>2. failed /\ Unaccounted = 0
    BY <2>1 DEF Accounted
  <2>3. Unaccounted' = Len(filled) + Len(batch) - pos
    <3>1. submitted - dropped - Len(written)
             - (InSubmit + Len(filled) + Len(batch) - pos) = 0
      BY <2>2 DEF Unaccounted, OnItsWay
    <3>2. Unaccounted' = submitted - dropped - Len(written) - (InSubmit + 0 + 0 - 0)
      BY <1>1, <2>1 DEF Unaccounted, OnItsWay
    <3>3. QED
      BY <1>1, <3>1, <3>2
  <2>4. QED
    BY <1>1, <2>1, <2>2, <2>3, QueuesFit DEF Accounted
<1>6. CASE EnsureSegment \/ OpenSegment \/ Finish \/ RecordFailure
  <2>1. UNCHANGED <<filled, batch, pos, written>>
    BY <1>6 DEF EnsureSegment, OpenSegment, Finish, RecordFailure, queueVars, batchVars
  <2>2. \/ wpc \in {"ensure", "open"} /\ wpc' \in {"open", "write", "fail"} /\ failed' = failed
        \/ wpc = "fail" /\ wpc' = "drain" /\ failed'
        \/ wpc \in {"close", "failclose"} /\ wpc' = "done" /\ failed' = failed
    BY <1>6 DEF EnsureSegment, OpenSegment, Finish, RecordFailure
  <2>3. Unaccounted' = Unaccounted
    BY <1>1, <2>1 DEF Unaccounted, OnItsWay
  <2>4. QED
    BY <1>1, <2>1, <2>2, <2>3 DEF Accounted
<1>7. QED
  BY <1>2, <1>3, <1>4, <1>5, <1>6 DEF Writer

(* Only a writer that failed loses frames without counting them, and then  *)
(* no more than the ring held and one frame that was being submitted.      *)
THEOREM LossBoundedHolds == Spec => []LossBounded
<1>1. Init => Accounted
  <2> SUFFICES ASSUME Init
               PROVE  Accounted
    OBVIOUS
  <2>1. /\ Len(filled) = 0 /\ Len(batch) = 0 /\ Len(written) = 0 /\ InSubmit = 0
        /\ submitted = 0 /\ dropped = 0 /\ pos = 0
    BY DEF Init, InSubmit
  <2>2. Unaccounted = 0
    BY <2>1 DEF Unaccounted, OnItsWay
  <2>3. QED
    BY <2>2 DEF Init, Accounted
<1>2. RecorderInvariant /\ Accounted /\ [Next]_vars => Accounted'
  <2> SUFFICES ASSUME RecorderInvariant, Accounted, [Next]_vars
               PROVE  Accounted'
    OBVIOUS
  <2>1. CASE UNCHANGED vars
    BY <2>1 DEF Accounted, Unaccounted, OnItsWay, InSubmit, vars, ownerVars, queueVars,
                batchVars
  <2>2. QED
    BY <2>1, OwnerKeepsAccount, WriterKeepsAccount DEF Next
<1>3. RecorderInvariant /\ Accounted => LossBounded
  <2> SUFFICES ASSUME RecorderInvariant, Accounted
               PROVE  LossBounded
    OBVIOUS
  <2>1. InSubmit \in {0, 1}
    BY DEF InSubmit
  <2>2. /\ Len(filled) \in Nat /\ Cardinality(Buffers) \in Nat
        /\ Len(filled) <= Cardinality(Buffers)
    BY CountTypes, QueuesFit
  <2>3. CASE Unaccounted = 0
    BY <2>2, <2>3 DEF LossBounded
  <2>4. CASE failed /\ wpc # "drain"
    <3>1. Unaccounted \in Int
      BY <2>1, CountTypes DEF Unaccounted, OnItsWay
    <3>2. Unaccounted >= 0 /\ Unaccounted + Len(filled) + InSubmit <= Cardinality(Buffers) + 1
      BY <2>4 DEF Accounted
    <3>3. Unaccounted + Len(filled) <= Cardinality(Buffers) + 1
      BY <2>1, <2>2, <3>1, <3>2
    <3>4. QED
      BY <2>4, <3>2, <3>3 DEF LossBounded
  <2>5. QED
    BY <2>3, <2>4 DEF Accounted
<1>4. QED
  BY <1>1, <1>2, <1>3, RecorderInvariantHolds, PTL DEF Spec

-----------------------------------------------------------------------------
(* The sum of the sizes of a list of segments *)

(* f[i] is the sum of the first i sizes.                                   *)
PartialSums(s, f) ==
  /\ f \in [0 .. Len(s) -> Nat] /\ f[0] = 0
  /\ \A i \in 1 .. Len(s) : f[i] = f[i - 1] + s[i]

LEMMA PartialSumsExist ==
  ASSUME NEW s \in Seq(Nat)
  PROVE  \E f : f = [i \in 0 .. Len(s) |-> IF i = 0 THEN 0 ELSE f[i - 1] + s[i]]
<1> DEFINE T(n) == \E f : f = [i \in 0 .. n |-> IF i = 0 THEN 0 ELSE f[i - 1] + s[i]]
           S == {n \in 0 .. Len(s) : T(n)}
<1>1. Len(s) \in Nat
  OBVIOUS
<1>2. T(0)
  <2> DEFINE f == [i \in {0} |-> 0]
  <2>1. f = [i \in 0 .. 0 |-> IF i = 0 THEN 0 ELSE f[i - 1] + s[i]]
    OBVIOUS
  <2>2. QED
    BY <2>1
<1>3. ASSUME NEW n \in 1 .. Len(s), T(n - 1)
      PROVE  T(n)
  <2>1. PICK f : f = [i \in 0 .. n - 1 |-> IF i = 0 THEN 0 ELSE f[i - 1] + s[i]]
    BY <1>3
  <2> DEFINE g == [i \in 0 .. n |-> IF i = n THEN f[n - 1] + s[n] ELSE f[i]]
  <2>2. \A i \in 0 .. n - 1 : g[i] = f[i]
    BY <1>1
  <2>3. \A i \in 0 .. n : g[i] = IF i = 0 THEN 0 ELSE g[i - 1] + s[i]
    <3> SUFFICES ASSUME NEW i \in 0 .. n
                 PROVE  g[i] = IF i = 0 THEN 0 ELSE g[i - 1] + s[i]
      OBVIOUS
    <3>1. CASE i = n
      <4>1. g[i] = f[n - 1] + s[n] /\ n - 1 \in 0 .. n - 1 /\ i # 0
        BY <1>1, <3>1
      <4>2. g[n - 1] = f[n - 1]
        BY <2>2, <4>1
      <4> HIDE DEF g
      <4>3. QED
        BY <3>1, <4>1, <4>2
    <3>2. CASE i \in 0 .. n - 1
      <4>1. g[i] = f[i] /\ (i # 0 => i - 1 \in 0 .. n - 1)
        BY <1>1, <2>2, <3>2
      <4>2. f[i] = IF i = 0 THEN 0 ELSE f[i - 1] + s[i]
        BY <2>1, <3>2
      <4>3. i # 0 => g[i - 1] = f[i - 1]
        BY <2>2, <4>1
      <4> HIDE DEF g
      <4>4. QED
        BY <4>1, <4>2, <4>3
    <3>3. QED
      BY <1>1, <3>1, <3>2
  <2>4. g = [i \in 0 .. n |-> IF i = 0 THEN 0 ELSE g[i - 1] + s[i]]
    <3>1. g = [i \in 0 .. n |-> g[i]]
      OBVIOUS
    <3> HIDE DEF g
    <3>2. QED
      BY <2>3, <3>1
  <2>5. QED
    BY <2>4
<1> HIDE DEF T
<1>4. 0 \in S /\ \A n \in 1 .. Len(s) : n - 1 \in S => n \in S
  <2>1. 0 \in 0 .. Len(s) /\ \A n \in 1 .. Len(s) : n \in 0 .. Len(s)
    BY <1>1
  <2>2. QED
    BY <1>2, <1>3, <2>1
<1>5. Len(s) \in 0 .. Len(s)
  BY <1>1
<1> HIDE DEF S
<1>6. Len(s) \in S
  BY <1>1, <1>4, <1>5, IntervalInduction
<1>7. QED
  BY <1>6 DEF S, T

LEMMA TotalIsSum ==
  ASSUME NEW s \in Seq(Nat)
  PROVE  \E f : PartialSums(s, f) /\ Total(s) = f[Len(s)]
<1> DEFINE f == CHOOSE sum : sum = [i \in 0 .. Len(s) |-> IF i = 0 THEN 0 ELSE sum[i - 1] + s[i]]
<1>1. Total(s) = f[Len(s)]
  BY DEF Total
<1>2. f = [i \in 0 .. Len(s) |-> IF i = 0 THEN 0 ELSE f[i - 1] + s[i]]
  BY PartialSumsExist
<1> HIDE DEF f
<1>3. Len(s) \in Nat
  OBVIOUS
<1>4. \A i \in 0 .. Len(s) : f[i] = IF i = 0 THEN 0 ELSE f[i - 1] + s[i]
  BY <1>2
<1>5. f[0] = 0 /\ \A i \in 1 .. Len(s) : f[i] = f[i - 1] + s[i]
  BY <1>3, <1>4
<1>6. \A i \in 0 .. Len(s) : f[i] \in Nat
  <2> DEFINE S == {i \in 0 .. Len(s) : f[i] \in Nat}
  <2>1. ASSUME NEW i \in 1 .. Len(s), f[i - 1] \in Nat
        PROVE  f[i] \in Nat
    <3>1. s[i] \in Nat /\ f[i] = f[i - 1] + s[i]
      BY <1>5
    <3>2. QED
      BY <2>1, <3>1
  <2>2. 0 \in S /\ \A i \in 1 .. Len(s) : i - 1 \in S => i \in S
    <3>1. 0 \in 0 .. Len(s) /\ \A i \in 1 .. Len(s) : i \in 0 .. Len(s)
      BY <1>3
    <3>2. QED
      BY <1>5, <2>1, <3>1
  <2> HIDE DEF S
  <2>3. \A i \in 0 .. Len(s) : i \in S
    BY <1>3, <2>2, IntervalInduction
  <2>4. QED
    BY <2>3 DEF S
<1>7. f \in [0 .. Len(s) -> Nat]
  BY <1>2, <1>6
<1>8. QED
  BY <1>1, <1>5, <1>7 DEF PartialSums


(* The sums of a piece of s that begins after a sizes. *)
LEMMA SumsOfPiece ==
  ASSUME NEW s \in Seq(Nat), NEW t \in Seq(Nat), NEW f, NEW g,
         PartialSums(s, f), PartialSums(t, g), NEW a \in Nat, a + Len(t) <= Len(s),
         \A i \in 1 .. Len(t) : t[i] = s[a + i]
  PROVE  f[a + Len(t)] = f[a] + g[Len(t)]
<1> DEFINE S == {i \in 0 .. Len(t) : f[a + i] = f[a] + g[i]}
<1>1. /\ Len(s) \in Nat /\ Len(t) \in Nat /\ g[0] = 0
      /\ \A i \in 0 .. Len(s) : f[i] \in Nat
      /\ \A i \in 0 .. Len(t) : g[i] \in Nat
      /\ \A i \in 1 .. Len(s) : f[i] = f[i - 1] + s[i]
      /\ \A i \in 1 .. Len(t) : g[i] = g[i - 1] + t[i]
      /\ \A i \in 1 .. Len(t) : t[i] \in Nat
  <2>1. f \in [0 .. Len(s) -> Nat] /\ g \in [0 .. Len(t) -> Nat]
    BY DEF PartialSums
  <2>2. /\ g[0] = 0
        /\ \A i \in 1 .. Len(s) : f[i] = f[i - 1] + s[i]
        /\ \A i \in 1 .. Len(t) : g[i] = g[i - 1] + t[i]
    BY DEF PartialSums
  <2>3. Len(s) \in Nat /\ Len(t) \in Nat /\ \A i \in 1 .. Len(t) : t[i] \in Nat
    OBVIOUS
  <2>4. \A i \in 0 .. Len(s) : f[i] \in Nat
    BY <2>1
  <2>5. \A i \in 0 .. Len(t) : g[i] \in Nat
    BY <2>1
  <2>6. QED
    BY <2>2, <2>3, <2>4, <2>5
<1>2. f[a + 0] = f[a] + g[0] /\ f[a] \in Nat
  <2>1. a \in 0 .. Len(s) /\ a + 0 = a
    BY <1>1
  <2>2. QED
    BY <1>1, <2>1
<1>3. ASSUME NEW i \in 1 .. Len(t), f[a + (i - 1)] = f[a] + g[i - 1]
      PROVE  f[a + i] = f[a] + g[i]
  <2>1. a + i \in 1 .. Len(s) /\ (a + i) - 1 = a + (i - 1) /\ i - 1 \in 0 .. Len(t)
    BY <1>1
  <2>2. f[a + i] = f[a + (i - 1)] + s[a + i]
    BY <1>1, <2>1
  <2>3. g[i] = g[i - 1] + t[i] /\ t[i] = s[a + i] /\ t[i] \in Nat
    BY <1>1
  <2>4. g[i - 1] \in Nat
    BY <1>1, <2>1
  <2> DEFINE x == f[a]  y == g[i - 1]  z == t[i]
  <2>5. f[a + i] = (x + y) + z /\ g[i] = y + z
    BY <1>3, <2>1, <2>2, <2>3
  <2>6. x \in Nat /\ y \in Nat /\ z \in Nat
    BY <1>2, <2>3, <2>4
  <2> HIDE DEF x, y, z
  <2>7. (x + y) + z = x + (y + z)
    BY <2>6
  <2>8. QED
    BY <2>5, <2>7 DEF x
<1>4. 0 \in S /\ \A i \in 1 .. Len(t) : i - 1 \in S => i \in S
  <2>1. 0 \in 0 .. Len(t) /\ \A i \in 1 .. Len(t) : i \in 0 .. Len(t)
    BY <1>1
  <2>2. QED
    BY <1>2, <1>3, <2>1
<1>5. Len(t) \in 0 .. Len(t)
  BY <1>1
<1> HIDE DEF S
<1>6. Len(t) \in S
  BY <1>1, <1>4, <1>5, IntervalInduction
<1>7. QED
  BY <1>6 DEF S

LEMMA TotalTypes ==
  ASSUME NEW s \in Seq(Nat)
  PROVE  Total(s) \in Nat /\ (s = <<>> => Total(s) = 0)
<1>1. PICK f : PartialSums(s, f) /\ Total(s) = f[Len(s)]
  BY TotalIsSum
<1>2. Len(s) \in 0 .. Len(s) /\ (s = <<>> => Len(s) = 0)
  OBVIOUS
<1>3. QED
  BY <1>1, <1>2 DEF PartialSums

(* The total of a list that is cut in two. *)
LEMMA TotalSplit ==
  ASSUME NEW s \in Seq(Nat), NEW n \in 0 .. Len(s)
  PROVE  LET a == SubSeq(s, 1, n)
             b == SubSeq(s, n + 1, Len(s))
         IN  /\ a \in Seq(Nat) /\ Len(a) = n /\ \A i \in 1 .. n : a[i] = s[i]
             /\ b \in Seq(Nat) /\ (n = Len(s) <=> b = <<>>)
             /\ Total(s) = Total(a) + Total(b)
<1> DEFINE a == SubSeq(s, 1, n)
           b == SubSeq(s, n + 1, Len(s))
<1>1. a \in Seq(Nat) /\ Len(a) = n /\ \A i \in 1 .. n : a[i] = s[i]
  OBVIOUS
<1>2. b \in Seq(Nat) /\ Len(b) = Len(s) - n
  OBVIOUS
<1>3. \A i \in 1 .. Len(s) - n : b[i] = s[n + i]
  OBVIOUS
<1>4. Len(s) \in Nat /\ n \in Nat /\ n <= Len(s) /\ n + (Len(s) - n) = Len(s)
  OBVIOUS
<1> HIDE DEF a, b
<1>5. n = Len(s) <=> b = <<>>
  <2>1. b = <<>> <=> Len(b) = 0
    BY <1>2
  <2>2. n = Len(s) <=> Len(b) = 0
    BY <1>2, <1>4
  <2>3. QED
    BY <2>1, <2>2
<1>6. PICK f : PartialSums(s, f) /\ Total(s) = f[Len(s)]
  BY TotalIsSum
<1>7. PICK g : PartialSums(a, g) /\ Total(a) = g[Len(a)]
  BY <1>1, TotalIsSum
<1>8. PICK h : PartialSums(b, h) /\ Total(b) = h[Len(b)]
  BY <1>2, TotalIsSum
<1>9. f[n] = Total(a)
  <2>1. \A i \in 1 .. Len(a) : a[i] = s[0 + i]
    BY <1>1, <1>4
  <2>2. f[0 + Len(a)] = f[0] + g[Len(a)]
    <3>1. 0 \in Nat /\ 0 + Len(a) <= Len(s)
      BY <1>1, <1>4
    <3>2. QED
      BY <1>1, <1>6, <1>7, <2>1, <3>1, SumsOfPiece
  <2>3. f[0] = 0 /\ 0 + Len(a) = n /\ Total(a) \in Nat
    BY <1>1, <1>4, <1>6, TotalTypes DEF PartialSums
  <2>4. QED
    BY <1>7, <2>2, <2>3
<1>10. f[n + Len(b)] = f[n] + h[Len(b)]
  <2>1. n \in Nat /\ n + Len(b) <= Len(s)
    BY <1>2, <1>4
  <2>2. \A i \in 1 .. Len(b) : b[i] = s[n + i]
    BY <1>2, <1>3
  <2>3. b \in Seq(Nat) /\ PartialSums(s, f) /\ PartialSums(b, h)
    BY <1>2, <1>6, <1>8
  <2>4. QED
    BY ONLY s \in Seq(Nat), <2>1, <2>2, <2>3, SumsOfPiece
<1>11. Total(s) = Total(a) + Total(b)
  <2>1. n + Len(b) = Len(s)
    BY <1>2, <1>4
  <2>2. QED
    BY <1>6, <1>8, <1>9, <1>10, <2>1
<1>12. QED
  BY <1>1, <1>2, <1>5, <1>11 DEF a, b

LEMMA TotalAppend ==
  ASSUME NEW s \in Seq(Nat), NEW x \in Nat
  PROVE  Append(s, x) \in Seq(Nat) /\ Total(Append(s, x)) = Total(s) + x
<1> DEFINE r == Append(s, x)
<1>1. /\ r \in Seq(Nat) /\ Len(r) = Len(s) + 1 /\ r[Len(s) + 1] = x
      /\ Len(s) \in Nat
  OBVIOUS
<1>2. \A i \in 1 .. Len(s) : r[i] = s[0 + i]
  OBVIOUS
<1> HIDE DEF r
<1>3. PICK f : PartialSums(s, f) /\ Total(s) = f[Len(s)]
  BY TotalIsSum
<1>4. PICK g : PartialSums(r, g) /\ Total(r) = g[Len(r)]
  BY <1>1, TotalIsSum
<1>5. g[Len(s)] = Total(s)
  <2>1. \A i \in 1 .. Len(s) : s[i] = r[0 + i]
    BY <1>1, <1>2
  <2>2. g[0 + Len(s)] = g[0] + f[Len(s)]
    <3>1. 0 \in Nat /\ 0 + Len(s) <= Len(r)
      BY <1>1
    <3>2. QED
      BY <1>1, <1>3, <1>4, <2>1, <3>1, SumsOfPiece
  <2>3. g[0] = 0 /\ 0 + Len(s) = Len(s) /\ Total(s) \in Nat
    BY <1>1, <1>4, TotalTypes DEF PartialSums
  <2>4. QED
    BY <1>3, <2>2, <2>3
<1>6. g[Len(s) + 1] = g[Len(s)] + r[Len(s) + 1]
  <2>1. Len(s) + 1 \in 1 .. Len(r) /\ (Len(s) + 1) - 1 = Len(s)
    BY <1>1
  <2>2. QED
    BY <1>4, <2>1 DEF PartialSums
<1>7. QED
  BY <1>1, <1>4, <1>5, <1>6 DEF r

(* Smaller sizes have a smaller total. *)
LEMMA TotalMonotone ==
  ASSUME NEW s \in Seq(Nat), NEW t \in Seq(Nat), Len(s) = Len(t),
         \A i \in 1 .. Len(s) : t[i] <= s[i]
  PROVE  Total(t) <= Total(s)
<1>1. PICK f : PartialSums(s, f) /\ Total(s) = f[Len(s)]
  BY TotalIsSum
<1>2. PICK g : PartialSums(t, g) /\ Total(t) = g[Len(t)]
  BY TotalIsSum
<1> DEFINE S == {i \in 0 .. Len(s) : g[i] <= f[i]}
<1>3. Len(s) \in Nat /\ f \in [0 .. Len(s) -> Nat] /\ g \in [0 .. Len(s) -> Nat]
  BY <1>1, <1>2 DEF PartialSums
<1>4. g[0] <= f[0]
  BY <1>1, <1>2 DEF PartialSums
<1>5. ASSUME NEW i \in 1 .. Len(s), g[i - 1] <= f[i - 1]
      PROVE  g[i] <= f[i]
  <2>1. f[i] = f[i - 1] + s[i] /\ g[i] = g[i - 1] + t[i]
    BY <1>1, <1>2 DEF PartialSums
  <2>2. i - 1 \in 0 .. Len(s) /\ s[i] \in Nat /\ t[i] \in Nat /\ t[i] <= s[i]
    BY <1>3
  <2>3. f[i - 1] \in Nat /\ g[i - 1] \in Nat
    BY <1>3, <2>2
  <2>4. QED
    BY <1>5, <2>1, <2>2, <2>3
<1>6. 0 \in S /\ \A i \in 1 .. Len(s) : i - 1 \in S => i \in S
  <2>1. 0 \in 0 .. Len(s) /\ \A i \in 1 .. Len(s) : i \in 0 .. Len(s)
    BY <1>3
  <2>2. QED
    BY <1>4, <1>5, <2>1
<1>7. Len(s) \in 0 .. Len(s)
  BY <1>3
<1> HIDE DEF S
<1>8. Len(s) \in S
  BY <1>3, <1>6, <1>7, IntervalInduction
<1>9. QED
  BY <1>1, <1>2, <1>8 DEF S


-----------------------------------------------------------------------------
(* Retention *)

LEMMA FreedIsBounded ==
  ASSUME NEW cl \in Seq(Nat), NEW n \in 0 .. Len(cl), NEW F
  PROVE  Freed(cl, n, F) \in Nat /\ Freed(cl, n, F) <= Total(SubSeq(cl, 1, n))
<1> DEFINE t == [i \in 1 .. n |-> IF i \in F THEN 0 ELSE cl[i]]
           a == SubSeq(cl, 1, n)
<1>1. n \in Nat /\ \A i \in 1 .. n : cl[i] \in Nat
  OBVIOUS
<1>2. t \in Seq(Nat) /\ Len(t) = n /\ \A i \in 1 .. n : t[i] = IF i \in F THEN 0 ELSE cl[i]
  BY <1>1
<1>3. a \in Seq(Nat) /\ Len(a) = n /\ \A i \in 1 .. n : a[i] = cl[i]
  BY TotalSplit
<1>4. Freed(cl, n, F) = Total(t)
  BY DEF Freed
<1> HIDE DEF t, a
<1>5. \A i \in 1 .. Len(a) : t[i] <= a[i]
  <2>1. SUFFICES ASSUME NEW i \in 1 .. n
                 PROVE  t[i] <= a[i]
    BY <1>1, <1>3
  <2>2. cl[i] \in Nat /\ a[i] = cl[i] /\ t[i] = IF i \in F THEN 0 ELSE cl[i]
    BY <1>1, <1>2, <1>3
  <2>3. t[i] = 0 \/ t[i] = cl[i]
    BY <2>2, Zenon
  <2>4. QED
    BY <2>2, <2>3
<1>6. Total(t) \in Nat /\ Total(t) <= Total(a)
  BY <1>2, <1>3, <1>5, TotalTypes, TotalMonotone
<1>7. QED
  BY <1>4, <1>6 DEF a

(* What is trimmed off is subtracted, or orphaned; and the limit is met,   *)
(* or there is nothing left to trim.                                       *)
LEMMA TrimBalances ==
  ASSUME NEW cl \in Seq(Nat), NEW bytes \in Nat, orphaned \in Nat, Trim(cl, bytes)
  PROVE  /\ closed' \in Seq(Nat) /\ orphaned' \in Nat /\ retained' \in Int
         /\ orphaned' = 0 => orphaned = 0
         /\ retained' - Total(closed') - orphaned' = bytes - Total(cl) - orphaned
         /\ closed' # <<>> => retained' <= MaxTotalBytes
<1>1. PICK n \in 0 .. Len(cl) : \E F \in SUBSET (1 .. n) :
        /\ n < Len(cl) => bytes - Freed(cl, n, F) <= MaxTotalBytes
        /\ closed' = SubSeq(cl, n + 1, Len(cl))
        /\ retained' = bytes - Freed(cl, n, F)
        /\ orphaned' = orphaned + Total(SubSeq(cl, 1, n)) - Freed(cl, n, F)
  BY DEF Trim
<1>0. PICK F \in SUBSET (1 .. n) :
        /\ n < Len(cl) => bytes - Freed(cl, n, F) <= MaxTotalBytes
        /\ closed' = SubSeq(cl, n + 1, Len(cl))
        /\ retained' = bytes - Freed(cl, n, F)
        /\ orphaned' = orphaned + Total(SubSeq(cl, 1, n)) - Freed(cl, n, F)
  BY <1>1
<1> DEFINE a == Total(SubSeq(cl, 1, n))
           b == Total(SubSeq(cl, n + 1, Len(cl)))
           f == Freed(cl, n, F)
<1>2. /\ closed' \in Seq(Nat) /\ (n = Len(cl) <=> closed' = <<>>)
      /\ Total(cl) = a + b
  BY <1>0, TotalSplit
<1>3. f \in Nat /\ f <= a
  BY FreedIsBounded
<1>4. a \in Nat /\ b \in Nat
  BY TotalSplit, TotalTypes
<1>5. closed' # <<>> => n < Len(cl)
  BY <1>2
<1>6. retained' = bytes - f /\ orphaned' = orphaned + a - f /\ Total(closed') = b
  BY <1>0
<1> HIDE DEF a, b, f
<1>7. /\ retained' - Total(closed') - orphaned' = bytes - Total(cl) - orphaned
      /\ orphaned' \in Nat /\ retained' \in Int /\ (orphaned' = 0 => orphaned = 0)
  BY <1>2, <1>3, <1>4, <1>6
<1>8. QED
  BY <1>0, <1>2, <1>5, <1>7

(* The longest segment: one that the configured limit allows, or one that  *)
(* holds a single record.                                                  *)
LongestSegment == Larger(SegmentLimit, HeaderBytes + RecordHeader + MaxFrameBytes)

FramesFit ==
  /\ opc = "queue" => frame.len <= MaxFrameBytes
  /\ \A b \in Buffers : content[b].len <= MaxFrameBytes

(* The record being written fits the open segment, or is its first one.    *)
RecordFits == active = HeaderBytes \/ active + RecordBytes <= SegmentLimit

BytesBalance ==
  /\ closed \in Seq(Nat) /\ active \in Nat /\ orphaned \in Nat
  /\ retained = Total(closed) + active + orphaned

Books ==
  /\ BytesBalance /\ FramesFit
  /\ ~open => active = 0
  /\ active <= LongestSegment
  /\ opc # "off" /\ closed # <<>> => retained <= MaxTotalBytes
  /\ wpc \in {"off", "open"} => ~open
  /\ wpc = "write" => open /\ RecordFits

LEMMA SizeTypes ==
  /\ MaxTotalBytes \in Nat /\ SegmentLimit \in Nat /\ SegmentLimit <= MaxTotalBytes
  /\ HeaderBytes \in Nat /\ RecordHeader \in Nat /\ MaxFrameBytes \in Nat
  /\ LongestSegment \in Nat /\ SegmentLimit <= LongestSegment
  /\ HeaderBytes + RecordHeader + MaxFrameBytes <= LongestSegment
  /\ LongestSegment <= Larger(MaxTotalBytes, HeaderBytes + RecordHeader + MaxFrameBytes)
BY RecorderAssumption DEF SegmentLimit, LongestSegment, Larger

(* A step that trims the directory after adding some bytes to it.          *)
LEMMA TrimKeepsBalance ==
  ASSUME NEW cl \in Seq(Nat), NEW a \in Nat, orphaned \in Nat,
         Trim(cl, Total(cl) + a + orphaned), active' = a
  PROVE  BytesBalance' /\ (closed' # <<>> => retained' <= MaxTotalBytes)
<1> DEFINE bytes == Total(cl) + a + orphaned
<1>1. Total(cl) \in Nat /\ bytes \in Nat
  BY TotalTypes
<1>2. bytes - Total(cl) - orphaned = a
  BY <1>1
<1>3. Trim(cl, bytes)
  OBVIOUS
<1> HIDE DEF bytes
<1>4. /\ closed' \in Seq(Nat) /\ orphaned' \in Nat /\ retained' \in Int
      /\ retained' - Total(closed') - orphaned' = bytes - Total(cl) - orphaned
      /\ closed' # <<>> => retained' <= MaxTotalBytes
  BY <1>1, <1>3, TrimBalances
<1>5. Total(closed') \in Nat
  BY <1>4, TotalTypes
<1>6. retained' = Total(closed') + a + orphaned'
  BY <1>2, <1>4, <1>5
<1>7. QED
  BY <1>4, <1>6 DEF BytesBalance

LEMMA InitBooks == Init => Books
<1> SUFFICES ASSUME Init
             PROVE  Books
  OBVIOUS
<1>1. closed \in Seq(Nat) /\ Total(closed) \in Nat
  BY RecorderAssumption, TotalTypes DEF Init
<1>2. BytesBalance
  BY <1>1 DEF Init, BytesBalance
<1>3. FramesFit
  BY SizeTypes DEF Init, FramesFit, NoFrame
<1>4. QED
  BY <1>2, <1>3, SizeTypes DEF Init, Books

(* Closing a segment moves its bytes to the closed ones.                   *)
LEMMA CloseKeepsBooks ==
  ASSUME Books, CloseActive, opc' = opc, opc # "off"
  PROVE  /\ BytesBalance' /\ ~open' /\ active' = 0
         /\ closed' # <<>> => retained' <= MaxTotalBytes
<1>1. CASE ~open /\ UNCHANGED fileVars
  BY <1>1 DEF Books, BytesBalance, fileVars
<1>2. CASE /\ open
           /\ Trim(Append(closed, active), retained)
           /\ open' = FALSE /\ active' = 0
  <2>1. /\ Append(closed, active) \in Seq(Nat)
        /\ Total(Append(closed, active)) = Total(closed) + active
        /\ Total(closed) \in Nat /\ active \in Nat /\ orphaned \in Nat
    BY TotalAppend, TotalTypes DEF Books, BytesBalance
  <2>2. retained = Total(Append(closed, active)) + 0 + orphaned
    BY <2>1 DEF Books, BytesBalance
  <2>3. BytesBalance' /\ (closed' # <<>> => retained' <= MaxTotalBytes)
    BY <1>2, <2>1, <2>2, TrimKeepsBalance
  <2>4. QED
    BY <1>2, <2>3
<1>3. QED
  BY <1>1, <1>2 DEF CloseActive

LEMMA OwnerKeepsBooks ==
  ASSUME RecorderInvariant, Books, Owner
  PROVE  Books'
<1>1. CASE Start
  <2>1. /\ opc = "off" /\ ~open /\ active = 0 /\ active' = active /\ open' = open
        /\ wpc' = "wait" /\ opc' = "run" /\ content' = content
        /\ Trim(closed, retained)
    BY <1>1 DEF Start, RecorderInvariant, Control, Books
  <2>2. /\ closed \in Seq(Nat) /\ orphaned \in Nat /\ 0 \in Nat
        /\ retained = Total(closed) + 0 + orphaned
    BY <2>1 DEF Books, BytesBalance
  <2>3. BytesBalance' /\ (closed' # <<>> => retained' <= MaxTotalBytes)
    BY <2>1, <2>2, TrimKeepsBalance
  <2>4. FramesFit'
    BY <2>1 DEF Books, FramesFit
  <2>5. QED
    BY <2>1, <2>3, <2>4, SizeTypes DEF Books
<1>2. ASSUME UNCHANGED <<fileVars, batch, pos>>, opc # "off",
             wpc' = wpc \/ (wpc' = "wait" /\ wpc = "sleep"),
             FramesFit', wpc = "write" => RecordBytes' = RecordBytes
      PROVE  Books'
  <2>1. UNCHANGED <<open, active, closed, retained, orphaned>>
    BY <1>2 DEF fileVars
  <2>2. BytesBalance'
    BY <2>1 DEF Books, BytesBalance
  <2>3. wpc' = "write" => open' /\ RecordFits'
    BY <1>2, <2>1 DEF Books, RecordFits
  <2>4. wpc' \in {"off", "open"} => ~open'
    BY <1>2, <2>1 DEF Books
  <2>5. QED
    BY <1>2, <2>1, <2>2, <2>3, <2>4 DEF Books
<1>3. CASE \E len \in FrameLens : SubmitCheck(len)
  <2>1. PICK len \in FrameLens : SubmitCheck(len)
    BY <1>3
  <2>2. /\ UNCHANGED <<fileVars, batch, pos, content, wpc>> /\ opc = "run"
        /\ opc' = "queue" => frame'.len = len /\ ~(len > MaxFrameBytes)
    BY <2>1 DEF SubmitCheck, batchVars, queueVars
  <2>3. len \in Nat
    BY RecorderAssumption
  <2>4. FramesFit'
    BY <2>2, <2>3, SizeTypes DEF Books, FramesFit
  <2>5. QED
    BY <1>2, <2>2, <2>4 DEF RecordBytes
<1>4. CASE SubmitQueue
  <2>1. /\ UNCHANGED <<fileVars, batch, pos, wpc>> /\ opc = "queue" /\ opc' # "queue"
        /\ \/ content' = content
           \/ \E b \in free : content' = [content EXCEPT ![b] = frame]
    BY <1>4 DEF SubmitQueue, batchVars, queueVars
  <2>2. /\ free \subseteq Buffers /\ content \in [Buffers -> Frames] /\ batch \in Seq(Buffers)
        /\ free \intersect ToSet(batch) = {}
    BY DEF RecorderInvariant, TypeOK, BuffersConserved
  <2>3. FramesFit'
    BY <2>1, <2>2 DEF Books, FramesFit
  <2>4. ASSUME wpc = "write"
        PROVE  RecordBytes' = RecordBytes
    <3>1. pos + 1 \in 1 .. Len(batch)
      BY <2>4 DEF RecorderInvariant, Control, TypeOK
    <3>2. batch[pos + 1] \in ToSet(batch) /\ batch[pos + 1] \in Buffers
      BY <2>2, <3>1 DEF ToSet
    <3>3. content'[batch[pos + 1]] = content[batch[pos + 1]]
      BY <2>1, <2>2, <3>2
    <3>4. QED
      BY <2>1, <3>3 DEF RecordBytes
  <2>5. QED
    BY <1>2, <2>1, <2>3, <2>4
<1>5. CASE SubmitNotify \/ RequestStop \/ StopNotify \/ Join
  <2>1. /\ UNCHANGED <<fileVars, batch, pos, content>> /\ opc # "off" /\ opc' # "queue"
        /\ wpc' = wpc \/ (wpc' = "wait" /\ wpc = "sleep")
    BY <1>5 DEF SubmitNotify, RequestStop, StopNotify, Join, Wake, batchVars, queueVars
  <2>2. FramesFit'
    BY <2>1 DEF Books, FramesFit
  <2>3. QED
    BY <1>2, <2>1, <2>2 DEF RecordBytes
<1>6. QED
  BY <1>1, <1>3, <1>4, <1>5 DEF Owner, OwnerGoesOn

LEMMA WriterKeepsBooks ==
  ASSUME RecorderInvariant, Books, Writer
  PROVE  Books'
<1>1. /\ UNCHANGED <<opc, frame, content>> /\ opc # "off"
      /\ FramesFit'
  <2>1. UNCHANGED <<opc, frame, content>> /\ wpc # "off"
    BY DEF Writer, TakeBatch, EnsureSegment, OpenSegment, WriteRecord, GiveBack, Finish,
           RecordFailure, DrainOnFailure, ownerVars, queueVars
  <2>2. QED
    BY <2>1 DEF RecorderInvariant, Control, Books, FramesFit
<1>2. ASSUME UNCHANGED fileVars, wpc' \notin {"off", "open", "write"}
      PROVE  Books'
  <2>1. UNCHANGED <<open, active, closed, retained, orphaned>>
    BY <1>2 DEF fileVars
  <2>2. BytesBalance'
    BY <2>1 DEF Books, BytesBalance
  <2>3. QED
    BY <1>1, <1>2, <2>1, <2>2 DEF Books
<1>3. CASE TakeBatch \/ GiveBack \/ RecordFailure \/ DrainOnFailure
  <2>1. UNCHANGED fileVars /\ wpc' \notin {"off", "open", "write"}
    BY <1>3 DEF TakeBatch, GiveBack, RecordFailure, DrainOnFailure
  <2>2. QED
    BY <1>2, <2>1
<1>4. CASE EnsureSegment
  <2>1. UNCHANGED <<batch, pos>>
    BY <1>4 DEF EnsureSegment, batchVars
  <2>2. CASE /\ open /\ active + RecordBytes <= SegmentLimit
             /\ wpc' = "write" /\ UNCHANGED fileVars
    <3>1. UNCHANGED <<open, active, closed, retained, orphaned>>
      BY <2>2 DEF fileVars
    <3>2. BytesBalance'
      BY <3>1 DEF Books, BytesBalance
    <3>3. RecordFits'
      BY <1>1, <2>1, <2>2, <3>1 DEF RecordFits, RecordBytes
    <3>4. QED
      BY <1>1, <2>2, <3>1, <3>2, <3>3 DEF Books
  <2>3. CASE wpc' = "open" /\ CloseActive
    <3>1. /\ BytesBalance' /\ ~open' /\ active' = 0
          /\ closed' # <<>> => retained' <= MaxTotalBytes
      BY <1>1, <2>3, CloseKeepsBooks
    <3>2. QED
      BY <1>1, <2>3, <3>1, SizeTypes DEF Books
  <2>4. QED
    BY <1>4, <2>2, <2>3 DEF EnsureSegment
<1>5. CASE OpenSegment
  <2>1. CASE wpc' = "fail" /\ UNCHANGED fileVars
    BY <1>2, <2>1
  <2>2. CASE /\ wpc = "open" /\ wpc' = "write" /\ open' = TRUE /\ active' = HeaderBytes
             /\ Trim(closed, retained + HeaderBytes)
    <3>1. /\ closed \in Seq(Nat) /\ orphaned \in Nat /\ active = 0 /\ Total(closed) \in Nat
          /\ retained = Total(closed) + active + orphaned
      BY <2>2, TotalTypes DEF Books, BytesBalance
    <3>2. HeaderBytes \in Nat /\ retained + HeaderBytes = Total(closed) + HeaderBytes + orphaned
      BY <3>1, SizeTypes
    <3>3. BytesBalance' /\ (closed' # <<>> => retained' <= MaxTotalBytes)
      BY <2>2, <3>1, <3>2, TrimKeepsBalance
    <3>4. RecordFits' /\ active' <= LongestSegment
      BY <2>2, SizeTypes DEF RecordFits
    <3>5. QED
      BY <1>1, <2>2, <3>3, <3>4 DEF Books
  <2>3. QED
    BY <1>5, <2>1, <2>2 DEF OpenSegment
<1>6. CASE WriteRecord
  <2>1. CASE wpc' = "fail" /\ UNCHANGED fileVars
    BY <1>2, <2>1
  <2>2. CASE /\ wpc = "write" /\ active' = active + RecordBytes
             /\ Trim(closed, retained + RecordBytes)
             /\ wpc' = IF pos + 1 < Len(batch) THEN "ensure" ELSE "giveback"
             /\ UNCHANGED open
    <3>1. /\ closed \in Seq(Nat) /\ orphaned \in Nat /\ active \in Nat /\ Total(closed) \in Nat
          /\ retained = Total(closed) + active + orphaned
          /\ open /\ RecordFits
      BY <2>2, TotalTypes DEF Books, BytesBalance
    <3>2. RecordBytes \in Nat /\ RecordBytes <= RecordHeader + MaxFrameBytes
      <4>1. pos + 1 \in 1 .. Len(batch) /\ batch \in Seq(Buffers)
            /\ content \in [Buffers -> Frames]
        BY <2>2 DEF RecorderInvariant, Control, TypeOK
      <4>2. batch[pos + 1] \in Buffers
        BY <4>1
      <4>3. /\ content[batch[pos + 1]].len \in Nat
            /\ content[batch[pos + 1]].len <= MaxFrameBytes
        BY <4>1, <4>2 DEF Frames, Books, FramesFit
      <4>4. QED
        BY <4>3, SizeTypes DEF RecordBytes
    <3>3. /\ active + RecordBytes \in Nat
          /\ retained + RecordBytes = Total(closed) + (active + RecordBytes) + orphaned
      BY <3>1, <3>2
    <3>4. BytesBalance' /\ (closed' # <<>> => retained' <= MaxTotalBytes)
      BY <2>2, <3>1, <3>3, TrimKeepsBalance
    <3>5. active + RecordBytes <= LongestSegment
      <4>1. CASE active + RecordBytes <= SegmentLimit
        BY <3>3, <4>1, SizeTypes
      <4>2. CASE active = HeaderBytes
        BY <3>2, <4>2, SizeTypes
      <4>3. QED
        BY <3>1, <4>1, <4>2 DEF RecordFits
    <3>6. QED
      BY <1>1, <2>2, <3>1, <3>4, <3>5 DEF Books
  <2>3. QED
    BY <1>6, <2>1, <2>2 DEF WriteRecord
<1>7. CASE Finish
  <2>1. CloseActive /\ wpc' = "done"
    BY <1>7 DEF Finish
  <2>2. /\ BytesBalance' /\ ~open' /\ active' = 0
        /\ closed' # <<>> => retained' <= MaxTotalBytes
    BY <1>1, <2>1, CloseKeepsBooks
  <2>3. QED
    BY <1>1, <2>1, <2>2, SizeTypes DEF Books
<1>8. QED
  BY <1>3, <1>4, <1>5, <1>6, <1>7 DEF Writer

(* retained_bytes is what was written and not removed, and the directory   *)
(* stays under its limit - for every limit, every segment and frame size,  *)
(* whatever start() found, and whichever unlink, open or write fails.      *)
THEOREM RetentionHolds == Spec => []Retention
<1>1. RecorderInvariant /\ Books /\ [Next]_vars => Books'
  <2> SUFFICES ASSUME RecorderInvariant, Books, [Next]_vars
               PROVE  Books'
    OBVIOUS
  <2>1. CASE UNCHANGED vars
    BY <2>1 DEF Books, BytesBalance, FramesFit, RecordFits, RecordBytes, vars, ownerVars,
                queueVars, batchVars, fileVars
  <2>2. QED
    BY <2>1, OwnerKeepsBooks, WriterKeepsBooks DEF Next
<1>2. Books => Retention
  <2> SUFFICES ASSUME Books, opc # "off", orphaned = 0
               PROVE  retained <= Larger(MaxTotalBytes, HeaderBytes + RecordHeader + MaxFrameBytes)
    BY DEF Books, BytesBalance, Retention
  <2> DEFINE most == Larger(MaxTotalBytes, HeaderBytes + RecordHeader + MaxFrameBytes)
  <2>1. LongestSegment <= most /\ MaxTotalBytes <= most /\ most \in Nat
    BY SizeTypes DEF Larger
  <2>2. retained = Total(closed) + active /\ active \in Nat /\ Total(closed) \in Nat
    BY TotalTypes DEF Books, BytesBalance
  <2>3. CASE closed = <<>>
    <3>1. Total(closed) = 0 /\ active <= LongestSegment
      BY <2>3, TotalTypes DEF Books, BytesBalance
    <3> HIDE DEF most
    <3>2. QED
      BY <2>1, <2>2, <3>1, SizeTypes DEF most
  <2>4. CASE closed # <<>>
    <3>1. retained <= MaxTotalBytes
      BY <2>4 DEF Books
    <3> HIDE DEF most
    <3>2. QED
      BY <2>1, <2>2, <3>1, SizeTypes DEF most
  <2>5. QED
    BY <2>3, <2>4
<1>3. QED
  BY <1>1, <1>2, InitBooks, RecorderInvariantHolds, PTL DEF Spec
=============================================================================
