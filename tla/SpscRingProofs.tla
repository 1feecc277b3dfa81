--------------------------- MODULE SpscRingProofs ---------------------------
(***************************************************************************)
(* Proofs about SpscRing for every capacity and every set of elements: the *)
(* invariant, the absence of a slot race, and the refinement of            *)
(* BoundedFifo.                                                            *)
(***************************************************************************)
EXTENDS SpscRing, TLAPS, SequenceTheorems

(* Index arithmetic: one step forward of either index changes the          *)
(* distance between them by one, unless it runs into the other.            *)
LEMMA SuccInIndex == \A i \in Index : Succ(i) \in Index
  BY RingAssumption DEF Index, Succ

LEMMA SizeBounds ==
  \A t, h \in Index : /\ Size(t, h) \in Int
                      /\ 0 <= Size(t, h) /\ Size(t, h) <= Mask
                      /\ Size(t, h) = 0 <=> t = h
                      /\ Size(t, h) = Mask <=> Succ(h) = t
  BY RingAssumption DEF Index, Succ, Size

LEMMA SizeGrows ==
  \A t, h \in Index : Succ(h) # t => Size(t, Succ(h)) = Size(t, h) + 1
  BY RingAssumption DEF Index, Succ, Size

LEMMA SizeShrinks ==
  \A t, h \in Index : t # h => Size(Succ(t), h) = Size(t, h) - 1
  BY RingAssumption DEF Index, Succ, Size

(* What the cached index promises: room seen through a stale tail is room, *)
(* an element seen through a stale head is there.                          *)
LEMMA RoomIsReal ==
  \A t, tc, h \in Index : Size(t, h) <= Size(tc, h) /\ Succ(h) # tc => Succ(h) # t
  BY RingAssumption, SizeBounds

LEMMA ElementIsReal ==
  \A t, h, hc \in Index : Size(t, hc) <= Size(t, h) /\ t # hc => t # h
  BY RingAssumption, SizeBounds

LEMMA IndexTypes ==
  TypeOK => head \in Index /\ tail \in Index /\ headCached \in Index /\ tailCached \in Index
  BY DEF TypeOK

-----------------------------------------------------------------------------
LEMMA InitInvariant == Init => RingInvariant
  BY RingAssumption
  DEF Init, RingInvariant, TypeOK, CachedIndicesConservative, Index, Size

LEMMA ProducerInvariant == RingInvariant /\ Producer => RingInvariant'
<1> SUFFICES ASSUME RingInvariant, Producer PROVE RingInvariant'
  OBVIOUS
<1> USE RingAssumption DEF RingInvariant, consumerVars
<1>1. ASSUME NEW v \in Values, PushBegin(v) PROVE RingInvariant'
  BY <1>1 DEF PushBegin, TypeOK, CachedIndicesConservative
<1>2. CASE PushReload
  <2>1. TypeOK'
    BY <1>2 DEF PushReload, TypeOK
  <2>2. CachedIndicesConservative'
    BY <1>2 DEF PushReload, TypeOK, CachedIndicesConservative, Size, Index
  <2>3. QED
    BY <1>2, <2>1, <2>2 DEF PushReload, TypeOK
<1>3. CASE PushWrite
  <2>1. TypeOK'
    BY <1>3 DEF PushWrite, TypeOK
  <2>2. popPc = "publish" => head # tail
    BY IndexTypes, ElementIsReal DEF CachedIndicesConservative
  <2>3. CachedIndicesConservative'
    BY <1>3 DEF PushWrite, CachedIndicesConservative
  <2>4. QED
    BY <1>3, <2>1, <2>2, <2>3 DEF PushWrite, TypeOK
<1>4. CASE PushPublish
  <2>1. TypeOK'
    BY <1>4, SuccInIndex DEF PushPublish, TypeOK
  <2>2. Succ(head) # tail
    BY <1>4, IndexTypes, RoomIsReal DEF PushPublish, CachedIndicesConservative
  <2>3. CachedIndicesConservative'
    <3>1. Size(tail, Succ(head)) = Size(tail, head) + 1
      BY <2>2, IndexTypes, SizeGrows
    <3>2. Size(tailCached, Succ(head)) = Size(tailCached, head) + 1
      BY <1>4, IndexTypes, SizeGrows DEF PushPublish
    <3>3. Size(tailCached, head) \in Int /\ Size(tail, head) \in Int /\ Size(tail, headCached) \in Int
      BY IndexTypes, SizeBounds
    <3>4. QED
      BY <1>4, <3>1, <3>2, <3>3 DEF PushPublish, CachedIndicesConservative
  <2>4. QED
    BY <1>4, <2>1, <2>3 DEF PushPublish, TypeOK
<1>5. QED
  BY <1>1, <1>2, <1>3, <1>4 DEF Producer

LEMMA ConsumerInvariant == RingInvariant /\ Consumer => RingInvariant'
<1> SUFFICES ASSUME RingInvariant, Consumer PROVE RingInvariant'
  OBVIOUS
<1> USE RingAssumption DEF RingInvariant, producerVars
<1>1. CASE PopBegin
  BY <1>1 DEF PopBegin, TypeOK, CachedIndicesConservative
<1>2. CASE PopReload
  <2>1. TypeOK'
    BY <1>2 DEF PopReload, TypeOK
  <2>2. CachedIndicesConservative'
    BY <1>2 DEF PopReload, TypeOK, CachedIndicesConservative, Size, Index
  <2>3. QED
    BY <1>2, <2>1, <2>2 DEF PopReload, TypeOK
<1>3. CASE PopRead
  BY <1>3 DEF PopRead, TypeOK, CachedIndicesConservative
<1>4. CASE PopPublish
  <2>1. TypeOK'
    BY <1>4, SuccInIndex DEF PopPublish, TypeOK
  <2>2. tail # head
    BY <1>4, IndexTypes, ElementIsReal DEF PopPublish, CachedIndicesConservative
  <2>3. CachedIndicesConservative'
    <3>1. Size(Succ(tail), head) = Size(tail, head) - 1
      BY <2>2, IndexTypes, SizeShrinks
    <3>2. Size(Succ(tail), headCached) = Size(tail, headCached) - 1
      BY <1>4, IndexTypes, SizeShrinks DEF PopPublish
    <3>3. Size(tailCached, head) \in Int /\ Size(tail, head) \in Int /\ Size(tail, headCached) \in Int
      BY IndexTypes, SizeBounds
    <3>4. QED
      BY <1>4, <3>1, <3>2, <3>3 DEF PopPublish, CachedIndicesConservative
  <2>4. QED
    BY <1>4, <2>1, <2>3 DEF PopPublish, TypeOK
<1>5. QED
  BY <1>1, <1>2, <1>3, <1>4 DEF Consumer

(* The ring's invariant holds for every capacity: the cached indices never *)
(* make push() overwrite or pop() read an unpublished slot.                *)
THEOREM RingInvariantHolds == Spec => []RingInvariant
<1>1. RingInvariant /\ [Next]_vars => RingInvariant'
  <2> SUFFICES ASSUME RingInvariant, [Next]_vars PROVE RingInvariant'
    OBVIOUS
  <2>1. CASE UNCHANGED vars
    BY <2>1 DEF vars, producerVars, consumerVars, RingInvariant, TypeOK,
                CachedIndicesConservative
  <2>2. QED
    BY <2>1, ProducerInvariant, ConsumerInvariant DEF Next
<1>2. QED
  BY InitInvariant, <1>1, PTL DEF Spec

(* The producer's slot and the consumer's slot are never the same while    *)
(* both are being accessed.                                                *)
THEOREM NoSlotRaceHolds == Spec => []NoSlotRace
<1>1. RingInvariant => NoSlotRace
  BY IndexTypes, ElementIsReal DEF RingInvariant, NoSlotRace, CachedIndicesConservative
<1>2. QED
  BY <1>1, RingInvariantHolds, PTL

-----------------------------------------------------------------------------
(* The refinement: Contents, as each operation's linearization step sees   *)
(* it.                                                                     *)
LEMMA SlotFacts ==
  ASSUME NEW i \in Index
  PROVE  /\ Slot(i, 0) = i
         /\ \A k \in 0 .. Mask : Slot(i, k) \in Index
         /\ \A k \in 0 .. Mask - 1 : Slot(Succ(i), k) = Slot(i, k + 1)
         /\ \A j \in Index : Slot(i, Size(i, j)) = j
         /\ \A j \in Index : \A k \in 0 .. Mask : k # Size(i, j) => Slot(i, k) # j
  BY RingAssumption DEF Index, Slot, Succ, Size

LEMMA ContentsLen ==
  TypeOK => Len(Contents) = Size(tail, head) /\ Contents \in Seq(Values \cup {Empty})
<1> SUFFICES ASSUME TypeOK
             PROVE  Len(Contents) = Size(tail, head) /\ Contents \in Seq(Values \cup {Empty})
  OBVIOUS
<1>1. Size(tail, head) \in Nat /\ Size(tail, head) <= Mask
  BY IndexTypes, SizeBounds
<1>2. \A k \in 1 .. Size(tail, head) : buf[Slot(tail, k - 1)] \in Values \cup {Empty}
  <2> SUFFICES ASSUME NEW k \in 1 .. Size(tail, head)
               PROVE  buf[Slot(tail, k - 1)] \in Values \cup {Empty}
    OBVIOUS
  <2>1. k - 1 \in 0 .. Mask
    BY <1>1, RingAssumption
  <2>2. Slot(tail, k - 1) \in Index
    BY <2>1, IndexTypes, SlotFacts
  <2>3. QED
    BY <2>2 DEF TypeOK
<1>3. QED
  BY <1>1, <1>2 DEF Contents

LEMMA PushAppends ==
  ASSUME RingInvariant, PushPublish
  PROVE  Contents' = Append(Contents, value) /\ Len(Contents) < Mask
<1> DEFINE n == Size(tail, head)
<1>1. n \in Nat /\ n < Mask /\ Size(tail, head') = n + 1
  <2>1. Succ(head) # tail
    BY IndexTypes, RoomIsReal DEF RingInvariant, PushPublish, CachedIndicesConservative
  <2>2. QED
    BY <2>1, IndexTypes, SizeBounds, SizeGrows, RingAssumption DEF RingInvariant, PushPublish
<1>2. Contents' = [k \in 1 .. n + 1 |-> buf[Slot(tail, k - 1)]]
  BY <1>1 DEF PushPublish, consumerVars, Contents
<1>3. Len(Contents) = n /\ Contents \in Seq(Values \cup {Empty})
  BY ContentsLen DEF RingInvariant
<1>4. buf[Slot(tail, n)] = value
  BY IndexTypes, SlotFacts DEF RingInvariant, PushPublish
<1>5. Append(Contents, value) = [k \in 1 .. n + 1 |-> IF k = n + 1 THEN value ELSE Contents[k]]
  <2> DEFINE A == Append(Contents, value)
  <2>1. value \in Values \cup {Empty}
    BY DEF RingInvariant, TypeOK
  <2>2. /\ A \in Seq(Values \cup {Empty}) /\ Len(A) = n + 1
        /\ \A k \in 1 .. n : A[k] = Contents[k]
        /\ A[n + 1] = value
    BY <1>3, <2>1, AppendProperties
  <2>3. A \in [1 .. n + 1 -> Values \cup {Empty}]
    BY <2>2, LenProperties
  <2>4. \A k \in 1 .. n + 1 : A[k] = IF k = n + 1 THEN value ELSE Contents[k]
    BY <2>2, <1>1
  <2>5. QED
    BY <2>3, <2>4
<1>6. ASSUME NEW k \in 1 .. n + 1
      PROVE  buf[Slot(tail, k - 1)] = IF k = n + 1 THEN value ELSE Contents[k]
  <2>1. CASE k = n + 1
    <3>1. k - 1 = n
      BY <1>1, <2>1
    <3>2. QED
      BY <1>4, <2>1, <3>1
  <2>2. CASE k # n + 1
    <3>1. k \in 1 .. n
      BY <1>1, <2>2
    <3>2. QED
      BY <2>2, <3>1 DEF Contents
  <2>3. QED
    BY <2>1, <2>2
<1>7. QED
  BY <1>1, <1>2, <1>3, <1>5, <1>6

LEMMA PopRemoves ==
  ASSUME RingInvariant, PopPublish
  PROVE  Contents # <<>> /\ Contents' = Tail(Contents) /\ out = Head(Contents)
<1> DEFINE n == Size(tail, head)
<1>1. n \in Nat /\ 0 < n /\ n <= Mask /\ Size(Succ(tail), head) = n - 1
  <2>1. tail # head
    BY IndexTypes, ElementIsReal DEF RingInvariant, PopPublish, CachedIndicesConservative
  <2>2. QED
    BY <2>1, IndexTypes, SizeBounds, SizeShrinks, RingAssumption DEF RingInvariant
<1>2. Len(Contents) = n /\ Contents \in Seq(Values \cup {Empty})
  BY ContentsLen DEF RingInvariant
<1>3. Contents' = [k \in 1 .. n - 1 |-> buf[Slot(Succ(tail), k - 1)]]
  BY <1>1 DEF PopPublish, producerVars, Contents
<1>4. Tail(Contents) = [k \in 1 .. n - 1 |-> Contents[k + 1]]
  <2> DEFINE T == Tail(Contents)
  <2>1. Contents # <<>>
    BY <1>1, <1>2
  <2>2. /\ T \in Seq(Values \cup {Empty}) /\ Len(T) = n - 1
        /\ \A k \in 1 .. n - 1 : T[k] = Contents[k + 1]
    BY <1>2, <2>1, HeadTailProperties
  <2>3. T \in [1 .. n - 1 -> Values \cup {Empty}]
    BY <2>2, LenProperties
  <2>4. QED
    BY <2>2, <2>3
<1>5. ASSUME NEW k \in 1 .. n - 1
      PROVE  buf[Slot(Succ(tail), k - 1)] = Contents[k + 1]
  <2>1. k - 1 \in 0 .. Mask - 1 /\ (k - 1) + 1 = k /\ k + 1 \in 1 .. n /\ (k + 1) - 1 = k
    BY <1>1, RingAssumption
  <2>2. Slot(Succ(tail), k - 1) = Slot(tail, k)
    BY <2>1, IndexTypes, SlotFacts DEF RingInvariant
  <2>3. Contents[k + 1] = buf[Slot(tail, k)]
    BY <2>1 DEF Contents
  <2>4. QED
    BY <2>2, <2>3
<1>6. Contents[1] = buf[tail]
  <2>1. 1 \in 1 .. n /\ 1 - 1 = 0
    BY <1>1
  <2>2. Contents[1] = buf[Slot(tail, 0)]
    BY <2>1 DEF Contents
  <2>3. QED
    BY <2>2, IndexTypes, SlotFacts DEF RingInvariant
<1>7. Head(Contents) = Contents[1] /\ Contents # <<>>
  BY <1>1, <1>2
<1>8. QED
  BY <1>3, <1>4, <1>5, <1>6, <1>7 DEF RingInvariant, PopPublish

(* Every step that does not publish an index leaves Contents alone, the    *)
(* producer's write included: its slot lies beyond the last element.       *)
LEMMA WriteHidden ==
  ASSUME RingInvariant, PushWrite
  PROVE  Contents' = Contents
<1> DEFINE n == Size(tail, head)
<1>1. n \in Nat /\ n <= Mask
  BY IndexTypes, SizeBounds DEF RingInvariant
<1>2. ASSUME NEW k \in 1 .. n
      PROVE  buf'[Slot(tail, k - 1)] = buf[Slot(tail, k - 1)]
  <2>1. k - 1 \in 0 .. Mask /\ k - 1 # n
    BY <1>1, RingAssumption
  <2>2. Slot(tail, k - 1) \in Index /\ Slot(tail, k - 1) # head
    BY <2>1, IndexTypes, SlotFacts DEF RingInvariant
  <2>3. QED
    BY <2>2 DEF PushWrite, RingInvariant, TypeOK
<1>3. QED
  BY <1>2 DEF PushWrite, consumerVars, Contents

(* The ring implements the bounded FIFO: push() and pop() of SpscRing are  *)
(* Push / PushFull and Pop / PopEmpty of BoundedFifo, or stutter.          *)
THEOREM RingImplementsFifo == Spec => ImplementsFifo
<1>1. Init => Fifo!Init
  <2> SUFFICES ASSUME Init PROVE Fifo!Init
    OBVIOUS
  <2>1. Size(tail, head) = 0
    BY DEF Init, Size
  <2>2. Contents = <<>>
    BY <2>1 DEF Contents
  <2>3. QED
    BY <2>2 DEF Init, Fifo!Init
<1>2. RingInvariant /\ [Next]_vars => [Fifo!Next]_(Fifo!fifoVars)
  <2> SUFFICES ASSUME RingInvariant, [Next]_vars PROVE [Fifo!Next]_(Fifo!fifoVars)
    OBVIOUS
  <2> USE DEF Fifo!Next, Fifo!fifoVars
  <2>1. ASSUME UNCHANGED <<buf, head, tail>> PROVE UNCHANGED Contents
    BY <2>1 DEF Contents
  <2>2. ASSUME NEW v \in Values, PushBegin(v) PROVE UNCHANGED Fifo!fifoVars
    BY <2>1, <2>2 DEF PushBegin, consumerVars
  <2>3. CASE PushReload
    <3>1. UNCHANGED <<Contents, popResult>>
      BY <2>1, <2>3 DEF PushReload, consumerVars
    <3>2. CASE Succ(head) = tail
      <4>1. Len(Contents) = Mask
        BY <3>2, ContentsLen, IndexTypes, SizeBounds DEF RingInvariant
      <4>2. QED
        BY <2>3, <3>1, <3>2, <4>1 DEF PushReload, Fifo!PushFull
    <3>3. CASE Succ(head) # tail
      BY <2>3, <3>1, <3>3 DEF PushReload
    <3>4. QED
      BY <3>2, <3>3
  <2>4. CASE PushWrite
    BY <2>4, WriteHidden DEF PushWrite, consumerVars
  <2>5. CASE PushPublish
    <3>1. value \in Values
      BY <2>5 DEF PushPublish, RingInvariant
    <3>2. Fifo!Push(value)
      BY <2>5, PushAppends DEF PushPublish, consumerVars, Fifo!Push
    <3>3. QED
      BY <3>1, <3>2
  <2>6. CASE PopBegin
    BY <2>1, <2>6 DEF PopBegin, producerVars
  <2>7. CASE PopReload
    <3>1. UNCHANGED <<Contents, pushResult>>
      BY <2>1, <2>7 DEF PopReload, producerVars
    <3>2. CASE tail = head
      <4>1. Size(tail, head) = 0
        BY <3>2, IndexTypes, SizeBounds DEF RingInvariant
      <4>2. Contents = <<>>
        BY <4>1 DEF Contents
      <4>3. QED
        BY <2>7, <3>1, <3>2, <4>2 DEF PopReload, Fifo!PopEmpty
    <3>3. CASE tail # head
      BY <2>7, <3>1, <3>3 DEF PopReload
    <3>4. QED
      BY <3>2, <3>3
  <2>8. CASE PopRead
    BY <2>1, <2>8 DEF PopRead, producerVars
  <2>9. CASE PopPublish
    <3>1. Fifo!Pop
      BY <2>9, PopRemoves DEF PopPublish, producerVars, Fifo!Pop
    <3>2. QED
      BY <3>1
  <2>10. CASE UNCHANGED vars
    BY <2>1, <2>10 DEF vars, producerVars, consumerVars
  <2>11. QED
    BY <2>2, <2>3, <2>4, <2>5, <2>6, <2>7, <2>8, <2>9, <2>10 DEF Next, Producer, Consumer
<1>3. QED
  BY <1>1, <1>2, RingInvariantHolds, PTL DEF Spec, ImplementsFifo, Fifo!Spec
=============================================================================
