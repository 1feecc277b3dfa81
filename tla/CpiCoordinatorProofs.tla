------------------------ MODULE CpiCoordinatorProofs ------------------------
(***************************************************************************)
(* Proofs about CpiContext.tla and CpiCoordinator.tla, for any number of   *)
(* PRTs, channels, packets and contexts, any ring and any network: writing *)
(* a packet keeps the counters of a CPI in agreement with its bitmap, no   *)
(* context of the pool is lost, what the consumer is told is true when     *)
(* every CPI is bound to a number of PRTs, and - as long as the network    *)
(* keeps the CPIs in order - a CPI is decided once and keeps the number of *)
(* PRTs that a control packet bound it to.                                 *)
(***************************************************************************)
EXTENDS CpiCoordinator, FiniteSetTheorems, TLAPS

-----------------------------------------------------------------------------
(* The data of one CPI *)

ChannelIds == 0 .. Channels - 1
Indices == 1 .. Packets

LEMMA Finiteness ==
  /\ Channels \in Nat \ {0} /\ Packets \in Nat \ {0} /\ MaxPrt \in Nat \ {0}
  /\ IsFiniteSet(Prts) /\ Cardinality(Prts) = MaxPrt
  /\ IsFiniteSet(ChannelIds) /\ Cardinality(ChannelIds) = Channels
  /\ IsFiniteSet(Indices) /\ Cardinality(Indices) = Packets
<1>1. Channels \in Nat \ {0} /\ Packets \in Nat \ {0} /\ MaxPrt \in Nat \ {0}
  BY ContextAssumption
<1>2. IsFiniteSet(Prts) /\ Cardinality(Prts) = MaxPrt
  BY <1>1, FS_Interval DEF Prts
<1>3. IsFiniteSet(Indices) /\ Cardinality(Indices) = Packets
  BY <1>1, FS_Interval DEF Indices
<1>4. IsFiniteSet(ChannelIds) /\ Cardinality(ChannelIds) = (Channels - 1) - 0 + 1
  <2>1. /\ IsFiniteSet(0 .. Channels - 1)
        /\ Cardinality(0 .. Channels - 1)
             = IF 0 > Channels - 1 THEN 0 ELSE (Channels - 1) - 0 + 1
    BY <1>1, FS_Interval
  <2>2. QED
    BY <1>1, <2>1 DEF ChannelIds
<1>5. QED
  BY <1>1, <1>2, <1>3, <1>4

(* Slots are triples.                                                      *)
LEMMA SlotsAreTriples ==
  ASSUME NEW n \in Nat
  PROVE  /\ \A s \in SlotsOf(n) :
              s[1] \in 1 .. n /\ s[2] \in ChannelIds /\ s[3] \in Indices /\ s = <<s[1], s[2], s[3]>>
         /\ \A p, ch, i : <<p, ch, i>> \in SlotsOf(n)
              <=> p \in 1 .. n /\ ch \in ChannelIds /\ i \in Indices
BY DEF SlotsOf, ChannelIds, Indices

(* The slots of n PRTs are n times those of one.                           *)
LEMMA SlotsAreFinite ==
  ASSUME NEW n \in Nat
  PROVE  IsFiniteSet(SlotsOf(n)) /\ Cardinality(SlotsOf(n)) = n * Channels * Packets
<1> DEFINE P == ((1 .. n) \X ChannelIds) \X Indices
           f == [t \in P |-> <<t[1][1], t[1][2], t[2]>>]
<1>1. IsFiniteSet(1 .. n) /\ Cardinality(1 .. n) = n
  BY FS_Interval
<1>2. /\ IsFiniteSet((1 .. n) \X ChannelIds)
      /\ Cardinality((1 .. n) \X ChannelIds) = n * Channels
  BY <1>1, Finiteness, FS_Product
<1>3. IsFiniteSet(P) /\ Cardinality(P) = n * Channels * Packets
  BY <1>2, Finiteness, FS_Product
<1>4. \A t \in P : /\ t[1][1] \in 1 .. n /\ t[1][2] \in ChannelIds /\ t[2] \in Indices
                   /\ t = << <<t[1][1], t[1][2]>>, t[2]>>
  OBVIOUS
<1>5. f \in [P -> SlotsOf(n)]
  BY <1>4, SlotsAreTriples
<1>6. f \in Injection(P, SlotsOf(n))
  <2>1. \A t, u \in P : f[t] = f[u] => t[1][1] = u[1][1] /\ t[1][2] = u[1][2] /\ t[2] = u[2]
    OBVIOUS
  <2>2. \A t, u \in P : f[t] = f[u] => t = u
    BY <1>4, <2>1
  <2>3. QED
    BY <1>5, <2>2 DEF Injection, IsInjective
<1>7. f \in Surjection(P, SlotsOf(n))
  <2> SUFFICES ASSUME NEW s \in SlotsOf(n)
               PROVE  \E t \in P : f[t] = s
    BY <1>5 DEF Surjection
  <2>1. /\ s[1] \in 1 .. n /\ s[2] \in ChannelIds /\ s[3] \in Indices
        /\ s = <<s[1], s[2], s[3]>>
    BY SlotsAreTriples
  <2>2. << <<s[1], s[2]>>, s[3]>> \in P
    BY <2>1
  <2>3. f[<< <<s[1], s[2]>>, s[3]>>] = s
    BY <2>1, <2>2
  <2>4. QED
    BY <2>2, <2>3
<1>8. ExistsBijection(P, SlotsOf(n))
  BY <1>6, <1>7 DEF ExistsBijection, Bijection
<1> HIDE DEF P, f
<1>9. QED
  BY <1>3, <1>8, FS_Bijection

-----------------------------------------------------------------------------
(* The packets of a channel *)

(* The packets of channel ch of PRT p among the given slots.               *)
Present(slots, p, ch) == {i \in Indices : <<p, ch, i>> \in slots}

(* ch_recv_count is the number of packets present; the channel is full if  *)
(* none is missing.                                                        *)
LEMMA ChannelCountIsPresent ==
  ASSUME NEW ctx \in Contexts, NEW p, NEW ch
  PROVE  /\ IsFiniteSet(Present(ctx.slots, p, ch))
         /\ ChannelCount(ctx, p, ch) = Cardinality(Present(ctx.slots, p, ch))
         /\ ChannelCount(ctx, p, ch) \in 0 .. Packets
         /\ ChannelCount(ctx, p, ch) = Packets <=> Present(ctx.slots, p, ch) = Indices
<1> DEFINE I == Present(ctx.slots, p, ch)
           S == {s \in ctx.slots : s[1] = p /\ s[2] = ch}
           f == [i \in I |-> <<p, ch, i>>]
<1>1. I \subseteq Indices
  BY DEF Present
<1>2. IsFiniteSet(I) /\ Cardinality(I) <= Packets /\ (Cardinality(I) = Packets => I = Indices)
  BY <1>1, Finiteness, FS_Subset
<1>3. \A s \in S : s = <<p, ch, s[3]>> /\ s[3] \in I
  BY Finiteness, SlotsAreTriples DEF Contexts, Present
<1>4. \A i \in I : f[i] \in S
  BY DEF Present
<1>5. f \in [I -> S]
  BY <1>4
<1>6. f \in Injection(I, S)
  BY <1>5 DEF Injection, IsInjective
<1>7. f \in Surjection(I, S)
  BY <1>3, <1>5 DEF Surjection
<1>8. ExistsBijection(I, S)
  BY <1>6, <1>7 DEF ExistsBijection, Bijection
<1> HIDE DEF I, S, f
<1>9. Cardinality(S) = Cardinality(I)
  BY <1>2, <1>8, FS_Bijection
<1>10. Cardinality(I) \in Nat
  BY <1>2, FS_CardinalityType
<1>11. ChannelCount(ctx, p, ch) = Cardinality(I)
  BY <1>9 DEF ChannelCount, S
<1>12. QED
  BY <1>2, <1>10, <1>11, Finiteness DEF I

-----------------------------------------------------------------------------
(* Writing a packet *)

DataPacketRecord ==
  [cpi : Ids, prt : Nat, channel : Nat, index : Nat, tail : BOOLEAN]

(* The channel of pkt is full once pkt is stored.                          *)
Fills(ctx, pkt) == ChannelCount(Written(ctx, pkt), pkt.prt, pkt.channel) = Packets

LEMMA WrittenFields ==
  ASSUME NEW ctx \in Contexts, NEW pkt \in DataPacketRecord, FirstWrite(ctx, pkt)
  PROVE  /\ pkt.prt \in Prts /\ pkt.channel \in ChannelIds /\ pkt.index \in Indices
         /\ Written(ctx, pkt) \in Contexts
         /\ Written(ctx, pkt).cpi = ctx.cpi /\ Written(ctx, pkt).control = ctx.control
         /\ Written(ctx, pkt).slots = ctx.slots \cup {Coordinate(pkt)}
         /\ Written(ctx, pkt).received = ctx.received + 1
         /\ Written(ctx, pkt).observed = IF pkt.prt > ctx.observed THEN pkt.prt ELSE ctx.observed
         /\ Written(ctx, pkt).readyChannels = ctx.readyChannels
         /\ Written(ctx, pkt).complete = ctx.complete
         /\ Written(ctx, pkt).readyPrts = ctx.readyPrts
         /\ Written(ctx, pkt).tails = ctx.tails
         /\ ExpectedPrts(ctx) > 0 => pkt.prt <= ExpectedPrts(ctx)
<1>1. /\ pkt.prt \in 1 .. MaxPrt /\ pkt.channel \in ChannelIds /\ pkt.index \in Indices
      /\ Coordinate(pkt) \in SlotsOf(MaxPrt)
  BY Finiteness, SlotsAreTriples DEF FirstWrite, Writable, Coordinate
<1>2. /\ Written(ctx, pkt).cpi = ctx.cpi /\ Written(ctx, pkt).control = ctx.control
      /\ Written(ctx, pkt).slots = ctx.slots \cup {Coordinate(pkt)}
      /\ Written(ctx, pkt).received = ctx.received + 1
      /\ Written(ctx, pkt).observed = IF pkt.prt > ctx.observed THEN pkt.prt ELSE ctx.observed
      /\ Written(ctx, pkt).readyChannels = ctx.readyChannels
      /\ Written(ctx, pkt).complete = ctx.complete
      /\ Written(ctx, pkt).readyPrts = ctx.readyPrts
      /\ Written(ctx, pkt).tails = ctx.tails
  BY DEF Written, Contexts
<1>3. Written(ctx, pkt) \in Contexts
  <2>1. /\ ctx.slots \cup {Coordinate(pkt)} \in SUBSET SlotsOf(MaxPrt)
        /\ ctx.received + 1 \in Nat
        /\ (IF pkt.prt > ctx.observed THEN pkt.prt ELSE ctx.observed) \in 0 .. MaxPrt
    BY <1>1, Finiteness DEF Contexts
  <2>2. QED
    BY <2>1 DEF Written, Contexts
<1>4. QED
  BY <1>1, <1>2, <1>3 DEF Prts, FirstWrite, Writable

(* One packet more in its channel, no change in the others.                *)
LEMMA WrittenCounts ==
  ASSUME NEW ctx \in Contexts, NEW pkt \in DataPacketRecord, FirstWrite(ctx, pkt)
  PROVE  /\ ChannelCount(ctx, pkt.prt, pkt.channel) # Packets
         /\ \A p \in Prts, ch \in ChannelIds : p # pkt.prt \/ ch # pkt.channel =>
              ChannelCount(Written(ctx, pkt), p, ch) = ChannelCount(ctx, p, ch)
<1> DEFINE w == Written(ctx, pkt)
<1>1. /\ w \in Contexts /\ w.slots = ctx.slots \cup {Coordinate(pkt)}
      /\ pkt.prt \in Prts /\ pkt.channel \in ChannelIds /\ pkt.index \in Indices
  BY WrittenFields
<1>2. ChannelCount(ctx, pkt.prt, pkt.channel) # Packets
  <2>1. pkt.index \notin Present(ctx.slots, pkt.prt, pkt.channel)
    BY DEF Present, FirstWrite, Coordinate
  <2>2. QED
    BY <1>1, <2>1, ChannelCountIsPresent
<1> HIDE DEF w
<1>3. ASSUME NEW p \in Prts, NEW ch \in ChannelIds, p # pkt.prt \/ ch # pkt.channel
      PROVE  ChannelCount(w, p, ch) = ChannelCount(ctx, p, ch)
  <2>1. Present(w.slots, p, ch) = Present(ctx.slots, p, ch)
    BY <1>1, <1>3 DEF Present, Coordinate
  <2>2. QED
    BY <1>1, <2>1, ChannelCountIsPresent
<1>4. QED
  BY <1>2, <1>3 DEF w

LEMMA StoredFields ==
  ASSUME NEW ctx \in Contexts, NEW pkt \in DataPacketRecord, FirstWrite(ctx, pkt)
  PROVE  LET st == Stored(ctx, pkt)
             ready == ctx.readyChannels[pkt.prt] + (IF Fills(ctx, pkt) THEN 1 ELSE 0)
             completes == ready = Channels /\ pkt.prt \notin ctx.complete
         IN  /\ st \in Contexts
             /\ st.cpi = ctx.cpi /\ st.control = ctx.control
             /\ st.slots = ctx.slots \cup {Coordinate(pkt)}
             /\ st.received = ctx.received + 1
             /\ st.observed = IF pkt.prt > ctx.observed THEN pkt.prt ELSE ctx.observed
             /\ st.readyChannels = [ctx.readyChannels EXCEPT ![pkt.prt] = ready]
             /\ st.complete = IF completes THEN ctx.complete \cup {pkt.prt} ELSE ctx.complete
             /\ st.readyPrts = IF completes THEN ctx.readyPrts + 1 ELSE ctx.readyPrts
<1> DEFINE w == Written(ctx, pkt)
           ready == ctx.readyChannels[pkt.prt] + (IF Fills(ctx, pkt) THEN 1 ELSE 0)
           completes == ready = Channels /\ pkt.prt \notin ctx.complete
           st == Stored(ctx, pkt)
<1>1. /\ w \in Contexts /\ pkt.prt \in Prts
      /\ w.cpi = ctx.cpi /\ w.control = ctx.control
      /\ w.slots = ctx.slots \cup {Coordinate(pkt)}
      /\ w.received = ctx.received + 1
      /\ w.observed = IF pkt.prt > ctx.observed THEN pkt.prt ELSE ctx.observed
      /\ w.readyChannels = ctx.readyChannels /\ w.complete = ctx.complete
      /\ w.readyPrts = ctx.readyPrts /\ w.tails = ctx.tails
  BY WrittenFields
<1>2. st = [w EXCEPT
         !.readyChannels[pkt.prt] = ready,
         !.complete = IF completes THEN @ \cup {pkt.prt} ELSE @,
         !.readyPrts = IF completes THEN @ + 1 ELSE @,
         !.tails = IF FirstTail(w, pkt) THEN @ \cup {pkt.prt} ELSE @]
  BY <1>1 DEF Stored, Advanced, Fills
<1>3. ready \in Nat
  BY <1>1 DEF Contexts
<1> HIDE DEF w, ready, completes, st
<1>4. /\ st.cpi = w.cpi /\ st.control = w.control /\ st.slots = w.slots
      /\ st.received = w.received /\ st.observed = w.observed
      /\ st.readyChannels = [w.readyChannels EXCEPT ![pkt.prt] = ready]
      /\ st.complete = IF completes THEN w.complete \cup {pkt.prt} ELSE w.complete
      /\ st.readyPrts = IF completes THEN w.readyPrts + 1 ELSE w.readyPrts
      /\ st.tails = IF FirstTail(w, pkt) THEN w.tails \cup {pkt.prt} ELSE w.tails
  BY <1>1, <1>2 DEF Contexts
<1>5. st \in Contexts
  <2>1. /\ [w.readyChannels EXCEPT ![pkt.prt] = ready] \in [Prts -> Nat]
        /\ (IF completes THEN w.complete \cup {pkt.prt} ELSE w.complete) \in SUBSET Prts
        /\ (IF completes THEN w.readyPrts + 1 ELSE w.readyPrts) \in Nat
        /\ (IF FirstTail(w, pkt) THEN w.tails \cup {pkt.prt} ELSE w.tails) \in SUBSET Prts
    BY <1>1, <1>3 DEF Contexts
  <2>2. QED
    BY <1>1, <1>2, <2>1 DEF Contexts
<1>6. QED
  BY <1>1, <1>4, <1>5 DEF st, ready, completes

-----------------------------------------------------------------------------
(* The counters *)

(* The full channels of a PRT: pkt's own joins them when pkt fills it.     *)
LEMMA StoredReadyChannels ==
  ASSUME NEW ctx \in Contexts, NEW pkt \in DataPacketRecord, FirstWrite(ctx, pkt), NEW p \in Prts
  PROVE  /\ IsFiniteSet(ReadyChannels(ctx, p)) /\ ReadyChannels(ctx, p) \subseteq ChannelIds
         /\ pkt.channel \notin ReadyChannels(ctx, pkt.prt)
         /\ ReadyChannels(Stored(ctx, pkt), p) =
              IF p = pkt.prt /\ Fills(ctx, pkt)
              THEN ReadyChannels(ctx, p) \cup {pkt.channel} ELSE ReadyChannels(ctx, p)
<1> DEFINE w == Written(ctx, pkt)
           st == Stored(ctx, pkt)
<1>1. ReadyChannels(ctx, p) \subseteq ChannelIds
  BY DEF ReadyChannels, ChannelIds
<1>2. IsFiniteSet(ReadyChannels(ctx, p))
  BY <1>1, Finiteness, FS_Subset
<1>3. pkt.channel \notin ReadyChannels(ctx, pkt.prt)
  BY WrittenCounts DEF ReadyChannels
<1>4. \A ch : ChannelCount(st, p, ch) = ChannelCount(w, p, ch)
  <2>1. st.slots = w.slots
    <3>1. st.slots = ctx.slots \cup {Coordinate(pkt)}
      BY StoredFields
    <3>2. w.slots = ctx.slots \cup {Coordinate(pkt)}
      BY WrittenFields
    <3> HIDE DEF st, w
    <3>3. QED
      BY <3>1, <3>2
  <2>2. QED
    BY <2>1 DEF ChannelCount
<1>5. pkt.channel \in ChannelIds
  BY WrittenFields
<1>6. \A ch \in ChannelIds : p # pkt.prt \/ ch # pkt.channel =>
         ChannelCount(st, p, ch) = ChannelCount(ctx, p, ch)
  BY <1>4, WrittenCounts
<1>7. p = pkt.prt => (ChannelCount(st, p, pkt.channel) = Packets <=> Fills(ctx, pkt))
  BY <1>4 DEF Fills
<1> HIDE DEF st
<1>8. ReadyChannels(st, p) =
        IF p = pkt.prt /\ Fills(ctx, pkt)
        THEN ReadyChannels(ctx, p) \cup {pkt.channel} ELSE ReadyChannels(ctx, p)
  <2>1. CASE p = pkt.prt
    BY <1>3, <1>5, <1>6, <1>7, <2>1 DEF ReadyChannels, ChannelIds
  <2>2. CASE p # pkt.prt
    BY <1>6, <2>2 DEF ReadyChannels, ChannelIds
  <2>3. QED
    BY <2>1, <2>2
<1>9. QED
  BY <1>1, <1>2, <1>3, <1>8 DEF st

(* SlotWriter and ProgressTracker keep the counters in agreement with the  *)
(* bitmap: a channel, and a PRT, is counted when its last packet comes.    *)
THEOREM StoredIsConsistent ==
  ASSUME NEW ctx \in Contexts, NEW pkt \in DataPacketRecord, FirstWrite(ctx, pkt),
         Consistent(ctx)
  PROVE  Consistent(Stored(ctx, pkt))
<1> DEFINE st == Stored(ctx, pkt)
           ready == ctx.readyChannels[pkt.prt] + (IF Fills(ctx, pkt) THEN 1 ELSE 0)
           completes == ready = Channels /\ pkt.prt \notin ctx.complete
<1>1. /\ st.slots = ctx.slots \cup {Coordinate(pkt)}
      /\ st.received = ctx.received + 1
      /\ st.observed = IF pkt.prt > ctx.observed THEN pkt.prt ELSE ctx.observed
      /\ st.readyChannels = [ctx.readyChannels EXCEPT ![pkt.prt] = ready]
      /\ st.complete = IF completes THEN ctx.complete \cup {pkt.prt} ELSE ctx.complete
      /\ st.readyPrts = IF completes THEN ctx.readyPrts + 1 ELSE ctx.readyPrts
  BY StoredFields
<1>2. /\ pkt.prt \in Prts /\ pkt.prt \in Nat /\ ctx.readyChannels \in [Prts -> Nat]
      /\ ctx.complete \subseteq Prts /\ ctx.observed \in Nat
      /\ ctx.slots \subseteq SlotsOf(MaxPrt) /\ Coordinate(pkt) \notin ctx.slots
  BY WrittenFields DEF Contexts, DataPacketRecord, FirstWrite
<1> HIDE DEF st
<1>3. st.received = Cardinality(st.slots)
  <2>1. IsFiniteSet(ctx.slots)
    BY <1>2, Finiteness, FS_Subset, SlotsAreFinite
  <2>2. Cardinality(ctx.slots \cup {Coordinate(pkt)}) = Cardinality(ctx.slots) + 1
    BY <1>2, <2>1, FS_AddElement
  <2>3. QED
    BY <1>1, <2>2 DEF Consistent
<1>4. \A p \in Prts : st.readyChannels[p] = Cardinality(ReadyChannels(st, p))
  <2> SUFFICES ASSUME NEW p \in Prts
               PROVE  st.readyChannels[p] = Cardinality(ReadyChannels(st, p))
    OBVIOUS
  <2>1. ctx.readyChannels[p] = Cardinality(ReadyChannels(ctx, p)) /\ ctx.readyChannels[p] \in Nat
    BY <1>2 DEF Consistent
  <2>2. CASE p = pkt.prt /\ Fills(ctx, pkt)
    <3>1. Cardinality(ReadyChannels(st, p)) = Cardinality(ReadyChannels(ctx, p)) + 1
      BY <2>2, StoredReadyChannels, FS_AddElement DEF st
    <3>2. st.readyChannels[p] = ctx.readyChannels[p] + 1
      BY <1>1, <1>2, <2>2
    <3>3. QED
      BY <2>1, <3>1, <3>2
  <2>3. CASE ~(p = pkt.prt /\ Fills(ctx, pkt))
    <3>1. ReadyChannels(st, p) = ReadyChannels(ctx, p)
      BY <2>3, StoredReadyChannels DEF st
    <3>2. st.readyChannels[p] = ctx.readyChannels[p]
      BY <1>1, <1>2, <2>1, <2>3
    <3>3. QED
      BY <2>1, <3>1, <3>2
  <2>4. QED
    BY <2>2, <2>3
<1>5. pkt.prt \notin ctx.complete
  <2>1. /\ ReadyChannels(ctx, pkt.prt) \subseteq ChannelIds
        /\ pkt.channel \notin ReadyChannels(ctx, pkt.prt) /\ pkt.channel \in ChannelIds
    BY <1>2, StoredReadyChannels, WrittenFields
  <2>2. Cardinality(ReadyChannels(ctx, pkt.prt)) # Channels
    BY <2>1, Finiteness, FS_Subset
  <2>3. QED
    BY <1>2, <2>2 DEF Consistent
<1>6. st.complete = {p \in Prts : st.readyChannels[p] = Channels}
  <2>1. \A p \in Prts : p \in ctx.complete <=> ctx.readyChannels[p] = Channels
    BY DEF Consistent
  <2>2. \A p \in Prts : p # pkt.prt => st.readyChannels[p] = ctx.readyChannels[p]
    BY <1>1, <1>2
  <2>3. st.readyChannels[pkt.prt] = Channels <=> completes
    BY <1>1, <1>2, <1>5
  <2> HIDE DEF completes
  <2>4. \A p \in Prts : p \in st.complete <=> st.readyChannels[p] = Channels
    BY <1>1, <1>2, <1>5, <2>1, <2>2, <2>3
  <2>5. st.complete \subseteq Prts
    BY <1>1, <1>2
  <2>6. QED
    BY <2>4, <2>5
<1>7. st.readyPrts = Cardinality(st.complete)
  <2>1. IsFiniteSet(ctx.complete)
    BY <1>2, Finiteness, FS_Subset
  <2>2. ctx.readyPrts = Cardinality(ctx.complete)
    BY DEF Consistent
  <2>3. Cardinality(ctx.complete \cup {pkt.prt}) = Cardinality(ctx.complete) + 1
    BY <1>5, <2>1, FS_AddElement
  <2> HIDE DEF completes
  <2>4. QED
    BY <1>1, <2>2, <2>3
<1>8. \A s \in st.slots : s[1] <= st.observed
  <2>1. \A s \in ctx.slots : s[1] <= ctx.observed /\ s[1] \in Nat
    BY <1>2, Finiteness, SlotsAreTriples DEF Consistent
  <2>2. Coordinate(pkt)[1] = pkt.prt
    BY DEF Coordinate
  <2>3. QED
    BY <1>1, <1>2, <2>1, <2>2
<1>9. QED
  BY <1>3, <1>4, <1>6, <1>7, <1>8 DEF Consistent, st

(* Which snapshot a CPI is bound to does not touch the counters.           *)
LEMMA RebindingIsConsistent ==
  ASSUME NEW ctx \in Contexts, NEW d \in Snapshots, Consistent(ctx)
  PROVE  LET r == [ctx EXCEPT !.control = d]
         IN  /\ r \in Contexts /\ r.control = d /\ Consistent(r)
             /\ r.cpi = ctx.cpi /\ r.slots = ctx.slots /\ r.observed = ctx.observed
<1> DEFINE r == [ctx EXCEPT !.control = d]
<1>1. /\ r \in Contexts /\ r.control = d /\ r.cpi = ctx.cpi
      /\ r.slots = ctx.slots /\ r.observed = ctx.observed /\ r.received = ctx.received
      /\ r.readyChannels = ctx.readyChannels /\ r.complete = ctx.complete
      /\ r.readyPrts = ctx.readyPrts
  BY DEF Contexts
<1> HIDE DEF r
<1>2. \A p : ReadyChannels(r, p) = ReadyChannels(ctx, p)
  BY <1>1 DEF ReadyChannels, ChannelCount
<1>3. Consistent(r)
  BY <1>1, <1>2 DEF Consistent
<1>4. QED
  BY <1>1, <1>3 DEF r

LEMMA MergedFacts ==
  ASSUME NEW ctx \in Contexts, NEW candidate \in Snapshots, Consistent(ctx)
  PROVE  \E d \in Snapshots :
           /\ Merged(ctx, candidate) = [ctx EXCEPT !.control = d]
           /\ \/ d.n = ctx.control.n /\ d.valid = ctx.control.valid /\ d.source = ctx.control.source
              \/ d = candidate /\ candidate.source = "control" /\ candidate.valid
                  /\ (ctx.control.source = "provisional" => candidate.n >= ctx.observed)
                  /\ ctx.control.source # "control"
              \/ d = candidate /\ ctx.control.source = "fixed"
<1> DEFINE bound == ctx.control
           announced == candidate.source = "control" /\ candidate.valid
           flag(x) == [bound EXCEPT !.conflict = bound.conflict \/ x]
<1>1. bound \in Snapshots /\ bound.source \in {"fixed", "provisional", "control"}
  BY DEF Contexts, Snapshots
<1>2. ASSUME NEW x \in BOOLEAN
      PROVE  /\ flag(x) \in Snapshots /\ flag(x).n = bound.n /\ flag(x).valid = bound.valid
             /\ flag(x).source = bound.source
             /\ [ctx EXCEPT !.control.conflict = @ \/ x] = [ctx EXCEPT !.control = flag(x)]
  BY <1>1, <1>2 DEF Snapshots, Contexts
<1>3. announced \in BOOLEAN /\ (announced /\ bound.valid /\ bound.n # candidate.n) \in BOOLEAN
  BY DEF Snapshots
<1>4. ctx = [ctx EXCEPT !.control = bound]
  BY DEF Contexts
<1>5. CASE bound.source = "control"
  <2>1. Merged(ctx, candidate) = [ctx EXCEPT !.control =
          flag(announced /\ bound.valid /\ bound.n # candidate.n)]
    BY <1>2, <1>3, <1>5 DEF Merged
  <2>2. QED
    BY <1>2, <1>3, <2>1
<1>6. CASE bound.source = "provisional"
  <2>1. CASE announced /\ candidate.n >= ctx.observed
    <3>1. Merged(ctx, candidate) = [ctx EXCEPT !.control = candidate]
      BY <1>6, <2>1 DEF Merged
    <3>2. QED
      BY <1>6, <2>1, <3>1
  <2>2. CASE ~(announced /\ candidate.n >= ctx.observed)
    <3>1. Merged(ctx, candidate) = [ctx EXCEPT !.control = flag(announced)]
      BY <1>2, <1>3, <1>6, <2>2 DEF Merged
    <3>2. QED
      BY <1>2, <1>3, <3>1
  <2>3. QED
    BY <2>1, <2>2
<1>7. CASE bound.source = "fixed"
  <2>1. Merged(ctx, candidate) \in {[ctx EXCEPT !.control = candidate], ctx}
    BY <1>7 DEF Merged
  <2>2. QED
    BY <1>1, <1>4, <1>7, <2>1
<1>8. QED
  BY <1>1, <1>5, <1>6, <1>7

(* A context just opened is empty and consistent.                          *)
LEMMA NewContextFacts ==
  ASSUME NEW c \in Ids, NEW d \in Snapshots
  PROVE  NewContext(c, d) \in Contexts /\ Consistent(NewContext(c, d))
<1> DEFINE ctx == NewContext(c, d)
<1>1. ctx \in Contexts
  BY Finiteness DEF NewContext, Contexts
<1>2. /\ ctx.received = 0 /\ ctx.slots = {} /\ ctx.readyPrts = 0 /\ ctx.complete = {}
      /\ \A p \in Prts : ctx.readyChannels[p] = 0
  BY DEF NewContext
<1> HIDE DEF ctx
<1>3. \A p, ch : ChannelCount(ctx, p, ch) = 0
  BY <1>2, FS_EmptySet DEF ChannelCount
<1>4. \A p : ReadyChannels(ctx, p) = {}
  BY <1>3, Finiteness DEF ReadyChannels
<1>5. Consistent(ctx)
  BY <1>2, <1>4, Finiteness, FS_EmptySet DEF Consistent
<1>6. QED
  BY <1>1, <1>5 DEF ctx

LEMMA ExpectedTypes ==
  ASSUME NEW ctx \in Contexts
  PROVE  /\ ExpectedPrts(ctx) \in 0 .. MaxPrt
         /\ ExpectedSlots(ctx) \in Nat
         /\ ExpectedSlots(ctx) = Cardinality(SlotsOf(ExpectedPrts(ctx)))
<1>1. ExpectedPrts(ctx) \in 0 .. MaxPrt /\ ExpectedPrts(ctx) \in Nat
  BY Finiteness DEF ExpectedPrts, Contexts, Snapshots
<1>2. /\ IsFiniteSet(SlotsOf(ExpectedPrts(ctx)))
      /\ Cardinality(SlotsOf(ExpectedPrts(ctx))) = ExpectedSlots(ctx)
  BY <1>1, SlotsAreFinite DEF ExpectedSlots
<1>3. QED
  BY <1>1, <1>2, FS_CardinalityType

LEMMA OutputTypes ==
  ASSUME NEW ctx \in Contexts, NEW trigger
  PROVE  Output(ctx, trigger) \in Outputs
<1>1. Decision(ctx, trigger) \in Decisions
  BY DEF Decision, Decisions
<1>2. (IF ExpectedSlots(ctx) > ctx.received THEN ExpectedSlots(ctx) - ctx.received ELSE 0) \in Nat
  BY ExpectedTypes DEF Contexts
<1>3. (IF ctx.control.valid THEN ctx.control.n ELSE ctx.observed) \in 0 .. MaxPrt
  BY DEF Contexts, Snapshots
<1>4. ctx.cpi \in Ids /\ ctx.received \in Nat /\ ctx.slots \in SUBSET SlotsOf(MaxPrt)
  BY DEF Contexts
<1>5. QED
  BY <1>1, <1>2, <1>3, <1>4 DEF Output, Outputs

-----------------------------------------------------------------------------
(* The output *)

(* A PRT counted complete is whole.                                        *)
LEMMA CompleteIsWhole ==
  ASSUME NEW ctx \in Contexts, Consistent(ctx), NEW p \in ctx.complete
  PROVE  SlotsOf(p) \ SlotsOf(p - 1) \subseteq ctx.slots
<1>1. p \in Prts /\ p \in Nat \ {0} /\ ctx.readyChannels[p] = Channels
  BY DEF Consistent, Prts
<1>2. ReadyChannels(ctx, p) = ChannelIds
  <2>1. ReadyChannels(ctx, p) \subseteq ChannelIds
    BY DEF ReadyChannels, ChannelIds
  <2>2. Cardinality(ReadyChannels(ctx, p)) = Channels
    BY <1>1 DEF Consistent
  <2>3. QED
    BY <2>1, <2>2, Finiteness, FS_Subset
<1>3. \A ch \in ChannelIds, i \in Indices : <<p, ch, i>> \in ctx.slots
  <2> SUFFICES ASSUME NEW ch \in ChannelIds, NEW i \in Indices
               PROVE  <<p, ch, i>> \in ctx.slots
    OBVIOUS
  <2>1. ChannelCount(ctx, p, ch) = Packets
    BY <1>2 DEF ReadyChannels
  <2>2. Present(ctx.slots, p, ch) = Indices
    BY <2>1, ChannelCountIsPresent
  <2>3. QED
    BY <2>2 DEF Present
<1>4. ASSUME NEW s \in SlotsOf(p), s \notin SlotsOf(p - 1)
      PROVE  s \in ctx.slots
  <2>1. /\ s[1] \in 1 .. p /\ s[2] \in ChannelIds /\ s[3] \in Indices
        /\ s = <<s[1], s[2], s[3]>>
    BY <1>1, SlotsAreTriples
  <2>2. p - 1 \in Nat
    BY <1>1
  <2>3. s[1] \notin 1 .. p - 1
    BY <1>4, <2>1, <2>2, SlotsAreTriples
  <2>4. s[1] = p
    BY <1>1, <2>1, <2>3
  <2>5. QED
    BY <1>3, <2>1, <2>4
<1>5. QED
  BY <1>4

(* The CPI is bound to a number of PRTs, and no packet beyond it came.     *)
Bound(ctx) ==
  ctx.control.valid /\ ctx.control.n > 0 /\ ctx.observed <= ctx.control.n

(* What CpiFinalizer puts out about a CPI that was bound is true of the    *)
(* slots the consumer is shown.                                            *)
THEOREM OutputOfBoundIsTruthful ==
  ASSUME NEW ctx \in Contexts, Consistent(ctx), Bound(ctx), NEW trigger,
         "FullReady" \in trigger => ctx.received >= ExpectedSlots(ctx)
  PROVE  Truthful(Output(ctx, trigger))
<1> DEFINE out == Output(ctx, trigger)
           all == SlotsOf(ctx.control.n)
<1>1. /\ ctx.control.n \in Nat /\ ExpectedPrts(ctx) = ctx.control.n
      /\ ctx.slots \subseteq SlotsOf(MaxPrt) /\ ctx.observed \in Nat
      /\ ctx.received \in Nat
  BY DEF Contexts, Snapshots, Bound, ExpectedPrts
<1>2. ctx.slots \subseteq all
  <2> SUFFICES ASSUME NEW s \in ctx.slots
               PROVE  s \in all
    OBVIOUS
  <2>1. /\ s[1] \in 1 .. MaxPrt /\ s[2] \in ChannelIds /\ s[3] \in Indices
        /\ s = <<s[1], s[2], s[3]>>
    BY <1>1, Finiteness, SlotsAreTriples
  <2>2. s[1] <= ctx.control.n
    BY <1>1, <2>1, Finiteness DEF Consistent, Bound
  <2>3. s[1] \in 1 .. ctx.control.n
    BY <1>1, <2>1, <2>2, Finiteness
  <2>4. QED
    BY <1>1, <2>1, <2>3, SlotsAreTriples
<1>3. IsFiniteSet(all) /\ Cardinality(all) = ExpectedSlots(ctx) /\ ExpectedSlots(ctx) \in Nat
  BY <1>1, ExpectedTypes, SlotsAreFinite
<1> HIDE DEF all
<1>4. Cardinality(ctx.slots) = ctx.received
  BY DEF Consistent
<1>5. ctx.received <= ExpectedSlots(ctx)
  BY <1>2, <1>3, <1>4, FS_Subset
<1>6. Cardinality(all \ ctx.slots) = ExpectedSlots(ctx) - ctx.received
  <2>1. all \cap ctx.slots = ctx.slots
    BY <1>2
  <2>2. Cardinality(all \ ctx.slots) = Cardinality(all) - Cardinality(all \cap ctx.slots)
    BY <1>3, FS_Difference
  <2>3. QED
    BY <1>3, <1>4, <2>1, <2>2
<1>7. /\ out.slots = ctx.slots /\ out.prts = ctx.control.n
      /\ out.decision = Decision(ctx, trigger)
      /\ out.missing = IF ExpectedSlots(ctx) > ctx.received
                       THEN ExpectedSlots(ctx) - ctx.received ELSE 0
  BY DEF Output, Bound
<1>8. out.missing = ExpectedSlots(ctx) - ctx.received
  BY <1>1, <1>3, <1>5, <1>7
<1> HIDE DEF out
<1>9. out.decision = "COMPLETE_OK" => out.missing = 0
  <2>1. out.decision = "COMPLETE_OK" => "FullReady" \in trigger
    BY <1>7 DEF Decision
  <2>2. QED
    BY <1>1, <1>3, <1>5, <1>8, <2>1
<1>10. ASSUME out.decision = "INCOMPLETE_BUT_COMMITTABLE"
       PROVE  \E p \in Prts : SlotsOf(p) \ SlotsOf(p - 1) \subseteq out.slots
  <2>1. ctx.readyPrts > 0
    BY <1>7, <1>10 DEF Decision
  <2>2. ctx.complete # {} /\ ctx.complete \subseteq Prts
    <3>1. ctx.readyPrts = Cardinality(ctx.complete)
      BY DEF Consistent
    <3>2. ctx.complete # {}
      BY <2>1, <3>1, FS_EmptySet
    <3>3. QED
      BY <3>2 DEF Contexts
  <2>3. PICK p \in ctx.complete : TRUE
    BY <2>2
  <2>4. QED
    BY <1>7, <2>2, <2>3, CompleteIsWhole
<1>11. QED
  BY <1>2, <1>6, <1>7, <1>8, <1>9, <1>10 DEF Truthful, all, out

-----------------------------------------------------------------------------
(* The members *)

(* The number of windows that hold a context.                              *)
Held(m) == (IF m.active # None THEN 1 ELSE 0) + (IF m.previous # None THEN 1 ELSE 0)

Balanced(m) == m.inUse = Held(m) + Len(m.outputs) + m.lent

Good(m) ==
  /\ m \in Members /\ Balanced(m)
  /\ \A w \in Windows : m[w] # None => Consistent(m[w])

(* Every CPI gets bound to a number of PRTs when it opens, and the control *)
(* packets announce numbers that the specification allows.                 *)
BindingsAreSound ==
  \A s \in Specs :
    IF s.dynamic THEN s.max > 0 /\ ControlPrts \subseteq 1 .. Lesser(s.max, MaxPrt)
    ELSE s.expected > 0

(* A snapshot that a CPI may be bound to when the specification is s.      *)
Fit(d, s) ==
  /\ d.valid /\ d.n > 0
  /\ IF s.dynamic THEN d.source # "fixed"
     ELSE d.source = "fixed" /\ d.n = Lesser(s.expected, MaxPrt)

FitWindow(ctx, s) == Fit(ctx.control, s) /\ ctx.observed <= ctx.control.n

(* No packet beyond the number of PRTs its CPI is bound to was written.    *)
Fitting(m, s) ==
  /\ \A w \in Windows : m[w] # None => FitWindow(m[w], s)
  /\ m.control.valid => Fit(m.control, s)
  /\ \A i \in DOMAIN m.outputs : Truthful(m.outputs[i])

Fine(m, s) == Good(m) /\ (BindingsAreSound => Fitting(m, s))

LEMMA MemberTypes ==
  ASSUME NEW m \in Members
  PROVE  /\ m.active \in Contexts \cup {None} /\ m.previous \in Contexts \cup {None}
         /\ \A w \in Windows : m[w] # None => m[w] \in Contexts
         /\ m.control \in Snapshots /\ m.closed \in Seq(Ids) /\ Len(m.closed) <= ClosedDepth
         /\ m.inUse \in 0 .. Depth /\ m.lent \in 0 .. Depth
         /\ m.outputs \in Seq(Outputs) /\ Len(m.outputs) <= OutputCapacity
         /\ Len(m.outputs) \in Nat /\ Len(m.closed) \in Nat
         /\ m.degraded \in BOOLEAN /\ m.error \in BOOLEAN /\ m.decided \in [Ids -> 0 .. 2]
         /\ Depth \in Nat /\ OutputCapacity \in Nat
<1>1. /\ m.active \in Contexts \cup {None} /\ m.previous \in Contexts \cup {None}
      /\ m.control \in Snapshots /\ m.closed \in Seq(Ids) /\ Len(m.closed) <= ClosedDepth
      /\ m.inUse \in 0 .. Depth /\ m.lent \in 0 .. Depth
      /\ m.outputs \in Seq(Outputs) /\ Len(m.outputs) <= OutputCapacity
      /\ m.degraded \in BOOLEAN /\ m.error \in BOOLEAN /\ m.decided \in [Ids -> 0 .. 2]
  BY DEF Members
<1>2. \A w \in Windows : m[w] # None => m[w] \in Contexts
  BY <1>1 DEF Windows
<1>3. Depth \in Nat /\ OutputCapacity \in Nat
  BY CoordinatorAssumption
<1>4. QED
  BY <1>1, <1>2, <1>3

LEMMA RememberedTypes ==
  ASSUME NEW closed \in Seq(Ids), NEW c \in Ids
  PROVE  Remembered(closed, c) \in Seq(Ids) /\ Len(Remembered(closed, c)) <= ClosedDepth
<1> DEFINE all == <<c>> \o closed
           n == Lesser(Len(closed) + 1, ClosedDepth)
<1>1. all \in Seq(Ids) /\ Len(all) = Len(closed) + 1
  OBVIOUS
<1>2. n \in 1 .. Len(all) /\ n <= ClosedDepth
  BY <1>1, ContextAssumption DEF Lesser
<1> HIDE DEF all, n
<1>3. SubSeq(all, 1, n) \in Seq(Ids) /\ Len(SubSeq(all, 1, n)) = n
  BY <1>1, <1>2
<1>4. QED
  BY <1>2, <1>3 DEF Remembered, all, n

(* One window changes, and nothing else.                                   *)
LEMMA WindowUpdate ==
  ASSUME NEW m \in Members, NEW w \in Windows, NEW e \in Contexts \cup {None}
  PROVE  LET r == [m EXCEPT ![w] = e]
         IN  /\ r \in Members /\ r[w] = e
             /\ \A v \in Windows : v # w => r[v] = m[v]
             /\ r.control = m.control /\ r.closed = m.closed /\ r.inUse = m.inUse
             /\ r.outputs = m.outputs /\ r.lent = m.lent /\ r.degraded = m.degraded
             /\ r.error = m.error /\ r.decided = m.decided
<1>1. CASE w = "active"
  BY <1>1 DEF Members, Windows
<1>2. CASE w = "previous"
  BY <1>2 DEF Members, Windows
<1>3. QED
  BY <1>1, <1>2 DEF Windows

LEMMA HeldTypes ==
  ASSUME NEW m
  PROVE  Held(m) \in 0 .. 2
BY DEF Held

(* A window that gives up its context; a window that takes one.            *)
LEMMA HeldWithout ==
  ASSUME NEW m, NEW r, NEW w \in Windows,
         m[w] # None, r[w] = None, \A v \in Windows : v # w => r[v] = m[v]
  PROVE  Held(m) = Held(r) + 1
<1>1. CASE w = "active"
  BY <1>1 DEF Held, Windows
<1>2. CASE w = "previous"
  BY <1>2 DEF Held, Windows
<1>3. QED
  BY <1>1, <1>2 DEF Windows

LEMMA Arithmetic ==
  ASSUME NEW i \in Int, NEW h \in Int, NEW o \in Int, NEW l \in Int, NEW d \in Int,
         NEW i2 \in Int, NEW h2 \in Int, NEW o2 \in Int, NEW l2 \in Int,
         i = h + o + l, h2 = h + d, i2 - o2 - l2 = i - o - l + d
  PROVE  i2 = h2 + o2 + l2
OBVIOUS

(* The books still balance when the sum of what is taken, put out and lent *)
(* changes as the windows do.                                              *)
LEMMA BalancedBy ==
  ASSUME NEW m \in Members, NEW r \in Members, Balanced(m), NEW d \in Int,
         Held(r) = Held(m) + d,
         r.inUse - Len(r.outputs) - r.lent = m.inUse - Len(m.outputs) - m.lent + d
  PROVE  Balanced(r)
<1> DEFINE i == m.inUse  h == Held(m)  o == Len(m.outputs)  l == m.lent
           i2 == r.inUse  h2 == Held(r)  o2 == Len(r.outputs)  l2 == r.lent
<1>1. /\ i \in Int /\ o \in Int /\ l \in Int /\ i2 \in Int /\ o2 \in Int /\ l2 \in Int
  BY MemberTypes
<1>2. h \in Int /\ h2 \in Int
  BY HeldTypes
<1>3. i = h + o + l
  BY DEF Balanced
<1>4. h2 = h + d /\ i2 - o2 - l2 = i - o - l + d
  OBVIOUS
<1> HIDE DEF i, h, o, l, i2, h2, o2, l2
<1>5. i2 = h2 + o2 + l2
  BY ONLY d \in Int, <1>1, <1>2, <1>3, <1>4, Arithmetic
<1>6. QED
  BY <1>5 DEF Balanced, i2, h2, o2, l2

-----------------------------------------------------------------------------
(* The private operations *)

LEMMA FinalizedKeeps ==
  ASSUME NEW m, Good(m), NEW w \in Windows, NEW trigger
  PROVE  LET r == Finalized(m, w, trigger)
         IN  /\ Good(r) /\ r[w] = None /\ \A v \in Windows : v # w => r[v] = m[v]
             /\ r.control = m.control /\ r.error = m.error /\ r.lent = m.lent
             /\ r.inUse <= m.inUse
             /\ \/ r.outputs = m.outputs
                \/ m[w] # None /\ r.outputs = Append(m.outputs, Output(m[w], trigger))
<1> DEFINE r == Finalized(m, w, trigger)
           gone == [m EXCEPT ![w] = None]
           ctx == m[w]
           closed == [gone EXCEPT !.closed = Remembered(@, ctx.cpi),
                                  !.decided[ctx.cpi] = Lesser(@ + 1, 2)]
<1>1. m \in Members /\ Balanced(m)
  BY DEF Good
<1>2. /\ gone \in Members /\ gone[w] = None
      /\ \A v \in Windows : v # w => gone[v] = m[v]
      /\ gone.control = m.control /\ gone.closed = m.closed /\ gone.inUse = m.inUse
      /\ gone.outputs = m.outputs /\ gone.lent = m.lent /\ gone.degraded = m.degraded
      /\ gone.error = m.error /\ gone.decided = m.decided
  BY <1>1, WindowUpdate
<1>3. CASE ctx = None
  <2>1. r = m
    BY <1>3 DEF Finalized
  <2>2. QED
    BY <1>1, <1>3, <2>1, MemberTypes
<1>4. CASE ctx # None
  <2>1. ctx \in Contexts /\ ctx.cpi \in Ids
    BY <1>1, <1>4, MemberTypes DEF Contexts
  <2>2. Held(m) = Held(gone) + 1
    BY <1>2, <1>4, HeldWithout
  <2>3. /\ m.inUse \in 1 .. Depth /\ m.inUse - 1 \in 0 .. Depth
        /\ Len(m.outputs) \in Nat /\ m.lent \in Nat
    <3> HIDE DEF gone
    <3>1. Held(gone) \in 0 .. 2
      BY HeldTypes
    <3>2. /\ m.inUse \in 0 .. Depth /\ Depth \in Nat
          /\ Len(m.outputs) \in Nat /\ m.lent \in 0 .. Depth
      BY <1>1, MemberTypes
    <3>3. m.inUse = Held(m) + Len(m.outputs) + m.lent
      BY <1>1 DEF Balanced
    <3>4. QED
      BY <2>2, <3>1, <3>2, <3>3
  <2>4. /\ closed \in Members /\ closed[w] = None
        /\ \A v \in Windows : v # w => closed[v] = m[v]
        /\ closed.active = gone.active /\ closed.previous = gone.previous
        /\ closed.control = m.control /\ closed.inUse = m.inUse
        /\ closed.outputs = m.outputs /\ closed.lent = m.lent /\ closed.error = m.error
    <3>1. Remembered(gone.closed, ctx.cpi) \in {s \in Seq(Ids) : Len(s) <= ClosedDepth}
      BY <1>2, <2>1, RememberedTypes, MemberTypes
    <3>2. Lesser(gone.decided[ctx.cpi] + 1, 2) \in 0 .. 2
      <4> HIDE DEF gone, ctx
      <4>1. gone.decided[ctx.cpi] \in 0 .. 2
        BY <1>2, <2>1, MemberTypes
      <4>2. QED
        BY <4>1 DEF Lesser
    <3>3. [gone.decided EXCEPT ![ctx.cpi] = Lesser(@ + 1, 2)] \in [Ids -> 0 .. 2]
      BY <1>2, <3>2, MemberTypes
    <3> HIDE DEF gone, ctx
    <3>4. /\ closed \in Members /\ closed.active = gone.active /\ closed.previous = gone.previous
          /\ closed.control = gone.control /\ closed.inUse = gone.inUse
          /\ closed.outputs = gone.outputs /\ closed.lent = gone.lent
          /\ closed.error = gone.error
      BY <1>2, <3>1, <3>3 DEF Members
    <3>5. QED
      BY <1>2, <3>4 DEF Windows
  <2>5. \A n : n.active = gone.active /\ n.previous = gone.previous => Held(n) = Held(gone)
    BY DEF Held
  <2> HIDE DEF gone, closed, ctx
  <2>6. CASE ~Commits(trigger)
    <3>1. r = [gone EXCEPT !.inUse = @ - 1]
      BY <1>4, <2>6 DEF Finalized, gone, ctx
    <3>2. /\ r \in Members /\ r.active = gone.active /\ r.previous = gone.previous
          /\ r.control = m.control /\ r.inUse = m.inUse - 1
          /\ r.outputs = m.outputs /\ r.lent = m.lent /\ r.error = m.error
      BY <1>2, <2>3, <3>1 DEF Members
    <3>3. Balanced(r)
      <4>1. Held(r) = Held(m) + (-1)
        BY <2>2, <2>5, <3>2, HeldTypes
      <4>2. r.inUse - Len(r.outputs) - r.lent = m.inUse - Len(m.outputs) - m.lent + (-1)
        BY <2>3, <3>2
      <4>3. QED
        BY <1>1, <3>2, <4>1, <4>2, BalancedBy
    <3>4. r[w] = None /\ \A v \in Windows : v # w => r[v] = m[v]
      BY <1>2, <3>2 DEF Windows
    <3>5. QED
      BY <2>3, <3>2, <3>3, <3>4 DEF Good
  <2>7. CASE Commits(trigger) /\ Len(m.outputs) < OutputCapacity
    <3>1. r = [closed EXCEPT !.outputs = Append(@, Output(ctx, trigger))]
      BY <1>4, <2>7 DEF Finalized, gone, closed, ctx
    <3>2. Output(ctx, trigger) \in Outputs
      BY <2>1, OutputTypes
    <3>3. /\ Append(m.outputs, Output(ctx, trigger)) \in Seq(Outputs)
          /\ Len(Append(m.outputs, Output(ctx, trigger))) = Len(m.outputs) + 1
      BY <1>1, <3>2, MemberTypes
    <3>4. Len(m.outputs) + 1 <= OutputCapacity
      BY <2>3, <2>7, CoordinatorAssumption
    <3>5. /\ r \in Members /\ r.active = gone.active /\ r.previous = gone.previous
          /\ r.control = m.control /\ r.inUse = m.inUse
          /\ r.outputs = Append(m.outputs, Output(ctx, trigger))
          /\ r.lent = m.lent /\ r.error = m.error
      BY <2>4, <3>1, <3>3, <3>4 DEF Members
    <3>6. Balanced(r)
      <4>1. Held(r) = Held(m) + (-1)
        BY <2>2, <2>5, <3>5, HeldTypes
      <4>2. r.inUse - Len(r.outputs) - r.lent = m.inUse - Len(m.outputs) - m.lent + (-1)
        BY <2>3, <3>3, <3>5
      <4>3. QED
        BY <1>1, <3>5, <4>1, <4>2, BalancedBy
    <3>7. r[w] = None /\ \A v \in Windows : v # w => r[v] = m[v]
      BY <1>2, <3>5 DEF Windows
    <3>8. QED
      BY <1>4, <2>3, <3>5, <3>6, <3>7 DEF Good, ctx
  <2>8. CASE Commits(trigger) /\ ~(Len(m.outputs) < OutputCapacity)
    <3>1. r = [closed EXCEPT !.inUse = @ - 1, !.degraded = TRUE]
      BY <1>4, <2>8 DEF Finalized, gone, closed, ctx
    <3>2. /\ r \in Members /\ r.active = gone.active /\ r.previous = gone.previous
          /\ r.control = m.control /\ r.inUse = m.inUse - 1
          /\ r.outputs = m.outputs /\ r.lent = m.lent /\ r.error = m.error
      <4>1. closed.inUse = m.inUse /\ m.inUse - 1 \in 0 .. Depth
        BY <2>3, <2>4
      <4>2. r = [closed EXCEPT !.inUse = m.inUse - 1, !.degraded = TRUE]
        BY <3>1, <4>1
      <4> HIDE DEF r, closed, gone
      <4>3. QED
        BY <2>4, <4>1, <4>2 DEF Members
    <3>3. Balanced(r)
      <4>1. Held(r) = Held(m) + (-1)
        BY <2>2, <2>5, <3>2, HeldTypes
      <4>2. r.inUse - Len(r.outputs) - r.lent = m.inUse - Len(m.outputs) - m.lent + (-1)
        BY <2>3, <3>2
      <4>3. QED
        BY <1>1, <3>2, <4>1, <4>2, BalancedBy
    <3>4. r[w] = None /\ \A v \in Windows : v # w => r[v] = m[v]
      BY <1>2, <3>2 DEF Windows
    <3>5. QED
      BY <2>3, <3>2, <3>3, <3>4 DEF Good
  <2>9. QED
    BY <2>6, <2>7, <2>8
<1>5. QED
  BY <1>3, <1>4

(* The number of PRTs that an output is reported with is the one its CPI   *)
(* was bound to.                                                           *)
LEMMA FinalizedFits ==
  ASSUME NEW m, NEW s, Fine(m, s), NEW w \in Windows, NEW trigger,
         m[w] # None /\ "FullReady" \in trigger => m[w].received >= ExpectedSlots(m[w])
  PROVE  Fine(Finalized(m, w, trigger), s)
<1> DEFINE r == Finalized(m, w, trigger)
<1>1. /\ Good(r) /\ r[w] = None /\ \A v \in Windows : v # w => r[v] = m[v]
      /\ r.control = m.control
      /\ \/ r.outputs = m.outputs
         \/ m[w] # None /\ r.outputs = Append(m.outputs, Output(m[w], trigger))
  BY FinalizedKeeps DEF Fine
<1> HIDE DEF r
<1>2. ASSUME BindingsAreSound
      PROVE  Fitting(r, s)
  <2>1. /\ Good(m) /\ m \in Members /\ Fitting(m, s)
        /\ m.outputs \in Seq(Outputs)
    BY <1>2, MemberTypes DEF Fine, Good
  <2>2. \A v \in Windows : r[v] # None => FitWindow(r[v], s)
    BY <1>1, <2>1 DEF Fitting
  <2>3. r.control.valid => Fit(r.control, s)
    BY <1>1, <2>1 DEF Fitting
  <2>4. CASE r.outputs = m.outputs
    BY <2>1, <2>2, <2>3, <2>4 DEF Fitting
  <2>5. CASE m[w] # None /\ r.outputs = Append(m.outputs, Output(m[w], trigger))
    <3>1. m[w] \in Contexts /\ Consistent(m[w]) /\ FitWindow(m[w], s)
      BY <2>1, <2>5, MemberTypes DEF Good, Fitting
    <3>2. Truthful(Output(m[w], trigger))
      BY <2>5, <3>1, OutputOfBoundIsTruthful DEF FitWindow, Fit, Bound
    <3>3. \A i \in DOMAIN r.outputs :
            \/ i \in DOMAIN m.outputs /\ r.outputs[i] = m.outputs[i]
            \/ r.outputs[i] = Output(m[w], trigger)
      BY <2>1, <2>5
    <3>4. \A i \in DOMAIN r.outputs : Truthful(r.outputs[i])
      BY <2>1, <3>2, <3>3 DEF Fitting
    <3>5. QED
      BY <2>2, <2>3, <3>4 DEF Fitting
  <2>6. QED
    BY <1>1, <2>4, <2>5
<1>3. QED
  BY <1>1, <1>2 DEF Fine, r

(* One window takes another context that is consistent and fits.           *)
LEMMA WindowReplaced ==
  ASSUME NEW m, NEW s, Fine(m, s), NEW w \in Windows, m[w] # None,
         NEW e \in Contexts, Consistent(e), BindingsAreSound => FitWindow(e, s)
  PROVE  LET r == [m EXCEPT ![w] = e]
         IN  /\ Fine(r, s) /\ r[w] = e /\ r[w] # None
             /\ r.lent = m.lent /\ r.inUse = m.inUse /\ r.error = m.error
             /\ r.control = m.control
<1> DEFINE r == [m EXCEPT ![w] = e]
<1>1. m \in Members /\ Balanced(m) /\ e # None
  BY CoordinatorAssumption DEF Fine, Good
<1>2. /\ r \in Members /\ r[w] = e
      /\ \A v \in Windows : v # w => r[v] = m[v]
      /\ r.control = m.control /\ r.inUse = m.inUse
      /\ r.outputs = m.outputs /\ r.lent = m.lent /\ r.error = m.error
  BY <1>1, WindowUpdate
<1> HIDE DEF r
<1>3. Held(r) = Held(m)
  <2>1. CASE w = "active"
    BY <1>1, <1>2, <2>1 DEF Held, Windows
  <2>2. CASE w = "previous"
    BY <1>1, <1>2, <2>2 DEF Held, Windows
  <2>3. QED
    BY <2>1, <2>2 DEF Windows
<1>4. Balanced(r)
  BY <1>1, <1>2, <1>3 DEF Balanced
<1>5. \A v \in Windows : r[v] # None => Consistent(r[v])
  BY <1>2 DEF Fine, Good
<1>6. ASSUME BindingsAreSound
      PROVE  Fitting(r, s)
  BY <1>2, <1>6 DEF Fine, Fitting
<1>7. QED
  BY <1>1, <1>2, <1>4, <1>5, <1>6 DEF Fine, Good, r

(* A first write: the window's context is stored, and what is due is right *)
(* about the number of slots.                                              *)
LEMMA StoredKeeps ==
  ASSUME NEW m, NEW s, Fine(m, s), NEW w \in Windows, m[w] # None,
         NEW pkt \in DataPacketRecord, FirstWrite(m[w], pkt)
  PROVE  LET r == [m EXCEPT ![w] = Stored(m[w], pkt)]
         IN  /\ Fine(r, s) /\ r[w] # None
             /\ "FullReady" \in Due(Written(m[w], pkt), pkt)
                   => r[w].received >= ExpectedSlots(r[w])
<1> DEFINE ctx == m[w]
           e == Stored(ctx, pkt)
           u == Written(ctx, pkt)
<1>1. ctx \in Contexts /\ Consistent(ctx) /\ (BindingsAreSound => FitWindow(ctx, s))
  BY MemberTypes DEF Fine, Good, Fitting
<1>2. /\ e \in Contexts /\ e.control = ctx.control /\ e.received = ctx.received + 1
      /\ e.observed = IF pkt.prt > ctx.observed THEN pkt.prt ELSE ctx.observed
      /\ Consistent(e)
  BY <1>1, StoredFields, StoredIsConsistent
<1>3. /\ u.control = ctx.control /\ u.received = ctx.received + 1
      /\ ExpectedPrts(ctx) > 0 => pkt.prt <= ExpectedPrts(ctx)
  BY <1>1, WrittenFields
<1>4. ExpectedSlots(u) = ExpectedSlots(e) /\ u.received = e.received
  BY <1>2, <1>3 DEF ExpectedSlots, ExpectedPrts
<1>5. "FullReady" \in Due(u, pkt) => e.received >= ExpectedSlots(e)
  BY <1>4 DEF Due
<1>6. ASSUME BindingsAreSound
      PROVE  FitWindow(e, s)
  <2>1. /\ ctx.control.valid /\ ctx.control.n > 0 /\ ctx.observed <= ctx.control.n
        /\ Fit(ctx.control, s)
    BY <1>1, <1>6 DEF FitWindow, Fit
  <2>2. pkt.prt <= ctx.control.n
    BY <1>3, <2>1 DEF ExpectedPrts
  <2>3. QED
    BY <1>2, <2>1, <2>2 DEF FitWindow
<1> HIDE DEF e, u
<1>7. QED
  BY <1>2, <1>5, <1>6, WindowReplaced DEF u, ctx, e

LEMMA WrittenToActiveKeeps ==
  ASSUME NEW m, NEW s, Fine(m, s), m.active # None, NEW pkt \in DataPacketRecord
  PROVE  Fine(WrittenToActive(m, pkt), s)
<1> DEFINE stored == [m EXCEPT !["active"] = Stored(m["active"], pkt)]
           due == Due(Written(m.active, pkt), pkt)
<1>1. CASE ~FirstWrite(m.active, pkt)
  BY <1>1 DEF WrittenToActive
<1>2. CASE FirstWrite(m.active, pkt)
  <2>1. /\ Fine(stored, s) /\ stored["active"] # None
        /\ "FullReady" \in due => stored["active"].received >= ExpectedSlots(stored["active"])
    BY <1>2, StoredKeeps DEF Windows
  <2>2. WrittenToActive(m, pkt) = IF due = {} THEN stored ELSE Finalized(stored, "active", due)
    BY <1>2 DEF WrittenToActive
  <2> HIDE DEF stored, due
  <2>3. Fine(Finalized(stored, "active", due), s)
    BY <2>1, FinalizedFits DEF Windows
  <2>4. QED
    BY <2>1, <2>2, <2>3
<1>3. QED
  BY <1>1, <1>2

LEMMA WrittenToPreviousKeeps ==
  ASSUME NEW m, NEW s, Fine(m, s), NEW pkt \in DataPacketRecord
  PROVE  Fine(WrittenToPrevious(m, pkt), s)
<1>1. CASE m.previous # None /\ m.previous.cpi = pkt.cpi /\ FirstWrite(m.previous, pkt)
  <2>1. WrittenToPrevious(m, pkt) = [m EXCEPT !["previous"] = Stored(m["previous"], pkt)]
    BY <1>1 DEF WrittenToPrevious
  <2>2. QED
    BY <1>1, <2>1, StoredKeeps DEF Windows
<1>2. CASE ~(m.previous # None /\ m.previous.cpi = pkt.cpi /\ FirstWrite(m.previous, pkt))
  BY <1>2 DEF WrittenToPrevious
<1>3. QED
  BY <1>1, <1>2

(* The active context moves, in one step, to the window that is empty.     *)
LEMMA RotatedKeeps ==
  ASSUME NEW m, NEW s, Fine(m, s), m.previous = None
  PROVE  /\ Fine(Rotated(m), s) /\ Rotated(m).active = None
         /\ Rotated(m).lent = m.lent
<1> DEFINE r == Rotated(m)
<1>1. m \in Members /\ Balanced(m)
  BY DEF Fine, Good
<1>2. /\ r \in Members /\ r.active = None /\ r.previous = m.active
      /\ r.control = m.control /\ r.inUse = m.inUse
      /\ r.outputs = m.outputs /\ r.lent = m.lent
  BY <1>1 DEF Rotated, Members
<1> HIDE DEF r
<1>3. Held(r) = Held(m)
  BY <1>2 DEF Held
<1>4. Balanced(r)
  BY <1>1, <1>2, <1>3 DEF Balanced
<1>5. \A v \in Windows : r[v] # None => r[v] = m["active"] /\ m["active"] # None
  BY <1>2 DEF Windows
<1>6. QED
  BY <1>2, <1>4, <1>5 DEF Fine, Good, Fitting, Windows, r

-----------------------------------------------------------------------------
(* Opening a CPI *)

LEMMA OpenSnapshotFits ==
  ASSUME NEW c \in Ids, NEW s \in Specs, NEW staged \in Snapshots,
         BindingsAreSound => (staged.valid => Fit(staged, s))
  PROVE  LET d == OpenSnapshot(c, s, staged)
         IN  d \in Snapshots /\ (BindingsAreSound => Fit(d, s))
<1>1. /\ s.dynamic \in BOOLEAN /\ s.expected \in Nat /\ s.max \in Nat /\ MaxPrt \in Nat \ {0}
  BY CoordinatorAssumption, ContextAssumption
<1>2. /\ Lesser(s.expected, MaxPrt) \in 0 .. MaxPrt
      /\ Lesser(s.max, MaxPrt) \in 0 .. MaxPrt
      /\ s.expected > 0 => Lesser(s.expected, MaxPrt) > 0
      /\ s.max > 0 => Lesser(s.max, MaxPrt) > 0
  BY <1>1 DEF Lesser
<1>3. FixedSnapshot(c, s) \in Snapshots /\ ProvisionalSnapshot(c, s) \in Snapshots
  BY <1>2 DEF FixedSnapshot, ProvisionalSnapshot, Snapshot, Snapshots
<1>4. CASE ~s.dynamic
  BY <1>2, <1>3, <1>4 DEF OpenSnapshot, FixedSnapshot, Snapshot, Fit, BindingsAreSound
<1>5. CASE s.dynamic /\ staged.cpi = c /\ staged.valid
  BY <1>5 DEF OpenSnapshot
<1>6. CASE s.dynamic /\ ~(staged.cpi = c /\ staged.valid)
  BY <1>2, <1>3, <1>6 DEF OpenSnapshot, ProvisionalSnapshot, Snapshot, Fit, BindingsAreSound
<1>7. QED
  BY <1>4, <1>5, <1>6

(* Contexts that come back reduce what is taken and what is lent alike.    *)
LEMMA DrainedKeeps ==
  ASSUME NEW m, NEW s, Fine(m, s), NEW tokens \in 0 .. m.lent
  PROVE  LET r == [m EXCEPT !.inUse = @ - tokens, !.lent = @ - tokens]
         IN  /\ Fine(r, s) /\ r.active = m.active /\ r.control = m.control
             /\ r.previous = m.previous
<1> DEFINE r == [m EXCEPT !.inUse = @ - tokens, !.lent = @ - tokens]
<1>1. m \in Members /\ Balanced(m)
  BY DEF Fine, Good
<1>2. m.inUse - tokens \in 0 .. Depth /\ m.lent - tokens \in 0 .. Depth
  <2> DEFINE i == m.inUse  h == Held(m)  o == Len(m.outputs)  l == m.lent
  <2>1. /\ i \in 0 .. Depth /\ l \in 0 .. Depth /\ h \in 0 .. 2 /\ o \in Nat /\ Depth \in Nat
        /\ i = h + o + l /\ tokens \in 0 .. l
    BY <1>1, MemberTypes, HeldTypes DEF Balanced
  <2> HIDE DEF i, h, o, l
  <2>2. i - tokens \in 0 .. Depth /\ l - tokens \in 0 .. Depth
    BY ONLY <2>1
  <2>3. QED
    BY <2>2 DEF i, l
<1>3. /\ r \in Members /\ r.active = m.active /\ r.previous = m.previous
      /\ r.control = m.control /\ r.outputs = m.outputs
      /\ r.inUse = m.inUse - tokens /\ r.lent = m.lent - tokens
  BY <1>1, <1>2 DEF Members
<1> HIDE DEF r
<1>4. Held(r) = Held(m) + 0
  BY <1>3, HeldTypes DEF Held
<1>5. r.inUse - Len(r.outputs) - r.lent = m.inUse - Len(m.outputs) - m.lent + 0
  <2> DEFINE i == m.inUse  o == Len(m.outputs)  l == m.lent
  <2>1. i \in Int /\ o \in Int /\ l \in Int /\ tokens \in Int
    BY <1>1, MemberTypes
  <2>2. r.inUse = i - tokens /\ Len(r.outputs) = o /\ r.lent = l - tokens
    BY <1>3
  <2> HIDE DEF i, o, l
  <2>3. r.inUse - Len(r.outputs) - r.lent = i - o - l + 0
    BY ONLY <2>1, <2>2
  <2>4. QED
    BY <2>3 DEF i, o, l
<1>6. Balanced(r)
  BY <1>1, <1>3, <1>4, <1>5, BalancedBy
<1>7. \A v \in Windows : r[v] = m[v]
  BY <1>3 DEF Windows
<1>8. QED
  BY <1>3, <1>6, <1>7 DEF Fine, Good, Fitting, r

(* open_active finds no context, or opens the CPI with one of the pool.    *)
LEMMA OpenedKeeps ==
  ASSUME NEW m, spec \in Specs, Fine(m, spec), m.active = None, NEW c \in Ids,
         NEW tokens \in 0 .. m.lent
  PROVE  LET r == Opened(m, c, tokens)
         IN  Fine(r, spec) /\ (~r.error => r.active # None /\ r.active.cpi = c)
<1> DEFINE drained == IF m.inUse < Depth THEN m
                      ELSE [m EXCEPT !.inUse = @ - tokens, !.lent = @ - tokens]
           d == OpenSnapshot(c, spec, m.control)
           r == Opened(m, c, tokens)
<1>1. Fine(drained, spec) /\ drained.active = None /\ drained.control = m.control
  BY DrainedKeeps
<1>2. d \in Snapshots /\ (BindingsAreSound => Fit(d, spec))
  <2>1. m.control \in Snapshots
    BY MemberTypes DEF Fine, Good
  <2>2. BindingsAreSound => (m.control.valid => Fit(m.control, spec))
    BY DEF Fine, Fitting
  <2>3. QED
    BY <2>1, <2>2, OpenSnapshotFits
<1>3. r = IF drained.inUse = Depth THEN [drained EXCEPT !.error = TRUE]
          ELSE [drained EXCEPT !.inUse = @ + 1, !.active = NewContext(c, d), !.control = d]
  BY DEF Opened
<1>4. drained \in Members /\ Balanced(drained)
  BY <1>1 DEF Fine, Good
<1> HIDE DEF drained, d, r
<1>5. CASE drained.inUse = Depth
  <2>1. /\ r \in Members /\ r.active = drained.active /\ r.previous = drained.previous
        /\ r.control = drained.control /\ r.outputs = drained.outputs
        /\ r.inUse = drained.inUse /\ r.lent = drained.lent /\ r.error
    BY <1>3, <1>4, <1>5 DEF Members
  <2>2. Held(r) = Held(drained)
    BY <2>1 DEF Held
  <2>3. Balanced(r)
    BY <1>4, <2>1, <2>2 DEF Balanced
  <2>4. \A v \in Windows : r[v] = drained[v]
    BY <2>1 DEF Windows
  <2>5. QED
    BY <1>1, <2>1, <2>3, <2>4 DEF Fine, Good, Fitting, r
<1>6. CASE drained.inUse # Depth
  <2>1. NewContext(c, d) \in Contexts /\ Consistent(NewContext(c, d)) /\ NewContext(c, d) # None
    BY <1>2, NewContextFacts, CoordinatorAssumption
  <2>2. drained.inUse + 1 \in 0 .. Depth
    <3>1. drained.inUse \in 0 .. Depth /\ Depth \in Nat
      BY <1>4, MemberTypes
    <3>2. QED
      BY <1>6, <3>1
  <2>3. /\ r \in Members /\ r.active = NewContext(c, d) /\ r.previous = drained.previous
        /\ r.control = d /\ r.outputs = drained.outputs
        /\ r.inUse = drained.inUse + 1 /\ r.lent = drained.lent
    BY <1>2, <1>3, <1>4, <1>6, <2>1, <2>2 DEF Members
  <2>4. Held(r) = Held(drained) + 1
    <3>1. \A v \in Windows : v # "active" => drained[v] = r[v]
      BY <2>3 DEF Windows
    <3>2. QED
      BY <1>1, <2>1, <2>3, <3>1, HeldWithout DEF Windows
  <2>5. r.inUse - Len(r.outputs) - r.lent = drained.inUse - Len(drained.outputs) - drained.lent + 1
    <3> DEFINE i == drained.inUse  o == Len(drained.outputs)  l == drained.lent
    <3>1. i \in Int /\ o \in Int /\ l \in Int
      BY <1>4, MemberTypes
    <3>2. r.inUse = i + 1 /\ Len(r.outputs) = o /\ r.lent = l
      BY <2>3
    <3> HIDE DEF i, o, l
    <3>3. r.inUse - Len(r.outputs) - r.lent = i - o - l + 1
      BY ONLY <3>1, <3>2
    <3>4. QED
      BY <3>3 DEF i, o, l
  <2>6. Balanced(r)
    BY <1>4, <2>3, <2>4, <2>5, BalancedBy
  <2>7. \A v \in Windows : r[v] = NewContext(c, d) \/ r[v] = drained["previous"]
    BY <2>3 DEF Windows
  <2>8. \A v \in Windows : r[v] # None => Consistent(r[v])
    BY <1>1, <2>1, <2>7 DEF Fine, Good, Windows
  <2>9. ASSUME BindingsAreSound
        PROVE  Fitting(r, spec)
    <3>1. FitWindow(NewContext(c, d), spec)
      BY <1>2, <2>9, ContextAssumption DEF FitWindow, NewContext, Fit, Snapshots
    <3>2. QED
      BY <1>1, <1>2, <2>3, <2>7, <2>9, <3>1 DEF Fine, Fitting, Windows
  <2>10. r.active # None /\ r.active.cpi = c
    BY <2>1, <2>3 DEF NewContext
  <2>11. QED
    BY <2>3, <2>6, <2>8, <2>9, <2>10 DEF Fine, Good, r
<1>7. QED
  BY <1>5, <1>6

-----------------------------------------------------------------------------
(* The handlers *)

LEMMA AdmittedKeeps ==
  ASSUME NEW m, spec \in Specs, Fine(m, spec), m.active # None,
         NEW pkt \in DataPacketRecord, NEW tokens \in 0 .. m.lent
  PROVE  Fine(Admitted(m, pkt, tokens), spec)
<1> DEFINE verdict == Judge(pkt.cpi, m.active.cpi, m.closed)
           closed == Finalized(m, "previous", {"CpiSwitch"})
           switched == Opened(Rotated(closed), pkt.cpi, tokens)
<1>1. CASE verdict = "WRITE_ACTIVE"
  BY <1>1, WrittenToActiveKeeps DEF Admitted
<1>2. CASE verdict = "TRIGGER_CPI_SWITCH"
  <2>1. Fine(closed, spec)
    BY FinalizedFits DEF Windows
  <2>2. closed["previous"] = None /\ closed.lent = m.lent
    BY FinalizedKeeps DEF Windows, Fine
  <2> HIDE DEF closed
  <2>3. Fine(Rotated(closed), spec) /\ Rotated(closed).active = None
        /\ Rotated(closed).lent = m.lent
    BY <2>1, <2>2, RotatedKeeps
  <2>4. pkt.cpi \in Ids
    BY DEF DataPacketRecord
  <2>5. Fine(switched, spec) /\ (~switched.error => switched.active # None)
    BY <2>3, <2>4, OpenedKeeps
  <2>6. Admitted(m, pkt, tokens)
          = IF switched.error THEN switched ELSE WrittenToActive(switched, pkt)
    BY <1>2 DEF Admitted, closed
  <2> HIDE DEF switched
  <2>7. QED
    BY <2>5, <2>6, WrittenToActiveKeeps
<1>3. CASE verdict \notin {"WRITE_ACTIVE", "TRIGGER_CPI_SWITCH"}
  BY <1>3, WrittenToPreviousKeeps DEF Admitted
<1>4. QED
  BY <1>1, <1>2, <1>3

LEMMA DataProcessedKeeps ==
  ASSUME NEW m, spec \in Specs, Fine(m, spec),
         NEW pkt \in DataPacketRecord, NEW tokens \in 0 .. m.lent
  PROVE  Fine(DataProcessed(m, pkt, tokens), spec)
<1> DEFINE opened == Opened(m, pkt.cpi, tokens)
<1>1. CASE m.active = None /\ Contains(m.closed, pkt.cpi)
  BY <1>1 DEF DataProcessed
<1>2. CASE m.active = None /\ ~Contains(m.closed, pkt.cpi)
  <2>1. pkt.cpi \in Ids
    BY DEF DataPacketRecord
  <2>2. /\ Fine(opened, spec)
        /\ ~opened.error => opened.active # None /\ opened.active.cpi = pkt.cpi
    BY <1>2, <2>1, OpenedKeeps
  <2>3. DataProcessed(m, pkt, tokens)
          = IF opened.error THEN opened ELSE Admitted(opened, pkt, tokens)
    BY <1>2 DEF DataProcessed
  <2> HIDE DEF opened
  <2>4. CASE opened.error
    BY <2>2, <2>3, <2>4
  <2>5. CASE ~opened.error
    <3>1. Judge(pkt.cpi, opened.active.cpi, opened.closed) = "WRITE_ACTIVE"
      BY <2>2, <2>5 DEF Judge
    <3>2. DataProcessed(m, pkt, tokens) = WrittenToActive(opened, pkt)
      BY <2>3, <2>5, <3>1 DEF Admitted
    <3>3. QED
      BY <2>2, <2>5, <3>2, WrittenToActiveKeeps
  <2>6. QED
    BY <2>4, <2>5
<1>3. CASE m.active # None
  BY <1>3, AdmittedKeeps DEF DataProcessed
<1>4. QED
  BY <1>1, <1>2, <1>3

(* A control packet rebinds a context only to what it already has room for.*)
LEMMA MergedKeeps ==
  ASSUME NEW ctx \in Contexts, Consistent(ctx), NEW candidate \in Snapshots, NEW s,
         BindingsAreSound => FitWindow(ctx, s) /\ Fit(candidate, s)
  PROVE  LET r == Merged(ctx, candidate)
         IN  /\ r \in Contexts /\ Consistent(r) /\ r.control \in Snapshots
             /\ BindingsAreSound => FitWindow(r, s)
<1> DEFINE r == Merged(ctx, candidate)
<1>1. PICK d \in Snapshots :
        /\ r = [ctx EXCEPT !.control = d]
        /\ \/ /\ d.n = ctx.control.n /\ d.valid = ctx.control.valid
              /\ d.source = ctx.control.source
           \/ /\ d = candidate /\ candidate.source = "control" /\ candidate.valid
              /\ (ctx.control.source = "provisional" => candidate.n >= ctx.observed)
              /\ ctx.control.source # "control"
           \/ d = candidate /\ ctx.control.source = "fixed"
  BY MergedFacts
<1>2. /\ r \in Contexts /\ r.control = d /\ Consistent(r) /\ r.observed = ctx.observed
  BY <1>1, RebindingIsConsistent
<1> HIDE DEF r
<1>3. ASSUME BindingsAreSound
      PROVE  FitWindow(r, s)
  <2>1. /\ FitWindow(ctx, s) /\ Fit(candidate, s)
        /\ ctx.control.source \in {"fixed", "provisional", "control"}
        /\ ctx.observed \in Nat /\ candidate.n \in Nat
    BY <1>3 DEF Contexts, Snapshots
  <2>2. CASE d.n = ctx.control.n /\ d.valid = ctx.control.valid
             /\ d.source = ctx.control.source
    BY <1>2, <2>1, <2>2 DEF FitWindow, Fit
  <2>3. CASE /\ d = candidate /\ candidate.source = "control"
             /\ (ctx.control.source = "provisional" => candidate.n >= ctx.observed)
             /\ ctx.control.source # "control"
    <3>1. s.dynamic /\ ctx.control.source = "provisional"
      BY <2>1, <2>3 DEF FitWindow, Fit
    <3>2. QED
      BY <1>2, <2>1, <2>3, <3>1 DEF FitWindow
  <2>4. CASE d = candidate /\ ctx.control.source = "fixed"
    <3>1. candidate.n = ctx.control.n
      BY <2>1, <2>4 DEF FitWindow, Fit
    <3>2. QED
      BY <1>2, <2>1, <2>4, <3>1 DEF FitWindow
  <2>5. QED
    BY <1>1, <2>2, <2>3, <2>4
<1>4. QED
  BY <1>2, <1>3 DEF r

LEMMA ControlProcessedKeeps ==
  ASSUME NEW m, NEW s, Fine(m, s), NEW candidate \in Snapshots,
         BindingsAreSound => Fit(candidate, s)
  PROVE  Fine(ControlProcessed(m, candidate), s)
<1> DEFINE r == ControlProcessed(m, candidate)
<1>1. m \in Members /\ Balanced(m)
  BY DEF Fine, Good
<1>2. ASSUME NEW q, q \in Members, Balanced(q),
             NEW n \in Members, n.active = q.active, n.previous = q.previous,
             n.inUse = q.inUse, n.outputs = q.outputs, n.lent = q.lent,
             Fine(q, s), BindingsAreSound => (n.control.valid => Fit(n.control, s))
      PROVE  Fine(n, s)
  <2>1. Held(n) = Held(q)
    BY <1>2 DEF Held
  <2>2. Balanced(n)
    BY <1>2, <2>1 DEF Balanced
  <2>3. \A v \in Windows : n[v] = q[v]
    BY <1>2 DEF Windows
  <2>4. QED
    BY <1>2, <2>2, <2>3 DEF Fine, Good, Fitting
<1>3. CASE m.active # None /\ m.active.cpi = candidate.cpi
  <2> DEFINE merged == Merged(m.active, candidate)
             q == [m EXCEPT !["active"] = merged]
  <2>1. /\ m.active \in Contexts /\ Consistent(m.active)
        /\ BindingsAreSound => FitWindow(m.active, s)
    BY <1>1, <1>3, MemberTypes DEF Fine, Good, Fitting, Windows
  <2>2. /\ merged \in Contexts /\ Consistent(merged) /\ merged.control \in Snapshots
        /\ BindingsAreSound => FitWindow(merged, s)
    BY <2>1, MergedKeeps
  <2>3. r = [m EXCEPT !.active = merged, !.control = merged.control]
    BY <1>3 DEF ControlProcessed
  <2> HIDE DEF merged
  <2>4. Fine(q, s) /\ q["active"] = merged
    BY <1>3, <2>2, WindowReplaced DEF Windows
  <2>5. q \in Members /\ Balanced(q)
    BY <2>4 DEF Fine, Good
  <2>6. /\ r \in Members /\ r.active = q.active /\ r.previous = q.previous
        /\ r.inUse = q.inUse /\ r.outputs = q.outputs /\ r.lent = q.lent
        /\ r.control = merged.control
    BY <1>1, <2>2, <2>3 DEF Members
  <2> HIDE DEF q, r
  <2>7. QED
    BY <1>2, <2>2, <2>4, <2>5, <2>6 DEF FitWindow, r
<1>4. CASE /\ ~(m.active # None /\ m.active.cpi = candidate.cpi)
           /\ m.previous # None /\ m.previous.cpi = candidate.cpi
  <2> DEFINE merged == Merged(m.previous, candidate)
  <2>1. /\ m.previous \in Contexts /\ Consistent(m.previous)
        /\ BindingsAreSound => FitWindow(m.previous, s)
    BY <1>1, <1>4, MemberTypes DEF Fine, Good, Fitting, Windows
  <2>2. /\ merged \in Contexts /\ Consistent(merged)
        /\ BindingsAreSound => FitWindow(merged, s)
    BY <2>1, MergedKeeps
  <2>3. r = [m EXCEPT !["previous"] = merged]
    BY <1>4 DEF ControlProcessed
  <2> HIDE DEF merged, r
  <2>4. "previous" \in Windows /\ m["previous"] # None
    BY <1>4 DEF Windows
  <2>5. Fine([m EXCEPT !["previous"] = merged], s)
    BY <2>2, <2>4, WindowReplaced
  <2>6. QED
    BY <2>3, <2>5 DEF r
<1>5. CASE /\ ~(m.active # None /\ m.active.cpi = candidate.cpi)
           /\ ~(m.previous # None /\ m.previous.cpi = candidate.cpi)
  <2>1. r = [m EXCEPT !.control = candidate]
    BY <1>5 DEF ControlProcessed
  <2>2. /\ r \in Members /\ r.active = m.active /\ r.previous = m.previous
        /\ r.inUse = m.inUse /\ r.outputs = m.outputs /\ r.lent = m.lent
        /\ r.control = candidate
    BY <1>1, <2>1 DEF Members
  <2> HIDE DEF r
  <2>3. QED
    BY <1>1, <1>2, <2>2 DEF r
<1>6. QED
  BY <1>3, <1>4, <1>5

-----------------------------------------------------------------------------
(* The environment's packets, and the consumer *)

LEMMA WireIds ==
  ASSUME NEW k \in 0 .. Span - 1
  PROVE  WireId(k) \in Ids
<1>1. First + k \in Nat /\ IdMod \in Nat \ {0}
  BY CoordinatorAssumption, ContextAssumption
<1>2. \A a \in Nat, b \in Nat \ {0} : a % b \in 0 .. b - 1
  OBVIOUS
<1>3. QED
  BY <1>1, <1>2 DEF WireId, Ids

LEMMA DataPacketTypes ==
  ASSUME NEW k \in 0 .. Span - 1
  PROVE  DataPackets(k) \subseteq DataPacketRecord
<1>1. WireId(k) \in Ids /\ DataPrts \subseteq Nat
  BY WireIds, CoordinatorAssumption
<1>2. 0 .. Channels - 1 \subseteq Nat /\ 1 .. Packets \subseteq Nat
  BY ContextAssumption
<1>3. QED
  BY <1>1, <1>2 DEF DataPackets, DataPacketRecord

LEMMA ControlSnapshotFits ==
  ASSUME NEW c \in Ids, NEW s \in Specs, NEW n \in ControlPrts
  PROVE  LET d == ControlSnapshot(c, n, s)
         IN  d \in Snapshots /\ (BindingsAreSound => Fit(d, s))
<1>1. /\ s.dynamic \in BOOLEAN /\ s.expected \in Nat /\ s.max \in Nat /\ MaxPrt \in Nat \ {0}
      /\ n \in Nat
  BY CoordinatorAssumption, ContextAssumption
<1>2. /\ Lesser(s.expected, MaxPrt) \in 0 .. MaxPrt
      /\ Lesser(s.max, MaxPrt) \in 0 .. MaxPrt
      /\ s.expected > 0 => Lesser(s.expected, MaxPrt) > 0
  BY <1>1 DEF Lesser
<1>3. CASE s.dynamic /\ n \in 1 .. Lesser(s.max, MaxPrt)
  <2>1. n \in 0 .. MaxPrt /\ n > 0
    BY <1>1, <1>2, <1>3
  <2>2. ControlSnapshot(c, n, s) = Snapshot(c, n, "control")
    BY <1>3 DEF ControlSnapshot
  <2>3. Snapshot(c, n, "control") \in Snapshots
    BY <2>1 DEF Snapshot, Snapshots
  <2>4. Fit(Snapshot(c, n, "control"), s)
    BY <1>3, <2>1 DEF Snapshot, Fit
  <2>5. QED
    BY <2>2, <2>3, <2>4
<1>4. CASE ~s.dynamic
  <2> DEFINE e == Lesser(s.expected, MaxPrt)
  <2>1. ControlSnapshot(c, n, s) = Snapshot(c, e, "fixed")
    BY <1>4 DEF ControlSnapshot, FixedSnapshot
  <2>2. e \in 0 .. MaxPrt /\ (BindingsAreSound => e > 0)
    BY <1>2, <1>4 DEF BindingsAreSound
  <2>3. Snapshot(c, e, "fixed") \in Snapshots
    BY <2>2 DEF Snapshot, Snapshots
  <2>4. BindingsAreSound => Fit(Snapshot(c, e, "fixed"), s)
    BY <1>4, <2>2 DEF Snapshot, Fit
  <2>5. QED
    BY <2>1, <2>3, <2>4
<1>5. CASE s.dynamic /\ n \notin 1 .. Lesser(s.max, MaxPrt)
  <2>1. ControlSnapshot(c, n, s) \in Snapshots
    BY <1>1, <1>2, <1>5 DEF ControlSnapshot, FixedSnapshot, Snapshot, Snapshots
  <2>2. ~BindingsAreSound
    BY <1>5 DEF BindingsAreSound
  <2>3. QED
    BY <2>1, <2>2
<1>6. QED
  BY <1>1, <1>3, <1>4, <1>5

LEMMA TakenKeeps ==
  ASSUME NEW m, NEW s, Fine(m, s), m.outputs # <<>>
  PROVE  Fine([m EXCEPT !.outputs = Tail(@), !.lent = @ + 1], s)
<1> DEFINE r == [m EXCEPT !.outputs = Tail(@), !.lent = @ + 1]
<1>1. m \in Members /\ Balanced(m) /\ m.outputs \in Seq(Outputs)
  BY MemberTypes DEF Fine, Good
<1>2. /\ Tail(m.outputs) \in Seq(Outputs) /\ Len(Tail(m.outputs)) = Len(m.outputs) - 1
      /\ Len(m.outputs) \in Nat \ {0}
      /\ \A i \in DOMAIN Tail(m.outputs) :
           i + 1 \in DOMAIN m.outputs /\ Tail(m.outputs)[i] = m.outputs[i + 1]
  BY <1>1
<1>3. m.lent + 1 \in 0 .. Depth /\ Len(m.outputs) - 1 <= OutputCapacity
  <2> DEFINE i == m.inUse  h == Held(m)  o == Len(m.outputs)  l == m.lent
  <2>1. /\ i \in 0 .. Depth /\ l \in 0 .. Depth /\ h \in 0 .. 2 /\ o \in Nat \ {0}
        /\ Depth \in Nat /\ OutputCapacity \in Nat
        /\ i = h + o + l /\ o <= OutputCapacity
    BY <1>1, <1>2, MemberTypes, HeldTypes DEF Balanced
  <2> HIDE DEF i, h, o, l
  <2>2. l + 1 \in 0 .. Depth /\ o - 1 <= OutputCapacity
    BY ONLY <2>1
  <2>3. QED
    BY <2>2 DEF l, o
<1>4. /\ r \in Members /\ r.active = m.active /\ r.previous = m.previous
      /\ r.control = m.control /\ r.inUse = m.inUse
      /\ r.outputs = Tail(m.outputs) /\ r.lent = m.lent + 1
  BY <1>1, <1>2, <1>3 DEF Members
<1> HIDE DEF r
<1>5. Held(r) = Held(m) + 0
  BY <1>4, HeldTypes DEF Held
<1>6. r.inUse - Len(r.outputs) - r.lent = m.inUse - Len(m.outputs) - m.lent + 0
  <2> DEFINE i == m.inUse  o == Len(m.outputs)  l == m.lent
  <2>1. i \in Int /\ o \in Int /\ l \in Int
    BY <1>1, MemberTypes
  <2>2. r.inUse = i /\ Len(r.outputs) = o - 1 /\ r.lent = l + 1
    BY <1>2, <1>4
  <2> HIDE DEF i, o, l
  <2>3. r.inUse - Len(r.outputs) - r.lent = i - o - l + 0
    BY ONLY <2>1, <2>2
  <2>4. QED
    BY <2>3 DEF i, o, l
<1>7. Balanced(r)
  <2>1. 0 \in Int /\ m \in Members /\ r \in Members /\ Balanced(m)
    BY <1>1, <1>4
  <2>2. QED
    BY ONLY <2>1, <1>5, <1>6, BalancedBy
<1>8. \A v \in Windows : r[v] = m[v]
  BY <1>4 DEF Windows
<1>9. ASSUME BindingsAreSound
      PROVE  Fitting(r, s)
  <2>1. Fitting(m, s)
    BY <1>9 DEF Fine
  <2>2. \A i \in DOMAIN r.outputs : Truthful(r.outputs[i])
    BY <1>2, <1>4, <2>1 DEF Fitting
  <2>3. QED
    BY <1>4, <1>8, <2>1, <2>2 DEF Fitting
<1>10. QED
  BY <1>4, <1>7, <1>8, <1>9 DEF Fine, Good, r

-----------------------------------------------------------------------------
(* The inductive invariant *)

CoordinatorInvariant ==
  /\ spec \in Specs /\ stopped \in BOOLEAN /\ overtaken \in BOOLEAN
  /\ newest \in 0 .. Span
  /\ Fine(coord, spec)

LEMMA InitEstablishesInvariant == Init => CoordinatorInvariant
<1> SUFFICES ASSUME Init
             PROVE  CoordinatorInvariant
  OBVIOUS
<1>1. /\ NoControl \in Snapshots /\ ~NoControl.valid
      /\ Depth \in Nat /\ OutputCapacity \in Nat /\ Span \in Nat /\ ClosedDepth \in Nat
  <2>1. /\ MaxPrt \in Nat \ {0} /\ IdMod \in Nat \ {0} /\ ClosedDepth \in Nat \ {0}
        /\ Depth \in Nat \ {0} /\ OutputCapacity \in Nat \ {0} /\ Span \in 1 .. IdMod
    BY CoordinatorAssumption, ContextAssumption
  <2>2. 0 \in Ids /\ 0 \in 0 .. MaxPrt /\ (0 > 0) = FALSE /\ Span \in Nat
    BY <2>1 DEF Ids
  <2>3. NoControl = [cpi |-> 0, n |-> 0, valid |-> FALSE, source |-> "fixed", conflict |-> FALSE]
    BY <2>2 DEF NoControl, Snapshot
  <2>4. QED
    BY <2>1, <2>2, <2>3 DEF Snapshots
<1>2. /\ coord.active = None /\ coord.previous = None /\ coord.control = NoControl
      /\ coord.inUse = 0 /\ coord.outputs = <<>> /\ coord.lent = 0
  BY DEF Init
<1>3. coord \in Members
  <2>1. <<>> \in {closed \in Seq(Ids) : Len(closed) <= ClosedDepth}
    BY <1>1
  <2>2. <<>> \in {outputs \in Seq(Outputs) : Len(outputs) <= OutputCapacity}
    BY <1>1
  <2>3. QED
    BY <1>1, <2>1, <2>2 DEF Init, Members
<1>4. Held(coord) = 0 /\ Balanced(coord)
  BY <1>2 DEF Held, Balanced
<1>5. \A w \in Windows : coord[w] = None
  BY <1>2 DEF Windows
<1>6. Fine(coord, spec)
  BY <1>1, <1>2, <1>3, <1>4, <1>5 DEF Fine, Good, Fitting
<1>7. /\ spec \in Specs /\ stopped \in BOOLEAN /\ overtaken \in BOOLEAN
      /\ newest \in 0 .. Span
  <2>1. newest = 0 /\ stopped = FALSE /\ overtaken = FALSE /\ spec \in Specs
    BY DEF Init
  <2>2. 0 \in 0 .. Span
    BY <1>1
  <2>3. QED
    BY <2>1, <2>2, Zenon
<1>8. QED
  BY <1>6, <1>7 DEF CoordinatorInvariant

LEMMA NextKeepsInvariant ==
  CoordinatorInvariant /\ [Next]_vars => CoordinatorInvariant'
<1> SUFFICES ASSUME CoordinatorInvariant, [Next]_vars
             PROVE  CoordinatorInvariant'
  OBVIOUS
<1> USE DEF CoordinatorInvariant
<1>1. coord \in Members /\ coord.lent \in 0 .. Depth
  BY MemberTypes DEF Fine, Good
<1>2. ASSUME NEW k \in Reachable, Sent(k)
      PROVE  k \in 0 .. Span - 1 /\ newest' \in 0 .. Span
  BY <1>2, CoordinatorAssumption DEF Reachable, Sent
<1>3. CASE DataPacket
  <2>1. PICK k \in Reachable :
          /\ Sent(k) /\ overtaken' = (overtaken \/ k + 1 < newest)
          /\ \E pkt \in DataPackets(k), tokens \in Tokens :
               coord' = DataProcessed(coord, pkt, tokens)
    BY <1>3 DEF DataPacket
  <2>2. PICK pkt \in DataPackets(k), tokens \in Tokens :
          coord' = DataProcessed(coord, pkt, tokens)
    BY <2>1
  <2>3. k \in 0 .. Span - 1 /\ newest' \in 0 .. Span /\ overtaken' \in BOOLEAN
    BY <1>2, <2>1
  <2>4. pkt \in DataPacketRecord /\ tokens \in 0 .. coord.lent
    BY <1>1, <2>3, DataPacketTypes, CoordinatorAssumption DEF Tokens
  <2>5. Fine(coord', spec)
    BY <2>2, <2>4, DataProcessedKeeps
  <2>6. QED
    BY <1>3, <2>3, <2>5 DEF DataPacket
<1>4. CASE ControlPacket
  <2>1. PICK k \in Reachable, n \in ControlPrts :
          Sent(k) /\ coord' = ControlProcessed(coord, ControlSnapshot(WireId(k), n, spec))
    BY <1>4 DEF ControlPacket
  <2>2. k \in 0 .. Span - 1 /\ newest' \in 0 .. Span
    BY <1>2, <2>1
  <2>3. /\ ControlSnapshot(WireId(k), n, spec) \in Snapshots
        /\ BindingsAreSound => Fit(ControlSnapshot(WireId(k), n, spec), spec)
    BY <2>2, WireIds, ControlSnapshotFits
  <2>4. Fine(coord', spec)
    BY <2>1, <2>3, ControlProcessedKeeps
  <2>5. QED
    BY <1>4, <2>2, <2>4 DEF ControlPacket
<1>5. CASE CheckTimeout
  <2>1. PICK expired \in SUBSET {w \in Windows : Expirable(w)} :
          LET one == IF "previous" \in expired
                     THEN Finalized(coord, "previous", {"Timeout"}) ELSE coord
          IN  coord' = IF "active" \in expired
                       THEN Finalized(one, "active", {"Timeout"}) ELSE one
    BY <1>5 DEF CheckTimeout
  <2> DEFINE one == IF "previous" \in expired
                    THEN Finalized(coord, "previous", {"Timeout"}) ELSE coord
  <2>2. Fine(one, spec)
    BY FinalizedFits DEF Windows
  <2>3. coord' = IF "active" \in expired THEN Finalized(one, "active", {"Timeout"}) ELSE one
    BY <2>1
  <2> HIDE DEF one
  <2>4. Fine(coord', spec)
    BY <2>2, <2>3, FinalizedFits DEF Windows
  <2>5. QED
    BY <1>5, <2>4 DEF CheckTimeout
<1>6. CASE DrainRecycle
  <2>1. PICK tokens \in 1 .. coord.lent :
          coord' = [coord EXCEPT !.inUse = @ - tokens, !.lent = @ - tokens]
    BY <1>6 DEF DrainRecycle
  <2>2. tokens \in 0 .. coord.lent
    BY <1>1, <2>1, CoordinatorAssumption
  <2>3. Fine(coord', spec)
    BY <2>1, <2>2, DrainedKeeps
  <2>4. QED
    BY <1>6, <2>3 DEF DrainRecycle
<1>7. CASE Shutdown
  <2> DEFINE one == Finalized(coord, "previous", {"Stop"})
  <2>1. Fine(one, spec)
    BY FinalizedFits DEF Windows
  <2>2. coord' = Finalized(one, "active", {"Stop"})
    BY <1>7 DEF Shutdown
  <2> HIDE DEF one
  <2>3. Fine(coord', spec)
    BY <2>1, <2>2, FinalizedFits DEF Windows
  <2>4. QED
    BY <1>7, <2>3 DEF Shutdown
<1>8. CASE ConsumerTakes
  <2>1. Fine(coord', spec)
    BY <1>8, TakenKeeps DEF ConsumerTakes
  <2>2. QED
    BY <1>8, <2>1 DEF ConsumerTakes
<1>9. CASE UNCHANGED vars
  BY <1>9 DEF vars
<1>10. QED
  BY <1>3, <1>4, <1>5, <1>6, <1>7, <1>8, <1>9 DEF Next

(* The coordinator's members stay in their types whatever packets come:    *)
(* the pool is never overdrawn, the rings hold no more than their          *)
(* capacity, the decisions of every output are among the three.            *)
THEOREM CoordinatorTypes == Spec => []TypeOK
<1>1. CoordinatorInvariant => TypeOK
  BY DEF CoordinatorInvariant, Fine, Good, TypeOK
<1>2. QED
  BY <1>1, InitEstablishesInvariant, NextKeepsInvariant, PTL DEF Spec

(* Each context of the pool is in a window, in the output ring or lent,    *)
(* and nowhere twice: no handler loses one, for any pool and any rings.    *)
THEOREM PoolBalancesHolds == Spec => []PoolBalances
<1>1. CoordinatorInvariant => PoolBalances
  <2> SUFFICES ASSUME CoordinatorInvariant
               PROVE  PoolBalances
    OBVIOUS
  <2> DEFINE W == {w \in Windows : coord[w] # None}
  <2>1. Cardinality(W) = Held(coord)
    <3>1. CASE coord.active = None /\ coord.previous = None
      <4>1. W = {}
        BY <3>1 DEF Windows
      <4>2. QED
        BY <3>1, <4>1, FS_EmptySet DEF Held
    <3>2. CASE coord.active # None /\ coord.previous = None
      <4>1. W = {"active"}
        BY <3>2 DEF Windows
      <4> HIDE DEF W
      <4>2. Cardinality(W) = 1
        BY <4>1, FS_Singleton
      <4>3. Held(coord) = 1
        BY <3>2 DEF Held
      <4>4. QED
        BY <4>2, <4>3
    <3>3. CASE coord.active = None /\ coord.previous # None
      <4>1. W = {"previous"}
        BY <3>3 DEF Windows
      <4> HIDE DEF W
      <4>2. Cardinality(W) = 1
        BY <4>1, FS_Singleton
      <4>3. Held(coord) = 1
        BY <3>3 DEF Held
      <4>4. QED
        BY <4>2, <4>3
    <3>4. CASE coord.active # None /\ coord.previous # None
      <4>1. W = {"active"} \cup {"previous"}
        BY <3>4 DEF Windows
      <4>2. IsFiniteSet({"active"}) /\ Cardinality({"active"}) = 1
        BY FS_Singleton
      <4> HIDE DEF W
      <4>3. Cardinality(W) = 1 + 1
        BY <4>1, <4>2, FS_AddElement
      <4>4. QED
        BY <3>4, <4>3 DEF Held
    <3>5. QED
      BY <3>1, <3>2, <3>3, <3>4
  <2>2. coord.inUse = Held(coord) + Len(coord.outputs) + coord.lent
    BY DEF CoordinatorInvariant, Fine, Good, Balanced
  <2>3. QED
    BY <2>1, <2>2 DEF PoolBalances
<1>2. QED
  BY <1>1, InitEstablishesInvariant, NextKeepsInvariant, PTL DEF Spec

(* The counters of both windows agree with their bitmaps.                  *)
THEOREM SummaryMatchesSlotsHolds == Spec => []SummaryMatchesSlots
<1>1. CoordinatorInvariant => SummaryMatchesSlots
  BY DEF CoordinatorInvariant, Fine, Good, SummaryMatchesSlots
<1>2. QED
  BY <1>1, InitEstablishesInvariant, NextKeepsInvariant, PTL DEF Spec

(* What the consumer is told about a CPI is true of the slots it is shown, *)
(* if every CPI is bound to a number of PRTs when it opens and the control *)
(* packets announce numbers that the specification allows.                 *)
THEOREM OutputTruthfulHolds ==
  ASSUME BindingsAreSound
  PROVE  Spec => []OutputTruthful
<1>1. CoordinatorInvariant => OutputTruthful
  BY DEF CoordinatorInvariant, Fine, Fitting, OutputTruthful
<1>2. QED
  BY <1>1, InitEstablishesInvariant, NextKeepsInvariant, PTL DEF Spec

-----------------------------------------------------------------------------
(* The order of the CPIs.  The sender's CPIs are numbered 0, 1, ... from   *)
(* First; their ids do not repeat, as there are no more of them than ids.  *)

LEMMA RemainderOf ==
  ASSUME NEW d \in Nat \ {0}, NEW x \in Nat, NEW q \in Nat, NEW r \in 0 .. d - 1, x = d * q + r
  PROVE  x % d = r
OBVIOUS

LEMMA RemainderIs ==
  ASSUME NEW d \in Nat \ {0}, NEW x \in Nat
  PROVE  /\ x \div d \in Nat /\ d * (x \div d) \in Nat
         /\ x = d * (x \div d) + (x % d) /\ x % d \in 0 .. d - 1
<1>1. x \div d \in Nat /\ d * (x \div d) <= x
  OBVIOUS
<1>2. x - d < d * (x \div d)
  OBVIOUS
<1> DEFINE q == x \div d
           r == x - d * q
<1>3. q \in Nat /\ d * q \in Nat /\ d * q <= x /\ x - d < d * q
  BY <1>1, <1>2
<1> HIDE DEF q
<1>4. r \in 0 .. d - 1 /\ x = d * q + r
  BY <1>3
<1> HIDE DEF r
<1>5. x % d = r
  BY <1>3, <1>4, RemainderOf
<1>6. q \in Nat /\ d * q \in Nat /\ x = d * q + (x % d) /\ x % d \in 0 .. d - 1
  BY <1>3, <1>4, <1>5
<1>7. QED
  BY <1>6 DEF q

(* Two numbers less than d apart have the same remainder only if they are  *)
(* the same.                                                               *)
LEMMA RemainderDistinct ==
  ASSUME NEW d \in Nat \ {0}, NEW x \in Nat, NEW y \in Nat, x <= y, y < x + d, x % d = y % d
  PROVE  x = y
<1> DEFINE p == x \div d
           q == y \div d
           r == x % d
<1>1. /\ p \in Nat /\ d * p \in Nat /\ x = d * p + r /\ r \in 0 .. d - 1
      /\ q \in Nat /\ d * q \in Nat /\ y = d * q + r
  BY RemainderIs
<1> HIDE DEF p, q, r
<1>2. d * (q - p) = d * q - d * p
  BY <1>1
<1>3. d * (q - p) = y - x
  BY <1>1, <1>2
<1>4. q - p >= 1 => d * (q - p) >= d
  BY <1>1
<1>5. q - p < 0 => d * (q - p) < 0
  BY <1>1
<1>6. q = p
  BY <1>1, <1>3, <1>4, <1>5
<1>7. QED
  BY <1>1, <1>6

Wire == {WireId(k) : k \in 0 .. Span - 1}

Number(c) == CHOOSE k \in 0 .. Span - 1 : WireId(k) = c

(* The first n CPIs. *)
Before(c, n) == c \in Wire /\ Number(c) < n

LEMMA NumberOf ==
  ASSUME NEW k \in 0 .. Span - 1
  PROVE  WireId(k) \in Wire /\ WireId(k) \in Ids /\ Number(WireId(k)) = k
<1>1. Span \in 1 .. IdMod /\ First \in Nat /\ IdMod \in Nat \ {0}
  BY CoordinatorAssumption, ContextAssumption
<1>2. ASSUME NEW a \in 0 .. Span - 1, NEW b \in 0 .. Span - 1, a <= b, WireId(a) = WireId(b)
      PROVE  a = b
  <2>1. /\ First + a \in Nat /\ First + b \in Nat /\ First + a <= First + b
        /\ First + b < (First + a) + IdMod
    BY <1>1, <1>2
  <2>2. (First + a) % IdMod = (First + b) % IdMod
    BY <1>2 DEF WireId
  <2>3. First + a = First + b
    BY <1>1, <2>1, <2>2, RemainderDistinct
  <2>4. QED
    BY <1>1, <2>3
<1>3. Number(WireId(k)) \in 0 .. Span - 1 /\ WireId(Number(WireId(k))) = WireId(k)
  BY DEF Number
<1>4. Number(WireId(k)) <= k \/ k <= Number(WireId(k))
  BY <1>1, <1>3
<1>5. Number(WireId(k)) = k
  BY <1>2, <1>3, <1>4
<1>6. QED
  BY <1>5, WireIds DEF Wire

LEMMA NumberTypes ==
  ASSUME NEW c \in Wire
  PROVE  c \in Ids /\ Number(c) \in 0 .. Span - 1 /\ Number(c) \in Nat /\ c = WireId(Number(c))
<1>1. PICK k \in 0 .. Span - 1 : c = WireId(k)
  BY DEF Wire
<1>2. Number(c) = k /\ c \in Ids
  BY <1>1, NumberOf
<1>3. Span \in Nat
  BY CoordinatorAssumption, ContextAssumption
<1>4. QED
  BY <1>1, <1>2, <1>3

-----------------------------------------------------------------------------
(* When the network keeps the CPIs in order: only CPIs the sender has got  *)
(* to were decided, or are in a window; those decided are older than the   *)
(* active one; the previous one is older too and was not decided yet; and  *)
(* the newest CPI, if it was decided, is still in the ring of closed ids.  *)

OnceDecided(m, n) == \A c \in Ids : m.decided[c] < 2 /\ (m.decided[c] > 0 => Before(c, n))

ActiveInOrder(m, n) ==
  m.active # None =>
    /\ Before(m.active.cpi, n)
    /\ \A c \in Ids : m.decided[c] > 0 => Number(c) < Number(m.active.cpi)

PreviousInOrder(m, n) ==
  m.previous # None =>
    /\ Before(m.previous.cpi, n - 1) /\ m.decided[m.previous.cpi] = 0
    /\ m.active # None => Number(m.previous.cpi) < Number(m.active.cpi)

NewestRemembered(m, n) ==
  \A c \in Ids : m.decided[c] > 0 /\ ~Before(c, n - 1) => Contains(m.closed, c)

Ordered(m, n) ==
  /\ OnceDecided(m, n) /\ ActiveInOrder(m, n) /\ PreviousInOrder(m, n)
  /\ NewestRemembered(m, n)

(* Every CPI decided so far is older than the newest.                      *)
AllOlder(m, n) == \A c \in Ids : m.decided[c] > 0 => Before(c, n - 1)

LEMMA WindowIds ==
  ASSUME NEW m \in Members, NEW w \in Windows, m[w] # None
  PROVE  m[w] \in Contexts /\ m[w].cpi \in Ids
BY MemberTypes DEF Contexts

(* The sender goes on to later CPIs. *)
LEMMA LaterOrdered ==
  ASSUME NEW m \in Members, NEW n \in 0 .. Span, NEW l \in 0 .. Span, n <= l, Ordered(m, n)
  PROVE  Ordered(m, l)
<1>1. n \in Int /\ l \in Int /\ m.decided \in [Ids -> 0 .. 2]
  BY CoordinatorAssumption, ContextAssumption, MemberTypes
<1>2. \A c : Before(c, n) => Before(c, l)
  BY <1>1, NumberTypes DEF Before
<1>3. \A c : Before(c, n - 1) => Before(c, l - 1)
  BY <1>1, NumberTypes DEF Before
<1>4. QED
  BY <1>2, <1>3 DEF Ordered, OnceDecided, ActiveInOrder, PreviousInOrder, NewestRemembered

(* Nothing that matters for the order changes. *)
LEMMA SameOrder ==
  ASSUME NEW m, NEW r, NEW n, Ordered(m, n),
         m.active = None <=> r.active = None, m.previous = None <=> r.previous = None,
         m.active # None => r.active.cpi = m.active.cpi,
         m.previous # None => r.previous.cpi = m.previous.cpi,
         r.decided = m.decided, r.closed = m.closed
  PROVE  Ordered(r, n)
BY DEF Ordered, OnceDecided, ActiveInOrder, PreviousInOrder, NewestRemembered

LEMMA RememberedContains ==
  ASSUME NEW closed \in Seq(Ids), NEW c \in Ids
  PROVE  Contains(Remembered(closed, c), c)
<1> DEFINE all == <<c>> \o closed
           n == Lesser(Len(closed) + 1, ClosedDepth)
           q == SubSeq(all, 1, n)
<1>1. all \in Seq(Ids) /\ Len(all) = Len(closed) + 1 /\ all[1] = c
  OBVIOUS
<1>2. n \in 1 .. Len(all)
  BY <1>1, ContextAssumption DEF Lesser
<1> HIDE DEF all, n
<1>3. Len(q) = n /\ q \in Seq(Ids) /\ q[1] = all[1]
  BY <1>1, <1>2
<1>4. 1 \in DOMAIN q
  BY <1>2, <1>3
<1>5. QED
  BY <1>1, <1>3, <1>4 DEF Contains, Remembered, all, n

(* A finalization decides its CPI and remembers it, or neither.            *)
LEMMA FinalizedDecides ==
  ASSUME NEW m \in Members, NEW w \in Windows, NEW trigger
  PROVE  LET r == Finalized(m, w, trigger)
         IN  \/ r.decided = m.decided /\ r.closed = m.closed
             \/ /\ m[w] # None /\ Commits(trigger)
                /\ r.closed = Remembered(m.closed, m[w].cpi)
                /\ r.decided = [m.decided EXCEPT ![m[w].cpi] = Lesser(@ + 1, 2)]
<1> DEFINE r == Finalized(m, w, trigger)
           gone == [m EXCEPT ![w] = None]
           ctx == m[w]
           closed == [gone EXCEPT !.closed = Remembered(@, ctx.cpi),
                                  !.decided[ctx.cpi] = Lesser(@ + 1, 2)]
<1>1. gone \in Members /\ gone.closed = m.closed /\ gone.decided = m.decided
  BY WindowUpdate
<1>2. /\ closed.closed = Remembered(m.closed, ctx.cpi)
      /\ closed.decided = [m.decided EXCEPT ![ctx.cpi] = Lesser(@ + 1, 2)]
      /\ DOMAIN closed = DOMAIN gone
  <2> HIDE DEF gone, ctx
  <2>1. QED
    BY <1>1 DEF Members
<1>3. /\ {"closed", "decided", "inUse", "outputs", "degraded"} \subseteq DOMAIN gone
  <2> HIDE DEF gone
  <2>1. QED
    BY <1>1 DEF Members
<1>4. r = CASE ctx = None -> m
           [] ctx # None /\ ~Commits(trigger) -> [gone EXCEPT !.inUse = @ - 1]
           [] ctx # None /\ Commits(trigger) /\ Len(m.outputs) < OutputCapacity ->
                [closed EXCEPT !.outputs = Append(@, Output(ctx, trigger))]
           [] OTHER -> [closed EXCEPT !.inUse = @ - 1, !.degraded = TRUE]
  BY DEF Finalized
<1> HIDE DEF r, gone, closed, ctx
<1>5. CASE ctx = None
  BY <1>4, <1>5 DEF r, ctx
<1>6. CASE ctx # None /\ ~Commits(trigger)
  BY <1>1, <1>3, <1>4, <1>6 DEF r, ctx
<1>7. CASE ctx # None /\ Commits(trigger) /\ Len(m.outputs) < OutputCapacity
  <2>1. r = [closed EXCEPT !.outputs = Append(@, Output(ctx, trigger))]
    BY <1>4, <1>7
  <2>2. r.closed = closed.closed /\ r.decided = closed.decided
    BY <1>2, <1>3, <2>1
  <2>3. QED
    BY <1>2, <1>7, <2>2 DEF r, ctx
<1>8. CASE ctx # None /\ Commits(trigger) /\ ~(Len(m.outputs) < OutputCapacity)
  <2>1. r = [closed EXCEPT !.inUse = @ - 1, !.degraded = TRUE]
    BY <1>4, <1>8
  <2>2. r.closed = closed.closed /\ r.decided = closed.decided
    BY <1>2, <1>3, <2>1
  <2>3. QED
    BY <1>2, <1>8, <2>2 DEF r, ctx
<1>9. QED
  BY <1>5, <1>6, <1>7, <1>8

LEMMA FinalizedOrdered ==
  ASSUME NEW m, Good(m), NEW n \in 0 .. Span, Ordered(m, n), NEW w \in Windows, NEW trigger,
         m[w] # None /\ Commits(trigger) => AllOlder(m, n)
  PROVE  LET r == Finalized(m, w, trigger)
         IN  Ordered(r, n) /\ (AllOlder(m, n) /\ w = "previous" => AllOlder(r, n))
<1> DEFINE r == Finalized(m, w, trigger)
           x == m[w].cpi
<1>1. m \in Members /\ r \in Members /\ r[w] = None /\ \A v \in Windows : v # w => r[v] = m[v]
  BY FinalizedKeeps DEF Good
<1>2. \/ r.decided = m.decided /\ r.closed = m.closed
      \/ /\ m[w] # None /\ Commits(trigger)
         /\ r.closed = Remembered(m.closed, x)
         /\ r.decided = [m.decided EXCEPT ![x] = Lesser(@ + 1, 2)]
  BY <1>1, FinalizedDecides
<1>3. r.active \in {m.active, None} /\ r.previous \in {m.previous, None}
  <2> HIDE DEF r
  <2>1. QED
    BY <1>1 DEF Windows
<1>4. m.closed \in Seq(Ids) /\ m.decided \in [Ids -> 0 .. 2]
  BY <1>1, MemberTypes
<1> HIDE DEF r, x
<1>5. CASE r.decided = m.decided /\ r.closed = m.closed
  <2>1. OnceDecided(r, n) /\ NewestRemembered(r, n) /\ (AllOlder(m, n) => AllOlder(r, n))
    BY <1>5 DEF Ordered, OnceDecided, NewestRemembered, AllOlder
  <2>2. ActiveInOrder(r, n) /\ PreviousInOrder(r, n)
    BY <1>3, <1>5 DEF Ordered, ActiveInOrder, PreviousInOrder
  <2>3. QED
    BY <2>1, <2>2 DEF Ordered, r
<1>6. CASE /\ m[w] # None /\ Commits(trigger)
           /\ r.closed = Remembered(m.closed, x)
           /\ r.decided = [m.decided EXCEPT ![x] = Lesser(@ + 1, 2)]
  <2>1. x \in Ids /\ AllOlder(m, n) /\ Ordered(m, n)
    BY <1>1, <1>6, WindowIds DEF x
  <2>2. /\ Before(x, n) /\ m.decided[x] = 0
        /\ w = "previous" => Before(x, n - 1)
    <3>1. CASE w = "active"
      <4>1. Before(x, n) /\ \A c \in Ids : m.decided[c] > 0 => Number(c) < Number(x)
        BY <1>6, <2>1, <3>1 DEF Ordered, ActiveInOrder, x
      <4>2. Number(x) \in Nat /\ m.decided[x] \in 0 .. 2
        BY <1>4, <2>1, <4>1, NumberTypes DEF Before
      <4>3. ~(Number(x) < Number(x)) /\ (m.decided[x] > 0 \/ m.decided[x] = 0)
        BY <4>2
      <4>4. QED
        BY <2>1, <3>1, <4>1, <4>3
    <3>2. CASE w = "previous"
      <4>1. Before(x, n - 1) /\ m.decided[x] = 0
        BY <1>6, <2>1, <3>2 DEF Ordered, PreviousInOrder, x
      <4>2. Before(x, n)
        BY <4>1, NumberTypes, CoordinatorAssumption DEF Before
      <4>3. QED
        BY <4>1, <4>2
    <3>3. QED
      BY <3>1, <3>2 DEF Windows
  <2>3. /\ r.decided[x] = 1 /\ \A c \in Ids : c # x => r.decided[c] = m.decided[c]
    <3>1. Lesser(0 + 1, 2) = 1
      BY DEF Lesser
    <3>2. QED
      BY <1>4, <1>6, <2>1, <2>2, <3>1
  <2>4. OnceDecided(r, n)
    BY <2>1, <2>2, <2>3 DEF Ordered, OnceDecided
  <2>5. NewestRemembered(r, n)
    <3>1. Contains(r.closed, x)
      BY <1>4, <1>6, <2>1, RememberedContains
    <3>2. \A c \in Ids : c # x /\ r.decided[c] > 0 => Before(c, n - 1)
      BY <2>1, <2>3 DEF AllOlder
    <3>3. QED
      BY <3>1, <3>2 DEF NewestRemembered
  <2>6. CASE w = "active"
    <3>1. r.active = None /\ r.previous = m.previous
      BY <1>1, <2>6 DEF Windows
    <3>2. ActiveInOrder(r, n)
      BY <3>1 DEF ActiveInOrder
    <3>3. PreviousInOrder(r, n)
      <4>1. SUFFICES ASSUME m.previous # None
                     PROVE  Before(m.previous.cpi, n - 1) /\ r.decided[m.previous.cpi] = 0
        BY <3>1 DEF PreviousInOrder
      <4>2. /\ Before(m.previous.cpi, n - 1) /\ m.decided[m.previous.cpi] = 0
            /\ Number(m.previous.cpi) < Number(x)
        BY <1>6, <2>1, <2>6, <4>1 DEF Ordered, PreviousInOrder, x
      <4>3. m.previous.cpi # x /\ m.previous.cpi \in Ids
        BY <4>2, NumberTypes DEF Before
      <4>4. QED
        BY <2>3, <4>2, <4>3
    <3>4. QED
      BY <2>4, <2>5, <2>6, <3>2, <3>3 DEF Ordered, r
  <2>7. CASE w = "previous"
    <3>1. r.previous = None /\ r.active = m.active
      BY <1>1, <2>7 DEF Windows
    <3>2. PreviousInOrder(r, n)
      BY <3>1 DEF PreviousInOrder
    <3>3. ActiveInOrder(r, n)
      <4>1. SUFFICES ASSUME m.active # None
                     PROVE  /\ Before(m.active.cpi, n)
                            /\ \A c \in Ids : r.decided[c] > 0 => Number(c) < Number(m.active.cpi)
        BY <3>1 DEF ActiveInOrder
      <4>2. Number(x) < Number(m.active.cpi)
        BY <1>6, <2>1, <2>7, <4>1 DEF Ordered, PreviousInOrder, x
      <4>3. /\ Before(m.active.cpi, n)
            /\ \A c \in Ids : m.decided[c] > 0 => Number(c) < Number(m.active.cpi)
        BY <2>1, <4>1 DEF Ordered, ActiveInOrder
      <4>4. QED
        BY <2>3, <4>2, <4>3
    <3>4. AllOlder(r, n)
      BY <2>1, <2>2, <2>3, <2>7 DEF AllOlder
    <3>5. QED
      BY <2>4, <2>5, <3>2, <3>3, <3>4 DEF Ordered, r
  <2>8. QED
    BY <2>6, <2>7 DEF Windows
<1>7. QED
  BY <1>2, <1>5, <1>6

(* The active CPI moves to the previous window when a later one is coming. *)
LEMMA RotatedOrdered ==
  ASSUME NEW m, m \in Members, NEW n \in 0 .. Span, Ordered(m, n),
         m.active # None, Before(m.active.cpi, n - 1)
  PROVE  Ordered(Rotated(m), n)
<1> DEFINE r == Rotated(m)
<1>1. /\ r.active = None /\ r.previous = m.active
      /\ r.closed = m.closed /\ r.decided = m.decided
  BY DEF Rotated, Members
<1>2. /\ Before(m.active.cpi, n)
      /\ \A c \in Ids : m.decided[c] > 0 => Number(c) < Number(m.active.cpi)
  BY DEF Ordered, ActiveInOrder
<1>3. m.decided[m.active.cpi] = 0
  <2>1. m.active.cpi \in Ids /\ Number(m.active.cpi) \in Nat
    BY <1>2, NumberTypes DEF Before
  <2>2. m.decided[m.active.cpi] \in 0 .. 2
    BY <2>1, MemberTypes
  <2>3. ~(Number(m.active.cpi) < Number(m.active.cpi))
    BY <2>1
  <2>4. QED
    BY <1>2, <2>1, <2>2, <2>3
<1> HIDE DEF r
<1>4. ActiveInOrder(r, n) /\ PreviousInOrder(r, n)
  BY <1>1, <1>3 DEF ActiveInOrder, PreviousInOrder
<1>5. OnceDecided(r, n) /\ NewestRemembered(r, n)
  BY <1>1 DEF Ordered, OnceDecided, NewestRemembered
<1>6. QED
  BY <1>4, <1>5 DEF Ordered, r

(* The newest CPI opens, if it was not decided. *)
LEMMA OpenedFacts ==
  ASSUME NEW m, spec \in Specs, Fine(m, spec), m.active = None, NEW c \in Ids,
         NEW tokens \in 0 .. m.lent
  PROVE  LET r == Opened(m, c, tokens)
         IN  /\ r.previous = m.previous /\ r.closed = m.closed /\ r.decided = m.decided
             /\ r.active = None \/ (r.active # None /\ r.active.cpi = c)
<1> DEFINE drained == IF m.inUse < Depth THEN m
                      ELSE [m EXCEPT !.inUse = @ - tokens, !.lent = @ - tokens]
           d == OpenSnapshot(c, spec, m.control)
           r == Opened(m, c, tokens)
<1>1. m \in Members
  BY DEF Fine, Good
<1>2. /\ Fine(drained, spec) /\ drained.active = None /\ drained.previous = m.previous
      /\ drained.closed = m.closed /\ drained.decided = m.decided
  <2>1. CASE m.inUse < Depth
    BY <2>1
  <2>2. CASE ~(m.inUse < Depth)
    <3>1. drained = [m EXCEPT !.inUse = @ - tokens, !.lent = @ - tokens]
      BY <2>2
    <3>2. Fine(drained, spec) /\ drained.active = None /\ drained.previous = m.previous
      BY <3>1, DrainedKeeps
    <3>3. drained.closed = m.closed /\ drained.decided = m.decided
      BY <1>1, <3>1 DEF Members
    <3>4. QED
      BY <3>2, <3>3
  <2>3. QED
    BY <2>1, <2>2
<1>3. r = IF drained.inUse = Depth THEN [drained EXCEPT !.error = TRUE]
          ELSE [drained EXCEPT !.inUse = @ + 1, !.active = NewContext(c, d), !.control = d]
  BY DEF Opened
<1>4. drained \in Members
  BY <1>2 DEF Fine, Good
<1>5. d \in Snapshots
  <2>1. m.control \in Snapshots /\ (BindingsAreSound => (m.control.valid => Fit(m.control, spec)))
    BY <1>1, MemberTypes DEF Fine, Fitting
  <2>2. QED
    BY <2>1, OpenSnapshotFits
<1>6. NewContext(c, d) # None /\ NewContext(c, d).cpi = c
  BY <1>5, NewContextFacts, CoordinatorAssumption DEF NewContext
<1> HIDE DEF drained, d, r
<1>7. CASE drained.inUse = Depth
  <2>1. r = [drained EXCEPT !.error = TRUE]
    BY <1>3, <1>7
  <2>2. /\ r.active = drained.active /\ r.previous = drained.previous
        /\ r.closed = drained.closed /\ r.decided = drained.decided
    BY <1>4, <2>1 DEF Members
  <2>3. QED
    BY <1>2, <2>2 DEF r
<1>8. CASE drained.inUse # Depth
  <2>1. r = [drained EXCEPT !.inUse = @ + 1, !.active = NewContext(c, d), !.control = d]
    BY <1>3, <1>8
  <2>2. /\ r.active = NewContext(c, d) /\ r.previous = drained.previous
        /\ r.closed = drained.closed /\ r.decided = drained.decided
    BY <1>4, <2>1 DEF Members
  <2>3. QED
    BY <1>2, <1>6, <2>2 DEF r
<1>9. QED
  BY <1>7, <1>8

LEMMA OpenedOrdered ==
  ASSUME NEW m, spec \in Specs, Fine(m, spec), m.active = None,
         NEW k \in 0 .. Span - 1, Ordered(m, k + 1), m.decided[WireId(k)] = 0,
         NEW tokens \in 0 .. m.lent
  PROVE  Ordered(Opened(m, WireId(k), tokens), k + 1)
<1> DEFINE c == WireId(k)
           r == Opened(m, c, tokens)
<1>1. c \in Ids /\ c \in Wire /\ Number(c) = k /\ k \in Nat /\ (k + 1) - 1 = k
  BY NumberOf, CoordinatorAssumption
<1>2. /\ r.previous = m.previous /\ r.closed = m.closed /\ r.decided = m.decided
      /\ r.active = None \/ (r.active # None /\ r.active.cpi = c)
  BY <1>1, OpenedFacts
<1> HIDE DEF c, r
<1>3. OnceDecided(r, k + 1) /\ NewestRemembered(r, k + 1)
  BY <1>2 DEF Ordered, OnceDecided, NewestRemembered
<1>4. CASE r.active = None
  <2>1. ActiveInOrder(r, k + 1) /\ PreviousInOrder(r, k + 1)
    BY <1>2, <1>4 DEF Ordered, ActiveInOrder, PreviousInOrder
  <2>2. QED
    BY <1>3, <2>1 DEF Ordered, r, c
<1>5. CASE r.active # None /\ r.active.cpi = c
  <2>1. Before(c, k + 1)
    BY <1>1 DEF Before
  <2>2. \A x \in Ids : m.decided[x] > 0 => Number(x) < k
    <3> SUFFICES ASSUME NEW x \in Ids, m.decided[x] > 0
                 PROVE  Number(x) < k
      OBVIOUS
    <3>1. x # c
      BY DEF c
    <3>2. x \in Wire /\ Number(x) < k + 1
      BY DEF Ordered, OnceDecided, Before
    <3>3. Number(x) # k
      BY <1>1, <3>1, <3>2, NumberTypes DEF c
    <3>4. QED
      BY <1>1, <3>2, <3>3, NumberTypes
  <2>3. ActiveInOrder(r, k + 1)
    BY <1>1, <1>2, <1>5, <2>1, <2>2 DEF ActiveInOrder
  <2>4. PreviousInOrder(r, k + 1)
    BY <1>1, <1>2, <1>5 DEF Ordered, PreviousInOrder, Before
  <2>5. QED
    BY <1>3, <2>3, <2>4 DEF Ordered, r, c
<1>6. QED
  BY <1>2, <1>4, <1>5

(* One window takes another context of the same CPI. *)
LEMMA ReplacedOrdered ==
  ASSUME NEW m \in Members, NEW n, Ordered(m, n), NEW w \in Windows, m[w] # None,
         NEW e \in Contexts, e.cpi = m[w].cpi
  PROVE  Ordered([m EXCEPT ![w] = e], n)
<1> DEFINE r == [m EXCEPT ![w] = e]
<1>1. /\ r \in Members /\ r[w] = e
      /\ \A v \in Windows : v # w => r[v] = m[v]
      /\ r.control = m.control /\ r.closed = m.closed /\ r.inUse = m.inUse
      /\ r.outputs = m.outputs /\ r.lent = m.lent /\ r.degraded = m.degraded
      /\ r.error = m.error /\ r.decided = m.decided
  <2>1. e \in Contexts \cup {None}
    OBVIOUS
  <2>2. QED
    BY <2>1, WindowUpdate
<1>2. e # None
  BY CoordinatorAssumption
<1> HIDE DEF r
<1>3. /\ m.active = None <=> r.active = None
      /\ m.previous = None <=> r.previous = None
      /\ m.active # None => r.active.cpi = m.active.cpi
      /\ m.previous # None => r.previous.cpi = m.previous.cpi
  BY <1>1, <1>2 DEF Windows
<1>4. QED
  BY <1>1, <1>3, SameOrder DEF r

LEMMA StoredOrdered ==
  ASSUME NEW m, Good(m), NEW n, Ordered(m, n), NEW w \in Windows, m[w] # None,
         NEW pkt \in DataPacketRecord, FirstWrite(m[w], pkt)
  PROVE  Ordered([m EXCEPT ![w] = Stored(m[w], pkt)], n)
<1>1. m \in Members /\ m[w] \in Contexts
  BY MemberTypes DEF Good
<1>2. Stored(m[w], pkt) \in Contexts /\ Stored(m[w], pkt).cpi = m[w].cpi
  BY <1>1, StoredFields
<1>3. QED
  BY <1>1, <1>2, ReplacedOrdered

LEMMA ActiveIsLatest ==
  ASSUME NEW m \in Members, NEW n \in 0 .. Span, Ordered(m, n), m.active # None
  PROVE  AllOlder(m, n)
<1> SUFFICES ASSUME NEW c \in Ids, m.decided[c] > 0
             PROVE  Before(c, n - 1)
  BY DEF AllOlder
<1>1. /\ Before(m.active.cpi, n) /\ Number(c) < Number(m.active.cpi) /\ Before(c, n)
  BY DEF Ordered, ActiveInOrder, OnceDecided
<1>2. /\ Number(c) \in Nat /\ Number(m.active.cpi) \in Nat /\ n \in Nat
      /\ c \in Wire /\ Number(m.active.cpi) < n
  BY <1>1, NumberTypes, CoordinatorAssumption DEF Before
<1>3. Number(c) < n - 1
  BY <1>1, <1>2
<1>4. QED
  BY <1>2, <1>3 DEF Before

LEMMA WrittenToActiveOrdered ==
  ASSUME NEW m, NEW s, Fine(m, s), m.active # None, NEW n \in 0 .. Span, Ordered(m, n),
         NEW pkt \in DataPacketRecord
  PROVE  Ordered(WrittenToActive(m, pkt), n)
<1> DEFINE stored == [m EXCEPT !["active"] = Stored(m["active"], pkt)]
           due == Due(Written(m.active, pkt), pkt)
<1>1. CASE ~FirstWrite(m.active, pkt)
  BY <1>1 DEF WrittenToActive
<1>2. CASE FirstWrite(m.active, pkt)
  <2>1. Fine(stored, s) /\ stored["active"] # None
    BY <1>2, StoredKeeps DEF Windows
  <2>2. Ordered(stored, n)
    BY <1>2, StoredOrdered DEF Windows, Fine
  <2>3. WrittenToActive(m, pkt) = IF due = {} THEN stored ELSE Finalized(stored, "active", due)
    BY <1>2 DEF WrittenToActive
  <2> HIDE DEF stored, due
  <2>4. Good(stored) /\ stored \in Members
    BY <2>1 DEF Fine, Good
  <2>5. AllOlder(stored, n)
    BY <2>1, <2>2, <2>4, ActiveIsLatest
  <2>6. Ordered(Finalized(stored, "active", due), n)
    BY <2>2, <2>4, <2>5, FinalizedOrdered DEF Windows
  <2>7. QED
    BY <2>2, <2>3, <2>6
<1>3. QED
  BY <1>1, <1>2

LEMMA WrittenToPreviousOrdered ==
  ASSUME NEW m, Good(m), NEW n, Ordered(m, n), NEW pkt \in DataPacketRecord
  PROVE  Ordered(WrittenToPrevious(m, pkt), n)
<1>1. CASE m.previous # None /\ m.previous.cpi = pkt.cpi /\ FirstWrite(m.previous, pkt)
  <2>1. WrittenToPrevious(m, pkt) = [m EXCEPT !["previous"] = Stored(m["previous"], pkt)]
    BY <1>1 DEF WrittenToPrevious
  <2>2. QED
    BY <1>1, <2>1, StoredOrdered DEF Windows
<1>2. CASE ~(m.previous # None /\ m.previous.cpi = pkt.cpi /\ FirstWrite(m.previous, pkt))
  BY <1>2 DEF WrittenToPrevious
<1>3. QED
  BY <1>1, <1>2

(* A packet of another CPI than the active one, which is the newest, finds *)
(* the active one and all that were decided older.                         *)
LEMMA ActiveIsOlder ==
  ASSUME NEW m \in Members, NEW k \in 0 .. Span - 1, Ordered(m, k + 1),
         m.active # None, m.active.cpi # WireId(k)
  PROVE  Before(m.active.cpi, k)
<1>1. Before(m.active.cpi, k + 1)
  BY DEF Ordered, ActiveInOrder
<1>2. Number(m.active.cpi) \in Nat /\ Number(m.active.cpi) < k + 1 /\ m.active.cpi \in Wire
  BY <1>1, NumberTypes DEF Before
<1>3. Number(m.active.cpi) # k
  BY <1>2, NumberTypes
<1>4. k \in Nat
  BY CoordinatorAssumption
<1>5. QED
  BY <1>2, <1>3, <1>4 DEF Before

LEMMA NotBefore ==
  ASSUME NEW k \in 0 .. Span - 1
  PROVE  ~Before(WireId(k), k) /\ (k + 1) - 1 = k /\ k \in Nat /\ k + 1 \in 0 .. Span
<1>1. k \in Nat /\ Span \in Nat
  BY CoordinatorAssumption
<1>2. Number(WireId(k)) = k
  BY NumberOf
<1>3. QED
  BY <1>1, <1>2 DEF Before

LEMMA AdmittedOrdered ==
  ASSUME NEW m, spec \in Specs, Fine(m, spec), m.active # None,
         NEW k \in 0 .. Span - 1, Ordered(m, k + 1),
         NEW pkt \in DataPacketRecord, pkt.cpi = WireId(k), NEW tokens \in 0 .. m.lent
  PROVE  Ordered(Admitted(m, pkt, tokens), k + 1)
<1> DEFINE verdict == Judge(pkt.cpi, m.active.cpi, m.closed)
           closed == Finalized(m, "previous", {"CpiSwitch"})
           switched == Opened(Rotated(closed), pkt.cpi, tokens)
<1>1. /\ m \in Members /\ Good(m) /\ k + 1 \in 0 .. Span /\ (k + 1) - 1 = k
      /\ ~Before(WireId(k), k)
  BY NotBefore DEF Fine, Good
<1>2. CASE verdict = "WRITE_ACTIVE"
  BY <1>1, <1>2, WrittenToActiveOrdered DEF Admitted
<1>3. CASE verdict = "TRIGGER_CPI_SWITCH"
  <2>1. m.active.cpi # WireId(k)
    BY <1>3 DEF Judge
  <2>2. Before(m.active.cpi, k) /\ AllOlder(m, k + 1)
    BY <1>1, <2>1, ActiveIsOlder, ActiveIsLatest
  <2>3. /\ Fine(closed, spec) /\ closed \in Members /\ closed["previous"] = None
        /\ closed["active"] = m["active"] /\ closed.lent = m.lent
    BY FinalizedFits, FinalizedKeeps DEF Windows, Fine, Good
  <2>4. Ordered(closed, k + 1) /\ AllOlder(closed, k + 1)
    BY <1>1, <2>2, FinalizedOrdered DEF Windows
  <2> HIDE DEF closed
  <2>5. Fine(Rotated(closed), spec) /\ Rotated(closed).active = None
        /\ Rotated(closed).lent = m.lent
    BY <2>3, RotatedKeeps
  <2>6. Ordered(Rotated(closed), k + 1)
    BY <1>1, <2>2, <2>3, <2>4, RotatedOrdered
  <2>7. Rotated(closed).decided = closed.decided
    BY <2>3 DEF Rotated, Members
  <2>8. closed.decided[WireId(k)] = 0
    <3>1. WireId(k) \in Ids /\ closed.decided \in [Ids -> 0 .. 2]
      BY <2>3, NumberOf, MemberTypes
    <3>2. ~(closed.decided[WireId(k)] > 0)
      BY <1>1, <2>4, <3>1 DEF AllOlder
    <3>3. closed.decided[WireId(k)] \in 0 .. 2
      BY <3>1
    <3>4. QED
      BY <3>2, <3>3
  <2>9. Ordered(switched, k + 1)
    BY <2>5, <2>6, <2>7, <2>8, OpenedOrdered
  <2>10. Fine(switched, spec) /\ (~switched.error => switched.active # None)
    BY <2>5, NumberOf, OpenedKeeps
  <2>11. Admitted(m, pkt, tokens)
          = IF switched.error THEN switched ELSE WrittenToActive(switched, pkt)
    BY <1>3 DEF Admitted, closed
  <2> HIDE DEF switched
  <2>12. QED
    BY <1>1, <2>9, <2>10, <2>11, WrittenToActiveOrdered
<1>4. CASE verdict \notin {"WRITE_ACTIVE", "TRIGGER_CPI_SWITCH"}
  BY <1>1, <1>4, WrittenToPreviousOrdered DEF Admitted
<1>5. QED
  BY <1>2, <1>3, <1>4

(* A packet of the newest CPI is processed. *)
LEMMA DataProcessedOrdered ==
  ASSUME NEW m, spec \in Specs, Fine(m, spec), NEW k \in 0 .. Span - 1, Ordered(m, k + 1),
         NEW pkt \in DataPacketRecord, pkt.cpi = WireId(k), NEW tokens \in 0 .. m.lent
  PROVE  Ordered(DataProcessed(m, pkt, tokens), k + 1)
<1> DEFINE opened == Opened(m, pkt.cpi, tokens)
<1>1. m \in Members /\ k + 1 \in 0 .. Span /\ (k + 1) - 1 = k /\ ~Before(WireId(k), k)
  BY NotBefore DEF Fine, Good
<1>2. CASE m.active = None /\ Contains(m.closed, pkt.cpi)
  BY <1>2 DEF DataProcessed
<1>3. CASE m.active = None /\ ~Contains(m.closed, pkt.cpi)
  <2>1. m.decided[WireId(k)] = 0
    <3>1. WireId(k) \in Ids /\ m.decided \in [Ids -> 0 .. 2]
      BY <1>1, NumberOf, MemberTypes
    <3>2. ~(m.decided[WireId(k)] > 0)
      BY <1>1, <1>3, <3>1 DEF Ordered, NewestRemembered
    <3>3. m.decided[WireId(k)] \in 0 .. 2
      BY <3>1
    <3>4. QED
      BY <3>2, <3>3
  <2>2. /\ Fine(opened, spec)
        /\ ~opened.error => opened.active # None /\ opened.active.cpi = pkt.cpi
    BY <1>3, NumberOf, OpenedKeeps
  <2>3. Ordered(opened, k + 1)
    BY <1>3, <2>1, OpenedOrdered
  <2>4. DataProcessed(m, pkt, tokens)
          = IF opened.error THEN opened ELSE Admitted(opened, pkt, tokens)
    BY <1>3 DEF DataProcessed
  <2> HIDE DEF opened
  <2>5. CASE opened.error
    BY <2>3, <2>4, <2>5
  <2>6. CASE ~opened.error
    <3>1. Judge(pkt.cpi, opened.active.cpi, opened.closed) = "WRITE_ACTIVE"
      BY <2>2, <2>6 DEF Judge
    <3>2. DataProcessed(m, pkt, tokens) = WrittenToActive(opened, pkt)
      BY <2>4, <2>6, <3>1 DEF Admitted
    <3>3. QED
      BY <1>1, <2>2, <2>3, <2>6, <3>2, WrittenToActiveOrdered
  <2>7. QED
    BY <2>5, <2>6
<1>4. CASE m.active # None
  BY <1>4, AdmittedOrdered DEF DataProcessed
<1>5. QED
  BY <1>2, <1>3, <1>4

LEMMA MergedKeepsBinding ==
  ASSUME NEW ctx \in Contexts, Consistent(ctx), NEW candidate \in Snapshots
  PROVE  LET r == Merged(ctx, candidate)
         IN  /\ r \in Contexts /\ r.cpi = ctx.cpi /\ r.control \in Snapshots
             /\ ctx.control.source = "control"
                  => r.control.source = "control" /\ r.control.n = ctx.control.n
<1>1. PICK d \in Snapshots :
        /\ Merged(ctx, candidate) = [ctx EXCEPT !.control = d]
        /\ \/ d.n = ctx.control.n /\ d.valid = ctx.control.valid /\ d.source = ctx.control.source
           \/ d = candidate /\ candidate.source = "control" /\ candidate.valid
               /\ (ctx.control.source = "provisional" => candidate.n >= ctx.observed)
               /\ ctx.control.source # "control"
           \/ d = candidate /\ ctx.control.source = "fixed"
  BY MergedFacts
<1>2. /\ Merged(ctx, candidate) \in Contexts /\ Merged(ctx, candidate).cpi = ctx.cpi
      /\ Merged(ctx, candidate).control = d
  BY <1>1 DEF Contexts
<1>3. QED
  BY <1>1, <1>2

LEMMA ControlProcessedOrdered ==
  ASSUME NEW m, Good(m), NEW n, Ordered(m, n), NEW candidate \in Snapshots
  PROVE  Ordered(ControlProcessed(m, candidate), n)
<1> DEFINE r == ControlProcessed(m, candidate)
<1>1. m \in Members
  BY DEF Good
<1>2. CASE m.active # None /\ m.active.cpi = candidate.cpi
  <2> DEFINE merged == Merged(m.active, candidate)
             q == [m EXCEPT !["active"] = merged]
  <2>1. m.active \in Contexts /\ Consistent(m.active)
    BY <1>1, <1>2, MemberTypes DEF Good, Windows
  <2>2. merged \in Contexts /\ merged.cpi = m.active.cpi
    BY <2>1, MergedKeepsBinding
  <2>3. r = [m EXCEPT !.active = merged, !.control = merged.control]
    BY <1>2 DEF ControlProcessed
  <2> HIDE DEF merged
  <2>4. Ordered(q, n)
    BY <1>1, <1>2, <2>2, ReplacedOrdered DEF Windows
  <2>5. /\ r.active = q.active /\ r.previous = q.previous
        /\ r.decided = q.decided /\ r.closed = q.closed
    BY <1>1, <2>3 DEF Members
  <2> HIDE DEF q, r
  <2>6. QED
    BY <2>4, <2>5, SameOrder DEF r
<1>3. CASE /\ ~(m.active # None /\ m.active.cpi = candidate.cpi)
           /\ m.previous # None /\ m.previous.cpi = candidate.cpi
  <2> DEFINE merged == Merged(m.previous, candidate)
  <2>1. m.previous \in Contexts /\ Consistent(m.previous)
    BY <1>1, <1>3, MemberTypes DEF Good, Windows
  <2>2. merged \in Contexts /\ merged.cpi = m.previous.cpi
    BY <2>1, MergedKeepsBinding
  <2>3. r = [m EXCEPT !["previous"] = merged]
    BY <1>3 DEF ControlProcessed
  <2> HIDE DEF merged, r
  <2>4. QED
    BY <1>1, <1>3, <2>2, <2>3, ReplacedOrdered DEF Windows, r
<1>4. CASE /\ ~(m.active # None /\ m.active.cpi = candidate.cpi)
           /\ ~(m.previous # None /\ m.previous.cpi = candidate.cpi)
  <2>1. r = [m EXCEPT !.control = candidate]
    BY <1>4 DEF ControlProcessed
  <2>2. /\ r.active = m.active /\ r.previous = m.previous
        /\ r.decided = m.decided /\ r.closed = m.closed
    BY <1>1, <2>1 DEF Members
  <2> HIDE DEF r
  <2>3. QED
    BY <2>2, SameOrder DEF r
<1>5. QED
  BY <1>2, <1>3, <1>4

OrderInvariant == CoordinatorInvariant /\ (~overtaken => Ordered(coord, newest))

LEMMA InitEstablishesOrder == Init => OrderInvariant
<1> SUFFICES ASSUME Init
             PROVE  Ordered(coord, newest)
  BY InitEstablishesInvariant DEF OrderInvariant
<1>1. /\ coord.active = None /\ coord.previous = None
      /\ coord.decided = [c \in Ids |-> 0]
  BY DEF Init
<1>2. \A c \in Ids : coord.decided[c] = 0
  BY <1>1
<1>3. QED
  BY <1>1, <1>2 DEF Ordered, OnceDecided, ActiveInOrder, PreviousInOrder, NewestRemembered

(* What a data packet does when no packet of an older CPI has come yet: it *)
(* is of the newest CPI, which may be new to the receiver.                 *)
LEMMA DataPacketInOrder ==
  ASSUME OrderInvariant, DataPacket, ~overtaken'
  PROVE  \E k \in 0 .. Span - 1 : \E pkt \in DataPacketRecord, tokens \in 0 .. coord.lent :
           /\ newest' = k + 1 /\ pkt.cpi = WireId(k)
           /\ Ordered(coord, k + 1)
           /\ coord' = DataProcessed(coord, pkt, tokens)
<1>1. PICK k \in Reachable :
        /\ Sent(k) /\ overtaken' = (overtaken \/ k + 1 < newest)
        /\ \E pkt \in DataPackets(k), tokens \in Tokens :
             coord' = DataProcessed(coord, pkt, tokens)
  BY DEF DataPacket
<1>2. PICK pkt \in DataPackets(k), tokens \in Tokens :
        coord' = DataProcessed(coord, pkt, tokens)
  BY <1>1
<1>3. coord \in Members /\ coord.lent \in 0 .. Depth /\ newest \in 0 .. Span
  BY MemberTypes DEF OrderInvariant, CoordinatorInvariant, Fine, Good
<1>4. k \in 0 .. Span - 1 /\ k \in Nat /\ k + 1 \in 0 .. Span /\ newest \in Nat
  BY <1>3, NotBefore, CoordinatorAssumption DEF Reachable
<1>5. ~overtaken /\ ~(k + 1 < newest)
  BY <1>1
<1>6. newest' = k + 1 /\ newest <= k + 1
  BY <1>1, <1>4, <1>5 DEF Sent
<1>7. Ordered(coord, k + 1)
  BY <1>3, <1>4, <1>5, <1>6, LaterOrdered DEF OrderInvariant
<1>8. pkt \in DataPacketRecord /\ pkt.cpi = WireId(k)
  BY <1>4, DataPacketTypes DEF DataPackets
<1>9. tokens \in 0 .. coord.lent
  BY <1>3, CoordinatorAssumption DEF Tokens
<1>10. QED
  BY <1>2, <1>4, <1>6, <1>7, <1>8, <1>9

LEMMA NextKeepsOrder ==
  OrderInvariant /\ [Next]_vars => OrderInvariant'
<1> SUFFICES ASSUME OrderInvariant, [Next]_vars, ~overtaken'
             PROVE  Ordered(coord', newest')
  BY NextKeepsInvariant DEF OrderInvariant
<1>1. /\ coord \in Members /\ Good(coord) /\ Fine(coord, spec) /\ spec \in Specs
      /\ newest \in 0 .. Span /\ newest' \in 0 .. Span
  BY NextKeepsInvariant DEF OrderInvariant, CoordinatorInvariant, Fine, Good
<1>2. CASE DataPacket
  <2>1. PICK k \in 0 .. Span - 1, pkt \in DataPacketRecord, tokens \in 0 .. coord.lent :
          /\ newest' = k + 1 /\ pkt.cpi = WireId(k)
          /\ Ordered(coord, k + 1)
          /\ coord' = DataProcessed(coord, pkt, tokens)
    BY <1>2, DataPacketInOrder
  <2>2. Ordered(DataProcessed(coord, pkt, tokens), k + 1)
    BY <1>1, <2>1, DataProcessedOrdered
  <2>3. QED
    BY <2>1, <2>2
<1>3. CASE ControlPacket
  <2>1. PICK k \in Reachable, n \in ControlPrts :
          Sent(k) /\ coord' = ControlProcessed(coord, ControlSnapshot(WireId(k), n, spec))
    BY <1>3 DEF ControlPacket
  <2>2. k \in 0 .. Span - 1 /\ ~overtaken
    BY <1>3 DEF Reachable, ControlPacket
  <2>3. newest \in Nat /\ k \in Nat /\ newest <= newest'
    BY <1>1, <2>1, <2>2, CoordinatorAssumption DEF Sent
  <2>4. Ordered(coord, newest')
    BY <1>1, <2>2, <2>3, LaterOrdered DEF OrderInvariant
  <2>5. ControlSnapshot(WireId(k), n, spec) \in Snapshots
    BY <1>1, <2>2, WireIds, ControlSnapshotFits
  <2>6. QED
    BY <1>1, <2>1, <2>4, <2>5, ControlProcessedOrdered
<1>4. ASSUME NEW m, Good(m), Ordered(m, newest), NEW w \in Windows, NEW trigger,
             ~Commits(trigger)
      PROVE  Good(Finalized(m, w, trigger)) /\ Ordered(Finalized(m, w, trigger), newest)
  BY <1>1, <1>4, FinalizedKeeps, FinalizedOrdered
<1>5. ~Commits({"Timeout"}) /\ ~Commits({"Stop"})
  BY DEF Commits
<1>6. CASE CheckTimeout
  <2>1. PICK expired \in SUBSET {w \in Windows : Expirable(w)} :
          LET one == IF "previous" \in expired
                     THEN Finalized(coord, "previous", {"Timeout"}) ELSE coord
          IN  coord' = IF "active" \in expired
                       THEN Finalized(one, "active", {"Timeout"}) ELSE one
    BY <1>6 DEF CheckTimeout
  <2> DEFINE one == IF "previous" \in expired
                    THEN Finalized(coord, "previous", {"Timeout"}) ELSE coord
  <2>2. Ordered(coord, newest) /\ newest' = newest
    BY <1>6 DEF CheckTimeout, OrderInvariant
  <2>3. Good(one) /\ Ordered(one, newest)
    BY <1>1, <1>4, <1>5, <2>2 DEF Windows
  <2>4. coord' = IF "active" \in expired THEN Finalized(one, "active", {"Timeout"}) ELSE one
    BY <2>1
  <2> HIDE DEF one
  <2>5. QED
    BY <1>4, <1>5, <2>2, <2>3, <2>4 DEF Windows
<1>7. CASE DrainRecycle
  <2>1. PICK tokens \in 1 .. coord.lent :
          coord' = [coord EXCEPT !.inUse = @ - tokens, !.lent = @ - tokens]
    BY <1>7 DEF DrainRecycle
  <2>2. /\ coord'.active = coord.active /\ coord'.previous = coord.previous
        /\ coord'.decided = coord.decided /\ coord'.closed = coord.closed
    BY <1>1, <2>1 DEF Members
  <2>3. Ordered(coord, newest) /\ newest' = newest
    BY <1>7 DEF DrainRecycle, OrderInvariant
  <2>4. QED
    BY <2>2, <2>3, SameOrder
<1>8. CASE Shutdown
  <2> DEFINE one == Finalized(coord, "previous", {"Stop"})
  <2>1. Ordered(coord, newest) /\ newest' = newest
    BY <1>8 DEF Shutdown, OrderInvariant
  <2>2. Good(one) /\ Ordered(one, newest)
    BY <1>1, <1>4, <1>5, <2>1 DEF Windows
  <2>3. coord' = Finalized(one, "active", {"Stop"})
    BY <1>8 DEF Shutdown
  <2> HIDE DEF one
  <2>4. QED
    BY <1>4, <1>5, <2>1, <2>2, <2>3 DEF Windows
<1>9. CASE ConsumerTakes
  <2>1. coord' = [coord EXCEPT !.outputs = Tail(@), !.lent = @ + 1]
    BY <1>9 DEF ConsumerTakes
  <2>2. /\ coord'.active = coord.active /\ coord'.previous = coord.previous
        /\ coord'.decided = coord.decided /\ coord'.closed = coord.closed
    BY <1>1, <2>1 DEF Members
  <2>3. Ordered(coord, newest) /\ newest' = newest
    BY <1>9 DEF ConsumerTakes, OrderInvariant
  <2>4. QED
    BY <2>2, <2>3, SameOrder
<1>10. CASE UNCHANGED vars
  BY <1>10 DEF vars, OrderInvariant
<1>11. QED
  BY <1>2, <1>3, <1>6, <1>7, <1>8, <1>9, <1>10 DEF Next

(* As long as the network keeps the CPIs in order, a CPI is decided once,  *)
(* for any number of CPIs, however small the ring of closed ids is, and    *)
(* whatever is lost, duplicated or shuffled within a CPI.                  *)
THEOREM InOrderDecidedOnceHolds == Spec => []InOrderDecidedOnce
<1>1. OrderInvariant => InOrderDecidedOnce
  BY DEF OrderInvariant, Ordered, OnceDecided, InOrderDecidedOnce
<1>2. QED
  BY <1>1, InitEstablishesOrder, NextKeepsOrder, PTL DEF Spec

-----------------------------------------------------------------------------
(* The number of PRTs that a CPI is bound to.  The handlers are followed   *)
(* from window to window: what is in window w of r was in window v of m,   *)
(* bound as before if it was a control packet that had bound it.           *)

SameBinding(ctx, e) ==
  /\ e.cpi = ctx.cpi
  /\ ctx.control.source = "control"
       => e.control.source = "control" /\ e.control.n = ctx.control.n

Follows(m, v, r, w) == r[w] # None => m[v] # None /\ SameBinding(m[v], r[w])

Stays(m, r) == \A w \in Windows : Follows(m, w, r, w)

BindingKept(m, r) ==
  \A v, w \in Windows :
    /\ m[v] # None /\ r[w] # None /\ r[w].cpi = m[v].cpi
    /\ \/ v = "active" /\ w = "active"
       \/ w = "previous" /\ ~(m.active # None /\ m.previous # None /\ m.active.cpi = m.previous.cpi)
    /\ m[v].control.source = "control"
    => r[w].control.source = "control" /\ r[w].control.n = m[v].control.n

LEMMA FollowsThenStays ==
  ASSUME NEW m, NEW q, NEW r, NEW v \in Windows, NEW w \in Windows,
         Follows(m, v, q, w), Stays(q, r)
  PROVE  Follows(m, v, r, w)
BY DEF Follows, Stays, SameBinding

LEMMA StaysComposes ==
  ASSUME NEW m, NEW q, NEW r, Stays(m, q), Stays(q, r)
  PROVE  Stays(m, r)
BY FollowsThenStays DEF Stays

LEMMA UnchangedStays ==
  ASSUME NEW m, NEW r, \A w \in Windows : r[w] = m[w] \/ r[w] = None
  PROVE  Stays(m, r)
BY DEF Stays, Follows, SameBinding

LEMMA FinalizedStays ==
  ASSUME NEW m, Good(m), NEW w \in Windows, NEW trigger
  PROVE  Stays(m, Finalized(m, w, trigger))
<1> DEFINE r == Finalized(m, w, trigger)
<1>1. r[w] = None /\ \A v \in Windows : v # w => r[v] = m[v]
  BY FinalizedKeeps
<1> HIDE DEF r
<1>2. \A v \in Windows : r[v] = m[v] \/ r[v] = None
  BY <1>1
<1>3. QED
  BY <1>2, UnchangedStays DEF r

(* One window's context is replaced, its binding kept. *)
LEMMA ReplacedStays ==
  ASSUME NEW m \in Members, NEW w \in Windows, m[w] # None,
         NEW e \in Contexts, SameBinding(m[w], e)
  PROVE  Stays(m, [m EXCEPT ![w] = e])
<1> DEFINE r == [m EXCEPT ![w] = e]
<1>1. /\ r \in Members /\ r[w] = e
      /\ \A v \in Windows : v # w => r[v] = m[v]
      /\ r.control = m.control /\ r.closed = m.closed /\ r.inUse = m.inUse
      /\ r.outputs = m.outputs /\ r.lent = m.lent /\ r.degraded = m.degraded
      /\ r.error = m.error /\ r.decided = m.decided
  <2>1. e \in Contexts \cup {None}
    OBVIOUS
  <2>2. QED
    BY <2>1, WindowUpdate
<1> HIDE DEF r
<1>2. SUFFICES ASSUME NEW u \in Windows, r[u] # None
               PROVE  m[u] # None /\ SameBinding(m[u], r[u])
  BY DEF Stays, Follows, r
<1>3. CASE u = w
  BY <1>1, <1>3
<1>4. CASE u # w
  BY <1>1, <1>2, <1>4 DEF SameBinding
<1>5. QED
  BY <1>3, <1>4

LEMMA StoredStays ==
  ASSUME NEW m, Good(m), NEW w \in Windows, m[w] # None,
         NEW pkt \in DataPacketRecord, FirstWrite(m[w], pkt)
  PROVE  Stays(m, [m EXCEPT ![w] = Stored(m[w], pkt)])
<1>1. m \in Members /\ m[w] \in Contexts
  BY MemberTypes DEF Good
<1>2. /\ Stored(m[w], pkt) \in Contexts /\ Stored(m[w], pkt).cpi = m[w].cpi
      /\ Stored(m[w], pkt).control = m[w].control
  BY <1>1, StoredFields
<1>3. SameBinding(m[w], Stored(m[w], pkt))
  BY <1>2 DEF SameBinding
<1>4. QED
  BY <1>1, <1>2, <1>3, ReplacedStays

LEMMA WrittenToActiveStays ==
  ASSUME NEW m, NEW s, Fine(m, s), m.active # None, NEW pkt \in DataPacketRecord
  PROVE  Stays(m, WrittenToActive(m, pkt))
<1> DEFINE stored == [m EXCEPT !["active"] = Stored(m["active"], pkt)]
           due == Due(Written(m.active, pkt), pkt)
<1>1. CASE ~FirstWrite(m.active, pkt)
  BY <1>1, UnchangedStays DEF WrittenToActive
<1>2. CASE FirstWrite(m.active, pkt)
  <2>1. Good(stored) /\ Stays(m, stored)
    BY <1>2, StoredKeeps, StoredStays DEF Windows, Fine
  <2>2. WrittenToActive(m, pkt) = IF due = {} THEN stored ELSE Finalized(stored, "active", due)
    BY <1>2 DEF WrittenToActive
  <2> HIDE DEF stored, due
  <2>3. Stays(stored, Finalized(stored, "active", due))
    BY <2>1, FinalizedStays DEF Windows
  <2>4. QED
    BY <2>1, <2>2, <2>3, StaysComposes
<1>3. QED
  BY <1>1, <1>2

LEMMA WrittenToPreviousStays ==
  ASSUME NEW m, Good(m), NEW pkt \in DataPacketRecord
  PROVE  Stays(m, WrittenToPrevious(m, pkt))
<1>1. CASE m.previous # None /\ m.previous.cpi = pkt.cpi /\ FirstWrite(m.previous, pkt)
  <2>1. WrittenToPrevious(m, pkt) = [m EXCEPT !["previous"] = Stored(m["previous"], pkt)]
    BY <1>1 DEF WrittenToPrevious
  <2>2. "previous" \in Windows /\ m["previous"] # None /\ FirstWrite(m["previous"], pkt)
    BY <1>1 DEF Windows
  <2>3. Stays(m, [m EXCEPT !["previous"] = Stored(m["previous"], pkt)])
    BY <2>2, StoredStays
  <2>4. QED
    BY <2>1, <2>3
<1>2. CASE ~(m.previous # None /\ m.previous.cpi = pkt.cpi /\ FirstWrite(m.previous, pkt))
  BY <1>2, UnchangedStays DEF WrittenToPrevious
<1>3. QED
  BY <1>1, <1>2

(* The three ways to keep the bindings: everything stays; a CPI is opened  *)
(* where none was active; the active CPI is switched.                      *)
LEMMA StaysKeepsBinding ==
  ASSUME NEW m, NEW r, Stays(m, r)
  PROVE  BindingKept(m, r)
<1>1. Follows(m, "active", r, "active") /\ Follows(m, "previous", r, "previous")
  BY DEF Stays, Windows
<1>2. QED
  BY <1>1 DEF BindingKept, Follows, SameBinding, Windows

LEMMA OpenKeepsBinding ==
  ASSUME NEW m, NEW r, m.active = None, Follows(m, "previous", r, "previous")
  PROVE  BindingKept(m, r)
BY DEF BindingKept, Follows, SameBinding, Windows

LEMMA SwitchKeepsBinding ==
  ASSUME NEW m, NEW r, m.active # None, Follows(m, "active", r, "previous"),
         r.active # None => r.active.cpi # m.active.cpi
  PROVE  BindingKept(m, r)
BY DEF BindingKept, Follows, SameBinding, Windows

LEMMA AdmittedKeepsBinding ==
  ASSUME NEW m, spec \in Specs, Fine(m, spec), m.active # None,
         NEW pkt \in DataPacketRecord, NEW tokens \in 0 .. m.lent
  PROVE  BindingKept(m, Admitted(m, pkt, tokens))
<1> DEFINE verdict == Judge(pkt.cpi, m.active.cpi, m.closed)
           closed == Finalized(m, "previous", {"CpiSwitch"})
           rotated == Rotated(closed)
           switched == Opened(rotated, pkt.cpi, tokens)
           r == Admitted(m, pkt, tokens)
<1>1. Good(m) /\ pkt.cpi \in Ids
  BY DEF Fine, DataPacketRecord
<1>2. CASE verdict = "WRITE_ACTIVE"
  BY <1>2, WrittenToActiveStays, StaysKeepsBinding DEF Admitted
<1>3. CASE verdict = "TRIGGER_CPI_SWITCH"
  <2>1. pkt.cpi # m.active.cpi
    BY <1>3 DEF Judge
  <2>2. Fine(closed, spec) /\ closed["previous"] = None /\ closed.lent = m.lent
        /\ closed["active"] = m["active"]
    BY FinalizedFits, FinalizedKeeps DEF Windows, Fine
  <2> HIDE DEF closed
  <2>3. Fine(rotated, spec) /\ rotated.active = None /\ rotated.lent = m.lent
    BY <2>2, RotatedKeeps
  <2>4. rotated.previous = m.active
    BY <2>2 DEF Rotated, Members, Fine, Good
  <2> HIDE DEF rotated
  <2>5. /\ switched.previous = rotated.previous
        /\ switched.active = None \/ (switched.active # None /\ switched.active.cpi = pkt.cpi)
    BY <1>1, <2>3, OpenedFacts
  <2>6. Fine(switched, spec) /\ (~switched.error => switched.active # None)
    BY <1>1, <2>3, OpenedKeeps
  <2>7. r = IF switched.error THEN switched ELSE WrittenToActive(switched, pkt)
    BY <1>3 DEF Admitted, closed, rotated
  <2> HIDE DEF switched
  <2>8. Stays(switched, r)
    BY <2>6, <2>7, WrittenToActiveStays, UnchangedStays
  <2> HIDE DEF r
  <2>9. Follows(m, "active", switched, "previous")
    BY <2>4, <2>5 DEF Follows, SameBinding
  <2>10. Follows(m, "active", r, "previous")
    BY <2>8, <2>9, FollowsThenStays DEF Windows
  <2>11. r.active # None => r.active.cpi # m.active.cpi
    <3>1. Follows(switched, "active", r, "active")
      BY <2>8 DEF Stays, Windows
    <3>2. QED
      BY <2>1, <2>5, <3>1 DEF Follows, SameBinding
  <2>12. QED
    BY <2>10, <2>11, SwitchKeepsBinding DEF r
<1>4. CASE verdict \notin {"WRITE_ACTIVE", "TRIGGER_CPI_SWITCH"}
  BY <1>1, <1>4, WrittenToPreviousStays, StaysKeepsBinding DEF Admitted
<1>5. QED
  BY <1>2, <1>3, <1>4

LEMMA DataProcessedKeepsBinding ==
  ASSUME NEW m, spec \in Specs, Fine(m, spec), NEW pkt \in DataPacketRecord,
         NEW tokens \in 0 .. m.lent
  PROVE  BindingKept(m, DataProcessed(m, pkt, tokens))
<1> DEFINE opened == Opened(m, pkt.cpi, tokens)
           r == DataProcessed(m, pkt, tokens)
<1>1. pkt.cpi \in Ids
  BY DEF DataPacketRecord
<1>2. CASE m.active = None /\ Contains(m.closed, pkt.cpi)
  BY <1>2, UnchangedStays, StaysKeepsBinding DEF DataProcessed
<1>3. CASE m.active = None /\ ~Contains(m.closed, pkt.cpi)
  <2>1. /\ Fine(opened, spec)
        /\ ~opened.error => opened.active # None /\ opened.active.cpi = pkt.cpi
        /\ opened.previous = m.previous
    BY <1>1, <1>3, OpenedKeeps, OpenedFacts
  <2>2. r = IF opened.error THEN opened ELSE Admitted(opened, pkt, tokens)
    BY <1>3 DEF DataProcessed
  <2> HIDE DEF opened, r
  <2>3. Stays(opened, r)
    <3>1. CASE opened.error
      BY <2>2, <3>1, UnchangedStays
    <3>2. CASE ~opened.error
      <4>1. Judge(pkt.cpi, opened.active.cpi, opened.closed) = "WRITE_ACTIVE"
        BY <2>1, <3>2 DEF Judge
      <4>2. r = WrittenToActive(opened, pkt)
        BY <2>2, <3>2, <4>1 DEF Admitted
      <4>3. QED
        BY <2>1, <3>2, <4>2, WrittenToActiveStays
    <3>3. QED
      BY <3>1, <3>2
  <2>4. Follows(m, "previous", opened, "previous")
    BY <2>1 DEF Follows, SameBinding
  <2>5. Follows(m, "previous", r, "previous")
    BY <2>3, <2>4, FollowsThenStays DEF Windows
  <2>6. QED
    BY <1>3, <2>5, OpenKeepsBinding DEF r
<1>4. CASE m.active # None
  BY <1>4, AdmittedKeepsBinding DEF DataProcessed
<1>5. QED
  BY <1>2, <1>3, <1>4

LEMMA ControlProcessedStays ==
  ASSUME NEW m, Good(m), NEW candidate \in Snapshots
  PROVE  Stays(m, ControlProcessed(m, candidate))
<1> DEFINE r == ControlProcessed(m, candidate)
<1>1. m \in Members
  BY DEF Good
<1>2. CASE m.active # None /\ m.active.cpi = candidate.cpi
  <2> DEFINE merged == Merged(m.active, candidate)
             q == [m EXCEPT !["active"] = merged]
  <2>1. m.active \in Contexts /\ Consistent(m.active)
    BY <1>1, <1>2, MemberTypes DEF Good, Windows
  <2>2. merged \in Contexts /\ SameBinding(m.active, merged)
    BY <2>1, MergedKeepsBinding DEF SameBinding
  <2>3. r = [m EXCEPT !.active = merged, !.control = merged.control]
    BY <1>2 DEF ControlProcessed
  <2> HIDE DEF merged
  <2>4. Stays(m, q)
    BY <1>1, <1>2, <2>2, ReplacedStays DEF Windows
  <2>5. r.active = q.active /\ r.previous = q.previous
    BY <1>1, <2>3 DEF Members
  <2> HIDE DEF q, r
  <2>6. \A w \in Windows : r[w] = q[w]
    BY <2>5 DEF Windows
  <2>7. QED
    BY <2>4, <2>6 DEF Stays, Follows, r
<1>3. CASE /\ ~(m.active # None /\ m.active.cpi = candidate.cpi)
           /\ m.previous # None /\ m.previous.cpi = candidate.cpi
  <2> DEFINE merged == Merged(m.previous, candidate)
  <2>1. m.previous \in Contexts /\ Consistent(m.previous)
    BY <1>1, <1>3, MemberTypes DEF Good, Windows
  <2>2. merged \in Contexts /\ SameBinding(m.previous, merged)
    BY <2>1, MergedKeepsBinding DEF SameBinding
  <2>3. r = [m EXCEPT !["previous"] = merged]
    BY <1>3 DEF ControlProcessed
  <2> HIDE DEF merged, r
  <2>4. QED
    BY <1>1, <1>3, <2>2, <2>3, ReplacedStays DEF Windows, r
<1>4. CASE /\ ~(m.active # None /\ m.active.cpi = candidate.cpi)
           /\ ~(m.previous # None /\ m.previous.cpi = candidate.cpi)
  <2>1. r = [m EXCEPT !.control = candidate]
    BY <1>4 DEF ControlProcessed
  <2>2. \A w \in Windows : r[w] = m[w]
    BY <1>1, <2>1 DEF Members, Windows
  <2> HIDE DEF r
  <2>3. QED
    BY <2>2, UnchangedStays DEF r
<1>5. QED
  BY <1>2, <1>3, <1>4

LEMMA NextKeepsBinding ==
  CoordinatorInvariant /\ [Next]_vars => BindingKept(coord, coord')
<1> SUFFICES ASSUME CoordinatorInvariant, [Next]_vars
             PROVE  BindingKept(coord, coord')
  OBVIOUS
<1>1. /\ coord \in Members /\ Good(coord) /\ Fine(coord, spec) /\ spec \in Specs
      /\ coord.lent \in 0 .. Depth
  BY MemberTypes DEF CoordinatorInvariant, Fine, Good
<1>2. CASE DataPacket
  <2>1. PICK k \in Reachable :
          \E pkt \in DataPackets(k), tokens \in Tokens : coord' = DataProcessed(coord, pkt, tokens)
    BY <1>2 DEF DataPacket
  <2>2. PICK pkt \in DataPackets(k), tokens \in Tokens : coord' = DataProcessed(coord, pkt, tokens)
    BY <2>1
  <2>3. k \in 0 .. Span - 1
    BY DEF Reachable
  <2>4. pkt \in DataPacketRecord
    BY <2>3, DataPacketTypes
  <2>5. tokens \in 0 .. coord.lent
    BY <1>1, CoordinatorAssumption DEF Tokens
  <2>6. QED
    BY <1>1, <2>2, <2>4, <2>5, DataProcessedKeepsBinding
<1>3. CASE ControlPacket
  <2>1. PICK k \in Reachable, n \in ControlPrts :
          coord' = ControlProcessed(coord, ControlSnapshot(WireId(k), n, spec))
    BY <1>3 DEF ControlPacket
  <2>2. k \in 0 .. Span - 1
    BY DEF Reachable
  <2>3. ControlSnapshot(WireId(k), n, spec) \in Snapshots
    BY <1>1, <2>2, WireIds, ControlSnapshotFits
  <2>4. QED
    BY <1>1, <2>1, <2>3, ControlProcessedStays, StaysKeepsBinding
<1>4. CASE CheckTimeout
  <2>1. PICK expired \in SUBSET {w \in Windows : Expirable(w)} :
          LET one == IF "previous" \in expired
                     THEN Finalized(coord, "previous", {"Timeout"}) ELSE coord
          IN  coord' = IF "active" \in expired
                       THEN Finalized(one, "active", {"Timeout"}) ELSE one
    BY <1>4 DEF CheckTimeout
  <2> DEFINE one == IF "previous" \in expired
                    THEN Finalized(coord, "previous", {"Timeout"}) ELSE coord
  <2>2. Stays(coord, coord)
    BY UnchangedStays
  <2>3. Good(one) /\ Stays(coord, one)
    BY <1>1, <2>2, FinalizedKeeps, FinalizedStays DEF Windows
  <2>4. coord' = IF "active" \in expired THEN Finalized(one, "active", {"Timeout"}) ELSE one
    BY <2>1
  <2> HIDE DEF one
  <2>5. Stays(one, Finalized(one, "active", {"Timeout"}))
    BY <2>3, FinalizedStays DEF Windows
  <2>6. Stays(coord, coord')
    BY <2>3, <2>4, <2>5, StaysComposes
  <2>7. QED
    BY <2>6, StaysKeepsBinding
<1>5. CASE DrainRecycle
  <2>1. PICK tokens \in 1 .. coord.lent :
          coord' = [coord EXCEPT !.inUse = @ - tokens, !.lent = @ - tokens]
    BY <1>5 DEF DrainRecycle
  <2>2. \A w \in Windows : coord'[w] = coord[w]
    BY <1>1, <2>1 DEF Members, Windows
  <2>3. QED
    BY <2>2, UnchangedStays, StaysKeepsBinding
<1>6. CASE Shutdown
  <2> DEFINE one == Finalized(coord, "previous", {"Stop"})
  <2>1. Good(one) /\ Stays(coord, one)
    BY <1>1, FinalizedKeeps, FinalizedStays DEF Windows
  <2>2. coord' = Finalized(one, "active", {"Stop"})
    BY <1>6 DEF Shutdown
  <2> HIDE DEF one
  <2>3. Stays(one, Finalized(one, "active", {"Stop"}))
    BY <2>1, FinalizedStays DEF Windows
  <2>4. QED
    BY <2>1, <2>2, <2>3, StaysComposes, StaysKeepsBinding
<1>7. CASE ConsumerTakes
  <2>1. coord' = [coord EXCEPT !.outputs = Tail(@), !.lent = @ + 1]
    BY <1>7 DEF ConsumerTakes
  <2>2. \A w \in Windows : coord'[w] = coord[w]
    BY <1>1, <2>1 DEF Members, Windows
  <2>3. QED
    BY <2>2, UnchangedStays, StaysKeepsBinding
<1>8. CASE UNCHANGED vars
  <2>1. coord' = coord
    BY <1>8 DEF vars
  <2>2. QED
    BY <2>1, UnchangedStays, StaysKeepsBinding
<1>9. QED
  BY <1>2, <1>3, <1>4, <1>5, <1>6, <1>7, <1>8 DEF Next

(* Once a control packet has told how many PRTs the CPI of a context has,  *)
(* nothing changes that while the context is open: no other control        *)
(* packet, and not the switch to the previous window, in whatever order    *)
(* the packets come.  What waits in the previous window while a late       *)
(* packet has opened its id anew is left out (OpenTwice).                  *)
THEOREM ControlBindingIsFinalHolds == Spec => ControlBindingIsFinal
<1> DEFINE Step ==
      \A v, w \in Windows :
        SameContext(v, w) /\ coord[v].control.source = "control"
        => coord'[w].control.source = "control" /\ coord'[w].control.n = coord[v].control.n
<1>1. CoordinatorInvariant /\ [Next]_vars => [Step]_vars
  BY NextKeepsBinding DEF BindingKept, SameContext, OpenTwice
<1>2. QED
  BY <1>1, InitEstablishesInvariant, NextKeepsInvariant, PTL DEF Spec, ControlBindingIsFinal
=============================================================================
