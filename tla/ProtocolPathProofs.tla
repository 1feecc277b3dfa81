------------------------- MODULE ProtocolPathProofs -------------------------
(***************************************************************************)
(* Proofs about ProtocolPath.tla, for any specifications, any datagrams,   *)
(* any numbers of PRTs and CPI ids, and any way to cut what is sent:       *)
(*   - the tracker's verdict on the order of the packets is what a look at *)
(*     the whole sequence gives (TrackerRight is the inductive invariant); *)
(*   - the counts, the coverage and the PRT on the panel are a true        *)
(*     account of the stream (Counted);                                    *)
(*   - the assembler gives back exactly the datagrams that were sent, as   *)
(*     long as their keys differ (Reassembling).                           *)
(***************************************************************************)
EXTENDS ProtocolPath, SequenceFacts

-----------------------------------------------------------------------------
(* Positions of packets as numbers in mixed radix *)

LEMMA Digits ==
  ASSUME NEW d \in Nat \ {0}, NEW a \in Nat, NEW b \in Nat,
         NEW x \in 0 .. d - 1, NEW y \in 0 .. d - 1, a * d + x = b * d + y
  PROVE  a = b /\ x = y
<1>1. (a - b) * d = y - x
  OBVIOUS
<1>2. a - b >= 1 => (a - b) * d >= d
  OBVIOUS
<1>3. a - b < 0 => (a - b) * d <= - d
  <2>1. b - a >= 1 => (b - a) * d >= d
    OBVIOUS
  <2>2. (b - a) * d = - ((a - b) * d)
    OBVIOUS
  <2>3. QED
    BY <2>1, <2>2
<1>4. a = b
  BY <1>1, <1>2, <1>3
<1>5. QED
  BY <1>4

LEMMA RemainderOf ==
  ASSUME NEW d \in Nat \ {0}, NEW x \in Nat, NEW q \in Nat, NEW r \in 0 .. d - 1, x = d * q + r
  PROVE  x % d = r
OBVIOUS

(* Two digits make a number below the product of their ranges.             *)
LEMMA TwoDigits ==
  ASSUME NEW n \in Nat \ {0}, NEW d \in Nat \ {0}, NEW a \in 0 .. n - 1, NEW x \in 0 .. d - 1
  PROVE  a * d + x \in 0 .. n * d - 1
<1>1. n * d = a * d + d + (n - 1 - a) * d
  OBVIOUS
<1>2. (n - 1 - a) * d >= 0 /\ a * d >= 0
  OBVIOUS
<1>3. a * d \in Int /\ n * d \in Int /\ (n - 1 - a) * d \in Int
  OBVIOUS
<1>4. QED
  BY <1>1, <1>2, <1>3

-----------------------------------------------------------------------------
(* The order of the packets of a specification s *)

Points == [cpi : 0 .. CpiMod - 1, ch : Nat, prt : 0 .. PrtMod - 1, idx : Nat]

(* The packet at p is one of those that s allows.                          *)
Placed(s, p) ==
  /\ p.prt \in 0 .. PrtMod - 1 /\ p.ch \in 0 .. s.channels - 1 /\ p.idx \in 1 .. s.packets

RankIn(s, p) == (p.prt * s.channels + p.ch) * s.packets + p.idx - 1
FollowsIn(s, p, q) ==
  \/ q.cpi = p.cpi
     /\ RankIn(s, q) = (RankIn(s, p) + 1) % (PrtMod * (s.channels * s.packets))
  \/ /\ q.cpi = (p.cpi + 1) % CpiMod
     /\ RankIn(s, p) % (s.channels * s.packets) = s.channels * s.packets - 1
     /\ RankIn(s, q) = s.channels * s.packets
FirstOfChannelIn(s, p, q) ==
  /\ RankIn(s, q) = (RankIn(s, p) + 1 + s.channels * s.packets - s.packets)
                      % (PrtMod * (s.channels * s.packets))
  /\ RankIn(s, q) % s.packets = 0

LEMMA SpecTypes ==
  ASSUME NEW s \in Specs
  PROVE  /\ s.channels \in Nat \ {0} /\ s.packets \in Nat \ {0}
         /\ s.channels * s.packets \in Nat \ {0}
         /\ PrtMod \in Nat \ {0, 1} /\ CpiMod \in Nat \ {0, 1}
         /\ PrtMod * (s.channels * s.packets) \in Nat \ {0}
<1>1. /\ s.channels \in Nat \ {0} /\ s.packets \in Nat \ {0}
      /\ PrtMod \in Nat \ {0, 1} /\ CpiMod \in Nat \ {0, 1}
  BY ProtocolAssumption
<1>2. \A m, n \in Nat \ {0} : m * n \in Nat \ {0}
  OBVIOUS
<1>3. s.channels * s.packets \in Nat \ {0}
  BY <1>1, <1>2
<1>4. PrtMod * (s.channels * s.packets) \in Nat \ {0}
  BY <1>1, <1>2, <1>3
<1>5. QED
  BY <1>1, <1>3, <1>4

(* The rank and what is left of it by channels and by packets.             *)
LEMMA RankFacts ==
  ASSUME NEW s \in Specs, NEW p, Placed(s, p)
  PROVE  LET W == s.channels * s.packets
             M == PrtMod * W
             r == RankIn(s, p)
         IN  /\ r \in 0 .. M - 1
             /\ r % s.packets = p.idx - 1
             /\ r % W = p.ch * s.packets + (p.idx - 1)
             /\ p.ch * s.packets + (p.idx - 1) \in 0 .. W - 1
             /\ r = p.prt * W + (p.ch * s.packets + (p.idx - 1))
<1> DEFINE C == s.channels
           P == s.packets
           W == C * P
           M == PrtMod * W
           a == p.prt
           c == p.ch
           x == p.idx - 1
           r == RankIn(s, p)
<1>1. /\ C \in Nat \ {0} /\ P \in Nat \ {0} /\ W \in Nat \ {0} /\ M \in Nat \ {0}
      /\ PrtMod \in Nat \ {0}
  BY SpecTypes
<1>2. a \in 0 .. PrtMod - 1 /\ c \in 0 .. C - 1 /\ x \in 0 .. P - 1
  BY <1>1 DEF Placed
<1>3. r = (a * C + c) * P + x
  <2>1. p.idx \in Nat
    BY <1>1 DEF Placed
  <2> DEFINE y == (a * C + c) * P
  <2>2. y \in Int
    BY <1>1, <1>2
  <2> HIDE DEF y
  <2>3. y + p.idx - 1 = y + (p.idx - 1)
    BY <2>1, <2>2
  <2>4. QED
    BY <2>3 DEF RankIn, y
<1> HIDE DEF C, P, a, c, x, r
<1>4. (a * C + c) * P = a * (C * P) + c * P
  BY <1>1, <1>2
<1>5. c * P + x \in 0 .. W - 1
  BY <1>1, <1>2, TwoDigits DEF W
<1>6. r = a * W + (c * P + x)
  <2>1. a * (C * P) \in Int /\ c * P \in Int
    BY <1>1, <1>2
  <2>2. QED
    BY <1>2, <1>3, <1>4, <2>1 DEF W
<1>7. r % P = x
  <2>1. a * C + c \in Nat /\ (a * C + c) * P \in Nat
    BY <1>1, <1>2
  <2>2. r \in Nat /\ r = P * (a * C + c) + x
    BY <1>1, <1>2, <1>3, <2>1
  <2>3. QED
    BY <1>1, <1>2, <2>1, <2>2, RemainderOf
<1> HIDE DEF W
<1>8. r \in 0 .. M - 1
  BY <1>1, <1>2, <1>5, <1>6, TwoDigits DEF M
<1>9. r % W = c * P + x
  <2>1. r \in Nat /\ a \in Nat /\ r = W * a + (c * P + x)
    BY <1>1, <1>2, <1>5, <1>6, <1>8
  <2>2. QED
    BY <1>1, <1>2, <1>5, <2>1, RemainderOf
<1> HIDE DEF M
<1>10. QED
  BY <1>5, <1>6, <1>7, <1>8, <1>9 DEF C, P, a, c, x, r, W, M

(* A packet is known from its rank.                                        *)
LEMMA RankTells ==
  ASSUME NEW s \in Specs, NEW p, NEW q, Placed(s, p), Placed(s, q), RankIn(s, p) = RankIn(s, q)
  PROVE  p.prt = q.prt /\ p.ch = q.ch /\ p.idx = q.idx
<1> DEFINE P == s.packets
           W == s.channels * P
           x == p.ch * P + (p.idx - 1)
           y == q.ch * P + (q.idx - 1)
<1>1. P \in Nat \ {0} /\ W \in Nat \ {0}
  BY SpecTypes
<1>2. /\ p.prt \in Nat /\ q.prt \in Nat /\ p.ch \in Nat /\ q.ch \in Nat
      /\ p.idx - 1 \in 0 .. P - 1 /\ q.idx - 1 \in 0 .. P - 1
      /\ p.idx \in Nat /\ q.idx \in Nat
  BY SpecTypes, ProtocolAssumption DEF Placed
<1>3. x \in 0 .. W - 1 /\ y \in 0 .. W - 1 /\ p.prt * W + x = q.prt * W + y
  BY RankFacts
<1>4. x = y /\ p.prt = q.prt
  <2> DEFINE a == p.prt
             b == q.prt
  <2>1. a \in Nat /\ b \in Nat /\ a * W + x = b * W + y
    BY <1>2, <1>3
  <2> HIDE DEF x, y, W, a, b
  <2>2. a = b /\ x = y
    BY <1>1, <1>3, <2>1, Digits
  <2>3. QED
    BY <2>2 DEF a, b
<1>5. p.ch = q.ch /\ p.idx - 1 = q.idx - 1
  <2> DEFINE a == p.ch
             b == q.ch
             u == p.idx - 1
             v == q.idx - 1
  <2>1. /\ a \in Nat /\ b \in Nat /\ u \in 0 .. P - 1 /\ v \in 0 .. P - 1
        /\ a * P + u = b * P + v
    BY <1>2, <1>4
  <2> HIDE DEF P, a, b, u, v
  <2>2. a = b /\ u = v
    BY <1>1, <2>1, Digits
  <2>3. QED
    BY <2>2 DEF a, b, u, v
<1>6. QED
  BY <1>2, <1>4, <1>5

-----------------------------------------------------------------------------
(* The tracker's view of the order is the one of the ranks *)

LEMMA SmallRemainder ==
  ASSUME NEW d \in Nat \ {0}, NEW x \in 0 .. d - 1
  PROVE  x % d = x
<1>1. x \in Nat /\ x = d * 0 + x
  OBVIOUS
<1>2. QED
  BY <1>1, RemainderOf

LEMMA RemainderPast ==
  ASSUME NEW d \in Nat \ {0}, NEW x \in 0 .. d - 1
  PROVE  (d + x) % d = x
<1>1. d + x \in Nat /\ d + x = d * 1 + x /\ 1 \in Nat
  OBVIOUS
<1>2. QED
  BY <1>1, RemainderOf

LEMMA NextIs ==
  ASSUME spec \in Specs, NEW p \in Points
  PROVE  LET n == BuildNextExpected(p)
         IN  /\ p.idx < spec.packets =>
                  n = [cpi |-> p.cpi, ch |-> p.ch, prt |-> p.prt, idx |-> p.idx + 1]
             /\ p.idx >= spec.packets /\ p.ch + 1 < spec.channels =>
                  n = [cpi |-> p.cpi, ch |-> p.ch + 1, prt |-> p.prt, idx |-> 1]
             /\ ~(p.idx < spec.packets) /\ ~(p.idx >= spec.packets /\ p.ch + 1 < spec.channels) =>
                  n = [cpi |-> p.cpi, ch |-> 0, prt |-> (p.prt + 1) % PrtMod, idx |-> 1]
<1>1. PICK a, b, c, d : p = [cpi |-> a, ch |-> b, prt |-> c, idx |-> d]
  BY DEF Points
<1>2. p.cpi = a /\ p.ch = b /\ p.prt = c /\ p.idx = d
  BY <1>1
<1>3. [p EXCEPT !.idx = p.idx + 1] = [cpi |-> a, ch |-> b, prt |-> c, idx |-> d + 1]
  BY <1>1, <1>2
<1> DEFINE q == [p EXCEPT !.idx = 1]
           r == [q EXCEPT !.ch = 0]
           e == (c + 1) % PrtMod
<1>4. q = [cpi |-> a, ch |-> b, prt |-> c, idx |-> 1] /\ e = (p.prt + 1) % PrtMod
  BY <1>1, <1>2
<1> HIDE DEF q, e
<1>5. /\ [q EXCEPT !.ch = b + 1] = [cpi |-> a, ch |-> b + 1, prt |-> c, idx |-> 1]
      /\ r = [cpi |-> a, ch |-> 0, prt |-> c, idx |-> 1]
  BY <1>4
<1>6. [p EXCEPT !.idx = 1, !.ch = p.ch + 1] = [cpi |-> a, ch |-> b + 1, prt |-> c, idx |-> 1]
  BY <1>1, <1>2, <1>5, Z3 DEF q
<1> HIDE DEF r
<1>7. [r EXCEPT !.prt = e] = [cpi |-> a, ch |-> 0, prt |-> e, idx |-> 1]
  BY <1>5
<1>8. [p EXCEPT !.idx = 1, !.ch = 0, !.prt = e] = [cpi |-> a, ch |-> 0, prt |-> e, idx |-> 1]
  BY <1>1, <1>7, Z3 DEF q, r
<1>9. p.idx \in Nat /\ spec.packets \in Nat /\ p.ch \in Nat /\ spec.channels \in Nat
  BY SpecTypes DEF Points
<1>10. QED
  BY <1>2, <1>3, <1>4, <1>6, <1>8, <1>9 DEF BuildNextExpected, e

(* What build_next_expected() expects is the packet of the next rank.      *)
LEMMA NextRank ==
  ASSUME spec \in Specs, NEW p \in Points, Placed(spec, p)
  PROVE  LET n == BuildNextExpected(p)
         IN  /\ n \in Points /\ Placed(spec, n) /\ n.cpi = p.cpi
             /\ RankIn(spec, n) =
                  (RankIn(spec, p) + 1) % (PrtMod * (spec.channels * spec.packets))
<1> DEFINE C == spec.channels
           P == spec.packets
           W == C * P
           M == PrtMod * W
           r == RankIn(spec, p)
           n == BuildNextExpected(p)
<1>1. /\ C \in Nat \ {0} /\ P \in Nat \ {0} /\ W \in Nat \ {0} /\ M \in Nat \ {0}
      /\ PrtMod \in Nat \ {0, 1}
  BY SpecTypes
<1>2. /\ p.prt \in 0 .. PrtMod - 1 /\ p.ch \in 0 .. C - 1 /\ p.idx \in 1 .. P
      /\ p.cpi \in 0 .. CpiMod - 1
  BY DEF Placed, Points
<1>4. r \in 0 .. M - 1 /\ r = p.prt * W + (p.ch * P + (p.idx - 1))
  BY RankFacts
<1>5. CASE p.idx < P
  <2>1. n = [cpi |-> p.cpi, ch |-> p.ch, prt |-> p.prt, idx |-> p.idx + 1]
    BY <1>5, NextIs
  <2>2. n \in Points /\ Placed(spec, n) /\ n.cpi = p.cpi
    BY <1>1, <1>2, <1>5, <2>1 DEF Points, Placed
  <2>3. RankIn(spec, n) \in 0 .. M - 1
    BY <2>2, RankFacts
  <2>4. RankIn(spec, n) = p.prt * W + (p.ch * P + (p.idx + 1 - 1))
    <3>1. RankIn(spec, n) = n.prt * W + (n.ch * P + (n.idx - 1))
      BY <2>2, RankFacts
    <3>2. n.prt = p.prt /\ n.ch = p.ch /\ n.idx = p.idx + 1
      BY <2>1
    <3>3. p.prt \in Int /\ p.ch \in Int /\ p.idx \in Int /\ W \in Int /\ P \in Int
      BY <1>1, <1>2
    <3> HIDE DEF n, W, P
    <3>4. QED
      BY <3>1, <3>2, <3>3
  <2>5. RankIn(spec, n) = r + 1
    <3>1. p.prt * W \in Int /\ p.ch * P \in Int /\ p.idx \in Int
      BY <1>1, <1>2
    <3> DEFINE u == p.prt * W
               v == p.ch * P
    <3> HIDE DEF u, v
    <3>2. u + (v + (p.idx + 1 - 1)) = u + (v + (p.idx - 1)) + 1
      BY <3>1 DEF u, v
    <3>3. QED
      BY <1>4, <2>4, <3>2 DEF u, v
  <2>6. QED
    BY <1>1, <2>2, <2>3, <2>5, SmallRemainder
<1>6. CASE p.idx = P /\ p.ch + 1 < C
  <2>1. n = [cpi |-> p.cpi, ch |-> p.ch + 1, prt |-> p.prt, idx |-> 1]
    BY <1>1, <1>2, <1>6, NextIs
  <2>2. n \in Points /\ Placed(spec, n) /\ n.cpi = p.cpi
    BY <1>1, <1>2, <1>6, <2>1 DEF Points, Placed
  <2>3. RankIn(spec, n) \in 0 .. M - 1
    BY <2>2, RankFacts
  <2>4. RankIn(spec, n) = p.prt * W + ((p.ch + 1) * P + (1 - 1))
    BY <2>1, <2>2, RankFacts
  <2>5. RankIn(spec, n) = r + 1
    <3> DEFINE u == p.prt * W
               c == p.ch
    <3>1. u \in Int /\ c \in Int /\ P \in Int
      BY <1>1, <1>2
    <3> HIDE DEF u, c, P
    <3>2. u + ((c + 1) * P + (1 - 1)) = u + (c * P + (P - 1)) + 1
      BY <3>1
    <3>3. QED
      BY <1>4, <1>6, <2>4, <3>2 DEF u, c
  <2>6. QED
    BY <1>1, <2>2, <2>3, <2>5, SmallRemainder
<1>7. CASE p.idx = P /\ p.ch + 1 = C
  <2>1. n = [cpi |-> p.cpi, ch |-> 0, prt |-> (p.prt + 1) % PrtMod, idx |-> 1]
    BY <1>1, <1>2, <1>7, NextIs
  <2>2. /\ (p.prt + 1) % PrtMod \in 0 .. PrtMod - 1
        /\ p.prt + 1 < PrtMod => (p.prt + 1) % PrtMod = p.prt + 1
        /\ p.prt + 1 = PrtMod => (p.prt + 1) % PrtMod = 0
    <3>1. CASE p.prt + 1 < PrtMod
      BY <1>1, <1>2, <3>1, SmallRemainder
    <3>2. CASE p.prt + 1 = PrtMod
      <4>1. 0 \in 0 .. PrtMod - 1 /\ PrtMod + 0 = p.prt + 1
        BY <1>1, <3>2
      <4>2. (PrtMod + 0) % PrtMod = 0
        BY <1>1, <4>1, RemainderPast
      <4>3. QED
        BY <1>1, <3>2, <4>1, <4>2
    <3>3. QED
      BY <1>1, <1>2, <3>1, <3>2
  <2>3. n \in Points /\ Placed(spec, n) /\ n.cpi = p.cpi
    BY <1>1, <1>2, <2>1, <2>2 DEF Points, Placed
  <2>4. RankIn(spec, n) \in 0 .. M - 1
    BY <2>3, RankFacts
  <2>5. RankIn(spec, n) = ((p.prt + 1) % PrtMod) * W + (0 * P + (1 - 1))
    BY <2>1, <2>3, RankFacts
  <2> DEFINE a == p.prt
             c == p.ch
  <2>6. a \in Nat /\ c \in Nat /\ p.idx - 1 = P - 1 /\ c + 1 = C /\ W = C * P
    BY <1>1, <1>2, <1>7
  <2>7. r = a * W + (c * P + (P - 1))
    BY <1>4, <2>6
  <2>8. r + 1 = (a + 1) * W
    <3> HIDE DEF a, c, r, C, P, W
    <3>1. W = c * P + P /\ c * P \in Int
      BY <1>1, <2>6
    <3>2. a * W \in Int /\ (a + 1) * W = a * W + W
      BY <1>1, <2>6
    <3>3. QED
      BY <1>1, <2>7, <3>1, <3>2
  <2>9. CASE a + 1 < PrtMod
    <3>1. RankIn(spec, n) = (a + 1) * W + (0 * P + (1 - 1))
      BY <2>2, <2>5, <2>9
    <3>2. (a + 1) * W \in Int /\ 0 * P = 0
      BY <1>1, <2>6
    <3>3. RankIn(spec, n) = r + 1
      BY <2>8, <3>1, <3>2
    <3>4. QED
      BY <1>1, <2>3, <2>4, <3>3, SmallRemainder
  <2>10. CASE a + 1 = PrtMod
    <3>1. RankIn(spec, n) = 0 * W + (0 * P + (1 - 1))
      BY <2>2, <2>5, <2>10
    <3>2. RankIn(spec, n) = 0 /\ r + 1 = M
      BY <1>1, <2>8, <2>10, <3>1
    <3>3. 0 \in 0 .. M - 1 /\ M + 0 = M
      BY <1>1
    <3>4. (M + 0) % M = 0
      BY <1>1, <3>3, RemainderPast
    <3>5. QED
      BY <2>3, <3>2, <3>3, <3>4
  <2>11. QED
    BY <1>1, <1>2, <2>9, <2>10
<1>8. QED
  BY <1>1, <1>2, <1>5, <1>6, <1>7

(* A packet follows another exactly if the tracker expects it or takes it  *)
(* for the first one of the next CPI.                                      *)
LEMMA FollowsIsExpected ==
  ASSUME spec \in Specs, NEW p \in Points, NEW q \in Points, Placed(spec, p), Placed(spec, q)
  PROVE  FollowsIn(spec, p, q) <=> q = BuildNextExpected(p) \/ IsCpiRollover(p, q)
<1> DEFINE C == spec.channels
           P == spec.packets
           W == C * P
           M == PrtMod * W
           n == BuildNextExpected(p)
           first == [cpi |-> (p.cpi + 1) % CpiMod, prt |-> 1, ch |-> 0, idx |-> 1]
<1>1. /\ C \in Nat \ {0} /\ P \in Nat \ {0} /\ W \in Nat \ {0} /\ M \in Nat \ {0}
      /\ PrtMod \in Nat \ {0, 1} /\ CpiMod \in Nat \ {0, 1}
  BY SpecTypes
<1>2. q = [cpi |-> q.cpi, ch |-> q.ch, prt |-> q.prt, idx |-> q.idx]
  BY DEF Points
<1>3. q.cpi = p.cpi /\ RankIn(spec, q) = (RankIn(spec, p) + 1) % M <=> q = n
  <2>1. /\ n \in Points /\ Placed(spec, n) /\ n.cpi = p.cpi
        /\ RankIn(spec, n) = (RankIn(spec, p) + 1) % M
    BY NextRank
  <2> HIDE DEF n, M
  <2>2. RankIn(spec, q) = RankIn(spec, n) => q.prt = n.prt /\ q.ch = n.ch /\ q.idx = n.idx
    BY <2>1, RankTells
  <2>3. n = [cpi |-> n.cpi, ch |-> n.ch, prt |-> n.prt, idx |-> n.idx]
    BY <2>1 DEF Points
  <2>4. QED
    BY <1>2, <2>1, <2>2, <2>3
<1>4. RankIn(spec, p) % W = W - 1 <=> p.idx = P /\ p.ch + 1 = C
  <2> DEFINE c == p.ch
             x == p.idx - 1
  <2>1. /\ RankIn(spec, p) % W = c * P + x
        /\ c \in Nat /\ x \in 0 .. P - 1 /\ C - 1 \in Nat /\ P - 1 \in 0 .. P - 1
        /\ p.idx \in Nat
    BY <1>1, RankFacts DEF Placed
  <2>2. W - 1 = (C - 1) * P + (P - 1)
    BY <1>1
  <2>3. c * P + x = (C - 1) * P + (P - 1) <=> c = C - 1 /\ x = P - 1
    <3> DEFINE k == C - 1
               y == P - 1
    <3>1. k \in Nat /\ y \in 0 .. P - 1
      BY <2>1
    <3> HIDE DEF c, x, k, y, P, C
    <3>2. c * P + x = k * P + y => c = k /\ x = y
      BY <1>1, <2>1, <3>1, Digits
    <3>3. QED
      BY <3>2 DEF k, y
  <2>4. c = C - 1 /\ x = P - 1 <=> p.idx = P /\ p.ch + 1 = C
    BY <1>1, <2>1
  <2> HIDE DEF c, x, W, P, C
  <2>5. QED
    BY <2>1, <2>2, <2>3, <2>4
<1>5. q.cpi = (p.cpi + 1) % CpiMod /\ RankIn(spec, q) = W <=> q = first
  <2>1. Placed(spec, first) /\ first.prt = 1 /\ first.ch = 0 /\ first.idx = 1
    BY <1>1 DEF Placed
  <2>2. RankIn(spec, first) = W
    <3>1. RankIn(spec, first) = first.prt * W + (first.ch * P + (first.idx - 1))
      BY <2>1, RankFacts
    <3>2. 1 * W + (0 * P + (1 - 1)) = W
      BY <1>1
    <3> HIDE DEF first, W, P
    <3>3. QED
      BY <2>1, <3>1, <3>2
  <2>3. RankIn(spec, q) = RankIn(spec, first) => q.prt = 1 /\ q.ch = 0 /\ q.idx = 1
    <3> HIDE DEF first
    <3>1. QED
      BY <2>1, RankTells
  <2>4. q = first <=> q.cpi = (p.cpi + 1) % CpiMod /\ q.prt = 1 /\ q.ch = 0 /\ q.idx = 1
    <3> DEFINE e == (p.cpi + 1) % CpiMod
    <3> HIDE DEF e
    <3>1. QED
      BY <1>2 DEF e
  <2>5. RankIn(spec, q) = W <=> q.prt = 1 /\ q.ch = 0 /\ q.idx = 1
    <3>1. ASSUME q.prt = 1, q.ch = 0, q.idx = 1
          PROVE  RankIn(spec, q) = W
      <4>1. RankIn(spec, q) = RankIn(spec, first)
        BY <2>1, <3>1 DEF RankIn
      <4>2. QED
        BY <2>2, <4>1
    <3>2. QED
      BY <2>2, <2>3, <3>1
  <2>6. QED
    BY <2>4, <2>5
<1>6. IsCpiRollover(p, q) <=> p.idx = P /\ p.ch + 1 = C /\ q = first
  BY DEF IsCpiRollover
<1> HIDE DEF first, n
<1>7. QED
  BY <1>3, <1>4, <1>5, <1>6 DEF FollowsIn, n

(* "By channel" is said exactly of a step from the end of a channel to its *)
(* begin in the next PRT.                                                  *)
LEMMA FirstOfChannelIsBatched ==
  ASSUME spec \in Specs, NEW p \in Points, NEW q \in Points, Placed(spec, p), Placed(spec, q)
  PROVE  FirstOfChannelIn(spec, p, q) <=> LooksBatched(p, q)
<1> DEFINE C == spec.channels
           P == spec.packets
           W == C * P
           M == PrtMod * W
           r == RankIn(spec, p)
           X == r + 1 + W - P
           t == [cpi |-> 0, prt |-> (p.prt + 1) % PrtMod, ch |-> p.ch, idx |-> 1]
<1>1. /\ C \in Nat \ {0} /\ P \in Nat \ {0} /\ W \in Nat \ {0} /\ M \in Nat \ {0}
      /\ PrtMod \in Nat \ {0, 1} /\ W = C * P /\ M = PrtMod * W
  BY SpecTypes
<1> HIDE DEF C, P, W, M
<1>2. /\ p.prt \in 0 .. PrtMod - 1 /\ p.ch \in 0 .. C - 1 /\ p.idx \in 1 .. P
      /\ q.prt \in 0 .. PrtMod - 1 /\ q.ch \in 0 .. C - 1 /\ q.idx \in 1 .. P
  BY DEF Placed, C, P
<1>3. /\ r \in 0 .. M - 1 /\ r = p.prt * W + (p.ch * P + (p.idx - 1))
      /\ RankIn(spec, q) % P = q.idx - 1
      /\ RankIn(spec, q) = q.prt * W + (q.ch * P + (q.idx - 1))
      /\ RankIn(spec, q) \in 0 .. M - 1
  BY RankFacts DEF C, P, W, M
<1> DEFINE a == p.prt
           c == p.ch
           x == p.idx - 1
           u == q.prt
           v == q.ch
<1>4. /\ a \in 0 .. PrtMod - 1 /\ c \in 0 .. C - 1 /\ x \in 0 .. P - 1
      /\ u \in 0 .. PrtMod - 1 /\ v \in 0 .. C - 1
  BY <1>1, <1>2
<1>5. r = a * W + (c * P + x)
  BY <1>3
<1> HIDE DEF r, a, c, x, u, v
<1>6. W >= P /\ c * P \in Int /\ c * P >= 0 /\ c * P + P <= W /\ a * W \in Int
  <2>1. c * P + x \in 0 .. C * P - 1 /\ c * P + (P - 1) \in 0 .. C * P - 1
    BY <1>1, <1>4, TwoDigits
  <2>2. c * P \in Int /\ c * P >= 0 /\ a * W \in Int
    BY <1>1, <1>4
  <2>3. QED
    BY <1>1, <2>1, <2>2
<1>7. X = (a + 1) * W + (c * P + x + 1 - P)
  <2>1. (a + 1) * W = a * W + W
    BY <1>1, <1>4
  <2>2. QED
    BY <1>1, <1>4, <1>5, <1>6, <2>1
<1> DEFINE i == q.idx
<1>8. i \in 1 .. P /\ RankIn(spec, q) % P = i - 1 /\ RankIn(spec, q) = u * W + (v * P + (i - 1))
  BY <1>2, <1>3 DEF u, v
<1> HIDE DEF i
<1>9. RankIn(spec, q) = (u * C + v) * P + (i - 1) /\ u * C + v \in Nat
  <2>1. u * (C * P) + (v * P + (i - 1)) = (u * C + v) * P + (i - 1)
    BY <1>1, <1>4, <1>8
  <2>2. QED
    BY <1>1, <1>4, <1>8, <2>1
<1>10. LooksBatched(p, q) <=> x = P - 1 /\ i = 1 /\ v = c /\ u = (a + 1) % PrtMod
  <2>1. p.idx = P <=> x = P - 1
    BY <1>1, <1>2 DEF x
  <2>2. QED
    BY <2>1 DEF LooksBatched, P, i, v, c, u, a
<1>11. FirstOfChannelIn(spec, p, q) <=> RankIn(spec, q) = X % M /\ i = 1
  <2>1. RankIn(spec, q) % P = 0 <=> i = 1
    BY <1>1, <1>8
  <2>2. FirstOfChannelIn(spec, p, q) <=> RankIn(spec, q) = X % M /\ RankIn(spec, q) % P = 0
    BY DEF FirstOfChannelIn, r, W, P, C, M
  <2>3. QED
    BY <2>1, <2>2
<1> HIDE DEF X
(* As a multiple of P and a rest, the remainder of X tells the digits.     *)
<1>12. ASSUME NEW B \in Nat, X % M = B * P + (x + 1 - P)
       PROVE  RankIn(spec, q) = X % M /\ i = 1 <=> x = P - 1 /\ i = 1 /\ u * C + v = B
  <2> DEFINE k == u * C + v
             y == P - 1
  <2>1. k \in Nat /\ y \in 0 .. P - 1 /\ k * P \in Int /\ B * P \in Int
    BY <1>1, <1>9
  <2> HIDE DEF k, y
  <2>2. k * P + y = B * P + x => k = B /\ y = x
    BY <1>1, <1>4, <2>1, Digits
  <2>3. i = 1 => (RankIn(spec, q) = X % M <=> k * P + y = B * P + x)
    <3>1. i = 1 => RankIn(spec, q) = k * P
      BY <1>9, <2>1 DEF k
    <3>2. k * P = B * P + (x + 1 - P) <=> k * P + y = B * P + x
      <4> DEFINE m == k * P
                 n == B * P
      <4>1. m \in Int /\ n \in Int
        BY <2>1
      <4> HIDE DEF m, n
      <4>2. m = n + (x + 1 - P) <=> m + (P - 1) = n + x
        BY <1>1, <1>4, <4>1
      <4>3. QED
        BY <4>2 DEF m, n, y
    <3>3. QED
      BY <1>12, <3>1, <3>2
  <2>4. x = P - 1 /\ k = B => k * P + y = B * P + x
    BY DEF y
  <2>5. QED
    BY <2>2, <2>3, <2>4 DEF k, y
<1>13. CASE a + 1 < PrtMod
  <2> DEFINE b == a + 1
             B == b * C + c
  <2>1. b \in Nat /\ b < PrtMod /\ B \in Nat /\ (a + 1) % PrtMod = b /\ b >= 1
    BY <1>1, <1>4, <1>13, SmallRemainder
  <2>2. X \in 0 .. M - 1
    <3>1. b * W + (W - 1) \in 0 .. PrtMod * W - 1
      BY <1>1, <2>1, TwoDigits
    <3>2. b * W >= W /\ b * W \in Int
      BY <1>1, <2>1
    <3>3. X = b * W + (c * P + x + 1 - P)
      BY <1>7 DEF X
    <3> DEFINE m == b * W
               n == c * P
    <3>4. m \in Int /\ n \in Int /\ m >= W /\ m + (W - 1) < M /\ n >= 0 /\ n + P <= W
      BY <1>1, <1>6, <3>1, <3>2
    <3>5. X = m + (n + x + 1 - P)
      BY <3>3
    <3> HIDE DEF m, n, b
    <3>6. QED
      BY <1>1, <1>4, <1>6, <3>4, <3>5
  <2>3. X % M = B * P + (x + 1 - P)
    <3>1. X % M = X
      BY <1>1, <2>2, SmallRemainder
    <3>2. b * (C * P) + (c * P + x + 1 - P) = (b * C + c) * P + (x + 1 - P)
      BY <1>1, <1>4, <2>1
    <3>3. QED
      BY <1>1, <1>7, <3>1, <3>2 DEF X
  <2>4. u * C + v = B <=> u = b /\ v = c
    <3> HIDE DEF b
    <3>1. u * C + v = b * C + c => u = b /\ v = c
      BY <1>1, <1>4, <2>1, Digits
    <3>2. QED
      BY <3>1
  <2> HIDE DEF B, b
  <2>5. QED
    BY <1>10, <1>11, <1>12, <2>1, <2>3, <2>4
<1>14. CASE a + 1 = PrtMod
  <2>1. (a + 1) % PrtMod = 0
    <3>1. 0 \in 0 .. PrtMod - 1 /\ PrtMod + 0 = a + 1
      BY <1>1, <1>4, <1>14
    <3>2. (PrtMod + 0) % PrtMod = 0
      BY <1>1, <3>1, RemainderPast
    <3>3. QED
      BY <3>1, <3>2
  <2>2. X = M + (c * P + x + 1 - P)
    BY <1>1, <1>7, <1>14 DEF X
  <2>3. M >= W
    <3>1. PrtMod * W = W + (PrtMod - 1) * W /\ (PrtMod - 1) * W >= 0
      BY <1>1
    <3>2. (PrtMod - 1) * W \in Int
      BY <1>1
    <3>3. QED
      BY <1>1, <3>1, <3>2
  <2> DEFINE n == c * P
  <2>4. n \in Int /\ n >= 0 /\ n + P <= W
    BY <1>6
  <2>5. CASE n + x + 1 - P >= 0
    <3>1. X % M = c * P + (x + 1 - P)
      <4> DEFINE m == n + x + 1 - P
      <4>1. m \in 0 .. M - 1 /\ X = M + m /\ m = c * P + (x + 1 - P)
        <5>1. X = M + (n + x + 1 - P)
          BY <2>2
        <5> HIDE DEF n
        <5>2. n + x + 1 - P \in 0 .. M - 1 /\ n + x + 1 - P = n + (x + 1 - P)
          BY <1>1, <1>4, <2>3, <2>4, <2>5
        <5>3. QED
          BY <5>1, <5>2 DEF n
      <4> HIDE DEF m
      <4>2. (M + m) % M = m
        BY <1>1, <4>1, RemainderPast
      <4>3. QED
        BY <4>1, <4>2
    <3>2. u * C + v = c <=> u = 0 /\ v = c
      <4>1. u \in Nat /\ 0 \in Nat /\ 0 * C + c = c /\ c \in Nat
        BY <1>1, <1>4
      <4>2. u * C + v = 0 * C + c => u = 0 /\ v = c
        BY <1>1, <1>4, <4>1, Digits
      <4>3. u = 0 /\ v = c => u * C + v = c
        BY <1>1, <1>4
      <4>4. QED
        BY <4>1, <4>2, <4>3
    <3>3. c \in Nat
      BY <1>1, <1>4
    <3>4. QED
      BY <1>10, <1>11, <1>12, <2>1, <3>1, <3>2, <3>3
  <2>6. CASE ~(n + x + 1 - P >= 0)
    <3>1. x # P - 1
      BY <1>1, <1>4, <2>4, <2>6
    <3> DEFINE B == PrtMod * C + c
    <3>2. X \in 0 .. M - 1
      <4>1. X = M + (n + x + 1 - P)
        BY <2>2
      <4> HIDE DEF n
      <4>2. QED
        BY <1>1, <1>4, <1>6, <2>3, <2>4, <2>6, <4>1
    <3>3. X % M = B * P + (x + 1 - P) /\ B \in Nat
      <4>1. X % M = X
        BY <1>1, <3>2, SmallRemainder
      <4>2. PrtMod * (C * P) + (c * P + x + 1 - P) = (PrtMod * C + c) * P + (x + 1 - P)
        BY <1>1, <1>4
      <4>3. PrtMod * C + c \in Nat
        BY <1>1, <1>4
      <4>4. QED
        BY <1>1, <2>2, <4>1, <4>2, <4>3
    <3> HIDE DEF B
    <3>4. QED
      BY <1>10, <1>11, <1>12, <3>1, <3>3
  <2>7. QED
    BY <2>5, <2>6
<1>15. QED
  BY <1>1, <1>4, <1>13, <1>14

-----------------------------------------------------------------------------
(* The assembler: pieces put together are made of the units that came *)

JoinsTo(a, from) ==
  from = [o \in Nat |-> IF o >= a.total THEN <<>>
                        ELSE IF o \notin DOMAIN a.pieces THEN <<Missing>>
                        ELSE a.pieces[o] \o from[o + Len(a.pieces[o])]]

Lasting(a) ==
  /\ a.total \in Nat \cup {-1}
  /\ \A o \in DOMAIN a.pieces : Len(a.pieces[o]) \in Nat \ {0}

(* Each piece is longer than zero, so that the recursion in Joined ends.   *)
LEMMA JoinedExists ==
  ASSUME NEW a, Lasting(a)
  PROVE  \E from : JoinsTo(a, from)
<1> DEFINE t == IF a.total = -1 THEN 0 ELSE a.total
           Upper(k) == {o \in Nat : o >= t - k}
           T(k) == \E g : g = [o \in Upper(k) |->
                                 IF o >= a.total THEN <<>>
                                 ELSE IF o \notin DOMAIN a.pieces THEN <<Missing>>
                                 ELSE a.pieces[o] \o g[o + Len(a.pieces[o])]]
           S == {k \in 0 .. t : T(k)}
<1>1. t \in Nat /\ a.total <= t /\ a.total \in Int
  BY DEF Lasting
<1>2. T(0)
  <2> DEFINE g == [o \in Upper(0) |-> <<>>]
  <2>1. \A o \in Upper(0) : o >= a.total
    BY <1>1
  <2>2. g = [o \in Upper(0) |-> IF o >= a.total THEN <<>>
                                 ELSE IF o \notin DOMAIN a.pieces THEN <<Missing>>
                                 ELSE a.pieces[o] \o g[o + Len(a.pieces[o])]]
    <3> HIDE DEF Upper
    <3>1. QED
      BY <2>1
  <2>3. QED
    BY <2>2
<1>3. ASSUME NEW k \in 1 .. t, T(k - 1)
      PROVE  T(k)
  <2>1. PICK g : g = [o \in Upper(k - 1) |->
                       IF o >= a.total THEN <<>>
                       ELSE IF o \notin DOMAIN a.pieces THEN <<Missing>>
                       ELSE a.pieces[o] \o g[o + Len(a.pieces[o])]]
    BY <1>3
  <2> DEFINE m == t - k
             h == [o \in Upper(k) |->
                     IF o = m THEN IF o >= a.total THEN <<>>
                                   ELSE IF o \notin DOMAIN a.pieces THEN <<Missing>>
                                   ELSE a.pieces[o] \o g[o + Len(a.pieces[o])]
                     ELSE g[o]]
  <2>2. /\ \A o \in Upper(k) : o = m \/ o \in Upper(k - 1)
        /\ \A o \in Upper(k - 1) : o \in Upper(k) /\ o # m
        /\ m \in Upper(k)
    BY <1>1
  <2>3. \A o \in Upper(k) : o \in DOMAIN a.pieces => o + Len(a.pieces[o]) \in Upper(k - 1)
    BY <1>1 DEF Lasting
  <2> HIDE DEF Upper, m
  <2>4. \A o \in Upper(k - 1) : h[o] = g[o]
    BY <2>2
  <2>5. \A o \in Upper(k) : h[o] = IF o >= a.total THEN <<>>
                                   ELSE IF o \notin DOMAIN a.pieces THEN <<Missing>>
                                   ELSE a.pieces[o] \o h[o + Len(a.pieces[o])]
    <3> SUFFICES ASSUME NEW o \in Upper(k)
                 PROVE  h[o] = IF o >= a.total THEN <<>>
                               ELSE IF o \notin DOMAIN a.pieces THEN <<Missing>>
                               ELSE a.pieces[o] \o h[o + Len(a.pieces[o])]
      OBVIOUS
    <3>1. h[o] = IF o >= a.total THEN <<>>
                 ELSE IF o \notin DOMAIN a.pieces THEN <<Missing>>
                 ELSE a.pieces[o] \o g[o + Len(a.pieces[o])]
      <4>1. CASE o = m
        BY <4>1
      <4>2. CASE o # m
        <5>1. o \in Upper(k - 1)
          BY <2>2, <4>2
        <5>2. h[o] = g[o]
          BY <2>4, <5>1
        <5> HIDE DEF h
        <5>3. QED
          BY <2>1, <5>1, <5>2
      <4>3. QED
        BY <4>1, <4>2
    <3>2. o \in DOMAIN a.pieces => h[o + Len(a.pieces[o])] = g[o + Len(a.pieces[o])]
      BY <2>3, <2>4
    <3> HIDE DEF h
    <3>3. QED
      BY <3>1, <3>2
  <2>6. h = [o \in Upper(k) |-> h[o]]
    OBVIOUS
  <2> HIDE DEF h
  <2>7. h = [o \in Upper(k) |-> IF o >= a.total THEN <<>>
                                 ELSE IF o \notin DOMAIN a.pieces THEN <<Missing>>
                                 ELSE a.pieces[o] \o h[o + Len(a.pieces[o])]]
    BY <2>5, <2>6
  <2>8. QED
    BY <2>7
<1>4. Upper(t) = Nat
  BY <1>1
<1> HIDE DEF T, Upper, t
<1>5. 0 \in S /\ \A k \in 1 .. t : k - 1 \in S => k \in S
  <2>1. 0 \in 0 .. t /\ \A k \in 1 .. t : k \in 0 .. t
    BY <1>1
  <2>2. QED
    BY <1>2, <1>3, <2>1
<1>6. t \in 0 .. t
  BY <1>1
<1> HIDE DEF S
<1>7. t \in S
  BY <1>1, <1>5, <1>6, IntervalInduction
<1>8. T(t)
  BY <1>7 DEF S
<1>9. QED
  BY <1>4, <1>8 DEF T, JoinsTo

LEMMA JoinedIs ==
  ASSUME NEW a, Lasting(a)
  PROVE  \E from : JoinsTo(a, from) /\ Joined(a) = from[0]
<1> DEFINE from == CHOOSE g : g = [o \in Nat |->
                       IF o >= a.total THEN <<>>
                       ELSE IF o \notin DOMAIN a.pieces THEN <<Missing>>
                       ELSE a.pieces[o] \o g[o + Len(a.pieces[o])]]
<1>1. Joined(a) = from[0]
  BY DEF Joined
<1>2. JoinsTo(a, from)
  BY JoinedExists DEF JoinsTo
<1>3. QED
  BY <1>1, <1>2

(* Induction from the total down: a piece is joined with what comes after. *)
LEMMA JoinedInduction ==
  ASSUME NEW a, Lasting(a), NEW from, JoinsTo(a, from), NEW Good,
         \A o \in Nat : o >= a.total => o \in Good,
         \A o \in Nat : o < a.total /\ o \notin DOMAIN a.pieces => o \in Good,
         \A o \in Nat : o < a.total /\ o \in DOMAIN a.pieces /\ o + Len(a.pieces[o]) \in Good
                           => o \in Good
  PROVE  \A o \in Nat : o \in Good
<1> DEFINE t == IF a.total = -1 THEN 0 ELSE a.total
           S == {k \in 0 .. t : \A o \in Nat : o >= t - k => o \in Good}
<1>1. t \in Nat /\ a.total <= t /\ a.total \in Int
  BY DEF Lasting
<1> HIDE DEF t
<1>2. 0 \in S
  BY <1>1
<1>3. ASSUME NEW k \in 1 .. t, k - 1 \in S
      PROVE  k \in S
  <2>1. \A o \in Nat : o >= t - (k - 1) => o \in Good
    BY <1>3
  <2>2. ASSUME NEW o \in Nat, o >= t - k
        PROVE  o \in Good
    <3>1. CASE o >= t - (k - 1)
      BY <2>1, <3>1
    <3>2. CASE o = t - k /\ o < a.total /\ o \in DOMAIN a.pieces
      <4>1. o + Len(a.pieces[o]) \in Nat /\ o + Len(a.pieces[o]) >= t - (k - 1)
        BY <1>1, <3>2 DEF Lasting
      <4>2. QED
        BY <2>1, <3>2, <4>1
    <3>3. CASE o < a.total /\ o \notin DOMAIN a.pieces
      BY <3>3
    <3>4. CASE o >= a.total
      BY <3>4
    <3>5. QED
      BY <1>1, <2>2, <3>1, <3>2, <3>3, <3>4
  <2>3. QED
    BY <1>1, <2>2
<1> HIDE DEF S
<1>4. t \in S
  <2>1. \A i \in 0 .. t : i \in S
    BY <1>1, <1>2, <1>3, IntervalInduction
  <2>2. QED
    BY <1>1, <2>1
<1>5. QED
  BY <1>1, <1>4 DEF S

-----------------------------------------------------------------------------
(* What comes out of the assembler has units of sent datagrams only *)

SentUnits == (DOMAIN Sent) \X Nat

Fitting(a) ==
  /\ Lasting(a)
  /\ \A o \in DOMAIN a.pieces : o \in Nat /\ a.pieces[o] \in Seq(SentUnits)
  /\ (a.udp \in Nat /\ a.udp > 1) \/ a.udp = -1

AssembliesFit == \A key \in DOMAIN fragments : Fitting(fragments[key])

(* Frames of sent datagrams, and noise.                                    *)
Wire == {Noise} \cup UNION {FramesOf(n) : n \in DOMAIN Sent}

LEMMA FrameEnds ==
  ASSUME NEW n \in DOMAIN Sent, NEW o \in Sent[n].cuts \cup {0}
  PROVE  LET ends == Sent[n].cuts \cup {Sent[n].units}
             end == Min({e \in ends : e > o})
         IN  /\ o \in Nat /\ end \in ends /\ end > o /\ end \in Nat /\ end <= Sent[n].units
             /\ \A e \in ends : e > o => end <= e
<1> DEFINE ends == Sent[n].cuts \cup {Sent[n].units}
           later == {e \in ends : e > o}
<1>1. /\ Sent[n].units \in Nat \ {0} /\ ends \subseteq Nat /\ o \in Nat
      /\ \A e \in ends : e <= Sent[n].units
      /\ o < Sent[n].units
  BY ProtocolAssumption
<1>2. later \in SUBSET Nat /\ later # {}
  BY <1>1
<1> HIDE DEF ends
<1>3. \A e \in later : e \in ends /\ e > o
  OBVIOUS
<1>4. \A e \in ends : e > o => e \in later
  OBVIOUS
<1> HIDE DEF later
<1>5. Min(later) \in later /\ \A e \in later : Min(later) <= e
  BY <1>2, LeastNumber DEF Min
<1>6. QED
  BY <1>1, <1>3, <1>4, <1>5 DEF later, ends

LEMMA FrameTypes ==
  ASSUME NEW f \in Wire, f.sound
  PROVE  /\ f.off \in Nat /\ f.len \in Nat \ {0} /\ f.of \in DOMAIN Sent
         /\ f.more \in BOOLEAN /\ f.udp \in Nat \ {0, 1}
<1>1. f # Noise
  BY DEF Noise
<1>2. PICK n \in DOMAIN Sent : f \in FramesOf(n)
  BY <1>1 DEF Wire
<1> DEFINE end(o) == Min({e \in Sent[n].cuts \cup {Sent[n].units} : e > o})
<1>3. PICK o \in Sent[n].cuts \cup {0} :
        f = [sound |-> TRUE, key |-> Sent[n].key, of |-> n, off |-> o, len |-> end(o) - o,
             more |-> end(o) < Sent[n].units, udp |-> Sent[n].udp]
  BY <1>2 DEF FramesOf
<1>4. o \in Nat /\ end(o) \in Nat /\ end(o) > o
  BY FrameEnds
<1>5. Sent[n].udp \in Nat \ {0, 1}
  BY ProtocolAssumption
<1>6. f.off = o /\ f.len = end(o) - o /\ f.of = n /\ f.udp = Sent[n].udp
      /\ f.more = (end(o) < Sent[n].units)
  BY <1>3
<1> HIDE DEF end
<1>7. QED
  BY <1>4, <1>5, <1>6

LEMMA UnitsFacts ==
  ASSUME NEW f, f.off \in Nat, f.len \in Nat, f.of \in DOMAIN Sent
  PROVE  Units(f) \in Seq(SentUnits) /\ Len(Units(f)) = f.len
<1> DEFINE len == f.len
<1>1. ASSUME NEW k \in 1 .. len
      PROVE  <<f.of, f.off + k - 1>> \in SentUnits
  <2>1. f.off + k - 1 \in Nat
    OBVIOUS
  <2>2. QED
    BY <2>1 DEF SentUnits
<1> HIDE DEF len
<1>2. Units(f) = [k \in 1 .. len |-> <<f.of, f.off + k - 1>>] /\ len \in Nat
  BY DEF Units, len
<1>3. Units(f) \in [1 .. len -> SentUnits]
  BY <1>1, <1>2
<1> DEFINE u == Units(f)
<1> HIDE DEF u
<1>4. u \in [1 .. len -> SentUnits] /\ len \in Nat
  BY <1>2, <1>3 DEF u
<1>5. u \in Seq(SentUnits) /\ Len(u) = len
  BY <1>4
<1>6. QED
  BY <1>5 DEF len, u

LEMMA PieceFits ==
  ASSUME AssembliesFit, NEW f \in Wire, f.sound
  PROVE  Fitting(WithPiece(f))
<1> DEFINE old == IF f.key \in DOMAIN fragments THEN fragments[f.key] ELSE NoAssembly
           a == WithPiece(f)
<1>1. Fitting(old)
  <2>1. Fitting(NoAssembly)
    BY DEF Fitting, Lasting, NoAssembly
  <2>2. QED
    BY <2>1 DEF AssembliesFit
<1>2. /\ a.pieces = [o \in DOMAIN old.pieces \cup {f.off} |->
                       IF o = f.off THEN Units(f) ELSE old.pieces[o]]
      /\ a.total = IF f.more THEN old.total ELSE f.off + f.len
      /\ a.udp = IF f.off = 0 THEN f.udp ELSE old.udp
  BY DEF WithPiece
<1>3. /\ f.off \in Nat /\ f.len \in Nat \ {0} /\ f.more \in BOOLEAN /\ f.udp \in Nat \ {0, 1}
      /\ Units(f) \in Seq(SentUnits) /\ Len(Units(f)) = f.len
  BY FrameTypes, UnitsFacts
<1> HIDE DEF a, old
<1>4. \A o \in DOMAIN a.pieces : /\ Len(a.pieces[o]) \in Nat \ {0}
                                 /\ o \in Nat /\ a.pieces[o] \in Seq(SentUnits)
  BY <1>1, <1>2, <1>3 DEF Fitting, Lasting
<1>5. a.total \in Nat \cup {-1}
  BY <1>1, <1>2, <1>3 DEF Fitting, Lasting
<1>6. (a.udp \in Nat /\ a.udp > 1) \/ a.udp = -1
  BY <1>1, <1>2, <1>3 DEF Fitting
<1>7. QED
  BY <1>4, <1>5, <1>6 DEF Fitting, Lasting, a

LEMMA ConcatTypes ==
  ASSUME NEW S, NEW s \in Seq(S), NEW t \in Seq(S)
  PROVE  s \o t \in Seq(S)
OBVIOUS

LEMMA JoinedTypes ==
  ASSUME NEW a, Fitting(a)
  PROVE  /\ Joined(a) \in Seq(SentUnits \cup {Missing})
         /\ Missing \notin ToSet(Joined(a)) => Joined(a) \in Seq(SentUnits)
<1> DEFINE All == SentUnits \cup {Missing}
<1>1. PICK from : JoinsTo(a, from) /\ Joined(a) = from[0]
  BY JoinedIs DEF Fitting
<1>2. Lasting(a) /\ \A o \in DOMAIN a.pieces : o \in Nat /\ a.pieces[o] \in Seq(All)
  BY DEF Fitting
<1>3. \A o \in Nat : from[o] = IF o >= a.total THEN <<>>
                               ELSE IF o \notin DOMAIN a.pieces THEN <<Missing>>
                               ELSE a.pieces[o] \o from[o + Len(a.pieces[o])]
  BY <1>1 DEF JoinsTo
<1>4. a.total \in Int /\ <<Missing>> \in Seq(All) /\ <<>> \in Seq(All)
  BY <1>2 DEF Lasting
<1> HIDE DEF All
<1> DEFINE Good == {o \in Nat : from[o] \in Seq(All)}
<1>5. \A o \in Nat : o >= a.total => o \in Good
  BY <1>3, <1>4
<1>6. \A o \in Nat : o < a.total /\ o \notin DOMAIN a.pieces => o \in Good
  BY <1>3, <1>4
<1>7. ASSUME NEW o \in Nat, o < a.total, o \in DOMAIN a.pieces, o + Len(a.pieces[o]) \in Good
      PROVE  o \in Good
  <2>1. from[o] = a.pieces[o] \o from[o + Len(a.pieces[o])]
    <3>1. ~(o >= a.total) /\ ~(o \notin DOMAIN a.pieces)
      BY <1>4, <1>7
    <3>2. QED
      BY <1>3, <3>1, Zenon
  <2>2. from[o + Len(a.pieces[o])] \in Seq(All) /\ a.pieces[o] \in Seq(All)
    BY <1>2, <1>7
  <2>3. a.pieces[o] \o from[o + Len(a.pieces[o])] \in Seq(All)
    BY <2>2, ConcatTypes
  <2>4. QED
    BY <2>1, <2>3
<1>8. \A o \in Nat : o \in Good
  <2> HIDE DEF Good
  <2>1. \A o \in Nat : o < a.total /\ o \in DOMAIN a.pieces /\ o + Len(a.pieces[o]) \in Good
                         => o \in Good
    BY <1>7
  <2>2. QED
    BY <1>1, <1>2, <1>5, <1>6, <2>1, JoinedInduction
<1>9. Joined(a) \in Seq(All)
  BY <1>1, <1>8
<1>10. ASSUME Missing \notin ToSet(Joined(a))
       PROVE  Joined(a) \in Seq(SentUnits)
  <2> DEFINE s == Joined(a)
  <2>1. s \in Seq(All) /\ Len(s) \in Nat /\ s \in [1 .. Len(s) -> All]
    BY <1>9
  <2> HIDE DEF s
  <2>2. \A i \in 1 .. Len(s) : s[i] \in SentUnits
    BY <1>10, <2>1 DEF ToSet, s, All
  <2>3. s \in [1 .. Len(s) -> SentUnits]
    BY <2>1, <2>2
  <2>4. QED
    BY <2>1, <2>3 DEF s
<1>11. QED
  BY <1>9, <1>10 DEF All

LEMMA ContentFits ==
  ASSUME AssembliesFit, NEW f \in Wire, Result(f) # <<>>
  PROVE  Content(Result(f)[1]) \in Headers
<1>1. ASSUME NEW units \in Seq(SentUnits), NEW udp \in Nat, udp > 1, Result(f) = Datagram(units, udp)
      PROVE  Content(Result(f)[1]) \in Headers
  <2>1. Result(f) = <<SubSeq(units, 2, udp)>> /\ udp <= Len(units)
    BY <1>1 DEF Datagram
  <2>2. Result(f)[1][1] = units[2] /\ 2 \in 1 .. Len(units)
    BY <1>1, <2>1
  <2>3. units[2] \in SentUnits
    BY <1>1, <2>2
  <2>4. units[2][1] \in DOMAIN Sent
    <3> DEFINE u == units[2]
    <3>1. u \in (DOMAIN Sent) \X Nat
      BY <2>3 DEF SentUnits
    <3> HIDE DEF u
    <3>2. u[1] \in DOMAIN Sent
      BY <3>1
    <3>3. QED
      BY <3>2 DEF u
  <2>5. QED
    BY <2>2, <2>4, ProtocolAssumption DEF Content
<1>2. CASE ~f.sound
  BY <1>2 DEF Result
<1>3. CASE f.sound /\ Whole(f)
  <2>1. f.off \in Nat /\ f.len \in Nat /\ f.of \in DOMAIN Sent /\ f.udp \in Nat /\ f.udp > 1
    BY <1>3, FrameTypes
  <2>2. Units(f) \in Seq(SentUnits) /\ Result(f) = Datagram(Units(f), f.udp)
    BY <1>3, <2>1, UnitsFacts DEF Result
  <2>3. QED
    BY <1>1, <2>1, <2>2
<1>4. CASE f.sound /\ ~Whole(f)
  <2> DEFINE a == WithPiece(f)
  <2>1. Fitting(a)
    BY <1>4, PieceFits
  <2>2. Complete(a) /\ Result(f) = Datagram(Joined(a), a.udp)
    BY <1>4 DEF Result
  <2> HIDE DEF a
  <2>3. a.udp \in Nat /\ a.udp > 1 /\ Joined(a) \in Seq(SentUnits)
    BY <2>1, <2>2, JoinedTypes DEF Complete, Fitting
  <2>4. QED
    BY <1>1, <2>2, <2>3
<1>5. QED
  BY <1>2, <1>3, <1>4

LEMMA PushFits ==
  ASSUME AssembliesFit, NEW f \in Wire, Push(f)
  PROVE  AssembliesFit'
<1>1. CASE ~f.sound \/ Whole(f)
  BY <1>1 DEF Push, AssembliesFit
<1>2. CASE f.sound /\ ~Whole(f)
  <2> DEFINE a == WithPiece(f)
  <2>1. Fitting(a)
    BY <1>2, PieceFits
  <2>2. fragments' = [key \in IF Complete(a) THEN DOMAIN fragments \ {f.key}
                                             ELSE DOMAIN fragments \cup {f.key} |->
                        IF key = f.key THEN a ELSE fragments[key]]
    BY <1>2 DEF Push
  <2> HIDE DEF a
  <2>3. \A key \in DOMAIN fragments' : /\ fragments'[key] = IF key = f.key THEN a ELSE fragments[key]
                                       /\ key = f.key \/ key \in DOMAIN fragments
    BY <2>2
  <2>4. QED
    BY <2>1, <2>3 DEF AssembliesFit
<1>3. QED
  BY <1>1, <1>2

-----------------------------------------------------------------------------
(* The path as a whole: a step processes a datagram or leaves the counts   *)
(* and the tracker alone.                                                  *)

PathTypes == spec \in Specs /\ stream \in Seq(Headers) /\ AssembliesFit

CountVars == <<spec, stats, coverage, tracker, stream, admitted>>

LEMMA StepIs ==
  ASSUME PathTypes, Next
  PROVE  (UNCHANGED CountVars \/ \E d \in Headers : ProcessDatagram(d)) /\ AssembliesFit'
<1>1. CASE \E d \in Datagrams : ReceiveDatagram(d)
  <2>1. PICK d \in Datagrams : ReceiveDatagram(d)
    BY <1>1
  <2>2. d \in Headers /\ ProcessDatagram(d) /\ fragments' = fragments
    BY <2>1, ProtocolAssumption DEF ReceiveDatagram
  <2>3. AssembliesFit'
    BY <2>2 DEF PathTypes, AssembliesFit
  <2>4. QED
    BY <2>2, <2>3
<1>2. ASSUME NEW f \in Wire, ProcessPacket(f)
      PROVE  (UNCHANGED CountVars \/ \E d \in Headers : ProcessDatagram(d)) /\ AssembliesFit'
  <2>1. AssembliesFit'
    BY <1>2, PushFits DEF ProcessPacket, PathTypes
  <2>2. CASE Result(f) = <<>>
    BY <1>2, <2>1, <2>2 DEF ProcessPacket, CountVars
  <2>3. CASE Result(f) # <<>>
    <3>1. Content(Result(f)[1]) \in Headers
      BY <2>3, ContentFits DEF PathTypes
    <3>2. ProcessDatagram(Content(Result(f)[1]))
      BY <1>2, <2>3 DEF ProcessPacket
    <3>3. QED
      BY <2>1, <3>1, <3>2
  <2>4. QED
    BY <2>2, <2>3
<1>3. CASE \E n \in DOMAIN Sent : \E f \in FramesOf(n) : ProcessPacket(f)
  <2>1. PICK n \in DOMAIN Sent : \E f \in FramesOf(n) : ProcessPacket(f)
    BY <1>3
  <2>2. PICK f \in FramesOf(n) : ProcessPacket(f)
    BY <2>1
  <2>3. f \in Wire
    BY DEF Wire
  <2>4. QED
    BY <1>2, <2>2, <2>3
<1>4. CASE ProcessPacket(Noise)
  <2>1. Noise \in Wire
    BY DEF Wire
  <2>2. QED
    BY <1>2, <1>4, <2>1
<1>5. QED
  BY <1>1, <1>3, <1>4 DEF Next

LEMMA TypesStep ==
  ASSUME PathTypes, [Next]_vars
  PROVE  PathTypes'
<1>1. CASE UNCHANGED vars
  BY <1>1 DEF PathTypes, AssembliesFit, vars
<1>2. CASE Next
  <2>1. (UNCHANGED CountVars \/ \E d \in Headers : ProcessDatagram(d)) /\ AssembliesFit'
    BY <1>2, StepIs
  <2>2. spec' = spec /\ (stream' = stream \/ \E d \in Headers : stream' = Append(stream, d))
    BY <2>1 DEF CountVars, ProcessDatagram
  <2>3. stream' \in Seq(Headers)
    BY <2>2 DEF PathTypes
  <2>4. QED
    BY <2>1, <2>2, <2>3 DEF PathTypes
<1>3. QED
  BY <1>1, <1>2

LEMMA PathTypesHold == Spec => []PathTypes
<1>1. Init => PathTypes
  BY DEF Init, PathTypes, AssembliesFit
<1>2. PathTypes /\ [Next]_vars => PathTypes'
  BY TypesStep
<1>3. QED
  BY <1>1, <1>2, PTL DEF Spec

-----------------------------------------------------------------------------
(* The data packets of the stream *)

(* A data packet that parser, validator and interpreter let through.       *)
Accepted(s, d) ==
  /\ ~d.null /\ d.passes /\ d.magic = "data" /\ d.len = s.data
  /\ d.ch < s.channels /\ d.idx \in 1 .. s.packets
  /\ d.tail = "none" \/ (d.tail = "magic" /\ d.idx = s.packets)
  /\ d.idx = s.packets => d.dirty <= s.lastUsed

LEMMA HandedOnIs ==
  ASSUME NEW d \in Headers
  PROVE  spec \in Specs => (HandOn(d, "data") <=> Accepted(spec, d))
<1> SUFFICES ASSUME spec \in Specs
             PROVE  HandOn(d, "data") <=> Accepted(spec, d)
  OBVIOUS
<1>1. /\ spec.channels \in Nat /\ spec.packets \in Nat /\ spec.data \in Nat /\ spec.lastUsed \in Nat
  BY ProtocolAssumption
<1>2. /\ d.null \in BOOLEAN /\ d.passes \in BOOLEAN /\ d.len \in Int /\ d.ch \in Nat
      /\ d.idx \in Nat /\ d.tail \in {"none", "magic", "other"} /\ d.dirty \in Nat
      /\ d.magic \in {"data", "control", "other"}
  BY DEF Headers
<1>3. CASE d.magic = "data"
  <2>1. CASE d.len < 0
    <3>1. RejectReason(d) # "none"
      BY <2>1 DEF RejectReason, ValidateReason, ParseReason
    <3>2. QED
      BY <1>1, <2>1, <3>1 DEF HandOn, Accepted
  <2>2. CASE d.len >= 0
    <3>1. ParseReason(d) = "none"
      BY <1>2, <1>3, <2>2 DEF ParseReason
    <3>2. ValidateReason(d) = "none" <=>
            /\ d.len = spec.data /\ d.ch < spec.channels /\ d.idx \in 1 .. spec.packets
            /\ d.tail = "none" \/ (d.tail = "magic" /\ d.idx = spec.packets)
      BY <1>1, <1>2, <1>3, <3>1 DEF ValidateReason
    <3>3. InterpretReason(d) = "none" <=> (d.idx = spec.packets => d.dirty <= spec.lastUsed)
      BY <1>1, <1>2, <1>3 DEF InterpretReason
    <3>4. RejectReason(d) = "none" <=> ValidateReason(d) = "none" /\ InterpretReason(d) = "none"
      BY DEF RejectReason
    <3>5. QED
      BY <1>3, <3>2, <3>3, <3>4 DEF HandOn, Accepted
  <2>3. QED
    BY <1>2, <2>1, <2>2
<1>4. CASE d.magic # "data"
  BY <1>4 DEF HandOn, Accepted
<1>5. QED
  BY <1>3, <1>4

DataAtAs == {i \in 1 .. Len(stream) : Accepted(spec, stream[i])}

LEMMA DataAtIs == PathTypes => DataAt = DataAtAs
<1> SUFFICES ASSUME PathTypes
             PROVE  DataAt = DataAtAs
  OBVIOUS
<1>1. DOMAIN stream = 1 .. Len(stream) /\ \A i \in DOMAIN stream : stream[i] \in Headers
  BY DEF PathTypes
<1>2. \A i \in DOMAIN stream : HandOn(stream[i], "data") <=> Accepted(spec, stream[i])
  BY <1>1, HandedOnIs DEF PathTypes
<1>3. QED
  BY <1>1, <1>2 DEF DataAt, DataAtAs

LEMMA DataAtIsNext == (PathTypes => DataAt = DataAtAs)'
BY DataAtIs, PTL

(* The positions of the data packets after one more datagram.              *)
LEMMA DataAtGrows ==
  ASSUME PathTypes, PathTypes', NEW d \in Headers, stream' = Append(stream, d), spec' = spec
  PROVE  LET n == Len(stream) + 1
         IN  /\ n \in Nat \ {0} /\ DataAt \subseteq 1 .. n - 1
             /\ stream'[n] = d /\ \A i \in 1 .. n - 1 : stream'[i] = stream[i]
             /\ Accepted(spec, d) => DataAt' = DataAt \cup {n}
             /\ ~Accepted(spec, d) => DataAt' = DataAt
             /\ \A i \in DataAt : stream[i] \in Headers /\ Accepted(spec, stream[i])
<1> DEFINE n == Len(stream) + 1
<1>1. /\ Len(stream) \in Nat /\ Len(stream') = n /\ stream'[n] = d
      /\ \A i \in 1 .. n - 1 : stream'[i] = stream[i] /\ stream[i] \in Headers
  BY DEF PathTypes
<1>2. DataAt = {i \in 1 .. n - 1 : Accepted(spec, stream[i])}
  BY <1>1, DataAtIs DEF DataAtAs
<1>3. DataAt' = DataAtAs'
  BY DataAtIsNext
<1>4. DataAt' = {i \in 1 .. n : Accepted(spec, stream'[i])}
  BY <1>1, <1>3 DEF DataAtAs, Accepted
<1>5. n \in 1 .. n /\ \A i \in 1 .. n : i = n \/ i \in 1 .. n - 1
  BY <1>1
<1>6. 1 .. n - 1 \subseteq 1 .. n /\ n \in Nat \ {0}
  BY <1>1
<1> HIDE DEF n
<1>7. Accepted(spec, d) => DataAt' = DataAt \cup {n}
  BY <1>1, <1>2, <1>4, <1>5, <1>6
<1>8. ~Accepted(spec, d) => DataAt' = DataAt
  BY <1>1, <1>2, <1>4, <1>5, <1>6
<1>9. QED
  BY <1>1, <1>2, <1>6, <1>7, <1>8 DEF n

-----------------------------------------------------------------------------
(* The verdict of the tracker *)

DeviatingAs ==
  {i \in DataAt : Earlier(i) # {} /\ ~FollowsIn(spec, stream[Max(Earlier(i))], stream[i])}

LEMMA DeviatingIs == Deviating = DeviatingAs
BY DEF Deviating, DeviatingAs, Follows, FollowsIn, Rank, RankIn, PerPrt

LEMMA DeviatingIsNext == (Deviating = DeviatingAs)'
BY DeviatingIs, PTL

(* The datagram d would be a deviation.                                    *)
Deviates(d) == DataAt # {} /\ ~FollowsIn(spec, stream[Max(DataAt)], d)

LEMMA EarlierFacts ==
  ASSUME PathTypes, NEW i \in DataAt, Earlier(i) # {}
  PROVE  /\ Max(Earlier(i)) \in DataAt /\ Max(Earlier(i)) < i
<1>1. DataAt \subseteq 1 .. Len(stream) /\ Len(stream) \in Nat
  BY DataAtIs DEF DataAtAs, PathTypes
<1>2. \A j \in Earlier(i) : j \in DataAt /\ j < i /\ j \in 0 .. Len(stream)
  BY <1>1 DEF Earlier
<1>3. Max(Earlier(i)) \in Earlier(i)
  BY <1>1, <1>2, GreatestNumber
<1>4. QED
  BY <1>2, <1>3

LEMMA DeviatingGrows ==
  ASSUME PathTypes, PathTypes', NEW d \in Headers, stream' = Append(stream, d), spec' = spec
  PROVE  LET n == Len(stream) + 1
         IN  /\ \A i \in DataAt : Earlier(i)' = Earlier(i)
             /\ Accepted(spec, d) => \A i \in {n} : Earlier(i)' = DataAt
             /\ Deviating' = IF Accepted(spec, d) /\ Deviates(d) THEN Deviating \cup {n}
                             ELSE Deviating
<1> DEFINE n == Len(stream) + 1
<1>1. /\ n \in Nat \ {0} /\ DataAt \subseteq 1 .. n - 1
      /\ stream'[n] = d /\ \A i \in 1 .. n - 1 : stream'[i] = stream[i]
      /\ Accepted(spec, d) => DataAt' = DataAt \cup {n}
      /\ ~Accepted(spec, d) => DataAt' = DataAt
  BY DataAtGrows
<1> HIDE DEF n
<1>0. PICK m \in Nat : m = n
  BY <1>1
<1>2. \A i \in DataAt : i \in 1 .. n - 1 /\ i < n /\ ~(n < i)
  BY <1>1
<1>3. \A i \in DataAt : Earlier(i)' = Earlier(i)
  BY <1>1, <1>2 DEF Earlier
<1>4. Accepted(spec, d) => Earlier(m)' = DataAt
  <2>1. Earlier(m)' = {j \in DataAt' : j < m}
    BY DEF Earlier
  <2>2. ASSUME Accepted(spec, d)
        PROVE  \A j \in DataAt' : j < m <=> j \in DataAt
    <3> SUFFICES ASSUME NEW j \in DataAt'
                 PROVE  j < m <=> j \in DataAt
      OBVIOUS
    <3>1. j = m \/ j \in DataAt
      BY <1>0, <1>1, <2>2
    <3>2. ~(m < m) /\ m \notin DataAt
      BY <1>0, <1>2
    <3>3. j \in DataAt => j < m
      BY <1>0, <1>2
    <3>4. QED
      BY <3>1, <3>2, <3>3
  <2>3. Accepted(spec, d) => DataAt \subseteq DataAt'
    BY <1>1
  <2>4. QED
    BY <2>1, <2>2, <2>3
<1>5. Deviating' = {i \in DataAt' : /\ Earlier(i)' # {}
                                    /\ ~FollowsIn(spec, stream'[Max(Earlier(i)')], stream'[i])}
  <2>1. Deviating' = DeviatingAs'
    BY DeviatingIsNext
  <2>2. QED
    BY <2>1 DEF DeviatingAs, FollowsIn, RankIn
<1>6. Deviating = {i \in DataAt : Earlier(i) # {}
                                  /\ ~FollowsIn(spec, stream[Max(Earlier(i))], stream[i])}
  BY DeviatingIs DEF DeviatingAs
<1>7. \A i \in DataAt : i \in Deviating' <=> i \in Deviating
  <2> SUFFICES ASSUME NEW i \in DataAt
               PROVE  i \in Deviating' <=> i \in Deviating
    OBVIOUS
  <2>1. Earlier(i)' = Earlier(i) /\ stream'[i] = stream[i] /\ i \in DataAt'
    BY <1>1, <1>2, <1>3
  <2>2. Earlier(i) # {} => stream'[Max(Earlier(i))] = stream[Max(Earlier(i))]
    BY <1>1, <1>2, EarlierFacts
  <2>3. QED
    BY <1>5, <1>6, <2>1, <2>2
<1>8. Accepted(spec, d) => (n \in Deviating' <=> Deviates(d))
  <2> SUFFICES ASSUME Accepted(spec, d)
               PROVE  n \in Deviating' <=> Deviates(d)
    OBVIOUS
  <2>1. n = m /\ m \in DataAt' /\ Earlier(m)' = DataAt /\ stream'[m] = d
    BY <1>0, <1>1, <1>4
  <2>2. DataAt # {} => stream'[Max(DataAt)] = stream[Max(DataAt)]
    <3>1. DataAt # {} => Max(DataAt) \in DataAt
      <4>1. DataAt \in SUBSET (0 .. n) /\ n \in Nat
        BY <1>1, <1>2
      <4>2. QED
        BY <4>1, GreatestNumber
    <3>2. QED
      BY <1>1, <1>2, <3>1
  <2>3. QED
    BY <1>5, <2>1, <2>2 DEF Deviates
<1>9. Deviating' = IF Accepted(spec, d) /\ Deviates(d) THEN Deviating \cup {n} ELSE Deviating
  <2>1. Deviating' \subseteq DataAt' /\ Deviating \subseteq DataAt
    BY <1>5, <1>6
  <2>2. CASE Accepted(spec, d)
    <3>1. /\ DataAt' = DataAt \cup {n} /\ n \notin DataAt
          /\ \A i \in DataAt : i \in Deviating' <=> i \in Deviating
          /\ n \in Deviating' <=> Deviates(d)
      BY <1>1, <1>2, <1>7, <1>8, <2>2
    <3>2. CASE Deviates(d)
      BY <2>1, <2>2, <3>1, <3>2
    <3>3. CASE ~Deviates(d)
      BY <2>1, <2>2, <3>1, <3>3
    <3>4. QED
      BY <3>2, <3>3
  <2>3. CASE ~Accepted(spec, d)
    BY <1>1, <1>7, <2>1, <2>3
  <2>4. QED
    BY <2>2, <2>3
<1>10. QED
  BY <1>0, <1>3, <1>4, <1>9 DEF n

(* The verdict so far is right, and the tracker remembers the last packet. *)
VerdictAs ==
  /\ tracker.checked = Cardinality(DataAt)
  /\ tracker.matches <=> Deviating = {}
  /\ \A first \in Deviating :
       first = Min(Deviating) =>
         /\ tracker.mismatch = Cardinality(Earlier(first)) + 1
         /\ tracker.batched <=> FirstOfChannelIn(spec, stream[Max(Earlier(first))], stream[first])

TrackerRight ==
  /\ tracker.matches \in BOOLEAN /\ tracker.batched \in BOOLEAN
  /\ DataAt # {} => /\ tracker.previous = Point(stream[Max(DataAt)])
                    /\ tracker.expected = BuildNextExpected(tracker.previous)
  /\ VerdictAs

LEMMA VerdictIs == PathTypes /\ VerdictAs => OrderVerdict
<1> SUFFICES ASSUME PathTypes, VerdictAs
             PROVE  OrderVerdict
  OBVIOUS
<1>1. DataAt \subseteq Nat
  BY DataAtIs DEF DataAtAs
<1>2. Deviating \in SUBSET Nat
  BY <1>1 DEF Deviating
<1>3. ASSUME Deviating # {}
      PROVE  Min(Deviating) \in Deviating
  BY <1>2, <1>3, LeastNumber DEF Min
<1>4. \A i : FirstOfChannel(stream[Max(Earlier(i))], stream[i])
               <=> FirstOfChannelIn(spec, stream[Max(Earlier(i))], stream[i])
  BY DEF FirstOfChannel, FirstOfChannelIn, Rank, RankIn, PerPrt
<1>5. QED
  BY <1>3, <1>4 DEF VerdictAs, OrderVerdict

LEMMA PointFacts ==
  ASSUME PathTypes, NEW d \in Headers, Accepted(spec, d)
  PROVE  Point(d) \in Points /\ Placed(spec, Point(d))
<1>1. /\ d.cpi \in 0 .. CpiMod - 1 /\ d.prt \in 0 .. PrtMod - 1 /\ d.ch \in Nat /\ d.idx \in Nat
  BY DEF Headers
<1>2. d.ch \in 0 .. spec.channels - 1 /\ d.idx \in 1 .. spec.packets
  BY <1>1, SpecTypes DEF Accepted, PathTypes
<1>3. QED
  BY <1>1, <1>2 DEF Point, Points, Placed

LEMMA PointsOrder ==
  ASSUME NEW s, NEW p, NEW q
  PROVE  /\ FollowsIn(s, Point(p), Point(q)) <=> FollowsIn(s, p, q)
         /\ FirstOfChannelIn(s, Point(p), Point(q)) <=> FirstOfChannelIn(s, p, q)
<1>1. \A r : /\ Point(r).cpi = r.cpi /\ Point(r).prt = r.prt
             /\ Point(r).ch = r.ch /\ Point(r).idx = r.idx
  BY DEF Point
<1>2. RankIn(s, Point(p)) = RankIn(s, p) /\ RankIn(s, Point(q)) = RankIn(s, q)
  BY <1>1 DEF RankIn
<1>3. QED
  BY <1>1, <1>2 DEF FollowsIn, FirstOfChannelIn

(* The step of a datagram that is no data packet.                          *)
LEMMA OtherDatagram ==
  ASSUME PathTypes, NEW d \in Headers, ProcessDatagram(d), ~Accepted(spec, d)
  PROVE  UNCHANGED <<tracker, coverage, admitted>>
<1>1. ~HandOn(d, "data")
  BY HandedOnIs DEF PathTypes
<1>2. QED
  BY <1>1 DEF ProcessDatagram, Refuse, Control, Data

LEMMA DataDatagram ==
  ASSUME PathTypes, NEW d \in Headers, ProcessDatagram(d), Accepted(spec, d)
  PROVE  Data(d) /\ Observe(Point(d))
<1>1. HandOn(d, "data")
  BY HandedOnIs DEF PathTypes
<1>2. ~Refuse(d) /\ ~Control(d)
  BY <1>1 DEF HandOn, Refuse, Control
<1>3. QED
  BY <1>2 DEF ProcessDatagram, Data

LEMMA TrackerStep ==
  ASSUME PathTypes, PathTypes', TrackerRight, NEW d \in Headers, ProcessDatagram(d)
  PROVE  TrackerRight'
<1> DEFINE n == Len(stream) + 1
<1>1. stream' = Append(stream, d) /\ spec' = spec
  BY DEF ProcessDatagram
<1>2. /\ n \in Nat \ {0} /\ DataAt \subseteq 1 .. n - 1
      /\ stream'[n] = d /\ \A i \in 1 .. n - 1 : stream'[i] = stream[i]
      /\ Accepted(spec, d) => DataAt' = DataAt \cup {n}
      /\ ~Accepted(spec, d) => DataAt' = DataAt
      /\ \A i \in DataAt : stream[i] \in Headers /\ Accepted(spec, stream[i])
  BY <1>1, DataAtGrows
<1>3. /\ \A i \in DataAt : Earlier(i)' = Earlier(i)
      /\ Accepted(spec, d) => \A i \in {n} : Earlier(i)' = DataAt
      /\ Deviating' = IF Accepted(spec, d) /\ Deviates(d) THEN Deviating \cup {n} ELSE Deviating
  BY <1>1, DeviatingGrows
<1> HIDE DEF n
<1>4. \A i \in DataAt : i \in 1 .. n - 1 /\ i < n /\ stream'[i] = stream[i]
  BY <1>2
<1>5. Deviating \subseteq DataAt /\ \A i \in Deviating : Earlier(i) # {}
  BY DEF Deviating
<1>6. \A i \in Deviating : /\ Max(Earlier(i)) \in DataAt
                           /\ stream'[Max(Earlier(i))] = stream[Max(Earlier(i))]
                           /\ stream'[i] = stream[i] /\ Earlier(i)' = Earlier(i)
  BY <1>3, <1>4, <1>5, EarlierFacts
<1>7. IsFiniteSet(DataAt) /\ Cardinality(DataAt) \in Nat /\ (Cardinality(DataAt) = 0 <=> DataAt = {})
  <2>1. IsFiniteSet(1 .. n - 1)
    BY <1>2, FS_Interval
  <2>2. IsFiniteSet(DataAt)
    BY <1>2, <2>1, FS_Subset
  <2>3. QED
    BY <2>2, FS_CardinalityType, FS_EmptySet
<1>8. DataAt # {} => Max(DataAt) \in DataAt
  <2>1. DataAt \in SUBSET (0 .. n) /\ n \in Nat
    BY <1>2, <1>4
  <2>2. QED
    BY <2>1, GreatestNumber
(* The first deviation stays the first. *)
<1>9. ASSUME Deviating # {}
      PROVE  Min(Deviating') = Min(Deviating) /\ Min(Deviating) \in Deviating
  <2>1. Deviating \in SUBSET Nat
    BY <1>4, <1>5
  <2>2. Min(Deviating) \in Deviating /\ \A x \in Deviating : Min(Deviating) <= x
    BY <1>9, <2>1, LeastNumber DEF Min
  <2>3. Deviating' \in SUBSET Int /\ Min(Deviating) \in Deviating'
        /\ \A x \in Deviating' : Min(Deviating) <= x
    <3> DEFINE m == Min(Deviating)
    <3>1. m \in Deviating /\ \A x \in Deviating : m <= x
      BY <2>2
    <3> HIDE DEF m
    <3>2. m \in DataAt /\ m \in Deviating' /\ \A x \in Deviating' : x \in Deviating \/ x = n
      BY <1>3, <1>5, <3>1
    <3>3. m \in 1 .. n - 1 /\ n \in Nat /\ m \in Int /\ n \in Int /\ m <= n
      BY <1>2, <1>4, <3>2
    <3>4. ASSUME NEW x \in Deviating'
          PROVE  x \in Int /\ m <= x
      <4>1. CASE x \in Deviating
        BY <2>1, <3>1, <4>1
      <4>2. CASE x = n
        BY <3>3, <4>2
      <4>3. QED
        BY <3>2, <4>1, <4>2
    <3>5. QED
      BY <3>2, <3>4 DEF m
  <2>4. QED
    BY <2>2, <2>3, MinIs
<1>10. \A i \in Deviating :
         FirstOfChannelIn(spec', stream'[Max(Earlier(i)')], stream'[i])
           <=> FirstOfChannelIn(spec, stream[Max(Earlier(i))], stream[i])
  BY <1>1, <1>6
<1>11. CASE ~Accepted(spec, d)
  <2>1. tracker' = tracker /\ DataAt' = DataAt /\ Deviating' = Deviating
    BY <1>2, <1>3, <1>11, OtherDatagram
  <2>2. VerdictAs'
    BY <1>6, <1>10, <2>1 DEF TrackerRight, VerdictAs
  <2>3. DataAt # {} => stream'[Max(DataAt)] = stream[Max(DataAt)]
    BY <1>4, <1>8
  <2>4. BuildNextExpected(tracker.previous)' = BuildNextExpected(tracker.previous)
    BY <1>1, <2>1 DEF BuildNextExpected
  <2>5. QED
    BY <2>1, <2>2, <2>3, <2>4 DEF TrackerRight, Point
<1>12. CASE Accepted(spec, d)
  <2> DEFINE q == Point(d)
             deviates == /\ tracker.checked > 0 /\ tracker.matches
                         /\ ~IsCpiRollover(tracker.previous, q) /\ q # tracker.expected
  <2>1. /\ tracker'.checked = tracker.checked + 1 /\ tracker'.previous = q
        /\ tracker'.expected = BuildNextExpected(q)
        /\ tracker'.matches = (tracker.matches /\ ~deviates)
        /\ tracker'.batched = IF deviates THEN LooksBatched(tracker.previous, q)
                                          ELSE tracker.batched
        /\ tracker'.mismatch = IF deviates THEN tracker.checked + 1 ELSE tracker.mismatch
    BY <1>12, DataDatagram DEF Observe
  <2>2. Max(DataAt') = n /\ DataAt' # {} /\ n \in DataAt'
    <3>1. DataAt' \in SUBSET Int /\ n \in DataAt' /\ \A x \in DataAt' : x <= n
      <4>1. \A x \in DataAt' : x \in DataAt \/ x = n
        BY <1>2, <1>12
      <4>2. n \in Int /\ \A x \in DataAt : x \in Int /\ x <= n
        BY <1>2, <1>4
      <4>3. n \in DataAt'
        BY <1>2, <1>12
      <4>4. QED
        BY <4>1, <4>2, <4>3
    <3>2. QED
      BY <3>1, MaxIs
  <2>3. /\ tracker'.previous = Point(stream'[Max(DataAt')])
        /\ tracker'.expected = BuildNextExpected(tracker.previous)'
    <3>1. BuildNextExpected(tracker.previous)' = BuildNextExpected(tracker'.previous)
      BY <1>1 DEF BuildNextExpected
    <3>2. QED
      BY <1>2, <2>1, <2>2, <3>1
  <2>4. tracker'.checked = Cardinality(DataAt')
    <3>1. n \notin DataAt /\ DataAt' = DataAt \cup {n}
      BY <1>2, <1>4, <1>12
    <3>2. Cardinality(DataAt') = Cardinality(DataAt) + 1
      BY <1>7, <3>1, FS_AddElement
    <3>3. QED
      BY <2>1, <3>2 DEF TrackerRight, VerdictAs
  <2>5. ASSUME DataAt # {}
        PROVE  /\ FollowsIn(spec, stream[Max(DataAt)], d)
                    <=> q = tracker.expected \/ IsCpiRollover(tracker.previous, q)
               /\ FirstOfChannelIn(spec, stream[Max(DataAt)], d)
                    <=> LooksBatched(tracker.previous, q)
    <3> DEFINE p == stream[Max(DataAt)]
    <3>1. p \in Headers /\ Accepted(spec, p)
      BY <1>2, <1>8, <2>5
    <3>2. tracker.previous = Point(p) /\ tracker.expected = BuildNextExpected(Point(p))
      BY <2>5 DEF TrackerRight
    <3> HIDE DEF p, q
    <3>3. /\ Point(p) \in Points /\ Placed(spec, Point(p))
          /\ q \in Points /\ Placed(spec, q)
      BY <1>12, <3>1, PointFacts DEF q
    <3>4. /\ FollowsIn(spec, Point(p), q) <=> q = BuildNextExpected(Point(p))
                                               \/ IsCpiRollover(Point(p), q)
          /\ FirstOfChannelIn(spec, Point(p), q) <=> LooksBatched(Point(p), q)
      BY <3>3, FollowsIsExpected, FirstOfChannelIsBatched DEF PathTypes
    <3>5. /\ FollowsIn(spec, Point(p), q) <=> FollowsIn(spec, p, d)
          /\ FirstOfChannelIn(spec, Point(p), q) <=> FirstOfChannelIn(spec, p, d)
      BY PointsOrder DEF q
    <3>6. QED
      BY <3>2, <3>4, <3>5 DEF p
  <2>6. deviates <=> tracker.matches /\ Deviates(d)
    <3>1. tracker.checked > 0 <=> DataAt # {}
      BY <1>7 DEF TrackerRight, VerdictAs
    <3>2. QED
      BY <2>5, <3>1 DEF Deviates
  <2>7. tracker.matches <=> Deviating = {}
    BY DEF TrackerRight, VerdictAs
  <2> HIDE DEF deviates, q
  <2>8. tracker'.matches <=> Deviating' = {}
    BY <1>3, <1>12, <2>1, <2>6, <2>7
  <2>9. tracker'.matches \in BOOLEAN
    BY <2>1 DEF TrackerRight
  <2>10. CASE Deviating # {}
    <3>1. ~deviates /\ tracker'.batched = tracker.batched /\ tracker'.mismatch = tracker.mismatch
      BY <2>1, <2>6, <2>7, <2>10
    <3>2. VerdictAs'
      BY <1>6, <1>9, <1>10, <2>4, <2>8, <2>10, <3>1 DEF TrackerRight, VerdictAs
    <3>3. QED
      BY <2>2, <2>3, <2>9, <3>1, <3>2 DEF TrackerRight
  <2>11. CASE Deviating = {} /\ ~Deviates(d)
    <3>1. Deviating' = {} /\ ~deviates /\ tracker'.batched = tracker.batched
      BY <1>3, <2>1, <2>6, <2>11
    <3>2. VerdictAs'
      BY <2>4, <2>8, <3>1 DEF VerdictAs
    <3>3. QED
      BY <2>2, <2>3, <2>9, <3>1, <3>2 DEF TrackerRight
  <2>12. CASE Deviating = {} /\ Deviates(d)
    <3>1. Deviating' = {n} /\ deviates /\ DataAt # {}
      BY <1>3, <1>12, <2>6, <2>7, <2>12 DEF Deviates
    <3>2. /\ tracker'.mismatch = Cardinality(DataAt) + 1
          /\ tracker'.batched = LooksBatched(tracker.previous, q)
      BY <2>1, <3>1 DEF TrackerRight, VerdictAs
    <3>3. tracker'.batched \in BOOLEAN
      BY <3>2 DEF LooksBatched
    <3>4. stream'[Max(DataAt)] = stream[Max(DataAt)] /\ stream'[n] = d
      BY <1>2, <1>4, <1>8, <3>1
    <3>5. tracker'.batched <=> FirstOfChannelIn(spec', stream'[Max(DataAt)], stream'[n])
      BY <1>1, <2>5, <3>1, <3>2, <3>4
    <3>6. \A i \in {n} : Earlier(i)' = DataAt
      BY <1>3, <1>12
    <3>7. VerdictAs'
      BY <2>4, <2>8, <3>1, <3>2, <3>5, <3>6 DEF VerdictAs
    <3>8. QED
      BY <2>2, <2>3, <2>9, <3>3, <3>7 DEF TrackerRight
  <2>13. QED
    BY <2>10, <2>11, <2>12
<1>13. QED
  BY <1>11, <1>12

(* The verdict on the order of the packets is what a look at the whole     *)
(* sequence gives, for any numbers of channels, packets, PRTs and CPI ids  *)
(* and any sequence of datagrams.                                          *)
THEOREM OrderVerdictHolds == Spec => []OrderVerdict
<1>1. Init => TrackerRight
  <2> SUFFICES ASSUME Init
               PROVE  TrackerRight
    OBVIOUS
  <2>1. DataAt = {} /\ Deviating = {}
    BY DEF Init, DataAt, Deviating
  <2>2. QED
    BY <2>1, FS_EmptySet DEF Init, NoOrder, TrackerRight, VerdictAs
<1>2. PathTypes /\ PathTypes' /\ TrackerRight /\ [Next]_vars => TrackerRight'
  <2> SUFFICES ASSUME PathTypes, PathTypes', TrackerRight, [Next]_vars
               PROVE  TrackerRight'
    OBVIOUS
  <2>1. CASE UNCHANGED CountVars
    <3>1. DataAt' = DataAt
      BY <2>1 DEF CountVars, DataAt, HandOn, RejectReason, ValidateReason, ParseReason,
                  InterpretReason
    <3>2. \A i : Earlier(i)' = Earlier(i)
      BY <3>1 DEF Earlier
    <3>3. Deviating' = Deviating
      BY <2>1, <3>1, <3>2, DeviatingIs, DeviatingIsNext DEF CountVars, DeviatingAs
    <3>4. BuildNextExpected(tracker.previous)' = BuildNextExpected(tracker.previous)
      BY <2>1 DEF CountVars, BuildNextExpected
    <3>5. QED
      BY <2>1, <3>1, <3>2, <3>3, <3>4 DEF CountVars, TrackerRight, VerdictAs, Point
  <2>2. CASE UNCHANGED vars
    BY <2>1, <2>2 DEF vars, CountVars
  <2>3. CASE \E d \in Headers : ProcessDatagram(d)
    BY <2>3, TrackerStep
  <2>4. QED
    BY <2>1, <2>2, <2>3, StepIs
<1>3. PathTypes /\ TrackerRight => OrderVerdict
  BY VerdictIs DEF TrackerRight
<1>4. QED
  BY <1>1, <1>2, <1>3, PathTypesHold, PTL DEF Spec

-----------------------------------------------------------------------------
(* The counts and the coverage *)

Place(p) == <<p.cpi, p.prt, p.ch, p.idx>>

StatsTypes ==
  /\ DOMAIN stats = {"errors", "filtered", "accepted", "dropped", "control", "data",
                     "captured", "tails", "cpis", "latest"}
  /\ stats.errors \in Nat /\ stats.filtered \in Nat /\ stats.accepted \in Nat
  /\ stats.dropped \in Nat /\ stats.control \in Nat /\ stats.data \in Nat
  /\ stats.captured \in Nat

Counted ==
  /\ StatsTypes
  /\ admitted \subseteq DataAt
  /\ coverage = {Place(stream[i]) : i \in admitted}
  /\ Len(stream) = stats.errors + stats.filtered + stats.dropped + stats.control + stats.data
  /\ stats.accepted = stats.dropped + stats.control + stats.data
  /\ stats.captured = stats.control + Cardinality(admitted)
  /\ admitted # {} => stats.latest = Point(stream[Max(admitted)])

(* A step adds one to one of the five sums that make up the stream.        *)
CountsOne(e, f, r, c, t) ==
  /\ stats'.errors = stats.errors + e /\ stats'.filtered = stats.filtered + f
  /\ stats'.dropped = stats.dropped + r /\ stats'.control = stats.control + c
  /\ stats'.data = stats.data + t /\ stats'.accepted = stats.accepted + r + c + t

Uncaptured == stats'.captured = stats.captured /\ stats'.latest = stats.latest

LEMMA RefuseCounts ==
  ASSUME StatsTypes, NEW d, Refuse(d)
  PROVE  /\ StatsTypes' /\ Uncaptured /\ UNCHANGED <<coverage, admitted>>
         /\ CountsOne(1, 0, 0, 0, 0) \/ CountsOne(0, 1, 0, 0, 0) \/ CountsOne(0, 0, 1, 0, 0)
<1>1. UNCHANGED <<coverage, admitted>>
  BY DEF Refuse
<1>2. CASE stats' = [stats EXCEPT !.errors = @ + 1]
  BY <1>1, <1>2 DEF StatsTypes, CountsOne, Uncaptured
<1>3. CASE stats' = [stats EXCEPT !.filtered = @ + 1]
  BY <1>1, <1>3 DEF StatsTypes, CountsOne, Uncaptured
<1>4. CASE stats' = [stats EXCEPT !.accepted = @ + 1, !.dropped = @ + 1]
  BY <1>1, <1>4 DEF StatsTypes, CountsOne, Uncaptured
<1>5. QED
  BY <1>2, <1>3, <1>4 DEF Refuse

LEMMA ControlCounts ==
  ASSUME StatsTypes, NEW d, Control(d)
  PROVE  /\ StatsTypes' /\ CountsOne(0, 0, 0, 1, 0) /\ UNCHANGED <<coverage, admitted>>
         /\ stats'.captured = stats.captured + 1 /\ stats'.latest = stats.latest
BY DEF Control, StatsTypes, CountsOne

LEMMA DataCounts ==
  ASSUME StatsTypes, NEW d, Data(d)
  PROVE  /\ StatsTypes' /\ CountsOne(0, 0, 0, 0, 1)
         /\ \/ Uncaptured /\ UNCHANGED <<coverage, admitted>>
            \/ /\ stats'.captured = stats.captured + 1 /\ stats'.latest = Point(d)
               /\ coverage' = coverage \cup {Place(d)}
               /\ admitted' = admitted \cup {Len(stream) + 1}
<1> DEFINE counted == [stats EXCEPT !.accepted = @ + 1, !.data = @ + 1, !.cpis = @ \cup {d.cpi}]
<1>1. /\ DOMAIN counted = DOMAIN stats
      /\ counted.errors = stats.errors /\ counted.filtered = stats.filtered
      /\ counted.dropped = stats.dropped /\ counted.control = stats.control
      /\ counted.data = stats.data + 1 /\ counted.accepted = stats.accepted + 1
      /\ counted.captured = stats.captured /\ counted.latest = stats.latest
  BY DEF StatsTypes
<1>2. \/ stats' = counted /\ UNCHANGED <<coverage, admitted>>
      \/ /\ stats' = [counted EXCEPT !.captured = @ + 1, !.latest = Point(d),
                          !.tails = IF d.tail = "magic" THEN @ + 1 ELSE @]
         /\ coverage' = coverage \cup {Place(d)}
         /\ admitted' = admitted \cup {Len(stream) + 1}
  BY DEF Data, Place
<1> HIDE DEF counted
<1>3. CASE stats' = counted /\ UNCHANGED <<coverage, admitted>>
  BY <1>1, <1>3 DEF StatsTypes, CountsOne, Uncaptured
<1>4. CASE /\ stats' = [counted EXCEPT !.captured = @ + 1, !.latest = Point(d),
                            !.tails = IF d.tail = "magic" THEN @ + 1 ELSE @]
           /\ coverage' = coverage \cup {Place(d)}
           /\ admitted' = admitted \cup {Len(stream) + 1}
  <2>1. StatsTypes' /\ CountsOne(0, 0, 0, 0, 1)
    BY <1>1, <1>4 DEF StatsTypes, CountsOne
  <2>2. stats'.captured = stats.captured + 1 /\ stats'.latest = Point(d)
    BY <1>1, <1>4 DEF StatsTypes
  <2>3. QED
    BY <1>4, <2>1, <2>2
<1>5. QED
  BY <1>2, <1>3, <1>4


LEMMA AdmittedLast ==
  ASSUME PathTypes, admitted \subseteq DataAt, admitted # {}
  PROVE  Max(admitted) \in admitted /\ \A i \in admitted : i <= Max(admitted)
<1>1. DataAt \subseteq 1 .. Len(stream) /\ Len(stream) \in Nat
  BY DataAtIs DEF DataAtAs, PathTypes
<1>2. admitted \in SUBSET (0 .. Len(stream))
  BY <1>1
<1>3. QED
  BY <1>1, <1>2, GreatestNumber

LEMMA CountedStep ==
  ASSUME PathTypes, PathTypes', Counted, NEW d \in Headers, ProcessDatagram(d)
  PROVE  Counted'
<1> DEFINE n == Len(stream) + 1
<1>1. stream' = Append(stream, d) /\ spec' = spec
  BY DEF ProcessDatagram
<1>2. /\ n \in Nat \ {0} /\ DataAt \subseteq 1 .. n - 1
      /\ stream'[n] = d /\ \A i \in 1 .. n - 1 : stream'[i] = stream[i]
      /\ Accepted(spec, d) => DataAt' = DataAt \cup {n}
      /\ ~Accepted(spec, d) => DataAt' = DataAt
  BY <1>1, DataAtGrows
<1>3. Len(stream') = Len(stream) + 1 /\ Len(stream) \in Nat
  BY <1>1 DEF PathTypes
<1>4. \A i \in admitted : i \in DataAt /\ i \in 1 .. n - 1 /\ stream'[i] = stream[i]
  BY <1>2 DEF Counted
<1>5. IsFiniteSet(admitted) /\ Cardinality(admitted) \in Nat
  <2>1. IsFiniteSet(1 .. n - 1) /\ admitted \in SUBSET (1 .. n - 1)
    BY <1>2, <1>4, FS_Interval
  <2>2. QED
    BY <2>1, FS_Subset, FS_CardinalityType
<1>6. StatsTypes /\ StatsTypes'
  BY RefuseCounts, ControlCounts, DataCounts DEF Counted, ProcessDatagram
<1>7. \/ CountsOne(1, 0, 0, 0, 0) \/ CountsOne(0, 1, 0, 0, 0) \/ CountsOne(0, 0, 1, 0, 0)
      \/ CountsOne(0, 0, 0, 1, 0) \/ CountsOne(0, 0, 0, 0, 1)
  BY <1>6, RefuseCounts, ControlCounts, DataCounts DEF ProcessDatagram
<1>8. /\ Len(stream)' = (stats.errors + stats.filtered + stats.dropped + stats.control
                           + stats.data)'
      /\ (stats.accepted = stats.dropped + stats.control + stats.data)'
  <2>1. /\ Len(stream) = stats.errors + stats.filtered + stats.dropped + stats.control + stats.data
        /\ stats.accepted = stats.dropped + stats.control + stats.data
    BY DEF Counted
  <2>2. /\ stats.errors \in Nat /\ stats.filtered \in Nat /\ stats.accepted \in Nat
        /\ stats.dropped \in Nat /\ stats.control \in Nat /\ stats.data \in Nat
    BY <1>6 DEF StatsTypes
  <2>3. ASSUME NEW e \in Nat, NEW f \in Nat, NEW r \in Nat, NEW c \in Nat, NEW t \in Nat,
               e + f + r + c + t = 1, CountsOne(e, f, r, c, t)
        PROVE  /\ Len(stream') = stats'.errors + stats'.filtered + stats'.dropped
                                    + stats'.control + stats'.data
               /\ stats'.accepted = stats'.dropped + stats'.control + stats'.data
    <3>1. stats'.accepted = stats'.dropped + stats'.control + stats'.data
      <4>1. /\ stats'.dropped = stats.dropped + r /\ stats'.control = stats.control + c
            /\ stats'.data = stats.data + t /\ stats'.accepted = stats.accepted + r + c + t
        BY <2>3 DEF CountsOne
      <4>2. \A x, y, z \in Nat : x + y + z + r + c + t = (x + r) + (y + c) + (z + t)
        OBVIOUS
      <4>3. stats.dropped + stats.control + stats.data + r + c + t
              = (stats.dropped + r) + (stats.control + c) + (stats.data + t)
        BY <2>2, <4>2
      <4>4. QED
        BY <2>1, <4>1, <4>3
    <3>2. stats'.errors + stats'.filtered + stats'.dropped + stats'.control + stats'.data
            = (stats.errors + stats.filtered + stats.dropped + stats.control + stats.data)
              + (e + f + r + c + t)
      BY <2>2, <2>3 DEF CountsOne
    <3>3. QED
      BY <1>3, <2>1, <2>3, <3>1, <3>2
  <2>4. QED
    BY <1>7, <2>3
<1>9. \/ /\ UNCHANGED <<coverage, admitted>> /\ stats'.latest = stats.latest
         /\ \/ stats'.captured = stats.captured /\ stats'.control = stats.control
            \/ stats'.captured = stats.captured + 1 /\ stats'.control = stats.control + 1
      \/ /\ Accepted(spec, d) /\ stats'.captured = stats.captured + 1
         /\ stats'.control = stats.control
         /\ stats'.latest = Point(d) /\ coverage' = coverage \cup {Place(d)}
         /\ admitted' = admitted \cup {n}
  <2>0. stats.control \in Nat
    BY <1>6 DEF StatsTypes
  <2>1. CASE Refuse(d)
    BY <1>6, <2>0, <2>1, RefuseCounts DEF CountsOne, Uncaptured
  <2>2. CASE Control(d)
    BY <1>6, <2>0, <2>2, ControlCounts DEF CountsOne
  <2>3. CASE Data(d)
    <3>1. Accepted(spec, d)
      BY <2>3, HandedOnIs DEF Data, PathTypes
    <3>2. QED
      BY <1>6, <2>0, <2>3, <3>1, DataCounts DEF CountsOne, Uncaptured
  <2>4. QED
    BY <2>1, <2>2, <2>3 DEF ProcessDatagram
<1>10. stats.captured = stats.control + Cardinality(admitted) /\ stats.control \in Nat
  BY <1>6 DEF Counted, StatsTypes
<1> HIDE DEF n
<1>11. CASE /\ UNCHANGED <<coverage, admitted>> /\ stats'.latest = stats.latest
            /\ \/ stats'.captured = stats.captured /\ stats'.control = stats.control
               \/ stats'.captured = stats.captured + 1 /\ stats'.control = stats.control + 1
  <2>1. (admitted \subseteq DataAt)'
    BY <1>2, <1>4, <1>11
  <2>2. (coverage = {Place(stream[i]) : i \in admitted})'
    BY <1>4, <1>11 DEF Counted
  <2>3. (stats.captured = stats.control + Cardinality(admitted))'
    BY <1>5, <1>11, <1>10
  <2>4. admitted # {} => stream'[Max(admitted)] = stream[Max(admitted)]
    BY <1>2, <1>4, AdmittedLast DEF Counted
  <2>5. (admitted # {} => stats.latest = Point(stream[Max(admitted)]))'
    BY <1>11, <2>4 DEF Counted, Point
  <2>6. QED
    BY <1>6, <1>8, <2>1, <2>2, <2>3, <2>5 DEF Counted
<1>12. CASE /\ Accepted(spec, d) /\ stats'.captured = stats.captured + 1
            /\ stats'.control = stats.control
            /\ stats'.latest = Point(d) /\ coverage' = coverage \cup {Place(d)}
            /\ admitted' = admitted \cup {n}
  <2>1. (admitted \subseteq DataAt)'
    BY <1>2, <1>4, <1>12
  <2>2. (coverage = {Place(stream[i]) : i \in admitted})'
    BY <1>2, <1>4, <1>12 DEF Counted
  <2>3. n \notin admitted
    BY <1>2, <1>4
  <2>4. Cardinality(admitted') = Cardinality(admitted) + 1
    BY <1>5, <1>12, <2>3, FS_AddElement
  <2>5. (stats.captured = stats.control + Cardinality(admitted))'
    BY <1>5, <1>12, <1>10, <2>4
  <2>6. Max(admitted') = n
    <3>1. admitted' \in SUBSET Int /\ n \in admitted' /\ \A x \in admitted' : x <= n
      BY <1>2, <1>4, <1>12
    <3>2. QED
      BY <3>1, MaxIs
  <2>7. (stats.latest = Point(stream[Max(admitted)]))'
    BY <1>2, <1>12, <2>6 DEF Point
  <2>8. QED
    BY <1>6, <1>8, <2>1, <2>2, <2>5, <2>7 DEF Counted
<1>13. QED
  BY <1>9, <1>11, <1>12

LEMMA CountedHolds == Spec => []Counted
<1>1. Init => Counted
  <2> SUFFICES ASSUME Init
               PROVE  Counted
    OBVIOUS
  <2>1. Len(stream) = 0 /\ stats = NoStats /\ admitted = {} /\ coverage = {}
    BY DEF Init
  <2>2. QED
    BY <2>1, FS_EmptySet DEF Counted, StatsTypes, NoStats
<1>2. PathTypes /\ PathTypes' /\ Counted /\ [Next]_vars => Counted'
  <2> SUFFICES ASSUME PathTypes, PathTypes', Counted, [Next]_vars
               PROVE  Counted'
    OBVIOUS
  <2>1. CASE UNCHANGED CountVars
    <3>1. DataAt' = DataAt
      BY <2>1 DEF CountVars, DataAt, HandOn, RejectReason, ValidateReason, ParseReason,
                  InterpretReason
    <3>2. QED
      BY <2>1, <3>1 DEF CountVars, Counted, StatsTypes, Place, Point
  <2>2. CASE UNCHANGED vars
    BY <2>1, <2>2 DEF vars, CountVars
  <2>3. QED
    BY <2>1, <2>2, StepIs, CountedStep
<1>3. QED
  BY <1>1, <1>2, PathTypesHold, PTL DEF Spec

-----------------------------------------------------------------------------
(* The summary *)

(* The packet at a place was admitted once at least.                       *)
Has(cpi, prt, ch, idx) == <<cpi, prt, ch, idx>> \in coverage
WholePrt(cpi, prt) ==
  \A ch \in 0 .. (spec.channels - 1), idx \in 1 .. spec.packets : Has(cpi, prt, ch, idx)

LEMMA AdmittedFacts ==
  ASSUME PathTypes, Counted
  PROVE  /\ \A i \in admitted : stream[i] \in Headers /\ Accepted(spec, stream[i])
         /\ \A i \in admitted : Place(stream[i]) \in coverage
         /\ \A u \in coverage : \E i \in admitted : u = Place(stream[i])
<1>1. admitted \subseteq DataAt /\ coverage = {Place(stream[i]) : i \in admitted}
  BY DEF Counted
<1>2. DOMAIN stream = 1 .. Len(stream) /\ \A i \in DOMAIN stream : stream[i] \in Headers
  BY DEF PathTypes
<1>3. \A i \in DataAt : i \in DOMAIN stream /\ Accepted(spec, stream[i])
  BY <1>2, DataAtIs DEF DataAtAs
<1>4. QED
  BY <1>1, <1>2, <1>3

LEMMA CoverageTypes ==
  ASSUME PathTypes, Counted, NEW u \in coverage
  PROVE  /\ u = <<u[1], u[2], u[3], u[4]>> /\ u[2] \in 0 .. PrtMod - 1
         /\ u[3] \in 0 .. spec.channels - 1 /\ u[4] \in 1 .. spec.packets
<1>1. PICK i \in admitted : u = Place(stream[i])
  BY AdmittedFacts
<1>2. stream[i] \in Headers /\ Accepted(spec, stream[i])
  BY AdmittedFacts
<1>3. u = <<stream[i].cpi, stream[i].prt, stream[i].ch, stream[i].idx>>
  BY <1>1 DEF Place
<1>4. spec.channels \in Nat
  BY ProtocolAssumption DEF PathTypes
<1>5. stream[i].prt \in 0 .. PrtMod - 1 /\ stream[i].ch \in Nat
  BY <1>2 DEF Headers
<1>6. stream[i].ch < spec.channels /\ stream[i].idx \in 1 .. spec.packets
  BY <1>2 DEF Accepted
<1>7. stream[i].ch \in 0 .. spec.channels - 1
  BY <1>4, <1>5, <1>6
<1>8. QED
  BY <1>3, <1>5, <1>6, <1>7

(* The panel counts the packets per channel: as many as there are, if and  *)
(* only if each is there.                                                  *)
LEMMA PrtCompleteIs ==
  ASSUME PathTypes, Counted, NEW cpi, NEW prt
  PROVE  PrtComplete(cpi, prt) <=> WholePrt(cpi, prt)
<1> DEFINE All == 1 .. spec.packets
           Of(ch) == {u \in coverage : u[1] = cpi /\ u[2] = prt /\ u[3] = ch}
<1>1. IsFiniteSet(All) /\ Cardinality(All) = spec.packets
  <2>1. spec.packets \in Nat \ {0}
    BY ProtocolAssumption DEF PathTypes
  <2>2. QED
    BY <2>1, FS_Interval
<1>2. ASSUME NEW ch \in 0 .. (spec.channels - 1)
      PROVE  Cardinality(Of(ch)) = spec.packets <=> \A idx \in All : Has(cpi, prt, ch, idx)
  <2> DEFINE R == Of(ch)
             f == [u \in R |-> u[4]]
  <2>1. ASSUME NEW u \in R
        PROVE  u \in coverage /\ u = <<cpi, prt, ch, u[4]>> /\ u[4] \in All
    <3>1. u \in coverage /\ u[1] = cpi /\ u[2] = prt /\ u[3] = ch
      OBVIOUS
    <3>2. u = <<u[1], u[2], u[3], u[4]>> /\ u[4] \in All
      BY <3>1, CoverageTypes
    <3> HIDE DEF R, All
    <3>3. QED
      BY <3>1, <3>2
  <2>2. \A idx \in All : <<cpi, prt, ch, idx>> \in coverage => <<cpi, prt, ch, idx>> \in R
    OBVIOUS
  <2> HIDE DEF R, All
  <2>3. f \in [R -> All] /\ \A u, v \in R : f[u] = f[v] => u = v
    <3>1. f \in [R -> All]
      BY <2>1
    <3>2. \A u, v \in R : u[4] = v[4] => u = v
      BY <2>1
    <3>3. QED
      BY <3>1, <3>2
  <2>4. \A idx \in All : \A u \in R : f[u] = idx => u = <<cpi, prt, ch, idx>>
    BY <2>1
  <2>5. \A idx \in All : <<cpi, prt, ch, idx>> \in R => f[<<cpi, prt, ch, idx>>] = idx
    OBVIOUS
  <2> HIDE DEF f
  <2>6. f \in Injection(R, All)
    BY <2>3 DEF Injection, IsInjective
  <2>7. Cardinality(R) = spec.packets <=> f \in Surjection(R, All)
    BY <1>1, <2>6, FS_Injection
  <2>8. f \in Surjection(R, All) <=> \A idx \in All : \E u \in R : f[u] = idx
    BY <2>3 DEF Surjection
  <2>9. \A idx \in All : (\E u \in R : f[u] = idx) <=> <<cpi, prt, ch, idx>> \in coverage
    BY <2>1, <2>2, <2>4, <2>5
  <2>10. QED
    BY <2>7, <2>8, <2>9 DEF Has, R
<1>3. QED
  BY <1>2 DEF PrtComplete, WholePrt

(* The PRT on the panel is complete only if all of its CPI's are.          *)
LEMMA ActivePrtIs ==
  ASSUME PathTypes, Counted, SeenPrts(stats.latest.cpi) # {}
  PROVE  LET cpi == stats.latest.cpi
         IN  WholePrt(cpi, ActivePrt) <=> \A prt \in SeenPrts(cpi) : WholePrt(cpi, prt)
<1> DEFINE cpi == stats.latest.cpi
           seen == SeenPrts(cpi)
           open == {prt \in seen : ~PrtComplete(cpi, prt)}
<1>1. ActivePrt = IF open # {} THEN Min(open) ELSE Max(seen)
  BY DEF ActivePrt
<1>2. seen \in SUBSET (0 .. PrtMod - 1)
  <2>1. seen = {u[2] : u \in {u \in coverage : u[1] = cpi}}
    BY DEF SeenPrts
  <2>2. \A u \in coverage : u[2] \in 0 .. PrtMod - 1
    BY CoverageTypes
  <2>3. QED
    BY <2>1, <2>2
<1>3. \A prt : PrtComplete(cpi, prt) <=> WholePrt(cpi, prt)
  BY PrtCompleteIs
<1>4. PrtMod - 1 \in Nat
  BY ProtocolAssumption
<1>5. open \subseteq seen /\ \A prt \in seen : prt \in open <=> ~WholePrt(cpi, prt)
  BY <1>3
<1> HIDE DEF open, seen, cpi
<1>6. CASE open # {}
  <2>1. open \in SUBSET Nat
    BY <1>2, <1>5
  <2>2. Min(open) \in open
    BY <1>6, <2>1, LeastNumber DEF Min
  <2>3. QED
    BY <1>1, <1>5, <1>6, <2>2 DEF seen, cpi
<1>7. CASE open = {}
  <2>1. Max(seen) \in seen
    BY <1>2, <1>4, GreatestNumber DEF seen, cpi
  <2>2. QED
    BY <1>1, <1>5, <1>7, <2>1 DEF seen, cpi
<1>8. QED
  BY <1>6, <1>7

LEMMA SummaryIs == PathTypes /\ Counted => SummaryTruthful
<1> SUFFICES ASSUME PathTypes, Counted
             PROVE  SummaryTruthful
  OBVIOUS
<1> DEFINE taken == {i \in admitted : stream[i].magic = "data"}
           has(cpi, prt, ch, idx) ==
             \E i \in taken : Point(stream[i]) = [cpi |-> cpi, prt |-> prt, ch |-> ch, idx |-> idx]
           whole(cpi, prt) ==
             \A ch \in 0 .. (spec.channels - 1), idx \in 1 .. spec.packets : has(cpi, prt, ch, idx)
           prts == {<<stream[i].cpi, stream[i].prt>> : i \in taken}
<1>1. taken = admitted
  BY AdmittedFacts DEF Accepted
<1>2. \A cpi, prt, ch, idx : has(cpi, prt, ch, idx) <=> Has(cpi, prt, ch, idx)
  <2> SUFFICES ASSUME NEW cpi, NEW prt, NEW ch, NEW idx
               PROVE  has(cpi, prt, ch, idx) <=> Has(cpi, prt, ch, idx)
    OBVIOUS
  <2>1. \A i \in admitted : Point(stream[i]) = [cpi |-> cpi, prt |-> prt, ch |-> ch, idx |-> idx]
                              <=> Place(stream[i]) = <<cpi, prt, ch, idx>>
    BY DEF Point, Place
  <2>2. Has(cpi, prt, ch, idx) <=> \E i \in admitted : Place(stream[i]) = <<cpi, prt, ch, idx>>
    BY AdmittedFacts DEF Has
  <2>3. QED
    BY <1>1, <2>1, <2>2
<1> HIDE DEF has
<1>3. \A cpi, prt : whole(cpi, prt) <=> WholePrt(cpi, prt)
  BY <1>2 DEF WholePrt
<1>4. prts = {<<v[1], v[2]>> : v \in coverage}
  <2>1. coverage = {Place(stream[i]) : i \in admitted}
    BY DEF Counted
  <2>2. \A i : Place(stream[i])[1] = stream[i].cpi /\ Place(stream[i])[2] = stream[i].prt
    BY DEF Place
  <2>3. QED
    BY <1>1, <2>1, <2>2
<1> HIDE DEF whole, prts, taken
<1>5. CompletePrtCount = Cardinality({u \in prts : whole(u[1], u[2])})
  BY <1>3, <1>4 DEF CompletePrtCount, WholePrt, Has
<1>6. /\ Len(stream) = stats.errors + stats.filtered + stats.dropped + stats.control + stats.data
      /\ stats.accepted = stats.dropped + stats.control + stats.data
      /\ stats.captured = stats.control + Cardinality(taken)
  BY <1>1 DEF Counted
<1>7. ASSUME taken # {}
      PROVE  LET cpi == stream[Max(taken)].cpi
             IN  PrtComplete(cpi, ActivePrt)
                   <=> \A u \in prts : u[1] = cpi => whole(u[1], u[2])
  <2> DEFINE cpi == stream[Max(taken)].cpi
  <2>1. stats.latest.cpi = cpi
    BY <1>1, <1>7 DEF Counted, Point
  <2>2. SeenPrts(cpi) = {u[2] : u \in {u \in coverage : u[1] = cpi}}
    BY DEF SeenPrts
  <2>3. SeenPrts(cpi) # {}
    <3>1. Max(admitted) \in admitted
      BY <1>1, <1>7, AdmittedLast DEF Counted
    <3>2. Place(stream[Max(admitted)]) \in coverage
      BY <3>1, AdmittedFacts
    <3>3. Place(stream[Max(admitted)])[1] = cpi
      BY <1>1 DEF Place
    <3>4. QED
      BY <2>2, <3>2, <3>3
  <2> HIDE DEF cpi
  <2>4. WholePrt(cpi, ActivePrt) <=> \A prt \in SeenPrts(cpi) : WholePrt(cpi, prt)
    BY <2>1, <2>3, ActivePrtIs
  <2>5. PrtComplete(cpi, ActivePrt) <=> WholePrt(cpi, ActivePrt)
    BY PrtCompleteIs
  <2>6. (\A prt \in SeenPrts(cpi) : WholePrt(cpi, prt))
          <=> \A u \in prts : u[1] = cpi => whole(u[1], u[2])
    <3>1. \A v \in coverage : v[1] = cpi => v[2] \in SeenPrts(cpi) /\ <<v[1], v[2]>> \in prts
      BY <1>4, <2>2
    <3>2. \A prt \in SeenPrts(cpi) : \E v \in coverage : v[1] = cpi /\ v[2] = prt
      BY <2>2
    <3>3. \A u \in prts : \E v \in coverage : u[1] = v[1] /\ u[2] = v[2]
      BY <1>4
    <3>4. ASSUME \A prt \in SeenPrts(cpi) : WholePrt(cpi, prt), NEW u \in prts, u[1] = cpi
          PROVE  WholePrt(u[1], u[2])
      BY <3>1, <3>3, <3>4
    <3>5. ASSUME \A u \in prts : u[1] = cpi => WholePrt(u[1], u[2]), NEW prt \in SeenPrts(cpi)
          PROVE  WholePrt(cpi, prt)
      <4>1. PICK v \in coverage : v[1] = cpi /\ v[2] = prt
        BY <3>2, <3>5
      <4>2. <<v[1], v[2]>> \in prts /\ <<v[1], v[2]>>[1] = cpi /\ <<v[1], v[2]>>[2] = prt
        BY <3>1, <4>1
      <4>3. QED
        BY <3>5, <4>2
    <3>6. QED
      BY <1>3, <3>4, <3>5
  <2>7. QED
    BY <2>4, <2>5, <2>6 DEF cpi
<1>8. QED
  BY <1>5, <1>6, <1>7 DEF SummaryTruthful, taken, has, whole, prts

(* The counters, the coverage and the PRT on the panel are a true account  *)
(* of the datagrams, for any specification, any datagrams and any choice   *)
(* the coordinator makes.                                                  *)
THEOREM SummaryTruthfulHolds == Spec => []SummaryTruthful
BY PathTypesHold, CountedHolds, SummaryIs, PTL

-----------------------------------------------------------------------------
(* The assembler puts together exactly what was sent *)

(* No two of the datagrams sent carry the same addresses, identification   *)
(* and protocol.                                                           *)
KeysApart == \A m, n \in DOMAIN Sent : Sent[m].key = Sent[n].key => m = n

Starts(n) == Sent[n].cuts \cup {0}
EndOf(n, o) == Min({e \in Sent[n].cuts \cup {Sent[n].units} : e > o})
UnitsFrom(n, o, e) == [k \in 1 .. (e - o) |-> <<n, o + k - 1>>]

LEMMA StartFacts ==
  ASSUME NEW n \in DOMAIN Sent, NEW o \in Starts(n)
  PROVE  /\ o \in Nat /\ EndOf(n, o) \in Starts(n) \cup {Sent[n].units}
         /\ EndOf(n, o) \in Nat /\ EndOf(n, o) > o /\ EndOf(n, o) <= Sent[n].units
         /\ o < Sent[n].units /\ Sent[n].units \in Nat
         /\ \A e \in Starts(n) : e > o => EndOf(n, o) <= e
<1> DEFINE units == Sent[n].units
           end == EndOf(n, o)
<1>0. o \in Sent[n].cuts \cup {0}
  BY DEF Starts
<1>1. /\ o \in Nat /\ end \in Sent[n].cuts \cup {units} /\ end > o /\ end \in Nat /\ end <= units
      /\ \A e \in Sent[n].cuts \cup {units} : e > o => end <= e
  BY <1>0, FrameEnds DEF EndOf
<1>2. units \in Nat
  BY ProtocolAssumption
<1>3. \A e \in Starts(n) : e > o => e \in Sent[n].cuts
  BY <1>1 DEF Starts
<1> HIDE DEF end
<1>4. o < units
  BY <1>1, <1>2
<1>5. QED
  BY <1>1, <1>2, <1>3, <1>4 DEF Starts, end

LEMMA FrameIs ==
  ASSUME NEW n \in DOMAIN Sent, NEW f \in FramesOf(n)
  PROVE  /\ f.sound /\ f.key = Sent[n].key /\ f.of = n /\ f.off \in Starts(n)
         /\ f.len = EndOf(n, f.off) - f.off /\ f.udp = Sent[n].udp
         /\ f.more <=> EndOf(n, f.off) < Sent[n].units
         /\ f.more \in BOOLEAN
         /\ Units(f) = UnitsFrom(n, f.off, EndOf(n, f.off))
<1>1. PICK o \in Starts(n) :
        f = [sound |-> TRUE, key |-> Sent[n].key, of |-> n, off |-> o, len |-> EndOf(n, o) - o,
             more |-> EndOf(n, o) < Sent[n].units, udp |-> Sent[n].udp]
  BY DEF FramesOf, Starts, EndOf
<1>2. /\ f.sound /\ f.key = Sent[n].key /\ f.of = n /\ f.off = o
      /\ f.len = EndOf(n, o) - o /\ f.udp = Sent[n].udp
      /\ f.more = (EndOf(n, o) < Sent[n].units)
  BY <1>1
<1>3. Units(f) = UnitsFrom(n, o, EndOf(n, o))
  BY <1>2, Zenon DEF Units, UnitsFrom
<1>4. f.more \in BOOLEAN /\ (f.more <=> EndOf(n, o) < Sent[n].units)
  <2>1. (EndOf(n, o) < Sent[n].units) \in BOOLEAN
    OBVIOUS
  <2>2. QED
    BY <1>2, <2>1
<1>5. QED
  BY <1>2, <1>3, <1>4, Zenon

LEMMA UnitsOf ==
  ASSUME NEW n \in DOMAIN Sent, NEW o \in Nat, NEW e \in Nat, o <= e
  PROVE  /\ UnitsFrom(n, o, e) \in Seq(SentUnits) /\ Len(UnitsFrom(n, o, e)) = e - o
         /\ \A k \in 1 .. (e - o) : UnitsFrom(n, o, e)[k] = <<n, o + k - 1>>
<1>1. PICK len \in Nat : len = e - o
  OBVIOUS
<1>2. ASSUME NEW k \in 1 .. len
      PROVE  <<n, o + k - 1>> \in SentUnits
  <2>1. o + k - 1 \in Nat
    OBVIOUS
  <2>2. QED
    BY <2>1 DEF SentUnits
<1> DEFINE s == [k \in 1 .. len |-> <<n, o + k - 1>>]
<1>3. s \in [1 .. len -> SentUnits] /\ \A k \in 1 .. len : s[k] = <<n, o + k - 1>>
  BY <1>2
<1> HIDE DEF s
<1>4. s \in Seq(SentUnits) /\ Len(s) = len
  BY <1>3
<1>5. UnitsFrom(n, o, e) = s
  BY <1>1, Zenon DEF UnitsFrom, s
<1>6. QED
  BY <1>1, <1>3, <1>4, <1>5

LEMMA UnitsJoin ==
  ASSUME NEW n \in DOMAIN Sent, NEW o \in Nat, NEW e \in Nat, NEW u \in Nat, o <= e, e <= u
  PROVE  UnitsFrom(n, o, e) \o UnitsFrom(n, e, u) = UnitsFrom(n, o, u)
<1> DEFINE s == UnitsFrom(n, o, e)
           t == UnitsFrom(n, e, u)
           r == UnitsFrom(n, o, u)
<1>1. /\ s \in Seq(SentUnits) /\ Len(s) = e - o /\ t \in Seq(SentUnits) /\ Len(t) = u - e
      /\ r \in Seq(SentUnits) /\ Len(r) = u - o
      /\ \A k \in 1 .. (e - o) : s[k] = <<n, o + k - 1>>
      /\ \A k \in 1 .. (u - e) : t[k] = <<n, e + k - 1>>
      /\ \A k \in 1 .. (u - o) : r[k] = <<n, o + k - 1>>
  <2>1. o <= u
    OBVIOUS
  <2> HIDE DEF s, t, r
  <2>2. s \in Seq(SentUnits) /\ Len(s) = e - o /\ \A k \in 1 .. (e - o) : s[k] = <<n, o + k - 1>>
    BY UnitsOf DEF s
  <2>3. t \in Seq(SentUnits) /\ Len(t) = u - e /\ \A k \in 1 .. (u - e) : t[k] = <<n, e + k - 1>>
    BY UnitsOf DEF t
  <2>4. r \in Seq(SentUnits) /\ Len(r) = u - o /\ \A k \in 1 .. (u - o) : r[k] = <<n, o + k - 1>>
    BY <2>1, UnitsOf DEF r
  <2>5. QED
    BY <2>2, <2>3, <2>4
<1> HIDE DEF s, t, r
<1>2. Len(s) + Len(t) = u - o /\ Len(s) \in Nat /\ Len(t) \in Nat
  BY <1>1
<1>3. Len(s \o t) = Len(r) /\ s \o t \in Seq(SentUnits)
  BY <1>1
<1>4. ASSUME NEW k \in 1 .. (u - o)
      PROVE  (s \o t)[k] = r[k]
  <2>1. CASE k <= e - o
    <3>1. (s \o t)[k] = s[k] /\ k \in 1 .. (e - o)
      BY <1>1, <2>1
    <3>2. QED
      BY <1>1, <3>1
  <2>2. CASE ~(k <= e - o)
    <3>1. k - (e - o) \in 1 .. (u - e)
      BY <2>2
    <3>2. (s \o t)[k] = t[k - (e - o)]
      <4>1. s \in Seq(SentUnits) /\ t \in Seq(SentUnits) /\ Len(s) = e - o
        BY <1>1
      <4>2. k \in 1 .. Len(s) + Len(t) /\ ~(k <= Len(s))
        BY <1>2, <2>2, <4>1
      <4>3. (s \o t)[k] = t[k - Len(s)]
        BY <4>1, <4>2
      <4>4. QED
        BY <4>1, <4>3
    <3>3. e + (k - (e - o)) - 1 = o + k - 1
      OBVIOUS
    <3>4. QED
      BY <1>1, <3>1, <3>2, <3>3
  <2>3. QED
    BY <2>1, <2>2
<1>5. s \o t = r
  <2> DEFINE c == s \o t
  <2>1. /\ c \in Seq(SentUnits) /\ Len(c) = Len(r) /\ r \in Seq(SentUnits)
        /\ \A k \in 1 .. Len(r) : c[k] = r[k]
    BY <1>1, <1>3, <1>4
  <2> HIDE DEF c
  <2>2. c = r
    BY <2>1
  <2>3. QED
    BY <2>2 DEF c
<1>6. QED
  BY <1>5 DEF s, t, r

(* The assembly a holds frames of the datagram n only.                     *)
AssemblyOf(n, a) ==
  /\ \A o \in DOMAIN a.pieces : o \in Starts(n) /\ a.pieces[o] = UnitsFrom(n, o, EndOf(n, o))
  /\ a.total \in {-1, Sent[n].units} /\ a.udp \in {-1, Sent[n].udp}

LEMMA AssemblyLasts ==
  ASSUME NEW n \in DOMAIN Sent, NEW a, AssemblyOf(n, a)
  PROVE  Lasting(a)
<1>1. \A o \in DOMAIN a.pieces : Len(a.pieces[o]) \in Nat \ {0}
  <2> SUFFICES ASSUME NEW o \in DOMAIN a.pieces
               PROVE  Len(a.pieces[o]) \in Nat \ {0}
    OBVIOUS
  <2>1. o \in Starts(n) /\ a.pieces[o] = UnitsFrom(n, o, EndOf(n, o))
    BY DEF AssemblyOf
  <2>2. o \in Nat /\ EndOf(n, o) \in Nat /\ EndOf(n, o) > o
    BY <2>1, StartFacts
  <2>3. Len(UnitsFrom(n, o, EndOf(n, o))) = EndOf(n, o) - o
    <3> DEFINE e == EndOf(n, o)
    <3>1. e \in Nat /\ o <= e
      BY <2>2
    <3> HIDE DEF e
    <3>2. Len(UnitsFrom(n, o, e)) = e - o
      BY <2>2, <3>1, UnitsOf
    <3>3. QED
      BY <3>2 DEF e
  <2>4. QED
    BY <2>1, <2>2, <2>3
<1>2. a.total \in Nat \cup {-1}
  BY ProtocolAssumption DEF AssemblyOf
<1>3. QED
  BY <1>1, <1>2 DEF Lasting

LEMMA ConcatMember ==
  ASSUME NEW S, NEW s \in Seq(S), NEW t \in Seq(S), NEW x \in ToSet(t)
  PROVE  s \o t \in Seq(S) /\ x \in ToSet(s \o t)
<1>1. PICK i \in 1 .. Len(t) : t[i] = x
  BY DEF ToSet
<1>2. Len(s) + i \in 1 .. Len(s \o t) /\ (s \o t)[Len(s) + i] = x /\ s \o t \in Seq(S)
  BY <1>1
<1>3. QED
  BY <1>2 DEF ToSet

(* What is joined is the datagram or has a gap, and it has a gap only if a *)
(* frame has not come.                                                     *)
LEMMA JoinedWhole ==
  ASSUME NEW n \in DOMAIN Sent, NEW a, AssemblyOf(n, a), a.total = Sent[n].units
  PROVE  \/ Joined(a) = UnitsFrom(n, 0, Sent[n].units)
         \/ Missing \in ToSet(Joined(a)) /\ ~(Starts(n) \subseteq DOMAIN a.pieces)
<1> DEFINE units == Sent[n].units
           gap == ~(Starts(n) \subseteq DOMAIN a.pieces)
           All == SentUnits \cup {Missing}
           Gap(s) == s \in Seq(All) /\ Missing \in ToSet(s) /\ gap
           Right(o, s) == s = UnitsFrom(n, o, units) \/ Gap(s)
<1>1. Lasting(a)
  BY AssemblyLasts
<1>2. PICK from : JoinsTo(a, from) /\ Joined(a) = from[0]
  BY <1>1, JoinedIs
<1> DEFINE Good == {o \in Nat : o \in Starts(n) \cup {units} => Right(o, from[o])}
<1>3. units \in Nat \ {0} /\ 0 \in Starts(n)
  BY ProtocolAssumption DEF Starts
<1>4. \A o \in Starts(n) : o < units
  BY StartFacts
<1>5. \A o \in Nat : from[o] = IF o >= a.total THEN <<>>
                               ELSE IF o \notin DOMAIN a.pieces THEN <<Missing>>
                               ELSE a.pieces[o] \o from[o + Len(a.pieces[o])]
  BY <1>2 DEF JoinsTo
<1>6. \A o \in Nat : o < units /\ o \notin DOMAIN a.pieces => from[o] = <<Missing>>
  <2> SUFFICES ASSUME NEW o \in Nat, o < units, o \notin DOMAIN a.pieces
               PROVE  from[o] = <<Missing>>
    OBVIOUS
  <2>1. ~(o >= a.total)
    BY <1>3
  <2>2. QED
    BY <1>5, <2>1, Zenon
<1>7. \A o \in Nat : o < units /\ o \in DOMAIN a.pieces
                       => from[o] = a.pieces[o] \o from[o + Len(a.pieces[o])]
  <2> SUFFICES ASSUME NEW o \in Nat, o < units, o \in DOMAIN a.pieces
               PROVE  from[o] = a.pieces[o] \o from[o + Len(a.pieces[o])]
    OBVIOUS
  <2>1. ~(o >= a.total) /\ ~(o \notin DOMAIN a.pieces)
    BY <1>3
  <2>2. QED
    BY <1>5, <2>1, Zenon
<1>8. \A o \in Nat : o >= a.total => o \in Good
  <2> SUFFICES ASSUME NEW o \in Nat, o >= units, o \in Starts(n) \cup {units}
               PROVE  from[o] = UnitsFrom(n, o, units)
    OBVIOUS
  <2>1. o = units /\ from[o] = <<>>
    BY <1>3, <1>4, <1>5
  <2>2. units <= units
    BY <1>3
  <2> HIDE DEF units
  <2>3. UnitsFrom(n, units, units) \in Seq(SentUnits)
        /\ Len(UnitsFrom(n, units, units)) = units - units
    BY <1>3, <2>2, UnitsOf
  <2>4. UnitsFrom(n, units, units) = <<>>
    BY <1>3, <2>3
  <2>5. QED
    BY <2>1, <2>4
<1>9. \A o \in Nat : o < a.total /\ o \notin DOMAIN a.pieces => o \in Good
  <2> SUFFICES ASSUME NEW o \in Nat, o < units, o \notin DOMAIN a.pieces,
                      o \in Starts(n) \cup {units}
               PROVE  Gap(from[o])
    OBVIOUS
  <2>1. o \in Starts(n)
    BY <1>3
  <2>2. <<Missing>> \in Seq(All) /\ Missing \in ToSet(<<Missing>>)
    BY DEF ToSet
  <2>3. QED
    BY <1>6, <2>1, <2>2
<1>10. ASSUME NEW o \in Nat, o < a.total, o \in DOMAIN a.pieces, o + Len(a.pieces[o]) \in Good
       PROVE  o \in Good
  <2> DEFINE e == EndOf(n, o)
  <2>1. o \in Starts(n) /\ a.pieces[o] = UnitsFrom(n, o, e)
    BY <1>10 DEF AssemblyOf
  <2>2. e \in Starts(n) \cup {units} /\ e \in Nat /\ e > o /\ e <= units
    BY <2>1, StartFacts
  <2> HIDE DEF e
  <2>3. a.pieces[o] \in Seq(SentUnits) /\ Len(a.pieces[o]) = e - o
    <3>1. o <= e /\ e \in Nat
      BY <2>2
    <3>2. UnitsFrom(n, o, e) \in Seq(SentUnits) /\ Len(UnitsFrom(n, o, e)) = e - o
      BY <3>1, UnitsOf
    <3>3. QED
      BY <2>1, <3>2
  <2>4. o + Len(a.pieces[o]) = e
    BY <2>2, <2>3
  <2>5. from[o] = UnitsFrom(n, o, e) \o from[e]
    BY <1>7, <1>10, <2>1, <2>4
  <2>6. Right(e, from[e])
    BY <1>10, <2>2, <2>4
  <2>7. CASE from[e] = UnitsFrom(n, e, units)
    <3>1. units \in Nat /\ o <= e /\ from[o] = UnitsFrom(n, o, e) \o UnitsFrom(n, e, units)
      BY <1>3, <2>2, <2>5, <2>7
    <3> HIDE DEF units
    <3>2. UnitsFrom(n, o, e) \o UnitsFrom(n, e, units) = UnitsFrom(n, o, units)
      BY <2>2, <3>1, UnitsJoin
    <3>3. QED
      BY <3>1, <3>2
  <2>8. CASE Gap(from[e])
    <3>1. a.pieces[o] \in Seq(All)
      BY <2>3
    <3>2. from[o] \in Seq(All) /\ Missing \in ToSet(from[o])
      BY <2>1, <2>5, <2>8, <3>1, ConcatMember
    <3>3. QED
      BY <2>8, <3>2
  <2>9. QED
    BY <2>6, <2>7, <2>8
<1>11. \A o \in Nat : o \in Good
  <2> HIDE DEF Good
  <2>1. \A o \in Nat : o < a.total /\ o \in DOMAIN a.pieces /\ o + Len(a.pieces[o]) \in Good
                         => o \in Good
    BY <1>10
  <2>2. QED
    BY <1>1, <1>2, <1>8, <1>9, <2>1, JoinedInduction
<1>12. QED
  BY <1>2, <1>3, <1>11

Owned == \A key \in DOMAIN fragments :
           \E n \in DOMAIN Sent : Sent[n].key = key /\ AssemblyOf(n, fragments[key])

(* The frame f of n is in the assembly a.                                  *)
InAssembly(n, f, a) ==
  /\ f.off \in DOMAIN a.pieces
  /\ f.off = 0 => a.udp = Sent[n].udp
  /\ ~f.more => a.total = Sent[n].units

Held(n, f) == Sent[n].key \in DOMAIN fragments /\ InAssembly(n, f, fragments[Sent[n].key])

LEMMA PieceKeeps ==
  ASSUME KeysApart, Owned, NEW n \in DOMAIN Sent, NEW f \in FramesOf(n)
  PROVE  /\ AssemblyOf(n, WithPiece(f)) /\ InAssembly(n, f, WithPiece(f))
         /\ \A g \in FramesOf(n) : Held(n, g) => InAssembly(n, g, WithPiece(f))
<1> DEFINE old == IF f.key \in DOMAIN fragments THEN fragments[f.key] ELSE NoAssembly
           a == WithPiece(f)
           units == Sent[n].units
<1>1. /\ f.key = Sent[n].key /\ f.off \in Starts(n) /\ f.len = EndOf(n, f.off) - f.off
      /\ f.udp = Sent[n].udp /\ f.more \in BOOLEAN /\ (f.more <=> EndOf(n, f.off) < units)
      /\ Units(f) = UnitsFrom(n, f.off, EndOf(n, f.off))
  BY FrameIs
<1>2. AssemblyOf(n, old)
  <2>1. CASE f.key \in DOMAIN fragments
    <3>1. PICK m \in DOMAIN Sent : Sent[m].key = f.key /\ AssemblyOf(m, fragments[f.key])
      BY <2>1 DEF Owned
    <3>2. m = n
      BY <1>1, <3>1 DEF KeysApart
    <3>3. QED
      BY <2>1, <3>1, <3>2
  <2>2. CASE f.key \notin DOMAIN fragments
    <3>1. old = NoAssembly
      BY <2>2
    <3>2. DOMAIN NoAssembly.pieces = {} /\ NoAssembly.total = -1 /\ NoAssembly.udp = -1
      BY DEF NoAssembly
    <3>3. AssemblyOf(n, NoAssembly)
      BY <3>2 DEF AssemblyOf
    <3>4. QED
      BY <3>1, <3>3
  <2>3. QED
    BY <2>1, <2>2
<1>3. /\ a.pieces = [o \in DOMAIN old.pieces \cup {f.off} |->
                       IF o = f.off THEN Units(f) ELSE old.pieces[o]]
      /\ a.total = IF f.more THEN old.total ELSE f.off + f.len
      /\ a.udp = IF f.off = 0 THEN f.udp ELSE old.udp
  BY DEF WithPiece
<1>4. ~f.more => f.off + f.len = units
  <2>1. /\ f.off \in Nat /\ EndOf(n, f.off) \in Nat /\ EndOf(n, f.off) <= units
        /\ units \in Nat
    BY <1>1, StartFacts
  <2>2. QED
    BY <1>1, <2>1
<1>5. \A g \in FramesOf(n) : Held(n, g) => InAssembly(n, g, old)
  BY <1>1 DEF Held
<1> HIDE DEF a, old
<1>6. DOMAIN a.pieces = DOMAIN old.pieces \cup {f.off}
      /\ \A o \in DOMAIN a.pieces : o \in Starts(n) /\ a.pieces[o] = UnitsFrom(n, o, EndOf(n, o))
  BY <1>1, <1>2, <1>3 DEF AssemblyOf
<1>7. a.total \in {-1, units} /\ a.udp \in {-1, Sent[n].udp}
  BY <1>1, <1>2, <1>3, <1>4 DEF AssemblyOf
<1>8. InAssembly(n, f, a)
  BY <1>1, <1>3, <1>4, <1>6 DEF InAssembly
<1>9. \A g \in FramesOf(n) : Held(n, g) => InAssembly(n, g, a)
  BY <1>1, <1>3, <1>4, <1>5, <1>6 DEF InAssembly
<1>10. QED
  BY <1>6, <1>7, <1>8, <1>9 DEF AssemblyOf, a

LEMMA CompleteIs ==
  ASSUME NEW n \in DOMAIN Sent, NEW a, AssemblyOf(n, a), Complete(a)
  PROVE  Joined(a) = UnitsFrom(n, 0, Sent[n].units) /\ a.udp = Sent[n].udp
<1>1. a.total = Sent[n].units /\ a.udp = Sent[n].udp /\ Missing \notin ToSet(Joined(a))
  BY DEF AssemblyOf, Complete
<1>2. QED
  BY <1>1, JoinedWhole

(* With every frame in it, an assembly is complete.                        *)
LEMMA AllMakesComplete ==
  ASSUME NEW n \in DOMAIN Sent, NEW a, AssemblyOf(n, a),
         \A f \in FramesOf(n) : InAssembly(n, f, a)
  PROVE  Complete(a)
<1> DEFINE units == Sent[n].units
           frame(o) == [sound |-> TRUE, key |-> Sent[n].key, of |-> n, off |-> o,
                        len |-> EndOf(n, o) - o, more |-> EndOf(n, o) < units,
                        udp |-> Sent[n].udp]
<1>1. units \in Nat \ {0} /\ Sent[n].udp \in Nat \ {0, 1} /\ 0 \in Starts(n)
  BY ProtocolAssumption DEF Starts
<1>2. \A o \in Starts(n) : /\ frame(o) \in FramesOf(n) /\ frame(o).off = o
                           /\ frame(o).more = (EndOf(n, o) < units)
  BY DEF FramesOf, Starts, EndOf
<1> HIDE DEF frame
<1>3. \A o \in Starts(n) : /\ o \in DOMAIN a.pieces
                           /\ o = 0 => a.udp = Sent[n].udp
                           /\ ~(EndOf(n, o) < units) => a.total = units
  BY <1>2 DEF InAssembly
<1>4. a.total = units
  <2>1. \A o \in Starts(n) : o \in 0 .. units
    BY <1>1, StartFacts
  <2>2. Starts(n) \in SUBSET (0 .. units) /\ Starts(n) # {}
    BY <1>1, <2>1
  <2>3. PICK last \in Starts(n) : \A o \in Starts(n) : o <= last
    BY <1>1, <2>2, GreatestNumber
  <2>4. /\ EndOf(n, last) \in Starts(n) \cup {units} /\ EndOf(n, last) > last
        /\ EndOf(n, last) \in Nat /\ last \in Nat
    BY StartFacts
  <2>5. EndOf(n, last) = units
    BY <2>3, <2>4
  <2>6. QED
    BY <1>1, <1>3, <2>5
<1>5. Joined(a) = UnitsFrom(n, 0, units)
  BY <1>3, <1>4, JoinedWhole
<1>6. Missing \notin ToSet(UnitsFrom(n, 0, units))
  <2> DEFINE s == UnitsFrom(n, 0, units)
  <2>1. 0 <= units
    BY <1>1
  <2>2. s \in Seq(SentUnits) /\ Len(s) = units - 0
        /\ \A k \in 1 .. (units - 0) : s[k] = <<n, 0 + k - 1>>
    BY <1>1, <2>1, UnitsOf
  <2> HIDE DEF s
  <2>3. \A k \in 1 .. (units - 0) : 0 + k - 1 # -1
    BY <1>1
  <2>4. \A k \in DOMAIN s : s[k] # Missing
    BY <1>1, <2>2, <2>3 DEF Missing
  <2>5. QED
    BY <2>4 DEF ToSet, s
<1>7. a.udp = Sent[n].udp
  BY <1>1, <1>3
<1>8. QED
  BY <1>1, <1>4, <1>5, <1>6, <1>7 DEF Complete

LEMMA DatagramIs ==
  ASSUME NEW n \in DOMAIN Sent
  PROVE  Datagram(UnitsFrom(n, 0, Sent[n].units), Sent[n].udp)
           = IF Usable(n) THEN <<SentPayload(n)>> ELSE <<>>
<1> DEFINE units == Sent[n].units
           udp == Sent[n].udp
           s == UnitsFrom(n, 0, units)
<1>1. units \in Nat \ {0} /\ udp \in Nat \ {0, 1}
  BY ProtocolAssumption
<1>2. s \in Seq(SentUnits) /\ Len(s) = units
      /\ \A k \in 1 .. units : s[k] = <<n, k - 1>>
  <2> HIDE DEF s
  <2>1. 0 <= units
    BY <1>1
  <2> HIDE DEF units
  <2>2. s \in Seq(SentUnits) /\ Len(s) = units - 0
        /\ \A k \in 1 .. (units - 0) : s[k] = <<n, 0 + k - 1>>
    BY <1>1, <2>1, UnitsOf DEF s
  <2>3. \A k \in 1 .. units : k \in 1 .. (units - 0) /\ 0 + k - 1 = k - 1
    BY <1>1
  <2>4. QED
    BY <1>1, <2>2, <2>3
<1> HIDE DEF s
<1>3. Usable(n) <=> udp <= units
  BY <1>1 DEF Usable
<1> HIDE DEF units
<1>4. ASSUME udp <= units
      PROVE  SubSeq(s, 2, udp) = SentPayload(n)
  <2>1. SubSeq(s, 2, udp) = [i \in 1 .. (udp - 1) |-> s[i + 1]]
    BY <1>1, <1>2, <1>4
  <2>2. \A i \in 1 .. (udp - 1) : s[i + 1] = <<n, i>>
    <3> SUFFICES ASSUME NEW i \in 1 .. (udp - 1)
                 PROVE  s[i + 1] = <<n, i>>
      OBVIOUS
    <3>1. i + 1 \in 1 .. units /\ i + 1 - 1 = i
      BY <1>1, <1>4
    <3>2. QED
      BY <1>2, <3>1
  <2>3. QED
    BY <2>1, <2>2 DEF SentPayload
<1>5. Datagram(s, udp) = IF udp <= units THEN <<SubSeq(s, 2, udp)>> ELSE <<>>
  <2>1. ~(udp < 1) /\ (udp > units <=> ~(udp <= units))
    BY <1>1
  <2>2. QED
    BY <1>2, <2>1, Zenon DEF Datagram
<1>6. Datagram(s, udp) = IF Usable(n) THEN <<SentPayload(n)>> ELSE <<>>
  BY <1>3, <1>4, <1>5, Zenon
<1>7. QED
  BY <1>6 DEF s, units

LEMMA ResultIs ==
  ASSUME KeysApart, Owned, NEW n \in DOMAIN Sent, NEW f \in FramesOf(n)
  PROVE  Result(f) = IF (Whole(f) \/ Complete(WithPiece(f))) /\ Usable(n)
                     THEN <<SentPayload(n)>> ELSE <<>>
<1>1. /\ f.sound /\ f.off \in Starts(n) /\ f.udp = Sent[n].udp /\ f.more \in BOOLEAN
      /\ f.more <=> EndOf(n, f.off) < Sent[n].units
      /\ Units(f) = UnitsFrom(n, f.off, EndOf(n, f.off))
  BY FrameIs
<1>2. CASE Whole(f)
  <2>1. f.off = 0 /\ EndOf(n, 0) = Sent[n].units
    <3>1. f.off = 0 /\ ~f.more
      BY <1>2 DEF Whole
    <3>2. EndOf(n, 0) \in Nat /\ EndOf(n, 0) <= Sent[n].units /\ Sent[n].units \in Nat
      BY <1>1, <3>1, StartFacts
    <3>3. QED
      BY <1>1, <3>1, <3>2
  <2>2. Result(f) = Datagram(UnitsFrom(n, 0, Sent[n].units), Sent[n].udp)
    BY <1>1, <1>2, <2>1 DEF Result
  <2>3. QED
    BY <1>2, <2>2, DatagramIs
<1>3. CASE ~Whole(f) /\ Complete(WithPiece(f))
  <2>1. Joined(WithPiece(f)) = UnitsFrom(n, 0, Sent[n].units) /\ WithPiece(f).udp = Sent[n].udp
    BY <1>3, PieceKeeps, CompleteIs
  <2>2. Result(f) = Datagram(Joined(WithPiece(f)), WithPiece(f).udp)
    BY <1>1, <1>3 DEF Result
  <2>3. QED
    BY <1>3, <2>1, <2>2, DatagramIs
<1>4. CASE ~Whole(f) /\ ~Complete(WithPiece(f))
  BY <1>1, <1>4 DEF Result
<1>5. QED
  BY <1>2, <1>3, <1>4

Payloads == {SentPayload(n) : n \in {n \in DOMAIN Sent : Usable(n)}}

(* What came of a datagram that is not out yet is in its assembly.         *)
Awaited(n) == Usable(n) /\ SentPayload(n) \notin ToSet(assembled)
Kept == \A n \in DOMAIN Sent : Awaited(n) =>
          \A f \in FramesOf(n) : f \in ToSet(received) => Held(n, f)

Reassembling ==
  /\ Owned /\ Kept
  /\ \A key \in DOMAIN fragments : ~Complete(fragments[key])
  /\ received \in Seq(Wire) /\ assembled \in Seq(Payloads)

LEMMA NotNoise == ~Noise.sound /\ \A n \in DOMAIN Sent : Noise \notin FramesOf(n)
<1>1. ~Noise.sound
  BY DEF Noise
<1>2. QED
  BY <1>1, FrameIs

LEMMA OneDatagram ==
  ASSUME NEW n \in DOMAIN Sent, NEW f \in FramesOf(n), NEW m \in DOMAIN Sent, f \in FramesOf(m)
  PROVE  m = n
BY FrameIs

(* The assemblies after a frame of n that is a fragment.                   *)
LEMMA FragmentPushed ==
  ASSUME NEW n \in DOMAIN Sent, NEW f \in FramesOf(n), ~Whole(f), Push(f)
  PROVE  LET a == WithPiece(f)
             key == Sent[n].key
         IN  /\ DOMAIN fragments' = IF Complete(a) THEN DOMAIN fragments \ {key}
                                    ELSE DOMAIN fragments \cup {key}
             /\ ~Complete(a) => fragments'[key] = a
             /\ \A k \in DOMAIN fragments : k # key => /\ k \in DOMAIN fragments'
                                                       /\ fragments'[k] = fragments[k]
<1> DEFINE a == WithPiece(f)
           key == Sent[n].key
<1>1. f.sound /\ f.key = key
  BY FrameIs
<1>2. fragments' = [k \in IF Complete(a) THEN DOMAIN fragments \ {key}
                                         ELSE DOMAIN fragments \cup {key} |->
                      IF k = key THEN a ELSE fragments[k]]
  BY <1>1 DEF Push
<1> HIDE DEF a, key
<1>3. QED
  BY <1>2 DEF a, key

LEMMA FrameReassembles ==
  ASSUME KeysApart, Reassembling, NEW n \in DOMAIN Sent, NEW f \in FramesOf(n), Push(f),
         received' = Append(received, f), assembled' = assembled \o Result(f)
  PROVE  Reassembling'
<1> DEFINE a == WithPiece(f)
           out == Whole(f) \/ Complete(a)
<1>1. Result(f) = IF out /\ Usable(n) THEN <<SentPayload(n)>> ELSE <<>>
  BY ResultIs DEF Reassembling
<1>2. AssemblyOf(n, a) /\ InAssembly(n, f, a)
      /\ \A g \in FramesOf(n) : Held(n, g) => InAssembly(n, g, a)
  BY PieceKeeps DEF Reassembling
<1>3. received' \in Seq(Wire) /\ ToSet(received') = ToSet(received) \cup {f}
  <2>1. f \in Wire
    BY DEF Wire
  <2>2. QED
    BY <2>1, AppendFacts DEF Reassembling
<1>4. /\ assembled' \in Seq(Payloads)
      /\ ToSet(assembled) \subseteq ToSet(assembled')
      /\ out /\ Usable(n) => SentPayload(n) \in ToSet(assembled')
  <2>1. CASE out /\ Usable(n)
    <3>1. SentPayload(n) \in Payloads
      BY <2>1 DEF Payloads
    <3>2. assembled' = Append(assembled, SentPayload(n))
      BY <1>1, <2>1, <3>1 DEF Reassembling
    <3>3. QED
      BY <3>1, <3>2, AppendFacts DEF Reassembling
  <2>2. CASE ~(out /\ Usable(n))
    <3>1. assembled' = assembled
      BY <1>1, <2>2 DEF Reassembling
    <3>2. QED
      BY <2>2, <3>1 DEF Reassembling
  <2>3. QED
    BY <2>1, <2>2
<1>5. CASE Whole(f)
  <2>1. fragments' = fragments
    BY <1>5 DEF Push
  <2>2. Owned' /\ \A key \in DOMAIN fragments' : ~Complete(fragments'[key])
    BY <2>1 DEF Reassembling, Owned
  <2>3. Kept'
    <3> SUFFICES ASSUME NEW m \in DOMAIN Sent, Awaited(m)', NEW g \in FramesOf(m),
                        g \in ToSet(received')
                 PROVE  Held(m, g)'
      BY DEF Kept
    <3>1. Awaited(m)
      BY <1>4 DEF Awaited
    <3>2. m # n
      BY <1>4, <1>5 DEF Awaited
    <3>3. g # f
      BY <3>2, OneDatagram
    <3>4. Held(m, g)
      BY <1>3, <3>1, <3>3 DEF Reassembling, Kept
    <3>5. QED
      BY <2>1, <3>4 DEF Held
  <2>4. QED
    BY <1>3, <1>4, <2>2, <2>3 DEF Reassembling
<1>6. CASE ~Whole(f)
  <2> DEFINE key == Sent[n].key
  <2>1. /\ DOMAIN fragments' = IF Complete(a) THEN DOMAIN fragments \ {key}
                               ELSE DOMAIN fragments \cup {key}
        /\ ~Complete(a) => fragments'[key] = a
        /\ \A k \in DOMAIN fragments : k # key => /\ k \in DOMAIN fragments'
                                                  /\ fragments'[k] = fragments[k]
    BY <1>6, FragmentPushed
  <2>2. ASSUME NEW k \in DOMAIN fragments'
        PROVE  /\ ~Complete(fragments'[k])
               /\ \E m \in DOMAIN Sent : Sent[m].key = k /\ AssemblyOf(m, fragments'[k])
    <3>1. CASE k = key
      <4>1. ~Complete(a) /\ fragments'[k] = a
        BY <2>1, <2>2, <3>1
      <4>2. QED
        BY <1>2, <3>1, <4>1
    <3>2. CASE k # key
      <4>1. k \in DOMAIN fragments /\ fragments'[k] = fragments[k]
        BY <2>1, <2>2, <3>2
      <4>2. QED
        BY <4>1 DEF Reassembling, Owned
    <3>3. QED
      BY <3>1, <3>2
  <2>3. Owned' /\ \A k \in DOMAIN fragments' : ~Complete(fragments'[k])
    BY <2>2 DEF Owned
  <2>4. Kept'
    <3> SUFFICES ASSUME NEW m \in DOMAIN Sent, Awaited(m)', NEW g \in FramesOf(m),
                        g \in ToSet(received')
                 PROVE  Held(m, g)'
      BY DEF Kept
    <3>1. Awaited(m)
      BY <1>4 DEF Awaited
    <3>2. CASE m = n
      <4>1. ~Complete(a)
        BY <1>4, <3>2 DEF Awaited
      <4>2. key \in DOMAIN fragments' /\ fragments'[key] = a
        BY <2>1, <4>1
      <4>3. InAssembly(n, g, a)
        BY <1>2, <1>3, <3>1, <3>2 DEF Reassembling, Kept
      <4>4. QED
        BY <3>2, <4>2, <4>3 DEF Held, InAssembly
    <3>3. CASE m # n
      <4>1. Sent[m].key # key
        BY <3>3 DEF KeysApart
      <4>2. g # f
        BY <3>3, OneDatagram
      <4>3. Held(m, g)
        BY <1>3, <3>1, <4>2 DEF Reassembling, Kept
      <4>4. QED
        BY <2>1, <4>1, <4>3 DEF Held, InAssembly
    <3>4. QED
      BY <3>2, <3>3
  <2>5. QED
    BY <1>3, <1>4, <2>3, <2>4 DEF Reassembling
<1>7. QED
  BY <1>5, <1>6

LEMMA NoiseReassembles ==
  ASSUME Reassembling, Push(Noise), received' = Append(received, Noise),
         assembled' = assembled \o Result(Noise)
  PROVE  Reassembling'
<1>1. fragments' = fragments /\ Result(Noise) = <<>>
  BY NotNoise DEF Push, Result
<1>2. assembled' = assembled
  BY <1>1 DEF Reassembling
<1>3. received' \in Seq(Wire) /\ ToSet(received') = ToSet(received) \cup {Noise}
  <2>1. Noise \in Wire
    BY DEF Wire
  <2>2. QED
    BY <2>1, AppendFacts DEF Reassembling
<1>4. Kept'
  <2> SUFFICES ASSUME NEW m \in DOMAIN Sent, Awaited(m)', NEW g \in FramesOf(m),
                      g \in ToSet(received')
               PROVE  Held(m, g)'
    BY DEF Kept
  <2>1. Awaited(m) /\ g \in ToSet(received)
    BY <1>2, <1>3, NotNoise DEF Awaited
  <2>2. Held(m, g)
    BY <2>1 DEF Reassembling, Kept
  <2>3. QED
    BY <1>1, <2>2 DEF Held
<1>5. QED
  BY <1>1, <1>2, <1>3, <1>4 DEF Reassembling, Owned

(* Only sent datagrams come out of the assembler, exactly, and each whose  *)
(* fragments all came does: for any number of datagrams cut anywhere and   *)
(* any order, loss and repetition of their frames, as long as no two of    *)
(* them carry the same key.                                                *)
THEOREM ReassemblyExactHolds ==
  ASSUME KeysApart
  PROVE  Spec => []ReassemblyExact
<1>1. Init => Reassembling
  <2> SUFFICES ASSUME Init
               PROVE  Reassembling
    OBVIOUS
  <2>1. DOMAIN fragments = {} /\ received = <<>> /\ assembled = <<>>
    BY DEF Init
  <2>2. ToSet(<<>>) = {}
    BY DEF ToSet
  <2>3. QED
    BY <2>1, <2>2 DEF Reassembling, Owned, Kept
<1>2. Reassembling /\ [Next]_vars => Reassembling'
  <2> SUFFICES ASSUME Reassembling, [Next]_vars
               PROVE  Reassembling'
    OBVIOUS
  <2>1. CASE UNCHANGED <<fragments, received, assembled>>
    <3>1. Kept'
      BY <2>1 DEF Reassembling, Kept, Awaited, Held
    <3>2. QED
      BY <2>1, <3>1 DEF Reassembling, Owned
  <2>2. CASE UNCHANGED vars
    BY <2>1, <2>2 DEF vars
  <2>3. CASE \E d \in Datagrams : ReceiveDatagram(d)
    BY <2>1, <2>3 DEF ReceiveDatagram
  <2>4. CASE \E n \in DOMAIN Sent : \E f \in FramesOf(n) : ProcessPacket(f)
    <3>1. PICK n \in DOMAIN Sent : \E f \in FramesOf(n) : ProcessPacket(f)
      BY <2>4
    <3>2. PICK f \in FramesOf(n) : ProcessPacket(f)
      BY <3>1
    <3>3. QED
      BY <3>2, FrameReassembles DEF ProcessPacket
  <2>5. CASE ProcessPacket(Noise)
    BY <2>5, NoiseReassembles DEF ProcessPacket
  <2>6. QED
    BY <2>2, <2>3, <2>4, <2>5 DEF Next
<1>3. Reassembling => ReassemblyExact
  <2> SUFFICES ASSUME Reassembling
               PROVE  ReassemblyExact
    OBVIOUS
  <2>1. ToSet(assembled) \subseteq Payloads
    BY DEF Reassembling, ToSet
  <2>2. ASSUME NEW n \in DOMAIN Sent, Usable(n), FramesOf(n) \subseteq ToSet(received),
               SentPayload(n) \notin ToSet(assembled)
        PROVE  FALSE
    <3> DEFINE key == Sent[n].key
    <3>1. \A f \in FramesOf(n) : Held(n, f)
      BY <2>2 DEF Reassembling, Kept, Awaited
    <3>2. PICK f \in FramesOf(n) : TRUE
      BY DEF FramesOf
    <3>3. key \in DOMAIN fragments /\ \A g \in FramesOf(n) : InAssembly(n, g, fragments[key])
      BY <3>1, <3>2 DEF Held
    <3>4. AssemblyOf(n, fragments[key])
      BY <3>3 DEF Reassembling, Owned, KeysApart
    <3>5. Complete(fragments[key])
      BY <3>3, <3>4, AllMakesComplete
    <3>6. QED
      BY <3>3, <3>5 DEF Reassembling
  <2>3. QED
    BY <2>1, <2>2 DEF ReassemblyExact, Payloads
<1>4. QED
  BY <1>1, <1>2, <1>3, PTL DEF Spec
=============================================================================
