------------------------------ MODULE SpscRing ------------------------------
(***************************************************************************)
(* rxtech::SpscRing: the lock-free ring between the owner thread and the   *)
(* consumer thread (include/rxtech/spsc_ring.h).                           *)
(*                                                                         *)
(* One producer calls push(), one consumer calls pop().  Each of them owns *)
(* one index, publishes it with a release store and reads the other's with *)
(* an acquire load, and only when its private cached copy says the ring is *)
(* full (or empty).  A step is one access to memory both threads can see:  *)
(* an index load, an index store, a slot write or a slot read.  An acquire *)
(* load that returns an index sees every slot access made before the store *)
(* of that index, so the accesses appear in the order of the steps.        *)
(***************************************************************************)
EXTENDS Naturals, Sequences

CONSTANTS
  Values,    (* the elements                                                *)
  Mask,      (* mask_ = capacity_ - 1: the largest index, and the number of *)
             (* elements the ring can hold                                  *)
  Empty      (* what pop() leaves its caller with when it returns false     *)

ASSUME RingAssumption ==
  /\ Mask \in Nat \ {0}     \* cap starts at 2 in the constructor
  /\ Empty \notin Values

VARIABLES
  buf,          (* buf_: the slots                                        *)
  head,         (* head_: the next slot to write, stored by the producer  *)
  tailCached,   (* tail_cached_: the producer's copy of tail_             *)
  tail,         (* tail_: the next slot to read, stored by the consumer   *)
  headCached,   (* head_cached_: the consumer's copy of head_             *)
  pushPc,       (* where the producer is in push()                        *)
  value,        (* push()'s argument                                      *)
  popPc,        (* where the consumer is in pop()                         *)
  out,          (* pop()'s out parameter while pop() runs                 *)
  pushResult,   (* what the last push() returned                          *)
  popResult     (* what the last pop() delivered, or Empty                *)

producerVars == <<head, tailCached, pushPc, value, pushResult>>
consumerVars == <<tail, headCached, popPc, out, popResult>>
vars == <<buf, producerVars, consumerVars>>

Index == 0 .. Mask

(* (i + 1) & mask_, for an index i. *)
Succ(i) == IF i = Mask THEN 0 ELSE i + 1

(* (h - t) & mask_: how many elements lie between the two indices. *)
Size(t, h) == IF t <= h THEN h - t ELSE h + Mask + 1 - t

(* The slot k places after slot i, for k in 0 .. Mask. *)
Slot(i, k) == IF i + k <= Mask THEN i + k ELSE i + k - (Mask + 1)

TypeOK ==
  /\ buf \in [Index -> Values \cup {Empty}]
  /\ {head, tail, headCached, tailCached} \subseteq Index
  /\ pushPc \in {"idle", "reload", "write", "publish"}
  /\ popPc \in {"idle", "reload", "read", "publish"}
  /\ value \in Values \cup {Empty}
  /\ out \in Values \cup {Empty}
  /\ pushResult \in BOOLEAN
  /\ popResult \in Values \cup {Empty}

Init ==
  /\ buf = [i \in Index |-> Empty]
  /\ head = 0 /\ tail = 0 /\ headCached = 0 /\ tailCached = 0
  /\ pushPc = "idle" /\ value = Empty /\ pushResult = TRUE
  /\ popPc = "idle" /\ out = Empty /\ popResult = Empty

-----------------------------------------------------------------------------
(* push() *)

(* Entry: the relaxed load of head_ and the test against the cached tail. *)
PushBegin(v) ==
  /\ pushPc = "idle"
  /\ value' = v
  /\ pushPc' = IF Succ(head) = tailCached THEN "reload" ELSE "write"
  /\ UNCHANGED <<buf, head, tailCached, pushResult, consumerVars>>

(* Mutant of PushReload: the second test is forgotten. *)
PushReloadNoTest ==
  /\ pushPc = "reload"
  /\ tailCached' = tail
  /\ pushPc' = "write"
  /\ UNCHANGED <<buf, head, value, pushResult, consumerVars>>

(* The acquire load of tail_ and the second test: the ring is full. *)
PushReload ==
  /\ pushPc = "reload"
  /\ tailCached' = tail
  /\ IF Succ(head) = tail
     THEN pushPc' = "idle" /\ pushResult' = FALSE
     ELSE pushPc' = "write" /\ UNCHANGED pushResult
  /\ UNCHANGED <<buf, head, value, consumerVars>>

(* Mutant of PushWrite: the element goes to the next index. *)
PushWriteNext ==
  /\ pushPc = "write"
  /\ buf' = [buf EXCEPT ![Succ(head)] = value]
  /\ pushPc' = "publish"
  /\ UNCHANGED <<head, tailCached, value, pushResult, consumerVars>>

PushWrite ==
  /\ pushPc = "write"
  /\ buf' = [buf EXCEPT ![head] = value]
  /\ pushPc' = "publish"
  /\ UNCHANGED <<head, tailCached, value, pushResult, consumerVars>>

(* The release store of head_. *)
PushPublish ==
  /\ pushPc = "publish"
  /\ head' = Succ(head)
  /\ pushResult' = TRUE
  /\ pushPc' = "idle"
  /\ UNCHANGED <<buf, tailCached, value, consumerVars>>

Producer == (\E v \in Values : PushBegin(v)) \/ PushReload \/ PushWrite \/ PushPublish

-----------------------------------------------------------------------------
(* pop() *)

PopBegin ==
  /\ popPc = "idle"
  /\ popPc' = IF tail = headCached THEN "reload" ELSE "read"
  /\ UNCHANGED <<buf, tail, headCached, out, popResult, producerVars>>

(* Mutants of PopReload: the second test is forgotten; the cached index is *)
(* not refreshed.                                                          *)
PopReloadNoTest ==
  /\ popPc = "reload"
  /\ headCached' = head
  /\ popPc' = "read"
  /\ UNCHANGED <<buf, tail, out, popResult, producerVars>>

PopReloadStale ==
  /\ popPc = "reload"
  /\ popPc' = "idle" /\ popResult' = Empty
  /\ UNCHANGED <<buf, tail, headCached, out, producerVars>>

(* The acquire load of head_ and the second test: the ring is empty. *)
PopReload ==
  /\ popPc = "reload"
  /\ headCached' = head
  /\ IF tail = head
     THEN popPc' = "idle" /\ popResult' = Empty
     ELSE popPc' = "read" /\ UNCHANGED popResult
  /\ UNCHANGED <<buf, tail, out, producerVars>>

PopRead ==
  /\ popPc = "read"
  /\ out' = buf[tail]
  /\ popPc' = "publish"
  /\ UNCHANGED <<buf, tail, headCached, popResult, producerVars>>

(* The release store of tail_. *)
PopPublish ==
  /\ popPc = "publish"
  /\ tail' = Succ(tail)
  /\ popResult' = out
  /\ popPc' = "idle"
  /\ UNCHANGED <<buf, headCached, out, producerVars>>

Consumer == PopBegin \/ PopReload \/ PopRead \/ PopPublish

-----------------------------------------------------------------------------
Next == Producer \/ Consumer

Spec == Init /\ [][Next]_vars

(* The consumer thread polls pop() for as long as it runs, and a thread    *)
(* inside push() or pop() takes its next step: neither ever blocks.        *)
FairSpec ==
  /\ Spec
  /\ WF_vars(Consumer)
  /\ WF_vars(PushReload \/ PushWrite \/ PushPublish)

-----------------------------------------------------------------------------
(* What is in the ring, oldest first. *)
Contents == [k \in 1 .. Size(tail, head) |-> buf[Slot(tail, k - 1)]]

(* No data race: the producer never writes the slot the consumer is about  *)
(* to read, nor one between push()'s write and its publication that the    *)
(* consumer could reach.  The slots are plain memory: this is what makes   *)
(* line 69 and line 86 safe.                                               *)
NoSlotRace ==
  pushPc \in {"write", "publish"} /\ popPc \in {"read", "publish"} => head # tail

(* The cached index of the other thread errs on the safe side only: what   *)
(* the producer believes is free is free, what the consumer believes is    *)
(* there is there, although both copies may be arbitrarily old.            *)
CachedIndicesConservative ==
  /\ Size(tail, head) <= Size(tailCached, head)
  /\ Size(tail, headCached) <= Size(tail, head)

(* The inductive invariant.  A thread past its test holds a slot the other *)
(* cannot touch, and what it wrote or read there is still there: push()    *)
(* publishes its own argument, pop() delivers the oldest element.          *)
RingInvariant ==
  /\ TypeOK
  /\ CachedIndicesConservative
  /\ pushPc # "idle" => value \in Values
  /\ pushPc \in {"write", "publish"} => Succ(head) # tailCached
  /\ pushPc = "publish" => buf[head] = value
  /\ popPc \in {"read", "publish"} => tail # headCached
  /\ popPc = "publish" => out = buf[tail]

(* The ring is a bounded FIFO: nothing is lost, duplicated, reordered or   *)
(* overwritten, and push() and pop() fail only on a full or empty ring.    *)
Fifo == INSTANCE BoundedFifo WITH queue <- Contents, Capacity <- Mask

ImplementsFifo == Fifo!Spec

(* Every published element is eventually delivered, whatever the producer  *)
(* does meanwhile and however stale the consumer's cached index is.        *)
PublishedIsDelivered ==
  \A v \in Values : (Contents # <<>> /\ Contents[Len(Contents)] = v) ~> (popResult = v)
=============================================================================
