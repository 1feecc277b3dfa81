-------------------------- MODULE ContextLifecycle --------------------------
(***************************************************************************)
(* What the CPI output path promises about the contexts of its pool: every *)
(* context is in the hands of exactly one party at a time, and changes     *)
(* hands only along                                                        *)
(*                                                                         *)
(*     free -> active -> previous                                          *)
(*                active, previous -> lent -> free                         *)
(*                active, previous -> free                                 *)
(*                                                                         *)
(* with at most one active and at most one previous context.  A lent       *)
(* context is the consumer's to read until its release token comes back;   *)
(* OutputPipeline.tla, with its two threads and two rings, implements this.*)
(***************************************************************************)
CONSTANT Slots   (* the contexts of the pool *)

VARIABLE holder  (* who holds each context *)

Holders == {"free", "active", "previous", "lent"}

HeldBy(h) == {s \in Slots : holder[s] = h}

Hand(s, to) == holder' = [holder EXCEPT ![s] = to]

Init == holder = [s \in Slots |-> "free"]

Acquire(s) == holder[s] = "free" /\ HeldBy("active") = {} /\ Hand(s, "active")

Rotate(s) == holder[s] = "active" /\ HeldBy("previous") = {} /\ Hand(s, "previous")

Lend(s) == holder[s] \in {"active", "previous"} /\ Hand(s, "lent")

Discard(s) == holder[s] \in {"active", "previous"} /\ Hand(s, "free")

Return(s) == holder[s] = "lent" /\ Hand(s, "free")

Next == \E s \in Slots : Acquire(s) \/ Rotate(s) \/ Lend(s) \/ Discard(s) \/ Return(s)

Spec == Init /\ [][Next]_holder
=============================================================================
