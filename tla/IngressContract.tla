-------------------------- MODULE IngressContract ---------------------------
(***************************************************************************)
(* IngressContract: how a backend may be used (IRxBackend): opened once,   *)
(* one call of recv_burst() at a time, no call while datagrams of the last *)
(* burst are still lent to the caller, closed only when nothing is lent.   *)
(* The datagrams point into memory of the backend: each of the rules keeps *)
(* the caller from reading what the backend has reused.                    *)
(***************************************************************************)
EXTENDS Integers

VARIABLES phase, lent

Init == phase = "closed" /\ lent = {}

Open == phase = "closed" /\ phase' = "open" /\ UNCHANGED lent
Call == phase = "open" /\ lent = {} /\ phase' = "calling" /\ UNCHANGED lent
Lend == phase = "calling" /\ lent \subseteq lent' /\ UNCHANGED phase
Return == phase = "calling" /\ phase' = "open" /\ lent \subseteq lent'
Release == phase = "open" /\ lent' = {} /\ UNCHANGED phase
Close == phase = "open" /\ lent = {} /\ phase' = "closed" /\ UNCHANGED lent

Next == Open \/ Call \/ Lend \/ Return \/ Release \/ Close

Spec == Init /\ [][Next]_<<phase, lent>>
=============================================================================
