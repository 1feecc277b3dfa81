----------------------------- MODULE BoundedFifo -----------------------------
(***************************************************************************)
(* What rxtech::SpscRing promises its two callers: a first-in first-out    *)
(* queue of at most Capacity elements.  push() answers FALSE only when the *)
(* queue is full, pop() answers Empty only when it is empty, and an answer *)
(* is given in the same instant the queue changes.                         *)
(*                                                                         *)
(* SpscRing.tla is the algorithm and implements this specification; the    *)
(* modules about the CPI output path use rings as this module describes    *)
(* them.                                                                   *)
(***************************************************************************)
EXTENDS Naturals, Sequences

CONSTANTS
  Values,    (* what may be put in the queue                      *)
  Capacity,  (* how many elements it holds                        *)
  Empty      (* pop()'s answer when there is nothing to take      *)

VARIABLES
  queue,       (* the elements pushed and not yet popped, oldest first *)
  pushResult,  (* what the last push() returned                        *)
  popResult    (* what the last pop() delivered, or Empty              *)

fifoVars == <<queue, pushResult, popResult>>

Init ==
  /\ queue = <<>>
  /\ pushResult = TRUE
  /\ popResult = Empty

Push(v) ==
  /\ Len(queue) < Capacity
  /\ queue' = Append(queue, v)
  /\ pushResult' = TRUE
  /\ UNCHANGED popResult

PushFull ==
  /\ Len(queue) = Capacity
  /\ pushResult' = FALSE
  /\ UNCHANGED <<queue, popResult>>

Pop ==
  /\ queue # <<>>
  /\ popResult' = Head(queue)
  /\ queue' = Tail(queue)
  /\ UNCHANGED pushResult

PopEmpty ==
  /\ queue = <<>>
  /\ popResult' = Empty
  /\ UNCHANGED <<queue, pushResult>>

Next ==
  \/ \E v \in Values : Push(v)
  \/ PushFull
  \/ Pop
  \/ PopEmpty

Spec == Init /\ [][Next]_fifoVars
=============================================================================
