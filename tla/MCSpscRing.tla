----------------------------- MODULE MCSpscRing -----------------------------
(***************************************************************************)
(* A ring of three usable slots (four cells, so both indices wrap with one *)
(* cell in reserve) carrying two distinguishable elements.                 *)
(***************************************************************************)
EXTENDS SpscRing

CONSTANTS a, b
MCValues == {a, b}
=============================================================================
