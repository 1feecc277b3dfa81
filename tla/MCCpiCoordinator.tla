-------------------------- MODULE MCCpiCoordinator --------------------------
(***************************************************************************)
(* Specifications and packets for the runs of CpiCoordinator.              *)
(***************************************************************************)
EXTENDS CpiCoordinator

(* The defaults: no fixed number of PRTs to fall back on, no timeout. *)
Default == [dynamic |-> TRUE, expected |-> 0, max |-> MaxPrt, timeout |-> FALSE]
Dynamic == [dynamic |-> TRUE, expected |-> MaxPrt, max |-> MaxPrt, timeout |-> TRUE]
Static == [dynamic |-> FALSE, expected |-> MaxPrt, max |-> MaxPrt, timeout |-> FALSE]

AllSpecs == {Default, Dynamic, Static}
DynamicOnly == {Dynamic}

ValidControl == 1 .. MaxPrt
AnyControl == 0 .. MaxPrt
SomePrts == 0 .. MaxPrt
=============================================================================
