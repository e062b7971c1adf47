----------------------------- MODULE MCMachines -----------------------------
(***************************************************************************)
(* TLC instances of Machines.tla.                                          *)
(***************************************************************************)
EXTENDS Machines

\* Every kind of curve with every MachineExtension that the Machines of its kind have.
AllCurves == {<<"wei", 0>>, <<"wei", 1>>, <<"wei", 2>>, <<"ed", 1>>, <<"mont", 0>>, <<"mont", 1>>, <<"mont", 2>>}
=============================================================================
