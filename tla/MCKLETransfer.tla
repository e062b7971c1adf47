--------------------------- MODULE MCKLETransfer ---------------------------
(***************************************************************************)
(* Instance of KLETransfer for TLC: two lockers, which may change places,  *)
(* and a content of one block.  A block left out shows where an earlier     *)
(* transfer has left another value.                                        *)
(***************************************************************************)
EXTENDS KLETransfer, TLC

MCContents == {<<1>>}
MCSources  == {<<1, 0>>}
Exchanges  == Permutations(Lockers)
=============================================================================
