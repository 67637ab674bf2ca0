------------------------------ MODULE MCDelivery ------------------------------
(***************************************************************************)
(* Delivery on small instances for TLC.                                    *)
(***************************************************************************)
EXTENDS Delivery, TLC

Symmetry == Permutations(Conn) \cup Permutations(AttachId)
=============================================================================
