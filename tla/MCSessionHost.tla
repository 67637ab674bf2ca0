---------------------------- MODULE MCSessionHost ----------------------------
(* Instances of SessionHost for TLC.  Session ids and attach handles are      *)
(* random values in the code, so both sets are symmetric.                     *)
EXTENDS SessionHostControl, TLC

SessionSymmetry == Permutations(Session)
AttachSymmetry == Permutations(AttachId)
IdSymmetry == SessionSymmetry \cup AttachSymmetry
=============================================================================
