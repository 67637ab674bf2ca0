----------------------------- MODULE MCAdmission ------------------------------
(* Model values of Admission for TLC.                                        *)
EXTENDS Admission, TLC
Symmetry ==
    Permutations(Session) \cup Permutations(Conn) \cup Permutations(Key)
      \cup Permutations(HostGrant) \cup Permutations(ObserverGrant)
===============================================================================
