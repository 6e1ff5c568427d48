--------------------------- MODULE MCApplications ---------------------------
(***************************************************************************)
(* Applications for TLC.  Candidates, adverts, administrators and          *)
(* downloads are interchangeable: no definition tells two of them apart.   *)
(***************************************************************************)
EXTENDS Applications, TLC

Symmetry ==
  Permutations(Submissions) \cup Permutations(Jobs) \cup Permutations(Erasures)
    \cup Permutations(Downloads)
=============================================================================
