---------------------------- MODULE MCPublishing ----------------------------
(***************************************************************************)
(* Publishing for TLC.  URLs, contents and names are interchangeable, so   *)
(* that the first row and the first name can be fixed; every copy is       *)
(* watched.                                                                *)
(***************************************************************************)
EXTENDS Publishing

CONSTANTS FirstSlug, FirstContent, FirstName

MCInit ==
  /\ Init
  /\ author = FirstName
  /\ \A r \in {row} \ {Nothing} : r.slug = FirstSlug /\ r.content = FirstContent

MCSpec == MCInit /\ [][Next]_vars /\ WF_vars(Fetch) /\ SF_vars(Store)
=============================================================================
