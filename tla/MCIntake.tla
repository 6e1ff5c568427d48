----------------------------- MODULE MCIntake -------------------------------
(***************************************************************************)
(* Intake on small instances.  Forms meet each other only in the search    *)
(* for an earlier claim of the health check: either all forms are health   *)
(* checks, or one form of any kind is open and nobody opens the others.    *)
(***************************************************************************)
EXTENDS Intake

MCInit ==
  /\ Init
  /\ \/ /\ \A v \in Visits : form[v] = "idle" /\ kind[v] = "health"
        /\ trapped = {}
     \/ \E v \in Visits :
          /\ form[v] = "idle"
          /\ \A w \in Visits \ {v} :
               form[w] = "away" /\ kind[w] = kind[v] /\ domain[w] = domain[v] /\ w \notin trapped

=============================================================================
