------------------------- MODULE MCAutomationActions -------------------------
(***************************************************************************)
(* Graphs for model checking AutomationActions.                            *)
(***************************************************************************)
EXTENDS AutomationActions

CONSTANTS n1, n2

\* Two parallel actions; the failure branch of one leads to the other.
Fork == {<<n1, "failure", n2>>}

=============================================================================
