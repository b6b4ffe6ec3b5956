------------------------ MODULE MCAssignmentCommand ------------------------
(* Instances of AssignmentCommand, and what a comment of the code claims    *)
(* that the code does not keep.                                             *)
EXTENDS AssignmentCommand

\* Nobody but a person replaces an owner that a person chose: the compare-and-set
\* of RecordCommitPort.commit protects manual claims.
ManualOwnerKept ==
    [][\A r \in Records :
         r \in touched /\ owner[r] # None /\ moves' = moves => owner'[r] = owner[r]]_vars
=============================================================================
