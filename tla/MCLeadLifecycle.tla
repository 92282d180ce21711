-------------------------- MODULE MCLeadLifecycle --------------------------
(* Bounds for LeadLifecycle: the updates that requests may carry. *)
EXTENDS LeadLifecycle, TLC

Change(field, value) == [NoUpdate EXCEPT ![field] = value]

\* A stage change, a change of owner, the soft delete, and an edit of the columns
\* that are left out.
MCUpdates ==
    {NoUpdate, Change("deleted", TRUE), Change("assignedTo", Nobody)}
        \cup {Change("stage", s) : s \in Stages}

\* Requests, and members, are told apart by name only.
Symmetry == Permutations(Requests) \cup Permutations(Members)
=============================================================================
