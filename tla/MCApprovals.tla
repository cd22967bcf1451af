---------------------------- MODULE MCApprovals ----------------------------
(***************************************************************************)
(* Instances of Approvals for TLC.  The runs and the request slots are     *)
(* interchangeable, so the safety runs use them as symmetric model values. *)
(***************************************************************************)
EXTENDS Approvals, TLC

Symmetry == Permutations(Runs) \cup Permutations(Tasks)

\* A part of the state space in which people only schedule and edit, and every
\* decision comes from the scheduled publisher.
OnlyThePublisherDecides ==
    /\ \A t \in Tasks : pc[t] \notin {"lookup", "deciding", "answered"}
    /\ \A r \in Runs : gate[r] # "none" => decidedBy[r] \in {Nobody, Publisher}
    /\ \A r \in Runs : gate[r] # "timed_out"
=============================================================================
