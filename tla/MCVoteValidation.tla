-------------------------- MODULE MCVoteValidation --------------------------
(***************************************************************************)
(* Two polls with different snapshots, votes of alice for both, and the    *)
(* output she holds before them and may spend at any time.                 *)
(***************************************************************************)
EXTENDS VoteValidation

Cast(poll, power, listed) == [poll |-> poll, owner |-> "alice", power |-> power, listed |-> listed]

Early == Cast("early", 2, TRUE)
Late == Cast("late", 2, TRUE)
Overstated == Cast("early", 3, TRUE)
Unlisted == Cast("early", 1, FALSE)

Snapshots == [p \in {"early", "late"} |-> IF p = "early" THEN 1 ELSE 2]

Holdings == {[owner |-> "alice", amount |-> 2, created |-> 0]}

\* The output comes in with the first block.
Received == {[owner |-> "alice", amount |-> 2, created |-> 1]}

\* The snapshot of this poll is later than its votes.
LateSnapshot == [p \in {"late"} |-> 4]

Overclaimed == {Overstated}

Rightly == {Late}

Three == {Early, Late, Unlisted}
=============================================================================
