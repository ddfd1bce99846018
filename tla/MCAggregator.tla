---------------------------- MODULE MCAggregator ----------------------------
(***************************************************************************)
(* Transactions and blocks for model checking the aggregator.  The hashes  *)
(* are names; "create" opens a poll with a first proposal, "join" adds a   *)
(* second proposal to that poll.                                           *)
(***************************************************************************)
EXTENDS AggregatorIndex

NoOp == [op |-> "none", assigned |-> NoTx, start |-> 0, end |-> 0, choices |-> 0,
         target |-> NoTx, passed |-> FALSE, storable |-> TRUE]

Plain(hash) ==
  [hash |-> hash, spends |-> "inputs", fee |-> 1, inputs |-> {}, signers |-> {"alice"},
   deposit |-> NoDeposit, manage |-> NoOp, votes |-> <<>>]

Adding(hash, poll) ==
  [Plain(hash) EXCEPT
     !.deposit = [index |-> 1, quantity |-> 5],
     !.manage = [NoOp EXCEPT !.op = "addProposal", !.assigned = poll,
                             !.start = 2, !.end = 3, !.choices = 2]]

Closing(hash, op, target) ==
  [Plain(hash) EXCEPT
     !.fee = 2,
     !.inputs = {[tx |-> target, index |-> 1]},
     !.manage = [NoOp EXCEPT !.op = op, !.target = target, !.passed = TRUE]]

Entry(owner, choices) ==
  [poll |-> "create", owner |-> owner, power |-> 4, choices |-> choices]

For(proposal, choice) == [h \in {proposal} |-> choice]

Both(c1, c2) == [h \in {"create", "join"} |-> IF h = "create" THEN c1 ELSE c2]

Voting(hash, entries) == [Plain(hash) EXCEPT !.votes = entries]

Create == Adding("create", NoTx)
Join == Adding("join", "create")
Conclude == Closing("conclude", "concludeProposal", "create")
Cancel == Closing("cancel", "cancelProposal", "join")
VoteBoth == Voting("voteBoth", <<Entry("alice", Both(0, Abstain))>>)
Revote == Voting("revote", <<Entry("alice", For("create", 1))>>)
\* bob did not sign; alice's choice for "join" does not exist.
VoteBadly == Voting("voteBadly", <<Entry("bob", For("create", 0)), Entry("alice", For("join", 2))>>)
\* A second proposal cancelled and voted for by two users in one transaction.
CancelAndVote ==
  [Cancel EXCEPT !.hash = "cancelAndVote", !.signers = {"alice", "bob"},
     !.votes = <<Entry("alice", For("create", 0)), Entry("bob", For("join", 1))>>]
\* Underfunded: its collateral output holds too little of the token.
Underfunded == [Adding("underfunded", NoTx) EXCEPT !.deposit.quantity = 4]
\* It fails on chain: only its collateral inputs are consumed.
Failed == [Closing("failed", "concludeProposal", "create") EXCEPT !.spends = "collaterals"]
\* Concludes a proposal without spending its output.
ConcludeInVain ==
  [Conclude EXCEPT !.hash = "concludeInVain", !.inputs = {}, !.manage.passed = FALSE]
\* Two users vote for one proposal in one transaction.
TwoVoters ==
  [Plain("twoVoters") EXCEPT
     !.signers = {"alice", "bob"},
     !.votes = <<Entry("alice", For("create", 0)), Entry("bob", For("create", 1))>>]

\* The name of its proposal holds U+0000.
Unreadable == [Adding("unreadable", NoTx) EXCEPT !.manage.storable = FALSE]
\* The reason of the cancellation does.
CancelUnreadably ==
  [Closing("cancelUnreadably", "cancelProposal", "create") EXCEPT !.manage.storable = FALSE]

AllTxs == {Create, Join, Conclude, Cancel, VoteBoth, Revote, VoteBadly, CancelAndVote,
           Underfunded, Failed, ConcludeInVain, TwoVoters, Unreadable, CancelUnreadably}

LifecycleBodies ==
  {<<Create, Underfunded>>, <<Create, Join>>, <<Join, Revote>>, <<VoteBadly, VoteBoth, Conclude>>,
   <<CancelAndVote>>, <<Failed, ConcludeInVain, Conclude>>}

\* The last two are blocks whose database transaction may be refused.
ForkBodies ==
  {<<Create>>, <<>>, NotPraos, NoTransactions, <<TwoVoters>>, <<CancelUnreadably, Unreadable>>}

LostBlockBodies == {<<Create>>, <<TwoVoters>>}

RefusedTextBodies == {<<Create>>, <<Unreadable>>, <<Revote, CancelUnreadably>>}
=============================================================================
