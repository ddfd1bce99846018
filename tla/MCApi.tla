-------------------------------- MODULE MCApi --------------------------------
(***************************************************************************)
(* Blocks for model checking the queries.                                  *)
(***************************************************************************)
EXTENDS MCAggregator, Api

\* A second vote of alice for both proposals, and one of bob, who abstains.
ChangeOfMind ==
  Voting("changeOfMind", <<[Entry("alice", Both(1, 1)) EXCEPT !.power = 3]>>)

BobAbstains ==
  [Voting("bobAbstains", <<Entry("bob", For("create", Abstain))>>) EXCEPT !.signers = {"bob"}]

ApiTxs == AllTxs \cup {ChangeOfMind, BobAbstains}

\* "join" is cancelled in the block of its creation, or later, or never.
ApiBodies ==
  {<<Create, Join>>, <<Create, Join, Cancel>>, <<VoteBoth>>,
   <<BobAbstains, Conclude>>, <<Revote, ChangeOfMind, Cancel>>}

FeesBodies == {<<Create, Join>>, <<Cancel>>, <<VoteBoth>>}

ResultsBodies == {<<Create>>, <<Revote>>, <<VoteBoth, BobAbstains>>}
=============================================================================
