--------------------------- MODULE AggregatorIndex ---------------------------
(***************************************************************************)
(* The aggregator implements the index of GovernanceIndex: the blocks it   *)
(* covers are those with a row, the tables are the committed ones without  *)
(* the autoincrement ids and the verification state of votes.              *)
(***************************************************************************)
EXTENDS Aggregator

Indexed(d) == {r.hash : r \in d.block}

VoteFacts(v) ==
  [owner |-> v.owner, proposal |-> v.proposal, poll |-> v.poll, choice |-> v.choice,
   power |-> v.power, tx |-> v.tx, slot |-> v.slot]

TablesIn(d) ==
  [tx |-> d.tx, poll |-> d.poll, proposal |-> d.proposal, state |-> d.state,
   vote |-> {VoteFacts(v) : v \in d.vote}]

Index == INSTANCE GovernanceIndex WITH indexed <- Indexed(db), tables <- TablesIn(db)

\* Every step of the aggregator adds one later block with exactly the rows it
\* justifies, takes the database back to what a prefix of its blocks says, or
\* leaves it alone, whatever the interleaving of handlers and failures.
ImplementsIndex == Index!Spec
=============================================================================
