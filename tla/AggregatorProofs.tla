-------------------------- MODULE AggregatorProofs --------------------------
(***************************************************************************)
(* Proofs about the aggregator, for every set of transactions and every    *)
(* bound: first about one database, whose rows are never older than the    *)
(* rows they refer to; then about the database beside the chain it         *)
(* follows.                                                                *)
(***************************************************************************)
EXTENDS AggregatorIndex, FiniteSetTheorems, TLAPS
(***************************************************************************)
(* The database.  The inductive invariant joins the type invariant with    *)
(* the order of slots: nothing in the database is later than the block     *)
(* being handled.                                                          *)
(***************************************************************************)
IdsBounded(rows) == \E n \in Nat : \A r \in rows : r.id <= n

\* An older or equally old row of the table with this hash.
Parent(table, hash, slot) == \E q \in table : q.hash = hash /\ q.slot <= slot

HasBlock(d, slot) == \E b \in d.block : b.slot = slot

RowsOrdered(d) ==
  /\ \A b \in d.block : b.slot = b.hash.slot
  /\ \A r \in d.tx : HasBlock(d, r.slot)
  /\ \A r \in d.poll : HasBlock(d, r.slot)
  /\ \A r \in d.proposal : /\ HasBlock(d, r.slot)
                           /\ Parent(d.poll, r.poll, r.slot)
                           /\ Parent(d.tx, r.hash, r.slot)
  /\ \A r \in d.state : /\ HasBlock(d, r.slot)
                        /\ Parent(d.proposal, r.proposal, r.slot)
                        /\ Parent(d.tx, r.tx, r.slot)
  /\ \A r \in d.vote : /\ HasBlock(d, r.slot)
                       /\ Parent(d.proposal, r.proposal, r.slot)
                       /\ Parent(d.tx, r.tx, r.slot)
                       /\ Parent(d.poll, r.poll, r.slot)

BlocksUpTo(d, slot) == \A b \in d.block : b.slot <= slot

BlockIdsOrdered(d) ==
  \A a, b \in d.block : a.id < b.id <=> a.slot < b.slot

DbOK(d) ==
  /\ d \in Database
  /\ IdsBounded(d.block) /\ IdsBounded(d.vote)
  /\ RowsOrdered(d)
  /\ BlockIdsOrdered(d)

ChainOK ==
  /\ \A i \in 1 .. Len(chain) : chain[i].slot > 0
  /\ \A i, j \in 1 .. Len(chain) : i < j => chain[i].slot < chain[j].slot

CursorOK ==
  /\ Awaits(FALSE) => BlocksUpTo(db, PointAt(sent).slot)
  /\ pc = "insert" => /\ BlocksUpTo(db, current.slot)
                      /\ BlocksUpTo(work, current.slot)
                      /\ HasBlock(work, current.slot)
                      /\ ~mustRollBack => sent > 0 /\ current = chain[sent]
  /\ pc = "rollback" => /\ point \in Block
                        /\ ~mustRollBack => point = PointAt(sent)
  /\ pc # "insert" => at = 0
  /\ todo # {} => pc = "insert" /\ at > 0 /\ todo \subseteq 0 .. Len(current.body[at].votes)

IInv == TypeOK /\ DbOK(db) /\ DbOK(work) /\ ChainOK /\ CursorOK
-----------------------------------------------------------------------------
(* Ids. *)

\* A nonempty bounded set of natural numbers has a largest element.
LEMMA LargestNat ==
  ASSUME NEW S, S \subseteq Nat, S # {}, NEW n \in Nat, \A i \in S : i <= n
  PROVE  \E i \in S : \A j \in S : j <= i
<1> DEFINE T == {m \in Nat : n - m \in S}
<1>1. T # {}
  <2>1. PICK i \in S : TRUE
    OBVIOUS
  <2>2. n - i \in T
    OBVIOUS
  <2> QED  BY <2>2
<1>2. PICK x \in T : \A y \in T : ~(<<y, x>> \in OpToRel(<, Nat))
  BY <1>1, NatLessThanWellFounded, WFMin
<1>3. \A j \in S : j <= n - x
  <2> TAKE j \in S
  <2>1. n - j \in T /\ x \in Nat
    OBVIOUS
  <2>2. ~(n - j < x)
    BY <1>2, <2>1 DEF OpToRel
  <2> QED  BY <2>1, <2>2
<1> QED  BY <1>3

\* A new row's id is larger than every id of its table, and ids stay bounded.
LEMMA NextIdFresh ==
  ASSUME NEW rows, \A r \in rows : r.id \in Nat, IdsBounded(rows)
  PROVE  /\ NextId(rows) \in Nat
         /\ \A r \in rows : r.id < NextId(rows)
<1>1. CASE rows = {}
  BY <1>1 DEF NextId
<1>2. CASE rows # {}
  <2> DEFINE ids == {r.id : r \in rows}
  <2>1. ids \subseteq Nat /\ ids # {}
    BY <1>2
  <2>2. PICK n \in Nat : \A i \in ids : i <= n
    BY DEF IdsBounded
  <2>3. \E i \in ids : \A j \in ids : j <= i
    <3> HIDE DEF ids
    <3> QED  BY <2>1, <2>2, LargestNat
  <2>4. MaxId(rows) \in ids /\ \A j \in ids : j <= MaxId(rows)
    BY <2>3 DEF MaxId
  <2>5. \A r \in rows : r.id <= MaxId(rows)
    BY <2>4
  <2> QED  BY <1>2, <2>1, <2>4, <2>5 DEF NextId
<1> QED  BY <1>1, <1>2
-----------------------------------------------------------------------------
(* The statements keep the database well formed. *)

\* The database before the statement of a transaction in a block at slot.
Ready(d, slot) == DbOK(d) /\ slot \in Nat /\ BlocksUpTo(d, slot) /\ HasBlock(d, slot)

\* The database a process starts from.
LEMMA EmptyDbOK == DbOK(EmptyDb)
<1>1. EmptyDb \in Database
  BY DEF EmptyDb, Database
<1>2. IdsBounded(EmptyDb.block) /\ IdsBounded(EmptyDb.vote)
  BY DEF EmptyDb, IdsBounded
<1>3. RowsOrdered(EmptyDb) /\ BlockIdsOrdered(EmptyDb)
  BY DEF EmptyDb, RowsOrdered, BlockIdsOrdered
<1> QED  BY <1>1, <1>2, <1>3 DEF DbOK

\* A block later than every other gets the next id.
LEMMA InsertBlockOK ==
  ASSUME NEW d, DbOK(d), NEW b \in Block, \A c \in d.block : c.slot < b.slot
  PROVE  /\ DbOK(InsertBlock(d, b))
         /\ BlocksUpTo(InsertBlock(d, b), b.slot)
         /\ HasBlock(InsertBlock(d, b), b.slot)
<1> DEFINE row == [id |-> NextId(d.block), hash |-> b, slot |-> b.slot]
           e == InsertBlock(d, b)
<1>1. NextId(d.block) \in Nat /\ \A r \in d.block : r.id < NextId(d.block)
  BY NextIdFresh DEF DbOK, Database, BlockRows
<1>2. b.slot \in Nat /\ row \in BlockRows
  BY <1>1 DEF Block, BlockRows
<1>3. /\ e \in Database
      /\ e.block = d.block \cup {row}
      /\ e.tx = d.tx /\ e.poll = d.poll /\ e.proposal = d.proposal
      /\ e.state = d.state /\ e.vote = d.vote
  BY <1>2 DEF DbOK, Database, InsertBlock
<1>4. \A r \in d.block : r.id \in Nat /\ r.slot \in Nat
  BY DEF DbOK, Database, BlockRows
<1> HIDE DEF e
<1>5. IdsBounded(e.block) /\ IdsBounded(e.vote)
  <2>1. \A r \in e.block : r.id <= NextId(d.block)
    BY <1>1, <1>3, <1>4
  <2> QED  BY <1>1, <1>3, <2>1 DEF DbOK, IdsBounded
<1>6. RowsOrdered(e)
  BY <1>3 DEF DbOK, RowsOrdered, HasBlock
<1>7. BlockIdsOrdered(e)
  BY <1>1, <1>2, <1>3, <1>4 DEF DbOK, BlockIdsOrdered
<1>8. BlocksUpTo(e, b.slot) /\ HasBlock(e, b.slot)
  BY <1>2, <1>3, <1>4 DEF BlocksUpTo, HasBlock
<1> QED  BY <1>3, <1>5, <1>6, <1>7, <1>8 DEF DbOK, e

\* The fields of a transaction, from TxsAssumption.
LEMMA TxFacts ==
  ASSUME NEW t \in Txs
  PROVE  /\ t.hash \in TxHash /\ t.fee \in Nat /\ t.manage \in ManageOp
         /\ t.deposit.index \in Nat
         /\ \A i \in 1 .. Len(t.votes) :
              /\ t.votes[i].poll \in TxHash /\ t.votes[i].owner \in STRING
              /\ t.votes[i].power \in Nat
              /\ \A h \in DOMAIN t.votes[i].choices : t.votes[i].choices[h] \in Int
BY TxsAssumption DEF TxHash

\* The row of a transaction has the block it is in.
LEMMA UpsertTransactionOK ==
  ASSUME NEW d, NEW t \in Txs, NEW slot, Ready(d, slot)
  PROVE  LET u == UpsertTransaction(d, t, slot)
         IN  /\ Ready(u, slot)
             /\ Parent(u.tx, t.hash, slot)
             /\ u.poll = d.poll /\ u.proposal = d.proposal
             /\ u.block = d.block /\ u.state = d.state /\ u.vote = d.vote
<1> DEFINE u == UpsertTransaction(d, t, slot)
           row == [hash |-> t.hash, fee |-> t.fee, slot |-> slot]
<1>1. CASE \E r \in d.tx : r.hash = t.hash
  <2>1. u = d
    BY <1>1 DEF UpsertTransaction
  <2>2. Parent(d.tx, t.hash, slot)
    BY <1>1 DEF Ready, DbOK, RowsOrdered, HasBlock, BlocksUpTo, Parent
  <2> QED  BY <2>1, <2>2
<1>2. CASE ~\E r \in d.tx : r.hash = t.hash
  <2>1. row \in TxRows
    BY TxFacts DEF Ready, TxRows
  <2>2. /\ u \in Database
        /\ u.tx = d.tx \cup {row}
        /\ u.block = d.block /\ u.poll = d.poll /\ u.proposal = d.proposal
        /\ u.state = d.state /\ u.vote = d.vote
    BY <1>2, <2>1 DEF Ready, DbOK, Database, UpsertTransaction
  <2> HIDE DEF u
  <2>3. RowsOrdered(u)
    BY <2>2 DEF Ready, DbOK, RowsOrdered, HasBlock, Parent
  <2>4. Parent(u.tx, t.hash, slot)
    <3>1. row \in u.tx /\ row.hash = t.hash /\ row.slot <= slot
      BY <2>2 DEF Ready
    <3> HIDE DEF row
    <3> QED  BY <3>1 DEF Parent
  <2>5. Ready(u, slot)
    BY <2>2, <2>3 DEF Ready, DbOK, BlockIdsOrdered, BlocksUpTo, HasBlock
  <2> QED  BY <2>2, <2>4, <2>5 DEF u
<1> QED  BY <1>1, <1>2

\* The rows a creation adds have their parents.
LEMMA AddProposalOK ==
  ASSUME NEW d, NEW t \in Txs, NEW slot, Ready(d, slot)
  PROVE  Ready(AddProposal(d, t, slot), slot) /\ AddProposal(d, t, slot).block = d.block
<1> DEFINE u == UpsertTransaction(d, t, slot)
           fresh == t.manage.assigned = NoTx
           row == ProposalRow(t, slot)
           available == StateRow(t.hash, t.hash, slot, "AVAILABLE")
           e == AddProposal(d, t, slot)
<1>1. /\ Ready(u, slot) /\ Parent(u.tx, t.hash, slot)
      /\ u.poll = d.poll /\ u.block = d.block
  BY UpsertTransactionOK
<1>2. CASE ~DepositSuffices(t) \/ (~fresh /\ ~\E p \in d.poll : p.hash = t.manage.assigned)
  BY <1>1, <1>2 DEF AddProposal, PollConnects
<1>3. CASE DepositSuffices(t) /\ (fresh \/ \E p \in d.poll : p.hash = t.manage.assigned)
  <2> DEFINE polls == IF fresh THEN u.poll \cup {PollRow(t, slot)} ELSE u.poll
  <2>1. PollRow(t, slot) \in PollRows
    BY TxFacts DEF PollRow, PollRows, ManageOp, Ready
  <2>2. row.poll \in TxHash /\ row \in ProposalRows
    BY TxFacts DEF ProposalRow, ProposalRows, ManageOp, Ready
  <2>3. available \in StateRows
    BY TxFacts DEF StateRow, StateRows, Ready
  <2>4. e = [u EXCEPT !.poll = polls,
                      !.proposal = u.proposal \cup {row},
                      !.state = u.state \cup {available}]
    BY <1>3 DEF AddProposal, PollConnects
  <2>5. /\ e \in Database
        /\ e.poll = polls /\ e.proposal = u.proposal \cup {row}
        /\ e.state = u.state \cup {available}
        /\ e.block = u.block /\ e.tx = u.tx /\ e.vote = u.vote
    <3>1. u \in Database
      BY <1>1 DEF Ready, DbOK
    <3>2. polls \in SUBSET PollRows
      BY <2>1, <3>1 DEF Database
    <3> HIDE DEF e, u, polls, row, available
    <3> QED  BY <2>2, <2>3, <2>4, <3>1, <3>2 DEF Database
  <2>6. \E q \in polls : q.hash = row.poll /\ q.slot <= slot
    <3>1. CASE fresh
      <4>1. PollRow(t, slot).hash = row.poll /\ PollRow(t, slot).slot <= slot
        BY <3>1 DEF PollRow, ProposalRow, Ready
      <4> QED  BY <3>1, <4>1
    <3>2. CASE ~fresh
      <4>1. PICK p \in u.poll : p.hash = t.manage.assigned
        BY <1>1, <1>3, <3>2
      <4>2. p.slot <= slot
        BY <1>1 DEF Ready, DbOK, RowsOrdered, HasBlock, BlocksUpTo
      <4> QED  BY <3>2, <4>1, <4>2 DEF ProposalRow
    <3> QED  BY <3>1, <3>2
  <2>7. /\ row.hash = t.hash /\ row.slot = slot
        /\ available.proposal = t.hash /\ available.tx = t.hash /\ available.slot = slot
        /\ (fresh => PollRow(t, slot).slot = slot)
    BY DEF ProposalRow, StateRow, PollRow
  <2>8. RowsOrdered(e)
    <3>1. RowsOrdered(u) /\ HasBlock(u, slot) /\ slot \in Nat
      BY <1>1 DEF Ready, DbOK
    <3>2. \A r \in e.poll : HasBlock(e, r.slot)
      BY <2>5, <2>7, <3>1 DEF RowsOrdered, HasBlock
    <3>3. \A r \in e.proposal : /\ HasBlock(e, r.slot) /\ Parent(e.poll, r.poll, r.slot)
                                 /\ Parent(e.tx, r.hash, r.slot)
      <4>1. \A r \in u.proposal : /\ HasBlock(e, r.slot) /\ Parent(e.poll, r.poll, r.slot)
                                   /\ Parent(e.tx, r.hash, r.slot)
        <5> HIDE DEF e, u, row, available
        <5> QED  BY <2>5, <3>1 DEF RowsOrdered, HasBlock, Parent
      <4>2. HasBlock(e, row.slot) /\ Parent(e.poll, row.poll, row.slot) /\ Parent(e.tx, row.hash, row.slot)
        <5> HIDE DEF e, u, row, available, polls
        <5> QED  BY <1>1, <2>5, <2>6, <2>7, <3>1 DEF HasBlock, Parent
      <4> QED  BY <2>5, <4>1, <4>2
    <3>4. \A r \in e.state : /\ HasBlock(e, r.slot) /\ Parent(e.proposal, r.proposal, r.slot)
                              /\ Parent(e.tx, r.tx, r.slot)
      <4> HIDE DEF e, u, row, available, polls
      <4> QED  BY <1>1, <2>5, <2>7, <3>1 DEF RowsOrdered, HasBlock, Parent
    <3>5. \A r \in e.vote : /\ HasBlock(e, r.slot) /\ Parent(e.proposal, r.proposal, r.slot)
                             /\ Parent(e.tx, r.tx, r.slot) /\ Parent(e.poll, r.poll, r.slot)
      <4>1. u.poll \subseteq e.poll
        BY <2>5
      <4> HIDE DEF e, u, row, available, polls
      <4> QED  BY <2>5, <3>1, <4>1 DEF RowsOrdered, HasBlock, Parent
    <3> HIDE DEF e, u, row, available, polls
    <3> QED  BY <2>5, <3>1, <3>2, <3>3, <3>4, <3>5 DEF RowsOrdered, HasBlock
  <2> HIDE DEF e, u, row, available, polls
  <2>9. Ready(e, slot) /\ e.block = d.block
    BY <1>1, <2>5, <2>8 DEF Ready, DbOK, BlockIdsOrdered, BlocksUpTo, HasBlock
  <2> QED  BY <2>9 DEF e
<1> QED  BY <1>2, <1>3

\* So has the state a closing adds.
LEMMA CloseProposalOK ==
  ASSUME NEW d, NEW t \in Txs, NEW slot, Ready(d, slot),
         NEW status \in {"AVAILABLE", "CANCELLED", "PASSED", "FAILED"}
  PROVE  /\ Ready(CloseProposal(d, t, slot, status), slot)
         /\ CloseProposal(d, t, slot, status).block = d.block
<1> DEFINE u == UpsertTransaction(d, t, slot)
           row == StateRow(t.manage.target, t.manage.target, slot, status)
           e == CloseProposal(d, t, slot, status)
<1>1. CASE ~\E p \in d.proposal : p.hash = t.manage.target /\ Spends(t, p)
  BY <1>1 DEF CloseProposal, ClosesProposal
<1>2. CASE \E p \in d.proposal : p.hash = t.manage.target /\ Spends(t, p)
  <2>1. /\ Ready(u, slot) /\ u.block = d.block /\ u.proposal = d.proposal
    BY UpsertTransactionOK
  <2>2. PICK p \in u.proposal : p.hash = t.manage.target
    BY <1>2, <2>1
  <2>3. /\ p.slot \in Nat /\ p.slot <= slot /\ p.hash \in TxHash
    BY <2>1 DEF Ready, DbOK, Database, ProposalRows, RowsOrdered, HasBlock, BlocksUpTo
  <2>4. PICK q \in u.tx : q.hash = p.hash /\ q.slot <= p.slot
    BY <2>1 DEF Ready, DbOK, RowsOrdered, Parent
  <2>5. q.slot \in Nat
    BY <2>1 DEF Ready, DbOK, Database, TxRows
  <2>6. row.proposal = p.hash /\ row.tx = p.hash /\ row.slot = slot /\ row \in StateRows
    BY <2>1, <2>2, <2>3 DEF StateRow, StateRows, Ready
  <2>7. Parent(u.proposal, row.proposal, slot) /\ Parent(u.tx, row.tx, slot)
    <3>1. q.slot <= slot
      BY <2>1, <2>3, <2>4, <2>5 DEF Ready
    <3> HIDE DEF u, row
    <3> QED  BY <2>3, <2>4, <2>6, <3>1 DEF Parent
  <2>8. /\ e \in Database
        /\ e.state = u.state \cup {row}
        /\ e.block = u.block /\ e.tx = u.tx /\ e.poll = u.poll
        /\ e.proposal = u.proposal /\ e.vote = u.vote
    <3>1. u \in Database /\ e = [u EXCEPT !.state = u.state \cup {row}]
      BY <1>2, <2>1 DEF CloseProposal, ClosesProposal, Ready, DbOK
    <3> HIDE DEF e, u, row
    <3> QED  BY <2>6, <3>1 DEF Database
  <2> HIDE DEF e, u, row
  <2>9. RowsOrdered(e)
    BY <2>1, <2>6, <2>7, <2>8 DEF RowsOrdered, HasBlock, Ready, DbOK
  <2>10. Ready(e, slot) /\ e.block = d.block
    BY <2>1, <2>8, <2>9 DEF Ready, DbOK, BlockIdsOrdered, BlocksUpTo, HasBlock
  <2> QED  BY <2>10 DEF e
<1> QED  BY <1>1, <1>2

\* Whatever becomes of a governance operation, the keys stay.
LEMMA ProcessGovernanceOK ==
  ASSUME NEW d, NEW t \in Txs, NEW slot, Ready(d, slot)
  PROVE  /\ Ready(ProcessGovernance(d, t, slot), slot)
         /\ ProcessGovernance(d, t, slot).block = d.block
<1>1. CASE t.manage.op = "addProposal"
  BY <1>1, AddProposalOK DEF ProcessGovernance
<1>2. CASE t.manage.op = "concludeProposal"
  <2>1. (IF t.manage.passed THEN "PASSED" ELSE "FAILED")
           \in {"PASSED", "FAILED"}
    OBVIOUS
  <2>2. ProcessGovernance(d, t, slot) = ConcludeProposal(d, t, slot)
    BY <1>2 DEF ProcessGovernance
  <2>3. \A status \in {"PASSED", "FAILED"} :
          /\ Ready(CloseProposal(d, t, slot, status), slot)
          /\ CloseProposal(d, t, slot, status).block = d.block
    <3> TAKE status \in {"PASSED", "FAILED"}
    <3>1. status \in {"AVAILABLE", "CANCELLED", "PASSED", "FAILED"}
      OBVIOUS
    <3> QED  BY <3>1, CloseProposalOK
  <2> QED  BY <2>1, <2>2, <2>3 DEF ConcludeProposal
<1>3. CASE t.manage.op = "cancelProposal"
  <2>1. ProcessGovernance(d, t, slot) = CloseProposal(d, t, slot, "CANCELLED")
    BY <1>3 DEF ProcessGovernance, CancelProposal
  <2>2. "CANCELLED" \in {"AVAILABLE", "CANCELLED", "PASSED", "FAILED"}
    OBVIOUS
  <2>3. /\ Ready(CloseProposal(d, t, slot, "CANCELLED"), slot)
        /\ CloseProposal(d, t, slot, "CANCELLED").block = d.block
    BY <2>2, CloseProposalOK
  <2> QED  BY <2>1, <2>3
<1>4. CASE t.manage.op \notin {"addProposal", "concludeProposal", "cancelProposal"}
  BY <1>4 DEF ProcessGovernance
<1> QED  BY <1>1, <1>2, <1>3, <1>4

\* The rows of an accepted vote have the poll, the proposals and the
\* transaction they name.
LEMMA InsertPollVoteOK ==
  ASSUME NEW d, NEW t \in Txs, NEW slot, Ready(d, slot),
         NEW i \in 1 .. Len(t.votes), VoteAccepted(d, t, t.votes[i], slot)
  PROVE  /\ Ready(InsertPollVote(d, t, t.votes[i], slot), slot)
         /\ InsertPollVote(d, t, t.votes[i], slot).block = d.block
<1> DEFINE u == UpsertTransaction(d, t, slot)
           x == t.votes[i]
           rows == RowsOfVote(d, t, x, slot)
           e == InsertPollVote(d, t, x, slot)
<1>1. /\ Ready(u, slot) /\ Parent(u.tx, t.hash, slot)
      /\ u.block = d.block /\ u.poll = d.poll /\ u.proposal = d.proposal
      /\ u.state = d.state /\ u.vote = d.vote
  BY UpsertTransactionOK
<1>2. NextId(d.vote) \in Nat /\ \A r \in d.vote : r.id < NextId(d.vote)
  BY NextIdFresh DEF Ready, DbOK, Database, VoteRows
<1>3. \A r \in rows :
        /\ r \in VoteRows
        /\ r.id = NextId(d.vote) /\ r.slot = slot /\ r.tx = t.hash /\ r.poll = x.poll
        /\ \E p \in d.proposal : r.proposal = p.hash
  <2> TAKE r \in rows
  <2>1. PICK p \in d.proposal :
          /\ p.hash \in DOMAIN x.choices
          /\ r = [id |-> NextId(d.vote), owner |-> x.owner, proposal |-> p.hash,
                  poll |-> x.poll, choice |-> x.choices[p.hash], power |-> x.power,
                  tx |-> t.hash, slot |-> slot, verification |-> "UNVERIFIED"]
    BY DEF RowsOfVote
  <2>2. p.hash \in TxHash /\ slot \in Nat
    BY DEF Ready, DbOK, Database, ProposalRows
  <2>3. /\ t.hash \in TxHash /\ x.poll \in TxHash /\ x.owner \in STRING
        /\ x.power \in Nat /\ x.choices[p.hash] \in Int
    BY <2>1, TxFacts
  <2> HIDE DEF x
  <2> QED  BY <1>2, <2>1, <2>2, <2>3 DEF VoteRows
<1>4. /\ e \in Database
      /\ e.vote = u.vote \cup rows
      /\ e.block = u.block /\ e.tx = u.tx /\ e.poll = u.poll
      /\ e.proposal = u.proposal /\ e.state = u.state
  <2>1. u \in Database /\ e = [u EXCEPT !.vote = u.vote \cup rows] /\ rows \subseteq VoteRows
    BY <1>1, <1>3 DEF InsertPollVote, Ready, DbOK
  <2> HIDE DEF e, u, rows
  <2> QED  BY <2>1 DEF Database
<1>5. \A r \in rows : /\ HasBlock(u, r.slot) /\ Parent(u.proposal, r.proposal, r.slot)
                       /\ Parent(u.tx, r.tx, r.slot) /\ Parent(u.poll, r.poll, r.slot)
  <2>1. HasBlock(u, slot)
    BY <1>1 DEF Ready
  <2>2. \A p \in u.proposal : p.slot <= slot
    BY <1>1 DEF Ready, DbOK, RowsOrdered, HasBlock, BlocksUpTo
  <2>3. \A p \in u.poll : p.slot <= slot
    BY <1>1 DEF Ready, DbOK, RowsOrdered, HasBlock, BlocksUpTo
  <2>4. Parent(u.poll, x.poll, slot)
    BY <1>1, <2>3 DEF VoteAccepted, Parent
  <2> HIDE DEF u, rows, x
  <2> QED  BY <1>1, <1>3, <2>1, <2>2, <2>4 DEF Parent
<1>6. IdsBounded(e.vote)
  <2>1. \A r \in d.vote : r.id \in Nat
    BY DEF Ready, DbOK, Database, VoteRows
  <2>2. \A r \in e.vote : r.id <= NextId(d.vote)
    <3> HIDE DEF e, u, rows
    <3> QED  BY <1>1, <1>2, <1>3, <1>4, <2>1
  <2> QED  BY <1>2, <2>2 DEF IdsBounded
<1> HIDE DEF e, u, rows
<1>7. RowsOrdered(e)
  BY <1>1, <1>4, <1>5 DEF RowsOrdered, HasBlock, Ready, DbOK
<1>8. Ready(e, slot) /\ e.block = d.block
  BY <1>1, <1>4, <1>6, <1>7 DEF Ready, DbOK, BlockIdsOrdered, BlocksUpTo, HasBlock
<1> QED  BY <1>8 DEF e

\* Deleting the blocks after a slot keeps, of each table, the rows up to it.
LEMMA DeletionIsExact ==
  ASSUME NEW d, DbOK(d), NEW slot \in Int
  PROVE  DeleteBlocksAfter(d, slot) = [table \in DOMAIN d |-> {r \in d[table] : r.slot <= slot}]
<1> DEFINE e == DeleteBlocksAfter(d, slot)
           Upto(rows) == {r \in rows : r.slot <= slot}
           Kept(rows) == {r \in rows : \E b \in d.block : b.slot = r.slot /\ b.slot <= slot}
<1>0. d = [block |-> d.block, tx |-> d.tx, poll |-> d.poll, proposal |-> d.proposal,
           state |-> d.state, vote |-> d.vote]
  BY DEF DbOK, Database
<1>1. /\ \A r \in d.tx : r.slot \in Nat /\ HasBlock(d, r.slot)
      /\ \A r \in d.poll : r.slot \in Nat /\ HasBlock(d, r.slot)
      /\ \A r \in d.proposal : r.slot \in Nat /\ HasBlock(d, r.slot)
      /\ \A r \in d.state : r.slot \in Nat /\ HasBlock(d, r.slot)
      /\ \A r \in d.vote : r.slot \in Nat /\ HasBlock(d, r.slot)
  BY DEF DbOK, Database, RowsOrdered, TxRows, PollRows, ProposalRows, StateRows, VoteRows
<1>2. /\ Kept(d.tx) = Upto(d.tx) /\ Kept(d.poll) = Upto(d.poll)
      /\ Kept(d.proposal) = Upto(d.proposal) /\ Kept(d.state) = Upto(d.state)
      /\ Kept(d.vote) = Upto(d.vote)
  BY <1>1 DEF HasBlock
<1>3. e.tx = Upto(d.tx) /\ e.poll = Upto(d.poll) /\ e.block = Upto(d.block)
  BY <1>2 DEF DeleteBlocksAfter
<1>4. \A r \in Upto(d.proposal) : \E q \in Upto(d.poll) : q.hash = r.poll
  BY <1>1 DEF DbOK, RowsOrdered, Parent
<1>5. e.proposal = Upto(d.proposal)
  BY <1>2, <1>4 DEF DeleteBlocksAfter
<1>6. \A r \in Upto(d.state) : /\ \E q \in Upto(d.proposal) : q.hash = r.proposal
                               /\ \E q \in Upto(d.tx) : q.hash = r.tx
  BY <1>1 DEF DbOK, RowsOrdered, Parent
<1>7. e.state = Upto(d.state)
  BY <1>2, <1>4, <1>6 DEF DeleteBlocksAfter
<1>8. \A r \in Upto(d.vote) : /\ \E q \in Upto(d.proposal) : q.hash = r.proposal
                              /\ \E q \in Upto(d.tx) : q.hash = r.tx
                              /\ \E q \in Upto(d.poll) : q.hash = r.poll
  BY <1>1 DEF DbOK, RowsOrdered, Parent
<1>9. e.vote = Upto(d.vote)
  BY <1>2, <1>4, <1>8 DEF DeleteBlocksAfter
<1>10. e = [block |-> e.block, tx |-> e.tx, poll |-> e.poll, proposal |-> e.proposal,
            state |-> e.state, vote |-> e.vote]
  BY DEF DeleteBlocksAfter
<1> HIDE DEF e
<1>11. e = [table \in DOMAIN d |-> Upto(d[table])]
  BY <1>0, <1>3, <1>5, <1>7, <1>9, <1>10
<1> QED  BY <1>11 DEF e

\* A rollback leaves no row without its parents.
LEMMA DeletionOK ==
  ASSUME NEW d, DbOK(d), NEW slot \in Nat
  PROVE  DbOK(DeleteBlocksAfter(d, slot)) /\ BlocksUpTo(DeleteBlocksAfter(d, slot), slot)
<1> DEFINE e == DeleteBlocksAfter(d, slot)
           Upto(rows) == {r \in rows : r.slot <= slot}
<1>1. d \in Database
  BY DEF DbOK
<1>2. e = [table \in DOMAIN d |-> Upto(d[table])]
  BY DeletionIsExact
<1> HIDE DEF e
<1>3. DOMAIN d = {"block", "tx", "poll", "proposal", "state", "vote"}
  BY <1>1 DEF Database
<1>4. /\ e.block = Upto(d.block) /\ e.tx = Upto(d.tx) /\ e.poll = Upto(d.poll)
      /\ e.proposal = Upto(d.proposal) /\ e.state = Upto(d.state) /\ e.vote = Upto(d.vote)
  BY <1>2, <1>3
<1>5. e = [block |-> e.block, tx |-> e.tx, poll |-> e.poll, proposal |-> e.proposal,
           state |-> e.state, vote |-> e.vote]
  BY DEF e, DeleteBlocksAfter
<1>6. e \in Database
  BY <1>1, <1>4, <1>5 DEF Database
<1>7. IdsBounded(e.block) /\ IdsBounded(e.vote)
  BY <1>4 DEF DbOK, IdsBounded
<1>8. BlockIdsOrdered(e) /\ BlocksUpTo(e, slot)
  BY <1>4 DEF DbOK, BlockIdsOrdered, BlocksUpTo
<1>9. RowsOrdered(e)
  <2>1. /\ \A r \in d.tx : r.slot \in Nat
        /\ \A r \in d.poll : r.slot \in Nat
        /\ \A r \in d.proposal : r.slot \in Nat
        /\ \A r \in d.state : r.slot \in Nat
        /\ \A r \in d.vote : r.slot \in Nat
    BY <1>1 DEF Database, TxRows, PollRows, ProposalRows, StateRows, VoteRows
  <2>2. RowsOrdered(d)
    BY DEF DbOK
  <2>3. \A s \in Nat : s <= slot /\ HasBlock(d, s) => HasBlock(e, s)
    BY <1>4 DEF HasBlock
  <2>5. ASSUME NEW h, NEW s \in Nat, s <= slot
        PROVE  /\ Parent(d.tx, h, s) => Parent(e.tx, h, s)
               /\ Parent(d.poll, h, s) => Parent(e.poll, h, s)
               /\ Parent(d.proposal, h, s) => Parent(e.proposal, h, s)
    BY <1>4, <2>1, <2>5 DEF Parent
  <2>6. \A b \in e.block : b.slot = b.hash.slot
    BY <1>4, <2>2 DEF RowsOrdered
  <2>7. /\ \A r \in e.tx : HasBlock(e, r.slot)
        /\ \A r \in e.poll : HasBlock(e, r.slot)
    BY <1>4, <2>1, <2>2, <2>3 DEF RowsOrdered
  <2>8. \A r \in e.proposal : /\ HasBlock(e, r.slot) /\ Parent(e.poll, r.poll, r.slot)
                               /\ Parent(e.tx, r.hash, r.slot)
    BY <1>4, <2>1, <2>2, <2>3, <2>5 DEF RowsOrdered
  <2>9. \A r \in e.state : /\ HasBlock(e, r.slot) /\ Parent(e.proposal, r.proposal, r.slot)
                            /\ Parent(e.tx, r.tx, r.slot)
    BY <1>4, <2>1, <2>2, <2>3, <2>5 DEF RowsOrdered
  <2>10. \A r \in e.vote : /\ HasBlock(e, r.slot) /\ Parent(e.proposal, r.proposal, r.slot)
                            /\ Parent(e.tx, r.tx, r.slot) /\ Parent(e.poll, r.poll, r.slot)
    BY <1>4, <2>1, <2>2, <2>3, <2>5 DEF RowsOrdered
  <2> QED  BY <2>6, <2>7, <2>8, <2>9, <2>10 DEF RowsOrdered
<1> QED  BY <1>6, <1>7, <1>8, <1>9 DEF DbOK, e
-----------------------------------------------------------------------------
(* The invariant holds initially and every action preserves it. *)

\* The origin of the chain.
LEMMA GenesisType ==
  Genesis \in Block /\ Indexable(Genesis) /\ Genesis.body = <<>> /\ Genesis.slot = 0
<1>1. <<>> \in Seq(Txs)
  OBVIOUS
<1>2. <<>> \notin {NotPraos, NoTransactions}
  BY <1>1, BodiesAssumption
<1> QED  BY <1>2 DEF Genesis, Block, Indexable

\* The block under way has transactions.
LEMMA CurrentTx ==
  ASSUME TypeOK
  PROVE  /\ current.body \in Seq(Txs)
         /\ \A i \in 1 .. Len(current.body) : current.body[i] \in Txs
<1>1. current.body \in Bodies \cup {<<>>} /\ current.body \notin {NotPraos, NoTransactions}
  BY DEF TypeOK, Block, Indexable
<1>2. <<>> \in Seq(Txs)
  OBVIOUS
<1>3. current.body \in Seq(Txs)
  BY <1>1, <1>2, AggregatorAssumption
<1> QED  BY <1>3

\* A point on the chain is a block.
LEMMA PointType ==
  ASSUME TypeOK, NEW i \in 0 .. Len(chain)
  PROVE  PointAt(i) \in Block
<1>1. Genesis \in Block
  BY GenesisType
<1>2. CASE i = 0
  BY <1>1, <1>2 DEF PointAt
<1>3. CASE i # 0
  <2>1. chain \in Seq(Block) /\ i \in 1 .. Len(chain)
    BY <1>3 DEF TypeOK
  <2>2. chain[i] \in Block
    BY <2>1
  <2> QED  BY <1>3, <2>2 DEF PointAt
<1> QED  BY <1>2, <1>3

\* Slots on the chain are numbers.
LEMMA ChainSlots ==
  ASSUME TypeOK, NEW i \in 1 .. Len(chain)
  PROVE  chain[i].slot \in Nat
<1>1. chain[i] \in Block
  BY DEF TypeOK
<1> QED  BY <1>1 DEF Block

\* The invariant holds at the start; then one lemma for each step.
LEMMA InitIInv == Init => IInv
<1> SUFFICES ASSUME Init PROVE IInv
  OBVIOUS
<1>1. DbOK(db) /\ DbOK(work)
  BY EmptyDbOK DEF Init
<1>2. TypeOK
  <2>1. chain \in Seq(Block) /\ Len(chain) = 0
    BY DEF Init
  <2>2. current \in Block /\ Indexable(current) /\ Len(current.body) = 0
    BY GenesisType DEF Init
  <2>3. minted \in 0 .. MaxBlocks /\ failures \in 0 .. MaxFailures
    BY AggregatorAssumption DEF Init
  <2>4. /\ immutable \in 0 .. Len(chain) /\ sent \in 0 .. Len(chain)
        /\ at \in 0 .. Len(current.body)
    BY <2>1, <2>2 DEF Init
  <2>5. /\ mustRollBack \in BOOLEAN /\ aborted \in BOOLEAN
        /\ pc \in {"down", "resuming", "stuck", "idle", "insert", "rollback"}
        /\ todo \in SUBSET Nat
        /\ point \in Block \cup {NoBlock} /\ latestBlock \in Block \cup {NoBlock}
    BY DEF Init
  <2>6. db \in Database /\ work \in Database
    BY <1>1 DEF DbOK
  <2> QED  BY <2>1, <2>2, <2>3, <2>4, <2>5, <2>6 DEF TypeOK
<1>3. ChainOK /\ CursorOK
  BY DEF Init, ChainOK, CursorOK, Awaits
<1> QED  BY <1>1, <1>2, <1>3 DEF IInv

LEMMA MintStep ==
  ASSUME IInv, NEW body \in Bodies, NEW slot \in 1 .. MaxSlot, Mint(body, slot)
  PROVE  IInv'
<1> DEFINE b == [n |-> minted + 1, slot |-> slot, body |-> body]
<1>1. /\ chain \in Seq(Block) /\ Len(chain) \in Nat /\ minted \in Nat
      /\ sent \in 0 .. Len(chain) /\ immutable \in 0 .. Len(chain)
  BY DEF IInv, TypeOK
<1>2. b \in Block /\ b.slot = slot /\ slot \in Nat /\ slot > 0
  BY <1>1, AggregatorAssumption DEF Block
<1>3. chain' = Append(chain, b) /\ PointAt(Len(chain)).slot < slot
  BY DEF Mint
<1> HIDE DEF b
<1>4. /\ chain' \in Seq(Block) /\ Len(chain') = Len(chain) + 1
      /\ \A i \in 1 .. Len(chain) : chain'[i] = chain[i]
      /\ chain'[Len(chain) + 1] = b
  BY <1>1, <1>2, <1>3
<1>5. /\ immutable' \in 0 .. Len(chain') /\ minted' \in 0 .. MaxBlocks
  BY <1>1, <1>3, <1>4, AggregatorAssumption DEF Mint, Larger, b
<1>6. TypeOK'
  BY <1>1, <1>4, <1>5 DEF IInv, TypeOK, Mint, linkVars, txVars
<1>7. ChainOK'
  <2>1. \A i \in 1 .. Len(chain) : chain[i].slot \in Nat
    BY <1>1, ChainSlots DEF IInv
  <2>2. ASSUME NEW i \in 1 .. Len(chain) PROVE chain[i].slot < slot
    <3>1. PointAt(Len(chain)) = chain[Len(chain)] /\ Len(chain) \in 1 .. Len(chain)
      BY <1>1 DEF PointAt
    <3>2. i = Len(chain) \/ chain[i].slot < chain[Len(chain)].slot
      BY <1>1, <3>1 DEF IInv, ChainOK
    <3> QED  BY <1>2, <1>3, <2>1, <3>1, <3>2
  <2>3. ASSUME NEW i \in 1 .. Len(chain'), NEW j \in 1 .. Len(chain'), i < j
        PROVE  chain'[i].slot < chain'[j].slot
    <3>1. i \in 1 .. Len(chain) /\ chain'[i] = chain[i]
      BY <1>1, <1>4, <2>3
    <3>2. CASE j \in 1 .. Len(chain)
      BY <1>4, <2>3, <3>1, <3>2 DEF IInv, ChainOK
    <3>3. CASE j = Len(chain) + 1
      BY <1>2, <1>4, <2>2, <3>1, <3>3
    <3> QED  BY <1>1, <1>4, <3>2, <3>3
  <2>4. ASSUME NEW i \in 1 .. Len(chain') PROVE chain'[i].slot > 0
    <3>1. CASE i \in 1 .. Len(chain)
      BY <1>4, <3>1 DEF IInv, ChainOK
    <3>2. CASE i = Len(chain) + 1
      BY <1>2, <1>4, <3>2
    <3> QED  BY <1>1, <1>4, <3>1, <3>2
  <2> QED  BY <2>3, <2>4 DEF ChainOK
<1>8. PointAt(sent)' = PointAt(sent) /\ (sent > 0 => chain'[sent] = chain[sent])
  BY <1>1, <1>4 DEF PointAt, Mint, linkVars
<1>9. CursorOK'
  BY <1>8 DEF IInv, CursorOK, Awaits, Mint, linkVars, txVars, BlocksUpTo, HasBlock
<1> QED  BY <1>6, <1>7, <1>9 DEF IInv, Mint, txVars

LEMMA ReorganizeStep ==
  ASSUME IInv, NEW i \in immutable .. Len(chain) - 1, Reorganize(i)
  PROVE  IInv'
<1>1. /\ chain \in Seq(Block) /\ Len(chain) \in Nat
      /\ sent \in 0 .. Len(chain) /\ immutable \in 0 .. Len(chain) /\ i \in 0 .. Len(chain)
  BY DEF IInv, TypeOK
<1>2. /\ chain' \in Seq(Block) /\ Len(chain') = i
      /\ \A j \in 1 .. i : chain'[j] = chain[j]
  <2>1. chain' = SubSeq(chain, 1, i)
    BY DEF Reorganize
  <2> QED  BY <1>1, <2>1
<1>3. TypeOK'
  <2>1. sent' \in 0 .. Len(chain') /\ mustRollBack' \in BOOLEAN
    <3>1. CASE i < sent
      BY <1>1, <1>2, <3>1 DEF Reorganize
    <3>2. CASE ~(i < sent)
      <4>1. sent' = sent /\ mustRollBack' = mustRollBack
        BY <3>2 DEF Reorganize, linkVars
      <4> QED  BY <1>1, <1>2, <3>2, <4>1 DEF IInv, TypeOK
    <3> QED  BY <3>1, <3>2
  <2> QED  BY <1>1, <1>2, <2>1 DEF IInv, TypeOK, Reorganize, txVars
<1>4. ChainOK'
  <2>1. ChainOK
    BY DEF IInv
  <2>2. \A j \in 1 .. i : j \in 1 .. Len(chain) /\ chain'[j].slot = chain[j].slot
    BY <1>1, <1>2
  <2>3. \A j \in 1 .. i : chain'[j].slot > 0
    BY <2>1, <2>2 DEF ChainOK
  <2>4. \A j, k \in 1 .. i : j < k => chain'[j].slot < chain'[k].slot
    BY <2>1, <2>2 DEF ChainOK
  <2> QED  BY <1>2, <2>3, <2>4 DEF ChainOK
<1>5. CursorOK'
  <2>1. CASE i < sent
    BY <1>1, <2>1 DEF IInv, CursorOK, Awaits, Reorganize, txVars, BlocksUpTo, HasBlock
  <2>2. CASE ~(i < sent)
    <3>1. sent' = sent /\ mustRollBack' = mustRollBack
      BY <2>2 DEF Reorganize, linkVars
    <3>2. PointAt(sent)' = PointAt(sent) /\ (sent > 0 => chain'[sent] = chain[sent])
      BY <1>1, <1>2, <2>2, <3>1 DEF PointAt
    <3> QED  BY <3>1, <3>2 DEF IInv, CursorOK, Awaits, Reorganize, txVars, BlocksUpTo, HasBlock
  <2> QED  BY <2>1, <2>2
<1> QED  BY <1>3, <1>4, <1>5 DEF IInv, Reorganize, txVars

\* The next block is later than the point the client has reached.
LEMMA NextBlockFacts ==
  ASSUME IInv, sent < Len(chain)
  PROVE  /\ NextBlock \in Block /\ sent + 1 \in 1 .. Len(chain)
         /\ PointAt(sent).slot < NextBlock.slot
<1>1. chain \in Seq(Block) /\ Len(chain) \in Nat /\ sent \in 0 .. Len(chain)
  BY DEF IInv, TypeOK
<1>2. sent + 1 \in 1 .. Len(chain) /\ NextBlock \in Block
  BY <1>1 DEF NextBlock
<1>3. PointAt(sent).slot < NextBlock.slot
  <2>1. CASE sent = 0
    BY <1>2, <2>1 DEF IInv, ChainOK, PointAt, Genesis, NextBlock
  <2>2. CASE sent > 0
    BY <1>1, <1>2, <2>2 DEF IInv, ChainOK, PointAt, NextBlock
  <2> QED  BY <1>1, <2>1, <2>2
<1> QED  BY <1>2, <1>3

LEMMA SkipBlockStep == ASSUME IInv, SkipBlock PROVE IInv'
<1>1. /\ NextBlock \in Block /\ sent + 1 \in 1 .. Len(chain)
      /\ PointAt(sent).slot < NextBlock.slot
  BY NextBlockFacts DEF SkipBlock
<1>2. TypeOK'
  BY <1>1 DEF IInv, TypeOK, SkipBlock, nodeVars, txVars
<1>3. ChainOK'
  BY DEF IInv, ChainOK, SkipBlock, nodeVars
<1>4. CursorOK'
  <2>1. PointAt(sent)' = NextBlock
    BY <1>1 DEF SkipBlock, nodeVars, PointAt, NextBlock, IInv, TypeOK
  <2>2. \A r \in db.block : r.slot \in Nat
    BY DEF IInv, DbOK, Database, BlockRows
  <2>3. NextBlock.slot \in Nat /\ PointAt(sent).slot \in Nat
    BY <1>1, PointType DEF IInv, TypeOK, Block
  <2>4. BlocksUpTo(db, NextBlock.slot)
    BY <1>1, <2>2, <2>3 DEF IInv, CursorOK, SkipBlock, BlocksUpTo
  <2> QED  BY <2>1, <2>4 DEF IInv, CursorOK, Awaits, SkipBlock, nodeVars, txVars, BlocksUpTo
<1> QED  BY <1>2, <1>3, <1>4 DEF IInv, SkipBlock, txVars

LEMMA BeginBlockStep == ASSUME IInv, BeginBlock PROVE IInv'
<1>1. /\ NextBlock \in Block /\ sent + 1 \in 1 .. Len(chain)
      /\ PointAt(sent).slot < NextBlock.slot
  BY NextBlockFacts DEF BeginBlock
<1>2. NextBlock.slot \in Nat /\ PointAt(sent).slot \in Nat
  BY <1>1, PointType DEF IInv, TypeOK, Block
<1>3. \A r \in db.block : r.slot < NextBlock.slot
  <2>1. \A r \in db.block : r.slot \in Nat
    BY DEF IInv, DbOK, Database, BlockRows
  <2>2. BlocksUpTo(db, PointAt(sent).slot)
    BY DEF IInv, CursorOK, BeginBlock
  <2> QED  BY <1>1, <1>2, <2>1, <2>2 DEF BlocksUpTo
<1>4. DbOK(work') /\ BlocksUpTo(work', NextBlock.slot) /\ HasBlock(work', NextBlock.slot)
  BY <1>1, <1>3, InsertBlockOK DEF IInv, BeginBlock
<1>5. TypeOK'
  <2>1. current' \in Block /\ Indexable(current') /\ at' \in 0 .. Len(current'.body)
    <3>1. at = 0
      BY DEF IInv, CursorOK, BeginBlock, Awaits
    <3> QED  BY <1>1, <3>1 DEF BeginBlock, IInv, TypeOK
  <2> QED  BY <1>1, <1>4, <2>1 DEF IInv, TypeOK, BeginBlock, nodeVars, DbOK
<1>6. ChainOK'
  BY DEF IInv, ChainOK, BeginBlock, nodeVars
<1>7. CursorOK'
  <2>1. BlocksUpTo(db', current'.slot)
    <3>1. \A r \in db.block : r.slot \in Nat
      BY DEF IInv, DbOK, Database, BlockRows
    <3>2. \A r \in db.block : r.slot <= NextBlock.slot
      BY <1>2, <1>3, <3>1
    <3> QED  BY <3>2 DEF BeginBlock, BlocksUpTo
  <2> QED  BY <1>1, <1>4, <2>1 DEF IInv, CursorOK, BeginBlock, nodeVars, Awaits, NextBlock
<1> QED  BY <1>4, <1>5, <1>6, <1>7 DEF IInv, BeginBlock

LEMMA TakeTxStep == ASSUME IInv, TakeTx PROVE IInv'
<1> DEFINE t == current.body[at + 1]
<1>1. at \in Nat /\ at + 1 \in 1 .. Len(current.body) /\ Len(current.body) \in Nat
  BY CurrentTx DEF IInv, TypeOK, TakeTx
<1>2. t \in Txs
  BY <1>1, CurrentTx DEF IInv
<1>3. Handlers(t) \subseteq 0 .. Len(t.votes) /\ Len(t.votes) \in Nat
  BY <1>2, TxsAssumption DEF Handlers
<1>4. TypeOK'
  <2>1. todo' \in SUBSET Nat /\ at' \in 0 .. Len(current.body)
    BY <1>1, <1>3 DEF TakeTx
  <2> QED  BY <2>1 DEF IInv, TypeOK, TakeTx, nodeVars, linkVars
<1>5. CursorOK'
  <2>1. pc = "insert" /\ at' > 0 /\ todo' \subseteq 0 .. Len(current.body[at'].votes)
    BY <1>1, <1>3 DEF TakeTx
  <2> QED  BY <2>1 DEF IInv, CursorOK, TakeTx, nodeVars, linkVars, Awaits, BlocksUpTo,
                       HasBlock, PointAt
<1> QED  BY <1>4, <1>5 DEF IInv, TakeTx, ChainOK, nodeVars

\* While handlers run, the open transaction is ready for their statements.
LEMMA HandlerFacts ==
  ASSUME IInv, pc = "insert", todo # {}
  PROVE  /\ Tx \in Txs /\ Ready(work, current.slot)
         /\ todo \subseteq 0 .. Len(Tx.votes)
<1>1. at \in 1 .. Len(current.body)
  BY CurrentTx DEF IInv, TypeOK, CursorOK
<1>2. current.slot \in Nat
  BY DEF IInv, TypeOK, Block
<1> QED  BY <1>1, <1>2, CurrentTx DEF IInv, CursorOK, Ready, Tx

\* A handler that changes the open transaction and settles keeps the invariant.
LEMMA HandlerStep ==
  ASSUME IInv, pc = "insert", NEW i \in todo, todo' = todo \ {i},
         Ready(work', current.slot), aborted' \in BOOLEAN,
         UNCHANGED <<nodeVars, linkVars, pc, point, current, at, db, latestBlock, failures>>
  PROVE  IInv'
<1>1. TypeOK'
  BY DEF IInv, TypeOK, Ready, DbOK, nodeVars, linkVars
<1>2. CursorOK'
  BY DEF IInv, CursorOK, Ready, nodeVars, linkVars, Awaits, BlocksUpTo, HasBlock, PointAt
<1> QED  BY <1>1, <1>2 DEF IInv, Ready, ChainOK, nodeVars

LEMMA HandleGovernanceStep == ASSUME IInv, HandleGovernance PROVE IInv'
<1>1. Tx \in Txs /\ Ready(work, current.slot)
  BY HandlerFacts DEF HandleGovernance
<1>2. Ready(work', current.slot)
  BY <1>1, ProcessGovernanceOK DEF HandleGovernance
<1>3. aborted' \in BOOLEAN
  <2>1. aborted' = (aborted \/ StatementRefused(work, Tx))
    BY DEF HandleGovernance
  <2> QED  BY <2>1
<1> QED  BY <1>2, <1>3, HandlerStep DEF HandleGovernance

LEMMA HandleVotesStep == ASSUME IInv, NEW i \in todo, HandleVotes(i) PROVE IInv'
<1>1. Tx \in Txs /\ Ready(work, current.slot) /\ todo \subseteq 0 .. Len(Tx.votes)
  BY HandlerFacts DEF HandleVotes
<1>2. i \in 1 .. Len(Tx.votes)
  BY <1>1, TxsAssumption DEF HandleVotes
<1>3. VoteAccepted(work, Tx, Tx.votes[i], current.slot) =>
        Ready(InsertPollVote(work, Tx, Tx.votes[i], current.slot), current.slot)
  BY <1>1, <1>2, InsertPollVoteOK
<1>4. Ready(work', current.slot)
  BY <1>1, <1>3 DEF HandleVotes
<1>5. aborted' \in BOOLEAN
  BY DEF HandleVotes
<1> QED  BY <1>4, <1>5, HandlerStep DEF HandleVotes

LEMMA CommitStep == ASSUME IInv, Commit PROVE IInv'
<1>1. DbOK(db') /\ work' = db'
  BY DEF IInv, Commit
<1>2. TypeOK'
  <2>1. current' \in Block /\ Indexable(current') /\ at' \in 0 .. Len(current'.body)
    BY GenesisType DEF Commit
  <2>2. latestBlock' \in Block
    BY DEF IInv, TypeOK, Commit
  <2> QED  BY <1>1, <2>1, <2>2 DEF IInv, TypeOK, Commit, DbOK, nodeVars, linkVars
<1>3. CursorOK'
  <2>1. BlocksUpTo(db', current.slot)
    BY DEF IInv, CursorOK, Commit, BlocksUpTo
  <2>2. ~mustRollBack => PointAt(sent) = current
    BY DEF IInv, CursorOK, TypeOK, Commit, PointAt
  <2> QED  BY <2>1, <2>2 DEF IInv, CursorOK, Commit, nodeVars, linkVars, Awaits, PointAt,
                              BlocksUpTo
<1> QED  BY <1>1, <1>2, <1>3 DEF IInv, Commit, ChainOK, nodeVars

LEMMA BeginRollbackStep == ASSUME IInv, BeginRollback PROVE IInv'
<1>1. PointAt(sent) \in Block
  BY PointType DEF IInv, TypeOK
<1>2. TypeOK'
  BY <1>1 DEF IInv, TypeOK, BeginRollback, nodeVars, txVars
<1>3. CursorOK'
  BY <1>1 DEF IInv, CursorOK, BeginRollback, nodeVars, txVars, Awaits, PointAt
<1> QED  BY <1>2, <1>3 DEF IInv, BeginRollback, ChainOK, nodeVars, txVars

LEMMA RollBackToPointStep == ASSUME IInv, RollBackToPoint PROVE IInv'
<1>1. point \in Block /\ point.slot \in Nat
  BY DEF IInv, CursorOK, RollBackToPoint, Block
<1>2. DbOK(db') /\ BlocksUpTo(db', point.slot) /\ work' = db'
  BY <1>1, DeletionOK DEF IInv, RollBackToPoint
<1>3. TypeOK'
  BY <1>2 DEF IInv, TypeOK, RollBackToPoint, nodeVars, linkVars, DbOK
<1>4. CursorOK'
  BY <1>2 DEF IInv, CursorOK, RollBackToPoint, nodeVars, linkVars, Awaits, PointAt, BlocksUpTo
<1> QED  BY <1>2, <1>3, <1>4 DEF IInv, RollBackToPoint, ChainOK, nodeVars

LEMMA CrashStep == ASSUME IInv, Crash PROVE IInv'
<1>1. current' \in Block /\ Indexable(current') /\ at' \in 0 .. Len(current'.body)
  BY GenesisType DEF Crash
<1>2. failures' \in 0 .. MaxFailures /\ sent' \in 0 .. Len(chain)
  BY AggregatorAssumption DEF IInv, TypeOK, Crash, Disconnected
<1>3. TypeOK'
  BY <1>1, <1>2 DEF IInv, TypeOK, Crash, Disconnected, nodeVars
<1>4. CursorOK'
  BY DEF IInv, CursorOK, Crash, Disconnected, Awaits
<1> QED  BY <1>3, <1>4 DEF IInv, Crash, ChainOK, nodeVars

LEMMA ConnectionLostStep == ASSUME IInv, ConnectionLost PROVE IInv'
<1>1. failures' \in 0 .. MaxFailures /\ sent' \in 0 .. Len(chain)
  BY AggregatorAssumption DEF IInv, TypeOK, ConnectionLost, Disconnected
<1>2. TypeOK'
  BY <1>1 DEF IInv, TypeOK, ConnectionLost, Disconnected, nodeVars, txVars
<1>3. CursorOK'
  BY DEF IInv, CursorOK, ConnectionLost, Disconnected, Awaits, txVars
<1> QED  BY <1>2, <1>3 DEF IInv, ConnectionLost, ChainOK, nodeVars, txVars

LEMMA LastDbBlockType == ASSUME IInv PROVE LastDbBlock(db, ResumeDepth) \in Block
<1> DEFINE newer(r) == {q \in db.block : q.id > r.id}
           candidates == {r \in db.block : Cardinality(newer(r)) = ResumeDepth}
<1>1. \A r \in candidates : r.hash \in Block
  BY DEF IInv, DbOK, Database, BlockRows
<1>2. LastDbBlock(db, ResumeDepth) =
        IF candidates = {} THEN Genesis ELSE (CHOOSE r \in candidates : TRUE).hash
  BY DEF LastDbBlock
<1> HIDE DEF candidates
<1> QED  BY <1>1, <1>2, GenesisType

LEMMA ResumingStep == ASSUME IInv, ReadResumePoint \/ Resume \/ ResumeFails PROVE IInv'
<1>1. CASE ReadResumePoint
  <2>1. point' \in Block
    BY <1>1, LastDbBlockType DEF ReadResumePoint
  <2>2. TypeOK'
    BY <1>1, <2>1 DEF IInv, TypeOK, ReadResumePoint, nodeVars, linkVars, txVars
  <2>3. CursorOK'
    BY <1>1 DEF IInv, CursorOK, ReadResumePoint, nodeVars, linkVars, txVars, Awaits
  <2> QED  BY <1>1, <2>2, <2>3 DEF IInv, ReadResumePoint, ChainOK, nodeVars, txVars
<1>2. CASE Resume
  <2>1. TypeOK'
    BY <1>2 DEF IInv, TypeOK, Resume, nodeVars, txVars
  <2>2. CursorOK'
    BY <1>2 DEF IInv, CursorOK, Resume, nodeVars, txVars, Awaits
  <2> QED  BY <1>2, <2>1, <2>2 DEF IInv, Resume, ChainOK, nodeVars, txVars
<1>3. CASE ResumeFails
  <2>1. TypeOK'
    BY <1>3 DEF IInv, TypeOK, ResumeFails, nodeVars, linkVars, txVars
  <2>2. CursorOK'
    BY <1>3 DEF IInv, CursorOK, ResumeFails, nodeVars, linkVars, txVars, Awaits
  <2> QED  BY <1>3, <2>1, <2>2 DEF IInv, ResumeFails, ChainOK, nodeVars, txVars
<1> QED  BY <1>1, <1>2, <1>3

LEMMA StutterStep == ASSUME IInv, UNCHANGED vars PROVE IInv'
BY DEF vars, IInv, TypeOK, ChainOK, CursorOK, Awaits, PointAt, BlocksUpTo, HasBlock

LEMMA NextIInv == IInv /\ [Next]_vars => IInv'
<1> SUFFICES ASSUME IInv, [Next]_vars PROVE IInv'
  OBVIOUS
<1>1. CASE Node
  BY <1>1, MintStep, ReorganizeStep DEF Node
<1>2. CASE Sync
  <2>1. CASE \E i \in todo : HandleVotes(i)
    BY <2>1, HandleVotesStep
  <2>2. CASE \/ SkipBlock \/ BeginBlock \/ TakeTx \/ HandleGovernance \/ Commit
             \/ BeginRollback \/ RollBackToPoint
    BY <2>2, SkipBlockStep, BeginBlockStep, TakeTxStep, HandleGovernanceStep, CommitStep,
       BeginRollbackStep, RollBackToPointStep
  <2>3. CASE ReadResumePoint \/ Resume \/ ResumeFails
    BY <2>3, ResumingStep
  <2> QED  BY <1>2, <2>1, <2>2, <2>3 DEF Sync
<1>3. CASE Crash \/ ConnectionLost
  BY <1>3, CrashStep, ConnectionLostStep
<1>4. CASE UNCHANGED vars
  BY <1>4, StutterStep
<1> QED  BY <1>1, <1>2, <1>3, <1>4 DEF Next

\* The inductive invariant holds throughout every behaviour of the aggregator.
THEOREM Invariance == Spec => []IInv
<1> QED  BY InitIInv, NextIInv, PTL DEF Spec

\* Type correctness: every variable of the aggregator, the two views of the
\* database included, keeps its type, whatever transactions the chain carries.
THEOREM TypeCorrect == Spec => []TypeOK
<1>1. IInv => TypeOK
  BY DEF IInv
<1> QED  BY <1>1, Invariance, PTL

\* The ids of blocks order them as their slots do, across rollbacks, crashes
\* and re-insertions, so getLastDbBlock really finds the newest blocks.
THEOREM BlockIdsCorrect == Spec => []BlockIdsFollowSlots
<1>1. IInv => BlockIdsFollowSlots
  BY DEF IInv, DbOK, BlockIdsOrdered, BlockIdsFollowSlots
<1> QED  BY <1>1, Invariance, PTL

\* A rollback deletes exactly the rows later than its point: the cascades of
\* the schema never reach a row of a block that stays.
THEOREM RollbackCorrect == Spec => RollbackIsExact
<1> DEFINE Exact == pc = "rollback" /\ pc' = "idle" =>
             db' = [table \in DOMAIN db |-> {r \in db[table] : r.slot <= point.slot}]
<1>1. ASSUME IInv, [Next]_vars PROVE [Exact]_vars
  <2>1. CASE RollBackToPoint
    <3>1. point.slot \in Int /\ DbOK(db)
      BY <1>1, <2>1 DEF IInv, CursorOK, RollBackToPoint, Block
    <3> QED  BY <2>1, <3>1, DeletionIsExact DEF RollBackToPoint
  <2>2. CASE ~RollBackToPoint /\ ~UNCHANGED vars
    <3>1. ~(pc = "rollback" /\ pc' = "idle")
      BY <1>1, <2>2 DEF Next, Node, Mint, Reorganize, Sync, SkipBlock, BeginBlock, TakeTx,
         HandleGovernance, HandleVotes, Commit, BeginRollback, ReadResumePoint, Resume,
         ResumeFails, Crash, ConnectionLost, Disconnected, Awaits
    <3> QED  BY <3>1
  <2> QED  BY <2>1, <2>2
<1> QED  BY <1>1, Invariance, PTL DEF Spec, RollbackIsExact
-----------------------------------------------------------------------------
(***************************************************************************)
(* The chain the aggregator follows: which blocks the database may hold    *)
(* beside a chain that forks, what the block in memory is, where syncing   *)
(* resumes, in which order votes are numbered, and that no block is lost.  *)
(*                                                                         *)
(* The open transaction sees every committed block and at most one more,   *)
(* so what is shown of its blocks holds of the committed ones.             *)
(***************************************************************************)
ChainTo(i) == {chain[j] : j \in 1 .. i}

Following == pc \in {"idle", "insert", "rollback"}

\* Blocks of the chain and of the database are told apart by the number the
\* network gave them when they were minted.
Numbered(S) == \A b \in S : b.n \in 1 .. minted /\ b.slot > 0

\* A stored block that is on the chain has all the stored blocks up to its slot
\* on the chain as well.
Linked(S) ==
  \A i \in 1 .. Len(chain) : chain[i] \in S =>
    \A b \in S : b.slot <= chain[i].slot => b \in ChainTo(i)

\* Up to the point the client has reached, the stored blocks are the chain's.
Agrees(S) == \A b \in S : b.slot <= PointAt(sent).slot => b \in ChainTo(sent)

\* A database transaction is open exactly while a block is inserted.
TransactionOK ==
  /\ pc # "insert" => work = db /\ ~aborted
  /\ pc = "insert" => Indexed(work) = Indexed(db) \cup {current}

PointOK ==
  /\ pc \in {"resuming", "stuck"} => point = Genesis \/ point \in Indexed(db)
  /\ pc = "rollback" => /\ latestBlock = point
                        /\ PointAt(sent).slot <= point.slot

LinkInv ==
  /\ Numbered(ChainTo(Len(chain))) /\ Numbered(Indexed(work))
  /\ \A b \in Indexed(work) : Indexable(b)
  /\ TransactionOK
  /\ Linked(Indexed(work))
  /\ Following => Agrees(Indexed(work))
  /\ PointOK
  /\ LatestBlockOnChain

\* No transaction is in two places of the stored blocks, no output of a
\* proposal is spent by two of them.
SpentBy(t) == IF t.spends = "inputs" THEN t.inputs ELSE {}

TxUnique(S) ==
  \A b, c \in S : \A i \in DOMAIN TxsOf(b), j \in DOMAIN TxsOf(c) :
    \/ TxsOf(b)[i].hash = TxsOf(c)[j].hash
    \/ SpentBy(TxsOf(b)[i]) \cap SpentBy(TxsOf(c)[j]) # {}
    => b = c /\ i = j

LedgerInv == LedgerValid(chain) /\ TxUnique(Indexed(work))

DepthInv ==
  /\ Len(chain) - immutable <= K
  /\ IsFiniteSet(Indexed(work))
  /\ Cardinality(Indexed(work) \ ChainTo(immutable)) <= K
  /\ K <= ResumeDepth =>
       /\ pc # "stuck"
       /\ pc = "resuming" => point = Genesis \/ point \in ChainTo(immutable)

\* The m-th entry of the k-th transaction of block b casts v.
CastAt(v, b, k, m) ==
  /\ b.slot = v.slot
  /\ k \in DOMAIN TxsOf(b) /\ TxsOf(b)[k].hash = v.tx
  /\ m \in DOMAIN TxsOf(b)[k].votes
  /\ v.proposal \in DOMAIN TxsOf(b)[k].votes[m].choices

VoteOrigin(d) == \A v \in d.vote : \E b \in Indexed(d) : \E k, m \in Nat : CastAt(v, b, k, m)

\* Of the block being inserted, only entries already handled have cast votes.
VotesTaken ==
  pc = "insert" =>
    \A v \in work.vote : v.slot = current.slot =>
      \E k, m \in Nat : CastAt(v, current, k, m) /\ k <= at /\ (k = at => m \notin todo)

VotesOrdered(d) ==
  \A v, w \in d.vote :
    \/ v.slot < w.slot
    \/ \E b \in Indexed(d) : /\ b.slot = v.slot /\ b.slot = w.slot
                             /\ \E i, j \in DOMAIN TxsOf(b) :
                                  i < j /\ TxsOf(b)[i].hash = v.tx /\ TxsOf(b)[j].hash = w.tx
    => v.id < w.id

VotesOK(d) == VoteOrigin(d) /\ VotesOrdered(d)

VoteInv == VotesOK(db) /\ VotesOK(work) /\ VotesTaken

\* No two entries of a transaction choose on the same proposal.
OneVotePerProposal ==
  \A body \in Bodies \ {NotPraos, NoTransactions} : \A k \in DOMAIN body :
    \A m, n \in DOMAIN body[k].votes :
      m # n => DOMAIN body[k].votes[m].choices \cap DOMAIN body[k].votes[n].choices = {}

\* PostgreSQL takes every text of every operation.
TextsStorable == \A t \in Txs : t.manage.storable

StoredTo(S, i) == \A j \in 1 .. i : Indexable(chain[j]) => chain[j] \in S

\* No block of the chain is missing below a stored one.
NoGaps(S) == \A i \in 1 .. Len(chain) : chain[i] \in S => StoredTo(S, i)

SyncInv ==
  /\ ~aborted
  /\ NoGaps(Indexed(db)) /\ NoGaps(Indexed(work))
  /\ Following => StoredTo(Indexed(work), sent)
-----------------------------------------------------------------------------
(* Facts about the chain and the stored blocks. *)

\* The chain and the cursor on it.
LEMMA ChainFacts ==
  ASSUME IInv
  PROVE  /\ chain \in Seq(Block) /\ Len(chain) \in Nat
         /\ sent \in 0 .. Len(chain) /\ immutable \in 0 .. Len(chain)
         /\ \A i \in 1 .. Len(chain) :
              chain[i] \in Block /\ chain[i].slot \in Nat /\ chain[i].slot > 0
         /\ \A i, j \in 1 .. Len(chain) : chain[i].slot <= chain[j].slot => i <= j
<1>1. chain \in Seq(Block) /\ Len(chain) \in Nat
  BY DEF IInv, TypeOK
<1>2. \A i \in 1 .. Len(chain) : chain[i] \in Block /\ chain[i].slot \in Nat
  BY <1>1, ChainSlots DEF IInv
<1>3. ASSUME NEW i \in 1 .. Len(chain), NEW j \in 1 .. Len(chain), chain[i].slot <= chain[j].slot
      PROVE  i <= j
  <2>1. j < i => chain[j].slot < chain[i].slot
    BY DEF IInv, ChainOK
  <2> QED  BY <1>1, <1>2, <1>3, <2>1
<1> QED  BY <1>1, <1>2, <1>3 DEF IInv, TypeOK, ChainOK

\* A stored block and its row.
LEMMA IndexedFacts ==
  ASSUME NEW d, DbOK(d), NEW b \in Indexed(d)
  PROVE  b \in Block /\ b.slot \in Nat /\ \E r \in d.block : r.hash = b /\ r.slot = b.slot
<1>1. PICK r \in d.block : r.hash = b
  BY DEF Indexed
<1>2. r \in BlockRows /\ r.slot = r.hash.slot
  BY DEF DbOK, Database, RowsOrdered
<1> QED  BY <1>1, <1>2 DEF BlockRows, Block

\* The blocks a rollback leaves.
LEMMA DeletionIndexed ==
  ASSUME NEW d, DbOK(d), NEW slot \in Nat
  PROVE  Indexed(DeleteBlocksAfter(d, slot)) = {b \in Indexed(d) : b.slot <= slot}
<1>1. DeleteBlocksAfter(d, slot).block = {r \in d.block : r.slot <= slot}
  BY DEF DeleteBlocksAfter
<1>2. \A r \in d.block : r.slot = r.hash.slot
  BY DEF DbOK, RowsOrdered
<1> QED  BY <1>1, <1>2 DEF Indexed

\* While the client follows the chain without a rollback to come, nothing is
\* stored but blocks of the chain it was sent.
LEMMA StoredOnChain ==
  ASSUME IInv, LinkInv, Awaits(FALSE)
  PROVE  Indexed(db) \subseteq ChainTo(sent) /\ work = db
<1>1. work = db /\ Agrees(Indexed(db))
  BY DEF LinkInv, TransactionOK, Awaits, Following
<1>2. ASSUME NEW b \in Indexed(db) PROVE b.slot <= PointAt(sent).slot
  BY IndexedFacts DEF IInv, CursorOK, BlocksUpTo
<1> QED  BY <1>1, <1>2 DEF Agrees
-----------------------------------------------------------------------------
(* The node's steps. *)

\* What the node leaves of the chain is as it was.
LEMMA PrefixKept ==
  ASSUME NEW m \in Nat, \A j \in 1 .. m : chain'[j] = chain[j], NEW i \in 0 .. m
  PROVE  ChainTo(i)' = ChainTo(i) /\ PointAt(i)' = PointAt(i)
<1>1. \A j \in 1 .. i : chain'[j] = chain[j]
  OBVIOUS
<1> QED  BY <1>1 DEF ChainTo, PointAt

\* What a new block changes.
LEMMA MintFacts ==
  ASSUME IInv, NEW body \in Bodies, NEW slot \in 1 .. MaxSlot, Mint(body, slot)
  PROVE  /\ Len(chain') = Len(chain) + 1 /\ minted' = minted + 1 /\ minted \in Nat
         /\ \A j \in 1 .. Len(chain) : chain'[j] = chain[j]
         /\ chain'[Len(chain) + 1] = [n |-> minted + 1, slot |-> slot, body |-> body]
         /\ slot \in Nat /\ slot > 0
<1>1. chain \in Seq(Block) /\ minted \in Nat
  BY DEF IInv, TypeOK
<1>2. [n |-> minted + 1, slot |-> slot, body |-> body] \in Block /\ slot \in Nat /\ slot > 0
  BY <1>1, AggregatorAssumption DEF Block
<1> QED  BY <1>1, <1>2 DEF Mint

\* What a fork changes.
LEMMA ReorganizeFacts ==
  ASSUME IInv, NEW i \in immutable .. Len(chain) - 1, Reorganize(i)
  PROVE  /\ i \in Nat /\ i < Len(chain) /\ Len(chain') = i
         /\ \A j \in 1 .. i : chain'[j] = chain[j]
         /\ i < sent => sent' = i /\ mustRollBack'
         /\ ~(i < sent) => sent' = sent /\ mustRollBack' = mustRollBack
<1>1. chain \in Seq(Block) /\ immutable \in 0 .. Len(chain) /\ sent \in 0 .. Len(chain)
  BY DEF IInv, TypeOK
<1>2. i \in 0 .. Len(chain) /\ i < Len(chain)
  BY <1>1
<1>3. chain' = SubSeq(chain, 1, i)
  BY DEF Reorganize
<1> QED  BY <1>1, <1>2, <1>3 DEF Reorganize, linkVars

\* Nothing is stored at the start; then one lemma for each step.
LEMMA LinkInit == Init => LinkInv
<1> SUFFICES ASSUME Init PROVE LinkInv
  OBVIOUS
<1>1. Indexed(work) = {} /\ Indexed(db) = {} /\ work = db
  BY DEF Init, EmptyDb, Indexed
<1>2. ChainTo(Len(chain)) = {}
  BY DEF Init, ChainTo
<1> QED  BY <1>1, <1>2 DEF Init, LinkInv, Numbered, Linked, TransactionOK, PointOK, Following,
                         LatestBlockOnChain, Awaits

LEMMA LinkMint ==
  ASSUME IInv, LinkInv, NEW body \in Bodies, NEW slot \in 1 .. MaxSlot, Mint(body, slot)
  PROVE  LinkInv'
<1> DEFINE W == Indexed(work)
           new == [n |-> minted + 1, slot |-> slot, body |-> body]
<1>1. /\ Len(chain') = Len(chain) + 1 /\ minted' = minted + 1 /\ minted \in Nat
      /\ \A j \in 1 .. Len(chain) : chain'[j] = chain[j]
      /\ chain'[Len(chain) + 1] = new /\ slot > 0
  BY MintFacts
<1>2. Len(chain) \in Nat /\ sent \in 0 .. Len(chain)
  BY ChainFacts
<1>3. \A i \in 0 .. Len(chain) : ChainTo(i)' = ChainTo(i) /\ PointAt(i)' = PointAt(i)
  BY <1>1, <1>2, PrefixKept
<1>4. UNCHANGED <<sent, mustRollBack, pc, point, current, work, aborted, db, latestBlock>>
  BY DEF Mint, linkVars, txVars
<1>5. W' = W /\ Indexed(db)' = Indexed(db)
  BY <1>4
<1>6. Numbered(ChainTo(Len(chain)))'
  <2>1. ChainTo(Len(chain))' = ChainTo(Len(chain)) \cup {new}
    BY <1>1, <1>2 DEF ChainTo
  <2>2. new.n = minted' /\ new.slot > 0
    BY <1>1
  <2> HIDE DEF new
  <2> QED  BY <1>1, <2>1, <2>2 DEF LinkInv, Numbered
<1>7. Numbered(W)'
  BY <1>1, <1>5 DEF LinkInv, Numbered
<1>8. Linked(W)'
  <2> SUFFICES ASSUME NEW i \in 1 .. Len(chain'), chain'[i] \in W,
                      NEW b \in W, b.slot <= chain'[i].slot
               PROVE  b \in ChainTo(i)'
    BY <1>5 DEF Linked
  <2>1. i # Len(chain) + 1
    BY <1>1 DEF LinkInv, Numbered
  <2>2. i \in 1 .. Len(chain) /\ chain'[i] = chain[i]
    BY <1>1, <1>2, <2>1
  <2> QED  BY <1>3, <2>2 DEF LinkInv, Linked
<1>9. (Following => Agrees(W))'
  BY <1>2, <1>3, <1>4, <1>5 DEF LinkInv, Agrees, Following
<1>10. PointOK' /\ TransactionOK'
  BY <1>2, <1>3, <1>4 DEF LinkInv, PointOK, TransactionOK, Indexed
<1>11. LatestBlockOnChain'
  <2> SUFFICES ASSUME Awaits(FALSE) PROVE LatestBlockOnChain'
    BY <1>4 DEF LatestBlockOnChain, Awaits
  <2>1. PICK i \in 0 .. sent : /\ latestBlock = PointAt(i)
                               /\ \A j \in i + 1 .. sent : chain[j].body = NotPraos
    BY DEF LinkInv, LatestBlockOnChain
  <2>2. i \in 0 .. Len(chain) /\ \A j \in i + 1 .. sent : j \in 1 .. Len(chain)
    BY <1>2
  <2> QED  BY <1>1, <1>3, <1>4, <2>1, <2>2 DEF LatestBlockOnChain
<1>12. (\A b \in W : Indexable(b))'
  BY <1>5 DEF LinkInv, Indexable
<1> QED  BY <1>6, <1>7, <1>8, <1>9, <1>10, <1>11, <1>12 DEF LinkInv

LEMMA LinkReorganize ==
  ASSUME IInv, LinkInv, NEW i \in immutable .. Len(chain) - 1, Reorganize(i)
  PROVE  LinkInv'
<1> DEFINE W == Indexed(work)
<1>1. /\ i \in Nat /\ i < Len(chain) /\ Len(chain') = i
      /\ \A j \in 1 .. i : chain'[j] = chain[j]
      /\ i < sent => sent' = i /\ mustRollBack'
      /\ ~(i < sent) => sent' = sent /\ mustRollBack' = mustRollBack
  BY ReorganizeFacts
<1>2. /\ Len(chain) \in Nat /\ sent \in 0 .. Len(chain)
      /\ \A j \in 1 .. Len(chain) : chain[j].slot \in Nat /\ chain[j].slot > 0
      /\ \A j, k \in 1 .. Len(chain) : chain[j].slot <= chain[k].slot => j <= k
  BY ChainFacts
<1>3. \A j \in 0 .. i : ChainTo(j)' = ChainTo(j) /\ PointAt(j)' = PointAt(j)
  BY <1>1, PrefixKept
<1>4. UNCHANGED <<minted, pc, point, current, work, aborted, db, latestBlock>>
  BY DEF Reorganize, txVars
<1>5. W' = W /\ Indexed(db)' = Indexed(db)
  BY <1>4
<1>6. Numbered(ChainTo(Len(chain)))' /\ Numbered(W)'
  <2>1. ChainTo(Len(chain))' \subseteq ChainTo(Len(chain))
    BY <1>1, <1>2 DEF ChainTo
  <2> QED  BY <1>4, <1>5, <2>1 DEF LinkInv, Numbered
<1>7. Linked(W)'
  <2> SUFFICES ASSUME NEW j \in 1 .. i, chain'[j] \in W, NEW b \in W, b.slot <= chain'[j].slot
               PROVE  b \in ChainTo(j)'
    BY <1>1, <1>5 DEF Linked
  <2>1. j \in 1 .. Len(chain) /\ j \in 0 .. i /\ chain'[j] = chain[j]
    BY <1>1, <1>2
  <2> QED  BY <1>3, <2>1 DEF LinkInv, Linked
<1>8. i < sent => PointAt(i).slot <= PointAt(sent).slot
  BY <1>1, <1>2 DEF PointAt, Genesis
<1>9. (Following => Agrees(W))'
  <2> SUFFICES ASSUME Following PROVE Agrees(W)'
    BY <1>4 DEF Following
  <2>1. CASE ~(i < sent)
    <3>1. sent \in 0 .. i /\ sent' = sent
      BY <1>1, <1>2, <2>1
    <3> QED  BY <1>3, <1>5, <3>1 DEF LinkInv, Agrees
  <2>2. CASE i < sent
    <3> SUFFICES ASSUME NEW b \in W, b.slot <= PointAt(i).slot PROVE b \in ChainTo(i)
      BY <1>1, <1>3, <1>5, <2>2 DEF Agrees
    <3>1. b.slot \in Nat /\ b.slot > 0 /\ PointAt(i).slot \in Nat /\ PointAt(sent).slot \in Nat
      BY <1>1, <1>2, IndexedFacts DEF IInv, LinkInv, Numbered, PointAt, Genesis
    <3>2. b \in ChainTo(sent)
      BY <1>8, <2>2, <3>1 DEF LinkInv, Agrees
    <3>3. PICK j \in 1 .. sent : b = chain[j]
      BY <3>2 DEF ChainTo
    <3>4. i \in 1 .. Len(chain) /\ PointAt(i) = chain[i]
      BY <1>1, <1>2, <3>1 DEF PointAt, Genesis
    <3>5. j <= i
      BY <1>2, <3>3, <3>4
    <3> QED  BY <1>1, <3>3, <3>5 DEF ChainTo
  <2> QED  BY <2>1, <2>2
<1>10. PointOK'
  <2>1. PointAt(sent)'.slot <= PointAt(sent).slot
    <3>1. CASE i < sent
      BY <1>1, <1>3, <1>8, <3>1
    <3>2. CASE ~(i < sent)
      <4>1. sent \in 0 .. i /\ PointAt(sent).slot \in Nat
        BY <1>1, <1>2, <3>2 DEF PointAt, Genesis
      <4> QED  BY <1>1, <1>3, <3>2, <4>1
    <3> QED  BY <3>1, <3>2
  <2>2. PointAt(sent).slot \in Nat /\ PointAt(sent)'.slot \in Nat
    <3>1. sent' \in 0 .. i
      BY <1>1, <1>2
    <3>2. PointAt(sent)' = PointAt(sent')
      BY <1>1, <1>3, <3>1 DEF PointAt
    <3> QED  BY <1>1, <1>2, <3>1, <3>2 DEF PointAt, Genesis
  <2>3. pc = "rollback" => point.slot \in Nat
    BY DEF IInv, CursorOK, Block
  <2> QED  BY <1>4, <2>1, <2>2, <2>3 DEF LinkInv, PointOK, Indexed
<1>11. LatestBlockOnChain'
  <2> SUFFICES ASSUME Awaits(FALSE)' PROVE LatestBlockOnChain'
    BY DEF LatestBlockOnChain
  <2>1. ~(i < sent) /\ sent' = sent /\ sent \in 0 .. i /\ Awaits(FALSE)
    BY <1>1, <1>2, <1>4 DEF Awaits
  <2>2. PICK k \in 0 .. sent : /\ latestBlock = PointAt(k)
                               /\ \A j \in k + 1 .. sent : chain[j].body = NotPraos
    BY <2>1 DEF LinkInv, LatestBlockOnChain
  <2>3. k \in 0 .. i /\ \A j \in k + 1 .. sent : j \in 1 .. i
    BY <2>1
  <2> QED  BY <1>1, <1>3, <1>4, <2>1, <2>2, <2>3 DEF LatestBlockOnChain
<1>12. TransactionOK' /\ (\A b \in W : Indexable(b))'
  BY <1>4, <1>5 DEF LinkInv, TransactionOK, Indexable, Indexed
<1> QED  BY <1>6, <1>7, <1>9, <1>10, <1>11, <1>12 DEF LinkInv
-----------------------------------------------------------------------------
(* The aggregator's steps. *)

\* A step that stores no block and does not move along the chain.
LEMMA LinkStable ==
  ASSUME LinkInv, UNCHANGED <<chain, minted>>, Indexed(work') \subseteq Indexed(work),
         Following' => Following /\ sent' = sent,
         TransactionOK', PointOK', LatestBlockOnChain'
  PROVE  LinkInv'
<1>1. ChainTo(Len(chain))' = ChainTo(Len(chain)) /\ \A i : ChainTo(i)' = ChainTo(i)
  BY DEF ChainTo
<1>2. Numbered(ChainTo(Len(chain)))' /\ Numbered(Indexed(work))'
  BY <1>1 DEF LinkInv, Numbered, Indexed
<1>3. Linked(Indexed(work))'
  BY <1>1 DEF LinkInv, Linked, Indexed
<1>4. (Following => Agrees(Indexed(work)))'
  BY <1>1 DEF LinkInv, Agrees, Following, PointAt, Indexed
<1>5. (\A b \in Indexed(work) : Indexable(b))'
  BY DEF LinkInv, Indexable, Indexed
<1> QED  BY <1>2, <1>3, <1>4, <1>5 DEF LinkInv

\* A step that makes the last block sent the latest one.
LEMMA LatestIsLast ==
  ASSUME latestBlock' = PointAt(sent)', sent' \in Nat
  PROVE  LatestBlockOnChain'
<1>1. \A n \in Nat : n \in 0 .. n /\ n + 1 .. n = {}
  OBVIOUS
<1>2. sent' \in 0 .. sent' /\ sent' + 1 .. sent' = {}
  BY <1>1
<1> QED  BY <1>2 DEF LatestBlockOnChain

LEMMA LinkSkipBlock == ASSUME IInv, LinkInv, SkipBlock PROVE LinkInv'
<1>1. /\ sent + 1 \in 1 .. Len(chain) /\ sent \in Nat /\ sent' = sent + 1
      /\ chain' = chain /\ Indexed(work)' = Indexed(work)
  BY ChainFacts, NextBlockFacts DEF SkipBlock, nodeVars, txVars
<1>2. Indexed(work) \subseteq ChainTo(sent)
  BY StoredOnChain DEF SkipBlock
<1>3. Agrees(Indexed(work))'
  BY <1>1, <1>2 DEF Agrees, ChainTo
<1>4. LatestBlockOnChain'
  <2>1. PICK i \in 0 .. sent : /\ latestBlock = PointAt(i)
                               /\ \A j \in i + 1 .. sent : chain[j].body = NotPraos
    BY DEF LinkInv, LatestBlockOnChain, SkipBlock
  <2>2. CASE NextBlock.body = NotPraos
    <3>1. /\ i \in 0 .. sent'
          /\ latestBlock' = PointAt(i)'
          /\ \A j \in i + 1 .. sent' : chain'[j].body = NotPraos
      BY <1>1, <2>1, <2>2 DEF SkipBlock, PointAt, NextBlock
    <3> QED  BY <3>1 DEF LatestBlockOnChain
  <2>3. CASE NextBlock.body # NotPraos
    <3>1. latestBlock' = PointAt(sent)' /\ sent' \in Nat
      BY <1>1, <2>3 DEF SkipBlock, PointAt, NextBlock
    <3> QED  BY <3>1, LatestIsLast
  <2> QED  BY <2>2, <2>3
<1>5. PointOK' /\ TransactionOK'
  BY DEF LinkInv, PointOK, TransactionOK, SkipBlock, Awaits, nodeVars, txVars, Indexed
<1>6. minted' = minted /\ \A i : ChainTo(i)' = ChainTo(i)
  BY <1>1 DEF SkipBlock, nodeVars, ChainTo
<1>7. Numbered(ChainTo(Len(chain)))' /\ Numbered(Indexed(work))'
  BY <1>1, <1>6 DEF LinkInv, Numbered
<1>8. Linked(Indexed(work))' /\ (\A b \in Indexed(work) : Indexable(b))'
  BY <1>1, <1>6 DEF LinkInv, Linked, Indexable
<1> QED  BY <1>3, <1>4, <1>5, <1>7, <1>8 DEF LinkInv

LEMMA LinkBeginBlock == ASSUME IInv, LinkInv, BeginBlock PROVE LinkInv'
<1> DEFINE S == Indexed(db)
<1>1. /\ sent + 1 \in 1 .. Len(chain) /\ sent \in Nat /\ sent' = sent + 1
      /\ chain' = chain /\ minted' = minted /\ pc' = "insert"
      /\ current' = NextBlock /\ NextBlock = chain[sent + 1]
  BY ChainFacts, NextBlockFacts DEF BeginBlock, nodeVars, NextBlock
<1>2. S \subseteq ChainTo(sent) /\ work = db /\ ~aborted
  BY StoredOnChain DEF BeginBlock, LinkInv, TransactionOK, Awaits
<1>3. Indexed(work') = S \cup {NextBlock} /\ Indexed(db') = S
  <2>1. db \in Database
    BY DEF IInv, DbOK
  <2>2. work'.block = db.block \cup {[id |-> NextId(db.block), hash |-> NextBlock,
                                      slot |-> NextBlock.slot]}
    BY <2>1 DEF BeginBlock, InsertBlock, Database
  <2>3. NextBlock \in Indexed(work') /\ S \subseteq Indexed(work')
    BY <2>2 DEF Indexed
  <2>4. Indexed(work') \subseteq S \cup {NextBlock}
    BY <2>2 DEF Indexed
  <2> QED  BY <2>3, <2>4 DEF BeginBlock
<1>4. \A i, j \in 1 .. Len(chain) : chain[i].slot <= chain[j].slot => i <= j
  BY ChainFacts
<1> HIDE DEF S
<1>5. Indexed(work)' \subseteq ChainTo(sent + 1)
  BY <1>1, <1>2, <1>3 DEF ChainTo
<1>6. \A i : ChainTo(i)' = ChainTo(i)
  BY <1>1 DEF ChainTo
<1>7. Numbered(ChainTo(Len(chain)))' /\ Numbered(Indexed(work))'
  <2>1. ChainTo(sent + 1) \subseteq ChainTo(Len(chain))
    BY <1>1, ChainFacts DEF ChainTo
  <2> QED  BY <1>1, <1>5, <1>6, <2>1 DEF LinkInv, Numbered
<1>8. Linked(Indexed(work))'
  <2> SUFFICES ASSUME NEW i \in 1 .. Len(chain), NEW b \in Indexed(work)', b.slot <= chain[i].slot
               PROVE  b \in ChainTo(i)
    BY <1>1, <1>6 DEF Linked
  <2>1. PICK j \in 1 .. sent + 1 : b = chain[j]
    BY <1>5 DEF ChainTo
  <2>2. j \in 1 .. Len(chain) /\ j <= i
    BY <1>1, <1>4, <2>1
  <2> QED  BY <2>1, <2>2 DEF ChainTo
<1>9. Agrees(Indexed(work))'
  BY <1>1, <1>5, <1>6 DEF Agrees
<1>10. TransactionOK'
  BY <1>1, <1>3 DEF TransactionOK
<1>11. (\A b \in Indexed(work) : Indexable(b))'
  BY <1>2, <1>3 DEF LinkInv, Indexable, BeginBlock, S
<1>12. PointOK' /\ LatestBlockOnChain'
  BY <1>1 DEF PointOK, LatestBlockOnChain, Awaits
<1> QED  BY <1>7, <1>8, <1>9, <1>10, <1>11, <1>12 DEF LinkInv

\* Taking a transaction up and handling it leave the blocks alone.
LEMMA LinkHandle ==
  ASSUME IInv, LinkInv, TakeTx \/ HandleGovernance \/ \E i \in todo : HandleVotes(i)
  PROVE  LinkInv'
<1>1. /\ pc = "insert"
      /\ UNCHANGED <<nodeVars, linkVars, pc, point, current, db, latestBlock>>
  BY DEF TakeTx, HandleGovernance, HandleVotes
<1>2. work'.block = work.block
  <2>1. CASE TakeTx
    BY <2>1 DEF TakeTx
  <2>2. CASE HandleGovernance
    <3>1. ProcessGovernance(work, Tx, current.slot).block = work.block
      BY <2>2, HandlerFacts, ProcessGovernanceOK DEF HandleGovernance
    <3> QED  BY <2>2, <3>1 DEF HandleGovernance
  <2>3. ASSUME NEW i \in todo, HandleVotes(i) PROVE work'.block = work.block
    <3>1. /\ Tx \in Txs /\ Ready(work, current.slot) /\ i \in 1 .. Len(Tx.votes)
      BY <2>3, HandlerFacts, TxsAssumption DEF HandleVotes
    <3>2. VoteAccepted(work, Tx, Tx.votes[i], current.slot) =>
            InsertPollVote(work, Tx, Tx.votes[i], current.slot).block = work.block
      BY <3>1, InsertPollVoteOK
    <3> QED  BY <2>3, <3>2 DEF HandleVotes
  <2> QED  BY <2>1, <2>2, <2>3
<1>3. TransactionOK' /\ PointOK' /\ LatestBlockOnChain'
  BY <1>1, <1>2 DEF LinkInv, TransactionOK, PointOK, LatestBlockOnChain, Awaits, Indexed
<1> QED  BY <1>1, <1>2, <1>3, LinkStable DEF nodeVars, linkVars, Indexed, Following

LEMMA LinkCommit == ASSUME IInv, LinkInv, Commit PROVE LinkInv'
<1>1. work' = db' /\ db' \in {db, work} /\ pc = "insert" /\ pc' = "idle"
  BY DEF Commit
<1>2. Indexed(work') \subseteq Indexed(work)
  BY <1>1 DEF LinkInv, TransactionOK
<1>3. LatestBlockOnChain'
  <2> SUFFICES ASSUME ~mustRollBack PROVE LatestBlockOnChain'
    BY DEF Commit, LatestBlockOnChain, Awaits, linkVars
  <2>1. sent > 0 /\ current = chain[sent] /\ sent \in Nat
    BY <1>1, ChainFacts DEF IInv, CursorOK, TypeOK
  <2>2. latestBlock' = PointAt(sent)' /\ sent' \in Nat
    BY <2>1 DEF Commit, PointAt, nodeVars, linkVars
  <2> QED  BY <2>2, LatestIsLast
<1>4. TransactionOK' /\ PointOK'
  BY <1>1 DEF TransactionOK, PointOK, Commit
<1> QED  BY <1>1, <1>2, <1>3, <1>4, LinkStable DEF Commit, nodeVars, linkVars, Following

LEMMA LinkBeginRollback == ASSUME IInv, LinkInv, BeginRollback PROVE LinkInv'
<1>1. PointAt(sent).slot \in Nat
  BY ChainFacts DEF PointAt, Genesis
<1>2. TransactionOK' /\ PointOK' /\ LatestBlockOnChain'
  BY <1>1 DEF LinkInv, TransactionOK, PointOK, LatestBlockOnChain, Awaits, BeginRollback, nodeVars,
     txVars, PointAt
<1> QED  BY <1>2, LinkStable DEF BeginRollback, nodeVars, txVars, Following, Awaits, Indexed

LEMMA LinkRollBackToPoint == ASSUME IInv, LinkInv, RollBackToPoint PROVE LinkInv'
<1>1. Indexed(db') \subseteq Indexed(db) /\ work' = db' /\ work = db
  BY DEF RollBackToPoint, DeleteBlocksAfter, Indexed, LinkInv, TransactionOK
<1>2. TransactionOK' /\ PointOK'
  BY <1>1 DEF TransactionOK, PointOK, LinkInv, RollBackToPoint
<1>3. LatestBlockOnChain'
  <2> SUFFICES ASSUME ~mustRollBack PROVE LatestBlockOnChain'
    BY DEF RollBackToPoint, LatestBlockOnChain, Awaits, linkVars
  <2>1. latestBlock = PointAt(sent) /\ sent \in Nat
    BY ChainFacts DEF IInv, TypeOK, CursorOK, LinkInv, PointOK, RollBackToPoint
  <2>2. latestBlock' = PointAt(sent)' /\ sent' \in Nat
    BY <2>1 DEF RollBackToPoint, PointAt, nodeVars, linkVars
  <2> QED  BY <2>2, LatestIsLast
<1> QED  BY <1>1, <1>2, <1>3, LinkStable DEF RollBackToPoint, nodeVars, linkVars, Following

LEMMA LinkDisconnected == ASSUME IInv, LinkInv, Crash \/ ConnectionLost PROVE LinkInv'
<1>1. pc' = "down" /\ db' = db /\ UNCHANGED <<chain, minted>>
  BY DEF Crash, ConnectionLost, Disconnected, nodeVars
<1>2. Indexed(work') \subseteq Indexed(work)
  BY DEF Crash, ConnectionLost, Disconnected, LinkInv, TransactionOK, txVars
<1>3. TransactionOK'
  BY DEF Crash, ConnectionLost, Disconnected, TransactionOK, LinkInv, txVars
<1>4. PointOK' /\ LatestBlockOnChain'
  BY <1>1 DEF PointOK, LatestBlockOnChain, Awaits
<1> QED  BY <1>1, <1>2, <1>3, <1>4, LinkStable DEF Following

\* The resume point is a stored block or the origin.
LEMMA ResumePointStored ==
  LastDbBlock(db, ResumeDepth) = Genesis \/ LastDbBlock(db, ResumeDepth) \in Indexed(db)
<1> DEFINE newer(r) == {q \in db.block : q.id > r.id}
           candidates == {r \in db.block : Cardinality(newer(r)) = ResumeDepth}
<1>1. LastDbBlock(db, ResumeDepth) =
        IF candidates = {} THEN Genesis ELSE (CHOOSE r \in candidates : TRUE).hash
  BY DEF LastDbBlock
<1>2. \A r \in candidates : r.hash \in Indexed(db)
  BY DEF Indexed
<1> HIDE DEF candidates
<1> QED  BY <1>1, <1>2

LEMMA LinkReadResumePoint == ASSUME IInv, LinkInv, ReadResumePoint PROVE LinkInv'
<1>1. pc' = "resuming" /\ pc = "down"
      /\ UNCHANGED <<chain, minted, sent, mustRollBack, work, aborted, db>>
  BY DEF ReadResumePoint, nodeVars, linkVars, txVars
<1>2. point' = Genesis \/ point' \in Indexed(db)
  BY ResumePointStored DEF ReadResumePoint
<1>3. TransactionOK' /\ PointOK' /\ LatestBlockOnChain'
  BY <1>1, <1>2 DEF LinkInv, TransactionOK, PointOK, LatestBlockOnChain, Awaits, Indexed
<1> QED  BY <1>1, <1>3, LinkStable DEF Following, Indexed

\* The client resumes from a point below which the stored blocks are the chain's.
LEMMA LinkResume == ASSUME IInv, LinkInv, Resume PROVE LinkInv'
<1>1. /\ pc' = "idle" /\ pc = "resuming" /\ mustRollBack' = TRUE
      /\ UNCHANGED <<chain, minted, work, aborted, db>>
  BY DEF Resume, nodeVars, txVars
<1>2. PICK i \in 0 .. Len(chain) : PointAt(i) = point /\ sent' = i
  BY DEF Resume
<1>3. /\ work = db /\ Numbered(Indexed(work)) /\ Numbered(ChainTo(Len(chain)))
      /\ point = Genesis \/ point \in Indexed(work)
  BY <1>1 DEF LinkInv, TransactionOK, PointOK
<1>4. \A j : ChainTo(j)' = ChainTo(j)
  BY <1>1 DEF ChainTo
<1>5. Agrees(Indexed(work))'
  <2> SUFFICES ASSUME NEW b \in Indexed(work), b.slot <= PointAt(i).slot PROVE b \in ChainTo(i)
    BY <1>1, <1>2, <1>4 DEF Agrees, PointAt, Indexed
  <2>1. b.slot > 0 /\ b.slot \in Nat
    BY <1>3, IndexedFacts DEF Numbered, IInv
  <2>2. i \in 1 .. Len(chain) /\ PointAt(i) = chain[i]
    BY <2>1, ChainFacts DEF PointAt, Genesis
  <2>3. chain[i] # Genesis
    BY <2>2, ChainFacts DEF Genesis
  <2> QED  BY <1>2, <1>3, <2>2, <2>3 DEF LinkInv, Linked
<1>6. TransactionOK' /\ PointOK' /\ LatestBlockOnChain'
  BY <1>1, <1>3 DEF TransactionOK, LinkInv, PointOK, LatestBlockOnChain, Awaits
<1>7. Numbered(ChainTo(Len(chain)))' /\ Numbered(Indexed(work))'
  BY <1>1, <1>3, <1>4 DEF Numbered, Indexed
<1>8. Linked(Indexed(work))' /\ (\A b \in Indexed(work) : Indexable(b))'
  BY <1>1, <1>4 DEF LinkInv, Linked, Indexable, Indexed
<1> QED  BY <1>5, <1>6, <1>7, <1>8 DEF LinkInv

LEMMA LinkResumeFails == ASSUME IInv, LinkInv, ResumeFails PROVE LinkInv'
<1>1. pc' = "stuck" /\ pc = "resuming"
      /\ UNCHANGED <<chain, minted, sent, mustRollBack, point, work, aborted, db>>
  BY DEF ResumeFails, nodeVars, linkVars, txVars
<1>2. TransactionOK' /\ PointOK' /\ LatestBlockOnChain'
  BY <1>1 DEF LinkInv, TransactionOK, PointOK, LatestBlockOnChain, Awaits, Indexed
<1> QED  BY <1>1, <1>2, LinkStable DEF Following, Indexed

LEMMA LinkStep == IInv /\ LinkInv /\ [Next]_vars => LinkInv'
<1> SUFFICES ASSUME IInv, LinkInv, [Next]_vars PROVE LinkInv'
  OBVIOUS
<1>1. CASE Node
  BY <1>1, LinkMint, LinkReorganize DEF Node
<1>2. CASE Sync
  BY <1>2, LinkSkipBlock, LinkBeginBlock, LinkHandle, LinkCommit, LinkBeginRollback,
     LinkRollBackToPoint, LinkReadResumePoint, LinkResume, LinkResumeFails DEF Sync
<1>3. CASE Crash \/ ConnectionLost
  BY <1>3, LinkDisconnected
<1>4. CASE UNCHANGED vars
  <2>1. TransactionOK' /\ PointOK' /\ LatestBlockOnChain'
    BY <1>4 DEF vars, LinkInv, TransactionOK, PointOK, LatestBlockOnChain, Awaits, PointAt, Indexed
  <2> QED  BY <1>4, <2>1, LinkStable DEF vars, Following, Indexed
<1> QED  BY <1>1, <1>2, <1>3, <1>4 DEF Next

\* The stored blocks, beside a chain that grows and forks: those up to the
\* client's place on the chain are the chain's, and a stored block the node
\* still has is preceded by no block of an abandoned fork.
THEOREM LinkInvariance == Spec => []LinkInv
<1>1. Init => LinkInv
  BY LinkInit
<1>2. IInv /\ LinkInv /\ [Next]_vars => LinkInv'
  BY LinkStep
<1> QED  BY <1>1, <1>2, Invariance, PTL DEF Spec

\* When the aggregator waits for the next block, the one in memory is the last
\* one it handled, on the chain the database follows.
THEOREM LatestBlockCorrect == Spec => []LatestBlockOnChain
<1>1. LinkInv => LatestBlockOnChain
  BY DEF LinkInv
<1> QED  BY <1>1, LinkInvariance, PTL

\* An aggregator that waits for the next block stores only blocks it was sent
\* from the chain it follows, none of an abandoned fork: one half of
\* BlocksSynced, without any hypothesis on the transactions.
THEOREM NoForeignBlockCorrect == Spec => []NoForeignBlock
<1>1. IInv /\ LinkInv => NoForeignBlock
  BY StoredOnChain DEF LinkInv, NoForeignBlock, Indexed, ChainTo
<1> QED  BY <1>1, Invariance, LinkInvariance, PTL
-----------------------------------------------------------------------------
(* The ledger: what it rules out on the chain is ruled out in the database. *)

\* The transactions of a block.
LEMMA TxsOfType ==
  ASSUME NEW b \in Block
  PROVE  /\ TxsOf(b) \in Seq(Txs) /\ Len(TxsOf(b)) \in Nat
         /\ DOMAIN TxsOf(b) = 1 .. Len(TxsOf(b))
         /\ \A i \in DOMAIN TxsOf(b) : TxsOf(b)[i] \in Txs
<1>1. <<>> \in Seq(Txs)
  OBVIOUS
<1>2. Indexable(b) => b.body \in Seq(Txs)
  BY <1>1, AggregatorAssumption DEF Block, Indexable
<1>3. TxsOf(b) \in Seq(Txs)
  BY <1>1, <1>2 DEF TxsOf
<1> QED  BY <1>3

\* Two places of a valid ledger hold different transactions, and spend
\* different outputs.
LEMMA LedgerUnique ==
  ASSUME NEW blocks \in Seq(Block), LedgerValid(blocks),
         NEW i \in 1 .. Len(blocks), NEW j \in DOMAIN TxsOf(blocks[i]),
         NEW k \in 1 .. Len(blocks), NEW l \in DOMAIN TxsOf(blocks[k]),
         \/ TxsOf(blocks[i])[j].hash = TxsOf(blocks[k])[l].hash
         \/ SpentBy(TxsOf(blocks[i])[j]) \cap SpentBy(TxsOf(blocks[k])[l]) # {}
  PROVE  i = k /\ j = l
<1>1. i \in Int /\ k \in Int /\ j \in Int /\ l \in Int
  BY TxsOfType
<1>2. <<i, j>> \in LedgerOrder(blocks) /\ <<k, l>> \in LedgerOrder(blocks)
  BY DEF LedgerOrder
<1>3. ~Earlier(<<i, j>>, <<k, l>>) /\ ~Earlier(<<k, l>>, <<i, j>>)
  BY <1>2 DEF LedgerValid, SpentBy
<1> QED  BY <1>1, <1>3 DEF Earlier

\* What the node keeps of a valid ledger is valid.
LEMMA LedgerPrefix ==
  ASSUME NEW blocks \in Seq(Block), LedgerValid(blocks), NEW i \in 0 .. Len(blocks)
  PROVE  LedgerValid(SubSeq(blocks, 1, i))
<1> DEFINE kept == SubSeq(blocks, 1, i)
           P == LedgerOrder(blocks)
           Q == LedgerOrder(kept)
           Tx1(p) == TxsOf(blocks[p[1]])[p[2]]
           Tx2(p) == TxsOf(kept[p[1]])[p[2]]
           Spent1(p) == IF Tx1(p).spends = "inputs" THEN Tx1(p).inputs ELSE {}
           Spent2(p) == IF Tx2(p).spends = "inputs" THEN Tx2(p).inputs ELSE {}
<1>1. kept \in Seq(Block) /\ DOMAIN kept = 1 .. i /\ \A k \in 1 .. i : kept[k] = blocks[k]
  OBVIOUS
<1>2. DOMAIN blocks = 1 .. Len(blocks) /\ i \in Nat /\ Len(blocks) \in Nat
  OBVIOUS
<1> HIDE DEF kept
<1>3. Q = {p \in P : p[1] <= i}
  <2>1. \A p : p \in Q <=> \E k \in 1 .. i : \E j \in DOMAIN TxsOf(kept[k]) : p = <<k, j>>
    BY <1>1 DEF LedgerOrder
  <2>2. \A p : p \in P <=> \E k \in 1 .. Len(blocks) : \E j \in DOMAIN TxsOf(blocks[k]) : p = <<k, j>>
    BY <1>2 DEF LedgerOrder
  <2> HIDE DEF P, Q
  <2> QED  BY <1>1, <1>2, <2>1, <2>2
<1>4. \A p \in Q : p[1] \in 1 .. i /\ Tx2(p) = Tx1(p)
  <2>1. \A p \in Q : p[1] \in 1 .. i
    BY <1>1 DEF LedgerOrder
  <2> QED  BY <1>1, <2>1
<1>5. \A p \in Q : Spent2(p) = Spent1(p)
  BY <1>4
<1>6. \A p \in P :
        /\ \A q \in P : Earlier(q, p) => Tx1(q).hash # Tx1(p).hash /\ Spent1(q) \cap Spent1(p) = {}
        /\ \A x \in Spent1(p) : \E q \in P : /\ Earlier(q, p) /\ Tx1(q).hash = x.tx
                                             /\ Tx1(q).spends = "inputs"
  BY DEF LedgerValid
<1>7. \A p \in P : p[1] \in Nat
  BY <1>2 DEF LedgerOrder
<1>8. \A p \in Q, q \in P : Earlier(q, p) => q \in Q
  BY <1>2, <1>3, <1>4, <1>7 DEF Earlier
<1> HIDE DEF P, Q, Tx1, Tx2, Spent1, Spent2
<1>9. \A p \in Q :
        /\ \A q \in Q : Earlier(q, p) => Tx2(q).hash # Tx2(p).hash /\ Spent2(q) \cap Spent2(p) = {}
        /\ \A x \in Spent2(p) : \E q \in Q : /\ Earlier(q, p) /\ Tx2(q).hash = x.tx
                                             /\ Tx2(q).spends = "inputs"
  BY <1>3, <1>4, <1>5, <1>6, <1>8
<1> QED  BY <1>9 DEF LedgerValid, kept, P, Q, Tx1, Tx2, Spent1, Spent2

\* The empty chain is valid.
LEMMA LedgerInit == Init => LedgerInv
<1> SUFFICES ASSUME Init PROVE LedgerInv
  OBVIOUS
<1>1. LedgerOrder(chain) = {}
  BY DEF Init, LedgerOrder
<1>2. Indexed(work) = {}
  BY DEF Init, EmptyDb, Indexed
<1> QED  BY <1>1, <1>2 DEF LedgerInv, LedgerValid, TxUnique

\* Only the insertion of a block adds to the stored blocks, and it adds the
\* next one of the chain.
LEMMA IndexedStep ==
  ASSUME IInv, LinkInv, [Next]_vars
  PROVE  \/ Indexed(work') \subseteq Indexed(work)
         \/ /\ BeginBlock /\ UNCHANGED <<chain, immutable>>
            /\ Indexed(work') = Indexed(work) \cup {NextBlock}
            /\ Indexed(work') \subseteq ChainTo(sent + 1) /\ sent + 1 \in 1 .. Len(chain)
<1>1. CASE BeginBlock
  <2>1. Indexed(db) \subseteq ChainTo(sent) /\ work = db
    BY <1>1, StoredOnChain DEF BeginBlock
  <2>2. pc' = "insert" /\ current' = NextBlock /\ db' = db /\ UNCHANGED nodeVars
    BY <1>1 DEF BeginBlock
  <2>3. Indexed(work') = Indexed(db) \cup {NextBlock}
    BY <1>1, <2>2, LinkBeginBlock DEF LinkInv, TransactionOK, Indexed
  <2>4. sent + 1 \in 1 .. Len(chain) /\ sent \in Nat /\ NextBlock = chain[sent + 1]
    BY <1>1, ChainFacts, NextBlockFacts DEF BeginBlock, NextBlock
  <2>5. Indexed(work') \subseteq ChainTo(sent + 1)
    BY <2>1, <2>3, <2>4 DEF ChainTo
  <2> QED  BY <1>1, <2>1, <2>2, <2>3, <2>4, <2>5 DEF nodeVars
<1>2. CASE TakeTx \/ HandleGovernance \/ \E i \in todo : HandleVotes(i)
  <2>1. pc = "insert" /\ pc' = "insert" /\ current' = current /\ db' = db
    BY <1>2 DEF TakeTx, HandleGovernance, HandleVotes
  <2> QED  BY <1>2, <2>1, LinkHandle DEF LinkInv, TransactionOK, Indexed
<1>3. CASE Commit \/ Crash \/ ConnectionLost
  BY <1>3 DEF Commit, Crash, ConnectionLost, LinkInv, TransactionOK, txVars
<1>4. CASE RollBackToPoint
  BY <1>4 DEF RollBackToPoint, DeleteBlocksAfter, Indexed, LinkInv, TransactionOK
<1>5. CASE \/ Node \/ SkipBlock \/ BeginRollback \/ ReadResumePoint \/ Resume \/ ResumeFails
           \/ UNCHANGED vars
  <2>1. work' = work
    BY <1>5 DEF Node, Mint, Reorganize, SkipBlock, BeginRollback, ReadResumePoint, Resume,
       ResumeFails, txVars, vars
  <2> QED  BY <2>1
<1> QED  BY <1>1, <1>2, <1>3, <1>4, <1>5 DEF Next, Sync

\* A fork keeps a valid prefix, and a block is minted only if it is valid.
LEMMA LedgerStep == IInv /\ LinkInv /\ LedgerInv /\ [Next]_vars => LedgerInv'
<1> SUFFICES ASSUME IInv, LinkInv, LedgerInv, [Next]_vars PROVE LedgerInv'
  OBVIOUS
<1>1. LedgerValid(chain')
  <2>1. CASE chain' = chain
    BY <2>1 DEF LedgerInv
  <2>2. ASSUME NEW body \in Bodies, NEW slot \in 1 .. MaxSlot, Mint(body, slot)
        PROVE  LedgerValid(chain')
    BY <2>2 DEF Mint
  <2>3. ASSUME NEW i \in immutable .. Len(chain) - 1, Reorganize(i)
        PROVE  LedgerValid(chain')
    <3>1. i \in 0 .. Len(chain) /\ chain' = SubSeq(chain, 1, i)
      BY <2>3, ChainFacts DEF Reorganize
    <3> QED  BY <3>1, ChainFacts, LedgerPrefix DEF LedgerInv
  <2>4. Node \/ chain' = chain
    BY DEF Next, Sync, SkipBlock, BeginBlock, TakeTx, HandleGovernance, HandleVotes, Commit,
       BeginRollback, RollBackToPoint, ReadResumePoint, Resume, ResumeFails, Crash,
       ConnectionLost, nodeVars, vars
  <2> QED  BY <2>1, <2>2, <2>3, <2>4 DEF Node
<1>2. TxUnique(Indexed(work'))
  <2>1. CASE Indexed(work') \subseteq Indexed(work)
    BY <2>1 DEF LedgerInv, TxUnique
  <2>2. CASE Indexed(work') \subseteq ChainTo(sent + 1) /\ sent + 1 \in 1 .. Len(chain)
    <3> SUFFICES ASSUME NEW b \in Indexed(work'), NEW c \in Indexed(work'),
                        NEW i \in DOMAIN TxsOf(b), NEW j \in DOMAIN TxsOf(c),
                        \/ TxsOf(b)[i].hash = TxsOf(c)[j].hash
                        \/ SpentBy(TxsOf(b)[i]) \cap SpentBy(TxsOf(c)[j]) # {}
                 PROVE  b = c /\ i = j
      BY DEF TxUnique
    <3>1. PICK k, l \in 1 .. Len(chain) : b = chain[k] /\ c = chain[l]
      BY <2>2 DEF ChainTo
    <3>2. k = l /\ i = j
      BY <3>1, LedgerUnique, ChainFacts DEF LedgerInv
    <3> QED  BY <3>1, <3>2
  <2> QED  BY <2>1, <2>2, IndexedStep
<1> QED  BY <1>1, <1>2 DEF LedgerInv, LedgerValid, LedgerOrder, TxUnique, Indexed

\* No two stored blocks hold the same transaction or spend the same output.
THEOREM LedgerInvariance == Spec => []LedgerInv
<1>1. Init => LedgerInv
  BY LedgerInit
<1>2. IInv /\ LinkInv /\ LedgerInv /\ [Next]_vars => LedgerInv'
  BY LedgerStep
<1> QED  BY <1>1, <1>2, Invariance, LinkInvariance, PTL DEF Spec
-----------------------------------------------------------------------------
(* How much of what is stored the node may still abandon. *)

\* A part of the chain is finite and no larger than its range of indexes.
LEMMA SliceFinite ==
  ASSUME NEW a \in Nat, NEW b \in Nat, a <= b + 1
  PROVE  /\ IsFiniteSet({chain[j] : j \in a .. b})
         /\ Cardinality({chain[j] : j \in a .. b}) <= b - a + 1
<1> DEFINE S == a .. b
           T == {chain[j] : j \in a .. b}
           f == [j \in S |-> chain[j]]
<1>1. IsFiniteSet(S) /\ Cardinality(S) = b - a + 1
  <2>1. IsFiniteSet(S) /\ Cardinality(S) = IF a > b THEN 0 ELSE b - a + 1
    BY FS_Interval
  <2> QED  BY <2>1
<1>2. f \in Surjection(S, T)
  BY DEF Surjection
<1> HIDE DEF S, T, f
<1>3. IsFiniteSet(T) /\ Cardinality(T) <= Cardinality(S)
  BY <1>1, <1>2, FS_Surjection
<1> QED  BY <1>1, <1>3 DEF T

\* What a step does to the bounds on the chain.
LEMMA ImmutableStep ==
  ASSUME IInv, Len(chain) - immutable <= K, [Next]_vars
  PROVE  /\ Len(chain') - immutable' <= K
         /\ ChainTo(immutable) \subseteq ChainTo(immutable)'
<1>1. /\ chain \in Seq(Block) /\ Len(chain) \in Nat /\ immutable \in 0 .. Len(chain)
  BY ChainFacts
<1>2. CASE UNCHANGED nodeVars
  BY <1>2 DEF nodeVars, ChainTo
<1>3. ASSUME NEW body \in Bodies, NEW slot \in 1 .. MaxSlot, Mint(body, slot)
      PROVE  /\ Len(chain') - immutable' <= K
             /\ ChainTo(immutable) \subseteq ChainTo(immutable)'
  <2>1. Len(chain') = Len(chain) + 1 /\ \A j \in 1 .. Len(chain) : chain'[j] = chain[j]
    BY <1>3, MintFacts
  <2>2. immutable' = Larger(immutable, Len(chain') - K) /\ K \in Nat
    BY <1>3, AggregatorAssumption DEF Mint
  <2>3. immutable' \in Nat /\ immutable <= immutable' /\ Len(chain') - immutable' <= K
    BY <1>1, <2>1, <2>2 DEF Larger
  <2>4. ChainTo(immutable) \subseteq ChainTo(immutable)'
    <3> SUFFICES ASSUME NEW j \in 1 .. immutable PROVE chain[j] \in ChainTo(immutable)'
      BY DEF ChainTo
    <3>1. j \in 1 .. immutable' /\ chain'[j] = chain[j]
      BY <1>1, <2>1, <2>3
    <3> QED  BY <3>1 DEF ChainTo
  <2> QED  BY <2>3, <2>4
<1>4. ASSUME NEW i \in immutable .. Len(chain) - 1, Reorganize(i)
      PROVE  /\ Len(chain') - immutable' <= K
             /\ ChainTo(immutable) \subseteq ChainTo(immutable)'
  <2>1. i \in Nat /\ Len(chain') = i /\ i < Len(chain) /\ \A j \in 1 .. i : chain'[j] = chain[j]
    BY <1>4, ReorganizeFacts
  <2>2. immutable' = immutable
    BY <1>4 DEF Reorganize
  <2>3. ChainTo(immutable)' = ChainTo(immutable)
    BY <1>1, <2>1, <2>2 DEF ChainTo
  <2>4. K \in Nat
    BY AggregatorAssumption
  <2> QED  BY <1>1, <2>1, <2>2, <2>3, <2>4
<1>5. Node \/ UNCHANGED nodeVars
  BY DEF Next, Sync, SkipBlock, BeginBlock, TakeTx, HandleGovernance, HandleVotes, Commit,
     BeginRollback, RollBackToPoint, ReadResumePoint, Resume, ResumeFails, Crash,
     ConnectionLost, nodeVars, vars
<1> QED  BY <1>2, <1>3, <1>4, <1>5 DEF Node

\* Of blocks that are all on the chain, the node may abandon K at most.
LEMMA AbandonableBlocks ==
  ASSUME IInv, Len(chain) - immutable <= K, NEW S, NEW i \in 0 .. Len(chain), S \subseteq ChainTo(i)
  PROVE  /\ IsFiniteSet(S)
         /\ Cardinality(S \ ChainTo(immutable)) <= K
<1> DEFINE T == {chain[j] : j \in immutable + 1 .. Len(chain)}
           U == {chain[j] : j \in 1 .. Len(chain)}
<1>1. /\ Len(chain) \in Nat /\ immutable \in 0 .. Len(chain) /\ K \in Nat
  BY ChainFacts, AggregatorAssumption
<1>2. IsFiniteSet(T) /\ Cardinality(T) <= Len(chain) - immutable
  <2>1. immutable + 1 \in Nat /\ immutable + 1 <= Len(chain) + 1
    BY <1>1
  <2>2. IsFiniteSet(T) /\ Cardinality(T) <= Len(chain) - (immutable + 1) + 1
    BY <1>1, <2>1, SliceFinite
  <2> QED  BY <1>1, <2>2
<1>3. IsFiniteSet(U)
  <2>1. 1 \in Nat /\ 1 <= Len(chain) + 1
    BY <1>1
  <2> QED  BY <1>1, <2>1, SliceFinite
<1>4. S \subseteq U /\ S \ ChainTo(immutable) \subseteq T
  <2>1. ASSUME NEW b \in S PROVE b \in U /\ (b \notin ChainTo(immutable) => b \in T)
    <3>1. PICK j \in 1 .. i : b = chain[j]
      BY DEF ChainTo
    <3>2. j \in 1 .. Len(chain) /\ (j \in 1 .. immutable \/ j \in immutable + 1 .. Len(chain))
      BY <1>1
    <3> QED  BY <3>1, <3>2 DEF ChainTo
  <2> QED  BY <2>1
<1> HIDE DEF T, U
<1>5. IsFiniteSet(S)
  BY <1>3, <1>4, FS_Subset
<1>6. /\ IsFiniteSet(S \ ChainTo(immutable))
      /\ Cardinality(S \ ChainTo(immutable)) <= Cardinality(T)
  BY <1>2, <1>4, FS_Subset
<1>7. Cardinality(S \ ChainTo(immutable)) \in Nat /\ Cardinality(T) \in Nat
  BY <1>2, <1>6, FS_CardinalityType
<1> QED  BY <1>1, <1>2, <1>5, <1>6, <1>7

\* The block that is found after skipping ResumeDepth newer ones is one the
\* node will never abandon, if it never abandons more than that many.
LEMMA ResumePointImmutable ==
  ASSUME IInv, LinkInv, DepthInv, pc = "down", K <= ResumeDepth
  PROVE  \/ LastDbBlock(db, ResumeDepth) = Genesis
         \/ LastDbBlock(db, ResumeDepth) \in ChainTo(immutable)
<1> DEFINE newer(r) == {q \in db.block : q.id > r.id}
           candidates == {r \in db.block : Cardinality(newer(r)) = ResumeDepth}
           S == Indexed(db)
           loose == S \ ChainTo(immutable)
<1>1. LastDbBlock(db, ResumeDepth) =
        IF candidates = {} THEN Genesis ELSE (CHOOSE r \in candidates : TRUE).hash
  BY DEF LastDbBlock
<1>2. work = db /\ Linked(S) /\ IsFiniteSet(S) /\ Cardinality(loose) <= K
  BY DEF LinkInv, TransactionOK, DepthInv
<1>3. IsFiniteSet(loose)
  BY <1>2, FS_Difference
<1>4. ASSUME NEW r \in candidates PROVE r.hash \in ChainTo(immutable)
  <2> SUFFICES ASSUME r.hash \notin ChainTo(immutable) PROVE FALSE
    OBVIOUS
  <2> DEFINE rows == newer(r) \cup {r}
             f == [q \in rows |-> q.hash]
  <2>1. /\ \A q \in db.block : /\ q \in BlockRows /\ q.id \in Nat /\ q.slot \in Nat
                               /\ q.slot = q.hash.slot
        /\ \A p, q \in db.block : p.id < q.id <=> p.slot < q.slot
    BY DEF IInv, DbOK, Database, BlockRows, RowsOrdered, BlockIdsOrdered
  <2>2. \A q \in rows : q \in db.block /\ q.id >= r.id
    BY <2>1
  <2>3. \A q \in rows : q.hash \in loose
    <3> SUFFICES ASSUME NEW q \in rows, q.hash \in ChainTo(immutable) PROVE FALSE
      BY <2>2 DEF Indexed
    <3>1. PICK i \in 1 .. immutable : q.hash = chain[i]
      BY DEF ChainTo
    <3>2. i \in 1 .. Len(chain) /\ q.hash \in S /\ r.hash \in S /\ immutable \in 0 .. Len(chain)
      BY <2>2, ChainFacts DEF Indexed
    <3>3. r.hash.slot <= q.hash.slot
      BY <2>1, <2>2
    <3>4. r.hash \in ChainTo(i)
      BY <1>2, <3>1, <3>2, <3>3 DEF Linked
    <3> QED  BY <3>2, <3>4 DEF ChainTo
  <2>4. f \in Injection(rows, loose)
    <3>1. ASSUME NEW p \in rows, NEW q \in rows, p.hash = q.hash PROVE p = q
      <4>1. p.slot = q.slot /\ p.id = q.id
        BY <2>1, <2>2, <3>1
      <4> QED  BY <2>1, <2>2, <3>1, <4>1 DEF BlockRows
    <3> QED  BY <2>3, <3>1 DEF Injection, IsInjective
  <2>5. IsFiniteSet(rows) /\ Cardinality(rows) <= Cardinality(loose)
    <3> HIDE DEF rows, f, loose
    <3> QED  BY <1>3, <2>4, FS_Injection
  <2>6. IsFiniteSet(newer(r)) /\ r \notin newer(r)
    <3>1. newer(r) \in SUBSET rows /\ r \notin newer(r)
      BY <2>1
    <3> HIDE DEF rows, newer
    <3> QED  BY <2>5, <3>1, FS_Subset
  <2>7. Cardinality(rows) = ResumeDepth + 1
    <3> HIDE DEF newer
    <3> QED  BY <2>6, FS_AddElement
  <2>8. Cardinality(loose) \in Nat /\ K \in Nat /\ ResumeDepth \in Nat
    <3> HIDE DEF loose
    <3> QED  BY <1>3, FS_CardinalityType, AggregatorAssumption
  <2> HIDE DEF rows, loose
  <2> QED  BY <1>2, <2>5, <2>7, <2>8
<1> HIDE DEF candidates
<1> QED  BY <1>1, <1>4

\* Nothing is abandoned at the start.
LEMMA DepthInit == Init => DepthInv
<1> SUFFICES ASSUME Init PROVE DepthInv
  OBVIOUS
<1>1. Indexed(work) = {} /\ Indexed(work) \ ChainTo(immutable) = {}
  BY DEF Init, EmptyDb, Indexed
<1>2. Len(chain) - immutable <= K
  BY AggregatorAssumption DEF Init
<1>3. Cardinality({}) <= K
  BY FS_EmptySet, AggregatorAssumption
<1>4. pc = "down"
  BY DEF Init
<1> QED  BY <1>1, <1>2, <1>3, <1>4, FS_EmptySet DEF DepthInv

\* Blocks below the immutable one stay on the chain of every fork.
LEMMA DepthStep == IInv /\ LinkInv /\ DepthInv /\ [Next]_vars => DepthInv'
<1> SUFFICES ASSUME IInv, LinkInv, DepthInv, [Next]_vars PROVE DepthInv'
  OBVIOUS
<1>1. /\ Len(chain') - immutable' <= K
      /\ ChainTo(immutable) \subseteq ChainTo(immutable)'
  BY ImmutableStep DEF DepthInv
<1>2. IsFiniteSet(Indexed(work')) /\ Cardinality(Indexed(work') \ ChainTo(immutable)') <= K
  <2> DEFINE S == Indexed(work)
             T == Indexed(work')
             Imm == ChainTo(immutable)
             Imm2 == ChainTo(immutable)'
  <2>1. CASE T \subseteq S
    <3>1. IsFiniteSet(S) /\ Cardinality(S \ Imm) <= K /\ Imm \subseteq Imm2
      BY <1>1 DEF DepthInv
    <3> HIDE DEF S, T, Imm, Imm2
    <3>2. IsFiniteSet(T) /\ IsFiniteSet(S \ Imm) /\ (T \ Imm2) \in SUBSET (S \ Imm)
      BY <2>1, <3>1, FS_Subset
    <3>3. IsFiniteSet(T \ Imm2) /\ Cardinality(T \ Imm2) <= Cardinality(S \ Imm)
      BY <3>2, FS_Subset
    <3>4. Cardinality(T \ Imm2) \in Nat /\ Cardinality(S \ Imm) \in Nat /\ K \in Nat
      BY <3>2, <3>3, FS_CardinalityType, AggregatorAssumption
    <3> QED  BY <3>1, <3>2, <3>3, <3>4 DEF T, Imm2
  <2>2. CASE T \subseteq ChainTo(sent + 1) /\ sent + 1 \in 1 .. Len(chain)
             /\ UNCHANGED <<chain, immutable>>
    <3>1. sent + 1 \in 0 .. Len(chain) /\ Imm2 = Imm
      BY <2>2 DEF ChainTo
    <3> HIDE DEF T, Imm2
    <3>2. IsFiniteSet(T) /\ Cardinality(T \ Imm) <= K
      BY <2>2, <3>1, AbandonableBlocks DEF DepthInv
    <3> QED  BY <3>1, <3>2 DEF T, Imm2
  <2> QED  BY <2>1, <2>2, IndexedStep
<1>3. ASSUME K <= ResumeDepth
      PROVE  /\ pc' # "stuck"
             /\ pc' = "resuming" => point' = Genesis \/ point' \in ChainTo(immutable)'
  <2>1. /\ pc # "stuck"
        /\ pc = "resuming" => point = Genesis \/ point \in ChainTo(immutable)
    BY <1>3 DEF DepthInv
  <2>2. CASE ReadResumePoint
    <3>1. pc' = "resuming" /\ pc = "down" /\ point' = LastDbBlock(db, ResumeDepth)
      BY <2>2 DEF ReadResumePoint
    <3> QED  BY <1>1, <1>3, <3>1, ResumePointImmutable
  <2>3. CASE ResumeFails
    <3>1. PICK i \in 0 .. Len(chain) : PointAt(i) = point
      <4>1. immutable \in 0 .. Len(chain) /\ Len(chain) \in Nat
        BY ChainFacts
      <4>2. CASE point = Genesis
        <5>1. 0 \in 0 .. Len(chain) /\ PointAt(0) = point
          BY <4>1, <4>2 DEF PointAt
        <5> QED  BY <5>1
      <4>3. CASE point \in ChainTo(immutable)
        <5>1. PICK j \in 1 .. immutable : point = chain[j]
          BY <4>3 DEF ChainTo
        <5>2. j \in 0 .. Len(chain) /\ PointAt(j) = point
          BY <4>1, <5>1 DEF PointAt
        <5> QED  BY <5>2
      <4> QED  BY <2>1, <2>3, <4>2, <4>3 DEF ResumeFails
    <3> QED  BY <2>3, <3>1 DEF ResumeFails
  <2>4. CASE ~ReadResumePoint /\ ~ResumeFails
    <3>1. /\ pc' # "stuck"
          /\ pc' = "resuming" => pc = "resuming" /\ point' = point
      BY <2>1, <2>4 DEF Next, Node, Mint, Reorganize, Sync, SkipBlock, BeginBlock, TakeTx,
         HandleGovernance, HandleVotes, Commit, BeginRollback, RollBackToPoint, Resume, Crash,
         ConnectionLost, Disconnected, Awaits, vars
    <3> QED  BY <1>1, <2>1, <3>1
  <2> QED  BY <2>2, <2>3, <2>4
<1> QED  BY <1>1, <1>2, <1>3 DEF DepthInv, Indexed

\* Stored blocks stay within the node's depth of its chain: at most K of them
\* can ever have to be rolled back.
THEOREM DepthInvariance == Spec => []DepthInv
<1>1. Init => DepthInv
  BY DepthInit
<1>2. IInv /\ LinkInv /\ DepthInv /\ [Next]_vars => DepthInv'
  BY DepthStep
<1> QED  BY <1>1, <1>2, Invariance, LinkInvariance, PTL DEF Spec

\* Provided the node abandons no more blocks than are skipped when resuming,
\* the point the aggregator resumes from is always found on the node's chain.
THEOREM NeverStuckCorrect == ASSUME K <= ResumeDepth PROVE Spec => []NeverStuck
<1>1. DepthInv => NeverStuck
  BY DEF DepthInv, NeverStuck
<1> QED  BY <1>1, DepthInvariance, PTL
-----------------------------------------------------------------------------
(* The numbering of votes. *)

\* A governance operation touches no vote.
LEMMA GovernanceKeepsVotes ==
  ASSUME NEW d, NEW t \in Txs, NEW slot, Ready(d, slot)
  PROVE  ProcessGovernance(d, t, slot).vote = d.vote
<1>1. UpsertTransaction(d, t, slot).vote = d.vote /\ UpsertTransaction(d, t, slot) \in Database
  BY UpsertTransactionOK DEF Ready, DbOK
<1>2. AddProposal(d, t, slot).vote = d.vote
  BY <1>1 DEF AddProposal, PollConnects, Database
<1>3. \A status : CloseProposal(d, t, slot, status).vote = d.vote
  BY <1>1 DEF CloseProposal, ClosesProposal, Database
<1> QED  BY <1>2, <1>3 DEF ProcessGovernance, ConcludeProposal, CancelProposal

\* Rows that stay after a rollback keep their origin and their order.
LEMMA VotesAfterDeletion ==
  ASSUME NEW d, DbOK(d), VotesOK(d), NEW slot \in Nat
  PROVE  VotesOK(DeleteBlocksAfter(d, slot))
<1> DEFINE e == DeleteBlocksAfter(d, slot)
<1>1. Indexed(e) = {b \in Indexed(d) : b.slot <= slot}
  BY DeletionIndexed
<1>2. e.vote = {v \in d.vote : v.slot <= slot}
  <2>1. DOMAIN d = {"block", "tx", "poll", "proposal", "state", "vote"}
    BY DEF DbOK, Database
  <2> HIDE DEF e
  <2>2. e = [table \in DOMAIN d |-> {r \in d[table] : r.slot <= slot}]
    BY DeletionIsExact DEF e
  <2> QED  BY <2>1, <2>2
<1> HIDE DEF e
<1>3. VoteOrigin(e)
  BY <1>1, <1>2 DEF VotesOK, VoteOrigin, CastAt
<1>4. VotesOrdered(e)
  BY <1>1, <1>2 DEF VotesOK, VotesOrdered
<1> QED  BY <1>3, <1>4 DEF VotesOK, e

\* The accepted entry adds rows numbered after every vote there is.
LEMMA VotesInserted ==
  ASSUME IInv, LinkInv, LedgerInv, VoteInv, NEW i \in todo, HandleVotes(i),
         work' # work
  PROVE  VotesOK(work)' /\ VotesTaken'
<1> DEFINE e == Tx.votes[i]
           rows == RowsOfVote(work, Tx, e, current.slot)
<1>1. /\ pc = "insert" /\ Tx \in Txs /\ Ready(work, current.slot)
      /\ i \in 1 .. Len(Tx.votes) /\ todo \subseteq 0 .. Len(Tx.votes)
  BY HandlerFacts, TxsAssumption DEF HandleVotes
<1>2. /\ work' = InsertPollVote(work, Tx, e, current.slot)
      /\ todo' = todo \ {i} /\ UNCHANGED <<pc, current, at>>
  BY DEF HandleVotes
<1>3. work'.vote = work.vote \cup rows /\ Indexed(work') = Indexed(work)
  <2> DEFINE u == UpsertTransaction(work, Tx, current.slot)
  <2>1. u.vote = work.vote /\ u.block = work.block /\ u \in Database
    BY <1>1, UpsertTransactionOK DEF Ready, DbOK
  <2>2. work' = [u EXCEPT !.vote = u.vote \cup rows]
    BY <1>2 DEF InsertPollVote
  <2> HIDE DEF u, rows
  <2> QED  BY <2>1, <2>2 DEF Database, Indexed
<1>4. NextId(work.vote) \in Nat /\ \A v \in work.vote : v.id < NextId(work.vote) /\ v.id \in Nat
  BY <1>1, NextIdFresh DEF Ready, DbOK, Database, VoteRows
<1>5. \A v \in rows : /\ v.id = NextId(work.vote) /\ v.slot = current.slot /\ v.tx = Tx.hash
                       /\ v.proposal \in DOMAIN e.choices
  BY DEF RowsOfVote
<1>6. \A v \in work.vote : v.slot <= current.slot /\ v.slot \in Nat /\ current.slot \in Nat
  BY <1>1 DEF Ready, DbOK, RowsOrdered, HasBlock, BlocksUpTo, Database, VoteRows
<1>7. /\ current \in Indexed(work) /\ current \in Block /\ TxsOf(current) = current.body
      /\ at \in DOMAIN TxsOf(current) /\ at \in Nat /\ i \in DOMAIN Tx.votes /\ i \in Nat
  <2>1. current \in Block /\ Indexable(current) /\ at \in 0 .. Len(current.body) /\ at > 0
    BY <1>1 DEF IInv, TypeOK, CursorOK
  <2>2. current.body \in Seq(Txs)
    BY CurrentTx DEF IInv
  <2> QED  BY <1>1, <2>1, <2>2, TxsAssumption DEF LinkInv, TransactionOK, TxsOf
<1> HIDE DEF rows
<1>8. \A v \in rows : CastAt(v, current, at, i)
  BY <1>5, <1>7 DEF CastAt, Tx
<1>9. VoteOrigin(work')
  BY <1>3, <1>7, <1>8 DEF VoteInv, VotesOK, VoteOrigin
<1>10. VotesOrdered(work')
  <2>1. ASSUME NEW b \in Indexed(work), NEW k \in DOMAIN TxsOf(b), TxsOf(b)[k].hash = Tx.hash
        PROVE  b = current /\ k = at
    BY <1>7, <2>1 DEF LedgerInv, TxUnique, Tx
  <2>2. ASSUME NEW b \in Indexed(work), NEW k \in DOMAIN TxsOf(b), NEW w \in work.vote,
               b = current, w.slot = b.slot, TxsOf(b)[k].hash = w.tx
        PROVE  k <= at
    <3>1. PICK k1, m \in Nat : CastAt(w, current, k1, m) /\ k1 <= at
      BY <1>1, <2>2 DEF VoteInv, VotesTaken
    <3>2. k1 = k
      BY <1>7, <2>2, <3>1 DEF CastAt, LedgerInv, TxUnique
    <3> QED  BY <3>1, <3>2
  <2> SUFFICES ASSUME NEW v \in work'.vote, NEW w \in work'.vote,
                      \/ v.slot < w.slot
                      \/ \E b \in Indexed(work) :
                           /\ b.slot = v.slot /\ b.slot = w.slot
                           /\ \E k, l \in DOMAIN TxsOf(b) :
                                k < l /\ TxsOf(b)[k].hash = v.tx /\ TxsOf(b)[l].hash = w.tx
               PROVE  v.id < w.id
    BY <1>3 DEF VotesOrdered
  <2>3. CASE v \in work.vote /\ w \in work.vote
    BY <2>3 DEF VoteInv, VotesOK, VotesOrdered
  <2>4. CASE v \in work.vote /\ w \in rows
    BY <1>4, <1>5, <2>4
  <2>5. CASE v \in rows
    <3>1. w \in work.vote \cup rows /\ v.slot = current.slot
      BY <1>3, <1>5, <2>5
    <3>2. ~(v.slot < w.slot)
      BY <1>5, <1>6, <1>7, <3>1 DEF Block
    <3>3. PICK b \in Indexed(work) :
            /\ b.slot = v.slot /\ b.slot = w.slot
            /\ \E k, l \in DOMAIN TxsOf(b) :
                 k < l /\ TxsOf(b)[k].hash = v.tx /\ TxsOf(b)[l].hash = w.tx
      BY <3>2
    <3>4. PICK k, l \in DOMAIN TxsOf(b) :
            k < l /\ TxsOf(b)[k].hash = v.tx /\ TxsOf(b)[l].hash = w.tx
      BY <3>3
    <3>5. b = current /\ k = at
      BY <1>5, <2>1, <2>5, <3>4
    <3>6. l \in Nat /\ at < l
      BY <1>7, <3>4, <3>5, TxsOfType
    <3>7. CASE w \in work.vote
      BY <1>7, <2>2, <3>3, <3>4, <3>5, <3>6, <3>7
    <3>8. CASE w \in rows
      BY <1>5, <1>7, <2>1, <3>4, <3>6, <3>8
    <3> QED  BY <3>1, <3>7, <3>8
  <2> QED  BY <1>3, <2>3, <2>4, <2>5
<1>11. VotesTaken'
  <2> SUFFICES ASSUME NEW v \in work'.vote, v.slot = current.slot
               PROVE  \E k, m \in Nat : /\ CastAt(v, current, k, m)
                                        /\ k <= at /\ (k = at => m \notin todo')
    BY <1>2 DEF VotesTaken, CastAt
  <2>1. CASE v \in rows
    BY <1>2, <1>7, <1>8, <2>1
  <2>2. CASE v \in work.vote
    <3>1. PICK k, m \in Nat : CastAt(v, current, k, m) /\ k <= at /\ (k = at => m \notin todo)
      BY <1>1, <2>2 DEF VoteInv, VotesTaken
    <3> QED  BY <1>2, <3>1
  <2> QED  BY <1>3, <2>1, <2>2
<1> QED  BY <1>9, <1>10, <1>11 DEF VotesOK, VoteOrigin, VotesOrdered, Indexed, CastAt

\* There are no votes at the start.
LEMMA VoteInit == Init => VoteInv
BY DEF Init, EmptyDb, VoteInv, VotesOK, VoteOrigin, VotesOrdered, VotesTaken

\* Votes are added in the order of the chain and removed from its end.
LEMMA VoteStep == IInv /\ LinkInv /\ LedgerInv /\ VoteInv /\ [Next]_vars => VoteInv'
<1> SUFFICES ASSUME IInv, LinkInv, LedgerInv, VoteInv, [Next]_vars PROVE VoteInv'
  OBVIOUS
<1>1. CASE \/ Node \/ SkipBlock \/ BeginRollback \/ ReadResumePoint \/ Resume \/ ResumeFails
           \/ UNCHANGED vars
  <2>1. /\ UNCHANGED <<txVars, db>>
        /\ pc' = "insert" => pc = "insert"
    BY <1>1 DEF Node, Mint, Reorganize, SkipBlock, BeginRollback, ReadResumePoint, Resume,
       ResumeFails, Awaits, vars, txVars
  <2> QED  BY <2>1 DEF VoteInv, VotesOK, VoteOrigin, VotesOrdered, VotesTaken, CastAt, Indexed,
              txVars
<1>2. CASE BeginBlock
  <2>1. work = db /\ work'.vote = db.vote /\ db' = db /\ current' = NextBlock
    BY <1>2, StoredOnChain DEF BeginBlock, InsertBlock, IInv, DbOK, Database
  <2>2. Indexed(db) \subseteq Indexed(work')
    BY <1>2 DEF BeginBlock, InsertBlock, IInv, DbOK, Database, Indexed
  <2>3. \A v \in db.vote : v.slot < NextBlock.slot
    <3>1. BlocksUpTo(db, PointAt(sent).slot)
      BY <1>2 DEF IInv, CursorOK, BeginBlock
    <3>2. PointAt(sent).slot < NextBlock.slot /\ NextBlock \in Block /\ PointAt(sent) \in Block
      BY <1>2, NextBlockFacts, ChainFacts, PointType DEF BeginBlock, IInv
    <3>3. \A v \in db.vote : v.slot \in Nat /\ v.slot <= PointAt(sent).slot
      BY <3>1 DEF IInv, DbOK, RowsOrdered, HasBlock, BlocksUpTo, Database, VoteRows
    <3> QED  BY <3>2, <3>3 DEF Block
  <2>4. VotesTaken'
    <3>1. \A v \in work'.vote : v.slot # current'.slot
      <4>1. \A v \in db.vote : v.slot \in Nat
        BY DEF IInv, DbOK, Database, VoteRows
      <4>2. NextBlock.slot \in Nat
        BY <1>2, NextBlockFacts DEF BeginBlock, Block
      <4> QED  BY <2>1, <2>3, <4>1, <4>2
    <3> QED  BY <3>1 DEF VotesTaken
  <2>5. VoteOrigin(work')
    BY <2>1, <2>2 DEF VoteInv, VotesOK, VoteOrigin
  <2>6. VotesOrdered(work')
    <3> SUFFICES ASSUME NEW v \in db.vote, NEW w \in db.vote,
                        NEW b \in Indexed(work'), b.slot = v.slot,
                        NEW k \in DOMAIN TxsOf(b), NEW l \in DOMAIN TxsOf(b),
                        k < l, TxsOf(b)[k].hash = v.tx, TxsOf(b)[l].hash = w.tx, b.slot = w.slot
                 PROVE  v.id < w.id
      BY <2>1 DEF VotesOrdered, VoteInv, VotesOK
    <3>1. b \in Indexed(db) \/ b = NextBlock
      BY <1>2, <2>1, IndexedStep DEF BeginBlock, LinkInv, TransactionOK
    <3>2. b # NextBlock
      <4>1. v.slot \in Nat /\ v.slot < NextBlock.slot /\ NextBlock.slot \in Nat
        BY <1>2, <2>3, NextBlockFacts DEF BeginBlock, Block, IInv, DbOK, Database, VoteRows
      <4> QED  BY <4>1
    <3> QED  BY <3>1, <3>2 DEF VoteInv, VotesOK, VotesOrdered
  <2> QED  BY <2>1, <2>4, <2>5, <2>6 DEF VoteInv, VotesOK, VoteOrigin, VotesOrdered, CastAt, Indexed
<1>3. CASE TakeTx
  <2>1. /\ pc = "insert" /\ at' = at + 1 /\ at \in Nat
        /\ UNCHANGED <<pc, current, work, db>>
    BY <1>3, CurrentTx DEF TakeTx, IInv, TypeOK
  <2>2. VotesTaken'
    <3> SUFFICES ASSUME NEW v \in work.vote, v.slot = current.slot
                 PROVE  \E k, m \in Nat : /\ CastAt(v, current, k, m)
                                          /\ k <= at' /\ (k = at' => m \notin todo')
      BY <2>1 DEF VotesTaken, CastAt
    <3>1. PICK k, m \in Nat : CastAt(v, current, k, m) /\ k <= at
      BY <2>1 DEF VoteInv, VotesTaken
    <3> QED  BY <2>1, <3>1
  <2> QED  BY <2>1, <2>2 DEF VoteInv, VotesOK, VoteOrigin, VotesOrdered, CastAt, Indexed
<1>4. CASE HandleGovernance
  <2>1. /\ pc = "insert" /\ todo' = todo \ {0} /\ UNCHANGED <<pc, current, at, db>>
    BY <1>4 DEF HandleGovernance
  <2>2. work'.vote = work.vote
    BY <1>4, HandlerFacts, GovernanceKeepsVotes DEF HandleGovernance
  <2>3. Indexed(work') = Indexed(work)
    <3>1. ProcessGovernance(work, Tx, current.slot).block = work.block
      BY <1>4, HandlerFacts, ProcessGovernanceOK DEF HandleGovernance
    <3> QED  BY <1>4, <3>1 DEF HandleGovernance, Indexed
  <2>4. VotesTaken'
    BY <2>1, <2>2 DEF VoteInv, VotesTaken, CastAt
  <2>5. VotesOK(work')
    BY <2>2, <2>3 DEF VoteInv, VotesOK, VoteOrigin, VotesOrdered
  <2> QED  BY <2>1, <2>4, <2>5 DEF VoteInv, VotesOK, VoteOrigin, VotesOrdered, CastAt, Indexed
<1>5. ASSUME NEW i \in todo, HandleVotes(i) PROVE VoteInv'
  <2>1. pc = "insert" /\ todo' = todo \ {i} /\ UNCHANGED <<pc, current, at, db>>
    BY <1>5 DEF HandleVotes
  <2>2. VotesOK(work)' /\ VotesTaken'
    <3>1. CASE work' = work
      <4>1. VotesTaken'
        BY <2>1, <3>1 DEF VoteInv, VotesTaken, CastAt
      <4> QED  BY <3>1, <4>1 DEF VoteInv, VotesOK, VoteOrigin, VotesOrdered, CastAt, Indexed
    <3>2. CASE work' # work
      BY <1>5, <3>2, VotesInserted
    <3> QED  BY <3>1, <3>2
  <2> QED  BY <2>1, <2>2 DEF VoteInv, VotesOK, VoteOrigin, VotesOrdered, CastAt, Indexed
<1>6. CASE Commit \/ Crash \/ ConnectionLost
  <2>1. pc' # "insert" /\ db' \in {db, work} /\ (work' = db' \/ work' = work)
    BY <1>6 DEF Commit, Crash, ConnectionLost, Disconnected, txVars
  <2>2. VotesTaken' /\ VotesOK(db') /\ VotesOK(work')
    BY <2>1 DEF VoteInv, VotesTaken
  <2> QED  BY <2>2 DEF VoteInv, VotesOK, VoteOrigin, VotesOrdered, CastAt, Indexed
<1>7. CASE RollBackToPoint
  <2>1. point.slot \in Nat /\ DbOK(db)
    BY <1>7 DEF IInv, CursorOK, RollBackToPoint, Block
  <2>2. VotesOK(db') /\ work' = db' /\ pc' = "idle"
    BY <1>7, <2>1, VotesAfterDeletion DEF RollBackToPoint, VoteInv
  <2> QED  BY <2>2 DEF VoteInv, VotesTaken, VotesOK, VoteOrigin, VotesOrdered, CastAt, Indexed
<1> QED  BY <1>1, <1>2, <1>3, <1>4, <1>5, <1>6, <1>7 DEF Next, Sync

\* Every stored vote was cast in a stored block, and ids follow the order of the
\* casting transactions, within the open transaction as well.
THEOREM VoteInvariance == Spec => []VoteInv
<1>1. Init => VoteInv
  BY VoteInit
<1>2. IInv /\ LinkInv /\ LedgerInv /\ VoteInv /\ [Next]_vars => VoteInv'
  BY VoteStep
<1> QED  BY <1>1, <1>2, Invariance, LinkInvariance, LedgerInvariance, PTL DEF Spec

\* Votes are numbered in the order they were cast on chain, whatever the order
\* in which handlers settle, rollbacks and failures: the last vote of a user is
\* the one the queries take for it.
THEOREM VoteIdsCorrect == Spec => []VoteIdsFollowChain
<1>1. ASSUME IInv, VoteInv PROVE VoteIdsFollowChain
  <2>1. \A r \in db.block : r.hash \in Indexed(db) /\ r.hash.slot = r.slot
    BY <1>1 DEF IInv, DbOK, RowsOrdered, Indexed
  <2> QED  BY <1>1, <2>1 DEF VoteInv, VotesOK, VotesOrdered, VoteIdsFollowChain, CastEarlier
<1> QED  BY <1>1, Invariance, VoteInvariance, PTL
-----------------------------------------------------------------------------
(* No block of the chain is lost. *)

\* Without two entries for one proposal, no statement of a handler fails.
LEMMA NoCollision ==
  ASSUME OneVotePerProposal, IInv, LinkInv, LedgerInv, VoteInv, ~aborted,
         NEW i \in todo, HandleVotes(i)
  PROVE  ~aborted'
<1> DEFINE e == Tx.votes[i]
           rows == RowsOfVote(work, Tx, e, current.slot)
<1> SUFFICES ASSUME NEW r \in rows, NEW v \in work.vote, v.tx = r.tx, v.proposal = r.proposal
             PROVE  FALSE
  BY DEF HandleVotes, VoteCollides, IInv, TypeOK
<1>1. /\ pc = "insert" /\ Tx \in Txs /\ Ready(work, current.slot)
      /\ i \in 1 .. Len(Tx.votes) /\ todo \subseteq 0 .. Len(Tx.votes)
  BY HandlerFacts, TxsAssumption DEF HandleVotes
<1>2. r.tx = Tx.hash /\ r.proposal \in DOMAIN e.choices
  BY DEF RowsOfVote
<1>3. /\ current \in Indexed(work) /\ current \in Block /\ TxsOf(current) = current.body
      /\ at \in DOMAIN TxsOf(current) /\ current.body \in Bodies \ {NotPraos, NoTransactions}
  <2>1. current \in Block /\ Indexable(current) /\ at \in 0 .. Len(current.body) /\ at > 0
    BY <1>1 DEF IInv, TypeOK, CursorOK
  <2>2. current.body \in Seq(Txs)
    BY CurrentTx DEF IInv
  <2>3. current.body # <<>>
    BY <2>1
  <2> QED  BY <1>1, <2>1, <2>2, <2>3 DEF LinkInv, TransactionOK, TxsOf, Block, Indexable
<1>4. PICK b \in Indexed(work) : \E k, m \in Nat : CastAt(v, b, k, m)
  BY DEF VoteInv, VotesOK, VoteOrigin
<1>5. b = current
  BY <1>2, <1>3, <1>4 DEF CastAt, LedgerInv, TxUnique, Tx
<1>6. v.slot = current.slot
  BY <1>4, <1>5 DEF CastAt
<1>7. PICK k, m \in Nat : CastAt(v, current, k, m) /\ k <= at /\ (k = at => m \notin todo)
  BY <1>1, <1>6 DEF VoteInv, VotesTaken
<1>8. k = at
  BY <1>2, <1>3, <1>7 DEF CastAt, LedgerInv, TxUnique, Tx
<1>9. m # i /\ m \in DOMAIN Tx.votes /\ v.proposal \in DOMAIN Tx.votes[m].choices
  BY <1>3, <1>7, <1>8 DEF CastAt, Tx
<1>10. i \in DOMAIN Tx.votes
  BY <1>1, TxsAssumption
<1> QED  BY <1>2, <1>3, <1>9, <1>10 DEF OneVotePerProposal, Tx

\* Without two votes of a transaction on one proposal and without a text that
\* PostgreSQL refuses, no statement fails.
LEMMA NeverAborted ==
  ASSUME OneVotePerProposal, TextsStorable, IInv, LinkInv, LedgerInv, VoteInv, ~aborted,
         [Next]_vars
  PROVE  ~aborted'
<1>1. CASE \E i \in todo : HandleVotes(i)
  BY <1>1, NoCollision
<1>2. CASE HandleGovernance
  <2>1. Tx \in Txs
    BY <1>2, HandlerFacts DEF HandleGovernance
  <2>2. ~StatementRefused(work, Tx)
    BY <2>1 DEF StatementRefused, TextsStorable
  <2> QED  BY <1>2, <2>2 DEF HandleGovernance
<1>3. CASE ~HandleGovernance /\ ~\E i \in todo : HandleVotes(i)
  BY <1>3 DEF Next, Node, Mint, Reorganize, Sync, SkipBlock, BeginBlock, TakeTx,
     Commit, BeginRollback, RollBackToPoint, ReadResumePoint, Resume,
     ResumeFails, Crash, ConnectionLost, txVars, vars
<1> QED  BY <1>1, <1>2, <1>3

\* Nothing is missing at the start; then one lemma for each step.
LEMMA SyncInit == Init => SyncInv
<1> SUFFICES ASSUME Init PROVE SyncInv
  OBVIOUS
<1>1. Indexed(work) = {} /\ Indexed(db) = {}
  BY DEF Init, EmptyDb, Indexed
<1> QED  BY <1>1 DEF Init, SyncInv, NoGaps, Following

\* A step that leaves the chain, the place on it and the stored blocks alone.
LEMMA SyncStable ==
  ASSUME SyncInv, ~aborted', UNCHANGED chain, Indexed(db') = Indexed(db),
         Indexed(work') = Indexed(work), Following' => Following /\ sent' = sent
  PROVE  SyncInv'
<1>1. NoGaps(Indexed(db))' /\ NoGaps(Indexed(work))'
  BY DEF SyncInv, NoGaps, StoredTo, Indexable, Indexed
<1>2. (Following => StoredTo(Indexed(work), sent))'
  BY DEF SyncInv, Following, StoredTo, Indexable, Indexed
<1> QED  BY <1>1, <1>2 DEF SyncInv

LEMMA SyncNode == ASSUME IInv, LinkInv, SyncInv, Node, ~aborted' PROVE SyncInv'
<1>1. /\ Len(chain) \in Nat /\ sent \in 0 .. Len(chain) /\ immutable \in 0 .. Len(chain)
  BY ChainFacts
<1>2. UNCHANGED <<pc, work, db, aborted>>
  BY DEF Node, Mint, Reorganize, txVars
<1>3. PICK m \in 0 .. Len(chain) :
        /\ \A j \in 1 .. m : chain'[j] = chain[j]
        /\ sent' \in 0 .. m /\ sent' <= sent
        /\ \A j \in 1 .. Len(chain') : j \in 1 .. m \/ chain'[j] \notin Indexed(work)
  <2>1. ASSUME NEW body \in Bodies, NEW slot \in 1 .. MaxSlot, Mint(body, slot)
        PROVE  /\ Len(chain) \in 0 .. Len(chain)
               /\ \A j \in 1 .. Len(chain) : chain'[j] = chain[j]
               /\ sent' = sent
               /\ \A j \in 1 .. Len(chain') :
                    j \in 1 .. Len(chain) \/ chain'[j] \notin Indexed(work)
    <3>1. chain'[Len(chain) + 1] \notin Indexed(work)
      <4>0. /\ chain'[Len(chain) + 1] = [n |-> minted + 1, slot |-> slot, body |-> body]
            /\ minted \in Nat
        BY <2>1, MintFacts
      <4>1. chain'[Len(chain) + 1].n = minted + 1 /\ minted \in Nat
        BY <4>0
      <4>2. \A b \in Indexed(work) : b.n \in 1 .. minted
        BY DEF LinkInv, Numbered
      <4> QED  BY <4>1, <4>2
    <3> QED  BY <1>1, <2>1, <3>1, MintFacts DEF Mint, linkVars
  <2>2. ASSUME NEW i \in immutable .. Len(chain) - 1, Reorganize(i)
        PROVE  /\ i \in 0 .. Len(chain)
               /\ \A j \in 1 .. i : chain'[j] = chain[j]
               /\ sent' \in 0 .. i /\ sent' <= sent /\ Len(chain') = i
    BY <1>1, <2>2, ReorganizeFacts
  <2>3. CASE \E body \in Bodies, slot \in 1 .. MaxSlot : Mint(body, slot)
    BY <1>1, <2>1, <2>3
  <2>4. CASE \E i \in immutable .. Len(chain) - 1 : Reorganize(i)
    <3>1. PICK i \in immutable .. Len(chain) - 1 : Reorganize(i)
      BY <2>4
    <3> QED  BY <2>2, <3>1
  <2> QED  BY <2>3, <2>4 DEF Node
<1>4. ASSUME NEW S, S \subseteq Indexed(work), NoGaps(S)
      PROVE  \A j \in 1 .. Len(chain') : chain'[j] \in S =>
               \A k \in 1 .. j : Indexable(chain'[k]) => chain'[k] \in S
  <2> SUFFICES ASSUME NEW j \in 1 .. Len(chain'), chain'[j] \in S, NEW k \in 1 .. j,
                      Indexable(chain'[k])
               PROVE  chain'[k] \in S
    OBVIOUS
  <2>1. j \in 1 .. m
    BY <1>3, <1>4
  <2>2. k \in 1 .. m /\ j \in 1 .. Len(chain)
    BY <1>1, <2>1
  <2>3. chain'[k] = chain[k] /\ chain'[j] = chain[j]
    BY <1>3, <2>1, <2>2
  <2> QED  BY <1>4, <2>2, <2>3 DEF NoGaps, StoredTo
<1>5. Indexed(db) \subseteq Indexed(work)
  BY DEF LinkInv, TransactionOK
<1>6. NoGaps(Indexed(db))' /\ NoGaps(Indexed(work))'
  BY <1>2, <1>4, <1>5 DEF SyncInv, NoGaps, StoredTo, Indexable, Indexed
<1>7. (Following => StoredTo(Indexed(work), sent))'
  <2> SUFFICES ASSUME Following, NEW j \in 1 .. sent', Indexable(chain'[j])
               PROVE  chain'[j] \in Indexed(work)
    BY <1>2 DEF Following, StoredTo, Indexable, Indexed
  <2>1. j \in 1 .. sent /\ chain'[j] = chain[j]
    BY <1>1, <1>3
  <2> QED  BY <2>1 DEF SyncInv, StoredTo
<1> QED  BY <1>6, <1>7 DEF SyncInv

LEMMA SyncBeginBlock == ASSUME IInv, LinkInv, SyncInv, BeginBlock PROVE SyncInv'
<1>1. /\ sent + 1 \in 1 .. Len(chain) /\ sent \in Nat /\ sent' = sent + 1
      /\ chain' = chain /\ db' = db /\ aborted' = aborted /\ NextBlock = chain[sent + 1]
  BY ChainFacts, NextBlockFacts DEF BeginBlock, nodeVars, NextBlock
<1>2. work = db /\ Indexed(db) \subseteq ChainTo(sent)
  BY StoredOnChain DEF BeginBlock
<1>3. Indexed(work') = Indexed(db) \cup {NextBlock}
  BY <1>1, <1>2, LinkBeginBlock DEF BeginBlock, LinkInv, TransactionOK, Indexed
<1>4. StoredTo(Indexed(db), sent)
  BY <1>2 DEF SyncInv, BeginBlock, Awaits, Following
<1>5. StoredTo(Indexed(work'), sent + 1)
  <2> SUFFICES ASSUME NEW j \in 1 .. sent + 1, Indexable(chain[j]) PROVE chain[j] \in Indexed(work')
    BY DEF StoredTo
  <2>1. CASE j = sent + 1
    BY <1>1, <1>3, <2>1
  <2>2. CASE j \in 1 .. sent
    BY <1>3, <1>4, <2>2 DEF StoredTo
  <2> QED  BY <1>1, <2>1, <2>2
<1>6. NoGaps(Indexed(work'))
  <2> SUFFICES ASSUME NEW i \in 1 .. Len(chain), chain[i] \in Indexed(work'),
                      NEW j \in 1 .. i, Indexable(chain[j])
               PROVE  chain[j] \in Indexed(work')
    BY DEF NoGaps, StoredTo
  <2>1. i <= sent + 1
    <3>1. PICK k \in 1 .. sent + 1 : chain[i] = chain[k]
      BY <1>1, <1>2, <1>3 DEF ChainTo
    <3> QED  BY <1>1, <3>1, ChainFacts
  <2> QED  BY <1>1, <1>5, <2>1 DEF StoredTo
<1> QED  BY <1>1, <1>5, <1>6 DEF SyncInv, NoGaps, StoredTo, Indexable, Indexed

LEMMA SyncRollBackToPoint == ASSUME IInv, LinkInv, SyncInv, RollBackToPoint PROVE SyncInv'
<1> DEFINE S == Indexed(db)
           T == Indexed(db')
<1>1. /\ pc = "rollback" /\ work' = db' /\ UNCHANGED <<chain, sent, aborted>>
      /\ db' = DeleteBlocksAfter(db, point.slot)
  BY DEF RollBackToPoint, nodeVars, linkVars
<1>2. DbOK(db) /\ point.slot \in Nat /\ work = db /\ PointAt(sent).slot <= point.slot
  BY <1>1 DEF IInv, CursorOK, Block, LinkInv, TransactionOK, PointOK
<1>3. T = {b \in S : b.slot <= point.slot}
  BY <1>1, <1>2, DeletionIndexed
<1>4. /\ \A j \in 1 .. Len(chain) : chain[j].slot \in Nat
      /\ \A i, j \in 1 .. Len(chain) : j <= i => chain[j].slot <= chain[i].slot
      /\ sent \in 0 .. Len(chain) /\ Len(chain) \in Nat
  <2>1. ASSUME NEW i \in 1 .. Len(chain), NEW j \in 1 .. Len(chain), j <= i
        PROVE  chain[j].slot <= chain[i].slot
    <3>1. j = i \/ chain[j].slot < chain[i].slot
      BY <2>1 DEF IInv, ChainOK
    <3> QED  BY <3>1, ChainFacts
  <2> QED  BY <2>1, ChainFacts
<1>5. NoGaps(T)
  <2> SUFFICES ASSUME NEW i \in 1 .. Len(chain), chain[i] \in T,
                      NEW j \in 1 .. i, Indexable(chain[j])
               PROVE  chain[j] \in T
    BY DEF NoGaps, StoredTo
  <2>1. j \in 1 .. Len(chain) /\ chain[j].slot <= chain[i].slot /\ chain[i].slot <= point.slot
    BY <1>3, <1>4
  <2>2. chain[j] \in S
    BY <1>3 DEF SyncInv, NoGaps, StoredTo
  <2> QED  BY <1>2, <1>3, <1>4, <2>1, <2>2
<1>6. StoredTo(T, sent)
  <2> SUFFICES ASSUME NEW j \in 1 .. sent, Indexable(chain[j]) PROVE chain[j] \in T
    BY DEF StoredTo
  <2>1. chain[j] \in S
    BY <1>1, <1>2 DEF SyncInv, Following, StoredTo
  <2>2. j \in 1 .. Len(chain) /\ chain[j].slot <= PointAt(sent).slot /\ PointAt(sent) = chain[sent]
        /\ sent \in 1 .. Len(chain)
    BY <1>4 DEF PointAt
  <2> QED  BY <1>2, <1>3, <1>4, <2>1, <2>2
<1> QED  BY <1>1, <1>5, <1>6 DEF SyncInv, NoGaps, StoredTo, Indexable, Indexed

LEMMA SyncSkipBlock == ASSUME IInv, LinkInv, SyncInv, SkipBlock PROVE SyncInv'
<1>1. /\ sent \in Nat /\ sent' = sent + 1 /\ ~Indexable(chain[sent + 1])
      /\ UNCHANGED <<chain, db, work, aborted>> /\ Following
  BY ChainFacts DEF SkipBlock, nodeVars, txVars, NextBlock, Awaits, Following
<1>2. StoredTo(Indexed(work), sent)
  BY <1>1 DEF SyncInv
<1>3. StoredTo(Indexed(work), sent + 1)
  <2> SUFFICES ASSUME NEW j \in 1 .. sent + 1, Indexable(chain[j]) PROVE chain[j] \in Indexed(work)
    BY DEF StoredTo
  <2>1. j \in 1 .. sent
    BY <1>1
  <2> QED  BY <1>2, <2>1 DEF StoredTo
<1> QED  BY <1>1, <1>3 DEF SyncInv, NoGaps, StoredTo, Indexable, Indexed

\* The stored blocks reach up to the block the client resumes from.
LEMMA SyncResume == ASSUME IInv, LinkInv, SyncInv, Resume PROVE SyncInv'
<1>1. pc = "resuming" /\ UNCHANGED <<chain, work, db, aborted>>
  BY DEF Resume, nodeVars, txVars
<1>2. PICK i \in 0 .. Len(chain) : PointAt(i) = point /\ sent' = i
  BY DEF Resume
<1>3. work = db /\ (point = Genesis \/ point \in Indexed(work))
  BY <1>1 DEF LinkInv, TransactionOK, PointOK
<1>4. StoredTo(Indexed(work), i)
  <2>1. CASE i = 0
    BY <2>1 DEF StoredTo
  <2>2. CASE i # 0
    <3>1. i \in 1 .. Len(chain) /\ point = chain[i]
      BY <1>2, <2>2, ChainFacts DEF PointAt
    <3>2. point # Genesis
      BY <3>1, ChainFacts DEF Genesis
    <3> QED  BY <1>3, <3>1, <3>2 DEF SyncInv, NoGaps
  <2> QED  BY <2>1, <2>2
<1> QED  BY <1>1, <1>2, <1>4 DEF SyncInv, NoGaps, StoredTo, Indexable, Indexed

\* No step loses a block as long as no block is aborted.
LEMMA SyncStep ==
  ASSUME OneVotePerProposal, TextsStorable, IInv, LinkInv, LedgerInv, VoteInv, SyncInv,
         [Next]_vars
  PROVE  SyncInv'
<1>1. ~aborted'
  BY NeverAborted DEF SyncInv
<1>2. CASE Node
  BY <1>1, <1>2, SyncNode
<1>3. CASE SkipBlock \/ BeginBlock \/ RollBackToPoint \/ Resume
  BY <1>3, SyncSkipBlock, SyncBeginBlock, SyncRollBackToPoint, SyncResume
<1>4. CASE TakeTx \/ HandleGovernance \/ \E i \in todo : HandleVotes(i)
  <2>1. pc = "insert" /\ UNCHANGED <<chain, sent, pc, current, db>>
    BY <1>4 DEF TakeTx, HandleGovernance, HandleVotes, nodeVars, linkVars
  <2>2. Indexed(work') = Indexed(work)
    BY <1>4, <2>1, LinkHandle DEF LinkInv, TransactionOK, Indexed
  <2> QED  BY <1>1, <2>1, <2>2, SyncStable DEF Following
<1>5. CASE Commit
  <2>1. db' = work /\ work' = db' /\ pc = "insert" /\ UNCHANGED <<chain, sent>>
    BY <1>5 DEF Commit, SyncInv, nodeVars, linkVars
  <2>2. StoredTo(Indexed(work), sent)
    BY <2>1 DEF SyncInv, Following
  <2> QED  BY <1>1, <2>1, <2>2 DEF SyncInv, NoGaps, StoredTo, Indexable, Indexed
<1>6. CASE Crash \/ ConnectionLost
  <2>1. pc' = "down" /\ db' = db /\ chain' = chain /\ (work' = db \/ work' = work)
    BY <1>6 DEF Crash, ConnectionLost, Disconnected, nodeVars, txVars
  <2> QED  BY <1>1, <2>1 DEF SyncInv, NoGaps, StoredTo, Indexable, Indexed, Following
<1>7. CASE BeginRollback \/ ReadResumePoint \/ ResumeFails \/ UNCHANGED vars
  <2>1. UNCHANGED <<chain, work, db>> /\ (Following' => Following /\ sent' = sent)
    BY <1>7 DEF BeginRollback, ReadResumePoint, ResumeFails, Awaits, vars, nodeVars, linkVars,
       txVars, Following
  <2> QED  BY <1>1, <2>1, SyncStable DEF Indexed
<1> QED  BY <1>2, <1>3, <1>4, <1>5, <1>6, <1>7 DEF Next, Sync

\* The aggregator follows the chain without losing a block, as long as no
\* transaction has two entries that choose on the same proposal, and none a
\* text that PostgreSQL refuses: with either, a statement of a handler fails,
\* the handler swallows that, and the whole block is dropped.
THEOREM BlocksSyncedCorrect ==
  ASSUME OneVotePerProposal, TextsStorable PROVE Spec => []BlocksSynced
<1>1. Init => SyncInv
  BY SyncInit
<1>2. IInv /\ LinkInv /\ LedgerInv /\ VoteInv /\ SyncInv /\ [Next]_vars => SyncInv'
  BY SyncStep
<1>3. ASSUME IInv, LinkInv, SyncInv PROVE BlocksSynced
  <2> SUFFICES ASSUME Awaits(FALSE)
               PROVE  Indexed(db) = {b \in ChainTo(sent) : Indexable(b)}
    BY DEF BlocksSynced, Indexed, ChainTo
  <2>1. Indexed(db) \subseteq {b \in ChainTo(sent) : Indexable(b)} /\ work = db
    BY <1>3, StoredOnChain DEF LinkInv
  <2>2. StoredTo(Indexed(db), sent)
    BY <1>3, <2>1 DEF SyncInv, Following, Awaits
  <2> QED  BY <2>1, <2>2 DEF StoredTo, ChainTo
<1> QED  BY <1>1, <1>2, <1>3, Invariance, LinkInvariance, LedgerInvariance, VoteInvariance, PTL
         DEF Spec
=============================================================================
