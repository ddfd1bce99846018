------------------------------ MODULE ApiProofs ------------------------------
(***************************************************************************)
(* Proofs about the queries: what they answer is what the chain says.  The *)
(* invariants of the aggregator are carried over the verdicts of the       *)
(* validation job, and joined by the keys of the votes.                    *)
(***************************************************************************)
EXTENDS Api, AggregatorIndexProofs, SumTheorems

JudgedRow(r, v, verdict) ==
  IF VoteFacts(r) = VoteFacts(v) /\ r.verification = "UNVERIFIED"
    THEN [r EXCEPT !.verification = verdict] ELSE r

Judged(d, v, verdict) == [d EXCEPT !.vote = {JudgedRow(r, v, verdict) : r \in @}]

\* A vote is known by its proposal together with its id or its transaction.
KeysOK(d) ==
  \A v, w \in d.vote : v.proposal = w.proposal /\ (v.id = w.id \/ v.tx = w.tx) => v = w

RowsFinite(d) ==
  IsFiniteSet(d.tx) /\ IsFiniteSet(d.proposal) /\ IsFiniteSet(d.state) /\ IsFiniteSet(d.vote)

RowsInv == KeysOK(db) /\ KeysOK(work) /\ RowsFinite(db) /\ RowsFinite(work)

SlotsUnique(S) == \A b, c \in S : b.slot = c.slot => b = c

ChainInv ==
  /\ IInv /\ LinkInv /\ LedgerInv /\ VoteInv /\ IndexInv
  /\ SlotsUnique(Indexed(work)) /\ IsFiniteSet(Indexed(work))

ApiInv == ChainInv /\ RowsInv
-----------------------------------------------------------------------------
(* A verdict changes nothing but the verification of votes. *)

\* A verdict changes one column of a vote.
LEMMA JudgedRowFacts ==
  ASSUME NEW r \in VoteRows, NEW v, NEW verdict \in {"VERIFIED", "INVALID"}
  PROVE  /\ JudgedRow(r, v, verdict) \in VoteRows
         /\ VoteFacts(JudgedRow(r, v, verdict)) = VoteFacts(r)
         /\ JudgedRow(r, v, verdict).id = r.id
         /\ JudgedRow(r, v, verdict).proposal = r.proposal
         /\ JudgedRow(r, v, verdict).poll = r.poll
         /\ JudgedRow(r, v, verdict).tx = r.tx
         /\ JudgedRow(r, v, verdict).slot = r.slot
<1>1. r = [id |-> r.id, owner |-> r.owner, proposal |-> r.proposal, poll |-> r.poll,
           choice |-> r.choice, power |-> r.power, tx |-> r.tx, slot |-> r.slot,
           verification |-> r.verification]
  BY DEF VoteRows
<1>2. CASE VoteFacts(r) = VoteFacts(v) /\ r.verification = "UNVERIFIED"
  <2>1. JudgedRow(r, v, verdict) =
          [id |-> r.id, owner |-> r.owner, proposal |-> r.proposal, poll |-> r.poll,
           choice |-> r.choice, power |-> r.power, tx |-> r.tx, slot |-> r.slot,
           verification |-> verdict]
    BY <1>1, <1>2 DEF JudgedRow
  <2> QED  BY <2>1 DEF VoteRows, VoteFacts
<1>3. CASE ~(VoteFacts(r) = VoteFacts(v) /\ r.verification = "UNVERIFIED")
  BY <1>3 DEF JudgedRow
<1> QED  BY <1>2, <1>3

\* The tables after a verdict.
LEMMA JudgedTables ==
  ASSUME NEW d, d \in Database, NEW v, NEW verdict \in {"VERIFIED", "INVALID"}
  PROVE  LET e == Judged(d, v, verdict)
         IN  /\ e \in Database
             /\ e.block = d.block /\ e.tx = d.tx /\ e.poll = d.poll
             /\ e.proposal = d.proposal /\ e.state = d.state
             /\ e.vote = {JudgedRow(r, v, verdict) : r \in d.vote}
             /\ Indexed(e) = Indexed(d) /\ TablesIn(e) = TablesIn(d)
<1> DEFINE e == Judged(d, v, verdict)
           rows == {JudgedRow(r, v, verdict) : r \in d.vote}
<1>1. d.vote \subseteq VoteRows
  BY DEF Database
<1>2. rows \subseteq VoteRows /\ \A r \in d.vote : VoteFacts(JudgedRow(r, v, verdict)) = VoteFacts(r)
  BY <1>1, JudgedRowFacts
<1>3. e = [d EXCEPT !.vote = rows]
  BY DEF Judged
<1>4. {VoteFacts(r) : r \in rows} = {VoteFacts(r) : r \in d.vote}
  <2> HIDE DEF e
  <2> QED  BY <1>2
<1> HIDE DEF rows, e
<1>5. /\ e.block = d.block /\ e.tx = d.tx /\ e.poll = d.poll
      /\ e.proposal = d.proposal /\ e.state = d.state /\ e.vote = rows
      /\ e \in Database
  BY <1>2, <1>3 DEF Database
<1>6. Indexed(e) = Indexed(d) /\ TablesIn(e) = TablesIn(d)
  BY <1>4, <1>5 DEF Indexed, TablesIn
<1> QED  BY <1>5, <1>6 DEF rows, e

\* Ids, keys and the order of votes do not depend on verdicts.
LEMMA JudgedOK ==
  ASSUME NEW d, DbOK(d), NEW v, NEW verdict \in {"VERIFIED", "INVALID"}
  PROVE  /\ DbOK(Judged(d, v, verdict))
         /\ VotesOK(d) => VotesOK(Judged(d, v, verdict))
         /\ KeysOK(d) => KeysOK(Judged(d, v, verdict))
         /\ RowsFinite(d) => RowsFinite(Judged(d, v, verdict))
<1> DEFINE e == Judged(d, v, verdict)
           J(r) == JudgedRow(r, v, verdict)
<1>1. d \in Database /\ d.vote \subseteq VoteRows
  BY DEF DbOK, Database
<1>2. /\ e \in Database
      /\ e.block = d.block /\ e.tx = d.tx /\ e.poll = d.poll
      /\ e.proposal = d.proposal /\ e.state = d.state
      /\ e.vote = {J(r) : r \in d.vote}
      /\ Indexed(e) = Indexed(d)
  BY <1>1, JudgedTables
<1>3. \A r \in d.vote : /\ J(r).id = r.id /\ J(r).proposal = r.proposal /\ J(r).poll = r.poll
                        /\ J(r).tx = r.tx /\ J(r).slot = r.slot
  BY <1>1, JudgedRowFacts
<1> HIDE DEF e, J
<1>4. DbOK(e)
  <2>1. IdsBounded(e.vote)
    BY <1>2, <1>3 DEF DbOK, IdsBounded
  <2>2. RowsOrdered(e)
    BY <1>2, <1>3 DEF DbOK, RowsOrdered, HasBlock
  <2>3. BlockIdsOrdered(e)
    BY <1>2 DEF DbOK, BlockIdsOrdered
  <2> QED  BY <1>2, <2>1, <2>2, <2>3 DEF DbOK
<1>5. ASSUME VotesOK(d) PROVE VotesOK(e)
  <2>1. VoteOrigin(e)
    BY <1>2, <1>3, <1>5 DEF VotesOK, VoteOrigin, CastAt
  <2>2. VotesOrdered(e)
    BY <1>2, <1>3, <1>5 DEF VotesOK, VotesOrdered
  <2> QED  BY <2>1, <2>2 DEF VotesOK
<1>6. ASSUME KeysOK(d) PROVE KeysOK(e)
  BY <1>2, <1>3, <1>6 DEF KeysOK
<1>7. ASSUME RowsFinite(d) PROVE RowsFinite(e)
  <2>1. IsFiniteSet(e.vote)
    <3>1. IsFiniteSet(d.vote)
      BY <1>7 DEF RowsFinite
    <3> DEFINE f == [r \in d.vote |-> J(r)]
    <3>2. IsFiniteSet({f[r] : r \in d.vote})
      BY <3>1, ImageIsFinite
    <3> QED  BY <1>2, <3>2
  <2> QED  BY <1>2, <1>7, <2>1 DEF RowsFinite
<1> QED  BY <1>4, <1>5, <1>6, <1>7 DEF e

\* What the action changes.
LEMMA VerifyFacts ==
  ASSUME IInv, NEW v, NEW verdict \in {"VERIFIED", "INVALID"}, Verify(v, verdict)
  PROVE  /\ db' = Judged(db, v, verdict) /\ work' = Judged(work, v, verdict)
         /\ chain' = chain /\ minted' = minted /\ immutable' = immutable
         /\ sent' = sent /\ mustRollBack' = mustRollBack /\ pc' = pc /\ point' = point
         /\ current' = current /\ at' = at /\ todo' = todo /\ aborted' = aborted
         /\ latestBlock' = latestBlock /\ failures' = failures
BY DEF Verify, Judged, JudgedRow, nodeVars, linkVars

\* What the invariants speak of, after the action.
LEMMA VerifyKeeps ==
  ASSUME IInv, NEW v, NEW verdict \in {"VERIFIED", "INVALID"}, Verify(v, verdict)
  PROVE  /\ db' \in Database /\ work' \in Database /\ DbOK(db') /\ DbOK(work')
         /\ db'.block = db.block /\ work'.block = work.block
         /\ Indexed(db') = Indexed(db) /\ Indexed(work') = Indexed(work)
         /\ TablesIn(db') = TablesIn(db) /\ TablesIn(work') = TablesIn(work)
<1>1. db' = Judged(db, v, verdict) /\ work' = Judged(work, v, verdict)
  BY VerifyFacts
<1>2. db \in Database /\ work \in Database /\ DbOK(db) /\ DbOK(work)
  BY DEF IInv, TypeOK
<1>3. /\ Judged(db, v, verdict) \in Database /\ Judged(db, v, verdict).block = db.block
      /\ Indexed(Judged(db, v, verdict)) = Indexed(db)
      /\ TablesIn(Judged(db, v, verdict)) = TablesIn(db)
  BY <1>2, JudgedTables
<1>4. /\ Judged(work, v, verdict) \in Database /\ Judged(work, v, verdict).block = work.block
      /\ Indexed(Judged(work, v, verdict)) = Indexed(work)
      /\ TablesIn(Judged(work, v, verdict)) = TablesIn(work)
  BY <1>2, JudgedTables
<1>5. DbOK(Judged(db, v, verdict)) /\ DbOK(Judged(work, v, verdict))
  BY <1>2, JudgedOK
<1> QED  BY <1>1, <1>3, <1>4, <1>5

\* The invariants of the aggregator, one after the other.
LEMMA VerifyIInv ==
  ASSUME IInv, NEW v, NEW verdict \in {"VERIFIED", "INVALID"}, Verify(v, verdict)
  PROVE  IInv'
<1>1. TypeOK'
  BY VerifyFacts, VerifyKeeps DEF IInv, TypeOK
<1>2. ChainOK'
  BY VerifyFacts DEF IInv, ChainOK
<1>3. CursorOK'
  BY VerifyFacts, VerifyKeeps DEF IInv, CursorOK, BlocksUpTo, HasBlock, Awaits, PointAt
<1> QED  BY <1>1, <1>2, <1>3, VerifyKeeps DEF IInv

\* Verdicts touch neither the chain nor the blocks.
LEMMA VerifyLinkInv ==
  ASSUME IInv, LinkInv, NEW v, NEW verdict \in {"VERIFIED", "INVALID"}, Verify(v, verdict)
  PROVE  LinkInv'
<1>1. Indexed(work)' = Indexed(work) /\ Indexed(db)' = Indexed(db)
  BY VerifyKeeps DEF Indexed
<1>2. Numbered(ChainTo(Len(chain)))' /\ Numbered(Indexed(work))'
  BY <1>1, VerifyFacts DEF LinkInv, Numbered, ChainTo
<1>3. Linked(Indexed(work))'
  BY <1>1, VerifyFacts DEF LinkInv, Linked, ChainTo
<1>4. (Following => Agrees(Indexed(work)))'
  BY <1>1, VerifyFacts DEF LinkInv, Following, Agrees, ChainTo, PointAt
<1>5. TransactionOK'
  BY <1>1, VerifyFacts DEF LinkInv, TransactionOK
<1>6. PointOK'
  BY <1>1, VerifyFacts DEF LinkInv, PointOK, PointAt
<1>7. LatestBlockOnChain'
  BY VerifyFacts DEF LinkInv, LatestBlockOnChain, Awaits, PointAt
<1>8. (\A b \in Indexed(work) : Indexable(b))'
  BY <1>1 DEF LinkInv
<1> QED  BY <1>2, <1>3, <1>4, <1>5, <1>6, <1>7, <1>8 DEF LinkInv

\* Nor the transactions.
LEMMA VerifyLedgerInv ==
  ASSUME IInv, LedgerInv, NEW v, NEW verdict \in {"VERIFIED", "INVALID"}, Verify(v, verdict)
  PROVE  LedgerInv'
<1>1. Indexed(work)' = Indexed(work)
  BY VerifyKeeps DEF Indexed
<1>2. chain' = chain
  BY VerifyFacts
<1>3. LedgerValid(chain)' = LedgerValid(chain)
  BY <1>2
<1>4. TxUnique(Indexed(work))' = TxUnique(Indexed(work))
  BY <1>1
<1> QED  BY <1>3, <1>4 DEF LedgerInv

\* Votes keep their ids and places.
LEMMA VerifyVoteInv ==
  ASSUME IInv, VoteInv, NEW v, NEW verdict \in {"VERIFIED", "INVALID"}, Verify(v, verdict)
  PROVE  VoteInv'
<1>1. db' = Judged(db, v, verdict) /\ work' = Judged(work, v, verdict)
  BY VerifyFacts
<1>2. DbOK(db) /\ DbOK(work) /\ work \in Database
  BY DEF IInv, TypeOK
<1>3. VotesOK(db') /\ VotesOK(work')
  BY <1>1, <1>2, JudgedOK DEF VoteInv
<1>4. VotesTaken'
  <2>1. work'.vote = {JudgedRow(r, v, verdict) : r \in work.vote}
    BY <1>1, <1>2, JudgedTables
  <2>2. \A r \in work.vote : /\ JudgedRow(r, v, verdict).proposal = r.proposal
                             /\ JudgedRow(r, v, verdict).tx = r.tx
                             /\ JudgedRow(r, v, verdict).slot = r.slot
    BY <1>2, JudgedRowFacts DEF Database
  <2>3. pc' = pc /\ current' = current /\ at' = at /\ todo' = todo
    BY VerifyFacts
  <2>4. ASSUME pc = "insert", NEW w \in work'.vote, w.slot = current.slot
        PROVE  \E k, m \in Nat : CastAt(w, current, k, m) /\ k <= at /\ (k = at => m \notin todo)
    <3>1. PICK r \in work.vote : w = JudgedRow(r, v, verdict)
      BY <2>1
    <3>2. r.slot = current.slot /\ r.tx = w.tx /\ r.proposal = w.proposal /\ r.slot = w.slot
      BY <2>2, <2>4, <3>1
    <3>3. PICK k, m \in Nat : CastAt(r, current, k, m) /\ k <= at /\ (k = at => m \notin todo)
      BY <2>4, <3>2 DEF VoteInv, VotesTaken
    <3> QED  BY <3>2, <3>3 DEF CastAt
  <2> QED  BY <2>3, <2>4 DEF VotesTaken, CastAt
<1> QED  BY <1>3, <1>4 DEF VoteInv, VotesOK, VoteOrigin, VotesOrdered, Indexed, CastAt

\* The index does not know of verdicts.
LEMMA VerifyIndexInv ==
  ASSUME IInv, IndexInv, NEW v, NEW verdict \in {"VERIFIED", "INVALID"}, Verify(v, verdict)
  PROVE  IndexInv'
<1>1. /\ Indexed(work)' = Indexed(work) /\ Indexed(db)' = Indexed(db)
      /\ TablesIn(work)' = TablesIn(work) /\ TablesIn(db)' = TablesIn(db)
  BY VerifyKeeps DEF Indexed, TablesIn, VoteFacts
<1>2. pc' = pc /\ current' = current /\ at' = at /\ todo' = todo /\ aborted' = aborted
  BY VerifyFacts
<1>3. Tx' = Tx /\ Here' = Here /\ Taken' = Taken
  BY <1>1, <1>2 DEF Tx, Here, Taken
<1>4. Holds(TablesIn(db), Index!Places(Indexed(db)), NoPlace, {})'
        = Holds(TablesIn(db), Index!Places(Indexed(db)), NoPlace, {})
  BY <1>1
<1>5. Holds(TablesIn(work), Taken, Here, todo)' = Holds(TablesIn(work), Taken, Here, todo)
  BY <1>1, <1>2, <1>3
<1> QED  BY <1>1, <1>2, <1>3, <1>4, <1>5 DEF IndexInv
-----------------------------------------------------------------------------
(* The keys of the votes, and how many rows there are. *)

\* One row more.
LEMMA UpsertFinite ==
  ASSUME NEW d, NEW t \in Txs, NEW slot, Ready(d, slot), RowsFinite(d)
  PROVE  RowsFinite(UpsertTransaction(d, t, slot))
<1> DEFINE u == UpsertTransaction(d, t, slot)
           row == [hash |-> t.hash, fee |-> t.fee, slot |-> slot]
<1>1. u.proposal = d.proposal /\ u.state = d.state /\ u.vote = d.vote
  BY UpsertTransactionOK
<1>2. u.tx = d.tx \/ u.tx = d.tx \cup {row}
  BY DEF UpsertTransaction, Ready, DbOK, Database
<1>3. IsFiniteSet(d.tx \cup {row})
  <2> HIDE DEF row
  <2> QED  BY FS_AddElement DEF RowsFinite
<1> QED  BY <1>1, <1>2, <1>3 DEF RowsFinite

\* A governance operation adds finitely many rows and no vote.
LEMMA GovernanceRows ==
  ASSUME NEW d, NEW t \in Txs, NEW slot, Ready(d, slot), RowsFinite(d), KeysOK(d)
  PROVE  /\ RowsFinite(ProcessGovernance(d, t, slot))
         /\ KeysOK(ProcessGovernance(d, t, slot))
<1> DEFINE u == UpsertTransaction(d, t, slot)
<1>1. u \in Database /\ RowsFinite(u) /\ d \in Database
  BY UpsertFinite, UpsertTransactionOK DEF Ready, DbOK
<1> HIDE DEF u
<1>2. \A r : IsFiniteSet(u.proposal \cup {r}) /\ IsFiniteSet(u.state \cup {r})
  BY <1>1, FS_AddElement DEF RowsFinite
<1>3. RowsFinite(AddProposal(d, t, slot))
  <2>1. CASE AddProposal(d, t, slot) = d
    BY <2>1
  <2>2. CASE AddProposal(d, t, slot) = u
    BY <1>1, <2>2
  <2>3. CASE AddProposal(d, t, slot) # d /\ AddProposal(d, t, slot) # u
    <3> DEFINE row == ProposalRow(t, slot)
               available == StateRow(t.hash, t.hash, slot, "AVAILABLE")
               a == AddProposal(d, t, slot)
    <3>1. PICK polls : a = [u EXCEPT !.poll = polls,
                                     !.proposal = @ \cup {row},
                                     !.state = @ \cup {available}]
      BY <2>3 DEF AddProposal, PollConnects, u
    <3> HIDE DEF row, available, a
    <3>2. a.tx = u.tx /\ a.vote = u.vote /\ a.proposal = u.proposal \cup {row}
          /\ a.state = u.state \cup {available}
      BY <1>1, <3>1 DEF Database
    <3> QED  BY <1>1, <1>2, <3>2 DEF RowsFinite, a
  <2> QED  BY <2>1, <2>2, <2>3
<1>4. ASSUME NEW status PROVE RowsFinite(CloseProposal(d, t, slot, status))
  <2> DEFINE row == StateRow(t.manage.target, t.manage.target, slot, status)
             c == CloseProposal(d, t, slot, status)
  <2>1. c = d \/ c = [u EXCEPT !.state = @ \cup {row}]
    BY DEF CloseProposal, ClosesProposal, u
  <2> HIDE DEF row, c
  <2>2. c = d \/ (c.tx = u.tx /\ c.vote = u.vote /\ c.proposal = u.proposal
                  /\ c.state = u.state \cup {row})
    BY <1>1, <2>1 DEF Database
  <2> QED  BY <1>1, <1>2, <2>2 DEF RowsFinite, c
<1>5. RowsFinite(ProcessGovernance(d, t, slot))
  BY <1>3, <1>4 DEF ProcessGovernance, ConcludeProposal, CancelProposal
<1> QED  BY <1>5, GovernanceKeepsVotes DEF KeysOK

\* The rows of an accepted entry are new in both keys: their id is, and the
\* unique index refuses a second vote of the transaction on a proposal.
LEMMA VoteRowsInserted ==
  ASSUME NEW d, NEW t \in Txs, NEW slot, Ready(d, slot), RowsFinite(d), KeysOK(d), NEW x,
         ~VoteCollides(d, RowsOfVote(d, t, x, slot))
  PROVE  RowsFinite(InsertPollVote(d, t, x, slot)) /\ KeysOK(InsertPollVote(d, t, x, slot))
<1> DEFINE u == UpsertTransaction(d, t, slot)
           rows == RowsOfVote(d, t, x, slot)
           e == InsertPollVote(d, t, x, slot)
           Row(p) == [id |-> NextId(d.vote), owner |-> x.owner, proposal |-> p.hash,
                      poll |-> x.poll, choice |-> x.choices[p.hash], power |-> x.power,
                      tx |-> t.hash, slot |-> slot, verification |-> "UNVERIFIED"]
           chosen == {q \in d.proposal : /\ q.poll = x.poll
                                         /\ q.hash \in DOMAIN x.choices
                                         /\ ChoiceExists(q, x.choices[q.hash])}
<1>1. u \in Database /\ RowsFinite(u) /\ d \in Database /\ u.vote = d.vote
  BY UpsertFinite, UpsertTransactionOK DEF Ready, DbOK
<1>2. e = [u EXCEPT !.vote = @ \cup rows]
  BY DEF InsertPollVote
<1>3. rows = {Row(p) : p \in chosen}
  BY DEF RowsOfVote
<1>4. IsFiniteSet(rows)
  <2> DEFINE f == [p \in chosen |-> Row(p)]
  <2>1. IsFiniteSet(chosen)
    BY FS_Subset DEF RowsFinite
  <2>2. IsFiniteSet({f[p] : p \in chosen})
    <3> HIDE DEF f, chosen
    <3> QED  BY <2>1, ImageIsFinite
  <2>3. {f[p] : p \in chosen} = {Row(p) : p \in chosen}
    OBVIOUS
  <2> QED  BY <1>3, <2>2, <2>3
<1>5. \A v \in rows : \E p \in chosen : v = Row(p)
  BY <1>3
<1>6. \A v \in d.vote : v.id < NextId(d.vote) /\ v.id \in Nat /\ NextId(d.vote) \in Nat
  BY NextIdFresh DEF Ready, DbOK, Database, VoteRows
<1>7. \A v \in rows : v.id = NextId(d.vote) /\ v.tx = t.hash
  BY <1>5
<1>8. \A v, w \in rows : v.proposal = w.proposal => v = w
  BY <1>5
<1>9. \A v \in rows, w \in d.vote : ~(w.tx = v.tx /\ w.proposal = v.proposal)
  BY DEF VoteCollides
<1> HIDE DEF u, rows, e, Row, chosen
<1>10. e.tx = u.tx /\ e.proposal = u.proposal /\ e.state = u.state /\ e.vote = d.vote \cup rows
  BY <1>1, <1>2 DEF Database
<1>11. RowsFinite(e)
  <2>1. IsFiniteSet(d.vote \cup rows)
    BY <1>4, FS_Union DEF RowsFinite
  <2> QED  BY <1>1, <1>10, <2>1 DEF RowsFinite
<1>12. KeysOK(e)
  <2> SUFFICES ASSUME NEW v \in d.vote \cup rows, NEW w \in d.vote \cup rows,
                      v.proposal = w.proposal, v.id = w.id \/ v.tx = w.tx
               PROVE  v = w
    BY <1>10 DEF KeysOK
  <2>1. CASE v \in rows /\ w \in rows
    BY <1>8, <2>1
  <2>2. CASE v \in d.vote /\ w \in d.vote
    BY <2>2 DEF KeysOK
  <2>3. CASE v \in rows /\ w \in d.vote
    BY <1>6, <1>7, <1>9, <2>3
  <2>4. CASE v \in d.vote /\ w \in rows
    BY <1>6, <1>7, <1>9, <2>4
  <2> QED  BY <2>1, <2>2, <2>3, <2>4
<1> QED  BY <1>11, <1>12 DEF e

\* A rollback removes rows.
LEMMA DeletionRows ==
  ASSUME NEW d, RowsFinite(d), KeysOK(d), NEW slot
  PROVE  RowsFinite(DeleteBlocksAfter(d, slot)) /\ KeysOK(DeleteBlocksAfter(d, slot))
<1> DEFINE e == DeleteBlocksAfter(d, slot)
<1>1. /\ e.tx \subseteq d.tx /\ e.proposal \subseteq d.proposal /\ e.state \subseteq d.state
      /\ e.vote \subseteq d.vote
  BY DEF DeleteBlocksAfter
<1> HIDE DEF e
<1>2. RowsFinite(e)
  BY <1>1, FS_Subset DEF RowsFinite
<1>3. KeysOK(e)
  BY <1>1 DEF KeysOK
<1> QED  BY <1>2, <1>3 DEF e

\* There are no rows at the start.
LEMMA RowsInit == ASSUME Init PROVE RowsInv
<1>1. db = EmptyDb /\ work = EmptyDb
  BY DEF Init
<1>2. RowsFinite(EmptyDb) /\ KeysOK(EmptyDb)
  BY FS_EmptySet DEF EmptyDb, RowsFinite, KeysOK
<1> QED  BY <1>1, <1>2 DEF RowsInv

\* A step of the aggregator keeps the keys of votes and finitely many rows.
LEMMA RowsStep == ASSUME IInv, LinkInv, RowsInv, [Next]_vars PROVE RowsInv'
<1>1. CASE db' = db /\ work' = work
  BY <1>1 DEF RowsInv, RowsFinite, KeysOK
<1>2. CASE BeginBlock
  <2>1. db' = db /\ work' = InsertBlock(db, NextBlock) /\ db \in Database
    BY <1>2 DEF BeginBlock, IInv, TypeOK
  <2>2. /\ work'.tx = db.tx /\ work'.proposal = db.proposal /\ work'.state = db.state
        /\ work'.vote = db.vote
    BY <2>1 DEF InsertBlock, Database
  <2> QED  BY <2>1, <2>2 DEF RowsInv, RowsFinite, KeysOK
<1>3. CASE HandleGovernance
  <2>1. Tx \in Txs /\ Ready(work, current.slot) /\ db' = db
    BY <1>3, HandlerFacts DEF HandleGovernance
  <2>2. work' = work \/ work' = ProcessGovernance(work, Tx, current.slot)
    BY <1>3 DEF HandleGovernance
  <2>3. RowsFinite(work') /\ KeysOK(work')
    BY <2>1, <2>2, GovernanceRows DEF RowsInv
  <2> QED  BY <2>1, <2>3 DEF RowsInv, RowsFinite, KeysOK
<1>4. ASSUME NEW i \in todo, HandleVotes(i) PROVE RowsInv'
  <2> DEFINE x == Tx.votes[i]
  <2>1. Tx \in Txs /\ Ready(work, current.slot) /\ db' = db
    BY <1>4, HandlerFacts DEF HandleVotes
  <2>2. \/ work' = work
        \/ /\ work' = InsertPollVote(work, Tx, x, current.slot)
           /\ ~VoteCollides(work, RowsOfVote(work, Tx, x, current.slot))
    BY <1>4 DEF HandleVotes
  <2> HIDE DEF x
  <2>3. RowsFinite(work') /\ KeysOK(work')
    BY <2>1, <2>2, VoteRowsInserted DEF RowsInv
  <2> QED  BY <2>1, <2>3 DEF RowsInv, RowsFinite, KeysOK
<1>5. CASE Commit
  <2>1. work' = db' /\ (db' = db \/ db' = work)
    BY <1>5 DEF Commit
  <2> QED  BY <2>1 DEF RowsInv, RowsFinite, KeysOK
<1>6. CASE RollBackToPoint
  <2>1. db' = DeleteBlocksAfter(db, point.slot) /\ work' = db'
    BY <1>6 DEF RollBackToPoint
  <2>2. RowsFinite(db') /\ KeysOK(db')
    BY <2>1, DeletionRows DEF RowsInv
  <2> QED  BY <2>1, <2>2 DEF RowsInv, RowsFinite, KeysOK
<1>7. CASE Crash
  <2>1. work' = db /\ db' = db
    BY <1>7 DEF Crash
  <2> QED  BY <2>1 DEF RowsInv, RowsFinite, KeysOK
<1>8. \/ db' = db /\ work' = work
      \/ BeginBlock \/ HandleGovernance \/ (\E i \in todo : HandleVotes(i)) \/ Commit
      \/ RollBackToPoint \/ Crash
  BY DEF Next, Node, Sync, vars, txVars, Mint, Reorganize, SkipBlock, TakeTx, BeginRollback,
     ReadResumePoint, Resume, ResumeFails, ConnectionLost
<1> QED  BY <1>1, <1>2, <1>3, <1>4, <1>5, <1>6, <1>7, <1>8
-----------------------------------------------------------------------------
(* The invariant of the queries. *)

\* The invariants of the aggregator at the start of the server.
LEMMA ChainInit == ASSUME Init PROVE ChainInv
<1>1. IInv
  BY InitIInv
<1>2. LinkInv
  BY LinkInit
<1>3. LedgerInv
  BY LedgerInit
<1>4. VoteInv
  BY VoteInit
<1>5. IndexInv
  BY IndexInit
<1>6. SlotsUnique(Indexed(work))
  BY DEF Init, EmptyDb, Indexed, SlotsUnique
<1>7. IsFiniteSet(Indexed(work))
  <2>1. Indexed(work) = {}
    BY DEF Init, EmptyDb, Indexed
  <2> QED  BY <2>1, FS_EmptySet
<1> QED  BY <1>1, <1>2, <1>3, <1>4, <1>5, <1>6, <1>7 DEF ChainInv

\* The proofs about the aggregator, put together.
LEMMA ChainStep == ASSUME ChainInv, [Next]_vars PROVE ChainInv'
<1> USE DEF ChainInv
<1>1. IInv'
  BY NextIInv
<1>2. LinkInv'
  BY LinkStep
<1>3. LedgerInv'
  BY LedgerStep
<1>4. VoteInv'
  BY VoteStep
<1>5. IndexInv'
  BY IndexStep
<1>6. SlotsUnique(Indexed(work'))
  <2>1. CASE Indexed(work') \subseteq Indexed(work)
    BY <2>1 DEF SlotsUnique
  <2>2. CASE Indexed(work') \subseteq ChainTo(sent + 1) /\ sent + 1 \in 1 .. Len(chain)
    <3> SUFFICES ASSUME NEW b \in Indexed(work'), NEW c \in Indexed(work'), b.slot = c.slot
                 PROVE  b = c
      BY DEF SlotsUnique
    <3>1. PICK i, j \in 1 .. Len(chain) : b = chain[i] /\ c = chain[j]
      BY <2>2, ChainFacts DEF ChainTo
    <3>2. i <= j /\ j <= i
      BY <3>1, ChainFacts
    <3> QED  BY <3>1, <3>2
  <2> QED  BY <2>1, <2>2, IndexedStep
<1>7. IsFiniteSet(Indexed(work'))
  <2>1. CASE Indexed(work') \subseteq Indexed(work)
    BY <2>1, FS_Subset
  <2>2. CASE Indexed(work') = Indexed(work) \cup {NextBlock}
    BY <2>2, FS_AddElement
  <2> QED  BY <2>1, <2>2, IndexedStep
<1> QED  BY <1>1, <1>2, <1>3, <1>4, <1>5, <1>6, <1>7 DEF Indexed

\* A verdict keeps all of them.
LEMMA ChainVerify ==
  ASSUME ChainInv, NEW v, NEW verdict \in {"VERIFIED", "INVALID"}, Verify(v, verdict)
  PROVE  ChainInv'
<1> USE DEF ChainInv
<1>1. IInv'
  BY VerifyIInv
<1>2. LinkInv'
  BY VerifyLinkInv
<1>3. LedgerInv'
  BY VerifyLedgerInv
<1>4. VoteInv'
  BY VerifyVoteInv
<1>5. IndexInv'
  BY VerifyIndexInv
<1>6. Indexed(work)' = Indexed(work)
  BY VerifyKeeps DEF Indexed
<1> QED  BY <1>1, <1>2, <1>3, <1>4, <1>5, <1>6 DEF SlotsUnique

\* And the keys.
LEMMA RowsVerify ==
  ASSUME IInv, RowsInv, NEW v, NEW verdict \in {"VERIFIED", "INVALID"}, Verify(v, verdict)
  PROVE  RowsInv'
<1>1. db' = Judged(db, v, verdict) /\ work' = Judged(work, v, verdict)
  BY VerifyFacts
<1>2. DbOK(db) /\ DbOK(work)
  BY DEF IInv
<1>3. KeysOK(db') /\ KeysOK(work') /\ RowsFinite(db') /\ RowsFinite(work')
  BY <1>1, <1>2, JudgedOK DEF RowsInv
<1> QED  BY <1>3 DEF RowsInv, KeysOK, RowsFinite

\* A request only reads.
LEMMA QuietStep ==
  ASSUME ChainInv, RowsInv, UNCHANGED vars
  PROVE  ChainInv' /\ RowsInv'
BY ChainStep, RowsStep DEF ChainInv

\* Every step of the aggregator, the job and a request keeps the invariant.
LEMMA ApiStep == ApiInv /\ [ApiNext]_apiVars => ApiInv'
<1> SUFFICES ASSUME ApiInv, [ApiNext]_apiVars PROVE ApiInv'
  OBVIOUS
<1> USE DEF ApiInv
<1>1. CASE Next /\ UNCHANGED <<requestVars, verdicts>>
  BY <1>1, ChainStep, RowsStep DEF ChainInv
<1>2. ASSUME NEW v \in db.vote, NEW verdict \in {"VERIFIED", "INVALID"}, Verify(v, verdict)
      PROVE  ApiInv'
  BY <1>2, ChainVerify, RowsVerify DEF ChainInv
<1>3. CASE (\E h \in Requested : GetProposal(h)) \/ ReadVotes \/ ReadChoices \/ Respond
  BY <1>3, QuietStep DEF GetProposal, ReadVotes, ReadChoices, Respond
<1>4. CASE UNCHANGED apiVars
  BY <1>4, QuietStep DEF apiVars
<1> QED  BY <1>1, <1>2, <1>3, <1>4 DEF ApiNext

\* The invariants of the aggregator hold beside the validation job's verdicts
\* and the requests, and a vote is known by its keys.
THEOREM ApiInvariance == ApiSpec => []ApiInv
<1>1. ApiInit => ApiInv
  BY ChainInit, RowsInit DEF ApiInit, ApiInv
<1> QED  BY <1>1, ApiStep, PTL DEF ApiSpec
-----------------------------------------------------------------------------
(* Powers. *)

\* The sums of SQL are those of SumTheorems.
LEMMA TotalIsSum == \A f : Total(f) = Sum(f, DOMAIN f)
BY DEF Total, Sum

PowersIn(rows) == [v \in rows |-> v.power]

\* The powers of some of the rows, added.
LEMMA PowerOfSome ==
  ASSUME NEW rows, IsFiniteSet(rows), rows \subseteq VoteRows, NEW some, some \subseteq rows
  PROVE  /\ IsFiniteSet(some)
         /\ Power(some) = Sum(PowersIn(rows), some)
         /\ \A v \in some : PowersIn(rows)[v] \in Nat
<1>1. IsFiniteSet(some)
  BY FS_Subset
<1>2. Power(some) = Sum(PowersIn(some), some)
  BY TotalIsSum DEF Power, PowersIn
<1>3. \A v \in some : PowersIn(some)[v] = PowersIn(rows)[v] /\ PowersIn(rows)[v] \in Nat
  BY DEF PowersIn, VoteRows
<1>4. Sum(PowersIn(some), some) = Sum(PowersIn(rows), some)
  BY <1>1, <1>3, SumOfEquals
<1> QED  BY <1>1, <1>2, <1>3, <1>4

-----------------------------------------------------------------------------
(* What the rows say of the chain. *)

\* A place p where an entry e votes for the proposal created at q casts v.
Casts(v, p, e, q) ==
  /\ e \in Index!EntriesAt(p) /\ Index!VotesFor(OnChain, p, e, q)
  /\ v.owner = e.owner /\ v.proposal = Index!TxAt(q).hash /\ v.poll = e.poll
  /\ v.choice = e.choices[Index!TxAt(q).hash] /\ v.power = e.power
  /\ v.tx = Index!TxAt(p).hash /\ v.slot = p.b.slot

\* The places the database covers: told apart by the hash of the transaction
\* and by what it spends, and ordered.
LEMMA OnChainFacts ==
  ASSUME ChainInv
  PROVE  /\ \A p \in OnChain :
              /\ p.b \in Indexed(db) /\ p.b.slot \in Nat /\ p.i \in Nat
              /\ p.i \in DOMAIN TxsOf(p.b) /\ Index!TxAt(p) = TxsOf(p.b)[p.i]
              /\ Index!TxAt(p) \in Txs
         /\ \A p, q \in OnChain :
              \/ Index!TxAt(p).hash = Index!TxAt(q).hash
              \/ Index!TxAt(p).inputs \cap Index!TxAt(q).inputs # {}
              => p = q
         /\ \A p, q \in OnChain : p = q \/ Index!Before(p, q) \/ Index!Before(q, p)
<1> USE DEF ChainInv
<1>1. (\A b \in Indexed(db) : b \in Block) /\ TxUnique(Indexed(db))
  BY CommittedTables
<1>2. \A p \in OnChain :
        /\ p.b \in Indexed(db) /\ p.b.slot \in Nat /\ p.i \in Nat
        /\ p.i \in DOMAIN TxsOf(p.b) /\ Index!TxAt(p) = TxsOf(p.b)[p.i]
        /\ Index!TxAt(p) \in Txs /\ p = [b |-> p.b, i |-> p.i]
  BY <1>1, PlaceFacts DEF OnChain
<1>3. \A p, q \in OnChain :
        \/ Index!TxAt(p).hash = Index!TxAt(q).hash
        \/ Index!TxAt(p).inputs \cap Index!TxAt(q).inputs # {}
        => p = q
  BY <1>1, PlaceUnique DEF OnChain
<1>4. ASSUME NEW p \in OnChain, NEW q \in OnChain, p # q
      PROVE  Index!Before(p, q) \/ Index!Before(q, p)
  <2>1. p.b \in Indexed(work) /\ q.b \in Indexed(work)
    BY <1>2 DEF LinkInv, TransactionOK
  <2>2. CASE p.b.slot = q.b.slot
    <3>1. p.b = q.b
      BY <2>1, <2>2 DEF SlotsUnique
    <3>2. p.i # q.i
      BY <1>2, <1>4, <3>1
    <3> QED  BY <1>2, <3>1, <3>2 DEF Index!Before
  <2>3. CASE p.b.slot # q.b.slot
    BY <1>2, <2>3 DEF Index!Before
  <2> QED  BY <2>2, <2>3
<1> QED  BY <1>2, <1>3, <1>4

\* The proposals are those created on chain.
LEMMA ProposalsFollow ==
  ASSUME ChainInv
  PROVE  /\ \A r \in db.proposal : \E q \in Created : r = ProposalRow(Index!TxAt(q), q.b.slot)
         /\ \A q \in Created : ProposalRow(Index!TxAt(q), q.b.slot) \in db.proposal
         /\ \A q \in Created : RowOf(q) = ProposalRow(Index!TxAt(q), q.b.slot)
         /\ \A r, s \in db.proposal : r.hash = s.hash => r = s
<1> USE DEF ChainInv
<1>1. \A r : r \in db.proposal <=> \E q \in Created : r = ProposalRow(Index!TxAt(q), q.b.slot)
  BY AllDone DEF IndexInv, Holds, TablesIn, CreatesAt, Created, OnChain
<1>2. \A q \in Created : q \in OnChain
  BY DEF Created
<1>3. \A q : ProposalRow(Index!TxAt(q), q.b.slot).hash = Index!TxAt(q).hash
  BY DEF ProposalRow
<1>4. ASSUME NEW r \in db.proposal, NEW s \in db.proposal, r.hash = s.hash
      PROVE  r = s
  <2>1. PICK p \in Created : r = ProposalRow(Index!TxAt(p), p.b.slot)
    BY <1>1
  <2>2. PICK q \in Created : s = ProposalRow(Index!TxAt(q), q.b.slot)
    BY <1>1
  <2>3. Index!TxAt(p).hash = Index!TxAt(q).hash
    BY <1>3, <1>4, <2>1, <2>2
  <2>4. p = q
    BY <1>2, <2>3, OnChainFacts
  <2> QED  BY <2>1, <2>2, <2>4
<1>5. \A q \in Created : RowOf(q) = ProposalRow(Index!TxAt(q), q.b.slot)
  BY <1>1, <1>3, <1>4 DEF RowOf
<1> QED  BY <1>1, <1>4, <1>5

\* The votes are those cast on chain.
LEMMA VotesFollow ==
  ASSUME ChainInv
  PROVE  /\ \A v \in db.vote : \E p \in OnChain, q \in Created : \E e : Casts(v, p, e, q)
         /\ \A p \in OnChain, q \in Created : \A e \in Index!EntriesAt(p) :
              Index!VotesFor(OnChain, p, e, q) => \E v \in db.vote : Casts(v, p, e, q)
<1> USE DEF ChainInv
<1>1. \A r : r \in {VoteFacts(v) : v \in db.vote} <=>
        \E p, q \in OnChain : \E k \in DOMAIN Index!TxAt(p).votes :
          /\ Index!VotesFor(OnChain, p, Index!TxAt(p).votes[k], q)
          /\ r = VoteRow(p, k, q)
  BY AllDone DEF IndexInv, Holds, TablesIn, OnChain
<1>2. ASSUME NEW v, NEW p, NEW q, NEW k \in DOMAIN Index!TxAt(p).votes,
             Index!VotesFor(OnChain, p, Index!TxAt(p).votes[k], q),
             VoteFacts(v) = VoteRow(p, k, q)
      PROVE  Casts(v, p, Index!TxAt(p).votes[k], q)
  BY <1>2 DEF Casts, VoteFacts, VoteRow, Index!EntriesAt
<1>3. ASSUME NEW v \in db.vote
      PROVE  \E p \in OnChain, q \in Created : \E e : Casts(v, p, e, q)
  <2>1. PICK p, q \in OnChain : \E k \in DOMAIN Index!TxAt(p).votes :
          /\ Index!VotesFor(OnChain, p, Index!TxAt(p).votes[k], q)
          /\ VoteFacts(v) = VoteRow(p, k, q)
    BY <1>1
  <2>2. PICK k \in DOMAIN Index!TxAt(p).votes :
          /\ Index!VotesFor(OnChain, p, Index!TxAt(p).votes[k], q)
          /\ VoteFacts(v) = VoteRow(p, k, q)
    BY <2>1
  <2>3. q \in Created
    BY <2>2 DEF Index!VotesFor, Created
  <2> QED  BY <1>2, <2>2, <2>3
<1>4. ASSUME NEW p \in OnChain, NEW q \in Created, NEW e \in Index!EntriesAt(p),
             Index!VotesFor(OnChain, p, e, q)
      PROVE  \E v \in db.vote : Casts(v, p, e, q)
  <2>1. PICK k \in DOMAIN Index!TxAt(p).votes : e = Index!TxAt(p).votes[k]
    BY DEF Index!EntriesAt
  <2>2. VoteRow(p, k, q) \in {VoteFacts(v) : v \in db.vote}
    BY <1>1, <1>4, <2>1 DEF Created
  <2>3. PICK v \in db.vote : VoteFacts(v) = VoteRow(p, k, q)
    BY <2>2
  <2> QED  BY <1>2, <1>4, <2>1, <2>3
<1> QED  BY <1>3, <1>4

\* A proposal has finitely many choices.
LEMMA ChoicesFinite ==
  ASSUME ChainInv, NEW r \in db.proposal
  PROVE  IsFiniteSet(ChoicesOf(r))
<1>1. r.choices \in Nat
  BY DEF ChainInv, IInv, TypeOK, Database, ProposalRows
<1>2. IsFiniteSet(0 .. r.choices - 1)
  BY <1>1, FS_Interval
<1> QED  BY <1>2, FS_Singleton, FS_Union DEF ChoicesOf

\* The owner of a vote is one of those on chain, its choice one its proposal has.
LEMMA VoteOnProposal ==
  ASSUME ChainInv, NEW v \in db.vote
  PROVE  /\ v.owner \in Owners
         /\ \A r \in db.proposal : r.hash = v.proposal => v.choice \in ChoicesOf(r)
<1>1. PICK p \in OnChain, q \in Created : \E e : Casts(v, p, e, q)
  BY VotesFollow
<1>2. PICK e : Casts(v, p, e, q)
  BY <1>1
<1>3. v.owner \in Owners
  BY <1>2 DEF Casts, Owners
<1>4. ASSUME NEW r \in db.proposal, r.hash = v.proposal PROVE v.choice \in ChoicesOf(r)
  <2>1. ProposalRow(Index!TxAt(q), q.b.slot) \in db.proposal
    BY ProposalsFollow
  <2>2. ProposalRow(Index!TxAt(q), q.b.slot).hash = v.proposal
    BY <1>2 DEF ProposalRow, Casts
  <2>3. r = ProposalRow(Index!TxAt(q), q.b.slot)
    BY <1>4, <2>1, <2>2, ProposalsFollow
  <2>4. r.choices = Index!TxAt(q).manage.choices
    BY <2>3 DEF ProposalRow
  <2>5. ChoiceExists(Index!TxAt(q).manage, v.choice)
    BY <1>2, SameOperators DEF Casts, Index!VotesFor
  <2> QED  BY <2>4, <2>5 DEF ChoiceExists, ChoicesOf
<1> QED  BY <1>3, <1>4

\* What each user is shown of their votes, together, is what the tally counts.
LEMMA OwnVotesAreLatest ==
  ASSUME ChainInv
  PROVE  UNION {GetUserVotes(db, owner) : owner \in Owners} = UsersLatestVotes(db)
<1>1. \A v \in db.vote : v.owner \in Owners
  BY VoteOnProposal
<1>2. \A v \in UsersLatestVotes(db) : v \in GetUserVotes(db, v.owner) /\ v.owner \in Owners
  BY <1>1 DEF UsersLatestVotes, GetUserVotes
<1>3. \A owner \in Owners : GetUserVotes(db, owner) \subseteq UsersLatestVotes(db)
  BY DEF UsersLatestVotes, GetUserVotes
<1> QED  BY <1>2, <1>3

\* The votes that count are rows of the database.
LEMMA LatestFinite ==
  ASSUME ChainInv, RowsInv, NEW rows, rows \subseteq UsersLatestVotes(db)
  PROVE  IsFiniteSet(rows) /\ rows \subseteq VoteRows /\ rows \subseteq db.vote
<1>1. IsFiniteSet(db.vote) /\ db.vote \subseteq VoteRows
  BY DEF ChainInv, RowsInv, RowsFinite, IInv, TypeOK, Database
<1>2. rows \subseteq db.vote
  BY DEF UsersLatestVotes
<1> QED  BY <1>1, <1>2, FS_Subset

\* What users are shown of their own votes and what the tally says of all of
\* them agree: the powers of the users' last votes on a proposal that are in a
\* verification state are what its choices and abstentions are said to have.
THEOREM UserVotesCorrect == ApiSpec => []UserVotesMatchTally
<1>1. ApiInv => UserVotesMatchTally
  <2> SUFFICES ASSUME ApiInv, NEW r \in db.proposal, NEW s \in VerificationStates
               PROVE  LET tally == GetVotes(db, r)
                          own == UNION {GetUserVotes(db, owner) : owner \in Owners}
                      IN  Total([choice \in DOMAIN tally |-> tally[choice][s].votingPower])
                            = Power({v \in own : v.proposal = r.hash /\ v.verification = s})
    BY DEF UserVotesMatchTally
  <2> USE DEF ApiInv
  <2> DEFINE rows == {v \in UsersLatestVotes(db) : v.proposal = r.hash /\ v.verification = s}
             tally == GetVotes(db, r)
             powers == [choice \in DOMAIN tally |-> tally[choice][s].votingPower]
             C == ChoicesOf(r)
             Chosen(c) == {v \in UsersLatestVotes(db) : /\ v.proposal = r.hash
                                                        /\ v.choice = c
                                                        /\ v.verification = s}
             part == [c \in C |-> {v \in rows : v.choice = c}]
             w == PowersIn(rows)
  <2>1. IsFiniteSet(rows) /\ rows \subseteq VoteRows /\ rows \subseteq db.vote
    BY LatestFinite
  <2>2. DOMAIN tally = C /\ DOMAIN powers = C
    BY DEF GetVotes
  <2>3. \A c \in C : powers[c] = Power(Chosen(c))
    BY DEF GetVotes
  <2>4. \A c \in C : Chosen(c) = part[c] /\ part[c] \subseteq rows
    OBVIOUS
  <2>5. \A v \in rows : \E c \in C : v \in part[c]
    BY <2>1, VoteOnProposal
  <2>6. \A c, d \in C : c # d => part[c] \cap part[d] = {}
    OBVIOUS
  <2> HIDE DEF powers, tally, C, rows, Chosen, w, part
  <2>7. \A c \in C : powers[c] = Sum(w, part[c])
    BY <2>1, <2>3, <2>4, PowerOfSome DEF w
  <2>8. Power(rows) = Sum(w, rows) /\ \A v \in rows : w[v] \in Nat
    BY <2>1, PowerOfSome DEF w
  <2>9. Sum(powers, C) = Sum(w, rows)
    <3>1. IsFiniteSet(C)
      BY ChoicesFinite DEF C
    <3> QED  BY <2>1, <2>4, <2>5, <2>6, <2>7, <2>8, <3>1, SumOfParts
  <2>10. Total(powers) = Power(rows)
    BY <2>2, <2>8, <2>9, TotalIsSum
  <2> QED  BY <2>10, OwnVotesAreLatest DEF powers, tally, rows
<1> QED  BY <1>1, ApiInvariance, PTL
-----------------------------------------------------------------------------
(* The tally. *)

\* A vote cast before another has the smaller id.
LEMMA EarlierVote ==
  ASSUME ChainInv, NEW v \in db.vote, NEW w \in db.vote, NEW p \in OnChain, NEW r \in OnChain,
         Index!Before(p, r), v.slot = p.b.slot, v.tx = Index!TxAt(p).hash,
         w.slot = r.b.slot, w.tx = Index!TxAt(r).hash
  PROVE  v.id < w.id
<1>1. VotesOrdered(db)
  BY DEF ChainInv, VoteInv, VotesOK
<1>2. p.b \in Indexed(db) /\ r.b \in Indexed(db)
      /\ p.i \in DOMAIN TxsOf(p.b) /\ Index!TxAt(p) = TxsOf(p.b)[p.i]
      /\ r.i \in DOMAIN TxsOf(r.b) /\ Index!TxAt(r) = TxsOf(r.b)[r.i]
  BY OnChainFacts
<1>3. \/ v.slot < w.slot
      \/ \E b \in Indexed(db) : /\ b.slot = v.slot /\ b.slot = w.slot
                                /\ \E i, j \in DOMAIN TxsOf(b) :
                                     i < j /\ TxsOf(b)[i].hash = v.tx /\ TxsOf(b)[j].hash = w.tx
  BY <1>2 DEF Index!Before
<1> QED  BY <1>1, <1>3 DEF VotesOrdered

\* A vote is cast at one place, for the proposal it names.
LEMMA VoteCast ==
  ASSUME ChainInv, NEW q \in Created, NEW v \in db.vote, v.proposal = Index!TxAt(q).hash
  PROVE  \E p \in OnChain : /\ CastsAt(p, v.owner, q, v.choice)
                            /\ v.slot = p.b.slot /\ v.tx = Index!TxAt(p).hash
<1>1. PICK p \in OnChain, y \in Created : \E e : Casts(v, p, e, y)
  BY VotesFollow
<1>2. PICK e : Casts(v, p, e, y)
  BY <1>1
<1>3. y = q
  BY <1>2, OnChainFacts DEF Casts, Created
<1> QED  BY <1>2, <1>3 DEF Casts, CastsAt

\* What was cast is in the table.
LEMMA CastVote ==
  ASSUME ChainInv, NEW q \in Created, NEW p \in OnChain, NEW owner, NEW choice,
         CastsAt(p, owner, q, choice)
  PROVE  \E v \in db.vote : /\ v.owner = owner /\ v.proposal = Index!TxAt(q).hash
                            /\ v.choice = choice
                            /\ v.slot = p.b.slot /\ v.tx = Index!TxAt(p).hash
<1>1. PICK e \in Index!EntriesAt(p) :
        /\ e.owner = owner /\ Index!VotesFor(OnChain, p, e, q)
        /\ e.choices[Index!TxAt(q).hash] = choice
  BY DEF CastsAt
<1>2. PICK v \in db.vote : Casts(v, p, e, q)
  BY <1>1, VotesFollow
<1> QED  BY <1>1, <1>2 DEF Casts

\* The row of a created proposal.
LEMMA ChoicesOfCreated ==
  ASSUME ChainInv, NEW q \in Created
  PROVE  /\ RowOf(q) \in db.proposal /\ RowOf(q).hash = Index!TxAt(q).hash
         /\ ChoicesOf(RowOf(q)) = ChoicesOf(Index!TxAt(q).manage)
BY ProposalsFollow DEF ProposalRow, ChoicesOf

\* The vote of a user that counts is the last they cast on chain.
LEMMA LatestIsLastCast ==
  ASSUME ChainInv, RowsInv, NEW q \in Created, NEW owner, NEW choice
  PROVE  LastCast(owner, q, choice) <=>
           \E v \in UsersLatestVotes(db) :
             v.owner = owner /\ v.proposal = Index!TxAt(q).hash /\ v.choice = choice
<1> DEFINE h == Index!TxAt(q).hash
<1>1. \A v \in db.vote : v.id \in Nat
  BY DEF ChainInv, IInv, TypeOK, Database, VoteRows
<1>2. ASSUME LastCast(owner, q, choice)
      PROVE  \E v \in UsersLatestVotes(db) : v.owner = owner /\ v.proposal = h /\ v.choice = choice
  <2>1. PICK p \in OnChain :
          /\ CastsAt(p, owner, q, choice)
          /\ \A r \in OnChain, c \in ChoicesOf(Index!TxAt(q).manage) :
               CastsAt(r, owner, q, c) => r = p \/ Index!Before(r, p)
    BY <1>2 DEF LastCast
  <2>2. PICK v \in db.vote : /\ v.owner = owner /\ v.proposal = h /\ v.choice = choice
                             /\ v.slot = p.b.slot /\ v.tx = Index!TxAt(p).hash
    BY <2>1, CastVote
  <2>3. ASSUME NEW w \in db.vote, w.owner = v.owner, w.proposal = v.proposal
        PROVE  w.id <= v.id
    <3>1. PICK r \in OnChain : /\ CastsAt(r, owner, q, w.choice)
                               /\ w.slot = r.b.slot /\ w.tx = Index!TxAt(r).hash
      BY <2>2, <2>3, VoteCast
    <3>2. w.choice \in ChoicesOf(Index!TxAt(q).manage)
      BY <2>2, <2>3, ChoicesOfCreated, VoteOnProposal
    <3>3. CASE r = p
      BY <1>1, <2>2, <2>3, <3>1, <3>3 DEF RowsInv, KeysOK
    <3>4. CASE Index!Before(r, p)
      <4>1. w.id < v.id
        BY <2>2, <3>1, <3>4, EarlierVote
      <4> QED  BY <1>1, <4>1
    <3> QED  BY <2>1, <3>1, <3>2, <3>3, <3>4
  <2> QED  BY <2>2, <2>3 DEF UsersLatestVotes
<1>3. ASSUME NEW v \in UsersLatestVotes(db), v.owner = owner, v.proposal = h, v.choice = choice
      PROVE  LastCast(owner, q, choice)
  <2>1. v \in db.vote
    BY DEF UsersLatestVotes
  <2>2. PICK p \in OnChain : /\ CastsAt(p, owner, q, choice)
                             /\ v.slot = p.b.slot /\ v.tx = Index!TxAt(p).hash
    BY <1>3, <2>1, VoteCast
  <2>3. ASSUME NEW r \in OnChain, NEW c \in ChoicesOf(Index!TxAt(q).manage),
               CastsAt(r, owner, q, c)
        PROVE  r = p \/ Index!Before(r, p)
    <3>1. PICK w \in db.vote : /\ w.owner = owner /\ w.proposal = h /\ w.choice = c
                               /\ w.slot = r.b.slot /\ w.tx = Index!TxAt(r).hash
      BY <2>3, CastVote
    <3>2. w.id <= v.id
      BY <1>3, <3>1 DEF UsersLatestVotes
    <3>3. ~Index!Before(p, r)
      BY <1>1, <2>1, <2>2, <3>1, <3>2, EarlierVote
    <3> QED  BY <3>3, OnChainFacts
  <2> QED  BY <2>2, <2>3 DEF LastCast
<1> QED  BY <1>2, <1>3

\* Votes of all verification states together.
LEMMA CountsAddUp ==
  ASSUME NEW rows, IsFiniteSet(rows), rows \subseteq VoteRows, NEW counts,
         DOMAIN counts = VerificationStates,
         \A s \in VerificationStates :
           counts[s] = Cardinality({v \in rows : v.verification = s})
  PROVE  Total(counts) = Cardinality(rows)
<1> DEFINE C == VerificationStates
           part == [s \in C |-> {v \in rows : v.verification = s}]
           ones == [v \in rows |-> 1]
<1>1. IsFiniteSet(C)
  <2>1. IsFiniteSet({} \cup {"UNVERIFIED"})
    BY FS_EmptySet, FS_AddElement
  <2>2. IsFiniteSet(({} \cup {"UNVERIFIED"}) \cup {"VERIFIED"})
    BY <2>1, FS_AddElement
  <2>3. IsFiniteSet((({} \cup {"UNVERIFIED"}) \cup {"VERIFIED"}) \cup {"INVALID"})
    BY <2>2, FS_AddElement
  <2>4. C = (({} \cup {"UNVERIFIED"}) \cup {"VERIFIED"}) \cup {"INVALID"}
    BY DEF VerificationStates
  <2> QED  BY <2>3, <2>4
<1>2. \A s \in C : part[s] \subseteq rows
  OBVIOUS
<1>3. \A v \in rows : \E s \in C : v \in part[s]
  BY DEF VoteRows, VerificationStates
<1>4. \A s, t \in C : s # t => part[s] \cap part[t] = {}
  OBVIOUS
<1>5. \A v \in rows : ones[v] = 1 /\ ones[v] \in Nat
  OBVIOUS
<1>6. \A s \in C : counts[s] = Cardinality(part[s])
  OBVIOUS
<1> HIDE DEF C, part, ones
<1>7. \A s \in C : counts[s] = Sum(ones, part[s])
  <2> TAKE s \in C
  <2>1. IsFiniteSet(part[s]) /\ \A v \in part[s] : ones[v] = 1
    BY <1>2, <1>5, FS_Subset
  <2> QED  BY <1>6, <2>1, SumOfOnes
<1>8. Sum(counts, C) = Sum(ones, rows)
  BY <1>1, <1>2, <1>3, <1>4, <1>5, <1>7, SumOfParts
<1>9. Sum(ones, rows) = Cardinality(rows)
  BY <1>5, SumOfOnes
<1> QED  BY <1>8, <1>9, TotalIsSum DEF C

\* The tally of a proposal counts every user who voted for it, once, with the
\* choice of their last vote on chain, whatever is verified in the meantime.
THEOREM TallyCorrect == ApiSpec => []TallyIsLastVotes
<1>1. ApiInv => TallyIsLastVotes
  <2> SUFFICES ASSUME ApiInv, NEW q \in Created, NEW choice \in DOMAIN GetVotes(db, RowOf(q))
               PROVE  LET tally == GetVotes(db, RowOf(q))
                      IN  Total([s \in VerificationStates |-> tally[choice][s].votingCount])
                            = Cardinality({owner \in Owners : LastCast(owner, q, choice)})
    BY DEF TallyIsLastVotes
  <2> USE DEF ApiInv
  <2> DEFINE h == Index!TxAt(q).hash
             tally == GetVotes(db, RowOf(q))
             counts == [s \in VerificationStates |-> tally[choice][s].votingCount]
             rows == {v \in UsersLatestVotes(db) : v.proposal = h /\ v.choice = choice}
             ownerOf == [v \in rows |-> v.owner]
             last == {owner \in Owners : LastCast(owner, q, choice)}
  <2>1. IsFiniteSet(rows) /\ rows \subseteq VoteRows /\ rows \subseteq db.vote
    BY LatestFinite
  <2>2. RowOf(q).hash = h
    BY ChoicesOfCreated
  <2>3. \A s \in VerificationStates : counts[s] = Cardinality({v \in rows : v.verification = s})
    <3> TAKE s \in VerificationStates
    <3> DEFINE these == {v \in UsersLatestVotes(db) : /\ v.proposal = RowOf(q).hash
                                                      /\ v.choice = choice
                                                      /\ v.verification = s}
    <3>1. choice \in ChoicesOf(RowOf(q))
      BY DEF GetVotes
    <3>2. counts[s] = Cardinality(these)
      BY <3>1 DEF GetVotes
    <3>3. these = {v \in rows : v.verification = s}
      BY <2>2
    <3> QED  BY <3>2, <3>3
  <2>4. Total(counts) = Cardinality(rows)
    <3>1. DOMAIN counts = VerificationStates
      OBVIOUS
    <3> HIDE DEF counts, rows
    <3> QED  BY <2>1, <2>3, <3>1, CountsAddUp
  <2>5. \A v, w \in rows : ownerOf[v] = ownerOf[w] => v = w
    <3> SUFFICES ASSUME NEW v \in rows, NEW w \in rows, v.owner = w.owner PROVE v = w
      OBVIOUS
    <3>1. v.id <= w.id /\ w.id <= v.id
      BY <2>1 DEF UsersLatestVotes
    <3>2. v.id \in Nat /\ w.id \in Nat
      BY <2>1 DEF VoteRows
    <3> QED  BY <2>1, <3>1, <3>2 DEF RowsInv, KeysOK
  <2>6. {ownerOf[v] : v \in rows} = last
    <3>1. \A owner : LastCast(owner, q, choice) <=> \E v \in rows : v.owner = owner
      BY LatestIsLastCast
    <3>2. \A v \in rows : v.owner \in Owners
      BY <2>1, VoteOnProposal
    <3> QED  BY <3>1, <3>2
  <2>7. Cardinality(last) = Cardinality(rows)
    <3> HIDE DEF ownerOf, rows, last
    <3> QED  BY <2>1, <2>5, <2>6, SameCardinality
  <2> QED  BY <2>4, <2>7
<1> QED  BY <1>1, ApiInvariance, PTL
-----------------------------------------------------------------------------
(* The states of a proposal. *)

\* The states of a proposal are that of its creation and those of its closings.
LEMMA StatesFollow ==
  ASSUME ChainInv, NEW q \in Created
  PROVE  /\ \A r : r \in StatesOf(db, RowOf(q)) <=>
              \/ r = AvailableRow(q)
              \/ \E p \in OnChain : ClosedAfter(q, p) /\ r = ClosingRow(p, q)
         /\ AvailableRow(q).slot = q.b.slot /\ AvailableRow(q).status = "AVAILABLE"
         /\ \A p : /\ ClosingRow(p, q).slot = p.b.slot
                   /\ ClosingRow(p, q).status = Index!ClosingStatus(Index!TxAt(p))
                   /\ ClosingRow(p, q).status # "AVAILABLE"
<1>1. /\ AvailableRow(q).slot = q.b.slot /\ AvailableRow(q).status = "AVAILABLE"
      /\ \A y : AvailableRow(y).proposal = Index!TxAt(y).hash
      /\ \A p, y : /\ ClosingRow(p, y).proposal = Index!TxAt(y).hash
                   /\ ClosingRow(p, y).slot = p.b.slot
                   /\ ClosingRow(p, y).status = Index!ClosingStatus(Index!TxAt(p))
                   /\ ClosingRow(p, y).status # "AVAILABLE"
  BY DEF AvailableRow, ClosingRow, StateRow, Index!ClosingStatus
<1>2. \A r : r \in db.state <=>
        \/ \E y \in Created : r = AvailableRow(y)
        \/ \E p, y \in OnChain : Index!Closes(OnChain, p, y) /\ r = ClosingRow(p, y)
  BY AllDone DEF ChainInv, IndexInv, Holds, TablesIn, CreatesAt, ClosesAt, Created, OnChain
<1>3. \A y \in OnChain : Index!TxAt(y).hash = Index!TxAt(q).hash => y = q
  BY OnChainFacts DEF Created
<1>4. q \in OnChain /\ \A y \in Created : y \in OnChain
  BY DEF Created
<1>5. \A r : r \in StatesOf(db, RowOf(q)) <=> r \in db.state /\ r.proposal = Index!TxAt(q).hash
  BY ChoicesOfCreated DEF StatesOf
<1>6. ASSUME NEW r \in StatesOf(db, RowOf(q))
      PROVE  \/ r = AvailableRow(q)
             \/ \E p \in OnChain : ClosedAfter(q, p) /\ r = ClosingRow(p, q)
  <2>1. r \in db.state /\ r.proposal = Index!TxAt(q).hash
    BY <1>5
  <2>2. CASE \E y \in Created : r = AvailableRow(y)
    BY <1>1, <1>3, <1>4, <2>1, <2>2
  <2>3. CASE \E p, y \in OnChain : Index!Closes(OnChain, p, y) /\ r = ClosingRow(p, y)
    <3>1. PICK p, y \in OnChain : Index!Closes(OnChain, p, y) /\ r = ClosingRow(p, y)
      BY <2>3
    <3>2. y = q
      BY <1>1, <1>3, <2>1, <3>1
    <3> QED  BY <3>1, <3>2 DEF ClosedAfter
  <2> QED  BY <1>2, <2>1, <2>2, <2>3
<1>7. AvailableRow(q) \in StatesOf(db, RowOf(q))
  BY <1>1, <1>2, <1>5
<1>8. ASSUME NEW p \in OnChain, ClosedAfter(q, p)
      PROVE  ClosingRow(p, q) \in StatesOf(db, RowOf(q))
  BY <1>1, <1>2, <1>4, <1>5, <1>8 DEF ClosedAfter
<1> QED  BY <1>1, <1>6, <1>7, <1>8

\* A proposal is closed once, and not before its creation.
LEMMA ClosedOnce ==
  ASSUME ChainInv, NEW q \in Created, NEW p \in OnChain, ClosedAfter(q, p)
  PROVE  /\ \A r \in OnChain : ClosedAfter(q, r) => r = p
         /\ p.b.slot \in Nat /\ q.b.slot \in Nat /\ q.b.slot <= p.b.slot
         /\ p.b # q.b => q.b.slot < p.b.slot
<1>1. \A r \in OnChain : ClosedAfter(q, r) =>
        [tx |-> Index!TxAt(q).hash, index |-> Index!TxAt(q).deposit.index] \in Index!TxAt(r).inputs
  BY DEF ClosedAfter, Index!Closes
<1>2. \A r \in OnChain : ClosedAfter(q, r) => r = p
  BY <1>1, OnChainFacts
<1>3. Index!Before(q, p)
  BY DEF ClosedAfter, Index!Closes
<1>4. p.b.slot \in Nat /\ q.b.slot \in Nat
  BY OnChainFacts DEF Created
<1> QED  BY <1>2, <1>3, <1>4 DEF Index!Before

\* The last slot, once found.
LEMMA LastSlotIs ==
  ASSUME NEW states, NEW r \in states, r.slot \in Nat,
         \A s \in states : s.slot \in Nat /\ s.slot <= r.slot
  PROVE  LastSlot(states) = r.slot
<1> DEFINE slots == {s.slot : s \in states}
           last == CHOOSE t \in slots : \A s \in states : s.slot <= t
<1>1. r.slot \in slots /\ \A s \in states : s.slot <= r.slot
  OBVIOUS
<1>2. last \in slots /\ \A s \in states : s.slot <= last
  BY <1>1
<1>3. LastSlot(states) = last
  BY DEF LastSlot
<1>4. PICK s \in states : last = s.slot
  BY <1>2
<1> QED  BY <1>2, <1>3, <1>4

\* The last slot of a proposal's states is that of its closing, if it has one.
LEMMA LastStateSlot ==
  ASSUME ChainInv, NEW q \in Created
  PROVE  /\ (\A p \in OnChain : ~ClosedAfter(q, p)) => LastSlot(StatesOf(db, RowOf(q))) = q.b.slot
         /\ \A p \in OnChain : ClosedAfter(q, p) => LastSlot(StatesOf(db, RowOf(q))) = p.b.slot
<1> DEFINE states == StatesOf(db, RowOf(q))
<1>1. q.b.slot \in Nat
  BY OnChainFacts DEF Created
<1>2. ASSUME \A p \in OnChain : ~ClosedAfter(q, p) PROVE LastSlot(states) = q.b.slot
  <2>1. AvailableRow(q) \in states /\ AvailableRow(q).slot = q.b.slot
        /\ \A s \in states : s = AvailableRow(q)
    BY <1>2, StatesFollow
  <2> HIDE DEF states
  <2> QED  BY <1>1, <2>1, LastSlotIs
<1>3. ASSUME NEW p \in OnChain, ClosedAfter(q, p) PROVE LastSlot(states) = p.b.slot
  <2>1. ClosingRow(p, q) \in states /\ ClosingRow(p, q).slot = p.b.slot
        /\ AvailableRow(q).slot = q.b.slot
        /\ \A s \in states : s = AvailableRow(q)
             \/ \E r \in OnChain : ClosedAfter(q, r) /\ s = ClosingRow(r, q)
    BY <1>3, StatesFollow
  <2>2. /\ \A r \in OnChain : ClosedAfter(q, r) => r = p
        /\ p.b.slot \in Nat /\ q.b.slot <= p.b.slot
    BY <1>3, ClosedOnce
  <2> HIDE DEF states
  <2>3. \A s \in states : s.slot \in Nat /\ s.slot <= p.b.slot
    BY <1>1, <2>1, <2>2
  <2> QED  BY <2>1, <2>2, <2>3, LastSlotIs
<1> QED  BY <1>2, <1>3

\* A proposal is no longer counted as ongoing once a later block than that of
\* its creation has closed it, and is until then while its poll runs.
THEOREM ActiveCorrect == ApiSpec => []ActiveUntilClosed
<1>1. ChainInv => ActiveUntilClosed
  <2> SUFFICES ASSUME ChainInv, NEW q \in Created, NEW now \in 0 .. MaxSlot
               PROVE  LET closing == {p \in OnChain : ClosedAfter(q, p)}
                      IN  /\ (\E p \in closing : p.b # q.b) => ~Active(db, RowOf(q), now)
                          /\ closing = {} =>
                               (Active(db, RowOf(q), now) <=>
                                  \E p \in db.poll :
                                    p.hash = RowOf(q).poll /\ now \in p.start .. p.end - 1)
    BY DEF ActiveUntilClosed
  <2> DEFINE closing == {p \in OnChain : ClosedAfter(q, p)}
             states == StatesOf(db, RowOf(q))
  <2>1. \A r \in states : r.status = "AVAILABLE" => r.slot = q.b.slot
    BY StatesFollow
  <2>2. ASSUME NEW p \in closing, p.b # q.b PROVE ~Active(db, RowOf(q), now)
    <3>1. LastSlot(states) = p.b.slot
      BY LastStateSlot
    <3>2. q.b.slot < p.b.slot /\ q.b.slot \in Nat /\ p.b.slot \in Nat
      BY <2>2, ClosedOnce
    <3> HIDE DEF states
    <3>3. ~\E r \in states : r.status = "AVAILABLE" /\ r.slot = LastSlot(states)
      BY <2>1, <3>1, <3>2
    <3> QED  BY <3>3 DEF Active, states
  <2>3. ASSUME closing = {}
        PROVE  Active(db, RowOf(q), now) <=>
                 \E p \in db.poll : p.hash = RowOf(q).poll /\ now \in p.start .. p.end - 1
    <3>1. LastSlot(states) = q.b.slot
      BY <2>3, LastStateSlot
    <3>2. AvailableRow(q) \in states /\ AvailableRow(q).slot = q.b.slot
          /\ AvailableRow(q).status = "AVAILABLE"
      BY StatesFollow
    <3> HIDE DEF states
    <3>3. \E r \in states : r.status = "AVAILABLE" /\ r.slot = LastSlot(states)
      BY <3>1, <3>2
    <3>4. \A p \in db.poll : p.start \in Nat /\ p.end \in Nat
      BY DEF ChainInv, IInv, TypeOK, Database, PollRows
    <3>5. \A p \in db.poll : now \in p.start .. p.end - 1 <=> p.start <= now /\ now < p.end
      BY <3>4
    <3> QED  BY <3>3, <3>5 DEF Active, states
  <2> QED  BY <2>2, <2>3
<1> QED  BY <1>1, ApiInvariance, PTL DEF ApiInv

\* A proposal is listed until a later block than that of its creation cancels
\* it, and is not from then on, whatever becomes of others of its poll.
THEOREM ListedCorrect == ApiSpec => []ListedUntilCancelled
<1>1. ChainInv => ListedUntilCancelled
  <2> SUFFICES ASSUME ChainInv, NEW q \in Created
               PROVE  LET cancelling == {p \in OnChain : ClosedAfter(q, p)
                                           /\ Index!TxAt(p).manage.op = "cancelProposal"}
                      IN  /\ (\E p \in cancelling : p.b # q.b) => RowOf(q) \notin Listable(db)
                          /\ cancelling = {} => RowOf(q) \in Listable(db)
    BY DEF ListedUntilCancelled
  <2> DEFINE cancelling == {p \in OnChain : ClosedAfter(q, p)
                              /\ Index!TxAt(p).manage.op = "cancelProposal"}
             states == StatesOf(db, RowOf(q))
             shown == {s \in states : s.slot = LastSlot(states)}
  <2>1. PossibleStatuses(db, RowOf(q)) = {r.status : r \in shown}
    BY DEF PossibleStatuses
  <2>2. ASSUME NEW p \in cancelling, p.b # q.b PROVE RowOf(q) \notin Listable(db)
    <3>1. LastSlot(states) = p.b.slot
      BY LastStateSlot
    <3>2. /\ q.b.slot < p.b.slot /\ q.b.slot \in Nat /\ p.b.slot \in Nat
          /\ \A r \in OnChain : ClosedAfter(q, r) => r = p
      BY <2>2, ClosedOnce
    <3>3. ClosingRow(p, q).status = "CANCELLED"
      BY StatesFollow DEF Index!ClosingStatus
    <3>4. /\ ClosingRow(p, q) \in states /\ ClosingRow(p, q).slot = p.b.slot
          /\ AvailableRow(q).slot = q.b.slot
          /\ \A s \in states : s = AvailableRow(q)
               \/ \E r \in OnChain : ClosedAfter(q, r) /\ s = ClosingRow(r, q)
      BY StatesFollow
    <3> HIDE DEF states
    <3>5. shown = {ClosingRow(p, q)}
      BY <3>1, <3>2, <3>4
    <3>6. {r.status : r \in shown} = {"CANCELLED"}
      BY <3>3, <3>5
    <3> QED  BY <2>1, <3>6 DEF Listable
  <2>3. ASSUME cancelling = {} PROVE RowOf(q) \in Listable(db)
    <3>1. ASSUME NEW r \in states PROVE r.status # "CANCELLED"
      <4>1. CASE r = AvailableRow(q)
        BY <4>1, StatesFollow
      <4>2. ASSUME NEW p \in OnChain, ClosedAfter(q, p), r = ClosingRow(p, q)
            PROVE  r.status # "CANCELLED"
        <5>1. Index!TxAt(p).manage.op # "cancelProposal"
          BY <2>3, <4>2
        <5>2. r.status = Index!ClosingStatus(Index!TxAt(p))
          BY <4>2, StatesFollow
        <5> QED  BY <5>1, <5>2 DEF Index!ClosingStatus
      <4>3. r = AvailableRow(q) \/ \E p \in OnChain : ClosedAfter(q, p) /\ r = ClosingRow(p, q)
        BY StatesFollow
      <4> QED  BY <4>1, <4>2, <4>3
    <3>2. {r.status : r \in shown} # {"CANCELLED"}
      BY <3>1
    <3>3. RowOf(q) \in db.proposal
      BY ChoicesOfCreated
    <3> QED  BY <2>1, <3>2, <3>3 DEF Listable
  <2> QED  BY <2>2, <2>3
<1> QED  BY <1>1, ApiInvariance, PTL DEF ApiInv
-----------------------------------------------------------------------------
(* What a user may still vote for. *)

\* A user who voted for a proposal has one last vote for it.
LEMMA LastVoteOf ==
  ASSUME ChainInv, RowsInv, NEW owner
  PROVE  /\ \A v \in db.vote : v.owner = owner =>
              \E w \in GetUserVotes(db, owner) : w.proposal = v.proposal
         /\ \A v, w \in GetUserVotes(db, owner) : v.proposal = w.proposal => v = w
<1>1. /\ \A v \in db.vote : v.id \in Nat
      /\ IdsBounded(db.vote)
  BY DEF ChainInv, IInv, DbOK, Database, VoteRows
<1>2. ASSUME NEW v \in db.vote, v.owner = owner
      PROVE  \E w \in GetUserVotes(db, owner) : w.proposal = v.proposal
  <2> DEFINE same == {w \in db.vote : w.owner = owner /\ w.proposal = v.proposal}
             ids == {w.id : w \in same}
  <2>1. ids \subseteq Nat /\ ids # {}
    BY <1>1, <1>2
  <2>2. PICK n \in Nat : \A i \in ids : i <= n
    BY <1>1 DEF IdsBounded
  <2>3. \E i \in ids : \A j \in ids : j <= i
    <3> HIDE DEF ids
    <3> QED  BY <2>1, <2>2, LargestNat
  <2>4. PICK w \in same : \A u \in same : u.id <= w.id
    BY <2>3
  <2> QED  BY <2>4 DEF GetUserVotes
<1>3. ASSUME NEW v \in GetUserVotes(db, owner), NEW w \in GetUserVotes(db, owner),
             v.proposal = w.proposal
      PROVE  v = w
  <2>1. v.id <= w.id /\ w.id <= v.id /\ v \in db.vote /\ w \in db.vote
    BY <1>3 DEF GetUserVotes
  <2> QED  BY <1>1, <1>3, <2>1 DEF RowsInv, KeysOK
<1> QED  BY <1>2, <1>3

\* The ongoing proposals are those a user may still vote for and those whose
\* vote the user is shown.
THEOREM VotableCorrect == ApiSpec => []VotableUntilVoted
<1>1. ApiInv => VotableUntilVoted
  <2> SUFFICES ASSUME ApiInv, NEW owner \in Owners, NEW now \in 0 .. MaxSlot
               PROVE  ActiveProposalsCount(db, now) =
                        UserVotableProposalsCount(db, now, owner)
                          + Cardinality({v \in GetUserVotes(db, owner) :
                              \E p \in db.proposal : p.hash = v.proposal /\ Active(db, p, now)})
    BY DEF VotableUntilVoted
  <2> USE DEF ApiInv
  <2> DEFINE active == {p \in db.proposal : Active(db, p, now)}
             Voted(p) == \E v \in db.vote : v.proposal = p.hash /\ v.owner = owner
             votable == {p \in db.proposal : Active(db, p, now) /\ ~Voted(p)}
             voted == {p \in active : Voted(p)}
             shown == {v \in GetUserVotes(db, owner) :
                         \E p \in db.proposal : p.hash = v.proposal /\ Active(db, p, now)}
             voteOn == [v \in shown |-> CHOOSE p \in db.proposal : p.hash = v.proposal]
  <2>1. IsFiniteSet(active) /\ IsFiniteSet(votable) /\ IsFiniteSet(voted) /\ IsFiniteSet(shown)
    <3>1. IsFiniteSet(db.proposal) /\ IsFiniteSet(db.vote)
      BY DEF RowsInv, RowsFinite
    <3>2. active \subseteq db.proposal /\ votable \subseteq db.proposal
          /\ voted \subseteq db.proposal /\ shown \subseteq db.vote
      BY DEF GetUserVotes
    <3> QED  BY <3>1, <3>2, FS_Subset
  <2>2. active = votable \cup voted /\ votable \cap voted = {}
    OBVIOUS
  <2>3. Cardinality(active) = Cardinality(votable) + Cardinality(voted)
    <3> HIDE DEF active, votable, voted
    <3>1. Cardinality(votable \cup voted) =
            Cardinality(votable) + Cardinality(voted) - Cardinality(votable \cap voted)
      BY <2>1, FS_Union
    <3>2. Cardinality(votable \cap voted) = 0
      BY <2>2, FS_EmptySet
    <3>3. Cardinality(votable) \in Nat /\ Cardinality(voted) \in Nat
      BY <2>1, FS_CardinalityType
    <3> QED  BY <2>2, <3>1, <3>2, <3>3
  <2>4. \A v \in shown : voteOn[v] \in db.proposal /\ voteOn[v].hash = v.proposal
    OBVIOUS
  <2>5. \A v, w \in shown : voteOn[v] = voteOn[w] => v = w
    <3> SUFFICES ASSUME NEW v \in shown, NEW w \in shown, voteOn[v] = voteOn[w] PROVE v = w
      OBVIOUS
    <3>1. v.proposal = w.proposal
      BY <2>4
    <3> QED  BY <3>1, LastVoteOf
  <2>6. {voteOn[v] : v \in shown} = voted
    <3>1. ASSUME NEW v \in shown PROVE voteOn[v] \in voted
      <4>1. PICK p \in db.proposal : p.hash = v.proposal /\ Active(db, p, now)
        OBVIOUS
      <4>2. voteOn[v] = p
        BY <2>4, <4>1, ProposalsFollow
      <4>3. Voted(p)
        BY <4>1 DEF GetUserVotes
      <4> QED  BY <4>1, <4>2, <4>3
    <3>2. ASSUME NEW p \in voted PROVE \E v \in shown : voteOn[v] = p
      <4>1. p \in db.proposal /\ Active(db, p, now) /\ Voted(p)
        OBVIOUS
      <4>2. PICK w \in GetUserVotes(db, owner) : w.proposal = p.hash
        BY <4>1, LastVoteOf
      <4>3. w \in shown
        BY <4>1, <4>2
      <4>4. voteOn[w] = p
        BY <2>4, <4>1, <4>2, <4>3, ProposalsFollow
      <4> QED  BY <4>3, <4>4
    <3> HIDE DEF voteOn, shown, voted
    <3> QED  BY <3>1, <3>2
  <2>7. Cardinality(voted) = Cardinality(shown)
    <3> HIDE DEF voteOn, shown, voted
    <3> QED  BY <2>1, <2>5, <2>6, SameCardinality
  <2> QED  BY <2>3, <2>7 DEF ActiveProposalsCount, UserVotableProposalsCount
<1> QED  BY <1>1, ApiInvariance, PTL
=============================================================================
