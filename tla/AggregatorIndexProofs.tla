------------------------ MODULE AggregatorIndexProofs ------------------------
(***************************************************************************)
(* Proof that the aggregator implements the index of GovernanceIndex: the  *)
(* committed tables are what the stored blocks say, and a step adds one    *)
(* later block, goes back to a prefix, or changes nothing.                 *)
(*                                                                         *)
(* In the middle of a block the open transaction holds what the handlers   *)
(* settled so far have written.  The invariant gives these tables in the   *)
(* terms of the index, restricted to the handlers that are done.           *)
(***************************************************************************)
EXTENDS AggregatorProofs

\* Handler h of the transaction at place p is done, when those of the
\* transaction at place here that are still running are in the set running.
Done(p, h, here, running) == p = here => h \notin running

TxRowAt(p) ==
  [hash |-> Index!TxAt(p).hash, fee |-> Index!TxAt(p).fee, slot |-> p.b.slot]

OpensAt(p, here, running) == Index!OpensPoll(Index!TxAt(p)) /\ Done(p, 0, here, running)

CreatesAt(P, p, here, running) == Index!CreatesProposal(P, p) /\ Done(p, 0, here, running)

ClosesAt(P, p, q, here, running) == Index!Closes(P, p, q) /\ Done(p, 0, here, running)

VotesAt(P, p, k, here, running) ==
  /\ k \in DOMAIN Index!TxAt(p).votes
  /\ Index!Votes(P, p, Index!TxAt(p).votes[k])
  /\ Done(p, k, here, running)

RecordedAt(P, p, here, running) ==
  \/ Index!AddsProposal(Index!TxAt(p)) /\ Done(p, 0, here, running)
  \/ \E q \in P : ClosesAt(P, p, q, here, running)
  \/ \E k \in Nat : VotesAt(P, p, k, here, running)

AvailableRow(p) == StateRow(Index!TxAt(p).hash, Index!TxAt(p).hash, p.b.slot, "AVAILABLE")

ClosingRow(p, q) ==
  StateRow(Index!TxAt(q).hash, Index!TxAt(q).hash, p.b.slot, Index!ClosingStatus(Index!TxAt(p)))

VoteRow(p, k, q) ==
  LET e == Index!TxAt(p).votes[k]
  IN  [owner |-> e.owner, proposal |-> Index!TxAt(q).hash, poll |-> e.poll,
       choice |-> e.choices[Index!TxAt(q).hash], power |-> e.power,
       tx |-> Index!TxAt(p).hash, slot |-> p.b.slot]

\* The tables t hold what the handlers done at the places P write.
Holds(t, P, here, running) ==
  /\ \A r : r \in t.tx <=> \E p \in P : RecordedAt(P, p, here, running) /\ r = TxRowAt(p)
  /\ \A r : r \in t.poll <=>
       \E p \in P : OpensAt(p, here, running) /\ r = PollRow(Index!TxAt(p), p.b.slot)
  /\ \A r : r \in t.proposal <=>
       \E p \in P : CreatesAt(P, p, here, running) /\ r = ProposalRow(Index!TxAt(p), p.b.slot)
  /\ \A r : r \in t.state <=>
       \/ \E p \in P : CreatesAt(P, p, here, running) /\ r = AvailableRow(p)
       \/ \E p, q \in P : ClosesAt(P, p, q, here, running) /\ r = ClosingRow(p, q)
  /\ \A r : r \in t.vote <=>
       \E p, q \in P : \E k \in DOMAIN Index!TxAt(p).votes :
         /\ Index!VotesFor(P, p, Index!TxAt(p).votes[k], q)
         /\ Done(p, k, here, running)
         /\ r = VoteRow(p, k, q)

\* The transactions of the stored blocks that have been taken up.
Taken == {p \in Index!Places(Indexed(work)) : p.b = current => p.i <= at}

Here == [b |-> current, i |-> at]

NoPlace == [b |-> NoBlock, i |-> 0]

IndexInv ==
  /\ Holds(TablesIn(db), Index!Places(Indexed(db)), NoPlace, {})
  /\ pc = "insert" => \A b \in Indexed(db) : b.slot < current.slot
  /\ todo # {} => Tx.spends = "inputs"
  /\ pc = "insert" /\ ~aborted => Holds(TablesIn(work), Taken, Here, todo)
-----------------------------------------------------------------------------
(* Places. *)

\* The index describes rows with the operators of the database.
LEMMA SameOperators ==
  /\ \A b : Index!TxsOf(b) = TxsOf(b)
  /\ \A t, s : Index!PollRow(t, s) = PollRow(t, s)
  /\ \A t, s : Index!ProposalRow(t, s) = ProposalRow(t, s)
  /\ \A p, t, s, x : Index!StateRow(p, t, s, x) = StateRow(p, t, s, x)
  /\ \A t : Index!DepositSuffices(t) <=> DepositSuffices(t)
  /\ \A w, s : Index!InWindow(w, s) <=> InWindow(w, s)
  /\ \A r, c : Index!ChoiceExists(r, c) <=> ChoiceExists(r, c)
BY DEF Index!TxsOf, TxsOf, Index!Indexable, Indexable, Index!PollRow, PollRow,
   Index!ProposalRow, ProposalRow, Index!StateRow, StateRow, Index!DepositSuffices,
   DepositSuffices, Index!InWindow, InWindow, Index!ChoiceExists, ChoiceExists,
   Index!NoTx, NoTx, Index!Abstain, Abstain

\* A successful transaction has a place.
LEMMA PlaceExists ==
  ASSUME NEW B, NEW b \in B, NEW i \in DOMAIN TxsOf(b), TxsOf(b)[i].spends = "inputs"
  PROVE  [b |-> b, i |-> i] \in Index!Places(B)
BY SameOperators DEF Index!Places

\* A place is a transaction of one of the blocks.
LEMMA PlaceFacts ==
  ASSUME NEW B, \A b \in B : b \in Block, NEW p \in Index!Places(B)
  PROVE  /\ p.b \in B /\ p.b.slot \in Nat /\ p.i \in Nat /\ p.i > 0
         /\ p.i \in DOMAIN TxsOf(p.b) /\ Index!TxAt(p) = TxsOf(p.b)[p.i]
         /\ Index!TxAt(p) \in Txs /\ Index!TxAt(p).spends = "inputs"
         /\ p = [b |-> p.b, i |-> p.i]
<1>1. PICK b \in B : \E i \in DOMAIN TxsOf(b) :
        p = [b |-> b, i |-> i] /\ TxsOf(b)[i].spends = "inputs"
  BY SameOperators DEF Index!Places
<1>2. PICK i \in DOMAIN TxsOf(b) : p = [b |-> b, i |-> i] /\ TxsOf(b)[i].spends = "inputs"
  BY <1>1
<1>3. b \in Block /\ b.slot \in Nat
  BY DEF Block
<1>4. DOMAIN TxsOf(b) = 1 .. Len(TxsOf(b)) /\ Len(TxsOf(b)) \in Nat /\ TxsOf(b)[i] \in Txs
  BY <1>3, TxsOfType
<1>5. Index!TxAt(p) = TxsOf(b)[i]
  BY <1>2, SameOperators DEF Index!TxAt
<1> QED  BY <1>2, <1>3, <1>4, <1>5

\* A transaction has one place, an output of a proposal one place that spends it.
LEMMA PlaceUnique ==
  ASSUME NEW B, \A b \in B : b \in Block, TxUnique(B),
         NEW p \in Index!Places(B), NEW q \in Index!Places(B),
         \/ Index!TxAt(p).hash = Index!TxAt(q).hash
         \/ Index!TxAt(p).inputs \cap Index!TxAt(q).inputs # {}
  PROVE  p = q
<1>1. /\ p.b \in B /\ p.i \in DOMAIN TxsOf(p.b) /\ Index!TxAt(p) = TxsOf(p.b)[p.i]
      /\ Index!TxAt(p).spends = "inputs" /\ p = [b |-> p.b, i |-> p.i]
  BY PlaceFacts
<1>2. /\ q.b \in B /\ q.i \in DOMAIN TxsOf(q.b) /\ Index!TxAt(q) = TxsOf(q.b)[q.i]
      /\ Index!TxAt(q).spends = "inputs" /\ q = [b |-> q.b, i |-> q.i]
  BY PlaceFacts
<1>3. p.b = q.b /\ p.i = q.i
  BY <1>1, <1>2 DEF TxUnique, SpentBy
<1> QED  BY <1>1, <1>2, <1>3
-----------------------------------------------------------------------------
(* What a place says depends on the places before it only. *)

Initial(P, Q) == P \subseteq Q /\ \A p \in P, q \in Q \ P : ~Index!Before(q, p)

\* What a place does is settled by the places before it.
LEMMA Stable ==
  ASSUME NEW P, NEW Q, Initial(P, Q), NEW p \in P
  PROVE  /\ Index!CreatesProposal(P, p) <=> Index!CreatesProposal(Q, p)
         /\ \A e : Index!Votes(P, p, e) <=> Index!Votes(Q, p, e)
         /\ \A q \in P : Index!Closes(P, p, q) <=> Index!Closes(Q, p, q)
         /\ \A q \in Q : Index!Closes(Q, p, q) => q \in P
         /\ \A e : \A q \in P : Index!VotesFor(P, p, e, q) <=> Index!VotesFor(Q, p, e, q)
         /\ \A e : \A q \in Q : Index!VotesFor(Q, p, e, q) => q \in P
<1>1. \A x \in P : \A h : (\E q \in P : Index!PollOpenedBefore(q, x, h)) <=>
                         (\E q \in Q : Index!PollOpenedBefore(q, x, h))
  BY DEF Initial, Index!PollOpenedBefore
<1>2. \A x \in P : Index!CreatesProposal(P, x) <=> Index!CreatesProposal(Q, x)
  BY <1>1 DEF Index!CreatesProposal
<1>3. \A e : Index!Votes(P, p, e) <=> Index!Votes(Q, p, e)
  BY DEF Initial, Index!PollOpenedBefore, Index!Votes
<1>4. \A q \in Q : Index!Before(q, p) => q \in P
  BY DEF Initial
<1> QED  BY <1>2, <1>3, <1>4 DEF Index!Closes, Index!VotesFor

\* Tables hold the same of more places, if those say nothing yet.
LEMMA HoldsOfMore ==
  ASSUME NEW t, NEW P, NEW Q, Initial(P, Q), NEW h1, NEW r1, NEW h2, NEW r2,
         Holds(t, P, h1, r1),
         \A p \in P : \A k : Done(p, k, h1, r1) <=> Done(p, k, h2, r2),
         \A p \in Q \ P : /\ Index!AddsProposal(Index!TxAt(p)) => ~Done(p, 0, h2, r2)
                          /\ \A q \in Q : Index!Closes(Q, p, q) => ~Done(p, 0, h2, r2)
                          /\ \A k \in DOMAIN Index!TxAt(p).votes : ~Done(p, k, h2, r2)
  PROVE  Holds(t, Q, h2, r2)
<1>1. P \subseteq Q
  BY DEF Initial
<1>2. \A p \in P : /\ OpensAt(p, h1, r1) <=> OpensAt(p, h2, r2)
                   /\ CreatesAt(P, p, h1, r1) <=> CreatesAt(Q, p, h2, r2)
  BY Stable DEF OpensAt, CreatesAt
<1>3. \A p, q \in P : ClosesAt(P, p, q, h1, r1) <=> ClosesAt(Q, p, q, h2, r2)
  BY Stable DEF ClosesAt
<1>4. \A p \in P, q \in Q : ClosesAt(Q, p, q, h2, r2) => q \in P
  BY Stable DEF ClosesAt
<1>5. \A p \in Q \ P : /\ ~OpensAt(p, h2, r2) /\ ~CreatesAt(Q, p, h2, r2)
                       /\ \A q \in Q : ~ClosesAt(Q, p, q, h2, r2)
                       /\ ~RecordedAt(Q, p, h2, r2)
  BY DEF OpensAt, CreatesAt, ClosesAt, VotesAt, RecordedAt, Index!OpensPoll, Index!CreatesProposal
<1>6. \A p \in P : \A k : VotesAt(P, p, k, h1, r1) <=> VotesAt(Q, p, k, h2, r2)
  BY Stable DEF VotesAt
<1>7. \A p \in P : RecordedAt(P, p, h1, r1) <=> RecordedAt(Q, p, h2, r2)
  BY <1>1, <1>3, <1>4, <1>6 DEF RecordedAt, Done
<1>8. \A r : r \in t.tx <=> \E p \in Q : RecordedAt(Q, p, h2, r2) /\ r = TxRowAt(p)
  BY <1>1, <1>5, <1>7 DEF Holds
<1>9. \A r : r \in t.poll <=>
        \E p \in Q : OpensAt(p, h2, r2) /\ r = PollRow(Index!TxAt(p), p.b.slot)
  BY <1>1, <1>2, <1>5 DEF Holds
<1>10. \A r : r \in t.proposal <=>
         \E p \in Q : CreatesAt(Q, p, h2, r2) /\ r = ProposalRow(Index!TxAt(p), p.b.slot)
  BY <1>1, <1>2, <1>5 DEF Holds
<1>11. \A r : r \in t.state <=>
         \/ \E p \in Q : CreatesAt(Q, p, h2, r2) /\ r = AvailableRow(p)
         \/ \E p, q \in Q : ClosesAt(Q, p, q, h2, r2) /\ r = ClosingRow(p, q)
  BY <1>1, <1>2, <1>3, <1>4, <1>5 DEF Holds
<1>12. \A r : r \in t.vote <=>
         \E p, q \in Q : \E k \in DOMAIN Index!TxAt(p).votes :
           /\ Index!VotesFor(Q, p, Index!TxAt(p).votes[k], q)
           /\ Done(p, k, h2, r2)
           /\ r = VoteRow(p, k, q)
  BY <1>1, Stable DEF Holds
<1> QED  BY <1>8, <1>9, <1>10, <1>11, <1>12 DEF Holds

\* Going back to a slot leaves what the places up to it say.
LEMMA HoldsUpTo ==
  ASSUME NEW t, NEW Q, NEW slot \in Nat, \A p \in Q : p.b.slot \in Nat,
         Holds(t, Q, NoPlace, {}), NEW u,
         \A table \in {"tx", "poll", "proposal", "state", "vote"} :
           u[table] = {r \in t[table] : r.slot <= slot}
  PROVE  Holds(u, {p \in Q : p.b.slot <= slot}, NoPlace, {})
<1> DEFINE P == {p \in Q : p.b.slot <= slot}
<1>1. Initial(P, Q)
  <2>1. ASSUME NEW p \in P, NEW q \in Q \ P PROVE ~Index!Before(q, p)
    <3>1. p.b.slot < q.b.slot
      OBVIOUS
    <3>2. ~(q.b.slot < p.b.slot) /\ q.b # p.b
      BY <3>1
    <3> QED  BY <3>2 DEF Index!Before
  <2> QED  BY <2>1 DEF Initial
<1>2. /\ u.tx = {r \in t.tx : r.slot <= slot} /\ u.poll = {r \in t.poll : r.slot <= slot}
      /\ u.proposal = {r \in t.proposal : r.slot <= slot}
      /\ u.state = {r \in t.state : r.slot <= slot} /\ u.vote = {r \in t.vote : r.slot <= slot}
  OBVIOUS
<1>3. \A p \in Q : p \in P <=> p.b.slot <= slot
  OBVIOUS
<1> HIDE DEF P
<1>4. \A p \in P : p \in Q
  BY <1>1 DEF Initial
<1>5. \A p : \A k : Done(p, k, NoPlace, {})
  BY DEF Done
<1>6. \A p \in P : /\ CreatesAt(P, p, NoPlace, {}) <=> CreatesAt(Q, p, NoPlace, {})
                   /\ \A q \in P : ClosesAt(P, p, q, NoPlace, {}) <=> ClosesAt(Q, p, q, NoPlace, {})
                   /\ \A q \in Q : ClosesAt(Q, p, q, NoPlace, {}) => q \in P
                   /\ \A k : VotesAt(P, p, k, NoPlace, {}) <=> VotesAt(Q, p, k, NoPlace, {})
  BY <1>1, Stable DEF CreatesAt, ClosesAt, VotesAt
<1>7. \A p \in P : RecordedAt(P, p, NoPlace, {}) <=> RecordedAt(Q, p, NoPlace, {})
  BY <1>4, <1>6 DEF RecordedAt
<1>8. ASSUME NEW r
      PROVE  r \in u.tx <=> \E p \in P : RecordedAt(P, p, NoPlace, {}) /\ r = TxRowAt(p)
  <2>1. r \in t.tx <=> \E p \in Q : RecordedAt(Q, p, NoPlace, {}) /\ r = TxRowAt(p)
    BY DEF Holds
  <2>2. \A p : TxRowAt(p).slot = p.b.slot
    BY DEF TxRowAt
  <2> QED  BY <1>2, <1>3, <1>4, <1>7, <2>1, <2>2
<1>9. ASSUME NEW r
      PROVE  r \in u.poll <=>
               \E p \in P : OpensAt(p, NoPlace, {}) /\ r = PollRow(Index!TxAt(p), p.b.slot)
  <2>1. r \in t.poll <=>
          \E p \in Q : OpensAt(p, NoPlace, {}) /\ r = PollRow(Index!TxAt(p), p.b.slot)
    BY DEF Holds
  <2>2. \A p : PollRow(Index!TxAt(p), p.b.slot).slot = p.b.slot
    BY DEF PollRow
  <2> QED  BY <1>2, <1>3, <1>4, <2>1, <2>2
<1>10. ASSUME NEW r
       PROVE  r \in u.proposal <=>
                \E p \in P : CreatesAt(P, p, NoPlace, {}) /\ r = ProposalRow(Index!TxAt(p), p.b.slot)
  <2>1. r \in t.proposal <=>
          \E p \in Q : CreatesAt(Q, p, NoPlace, {}) /\ r = ProposalRow(Index!TxAt(p), p.b.slot)
    BY DEF Holds
  <2>2. \A p : ProposalRow(Index!TxAt(p), p.b.slot).slot = p.b.slot
    BY DEF ProposalRow
  <2> QED  BY <1>2, <1>3, <1>4, <1>6, <2>1, <2>2
<1>11. ASSUME NEW r
       PROVE  r \in u.state <=>
                \/ \E p \in P : CreatesAt(P, p, NoPlace, {}) /\ r = AvailableRow(p)
                \/ \E p, q \in P : ClosesAt(P, p, q, NoPlace, {}) /\ r = ClosingRow(p, q)
  <2>1. r \in t.state <=>
          \/ \E p \in Q : CreatesAt(Q, p, NoPlace, {}) /\ r = AvailableRow(p)
          \/ \E p, q \in Q : ClosesAt(Q, p, q, NoPlace, {}) /\ r = ClosingRow(p, q)
    BY DEF Holds
  <2>2. /\ \A p : AvailableRow(p).slot = p.b.slot
        /\ \A p, q : ClosingRow(p, q).slot = p.b.slot
    BY DEF AvailableRow, ClosingRow, StateRow
  <2>3. r \in u.state <=> r \in t.state /\ r.slot <= slot
    BY <1>2
  <2>4. (\E p \in P : CreatesAt(P, p, NoPlace, {}) /\ r = AvailableRow(p)) <=>
        (\E p \in Q : CreatesAt(Q, p, NoPlace, {}) /\ r = AvailableRow(p)) /\ r.slot <= slot
    BY <1>3, <1>4, <1>6, <2>2
  <2>5. (\E p, q \in P : ClosesAt(P, p, q, NoPlace, {}) /\ r = ClosingRow(p, q)) <=>
        (\E p, q \in Q : ClosesAt(Q, p, q, NoPlace, {}) /\ r = ClosingRow(p, q)) /\ r.slot <= slot
    BY <1>3, <1>4, <1>6, <2>2
  <2> QED  BY <2>1, <2>3, <2>4, <2>5
<1>12. \A p, q \in Q : \A k \in DOMAIN Index!TxAt(p).votes :
         p \in P => (Index!VotesFor(Q, p, Index!TxAt(p).votes[k], q) <=>
                       q \in P /\ Index!VotesFor(P, p, Index!TxAt(p).votes[k], q))
  BY <1>1, <1>4, Stable
<1>13. ASSUME NEW r
       PROVE  r \in u.vote <=>
                \E p, q \in P : \E k \in DOMAIN Index!TxAt(p).votes :
                  /\ Index!VotesFor(P, p, Index!TxAt(p).votes[k], q)
                  /\ Done(p, k, NoPlace, {})
                  /\ r = VoteRow(p, k, q)
  <2>1. r \in t.vote <=>
          \E p, q \in Q : \E k \in DOMAIN Index!TxAt(p).votes :
            /\ Index!VotesFor(Q, p, Index!TxAt(p).votes[k], q)
            /\ Done(p, k, NoPlace, {})
            /\ r = VoteRow(p, k, q)
    BY DEF Holds
  <2>2. \A p, k, q : VoteRow(p, k, q).slot = p.b.slot
    BY DEF VoteRow
  <2> QED  BY <1>2, <1>3, <1>4, <1>12, <2>1, <2>2
<1> QED  BY <1>8, <1>9, <1>10, <1>11, <1>13 DEF Holds, P
-----------------------------------------------------------------------------
(* A handler settles. *)

\* The place p0 is the last of P, and no other has its transaction.
LastOf(P, p0) ==
  /\ p0 \in P
  /\ \A q \in P \ {p0} : /\ Index!Before(q, p0) /\ ~Index!Before(p0, q)
                         /\ Index!TxAt(q).hash # Index!TxAt(p0).hash
  /\ ~Index!Before(p0, p0)

\* The tables after the governance handler of p0, the one with number 0.
LEMMA SettleGovernance ==
  ASSUME NEW t, NEW u, NEW P, NEW p0 \in P, NEW T, 0 \in T, Holds(t, P, p0, T),
         \A p \in P : 0 \notin DOMAIN Index!TxAt(p).votes,
         \A r : r \in u.tx <=>
           \/ r \in t.tx
           \/ /\ Index!AddsProposal(Index!TxAt(p0)) \/ \E q \in P : Index!Closes(P, p0, q)
              /\ r = TxRowAt(p0),
         \A r : r \in u.poll <=>
           \/ r \in t.poll
           \/ Index!OpensPoll(Index!TxAt(p0)) /\ r = PollRow(Index!TxAt(p0), p0.b.slot),
         \A r : r \in u.proposal <=>
           \/ r \in t.proposal
           \/ Index!CreatesProposal(P, p0) /\ r = ProposalRow(Index!TxAt(p0), p0.b.slot),
         \A r : r \in u.state <=>
           \/ r \in t.state
           \/ Index!CreatesProposal(P, p0) /\ r = AvailableRow(p0)
           \/ \E q \in P : Index!Closes(P, p0, q) /\ r = ClosingRow(p0, q),
         u.vote = t.vote
  PROVE  Holds(u, P, p0, T \ {0})
<1>1. \A p, k : Done(p, k, p0, T \ {0}) <=> Done(p, k, p0, T) \/ (p = p0 /\ k = 0)
  BY DEF Done
<1>2. \A p \in P : /\ OpensAt(p, p0, T \ {0}) <=>
                        OpensAt(p, p0, T) \/ (p = p0 /\ Index!OpensPoll(Index!TxAt(p)))
                   /\ CreatesAt(P, p, p0, T \ {0}) <=>
                        CreatesAt(P, p, p0, T) \/ (p = p0 /\ Index!CreatesProposal(P, p))
  BY <1>1 DEF OpensAt, CreatesAt
<1>3. \A p, q \in P : ClosesAt(P, p, q, p0, T \ {0}) <=>
        ClosesAt(P, p, q, p0, T) \/ (p = p0 /\ Index!Closes(P, p, q))
  BY <1>1 DEF ClosesAt
<1>4. \A p \in P : \A k : VotesAt(P, p, k, p0, T \ {0}) <=> VotesAt(P, p, k, p0, T)
  BY <1>1 DEF VotesAt
<1>5. \A p \in P : RecordedAt(P, p, p0, T \ {0}) <=>
        \/ RecordedAt(P, p, p0, T)
        \/ p = p0 /\ (Index!AddsProposal(Index!TxAt(p)) \/ \E q \in P : Index!Closes(P, p, q))
  BY <1>1, <1>3, <1>4 DEF RecordedAt
<1>6. ASSUME NEW r
      PROVE  r \in u.tx <=> \E p \in P : RecordedAt(P, p, p0, T \ {0}) /\ r = TxRowAt(p)
  <2>1. r \in t.tx <=> \E p \in P : RecordedAt(P, p, p0, T) /\ r = TxRowAt(p)
    BY DEF Holds
  <2> QED  BY <1>5, <2>1
<1>7. ASSUME NEW r
      PROVE  r \in u.poll <=>
               \E p \in P : OpensAt(p, p0, T \ {0}) /\ r = PollRow(Index!TxAt(p), p.b.slot)
  <2>1. r \in t.poll <=>
          \E p \in P : OpensAt(p, p0, T) /\ r = PollRow(Index!TxAt(p), p.b.slot)
    BY DEF Holds
  <2> QED  BY <1>2, <2>1
<1>8. ASSUME NEW r
      PROVE  r \in u.proposal <=>
               \E p \in P : CreatesAt(P, p, p0, T \ {0}) /\ r = ProposalRow(Index!TxAt(p), p.b.slot)
  <2>1. r \in t.proposal <=>
          \E p \in P : CreatesAt(P, p, p0, T) /\ r = ProposalRow(Index!TxAt(p), p.b.slot)
    BY DEF Holds
  <2> QED  BY <1>2, <2>1
<1>9. ASSUME NEW r
      PROVE  r \in u.state <=>
               \/ \E p \in P : CreatesAt(P, p, p0, T \ {0}) /\ r = AvailableRow(p)
               \/ \E p, q \in P : ClosesAt(P, p, q, p0, T \ {0}) /\ r = ClosingRow(p, q)
  <2>1. r \in t.state <=>
          \/ \E p \in P : CreatesAt(P, p, p0, T) /\ r = AvailableRow(p)
          \/ \E p, q \in P : ClosesAt(P, p, q, p0, T) /\ r = ClosingRow(p, q)
    BY DEF Holds
  <2>2. (\E p \in P : CreatesAt(P, p, p0, T \ {0}) /\ r = AvailableRow(p)) <=>
          \/ \E p \in P : CreatesAt(P, p, p0, T) /\ r = AvailableRow(p)
          \/ Index!CreatesProposal(P, p0) /\ r = AvailableRow(p0)
    BY <1>2
  <2>3. (\E p, q \in P : ClosesAt(P, p, q, p0, T \ {0}) /\ r = ClosingRow(p, q)) <=>
          \/ \E p, q \in P : ClosesAt(P, p, q, p0, T) /\ r = ClosingRow(p, q)
          \/ \E q \in P : Index!Closes(P, p0, q) /\ r = ClosingRow(p0, q)
    BY <1>3
  <2> QED  BY <2>1, <2>2, <2>3
<1>10. ASSUME NEW r
       PROVE  r \in u.vote <=>
                \E p, q \in P : \E k \in DOMAIN Index!TxAt(p).votes :
                  /\ Index!VotesFor(P, p, Index!TxAt(p).votes[k], q)
                  /\ Done(p, k, p0, T \ {0})
                  /\ r = VoteRow(p, k, q)
  <2>1. r \in t.vote <=>
          \E p, q \in P : \E k \in DOMAIN Index!TxAt(p).votes :
            /\ Index!VotesFor(P, p, Index!TxAt(p).votes[k], q)
            /\ Done(p, k, p0, T)
            /\ r = VoteRow(p, k, q)
    BY DEF Holds
  <2>2. \A p \in P : \A k \in DOMAIN Index!TxAt(p).votes :
          Done(p, k, p0, T \ {0}) <=> Done(p, k, p0, T)
    BY <1>1
  <2> QED  BY <2>1, <2>2
<1> QED  BY <1>6, <1>7, <1>8, <1>9, <1>10 DEF Holds

\* The tables after the handler of entry i at p0.
LEMMA SettleVotes ==
  ASSUME NEW t, NEW u, NEW P, NEW p0 \in P, NEW T, NEW i \in T \ {0}, i \in Nat,
         i \in DOMAIN Index!TxAt(p0).votes, Holds(t, P, p0, T),
         \A r : r \in u.tx <=>
           \/ r \in t.tx
           \/ Index!Votes(P, p0, Index!TxAt(p0).votes[i]) /\ r = TxRowAt(p0),
         u.poll = t.poll, u.proposal = t.proposal, u.state = t.state,
         \A r : r \in u.vote <=>
           \/ r \in t.vote
           \/ \E q \in P : Index!VotesFor(P, p0, Index!TxAt(p0).votes[i], q) /\ r = VoteRow(p0, i, q)
  PROVE  Holds(u, P, p0, T \ {i})
<1>1. \A p, k : Done(p, k, p0, T \ {i}) <=> Done(p, k, p0, T) \/ (p = p0 /\ k = i)
  BY DEF Done
<1>2. \A p \in P : /\ OpensAt(p, p0, T \ {i}) <=> OpensAt(p, p0, T)
                   /\ CreatesAt(P, p, p0, T \ {i}) <=> CreatesAt(P, p, p0, T)
                   /\ \A q \in P : ClosesAt(P, p, q, p0, T \ {i}) <=> ClosesAt(P, p, q, p0, T)
  BY <1>1 DEF OpensAt, CreatesAt, ClosesAt
<1>3. \A p \in P : \A k : VotesAt(P, p, k, p0, T \ {i}) <=>
        \/ VotesAt(P, p, k, p0, T)
        \/ p = p0 /\ k = i /\ Index!Votes(P, p, Index!TxAt(p).votes[k])
  BY <1>1 DEF VotesAt
<1>4. \A p \in P : RecordedAt(P, p, p0, T \ {i}) <=>
        \/ RecordedAt(P, p, p0, T)
        \/ p = p0 /\ Index!Votes(P, p, Index!TxAt(p).votes[i])
  <2>1. \A p \in P : Done(p, 0, p0, T \ {i}) <=> Done(p, 0, p0, T)
    BY <1>1
  <2> QED  BY <1>2, <1>3, <2>1 DEF RecordedAt
<1>5. ASSUME NEW r
      PROVE  r \in u.tx <=> \E p \in P : RecordedAt(P, p, p0, T \ {i}) /\ r = TxRowAt(p)
  <2>1. r \in t.tx <=> \E p \in P : RecordedAt(P, p, p0, T) /\ r = TxRowAt(p)
    BY DEF Holds
  <2> QED  BY <1>4, <2>1
<1>6. \A r : r \in u.poll <=>
        \E p \in P : OpensAt(p, p0, T \ {i}) /\ r = PollRow(Index!TxAt(p), p.b.slot)
  BY <1>2 DEF Holds
<1>7. \A r : r \in u.proposal <=>
        \E p \in P : CreatesAt(P, p, p0, T \ {i}) /\ r = ProposalRow(Index!TxAt(p), p.b.slot)
  BY <1>2 DEF Holds
<1>8. \A r : r \in u.state <=>
        \/ \E p \in P : CreatesAt(P, p, p0, T \ {i}) /\ r = AvailableRow(p)
        \/ \E p, q \in P : ClosesAt(P, p, q, p0, T \ {i}) /\ r = ClosingRow(p, q)
  BY <1>2 DEF Holds
<1>9. ASSUME NEW r
      PROVE  r \in u.vote <=>
                \E p, q \in P : \E k \in DOMAIN Index!TxAt(p).votes :
                  /\ Index!VotesFor(P, p, Index!TxAt(p).votes[k], q)
                  /\ Done(p, k, p0, T \ {i})
                  /\ r = VoteRow(p, k, q)
  <2>1. r \in t.vote <=>
          \E p, q \in P : \E k \in DOMAIN Index!TxAt(p).votes :
            /\ Index!VotesFor(P, p, Index!TxAt(p).votes[k], q)
            /\ Done(p, k, p0, T)
            /\ r = VoteRow(p, k, q)
    BY DEF Holds
  <2> QED  BY <1>1, <2>1
<1> QED  BY <1>5, <1>6, <1>7, <1>8, <1>9 DEF Holds
-----------------------------------------------------------------------------
(* The rows the handlers find and write are those the index describes. *)

\* The tables of a database.
LEMMA TablesFacts ==
  ASSUME NEW d
  PROVE  /\ TablesIn(d).tx = d.tx /\ TablesIn(d).poll = d.poll
         /\ TablesIn(d).proposal = d.proposal /\ TablesIn(d).state = d.state
         /\ TablesIn(d).vote = {VoteFacts(v) : v \in d.vote}
BY DEF TablesIn

\* A row of the transaction is there already only if another handler wrote it.
LEMMA UpsertRow ==
  ASSUME NEW d, NEW P, NEW p0, NEW T, LastOf(P, p0), Holds(TablesIn(d), P, p0, T),
         Index!TxAt(p0) \in Txs, Ready(d, p0.b.slot)
  PROVE  LET u == UpsertTransaction(d, Index!TxAt(p0), p0.b.slot)
         IN  /\ \A r : r \in u.tx <=> r \in d.tx \/ r = TxRowAt(p0)
             /\ u.poll = d.poll /\ u.proposal = d.proposal /\ u.state = d.state
             /\ u.vote = d.vote /\ u \in Database
<1> DEFINE u == UpsertTransaction(d, Index!TxAt(p0), p0.b.slot)
<1>1. /\ u.poll = d.poll /\ u.proposal = d.proposal /\ u.state = d.state
      /\ u.vote = d.vote /\ u \in Database
  BY UpsertTransactionOK DEF Ready, DbOK
<1>2. \A r : r \in u.tx <=> r \in d.tx \/ r = TxRowAt(p0)
  <2>1. CASE \E r \in d.tx : r.hash = Index!TxAt(p0).hash
    <3>1. PICK r \in d.tx : r.hash = Index!TxAt(p0).hash
      BY <2>1
    <3>2. PICK p \in P : r = TxRowAt(p)
      BY TablesFacts DEF Holds
    <3>3. Index!TxAt(p).hash = Index!TxAt(p0).hash
      BY <3>1, <3>2 DEF TxRowAt
    <3>4. p = p0
      BY <3>3 DEF LastOf
    <3>5. u = d
      BY <2>1 DEF UpsertTransaction
    <3> QED  BY <3>2, <3>4, <3>5
  <2>2. CASE ~\E r \in d.tx : r.hash = Index!TxAt(p0).hash
    <3>1. u.tx = d.tx \cup {TxRowAt(p0)}
      BY <2>2 DEF UpsertTransaction, TxRowAt, Ready, DbOK, Database
    <3> QED  BY <3>1
  <2> QED  BY <2>1, <2>2
<1> QED  BY <1>1, <1>2

\* The polls in the table are those opened before, seen from a handler that
\* cannot name its own transaction or has not written its poll.
LEMMA PollFound ==
  ASSUME NEW d, NEW P, NEW p0, NEW T, LastOf(P, p0), Holds(TablesIn(d), P, p0, T),
         NEW h, 0 \in T \/ Index!TxAt(p0).hash # h
  PROVE  \A r : r \in d.poll /\ r.hash = h <=>
           \E q \in P : Index!PollOpenedBefore(q, p0, h) /\ r = PollRow(Index!TxAt(q), q.b.slot)
<1>1. \A r : r \in d.poll <=>
        \E q \in P : OpensAt(q, p0, T) /\ r = PollRow(Index!TxAt(q), q.b.slot)
  BY TablesFacts DEF Holds
<1>2. \A q : PollRow(Index!TxAt(q), q.b.slot).hash = Index!TxAt(q).hash
  BY DEF PollRow
<1>3. \A q \in P : OpensAt(q, p0, T) /\ Index!TxAt(q).hash = h => Index!PollOpenedBefore(q, p0, h)
  BY DEF OpensAt, Done, LastOf, Index!PollOpenedBefore
<1>4. \A q \in P : Index!PollOpenedBefore(q, p0, h) => OpensAt(q, p0, T) /\ Index!TxAt(q).hash = h
  BY DEF OpensAt, Done, LastOf, Index!PollOpenedBefore
<1>5. ASSUME NEW r \in d.poll, r.hash = h
      PROVE  \E q \in P : Index!PollOpenedBefore(q, p0, h) /\ r = PollRow(Index!TxAt(q), q.b.slot)
  BY <1>1, <1>2, <1>3, <1>5
<1>6. ASSUME NEW q \in P, Index!PollOpenedBefore(q, p0, h)
      PROVE  PollRow(Index!TxAt(q), q.b.slot) \in d.poll /\ Index!TxAt(q).hash = h
  BY <1>1, <1>4, <1>6
<1> QED  BY <1>2, <1>5, <1>6

\* q creates the proposal h before p.
CreatedBefore(P, q, p, h) ==
  Index!CreatesProposal(P, q) /\ Index!Before(q, p) /\ Index!TxAt(q).hash = h

\* Likewise the proposals in the table are those created before.
LEMMA ProposalFound ==
  ASSUME NEW d, NEW P, NEW p0, NEW T, LastOf(P, p0), Holds(TablesIn(d), P, p0, T),
         NEW h, 0 \in T \/ Index!TxAt(p0).hash # h
  PROVE  \A r : r \in d.proposal /\ r.hash = h <=>
           \E q \in P : CreatedBefore(P, q, p0, h) /\ r = ProposalRow(Index!TxAt(q), q.b.slot)
<1>1. \A r : r \in d.proposal <=>
        \E q \in P : CreatesAt(P, q, p0, T) /\ r = ProposalRow(Index!TxAt(q), q.b.slot)
  BY TablesFacts DEF Holds
<1>2. \A q : ProposalRow(Index!TxAt(q), q.b.slot).hash = Index!TxAt(q).hash
  BY DEF ProposalRow
<1>3. \A q \in P : CreatesAt(P, q, p0, T) /\ Index!TxAt(q).hash = h => CreatedBefore(P, q, p0, h)
  BY DEF CreatesAt, Done, LastOf, CreatedBefore
<1>4. \A q \in P : CreatedBefore(P, q, p0, h) => CreatesAt(P, q, p0, T) /\ Index!TxAt(q).hash = h
  BY DEF CreatesAt, Done, LastOf, CreatedBefore
<1>5. ASSUME NEW r \in d.proposal, r.hash = h
      PROVE  \E q \in P : CreatedBefore(P, q, p0, h) /\ r = ProposalRow(Index!TxAt(q), q.b.slot)
  BY <1>1, <1>2, <1>3, <1>5
<1>6. ASSUME NEW q \in P, CreatedBefore(P, q, p0, h)
      PROVE  ProposalRow(Index!TxAt(q), q.b.slot) \in d.proposal /\ Index!TxAt(q).hash = h
  BY <1>1, <1>4, <1>6
<1> QED  BY <1>2, <1>5, <1>6

\* A proposal is inserted when the index creates one.
LEMMA AddProposalWrites ==
  ASSUME NEW d, NEW P, NEW p0, NEW T, LastOf(P, p0), Holds(TablesIn(d), P, p0, T), 0 \in T,
         Index!TxAt(p0) \in Txs, Ready(d, p0.b.slot),
         Index!TxAt(p0).manage.op = "addProposal"
  PROVE  LET e == AddProposal(d, Index!TxAt(p0), p0.b.slot)
         IN  /\ \A r : r \in e.tx <=>
                  r \in d.tx \/ (Index!AddsProposal(Index!TxAt(p0)) /\ r = TxRowAt(p0))
             /\ \A r : r \in e.poll <=>
                  \/ r \in d.poll
                  \/ /\ Index!OpensPoll(Index!TxAt(p0))
                     /\ r = PollRow(Index!TxAt(p0), p0.b.slot)
             /\ \A r : r \in e.proposal <=>
                  \/ r \in d.proposal
                  \/ /\ Index!CreatesProposal(P, p0)
                     /\ r = ProposalRow(Index!TxAt(p0), p0.b.slot)
             /\ \A r : r \in e.state <=>
                  r \in d.state \/ (Index!CreatesProposal(P, p0) /\ r = AvailableRow(p0))
<1> DEFINE t == Index!TxAt(p0)
           u == UpsertTransaction(d, t, p0.b.slot)
           e == AddProposal(d, t, p0.b.slot)
           fresh == t.manage.assigned = NoTx
           found == \E p \in d.poll : p.hash = t.manage.assigned
<1>1. /\ \A r : r \in u.tx <=> r \in d.tx \/ r = TxRowAt(p0)
      /\ u.poll = d.poll /\ u.proposal = d.proposal /\ u.state = d.state
      /\ u \in Database
  BY UpsertRow
<1>2. Index!AddsProposal(t) <=> DepositSuffices(t)
  BY SameOperators DEF Index!AddsProposal
<1>3. Index!OpensPoll(t) <=> DepositSuffices(t) /\ fresh
  BY <1>2 DEF Index!OpensPoll, Index!NoTx, NoTx
<1>4. Index!CreatesProposal(P, p0) <=> DepositSuffices(t) /\ (fresh \/ found)
  <2>1. found <=> \E q \in P : Index!PollOpenedBefore(q, p0, t.manage.assigned)
    BY PollFound
  <2> QED  BY <1>2, <1>3, <2>1 DEF Index!CreatesProposal
<1>5. CASE ~DepositSuffices(t)
  <2>1. e = d
    BY <1>5 DEF AddProposal, PollConnects
  <2> QED  BY <1>2, <1>3, <1>4, <1>5, <2>1
<1>6. CASE DepositSuffices(t) /\ ~fresh /\ ~found
  <2>1. e = u
    BY <1>6 DEF AddProposal, PollConnects
  <2> QED  BY <1>1, <1>2, <1>3, <1>4, <1>6, <2>1
<1>7. CASE DepositSuffices(t) /\ (fresh \/ found)
  <2> DEFINE polls == IF fresh THEN u.poll \cup {PollRow(t, p0.b.slot)} ELSE u.poll
             proposals == u.proposal \cup {ProposalRow(t, p0.b.slot)}
             states == u.state \cup {AvailableRow(p0)}
  <2>1. e = [u EXCEPT !.poll = polls, !.proposal = proposals, !.state = states]
    BY <1>7 DEF AddProposal, PollConnects, AvailableRow
  <2>2. e.tx = u.tx /\ e.poll = polls /\ e.proposal = proposals /\ e.state = states
    <3> HIDE DEF e, u, polls, proposals, states
    <3> QED  BY <1>1, <2>1 DEF Database
  <2>3. \A r : r \in e.tx <=> r \in d.tx \/ (Index!AddsProposal(t) /\ r = TxRowAt(p0))
    <3> HIDE DEF e, u, t
    <3> QED  BY <1>1, <1>2, <1>7, <2>2
  <2>4. \A r : r \in e.poll <=>
          r \in d.poll \/ (Index!OpensPoll(t) /\ r = PollRow(t, p0.b.slot))
    <3> HIDE DEF e, u, t
    <3> QED  BY <1>1, <1>3, <1>7, <2>2
  <2>5. \A r : r \in e.proposal <=>
          r \in d.proposal \/ (Index!CreatesProposal(P, p0) /\ r = ProposalRow(t, p0.b.slot))
    <3> HIDE DEF e, u, t
    <3> QED  BY <1>1, <1>4, <1>7, <2>2
  <2>6. \A r : r \in e.state <=>
          r \in d.state \/ (Index!CreatesProposal(P, p0) /\ r = AvailableRow(p0))
    <3> HIDE DEF e, u, t
    <3> QED  BY <1>1, <1>4, <1>7, <2>2
  <2> QED  BY <2>3, <2>4, <2>5, <2>6
<1> QED  BY <1>5, <1>6, <1>7

\* A proposal is closed when the index closes it.
LEMMA CloseProposalWrites ==
  ASSUME NEW d, NEW P, NEW p0, NEW T, LastOf(P, p0), Holds(TablesIn(d), P, p0, T), 0 \in T,
         Index!TxAt(p0) \in Txs, Ready(d, p0.b.slot),
         Index!TxAt(p0).manage.op \in {"concludeProposal", "cancelProposal"},
         NEW status, status = Index!ClosingStatus(Index!TxAt(p0))
  PROVE  LET e == CloseProposal(d, Index!TxAt(p0), p0.b.slot, status)
         IN  /\ \A r : r \in e.tx <=>
                  r \in d.tx \/ ((\E q \in P : Index!Closes(P, p0, q)) /\ r = TxRowAt(p0))
             /\ e.poll = d.poll /\ e.proposal = d.proposal
             /\ \A r : r \in e.state <=>
                  \/ r \in d.state
                  \/ \E q \in P : Index!Closes(P, p0, q) /\ r = ClosingRow(p0, q)
<1> DEFINE t == Index!TxAt(p0)
           u == UpsertTransaction(d, t, p0.b.slot)
           e == CloseProposal(d, t, p0.b.slot, status)
           target == t.manage.target
           found == \E p \in d.proposal : p.hash = target /\ Spends(t, p)
           row == StateRow(target, target, p0.b.slot, status)
<1>1. /\ \A r : r \in u.tx <=> r \in d.tx \/ r = TxRowAt(p0)
      /\ u.poll = d.poll /\ u.proposal = d.proposal /\ u.state = d.state
      /\ u \in Database
  BY UpsertRow
<1>2. found <=> \E q \in P : Index!Closes(P, p0, q)
  <2>1. \A r : r \in d.proposal /\ r.hash = target <=>
          \E q \in P : CreatedBefore(P, q, p0, target) /\ r = ProposalRow(Index!TxAt(q), q.b.slot)
    <3>1. 0 \in T \/ Index!TxAt(p0).hash # target
      OBVIOUS
    <3> HIDE DEF target
    <3> QED  BY <3>1, ProposalFound
  <2>2. \A q : Spends(t, ProposalRow(Index!TxAt(q), q.b.slot)) <=>
               [tx |-> Index!TxAt(q).hash, index |-> Index!TxAt(q).deposit.index] \in t.inputs
    BY DEF Spends, ProposalRow
  <2>3. \A q : Index!Closes(P, p0, q) <=>
          /\ CreatedBefore(P, q, p0, target)
          /\ Spends(t, ProposalRow(Index!TxAt(q), q.b.slot))
    BY <2>2 DEF Index!Closes, CreatedBefore
  <2> HIDE DEF t, target
  <2> QED  BY <2>1, <2>3
<1>3. \A q \in P : Index!Closes(P, p0, q) => ClosingRow(p0, q) = row
  BY DEF ClosingRow, Index!Closes
<1>4. CASE ~found
  <2>1. e = d
    BY <1>4 DEF CloseProposal, ClosesProposal
  <2> QED  BY <1>2, <1>4, <2>1
<1>5. CASE found
  <2>1. e = [u EXCEPT !.state = u.state \cup {row}]
    BY <1>5 DEF CloseProposal, ClosesProposal
  <2> HIDE DEF u, row, e
  <2>2. /\ e.tx = u.tx /\ e.poll = u.poll /\ e.proposal = u.proposal
        /\ e.state = u.state \cup {row}
    BY <1>1, <2>1 DEF Database
  <2>3. \A r : r \in e.tx <=>
          r \in d.tx \/ ((\E q \in P : Index!Closes(P, p0, q)) /\ r = TxRowAt(p0))
    BY <1>1, <1>2, <1>5, <2>2
  <2>4. \A r : r \in e.state <=>
          r \in d.state \/ \E q \in P : Index!Closes(P, p0, q) /\ r = ClosingRow(p0, q)
    BY <1>1, <1>2, <1>3, <1>5, <2>2
  <2> QED  BY <1>1, <2>2, <2>3, <2>4 DEF e
<1> QED  BY <1>4, <1>5

\* The handler of the governance metadata settles.
LEMMA GovernanceSettles ==
  ASSUME NEW d, NEW P, NEW p0, NEW T, LastOf(P, p0), Holds(TablesIn(d), P, p0, T), 0 \in T,
         \A p \in P : Index!TxAt(p) \in Txs, Ready(d, p0.b.slot)
  PROVE  Holds(TablesIn(ProcessGovernance(d, Index!TxAt(p0), p0.b.slot)), P, p0, T \ {0})
<1> DEFINE t == Index!TxAt(p0)
           e == ProcessGovernance(d, t, p0.b.slot)
<1>1. p0 \in P /\ t \in Txs
  BY DEF LastOf
<1>2. \A p \in P : 0 \notin DOMAIN Index!TxAt(p).votes
  BY TxsAssumption
<1>3. e.vote = d.vote
  BY <1>1, GovernanceKeepsVotes
<1>4. /\ Index!AddsProposal(t) \/ Index!OpensPoll(t) \/ Index!CreatesProposal(P, p0)
           => t.manage.op = "addProposal"
      /\ (\E q \in P : Index!Closes(P, p0, q)) =>
           t.manage.op \in {"concludeProposal", "cancelProposal"}
  BY DEF Index!AddsProposal, Index!OpensPoll, Index!CreatesProposal, Index!Closes
<1>5. /\ \A r : r \in e.tx <=>
           \/ r \in d.tx
           \/ (Index!AddsProposal(t) \/ \E q \in P : Index!Closes(P, p0, q)) /\ r = TxRowAt(p0)
      /\ \A r : r \in e.poll <=>
           r \in d.poll \/ (Index!OpensPoll(t) /\ r = PollRow(t, p0.b.slot))
      /\ \A r : r \in e.proposal <=>
           r \in d.proposal \/ (Index!CreatesProposal(P, p0) /\ r = ProposalRow(t, p0.b.slot))
      /\ \A r : r \in e.state <=>
           \/ r \in d.state
           \/ Index!CreatesProposal(P, p0) /\ r = AvailableRow(p0)
           \/ \E q \in P : Index!Closes(P, p0, q) /\ r = ClosingRow(p0, q)
  <2>1. CASE t.manage.op = "addProposal"
    <3>1. e = AddProposal(d, t, p0.b.slot)
      BY <2>1 DEF ProcessGovernance
    <3>2. ~\E q \in P : Index!Closes(P, p0, q)
      BY <1>4, <2>1
    <3>3. LET f == AddProposal(d, t, p0.b.slot)
          IN  /\ \A r : r \in f.tx <=> r \in d.tx \/ (Index!AddsProposal(t) /\ r = TxRowAt(p0))
              /\ \A r : r \in f.poll <=>
                   r \in d.poll \/ (Index!OpensPoll(t) /\ r = PollRow(t, p0.b.slot))
              /\ \A r : r \in f.proposal <=>
                   r \in d.proposal \/ (Index!CreatesProposal(P, p0) /\ r = ProposalRow(t, p0.b.slot))
              /\ \A r : r \in f.state <=>
                   r \in d.state \/ (Index!CreatesProposal(P, p0) /\ r = AvailableRow(p0))
      BY <1>1, <2>1, AddProposalWrites
    <3> HIDE DEF e, t
    <3> QED  BY <3>1, <3>2, <3>3
  <2>2. CASE t.manage.op \in {"concludeProposal", "cancelProposal"}
    <3> DEFINE status == Index!ClosingStatus(t)
               f == CloseProposal(d, t, p0.b.slot, status)
    <3>1. e = f
      BY <2>2 DEF ProcessGovernance, ConcludeProposal, CancelProposal, Index!ClosingStatus
    <3>2. ~Index!AddsProposal(t) /\ ~Index!OpensPoll(t) /\ ~Index!CreatesProposal(P, p0)
      BY <1>4, <2>2
    <3>3. /\ \A r : r \in f.tx <=>
               r \in d.tx \/ ((\E q \in P : Index!Closes(P, p0, q)) /\ r = TxRowAt(p0))
          /\ f.poll = d.poll /\ f.proposal = d.proposal
          /\ \A r : r \in f.state <=>
               r \in d.state \/ \E q \in P : Index!Closes(P, p0, q) /\ r = ClosingRow(p0, q)
      BY <1>1, <2>2, CloseProposalWrites
    <3> HIDE DEF e, f, t
    <3> QED  BY <3>1, <3>2, <3>3
  <2>3. CASE t.manage.op \notin {"addProposal", "concludeProposal", "cancelProposal"}
    <3>1. e = d
      BY <2>3 DEF ProcessGovernance
    <3> HIDE DEF e
    <3> QED  BY <1>4, <2>3, <3>1
  <2> QED  BY <2>1, <2>2, <2>3
<1> HIDE DEF e
<1>6. TablesIn(e).vote = TablesIn(d).vote
  BY <1>3, TablesFacts
<1>7. Holds(TablesIn(e), P, p0, T \ {0})
  BY <1>1, <1>2, <1>5, <1>6, TablesFacts, SettleGovernance
<1> QED  BY <1>7 DEF e

\* A vote entry is accepted, and counts for a proposal, when the index says so.
LEMMA VoteSettles ==
  ASSUME NEW d, NEW P, NEW p0, NEW T, LastOf(P, p0), Holds(TablesIn(d), P, p0, T),
         Index!TxAt(p0) \in Txs, Ready(d, p0.b.slot),
         NEW i \in T \ {0}, i \in DOMAIN Index!TxAt(p0).votes,
         NEW e, e = Index!TxAt(p0).votes[i]
  PROVE  LET t == Index!TxAt(p0)
             u == IF VoteAccepted(d, t, e, p0.b.slot)
                    THEN InsertPollVote(d, t, e, p0.b.slot) ELSE d
         IN  Holds(TablesIn(u), P, p0, T \ {i})
<1> DEFINE t == Index!TxAt(p0)
           slot == p0.b.slot
           rows == RowsOfVote(d, t, e, slot)
           accepted == VoteAccepted(d, t, e, slot)
           u == IF accepted THEN InsertPollVote(d, t, e, slot) ELSE d
<1>1. p0 \in P /\ i \in Nat /\ e.poll # t.hash /\ t.hash \notin DOMAIN e.choices
  BY TxsAssumption, HashAssumption DEF LastOf
<1>2. accepted <=> Index!Votes(P, p0, e)
  <2>1. \A r : r \in d.poll /\ r.hash = e.poll <=>
          \E q \in P : Index!PollOpenedBefore(q, p0, e.poll) /\ r = PollRow(Index!TxAt(q), q.b.slot)
    BY <1>1, PollFound
  <2>2. \A q : InWindow(PollRow(Index!TxAt(q), q.b.slot), slot) <=>
               Index!InWindow(Index!TxAt(q).manage, slot)
    BY SameOperators DEF InWindow, PollRow
  <2>3. accepted <=> /\ e.owner \in t.signers
                     /\ \E p \in d.poll : p.hash = e.poll /\ InWindow(p, slot)
    BY DEF VoteAccepted
  <2>4. Index!Votes(P, p0, e) <=>
          /\ e.owner \in t.signers
          /\ \E q \in P : /\ Index!PollOpenedBefore(q, p0, e.poll)
                          /\ Index!InWindow(Index!TxAt(q).manage, slot)
    BY DEF Index!Votes
  <2> HIDE DEF accepted, t, slot
  <2> QED  BY <2>1, <2>2, <2>3, <2>4
<1>3. CASE ~accepted
  <2>1. ~Index!Votes(P, p0, e) /\ \A q \in P : ~Index!VotesFor(P, p0, e, q)
    BY <1>2, <1>3 DEF Index!VotesFor
  <2>2. u = d
    BY <1>3
  <2> HIDE DEF u
  <2>3. Holds(TablesIn(u), P, p0, T \ {i})
    BY <1>1, <2>1, <2>2, SettleVotes
  <2> QED  BY <2>3 DEF u
<1>4. CASE accepted
  <2>1. \A r : (\E v \in rows : r = VoteFacts(v)) <=>
               \E q \in P : Index!VotesFor(P, p0, e, q) /\ r = VoteRow(p0, i, q)
    <3> DEFINE Fits(p) == /\ p.poll = e.poll /\ p.hash \in DOMAIN e.choices
                          /\ ChoiceExists(p, e.choices[p.hash])
               Row(h) == [owner |-> e.owner, proposal |-> h, poll |-> e.poll,
                          choice |-> e.choices[h], power |-> e.power,
                          tx |-> t.hash, slot |-> slot]
    <3>1. \A r : (\E v \in rows : r = VoteFacts(v)) <=>
                 \E p \in d.proposal : Fits(p) /\ r = Row(p.hash)
      <4> DEFINE New(p) ==
            [id |-> NextId(d.vote), owner |-> e.owner, proposal |-> p.hash, poll |-> e.poll,
             choice |-> e.choices[p.hash], power |-> e.power, tx |-> t.hash, slot |-> slot,
             verification |-> "UNVERIFIED"]
      <4>1. rows = {New(p) : p \in {q \in d.proposal : Fits(q)}}
        BY DEF RowsOfVote
      <4>2. \A p : VoteFacts(New(p)) = Row(p.hash)
        BY DEF VoteFacts
      <4> HIDE DEF New, Fits, Row, rows
      <4> QED  BY <4>1, <4>2
    <3>2. \A q : /\ ProposalRow(Index!TxAt(q), q.b.slot).hash = Index!TxAt(q).hash
                 /\ Fits(ProposalRow(Index!TxAt(q), q.b.slot)) <=>
                      /\ Index!PollOf(Index!TxAt(q)) = e.poll
                      /\ Index!TxAt(q).hash \in DOMAIN e.choices
                      /\ Index!ChoiceExists(Index!TxAt(q).manage, e.choices[Index!TxAt(q).hash])
      BY SameOperators DEF ProposalRow, Index!PollOf, ChoiceExists, Index!NoTx, NoTx
    <3>3. \A q : Index!VotesFor(P, p0, e, q) <=>
            /\ CreatedBefore(P, q, p0, Index!TxAt(q).hash)
            /\ Fits(ProposalRow(Index!TxAt(q), q.b.slot))
      BY <1>2, <1>4, <3>2 DEF Index!VotesFor, CreatedBefore
    <3>4. \A q : VoteRow(p0, i, q) = Row(Index!TxAt(q).hash)
      BY DEF VoteRow
    <3>5. \A p : Fits(p) => p.hash # t.hash
      BY <1>1
    <3>6. ASSUME NEW h, h # t.hash
          PROVE  \A r : r \in d.proposal /\ r.hash = h <=>
                   \E q \in P : /\ CreatedBefore(P, q, p0, h)
                                /\ r = ProposalRow(Index!TxAt(q), q.b.slot)
      BY <3>6, ProposalFound
    <3> HIDE DEF Fits, Row, rows, t
    <3>7. ASSUME NEW r, NEW p \in d.proposal, Fits(p), r = Row(p.hash)
          PROVE  \E q \in P : Index!VotesFor(P, p0, e, q) /\ r = VoteRow(p0, i, q)
      <4>1. PICK q \in P : /\ CreatedBefore(P, q, p0, p.hash)
                           /\ p = ProposalRow(Index!TxAt(q), q.b.slot)
        BY <3>5, <3>6, <3>7
      <4> QED  BY <3>2, <3>3, <3>4, <3>7, <4>1
    <3>8. ASSUME NEW q \in P, Index!VotesFor(P, p0, e, q)
          PROVE  \E p \in d.proposal : Fits(p) /\ VoteRow(p0, i, q) = Row(p.hash)
      <4>1. Fits(ProposalRow(Index!TxAt(q), q.b.slot)) /\ Index!TxAt(q).hash # t.hash
        BY <3>2, <3>3, <3>5, <3>8
      <4>2. ProposalRow(Index!TxAt(q), q.b.slot) \in d.proposal
        BY <3>3, <3>6, <3>8, <4>1
      <4> QED  BY <3>2, <3>4, <4>1, <4>2
    <3> QED  BY <3>1, <3>7, <3>8
  <2> DEFINE w == UpsertTransaction(d, t, slot)
  <2>2. /\ \A r : r \in w.tx <=> r \in d.tx \/ r = TxRowAt(p0)
        /\ w.poll = d.poll /\ w.proposal = d.proposal /\ w.state = d.state
        /\ w.vote = d.vote /\ w \in Database
    BY UpsertRow
  <2>3. u = [w EXCEPT !.vote = w.vote \cup rows]
    BY <1>4 DEF InsertPollVote
  <2> HIDE DEF u, w, rows
  <2>4. /\ u.tx = w.tx /\ u.poll = d.poll /\ u.proposal = d.proposal /\ u.state = d.state
        /\ u.vote = d.vote \cup rows
    BY <2>2, <2>3 DEF Database
  <2>5. \A r : r \in TablesIn(u).vote <=> r \in TablesIn(d).vote \/ \E v \in rows : r = VoteFacts(v)
    BY <2>4, TablesFacts
  <2>6. Index!Votes(P, p0, e)
    BY <1>2, <1>4
  <2>7. \A r : r \in TablesIn(u).tx <=>
          r \in TablesIn(d).tx \/ (Index!Votes(P, p0, e) /\ r = TxRowAt(p0))
    BY <2>2, <2>4, <2>6, TablesFacts
  <2>8. \A r : r \in TablesIn(u).vote <=>
          \/ r \in TablesIn(d).vote
          \/ \E q \in P : Index!VotesFor(P, p0, e, q) /\ r = VoteRow(p0, i, q)
    BY <2>1, <2>5
  <2>9. /\ TablesIn(u).poll = TablesIn(d).poll /\ TablesIn(u).proposal = TablesIn(d).proposal
        /\ TablesIn(u).state = TablesIn(d).state
    BY <2>4, TablesFacts
  <2>10. Holds(TablesIn(u), P, p0, T \ {i})
    BY <1>1, <2>7, <2>8, <2>9, SettleVotes
  <2> QED  BY <2>10 DEF u
<1> QED  BY <1>3, <1>4
-----------------------------------------------------------------------------
(* The places of the block being inserted. *)

\* The open block while its transactions are handled.
LEMMA InsertFacts ==
  ASSUME IInv, LinkInv, LedgerInv, IndexInv, pc = "insert"
  PROVE  /\ current \in Block /\ current.slot \in Nat /\ TxsOf(current) = current.body
         /\ Indexed(work) = Indexed(db) \cup {current}
         /\ \A b \in Indexed(work) : b \in Block
         /\ \A b \in Indexed(db) : b.slot \in Nat /\ b.slot < current.slot
         /\ TxUnique(Indexed(work))
         /\ at \in 0 .. Len(current.body) /\ Len(current.body) \in Nat
<1>1. current \in Block /\ current.slot \in Nat /\ TxsOf(current) = current.body
  BY DEF IInv, TypeOK, Block, TxsOf
<1>2. \A b \in Indexed(work) \cup Indexed(db) : b \in Block /\ b.slot \in Nat
  BY IndexedFacts DEF IInv
<1>3. Len(current.body) \in Nat
  BY CurrentTx DEF IInv
<1> QED  BY <1>1, <1>2, <1>3 DEF LinkInv, TransactionOK, LedgerInv, IndexInv, IInv, TypeOK

\* The transaction being handled is the last one taken up.
LEMMA HereIsLast ==
  ASSUME IInv, LinkInv, LedgerInv, IndexInv, pc = "insert", todo # {}
  PROVE  /\ LastOf(Taken, Here) /\ Index!TxAt(Here) = Tx /\ Here.b.slot = current.slot
         /\ \A p \in Taken : Index!TxAt(p) \in Txs
<1>1. /\ current \in Block /\ current.slot \in Nat /\ TxsOf(current) = current.body
      /\ Indexed(work) = Indexed(db) \cup {current}
      /\ \A b \in Indexed(work) : b \in Block
      /\ \A b \in Indexed(db) : b.slot \in Nat /\ b.slot < current.slot
      /\ TxUnique(Indexed(work))
  BY InsertFacts
<1>2. at \in DOMAIN current.body /\ current.body[at].spends = "inputs" /\ at \in Nat
  <2>1. at \in 1 .. Len(current.body)
    BY CurrentTx DEF IInv, TypeOK, CursorOK
  <2>2. current.body \in Seq(Txs)
    BY CurrentTx DEF IInv
  <2> QED  BY <2>1, <2>2 DEF IndexInv, Tx
<1>3. Here \in Index!Places(Indexed(work))
  BY <1>1, <1>2, PlaceExists DEF Here
<1>4. Here.b = current /\ Here.i = at
  BY DEF Here
<1>5. Here \in Taken /\ Index!TxAt(Here) = Tx
  <2>1. Index!TxAt(Here) = TxsOf(Here.b)[Here.i]
    BY <1>1, <1>3, PlaceFacts
  <2> QED  BY <1>1, <1>2, <1>3, <1>4, <2>1 DEF Taken, Tx
<1>6. ASSUME NEW q \in Taken, q # Here
      PROVE  /\ Index!Before(q, Here) /\ ~Index!Before(Here, q)
             /\ Index!TxAt(q).hash # Index!TxAt(Here).hash
  <2>1. q \in Index!Places(Indexed(work)) /\ (q.b = current => q.i <= at)
    BY DEF Taken
  <2>2. /\ q.b \in Indexed(work) /\ q.b.slot \in Nat /\ q.i \in Nat
        /\ q = [b |-> q.b, i |-> q.i]
    BY <1>1, <2>1, PlaceFacts
  <2>3. Index!TxAt(q).hash # Index!TxAt(Here).hash
    BY <1>1, <1>3, <1>6, <2>1, PlaceUnique
  <2>4. CASE q.b = current
    <3>1. q.i # at
      BY <1>6, <2>2, <2>4 DEF Here
    <3>2. q.i < at /\ ~(at < q.i) /\ ~(current.slot < current.slot)
      BY <1>1, <1>2, <2>1, <2>2, <2>4, <3>1
    <3> QED  BY <1>4, <2>3, <2>4, <3>2 DEF Index!Before
  <2>5. CASE q.b # current
    <3>1. q.b.slot < current.slot /\ ~(current.slot < q.b.slot)
      BY <1>1, <2>2, <2>5
    <3> QED  BY <1>4, <2>3, <2>5, <3>1 DEF Index!Before
  <2> QED  BY <2>4, <2>5
<1>7. ~Index!Before(Here, Here)
  BY <1>1, <1>2, <1>4 DEF Index!Before
<1>8. \A p \in Taken : Index!TxAt(p) \in Txs
  BY <1>1, PlaceFacts DEF Taken
<1> QED  BY <1>4, <1>5, <1>6, <1>7, <1>8 DEF LastOf

\* The places of more blocks.
LEMMA PlacesUnion ==
  ASSUME NEW A, NEW B
  PROVE  Index!Places(A \cup B) = Index!Places(A) \cup Index!Places(B)
BY DEF Index!Places
-----------------------------------------------------------------------------
(* Every step keeps the tables in agreement with the index. *)

\* Empty tables hold what no block says; then one lemma for each step.
LEMMA IndexInit == ASSUME Init PROVE IndexInv
<1>1. Indexed(db) = {} /\ pc = "down" /\ todo = {}
  BY DEF Init, Indexed, EmptyDb
<1>2. Index!Places(Indexed(db)) = {}
  BY <1>1 DEF Index!Places
<1>3. /\ TablesIn(db).tx = {} /\ TablesIn(db).poll = {} /\ TablesIn(db).proposal = {}
      /\ TablesIn(db).state = {} /\ TablesIn(db).vote = {}
  BY TablesFacts DEF Init, EmptyDb
<1>4. Holds(TablesIn(db), {}, NoPlace, {})
  BY <1>3 DEF Holds
<1> QED  BY <1>1, <1>2, <1>4 DEF IndexInv

\* Outside of a database transaction only the committed tables matter.
LEMMA IndexQuiet ==
  ASSUME IndexInv, db' = db, pc' # "insert", todo' = {}
  PROVE  IndexInv'
<1>1. Holds(TablesIn(db), Index!Places(Indexed(db)), NoPlace, {})'
  BY DEF IndexInv, NoPlace, NoBlock
<1> QED  BY <1>1 DEF IndexInv

\* Steps of the node and of the client alone change no table.
LEMMA IndexStable ==
  ASSUME IndexInv, UNCHANGED <<pc, current, at, todo, work, aborted, db>>
  PROVE  IndexInv'
<1>1. Holds(TablesIn(db), Index!Places(Indexed(db)), NoPlace, {})'
  BY DEF IndexInv, NoPlace, NoBlock
<1>2. Taken' = Taken /\ Here' = Here /\ (todo' # {} => Tx' = Tx)
  BY DEF Taken, Here, Tx
<1>3. pc = "insert" /\ ~aborted => Holds(TablesIn(work), Taken, Here, todo)'
  BY <1>2 DEF IndexInv
<1> QED  BY <1>1, <1>2, <1>3 DEF IndexInv

\* The block that is opened adds no row before its transactions.
LEMMA IndexBeginBlock == ASSUME IInv, LinkInv, IndexInv, BeginBlock PROVE IndexInv'
<1> DEFINE P == Index!Places(Indexed(db))
<1>1. /\ pc' = "insert" /\ current' = NextBlock /\ at' = 0 /\ db' = db /\ aborted' = aborted
      /\ todo = {} /\ todo' = {} /\ pc = "idle" /\ work' = InsertBlock(db, NextBlock)
  <2>1. pc = "idle" /\ pc' = "insert" /\ at' = at /\ todo' = todo
    BY DEF BeginBlock, Awaits
  <2>2. at = 0 /\ todo = {}
    BY <2>1 DEF IInv, CursorOK
  <2> QED  BY <2>1, <2>2 DEF BeginBlock
<1>2. \A b \in Indexed(db) : b.slot < NextBlock.slot
  <2>1. PointAt(sent).slot < NextBlock.slot /\ NextBlock \in Block /\ NextBlock.slot \in Nat
    BY NextBlockFacts DEF BeginBlock, Block
  <2>2. PointAt(sent).slot \in Nat
    BY ChainFacts, PointType DEF IInv, Block
  <2>3. \A r \in db.block : r.slot <= PointAt(sent).slot
    BY DEF BeginBlock, IInv, CursorOK, BlocksUpTo
  <2>4. \A b \in Indexed(db) : b.slot \in Nat /\ \E r \in db.block : r.slot = b.slot
    BY IndexedFacts DEF IInv
  <2> QED  BY <2>1, <2>2, <2>3, <2>4
<1>3. Indexed(work') = Indexed(db) \cup {NextBlock}
  <2>1. LinkInv'
    BY LinkBeginBlock
  <2>2. TransactionOK' /\ Indexed(db)' = Indexed(db)
    BY <1>1, <2>1 DEF LinkInv
  <2> QED  BY <1>1, <2>2 DEF TransactionOK, Indexed
<1>4. /\ \A p \in P : p.b \in Indexed(db) /\ p.b # NextBlock
      /\ \A p \in Index!Places({NextBlock}) : p.b = NextBlock /\ ~(p.i <= 0)
  <2>1. NextBlock \in Block /\ \A b \in Indexed(db) : b \in Block
    BY NextBlockFacts, IndexedFacts DEF BeginBlock, IInv
  <2>2. \A b \in Indexed(db) : b.slot \in Nat /\ b # NextBlock
    BY <1>2, <2>1 DEF Block
  <2>3. \A p \in P : p.b \in Indexed(db)
    BY <2>1, PlaceFacts
  <2>4. ASSUME NEW p \in Index!Places({NextBlock}) PROVE p.b = NextBlock /\ ~(p.i <= 0)
    <3>1. p.b \in {NextBlock} /\ p.i \in Nat /\ p.i > 0
      BY <2>1, PlaceFacts
    <3> QED  BY <3>1
  <2> QED  BY <2>2, <2>3, <2>4
<1>5. Index!Places(Indexed(work')) = P \cup Index!Places({NextBlock})
  BY <1>3, PlacesUnion
<1>6. Taken' = P
  <2>1. Taken' = {p \in Index!Places(Indexed(work')) : p.b = NextBlock => p.i <= 0}
    BY <1>1 DEF Taken
  <2> HIDE DEF P
  <2> QED  BY <1>4, <1>5, <2>1
<1>7. TablesIn(work') = TablesIn(db)
  <2>1. db \in Database
    BY DEF IInv, DbOK
  <2> QED  BY <1>1, <2>1 DEF InsertBlock, TablesIn, Database
<1>8. Holds(TablesIn(db), P, Here', {})
  <2>1. Initial(P, P) /\ Holds(TablesIn(db), P, NoPlace, {})
    BY DEF Initial, IndexInv
  <2>2. \A p \in P : \A k : Done(p, k, NoPlace, {}) <=> Done(p, k, Here', {})
    BY DEF Done
  <2> HIDE DEF P
  <2> QED  BY <2>1, <2>2, HoldsOfMore
<1>9. Holds(TablesIn(work), Taken, Here, todo)'
  BY <1>1, <1>6, <1>7, <1>8
<1>10. Holds(TablesIn(db), Index!Places(Indexed(db)), NoPlace, {})'
  BY <1>1 DEF IndexInv, NoPlace, NoBlock
<1> QED  BY <1>1, <1>2, <1>9, <1>10 DEF IndexInv, Indexed

\* A transaction that is taken up has all its handlers to run.
LEMMA IndexTakeTx == ASSUME IInv, LinkInv, LedgerInv, IndexInv, TakeTx PROVE IndexInv'
<1> DEFINE t == current.body[at + 1]
<1>1. /\ pc = "insert" /\ todo = {} /\ at < Len(current.body) /\ at' = at + 1
      /\ todo' = Handlers(t)
      /\ UNCHANGED <<pc, current, work, aborted, db>>
  BY DEF TakeTx
<1>2. /\ current \in Block /\ current.slot \in Nat /\ TxsOf(current) = current.body
      /\ Indexed(work) = Indexed(db) \cup {current}
      /\ \A b \in Indexed(work) : b \in Block
      /\ \A b \in Indexed(db) : b.slot \in Nat /\ b.slot < current.slot
      /\ at \in Nat
  BY <1>1, InsertFacts
<1>3. todo' # {} => t.spends = "inputs" /\ Tx' = t
  BY <1>1 DEF Handlers, Tx
<1>4. Holds(TablesIn(db), Index!Places(Indexed(db)), NoPlace, {})'
  BY <1>1 DEF IndexInv, NoPlace, NoBlock
<1>5. ASSUME ~aborted PROVE Holds(TablesIn(work), Taken, Here, todo)'
  <2>1. /\ Here' = [b |-> current, i |-> at + 1]
        /\ Here'.b = current /\ Here'.i = at + 1
    BY <1>1 DEF Here
  <2>2. /\ \A p : p \in Taken <=> p \in Index!Places(Indexed(work)) /\ (p.b = current => p.i <= at)
        /\ \A p : p \in Taken' <=>
             p \in Index!Places(Indexed(work)) /\ (p.b = current => p.i <= at + 1)
    BY <1>1 DEF Taken
  <2>3. \A p \in Index!Places(Indexed(work)) :
          /\ p.b \in Indexed(work) /\ p.b.slot \in Nat /\ p.i \in Nat /\ p = [b |-> p.b, i |-> p.i]
          /\ Index!TxAt(p) = TxsOf(p.b)[p.i] /\ Index!TxAt(p) \in Txs
          /\ Index!TxAt(p).spends = "inputs"
    BY <1>2, PlaceFacts
  <2>4. at \in Nat /\ \A p \in Index!Places(Indexed(work)) : p.i \in Nat
    BY <1>2, <2>3
  <2>5. \A p \in Taken' \ Taken : p = Here' /\ Index!TxAt(p) = t
    <3> SUFFICES ASSUME NEW p \in Taken' \ Taken PROVE p = Here' /\ Index!TxAt(p) = t
      OBVIOUS
    <3>1. p \in Index!Places(Indexed(work)) /\ p.b = current /\ p.i = at + 1
      BY <2>2, <2>4
    <3> QED  BY <1>2, <2>1, <2>3, <3>1
  <2>6. Initial(Taken, Taken')
    <3>1. Taken \subseteq Taken'
      BY <2>2, <2>4
    <3>2. ASSUME NEW p \in Taken PROVE ~Index!Before(Here', p)
      <4>1. p \in Index!Places(Indexed(work)) /\ (p.b = current => p.i <= at)
        BY DEF Taken
      <4>2. CASE p.b = current
        <5>1. ~(at + 1 < p.i) /\ ~(current.slot < current.slot)
          BY <1>2, <2>3, <4>1, <4>2
        <5> QED  BY <2>1, <4>2, <5>1 DEF Index!Before
      <4>3. CASE p.b # current
        <5>1. p.b.slot < current.slot /\ ~(current.slot < p.b.slot)
          BY <1>2, <2>3, <4>1, <4>3
        <5> QED  BY <2>1, <4>3, <5>1 DEF Index!Before
      <4> QED  BY <4>2, <4>3
    <3> QED  BY <2>5, <3>1, <3>2 DEF Initial
  <2>7. \A p \in Taken : \A k : Done(p, k, Here, todo) <=> Done(p, k, Here', todo')
    <3>1. \A p \in Taken : p # Here'
      BY <1>2, <2>1 DEF Taken
    <3> QED  BY <1>1, <3>1 DEF Done
  <2>8. ASSUME NEW p \in Taken' \ Taken
        PROVE  /\ Index!AddsProposal(Index!TxAt(p)) => ~Done(p, 0, Here', todo')
               /\ \A q \in Taken' : Index!Closes(Taken', p, q) => ~Done(p, 0, Here', todo')
               /\ \A k \in DOMAIN Index!TxAt(p).votes : ~Done(p, k, Here', todo')
    <3>1. p = Here' /\ Index!TxAt(p) = t /\ t \in Txs /\ t.spends = "inputs"
      BY <2>2, <2>3, <2>5
    <3>2. Len(t.votes) \in Nat /\ DOMAIN t.votes = 1 .. Len(t.votes)
      BY <3>1, TxsAssumption
    <3>3. todo' = {i \in 0 .. Len(t.votes) : i = 0 => t.manage.op # "none"}
      BY <1>1, <3>1 DEF Handlers
    <3>4. t.manage.op # "none" => 0 \in todo'
      BY <3>2, <3>3
    <3>5. DOMAIN t.votes \subseteq todo'
      BY <3>2, <3>3
    <3>6. /\ Index!AddsProposal(t) => t.manage.op # "none"
          /\ \A q \in Taken' : Index!Closes(Taken', p, q) => t.manage.op # "none"
      BY <3>1 DEF Index!AddsProposal, Index!Closes
    <3> QED  BY <3>1, <3>4, <3>5, <3>6 DEF Done
  <2>9. Holds(TablesIn(work), Taken, Here, todo)
    BY <1>1, <1>5 DEF IndexInv
  <2>10. Holds(TablesIn(work), Taken', Here', todo')
    <3> DEFINE T1 == Taken'
               H1 == Here'
               D1 == todo'
    <3>1. /\ Initial(Taken, T1)
          /\ \A p \in Taken : \A k : Done(p, k, Here, todo) <=> Done(p, k, H1, D1)
          /\ \A p \in T1 \ Taken :
               /\ Index!AddsProposal(Index!TxAt(p)) => ~Done(p, 0, H1, D1)
               /\ \A q \in T1 : Index!Closes(T1, p, q) => ~Done(p, 0, H1, D1)
               /\ \A k \in DOMAIN Index!TxAt(p).votes : ~Done(p, k, H1, D1)
      BY <2>6, <2>7, <2>8
    <3> HIDE DEF T1, H1, D1
    <3>2. Holds(TablesIn(work), T1, H1, D1)
      BY <2>9, <3>1, HoldsOfMore
    <3> QED  BY <3>2 DEF T1, H1, D1
  <2> QED  BY <1>1, <2>10
<1> QED  BY <1>1, <1>2, <1>3, <1>4, <1>5 DEF IndexInv

\* A handler leaves the blocks alone, so the places stay.
LEMMA HandlerPlaces ==
  ASSUME IInv, LinkInv, pc = "insert",
         HandleGovernance \/ \E i \in todo : HandleVotes(i)
  PROVE  /\ Taken' = Taken /\ Here' = Here /\ Tx' = Tx
         /\ UNCHANGED <<pc, current, db>> /\ todo # {}
<1>1. UNCHANGED <<pc, current, at, db>> /\ todo # {}
  BY DEF HandleGovernance, HandleVotes
<1>2. Indexed(work') = Indexed(work)
  <2>1. LinkInv'
    BY LinkHandle
  <2>2. TransactionOK /\ TransactionOK'
    BY <2>1 DEF LinkInv
  <2> QED  BY <1>1, <2>2 DEF TransactionOK, Indexed
<1>3. Taken' = {p \in Index!Places(Indexed(work')) : p.b = current => p.i <= at}
  BY <1>1 DEF Taken
<1>4. Taken' = Taken
  BY <1>2, <1>3 DEF Taken
<1> QED  BY <1>1, <1>4 DEF Here, Tx

\* A handler leaves the committed tables alone.
LEMMA IndexHandle ==
  ASSUME IInv, LinkInv, IndexInv, pc = "insert",
         HandleGovernance \/ \E i \in todo : HandleVotes(i),
         ~aborted' => Holds(TablesIn(work'), Taken, Here, todo')
  PROVE  IndexInv'
<1>1. /\ Taken' = Taken /\ Here' = Here /\ Tx' = Tx
      /\ UNCHANGED <<pc, current, db>> /\ todo # {}
  BY HandlerPlaces
<1>2. Holds(TablesIn(db), Index!Places(Indexed(db)), NoPlace, {})'
  BY <1>1 DEF IndexInv, NoPlace, NoBlock
<1>3. ~aborted' => Holds(TablesIn(work), Taken, Here, todo)'
  BY <1>1
<1> QED  BY <1>1, <1>2, <1>3 DEF IndexInv

\* The governance handler writes what its place does.
LEMMA IndexHandleGovernance ==
  ASSUME IInv, LinkInv, LedgerInv, IndexInv, HandleGovernance PROVE IndexInv'
<1>1. /\ pc = "insert" /\ 0 \in todo /\ todo' = todo \ {0}
      /\ aborted' = (aborted \/ StatementRefused(work, Tx))
  BY DEF HandleGovernance
<1>2. ASSUME ~aborted' PROVE Holds(TablesIn(work'), Taken, Here, todo')
  <2>1. /\ LastOf(Taken, Here) /\ Index!TxAt(Here) = Tx /\ Here.b.slot = current.slot
        /\ \A p \in Taken : Index!TxAt(p) \in Txs
    BY <1>1, HereIsLast
  <2>2. Holds(TablesIn(work), Taken, Here, todo)
    BY <1>1, <1>2 DEF IndexInv
  <2>3. Ready(work, current.slot)
    BY <1>1, HandlerFacts
  <2>4. work' = ProcessGovernance(work, Tx, current.slot)
    BY <1>1, <1>2 DEF HandleGovernance
  <2>5. Holds(TablesIn(ProcessGovernance(work, Tx, current.slot)), Taken, Here, todo \ {0})
    BY <1>1, <2>1, <2>2, <2>3, GovernanceSettles
  <2> QED  BY <1>1, <2>4, <2>5
<1> QED  BY <1>1, <1>2, IndexHandle

\* The handler of an entry writes its votes.
LEMMA IndexHandleVotes ==
  ASSUME IInv, LinkInv, LedgerInv, IndexInv, NEW i \in todo, HandleVotes(i) PROVE IndexInv'
<1> DEFINE e == Tx.votes[i]
           accepted == VoteAccepted(work, Tx, e, current.slot)
           inserted == InsertPollVote(work, Tx, e, current.slot)
<1>1. pc = "insert" /\ i \in todo \ {0} /\ todo' = todo \ {i} /\ todo # {}
  BY DEF HandleVotes
<1>2. ASSUME ~aborted' PROVE Holds(TablesIn(work'), Taken, Here, todo')
  <2>1. /\ LastOf(Taken, Here) /\ Index!TxAt(Here) = Tx /\ Here.b.slot = current.slot
        /\ \A p \in Taken : Index!TxAt(p) \in Txs
    BY <1>1, HereIsLast
  <2>2. ~aborted /\ work' = IF accepted THEN inserted ELSE work
    BY <1>2 DEF HandleVotes, IInv, TypeOK
  <2>3. Holds(TablesIn(work), Taken, Here, todo)
    BY <1>1, <2>2 DEF IndexInv
  <2>4. Ready(work, current.slot) /\ Tx \in Txs /\ todo \subseteq 0 .. Len(Tx.votes)
    BY <1>1, HandlerFacts
  <2>5. i \in DOMAIN Tx.votes
    BY <1>1, <2>4, TxsAssumption
  <2>6. Holds(TablesIn(IF accepted THEN inserted ELSE work), Taken, Here, todo \ {i})
    BY <1>1, <2>1, <2>3, <2>4, <2>5, VoteSettles
  <2> HIDE DEF accepted, inserted
  <2> QED  BY <1>1, <2>2, <2>6
<1> QED  BY <1>1, <1>2, IndexHandle

\* All handlers of all transactions are done when a block is committed.
LEMMA IndexCommit == ASSUME IInv, LinkInv, LedgerInv, IndexInv, Commit PROVE IndexInv'
<1>1. /\ pc = "insert" /\ todo = {} /\ todo' = {} /\ at = Len(current.body) /\ pc' # "insert"
      /\ db' = IF aborted THEN db ELSE work
  BY DEF Commit
<1>2. CASE aborted
  BY <1>1, <1>2, IndexQuiet
<1>3. CASE ~aborted
  <2>1. /\ TxsOf(current) = current.body /\ current \in Block
        /\ \A b \in Indexed(work) : b \in Block
    BY <1>1, InsertFacts
  <2>2. \A p \in Index!Places(Indexed(work)) : p.b = current => p.i <= at
    <3> SUFFICES ASSUME NEW p \in Index!Places(Indexed(work)), p.b = current PROVE p.i <= at
      OBVIOUS
    <3>1. p.i \in DOMAIN TxsOf(current) /\ DOMAIN TxsOf(current) = 1 .. Len(TxsOf(current))
      BY <2>1, PlaceFacts, TxsOfType
    <3> QED  BY <1>1, <2>1, <3>1
  <2>3. Taken = Index!Places(Indexed(work))
    BY <2>2 DEF Taken
  <2>4. Holds(TablesIn(work), Taken, Here, {})
    BY <1>1, <1>3 DEF IndexInv
  <2>5. Initial(Taken, Taken) /\ \A p \in Taken : \A k : Done(p, k, Here, {}) <=> Done(p, k, NoPlace, {})
    BY DEF Initial, Done
  <2>6. Holds(TablesIn(work), Taken, NoPlace, {})
    BY <2>4, <2>5, HoldsOfMore
  <2>7. Holds(TablesIn(db'), Index!Places(Indexed(db')), NoPlace, {})
    BY <1>1, <1>3, <2>3, <2>6
  <2>8. Holds(TablesIn(db), Index!Places(Indexed(db)), NoPlace, {})'
    BY <2>7 DEF NoPlace, NoBlock
  <2> QED  BY <1>1, <2>8 DEF IndexInv
<1> QED  BY <1>2, <1>3

\* A rollback leaves the rows of the places that stay.
LEMMA IndexRollBackToPoint == ASSUME IInv, IndexInv, RollBackToPoint PROVE IndexInv'
<1> DEFINE d == DeleteBlocksAfter(db, point.slot)
           Q == Index!Places(Indexed(db))
<1>1. /\ point.slot \in Nat /\ DbOK(db) /\ pc' # "insert" /\ db' = d /\ todo' = {}
  <2>1. pc = "rollback" /\ pc' = "idle" /\ todo' = todo /\ db' = d
    BY DEF RollBackToPoint
  <2>2. point.slot \in Nat /\ todo = {}
    BY <2>1 DEF IInv, CursorOK, Block
  <2> QED  BY <2>1, <2>2 DEF IInv
<1>2. d = [table \in DOMAIN db |-> {r \in db[table] : r.slot <= point.slot}]
  <2>1. point.slot \in Int
    BY <1>1
  <2> QED  BY <1>1, <2>1, DeletionIsExact
<1>3. Indexed(d) = {b \in Indexed(db) : b.slot <= point.slot}
  BY <1>1, DeletionIndexed
<1>4. \A b \in Indexed(db) : b \in Block
  BY <1>1, IndexedFacts
<1>5. Index!Places(Indexed(d)) = {p \in Q : p.b.slot <= point.slot}
  BY <1>3 DEF Index!Places
<1>6. \A table \in {"tx", "poll", "proposal", "state", "vote"} :
        TablesIn(d)[table] = {r \in TablesIn(db)[table] : r.slot <= point.slot}
  <2>1. DOMAIN db = {"block", "tx", "poll", "proposal", "state", "vote"}
    BY <1>1 DEF DbOK, Database
  <2>2. /\ d.tx = {r \in db.tx : r.slot <= point.slot}
        /\ d.poll = {r \in db.poll : r.slot <= point.slot}
        /\ d.proposal = {r \in db.proposal : r.slot <= point.slot}
        /\ d.state = {r \in db.state : r.slot <= point.slot}
        /\ d.vote = {r \in db.vote : r.slot <= point.slot}
    BY <1>2, <2>1
  <2> HIDE DEF d
  <2>3. {VoteFacts(v) : v \in d.vote} = {r \in {VoteFacts(v) : v \in db.vote} : r.slot <= point.slot}
    <3>1. \A v : VoteFacts(v).slot = v.slot
      BY DEF VoteFacts
    <3> QED  BY <2>2, <3>1
  <2> QED  BY <2>2, <2>3, TablesFacts
<1> HIDE DEF d, Q
<1>7. \A p \in Q : p.b.slot \in Nat
  BY <1>4, PlaceFacts DEF Q
<1>8. Holds(TablesIn(db), Q, NoPlace, {})
  BY DEF IndexInv, Q
<1>9. Holds(TablesIn(d), {p \in Q : p.b.slot <= point.slot}, NoPlace, {})
  BY <1>1, <1>6, <1>7, <1>8, HoldsUpTo
<1>10. Holds(TablesIn(db'), Index!Places(Indexed(db')), NoPlace, {})
  BY <1>1, <1>5, <1>9
<1>11. Holds(TablesIn(db), Index!Places(Indexed(db)), NoPlace, {})'
  BY <1>10 DEF NoPlace, NoBlock
<1> QED  BY <1>1, <1>11 DEF IndexInv

\* Every step keeps the tables equal to what the blocks say.
LEMMA IndexStep ==
  ASSUME IInv, LinkInv, LedgerInv, IndexInv, [Next]_vars
  PROVE  IndexInv'
<1>1. CASE Node
  BY <1>1, IndexStable DEF Node, Mint, Reorganize, txVars
<1>2. CASE SkipBlock \/ UNCHANGED vars
  BY <1>2, IndexStable DEF SkipBlock, txVars, vars
<1>3. CASE BeginBlock
  BY <1>3, IndexBeginBlock
<1>4. CASE TakeTx
  BY <1>4, IndexTakeTx
<1>5. CASE HandleGovernance
  BY <1>5, IndexHandleGovernance
<1>6. CASE \E i \in todo : HandleVotes(i)
  BY <1>6, IndexHandleVotes
<1>7. CASE Commit
  BY <1>7, IndexCommit
<1>8. CASE RollBackToPoint
  BY <1>8, IndexRollBackToPoint
<1>9. CASE BeginRollback \/ ReadResumePoint \/ Resume \/ ResumeFails \/ ConnectionLost \/ Crash
  <2>1. pc # "insert" \/ Crash
    BY <1>9 DEF BeginRollback, Awaits, ReadResumePoint, Resume, ResumeFails, ConnectionLost
  <2>2. todo' = {} /\ pc' # "insert" /\ db' = db
    BY <1>9, <2>1 DEF IInv, CursorOK, BeginRollback, ReadResumePoint, Resume, ResumeFails,
       ConnectionLost, Crash, Disconnected, txVars
  <2> QED  BY <2>2, IndexQuiet
<1> QED  BY <1>1, <1>2, <1>3, <1>4, <1>5, <1>6, <1>7, <1>8, <1>9 DEF Next, Sync

\* At every moment the committed tables are what the stored blocks say, and the
\* open transaction's what the handlers settled so far add to it.
THEOREM IndexInvariance == Spec => []IndexInv
<1>1. Init => IndexInv
  BY IndexInit
<1>2. IInv /\ LinkInv /\ LedgerInv /\ IndexInv /\ [Next]_vars => IndexInv'
  BY IndexStep
<1> QED  BY <1>1, <1>2, Invariance, LinkInvariance, LedgerInvariance, PTL DEF Spec
-----------------------------------------------------------------------------
(* The refinement. *)

\* No handler is running outside an open block.
LEMMA AllDone == \A p, k : Done(p, k, NoPlace, {})
BY DEF Done

\* The description by rows is that of the index.
LEMMA HoldsAsTables ==
  ASSUME NEW d, NEW B, \A b \in B : b \in Block,
         Holds(TablesIn(d), Index!Places(B), NoPlace, {})
  PROVE  TablesIn(d) = Index!TablesOf(B)
<1> DEFINE P == Index!Places(B)
           t == TablesIn(d)
<1>1. \A p \in P : Index!TxAt(p) \in Txs
  BY PlaceFacts
<1>2. \A p \in P : DOMAIN Index!TxAt(p).votes \subseteq Nat
  BY <1>1, TxsAssumption
<1>3. \A p \in P : RecordedAt(P, p, NoPlace, {}) <=> Index!Recorded(P, p)
  <2> SUFFICES ASSUME NEW p \in P
               PROVE  RecordedAt(P, p, NoPlace, {}) <=> Index!Recorded(P, p)
    OBVIOUS
  <2>1. (\E k \in Nat : VotesAt(P, p, k, NoPlace, {})) <=>
        \E e \in Index!EntriesAt(p) : Index!Votes(P, p, e)
    BY <1>2, AllDone DEF VotesAt, Index!EntriesAt
  <2>2. \A q \in P : ClosesAt(P, p, q, NoPlace, {}) <=> Index!Closes(P, p, q)
    BY AllDone DEF ClosesAt
  <2> QED  BY <2>1, <2>2, AllDone DEF RecordedAt, Index!Recorded
<1> DEFINE created == {p \in P : Index!CreatesProposal(P, p)}
           TxRow(p) == [hash |-> Index!TxAt(p).hash, fee |-> Index!TxAt(p).fee, slot |-> p.b.slot]
           Available(p) == Index!StateRow(Index!TxAt(p).hash, Index!TxAt(p).hash, p.b.slot, "AVAILABLE")
           Closing(p, q) == Index!StateRow(Index!TxAt(q).hash, Index!TxAt(q).hash, p.b.slot,
                                           Index!ClosingStatus(Index!TxAt(p)))
           txs == {TxRow(p) : p \in {q \in P : Index!Recorded(P, q)}}
           polls == {Index!PollRow(Index!TxAt(p), p.b.slot) : p \in {q \in P : Index!OpensPoll(Index!TxAt(q))}}
           proposals == {Index!ProposalRow(Index!TxAt(p), p.b.slot) : p \in created}
           states == {Available(p) : p \in created}
                     \cup UNION {{Closing(p, q) : q \in {r \in created : Index!Closes(P, p, r)}} : p \in P}
           VoteOf(p, e, q) == [owner |-> e.owner, proposal |-> Index!TxAt(q).hash, poll |-> e.poll,
                   choice |-> e.choices[Index!TxAt(q).hash], power |-> e.power,
                   tx |-> Index!TxAt(p).hash, slot |-> p.b.slot]
           votes == UNION {UNION {{VoteOf(p, e, q) : q \in {r \in created : Index!VotesFor(P, p, e, r)}}
                       : e \in Index!EntriesAt(p)} : p \in P}
<1>4. Index!TablesOf(B) =
        [tx |-> txs, poll |-> polls, proposal |-> proposals, state |-> states, vote |-> votes]
  BY DEF Index!TablesOf
<1>5. /\ \A p : TxRow(p) = TxRowAt(p) /\ Available(p) = AvailableRow(p)
      /\ \A p, q : Closing(p, q) = ClosingRow(p, q)
  BY SameOperators DEF TxRowAt, AvailableRow, ClosingRow
<1> HIDE DEF P, t, VoteOf, TxRow, Available, Closing
<1>6. t.tx = txs
  <2>1. \A r : r \in t.tx <=> \E p \in P : RecordedAt(P, p, NoPlace, {}) /\ r = TxRowAt(p)
    BY DEF Holds, P, t
  <2> QED  BY <1>3, <1>5, <2>1
<1>7. t.poll = polls
  <2>1. \A r : r \in t.poll <=>
          \E p \in P : OpensAt(p, NoPlace, {}) /\ r = PollRow(Index!TxAt(p), p.b.slot)
    BY DEF Holds, P, t
  <2>2. \A p : OpensAt(p, NoPlace, {}) <=> Index!OpensPoll(Index!TxAt(p))
    BY AllDone DEF OpensAt
  <2> QED  BY <2>1, <2>2, SameOperators
<1>8. \A p \in P : CreatesAt(P, p, NoPlace, {}) <=> p \in created
  BY AllDone DEF CreatesAt
<1>9. t.proposal = proposals
  <2>1. \A r : r \in t.proposal <=>
          \E p \in P : CreatesAt(P, p, NoPlace, {}) /\ r = ProposalRow(Index!TxAt(p), p.b.slot)
    BY DEF Holds, P, t
  <2> QED  BY <1>8, <2>1, SameOperators
<1>10. t.state = states
  <2>1. \A r : r \in t.state <=>
          \/ \E p \in P : CreatesAt(P, p, NoPlace, {}) /\ r = AvailableRow(p)
          \/ \E p, q \in P : ClosesAt(P, p, q, NoPlace, {}) /\ r = ClosingRow(p, q)
    BY DEF Holds, P, t
  <2>2. \A p, q \in P : ClosesAt(P, p, q, NoPlace, {}) <=> q \in created /\ Index!Closes(P, p, q)
    BY AllDone DEF ClosesAt, Index!Closes
  <2> QED  BY <1>8, <1>5, <2>1, <2>2
<1>11. t.vote = votes
  <2>1. \A r : r \in t.vote <=>
          \E p, q \in P : \E k \in DOMAIN Index!TxAt(p).votes :
            /\ Index!VotesFor(P, p, Index!TxAt(p).votes[k], q)
            /\ Done(p, k, NoPlace, {})
            /\ r = VoteRow(p, k, q)
    BY DEF Holds, P, t
  <2>2. \A p, k, q : VoteRow(p, k, q) = VoteOf(p, Index!TxAt(p).votes[k], q)
    BY DEF VoteRow, VoteOf
  <2>3. \A p \in P : \A e : \A q \in P : Index!VotesFor(P, p, e, q) => q \in created
    BY DEF Index!VotesFor
  <2>4. \A p \in P : \A e : e \in Index!EntriesAt(p) <=>
          \E k \in DOMAIN Index!TxAt(p).votes : e = Index!TxAt(p).votes[k]
    BY DEF Index!EntriesAt
  <2>5. \A r : r \in votes <=>
          \E p \in P : \E e \in Index!EntriesAt(p) : \E q \in P :
            Index!VotesFor(P, p, e, q) /\ r = VoteOf(p, e, q)
    BY <2>3
  <2> QED  BY <2>1, <2>2, <2>4, <2>5, AllDone
<1>12. t = [tx |-> t.tx, poll |-> t.poll, proposal |-> t.proposal, state |-> t.state, vote |-> t.vote]
  BY DEF t, TablesIn
<1>13. t = Index!TablesOf(B)
  <2> HIDE DEF txs, polls, proposals, states, votes
  <2> QED  BY <1>4, <1>6, <1>7, <1>9, <1>10, <1>11, <1>12
<1> QED  BY <1>13 DEF t

\* What the invariants say of the committed database alone.
LEMMA CommittedTables ==
  ASSUME IInv, LinkInv, LedgerInv, IndexInv
  PROVE  /\ TablesIn(db) = Index!TablesOf(Indexed(db))
         /\ \A b \in Indexed(db) : b \in Block
         /\ TxUnique(Indexed(db))
<1>1. \A b \in Indexed(db) : b \in Block
  BY IndexedFacts DEF IInv
<1>2. Indexed(db) \subseteq Indexed(work)
  BY DEF LinkInv, TransactionOK
<1>3. TxUnique(Indexed(db))
  BY <1>2 DEF LedgerInv, TxUnique
<1>4. Holds(TablesIn(db), Index!Places(Indexed(db)), NoPlace, {})
  BY DEF IndexInv
<1> QED  BY <1>1, <1>3, <1>4, HoldsAsTables

\* The empty database is the empty index.
LEMMA RefinesInit == ASSUME Init PROVE Index!Init
<1>1. Indexed(db) = {}
  BY DEF Init, Indexed, EmptyDb
<1>2. Holds(TablesIn(db), Index!Places(Indexed(db)), NoPlace, {})
  BY IndexInit DEF IndexInv
<1>3. TablesIn(db) = Index!TablesOf(Indexed(db))
  BY <1>1, <1>2, HoldsAsTables
<1> QED  BY <1>1, <1>3 DEF Index!Init

\* A commit extends the index by the block, a rollback truncates it, and no
\* other step moves it.
LEMMA RefinesNext ==
  ASSUME IInv, LinkInv, LedgerInv, IndexInv, [Next]_vars,
         TablesIn(db)' = Index!TablesOf(Indexed(db))'
  PROVE  [Index!Next]_Index!vars
<1>1. CASE Commit /\ ~aborted
  <2>1. /\ Indexed(db)' = Indexed(db) \cup {current}
        /\ \A b \in Indexed(db) : b.slot < current.slot
    BY <1>1 DEF Commit, LinkInv, TransactionOK, IndexInv, Indexed
  <2>2. Index!Extend
    BY <2>1 DEF Index!Extend
  <2> QED  BY <2>2 DEF Index!Next
<1>2. CASE RollBackToPoint
  <2>1. point.slot \in Nat /\ DbOK(db)
    BY <1>2 DEF IInv, CursorOK, RollBackToPoint, Block
  <2>2. Indexed(DeleteBlocksAfter(db, point.slot)) = {b \in Indexed(db) : b.slot <= point.slot}
    BY <2>1, DeletionIndexed
  <2>3. Indexed(db)' = {b \in Indexed(db) : b.slot <= point.slot}
    BY <1>2, <2>2 DEF RollBackToPoint, Indexed
  <2>4. \A b \in Indexed(db) : b.slot \in Nat
    BY <2>1, IndexedFacts
  <2>5. Index!Truncate
    BY <2>1, <2>3, <2>4 DEF Index!Truncate
  <2> QED  BY <2>5 DEF Index!Next
<1>3. CASE db' = db
  BY <1>3 DEF Index!vars, Indexed, TablesIn, VoteFacts
<1>4. db' = db \/ (Commit /\ ~aborted) \/ RollBackToPoint
  BY DEF Next, Node, Sync, vars, Mint, Reorganize, SkipBlock, BeginBlock, TakeTx, HandleGovernance,
     HandleVotes, Commit, BeginRollback, ReadResumePoint, Resume, ResumeFails, Crash,
     ConnectionLost, IInv, TypeOK
<1> QED  BY <1>1, <1>2, <1>3, <1>4

\* The aggregator implements the index: whatever the interleaving of handlers,
\* forks, crashes and failed statements, its tables are at every moment exactly
\* what the blocks it has stored say, and every step adds one later block, goes
\* back to a prefix, or changes nothing.
THEOREM ImplementsIndexCorrect == Spec => ImplementsIndex
<1>1. Init => Index!Init
  BY RefinesInit
<1>2. IInv /\ LinkInv /\ LedgerInv /\ IndexInv => TablesIn(db) = Index!TablesOf(Indexed(db))
  BY CommittedTables
<1>3. /\ IInv /\ LinkInv /\ LedgerInv /\ IndexInv /\ [Next]_vars
      /\ (TablesIn(db) = Index!TablesOf(Indexed(db)))'
      => [Index!Next]_Index!vars
  BY RefinesNext
<1> QED
  BY <1>1, <1>2, <1>3, Invariance, LinkInvariance, LedgerInvariance, IndexInvariance,
     PTL DEF Spec, ImplementsIndex, Index!Spec

\* A proposal has the state row of its creation and at most one more: it is
\* concluded or cancelled once, because its deposit is spent once.
THEOREM ClosedOnceCorrect == Spec => []ClosedAtMostOnce
<1>1. IInv /\ LinkInv /\ LedgerInv /\ IndexInv => ClosedAtMostOnce
  <2> SUFFICES ASSUME IInv, LinkInv, LedgerInv, IndexInv, NEW x \in db.proposal
               PROVE  LET states == {r \in db.state : r.proposal = x.hash}
                          closing == {r \in states : r.status # "AVAILABLE"}
                      IN  /\ Cardinality(states \ closing) = 1
                          /\ Cardinality(closing) <= 1
    BY DEF ClosedAtMostOnce
  <2> DEFINE P == Index!Places(Indexed(db))
             states == {r \in db.state : r.proposal = x.hash}
             closing == {r \in states : r.status # "AVAILABLE"}
  <2>1. /\ \A b \in Indexed(db) : b \in Block
        /\ TxUnique(Indexed(db))
    BY CommittedTables
  <2>2. \A p, q \in P : \/ Index!TxAt(p).hash = Index!TxAt(q).hash
                        \/ Index!TxAt(p).inputs \cap Index!TxAt(q).inputs # {}
                        => p = q
    BY <2>1, PlaceUnique
  <2> HIDE DEF P
  <2>3. Holds(TablesIn(db), P, NoPlace, {})
    BY DEF IndexInv, P
  <2>4. PICK q \in P : Index!CreatesProposal(P, q) /\ x.hash = Index!TxAt(q).hash
    <3>1. PICK q \in P : /\ CreatesAt(P, q, NoPlace, {})
                         /\ x = ProposalRow(Index!TxAt(q), q.b.slot)
      BY <2>3, TablesFacts DEF Holds
    <3> QED  BY <3>1 DEF CreatesAt, ProposalRow
  <2>5. \A r : r \in db.state <=>
          \/ \E p \in P : Index!CreatesProposal(P, p) /\ r = AvailableRow(p)
          \/ \E p, y \in P : Index!Closes(P, p, y) /\ r = ClosingRow(p, y)
    BY <2>3, TablesFacts, AllDone DEF Holds, CreatesAt, ClosesAt
  <2>6. /\ \A p : AvailableRow(p).proposal = Index!TxAt(p).hash
               /\ AvailableRow(p).status = "AVAILABLE"
        /\ \A p, y : ClosingRow(p, y).proposal = Index!TxAt(y).hash
               /\ ClosingRow(p, y).status # "AVAILABLE"
    BY DEF AvailableRow, ClosingRow, StateRow, Index!ClosingStatus
  <2>7. states \ closing = {AvailableRow(q)}
    <3>1. ASSUME NEW r \in states \ closing PROVE r = AvailableRow(q)
      <4>1. r \in db.state /\ r.proposal = x.hash /\ r.status = "AVAILABLE"
        OBVIOUS
      <4>2. PICK p \in P : r = AvailableRow(p)
        BY <2>5, <2>6, <4>1
      <4>3. p = q
        BY <2>2, <2>4, <2>6, <4>1, <4>2
      <4> QED  BY <4>2, <4>3
    <3>2. AvailableRow(q) \in states \ closing
      BY <2>4, <2>5, <2>6
    <3> QED  BY <3>1, <3>2
  <2>8. ASSUME NEW r \in closing, NEW s \in closing PROVE r = s
    <3>1. /\ r \in db.state /\ r.proposal = x.hash /\ r.status # "AVAILABLE"
          /\ s \in db.state /\ s.proposal = x.hash /\ s.status # "AVAILABLE"
      OBVIOUS
    <3>2. PICK p1, y1 \in P : Index!Closes(P, p1, y1) /\ r = ClosingRow(p1, y1)
      BY <2>5, <2>6, <3>1
    <3>3. PICK p2, y2 \in P : Index!Closes(P, p2, y2) /\ s = ClosingRow(p2, y2)
      BY <2>5, <2>6, <3>1
    <3>4. y1 = y2
      BY <2>2, <2>6, <3>1, <3>2, <3>3
    <3>5. p1 = p2
      BY <2>2, <3>2, <3>3, <3>4 DEF Index!Closes
    <3> QED  BY <3>2, <3>3, <3>4, <3>5
  <2>9. Cardinality(states \ closing) = 1
    BY <2>7, FS_Singleton
  <2>10. Cardinality(closing) <= 1
    <3> HIDE DEF closing
    <3>1. CASE closing = {}
      BY <3>1, FS_EmptySet
    <3>2. CASE closing # {}
      <4>1. PICK r \in closing : closing = {r}
        BY <2>8, <3>2
      <4>2. Cardinality({r}) = 1
        BY FS_Singleton
      <4> QED  BY <4>1, <4>2
    <3> QED  BY <3>1, <3>2
  <2> QED  BY <2>9, <2>10
<1> QED
  BY <1>1, Invariance, LinkInvariance, LedgerInvariance, IndexInvariance, PTL
=============================================================================
