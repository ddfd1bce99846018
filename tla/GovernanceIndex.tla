--------------------------- MODULE GovernanceIndex ---------------------------
(***************************************************************************)
(* What the aggregator promises: its tables are, at every moment, exactly  *)
(* what the blocks it has indexed say.  The tables are given here without  *)
(* reference to any statement or order of execution: each row is described *)
(* by the place on chain that justifies it.                                *)
(***************************************************************************)
EXTENDS GovernanceDb

VARIABLES indexed,  \* set of blocks the index covers
          tables    \* the governance tables, without autoincrement ids

vars == <<indexed, tables>>
-----------------------------------------------------------------------------
\* The places of successful transactions in a set of blocks.
Places(B) ==
  UNION {{[b |-> b, i |-> i] : i \in {j \in DOMAIN TxsOf(b) : TxsOf(b)[j].spends = "inputs"}}
          : b \in B}

TxAt(p) == TxsOf(p.b)[p.i]

Before(p, q) == p.b.slot < q.b.slot \/ (p.b = q.b /\ p.i < q.i)

AddsProposal(t) == t.manage.op = "addProposal" /\ DepositSuffices(t)

OpensPoll(t) == AddsProposal(t) /\ t.manage.assigned = NoTx

\* q opens the poll that p names.
PollOpenedBefore(q, p, poll) == TxAt(q).hash = poll /\ OpensPoll(TxAt(q)) /\ Before(q, p)

CreatesProposal(P, p) ==
  /\ AddsProposal(TxAt(p))
  /\ OpensPoll(TxAt(p)) \/ \E q \in P : PollOpenedBefore(q, p, TxAt(p).manage.assigned)

\* p closes the proposal created at q.
Closes(P, p, q) ==
  /\ CreatesProposal(P, q) /\ Before(q, p)
  /\ TxAt(p).manage.op \in {"concludeProposal", "cancelProposal"}
  /\ TxAt(p).manage.target = TxAt(q).hash
  /\ [tx |-> TxAt(q).hash, index |-> TxAt(q).deposit.index] \in TxAt(p).inputs

ClosingStatus(t) ==
  IF t.manage.op = "cancelProposal" THEN "CANCELLED"
  ELSE IF t.manage.passed THEN "PASSED" ELSE "FAILED"

\* The entry e at p is a signed vote cast in the window of an open poll.
Votes(P, p, e) ==
  /\ e.owner \in TxAt(p).signers
  /\ \E q \in P : /\ PollOpenedBefore(q, p, e.poll)
                  /\ InWindow(TxAt(q).manage, p.b.slot)

PollOf(t) == IF t.manage.assigned = NoTx THEN t.hash ELSE t.manage.assigned

\* The entry e at p counts for the proposal created at q.
VotesFor(P, p, e, q) ==
  /\ Votes(P, p, e)
  /\ CreatesProposal(P, q) /\ Before(q, p)
  /\ PollOf(TxAt(q)) = e.poll
  /\ TxAt(q).hash \in DOMAIN e.choices
  /\ ChoiceExists(TxAt(q).manage, e.choices[TxAt(q).hash])

EntriesAt(p) == {TxAt(p).votes[k] : k \in DOMAIN TxAt(p).votes}

\* Transactions the index keeps the fee of: those that passed the checks made
\* before their row is written.
Recorded(P, p) ==
  \/ AddsProposal(TxAt(p))
  \/ \E q \in P : Closes(P, p, q)
  \/ \E e \in EntriesAt(p) : Votes(P, p, e)

TablesOf(B) ==
  LET P == Places(B)
      created == {p \in P : CreatesProposal(P, p)}
  IN [tx |-> {[hash |-> TxAt(p).hash, fee |-> TxAt(p).fee, slot |-> p.b.slot] :
                p \in {q \in P : Recorded(P, q)}},
      poll |-> {PollRow(TxAt(p), p.b.slot) : p \in {q \in P : OpensPoll(TxAt(q))}},
      proposal |-> {ProposalRow(TxAt(p), p.b.slot) : p \in created},
      state |-> {StateRow(TxAt(p).hash, TxAt(p).hash, p.b.slot, "AVAILABLE") : p \in created}
                \cup UNION {{StateRow(TxAt(q).hash, TxAt(q).hash, p.b.slot, ClosingStatus(TxAt(p))) :
                              q \in {r \in created : Closes(P, p, r)}} : p \in P},
      vote |-> UNION {UNION {
                 {[owner |-> e.owner, proposal |-> TxAt(q).hash, poll |-> e.poll,
                   choice |-> e.choices[TxAt(q).hash], power |-> e.power,
                   tx |-> TxAt(p).hash, slot |-> p.b.slot] :
                    q \in {r \in created : VotesFor(P, p, e, r)}}
                 : e \in EntriesAt(p)} : p \in P}]
-----------------------------------------------------------------------------
Init == indexed = {} /\ tables = TablesOf({})

\* A block later than every indexed one is added with all its transactions.
Extend ==
  \E b \in indexed' :
    /\ \A c \in indexed : c.slot < b.slot
    /\ indexed' = indexed \cup {b}
    /\ tables' = TablesOf(indexed')

\* A rollback keeps a prefix.
Truncate ==
  /\ indexed' \subseteq indexed
  /\ \A b \in indexed', c \in indexed \ indexed' : b.slot < c.slot
  /\ tables' = TablesOf(indexed')

Next == Extend \/ Truncate

Spec == Init /\ [][Next]_vars
=============================================================================
