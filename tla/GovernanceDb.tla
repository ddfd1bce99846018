---------------------------- MODULE GovernanceDb ----------------------------
(***************************************************************************)
(* The governance database of backend/prisma/schema.prisma and the         *)
(* statements backend/src/sync runs on it, as pure operators on one record *)
(* of row sets.  A row is identified by the column the code looks it up    *)
(* by: a poll or a proposal by the hash of its creation transaction.       *)
(* ProposalChoice rows are kept as a count in their proposal; they live    *)
(* and die with it.                                                        *)
(***************************************************************************)
EXTENDS Integers, FiniteSets, Sequences

CONSTANTS
  Txs,                \* the transactions that may appear in a block
  CollateralQuantity, \* config.PROPOSAL_COLLATERAL_QUANTITY
  NotPraos,           \* contents of a block of another era
  NoTransactions      \* contents of a block delivered without transactions

NoTx == "noTx"
NoDeposit == [index |-> 0, quantity |-> -1]  \* no output at proposalsAddress
Abstain == -1  \* stored as a null choiceId

(***************************************************************************)
(* A transaction carries its decoded metadata.  One whose label 5752 is    *)
(* absent, or does not decode to a known operation, has the operation      *)
(* "none"; one whose label 5753 is absent or does not decode has no votes: *)
(* the code logs and goes on in both cases.  Times are slots.              *)
(***************************************************************************)
TxHash == {t.hash : t \in Txs}

Ops == {"none", "addProposal", "concludeProposal", "cancelProposal"}

ManageOp ==
  [op       : Ops,
   assigned : TxHash \cup {NoTx},  \* addProposal: the existing poll, or NoTx
   start    : Nat,                 \* addProposal: window of a new poll
   end      : Nat,
   choices  : Nat,                 \* addProposal: accept then reject choices
   target   : TxHash \cup {NoTx},  \* conclude and cancel: the proposal
   passed   : BOOLEAN,             \* conclude: the result reads PASSED
   storable : BOOLEAN]             \* PostgreSQL takes its texts: no U+0000 in them

ASSUME TxsAssumption ==
  /\ CollateralQuantity \in Nat
  /\ \A t \in Txs :
       /\ t.spends \in {"inputs", "collaterals"}
       /\ t.fee \in Nat
       /\ t.manage \in ManageOp
       /\ t.deposit.index \in Nat /\ t.deposit.quantity \in Int
       /\ Len(t.votes) \in Nat /\ DOMAIN t.votes = 1 .. Len(t.votes)
       /\ \A i \in DOMAIN t.votes :
            LET e == t.votes[i]
            IN  /\ e.poll \in TxHash /\ e.owner \in STRING /\ e.power \in Nat
                /\ \A h \in DOMAIN e.choices : h \in TxHash /\ e.choices[h] \in Int
       /\ t.hash # NoTx
  /\ \A t, u \in Txs : t.hash = u.hash => t = u

\* The hash of a transaction covers its metadata, so no vote in it can name the
\* poll or the proposal that the same transaction creates.
ASSUME HashAssumption ==
  \A t \in Txs : \A i \in DOMAIN t.votes :
    t.votes[i].poll # t.hash /\ t.hash \notin DOMAIN t.votes[i].choices

(***************************************************************************)
(* A block has a slot and a body: a sequence of transactions, or one of    *)
(* the two values above, and then it has none to index.                    *)
(***************************************************************************)
ASSUME BodiesAssumption == NotPraos \notin Seq(Txs) /\ NoTransactions \notin Seq(Txs)

Indexable(b) == b.body \notin {NotPraos, NoTransactions}

TxsOf(b) == IF Indexable(b) THEN b.body ELSE <<>>
-----------------------------------------------------------------------------
EmptyDb ==
  [block |-> {}, tx |-> {}, poll |-> {}, proposal |-> {}, state |-> {},
   vote |-> {}]

MaxId(rows) ==
  LET ids == {r.id : r \in rows} IN CHOOSE i \in ids : \A j \in ids : j <= i

\* Mutant: the id of the last row is used again.
NextIdReused(rows) == IF rows = {} THEN 1 ELSE MaxId(rows)

\* Autoincrement ids matter only through their order, so a new row gets the
\* successor of the largest id in the table.
NextId(rows) == IF rows = {} THEN 1 ELSE MaxId(rows) + 1

BlockExists(d, b) == \E r \in d.block : r.hash = b \/ r.slot = b.slot

InsertBlock(d, b) ==
  [d EXCEPT !.block = @ \cup {[id |-> NextId(d.block), hash |-> b, slot |-> b.slot]}]

UpsertTransaction(d, t, slot) ==
  IF \E r \in d.tx : r.hash = t.hash
    THEN d
    ELSE [d EXCEPT !.tx = @ \cup {[hash |-> t.hash, fee |-> t.fee, slot |-> slot]}]

StateRow(proposal, tx, slot, status) ==
  [proposal |-> proposal, tx |-> tx, slot |-> slot, status |-> status]
-----------------------------------------------------------------------------
\* Mutant: proposal states and votes are not deleted with their block.
DeleteBlocksOnly(d, slot) ==
  LET Kept(rows) == {r \in rows : r.slot <= slot}
  IN  [d EXCEPT !.block = Kept(@), !.tx = Kept(@), !.poll = Kept(@), !.proposal = Kept(@)]

\* Deleting the blocks after a slot cascades along every foreign key.
DeleteBlocksAfter(d, slot) ==
  LET Kept(rows) == {r \in rows : \E b \in d.block : b.slot = r.slot /\ b.slot <= slot}
      tx == Kept(d.tx)
      poll == Kept(d.poll)
      proposal == {r \in Kept(d.proposal) : \E q \in poll : q.hash = r.poll}
      ProposalKept(r) == \E q \in proposal : q.hash = r.proposal
      TxKept(r) == \E q \in tx : q.hash = r.tx
      PollKept(r) == \E q \in poll : q.hash = r.poll
  IN  [block    |-> {b \in d.block : b.slot <= slot},
       tx       |-> tx,
       poll     |-> poll,
       proposal |-> proposal,
       state    |-> {r \in Kept(d.state) : ProposalKept(r) /\ TxKept(r)},
       vote     |-> {r \in Kept(d.vote) : ProposalKept(r) /\ TxKept(r) /\ PollKept(r)}]
-----------------------------------------------------------------------------
DepositSuffices(t) == t.deposit.quantity >= CollateralQuantity

\* The poll the metadata names is there, or none is named.
PollConnects(d, t) == t.manage.assigned = NoTx \/ \E p \in d.poll : p.hash = t.manage.assigned

PollRow(t, slot) ==
  [hash |-> t.hash, slot |-> slot, start |-> t.manage.start, end |-> t.manage.end]

\* Mutant: a proposal that opens its own poll is not linked to it.
ProposalRowWithoutPoll(t, slot) ==
  [hash |-> t.hash, slot |-> slot, index |-> t.deposit.index,
   choices |-> t.manage.choices, poll |-> t.manage.assigned]

ProposalRow(t, slot) ==
  [hash |-> t.hash, slot |-> slot, index |-> t.deposit.index,
   choices |-> t.manage.choices,
   poll |-> IF t.manage.assigned = NoTx THEN t.hash ELSE t.manage.assigned]

\* An assigned poll missing from the database fails the proposal's insertion
\* after the transaction row has been written.
AddProposal(d, t, slot) ==
  LET u == UpsertTransaction(d, t, slot)
      fresh == t.manage.assigned = NoTx
      row == ProposalRow(t, slot)
  IN  IF ~DepositSuffices(t) THEN d
      ELSE IF ~PollConnects(d, t) THEN u
      ELSE [u EXCEPT !.poll = IF fresh THEN @ \cup {PollRow(t, slot)} ELSE @,
                     !.proposal = @ \cup {row},
                     !.state = @ \cup {StateRow(t.hash, t.hash, slot, "AVAILABLE")}]

\* Mutant: the inputs of the closing transaction are not looked at.
SpendsUnchecked(t, proposal) == TRUE

Spends(t, proposal) == [tx |-> proposal.hash, index |-> proposal.index] \in t.inputs

ClosesProposal(d, t) == \E p \in d.proposal : p.hash = t.manage.target /\ Spends(t, p)

\* The state row of a conclusion or a cancellation is connected to the
\* proposal's creation transaction, not to the transaction t that closes it.
CloseProposal(d, t, slot, status) ==
  LET u == UpsertTransaction(d, t, slot)
  IN  IF ClosesProposal(d, t)
        THEN [u EXCEPT !.state =
                @ \cup {StateRow(t.manage.target, t.manage.target, slot, status)}]
        ELSE d

ConcludeProposal(d, t, slot) ==
  CloseProposal(d, t, slot, IF t.manage.passed THEN "PASSED" ELSE "FAILED")

CancelProposal(d, t, slot) == CloseProposal(d, t, slot, "CANCELLED")

ProcessGovernance(d, t, slot) ==
  CASE t.manage.op = "addProposal"      -> AddProposal(d, t, slot)
    [] t.manage.op = "concludeProposal" -> ConcludeProposal(d, t, slot)
    [] t.manage.op = "cancelProposal"   -> CancelProposal(d, t, slot)
    [] OTHER                            -> d

\* PostgreSQL refuses the statement that writes the texts of the operation:
\* those of a poll, a proposal and its choices, or the reason of a
\* cancellation.  A conclusion writes none.
StatementRefused(d, t) ==
  /\ ~t.manage.storable
  /\ \/ t.manage.op = "addProposal" /\ DepositSuffices(t) /\ PollConnects(d, t)
     \/ t.manage.op = "cancelProposal" /\ ClosesProposal(d, t)
-----------------------------------------------------------------------------
InWindow(poll, slot) == poll.start <= slot /\ slot <= poll.end

\* Mutant: the signatories of the transaction are not looked at.
VoteAcceptedUnsigned(d, t, e, slot) ==
  \E p \in d.poll : p.hash = e.poll /\ InWindow(p, slot)

VoteAccepted(d, t, e, slot) ==
  /\ e.owner \in t.signers
  /\ \E p \in d.poll : p.hash = e.poll /\ InWindow(p, slot)

ChoiceExists(proposal, choice) == choice = Abstain \/ choice \in 0 .. proposal.choices - 1

\* The rows of one vote entry share an id: they are inserted by one statement
\* and only rows of the same proposal are ever compared.
RowsOfVote(d, t, e, slot) ==
  {[id |-> NextId(d.vote), owner |-> e.owner, proposal |-> p.hash, poll |-> e.poll,
    choice |-> e.choices[p.hash], power |-> e.power, tx |-> t.hash, slot |-> slot,
    verification |-> "UNVERIFIED"] :
      p \in {q \in d.proposal : /\ q.poll = e.poll
                                /\ q.hash \in DOMAIN e.choices
                                /\ ChoiceExists(q, e.choices[q.hash])}}

\* Vote's unique index is on txHash and proposalId, without the owner.
VoteCollides(d, rows) ==
  \E r \in rows, v \in d.vote : v.tx = r.tx /\ v.proposal = r.proposal

InsertPollVote(d, t, e, slot) ==
  [UpsertTransaction(d, t, slot) EXCEPT !.vote = @ \cup RowsOfVote(d, t, e, slot)]
=============================================================================
