---------------------------- MODULE GovernanceApp ----------------------------
(***************************************************************************)
(* The whole way of an action: a page of the example that shows what it    *)
(* fetched, the SDK that plans a transaction from the wallet's UTxOs and   *)
(* writes its metadata, the wallet and the ledger (external), and the      *)
(* aggregator that decodes the transaction and fills the database the page *)
(* reads.  Several tabs and users act at once; what one of them read may   *)
(* be old when it is used.  Time is counted in slots; a session has the     *)
(* clock of its browser, which may be wrong.                               *)
(*                                                                         *)
(* Tokens are governance tokens; Ada matters only where a plan does not    *)
(* bring enough of it, and then buildTx has to take another UTxO.          *)
(***************************************************************************)
EXTENDS GovernanceDb, Metadata
LOCAL INSTANCE FiniteSetsExt

CONSTANTS
  ProposalsAddress, \* governanceVotingParams.proposalsAddress: the DAO's wallet
  WalletOf,         \* address of the wallet each session is connected to
  Genesis,          \* UTxOs at the start
  TxIds,            \* bound: hashes of the transactions that get into blocks
  MaxPlans,         \* bound: actions users begin
  Windows,          \* the poll dates users fill in, <<start, end>>
  Beneficiaries,    \* addresses collateral is sent to; the form proposes the DAO's
  ClockError,       \* slots the clock of each session is ahead of the chain's
  Backdate,         \* DEFAULT_TX_BACKDATE_MINUTES in slots
  Ttl,              \* slots a built transaction is valid for
  MaxExtra,         \* bound: UTxOs coin selection adds to the planned ones
  MaxSlot           \* bound: time

Sessions == DOMAIN WalletOf

ASSUME AppAssumption ==
  /\ \A s \in Sessions : ClockError[s] \in Int
  /\ Backdate \in Nat /\ Ttl \in Nat /\ MaxExtra \in Nat /\ MaxSlot \in Nat /\ MaxPlans \in Nat
  /\ \A u \in Genesis : u.token \in Nat
  /\ TxIds \in Seq({TxIds[i] : i \in DOMAIN TxIds})
  /\ NoTx \notin {TxIds[i] : i \in DOMAIN TxIds}
  /\ \A i, j \in DOMAIN TxIds : TxIds[i] = TxIds[j] => i = j
  /\ \A u \in Genesis : \A i \in DOMAIN TxIds : u.tx # TxIds[i]
  /\ \A window \in Windows : window[1] \in Nat /\ window[2] \in Nat

VARIABLES
  ledger,   \* unspent outputs
  mempool,  \* transactions submitted and accepted by a node
  chain,    \* transactions in blocks, one in each
  indexed,  \* how many of them the aggregator has indexed
  db,       \* the governance database
  now,      \* current slot
  session,  \* what each session is doing
  page,     \* the proposals each session's page shows
  plans     \* actions begun so far

ledgerVars == <<ledger, mempool, chain>>
vars == <<ledgerVars, indexed, db, now, session, page, plans>>

Ref(u) == [tx |-> u.tx, index |-> u.index]
Refs(utxos) == {Ref(u) : u \in utxos}
Tokens(utxos) == MapThenSumSet(LAMBDA u : u.token, utxos)
-----------------------------------------------------------------------------
(***************************************************************************)
(* The wallet: what it holds now, or what it answered before, as the       *)
(* connector caches its answers for a minute.  "at" is the length of the   *)
(* chain then.                                                             *)
(***************************************************************************)
Owned(address) == {u \in ledger : u.owner = address}

Holding(s) == [utxos |-> Owned(WalletOf[s]), at |-> Len(chain)]

Readings(s) == {Holding(s), session[s].cache}

\* The balance is asked for when the wallet connects, and not again.
UserBalance(s) == Tokens({u \in Genesis : u.owner = WalletOf[s]})

Idle(reading) == [pc |-> "idle", cache |-> reading]
-----------------------------------------------------------------------------
(***************************************************************************)
(* The page.                                                               *)
(***************************************************************************)
IsAdmin(s) == WalletOf[s] = ProposalsAddress

NoChoice == -2

LastVotes(d, owner, proposal) ==
  {v \in d.vote : /\ v.owner = owner /\ v.proposal = proposal
                  /\ \A w \in d.vote : w.owner = owner /\ w.proposal = proposal => w.id <= v.id}

UserChoice(d, owner, proposal) ==
  LET rows == LastVotes(d, owner, proposal)
  IN  IF rows = {} THEN NoChoice ELSE (CHOOSE v \in rows : TRUE).choice

ClosedAs(d, proposal) == {r.status : r \in {s \in d.state : s.proposal = proposal}} \ {"AVAILABLE"}

\* getProposals leaves cancelled proposals out.
Shown(d, owner) ==
  {[hash |-> x[1].hash, index |-> x[1].index, poll |-> x[2].hash, start |-> x[2].start,
    end |-> x[2].end, choices |-> x[1].choices, available |-> ClosedAs(d, x[1].hash) = {},
    userChoice |-> UserChoice(d, owner, x[1].hash)] :
      x \in {y \in d.proposal \X d.poll : /\ y[1].poll = y[2].hash
                                          /\ "CANCELLED" \notin ClosedAs(d, y[1].hash)}}

\* The page fetches on loading and when refreshed by hand.
Refresh(s) ==
  /\ page' = [page EXCEPT ![s] = Shown(db, WalletOf[s])]
  /\ UNCHANGED <<ledgerVars, indexed, db, now, session, plans>>

\* Date.now() in the browser of the session.
Clock(s) == now + ClockError[s]

\* The page's copy of it is renewed every ten seconds.
PageTimes(s) == {Clock(s), Clock(s) - 1}

IsActive(p, time) == p.start <= time /\ time <= p.end

\* Mutant: an available proposal can be concluded before its poll has ended.
CanBeConcludedEarly(p, time) == p.available

CanBeConcluded(p, time) == p.available /\ time > p.end

CanBeCancelled(p) == p.available
-----------------------------------------------------------------------------
(***************************************************************************)
(* Plans of the SDK's actions.  A plan has the inputs and outputs it       *)
(* needs, whether its inputs bring more Ada than its outputs take, the     *)
(* UTxOs buildTx must not use, and the metadata under each label.  The     *)
(* intent and the moment of the first reading are kept to state properties.*)
(***************************************************************************)
FormProposal(owner) ==
  [owner |-> owner, name |-> "name", description |-> <<"a", "b">>, uri |-> "ipfs://",
   communityUri |-> "https://", acceptChoices |-> <<"Yes">>, rejectChoices |-> <<"No">>]

PlanCreate(s, window) ==
  [inputs  |-> {},
   outputs |-> <<[owner |-> ProposalsAddress, token |-> CollateralQuantity]>>,
   funded  |-> FALSE, ignored |-> {}, signers |-> {},
   manage  |-> EncodeAddProposal(FormProposal(WalletOf[s]),
                 [start |-> window[1], end |-> window[2], snapshot |-> window[1], description |-> <<>>]),
   votes   |-> Undefined,
   intent  |-> [op |-> "create", start |-> window[1], end |-> window[2]],
   readAt  |-> Len(chain)]

\* Mutant: the proposal's UTxO is left to coin selection.
PlanClosingLoosely(utxo, utxos, beneficiary, metadata, intent, at) ==
  [inputs |-> {}, outputs |-> <<[owner |-> beneficiary, token |-> utxo.token]>>,
   funded |-> FALSE, ignored |-> {}, signers |-> {},
   manage |-> metadata, votes |-> Undefined, intent |-> intent, readAt |-> at]

\* Mutant: no UTxO is kept out of the transaction.
PlanClosingWithoutIgnored(utxo, utxos, beneficiary, metadata, intent, at) ==
  [inputs |-> {utxo}, outputs |-> <<[owner |-> beneficiary, token |-> utxo.token]>>,
   funded |-> FALSE, ignored |-> {}, signers |-> {},
   manage |-> metadata, votes |-> Undefined, intent |-> intent, readAt |-> at]

IsPotentialProposalUtxo(u) == u.token > 0

PlanClosing(utxo, utxos, beneficiary, metadata, intent, at) ==
  [inputs  |-> {utxo},
   outputs |-> <<[owner |-> beneficiary, token |-> utxo.token]>>,
   funded  |-> FALSE, ignored |-> Refs({u \in utxos : IsPotentialProposalUtxo(u)}), signers |-> {},
   manage  |-> metadata, votes |-> Undefined, intent |-> intent, readAt |-> at]

\* Mutant: the wallet's staking key is not among the required signers.
PlanVoteUnsigned(s, first, vote, at) ==
  [inputs |-> {first}, outputs |-> <<>>, funded |-> TRUE, ignored |-> {}, signers |-> {},
   manage |-> Undefined, votes |-> EncodeVote(vote),
   intent |-> [op |-> "vote", vote |-> vote], readAt |-> at]

PlanVote(s, first, vote, at) ==
  [inputs |-> {first}, outputs |-> <<>>, funded |-> TRUE, ignored |-> {}, signers |-> {WalletOf[s]},
   manage |-> Undefined, votes |-> EncodeVote(vote),
   intent |-> [op |-> "vote", vote |-> vote], readAt |-> at]
-----------------------------------------------------------------------------
Planned(s, plan, reading) ==
  /\ session[s].pc = "idle"
  /\ plans < MaxPlans /\ plans' = plans + 1
  /\ session' = [session EXCEPT ![s] = [pc |-> "planned", cache |-> reading, plan |-> plan]]
  /\ UNCHANGED <<ledgerVars, indexed, db, now, page>>

\* The form does not compare the dates.
HandleCreateProposal(s, window) ==
  /\ UserBalance(s) >= CollateralQuantity
  /\ Planned(s, PlanCreate(s, window), session[s].cache)

\* A proposal that is not among the wallet's UTxOs is refused: nothing happens.
Close(s, p, beneficiary, metadata, status) ==
  /\ IsAdmin(s)
  /\ \E reading \in Readings(s) :
       \E utxo \in {u \in reading.utxos : Ref(u) = [tx |-> p.hash, index |-> p.index]} :
         Planned(s, PlanClosing(utxo, reading.utxos, beneficiary, metadata,
                                [op |-> "close", target |-> p.hash, status |-> status], reading.at),
                 reading)

HandleCancelProposal(s, p, beneficiary) ==
  /\ CanBeCancelled(p)
  /\ Close(s, p, beneficiary, EncodeCancel(p.hash, <<"reason">>), "CANCELLED")

\* The numbers of the results are read by nobody, so there are none here.
HandleConcludeProposal(s, p, beneficiary, result, time) ==
  /\ CanBeConcluded(p, time)
  /\ Close(s, p, beneficiary,
           EncodeConclude(p.hash, [result |-> result, choices |-> [i \in {} |-> 0], total |-> 0,
                                   abstained |-> 0, note |-> <<"note">>]), result)

\* The first UTxO the wallet lists is spent, whatever it is.
HandleCastVote(s, p, choice, time) ==
  /\ IsActive(p, time) /\ choice # p.userChoice
  /\ \E reading \in Readings(s) : \E first \in reading.utxos :
       Planned(s, PlanVote(s, first,
                    [poll |-> p.poll, owner |-> WalletOf[s], power |-> 1, utxos |-> <<>>,
                     choices |-> [h \in {p.hash} |-> choice]], reading.at), reading)
-----------------------------------------------------------------------------
(***************************************************************************)
(* buildTx reads the wallet again; coin selection (external) adds UTxOs to *)
(* the planned ones, and what is left goes back to the wallet in a last    *)
(* output.                                                                 *)
(***************************************************************************)
Selections(plan, reading) ==
  {inputs \in {plan.inputs \cup extra :
                 extra \in {x \in SUBSET {u \in reading.utxos : Ref(u) \notin plan.ignored} :
                              Cardinality(x \ plan.inputs) <= MaxExtra}} :
     /\ plan.funded \/ inputs # plan.inputs
     /\ Tokens(inputs) >= MapThenSumSet(LAMBDA i : plan.outputs[i].token, DOMAIN plan.outputs)}

Change(s, plan, inputs) ==
  [owner |-> WalletOf[s],
   token |-> Tokens(inputs) - MapThenSumSet(LAMBDA i : plan.outputs[i].token, DOMAIN plan.outputs)]

BuildTx(s) ==
  /\ session[s].pc = "planned"
  /\ LET plan == session[s].plan IN
     \E reading \in Readings(s) : \E inputs \in Selections(plan, reading) :
       session' = [session EXCEPT ![s] =
         [pc |-> "built", cache |-> reading,
          tx |-> [inputs |-> Refs(inputs), outputs |-> Append(plan.outputs, Change(s, plan, inputs)),
                  signers |-> plan.signers, manage |-> plan.manage, votes |-> plan.votes,
                  from |-> Clock(s) - Backdate, ttl |-> Clock(s) - Backdate + Ttl,
                  intent |-> plan.intent, readAt |-> plan.readAt]]]
  /\ UNCHANGED <<ledgerVars, indexed, db, now, page, plans>>

\* Not enough Ada or tokens: the hook turns the error into a message.
BuildFails(s) ==
  /\ session[s].pc = "planned"
  /\ \E reading \in Readings(s) :
       /\ Selections(session[s].plan, reading) = {}
       /\ session' = [session EXCEPT ![s] = Idle(reading)]
  /\ UNCHANGED <<ledgerVars, indexed, db, now, page, plans>>

\* The ledger takes a transaction in its validity interval.
Valid(t) == t.from <= now /\ now <= t.ttl

\* The user signs and a node takes the transaction.  Whether the answer gets
\* back decides only the message shown.
SignAndSubmit(s) ==
  /\ session[s].pc = "built"
  /\ session[s].tx.inputs \subseteq Refs(ledger) /\ Valid(session[s].tx)
  /\ mempool' = mempool \cup {session[s].tx}
  /\ session' = [session EXCEPT ![s] = Idle(session[s].cache)]
  /\ UNCHANGED <<ledger, chain, indexed, db, now, page, plans>>

\* The user declines, or the node refuses.
NotSubmitted(s) ==
  /\ session[s].pc = "built"
  /\ session' = [session EXCEPT ![s] = Idle(session[s].cache)]
  /\ UNCHANGED <<ledgerVars, indexed, db, now, page, plans>>
-----------------------------------------------------------------------------
Tick ==
  /\ now < MaxSlot /\ now' = now + 1
  /\ UNCHANGED <<ledgerVars, indexed, db, session, page, plans>>

\* A transaction gets into a block of its own, and what conflicts with it
\* never will.
Include(t) ==
  LET hash == TxIds[Len(chain) + 1]
  IN  /\ Len(chain) < Len(TxIds)
      /\ t.inputs \subseteq Refs(ledger) /\ Valid(t)
      /\ chain # <<>> => chain[Len(chain)].slot < now
      /\ chain' = Append(chain, [hash |-> hash, slot |-> now, inputs |-> t.inputs, outputs |-> t.outputs,
                                 signers |-> t.signers, manage |-> t.manage, votes |-> t.votes,
                                 intent |-> t.intent, readAt |-> t.readAt])
      /\ ledger' = {u \in ledger : Ref(u) \notin t.inputs} \cup
                   {[tx |-> hash, index |-> i - 1, owner |-> t.outputs[i].owner, token |-> t.outputs[i].token] :
                      i \in DOMAIN t.outputs}
      /\ mempool' = {m \in mempool : m.inputs \cap t.inputs = {}}
      /\ UNCHANGED <<indexed, db, now, session, page, plans>>
-----------------------------------------------------------------------------
(***************************************************************************)
(* The aggregator: what it makes of a transaction, as GovernanceDb wants   *)
(* it, and the block of the transaction indexed in one step (Aggregator    *)
(* has the steps).                                                         *)
(***************************************************************************)
\* Mutant: the last output at the address is taken for the deposit.
DepositOfLast(t) ==
  LET paid == {i \in DOMAIN t.outputs : t.outputs[i].owner = ProposalsAddress}
      last == CHOOSE i \in paid : \A j \in paid : j <= i
  IN  IF paid = {} THEN NoDeposit ELSE [index |-> last - 1, quantity |-> t.outputs[last].token]

DepositOf(t) ==
  LET paid == {i \in DOMAIN t.outputs : t.outputs[i].owner = ProposalsAddress}
      first == CHOOSE i \in paid : \A j \in paid : i <= j
  IN  IF paid = {} THEN NoDeposit ELSE [index |-> first - 1, quantity |-> t.outputs[first].token]

\* An operation that creates nothing.
Operation(op, target, passed) ==
  [op |-> op, assigned |-> NoTx, start |-> 0, end |-> 0, choices |-> 0, target |-> target, passed |-> passed]

NoOperation == Operation("none", NoTx, FALSE)

AddOperation(a) ==
  LET assigns == "txHash" \in DOMAIN a.poll
  IN  [op |-> "addProposal", assigned |-> IF assigns THEN a.poll.txHash ELSE NoTx,
       start |-> IF assigns THEN 0 ELSE a.poll.start, end |-> IF assigns THEN 0 ELSE a.poll.end,
       choices |-> a.proposal.choices, target |-> NoTx, passed |-> FALSE]

\* The operations a datum decodes to: one, or none when something throws.
Operations(m) ==
  CASE <<"addProposal">> \in ParseString(Get(m, "op")) -> {AddOperation(a) : a \in DecodeAddProposal(m)}
    [] <<"concludeProposal">> \in ParseString(Get(m, "op")) ->
         {Operation("concludeProposal", c.target, c.passed) : c \in DecodeConclude(m)}
    [] <<"cancelProposal">> \in ParseString(Get(m, "op")) ->
         {Operation("cancelProposal", c.target, FALSE) : c \in DecodeCancel(m)}
    [] OTHER -> {}

ManageOf(t) ==
  LET operations == UNION {Operations(m) : m \in AssertMetadatumMap(t.manage)}
  IN  IF operations = {} THEN NoOperation ELSE CHOOSE o \in operations : TRUE

Observed(t) ==
  [hash |-> t.hash, fee |-> 1, spends |-> "inputs", inputs |-> t.inputs, signers |-> t.signers,
   deposit |-> DepositOf(t), manage |-> ManageOf(t)]

\* No page votes in two polls at once.
InsertVotes(d, t, slot) ==
  LET votes == UNION DecodeVotes(t.votes)
      e == CHOOSE v \in votes : TRUE
  IN  IF votes # {} /\ VoteAccepted(d, Observed(t), e, slot)
        THEN InsertPollVote(d, Observed(t), e, slot) ELSE d

Index ==
  LET t == chain[indexed + 1]
  IN  /\ indexed < Len(chain)
      /\ indexed' = indexed + 1
      /\ db' = InsertVotes(ProcessGovernance(InsertBlock(db, [slot |-> t.slot]), Observed(t), t.slot), t, t.slot)
      /\ UNCHANGED <<ledgerVars, now, session, page, plans>>
-----------------------------------------------------------------------------
Init ==
  /\ ledger = Genesis /\ mempool = {} /\ chain = <<>>
  /\ indexed = 0 /\ db = EmptyDb /\ now = 0
  /\ session = [s \in Sessions |-> Idle([utxos |-> {u \in Genesis : u.owner = WalletOf[s]}, at |-> 0])]
  /\ page = [s \in Sessions |-> {}] /\ plans = 0

Act(s) ==
  \/ \E window \in Windows : HandleCreateProposal(s, window)
  \/ \E p \in page[s], b \in Beneficiaries : HandleCancelProposal(s, p, b)
  \/ \E p \in page[s], b \in Beneficiaries, result \in {"PASSED", "FAILED"}, time \in PageTimes(s) :
       HandleConcludeProposal(s, p, b, result, time)
  \/ \E p \in page[s], time \in PageTimes(s) : \E choice \in -1 .. p.choices - 1 :
       HandleCastVote(s, p, choice, time)
  \/ BuildTx(s) \/ BuildFails(s) \/ SignAndSubmit(s) \/ NotSubmitted(s)

Next ==
  \/ \E s \in Sessions : Act(s) \/ Refresh(s)
  \/ \E t \in mempool : Include(t)
  \/ Tick \/ Index

Spec == Init /\ [][Next]_vars
-----------------------------------------------------------------------------
\* The transaction t creates a proposal whose dates are in order.
Creates(t) == t.intent.op = "create" /\ t.intent.start <= t.intent.end

Collateral(t) == [tx |-> t.hash, index |-> 0]

Indexed == {chain[i] : i \in 1 .. indexed}

(***************************************************************************)
(* A proposal made in the form is listed once its transaction is indexed:  *)
(* the metadata the SDK writes is what the aggregator reads, the poll is   *)
(* the one filled in, and the output recorded for the proposal is the one  *)
(* that holds the collateral, also where the DAO's own change goes to the  *)
(* same address.                                                           *)
(***************************************************************************)
CreatedProposalsAreListed ==
  \A t \in Indexed : Creates(t) =>
    \E p \in db.proposal, q \in db.poll :
      /\ p.hash = t.hash /\ p.poll = q.hash /\ p.choices = 2
      /\ q.start = t.intent.start /\ q.end = t.intent.end
      /\ t.outputs[p.index + 1].owner = ProposalsAddress
      /\ t.outputs[p.index + 1].token >= CollateralQuantity

(***************************************************************************)
(* A cancellation or conclusion that got into a block takes effect as it   *)
(* was meant: the aggregator accepts every closing the SDK builds, from    *)
(* whichever reading of the wallet and however old the page.               *)
(***************************************************************************)
ClosingsTakeEffect ==
  \A t \in Indexed : t.intent.op = "close" =>
    \E r \in db.state : /\ r.proposal = t.intent.target /\ r.slot = t.slot
                        /\ r.status = t.intent.status

(***************************************************************************)
(* A closing transaction spends the collateral of another proposal only if *)
(* that was created after the wallet was first read: what is ignored is    *)
(* decided there, and coin selection works on a second reading.  (A vote   *)
(* or a proposal made from the DAO's own wallet ignores no UTxO.)          *)
(***************************************************************************)
OrphansAreNew ==
  \A i, j \in DOMAIN chain :
    /\ chain[i].intent.op = "close" /\ Creates(chain[j])
    /\ chain[j].hash # chain[i].intent.target
    /\ Collateral(chain[j]) \in chain[i].inputs
    => j > chain[i].readAt

(***************************************************************************)
(* A vote that gets into a block during the poll counts, with the choice   *)
(* made on the page, and one that comes later does not, however long the   *)
(* user took to sign it.                                                   *)
(***************************************************************************)
VotesCountInTime ==
  \A t \in Indexed : t.intent.op = "vote" =>
    LET v == t.intent.vote
        counted == {r \in db.vote : r.tx = t.hash}
        inTime == \E q \in db.poll : q.hash = v.poll /\ InWindow(q, t.slot)
    IN  /\ inTime <=> counted # {}
        /\ \A r \in counted : r.owner = v.owner /\ r.choice = v.choices[r.proposal]

(***************************************************************************)
(* However wrong the clock of the page that concluded a proposal, its      *)
(* conclusion is in a block less than Backdate before the end of the poll: *)
(* the page offers it after the end by its clock, and the transaction is   *)
(* not valid earlier than Backdate before that clock.                      *)
(***************************************************************************)
ConclusionsNearEnd ==
  \A r \in db.state, p \in db.proposal, q \in db.poll :
    r.status \in {"PASSED", "FAILED"} /\ r.proposal = p.hash /\ p.poll = q.hash
      => q.end < r.slot + Backdate

(***************************************************************************)
(* No vote is counted after a conclusion, whose metadata has the final     *)
(* tally.  A page whose clock is ahead of the chain's breaks this.         *)
(***************************************************************************)
NoVoteAfterConclusion ==
  \A r \in db.state, v \in db.vote :
    r.status \in {"PASSED", "FAILED"} /\ v.proposal = r.proposal => v.slot < r.slot
=============================================================================
