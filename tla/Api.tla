--------------------------------- MODULE Api ---------------------------------
(***************************************************************************)
(* The read side: the queries of backend/src/server/routes on the database *)
(* the aggregator maintains, and the verdicts the vote validation job      *)
(* writes into it.  A query in raw SQL is one statement and reads one      *)
(* snapshot; getProposal goes through Prisma's nested select, which reads  *)
(* each relation with a statement of its own.                              *)
(***************************************************************************)
EXTENDS AggregatorIndex, FiniteSetsExt

CONSTANTS
  Requested,   \* bound: the proposals getProposal is called with
  MaxVerdicts  \* bound: verdicts ever written

VARIABLES
  asked,     \* the proposal getProposal is reading, or NoTx
  read,      \* relations it has read: "votes", "choices"
  votes,     \* the votes of the proposal, as read
  onChoices, \* the votes of its choices, as read
  verdicts   \* verdicts written so far

requestVars == <<asked, read, votes, onChoices>>
apiVars == <<vars, requestVars, verdicts>>

VerificationStates == {"UNVERIFIED", "VERIFIED", "INVALID"}

\* SUM of a column or a product of columns, given row by row.
Total(numbers) == MapThenSumSet(LAMBDA row : numbers[row], DOMAIN numbers)

Power(rows) == Total([v \in rows |-> v.power])

ChoicesOf(proposal) == {Abstain} \cup 0 .. proposal.choices - 1
-----------------------------------------------------------------------------
\* Mutant: the first vote of a user counts, not the last.
FirstVotes(d) ==
  {v \in d.vote :
     \A w \in d.vote : w.owner = v.owner /\ w.proposal = v.proposal => v.id <= w.id}

\* DISTINCT ON the owner and the proposal, the highest id first.
UsersLatestVotes(d) ==
  {v \in d.vote :
     \A w \in d.vote : w.owner = v.owner /\ w.proposal = v.proposal => w.id <= v.id}

\* getVotes: votes and voting power by choice and verification state.
GetVotes(d, proposal) ==
  [choice \in ChoicesOf(proposal) |->
     [verification \in VerificationStates |->
        LET rows == {v \in UsersLatestVotes(d) : /\ v.proposal = proposal.hash
                                                 /\ v.choice = choice
                                                 /\ v.verification = verification}
        IN  [votingCount |-> Cardinality(rows), votingPower |-> Power(rows)]]]

\* Mutant: the vote of a user is looked up without DESC.
GetUserVotesAscending(d, owner) ==
  {v \in FirstVotes(d) : v.owner = owner}

GetUserVotes(d, owner) ==
  {v \in d.vote :
     /\ v.owner = owner
     /\ \A w \in d.vote : w.owner = owner /\ w.proposal = v.proposal => w.id <= v.id}
-----------------------------------------------------------------------------
LastSlot(states) == CHOOSE s \in {r.slot : r \in states} : \A r \in states : r.slot <= s

StatesOf(d, proposal) == {r \in d.state : r.proposal = proposal.hash}

\* Mutant: any available state will do.
ActiveOnceAvailable(d, proposal, now) ==
  /\ \E p \in d.poll : p.hash = proposal.poll /\ p.start <= now /\ now < p.end
  /\ \E r \in StatesOf(d, proposal) : r.status = "AVAILABLE"

\* One of the states of the last slot is AVAILABLE.
Active(d, proposal, now) ==
  /\ \E p \in d.poll : p.hash = proposal.poll /\ p.start <= now /\ now < p.end
  /\ \E r \in StatesOf(d, proposal) :
       r.status = "AVAILABLE" /\ r.slot = LastSlot(StatesOf(d, proposal))

ActiveProposalsCount(d, now) == Cardinality({p \in d.proposal : Active(d, p, now)})

\* Mutant: a vote for another proposal of the poll takes this one away.
UserVotableByPoll(d, now, owner) ==
  Cardinality({p \in d.proposal :
    Active(d, p, now) /\ ~\E v \in d.vote : v.poll = p.poll /\ v.owner = owner})

UserVotableProposalsCount(d, now, owner) ==
  Cardinality({p \in d.proposal :
    Active(d, p, now) /\ ~\E v \in d.vote : v.proposal = p.hash /\ v.owner = owner})

\* Mutant: the states are not ordered by slot.
StatusesOfAnyState(d, proposal) == {r.status : r \in StatesOf(d, proposal)}

\* The status shown is that of the first state by descending slot: any of
\* those of the last slot, which the query does not order.
PossibleStatuses(d, proposal) ==
  {r.status : r \in {s \in StatesOf(d, proposal) : s.slot = LastSlot(StatesOf(d, proposal))}}

\* getProposals leaves out a proposal whose status reads CANCELLED: the
\* proposals that may be listed.
Listable(d) == {p \in d.proposal : PossibleStatuses(d, p) # {"CANCELLED"}}
-----------------------------------------------------------------------------
InSlots(t, from, to) == from <= t.slot /\ t.slot <= to

AtLeastOne(n) == IF n = 0 THEN 1 ELSE n

\* A transaction is joined with its states and with its votes, so that its
\* fee is summed once for each pair.
PaidFees(d, from, to) ==
  LET States(t) == Cardinality({r \in d.state : r.tx = t.hash})
      Votes(t) == Cardinality({v \in d.vote : v.tx = t.hash})
      rows == {t \in d.tx : InSlots(t, from, to)}
  IN  [proposals |-> Total([t \in rows |-> t.fee * States(t) * AtLeastOne(Votes(t))]),
       votes     |-> Total([t \in rows |-> t.fee * Votes(t) * AtLeastOne(States(t))])]
-----------------------------------------------------------------------------
\* getProposal: the results, from the votes of the proposal and those of its
\* choices.  Only verified votes count.
Verified(rows) == {v \in rows : v.verification = "VERIFIED"}

Results(proposalVotes, choiceVotes) ==
  [total     |-> Power(Verified(proposalVotes)),
   abstained |-> Power({v \in Verified(proposalVotes) : v.choice = Abstain}),
   choices   |-> Power(Verified(choiceVotes))]

VotesOn(d, proposal) == {v \in d.vote : v.proposal = proposal}

VotesOnChoices(d, proposal) == {v \in VotesOn(d, proposal) : v.choice # Abstain}

GetProposal(h) ==
  /\ asked = NoTx
  /\ \E p \in db.proposal : p.hash = h
  /\ asked' = h
  /\ UNCHANGED <<vars, read, votes, onChoices, verdicts>>

ReadVotes ==
  /\ asked # NoTx /\ "votes" \notin read
  /\ read' = read \cup {"votes"}
  /\ votes' = VotesOn(db, asked)
  /\ UNCHANGED <<vars, asked, onChoices, verdicts>>

ReadChoices ==
  /\ asked # NoTx /\ "choices" \notin read
  /\ read' = read \cup {"choices"}
  /\ onChoices' = VotesOnChoices(db, asked)
  /\ UNCHANGED <<vars, asked, votes, verdicts>>

Respond ==
  /\ read = {"votes", "choices"}
  /\ asked' = NoTx /\ read' = {} /\ votes' = {} /\ onChoices' = {}
  /\ UNCHANGED <<vars, verdicts>>

\* What the validation job does to the database: one vote at a time gets a
\* verdict, which one depends on the wallet.
Verify(v, verdict) ==
  LET Judged(rows) == {IF VoteFacts(r) = VoteFacts(v) /\ r.verification = "UNVERIFIED"
                         THEN [r EXCEPT !.verification = verdict] ELSE r : r \in rows}
  IN  /\ verdicts < MaxVerdicts
      /\ v.verification = "UNVERIFIED"
      /\ db' = [db EXCEPT !.vote = Judged(@)]
      /\ work' = [work EXCEPT !.vote = Judged(@)]
      /\ verdicts' = verdicts + 1
      /\ UNCHANGED <<nodeVars, linkVars, pc, point, current, at, todo, aborted,
                     latestBlock, failures, requestVars>>
-----------------------------------------------------------------------------
ApiInit ==
  /\ Init
  /\ asked = NoTx /\ read = {} /\ votes = {} /\ onChoices = {}
  /\ verdicts = 0

ApiNext ==
  \/ Next /\ UNCHANGED <<requestVars, verdicts>>
  \/ \E v \in db.vote, verdict \in {"VERIFIED", "INVALID"} : Verify(v, verdict)
  \/ \E h \in Requested : GetProposal(h)
  \/ ReadVotes \/ ReadChoices \/ Respond

ApiSpec == ApiInit /\ [][ApiNext]_apiVars
-----------------------------------------------------------------------------
(***************************************************************************)
(* What the answers should be, from the blocks the database covers.        *)
(***************************************************************************)
OnChain == Index!Places(Indexed(db))

Owners == UNION {{e.owner : e \in Index!EntriesAt(p)} : p \in OnChain}

\* At p the owner votes for the proposal created at q, with that choice.
CastsAt(p, owner, q, choice) ==
  \E e \in Index!EntriesAt(p) :
    /\ e.owner = owner
    /\ Index!VotesFor(OnChain, p, e, q)
    /\ e.choices[Index!TxAt(q).hash] = choice

LastCast(owner, q, choice) ==
  \E p \in OnChain :
    /\ CastsAt(p, owner, q, choice)
    /\ \A r \in OnChain, c \in ChoicesOf(Index!TxAt(q).manage) :
         CastsAt(r, owner, q, c) => r = p \/ Index!Before(r, p)

Created == {q \in OnChain : Index!CreatesProposal(OnChain, q)}

RowOf(q) == CHOOSE p \in db.proposal : p.hash = Index!TxAt(q).hash

ClosedAfter(q, p) == Index!Closes(OnChain, p, q)

\* The tally of a proposal counts every user who voted for it, once, with the
\* choice of their last vote on chain, whatever is verified in the meantime.
TallyIsLastVotes ==
  \A q \in Created :
    LET tally == GetVotes(db, RowOf(q))
    IN  \A choice \in DOMAIN tally :
          Total([s \in VerificationStates |-> tally[choice][s].votingCount])
            = Cardinality({owner \in Owners : LastCast(owner, q, choice)})

\* What a user sees of their votes and what the tally says of all users agree:
\* the powers of the users' votes in a verification state add up to the tally.
UserVotesMatchTally ==
  \A p \in db.proposal, s \in VerificationStates :
    LET tally == GetVotes(db, p)
        own == UNION {GetUserVotes(db, owner) : owner \in Owners}
    IN  Total([choice \in DOMAIN tally |-> tally[choice][s].votingPower])
          = Power({v \in own : v.proposal = p.hash /\ v.verification = s})

\* A proposal is no longer counted as ongoing once a block after the one of
\* its creation has concluded or cancelled it, and is until then while its
\* poll runs.
ActiveUntilClosed ==
  \A q \in Created, now \in 0 .. MaxSlot :
    LET closing == {p \in OnChain : ClosedAfter(q, p)}
    IN  /\ (\E p \in closing : p.b # q.b) => ~Active(db, RowOf(q), now)
        /\ closing = {} =>
             (Active(db, RowOf(q), now) <=>
                \E p \in db.poll : p.hash = RowOf(q).poll /\ now \in p.start .. p.end - 1)

\* The ongoing proposals are those a user may still vote for and those whose
\* vote the user is shown.
VotableUntilVoted ==
  \A owner \in Owners, now \in 0 .. MaxSlot :
    ActiveProposalsCount(db, now) =
      UserVotableProposalsCount(db, now, owner)
        + Cardinality({v \in GetUserVotes(db, owner) :
            \E p \in db.proposal : p.hash = v.proposal /\ Active(db, p, now)})

\* A proposal is listed until a block after the one of its creation cancels it,
\* and is not from then on, also where others of its poll are.
ListedUntilCancelled ==
  \A q \in Created :
    LET cancelling == {p \in OnChain : ClosedAfter(q, p) /\ Index!TxAt(p).manage.op = "cancelProposal"}
    IN  /\ (\E p \in cancelling : p.b # q.b) => RowOf(q) \notin Listable(db)
        /\ cancelling = {} => RowOf(q) \in Listable(db)

\* The results of a proposal are those of the verified votes its tally counts.
ResultsCountLastVotes ==
  \A p \in db.proposal :
    Results(VotesOn(db, p.hash), VotesOnChoices(db, p.hash)).total
      = Power({v \in UsersLatestVotes(db) : v.proposal = p.hash /\ v.verification = "VERIFIED"})

-----------------------------------------------------------------------------
(***************************************************************************)
(* What the documentation says of the answers and the queries do not give. *)
(***************************************************************************)
\* The total of an answer's results includes the abstentions, and everything
\* else in it is what the choices received.  (A vote may come, go or be judged
\* between the statements that read them.)
AnswersAddUp ==
  read = {"votes", "choices"} =>
    LET results == Results(votes, onChoices)
    IN  results.total = results.choices + results.abstained

ClosingsOf(q) == {p \in OnChain : ClosedAfter(q, p)}

\* What was concluded or cancelled is not ongoing, in whichever block that was.
\* (The states of the block of the creation are not ordered.)
ClosedAreNotOngoing ==
  \A q \in Created, now \in 0 .. MaxSlot : ClosingsOf(q) # {} => ~Active(db, RowOf(q), now)

FeesAt(places) == Total([p \in places |-> Index!TxAt(p).fee])

At(slot) == {p \in OnChain : p.b.slot = slot}

\* The fees paid for proposals in a slot are those of the transactions in it
\* that created, cancelled or concluded one.  (The join finds a closing under
\* the transaction of the creation.)
ManagementFeesAreThoseOfActions ==
  \A slot \in 0 .. MaxSlot :
    PaidFees(db, slot, slot).proposals
      = FeesAt(At(slot) \cap (Created \cup UNION {ClosingsOf(q) : q \in Created}))

CastsVote(p) == \E e \in Index!EntriesAt(p), q \in Created : Index!VotesFor(OnChain, p, e, q)

\* The fees paid for votes in a slot are those of the transactions in it that
\* voted.  (The join has a row for each proposal a transaction voted for.)
VoteFeesAreThoseOfVotes ==
  \A slot \in 0 .. MaxSlot :
    PaidFees(db, slot, slot).votes = FeesAt({p \in At(slot) : CastsVote(p)})

\* The fees of the answer are those its documentation says: what was paid for
\* creating, cancelling and concluding proposals, and what was paid for voting.
FeesAreThosePaid == ManagementFeesAreThoseOfActions /\ VoteFeesAreThoseOfVotes
=============================================================================
