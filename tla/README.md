# Formal model of the on-chain DAO governance system

This directory holds TLA+ specifications of the governance system in `src/`: the
aggregator that turns a Cardano chain into governance tables, the job that
validates votes, the queries the API answers from them, the clients and the latest
block each process keeps, and the way of an action from a page of the example
through the SDK, the wallet and the chain to the tables. TLC checks them on small
instances (`*.cfg`); TLAPS proves the theorems of `SumTheorems` and of
the modules named `*Proofs.tla` for every value of the constants. `PROJECT.json` maps each definition
to the lines it models. All paths below without a leading directory are under
`src/backend/src/`; `sdk/` and `frontend/` are under `src/`.

## 1. Inventory

| Component | State it keeps | Operations | Interaction |
|---|---|---|---|
| Chain synchronization (`ogmios/chainSyncClient.ts`, `latestBlock.ts`, `ogmiosInitParams.ts`) | the chain-sync client, `latestBlock` in memory | `rollForward`, `rollBackward`, `startSync`, reading the resume point | messages of the node through Ogmios; calls block indexing; exits the process on an error |
| Block indexing (`sync/`) | none of its own; one open database transaction | `insertPraosBlock`, `processGovernance` (add, conclude, cancel), `insertGovernanceVotes`, `rollBackToPoint` | reads and writes PostgreSQL; decodes metadata with the SDK |
| Database (`prisma/schema.prisma`) | blocks, transactions, polls, proposals, choices, states, votes | unique columns, cascades, transactions, a notification trigger | shared by aggregator, validation job and servers |
| Ogmios initializer loop (`ogmios/ogmios.ts`, `cleanup.ts`, the three client modules) | the clients of the mode, the context of the attempt | create, close on disconnect, retry, shut down on a signal | recreates the clients; callback of the socket; start of `index.ts` |
| Vote validation job (`validation/`) | a cache of wallet UTxOs | find unverified votes, ask Kupo, write verdicts | database, Kupo, concurrently with the aggregator |
| API (`server/`) | none | the queries of `server/routes` | database, latest block, Ogmios |
| Server's latest block (`db/initPgListen.ts`, `db/setLatestBlockFromDb.ts`) | `latestBlock` in memory, the timer of the debounce | set on INSERT, re-read on DELETE, debounced | PostgreSQL notifications, database reads |
| Health, migrations (`health/`, `db/migrateDb.ts`) | the last health status | compare clock, database and node | gates the validation job and the start of the aggregator |
| Transaction building (`sdk/src/actions`, `sdk/src/helpers/actions.ts`) | none | plan, build, sign and submit the four actions | wallet, API, node |
| Metadata codec (`sdk/src/helpers/encodeMetadatum.ts`, `decodeMetadatum.ts`, `metadata.ts`, `sync/`) | none | encode in the SDK, decode in the aggregator | the metadata of a transaction on chain |
| React SDK and example (`frontend/`) | the data a page fetched, its clock | fetch, refresh, offer the four actions | SDK, wallet connector |

What makes each of them correct, and what is hard about it:

* **Chain synchronization.** The database holds the blocks of the node's chain up
  to the last message handled, whatever forks, crashes and reconnections happen in
  between. Hard: memory and database change in separate steps, the process may die
  between any two of them, the resume point may have been abandoned meanwhile.
* **Block indexing.** A block is indexed entirely or not at all, and its rows are
  a function of the chain, not of the order in which its handlers run. Hard: the
  handlers of a transaction run concurrently inside one database transaction,
  errors are caught in three places, and a failed statement poisons the rest.
* **Database.** Deleting the blocks of an abandoned fork removes what they
  justified and nothing else. Hard: five foreign keys cascade, and rows of later
  blocks refer to earlier ones.
* **Queries.** The tally counts each user once, with the last vote; all queries
  agree. Hard: the last vote is found by id, the status of a proposal by slot,
  `getProposal` reads with several statements, and fees are summed over a join.
* **Initializer loop.** A lost connection leads to a new one, and never to two
  synchronizations. Hard: the close callback may come at any await and does not
  know which connection closed.
* **Vote validation.** Each vote gets a verdict once, from the wallet at the
  snapshot; a rollback under the job's feet does no harm. Hard: read, await, write.
* **Server's latest block.** It settles on the newest block. Hard: a database read
  races notifications and other reads, and a restart loses what was on its way.
* **Transaction building.** What gets into a block takes the effect the user meant,
  and no action spends the collateral of a proposal other than the one it closes.
  Hard: UTxO selection is the wallet's, which is read twice and answers from a
  cache, and the page that offers the action may be old.
* **Metadata codec.** What the SDK writes is what the aggregator reads. Hard: the
  two are versions of their own, and a text, a number and a list have several forms.

The places where these bite are the `hazards` of `PROJECT.json`.

## 2. Modules

| Module | What it is |
|---|---|
| `GovernanceDb` | the tables and the statements `sync/` runs on them, as pure operators on a record of row sets |
| `GovernanceIndex` | abstract specification: a set of indexed blocks, and tables that are at every moment what these blocks justify |
| `Aggregator` | the state machine: node, chain-sync link, aggregator process, open database transaction, committed database |
| `AggregatorReconnect` | `Aggregator` where an insertion outlives its connection |
| `AggregatorIndex` | the refinement mapping from `Aggregator` to `GovernanceIndex` |
| `Api` | the queries, verdicts of the validation job and the statements of a `getProposal`, composed with `Aggregator` |
| `VoteValidation` | the vote validation job beside a chain that grows and rolls back, and Kupo |
| `OgmiosInit` | how a process of either mode gets, loses and gets back its Ogmios clients |
| `LatestBlock` | the latest block of a server beside the table it mirrors |
| `Metadata` | encoders of the SDK and decoders of the aggregator, as operators on data |
| `GovernanceApp` | pages, SDK, wallet, ledger and aggregator from end to end, composed with `GovernanceDb` and `Metadata` |
| `AggregatorProofs`, `AggregatorIndexProofs`, `ApiProofs` | invariants, refinement and theorems of the aggregator and the queries, each on top of the one before |
| `VoteValidationProofs`, `OgmiosInitProofs`, `LatestBlockProofs` | invariants and theorems of one component each |
| `GovernanceAppProofs` | the round trips of the metadata, and on top of them the invariant and theorems of the way of an action |
| `SumTheorems` | sums over finite sets, for the queries and the validation job |
| `MCAggregator`, `MCAggregatorReconnect`, `MCApi`, `MCVoteValidation`, `MCGovernanceApp` | transactions, blocks, votes, outputs and wallets for model checking |

### GovernanceDb

A database is a record of sets of rows. Rows are identified by the column the
code looks them up by (the transaction hash of a poll or proposal); autoincrement
ids are kept for blocks and votes, where the code orders by them, and only their
order matters. `ProposalChoice` rows are a count in the proposal. A transaction
carries its decoded metadata (`manage` for label 5752, `votes` for 5753);
metadata that does not decode is the operation `none` or no votes, as in the code,
which logs and goes on. Times are slots, which `slotToDate` maps monotonically.

* `AddProposal`, `ConcludeProposal`, `CancelProposal`: `sync/governanceOp.ts`, with
  every early return; the state row of a closed proposal names the *creation*
  transaction, as the code does.
* `VoteAccepted`, `RowsOfVote`, `InsertPollVote`: `insertPollVote` of
  `sync/votesSync.ts`.
* `DeleteBlocksAfter`: `rollBackToPoint`, with the cascades of the schema followed
  table by table.
* `VoteCollides`: the unique index on `txHash` and `proposalId`.
* `StatementRefused`: the first statement of `processGovernance` that writes a text
  of the transaction (its field `storable`) when PostgreSQL cannot store that text.
  Of all texts that decode, those with U+0000 in them are.

### Aggregator

| Variables | In the system |
|---|---|
| `chain`, `minted`, `immutable` | the node's chain and how much of it is final |
| `sent`, `mustRollBack` | the chain-sync cursor of the connected client |
| `pc`, `point`, `current`, `at`, `todo` | the handler that is running and where it is |
| `work`, `aborted` | the open database transaction and whether a statement in it failed |
| `db` | what is committed |
| `latestBlock` | `ogmios/latestBlock.ts` |

| Actions | In the code |
|---|---|
| `Mint`, `Reorganize` | the network: blocks with larger slots, transactions at most once, forks of at most `K` blocks |
| `SkipBlock`, `BeginBlock`, `TakeTx`, `HandleGovernance`, `HandleVotes`, `Commit` | `rollForward` and `insertPraosBlock`, statement group by statement group |
| `BeginRollback`, `RollBackToPoint` | `rollBackward`: memory, then database |
| `ReadResumePoint`, `Resume`, `ResumeFails` | `initializeClientsFn` of the aggregator and `startSync` |
| `Crash`, `ConnectionLost` | the process exits or dies; the socket closes |

A handler (`processGovernance`, one `insertPollVote`) is one step: Prisma runs the
statements of an interactive transaction one at a time on one connection, and the
handlers of one transaction touch rows that do not depend on each other's partial
work. All orders of the handlers are explored.

PostgreSQL refuses every statement after a failed one in a transaction, and a
`COMMIT` then rolls back without reporting an error. The handlers catch the
refusals (`sync/governanceOp.ts:54`, `sync/votesSync.ts:99`), so `Commit` of an
aborted transaction leaves `db` as it was and the aggregator goes on. Two statements
can fail: that of a vote at the unique index, and that of a governance operation at
a text. What is assumed of PostgreSQL and Prisma is that `COMMIT` answers like this
and that U+0000 is refused; the run `aggregator_lost_block` depends on the former.

The block whose insertion throws because it is already there has no action: the
process exits, which is `Crash`. In `Aggregator` a connection is lost only while no
message is being handled. The close callback of `ogmios/ogmios.ts:14` may also come
in the middle of one: nothing stops the handler, and the initializer loop starts
another synchronization beside it. `AggregatorReconnect` adds that case for the last
step of an insertion: `left` is the insertion that outlived its connection, whose
rows nobody sees until `FinishLeft` commits them. The properties of `Aggregator` do
not hold there (section 6), and neither do the theorems about them speak of it. The
clients and the attempts to get them back are those of `OgmiosInit`.

### GovernanceIndex and the refinement

`TablesOf(B)` says what the tables contain for a set of blocks `B`, each row
justified by its place on chain, without mentioning any order of execution. The
abstract steps add one later block or keep a prefix. `ImplementsIndex` is the
specification of that module with the mapping `indexed <- ` blocks in the
database, `tables <- ` the committed tables without ids and verdicts. It is a
checked property: every commit, rollback, crash and restart must be one of the two
abstract steps or invisible.

### Api

Queries are operators on `db`, which is what a single SQL statement sees.
`GetProposal`, `ReadVotes`, `ReadChoices`, `Respond` are the separate statements
of Prisma's nested select. The list of `getProposals` consists of several statements
too and is taken from one state: `Listable` is about its first statement, which
selects the proposals. `Verify` writes any verdict on any unverified vote; the real
job chooses more carefully, so whatever holds here holds for it. The texts of a
proposal's choices are taken to be distinct: `Object.fromEntries` would keep only the
last of two equal ones. The expected answers are defined on the chain (`OnChain`,
`LastCast`, `Created`, `ClosingsOf`), not on the tables. The last section of the
module states what the documentation says of answers and the queries do not give;
`FeesAreThosePaid` and `ResultsCountLastVotes` are runs, the rest is in section 6.

### VoteValidation

| Variables | In the system |
|---|---|
| `height`, `spent` | the best block, and the slot in which each output holding the token is spent |
| `votes`, `nextId` | the table of votes and the sequence of its ids |
| `job`, `known`, `waiting`, `batch` | where the loop is, the best block it read, the votes it read, those of the current poll |
| `inFlight` | verifications under way: the vote as read, the power to compare it with, and whether `Promise.all` is still awaited |
| `fetching`, `cache` | running calls of `fetchUtxos` and `userWalletsUtxosCache` |
| `highest`, `deepest`, `doubtful` | history, for stating properties |

| Actions | In the code |
|---|---|
| `AddBlock`, `Rollback` | what the aggregator does to the table of votes meanwhile |
| `ReadBestBlock`, `SelectVotes`, `TakePoll`, `TakeChunk`, `FinishJob` | a round of `voteValidationLoop`: best block, `findMany`, polls one by one, chunks of `VOTE_VERIFICATION_CHUNK_SIZE` |
| `AnswerUnspent`, `AnswerSpent` | the two requests of `fetchUtxos`, answered from any block Kupo has reached |
| `WriteVerdict`, `UpdateMissing` | `prisma.vote.update` of a vote that is there, or was rolled back |
| `UpdateFails`, `RequestFails`, `CrashJob`, `Expire` | an unavailable database or Kupo, a restart, the age limit of the cache |

The first verification to fail ends the round, and with it the wait for the rest
of the chunk; what that rest has under way continues (`awaited` becomes FALSE) and
may still write verdicts while a later round verifies the same votes. Reading the
best block and selecting votes are separate steps, because the chain may move
between them.

What is assumed of code outside the repository: `cacheResults` shares a running
call between callers of one key and does not keep a failed one; Kupo's
`created_before`, `unspent` and `spent_after` select the outputs their names say,
so that together they are those held at the snapshot. A height is a slot. The poll's
snapshot may lie anywhere, also after its start: `README.md` of the repository says
it is before, and neither the SDK nor the aggregator checks it.

### OgmiosInit

| Variables | In the system |
|---|---|
| `mode` | `config.MODE`, which selects `Steps`, the awaited calls of `initializeClientsFn`, and `OwnKinds`, the clients `isReadyFn` asks for and the exit handler shuts down |
| `loop`, `at`, `context` | where `start()` and the loop are, the call awaited, the connection of the attempt |
| `socket` | every connection opened so far |
| `client` | the module variables of the three client modules: the connection each was created on |
| `sync` | the chain-sync handler of each connection: off, waiting for a block, busy with one |
| `signal` | the handler of `cleanup.ts`: the client being shut down |
| `leaked`, `orphaned` | history: a failed attempt left its connection open; a client was installed after its connection closed |

| Actions | In the code |
|---|---|
| `Migrate`, `MigrationFails` | `ensureDBMigrated` of `index.ts` |
| `CheckReady`, `WakeUp`, `Connect`, `CreateClient`, `ReadPoint`, `StartSync` | `ogmiosClientInitializerLoop` and one await each of `initializeClientsFn` |
| `AttemptFails`, `StartSyncThrows` | the `catch` of the loop |
| `ConnectionCloses` | the close callback: `closeClientsFn`, at any await |
| `ReceiveBlock`, `FinishBlock` | a block handler, which goes on after its connection closed |
| `Signal`, `ShutDownClient`, `ShutdownRejected`, `Exit` | `onExit` |
| `Crash` | the socket's error handler throws, a block cannot be inserted, the host fails |

The Ogmios library is external: a client is created on the context it is given
some time after the call, or the call is rejected, and `shutdown` closes the
connection, or is rejected where that is closed already.

### LatestBlock

| Variables | In the system |
|---|---|
| `rows`, `inserted`, `rollbacks` | the table `Block`; a block is the number of its insertion |
| `notifications` | what the trigger sent on the listening connection |
| `latest` | `latestBlock` in memory |
| `stage` | how far `start()` of `index.ts` is: first read, connecting, serving |
| `timer` | lodash's debounce: idle, running, or running with a trailing call owed |
| `reads` | running calls of `setLatestBlockFromDb`, each asked or answered |
| `top`, `missed`, `overtaken`, `emptied` | history, in versions of the table: the last one heard of; a change fell between first read and `LISTEN`; the answer applied last was older than something heard of; the table has been empty since the start |

| Actions | In the code |
|---|---|
| `InsertBlock`, `RollBack` | the aggregator, and the trigger of the migration |
| `AnswerRead`, `ApplyRead` | the query of `setLatestBlockFromDb`, and what follows its await |
| `Listen` | `initPgListen` |
| `HandleInsert`, `HandleDelete`, `HandleDeleteAgain`, `TrailingEdge`, `TimerExpires` | the notification handler, with both edges of the debounce |
| `Crash` | the server is started again |

Reads go over several connections of the pool and keep no order. A connection that
pg-listen opens anew by itself is not modelled.

### Metadata

A datum is a record with one field that names its kind, as in Ogmios' detailed
schema; JavaScript objects are functions. A parser that throws gives the empty set,
one that returns a value the set of it, so that a decoder is a comprehension over
what its parsers give and throws when one of them does. A text is the sequence of
its pieces of 64 bytes: `splitMetadatumString` lists them, `parseString` takes a
string or a list. Fields that are only stored have to parse and are dropped.
`parsePosixTime` uses `Number()`, which reads emptiness as zero; that it also reads
digits inside bytes or a list is left out.

### GovernanceApp

| Variables | In the system |
|---|---|
| `session`, `plans` | what each connected wallet is doing: idle, with a plan of the SDK, with a built transaction; and the connector's cache |
| `page` | the proposals it fetched last, with the user's own choice |
| `ledger`, `mempool`, `chain` | unspent outputs, submitted transactions, those in blocks |
| `indexed`, `db` | how far the aggregator is, and its tables |
| `now` | time; the clock of a session is `ClockError` ahead of it, and its page shows that clock or the slot before |

| Actions | In the code |
|---|---|
| `Refresh` | the queries of `Proposals.tsx` |
| `HandleCreateProposal`, `HandleCastVote`, `HandleCancelProposal`, `HandleConcludeProposal` | the handlers of the example, with the conditions under which the page offers them, and the planning half of the SDK's `buildCreateProposal`, `buildCastVote`, `buildCancelProposal`, `buildConcludeProposal` (`sdk/src/actions`) |
| `BuildTx`, `BuildFails` | `buildTx` of `sdk/src/helpers/actions.ts`: a second reading of the wallet, coin selection, and the validity interval, which starts `Backdate` before the session's clock (`sdk/src/helpers/validityInterval.ts:21`) |
| `SignAndSubmit`, `NotSubmitted` | `signTx`, `submitTx`, and the user's refusal |
| `Include`, `Tick` | the network |
| `Index` | the aggregator decodes a transaction (`DepositOf`, `ManageOf`, `DecodeVotes`) and runs the handlers of `GovernanceDb` |

The wallet, its coin selection and the ledger are external. A wallet may answer
with what it holds or with what it answered before, which is more than the
connector's one-minute cache can do. Coin selection adds any few UTxOs it is
allowed to. Ada is a single bit, whether a plan pays for itself. A block holds one
transaction and is indexed in one step, as `Aggregator` has the steps. Verdicts,
voting power and the numbers in a conclusion are left out. `ClockError` may be any
integer, for each session its own; a clock that is set while the application runs is
not modelled.

## 3. Runs

| Run | Shows | Bounds |
|---|---|---|
| `aggregator_lifecycle` | blocks synced after every message; vote ids in chain order; resuming always works; a proposal closed at most once, among refused transactions; rollbacks exact; refinement; the aggregator catches up and stays there | 4 blocks, 4 slots, forks of 2, resume depth 2, 1 failure |
| `aggregator_forks` | nothing of an abandoned fork is kept, ids follow slots, the latest block is on the chain, and refinement, where forks (3) exceed the resume depth (1), with blocks of other eras, without transactions, and with aborted database transactions | 4 blocks, 4 slots, 1 failure |
| `api_tally` | tallies, own votes, counts and lists agree with the chain and with each other | 3 blocks, 3 slots, forks of 1, 1 verdict |
| `vote_validation` | verdicts right for the owner at the snapshot of the vote's poll; verdicts find their row; every old vote is judged | 3 blocks, 3 votes for 2 polls, 1 rollback, 1 failure, age limit 1, chunks of 2, Kupo 1 block behind |
| `ogmios_init` | one synchronization at most; a lost connection is noticed; connected for good after the last failure; a signal ends the process | both modes, 6 connections, 3 failures |
| `latest_block` | the server settles on the newest block; it has none only if there was none | 4 blocks, 3 rollbacks, 3 reads at a time, 1 restart |
| `governance_app` | created proposals are listed with their collateral; closings and votes take the effect that was meant; closings spend no collateral they could know of; a conclusion precedes the end of its poll by less than the backdating | a DAO and a user, 3 actions begun, 3 transactions in blocks, 3 slots, transactions backdated by 1 slot and valid for 2, the DAO's clock 1 slot ahead, 1 UTxO added by coin selection |
| `aggregator_lost_block`, `ogmios_retry`, `api_fees`, `api_results`, `vote_race` | what the code does differs from what it says (section 6) | 1 to 3 blocks; 4 connections, 1 failure |

**Aggregator and API.** Four blocks are enough for a proposal to be opened, joined,
voted for and closed in different blocks, for a fork to replace the upper half of
that, and for the resume point to lie below, at and above the fork. One failure is
enough because each failure leaves the process in the same state, `down`, with the
committed database; what differs is only that database, and a failure can strike
in every reachable one. `aggregator_lifecycle` takes `K = ResumeDepth`: the
hypothesis under which `NeverStuck` holds. The code skips 50 blocks.
`aggregator_forks` has blocks that are lost as well as forks, so it states the half of
`BlocksSynced` that no refused transaction breaks, `NoForeignBlock`. In `api_tally`
a proposal that joins a poll is closed in the block of its creation, later or
never, votes are repeated and abstain, and one verdict comes at any moment, also
between two statements of a request.

**Vote validation.** `vote_validation` has one rollback of any depth:
`UpdatesSucceed` is about rollbacks up to `AgeLimit + 1`, here 2, and the third
block makes the deeper one possible too. Two votes of a poll in one chunk, one of
which lists no outputs and needs no request, are enough for a failure of one to
leave the other running; two polls of one owner for two keys of the cache.
`SettledVerdictsCorrect` leaves out the votes whose key Kupo answered about before
it had seen the snapshot, or from two blocks between which an output of the owner
was spent, and those whose snapshot was itself rolled back (`doubtful`);
`vote_race` shows what happens to them, and so do two of the configurations of
section 6.

**Clients.** Three failures allow an attempt to fail after its first client, the
connection it left behind to close under the next attempt, and one more after that.
The number of connections exceeds what three failures and a shutdown can use up
(`OgmiosInitAssumption`), so that it never stands in the way of a retry. Each
property names its exception, and the code falls into each of them:

* `OneSynchronization` excepts `leaked`: a failed attempt neither closes its
  connection nor drops its first client, and when that connection closes later the
  callback drops the clients of another one, which goes on delivering blocks.
* `ClientsAreConnected`, and what rests on it, excepts `orphaned`: the connection
  closed while a client was being created, and the callback came too early for it.
  The loop takes such a client for ready.
* `EventuallyConnected` excepts `NeverStarted`, the subject of `ogmios_retry`.

**Latest block.** With three reads the first read, one of the leading and one of
the trailing edge can overtake each other; three rollbacks fill a debounce window
and leave one after it. `SettlesOnNewest` and `EventuallySettles` except `missed`
and `overtaken`; a block later the server is right again.

**Application.** Three transactions are enough for a proposal to be created, voted
for and closed, for two proposals one of which is closed, and for two closings of
one proposal planned from the same reading. The DAO's wallet holds tokens of its
own, so that its change goes to the address of the collateral. The poll runs over
the slots 1 and 2 of 3, and a transaction is valid from one slot before the clock to
one after it, so that a vote offered in time may be late, and a conclusion built with
the DAO's clock may be in a block before the end. `CreatedProposalsAreListed` is about proposals
whose dates are in order, and `OrphansAreNew` says exactly which collateral a
closing may spend (section 6).

`CHECK_DEADLOCK FALSE` is given wherever the system really stops: the network mints
no more blocks at the bound and a synchronized aggregator, a settled server or an
idle wallet then waits for ever, and a process that got a signal has ended.

**Fairness.** `FairSpec` of `Aggregator` asks weak fairness of `Sync`, the
disjunction of all steps of the aggregator and of the node's answers: the event
loop keeps running, Ogmios keeps answering, and the container is started again
after a crash (`docker/docker-compose.yml`, `restart: unless-stopped`). New blocks,
forks and failures are not owed. Under it `EventuallySynced` says that the
aggregator ends up with the whole chain.

`FairValidation` asks weak fairness of the loop, of verifications and of Kupo's
answers: the loop comes round every minute. It takes the database to be synced
whenever a round starts, as a round is skipped while it is not. A failure is never
owed and there are at most `MaxFailures`: a wallet for which every request fails
would stop each round at its poll, and nothing else is claimed for that case.

`FairSpec` of `OgmiosInit` asks weak fairness of the loop (its timer expires, each
awaited call is answered or throws), of a block handler at work, of the calls of
the exit handler and of the exit. Failures, signals and further blocks are not
owed. `FairSpec` of `LatestBlock` asks it of the event loop's handlers and timer,
and of the answer to each read; inserts, rollbacks and restarts are not owed, nor
are there more of them than the bounds. `GovernanceApp` states safety only: users
owe no action.

## 4. Proofs

For all constants that satisfy the named assumptions of the modules
(`TxsAssumption`, `BodiesAssumption`, `AggregatorAssumption`,
`ValidationAssumption`, `OgmiosInitAssumption`, `LatestBlockAssumption`,
`AppAssumption`):

| Module | Theorem | Statement |
|---|---|---|
| `AggregatorProofs` | `Invariance`, `LinkInvariance`, `LedgerInvariance`, `DepthInvariance`, `VoteInvariance` | the five layers of the inductive invariant |
| | `TypeCorrect` | `Spec => []TypeOK` |
| | `BlockIdsCorrect` | `Spec => []BlockIdsFollowSlots` |
| | `RollbackCorrect` | `Spec => RollbackIsExact` |
| | `LatestBlockCorrect` | `Spec => []LatestBlockOnChain` |
| | `NoForeignBlockCorrect` | `Spec => []NoForeignBlock` |
| | `VoteIdsCorrect` | `Spec => []VoteIdsFollowChain` |
| | `NeverStuckCorrect` | `Spec => []NeverStuck`, if `K <= ResumeDepth` |
| | `BlocksSyncedCorrect` | `Spec => []BlocksSynced`, if `OneVotePerProposal` and `TextsStorable` |
| `AggregatorIndexProofs` | `IndexInvariance` | the tables are what the indexed blocks justify |
| | `ImplementsIndexCorrect` | `Spec => ImplementsIndex`: `Aggregator` implements `GovernanceIndex` |
| | `ClosedOnceCorrect` | `Spec => []ClosedAtMostOnce` |
| `ApiProofs` | `ApiInvariance` | the invariant of the aggregator beside verdicts and requests |
| | `TallyCorrect` | `ApiSpec => []TallyIsLastVotes` |
| | `UserVotesCorrect` | `ApiSpec => []UserVotesMatchTally` |
| | `ActiveCorrect` | `ApiSpec => []ActiveUntilClosed` |
| | `VotableCorrect` | `ApiSpec => []VotableUntilVoted` |
| | `ListedCorrect` | `ApiSpec => []ListedUntilCancelled` |
| `VoteValidationProofs` | `ValidationTypeCorrect` | `ValidationSpec => []ValidationTypeOK` |
| | `UpdatesAreSafe` | `ValidationSpec => []UpdatesSucceed` |
| | `VerdictsSettleRight` | `ValidationSpec => []SettledVerdictsCorrect` |
| `LatestBlockProofs` | `Invariance` | `Spec => []IInv` |
| | `ServerTypeCorrect` | `Spec => []LatestBlockTypeOK` |
| | `SettlesCorrect` | `Spec => []SettlesOnNewest` |
| | `UnknownCorrect` | `Spec => []UnknownOnlyIfEmptied` |
| `OgmiosInitProofs` | `Invariance` | `Spec => []IInv` |
| | `OgmiosTypeCorrect` | `Spec => []OgmiosTypeOK` |
| | `SynchronizationCorrect` | `Spec => []OneSynchronization` |
| | `ClientsCorrect` | `Spec => []ClientsAreConnected` |
| `GovernanceAppProofs` | `ProposalRoundTrip`, `NewPollRoundTrip`, `AssignedPollRoundTrip`, `AddProposalRoundTrip` | a proposal and its poll decode to what was encoded |
| | `ConcludeRoundTrip`, `CancelRoundTrip`, `VoteRoundTrip` | so do a conclusion, a cancellation and a vote |
| | `AppInvariance` | `Spec => []AppInv` |
| | `ProposalsListed` | `Spec => []CreatedProposalsAreListed` |
| | `ClosingsCorrect` | `Spec => []ClosingsTakeEffect` |
| | `VotesInTime` | `Spec => []VotesCountInTime` |
| | `ConclusionsCorrect` | `Spec => []ConclusionsNearEnd` |
| | `OrphansCorrect` | `Spec => []OrphansAreNew`, if `CollateralQuantity > 0` |

Hypotheses beyond the assumptions of the modules, where a theorem has one:

* `K <= ResumeDepth` (`NeverStuckCorrect`): a fork is not deeper than the blocks the
  aggregator skips when it offers points to resume from. The code skips 50.
* `OneVotePerProposal` (`BlocksSyncedCorrect`): no transaction has
  two vote entries that name one proposal. The unique index of `Vote` is on the
  transaction and the proposal; without the hypothesis a block is lost, as the run
  `aggregator_lost_block` shows.
* `TextsStorable` (`BlocksSyncedCorrect`): PostgreSQL can store the texts of every
  transaction. With U+0000 in the name of a proposal a block is lost in the same way.
  Nothing in the code checks either hypothesis: both are about what others put on the
  chain.
* `CollateralQuantity > 0` (`OrphansCorrect`): the configuration allows 0
  (`config.ts:62`), but an output without tokens is not taken for a possible
  collateral (`sdk/src/actions/helpers.ts:4`), and coin selection may spend it.
* `HashAssumption` (of `GovernanceDb`): a vote does not name the poll or the
  proposal its own transaction creates, as the hash of a transaction covers its
  metadata. The order in which `processTransaction` runs its two handlers would
  otherwise show.

None of the properties is inductive.

**Aggregator.** `IInv` adds to the types

* `DbOK(db)` and `DbOK(work)`: block ids are ordered like slots and every row's
  slot is that of a block; the foreign keys point to rows of the same or an earlier
  slot. This is why no cascade of a rollback can reach a row that should stay.
* `ChainOK`: slots increase along the node's chain.
* `CursorOK`: when the aggregator waits for a block, no block in the database is
  later than the last one sent; an open transaction has added exactly one later
  block. This is why the next id is given to the largest slot. After a crash or
  while resuming nothing is known about the chain, and the rollback that follows
  every resumption establishes it again.

The argument goes action by action; `DeleteBlocksAfter` and `InsertBlock` have
lemmas of their own, the handlers share one lemma each. The theorem on rollbacks
is an action property: it follows from the foreign keys in `DbOK(db)`.

Four more layers rest on it.

* `LinkInv` relates the database to the node's chain. `TransactionOK` says that the
  blocks of an open transaction are the committed ones and the current one;
  `Linked`, that below a stored block of the chain every stored block is of the chain;
  `Agrees`, that while the client follows the node, so is every stored block up to the
  last one sent; `PointOK`, that a client resumes from a stored block and that a
  rollback does not go beyond the cursor. `LatestBlockOnChain` is part of it.
* `LedgerInv`: the ledger's rules (a hash occurs once, an output is spent once) hold
  of the chain, so of the blocks indexed.
* `DepthInv`: at most `K` indexed blocks are not on the chain. With
  `K <= ResumeDepth`, a point offered after skipping `ResumeDepth` blocks is.
* `VoteInv`: every vote comes from an entry of an indexed block (`VoteOrigin`), ids
  are ordered like block, transaction and entry (`VotesOrdered`), and the handlers
  still to run come later than all votes there are (`VotesTaken`).

`BlocksSynced` then needs only that no block is missing between two that are there
(`SyncInv`): a block is skipped only when a statement failed, which
`OneVotePerProposal` and `TextsStorable` exclude. `NoForeignBlock` needs neither.

**Refinement.** `GovernanceIndex` defines the tables from the set of indexed blocks.
`Holds` says the same of a table of `Aggregator` in the middle of a block, when only
the handlers that are done have left their rows: `here` is the place being handled
and `running` the handlers not done. `IndexInv` asserts it of the open transaction
and, with every handler done, of what is committed. One lemma per handler adds the
rows of one place; one for rollbacks shows that the tables of an initial part of the
blocks (`Initial`) are what the cascades keep. `ClosedAtMostOnce` follows from
`Holds` and `LedgerInv`: the two closings would spend one output.

**Queries.** `ApiInv` joins the layers above, which a verdict preserves as it
changes one column none of them mentions, with `RowsInv`, the keys of votes (a vote
is known by its proposal and id, and by its proposal and transaction) and that the
tables are finite. The
queries' sums are compared by `SumTheorems`: two sums are equal when a bijection
matches their terms or when one is split by another set. The library's induction
theorems take an operator as a parameter, which the provers cannot instantiate; the
lemmas of `SumTheorems` take a smallest counterexample instead, a subset of a finite
set none of whose own subsets is one (`SmallestSubset`).

**Vote validation.** `DeepInv` says of every vote the job holds, selected or in
flight, that it is more than `AgeLimit` blocks below the highest block there ever
was, and that its row is there unless a rollback went deeper than `AgeLimit + 1`
from that block. Depth is counted from the highest block because the best block
the job read may be gone when the votes are selected. It is the strict comparison
of `OldEnough` that makes the bound `AgeLimit + 1`. `VerdictInv` is about what the job
believes: `CachedRight` says that a cached count of an address is what it held at
the snapshot unless the key is doubtful, `FetchedRight` and `VerifiedRight` the same
of an answer in flight and of a finished verification, `JudgedRight` of a verdict in
the table, all but those in doubt, and `IdsInv` that rows and held votes of one id are
about one claim, so that a verdict cannot fall on the wrong row after a rollback.

**Latest block.** `IInv` says what is still on its way to correct the block in
memory: `Settled` asserts the property already when nothing is coming
(`NothingComing`), that is no notification, no trailing edge, no unanswered read
and no answer from the present version of the table. `NotificationsOK` says that
the last notification is about the last change, `ReadsOK` that an answer of the
present version is the newest block, `StartOK` that nothing happens before
`LISTEN`, and `EmptiedOK` what an unknown block means.

**Clients.** `IInv` adds to the types and the property on clients `AttemptOK`, on
the attempt under way, and `OnlyOne`: as long as no attempt has left its connection
behind, the only connection that may be open is that of the latest attempt, and
the clients created so far are in place, so that the loop does not open a second.
That a client is kept whatever connection it belongs to makes the proof go through
the clients and not through the connection.

**Metadata.** The round trips rest on lemmas on each parser and on reading a field
from an encoded record (`FieldRead`, `FieldMissing`). They hold for every text and
every number, for a proposal with or without an amount, with at least one choice,
for a poll whose end is not before its start, and for votes with any choices from
abstention up.

**The way of an action.** `AppInv` has one part for each thing an action relies on
between two steps of its session:

* `ReadingOK`: what the wallet answered, now or before, has every output of the
  wallet that was there then and is still unspent.
* `PageOK`: what a page shows of a proposal and its poll is in the tables, however
  old the page. Whether the proposal is still open is not part of it.
* `Founded`: a plan, a transaction or a block has the metadata of its intent
  (`MeansCreate`, `MeansClose`, `MeansVote`); a closing spends the collateral of a
  proposal in the tables, and what concludes it is not valid `Backdate` before the
  end of its poll (`ClosesKnown`); a vote is for a choice of a proposal in its poll
  (`VotesForKnown`).
* `PlanOK`, `TxOK`: no collateral that was there at the first reading, but for the
  closing's own, is among its inputs (`Foreign`).
* `LedgerOK`, `ChainOK`: an unspent output is that of a block or of the start, and
  every block was founded when it was made.
* `RowsOK`: rows are known by the hashes of indexed transactions, a vote is not
  later than the end of its poll, and a conclusion is, but for the backdating.

What sessions, pages, transactions and blocks rest on is kept for one reason, with a
lemma for each: the world a session has looked at only grows (`Grows`). Proposals and polls are added and not
changed, time and the chain go on, and no output appears that was spent. So a step
of one session, of the network or of the aggregator does no harm to what another
session has in hand; only the step's own session has to be looked at. For `Index`
the round trips of the metadata say what operation the aggregator reads
(`ManageOfCreate`, `ManageOfClose`), and one lemma per intent what rows it adds
(`Adds`) and that they are those the user is owed (`Delivers`). That a new hash is
that of no earlier row keeps older votes and proposals as they were.
`ConclusionsNearEnd` follows from `RowsOK`. It holds for every `ClockError`: the page
offers a conclusion after the end by its clock, and the transaction is valid from
`Backdate` before that same clock. That no vote follows a conclusion holds only if no
clock is ahead by as much as a slot that can be backdated, and is not claimed. There are no rollbacks in this composition; those of the
tables are the subject of `Aggregator`.

Checked by TLC only: liveness (`EventuallySynced`, `EveryVoteJudged`,
`EventuallyConnected`, `SignalEnds`, `EventuallySettles`), which the prover does not
reach. `AppInv` itself was checked by TLC on the
constants of `governance_app` before it was proved.

## 5. Plan

1. *Done*: `GovernanceDb`, `GovernanceIndex`, `Aggregator`, `AggregatorIndex`,
   `AggregatorProofs`, `Api`.
2. *Done*: `VoteValidation`, `VoteValidationProofs`.
3. *Done*: `OgmiosInit`, `OgmiosInitProofs`.
4. *Done*: `LatestBlock`, `LatestBlockProofs`.
5. *Done*: `Metadata` and its round trips.
6. *Done*: `GovernanceApp`, on top of `Metadata` and `GovernanceDb`.
7. *Done*: the remaining properties of the aggregator, the refinement and the
   queries: `AggregatorIndexProofs`, `ApiProofs`, `SumTheorems`.
8. *Done*: proofs about the application: `GovernanceAppProofs`.
9. Every safety property of a passing run is a theorem now; liveness stays with TLC. What
   is left to state is how the compositions fit: that what `GovernanceApp` calls an
   indexed block is a committed one of `Aggregator`, rollbacks included.

## 6. Where the code differs from what it says

With a run that shows it:

* A transaction with votes of two users for one proposal loses the block it is in
  (`aggregator_lost_block`). A text with U+0000 in it does too.
* A failed start of syncing is not retried while the clients exist
  (`ogmios_retry`).
* The results of `POST /proposal` count replaced votes (`api_results`).
* `POST /paidFees` does not count the fee of a transaction that closes a proposal
  (`api_fees`), although the fees promised are those paid to "create, cancel, conclude"
  (`README.md:316`): states refer to the transaction of the creation
  (`server/routes/paidFees.ts:29`), whose fee is counted again for each of them. A
  transaction that votes for two proposals is counted twice (line 36).
* An output spent between the two requests for a wallet counts twice in its voting
  power (`vote_race`).

With a configuration beside the runs, in which TLC finds the property violated:

| Configuration, module | Property | What happens |
|---|---|---|
| `AggregatorRefusedText.cfg`, `MCAggregator` | `BlocksSynced` | the name of a proposal, or the reason of a cancellation, holds U+0000: the statement is refused, the error is caught (`sync/governanceOp.ts:54`) and the block is lost |
| `AggregatorReconnect.cfg`, `MCAggregatorReconnect` | `NoRevertedBlock` | the connection closes while a block is being inserted; if the loop reconnects within the seconds the insertion may last, resuming rolls back without seeing the open transaction, which then commits a block of an abandoned fork, although syncing starts behind the last block because that "might have been reverted" (`ogmios/ogmiosInitParams.ts:72`) |
| `ApiSameBlock.cfg`, `MCApi` | `ClosedAreNotOngoing` | a proposal closed in the block of its creation is in the "Count of ongoing proposals" (`README.md:253`), as one of its two states of that slot is `AVAILABLE` (`server/routes/activeProposalsCount.ts:13`); `ActiveUntilClosed` and `ListedUntilCancelled` speak of later blocks |
| `ApiTornAnswer.cfg`, `MCApi` | `AnswersAddUp` | a vote or a verdict comes between two statements of `POST /proposal`, whose total is then not the sum of its choices and abstentions, although it is said to include those (`sdk/src/types.ts:250`) |
| `LatestBlockOvertaken.cfg`, `LatestBlock` | `SetCorrectlyAtTheEnd` | the read that follows a deletion is overtaken by the notification of the next block, and its older answer stays until a block later; the trailing edge is there to "set it correctly at the end" (`db/initPgListen.ts:23`) |
| `AppFastClock.cfg`, `MCGovernanceApp` | `NoVoteAfterConclusion` | the DAO's clock is ahead; its conclusion is valid ten minutes back (`sdk/src/helpers/validityInterval.ts:21`), gets into a block while the poll runs, and votes after the "final tally" (`sdk/README.md:139`) count |
| `VoteLag.cfg`, `MCVoteValidation` | `HoldersAreVerified` | Kupo has not reached the snapshot when it is asked: a vote that claims what its owner holds is judged invalid, and the sum stays cached for five days |
| `VoteSnapshot.cfg`, `MCVoteValidation` | `VerdictsCorrect` | the snapshot is later than the votes, which nothing checks although it is "required to happen before the start of the voting timeframe" (`README.md:102`): a vote is verified with tokens that are gone at the snapshot |

Read off the model, with the exception stated in a property:

* "Those are proposals and should be spent only when rejecting/evaluating"
  (`sdk/src/actions/buildCancelProposal.ts:75`): a vote or a proposal made from the
  DAO's own wallet keeps no UTxO out, and a closing keeps out only those of its
  first reading, so that a proposal which arrives before the second may lose its
  collateral and can then no longer be closed. `OrphansAreNew` is the exact bound
  for closings.
* The example says of a vote that it will be added once its transaction is confirmed
  (`frontend/react/example/README.md:69`); a vote that is confirmed after the end of
  the poll is not: `VotesCountInTime`.
* The form of a proposal compares no dates: one whose poll ends before it starts is
  paid for and never listed. `CreatedProposalsAreListed` excepts it.

## 7. Not modelled

The HTTP server, its routes and validation of requests, configuration, the SDK's
queries and the layout of the example are pure input and output. The votes
distribution multiplies a count of tokens by one. The health answer compares three
slots. The hook that reads a balance, with its guard against a late answer
(`frontend/react/example/src/helpers/promise.ts:21`), connecting and disconnecting
wallets, the numbers a page writes into a conclusion
(`frontend/react/example/src/features/admin/ConcludeProposalModal.tsx:66`) and a
connection pg-listen opens anew are left out. Addresses, texts, URIs and requested
amounts are stored and returned unchanged. An error of the database outside the
handlers, of the block's own row, of a transaction's row or of Prisma's transaction
timeout, ends in `process.exit`, which is `Crash`; one inside them is caught, and of
those the unique index of votes and a text PostgreSQL cannot store are modelled: a
number too large for its column is left out. Of the deployment only the restart of the containers matters, and it is in
the fairness of `Aggregator`.
