----------------------------- MODULE Aggregator -----------------------------
(***************************************************************************)
(* The aggregator: backend/src/ogmios/chainSyncClient.ts driving           *)
(* backend/src/sync against a Cardano node that grows, forks and           *)
(* reorganizes its chain, with crashes and reconnections.                  *)
(*                                                                         *)
(* The node side follows the chain-sync protocol: it keeps, for the        *)
(* connected client, how much of its chain it has sent; after a            *)
(* reorganization below that point, or after an intersection was found,    *)
(* its next answer is a rollback.  A block's hash is the block itself.     *)
(***************************************************************************)
EXTENDS GovernanceDb

CONSTANTS
  Bodies,         \* what a block may contain
  MaxBlocks,      \* bound: blocks the network ever mints
  MaxSlot,        \* bound: last slot
  K,              \* how many blocks of its chain the node may ever abandon
  ResumeDepth,    \* blocks skipped when resuming, 50 in the code
  MaxFailures     \* bound: crashes and lost connections

ASSUME AggregatorAssumption ==
  /\ MaxBlocks \in Nat /\ MaxSlot \in Nat /\ K \in Nat
  /\ ResumeDepth \in Nat /\ MaxFailures \in Nat
  /\ Bodies \subseteq Seq(Txs) \cup {NotPraos, NoTransactions}

VARIABLES
  chain,       \* the node's chain, after the point syncing starts from
  minted,      \* number of blocks ever minted
  immutable,   \* length of the prefix the node will never abandon
  sent,        \* number of blocks of chain sent to the client
  mustRollBack,\* the node's next answer is a rollback to chain[sent]
  pc,          \* what the aggregator is doing
  point,       \* the point being resumed from or rolled back to
  current,     \* the block being inserted
  at,          \* transactions of it taken up so far
  todo,        \* handlers of the current transaction still running
  work,        \* the database as the open transaction sees it
  aborted,     \* a statement of the open transaction has failed
  db,          \* the committed database
  latestBlock, \* in memory: ogmios/latestBlock.ts
  failures     \* crashes and lost connections so far

nodeVars == <<chain, minted, immutable>>
linkVars == <<sent, mustRollBack>>
txVars   == <<current, at, todo, work, aborted>>
vars == <<chain, minted, immutable, sent, mustRollBack, pc, point, current, at,
          todo, work, aborted, db, latestBlock, failures>>

Block == [n : Nat, slot : Nat, body : Bodies \cup {<<>>}]

\* The point of SYNC_EARLIEST_SLOT and SYNC_EARLIEST_HASH.
Genesis == [n |-> 0, slot |-> 0, body |-> <<>>]
NoBlock == [n |-> 0, slot |-> -1, body |-> <<>>]

PointAt(i) == IF i = 0 THEN Genesis ELSE chain[i]

Larger(a, b) == IF a >= b THEN a ELSE b
-----------------------------------------------------------------------------
(***************************************************************************)
(* The node.  Its ledger accepts a transaction once, and lets the output   *)
(* that holds a proposal's collateral be spent once, after its creation.   *)
(***************************************************************************)
LedgerOrder(blocks) ==
  UNION {{<<i, j>> : j \in DOMAIN TxsOf(blocks[i])} : i \in DOMAIN blocks}

Earlier(p, q) == p[1] < q[1] \/ (p[1] = q[1] /\ p[2] < q[2])

LedgerValid(blocks) ==
  LET P == LedgerOrder(blocks)
      Tx(p) == TxsOf(blocks[p[1]])[p[2]]
      Spent(p) == IF Tx(p).spends = "inputs" THEN Tx(p).inputs ELSE {}
  IN  \A p \in P :
        /\ \A q \in P : Earlier(q, p) => Tx(q).hash # Tx(p).hash /\ Spent(q) \cap Spent(p) = {}
        /\ \A x \in Spent(p) : \E q \in P : /\ Earlier(q, p) /\ Tx(q).hash = x.tx
                                            /\ Tx(q).spends = "inputs"

Mint(body, slot) ==
  LET longer == Append(chain, [n |-> minted + 1, slot |-> slot, body |-> body])
  IN  /\ minted < MaxBlocks
      /\ PointAt(Len(chain)).slot < slot
      /\ LedgerValid(longer)
      /\ chain' = longer
      /\ minted' = minted + 1
      /\ immutable' = Larger(immutable, Len(longer) - K)
      /\ UNCHANGED <<linkVars, pc, point, txVars, db, latestBlock, failures>>

\* The node abandons the blocks after the first i.
Reorganize(i) ==
  /\ chain' = SubSeq(chain, 1, i)
  /\ IF i < sent THEN sent' = i /\ mustRollBack' = TRUE
                 ELSE UNCHANGED linkVars
  /\ UNCHANGED <<minted, immutable, pc, point, txVars, db, latestBlock, failures>>
-----------------------------------------------------------------------------
\* What the next answer of the node is about, when the client waits for one.
Awaits(rollback) == pc = "idle" /\ mustRollBack = rollback

NextBlock == chain[sent + 1]

\* A block that is not of the Praos eras is passed over; one without
\* transactions is not stored but becomes the latest block.
SkipBlock ==
  /\ Awaits(FALSE) /\ sent < Len(chain)
  /\ ~Indexable(NextBlock)
  /\ sent' = sent + 1
  /\ latestBlock' = IF NextBlock.body = NotPraos THEN latestBlock ELSE NextBlock
  /\ UNCHANGED <<nodeVars, mustRollBack, pc, point, txVars, db, failures>>

\* Mutant: the block row is inserted outside of the transaction.
BeginBlockCommitted ==
  /\ Awaits(FALSE) /\ sent < Len(chain)
  /\ Indexable(NextBlock)
  /\ ~BlockExists(db, NextBlock)
  /\ sent' = sent + 1
  /\ pc' = "insert"
  /\ current' = NextBlock
  /\ work' = InsertBlock(db, NextBlock)
  /\ db' = work'
  /\ UNCHANGED <<nodeVars, mustRollBack, point, at, todo, aborted, latestBlock, failures>>

\* rollForward: the insertion of a block starts a database transaction.
\* A block that is already there throws, and the process exits: see Crash.
BeginBlock ==
  /\ Awaits(FALSE) /\ sent < Len(chain)
  /\ Indexable(NextBlock)
  /\ ~BlockExists(db, NextBlock)
  /\ sent' = sent + 1
  /\ pc' = "insert"
  /\ current' = NextBlock
  /\ work' = InsertBlock(db, NextBlock)
  /\ UNCHANGED <<nodeVars, mustRollBack, point, at, todo, aborted, db, latestBlock, failures>>

Tx == current.body[at]

\* Handler 0 is processGovernance, handler i the i-th entry of the votes.
Handlers(t) ==
  IF t.spends = "inputs"
    THEN {i \in 0 .. Len(t.votes) : i = 0 => t.manage.op # "none"}
    ELSE {}

\* The transactions of a block are taken one after the other, the handlers of
\* each run concurrently and all of them settle.
TakeTx ==
  /\ pc = "insert" /\ todo = {} /\ at < Len(current.body)
  /\ at' = at + 1
  /\ todo' = Handlers(current.body[at + 1])
  /\ UNCHANGED <<nodeVars, linkVars, pc, point, current, work, aborted, db, latestBlock, failures>>

\* Once a statement has failed, PostgreSQL refuses the rest of the
\* transaction; the handlers log that and settle.
HandleGovernance ==
  /\ pc = "insert" /\ 0 \in todo
  /\ todo' = todo \ {0}
  /\ aborted' = (aborted \/ StatementRefused(work, Tx))
  /\ work' = IF aborted' THEN work ELSE ProcessGovernance(work, Tx, current.slot)
  /\ UNCHANGED <<nodeVars, linkVars, pc, point, current, at, db, latestBlock, failures>>

HandleVotes(i) ==
  LET e == Tx.votes[i]
      accepted == ~aborted /\ VoteAccepted(work, Tx, e, current.slot)
      rows == RowsOfVote(work, Tx, e, current.slot)
  IN  /\ pc = "insert" /\ i \in todo \ {0}
      /\ todo' = todo \ {i}
      /\ aborted' = (aborted \/ (accepted /\ VoteCollides(work, rows)))
      /\ work' = IF accepted /\ ~VoteCollides(work, rows)
                   THEN InsertPollVote(work, Tx, e, current.slot) ELSE work
      /\ UNCHANGED <<nodeVars, linkVars, pc, point, current, at, db, latestBlock, failures>>

\* Committing a transaction in which a statement failed rolls it back without
\* an error, so the block becomes the latest one all the same.
Commit ==
  /\ pc = "insert" /\ todo = {} /\ at = Len(current.body)
  /\ db' = IF aborted THEN db ELSE work
  /\ latestBlock' = current
  /\ pc' = "idle"
  /\ current' = Genesis /\ at' = 0 /\ aborted' = FALSE /\ work' = db'
  /\ UNCHANGED <<nodeVars, linkVars, point, todo, failures>>

\* Mutant: the latest block is left alone.
BeginRollbackQuietly ==
  /\ Awaits(TRUE)
  /\ mustRollBack' = FALSE
  /\ point' = PointAt(sent)
  /\ pc' = "rollback"
  /\ UNCHANGED <<nodeVars, sent, txVars, db, latestBlock, failures>>

\* rollBackward: memory first ...
BeginRollback ==
  /\ Awaits(TRUE)
  /\ mustRollBack' = FALSE
  /\ point' = PointAt(sent)
  /\ latestBlock' = PointAt(sent)
  /\ pc' = "rollback"
  /\ UNCHANGED <<nodeVars, sent, txVars, db, failures>>

\* Mutant: the block of the point itself is deleted (gte for gt).
RollBackBeforePoint ==
  /\ pc = "rollback"
  /\ db' = DeleteBlocksAfter(db, point.slot - 1)
  /\ work' = db'
  /\ point' = NoBlock
  /\ pc' = "idle"
  /\ UNCHANGED <<nodeVars, linkVars, current, at, todo, aborted, latestBlock, failures>>

\* Mutant: nothing is deleted when rolling back to the origin.
RollBackToOriginForgotten ==
  /\ pc = "rollback"
  /\ db' = IF point = Genesis THEN db ELSE DeleteBlocksAfter(db, point.slot)
  /\ work' = db'
  /\ point' = NoBlock
  /\ pc' = "idle"
  /\ UNCHANGED <<nodeVars, linkVars, current, at, todo, aborted, latestBlock, failures>>

\* ... then the database, in one statement.
RollBackToPoint ==
  /\ pc = "rollback"
  /\ db' = DeleteBlocksAfter(db, point.slot)
  /\ work' = db'
  /\ point' = NoBlock
  /\ pc' = "idle"
  /\ UNCHANGED <<nodeVars, linkVars, current, at, todo, aborted, latestBlock, failures>>
-----------------------------------------------------------------------------
Disconnected ==
  /\ pc' = "down"
  /\ sent' = 0 /\ mustRollBack' = FALSE
  /\ failures' = failures + 1

\* The process dies, or exits because a handler threw: the open transaction
\* and everything in memory is lost.
Crash ==
  /\ failures < MaxFailures
  /\ pc # "down"
  /\ Disconnected
  /\ point' = NoBlock /\ latestBlock' = NoBlock
  /\ current' = Genesis /\ at' = 0 /\ todo' = {} /\ aborted' = FALSE /\ work' = db
  /\ UNCHANGED <<nodeVars, db>>

\* The connection to the node is lost while no message of it is being handled:
\* the clients are dropped, what else is in memory stays, and the initializer
\* loop starts over.
ConnectionLost ==
  /\ failures < MaxFailures
  /\ pc \in {"idle", "resuming", "stuck"}
  /\ Disconnected
  /\ point' = NoBlock
  /\ UNCHANGED <<nodeVars, txVars, db, latestBlock>>

\* getLastDbBlock: the newest block after skipping some, by id.
LastDbBlock(d, skip) ==
  LET newer(r) == {q \in d.block : q.id > r.id}
      candidates == {r \in d.block : Cardinality(newer(r)) = skip}
  IN  IF candidates = {} THEN Genesis ELSE (CHOOSE r \in candidates : TRUE).hash

\* Mutant: syncing resumes from the last block.
ReadLastBlock ==
  /\ pc = "down"
  /\ point' = LastDbBlock(db, 0)
  /\ latestBlock' = IF point' = Genesis THEN latestBlock ELSE point'
  /\ pc' = "resuming"
  /\ UNCHANGED <<nodeVars, linkVars, txVars, db, failures>>

ReadResumePoint ==
  /\ pc = "down"
  /\ point' = LastDbBlock(db, ResumeDepth)
  /\ latestBlock' = IF point' = Genesis THEN latestBlock ELSE point'
  /\ pc' = "resuming"
  /\ UNCHANGED <<nodeVars, linkVars, txVars, db, failures>>

\* The node finds the point on its chain and first answers with a rollback to it.
Resume ==
  /\ pc = "resuming"
  /\ \E i \in 0 .. Len(chain) : PointAt(i) = point /\ sent' = i
  /\ mustRollBack' = TRUE
  /\ point' = NoBlock
  /\ pc' = "idle"
  /\ UNCHANGED <<nodeVars, txVars, db, latestBlock, failures>>

\* The point is on no chain of the node.  The clients were created, so the
\* initializer loop takes them for ready and does not try again.
ResumeFails ==
  /\ pc = "resuming"
  /\ \A i \in 0 .. Len(chain) : PointAt(i) # point
  /\ pc' = "stuck"
  /\ UNCHANGED <<nodeVars, linkVars, point, txVars, db, latestBlock, failures>>
-----------------------------------------------------------------------------
Init ==
  /\ chain = <<>> /\ minted = 0 /\ immutable = 0
  /\ sent = 0 /\ mustRollBack = FALSE
  /\ pc = "down" /\ point = NoBlock
  /\ current = Genesis /\ at = 0 /\ todo = {} /\ work = EmptyDb /\ aborted = FALSE
  /\ db = EmptyDb
  /\ latestBlock = NoBlock
  /\ failures = 0

Node ==
  \/ \E body \in Bodies, slot \in 1 .. MaxSlot : Mint(body, slot)
  \/ \E i \in immutable .. Len(chain) - 1 : Reorganize(i)

Sync ==
  \/ SkipBlock \/ BeginBlock \/ TakeTx \/ HandleGovernance
  \/ \E i \in todo : HandleVotes(i)
  \/ Commit
  \/ BeginRollback \/ RollBackToPoint
  \/ ReadResumePoint \/ Resume \/ ResumeFails

Next == Node \/ Sync \/ Crash \/ ConnectionLost

Spec == Init /\ [][Next]_vars

\* The event loop keeps running and the node keeps answering; blocks, forks
\* and failures are not owed.
FairSpec == Spec /\ WF_vars(Sync)
-----------------------------------------------------------------------------
BlockRows == [id : Nat, hash : Block, slot : Nat]
TxRows == [hash : TxHash, fee : Nat, slot : Nat]
PollRows == [hash : TxHash, slot : Nat, start : Nat, end : Nat]
ProposalRows == [hash : TxHash, slot : Nat, index : Nat, choices : Nat, poll : TxHash]
StateRows == [proposal : TxHash, tx : TxHash, slot : Nat,
              status : {"AVAILABLE", "CANCELLED", "PASSED", "FAILED"}]
VoteRows == [id : Nat, owner : STRING, proposal : TxHash, poll : TxHash, choice : Int,
               power : Nat, tx : TxHash, slot : Nat,
               verification : {"UNVERIFIED", "VERIFIED", "INVALID"}]

Database ==
  [block : SUBSET BlockRows, tx : SUBSET TxRows, poll : SUBSET PollRows,
   proposal : SUBSET ProposalRows, state : SUBSET StateRows, vote : SUBSET VoteRows]

\* The type invariant.
TypeOK ==
  /\ chain \in Seq(Block)
  /\ minted \in 0 .. MaxBlocks /\ immutable \in 0 .. Len(chain)
  /\ sent \in 0 .. Len(chain) /\ mustRollBack \in BOOLEAN
  /\ pc \in {"down", "resuming", "stuck", "idle", "insert", "rollback"}
  /\ point \in Block \cup {NoBlock}
  /\ current \in Block /\ Indexable(current)
  /\ at \in 0 .. Len(current.body)
  /\ todo \in SUBSET Nat
  /\ work \in Database /\ aborted \in BOOLEAN
  /\ db \in Database
  /\ latestBlock \in Block \cup {NoBlock}
  /\ failures \in 0 .. MaxFailures

\* Whenever the aggregator waits for the next block, the database holds
\* exactly the blocks of the node's chain up to the last one sent: none is
\* lost, none of an abandoned fork is left.
BlocksSynced ==
  Awaits(FALSE) =>
    {r.hash : r \in db.block} = {b \in {chain[i] : i \in 1 .. sent} : Indexable(b)}

\* Whatever becomes of a block's transaction, the database then holds no block
\* of an abandoned fork and none that was not sent.
NoForeignBlock ==
  Awaits(FALSE) =>
    {r.hash : r \in db.block} \subseteq {b \in {chain[i] : i \in 1 .. sent} : Indexable(b)}

\* A rollback removes the rows of the later blocks and no other: no cascade
\* reaches a row of the blocks that stay.
RollbackIsExact ==
  [][pc = "rollback" /\ pc' = "idle" =>
       db' = [table \in DOMAIN db |-> {r \in db[table] : r.slot <= point.slot}]]_vars

\* The order of block ids, by which the resume point is chosen, is that of slots.
BlockIdsFollowSlots ==
  \A a, b \in db.block : a.id < b.id <=> a.slot < b.slot

CastEarlier(v, w) ==
  \/ v.slot < w.slot
  \/ \E r \in db.block :
       /\ r.slot = v.slot /\ r.slot = w.slot
       /\ \E i, j \in DOMAIN TxsOf(r.hash) :
            i < j /\ TxsOf(r.hash)[i].hash = v.tx /\ TxsOf(r.hash)[j].hash = w.tx

\* The order of vote ids, by which the last vote of a user is chosen, is that
\* of the votes on chain.
VoteIdsFollowChain ==
  \A v, w \in db.vote : CastEarlier(v, w) => v.id < w.id

\* A proposal is available from its creation on and is closed at most once.
ClosedAtMostOnce ==
  \A p \in db.proposal :
    LET states == {r \in db.state : r.proposal = p.hash}
        closing == {r \in states : r.status # "AVAILABLE"}
    IN  /\ Cardinality(states \ closing) = 1
        /\ Cardinality(closing) <= 1

\* The block in memory is the last one handled, so it is on the chain the
\* database follows (it is not moved by the blocks of other eras).
LatestBlockOnChain ==
  Awaits(FALSE) => \E i \in 0 .. sent :
    /\ latestBlock = PointAt(i)
    /\ \A j \in i + 1 .. sent : chain[j].body = NotPraos

\* The resume point is always found again, provided the node abandons no more
\* blocks than are skipped.
NeverStuck == pc # "stuck"

\* When the node settles, the aggregator catches up with it and stays there.
EventuallySynced == <>[](Awaits(FALSE) /\ sent = Len(chain))
=============================================================================
