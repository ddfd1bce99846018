------------------------ MODULE AggregatorReconnect ------------------------
(***************************************************************************)
(* The aggregator where the connection to the node may also close while a  *)
(* block is being inserted (backend/src/ogmios/ogmios.ts:14-17).  Nothing  *)
(* stops the handler: its database transaction stays open and commits      *)
(* later, beside the synchronization the initializer loop has started in   *)
(* the meantime.                                                           *)
(*                                                                         *)
(* Bounds: one handler is left over at a time, with all of its statements  *)
(* run and only its COMMIT to come, and blocks hold no transactions, so    *)
(* that the rows of one transaction are never needed by another.  A        *)
(* rollback is one statement, sent before the connection closes: it has    *)
(* deleted its rows before the loop reads the database again, which        *)
(* RollBackToPoint followed by ConnectionLost shows.                       *)
(***************************************************************************)
EXTENDS Aggregator

VARIABLE left  \* the handler that outlived its connection: its block and its rows

Nothing == [block |-> NoBlock, rows |-> EmptyDb]

Without(d, e) == [table \in DOMAIN d |-> d[table] \ e[table]]
With(d, e)    == [table \in DOMAIN d |-> d[table] \cup e[table]]

\* The clients are dropped; the transaction of the handler stays open.
OutliveConnection ==
  /\ failures < MaxFailures /\ left = Nothing
  /\ pc = "insert" /\ todo = {} /\ at = Len(current.body)
  /\ Disconnected
  /\ left' = [block |-> current, rows |-> IF aborted THEN EmptyDb ELSE Without(work, db)]
  /\ current' = Genesis /\ at' = 0 /\ aborted' = FALSE /\ work' = db
  /\ UNCHANGED <<nodeVars, point, todo, db, latestBlock>>

\* BeginBlock, whose row gets the next id of the sequence.  The insertion of a
\* row with a key that an open transaction holds waits for that transaction
\* (and fails when it commits: the process exits, see Crash).
BeginBlockBeside ==
  /\ Awaits(FALSE) /\ sent < Len(chain)
  /\ Indexable(NextBlock)
  /\ ~BlockExists(With(db, left.rows), NextBlock)
  /\ sent' = sent + 1
  /\ pc' = "insert"
  /\ current' = NextBlock
  /\ work' = Without(InsertBlock(With(db, left.rows), NextBlock), left.rows)
  /\ UNCHANGED <<nodeVars, mustRollBack, point, at, todo, aborted, db, latestBlock,
                 failures, left>>

\* The left-over handler commits, and an open transaction sees its rows
\* (READ COMMITTED).  It asks a closed socket for the next block.
FinishLeft ==
  /\ left # Nothing
  /\ db' = With(db, left.rows)
  /\ work' = With(work, left.rows)
  /\ latestBlock' = left.block
  /\ left' = Nothing
  /\ UNCHANGED <<nodeVars, linkVars, pc, point, current, at, todo, aborted, failures>>

\* With the process dies every handler of it.
CrashWithLeft == Crash /\ left' = Nothing

ReconnectInit == Init /\ left = Nothing

ReconnectNext ==
  \/ /\ \/ Node \/ SkipBlock \/ Commit \/ BeginRollback \/ RollBackToPoint
        \/ ReadResumePoint \/ Resume \/ ResumeFails \/ ConnectionLost
     /\ UNCHANGED left
  \/ OutliveConnection \/ BeginBlockBeside \/ FinishLeft \/ CrashWithLeft

ReconnectSpec == ReconnectInit /\ [][ReconnectNext]_<<vars, left>>
-----------------------------------------------------------------------------
\* Resuming behind the last block rids the database of every block that was
\* reverted: whenever the next block is awaited, all its blocks are the node's.
NoRevertedBlock ==
  Awaits(FALSE) =>
    \A r \in db.block : \E i \in 1 .. Len(chain) : chain[i] = r.hash
=============================================================================
