---------------------------- MODULE LatestBlock ----------------------------
(***************************************************************************)
(* The latest block a process in server mode keeps in memory               *)
(* (backend/src/ogmios/latestBlock.ts): read from the database at start    *)
(* (db/setLatestBlockFromDb.ts), then moved by the notifications of the    *)
(* trigger on the table Block (db/initPgListen.ts), a deletion through a   *)
(* debounced read.  The aggregator, another process, inserts blocks and    *)
(* rolls them back meanwhile.                                              *)
(*                                                                         *)
(* A block is the number of its insertion.  Every committed change of the  *)
(* table makes a new version of it; versions, and what top, missed,        *)
(* overtaken and emptied say of them, are history and guide no action.     *)
(***************************************************************************)
EXTENDS Integers, Sequences

CONSTANTS
  MaxBlocks,    \* bound: blocks ever inserted
  MaxRollbacks, \* bound: rollbacks that delete a block
  MaxReads,     \* bound: database reads under way at a time
  MaxCrashes    \* bound: ends of the server process

ASSUME LatestBlockAssumption ==
  /\ MaxBlocks \in Nat /\ MaxRollbacks \in Nat /\ MaxCrashes \in Nat
  /\ MaxReads \in Nat /\ 2 <= MaxReads

VARIABLES
  rows,          \* the blocks of the table, by id
  inserted,      \* number of blocks ever inserted
  rollbacks,     \* number of rollbacks so far
  notifications, \* sent on the listening connection, not yet handled
  latest,        \* in memory: latestBlock
  stage,         \* how far start() of index.ts has come
  timer,         \* of the debounced read: "idle", "running" or "again"
  reads,         \* each read under way: not yet answered, or its answer
  crashes,
  top,           \* the last version the server has heard of
  missed,        \* a change was committed between its first read and LISTEN
  overtaken,     \* the last answer applied was older than top
  emptied        \* the table has been empty since the server started

dbVars == <<rows, inserted, rollbacks>>
history == <<top, missed, overtaken, emptied>>
vars == <<rows, inserted, rollbacks, notifications, latest, stage, timer, reads,
          crashes, top, missed, overtaken, emptied>>

Unknown == 0

Blocks == 0 .. MaxBlocks

version == inserted + rollbacks

Newest == IF rows = <<>> THEN Unknown ELSE rows[Len(rows)]

Notes == [op : {"INSERT", "DELETE"}, block : Blocks, version : Nat]

ReadStates == [state : {"none", "asked", "answered"}, block : Blocks, version : Nat]

NoRead == [state |-> "none", block |-> Unknown, version |-> 0]
Asked == [state |-> "asked", block |-> Unknown, version |-> 0]
Answer(block, v) == [state |-> "answered", block |-> block, version |-> v]

Notification(op, block, v) == [op |-> op, block |-> block, version |-> v]

Notify(new) == notifications' = IF stage = "serving" THEN notifications \o new ELSE notifications
-----------------------------------------------------------------------------
(***************************************************************************)
(* The aggregator.  A trigger notifies of every row once its transaction   *)
(* has been committed, those of one rollback one by one.                   *)
(***************************************************************************)
InsertBlock ==
  /\ inserted < MaxBlocks
  /\ inserted' = inserted + 1
  /\ rows' = Append(rows, inserted + 1)
  /\ Notify(<<Notification("INSERT", inserted + 1, version + 1)>>)
  /\ UNCHANGED <<rollbacks, latest, stage, timer, reads, crashes, history>>

\* The blocks after the first n are deleted.
RollBack(n) ==
  /\ rollbacks < MaxRollbacks
  /\ rollbacks' = rollbacks + 1
  /\ rows' = SubSeq(rows, 1, n)
  /\ Notify([i \in 1 .. Len(rows) - n |-> Notification("DELETE", rows[n + i], version + 1)])
  /\ emptied' = (emptied \/ n = 0)
  /\ UNCHANGED <<inserted, latest, stage, timer, reads, crashes, top, missed, overtaken>>
-----------------------------------------------------------------------------
(***************************************************************************)
(* setLatestBlockFromDb: the query is answered some time after it is sent, *)
(* and the process goes on with the answer some time after that.  Reads    *)
(* use several connections, so they keep no order.                         *)
(***************************************************************************)
Ask(r) == reads[r] = NoRead /\ reads' = [reads EXCEPT ![r] = Asked]

AnswerRead(r) ==
  /\ reads[r] = Asked
  /\ reads' = [reads EXCEPT ![r] = Answer(Newest, version)]
  /\ UNCHANGED <<dbVars, notifications, latest, stage, timer, crashes, history>>

\* Mutant: an answer is applied only where the block is unknown.
ApplyReadIfUnknown(r) ==
  /\ reads[r].state = "answered"
  /\ latest' = IF latest = Unknown THEN reads[r].block ELSE latest
  /\ reads' = [reads EXCEPT ![r] = NoRead]
  /\ stage' = IF stage = "reading" THEN "connecting" ELSE stage
  /\ overtaken' = (reads[r].version < top)
  /\ top' = IF overtaken' THEN top ELSE reads[r].version
  /\ missed' = (missed /\ overtaken')
  /\ UNCHANGED <<dbVars, notifications, timer, crashes, emptied>>

ApplyRead(r) ==
  /\ reads[r].state = "answered"
  /\ latest' = reads[r].block
  /\ reads' = [reads EXCEPT ![r] = NoRead]
  /\ stage' = IF stage = "reading" THEN "connecting" ELSE stage
  /\ overtaken' = (reads[r].version < top)
  /\ top' = IF overtaken' THEN top ELSE reads[r].version
  /\ missed' = (missed /\ overtaken')
  /\ UNCHANGED <<dbVars, notifications, timer, crashes, emptied>>
-----------------------------------------------------------------------------
\* initPgListen, then the loop and the HTTP server start without a wait.
Listen ==
  /\ stage = "connecting"
  /\ stage' = "serving"
  /\ top' = version
  /\ missed' = (top # version)
  /\ UNCHANGED <<dbVars, notifications, latest, timer, reads, crashes, overtaken, emptied>>

HandleInsert ==
  /\ notifications # <<>> /\ Head(notifications).op = "INSERT"
  /\ notifications' = Tail(notifications)
  /\ latest' = Head(notifications).block
  /\ top' = IF top < Head(notifications).version THEN Head(notifications).version ELSE top
  /\ missed' = FALSE /\ overtaken' = FALSE
  /\ UNCHANGED <<dbVars, stage, timer, reads, crashes, emptied>>

DeletionArrives ==
  /\ notifications # <<>> /\ Head(notifications).op = "DELETE"
  /\ notifications' = Tail(notifications)
  /\ UNCHANGED <<dbVars, latest, stage, crashes, history>>

\* The leading edge of lodash's debounce: the read starts at once.
HandleDelete(r) ==
  /\ DeletionArrives
  /\ timer = "idle" /\ timer' = "running"
  /\ Ask(r)

\* While the timer runs, a call only restarts it and asks for the trailing edge.
HandleDeleteAgain ==
  /\ DeletionArrives
  /\ timer # "idle" /\ timer' = "again"
  /\ UNCHANGED reads

\* Mutant: debounce without trailing: true.
TrailingEdgeForgotten(r) ==
  /\ timer = "again" /\ timer' = "idle"
  /\ UNCHANGED <<dbVars, notifications, latest, stage, reads, crashes, history>>

TrailingEdge(r) ==
  /\ timer = "again" /\ timer' = "idle"
  /\ Ask(r)
  /\ UNCHANGED <<dbVars, notifications, latest, stage, crashes, history>>

TimerExpires ==
  /\ timer = "running" /\ timer' = "idle"
  /\ UNCHANGED <<dbVars, notifications, latest, stage, reads, crashes, history>>

\* Mutant: start() does not await the first read.
StartedUnread ==
  /\ stage' = "connecting"
  /\ latest' = Unknown /\ notifications' = <<>> /\ timer' = "idle"
  /\ reads' = [r \in 1 .. MaxReads |-> IF r = 1 THEN Asked ELSE NoRead]
  /\ top' = 0 /\ missed' = FALSE /\ overtaken' = FALSE
  /\ emptied' = (rows = <<>>)

\* The process begins anew; the notifications on their way to it are lost.
Started ==
  /\ stage' = "reading"
  /\ latest' = Unknown /\ notifications' = <<>> /\ timer' = "idle"
  /\ reads' = [r \in 1 .. MaxReads |-> IF r = 1 THEN Asked ELSE NoRead]
  /\ top' = 0 /\ missed' = FALSE /\ overtaken' = FALSE
  /\ emptied' = (rows = <<>>)

\* A read or the connection fails, which nothing handles, or the host stops.
Crash ==
  /\ crashes < MaxCrashes
  /\ crashes' = crashes + 1
  /\ Started
  /\ UNCHANGED dbVars
-----------------------------------------------------------------------------
Init ==
  /\ rows = <<>> /\ inserted = 0 /\ rollbacks = 0 /\ crashes = 0
  /\ stage = "reading"
  /\ latest = Unknown /\ notifications = <<>> /\ timer = "idle"
  /\ reads = [r \in 1 .. MaxReads |-> IF r = 1 THEN Asked ELSE NoRead]
  /\ top = 0 /\ missed = FALSE /\ overtaken = FALSE /\ emptied = TRUE

Handlers ==
  \/ HandleInsert \/ HandleDeleteAgain \/ TimerExpires \/ Listen
  \/ \E r \in 1 .. MaxReads :
       AnswerRead(r) \/ ApplyRead(r) \/ HandleDelete(r) \/ TrailingEdge(r)

AggregatorStep == InsertBlock \/ \E n \in 0 .. Len(rows) - 1 : RollBack(n)

Next == Handlers \/ AggregatorStep \/ Crash

Spec == Init /\ [][Next]_vars

\* The event loop goes on and the database answers every read.
FairSpec ==
  /\ Spec
  /\ WF_vars(HandleInsert) /\ WF_vars(HandleDeleteAgain) /\ WF_vars(TimerExpires)
  /\ WF_vars(Listen)
  /\ WF_vars(\E r \in 1 .. MaxReads : HandleDelete(r))
  /\ WF_vars(\E r \in 1 .. MaxReads : TrailingEdge(r))
  /\ \A r \in 1 .. MaxReads : WF_vars(AnswerRead(r)) /\ WF_vars(ApplyRead(r))
-----------------------------------------------------------------------------
\* Type invariant of this module.
LatestBlockTypeOK ==
  /\ rows \in Seq(Blocks \ {Unknown})
  /\ inserted \in 0 .. MaxBlocks /\ rollbacks \in 0 .. MaxRollbacks
  /\ crashes \in 0 .. MaxCrashes
  /\ notifications \in Seq(Notes)
  /\ latest \in Blocks
  /\ stage \in {"reading", "connecting", "serving"}
  /\ timer \in {"idle", "running", "again"}
  /\ reads \in [1 .. MaxReads -> ReadStates]
  /\ top \in Nat /\ missed \in BOOLEAN /\ overtaken \in BOOLEAN
  /\ emptied \in BOOLEAN

Quiet ==
  /\ stage = "serving" /\ notifications = <<>> /\ timer # "again"
  /\ \A r \in 1 .. MaxReads : reads[r] = NoRead

\* Once every notification is handled and every read is done, the block in
\* memory is the last one of the table, however insertions, rollbacks, debounced
\* reads and restarts were interleaved - unless a change fell between the first
\* read and LISTEN, or the answer applied last was overtaken by a notification or
\* a later answer: nothing in initPgListen.ts makes up for these two.
SettlesOnNewest == Quiet => missed \/ overtaken \/ latest = Newest

\* The same without the second exception: "in case on multiple blocks are deleted
\* in the 1s interval we want to set it correctly at the end" (initPgListen.ts:23).
SetCorrectlyAtTheEnd == Quiet /\ ~missed => latest = Newest

\* The server takes requests with no block in memory, so that getLatestBlock
\* throws, only where the table was empty at some time since it started: start()
\* awaits the first read, which latestBlock.ts:13 relies on.
UnknownOnlyIfEmptied == stage = "serving" /\ latest = Unknown => emptied

\* When the aggregator rests, the server comes to hold the last block of the
\* table for good, or one of the two gaps above has been hit.
EventuallySettles == <>[](missed \/ overtaken \/ latest = Newest)
=============================================================================
