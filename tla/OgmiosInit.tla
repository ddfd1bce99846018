----------------------------- MODULE OgmiosInit -----------------------------
(***************************************************************************)
(* How a process gets, loses and gets back its Ogmios clients:             *)
(* ogmiosClientInitializerLoop (backend/src/ogmios/ogmios.ts), the         *)
(* parameters of both modes (ogmiosInitParams.ts), the three client        *)
(* modules, the start of index.ts and the signal handlers of cleanup.ts.   *)
(*                                                                         *)
(* A connection is the number of its socket; a client is the connection    *)
(* whose context it was created with.  Calls of the Ogmios library that    *)
(* are awaited take time and may reject; a socket may close at any time,   *)
(* and then its close callback runs.                                       *)
(***************************************************************************)
EXTENDS Integers, Sequences, FiniteSetsExt

CONSTANTS
  MaxSockets,   \* bound: connections a process opens; a shutdown closes two at most
  MaxFailures   \* bound: rejected calls, lost connections and crashes

ASSUME OgmiosInitAssumption ==
  MaxFailures \in Nat /\ MaxSockets \in Nat /\ MaxFailures + 2 < MaxSockets

VARIABLES
  mode,      \* config.MODE
  loop,      \* what start() and then the initializer loop is doing
  at,        \* the step of initializeClientsFn awaited, 0 outside of it
  socket,    \* each connection: "unused", "open" or "closed"
  context,   \* the connection of the attempt under way
  client,    \* the module variables that hold the clients
  sync,      \* the chain-sync handler of each connection
  signal,    \* the handler of a signal
  failures,
  leaked,    \* history: an attempt failed and its connection stayed open
  orphaned   \* history: a client was installed after its connection closed

vars == <<mode, loop, at, socket, context, client, sync, signal, failures, leaked, orphaned>>
history == <<failures, leaked, orphaned>>

Sockets == 1 .. MaxSockets
NoSocket == 0
Kinds == {"txSubmission", "stateQuery", "chainSync"}
NoClients == [k \in Kinds |-> NoSocket]

Steps == IF mode = "server" THEN <<"txSubmission", "stateQuery">>
                            ELSE <<"stateQuery", "chainSync", "point", "resume">>

OwnKinds == IF mode = "server" THEN <<"txSubmission", "stateQuery">>
                               ELSE <<"chainSync", "stateQuery">>

Ready == \A i \in DOMAIN OwnKinds : client[OwnKinds[i]] # NoSocket

Fails == failures < MaxFailures /\ failures' = failures + 1

Running == loop # "stopped"
-----------------------------------------------------------------------------
(***************************************************************************)
(* start() and the loop.                                                   *)
(***************************************************************************)

\* ensureDBMigrated tries again 30 seconds after a failure.
Migrate ==
  /\ loop = "migrate"
  /\ loop' = "awake"
  /\ UNCHANGED <<mode, at, socket, context, client, sync, signal, history>>

MigrationFails ==
  /\ loop = "migrate"
  /\ Fails
  /\ UNCHANGED <<mode, loop, at, socket, context, client, sync, signal, leaked, orphaned>>

CheckReady ==
  /\ loop = "awake"
  /\ loop' = IF Ready THEN "asleep" ELSE "connect"
  /\ UNCHANGED <<mode, at, socket, context, client, sync, signal, history>>

WakeUp ==
  /\ loop = "asleep"
  /\ loop' = "awake"
  /\ UNCHANGED <<mode, at, socket, context, client, sync, signal, history>>

\* A client that exists is kept, whatever connection it belongs to.
StepsLeft(clients, i) ==
  {j \in i .. Len(Steps) : Steps[j] \notin Kinds \/ clients[Steps[j]] = NoSocket}

GoOn(clients, i) ==
  IF StepsLeft(clients, i) = {}
    THEN loop' = "asleep" /\ at' = 0
    ELSE loop' = "initialize" /\ at' = Min(StepsLeft(clients, i))

NewSocket == CHOOSE s \in Sockets : socket[s] = "unused"

Connect ==
  /\ loop = "connect"
  /\ \E s \in Sockets : socket[s] = "unused"
  /\ socket' = [socket EXCEPT ![NewSocket] = "open"]
  /\ context' = NewSocket
  /\ GoOn(client, 1)
  /\ UNCHANGED <<mode, client, sync, signal, history>>

Awaits(step) == loop = "initialize" /\ Steps[at] = step

CreateClient(kind) ==
  /\ Awaits(kind)
  /\ client' = [client EXCEPT ![kind] = context]
  /\ orphaned' = (orphaned \/ socket[context] = "closed")
  /\ GoOn(client', at + 1)
  /\ UNCHANGED <<mode, socket, context, sync, signal, failures, leaked>>

\* getLastDbBlock(50).
ReadPoint ==
  /\ Awaits("point")
  /\ GoOn(client, at + 1)
  /\ UNCHANGED <<mode, socket, context, client, sync, signal, history>>

SyncSocket == client["chainSync"]

SyncIsOpen == SyncSocket # NoSocket /\ socket[SyncSocket] = "open"

StartSync ==
  /\ Awaits("resume")
  /\ SyncIsOpen
  /\ sync' = [sync EXCEPT ![SyncSocket] = "waiting"]
  /\ GoOn(client, at + 1)
  /\ UNCHANGED <<mode, socket, context, client, signal, history>>

\* Mutant: a failed attempt ends the loop.
GiveUpForGood ==
  /\ loop' = "over" /\ at' = 0
  /\ leaked' = (leaked \/ (loop = "initialize" /\ socket[context] = "open"))
  /\ UNCHANGED <<mode, socket, context, client, sync, signal, orphaned>>

\* The error is logged; neither the clients nor the connection are closed.
GiveUp ==
  /\ loop' = "asleep" /\ at' = 0
  /\ leaked' = (leaked \/ (loop = "initialize" /\ socket[context] = "open"))
  /\ UNCHANGED <<mode, socket, context, client, sync, signal, orphaned>>

\* The connection is refused, the database read fails, or Ogmios knows no
\* intersection.
AttemptFails == loop \in {"connect", "initialize"} /\ Fails /\ GiveUp

\* The client is gone, or its connection is.
StartSyncThrows ==
  /\ Awaits("resume")
  /\ ~SyncIsOpen
  /\ GiveUp
  /\ UNCHANGED failures
-----------------------------------------------------------------------------
(***************************************************************************)
(* Events.  The close callback knows nothing of which connection closed:   *)
(* it drops every client of the mode.  A block handler at work goes on.    *)
(***************************************************************************)

\* Mutant: the callback is that of an error, and the socket lives on.
DropOnError(s) ==
  /\ socket[s] = "open"
  /\ client' = NoClients
  /\ orphaned' = FALSE
  /\ UNCHANGED <<socket, sync>>

\* Mutant: closeClientsFn forgets the state query client.
CloseSyncOnly(s) ==
  /\ socket[s] = "open"
  /\ socket' = [socket EXCEPT ![s] = "closed"]
  /\ sync' = [sync EXCEPT ![s] = IF @ = "busy" THEN "busy" ELSE "off"]
  /\ client' = [NoClients EXCEPT !["stateQuery"] = client["stateQuery"]]
  /\ orphaned' = FALSE

Close(s) ==
  /\ socket[s] = "open"
  /\ socket' = [socket EXCEPT ![s] = "closed"]
  /\ sync' = [sync EXCEPT ![s] = IF @ = "busy" THEN "busy" ELSE "off"]
  /\ client' = NoClients
  /\ orphaned' = FALSE

ConnectionCloses(s) ==
  /\ Running
  /\ Fails
  /\ Close(s)
  /\ UNCHANGED <<mode, loop, at, context, signal, leaked>>

ReceiveBlock(s) ==
  /\ Running
  /\ sync[s] = "waiting"
  /\ sync' = [sync EXCEPT ![s] = "busy"]
  /\ UNCHANGED <<mode, loop, at, socket, context, client, signal, history>>

FinishBlock(s) ==
  /\ Running
  /\ sync[s] = "busy"
  /\ sync' = [sync EXCEPT ![s] = IF socket[s] = "open" THEN "waiting" ELSE "off"]
  /\ UNCHANGED <<mode, loop, at, socket, context, client, signal, history>>

\* A socket error is thrown out of its handler, a block cannot be inserted, or
\* the host fails; the process is started again with the same mode.
Crash ==
  /\ Running
  /\ Fails
  /\ loop' = IF mode = "server" THEN "awake" ELSE "migrate"
  /\ at' = 0 /\ context' = NoSocket /\ client' = NoClients
  /\ socket' = [s \in Sockets |-> "unused"]
  /\ sync' = [s \in Sockets |-> "off"]
  /\ signal' = 0
  /\ leaked' = FALSE /\ orphaned' = FALSE
  /\ UNCHANGED mode
-----------------------------------------------------------------------------
(***************************************************************************)
(* onExit: signal is the position in the clients being shut down, 0 when   *)
(* no signal came, -1 after a shutdown was rejected.                       *)
(***************************************************************************)
Signal ==
  /\ Running /\ signal = 0
  /\ signal' = 1
  /\ UNCHANGED <<mode, loop, at, socket, context, client, sync, history>>

ShutsDown(kind) == Running /\ signal > 0 /\ signal <= Len(OwnKinds) /\ OwnKinds[signal] = kind

\* Shutting a client down closes its connection, whose callback runs.
ShutDownClient(kind) ==
  /\ ShutsDown(kind)
  /\ signal' = signal + 1
  /\ IF client[kind] # NoSocket /\ socket[client[kind]] = "open"
       THEN Close(client[kind])
       ELSE UNCHANGED <<socket, sync, client, orphaned>>
  /\ UNCHANGED <<mode, loop, at, context, failures, leaked>>

\* Only where its connection is already closed; the process then goes on.
ShutdownRejected(kind) ==
  /\ ShutsDown(kind)
  /\ client[kind] # NoSocket /\ socket[client[kind]] = "closed"
  /\ signal' = -1
  /\ UNCHANGED <<mode, loop, at, socket, context, client, sync, history>>

\* Mutant: the handler is registered without exit: true.
CleanUpOnly ==
  /\ Running
  /\ signal > Len(OwnKinds)
  /\ signal' = -1
  /\ UNCHANGED <<mode, loop, at, socket, context, client, sync, history>>

Exit ==
  /\ Running
  /\ signal > Len(OwnKinds)
  /\ loop' = "stopped"
  /\ UNCHANGED <<mode, at, socket, context, client, sync, signal, history>>
-----------------------------------------------------------------------------
\* NODE_ENV decides whether the aggregator migrates the database.
Init ==
  /\ mode \in {"server", "aggregator"}
  /\ loop \in IF mode = "server" THEN {"awake"} ELSE {"awake", "migrate"}
  /\ at = 0 /\ context = NoSocket /\ client = NoClients
  /\ socket = [s \in Sockets |-> "unused"]
  /\ sync = [s \in Sockets |-> "off"]
  /\ signal = 0 /\ failures = 0 /\ leaked = FALSE /\ orphaned = FALSE

Loop ==
  \/ Migrate \/ CheckReady \/ WakeUp \/ Connect \/ ReadPoint \/ StartSync
  \/ \E kind \in Kinds : CreateClient(kind)

Failure ==
  \/ MigrationFails \/ AttemptFails \/ StartSyncThrows \/ Crash
  \/ \E s \in Sockets : ConnectionCloses(s)

SyncStep == \E s \in Sockets : ReceiveBlock(s) \/ FinishBlock(s)

CleanUp ==
  \/ Signal \/ Exit
  \/ \E kind \in Kinds : ShutDownClient(kind) \/ ShutdownRejected(kind)

Next == Loop \/ Failure \/ SyncStep \/ CleanUp

Spec == Init /\ [][Next]_vars

\* Timers expire, awaited calls settle and handlers run to their end; nothing
\* forces a failure, a signal or the next block.
FairSpec ==
  /\ Spec
  /\ WF_vars(Loop \/ StartSyncThrows)
  /\ \A s \in Sockets : WF_vars(FinishBlock(s))
  /\ WF_vars(Exit)
  /\ \A kind \in Kinds : WF_vars(ShutDownClient(kind) \/ ShutdownRejected(kind))
-----------------------------------------------------------------------------
OgmiosTypeOK ==
  /\ mode \in {"server", "aggregator"}
  /\ loop \in {"migrate", "awake", "connect", "initialize", "asleep", "stopped"}
  /\ at \in 0 .. 4 /\ signal \in -1 .. 3
  /\ socket \in [Sockets -> {"unused", "open", "closed"}]
  /\ context \in Sockets \cup {NoSocket}
  /\ client \in [Kinds -> Sockets \cup {NoSocket}]
  /\ sync \in [Sockets -> {"off", "waiting", "busy"}]
  /\ failures \in 0 .. MaxFailures /\ leaked \in BOOLEAN /\ orphaned \in BOOLEAN

\* No two connections deliver blocks at a time, so that no two handlers insert
\* blocks unless one of them outlives its connection (ogmios.ts:15 drops the
\* clients while a block is being inserted) - except after an attempt failed and
\* left its connection open: its later close drops clients of another connection.
OneSynchronization ==
  leaked \/ \A s, t \in Sockets :
    sync[s] # "off" /\ sync[t] # "off" /\ socket[s] = "open" /\ socket[t] = "open" => s = t

\* A client is never that of a closed connection, so that isReadyFn tells a lost
\* connection, unless the connection closed while the client was being created:
\* the callback has then come too early.
ClientsAreConnected ==
  orphaned \/ \A k \in Kinds : client[k] # NoSocket => socket[client[k]] = "open"

Connected ==
  /\ Ready
  /\ \A i \in DOMAIN OwnKinds : socket[client[OwnKinds[i]]] = "open"
  /\ mode = "aggregator" => sync[SyncSocket] # "off"

\* Both clients exist and blocks do not come: starting to sync failed.
NeverStarted == mode = "aggregator" /\ Ready /\ sync[SyncSocket] = "off"

\* After the last failure the process is connected, and the aggregator syncing,
\* for good - unless starting to sync failed with both clients in place or a
\* client was orphaned, which the loop takes for ready.
EventuallyConnected == <>[](Connected \/ NeverStarted \/ orphaned \/ ~Running)

\* A signal ends the process, unless a client's connection was closed without
\* its knowledge and its shutdown is rejected.
SignalEnds == signal > 0 ~> ~Running \/ signal = 0 \/ orphaned

\* An attempt that got as far as starting to sync succeeds or is followed by
\* another one: "Failed to initialize Ogmios clients, retrying in 20 seconds"
\* (ogmios.ts:35).  Orphaned clients and signals are left out of account.
InitializationRetried ==
  Awaits("resume") ~> Connected \/ loop = "connect" \/ ~Running \/ orphaned \/ signal # 0
=============================================================================
