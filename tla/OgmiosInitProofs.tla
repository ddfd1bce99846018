-------------------------- MODULE OgmiosInitProofs --------------------------
(***************************************************************************)
(* Proofs about the Ogmios clients, for any number of connections and      *)
(* failures, in both modes.  As long as no attempt has left its connection *)
(* behind, the only connection that may be open is that of the latest      *)
(* attempt, and then every client created so far is in place: this is why  *)
(* the loop opens no second one.                                           *)
(***************************************************************************)
EXTENDS OgmiosInit, TLAPS

InPlace(i) == \A j \in 1 .. Len(Steps) : j < i /\ Steps[j] \in Kinds => client[Steps[j]] # NoSocket

AttemptOK ==
  /\ loop = "initialize" => at # 0
  /\ at \in 0 .. Len(Steps)
  /\ loop = "initialize" => context # NoSocket /\ socket[context] # "unused"

OnlyOne ==
  ~leaked => \A s \in Sockets : socket[s] = "open" =>
    /\ s = context
    /\ loop \notin {"connect", "migrate"}
    /\ loop = "initialize" => InPlace(at)
    /\ loop \in {"asleep", "awake"} => Ready

IInv == OgmiosTypeOK /\ AttemptOK /\ OnlyOne /\ ClientsAreConnected
-----------------------------------------------------------------------------
USE DEF Sockets, NoSocket

LEMMA StepsOfMode ==
  ASSUME OgmiosTypeOK
  PROVE  \/ /\ mode = "server"
            /\ Steps = <<"txSubmission", "stateQuery">>
            /\ OwnKinds = <<"txSubmission", "stateQuery">>
         \/ /\ mode = "aggregator"
            /\ Steps = <<"stateQuery", "chainSync", "point", "resume">>
            /\ OwnKinds = <<"chainSync", "stateQuery">>
  BY DEF OgmiosTypeOK, Steps, OwnKinds

\* Every step before the end of the list in place: both clients exist.
LEMMA AllInPlace ==
  ASSUME OgmiosTypeOK, NEW c,
         \A j \in 1 .. Len(Steps) : Steps[j] \in Kinds => c[Steps[j]] # NoSocket
  PROVE  \A i \in DOMAIN OwnKinds : c[OwnKinds[i]] # NoSocket
<1>1. CASE mode = "server"
  <2>1. /\ Steps = <<"txSubmission", "stateQuery">> /\ OwnKinds = <<"txSubmission", "stateQuery">>
    BY <1>1 DEF Steps, OwnKinds
  <2>2. c["txSubmission"] # NoSocket /\ c["stateQuery"] # NoSocket
    BY <2>1 DEF Kinds
  <2> QED  BY <2>1, <2>2
<1>2. CASE mode = "aggregator"
  <2>1. /\ Steps = <<"stateQuery", "chainSync", "point", "resume">>
        /\ OwnKinds = <<"chainSync", "stateQuery">>
    BY <1>2 DEF Steps, OwnKinds
  <2>2. c["stateQuery"] # NoSocket /\ c["chainSync"] # NoSocket
    BY <2>1 DEF Kinds
  <2> QED  BY <2>1, <2>2
<1> QED  BY <1>1, <1>2 DEF OgmiosTypeOK

LEMMA SmallestStep ==
  ASSUME NEW S, S \subseteq 1 .. 4, S # {}
  PROVE  Min(S) \in S /\ \A j \in S : Min(S) <= j
<1>1. \E i \in S : \A j \in S : i <= j
  <2>1. CASE 1 \in S
    BY <2>1
  <2>2. CASE 1 \notin S /\ 2 \in S
    BY <2>2
  <2>3. CASE 1 \notin S /\ 2 \notin S /\ 3 \in S
    BY <2>3
  <2>4. CASE 1 \notin S /\ 2 \notin S /\ 3 \notin S
    <3>1. \A j \in S : j = 4
      BY <2>4
    <3>2. PICK i \in S : TRUE
      OBVIOUS
    <3>3. i = 4 /\ \A j \in S : i <= j
      BY <3>1, <3>2
    <3> QED  BY <3>2, <3>3
  <2> QED  BY <2>1, <2>2, <2>3, <2>4
<1> QED  BY <1>1 DEF Min

\* Going on from step i skips only steps whose client exists.
LEMMA GoesOn ==
  ASSUME OgmiosTypeOK, NEW i \in 1 .. Len(Steps) + 1, GoOn(client', i), UNCHANGED mode
  PROVE  /\ \/ loop' = "asleep" /\ at' = 0
            \/ loop' = "initialize" /\ at' \in 1 .. Len(Steps)
         /\ (\A j \in 1 .. Len(Steps) :
                j < i /\ Steps[j] \in Kinds => client'[Steps[j]] # NoSocket)
            => /\ loop' = "asleep" => Ready'
               /\ loop' = "initialize" => InPlace(at)'
<1> DEFINE S == StepsLeft(client', i)
           Before == \A j \in 1 .. Len(Steps) :
                       j < i /\ Steps[j] \in Kinds => client'[Steps[j]] # NoSocket
<1>1. Steps' = Steps /\ Len(Steps) \in {2, 4}
  BY StepsOfMode DEF Steps
<1>2. S \subseteq i .. Len(Steps) /\ S \subseteq 1 .. 4
  BY <1>1 DEF StepsLeft
<1>3. \A j \in i .. Len(Steps) : j \notin S /\ Steps[j] \in Kinds => client'[Steps[j]] # NoSocket
  BY DEF StepsLeft
<1>4. CASE S = {}
  <2>1. loop' = "asleep" /\ at' = 0
    BY <1>4 DEF GoOn
  <2>2. ASSUME Before PROVE Ready'
    <3>1. \A j \in 1 .. Len(Steps) : Steps[j] \in Kinds => client'[Steps[j]] # NoSocket
      BY <1>1, <1>3, <1>4, <2>2
    <3>2. \A k \in DOMAIN OwnKinds : client'[OwnKinds[k]] # NoSocket
      BY <3>1, AllInPlace
    <3>3. OwnKinds' = OwnKinds
      BY DEF OwnKinds
    <3> QED  BY <3>2, <3>3 DEF Ready
  <2> QED  BY <2>1, <2>2
<1>5. CASE S # {}
  <2> DEFINE m == Min(S)
  <2>1. m \in S /\ \A j \in S : m <= j
    BY <1>2, <1>5, SmallestStep
  <2>2. loop' = "initialize" /\ at' = m
    BY <1>5 DEF GoOn
  <2> HIDE DEF S, m
  <2>3. m \in 1 .. Len(Steps)
    BY <1>1, <1>2, <2>1
  <2>4. ASSUME Before, NEW j \in 1 .. Len(Steps), j < m, Steps[j] \in Kinds
        PROVE  client'[Steps[j]] # NoSocket
    <3>1. CASE j < i
      BY <2>4, <3>1
    <3>2. CASE ~(j < i)
      <4>1. j \in i .. Len(Steps) /\ ~(m <= j)
        BY <1>1, <2>3, <2>4, <3>2
      <4> QED  BY <1>3, <2>1, <2>4, <4>1
    <3> QED  BY <3>1, <3>2
  <2>5. Before => InPlace(at)'
    BY <1>1, <2>2, <2>4 DEF InPlace
  <2> QED  BY <2>2, <2>3, <2>5
<1> QED  BY <1>4, <1>5
-----------------------------------------------------------------------------
LEMMA InitIInv == Init => IInv
<1> SUFFICES ASSUME Init PROVE IInv
  OBVIOUS
<1>1. OgmiosTypeOK
  <2>1. leaked \in BOOLEAN /\ orphaned \in BOOLEAN
    BY Zenon DEF Init
  <2> QED  BY <2>1, OgmiosInitAssumption DEF Init, OgmiosTypeOK, NoClients
<1>2. AttemptOK /\ OnlyOne
  BY <1>1, StepsOfMode DEF Init, AttemptOK, OnlyOne
<1>3. ClientsAreConnected
  BY DEF Init, ClientsAreConnected, NoClients
<1> QED  BY <1>1, <1>2, <1>3 DEF IInv
-----------------------------------------------------------------------------
(* The steps of the loop. *)

LEMMA WaitingIInv ==
  ASSUME IInv, Migrate \/ MigrationFails \/ CheckReady \/ WakeUp
  PROVE  IInv'
<1>1. OgmiosTypeOK /\ AttemptOK
  BY DEF IInv
<1>2. /\ UNCHANGED <<mode, at, socket, context, client, sync, signal, leaked, orphaned>>
      /\ loop # "initialize" /\ loop' \in {"migrate", "awake", "connect", "asleep"}
  BY DEF Migrate, MigrationFails, CheckReady, WakeUp, history
<1>3. failures' \in 0 .. MaxFailures
  BY <1>1, OgmiosInitAssumption DEF Migrate, MigrationFails, CheckReady, WakeUp, history, Fails,
     OgmiosTypeOK
<1>4. OgmiosTypeOK'
  BY <1>1, <1>2, <1>3 DEF OgmiosTypeOK
<1>5. Steps' = Steps /\ (Ready' <=> Ready)
  BY <1>2 DEF Steps, Ready, OwnKinds
<1>6. AttemptOK'
  BY <1>1, <1>2, <1>5 DEF AttemptOK
<1>7. OnlyOne'
  <2> SUFFICES ASSUME ~leaked, NEW s \in Sockets, socket[s] = "open"
               PROVE  s = context /\ loop' \notin {"connect", "migrate", "initialize"} /\ Ready
    BY <1>2, <1>5 DEF OnlyOne
  <2>1. s = context /\ loop \notin {"connect", "migrate"} /\ (loop \in {"asleep", "awake"} => Ready)
    BY DEF IInv, OnlyOne
  <2> QED  BY <1>2, <2>1 DEF Migrate, MigrationFails, CheckReady, WakeUp
<1>8. ClientsAreConnected'
  BY <1>2 DEF IInv, ClientsAreConnected
<1> QED  BY <1>4, <1>6, <1>7, <1>8 DEF IInv

LEMMA ConnectIInv == IInv /\ Connect => IInv'
<1> SUFFICES ASSUME IInv, Connect PROVE IInv'
  OBVIOUS
<1>1. OgmiosTypeOK /\ Len(Steps) \in {2, 4}
  BY StepsOfMode DEF IInv
<1>2. /\ UNCHANGED <<mode, client, sync, signal, failures, leaked, orphaned>>
      /\ loop = "connect" /\ context' = NewSocket /\ GoOn(client', 1)
      /\ socket' = [socket EXCEPT ![NewSocket] = "open"]
  BY DEF Connect, history
<1>3. NewSocket \in Sockets /\ socket[NewSocket] = "unused"
  BY DEF Connect, NewSocket
<1>4. client' \in [Kinds -> Sockets \cup {NoSocket}]
  BY <1>1, <1>2 DEF OgmiosTypeOK
<1>5. \/ loop' = "asleep" /\ at' = 0 /\ Ready'
      \/ /\ loop' = "initialize" /\ at' \in 1 .. Len(Steps)
         /\ InPlace(at)'
  <2>1. 1 \in 1 .. Len(Steps) + 1 /\ \A j \in 1 .. Len(Steps) : ~(j < 1)
    BY <1>1
  <2> QED  BY <1>1, <1>2, <1>4, <2>1, GoesOn
<1>6. /\ socket'[NewSocket] = "open"
      /\ \A s \in Sockets : s # NewSocket => socket'[s] = socket[s]
      /\ socket' \in [Sockets -> {"unused", "open", "closed"}]
  BY <1>1, <1>2, <1>3 DEF OgmiosTypeOK
<1>7. OgmiosTypeOK'
  <2>1. at' \in 0 .. 4
    <3>1. 1 .. Len(Steps) \subseteq 0 .. 4
      <4>1. CASE Len(Steps) = 2
        BY <4>1
      <4>2. CASE Len(Steps) = 4
        BY <4>2
      <4> QED  BY <1>1, <4>1, <4>2
    <3> QED  BY <1>5, <3>1
  <2>2. context' \in Sockets \cup {NoSocket}
    BY <1>2, <1>3
  <2> QED  BY <1>1, <1>2, <1>4, <1>5, <1>6, <2>1, <2>2 DEF OgmiosTypeOK
<1>8. Steps' = Steps
  BY <1>2 DEF Steps
<1>9. AttemptOK'
  BY <1>1, <1>2, <1>3, <1>5, <1>6, <1>8 DEF AttemptOK
<1>10. OnlyOne'
  <2> SUFFICES ASSUME ~leaked, NEW s \in Sockets, socket'[s] = "open"
               PROVE  /\ s = NewSocket
                      /\ loop' \notin {"connect", "migrate"}
                      /\ loop' = "initialize" => InPlace(at)'
                      /\ loop' \in {"asleep", "awake"} => Ready'
    BY <1>2 DEF OnlyOne
  <2>1. s = NewSocket
    BY <1>2, <1>6 DEF IInv, OnlyOne
  <2> QED  BY <1>5, <2>1
<1>11. ClientsAreConnected'
  <2>1. \A k \in Kinds : client[k] # NoSocket /\ socket[client[k]] = "open"
                          => socket'[client[k]] = "open"
    BY <1>1, <1>3, <1>6 DEF OgmiosTypeOK
  <2> QED  BY <1>2, <2>1 DEF IInv, ClientsAreConnected
<1> QED  BY <1>7, <1>9, <1>10, <1>11 DEF IInv

\* A step of an attempt that settles, after which the attempt goes on.
LEMMA SettledIInv ==
  ASSUME IInv, loop = "initialize", GoOn(client', at + 1),
         UNCHANGED <<mode, socket, context, signal, failures, leaked>>,
         sync' \in [Sockets -> {"off", "waiting", "busy"}], orphaned' \in BOOLEAN,
         client' \in [Kinds -> Sockets \cup {NoSocket}], ClientsAreConnected',
         \A k \in Kinds : client'[k] # client[k] => client'[k] # NoSocket,
         Steps[at] \in Kinds => client'[Steps[at]] # NoSocket
  PROVE  IInv'
<1>1. OgmiosTypeOK /\ AttemptOK /\ OnlyOne /\ Len(Steps) \in {2, 4} /\ Steps' = Steps
  BY StepsOfMode DEF IInv, Steps
<1>2. at \in 1 .. Len(Steps) /\ at + 1 \in 1 .. Len(Steps) + 1
  BY <1>1 DEF AttemptOK
<1>3. /\ \/ loop' = "asleep" /\ at' = 0
         \/ loop' = "initialize" /\ at' \in 1 .. Len(Steps)
      /\ (\A j \in 1 .. Len(Steps) :
             j < at + 1 /\ Steps[j] \in Kinds => client'[Steps[j]] # NoSocket)
         => /\ loop' = "asleep" => Ready'
            /\ loop' = "initialize" => InPlace(at)'
  BY <1>1, <1>2, GoesOn
<1>4. OgmiosTypeOK'
  <2>1. at' \in 0 .. 4
    <3>1. 1 .. Len(Steps) \subseteq 0 .. 4
      <4>1. CASE Len(Steps) = 2
        BY <4>1
      <4>2. CASE Len(Steps) = 4
        BY <4>2
      <4> QED  BY <1>1, <4>1, <4>2
    <3> QED  BY <1>3, <3>1
  <2> QED  BY <1>1, <1>3, <2>1 DEF OgmiosTypeOK
<1>5. AttemptOK'
  BY <1>1, <1>3 DEF AttemptOK
<1>6. OnlyOne'
  <2> SUFFICES ASSUME ~leaked, NEW s \in Sockets, socket[s] = "open"
               PROVE  /\ s = context
                      /\ loop' = "initialize" => InPlace(at)'
                      /\ loop' = "asleep" => Ready'
    BY <1>3 DEF OnlyOne
  <2>1. s = context /\ InPlace(at)
    BY <1>1 DEF OnlyOne
  <2>2. \A j \in 1 .. Len(Steps) : j < at + 1 /\ Steps[j] \in Kinds => client'[Steps[j]] # NoSocket
    <3> SUFFICES ASSUME NEW j \in 1 .. Len(Steps), j < at + 1, Steps[j] \in Kinds
                 PROVE  client'[Steps[j]] # NoSocket
      OBVIOUS
    <3>1. CASE j = at
      BY <3>1
    <3>2. CASE j # at
      <4>1. j < at
        BY <1>1, <1>2, <3>2
      <4> QED  BY <2>1, <4>1 DEF InPlace
    <3> QED  BY <3>1, <3>2
  <2> QED  BY <1>3, <2>1, <2>2
<1> QED  BY <1>4, <1>5, <1>6 DEF IInv

LEMMA CreateClientIInv ==
  ASSUME IInv, NEW kind \in Kinds, CreateClient(kind)
  PROVE  IInv'
<1>1. OgmiosTypeOK /\ AttemptOK /\ ClientsAreConnected
  BY DEF IInv
<1>2. /\ UNCHANGED <<mode, socket, context, sync, signal, failures, leaked>>
      /\ loop = "initialize" /\ Steps[at] = kind /\ GoOn(client', at + 1)
      /\ client' = [client EXCEPT ![kind] = context]
      /\ orphaned' = (orphaned \/ socket[context] = "closed")
  BY DEF CreateClient, Awaits
<1>3. context \in Sockets /\ context # NoSocket /\ socket[context] # "unused"
  BY <1>1, <1>2 DEF OgmiosTypeOK, AttemptOK
<1>4. /\ client' \in [Kinds -> Sockets \cup {NoSocket}] /\ client'[kind] = context
      /\ \A k \in Kinds : k # kind => client'[k] = client[k]
  BY <1>1, <1>2 DEF OgmiosTypeOK
<1>5. orphaned' \in BOOLEAN
  BY <1>2
<1>6. ClientsAreConnected'
  <2>1. socket[context] \in {"open", "closed"}
    BY <1>1, <1>3 DEF OgmiosTypeOK
  <2> QED  BY <1>1, <1>2, <1>4, <2>1 DEF ClientsAreConnected
<1>7. sync' \in [Sockets -> {"off", "waiting", "busy"}]
  BY <1>1, <1>2 DEF OgmiosTypeOK
<1> QED  BY <1>2, <1>3, <1>4, <1>5, <1>6, <1>7, SettledIInv

LEMMA ReadPointIInv == IInv /\ ReadPoint => IInv'
<1> SUFFICES ASSUME IInv, ReadPoint PROVE IInv'
  OBVIOUS
<1>1. OgmiosTypeOK
  BY DEF IInv
<1>2. /\ UNCHANGED <<mode, socket, context, client, sync, signal, failures, leaked, orphaned>>
      /\ loop = "initialize" /\ Steps[at] = "point" /\ GoOn(client', at + 1)
  BY DEF ReadPoint, Awaits, history
<1>3. Steps[at] \notin Kinds
  BY <1>2 DEF Kinds
<1>4. ClientsAreConnected' /\ orphaned' \in BOOLEAN
      /\ sync' \in [Sockets -> {"off", "waiting", "busy"}]
      /\ client' \in [Kinds -> Sockets \cup {NoSocket}]
  BY <1>1, <1>2 DEF ClientsAreConnected, IInv, OgmiosTypeOK
<1> QED  BY <1>2, <1>3, <1>4, SettledIInv

LEMMA StartSyncIInv == IInv /\ StartSync => IInv'
<1> SUFFICES ASSUME IInv, StartSync PROVE IInv'
  OBVIOUS
<1>1. OgmiosTypeOK
  BY DEF IInv
<1>2. /\ UNCHANGED <<mode, socket, context, client, signal, failures, leaked, orphaned>>
      /\ loop = "initialize" /\ Steps[at] = "resume" /\ GoOn(client', at + 1)
      /\ sync' = [sync EXCEPT ![SyncSocket] = "waiting"]
  BY DEF StartSync, Awaits, history
<1>3. Steps[at] \notin Kinds
  BY <1>2 DEF Kinds
<1>4. ClientsAreConnected' /\ orphaned' \in BOOLEAN
      /\ sync' \in [Sockets -> {"off", "waiting", "busy"}]
      /\ client' \in [Kinds -> Sockets \cup {NoSocket}]
  BY <1>1, <1>2 DEF ClientsAreConnected, IInv, OgmiosTypeOK
<1> QED  BY <1>2, <1>3, <1>4, SettledIInv

LEMMA FailureIInv ==
  ASSUME IInv, AttemptFails \/ StartSyncThrows
  PROVE  IInv'
<1>1. OgmiosTypeOK /\ OnlyOne
  BY DEF IInv
<1>2. /\ UNCHANGED <<mode, socket, context, client, sync, signal, orphaned>>
      /\ loop' = "asleep" /\ at' = 0 /\ loop \in {"connect", "initialize"}
      /\ leaked' = (leaked \/ (loop = "initialize" /\ socket[context] = "open"))
  BY DEF AttemptFails, StartSyncThrows, GiveUp, Awaits
<1>3. failures' \in 0 .. MaxFailures
  BY <1>1, OgmiosInitAssumption DEF AttemptFails, StartSyncThrows, Fails, OgmiosTypeOK
<1>4. leaked' \in BOOLEAN
  BY <1>2
<1>5. OgmiosTypeOK'
  BY <1>1, <1>2, <1>3, <1>4 DEF OgmiosTypeOK
<1>6. AttemptOK'
  <2>1. Len(Steps) \in {2, 4} /\ Steps' = Steps
    BY <1>1, <1>2, StepsOfMode DEF Steps
  <2> QED  BY <1>2, <2>1 DEF AttemptOK
<1>7. OnlyOne'
  <2> SUFFICES ASSUME ~leaked', NEW s \in Sockets, socket[s] = "open" PROVE FALSE
    BY <1>2 DEF OnlyOne
  <2>1. s = context /\ loop # "connect"
    BY <1>1, <1>2 DEF OnlyOne
  <2> QED  BY <1>2, <2>1
<1>8. ClientsAreConnected'
  BY <1>2 DEF IInv, ClientsAreConnected
<1> QED  BY <1>5, <1>6, <1>7, <1>8 DEF IInv
-----------------------------------------------------------------------------
(* The events. *)

\* After a close no client is left, and without a leak nothing is open.
LEMMA CloseIInv ==
  ASSUME IInv, NEW s \in Sockets, Close(s),
         UNCHANGED <<mode, loop, at, context, leaked>>,
         failures' \in 0 .. MaxFailures, signal' \in -1 .. 3
  PROVE  IInv'
<1>1. OgmiosTypeOK /\ OnlyOne
  BY DEF IInv
<1>2. /\ socket' \in [Sockets -> {"unused", "open", "closed"}] /\ socket'[s] = "closed"
      /\ \A t \in Sockets : t # s => socket'[t] = socket[t]
      /\ socket[s] = "open"
      /\ sync' \in [Sockets -> {"off", "waiting", "busy"}]
      /\ client' = NoClients /\ orphaned' = FALSE
  BY <1>1 DEF Close, OgmiosTypeOK
<1>3. client' \in [Kinds -> Sockets \cup {NoSocket}] /\ \A k \in Kinds : client'[k] = NoSocket
  BY <1>2 DEF NoClients
<1>4. OgmiosTypeOK'
  <2>1. orphaned' \in BOOLEAN
    BY <1>2
  <2> QED  BY <1>1, <1>2, <1>3, <2>1 DEF OgmiosTypeOK
<1>5. AttemptOK'
  <2>1. context \in Sockets => socket'[context] # "unused" \/ socket[context] = "unused"
    BY <1>2
  <2> QED  BY <1>1, <2>1 DEF IInv, AttemptOK, Steps, OgmiosTypeOK
<1>6. OnlyOne'
  <2> SUFFICES ASSUME ~leaked, NEW t \in Sockets, socket'[t] = "open" PROVE FALSE
    BY DEF OnlyOne
  <2>1. t # s /\ socket[t] = "open"
    BY <1>2
  <2>2. t = context /\ s = context
    BY <1>1, <1>2, <2>1 DEF OnlyOne
  <2> QED  BY <2>1, <2>2
<1>7. ClientsAreConnected'
  BY <1>3 DEF ClientsAreConnected
<1> QED  BY <1>4, <1>5, <1>6, <1>7 DEF IInv

\* What leaves clients, connections and the attempt alone.
LEMMA QuietIInv ==
  ASSUME IInv, UNCHANGED <<mode, at, socket, context, client, leaked, orphaned>>,
         loop' = loop \/ loop' = "stopped",
         failures' \in 0 .. MaxFailures, signal' \in -1 .. 3,
         sync' \in [Sockets -> {"off", "waiting", "busy"}]
  PROVE  IInv'
<1>1. OgmiosTypeOK
  BY DEF IInv
<1>2. OgmiosTypeOK'
  BY <1>1 DEF OgmiosTypeOK
<1>3. Steps' = Steps /\ (Ready' <=> Ready)
  BY DEF Steps, Ready, OwnKinds
<1>4. AttemptOK' /\ ClientsAreConnected'
  BY <1>3 DEF IInv, AttemptOK, ClientsAreConnected
<1>5. OnlyOne'
  BY <1>3 DEF IInv, OnlyOne, InPlace
<1> QED  BY <1>2, <1>4, <1>5 DEF IInv

LEMMA CrashIInv == IInv /\ Crash => IInv'
<1> SUFFICES ASSUME IInv, Crash PROVE IInv'
  OBVIOUS
<1>1. OgmiosTypeOK
  BY DEF IInv
<1>2. /\ loop' \in {"awake", "migrate"} /\ at' = 0 /\ context' = NoSocket
      /\ client' = NoClients /\ socket' = [s \in Sockets |-> "unused"]
      /\ sync' = [s \in Sockets |-> "off"] /\ signal' = 0
      /\ leaked' = FALSE /\ orphaned' = FALSE /\ mode' = mode
  BY DEF Crash
<1>3. failures' \in 0 .. MaxFailures
  BY <1>1, OgmiosInitAssumption DEF Crash, Fails, OgmiosTypeOK
<1>4. OgmiosTypeOK'
  <2>1. leaked' \in BOOLEAN /\ orphaned' \in BOOLEAN
    BY <1>2, Zenon
  <2>2. client' \in [Kinds -> Sockets \cup {NoSocket}]
    BY <1>2 DEF NoClients
  <2>3. socket' \in [Sockets -> {"unused", "open", "closed"}]
        /\ sync' \in [Sockets -> {"off", "waiting", "busy"}]
    BY <1>2
  <2> QED  BY <1>1, <1>2, <1>3, <2>1, <2>2, <2>3 DEF OgmiosTypeOK
<1>5. AttemptOK'
  <2>1. Len(Steps) \in {2, 4} /\ Steps' = Steps
    BY <1>1, <1>2, StepsOfMode DEF Steps
  <2> QED  BY <1>2, <2>1 DEF AttemptOK
<1>6. OnlyOne' /\ ClientsAreConnected'
  BY <1>2 DEF OnlyOne, ClientsAreConnected, NoClients
<1> QED  BY <1>4, <1>5, <1>6 DEF IInv
-----------------------------------------------------------------------------
LEMMA NextIInv == IInv /\ [Next]_vars => IInv'
<1> SUFFICES ASSUME IInv, [Next]_vars PROVE IInv'
  OBVIOUS
<1>1. OgmiosTypeOK
  BY DEF IInv
<1>2. CASE Loop
  BY <1>2, WaitingIInv, ConnectIInv, ReadPointIInv, StartSyncIInv, CreateClientIInv DEF Loop
<1>3. CASE Failure
  <2>1. CASE MigrationFails
    BY <2>1, WaitingIInv
  <2>2. CASE AttemptFails \/ StartSyncThrows
    BY <2>2, FailureIInv
  <2>3. CASE Crash
    BY <2>3, CrashIInv
  <2>4. ASSUME NEW s \in Sockets, ConnectionCloses(s) PROVE IInv'
    <3>1. failures' \in 0 .. MaxFailures /\ signal' \in -1 .. 3
      BY <1>1, <2>4, OgmiosInitAssumption DEF ConnectionCloses, Fails, OgmiosTypeOK
    <3> QED  BY <2>4, <3>1, CloseIInv DEF ConnectionCloses
  <2> QED  BY <1>3, <2>1, <2>2, <2>3, <2>4 DEF Failure
<1>4. CASE SyncStep
  <2>1. PICK s \in Sockets : ReceiveBlock(s) \/ FinishBlock(s)
    BY <1>4 DEF SyncStep
  <2>2. /\ UNCHANGED <<mode, loop, at, socket, context, client, signal, failures, leaked, orphaned>>
        /\ sync' \in [Sockets -> {"off", "waiting", "busy"}]
    BY <1>1, <2>1 DEF ReceiveBlock, FinishBlock, history, OgmiosTypeOK
  <2>3. failures' \in 0 .. MaxFailures /\ signal' \in -1 .. 3
    BY <1>1, <2>2 DEF OgmiosTypeOK
  <2> QED  BY <2>2, <2>3, QuietIInv
<1>5. CASE CleanUp
  <2>1. signal \in -1 .. 3 /\ failures \in 0 .. MaxFailures
        /\ sync \in [Sockets -> {"off", "waiting", "busy"}]
    BY <1>1 DEF OgmiosTypeOK
  <2>2. CASE Signal \/ Exit
    BY <2>1, <2>2, QuietIInv DEF Signal, Exit, history
  <2>3. ASSUME NEW kind \in Kinds, ShutdownRejected(kind) PROVE IInv'
    BY <2>1, <2>3, QuietIInv DEF ShutdownRejected, history
  <2>4. ASSUME NEW kind \in Kinds, ShutDownClient(kind) PROVE IInv'
    <3>1. signal' \in -1 .. 3
      <4>1. Len(OwnKinds) = 2
        BY <1>1, StepsOfMode
      <4> QED  BY <2>1, <2>4, <4>1 DEF ShutDownClient, ShutsDown
    <3>2. CASE client[kind] # NoSocket /\ socket[client[kind]] = "open"
      <4>1. client[kind] \in Sockets
        BY <1>1, <3>2 DEF OgmiosTypeOK
      <4> QED  BY <2>1, <2>4, <3>1, <3>2, <4>1, CloseIInv DEF ShutDownClient
    <3>3. CASE ~(client[kind] # NoSocket /\ socket[client[kind]] = "open")
      BY <2>1, <2>4, <3>1, <3>3, QuietIInv DEF ShutDownClient
    <3> QED  BY <3>2, <3>3
  <2> QED  BY <1>5, <2>2, <2>3, <2>4 DEF CleanUp
<1>6. CASE UNCHANGED vars
  <2>1. UNCHANGED <<mode, loop, at, socket, context, client, sync, signal, failures, leaked, orphaned>>
    BY <1>6 DEF vars
  <2>2. /\ failures' \in 0 .. MaxFailures /\ signal' \in -1 .. 3
        /\ sync' \in [Sockets -> {"off", "waiting", "busy"}]
    BY <1>1, <2>1 DEF OgmiosTypeOK
  <2> QED  BY <2>1, <2>2, QuietIInv
<1> QED  BY <1>2, <1>3, <1>4, <1>5, <1>6 DEF Next

\* The strengthened invariant holds throughout every behaviour of the process.
THEOREM Invariance == Spec => []IInv
<1> QED  BY InitIInv, NextIInv, PTL DEF Spec

\* Type correctness of the loop, the connections and the clients.
THEOREM OgmiosTypeCorrect == Spec => []OgmiosTypeOK
<1>1. IInv => OgmiosTypeOK
  BY DEF IInv
<1> QED  BY <1>1, Invariance, PTL

\* Two connections deliver blocks at a time only after an attempt left its
\* connection open, however often connections are lost and clients recreated.
THEOREM SynchronizationCorrect == Spec => []OneSynchronization
<1>1. IInv => OneSynchronization
  BY DEF IInv, OnlyOne, OneSynchronization
<1> QED  BY <1>1, Invariance, PTL

\* The loop never takes the client of a closed connection for a ready one,
\* unless the connection closed during its creation.
THEOREM ClientsCorrect == Spec => []ClientsAreConnected
<1>1. IInv => ClientsAreConnected
  BY DEF IInv
<1> QED  BY <1>1, Invariance, PTL
=============================================================================
