------------------------- MODULE LatestBlockProofs -------------------------
(***************************************************************************)
(* Proofs about the latest block of the server, for any number of blocks,  *)
(* rollbacks, reads under way and restarts.  The inductive invariant says  *)
(* what is still on its way to correct the block in memory: an unhandled   *)
(* notification, a trailing edge, an unanswered read, or the answer of a   *)
(* read made since the last change.                                        *)
(***************************************************************************)
EXTENDS LatestBlock, SequenceTheorems, TLAPS

Last == notifications[Len(notifications)]

Current(r) == reads[r].state = "answered" /\ reads[r].version = version

ReadsOK ==
  \A r \in 1 .. MaxReads :
    \/ reads[r] = NoRead
    \/ reads[r] = Asked
    \/ /\ reads[r].state = "answered"
       /\ reads[r].version <= version
       /\ reads[r].version = version => reads[r].block = Newest
       /\ reads[r].block = Unknown => emptied

NotificationsOK ==
  /\ \A i \in 1 .. Len(notifications) : /\ notifications[i].version <= version
                                        /\ notifications[i].block # Unknown
  /\ notifications # <<>> =>
       /\ Last.version = version
       /\ Last.op = "INSERT" => Last.block = Newest

StartOK ==
  stage # "serving" =>
    /\ notifications = <<>> /\ timer = "idle" /\ ~missed /\ ~overtaken
    /\ \A r \in 1 .. MaxReads : r # 1 => reads[r] = NoRead
    /\ stage = "reading" => top = 0
    /\ stage = "connecting" => reads[1] = NoRead /\ (top = version => latest = Newest)

NothingComing ==
  /\ stage = "serving" /\ notifications = <<>> /\ timer # "again"
  /\ \A r \in 1 .. MaxReads : reads[r] # Asked /\ ~Current(r)

Settled == NothingComing => top = version /\ (missed \/ overtaken \/ latest = Newest)

EmptiedOK ==
  /\ rows = <<>> => emptied
  /\ stage # "reading" /\ latest = Unknown => emptied

Base == LatestBlockTypeOK /\ top <= version

IInv == Base /\ ReadsOK /\ NotificationsOK /\ StartOK /\ Settled /\ EmptiedOK
-----------------------------------------------------------------------------
USE DEF Unknown, Blocks

LEMMA NewestBlock ==
  ASSUME LatestBlockTypeOK
  PROVE  /\ Newest \in Blocks
         /\ Newest = Unknown <=> rows = <<>>
<1>1. rows \in Seq(Blocks \ {Unknown})
  BY DEF LatestBlockTypeOK
<1>2. CASE rows = <<>>
  BY <1>2, LatestBlockAssumption DEF Newest
<1>3. CASE rows # <<>>
  <2>1. Len(rows) \in 1 .. Len(rows)
    BY <1>1, <1>3
  <2>2. rows[Len(rows)] \in Blocks \ {Unknown}
    BY <1>1, <2>1, ElementOfSeq
  <2> QED  BY <1>3, <2>2 DEF Newest
<1> QED  BY <1>2, <1>3

LEMMA InitIInv == Init => IInv
<1> SUFFICES ASSUME Init PROVE IInv
  OBVIOUS
<1> USE LatestBlockAssumption DEF Init
<1>1. version = 0 /\ Newest = Unknown
  BY DEF version, Newest
<1>2. Base
  <2>1. rows \in Seq(Blocks \ {Unknown})
    BY EmptySeq
  <2>2. notifications \in Seq(Notes)
    BY EmptySeq
  <2>3. NoRead \in ReadStates /\ Asked \in ReadStates
    BY DEF NoRead, Asked, ReadStates
  <2>4. reads \in [1 .. MaxReads -> ReadStates]
    BY <2>3
  <2>5. missed \in BOOLEAN /\ overtaken \in BOOLEAN /\ emptied \in BOOLEAN
    BY Zenon
  <2>6. LatestBlockTypeOK
    BY <2>1, <2>2, <2>4, <2>5 DEF LatestBlockTypeOK
  <2> QED  BY <1>1, <2>6 DEF Base
<1>3. ReadsOK /\ NotificationsOK
  BY DEF ReadsOK, NotificationsOK
<1>4. StartOK /\ Settled /\ EmptiedOK
  BY <1>1 DEF StartOK, Settled, NothingComing, EmptiedOK
<1> QED  BY <1>2, <1>3, <1>4 DEF IInv
-----------------------------------------------------------------------------
(* What the steps of the aggregator send. *)

LEMMA NotifySends ==
  ASSUME IInv, version' = version + 1,
         NEW new, Notify(new),
         new \in Seq(Notes),
         new # <<>>,
         \A i \in 1 .. Len(new) : new[i].version = version' /\ new[i].block # Unknown,
         new[Len(new)].op = "INSERT" => new[Len(new)].block = Newest',
         UNCHANGED stage
  PROVE  /\ notifications' \in Seq(Notes)
         /\ NotificationsOK'
         /\ stage = "serving" => notifications' # <<>>
         /\ stage # "serving" => notifications' = <<>>
<1>1. notifications \in Seq(Notes) /\ version \in Nat /\ NotificationsOK
  BY DEF IInv, Base, LatestBlockTypeOK, version
<1>2. CASE stage = "serving"
  <2>1. notifications' = notifications \o new
    BY <1>2 DEF Notify
  <2>2. /\ notifications' \in Seq(Notes)
        /\ Len(notifications') = Len(notifications) + Len(new)
        /\ \A i \in 1 .. Len(notifications) + Len(new) : notifications'[i] =
             IF i <= Len(notifications) THEN notifications[i] ELSE new[i - Len(notifications)]
    BY <1>1, <2>1, ConcatProperties
  <2>3. Len(new) \in Nat \ {0} /\ Len(notifications) \in Nat
    BY <1>1
  <2>4. \A i \in 1 .. Len(notifications') : /\ notifications'[i].version <= version'
                                            /\ notifications'[i].block # Unknown
    <3> TAKE i \in 1 .. Len(notifications')
    <3>1. CASE i <= Len(notifications)
      <4>1. i \in 1 .. Len(notifications) /\ notifications'[i] = notifications[i]
        BY <2>2, <2>3, <3>1
      <4>2. notifications[i].version <= version /\ notifications[i].block # Unknown
        BY <1>1, <4>1 DEF NotificationsOK
      <4>3. notifications[i].version \in Nat
        <5>1. notifications[i] \in Notes
          BY <1>1, <4>1, ElementOfSeq
        <5> QED  BY <5>1 DEF Notes
      <4> QED  BY <1>1, <4>1, <4>2, <4>3, version' = version + 1
    <3>2. CASE ~(i <= Len(notifications))
      <4>1. /\ i - Len(notifications) \in 1 .. Len(new)
            /\ notifications'[i] = new[i - Len(notifications)]
        BY <2>2, <2>3, <3>2
      <4>2. new[i - Len(notifications)].version = version' /\ version' \in Nat
        BY <1>1, <4>1
      <4> QED  BY <4>1, <4>2
    <3> QED  BY <3>1, <3>2
  <2>5. Last' = new[Len(new)] /\ Len(new) \in 1 .. Len(new)
    <3>1. Len(notifications') \in 1 .. Len(notifications')
      BY <2>2, <2>3
    <3> QED  BY <2>2, <2>3, <3>1 DEF Last
  <2>6. notifications' # <<>>
    BY <2>2, <2>3
  <2>7. Last'.version = version' /\ (Last'.op = "INSERT" => Last'.block = Newest')
    BY <2>5
  <2> QED  BY <1>2, <2>2, <2>4, <2>6, <2>7 DEF NotificationsOK
<1>3. CASE stage # "serving"
  <2>1. notifications' = <<>>
    BY <1>3 DEF Notify, IInv, StartOK
  <2> QED  BY <1>3, <2>1 DEF NotificationsOK
<1> QED  BY <1>2, <1>3

\* After a change of the table no answer is current any more.
LEMMA ChangeKeepsReads ==
  ASSUME IInv, version' = version + 1, UNCHANGED reads, emptied => emptied'
  PROVE  ReadsOK' /\ \A r \in 1 .. MaxReads : ~Current(r)'
<1>1. version \in Nat /\ \A r \in 1 .. MaxReads : reads[r].version \in Nat
  <2>1. reads \in [1 .. MaxReads -> ReadStates] /\ version \in Nat
    BY DEF IInv, Base, LatestBlockTypeOK, version
  <2> QED  BY <2>1 DEF ReadStates
<1>2. ASSUME NEW r \in 1 .. MaxReads, reads[r].state = "answered"
      PROVE  /\ reads[r].version < version' /\ reads[r].version # version'
             /\ reads[r].block = Unknown => emptied'
  <2>1. reads[r].version <= version /\ (reads[r].block = Unknown => emptied)
    BY <1>2 DEF IInv, ReadsOK, NoRead, Asked
  <2> QED  BY <1>1, <2>1
<1>3. ReadsOK
  BY DEF IInv
<1>4. ReadsOK'
  BY <1>1, <1>2, <1>3 DEF ReadsOK
<1> QED  BY <1>2, <1>4 DEF Current

\* A step of the aggregator keeps the invariant if the table keeps its type.
LEMMA ChangeIInv ==
  ASSUME IInv, version' = version + 1, LatestBlockTypeOK',
         NotificationsOK',
         stage = "serving" => notifications' # <<>>,
         stage # "serving" => notifications' = <<>>,
         emptied => emptied', rows' = <<>> => emptied',
         UNCHANGED <<latest, stage, timer, reads, top, missed, overtaken>>
  PROVE  IInv'
<1>1. version \in Nat /\ top \in Nat /\ top <= version
  BY DEF IInv, Base, LatestBlockTypeOK, version
<1>2. Base'
  BY <1>1 DEF Base
<1>3. ReadsOK'
  BY ChangeKeepsReads
<1>4. StartOK'
  BY <1>1 DEF IInv, StartOK
<1>5. Settled'
  BY DEF Settled, NothingComing
<1>6. EmptiedOK'
  BY DEF IInv, EmptiedOK
<1> QED  BY <1>2, <1>3, <1>4, <1>5, <1>6 DEF IInv

LEMMA InsertBlockIInv == IInv /\ InsertBlock => IInv'
<1> SUFFICES ASSUME IInv, InsertBlock PROVE IInv'
  OBVIOUS
<1> DEFINE note == Notification("INSERT", inserted + 1, version + 1)
<1>1. LatestBlockTypeOK
  BY DEF IInv, Base
<1>2. inserted + 1 \in Blocks \ {Unknown} /\ version' = version + 1 /\ version + 1 \in Nat
  BY <1>1, LatestBlockAssumption DEF LatestBlockTypeOK, InsertBlock, version
<1>3. rows' \in Seq(Blocks \ {Unknown}) /\ rows' # <<>> /\ Newest' = inserted + 1
  <2>1. rows \in Seq(Blocks \ {Unknown}) /\ rows' = Append(rows, inserted + 1)
    BY <1>1 DEF LatestBlockTypeOK, InsertBlock
  <2>2. /\ rows' \in Seq(Blocks \ {Unknown}) /\ rows' # <<>>
        /\ Len(rows') = Len(rows) + 1 /\ rows'[Len(rows) + 1] = inserted + 1
    BY <1>2, <2>1, AppendProperties
  <2> QED  BY <2>2 DEF Newest
<1>4. note \in Notes
  BY <1>2 DEF Notification, Notes
<1>5. /\ notifications' \in Seq(Notes)
      /\ NotificationsOK'
      /\ stage = "serving" => notifications' # <<>>
      /\ stage # "serving" => notifications' = <<>>
  <2> DEFINE new == <<note>>
  <2>1. /\ new \in Seq(Notes)
        /\ new # <<>> /\ Len(new) = 1 /\ new[1] = note
    <3> HIDE DEF note
    <3> QED  BY <1>4
  <2>2. note.version = version' /\ note.block # Unknown /\ note.block = Newest'
    BY <1>2, <1>3 DEF Notification, Notes
  <2>3. Notify(new) /\ UNCHANGED stage
    BY DEF InsertBlock
  <2> HIDE DEF note, new
  <2>4. \A i \in 1 .. Len(new) : new[i].version = version' /\ new[i].block # Unknown
    BY <2>1, <2>2
  <2>5. new[Len(new)].op = "INSERT" => new[Len(new)].block = Newest'
    BY <2>1, <2>2
  <2> QED  BY <1>2, <2>1, <2>3, <2>4, <2>5, NotifySends
<1>6. LatestBlockTypeOK'
  BY <1>1, <1>3, <1>5 DEF LatestBlockTypeOK, InsertBlock, history
<1> QED  BY <1>2, <1>3, <1>5, <1>6, ChangeIInv DEF InsertBlock, history

LEMMA RollBackIInv ==
  ASSUME IInv, NEW n \in 0 .. Len(rows) - 1, RollBack(n)
  PROVE  IInv'
<1> DEFINE note(i) == Notification("DELETE", rows[n + i], version + 1)
           new == [i \in 1 .. Len(rows) - n |-> note(i)]
<1>1. LatestBlockTypeOK /\ Len(rows) \in Nat /\ n \in Nat /\ n < Len(rows)
  BY DEF IInv, Base, LatestBlockTypeOK
<1>2. version' = version + 1 /\ version + 1 \in Nat
  BY <1>1 DEF LatestBlockTypeOK, RollBack, version
<1>3. \A i \in 1 .. Len(rows) : rows[i] \in Blocks \ {Unknown}
  BY <1>1, ElementOfSeq DEF LatestBlockTypeOK
<1>4. rows' \in Seq(Blocks \ {Unknown}) /\ (rows' = <<>> => n = 0)
  <2>1. /\ SubSeq(rows, 1, n) \in Seq(Blocks \ {Unknown})
        /\ Len(SubSeq(rows, 1, n)) = IF 1 <= n THEN n - 1 + 1 ELSE 0
    BY <1>1, <1>3, SubSeqProperties
  <2>2. Len(rows') = n /\ rows' \in Seq(Blocks \ {Unknown})
    BY <1>1, <2>1 DEF RollBack
  <2> QED  BY <2>2
<1>5. \A i \in 1 .. Len(rows) - n :
        /\ note(i) \in Notes
        /\ note(i).version = version' /\ note(i).block # Unknown /\ note(i).op # "INSERT"
  BY <1>1, <1>2, <1>3 DEF Notification, Notes
<1>6. /\ notifications' \in Seq(Notes)
      /\ NotificationsOK'
      /\ stage = "serving" => notifications' # <<>>
      /\ stage # "serving" => notifications' = <<>>
  <2>1. Len(rows) - n \in Nat /\ Len(rows) - n > 0
    BY <1>1
  <2>2. /\ new \in Seq(Notes)
        /\ Len(new) = Len(rows) - n
    <3>1. new \in [1 .. Len(rows) - n -> Notes]
      BY <1>5
    <3> HIDE DEF new, note
    <3> QED  BY <2>1, <3>1
  <2>3. /\ \A i \in 1 .. Len(new) : /\ new[i].version = version' /\ new[i].block # Unknown
                                    /\ new[i].op # "INSERT"
        /\ Len(new) \in 1 .. Len(new)
        /\ new # <<>>
    <3>1. \A i \in 1 .. Len(rows) - n : new[i] = note(i)
      OBVIOUS
    <3> HIDE DEF new, note
    <3> QED  BY <1>5, <2>1, <2>2, <3>1
  <2>4. Notify(new) /\ UNCHANGED stage
    BY DEF RollBack
  <2> HIDE DEF new, note
  <2> QED  BY <1>2, <2>2, <2>3, <2>4, NotifySends
<1>7. LatestBlockTypeOK'
  <2>1. rollbacks' \in 0 .. MaxRollbacks /\ UNCHANGED inserted
    BY <1>1, LatestBlockAssumption DEF LatestBlockTypeOK, RollBack
  <2>2. emptied' \in BOOLEAN
    BY <1>1 DEF LatestBlockTypeOK, RollBack
  <2> QED  BY <1>1, <1>4, <1>6, <2>1, <2>2 DEF LatestBlockTypeOK, RollBack
<1> QED  BY <1>2, <1>4, <1>6, <1>7, ChangeIInv DEF RollBack
-----------------------------------------------------------------------------
(* The steps of the server. *)

ServerTypes ==
  /\ notifications' \in Seq(Notes) /\ latest' \in Blocks
  /\ stage' \in {"reading", "connecting", "serving"}
  /\ timer' \in {"idle", "running", "again"}
  /\ reads' \in [1 .. MaxReads -> ReadStates]
  /\ top' \in Nat /\ missed' \in BOOLEAN /\ overtaken' \in BOOLEAN /\ emptied' \in BOOLEAN

LEMMA ServerType ==
  ASSUME LatestBlockTypeOK, ServerTypes, UNCHANGED dbVars, crashes' \in 0 .. MaxCrashes
  PROVE  LatestBlockTypeOK' /\ version' = version /\ Newest' = Newest /\ rows' = rows
<1>1. UNCHANGED <<rows, inserted, rollbacks>>
  BY DEF dbVars
<1>2. version' = version /\ Newest' = Newest
  BY <1>1 DEF version, Newest
<1> QED  BY <1>1, <1>2 DEF LatestBlockTypeOK, ServerTypes

LEMMA Facts ==
  ASSUME IInv
  PROVE  /\ version \in Nat /\ top \in Nat /\ top <= version
         /\ Newest \in Blocks /\ (Newest = Unknown <=> rows = <<>>)
         /\ \A r \in 1 .. MaxReads : /\ reads[r] \in ReadStates
                                     /\ reads[r].version \in Nat
                                     /\ reads[r].block \in Blocks
<1>1. /\ LatestBlockTypeOK /\ top <= version /\ top \in Nat
      /\ reads \in [1 .. MaxReads -> ReadStates]
  BY DEF IInv, Base, LatestBlockTypeOK
<1>2. version \in Nat
  BY <1>1 DEF LatestBlockTypeOK, version
<1> QED  BY <1>1, <1>2, NewestBlock DEF ReadStates

\* Sending a read is a correction on its way.
LEMMA AskIInv ==
  ASSUME IInv, NEW r \in 1 .. MaxReads, Ask(r), stage = "serving",
         notifications' \in Seq(Notes), NotificationsOK',
         timer' \in {"idle", "running", "again"},
         UNCHANGED <<dbVars, latest, stage, crashes, history>>
  PROVE  IInv'
<1>1. LatestBlockTypeOK /\ UNCHANGED <<top, missed, overtaken, emptied>>
  BY DEF IInv, Base, history
<1>2. Asked \in ReadStates /\ Asked.state # "answered" /\ Asked # NoRead
  BY LatestBlockAssumption DEF Asked, NoRead, ReadStates
<1>3. reads' \in [1 .. MaxReads -> ReadStates] /\ reads'[r] = Asked
  BY <1>1, <1>2 DEF LatestBlockTypeOK, Ask
<1>4. LatestBlockTypeOK' /\ version' = version /\ Newest' = Newest /\ rows' = rows
  <2>1. ServerTypes /\ crashes' \in 0 .. MaxCrashes
    BY <1>1, <1>3 DEF LatestBlockTypeOK, ServerTypes
  <2> QED  BY <1>1, <2>1, ServerType
<1>5. Base'
  BY <1>1, <1>4 DEF Base, IInv
<1>6. ReadsOK'
  <2>1. ReadsOK /\ \A s \in 1 .. MaxReads : reads'[s] \in {reads[s], Asked}
    BY <1>1 DEF IInv, Ask, LatestBlockTypeOK
  <2> QED  BY <1>1, <1>4, <2>1 DEF ReadsOK
<1>7. StartOK' /\ Settled'
  BY <1>3 DEF StartOK, Settled, NothingComing
<1>8. EmptiedOK'
  BY <1>1, <1>4 DEF EmptiedOK, IInv
<1> QED  BY <1>5, <1>6, <1>7, <1>8 DEF IInv

LEMMA AnswerReadIInv ==
  ASSUME IInv, NEW r \in 1 .. MaxReads, AnswerRead(r)
  PROVE  IInv'
<1>1. LatestBlockTypeOK /\ UNCHANGED <<top, missed, overtaken, emptied>>
  BY DEF IInv, Base, AnswerRead, history
<1> DEFINE a == Answer(Newest, version)
<1>2. a \in ReadStates /\ a.state = "answered" /\ a.version = version /\ a.block = Newest
  BY Facts DEF Answer, ReadStates
<1>3. reads' \in [1 .. MaxReads -> ReadStates] /\ reads'[r] = a
  <2> HIDE DEF a
  <2>1. reads' = [reads EXCEPT ![r] = a] /\ reads \in [1 .. MaxReads -> ReadStates]
    BY <1>1 DEF LatestBlockTypeOK, AnswerRead, a
  <2> QED  BY <1>2, <2>1
<1> HIDE DEF a
<1>4. LatestBlockTypeOK' /\ version' = version /\ Newest' = Newest /\ rows' = rows
  <2>1. ServerTypes /\ crashes' \in 0 .. MaxCrashes
    BY <1>1, <1>3 DEF LatestBlockTypeOK, ServerTypes, AnswerRead
  <2> QED  BY <1>1, <2>1, ServerType DEF AnswerRead
<1>5. Base'
  BY <1>1, <1>4 DEF Base, IInv
<1>6. \A s \in 1 .. MaxReads : s # r => reads'[s] = reads[s]
  BY <1>1 DEF LatestBlockTypeOK, AnswerRead
<1>7. ReadsOK'
  <2>1. a.version <= version /\ (a.block = Unknown => emptied)
    BY <1>2, Facts DEF IInv, EmptiedOK
  <2>2. ReadsOK
    BY DEF IInv
  <2> QED  BY <1>1, <1>2, <1>3, <1>4, <1>6, <2>1, <2>2 DEF ReadsOK
<1>8. StartOK'
  <2>1. stage # "serving" => r = 1 /\ stage = "reading"
    BY DEF IInv, StartOK, AnswerRead, NoRead, Asked, LatestBlockTypeOK, Base
  <2> QED  BY <1>1, <1>4, <1>6, <2>1 DEF IInv, StartOK, AnswerRead
<1>9. Settled'
  BY <1>2, <1>3, <1>4 DEF Settled, NothingComing, Current
<1>10. NotificationsOK' /\ EmptiedOK'
  BY <1>1, <1>4 DEF IInv, NotificationsOK, EmptiedOK, AnswerRead, Last
<1> QED  BY <1>5, <1>7, <1>8, <1>9, <1>10 DEF IInv

LEMMA ApplyReadIInv ==
  ASSUME IInv, NEW r \in 1 .. MaxReads, ApplyRead(r)
  PROVE  IInv'
<1>1. /\ LatestBlockTypeOK
      /\ UNCHANGED <<notifications, timer, crashes, emptied>>
      /\ UNCHANGED dbVars
      /\ reads[r].state = "answered" /\ latest' = reads[r].block
  BY DEF IInv, Base, ApplyRead
<1>2. /\ reads[r].version \in Nat /\ reads[r].block \in Blocks
      /\ reads[r].version <= version
      /\ reads[r].version = version => reads[r].block = Newest
      /\ reads[r].block = Unknown => emptied
  BY <1>1, Facts DEF IInv, ReadsOK, NoRead, Asked
<1>3. /\ reads' \in [1 .. MaxReads -> ReadStates] /\ reads'[r] = NoRead
      /\ \A s \in 1 .. MaxReads : s # r => reads'[s] = reads[s]
  <2>1. reads' = [reads EXCEPT ![r] = NoRead] /\ reads \in [1 .. MaxReads -> ReadStates]
    BY <1>1 DEF LatestBlockTypeOK, ApplyRead
  <2>2. NoRead \in ReadStates
    BY LatestBlockAssumption DEF NoRead, ReadStates
  <2> QED  BY <2>1, <2>2
<1>4. /\ top' \in Nat /\ top' <= version
      /\ reads[r].version = version => top' = version
      /\ reads[r].version < top => overtaken' /\ top' = top
      /\ ~(reads[r].version < top) => ~overtaken' /\ top' = reads[r].version /\ ~missed'
  <2>1. /\ overtaken' <=> reads[r].version < top
        /\ missed' <=> (missed /\ overtaken')
        /\ top' = IF overtaken' THEN top ELSE reads[r].version
    BY <1>1 DEF ApplyRead, LatestBlockTypeOK
  <2> QED  BY <1>2, <2>1, Facts
<1>5. LatestBlockTypeOK' /\ version' = version /\ Newest' = Newest /\ rows' = rows
  <2>1. overtaken' \in BOOLEAN /\ missed' \in BOOLEAN
    BY <1>1 DEF ApplyRead, LatestBlockTypeOK
  <2>2. stage' \in {"reading", "connecting", "serving"}
    BY <1>1 DEF ApplyRead, LatestBlockTypeOK
  <2>3. ServerTypes /\ crashes' \in 0 .. MaxCrashes
    BY <1>1, <1>2, <1>3, <1>4, <2>1, <2>2 DEF LatestBlockTypeOK, ServerTypes
  <2> QED  BY <1>1, <2>3, ServerType
<1>6. Base'
  BY <1>4, <1>5 DEF Base
<1>7. ReadsOK'
  <2>1. ReadsOK
    BY DEF IInv
  <2> QED  BY <1>1, <1>3, <1>5, <2>1 DEF ReadsOK
<1>8. StartOK'
  <2>1. CASE stage = "serving"
    BY <2>1 DEF ApplyRead, StartOK
  <2>2. CASE stage # "serving"
    <3>1. r = 1 /\ stage = "reading" /\ top = 0 /\ ~missed
      BY <1>1, <2>2 DEF IInv, StartOK, NoRead, Base, LatestBlockTypeOK
    <3>2. ~overtaken' /\ ~missed' /\ top' = reads[r].version
      BY <1>2, <1>4, <3>1
    <3> QED  BY <1>1, <1>2, <1>3, <1>5, <3>1, <3>2 DEF IInv, StartOK, ApplyRead
  <2> QED  BY <2>1, <2>2
<1>9. Settled'
  <2> SUFFICES ASSUME NothingComing'
               PROVE  top' = version /\ (overtaken' \/ latest' = Newest)
    BY <1>5 DEF Settled
  <2>1. CASE reads[r].version = version
    BY <1>1, <1>2, <1>4, <2>1
  <2>2. CASE reads[r].version # version
    <3>2. stage = "serving"
      BY DEF NothingComing, ApplyRead
    <3>3. NothingComing
      <4>1. \A s \in 1 .. MaxReads : reads[s] # Asked /\ ~Current(s)
        BY <1>1, <1>3, <1>5, <2>2 DEF NothingComing, Current, Asked
      <4> QED  BY <1>1, <3>2, <4>1 DEF NothingComing
    <3>4. top = version
      BY <3>3 DEF IInv, Settled
    <3> QED  BY <1>2, <1>4, <2>2, <3>4, Facts
  <2> QED  BY <2>1, <2>2
<1>10. NotificationsOK' /\ EmptiedOK'
  BY <1>1, <1>2, <1>5 DEF IInv, NotificationsOK, EmptiedOK, Last
<1> QED  BY <1>6, <1>7, <1>8, <1>9, <1>10 DEF IInv

LEMMA ListenIInv == IInv /\ Listen => IInv'
<1> SUFFICES ASSUME IInv, Listen PROVE IInv'
  OBVIOUS
<1>1. /\ LatestBlockTypeOK
      /\ UNCHANGED <<notifications, latest, timer, reads, crashes, overtaken, emptied>>
      /\ UNCHANGED dbVars
      /\ stage = "connecting" /\ stage' = "serving" /\ top' = version
  BY DEF IInv, Base, Listen
<1>2. missed' \in BOOLEAN /\ (missed' <=> top # version)
  BY <1>1 DEF Listen
<1>3. LatestBlockTypeOK' /\ version' = version /\ Newest' = Newest /\ rows' = rows
  <2>1. ServerTypes /\ crashes' \in 0 .. MaxCrashes
    BY <1>1, <1>2, Facts DEF LatestBlockTypeOK, ServerTypes
  <2> QED  BY <1>1, <2>1, ServerType
<1>4. Base'
  BY <1>1, <1>3, Facts DEF Base
<1>5. ReadsOK' /\ NotificationsOK' /\ EmptiedOK'
  BY <1>1, <1>3 DEF IInv, ReadsOK, NotificationsOK, EmptiedOK, Last
<1>6. StartOK' /\ Settled'
  BY <1>1, <1>2, <1>3 DEF IInv, StartOK, Settled
<1> QED  BY <1>4, <1>5, <1>6 DEF IInv

\* What is left of the notifications once the first is handled.
LEMMA HeadHandled ==
  ASSUME IInv, notifications # <<>>, notifications' = Tail(notifications),
         version' = version, Newest' = Newest
  PROVE  /\ notifications' \in Seq(Notes) /\ NotificationsOK'
         /\ Head(notifications) \in Notes
         /\ Head(notifications).version <= version /\ Head(notifications).block # Unknown
         /\ notifications' = <<>> => Head(notifications) = Last
         /\ stage = "serving"
<1>1. notifications \in Seq(Notes) /\ NotificationsOK /\ stage = "serving"
  BY DEF IInv, Base, LatestBlockTypeOK, StartOK
<1>2. /\ Head(notifications) \in Notes /\ notifications' \in Seq(Notes)
      /\ Len(notifications') = Len(notifications) - 1
      /\ \A i \in 1 .. Len(notifications') : notifications'[i] = notifications[i + 1]
  BY <1>1, HeadTailProperties
<1>3. Len(notifications) \in Nat \ {0} /\ Head(notifications) = notifications[1]
  BY <1>1
<1>4. \A i \in 1 .. Len(notifications') : i + 1 \in 1 .. Len(notifications)
  BY <1>2, <1>3
<1>5. notifications' # <<>> => Last' = Last
  <2>1. notifications' # <<>> => Len(notifications') \in 1 .. Len(notifications')
    BY <1>2
  <2> QED  BY <1>2, <1>3, <2>1 DEF Last
<1>6. NotificationsOK'
  BY <1>1, <1>2, <1>4, <1>5 DEF NotificationsOK
<1>7. 1 \in 1 .. Len(notifications)
  BY <1>3
<1>8. notifications' = <<>> => Len(notifications) = 1
  BY <1>2, <1>3
<1> QED  BY <1>1, <1>2, <1>3, <1>6, <1>7, <1>8 DEF NotificationsOK, Last

LEMMA HandleInsertIInv == IInv /\ HandleInsert => IInv'
<1> SUFFICES ASSUME IInv, HandleInsert PROVE IInv'
  OBVIOUS
<1> DEFINE note == Head(notifications)
<1>1. /\ LatestBlockTypeOK /\ notifications # <<>> /\ note.op = "INSERT"
      /\ UNCHANGED <<stage, timer, reads, crashes, emptied>> /\ UNCHANGED dbVars
      /\ notifications' = Tail(notifications) /\ latest' = note.block
      /\ top' = IF top < note.version THEN note.version ELSE top
      /\ missed' = FALSE /\ overtaken' = FALSE
  BY DEF IInv, Base, HandleInsert
<1>2. version' = version /\ Newest' = Newest
  BY <1>1 DEF dbVars, version, Newest
<1>3. /\ notifications' \in Seq(Notes) /\ NotificationsOK'
      /\ note \in Notes /\ note.version <= version /\ note.block # Unknown
      /\ notifications' = <<>> => note = Last
      /\ stage = "serving"
  BY <1>1, <1>2, HeadHandled
<1>4. note.version \in Nat /\ note.block \in Blocks
  BY <1>3 DEF Notes
<1> HIDE DEF note
<1>5. top' \in Nat /\ top' <= version /\ (note.version = version => top' = version)
  BY <1>1, <1>3, <1>4, Facts
<1>6. LatestBlockTypeOK' /\ rows' = rows
  <2>1. missed' \in BOOLEAN /\ overtaken' \in BOOLEAN
    BY <1>1
  <2>2. ServerTypes /\ crashes' \in 0 .. MaxCrashes
    BY <1>1, <1>3, <1>4, <1>5, <2>1 DEF LatestBlockTypeOK, ServerTypes
  <2> QED  BY <1>1, <2>2, ServerType
<1>7. Base' /\ ReadsOK'
  BY <1>1, <1>2, <1>5, <1>6 DEF Base, IInv, ReadsOK
<1>8. StartOK' /\ EmptiedOK'
  BY <1>1, <1>3, <1>6 DEF IInv, StartOK, EmptiedOK
<1>9. Settled'
  <2>1. notifications' = <<>> => note.version = version /\ note.block = Newest
    BY <1>1, <1>3 DEF IInv, NotificationsOK
  <2> QED  BY <1>1, <1>2, <1>5, <2>1 DEF Settled, NothingComing
<1> QED  BY <1>3, <1>7, <1>8, <1>9 DEF IInv

LEMMA HandleDeleteIInv ==
  ASSUME IInv, NEW r \in 1 .. MaxReads, HandleDelete(r)
  PROVE  IInv'
<1>1. /\ notifications # <<>> /\ notifications' = Tail(notifications)
      /\ UNCHANGED <<dbVars, latest, stage, crashes, history>>
      /\ Ask(r) /\ timer' \in {"idle", "running", "again"}
  BY DEF HandleDelete, DeletionArrives
<1>2. version' = version /\ Newest' = Newest
  BY <1>1 DEF dbVars, version, Newest
<1> QED  BY <1>1, <1>2, HeadHandled, AskIInv

LEMMA TrailingEdgeIInv ==
  ASSUME IInv, NEW r \in 1 .. MaxReads, TrailingEdge(r)
  PROVE  IInv'
<1>1. /\ UNCHANGED <<dbVars, notifications, latest, stage, crashes, history>>
      /\ Ask(r) /\ timer = "again" /\ timer' \in {"idle", "running", "again"}
  BY DEF TrailingEdge
<1>2. version' = version /\ Newest' = Newest
  BY <1>1 DEF dbVars, version, Newest
<1>3. stage = "serving"
  BY <1>1 DEF IInv, StartOK
<1>4. notifications' \in Seq(Notes) /\ NotificationsOK'
  BY <1>1, <1>2 DEF IInv, Base, LatestBlockTypeOK, NotificationsOK, Last
<1> QED  BY <1>1, <1>3, <1>4, AskIInv

LEMMA TimerIInv ==
  ASSUME IInv, HandleDeleteAgain \/ TimerExpires
  PROVE  IInv'
<1>1. /\ UNCHANGED dbVars /\ UNCHANGED <<latest, stage, reads, crashes>>
      /\ UNCHANGED <<top, missed, overtaken, emptied>>
      /\ timer' \in {"idle", "running", "again"}
  BY DEF HandleDeleteAgain, DeletionArrives, TimerExpires, history
<1>2. version' = version /\ Newest' = Newest
  BY <1>1 DEF dbVars, version, Newest
<1>3. notifications' \in Seq(Notes) /\ NotificationsOK' /\ stage = "serving"
  <2>1. CASE HandleDeleteAgain
    BY <1>2, <2>1, HeadHandled DEF HandleDeleteAgain, DeletionArrives
  <2>2. CASE TimerExpires
    BY <1>2, <2>2 DEF TimerExpires, IInv, Base, LatestBlockTypeOK, NotificationsOK, Last, StartOK
  <2> QED  BY <2>1, <2>2
<1>4. LatestBlockTypeOK' /\ rows' = rows
  <2>1. LatestBlockTypeOK
    BY DEF IInv, Base
  <2>2. ServerTypes /\ crashes' \in 0 .. MaxCrashes
    BY <1>1, <1>3, <2>1 DEF LatestBlockTypeOK, ServerTypes
  <2> QED  BY <1>1, <2>1, <2>2, ServerType
<1>5. Base' /\ ReadsOK' /\ EmptiedOK'
  BY <1>1, <1>2, <1>4 DEF Base, IInv, ReadsOK, EmptiedOK
<1>6. StartOK'
  BY <1>1, <1>3 DEF StartOK
<1>7. Settled'
  <2>1. NothingComing' => TimerExpires /\ UNCHANGED notifications
    BY DEF NothingComing, HandleDeleteAgain, TimerExpires
  <2>2. NothingComing' => NothingComing
    BY <1>1, <1>2, <2>1 DEF NothingComing, TimerExpires, Current
  <2> QED  BY <1>1, <1>2, <2>2 DEF IInv, Settled
<1> QED  BY <1>3, <1>5, <1>6, <1>7 DEF IInv

LEMMA CrashIInv == IInv /\ Crash => IInv'
<1> SUFFICES ASSUME IInv, Crash PROVE IInv'
  OBVIOUS
<1>1. /\ LatestBlockTypeOK /\ UNCHANGED dbVars
      /\ stage' = "reading" /\ latest' = Unknown /\ notifications' = <<>> /\ timer' = "idle"
      /\ reads' = [r \in 1 .. MaxReads |-> IF r = 1 THEN Asked ELSE NoRead]
      /\ top' = 0 /\ missed' = FALSE /\ overtaken' = FALSE
      /\ emptied' = (rows = <<>>)
      /\ crashes < MaxCrashes /\ crashes' = crashes + 1
  BY DEF IInv, Base, Crash, Started
<1>2. /\ Asked \in ReadStates /\ NoRead \in ReadStates
  BY LatestBlockAssumption DEF Asked, NoRead, ReadStates
<1>3. reads' \in [1 .. MaxReads -> ReadStates]
  BY <1>1, <1>2
<1>4. crashes' \in 0 .. MaxCrashes
  BY <1>1, LatestBlockAssumption DEF LatestBlockTypeOK
<1>5. missed' \in BOOLEAN /\ overtaken' \in BOOLEAN /\ emptied' \in BOOLEAN
  BY <1>1, Zenon
<1>6. notifications' \in Seq(Notes)
  BY <1>1, EmptySeq
<1>7. LatestBlockTypeOK' /\ version' = version /\ rows' = rows
  <2>1. ServerTypes
    BY <1>1, <1>3, <1>5, <1>6, LatestBlockAssumption DEF ServerTypes
  <2> QED  BY <1>1, <1>4, <2>1, ServerType
<1>8. Base' /\ ReadsOK' /\ NotificationsOK'
  BY <1>1, <1>7, Facts DEF Base, ReadsOK, NotificationsOK
<1>9. StartOK' /\ Settled' /\ EmptiedOK'
  BY <1>1, <1>7 DEF StartOK, Settled, NothingComing, EmptiedOK
<1> QED  BY <1>8, <1>9 DEF IInv
-----------------------------------------------------------------------------
LEMMA NextIInv == IInv /\ [Next]_vars => IInv'
<1> SUFFICES ASSUME IInv, [Next]_vars PROVE IInv'
  OBVIOUS
<1>1. CASE AggregatorStep
  BY <1>1, InsertBlockIInv, RollBackIInv DEF AggregatorStep
<1>2. CASE Handlers
  BY <1>2, HandleInsertIInv, TimerIInv, ListenIInv, AnswerReadIInv, ApplyReadIInv,
     HandleDeleteIInv, TrailingEdgeIInv DEF Handlers
<1>3. CASE Crash
  BY <1>3, CrashIInv
<1>4. CASE UNCHANGED vars
  <2>1. /\ UNCHANGED dbVars /\ UNCHANGED <<rows, notifications, latest, stage, timer, reads>>
        /\ UNCHANGED <<crashes, top, missed, overtaken, emptied>>
    BY <1>4 DEF vars, dbVars
  <2>2. version' = version /\ Newest' = Newest
    BY <2>1 DEF dbVars, version, Newest
  <2>3. LatestBlockTypeOK'
    BY <2>1 DEF IInv, Base, LatestBlockTypeOK, dbVars
  <2> QED  BY <2>1, <2>2, <2>3 DEF IInv, Base, ReadsOK, NotificationsOK, StartOK, Settled,
              NothingComing, Current, EmptiedOK, Last
<1> QED  BY <1>1, <1>2, <1>3, <1>4 DEF Next

\* The strengthened invariant holds throughout every behaviour of the server.
THEOREM Invariance == Spec => []IInv
<1> QED  BY InitIInv, NextIInv, PTL DEF Spec

\* Type correctness of the server's state, notifications and reads included.
THEOREM ServerTypeCorrect == Spec => []LatestBlockTypeOK
<1>1. IInv => LatestBlockTypeOK
  BY DEF IInv, Base
<1> QED  BY <1>1, Invariance, PTL

\* Whatever the order of notifications, debounced reads, their answers and
\* restarts, only a gap at the start or an overtaken answer leaves the server with
\* another block than the last one of the table once nothing is on its way.
THEOREM SettlesCorrect == Spec => []SettlesOnNewest
<1>1. IInv => SettlesOnNewest
  <2> SUFFICES ASSUME IInv, Quiet PROVE missed \/ overtaken \/ latest = Newest
    BY DEF SettlesOnNewest
  <2>1. NothingComing
    BY DEF NothingComing, Quiet, Current, NoRead, Asked
  <2> QED  BY <2>1 DEF IInv, Settled
<1> QED  BY <1>1, Invariance, PTL

\* The server serves without a block only if the table was empty since its start.
THEOREM UnknownCorrect == Spec => []UnknownOnlyIfEmptied
<1>1. IInv => UnknownOnlyIfEmptied
  BY DEF IInv, EmptiedOK, UnknownOnlyIfEmptied
<1> QED  BY <1>1, Invariance, PTL
=============================================================================
