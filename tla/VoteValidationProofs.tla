------------------------ MODULE VoteValidationProofs ------------------------
(***************************************************************************)
(* The vote validation job, for every set of votes and outputs, age, chunk *)
(* size and number of failures: the age a vote must have before it is      *)
(* verified protects its update, and a verdict that is in the table is the *)
(* right one, whatever was cached, rolled back, retried or spent.          *)
(***************************************************************************)
EXTENDS VoteValidation, SumTheorems, TLAPS

\* The votes the job holds: read from the database, not yet given up.
HeldVotes == waiting \cup batch \cup {e.vote : e \in inFlight}

\* What the argument needs of the types.
Heights ==
  /\ height \in Nat /\ highest \in Nat /\ deepest \in Nat /\ known \in Int
  /\ \A r \in votes : r.height \in Int

BestBlocks == height <= highest /\ known <= highest

\* A vote the job holds was more than AgeLimit blocks deep below the highest
\* block, and its row is there unless a rollback went deeper than that.
Deep(v) ==
  /\ v.height \in Int /\ v.height < highest - AgeLimit
  /\ deepest <= AgeLimit + 1 => \E r \in votes : r.id = v.id /\ r.height = v.height

DeepInv == Heights /\ BestBlocks /\ \A v \in HeldVotes : Deep(v)

\* Initially the job holds no vote.
LEMMA DeepInit == ValidationInit => DeepInv
  BY DEF ValidationInit, DeepInv, Heights, BestBlocks, HeldVotes

\* A step that changes neither the chain nor the table keeps the invariant
\* when the job takes up no new vote.
LEMMA DeepKept ==
  ASSUME DeepInv, UNCHANGED chainVars, known' \in Int, known' <= highest,
         HeldVotes' \subseteq HeldVotes
  PROVE  DeepInv'
  BY DEF DeepInv, Heights, BestBlocks, Deep, chainVars

\* A new block makes votes deeper; it removes none.
LEMMA DeepAddBlock ==
  ASSUME DeepInv, NEW claims, NEW spends, AddBlock(claims, spends)
  PROVE  DeepInv'
  <1> USE ValidationAssumption
  <1>1. height' = height + 1 /\ highest' \in Nat /\ height' <= highest' /\ highest <= highest'
    BY DEF AddBlock, DeepInv, Heights, BestBlocks
  <1>2. votes \subseteq votes' /\ \A r \in votes' : r.height \in Int
    BY <1>1 DEF AddBlock, DeepInv, Heights
  <1>3. HeldVotes' = HeldVotes /\ deepest' = deepest /\ known' = known
    BY DEF AddBlock, HeldVotes, jobVars
  <1>4. Heights' /\ BestBlocks'
    BY <1>1, <1>2, <1>3 DEF DeepInv, Heights, BestBlocks
  <1>5. ASSUME NEW v \in HeldVotes PROVE Deep(v)'
    <2>1. Deep(v) BY <1>5 DEF DeepInv
    <2>2. v.height < highest' - AgeLimit
      BY <1>1, <2>1 DEF Deep, DeepInv, Heights
    <2> QED BY <1>2, <1>3, <2>1, <2>2 DEF Deep
  <1> QED BY <1>3, <1>4, <1>5 DEF DeepInv

\* A rollback of at most AgeLimit + 1 blocks, counted from the highest one,
\* ends above every vote the job holds.
LEMMA DeepRollback ==
  ASSUME DeepInv, NEW h \in 0 .. height - 1, Rollback(h)
  PROVE  DeepInv'
  <1> USE ValidationAssumption
  <1>1. /\ height' = h /\ highest' = highest /\ known' = known
        /\ votes' = {r \in votes : r.height <= h}
        /\ HeldVotes' = HeldVotes
    BY DEF Rollback, HeldVotes, jobVars
  <1>2. h \in Nat /\ h < height
    BY DEF DeepInv, Heights
  <1>3. deepest' \in Nat /\ deepest <= deepest' /\ highest - h <= deepest'
    BY <1>2 DEF Rollback, DeepInv, Heights, BestBlocks
  <1>4. Heights' /\ BestBlocks'
    BY <1>1, <1>2, <1>3 DEF DeepInv, Heights, BestBlocks
  <1>5. ASSUME NEW v \in HeldVotes PROVE Deep(v)'
    <2>1. Deep(v) BY <1>5 DEF DeepInv
    <2>2. ASSUME deepest' <= AgeLimit + 1
          PROVE  \E r \in votes' : r.id = v.id /\ r.height = v.height
      <3>1. v.height <= h
        BY <1>2, <1>3, <2>1, <2>2 DEF Deep, DeepInv, Heights
      <3>2. deepest <= AgeLimit + 1
        BY <1>3, <2>2 DEF DeepInv, Heights
      <3>3. PICK r \in votes : r.id = v.id /\ r.height = v.height
        BY <2>1, <3>2 DEF Deep
      <3> QED BY <1>1, <3>1, <3>3
    <2> QED BY <1>1, <2>1, <2>2 DEF Deep
  <1> QED BY <1>1, <1>4, <1>5 DEF DeepInv

\* The job selects only votes that deep.
LEMMA DeepSelect ==
  ASSUME DeepInv, SelectVotes
  PROVE  DeepInv'
  <1> USE ValidationAssumption
  <1>1. /\ UNCHANGED chainVars /\ known' = 0
        /\ waiting' = {r \in votes : r.state = "UNVERIFIED" /\ r.height < known - AgeLimit}
        /\ UNCHANGED <<batch, inFlight>>
    BY DEF SelectVotes, OldEnough
  <1>2. UNCHANGED <<height, votes, highest, deepest>>
    BY <1>1 DEF chainVars
  <1>3. Heights' /\ BestBlocks'
    BY <1>1, <1>2 DEF DeepInv, Heights, BestBlocks
  <1>4. ASSUME NEW v \in HeldVotes' PROVE Deep(v)'
    <2>1. CASE v \in HeldVotes
      BY <1>2, <2>1 DEF DeepInv, Deep
    <2>2. CASE v \in waiting'
      <3>1. v \in votes /\ v.height \in Int /\ v.height < known - AgeLimit
        BY <1>1, <2>2 DEF DeepInv, Heights
      <3>2. v.height < highest - AgeLimit
        BY <3>1 DEF DeepInv, Heights, BestBlocks
      <3> QED BY <1>2, <3>1, <3>2 DEF Deep
    <2> QED BY <1>1, <1>4, <2>1, <2>2 DEF HeldVotes
  <1> QED BY <1>3, <1>4 DEF DeepInv

\* Writing a verdict keeps the row, its id and its height.
LEMMA DeepWrite ==
  ASSUME DeepInv, NEW e \in inFlight, WriteVerdict(e)
  PROVE  DeepInv'
  <1> DEFINE written(r) ==
        IF r.id = e.vote.id THEN [r EXCEPT !.state = Verdict(e.vote.claim, e.power)] ELSE r
  <1>1. /\ votes' = {written(r) : r \in votes}
        /\ UNCHANGED <<height, highest, deepest, known>>
        /\ HeldVotes' \subseteq HeldVotes
    BY DEF WriteVerdict, HeldVotes, jobVars
  <1>2. ASSUME NEW r \in votes PROVE written(r).id = r.id /\ written(r).height = r.height
    <2>1. CASE r.id = e.vote.id
      <3>1. written(r).height = r.height
        BY <2>1
      <3>2. written(r).id = r.id
        BY <2>1
      <3> QED BY <3>1, <3>2
    <2>2. CASE r.id # e.vote.id
      BY <2>2
    <2> QED BY <2>1, <2>2
  <1> HIDE DEF written
  <1>3. Heights' /\ BestBlocks'
    BY <1>1, <1>2 DEF DeepInv, Heights, BestBlocks
  <1>4. ASSUME NEW v \in HeldVotes' PROVE Deep(v)'
    <2>1. Deep(v)
      BY <1>1 DEF DeepInv
    <2> QED BY <1>1, <1>2, <2>1 DEF Deep
  <1> QED BY <1>3, <1>4 DEF DeepInv

\* A failed verification makes the job give up votes.
LEMMA AbandonShrinks ==
  ASSUME NEW failed, Abandon(failed)
  PROVE  HeldVotes' \subseteq HeldVotes
  <1>1. CASE \E e \in failed : e.awaited
    <2> DEFINE released(e) == [e EXCEPT !.awaited = FALSE]
    <2>1. /\ inFlight' = {released(e) : e \in inFlight \ failed}
          /\ waiting' = {} /\ batch' = {}
      BY <1>1 DEF Abandon
    <2>2. ASSUME NEW e \in inFlight PROVE released(e).vote = e.vote
      OBVIOUS
    <2> HIDE DEF released
    <2> QED BY <2>1, <2>2 DEF HeldVotes
  <1>2. CASE ~\E e \in failed : e.awaited
    BY <1>2 DEF Abandon, HeldVotes
  <1> QED BY <1>1, <1>2

\* Every step of the system keeps the invariant.
LEMMA DeepStep == DeepInv /\ [ValidationNext]_validationVars => DeepInv'
  <1> SUFFICES ASSUME DeepInv, [ValidationNext]_validationVars PROVE DeepInv'
    OBVIOUS
  <1> USE ValidationAssumption
  <1>0. known \in Int /\ known <= highest /\ highest \in Nat /\ height \in Nat /\ height <= highest
    BY DEF DeepInv, Heights, BestBlocks
  <1>1. CASE Chain
    BY <1>1, DeepAddBlock, DeepRollback DEF Chain
  <1>2. CASE Loop
    <2>1. CASE ReadBestBlock
      BY <1>0, <2>1, DeepKept DEF ReadBestBlock, HeldVotes
    <2>2. CASE SelectVotes
      BY <2>2, DeepSelect
    <2>3. CASE TakePoll
      <3>1. batch' \subseteq waiting /\ waiting' \subseteq waiting
        BY <2>3 DEF TakePoll
      <3>2. HeldVotes' \subseteq HeldVotes
        BY <2>3, <3>1 DEF TakePoll, HeldVotes
      <3> QED BY <1>0, <2>3, <3>2, DeepKept DEF TakePoll
    <2>4. CASE TakeChunk
      <3>1. PICK S \in ChunksOf(batch) :
              /\ batch' = batch \ S
              /\ inFlight' = inFlight \cup
                   {[vote |-> r, power |-> PowerFor(r.claim), awaited |-> TRUE] : r \in S}
        BY <2>4 DEF TakeChunk
      <3>2. S \subseteq batch
        BY DEF ChunksOf
      <3>3. HeldVotes' \subseteq HeldVotes
        BY <2>4, <3>1, <3>2 DEF TakeChunk, HeldVotes
      <3> QED BY <1>0, <2>4, <3>3, DeepKept DEF TakeChunk
    <2>5. CASE FinishJob
      BY <1>0, <2>5, DeepKept DEF FinishJob, HeldVotes
    <2> QED BY <1>2, <2>1, <2>2, <2>3, <2>4, <2>5 DEF Loop
  <1>3. CASE Verify
    <2>1. PICK e \in inFlight : WriteVerdict(e) \/ UpdateMissing(e)
      BY <1>3 DEF Verify
    <2>2. CASE UpdateMissing(e)
      BY <1>0, <2>2, AbandonShrinks, DeepKept DEF UpdateMissing
    <2> QED BY <2>1, <2>2, DeepWrite
  <1>4. CASE Kupo
    <2>1. PICK f \in fetching, at \in 0 .. height : AnswerUnspent(f, at) \/ AnswerSpent(f, at)
      BY <1>4 DEF Kupo
    <2>2. CASE AnswerUnspent(f, at)
      BY <1>0, <2>2, DeepKept DEF AnswerUnspent, HeldVotes, jobVars
    <2>3. CASE AnswerSpent(f, at)
      <3> DEFINE answered(e) ==
            IF e.power = NoAnswer /\ KeyOf(e.vote.claim) = f.key
              THEN [e EXCEPT !.power = f.count + Amount(SpentAfter(f.key, at))] ELSE e
      <3>1. inFlight' = {answered(e) : e \in inFlight} /\ UNCHANGED <<chainVars, jobVars>>
        BY <2>3 DEF AnswerSpent
      <3> HIDE DEF answered
      <3>2. ASSUME NEW e \in inFlight PROVE answered(e).vote = e.vote
        <4>1. CASE e.power = NoAnswer /\ KeyOf(e.vote.claim) = f.key
          BY <4>1 DEF answered
        <4>2. CASE ~(e.power = NoAnswer /\ KeyOf(e.vote.claim) = f.key)
          BY <4>2 DEF answered
        <4> QED BY <4>1, <4>2
      <3>3. HeldVotes' \subseteq HeldVotes
        BY <3>1, <3>2 DEF HeldVotes, jobVars
      <3> QED BY <1>0, <3>1, <3>3, DeepKept DEF jobVars
    <2> QED BY <2>1, <2>2, <2>3
  <1>5. CASE Failure
    <2>1. ASSUME NEW e \in inFlight, UpdateFails(e) PROVE DeepInv'
      BY <1>0, <2>1, AbandonShrinks, DeepKept DEF UpdateFails
    <2>2. ASSUME NEW f \in fetching, RequestFails(f) PROVE DeepInv'
      BY <1>0, <2>2, AbandonShrinks, DeepKept DEF RequestFails
    <2>3. CASE CrashJob
      BY <1>0, <2>3, DeepKept DEF CrashJob, HeldVotes
    <2> QED BY <1>5, <2>1, <2>2, <2>3 DEF Failure
  <1>6. ASSUME NEW c \in cache, Expire(c) PROVE DeepInv'
    BY <1>0, <1>6, DeepKept DEF Expire, HeldVotes, jobVars
  <1>7. CASE UNCHANGED validationVars
    BY <1>0, <1>7, DeepKept DEF validationVars, HeldVotes, jobVars
  <1> QED
    BY <1>1, <1>2, <1>3, <1>4, <1>5, <1>6, <1>7 DEF ValidationNext

\* The update of a vote the job verifies (voteValidationJob.ts, where only votes
\* "at least 5 blocks old" are selected) never meets a missing row, unless a
\* rollback is more than one block deeper than that age.
THEOREM UpdatesAreSafe == ValidationSpec => []UpdatesSucceed
  <1>1. DeepInv => UpdatesSucceed
    BY DEF DeepInv, HeldVotes, Deep, UpdatesSucceed, RowExists
  <1> QED BY <1>1, DeepInit, DeepStep, PTL DEF ValidationSpec
-----------------------------------------------------------------------------
(***************************************************************************)
(* Amounts.                                                                *)
(***************************************************************************)
\* The amount of a set of outputs is the sum of theirs.
LEMMA AmountIsSum ==
  ASSUME NEW S, IsFiniteSet(S)
  PROVE  Amount(S) = Sum([x \in S |-> x.amount], S)
<1> DEFINE w == [x \in S |-> x.amount]
           Recursion(f) == f = [s \in SUBSET S |->
                                  IF s = {} THEN 0 ELSE Pick(s).amount + f[s \ {Pick(s)}]]
<1>1. Amount(S) = (CHOOSE f : Recursion(f))[S]
  BY DEF Amount, MapThenSumSet, MapThenFoldSet, Pick
<1>2. ASSUME NEW f PROVE Recursion(f) <=> Sums(f, w, S)
  <2>1. \A s \in SUBSET S : s # {} => Pick(s).amount = w[Pick(s)]
    BY PickInSet
  <2> HIDE DEF w
  <2> QED  BY <2>1 DEF Sums
<1>3. \E f : Recursion(f)
  BY <1>2, SumsExist
<1> DEFINE g == CHOOSE f : Recursion(f)
<1>4. Recursion(g)
  BY <1>3
<1> HIDE DEF Recursion
<1>5. Sums(g, w, S)
  BY <1>2, <1>4
<1> HIDE DEF g, w
<1>6. g[S] = Sum(w, S)
  BY <1>5, SolutionGivesSums
<1> QED  BY <1>1, <1>6 DEF g, w

\* Outputs have an amount, and disjoint sets of them their amounts together.
LEMMA AmountsAdd ==
  ASSUME NEW S, NEW T, S \subseteq Outputs, T \subseteq Outputs, S \cap T = {}
  PROVE  /\ Amount(S) \in Nat
         /\ Amount(S \cup T) = Amount(S) + Amount(T)
<1> DEFINE w(R) == [x \in R |-> x.amount]
           u == S \cup T
<1>1. \A x \in u : x.amount \in Nat
  BY ValidationAssumption
<1>2. IsFiniteSet(S) /\ IsFiniteSet(T) /\ IsFiniteSet(u)
  <2>1. IsFiniteSet(Outputs) /\ u \subseteq Outputs
    BY ValidationAssumption
  <2> HIDE DEF u
  <2> QED  BY <2>1, FS_Subset
<1>3. Amount(S) = Sum(w(S), S) /\ Amount(T) = Sum(w(T), T) /\ Amount(u) = Sum(w(u), u)
  <2> HIDE DEF u
  <2> QED  BY <1>2, AmountIsSum
<1>4. /\ \A x \in S : w(S)[x] = w(u)[x] /\ w(S)[x] \in Nat
      /\ \A x \in T : w(T)[x] = w(u)[x]
      /\ \A x \in u : w(u)[x] \in Nat
  BY <1>1
<1> HIDE DEF w
<1>5. Sum(w(S), S) = Sum(w(u), S) /\ Sum(w(T), T) = Sum(w(u), T) /\ Sum(w(S), S) \in Nat
  <2> HIDE DEF u
  <2>1. Sum(w(S), S) = Sum(w(u), S)
    BY <1>2, <1>4, SumOfEquals
  <2>2. Sum(w(T), T) = Sum(w(u), T)
    BY <1>2, <1>4, SumOfEquals
  <2>3. Sum(w(S), S) \in Nat
    BY <1>2, <1>4, SumIsNat
  <2> QED  BY <2>1, <2>2, <2>3
<1>6. Sum(w(u), u) = Sum(w(u), S) + Sum(w(u), T)
  <2> DEFINE v == w(u)
  <2>1. \A x \in S \cup T : v[x] \in Nat
    BY <1>4
  <2> HIDE DEF v
  <2>2. Sum(v, S \cup T) = Sum(v, S) + Sum(v, T)
    BY <1>2, <2>1, SumOfUnion
  <2> QED  BY <2>2 DEF v
<1> QED  BY <1>3, <1>5, <1>6

LEMMA AmountIsNat ==
  ASSUME NEW S, S \subseteq Outputs
  PROVE  Amount(S) \in Nat
<1>1. {} \subseteq Outputs /\ S \cap {} = {}
  OBVIOUS
<1> QED  BY <1>1, AmountsAdd

\* A key names a slot.
LEMMA KeysTyped == \A k \in Keys : k.slot \in Nat
  BY ValidationAssumption DEF Keys, KeyOf

\* The two answers of Kupo together are what the owner held at the snapshot,
\* if both are about blocks after it and no output moved in between.
LEMMA AnswersAreHeld ==
  ASSUME ValidationTypeOK, NEW k \in Keys, NEW a \in Nat, NEW b \in Nat,
         k.slot <= a, k.slot <= b, ~Moved(k, a, b)
  PROVE  Amount(Unspent(k, a)) + Amount(SpentAfter(k, b)) = Amount(Held(k))
<1>1. k.slot \in Nat
  BY KeysTyped
<1>2. \A x \in Outputs : spent[x] \in Nat
  BY ValidationAssumption DEF ValidationTypeOK, Never
<1>3. CreatedBefore(k) \subseteq Outputs
  BY DEF CreatedBefore
<1>4. \A x \in CreatedBefore(k) : a < spent[x] <=> b < spent[x]
  BY DEF Moved
<1>5. Unspent(k, a) \cap SpentAfter(k, b) = {}
  BY <1>1, <1>2, <1>3, <1>4 DEF Unspent, SpentAfter
<1>6. Unspent(k, a) \cup SpentAfter(k, b) = Held(k)
  <2>1. \A x \in CreatedBefore(k) : x.created <= a
    BY <1>1, <1>3, ValidationAssumption DEF CreatedBefore
  <2> QED  BY <1>1, <1>2, <1>3, <1>4, <2>1 DEF Unspent, SpentAfter, Held
<1>7. Unspent(k, a) \subseteq Outputs /\ SpentAfter(k, b) \subseteq Outputs
  BY <1>3 DEF Unspent, SpentAfter
<1> HIDE DEF Unspent, SpentAfter, Held
<1> QED  BY <1>5, <1>6, <1>7, AmountsAdd
-----------------------------------------------------------------------------
(***************************************************************************)
(* Types.                                                                  *)
(***************************************************************************)
\* The ids of new rows are drawn from the sequence, each once.
LEMMA NewIds ==
  ASSUME NEW claims, claims \subseteq Claims, NEW n \in Nat, NEW m,
         m = n + Cardinality(claims)
  PROVE  LET id == CHOOSE f \in Bijection(claims, n .. m - 1) : TRUE
         IN  /\ m \in Nat /\ n <= m
             /\ \A c \in claims : id[c] \in Nat /\ n <= id[c] /\ id[c] < m
             /\ \A c, e \in claims : id[c] = id[e] => c = e
<1> DEFINE ids == n .. m - 1
           id == CHOOSE f \in Bijection(claims, ids) : TRUE
<1>1. IsFiniteSet(claims)
  BY ValidationAssumption, FS_Subset
<1>2. Cardinality(claims) \in Nat
  BY <1>1, FS_CardinalityType
<1>3. m \in Nat /\ n <= m /\ m - 1 \in Int /\ n \in Int
  BY <1>2
<1>4. IsFiniteSet(ids) /\ Cardinality(ids) = Cardinality(claims)
  <2>1. IsFiniteSet(ids) /\ Cardinality(ids) = IF n > m - 1 THEN 0 ELSE (m - 1) - n + 1
    BY <1>3, FS_Interval
  <2> QED  BY <1>2, <1>3, <2>1
<1> HIDE DEF ids
<1>5. ExistsBijection(claims, ids)
  BY <1>1, <1>4, FS_SameCardinalityBij
<1>6. id \in Bijection(claims, ids)
  BY <1>5 DEF ExistsBijection
<1> HIDE DEF id
<1>7. id \in [claims -> ids] /\ \A c, e \in claims : id[c] = id[e] => c = e
  BY <1>6 DEF Bijection, Injection, IsInjective
<1>8. \A c \in claims : id[c] \in ids
  BY <1>7
<1> QED  BY <1>3, <1>7, <1>8 DEF id, ids

\* A new block, with its new rows.
LEMMA AddedRows ==
  ASSUME ValidationTypeOK, NEW claims \in SUBSET Claims, NEW spends, AddBlock(claims, spends)
  PROVE  /\ nextId' \in Nat /\ nextId <= nextId'
         /\ votes \subseteq votes'
         /\ \A r \in votes' \ votes :
              /\ r \in Rows /\ r.claim \in claims /\ r.state = "UNVERIFIED"
              /\ r.height = height' /\ nextId <= r.id /\ r.id < nextId'
         /\ \A r, v \in votes' \ votes : r.id = v.id => r.claim = v.claim
<1> DEFINE id == CHOOSE f \in Bijection(claims, nextId .. nextId' - 1) : TRUE
           row(c) == [id |-> id[c], claim |-> c, height |-> height', state |-> "UNVERIFIED"]
<1>1. /\ nextId' = nextId + Cardinality(claims) /\ height' = height + 1
      /\ votes' = votes \cup {row(c) : c \in claims}
  BY DEF AddBlock
<1>2. nextId \in Nat /\ height' \in Nat
  BY <1>1, ValidationAssumption DEF ValidationTypeOK
<1>3. /\ nextId' \in Nat /\ nextId <= nextId'
      /\ \A c \in claims : id[c] \in Nat /\ nextId <= id[c] /\ id[c] < nextId'
      /\ \A c, e \in claims : id[c] = id[e] => c = e
  BY <1>1, <1>2, NewIds
<1> HIDE DEF id
<1>4. \A c \in claims : /\ row(c) \in Rows
                        /\ row(c).id = id[c] /\ row(c).claim = c
                        /\ row(c).height = height' /\ row(c).state = "UNVERIFIED"
  BY <1>2, <1>3 DEF Rows
<1> HIDE DEF row
<1> QED  BY <1>1, <1>3, <1>4

\* What a rejected verification leaves is of the same types.
LEMMA AbandonTypes ==
  ASSUME ValidationTypeOK, NEW failed, Abandon(failed)
  PROVE  /\ job' \in {"sleeping", "selecting", "verifying"}
         /\ waiting' \subseteq waiting /\ batch' \subseteq batch
         /\ \A e \in inFlight' :
              /\ e \in [vote : Rows, power : Nat \cup {NoAnswer}, awaited : BOOLEAN]
              /\ \E g \in inFlight : e.vote = g.vote /\ e.power = g.power
<1>1. CASE \E e \in failed : e.awaited
  <2> DEFINE released(e) == [e EXCEPT !.awaited = FALSE]
  <2>1. /\ inFlight' = {released(e) : e \in inFlight \ failed}
        /\ job' = "sleeping" /\ waiting' = {} /\ batch' = {}
    BY <1>1 DEF Abandon
  <2>2. ASSUME NEW e \in inFlight
        PROVE  /\ released(e) \in [vote : Rows, power : Nat \cup {NoAnswer}, awaited : BOOLEAN]
               /\ released(e).vote = e.vote /\ released(e).power = e.power
    <3>1. e \in [vote : Rows, power : Nat \cup {NoAnswer}, awaited : BOOLEAN]
      BY DEF ValidationTypeOK
    <3> QED  BY <3>1
  <2> HIDE DEF released
  <2> QED  BY <2>1, <2>2
<1>2. CASE ~\E e \in failed : e.awaited
  BY <1>2 DEF Abandon, ValidationTypeOK
<1> QED  BY <1>1, <1>2

\* What a vote is compared with has the type of an answer.
LEMMA PowerForType ==
  ASSUME ValidationTypeOK, NEW claim
  PROVE  PowerFor(claim) \in Nat \cup {NoAnswer}
<1>1. CASE \E c \in cache : c.key = KeyOf(claim)
  <2> DEFINE c == CHOOSE d \in cache : d.key = KeyOf(claim)
  <2>1. c \in cache
    BY <1>1
  <2>2. c.count \in Nat
    BY <2>1 DEF ValidationTypeOK
  <2> HIDE DEF c
  <2>3. PowerFor(claim) = IF ~claim.listed THEN 0 ELSE c.count
    BY <1>1 DEF PowerFor, c
  <2> QED  BY <2>2, <2>3
<1>2. CASE ~\E c \in cache : c.key = KeyOf(claim)
  BY <1>2 DEF PowerFor
<1> QED  BY <1>1, <1>2

\* Initially every variable has its type.
LEMMA TypeInit == ValidationInit => ValidationTypeOK
  BY ValidationAssumption DEF ValidationInit, ValidationTypeOK, Never

\* The chain's steps keep the types.
LEMMA TypeAddBlock ==
  ASSUME ValidationTypeOK, NEW claims \in SUBSET Claims, NEW spends, AddBlock(claims, spends)
  PROVE  ValidationTypeOK'
<1> USE ValidationAssumption
<1>1. votes' \subseteq Rows /\ nextId' \in Nat
  BY AddedRows DEF ValidationTypeOK
<1>2. height' \in 0 .. MaxHeight /\ height' \in 1 .. Never /\ highest' \in 0 .. MaxHeight
  BY DEF AddBlock, ValidationTypeOK, Never
<1>3. spent' \in [Outputs -> 1 .. Never]
  BY <1>2 DEF AddBlock, ValidationTypeOK
<1> QED  BY <1>1, <1>2, <1>3 DEF AddBlock, ValidationTypeOK, jobVars

LEMMA TypeRollback ==
  ASSUME ValidationTypeOK, height <= highest, NEW h \in 0 .. height - 1, Rollback(h)
  PROVE  ValidationTypeOK'
<1> USE ValidationAssumption
<1>1. height' \in 0 .. MaxHeight /\ rollbacks' \in 0 .. MaxRollbacks /\ deepest' \in 0 .. MaxHeight
  BY DEF Rollback, ValidationTypeOK
<1>2. spent' \in [Outputs -> 1 .. Never]
  BY DEF Rollback, ValidationTypeOK, Never
<1>3. doubtful' \subseteq Keys
  BY DEF Rollback, ValidationTypeOK
<1>4. votes' \subseteq Rows
  BY DEF Rollback, ValidationTypeOK
<1> QED  BY <1>1, <1>2, <1>3, <1>4 DEF Rollback, ValidationTypeOK, jobVars

\* A chunk is taken: the entries and requests are of their types.
LEMMA TypeTakeChunk ==
  ASSUME ValidationTypeOK, TakeChunk
  PROVE  ValidationTypeOK'
<1> DEFINE entry(r) == [vote |-> r, power |-> PowerFor(r.claim), awaited |-> TRUE]
           entries(S) == {entry(r) : r \in S}
           keys(S) == {KeyOf(e.vote.claim) : e \in {f \in entries(S) : f.power = NoAnswer}}
           request(k) == [key |-> k, count |-> NoAnswer, at |-> 0]
<1>1. PICK S \in ChunksOf(batch) :
        /\ batch' = batch \ S /\ inFlight' = inFlight \cup entries(S)
        /\ fetching' = fetching \cup
             {request(k) : k \in {j \in keys(S) : \A f \in fetching : f.key # j}}
  BY DEF TakeChunk
<1>2. S \subseteq Rows
  BY DEF ChunksOf, ValidationTypeOK
<1>3. ASSUME NEW r \in S
      PROVE  /\ entry(r) \in [vote : Rows, power : Nat \cup {NoAnswer}, awaited : BOOLEAN]
             /\ entry(r).vote = r
  BY <1>2, PowerForType
<1>4. \A r \in S : KeyOf(r.claim) \in Keys
  BY <1>2 DEF Rows, Keys
<1> HIDE DEF entry
<1>5. keys(S) \subseteq Keys
  BY <1>3, <1>4
<1> HIDE DEF keys
<1>6. \A k \in keys(S) : request(k) \in [key : Keys, count : Nat \cup {NoAnswer}, at : Nat]
  BY <1>5
<1> HIDE DEF request
<1>7. inFlight' \subseteq [vote : Rows, power : Nat \cup {NoAnswer}, awaited : BOOLEAN]
  BY <1>1, <1>3 DEF ValidationTypeOK
<1>8. fetching' \subseteq [key : Keys, count : Nat \cup {NoAnswer}, at : Nat]
  BY <1>1, <1>6 DEF ValidationTypeOK
<1>9. batch' \subseteq Rows
  BY <1>1 DEF ValidationTypeOK
<1> HIDE DEF entries
<1> QED  BY <1>7, <1>8, <1>9 DEF TakeChunk, ValidationTypeOK, chainVars

\* Kupo's answers.
LEMMA TypeAnswers ==
  ASSUME ValidationTypeOK, NEW f \in fetching, NEW at \in 0 .. height,
         AnswerUnspent(f, at) \/ AnswerSpent(f, at)
  PROVE  ValidationTypeOK'
<1>1. f.key \in Keys /\ f.count \in Nat \cup {NoAnswer} /\ at \in Nat
  BY ValidationAssumption DEF ValidationTypeOK
<1>2. Amount(Unspent(f.key, at)) \in Nat /\ Amount(SpentAfter(f.key, at)) \in Nat
  <2>1. Unspent(f.key, at) \subseteq Outputs /\ SpentAfter(f.key, at) \subseteq Outputs
    BY DEF Unspent, SpentAfter, CreatedBefore
  <2> HIDE DEF Unspent, SpentAfter
  <2> QED  BY <2>1, AmountIsNat
<1>3. CASE AnswerUnspent(f, at)
  <2>1. [key |-> f.key, count |-> Amount(Unspent(f.key, at)), at |-> at]
          \in [key : Keys, count : Nat \cup {NoAnswer}, at : Nat]
    BY <1>1, <1>2
  <2>2. fetching' \subseteq [key : Keys, count : Nat \cup {NoAnswer}, at : Nat]
    BY <1>3, <2>1 DEF AnswerUnspent, ValidationTypeOK
  <2> QED  BY <1>3, <2>2 DEF AnswerUnspent, ValidationTypeOK, chainVars, jobVars
<1>4. CASE AnswerSpent(f, at)
  <2> DEFINE total == f.count + Amount(SpentAfter(f.key, at))
             answered(e) == IF e.power = NoAnswer /\ KeyOf(e.vote.claim) = f.key
                              THEN [e EXCEPT !.power = total] ELSE e
  <2>1. total \in Nat
    BY <1>1, <1>2, <1>4 DEF AnswerSpent
  <2> HIDE DEF total
  <2>2. ASSUME NEW e \in inFlight
        PROVE  answered(e) \in [vote : Rows, power : Nat \cup {NoAnswer}, awaited : BOOLEAN]
    <3>1. e \in [vote : Rows, power : Nat \cup {NoAnswer}, awaited : BOOLEAN]
      BY DEF ValidationTypeOK
    <3> QED  BY <2>1, <3>1
  <2>3. /\ inFlight' = {answered(e) : e \in inFlight}
        /\ cache' = {c \in cache : c.key # f.key} \cup {[key |-> f.key, count |-> total]}
        /\ fetching' = fetching \ {f} /\ doubtful' \in {doubtful, doubtful \cup {f.key}}
    BY <1>4 DEF AnswerSpent, total
  <2> HIDE DEF answered
  <2>4. inFlight' \subseteq [vote : Rows, power : Nat \cup {NoAnswer}, awaited : BOOLEAN]
    BY <2>2, <2>3
  <2>5. cache' \subseteq [key : Keys, count : Nat] /\ doubtful' \subseteq Keys
        /\ fetching' \subseteq fetching
    BY <1>1, <2>1, <2>3 DEF ValidationTypeOK
  <2>6. UNCHANGED <<chainVars, jobVars, failures>>
    BY <1>4 DEF AnswerSpent
  <2> QED  BY <2>4, <2>5, <2>6 DEF ValidationTypeOK, chainVars, jobVars
<1> QED  BY <1>3, <1>4

\* Every step keeps the types.
LEMMA TypeStep ==
  ASSUME ValidationTypeOK, height <= highest, [ValidationNext]_validationVars
  PROVE  ValidationTypeOK'
<1> USE ValidationAssumption
<1>1. CASE Chain
  BY <1>1, TypeAddBlock, TypeRollback DEF Chain
<1>2. CASE Loop
  <2>1. CASE ReadBestBlock
    BY <2>1 DEF ReadBestBlock, ValidationTypeOK, chainVars
  <2>2. CASE SelectVotes
    BY <2>2 DEF SelectVotes, ValidationTypeOK, chainVars
  <2>3. CASE TakePoll
    <3>1. batch' \subseteq waiting /\ waiting' \subseteq waiting
      BY <2>3 DEF TakePoll
    <3> QED  BY <2>3, <3>1 DEF TakePoll, ValidationTypeOK, chainVars
  <2>4. CASE TakeChunk
    BY <2>4, TypeTakeChunk
  <2>5. CASE FinishJob
    BY <2>5 DEF FinishJob, ValidationTypeOK, chainVars
  <2> QED  BY <1>2, <2>1, <2>2, <2>3, <2>4, <2>5 DEF Loop
<1>3. ASSUME NEW e \in inFlight, WriteVerdict(e)
      PROVE  ValidationTypeOK'
  <2> DEFINE written(r) ==
        IF r.id = e.vote.id THEN [r EXCEPT !.state = Verdict(e.vote.claim, e.power)] ELSE r
  <2>1. votes' = {written(r) : r \in votes} /\ inFlight' \subseteq inFlight
    BY <1>3 DEF WriteVerdict
  <2>2. ASSUME NEW r \in votes PROVE written(r) \in Rows
    <3>1. r \in Rows /\ Verdict(e.vote.claim, e.power) \in {"VERIFIED", "INVALID"}
      BY DEF ValidationTypeOK, Verdict
    <3> QED  BY <3>1 DEF Rows
  <2> HIDE DEF written
  <2>3. votes' \subseteq Rows
    BY <2>1, <2>2
  <2> QED  BY <1>3, <2>1, <2>3 DEF WriteVerdict, ValidationTypeOK, jobVars
<1>4. ASSUME NEW e \in inFlight, UpdateMissing(e)
      PROVE  ValidationTypeOK'
  BY <1>4, AbandonTypes DEF UpdateMissing, ValidationTypeOK, chainVars
<1>5. CASE Kupo
  BY <1>5, TypeAnswers DEF Kupo
<1>6. ASSUME NEW e \in inFlight, UpdateFails(e)
      PROVE  ValidationTypeOK'
  BY <1>6, AbandonTypes DEF UpdateFails, ValidationTypeOK, chainVars
<1>7. ASSUME NEW f \in fetching, RequestFails(f)
      PROVE  ValidationTypeOK'
  <2>1. fetching' \subseteq fetching
    BY <1>7 DEF RequestFails
  <2> QED  BY <1>7, <2>1, AbandonTypes DEF RequestFails, ValidationTypeOK, chainVars
<1>8. CASE CrashJob
  BY <1>8 DEF CrashJob, ValidationTypeOK, chainVars
<1>9. ASSUME NEW c \in cache, Expire(c)
      PROVE  ValidationTypeOK'
  BY <1>9 DEF Expire, ValidationTypeOK, chainVars, jobVars
<1>10. CASE UNCHANGED validationVars
  BY <1>10 DEF validationVars, ValidationTypeOK, chainVars, jobVars
<1> QED
  BY <1>1, <1>2, <1>3, <1>4, <1>5, <1>6, <1>7, <1>8, <1>9, <1>10
     DEF ValidationNext, Verify, Failure

\* Every variable of the job, the table, the cache and the requests keeps its
\* type: in particular no verification is compared with anything but a count
\* of tokens.
THEOREM ValidationTypeCorrect == ValidationSpec => []ValidationTypeOK
<1>1. DeepInv => height <= highest
  BY DEF DeepInv, BestBlocks
<1>2. DeepInv /\ ValidationTypeOK /\ [ValidationNext]_validationVars => ValidationTypeOK'
  BY <1>1, TypeStep
<1> QED  BY <1>2, TypeInit, DeepInit, DeepStep, PTL DEF ValidationSpec
-----------------------------------------------------------------------------
(***************************************************************************)
(* Verdicts.                                                               *)
(***************************************************************************)
\* An id is given once: a row with the id of a vote the job holds, or of
\* another row, is about the same claim, also when the vote was rolled back.
IdsInv ==
  /\ \A r \in votes \cup HeldVotes : r.id < nextId
  /\ \A r \in votes, v \in votes \cup HeldVotes : r.id = v.id => r.claim = v.claim

\* What the owner of a key held, once the snapshot is on the chain.
Right(k, n) == k.slot <= height /\ n = Amount(Held(k))

\* Counts, cached or handed to a verification, are right unless in doubt, and
\* so is the half of one that Kupo answered first.
CachedRight == \A c \in cache : c.key \notin doubtful => Right(c.key, c.count)

FetchedRight ==
  \A f \in fetching : f.count # NoAnswer /\ f.key \notin doubtful =>
    f.at <= height /\ f.count = Amount(Unspent(f.key, f.at))

PowerRight(claim, power) ==
  IF claim.listed
    THEN power # NoAnswer /\ KeyOf(claim) \notin doubtful => Right(KeyOf(claim), power)
    ELSE power = 0

VerifiedRight == \A e \in inFlight : PowerRight(e.vote.claim, e.power)

\* A vote is judged only once the snapshot of its poll is on the chain.
JudgedRight ==
  \A r \in votes :
    r.state # "UNVERIFIED" /\ KeyOf(r.claim) \notin doubtful =>
      r.state = RightVerdict(r.claim) /\ (r.claim.listed => KeyOf(r.claim).slot <= height)

VerdictInv == IdsInv /\ CachedRight /\ FetchedRight /\ VerifiedRight /\ JudgedRight

\* The votes the job holds were rows.
LEMMA HeldAreRows == ValidationTypeOK => HeldVotes \subseteq Rows
  BY DEF ValidationTypeOK, HeldVotes

\* Initially there are no rows.
LEMMA VerdictInit == ValidationInit => VerdictInv
  BY DEF ValidationInit, VerdictInv, IdsInv, CachedRight, FetchedRight, VerifiedRight,
         JudgedRight, HeldVotes

\* The verdict on a claim depends on what its owner held alone.
LEMMA RightVerdictOfKey ==
  \A claim : RightVerdict(claim) = Verdict(claim, IF claim.listed THEN Amount(Held(KeyOf(claim))) ELSE 0)
  BY DEF RightVerdict, KeyOf

\* What a verification is compared with is right: so is the verdict.
LEMMA RightPowerRightVerdict ==
  ASSUME NEW claim, NEW power, PowerRight(claim, power), power # NoAnswer, KeyOf(claim) \notin doubtful
  PROVE  /\ Verdict(claim, power) = RightVerdict(claim)
         /\ claim.listed => KeyOf(claim).slot <= height
  BY RightVerdictOfKey DEF PowerRight, Right

\* A step that gives no new ids and takes up no votes but rows keeps ids apart.
LEMMA IdsKept ==
  ASSUME IdsInv, nextId' = nextId, HeldVotes' \subseteq votes \cup HeldVotes,
         \A r \in votes' : \E s \in votes : r.id = s.id /\ r.claim = s.claim
  PROVE  IdsInv'
<1>1. ASSUME NEW r \in votes' \cup HeldVotes' PROVE r.id < nextId'
  BY <1>1 DEF IdsInv
<1>2. ASSUME NEW r \in votes', NEW v \in votes' \cup HeldVotes', r.id = v.id PROVE r.claim = v.claim
  <2>1. PICK s \in votes : r.id = s.id /\ r.claim = s.claim
    OBVIOUS
  <2>2. PICK u \in votes \cup HeldVotes : v.id = u.id /\ v.claim = u.claim
    OBVIOUS
  <2> QED  BY <1>2, <2>1, <2>2 DEF IdsInv
<1> QED  BY <1>1, <1>2 DEF IdsInv

\* As long as the chain stays, what is right stays right; there may be more
\* doubt, never less.
LEMMA RightKept ==
  ASSUME UNCHANGED <<height, spent>>, doubtful \subseteq doubtful'
  PROVE  /\ \A k, n : Right(k, n)' <=> Right(k, n)
         /\ \A claim, power : PowerRight(claim, power) => PowerRight(claim, power)'
         /\ \A k, a : Amount(Unspent(k, a))' = Amount(Unspent(k, a))
         /\ \A claim : RightVerdict(claim)' = RightVerdict(claim)
<1>1. \A k : Held(k)' = Held(k)
  BY DEF Held, CreatedBefore
<1>2. \A k, a : Unspent(k, a)' = Unspent(k, a)
  BY DEF Unspent, CreatedBefore
<1>3. \A k : Amount(Held(k))' = Amount(Held(k))
  BY <1>1
<1>4. \A k, a : Amount(Unspent(k, a))' = Amount(Unspent(k, a))
  BY <1>2
<1>5. \A k, n : Right(k, n)' <=> Right(k, n)
  BY <1>3 DEF Right
<1>6. ASSUME NEW claim, NEW power, PowerRight(claim, power) PROVE PowerRight(claim, power)'
  BY <1>5, <1>6 DEF PowerRight
<1>7. \A claim : RightVerdict(claim)' = RightVerdict(claim)
  BY <1>3, RightVerdictOfKey DEF RightVerdict
<1> QED  BY <1>4, <1>5, <1>6, <1>7

\* What the chain's steps owe to the counts: the holdings at a snapshot it has
\* reached do not change without doubt.
HoldingsStay ==
  \A k \in Keys : k \notin doubtful' /\ k.slot <= height =>
    k.slot <= height' /\ Amount(Held(k))' = Amount(Held(k))

LEMMA RightOnChain ==
  ASSUME ValidationTypeOK, VerdictInv, HoldingsStay, doubtful \subseteq doubtful',
         UNCHANGED <<inFlight, cache>>
  PROVE  /\ CachedRight' /\ VerifiedRight'
         /\ \A claim \in Claims :
              /\ KeyOf(claim) \notin doubtful'
              /\ claim.listed => KeyOf(claim).slot <= height
              => /\ RightVerdict(claim)' = RightVerdict(claim)
                 /\ claim.listed => KeyOf(claim).slot <= height'
<1>1. \A k \in Keys : \A n : k \notin doubtful' /\ Right(k, n) => Right(k, n)'
  BY DEF Right, HoldingsStay
<1>2. \A claim \in Claims : KeyOf(claim) \in Keys
  BY DEF Keys
<1>3. CachedRight'
  BY <1>1 DEF CachedRight, VerdictInv, ValidationTypeOK
<1>4. VerifiedRight'
  <2>1. \A e \in inFlight : e.vote.claim \in Claims
    BY DEF ValidationTypeOK, Rows
  <2>2. ASSUME NEW e \in inFlight PROVE PowerRight(e.vote.claim, e.power)'
    <3>1. PowerRight(e.vote.claim, e.power)
      BY DEF VerdictInv, VerifiedRight
    <3> QED  BY <1>1, <1>2, <2>1, <3>1 DEF PowerRight
  <2> QED  BY <2>2 DEF VerifiedRight
<1>5. ASSUME NEW claim \in Claims, KeyOf(claim) \notin doubtful',
             claim.listed => KeyOf(claim).slot <= height
      PROVE  /\ RightVerdict(claim)' = RightVerdict(claim)
             /\ claim.listed => KeyOf(claim).slot <= height'
  <2>1. CASE claim.listed
    <3>1. Amount(Held(KeyOf(claim)))' = Amount(Held(KeyOf(claim))) /\ KeyOf(claim).slot <= height'
      BY <1>2, <1>5, <2>1 DEF HoldingsStay
    <3>2. RightVerdict(claim)' = Verdict(claim, Amount(Held(KeyOf(claim)))')
      BY <2>1, RightVerdictOfKey DEF RightVerdict, KeyOf
    <3> QED  BY <2>1, <3>1, <3>2, RightVerdictOfKey
  <2>2. CASE ~claim.listed
    BY <2>2 DEF RightVerdict
  <2> QED  BY <2>1, <2>2
<1> QED  BY <1>3, <1>4, <1>5

\* A new block spends outputs after every snapshot and every answer there is.
LEMMA VerdictAddBlock ==
  ASSUME ValidationTypeOK, VerdictInv, NEW claims \in SUBSET Claims, NEW spends, AddBlock(claims, spends)
  PROVE  VerdictInv'
<1> USE ValidationAssumption
<1>1. /\ height' = height + 1 /\ height \in Nat /\ height < MaxHeight
      /\ \A x \in spends : spent[x] = Never
      /\ spent' = [x \in Outputs |-> IF x \in spends THEN height' ELSE spent[x]]
      /\ UNCHANGED <<inFlight, cache, fetching, doubtful, waiting, batch>>
  BY DEF AddBlock, ValidationTypeOK, jobVars
<1>2. \A x \in Outputs : spent[x] \in Nat /\ (spent'[x] = spent[x]
                            \/ (spent[x] = Never /\ spent'[x] = height + 1))
  BY <1>1 DEF ValidationTypeOK, Never
<1>3. ASSUME NEW a \in Nat, a <= height, NEW x \in Outputs PROVE a < spent[x] <=> a < spent'[x]
  BY <1>1, <1>2, <1>3 DEF Never
<1>4. ASSUME NEW k \in Keys, k.slot <= height PROVE Held(k)' = Held(k)
  <2>1. CreatedBefore(k) \subseteq Outputs /\ k.slot \in Nat
    BY KeysTyped DEF CreatedBefore
  <2>2. \A x \in CreatedBefore(k) : spent[x] > k.slot <=> spent'[x] > k.slot
    BY <1>2, <1>3, <1>4, <2>1
  <2> QED  BY <2>2 DEF Held, CreatedBefore
<1>5. ASSUME NEW k \in Keys, NEW a \in Nat, a <= height PROVE Unspent(k, a)' = Unspent(k, a)
  <2>1. CreatedBefore(k) \subseteq Outputs
    BY DEF CreatedBefore
  <2>2. \A x \in CreatedBefore(k) : spent[x] > a <=> spent'[x] > a
    BY <1>2, <1>3, <1>5, <2>1
  <2> QED  BY <2>2 DEF Unspent, CreatedBefore
<1>6. HoldingsStay
  <2>1. \A k \in Keys : k.slot <= height => k.slot <= height'
    BY <1>1, KeysTyped
  <2> QED  BY <1>4, <2>1 DEF HoldingsStay
<1>7. CachedRight' /\ VerifiedRight'
  BY <1>1, <1>6, RightOnChain
<1>8. FetchedRight'
  <2>1. ASSUME NEW f \in fetching, f.count # NoAnswer, f.key \notin doubtful
        PROVE  f.at <= height' /\ f.count = Amount(Unspent(f.key, f.at))'
    <3>1. f.at <= height /\ f.count = Amount(Unspent(f.key, f.at))
      BY <2>1 DEF VerdictInv, FetchedRight
    <3>2. f.at \in Nat /\ f.key \in Keys
      BY DEF ValidationTypeOK
    <3>3. Unspent(f.key, f.at)' = Unspent(f.key, f.at)
      BY <1>5, <3>1, <3>2
    <3>4. f.at <= height'
      BY <1>1, <3>1, <3>2
    <3> QED  BY <3>1, <3>3, <3>4
  <2> QED  BY <1>1, <2>1 DEF FetchedRight
<1>9. JudgedRight'
  <2> SUFFICES ASSUME NEW r \in votes', r.state # "UNVERIFIED", KeyOf(r.claim) \notin doubtful'
               PROVE  /\ r.state = RightVerdict(r.claim)'
                      /\ r.claim.listed => KeyOf(r.claim).slot <= height'
    BY DEF JudgedRight
  <2>1. r \in votes
    BY AddedRows
  <2>2. r.claim \in Claims
    BY <2>1 DEF ValidationTypeOK, Rows
  <2>3. r.state = RightVerdict(r.claim) /\ (r.claim.listed => KeyOf(r.claim).slot <= height)
    BY <1>1, <2>1 DEF VerdictInv, JudgedRight
  <2> QED  BY <1>1, <1>6, <2>2, <2>3, RightOnChain
<1>10. IdsInv'
  <2>1. HeldVotes' = HeldVotes
    BY <1>1 DEF HeldVotes
  <2>2. \A r \in votes \cup HeldVotes : r.id \in Nat /\ r.id < nextId
    BY HeldAreRows DEF VerdictInv, IdsInv, ValidationTypeOK, Rows
  <2>3. \A r \in votes' \ votes : r.id \in Nat /\ nextId <= r.id /\ r.id < nextId'
    BY AddedRows DEF Rows
  <2>4. nextId \in Nat /\ nextId' \in Nat /\ nextId <= nextId' /\ votes \subseteq votes'
    BY AddedRows DEF ValidationTypeOK
  <2>5. ASSUME NEW r \in votes' \cup HeldVotes' PROVE r.id < nextId'
    BY <2>1, <2>2, <2>3, <2>4
  <2>6. ASSUME NEW r \in votes', NEW v \in votes' \cup HeldVotes', r.id = v.id PROVE r.claim = v.claim
    <3>1. CASE r \in votes /\ v \in votes \cup HeldVotes
      BY <2>6, <3>1 DEF VerdictInv, IdsInv
    <3>2. CASE r \in votes' \ votes /\ v \in votes' \ votes
      BY <2>6, <3>2, AddedRows
    <3>3. CASE r \in votes' \ votes /\ v \in votes \cup HeldVotes
      BY <2>2, <2>3, <2>4, <2>6, <3>3
    <3>4. CASE r \in votes /\ v \in votes' \ votes
      BY <2>2, <2>3, <2>4, <2>6, <3>4
    <3> QED  BY <2>1, <3>1, <3>2, <3>3, <3>4
  <2> QED  BY <2>5, <2>6 DEF IdsInv
<1> QED  BY <1>7, <1>8, <1>9, <1>10 DEF VerdictInv

\* A rollback leaves in doubt what it may have changed: the snapshots it went
\* behind, and the requests under way.
LEMMA VerdictRollback ==
  ASSUME ValidationTypeOK, VerdictInv, NEW h \in 0 .. height - 1, Rollback(h)
  PROVE  VerdictInv'
<1> USE ValidationAssumption
<1>1. /\ height' = h /\ h \in Nat /\ h < height /\ height \in 0 .. MaxHeight
      /\ spent' = [x \in Outputs |-> IF spent[x] > h THEN Never ELSE spent[x]]
      /\ votes' = {r \in votes : r.height <= h}
      /\ doubtful' = doubtful \cup {k \in Keys : k.slot > h} \cup {f.key : f \in fetching}
      /\ UNCHANGED <<inFlight, cache, fetching, waiting, batch, nextId>>
  BY DEF Rollback, ValidationTypeOK, jobVars
<1>2. ASSUME NEW k \in Keys, k \notin doubtful' PROVE k.slot <= height' /\ Held(k)' = Held(k)
  <2>1. CreatedBefore(k) \subseteq Outputs /\ k.slot \in Nat /\ k.slot <= h
    BY <1>1, <1>2, KeysTyped DEF CreatedBefore
  <2>2. \A x \in Outputs : spent[x] \in Nat
    BY DEF ValidationTypeOK, Never
  <2>3. ASSUME NEW x \in CreatedBefore(k) PROVE spent[x] > k.slot <=> spent'[x] > k.slot
    <3>1. x \in Outputs /\ spent[x] \in Nat /\ spent'[x] = IF spent[x] > h THEN Never ELSE spent[x]
      BY <1>1, <2>1, <2>2
    <3> QED  BY <1>1, <2>1, <3>1 DEF Never
  <2> QED  BY <1>1, <2>1, <2>3 DEF Held, CreatedBefore
<1>3. HoldingsStay /\ doubtful \subseteq doubtful'
  BY <1>1, <1>2 DEF HoldingsStay
<1>4. CachedRight' /\ VerifiedRight'
  BY <1>1, <1>3, RightOnChain
<1>5. FetchedRight'
  BY <1>1 DEF FetchedRight
<1>6. JudgedRight'
  <2> SUFFICES ASSUME NEW r \in votes', r.state # "UNVERIFIED", KeyOf(r.claim) \notin doubtful'
               PROVE  /\ r.state = RightVerdict(r.claim)'
                      /\ r.claim.listed => KeyOf(r.claim).slot <= height'
    BY DEF JudgedRight
  <2>1. r \in votes /\ r.claim \in Claims
    BY <1>1 DEF ValidationTypeOK, Rows
  <2>2. r.state = RightVerdict(r.claim) /\ (r.claim.listed => KeyOf(r.claim).slot <= height)
    BY <1>3, <2>1 DEF VerdictInv, JudgedRight
  <2> QED  BY <1>1, <1>3, <2>1, <2>2, RightOnChain
<1>7. IdsInv'
  BY <1>1, IdsKept DEF HeldVotes, VerdictInv
<1> QED  BY <1>4, <1>5, <1>6, <1>7 DEF VerdictInv

\* Whatever leaves the table, the chain, the cache and the requests alone, and
\* takes up no vote with another power, keeps the verdicts right.
LEMMA VerdictKept ==
  ASSUME ValidationTypeOK, VerdictInv, UNCHANGED <<height, spent, votes, nextId, doubtful>>,
         HeldVotes' \subseteq votes \cup HeldVotes, cache' \subseteq cache, fetching' \subseteq fetching,
         \A e \in inFlight' : \E g \in inFlight : e.vote = g.vote /\ e.power = g.power
  PROVE  VerdictInv'
<1>1. IdsInv'
  BY IdsKept DEF VerdictInv
<1>2. CachedRight'
  BY RightKept DEF CachedRight, VerdictInv
<1>3. FetchedRight'
  <2>1. \A f : f.at <= height /\ f.count = Amount(Unspent(f.key, f.at)) =>
               f.at <= height' /\ f.count = Amount(Unspent(f.key, f.at))'
    BY RightKept
  <2> QED  BY <2>1 DEF FetchedRight, VerdictInv
<1>4. VerifiedRight'
  BY RightKept DEF VerifiedRight, VerdictInv
<1>5. JudgedRight'
  BY RightKept DEF JudgedRight, VerdictInv
<1> QED  BY <1>1, <1>2, <1>3, <1>4, <1>5 DEF VerdictInv

\* A chunk is verified with what the cache has.
LEMMA VerdictTakeChunk ==
  ASSUME ValidationTypeOK, VerdictInv, TakeChunk
  PROVE  VerdictInv'
<1> DEFINE entry(r) == [vote |-> r, power |-> PowerFor(r.claim), awaited |-> TRUE]
           entries(S) == {entry(r) : r \in S}
           keys(S) == {KeyOf(e.vote.claim) : e \in {f \in entries(S) : f.power = NoAnswer}}
           request(k) == [key |-> k, count |-> NoAnswer, at |-> 0]
<1>1. PICK S \in ChunksOf(batch) :
        /\ batch' = batch \ S /\ inFlight' = inFlight \cup entries(S)
        /\ fetching' = fetching \cup
             {request(k) : k \in {j \in keys(S) : \A f \in fetching : f.key # j}}
  BY DEF TakeChunk
<1> HIDE DEF keys
<1>2. UNCHANGED <<height, spent, votes, nextId, doubtful, waiting, cache>>
  BY DEF TakeChunk, chainVars
<1>3. S \subseteq batch
  BY DEF ChunksOf
<1>4. HeldVotes' \subseteq HeldVotes
  BY <1>1, <1>2, <1>3 DEF HeldVotes
<1>5. IdsInv'
  BY <1>2, <1>4, IdsKept DEF VerdictInv
<1>6. CachedRight'
  BY <1>2, RightKept DEF CachedRight, VerdictInv
<1>7. FetchedRight'
  <2>1. \A f \in fetching' : f \in fetching \/ f.count = NoAnswer
    BY <1>1
  <2>2. \A f : f.at <= height /\ f.count = Amount(Unspent(f.key, f.at)) =>
               f.at <= height' /\ f.count = Amount(Unspent(f.key, f.at))'
    BY <1>2, RightKept
  <2> QED  BY <1>2, <2>1, <2>2 DEF FetchedRight, VerdictInv
<1>8. VerifiedRight'
  <2>1. ASSUME NEW r \in S PROVE PowerRight(r.claim, PowerFor(r.claim))
    <3>1. CASE r.claim.listed /\ \E c \in cache : c.key = KeyOf(r.claim)
      <4> DEFINE c == CHOOSE d \in cache : d.key = KeyOf(r.claim)
      <4>1. c \in cache /\ c.key = KeyOf(r.claim)
        BY <3>1
      <4>2. PowerFor(r.claim) = c.count
        BY <3>1 DEF PowerFor
      <4> HIDE DEF c
      <4> QED  BY <3>1, <4>1, <4>2 DEF PowerRight, VerdictInv, CachedRight
    <3>2. CASE r.claim.listed /\ ~\E c \in cache : c.key = KeyOf(r.claim)
      BY <3>2 DEF PowerFor, PowerRight
    <3>3. CASE ~r.claim.listed
      BY <3>3 DEF PowerFor, PowerRight
    <3> QED  BY <3>1, <3>2, <3>3
  <2>2. \A r \in S : entry(r).vote = r /\ entry(r).power = PowerFor(r.claim)
    OBVIOUS
  <2> HIDE DEF entry
  <2>3. \A e \in inFlight' : PowerRight(e.vote.claim, e.power)
    BY <1>1, <2>1, <2>2 DEF VerdictInv, VerifiedRight
  <2> QED  BY <1>2, <2>3, RightKept DEF VerifiedRight
<1>9. JudgedRight'
  BY <1>2, RightKept DEF JudgedRight, VerdictInv
<1> QED  BY <1>5, <1>6, <1>7, <1>8, <1>9 DEF VerdictInv

\* The first answer is about the chain it was asked of.
LEMMA VerdictAnswerUnspent ==
  ASSUME ValidationTypeOK, VerdictInv, NEW f \in fetching, NEW at \in 0 .. height, AnswerUnspent(f, at)
  PROVE  VerdictInv'
<1> DEFINE answer == [key |-> f.key, count |-> Amount(Unspent(f.key, at)), at |-> at]
<1>1. /\ fetching' = (fetching \ {f}) \cup {answer}
      /\ UNCHANGED <<height, spent, votes, nextId, doubtful, waiting, batch, inFlight, cache>>
  BY DEF AnswerUnspent, chainVars, jobVars
<1>2. IdsInv'
  BY <1>1, IdsKept DEF VerdictInv, HeldVotes
<1>3. CachedRight' /\ VerifiedRight' /\ JudgedRight'
  BY <1>1, RightKept DEF CachedRight, VerifiedRight, JudgedRight, VerdictInv
<1>4. FetchedRight'
  <2>1. answer.key = f.key /\ answer.count = Amount(Unspent(f.key, at)) /\ answer.at = at
    OBVIOUS
  <2>2. at <= height
    BY ValidationAssumption DEF ValidationTypeOK
  <2> HIDE DEF answer
  <2>3. \A g : g.at <= height /\ g.count = Amount(Unspent(g.key, g.at)) =>
               g.at <= height' /\ g.count = Amount(Unspent(g.key, g.at))'
    BY <1>1, RightKept
  <2>4. \A g \in fetching' : g.count # NoAnswer /\ g.key \notin doubtful =>
          g.at <= height /\ g.count = Amount(Unspent(g.key, g.at))
    BY <1>1, <2>1, <2>2 DEF FetchedRight, VerdictInv
  <2> QED  BY <1>1, <2>3, <2>4 DEF FetchedRight
<1> QED  BY <1>2, <1>3, <1>4 DEF VerdictInv

\* Both answers together are right, or the key is in doubt.
LEMMA VerdictAnswerSpent ==
  ASSUME ValidationTypeOK, VerdictInv, NEW f \in fetching, NEW at \in 0 .. height, AnswerSpent(f, at)
  PROVE  VerdictInv'
<1> DEFINE total == f.count + Amount(SpentAfter(f.key, at))
           entry == [key |-> f.key, count |-> total]
           asked(e) == e.power = NoAnswer /\ KeyOf(e.vote.claim) = f.key
           answered(e) == IF asked(e) THEN [e EXCEPT !.power = total] ELSE e
<1>1. /\ f.count # NoAnswer
      /\ fetching' = fetching \ {f}
      /\ cache' = {c \in cache : c.key # f.key} \cup {entry}
      /\ inFlight' = {answered(e) : e \in inFlight}
      /\ doubtful' = IF f.at < f.key.slot \/ at < f.key.slot \/ Moved(f.key, f.at, at)
                       THEN doubtful \cup {f.key} ELSE doubtful
      /\ UNCHANGED <<height, spent, votes, nextId, waiting, batch>>
  BY DEF AnswerSpent, chainVars, jobVars
<1>2. f.key \in Keys /\ f.at \in Nat /\ at \in Nat /\ at <= height /\ f.key.slot \in Nat /\ height \in Nat
  BY ValidationAssumption, KeysTyped DEF ValidationTypeOK
<1>3. ASSUME f.key \notin doubtful' PROVE Right(f.key, total)
  <2>1. f.key \notin doubtful /\ f.key.slot <= f.at /\ f.key.slot <= at /\ ~Moved(f.key, f.at, at)
    BY <1>1, <1>2, <1>3
  <2>2. f.count = Amount(Unspent(f.key, f.at))
    BY <1>1, <2>1 DEF VerdictInv, FetchedRight
  <2>3. total = Amount(Held(f.key))
    BY <1>2, <2>1, <2>2, AnswersAreHeld
  <2> HIDE DEF total
  <2> QED  BY <1>2, <2>1, <2>3 DEF Right
<1>4. doubtful \subseteq doubtful'
  BY <1>1
<1>5. entry.key = f.key /\ entry.count = total
  OBVIOUS
<1> HIDE DEF total, entry
<1>6. ASSUME NEW e \in inFlight
      PROVE  /\ answered(e).vote = e.vote
             /\ answered(e).power = IF asked(e) THEN total ELSE e.power
  <2>1. e \in [vote : Rows, power : Nat \cup {NoAnswer}, awaited : BOOLEAN]
    BY DEF ValidationTypeOK
  <2> QED  BY <2>1
<1> HIDE DEF answered
<1>7. HeldVotes' \subseteq HeldVotes
  BY <1>1, <1>6 DEF HeldVotes
<1>8. IdsInv'
  BY <1>1, <1>7, IdsKept DEF VerdictInv
<1>9. CachedRight'
  <2>1. \A c \in cache' : c.key \notin doubtful' => Right(c.key, c.count)
    BY <1>1, <1>3, <1>4, <1>5 DEF CachedRight, VerdictInv
  <2> QED  BY <1>1, <1>4, <2>1, RightKept DEF CachedRight
<1>10. FetchedRight'
  <2>1. \A g : g.at <= height /\ g.count = Amount(Unspent(g.key, g.at)) =>
               g.at <= height' /\ g.count = Amount(Unspent(g.key, g.at))'
    BY <1>1, <1>4, RightKept
  <2> QED  BY <1>1, <1>4, <2>1 DEF FetchedRight, VerdictInv
<1>11. VerifiedRight'
  <2>1. ASSUME NEW e \in inFlight, NEW p, p = answered(e).power
        PROVE  PowerRight(e.vote.claim, p)'
    <3>1. PowerRight(e.vote.claim, e.power)
      BY DEF VerdictInv, VerifiedRight
    <3>2. CASE ~asked(e)
      <4>1. p = e.power
        BY <1>6, <2>1, <3>2
      <4> QED  BY <1>1, <1>4, <3>1, <4>1, RightKept
    <3>3. CASE asked(e)
      <4>1. p = total
        BY <1>6, <2>1, <3>3
      <4>2. PowerRight(e.vote.claim, p) \/ f.key \in doubtful'
        BY <1>3, <3>1, <3>3, <4>1 DEF PowerRight, NoAnswer
      <4>3. PowerRight(e.vote.claim, p)' \/ f.key \in doubtful'
        BY <1>1, <1>4, <4>2, RightKept
      <4>4. e.vote.claim.listed /\ KeyOf(e.vote.claim) = f.key
        BY <3>1, <3>3 DEF PowerRight, NoAnswer
      <4> QED  BY <4>3, <4>4 DEF PowerRight
    <3> QED  BY <3>2, <3>3
  <2>2. ASSUME NEW g \in inFlight' PROVE PowerRight(g.vote.claim, g.power)'
    <3>1. PICK e \in inFlight : g = answered(e)
      BY <1>1
    <3>2. g.vote = e.vote
      BY <1>6, <3>1
    <3>3. PowerRight(e.vote.claim, g.power)'
      BY <2>1, <3>1
    <3> QED  BY <3>2, <3>3
  <2> QED  BY <2>2 DEF VerifiedRight
<1>12. JudgedRight'
  BY <1>1, <1>4, RightKept DEF JudgedRight, VerdictInv
<1> QED  BY <1>8, <1>9, <1>10, <1>11, <1>12 DEF VerdictInv

\* The verdict goes to the row of the vote that was verified.
LEMMA VerdictWrite ==
  ASSUME ValidationTypeOK, VerdictInv, NEW e \in inFlight, WriteVerdict(e)
  PROVE  VerdictInv'
<1> DEFINE verdict == Verdict(e.vote.claim, e.power)
           written(r) == IF r.id = e.vote.id THEN [r EXCEPT !.state = verdict] ELSE r
<1>1. /\ e.power # NoAnswer
      /\ votes' = {written(r) : r \in votes}
      /\ inFlight' = inFlight \ {e}
      /\ UNCHANGED <<height, spent, nextId, doubtful, waiting, batch, cache, fetching>>
  BY DEF WriteVerdict, jobVars
<1>2. ASSUME NEW r \in votes
      PROVE  /\ written(r).id = r.id /\ written(r).claim = r.claim
             /\ written(r).state = IF r.id = e.vote.id THEN verdict ELSE r.state
  <2>1. r \in Rows
    BY DEF ValidationTypeOK
  <2> HIDE DEF verdict
  <2> QED  BY <2>1 DEF Rows
<1> HIDE DEF verdict, written
<1>3. HeldVotes' \subseteq HeldVotes
  BY <1>1 DEF HeldVotes
<1>4. IdsInv'
  BY <1>1, <1>2, <1>3, IdsKept DEF VerdictInv
<1>5. CachedRight' /\ FetchedRight' /\ VerifiedRight'
  <2>1. \A f : f.at <= height /\ f.count = Amount(Unspent(f.key, f.at)) =>
               f.at <= height' /\ f.count = Amount(Unspent(f.key, f.at))'
    BY <1>1, RightKept
  <2>2. FetchedRight'
    BY <1>1, <2>1 DEF FetchedRight, VerdictInv
  <2>3. CachedRight' /\ VerifiedRight'
    BY <1>1, RightKept DEF CachedRight, VerifiedRight, VerdictInv
  <2> QED  BY <2>2, <2>3
<1>6. JudgedRight'
  <2>1. ASSUME NEW r \in votes, NEW state, state = written(r).state,
               state # "UNVERIFIED", KeyOf(r.claim) \notin doubtful
        PROVE  state = RightVerdict(r.claim) /\ (r.claim.listed => KeyOf(r.claim).slot <= height)
    <3>1. CASE r.id = e.vote.id
      <4>1. r.claim = e.vote.claim
        BY <3>1 DEF VerdictInv, IdsInv, HeldVotes
      <4>2. PowerRight(r.claim, e.power)
        BY <4>1 DEF VerdictInv, VerifiedRight
      <4>3. state = Verdict(r.claim, e.power)
        BY <1>2, <2>1, <3>1, <4>1 DEF verdict
      <4> QED  BY <1>1, <2>1, <4>2, <4>3, RightPowerRightVerdict
    <3>2. CASE r.id # e.vote.id
      BY <1>2, <2>1, <3>2 DEF VerdictInv, JudgedRight
    <3> QED  BY <3>1, <3>2
  <2>2. ASSUME NEW s \in votes', s.state # "UNVERIFIED", KeyOf(s.claim) \notin doubtful
        PROVE  s.state = RightVerdict(s.claim) /\ (s.claim.listed => KeyOf(s.claim).slot <= height)
    <3>1. PICK r \in votes : s = written(r)
      BY <1>1
    <3> QED  BY <1>2, <2>1, <2>2, <3>1
  <2> QED  BY <1>1, <2>2, RightKept DEF JudgedRight
<1> QED  BY <1>4, <1>5, <1>6 DEF VerdictInv

\* Every step of the system keeps the verdicts right.
LEMMA VerdictStep ==
  ASSUME ValidationTypeOK, VerdictInv, [ValidationNext]_validationVars
  PROVE  VerdictInv'
<1> DEFINE kept == \A e \in inFlight' : \E g \in inFlight : e.vote = g.vote /\ e.power = g.power
<1>1. CASE Chain
  BY <1>1, VerdictAddBlock, VerdictRollback DEF Chain
<1>2. CASE Loop
  <2>1. CASE ReadBestBlock
    <3>1. UNCHANGED <<height, spent, votes, nextId, doubtful, waiting, batch, inFlight, cache, fetching>>
      BY <2>1 DEF ReadBestBlock, chainVars
    <3> QED  BY <3>1, VerdictKept DEF HeldVotes
  <2>2. CASE SelectVotes
    <3>1. /\ UNCHANGED <<height, spent, votes, nextId, doubtful, batch, inFlight, cache, fetching>>
          /\ waiting' \subseteq votes
      BY <2>2 DEF SelectVotes, chainVars
    <3> QED  BY <3>1, VerdictKept DEF HeldVotes
  <2>3. CASE TakePoll
    <3>1. /\ UNCHANGED <<height, spent, votes, nextId, doubtful, inFlight, cache, fetching>>
          /\ waiting' \subseteq waiting /\ batch' \subseteq waiting
      BY <2>3 DEF TakePoll, chainVars
    <3> QED  BY <3>1, VerdictKept DEF HeldVotes
  <2>4. CASE TakeChunk
    BY <2>4, VerdictTakeChunk
  <2>5. CASE FinishJob
    <3>1. UNCHANGED <<height, spent, votes, nextId, doubtful, waiting, batch, inFlight, cache, fetching>>
      BY <2>5 DEF FinishJob, chainVars
    <3> QED  BY <3>1, VerdictKept DEF HeldVotes
  <2> QED  BY <1>2, <2>1, <2>2, <2>3, <2>4, <2>5 DEF Loop
<1>3. ASSUME NEW failed, Abandon(failed), fetching' \subseteq fetching,
             UNCHANGED <<height, spent, votes, nextId, doubtful, cache>>
      PROVE  VerdictInv'
  <2>1. kept
    BY <1>3, AbandonTypes
  <2>2. HeldVotes' \subseteq HeldVotes
    BY <1>3, AbandonShrinks
  <2> QED  BY <1>3, <2>1, <2>2, VerdictKept
<1>4. CASE Verify
  <2>1. ASSUME NEW e \in inFlight, UpdateMissing(e) PROVE VerdictInv'
    BY <1>3, <2>1 DEF UpdateMissing, chainVars
  <2> QED  BY <1>4, <2>1, VerdictWrite DEF Verify
<1>5. CASE Kupo
  BY <1>5, VerdictAnswerUnspent, VerdictAnswerSpent DEF Kupo
<1>6. CASE Failure
  <2>1. ASSUME NEW e \in inFlight, UpdateFails(e) PROVE VerdictInv'
    BY <1>3, <2>1 DEF UpdateFails, chainVars
  <2>2. ASSUME NEW f \in fetching, RequestFails(f) PROVE VerdictInv'
    BY <1>3, <2>2 DEF RequestFails, chainVars
  <2>3. CASE CrashJob
    <3>1. /\ UNCHANGED <<height, spent, votes, nextId, doubtful>>
          /\ waiting' = {} /\ batch' = {} /\ inFlight' = {} /\ cache' = {} /\ fetching' = {}
      BY <2>3 DEF CrashJob, chainVars
    <3>2. HeldVotes' = {}
      BY <3>1 DEF HeldVotes
    <3> QED  BY <3>1, <3>2, VerdictKept
  <2> QED  BY <1>6, <2>1, <2>2, <2>3 DEF Failure
<1>7. ASSUME NEW c \in cache, Expire(c) PROVE VerdictInv'
  <2>1. /\ UNCHANGED <<height, spent, votes, nextId, doubtful, waiting, batch, inFlight, fetching>>
        /\ cache' \subseteq cache
    BY <1>7 DEF Expire, chainVars, jobVars
  <2> QED  BY <2>1, VerdictKept DEF HeldVotes
<1>8. CASE UNCHANGED validationVars
  <2>1. UNCHANGED <<height, spent, votes, nextId, doubtful, waiting, batch, inFlight, cache, fetching>>
    BY <1>8 DEF validationVars, chainVars, jobVars
  <2> QED  BY <2>1, VerdictKept DEF HeldVotes
<1> QED  BY <1>1, <1>2, <1>4, <1>5, <1>6, <1>7, <1>8 DEF ValidationNext

\* A verdict in the table is the right one for what the owner held at the
\* snapshot of the vote's own poll, for any votes, outputs, rollbacks, retries
\* and failures, unless Kupo's answers left the key in doubt.
THEOREM VerdictsSettleRight == ValidationSpec => []SettledVerdictsCorrect
<1>1. VerdictInv => SettledVerdictsCorrect
  BY DEF VerdictInv, JudgedRight, SettledVerdictsCorrect
<1>2. VerdictInv /\ ValidationTypeOK /\ [ValidationNext]_validationVars => VerdictInv'
  BY VerdictStep
<1> QED  BY <1>1, <1>2, VerdictInit, ValidationTypeCorrect, PTL DEF ValidationSpec
=============================================================================
