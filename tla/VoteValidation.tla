--------------------------- MODULE VoteValidation ---------------------------
(***************************************************************************)
(* The vote validation job, backend/src/validation: a loop beside block    *)
(* syncing that compares the voting power a vote claims with the outputs   *)
(* its owner held at the snapshot of the poll, as Kupo tells them.         *)
(*                                                                         *)
(* The database is here what the job uses of it: the votes and the best    *)
(* block, which the aggregator extends and rolls back at any time.  There  *)
(* is a block in every slot, so that a height is a slot.  Kupo follows the *)
(* same chain and may be behind.                                           *)
(***************************************************************************)
EXTENDS Integers, FiniteSets, FiniteSetsExt, Functions

CONSTANTS
  Claims,      \* the votes users cast: [poll, owner, power, listed]
  Snapshot,    \* the snapshot slot of each poll
  Outputs,     \* the outputs holding the token: [owner, amount, created]
  AgeLimit,    \* blocks a vote has to be old, 5 in the code
  ChunkSize,   \* VOTE_VERIFICATION_CHUNK_SIZE, 5 in the code
  MaxHeight,   \* bound: best block
  MaxRows,     \* bound: rows ever inserted
  MaxRollbacks,\* bound: rollbacks
  MaxLag,      \* bound: blocks Kupo is behind
  MaxFailures  \* bound: failed requests and statements, crashes

ASSUME ValidationAssumption ==
  /\ AgeLimit \in Nat /\ ChunkSize \in Nat \ {0}
  /\ MaxHeight \in Nat /\ MaxRows \in Nat
  /\ MaxRollbacks \in Nat /\ MaxLag \in Nat /\ MaxFailures \in Nat
  /\ IsFiniteSet(Claims) /\ IsFiniteSet(Outputs)
  /\ \A c \in Claims : c.power \in Nat /\ c.listed \in BOOLEAN /\ Snapshot[c.poll] \in Nat
  /\ \A x \in Outputs : x.amount \in Nat /\ x.created \in Nat

VARIABLES
  height,   \* the best block
  spent,    \* the slot each output is spent in, or Never
  votes,    \* the table of votes
  nextId,   \* the sequence their ids are drawn from
  job,      \* what the loop is doing
  known,    \* the best block as the job read it
  waiting,  \* votes the job read, of the polls not taken up yet
  batch,    \* votes of the current poll not in a chunk yet
  inFlight, \* votes being verified
  fetching, \* Kupo requests under way: [key, count, at]
  cache,    \* userWalletsUtxosCache: [key, count]
  failures, \* failures so far
  highest,  \* history: the highest best block ever
  rollbacks,\* rollbacks so far
  deepest,  \* history: the depth of the deepest rollback, from there
  doubtful  \* history: keys Kupo was asked about while the answer changed

chainVars == <<height, spent, votes, nextId, rollbacks, highest, deepest>>
jobVars == <<job, known, waiting, batch>>
validationVars == <<chainVars, jobVars, inFlight, fetching, cache, failures, doubtful>>

Never == MaxHeight + 1

\* Mutant: the snapshot is not part of the key.
KeyOfOwner(claim) ==
  [owner |-> claim.owner, slot |-> CHOOSE s \in {Snapshot[p] : p \in DOMAIN Snapshot} : TRUE]

\* What fetchUtxos is called with, and what its result is cached under.
KeyOf(claim) == [owner |-> claim.owner, slot |-> Snapshot[claim.poll]]

Keys == {KeyOf(c) : c \in Claims}

Amount(xs) == MapThenSumSet(LAMBDA x : x.amount, xs)
-----------------------------------------------------------------------------
(***************************************************************************)
(* The chain.  A vote is on it once; the row of a vote that comes back     *)
(* after a rollback is a new one.                                          *)
(***************************************************************************)
AddBlock(claims, spends) ==
  /\ height < MaxHeight
  /\ \A r \in votes : r.claim \notin claims
  /\ nextId + Cardinality(claims) <= MaxRows + 1
  /\ \A x \in spends : x.created <= height /\ spent[x] = Never
  /\ height' = height + 1
  /\ highest' = IF height' > highest THEN height' ELSE highest
  /\ spent' = [x \in Outputs |-> IF x \in spends THEN height' ELSE spent[x]]
  /\ nextId' = nextId + Cardinality(claims)
  /\ LET id == CHOOSE f \in Bijection(claims, nextId .. nextId' - 1) : TRUE
     IN  votes' = votes \cup
           {[id |-> id[c], claim |-> c, height |-> height', state |-> "UNVERIFIED"] : c \in claims}
  /\ UNCHANGED <<rollbacks, deepest, jobVars, inFlight, fetching, cache, failures, doubtful>>

Rollback(h) ==
  /\ rollbacks < MaxRollbacks
  /\ rollbacks' = rollbacks + 1
  /\ height' = h
  /\ deepest' = IF highest - h > deepest THEN highest - h ELSE deepest
  /\ spent' = [x \in Outputs |-> IF spent[x] > h THEN Never ELSE spent[x]]
  /\ votes' = {r \in votes : r.height <= h}
  /\ doubtful' = doubtful \cup {k \in Keys : k.slot > h} \cup {f.key : f \in fetching}
  /\ UNCHANGED <<highest, nextId, jobVars, inFlight, fetching, cache, failures>>
-----------------------------------------------------------------------------
\* voteValidationLoop: getSyncHealthStatus reads the best block.  While the
\* database is not synced, the loop only sleeps.
ReadBestBlock ==
  /\ job = "sleeping"
  /\ known' = height
  /\ job' = "selecting"
  /\ UNCHANGED <<chainVars, waiting, batch, inFlight, fetching, cache, failures, doubtful>>

\* Mutant: a vote may be one block younger (lte for lt).
OldEnoughYounger(r) == r.height <= known - AgeLimit

\* Mutant: a vote has to be one block older.
OldEnoughOlder(r) == r.height < known - AgeLimit - 1

OldEnough(r) == r.height < known - AgeLimit

SelectVotes ==
  /\ job = "selecting"
  /\ waiting' = {r \in votes : r.state = "UNVERIFIED" /\ OldEnough(r)}
  /\ known' = 0
  /\ job' = "verifying"
  /\ UNCHANGED <<chainVars, batch, inFlight, fetching, cache, failures, doubtful>>

Awaited == {e \in inFlight : e.awaited}

\* verifyVotesInPoll, for one poll after the other.
TakePoll ==
  /\ job = "verifying" /\ Awaited = {} /\ batch = {}
  /\ \E r \in waiting : batch' = {s \in waiting : s.claim.poll = r.claim.poll}
  /\ waiting' = waiting \ batch'
  /\ UNCHANGED <<chainVars, job, known, inFlight, fetching, cache, failures, doubtful>>

\* The power a vote is compared with: nothing if it lists no outputs, what the
\* cache has, or an answer still to come.
NoAnswer == -1

PowerFor(claim) ==
  IF ~claim.listed THEN 0
  ELSE IF \E c \in cache : c.key = KeyOf(claim)
    THEN (CHOOSE c \in cache : c.key = KeyOf(claim)).count
    ELSE NoAnswer

ChunksOf(rows) ==
  {S \in SUBSET rows :
     Cardinality(S) = IF Cardinality(rows) < ChunkSize THEN Cardinality(rows) ELSE ChunkSize}

\* A chunk starts all its votes; those of one key share a request.
TakeChunk ==
  /\ job = "verifying" /\ Awaited = {} /\ batch # {}
  /\ \E S \in ChunksOf(batch) :
       LET entries == {[vote |-> r, power |-> PowerFor(r.claim), awaited |-> TRUE] : r \in S}
           keys == {KeyOf(e.vote.claim) : e \in {f \in entries : f.power = NoAnswer}}
       IN  /\ batch' = batch \ S
           /\ inFlight' = inFlight \cup entries
           /\ fetching' = fetching \cup
                {[key |-> k, count |-> NoAnswer, at |-> 0]
                   : k \in {j \in keys : \A f \in fetching : f.key # j}}
  /\ UNCHANGED <<chainVars, job, known, waiting, cache, failures, doubtful>>

FinishJob ==
  /\ job = "verifying" /\ Awaited = {} /\ batch = {} /\ waiting = {}
  /\ job' = "sleeping"
  /\ UNCHANGED <<chainVars, known, waiting, batch, inFlight, fetching, cache, failures, doubtful>>
-----------------------------------------------------------------------------
(***************************************************************************)
(* Kupo, at some block it has reached.                                     *)
(***************************************************************************)
CreatedBefore(k) == {x \in Outputs : x.owner = k.owner /\ x.created < k.slot}

Unspent(k, at) == {x \in CreatedBefore(k) : x.created <= at /\ spent[x] > at}

SpentAfter(k, at) == {x \in CreatedBefore(k) : k.slot + 1 <= spent[x] /\ spent[x] <= at}

\* An output of the owner is spent between the two blocks.
Moved(k, a, b) ==
  \E x \in CreatedBefore(k) : (a < spent[x]) # (b < spent[x])

\* fetchUtxos: the unspent outputs first ...
AnswerUnspent(f, at) ==
  /\ f.count = NoAnswer
  /\ fetching' = (fetching \ {f}) \cup
       {[key |-> f.key, count |-> Amount(Unspent(f.key, at)), at |-> at]}
  /\ UNCHANGED <<chainVars, jobVars, inFlight, cache, failures, doubtful>>

\* ... then those spent since the snapshot.  The sum is cached and handed to
\* the votes that wait for it.
AnswerSpent(f, at) ==
  LET total == f.count + Amount(SpentAfter(f.key, at))
  IN  /\ f.count # NoAnswer
      /\ fetching' = fetching \ {f}
      /\ cache' = {c \in cache : c.key # f.key} \cup {[key |-> f.key, count |-> total]}
      /\ inFlight' = {IF e.power = NoAnswer /\ KeyOf(e.vote.claim) = f.key
                        THEN [e EXCEPT !.power = total] ELSE e : e \in inFlight}
      /\ doubtful' = IF f.at < f.key.slot \/ at < f.key.slot \/ Moved(f.key, f.at, at)
                       THEN doubtful \cup {f.key} ELSE doubtful
      /\ UNCHANGED <<chainVars, jobVars, failures>>

\* The cache forgets what is older than five days.
Expire(c) ==
  /\ cache' = cache \ {c}
  /\ UNCHANGED <<chainVars, jobVars, inFlight, fetching, failures, doubtful>>
-----------------------------------------------------------------------------
\* Mutant: an error ends the loop.
AbandonLoop(failed) ==
  IF \E e \in failed : e.awaited
    THEN /\ inFlight' = {[e EXCEPT !.awaited = FALSE] : e \in inFlight \ failed}
         /\ job' = "ended" /\ waiting' = {} /\ batch' = {}
    ELSE /\ inFlight' = inFlight \ failed
         /\ UNCHANGED <<job, waiting, batch>>

\* A rejected verification ends the job until the next round.  What the chunk
\* has under way goes on, with nobody waiting for it.
Abandon(failed) ==
  IF \E e \in failed : e.awaited
    THEN /\ inFlight' = {[e EXCEPT !.awaited = FALSE] : e \in inFlight \ failed}
         /\ job' = "sleeping" /\ waiting' = {} /\ batch' = {}
    ELSE /\ inFlight' = inFlight \ failed
         /\ UNCHANGED <<job, waiting, batch>>

Verdict(claim, power) == IF power >= claim.power THEN "VERIFIED" ELSE "INVALID"

RowExists(id) == \E r \in votes : r.id = id

WriteVerdict(e) ==
  /\ e.power # NoAnswer
  /\ RowExists(e.vote.id)
  /\ votes' = {IF r.id = e.vote.id
                 THEN [r EXCEPT !.state = Verdict(e.vote.claim, e.power)] ELSE r : r \in votes}
  /\ inFlight' = inFlight \ {e}
  /\ UNCHANGED <<height, spent, nextId, rollbacks, highest, deepest, jobVars, fetching, cache,
                 failures, doubtful>>

\* The vote was rolled back in the meantime: prisma.vote.update throws.
UpdateMissing(e) ==
  /\ e.power # NoAnswer
  /\ ~RowExists(e.vote.id)
  /\ Abandon({e})
  /\ UNCHANGED <<chainVars, known, fetching, cache, failures, doubtful>>

\* The database is unavailable.
UpdateFails(e) ==
  /\ failures < MaxFailures
  /\ e.power # NoAnswer
  /\ Abandon({e})
  /\ failures' = failures + 1
  /\ UNCHANGED <<chainVars, known, fetching, cache, doubtful>>

\* Kupo is unavailable: all votes that share the request fail, and nothing is cached.
RequestFails(f) ==
  /\ failures < MaxFailures
  /\ Abandon({e \in inFlight : e.power = NoAnswer /\ KeyOf(e.vote.claim) = f.key})
  /\ fetching' = fetching \ {f}
  /\ failures' = failures + 1
  /\ UNCHANGED <<chainVars, known, cache, doubtful>>

CrashJob ==
  /\ failures < MaxFailures
  /\ job' = "sleeping" /\ known' = 0 /\ waiting' = {} /\ batch' = {}
  /\ inFlight' = {} /\ fetching' = {} /\ cache' = {}
  /\ failures' = failures + 1
  /\ UNCHANGED <<chainVars, doubtful>>
-----------------------------------------------------------------------------
ValidationInit ==
  /\ height = 0 /\ highest = 0 /\ rollbacks = 0 /\ deepest = 0
  /\ spent = [x \in Outputs |-> Never]
  /\ votes = {} /\ nextId = 1
  /\ job = "sleeping" /\ known = 0 /\ waiting = {} /\ batch = {}
  /\ inFlight = {} /\ fetching = {} /\ cache = {}
  /\ failures = 0
  /\ doubtful = {}

Chain ==
  \/ \E claims \in SUBSET Claims, spends \in SUBSET Outputs :
       Cardinality(spends) <= 1 /\ AddBlock(claims, spends)
  \/ \E h \in 0 .. height - 1 : Rollback(h)

Loop == ReadBestBlock \/ SelectVotes \/ TakePoll \/ TakeChunk \/ FinishJob

Verify == \E e \in inFlight : WriteVerdict(e) \/ UpdateMissing(e)

Kupo ==
  \E f \in fetching, at \in 0 .. height :
    height - at <= MaxLag /\ (AnswerUnspent(f, at) \/ AnswerSpent(f, at))

Failure ==
  \/ \E e \in inFlight : UpdateFails(e)
  \/ \E f \in fetching : RequestFails(f)
  \/ CrashJob

ValidationNext ==
  \/ Chain \/ Loop \/ Verify \/ Kupo \/ Failure
  \/ \E c \in cache : Expire(c)

ValidationSpec == ValidationInit /\ [][ValidationNext]_validationVars

\* The loop, the database and Kupo keep running; blocks, rollbacks and
\* failures are not owed.
FairValidation ==
  ValidationSpec /\ WF_validationVars(Loop) /\ WF_validationVars(Verify)
                 /\ WF_validationVars(Kupo)
-----------------------------------------------------------------------------
(***************************************************************************)
(* Properties.                                                             *)
(***************************************************************************)
Rows == [id : Nat, claim : Claims, height : Nat, state : {"UNVERIFIED", "VERIFIED", "INVALID"}]

\* The type invariant.
ValidationTypeOK ==
  /\ height \in 0 .. MaxHeight
  /\ spent \in [Outputs -> 1 .. Never]
  /\ votes \subseteq Rows /\ nextId \in Nat
  /\ job \in {"sleeping", "selecting", "verifying"}
  /\ known \in Nat /\ waiting \subseteq Rows /\ batch \subseteq Rows
  /\ inFlight \subseteq [vote : Rows, power : Nat \cup {NoAnswer}, awaited : BOOLEAN]
  /\ fetching \subseteq [key : Keys, count : Nat \cup {NoAnswer}, at : Nat]
  /\ cache \subseteq [key : Keys, count : Nat]
  /\ failures \in 0 .. MaxFailures
  /\ rollbacks \in 0 .. MaxRollbacks
  /\ highest \in 0 .. MaxHeight /\ deepest \in 0 .. MaxHeight
  /\ doubtful \subseteq Keys

\* What the owner of a key held at its slot, on the present chain.
Held(k) == {x \in CreatedBefore(k) : spent[x] > k.slot}

RightVerdict(claim) ==
  Verdict(claim, IF claim.listed
                   THEN Amount(Held([owner |-> claim.owner, slot |-> Snapshot[claim.poll]])) ELSE 0)

\* Every verdict in the table is the right one for the owner's outputs at the
\* snapshot of the vote's own poll, whatever was cached, rolled back, retried
\* or spent since; unless Kupo's two answers were about different holdings or
\* about a snapshot still to come, or the snapshot itself was rolled back.
SettledVerdictsCorrect ==
  \A r \in votes :
    r.state # "UNVERIFIED" /\ KeyOf(r.claim) \notin doubtful => r.state = RightVerdict(r.claim)

\* As the schema says of the verification state, with no exception.
VerdictsCorrect ==
  \A r \in votes : r.state # "UNVERIFIED" => r.state = RightVerdict(r.claim)

\* No vote is INVALID whose owner held what it claims and has spent none of it.
HoldersAreVerified ==
  \A r \in votes :
    r.state = "INVALID" /\ RightVerdict(r.claim) = "VERIFIED" =>
      \E x \in Held(KeyOf(r.claim)) : spent[x] # Never

\* The age a vote must have keeps the update of a vote that was rolled back
\* from failing, as long as rollbacks are at most one block deeper.
UpdatesSucceed ==
  deepest <= AgeLimit + 1 => \A e \in inFlight : RowExists(e.vote.id)

\* A vote that is old enough is not left unverified for ever.
Due(c) ==
  \E r \in votes : r.claim = c /\ r.state = "UNVERIFIED" /\ r.height < height - AgeLimit

EveryVoteJudged == \A c \in Claims : []<>~Due(c)
=============================================================================
