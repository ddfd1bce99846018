------------------------------ MODULE Metadata ------------------------------
(***************************************************************************)
(* The metadata of a governance transaction: what the SDK writes under the *)
(* labels 5752 and 5753 and what the aggregator reads there.  A datum is a *)
(* record with one field that tells its kind, as in Ogmios' detailed       *)
(* schema.  A parser that throws gives the empty set and one that returns  *)
(* a value gives the set of that value, so a decoder is a comprehension    *)
(* over what its parsers give, and throws when any of them does.           *)
(*                                                                         *)
(* A text is the sequence of its pieces of at most 64 bytes: a string is a *)
(* text of one piece, and splitMetadatumString lists the pieces.           *)
(***************************************************************************)
EXTENDS Integers, Sequences

Int64(n)   == [int |-> n]
String(s)  == [string |-> s]
Numeral(n) == [string |-> "digits", number |-> n]  \* a string that reads as n
Bytes(b)   == [bytes |-> b]
List(l)    == [list |-> l]
Map(f)     == [map |-> f]     \* f maps data to data
Undefined  == [undefined |-> TRUE]

Is(kind, d) == kind \in DOMAIN d

Get(m, field) == IF String(field) \in DOMAIN m.map THEN m.map[String(field)] ELSE Undefined

Fields(f) == Map([k \in {String(n) : n \in DOMAIN f} |-> f[k.string]])

SplitMetadatumString(text) == List([i \in DOMAIN text |-> String(text[i])])
-----------------------------------------------------------------------------
ParseBuffer(d) == IF Is("bytes", d) THEN {d.bytes} ELSE {}

ParseArray(d) == IF Is("list", d) THEN {d.list} ELSE {}

ParseInteger(d) == IF Is("int", d) THEN {d.int} ELSE {}

AssertMetadatumMap(d) == IF Is("map", d) THEN {d} ELSE {}

ParseBigNumber(d) ==
  IF Is("int", d) THEN {d.int} ELSE IF Is("number", d) THEN {d.number} ELSE {}

\* Only the first element of a list is checked; join coerces the others.
Piece(d) == IF Is("string", d) THEN d.string ELSE "coerced"

ParseString(d) ==
  IF Is("string", d) THEN {<<d.string>>}
  ELSE IF Is("list", d)
    THEN IF d.list = <<>> \/ Is("string", d.list[1])
           THEN {[i \in DOMAIN d.list |-> Piece(d.list[i])]} ELSE {}
  ELSE {}

ParseStringArray(d) ==
  {l \in ParseArray(d) : \A i \in DOMAIN l : ParseString(l[i]) # {}}

Empty(d) == \/ Is("list", d) /\ d.list = <<>>
            \/ Is("string", d) /\ d.string = ""

\* Number() reads emptiness as zero.  Digits inside bytes or a list, which it
\* would read too, are not told from other bytes and lists here.
ParsePosixTime(d) == IF Empty(d) THEN {0} ELSE ParseBigNumber(d)
-----------------------------------------------------------------------------
(***************************************************************************)
(* A proposal is a record with a requestedAmount or without one.           *)
(***************************************************************************)
ChoiceList(choices) == List([i \in DOMAIN choices |-> String(choices[i])])

EncodeProposal(p) ==
  Fields([f \in DOMAIN p |->
    CASE f = "owner" -> Bytes(p.owner)
      [] f = "description" -> SplitMetadatumString(p.description)
      [] f \in {"acceptChoices", "rejectChoices"} -> ChoiceList(p[f])
      [] f = "requestedAmount" -> Numeral(p.requestedAmount)
      [] OTHER -> String(p[f])])

\* poll.snapshot || poll.start.
EncodePoll(q) ==
  IF "txHash" \in DOMAIN q
    THEN Fields([op |-> String("assign"), id |-> Bytes(q.txHash)])
    ELSE Fields([op |-> String("create"), start |-> Int64(q.start),
                 snapshot |-> Int64(IF "snapshot" \in DOMAIN q THEN q.snapshot ELSE q.start),
                 end |-> Int64(q.end), description |-> SplitMetadatumString(q.description)])

EncodeAddProposal(p, q) ==
  Fields([op |-> String("addProposal"), proposal |-> EncodeProposal(p), poll |-> EncodePoll(q)])

EncodeConclude(proposal, results) ==
  Fields([op |-> String("concludeProposal"), id |-> Bytes(proposal),
          result |-> String(results.result),
          choices |-> Map([k \in {String(i) : i \in DOMAIN results.choices} |->
                        Int64(results.choices[k.string])]),
          total |-> Int64(results.total), abstained |-> Int64(results.abstained),
          note |-> SplitMetadatumString(results.note)])

EncodeCancel(proposal, reason) ==
  Fields([op |-> String("cancelProposal"), id |-> Bytes(proposal),
          reason |-> SplitMetadatumString(reason)])

\* A vote has its poll, owner, power, UTxOs and choices.
EncodeVote(v) ==
  Map([k \in {Bytes(v.poll)} |->
    Fields([owner |-> Bytes(v.owner), power |-> Int64(v.power),
            utxos |-> List([i \in DOMAIN v.utxos |->
                        List(<<Bytes(v.utxos[i].tx), Int64(v.utxos[i].index)>>)]),
            choices |-> Map([c \in {Bytes(h) : h \in DOMAIN v.choices} |->
                          Int64(v.choices[c.bytes])])])])
-----------------------------------------------------------------------------
(***************************************************************************)
(* What is decoded keeps the fields the aggregator stores or looks at; the *)
(* other texts only have to parse.                                         *)
(***************************************************************************)
Texts(m, fields) == \A f \in fields : ParseString(Get(m, f)) # {}

\* An absent or empty amount is no amount.
AmountParses(m) ==
  LET d == Get(m, "requestedAmount")
  IN  d = Undefined \/ d = String("") \/ ParseBigNumber(d) # {}

DecodeProposal(m) ==
  {p \in {[owner |-> o, choices |-> Len(accept) + Len(reject)] :
            o \in ParseBuffer(Get(m, "owner")),
            accept \in ParseStringArray(Get(m, "acceptChoices")),
            reject \in ParseStringArray(Get(m, "rejectChoices"))} :
     /\ Texts(m, {"name", "description", "uri", "communityUri"})
     /\ AmountParses(m)
     /\ p.choices > 0}

DecodeNewPoll(m) ==
  {q \in {[start |-> start, end |-> end] : start \in ParsePosixTime(Get(m, "start")),
                                           end \in ParsePosixTime(Get(m, "end"))} :
     /\ Texts(m, {"description"}) /\ ParsePosixTime(Get(m, "snapshot")) # {}
     /\ q.start <= q.end}

DecodePoll(m) ==
  CASE <<"create">> \in ParseString(Get(m, "op")) -> DecodeNewPoll(m)
    [] <<"assign">> \in ParseString(Get(m, "op")) -> {[txHash |-> h] : h \in ParseBuffer(Get(m, "id"))}
    [] OTHER -> {}

DecodeAddProposal(m) ==
  {[proposal |-> p, poll |-> q] :
     p \in UNION {DecodeProposal(d) : d \in AssertMetadatumMap(Get(m, "proposal"))},
     q \in UNION {DecodePoll(d) : d \in AssertMetadatumMap(Get(m, "poll"))}}

DecodeConclude(m) ==
  {[target |-> h, passed |-> (result = <<"PASSED">>)] :
     h \in ParseBuffer(Get(m, "id")), result \in ParseString(Get(m, "result"))}

DecodeCancel(m) ==
  {[target |-> h] : h \in {b \in ParseBuffer(Get(m, "id")) : Texts(m, {"reason"})}}

DecodeUtxo(d) ==
  UNION {{[tx |-> h, index |-> n] : h \in ParseBuffer(l[1]), n \in ParseInteger(l[2])} :
           l \in {a \in ParseArray(d) : Len(a) = 2}}

UtxosDecode(d) == \E l \in ParseArray(d) : \A i \in DOMAIN l : DecodeUtxo(l[i]) # {}

DecodeChoices(d) ==
  {[h \in {k.bytes : k \in DOMAIN m.map} |-> m.map[Bytes(h)].int] :
     m \in {a \in AssertMetadatumMap(d) :
              \A k \in DOMAIN a.map : /\ ParseBuffer(k) # {}
                                      /\ \E n \in ParseInteger(a.map[k]) : n >= -1}}

\* The vote of one poll, the key of its entry.
DecodePollVote(k, d) ==
  {[poll |-> h, owner |-> o, power |-> n, choices |-> c] :
     h \in ParseBuffer(k),
     o \in UNION {ParseBuffer(Get(m, "owner")) : m \in AssertMetadatumMap(d)},
     n \in UNION {ParseInteger(Get(m, "power")) : m \in AssertMetadatumMap(d)},
     c \in UNION {DecodeChoices(Get(m, "choices")) : m \in
                    {a \in AssertMetadatumMap(d) : UtxosDecode(Get(a, "utxos"))}}}

\* One entry that does not decode refuses them all.
DecodeVotes(d) ==
  UNION {LET votes == UNION {DecodePollVote(k, m.map[k]) : k \in DOMAIN m.map}
         IN  {v \in {votes} : \A k \in DOMAIN m.map : DecodePollVote(k, m.map[k]) # {}} :
           m \in AssertMetadatumMap(d)}
=============================================================================
