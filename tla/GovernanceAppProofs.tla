------------------------- MODULE GovernanceAppProofs -------------------------
(***************************************************************************)
(* Proofs about the way of an action.  First the metadata: what the SDK    *)
(* encodes is what the aggregator decodes, for every proposal, poll,       *)
(* conclusion, cancellation and vote, without throwing or giving anything  *)
(* else.  Then what becomes of an action, from the page to the database.   *)
(***************************************************************************)
EXTENDS GovernanceApp, TLAPS

IsSeq(s) == s \in Seq({s[i] : i \in DOMAIN s})

\* A sequence has a first element unless it is empty.
LEMMA NotEmpty ==
  ASSUME NEW s, IsSeq(s)
  PROVE  /\ s # <<>> => 1 \in DOMAIN s
         /\ s = [i \in DOMAIN s |-> s[i]]
         /\ \A r : DOMAIN r = DOMAIN s /\ r = [i \in DOMAIN r |-> r[i]] => Len(r) = Len(s)
<1> DEFINE S == {s[i] : i \in DOMAIN s}
<1>1. s \in Seq(S)
  BY DEF IsSeq
<1> HIDE DEF S
<1>2. Len(s) \in Nat /\ DOMAIN s = 1 .. Len(s)
  BY <1>1
<1>3. s # <<>> => 1 \in DOMAIN s
  BY <1>1
<1>4. ASSUME NEW r, DOMAIN r = DOMAIN s, r = [i \in DOMAIN r |-> r[i]] PROVE Len(r) = Len(s)
  BY <1>2, <1>4
<1> QED  BY <1>1, <1>3, <1>4

\* Reading a field back, and a field that was not written.
LEMMA FieldRead ==
  ASSUME NEW f, NEW n \in DOMAIN f PROVE Get(Fields(f), n) = f[n]
<1> DEFINE keys == {String(m) : m \in DOMAIN f}
           g == [k \in keys |-> f[k.string]]
<1>1. String(n) \in keys OBVIOUS
<1>2. String(n).string = n BY DEF String
<1>3. Fields(f).map = g BY DEF Fields, Map
<1>4. DOMAIN g = keys OBVIOUS
<1>5. g[String(n)] = f[n] BY <1>1, <1>2
<1> QED BY <1>1, <1>3, <1>4, <1>5 DEF Get

LEMMA FieldMissing ==
  ASSUME NEW f, NEW n, n \notin DOMAIN f PROVE Get(Fields(f), n) = Undefined
<1> DEFINE keys == {String(m) : m \in DOMAIN f}
           g == [k \in keys |-> f[k.string]]
<1>1. String(n) \notin keys
  <2>1. ASSUME NEW m \in DOMAIN f, String(m) = String(n) PROVE FALSE
    <3>1. String(m).string = m /\ String(n).string = n BY DEF String
    <3> QED BY <3>1, <2>1
  <2> QED BY <2>1
<1>2. Fields(f).map = g BY DEF Fields, Map
<1>3. DOMAIN g = keys OBVIOUS
<1> QED BY <1>1, <1>2, <1>3 DEF Get

\* Each parser gives back what was written for it.
LEMMA Kinds ==
  ASSUME NEW x
  PROVE  /\ Is("int", Int64(x)) /\ Int64(x).int = x
         /\ Is("string", String(x)) /\ String(x).string = x
         /\ Is("bytes", Bytes(x)) /\ Bytes(x).bytes = x
         /\ Is("list", List(x)) /\ List(x).list = x
         /\ Is("map", Map(x)) /\ Map(x).map = x
         /\ ~Is("int", List(x)) /\ ~Is("string", List(x)) /\ ~Is("list", Int64(x))
         /\ ~Is("string", Int64(x)) /\ Is("number", Numeral(x)) /\ Numeral(x).number = x
         /\ ~Is("int", Numeral(x))
BY DEF Is, Int64, String, Bytes, List, Map, Numeral

LEMMA BufferRead == ASSUME NEW b PROVE ParseBuffer(Bytes(b)) = {b}
BY Kinds DEF ParseBuffer

LEMMA IntegerRead == ASSUME NEW n PROVE ParseInteger(Int64(n)) = {n}
BY Kinds DEF ParseInteger

LEMMA TimeRead == ASSUME NEW n PROVE ParsePosixTime(Int64(n)) = {n}
BY Kinds DEF ParsePosixTime, Empty, ParseBigNumber

LEMMA MapRead == ASSUME NEW f PROVE AssertMetadatumMap(Map(f)) = {Map(f)}
BY Kinds DEF AssertMetadatumMap

LEMMA StringRead == ASSUME NEW s PROVE ParseString(String(s)) = {<<s>>}
BY Kinds DEF ParseString

LEMMA TextRead ==
  ASSUME NEW text, IsSeq(text) PROVE ParseString(SplitMetadatumString(text)) = {text}
<1> DEFINE l == [i \in DOMAIN text |-> String(text[i])]
<1>1. l = <<>> \/ Is("string", l[1])
  <2>1. CASE text = <<>> BY <2>1
  <2>2. CASE text # <<>>
    <3>1. 1 \in DOMAIN text BY <2>2, NotEmpty
    <3> QED BY <3>1, Kinds
  <2> QED BY <2>1, <2>2
<1>2. DOMAIN l = DOMAIN text OBVIOUS
<1>3. ASSUME NEW i \in DOMAIN text PROVE Piece(l[i]) = text[i]
  BY <1>3, Kinds DEF Piece
<1>4. [i \in DOMAIN l |-> Piece(l[i])] = text BY <1>2, <1>3, NotEmpty
<1>5. SplitMetadatumString(text) = List(l) BY DEF SplitMetadatumString
<1>6. ParseString(List(l)) = {[i \in DOMAIN l |-> Piece(l[i])]} BY <1>1, Kinds DEF ParseString
<1> QED BY <1>4, <1>5, <1>6

LEMMA ChoicesRead ==
  ASSUME NEW choices, IsSeq(choices)
  PROVE  \E l : ParseStringArray(ChoiceList(choices)) = {l} /\ Len(l) = Len(choices)
<1> DEFINE l == [i \in DOMAIN choices |-> String(choices[i])]
<1>1. Len(l) = Len(choices)
  BY NotEmpty
<1>2. \A i \in DOMAIN l : ParseString(l[i]) # {}
  BY StringRead
<1>3. ParseArray(ChoiceList(choices)) = {l} BY Kinds DEF ParseArray, ChoiceList
<1> QED BY <1>1, <1>2, <1>3 DEF ParseStringArray
-----------------------------------------------------------------------------
\* A proposal as the form and the SDK have it, the amount optional.
ProposalFields ==
  {"owner", "name", "description", "uri", "communityUri", "acceptChoices", "rejectChoices"}

IsProposal(p) ==
  /\ DOMAIN p = ProposalFields \/ DOMAIN p = ProposalFields \cup {"requestedAmount"}
  /\ IsSeq(p.description)
  /\ IsSeq(p.acceptChoices) /\ IsSeq(p.rejectChoices)

(***************************************************************************)
(* A proposal with a choice is decoded to its owner and its choices, with  *)
(* or without a requested amount, whatever its texts.                      *)
(***************************************************************************)
THEOREM ProposalRoundTrip ==
  ASSUME NEW p, IsProposal(p), Len(p.acceptChoices) + Len(p.rejectChoices) > 0
  PROVE  DecodeProposal(EncodeProposal(p))
           = {[owner |-> p.owner, choices |-> Len(p.acceptChoices) + Len(p.rejectChoices)]}
<1> DEFINE m == EncodeProposal(p)
           Encoded(f) == CASE f = "owner" -> Bytes(p.owner)
                           [] f = "description" -> SplitMetadatumString(p.description)
                           [] f \in {"acceptChoices", "rejectChoices"} -> ChoiceList(p[f])
                           [] f = "requestedAmount" -> Numeral(p.requestedAmount)
                           [] OTHER -> String(p[f])
           e == [f \in DOMAIN p |-> Encoded(f)]
<1>1. m = Fields(e) BY DEF EncodeProposal
<1>2. DOMAIN e = DOMAIN p /\ ProposalFields \subseteq DOMAIN e BY DEF IsProposal
<1>3. /\ e["owner"] = Bytes(p.owner)
      /\ e["description"] = SplitMetadatumString(p.description)
      /\ e["acceptChoices"] = ChoiceList(p.acceptChoices)
      /\ e["rejectChoices"] = ChoiceList(p.rejectChoices)
      /\ e["name"] = String(p.name) /\ e["uri"] = String(p.uri)
      /\ e["communityUri"] = String(p.communityUri)
  BY <1>2 DEF ProposalFields
<1>4. ASSUME NEW f \in ProposalFields PROVE Get(m, f) = e[f]
  BY <1>1, <1>2, FieldRead
<1>5. ParseBuffer(Get(m, "owner")) = {p.owner}
  BY <1>3, <1>4, BufferRead DEF ProposalFields
<1>6. PICK a : ParseStringArray(Get(m, "acceptChoices")) = {a} /\ Len(a) = Len(p.acceptChoices)
  BY <1>3, <1>4, ChoicesRead DEF ProposalFields, IsProposal
<1>7. PICK r : ParseStringArray(Get(m, "rejectChoices")) = {r} /\ Len(r) = Len(p.rejectChoices)
  BY <1>3, <1>4, ChoicesRead DEF ProposalFields, IsProposal
<1>8. Texts(m, {"name", "description", "uri", "communityUri"})
  <2>1. ParseString(Get(m, "description")) = {p.description}
    BY <1>3, <1>4, TextRead DEF ProposalFields, IsProposal
  <2>2. \A f \in {"name", "uri", "communityUri"} : ParseString(Get(m, f)) # {}
    BY <1>3, <1>4, StringRead DEF ProposalFields
  <2> QED BY <2>1, <2>2 DEF Texts
<1>9. AmountParses(m)
  <2>1. CASE "requestedAmount" \notin DOMAIN p
    <3>1. Get(m, "requestedAmount") = Undefined BY <1>1, <1>2, <2>1, FieldMissing
    <3> QED BY <3>1 DEF AmountParses
  <2>2. CASE "requestedAmount" \in DOMAIN p
    <3>1. Get(m, "requestedAmount") = e["requestedAmount"] BY <1>1, <1>2, <2>2, FieldRead
    <3>2. e["requestedAmount"] = Numeral(p.requestedAmount) BY <1>2, <2>2
    <3>3. ParseBigNumber(Numeral(p.requestedAmount)) = {p.requestedAmount}
      BY Kinds DEF ParseBigNumber
    <3> QED BY <3>1, <3>2, <3>3 DEF AmountParses
  <2> QED BY <2>1, <2>2
<1>10. DecodeProposal(m) =
         {x \in {[owner |-> o, choices |-> Len(accept) + Len(reject)] :
                   o \in {p.owner}, accept \in {a}, reject \in {r}} : x.choices > 0}
  BY <1>5, <1>6, <1>7, <1>8, <1>9 DEF DecodeProposal
<1>11. {[owner |-> o, choices |-> Len(accept) + Len(reject)] :
          o \in {p.owner}, accept \in {a}, reject \in {r}}
        = {[owner |-> p.owner, choices |-> Len(a) + Len(r)]}
  OBVIOUS
<1>12. Len(a) + Len(r) > 0 BY <1>6, <1>7
<1>13. [owner |-> p.owner, choices |-> Len(a) + Len(r)].choices > 0 BY <1>12
<1>14. DecodeProposal(m) = {[owner |-> p.owner, choices |-> Len(a) + Len(r)]}
  BY <1>10, <1>11, <1>13
<1> QED BY <1>6, <1>7, <1>14

(***************************************************************************)
(* A new poll whose dates are in order is decoded to its dates, with its   *)
(* own snapshot or the start as snapshot.                                  *)
(***************************************************************************)
THEOREM NewPollRoundTrip ==
  ASSUME NEW q, "txHash" \notin DOMAIN q, IsSeq(q.description), q.start <= q.end
  PROVE  DecodePoll(EncodePoll(q)) = {[start |-> q.start, end |-> q.end]}
<1> DEFINE snapshot == IF "snapshot" \in DOMAIN q THEN q.snapshot ELSE q.start
           e == [op |-> String("create"), start |-> Int64(q.start), snapshot |-> Int64(snapshot),
                 end |-> Int64(q.end), description |-> SplitMetadatumString(q.description)]
           m == EncodePoll(q)
<1>1. m = Fields(e) BY DEF EncodePoll
<1>2. /\ Get(m, "op") = String("create") /\ Get(m, "start") = Int64(q.start)
      /\ Get(m, "snapshot") = Int64(snapshot) /\ Get(m, "end") = Int64(q.end)
      /\ Get(m, "description") = SplitMetadatumString(q.description)
  <2>1. DOMAIN e = {"op", "start", "snapshot", "end", "description"} OBVIOUS
  <2>2. \A n \in DOMAIN e : Get(m, n) = e[n] BY <1>1, FieldRead
  <2> QED BY <2>1, <2>2
<1>3. DecodePoll(m) = DecodeNewPoll(m)
  BY <1>2, StringRead DEF DecodePoll
<1>4. ParsePosixTime(Get(m, "start")) = {q.start} /\ ParsePosixTime(Get(m, "end")) = {q.end}
  BY <1>2, TimeRead
<1>5. ParsePosixTime(Get(m, "snapshot")) # {} BY <1>2, TimeRead
<1>6. Texts(m, {"description"}) BY <1>2, TextRead DEF Texts
<1>7. DecodeNewPoll(m) = {[start |-> q.start, end |-> q.end]}
  BY <1>4, <1>5, <1>6 DEF DecodeNewPoll
<1> QED BY <1>3, <1>7

(***************************************************************************)
(* A proposal that joins a poll names it.                                  *)
(***************************************************************************)
THEOREM AssignedPollRoundTrip ==
  ASSUME NEW q, "txHash" \in DOMAIN q
  PROVE  DecodePoll(EncodePoll(q)) = {[txHash |-> q.txHash]}
<1> DEFINE e == [op |-> String("assign"), id |-> Bytes(q.txHash)]
           m == EncodePoll(q)
<1>1. m = Fields(e) BY DEF EncodePoll
<1>2. Get(m, "op") = String("assign") /\ Get(m, "id") = Bytes(q.txHash)
  <2>1. DOMAIN e = {"op", "id"} OBVIOUS
  <2>2. \A n \in DOMAIN e : Get(m, n) = e[n] BY <1>1, FieldRead
  <2> QED BY <2>1, <2>2
<1>3. ParseString(Get(m, "op")) = {<<"assign">>} BY <1>2, StringRead
<1>4. <<"create">> # <<"assign">> OBVIOUS
<1>5. ParseBuffer(Get(m, "id")) = {q.txHash} BY <1>2, BufferRead
<1> QED BY <1>3, <1>4, <1>5 DEF DecodePoll

\* What the maps of fields nested in an operation need to be taken for maps.
LEMMA FieldsAreMaps == ASSUME NEW f PROVE AssertMetadatumMap(Fields(f)) = {Fields(f)}
BY MapRead DEF Fields

LEMMA EncodedAreMaps ==
  /\ \A p : AssertMetadatumMap(EncodeProposal(p)) = {EncodeProposal(p)}
  /\ \A q : AssertMetadatumMap(EncodePoll(q)) = {EncodePoll(q)}
BY FieldsAreMaps DEF EncodeProposal, EncodePoll

(***************************************************************************)
(* The creation of a proposal with a poll of its own is decoded to both.   *)
(***************************************************************************)
THEOREM AddProposalRoundTrip ==
  ASSUME NEW p, IsProposal(p), Len(p.acceptChoices) + Len(p.rejectChoices) > 0,
         NEW q, "txHash" \notin DOMAIN q, IsSeq(q.description), q.start <= q.end
  PROVE  DecodeAddProposal(EncodeAddProposal(p, q))
           = {[proposal |-> [owner |-> p.owner,
                             choices |-> Len(p.acceptChoices) + Len(p.rejectChoices)],
               poll |-> [start |-> q.start, end |-> q.end]]}
<1> DEFINE e == [op |-> String("addProposal"), proposal |-> EncodeProposal(p), poll |-> EncodePoll(q)]
           m == EncodeAddProposal(p, q)
<1>1. Get(m, "proposal") = EncodeProposal(p) /\ Get(m, "poll") = EncodePoll(q)
  <2>1. m = Fields(e) BY DEF EncodeAddProposal
  <2>2. DOMAIN e = {"op", "proposal", "poll"} OBVIOUS
  <2>3. \A n \in DOMAIN e : Get(m, n) = e[n] BY <2>1, FieldRead
  <2> QED BY <2>2, <2>3
<1>2. UNION {DecodeProposal(d) : d \in AssertMetadatumMap(Get(m, "proposal"))}
        = DecodeProposal(EncodeProposal(p))
  BY <1>1, EncodedAreMaps
<1>3. UNION {DecodePoll(d) : d \in AssertMetadatumMap(Get(m, "poll"))} = DecodePoll(EncodePoll(q))
  BY <1>1, EncodedAreMaps
<1>4. DecodeProposal(EncodeProposal(p))
        = {[owner |-> p.owner, choices |-> Len(p.acceptChoices) + Len(p.rejectChoices)]}
  BY ProposalRoundTrip
<1>5. DecodePoll(EncodePoll(q)) = {[start |-> q.start, end |-> q.end]}
  BY NewPollRoundTrip
<1> DEFINE ps == UNION {DecodeProposal(d) : d \in AssertMetadatumMap(Get(m, "proposal"))}
           qs == UNION {DecodePoll(d) : d \in AssertMetadatumMap(Get(m, "poll"))}
           P == [owner |-> p.owner, choices |-> Len(p.acceptChoices) + Len(p.rejectChoices)]
           Q == [start |-> q.start, end |-> q.end]
<1>6. ps = {P} BY <1>2, <1>4
<1>7. qs = {Q} BY <1>3, <1>5
<1>8. DecodeAddProposal(m) = {[proposal |-> x, poll |-> y] : x \in ps, y \in qs}
  BY DEF DecodeAddProposal
<1> HIDE DEF ps, qs, P, Q
<1>9. {[proposal |-> x, poll |-> y] : x \in ps, y \in qs} = {[proposal |-> P, poll |-> Q]}
  BY <1>6, <1>7
<1>10. DecodeAddProposal(m) = {[proposal |-> P, poll |-> Q]} BY <1>8, <1>9
<1> HIDE DEF m
<1> USE DEF P, Q
<1>11. DecodeAddProposal(m) = {[proposal |-> [owner |-> p.owner,
                                     choices |-> Len(p.acceptChoices) + Len(p.rejectChoices)],
                       poll |-> [start |-> q.start, end |-> q.end]]}
  BY ONLY <1>10
<1> QED BY <1>11 DEF m

(***************************************************************************)
(* A conclusion is decoded to its proposal and whether it reads PASSED,    *)
(* whatever the numbers and the note.                                      *)
(***************************************************************************)
THEOREM ConcludeRoundTrip ==
  ASSUME NEW proposal, NEW results
  PROVE  DecodeConclude(EncodeConclude(proposal, results))
           = {[target |-> proposal, passed |-> (results.result = "PASSED")]}
<1> DEFINE choices == Map([k \in {String(i) : i \in DOMAIN results.choices} |->
                        Int64(results.choices[k.string])])
           e == [op |-> String("concludeProposal"), id |-> Bytes(proposal),
                 result |-> String(results.result), choices |-> choices,
                 total |-> Int64(results.total), abstained |-> Int64(results.abstained),
                 note |-> SplitMetadatumString(results.note)]
           m == EncodeConclude(proposal, results)
<1>1. Get(m, "id") = Bytes(proposal) /\ Get(m, "result") = String(results.result)
  <2>1. m = Fields(e) BY DEF EncodeConclude
  <2>2. DOMAIN e = {"op", "id", "result", "choices", "total", "abstained", "note"} OBVIOUS
  <2>3. \A n \in DOMAIN e : Get(m, n) = e[n] BY <2>1, FieldRead
  <2> QED BY <2>2, <2>3
<1>2. ParseBuffer(Get(m, "id")) = {proposal} BY <1>1, BufferRead
<1>3. ParseString(Get(m, "result")) = {<<results.result>>} BY <1>1, StringRead
<1> DEFINE R == <<results.result>>
<1>4. (R = <<"PASSED">>) = (results.result = "PASSED") OBVIOUS
<1>5. DecodeConclude(m) = {[target |-> h, passed |-> (r = <<"PASSED">>)] : h \in {proposal}, r \in {R}}
  BY <1>2, <1>3 DEF DecodeConclude
<1> HIDE DEF R
<1>6. {[target |-> h, passed |-> (r = <<"PASSED">>)] : h \in {proposal}, r \in {R}}
        = {[target |-> proposal, passed |-> (R = <<"PASSED">>)]}
  OBVIOUS
<1> QED BY <1>4, <1>5, <1>6

(***************************************************************************)
(* A cancellation is decoded to its proposal, whatever the reason.         *)
(***************************************************************************)
THEOREM CancelRoundTrip ==
  ASSUME NEW proposal, NEW reason, IsSeq(reason)
  PROVE  DecodeCancel(EncodeCancel(proposal, reason)) = {[target |-> proposal]}
<1> DEFINE e == [op |-> String("cancelProposal"), id |-> Bytes(proposal),
                 reason |-> SplitMetadatumString(reason)]
           m == EncodeCancel(proposal, reason)
<1>1. Get(m, "id") = Bytes(proposal) /\ Get(m, "reason") = SplitMetadatumString(reason)
  <2>1. m = Fields(e) BY DEF EncodeCancel
  <2>2. DOMAIN e = {"op", "id", "reason"} OBVIOUS
  <2>3. \A n \in DOMAIN e : Get(m, n) = e[n] BY <2>1, FieldRead
  <2> QED BY <2>2, <2>3
<1>2. ParseBuffer(Get(m, "id")) = {proposal} BY <1>1, BufferRead
<1>3. Texts(m, {"reason"}) BY <1>1, TextRead DEF Texts
<1>4. {b \in ParseBuffer(Get(m, "id")) : Texts(m, {"reason"})} = {proposal}
  BY <1>2, <1>3
<1>5. DecodeCancel(m) = {[target |-> h] : h \in {proposal}}
  BY <1>4 DEF DecodeCancel
<1> QED BY <1>5
-----------------------------------------------------------------------------
\* A vote whose choices are indices, or -1 to abstain, with a list of UTxOs.
IsVote(v) ==
  /\ v.choices = [h \in DOMAIN v.choices |-> v.choices[h]]
  /\ \A h \in DOMAIN v.choices : v.choices[h] \in Int /\ v.choices[h] >= -1

\* The outputs a vote lists and its choices are read back.
LEMMA UtxosRead ==
  ASSUME NEW utxos
  PROVE  UtxosDecode(List([i \in DOMAIN utxos |->
                      List(<<Bytes(utxos[i].tx), Int64(utxos[i].index)>>)]))
<1> DEFINE l == [i \in DOMAIN utxos |-> List(<<Bytes(utxos[i].tx), Int64(utxos[i].index)>>)]
<1>1. ASSUME NEW i \in DOMAIN l PROVE DecodeUtxo(l[i]) # {}
  <2> DEFINE pair == <<Bytes(utxos[i].tx), Int64(utxos[i].index)>>
  <2>1. ParseArray(l[i]) = {pair} BY <1>1, Kinds DEF ParseArray
  <2>2. Len(pair) = 2 /\ ParseBuffer(pair[1]) = {utxos[i].tx} /\ ParseInteger(pair[2]) = {utxos[i].index}
    BY BufferRead, IntegerRead
  <2> HIDE DEF pair
  <2>3. {a \in ParseArray(l[i]) : Len(a) = 2} = {pair} BY <2>1, <2>2
  <2>4. [tx |-> utxos[i].tx, index |-> utxos[i].index] \in DecodeUtxo(l[i])
    BY <2>2, <2>3 DEF DecodeUtxo
  <2> QED BY <2>4
<1>2. ParseArray(List(l)) = {l} BY Kinds DEF ParseArray
<1> QED BY <1>1, <1>2 DEF UtxosDecode

LEMMA VoteChoicesRead ==
  ASSUME NEW v, IsVote(v)
  PROVE  DecodeChoices(Map([c \in {Bytes(h) : h \in DOMAIN v.choices} |->
                        Int64(v.choices[c.bytes])])) = {v.choices}
<1> DEFINE keys == {Bytes(h) : h \in DOMAIN v.choices}
           g == [c \in keys |-> Int64(v.choices[c.bytes])]
           m == Map(g)
<1>1. m.map = g /\ DOMAIN g = keys BY Kinds
<1>2. ASSUME NEW h \in DOMAIN v.choices
      PROVE  Bytes(h) \in keys /\ Bytes(h).bytes = h /\ g[Bytes(h)].int = v.choices[h]
  BY <1>2, Kinds
<1>3. ASSUME NEW k \in keys
      PROVE  ParseBuffer(k) # {} /\ \E n \in ParseInteger(g[k]) : n >= -1
  <2>1. PICK h \in DOMAIN v.choices : k = Bytes(h) OBVIOUS
  <2>2. ParseBuffer(k) = {h} BY <2>1, BufferRead
  <2>3. g[k] = Int64(v.choices[h]) BY <2>1, <1>2
  <2>4. ParseInteger(g[k]) = {v.choices[h]} BY <2>3, IntegerRead
  <2> QED BY <2>2, <2>4 DEF IsVote
<1>4. {k.bytes : k \in keys} = DOMAIN v.choices
  <2>1. \A h \in DOMAIN v.choices : h \in {k.bytes : k \in keys} BY <1>2
  <2>2. \A k \in keys : k.bytes \in DOMAIN v.choices BY <1>2
  <2> QED BY <2>1, <2>2
<1>5. [h \in DOMAIN v.choices |-> g[Bytes(h)].int] = v.choices BY <1>2 DEF IsVote
<1>6. {a \in AssertMetadatumMap(m) :
         \A k \in DOMAIN a.map : ParseBuffer(k) # {} /\ \E n \in ParseInteger(a.map[k]) : n >= -1} = {m}
  BY <1>1, <1>3, MapRead
<1>7. DecodeChoices(m) = {[h \in {k.bytes : k \in DOMAIN a.map} |-> a.map[Bytes(h)].int] : a \in {m}}
  BY <1>6 DEF DecodeChoices
<1>8. [h \in {k.bytes : k \in DOMAIN m.map} |-> m.map[Bytes(h)].int] = v.choices
  BY <1>1, <1>4, <1>5
<1> HIDE DEF m
<1>9. DecodeChoices(m) = {v.choices} BY <1>7, <1>8
<1> QED BY <1>9 DEF m

(***************************************************************************)
(* A vote is decoded to its poll, owner, power and choices, the abstention *)
(* among them, whatever the outputs it lists.                              *)
(***************************************************************************)
THEOREM VoteRoundTrip ==
  ASSUME NEW v, IsVote(v)
  PROVE  DecodeVotes(EncodeVote(v))
           = {{[poll |-> v.poll, owner |-> v.owner, power |-> v.power, choices |-> v.choices]}}
<1> DEFINE utxos == List([i \in DOMAIN v.utxos |->
                      List(<<Bytes(v.utxos[i].tx), Int64(v.utxos[i].index)>>)])
           choices == Map([c \in {Bytes(h) : h \in DOMAIN v.choices} |->
                        Int64(v.choices[c.bytes])])
           e == [owner |-> Bytes(v.owner), power |-> Int64(v.power),
                 utxos |-> utxos, choices |-> choices]
           d == Fields(e)
           k == Bytes(v.poll)
           g == [a \in {k} |-> d]
           V == [poll |-> v.poll, owner |-> v.owner, power |-> v.power, choices |-> v.choices]
<1>1. /\ Get(d, "owner") = Bytes(v.owner) /\ Get(d, "power") = Int64(v.power)
      /\ Get(d, "utxos") = utxos /\ Get(d, "choices") = choices
  <2>1. DOMAIN e = {"owner", "power", "utxos", "choices"} OBVIOUS
  <2>2. \A n \in DOMAIN e : Get(d, n) = e[n] BY FieldRead
  <2> HIDE DEF d, utxos, choices
  <2> QED BY <2>1, <2>2
<1>2. UtxosDecode(Get(d, "utxos")) BY <1>1, UtxosRead
<1>3. DecodeChoices(Get(d, "choices")) = {v.choices} BY <1>1, VoteChoicesRead
<1>4. AssertMetadatumMap(d) = {d} BY FieldsAreMaps
<1>5. ParseBuffer(k) = {v.poll} BY BufferRead
<1>6. ParseBuffer(Get(d, "owner")) = {v.owner} /\ ParseInteger(Get(d, "power")) = {v.power}
  BY <1>1, BufferRead, IntegerRead
<1>7. EncodeVote(v) = Map(g) BY DEF EncodeVote
<1> HIDE DEF d, k, g
<1>8. UNION {ParseBuffer(Get(m, "owner")) : m \in AssertMetadatumMap(d)} = {v.owner}
  BY <1>4, <1>6
<1>9. UNION {ParseInteger(Get(m, "power")) : m \in AssertMetadatumMap(d)} = {v.power}
  BY <1>4, <1>6
<1>10. UNION {DecodeChoices(Get(m, "choices")) :
              m \in {a \in AssertMetadatumMap(d) : UtxosDecode(Get(a, "utxos"))}} = {v.choices}
  BY <1>2, <1>3, <1>4
<1>11. DecodePollVote(k, d) = {[poll |-> h, owner |-> o, power |-> n, choices |-> c] :
           h \in {v.poll}, o \in {v.owner}, n \in {v.power}, c \in {v.choices}}
  BY <1>5, <1>8, <1>9, <1>10 DEF DecodePollVote
<1>12. DecodePollVote(k, d) = {V} BY ONLY <1>11
<1>13. DOMAIN g = {k} /\ g[k] = d BY DEF g
<1>14. AssertMetadatumMap(Map(g)) = {Map(g)} /\ Map(g).map = g BY MapRead, Kinds
<1> HIDE DEF V
<1>15. UNION {DecodePollVote(a, g[a]) : a \in DOMAIN g} = {V}
  BY <1>12, <1>13
<1>16. \A a \in DOMAIN g : DecodePollVote(a, g[a]) # {} BY <1>12, <1>13
<1> DEFINE M == Map(g)
           votes == UNION {DecodePollVote(a, M.map[a]) : a \in DOMAIN M.map}
<1>17. votes = {V} BY <1>14, <1>15
<1>18. {w \in {votes} : \A a \in DOMAIN M.map : DecodePollVote(a, M.map[a]) # {}} = {{V}}
  BY <1>14, <1>16, <1>17
<1>19. DecodeVotes(M) = {w \in {votes} : \A a \in DOMAIN M.map : DecodePollVote(a, M.map[a]) # {}}
  BY <1>14 DEF DecodeVotes
<1>20. DecodeVotes(M) = {{V}} BY <1>18, <1>19
<1> QED BY <1>7, <1>20 DEF V
-----------------------------------------------------------------------------
(***************************************************************************)
(* The invariant.                                                          *)
(***************************************************************************)
\* Hashes of the transactions that come after the first n.
Later(n) == {TxIds[j] : j \in n + 1 .. Len(TxIds)}

\* A reading has all the wallet owns that is still unspent and was there then.
ReadingOK(s, r) ==
  /\ r.at \in 0 .. Len(chain)
  /\ \A u \in ledger : u.owner = WalletOf[s] /\ u.tx \notin Later(r.at) => u \in r.utxos

FilledIn(x) ==
  [start |-> x.intent.start, end |-> x.intent.end, snapshot |-> x.intent.start,
   description |-> <<>>]

Written(result) ==
  [result |-> result, choices |-> [i \in {} |-> 0], total |-> 0, abstained |-> 0,
   note |-> <<"note">>]

\* What the metadata and outputs of a plan or a transaction are, by its intent.
MeansCreate(x) ==
  /\ x.intent.op = "create" /\ x.intent.start \in Nat /\ x.intent.end \in Nat
  /\ \E s \in Sessions : x.manage = EncodeAddProposal(FormProposal(WalletOf[s]), FilledIn(x))
  /\ x.votes = Undefined
  /\ 1 \in DOMAIN x.outputs
  /\ x.outputs[1] = [owner |-> ProposalsAddress, token |-> CollateralQuantity]

MeansClose(x) ==
  /\ x.intent.op = "close"
  /\ \/ /\ x.intent.status = "CANCELLED"
        /\ x.manage = EncodeCancel(x.intent.target, <<"reason">>)
     \/ /\ x.intent.status \in {"PASSED", "FAILED"}
        /\ x.manage = EncodeConclude(x.intent.target, Written(x.intent.status))
  /\ x.votes = Undefined

MeansVote(x) ==
  /\ x.intent.op = "vote" /\ IsVote(x.intent.vote)
  /\ x.manage = Undefined /\ x.votes = EncodeVote(x.intent.vote)
  /\ x.signers = {x.intent.vote.owner}

\* A closing spends the collateral of a proposal in the tables, and concludes
\* it after its poll.
ClosesKnown(x, spent, time) ==
  \E p \in db.proposal :
    /\ p.hash = x.intent.target
    /\ [tx |-> p.hash, index |-> p.index] \in spent
    /\ x.intent.status # "CANCELLED" => \E q \in db.poll : q.hash = p.poll /\ q.end < time

\* A vote is for a choice of a proposal in the tables, in its poll.
VotesForKnown(v) ==
  \E p \in db.proposal, q \in db.poll :
    /\ p.poll = q.hash /\ v.poll = q.hash /\ DOMAIN v.choices = {p.hash}
    /\ ChoiceExists(p, v.choices[p.hash])

Founded(x, spent, time) ==
  /\ x.readAt \in 0 .. Len(chain)
  /\ \/ MeansCreate(x)
     \/ MeansClose(x) /\ ClosesKnown(x, spent, time)
     \/ MeansVote(x) /\ VotesForKnown(x.intent.vote)

\* Collateral that may not be spent by a closing.
Foreign(x) ==
  {u \in ledger : /\ u.owner = ProposalsAddress /\ u.token > 0
                  /\ u.tx \notin Later(x.readAt) /\ u.tx # x.intent.target}

\* A plan was right by the clock of the session s.
PlanOK(s, x) ==
  /\ Founded(x, Refs(x.inputs), Clock(s)) /\ IsSeq(x.outputs)
  /\ x.intent.op = "close" =>
       /\ \A u \in x.inputs : u.tx = x.intent.target
       /\ Refs(Foreign(x)) \subseteq x.ignored

\* The clock a transaction was built by is Backdate after it becomes valid.
TxOK(x) ==
  /\ x.from \in Int /\ Founded(x, x.inputs, x.from + Backdate) /\ IsSeq(x.outputs)
  /\ x.intent.op = "close" => Refs(Foreign(x)) \cap x.inputs = {}

PlansOf(e) == IF e.pc = "planned" THEN {e.plan} ELSE {}

BuiltBy(e) == IF e.pc = "built" THEN {e.tx} ELSE {}

\* What a session holds: a reading, and a plan or a transaction.
StateOK(s, e) ==
  /\ \A r \in {e.cache} : ReadingOK(s, r)
  /\ \A x \in PlansOf(e) : PlanOK(s, x)
  /\ \A x \in BuiltBy(e) : TxOK(x)

SessionOK(s) == \A e \in {session[s]} : StateOK(s, e)

\* What a page shows of a proposal is in the tables, whatever else has changed.
PageOK(s) ==
  \A p \in page[s] : \E r \in db.proposal, q \in db.poll :
    /\ r.poll = q.hash
    /\ p.hash = r.hash /\ p.index = r.index /\ p.choices = r.choices
    /\ p.poll = q.hash /\ p.end = q.end

\* An unspent output is one of the start or of a transaction in a block.
LedgerOK ==
  \A u \in ledger :
    /\ u.tx \notin Later(Len(chain))
    /\ \A j \in 1 .. Len(chain) :
         u.tx = TxIds[j] => /\ u.index + 1 \in DOMAIN chain[j].outputs
                            /\ u.owner = chain[j].outputs[u.index + 1].owner
                            /\ u.token = chain[j].outputs[u.index + 1].token

\* Blocks were founded when they were made, by a clock not more than Backdate
\* ahead.
ChainOK ==
  /\ IsSeq(chain) /\ Len(chain) \in 0 .. Len(TxIds)
  /\ \A i \in 1 .. Len(chain) : \A t \in {chain[i]} :
       /\ Founded(t, t.inputs, t.slot + Backdate) /\ IsSeq(t.outputs)
       /\ t.hash = TxIds[i] /\ t.slot \in Nat

\* The rows of the indexed transactions, known by their hashes.
RowsOK ==
  /\ DOMAIN db = {"block", "tx", "poll", "proposal", "state", "vote"}
  /\ \A q \in db.poll : q.start \in Nat /\ q.end \in Nat
  /\ \A q \in db.poll \cup db.proposal : \E i \in 1 .. indexed : q.hash = TxIds[i]
  /\ \A q, r \in db.poll : q.hash = r.hash => q = r
  /\ \A p, r \in db.proposal : p.hash = r.hash => p = r
  /\ \A p \in db.proposal : p.choices \in Nat /\ \E q \in db.poll : q.hash = p.poll
  /\ \A v \in db.vote :
       /\ \E i \in 1 .. indexed : v.tx = TxIds[i]
       /\ v.slot \in Nat
       /\ \E p \in db.proposal, q \in db.poll :
            p.hash = v.proposal /\ q.hash = p.poll /\ v.slot <= q.end
  /\ \A r \in db.state : r.status \in {"PASSED", "FAILED"} =>
       /\ r.slot \in Nat
       /\ \E p \in db.proposal, q \in db.poll :
            p.hash = r.proposal /\ q.hash = p.poll /\ q.end < r.slot + Backdate

AppInv ==
  /\ now \in Nat /\ indexed \in 0 .. Len(chain)
  /\ DOMAIN session = Sessions /\ DOMAIN page = Sessions
  /\ ChainOK /\ LedgerOK /\ RowsOK
  /\ \A s \in Sessions : SessionOK(s) /\ PageOK(s)
  /\ \A m \in mempool : TxOK(m)
  /\ CreatedProposalsAreListed /\ ClosingsTakeEffect /\ VotesCountInTime
  /\ CollateralQuantity > 0 => OrphansAreNew
-----------------------------------------------------------------------------
(* Sequences and hashes. *)

\* One transaction or output more.
LEMMA AppendFacts ==
  ASSUME NEW s, IsSeq(s), NEW e
  PROVE  /\ IsSeq(Append(s, e))
         /\ Len(s) \in Nat /\ DOMAIN s = 1 .. Len(s)
         /\ Len(Append(s, e)) = Len(s) + 1 /\ DOMAIN Append(s, e) = 1 .. Len(s) + 1
         /\ \A i \in 1 .. Len(s) : Append(s, e)[i] = s[i]
         /\ Append(s, e)[Len(s) + 1] = e
<1> DEFINE S == {s[i] : i \in DOMAIN s}
           u == Append(s, e)
           U == {u[i] : i \in DOMAIN u}
<1>1. s \in Seq(S) /\ s \in Seq(S \cup {e}) /\ e \in S \cup {e}
  <2>1. s \in Seq(S)
    BY DEF IsSeq
  <2> HIDE DEF S
  <2> QED  BY <2>1
<1> HIDE DEF S
<1>2. /\ Len(s) \in Nat /\ DOMAIN s = 1 .. Len(s)
      /\ u \in Seq(S \cup {e}) /\ Len(u) = Len(s) + 1 /\ DOMAIN u = 1 .. Len(s) + 1
      /\ \A i \in 1 .. Len(s) : u[i] = s[i]
      /\ u[Len(s) + 1] = e
  BY <1>1
<1> HIDE DEF u
<1>3. u \in Seq(U)
  <2>1. \A i \in 1 .. Len(u) : u[i] \in U
    BY <1>2
  <2>2. Len(u) \in Nat /\ u = [i \in 1 .. Len(u) |-> u[i]]
    BY <1>2
  <2> HIDE DEF U
  <2> QED  BY <2>1, <2>2
<1> QED  BY <1>2, <1>3 DEF IsSeq, u, U

\* Transactions have different hashes, in the order they get into blocks.
LEMMA HashFacts ==
  /\ Len(TxIds) \in Nat
  /\ \A i, j \in 1 .. Len(TxIds) : TxIds[i] = TxIds[j] => i = j
  /\ \A i \in 1 .. Len(TxIds) : TxIds[i] # NoTx
  /\ \A n \in Nat : \A i \in 1 .. Len(TxIds) : TxIds[i] \in Later(n) <=> n < i
  /\ \A m, n \in Nat : m <= n => Later(n) \subseteq Later(m)
  /\ \A u \in Genesis : \A n \in Nat : u.tx \notin Later(n)
<1>1. Len(TxIds) \in Nat /\ DOMAIN TxIds = 1 .. Len(TxIds)
  <2> DEFINE S == {TxIds[i] : i \in DOMAIN TxIds}
  <2>1. TxIds \in Seq(S)
    BY AppAssumption
  <2> HIDE DEF S
  <2> QED  BY <2>1
<1> QED  BY <1>1, AppAssumption DEF Later
-----------------------------------------------------------------------------
(* What the aggregator makes of the metadata. *)

\* The operation of a creation, if its dates are in order.
CreationOf(x) ==
  [op |-> "addProposal", assigned |-> NoTx, start |-> x.intent.start, end |-> x.intent.end,
   choices |-> 2, target |-> NoTx, passed |-> FALSE]

\* Poll dates that are not in order do not decode.
LEMMA ReversedPoll ==
  ASSUME NEW q, "txHash" \notin DOMAIN q, ~(q.start <= q.end)
  PROVE  DecodePoll(EncodePoll(q)) = {}
<1> DEFINE snapshot == IF "snapshot" \in DOMAIN q THEN q.snapshot ELSE q.start
           e == [op |-> String("create"), start |-> Int64(q.start), snapshot |-> Int64(snapshot),
                 end |-> Int64(q.end), description |-> SplitMetadatumString(q.description)]
           m == EncodePoll(q)
<1>1. m = Fields(e)
  BY DEF EncodePoll
<1>2. /\ Get(m, "op") = String("create") /\ Get(m, "start") = Int64(q.start)
      /\ Get(m, "end") = Int64(q.end)
  <2>1. DOMAIN e = {"op", "start", "snapshot", "end", "description"}
    OBVIOUS
  <2>2. \A n \in DOMAIN e : Get(m, n) = e[n]
    BY <1>1, FieldRead
  <2> QED  BY <2>1, <2>2
<1>3. DecodePoll(m) = DecodeNewPoll(m)
  BY <1>2, StringRead DEF DecodePoll
<1>4. ParsePosixTime(Get(m, "start")) = {q.start} /\ ParsePosixTime(Get(m, "end")) = {q.end}
  BY <1>2, TimeRead
<1> HIDE DEF m
<1>5. DecodeNewPoll(m) = {}
  BY <1>4 DEF DecodeNewPoll
<1> QED  BY <1>3, <1>5 DEF m

\* Each operation is told by its name.
LEMMA OperationNames ==
  ASSUME NEW f, "op" \in DOMAIN f, NEW name, f["op"] = String(name)
  PROVE  /\ ParseString(Get(Fields(f), "op")) = {<<name>>}
         /\ AssertMetadatumMap(Fields(f)) = {Fields(f)}
<1>1. Get(Fields(f), "op") = String(name)
  BY FieldRead
<1> QED  BY <1>1, StringRead, FieldsAreMaps

\* The names of the operations are not the same.
LEMMA NamesDiffer ==
  /\ <<"addProposal">> # <<"concludeProposal">> /\ <<"addProposal">> # <<"cancelProposal">>
  /\ <<"concludeProposal">> # <<"cancelProposal">>
  OBVIOUS

\* Sequences written out are sequences.
LEMMA ShortSequences == ASSUME NEW a, NEW b PROVE IsSeq(<<a>>) /\ IsSeq(<<a, b>>) /\ IsSeq(<<>>)
<1>1. <<a>> \in Seq({a}) /\ {<<a>>[i] : i \in DOMAIN <<a>>} = {a}
  OBVIOUS
<1>2. <<a, b>> \in Seq({a, b}) /\ {<<a, b>>[i] : i \in DOMAIN <<a, b>>} = {a, b}
  OBVIOUS
<1> QED  BY <1>1, <1>2 DEF IsSeq

\* The fixed texts of the forms.
LEMMA TextsAre ==
  /\ IsSeq(<<"a", "b">>) /\ IsSeq(<<"Yes">>) /\ IsSeq(<<"No">>) /\ IsSeq(<<>>)
  /\ IsSeq(<<"reason">>) /\ IsSeq(<<"note">>)
  /\ Len(<<"Yes">>) = 1 /\ Len(<<"No">>) = 1
<1>1. Len(<<"Yes">>) = 1 /\ Len(<<"No">>) = 1
  OBVIOUS
<1> QED  BY <1>1, ShortSequences

\* A creation decodes to an operation exactly when its dates are in order.
LEMMA ManageOfCreate ==
  ASSUME NEW x, MeansCreate(x)
  PROVE  ManageOf(x) = IF x.intent.start <= x.intent.end THEN CreationOf(x) ELSE NoOperation
<1>1. PICK s \in Sessions : x.manage = EncodeAddProposal(FormProposal(WalletOf[s]), FilledIn(x))
  BY DEF MeansCreate
<1> DEFINE p == FormProposal(WalletOf[s])
           q == FilledIn(x)
           m == EncodeAddProposal(p, q)
           f == [op |-> String("addProposal"), proposal |-> EncodeProposal(p), poll |-> EncodePoll(q)]
<1>2. ParseString(Get(m, "op")) = {<<"addProposal">>} /\ AssertMetadatumMap(m) = {m}
  <2>1. "op" \in DOMAIN f /\ f["op"] = String("addProposal") /\ m = Fields(f)
    BY DEF EncodeAddProposal
  <2> HIDE DEF f, m
  <2> QED  BY <2>1, OperationNames
<1>3. Operations(m) = {AddOperation(a) : a \in DecodeAddProposal(m)}
  <2> HIDE DEF m
  <2> QED  BY <1>2, NamesDiffer DEF Operations
<1>4. /\ IsProposal(p) /\ Len(p.acceptChoices) = 1 /\ Len(p.rejectChoices) = 1
      /\ "txHash" \notin DOMAIN q /\ IsSeq(q.description)
      /\ q.start = x.intent.start /\ q.end = x.intent.end
      /\ x.intent.start \in Nat /\ x.intent.end \in Nat
  <2>1. /\ DOMAIN p = ProposalFields /\ p.description = <<"a", "b">>
        /\ p.acceptChoices = <<"Yes">> /\ p.rejectChoices = <<"No">>
    BY DEF FormProposal, ProposalFields
  <2>2. "txHash" \notin DOMAIN q /\ q.description = <<>>
    BY DEF FilledIn
  <2>3. q.start = x.intent.start /\ q.end = x.intent.end
    BY DEF FilledIn
  <2> HIDE DEF p, q
  <2>4. x.intent.start \in Nat /\ x.intent.end \in Nat
    BY DEF MeansCreate
  <2> QED  BY <2>1, <2>2, <2>3, <2>4, TextsAre DEF IsProposal
<1>5. CASE x.intent.start <= x.intent.end
  <2> DEFINE poll0 == [start |-> q.start, end |-> q.end]
             a0 == [proposal |-> [owner |-> p.owner, choices |-> 2], poll |-> poll0]
  <2>1. DecodeAddProposal(m) = {a0}
    <3> HIDE DEF p, q
    <3>1. DecodeAddProposal(m)
            = {[proposal |-> [owner |-> p.owner,
                              choices |-> Len(p.acceptChoices) + Len(p.rejectChoices)],
                poll |-> [start |-> q.start, end |-> q.end]]}
      <4>1. /\ IsProposal(p) /\ "txHash" \notin DOMAIN q /\ IsSeq(q.description)
            /\ Len(p.acceptChoices) + Len(p.rejectChoices) > 0 /\ q.start <= q.end
        BY <1>4, <1>5
      <4> QED  BY <4>1, AddProposalRoundTrip
    <3> HIDE DEF m
    <3> QED  BY <1>4, <3>1
  <2>2. AddOperation(a0) = CreationOf(x)
    <3>1. /\ "txHash" \notin DOMAIN poll0 /\ poll0.start = q.start /\ poll0.end = q.end
      OBVIOUS
    <3>2. a0.poll = poll0 /\ a0.proposal.choices = 2
      OBVIOUS
    <3> HIDE DEF a0, poll0, q
    <3> QED  BY <1>4, <3>1, <3>2 DEF AddOperation, CreationOf
  <2> HIDE DEF a0, m
  <2>3. Operations(m) = {CreationOf(x)}
    BY <1>3, <2>1, <2>2
  <2>4. UNION {Operations(d) : d \in AssertMetadatumMap(m)} = {CreationOf(x)}
    BY <1>2, <2>3
  <2> QED  BY <1>1, <1>5, <2>4 DEF ManageOf, m
<1>6. CASE ~(x.intent.start <= x.intent.end)
  <2>1. DecodePoll(EncodePoll(q)) = {}
    <3> HIDE DEF q
    <3> QED  BY <1>4, <1>6, ReversedPoll
  <2>2. Get(m, "poll") = EncodePoll(q)
    <3>1. "poll" \in DOMAIN f /\ f["poll"] = EncodePoll(q) /\ m = Fields(f)
      BY DEF EncodeAddProposal
    <3> HIDE DEF f, m
    <3> QED  BY <3>1, FieldRead
  <2> HIDE DEF m
  <2>3. UNION {DecodePoll(d) : d \in AssertMetadatumMap(Get(m, "poll"))} = {}
    BY <2>1, <2>2, EncodedAreMaps
  <2>4. DecodeAddProposal(m) = {}
    BY <2>3 DEF DecodeAddProposal
  <2>5. UNION {Operations(d) : d \in AssertMetadatumMap(m)} = {}
    BY <1>2, <1>3, <2>4
  <2> QED  BY <1>1, <1>6, <2>5 DEF ManageOf, m
<1> QED  BY <1>5, <1>6

ClosingOf(x) ==
  Operation(IF x.intent.status = "CANCELLED" THEN "cancelProposal" ELSE "concludeProposal",
            x.intent.target, x.intent.status = "PASSED")

\* A closing decodes to its target and its result.
LEMMA ManageOfClose ==
  ASSUME NEW x, MeansClose(x)
  PROVE  ManageOf(x) = ClosingOf(x)
<1> DEFINE m == x.manage
           h == x.intent.target
<1>1. ASSUME x.intent.status = "CANCELLED", m = EncodeCancel(h, <<"reason">>)
      PROVE  ManageOf(x) = ClosingOf(x)
  <2> DEFINE f == [op |-> String("cancelProposal"), id |-> Bytes(h),
                   reason |-> SplitMetadatumString(<<"reason">>)]
  <2>1. "op" \in DOMAIN f /\ f["op"] = String("cancelProposal") /\ m = Fields(f)
    BY <1>1 DEF EncodeCancel
  <2>2. DecodeCancel(m) = {[target |-> h]}
    BY <1>1, CancelRoundTrip, TextsAre
  <2> HIDE DEF f, m
  <2>3. ParseString(Get(m, "op")) = {<<"cancelProposal">>} /\ AssertMetadatumMap(m) = {m}
    BY <2>1, OperationNames
  <2>4. Operations(m) = {Operation("cancelProposal", c.target, FALSE) : c \in DecodeCancel(m)}
    BY <2>3, NamesDiffer DEF Operations
  <2>5. Operation("cancelProposal", h, FALSE) = ClosingOf(x)
    <3>1. ("CANCELLED" = "PASSED") = FALSE
      OBVIOUS
    <3> HIDE DEF h
    <3> QED  BY <1>1, <3>1 DEF ClosingOf, h
  <2>6. Operations(m) = {ClosingOf(x)}
    <3>1. Operations(m) = {Operation("cancelProposal", c.target, FALSE) : c \in {[target |-> h]}}
      BY <2>2, <2>4
    <3> QED  BY <2>5, <3>1
  <2>7. UNION {Operations(d) : d \in AssertMetadatumMap(m)} = {ClosingOf(x)}
    BY <2>3, <2>6
  <2> QED  BY <2>7 DEF ManageOf, m
<1>2. ASSUME x.intent.status \in {"PASSED", "FAILED"}, m = EncodeConclude(h, Written(x.intent.status))
      PROVE  ManageOf(x) = ClosingOf(x)
  <2> DEFINE r == Written(x.intent.status)
             f == [op |-> String("concludeProposal"), id |-> Bytes(h),
                   result |-> String(r.result),
                   choices |-> Map([k \in {String(i) : i \in DOMAIN r.choices} |->
                                      Int64(r.choices[k.string])]),
                   total |-> Int64(r.total), abstained |-> Int64(r.abstained),
                   note |-> SplitMetadatumString(r.note)]
             c0 == [target |-> h, passed |-> (r.result = "PASSED")]
  <2>1. "op" \in DOMAIN f /\ f["op"] = String("concludeProposal") /\ m = Fields(f)
    BY <1>2 DEF EncodeConclude
  <2>2. DecodeConclude(m) = {c0}
    <3> HIDE DEF r
    <3> QED  BY <1>2, ConcludeRoundTrip DEF r
  <2>3. r.result = x.intent.status
    BY DEF Written
  <2> HIDE DEF f, m
  <2>4. ParseString(Get(m, "op")) = {<<"concludeProposal">>} /\ AssertMetadatumMap(m) = {m}
    BY <2>1, OperationNames
  <2>5. Operations(m) = {Operation("concludeProposal", c.target, c.passed) : c \in {c0}}
    BY <2>2, <2>4, NamesDiffer DEF Operations
  <2>6. Operation("concludeProposal", c0.target, c0.passed) = ClosingOf(x)
    <3>1. c0.target = h /\ c0.passed = (r.result = "PASSED")
      OBVIOUS
    <3> HIDE DEF h, c0, r
    <3> QED  BY <1>2, <2>3, <3>1 DEF ClosingOf, h
  <2>7. Operations(m) = {ClosingOf(x)}
    BY <2>5, <2>6
  <2>8. UNION {Operations(d) : d \in AssertMetadatumMap(m)} = {ClosingOf(x)}
    BY <2>4, <2>7
  <2> QED  BY <2>8 DEF ManageOf, m
<1> QED  BY <1>1, <1>2 DEF MeansClose

\* What is not there has no operation and no votes.
LEMMA NothingRead ==
  /\ \A x : x.manage = Undefined => ManageOf(x) = NoOperation
  /\ DecodeVotes(Undefined) = {}
<1>1. AssertMetadatumMap(Undefined) = {}
  BY DEF AssertMetadatumMap, Is, Undefined
<1> QED  BY <1>1 DEF ManageOf, DecodeVotes
-----------------------------------------------------------------------------
(* The world a session has looked at only grows. *)

Grows ==
  /\ db.proposal \subseteq db'.proposal /\ db.poll \subseteq db'.poll
  /\ Len(chain) \in Nat /\ Len(chain') \in Nat /\ Len(chain) <= Len(chain')
  /\ now \in Nat /\ now' \in Nat /\ now <= now'
  /\ \A u \in ledger' : u \in ledger \/ u.tx \in Later(Len(chain))

\* What a plan or a transaction rests on is still there later.
LEMMA FoundedKept ==
  ASSUME RowsOK, Grows, NEW x, NEW spent, NEW t1 \in Int, NEW t2 \in Int, t1 <= t2,
         Founded(x, spent, t1)
  PROVE  Founded(x, spent, t2)'
<1>1. x.readAt \in 0 .. Len(chain')
  BY DEF Founded, Grows
<1>2. MeansCreate(x) => MeansCreate(x)'
  BY DEF MeansCreate
<1>3. MeansClose(x) => MeansClose(x)'
  BY DEF MeansClose
<1>4. MeansVote(x) => MeansVote(x)'
  BY DEF MeansVote
<1>5. ClosesKnown(x, spent, t1) => ClosesKnown(x, spent, t2)'
  <2> SUFFICES ASSUME ClosesKnown(x, spent, t1) PROVE ClosesKnown(x, spent, t2)'
    OBVIOUS
  <2>1. PICK p \in db.proposal :
          /\ p.hash = x.intent.target
          /\ [tx |-> p.hash, index |-> p.index] \in spent
          /\ x.intent.status # "CANCELLED" => \E q \in db.poll : q.hash = p.poll /\ q.end < t1
    BY DEF ClosesKnown
  <2>2. p \in db'.proposal
    BY DEF Grows
  <2>3. ASSUME x.intent.status # "CANCELLED"
        PROVE  \E q \in db'.poll : q.hash = p.poll /\ q.end < t2
    <3>1. PICK q \in db.poll : q.hash = p.poll /\ q.end < t1
      BY <2>1, <2>3
    <3>2. q.end \in Nat /\ q \in db'.poll
      BY DEF RowsOK, Grows
    <3> QED  BY <3>1, <3>2
  <2> QED  BY <2>1, <2>2, <2>3 DEF ClosesKnown
<1>6. VotesForKnown(x.intent.vote) => VotesForKnown(x.intent.vote)'
  BY DEF VotesForKnown, Grows
<1> QED  BY <1>1, <1>2, <1>3, <1>4, <1>5, <1>6 DEF Founded

\* What was not there at a reading is still not.
LEMMA OlderOutputs ==
  ASSUME Grows, NEW at \in 0 .. Len(chain), NEW u \in ledger', u.tx \notin Later(at)
  PROVE  u \in ledger
<1>1. Later(Len(chain)) \subseteq Later(at)
  BY HashFacts DEF Grows
<1> QED  BY <1>1 DEF Grows

\* A reading stays good.
LEMMA ReadingKept ==
  ASSUME Grows, NEW s, NEW r, ReadingOK(s, r)
  PROVE  ReadingOK(s, r)'
<1>1. r.at \in 0 .. Len(chain) /\ r.at \in 0 .. Len(chain')
  BY DEF ReadingOK, Grows
<1>2. ASSUME NEW u \in ledger', u.owner = WalletOf[s], u.tx \notin Later(r.at)
      PROVE  u \in r.utxos
  <2>1. u \in ledger
    BY <1>1, <1>2, OlderOutputs
  <2> QED  BY <1>2, <2>1 DEF ReadingOK
<1> QED  BY <1>1, <1>2 DEF ReadingOK, Later

\* No collateral becomes foreign to a closing that was planned before it.
LEMMA ForeignShrinks ==
  ASSUME Grows, NEW x, x.readAt \in 0 .. Len(chain)
  PROVE  Foreign(x)' \subseteq Foreign(x)
<1> SUFFICES ASSUME NEW u \in Foreign(x)' PROVE u \in Foreign(x)
  OBVIOUS
<1>1. /\ u \in ledger' /\ u.owner = ProposalsAddress /\ u.token > 0
      /\ u.tx \notin Later(x.readAt) /\ u.tx # x.intent.target
  BY DEF Foreign, Later
<1>2. u \in ledger
  BY <1>1, OlderOutputs
<1> QED  BY <1>1, <1>2 DEF Foreign

\* So does a plan,
LEMMA PlanKept ==
  ASSUME RowsOK, Grows, NEW s \in Sessions, NEW x, PlanOK(s, x)
  PROVE  PlanOK(s, x)'
<1>1. Founded(x, Refs(x.inputs), Clock(s)) /\ x.readAt \in 0 .. Len(chain)
  BY DEF PlanOK, Founded
<1> DEFINE spent == Refs(x.inputs)
<1>2. PICK t1 \in Int : t1 = Clock(s)
  BY AppAssumption DEF Clock, Grows
<1>3. PICK t2 \in Int : t2 = Clock(s)'
  BY AppAssumption DEF Clock, Grows
<1>4. t1 <= t2
  BY <1>2, <1>3, AppAssumption DEF Clock, Grows
<1>5. Founded(x, spent, t2)'
  <2>1. Founded(x, spent, t1)
    BY <1>1, <1>2
  <2> HIDE DEF spent
  <2> QED  BY <1>4, <2>1, FoundedKept DEF spent
<1>6. Founded(x, spent, Clock(s))'
  BY <1>3, <1>5 DEF Founded, ClosesKnown
<1>7. Foreign(x)' \subseteq Foreign(x)
  BY <1>1, ForeignShrinks
<1>8. IsSeq(x.outputs)
  BY DEF PlanOK
<1>9. ASSUME x.intent.op = "close"
      PROVE  /\ \A u \in x.inputs : u.tx = x.intent.target
             /\ Refs(Foreign(x)') \subseteq x.ignored
  BY <1>7, <1>9 DEF PlanOK, Refs
<1> QED  BY <1>6, <1>8, <1>9 DEF PlanOK, Refs, Ref

\* and a transaction.
LEMMA TxKept ==
  ASSUME RowsOK, Grows, NEW x, TxOK(x)
  PROVE  TxOK(x)'
<1> DEFINE time == x.from + Backdate
<1>1. Founded(x, x.inputs, time) /\ x.readAt \in 0 .. Len(chain)
  BY DEF TxOK, Founded
<1>2. time \in Int /\ time <= time
  BY AppAssumption DEF TxOK
<1>3. Founded(x, x.inputs, time)'
  <2> HIDE DEF time
  <2> QED  BY <1>1, <1>2, FoundedKept DEF time
<1>4. Foreign(x)' \subseteq Foreign(x)
  BY <1>1, ForeignShrinks
<1>5. x.from \in Int /\ IsSeq(x.outputs)
  BY DEF TxOK
<1>6. ASSUME x.intent.op = "close"
      PROVE  Refs(Foreign(x)') \cap x.inputs = {}
  BY <1>4, <1>6 DEF TxOK, Refs
<1> QED  BY <1>3, <1>5, <1>6 DEF TxOK, Refs, Ref

\* A session or a page that did nothing is as good as before.
LEMMA SessionKept ==
  ASSUME RowsOK, Grows, NEW s \in Sessions, SessionOK(s), session'[s] = session[s]
  PROVE  SessionOK(s)'
<1> SUFFICES ASSUME NEW e, e = session'[s] PROVE StateOK(s, e)'
  BY DEF SessionOK
<1>1. StateOK(s, e)
  BY DEF SessionOK
<1>2. ReadingOK(s, e.cache)'
  BY <1>1, ReadingKept DEF StateOK
<1>3. \A x \in PlansOf(e) : PlanOK(s, x)'
  BY <1>1, PlanKept DEF StateOK
<1>4. \A x \in BuiltBy(e) : TxOK(x)'
  BY <1>1, TxKept DEF StateOK
<1> QED  BY <1>2, <1>3, <1>4 DEF StateOK

\* So does a page.
LEMMA PageKept ==
  ASSUME Grows, NEW s, PageOK(s), page'[s] = page[s]
  PROVE  PageOK(s)'
BY DEF PageOK, Grows
-----------------------------------------------------------------------------
(* Sessions: only what they hold changes, and the mempool. *)

worldVars == <<ledger, chain, indexed, db, now, page>>

\* The parts of the invariant that do not speak of sessions.
WorldOK ==
  /\ now \in Nat /\ indexed \in 0 .. Len(chain)
  /\ ChainOK /\ LedgerOK /\ RowsOK
  /\ CreatedProposalsAreListed /\ ClosingsTakeEffect /\ VotesCountInTime
  /\ (CollateralQuantity > 0 => OrphansAreNew)

\* A block that is still there is as well founded as when it was made.
LEMMA BlockKept ==
  ASSUME ChainOK, RowsOK, Grows, NEW i \in 1 .. Len(chain), NEW t, t = chain[i]
  PROVE  /\ Founded(t, t.inputs, t.slot + Backdate)' /\ IsSeq(t.outputs)
         /\ t.hash = TxIds[i] /\ t.slot \in Nat
<1> DEFINE time == t.slot + Backdate
<1>1. Founded(t, t.inputs, time) /\ IsSeq(t.outputs) /\ t.hash = TxIds[i] /\ t.slot \in Nat
  BY DEF ChainOK
<1>2. time \in Int /\ time <= time
  BY <1>1, AppAssumption
<1>3. Founded(t, t.inputs, time)'
  <2> HIDE DEF time
  <2> QED  BY <1>1, <1>2, FoundedKept DEF time
<1> QED  BY <1>1, <1>3

\* A step that changes neither ledger, chain, tables nor time is the least growth,
LEMMA UnchangedGrows ==
  ASSUME WorldOK, UNCHANGED <<ledger, chain, indexed, db, now>> PROVE Grows
<1>1. Len(chain) \in Nat
  BY DEF WorldOK, ChainOK
<1> QED  BY <1>1 DEF WorldOK, Grows

\* and leaves the part of the invariant about the world as it was.
LEMMA WorldUnchanged ==
  ASSUME WorldOK, UNCHANGED <<ledger, chain, indexed, db, now>> PROVE WorldOK'
<1>1. ChainOK'
  <2>1. ASSUME NEW i \in 1 .. Len(chain), NEW t, t = chain[i]
        PROVE  /\ Founded(t, t.inputs, t.slot + Backdate)' /\ IsSeq(t.outputs)
               /\ t.hash = TxIds[i] /\ t.slot \in Nat
    BY <2>1, BlockKept, UnchangedGrows DEF WorldOK
  <2> QED  BY <2>1 DEF WorldOK, ChainOK
<1>2. LedgerOK' /\ RowsOK'
  BY DEF WorldOK, LedgerOK, RowsOK
<1>3. CreatedProposalsAreListed' /\ ClosingsTakeEffect' /\ VotesCountInTime' /\ (CollateralQuantity > 0 => OrphansAreNew')
  BY DEF WorldOK, CreatedProposalsAreListed, ClosingsTakeEffect, VotesCountInTime, OrphansAreNew, Indexed
<1> QED  BY <1>1, <1>2, <1>3 DEF WorldOK

\* The invariant is that of the world and that of the sessions.
LEMMA AppParts ==
  AppInv <=> /\ WorldOK
             /\ DOMAIN session = Sessions /\ DOMAIN page = Sessions
             /\ \A s \in Sessions : SessionOK(s) /\ PageOK(s)
             /\ \A m \in mempool : TxOK(m)
BY DEF AppInv, WorldOK

\* A session's step matters to what that session holds, and to nothing else.
LEMMA SessionStep ==
  ASSUME AppInv, UNCHANGED worldVars,
         NEW s \in Sessions, NEW e, session' = [session EXCEPT ![s] = e], StateOK(s, e),
         \A m \in mempool' : TxOK(m)
  PROVE  AppInv'
<1>1. WorldOK' /\ Grows
  BY AppParts, WorldUnchanged, UnchangedGrows DEF worldVars
<1>2. DOMAIN session' = Sessions /\ DOMAIN page' = Sessions
  BY AppParts DEF worldVars
<1>3. RowsOK
  BY AppParts DEF WorldOK
<1>4. ASSUME NEW r \in Sessions PROVE SessionOK(r)'
  <2>1. CASE r # s
    <3>1. session'[r] = session[r] /\ SessionOK(r)
      BY <2>1, AppParts
    <3> QED  BY <1>1, <1>3, <3>1, SessionKept
  <2>2. CASE r = s
    <3>1. session'[s] = e
      BY AppParts
    <3>2. ReadingOK(s, e.cache)'
      BY <1>1, ReadingKept DEF StateOK
    <3>3. \A x \in PlansOf(e) : PlanOK(s, x)'
      BY <1>1, <1>3, PlanKept DEF StateOK
    <3>4. \A x \in BuiltBy(e) : TxOK(x)'
      BY <1>1, <1>3, TxKept DEF StateOK
    <3>5. StateOK(s, e)'
      BY <3>2, <3>3, <3>4 DEF StateOK
    <3> QED  BY <2>2, <3>1, <3>5 DEF SessionOK
  <2> QED  BY <2>1, <2>2
<1>5. ASSUME NEW r \in Sessions PROVE PageOK(r)'
  BY <1>1, AppParts, PageKept DEF worldVars
<1>6. \A m \in mempool' : TxOK(m)'
  BY <1>1, <1>3, TxKept
<1> QED  BY <1>1, <1>2, <1>4, <1>5, <1>6 DEF AppInv, WorldOK

\* Every reading a session makes or has is good.
LEMMA ReadingsOK ==
  ASSUME AppInv, NEW s \in Sessions, NEW r \in Readings(s)
  PROVE  ReadingOK(s, r)
<1>1. CASE r = session[s].cache
  BY <1>1 DEF AppInv, SessionOK, StateOK
<1>2. CASE r = Holding(s)
  <2>1. Len(chain) \in Nat
    BY DEF AppInv, ChainOK
  <2> QED  BY <1>2, <2>1 DEF Holding, Owned, ReadingOK
<1> QED  BY <1>1, <1>2 DEF Readings

\* A plan made from a good reading.
LEMMA PlannedStep ==
  ASSUME AppInv, NEW s \in Sessions, NEW plan, NEW reading, Planned(s, plan, reading),
         ReadingOK(s, reading), PlanOK(s, plan)
  PROVE  AppInv'
<1> DEFINE e == [pc |-> "planned", cache |-> reading, plan |-> plan]
<1>1. PlansOf(e) = {plan} /\ BuiltBy(e) = {} /\ e.cache = reading
  BY DEF PlansOf, BuiltBy
<1>2. session' = [session EXCEPT ![s] = e] /\ UNCHANGED worldVars /\ mempool' = mempool
  BY DEF Planned, worldVars, ledgerVars
<1> HIDE DEF e
<1>3. StateOK(s, e)
  BY <1>1 DEF StateOK
<1>4. \A m \in mempool' : TxOK(m)
  BY <1>2 DEF AppInv
<1> QED  BY <1>2, <1>3, <1>4, SessionStep
-----------------------------------------------------------------------------
(* Plans. *)

\* The plan of a creation.
LEMMA CreatePlanOK ==
  ASSUME AppInv, NEW s \in Sessions, NEW window \in Windows
  PROVE  PlanOK(s, PlanCreate(s, window))
<1> DEFINE x == PlanCreate(s, window)
           out == [owner |-> ProposalsAddress, token |-> CollateralQuantity]
<1>1. /\ x.intent.op = "create" /\ x.intent.start = window[1] /\ x.intent.end = window[2]
      /\ x.votes = Undefined /\ x.outputs = <<out>> /\ x.readAt = Len(chain)
      /\ x.manage = EncodeAddProposal(FormProposal(WalletOf[s]),
                 [start |-> window[1], end |-> window[2], snapshot |-> window[1], description |-> <<>>])
  BY DEF PlanCreate
<1> HIDE DEF x
<1>2. x.intent.start \in Nat /\ x.intent.end \in Nat
  BY <1>1, AppAssumption
<1>3. x.manage = EncodeAddProposal(FormProposal(WalletOf[s]), FilledIn(x))
  BY <1>1 DEF FilledIn
<1>4. 1 \in DOMAIN x.outputs /\ x.outputs[1] = out
  BY <1>1
<1>5. IsSeq(x.outputs)
  BY <1>1, ShortSequences
<1>6. MeansCreate(x)
  BY <1>1, <1>2, <1>3, <1>4 DEF MeansCreate
<1>7. x.readAt \in 0 .. Len(chain)
  BY <1>1 DEF AppInv, ChainOK
<1>8. x.intent.op # "close"
  BY <1>1
<1>9. PlanOK(s, x)
  BY <1>5, <1>6, <1>7, <1>8 DEF PlanOK, Founded
<1> QED  BY <1>9 DEF x

\* The plan of a closing, of a proposal that the tables have.
LEMMA ClosingPlanOK ==
  ASSUME AppInv, NEW s \in Sessions, IsAdmin(s), NEW p \in page[s], NEW reading, ReadingOK(s, reading),
         NEW utxo, Ref(utxo) = [tx |-> p.hash, index |-> p.index],
         NEW beneficiary, NEW metadata, NEW status,
         \/ status = "CANCELLED" /\ metadata = EncodeCancel(p.hash, <<"reason">>)
         \/ /\ status \in {"PASSED", "FAILED"} /\ metadata = EncodeConclude(p.hash, Written(status))
            /\ p.end < Clock(s)
  PROVE  PlanOK(s, PlanClosing(utxo, reading.utxos, beneficiary, metadata,
                               [op |-> "close", target |-> p.hash, status |-> status], reading.at))
<1> DEFINE x == PlanClosing(utxo, reading.utxos, beneficiary, metadata,
                            [op |-> "close", target |-> p.hash, status |-> status], reading.at)
           out == [owner |-> beneficiary, token |-> utxo.token]
<1>1. /\ x.intent.op = "close" /\ x.intent.target = p.hash /\ x.intent.status = status
      /\ x.manage = metadata /\ x.votes = Undefined /\ x.outputs = <<out>> /\ x.readAt = reading.at
      /\ x.inputs = {utxo}
      /\ x.ignored = Refs({u \in reading.utxos : IsPotentialProposalUtxo(u)})
  BY DEF PlanClosing
<1> HIDE DEF x
<1>2. IsSeq(x.outputs)
  BY <1>1, ShortSequences
<1>3. MeansClose(x)
  BY <1>1 DEF MeansClose
<1>4. PICK r \in db.proposal, q \in db.poll :
        r.poll = q.hash /\ p.hash = r.hash /\ p.index = r.index /\ p.end = q.end
  BY DEF AppInv, PageOK
<1>5. ClosesKnown(x, Refs(x.inputs), Clock(s))
  <2>1. [tx |-> r.hash, index |-> r.index] \in Refs(x.inputs)
    BY <1>1, <1>4 DEF Refs
  <2>2. status # "CANCELLED" => p.end < Clock(s)
    OBVIOUS
  <2> QED  BY <1>1, <1>4, <2>1, <2>2 DEF ClosesKnown
<1>6. x.readAt \in 0 .. Len(chain)
  BY <1>1 DEF ReadingOK
<1>7. \A u \in x.inputs : u.tx = x.intent.target
  BY <1>1 DEF Ref
<1>8. Refs(Foreign(x)) \subseteq x.ignored
  <2>1. ASSUME NEW u \in Foreign(x) PROVE u \in reading.utxos /\ IsPotentialProposalUtxo(u)
    <3>1. u \in ledger /\ u.owner = ProposalsAddress /\ u.token > 0 /\ u.tx \notin Later(reading.at)
      BY <1>1 DEF Foreign
    <3>2. u.owner = WalletOf[s]
      BY <3>1 DEF IsAdmin
    <3> QED  BY <3>1, <3>2 DEF ReadingOK, IsPotentialProposalUtxo
  <2> QED  BY <1>1, <2>1 DEF Refs
<1>9. PlanOK(s, x)
  BY <1>2, <1>3, <1>5, <1>6, <1>7, <1>8 DEF PlanOK, Founded
<1> QED  BY <1>9 DEF x

\* The plan of a vote.
LEMMA VotePlanOK ==
  ASSUME AppInv, NEW s \in Sessions, NEW p \in page[s], NEW reading, ReadingOK(s, reading),
         NEW first, NEW choice \in -1 .. p.choices - 1
  PROVE  PlanOK(s, PlanVote(s, first,
                    [poll |-> p.poll, owner |-> WalletOf[s], power |-> 1, utxos |-> <<>>,
                     choices |-> [h \in {p.hash} |-> choice]], reading.at))
<1> DEFINE v == [poll |-> p.poll, owner |-> WalletOf[s], power |-> 1, utxos |-> <<>>,
                 choices |-> [h \in {p.hash} |-> choice]]
           x == PlanVote(s, first, v, reading.at)
<1>1. /\ v.poll = p.poll /\ v.owner = WalletOf[s] /\ v.choices = [h \in {p.hash} |-> choice]
  OBVIOUS
<1> HIDE DEF v
<1>2. /\ x.intent.op = "vote" /\ x.intent.vote = v /\ x.manage = Undefined /\ x.votes = EncodeVote(v)
      /\ x.signers = {WalletOf[s]} /\ x.outputs = <<>> /\ x.readAt = reading.at
  BY DEF PlanVote
<1> HIDE DEF x
<1>3. PICK r \in db.proposal, q \in db.poll :
        r.poll = q.hash /\ p.hash = r.hash /\ p.choices = r.choices /\ p.poll = q.hash
  BY DEF AppInv, PageOK
<1>4. r.choices \in Nat
  BY DEF AppInv, RowsOK
<1>5. choice \in Int /\ choice >= -1 /\ (choice = -1 \/ choice \in 0 .. r.choices - 1)
  BY <1>3, <1>4
<1>6. IsVote(v)
  BY <1>1, <1>5 DEF IsVote
<1>7. MeansVote(x)
  BY <1>1, <1>2, <1>6 DEF MeansVote
<1>8. VotesForKnown(x.intent.vote)
  <2>1. DOMAIN v.choices = {r.hash} /\ v.choices[r.hash] = choice
    BY <1>1, <1>3
  <2>2. ChoiceExists(r, choice)
    BY <1>5 DEF ChoiceExists, Abstain
  <2> QED  BY <1>1, <1>2, <1>3, <2>1, <2>2 DEF VotesForKnown
<1>9. x.readAt \in 0 .. Len(chain) /\ IsSeq(x.outputs) /\ x.intent.op # "close"
  BY <1>2, TextsAre DEF ReadingOK
<1>10. PlanOK(s, x)
  BY <1>7, <1>8, <1>9 DEF PlanOK, Founded
<1> QED  BY <1>10 DEF x, v
-----------------------------------------------------------------------------
(* What sessions do. *)

\* A proposal is begun.
LEMMA CreateKeeps ==
  ASSUME AppInv, NEW s \in Sessions, NEW window \in Windows, HandleCreateProposal(s, window)
  PROVE  AppInv'
<1> DEFINE plan == PlanCreate(s, window)
           reading == session[s].cache
<1>1. PlanOK(s, plan)
  BY CreatePlanOK
<1>2. ReadingOK(s, reading)
  BY ReadingsOK DEF Readings
<1>3. Planned(s, plan, reading)
  BY DEF HandleCreateProposal
<1> HIDE DEF plan, reading
<1> QED  BY <1>1, <1>2, <1>3, PlannedStep

\* A closing is begun.
LEMMA CloseKeeps ==
  ASSUME AppInv, NEW s \in Sessions, NEW p \in page[s], NEW beneficiary, NEW metadata, NEW status,
         Close(s, p, beneficiary, metadata, status),
         \/ status = "CANCELLED" /\ metadata = EncodeCancel(p.hash, <<"reason">>)
         \/ /\ status \in {"PASSED", "FAILED"} /\ metadata = EncodeConclude(p.hash, Written(status))
            /\ p.end < Clock(s)
  PROVE  AppInv'
<1>1. PICK reading \in Readings(s) :
        \E utxo \in {u \in reading.utxos : Ref(u) = [tx |-> p.hash, index |-> p.index]} :
          Planned(s, PlanClosing(utxo, reading.utxos, beneficiary, metadata,
                       [op |-> "close", target |-> p.hash, status |-> status], reading.at), reading)
  BY DEF Close
<1>2. PICK utxo \in reading.utxos :
        /\ Ref(utxo) = [tx |-> p.hash, index |-> p.index]
        /\ Planned(s, PlanClosing(utxo, reading.utxos, beneficiary, metadata,
                       [op |-> "close", target |-> p.hash, status |-> status], reading.at), reading)
  BY <1>1
<1>3. ReadingOK(s, reading) /\ IsAdmin(s)
  BY ReadingsOK DEF Close
<1> DEFINE plan == PlanClosing(utxo, reading.utxos, beneficiary, metadata,
                               [op |-> "close", target |-> p.hash, status |-> status], reading.at)
<1>4. PlanOK(s, plan)
  BY <1>2, <1>3, ClosingPlanOK
<1>5. Planned(s, plan, reading)
  BY <1>2
<1> HIDE DEF plan
<1> QED  BY <1>3, <1>4, <1>5, PlannedStep

\* The closing is a cancellation,
LEMMA CancelKeeps ==
  ASSUME AppInv, NEW s \in Sessions, NEW p \in page[s], NEW beneficiary,
         HandleCancelProposal(s, p, beneficiary)
  PROVE  AppInv'
<1> DEFINE metadata == EncodeCancel(p.hash, <<"reason">>)
<1>1. Close(s, p, beneficiary, metadata, "CANCELLED") /\ metadata = EncodeCancel(p.hash, <<"reason">>)
  BY DEF HandleCancelProposal
<1> HIDE DEF metadata
<1> QED  BY <1>1, CloseKeeps

\* or a conclusion.
LEMMA ConcludeKeeps ==
  ASSUME AppInv, NEW s \in Sessions, NEW p \in page[s], NEW beneficiary,
         NEW result \in {"PASSED", "FAILED"}, NEW time \in PageTimes(s),
         HandleConcludeProposal(s, p, beneficiary, result, time)
  PROVE  AppInv'
<1> DEFINE metadata == EncodeConclude(p.hash, Written(result))
<1>1. Close(s, p, beneficiary, metadata, result) /\ metadata = EncodeConclude(p.hash, Written(result))
  BY DEF HandleConcludeProposal, Written
<1>2. p.end < Clock(s)
  <2>1. PICK q \in db.poll : p.end = q.end
    BY DEF AppInv, PageOK
  <2>2. q.end \in Nat /\ Clock(s) \in Int
    BY AppAssumption DEF AppInv, RowsOK, Clock
  <2>3. time > p.end /\ (time = Clock(s) \/ time = Clock(s) - 1)
    BY DEF HandleConcludeProposal, CanBeConcluded, PageTimes
  <2> QED  BY <2>1, <2>2, <2>3
<1> HIDE DEF metadata
<1> QED  BY <1>1, <1>2, CloseKeeps

\* A vote is begun.
LEMMA VoteKeeps ==
  ASSUME AppInv, NEW s \in Sessions, NEW p \in page[s], NEW choice \in -1 .. p.choices - 1, NEW time,
         HandleCastVote(s, p, choice, time)
  PROVE  AppInv'
<1> DEFINE v == [poll |-> p.poll, owner |-> WalletOf[s], power |-> 1, utxos |-> <<>>,
                 choices |-> [h \in {p.hash} |-> choice]]
<1>1. PICK reading \in Readings(s) :
        \E first \in reading.utxos : Planned(s, PlanVote(s, first, v, reading.at), reading)
  BY DEF HandleCastVote
<1>2. PICK first \in reading.utxos : Planned(s, PlanVote(s, first, v, reading.at), reading)
  BY <1>1
<1> DEFINE plan == PlanVote(s, first, v, reading.at)
<1>3. ReadingOK(s, reading)
  BY ReadingsOK
<1>4. PlanOK(s, plan)
  BY <1>3, VotePlanOK
<1>5. Planned(s, plan, reading)
  BY <1>2
<1> HIDE DEF plan
<1> QED  BY <1>3, <1>4, <1>5, PlannedStep

\* A plan becomes a transaction: coin selection keeps the ignored UTxOs out.
LEMMA SelectionOK ==
  ASSUME AppInv, NEW s \in Sessions, NEW plan, PlanOK(s, plan), NEW reading,
         NEW inputs \in Selections(plan, reading), NEW change, NEW from, from = Clock(s) - Backdate, NEW ttl
  PROVE  TxOK([inputs |-> Refs(inputs), outputs |-> Append(plan.outputs, change),
               signers |-> plan.signers, manage |-> plan.manage, votes |-> plan.votes,
               from |-> from, ttl |-> ttl, intent |-> plan.intent, readAt |-> plan.readAt])
<1> DEFINE outputs == Append(plan.outputs, change)
           x == [inputs |-> Refs(inputs), outputs |-> outputs,
                 signers |-> plan.signers, manage |-> plan.manage, votes |-> plan.votes,
                 from |-> from, ttl |-> ttl, intent |-> plan.intent, readAt |-> plan.readAt]
<1>1. PICK extra : /\ \A u \in extra : Ref(u) \notin plan.ignored
                   /\ inputs = plan.inputs \cup extra
  BY DEF Selections
<1>2. /\ IsSeq(plan.outputs) /\ IsSeq(outputs)
      /\ \A i \in DOMAIN plan.outputs : i \in DOMAIN outputs /\ outputs[i] = plan.outputs[i]
  <2>1. IsSeq(plan.outputs)
    BY DEF PlanOK
  <2>2. /\ IsSeq(outputs) /\ Len(plan.outputs) \in Nat /\ DOMAIN plan.outputs = 1 .. Len(plan.outputs)
        /\ DOMAIN outputs = 1 .. Len(plan.outputs) + 1
        /\ \A i \in 1 .. Len(plan.outputs) : outputs[i] = plan.outputs[i]
    BY <2>1, AppendFacts
  <2> HIDE DEF outputs
  <2> QED  BY <2>1, <2>2
<1> HIDE DEF outputs
<1>3. /\ x.inputs = Refs(inputs) /\ x.outputs = outputs /\ x.signers = plan.signers
      /\ x.manage = plan.manage /\ x.votes = plan.votes /\ x.intent = plan.intent
      /\ x.readAt = plan.readAt /\ x.from = from
  OBVIOUS
<1> HIDE DEF x
<1> DEFINE time == x.from + Backdate
<1>4. Founded(plan, Refs(plan.inputs), time) /\ x.from \in Int
  <2>1. Clock(s) \in Int /\ Backdate \in Int
    BY AppAssumption DEF AppInv, Clock
  <2>2. time = Clock(s) /\ x.from \in Int
    BY <1>3, <2>1
  <2> HIDE DEF time
  <2> QED  BY <2>2 DEF PlanOK
<1> HIDE DEF time
<1>5. MeansCreate(plan) => MeansCreate(x)
  BY <1>2, <1>3 DEF MeansCreate, FilledIn
<1>6. MeansClose(plan) => MeansClose(x)
  BY <1>3 DEF MeansClose
<1>7. MeansVote(plan) => MeansVote(x)
  BY <1>3 DEF MeansVote
<1>8. ClosesKnown(plan, Refs(plan.inputs), time) => ClosesKnown(x, x.inputs, time)
  <2>1. Refs(plan.inputs) \subseteq x.inputs
    BY <1>1, <1>3 DEF Refs
  <2> QED  BY <1>3, <2>1 DEF ClosesKnown
<1>9. Founded(x, x.inputs, time)
  BY <1>3, <1>4, <1>5, <1>6, <1>7, <1>8 DEF Founded
<1>10. ASSUME x.intent.op = "close" PROVE Refs(Foreign(x)) \cap x.inputs = {}
  <2>1. /\ \A u \in plan.inputs : u.tx = plan.intent.target
        /\ Refs(Foreign(plan)) \subseteq plan.ignored
    BY <1>3, <1>10 DEF PlanOK
  <2>2. Foreign(x) = Foreign(plan)
    BY <1>3 DEF Foreign
  <2>3. SUFFICES ASSUME NEW u \in Foreign(plan), NEW w \in inputs, Ref(u) = Ref(w) PROVE FALSE
    BY <1>3, <2>2 DEF Refs
  <2>4. u.tx = w.tx /\ u.tx # plan.intent.target
    BY <2>3 DEF Ref, Foreign
  <2>5. w \in extra
    BY <1>1, <2>1, <2>4
  <2>6. Ref(w) \in plan.ignored
    BY <2>1, <2>3 DEF Refs
  <2> QED  BY <1>1, <2>5, <2>6
<1>11. TxOK(x)
  BY <1>2, <1>3, <1>4, <1>9, <1>10 DEF TxOK, time
<1> QED  BY <1>11 DEF x, outputs

\* The transaction is built,
LEMMA BuildKeeps ==
  ASSUME AppInv, NEW s \in Sessions, BuildTx(s)
  PROVE  AppInv'
<1>1. PICK plan : plan = session[s].plan
  OBVIOUS
<1>2. PlanOK(s, plan)
  <2>1. PICK e : e = session[s]
    OBVIOUS
  <2>2. StateOK(s, e) /\ PlansOf(e) = {plan}
    BY <1>1, <2>1 DEF AppInv, SessionOK, BuildTx, PlansOf
  <2> QED  BY <2>2 DEF StateOK
<1> DEFINE Built(reading, inputs) ==
             [pc |-> "built", cache |-> reading,
              tx |-> [inputs |-> Refs(inputs), outputs |-> Append(plan.outputs, Change(s, plan, inputs)),
                      signers |-> plan.signers, manage |-> plan.manage, votes |-> plan.votes,
                      from |-> Clock(s) - Backdate, ttl |-> Clock(s) - Backdate + Ttl,
                      intent |-> plan.intent, readAt |-> plan.readAt]]
<1>3. PICK reading \in Readings(s) : \E inputs \in Selections(plan, reading) :
         session' = [session EXCEPT ![s] = Built(reading, inputs)]
  BY <1>1 DEF BuildTx
<1>4. PICK inputs \in Selections(plan, reading) :
        session' = [session EXCEPT ![s] = Built(reading, inputs)]
  BY <1>3
<1>5. PICK change : change = Change(s, plan, inputs)
  OBVIOUS
<1>6. PICK from, ttl : from = Clock(s) - Backdate /\ ttl = Clock(s) - Backdate + Ttl
  OBVIOUS
<1> DEFINE x == [inputs |-> Refs(inputs), outputs |-> Append(plan.outputs, change),
                 signers |-> plan.signers, manage |-> plan.manage, votes |-> plan.votes,
                 from |-> from, ttl |-> ttl, intent |-> plan.intent, readAt |-> plan.readAt]
           e == [pc |-> "built", cache |-> reading, tx |-> x]
<1>7. session' = [session EXCEPT ![s] = e]
  BY <1>4, <1>5, <1>6
<1>8. TxOK(x)
  BY <1>2, <1>6, SelectionOK
<1>9. ReadingOK(s, reading)
  BY ReadingsOK
<1> HIDE DEF x
<1>10. PlansOf(e) = {} /\ BuiltBy(e) = {x} /\ e.cache = reading
  BY DEF PlansOf, BuiltBy
<1> HIDE DEF e
<1>11. StateOK(s, e)
  BY <1>8, <1>9, <1>10 DEF StateOK
<1>12. UNCHANGED worldVars /\ \A m \in mempool' : TxOK(m)
  BY DEF BuildTx, worldVars, ledgerVars, AppInv
<1> QED  BY <1>7, <1>11, <1>12, SessionStep

\* A session that gives up or is done holds a reading only.
LEMMA IdleOK ==
  ASSUME NEW s, NEW r, ReadingOK(s, r) PROVE StateOK(s, Idle(r))
<1> DEFINE e == Idle(r)
<1>1. PlansOf(e) = {} /\ BuiltBy(e) = {} /\ e.cache = r
  BY DEF PlansOf, BuiltBy, Idle
<1> HIDE DEF e
<1>2. StateOK(s, e)
  BY <1>1 DEF StateOK
<1> QED  BY <1>2 DEF e

\* is not built,
LEMMA BuildFailsKeeps ==
  ASSUME AppInv, NEW s \in Sessions, BuildFails(s)
  PROVE  AppInv'
<1>1. PICK reading \in Readings(s) : session' = [session EXCEPT ![s] = Idle(reading)]
  BY DEF BuildFails
<1>2. PICK e : e = Idle(reading)
  OBVIOUS
<1>3. StateOK(s, e)
  BY <1>2, ReadingsOK, IdleOK
<1>4. UNCHANGED worldVars /\ \A m \in mempool' : TxOK(m)
  BY DEF BuildFails, worldVars, ledgerVars, AppInv
<1> QED  BY <1>1, <1>2, <1>3, <1>4, SessionStep

\* is submitted,
LEMMA SubmitKeeps ==
  ASSUME AppInv, NEW s \in Sessions, SignAndSubmit(s)
  PROVE  AppInv'
<1>1. PICK reading : reading = session[s].cache
  OBVIOUS
<1>2. PICK e : e = Idle(reading)
  OBVIOUS
<1>3. session' = [session EXCEPT ![s] = e]
  BY <1>1, <1>2 DEF SignAndSubmit
<1>4. StateOK(s, e)
  BY <1>1, <1>2, ReadingsOK, IdleOK DEF Readings
<1>5. PICK x : x = session[s].tx
  OBVIOUS
<1>6. TxOK(x)
  <2>1. PICK d : d = session[s]
    OBVIOUS
  <2>2. StateOK(s, d) /\ BuiltBy(d) = {x}
    BY <1>5, <2>1 DEF AppInv, SessionOK, SignAndSubmit, BuiltBy
  <2> QED  BY <2>2 DEF StateOK
<1>7. UNCHANGED worldVars /\ mempool' = mempool \cup {x}
  BY <1>5 DEF SignAndSubmit, worldVars
<1>8. \A m \in mempool' : TxOK(m)
  BY <1>6, <1>7 DEF AppInv
<1> QED  BY <1>3, <1>4, <1>7, <1>8, SessionStep

\* or is not.
LEMMA NotSubmittedKeeps ==
  ASSUME AppInv, NEW s \in Sessions, NotSubmitted(s)
  PROVE  AppInv'
<1>1. PICK reading : reading = session[s].cache
  OBVIOUS
<1>2. PICK e : e = Idle(reading)
  OBVIOUS
<1>3. session' = [session EXCEPT ![s] = e]
  BY <1>1, <1>2 DEF NotSubmitted
<1>4. StateOK(s, e)
  BY <1>1, <1>2, ReadingsOK, IdleOK DEF Readings
<1>5. UNCHANGED worldVars /\ \A m \in mempool' : TxOK(m)
  BY DEF NotSubmitted, worldVars, ledgerVars, AppInv
<1> QED  BY <1>3, <1>4, <1>5, SessionStep

\* Whatever a session does keeps the invariant.
LEMMA ActKeeps == ASSUME AppInv, NEW s \in Sessions, Act(s) PROVE AppInv'
<1>1. ASSUME NEW window \in Windows, HandleCreateProposal(s, window) PROVE AppInv'
  BY <1>1, CreateKeeps
<1>2. ASSUME NEW p \in page[s], NEW b \in Beneficiaries, HandleCancelProposal(s, p, b) PROVE AppInv'
  BY <1>2, CancelKeeps
<1>3. ASSUME NEW p \in page[s], NEW b \in Beneficiaries, NEW result \in {"PASSED", "FAILED"},
             NEW time \in PageTimes(s), HandleConcludeProposal(s, p, b, result, time)
      PROVE  AppInv'
  BY <1>3, ConcludeKeeps
<1>4. ASSUME NEW p \in page[s], NEW time \in PageTimes(s), NEW choice \in -1 .. p.choices - 1,
             HandleCastVote(s, p, choice, time)
      PROVE  AppInv'
  BY <1>4, VoteKeeps
<1>5. CASE BuildTx(s)
  BY <1>5, BuildKeeps
<1>6. CASE BuildFails(s)
  BY <1>6, BuildFailsKeeps
<1>7. CASE SignAndSubmit(s)
  BY <1>7, SubmitKeeps
<1>8. CASE NotSubmitted(s)
  BY <1>8, NotSubmittedKeeps
<1> QED  BY <1>1, <1>2, <1>3, <1>4, <1>5, <1>6, <1>7, <1>8 DEF Act
-----------------------------------------------------------------------------
(* The page and the clock. *)

\* A page shows proposals of the tables, each with its poll.
LEMMA RefreshKeeps ==
  ASSUME AppInv, NEW s \in Sessions, Refresh(s)
  PROVE  AppInv'
<1>1. UNCHANGED <<ledger, chain, indexed, db, now>> /\ mempool' = mempool /\ session' = session
      /\ page' = [page EXCEPT ![s] = Shown(db, WalletOf[s])]
  BY DEF Refresh, ledgerVars
<1>2. WorldOK /\ WorldOK' /\ Grows /\ RowsOK
  BY <1>1, AppParts, WorldUnchanged, UnchangedGrows DEF WorldOK
<1>3. DOMAIN session' = Sessions /\ DOMAIN page' = Sessions
  BY <1>1, AppParts
<1>4. \A r \in Sessions : SessionOK(r)'
  BY <1>1, <1>2, AppParts, SessionKept
<1>5. \A m \in mempool' : TxOK(m)'
  BY <1>1, <1>2, AppParts, TxKept
<1>6. ASSUME NEW r \in Sessions PROVE PageOK(r)'
  <2>1. CASE r # s
    <3>1. page'[r] = page[r]
      BY <1>1, <2>1, AppParts
    <3> QED  BY <1>2, <3>1, AppParts, PageKept
  <2>2. CASE r = s
    <3>1. page'[s] = Shown(db, WalletOf[s])
      BY <1>1, AppParts
    <3>2. ASSUME NEW p \in Shown(db, WalletOf[s])
          PROVE  \E x \in db.proposal, q \in db.poll :
                   /\ x.poll = q.hash
                   /\ p.hash = x.hash /\ p.index = x.index /\ p.choices = x.choices
                   /\ p.poll = q.hash /\ p.end = q.end
      <4>1. PICK y \in db.proposal \X db.poll :
              /\ y[1].poll = y[2].hash
              /\ p = [hash |-> y[1].hash, index |-> y[1].index, poll |-> y[2].hash, start |-> y[2].start,
                      end |-> y[2].end, choices |-> y[1].choices, available |-> ClosedAs(db, y[1].hash) = {},
                      userChoice |-> UserChoice(db, WalletOf[s], y[1].hash)]
        BY <3>2 DEF Shown
      <4>2. y[1] \in db.proposal /\ y[2] \in db.poll
        BY <4>1
      <4>3. /\ p.hash = y[1].hash /\ p.index = y[1].index /\ p.choices = y[1].choices
            /\ p.poll = y[2].hash /\ p.end = y[2].end
        BY <4>1
      <4> QED  BY <4>1, <4>2, <4>3
    <3> QED  BY <1>1, <2>2, <3>1, <3>2 DEF PageOK
  <2> QED  BY <2>1, <2>2
<1> QED  BY <1>2, <1>3, <1>4, <1>5, <1>6 DEF AppInv, WorldOK

\* Time passes.
LEMMA TickKeeps ==
  ASSUME AppInv, Tick
  PROVE  AppInv'
<1>1. UNCHANGED <<ledger, chain, indexed, db>> /\ mempool' = mempool /\ session' = session
      /\ page' = page /\ now' = now + 1
  BY DEF Tick, ledgerVars
<1>2. Len(chain) \in Nat /\ now \in Nat /\ RowsOK /\ ChainOK
  BY DEF AppInv, ChainOK
<1>3. Grows
  BY <1>1, <1>2 DEF Grows
<1>4. ChainOK'
  <2>1. ASSUME NEW i \in 1 .. Len(chain), NEW t, t = chain[i]
        PROVE  /\ Founded(t, t.inputs, t.slot + Backdate)' /\ IsSeq(t.outputs)
               /\ t.hash = TxIds[i] /\ t.slot \in Nat
    BY <1>2, <1>3, <2>1, BlockKept
  <2> QED  BY <1>1, <1>2, <2>1 DEF ChainOK
<1>5. LedgerOK' /\ RowsOK'
  BY <1>1 DEF AppInv, LedgerOK, RowsOK
<1>6. CreatedProposalsAreListed' /\ ClosingsTakeEffect' /\ VotesCountInTime' /\ (CollateralQuantity > 0 => OrphansAreNew')
  BY <1>1 DEF AppInv, CreatedProposalsAreListed, ClosingsTakeEffect, VotesCountInTime, OrphansAreNew, Indexed
<1>7. \A s \in Sessions : SessionOK(s)' /\ PageOK(s)'
  BY <1>1, <1>2, <1>3, SessionKept, PageKept DEF AppInv
<1>8. \A m \in mempool' : TxOK(m)'
  BY <1>1, <1>2, <1>3, TxKept DEF AppInv
<1>9. now' \in Nat /\ indexed' \in 0 .. Len(chain') /\ DOMAIN session' = Sessions /\ DOMAIN page' = Sessions
  BY <1>1, <1>2 DEF AppInv
<1> QED  BY <1>4, <1>5, <1>6, <1>7, <1>8, <1>9 DEF AppInv
-----------------------------------------------------------------------------
(* A transaction gets into a block. *)

IncludedAs(t, hash, slot) ==
  [hash |-> hash, slot |-> slot, inputs |-> t.inputs, outputs |-> t.outputs, signers |-> t.signers,
   manage |-> t.manage, votes |-> t.votes, intent |-> t.intent, readAt |-> t.readAt]

OutputsOf(t, hash) ==
  {[tx |-> hash, index |-> i - 1, owner |-> t.outputs[i].owner, token |-> t.outputs[i].token] :
     i \in DOMAIN t.outputs}

\* What Include does, with the new block b.
Includes(t, b, n) ==
  /\ n = Len(chain) /\ n < Len(TxIds) /\ n \in Nat
  /\ b = IncludedAs(t, TxIds[n + 1], now)
  /\ b.hash = TxIds[n + 1] /\ b.slot = now /\ b.inputs = t.inputs /\ b.outputs = t.outputs
  /\ b.signers = t.signers /\ b.manage = t.manage /\ b.votes = t.votes /\ b.intent = t.intent
  /\ b.readAt = t.readAt
  /\ t.inputs \subseteq Refs(ledger) /\ t.from <= now /\ TxOK(t)
  /\ chain' = Append(chain, b)
  /\ IsSeq(chain') /\ Len(chain') = n + 1 /\ chain'[n + 1] = b
  /\ \A i \in 1 .. n : chain'[i] = chain[i]
  /\ ledger' = {u \in ledger : Ref(u) \notin t.inputs} \cup OutputsOf(t, TxIds[n + 1])
  /\ mempool' \subseteq mempool
  /\ UNCHANGED <<indexed, db, now, session, page>>

LEMMA IncludeFacts ==
  ASSUME AppInv, NEW t \in mempool, Include(t)
  PROVE  \E b, n : Includes(t, b, n)
<1>1. PICK n : n = Len(chain)
  OBVIOUS
<1>2. PICK b : b = IncludedAs(t, TxIds[n + 1], now)
  OBVIOUS
<1>3. n \in Nat /\ IsSeq(chain)
  BY <1>1 DEF AppInv, ChainOK
<1>4. /\ b.hash = TxIds[n + 1] /\ b.slot = now /\ b.inputs = t.inputs /\ b.outputs = t.outputs
      /\ b.signers = t.signers /\ b.manage = t.manage /\ b.votes = t.votes /\ b.intent = t.intent
      /\ b.readAt = t.readAt
  BY <1>2 DEF IncludedAs
<1>5. /\ n < Len(TxIds) /\ t.inputs \subseteq Refs(ledger) /\ t.from <= now
      /\ chain' = Append(chain, b)
      /\ ledger' = {u \in ledger : Ref(u) \notin t.inputs} \cup OutputsOf(t, TxIds[n + 1])
      /\ mempool' \subseteq mempool /\ UNCHANGED <<indexed, db, now, session, page>>
  BY <1>1, <1>2 DEF Include, Valid, IncludedAs, OutputsOf
<1>6. /\ IsSeq(chain') /\ Len(chain') = n + 1 /\ chain'[n + 1] = b
      /\ \A i \in 1 .. n : chain'[i] = chain[i]
  <2> DEFINE c == Append(chain, b)
  <2>1. /\ IsSeq(c) /\ Len(c) = n + 1 /\ c[n + 1] = b
        /\ \A i \in 1 .. n : c[i] = chain[i]
    BY <1>1, <1>3, AppendFacts
  <2>2. chain' = c
    BY <1>5
  <2> HIDE DEF c
  <2>3. IsSeq(chain')
    BY <2>1, <2>2 DEF IsSeq
  <2> QED  BY <2>1, <2>2, <2>3
<1>7. TxOK(t)
  BY DEF AppInv
<1> QED  BY <1>1, <1>2, <1>3, <1>4, <1>5, <1>6, <1>7 DEF Includes

\* A block adds outputs of a hash that was still to come.
LEMMA IncludeGrows ==
  ASSUME AppInv, NEW t, NEW b, NEW n, Includes(t, b, n) PROVE Grows
<1>1. TxIds[n + 1] \in Later(n)
  BY HashFacts DEF Includes
<1>2. \A u \in ledger' : u \in ledger \/ u.tx = TxIds[n + 1]
  BY DEF Includes, OutputsOf
<1>3. now \in Nat
  BY DEF AppInv
<1> QED  BY <1>1, <1>2, <1>3 DEF Includes, Grows

\* The new block is as well founded as its transaction was.
LEMMA IncludeChain ==
  ASSUME AppInv, NEW t, NEW b, NEW n, Includes(t, b, n) PROVE ChainOK'
<1>1. Grows /\ ChainOK /\ RowsOK /\ now \in Nat
  BY IncludeGrows DEF AppInv
<1>2. PICK built \in Int : built = t.from + Backdate
  BY AppAssumption DEF Includes, TxOK
<1>3. PICK time \in Int : time = b.slot + Backdate /\ built <= time
  BY <1>1, <1>2, AppAssumption DEF Includes, TxOK
<1>4. Founded(b, b.inputs, built)
  <2>0. Founded(t, t.inputs, built)
    BY <1>2 DEF Includes, TxOK
  <2>1. MeansCreate(t) => MeansCreate(b)
    BY DEF Includes, MeansCreate, FilledIn
  <2>2. MeansClose(t) => MeansClose(b)
    BY DEF Includes, MeansClose
  <2>3. MeansVote(t) => MeansVote(b)
    BY DEF Includes, MeansVote
  <2>4. ClosesKnown(t, t.inputs, built) => ClosesKnown(b, b.inputs, built)
    BY DEF Includes, ClosesKnown
  <2>5. b.intent = t.intent /\ b.readAt = t.readAt
    BY DEF Includes
  <2> QED  BY <2>0, <2>1, <2>2, <2>3, <2>4, <2>5 DEF Founded
<1>5. Founded(b, b.inputs, time)'
  BY <1>1, <1>3, <1>4, FoundedKept
<1>6. Founded(b, b.inputs, b.slot + Backdate)'
  BY <1>3, <1>5 DEF Founded, ClosesKnown
<1>7. IsSeq(b.outputs) /\ b.hash = TxIds[n + 1] /\ b.slot \in Nat
  BY <1>1 DEF Includes, TxOK
<1>8. ASSUME NEW i \in 1 .. n + 1, NEW c, c = chain'[i]
      PROVE  /\ Founded(c, c.inputs, c.slot + Backdate)' /\ IsSeq(c.outputs)
             /\ c.hash = TxIds[i] /\ c.slot \in Nat
  <2>1. CASE i = n + 1
    <3>1. c = b
      BY <1>8, <2>1 DEF Includes
    <3> QED  BY <1>6, <1>7, <2>1, <3>1
  <2>2. CASE i # n + 1
    <3>1. i \in 1 .. Len(chain) /\ c = chain[i]
      BY <1>8, <2>2 DEF Includes
    <3> QED  BY <1>1, <3>1, BlockKept
  <2> QED  BY <2>1, <2>2
<1>9. Len(chain') = n + 1 /\ n + 1 \in 0 .. Len(TxIds) /\ IsSeq(chain')
  BY HashFacts DEF Includes
<1> QED  BY <1>8, <1>9 DEF ChainOK

\* The new outputs are those of the new block.
LEMMA IncludeLedger ==
  ASSUME AppInv, NEW t, NEW b, NEW n, Includes(t, b, n) PROVE LedgerOK'
<1>1. IsSeq(t.outputs) /\ n + 1 \in 1 .. Len(TxIds)
  BY HashFacts DEF Includes, TxOK
<1>2. Later(n + 1) \subseteq Later(n) /\ TxIds[n + 1] \in Later(n) /\ TxIds[n + 1] \notin Later(n + 1)
  BY <1>1, HashFacts DEF Includes
<1>3. ASSUME NEW u \in ledger'
      PROVE  /\ u.tx \notin Later(n + 1)
             /\ \A j \in 1 .. n + 1 :
                  u.tx = TxIds[j] => /\ u.index + 1 \in DOMAIN chain'[j].outputs
                                     /\ u.owner = chain'[j].outputs[u.index + 1].owner
                                     /\ u.token = chain'[j].outputs[u.index + 1].token
  <2>1. CASE u \in ledger
    <3>1. /\ u.tx \notin Later(n)
          /\ \A j \in 1 .. n :
               u.tx = TxIds[j] => /\ u.index + 1 \in DOMAIN chain[j].outputs
                                  /\ u.owner = chain[j].outputs[u.index + 1].owner
                                  /\ u.token = chain[j].outputs[u.index + 1].token
      BY <2>1 DEF AppInv, LedgerOK, Includes
    <3>2. u.tx # TxIds[n + 1]
      BY <1>2, <3>1
    <3> QED  BY <1>2, <3>1, <3>2 DEF Includes
  <2>2. CASE u \notin ledger
    <3>1. PICK i \in DOMAIN t.outputs :
            u = [tx |-> TxIds[n + 1], index |-> i - 1, owner |-> t.outputs[i].owner,
                 token |-> t.outputs[i].token]
      BY <2>2 DEF Includes, OutputsOf
    <3>2. /\ u.tx = TxIds[n + 1] /\ u.index = i - 1
          /\ u.owner = t.outputs[i].owner /\ u.token = t.outputs[i].token
      BY <3>1
    <3>3. i \in Int
      BY <1>1, AppendFacts
    <3>4. chain'[n + 1] = b /\ b.outputs = t.outputs
      BY DEF Includes
    <3>5. \A j \in 1 .. n + 1 : u.tx = TxIds[j] => j = n + 1
      <4>1. n \in Nat
        BY DEF Includes
      <4> SUFFICES ASSUME NEW j \in 1 .. n + 1, u.tx = TxIds[j] PROVE j = n + 1
        OBVIOUS
      <4>2. j \in 1 .. Len(TxIds) /\ TxIds[j] = TxIds[n + 1]
        BY <1>1, <3>2, <4>1, HashFacts
      <4> QED  BY <1>1, <4>2, HashFacts
    <3> QED  BY <1>2, <3>2, <3>3, <3>4, <3>5
  <2> QED  BY <2>1, <2>2
<1> QED  BY <1>3 DEF LedgerOK, Includes, Later

\* A closing that got into a block spends no older collateral: it was unspent
\* until then, and ignored.
LEMMA IncludeOrphans ==
  ASSUME AppInv, NEW t, NEW b, NEW n, Includes(t, b, n), CollateralQuantity > 0
  PROVE  OrphansAreNew'
<1>1. n \in Nat /\ n + 1 \in 1 .. Len(TxIds) /\ DOMAIN chain = 1 .. n /\ DOMAIN chain' = 1 .. n + 1
  <2>1. IsSeq(chain) /\ IsSeq(chain') /\ Len(chain) = n /\ Len(chain') = n + 1
    BY DEF AppInv, ChainOK, Includes
  <2>2. DOMAIN chain = 1 .. n
    BY <2>1, AppendFacts
  <2>3. DOMAIN chain' = 1 .. n + 1
    <3>1. PICK c : c = chain'
      OBVIOUS
    <3>2. IsSeq(c) /\ Len(c) = n + 1
      BY <2>1, <3>1 DEF IsSeq
    <3> QED  BY <3>1, <3>2, AppendFacts
  <2> QED  BY <2>2, <2>3, HashFacts DEF Includes
<1> SUFFICES ASSUME NEW i \in 1 .. n + 1, NEW j \in 1 .. n + 1, NEW c, c = chain'[i], NEW d, d = chain'[j],
                    c.intent.op = "close", Creates(d), d.hash # c.intent.target,
                    Collateral(d) \in c.inputs
             PROVE  j > c.readAt
  BY <1>1 DEF OrphansAreNew, Creates, Collateral
<1>2. ASSUME i \in 1 .. n, j \in 1 .. n PROVE j > c.readAt
  <2>1. c = chain[i] /\ d = chain[j]
    BY <1>2 DEF Includes
  <2> QED  BY <1>1, <1>2, <2>1 DEF AppInv, OrphansAreNew
<1>3. ASSUME i \in 1 .. n, j = n + 1 PROVE j > c.readAt
  <2>1. c = chain[i]
    BY <1>3 DEF Includes
  <2>2. c.readAt \in 0 .. n
    BY <1>3, <2>1 DEF AppInv, ChainOK, Founded, Includes
  <2> QED  BY <1>1, <1>3, <2>2
<1>4. ASSUME i = n + 1 PROVE j > c.readAt
  <2>1. c = b /\ c.readAt = t.readAt /\ c.intent = t.intent /\ c.inputs = t.inputs
    BY <1>4 DEF Includes
  <2>2. t.readAt \in 0 .. n
    BY DEF Includes, TxOK, Founded
  <2>3. CASE j = n + 1
    BY <1>1, <2>1, <2>2, <2>3
  <2>4. CASE j # n + 1
    <3>1. j \in 1 .. n /\ d = chain[j] /\ d.hash = TxIds[j]
      BY <2>4, <1>1 DEF Includes, AppInv, ChainOK
    <3>2. d.outputs[1] = [owner |-> ProposalsAddress, token |-> CollateralQuantity]
      <4>1. Founded(d, d.inputs, d.slot + Backdate)
        BY <3>1 DEF AppInv, ChainOK, Includes
      <4>2. MeansCreate(d)
        BY <4>1 DEF Creates, Founded, MeansClose, MeansVote
      <4> QED  BY <4>2 DEF MeansCreate
    <3>3. PICK u \in ledger : Ref(u) = Collateral(d)
      BY <2>1 DEF Includes, Refs
    <3>4. u.tx = TxIds[j] /\ u.index = 0
      BY <3>1, <3>3 DEF Ref, Collateral
    <3>5. u.owner = ProposalsAddress /\ u.token = CollateralQuantity
      <4>1. u.owner = d.outputs[1].owner /\ u.token = d.outputs[1].token
        BY <3>1, <3>4 DEF AppInv, LedgerOK, Includes
      <4> QED  BY <3>2, <4>1
    <3> SUFFICES ASSUME j <= t.readAt PROVE FALSE
      BY <1>1, <2>1, <2>2
    <3>6. u.tx \notin Later(t.readAt)
      BY <1>1, <2>2, <3>1, <3>4, HashFacts
    <3>7. u \in Foreign(t)
      BY <2>1, <3>1, <3>4, <3>5, <3>6 DEF Foreign
    <3>8. Refs(Foreign(t)) \cap t.inputs = {}
      BY <2>1 DEF Includes, TxOK
    <3> QED  BY <2>1, <3>3, <3>7, <3>8 DEF Refs
  <2> QED  BY <2>3, <2>4
<1> QED  BY <1>1, <1>2, <1>3, <1>4

\* A transaction that gets into a block keeps the invariant.
LEMMA IncludeKeeps ==
  ASSUME AppInv, NEW t \in mempool, Include(t)
  PROVE  AppInv'
<1>1. PICK b, n : Includes(t, b, n)
  BY IncludeFacts
<1>2. Grows /\ RowsOK
  BY <1>1, IncludeGrows DEF AppInv
<1>3. ChainOK' /\ LedgerOK' /\ (CollateralQuantity > 0 => OrphansAreNew')
  BY <1>1, IncludeChain, IncludeLedger, IncludeOrphans
<1>4. RowsOK'
  BY <1>1 DEF Includes, AppInv, RowsOK
<1>5. CreatedProposalsAreListed' /\ ClosingsTakeEffect' /\ VotesCountInTime'
  <2>1. Indexed' = Indexed
    <3>1. indexed \in 0 .. n /\ indexed' = indexed /\ \A i \in 1 .. n : chain'[i] = chain[i]
      BY <1>1 DEF Includes, AppInv
    <3>2. \A i \in 1 .. indexed : i \in 1 .. n
      BY <1>1, <3>1 DEF Includes
    <3> QED  BY <3>1, <3>2 DEF Indexed
  <2>2. db' = db
    BY <1>1 DEF Includes
  <2> QED  BY <2>1, <2>2 DEF AppInv, CreatedProposalsAreListed, ClosingsTakeEffect, VotesCountInTime
<1>6. \A s \in Sessions : SessionOK(s)' /\ PageOK(s)'
  BY <1>1, <1>2, SessionKept, PageKept DEF AppInv, Includes
<1>7. \A m \in mempool' : TxOK(m)'
  BY <1>1, <1>2, TxKept DEF AppInv, Includes
<1>8. now' \in Nat /\ indexed' \in 0 .. Len(chain') /\ DOMAIN session' = Sessions /\ DOMAIN page' = Sessions
  BY <1>1 DEF AppInv, Includes
<1> QED  BY <1>3, <1>4, <1>5, <1>6, <1>7, <1>8 DEF AppInv
-----------------------------------------------------------------------------
(* What a transaction makes of the tables. *)

Tables == {"block", "tx", "poll", "proposal", "state", "vote"}

Result(d, t) ==
  InsertVotes(ProcessGovernance(InsertBlock(d, [slot |-> t.slot]), Observed(t), t.slot), t, t.slot)

\* The tables but those of blocks and transactions.
SameRows(d, e) ==
  /\ DOMAIN e = Tables
  /\ e.poll = d.poll /\ e.proposal = d.proposal /\ e.state = d.state /\ e.vote = d.vote

\* Neither the row of a block nor that of a transaction touches the others.
LEMMA BlockRows ==
  ASSUME NEW d, DOMAIN d = Tables, NEW b PROVE SameRows(d, InsertBlock(d, b))
BY DEF Tables, SameRows, InsertBlock

LEMMA TransactionRows ==
  ASSUME NEW d, DOMAIN d = Tables, NEW t, NEW slot PROVE SameRows(d, UpsertTransaction(d, t, slot))
BY DEF Tables, SameRows, UpsertTransaction

\* What the aggregator looks at in a transaction.
LEMMA ObservedFields ==
  ASSUME NEW t
  PROVE  /\ Observed(t).hash = t.hash /\ Observed(t).inputs = t.inputs
         /\ Observed(t).signers = t.signers /\ Observed(t).deposit = DepositOf(t)
         /\ Observed(t).manage = ManageOf(t)
BY DEF Observed

\* Without votes only the operation counts.
LEMMA NoVotesRead ==
  ASSUME NEW d, NEW t, t.votes = Undefined PROVE InsertVotes(d, t, t.slot) = d
<1>1. UNION DecodeVotes(t.votes) = {}
  BY NothingRead
<1> QED  BY <1>1 DEF InsertVotes

\* Without an operation only the votes count.
LEMMA NoOperationRead ==
  ASSUME NEW d, NEW t, ManageOf(t) = NoOperation
  PROVE  ProcessGovernance(d, Observed(t), t.slot) = d
<1>1. Observed(t).manage.op = "none"
  BY ObservedFields DEF NoOperation, Operation
<1> QED  BY <1>1 DEF ProcessGovernance

\* The collateral is the first output of a creation, and is found.
LEMMA DepositOfCreate ==
  ASSUME NEW t, MeansCreate(t), IsSeq(t.outputs)
  PROVE  DepositOf(t) = [index |-> 0, quantity |-> CollateralQuantity]
<1> DEFINE paid == {i \in DOMAIN t.outputs : t.outputs[i].owner = ProposalsAddress}
           first == CHOOSE i \in paid : \A j \in paid : i <= j
<1>1. 1 \in paid /\ t.outputs[1].token = CollateralQuantity
  BY DEF MeansCreate
<1>2. \A i \in paid : i \in Nat /\ 1 <= i
  BY AppendFacts
<1>3. first \in paid /\ \A j \in paid : first <= j
  <2> HIDE DEF paid
  <2> QED  BY <1>1, <1>2
<1>4. first = 1
  <2> HIDE DEF first, paid
  <2> QED  BY <1>1, <1>2, <1>3
<1>5. DepositOf(t) = IF paid = {} THEN NoDeposit ELSE [index |-> first - 1, quantity |-> t.outputs[first].token]
  BY DEF DepositOf
<1> HIDE DEF first, paid
<1> QED  BY <1>1, <1>4, <1>5

PollMade(t) == [hash |-> t.hash, slot |-> t.slot, start |-> t.intent.start, end |-> t.intent.end]

ProposalMade(t) == [hash |-> t.hash, slot |-> t.slot, index |-> 0, choices |-> 2, poll |-> t.hash]

\* A creation adds the proposal, its poll and its state,
LEMMA ResultOfCreate ==
  ASSUME NEW d, DOMAIN d = Tables, NEW t, MeansCreate(t), IsSeq(t.outputs), t.intent.start <= t.intent.end
  PROVE  /\ DOMAIN Result(d, t) = Tables
         /\ Result(d, t).poll = d.poll \cup {PollMade(t)}
         /\ Result(d, t).proposal = d.proposal \cup {ProposalMade(t)}
         /\ Result(d, t).state = d.state \cup {StateRow(t.hash, t.hash, t.slot, "AVAILABLE")}
         /\ Result(d, t).vote = d.vote
<1> DEFINE b == InsertBlock(d, [slot |-> t.slot])
           o == Observed(t)
           u == UpsertTransaction(b, o, t.slot)
<1>1. SameRows(d, b)
  BY BlockRows
<1>2. SameRows(d, u)
  <2>1. DOMAIN b = Tables
    BY <1>1 DEF SameRows
  <2> HIDE DEF b, o
  <2>2. SameRows(b, u)
    BY <2>1, TransactionRows
  <2> QED  BY <1>1, <2>2 DEF SameRows
<1>3. /\ o.manage = CreationOf(t) /\ o.hash = t.hash
      /\ o.deposit.index = 0 /\ o.deposit.quantity = CollateralQuantity
  BY ObservedFields, ManageOfCreate, DepositOfCreate
<1> HIDE DEF b, o
<1>4. DepositSuffices(o)
  BY <1>3, TxsAssumption DEF DepositSuffices
<1>5. PollRow(o, t.slot) = PollMade(t) /\ ProposalRow(o, t.slot) = ProposalMade(t)
  BY <1>3 DEF PollRow, PollMade, ProposalRow, ProposalMade, CreationOf
<1>6. ProcessGovernance(b, o, t.slot) = AddProposal(b, o, t.slot)
  BY <1>3 DEF ProcessGovernance, CreationOf
<1>7. o.manage.assigned = NoTx
  BY <1>3 DEF CreationOf
<1> HIDE DEF u
<1>8. AddProposal(b, o, t.slot) =
        [u EXCEPT !.poll = @ \cup {PollMade(t)},
                  !.proposal = @ \cup {ProposalMade(t)},
                  !.state = @ \cup {StateRow(t.hash, t.hash, t.slot, "AVAILABLE")}]
  BY <1>3, <1>4, <1>5, <1>7 DEF AddProposal, PollConnects, u
<1>9. Result(d, t) = AddProposal(b, o, t.slot)
  <2>1. t.votes = Undefined
    BY DEF MeansCreate
  <2>2. Result(d, t) = InsertVotes(ProcessGovernance(b, o, t.slot), t, t.slot)
    BY DEF Result, b, o
  <2> QED  BY <1>6, <2>1, <2>2, NoVotesRead
<1> QED  BY <1>2, <1>8, <1>9 DEF SameRows, Tables

\* unless its dates are not in order.
LEMMA ResultOfNothing ==
  ASSUME NEW d, DOMAIN d = Tables, NEW t, MeansCreate(t), ~(t.intent.start <= t.intent.end)
  PROVE  SameRows(d, Result(d, t))
<1> DEFINE b == InsertBlock(d, [slot |-> t.slot])
<1>1. SameRows(d, b)
  BY BlockRows
<1>2. ManageOf(t) = NoOperation /\ t.votes = Undefined
  BY ManageOfCreate DEF MeansCreate
<1>3. Result(d, t) = InsertVotes(ProcessGovernance(b, Observed(t), t.slot), t, t.slot)
  BY DEF Result
<1> HIDE DEF b
<1> QED  BY <1>1, <1>2, <1>3, NoVotesRead, NoOperationRead

\* A closing adds the state it means,
LEMMA ResultOfClose ==
  ASSUME NEW d, DOMAIN d = Tables, NEW t, MeansClose(t),
         NEW p \in d.proposal, p.hash = t.intent.target,
         [tx |-> p.hash, index |-> p.index] \in t.inputs
  PROVE  /\ DOMAIN Result(d, t) = Tables
         /\ Result(d, t).poll = d.poll /\ Result(d, t).proposal = d.proposal
         /\ Result(d, t).state
              = d.state \cup {StateRow(t.intent.target, t.intent.target, t.slot, t.intent.status)}
         /\ Result(d, t).vote = d.vote
<1> DEFINE b == InsertBlock(d, [slot |-> t.slot])
           o == Observed(t)
           u == UpsertTransaction(b, o, t.slot)
           h == t.intent.target
<1>1. SameRows(d, b)
  BY BlockRows
<1>2. SameRows(d, u)
  <2>1. DOMAIN b = Tables
    BY <1>1 DEF SameRows
  <2> HIDE DEF b, o
  <2>2. SameRows(b, u)
    BY <2>1, TransactionRows
  <2> QED  BY <1>1, <2>2 DEF SameRows
<1>3. o.manage = ClosingOf(t) /\ o.inputs = t.inputs
  BY ObservedFields, ManageOfClose
<1> HIDE DEF b, o
<1>4. /\ o.manage.target = h /\ o.manage.passed = (t.intent.status = "PASSED")
      /\ o.manage.op = IF t.intent.status = "CANCELLED" THEN "cancelProposal" ELSE "concludeProposal"
  BY <1>3 DEF ClosingOf, Operation
<1>5. ProcessGovernance(b, o, t.slot) = CloseProposal(b, o, t.slot, t.intent.status)
  BY <1>4 DEF MeansClose, ProcessGovernance, ConcludeProposal, CancelProposal
<1>6. p \in b.proposal /\ p.hash = o.manage.target /\ Spends(o, p)
  BY <1>1, <1>3, <1>4 DEF SameRows, Spends
<1> HIDE DEF u
<1>7. CloseProposal(b, o, t.slot, t.intent.status) =
        [u EXCEPT !.state = @ \cup {StateRow(h, h, t.slot, t.intent.status)}]
  BY <1>4, <1>6 DEF CloseProposal, ClosesProposal, u
<1>8. Result(d, t) = CloseProposal(b, o, t.slot, t.intent.status)
  <2>1. t.votes = Undefined
    BY DEF MeansClose
  <2>2. Result(d, t) = InsertVotes(ProcessGovernance(b, o, t.slot), t, t.slot)
    BY DEF Result, b, o
  <2> QED  BY <1>5, <2>1, <2>2, NoVotesRead
<1> QED  BY <1>2, <1>7, <1>8 DEF SameRows, Tables

\* The tables e are d with the rows of the vote v in t.
AddsVotes(e, d, t, v, rows) ==
  /\ DOMAIN e = Tables
  /\ e.poll = d.poll /\ e.proposal = d.proposal
  /\ e.state = d.state /\ e.vote = d.vote \cup rows
  /\ rows # {} <=> \E q \in d.poll : q.hash = v.poll /\ InWindow(q, t.slot)
  /\ \A r \in rows :
       /\ r.tx = t.hash /\ r.owner = v.owner /\ r.slot = t.slot
       /\ r.choice = v.choices[r.proposal]
       /\ \E x \in d.proposal : x.hash = r.proposal /\ x.poll = v.poll

\* and a vote its rows, during the poll.
LEMMA ResultOfVote ==
  ASSUME NEW d, DOMAIN d = Tables, NEW t, MeansVote(t), NEW v, v = t.intent.vote,
         NEW p \in d.proposal, p.poll = v.poll, DOMAIN v.choices = {p.hash},
         ChoiceExists(p, v.choices[p.hash])
  PROVE  \E rows : AddsVotes(Result(d, t), d, t, v, rows)
<1> DEFINE b == InsertBlock(d, [slot |-> t.slot])
           o == Observed(t)
           e == [poll |-> v.poll, owner |-> v.owner, power |-> v.power, choices |-> v.choices]
           u == UpsertTransaction(b, o, t.slot)
           inTime == \E q \in d.poll : q.hash = v.poll /\ InWindow(q, t.slot)
<1>1. SameRows(d, b)
  BY BlockRows
<1>2. SameRows(d, u)
  <2>1. DOMAIN b = Tables
    BY <1>1 DEF SameRows
  <2> HIDE DEF b, o
  <2>2. SameRows(b, u)
    BY <2>1, TransactionRows
  <2> QED  BY <1>1, <2>2 DEF SameRows
<1>3. o.hash = t.hash /\ o.signers = {v.owner}
  BY ObservedFields DEF MeansVote
<1>4. Result(d, t) = InsertVotes(b, t, t.slot)
  <2>1. ManageOf(t) = NoOperation
    BY NothingRead DEF MeansVote
  <2> QED  BY <2>1, NoOperationRead DEF Result
<1>5. e.poll = v.poll /\ e.owner = v.owner /\ e.choices = v.choices
  OBVIOUS
<1>6. UNION DecodeVotes(t.votes) = {e}
  <2>1. DecodeVotes(t.votes) = {{e}}
    BY VoteRoundTrip DEF MeansVote
  <2> QED  BY <2>1
<1> HIDE DEF b, o, e
<1>7. Result(d, t) = IF VoteAccepted(b, o, e, t.slot) THEN InsertPollVote(b, o, e, t.slot) ELSE b
  <2>1. (CHOOSE x \in {e} : TRUE) = e
    OBVIOUS
  <2>2. {e} # {}
    OBVIOUS
  <2> QED  BY <1>4, <1>6, <2>1, <2>2 DEF InsertVotes, o
<1>8. VoteAccepted(b, o, e, t.slot) <=> inTime
  BY <1>1, <1>3, <1>5 DEF VoteAccepted, SameRows
<1>9. CASE inTime
  <2> DEFINE rows == RowsOfVote(b, o, e, t.slot)
  <2>1. Result(d, t) = [u EXCEPT !.vote = @ \cup rows]
    BY <1>7, <1>8, <1>9 DEF InsertPollVote
  <2>2. rows # {}
    <3>1. p \in b.proposal /\ p.poll = e.poll /\ p.hash \in DOMAIN e.choices
          /\ ChoiceExists(p, e.choices[p.hash])
      BY <1>1, <1>5 DEF SameRows
    <3> QED  BY <3>1 DEF RowsOfVote
  <2>3. ASSUME NEW r \in rows
        PROVE  /\ r.tx = t.hash /\ r.owner = v.owner /\ r.slot = t.slot
               /\ r.choice = v.choices[r.proposal]
               /\ \E x \in d.proposal : x.hash = r.proposal /\ x.poll = v.poll
    <3>1. PICK x \in b.proposal :
            /\ x.poll = e.poll
            /\ r = [id |-> NextId(b.vote), owner |-> e.owner, proposal |-> x.hash, poll |-> e.poll,
                    choice |-> e.choices[x.hash], power |-> e.power, tx |-> o.hash, slot |-> t.slot,
                    verification |-> "UNVERIFIED"]
      BY <2>3 DEF RowsOfVote
    <3>2. /\ r.tx = o.hash /\ r.owner = e.owner /\ r.slot = t.slot /\ r.proposal = x.hash
          /\ r.choice = e.choices[x.hash]
      BY <3>1
    <3> QED  BY <1>1, <1>3, <1>5, <3>1, <3>2 DEF SameRows
  <2> HIDE DEF rows, u
  <2>4. /\ DOMAIN Result(d, t) = Tables
        /\ Result(d, t).poll = d.poll /\ Result(d, t).proposal = d.proposal
        /\ Result(d, t).state = d.state /\ Result(d, t).vote = d.vote \cup rows
    BY <1>2, <2>1 DEF SameRows, Tables
  <2>5. AddsVotes(Result(d, t), d, t, v, rows)
    BY <1>9, <2>2, <2>3, <2>4 DEF AddsVotes
  <2> QED  BY <2>5
<1>10. CASE ~inTime
  <2>1. SameRows(d, Result(d, t))
    BY <1>1, <1>7, <1>8, <1>10
  <2> DEFINE rows == {}
  <2>2. d.vote = d.vote \cup rows /\ rows = {} /\ \A r : r \notin rows
    OBVIOUS
  <2> HIDE DEF rows
  <2>3. /\ DOMAIN Result(d, t) = Tables
        /\ Result(d, t).poll = d.poll /\ Result(d, t).proposal = d.proposal
        /\ Result(d, t).state = d.state /\ Result(d, t).vote = d.vote \cup rows
    BY <2>1, <2>2 DEF SameRows
  <2>4. AddsVotes(Result(d, t), d, t, v, rows)
    BY <1>10, <2>2, <2>3 DEF AddsVotes
  <2> QED  BY <2>4
<1> QED  BY <1>9, <1>10
-----------------------------------------------------------------------------
(* A block is indexed. *)

\* The rows of t, by what they are to the tables there are.
Adds(t, polls, proposals, states, votes) ==
  /\ DOMAIN db' = Tables
  /\ db'.poll = db.poll \cup polls /\ db'.proposal = db.proposal \cup proposals
  /\ db'.state = db.state \cup states /\ db'.vote = db.vote \cup votes
  /\ \A q \in polls : q.hash = t.hash /\ q.start \in Nat /\ q.end \in Nat
  /\ \A q, r \in polls : q = r
  /\ \A p \in proposals :
       p.hash = t.hash /\ p.choices \in Nat /\ \E q \in polls : q.hash = p.poll
  /\ \A p, r \in proposals : p = r
  /\ \A r \in states : r.status \in {"PASSED", "FAILED"} =>
       /\ r.slot = t.slot
       /\ \E p \in db.proposal, q \in db.poll :
            p.hash = r.proposal /\ q.hash = p.poll /\ q.end < t.slot + Backdate
  /\ \A v \in votes :
       /\ v.tx = t.hash /\ v.slot = t.slot
       /\ \E p \in db.proposal, q \in db.poll :
            p.hash = v.proposal /\ q.hash = p.poll /\ t.slot <= q.end

\* What is owed to the user.
Delivers(t, polls, proposals, states, votes) ==
  /\ Creates(t) =>
       \E p \in proposals, q \in polls :
         /\ p.hash = t.hash /\ p.poll = q.hash /\ p.choices = 2
         /\ q.start = t.intent.start /\ q.end = t.intent.end
         /\ t.outputs[p.index + 1].owner = ProposalsAddress
         /\ t.outputs[p.index + 1].token >= CollateralQuantity
  /\ t.intent.op = "close" =>
       \E r \in states : /\ r.proposal = t.intent.target /\ r.slot = t.slot
                         /\ r.status = t.intent.status
  /\ t.intent.op = "vote" =>
       /\ polls = {}
       /\ votes # {} <=> \E q \in db.poll : q.hash = t.intent.vote.poll /\ InWindow(q, t.slot)
       /\ \A r \in votes : /\ r.owner = t.intent.vote.owner
                           /\ r.choice = t.intent.vote.choices[r.proposal]

\* The rows of a creation,
LEMMA IndexCreation ==
  ASSUME NEW t, NEW d, d = db, DOMAIN d = Tables, db' = Result(d, t),
         MeansCreate(t), IsSeq(t.outputs)
  PROVE  \E polls, proposals, states, votes :
           Adds(t, polls, proposals, states, votes) /\ Delivers(t, polls, proposals, states, votes)
<1>1. /\ t.intent.op = "create" /\ t.intent.start \in Nat /\ t.intent.end \in Nat
      /\ t.outputs[1].owner = ProposalsAddress /\ t.outputs[1].token = CollateralQuantity
  BY DEF MeansCreate
<1>2. CollateralQuantity \in Nat
  BY TxsAssumption
<1>3. CASE t.intent.start <= t.intent.end
  <2> DEFINE q0 == PollMade(t)
             p0 == ProposalMade(t)
             r0 == StateRow(t.hash, t.hash, t.slot, "AVAILABLE")
             none == {}
  <2>1. /\ DOMAIN db' = Tables
        /\ db'.poll = d.poll \cup {q0} /\ db'.proposal = d.proposal \cup {p0}
        /\ db'.state = d.state \cup {r0} /\ db'.vote = d.vote \cup none
    BY <1>3, ResultOfCreate
  <2>2. /\ q0.hash = t.hash /\ q0.start = t.intent.start /\ q0.end = t.intent.end
        /\ p0.hash = t.hash /\ p0.poll = t.hash /\ p0.choices = 2 /\ p0.index = 0
        /\ r0.status = "AVAILABLE"
    BY DEF PollMade, ProposalMade, StateRow
  <2>3. \A v : v \notin none
    OBVIOUS
  <2> HIDE DEF q0, p0, r0, none
  <2>4. Adds(t, {q0}, {p0}, {r0}, none)
    BY <1>1, <2>1, <2>2, <2>3 DEF Adds
  <2>5. Delivers(t, {q0}, {p0}, {r0}, none)
    BY <1>1, <1>2, <2>2 DEF Delivers
  <2> QED  BY <2>4, <2>5
<1>4. CASE ~(t.intent.start <= t.intent.end)
  <2> DEFINE none == {}
  <2>1. SameRows(d, db')
    BY <1>4, ResultOfNothing
  <2>2. none = {} /\ \A v : v \notin none
    OBVIOUS
  <2> HIDE DEF none
  <2>3. Adds(t, none, none, none, none)
    BY <2>1, <2>2 DEF Adds, SameRows
  <2>4. Delivers(t, none, none, none, none)
    BY <1>1, <1>4 DEF Delivers, Creates
  <2> QED  BY <2>3, <2>4
<1> QED  BY <1>3, <1>4

\* of a closing,
LEMMA IndexClosing ==
  ASSUME NEW t, NEW d, d = db, DOMAIN d = Tables, db' = Result(d, t),
         MeansClose(t), ClosesKnown(t, t.inputs, t.slot + Backdate)
  PROVE  \E polls, proposals, states, votes :
           Adds(t, polls, proposals, states, votes) /\ Delivers(t, polls, proposals, states, votes)
<1>1. PICK p \in d.proposal :
        /\ p.hash = t.intent.target
        /\ [tx |-> p.hash, index |-> p.index] \in t.inputs
        /\ t.intent.status # "CANCELLED" => \E q \in d.poll : q.hash = p.poll /\ q.end < t.slot + Backdate
  BY DEF ClosesKnown
<1> DEFINE r0 == StateRow(t.intent.target, t.intent.target, t.slot, t.intent.status)
           none == {}
<1>2. /\ DOMAIN db' = Tables
      /\ db'.poll = d.poll \cup none /\ db'.proposal = d.proposal \cup none
      /\ db'.state = d.state \cup {r0} /\ db'.vote = d.vote \cup none
  BY <1>1, ResultOfClose
<1>3. r0.proposal = t.intent.target /\ r0.slot = t.slot /\ r0.status = t.intent.status
  BY DEF StateRow
<1>4. \A v : v \notin none
  OBVIOUS
<1>5. t.intent.op = "close"
  BY DEF MeansClose
<1> HIDE DEF r0, none
<1>6. Adds(t, none, none, {r0}, none)
  <2>1. r0.status \in {"PASSED", "FAILED"} =>
          \E x \in d.proposal, q \in d.poll :
            x.hash = r0.proposal /\ q.hash = x.poll /\ q.end < t.slot + Backdate
    BY <1>1, <1>3
  <2> QED  BY <1>2, <1>3, <1>4, <2>1 DEF Adds
<1>7. Delivers(t, none, none, {r0}, none)
  BY <1>3, <1>5 DEF Delivers, Creates
<1> QED  BY <1>6, <1>7

\* and of a vote.
LEMMA IndexVote ==
  ASSUME NEW t, NEW d, d = db, DOMAIN d = Tables, db' = Result(d, t),
         MeansVote(t), VotesForKnown(t.intent.vote), t.slot \in Nat, RowsOK
  PROVE  \E polls, proposals, states, votes :
           Adds(t, polls, proposals, states, votes) /\ Delivers(t, polls, proposals, states, votes)
<1>1. PICK v : v = t.intent.vote
  OBVIOUS
<1>2. PICK p \in d.proposal, q \in d.poll :
        /\ p.poll = q.hash /\ v.poll = q.hash /\ DOMAIN v.choices = {p.hash}
        /\ ChoiceExists(p, v.choices[p.hash])
  BY <1>1 DEF VotesForKnown
<1>3. p.poll = v.poll
  BY <1>2
<1>4. \E rows : AddsVotes(Result(d, t), d, t, v, rows)
  BY <1>1, <1>2, <1>3, ResultOfVote
<1>5. PICK rows : AddsVotes(db', d, t, v, rows)
  BY <1>4
<1>6. /\ DOMAIN db' = Tables
      /\ db'.poll = d.poll /\ db'.proposal = d.proposal
      /\ db'.state = d.state /\ db'.vote = d.vote \cup rows
      /\ rows # {} <=> \E x \in d.poll : x.hash = v.poll /\ InWindow(x, t.slot)
      /\ \A r \in rows :
           /\ r.tx = t.hash /\ r.owner = v.owner /\ r.slot = t.slot
           /\ r.choice = v.choices[r.proposal]
           /\ \E x \in d.proposal : x.hash = r.proposal /\ x.poll = v.poll
  BY <1>5 DEF AddsVotes
<1> DEFINE none == {}
<1>7. none = {} /\ \A x : x \notin none
  OBVIOUS
<1>8. t.intent.op = "vote"
  BY DEF MeansVote
<1> HIDE DEF none
<1>9. ASSUME NEW r \in rows
      PROVE  \E x \in d.proposal, y \in d.poll : x.hash = r.proposal /\ y.hash = x.poll /\ t.slot <= y.end
  <2>1. PICK y \in d.poll : y.hash = v.poll /\ InWindow(y, t.slot)
    BY <1>6
  <2> QED  BY <1>6, <2>1 DEF InWindow
<1>10. Adds(t, none, none, none, rows)
  BY <1>6, <1>7, <1>9 DEF Adds
<1>11. Delivers(t, none, none, none, rows)
  BY <1>1, <1>6, <1>7, <1>8 DEF Delivers, Creates
<1> QED  BY <1>10, <1>11

\* The block that is indexed next, and what is said of it.
Indexes(t, n) ==
  /\ n = indexed + 1 /\ n \in 1 .. Len(chain) /\ indexed \in Nat
  /\ n \in 1 .. Len(TxIds) /\ t = chain[n] /\ t.hash = TxIds[n]
  /\ IsSeq(t.outputs) /\ t.slot \in Nat /\ Founded(t, t.inputs, t.slot + Backdate)
  /\ indexed' = n /\ db' = Result(db, t)
  /\ UNCHANGED <<ledger, mempool, chain, now, session, page>>

LEMMA IndexFacts ==
  ASSUME AppInv, Index PROVE \E t, n : Indexes(t, n)
<1>1. PICK n : n = indexed + 1
  OBVIOUS
<1>2. PICK t : t = chain[n]
  OBVIOUS
<1>3. /\ indexed < Len(chain) /\ indexed' = n /\ db' = Result(db, t)
      /\ UNCHANGED <<ledger, mempool, chain, now, session, page>>
  BY <1>1, <1>2 DEF Index, Result, ledgerVars
<1>4. indexed \in Nat /\ Len(chain) \in 0 .. Len(TxIds)
  BY DEF AppInv, ChainOK
<1>5. n \in 1 .. Len(chain) /\ n \in 1 .. Len(TxIds)
  BY <1>1, <1>3, <1>4, HashFacts
<1>6. /\ IsSeq(t.outputs) /\ t.slot \in Nat /\ Founded(t, t.inputs, t.slot + Backdate)
      /\ t.hash = TxIds[n]
  BY <1>2, <1>5 DEF AppInv, ChainOK
<1> QED  BY <1>1, <1>2, <1>3, <1>4, <1>5, <1>6 DEF Indexes

\* Every block adds rows of its own and delivers what is owed.
LEMMA IndexAdds ==
  ASSUME AppInv, NEW t, NEW n, Indexes(t, n)
  PROVE  \E polls, proposals, states, votes :
           Adds(t, polls, proposals, states, votes) /\ Delivers(t, polls, proposals, states, votes)
<1>1. PICK d : d = db
  OBVIOUS
<1>2. /\ DOMAIN d = Tables /\ db' = Result(d, t) /\ IsSeq(t.outputs) /\ t.slot \in Nat /\ RowsOK
  BY <1>1 DEF AppInv, RowsOK, Tables, Indexes
<1>3. CASE MeansCreate(t)
  BY <1>1, <1>2, <1>3, IndexCreation
<1>4. CASE MeansClose(t) /\ ClosesKnown(t, t.inputs, t.slot + Backdate)
  BY <1>1, <1>2, <1>4, IndexClosing
<1>5. CASE MeansVote(t) /\ VotesForKnown(t.intent.vote)
  BY <1>1, <1>2, <1>5, IndexVote
<1> QED  BY <1>3, <1>4, <1>5 DEF Indexes, Founded

\* The hash of the new block is that of no row there was.
LEMMA NewHash ==
  ASSUME AppInv, NEW t, NEW n, Indexes(t, n)
  PROVE  /\ \A i \in 1 .. indexed : TxIds[i] # t.hash
         /\ \A i \in 1 .. indexed : i \in 1 .. n
         /\ n \in 1 .. n /\ t.hash = TxIds[n]
         /\ \A q \in db.poll \cup db.proposal : q.hash # t.hash
         /\ \A v \in db.vote : v.tx # t.hash
<1>1. n = indexed + 1 /\ indexed \in Nat /\ n \in 1 .. Len(TxIds) /\ t.hash = TxIds[n]
  BY DEF Indexes
<1>2. ASSUME NEW i \in 1 .. indexed PROVE TxIds[i] # t.hash /\ i \in 1 .. n
  BY <1>1, HashFacts
<1>3. RowsOK
  BY DEF AppInv
<1>4. \A q \in db.poll \cup db.proposal : q.hash # t.hash
  BY <1>2, <1>3 DEF RowsOK
<1>5. \A v \in db.vote : v.tx # t.hash
  BY <1>2, <1>3 DEF RowsOK
<1>6. n \in 1 .. n
  BY <1>1
<1> QED  BY <1>1, <1>2, <1>4, <1>5, <1>6

\* With such rows the tables are again as they should be.
LEMMA IndexRows ==
  ASSUME AppInv, NEW t, NEW n, Indexes(t, n),
         NEW polls, NEW proposals, NEW states, NEW votes, Adds(t, polls, proposals, states, votes)
  PROVE  RowsOK'
<1>1. RowsOK /\ indexed' = n /\ t.slot \in Nat
  BY DEF AppInv, Indexes
<1>2. DOMAIN db' = {"block", "tx", "poll", "proposal", "state", "vote"}
  BY DEF Adds, Tables
<1>3. \A q \in db'.poll : q.start \in Nat /\ q.end \in Nat
  BY <1>1 DEF Adds, RowsOK
<1>4. \A q \in db'.poll \cup db'.proposal : \E i \in 1 .. n : q.hash = TxIds[i]
  <2>1. \A q \in db.poll \cup db.proposal : \E i \in 1 .. n : q.hash = TxIds[i]
    BY <1>1, NewHash DEF RowsOK
  <2>2. \A q \in polls \cup proposals : q.hash = TxIds[n]
    BY NewHash DEF Adds
  <2> QED  BY <2>1, <2>2, NewHash DEF Adds
<1>5. \A q, r \in db'.poll : q.hash = r.hash => q = r
  BY <1>1, NewHash DEF Adds, RowsOK
<1>6. \A p, r \in db'.proposal : p.hash = r.hash => p = r
  BY <1>1, NewHash DEF Adds, RowsOK
<1>7. \A p \in db'.proposal : p.choices \in Nat /\ \E q \in db'.poll : q.hash = p.poll
  BY <1>1 DEF Adds, RowsOK
<1>8. db.poll \subseteq db'.poll /\ db.proposal \subseteq db'.proposal
  BY DEF Adds
<1>9. ASSUME NEW v \in db'.vote
      PROVE  /\ \E i \in 1 .. n : v.tx = TxIds[i]
             /\ v.slot \in Nat
             /\ \E p \in db'.proposal, q \in db'.poll :
                  p.hash = v.proposal /\ q.hash = p.poll /\ v.slot <= q.end
  <2>1. CASE v \in db.vote
    BY <1>1, <1>8, <2>1, NewHash DEF RowsOK
  <2>2. CASE v \in votes
    BY <1>1, <1>8, <2>2, NewHash DEF Adds
  <2> QED  BY <1>9, <2>1, <2>2 DEF Adds
<1>10. ASSUME NEW r \in db'.state, r.status \in {"PASSED", "FAILED"}
       PROVE  /\ r.slot \in Nat
              /\ \E p \in db'.proposal, q \in db'.poll :
                   p.hash = r.proposal /\ q.hash = p.poll /\ q.end < r.slot + Backdate
  <2>1. CASE r \in db.state
    BY <1>1, <1>8, <1>10, <2>1 DEF RowsOK
  <2>2. CASE r \in states
    BY <1>1, <1>8, <1>10, <2>2 DEF Adds
  <2> QED  BY <1>10, <2>1, <2>2 DEF Adds
<1> QED  BY <1>1, <1>2, <1>3, <1>4, <1>5, <1>6, <1>7, <1>9, <1>10 DEF RowsOK

\* What was indexed, and the new block.
LEMMA IndexedGrows ==
  ASSUME AppInv, NEW t, NEW n, Indexes(t, n)
  PROVE  /\ Indexed' = Indexed \cup {t}
         /\ \A x \in Indexed : x.hash # t.hash /\ Founded(x, x.inputs, x.slot + Backdate)
<1>1. n = indexed + 1 /\ indexed \in Nat /\ n \in 1 .. Len(chain) /\ t = chain[n]
      /\ indexed' = n /\ chain' = chain
  BY DEF Indexes
<1>2. 1 .. n = 1 .. indexed \cup {n}
  BY <1>1
<1>3. Indexed' = Indexed \cup {t}
  BY <1>1, <1>2 DEF Indexed
<1>4. ASSUME NEW i \in 1 .. indexed, NEW x, x = chain[i]
      PROVE  x.hash # t.hash /\ Founded(x, x.inputs, x.slot + Backdate)
  <2>1. i \in 1 .. Len(chain)
    BY <1>1 DEF AppInv, ChainOK
  <2>2. x.hash = TxIds[i] /\ Founded(x, x.inputs, x.slot + Backdate)
    BY <1>4, <2>1 DEF AppInv, ChainOK
  <2> QED  BY <2>2, NewHash
<1> QED  BY <1>3, <1>4 DEF Indexed

\* Nothing is taken from the tables, and the new block has what it is owed.
LEMMA IndexDelivers ==
  ASSUME AppInv, NEW t, NEW n, Indexes(t, n),
         NEW polls, NEW proposals, NEW states, NEW votes, Adds(t, polls, proposals, states, votes),
         Delivers(t, polls, proposals, states, votes)
  PROVE  CreatedProposalsAreListed' /\ ClosingsTakeEffect'
<1>1. /\ db.poll \subseteq db'.poll /\ db.proposal \subseteq db'.proposal
      /\ db.state \subseteq db'.state
      /\ polls \subseteq db'.poll /\ proposals \subseteq db'.proposal /\ states \subseteq db'.state
  BY DEF Adds
<1>2. Indexed' = Indexed \cup {t}
  BY IndexedGrows
<1>3. ASSUME NEW x \in Indexed', Creates(x)
      PROVE  \E p \in db'.proposal, q \in db'.poll :
               /\ p.hash = x.hash /\ p.poll = q.hash /\ p.choices = 2
               /\ q.start = x.intent.start /\ q.end = x.intent.end
               /\ x.outputs[p.index + 1].owner = ProposalsAddress
               /\ x.outputs[p.index + 1].token >= CollateralQuantity
  <2>1. CASE x \in Indexed
    BY <1>1, <1>3, <2>1 DEF AppInv, CreatedProposalsAreListed
  <2>2. CASE x = t
    BY <1>1, <1>3, <2>2 DEF Delivers
  <2> QED  BY <1>2, <2>1, <2>2
<1>4. ASSUME NEW x \in Indexed', x.intent.op = "close"
      PROVE  \E r \in db'.state : /\ r.proposal = x.intent.target /\ r.slot = x.slot
                                  /\ r.status = x.intent.status
  <2>1. CASE x \in Indexed
    BY <1>1, <1>4, <2>1 DEF AppInv, ClosingsTakeEffect
  <2>2. CASE x = t
    BY <1>1, <1>4, <2>2 DEF Delivers
  <2> QED  BY <1>2, <2>1, <2>2
<1> QED  BY <1>3, <1>4 DEF CreatedProposalsAreListed, ClosingsTakeEffect, Creates

\* The new rows are those of the new block, so an older vote counts as before:
\* its poll was there already.
LEMMA IndexVotes ==
  ASSUME AppInv, NEW t, NEW n, Indexes(t, n),
         NEW polls, NEW proposals, NEW states, NEW votes, Adds(t, polls, proposals, states, votes),
         Delivers(t, polls, proposals, states, votes)
  PROVE  VotesCountInTime'
<1>1. Indexed' = Indexed \cup {t}
  BY IndexedGrows
<1>2. ASSUME NEW x \in Indexed', x.intent.op = "vote", NEW v, v = x.intent.vote
      PROVE  /\ (\E q \in db'.poll : q.hash = v.poll /\ InWindow(q, x.slot))
                  <=> {r \in db'.vote : r.tx = x.hash} # {}
             /\ \A r \in db'.vote : r.tx = x.hash =>
                  r.owner = v.owner /\ r.choice = v.choices[r.proposal]
  <2>1. CASE x \in Indexed
    <3>1. x.hash # t.hash /\ Founded(x, x.inputs, x.slot + Backdate)
      BY <2>1, IndexedGrows
    <3>2. VotesForKnown(v)
      BY <1>2, <3>1 DEF Founded, MeansCreate, MeansClose
    <3>3. v.poll # t.hash
      BY <3>2, NewHash DEF VotesForKnown
    <3>4. \A q \in db'.poll : q.hash = v.poll <=> q \in db.poll /\ q.hash = v.poll
      BY <3>3 DEF Adds
    <3>5. \A r \in db'.vote : r.tx = x.hash <=> r \in db.vote /\ r.tx = x.hash
      BY <3>1 DEF Adds
    <3>6. db.poll \subseteq db'.poll /\ db.vote \subseteq db'.vote
      BY DEF Adds
    <3>7. /\ (\E q \in db.poll : q.hash = v.poll /\ InWindow(q, x.slot))
                  <=> {r \in db.vote : r.tx = x.hash} # {}
          /\ \A r \in {y \in db.vote : y.tx = x.hash} :
                  r.owner = v.owner /\ r.choice = v.choices[r.proposal]
      BY <1>2, <2>1 DEF AppInv, VotesCountInTime
    <3>8. {r \in db'.vote : r.tx = x.hash} = {r \in db.vote : r.tx = x.hash}
      BY <3>5, <3>6
    <3>9. (\E q \in db'.poll : q.hash = v.poll /\ InWindow(q, x.slot))
             <=> \E q \in db.poll : q.hash = v.poll /\ InWindow(q, x.slot)
      BY <3>4, <3>6
    <3> QED  BY <3>5, <3>7, <3>8, <3>9
  <2>2. CASE x = t
    <3>1. /\ db'.poll = db.poll
          /\ votes # {} <=> \E q \in db.poll : q.hash = v.poll /\ InWindow(q, x.slot)
          /\ \A r \in votes : r.owner = v.owner /\ r.choice = v.choices[r.proposal]
      BY <1>2, <2>2 DEF Adds, Delivers
    <3>2. {r \in db'.vote : r.tx = x.hash} = votes
      BY <2>2, NewHash DEF Adds
    <3> QED  BY <3>1, <3>2
  <2> QED  BY <1>1, <2>1, <2>2
<1> QED  BY <1>2 DEF VotesCountInTime, InWindow

\* Indexing a block keeps the invariant.
LEMMA IndexKeeps ==
  ASSUME AppInv, Index PROVE AppInv'
<1>1. PICK t, n : Indexes(t, n)
  BY IndexFacts
<1>2. PICK polls, proposals, states, votes :
        Adds(t, polls, proposals, states, votes) /\ Delivers(t, polls, proposals, states, votes)
  BY <1>1, IndexAdds
<1>3. RowsOK' /\ CreatedProposalsAreListed' /\ ClosingsTakeEffect' /\ VotesCountInTime'
  BY <1>1, <1>2, IndexRows, IndexDelivers, IndexVotes
<1>4. /\ n \in 1 .. Len(chain) /\ indexed' = n
      /\ UNCHANGED <<ledger, mempool, chain, now, session, page>>
  BY <1>1 DEF Indexes
<1>5. Len(chain) \in Nat /\ now \in Nat /\ RowsOK /\ ChainOK
  BY DEF AppInv, ChainOK
<1>6. Grows
  BY <1>2, <1>4, <1>5 DEF Grows, Adds
<1>7. ChainOK'
  <2>1. ASSUME NEW i \in 1 .. Len(chain), NEW c, c = chain[i]
        PROVE  /\ Founded(c, c.inputs, c.slot + Backdate)' /\ IsSeq(c.outputs)
               /\ c.hash = TxIds[i] /\ c.slot \in Nat
    BY <1>5, <1>6, <2>1, BlockKept
  <2> QED  BY <1>4, <1>5, <2>1 DEF ChainOK
<1>8. LedgerOK' /\ (CollateralQuantity > 0 => OrphansAreNew')
  BY <1>4 DEF AppInv, LedgerOK, OrphansAreNew
<1>9. \A s \in Sessions : SessionOK(s)' /\ PageOK(s)'
  BY <1>4, <1>5, <1>6, SessionKept, PageKept DEF AppInv
<1>10. \A m \in mempool' : TxOK(m)'
  BY <1>4, <1>5, <1>6, TxKept DEF AppInv
<1>11. now' \in Nat /\ indexed' \in 0 .. Len(chain') /\ DOMAIN session' = Sessions /\ DOMAIN page' = Sessions
  BY <1>4, <1>5 DEF AppInv
<1> QED  BY <1>3, <1>7, <1>8, <1>9, <1>10, <1>11 DEF AppInv
-----------------------------------------------------------------------------
(* The theorems. *)

\* The invariant holds at the start,
LEMMA InitOK == Init => AppInv
<1> SUFFICES ASSUME Init PROVE AppInv
  OBVIOUS
<1>1. /\ ledger = Genesis /\ mempool = {} /\ chain = <<>> /\ indexed = 0 /\ db = EmptyDb /\ now = 0
      /\ session = [s \in Sessions |-> Idle([utxos |-> {u \in Genesis : u.owner = WalletOf[s]}, at |-> 0])]
      /\ page = [s \in Sessions |-> {}]
  BY DEF Init
<1>2. Len(chain) = 0 /\ DOMAIN chain = {} /\ IsSeq(chain)
  <2>1. Len(<<>>) = 0 /\ DOMAIN <<>> = {}
    OBVIOUS
  <2>2. IsSeq(<<>>)
    BY ShortSequences
  <2> QED  BY <1>1, <2>1, <2>2 DEF IsSeq
<1>3. ChainOK
  BY <1>2, HashFacts DEF ChainOK
<1>4. LedgerOK
  BY <1>1, <1>2, HashFacts DEF LedgerOK
<1>5. /\ db.poll = {} /\ db.proposal = {} /\ db.state = {} /\ db.vote = {}
      /\ DOMAIN db = {"block", "tx", "poll", "proposal", "state", "vote"}
  BY <1>1 DEF EmptyDb
<1>6. RowsOK
  BY <1>5 DEF RowsOK
<1>7. ASSUME NEW s \in Sessions PROVE SessionOK(s) /\ PageOK(s)
  <2>1. PICK r : r = [utxos |-> {u \in Genesis : u.owner = WalletOf[s]}, at |-> 0]
    OBVIOUS
  <2>2. PICK e : e = Idle(r)
    OBVIOUS
  <2>3. session[s] = e /\ page[s] = {}
    BY <1>1, <2>1, <2>2
  <2>4. r.at = 0 /\ \A u \in Genesis : u.owner = WalletOf[s] => u \in r.utxos
    BY <2>1
  <2>5. ReadingOK(s, r)
    BY <1>1, <1>2, <2>4 DEF ReadingOK
  <2>6. e.pc = "idle" /\ e.cache = r
    BY <2>2 DEF Idle
  <2>7. StateOK(s, e)
    BY <2>5, <2>6 DEF StateOK, PlansOf, BuiltBy
  <2> QED  BY <2>3, <2>7 DEF SessionOK, PageOK
<1>8. Indexed = {}
  BY <1>1 DEF Indexed
<1>9. CreatedProposalsAreListed /\ ClosingsTakeEffect /\ VotesCountInTime /\ OrphansAreNew
  BY <1>2, <1>8 DEF CreatedProposalsAreListed, ClosingsTakeEffect, VotesCountInTime, OrphansAreNew
<1>10. /\ now \in Nat /\ indexed \in 0 .. Len(chain)
       /\ DOMAIN session = Sessions /\ DOMAIN page = Sessions /\ \A m \in mempool : TxOK(m)
  BY <1>1, <1>2
<1> QED  BY <1>3, <1>4, <1>6, <1>7, <1>9, <1>10 DEF AppInv

\* when nothing happens,
LEMMA StutterKeeps == ASSUME AppInv, UNCHANGED vars PROVE AppInv'
<1>1. /\ UNCHANGED <<ledger, chain, indexed, db, now>> /\ mempool' = mempool
      /\ session' = session /\ page' = page
  BY DEF vars, ledgerVars
<1>2. WorldOK /\ WorldOK' /\ Grows /\ RowsOK
  BY <1>1, AppParts, WorldUnchanged, UnchangedGrows DEF WorldOK
<1>3. \A s \in Sessions : SessionOK(s)' /\ PageOK(s)'
  BY <1>1, <1>2, SessionKept, PageKept DEF AppInv
<1>4. \A m \in mempool' : TxOK(m)'
  BY <1>1, <1>2, TxKept DEF AppInv
<1>5. DOMAIN session' = Sessions /\ DOMAIN page' = Sessions
  BY <1>1 DEF AppInv
<1> QED  BY <1>2, <1>3, <1>4, <1>5 DEF AppInv, WorldOK

\* and after every step.
LEMMA NextKeeps == AppInv /\ [Next]_vars => AppInv'
<1> SUFFICES ASSUME AppInv, [Next]_vars PROVE AppInv'
  OBVIOUS
<1>1. ASSUME NEW s \in Sessions, Act(s) PROVE AppInv'
  BY <1>1, ActKeeps
<1>2. ASSUME NEW s \in Sessions, Refresh(s) PROVE AppInv'
  BY <1>2, RefreshKeeps
<1>3. ASSUME NEW t \in mempool, Include(t) PROVE AppInv'
  BY <1>3, IncludeKeeps
<1>4. CASE Tick
  BY <1>4, TickKeeps
<1>5. CASE Index
  BY <1>5, IndexKeeps
<1>6. CASE UNCHANGED vars
  BY <1>6, StutterKeeps
<1> QED  BY <1>1, <1>2, <1>3, <1>4, <1>5, <1>6 DEF Next

(***************************************************************************)
(* Whatever sessions, the ledger and the aggregator do, and in whichever   *)
(* order, the invariant holds: what is planned, built, submitted and in a  *)
(* block rests on rows of the database, for any number of wallets, UTxOs,  *)
(* poll dates and transactions.                                            *)
(***************************************************************************)
THEOREM AppInvariance == Spec => []AppInv
<1> QED  BY InitOK, NextKeeps, PTL DEF Spec

(***************************************************************************)
(* A proposal made in the form whose dates are in order is listed once its *)
(* transaction is indexed, with the poll filled in and the output that has *)
(* the collateral.                                                         *)
(***************************************************************************)
THEOREM ProposalsListed == Spec => []CreatedProposalsAreListed
<1>1. AppInv => CreatedProposalsAreListed
  BY DEF AppInv
<1> QED  BY <1>1, AppInvariance, PTL

(***************************************************************************)
(* A cancellation or conclusion that got into a block takes effect when it *)
(* is indexed, from whichever reading of the wallet and however old the    *)
(* page it was made on.                                                    *)
(***************************************************************************)
THEOREM ClosingsCorrect == Spec => []ClosingsTakeEffect
<1>1. AppInv => ClosingsTakeEffect
  BY DEF AppInv
<1> QED  BY <1>1, AppInvariance, PTL

(***************************************************************************)
(* A vote counts exactly if its block is in time, with the choice made on  *)
(* the page.                                                               *)
(***************************************************************************)
THEOREM VotesInTime == Spec => []VotesCountInTime
<1>1. AppInv => VotesCountInTime
  BY DEF AppInv
<1> QED  BY <1>1, AppInvariance, PTL

(***************************************************************************)
(* However wrong the clocks of the pages, a conclusion is in a block less  *)
(* than Backdate before the end of its poll, or after it.                  *)
(***************************************************************************)
THEOREM ConclusionsCorrect == Spec => []ConclusionsNearEnd
<1>1. AppInv => ConclusionsNearEnd
  <2> SUFFICES ASSUME AppInv, NEW r \in db.state, NEW p \in db.proposal, NEW q \in db.poll,
                      r.status \in {"PASSED", "FAILED"}, r.proposal = p.hash, p.poll = q.hash
               PROVE  q.end < r.slot + Backdate
    BY DEF ConclusionsNearEnd
  <2>1. RowsOK
    BY DEF AppInv
  <2>2. PICK x \in db.proposal, y \in db.poll :
          x.hash = r.proposal /\ y.hash = x.poll /\ y.end < r.slot + Backdate
    BY <2>1 DEF RowsOK
  <2>3. x = p
    BY <2>1, <2>2 DEF RowsOK
  <2>4. y = q
    BY <2>1, <2>2, <2>3 DEF RowsOK
  <2> QED  BY <2>2, <2>4
<1> QED  BY <1>1, AppInvariance, PTL

(***************************************************************************)
(* If there is a collateral at all, a closing spends that of no other      *)
(* proposal that was there when the wallet was first read.  The backend's  *)
(* configuration allows a collateral of 0, and an output without tokens is *)
(* not kept out of the transaction.                                        *)
(***************************************************************************)
THEOREM OrphansCorrect ==
  ASSUME CollateralQuantity > 0 PROVE Spec => []OrphansAreNew
<1>1. AppInv => OrphansAreNew
  BY DEF AppInv
<1> QED  BY <1>1, AppInvariance, PTL
=============================================================================
