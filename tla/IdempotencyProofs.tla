------------------------- MODULE IdempotencyProofs --------------------------
(***************************************************************************)
(* Theorems about Idempotency, for every set of requests, keys and bodies  *)
(* and every number of crashes.                                            *)
(*                                                                         *)
(* The inductive invariant says of every record that the request it names  *)
(* has reached it, and was or will be told what it says; of every replayed *)
(* answer that it is that of the first record of its key, whose request is *)
(* over; and of every two requests of one key that got past the middleware *)
(* why both of them did.                                                   *)
(***************************************************************************)
EXTENDS Idempotency, TLAPS

RecordType ==
    [ key : Keys, body : Bodies,
      response : [ status : { "created", "refused" }, by : Requests ] ]

Busy == { "handling", "recorded" }

Over == { "answered", "lost" }

Past == { "recorded" } \union Over

Places == { "unsent", "handling", "awaiting" } \union Past

Types ==
    /\ records \in Seq(RecordType)
    /\ written \in [ Requests -> Nat ]
    /\ pc \in [ Requests -> Places ]
    /\ answer \in [ Requests -> Answers \union {None} ]

\* The thread belongs to the request in the synchronous part of its handler.
ThreadHeld == \A r \in Requests : thread = r <=> pc[r] \in Busy

\* A record and the request that wrote it.
Owned(record) ==
    /\ record.key = KeyOf[record.response.by]
    /\ record.body = BodyOf[record.response.by]
    /\ pc[record.response.by] \in Past
    /\ record.response.status = "created" =>
         written[record.response.by] = Writes[KeyOf[record.response.by]]
    /\ answer[record.response.by] # None =>
         answer[record.response.by].status = record.response.status

\* Only the last record may be that of a request that is not yet answered.
RecordsOwned ==
    \A n \in 1..Len(records) :
        /\ Owned(records[n])
        /\ pc[records[n].response.by] = "recorded" => n = Len(records)

FirstOf(key) ==
    { n \in 1..Len(records) : /\ records[n].key = key
                              /\ \A m \in 1..n - 1 : records[m].key # key }

Recorded(key) == \E n \in 1..Len(records) : records[n].key = key

\* Where there is a record of a key there is a first one.
FirstsExist == \A key \in Keys : Recorded(key) => FirstOf(key) # {}

\* Where a request is, and what it has written and recorded by then.
Placed(r) ==
    /\ pc[r] = "unsent" => written[r] = 0
    /\ pc[r] = "recorded" => /\ Len(records) > 0
                             /\ records[Len(records)].response.by = r
    /\ pc[r] = "answered" <=> answer[r] # None
    /\ (pc[r] = "answered" /\ ~Failed(r)) => Recorded(KeyOf[r])

Replayed(r) ==
    (answer[r] # None /\ answer[r].replayed) =>
        /\ Same(r, answer[r].by)
        /\ r # answer[r].by
        /\ written[r] = 0
        /\ pc[answer[r].by] \in Over
        /\ answer[answer[r].by] # None => answer[answer[r].by].status = answer[r].status
        /\ answer[r].status = "created" =>
             written[answer[r].by] = Writes[KeyOf[answer[r].by]]
        /\ \E n \in FirstOf(KeyOf[r]) : records[n].response.by = answer[r].by

Live(r) == Open(r) \/ written[r] > 0

Excused(r, s) ==
    \/ Failed(r) \/ Failed(s)
    \/ "lost" \in { pc[r], pc[s] }
    \/ { r, s } \in together

PairsExcused ==
    \A r, s \in Requests :
        (Live(r) /\ Live(s) /\ KeyOf[r] = KeyOf[s] /\ r # s) => Excused(r, s)

IInv ==
    /\ Types
    /\ ThreadHeld
    /\ RecordsOwned
    /\ FirstsExist
    /\ \A r \in Requests : Placed(r)
    /\ \A r \in Requests : Replayed(r)
    /\ PairsExcused

-----------------------------------------------------------------------------
LEMMA FoundIsFirst ==
    ASSUME NEW r
    PROVE  Found(r) = FirstOf(KeyOf[r])
BY DEF Found, FirstOf

LEMMA Sent ==
    ASSUME Types, NEW r \in Requests, NEW response, NEW replayed \in BOOLEAN,
           response.status \in { "created", "refused", "conflict", "error" },
           response.by \in Requests, Send(r, response, replayed)
    PROVE  /\ answer' \in [ Requests -> Answers \union {None} ]
           /\ answer'[r] # None
           /\ answer'[r].status = response.status
           /\ answer'[r].by = response.by
           /\ answer'[r].replayed = replayed
           /\ \A s \in Requests \ {r} : answer'[s] = answer[s]
<1> DEFINE sent == [ status |-> response.status, by |-> response.by, replayed |-> replayed ]
<1>1. sent \in Answers
    BY DEF Answers
<1>2. sent # None
    BY <1>1, RequestAssumption
<1>3. /\ sent.status = response.status
      /\ sent.by = response.by
      /\ sent.replayed = replayed
    OBVIOUS
<1>4. answer' = [ answer EXCEPT ![r] = sent ]
    BY DEF Send
<1> HIDE DEF sent
<1>5. QED
    BY <1>1, <1>2, <1>3, <1>4 DEF Types

\* Once appended to, the sequence of records has the first records it had, and one
\* of the new key.
LEMMA Kept ==
    ASSUME Types, FirstsExist, NEW r \in Requests, NEW status \in { "created", "refused" },
           Keep(r, status)
    PROVE  /\ records' \in Seq(RecordType)
           /\ Len(records') = Len(records) + 1
           /\ Len(records) \in Nat
           /\ \A n \in 1..Len(records) : records'[n] = records[n]
           /\ records'[Len(records')].key = KeyOf[r]
           /\ records'[Len(records')].body = BodyOf[r]
           /\ records'[Len(records')].response.by = r
           /\ records'[Len(records')].response.status = status
           /\ \A key \in Keys : FirstOf(key) \subseteq FirstOf(key)'
           /\ FirstsExist'
<1> DEFINE record == [ key |-> KeyOf[r], body |-> BodyOf[r],
                       response |-> [ status |-> status, by |-> r ] ]
<1>1. record \in RecordType
    BY RequestAssumption DEF RecordType
<1>2. records' = Append(records, record)
    BY DEF Keep, Response
<1>3. /\ record.key = KeyOf[r]
      /\ record.body = BodyOf[r]
      /\ record.response.by = r
      /\ record.response.status = status
    OBVIOUS
<1> HIDE DEF record
<1>4. /\ records' \in Seq(RecordType)
      /\ Len(records') = Len(records) + 1
      /\ Len(records) \in Nat
      /\ \A n \in 1..Len(records) : records'[n] = records[n]
      /\ records'[Len(records')] = record
    BY <1>1, <1>2 DEF Types
<1>5. \A key \in Keys : FirstOf(key) \subseteq FirstOf(key)'
    BY <1>4 DEF FirstOf
<1>6. FirstsExist'
    <2>1. SUFFICES ASSUME NEW key \in Keys, Recorded(key)' PROVE FirstOf(key)' # {}
        BY DEF FirstsExist
    <2>2. CASE Recorded(key)
        BY <1>5, <2>2 DEF FirstsExist
    <2>3. CASE ~Recorded(key)
        <3>1. Len(records') \in FirstOf(key)'
            BY <1>4, <2>1, <2>3 DEF Recorded, FirstOf
        <3>2. QED
            BY <3>1
    <2>4. QED
        BY <2>2, <2>3
<1>7. QED
    BY <1>3, <1>4, <1>5, <1>6

\* A request that stands still, and whose key keeps a record if it has one.
LEMMA PlacedFrame ==
    ASSUME NEW s \in Requests, Placed(s), pc'[s] = pc[s], answer'[s] = answer[s],
           written'[s] = written[s],
           pc[s] = "recorded" => records' = records,
           Recorded(KeyOf[s]) => Recorded(KeyOf[s])'
    PROVE  Placed(s)'
BY DEF Placed, Failed

\* Records stay those of requests that are past their record.
LEMMA OwnedFrame ==
    ASSUME NEW record \in RecordType, Owned(record),
           pc'[record.response.by] \in Past,
           written'[record.response.by] = written[record.response.by],
           answer'[record.response.by] = answer[record.response.by]
    PROVE  Owned(record)'
BY DEF Owned

\* A replayed answer stays what it is while requests that are over stand still.
LEMMA ReplayedFrame ==
    ASSUME NEW s \in Requests, Replayed(s), answer'[s] = answer[s],
           written'[s] = written[s],
           answer[s] # None => answer[s].by \in Requests,
           \A t \in Requests : pc[t] \in Over => /\ pc'[t] = pc[t]
                                                /\ written'[t] = written[t]
                                                /\ answer'[t] = answer[t],
           \A n \in FirstOf(KeyOf[s]) : n \in FirstOf(KeyOf[s])' /\ records'[n] = records[n]
    PROVE  Replayed(s)'
BY DEF Replayed, Same

LEMMA AnswersName ==
    ASSUME Types, NEW s \in Requests, answer[s] # None
    PROVE  answer[s].by \in Requests
BY DEF Types, Answers

LEMMA InitIInv == Init => IInv
<1> SUFFICES ASSUME Init PROVE IInv
    OBVIOUS
<1>1. records = << >> /\ Len(records) = 0
    BY DEF Init
<1>2. Types
    BY DEF Init, Types, Places
<1>3. ThreadHeld
    BY RequestAssumption DEF Init, ThreadHeld, Busy
<1>4. RecordsOwned /\ FirstsExist
    BY <1>1 DEF RecordsOwned, FirstsExist, Recorded
<1>5. \A r \in Requests : Placed(r) /\ Replayed(r) /\ ~Live(r)
    BY DEF Init, Placed, Replayed, Live, Open
<1>6. QED
    BY <1>2, <1>3, <1>4, <1>5 DEF IInv, PairsExcused

\* The middleware answers request r itself.
LEMMA MiddlewareAnswersIInv ==
    ASSUME IInv, NEW r \in Requests, Reused(r) \/ Replay(r)
    PROVE  IInv'
<1>1. /\ thread = None
      /\ pc[r] = "unsent"
      /\ pc' = [ pc EXCEPT ![r] = "answered" ]
      /\ records' = records
      /\ written' = written
      /\ thread' = thread
      /\ together' = together
    BY DEF Reused, Replay, Goto
<1>2. \E n \in FirstOf(KeyOf[r]) :
        \/ Send(r, Response("conflict", r), FALSE)
        \/ records[n].body = BodyOf[r] /\ Send(r, records[n].response, TRUE)
    BY FoundIsFirst DEF Reused, Replay
<1> PICK n \in FirstOf(KeyOf[r]) :
        \/ Send(r, Response("conflict", r), FALSE)
        \/ records[n].body = BodyOf[r] /\ Send(r, records[n].response, TRUE)
    BY <1>2
<1>3. /\ n \in 1..Len(records)
      /\ records[n].key = KeyOf[r]
      /\ records[n] \in RecordType
      /\ Owned(records[n])
    BY DEF FirstOf, IInv, Types, RecordsOwned
<1> DEFINE by == records[n].response.by
<1>4. /\ by \in Requests
      /\ records[n].response.status \in { "created", "refused" }
    BY <1>3 DEF RecordType
<1>5. /\ by # r
      /\ written[r] = 0
      /\ pc[by] \in Over
    <2>1. pc[by] \in Past /\ written[r] = 0
        BY <1>1, <1>3 DEF Owned, IInv, Placed
    <2>2. pc[by] \notin Busy
        BY <1>1, <1>4, RequestAssumption DEF IInv, ThreadHeld
    <2>3. QED
        BY <1>1, <2>1, <2>2 DEF Past, Busy, Over
<1>6. /\ answer' \in [ Requests -> Answers \union {None} ]
      /\ answer'[r] # None
      /\ \A s \in Requests \ {r} : answer'[s] = answer[s]
      /\ ~answer'[r].replayed \/ /\ records[n].body = BodyOf[r]
                                 /\ answer'[r].by = by
                                 /\ answer'[r].status = records[n].response.status
    <2>1. CASE Send(r, Response("conflict", r), FALSE)
        <3>1. Response("conflict", r).status = "conflict" /\ Response("conflict", r).by = r
            BY DEF Response
        <3>2. QED
            BY <2>1, <3>1, Sent DEF IInv
    <2>2. CASE records[n].body = BodyOf[r] /\ Send(r, records[n].response, TRUE)
        BY <1>4, <2>2, Sent DEF IInv
    <2>3. QED
        BY <2>1, <2>2
<1>7. Types'
    BY <1>1, <1>6 DEF IInv, Types, Places, Past, Over
<1>8. ThreadHeld'
    BY <1>1 DEF IInv, Types, ThreadHeld, Busy
<1>9. RecordsOwned'
    <2>1. SUFFICES ASSUME NEW m \in 1..Len(records)
                   PROVE  /\ Owned(records[m])'
                          /\ pc'[records[m].response.by] = "recorded" => m = Len(records)
        BY <1>1 DEF RecordsOwned
    <2>2. /\ records[m] \in RecordType
          /\ Owned(records[m])
          /\ pc[records[m].response.by] = "recorded" => m = Len(records)
        BY DEF IInv, Types, RecordsOwned
    <2>3. records[m].response.by \in Requests \ {r}
        BY <1>1, <2>2 DEF RecordType, Owned, Past, Over
    <2>4. pc'[records[m].response.by] = pc[records[m].response.by]
        BY <1>1, <2>3 DEF IInv, Types
    <2>5. Owned(records[m])'
        BY <1>1, <1>6, <2>2, <2>3, <2>4 DEF Owned
    <2>6. QED
        BY <1>1, <2>2, <2>4, <2>5
<1>10. FirstsExist' /\ Recorded(KeyOf[r])'
    BY <1>1, <1>3 DEF IInv, FirstsExist, Recorded, FirstOf
<1>11. ASSUME NEW s \in Requests PROVE Placed(s)'
    <2>1. CASE s = r
        BY <1>1, <1>5, <1>6, <1>10, <2>1 DEF Placed, IInv, Types
    <2>2. CASE s # r
        BY <1>1, <1>6, <2>2, PlacedFrame DEF IInv, Types, Recorded
    <2>3. QED
        BY <2>1, <2>2
<1>12. ASSUME NEW s \in Requests PROVE Replayed(s)'
    <2>1. CASE s = r
        <3>1. n \in FirstOf(KeyOf[r])' /\ records'[n] = records[n]
            BY <1>1 DEF FirstOf
        <3>2. pc'[by] \in Over /\ answer'[by] = answer[by]
            BY <1>1, <1>4, <1>5, <1>6 DEF IInv, Types
        <3>3. CASE ~answer'[r].replayed
            BY <2>1, <3>3 DEF Replayed
        <3>4. CASE records[n].body = BodyOf[r] /\ answer'[r].by = by
                   /\ answer'[r].status = records[n].response.status
            BY <1>1, <1>3, <1>5, <2>1, <3>1, <3>2, <3>4 DEF Replayed, Same, Owned
        <3>5. QED
            BY <1>6, <3>3, <3>4
    <2>2. CASE s # r
        <3>1. \A t \in Requests : pc[t] \in Over => t # r
            BY <1>1 DEF Over
        <3>2. QED
            BY <1>1, <1>6, <2>2, <3>1, ReplayedFrame, AnswersName DEF IInv, Types, FirstOf
    <2>3. QED
        BY <2>1, <2>2
<1>13. PairsExcused'
    BY <1>1, <1>5, <1>6 DEF IInv, Types, PairsExcused, Live, Open, Excused, Failed
<1>14. QED
    BY <1>7, <1>8, <1>9, <1>10, <1>11, <1>12, <1>13 DEF IInv

\* A step that answers and records nothing and takes no request past its record.
LEMMA QuietStep ==
    ASSUME IInv, NEW r \in Requests, records' = records, answer' = answer,
           pc' = [ pc EXCEPT ![r] = pc'[r] ], pc'[r] \in { "awaiting", "handling" },
           pc[r] \notin Past,
           written' = [ written EXCEPT ![r] = written'[r] ], written'[r] \in Nat
    PROVE  /\ Types'
           /\ RecordsOwned'
           /\ FirstsExist'
           /\ \A s \in Requests : Placed(s)'
           /\ \A s \in Requests : Replayed(s)'
<1>1. /\ pc' \in [ Requests -> Places ]
      /\ written' \in [ Requests -> Nat ]
      /\ \A s \in Requests \ {r} : pc'[s] = pc[s] /\ written'[s] = written[s]
    BY DEF IInv, Types, Places
<1>2. Types'
    BY <1>1 DEF IInv, Types
<1>3. RecordsOwned'
    <2>1. SUFFICES ASSUME NEW n \in 1..Len(records)
                   PROVE  /\ Owned(records[n])'
                          /\ pc'[records[n].response.by] = "recorded" => n = Len(records)
        BY DEF RecordsOwned
    <2>2. /\ records[n] \in RecordType
          /\ Owned(records[n])
          /\ pc[records[n].response.by] = "recorded" => n = Len(records)
        BY DEF IInv, Types, RecordsOwned
    <2>3. records[n].response.by \in Requests \ {r}
        BY <2>2 DEF RecordType, Owned
    <2>4. QED
        BY <1>1, <2>2, <2>3 DEF Owned
<1>4. FirstsExist'
    BY DEF IInv, FirstsExist, Recorded, FirstOf
<1>5. answer[r] = None
    BY DEF IInv, Placed, Past, Over
<1>6. ASSUME NEW s \in Requests PROVE Placed(s)'
    <2>1. CASE s = r
        BY <1>5, <2>1 DEF Placed
    <2>2. CASE s # r
        BY <1>1, <2>2, PlacedFrame DEF IInv, Recorded
    <2>3. QED
        BY <2>1, <2>2
<1>7. ASSUME NEW s \in Requests PROVE Replayed(s)'
    <2>1. CASE s = r
        BY <1>5, <2>1 DEF Replayed
    <2>2. CASE s # r
        <3>1. \A t \in Requests : pc[t] \in Over => t # r
            BY DEF Past
        <3>2. QED
            BY <1>1, <2>2, <3>1, ReplayedFrame, AnswersName DEF IInv, FirstOf
    <2>3. QED
        BY <2>1, <2>2
<1>8. QED
    BY <1>2, <1>3, <1>4, <1>6, <1>7

LEMMA HandleIInv ==
    ASSUME IInv, NEW r \in Requests, Handle(r)
    PROVE  IInv'
<1>1. /\ thread = None
      /\ Found(r) = {}
      /\ pc[r] = "unsent"
      /\ pc' = [ pc EXCEPT ![r] = "handling" ]
      /\ thread' = r
      /\ records' = records
      /\ written' = written
      /\ answer' = answer
      /\ together' = together \union
                    { { r, s } : s \in { t \in Requests : Open(t) /\ KeyOf[t] = KeyOf[r] } }
    BY DEF Handle, Goto
<1>2. /\ pc'[r] = "handling"
      /\ written' = [ written EXCEPT ![r] = written'[r] ]
      /\ written'[r] \in Nat
    BY <1>1 DEF IInv, Types
<1>3. /\ Types'
      /\ RecordsOwned'
      /\ FirstsExist'
      /\ \A s \in Requests : Placed(s)'
      /\ \A s \in Requests : Replayed(s)'
    BY <1>1, <1>2, QuietStep DEF Past, Over
<1>4. ThreadHeld'
    BY <1>1, RequestAssumption DEF IInv, Types, ThreadHeld, Busy
<1>5. ASSUME NEW s \in Requests \ {r}, Live(s), KeyOf[s] = KeyOf[r]
      PROVE  Excused(r, s)' /\ Excused(s, r)'
    <2>1. CASE Open(s)
        <3>1. { r, s } \in together' /\ { s, r } = { r, s }
            BY <1>1, <1>5, <2>1
        <3>2. QED
            BY <3>1 DEF Excused
    <2>2. CASE ~Open(s)
        <3>1. pc[s] \in { "answered", "lost" } /\ Placed(s)
            BY <1>5, <2>2 DEF Live, Open, IInv, Types, Places, Past, Over, Placed
        <3>2. ~Recorded(KeyOf[s])
            BY <1>1, <1>5, FoundIsFirst, RequestAssumption DEF IInv, FirstsExist
        <3>3. CASE pc[s] = "answered"
            BY <1>1, <1>5, <3>1, <3>2, <3>3 DEF Placed, Excused, Failed
        <3>4. CASE pc[s] = "lost"
            BY <1>1, <1>5, <3>4 DEF Excused, IInv, Types
        <3>5. QED
            BY <3>1, <3>3, <3>4
    <2>3. QED
        BY <2>1, <2>2
<1>6. ASSUME NEW s \in Requests \ {r}, NEW t \in Requests \ {r}, s # t,
             Live(s)', Live(t)', KeyOf[s] = KeyOf[t]
      PROVE  Excused(s, t)'
    BY <1>1, <1>6 DEF IInv, Types, PairsExcused, Live, Open, Excused, Failed
<1>7. \A s \in Requests \ {r} : Live(s)' <=> Live(s)
    BY <1>1 DEF IInv, Types, Live, Open
<1>8. PairsExcused'
    BY <1>5, <1>6, <1>7 DEF PairsExcused
<1>9. QED
    BY <1>3, <1>4, <1>8 DEF IInv

\* No request is newly past the middleware and no excuse goes away.
LEMMA PairsFrame ==
    ASSUME PairsExcused, together' = together,
           \A s \in Requests : Live(s)' => Live(s),
           \A s \in Requests : pc[s] = "lost" => pc'[s] = "lost",
           \A s \in Requests : Failed(s) => Failed(s)'
    PROVE  PairsExcused'
BY DEF PairsExcused, Excused

LEMMA HandlerGoesOnIInv ==
    ASSUME IInv, NEW r \in Requests, Await(r) \/ Resume(r) \/ Change(r)
    PROVE  IInv'
<1>1. /\ pc[r] \in { "handling", "awaiting" }
      /\ pc'[r] \in { "handling", "awaiting" }
      /\ pc' = [ pc EXCEPT ![r] = pc'[r] ]
      /\ records' = records
      /\ answer' = answer
      /\ together' = together
      /\ written' = [ written EXCEPT ![r] = written'[r] ]
      /\ written'[r] \in Nat
    BY DEF Await, Resume, Change, Goto, IInv, Types
<1>2. /\ Types'
      /\ RecordsOwned'
      /\ FirstsExist'
      /\ \A s \in Requests : Placed(s)'
      /\ \A s \in Requests : Replayed(s)'
    BY <1>1, QuietStep DEF Past, Over
<1>3. ThreadHeld'
    BY RequestAssumption DEF Await, Resume, Change, Goto, IInv, Types, ThreadHeld, Busy
<1>4. PairsExcused'
    <2>1. \A s \in Requests \ {r} : pc'[s] = pc[s] /\ written'[s] = written[s]
        BY <1>1 DEF IInv, Types
    <2>2. Open(r)
        BY <1>1 DEF Open
    <2>3. \A s \in Requests : Live(s)' => Live(s)
        BY <2>1, <2>2 DEF Live, Open
    <2>4. QED
        BY <1>1, <2>1, <2>3, PairsFrame DEF IInv, Failed
<1>5. QED
    BY <1>2, <1>3, <1>4 DEF IInv

\* The record of request r is written, in the synchronous part of its handler.
LEMMA RecordIInv ==
    ASSUME IInv, NEW r \in Requests, RecordCreated(r) \/ RecordRefused(r)
    PROVE  IInv'
<1>1. PICK status \in { "created", "refused" } :
        /\ Keep(r, status)
        /\ pc[r] = "handling"
        /\ status = "created" => written[r] = Writes[KeyOf[r]]
    BY DEF RecordCreated, RecordRefused, Goto
<1>2. /\ pc' = [ pc EXCEPT ![r] = "recorded" ]
      /\ thread' = thread
      /\ written' = written
      /\ answer' = answer
      /\ together' = together
    BY DEF RecordCreated, RecordRefused, Goto
<1>3. /\ records' \in Seq(RecordType)
      /\ Len(records') = Len(records) + 1
      /\ Len(records) \in Nat
      /\ \A n \in 1..Len(records) : records'[n] = records[n]
      /\ records'[Len(records')].key = KeyOf[r]
      /\ records'[Len(records')].body = BodyOf[r]
      /\ records'[Len(records')].response.by = r
      /\ records'[Len(records')].response.status = status
      /\ \A key \in Keys : FirstOf(key) \subseteq FirstOf(key)'
      /\ FirstsExist'
    BY <1>1, Kept DEF IInv
<1>4. answer[r] = None
    BY <1>1 DEF IInv, Placed
<1>5. \A s \in Requests \ {r} : pc[s] \notin Busy
    BY <1>1 DEF IInv, ThreadHeld, Busy
<1>6. Types'
    BY <1>2, <1>3 DEF IInv, Types, Places, Past
<1>7. ThreadHeld'
    BY <1>1, <1>2 DEF IInv, Types, ThreadHeld, Busy
<1>8. RecordsOwned'
    <2>1. ASSUME NEW n \in 1..Len(records')
          PROVE  /\ Owned(records[n])'
                 /\ pc'[records'[n].response.by] = "recorded" => n = Len(records')
        <3>1. CASE n = Len(records')
            <4>1. pc'[r] = "recorded"
                BY <1>2 DEF IInv, Types
            <4>2. QED
                BY <1>1, <1>2, <1>3, <1>4, <3>1, <4>1 DEF Owned, Past
        <3>2. CASE n # Len(records')
            <4>1. n \in 1..Len(records) /\ records'[n] = records[n]
                BY <1>3, <3>2
            <4>2. Owned(records[n]) /\ records[n] \in RecordType
                BY <4>1 DEF IInv, Types, RecordsOwned
            <4>3. records[n].response.by \in Requests \ {r}
                BY <1>1, <4>2 DEF Owned, Past, Over, RecordType
            <4>4. /\ pc'[records[n].response.by] = pc[records[n].response.by]
                  /\ pc[records[n].response.by] # "recorded"
                BY <1>2, <1>5, <4>3 DEF Busy, IInv, Types
            <4>5. QED
                BY <1>2, <4>1, <4>2, <4>4 DEF Owned
        <3>3. QED
            BY <3>1, <3>2
    <2>2. QED
        BY <2>1 DEF RecordsOwned
<1>9. ASSUME NEW s \in Requests PROVE Placed(s)'
    <2>1. CASE s = r
        BY <1>1, <1>2, <1>3, <2>1 DEF IInv, Types, Placed
    <2>2. CASE s # r
        <3>1. Recorded(KeyOf[s]) => Recorded(KeyOf[s])'
            BY <1>3 DEF Recorded
        <3>2. pc'[s] = pc[s] /\ pc[s] # "recorded"
            BY <1>2, <1>5, <2>2 DEF Busy, IInv, Types
        <3>3. QED
            BY <1>2, <3>1, <3>2, PlacedFrame DEF IInv
    <2>3. QED
        BY <2>1, <2>2
<1>10. ASSUME NEW s \in Requests PROVE Replayed(s)'
    <2>1. \A n \in FirstOf(KeyOf[s]) : n \in FirstOf(KeyOf[s])' /\ records'[n] = records[n]
        <3>1. FirstOf(KeyOf[s]) \subseteq FirstOf(KeyOf[s])'
            BY <1>3, RequestAssumption
        <3>2. QED
            BY <1>3, <3>1 DEF FirstOf
    <2>2. \A t \in Requests : pc[t] \in Over => pc'[t] = pc[t]
        BY <1>1, <1>2 DEF Over, IInv, Types
    <2>3. QED
        BY <1>2, <2>1, <2>2, ReplayedFrame, AnswersName DEF IInv
<1>11. PairsExcused'
    BY <1>1, <1>2, PairsFrame DEF IInv, Types, Live, Open, Failed
<1>12. QED
    BY <1>3, <1>6, <1>7, <1>8, <1>9, <1>10, <1>11 DEF IInv

\* The handler of request r ends, with its record or with an error.
LEMMA HandlerEndsIInv ==
    ASSUME IInv, NEW r \in Requests, Answer(r) \/ Throw(r)
    PROVE  IInv'
<1>1. /\ pc[r] \in Busy
      /\ pc' = [ pc EXCEPT ![r] = "answered" ]
      /\ thread' = None
      /\ records' = records
      /\ written' = written
      /\ together' = together
    BY DEF Answer, Throw, Goto, Busy
<1>2. PICK status \in { "created", "refused", "error" } :
        /\ \E response : /\ response.status = status
                         /\ response.by = r
                         /\ Send(r, response, FALSE)
        /\ status # "error" => pc[r] = "recorded"
        /\ pc[r] = "recorded" => status = records[Len(records)].response.status
    <2>1. CASE Throw(r)
        <3>1. Response("error", r).status = "error" /\ Response("error", r).by = r
            BY DEF Response
        <3>2. QED
            BY <2>1, <3>1 DEF Throw, Goto
    <2>2. CASE Answer(r)
        <3>1. pc[r] = "recorded" /\ Send(r, records[Len(records)].response, FALSE)
            BY <2>2 DEF Answer, Goto
        <3>2. Len(records) > 0 /\ records[Len(records)].response.by = r
            BY <3>1 DEF IInv, Placed
        <3>3. records[Len(records)] \in RecordType
            BY <3>2 DEF IInv, Types
        <3>4. records[Len(records)].response.status \in { "created", "refused" }
            BY <3>3 DEF RecordType
        <3>5. QED
            BY <3>1, <3>2, <3>4
    <2>3. QED
        BY <2>1, <2>2
<1>3. /\ answer' \in [ Requests -> Answers \union {None} ]
      /\ answer'[r] # None
      /\ answer'[r].status = status
      /\ ~answer'[r].replayed
      /\ \A s \in Requests \ {r} : answer'[s] = answer[s]
    BY <1>2, Sent DEF IInv
<1>4. Types'
    BY <1>1, <1>3 DEF IInv, Types, Places, Past, Over
<1>5. ThreadHeld'
    BY <1>1, RequestAssumption DEF IInv, Types, ThreadHeld, Busy
<1>6. RecordsOwned'
    <2>1. SUFFICES ASSUME NEW n \in 1..Len(records)
                   PROVE  /\ Owned(records[n])'
                          /\ pc'[records[n].response.by] = "recorded" => n = Len(records)
        BY <1>1 DEF RecordsOwned
    <2>2. /\ records[n] \in RecordType
          /\ Owned(records[n])
          /\ pc[records[n].response.by] = "recorded" => n = Len(records)
        BY DEF IInv, Types, RecordsOwned
    <2> records[n].response.by \in Requests
        BY <2>2 DEF RecordType
    <2>3. CASE records[n].response.by = r
        <3>1. pc[r] = "recorded" /\ n = Len(records)
            <4>1. pc[r] \in Past
                BY <2>2, <2>3 DEF Owned
            <4>2. pc[r] = "recorded"
                BY <1>1, <4>1 DEF Past, Over, Busy
            <4>3. QED
                BY <2>2, <2>3, <4>2
        <3>2. /\ answer'[r].status = records[n].response.status
              /\ pc'[r] = "answered"
            BY <1>1, <1>2, <1>3, <3>1 DEF IInv, Types
        <3>3. QED
            BY <1>1, <2>2, <2>3, <3>2 DEF Owned, Past, Over
    <2>4. CASE records[n].response.by # r
        <3>1. pc'[records[n].response.by] = pc[records[n].response.by]
            BY <1>1, <2>2, <2>4 DEF IInv, Types
        <3>2. QED
            BY <1>1, <1>3, <2>2, <2>4, <3>1 DEF Owned
    <2>5. QED
        BY <2>3, <2>4
<1>7. FirstsExist'
    BY <1>1 DEF IInv, FirstsExist, Recorded, FirstOf
<1>8. ASSUME NEW s \in Requests PROVE Placed(s)'
    <2>1. CASE s = r
        <3>1. status # "error" => Recorded(KeyOf[r])
            <4>1. SUFFICES ASSUME status # "error" PROVE Recorded(KeyOf[r])
                OBVIOUS
            <4>2. Len(records) > 0 /\ records[Len(records)].response.by = r
                BY <1>2, <4>1 DEF IInv, Placed
            <4>3. Len(records) \in 1..Len(records) /\ Owned(records[Len(records)])
                BY <4>2 DEF IInv, Types, RecordsOwned
            <4>4. QED
                BY <4>2, <4>3 DEF Owned, Recorded
        <3>2. Recorded(KeyOf[r]) => Recorded(KeyOf[r])'
            BY <1>1 DEF Recorded
        <3>3. QED
            BY <1>1, <1>3, <2>1, <3>1, <3>2 DEF Placed, Failed, IInv, Types
    <2>2. CASE s # r
        BY <1>1, <1>3, <2>2, PlacedFrame DEF IInv, Types, Recorded
    <2>3. QED
        BY <2>1, <2>2
<1>9. ASSUME NEW s \in Requests PROVE Replayed(s)'
    <2>1. CASE s = r
        BY <1>3, <2>1 DEF Replayed
    <2>2. CASE s # r
        <3>1. \A t \in Requests : pc[t] \in Over => t # r
            BY <1>1 DEF Over, Busy
        <3>2. QED
            BY <1>1, <1>3, <2>2, <3>1, ReplayedFrame, AnswersName DEF IInv, Types, FirstOf
    <2>3. QED
        BY <2>1, <2>2
<1>10. PairsExcused'
    <2>1. ~Failed(r)
        BY <1>1 DEF Failed, Busy, IInv, Placed
    <2>2. QED
        BY <1>1, <1>3, <2>1, PairsFrame DEF IInv, Types, Live, Open, Failed, Busy
<1>11. QED
    BY <1>4, <1>5, <1>6, <1>7, <1>8, <1>9, <1>10 DEF IInv

LEMMA CrashIInv ==
    ASSUME IInv, Crash
    PROVE  IInv'
<1>1. /\ pc' = [ s \in Requests |-> IF Open(s) THEN "lost" ELSE pc[s] ]
      /\ thread' = None
      /\ records' = records
      /\ written' = written
      /\ answer' = answer
      /\ together' = together
    BY DEF Crash
<1>2. \A s \in Requests :
        /\ ~Open(s)'
        /\ pc[s] \in Past => pc'[s] \in Over
        /\ pc[s] \in Over => pc'[s] = pc[s]
        /\ pc'[s] = "answered" <=> pc[s] = "answered"
        /\ pc'[s] = "unsent" => pc[s] = "unsent"
        /\ pc'[s] \notin Busy
    BY <1>1 DEF Open, Past, Over, Busy, IInv, Types, Places
<1>3. Types'
    BY <1>1 DEF IInv, Types, Places, Past, Over
<1>4. ThreadHeld'
    BY <1>1, <1>2, RequestAssumption DEF ThreadHeld, Busy
<1>5. RecordsOwned'
    <2>1. SUFFICES ASSUME NEW n \in 1..Len(records)
                   PROVE  /\ Owned(records[n])'
                          /\ pc'[records[n].response.by] = "recorded" => n = Len(records)
        BY <1>1 DEF RecordsOwned
    <2>2. records[n] \in RecordType /\ Owned(records[n])
        BY DEF IInv, Types, RecordsOwned
    <2>3. pc'[records[n].response.by] \in Over
        BY <1>2, <2>2 DEF Owned, RecordType
    <2>4. pc'[records[n].response.by] \in Past /\ pc'[records[n].response.by] # "recorded"
        BY <2>3 DEF Past, Over
    <2>5. QED
        BY <1>1, <2>2, <2>4, OwnedFrame
<1>6. FirstsExist'
    BY <1>1 DEF IInv, FirstsExist, Recorded, FirstOf
<1>7. ASSUME NEW s \in Requests PROVE Placed(s)'
    BY <1>1, <1>2 DEF IInv, Placed, Failed, Busy, Recorded
<1>8. ASSUME NEW s \in Requests PROVE Replayed(s)'
    BY <1>1, <1>2, ReplayedFrame, AnswersName DEF IInv, FirstOf
<1>9. PairsExcused'
    BY <1>1, <1>2, PairsFrame DEF IInv, Live, Failed, Over
<1>10. QED
    BY <1>3, <1>4, <1>5, <1>6, <1>7, <1>8, <1>9 DEF IInv

LEMMA NextIInv == IInv /\ [Next]_vars => IInv'
<1> SUFFICES ASSUME IInv, [Next]_vars PROVE IInv'
    OBVIOUS
<1>1. ASSUME NEW r \in Requests,
             \/ Reused(r) \/ Replay(r) \/ Handle(r) \/ Await(r) \/ Resume(r)
             \/ Change(r) \/ RecordCreated(r) \/ RecordRefused(r) \/ Answer(r) \/ Throw(r)
      PROVE  IInv'
    BY <1>1, MiddlewareAnswersIInv, HandleIInv, HandlerGoesOnIInv, RecordIInv,
       HandlerEndsIInv
<1>2. CASE Crash
    BY <1>2, CrashIInv
<1>3. CASE UNCHANGED vars
    BY <1>3 DEF vars, IInv, Types, ThreadHeld, RecordsOwned, Owned, FirstsExist, FirstOf,
                Recorded, Placed, Failed, Replayed, Same, PairsExcused, Live, Open, Excused
<1>4. QED
    BY <1>1, <1>2, <1>3 DEF Next

LEMMA Invariance == Spec => []IInv
BY InitIInv, NextIInv, PTL DEF Spec

-----------------------------------------------------------------------------
\* A replayed answer is that of an earlier request with the same key and body, is what
\* that request was told if it was told anything, says created only when all its writes
\* were made, and is what later replays say too (idempotency.ts replays the first record
\* it finds, two requests of one key may each have stored one, and a refusal is recorded
\* like a success, whatever its handler wrote before it).
THEOREM ReplaysAreOriginal == Spec => []ReplayIsOriginal
<1>1. IInv => ReplayIsOriginal
    BY FoundIsFirst, AnswersName DEF IInv, Replayed, ReplayIsOriginal
<1>2. QED
    BY <1>1, Invariance, PTL

\* Two requests of one key that both wrote something mean a server error, a crash, or
\* requests that were open at once (idempotency.ts looks for a record before the handler runs and
\* writes one when it answers).
THEOREM SecondChangesAreExplained == Spec => []ChangedTwiceExplained
<1>1. IInv => ChangedTwiceExplained
    BY DEF IInv, Types, PairsExcused, Live, Excused, Same, ChangedTwiceExplained
<1>2. QED
    BY <1>1, Invariance, PTL

\* Once a client has an answer that is not a server error, no later request with the
\* key gets to the handler, whatever body it has and however often the process
\* restarts.
THEOREM AnswersEndHandling == Spec => AnsweredNeverHandledAgain
<1>1. ASSUME IInv, [Next]_vars, NEW r \in Requests, NEW s \in Requests,
             KeyOf[r] = KeyOf[s], answer[r] # None, ~Failed(r), pc[s] = "unsent"
      PROVE  pc'[s] \in { "unsent", "answered" }
    <2>1. Found(s) # {}
        <3>1. Recorded(KeyOf[r])
            BY <1>1 DEF IInv, Placed
        <3>2. FirstOf(KeyOf[s]) # {}
            BY <1>1, <3>1, RequestAssumption DEF IInv, FirstsExist
        <3>3. QED
            BY <3>2, FoundIsFirst
    <2>2. ~Handle(s)
        BY <2>1 DEF Handle
    <2>3. pc'[s] = "unsent" \/ Reused(s) \/ Replay(s) \/ Handle(s)
        <3>1. pc \in [ Requests -> Places ]
            BY <1>1 DEF IInv, Types
        <3>2. ASSUME NEW t \in Requests \ {s},
                     \/ Reused(t) \/ Replay(t) \/ Handle(t) \/ Await(t) \/ Resume(t)
                     \/ Change(t) \/ RecordCreated(t) \/ RecordRefused(t)
                     \/ Answer(t) \/ Throw(t)
              PROVE  pc'[s] = pc[s]
            BY <3>1, <3>2 DEF Reused, Replay, Handle, Await, Resume, Change,
                              RecordCreated, RecordRefused, Answer, Throw, Goto
        <3>3. ~(\/ Await(s) \/ Resume(s) \/ Change(s) \/ RecordCreated(s) \/ RecordRefused(s)
                \/ Answer(s) \/ Throw(s))
            BY <1>1 DEF Await, Resume, Change, RecordCreated, RecordRefused, Answer, Throw,
                        Goto
        <3>4. Crash \/ UNCHANGED vars => pc'[s] = pc[s]
            BY <1>1 DEF Crash, Open, vars
        <3>5. QED
            BY <1>1, <3>2, <3>3, <3>4 DEF Next
    <2>4. pc \in [ Requests -> Places ]
        BY <1>1 DEF IInv, Types
    <2>5. QED
        BY <2>2, <2>3, <2>4 DEF Reused, Replay, Goto
<1>2. IInv /\ [Next]_vars =>
        [ \A r, s \in Requests :
            (/\ KeyOf[r] = KeyOf[s]
             /\ answer[r] # None /\ ~Failed(r)
             /\ pc[s] = "unsent")
            => pc'[s] \in { "unsent", "answered" } ]_vars
    BY <1>1
<1>3. QED
    BY <1>2, Invariance, PTL DEF Spec, AnsweredNeverHandledAgain
=============================================================================
