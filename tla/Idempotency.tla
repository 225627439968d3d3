---------------------------- MODULE Idempotency -----------------------------
(***************************************************************************)
(* api/idempotency.ts: what happens to state-changing requests that carry  *)
(* an Idempotency-Key, around a route handler that changes durable state   *)
(* and answers.                                                            *)
(*                                                                         *)
(* One thread serves all requests.  A handler keeps it until it answers,   *)
(* except while it awaits an adapter.  It stores what it changes write by  *)
(* write, before such an await as well as after it: POST /transactions     *)
(* stores the intent and the transaction, executes, and stores what came   *)
(* of it.  It may refuse or throw after any of these writes.  The record   *)
(* of the key is one more write, and the process may die between any two.  *)
(* The writes themselves succeed here; JsonFileStorage has how they fail.  *)
(***************************************************************************)
EXTENDS Naturals, Sequences, FiniteSets

CONSTANTS
    Requests,       \* requests clients send, retries included
    Keys, Bodies,
    KeyOf,          \* [Requests -> Keys]: method, path and Idempotency-Key
    BodyOf,         \* [Requests -> Bodies]: what the fingerprint is made of
    Awaiting,       \* keys of paths whose handler may await an adapter
    Writes,         \* [Keys -> Nat]: durable writes of a handler that goes through
    MaxCrashes,     \* bound on the number of process restarts
    None

\* What a client may get: a status class, the request whose handler composed the
\* response, and whether it was replayed.
Answers == [ status : { "created", "refused", "conflict", "error" }, by : Requests,
             replayed : BOOLEAN ]

ASSUME RequestAssumption ==
    /\ KeyOf \in [ Requests -> Keys ]
    /\ BodyOf \in [ Requests -> Bodies ]
    /\ Awaiting \subseteq Keys
    /\ Writes \in [ Keys -> Nat ]
    /\ MaxCrashes \in Nat
    /\ None \notin Requests
    /\ None \notin Answers

VARIABLES
    records,        \* the idempotency collection: sequence of [key, body, response]
    written,        \* durable writes the handler of each request has made
    pc,             \* where each request is
    answer,         \* what the client of each request got
    thread,         \* the request that has the thread
    together,       \* history: pairs of requests with one key that were open at once
    crashes

vars == << records, written, pc, answer, thread, together, crashes >>

\* A response is its status class and the request whose handler composed it.
Response(status, r) == [ status |-> status, by |-> r ]

Init ==
    /\ records = << >>
    /\ written = [ r \in Requests |-> 0 ]
    /\ pc = [ r \in Requests |-> "unsent" ]
    /\ answer = [ r \in Requests |-> None ]
    /\ thread = None
    /\ together = {}
    /\ crashes = 0

Goto(r, from, to) == pc[r] = from /\ pc' = [ pc EXCEPT ![r] = to ]

Send(r, response, replayed) ==
    answer' = [ answer EXCEPT ![r] =
        [ status |-> response.status, by |-> response.by, replayed |-> replayed ] ]

\* Mutant of Found: the last record with the key.
FoundLast(r) == { n \in 1..Len(records) :
                    /\ records[n].key = KeyOf[r]
                    /\ \A m \in n + 1..Len(records) : records[m].key # KeyOf[r] }

\* storage.get: the first record with the key.
Found(r) == { n \in 1..Len(records) :
                /\ records[n].key = KeyOf[r]
                /\ \A m \in 1..n - 1 : records[m].key # KeyOf[r] }

-----------------------------------------------------------------------------
\* The middleware meets a request.

Reused(r) ==
    /\ thread = None
    /\ Goto(r, "unsent", "answered")
    /\ \E n \in Found(r) : records[n].body # BodyOf[r]
    /\ Send(r, Response("conflict", r), FALSE)
    /\ UNCHANGED << records, written, thread, together, crashes >>

Replay(r) ==
    /\ thread = None
    /\ Goto(r, "unsent", "answered")
    /\ \E n \in Found(r) :
          records[n].body = BodyOf[r] /\ Send(r, records[n].response, TRUE)
    /\ UNCHANGED << records, written, thread, together, crashes >>

\* A request the middleware let through and that has no answer yet.
Open(r) == pc[r] \in { "handling", "awaiting", "recorded" }

\* Mutant of Handle: nobody looks for a record.
HandleAlways(r) ==
    /\ thread = None
    /\ Goto(r, "unsent", "handling")
    /\ thread' = r
    /\ together' = together \union
                    { { r, s } : s \in { t \in Requests : Open(t) /\ KeyOf[t] = KeyOf[r] } }
    /\ UNCHANGED << records, written, answer, crashes >>

Handle(r) ==
    /\ thread = None
    /\ Found(r) = {}
    /\ Goto(r, "unsent", "handling")
    /\ thread' = r
    /\ together' = together \union
                    { { r, s } : s \in { t \in Requests : Open(t) /\ KeyOf[t] = KeyOf[r] } }
    /\ UNCHANGED << records, written, answer, crashes >>

-----------------------------------------------------------------------------
\* The handler.

Await(r) ==
    /\ KeyOf[r] \in Awaiting
    /\ Goto(r, "handling", "awaiting")
    /\ thread' = None
    /\ UNCHANGED << records, written, answer, together, crashes >>

\* The awaited call is answered and the handler goes on.
Resume(r) ==
    /\ thread = None
    /\ Goto(r, "awaiting", "handling")
    /\ thread' = r
    /\ UNCHANGED << records, written, answer, together, crashes >>

Change(r) ==
    /\ pc[r] = "handling"
    /\ written[r] < Writes[KeyOf[r]]
    /\ written' = [ written EXCEPT ![r] = @ + 1 ]
    /\ UNCHANGED << records, pc, answer, thread, together, crashes >>

\* res.json with a status below 500: the record first, then the response.
Keep(r, status) ==
    records' = Append(records, [ key |-> KeyOf[r], body |-> BodyOf[r],
                                 response |-> Response(status, r) ])

RecordCreated(r) ==
    /\ written[r] = Writes[KeyOf[r]]
    /\ Goto(r, "handling", "recorded")
    /\ Keep(r, "created")
    /\ UNCHANGED << written, answer, thread, together, crashes >>

\* Mutant of RecordRefused: refusals are answered without a record.
RefuseUnrecorded(r) ==
    /\ Goto(r, "handling", "answered")
    /\ Send(r, Response("refused", r), FALSE)
    /\ thread' = None
    /\ UNCHANGED << records, written, together, crashes >>

\* A refusal, whatever the handler has written by then: a failed execution answers
\* 422 after the intent, the transaction and the instruction are stored.
RecordRefused(r) ==
    /\ Goto(r, "handling", "recorded")
    /\ Keep(r, "refused")
    /\ UNCHANGED << written, answer, thread, together, crashes >>

Answer(r) ==
    /\ Goto(r, "recorded", "answered")
    /\ Send(r, records[Len(records)].response, FALSE)
    /\ thread' = None
    /\ UNCHANGED << records, written, together, crashes >>

\* The handler throws after any of its writes: 500, and no record.
Throw(r) ==
    /\ Goto(r, "handling", "answered")
    /\ Send(r, Response("error", r), FALSE)
    /\ thread' = None
    /\ UNCHANGED << records, written, together, crashes >>

\* The process dies and restarts from its file; clients of open requests get
\* nothing.
Crash ==
    /\ crashes < MaxCrashes
    /\ \E r \in Requests : Open(r)
    /\ crashes' = crashes + 1
    /\ pc' = [ r \in Requests |-> IF Open(r) THEN "lost" ELSE pc[r] ]
    /\ thread' = None
    /\ UNCHANGED << records, written, answer, together >>

Next ==
    \/ \E r \in Requests :
          \/ Reused(r) \/ Replay(r) \/ Handle(r) \/ Await(r) \/ Resume(r)
          \/ Change(r) \/ RecordCreated(r) \/ RecordRefused(r) \/ Answer(r) \/ Throw(r)
    \/ Crash

Spec == Init /\ [][Next]_vars

-----------------------------------------------------------------------------
\* Properties.

Same(r, s) == KeyOf[r] = KeyOf[s] /\ BodyOf[r] = BodyOf[s]

\* A request is answered exactly when its client has something, and the request
\* that has the thread is in the synchronous part of its handler.
TypeOK ==
    /\ records \in Seq([ key : Keys, body : Bodies,
                         response : [ status : { "created", "refused" }, by : Requests ] ])
    /\ \A r \in Requests : written[r] \in 0..Writes[KeyOf[r]]
    /\ pc \in [ Requests -> { "unsent", "handling", "awaiting", "recorded", "answered",
                              "lost" } ]
    /\ answer \in [ Requests -> Answers \union {None} ]
    /\ \A r \in Requests : pc[r] = "answered" <=> answer[r] # None
    /\ \A r \in Requests : thread = r <=> pc[r] \in { "handling", "recorded" }
    /\ crashes \in 0..MaxCrashes

Failed(r) == answer[r] # None /\ answer[r].status = "error"

\* Two requests with one key and body both change something, be it a part of what
\* their handler stores, only when one of the two was answered with a server error
\* or lost in a crash, or when both were open at once.
ChangedTwiceExplained ==
    \A r, s \in Requests : (Same(r, s) /\ r # s /\ written[r] > 0 /\ written[s] > 0) =>
        \/ Failed(r) \/ Failed(s)
        \/ "lost" \in { pc[r], pc[s] }
        \/ { r, s } \in together

\* A replayed answer is that of an earlier request with the same key and body: what
\* the client of that request was told, if it was told anything; created only when
\* every write of its handler was made, while a refusal may follow some of them; and
\* it stays what the next replay will say, though two records of the key may be
\* stored.  The request it answers changes nothing itself.
ReplayIsOriginal ==
    \A r \in Requests : (answer[r] # None /\ answer[r].replayed) =>
        LET by == answer[r].by IN
        /\ Same(r, by)
        /\ r # by /\ written[r] = 0
        /\ answer[by] # None => answer[by].status = answer[r].status
        /\ answer[r].status = "created" => written[by] = Writes[KeyOf[by]]
        /\ \E n \in Found(r) : records[n].response.by = by

\* Once a client has an answer other than an error, no request with that key
\* reaches a handler again.
AnsweredNeverHandledAgain ==
    [][ \A r, s \in Requests :
          (/\ KeyOf[r] = KeyOf[s]
           /\ answer[r] # None /\ ~Failed(r)
           /\ pc[s] = "unsent")
          => pc'[s] \in { "unsent", "answered" } ]_vars
=============================================================================
