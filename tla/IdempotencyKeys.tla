--------------------------- MODULE IdempotencyKeys ---------------------------
(***************************************************************************)
(* The idempotency keys of the HTTP server: a write request that bears an  *)
(* X-Idempotency-Key runs its handler at most once, and its repeats get    *)
(* the answer of the first (httpapi/idempotency.go, handleIdempotency).    *)
(*                                                                         *)
(* Insert, lookup, handler and update are separate: other requests, a      *)
(* crash, a lost connection (whose cancelled context fails the statements  *)
(* after it) or a locked database come in between.                         *)
(*                                                                         *)
(* Abstracted: a scope (method, path, key) is a key; the hash of a request *)
(* is a model value; the body of an answer is the number of the execution  *)
(* that wrote it, 0 when empty.                                            *)
(***************************************************************************)
EXTENDS Integers

CONSTANTS
    Keys,       \* scopes: method, path and key
    Hashes,     \* hashes of method, path, query and body
    Callers,    \* connections that send requests
    MaxRuns     \* bound: executions under one key

ASSUME MaxRunsAssumption == MaxRuns \in Nat
ASSUME HashesAssumption == "none" \notin Hashes

VARIABLES
    record,     \* idempotency_records, by scope
    call,       \* the request each connection is serving
    reply,      \* the last answer each connection got
    runs,       \* history: executions of the handler under a key
    broken,     \* history: executions under a key that answered 5xx
    written     \* history: answers written by the executions under a key

vars == <<record, call, reply, runs, broken, written>>

Codes == {200, 400, 500}    \* success, refused, server error
NoRecord == [hash |-> "none"]
NoCall == [pc |-> "idle"]
NoReply == [from |-> "none"]

Answers == [code : Codes, body : 0 .. MaxRuns]
Records == [hash : Hashes, ans : Answers]
Call == [pc : {"acquire", "resolve", "run", "finish"}, key : Keys, hash : Hashes,
         ans : Answers]
Reply == [from : {"handler", "record", "conflict", "progress", "error"},
          key : Keys, hash : Hashes, ans : Answers]

TypeOK ==
    /\ record \in [Keys -> {NoRecord} \cup Records]
    /\ call \in [Callers -> {NoCall} \cup Call]
    /\ reply \in [Callers -> {NoReply} \cup Reply]
    /\ runs \in [Keys -> 0 .. MaxRuns]
    /\ broken \in [Keys -> 0 .. MaxRuns]
    /\ written \in [Keys -> SUBSET (Hashes \X Answers)]

Init ==
    /\ record = [k \in Keys |-> NoRecord]
    /\ call = [c \in Callers |-> NoCall]
    /\ reply = [c \in Callers |-> NoReply]
    /\ runs = [k \in Keys |-> 0]
    /\ broken = [k \in Keys |-> 0]
    /\ written = [k \in Keys |-> {}]

\* What AcquireIdempotencyRecord leaves in the table.  It passes status 0, but
\* the column's default of 200 stands in for a zero value.
Fresh == [code |-> 200, body |-> 0]

Goto(c, pc, ans) ==
    call' = [call EXCEPT ![c] =
        [pc |-> pc, key |-> call[c].key, hash |-> call[c].hash, ans |-> ans]]

Answer(c, from, ans) ==
    /\ call' = [call EXCEPT ![c] = NoCall]
    /\ reply' = [reply EXCEPT ![c] =
           [from |-> from, key |-> call[c].key, hash |-> call[c].hash, ans |-> ans]]

Send(c, k, h) ==
    /\ call[c] = NoCall
    /\ call' = [call EXCEPT ![c] = [pc |-> "acquire", key |-> k, hash |-> h, ans |-> Fresh]]
    /\ reply' = [reply EXCEPT ![c] = NoReply]
    /\ UNCHANGED <<record, runs, broken, written>>

\* Mutant of Acquire: the hash of the request is not kept.
AcquireWithoutHash(c) ==
    /\ call[c].pc = "acquire"
    /\ record[call[c].key] = NoRecord
    /\ record' = [record EXCEPT ![call[c].key] = [hash |-> "none", ans |-> Fresh]]
    /\ Goto(c, "run", Fresh)
    /\ UNCHANGED <<reply, runs, broken, written>>

\* Mutant of Acquire: the insert updates the record it meets.
AcquireOverwriting(c) ==
    /\ call[c].pc = "acquire"
    /\ record' = [record EXCEPT ![call[c].key] = [hash |-> call[c].hash, ans |-> Fresh]]
    /\ Goto(c, "run", Fresh)
    /\ UNCHANGED <<reply, runs, broken, written>>

\* The insert succeeds or meets the unique index.
Acquire(c) ==
    /\ call[c].pc = "acquire"
    /\ IF record[call[c].key] = NoRecord
         THEN /\ record' = [record EXCEPT ![call[c].key] =
                     [hash |-> call[c].hash, ans |-> Fresh]]
              /\ Goto(c, "run", Fresh)
         ELSE /\ Goto(c, "resolve", Fresh)
              /\ UNCHANGED record
    /\ UNCHANGED <<reply, runs, broken, written>>

\* Mutant of Resolve: the hash of the request is not compared.
ResolveAnyHash(c) ==
    /\ call[c].pc = "resolve"
    /\ record[call[c].key] # NoRecord
    /\ Answer(c, "record", record[call[c].key].ans)
    /\ UNCHANGED <<record, runs, broken, written>>

\* A second statement reads the record; it may be gone by then, which is
\* answered as an error (404).
Resolve(c) ==
    /\ call[c].pc = "resolve"
    /\ LET rec == record[call[c].key]
       IN  \/ rec = NoRecord /\ Answer(c, "error", Fresh)
           \/ /\ rec # NoRecord
              /\ \/ rec.hash # call[c].hash /\ Answer(c, "conflict", Fresh)
                 \/ /\ rec.hash = call[c].hash
                    /\ IF rec.ans.code = 0 THEN Answer(c, "progress", Fresh)
                                           ELSE Answer(c, "record", rec.ans)
    /\ UNCHANGED <<record, runs, broken, written>>

\* The handler runs and writes its answer, which the client gets at once.
Run(c) ==
    /\ call[c].pc = "run"
    /\ runs[call[c].key] < MaxRuns
    /\ LET k == call[c].key  n == runs[call[c].key] + 1
       IN  /\ runs' = [runs EXCEPT ![k] = n]
           /\ \E code \in Codes :
                 LET ans == [code |-> code, body |-> n]
                 IN  /\ Goto(c, "finish", ans)
                     /\ reply' = [reply EXCEPT ![c] =
                            [from |-> "handler", key |-> k, hash |-> call[c].hash, ans |-> ans]]
                     /\ written' = [written EXCEPT ![k] = @ \cup {<<call[c].hash, ans>>}]
                     /\ broken' = IF code = 500 THEN [broken EXCEPT ![k] = @ + 1] ELSE broken
    /\ UNCHANGED record

\* The handler panics: the recovery middleware stands outside this one, which
\* does not get to finish, and the record stays as it is.
Panic(c) ==
    /\ call[c].pc = "run"
    /\ runs[call[c].key] < MaxRuns
    /\ runs' = [runs EXCEPT ![call[c].key] = @ + 1]
    /\ Answer(c, "error", Fresh)
    /\ UNCHANGED <<record, broken, written>>

\* Mutant of Finish: a refused request may be tried again under its key.
FinishForgettingRefusals(c) ==
    /\ call[c].pc = "finish"
    /\ record' = [record EXCEPT ![call[c].key] =
           IF call[c].ans.code >= 400 THEN NoRecord
           ELSE [hash |-> call[c].hash, ans |-> call[c].ans]]
    /\ call' = [call EXCEPT ![c] = NoCall]
    /\ UNCHANGED <<reply, runs, broken, written>>

\* A server error frees the key, any other answer is kept under it.
Finish(c) ==
    /\ call[c].pc = "finish"
    /\ record' = [record EXCEPT ![call[c].key] =
           IF call[c].ans.code >= 500 THEN NoRecord
           ELSE [hash |-> call[c].hash, ans |-> call[c].ans]]
    /\ call' = [call EXCEPT ![c] = NoCall]
    /\ UNCHANGED <<reply, runs, broken, written>>

\* The statement fails; the error is dropped and the record stays as it is.
FinishFails(c) ==
    /\ call[c].pc = "finish"
    /\ call' = [call EXCEPT ![c] = NoCall]
    /\ UNCHANGED <<record, reply, runs, broken, written>>

\* A statement before the handler fails.
Fail(c) ==
    /\ call[c].pc \in {"acquire", "resolve"}
    /\ Answer(c, "error", Fresh)
    /\ UNCHANGED <<record, runs, broken, written>>

\* The server dies; nothing looks at unfinished records when it is back.
Crash ==
    /\ call' = [c \in Callers |-> NoCall]
    /\ UNCHANGED <<record, reply, runs, broken, written>>

Serve(c) ==
    \/ Acquire(c)
    \/ Resolve(c)
    \/ Run(c)
    \/ Panic(c)
    \/ Finish(c)
    \/ FinishFails(c)
    \/ Fail(c)

Next ==
    \/ \E c \in Callers, k \in Keys, h \in Hashes : Send(c, k, h)
    \/ \E c \in Callers : Serve(c)
    \/ Crash

Spec == Init /\ [][Next]_vars

-----------------------------------------------------------------------------
(* Properties.                                                             *)

\* A handler runs again under its key only after it answered 5xx: neither two
\* connections at once, nor a repeat after a refusal, a panic or a crash.
RunsAgainOnlyIfBroken == \A k \in Keys : runs[k] <= broken[k] + 1

\* What a repeat is told from the record was written by an execution of the
\* very same request, unless it is told nothing (an empty body).
RepliesAreGenuine ==
    \A c \in Callers :
        reply[c].from = "record" /\ reply[c].ans.body # 0 =>
            <<reply[c].hash, reply[c].ans>> \in written[reply[c].key]

\* An answer kept under a key is final: no later request replaces it.
AnswersAreFinal ==
    [][\A k \in Keys :
          record[k] # NoRecord /\ record[k].ans.body # 0 => record'[k] = record[k]]_vars
=============================================================================
