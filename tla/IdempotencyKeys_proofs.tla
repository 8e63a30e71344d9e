----------------------- MODULE IdempotencyKeys_proofs -----------------------
(***************************************************************************)
(* Theorems about IdempotencyKeys, for any number of keys and connections: *)
(* a handler runs again only after it answered 5xx, and a repeat is told   *)
(* what an execution of the same request wrote.                            *)
(***************************************************************************)
EXTENDS IdempotencyKeys, TLAPS

\* A connection holds its key from the insert to the update or delete: the
\* record is its own and still fresh, and no other connection is inside.
Inside(c) == call[c].pc \in {"run", "finish"}

HoldersOwn ==
    \A c \in Callers :
        Inside(c) => record[call[c].key] = [hash |-> call[c].hash, ans |-> Fresh]

HoldersAlone ==
    \A c, d \in Callers :
        Inside(c) /\ Inside(d) /\ call[c].key = call[d].key => c = d

\* Where every execution so far answered 5xx: under a free key, and before the
\* holder of a key has run.
RunsCounted ==
    /\ \A k \in Keys : broken[k] <= runs[k] /\ runs[k] <= broken[k] + 1
    /\ \A k \in Keys : record[k] = NoRecord => runs[k] <= broken[k]
    /\ \A c \in Callers :
          call[c].pc = "run" \/ (call[c].pc = "finish" /\ call[c].ans.code = 500)
              => runs[call[c].key] <= broken[call[c].key]

\* Every answer on its way to the table, in the table or out of it was written.
AnswersWritten ==
    /\ \A c \in Callers :
          call[c].pc = "finish" => <<call[c].hash, call[c].ans>> \in written[call[c].key]
    /\ \A k \in Keys :
          record[k] # NoRecord /\ record[k].ans.body # 0 =>
              <<record[k].hash, record[k].ans>> \in written[k]
    /\ RepliesAreGenuine

IInv == TypeOK /\ HoldersOwn /\ HoldersAlone /\ RunsCounted /\ AnswersWritten

USE MaxRunsAssumption, HashesAssumption

\* No record looks like the absence of one.
LEMMA RecordsAreNotNone ==
    \A h \in Hashes, a \in Answers : [hash |-> h, ans |-> a] # NoRecord
BY DEF NoRecord

\* The answer of a record just inserted is an answer.
LEMMA FreshIsAnswer == Fresh \in Answers /\ Fresh.body = 0
BY DEF Fresh, Answers, Codes

\* What the connection that holds a key finds under it.
LEMMA HolderFinds ==
    ASSUME IInv, NEW c \in Callers, Inside(c)
    PROVE  /\ call[c].key \in Keys /\ call[c].hash \in Hashes
           /\ record[call[c].key] # NoRecord
           /\ record[call[c].key].ans.body = 0
<1>1. call[c].key \in Keys /\ call[c].hash \in Hashes
  BY DEF IInv, TypeOK, Call, NoCall, Inside
<1>2. record[call[c].key] = [hash |-> call[c].hash, ans |-> Fresh]
  BY DEF IInv, HoldersOwn
<1>3. record[call[c].key] # NoRecord
  BY <1>1, <1>2, RecordsAreNotNone, FreshIsAnswer
<1>4. record[call[c].key].ans = Fresh
  BY <1>2
<1> QED BY <1>1, <1>3, <1>4, FreshIsAnswer

\* A request that comes in changes no key.
LEMMA SendKeeps ==
    ASSUME IInv, NEW c \in Callers, NEW k \in Keys, NEW h \in Hashes, Send(c, k, h)
    PROVE  IInv'
<1> USE DEF IInv
<1>1. TypeOK'
  BY RecordsAreNotNone, FreshIsAnswer DEF TypeOK, Call, Records, Reply, NoCall,
     NoReply, Send
<1>2. HoldersOwn'
  BY RecordsAreNotNone, FreshIsAnswer DEF HoldersOwn, Inside, TypeOK, Call, NoCall,
     Records, Send
<1>3. HoldersAlone'
  BY RecordsAreNotNone, FreshIsAnswer DEF HoldersAlone, HoldersOwn, Inside, TypeOK, Call, NoCall, Send
<1>4. RunsCounted'
  BY RecordsAreNotNone, FreshIsAnswer DEF RunsCounted, HoldersOwn, HoldersAlone,
     Inside, TypeOK, Call, NoCall, Records, Send
<1>5. AnswersWritten'
  BY RecordsAreNotNone, FreshIsAnswer DEF AnswersWritten, RepliesAreGenuine, HoldersOwn, HoldersAlone, Inside,
     TypeOK, Call, NoCall, NoReply, Reply, Records, Send
<1> QED BY <1>1, <1>2, <1>3, <1>4, <1>5

\* The unique index lets one connection in.
LEMMA AcquireKeeps ==
    ASSUME IInv, NEW c \in Callers, Acquire(c)
    PROVE  IInv'
<1> USE DEF IInv
<1>1. TypeOK'
  BY RecordsAreNotNone, FreshIsAnswer DEF TypeOK, Call, Records, Reply, NoCall,
     NoReply, Acquire, Goto
<1>2. HoldersOwn'
  BY RecordsAreNotNone, FreshIsAnswer DEF HoldersOwn, Inside, TypeOK, Call, NoCall,
     Records, Acquire, Goto
<1>3. HoldersAlone'
  <2>1. CASE record' = record /\ Goto(c, "resolve", Fresh)
    BY <2>1 DEF HoldersAlone, Inside, TypeOK, Goto
  <2>2. CASE record[call[c].key] = NoRecord /\ Goto(c, "run", Fresh)
    <3>1. \A d \in Callers : Inside(d) => call[d].key # call[c].key
      <4> SUFFICES ASSUME NEW d \in Callers, Inside(d)
                   PROVE  record[call[d].key] # NoRecord
        BY <2>2
      <4>1. call[d].hash \in Hashes
        BY DEF TypeOK, Inside, Call, NoCall
      <4> QED BY <4>1, RecordsAreNotNone, FreshIsAnswer DEF HoldersOwn
    <3>2. \A d \in Callers : d # c => call'[d] = call[d]
      BY <2>2 DEF Goto, TypeOK
    <3>3. call'[c].key = call[c].key
      BY <2>2 DEF Goto, TypeOK
    <3> QED BY <3>1, <3>2, <3>3 DEF HoldersAlone, Inside
  <2> QED BY <2>1, <2>2 DEF Acquire
<1>4. RunsCounted'
  BY RecordsAreNotNone, FreshIsAnswer DEF RunsCounted, HoldersOwn, HoldersAlone,
     Inside, TypeOK, Call, NoCall, Records, Acquire, Goto
<1>5. AnswersWritten'
  <2>1. RepliesAreGenuine'
    BY DEF RepliesAreGenuine, AnswersWritten, Acquire
  <2>2. \A d \in Callers : call'[d].pc = "finish" => call'[d] = call[d]
    BY DEF Acquire, Goto, TypeOK
  <2>3. \A k \in Keys : record'[k] = record[k] \/ record'[k].ans.body = 0
    BY FreshIsAnswer DEF Acquire, TypeOK
  <2> QED BY <2>1, <2>2, <2>3 DEF AnswersWritten, Acquire
<1> QED BY <1>1, <1>2, <1>3, <1>4, <1>5

\* A repeat reads the record and changes nothing else.
LEMMA ResolveKeeps ==
    ASSUME IInv, NEW c \in Callers, Resolve(c)
    PROVE  IInv'
<1> USE DEF IInv
<1>1. TypeOK'
  BY RecordsAreNotNone, FreshIsAnswer DEF TypeOK, Call, Records, Reply, NoCall,
     NoReply, Resolve, Answer
<1>2. HoldersOwn'
  BY RecordsAreNotNone, FreshIsAnswer DEF HoldersOwn, Inside, TypeOK, Call, NoCall,
     Records, Resolve, Answer
<1>3. HoldersAlone'
  BY RecordsAreNotNone, FreshIsAnswer DEF HoldersAlone, HoldersOwn, Inside, TypeOK, Call, NoCall, Resolve, Answer
<1>4. RunsCounted'
  BY RecordsAreNotNone, FreshIsAnswer DEF RunsCounted, HoldersOwn, HoldersAlone,
     Inside, TypeOK, Call, NoCall, Records, Resolve, Answer
<1>5. AnswersWritten'
  BY RecordsAreNotNone, FreshIsAnswer DEF AnswersWritten, RepliesAreGenuine, HoldersOwn, HoldersAlone, Inside,
     TypeOK, Call, NoCall, NoReply, Reply, Records, Resolve, Answer
<1> QED BY <1>1, <1>2, <1>3, <1>4, <1>5

\* An execution is the holder's, and counts.
LEMMA RunKeeps ==
    ASSUME IInv, NEW c \in Callers, Run(c)
    PROVE  IInv'
<1> USE DEF IInv
<1>1. TypeOK'
  <2>1. PICK code \in Codes :
           LET k == call[c].key  n == runs[k] + 1
               ans == [code |-> code, body |-> n]
           IN  /\ Goto(c, "finish", ans)
               /\ reply' = [reply EXCEPT ![c] =
                      [from |-> "handler", key |-> k, hash |-> call[c].hash, ans |-> ans]]
               /\ written' = [written EXCEPT ![k] = @ \cup {<<call[c].hash, ans>>}]
               /\ broken' = IF code = 500 THEN [broken EXCEPT ![k] = @ + 1] ELSE broken
               /\ runs' = [runs EXCEPT ![k] = n]
               /\ record' = record
    BY DEF Run
  <2>2. call[c].key \in Keys /\ call[c].hash \in Hashes
    BY DEF Run, TypeOK, Call, NoCall
  <2>3. runs[call[c].key] + 1 \in 0 .. MaxRuns
    BY <2>2 DEF Run, TypeOK
  <2>4. [code |-> code, body |-> runs[call[c].key] + 1] \in Answers
    BY <2>3 DEF Answers
  <2>5. broken[call[c].key] + 1 \in 0 .. MaxRuns
    BY <2>2, <2>3 DEF RunsCounted, Run, TypeOK
  <2>6. broken' \in [Keys -> 0 .. MaxRuns]
    BY <2>1, <2>5 DEF TypeOK
  <2>7. call' \in [Callers -> {NoCall} \cup Call]
    BY <2>1, <2>2, <2>4 DEF TypeOK, Goto, Call
  <2>8. reply' \in [Callers -> {NoReply} \cup Reply]
    BY <2>1, <2>2, <2>4 DEF TypeOK, Reply
  <2>9. written' \in [Keys -> SUBSET (Hashes \X Answers)]
    BY <2>1, <2>2, <2>4 DEF TypeOK
  <2> QED BY <2>1, <2>2, <2>3, <2>6, <2>7, <2>8, <2>9 DEF TypeOK
<1>2. HoldersOwn'
  BY RecordsAreNotNone, FreshIsAnswer DEF HoldersOwn, Inside, TypeOK, Call, NoCall,
     Records, Run, Goto, Answers, Codes
<1>3. HoldersAlone'
  BY RecordsAreNotNone, FreshIsAnswer DEF HoldersAlone, HoldersOwn, Inside, TypeOK, Call, NoCall, Run, Goto, Answers, Codes
<1>4. RunsCounted'
  <2>1. \A d \in Callers : d # c /\ Inside(d) => call[d].key # call[c].key
    BY DEF HoldersAlone, Inside, Run
  <2>2. call[c].key \in Keys /\ call[c].hash \in Hashes
    BY DEF Run, TypeOK, Call, NoCall
  <2>3. record' = record /\ record[call[c].key] # NoRecord
    BY HolderFinds DEF Run, Inside
  <2>4. runs[call[c].key] <= broken[call[c].key]
    BY DEF RunsCounted, Run
  <2>5. PICK code \in Codes :
           /\ call'[c].pc = "finish" /\ call'[c].key = call[c].key /\ call'[c].ans.code = code
           /\ broken' = IF code = 500 THEN [broken EXCEPT ![call[c].key] = @ + 1] ELSE broken
    BY DEF Run, Goto, TypeOK
  <2>6. runs' = [runs EXCEPT ![call[c].key] = @ + 1]
    BY DEF Run
  <2>7. \A d \in Callers : d # c => call'[d] = call[d]
    BY DEF Run, Goto, TypeOK
  <2>8. \A k \in Keys : k # call[c].key => runs'[k] = runs[k] /\ broken'[k] = broken[k]
    BY <2>5, <2>6 DEF TypeOK
  <2>9. /\ runs'[call[c].key] <= broken'[call[c].key] + 1
        /\ code = 500 => runs'[call[c].key] <= broken'[call[c].key]
    BY <2>2, <2>4, <2>5, <2>6 DEF TypeOK
  <2>10. \A k \in Keys : broken'[k] <= runs'[k] /\ runs'[k] <= broken'[k] + 1
    BY <2>2, <2>5, <2>6, <2>8, <2>9 DEF RunsCounted, TypeOK
  <2>11. \A k \in Keys : record'[k] = NoRecord => runs'[k] <= broken'[k]
    BY <2>3, <2>8 DEF RunsCounted
  <2>12. ASSUME NEW d \in Callers,
                call'[d].pc = "run" \/ (call'[d].pc = "finish" /\ call'[d].ans.code = 500)
         PROVE  runs'[call'[d].key] <= broken'[call'[d].key]
    <3>1. CASE d = c
      BY <2>5, <2>9, <2>12, <3>1
    <3>2. CASE d # c
      <4>1. call'[d] = call[d] /\ Inside(d)
        BY <2>7, <2>12, <3>2 DEF Inside
      <4>2. call[d].key \in Keys /\ call[d].key # call[c].key
        BY <2>1, <3>2, <4>1 DEF TypeOK, Call, NoCall, Inside
      <4>3. runs[call[d].key] <= broken[call[d].key]
        BY <2>12, <4>1 DEF RunsCounted
      <4> QED BY <2>8, <4>1, <4>2, <4>3
    <3> QED BY <3>1, <3>2
  <2> QED BY <2>10, <2>11, <2>12 DEF RunsCounted
<1>5. AnswersWritten'
  <2>1. call[c].key \in Keys /\ call[c].hash \in Hashes
    BY DEF Run, TypeOK, Call, NoCall
  <2>2. PICK ans :
           /\ call' = [call EXCEPT ![c] = [pc |-> "finish", key |-> call[c].key,
                                           hash |-> call[c].hash, ans |-> ans]]
           /\ reply' = [reply EXCEPT ![c] = [from |-> "handler", key |-> call[c].key,
                                             hash |-> call[c].hash, ans |-> ans]]
           /\ written' = [written EXCEPT ![call[c].key] = @ \cup {<<call[c].hash, ans>>}]
           /\ record' = record
    BY DEF Run, Goto
  <2>3. \A k \in Keys : written[k] \subseteq written'[k]
    BY <2>1, <2>2 DEF TypeOK
  <2>4. <<call[c].hash, ans>> \in written'[call[c].key]
    BY <2>1, <2>2 DEF TypeOK
  <2>5. ASSUME NEW d \in Callers, call'[d].pc = "finish"
        PROVE  <<call'[d].hash, call'[d].ans>> \in written'[call'[d].key]
    <3>1. CASE d = c
      BY <2>2, <2>4, <3>1 DEF TypeOK
    <3>2. CASE d # c
      <4>1. call'[d] = call[d] /\ call[d].key \in Keys
        BY <2>2, <2>5, <3>2 DEF TypeOK, Call, NoCall
      <4> QED BY <2>3, <2>5, <4>1 DEF AnswersWritten
    <3> QED BY <3>1, <3>2
  <2>6. ASSUME NEW k \in Keys, record'[k] # NoRecord, record'[k].ans.body # 0
        PROVE  <<record'[k].hash, record'[k].ans>> \in written'[k]
    BY <2>2, <2>3, <2>6 DEF AnswersWritten
  <2>7. ASSUME NEW d \in Callers, reply'[d].from = "record", reply'[d].ans.body # 0
        PROVE  <<reply'[d].hash, reply'[d].ans>> \in written'[reply'[d].key]
    <3>1. d # c
      BY <2>2, <2>7 DEF TypeOK
    <3>2. reply'[d] = reply[d] /\ reply[d].key \in Keys
      BY <2>2, <2>7, <3>1 DEF TypeOK, Reply, NoReply
    <3> QED BY <2>3, <2>7, <3>2 DEF AnswersWritten, RepliesAreGenuine
  <2> QED BY <2>5, <2>6, <2>7 DEF AnswersWritten, RepliesAreGenuine
<1> QED BY <1>1, <1>2, <1>3, <1>4, <1>5

\* A panic counts as an execution and leaves the record behind.
LEMMA PanicKeeps ==
    ASSUME IInv, NEW c \in Callers, Panic(c)
    PROVE  IInv'
<1> USE DEF IInv
<1>1. TypeOK'
  BY RecordsAreNotNone, FreshIsAnswer DEF TypeOK, Call, Records, Reply, NoCall,
     NoReply, Panic, Answer
<1>2. HoldersOwn'
  BY RecordsAreNotNone, FreshIsAnswer DEF HoldersOwn, Inside, TypeOK, Call, NoCall,
     Records, Panic, Answer
<1>3. HoldersAlone'
  BY RecordsAreNotNone, FreshIsAnswer DEF HoldersAlone, HoldersOwn, Inside, TypeOK, Call, NoCall, Panic, Answer
<1>4. RunsCounted'
  <2>1. \A d \in Callers : d # c /\ Inside(d) => call[d].key # call[c].key
    BY DEF HoldersAlone, Inside, Panic
  <2>2. call[c].key \in Keys /\ call[c].hash \in Hashes
    BY DEF Panic, TypeOK, Call, NoCall
  <2>3. record' = record /\ broken' = broken /\ record[call[c].key] # NoRecord
    BY HolderFinds DEF Panic, Inside
  <2>4. runs[call[c].key] <= broken[call[c].key]
    BY DEF RunsCounted, Panic
  <2>5. runs' = [runs EXCEPT ![call[c].key] = @ + 1]
    BY DEF Panic
  <2>6. \A k \in Keys : k # call[c].key => runs'[k] = runs[k]
    BY <2>5 DEF TypeOK
  <2>7. \A k \in Keys : broken'[k] <= runs'[k] /\ runs'[k] <= broken'[k] + 1
    BY <2>2, <2>3, <2>4, <2>5, <2>6 DEF RunsCounted, TypeOK
  <2>8. \A k \in Keys : record'[k] = NoRecord => runs'[k] <= broken'[k]
    BY <2>3, <2>6 DEF RunsCounted
  <2>9. \A d \in Callers : Inside(d)' => d # c /\ call'[d] = call[d]
    BY DEF Panic, Answer, Inside, NoCall, TypeOK
  <2>10. \A d \in Callers : Inside(d)' =>
            call'[d].key \in Keys /\ call'[d].key # call[c].key
    BY <2>1, <2>9 DEF TypeOK, Call, NoCall, Inside
  <2>11. \A d \in Callers :
            call'[d].pc = "run" \/ (call'[d].pc = "finish" /\ call'[d].ans.code = 500)
               => runs'[call'[d].key] <= broken'[call'[d].key]
    BY <2>3, <2>6, <2>9, <2>10 DEF RunsCounted, Inside
  <2> QED BY <2>7, <2>8, <2>11 DEF RunsCounted
<1>5. AnswersWritten'
  BY RecordsAreNotNone, FreshIsAnswer DEF AnswersWritten, RepliesAreGenuine, HoldersOwn, HoldersAlone, Inside,
     TypeOK, Call, NoCall, NoReply, Reply, Records, Panic, Answer
<1> QED BY <1>1, <1>2, <1>3, <1>4, <1>5

\* The holder lets go of its key, which only a 5xx frees.
LEMMA FinishKeeps ==
    ASSUME IInv, NEW c \in Callers, Finish(c)
    PROVE  IInv'
<1> USE DEF IInv
<1>1. TypeOK'
  BY RecordsAreNotNone, FreshIsAnswer DEF TypeOK, Call, Records, Reply, NoCall,
     NoReply, Finish, Answers, Codes
<1>2. HoldersOwn'
  <2>1. \A d \in Callers : d # c /\ Inside(d) => call[d].key # call[c].key
    BY DEF HoldersAlone, Inside, Finish
  <2>2. \A d \in Callers : Inside(d)' => d # c /\ call'[d] = call[d]
    BY DEF Finish, Inside, NoCall, TypeOK
  <2>3. \A k \in Keys : k # call[c].key => record'[k] = record[k]
    BY DEF Finish, TypeOK
  <2>4. \A d \in Callers : Inside(d) => call[d].key \in Keys
    BY DEF TypeOK, Call, NoCall, Inside
  <2> QED BY <2>1, <2>2, <2>3, <2>4 DEF HoldersOwn, Inside
<1>3. HoldersAlone'
  BY RecordsAreNotNone, FreshIsAnswer DEF HoldersAlone, HoldersOwn, Inside, TypeOK, Call, NoCall, Finish, Answers, Codes
<1>4. RunsCounted'
  BY RecordsAreNotNone, FreshIsAnswer DEF RunsCounted, HoldersOwn, HoldersAlone,
     Inside, TypeOK, Call, NoCall, Records, Finish, Answers, Codes
<1>5. AnswersWritten'
  BY RecordsAreNotNone, FreshIsAnswer DEF AnswersWritten, RepliesAreGenuine, HoldersOwn, HoldersAlone, Inside,
     TypeOK, Call, NoCall, NoReply, Reply, Records, Finish, Answers, Codes
<1> QED BY <1>1, <1>2, <1>3, <1>4, <1>5

\* So it does when its statement fails.
LEMMA FinishFailsKeeps ==
    ASSUME IInv, NEW c \in Callers, FinishFails(c)
    PROVE  IInv'
<1> USE DEF IInv
<1>1. TypeOK'
  BY RecordsAreNotNone, FreshIsAnswer DEF TypeOK, Call, Records, Reply, NoCall,
     NoReply, FinishFails
<1>2. HoldersOwn'
  BY RecordsAreNotNone, FreshIsAnswer DEF HoldersOwn, Inside, TypeOK, Call, NoCall,
     Records, FinishFails
<1>3. HoldersAlone'
  BY RecordsAreNotNone, FreshIsAnswer DEF HoldersAlone, HoldersOwn, Inside, TypeOK, Call, NoCall, FinishFails
<1>4. RunsCounted'
  BY RecordsAreNotNone, FreshIsAnswer DEF RunsCounted, HoldersOwn, HoldersAlone,
     Inside, TypeOK, Call, NoCall, Records, FinishFails
<1>5. AnswersWritten'
  BY RecordsAreNotNone, FreshIsAnswer DEF AnswersWritten, RepliesAreGenuine, HoldersOwn, HoldersAlone, Inside,
     TypeOK, Call, NoCall, NoReply, Reply, Records, FinishFails
<1> QED BY <1>1, <1>2, <1>3, <1>4, <1>5

\* A request that fails before its handler leaves the keys alone.
LEMMA FailKeeps ==
    ASSUME IInv, NEW c \in Callers, Fail(c)
    PROVE  IInv'
<1> USE DEF IInv
<1>1. TypeOK'
  BY RecordsAreNotNone, FreshIsAnswer DEF TypeOK, Call, Records, Reply, NoCall,
     NoReply, Fail, Answer
<1>2. HoldersOwn'
  BY RecordsAreNotNone, FreshIsAnswer DEF HoldersOwn, Inside, TypeOK, Call, NoCall,
     Records, Fail, Answer
<1>3. HoldersAlone'
  BY RecordsAreNotNone, FreshIsAnswer DEF HoldersAlone, HoldersOwn, Inside, TypeOK, Call, NoCall, Fail, Answer
<1>4. RunsCounted'
  BY RecordsAreNotNone, FreshIsAnswer DEF RunsCounted, HoldersOwn, HoldersAlone,
     Inside, TypeOK, Call, NoCall, Records, Fail, Answer
<1>5. AnswersWritten'
  BY RecordsAreNotNone, FreshIsAnswer DEF AnswersWritten, RepliesAreGenuine, HoldersOwn, HoldersAlone, Inside,
     TypeOK, Call, NoCall, NoReply, Reply, Records, Fail, Answer
<1> QED BY <1>1, <1>2, <1>3, <1>4, <1>5

\* A crash frees no key.
LEMMA CrashKeeps ==
    ASSUME IInv, Crash
    PROVE  IInv'
BY DEF IInv, Crash, TypeOK, HoldersOwn, HoldersAlone, RunsCounted, AnswersWritten,
       RepliesAreGenuine, Inside, NoCall

\* IInv is inductive.
LEMMA StepKeeps ==
    ASSUME IInv, [Next]_vars
    PROVE  IInv'
<1>1. CASE UNCHANGED vars
  BY <1>1 DEF vars, IInv, TypeOK, HoldersOwn, HoldersAlone, RunsCounted, AnswersWritten,
              RepliesAreGenuine, Inside
<1>2. ASSUME NEW c \in Callers, Serve(c)
      PROVE  IInv'
  BY <1>2, AcquireKeeps, ResolveKeeps, RunKeeps, PanicKeeps, FinishKeeps, FinishFailsKeeps,
     FailKeeps DEF Serve
<1> QED BY <1>1, <1>2, SendKeeps, CrashKeeps DEF Next

\* IInv holds of the empty table.
LEMMA InitHolds == Init => IInv
BY DEF Init, IInv, TypeOK, HoldersOwn, HoldersAlone, RunsCounted, AnswersWritten,
       RepliesAreGenuine, Inside, NoCall, NoReply, NoRecord

\* IInv holds in every reachable state.
LEMMA Invariance == Spec => []IInv
<1>1. IInv /\ [Next]_vars => IInv'
  BY StepKeeps
<1> QED BY InitHolds, <1>1, PTL DEF Spec

\* Whatever connections break, panic or repeat, records, calls and replies stay well typed.
THEOREM KeysTyped == Spec => []TypeOK
<1>1. IInv => TypeOK
  BY DEF IInv
<1> QED BY <1>1, Invariance, PTL

\* However many connections repeat a request at once, its handler runs again
\* only after it answered 5xx: not after a refusal, a panic, a failed update or
\* a crash (handleIdempotency, AcquireIdempotencyRecord).
THEOREM RunsAgainOnlyAfterServerError == Spec => []RunsAgainOnlyIfBroken
<1>1. IInv => RunsAgainOnlyIfBroken
  BY DEF IInv, RunsCounted, RunsAgainOnlyIfBroken
<1> QED BY <1>1, Invariance, PTL

\* A repeat is never told what another request was answered.
THEOREM RepliesAlwaysGenuine == Spec => []RepliesAreGenuine
<1>1. IInv => RepliesAreGenuine
  BY DEF IInv, AnswersWritten
<1> QED BY <1>1, Invariance, PTL

\* The answer kept under a key is never replaced.
THEOREM AnswersStayFinal == Spec => AnswersAreFinal
<1> DEFINE Kept == \A k \in Keys :
                      record[k] # NoRecord /\ record[k].ans.body # 0 => record'[k] = record[k]
<1>1. ASSUME IInv, [Next]_vars
      PROVE  Kept
  <2>1. ASSUME NEW c \in Callers, Acquire(c)
        PROVE  Kept
    BY <1>1, <2>1 DEF Acquire, IInv, TypeOK
  <2>2. ASSUME NEW c \in Callers, Finish(c)
        PROVE  Kept
    <3>1. record[call[c].key].ans.body = 0
      BY <1>1, <2>2, HolderFinds DEF Finish, Inside
    <3>2. \A k \in Keys : k # call[c].key => record'[k] = record[k]
      BY <1>1, <2>2 DEF Finish, IInv, TypeOK
    <3> QED BY <3>1, <3>2
  <2>3. CASE UNCHANGED record
    BY <2>3
  <2>4. (\E c \in Callers : Acquire(c) \/ Finish(c)) \/ UNCHANGED record
    BY <1>1 DEF Next, Serve, Send, Resolve, Run, Panic, FinishFails, Fail, Crash, vars
  <2> QED BY <2>1, <2>2, <2>3, <2>4
<1>2. IInv /\ [Next]_vars => [Kept]_vars
  BY <1>1
<1> QED BY <1>2, Invariance, PTL DEF Spec, AnswersAreFinal
=============================================================================
