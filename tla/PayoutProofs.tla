---------------------------- MODULE PayoutProofs ----------------------------
(***************************************************************************)
(* Theorems of module Payout, for any sets of transfers, keys and slots    *)
(* and any bounds: the handlers implement PayoutContract, so that the      *)
(* status of a transfer is legal and never ahead of the partner, and the   *)
(* partner is asked to pay only funded transfers.                          *)
(***************************************************************************)
EXTENDS Payout, TLAPS

(* The steps before the partner's last answer, at which another attempt is
   left. *)
Attempting == {"idle", "sent", "lookup", "check", "select", "insert", "bank"}

(* What a request knows at each step. *)
RequestOK ==
    \A r \in Request :
        /\ pc[r] # "idle" => job[r] \in Job
        /\ pc[r] \in Attempting => attempt[r] < MaxAttempts
        /\ pc[r] \in {"mark", "save", "record"} => result[r] \in Outcome

Typed == TypeOK /\ RequestOK

(* An attempt that is not the last leaves another one. *)
LEMMA AnotherAttempt ==
  ASSUME NEW n \in Nat, n < MaxAttempts, n + 1 # MaxAttempts
  PROVE  n + 1 < MaxAttempts
  BY PayoutAssumption

LEMMA InitTyped == Init => Typed
  BY PayoutAssumption
  DEF Init, Typed, TypeOK, RequestOK, StoredState, InstructionState, Step, Owning, InHandler,
      Attempting, NoJob, NoCallback, Answer, Outcome, Terminal, IdemKey

LEMMA NextTyped == Typed /\ [Next]_vars => Typed'
  <1> SUFFICES ASSUME Typed, [Next]_vars PROVE Typed'
    OBVIOUS
  <1> USE PayoutAssumption
      DEF Typed, TypeOK, RequestOK, Step, Owning, InHandler, Attempting, Answer, Outcome,
          Goto, Reply, dbVars, requestVars
  <1>1. ASSUME NEW t \in Transfer, ConfirmFunding(t) PROVE Typed'
    BY <1>1 DEF ConfirmFunding, StoredState
  <1>2. ASSUME NEW r \in Request, NEW t \in Transfer, NEW k \in IdemKey, Post(r, t, k)
        PROVE  Typed'
    BY <1>2 DEF Post, Job
  <1>3. ASSUME NEW r \in Request, Reserve(r) PROVE Typed'
    BY <1>3 DEF Reserve, Job
  <1>4. ASSUME NEW r \in Request, FindReserved(r) PROVE Typed'
    BY <1>4 DEF FindReserved
  <1>5. ASSUME NEW r \in Request, Poll(r) PROVE Typed'
    <2>1. job[r] \in Job
      BY <1>5 DEF Poll
    <2>2. result' \in [Request -> Answer \cup {"none"}]
      BY <1>5, <2>1 DEF Poll, Job
    <2> QED BY <1>5, <2>2 DEF Poll
  <1>6. ASSUME NEW r \in Request, Lookup(r) PROVE Typed'
    <2>1. CASE Goto(r, "check") /\ UNCHANGED result
      BY <1>6, <2>1 DEF Lookup
    <2>2. CASE Goto(r, "record") /\ inner[job[r].t][job[r].k] \in Outcome
               /\ result' = [result EXCEPT ![r] = inner[job[r].t][job[r].k]]
      BY <1>6, <2>2 DEF Lookup
    <2> QED BY <1>6, <2>1, <2>2 DEF Lookup
  <1>7. ASSUME NEW r \in Request, Check(r) PROVE Typed'
    <2>1. CASE Goto(r, "select") /\ UNCHANGED result
      BY <1>7, <2>1 DEF Check
    <2>2. CASE Goto(r, "release") /\ result' = [result EXCEPT ![r] = "state_invalid"]
      BY <1>7, <2>2 DEF Check
    <2> QED BY <1>7, <2>1, <2>2 DEF Check
  <1>8. ASSUME NEW r \in Request, Select(r) PROVE Typed'
    BY <1>8 DEF Select
  <1>9. ASSUME NEW r \in Request, Insert(r) PROVE Typed'
    <2>1. CASE /\ instruction' = [instruction EXCEPT ![job[r].t] = "PENDING"]
               /\ Goto(r, "bank")
               /\ UNCHANGED result
      BY <1>9, <2>1 DEF Insert, Job, InstructionState
    <2>2. CASE /\ Goto(r, "release")
               /\ result' = [result EXCEPT ![r] = "error"]
               /\ UNCHANGED instruction
      BY <1>9, <2>2 DEF Insert
    <2> QED BY <1>9, <2>1, <2>2 DEF Insert
  <1>10. ASSUME NEW r \in Request, BankAccepts(r) PROVE Typed'
    BY <1>10 DEF BankAccepts, Accepted, Job
  <1>11. ASSUME NEW r \in Request, BankUnavailable(r) PROVE Typed'
    <2>1. job[r].t \in Transfer /\ job[r].k \in IdemKey
      BY <1>11 DEF BankUnavailable, Job
    <2>2. Accepted(job[r].t, job[r].k) \in
            [Transfer -> [IdemKey -> {"none", "accepted"} \cup Terminal]]
      BY <2>1 DEF Accepted
    <2>3. bank' \in [Transfer -> [IdemKey -> {"none", "accepted"} \cup Terminal]]
      BY <1>11, <2>2 DEF BankUnavailable
    <2>4. attempt[r] \in Nat /\ attempt[r] < MaxAttempts
          /\ attempt' = [attempt EXCEPT ![r] = attempt[r] + 1]
      BY <1>11 DEF BankUnavailable
    <2>5. attempt' \in [Request -> 0 .. MaxAttempts]
      BY <2>4
    <2>6. CASE attempt[r] + 1 = MaxAttempts
      BY <1>11, <2>3, <2>4, <2>5, <2>6 DEF BankUnavailable
    <2>7. CASE attempt[r] + 1 # MaxAttempts
      <3>1. pc' = pc /\ result' = result
        BY <1>11, <2>7 DEF BankUnavailable
      <3>2. attempt'[r] < MaxAttempts
        <4>1. attempt'[r] = attempt[r] + 1
          BY <2>4
        <4> QED BY <4>1, <2>4, <2>7, AnotherAttempt
      <3>3. \A q \in Request : q # r => attempt'[q] = attempt[q]
        BY <2>4
      <3>4. UNCHANGED <<transfer, instruction, outer, inner, job, callback, faults>>
        BY <1>11 DEF BankUnavailable
      <3>5. RequestOK'
        BY <3>1, <3>2, <3>3, <3>4
      <3> QED BY <2>3, <2>5, <3>1, <3>4, <3>5
    <2> QED BY <2>6, <2>7
  <1>12. ASSUME NEW r \in Request, BankRejects(r) PROVE Typed'
    BY <1>12 DEF BankRejects, Job
  <1>13. ASSUME NEW r \in Request, MarkInitiated(r) PROVE Typed'
    BY <1>13 DEF MarkInitiated, Job, StoredState, InstructionState
  <1>14. ASSUME NEW r \in Request, MarkReviewRequired(r) PROVE Typed'
    BY <1>14 DEF MarkReviewRequired, Job, StoredState, InstructionState
  <1>15. ASSUME NEW r \in Request, Save(r) PROVE Typed'
    BY <1>15 DEF Save, Job
  <1>16. ASSUME NEW r \in Request, Record(r) PROVE Typed'
    BY <1>16 DEF Record, Job
  <1>17. ASSUME NEW r \in Request, Release(r) PROVE Typed'
    BY <1>17 DEF Release, Job
  <1>18. ASSUME NEW r \in Request, QueryFails(r) PROVE Typed'
    BY <1>18 DEF QueryFails
  <1>19. ASSUME NEW r \in Request, Crash(r) PROVE Typed'
    BY <1>19 DEF Crash
  <1>20. ASSUME NEW r \in Request, Consume(r) PROVE Typed'
    BY <1>20 DEF Consume
  <1>21. ASSUME NEW t \in Transfer, NEW k \in IdemKey, NEW s \in Terminal, BankSettles(t, k, s)
         PROVE  Typed'
    BY <1>21 DEF BankSettles
  <1>22. ASSUME NEW c \in Callback, NEW t \in Transfer, NEW s \in Terminal, CallbackRead(c, t, s)
         PROVE  Typed'
    BY <1>22 DEF CallbackRead
  <1>23. ASSUME NEW c \in Callback, CallbackWrite(c) PROVE Typed'
    BY <1>23 DEF CallbackWrite, Terminal, StoredState, InstructionState
  <1>24. ASSUME NEW c \in Callback, CallbackLost(c) PROVE Typed'
    BY <1>24 DEF CallbackLost
  <1>25. CASE UNCHANGED vars
    BY <1>25 DEF vars
  <1> QED
    BY <1>1, <1>2, <1>3, <1>4, <1>5, <1>6, <1>7, <1>8, <1>9, <1>10, <1>11, <1>12,
       <1>13, <1>14, <1>15, <1>16, <1>17, <1>18, <1>19, <1>20, <1>21, <1>22, <1>23, <1>24,
       <1>25
    DEF Next, Orchestrate, Handle, Callbacks, PostAuto, PostOpsRetry, IdemKey

(* Every variable of the orchestrator keeps its type, for any number of
   requests and attempts. *)
THEOREM TypeCorrect == Spec => []TypeOK
  <1>1. Typed => TypeOK
    BY DEF Typed
  <1> QED BY InitTyped, NextTyped, <1>1, PTL DEF Spec

-----------------------------------------------------------------------------
Unpaid == {"AWAITING_FUNDING", "FUNDING_CONFIRMED"}

(* What a request has established and still relies on, several awaits later:
   other requests and callbacks may have moved the transfer meanwhile, but
   never back. *)
Remembered(r) ==
    LET t == job[r].t  k == job[r].k IN
    /\ pc[r] \in {"select", "insert", "bank", "mark"} => transfer[t] # "AWAITING_FUNDING"
    /\ pc[r] \in {"mark", "save", "record"} /\ result[r] = "initiated" => bank[t][k] # "none"
    /\ pc[r] \in {"save", "record"} => transfer[t] \notin Unpaid

(* A callback in flight reports what the partner did. *)
CallbackOK ==
    \A c \in Callback : callback[c] # NoCallback =>
        \E k \in IdemKey : bank[callback[c].t][k] = callback[c].s

Inv ==
    /\ Typed
    /\ \A r \in Request : Remembered(r)
    /\ CallbackOK
    /\ PaidOnlyIfFunded
    /\ AnswerTruthful

(* No step takes a transfer back, makes the partner forget a payout, or changes
   one it has settled. *)
Monotone ==
    \A t \in Transfer :
        /\ transfer[t] # "AWAITING_FUNDING" => transfer'[t] # "AWAITING_FUNDING"
        /\ transfer[t] \notin Unpaid => transfer'[t] \notin Unpaid
        /\ \A k \in IdemKey :
              /\ bank[t][k] # "none" => bank'[t][k] # "none"
              /\ bank[t][k] \in Terminal => bank'[t][k] = bank[t][k]

LEMMA InitInv == Init => Inv
  BY InitTyped
  DEF Init, Inv, Remembered, CallbackOK, PaidOnlyIfFunded, AnswerTruthful, Job, Outcome

LEMMA NextMonotone ==
  ASSUME Typed, [Next]_vars
  PROVE  Monotone
  <1> USE DEF Typed, TypeOK, RequestOK, Monotone, Unpaid, Terminal, dbVars, requestVars
  <1>1. CASE UNCHANGED <<transfer, bank>>
    BY <1>1
  <1>2. ASSUME NEW t \in Transfer, ConfirmFunding(t) PROVE Monotone
    BY <1>2 DEF ConfirmFunding
  <1>3. ASSUME NEW r \in Request, pc[r] = "bank", UNCHANGED transfer,
               bank' \in {bank, Accepted(job[r].t, job[r].k)}
        PROVE  Monotone
    <2>1. job[r].t \in Transfer /\ job[r].k \in IdemKey
      BY <1>3 DEF Job
    <2>2. bank' = Accepted(job[r].t, job[r].k) => Monotone
      BY <1>3, <2>1 DEF Accepted
    <2> QED BY <1>1, <1>3, <2>2
  <1>4. ASSUME NEW t \in Transfer, NEW k \in IdemKey, NEW s \in Terminal, BankSettles(t, k, s)
        PROVE  Monotone
    BY <1>4 DEF BankSettles
  <1>5. ASSUME NEW r \in Request, MarkInitiated(r) \/ MarkReviewRequired(r)
        PROVE  Monotone
    BY <1>5 DEF MarkInitiated, MarkReviewRequired, Job
  <1>6. ASSUME NEW c \in Callback, CallbackWrite(c) PROVE Monotone
    BY <1>6 DEF CallbackWrite
  <1>7. ASSUME NEW r \in Request, BankAccepts(r) \/ BankUnavailable(r) PROVE Monotone
    BY <1>3, <1>7 DEF BankAccepts, BankUnavailable
  <1>8. ASSUME NEW r \in Request,
               \/ Reserve(r) \/ FindReserved(r) \/ Poll(r) \/ Lookup(r) \/ Check(r)
               \/ Select(r) \/ Insert(r) \/ BankRejects(r) \/ Save(r) \/ Record(r)
               \/ Release(r) \/ QueryFails(r) \/ Crash(r) \/ Consume(r)
        PROVE  UNCHANGED <<transfer, bank>>
    BY <1>8 DEF Reserve, FindReserved, Poll, Lookup, Check, Select, Insert, BankRejects,
                Save, Record, Release, QueryFails, Crash, Consume
  <1>9. ASSUME NEW r \in Request, NEW t \in Transfer, NEW k \in IdemKey, Post(r, t, k)
        PROVE  UNCHANGED <<transfer, bank>>
    BY <1>9 DEF Post
  <1>10. ASSUME NEW c \in Callback,
                CallbackLost(c) \/ \E t \in Transfer, s \in Terminal : CallbackRead(c, t, s)
         PROVE  UNCHANGED <<transfer, bank>>
    BY <1>10 DEF CallbackLost, CallbackRead
  <1>11. CASE UNCHANGED vars
    BY <1>1, <1>11 DEF vars
  <1> QED
    <2> HIDE DEF Typed, TypeOK, RequestOK, Monotone, Unpaid, Terminal
    <2> QED
      BY <1>1, <1>2, <1>4, <1>5, <1>6, <1>7, <1>8, <1>9, <1>10, <1>11
      DEF Next, Orchestrate, Handle, Callbacks, PostAuto, PostOpsRetry, IdemKey

(* What the steps of the others leave true. *)
LEMMA StillRemembered ==
  ASSUME Inv, Monotone, NEW r \in Request,
         pc'[r] = pc[r], job'[r] = job[r], result'[r] = result[r]
  PROVE  Remembered(r)'
  <1>1. (job[r].t \in Transfer /\ job[r].k \in IdemKey) \/ pc[r] = "idle"
    BY DEF Inv, Typed, RequestOK, Job
  <1> QED BY <1>1 DEF Inv, Remembered, Monotone

LEMMA StillReported ==
  ASSUME Inv, Monotone, NEW c \in Callback, callback'[c] = callback[c], callback[c] # NoCallback
  PROVE  \E k \in IdemKey : bank'[callback'[c].t][k] = callback'[c].s
  <1>1. callback[c].t \in Transfer /\ callback[c].s \in Terminal
    BY DEF Inv, Typed, TypeOK
  <1> QED BY <1>1 DEF Inv, CallbackOK, Monotone

LEMMA StillTruthful ==
  ASSUME Inv, Monotone, UNCHANGED <<outer, inner>>
  PROVE  AnswerTruthful'
  BY DEF Inv, AnswerTruthful, Monotone, Unpaid, Outcome

LEMMA StillFunded ==
  ASSUME Inv, Monotone,
         \A t \in Transfer, k \in IdemKey :
             bank'[t][k] # "none" => bank[t][k] # "none" \/ transfer[t] # "AWAITING_FUNDING"
  PROVE  PaidOnlyIfFunded'
  BY DEF Inv, PaidOnlyIfFunded, Monotone

LEMMA NextInv == Inv /\ [Next]_vars => Inv'
  <1> SUFFICES ASSUME Inv, [Next]_vars PROVE Inv'
    OBVIOUS
  <1>a. Typed' /\ Monotone
    BY NextTyped, NextMonotone DEF Inv
  <1> DEFINE Quiet(r) == UNCHANGED <<bank, callback>>
                         /\ \A q \in Request \ {r} :
                              pc'[q] = pc[q] /\ job'[q] = job[q] /\ result'[q] = result[q]
  <1>b. ASSUME NEW r \in Request, Quiet(r), Remembered(r)', AnswerTruthful' PROVE Inv'
    <2>1. \A q \in Request : Remembered(q)'
      BY <1>a, <1>b, StillRemembered
    <2>2. CallbackOK'
      BY <1>a, <1>b, StillReported DEF CallbackOK
    <2>3. PaidOnlyIfFunded'
      BY <1>a, <1>b, StillFunded
    <2> QED BY <1>a, <1>b, <2>1, <2>2, <2>3 DEF Inv
  <1>1. ASSUME NEW r \in Request,
               \/ \E t \in Transfer, k \in IdemKey : Post(r, t, k)
               \/ Consume(r) \/ FindReserved(r) \/ Poll(r) \/ QueryFails(r) \/ Crash(r)
        PROVE  Inv'
    <2>1. Quiet(r) /\ UNCHANGED <<outer, inner>>
      BY <1>1 DEF Inv, Typed, TypeOK, Post, Consume, FindReserved, Poll, QueryFails, Crash,
                  Goto, Reply, dbVars, requestVars
    <2>2. pc'[r] \in {"sent", "idle", "poll", "answered", "release"}
      BY <1>1 DEF Inv, Typed, TypeOK, Post, Consume, FindReserved, Poll, QueryFails, Crash,
                  Goto, Reply
    <2> QED BY <1>a, <1>b, <2>1, <2>2, StillTruthful DEF Remembered
  <1>2. ASSUME NEW r \in Request, Reserve(r) \/ Release(r) PROVE Inv'
    <2>1. Quiet(r) /\ UNCHANGED inner
      BY <1>2 DEF Inv, Typed, TypeOK, Reserve, Release, Goto
    <2>2. pc'[r] \in {"lookup", "answered"}
      BY <1>2 DEF Inv, Typed, TypeOK, Reserve, Release, Goto
    <2>3. \A t \in Transfer, k \in IdemKey :
             outer'[t][k] \in {outer[t][k], "reserved", "absent"}
      <3>1. CASE Reserve(r)
        BY <3>1 DEF Inv, Typed, TypeOK, Reserve
      <3>2. CASE Release(r)
        BY <3>2 DEF Inv, Typed, TypeOK, Release
      <3> QED BY <1>2, <3>1, <3>2
    <2>4. AnswerTruthful'
      BY <1>a, <2>1, <2>3 DEF Inv, AnswerTruthful, Monotone, Unpaid, Outcome
    <2> QED BY <1>b, <2>1, <2>2, <2>4 DEF Remembered
  <1>3. ASSUME NEW r \in Request, Lookup(r) \/ Check(r) \/ Select(r) \/ Insert(r) PROVE Inv'
    <2>1. Quiet(r) /\ UNCHANGED <<transfer, outer, inner, job>>
      BY <1>3 DEF Inv, Typed, TypeOK, Lookup, Check, Select, Insert, Goto, dbVars
    <2>2. job[r].t \in Transfer /\ job[r].k \in IdemKey
      BY <1>3 DEF Inv, Typed, RequestOK, Job, Lookup, Check, Select, Insert
    <2>3. Remembered(r)'
      <3>1. CASE Lookup(r)
        <4>1. CASE pc'[r] = "record" /\ result'[r] = inner[job[r].t][job[r].k]
                   /\ result'[r] \in Outcome
          BY <2>1, <2>2, <4>1 DEF Inv, AnswerTruthful, Remembered, Unpaid, Outcome
        <4>2. CASE pc'[r] = "check"
          BY <4>2 DEF Remembered
        <4> QED BY <3>1, <4>1, <4>2 DEF Inv, Typed, TypeOK, Lookup, Goto
      <3>2. CASE Check(r)
        BY <2>1, <3>2 DEF Inv, Typed, TypeOK, Check, Goto, Remembered
      <3>3. CASE Select(r) \/ Insert(r)
        BY <2>1, <3>3 DEF Inv, Typed, TypeOK, Select, Insert, Goto, Remembered
      <3> QED BY <1>3, <3>1, <3>2, <3>3
    <2> QED BY <1>a, <1>b, <2>1, <2>3, StillTruthful
  <1>4. ASSUME NEW r \in Request, BankRejects(r) PROVE Inv'
    <2>1. Quiet(r) /\ UNCHANGED <<transfer, outer, inner, job>>
      BY <1>4 DEF Inv, Typed, TypeOK, BankRejects, Goto, dbVars
    <2>2. Remembered(r)'
      BY <1>4, <2>1 DEF Inv, Typed, TypeOK, BankRejects, Goto, Remembered
    <2> QED BY <1>a, <1>b, <2>1, <2>2, StillTruthful
  <1>5. ASSUME NEW r \in Request, MarkInitiated(r) \/ MarkReviewRequired(r) PROVE Inv'
    <2>1. Quiet(r) /\ UNCHANGED <<outer, inner, job, result>> /\ pc'[r] = "save"
      BY <1>5 DEF Inv, Typed, TypeOK, MarkInitiated, MarkReviewRequired, Goto
    <2>2. job[r].t \in Transfer /\ transfer[job[r].t] # "AWAITING_FUNDING"
      BY <1>5 DEF Inv, Typed, RequestOK, Job, Remembered, MarkInitiated, MarkReviewRequired
    <2>3. transfer'[job[r].t] \notin Unpaid
      BY <1>5, <2>2 DEF Inv, Typed, TypeOK, StoredState, Unpaid, MarkInitiated, MarkReviewRequired
    <2>4. result[r] = "initiated" => bank[job[r].t][job[r].k] # "none"
      BY <1>5 DEF Inv, Remembered, MarkInitiated, MarkReviewRequired
    <2>5. Remembered(r)'
      BY <2>1, <2>3, <2>4 DEF Remembered
    <2> QED BY <1>a, <1>b, <2>1, <2>5, StillTruthful
  <1>6. ASSUME NEW r \in Request, Save(r) \/ Record(r) PROVE Inv'
    <2>1. Quiet(r) /\ UNCHANGED <<transfer, job, result>> /\ pc'[r] \in {"record", "answered"}
      BY <1>6 DEF Inv, Typed, TypeOK, Save, Record, Goto
    <2>2. /\ job[r].t \in Transfer /\ job[r].k \in IdemKey
          /\ transfer[job[r].t] \notin Unpaid
          /\ result[r] = "initiated" => bank[job[r].t][job[r].k] # "none"
      BY <1>6 DEF Inv, Typed, RequestOK, Job, Remembered, Save, Record
    <2>3. Remembered(r)'
      BY <2>1, <2>2 DEF Remembered
    <2>4. \A t \in Transfer, k \in IdemKey :
             /\ outer'[t][k] = outer[t][k]
                \/ (t = job[r].t /\ k = job[r].k /\ outer'[t][k] = result[r])
             /\ inner'[t][k] = inner[t][k]
                \/ (t = job[r].t /\ k = job[r].k /\ inner'[t][k] = result[r])
      <3>1. CASE Save(r)
        BY <3>1, <2>2 DEF Inv, Typed, TypeOK, Save
      <3>2. CASE Record(r)
        BY <3>2, <2>2 DEF Inv, Typed, TypeOK, Record
      <3> QED BY <1>6, <3>1, <3>2
    <2>5. AnswerTruthful'
      BY <2>1, <2>2, <2>4 DEF Inv, AnswerTruthful, Unpaid
    <2> QED BY <1>a, <1>b, <2>1, <2>3, <2>5
  <1>7. ASSUME NEW r \in Request, BankAccepts(r) \/ BankUnavailable(r) PROVE Inv'
    <2>1. /\ UNCHANGED <<transfer, outer, inner, job, callback>>
          /\ \A q \in Request \ {r} : pc'[q] = pc[q] /\ result'[q] = result[q]
      BY <1>7 DEF Inv, Typed, TypeOK, BankAccepts, BankUnavailable, Goto, dbVars
    <2>2. job[r].t \in Transfer /\ job[r].k \in IdemKey /\ transfer[job[r].t] # "AWAITING_FUNDING"
      BY <1>7 DEF Inv, Typed, RequestOK, Job, Remembered, BankAccepts, BankUnavailable
    <2>3. bank' \in {bank, Accepted(job[r].t, job[r].k)}
      BY <1>7 DEF BankAccepts, BankUnavailable
    <2>4. \A t \in Transfer, k \in IdemKey :
             bank'[t][k] # "none" => bank[t][k] # "none" \/ transfer[t] # "AWAITING_FUNDING"
      BY <2>2, <2>3 DEF Inv, Typed, TypeOK, Accepted
    <2>5. /\ pc'[r] \in {"bank", "mark"}
          /\ pc'[r] = "mark" /\ result'[r] = "initiated" => BankAccepts(r)
      BY <1>7 DEF Inv, Typed, TypeOK, BankAccepts, BankUnavailable, Goto
    <2>6. BankAccepts(r) => bank'[job[r].t][job[r].k] # "none"
      BY <2>2 DEF Inv, Typed, TypeOK, BankAccepts, Accepted
    <2>7. Remembered(r)'
      BY <2>1, <2>2, <2>5, <2>6 DEF Remembered
    <2>8. \A q \in Request : Remembered(q)'
      BY <1>a, <2>1, <2>7, StillRemembered
    <2>9. CallbackOK'
      BY <1>a, <2>1, StillReported DEF CallbackOK
    <2> QED BY <1>a, <2>1, <2>4, <2>8, <2>9, StillFunded, StillTruthful DEF Inv
  <1>8. ASSUME UNCHANGED <<pc, job, result, outer, inner>>,
               \A c \in Callback : callback'[c] # NoCallback =>
                   \/ callback'[c] = callback[c]
                   \/ \E k \in IdemKey : bank'[callback'[c].t][k] = callback'[c].s,
               \A t \in Transfer, k \in IdemKey : bank'[t][k] # "none" => bank[t][k] # "none"
        PROVE  Inv'
    <2>1. \A q \in Request : Remembered(q)'
      BY <1>a, <1>8, StillRemembered
    <2>2. CallbackOK'
      BY <1>a, <1>8, StillReported DEF CallbackOK
    <2> QED BY <1>a, <1>8, <2>1, <2>2, StillFunded, StillTruthful DEF Inv
  <1>9. ASSUME NEW t \in Transfer, ConfirmFunding(t) PROVE Inv'
    BY <1>8, <1>9 DEF ConfirmFunding, requestVars
  <1>10. ASSUME NEW t \in Transfer, NEW k \in IdemKey, NEW s \in Terminal, BankSettles(t, k, s)
         PROVE  Inv'
    <2>1. \A u \in Transfer, j \in IdemKey : bank'[u][j] # "none" => bank[u][j] # "none"
      BY <1>10 DEF BankSettles, Inv, Typed, TypeOK
    <2> QED BY <1>8, <1>10, <2>1 DEF BankSettles, requestVars, dbVars
  <1>11. ASSUME NEW c \in Callback, NEW t \in Transfer, NEW s \in Terminal, CallbackRead(c, t, s)
         PROVE  Inv'
    <2>1. \A d \in Callback : callback'[d] # NoCallback =>
             \/ callback'[d] = callback[d]
             \/ \E k \in IdemKey : bank'[callback'[d].t][k] = callback'[d].s
      BY <1>11 DEF CallbackRead, Inv, Typed, TypeOK
    <2> QED BY <1>8, <1>11, <2>1 DEF CallbackRead, requestVars, dbVars
  <1>12. ASSUME NEW c \in Callback, CallbackWrite(c) \/ CallbackLost(c) PROVE Inv'
    <2>1. \A d \in Callback : callback'[d] \in {callback[d], NoCallback}
      BY <1>12 DEF CallbackWrite, CallbackLost, Inv, Typed, TypeOK
    <2> QED BY <1>8, <1>12, <2>1 DEF CallbackWrite, CallbackLost, requestVars, dbVars
  <1>13. CASE UNCHANGED vars
    BY <1>8, <1>13 DEF vars, requestVars, dbVars
  <1> QED
    BY <1>1, <1>2, <1>3, <1>4, <1>5, <1>6, <1>7, <1>9, <1>10, <1>11, <1>12, <1>13
    DEF Next, Orchestrate, Handle, Callbacks, PostAuto, PostOpsRetry, IdemKey

LEMMA Invariance == Spec => []Inv
  BY InitInv, NextInv, PTL DEF Spec

(* The partner is asked to pay only funded transfers, although the check and the
   call are several awaits apart. *)
THEOREM OnlyFundedPaid == Spec => []PaidOnlyIfFunded
  <1>1. Inv => PaidOnlyIfFunded
    BY DEF Inv
  <1> QED BY Invariance, <1>1, PTL

(* What a stored response says has happened. *)
THEOREM AnswersTruthful == Spec => []AnswerTruthful
  <1>1. Inv => AnswerTruthful
    BY DEF Inv
  <1> QED BY Invariance, <1>1, PTL

-----------------------------------------------------------------------------
(***************************************************************************)
(* The two rows agree.  Without a fault a reservation has one owner, the   *)
(* request that will store the outcome or delete it; so until a manual     *)
(* retry goes as far as the partner, one request marks both rows, once,    *)
(* and the callbacks report the one payout there is.                       *)
(***************************************************************************)

Late == {"bank", "mark", "save", "record"}

(* A manual retry of t has gone as far as the partner. *)
RetriedByHand(t) ==
    \E k \in OpsKey :
        \/ outer[t][k] \in Outcome
        \/ \E r \in Request :
              job[r] = [t |-> t, k |-> k] /\ pc[r] \in Late

Marked(t) == instruction[t] \notin {"none", "PENDING"}

(* The owner of a reservation, and no second one. *)
OwnersReserve ==
    /\ \A r \in Request : pc[r] \in Owning => outer[job[r].t][job[r].k] = "reserved"
    /\ \A r, q \in Request : pc[r] \in Owning /\ pc[q] \in Owning /\ job[r] = job[q] => r = q

(* Once t is marked, no request of the event can mark it again. *)
MarkedOnce(t) ==
    /\ outer[t][AutoKey] # "absent"
    /\ \A r \in Request :
          job[r] = [t |-> t, k |-> AutoKey] => pc[r] \notin Owning \ {"save", "record"}

RowsOf(t) ==
    /\ \A k \in OpsKey : bank[t][k] = "none"
    /\ ~Marked(t) => transfer[t] \in Unpaid
    /\ Marked(t) => instruction[t] = transfer[t] /\ MarkedOnce(t)
    /\ \A c \in Callback : callback[c] # NoCallback /\ callback[c].t = t =>
          instruction[t] \in {"PAYOUT_INITIATED", callback[c].s}

Agreeing == OwnersReserve /\ \A t \in Transfer : ~RetriedByHand(t) => RowsOf(t)

LEMMA InitAgreeing == Init => Agreeing
  BY DEF Init, Agreeing, OwnersReserve, RetriedByHand, RowsOf, Marked, MarkedOnce, Outcome,
         Owning, InHandler, Unpaid, NoJob, NoCallback, IdemKey

(* The steps of a request that has no reservation, before or after. *)
LEMMA BystanderAgrees ==
  ASSUME Typed, Agreeing, NEW r \in Request, pc[r] \notin Owning, pc'[r] \notin Owning,
         \A q \in Request \ {r} : pc'[q] = pc[q] /\ job'[q] = job[q],
         UNCHANGED <<transfer, instruction, outer, bank, callback>>
  PROVE  Agreeing'
  <1>1. OwnersReserve'
    BY DEF Agreeing, OwnersReserve
  <1>2. \A t \in Transfer : RetriedByHand(t)' <=> RetriedByHand(t)
    BY DEF RetriedByHand, Owning, InHandler, Late
  <1>3. \A t \in Transfer : RowsOf(t) => RowsOf(t)'
    BY DEF RowsOf, Marked, MarkedOnce
  <1> QED BY <1>1, <1>2, <1>3 DEF Agreeing

(* Steps that are not of a request. *)
LEMMA OutsideAgrees ==
  ASSUME Agreeing, UNCHANGED <<outer, pc, job>>, \A t \in Transfer : RowsOf(t) => RowsOf(t)'
  PROVE  Agreeing'
  BY DEF Agreeing, OwnersReserve, RetriedByHand

LEMMA ReserveAgrees ==
  ASSUME Typed, Agreeing, NEW r \in Request, Reserve(r)
  PROVE  Agreeing'
  <1> DEFINE t == job[r].t
             k == job[r].k
  <1>1. t \in Transfer /\ k \in IdemKey /\ job[r] = [t |-> t, k |-> k]
    BY DEF Typed, RequestOK, Job, Reserve
  <1>2. /\ pc[r] = "sent" /\ pc' = [pc EXCEPT ![r] = "lookup"] /\ outer[t][k] = "absent"
        /\ \A u \in Transfer, j \in IdemKey :
              outer'[u][j] = IF u = t /\ j = k THEN "reserved" ELSE outer[u][j]
        /\ UNCHANGED <<transfer, instruction, bank, job, callback>>
    BY <1>1 DEF Typed, TypeOK, Reserve, Goto
  <1>3. \A q \in Request : pc'[q] = IF q = r THEN "lookup" ELSE pc[q]
    BY <1>2 DEF Typed, TypeOK
  <1>4. \A q \in Request : pc[q] \in Owning =>
           /\ job[q] # job[r]
           /\ job[q].t \in Transfer /\ job[q].k \in IdemKey
           /\ job[q] = [t |-> job[q].t, k |-> job[q].k]
    BY <1>2 DEF Agreeing, OwnersReserve, Typed, RequestOK, Job, Owning, InHandler
  <1> HIDE DEF t, k
  <1>5. OwnersReserve'
    <2>1. ASSUME NEW q \in Request, pc'[q] \in Owning
          PROVE  outer'[job'[q].t][job'[q].k] = "reserved"
      <3>1. CASE q = r
        BY <1>1, <1>2, <3>1 DEF t, k
      <3>2. CASE q # r
        <4>1. pc[q] \in Owning
          BY <1>3, <2>1, <3>2
        <4>2. outer[job[q].t][job[q].k] = "reserved"
          BY <4>1 DEF Agreeing, OwnersReserve
        <4> QED BY <1>1, <1>2, <1>4, <4>1, <4>2
      <3> QED BY <3>1, <3>2
    <2>2. ASSUME NEW p \in Request, NEW q \in Request,
                 pc'[p] \in Owning, pc'[q] \in Owning, job'[p] = job'[q]
          PROVE  p = q
      <3>1. (p # r => pc[p] \in Owning) /\ (q # r => pc[q] \in Owning)
        BY <1>3, <2>2
      <3> QED BY <1>2, <1>4, <2>2, <3>1 DEF Agreeing, OwnersReserve
    <2> QED BY <2>1, <2>2 DEF OwnersReserve
  <1>6. ASSUME NEW u \in Transfer, RetriedByHand(u) PROVE RetriedByHand(u)'
    <2>1. \A j \in OpsKey : j \in IdemKey /\ (outer[u][j] \in Outcome => outer'[u][j] \in Outcome)
      BY <1>2 DEF IdemKey, Outcome
    <2> QED BY <1>2, <1>3, <1>6, <2>1 DEF RetriedByHand, Late
  <1>7. ASSUME NEW u \in Transfer, RowsOf(u) PROVE RowsOf(u)'
    <2>1. MarkedOnce(u) => MarkedOnce(u)'
      <3>1. AutoKey \in IdemKey
        BY DEF IdemKey
      <3> QED BY <1>1, <1>2, <1>3, <3>1 DEF MarkedOnce
    <2> QED BY <1>2, <1>7, <2>1 DEF RowsOf, Marked
  <1> QED BY <1>5, <1>6, <1>7 DEF Agreeing


(* A step that keeps its reservation. *)
LEMMA OwnerMoves ==
  ASSUME Agreeing, NEW r \in Request, pc[r] \in Owning, pc'[r] \in Owning,
         pc[r] \in Late => pc'[r] \in Late,
         \A q \in Request \ {r} : pc'[q] = pc[q], UNCHANGED <<outer, job>>
  PROVE  /\ OwnersReserve'
         /\ \A t \in Transfer : RetriedByHand(t) => RetriedByHand(t)'
  <1>1. OwnersReserve'
    BY DEF Agreeing, OwnersReserve
  <1>2. \A t \in Transfer : RetriedByHand(t) => RetriedByHand(t)'
    BY DEF RetriedByHand
  <1> QED BY <1>1, <1>2

LEMMA LookAgrees ==
  ASSUME Typed, Agreeing, NEW r \in Request, Lookup(r) \/ Check(r) \/ Select(r) \/ Insert(r)
  PROVE  Agreeing'
  <1>1. job[r].t \in Transfer /\ job[r].k \in IdemKey /\ job[r] = [t |-> job[r].t, k |-> job[r].k]
    BY DEF Typed, RequestOK, Job, Lookup, Check, Select, Insert
  <1>2. /\ pc[r] \in {"lookup", "check", "select", "insert"}
        /\ pc'[r] \in {"check", "record", "select", "release", "insert", "bank"}
        /\ \A q \in Request \ {r} : pc'[q] = pc[q]
        /\ UNCHANGED <<transfer, outer, bank, job, callback>>
    BY DEF Typed, TypeOK, Lookup, Check, Select, Insert, Goto, dbVars
  <1>3. \/ instruction' = instruction
        \/ /\ instruction' = [instruction EXCEPT ![job[r].t] = "PENDING"]
           /\ instruction[job[r].t] = "none"
    BY DEF Lookup, Check, Select, Insert, dbVars
  <1>4. OwnersReserve' /\ \A t \in Transfer : RetriedByHand(t) => RetriedByHand(t)'
    BY <1>2, OwnerMoves DEF Owning, InHandler, Late
  <1>5. ASSUME NEW t \in Transfer, RowsOf(t) PROVE RowsOf(t)'
    <2>1. Marked(t) => job[r] # [t |-> t, k |-> AutoKey]
      BY <1>2, <1>5 DEF RowsOf, MarkedOnce, Owning, InHandler
    <2>2. /\ Marked(t)' <=> Marked(t)
          /\ Marked(t) => instruction'[t] = instruction[t]
      BY <1>3 DEF Marked, Typed, TypeOK
    <2>3. Marked(t) => MarkedOnce(t)'
      BY <1>2, <1>5, <2>1 DEF RowsOf, MarkedOnce
    <2>4. \A c \in Callback : callback'[c] # NoCallback /\ callback'[c].t = t =>
             instruction'[t] \in {"PAYOUT_INITIATED", callback'[c].s}
      <3> SUFFICES ASSUME NEW c \in Callback, callback'[c] # NoCallback, callback'[c].t = t
                   PROVE  instruction'[t] \in {"PAYOUT_INITIATED", callback'[c].s}
        OBVIOUS
      <3>1. instruction[t] \in {"PAYOUT_INITIATED", callback[c].s} /\ callback[c].s \in Terminal
        BY <1>2, <1>5 DEF RowsOf, Typed, TypeOK
      <3>2. Marked(t)
        BY <3>1 DEF Marked, Terminal
      <3> QED BY <1>2, <2>2, <3>1, <3>2
    <2> QED BY <1>2, <1>5, <2>2, <2>3, <2>4 DEF RowsOf
  <1> QED BY <1>4, <1>5 DEF Agreeing

LEMMA BankAgrees ==
  ASSUME Typed, Agreeing, NEW r \in Request, BankAccepts(r) \/ BankUnavailable(r) \/ BankRejects(r)
  PROVE  Agreeing'
  <1>1. job[r].t \in Transfer /\ job[r].k \in IdemKey /\ job[r] = [t |-> job[r].t, k |-> job[r].k]
    BY DEF Typed, RequestOK, Job, BankAccepts, BankUnavailable, BankRejects
  <1>2. /\ pc[r] = "bank" /\ pc'[r] \in {"bank", "mark"}
        /\ \A q \in Request \ {r} : pc'[q] = pc[q]
        /\ UNCHANGED <<transfer, instruction, outer, job, callback>>
    BY DEF Typed, TypeOK, BankAccepts, BankUnavailable, BankRejects, Goto, dbVars
  <1>3. bank' \in {bank, Accepted(job[r].t, job[r].k)}
    BY DEF BankAccepts, BankUnavailable, BankRejects
  <1>4. \A t \in Transfer, k \in IdemKey : bank'[t][k] # bank[t][k] => job[r] = [t |-> t, k |-> k]
    BY <1>1, <1>3 DEF Accepted, Typed, TypeOK
  <1>5. OwnersReserve' /\ \A t \in Transfer : RetriedByHand(t) => RetriedByHand(t)'
    BY <1>2, OwnerMoves DEF Owning, InHandler, Late
  <1>6. ASSUME NEW t \in Transfer, ~RetriedByHand(t), RowsOf(t) PROVE RowsOf(t)'
    <2>1. \A k \in OpsKey : k \in IdemKey /\ job[r] # [t |-> t, k |-> k]
      BY <1>2, <1>6 DEF RetriedByHand, Late, IdemKey
    <2>2. \A k \in OpsKey : bank'[t][k] = "none"
      BY <1>4, <1>6, <2>1 DEF RowsOf
    <2>3. MarkedOnce(t) => MarkedOnce(t)'
      BY <1>2 DEF MarkedOnce, Owning, InHandler
    <2> QED BY <1>2, <1>6, <2>2, <2>3 DEF RowsOf, Marked
  <1> QED BY <1>5, <1>6 DEF Agreeing


(* The one owner of the event's key marks both rows, from FUNDING_CONFIRMED. *)
LEMMA MarkAgrees ==
  ASSUME Inv, Agreeing, NEW r \in Request, MarkInitiated(r) \/ MarkReviewRequired(r)
  PROVE  Agreeing'
  <1>1. /\ job[r].t \in Transfer /\ job[r].k \in IdemKey
        /\ job[r] = [t |-> job[r].t, k |-> job[r].k]
        /\ transfer[job[r].t] # "AWAITING_FUNDING"
    BY DEF Inv, Typed, RequestOK, Job, Remembered, MarkInitiated, MarkReviewRequired
  <1>2. /\ pc[r] = "mark" /\ pc'[r] = "save"
        /\ \A q \in Request \ {r} : pc'[q] = pc[q]
        /\ UNCHANGED <<outer, bank, job, callback>>
    BY DEF Inv, Typed, TypeOK, MarkInitiated, MarkReviewRequired, Goto
  <1>3. OwnersReserve' /\ \A t \in Transfer : RetriedByHand(t) => RetriedByHand(t)'
    BY <1>2, OwnerMoves DEF Owning, InHandler, Late
  <1>4. /\ \A t \in Transfer : t # job[r].t => transfer'[t] = transfer[t]
                                            /\ instruction'[t] = instruction[t]
        /\ \A t \in Transfer : t = job[r].t /\ transfer[t] = "FUNDING_CONFIRMED" =>
              instruction'[t] = transfer'[t] /\ Marked(t)'
    BY <1>1 DEF Inv, Typed, TypeOK, MarkInitiated, MarkReviewRequired, Marked
  <1>5. ASSUME NEW t \in Transfer, t # job[r].t, RowsOf(t) PROVE RowsOf(t)'
    <2>1. (Marked(t)' <=> Marked(t)) /\ (MarkedOnce(t) => MarkedOnce(t)')
      BY <1>2, <1>4, <1>5 DEF Marked, MarkedOnce
    <2> QED BY <1>2, <1>4, <1>5, <2>1 DEF RowsOf
  <1>6. ASSUME NEW t \in Transfer, t = job[r].t, ~RetriedByHand(t), RowsOf(t) PROVE RowsOf(t)'
    <2>1. job[r] = [t |-> t, k |-> AutoKey]
      <3>1. job[r].k \notin OpsKey
        BY <1>1, <1>2, <1>6 DEF RetriedByHand, Late
      <3> QED BY <1>1, <1>6, <3>1 DEF IdemKey
    <2>2. ~Marked(t) /\ transfer[t] = "FUNDING_CONFIRMED"
      BY <1>1, <1>2, <1>6, <2>1 DEF RowsOf, MarkedOnce, Owning, InHandler, Unpaid
    <2>3. outer'[t][AutoKey] = "reserved"
      BY <1>2, <2>1 DEF Agreeing, OwnersReserve, Owning, InHandler
    <2>4. ASSUME NEW q \in Request, job'[q] = [t |-> t, k |-> AutoKey]
          PROVE  pc'[q] \notin Owning \ {"save", "record"}
      <3>1. CASE q = r
        BY <1>2, <3>1
      <3>2. CASE q # r
        <4>1. pc[r] \in Owning /\ job[q] = job[r]
          BY <1>2, <2>1, <2>4 DEF Owning, InHandler
        <4> QED BY <1>2, <3>2, <4>1 DEF Agreeing, OwnersReserve
      <3> QED BY <3>1, <3>2
    <2>5. \A c \in Callback : callback[c] # NoCallback => callback[c].t # t
      BY <1>6, <2>2 DEF RowsOf, Marked, Inv, Typed, TypeOK, Terminal
    <2>6. instruction'[t] = transfer'[t] /\ Marked(t)'
      BY <1>4, <1>6, <2>2
    <2>7. MarkedOnce(t)'
      BY <2>3, <2>4 DEF MarkedOnce
    <2> QED BY <1>2, <1>6, <2>5, <2>6, <2>7 DEF RowsOf
  <1> QED BY <1>1, <1>3, <1>5, <1>6 DEF Agreeing

LEMMA SaveAgrees ==
  ASSUME Typed, Agreeing, NEW r \in Request, Save(r)
  PROVE  Agreeing'
  <1>1. /\ pc[r] = "save" /\ pc'[r] = "record"
        /\ \A q \in Request \ {r} : pc'[q] = pc[q]
        /\ UNCHANGED <<transfer, instruction, outer, bank, job, callback>>
    BY DEF Typed, TypeOK, Save, Goto
  <1>2. OwnersReserve' /\ \A t \in Transfer : RetriedByHand(t) => RetriedByHand(t)'
    BY <1>1, OwnerMoves DEF Owning, InHandler, Late
  <1>3. \A t \in Transfer : RowsOf(t) => RowsOf(t)'
    BY <1>1 DEF RowsOf, Marked, MarkedOnce
  <1> QED BY <1>2, <1>3 DEF Agreeing

(* The owner stores its outcome, or deletes the reservation, and nobody else
   held it. *)
LEMMA EndAgrees ==
  ASSUME Typed, Agreeing, NEW r \in Request, Record(r) \/ Release(r)
  PROVE  Agreeing'
  <1> DEFINE t == job[r].t
             k == job[r].k
  <1>1. t \in Transfer /\ k \in IdemKey /\ job[r] = [t |-> t, k |-> k]
    BY DEF Typed, RequestOK, Job, Record, Release
  <1>2. PICK o \in Outcome \cup {"absent"} :
          /\ o = "absent" => pc[r] = "release"
          /\ \A u \in Transfer, j \in IdemKey :
                outer'[u][j] = IF u = t /\ j = k THEN o ELSE outer[u][j]
    <2>1. outer[t][k] = "reserved"
      BY DEF Agreeing, OwnersReserve, Owning, Record, Release
    <2>2. CASE Record(r)
      <3>1. result[r] \in Outcome /\ result[r] # "absent"
        BY <2>2 DEF Typed, RequestOK, Record, Outcome
      <3>2. \A u \in Transfer, j \in IdemKey :
               outer'[u][j] = IF u = t /\ j = k THEN result[r] ELSE outer[u][j]
        BY <1>1, <2>2 DEF Typed, TypeOK, Record
      <3> QED BY <3>1, <3>2
    <2>3. CASE Release(r)
      <3>1. \A u \in Transfer, j \in IdemKey :
               outer'[u][j] = IF u = t /\ j = k THEN "absent" ELSE outer[u][j]
        BY <1>1, <2>1, <2>3 DEF Typed, TypeOK, Release
      <3> QED BY <2>3, <3>1 DEF Release
    <2> QED BY <2>2, <2>3
  <1>3. /\ pc[r] \in {"record", "release"} /\ pc'[r] = "answered"
        /\ \A q \in Request \ {r} : pc'[q] = pc[q]
        /\ UNCHANGED <<transfer, instruction, bank, job, callback>>
    BY DEF Typed, TypeOK, Record, Release, Goto
  <1>4. outer[t][k] = "reserved"
    BY <1>3 DEF Agreeing, OwnersReserve, Owning
  <1>5. ASSUME NEW q \in Request, pc'[q] \in Owning
        PROVE  /\ q # r /\ pc[q] \in Owning /\ job[q] # job[r]
               /\ job[q].t \in Transfer /\ job[q].k \in IdemKey
               /\ job[q] = [t |-> job[q].t, k |-> job[q].k]
    <2>1. q # r
      BY <1>3, <1>5 DEF Owning, InHandler
    <2>2. pc[q] \in Owning /\ pc[r] \in Owning
      BY <1>3, <1>5, <2>1 DEF Owning
    <2>3. job[q] # job[r]
      BY <2>1, <2>2 DEF Agreeing, OwnersReserve
    <2>4. job[q] \in Job
      BY <2>2 DEF Typed, RequestOK, Owning, InHandler
    <2> QED BY <2>1, <2>2, <2>3, <2>4 DEF Job
  <1> HIDE DEF t, k
  <1>6. OwnersReserve'
    <2>1. ASSUME NEW q \in Request, pc'[q] \in Owning
          PROVE  outer'[job'[q].t][job'[q].k] = "reserved"
      <3>1. outer[job[q].t][job[q].k] = "reserved"
        BY <1>5, <2>1 DEF Agreeing, OwnersReserve
      <3> QED BY <1>1, <1>2, <1>3, <1>5, <2>1, <3>1
    <2>2. \A p, q \in Request :
            pc'[p] \in Owning /\ pc'[q] \in Owning /\ job'[p] = job'[q] => p = q
      BY <1>3, <1>5 DEF Agreeing, OwnersReserve
    <2> QED BY <2>1, <2>2 DEF OwnersReserve
  <1>7. ASSUME NEW u \in Transfer, RetriedByHand(u) PROVE RetriedByHand(u)'
    <2>1. PICK j \in OpsKey :
            \/ outer[u][j] \in Outcome
            \/ \E q \in Request : job[q] = [t |-> u, k |-> j] /\ pc[q] \in Late
      BY <1>7 DEF RetriedByHand
    <2>2. j \in IdemKey
      BY DEF IdemKey
    <2>3. CASE outer[u][j] \in Outcome
      <3>1. outer'[u][j] = outer[u][j]
        BY <1>2, <1>4, <2>2, <2>3 DEF Outcome
      <3> QED BY <2>3, <3>1 DEF RetriedByHand
    <2>4. ASSUME NEW q \in Request, job[q] = [t |-> u, k |-> j], pc[q] \in Late
          PROVE  RetriedByHand(u)'
      <3>1. CASE q = r
        <4>1. u = t /\ j = k /\ pc[r] # "release"
          BY <1>1, <1>3, <2>4, <3>1 DEF Late
        <4>2. outer'[u][j] \in Outcome
          BY <1>2, <2>2, <4>1
        <4> QED BY <4>2 DEF RetriedByHand
      <3>2. CASE q # r
        BY <1>3, <2>4, <3>2 DEF RetriedByHand
      <3> QED BY <3>1, <3>2
    <2> QED BY <2>1, <2>3, <2>4
  <1>8. ASSUME NEW u \in Transfer, RowsOf(u) PROVE RowsOf(u)'
    <2>1. ASSUME Marked(u), MarkedOnce(u) PROVE MarkedOnce(u)'
      <3>1. outer'[u][AutoKey] # "absent"
        <4>1. AutoKey \in IdemKey
          BY DEF IdemKey
        <4>2. CASE u = t /\ AutoKey = k
          <5>1. pc[r] # "release"
            BY <1>1, <2>1, <4>2 DEF MarkedOnce, Owning
          <5> QED BY <1>2, <4>1, <4>2, <5>1
        <4>3. CASE ~(u = t /\ AutoKey = k)
          BY <1>2, <2>1, <4>1, <4>3 DEF MarkedOnce
        <4> QED BY <4>2, <4>3
      <3>2. \A q \in Request : pc'[q] \in {pc[q], "answered"} /\ job'[q] = job[q]
        BY <1>3
      <3> QED BY <2>1, <3>1, <3>2 DEF MarkedOnce, Owning, InHandler
    <2> QED BY <1>3, <1>8, <2>1 DEF RowsOf, Marked
  <1> QED BY <1>6, <1>7, <1>8 DEF Agreeing


(* Two callbacks of a transfer report the same: there is one payout. *)
LEMMA CallbackAgrees ==
  ASSUME Inv, Agreeing, NEW c \in Callback,
         CallbackWrite(c) \/ \E t \in Transfer, s \in Terminal : CallbackRead(c, t, s)
  PROVE  Agreeing'
  <1>1. UNCHANGED <<outer, pc, job, bank>>
    BY DEF CallbackWrite, CallbackRead, dbVars, requestVars
  <1>2. ASSUME NEW t \in Transfer, NEW s \in Terminal, CallbackRead(c, t, s)
        PROVE  Agreeing'
    <2>1. /\ UNCHANGED <<transfer, instruction>> /\ instruction[t] = "PAYOUT_INITIATED"
          /\ \A d \in Callback : callback'[d] = IF d = c THEN [t |-> t, s |-> s] ELSE callback[d]
      BY <1>2 DEF Inv, Typed, TypeOK, CallbackRead, dbVars
    <2>2. ASSUME NEW u \in Transfer, RowsOf(u) PROVE RowsOf(u)'
      BY <1>1, <2>1, <2>2 DEF RowsOf, Marked, MarkedOnce
    <2> QED BY <1>1, <2>2, OutsideAgrees
  <1>3. CASE CallbackWrite(c)
    <2>1. /\ callback[c] # NoCallback /\ callback[c].t \in Transfer /\ callback[c].s \in Terminal
      BY <1>3 DEF Inv, Typed, TypeOK, CallbackWrite
    <2>2. \A u \in Transfer :
            /\ instruction'[u] = IF u = callback[c].t THEN callback[c].s ELSE instruction[u]
            /\ transfer'[u] = IF u = callback[c].t /\ transfer[u] = "PAYOUT_INITIATED"
                              THEN callback[c].s ELSE transfer[u]
      BY <1>3, <2>1 DEF Inv, Typed, TypeOK, CallbackWrite
    <2>3. \A d \in Callback : callback'[d] \in {callback[d], NoCallback}
      BY <1>3 DEF Inv, Typed, TypeOK, CallbackWrite
    <2>4. ASSUME NEW u \in Transfer, u # callback[c].t, RowsOf(u) PROVE RowsOf(u)'
      BY <1>1, <2>2, <2>3, <2>4 DEF RowsOf, Marked, MarkedOnce
    <2>5. ASSUME NEW u \in Transfer, u = callback[c].t, RowsOf(u) PROVE RowsOf(u)'
      <3>1. /\ instruction[u] \in {"PAYOUT_INITIATED", callback[c].s}
            /\ Marked(u) /\ instruction[u] = transfer[u] /\ MarkedOnce(u)
        BY <2>1, <2>5 DEF RowsOf, Marked, Terminal
      <3>2. instruction'[u] = callback[c].s /\ transfer'[u] = callback[c].s /\ Marked(u)'
        BY <2>1, <2>2, <2>5, <3>1 DEF Marked, Terminal
      <3>3. \A d \in Callback : callback[d] # NoCallback /\ callback[d].t = u =>
               bank[u][AutoKey] = callback[d].s
        <4>1. \A d \in Callback : callback[d] # NoCallback =>
                 callback[d].s \in Terminal
                 /\ \E k \in IdemKey : bank[callback[d].t][k] = callback[d].s
          BY DEF Inv, Typed, TypeOK, CallbackOK
        <4> QED BY <2>5, <4>1 DEF RowsOf, IdemKey, Terminal
      <3>4. MarkedOnce(u)'
        BY <1>1, <3>1 DEF MarkedOnce
      <3> QED BY <1>1, <2>1, <2>3, <2>5, <3>2, <3>3, <3>4 DEF RowsOf
    <2>6. \A u \in Transfer : RowsOf(u) => RowsOf(u)'
      BY <2>4, <2>5
    <2> QED BY <1>1, <2>6, OutsideAgrees
  <1> QED BY <1>2, <1>3

LEMMA NextAgreeing ==
  ASSUME Inv, Agreeing, [Next]_vars, faults' = faults
  PROVE  Agreeing'
  <1>1. Typed
    BY DEF Inv
  <1>2. ASSUME NEW r \in Request,
               \/ \E t \in Transfer, k \in IdemKey : Post(r, t, k)
               \/ Consume(r) \/ FindReserved(r) \/ Poll(r)
        PROVE  Agreeing'
    <2>1. /\ pc[r] \in {"idle", "answered", "sent", "poll"}
          /\ pc'[r] \in {"idle", "answered", "sent", "poll"}
          /\ \A q \in Request \ {r} : pc'[q] = pc[q] /\ job'[q] = job[q]
          /\ UNCHANGED <<transfer, instruction, outer, bank, callback>>
      BY <1>1, <1>2 DEF Typed, TypeOK, Post, Consume, FindReserved, Poll, Goto, Reply, dbVars
    <2> QED BY <1>1, <2>1, BystanderAgrees DEF Owning, InHandler
  <1>3. ASSUME NEW t \in Transfer, ConfirmFunding(t) PROVE Agreeing'
    <2>1. ASSUME NEW u \in Transfer, RowsOf(u) PROVE RowsOf(u)'
      <3>1. UNCHANGED <<instruction, outer, pc, job, bank, callback>>
        BY <1>3 DEF ConfirmFunding, requestVars
      <3>2. transfer'[u] \in Unpaid \/ transfer'[u] = transfer[u]
        BY <1>1, <1>3 DEF Typed, TypeOK, ConfirmFunding, Unpaid
      <3>3. Marked(u) => transfer'[u] = transfer[u]
        BY <1>1, <1>3, <2>1
        DEF Typed, TypeOK, ConfirmFunding, RowsOf, Marked, InstructionState
      <3>4. ~Marked(u) => transfer'[u] \in Unpaid
        BY <2>1, <3>2 DEF RowsOf
      <3>5. (Marked(u)' <=> Marked(u)) /\ (MarkedOnce(u)' <=> MarkedOnce(u))
        BY <3>1 DEF Marked, MarkedOnce
      <3> QED BY <2>1, <3>1, <3>3, <3>4, <3>5 DEF RowsOf
    <2> QED BY <1>3, <2>1, OutsideAgrees DEF ConfirmFunding, requestVars
  <1>4. ASSUME NEW t \in Transfer, NEW k \in IdemKey, NEW s \in Terminal, BankSettles(t, k, s)
        PROVE  Agreeing'
    <2>1. ASSUME NEW u \in Transfer, RowsOf(u) PROVE RowsOf(u)'
      <3>1. \A j \in OpsKey : bank'[u][j] = bank[u][j]
        BY <1>1, <1>4, <2>1 DEF Typed, TypeOK, BankSettles, RowsOf, IdemKey
      <3> QED BY <1>4, <2>1, <3>1 DEF BankSettles, RowsOf, Marked, MarkedOnce, dbVars, requestVars
    <2> QED BY <1>4, <2>1, OutsideAgrees DEF BankSettles, dbVars, requestVars
  <1>5. ASSUME NEW r \in Request, QueryFails(r) \/ Crash(r) PROVE FALSE
    BY <1>1, <1>5 DEF Typed, TypeOK, QueryFails, Crash
  <1>6. ASSUME NEW c \in Callback, CallbackLost(c) PROVE FALSE
    BY <1>1, <1>6 DEF Typed, TypeOK, CallbackLost
  <1>7. CASE UNCHANGED vars
    BY <1>7 DEF vars, dbVars, requestVars, Agreeing, OwnersReserve, RetriedByHand, RowsOf,
                Marked, MarkedOnce
  <1> QED
    BY <1>1, <1>2, <1>3, <1>4, <1>5, <1>6, <1>7, ReserveAgrees, LookAgrees, BankAgrees,
       MarkAgrees, SaveAgrees, EndAgrees, CallbackAgrees
    DEF Next, Orchestrate, Handle, Callbacks, PostAuto, PostOpsRetry, IdemKey

(* Faults only grow, so a behaviour that has had none has agreed all along. *)
LEMMA NextFaults ==
  ASSUME Typed, [Next]_vars
  PROVE  faults' = faults \/ faults' # 0
  <1>1. faults \in Nat
    BY PayoutAssumption DEF Typed, TypeOK
  <1>2. faults' = faults \/ faults' = faults + 1
    BY DEF Next, Orchestrate, Handle, Callbacks, PostAuto, PostOpsRetry, Post, ConfirmFunding,
           Consume, Reserve, FindReserved, Poll, Lookup, Check, Select, Insert, BankAccepts,
           BankUnavailable, BankRejects, MarkInitiated, MarkReviewRequired, Save, Record,
           Release, QueryFails, Crash, BankSettles, CallbackRead, CallbackWrite, CallbackLost,
           vars
  <1> QED BY <1>1, <1>2

(* While a manual retry has stored nothing, the rows agree. *)
LEMMA AgreeingRows ==
  ASSUME Inv, faults = 0 => Agreeing
  PROVE  RowsAgree
  <1> SUFFICES ASSUME NEW t \in Transfer, faults = 0,
                      \A k \in OpsKey : outer[t][k] = "absent", Marked(t)
               PROVE  instruction[t] = transfer[t]
    BY DEF RowsAgree, Marked
  <1>1. ~RetriedByHand(t)
    <2>1. \A r \in Request, k \in OpsKey : pc[r] \in Late => job[r] # [t |-> t, k |-> k]
      BY DEF Agreeing, OwnersReserve, Late, Owning, InHandler
    <2>2. \A k \in OpsKey : outer[t][k] \notin Outcome
      BY DEF Outcome
    <2> QED BY <2>1, <2>2 DEF RetriedByHand
  <1> QED BY <1>1 DEF Agreeing, RowsOf

(* Without faults and manual retries, the instruction and the transfer say the
   same of a payout, whatever requests and callbacks are sent twice. *)
THEOREM RowsAreOne == Spec => []RowsAgree
  <1> DEFINE RowsInv == Inv /\ (faults = 0 => Agreeing)
  <1>1. Init => RowsInv
    BY InitInv, InitAgreeing
  <1>2. RowsInv /\ [Next]_vars => RowsInv'
    <2> SUFFICES ASSUME RowsInv, [Next]_vars PROVE RowsInv'
      OBVIOUS
    <2>1. Inv'
      BY NextInv
    <2>2. ASSUME faults' = 0 PROVE Agreeing'
      <3>1. faults' = faults
        BY <2>2, NextFaults DEF Inv
      <3> QED BY <2>2, <3>1, NextAgreeing
    <2> QED BY <2>1, <2>2
  <1>3. RowsInv => RowsAgree
    BY AgreeingRows
  <1> HIDE DEF RowsInv
  <1> QED BY <1>1, <1>2, <1>3, PTL DEF Spec

-----------------------------------------------------------------------------
(***************************************************************************)
(* The orchestrator implements PayoutContract.                             *)
(***************************************************************************)
Ledger == [Transfer -> [IdemKey -> {"none", "accepted"} \cup Terminal]]

(* Settled, as a function of what the partner did. *)
SettledBy(b) == [t \in Transfer |->
    LET states == {b[t][k] : k \in IdemKey} \ {"none"} IN
    (states \ {"accepted"}) \cup (IF states = {} THEN {} ELSE {"accepted"})]

LEMMA SettledFacts ==
  ASSUME NEW b \in Ledger, NEW t \in Transfer
  PROVE  /\ SettledBy(b)[t] \subseteq {"accepted"} \cup Terminal
         /\ "accepted" \in SettledBy(b)[t] <=> \E k \in IdemKey : b[t][k] # "none"
         /\ \A s \in Terminal : s \in SettledBy(b)[t] <=> \E k \in IdemKey : b[t][k] = s
  <1> DEFINE states == {b[t][k] : k \in IdemKey} \ {"none"}
  <1>1. SettledBy(b)[t] = (states \ {"accepted"}) \cup (IF states = {} THEN {} ELSE {"accepted"})
    BY DEF SettledBy
  <1>2. \A k \in IdemKey : b[t][k] \in {"none", "accepted"} \cup Terminal
    BY DEF Ledger
  <1>3. \A x : x \in states <=> x # "none" /\ \E k \in IdemKey : b[t][k] = x
    OBVIOUS
  <1> HIDE DEF states
  <1>4. states = {} <=> ~ \E k \in IdemKey : b[t][k] # "none"
    BY <1>3
  <1> QED BY <1>1, <1>2, <1>3, <1>4 DEF Terminal

(* A payout accepted, and one settled, are one fact more. *)
LEMMA SettledUnion ==
  ASSUME NEW b \in Ledger, NEW c \in Ledger, NEW t \in Transfer, NEW f \in {"accepted"} \cup Terminal,
         NEW k \in IdemKey,
         \A u \in Transfer \ {t} : c[u] = b[u],
         c[t][k] = f /\ \A j \in IdemKey \ {k} : c[t][j] = b[t][j],
         b[t][k] = IF f = "accepted" THEN "none" ELSE "accepted"
  PROVE  SettledBy(c) = [SettledBy(b) EXCEPT ![t] = @ \cup {f}]
  <1>2. \A u \in Transfer \ {t} : SettledBy(c)[u] = SettledBy(b)[u]
    BY DEF SettledBy
  <1>4. \A x \in {"accepted"} \cup Terminal :
          x \in SettledBy(c)[t] <=> x \in SettledBy(b)[t] \cup {f}
    <2>1. \A s \in Terminal :
            (\E j \in IdemKey : c[t][j] = s) <=> ((\E j \in IdemKey : b[t][j] = s) \/ s = f)
      BY DEF Terminal
    <2>2. (\E j \in IdemKey : c[t][j] # "none")
            <=> ((\E j \in IdemKey : b[t][j] # "none") \/ "accepted" = f)
      BY DEF Terminal
    <2>3. "accepted" \in SettledBy(c)[t] <=> "accepted" \in SettledBy(b)[t] \cup {f}
      BY <2>2, SettledFacts
    <2>4. ASSUME NEW s \in Terminal
          PROVE  s \in SettledBy(c)[t] <=> s \in SettledBy(b)[t] \cup {f}
      <3>1. s \in SettledBy(c)[t] <=> \E j \in IdemKey : c[t][j] = s
        BY SettledFacts
      <3>2. s \in SettledBy(b)[t] <=> \E j \in IdemKey : b[t][j] = s
        BY SettledFacts
      <3> QED BY <2>1, <3>1, <3>2
    <2> QED BY <2>3, <2>4
  <1>5. SettledBy(c)[t] = SettledBy(b)[t] \cup {f}
    BY <1>4, SettledFacts
  <1> QED BY <1>2, <1>5 DEF SettledBy

LEMMA AcceptedUnion ==
  ASSUME NEW b \in Ledger, NEW t \in Transfer, NEW k \in IdemKey
  PROVE  LET c == [b EXCEPT ![t][k] = IF @ = "none" THEN "accepted" ELSE @] IN
         \/ c = b
         \/ SettledBy(c) = [SettledBy(b) EXCEPT ![t] = @ \cup {"accepted"}]
  <1> DEFINE c == [b EXCEPT ![t][k] = IF @ = "none" THEN "accepted" ELSE @]
  <1>1. CASE b[t][k] = "none"
    <2>1. c = [b EXCEPT ![t] = [b[t] EXCEPT ![k] = "accepted"]]
      BY <1>1
    <2>2. c \in Ledger
      BY <2>1 DEF Ledger
    <2>3. /\ \A u \in Transfer \ {t} : c[u] = b[u]
          /\ c[t][k] = "accepted" /\ \A j \in IdemKey \ {k} : c[t][j] = b[t][j]
      BY <2>1 DEF Ledger
    <2> HIDE DEF c
    <2>4. SettledBy(c) = [SettledBy(b) EXCEPT ![t] = @ \cup {"accepted"}]
      BY <1>1, <2>2, <2>3, SettledUnion
    <2> QED BY <2>4 DEF c
  <1>2. CASE b[t][k] # "none"
    BY <1>2 DEF Ledger
  <1> QED BY <1>1, <1>2

LEMMA SettlementUnion ==
  ASSUME NEW b \in Ledger, NEW t \in Transfer, NEW k \in IdemKey, NEW s \in Terminal,
         b[t][k] = "accepted"
  PROVE  SettledBy([b EXCEPT ![t] = [b[t] EXCEPT ![k] = s]])
           = [SettledBy(b) EXCEPT ![t] = @ \cup {s}]
  <1> DEFINE c == [b EXCEPT ![t] = [b[t] EXCEPT ![k] = s]]
  <1>1. c \in Ledger
    BY DEF Ledger
  <1>2. /\ \A u \in Transfer \ {t} : c[u] = b[u]
        /\ c[t][k] = s /\ \A j \in IdemKey \ {k} : c[t][j] = b[t][j]
    BY DEF Ledger
  <1>3. s \in {"accepted"} \cup Terminal /\ b[t][k] = IF s = "accepted" THEN "none" ELSE "accepted"
    BY DEF Terminal
  <1> HIDE DEF c
  <1>4. SettledBy(c) = [SettledBy(b) EXCEPT ![t] = @ \cup {s}]
    BY <1>1, <1>2, <1>3, SettledUnion
  <1> QED BY <1>4 DEF c

LEMMA InitContract == Init => Contract!Init
  <1> SUFFICES ASSUME Init PROVE Contract!Init
    OBVIOUS
  <1>1. \A t \in Transfer : Settled[t] = {}
    BY DEF Init, Settled
  <1>2. Settled = [t \in Transfer |-> {}]
    BY <1>1 DEF Settled
  <1> QED BY <1>2 DEF Init, Contract!Init

LEMMA NextContract == Inv /\ [Next]_vars => [Contract!Next]_Contract!vars
  <1> SUFFICES ASSUME Inv, [Next]_vars PROVE [Contract!Next]_Contract!vars
    OBVIOUS
  <1>a. /\ bank \in Ledger /\ bank' \in Ledger
        /\ Settled = SettledBy(bank) /\ Settled' = SettledBy(bank')
    BY NextTyped DEF Inv, Typed, TypeOK, Ledger, Settled, SettledBy
  <1>1. ASSUME UNCHANGED <<transfer, bank>> PROVE UNCHANGED Contract!vars
    BY <1>a, <1>1 DEF Contract!vars
  <1>2. ASSUME NEW t \in Transfer, ConfirmFunding(t) PROVE Contract!Fund(t)
    BY <1>a, <1>2 DEF ConfirmFunding, Contract!Fund
  <1>3. ASSUME NEW r \in Request, BankAccepts(r) \/ BankUnavailable(r)
        PROVE  [Contract!Accept(job[r].t)]_Contract!vars /\ job[r].t \in Transfer
    <2>1. /\ job[r].t \in Transfer /\ job[r].k \in IdemKey
          /\ transfer[job[r].t] # "AWAITING_FUNDING"
      BY <1>3 DEF Inv, Typed, RequestOK, Job, Remembered, BankAccepts, BankUnavailable
    <2>2. transfer' = transfer /\ bank' \in {bank, Accepted(job[r].t, job[r].k)}
      BY <1>3 DEF BankAccepts, BankUnavailable, dbVars
    <2>3. \/ bank' = bank
          \/ Settled' = [Settled EXCEPT ![job[r].t] = @ \cup {"accepted"}]
      <3>1. \/ Accepted(job[r].t, job[r].k) = bank
            \/ SettledBy(Accepted(job[r].t, job[r].k))
                 = [SettledBy(bank) EXCEPT ![job[r].t] = @ \cup {"accepted"}]
        BY <1>a, <2>1, AcceptedUnion DEF Accepted
      <3> QED BY <1>a, <2>2, <3>1
    <2> QED BY <1>1, <2>1, <2>2, <2>3 DEF Contract!Accept
  <1>4. ASSUME NEW t \in Transfer, NEW k \in IdemKey, NEW s \in Terminal, BankSettles(t, k, s)
        PROVE  Contract!Settle(t, s)
    <2>1. bank' = [bank EXCEPT ![t] = [bank[t] EXCEPT ![k] = s]] /\ transfer' = transfer
      BY <1>4 DEF BankSettles, dbVars
    <2>2. Settled' = [Settled EXCEPT ![t] = @ \cup {s}]
      <3>1. SettledBy([bank EXCEPT ![t] = [bank[t] EXCEPT ![k] = s]])
              = [SettledBy(bank) EXCEPT ![t] = @ \cup {s}]
        <4>1. bank \in Ledger /\ bank[t][k] = "accepted"
          BY <1>a, <1>4 DEF BankSettles
        <4> QED BY <4>1, SettlementUnion
      <3> QED BY <1>a, <2>1, <3>1
    <2>3. "accepted" \in Settled[t]
      BY <1>a, <1>4, SettledFacts DEF BankSettles
    <2> QED BY <2>1, <2>2, <2>3 DEF Contract!Settle
  <1>5. ASSUME NEW r \in Request, MarkInitiated(r)
        PROVE  [Contract!Initiate(job[r].t)]_Contract!vars /\ job[r].t \in Transfer
    <2>1. /\ job[r].t \in Transfer /\ job[r].k \in IdemKey
          /\ bank[job[r].t][job[r].k] # "none"
      BY <1>5 DEF Inv, Typed, RequestOK, Job, Remembered, MarkInitiated
    <2>2. "accepted" \in Settled[job[r].t] /\ Settled' = Settled
      BY <1>a, <1>5, <2>1, SettledFacts DEF MarkInitiated
    <2>3. CASE transfer[job[r].t] = "FUNDING_CONFIRMED"
      BY <1>5, <2>1, <2>2, <2>3 DEF MarkInitiated, Contract!Initiate
    <2>4. CASE transfer[job[r].t] # "FUNDING_CONFIRMED"
      BY <1>1, <1>5, <2>1, <2>4 DEF Inv, Typed, TypeOK, MarkInitiated
    <2> QED BY <2>1, <2>3, <2>4
  <1>6. ASSUME NEW r \in Request, MarkReviewRequired(r)
        PROVE  [Contract!Review(job[r].t)]_Contract!vars /\ job[r].t \in Transfer
    <2>1. job[r].t \in Transfer /\ Settled' = Settled
      BY <1>a, <1>6 DEF Inv, Typed, RequestOK, Job, MarkReviewRequired
    <2>2. CASE transfer[job[r].t] \in {"FUNDING_CONFIRMED", "PAYOUT_INITIATED"}
      BY <1>6, <2>1, <2>2 DEF MarkReviewRequired, Contract!Review
    <2>3. CASE transfer[job[r].t] \notin {"FUNDING_CONFIRMED", "PAYOUT_INITIATED"}
      BY <1>1, <1>6, <2>1, <2>3 DEF Inv, Typed, TypeOK, MarkReviewRequired
    <2> QED BY <2>1, <2>2, <2>3
  <1>7. ASSUME NEW c \in Callback, CallbackWrite(c)
        PROVE  /\ [Contract!Conclude(callback[c].t, callback[c].s)]_Contract!vars
               /\ callback[c].t \in Transfer /\ callback[c].s \in Terminal
    <2>1. callback[c].t \in Transfer /\ callback[c].s \in Terminal /\ Settled' = Settled
      BY <1>a, <1>7 DEF Inv, Typed, TypeOK, CallbackWrite
    <2>2. callback[c].s \in Settled[callback[c].t]
      BY <1>a, <1>7, <2>1, SettledFacts DEF Inv, CallbackOK, CallbackWrite
    <2>3. CASE transfer[callback[c].t] = "PAYOUT_INITIATED"
      BY <1>7, <2>1, <2>2, <2>3 DEF CallbackWrite, Contract!Conclude
    <2>4. CASE transfer[callback[c].t] # "PAYOUT_INITIATED"
      BY <1>1, <1>7, <2>1, <2>4 DEF Inv, Typed, TypeOK, CallbackWrite
    <2> QED BY <2>1, <2>3, <2>4
  <1>8. ASSUME NEW r \in Request,
               \/ Reserve(r) \/ FindReserved(r) \/ Poll(r) \/ Lookup(r) \/ Check(r)
               \/ Select(r) \/ Insert(r) \/ BankRejects(r) \/ Save(r) \/ Record(r)
               \/ Release(r) \/ QueryFails(r) \/ Crash(r) \/ Consume(r)
        PROVE  UNCHANGED <<transfer, bank>>
    BY <1>8 DEF Reserve, FindReserved, Poll, Lookup, Check, Select, Insert, BankRejects,
                Save, Record, Release, QueryFails, Crash, Consume, dbVars
  <1>9. ASSUME NEW r \in Request, NEW t \in Transfer, NEW k \in IdemKey, Post(r, t, k)
        PROVE  UNCHANGED <<transfer, bank>>
    BY <1>9 DEF Post, dbVars
  <1>10. ASSUME NEW c \in Callback,
                CallbackLost(c) \/ \E t \in Transfer, s \in Terminal : CallbackRead(c, t, s)
         PROVE  UNCHANGED <<transfer, bank>>
    BY <1>10 DEF CallbackLost, CallbackRead, dbVars
  <1>11. CASE UNCHANGED vars
    BY <1>1, <1>11 DEF vars, dbVars
  <1> QED
    BY <1>1, <1>2, <1>3, <1>4, <1>5, <1>6, <1>7, <1>8, <1>9, <1>10, <1>11
    DEF Next, Orchestrate, Handle, Callbacks, PostAuto, PostOpsRetry, IdemKey, Terminal,
        Contract!Next

(* The handlers, with their interleavings, failures and retries, implement the
   contract: each step is a step of it or changes nothing it speaks of. *)
THEOREM Implementation == Spec => ImplementsContract
  BY InitContract, Invariance, NextContract, PTL DEF Spec, ImplementsContract, Contract!Spec

-----------------------------------------------------------------------------
(***************************************************************************)
(* What every implementation of the contract inherits, by an invariant     *)
(* over its six actions.                                                   *)
(***************************************************************************)
ContractInv ==
    /\ transfer \in [Transfer -> Contract!StoredState]
    /\ Settled \in [Transfer -> SUBSET Contract!Fact]
    /\ Contract!StatusTruthful

LEMMA InitContractInv == Contract!Init => ContractInv
  BY DEF Contract!Init, ContractInv, Contract!StatusTruthful, Contract!StoredState,
         Contract!PaidState, Contract!Fact

LEMMA NextContractInv == ContractInv /\ [Contract!Next]_Contract!vars => ContractInv'
  <1> SUFFICES ASSUME ContractInv, [Contract!Next]_Contract!vars PROVE ContractInv'
    OBVIOUS
  <1> USE DEF ContractInv, Contract!StatusTruthful, Contract!StoredState, Contract!PaidState,
              Contract!Fact
  <1>1. ASSUME NEW t \in Transfer, Contract!Fund(t) PROVE ContractInv'
    BY <1>1 DEF Contract!Fund
  <1>2. ASSUME NEW t \in Transfer, Contract!Accept(t) PROVE ContractInv'
    BY <1>2 DEF Contract!Accept
  <1>3. ASSUME NEW t \in Transfer, Contract!Initiate(t) PROVE ContractInv'
    BY <1>3 DEF Contract!Initiate
  <1>4. ASSUME NEW t \in Transfer, Contract!Review(t) PROVE ContractInv'
    BY <1>4 DEF Contract!Review
  <1>5. ASSUME NEW t \in Transfer, NEW s \in {"PAYOUT_COMPLETED", "PAYOUT_FAILED"},
               Contract!Settle(t, s)
        PROVE  ContractInv'
    BY <1>5 DEF Contract!Settle
  <1>6. ASSUME NEW t \in Transfer, NEW s \in {"PAYOUT_COMPLETED", "PAYOUT_FAILED"},
               Contract!Conclude(t, s)
        PROVE  ContractInv'
    BY <1>6 DEF Contract!Conclude
  <1>7. CASE UNCHANGED Contract!vars
    BY <1>7 DEF Contract!vars
  <1> QED BY <1>1, <1>2, <1>3, <1>4, <1>5, <1>6, <1>7 DEF Contract!Next

(* The table of the domain, for the transitions the contract takes. *)
LEMMA ContractTransitions ==
  /\ CanTransition("AWAITING_FUNDING", "FUNDING_CONFIRMED")
  /\ CanTransition("FUNDING_CONFIRMED", "PAYOUT_INITIATED")
  /\ CanTransition("FUNDING_CONFIRMED", "PAYOUT_REVIEW_REQUIRED")
  /\ CanTransition("PAYOUT_INITIATED", "PAYOUT_REVIEW_REQUIRED")
  /\ CanTransition("PAYOUT_INITIATED", "PAYOUT_COMPLETED")
  /\ CanTransition("PAYOUT_INITIATED", "PAYOUT_FAILED")
  BY DEF CanTransition, AllowedTransitions, TransferState

Legally(t) == transfer'[t] # transfer[t] => CanTransition(transfer[t], transfer'[t])

LEMMA ContractLegal ==
  ASSUME ContractInv, [Contract!Next]_Contract!vars
  PROVE  \A t \in Transfer : Legally(t)
  <1> USE ContractTransitions DEF ContractInv, Legally
  <1>1. ASSUME NEW t \in Transfer, Contract!Fund(t) \/ Contract!Initiate(t) \/ Contract!Review(t)
        PROVE  \A u \in Transfer : Legally(u)
    BY <1>1 DEF Contract!Fund, Contract!Initiate, Contract!Review
  <1>2. ASSUME NEW t \in Transfer, NEW s \in {"PAYOUT_COMPLETED", "PAYOUT_FAILED"},
               Contract!Conclude(t, s)
        PROVE  \A u \in Transfer : Legally(u)
    BY <1>2 DEF Contract!Conclude
  <1>3. ASSUME NEW t \in Transfer,
               \/ Contract!Accept(t)
               \/ \E s \in {"PAYOUT_COMPLETED", "PAYOUT_FAILED"} : Contract!Settle(t, s)
        PROVE  transfer' = transfer
    BY <1>3 DEF Contract!Accept, Contract!Settle
  <1>4. CASE UNCHANGED Contract!vars
    BY <1>4 DEF Contract!vars
  <1> QED BY <1>1, <1>2, <1>3, <1>4 DEF Contract!Next

(* Whatever implements the contract keeps the status behind the partner. *)
THEOREM ContractIsTruthful == ImplementsContract => []StatusTruthful
  <1>1. ContractInv => StatusTruthful
    BY DEF ContractInv, StatusTruthful
  <1> QED
    BY InitContractInv, NextContractInv, <1>1, PTL DEF ImplementsContract, Contract!Spec

(* And it changes a status only as the domain allows. *)
THEOREM ContractIsLegal == ImplementsContract => LegalTransitions
  <1>1. ContractInv /\ [Contract!Next]_Contract!vars => [\A t \in Transfer : Legally(t)]_vars
    BY ContractLegal
  <1>2. [\A t \in Transfer : Legally(t)]_vars
        => [\A t \in Transfer :
              transfer'[t] # transfer[t] => CanTransition(transfer[t], transfer'[t])]_vars
    BY DEF Legally
  <1> QED
    BY InitContractInv, NextContractInv, <1>1, <1>2, PTL
    DEF ImplementsContract, Contract!Spec, LegalTransitions

(* The transfer is never ahead of the partner: inherited from the contract. *)
THEOREM StatusIsTruthful == Spec => []StatusTruthful
  BY Implementation, ContractIsTruthful, PTL

(* So are the transitions of the domain: a stale handler changes no status the
   table does not let it change. *)
THEOREM TransitionsLegal == Spec => LegalTransitions
  BY Implementation, ContractIsLegal, PTL
=============================================================================
