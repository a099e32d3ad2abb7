------------------------------- MODULE Payout -------------------------------
(***************************************************************************)
(* services/payout-orchestrator: POST /internal/v1/payouts/initiate and    *)
(* POST /internal/v1/payouts/status-callback over the shared database, the *)
(* bank partner they call, and the two callers that initiate payouts (the  *)
(* outbox dispatcher and the manual retry of core-api).                    *)
(*                                                                         *)
(* One request slot is one HTTP request in flight.  Every await of the     *)
(* handler is a step; a transaction is one step.                           *)
(***************************************************************************)
EXTENDS TransferStates, Naturals, FiniteSets

CONSTANTS
    Transfer,
    Request,      \* slots for concurrent initiate requests
    Callback,     \* slots for concurrent status callbacks
    AutoKey,         \* the key "auto-payout:<transfer>" of the outbox event
    OpsKey,       \* the keys "ops-retry:<transfer>:<now>" of manual retries
    MaxAttempts,  \* MAX_RETRIES of service.ts
    MaxFaults     \* bound on failed queries and crashes in a behaviour

ASSUME PayoutAssumption ==
    /\ MaxAttempts \in Nat \ {0}
    /\ MaxFaults \in Nat
    /\ AutoKey \notin OpsKey

(* idempotency-key of a request.  The dispatcher and the ops route send the
   same key in the header and in the body, with a payload that is a function
   of it, so the request hash never differs (Idempotency covers the rest). *)
IdemKey == OpsKey \cup {AutoKey}
Job == [t : Transfer, k : IdemKey]
NoJob == [t |-> "none", k |-> "none"]

Outcome == {"initiated", "review_required"}
Answer == Outcome \cup {"in_progress", "error", "state_invalid"}

InstructionState ==
    {"none", "PENDING", "PAYOUT_INITIATED", "PAYOUT_COMPLETED", "PAYOUT_FAILED",
     "PAYOUT_REVIEW_REQUIRED"}
Terminal == {"PAYOUT_COMPLETED", "PAYOUT_FAILED"}

VARIABLES
    transfer,     \* transfers.status
    instruction,  \* payout_instruction.status ("none": no row)
    outer,        \* idempotency_record of the endpoint, per transfer and key
    inner,        \* idempotency_record payout:initiate:<key> of the service
    bank,         \* what the partner did with each key (external)
    pc, job,      \* per request slot: the step and the request
    attempt,      \* bank calls that have failed in this request
    result,       \* what the request will store and answer
    callback,     \* per callback slot: the terminal status about to be written
    faults        \* faults so far

dbVars == <<transfer, instruction, outer, inner>>
requestVars == <<pc, job, attempt, result>>
vars == <<dbVars, bank, requestVars, callback, faults>>

InHandler == {"lookup", "check", "select", "insert", "bank", "mark", "save"}
Owning == InHandler \cup {"record", "release"}
Step == Owning \cup {"idle", "sent", "poll", "answered"}

NoCallback == [t |-> "none", s |-> "none"]

TypeOK ==
    /\ transfer \in [Transfer -> StoredState]
    /\ instruction \in [Transfer -> InstructionState]
    /\ outer \in [Transfer -> [IdemKey -> {"absent", "reserved"} \cup Outcome]]
    /\ inner \in [Transfer -> [IdemKey -> {"absent"} \cup Outcome]]
    /\ bank \in [Transfer -> [IdemKey -> {"none", "accepted"} \cup Terminal]]
    /\ pc \in [Request -> Step]
    /\ job \in [Request -> Job \cup {NoJob}]
    /\ attempt \in [Request -> 0 .. MaxAttempts]
    /\ result \in [Request -> Answer \cup {"none"}]
    /\ callback \in [Callback -> [t : Transfer, s : Terminal] \cup {NoCallback}]
    /\ faults \in 0 .. MaxFaults

Init ==
    /\ transfer = [t \in Transfer |-> "AWAITING_FUNDING"]
    /\ instruction = [t \in Transfer |-> "none"]
    /\ outer = [t \in Transfer |-> [k \in IdemKey |-> "absent"]]
    /\ inner = [t \in Transfer |-> [k \in IdemKey |-> "absent"]]
    /\ bank = [t \in Transfer |-> [k \in IdemKey |-> "none"]]
    /\ pc = [r \in Request |-> "idle"]
    /\ job = [r \in Request |-> NoJob]
    /\ attempt = [r \in Request |-> 0]
    /\ result = [r \in Request |-> "none"]
    /\ callback = [c \in Callback |-> NoCallback]
    /\ faults = 0

-----------------------------------------------------------------------------
(* Steps of a request: r moves to step s; r answers a. *)
Goto(r, s) == pc' = [pc EXCEPT ![r] = s]
Reply(r, a) == Goto(r, "answered") /\ result' = [result EXCEPT ![r] = a]

(* core-api confirms the funding of t (module Funding). *)
ConfirmFunding(t) ==
    /\ transfer[t] = "AWAITING_FUNDING"
    /\ transfer' = [transfer EXCEPT ![t] = "FUNDING_CONFIRMED"]
    /\ UNCHANGED <<instruction, outer, inner, bank, requestVars, callback, faults>>

(* A request is on its way to the orchestrator. *)
Post(r, t, k) ==
    /\ pc[r] = "idle"
    /\ Goto(r, "sent")
    /\ job' = [job EXCEPT ![r] = [t |-> t, k |-> k]]
    /\ UNCHANGED <<dbVars, bank, attempt, result, callback, faults>>

(* A service token may initiate any transfer: the endpoint itself must keep
   unfunded ones out.  The dispatcher's requests carry the key of the event. *)
PostAuto(r, t) == Post(r, t, AutoKey)

(* The manual retry of routes/ops.ts: only a transfer with an instruction, and
   under a new key each time. *)
PostOpsRetry(r, t, k) ==
    /\ k \in OpsKey
    /\ instruction[t] # "none"
    /\ outer[t][k] = "absent" /\ bank[t][k] = "none"
    /\ \A q \in Request : job[q] # [t |-> t, k |-> k]
    /\ Post(r, t, k)

-----------------------------------------------------------------------------
(* withIdempotency around the handler (module Idempotency). *)
Reserve(r) ==
    LET t == job[r].t  k == job[r].k IN
    /\ pc[r] = "sent"
    /\ outer[t][k] = "absent"
    /\ outer' = [outer EXCEPT ![t][k] = "reserved"]
    /\ Goto(r, "lookup")
    /\ UNCHANGED <<transfer, instruction, inner, bank, job, attempt, result, callback, faults>>

FindReserved(r) ==
    /\ pc[r] = "sent"
    /\ outer[job[r].t][job[r].k] # "absent"
    /\ Goto(r, "poll")
    /\ UNCHANGED <<dbVars, bank, job, attempt, result, callback, faults>>

(* The poll ends with the stored response, or with 409 when the row is gone or
   is still reserved after five seconds. *)
Poll(r) ==
    LET seen == outer[job[r].t][job[r].k] IN
    /\ pc[r] = "poll"
    /\ Reply(r, IF seen \in Outcome THEN seen ELSE "in_progress")
    /\ UNCHANGED <<dbVars, bank, job, attempt, callback, faults>>

-----------------------------------------------------------------------------
(* PayoutService.initiatePayout. *)

(* findIdempotency: the service's own record answers a repeated key. *)
Lookup(r) ==
    LET seen == inner[job[r].t][job[r].k] IN
    /\ pc[r] = "lookup"
    /\ \/ /\ seen = "absent"
          /\ Goto(r, "check")
          /\ UNCHANGED result
       \/ /\ seen \in Outcome
          /\ Goto(r, "record")
          /\ result' = [result EXCEPT ![r] = seen]
    /\ UNCHANGED <<dbVars, bank, job, attempt, callback, faults>>

(* Mutated form of Check: the status of the transfer is not checked. *)
CheckNothing(r) ==
    /\ pc[r] = "check"
    /\ Goto(r, "select")
    /\ UNCHANGED <<dbVars, bank, job, attempt, result, callback, faults>>

(* findTransferStatus, and TRANSFER_STATE_INVALID for any other status. *)
Check(r) ==
    /\ pc[r] = "check"
    /\ \/ /\ transfer[job[r].t] \in {"FUNDING_CONFIRMED", "PAYOUT_INITIATED"}
          /\ Goto(r, "select")
          /\ UNCHANGED result
       \/ /\ transfer[job[r].t] \notin {"FUNDING_CONFIRMED", "PAYOUT_INITIATED"}
          /\ Goto(r, "release")
          /\ result' = [result EXCEPT ![r] = "state_invalid"]
    /\ UNCHANGED <<dbVars, bank, job, attempt, callback, faults>>

(* getOrCreateInstruction: a select, then an insert if it found nothing. *)
Select(r) ==
    /\ pc[r] = "select"
    /\ Goto(r, IF instruction[job[r].t] = "none" THEN "insert" ELSE "bank")
    /\ UNCHANGED <<dbVars, bank, job, attempt, result, callback, faults>>

Insert(r) ==
    LET t == job[r].t IN
    /\ pc[r] = "insert"
    /\ \/ /\ instruction[t] = "none"
          /\ instruction' = [instruction EXCEPT ![t] = "PENDING"]
          /\ Goto(r, "bank")
          /\ UNCHANGED result
       \/ /\ instruction[t] # "none"    \* unique (transfer_id)
          /\ Goto(r, "release")
          /\ result' = [result EXCEPT ![r] = "error"]
          /\ UNCHANGED instruction
    /\ UNCHANGED <<transfer, outer, inner, bank, job, attempt, callback, faults>>

(* withRetry(adapter.initiatePayout(request, key)).  The partner is external:
   it accepts a payout once per key. *)
Accepted(t, k) == [bank EXCEPT ![t][k] = IF @ = "none" THEN "accepted" ELSE @]

BankAccepts(r) ==
    /\ pc[r] = "bank"
    /\ bank' = Accepted(job[r].t, job[r].k)
    /\ result' = [result EXCEPT ![r] = "initiated"]
    /\ Goto(r, "mark")
    /\ UNCHANGED <<dbVars, job, attempt, callback, faults>>

(* A retryable error: the call may or may not have reached the partner, and
   the last attempt gives up. *)
BankUnavailable(r) ==
    LET last == attempt[r] + 1 = MaxAttempts IN
    /\ pc[r] = "bank"
    /\ bank' \in {bank, Accepted(job[r].t, job[r].k)}
    /\ attempt' = [attempt EXCEPT ![r] = @ + 1]
    /\ Goto(r, IF last THEN "mark" ELSE "bank")
    /\ result' = [result EXCEPT ![r] = IF last THEN "review_required" ELSE @]
    /\ UNCHANGED <<dbVars, job, callback, faults>>

BankRejects(r) ==
    /\ pc[r] = "bank"
    /\ bank[job[r].t][job[r].k] = "none"
    /\ result' = [result EXCEPT ![r] = "review_required"]
    /\ Goto(r, "mark")
    /\ UNCHANGED <<dbVars, bank, job, attempt, callback, faults>>

(* Mutated form of MarkInitiated: only the instruction is updated. *)
MarkInstructionOnly(r) ==
    /\ pc[r] = "mark" /\ result[r] = "initiated"
    /\ instruction' = [instruction EXCEPT ![job[r].t] = "PAYOUT_INITIATED"]
    /\ Goto(r, "save")
    /\ UNCHANGED <<transfer, outer, inner, bank, job, attempt, result, callback, faults>>

(* markInitiated: the instruction unconditionally, the transfer only from
   FUNDING_CONFIRMED. *)
MarkInitiated(r) ==
    LET t == job[r].t IN
    /\ pc[r] = "mark" /\ result[r] = "initiated"
    /\ instruction' = [instruction EXCEPT ![t] = "PAYOUT_INITIATED"]
    /\ transfer' = [transfer EXCEPT ![t] =
                      IF @ = "FUNDING_CONFIRMED" THEN "PAYOUT_INITIATED" ELSE @]
    /\ Goto(r, "save")
    /\ UNCHANGED <<outer, inner, bank, job, attempt, result, callback, faults>>

(* Mutated form of MarkReviewRequired: only an initiated transfer moves. *)
MarkReviewInitiatedOnly(r) ==
    LET t == job[r].t IN
    /\ pc[r] = "mark" /\ result[r] = "review_required"
    /\ instruction' = [instruction EXCEPT ![t] = "PAYOUT_REVIEW_REQUIRED"]
    /\ transfer' = [transfer EXCEPT ![t] =
                      IF @ = "PAYOUT_INITIATED" THEN "PAYOUT_REVIEW_REQUIRED" ELSE @]
    /\ Goto(r, "save")
    /\ UNCHANGED <<outer, inner, bank, job, attempt, result, callback, faults>>

(* markReviewRequired: likewise, from FUNDING_CONFIRMED or PAYOUT_INITIATED. *)
MarkReviewRequired(r) ==
    LET t == job[r].t IN
    /\ pc[r] = "mark" /\ result[r] = "review_required"
    /\ instruction' = [instruction EXCEPT ![t] = "PAYOUT_REVIEW_REQUIRED"]
    /\ transfer' = [transfer EXCEPT ![t] =
                      IF @ \in {"FUNDING_CONFIRMED", "PAYOUT_INITIATED"}
                      THEN "PAYOUT_REVIEW_REQUIRED" ELSE @]
    /\ Goto(r, "save")
    /\ UNCHANGED <<outer, inner, bank, job, attempt, result, callback, faults>>

(* saveIdempotency: on conflict do nothing. *)
Save(r) ==
    LET t == job[r].t  k == job[r].k IN
    /\ pc[r] = "save"
    /\ inner' = [inner EXCEPT ![t][k] = IF @ = "absent" THEN result[r] ELSE @]
    /\ Goto(r, "record")
    /\ UNCHANGED <<transfer, instruction, outer, bank, job, attempt, result, callback, faults>>

(* withIdempotency stores the response and returns it. *)
Record(r) ==
    /\ pc[r] = "record"
    /\ outer' = [outer EXCEPT ![job[r].t][job[r].k] = result[r]]
    /\ Goto(r, "answered")
    /\ UNCHANGED <<transfer, instruction, inner, bank, job, attempt, result, callback, faults>>

(* The handler threw: the reservation is deleted and the error handler
   answers 500. *)
Release(r) ==
    /\ pc[r] = "release"
    /\ outer' = [outer EXCEPT ![job[r].t][job[r].k] = IF @ = "reserved" THEN "absent" ELSE @]
    /\ Goto(r, "answered")
    /\ UNCHANGED <<transfer, instruction, inner, bank, job, attempt, result, callback, faults>>

(* A query fails before it has taken effect.  Errors of the adapter are not
   among these: it wraps every one of them for withRetry. *)
QueryFails(r) ==
    /\ faults < MaxFaults
    /\ pc[r] \in (InHandler \ {"bank"}) \cup {"record"}
    /\ faults' = faults + 1
    /\ Goto(r, "release")
    /\ result' = [result EXCEPT ![r] = "error"]
    /\ UNCHANGED <<dbVars, bank, job, attempt, callback>>

(* The process dies, or the delete of Release fails: the caller sees an error
   and the reservation stays. *)
Crash(r) ==
    /\ faults < MaxFaults
    /\ pc[r] \in Owning \cup {"poll"}
    /\ faults' = faults + 1
    /\ Reply(r, "error")
    /\ UNCHANGED <<dbVars, bank, job, attempt, callback>>

(* The caller has read the answer. *)
Consume(r) ==
    /\ pc[r] = "answered"
    /\ Goto(r, "idle")
    /\ job' = [job EXCEPT ![r] = NoJob]
    /\ attempt' = [attempt EXCEPT ![r] = 0]
    /\ result' = [result EXCEPT ![r] = "none"]
    /\ UNCHANGED <<dbVars, bank, callback, faults>>

-----------------------------------------------------------------------------
(* The partner settles a payout it has accepted (external). *)
BankSettles(t, k, s) ==
    /\ bank[t][k] = "accepted"
    /\ bank' = [bank EXCEPT ![t][k] = s]
    /\ UNCHANGED <<dbVars, requestVars, callback, faults>>

(* Mutated form of CallbackRead: the status of the instruction is not checked. *)
CallbackReadAny(c, t, s) ==
    /\ callback[c] = NoCallback
    /\ \E k \in IdemKey : bank[t][k] = s
    /\ callback' = [callback EXCEPT ![c] = [t |-> t, s |-> s]]
    /\ UNCHANGED <<dbVars, bank, requestVars, faults>>

(* The status callback reads the instruction.  The partner reports a settled
   payout any number of times; a callback that finds no instruction (404), a
   terminal one (200) or one not yet initiated (409) changes nothing. *)
CallbackRead(c, t, s) ==
    /\ callback[c] = NoCallback
    /\ \E k \in IdemKey : bank[t][k] = s
    /\ instruction[t] = "PAYOUT_INITIATED"
    /\ callback' = [callback EXCEPT ![c] = [t |-> t, s |-> s]]
    /\ UNCHANGED <<dbVars, bank, requestVars, faults>>

(* markCompleted, markFailed: the instruction unconditionally, the transfer
   only from PAYOUT_INITIATED. *)
CallbackWrite(c) ==
    LET t == callback[c].t  s == callback[c].s IN
    /\ callback[c] # NoCallback
    /\ instruction' = [instruction EXCEPT ![t] = s]
    /\ transfer' = [transfer EXCEPT ![t] = IF @ = "PAYOUT_INITIATED" THEN s ELSE @]
    /\ callback' = [callback EXCEPT ![c] = NoCallback]
    /\ UNCHANGED <<outer, inner, bank, requestVars, faults>>

(* The write fails or the process dies; the partner will report again. *)
CallbackLost(c) ==
    /\ faults < MaxFaults
    /\ callback[c] # NoCallback
    /\ faults' = faults + 1
    /\ callback' = [callback EXCEPT ![c] = NoCallback]
    /\ UNCHANGED <<dbVars, bank, requestVars>>

-----------------------------------------------------------------------------
Handle(r) ==
    \/ Reserve(r) \/ FindReserved(r) \/ Poll(r)
    \/ Lookup(r) \/ Check(r) \/ Select(r) \/ Insert(r)
    \/ BankAccepts(r) \/ BankUnavailable(r) \/ BankRejects(r)
    \/ MarkInitiated(r) \/ MarkReviewRequired(r) \/ Save(r)
    \/ Record(r) \/ Release(r)

Callbacks ==
    \/ \E t \in Transfer, k \in IdemKey, s \in Terminal : BankSettles(t, k, s)
    \/ \E c \in Callback, t \in Transfer, s \in Terminal : CallbackRead(c, t, s)
    \/ \E c \in Callback : CallbackWrite(c) \/ CallbackLost(c)

(* The orchestrator and its partner; the callers are the environment. *)
Orchestrate ==
    \/ \E r \in Request : Handle(r) \/ QueryFails(r) \/ Crash(r)
    \/ Callbacks

Next ==
    \/ \E t \in Transfer : ConfirmFunding(t)
    \/ \E r \in Request, t \in Transfer : PostAuto(r, t)
    \/ \E r \in Request, t \in Transfer, k \in OpsKey : PostOpsRetry(r, t, k)
    \/ \E r \in Request : Consume(r)
    \/ Orchestrate

Spec == Init /\ [][Next]_vars

-----------------------------------------------------------------------------
(***************************************************************************)
(* Properties                                                              *)
(***************************************************************************)

(* The facts the partner has about payouts of t, for the contract. *)
Settled == [t \in Transfer |->
    LET states == {bank[t][k] : k \in IdemKey} \ {"none"} IN
    (states \ {"accepted"}) \cup (IF states = {} THEN {} ELSE {"accepted"})]

(* The abstract machine: the handlers, their interleavings, failures and
   retries implement the contract of module PayoutContract. *)
Contract == INSTANCE PayoutContract WITH status <- transfer, settled <- Settled

ImplementsContract == Contract!Spec

(* The partner is asked to pay only a transfer whose funding was confirmed,
   although the status is read several awaits before the call (service.ts:54)
   and any service may post any transfer. *)
PaidOnlyIfFunded ==
    \A t \in Transfer :
        (\E k \in IdemKey : bank[t][k] # "none") => transfer[t] # "AWAITING_FUNDING"

(* A transfer is reported initiated only when the partner accepted a payout of
   it, and completed or failed only when the partner reported that: the
   guarded updates of markInitiated, markCompleted and markFailed. *)
StatusTruthful == Contract!StatusTruthful

(* transfers.status follows the domain's table although three handlers write
   it concurrently from a status they read earlier. *)
LegalTransitions ==
    [][\A t \in Transfer :
         transfer'[t] # transfer[t] => CanTransition(transfer[t], transfer'[t])]_vars

(* A stored response, which every later request with the key is answered
   with, is never ahead of the database: "initiated" only when the partner
   accepted under that key, and either outcome only when the transfer has left
   FUNDING_CONFIRMED, whatever query failed or process died on the way. *)
AnswerTruthful ==
    \A t \in Transfer, k \in IdemKey :
        \A stored \in {outer[t][k], inner[t][k]} :
            /\ stored = "initiated" => bank[t][k] # "none"
            /\ stored \in Outcome => transfer[t] \notin {"AWAITING_FUNDING", "FUNDING_CONFIRMED"}

(* While nothing has failed and nobody has retried a transfer by hand, its
   instruction agrees with it once the partner has been called, with duplicated
   and concurrent requests and callbacks: both rows are written in one
   transaction.  (A manual retry reserves its key for good before it writes.) *)
RowsAgree ==
    \A t \in Transfer :
        /\ faults = 0
        /\ \A k \in OpsKey : outer[t][k] = "absent"
        /\ instruction[t] \notin {"none", "PENDING"}
        => instruction[t] = transfer[t]

(* docs/ARCHITECTURE.md:101: "Duplicate API calls/webhook replays | Double
   transfer/payout | Idempotency keys + unique DB constraints + deterministic
   replay response": the partner accepts at most one payout of a transfer. *)
NoDoublePayout ==
    \A t \in Transfer : Cardinality({k \in IdemKey : bank[t][k] # "none"}) <= 1
=============================================================================
