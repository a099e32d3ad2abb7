-------------------------- MODULE PayoutPathProofs --------------------------
(***************************************************************************)
(* Theorems of module PayoutPath, for any sets of transfers, requests and  *)
(* workers and any bounds: a payout waits for the sweep of its deposit, no *)
(* payout is forgotten, and the whole path keeps the contract of module    *)
(* PayoutContract.                                                         *)
(*                                                                         *)
(* What is proved of the orchestrator in module PayoutProofs, and of the   *)
(* workers in WorkersProofs, is used here: a step of the path is a step of *)
(* one of them, or of two of them at once.                                 *)
(***************************************************************************)
EXTENDS PayoutPath, TLAPS

Requests == INSTANCE PayoutProofs
Jobs == INSTANCE WorkersProofs WITH part <- "sweep"

USE PathAssumption DEF D!DispatchAssumption, S!SweepAssumption, NoConn

-----------------------------------------------------------------------------
(***************************************************************************)
(* The invariant                                                           *)
(***************************************************************************)

Unpaid == {"AWAITING_FUNDING", "FUNDING_CONFIRMED"}

(* The gate has been passed for good: t needs no sweep, or its deposit is where
   it stays. *)
Cleared(t) == SweepRequired /\ t \in BaseTransfer => deposit[t] = "treasury"

(* A request, an instruction or the partner knows of t. *)
Involved(t) ==
    \/ \E r \in Request : pc[r] # "idle" /\ job[r].t = t
    \/ instruction[t] # "none"
    \/ \E k \in P!IdemKey : bank[t][k] # "none"

(* Only what has passed the gate goes further: a worker holds it, posts it, and
   what is posted may be retried by hand. *)
Gated ==
    /\ \A w \in Worker : claim[w] # D!NoClaim => Cleared(claim[w].t)
    /\ \A t \in Transfer : Involved(t) => Cleared(t)

(* The record of a deposit is there before anybody moves the deposit. *)
Unopened == \A t \in Transfer : settlement[t] = "none" => deposit[t] # "treasury" /\ t \notin airborne

(* Each call is carried by a request of its own. *)
Calls ==
    /\ conn \in [Worker -> Request \cup {NoConn}]
    /\ \A w \in Worker :
          /\ conn[w] # NoConn <=> reply[w] = "none"
          /\ conn[w] # NoConn =>
                pc[conn[w]] # "idle" /\ job[conn[w]] = [t |-> claim[w].t, k |-> AutoKey]
    /\ \A v, w \in Worker : conn[v] = conn[w] /\ conn[v] # NoConn => v = w

(* An answer that reports an outcome comes after the outcome. *)
Answers ==
    \A r \in Request :
        /\ pc[r] = "release" => result[r] \notin P!Outcome
        /\ pc[r] = "answered" /\ result[r] \in P!Outcome => transfer[job[r].t] \notin Unpaid

(* So does what the dispatcher makes of it. *)
Delivered == \A w \in Worker : reply[w] = "ok" => transfer[claim[w].t] \notin Unpaid

Inv ==
    /\ Requests!Inv /\ Jobs!SweepInv /\ D!TypeOK
    /\ Gated /\ Unopened /\ Calls /\ Answers /\ Delivered /\ NoLostPayout

-----------------------------------------------------------------------------
(***************************************************************************)
(* The modules of the path, as the other proofs have them                  *)
(***************************************************************************)
LEMMA SameOrchestrator == (P!Next <=> Requests!Next) /\ P!vars = Requests!vars
  BY DEF
      P!Next, P!ConfirmFunding, P!PostAuto, P!PostOpsRetry, P!Consume, P!Orchestrate,
      P!Handle, P!QueryFails, P!Crash, P!Callbacks, P!Post, P!Reserve, P!FindReserved, P!Poll,
      P!Lookup, P!Check, P!Select, P!Insert, P!BankAccepts, P!BankUnavailable, P!BankRejects,
      P!MarkInitiated, P!MarkReviewRequired, P!Save, P!Record, P!Release, P!BankSettles,
      P!CallbackRead, P!CallbackWrite, P!CallbackLost, P!Accepted, P!Goto, P!Reply, P!vars,
      P!dbVars, P!requestVars, P!IdemKey, P!Job, P!NoJob, P!NoCallback, P!Outcome, P!Terminal,
      P!InHandler, P!Owning, Requests!Next, Requests!ConfirmFunding, Requests!PostAuto,
      Requests!PostOpsRetry, Requests!Consume, Requests!Orchestrate, Requests!Handle,
      Requests!QueryFails, Requests!Crash, Requests!Callbacks, Requests!Post,
      Requests!Reserve, Requests!FindReserved, Requests!Poll, Requests!Lookup, Requests!Check,
      Requests!Select, Requests!Insert, Requests!BankAccepts, Requests!BankUnavailable,
      Requests!BankRejects, Requests!MarkInitiated, Requests!MarkReviewRequired,
      Requests!Save, Requests!Record, Requests!Release, Requests!BankSettles,
      Requests!CallbackRead, Requests!CallbackWrite, Requests!CallbackLost, Requests!Accepted,
      Requests!Goto, Requests!Reply, Requests!vars, Requests!dbVars, Requests!requestVars,
      Requests!IdemKey, Requests!Job, Requests!NoJob, Requests!NoCallback, Requests!Outcome,
      Requests!Terminal, Requests!InHandler, Requests!Owning

LEMMA SameSweeper == S!Next <=> Jobs!S!Next
  BY DEF
      S!Next, S!Open, S!Mine, S!Work, S!Claim, S!Broadcast, S!ReceiptSuccess,
      S!ReceiptFailure, S!MarkSwept, S!AuditSwept, S!MarkRetry, S!MarkReviewRequired,
      S!MarkFails, S!WorkerDies, S!Idle, S!At, S!Goto, S!Stop, S!SetStatus, S!Reclaimable,
      S!NoTask, Jobs!S!Next, Jobs!S!Open, Jobs!S!Mine, Jobs!S!Work, Jobs!S!Claim,
      Jobs!S!Broadcast, Jobs!S!ReceiptSuccess, Jobs!S!ReceiptFailure, Jobs!S!MarkSwept,
      Jobs!S!AuditSwept, Jobs!S!MarkRetry, Jobs!S!MarkReviewRequired, Jobs!S!MarkFails,
      Jobs!S!WorkerDies, Jobs!S!Idle, Jobs!S!At, Jobs!S!Goto, Jobs!S!Stop, Jobs!S!SetStatus,
      Jobs!S!Reclaimable, Jobs!S!NoTask

LEMMA SameDispatcher == D!Next <=> Jobs!D!Next
  BY DEF
      D!Next, D!Enqueue, D!Work, D!Fault, D!Claim, D!RejectPayload, D!Send, D!Receive,
      D!MarkProcessed, D!RetryDue, D!MarkRetry, D!MarkDeadLetter, D!MarkFails, D!WorkerDies,
      D!Finish, D!GateOpen, D!Due, D!Holds, D!Idle, D!NoClaim, D!SettlementChanges,
      D!SettlementState, D!Status, D!Reply, D!eventVars, Jobs!D!Next, Jobs!D!Enqueue,
      Jobs!D!Work, Jobs!D!Fault, Jobs!D!Claim, Jobs!D!RejectPayload, Jobs!D!Send,
      Jobs!D!Receive, Jobs!D!MarkProcessed, Jobs!D!RetryDue, Jobs!D!MarkRetry,
      Jobs!D!MarkDeadLetter, Jobs!D!MarkFails, Jobs!D!WorkerDies, Jobs!D!Finish,
      Jobs!D!GateOpen, Jobs!D!Due, Jobs!D!Holds, Jobs!D!Idle, Jobs!D!NoClaim,
      Jobs!D!SettlementChanges, Jobs!D!SettlementState, Jobs!D!Status, Jobs!D!Reply,
      Jobs!D!eventVars

LEMMA SameContract ==
  /\ P!Contract!Init <=> Requests!Contract!Init
  /\ P!Contract!Next <=> Requests!Contract!Next
  BY DEF
      P!Settled, Requests!Settled, P!IdemKey, Requests!IdemKey, P!Contract!Init,
      P!Contract!Next, P!Contract!Fund, P!Contract!Accept, P!Contract!Settle,
      P!Contract!Initiate, P!Contract!Conclude, P!Contract!Review, Requests!Contract!Init,
      Requests!Contract!Next, Requests!Contract!Fund,
      Requests!Contract!Accept, Requests!Contract!Settle, Requests!Contract!Initiate,
      Requests!Contract!Conclude, Requests!Contract!Review

(* The assumptions of module Workers are among those of the path. *)
LEMMA SweepTheory ==
  ASSUME Jobs!SweepInv, Jobs!S!Next
  PROVE  Jobs!SweepInv'
  <1>1. Jobs!IsFiniteSet(Worker)
    BY DEF Jobs!IsFiniteSet, IsFiniteSet
  <1> QED BY <1>1, Jobs!SweepNext DEF Jobs!D!DispatchAssumption, Jobs!S!SweepAssumption

LEMMA DispatchTheory ==
  ASSUME D!TypeOK, D!Next
  PROVE  D!TypeOK'
  <1>1. Jobs!IsFiniteSet(Worker)
    BY DEF Jobs!IsFiniteSet, IsFiniteSet
  <1>2. D!TypeOK <=> Jobs!D!TypeOK
    BY DEF D!TypeOK, Jobs!D!TypeOK, D!EventState, Jobs!D!EventState, D!NoClaim,
           Jobs!D!NoClaim, D!Reply, Jobs!D!Reply, D!Status, Jobs!D!Status,
           D!SettlementState, Jobs!D!SettlementState
  <1>3. D!TypeOK' <=> Jobs!D!TypeOK'
    BY DEF D!TypeOK, Jobs!D!TypeOK, D!EventState, Jobs!D!EventState, D!NoClaim,
           Jobs!D!NoClaim, D!Reply, Jobs!D!Reply, D!Status, Jobs!D!Status,
           D!SettlementState, Jobs!D!SettlementState
  <1>4. Jobs!D!TypeOK'
    BY <1>1, <1>2, SameDispatcher, Jobs!DispatchTyped
       DEF Jobs!D!DispatchAssumption, Jobs!S!SweepAssumption
  <1> QED BY <1>3, <1>4

(* What the orchestrator's invariant says, in the words of this module. *)
LEMMA RequestFacts ==
  ASSUME Requests!Inv
  PROVE  /\ P!TypeOK
         /\ \A r \in Request : pc[r] # "idle" => job[r] \in P!Job
         /\ \A r \in Request : pc[r] = "record" =>
               result[r] \in P!Outcome /\ transfer[job[r].t] \notin Unpaid
         /\ \A t \in Transfer, k \in P!IdemKey : \A s \in {outer[t][k], inner[t][k]} :
               s \in P!Outcome => transfer[t] \notin Unpaid
         /\ \A c \in Callback : callback[c] # P!NoCallback =>
               \E k \in P!IdemKey : bank[callback[c].t][k] = callback[c].s
         /\ P!PaidOnlyIfFunded
  <1> USE DEF Requests!Inv, Requests!Typed, Requests!IdemKey, P!IdemKey, Requests!Outcome, P!Outcome
  <1>1. P!TypeOK
    BY DEF Requests!TypeOK, P!TypeOK, Requests!Job, P!Job, Requests!NoJob, P!NoJob,
           Requests!Answer, P!Answer, Requests!InstructionState, P!InstructionState,
           Requests!Terminal, P!Terminal, Requests!Step, P!Step, Requests!Owning, P!Owning,
           Requests!InHandler, P!InHandler, Requests!NoCallback, P!NoCallback,
           Requests!StoredState, P!StoredState
  <1>2. \A r \in Request : pc[r] # "idle" => job[r] \in P!Job
    BY DEF Requests!RequestOK, Requests!Job, P!Job
  <1>3. \A r \in Request : pc[r] = "record" =>
           result[r] \in P!Outcome /\ transfer[job[r].t] \notin Unpaid
    BY DEF Requests!RequestOK, Requests!Remembered, Requests!Unpaid, Unpaid
  <1>4. \A t \in Transfer, k \in P!IdemKey : \A s \in {outer[t][k], inner[t][k]} :
           s \in P!Outcome => transfer[t] \notin Unpaid
    BY DEF Requests!AnswerTruthful, Unpaid
  <1>5. \A c \in Callback : callback[c] # P!NoCallback =>
           \E k \in P!IdemKey : bank[callback[c].t][k] = callback[c].s
    BY DEF Requests!CallbackOK, Requests!NoCallback, P!NoCallback
  <1>6. P!PaidOnlyIfFunded
    BY DEF Requests!PaidOnlyIfFunded, P!PaidOnlyIfFunded
  <1> QED BY <1>1, <1>2, <1>3, <1>4, <1>5, <1>6

LEMMA SweepFacts ==
  ASSUME Jobs!SweepInv
  PROVE  /\ S!TypeOK
         /\ \A w \in Sweeper : task[w] # S!NoTask => settlement[task[w].t] # "none"
         /\ \A t \in Transfer : settlement[t] = "swept" => deposit[t] = "treasury"
  BY DEF Jobs!SweepInv, Jobs!S!TypeOK, S!TypeOK, Jobs!S!NoTask, S!NoTask,
         Jobs!S!SettlementState, S!SettlementState, Jobs!S!TaskStep, S!TaskStep

-----------------------------------------------------------------------------
(***************************************************************************)
(* Steps of one part                                                       *)
(***************************************************************************)

(* A step of the path is a step of the orchestrator or of its callers, or it
   leaves the orchestrator alone. *)
LEMMA RequestsStep ==
  ASSUME Requests!Inv,
         P!Next \/ (UNCHANGED payoutVars /\ faults' \in 0 .. MaxFaults)
  PROVE  /\ Requests!Inv'
         /\ \A t \in Transfer :
               /\ transfer[t] # "AWAITING_FUNDING" => transfer'[t] # "AWAITING_FUNDING"
               /\ transfer[t] \notin Unpaid => transfer'[t] \notin Unpaid
  <1>1. CASE P!Next
    <2>1. [Requests!Next]_Requests!vars
      BY <1>1, SameOrchestrator
    <2>2. Requests!Inv'
      BY <2>1, Requests!NextInv
    <2>3. Requests!Monotone
      BY <2>1, Requests!NextMonotone DEF Requests!Inv
    <2> QED BY <2>2, <2>3 DEF Requests!Monotone, Requests!Unpaid, Unpaid
  <1>2. CASE UNCHANGED payoutVars /\ faults' \in 0 .. MaxFaults
    <2>1. UNCHANGED <<transfer, instruction, outer, inner, bank, pc, job, attempt, result,
                      callback>>
      BY <1>2 DEF payoutVars
    <2>2. Requests!TypeOK'
      BY <1>2, <2>1 DEF Requests!Inv, Requests!Typed, Requests!TypeOK
    <2>3. Requests!RequestOK' /\ Requests!CallbackOK' /\ Requests!PaidOnlyIfFunded'
          /\ Requests!AnswerTruthful' /\ \A r \in Request : Requests!Remembered(r)'
      BY <2>1 DEF Requests!Inv, Requests!Typed, Requests!RequestOK, Requests!CallbackOK,
                  Requests!PaidOnlyIfFunded, Requests!AnswerTruthful, Requests!Remembered
    <2> QED BY <2>1, <2>2, <2>3 DEF Requests!Inv, Requests!Typed
  <1> QED BY <1>1, <1>2

(* Likewise of the sweeper: and a deposit that has reached treasury stays. *)
LEMMA SweepStep ==
  ASSUME Jobs!SweepInv, Unopened,
         \/ S!Next
         \/ UNCHANGED <<sweepVars, settlement>> /\ faults' \in 0 .. MaxFaults
  PROVE  Jobs!SweepInv' /\ Unopened' /\ \A t \in Transfer : Cleared(t) => Cleared(t)'
  <1>1. CASE S!Next
    <2>1. Jobs!SweepInv'
      BY <1>1, SameSweeper, SweepTheory
    <2> USE SweepFacts
        DEF Unopened, Cleared, S!TypeOK, S!NoTask, S!At, S!Goto, S!Stop, S!SetStatus, S!Idle
    <2>2. ASSUME NEW t \in Transfer, S!Open(t) \/ S!Mine(t)
          PROVE  Unopened' /\ \A u \in Transfer : Cleared(u) => Cleared(u)'
      BY <2>2 DEF S!Open, S!Mine
    <2>3. ASSUME NEW w \in Sweeper,
                 (\E t \in Transfer : S!Claim(w, t)) \/ S!MarkSwept(w) \/ S!MarkRetry(w)
                 \/ S!MarkReviewRequired(w)
          PROVE  Unopened' /\ UNCHANGED deposit
      BY <2>3 DEF S!Claim, S!MarkSwept, S!MarkRetry, S!MarkReviewRequired
    <2>4. ASSUME NEW w \in Sweeper,
                 S!Broadcast(w) \/ S!ReceiptSuccess(w) \/ S!ReceiptFailure(w)
                 \/ S!AuditSwept(w) \/ S!MarkFails(w) \/ S!WorkerDies(w)
          PROVE  Unopened' /\ UNCHANGED deposit
      BY <2>4 DEF S!Broadcast, S!ReceiptSuccess, S!ReceiptFailure, S!AuditSwept, S!MarkFails,
                  S!WorkerDies
    <2> QED BY <1>1, <2>1, <2>2, <2>3, <2>4 DEF S!Next, S!Work
  <1>2. CASE UNCHANGED <<sweepVars, settlement>> /\ faults' \in 0 .. MaxFaults
    <2>1. UNCHANGED <<settlement, tries, task, deposit, airborne>>
      BY <1>2 DEF sweepVars
    <2> QED BY <1>2, <2>1 DEF Jobs!SweepInv, Jobs!S!TypeOK, Unopened, Cleared
  <1> QED BY <1>1, <1>2

-----------------------------------------------------------------------------
(***************************************************************************)
(* The orchestrator keeps what the path adds                               *)
(***************************************************************************)

(* Its own steps take no request on and end none; they write about transfers
   that were known, and answer with an outcome only after it. *)
LEMMA OrchestratorFrame ==
  ASSUME Requests!Inv, Requests!Inv', Answers, P!Orchestrate,
         \A t \in Transfer : transfer[t] \notin Unpaid => transfer'[t] \notin Unpaid
  PROVE  /\ UNCHANGED job
         /\ \A r \in Request : pc'[r] = "idle" <=> pc[r] = "idle"
         /\ \A t \in Transfer : Involved(t)' => Involved(t)
         /\ Answers'
  <1> DEFINE Kept == UNCHANGED job /\ \A r \in Request : pc'[r] = "idle" <=> pc[r] = "idle"
             Known == \A t \in Transfer :
                         /\ instruction'[t] # "none" => Involved(t)
                         /\ \A k \in P!IdemKey : bank'[t][k] # "none" => Involved(t)
  <1>a. /\ P!TypeOK
        /\ \A r \in Request : pc[r] # "idle" => job[r] \in P!Job
        /\ \A r \in Request : pc[r] = "record" =>
              result[r] \in P!Outcome /\ transfer[job[r].t] \notin Unpaid
        /\ \A t \in Transfer, k \in P!IdemKey : \A s \in {outer[t][k], inner[t][k]} :
              s \in P!Outcome => transfer[t] \notin Unpaid
        /\ \A c \in Callback : callback[c] # P!NoCallback =>
              \E k \in P!IdemKey : bank[callback[c].t][k] = callback[c].s
    BY RequestFacts
  <1> USE <1>a DEF P!TypeOK, P!Goto, P!Reply, P!dbVars, P!requestVars
  <1>1. ASSUME NEW r \in Request, P!Reserve(r) \/ P!FindReserved(r) \/ P!Poll(r)
        PROVE  Kept /\ Known /\ Answers'
    <2>1. Kept
      BY <1>1 DEF P!Reserve, P!FindReserved, P!Poll
    <2>2. Known
      BY <1>1 DEF P!Reserve, P!FindReserved, P!Poll, Involved
    <2>3. Answers'
      BY <1>1 DEF P!Reserve, P!FindReserved, P!Poll, Answers, P!Job, P!Outcome
    <2> QED BY <2>1, <2>2, <2>3
  <1>2. ASSUME NEW r \in Request, P!Lookup(r) \/ P!Check(r) \/ P!Select(r)
        PROVE  Kept /\ Known /\ Answers'
    <2>1. Kept
      BY <1>2 DEF P!Lookup, P!Check, P!Select
    <2>2. Known
      BY <1>2 DEF P!Lookup, P!Check, P!Select, Involved
    <2>3. Answers'
      BY <1>2 DEF P!Lookup, P!Check, P!Select, Answers, P!Job, P!Outcome
    <2> QED BY <2>1, <2>2, <2>3
  <1>3. ASSUME NEW r \in Request, P!Insert(r) PROVE Kept /\ Known /\ Answers'
    <2>1. Kept
      BY <1>3 DEF P!Insert
    <2>2. Known
      BY <1>3 DEF P!Insert, Involved
    <2>3. Answers'
      BY <1>3 DEF P!Insert, Answers, P!Job, P!Outcome
    <2> QED BY <2>1, <2>2, <2>3
  <1>4. ASSUME NEW r \in Request,
               P!BankAccepts(r) \/ P!BankUnavailable(r) \/ P!BankRejects(r)
        PROVE  Kept /\ Known /\ Answers'
    <2>1. Kept
      BY <1>4 DEF P!BankAccepts, P!BankUnavailable, P!BankRejects
    <2>2. bank' \in {bank, P!Accepted(job[r].t, job[r].k)} /\ UNCHANGED instruction
          /\ pc[r] # "idle" /\ job[r].t \in Transfer
      BY <1>4 DEF P!BankAccepts, P!BankUnavailable, P!BankRejects, P!Job
    <2>3. Known
      BY <2>2 DEF P!Accepted, Involved
    <2>4. Answers'
      BY <1>4 DEF P!BankAccepts, P!BankUnavailable, P!BankRejects, Answers, P!Job, P!Outcome
    <2> QED BY <2>1, <2>3, <2>4
  <1>5. ASSUME NEW r \in Request, P!MarkInitiated(r) \/ P!MarkReviewRequired(r) \/ P!Save(r)
        PROVE  Kept /\ Known /\ Answers'
    <2>1. Kept
      BY <1>5 DEF P!MarkInitiated, P!MarkReviewRequired, P!Save
    <2>2. Known
      BY <1>5 DEF P!MarkInitiated, P!MarkReviewRequired, P!Save, Involved
    <2>3. pc' = [pc EXCEPT ![r] = pc'[r]] /\ pc'[r] \in {"save", "record"} /\ UNCHANGED <<job, result>>
      BY <1>5 DEF P!MarkInitiated, P!MarkReviewRequired, P!Save
    <2>4. Answers'
      BY <2>3 DEF Answers, P!Job
    <2> QED BY <2>1, <2>2, <2>4
  <1>6. ASSUME NEW r \in Request, P!Record(r) \/ P!Release(r)
        PROVE  Kept /\ Known /\ Answers'
    <2>1. Kept
      BY <1>6 DEF P!Record, P!Release
    <2>2. Known
      BY <1>6 DEF P!Record, P!Release, Involved
    <2>3. Answers'
      BY <1>6 DEF P!Record, P!Release, Answers, P!Job
    <2> QED BY <2>1, <2>2, <2>3
  <1>7. ASSUME NEW r \in Request, P!QueryFails(r) \/ P!Crash(r)
        PROVE  Kept /\ Known /\ Answers'
    <2>1. Kept
      BY <1>7 DEF P!QueryFails, P!Crash, P!Owning, P!InHandler
    <2>2. Known
      BY <1>7 DEF P!QueryFails, P!Crash, Involved
    <2>3. Answers'
      BY <1>7 DEF P!QueryFails, P!Crash, Answers, P!Job, P!Outcome
    <2> QED BY <2>1, <2>2, <2>3
  <1>8. ASSUME P!Callbacks PROVE Kept /\ Known /\ Answers'
    <2>1. UNCHANGED <<pc, job, result>>
      BY <1>8 DEF P!Callbacks, P!BankSettles, P!CallbackRead, P!CallbackWrite, P!CallbackLost
    <2>2. Known
      <3>1. ASSUME NEW t \in Transfer, NEW k \in P!IdemKey, NEW s \in P!Terminal,
                   P!BankSettles(t, k, s)
            PROVE  Known
        BY <3>1 DEF P!BankSettles, Involved
      <3>2. ASSUME NEW c \in Callback, P!CallbackWrite(c) PROVE Known
        BY <3>2 DEF P!CallbackWrite, Involved, P!Terminal
      <3>3. ASSUME UNCHANGED <<instruction, bank>> PROVE Known
        BY <3>3 DEF Involved
      <3> QED BY <1>8, <3>1, <3>2, <3>3 DEF P!Callbacks, P!CallbackRead, P!CallbackLost
    <2>3. Answers'
      BY <2>1 DEF Answers, P!Job
    <2> QED BY <2>1, <2>2, <2>3
  <1>9. Kept /\ Known /\ Answers'
    BY <1>1, <1>2, <1>3, <1>4, <1>5, <1>6, <1>7, <1>8 DEF P!Orchestrate, P!Handle
  <1> QED BY <1>9 DEF Involved

-----------------------------------------------------------------------------
(***************************************************************************)
(* The steps of the path                                                   *)
(***************************************************************************)

(* No step takes a transfer back to unpaid, or a deposit out of treasury. *)
Onward ==
    \A t \in Transfer :
        /\ transfer[t] \notin Unpaid => transfer'[t] \notin Unpaid
        /\ Cleared(t) => Cleared(t)'

(* The invariants of the parts hold after a step of one part, or of two. *)
LEMMA PartsStep ==
  ASSUME Inv, D!TypeOK',
         P!Next \/ UNCHANGED payoutVars,
         S!Next \/ UNCHANGED <<sweepVars, settlement>>
  PROVE  Requests!Inv' /\ Jobs!SweepInv' /\ Unopened' /\ Onward
  <1>1. faults' \in 0 .. MaxFaults
    BY DEF D!TypeOK
  <1>2. Requests!Inv'
        /\ \A t \in Transfer : transfer[t] \notin Unpaid => transfer'[t] \notin Unpaid
    BY <1>1, RequestsStep DEF Inv
  <1>3. Jobs!SweepInv' /\ Unopened' /\ \A t \in Transfer : Cleared(t) => Cleared(t)'
    BY <1>1, SweepStep DEF Inv
  <1> QED BY <1>2, <1>3 DEF Onward

LEMMA GatedKept ==
  ASSUME Gated, Onward,
         \A w \in Worker : claim'[w] # D!NoClaim =>
            claim'[w].t \in Transfer
            /\ ((claim[w] # D!NoClaim /\ claim'[w].t = claim[w].t) \/ Cleared(claim'[w].t)),
         \A t \in Transfer : Involved(t)' => Involved(t) \/ Cleared(t)
  PROVE  Gated'
  <1>1. \A w \in Worker : claim'[w] # D!NoClaim => Cleared(claim[w].t)'
    <2> SUFFICES ASSUME NEW w \in Worker, claim'[w] # D!NoClaim PROVE Cleared(claim[w].t)'
      OBVIOUS
    <2>1. PICK t \in Transfer : t = claim'[w].t
      OBVIOUS
    <2>2. Cleared(t)'
      BY <2>1 DEF Gated, Onward
    <2> QED BY <2>1, <2>2 DEF Cleared
  <1>2. \A t \in Transfer : Involved(t)' => Cleared(t)'
    BY DEF Gated, Onward
  <1> QED BY <1>1, <1>2 DEF Gated

LEMMA DeliveredKept ==
  ASSUME Onward,
         \A w \in Worker : reply'[w] = "ok" =>
            claim'[w].t \in Transfer /\ transfer[claim'[w].t] \notin Unpaid,
         \A t \in Transfer : event'[t] = "processed" => transfer[t] \notin Unpaid
  PROVE  Delivered' /\ NoLostPayout'
  BY DEF Onward, Delivered, NoLostPayout, Unpaid

LEMMA ConfirmKeeps ==
  ASSUME Inv, NEW t \in Transfer, Confirm(t)
  PROVE  Inv'
  <1>a. P!TypeOK /\ S!TypeOK /\ D!TypeOK
    BY RequestFacts, SweepFacts DEF Inv
  <1>1. settlement' \in [Transfer -> D!SettlementState]
    BY <1>a DEF Confirm, S!Open, S!TypeOK, S!SettlementState, D!SettlementState
  <1>2. D!TypeOK'
    BY <1>a, <1>1 DEF Confirm, D!Enqueue, D!TypeOK, D!EventState
  <1>3. P!Next /\ (S!Next \/ UNCHANGED <<sweepVars, settlement>>)
    BY DEF Confirm, P!Next, S!Next
  <1>4. Requests!Inv' /\ Jobs!SweepInv' /\ Unopened' /\ Onward
    BY <1>2, <1>3, PartsStep
  <1>5. /\ UNCHANGED <<instruction, bank, pc, job, result, claim, reply, conn>>
        /\ \A u \in Transfer : event'[u] = "processed" => event[u] = "processed"
    BY <1>a DEF Confirm, P!ConfirmFunding, P!requestVars, D!Enqueue, D!TypeOK
  <1>6. Gated'
    BY <1>a, <1>4, <1>5, GatedKept DEF Inv, Involved, D!TypeOK
  <1>7. Calls'
    BY <1>5 DEF Inv, Calls
  <1>8. Answers'
    BY <1>4, <1>5, RequestFacts DEF Inv, Answers, Onward, P!Job
  <1>9. Delivered' /\ NoLostPayout'
    <2>1. \A w \in Worker : reply[w] = "ok" => claim[w].t \in Transfer
      BY <1>a DEF D!TypeOK
    <2>2. \A w \in Worker : reply'[w] = "ok" =>
             claim'[w].t \in Transfer /\ transfer[claim'[w].t] \notin Unpaid
      BY <1>5, <2>1 DEF Inv, Delivered
    <2>3. \A u \in Transfer : event'[u] = "processed" => transfer[u] \notin Unpaid
      BY <1>5 DEF Inv, NoLostPayout, Unpaid
    <2> QED BY <1>4, <2>2, <2>3, DeliveredKept
  <1> QED BY <1>2, <1>4, <1>6, <1>7, <1>8, <1>9 DEF Inv

(* What the lemmas of the dispatcher's steps need of the state. *)
LEMMA WorkerFacts ==
  ASSUME Inv
  PROVE  /\ \A w \in Worker : claim[w] # D!NoClaim => claim[w].t \in Transfer
         /\ \A w \in Worker : reply[w] # "unsent" => claim[w] # D!NoClaim
         /\ \A w \in Worker : reply[w] = "ok" => transfer[claim[w].t] \notin Unpaid
         /\ \A t \in Transfer : event[t] = "processed" => transfer[t] \notin Unpaid
  BY DEF Inv, D!TypeOK, Delivered, NoLostPayout, Unpaid

(* The request a post opens was idle, so nobody waits for it. *)
LEMMA SendKeeps ==
  ASSUME Inv, NEW w \in Worker, NEW r \in Request, Send(w, r)
  PROVE  Inv'
  <1>a. P!TypeOK /\ D!TypeOK /\ claim[w] # D!NoClaim /\ claim[w].t \in Transfer
    BY RequestFacts, WorkerFacts DEF Inv, Send, D!Send, D!Idle
  <1>1. D!TypeOK'
    BY <1>a, DispatchTheory DEF Send, D!Next, D!Work
  <1>2. P!Next /\ UNCHANGED <<sweepVars, settlement>>
    BY <1>a DEF Send, P!Next, D!Send
  <1>3. Requests!Inv' /\ Jobs!SweepInv' /\ Unopened' /\ Onward
    BY <1>1, <1>2, PartsStep
  <1>4. /\ UNCHANGED <<transfer, instruction, bank, result, claim, event>>
        /\ pc[r] = "idle" /\ pc' = [pc EXCEPT ![r] = "sent"]
        /\ job' = [job EXCEPT ![r] = [t |-> claim[w].t, k |-> AutoKey]]
        /\ reply[w] = "unsent" /\ reply' = [reply EXCEPT ![w] = "none"]
        /\ conn' = [conn EXCEPT ![w] = r]
    BY DEF Send, D!Send, D!eventVars, P!PostAuto, P!Post, P!Goto, P!dbVars
  <1>5. Gated'
    <2>1. \A t \in Transfer : Involved(t)' => Involved(t) \/ t = claim[w].t
      BY <1>a, <1>4 DEF Involved, P!TypeOK
    <2>2. Cleared(claim[w].t)
      BY <1>a DEF Inv, Gated
    <2> QED BY <1>3, <1>4, <2>1, <2>2, WorkerFacts, GatedKept DEF Inv
  <1>6. Calls'
    <2>1. \A v \in Worker : conn[v] # r
      BY <1>4 DEF Inv, Calls
    <2>2. \A v \in Worker : conn'[v] = IF v = w THEN r ELSE conn[v]
      BY <1>4 DEF Inv, Calls
    <2>3. \A v \in Worker : reply'[v] = IF v = w THEN "none" ELSE reply[v]
      BY <1>a, <1>4 DEF D!TypeOK
    <2>4. \A q \in Request :
             /\ pc'[q] = IF q = r THEN "sent" ELSE pc[q]
             /\ job'[q] = IF q = r THEN [t |-> claim[w].t, k |-> AutoKey] ELSE job[q]
      BY <1>a, <1>4 DEF P!TypeOK
    <2>5. conn' \in [Worker -> Request \cup {NoConn}]
      BY <1>4 DEF Inv, Calls
    <2>6. ASSUME NEW v \in Worker
          PROVE  /\ conn'[v] # NoConn <=> reply'[v] = "none"
                 /\ conn'[v] # NoConn =>
                       pc'[conn'[v]] # "idle"
                       /\ job'[conn'[v]] = [t |-> claim'[v].t, k |-> AutoKey]
      BY <1>4, <2>1, <2>2, <2>3, <2>4 DEF Inv, Calls
    <2>7. \A u, v \in Worker : conn'[u] = conn'[v] /\ conn'[u] # NoConn => u = v
      BY <2>1, <2>2 DEF Inv, Calls
    <2> QED BY <2>5, <2>6, <2>7 DEF Calls
  <1>7. Answers'
    BY <1>a, <1>4 DEF Inv, Answers, P!TypeOK
  <1>8. Delivered' /\ NoLostPayout'
    BY <1>a, <1>3, <1>4, WorkerFacts, DeliveredKept DEF D!TypeOK
  <1> QED BY <1>1, <1>3, <1>5, <1>6, <1>7, <1>8 DEF Inv

(* The dispatcher has 2xx only for an outcome. *)
LEMMA AnsweredKeeps ==
  ASSUME Inv, NEW w \in Worker, Answered(w)
  PROVE  Inv'
  <1> DEFINE r == conn[w]
  <1>a. P!TypeOK /\ D!TypeOK /\ r \in Request /\ reply[w] = "none" /\ claim[w].t \in Transfer
        /\ job[r] = [t |-> claim[w].t, k |-> AutoKey] /\ pc[r] = "answered"
    BY RequestFacts, WorkerFacts DEF Inv, Answered, Calls, D!Receive, P!Consume
  <1>1. D!TypeOK'
    BY <1>a, DispatchTheory DEF Answered, StatusClass, D!Next, D!Reply, D!Status
  <1>2. P!Next /\ UNCHANGED <<sweepVars, settlement>>
    BY <1>a DEF Answered, P!Next, D!Receive
  <1>3. Requests!Inv' /\ Jobs!SweepInv' /\ Unopened' /\ Onward
    BY <1>1, <1>2, PartsStep
  <1>4. /\ UNCHANGED <<transfer, instruction, bank, claim, event>>
        /\ pc' = [pc EXCEPT ![r] = "idle"] /\ job' = [job EXCEPT ![r] = P!NoJob]
        /\ result' = [result EXCEPT ![r] = "none"]
        /\ reply' = [reply EXCEPT ![w] = StatusClass(result[r])]
        /\ conn' = [conn EXCEPT ![w] = NoConn]
    BY DEF Answered, D!Receive, D!eventVars, P!Consume, P!Goto, P!dbVars
  <1>5. StatusClass(result[r]) \in {"ok", "retryable"}
        /\ (StatusClass(result[r]) = "ok" => transfer[claim[w].t] \notin Unpaid)
    BY <1>a DEF StatusClass, Inv, Answers
  <1> HIDE DEF r
  <1>6. Gated'
    <2>1. \A t \in Transfer : Involved(t)' => Involved(t)
      BY <1>a, <1>4 DEF Involved, P!TypeOK
    <2> QED BY <1>3, <1>4, <2>1, WorkerFacts, GatedKept DEF Inv
  <1>7. Calls'
    BY <1>a, <1>4, <1>5 DEF Inv, Calls, P!TypeOK, D!TypeOK, r
  <1>8. Answers'
    BY <1>a, <1>4 DEF Inv, Answers, P!TypeOK
  <1>9. Delivered' /\ NoLostPayout'
    BY <1>a, <1>3, <1>4, <1>5, WorkerFacts, DeliveredKept DEF D!TypeOK
  <1> QED BY <1>1, <1>3, <1>6, <1>7, <1>8, <1>9 DEF Inv

(* A step of the dispatcher alone: a claim passes the gate, an event is
   processed after a 2xx, and a call may be given up. *)
LEMMA DispatcherKeeps ==
  ASSUME Inv, D!Next, UNCHANGED <<payoutVars, sweepVars, settlement>>,
         \A w \in Worker :
            claim'[w] # D!NoClaim => claim'[w] = claim[w] \/ D!GateOpen(claim'[w].t),
         \A w \in Worker : reply'[w] = "ok" => reply[w] = "ok" /\ claim'[w] = claim[w],
         \A w \in Worker :
            \/ conn'[w] = conn[w] /\ (reply'[w] = "none" <=> reply[w] = "none")
               /\ (conn[w] # NoConn => claim'[w] = claim[w])
            \/ conn'[w] = NoConn /\ reply'[w] # "none",
         conn' \in [Worker -> Request \cup {NoConn}],
         \A t \in Transfer : event'[t] = "processed" => transfer[t] \notin Unpaid
  PROVE  Inv'
  <1>1. D!TypeOK'
    BY DispatchTheory DEF Inv
  <1>2. Requests!Inv' /\ Jobs!SweepInv' /\ Unopened' /\ Onward
    BY <1>1, PartsStep
  <1>3. UNCHANGED <<transfer, instruction, bank, pc, job, result>>
    BY DEF payoutVars
  <1>4. Gated'
    <2>1. ASSUME NEW w \in Worker, claim'[w] # D!NoClaim
          PROVE  claim'[w].t \in Transfer
                 /\ ((claim[w] # D!NoClaim /\ claim'[w].t = claim[w].t) \/ Cleared(claim'[w].t))
      <3>1. claim'[w].t \in Transfer
        BY <1>1, <2>1 DEF D!TypeOK
      <3>2. CASE claim'[w] = claim[w]
        BY <2>1, <3>1, <3>2
      <3>3. CASE D!GateOpen(claim'[w].t)
        BY <3>1, <3>3, SweepFacts DEF D!GateOpen, Cleared, Inv
      <3> QED BY <2>1, <3>2, <3>3
    <2>2. \A t \in Transfer : Involved(t)' => Involved(t)
      BY <1>3 DEF Involved
    <2> QED BY <1>2, <2>1, <2>2, GatedKept DEF Inv
  <1>5. Calls'
    <2>1. ASSUME NEW w \in Worker, conn'[w] # NoConn
          PROVE  conn'[w] = conn[w] /\ claim'[w] = claim[w]
      BY <2>1
    <2>2. ASSUME NEW w \in Worker PROVE conn'[w] # NoConn <=> reply'[w] = "none"
      BY DEF Inv, Calls
    <2>3. ASSUME NEW w \in Worker, conn'[w] # NoConn
          PROVE  pc'[conn'[w]] # "idle"
                 /\ job'[conn'[w]] = [t |-> claim'[w].t, k |-> AutoKey]
      BY <1>3, <2>1, <2>3 DEF Inv, Calls
    <2>4. \A v, w \in Worker : conn'[v] = conn'[w] /\ conn'[v] # NoConn => v = w
      BY <2>1 DEF Inv, Calls
    <2> HIDE DEF NoConn
    <2> QED BY <2>2, <2>3, <2>4 DEF Calls
  <1>6. Answers'
    BY <1>3 DEF Inv, Answers
  <1>7. Delivered' /\ NoLostPayout'
    BY <1>2, WorkerFacts, DeliveredKept
  <1> QED BY <1>1, <1>2, <1>4, <1>5, <1>6, <1>7 DEF Inv

LEMMA LocalKeeps ==
  ASSUME Inv, NEW w \in Worker, DispatchLocal(w)
  PROVE  Inv'
  <1>a. D!TypeOK
    BY DEF Inv
  <1>b. /\ conn \in [Worker -> Request \cup {NoConn}] /\ UNCHANGED <<payoutVars, sweepVars, conn>>
        /\ \A v \in Worker : conn[v] # NoConn <=> reply[v] = "none"
    BY DEF Inv, Calls, DispatchLocal
  <1>1. ASSUME NEW t \in Transfer, D!Claim(w, t) PROVE Inv'
    <2>1. D!Next /\ UNCHANGED <<reply, settlement>>
      BY <1>1 DEF D!Next, D!Work, D!Claim
    <2>2. \A v \in Worker : claim'[v] = IF v = w THEN [t |-> t, n |-> attempts[t] + 1] ELSE claim[v]
      BY <1>a, <1>1 DEF D!Claim, D!TypeOK
    <2>3. D!GateOpen(t) /\ reply[w] = "unsent"
      BY <1>a, <1>1 DEF D!Claim, D!Idle, D!TypeOK
    <2>4. \A u \in Transfer : event'[u] = "processed" => event[u] = "processed"
      BY <1>a, <1>1 DEF D!Claim, D!TypeOK
    <2> QED BY <1>b, <2>1, <2>2, <2>3, <2>4, WorkerFacts, DispatcherKeeps
  <1>2. ASSUME NEW s, reply[w] # "none", D!Finish(w, s), D!Next, claim[w] # D!NoClaim,
               s = "processed" => reply[w] = "ok"
        PROVE  Inv'
    <2>1. UNCHANGED settlement
      BY <1>2 DEF D!Finish
    <2>2. \A v \in Worker :
             /\ claim'[v] = IF v = w THEN D!NoClaim ELSE claim[v]
             /\ reply'[v] = IF v = w THEN "unsent" ELSE reply[v]
      BY <1>a, <1>2 DEF D!Finish, D!TypeOK
    <2>3. \A u \in Transfer : event'[u] = "processed" => transfer[u] \notin Unpaid
      BY <1>a, <1>2, WorkerFacts DEF D!Finish, D!TypeOK
    <2> QED BY <1>b, <1>2, <2>1, <2>2, <2>3, DispatcherKeeps
  <1>3. CASE D!RejectPayload(w)
    BY <1>2, <1>3 DEF D!RejectPayload, D!Next, D!Work, D!Idle
  <1>4. CASE D!MarkProcessed(w) \/ D!MarkRetry(w) \/ D!MarkDeadLetter(w)
    <2>1. D!Next
      BY <1>4 DEF D!Next, D!Work
    <2>2. reply[w] \in D!Reply
      BY <1>4 DEF D!MarkProcessed, D!MarkRetry, D!RetryDue, D!MarkDeadLetter, D!Reply, D!Status
    <2> QED BY <1>2, <1>4, <2>1, <2>2, WorkerFacts
            DEF D!MarkProcessed, D!MarkRetry, D!MarkDeadLetter, D!Reply, D!Status
  <1>5. CASE D!MarkFails(w)
    <2>1. D!Next /\ UNCHANGED <<claim, settlement>>
      BY <1>5 DEF D!Next, D!Fault, D!MarkFails
    <2>2. reply[w] # "none" /\ \A v \in Worker : reply'[v] = IF v = w THEN "thrown" ELSE reply[v]
      BY <1>a, <1>5 DEF D!MarkFails, D!TypeOK, D!Status
    <2>3. \A u \in Transfer : event'[u] = "processed" => transfer[u] \notin Unpaid
      BY <1>a, <1>5, WorkerFacts DEF D!MarkFails, D!TypeOK, D!Status
    <2> QED BY <1>b, <2>1, <2>2, <2>3, DispatcherKeeps
  <1> QED BY <1>1, <1>3, <1>4, <1>5 DEF DispatchLocal

LEMMA CallDropped ==
  ASSUME Inv, NEW w \in Worker, AnswerLost(w) \/ DispatcherDies(w)
  PROVE  Inv'
  <1>a. D!TypeOK /\ conn \in [Worker -> Request \cup {NoConn}]
    BY DEF Inv, Calls
  <1>1. D!Next /\ UNCHANGED <<event, payoutVars, sweepVars, settlement>>
    BY DEF AnswerLost, DispatcherDies, D!Next, D!Fault, D!Receive, D!WorkerDies, D!Reply,
           D!eventVars
  <1>2. conn' = [conn EXCEPT ![w] = NoConn]
    BY DEF AnswerLost, DispatcherDies
  <1>3. \A v \in Worker :
           /\ claim'[v] = claim[v] \/ (v = w /\ claim'[v] = D!NoClaim)
           /\ reply'[v] = reply[v] \/ v = w
           /\ reply'[w] \in {"thrown", "unsent"}
    BY <1>a DEF AnswerLost, DispatcherDies, D!Receive, D!WorkerDies, D!TypeOK
  <1>4. \A v \in Worker : conn'[v] = IF v = w THEN NoConn ELSE conn[v]
    BY <1>a, <1>2
  <1> HIDE DEF NoConn
  <1>5. conn' \in [Worker -> Request \cup {NoConn}]
    BY <1>a, <1>2
  <1> QED BY <1>1, <1>3, <1>4, <1>5, WorkerFacts, DispatcherKeeps

(* A step that leaves the dispatcher alone. *)
LEMMA BeyondDispatcher ==
  ASSUME Inv, UNCHANGED dispatchVars, D!TypeOK',
         P!Next \/ UNCHANGED payoutVars, S!Next \/ UNCHANGED <<sweepVars, settlement>>,
         \A w \in Worker : conn[w] # NoConn =>
            job'[conn[w]] = job[conn[w]] /\ pc'[conn[w]] # "idle",
         \A t \in Transfer : Involved(t)' => Involved(t) \/ Cleared(t),
         Onward => Answers'
  PROVE  Inv'
  <1>1. Requests!Inv' /\ Jobs!SweepInv' /\ Unopened' /\ Onward
    BY PartsStep
  <1>2. UNCHANGED <<claim, reply, event, conn>>
    BY DEF dispatchVars
  <1>3. Gated'
    BY <1>1, <1>2, WorkerFacts, GatedKept DEF Inv
  <1>4. Calls'
    BY <1>2 DEF Inv, Calls
  <1>5. Delivered' /\ NoLostPayout'
    <2>1. \A w \in Worker : reply'[w] = "ok" =>
             claim'[w].t \in Transfer /\ transfer[claim'[w].t] \notin Unpaid
      BY <1>2, WorkerFacts
    <2> QED BY <1>1, <1>2, <2>1, WorkerFacts, DeliveredKept
  <1> QED BY <1>1, <1>3, <1>4, <1>5 DEF Inv

LEMMA OrphanedKeeps ==
  ASSUME Inv, NEW r \in Request, Orphaned(r)
  PROVE  Inv'
  <1>a. P!TypeOK /\ D!TypeOK
    BY RequestFacts DEF Inv
  <1>1. P!Next /\ UNCHANGED <<dispatchVars, sweepVars, settlement, faults>>
    BY DEF Orphaned, P!Next, P!Consume
  <1>2. D!TypeOK'
    BY <1>a, <1>1 DEF D!TypeOK, dispatchVars
  <1>3. /\ UNCHANGED <<transfer, instruction, bank>> /\ pc' = [pc EXCEPT ![r] = "idle"]
        /\ job' = [job EXCEPT ![r] = P!NoJob] /\ result' = [result EXCEPT ![r] = "none"]
    BY DEF Orphaned, P!Consume, P!Goto, P!dbVars
  <1>4. \A w \in Worker : conn[w] # NoConn =>
           job'[conn[w]] = job[conn[w]] /\ pc'[conn[w]] # "idle"
    BY <1>a, <1>3 DEF Orphaned, Inv, Calls, P!TypeOK
  <1>5. \A t \in Transfer : Involved(t)' => Involved(t)
    BY <1>a, <1>3 DEF Involved, P!TypeOK
  <1>6. Answers'
    BY <1>a, <1>3 DEF Inv, Answers, P!TypeOK
  <1> QED BY <1>1, <1>2, <1>4, <1>5, <1>6, BeyondDispatcher

(* An operator can retry only what has an instruction, and so has passed. *)
LEMMA OpsRetryKeeps ==
  ASSUME Inv, NEW r \in Request, OpsRetry(r)
  PROVE  Inv'
  <1>a. P!TypeOK /\ D!TypeOK
    BY RequestFacts DEF Inv
  <1>1. PICK u \in Transfer, k \in OpsKey : P!PostOpsRetry(r, u, k)
    BY DEF OpsRetry
  <1>2. P!Next /\ UNCHANGED <<dispatchVars, sweepVars, settlement, faults>>
    BY <1>1 DEF OpsRetry, P!Next, P!PostOpsRetry, P!Post
  <1>3. D!TypeOK'
    BY <1>a, <1>2 DEF D!TypeOK, dispatchVars
  <1>4. /\ UNCHANGED <<transfer, instruction, bank, result>> /\ instruction[u] # "none"
        /\ pc[r] = "idle" /\ pc' = [pc EXCEPT ![r] = "sent"]
        /\ job' = [job EXCEPT ![r] = [t |-> u, k |-> k]]
    BY <1>1 DEF P!PostOpsRetry, P!Post, P!Goto, P!dbVars
  <1>5. \A w \in Worker : conn[w] # NoConn =>
           job'[conn[w]] = job[conn[w]] /\ pc'[conn[w]] # "idle"
    BY <1>a, <1>4 DEF Inv, Calls, P!TypeOK
  <1>6. \A t \in Transfer : Involved(t)' => Involved(t)
    BY <1>a, <1>4 DEF Involved, P!TypeOK
  <1>7. Answers'
    BY <1>a, <1>4 DEF Inv, Answers, P!TypeOK
  <1> QED BY <1>2, <1>3, <1>5, <1>6, <1>7, BeyondDispatcher

LEMMA OrchestrateKeeps ==
  ASSUME Inv, Orchestrate
  PROVE  Inv'
  <1>1. P!Next /\ UNCHANGED <<dispatchVars, sweepVars, settlement>>
    BY DEF Orchestrate, P!Next
  <1>2. Requests!Inv'
        /\ \A t \in Transfer : transfer[t] \notin Unpaid => transfer'[t] \notin Unpaid
    BY <1>1, RequestsStep DEF Inv
  <1>3. faults' \in 0 .. MaxFaults
    BY <1>2 DEF Requests!Inv, Requests!Typed, Requests!TypeOK
  <1>4. D!TypeOK'
    BY <1>1, <1>3 DEF Inv, D!TypeOK, dispatchVars
  <1>5. /\ UNCHANGED job
        /\ \A r \in Request : pc'[r] = "idle" <=> pc[r] = "idle"
        /\ \A t \in Transfer : Involved(t)' => Involved(t)
        /\ Answers'
    BY <1>2, OrchestratorFrame DEF Inv, Orchestrate
  <1>6. \A w \in Worker : conn[w] # NoConn =>
           job'[conn[w]] = job[conn[w]] /\ pc'[conn[w]] # "idle"
    BY <1>5 DEF Inv, Calls
  <1> QED BY <1>1, <1>4, <1>5, <1>6, BeyondDispatcher

LEMMA SweepKeeps ==
  ASSUME Inv, Sweep
  PROVE  Inv'
  <1>1. S!Next /\ UNCHANGED <<payoutVars, dispatchVars>>
    BY DEF Sweep, S!Next
  <1>2. Jobs!SweepInv'
    BY <1>1, SameSweeper, SweepTheory DEF Inv
  <1>3. settlement' \in [Transfer -> D!SettlementState] /\ faults' \in 0 .. MaxFaults
    BY <1>2 DEF Jobs!SweepInv, Jobs!S!TypeOK, Jobs!S!SettlementState, D!SettlementState
  <1>4. D!TypeOK'
    BY <1>1, <1>3 DEF Inv, D!TypeOK, dispatchVars
  <1>5. UNCHANGED <<transfer, instruction, bank, pc, job, result>>
    BY <1>1 DEF payoutVars
  <1>6. \A w \in Worker : conn[w] # NoConn =>
           job'[conn[w]] = job[conn[w]] /\ pc'[conn[w]] # "idle"
    BY <1>5 DEF Inv, Calls
  <1>7. (\A t \in Transfer : Involved(t)' => Involved(t)) /\ Answers'
    BY <1>5 DEF Inv, Answers, Involved
  <1> QED BY <1>1, <1>4, <1>6, <1>7, BeyondDispatcher

-----------------------------------------------------------------------------
(***************************************************************************)
(* Theorems                                                                *)
(***************************************************************************)

LEMMA InitInv == Init => Inv
  <1> SUFFICES ASSUME Init PROVE Inv
    OBVIOUS
  <1>1. P!Init <=> Requests!Init
    BY DEF P!Init, Requests!Init, P!IdemKey, Requests!IdemKey, P!NoJob, Requests!NoJob,
           P!NoCallback, Requests!NoCallback
  <1>2. Requests!Inv
    BY <1>1, Requests!InitInv DEF Init
  <1>3. D!TypeOK
    BY DEF Init, D!Init, D!TypeOK, D!EventState, D!SettlementState
  <1>4. Jobs!SweepInv
    BY DEF Init, S!Init, Jobs!SweepInv, Jobs!S!TypeOK, Jobs!S!SettlementState, S!NoTask,
           Jobs!S!NoTask
  <1>5. Gated
    BY DEF Init, P!Init, D!Init, Gated, Involved
  <1>6. Unopened /\ Calls /\ Delivered /\ NoLostPayout
    BY DEF Init, D!Init, S!Init, Unopened, Calls, Delivered, NoLostPayout
  <1>7. Answers
    BY DEF Init, P!Init, Answers
  <1> QED BY <1>2, <1>3, <1>4, <1>5, <1>6, <1>7 DEF Inv

LEMMA NextInv == Inv /\ [Next]_vars => Inv'
  <1> SUFFICES ASSUME Inv, [Next]_vars PROVE Inv'
    OBVIOUS
  <1>1. CASE UNCHANGED vars
    <2>1. UNCHANGED <<payoutVars, dispatchVars, sweepVars, settlement, faults>>
      BY <1>1 DEF vars
    <2>2. D!TypeOK'
      BY <2>1 DEF Inv, D!TypeOK, dispatchVars
    <2>3. UNCHANGED <<transfer, instruction, bank, pc, job, result>>
      BY <2>1 DEF payoutVars
    <2>4. \A w \in Worker : conn[w] # NoConn =>
             job'[conn[w]] = job[conn[w]] /\ pc'[conn[w]] # "idle"
      BY <2>3 DEF Inv, Calls
    <2>5. (\A t \in Transfer : Involved(t)' => Involved(t)) /\ Answers'
      BY <2>3 DEF Inv, Answers, Involved
    <2> QED BY <2>1, <2>2, <2>4, <2>5, BeyondDispatcher
  <1> QED BY <1>1, ConfirmKeeps, SendKeeps, AnsweredKeeps, LocalKeeps, CallDropped,
             OrphanedKeeps, OpsRetryKeeps, OrchestrateKeeps, SweepKeeps DEF Next

(* A step of the path is one of the orchestrator and its callers, or leaves them
   alone. *)
LEMMA RequestStep ==
  ASSUME Inv, [Next]_vars
  PROVE  P!Next \/ UNCHANGED payoutVars
  <1>1. ASSUME NEW w \in Worker, NEW r \in Request, Send(w, r) PROVE P!Next
    <2>1. claim[w].t \in Transfer
      BY <1>1, WorkerFacts DEF Send, D!Send, D!Idle
    <2> QED BY <1>1, <2>1 DEF Send, P!Next
  <1>2. ASSUME NEW w \in Worker, Answered(w) PROVE P!Next
    BY <1>2 DEF Answered, P!Next, Inv, Calls
  <1> QED BY <1>1, <1>2
          DEF Next, vars, Confirm, Orphaned, OpsRetry, Orchestrate, Sweep, AnswerLost,
              DispatchLocal, DispatcherDies, P!Next

LEMMA Invariance == Spec => []Inv
  BY InitInv, NextInv, PTL DEF Spec

(* The three parts and the calls between them keep their types: a worker waits
   for an answer exactly while a request carries the event it holds. *)
THEOREM TypeCorrect == Spec => []TypeOK
  <1>1. Inv => TypeOK
    BY RequestFacts, SweepFacts DEF Inv, Calls, TypeOK
  <1> QED BY Invariance, <1>1, PTL

(* An event that the dispatcher has forgotten is a transfer that was given to
   the partner or to an operator, for any number of workers, requests, lost
   answers and crashes. *)
THEOREM NoPayoutIsLost == Spec => []NoLostPayout
  <1>1. Inv => NoLostPayout
    BY DEF Inv
  <1> QED BY Invariance, <1>1, PTL

(* The gate that claimNext reads once holds until the call of the partner, two
   processes later, and whoever repeats that call. *)
THEOREM SweptBeforePaid == Spec => []SweptBeforePayout
  <1>1. Inv => SweptBeforePayout
    BY DEF Inv, Gated, Involved, Cleared, SweptBeforePayout
  <1> QED BY Invariance, <1>1, PTL

(* The whole path, with its workers, sweepers and lost calls, implements the
   contract of module PayoutContract. *)
THEOREM PathImplements == Spec => P!ImplementsContract
  <1>1. Init => P!Contract!Init
    <2>1. P!Init <=> Requests!Init
      BY DEF P!Init, Requests!Init, P!IdemKey, Requests!IdemKey, P!NoJob, Requests!NoJob,
             P!NoCallback, Requests!NoCallback
    <2> QED BY <2>1, Requests!InitContract, SameContract DEF Init
  <1>2. Inv /\ [Next]_vars => [P!Contract!Next]_P!Contract!vars
    <2> SUFFICES ASSUME Inv, [Next]_vars PROVE [P!Contract!Next]_P!Contract!vars
      OBVIOUS
    <2>1. P!Next \/ UNCHANGED payoutVars
      BY RequestStep
    <2>2. CASE P!Next
      <3>1. [Requests!Next]_Requests!vars
        BY <2>2, SameOrchestrator
      <3>2. [Requests!Contract!Next]_Requests!Contract!vars
        BY <3>1, Requests!NextContract DEF Inv
      <3>3. CASE UNCHANGED Requests!Contract!vars
        BY <3>3 DEF P!Contract!vars, Requests!Contract!vars, P!Settled, Requests!Settled,
                    P!IdemKey, Requests!IdemKey
      <3> QED BY <3>2, <3>3, SameContract
    <2>3. CASE UNCHANGED payoutVars
      <3>1. UNCHANGED <<transfer, bank>>
        BY <2>3 DEF payoutVars
      <3>2. UNCHANGED P!Contract!vars
        BY <3>1 DEF P!Contract!vars, P!Settled
      <3> QED BY <3>2
    <2> QED BY <2>1, <2>2, <2>3
  <1>3. Spec => P!Contract!Spec
    BY <1>1, <1>2, Invariance, PTL DEF Spec, P!Contract!Spec
  <1> QED BY <1>3 DEF P!ImplementsContract

-----------------------------------------------------------------------------
(***************************************************************************)
(* The theorems about the orchestrator, on the path                        *)
(***************************************************************************)

(* What is proved of whatever implements the contract holds of the path. *)
LEMMA PathKeepsContract == Spec => Requests!ImplementsContract
  <1>1. [P!Contract!Next]_P!Contract!vars => [Requests!Contract!Next]_Requests!Contract!vars
    BY SameContract
    DEF P!Contract!vars, Requests!Contract!vars, P!Settled, Requests!Settled, P!IdemKey,
        Requests!IdemKey
  <1> QED
    BY <1>1, SameContract, PathImplements, PTL
    DEF P!ImplementsContract, Requests!ImplementsContract, P!Contract!Spec,
        Requests!Contract!Spec

(* A transfer is reported initiated, completed or failed only after the partner
   said so, however many workers post it. *)
THEOREM PathIsTruthful == Spec => []P!StatusTruthful
  <1>1. Requests!StatusTruthful => P!StatusTruthful
    <2>1. Requests!Settled = P!Settled
      BY DEF P!Settled, Requests!Settled, P!IdemKey, Requests!IdemKey
    <2> QED
      BY <2>1
      DEF Requests!StatusTruthful, P!StatusTruthful, Requests!Contract!StatusTruthful,
          P!Contract!StatusTruthful, Requests!Contract!PaidState, P!Contract!PaidState
  <1> QED BY <1>1, PathKeepsContract, Requests!ContractIsTruthful, PTL

(* The status of a transfer changes only as the domain's table allows, from its
   funding to the end, although funding, requests and callbacks all write it. *)
THEOREM PathIsLegal == Spec => P!LegalTransitions
  <1>1. [\A t \in Transfer :
           transfer'[t] # transfer[t]
             => Requests!CanTransition(transfer[t], transfer'[t])]_Requests!vars
        => [\A t \in Transfer :
              transfer'[t] # transfer[t]
                => P!CanTransition(transfer[t], transfer'[t])]_P!vars
    <2>1. \A from, to : Requests!CanTransition(from, to) <=> P!CanTransition(from, to)
      BY DEF Requests!CanTransition, P!CanTransition, Requests!AllowedTransitions,
             P!AllowedTransitions, Requests!TransferState, P!TransferState
    <2> QED
      BY <2>1
      DEF P!vars, Requests!vars, P!dbVars, Requests!dbVars, P!requestVars, Requests!requestVars
  <1> QED
    BY <1>1, PathKeepsContract, Requests!ContractIsLegal, PTL
    DEF P!LegalTransitions, Requests!LegalTransitions

(* A stored response is never ahead of the database, on the whole path. *)
THEOREM PathAnswersTruthful == Spec => []P!AnswerTruthful
  <1>1. Inv => P!AnswerTruthful
    BY DEF Inv, Requests!Inv, Requests!AnswerTruthful, P!AnswerTruthful, Requests!IdemKey,
           P!IdemKey, Requests!Outcome, P!Outcome
  <1> QED BY <1>1, Invariance, PTL

(* On the path, too, faults only grow. *)
LEMMA PathFaults ==
  ASSUME Inv, [Next]_vars
  PROVE  faults' = faults \/ faults' # 0
  <1>1. faults \in Nat
    BY DEF Inv, D!TypeOK
  <1>2. CASE P!Next
    <2>1. [Requests!Next]_Requests!vars /\ Requests!Typed
      BY <1>2, SameOrchestrator DEF Inv, Requests!Inv
    <2> QED BY <2>1, Requests!NextFaults
  <1>3. ASSUME NEW w \in Worker, AnswerLost(w) \/ DispatchLocal(w) \/ DispatcherDies(w)
        PROVE  faults' = faults \/ faults' = faults + 1
    BY <1>3
    DEF AnswerLost, DispatchLocal, DispatcherDies, D!Receive, D!Claim, D!RejectPayload,
        D!MarkProcessed, D!MarkRetry, D!MarkDeadLetter, D!MarkFails, D!WorkerDies, D!Finish
  <1>4. ASSUME Sweep PROVE faults' = faults \/ faults' = faults + 1
    BY <1>4
    DEF Sweep, S!Mine, S!Work, S!Claim, S!Broadcast, S!ReceiptSuccess, S!ReceiptFailure,
        S!MarkSwept, S!AuditSwept, S!MarkRetry, S!MarkReviewRequired, S!MarkFails,
        S!WorkerDies, S!Goto, S!Stop, S!SetStatus
  <1>5. CASE UNCHANGED vars
    BY <1>5 DEF vars
  <1>6. \/ P!Next \/ Sweep \/ UNCHANGED vars
        \/ \E w \in Worker : AnswerLost(w) \/ DispatchLocal(w) \/ DispatcherDies(w)
    <2>1. ASSUME NEW w \in Worker, NEW r \in Request, Send(w, r) PROVE P!Next
      <3>1. claim[w].t \in Transfer
        BY <2>1, WorkerFacts DEF Send, D!Send, D!Idle
      <3> QED BY <2>1, <3>1 DEF Send, P!Next
    <2>2. ASSUME NEW w \in Worker, Answered(w) PROVE P!Next
      BY <2>2 DEF Answered, P!Next, Inv, Calls
    <2> QED BY <2>1, <2>2 DEF Next, Confirm, Orphaned, OpsRetry, Orchestrate, P!Next
  <1> QED BY <1>1, <1>2, <1>3, <1>4, <1>5, <1>6

(* Without a fault or a manual retry, instruction and transfer say the same of a
   payout, however often workers post its event. *)
THEOREM PathRowsAgree == Spec => []P!RowsAgree
  <1> DEFINE RowsInv == Inv /\ (faults = 0 => Requests!Agreeing)
  <1>1. Init => RowsInv
    <2>1. P!Init <=> Requests!Init
      BY DEF P!Init, Requests!Init, P!IdemKey, Requests!IdemKey, P!NoJob, Requests!NoJob,
             P!NoCallback, Requests!NoCallback
    <2> QED BY <2>1, InitInv, Requests!InitAgreeing DEF Init
  <1>2. RowsInv /\ [Next]_vars => RowsInv'
    <2> SUFFICES ASSUME RowsInv, [Next]_vars, faults' = 0 PROVE Requests!Agreeing'
      BY NextInv
    <2>1. faults' = faults /\ Requests!Agreeing
      BY PathFaults
    <2>2. CASE P!Next
      <3>1. [Requests!Next]_Requests!vars
        BY <2>2, SameOrchestrator
      <3> QED BY <2>1, <3>1, Requests!NextAgreeing DEF Inv
    <2>3. CASE UNCHANGED payoutVars
      BY <2>1, <2>3
      DEF payoutVars, Requests!Agreeing, Requests!OwnersReserve, Requests!RetriedByHand,
          Requests!RowsOf, Requests!Marked, Requests!MarkedOnce
    <2> QED BY <2>2, <2>3, RequestStep
  <1>3. RowsInv => P!RowsAgree
    <2>1. Requests!RowsAgree => P!RowsAgree
      BY DEF Requests!RowsAgree, P!RowsAgree
    <2> QED BY <2>1, Requests!AgreeingRows DEF Inv
  <1> QED BY <1>1, <1>2, <1>3, PTL DEF Spec
=============================================================================
