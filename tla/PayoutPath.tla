---------------------------- MODULE PayoutPath ----------------------------
(***************************************************************************)
(* The path of a funded transfer to the bank: the transaction that         *)
(* confirms the funding, the sweeper (module Sweep), the outbox dispatcher *)
(* (Dispatch) and the payout orchestrator (Payout).  They share a database *)
(* (settlement_record is written by the sweeper and gates the dispatcher)  *)
(* and one HTTP call: the dispatcher's post to the orchestrator, which     *)
(* goes on in the orchestrator when the dispatcher dies or loses it.       *)
(***************************************************************************)
EXTENDS TransferStates, Naturals, FiniteSets

CONSTANTS
    Transfer, BaseTransfer,
    Request, Callback, AutoKey, OpsKey, MaxAttempts,   \* Payout
    Worker, DispatchMax, SweepRequired, MaxStalls,    \* Dispatch
    Sweeper, SweepMax, SlowSweepers,                  \* Sweep
    MaxFaults     \* bound on failed queries, lost answers and crashes, together

VARIABLES
    transfer, instruction, outer, inner, bank, pc, job, attempt, result, callback,
    event, valid, attempts, claim, reply, stalls,
    settlement, tries, task, deposit, airborne,
    faults,
    conn          \* conn[w]: the request that carries w's post

NoConn == "none"

P == INSTANCE Payout
D == INSTANCE Dispatch
S == INSTANCE Sweep

ASSUME PathAssumption ==
    /\ MaxAttempts \in Nat \ {0} /\ AutoKey \notin OpsKey
    /\ D!DispatchAssumption /\ S!SweepAssumption
    /\ IsFiniteSet(Worker) /\ NoConn \notin Request

payoutVars == <<transfer, instruction, outer, inner, bank, pc, job, attempt, result, callback>>
dispatchVars == <<event, valid, attempts, claim, reply, stalls, conn>>
sweepVars == <<tries, task, deposit, airborne>>
vars == <<payoutVars, dispatchVars, sweepVars, settlement, faults>>

(* Types; a worker waits for a reply exactly while it has a call, and the call
   carries the event it holds. *)
TypeOK ==
    /\ P!TypeOK /\ D!TypeOK /\ S!TypeOK
    /\ conn \in [Worker -> Request \cup {NoConn}]
    /\ \A w \in Worker :
          /\ conn[w] # NoConn <=> reply[w] = "none"
          /\ conn[w] # NoConn => job[conn[w]] = [t |-> claim[w].t, k |-> AutoKey]

Init ==
    /\ P!Init /\ D!Init /\ S!Init
    /\ conn = [w \in Worker |-> NoConn]

(* applyFundingConfirmation: the transfer, the outbox event and, on Base, the
   settlement record are written in one transaction. *)
Confirm(t) ==
    /\ P!ConfirmFunding(t)
    /\ D!Enqueue(t)
    /\ IF t \in BaseTransfer THEN S!Open(t) ELSE UNCHANGED <<sweepVars, settlement>>
    /\ UNCHANGED conn

(* The dispatcher's post opens a request of the orchestrator. *)
Send(w, r) ==
    /\ D!Send(w)
    /\ P!PostAuto(r, claim[w].t)
    /\ conn' = [conn EXCEPT ![w] = r]
    /\ UNCHANGED sweepVars

(* Mutated form of StatusClass: a conflict counts as delivered. *)
StatusClassConflictOk(a) ==
    IF a \in P!Outcome \cup {"in_progress"} THEN "ok" ELSE "retryable"

(* The status codes of the orchestrator as the dispatcher reads them: 202 or 200
   for the two outcomes, 409 for a key in progress, and 500 for every error that
   the handler throws, TRANSFER_STATE_INVALID included. *)
StatusClass(a) == IF a \in P!Outcome THEN "ok" ELSE "retryable"

(* The orchestrator's answer arrives. *)
Answered(w) ==
    /\ conn[w] # NoConn
    /\ P!Consume(conn[w])
    /\ D!Receive(w, StatusClass(result[conn[w]]))
    /\ conn' = [conn EXCEPT ![w] = NoConn]
    /\ UNCHANGED sweepVars

(* fetch throws: the dispatcher gives the post up, the orchestrator does not. *)
AnswerLost(w) ==
    /\ faults < MaxFaults
    /\ conn[w] # NoConn
    /\ D!Receive(w, "thrown")
    /\ conn' = [conn EXCEPT ![w] = NoConn]
    /\ UNCHANGED <<payoutVars, sweepVars>>

(* A request that nobody waits for ends. *)
Orphaned(r) ==
    /\ \A w \in Worker : conn[w] # r
    /\ P!Consume(r)
    /\ UNCHANGED <<dispatchVars, sweepVars, settlement>>

(* The other steps of the dispatcher; a worker that dies drops its call. *)
DispatchLocal(w) ==
    /\ \/ \E t \in Transfer : D!Claim(w, t)
       \/ D!RejectPayload(w)
       \/ D!MarkProcessed(w) \/ D!MarkRetry(w) \/ D!MarkDeadLetter(w) \/ D!MarkFails(w)
    /\ UNCHANGED <<payoutVars, sweepVars, conn>>

DispatcherDies(w) ==
    /\ D!WorkerDies(w)
    /\ conn' = [conn EXCEPT ![w] = NoConn]
    /\ UNCHANGED <<payoutVars, sweepVars>>

(* The manual retry of core-api, whose answer goes to an operator. *)
OpsRetry(r) ==
    /\ \E t \in Transfer, k \in OpsKey : P!PostOpsRetry(r, t, k)
    /\ UNCHANGED <<dispatchVars, sweepVars, settlement>>

Orchestrate == P!Orchestrate /\ UNCHANGED <<dispatchVars, sweepVars, settlement>>

Sweep ==
    /\ \/ \E t \in Transfer : S!Mine(t)
       \/ \E w \in Sweeper : S!Work(w) \/ S!MarkFails(w) \/ S!WorkerDies(w)
    /\ UNCHANGED <<payoutVars, dispatchVars>>

Next ==
    \/ \E t \in Transfer : Confirm(t)
    \/ \E w \in Worker, r \in Request : Send(w, r)
    \/ \E w \in Worker :
          Answered(w) \/ AnswerLost(w) \/ DispatchLocal(w) \/ DispatcherDies(w)
    \/ \E r \in Request : Orphaned(r) \/ OpsRetry(r)
    \/ Orchestrate
    \/ Sweep

Spec == Init /\ [][Next]_vars

(* Every process keeps taking the steps it can; requests are not in short
   supply. *)
FairSpec ==
    /\ Spec
    /\ \A w \in Worker :
          /\ WF_vars(DispatchLocal(w)) /\ WF_vars(Answered(w))
          /\ WF_vars(\E r \in Request : Send(w, r))
    /\ \A r \in Request :
          /\ WF_vars(Orphaned(r))
          /\ WF_vars(P!Handle(r) /\ UNCHANGED <<dispatchVars, sweepVars, settlement>>)
    /\ \A w \in Sweeper : WF_vars(S!Work(w) /\ UNCHANGED <<payoutVars, dispatchVars>>)

-----------------------------------------------------------------------------
(***************************************************************************)
(* Properties                                                              *)
(***************************************************************************)

(* The dispatcher forgets an event, and nothing looks at it again, only when
   its transfer has been given to the partner or to an operator: through lost
   answers, replays, take-overs and processes that die on either side. *)
NoLostPayout ==
    \A t \in Transfer :
        event[t] = "processed" => transfer[t] \notin {"AWAITING_FUNDING", "FUNDING_CONFIRMED"}

(* BASE_SWEEP_REQUIRED_FOR_PAYOUT: the partner is asked to pay a transfer
   funded on Base only when its deposit is in treasury, although three
   processes separate the transaction on chain from the call of the partner. *)
SweptBeforePayout ==
    SweepRequired =>
        \A t \in BaseTransfer :
            (\E k \in P!IdemKey : bank[t][k] # "none") => deposit[t] = "treasury"

(* A funded transfer with a valid payload leaves FUNDING_CONFIRMED, unless the
   sweeper has given its deposit to an operator or something has failed:
   concurrent workers and take-overs do not use up its attempts in vain.  (After
   a fault it may stay there with its event dead-lettered, although
   docs/ARCHITECTURE.md:138 has "Terminal failures transition transfer to
   `PAYOUT_REVIEW_REQUIRED`".) *)
FundedIsPaid ==
    \A t \in Transfer :
        transfer[t] = "FUNDING_CONFIRMED" /\ valid[t]
        ~> \/ transfer[t] # "FUNDING_CONFIRMED"
           \/ settlement[t] = "review_required"
           \/ faults > 0
=============================================================================
