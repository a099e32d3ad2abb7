------------------------------- MODULE Sweep -------------------------------
(***************************************************************************)
(* services/base-sweeper-worker: workers claim the settlement records of   *)
(* Base transfers, send a transaction that moves the deposit to treasury,  *)
(* wait for its receipt and write the outcome back.  As in module Dispatch *)
(* a worker is one runBatch in progress, and time is abstracted.           *)
(*                                                                         *)
(* The deposit contract is external: a sweep that succeeds leaves the      *)
(* deposit in treasury, and a second one may succeed or revert.            *)
(***************************************************************************)
EXTENDS Naturals, FiniteSets

CONSTANTS
    Transfer,     \* the transfers funded on Base
    Sweeper,      \* the workers
    SweepMax,     \* maxAttempts of the sweeper's configuration
    SlowSweepers, \* may a worker hold a claim longer than reclaimTimeoutMs?
    MaxFaults     \* bound on failed queries and crashes in a behaviour

(* What is assumed of the constants, by the modules that instantiate this one. *)
SweepAssumption ==
    /\ SweepMax \in Nat \ {0}
    /\ SlowSweepers \in BOOLEAN
    /\ MaxFaults \in Nat

VARIABLES
    settlement,  \* settlement_record.status ("none": no row)
    tries,       \* settlement_record.attempt_count
    task,        \* task[w]: the record w claimed, its attempt_count, and its step
    deposit,     \* where the funds are: "none", "address", "treasury" (external)
    airborne,    \* transfers with a sweep broadcast that may still be mined
    faults

vars == <<settlement, tries, task, deposit, airborne, faults>>

SettlementState == {"none", "pending_sweep", "sweeping", "swept", "review_required"}
TaskStep == {"claimed", "waiting", "mined", "audit", "failed"}
NoTask == [t |-> "none", n |-> 0, step |-> "none"]

(* Types; a task carries a count that the record has reached. *)
TypeOK ==
    /\ settlement \in [Transfer -> SettlementState]
    /\ tries \in [Transfer -> Nat]
    /\ task \in [Sweeper -> [t : Transfer, n : Nat, step : TaskStep] \cup {NoTask}]
    /\ deposit \in [Transfer -> {"none", "address", "treasury"}]
    /\ airborne \subseteq Transfer
    /\ faults \in 0 .. MaxFaults
    /\ \A w \in Sweeper : task[w] # NoTask => task[w].n \in 1 .. tries[task[w].t]

Init ==
    /\ settlement = [t \in Transfer |-> "none"]
    /\ tries = [t \in Transfer |-> 0]
    /\ task = [w \in Sweeper |-> NoTask]
    /\ deposit = [t \in Transfer |-> "none"]
    /\ airborne = {}
    /\ faults = 0

Idle(w) == task[w] = NoTask
At(w, s) == task[w].step = s
Goto(w, s) == task' = [task EXCEPT ![w].step = s]
Stop(w) == task' = [task EXCEPT ![w] = NoTask]
SetStatus(w, s) == settlement' = [settlement EXCEPT ![task[w].t] = s]

(* The deposit arrives and applyFundingConfirmation inserts the record. *)
Open(t) ==
    /\ settlement[t] = "none"
    /\ settlement' = [settlement EXCEPT ![t] = "pending_sweep"]
    /\ deposit' = [deposit EXCEPT ![t] = "address"]
    /\ UNCHANGED <<tries, task, airborne, faults>>

Reclaimable(t) ==
    /\ settlement[t] = "sweeping"
    /\ SlowSweepers \/ \A w \in Sweeper : task[w].t # t

(* Mutated form of Claim: a record left in sweeping is never taken over. *)
ClaimPendingOnly(w, t) ==
    /\ Idle(w)
    /\ settlement[t] = "pending_sweep"
    /\ settlement' = [settlement EXCEPT ![t] = "sweeping"]
    /\ tries' = [tries EXCEPT ![t] = @ + 1]
    /\ task' = [task EXCEPT ![w] = [t |-> t, n |-> tries[t] + 1, step |-> "claimed"]]
    /\ UNCHANGED <<deposit, airborne, faults>>

(* claimNext: one transaction picks a record and counts the attempt. *)
Claim(w, t) ==
    /\ Idle(w)
    /\ settlement[t] = "pending_sweep" \/ Reclaimable(t)
    /\ settlement' = [settlement EXCEPT ![t] = "sweeping"]
    /\ tries' = [tries EXCEPT ![t] = @ + 1]
    /\ task' = [task EXCEPT ![w] = [t |-> t, n |-> tries[t] + 1, step |-> "claimed"]]
    /\ UNCHANGED <<deposit, airborne, faults>>

(* sendTransaction: the transaction is broadcast, or the RPC refuses it. *)
Broadcast(w) ==
    /\ At(w, "claimed")
    /\ \/ Goto(w, "waiting") /\ airborne' = airborne \cup {task[w].t}
       \/ Goto(w, "failed") /\ UNCHANGED airborne
    /\ UNCHANGED <<settlement, tries, deposit, faults>>

(* A broadcast sweep is mined and succeeds, while a worker waits for it or
   after all have given up. *)
Mine(t) ==
    /\ t \in airborne
    /\ airborne' = airborne \ {t}
    /\ deposit' = [deposit EXCEPT ![t] = "treasury"]
    /\ UNCHANGED <<settlement, tries, task, faults>>

(* Mutated form of ReceiptSuccess: the transaction hash is taken for a receipt. *)
ReceiptAssumed(w) ==
    /\ At(w, "waiting")
    /\ Goto(w, "mined")
    /\ UNCHANGED <<settlement, tries, deposit, airborne, faults>>

(* waitForTransactionReceipt returns a receipt of success. *)
ReceiptSuccess(w) ==
    /\ At(w, "waiting")
    /\ deposit[task[w].t] = "treasury"
    /\ Goto(w, "mined")
    /\ UNCHANGED <<settlement, tries, deposit, airborne, faults>>

(* The transaction reverted, or the wait timed out and it may yet be mined. *)
ReceiptFailure(w) ==
    /\ At(w, "waiting")
    /\ Goto(w, "failed")
    /\ airborne' \in {airborne, airborne \ {task[w].t}}
    /\ UNCHANGED <<settlement, tries, deposit, faults>>

(* markSwept is an update and then an insert into audit_log. *)
MarkSwept(w) ==
    /\ At(w, "mined")
    /\ SetStatus(w, "swept")
    /\ Goto(w, "audit")
    /\ UNCHANGED <<tries, deposit, airborne, faults>>

AuditSwept(w) ==
    /\ At(w, "audit")
    /\ Stop(w)
    /\ UNCHANGED <<settlement, tries, deposit, airborne, faults>>

(* Either query of markSwept fails: both are inside the try, whose catch takes
   the sweep for failed. *)
MarkFails(w) ==
    /\ faults < MaxFaults
    /\ At(w, "mined") \/ At(w, "audit")
    /\ faults' = faults + 1
    /\ Goto(w, "failed")
    /\ UNCHANGED <<settlement, tries, deposit, airborne>>

(* The catch: markRetry or markReviewRequired, whatever the record has become.
   Their audit row comes after, and nothing depends on it. *)
MarkRetry(w) ==
    /\ At(w, "failed")
    /\ task[w].n < SweepMax
    /\ SetStatus(w, "pending_sweep")
    /\ Stop(w)
    /\ UNCHANGED <<tries, deposit, airborne, faults>>

MarkReviewRequired(w) ==
    /\ At(w, "failed")
    /\ task[w].n >= SweepMax
    /\ SetStatus(w, "review_required")
    /\ Stop(w)
    /\ UNCHANGED <<tries, deposit, airborne, faults>>

WorkerDies(w) ==
    /\ faults < MaxFaults
    /\ ~Idle(w)
    /\ faults' = faults + 1
    /\ Stop(w)
    /\ UNCHANGED <<settlement, tries, deposit, airborne>>

Work(w) ==
    \/ \E t \in Transfer : Claim(w, t)
    \/ Broadcast(w) \/ ReceiptSuccess(w) \/ ReceiptFailure(w)
    \/ MarkSwept(w) \/ AuditSwept(w)
    \/ MarkRetry(w) \/ MarkReviewRequired(w)

Next ==
    \/ \E t \in Transfer : Open(t) \/ Mine(t)
    \/ \E w \in Sweeper : Work(w) \/ MarkFails(w) \/ WorkerDies(w)

Spec == Init /\ [][Next]_vars

(* The timer keeps starting batches, and viem's wait for a receipt ends. *)
FairSpec == Spec /\ \A w \in Sweeper : WF_vars(Work(w))
=============================================================================
