------------------------------ MODULE Dispatch ------------------------------
(***************************************************************************)
(* The outbox dispatcher of services/reconciliation-worker: workers claim  *)
(* the transfer.funding_confirmed events that applyFundingConfirmation     *)
(* wrote, post the payout to the orchestrator and write the outcome back.  *)
(* A worker is one runBatch in progress: the timer of server.ts starts a   *)
(* new one while the last is still running, and replicas run their own.    *)
(*                                                                         *)
(* There is one event per transfer (its id is derived from the transfer's).*)
(* Time is abstracted: a pending event may be due at any moment, and the   *)
(* 60 seconds after which a claim is taken over have passed when its       *)
(* worker has died, or, MaxStalls times, while it is still working on it.  *)
(***************************************************************************)
EXTENDS Naturals, FiniteSets

CONSTANTS
    Transfer,
    BaseTransfer,   \* the transfers funded on Base
    Worker,
    DispatchMax,    \* maxAttempts of the dispatcher's configuration
    SweepRequired,  \* BASE_SWEEP_REQUIRED_FOR_PAYOUT
    MaxStalls,      \* bound on workers that hold a claim for over 60 seconds
    MaxFaults       \* bound on failed queries and crashes in a behaviour

(* What is assumed of the constants, by the modules that instantiate this one. *)
DispatchAssumption ==
    /\ BaseTransfer \subseteq Transfer
    /\ "none" \notin Transfer
    /\ DispatchMax \in Nat \ {0}
    /\ SweepRequired \in BOOLEAN
    /\ MaxStalls \in Nat /\ MaxFaults \in Nat

VARIABLES
    event,       \* outbox_event.status ("none": no row)
    valid,       \* does the payload carry an account and a positive amount?
    attempts,    \* outbox_event.attempt_count
    claim,       \* claim[w]: the event w holds and its attempt_count, as claimed
    reply,       \* reply[w]: the orchestrator's answer to w
    settlement,  \* settlement_record.status (written by module Sweep)
    faults,
    stalls       \* claims taken over from a worker that is still at work

eventVars == <<event, valid, attempts>>
vars == <<eventVars, claim, reply, settlement, faults, stalls>>

EventState == {"none", "pending", "processing", "processed", "dead_letter"}
SettlementState == {"none", "pending_sweep", "sweeping", "swept", "review_required"}

(* What processClaimed distinguishes: a 2xx; a status that isRetryableHttpStatus
   accepts; any other status; an exception. *)
Status == {"ok", "retryable", "fatal"}
Reply == Status \cup {"thrown"}

NoClaim == [t |-> "none", n |-> 0]

(* Types; a claim carries a count that the row has reached, and a reply belongs
   to a claim. *)
TypeOK ==
    /\ event \in [Transfer -> EventState]
    /\ valid \in [Transfer -> BOOLEAN]
    /\ attempts \in [Transfer -> Nat]
    /\ claim \in [Worker -> [t : Transfer, n : Nat] \cup {NoClaim}]
    /\ reply \in [Worker -> Reply \cup {"none", "unsent"}]
    /\ settlement \in [Transfer -> SettlementState]
    /\ faults \in 0 .. MaxFaults
    /\ stalls \in 0 .. MaxStalls
    /\ \A w \in Worker : claim[w] # NoClaim => claim[w].n \in 1 .. attempts[claim[w].t]
    /\ \A w \in Worker : claim[w] = NoClaim => reply[w] = "unsent"

Init ==
    /\ event = [t \in Transfer |-> "none"]
    /\ valid = [t \in Transfer |-> FALSE]
    /\ attempts = [t \in Transfer |-> 0]
    /\ claim = [w \in Worker |-> NoClaim]
    /\ reply = [w \in Worker |-> "unsent"]
    /\ settlement = [t \in Transfer |-> "none"]
    /\ faults = 0
    /\ stalls = 0

Idle(w) == claim[w] = NoClaim
Holds(w, t) == claim[w].t = t

(* applyFundingConfirmation writes the event in the transaction that confirms
   the funding; recipientAccountRef is null when the recipient has no bank
   account, and amountEtb is 0 when the fee eats the amount. *)
Enqueue(t) ==
    /\ event[t] = "none"
    /\ event' = [event EXCEPT ![t] = "pending"]
    /\ \E v \in BOOLEAN : valid' = [valid EXCEPT ![t] = v]
    /\ UNCHANGED <<attempts, claim, reply, faults, stalls>>

(* The gate condition of claimNext. *)
GateOpen(t) == ~SweepRequired \/ t \notin BaseTransfer \/ settlement[t] = "swept"

(* An event to claim: it is pending, or the 60 seconds since its claim have
   passed. *)
Due(t) ==
    \/ event[t] = "pending" /\ UNCHANGED stalls
    \/ /\ event[t] = "processing"
       /\ \A w \in Worker : ~Holds(w, t)
       /\ UNCHANGED stalls
    \/ /\ event[t] = "processing"
       /\ \E w \in Worker : Holds(w, t)
       /\ stalls < MaxStalls
       /\ stalls' = stalls + 1

(* Mutated form of Claim: the query does not look at the gate. *)
ClaimUngated(w, t) ==
    /\ Idle(w)
    /\ Due(t)
    /\ event' = [event EXCEPT ![t] = "processing"]
    /\ attempts' = [attempts EXCEPT ![t] = @ + 1]
    /\ claim' = [claim EXCEPT ![w] = [t |-> t, n |-> attempts[t] + 1]]
    /\ UNCHANGED <<valid, reply, settlement, faults>>

(* Mutated form of Claim: claims are never taken over from a dead worker. *)
ClaimPendingOnly(w, t) ==
    /\ Idle(w)
    /\ GateOpen(t)
    /\ event[t] = "pending"
    /\ event' = [event EXCEPT ![t] = "processing"]
    /\ attempts' = [attempts EXCEPT ![t] = @ + 1]
    /\ claim' = [claim EXCEPT ![w] = [t |-> t, n |-> attempts[t] + 1]]
    /\ UNCHANGED <<valid, reply, settlement, faults, stalls>>

(* claimNext: one transaction that picks an event and counts the attempt. *)
Claim(w, t) ==
    /\ Idle(w)
    /\ GateOpen(t)
    /\ Due(t)
    /\ event' = [event EXCEPT ![t] = "processing"]
    /\ attempts' = [attempts EXCEPT ![t] = @ + 1]
    /\ claim' = [claim EXCEPT ![w] = [t |-> t, n |-> attempts[t] + 1]]
    /\ UNCHANGED <<valid, reply, settlement, faults>>

(* w writes s to the event it claimed, whatever has become of it since, and
   goes on with the next. *)
Finish(w, s) ==
    /\ event' = [event EXCEPT ![claim[w].t] = s]
    /\ claim' = [claim EXCEPT ![w] = NoClaim]
    /\ reply' = [reply EXCEPT ![w] = "unsent"]
    /\ UNCHANGED <<valid, attempts, settlement, faults, stalls>>

(* parseOutboxPayload refused the payload. *)
RejectPayload(w) ==
    /\ ~Idle(w) /\ reply[w] = "unsent"
    /\ ~valid[claim[w].t]
    /\ Finish(w, "dead_letter")

(* The payout is posted to the orchestrator. *)
Send(w) ==
    /\ ~Idle(w) /\ reply[w] = "unsent"
    /\ valid[claim[w].t]
    /\ reply' = [reply EXCEPT ![w] = "none"]
    /\ UNCHANGED <<eventVars, claim, settlement, faults, stalls>>

(* The orchestrator's answer, or an exception of fetch, reaches w. *)
Receive(w, a) ==
    /\ reply[w] = "none"
    /\ reply' = [reply EXCEPT ![w] = a]
    /\ UNCHANGED <<eventVars, claim, settlement, faults, stalls>>

MarkProcessed(w) == reply[w] = "ok" /\ Finish(w, "processed")

(* The post is to be repeated, and an attempt is left. *)
RetryDue(w) == reply[w] \in {"retryable", "thrown"} /\ claim[w].n < DispatchMax

(* Mutated form of MarkRetry: the attempts are not counted. *)
MarkRetryAlways(w) == reply[w] \in {"retryable", "thrown"} /\ Finish(w, "pending")

MarkRetry(w) == RetryDue(w) /\ Finish(w, "pending")

MarkDeadLetter(w) ==
    /\ reply[w] \in Reply \ {"ok"}
    /\ ~RetryDue(w)
    /\ Finish(w, "dead_letter")

(* The query that marks the event fails, before or after it took effect.  It is
   inside the try of the post, so the catch treats the payout as failed. *)
MarkFails(w) ==
    LET mark == IF reply[w] = "ok" THEN "processed"
                ELSE IF RetryDue(w) THEN "pending" ELSE "dead_letter" IN
    /\ faults < MaxFaults
    /\ reply[w] \in Status
    /\ faults' = faults + 1
    /\ event' \in {event, [event EXCEPT ![claim[w].t] = mark]}
    /\ reply' = [reply EXCEPT ![w] = "thrown"]
    /\ UNCHANGED <<valid, attempts, claim, settlement, stalls>>

(* The process dies, or the query of the catch fails too: the batch ends and
   the event stays as it is. *)
WorkerDies(w) ==
    /\ faults < MaxFaults
    /\ ~Idle(w)
    /\ faults' = faults + 1
    /\ claim' = [claim EXCEPT ![w] = NoClaim]
    /\ reply' = [reply EXCEPT ![w] = "unsent"]
    /\ UNCHANGED <<eventVars, settlement, stalls>>

Work(w) ==
    \/ \E t \in Transfer : Claim(w, t)
    \/ RejectPayload(w) \/ Send(w)
    \/ MarkProcessed(w) \/ MarkRetry(w) \/ MarkDeadLetter(w)

Fault(w) == MarkFails(w) \/ WorkerDies(w)

(* Environment: the sweeper moves the settlement record of a Base transfer. *)
SettlementChanges(t, s) ==
    /\ t \in BaseTransfer /\ event[t] # "none"
    /\ settlement' = [settlement EXCEPT ![t] = s]
    /\ UNCHANGED <<eventVars, claim, reply, faults, stalls>>

Next ==
    \/ \E t \in Transfer : Enqueue(t) /\ UNCHANGED settlement
    \/ \E w \in Worker : Work(w) \/ Fault(w)
    \/ \E w \in Worker, a \in Reply : Receive(w, a)
    \/ \E t \in Transfer, s \in SettlementState : SettlementChanges(t, s)

Spec == Init /\ [][Next]_vars

(* The timer keeps starting batches, and the orchestrator or the HTTP client's
   own time limit ends every post. *)
FairSpec ==
    /\ Spec
    /\ \A w \in Worker : WF_vars(Work(w)) /\ WF_vars(\E a \in Reply : Receive(w, a))
=============================================================================
