------------------------------ MODULE Workers ------------------------------
(***************************************************************************)
(* The two background workers that write outcomes back without naming the  *)
(* claim they belong to: the outbox dispatcher (module Dispatch) and the   *)
(* base sweeper (Sweep).  They meet in the settlement records, which the   *)
(* sweeper writes and the dispatcher's gate reads.                         *)
(*                                                                         *)
(* Module PayoutPath has them work together on one transfer.  Here each is *)
(* checked with several workers and records of its own: Dispatch lets the  *)
(* settlement records take any value, so what holds of the dispatcher here *)
(* holds whatever the sweeper does.                                        *)
(***************************************************************************)
EXTENDS Naturals, FiniteSets

CONSTANTS
    Transfer, BaseTransfer,
    Worker, DispatchMax, SweepRequired, MaxStalls,   \* Dispatch
    Sweeper, SweepMax, SlowSweepers,                 \* Sweep
    MaxFaults

VARIABLES
    event, valid, attempts, claim, reply, stalls,
    settlement, tries, task, deposit, airborne, faults,
    part          \* the worker a behaviour is about

D == INSTANCE Dispatch
S == INSTANCE Sweep

ASSUME WorkersAssumption ==
    D!DispatchAssumption /\ S!SweepAssumption /\ IsFiniteSet(Worker)

dispatchVars == <<event, valid, attempts, claim, reply, stalls>>
sweepVars == <<tries, task, deposit, airborne>>
vars == <<part, dispatchVars, sweepVars, settlement, faults>>

Init == part \in {"dispatch", "sweep"} /\ D!Init /\ S!Init

Next ==
    /\ UNCHANGED part
    /\ \/ part = "dispatch" /\ D!Next /\ UNCHANGED sweepVars
       \/ part = "sweep" /\ S!Next /\ UNCHANGED dispatchVars

(* The timers keep starting batches, and every call of another service ends. *)
FairSpec ==
    /\ Init /\ [][Next]_vars
    /\ \A w \in Worker :
          /\ WF_vars(part = "dispatch" /\ D!Work(w) /\ UNCHANGED <<part, sweepVars>>)
          /\ WF_vars(/\ part = "dispatch" /\ \E a \in D!Reply : D!Receive(w, a)
                     /\ UNCHANGED <<part, sweepVars>>)
    /\ \A w \in Sweeper : WF_vars(part = "sweep" /\ S!Work(w) /\ UNCHANGED <<part, dispatchVars>>)

-----------------------------------------------------------------------------
(***************************************************************************)
(* Properties                                                              *)
(***************************************************************************)

(* A payout is posted at most DispatchMax times, plus once for every claim that
   was taken over, from a worker that died or that was only slow: the attempts
   are counted by the claims and the limit is applied by the marks, which a slow
   worker writes over those of its successor. *)
RetryBudget == \A t \in Transfer : attempts[t] <= DispatchMax + faults + stalls

(* No event waits for ever: each is processed or dead-lettered within its
   attempts, even when the worker that claimed it dies, or several work on it. *)
EventSettles ==
    \A t \in Transfer \ BaseTransfer :
        event[t] = "pending" ~> event[t] \in {"processed", "dead_letter"}

(* The payout gate relies on it: a record is swept only when the funds have
   left the deposit address for treasury, through retries, take-overs, late
   receipts and failed marks. *)
SweptTruthful ==
    \A t \in Transfer : part = "sweep" /\ settlement[t] = "swept" => deposit[t] = "treasury"

(* Every record that waits for its sweep ends up swept or under review: a
   claim whose worker died is taken over, and the attempts run out. *)
SettlementResolves ==
    \A t \in Transfer :
        part = "sweep" /\ settlement[t] = "pending_sweep"
        ~> settlement[t] \in {"swept", "review_required"}
=============================================================================
