---------------------------- MODULE MCPayoutPath ----------------------------
(***************************************************************************)
(* Instances of PayoutPath for TLC.  A behaviour has either an operator's  *)
(* retry or a fault and a slow worker, as its initial state chooses:       *)
(* module Payout has the faults of the orchestrator and the retry together.*)
(***************************************************************************)
EXTENDS PayoutPath

VARIABLE operator

Allowed ==
    /\ UNCHANGED operator
    /\ IF operator THEN faults' = 0 /\ stalls' = 0
                   ELSE \A r \in Request : job'[r].k \notin OpsKey

MCInit == Init /\ operator \in BOOLEAN

(* FairSpec of PayoutPath, with the steps that are allowed. *)
MCSpec ==
    /\ MCInit
    /\ [][Next /\ Allowed]_<<vars, operator>>
    /\ \A w \in Worker :
          /\ WF_vars(DispatchLocal(w) /\ Allowed) /\ WF_vars(Answered(w) /\ Allowed)
          /\ WF_vars((\E r \in Request : Send(w, r)) /\ Allowed)
    /\ \A r \in Request :
          /\ WF_vars(Orphaned(r) /\ Allowed)
          /\ WF_vars(/\ P!Handle(r) /\ UNCHANGED <<dispatchVars, sweepVars, settlement>>
                     /\ Allowed)
    /\ \A w \in Sweeper :
          WF_vars(S!Work(w) /\ UNCHANGED <<payoutVars, dispatchVars>> /\ Allowed)
=============================================================================
