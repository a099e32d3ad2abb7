--------------------------- MODULE PayoutContract ---------------------------
(***************************************************************************)
(* What the payout side promises about a transfer, as a state machine with *)
(* one atomic step per fact: the partner is asked to pay only a funded     *)
(* transfer, and the transfer's status never runs ahead of the partner.    *)
(*                                                                         *)
(*   status[t]   the transfer's state                                      *)
(*   settled[t]  what the partner did with payouts of t: nothing has been  *)
(*               accepted ({}), or the set of facts known so far           *)
(***************************************************************************)
EXTENDS TransferStates

CONSTANT Transfer

VARIABLES status, settled

vars == <<status, settled>>

Fact == {"accepted", "PAYOUT_COMPLETED", "PAYOUT_FAILED"}

Init ==
    /\ status \in [Transfer -> {"AWAITING_FUNDING", "FUNDING_CONFIRMED"}]
    /\ settled = [t \in Transfer |-> {}]

Fund(t) ==
    /\ status[t] = "AWAITING_FUNDING"
    /\ status' = [status EXCEPT ![t] = "FUNDING_CONFIRMED"]
    /\ UNCHANGED settled

(* The partner accepts a payout: whatever else happened to the transfer since,
   it had been funded. *)
Accept(t) ==
    /\ status[t] # "AWAITING_FUNDING"
    /\ settled' = [settled EXCEPT ![t] = @ \cup {"accepted"}]
    /\ UNCHANGED status

(* The partner settles a payout it has accepted. *)
Settle(t, s) ==
    /\ "accepted" \in settled[t]
    /\ settled' = [settled EXCEPT ![t] = @ \cup {s}]
    /\ UNCHANGED status

Initiate(t) ==
    /\ status[t] = "FUNDING_CONFIRMED"
    /\ "accepted" \in settled[t]
    /\ status' = [status EXCEPT ![t] = "PAYOUT_INITIATED"]
    /\ UNCHANGED settled

(* The transfer reaches a terminal state the partner has reported. *)
Conclude(t, s) ==
    /\ status[t] = "PAYOUT_INITIATED"
    /\ s \in settled[t]
    /\ status' = [status EXCEPT ![t] = s]
    /\ UNCHANGED settled

Review(t) ==
    /\ status[t] \in {"FUNDING_CONFIRMED", "PAYOUT_INITIATED"}
    /\ status' = [status EXCEPT ![t] = "PAYOUT_REVIEW_REQUIRED"]
    /\ UNCHANGED settled

Next ==
    \E t \in Transfer :
        \/ Fund(t) \/ Accept(t) \/ Initiate(t) \/ Review(t)
        \/ \E s \in {"PAYOUT_COMPLETED", "PAYOUT_FAILED"} : Settle(t, s) \/ Conclude(t, s)

Spec == Init /\ [][Next]_vars

-----------------------------------------------------------------------------
(* A payout has been initiated or concluded only if the partner accepted it,
   and concluded only as the partner settled it. *)
StatusTruthful ==
    \A t \in Transfer :
        /\ status[t] \in PaidState => "accepted" \in settled[t]
        /\ status[t] \in {"PAYOUT_COMPLETED", "PAYOUT_FAILED"} => status[t] \in settled[t]

(* Every status change of the contract is a transition the domain allows. *)
LegalTransitions ==
    [][\A t \in Transfer : status'[t] # status[t] => CanTransition(status[t], status'[t])]_vars
=============================================================================
