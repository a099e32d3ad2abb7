--------------------------- MODULE TransferStates ---------------------------
(***************************************************************************)
(* The states of a transfer and the transitions the domain allows          *)
(* (packages/domain/src/transfer.ts).  No service calls canTransition: the *)
(* services write transfers.status with SQL of their own, which the other  *)
(* modules translate and check against this table.                         *)
(***************************************************************************)

TransferState ==
    {"QUOTE_CREATED", "TRANSFER_CREATED", "AWAITING_FUNDING",
     "FUNDING_CONFIRMED", "PAYOUT_INITIATED", "PAYOUT_COMPLETED",
     "PAYOUT_FAILED", "PAYOUT_REVIEW_REQUIRED", "EXPIRED"}

AllowedTransitions ==
    [s \in TransferState |->
       CASE s = "QUOTE_CREATED"     -> {"TRANSFER_CREATED"}
         [] s = "TRANSFER_CREATED"  -> {"AWAITING_FUNDING"}
         [] s = "AWAITING_FUNDING"  -> {"FUNDING_CONFIRMED", "PAYOUT_REVIEW_REQUIRED", "EXPIRED"}
         [] s = "FUNDING_CONFIRMED" -> {"PAYOUT_INITIATED", "PAYOUT_REVIEW_REQUIRED"}
         [] s = "PAYOUT_INITIATED"  -> {"PAYOUT_COMPLETED", "PAYOUT_FAILED", "PAYOUT_REVIEW_REQUIRED"}
         [] s = "PAYOUT_FAILED"     -> {"PAYOUT_REVIEW_REQUIRED"}
         [] OTHER                   -> {}]

CanTransition(from, to) == to \in AllowedTransitions[from]

(* The states a stored transfer can be in: createTransfer inserts it in
   AWAITING_FUNDING, and no code writes EXPIRED. *)
StoredState ==
    {"AWAITING_FUNDING", "FUNDING_CONFIRMED", "PAYOUT_INITIATED",
     "PAYOUT_COMPLETED", "PAYOUT_FAILED", "PAYOUT_REVIEW_REQUIRED"}

(* The partner has been asked to pay, and the payout is not under review. *)
PaidState == {"PAYOUT_INITIATED", "PAYOUT_COMPLETED", "PAYOUT_FAILED"}
=============================================================================
