---------------------------- MODULE FundingProofs ----------------------------
(***************************************************************************)
(* Theorems of module Funding, for any sets of transfers, transactions and *)
(* customers, any amounts, limits and tolerances.                          *)
(*                                                                         *)
(* The four safety properties are inductive together: that a transfer has  *)
(* one funding event is true because a transfer with an event has left     *)
(* AWAITING_FUNDING, and that it has left it only with an event, because   *)
(* one transaction writes both.                                            *)
(***************************************************************************)
EXTENDS Funding, TLAPS

Inv ==
    /\ TypeOK
    /\ CreditedOnce
    /\ PayoutBacked
    /\ FundedCompletely
    /\ SubmissionTruthful

USE FundingAssumption

(* The payout side never takes a transfer back to AWAITING_FUNDING. *)
LEMMA NeverAwaitingAgain ==
  ASSUME NEW s \in StoredState, NEW u, CanTransition(s, u)
  PROVE  u # "AWAITING_FUNDING"
  BY DEF CanTransition, AllowedTransitions, TransferState, StoredState

(* A deposit that a customer confirms is numbered 0. *)
LEMMA RenumberedDeposit ==
  ASSUME NEW d \in Deposit
  PROVE  /\ [d EXCEPT !.log = 0] \in Deposit
         /\ [d EXCEPT !.log = 0].tx = d.tx /\ [d EXCEPT !.log = 0].t = d.t
         /\ [d EXCEPT !.log = 0].a = d.a
  BY DEF Deposit

(* The submissions that wait become s, and others stay. *)
LEMMA SettleChanges ==
  ASSUME TypeOK, NEW t \in Transfer, NEW s \in SubmissionState, Settle(t, s)
  PROVE  /\ submission' \in [Transfer -> [Tx -> SubmissionState]]
         /\ \A u \in Transfer, x \in Tx :
              submission'[u][x] = submission[u][x] \/ (u = t /\ submission'[u][x] = s)
  BY DEF TypeOK, Settle

(* An amount that is adjusted, and what is paid out of it. *)
LEMMA AdjustedAmount ==
  ASSUME TypeOK, NEW d \in Deposit
  PROVE  /\ Adjusted(d) \in [Transfer -> {Quote} \cup Amount]
         /\ Adjusted(d)[d.t] \in Nat
         /\ ~Underpaid(d) => Adjusted(d)[d.t] <= d.a + Tolerance
  <1>1. d.t \in Transfer /\ d.a \in Nat /\ d.a \in Amount
    BY DEF Deposit
  <1>2. sendAmount \in [Transfer -> {Quote} \cup Amount] /\ sendAmount[d.t] \in Nat
    BY <1>1 DEF TypeOK
  <1>3. CASE d.a > sendAmount[d.t] + Tolerance
    <2>1. Adjusted(d) = [sendAmount EXCEPT ![d.t] = d.a]
      BY <1>3 DEF Adjusted
    <2>2. Adjusted(d)[d.t] = d.a
      BY <1>1, <1>2, <2>1
    <2> QED
      BY <1>1, <1>2, <2>1, <2>2
  <1>4. CASE ~(d.a > sendAmount[d.t] + Tolerance)
    <2>1. Adjusted(d) = sendAmount
      BY <1>4 DEF Adjusted
    <2> QED
      BY <1>1, <1>2, <2>1 DEF Underpaid
  <1> QED
    BY <1>3, <1>4

-----------------------------------------------------------------------------
(* What the four properties say of deposits and records, when the deposits stay
   and d, which is one of them but for its index, is applied: one lemma for each
   outcome that writes. *)
Backed(d) == \E e \in deposits : e.tx = d.tx /\ e.t = d.t /\ e.a = d.a

RecordTypes ==
    /\ status' \in [Transfer -> StoredState]
    /\ sendAmount' \in [Transfer -> {Quote} \cup Amount]
    /\ credited' \subseteq Deposit
    /\ payout' \in [Transfer -> {NoEvent} \cup Nat]
    /\ sweep' \in [Transfer -> BOOLEAN]
    /\ submission' \in [Transfer -> [Tx -> SubmissionState]]

Kept == RecordTypes /\ CreditedOnce' /\ PayoutBacked' /\ FundedCompletely' /\ SubmissionTruthful'

LEMMA RejectKeeps ==
  ASSUME Inv, UNCHANGED deposits, NEW d \in Deposit, Reject(d)
  PROVE  Kept
  <1>1. d.t \in Transfer /\ "failed" \in SubmissionState
    BY DEF Deposit, SubmissionState
  <1>2. Settle(d.t, "failed") /\ UNCHANGED record
    BY DEF Reject
  <1>3. /\ submission' \in [Transfer -> [Tx -> SubmissionState]]
        /\ \A u \in Transfer, x \in Tx :
              submission'[u][x] = submission[u][x] \/ (u = d.t /\ submission'[u][x] = "failed")
    BY <1>1, <1>2, SettleChanges DEF Inv
  <1>4. RecordTypes
    BY <1>2, <1>3 DEF RecordTypes, Inv, TypeOK, record
  <1>5. SubmissionTruthful'
    BY <1>2, <1>3 DEF Inv, SubmissionTruthful, record
  <1> QED
    BY <1>2, <1>4, <1>5 DEF Kept, Inv, CreditedOnce, PayoutBacked, FundedCompletely, record

LEMMA DuplicateKeeps ==
  ASSUME Inv, UNCHANGED deposits, NEW d \in Deposit, DuplicateEvent(d)
  PROVE  Kept
  <1>1. sendAmount' \in [Transfer -> {Quote} \cup Amount]
    BY AdjustedAmount DEF DuplicateEvent, Inv
  <1> QED
    BY <1>1 DEF DuplicateEvent, Kept, RecordTypes, Inv, TypeOK, CreditedOnce, PayoutBacked,
                FundedCompletely, SubmissionTruthful

LEMMA ConfirmKeeps ==
  ASSUME Inv, UNCHANGED deposits, NEW d \in Deposit, Backed(d), Confirm(d)
  PROVE  Kept
  <1> DEFINE t == d.t
             amount == Adjusted(d)[t]
             paid == IF amount > Fee THEN amount - Fee ELSE 0
  <1>1. t \in Transfer /\ d.a \in Nat
    BY DEF Deposit
  <1>2. /\ sendAmount' = Adjusted(d) /\ sendAmount' \in [Transfer -> {Quote} \cup Amount]
        /\ amount \in Nat /\ amount <= d.a + Tolerance
    BY AdjustedAmount DEF Confirm, Inv, Rejected
  <1>3. /\ status[t] = "AWAITING_FUNDING" /\ ~IndexTaken(d) /\ ~OverLimit(d)
        /\ credited' = credited \cup {d}
        /\ status' = [status EXCEPT ![t] = "FUNDING_CONFIRMED"]
        /\ payout' = [payout EXCEPT ![t] = paid]
        /\ sweep' = [sweep EXCEPT ![t] = t \in BaseTransfer]
        /\ Settle(t, "confirmed")
    BY <1>2 DEF Confirm, Rejected
  <1>4. /\ submission' \in [Transfer -> [Tx -> SubmissionState]]
        /\ \A u \in Transfer, x \in Tx :
              submission'[u][x] = submission[u][x] \/ (u = t /\ submission'[u][x] = "confirmed")
    BY <1>1, <1>3, SettleChanges DEF Inv, SubmissionState
  <1>5. paid \in Nat /\ (paid > 0 => paid + Fee <= d.a + Tolerance)
    <2>1. CASE amount > Fee
      BY <1>1, <1>2, <2>1
    <2>2. CASE ~(amount > Fee)
      BY <1>1, <1>2, <2>2
    <2> QED
      BY <2>1, <2>2
  <1> HIDE DEF paid, amount
  <1>6. RecordTypes
    <2>1. status' \in [Transfer -> StoredState] /\ payout' \in [Transfer -> {NoEvent} \cup Nat]
          /\ credited' \subseteq Deposit
      BY <1>1, <1>3, <1>5 DEF Inv, TypeOK, StoredState
    <2>2. sweep' \in [Transfer -> BOOLEAN]
      BY <1>1, <1>3 DEF Inv, TypeOK
    <2> QED
      BY <1>2, <1>4, <2>1, <2>2 DEF RecordTypes
  <1>7. CreditedOnce'
    <2>1. \A e \in credited : e.t # t
      BY <1>1, <1>3 DEF Inv, FundedCompletely
    <2>2. \A e \in credited : ~(e.tx = d.tx /\ e.log = d.log)
      BY <1>3 DEF IndexTaken
    <2> QED
      BY <1>3, <2>1, <2>2 DEF Inv, CreditedOnce, Backed
  <1>8. PayoutBacked'
    <2>1. PICK e \in deposits : e.tx = d.tx /\ e.t = t /\ e.a = d.a
      BY DEF Backed
    <2>2. d.a <= OverpayMax + Tolerance
      BY <1>1, <1>3 DEF OverLimit
    <2>3. payout'[t] = paid /\ \A u \in Transfer : u # t => payout'[u] = payout[u]
      BY <1>1, <1>3 DEF Inv, TypeOK
    <2>4. ASSUME NEW u \in Transfer, payout'[u] # NoEvent
          PROVE  \E f \in deposits :
                    /\ f.t = u
                    /\ payout'[u] > 0 => payout'[u] + Fee <= f.a + Tolerance
                    /\ f.a <= OverpayMax + Tolerance
      <3>1. CASE u = t
        BY <1>5, <2>1, <2>2, <2>3, <3>1
      <3>2. CASE u # t
        BY <2>3, <2>4, <3>2 DEF Inv, PayoutBacked
      <3> QED
        BY <3>1, <3>2
    <2> QED
      BY <2>4 DEF PayoutBacked
  <1>9. FundedCompletely'
    <2>1. /\ status'[t] # "AWAITING_FUNDING" /\ payout'[t] # NoEvent
          /\ (t \in BaseTransfer => sweep'[t]) /\ d \in credited' /\ d.t = t
      <3>1. status'[t] = "FUNDING_CONFIRMED" /\ payout'[t] = paid /\ d \in credited'
        BY <1>1, <1>3 DEF Inv, TypeOK
      <3>2. sweep'[t] = (t \in BaseTransfer)
        BY <1>1, <1>3 DEF Inv, TypeOK
      <3>3. paid # NoEvent
        BY <1>5 DEF NoEvent
      <3> QED
        BY <3>1, <3>2, <3>3
    <2>2. \A u \in Transfer : u # t =>
             /\ status'[u] = status[u] /\ payout'[u] = payout[u] /\ sweep'[u] = sweep[u]
             /\ (\E e \in credited' : e.t = u) <=> (\E e \in credited : e.t = u)
      BY <1>1, <1>3 DEF Inv, TypeOK
    <2> QED
      BY <2>1, <2>2 DEF Inv, FundedCompletely
  <1>10. SubmissionTruthful'
    BY <1>1, <1>3, <1>4 DEF Inv, TypeOK, SubmissionTruthful
  <1> QED
    BY <1>6, <1>7, <1>8, <1>9, <1>10 DEF Kept

(* Whatever the outcome, applyFundingConfirmation keeps what the properties say. *)
LEMMA ApplyKeeps ==
  ASSUME Inv, UNCHANGED deposits, NEW d \in Deposit, Backed(d), Apply(d)
  PROVE  Kept
  <1>1. CASE AlreadyFunded(d)
    BY <1>1 DEF AlreadyFunded, Kept, RecordTypes, Inv, TypeOK, CreditedOnce, PayoutBacked,
                FundedCompletely, SubmissionTruthful, record
  <1> QED
    BY <1>1, RejectKeeps, DuplicateKeeps, ConfirmKeeps DEF Apply

-----------------------------------------------------------------------------
(* Nothing is funded at first. *)
LEMMA InitInv == Init => Inv
  BY DEF Init, Inv, TypeOK, CreditedOnce, PayoutBacked, FundedCompletely, SubmissionTruthful,
         StoredState, SubmissionState, NoEvent

(* A step that leaves the record and the deposits alone, and confirms no
   submission. *)
LEMMA OutsideKeeps ==
  ASSUME Inv, UNCHANGED <<deposits, record>>,
         \A t \in Transfer, x \in Tx :
            submission'[t][x] = "confirmed" => submission[t][x] = "confirmed"
  PROVE  CreditedOnce' /\ PayoutBacked' /\ FundedCompletely' /\ SubmissionTruthful'
  BY DEF Inv, CreditedOnce, PayoutBacked, FundedCompletely, SubmissionTruthful, record

(* A submission that is written by its customer is not confirmed by it. *)
LEMMA WriteChanges ==
  ASSUME TypeOK, NEW c \in Customer, post[c] # NoPost,
         NEW s \in {"submitted", "failed"}, WriteSubmission(c, s)
  PROVE  /\ submission' \in [Transfer -> [Tx -> SubmissionState]]
         /\ \A t \in Transfer, x \in Tx :
              submission'[t][x] = "confirmed" => submission[t][x] = "confirmed"
  <1>1. post[c].t \in Transfer /\ post[c].tx \in Tx
    BY DEF TypeOK
  <1>2. s \in SubmissionState
    BY DEF SubmissionState
  <1> QED
    BY <1>1, <1>2 DEF TypeOK, WriteSubmission

(* Every step keeps the invariant: one step of the proof per action. *)
LEMMA NextInv == Inv /\ [Next]_vars => Inv'
  <1> SUFFICES ASSUME Inv, [Next]_vars PROVE Inv'
    OBVIOUS
  <1>0. TypeOK
    BY DEF Inv
  <1>1. ASSUME NEW d \in Deposit, DepositMade(d) PROVE Inv'
    <2>1. deposits \subseteq deposits' /\ deposits' \subseteq Deposit
          /\ UNCHANGED <<record, submission, reported, post>>
      BY <1>0, <1>1 DEF DepositMade, TypeOK
    <2>2. TypeOK'
      BY <1>0, <2>1 DEF TypeOK, record
    <2>3. CreditedOnce'
      BY <2>1 DEF Inv, CreditedOnce, record
    <2>4. PayoutBacked'
      BY <2>1 DEF Inv, PayoutBacked, record
    <2> QED
      BY <2>1, <2>2, <2>3, <2>4 DEF Inv, FundedCompletely, SubmissionTruthful, record
  <1>2. ASSUME NEW d \in Deposit, WatcherReport(d) PROVE Inv'
    <2>1. Backed(d) /\ Apply(d) /\ UNCHANGED <<deposits, post>> /\ reported' \subseteq deposits'
      BY <1>0, <1>2 DEF WatcherReport, Backed, TypeOK
    <2>2. Kept
      BY <2>1, ApplyKeeps
    <2> QED
      BY <1>0, <2>1, <2>2 DEF Inv, Kept, RecordTypes, TypeOK
  <1>3. ASSUME NEW c \in Customer, NEW t \in Transfer, NEW x \in Tx, Submit(c, t, x) PROVE Inv'
    <2>1. UNCHANGED <<deposits, record, submission, reported>>
      BY <1>3 DEF Submit
    <2>2. TypeOK'
      BY <1>0, <1>3 DEF Submit, TypeOK, record, PostStep
    <2> QED
      BY <2>1, <2>2, OutsideKeeps DEF Inv
  <1>4. ASSUME NEW c \in Customer, RecordAttempt(c) PROVE Inv'
    <2>1. post[c] # NoPost /\ WriteSubmission(c, "submitted") /\ Goto(c, "verify")
          /\ UNCHANGED <<deposits, record, reported>>
      BY <1>4 DEF RecordAttempt, At, NoPost
    <2>2. TypeOK'
      BY <1>0, <2>1, WriteChanges DEF TypeOK, Goto, record, PostStep
    <2> QED
      BY <1>0, <2>1, <2>2, WriteChanges, OutsideKeeps DEF Inv
  <1>5. ASSUME NEW c \in Customer, MarkFailed(c) PROVE Inv'
    <2>1. post[c] # NoPost /\ WriteSubmission(c, "failed") /\ post' = [post EXCEPT ![c] = NoPost]
          /\ UNCHANGED <<deposits, record, reported>>
      BY <1>5 DEF MarkFailed, At, NoPost
    <2>2. TypeOK'
      BY <1>0, <2>1, WriteChanges DEF TypeOK, record
    <2> QED
      BY <1>0, <2>1, <2>2, WriteChanges, OutsideKeeps DEF Inv
  <1>6. ASSUME NEW c \in Customer, Verify(c) \/ Pending(c) \/ Abandon(c) PROVE Inv'
    <2>1. UNCHANGED <<deposits, record, submission, reported>>
      BY <1>6 DEF Verify, Pending, Abandon
    <2>2. TypeOK'
      <3>1. CASE Verify(c)
        <4>1. post[c] # NoPost /\ \E s \in PostStep : Goto(c, s)
          BY <3>1 DEF Verify, At, NoPost, PostStep
        <4>2. post' \in [Customer ->
                [t : Transfer, tx : Tx, fresh : BOOLEAN, step : PostStep] \cup {NoPost}]
          BY <1>0, <4>1 DEF Goto, TypeOK
        <4> QED
          BY <1>0, <2>1, <4>2 DEF TypeOK, record
      <3>2. CASE Pending(c) \/ Abandon(c)
        BY <1>0, <3>2 DEF Pending, Abandon, TypeOK, record
      <3> QED
        BY <1>6, <3>1, <3>2
    <2> QED
      BY <2>1, <2>2, OutsideKeeps DEF Inv
  <1>7. ASSUME NEW c \in Customer, CustomerConfirm(c) PROVE Inv'
    <2>1. PICK d \in Found(c) : Apply([d EXCEPT !.log = 0])
      BY <1>7 DEF CustomerConfirm
    <2>2. d \in deposits /\ d \in Deposit
      BY <1>0 DEF Found, Receipt, TypeOK
    <2>3. [d EXCEPT !.log = 0] \in Deposit /\ Backed([d EXCEPT !.log = 0])
      BY <2>2, RenumberedDeposit DEF Backed
    <2>4. UNCHANGED <<deposits, reported>> /\ post' = [post EXCEPT ![c] = NoPost]
      BY <1>7 DEF CustomerConfirm
    <2>5. Kept
      BY <2>1, <2>3, <2>4, ApplyKeeps
    <2> QED
      BY <1>0, <2>4, <2>5 DEF Inv, Kept, RecordTypes, TypeOK
  <1>8. ASSUME NEW t \in Transfer, NEW s \in PayoutState, PayoutMoves(t, s) PROVE Inv'
    <2>1. /\ status[t] # "AWAITING_FUNDING" /\ CanTransition(status[t], s)
          /\ status' = [status EXCEPT ![t] = s]
          /\ UNCHANGED <<deposits, sendAmount, credited, payout, sweep, submission, reported, post>>
      BY <1>8 DEF PayoutMoves
    <2>2. TypeOK'
      BY <1>0, <2>1 DEF TypeOK
    <2>3. \A u \in Transfer : status'[u] # "AWAITING_FUNDING" <=> status[u] # "AWAITING_FUNDING"
      BY <1>0, <2>1, NeverAwaitingAgain DEF TypeOK
    <2> QED
      BY <2>1, <2>2, <2>3 DEF Inv, CreditedOnce, PayoutBacked, FundedCompletely, SubmissionTruthful
  <1>9. CASE UNCHANGED vars
    BY <1>9 DEF vars, record, Inv, TypeOK, CreditedOnce, PayoutBacked, FundedCompletely,
                SubmissionTruthful
  <1> QED
    BY <1>1, <1>2, <1>3, <1>4, <1>5, <1>6, <1>7, <1>8, <1>9 DEF Next

(* The invariant holds in every reachable state. *)
LEMMA Invariance == Spec => []Inv
  BY InitInv, NextInv, PTL DEF Spec

-----------------------------------------------------------------------------
(* Types of the rows, the deposits and the submissions in progress. *)
THEOREM TypeCorrect == Spec => []TypeOK
  BY Invariance, PTL DEF Inv

(* No deposit is credited twice and no transfer has two funding events, whichever
   of the two callers reports a deposit first or again. *)
THEOREM OneEventPerTransfer == Spec => []CreditedOnce
  BY Invariance, PTL DEF Inv

(* The payout is backed by a deposit to the transfer within tolerance and limit. *)
THEOREM PayoutNeverExceedsDeposit == Spec => []PayoutBacked
  BY Invariance, PTL DEF Inv

(* Funding is all or nothing: status, funding event, outbox event and settlement
   record go together. *)
THEOREM FundingIsAtomic == Spec => []FundedCompletely
  BY Invariance, PTL DEF Inv

(* A submission is never confirmed for a transfer that still awaits its funding. *)
THEOREM ConfirmedIsFunded == Spec => []SubmissionTruthful
  BY Invariance, PTL DEF Inv
=============================================================================
