------------------------------ MODULE Funding ------------------------------
(***************************************************************************)
(* How a deposit on chain funds a transfer: core-api's                     *)
(* applyFundingConfirmation, which one database transaction runs with the  *)
(* transfer's row locked, and its two callers.  The watcher reports every  *)
(* deposit it sees, with its index in the transaction, until it is         *)
(* answered; the customer submits the hash of a transaction, which the     *)
(* collector verifies on chain, and core-api confirms it with index 0.     *)
(*                                                                         *)
(* Amounts are in units of one cent; a transfer is created with Quote.     *)
(***************************************************************************)
EXTENDS TransferStates, Integers, FiniteSets

CONSTANTS
    Transfer, BaseTransfer,
    Tx,           \* transaction hashes
    Index,        \* positions of a deposit in its transaction
    Amount,       \* amounts deposited
    Quote,        \* send_amount_usd of a new transfer
    Fee,          \* fee_usd of its quote
    Tolerance,    \* FUNDING_AMOUNT_TOLERANCE_USD
    OverpayMax,   \* FUNDING_OVERPAY_MAX_AUTO_USD
    AutoAdjust,   \* FUNDING_OVERPAY_AUTO_ADJUST_ENABLED
    Customer,     \* slots for concurrent submissions
    Batched,      \* may one transaction pay several transfers?
    MaxDeposits,  \* bound on the deposits of a behaviour
    PayoutState   \* the payout states a behaviour visits

ASSUME FundingAssumption ==
    /\ BaseTransfer \subseteq Transfer
    /\ Index \subseteq Nat /\ 0 \in Index
    /\ Amount \subseteq Nat \ {0}
    /\ {Quote, Tolerance, OverpayMax} \subseteq Nat \ {0} /\ Fee \in Nat
    /\ {AutoAdjust, Batched} \subseteq BOOLEAN
    /\ MaxDeposits \in Nat
    /\ PayoutState \subseteq StoredState

VARIABLES
    deposits,    \* what the chain holds (external)
    status,      \* transfers.status
    sendAmount,  \* transfers.send_amount_usd
    credited,    \* the rows of onchain_funding_event
    payout,      \* USD behind amountEtb of the outbox event, or NoEvent
    sweep,       \* is there a settlement_record?
    submission,  \* funding_submission_attempt.status per transfer and hash
    reported,    \* deposits the watcher has been answered for
    post         \* per customer slot: the submission in progress

record == <<status, sendAmount, credited, payout, sweep>>
vars == <<deposits, record, submission, reported, post>>

Deposit == [tx : Tx, log : Index, t : Transfer, a : Amount]
SubmissionState == {"none", "submitted", "failed", "confirmed"}
PostStep == {"record", "verify", "apply", "fail"}
NoEvent == -1
NoPost == [t |-> "none", tx |-> "none", fresh |-> FALSE, step |-> "idle"]

TypeOK ==
    /\ deposits \subseteq Deposit
    /\ status \in [Transfer -> StoredState]
    /\ sendAmount \in [Transfer -> {Quote} \cup Amount]
    /\ credited \subseteq Deposit
    /\ payout \in [Transfer -> {NoEvent} \cup Nat]
    /\ sweep \in [Transfer -> BOOLEAN]
    /\ submission \in [Transfer -> [Tx -> SubmissionState]]
    /\ reported \subseteq deposits
    /\ post \in [Customer ->
          [t : Transfer, tx : Tx, fresh : BOOLEAN, step : PostStep] \cup {NoPost}]

Init ==
    /\ deposits = {}
    /\ status = [t \in Transfer |-> "AWAITING_FUNDING"]
    /\ sendAmount = [t \in Transfer |-> Quote]
    /\ credited = {}
    /\ payout = [t \in Transfer |-> NoEvent]
    /\ sweep = [t \in Transfer |-> FALSE]
    /\ submission = [t \in Transfer |-> [x \in Tx |-> "none"]]
    /\ reported = {}
    /\ post = [c \in Customer |-> NoPost]

(* A deposit becomes final on chain: positions in a transaction are unique, and
   each transfer has an address of its own. *)
DepositMade(d) ==
    /\ Cardinality(deposits) < MaxDeposits
    /\ \A e \in deposits : e.tx = d.tx =>
          /\ Batched /\ e.log # d.log /\ e.t # d.t
          /\ e.t \in BaseTransfer <=> d.t \in BaseTransfer
    /\ deposits' = deposits \cup {d}
    /\ UNCHANGED <<record, submission, reported, post>>

-----------------------------------------------------------------------------
(* applyFundingConfirmation of deposit d: its outcomes, which exclude each
   other, and what each writes. *)

OverLimit(d) ==
    \/ d.a > OverpayMax + Tolerance
    \/ d.a > sendAmount[d.t] + Tolerance /\ ~AutoAdjust

Underpaid(d) == d.a + Tolerance < sendAmount[d.t]

(* Mutated form of Rejected: an underpayment is not rejected. *)
RejectedOverLimit(d) == OverLimit(d)

Rejected(d) == OverLimit(d) \/ Underpaid(d)

(* An overpayment raises the amount to send; the tolerance does not. *)
Adjusted(d) ==
    IF d.a > sendAmount[d.t] + Tolerance
    THEN [sendAmount EXCEPT ![d.t] = d.a]
    ELSE sendAmount

(* unique (chain, tx_hash, log_index) *)
IndexTaken(d) == \E e \in credited : e.tx = d.tx /\ e.log = d.log

(* The submissions of t that wait are settled together. *)
Settle(t, s) ==
    submission' = [submission EXCEPT ![t] =
                     [x \in Tx |-> IF @[x] = "submitted" THEN s ELSE @[x]]]

(* duplicate, or invalid_state *)
AlreadyFunded(d) ==
    /\ status[d.t] # "AWAITING_FUNDING"
    /\ UNCHANGED <<record, submission>>

(* amount_over_limit, amount_underpaid: the transfer goes on waiting. *)
Reject(d) ==
    /\ status[d.t] = "AWAITING_FUNDING"
    /\ Rejected(d)
    /\ Settle(d.t, "failed")
    /\ UNCHANGED record

(* Mutated form of DuplicateEvent: the transfer is updated before the insert. *)
DuplicateEventConfirms(d) ==
    /\ status[d.t] = "AWAITING_FUNDING"
    /\ ~Rejected(d)
    /\ IndexTaken(d)
    /\ sendAmount' = Adjusted(d)
    /\ status' = [status EXCEPT ![d.t] = "FUNDING_CONFIRMED"]
    /\ UNCHANGED <<credited, payout, sweep, submission>>

(* Mutated form of DuplicateEvent: the submissions are, too. *)
DuplicateEventSettles(d) ==
    /\ status[d.t] = "AWAITING_FUNDING"
    /\ ~Rejected(d)
    /\ IndexTaken(d)
    /\ sendAmount' = Adjusted(d)
    /\ Settle(d.t, "confirmed")
    /\ UNCHANGED <<status, credited, payout, sweep>>

(* duplicate: the amount has already been adjusted, and is committed. *)
DuplicateEvent(d) ==
    /\ status[d.t] = "AWAITING_FUNDING"
    /\ ~Rejected(d)
    /\ IndexTaken(d)
    /\ sendAmount' = Adjusted(d)
    /\ UNCHANGED <<status, credited, payout, sweep, submission>>

(* Mutated form of Confirm: the status of the transfer is not checked. *)
ConfirmAnyState(d) ==
    /\ ~Rejected(d)
    /\ ~IndexTaken(d)
    /\ sendAmount' = Adjusted(d)
    /\ credited' = credited \cup {d}
    /\ status' = [status EXCEPT ![d.t] = "FUNDING_CONFIRMED"]
    /\ payout' = [payout EXCEPT ![d.t] =
                    IF sendAmount'[d.t] > Fee THEN sendAmount'[d.t] - Fee ELSE 0]
    /\ sweep' = [sweep EXCEPT ![d.t] = d.t \in BaseTransfer]
    /\ Settle(d.t, "confirmed")

(* confirmed *)
Confirm(d) ==
    /\ status[d.t] = "AWAITING_FUNDING"
    /\ ~Rejected(d)
    /\ ~IndexTaken(d)
    /\ sendAmount' = Adjusted(d)
    /\ credited' = credited \cup {d}
    /\ status' = [status EXCEPT ![d.t] = "FUNDING_CONFIRMED"]
    /\ payout' = [payout EXCEPT ![d.t] =
                    IF sendAmount'[d.t] > Fee THEN sendAmount'[d.t] - Fee ELSE 0]
    /\ sweep' = [sweep EXCEPT ![d.t] = d.t \in BaseTransfer]
    /\ Settle(d.t, "confirmed")

Apply(d) == AlreadyFunded(d) \/ Reject(d) \/ DuplicateEvent(d) \/ Confirm(d)

-----------------------------------------------------------------------------
(* Mutated form of WatcherReport: a report that failed counts as answered. *)
WatcherReportOnce(d) ==
    /\ d \in deposits \ reported
    /\ Apply(d) \/ UNCHANGED <<record, submission>>
    /\ reported' = reported \cup {d}
    /\ UNCHANGED <<deposits, post>>

(* The watcher reports d.  If it does not learn the answer (it dies, or the
   answer is lost), it will report d again. *)
WatcherReport(d) ==
    /\ d \in deposits \ reported
    /\ Apply(d)
    /\ reported' \in {reported, reported \cup {d}}
    /\ UNCHANGED <<deposits, post>>

(* A customer submits a hash, any hash, for a transfer: its status is read
   before the submission is recorded and is not read again. *)
Submit(c, t, x) ==
    /\ post[c] = NoPost
    /\ status[t] \in {"AWAITING_FUNDING", "FUNDING_CONFIRMED", "PAYOUT_INITIATED",
                      "PAYOUT_COMPLETED"}
    /\ post' = [post EXCEPT ![c] =
         [t |-> t, tx |-> x, fresh |-> status[t] = "AWAITING_FUNDING", step |-> "record"]]
    /\ UNCHANGED <<deposits, record, submission, reported>>

At(c, s) == post[c].step = s
Goto(c, s) == post' = [post EXCEPT ![c].step = s]
WriteSubmission(c, s) ==
    submission' = IF post[c].fresh
                  THEN [submission EXCEPT ![post[c].t][post[c].tx] = s]
                  ELSE submission

RecordAttempt(c) ==
    /\ At(c, "record")
    /\ WriteSubmission(c, "submitted")
    /\ Goto(c, "verify")
    /\ UNCHANGED <<deposits, record, reported>>

(* The logs of the transaction, and the one that pays the address of t. *)
Receipt(c) == {d \in deposits : d.tx = post[c].tx}
Found(c) == {d \in Receipt(c) : d.t = post[c].t}

(* The collector finds the deposit, or refuses: there is none, or an RPC call
   failed. *)
Verify(c) ==
    /\ At(c, "verify")
    /\ \/ Found(c) # {} /\ Goto(c, "apply")
       \/ Goto(c, "fail")
    /\ UNCHANGED <<deposits, record, submission, reported>>

(* The receipt or its block is not there yet: the answer to a transfer that was
   awaiting funding is pending_verification, and the submission stays as it is. *)
Pending(c) ==
    /\ At(c, "verify")
    /\ post[c].fresh
    /\ post' = [post EXCEPT ![c] = NoPost]
    /\ UNCHANGED <<deposits, record, submission, reported>>

MarkFailed(c) ==
    /\ At(c, "fail")
    /\ WriteSubmission(c, "failed")
    /\ post' = [post EXCEPT ![c] = NoPost]
    /\ UNCHANGED <<deposits, record, reported>>

(* processFundingConfirmed with logIndex 0. *)
CustomerConfirm(c) ==
    /\ At(c, "apply")
    /\ \E d \in Found(c) : Apply([d EXCEPT !.log = 0])
    /\ post' = [post EXCEPT ![c] = NoPost]
    /\ UNCHANGED <<deposits, reported>>

(* The submission ends without a further write: an exception, or the end of the
   process. *)
Abandon(c) ==
    /\ post[c] # NoPost
    /\ post' = [post EXCEPT ![c] = NoPost]
    /\ UNCHANGED <<deposits, record, submission, reported>>

(* The payout side moves a funded transfer on (module Payout). *)
PayoutMoves(t, s) ==
    /\ status[t] # "AWAITING_FUNDING"
    /\ CanTransition(status[t], s)
    /\ status' = [status EXCEPT ![t] = s]
    /\ UNCHANGED <<deposits, sendAmount, credited, payout, sweep, submission, reported, post>>

Next ==
    \/ \E d \in Deposit : DepositMade(d) \/ WatcherReport(d)
    \/ \E c \in Customer, t \in Transfer, x \in Tx : Submit(c, t, x)
    \/ \E c \in Customer :
          RecordAttempt(c) \/ Verify(c) \/ Pending(c) \/ MarkFailed(c) \/ CustomerConfirm(c) \/ Abandon(c)
    \/ \E t \in Transfer, s \in PayoutState : PayoutMoves(t, s)

Spec == Init /\ [][Next]_vars

(* The watcher keeps reporting what it has no answer for. *)
FairSpec == Spec /\ \A d \in Deposit : WF_vars(WatcherReport(d))

-----------------------------------------------------------------------------
(***************************************************************************)
(* Properties                                                              *)
(***************************************************************************)

(* No money is credited twice, whichever of the two callers reports a deposit
   first or again, and although they number it differently: a transfer has
   one funding event, and the event is a deposit that was made to it. *)
CreditedOnce ==
    /\ \A e, f \in credited : e.t = f.t \/ (e.tx = f.tx /\ e.log = f.log) => e = f
    /\ \A e \in credited : \E d \in deposits : d.tx = e.tx /\ d.t = e.t /\ d.a = e.a

(* What the partner will be asked to pay is backed by one deposit, within the
   tolerance and the automatic limit, after any sequence of underpayments,
   overpayments and adjustments. *)
PayoutBacked ==
    \A t \in Transfer : payout[t] # NoEvent =>
        \E d \in deposits :
            /\ d.t = t
            /\ payout[t] > 0 => payout[t] + Fee <= d.a + Tolerance
            /\ d.a <= OverpayMax + Tolerance

(* A transfer has left AWAITING_FUNDING exactly when it has a funding event, an
   outbox event and, on Base, a record to sweep. *)
FundedCompletely ==
    \A t \in Transfer :
        LET funded == status[t] # "AWAITING_FUNDING" IN
        /\ funded <=> \E e \in credited : e.t = t
        /\ funded <=> payout[t] # NoEvent
        /\ t \in BaseTransfer => (funded <=> sweep[t])

(* A submission is reported confirmed only for a funded transfer, whatever the
   customer's stale request writes to it afterwards. *)
SubmissionTruthful ==
    \A t \in Transfer, x \in Tx :
        submission[t][x] = "confirmed" => status[t] # "AWAITING_FUNDING"

(* The customer of another transfer that the same transaction pays has submitted
   its hash, and was credited under index 0, which is that of deposit d. *)
Displaced(d) == d.log = 0 /\ \E e \in deposits : e.tx = d.tx /\ e.log # 0 /\ [e EXCEPT !.log = 0] \in credited

(* docs/RUNBOOK_MVP.md:8, "Funding confirmed by watcher -> FUNDING_CONFIRMED":
   a deposit of the quoted amount funds its transfer.  There are two exceptions,
   which come of submissions for another transfer: the deposit is displaced; or an
   overpayment of the same transfer is, whose report as a duplicate has raised the
   amount that the transfer waits for (repository.ts:249). *)
DepositCredited ==
    \A d \in {e \in Deposit : e.a = Quote} :
        d \in deposits
        ~> \/ status[d.t] # "AWAITING_FUNDING"
           \/ Displaced(d)
           \/ \E f \in deposits : f.t = d.t /\ f.a > Quote + Tolerance /\ Displaced(f)
=============================================================================
