------------------------------- MODULE Wallet -------------------------------
(***************************************************************************)
(* Paying a transfer with a wallet: the pay panels of the web client       *)
(* (BasePayPanel, SolanaPayPanel), the hook usePaymentVerification they    *)
(* share, and what they leave in the storage of the tab.  A panel is       *)
(* mounted anew when the customer switches between the ways to pay, comes  *)
(* back to the page, or reloads it; what a closed panel has begun goes on, *)
(* unless the page was reloaded.                                           *)
(*                                                                         *)
(* The n-th press of the pay button makes payment n, one transaction at    *)
(* most.  The route of the transfer is an ERC-20 transfer on Base, an SPL  *)
(* transfer to an address, or the pay instruction of the program.          *)
(***************************************************************************)
EXTENDS Naturals, FiniteSets

CONSTANTS
    MaxPayments,  \* bound on the presses of the pay button
    MaxMounts     \* bound on the panels mounted

ASSUME WalletAssumption == {MaxPayments, MaxMounts} \subseteq Nat \ {0}

VARIABLES
    route,      \* of the transfer
    panel,      \* the panel that is mounted
    mounts,     \* panels mounted so far
    drafted,    \* does the draft of the tab still have the transfer?
    chain,      \* per payment: its transaction (external)
    call,       \* per payment: submitPayment
    from,       \* per payment: the panel it was made from
    ident,      \* per payment: the payment id it carries, on the program's route
    paymentId,  \* the payment id in the storage of the tab: 0 if there is none
    lastTx,     \* the transaction in the storage of the tab: 0 if there is none
    verifying,  \* verifications of closed and open panels: asked for, or with a timer
    funded      \* has the transfer left AWAITING_FUNDING? (external)

walletVars == <<route, panel, mounts, drafted, chain, call, from, ident, paymentId, lastTx,
                verifying, funded>>

Payment == 1 .. MaxPayments
Identifier == 0 .. MaxPayments  \* 0: none
Pressed == {n \in Payment : call[n] # "none"}

NewPanel(connected, last) ==
    [open |-> TRUE, connected |-> connected, submitting |-> FALSE, result |-> 0, last |-> last,
     verify |-> "idle"]

Panel == [open : BOOLEAN, connected : BOOLEAN, submitting : BOOLEAN,
          result : Identifier, last : Identifier,
          verify : {"idle", "verifying", "confirmed", "duplicate", "pending", "failed"}]
Verification == [tx : Payment, mount : 1 .. MaxMounts, step : {"asked", "timer"}]

WalletTypeOK ==
    /\ route \in {"base", "address", "program"}
    /\ panel \in Panel
    /\ mounts \in 1 .. MaxMounts /\ drafted \in BOOLEAN
    /\ chain \in [Payment -> {"none", "sent", "landed", "failed"}]
    /\ call \in [Payment -> {"none", "asking", "waiting", "answered", "error", "orphan", "ended"}]
    /\ from \in [Payment -> 0 .. MaxMounts]
    /\ ident \in [Payment -> Identifier] /\ {paymentId, lastTx} \subseteq Identifier
    /\ verifying \subseteq Verification
    /\ funded \in BOOLEAN

WalletInit ==
    /\ route \in {"base", "address", "program"}
    /\ panel = NewPanel(FALSE, 0) /\ mounts = 1 /\ drafted = TRUE
    /\ chain = [n \in Payment |-> "none"] /\ call = [n \in Payment |-> "none"]
    /\ from = [n \in Payment |-> 0] /\ ident = [n \in Payment |-> 0]
    /\ paymentId = 0 /\ lastTx = 0
    /\ verifying = {} /\ funded = FALSE

storage == <<paymentId, lastTx, drafted>>
payments == <<chain, call, from, ident>>

-----------------------------------------------------------------------------
(***************************************************************************)
(* Payments.                                                               *)
(***************************************************************************)
Connect ==
    /\ panel.open /\ ~panel.connected
    /\ panel' = [panel EXCEPT !.connected = TRUE]
    /\ UNCHANGED <<route, mounts, storage, payments, verifying, funded>>

(* Mutated form of PaymentIdOf: each payment has an id of its own. *)
PaymentIdOfNew(n) == n

(* getOrCreatePaymentId *)
PaymentIdOf(n) == IF paymentId # 0 THEN paymentId ELSE n

(* The pay button, disabled while a payment is submitted and after one was. *)
SubmitPayment ==
    /\ panel.open /\ panel.connected /\ ~panel.submitting /\ panel.result = 0
    /\ LET n == Cardinality(Pressed) + 1 IN
       /\ n <= MaxPayments
       /\ call' = [call EXCEPT ![n] = "asking"]
       /\ from' = [from EXCEPT ![n] = mounts]
       /\ IF route = "program"
          THEN paymentId' = PaymentIdOf(n) /\ ident' = [ident EXCEPT ![n] = PaymentIdOf(n)]
          ELSE UNCHANGED <<paymentId, ident>>
    /\ panel' = [panel EXCEPT !.submitting = TRUE]
    /\ UNCHANGED <<route, mounts, lastTx, drafted, chain, verifying, funded>>

Used(n) == \E k \in Payment : chain[k] = "landed" /\ ident[k] = ident[n]

Sent(n) ==
    /\ chain' = [chain EXCEPT ![n] = "sent"]
    /\ call' = [call EXCEPT ![n] = IF @ = "orphan" THEN "ended" ELSE "waiting"]
    /\ UNCHANGED <<route, panel, mounts, storage, from, ident, verifying, funded>>

(* The wallet sends the transaction, and does so after the page is gone. *)
SendBase(n) == route = "base" /\ call[n] \in {"asking", "orphan"} /\ Sent(n)

(* The wallet signs, and the page sends. *)
SendDirect(n) == route = "address" /\ call[n] = "asking" /\ Sent(n)

(* So it does here; the simulation before it refuses an id that was used. *)
SendProgram(n) == route = "program" /\ call[n] = "asking" /\ ~Used(n) /\ Sent(n)

Ends(n, s) ==
    /\ call' = [call EXCEPT ![n] = s]
    /\ panel' = IF from[n] = mounts THEN [panel EXCEPT !.submitting = FALSE] ELSE panel
    /\ UNCHANGED <<route, mounts, storage, chain, from, ident, verifying, funded>>

(* Nothing is sent: no account, no balance, a refusal of the customer. *)
Decline(n) == call[n] = "asking" /\ Ends(n, "error")

(* The transaction failed, or its outcome is not learnt. *)
PaymentFails(n) == call[n] = "waiting" /\ Ends(n, "error")

(* External: a payment id makes one payment account. *)
Land(n) ==
    /\ chain[n] = "sent" /\ (route = "program" => ~Used(n))
    /\ chain' = [chain EXCEPT ![n] = "landed"]
    /\ UNCHANGED <<route, panel, mounts, storage, call, from, ident, verifying, funded>>

Revert(n) ==
    /\ chain[n] = "sent"
    /\ chain' = [chain EXCEPT ![n] = "failed"]
    /\ UNCHANGED <<route, panel, mounts, storage, call, from, ident, verifying, funded>>

-----------------------------------------------------------------------------
(***************************************************************************)
(* usePaymentVerification.                                                 *)
(***************************************************************************)
Check(tx, mount, step) == [tx |-> tx, mount |-> mount, step |-> step]
Timers(m) == {v \in verifying : v.mount = m /\ v.step = "timer"}

(* The panel that made a verification shows its state, if it is still mounted. *)
Shows(m, state) == IF m = mounts THEN [panel EXCEPT !.verify = state] ELSE panel

(* The payment is answered with a transaction, which on Solana is confirmed by
   then, and submitAndVerify stores and verifies it. *)
PaymentAnswered(n) ==
    /\ call[n] = "waiting" /\ (route # "base" => chain[n] = "landed")
    /\ call' = [call EXCEPT ![n] = "answered"]
    /\ lastTx' = n
    /\ verifying' = verifying \cup {Check(n, from[n], "asked")}
    /\ panel' = IF from[n] = mounts
                THEN [panel EXCEPT !.submitting = FALSE, !.result = n, !.last = n, !.verify = "verifying"]
                ELSE panel
    /\ UNCHANGED <<route, mounts, paymentId, drafted, chain, from, ident, funded>>

RetryVerification ==
    /\ panel.open /\ panel.last # 0
    /\ panel.verify \notin {"confirmed", "duplicate", "verifying"}
    /\ verifying' = (verifying \ Timers(mounts)) \cup {Check(panel.last, mounts, "asked")}
    /\ panel' = Shows(mounts, "verifying")
    /\ UNCHANGED <<route, mounts, storage, payments, funded>>

TimerFires(v) ==
    /\ v.step = "timer"
    /\ verifying' = (verifying \ {v}) \cup {Check(v.tx, v.mount, "asked")}
    /\ panel' = Shows(v.mount, "verifying")
    /\ UNCHANGED <<route, mounts, storage, payments, funded>>

Over(v) == verifying' = verifying \ ({v} \cup Timers(v.mount))

(* The answers of core-api.  A payment that is confirmed clears the draft and ends
   the page it was made on, which may be one the customer has left. *)
BackendConfirms(v) ==
    /\ v.step = "asked" /\ chain[v.tx] = "landed" /\ ~funded
    /\ funded' = TRUE /\ drafted' = FALSE
    /\ Over(v)
    /\ \/ panel' = [Shows(v.mount, "confirmed") EXCEPT !.open = FALSE]
       \/ v.mount # mounts /\ UNCHANGED panel
    /\ UNCHANGED <<route, mounts, paymentId, lastTx, payments>>

BackendDuplicate(v) ==
    /\ v.step = "asked" /\ chain[v.tx] = "landed" /\ funded
    /\ Over(v) /\ panel' = Shows(v.mount, "duplicate")
    /\ UNCHANGED <<route, mounts, storage, payments, funded>>

(* Not found yet: the timer is set, of a closed panel as well, for ten minutes. *)
BackendPending(v) ==
    /\ v.step = "asked"
    /\ \/ verifying' = (verifying \ ({v} \cup Timers(v.mount))) \cup {Check(v.tx, v.mount, "timer")}
       \/ Over(v)
    /\ panel' = Shows(v.mount, "pending")
    /\ UNCHANGED <<route, mounts, storage, payments, funded>>

BackendFails(v) ==
    /\ v.step = "asked"
    /\ Over(v) /\ panel' = Shows(v.mount, "failed")
    /\ UNCHANGED <<route, mounts, storage, payments, funded>>

-----------------------------------------------------------------------------
(***************************************************************************)
(* The page.                                                               *)
(***************************************************************************)

(* A watcher finds a payment, *)
WatcherFunds ==
    /\ ~funded /\ \E n \in Payment : chain[n] = "landed"
    /\ funded' = TRUE
    /\ UNCHANGED <<route, panel, mounts, storage, payments, verifying>>

(* and the page learns of it. *)
PollFunded ==
    /\ panel.open /\ funded
    /\ panel' = [panel EXCEPT !.open = FALSE] /\ drafted' = FALSE
    /\ UNCHANGED <<route, mounts, paymentId, lastTx, payments, verifying, funded>>

(* A new panel: it reads the last transaction, and forgets the payment.  The
   connection is of the panel on Base, of the page on Solana. *)
Mount(connected) ==
    /\ panel.open /\ mounts < MaxMounts
    /\ mounts' = mounts + 1
    /\ panel' = NewPanel(connected, lastTx)
    /\ UNCHANGED <<route, storage, chain, from, ident, funded>>

(* Another way to pay is looked at, or the page is left and opened again. *)
Reopen ==
    /\ Mount(panel.connected /\ route # "base")
    /\ verifying' = verifying \ Timers(mounts)
    /\ UNCHANGED call

(* The page is reloaded, with all that it has begun; what the wallet was asked
   for, the wallet may still do. *)
Reload ==
    /\ drafted /\ Mount(FALSE)
    /\ verifying' = {}
    /\ call' = [n \in Payment |->
                   CASE call[n] = "asking" /\ route = "base" -> "orphan"
                     [] call[n] = "asking" /\ route # "base" -> "ended"
                     [] call[n] = "waiting" -> "ended"
                     [] OTHER -> call[n]]

WalletNext ==
    \/ Connect \/ SubmitPayment \/ RetryVerification \/ WatcherFunds \/ PollFunded
    \/ Reopen \/ Reload
    \/ \E n \in Payment : SendBase(n) \/ SendDirect(n) \/ SendProgram(n) \/ Decline(n)
    \/ \E n \in Payment : PaymentFails(n) \/ PaymentAnswered(n) \/ Land(n) \/ Revert(n)
    \/ \E v \in verifying :
          \/ TimerFires(v) \/ BackendConfirms(v) \/ BackendDuplicate(v)
          \/ BackendPending(v) \/ BackendFails(v)

WalletSpec == WalletInit /\ [][WalletNext]_walletVars

-----------------------------------------------------------------------------
(***************************************************************************)
(* Properties                                                              *)
(***************************************************************************)

(* On the program's route the tab pays a transfer once, however often the customer
   presses the button, retries or reloads (remittance-acceptor.ts:71).  On the
   others it pays twice only from two panels, or after an error that left the
   outcome of the first payment open (solana-pay-panel.tsx:79): while a panel
   knows of a payment it makes no other. *)
PaidOnce ==
    \A n, m \in Payment : n < m /\ chain[n] = "landed" /\ chain[m] = "landed" =>
        route # "program" /\ (from[n] # from[m] \/ call[n] = "error")
=============================================================================
