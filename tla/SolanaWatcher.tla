--------------------------- MODULE SolanaWatcher ---------------------------
(***************************************************************************)
(* workers/solana-watcher and the two ways a payment on Solana reaches     *)
(* core-api: the watcher reports what it finds, and a customer submits a   *)
(* transaction that offshore-collector's verifier looks up.                *)
(*                                                                         *)
(* A transfer is paid through the program, whose events name it by a       *)
(* reference hash and which pays into the treasury account, or by a plain  *)
(* token transfer to an address of its own.                                *)
(* The watcher lists the newest signatures of the treasury account, then   *)
(* those of every address, and numbers what it finds by transaction and    *)
(* event index.  Its runner is the one of module Watcher: the cursor is    *)
(* saved after all candidates, and every remote call may fail.             *)
(*                                                                         *)
(* Amounts are in base units, Unit of them to a cent.                      *)
(***************************************************************************)
EXTENDS Integers, FiniteSets, Functions, Sequences

CONSTANTS
    Transfer,
    Address,     \* transfers with an address route; the others pay the program
    Stranger,    \* payees of program payments that are no transfers
    Treasury,    \* the account that the transfers of the program share
    Tx,          \* transaction signatures
    Content,     \* what a transaction may hold: [events, credits, units]
    Runner,
    Limit,       \* signatures per request
    Unit,        \* base units per cent
    Expected,    \* send_amount_usd of a new transfer, in cents
    Tolerance,   \* FUNDING_AMOUNT_TOLERANCE_USD, in cents
    OverpayMax,  \* FUNDING_OVERPAY_MAX_AUTO_USD, in cents
    AutoAdjust,  \* FUNDING_OVERPAY_AUTO_ADJUST_ENABLED
    MaxSlot,     \* bound on the slots of a behaviour
    MaxFaults    \* bound on failed calls and crashes in a behaviour

ASSUME SolanaAssumption ==
    /\ Address \subseteq Transfer /\ Stranger \cap Transfer = {} /\ Treasury \notin Transfer
    /\ {Limit, Unit, Expected, Tolerance, OverpayMax} \subseteq Nat \ {0} /\ AutoAdjust \in BOOLEAN
    /\ {MaxSlot, MaxFaults} \subseteq Nat
    /\ \A k \in Content :
          /\ k.events \in Seq((Transfer \ Address) \cup Stranger)
          /\ k.credits \subseteq Address \cup {Treasury} /\ k.units \in Nat \ {0}

VARIABLES
    slot,       \* the last finalized slot (external)
    mined,      \* mined[x]: the slot of transaction x, or 0 (external)
    content,    \* what x holds (external)
    opened,     \* the transfers that exist
    event,      \* onchain_funding_event: the transfer credited, by key
    sendAmount, \* transfers.send_amount_usd, in cents
    rejected,   \* the payments of t by x that were too little or too much, with
                \* the amount expected then (history)
    cursor,     \* watcher_checkpoint.cursor
    seen,       \* watcher_event_dedupe: keys
    reported,   \* payments core-api has processed for the watcher (history)
    missed,     \* payments whose read failed, or beyond Limit (history)
    runner,     \* per runner: its step and the poll in progress
    faults

chainVars == <<slot, mined, content>>
table == <<event, sendAmount, rejected>>
coreVars == <<opened, table>>
storeVars == <<cursor, seen>>
history == <<reported, missed>>
vars == <<chainVars, coreVars, storeVars, history, runner, faults>>

(* A payment in a transaction, and its dedupe key: buildEventKey. *)
Payment == [tx : Tx, index : Nat, to : Transfer \cup Stranger, byProgram : BOOLEAN]
Key(p) == <<p.tx, p.index>>

Programmed(x) ==
    {[tx |-> x, index |-> i - 1, to |-> content[x].events[i], byProgram |-> TRUE] :
        i \in DOMAIN content[x].events}

(* A credit of an address is always numbered 0. *)
Credited(x) ==
    {[tx |-> x, index |-> 0, to |-> t, byProgram |-> FALSE] :
        t \in content[x].credits \ {Treasury}}

Payments(x) == Programmed(x) \cup Credited(x)
AllPayments == UNION {Payments(x) : x \in Tx}

Step == {"idle", "treasury", "routes", "addresses", "next", "publish", "mark", "save", "reload"}
Nobody == [tx |-> "none"]

TypeOK ==
    /\ slot \in 0 .. MaxSlot
    /\ mined \in [Tx -> 0 .. MaxSlot]
    /\ content \in [Tx -> Content]
    /\ opened \subseteq Transfer
    /\ DOMAIN event \subseteq Tx \X Nat /\ \A k \in DOMAIN event : event[k] \in opened
    /\ sendAmount \in [Transfer -> Nat]
    /\ rejected \subseteq [t : Transfer, tx : Tx, expected : Nat]
    /\ cursor \in 0 .. slot
    /\ seen \subseteq {Key(p) : p \in AllPayments}
    /\ reported \subseteq AllPayments /\ missed \subseteq AllPayments
    /\ runner \in [Runner ->
          [step : Step, from : 0 .. slot, to : 0 .. slot, routes : SUBSET Address,
           queue : SUBSET AllPayments, at : AllPayments \cup {Nobody}, initial : BOOLEAN]]
    /\ faults \in 0 .. MaxFaults

(* Nothing has been paid, and the watcher starts. *)
Fresh ==
    /\ event = [k \in {} |-> "none"]
    /\ sendAmount = [t \in Transfer |-> Expected] /\ rejected = {}
    /\ cursor = 0 /\ seen = {} /\ reported = {} /\ missed = {}
    /\ runner = [w \in Runner |->
          [step |-> "idle", from |-> 0, to |-> 0, routes |-> {}, queue |-> {},
           at |-> Nobody, initial |-> TRUE]]
    /\ faults = 0

Init ==
    /\ slot = 0
    /\ mined = [x \in Tx |-> 0]
    /\ content \in [Tx -> Content]
    /\ opened = {}
    /\ Fresh

-----------------------------------------------------------------------------
(***************************************************************************)
(* The chain, and the creation of transfers.                               *)
(***************************************************************************)

(* persistTransferWithRoute, with the route generateAddress made. *)
OpenRoute(t) ==
    /\ t \notin opened
    /\ opened' = opened \cup {t}
    /\ UNCHANGED <<chainVars, table, storeVars, history, runner, faults>>

(* The transfers that x pays.  It is included in the slot after the last
   finalized one. *)
Paid(x) == (Range(content[x].events) \ Stranger) \cup (content[x].credits \ {Treasury})

Mine(x) ==
    /\ mined[x] = 0 /\ slot < MaxSlot
    /\ Paid(x) \subseteq opened
    /\ mined' = [mined EXCEPT ![x] = slot + 1]
    /\ UNCHANGED <<slot, content, coreVars, storeVars, history, runner, faults>>

NextSlot ==
    /\ slot < MaxSlot
    /\ slot' = slot + 1
    /\ UNCHANGED <<mined, content, coreVars, storeVars, history, runner, faults>>

Final(x) == mined[x] \in 1 .. slot

-----------------------------------------------------------------------------
(***************************************************************************)
(* core-api: applyFundingConfirmation (module Funding has the submissions, *)
(* the outbox event and the sweep it writes).  The amount is rounded to    *)
(* cents, a half cent either way as its binary value lies, and compared in *)
(* binary floating point: when the tolerance is met exactly, the result    *)
(* may be either.                                                          *)
(***************************************************************************)
Cents(units) == {c \in 0 .. units : 2 * (c * Unit - units) \in -Unit .. Unit}

(* Does n exceed m by more than the tolerance? *)
Exceeds(n, m) == IF n = m + Tolerance THEN BOOLEAN ELSE {n > m + Tolerance}

(* Mutated form of Underpaid: the tolerance is granted to the rounded amount
   and to the difference. *)
UnderpaidTwice(c, expected) == {c + 2 * Tolerance < expected}

Underpaid(c, expected) == Exceeds(expected, c)

IsFunded(t) == \E k \in DOMAIN event : event[k] = t

(* Mutated form of Taken: unique (chain, tx_hash). *)
TakenByTx(k) == \E j \in DOMAIN event : j[1] = k[1]

(* unique (chain, tx_hash, log_index) *)
Taken(k) == k \in DOMAIN event

(* amount_underpaid, amount_over_limit: the transfer goes on waiting. *)
Reject(t, x) ==
    /\ rejected' = rejected \cup {[t |-> t, tx |-> x, expected |-> sendAmount[t]]}
    /\ UNCHANGED <<event, sendAmount>>

(* The payment with key k is enough for t: an overpayment, which has `more` than
   was expected, raises the amount to send to the c cents received, even when
   the key is a duplicate. *)
Accept(t, k, c, more) ==
    /\ sendAmount' = IF more THEN [sendAmount EXCEPT ![t] = c] ELSE sendAmount
    /\ event' = IF Taken(k) THEN event
                ELSE [j \in DOMAIN event \cup {k} |-> IF j = k THEN t ELSE event[j]]
    /\ UNCHANGED rejected

(* A payment with key k is confirmed for t. *)
Record(t, k) ==
    IF IsFunded(t) THEN UNCHANGED table
    ELSE \E c \in Cents(content[k[1]].units) :
         \E over \in Exceeds(c, OverpayMax), short \in Underpaid(c, sendAmount[t]),
            more \in Exceeds(c, sendAmount[t]) :
               IF over \/ short \/ (more /\ ~AutoAdjust) THEN Reject(t, k[1])
               ELSE Accept(t, k, c, more)

(* findDecodedPayInstruction: the reference in the first pay instruction of x,
   if there is one. *)
PayInstruction(x) == IF content[x].events = <<>> THEN {} ELSE {content[x].events[1]}

(* verifyDirectSplTransfer: the balance of the account that is to receive the
   payment has grown, the treasury's for all transfers of the program. *)
DirectTransfer(t, x) == (IF t \in Address THEN t ELSE Treasury) \in content[x].credits

(* SolanaPaymentVerificationService.verify of a final transaction.  Routes to
   an address are not looked up in the program. *)
Verifies(t, x) ==
    IF t \in Address \/ PayInstruction(x) = {}
    THEN DirectTransfer(t, x)
    ELSE t \in PayInstruction(x)

(* The customer of t submits a transaction, any transaction. *)
Submit(t, x) ==
    /\ t \in opened
    /\ Final(x) /\ Verifies(t, x)
    /\ Record(t, <<x, 0>>)
    /\ UNCHANGED <<chainVars, opened, storeVars, history, runner, faults>>

-----------------------------------------------------------------------------
(***************************************************************************)
(* The runner.                                                             *)
(***************************************************************************)
At(w, s) == runner[w].step = s
Goto(w, s) == runner' = [runner EXCEPT ![w].step = s]
InRange(w, x) == mined[x] > runner[w].from /\ Final(x)

(* getSlot, with commitment "finalized". *)
ReadSlot(w) ==
    LET r == runner[w] IN
    /\ At(w, "idle")
    /\ runner' = [runner EXCEPT ![w] =
         IF slot <= r.from THEN [r EXCEPT !.step = "save", !.to = r.from]
                           ELSE [r EXCEPT !.step = "treasury", !.to = slot]]
    /\ UNCHANGED <<chainVars, coreVars, storeVars, history, faults>>

(* The answers getSignaturesForAddress may give when X are the transactions of
   an account: the newest Limit. *)
Newest(X) ==
    {S \in SUBSET X :
       /\ Cardinality(S) = IF Cardinality(X) < Limit THEN Cardinality(X) ELSE Limit
       /\ \A x \in S, y \in X \ S : mined[x] >= mined[y]}

(* The candidates found in transactions S of the account of payments P, when
   the time or the content of those in D cannot be read. *)
Found(w, P, S, D) == {p \in P : p.tx \in S \ D /\ InRange(w, p.tx)}
Overlooked(w, P, S, D) == {p \in P : p.tx \notin S \ D /\ mined[p.tx] \in runner[w].from + 1 .. runner[w].to}
Reads(D) ==
    /\ D # {} => faults < MaxFaults
    /\ faults' = IF D = {} THEN faults ELSE faults + 1

(* pollProgramPayments: one treasury account. *)
ReadTreasury(w) ==
    LET P == UNION {Programmed(x) : x \in {y \in Tx : Final(y)}}
        X == {x \in Tx : Final(x) /\ (content[x].events # <<>> \/ Treasury \in content[x].credits)}
    IN
    /\ At(w, "treasury")
    /\ \E S \in Newest(X) : \E D \in SUBSET S :
          /\ Reads(D)
          /\ missed' = missed \cup Overlooked(w, P, S, D)
          /\ runner' = [runner EXCEPT ![w].step = "routes", ![w].queue = Found(w, P, S, D)]
    /\ UNCHANGED <<chainVars, coreVars, storeVars, reported>>

(* GET /internal/v1/watchers/routes. *)
ListRoutes(w) ==
    /\ At(w, "routes")
    /\ runner' = [runner EXCEPT ![w].step = "addresses", ![w].routes = opened \cap Address]
    /\ UNCHANGED <<chainVars, coreVars, storeVars, history, faults>>

(* pollLegacyRouteAddresses: the signatures of each listed address.  Poll then
   leaves out a credit with the key of an event. *)
ReadAddresses(w) ==
    LET r == runner[w]
        P(t) == {p \in AllPayments : ~p.byProgram /\ p.to = t /\ Final(p.tx)}
    IN
    /\ At(w, "addresses")
    /\ \E S \in [r.routes -> SUBSET Tx], D \in SUBSET Tx :
          /\ \A t \in r.routes : S[t] \in Newest({p.tx : p \in P(t)})
          /\ D \subseteq UNION {S[t] : t \in r.routes}
          /\ Reads(D)
          /\ missed' = missed \cup UNION {Overlooked(w, P(t), S[t], D) : t \in r.routes}
          /\ runner' = [runner EXCEPT ![w].step = "next", ![w].routes = {},
               ![w].queue = @ \cup {p \in UNION {Found(w, P(t), S[t], D) : t \in r.routes} :
                                      \A q \in r.queue : Key(q) # Key(p)}]
    /\ UNCHANGED <<chainVars, coreVars, storeVars, reported>>

(* The next candidate, those of the program first, *)
Candidates(w) ==
    {p \in runner[w].queue : p.byProgram \/ \A q \in runner[w].queue : ~q.byProgram}

(* unless its key was seen: POST dedupe/check. *)
Seen(p) == Key(p) \in seen

(* Mutated form of Check: the key is marked when it is looked up. *)
CheckMarks(w) ==
    /\ At(w, "next")
    /\ \E p \in Candidates(w) :
          /\ seen' = seen \cup {Key(p)}
          /\ runner' = [runner EXCEPT ![w] =
               IF Seen(p) THEN [runner[w] EXCEPT !.queue = @ \ {p}]
                          ELSE [runner[w] EXCEPT !.step = "publish", !.at = p]]
    /\ UNCHANGED <<chainVars, coreVars, cursor, history, faults>>

Check(w) ==
    /\ At(w, "next")
    /\ \E p \in Candidates(w) :
          runner' = [runner EXCEPT ![w] =
            IF Seen(p) THEN [runner[w] EXCEPT !.queue = @ \ {p}]
                       ELSE [runner[w] EXCEPT !.step = "publish", !.at = p]]
    /\ UNCHANGED <<chainVars, coreVars, storeVars, history, faults>>

Complete(w) ==
    /\ At(w, "next") /\ runner[w].queue = {}
    /\ Goto(w, "save")
    /\ UNCHANGED <<chainVars, coreVars, storeVars, history, faults>>

Done(r) == [r EXCEPT !.step = "next", !.queue = @ \ {r.at}, !.at = Nobody]
Failed(r) ==
    [r EXCEPT !.step = "idle", !.queue = {}, !.routes = {}, !.at = Nobody, !.initial = FALSE]

(* The transfers POST resolve-solana-payment and POST resolve-route find: by the
   reference hash of a program's event, and by the address credited. *)
ResolvePayment(p) == {t \in opened \ Address : p.byProgram /\ p.to = t}
ResolveRoute(p) == {t \in opened \cap Address : ~p.byProgram /\ p.to = t}
Matches(p) == ResolvePayment(p) \cup ResolveRoute(p)

(* A reference hash of no transfer. *)
RouteNotFound(w) ==
    /\ At(w, "publish") /\ Matches(runner[w].at) = {}
    /\ runner' = [runner EXCEPT ![w] = Done(@)]
    /\ UNCHANGED <<chainVars, coreVars, storeVars, history, faults>>

(* The transfer is resolved, and funding-confirmed processes the payment. *)
Deliver(w) ==
    LET p == runner[w].at IN
    /\ At(w, "publish")
    /\ \E t \in Matches(p) : Record(t, Key(p))
    /\ reported' = reported \cup {p}
    /\ Goto(w, "mark")
    /\ UNCHANGED <<chainVars, opened, storeVars, missed, faults>>

(* The answer is lost. *)
DeliverFails(w) ==
    LET p == runner[w].at IN
    /\ At(w, "publish") /\ faults < MaxFaults
    /\ faults' = faults + 1
    /\ \E t \in Matches(p) : Record(t, Key(p))
    /\ reported' = reported \cup {p}
    /\ runner' = [runner EXCEPT ![w] = Failed(@)]
    /\ UNCHANGED <<chainVars, opened, storeVars, missed>>

Mark(w) ==
    /\ At(w, "mark")
    /\ seen' = seen \cup {Key(runner[w].at)}
    /\ runner' = [runner EXCEPT ![w] = Done(@)]
    /\ UNCHANGED <<chainVars, coreVars, cursor, history, faults>>

(* Mutated form of Save: the slot is read again. *)
SaveLatest(w) ==
    /\ At(w, "save")
    /\ cursor' = slot
    /\ Goto(w, "reload")
    /\ UNCHANGED <<chainVars, coreVars, seen, history, faults>>

(* The poll at start-up does not read the cursor back. *)
Save(w) ==
    /\ At(w, "save")
    /\ cursor' = runner[w].to
    /\ runner' = [runner EXCEPT ![w] =
         [@ EXCEPT !.step = IF runner[w].initial THEN "idle" ELSE "reload", !.initial = FALSE]]
    /\ UNCHANGED <<chainVars, coreVars, seen, history, faults>>

Reload(w) ==
    /\ At(w, "reload")
    /\ runner' = [runner EXCEPT ![w].step = "idle", ![w].from = cursor]
    /\ UNCHANGED <<chainVars, coreVars, storeVars, history, faults>>

(* A call of the node fails, and the poll ends. *)
RpcFails(w) ==
    /\ faults < MaxFaults /\ runner[w].step \in {"treasury", "addresses"}
    /\ faults' = faults + 1
    /\ runner' = [runner EXCEPT ![w] = Failed(@)]
    /\ UNCHANGED <<chainVars, coreVars, storeVars, history>>

(* A call of core-api fails, before or after it took effect. *)
StoreFails(w) ==
    LET r == runner[w] IN
    /\ faults < MaxFaults /\ r.step \in {"routes", "next", "publish", "mark", "save", "reload"}
    /\ faults' = faults + 1
    /\ cursor' \in IF r.step = "save" THEN {cursor, r.to} ELSE {cursor}
    /\ seen' \in IF r.step = "mark" THEN {seen, seen \cup {Key(r.at)}} ELSE {seen}
    /\ runner' = [runner EXCEPT ![w] = Failed(@)]
    /\ UNCHANGED <<chainVars, coreVars, history>>

(* The process dies, and its successor starts from the stored cursor. *)
Restart(w) ==
    /\ faults < MaxFaults
    /\ faults' = faults + 1
    /\ runner' = [runner EXCEPT ![w] = [Failed(@) EXCEPT !.from = cursor, !.initial = TRUE]]
    /\ UNCHANGED <<chainVars, coreVars, storeVars, history>>

-----------------------------------------------------------------------------
Work(w) ==
    \/ ReadSlot(w) \/ ReadTreasury(w) \/ ListRoutes(w) \/ ReadAddresses(w)
    \/ Check(w) \/ Complete(w) \/ RouteNotFound(w) \/ Deliver(w)
    \/ Mark(w) \/ Save(w) \/ Reload(w)

Next ==
    \/ \E t \in Transfer : OpenRoute(t)
    \/ \E x \in Tx : Mine(x)
    \/ NextSlot
    \/ \E t \in Transfer, x \in Tx : Submit(t, x)
    \/ \E w \in Runner : Work(w) \/ DeliverFails(w) \/ RpcFails(w) \/ StoreFails(w) \/ Restart(w)

Spec == Init /\ [][Next]_vars

(* The ticker keeps starting polls, and every call ends. *)
FairSpec == Spec /\ \A w \in Runner : WF_vars(Work(w))

-----------------------------------------------------------------------------
(***************************************************************************)
(* Properties                                                              *)
(***************************************************************************)

(* Another payment of the same transaction has the same key. *)
Shadowed(p) == \E q \in Payments(p.tx) : q # p /\ Key(q) = Key(p)

(* The cursor never passes a payment to a transfer that core-api has not been
   told of, but for what the source passes over: reads that failed, signatures
   beyond the limit, and payments that share their key with another one. *)
CursorSafe ==
    \A p \in AllPayments :
        p.to \in Transfer /\ mined[p.tx] \in 1 .. cursor
            => p \in reported \cup missed \/ Shadowed(p)

(* x pays into the treasury without a call of the program: verifyDirectSplTransfer
   takes that for a payment of whichever program transfer it is asked about. *)
Unnamed(x) == Treasury \in content[x].credits /\ content[x].events = <<>>

(* What the watcher has reported has funded its transfer, unless the amount was
   refused, by the watcher's report or by the customer's.  There is one other
   exception: the payment is numbered 0, and its key has funded another transfer,
   one that the same transaction pays, or, when the transaction also pays into the
   treasury and names no transfer, any transfer of the program whose customer
   submitted it. *)
ReportedIsFunded ==
    \A p \in reported :
        \/ IsFunded(p.to)
        \/ \E r \in rejected : r.t = p.to /\ r.tx = p.tx
        \/ /\ p.index = 0 /\ Key(p) \in DOMAIN event
           /\ event[Key(p)] \in Paid(p.tx) \/ (event[Key(p)] \notin Address /\ Unnamed(p.tx))

(* Is a payment less, or more, than n cents by the tolerance, less the half cent
   of the rounding?  Is it as much as n cents, or no more, within the tolerance
   and half a cent? *)
MuchLess(units, n) == 2 * (n * Unit - units) >= (2 * Tolerance - 1) * Unit
MuchMore(units, n) == 2 * (units - n * Unit) >= (2 * Tolerance - 1) * Unit
AtLeast(units, n) == 2 * (n * Unit - units) <= (2 * Tolerance + 1) * Unit
AtMost(units, n) == 2 * (units - n * Unit) <= (2 * Tolerance + 1) * Unit

(* The amounts (repository.ts:113, 155, 204), although the amount expected rises
   while a transfer waits: a payment is refused only when it is short of what was
   expected then by the tolerance less half a cent, or as much above the limit, or
   above what was expected when overpayments are not accepted.  What a funded
   transfer sends differs from the payment that funded it by no more than the
   tolerance and half a cent, and that payment was within the limit. *)
ToleranceHonoured ==
    /\ \A r \in rejected :
          LET units == content[r.tx].units IN
          \/ MuchLess(units, r.expected)
          \/ MuchMore(units, OverpayMax)
          \/ ~AutoAdjust /\ MuchMore(units, r.expected)
    /\ \A k \in DOMAIN event :
          LET units == content[k[1]].units
              sent == sendAmount[event[k]] IN
          AtLeast(units, sent) /\ AtMost(units, sent) /\ AtMost(units, OverpayMax)

(* Every final payment is reported in the end, over failed calls and crashes,
   with the exceptions of CursorSafe. *)
EveryPaymentReported ==
    \A x \in Tx :
        Final(x) ~> \A p \in Payments(x) :
                       p.to \in Stranger \/ p \in reported \cup missed \/ Shadowed(p)
=============================================================================
