------------------------------- MODULE Draft -------------------------------
(***************************************************************************)
(* One tab of the web client, from a quote to the payment of a transfer.   *)
(*                                                                         *)
(* The tab keeps a draft (quote, recipient, transfer) in its session       *)
(* storage: flow-state.ts.  The quote page and the transfer page read it   *)
(* when they are opened and patch it when something happens; what they     *)
(* asked the server for is answered whether or not they are still open.    *)
(*                                                                         *)
(* The transfer page is a React component: what it shows is its own state, *)
(* and the effects of its recipient section run after it was rendered,     *)
(* with the values it was rendered with.                                   *)
(***************************************************************************)
EXTENDS Naturals, FiniteSets

CONSTANTS
    QuoteId,
    RecipientId,
    MaxVisits,     \* bound on the times the transfer page is opened
    MaxOrders,     \* bound on the transfers made
    MaxLost        \* bound on the answers lost to one opening of the page

ASSUME DraftAssumption == {MaxVisits, MaxOrders, MaxLost} \subseteq Nat

VARIABLES
    draft,      \* session storage: the flow draft
    page,       \* the page shown: "quote", "transfer" or "other"
    visit,      \* number of the transfer page opened last
    shown,      \* its state: quote, recipient, transfer, and two flags
    selected,   \* selectedRecipientId of its recipient section
    dirty,      \* it was rendered, and the effects have not run
    book,       \* recipients of the customer
    listed,     \* those in the query cache
    detail,     \* those whose details are in the query cache
    locking,    \* quotes asked for and not answered
    lapsed,     \* quotes that have expired
    calls,      \* creations of transfers asked for and not answered
    orders,     \* transfers made, in order (external)
    paid,       \* transfers the services found funded (external)
    checks,     \* verifications of payments that go on: asked for, or waiting for a timer
    lost        \* per visit: answers lost (history)

draftVars == <<draft, page, visit, shown, selected, dirty, book, listed, detail,
               locking, lapsed, calls, orders, paid, checks, lost>>

Unset == "unset"
Visit == 1 .. MaxVisits
Order == DOMAIN orders

EmptyDraft == [quote |-> Unset, recipient |-> Unset, transfer |-> 0]
Blank == [quote |-> Unset, recipient |-> Unset, transfer |-> 0, pending |-> FALSE, confirmed |-> FALSE]

DraftTypeOK ==
    LET Quotes == QuoteId \cup {Unset}
        Recipients == RecipientId \cup {Unset}
    IN /\ draft \in [quote : Quotes, recipient : Recipients, transfer : Order \cup {0}]
       /\ page \in {"quote", "transfer", "other"}
       /\ visit \in 0 .. MaxVisits
       /\ shown \in [quote : Quotes, recipient : Recipients, transfer : Order \cup {0},
                     pending : BOOLEAN, confirmed : BOOLEAN]
       /\ selected \in Recipients /\ dirty \in BOOLEAN
       /\ book \subseteq RecipientId /\ listed \subseteq book
       /\ detail \subseteq book
       /\ locking \subseteq QuoteId /\ lapsed \subseteq QuoteId
       /\ calls \subseteq [number : 0 .. MaxVisits, visit : Visit, quote : QuoteId, recipient : RecipientId]
       /\ \A t \in Order : orders[t] \in [visit : Visit, quote : QuoteId, recipient : RecipientId]
       /\ paid \subseteq Order
       /\ checks \subseteq [transfer : Order, visit : Visit]
       /\ lost \in [Visit -> 0 .. MaxLost]

DraftInit ==
    /\ draft = EmptyDraft /\ page = "other"
    /\ visit = 0 /\ shown = Blank /\ selected = Unset /\ dirty = FALSE
    /\ book \in SUBSET RecipientId /\ listed = {} /\ detail = {}
    /\ locking = {} /\ lapsed = {}
    /\ calls = {} /\ orders = [t \in {} |-> Unset] /\ paid = {} /\ checks = {}
    /\ lost = [v \in Visit |-> 0]

server == <<book, lapsed, orders, paid, lost>>

-----------------------------------------------------------------------------
(***************************************************************************)
(* Pages.                                                                  *)
(***************************************************************************)

(* A page is left: a verification that waits for its timer is stopped, one that
   was asked for is not. *)
Leave ==
    \/ UNCHANGED checks
    \/ page = "transfer" /\ checks' = {c \in checks : c.visit # visit}

(* The quote page clears a draft whose quote has expired. *)
AtQuotePage(d) ==
    /\ page' = "quote"
    /\ draft' = IF d.quote \in lapsed THEN [d EXCEPT !.quote = Unset, !.transfer = 0] ELSE d
    /\ shown' = Blank /\ selected' = Unset /\ dirty' = FALSE
    /\ UNCHANGED visit

(* The transfer page of a draft without a transfer begins with its recipient
   section, whose first effects find nothing selected: they clear the recipient
   of the draft before the page reads it. *)
AtTransferPage(d) ==
    /\ visit < MaxVisits
    /\ page' = "transfer" /\ visit' = visit + 1
    /\ LET read == IF d.transfer = 0 THEN [d EXCEPT !.recipient = Unset] ELSE d
       IN /\ draft' = read
          /\ shown' = [quote |-> read.quote, recipient |-> read.recipient, transfer |-> read.transfer,
                       pending |-> FALSE, confirmed |-> FALSE]
          /\ dirty' = (d.transfer = 0)
    /\ selected' = Unset

OpenQuote ==
    /\ Leave /\ AtQuotePage(draft)
    /\ UNCHANGED <<listed, detail, locking, calls, server>>

(* RouteGuard sends a tab without a quote to the quote page. *)
OpenTransfer ==
    /\ page # "transfer"
    /\ IF draft.quote = Unset THEN AtQuotePage(draft) ELSE AtTransferPage(draft)
    /\ UNCHANGED <<listed, detail, locking, calls, checks, server>>

OpenOther ==
    /\ page # "other" /\ page' = "other"
    /\ Leave
    /\ shown' = Blank /\ selected' = Unset /\ dirty' = FALSE
    /\ UNCHANGED <<draft, visit, listed, detail, locking, calls, server>>

-----------------------------------------------------------------------------
(***************************************************************************)
(* Quotes: QuoteForm, and HeroConverter on the first page.                 *)
(***************************************************************************)
pageState == <<page, visit, shown, selected, dirty>>

LockQuote(q) ==
    /\ page # "transfer"
    /\ q \notin locking \cup lapsed \cup {draft.quote} \cup {c.quote : c \in calls}
    /\ \A t \in Order : orders[t].quote # q
    /\ locking' = locking \cup {q}
    /\ UNCHANGED <<draft, pageState, listed, detail, calls, checks, server>>

(* Mutated form of Relocked: the draft keeps its transfer. *)
RelockedKeeps(q) == [draft EXCEPT !.quote = q]

Relocked(q) == [draft EXCEPT !.quote = q, !.transfer = 0]

(* The answer patches the draft and opens the transfer page, from whatever page
   the customer is on now; a transfer page that is open stays as it is. *)
QuoteLocked(q) ==
    /\ q \in locking /\ locking' = locking \ {q}
    /\ IF page = "transfer" THEN draft' = Relocked(q) /\ UNCHANGED pageState
                            ELSE AtTransferPage(Relocked(q))
    /\ UNCHANGED <<listed, detail, calls, checks, server>>

QuoteRefused(q) ==
    /\ q \in locking /\ locking' = locking \ {q}
    /\ UNCHANGED <<draft, pageState, listed, detail, calls, checks, server>>

(* The expiry of a quote that the tab has. *)
QuoteExpires(q) ==
    /\ q \in ({draft.quote, shown.quote} \cup {c.quote : c \in calls}) \ lapsed
    /\ lapsed' = lapsed \cup {q}
    /\ UNCHANGED <<draft, pageState, book, listed, detail, locking, calls, orders, paid, checks, lost>>

-----------------------------------------------------------------------------
(***************************************************************************)
(* The recipient section, shown until the page has a transfer.             *)
(***************************************************************************)
Choosing == page = "transfer" /\ shown.transfer = 0

LoadList ==
    /\ page = "transfer" /\ listed # book
    /\ listed' = book
    /\ dirty' = (dirty \/ Choosing)
    /\ UNCHANGED <<draft, page, visit, shown, selected, detail, locking, calls, checks, server>>

(* The details of an entry are asked for when it is selected, and arrive then or
   after the selection has changed. *)
LoadDetail(r) ==
    /\ page = "transfer" /\ r \in book \ detail
    /\ detail' = detail \cup {r}
    /\ dirty' = (dirty \/ (Choosing /\ selected = r))
    /\ UNCHANGED <<draft, page, visit, shown, selected, listed, locking, calls, checks, server>>

(* The customer picks an entry of the list, or "Choose recipient". *)
Select(r) ==
    /\ Choosing /\ r \in listed \cup {Unset} /\ r # selected
    /\ selected' = r /\ dirty' = TRUE
    /\ UNCHANGED <<draft, page, visit, shown, listed, detail, locking, calls, checks, server>>

(* onCreateRecipient. *)
AddRecipient(r) ==
    /\ Choosing /\ r \notin book
    /\ book' = book \cup {r}
    /\ selected' = r /\ dirty' = TRUE
    /\ UNCHANGED <<draft, page, visit, shown, listed, detail, locking, lapsed, calls, orders, paid, checks, lost>>

(* The three effects, of one rendering: the first entry is selected when nothing
   is; the page's recipient is selected when another is; and the details of the
   entry that was selected, or nothing, become the page's recipient and the
   draft's.  Entries selected by the second effect win over the customer's. *)
Effects ==
    /\ page = "transfer" /\ dirty
    /\ LET ready == IF selected \in detail THEN selected ELSE Unset
       IN /\ selected' \in IF shown.recipient \notin {Unset, selected} THEN {shown.recipient}
                           ELSE IF selected = Unset /\ listed # {} THEN listed
                           ELSE {selected}
          /\ shown' = [shown EXCEPT !.recipient = ready]
          /\ draft' = [draft EXCEPT !.recipient = ready, !.transfer = 0]
          /\ dirty' = (shown.transfer = 0 /\ (selected' # selected \/ ready # shown.recipient))
    /\ UNCHANGED <<page, visit, listed, detail, locking, calls, checks, server>>

-----------------------------------------------------------------------------
(***************************************************************************)
(* The creation of the transfer.                                           *)
(***************************************************************************)

Call(n) == [number |-> n, visit |-> visit, quote |-> shown.quote, recipient |-> shown.recipient]

Ready == Choosing /\ shown.recipient # Unset /\ shown.quote # Unset

(* Mutated form of CreateTransfer: the button is not disabled meanwhile. *)
CreateTransferAgain ==
    /\ Ready /\ Cardinality(calls) < 2
    /\ calls' = calls \cup {Call(Cardinality(calls))}
    /\ shown' = [shown EXCEPT !.pending = TRUE] /\ dirty' = TRUE
    /\ UNCHANGED <<draft, page, visit, selected, listed, detail, locking, checks, server>>

(* The call is made for the quote and the recipient shown now, and with an
   idempotency key of its own.  The page is rendered again, now and when the
   call has failed, and so the effects run again. *)
CreateTransfer ==
    /\ Ready /\ ~shown.pending
    /\ calls' = calls \cup {Call(Cardinality(calls))}
    /\ shown' = [shown EXCEPT !.pending = TRUE] /\ dirty' = TRUE
    /\ UNCHANGED <<draft, page, visit, selected, listed, detail, locking, checks, server>>

Made(c) ==
    /\ Cardinality(Order) < MaxOrders
    /\ orders' = [t \in 1 .. Cardinality(Order) + 1 |->
                      IF t \in Order THEN orders[t]
                      ELSE [visit |-> c.visit, quote |-> c.quote, recipient |-> c.recipient]]

Mounted(v) == page = "transfer" /\ visit = v

(* The transfer is shown if the page that asked for it is still open; the draft
   becomes that of the call in any case. *)
Answered(c) ==
    LET t == Cardinality(Order) + 1
    IN /\ c \in calls /\ calls' = calls \ {c}
       /\ Made(c)
       /\ draft' = [quote |-> c.quote, recipient |-> c.recipient, transfer |-> t]
       /\ shown' = IF Mounted(c.visit) THEN [shown EXCEPT !.transfer = t, !.pending = FALSE] ELSE shown
       /\ UNCHANGED <<page, visit, selected, dirty, book, listed, detail, locking, lapsed, paid, checks, lost>>

Settle(c) ==
    /\ c \in calls /\ calls' = calls \ {c}
    /\ shown' = IF Mounted(c.visit) THEN [shown EXCEPT !.pending = FALSE] ELSE shown
    /\ dirty' = (dirty \/ (Mounted(c.visit) /\ Choosing))
    /\ UNCHANGED <<draft, page, visit, selected, book, listed, detail, locking, lapsed, paid, checks>>

CreationRefused(c) == Settle(c) /\ UNCHANGED <<orders, lost>>

(* The transfer was made, and the answer does not arrive. *)
CreationLost(c) ==
    /\ lost[c.visit] < MaxLost
    /\ Settle(c) /\ Made(c)
    /\ lost' = [lost EXCEPT ![c.visit] = @ + 1]

-----------------------------------------------------------------------------
(***************************************************************************)
(* The payment.                                                            *)
(***************************************************************************)
flow == <<page, visit, selected, dirty, listed, detail, locking, calls>>

(* The services find the deposit. *)
Pay(t) ==
    /\ t \in Order \ paid
    /\ paid' = paid \cup {t}
    /\ UNCHANGED <<draft, shown, flow, book, lapsed, orders, checks, lost>>

(* handlePaymentConfirmed, of the page that was opened as number v. *)
Confirmed(v) ==
    /\ shown' = IF Mounted(v) THEN [shown EXCEPT !.confirmed = TRUE] ELSE shown
    /\ draft' = EmptyDraft

(* The page asks for the status of its transfer every three seconds. *)
Poll ==
    /\ page = "transfer" /\ shown.transfer \in paid /\ ~shown.confirmed
    /\ Confirmed(visit)
    /\ UNCHANGED <<flow, checks, server>>

(* submitAndVerify, and retryVerification. *)
Verify ==
    /\ page = "transfer" /\ shown.transfer # 0 /\ ~shown.confirmed
    /\ checks' = checks \cup {[transfer |-> shown.transfer, visit |-> visit]}
    /\ UNCHANGED <<draft, shown, flow, server>>

(* verifyBackend: a payment that is confirmed is, whether or not the page is still
   open. *)
CheckConfirmed(c) ==
    /\ c \in checks /\ c.transfer \in paid
    /\ Confirmed(c.visit) /\ checks' = checks \ {c}
    /\ UNCHANGED <<flow, server>>

(* It ends with a duplicate, an error, or after ten minutes; otherwise the timer
   is set again, for a page that was left as well. *)
CheckEnds(c) ==
    /\ c \in checks /\ checks' = checks \ {c}
    /\ UNCHANGED <<draft, shown, flow, server>>

(* "Start a new transfer". *)
StartNew ==
    /\ page = "transfer" /\ shown.confirmed
    /\ Leave /\ AtQuotePage(EmptyDraft)
    /\ UNCHANGED <<listed, detail, locking, calls, server>>

DraftNext ==
    \/ OpenQuote \/ OpenTransfer \/ OpenOther
    \/ \E q \in QuoteId : LockQuote(q) \/ QuoteLocked(q) \/ QuoteRefused(q) \/ QuoteExpires(q)
    \/ LoadList \/ Effects \/ Select(Unset)
    \/ \E r \in RecipientId : LoadDetail(r) \/ Select(r) \/ AddRecipient(r)
    \/ CreateTransfer
    \/ \E c \in calls : Answered(c) \/ CreationRefused(c) \/ CreationLost(c)
    \/ \E t \in Order : Pay(t)
    \/ Poll \/ Verify \/ StartNew
    \/ \E c \in checks : CheckConfirmed(c) \/ CheckEnds(c)

DraftSpec == DraftInit /\ [][DraftNext]_draftVars

-----------------------------------------------------------------------------
(***************************************************************************)
(* Properties                                                              *)
(***************************************************************************)

(* The transfer of the draft was made for the draft's quote and recipient, and the
   transfer shown for the quote shown: although answers arrive when the
   customer is elsewhere and has chosen again (flow-state.ts:62). *)
DraftConsistent ==
    /\ draft.transfer # 0 =>
          /\ orders[draft.transfer].quote = draft.quote
          /\ orders[draft.transfer].recipient = draft.recipient
    /\ shown.transfer # 0 => orders[shown.transfer].quote = shown.quote

(* Each time the transfer page is opened it makes at most one transfer, plus one
   for every answer that was lost: its calls have different idempotency keys, so
   nothing but the page prevents a second one (transfer/page.tsx:218). *)
OneOrderPerVisit ==
    \A v \in Visit : Cardinality({t \in Order : orders[t].visit = v}) <= 1 + lost[v]
=============================================================================
