----------------------------- MODULE MCCustomer -----------------------------
(***************************************************************************)
(* The customer's side for TLC: signing in (Session), quotes (FxQuotes),   *)
(* the tab in which a transfer is made (Draft), what the services do for   *)
(* it (Checkout), and its payment with a wallet (Wallet).  They share no   *)
(* state, so a behaviour looks at one of them, which the initial state     *)
(* chooses, and the others stay as they are.                               *)
(*                                                                         *)
(* Checkout is begun in the states that matter to each of its hazards, so  *)
(* that they are not multiplied with each other.                           *)
(***************************************************************************)
EXTENDS Session, Draft, Checkout, FxQuotes, Wallet, TLC

CONSTANTS r1, r2, d1  \* the requests; d1 is sent to the collector's endpoint

VARIABLE part

Symmetry == Permutations(QuoteId) \cup Permutations(RecipientId)

(* The requests of R are to come; the others have been refused. *)
Asking(R) ==
    /\ pc = [r \in Request |-> IF r \in R THEN "unsent" ELSE "answered"]
    /\ answer = [r \in Request |-> Error(IF r \in R THEN None ELSE "refused")]

Verified ==
    /\ kyc = "approved"
    /\ decision = [i \in 1 .. MaxReview |-> "approved"]
    /\ webhook = [i \in 1 .. MaxReview |-> TRUE] /\ applied = 1 .. MaxReview

Unverified ==
    /\ kyc = "pending"
    /\ decision = [i \in {} |-> "pending"] /\ webhook = [i \in {} |-> FALSE] /\ applied = {}

(* Two requests of one key, and a verified customer; one request, while the
   provider decides; one request, while the recipient is edited. *)
CheckoutInit ==
    /\ \/ Verified /\ recipient = [active |-> TRUE, account |-> MaxAccount]
          /\ \E R \in {{r1, r2}, {r1, d1}} : Asking(R)
       \/ Unverified /\ recipient = [active |-> TRUE, account |-> MaxAccount] /\ Asking({r1})
       \/ Verified /\ recipient = [active |-> TRUE, account |-> 1] /\ Asking({r1})
    /\ overtaken = FALSE
    /\ live = Quote /\ made = {}
    /\ payee = [r \in Request |-> {}] /\ owned = [r \in Request |-> {}]
    /\ outer = [s \in Scope |-> [k \in Key |-> Absent]]
    /\ inner = [k \in Key |-> Absent]
    /\ key \in [Request -> Key] /\ quote \in [Request -> Quote]
    /\ unsaved = {} /\ released = {} /\ faults = 0

(* A request that is not sent is for any quote. *)
SameQuote == \A r \in Request : pc[r] = "answered" => quote[r] = quote[r1]

MCInit ==
    /\ part \in {"session", "draft", "checkout", "quotes", "wallet"}
    /\ SessionInit /\ DraftInit /\ CheckoutInit /\ FxInit /\ WalletInit
    /\ SameQuote
    /\ part # "session" => user
    /\ part # "draft" => book = {}
    /\ part # "checkout" => Asking({r1}) /\ kyc = "pending" /\ \A r \in Request : quote[r] = quote[r1]
    /\ part # "quotes" => market \in Rate /\ \A f \in Form, r \in Rate : market <= r /\ form[f].shown = market
    /\ part # "wallet" => route = "base"

MCNext ==
    /\ UNCHANGED part
    /\ \/ part = "session" /\ SessionNext /\ UNCHANGED <<draftVars, vars, fxVars, walletVars>>
       \/ part = "draft" /\ DraftNext /\ UNCHANGED <<sessionVars, vars, fxVars, walletVars>>
       \/ part = "checkout" /\ Next /\ UNCHANGED <<sessionVars, draftVars, fxVars, walletVars>>
       \/ part = "quotes" /\ FxNext /\ UNCHANGED <<sessionVars, draftVars, vars, walletVars>>
       \/ part = "wallet" /\ WalletNext /\ UNCHANGED <<sessionVars, draftVars, vars, fxVars>>

MCSpec == MCInit /\ [][MCNext]_<<part, sessionVars, draftVars, vars, fxVars, walletVars>>
=============================================================================
