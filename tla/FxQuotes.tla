------------------------------ MODULE FxQuotes ------------------------------
(***************************************************************************)
(* Quotes, and the exchange rate they lock.  core-api asks a provider for  *)
(* the rate of USD to ETB and keeps it in a cache of the process.  A form  *)
(* of the web client shows that rate, or one of its own when there is      *)
(* none, and sends the rate it shows with the request for a quote: the     *)
(* rate is compared with core-api's, unless that is unavailable: the       *)
(* provider fails, or its answer, which may be the cached one, does not    *)
(* list ETB.                                                               *)
(*                                                                         *)
(* Rates are integers; time advances in ticks of an hour.                  *)
(***************************************************************************)
EXTENDS Naturals

CONSTANTS
    Rate,
    Unlisted,         \* stands for the rate in an answer that does not list the currency
    Form,             \* forms, each of which asks for one quote
    TolerancePercent, \* FX_RATE_TOLERANCE_PERCENT
    Ttl,              \* FX_RATE_CACHE_TTL_MS
    Stale,            \* how long a rate serves when the provider fails: 24 h
    MaxAge            \* bound: older is not told apart

ASSUME FxAssumption ==
    /\ Rate \subseteq Nat \ {0} /\ Unlisted \notin Rate \cup {0} /\ TolerancePercent \in Nat
    /\ {Ttl, Stale, MaxAge} \subseteq Nat /\ 0 < Ttl /\ Ttl < Stale /\ Stale < MaxAge

VARIABLES
    market,  \* the provider's rate, or Unlisted (external)
    seen,    \* ticks since the provider had a rate, or none, last (history)
    cache,   \* the entry of ExchangeRateApiProvider
    form,    \* per form: the rate it shows, and the call it waits for
    priced   \* quotes, with what backed them when they were made (history)

fxVars == <<market, seen, cache, form, priced>>

FxAnswer == Rate \cup {Unlisted}

NoEntry == [rate |-> 0, age |-> MaxAge]
Entry == [rate : FxAnswer, age : 0 .. MaxAge] \cup {NoEntry}
NoQuote == [rate |-> 0, server |-> 0, age |-> 0]

FormStep == {"open", "fetch", "arrive", "insert", "done"}

FxTypeOK ==
    /\ market \in FxAnswer
    /\ seen \in [FxAnswer -> 0 .. MaxAge]
    /\ cache \in Entry
    /\ form \in [Form -> [step : FormStep, locks : BOOLEAN, shown : Rate,
                          cached : Entry,             \* the entry read before the provider is asked
                          coming : FxAnswer \cup {0}, \* the provider's answer, on its way
                          slow : BOOLEAN,             \* has an hour struck since it was asked?
                          server : FxAnswer \cup {0}, age : 0 .. MaxAge]]
    /\ priced \in [Form -> [rate : Rate, server : FxAnswer \cup {0}, age : 0 .. MaxAge] \cup {NoQuote}]

(* A form shows its fallback, or the rate of a quote it was opened with. *)
FxInit ==
    /\ market \in FxAnswer
    /\ seen = [r \in FxAnswer |-> IF r = market THEN 0 ELSE MaxAge]
    /\ cache = NoEntry
    /\ \E shown \in [Form -> Rate] :
          form = [f \in Form |-> [step |-> "open", locks |-> FALSE, shown |-> shown[f], cached |-> NoEntry,
                                  coming |-> 0, slow |-> FALSE, server |-> 0, age |-> 0]]
    /\ priced = [f \in Form |-> NoQuote]

Within(shown, server) ==
    LET off == IF shown < server THEN server - shown ELSE shown - server
    IN off * 100 <= TolerancePercent * server

(* A form whose call is over. *)
AfterCall(x, s) == [x EXCEPT !.step = s, !.cached = NoEntry, !.coming = 0, !.slow = FALSE]

-----------------------------------------------------------------------------
(* getRate gives form x a rate r: it is shown, or compared with the rate that is
   shown, which a quote is then made at. *)
RateKnown(x, r) ==
    IF ~x.locks THEN [AfterCall(x, "open") EXCEPT !.shown = r]
    ELSE IF Within(x.shown, r) THEN [AfterCall(x, "insert") EXCEPT !.server = r, !.age = seen[r]]
    ELSE AfterCall(x, "done")

(* It throws: the form shows what it did, or a quote is made at that.  There was
   no answer but an entry of this age, or one that does not list the currency. *)
RateUnknown(x, why, age) ==
    IF x.locks THEN [AfterCall(x, "insert") EXCEPT !.server = why, !.age = age]
               ELSE AfterCall(x, "open")

(* getRate, with the answer that fetchRates returns. *)
RateAnswered(x, r) ==
    IF r = Unlisted THEN RateUnknown(x, Unlisted, seen[Unlisted]) ELSE RateKnown(x, r)

(* fetchRates: an entry younger than Ttl answers; otherwise the provider is asked,
   and the entry that was read is kept for the case that it fails. *)
GetRate(f, locks) ==
    /\ form[f].step = "open"
    /\ LET x == [form[f] EXCEPT !.locks = locks] IN
       form' = [form EXCEPT ![f] =
           IF cache.age < Ttl THEN RateAnswered(x, cache.rate)
           ELSE [x EXCEPT !.step = "fetch", !.cached = cache]]
    /\ UNCHANGED <<market, seen, cache, priced>>

LoadRate(f) == GetRate(f, FALSE)
RequestQuote(f) == GetRate(f, TRUE)

(* The provider answers, *)
Respond(f) ==
    /\ form[f].step = "fetch"
    /\ form' = [form EXCEPT ![f].step = "arrive", ![f].coming = market]
    /\ UNCHANGED <<market, seen, cache, priced>>

(* and the answer arrives: it replaces the entry, even one that is newer, whether or
   not it lists the currency. *)
Arrive(f) ==
    /\ form[f].step = "arrive"
    /\ cache' = [rate |-> form[f].coming, age |-> 0]
    /\ form' = [form EXCEPT ![f] = RateAnswered(@, @.coming)]
    /\ UNCHANGED <<market, seen, priced>>

(* Mutated form of FetchFails: an entry serves however old it is. *)
FetchFailsAnyAge(f) ==
    /\ form[f].step \in {"fetch", "arrive"}
    /\ form' = [form EXCEPT ![f] =
          IF @.cached # NoEntry THEN RateAnswered(@, @.cached.rate) ELSE RateUnknown(@, 0, @.cached.age)]
    /\ UNCHANGED <<market, seen, cache, priced>>

(* The call fails: the entry that was read before it serves once more if it is not
   too old, although the cache may hold a newer one by now. *)
FetchFails(f) ==
    /\ form[f].step \in {"fetch", "arrive"}
    /\ form' = [form EXCEPT ![f] =
          IF @.cached.age < Stale THEN RateAnswered(@, @.cached.rate) ELSE RateUnknown(@, 0, @.cached.age)]
    /\ UNCHANGED <<market, seen, cache, priced>>

(* QuoteRepository.insert. *)
InsertQuote(f) ==
    /\ form[f].step = "insert"
    /\ priced' = [priced EXCEPT ![f] = [rate |-> form[f].shown, server |-> form[f].server, age |-> form[f].age]]
    /\ form' = [form EXCEPT ![f].step = "done", ![f].server = 0, ![f].age = 0]
    /\ UNCHANGED <<market, seen, cache>>

(* The amounts are refused, or the insert fails. *)
QuoteNotMade(f) ==
    /\ form[f].step = "insert"
    /\ form' = [form EXCEPT ![f].step = "done", ![f].server = 0, ![f].age = 0]
    /\ UNCHANGED <<market, seen, cache, priced>>

-----------------------------------------------------------------------------
MarketMoves(r) ==
    /\ r # market
    /\ market' = r
    /\ seen' = [seen EXCEPT ![r] = 0]
    /\ UNCHANGED <<cache, form, priced>>

Older(age) == IF age < MaxAge THEN age + 1 ELSE age

(* An hour strikes.  No call to the provider lasts an hour. *)
Tick ==
    /\ \A f \in Form : ~form[f].slow
    /\ seen' = [r \in FxAnswer |-> IF r = market THEN 0 ELSE Older(seen[r])]
    /\ cache' = [cache EXCEPT !.age = Older(@)]
    /\ form' = [f \in Form |->
          [form[f] EXCEPT !.slow = form[f].step \in {"fetch", "arrive"}, !.cached.age = Older(@)]]
    /\ UNCHANGED <<market, priced>>

FxNext ==
    \/ \E f \in Form : LoadRate(f) \/ RequestQuote(f) \/ Respond(f) \/ Arrive(f) \/ FetchFails(f)
    \/ \E f \in Form : InsertQuote(f) \/ QuoteNotMade(f)
    \/ \E r \in FxAnswer : MarketMoves(r)
    \/ Tick

FxSpec == FxInit /\ [][FxNext]_fxVars

-----------------------------------------------------------------------------
(***************************************************************************)
(* Properties                                                              *)
(***************************************************************************)

(* The rate of a quote is within the tolerance of a rate that the provider had
   at most Stale ticks before, although a cached rate ages, an answer is on its
   way for up to an hour and then counts as new, and calls overtake each other.
   There are two exceptions, in which the rate shown is accepted unchecked
   (quotes.ts:97): the provider failed, and the entry that the call had read was
   too old; or the answer, asked for or cached, did not list the currency, as the
   provider did not at most Stale ticks before (exchange-rate-api.ts:28). *)
QuoteBacked ==
    \A f \in Form :
        LET q == priced[f] IN
        q # NoQuote =>
           \/ q.server \in Rate /\ Within(q.rate, q.server) /\ q.age <= Stale
           \/ q.server = Unlisted /\ q.age <= Stale
           \/ q.server = 0 /\ q.age >= Stale
=============================================================================
