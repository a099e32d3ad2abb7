--------------------------- MODULE CustomerProofs ---------------------------
(***************************************************************************)
(* Proofs about the customer's side, one section per module: quotes        *)
(* (FxQuotes), the creation of transfers (Checkout), the tab of the web    *)
(* client (Draft), signing in (Session), and paying with a wallet          *)
(* (Wallet).  The modules share no state, and each section proves its own  *)
(* specification, for every value of the constants.                        *)
(***************************************************************************)
EXTENDS Session, Draft, Checkout, FxQuotes, Wallet, FiniteSetTheorems, TLAPS

-----------------------------------------------------------------------------
(*****************************************************************************)
(* FxQuotes: what backs a quote.                                            *)
(*                                                                          *)
(* A quote is inserted for the rate its form was shown. What is remembered  *)
(* of the provider on the way there, in the cache, in a form that waits     *)
(* for the provider or for its answer, is never older than its age says by  *)
(* more than the hour that may strike while an answer is on its way         *)
(* (Traced), and so the age that is compared with the limits bounds how     *)
(* long ago the provider had the rate.                                      *)
(*****************************************************************************)

(* What is known of the provider when a rate is used: the age of an entry is at
   most an hour off, because its answer was on its way for no longer. *)
Traced(e) == e # NoEntry => seen[e.rate] <= e.age + 1

(* The quote that form x asks for is backed. *)
Backed(x) ==
    \/ x.server \in Rate /\ Within(x.shown, x.server) /\ x.age <= Stale
    \/ x.server = Unlisted /\ x.age <= Stale
    \/ x.server = 0 /\ x.age >= Stale

(* The inductive invariant. *)
FxInv ==
    /\ FxTypeOK
    /\ seen[market] = 0
    /\ Traced(cache)
    /\ \A f \in Form :
          /\ Traced(form[f].cached)
          /\ form[f].step = "arrive" =>
                form[f].coming # 0 /\ seen[form[f].coming] <= (IF form[f].slow THEN 1 ELSE 0)
          /\ form[f].step = "insert" => Backed(form[f])
    /\ QuoteBacked

(* The limits are in order. *)
LEMMA FxBounds ==
  /\ Ttl \in Nat /\ Stale \in Nat /\ MaxAge \in Nat
  /\ 0 < Ttl /\ Ttl < Stale /\ Stale < MaxAge
  /\ \A r \in Rate : r \in Nat /\ r # 0 /\ r # Unlisted
  /\ Unlisted # 0
  BY FxAssumption

(* An hour makes an age one greater, up to the greatest. *)
LEMMA OlderBounds ==
  ASSUME NEW n \in 0 .. MaxAge
  PROVE  /\ Older(n) \in 0 .. MaxAge
         /\ Older(n) <= n + 1
         /\ n = MaxAge \/ Older(n) = n + 1
  BY FxBounds DEF Older

(* What a rate or its absence makes of a form that waits for it. *)
FormRow == [step : FormStep, locks : BOOLEAN, shown : Rate, cached : Entry,
            coming : FxAnswer \cup {0}, slow : BOOLEAN, server : FxAnswer \cup {0}, age : 0 .. MaxAge]

LEMMA KnownForm ==
  ASSUME FxTypeOK, NEW x \in FormRow, NEW r \in Rate, seen[r] <= Stale
  PROVE  /\ RateKnown(x, r) \in FormRow
         /\ RateKnown(x, r).step # "arrive" /\ RateKnown(x, r).cached = NoEntry
         /\ RateKnown(x, r).step = "insert" => Backed(RateKnown(x, r))
  <1> USE FxBounds DEF FormRow, FormStep, AfterCall, Entry, FxAnswer
  <1>1. CASE ~x.locks
    BY <1>1 DEF RateKnown
  <1>2. CASE x.locks /\ Within(x.shown, r)
    <2>1. RateKnown(x, r) = [AfterCall(x, "insert") EXCEPT !.server = r, !.age = seen[r]]
      BY <1>2 DEF RateKnown
    <2>2. seen[r] \in 0 .. MaxAge
      BY DEF FxTypeOK
    <2> QED BY <1>2, <2>1, <2>2 DEF Backed
  <1>3. CASE x.locks /\ ~Within(x.shown, r)
    BY <1>3 DEF RateKnown
  <1> QED BY <1>1, <1>2, <1>3

(* Without a rate, the quote is backed by nothing: the entry read before is too old,
   or the answer does not list the currency. *)
LEMMA UnknownForm ==
  ASSUME NEW x \in FormRow, NEW why \in {0, Unlisted}, NEW age \in 0 .. MaxAge,
         IF why = 0 THEN age >= Stale ELSE age <= Stale
  PROVE  /\ RateUnknown(x, why, age) \in FormRow
         /\ RateUnknown(x, why, age).step # "arrive" /\ RateUnknown(x, why, age).cached = NoEntry
         /\ RateUnknown(x, why, age).step = "insert" => Backed(RateUnknown(x, why, age))
  <1> USE FxBounds DEF FormRow, FormStep, AfterCall, Entry, NoEntry, FxAnswer
  <1>1. CASE x.locks
    <2>1. RateUnknown(x, why, age) = [AfterCall(x, "insert") EXCEPT !.server = why, !.age = age]
      BY <1>1 DEF RateUnknown
    <2> QED BY <2>1 DEF Backed
  <1>2. CASE ~x.locks
    BY <1>2 DEF RateUnknown
  <1> QED BY <1>1, <1>2

(* What an answer makes of a form that waits for it. *)
LEMMA AnsweredForm ==
  ASSUME FxTypeOK, NEW x \in FormRow, NEW r \in FxAnswer, seen[r] <= Stale
  PROVE  /\ RateAnswered(x, r) \in FormRow
         /\ RateAnswered(x, r).step # "arrive" /\ RateAnswered(x, r).cached = NoEntry
         /\ RateAnswered(x, r).step = "insert" => Backed(RateAnswered(x, r))
  <1>1. CASE r = Unlisted
    <2>1. seen[Unlisted] \in 0 .. MaxAge
      BY DEF FxTypeOK, FxAnswer
    <2> QED BY <1>1, <2>1, FxBounds, UnknownForm DEF RateAnswered
  <1>2. CASE r # Unlisted
    BY <1>2, KnownForm DEF RateAnswered, FxAnswer
  <1> QED BY <1>1, <1>2

(* The initial states satisfy the invariant. *)
LEMMA FxInitInv == FxInit => FxInv
  <1> SUFFICES ASSUME FxInit PROVE FxInv
    OBVIOUS
  <1> USE FxBounds DEF FxInit
  <1>1. FxTypeOK
    BY DEF FxTypeOK, FormStep, Entry, NoEntry, NoQuote, FxAnswer
  <1>2. seen[market] = 0
    OBVIOUS
  <1> QED BY <1>1, <1>2 DEF FxInv, Traced, QuoteBacked

(* A step that gives form f the row x, and the cache a traced entry. *)
LEMMA FormStepInv ==
  ASSUME FxInv, NEW f \in Form, NEW x \in FormRow, form' = [form EXCEPT ![f] = x],
         UNCHANGED <<market, seen, priced>>, cache' \in Entry, Traced(cache)',
         Traced(x.cached),
         x.step = "arrive" => x.coming # 0 /\ seen[x.coming] <= (IF x.slow THEN 1 ELSE 0),
         x.step = "insert" => Backed(x)
  PROVE  FxInv'
  <1>1. FxTypeOK'
    BY DEF FxInv, FxTypeOK, FormRow
  <1>2. \A g \in Form : form'[g] = IF g = f THEN x ELSE form[g]
    BY DEF FxInv, FxTypeOK
  <1> QED BY <1>1, <1>2 DEF FxInv, Traced, Backed, QuoteBacked

(* Every step keeps it: one step of the proof per action. *)
LEMMA FxNextInv == FxInv /\ [FxNext]_fxVars => FxInv'
  <1> SUFFICES ASSUME FxInv, [FxNext]_fxVars PROVE FxInv'
    OBVIOUS
  <1> USE FxBounds
  <1>0. FxTypeOK /\ \A f \in Form : form[f] \in FormRow
    BY DEF FxInv, FxTypeOK, FormRow
  <1>1. ASSUME NEW f \in Form, NEW b \in BOOLEAN, GetRate(f, b) PROVE FxInv'
    <2> DEFINE x == [form[f] EXCEPT !.locks = b]
    <2>1. x \in FormRow /\ cache \in Entry
      BY <1>0 DEF FormRow, FxTypeOK
    <2>2. CASE cache.age < Ttl
      <3>1. cache # NoEntry
        BY <2>2 DEF NoEntry
      <3>2. cache.rate \in FxAnswer /\ cache.age \in Nat
        BY <2>1, <3>1 DEF Entry
      <3>3. seen[cache.rate] <= Stale
        <4>1. seen[cache.rate] \in Nat
          BY <1>0, <3>2 DEF FxTypeOK
        <4> QED BY <2>2, <3>1, <3>2, <4>1 DEF FxInv, Traced
      <3> HIDE DEF x
      <3>4. /\ RateAnswered(x, cache.rate) \in FormRow
            /\ RateAnswered(x, cache.rate).step # "arrive" /\ RateAnswered(x, cache.rate).cached = NoEntry
            /\ RateAnswered(x, cache.rate).step = "insert" => Backed(RateAnswered(x, cache.rate))
        BY <1>0, <2>1, <3>2, <3>3, AnsweredForm
      <3>5. form' = [form EXCEPT ![f] = RateAnswered(x, cache.rate)]
        BY <1>1, <2>2 DEF GetRate, x
      <3> DEFINE y == RateAnswered(x, cache.rate)
      <3>6. Traced(y.cached)
        BY <3>4 DEF Traced
      <3>7. UNCHANGED <<market, seen, priced>> /\ cache' \in Entry /\ Traced(cache)'
        BY <1>1, <2>1 DEF GetRate, FxInv, Traced
      <3> HIDE DEF y
      <3> QED BY <3>4, <3>5, <3>6, <3>7, FormStepInv DEF y
    <2>3. CASE ~(cache.age < Ttl)
      <3> DEFINE y == [x EXCEPT !.step = "fetch", !.cached = cache]
      <3>1. y \in FormRow /\ y.step = "fetch" /\ y.cached = cache
        BY <2>1 DEF FormRow, FormStep
      <3>2. form' = [form EXCEPT ![f] = y]
        BY <1>1, <2>3 DEF GetRate
      <3>3. UNCHANGED <<market, seen, cache, priced>> /\ cache' \in Entry /\ Traced(cache)
        BY <1>1, <2>1 DEF GetRate, FxInv
      <3>4. Traced(cache)'
        BY <3>3 DEF Traced
      <3> HIDE DEF y
      <3> QED BY <3>1, <3>2, <3>3, <3>4, FormStepInv
    <2> QED BY <2>2, <2>3
  <1>2. ASSUME NEW f \in Form, Respond(f) PROVE FxInv'
    <2> DEFINE y == [form[f] EXCEPT !.step = "arrive", !.coming = market]
    <2>1. y \in FormRow /\ y.step = "arrive" /\ y.cached = form[f].cached /\ y.coming = market
      BY <1>0 DEF FormRow, FormStep, FxTypeOK
    <2>2. form' = [form EXCEPT ![f] = y]
      BY <1>2 DEF Respond
    <2>3. UNCHANGED <<market, seen, cache, priced>> /\ cache' \in Entry /\ Traced(cache)
      BY <1>0, <1>2 DEF Respond, FxInv, FxTypeOK
    <2>4. Traced(cache)' /\ Traced(y.cached)
      BY <2>1, <2>3 DEF FxInv, Traced
    <2>5. y.coming # 0 /\ seen[y.coming] <= (IF y.slow THEN 1 ELSE 0)
      BY <1>0, <2>1 DEF FxInv, FxTypeOK, FxAnswer
    <2> HIDE DEF y
    <2> QED BY <2>1, <2>2, <2>3, <2>4, <2>5, FormStepInv
  <1>3. ASSUME NEW f \in Form, Arrive(f) PROVE FxInv'
    <2> DEFINE y == RateAnswered(form[f], form[f].coming)
    <2>1. form[f].coming \in FxAnswer /\ seen[form[f].coming] \in 0 .. 1
      BY <1>0, <1>3 DEF FxInv, FormRow, FxTypeOK, Arrive
    <2>2. /\ y \in FormRow /\ y.step # "arrive" /\ y.cached = NoEntry
          /\ y.step = "insert" => Backed(y)
      BY <1>0, <2>1, AnsweredForm
    <2>3. form' = [form EXCEPT ![f] = y]
      BY <1>3 DEF Arrive
    <2>4. UNCHANGED <<market, seen, priced>> /\ cache' = [rate |-> form[f].coming, age |-> 0]
      BY <1>3 DEF Arrive
    <2>5. cache' \in Entry /\ Traced(cache)'
      BY <2>1, <2>4 DEF Entry, Traced
    <2>6. Traced(y.cached)
      BY <2>2 DEF Traced
    <2> HIDE DEF y
    <2> QED BY <2>2, <2>3, <2>4, <2>5, <2>6, FormStepInv
  <1>4. ASSUME NEW f \in Form, FetchFails(f) PROVE FxInv'
    <2>1. UNCHANGED <<market, seen, cache, priced>> /\ cache' \in Entry /\ Traced(cache)'
      BY <1>0, <1>4 DEF FetchFails, FxInv, FxTypeOK, Traced
    <2>2. form[f].cached \in Entry /\ Traced(form[f].cached) /\ form[f].cached.age \in Nat
      BY <1>0 DEF FxInv, FormRow, Entry, NoEntry
    <2>3. CASE form[f].cached.age < Stale
      <3> DEFINE y == RateAnswered(form[f], form[f].cached.rate)
      <3>1. form[f].cached # NoEntry /\ form[f].cached.rate \in FxAnswer
        BY <2>2, <2>3 DEF Entry, NoEntry
      <3>2. seen[form[f].cached.rate] \in Nat /\ seen[form[f].cached.rate] <= Stale
        BY <1>0, <2>2, <2>3, <3>1 DEF Traced, FxTypeOK
      <3>3. /\ y \in FormRow /\ y.step # "arrive" /\ y.cached = NoEntry
            /\ y.step = "insert" => Backed(y)
        BY <1>0, <3>1, <3>2, AnsweredForm
      <3>4. form' = [form EXCEPT ![f] = y]
        BY <1>4, <2>3 DEF FetchFails
      <3>5. Traced(y.cached)
        BY <3>3 DEF Traced
      <3> HIDE DEF y
      <3> QED BY <2>1, <3>3, <3>4, <3>5, FormStepInv
    <2>4. CASE form[f].cached.age >= Stale
      <3> DEFINE y == RateUnknown(form[f], 0, form[f].cached.age)
      <3>1. /\ y \in FormRow /\ y.step # "arrive" /\ y.cached = NoEntry
            /\ y.step = "insert" => Backed(y)
        <4>1. form[f].cached.age \in 0 .. MaxAge
          BY <2>2, FxBounds DEF Entry, NoEntry
        <4> QED BY <1>0, <2>4, <4>1, UnknownForm
      <3>2. form' = [form EXCEPT ![f] = y]
        <4>1. ~(form[f].cached.age < Stale)
          BY <2>2, <2>4
        <4> QED BY <1>4, <4>1 DEF FetchFails
      <3>3. Traced(y.cached)
        BY <3>1 DEF Traced
      <3> HIDE DEF y
      <3> QED BY <2>1, <3>1, <3>2, <3>3, FormStepInv
    <2> QED BY <2>2, <2>3, <2>4
  <1>5. ASSUME NEW f \in Form, form[f].step = "insert",
               form' = [form EXCEPT ![f].step = "done", ![f].server = 0, ![f].age = 0],
               UNCHANGED <<market, seen, cache>>,
               priced' \in {priced, [priced EXCEPT ![f] = [rate |-> form[f].shown,
                                       server |-> form[f].server, age |-> form[f].age]]}
        PROVE  FxInv'
    <2>1. form[f].shown \in Rate /\ form[f].server \in FxAnswer \cup {0} /\ form[f].age \in 0 .. MaxAge
      BY <1>0 DEF FormRow
    <2>2. \A g \in Form :
            \/ priced'[g] = priced[g]
            \/ /\ g = f
               /\ priced'[g] = [rate |-> form[f].shown, server |-> form[f].server, age |-> form[f].age]
      <3>1. CASE priced' = priced
        BY <3>1
      <3>2. CASE priced' = [priced EXCEPT ![f] = [rate |-> form[f].shown,
                               server |-> form[f].server, age |-> form[f].age]]
        BY <1>0, <3>2 DEF FxTypeOK
      <3> QED BY <1>5, <3>1, <3>2
    <2>3. FxTypeOK'
      <3>1. form' \in [Form -> FormRow]
        <4>1. [form[f] EXCEPT !.step = "done", !.server = 0, !.age = 0] \in FormRow
          <5>1. form[f] \in FormRow /\ 0 \in 0 .. MaxAge /\ "done" \in FormStep
            BY <1>0 DEF FormStep
          <5>2. \A x \in FormRow, s \in FormStep : [x EXCEPT !.step = s] \in FormRow
            BY DEF FormRow
          <5>3. \A x \in FormRow : [x EXCEPT !.server = 0] \in FormRow
            BY DEF FormRow
          <5>4. \A x \in FormRow : [x EXCEPT !.age = 0] \in FormRow
            BY <5>1 DEF FormRow
          <5> QED BY <5>1, <5>2, <5>3, <5>4
        <4>2. form' = [form EXCEPT ![f] = [form[f] EXCEPT !.step = "done", !.server = 0, !.age = 0]]
          BY <1>0, <1>5 DEF FxTypeOK
        <4> QED BY <1>0, <4>1, <4>2 DEF FxTypeOK, FormRow
      <3>2. priced' \in [Form -> [rate : Rate, server : FxAnswer \cup {0}, age : 0 .. MaxAge] \cup {NoQuote}]
        BY <1>0, <1>5, <2>1 DEF FxTypeOK
      <3> QED BY <1>0, <1>5, <3>1, <3>2 DEF FxTypeOK, FormRow
    <2>4. QuoteBacked'
      BY <1>5, <2>1, <2>2 DEF FxInv, QuoteBacked, Backed
    <2>5. \A g \in Form :
            \/ form'[g] = form[g]
            \/ form'[g].step = "done" /\ form'[g].cached = form[g].cached
      BY <1>0, <1>5 DEF FxTypeOK
    <2> QED BY <1>5, <2>3, <2>4, <2>5 DEF FxInv, Traced, Backed
  <1>6. ASSUME NEW f \in Form, InsertQuote(f) \/ QuoteNotMade(f) PROVE FxInv'
    BY <1>5, <1>6 DEF InsertQuote, QuoteNotMade
  <1>7. ASSUME NEW r \in FxAnswer, MarketMoves(r) PROVE FxInv'
    <2>1. FxTypeOK' /\ seen'[market'] = 0
      BY <1>0, <1>7 DEF MarketMoves, FxTypeOK
    <2>2. \A q \in FxAnswer : seen'[q] \in Nat /\ seen[q] \in Nat /\ seen'[q] <= seen[q]
      BY <1>0, <1>7 DEF MarketMoves, FxTypeOK
    <2>3. UNCHANGED <<cache, form, priced>>
      BY <1>7 DEF MarketMoves
    <2>4. ASSUME NEW e \in Entry, Traced(e) PROVE e # NoEntry => seen'[e.rate] <= e.age + 1
      BY <2>2, <2>4 DEF Traced, Entry
    <2>5. cache \in Entry /\ \A f \in Form : form[f].cached \in Entry /\ form[f].coming \in FxAnswer \cup {0}
      BY <1>0 DEF FxTypeOK, FormRow
    <2>6. Traced(cache)' /\ \A f \in Form : Traced(form[f].cached)'
      BY <2>3, <2>4, <2>5 DEF FxInv, Traced
    <2>7. \A f \in Form : form[f].step = "arrive" =>
             form[f].coming # 0 /\ seen'[form[f].coming] <= (IF form[f].slow THEN 1 ELSE 0)
      BY <2>2, <2>5 DEF FxInv
    <2>8. QuoteBacked' /\ \A f \in Form : form[f].step = "insert" => Backed(form[f])
      BY <2>3 DEF FxInv, QuoteBacked
    <2> QED BY <2>1, <2>3, <2>6, <2>7, <2>8 DEF FxInv
  <1>8. CASE Tick
    <2>a. seen' = [q \in FxAnswer |-> IF q = market THEN 0 ELSE Older(seen[q])]
      BY <1>8 DEF Tick
    <2>1. ASSUME NEW q \in FxAnswer
          PROVE  /\ seen[q] \in 0 .. MaxAge /\ seen'[q] \in 0 .. MaxAge
                 /\ seen'[q] <= seen[q] + 1
      <3>1. seen[q] \in 0 .. MaxAge
        BY <1>0 DEF FxTypeOK
      <3>2. Older(seen[q]) \in 0 .. MaxAge /\ Older(seen[q]) <= seen[q] + 1
        BY <3>1, OlderBounds
      <3>3. seen'[q] = IF q = market THEN 0 ELSE Older(seen[q])
        BY <2>a
      <3> QED BY <3>1, <3>2, <3>3
    <2>2. market' = market /\ priced' = priced /\ seen'[market] = 0
          /\ seen' \in [FxAnswer -> 0 .. MaxAge]
      <3>1. market' = market /\ priced' = priced /\ market \in FxAnswer
        BY <1>0, <1>8 DEF Tick, FxTypeOK
      <3> QED BY <2>a, <2>1, <3>1
    <2>3. ASSUME NEW e \in Entry, Traced(e)
          PROVE  /\ [e EXCEPT !.age = Older(@)] \in Entry
                 /\ Traced([e EXCEPT !.age = Older(@)])'
      <3>1. CASE e = NoEntry
        <4>1. [e EXCEPT !.age = Older(@)] = NoEntry
          BY <3>1 DEF NoEntry, Older
        <4> QED BY <4>1 DEF Entry, Traced
      <3>2. CASE e # NoEntry
        <4>1. e.rate \in FxAnswer /\ e.age \in 0 .. MaxAge
          BY <3>2 DEF Entry
        <4>2. Older(e.age) \in 0 .. MaxAge /\ (e.age = MaxAge \/ Older(e.age) = e.age + 1)
          BY <4>1, OlderBounds
        <4>3. seen[e.rate] <= e.age + 1
          BY <2>3, <3>2 DEF Traced
        <4>4. [e EXCEPT !.age = Older(@)] = [rate |-> e.rate, age |-> Older(e.age)]
          BY <3>2 DEF Entry
        <4>5. seen'[e.rate] <= Older(e.age) + 1
          <5>1. CASE Older(e.age) = e.age + 1
            BY <2>1, <4>1, <4>3, <5>1
          <5>2. CASE e.age = MaxAge
            <6>1. Older(e.age) = MaxAge
              BY <5>2 DEF Older
            <6> QED BY <2>1, <4>1, <6>1
          <5> QED BY <4>2, <5>1, <5>2
        <4> QED BY <4>1, <4>2, <4>4, <4>5 DEF Entry, Traced
      <3> QED BY <3>1, <3>2
    <2>4. cache' \in Entry /\ Traced(cache)'
      <3>1. cache' = [cache EXCEPT !.age = Older(@)] /\ cache \in Entry /\ Traced(cache)
        BY <1>0, <1>8 DEF Tick, FxTypeOK, FxInv
      <3> QED BY <2>3, <3>1 DEF Traced
    <2>5. ASSUME NEW f \in Form
          PROVE  /\ form[f].slow = FALSE
                 /\ form'[f] \in FormRow
                 /\ form'[f].step = form[f].step /\ form'[f].coming = form[f].coming
                 /\ form'[f].shown = form[f].shown /\ form'[f].server = form[f].server
                 /\ form'[f].age = form[f].age
                 /\ form'[f].slow = (form[f].step \in {"fetch", "arrive"})
                 /\ form'[f].cached = [form[f].cached EXCEPT !.age = Older(@)]
      <3>1. form[f] \in FormRow /\ form[f].cached \in Entry /\ Traced(form[f].cached)
        BY <1>0 DEF FxInv, FormRow
      <3>2. [form[f].cached EXCEPT !.age = Older(@)] \in Entry
        BY <2>3, <3>1
      <3>3. form'[f] = [form[f] EXCEPT !.slow = form[f].step \in {"fetch", "arrive"},
                                       !.cached.age = Older(@)]
        BY <1>8 DEF Tick
      <3>4. ~form[f].slow /\ form[f].slow \in BOOLEAN
        BY <1>8, <3>1 DEF Tick, FormRow
      <3>5. /\ form'[f].step = form[f].step /\ form'[f].coming = form[f].coming
            /\ form'[f].shown = form[f].shown /\ form'[f].server = form[f].server
            /\ form'[f].age = form[f].age /\ form'[f].locks = form[f].locks
            /\ form'[f].slow = (form[f].step \in {"fetch", "arrive"})
            /\ form'[f].cached = [form[f].cached EXCEPT !.age = Older(@)]
            /\ DOMAIN form'[f] = DOMAIN form[f]
        BY <3>1, <3>3 DEF FormRow
      <3>6. form'[f] = [step |-> form[f].step, locks |-> form[f].locks, shown |-> form[f].shown,
                        cached |-> [form[f].cached EXCEPT !.age = Older(@)],
                        coming |-> form[f].coming, slow |-> form[f].step \in {"fetch", "arrive"},
                        server |-> form[f].server, age |-> form[f].age]
        BY <3>1, <3>3 DEF FormRow
      <3>7. form'[f] \in FormRow
        BY <3>1, <3>2, <3>6 DEF FormRow
      <3> QED BY <3>4, <3>5, <3>7
    <2>6. form' \in [Form -> FormRow]
      BY <1>8, <2>5 DEF Tick
    <2>7. FxTypeOK'
      BY <1>0, <2>2, <2>4, <2>6 DEF FxTypeOK, FormRow
    <2>8. \A f \in Form : Traced(form[f].cached)'
      <3> SUFFICES ASSUME NEW f \in Form PROVE Traced(form[f].cached)'
        OBVIOUS
      <3>1. form[f].cached \in Entry /\ Traced(form[f].cached)
        BY <1>0 DEF FxInv, FormRow
      <3> QED BY <2>3, <2>5, <3>1 DEF Traced
    <2>9. \A f \in Form : form'[f].step = "arrive" =>
             form'[f].coming # 0 /\ seen'[form'[f].coming] <= (IF form'[f].slow THEN 1 ELSE 0)
      <3> SUFFICES ASSUME NEW f \in Form, form'[f].step = "arrive"
                   PROVE  form'[f].coming # 0 /\ seen'[form'[f].coming] <= (IF form'[f].slow THEN 1 ELSE 0)
        OBVIOUS
      <3>1. form[f].coming \in FxAnswer /\ seen[form[f].coming] <= 0
        BY <1>0, <2>5 DEF FxInv, FormRow
      <3>2. seen'[form[f].coming] <= 1
        BY <2>1, <3>1
      <3>3. form'[f].slow = TRUE /\ form'[f].coming = form[f].coming
        BY <2>5
      <3> QED BY <3>1, <3>2, <3>3 DEF FxAnswer
    <2>10. \A f \in Form : form'[f].step = "insert" => Backed(form[f])'
      BY <2>5 DEF FxInv, Backed
    <2> QED BY <2>2, <2>4, <2>7, <2>8, <2>9, <2>10 DEF FxInv, QuoteBacked
  <1>9. CASE UNCHANGED fxVars
    BY <1>9 DEF fxVars, FxInv, FxTypeOK, Traced, Backed, QuoteBacked
  <1> QED BY <1>1, <1>2, <1>3, <1>4, <1>6, <1>7, <1>8, <1>9 DEF FxNext, LoadRate, RequestQuote

(* Types of the cache, of the forms and of the quotes. *)
THEOREM FxTypeCorrect == FxSpec => []FxTypeOK
  <1>1. FxInv => FxTypeOK
    BY DEF FxInv
  <1> QED BY FxInitInv, FxNextInv, <1>1, PTL DEF FxSpec

(* However the calls of forms interleave with the provider's answers, its failures and the
   clock, a quote is inserted for a rate within the tolerance of one the provider had no
   longer than Stale ago, unless no rate was known: the provider failed and what was kept
   is too old, or the answer did not list the currency.  POST /v1/quotes and
   ExchangeRateApiProvider. *)
THEOREM QuotesAreBacked == FxSpec => []QuoteBacked
  <1>1. FxInv => QuoteBacked
    BY DEF FxInv
  <1> QED BY FxInitInv, FxNextInv, <1>1, PTL DEF FxSpec

-----------------------------------------------------------------------------
(*****************************************************************************)
(* Checkout: one transfer per key.                                          *)
(*                                                                          *)
(* Two calls with one key make two transfers only if the second passes the  *)
(* outer row of the scope, the inner record of the key, and the expiry of   *)
(* the quote. Shielded says which of the three stops it, for each transfer  *)
(* that was made: first its own reservation; after a failure that released  *)
(* it, the inner record; after the retention job deleted both, the expiry   *)
(* of all quotes. The only way out is the double failure that               *)
(* OneTransferPerKey names.                                                 *)
(*****************************************************************************)

(* The calls that have not tried to make a transfer yet. *)
Early == {"unsent", "kyc", "recipient", "reserve", "wait", "inner", "quote",
          "address", "provision", "persist"}

(* Those that found the quote alive, those that found no inner record, and those
   that hold the outer reservation. *)
Quoted == {"address", "provision", "persist"}
Allowed == {"quote"} \cup Quoted
Holding == Creating \cup {"store"}

(* Calls that use the same outer row. *)
SameRow(r, t) == ScopeOf(r) = ScopeOf(t) /\ key[r] = key[t]
Others(r) == {t \in Request \ {r} : SameRow(r, t)}

(* The rows of idempotency_record. *)
OuterRow == {Absent} \cup {Reserved(q) : q \in Quote} \cup {Stored(q, a) : q \in Quote, a \in Answer}
InnerRow == {Absent} \cup {Stored(q, Created(t)) : q \in Quote, t \in made}

(* Where a call may be. *)
Place == InCollector \cup {"unsent", "kyc", "recipient", "relay", "answered", "dead"}

(* The types, by the parts of the state that steps change together. *)
KycTyped ==
    /\ kyc \in Status /\ webhook \in [DOMAIN decision -> BOOLEAN]
    /\ \E n \in 0 .. MaxReview : DOMAIN decision = 1 .. n
    /\ \A i \in DOMAIN decision : decision[i] \in Status
    /\ applied \subseteq DOMAIN decision /\ overtaken \in BOOLEAN

PayTyped ==
    /\ recipient \in RecipientRow
    /\ payee \in [Request -> SUBSET Account]
    /\ owned \in [Request -> SUBSET Account]

CallTyped ==
    /\ live \subseteq Quote /\ made \subseteq Request
    /\ outer \in [Scope -> [Key -> OuterRow]]
    /\ inner \in [Key -> InnerRow]
    /\ pc \in [Request -> Place]
    /\ key \in [Request -> Key] /\ quote \in [Request -> Quote]
    /\ answer \in [Request -> Answer \cup {Error(None)}]
    /\ unsaved \subseteq made /\ released \subseteq Request
    /\ faults \in 0 .. MaxFaults

(* How far a call has come, and what it has done. *)
Stages ==
    \A r \in Request :
        /\ pc[r] \in Early => r \notin made /\ answer[r] = Error(None)
        /\ pc[r] = "save" => r \in made
        /\ pc[r] \in {"store", "relay", "answered"} => answer[r] \in Answer

(* What may be said to a caller with key k for quote q. *)
Truthful(a, k, q) ==
    a.kind = "created" => a.transfer \in made /\ key[a.transfer] = k /\ quote[a.transfer] = q

(* Answers given, and answers stored for those who ask again. *)
AnswersTrue ==
    /\ \A r \in Request :
          /\ Truthful(answer[r], key[r], quote[r])
          /\ answer[r].kind \in {"refused", "conflict"} => r \notin made
    /\ \A s \in Scope, k \in Key : outer[s][k].state = "stored" =>
          Truthful(outer[s][k].answer, k, outer[s][k].hash)
    /\ \A k \in Key : inner[k] # Absent => Truthful(inner[k].answer, k, inner[k].hash)

(* The outer reservation of a key is held by one call of its scope. *)
HeldOnce ==
    /\ \A r \in Request : pc[r] \in Holding => Row(r) # Absent
    /\ \A r, t \in Request : pc[r] \in Holding /\ pc[t] \in Holding /\ SameRow(r, t) => r = t

(* Why no other call of the scope makes a second transfer after that of r: the
   outer row is that of r; the inner record is there, and nobody is past it;
   the two failures of OneTransferPerKey have happened; or no quote is alive. *)
Shielded(r) ==
    \/ Row(r) # Absent /\ \A t \in Others(r) : pc[t] \notin Holding
    \/ inner[key[r]] # Absent /\ \A t \in Others(r) : pc[t] \notin Allowed
    \/ r \in unsaved /\ r \in released
    \/ live = {} /\ \A t \in Others(r) : pc[t] \notin Quoted

(* A call that is about to release its row has left an inner record, unless saving it
   failed. *)
MadeOnce ==
    /\ \A r \in made : Shielded(r)
    /\ \A r \in made : pc[r] = "store" => r \in unsaved \/ inner[key[r]] # Absent
    /\ OneTransferPerKey

(* The account a transfer would be paid to now is one of its recipient's. *)
PaidInv ==
    \A r \in Request :
        IF r \in made THEN recipient.account \in owned[r] /\ payee[r] \subseteq owned[r]
                      ELSE payee[r] = {}

(* The status is that of the latest decision applied. *)
KycInv ==
    ~overtaken /\ applied # {} =>
        \E i \in applied : (\A j \in applied : j <= i) /\ kyc = decision[i]

(* The inductive invariant. *)
CallInv == CallTyped /\ Stages /\ AnswersTrue /\ HeldOnce /\ MadeOnce

CheckoutInv == KycTyped /\ KycInv /\ PayTyped /\ PaidInv /\ CallInv

(* Rows and answers. *)
LEMMA RowShapes ==
  /\ \A q, a : Stored(q, a) # Absent /\ Stored(q, a).state = "stored"
               /\ Stored(q, a).hash = q /\ Stored(q, a).answer = a
  /\ \A q : Reserved(q) # Absent /\ Reserved(q).state = "reserved"
  /\ Absent.state = "absent"
  /\ \A t : Created(t).kind = "created" /\ Created(t).transfer = t
  /\ \A k : Error(k).kind = k
  BY DEF Stored, Absent, Reserved, Created, Error

(* ... and their sets. *)
LEMMA RowTypes ==
  /\ Absent \in OuterRow
  /\ \A q \in Quote : Reserved(q) \in OuterRow
  /\ \A q \in Quote, a \in Answer : Stored(q, a) \in OuterRow
  /\ \A t \in Request : Created(t) \in Answer
  /\ \A k \in {"refused", "conflict", "failed"} : Error(k) \in Answer
  /\ \A row \in OuterRow : row.state = "stored" => row.hash \in Quote /\ row.answer \in Answer
  <1>1. /\ Absent \in OuterRow
        /\ \A q \in Quote : Reserved(q) \in OuterRow
        /\ \A q \in Quote, a \in Answer : Stored(q, a) \in OuterRow
    BY DEF OuterRow
  <1>2. /\ \A t \in Request : Created(t) \in Answer
        /\ \A k \in {"refused", "conflict", "failed"} : Error(k) \in Answer
    BY DEF Answer
  <1>3. \A row \in OuterRow : row.state = "stored" => row.hash \in Quote /\ row.answer \in Answer
    BY RowShapes DEF OuterRow
  <1> QED BY <1>1, <1>2, <1>3

(* The parts make the type invariant. *)
LEMMA PartsTyped == KycTyped /\ PayTyped /\ CallTyped => TypeOK
  <1> SUFFICES ASSUME KycTyped, PayTyped, CallTyped PROVE TypeOK
    OBVIOUS
  <1>1. DOMAIN decision \in {1 .. n : n \in 0 .. MaxReview}
    BY DEF KycTyped
  <1>2. \A s \in Scope, k \in Key : outer[s][k] \in
          {Absent} \cup {Reserved(q) : q \in Quote} \cup {Stored(q, a) : q \in Quote, a \in Answer}
    <2>1. \A s \in Scope, k \in Key : outer[s][k] \in OuterRow
      BY DEF CallTyped
    <2> QED BY <2>1 DEF OuterRow
  <1>3. \A k \in Key : inner[k] \in {Absent} \cup {Stored(q, Created(t)) : q \in Quote, t \in made}
    <2>1. \A k \in Key : inner[k] \in InnerRow
      BY DEF CallTyped
    <2> QED BY <2>1 DEF InnerRow
  <1>4. /\ kyc \in Status /\ webhook \in [DOMAIN decision -> BOOLEAN]
        /\ \A i \in DOMAIN decision : decision[i] \in Status
        /\ applied \subseteq DOMAIN decision /\ overtaken \in BOOLEAN
    BY DEF KycTyped
  <1>5. /\ live \subseteq Quote /\ made \subseteq Request
        /\ pc \in [Request -> InCollector \cup {"unsent", "kyc", "recipient", "relay", "answered", "dead"}]
        /\ key \in [Request -> Key] /\ quote \in [Request -> Quote]
        /\ answer \in [Request -> Answer \cup {Error(None)}]
        /\ unsaved \subseteq made /\ released \subseteq Request
        /\ faults \in 0 .. MaxFaults
    BY DEF CallTyped, Place
  <1> QED BY <1>1, <1>2, <1>3, <1>4, <1>5 DEF TypeOK, PayTyped

(* The initial states satisfy the invariant. *)
LEMMA CheckoutInitInv == Init => CheckoutInv
  <1> SUFFICES ASSUME Init PROVE CheckoutInv
    OBVIOUS
  <1> USE CheckoutAssumption
  <1>1. KycTyped /\ KycInv
    <2>1. DOMAIN decision = 1 .. 0 /\ 0 \in 0 .. MaxReview
      BY DEF Init
    <2> QED BY <2>1 DEF Init, KycTyped, KycInv, Status
  <1>2. PayTyped /\ PaidInv
    BY DEF Init, PayTyped, PaidInv, RecipientRow, Account
  <1>3. CallTyped
    <2>1. outer \in [Scope -> [Key -> OuterRow]] /\ inner \in [Key -> InnerRow]
      BY DEF Init, OuterRow, InnerRow
    <2>2. pc \in [Request -> Place]
      BY DEF Init, Place
    <2> QED BY <2>1, <2>2 DEF Init, CallTyped
  <1>4. Stages /\ HeldOnce
    BY DEF Init, Stages, HeldOnce, Early, Holding, Creating
  <1>5. AnswersTrue
    BY RowShapes DEF Init, AnswersTrue, Truthful, None, Scope
  <1>6. MadeOnce
    BY DEF Init, MadeOnce, OneTransferPerKey
  <1> QED BY <1>1, <1>2, <1>3, <1>4, <1>5, <1>6 DEF CheckoutInv, CallInv

-----------------------------------------------------------------------------
(* A step that moves call r, and gives it an answer. *)
LEMMA MoveStep ==
  ASSUME CallInv, NEW r \in Request, NEW s \in Place \ {"save"}, NEW a \in Answer \cup {Error(None)},
         pc' = [pc EXCEPT ![r] = s], answer' = [answer EXCEPT ![r] = a],
         UNCHANGED <<live, made, outer, inner, released, key, quote>>,
         unsaved' \in {unsaved, unsaved \cup {r}}, unsaved' \subseteq made, faults' \in 0 .. MaxFaults,
         s \in Early => pc[r] \in Early /\ a = Error(None),
         s \in {"store", "relay", "answered"} => a \in Answer,
         Truthful(a, key[r], quote[r]), a.kind \in {"refused", "conflict"} => r \notin made,
         s \in Holding => pc[r] \in Holding,
         s \in Allowed => pc[r] \in Allowed \/ inner[key[r]] = Absent,
         s \in Quoted => pc[r] \in Quoted \/ live # {},
         s = "store" => r \notin made \/ r \in unsaved' \/ inner[key[r]] # Absent
  PROVE  CallInv'
  <1>0. /\ CallTyped /\ Stages /\ AnswersTrue /\ HeldOnce /\ MadeOnce
        /\ unsaved \subseteq unsaved'
    BY DEF CallInv
  <1>1. \A t \in Request : pc'[t] = IF t = r THEN s ELSE pc[t]
    BY <1>0 DEF CallTyped
  <1>2. \A t \in Request : answer'[t] = IF t = r THEN a ELSE answer[t]
    BY <1>0 DEF CallTyped
  <1>3. CallTyped'
    BY <1>0 DEF CallTyped, InnerRow
  <1>4. Stages'
    BY <1>0, <1>1, <1>2 DEF Stages
  <1>5. AnswersTrue'
    BY <1>0, <1>2 DEF AnswersTrue, Truthful
  <1>6. HeldOnce'
    BY <1>0, <1>1 DEF HeldOnce, SameRow, Row
  <1>7. MadeOnce'
    <2>1. ASSUME NEW t \in made PROVE Shielded(t)'
      <3>0. /\ Row(t)' = Row(t) /\ inner'[key'[t]] = inner[key[t]] /\ Others(t)' = Others(t)
            /\ (t \in unsaved /\ t \in released => t \in unsaved' /\ t \in released')
            /\ Others(t) \subseteq Request /\ t \in Request
            /\ \A u \in Others(t) : key[u] = key[t]
        BY <1>0 DEF Row, Others, SameRow, CallTyped
      <3>1. CASE Row(t) # Absent /\ \A u \in Others(t) : pc[u] \notin Holding
        BY <1>1, <3>0, <3>1 DEF Shielded
      <3>2. CASE inner[key[t]] # Absent /\ \A u \in Others(t) : pc[u] \notin Allowed
        BY <1>1, <3>0, <3>2 DEF Shielded
      <3>3. CASE t \in unsaved /\ t \in released
        BY <3>0, <3>3 DEF Shielded
      <3>4. CASE live = {} /\ \A u \in Others(t) : pc[u] \notin Quoted
        BY <1>1, <3>0, <3>4 DEF Shielded
      <3> QED BY <1>0, <3>1, <3>2, <3>3, <3>4 DEF MadeOnce, Shielded
    <2>2. \A t \in made : pc'[t] = "store" => t \in unsaved' \/ inner[key[t]] # Absent
      BY <1>0, <1>1 DEF MadeOnce, CallTyped
    <2>3. OneTransferPerKey'
      BY <1>0 DEF MadeOnce, OneTransferPerKey
    <2> QED BY <2>1, <2>2, <2>3 DEF MadeOnce
  <1> QED BY <1>3, <1>4, <1>5, <1>6, <1>7 DEF CallInv

(* A step that makes the transfer of call r. *)
LEMMA InsertStepInv ==
  ASSUME CallInv, NEW r \in Request, pc[r] = "persist", made' = made \cup {r},
         \/ /\ pc' = [pc EXCEPT ![r] = "save"] /\ UNCHANGED <<answer, unsaved>>
         \/ /\ pc' = [pc EXCEPT ![r] = "store"] /\ answer' = [answer EXCEPT ![r] = Error("failed")]
            /\ unsaved' = unsaved \cup {r},
         UNCHANGED <<live, outer, inner, released, key, quote>>, faults' \in 0 .. MaxFaults
  PROVE  CallInv'
  <1>0. /\ CallTyped /\ Stages /\ AnswersTrue /\ HeldOnce /\ MadeOnce
    BY DEF CallInv
  <1>a. r \notin made /\ answer[r] = Error(None) /\ Error("failed") \in Answer
    BY <1>0, RowTypes DEF Stages, Early
  <1>b. PICK s \in {"save", "store"}, a \in {Error(None), Error("failed")} :
          /\ \A t \in Request : pc'[t] = IF t = r THEN s ELSE pc[t]
          /\ \A t \in Request : answer'[t] = IF t = r THEN a ELSE answer[t]
          /\ pc' \in [Request -> Place] /\ answer' \in [Request -> Answer \cup {Error(None)}]
          /\ s = "store" => a = Error("failed") /\ r \in unsaved'
          /\ unsaved \subseteq unsaved' /\ unsaved' \subseteq unsaved \cup {r}
    <2>1. CASE /\ pc' = [pc EXCEPT ![r] = "save"] /\ UNCHANGED <<answer, unsaved>>
      BY <1>0, <1>a, <2>1 DEF CallTyped, Place, InCollector, Creating
    <2>2. CASE /\ pc' = [pc EXCEPT ![r] = "store"] /\ answer' = [answer EXCEPT ![r] = Error("failed")]
               /\ unsaved' = unsaved \cup {r}
      BY <1>0, <1>a, <2>2 DEF CallTyped, Place, InCollector
    <2> QED BY <2>1, <2>2
  <1>c. a.kind \notin {"created", "refused", "conflict"}
    BY RowShapes, <1>b DEF None
  <1>1. CallTyped'
    BY <1>0, <1>b DEF CallTyped, InnerRow
  <1>2. Stages'
    BY <1>0, <1>a, <1>b DEF Stages, Early
  <1>3. AnswersTrue'
    BY <1>0, <1>b, <1>c DEF AnswersTrue, Truthful
  <1>4. HeldOnce'
    BY <1>0, <1>b DEF HeldOnce, SameRow, Row, Holding, Creating
  <1>5. MadeOnce'
    <2>1. Shielded(r)'
      BY <1>0, <1>b DEF Shielded, HeldOnce, Row, Others, SameRow, Holding, Creating
    <2>2. ASSUME NEW t \in made PROVE Shielded(t)'
      <3>0. /\ Row(t)' = Row(t) /\ inner'[key'[t]] = inner[key[t]] /\ Others(t)' = Others(t)
            /\ (t \in unsaved /\ t \in released => t \in unsaved' /\ t \in released')
            /\ Others(t) \subseteq Request
        BY <1>0, <1>b DEF Row, Others, SameRow, CallTyped
      <3>1. \A u \in Others(t) : /\ pc'[u] \in Holding => pc[u] \in Holding
                                 /\ pc'[u] \in Allowed => pc[u] \in Allowed
                                 /\ pc'[u] \in Quoted => pc[u] \in Quoted
        BY <1>b, <3>0 DEF Holding, Creating, Allowed, Quoted
      <3> QED BY <1>0, <3>0, <3>1 DEF MadeOnce, Shielded
    <2>3. \A t \in made' : pc'[t] = "store" => t \in unsaved' \/ inner[key[t]] # Absent
      BY <1>0, <1>b DEF MadeOnce, CallTyped
    <2>4. ASSUME NEW t \in made, key[t] = key[r], ScopeOf(t) = ScopeOf(r)
          PROVE  t \in unsaved /\ t \in released
      <3>1. r \in Others(t) /\ pc[r] \in Holding /\ pc[r] \in Allowed /\ pc[r] \in Quoted
        BY <1>a, <2>4 DEF Others, SameRow, Holding, Creating, Allowed, Quoted
      <3> QED BY <1>0, <3>1 DEF MadeOnce, Shielded
    <2>5. OneTransferPerKey'
      <3> SUFFICES ASSUME NEW t \in made', NEW u \in made', t # u, key[t] = key[u],
                          ScopeOf(t) = ScopeOf(u)
                   PROVE  \E x \in {t, u} : x \in unsaved' /\ x \in released
        BY DEF OneTransferPerKey
      <3>1. CASE t \in made /\ u \in made
        BY <1>0, <1>b, <3>1 DEF MadeOnce, OneTransferPerKey
      <3>2. CASE t = r
        BY <1>b, <2>4, <3>2
      <3>3. CASE u = r
        BY <1>b, <2>4, <3>3
      <3> QED BY <3>1, <3>2, <3>3
    <2> QED BY <2>1, <2>2, <2>3, <2>5 DEF MadeOnce
  <1> QED BY <1>1, <1>2, <1>3, <1>4, <1>5 DEF CallInv

(* A step that writes the outer row of call r, which holds it or finds it absent. *)
LEMMA OuterStep ==
  ASSUME CallInv, NEW r \in Request, NEW row \in OuterRow,
         NEW s \in {"inner", "relay"}, NEW a \in Answer \cup {Error(None)},
         SetRow(r, row), pc' = [pc EXCEPT ![r] = s], answer' = [answer EXCEPT ![r] = a],
         UNCHANGED <<live, made, inner, unsaved, key, quote>>,
         released' \in {released, released \cup {r}}, faults' \in 0 .. MaxFaults,
         row.state = "stored" => Truthful(row.answer, key[r], row.hash),
         Truthful(a, key[r], quote[r]), a.kind \in {"refused", "conflict"} => r \notin made,
         \/ s = "inner" /\ pc[r] = "reserve" /\ a = answer[r] /\ Row(r) = Absent /\ row # Absent
         \/ s = "relay" /\ pc[r] = "store" /\ a \in Answer /\ (row = Absent => r \in released')
  PROVE  CallInv'
  <1>0. /\ CallTyped /\ Stages /\ AnswersTrue /\ HeldOnce /\ MadeOnce
    BY DEF CallInv
  <1>1. \A t \in Request : pc'[t] = IF t = r THEN s ELSE pc[t]
    BY <1>0 DEF CallTyped
  <1>2. \A t \in Request : answer'[t] = IF t = r THEN a ELSE answer[t]
    BY <1>0 DEF CallTyped
  <1>3. \A t \in Request : ScopeOf(t) \in Scope /\ key[t] \in Key
    BY <1>0 DEF CallTyped, ScopeOf, Scope
  <1>4. /\ outer' \in [Scope -> [Key -> OuterRow]]
        /\ \A x \in Scope, k \in Key :
             outer'[x][k] = IF x = ScopeOf(r) /\ k = key[r] THEN row ELSE outer[x][k]
    BY <1>0, <1>3 DEF CallTyped, SetRow
  <1>5. \A t \in Request : Row(t)' = IF SameRow(r, t) THEN row ELSE Row(t)
    BY <1>3, <1>4 DEF Row, SameRow
  <1>6. CallTyped'
    <2>1. pc' \in [Request -> Place]
      BY <1>0 DEF CallTyped, Place, InCollector, Creating
    <2> QED BY <1>0, <1>4, <2>1 DEF CallTyped, InnerRow
  <1>7. Stages'
    BY <1>0, <1>1, <1>2 DEF Stages, Early
  <1>8. AnswersTrue'
    BY <1>0, <1>2, <1>4 DEF AnswersTrue, Truthful
  (* Nobody but r holds the row, before and after the step. *)
  <1>9. \A t \in Others(r) : pc[t] \notin Holding /\ pc'[t] \notin Holding
    BY <1>0, <1>1 DEF HeldOnce, Others, SameRow, Row, Holding
  <1>10. HeldOnce'
    BY <1>0, <1>1, <1>5, <1>9 DEF HeldOnce, Others, SameRow, Holding, Creating
  <1>11. MadeOnce'
    <2>0. \A t \in Request : Others(t)' = Others(t) /\ Others(t) \subseteq Request
      BY DEF Others, SameRow
    <2>a. Quoted \subseteq Allowed /\ Allowed \subseteq Holding /\ s \notin Allowed
      BY DEF Quoted, Allowed, Holding, Creating
    <2>1. ASSUME NEW t \in made PROVE Shielded(t)'
      <3>0. t \in Request /\ Shielded(t)
        BY <1>0 DEF MadeOnce, CallTyped
      <3>1. CASE ~SameRow(r, t)
        <4>1. \A u \in Others(t) : pc'[u] = pc[u]
          BY <1>1, <3>1 DEF Others, SameRow
        <4>2. Row(t)' = Row(t)
          BY <1>5, <3>0, <3>1
        <4> QED BY <2>0, <3>0, <4>1, <4>2 DEF Shielded
      <3>2. CASE SameRow(r, t) /\ t = r
        <4>1. pc[r] = "store" /\ s = "relay"
          BY <1>0, <3>2 DEF Stages, Early
        <4>2. CASE row # Absent
          BY <1>5, <1>9, <2>0, <3>0, <3>2, <4>2 DEF Shielded
        <4>3. CASE row = Absent
          <5>1. r \in released' /\ (r \in unsaved \/ inner[key[r]] # Absent)
            BY <1>0, <3>2, <4>1, <4>3 DEF MadeOnce
          <5>2. \A u \in Others(r) : pc'[u] \notin Allowed
            BY <1>9, <2>a
          <5> QED BY <2>0, <3>0, <3>2, <5>1, <5>2 DEF Shielded
        <4> QED BY <4>2, <4>3
      <3>3. CASE SameRow(r, t) /\ t # r
        <4>1. r \in Others(t)
          BY <3>0, <3>3 DEF Others, SameRow
        <4>2. ~(Row(t) # Absent /\ \A u \in Others(t) : pc[u] \notin Holding)
          <5>1. CASE s = "inner"
            <6>1. Row(t) = Absent
              BY <3>3, <5>1 DEF Row, SameRow
            <6> QED BY <6>1
          <5>2. CASE s = "relay"
            BY <4>1, <5>2 DEF Holding
          <5> QED BY <5>1, <5>2
        <4>3. \A u \in Others(t) : /\ pc'[u] \in Allowed => pc[u] \in Allowed
                                   /\ pc'[u] \in Quoted => pc[u] \in Quoted
          BY <1>1, <2>0, <2>a, <3>0
        <4> QED BY <2>0, <3>0, <4>2, <4>3 DEF Shielded
      <3> QED BY <3>1, <3>2, <3>3 DEF SameRow
    <2>2. \A t \in made : pc'[t] = "store" => t \in unsaved \/ inner[key[t]] # Absent
      BY <1>0, <1>1 DEF MadeOnce, CallTyped
    <2>3. OneTransferPerKey'
      BY <1>0 DEF MadeOnce, OneTransferPerKey
    <2> QED BY <2>1, <2>2, <2>3 DEF MadeOnce
  <1> QED BY <1>6, <1>7, <1>8, <1>10, <1>11 DEF CallInv

(* saveIdempotencyRecord: the inner record is there before the outer is answered. *)
LEMMA SaveStep ==
  ASSUME CallInv, NEW r \in Request, Save(r)
  PROVE  CallInv'
  <1>0. CallTyped /\ Stages /\ AnswersTrue /\ HeldOnce /\ MadeOnce
    BY DEF CallInv
  <1>a. /\ pc[r] = "save" /\ r \in made
        /\ UNCHANGED <<live, made, outer, unsaved, released, key, quote, faults>>
    BY <1>0 DEF Save, Stages
  <1>b. /\ \A t \in Request : pc'[t] = IF t = r THEN "store" ELSE pc[t]
        /\ \A t \in Request : answer'[t] = IF t = r THEN Created(r) ELSE answer[t]
        /\ pc' \in [Request -> Place] /\ answer' \in [Request -> Answer \cup {Error(None)}]
    BY <1>0, RowTypes DEF Save, Give, Goto, CallTyped, Place, InCollector
  <1>c. Created(r) \in Answer /\ Truthful(Created(r), key[r], quote[r])
        /\ Created(r).kind \notin {"refused", "conflict"}
    BY <1>a, RowShapes, RowTypes DEF Truthful
  <1>d. /\ inner' \in [Key -> InnerRow]
        /\ \A k \in Key : \/ inner'[k] = inner[k]
                          \/ k = key[r] /\ inner'[k] = Stored(quote[r], Created(r))
        /\ inner'[key[r]] # Absent
    <2>1. key[r] \in Key /\ quote[r] \in Quote /\ inner \in [Key -> InnerRow]
      BY <1>0 DEF CallTyped
    <2>2. Stored(quote[r], Created(r)) \in InnerRow
      BY <1>a, <2>1 DEF InnerRow
    <2>3. inner' = [inner EXCEPT ![key[r]] = IF inner[key[r]] = Absent THEN Stored(quote[r], Created(r))
                                                                       ELSE inner[key[r]]]
      BY DEF Save
    <2> QED BY <2>1, <2>2, <2>3, RowShapes
  <1>1. CallTyped'
    BY <1>0, <1>a, <1>b, <1>d DEF CallTyped, InnerRow
  <1>2. Stages'
    BY <1>0, <1>a, <1>b, <1>c DEF Stages, Early
  <1>3. AnswersTrue'
    <2>1. Truthful(Created(r), key[r], quote[r])'
      BY <1>a, <1>c DEF Truthful
    <2>2. \A k \in Key : inner'[k] # Absent => Truthful(inner'[k].answer, k, inner'[k].hash)
      BY <1>0, <1>c, <1>d, RowShapes DEF AnswersTrue
    <2> QED BY <1>0, <1>a, <1>b, <1>c, <2>1, <2>2 DEF AnswersTrue, Truthful
  <1>4. HeldOnce'
    BY <1>0, <1>a, <1>b DEF HeldOnce, SameRow, Row, Holding, Creating
  <1>5. MadeOnce'
    <2>1. ASSUME NEW t \in made PROVE Shielded(t)'
      <3>0. /\ Row(t)' = Row(t) /\ (inner[key[t]] # Absent => inner'[key[t]] # Absent)
            /\ Others(t)' = Others(t) /\ Others(t) \subseteq Request
        BY <1>0, <1>a, <1>d DEF Row, Others, SameRow, CallTyped
      <3>1. \A u \in Others(t) : /\ pc'[u] \in Holding => pc[u] \in Holding
                                 /\ pc'[u] \in Allowed => pc[u] \in Allowed
                                 /\ pc'[u] \in Quoted => pc[u] \in Quoted
        BY <1>a, <1>b, <3>0 DEF Holding, Creating, Allowed, Quoted
      <3> QED BY <1>0, <1>a, <3>0, <3>1 DEF MadeOnce, Shielded
    <2>2. \A t \in made : pc'[t] = "store" => t \in unsaved \/ inner'[key[t]] # Absent
      BY <1>0, <1>b, <1>d DEF MadeOnce, CallTyped
    <2>3. OneTransferPerKey'
      BY <1>0, <1>a DEF MadeOnce, OneTransferPerKey
    <2> QED BY <1>a, <2>1, <2>2, <2>3 DEF MadeOnce
  <1> QED BY <1>1, <1>2, <1>3, <1>4, <1>5 DEF CallInv

(* A quote expires. *)
LEMMA ExpireStep ==
  ASSUME CallInv, NEW q \in Quote, Expire(q)
  PROVE  CallInv'
  <1>0. CallTyped /\ Stages /\ AnswersTrue /\ HeldOnce /\ MadeOnce
    BY DEF CallInv
  <1>a. UNCHANGED <<made, outer, inner, unsaved, released, pc, key, quote, answer, faults>>
        /\ live' \subseteq live
    BY DEF Expire, idemVars
  <1>1. CallTyped'
    BY <1>0, <1>a DEF CallTyped, InnerRow
  <1>2. Stages' /\ AnswersTrue' /\ HeldOnce'
    BY <1>0, <1>a DEF Stages, AnswersTrue, Truthful, HeldOnce, SameRow, Row
  <1>3. MadeOnce'
    BY <1>0, <1>a DEF MadeOnce, Shielded, Row, Others, SameRow, OneTransferPerKey
  <1> QED BY <1>1, <1>2, <1>3 DEF CallInv

(* The retention job deletes the records of a key that no call uses, when no quote
   can be used any more. *)
LEMMA PurgeStep ==
  ASSUME CallInv, NEW k \in Key, Purge(k)
  PROVE  CallInv'
  <1>0. CallTyped /\ Stages /\ AnswersTrue /\ HeldOnce /\ MadeOnce
    BY DEF CallInv
  <1>a. /\ UNCHANGED <<live, made, unsaved, released, pc, key, quote, answer, faults>> /\ live = {}
        /\ \A r \in Request : key[r] = k => pc[r] \notin InCollector
    BY DEF Purge
  <1>b. /\ inner' \in [Key -> InnerRow]
        /\ \A j \in Key : inner'[j] = IF j = k THEN Absent ELSE inner[j]
    BY <1>0 DEF Purge, CallTyped, InnerRow
  <1>c. /\ outer' \in [Scope -> [Key -> OuterRow]]
        /\ \A x \in Scope, j \in Key : outer'[x][j] = IF j = k THEN Absent ELSE outer[x][j]
    <2>1. outer' = [s \in Scope |-> [outer[s] EXCEPT ![k] = Absent]]
      BY DEF Purge
    <2>2. \A x \in Scope : outer[x] \in [Key -> OuterRow] /\ Absent \in OuterRow
      BY <1>0, RowTypes DEF CallTyped
    <2> QED BY <2>1, <2>2
  <1>d. Quoted \subseteq InCollector /\ Holding \subseteq InCollector /\ "store" \in InCollector
    BY DEF Quoted, Holding, InCollector, Creating
  <1>e. \A r \in Request : ScopeOf(r) \in Scope /\ key[r] \in Key
    BY <1>0 DEF CallTyped, ScopeOf, Scope
  <1>f. \A r \in Request : key[r] # k => Row(r)' = Row(r)
    BY <1>a, <1>c, <1>e DEF Row
  <1>1. CallTyped'
    BY <1>0, <1>a, <1>b, <1>c DEF CallTyped, InnerRow
  <1>2. Stages'
    BY <1>0, <1>a DEF Stages
  <1>3. AnswersTrue'
    BY <1>0, <1>a, <1>b, <1>c, RowShapes DEF AnswersTrue, Truthful
  <1>4. HeldOnce'
    BY <1>0, <1>a, <1>d, <1>f DEF HeldOnce, SameRow
  <1>5. MadeOnce'
    <2>1. ASSUME NEW t \in made PROVE Shielded(t)'
      <3>0. Others(t)' = Others(t) /\ Others(t) \subseteq Request /\ t \in Request
            /\ \A u \in Others(t) : key[u] = key[t]
        BY <1>0, <1>a DEF Others, SameRow, CallTyped
      <3>1. CASE key[t] = k
        BY <1>a, <1>d, <3>0, <3>1 DEF Shielded
      <3>2. CASE key[t] # k
        BY <1>0, <1>a, <1>b, <1>e, <1>f, <3>0, <3>2 DEF MadeOnce, Shielded
      <3> QED BY <3>1, <3>2
    <2>2. \A t \in made : pc[t] = "store" => t \in unsaved \/ inner'[key[t]] # Absent
      BY <1>0, <1>a, <1>b, <1>d, <1>e DEF MadeOnce, CallTyped
    <2>3. OneTransferPerKey'
      BY <1>0, <1>a DEF MadeOnce, OneTransferPerKey
    <2> QED BY <1>a, <2>1, <2>2, <2>3 DEF MadeOnce
  <1> QED BY <1>1, <1>2, <1>3, <1>4, <1>5 DEF CallInv

-----------------------------------------------------------------------------
(* The steps of core-api and the collector for a call. *)
LEMMA ServeStep ==
  ASSUME CallInv, NEW r \in Request, Send(r) \/ Serve(r)
  PROVE  CallInv'
  <1>0. CallTyped /\ Stages /\ AnswersTrue /\ HeldOnce /\ MadeOnce
    BY DEF CallInv
  <1>a. /\ answer = [answer EXCEPT ![r] = answer[r]] /\ answer[r] \in Answer \cup {Error(None)}
        /\ key[r] \in Key /\ quote[r] \in Quote /\ ScopeOf(r) \in Scope /\ Row(r) \in OuterRow
        /\ pc[r] \in Place /\ faults \in 0 .. MaxFaults /\ MaxFaults \in Nat
        /\ unsaved \subseteq made
    BY <1>0, CheckoutAssumption DEF CallTyped, ScopeOf, Scope, Row
  <1>b. \A k \in {"refused", "conflict", "failed"} :
          /\ Error(k) \in Answer /\ Error(k).kind = k
          /\ Truthful(Error(k), key[r], quote[r])
    BY RowShapes, RowTypes DEF Truthful
  <1>c. faults < MaxFaults => faults + 1 \in 0 .. MaxFaults
    BY <1>a
  <1>d. /\ pc[r] \in Early => r \notin made /\ answer[r] = Error(None)
        /\ pc[r] \in {"store", "relay", "answered"} => answer[r] \in Answer
        /\ Truthful(answer[r], key[r], quote[r])
        /\ answer[r].kind \in {"refused", "conflict"} => r \notin made
    BY <1>0 DEF Stages, AnswersTrue
  <1> USE DEF callUnchanged, idemVars, Goto, Give, Refuse
  (* The places a call may be moved to by a step that writes no row. *)
  <1>e. ASSUME NEW s \in Place \ {"save"}, pc' = [pc EXCEPT ![r] = s], pc[r] \in Early, s \in Early,
               UNCHANGED <<answer, live, made, outer, inner, unsaved, released, key, quote, faults>>,
               s \in Holding => pc[r] \in Holding,
               s \in Allowed => pc[r] \in Allowed \/ inner[key[r]] = Absent,
               s \in Quoted => pc[r] \in Quoted \/ live # {}
        PROVE  CallInv'
    <2>1. s # "store" /\ s \notin {"store", "relay", "answered"} /\ answer[r] = Error(None)
      BY <1>d, <1>e DEF Early
    <2>2. answer' = [answer EXCEPT ![r] = answer[r]]
      BY <1>a, <1>e
    <2>3. unsaved' \in {unsaved, unsaved \cup {r}} /\ unsaved' \subseteq made /\ faults' \in 0 .. MaxFaults
      BY <1>a, <1>e
    <2> QED BY <1>a, <1>d, <1>e, <2>1, <2>2, <2>3, MoveStep
  <1>f. ASSUME NEW s \in {"store", "relay", "answered"}, NEW a \in Answer,
               pc' = [pc EXCEPT ![r] = s], answer' = [answer EXCEPT ![r] = a],
               UNCHANGED <<live, made, outer, inner, unsaved, released, key, quote>>,
               faults' \in 0 .. MaxFaults,
               Truthful(a, key[r], quote[r]), a.kind \in {"refused", "conflict"} => r \notin made,
               s = "store" => pc[r] \in Holding /\ pc[r] \in Early
        PROVE  CallInv'
    <2>1. s \in Place \ {"save"} /\ s \notin Early /\ s \notin Allowed /\ s \notin Quoted
          /\ (s \in Holding => s = "store")
      BY DEF Place, InCollector, Early, Allowed, Quoted, Holding, Creating
    <2>2. a \in Answer \cup {Error(None)} /\ unsaved' \in {unsaved, unsaved \cup {r}}
          /\ unsaved' \subseteq made
      BY <1>a, <1>f
    <2>3. s = "store" => r \notin made
      BY <1>d, <1>f
    <2> QED BY <1>f, <2>1, <2>2, <2>3, MoveStep
  <1>1. CASE Send(r)
    <2>1. PICK s \in {"reserve", "kyc"} : pc' = [pc EXCEPT ![r] = s]
      BY <1>1 DEF Send
    <2> QED BY <1>1, <1>e, <2>1 DEF Send, Place, InCollector, Early, Holding, Creating, Allowed, Quoted
  <1>2. CASE CheckKyc(r)
    <2>1. CASE Approved
      BY <1>2, <1>e, <2>1 DEF CheckKyc, Place, Early, Holding, Creating, Allowed, Quoted
    <2>2. CASE ~Approved
      BY <1>2, <1>a, <1>b, <1>d, <1>f, <2>2 DEF CheckKyc, Early
    <2> QED BY <2>1, <2>2
  <1>3. CASE CheckRecipient(r)
    <2>1. CASE HasActiveRecipient
      BY <1>3, <1>e, <2>1 DEF CheckRecipient, Place, InCollector, Early, Holding, Creating, Allowed, Quoted
    <2>2. CASE ~HasActiveRecipient
      BY <1>3, <1>a, <1>b, <1>d, <1>f, <2>2 DEF CheckRecipient, Early
    <2> QED BY <2>1, <2>2
  <1>4. CASE Reserve(r)
    <2>1. CASE Row(r) = Absent
      <3>1. Reserved(quote[r]) \in OuterRow /\ Reserved(quote[r]) # Absent
            /\ Reserved(quote[r]).state # "stored"
        BY <1>a, RowShapes, RowTypes
      <3>2. /\ SetRow(r, Reserved(quote[r])) /\ pc' = [pc EXCEPT ![r] = "inner"] /\ pc[r] = "reserve"
            /\ answer' = [answer EXCEPT ![r] = answer[r]]
            /\ UNCHANGED <<live, made, inner, unsaved, key, quote>>
            /\ released' \in {released, released \cup {r}} /\ faults' \in 0 .. MaxFaults
        BY <1>4, <1>a, <2>1 DEF Reserve
      <3> QED BY <1>a, <1>d, <2>1, <3>1, <3>2, OuterStep
    <2>2. CASE Row(r) # Absent
      BY <1>4, <1>e, <2>2 DEF Reserve, Place, InCollector, Early, Holding, Creating, Allowed, Quoted
    <2> QED BY <2>1, <2>2
  <1>5. CASE Wait(r)
    <2>0. pc[r] = "wait" /\ r \notin made
      BY <1>5, <1>d DEF Wait, Early
    <2>1. CASE Row(r).state = "stored" /\ Row(r).hash = quote[r]
      <3>1. Row(r).answer \in Answer /\ Truthful(Row(r).answer, key[r], quote[r])
        BY <1>0, <1>a, <2>1, RowTypes DEF AnswersTrue, Row
      <3> QED BY <1>5, <1>a, <1>f, <2>0, <2>1, <3>1 DEF Wait
    <2>2. CASE ~(Row(r).state = "stored" /\ Row(r).hash = quote[r])
      BY <1>5, <1>a, <1>b, <1>f, <2>0, <2>2 DEF Wait
    <2> QED BY <2>1, <2>2
  <1>6. CASE FindInner(r)
    <2>0. pc[r] = "inner" /\ r \notin made /\ pc[r] \in Holding /\ pc[r] \in Early
      BY <1>6, <1>d DEF FindInner, Early, Holding, Creating
    <2>1. CASE inner[key[r]] = Absent
      BY <1>6, <1>e, <2>0, <2>1 DEF FindInner, FindIdempotency, Place, InCollector, Early, Holding, Creating, Quoted
    <2>2. CASE inner[key[r]] # Absent
      <3>1. CASE inner[key[r]].hash = quote[r]
        <4>1. /\ pc' = [pc EXCEPT ![r] = "store"] /\ answer' = [answer EXCEPT ![r] = inner[key[r]].answer]
              /\ UNCHANGED <<live, made, outer, inner, unsaved, released, key, quote, faults>>
          BY <1>6, <2>2, <3>1 DEF FindInner, FindIdempotency
        <4>2. PICK q \in Quote, t \in made : inner[key[r]] = Stored(q, Created(t))
          BY <1>0, <1>a, <2>2 DEF CallTyped, InnerRow
        <4>3. inner[key[r]].answer \in Answer
          BY <1>0, <4>2, RowShapes, RowTypes DEF CallTyped
        <4>4. Truthful(inner[key[r]].answer, key[r], quote[r])
          BY <1>0, <1>a, <2>2, <3>1 DEF AnswersTrue
        <4> QED BY <1>a, <1>f, <2>0, <4>1, <4>3, <4>4
      <3>2. CASE inner[key[r]].hash # quote[r]
        BY <1>6, <1>a, <1>b, <1>f, <2>0, <2>2, <3>2 DEF FindInner, FindIdempotency
      <3> QED BY <3>1, <3>2
    <2> QED BY <2>1, <2>2
  <1>7. CASE FindQuote(r)
    <2>0. pc[r] = "quote" /\ r \notin made /\ pc[r] \in Holding /\ pc[r] \in Early /\ pc[r] \in Allowed
      BY <1>7, <1>d DEF FindQuote, Early, Holding, Creating, Allowed
    <2>1. CASE quote[r] \in live
      BY <1>7, <1>e, <2>0, <2>1 DEF FindQuote, Place, InCollector, Early, Creating
    <2>2. CASE quote[r] \notin live
      BY <1>7, <1>a, <1>b, <1>f, <2>0, <2>2 DEF FindQuote
    <2> QED BY <2>1, <2>2
  <1>8. CASE GenerateAddress(r) \/ ProvisionAddress(r)
    <2>1. PICK s \in {"provision", "persist"} : pc' = [pc EXCEPT ![r] = s]
      BY <1>8 DEF GenerateAddress, ProvisionAddress
    <2>2. pc[r] \in Quoted /\ UNCHANGED <<answer, live, made, outer, inner, unsaved, released, key, quote, faults>>
      BY <1>8 DEF GenerateAddress, ProvisionAddress, Quoted
    <2> QED BY <1>e, <2>1, <2>2 DEF Place, InCollector, Early, Holding, Creating, Allowed, Quoted
  <1>9. CASE Persist(r)
    BY <1>9, <1>a, InsertStepInv DEF Persist, Insert
  <1>10. CASE Save(r)
    BY <1>10, SaveStep
  <1>11. CASE CreateFails(r)
    <2>0. /\ pc[r] \in Creating /\ faults' \in 0 .. MaxFaults
          /\ pc' = [pc EXCEPT ![r] = "store"] /\ answer' = [answer EXCEPT ![r] = Error("failed")]
          /\ UNCHANGED <<live, outer, inner, released, key, quote>>
      BY <1>11, <1>c DEF CreateFails
    <2>1. CASE pc[r] = "persist" /\ Insert(r) /\ unsaved' = unsaved \cup {r}
      BY <2>0, <2>1, InsertStepInv DEF Insert
    <2>2. CASE pc[r] = "save" /\ unsaved' = unsaved \cup {r} /\ UNCHANGED made
      <3>1. r \in made /\ unsaved' \in {unsaved, unsaved \cup {r}} /\ unsaved' \subseteq made
        BY <1>0, <1>a, <2>2 DEF Stages
      <3>2. "store" \in Place \ {"save"} /\ "store" \notin Early /\ "store" \notin Allowed
            /\ "store" \notin Quoted /\ pc[r] \in Holding
        BY <2>2 DEF Place, InCollector, Early, Allowed, Quoted, Holding, Creating
      <3>3. r \in unsaved' /\ Error("failed") \in Answer \cup {Error(None)}
        BY <1>b, <2>2
      <3> QED BY <1>b, <2>0, <2>2, <3>1, <3>2, <3>3, MoveStep
    <2>3. CASE pc[r] # "save" /\ UNCHANGED <<made, unsaved>>
      <3>1. pc[r] \in Early /\ pc[r] \in Holding
        BY <2>0, <2>3 DEF Early, Holding, Creating
      <3> QED BY <1>a, <1>b, <1>f, <2>0, <2>3, <3>1
    <2> QED BY <1>11, <2>1, <2>2, <2>3 DEF CreateFails
  <1>12. CASE Store(r)
    <2>1. answer[r] \in Answer /\ pc[r] = "store"
      BY <1>12, <1>d DEF Store
    <2>2. /\ Stored(quote[r], answer[r]) \in OuterRow /\ Stored(quote[r], answer[r]) # Absent
          /\ Stored(quote[r], answer[r]).answer = answer[r] /\ Stored(quote[r], answer[r]).hash = quote[r]
      BY <1>a, <2>1, RowShapes, RowTypes
    <2>3. /\ SetRow(r, Stored(quote[r], answer[r])) /\ pc' = [pc EXCEPT ![r] = "relay"]
          /\ answer' = [answer EXCEPT ![r] = answer[r]]
          /\ UNCHANGED <<live, made, inner, unsaved, key, quote>>
          /\ released' \in {released, released \cup {r}} /\ faults' \in 0 .. MaxFaults
      BY <1>12, <1>a DEF Store
    <2> QED BY <1>a, <1>d, <2>1, <2>2, <2>3, OuterStep
  <1>13. CASE StoreFails(r)
    <2>1. /\ Absent \in OuterRow /\ Absent.state # "stored" /\ Error("failed") \in Answer \cup {Error(None)}
      BY <1>b, RowShapes, RowTypes
    <2>2. /\ SetRow(r, Absent) /\ pc' = [pc EXCEPT ![r] = "relay"] /\ pc[r] = "store"
          /\ answer' = [answer EXCEPT ![r] = Error("failed")]
          /\ UNCHANGED <<live, made, inner, unsaved, key, quote>>
          /\ released' \in {released, released \cup {r}} /\ r \in released' /\ faults' \in 0 .. MaxFaults
      BY <1>13, <1>c DEF StoreFails
    <2> QED BY <1>b, <2>1, <2>2, OuterStep
  <1>14. CASE Relay(r)
    <2>1. answer[r] \in Answer
      BY <1>14, <1>d DEF Relay
    <2>2. CASE faults < MaxFaults /\ faults' = faults + 1 /\ Give(r, Error("failed"), "answered")
      BY <1>14, <1>b, <1>c, <1>f, <2>2 DEF Relay
    <2>3. CASE Goto(r, "answered") /\ UNCHANGED <<answer, faults>>
      BY <1>14, <1>a, <1>d, <1>f, <2>1, <2>3 DEF Relay
    <2> QED BY <1>14, <2>2, <2>3 DEF Relay
  <1>15. CASE Crash(r)
    <2>1. /\ pc' = [pc EXCEPT ![r] = "dead"] /\ answer' = [answer EXCEPT ![r] = Error("failed")]
          /\ UNCHANGED <<live, made, outer, inner, released, key, quote>>
          /\ faults' \in 0 .. MaxFaults /\ unsaved' \in {unsaved, unsaved \cup {r}}
          /\ unsaved' # unsaved => pc[r] = "save"
      BY <1>15, <1>c DEF Crash
    <2>2. unsaved' \subseteq made /\ Error("failed") \in Answer \cup {Error(None)}
      BY <1>0, <1>a, <1>b, <2>1 DEF Stages
    <2>3. "dead" \in Place \ {"save"} /\ "dead" \notin Early /\ "dead" \notin Allowed
          /\ "dead" \notin Quoted /\ "dead" \notin Holding
      BY DEF Place, Early, Allowed, Quoted, Holding, Creating
    <2> QED BY <1>b, <2>1, <2>2, <2>3, MoveStep
  <1> QED BY <1>1, <1>2, <1>3, <1>4, <1>5, <1>6, <1>7, <1>8, <1>9, <1>10, <1>11, <1>12, <1>13,
             <1>14, <1>15 DEF Serve

-----------------------------------------------------------------------------
(* The decisions, and what was heard of them. *)
LEMMA KycStep ==
  ASSUME KycTyped, KycInv, [Next]_vars
  PROVE  KycTyped' /\ KycInv'
  <1>0. PICK n \in 0 .. MaxReview : DOMAIN decision = 1 .. n
    BY DEF KycTyped
  <1>1. ASSUME NEW d \in Status, Review(d) PROVE KycTyped' /\ KycInv'
    <2>1. Cardinality(DOMAIN decision) = n
      BY <1>0, FS_Interval
    <2>2. /\ n + 1 <= MaxReview
          /\ decision' = [i \in 1 .. n + 1 |-> IF i = n + 1 THEN d ELSE decision[i]]
          /\ webhook' = [i \in 1 .. n + 1 |-> IF i = n + 1 THEN FALSE ELSE webhook[i]]
          /\ UNCHANGED <<kyc, applied, overtaken>>
      BY <1>1, <2>1 DEF Review
    <2>3. n + 1 \in 0 .. MaxReview /\ DOMAIN decision' = 1 .. n + 1
      BY <2>2, CheckoutAssumption
    <2>4. \A i \in 1 .. n : decision'[i] = decision[i]
      BY <2>2
    <2>5. webhook' \in [1 .. n + 1 -> BOOLEAN]
      <3>1. \A i \in 1 .. n + 1 : i = n + 1 \/ i \in 1 .. n
        OBVIOUS
      <3>2. \A i \in 1 .. n : webhook[i] \in BOOLEAN
        BY <1>0 DEF KycTyped
      <3>3. \A i \in 1 .. n + 1 : (IF i = n + 1 THEN FALSE ELSE webhook[i]) \in BOOLEAN
        BY <3>1, <3>2, Zenon
      <3> QED BY <2>2, <3>3, Zenon
    <2>6. ASSUME NEW i \in 1 .. n + 1 PROVE decision'[i] \in Status
      <3>1. CASE i = n + 1
        BY <2>2, <3>1
      <3>2. CASE i # n + 1
        <4>1. i \in 1 .. n
          BY <3>2
        <4> QED BY <1>0, <2>4, <4>1 DEF KycTyped
      <3> QED BY <3>1, <3>2
    <2>7. applied \subseteq 1 .. n
      BY <1>0 DEF KycTyped
    <2>8. KycTyped'
      <3>1. /\ kyc' \in Status /\ webhook' \in [DOMAIN decision' -> BOOLEAN]
            /\ \A i \in DOMAIN decision' : decision'[i] \in Status
        BY <2>2, <2>3, <2>5, <2>6 DEF KycTyped
      <3>2. applied' \subseteq DOMAIN decision' /\ overtaken' \in BOOLEAN
        BY <2>2, <2>3, <2>7 DEF KycTyped
      <3> QED BY <2>3, <3>1, <3>2 DEF KycTyped
    <2> QED BY <2>2, <2>4, <2>7, <2>8 DEF KycInv
  <1>2. ASSUME NEW i \in DOMAIN decision, Webhook(i) PROVE KycTyped' /\ KycInv'
    <2>1. /\ kyc' = decision[i] /\ applied' = applied \cup {i} /\ decision' = decision
          /\ overtaken' = (overtaken \/ \E j \in applied : j > i)
          /\ webhook' \in [DOMAIN decision -> BOOLEAN]
      BY <1>2 DEF Webhook, KycTyped
    <2>2. KycTyped'
      BY <2>1 DEF KycTyped
    <2>3. ~overtaken' => \A j \in applied' : j <= i
      <3>1. i \in Nat /\ \A j \in applied : j \in Nat
        BY <1>0 DEF KycTyped
      <3>2. ~overtaken' => \A j \in applied : ~(j > i)
        BY <2>1, Zenon
      <3>3. ASSUME ~overtaken', NEW j \in applied' PROVE j <= i
        <4>1. CASE j = i
          BY <3>1, <4>1
        <4>2. CASE j \in applied
          BY <3>1, <3>2, <3>3, <4>2
        <4> QED BY <2>1, <4>1, <4>2
      <3> QED BY <3>3
    <2> QED BY <2>1, <2>2, <2>3 DEF KycInv
  <1>3. CASE UNCHANGED kycVars
    BY <1>3 DEF kycVars, KycTyped, KycInv
  <1>4. ASSUME NEW r \in Request, Serve(r) PROVE UNCHANGED kycVars
    BY <1>4 DEF Serve, CheckKyc, CheckRecipient, Reserve, Wait, FindInner, FindQuote, GenerateAddress,
         ProvisionAddress, Persist, Save, CreateFails, Store, StoreFails, Relay, Crash, callUnchanged
  <1>5. CASE \/ SessionToken \/ EditRecipient \/ DeleteRecipient \/ \E r \in Request : Fund(r) \/ Send(r)
             \/ \E q \in Quote : Expire(q)
             \/ \E k \in Key : Purge(k)
             \/ UNCHANGED vars
    BY <1>3, <1>5 DEF SessionToken, EditRecipient, DeleteRecipient, Fund, Send, Expire, Purge, vars,
         payUnchanged, callUnchanged
  <1> QED BY <1>1, <1>2, <1>3, <1>4, <1>5 DEF Next, Customer

(* The recipient's accounts. *)
LEMMA PayStep ==
  ASSUME PayTyped, PaidInv, CallTyped, Stages, [Next]_vars
  PROVE  PayTyped' /\ PaidInv'
  <1>0. /\ recipient.account \in Account /\ recipient.active \in BOOLEAN /\ MaxAccount \in Nat
        /\ Account = 1 .. MaxAccount
        /\ recipient = [active |-> recipient.active, account |-> recipient.account]
    BY CheckoutAssumption DEF PayTyped, RecipientRow, Account
  <1>1. CASE EditRecipient
    <2>1. /\ recipient' = [active |-> recipient.active, account |-> recipient.account + 1]
          /\ UNCHANGED <<payee, made>> /\ recipient.account + 1 \in Account
          /\ owned' = [r \in Request |-> IF r \in made THEN owned[r] \cup {recipient.account + 1}
                                                       ELSE owned[r]]
      <3>1. recipient' = [recipient EXCEPT !.account = recipient.account + 1]
        BY <1>1 DEF EditRecipient, Updated
      <3>2. recipient' = [active |-> recipient.active, account |-> recipient.account + 1]
        BY <1>0, <3>1, Zenon
      <3>3. recipient.account + 1 \in Account
        BY <1>0, <1>1 DEF EditRecipient
      <3> QED BY <1>1, <3>2, <3>3 DEF EditRecipient, payUnchanged
    <2>2. PayTyped'
      <3>1. recipient' \in RecipientRow
        BY <1>0, <2>1 DEF RecipientRow
      <3>2. owned' \in [Request -> SUBSET Account]
        BY <1>0, <2>1 DEF PayTyped
      <3> QED BY <2>1, <3>1, <3>2 DEF PayTyped, Account
    <2>3. PaidInv'
      BY <2>1 DEF PaidInv
    <2> QED BY <2>2, <2>3
  <1>2. CASE DeleteRecipient
    <2>1. recipient' = [active |-> FALSE, account |-> recipient.account] /\ UNCHANGED <<payee, owned, made>>
      BY <1>0, <1>2 DEF DeleteRecipient, SoftDeleted, payUnchanged
    <2>2. recipient' \in RecipientRow
      BY <1>0, <2>1 DEF RecipientRow
    <2> QED BY <2>1, <2>2 DEF PayTyped, PaidInv, Account
  <1>3. ASSUME NEW r \in Request, Fund(r) PROVE PayTyped' /\ PaidInv'
    <2>1. /\ r \in made /\ payee' = [payee EXCEPT ![r] = {recipient.account}]
          /\ UNCHANGED <<recipient, owned, made>>
      BY <1>3 DEF Fund, payUnchanged
    <2> QED BY <1>0, <2>1 DEF PayTyped, PaidInv, Account
  <1>4. ASSUME NEW r \in Request, pc[r] = "persist", Insert(r), UNCHANGED <<recipient, payee>>
        PROVE  PayTyped' /\ PaidInv'
    <2>1. r \notin made /\ made' = made \cup {r} /\ owned' = [owned EXCEPT ![r] = {recipient.account}]
      BY <1>4 DEF Stages, Early, Insert
    <2> QED BY <1>0, <1>4, <2>1 DEF PayTyped, PaidInv, Account
  <1>5. CASE UNCHANGED payVars /\ UNCHANGED made
    BY <1>5 DEF payVars, PayTyped, PaidInv, Account
  <1>6. ASSUME NEW r \in Request, Serve(r) PROVE PayTyped' /\ PaidInv'
    <2>1. CASE Persist(r)
      BY <1>4, <2>1 DEF Persist
    <2>2. CASE CreateFails(r)
      BY <1>4, <1>5, <2>2 DEF CreateFails, payVars
    <2>3. CASE ~Persist(r) /\ ~CreateFails(r)
      BY <1>5, <1>6, <2>3 DEF Serve, CheckKyc, CheckRecipient, Reserve, Wait, FindInner, FindQuote, GenerateAddress,
         ProvisionAddress, Save, Store, StoreFails, Relay, Crash, callUnchanged
    <2> QED BY <2>1, <2>2, <2>3
  <1>7. CASE \/ SessionToken
             \/ \E d \in Status : Review(d)
             \/ \E i \in DOMAIN decision : Webhook(i)
             \/ \E r \in Request : Send(r)
             \/ \E q \in Quote : Expire(q)
             \/ \E k \in Key : Purge(k)
             \/ UNCHANGED vars
    BY <1>5, <1>7 DEF SessionToken, Review, Webhook, Send, Expire, Purge, vars, callUnchanged
  <1> QED BY <1>1, <1>2, <1>3, <1>6, <1>7 DEF Next, Customer

(* No step disturbs the calls and their rows. *)
LEMMA CallStep ==
  ASSUME CallInv, [Next]_vars
  PROVE  CallInv'
  <1>1. CASE UNCHANGED <<live, made, idemVars, pc, key, quote, answer>> /\ faults' \in 0 .. MaxFaults
    <2>1. CallTyped'
      BY <1>1 DEF CallInv, CallTyped, InnerRow, idemVars
    <2>2. Stages' /\ AnswersTrue' /\ HeldOnce'
      BY <1>1 DEF CallInv, Stages, AnswersTrue, Truthful, HeldOnce, SameRow, Row, idemVars
    <2>3. MadeOnce'
      BY <1>1 DEF CallInv, MadeOnce, Shielded, Row, Others, SameRow, OneTransferPerKey, idemVars
    <2> QED BY <2>1, <2>2, <2>3 DEF CallInv
  <1>2. faults \in 0 .. MaxFaults /\ MaxFaults \in Nat
    BY CheckoutAssumption DEF CallInv, CallTyped
  <1>3. CASE \E d \in Status : Review(d)
    BY <1>1, <1>2, <1>3 DEF Review
  <1>4. CASE \E i \in DOMAIN decision : Webhook(i)
    <2>1. faults' \in 0 .. MaxFaults
      BY <1>2, <1>4 DEF Webhook
    <2> QED BY <1>1, <1>4, <2>1 DEF Webhook
  <1>5. CASE SessionToken \/ UNCHANGED vars
    BY <1>1, <1>2, <1>5 DEF SessionToken, vars
  <1>6. CASE EditRecipient \/ DeleteRecipient \/ \E r \in Request : Fund(r)
    <2>1. UNCHANGED payUnchanged
      BY <1>6 DEF EditRecipient, DeleteRecipient, Fund
    <2> QED BY <1>1, <1>2, <2>1 DEF payUnchanged
  <1> QED BY <1>3, <1>4, <1>5, <1>6, ServeStep, ExpireStep, PurgeStep DEF Next, Customer

(* Every step keeps the invariant. *)
LEMMA CheckoutNextInv == CheckoutInv /\ [Next]_vars => CheckoutInv'
  BY KycStep, PayStep, CallStep DEF CheckoutInv, CallInv

(* The inductive invariant holds in every reachable state, for any calls, keys, quotes,
   failures and crashes. *)
THEOREM CheckoutInvariance == Spec => []CheckoutInv
  BY CheckoutInitInv, CheckoutNextInv, PTL DEF Spec

(* Types: in particular, no inner record and no outbox event names a transfer that was
   not made. *)
THEOREM CheckoutTypeCorrect == Spec => []TypeOK
  <1>1. CheckoutInv => TypeOK
    BY PartsTyped DEF CheckoutInv, CallInv
  <1> QED BY <1>1, CheckoutInvariance, PTL

(* The status the creation of a transfer looks at is that of the provider's latest
   decision heard of, unless webhooks were applied out of order: kyc.ts. *)
THEOREM StatusIsLatest == Spec => []KycLatest
  <1>1. CheckoutInv => KycLatest
    <2> SUFFICES ASSUME CheckoutInv, ~overtaken, applied # {}
                 PROVE  kyc = decision[CHOOSE i \in applied : \A j \in applied : j <= i]
      BY DEF KycLatest
    <2>1. PICK i \in applied : (\A j \in applied : j <= i) /\ kyc = decision[i]
      BY DEF CheckoutInv, KycInv
    <2>2. PICK n \in 0 .. MaxReview : applied \subseteq 1 .. n
      BY DEF CheckoutInv, KycTyped
    <2>3. \A k \in applied : (\A j \in applied : j <= k) => k = i
      BY <2>1, <2>2
    <2>4. i = CHOOSE k \in applied : \A j \in applied : j <= k
      BY <2>1, <2>3
    <2> QED BY <2>1, <2>4
  <1> QED BY <1>1, CheckoutInvariance, PTL

(* A funded transfer is paid to an account its recipient has had since the transfer
   was made, whatever edits and deletions come between: applyFundingConfirmation. *)
THEOREM RecipientIsPaid == Spec => []PaidToRecipient
  <1>1. CheckoutInv => PaidToRecipient
    BY DEF CheckoutInv, PaidInv, PaidToRecipient, CallInv, CallTyped
  <1> QED BY <1>1, CheckoutInvariance, PTL

(* What a caller is told, whether by the call he made, a replay of withIdempotency or the
   inner record, is true of his key and his quote: a transfer that exists, or none. *)
THEOREM CallersAreToldTheTruth == Spec => []AnswersHold
  <1>1. CheckoutInv => AnswersHold
    BY DEF CheckoutInv, CallInv, AnswersTrue, Truthful, AnswersHold
  <1> QED BY <1>1, CheckoutInvariance, PTL

(* One key makes one transfer per endpoint, whatever calls, crashes, failures, expiries
   and purges interleave, but for the one double failure: createTransfer inside
   withIdempotency. *)
THEOREM OneTransfer == Spec => []OneTransferPerKey
  <1>1. CheckoutInv => OneTransferPerKey
    BY DEF CheckoutInv, CallInv, MadeOnce
  <1> QED BY <1>1, CheckoutInvariance, PTL

-----------------------------------------------------------------------------
(*****************************************************************************)
(* Draft: one transfer per opened page.                                     *)
(*                                                                          *)
(* A page that may still make a call has no transfer it knows of: those of  *)
(* its visit are all answers that were lost (VisitsInv). A call that is     *)
(* answered late belongs to an earlier visit, or to the quote the page      *)
(* still shows.                                                             *)
(*****************************************************************************)

(* The rows of the model. *)
DraftQuote == QuoteId \cup {Unset}
DraftRecipient == RecipientId \cup {Unset}
OrderRow == [visit : Visit, quote : QuoteId, recipient : RecipientId]
CallRow == [number : 0 .. MaxVisits, visit : Visit, quote : QuoteId, recipient : RecipientId]

(* The transfers a visit made. *)
OrdersOf(v) == {t \in Order : orders[t].visit = v}

(* A visit has one call at most, and no transfer that it knows of while it may
   make another: every one of them is an answer that was lost. *)
VisitsInv ==
    /\ \A c, d \in calls : c.visit = d.visit => c = d
    /\ \A c \in calls : c.visit <= visit /\ Cardinality(OrdersOf(c.visit)) <= lost[c.visit]
    /\ \A t \in Order : orders[t].visit <= visit
    /\ page = "transfer" =>
          /\ visit \in Visit
          /\ shown.transfer = 0 => Cardinality(OrdersOf(visit)) <= lost[visit]
          /\ \A c \in calls : c.visit = visit => shown.pending /\ c.quote = shown.quote

(* A draft whose transfer is its own. *)
OwnTransfer(d) ==
    d.transfer # 0 => orders[d.transfer].quote = d.quote /\ orders[d.transfer].recipient = d.recipient

(* The types, by the parts of the state that steps change together. *)
DraftRow == [quote : DraftQuote, recipient : DraftRecipient, transfer : Order \cup {0}]
ShownRow == [quote : DraftQuote, recipient : DraftRecipient, transfer : Order \cup {0},
             pending : BOOLEAN, confirmed : BOOLEAN]

PageTyped ==
    /\ draft \in DraftRow
    /\ page \in {"quote", "transfer", "other"} /\ visit \in 0 .. MaxVisits
    /\ shown \in ShownRow
    /\ selected \in DraftRecipient /\ dirty \in BOOLEAN

CacheTyped ==
    /\ book \subseteq RecipientId /\ listed \subseteq book /\ detail \subseteq book
    /\ locking \subseteq QuoteId /\ lapsed \subseteq QuoteId

WorkTyped ==
    /\ \E n \in 0 .. MaxOrders : Order = 1 .. n
    /\ calls \subseteq CallRow
    /\ \A t \in Order : orders[t] \in OrderRow
    /\ paid \subseteq Order
    /\ checks \subseteq [transfer : Order, visit : Visit]
    /\ lost \in [Visit -> 0 .. MaxLost]

(* The inductive invariant. *)
DraftInv == PageTyped /\ CacheTyped /\ WorkTyped /\ VisitsInv /\ DraftConsistent /\ OneOrderPerVisit

(* The bounds are numbers. *)
LEMMA DraftBounds == MaxVisits \in Nat /\ MaxOrders \in Nat /\ MaxLost \in Nat
  BY DraftAssumption

(* The parts make the type invariant. *)
LEMMA DraftPartsTyped == PageTyped /\ CacheTyped /\ WorkTyped => DraftTypeOK
  BY DEF DraftTypeOK, PageTyped, CacheTyped, WorkTyped, DraftRow, ShownRow, DraftQuote, DraftRecipient,
         CallRow, OrderRow

(* The initial states satisfy the invariant. *)
LEMMA DraftInitInv == DraftInit => DraftInv
  <1> SUFFICES ASSUME DraftInit PROVE DraftInv
    OBVIOUS
  <1> USE DraftBounds
  <1>1. Order = {} /\ Order = 1 .. 0
    BY DEF DraftInit, Order
  <1>2. PageTyped
    <2>1. EmptyDraft \in DraftRow /\ Blank \in ShownRow
      BY DEF DraftRow, ShownRow, EmptyDraft, Blank, DraftQuote, DraftRecipient
    <2>2. draft \in DraftRow /\ shown \in ShownRow
      BY <2>1 DEF DraftInit
    <2>3. Unset \in DraftRecipient /\ 0 \in 0 .. MaxVisits
      BY DEF DraftRecipient
    <2> QED BY <2>2, <2>3 DEF DraftInit, PageTyped
  <1>3. CacheTyped /\ WorkTyped
    BY <1>1 DEF DraftInit, CacheTyped, WorkTyped
  <1>4. VisitsInv
    BY <1>1 DEF DraftInit, VisitsInv
  <1>5. DraftConsistent
    BY DEF DraftInit, DraftConsistent, EmptyDraft, Blank
  <1>6. OneOrderPerVisit
    <2>1. \A v \in Visit : {t \in Order : orders[t].visit = v} = {}
      BY <1>1
    <2> QED BY <2>1, FS_EmptySet DEF OneOrderPerVisit, DraftInit
  <1> QED BY <1>2, <1>3, <1>4, <1>5, <1>6 DEF DraftInv

-----------------------------------------------------------------------------
(* Opening the quote page with draft d. *)
LEMMA QuotePage ==
  ASSUME DraftInv, NEW d \in DraftRow, OwnTransfer(d), AtQuotePage(d),
         UNCHANGED <<calls, orders, lost>>
  PROVE  PageTyped' /\ VisitsInv' /\ DraftConsistent' /\ OneOrderPerVisit'
  <1>0. /\ draft' = IF d.quote \in lapsed THEN [d EXCEPT !.quote = Unset, !.transfer = 0] ELSE d
        /\ page' = "quote" /\ shown' = Blank /\ selected' = Unset /\ dirty' = FALSE /\ visit' = visit
        /\ Order' = Order
    BY DEF AtQuotePage, Order
  <1>1. draft' \in DraftRow /\ OwnTransfer(draft')
    <2>1. CASE d.quote \in lapsed
      <3>1. draft' = [quote |-> Unset, recipient |-> d.recipient, transfer |-> 0]
        BY <1>0, <2>1 DEF DraftRow
      <3> QED BY <3>1 DEF DraftRow, OwnTransfer, DraftQuote
    <2>2. CASE d.quote \notin lapsed
      BY <1>0, <2>2
    <2> QED BY <2>1, <2>2
  <1>2. Blank \in ShownRow
    BY DEF ShownRow, Blank, DraftQuote, DraftRecipient
  <1>3. PageTyped'
    BY <1>0, <1>1, <1>2 DEF DraftInv, PageTyped, DraftRow, ShownRow, DraftRecipient
  <1>4. VisitsInv'
    BY <1>0 DEF DraftInv, VisitsInv, OrdersOf
  <1>5. DraftConsistent'
    BY <1>0, <1>1 DEF DraftConsistent, OwnTransfer, Blank
  <1> QED BY <1>0, <1>3, <1>4, <1>5 DEF DraftInv, OneOrderPerVisit

(* Opening the transfer page with draft d: a new visit, which has made nothing. *)
LEMMA TransferPage ==
  ASSUME DraftInv, NEW d \in DraftRow, OwnTransfer(d), AtTransferPage(d),
         UNCHANGED <<calls, orders, lost>>
  PROVE  PageTyped' /\ VisitsInv' /\ DraftConsistent' /\ OneOrderPerVisit'
  <1> USE DraftBounds
  <1> DEFINE x == IF d.transfer = 0 THEN [d EXCEPT !.recipient = Unset] ELSE d
  <1>0. /\ visit < MaxVisits /\ visit' = visit + 1 /\ page' = "transfer"
        /\ draft' = x
        /\ shown' = [quote |-> x.quote, recipient |-> x.recipient, transfer |-> x.transfer,
                     pending |-> FALSE, confirmed |-> FALSE]
        /\ dirty' = (d.transfer = 0) /\ selected' = Unset
        /\ Order' = Order
    BY DEF AtTransferPage, Order
  <1>1. x \in DraftRow /\ OwnTransfer(x)
    BY DEF DraftRow, OwnTransfer, DraftRecipient
  <1> HIDE DEF x
  <1>2. shown' \in ShownRow
    BY <1>0, <1>1 DEF ShownRow, DraftRow
  <1>3. visit \in 0 .. MaxVisits /\ visit' \in 0 .. MaxVisits /\ visit' \in Visit
    BY <1>0 DEF DraftInv, PageTyped, Visit
  <1>4. PageTyped'
    <2>1. dirty' \in BOOLEAN /\ selected' \in DraftRecipient
      BY <1>0 DEF DraftRecipient
    <2> QED BY <1>0, <1>1, <1>2, <1>3, <2>1 DEF PageTyped, DraftRow, ShownRow
  <1>5. VisitsInv'
    <2>0. \A v : OrdersOf(v)' = OrdersOf(v)
      BY <1>0 DEF OrdersOf
    <2>a. /\ \A c \in calls : c.visit \in Nat /\ c.visit <= visit
          /\ \A t \in Order : orders[t].visit \in Nat /\ orders[t].visit <= visit
      <3>1. ASSUME NEW c \in calls PROVE c.visit \in Nat
        BY DEF DraftInv, WorkTyped, CallRow, Visit
      <3>2. ASSUME NEW t \in Order PROVE orders[t].visit \in Nat
        BY DEF DraftInv, WorkTyped, OrderRow, Visit
      <3> QED BY <3>1, <3>2 DEF DraftInv, VisitsInv
    <2>1. OrdersOf(visit') = {}
      BY <1>0, <1>3, <2>a DEF OrdersOf
    <2>2. Cardinality(OrdersOf(visit')) <= lost[visit']
      BY <1>3, <2>1, FS_EmptySet DEF DraftInv, WorkTyped
    <2>3. \A c \in calls : c.visit # visit' /\ c.visit <= visit'
      BY <1>0, <1>3, <2>a
    <2>4. \A t \in Order : orders[t].visit <= visit'
      BY <1>0, <1>3, <2>a
    <2> QED BY <1>0, <1>3, <2>0, <2>2, <2>3, <2>4 DEF DraftInv, VisitsInv
  <1>6. DraftConsistent'
    BY <1>0, <1>1 DEF DraftConsistent, OwnTransfer
  <1> QED BY <1>0, <1>4, <1>5, <1>6 DEF DraftInv, OneOrderPerVisit

(* Steps on a page: the transfer shown, if any, stays, and so does its quote. *)
LEMMA OnPage ==
  ASSUME DraftInv, draft' \in DraftRow, OwnTransfer(draft'), shown' \in ShownRow,
         shown'.transfer = shown.transfer, shown'.quote = shown.quote, shown'.pending = shown.pending,
         selected' \in DraftRecipient, dirty' \in BOOLEAN,
         UNCHANGED <<page, visit, calls, orders, lost>>
  PROVE  PageTyped' /\ VisitsInv' /\ DraftConsistent' /\ OneOrderPerVisit'
  <1>0. Order' = Order
    BY DEF Order
  <1>1. PageTyped'
    BY <1>0 DEF DraftInv, PageTyped, DraftRow, ShownRow
  <1>2. VisitsInv'
    BY <1>0 DEF DraftInv, VisitsInv, OrdersOf
  <1>3. DraftConsistent'
    BY DEF DraftInv, DraftConsistent, OwnTransfer
  <1> QED BY <1>0, <1>1, <1>2, <1>3 DEF DraftInv, OneOrderPerVisit

-----------------------------------------------------------------------------
(* Calls.  The transfers of a visit can be counted, *)
LEMMA VisitOrders ==
  ASSUME WorkTyped
  PROVE  \A v : IsFiniteSet(OrdersOf(v)) /\ Cardinality(OrdersOf(v)) \in Nat
  <1>1. PICK n \in 0 .. MaxOrders : Order = 1 .. n
    BY DEF WorkTyped
  <1>2. IsFiniteSet(1 .. n)
    BY FS_Interval
  <1>3. \A v : OrdersOf(v) \subseteq 1 .. n
    BY <1>1 DEF OrdersOf
  <1> QED BY <1>2, <1>3, FS_Subset, FS_CardinalityType

(* and a new one counts for its own visit. *)
LEMMA OrderMade ==
  ASSUME WorkTyped, NEW c \in calls, Made(c)
  PROVE  \E n \in 0 .. MaxOrders :
           /\ Order = 1 .. n /\ Order' = 1 .. n + 1 /\ n + 1 \in 0 .. MaxOrders
           /\ Cardinality(Order) + 1 = n + 1
           /\ \A t \in Order : orders'[t] = orders[t]
           /\ orders'[n + 1] = [visit |-> c.visit, quote |-> c.quote, recipient |-> c.recipient]
           /\ orders'[n + 1] \in OrderRow
           /\ \A v : Cardinality(OrdersOf(v)') =
                         Cardinality(OrdersOf(v)) + (IF v = c.visit THEN 1 ELSE 0)
  <1> USE DraftBounds
  <1>1. PICK n \in 0 .. MaxOrders : Order = 1 .. n
    BY DEF WorkTyped
  <1>2. Cardinality(Order) = n
    BY <1>1, FS_Interval
  <1>3. /\ n < MaxOrders
        /\ orders' = [t \in 1 .. n + 1 |-> IF t \in Order THEN orders[t]
                         ELSE [visit |-> c.visit, quote |-> c.quote, recipient |-> c.recipient]]
    BY <1>2 DEF Made
  <1>4. Order' = 1 .. n + 1 /\ n + 1 \in 0 .. MaxOrders /\ n + 1 \notin Order
    BY <1>1, <1>3 DEF Order
  <1>5. \A t \in Order : orders'[t] = orders[t]
    BY <1>1, <1>3
  <1>6. orders'[n + 1] = [visit |-> c.visit, quote |-> c.quote, recipient |-> c.recipient]
    BY <1>3, <1>4
  <1>7. orders'[n + 1] \in OrderRow
    BY <1>6 DEF WorkTyped, CallRow, OrderRow
  <1>8. ASSUME NEW v
        PROVE  Cardinality(OrdersOf(v)') = Cardinality(OrdersOf(v)) + (IF v = c.visit THEN 1 ELSE 0)
    <2>0. IsFiniteSet(OrdersOf(v)) /\ Cardinality(OrdersOf(v)) \in Nat
      BY VisitOrders
    <2>a. OrdersOf(v)' = {t \in Order' : orders'[t].visit = v}
      BY DEF OrdersOf
    <2>1. CASE v = c.visit
      <3>1. OrdersOf(v)' = OrdersOf(v) \cup {n + 1}
        BY <1>1, <1>4, <1>5, <1>6, <2>1, <2>a DEF OrdersOf
      <3>2. n + 1 \notin OrdersOf(v)
        BY <1>4 DEF OrdersOf
      <3> QED BY <2>0, <2>1, <3>1, <3>2, FS_AddElement
    <2>2. CASE v # c.visit
      <3>1. OrdersOf(v)' = OrdersOf(v)
        BY <1>1, <1>4, <1>5, <1>6, <2>2, <2>a DEF OrdersOf
      <3> QED BY <2>0, <2>2, <3>1
    <2> QED BY <2>1, <2>2
  <1> QED BY <1>1, <1>2, <1>4, <1>5, <1>6, <1>7, <1>8

(* There is one call per visit, and so few of them. *)
LEMMA FewCalls ==
  ASSUME WorkTyped, VisitsInv
  PROVE  Cardinality(calls) \in 0 .. MaxVisits
  <1> USE DraftBounds
  <1> DEFINE f == [c \in calls |-> c.visit]
  <1>1. f \in Injection(calls, Visit)
    <2>1. \A c \in calls : c.visit \in Visit
      BY DEF WorkTyped, CallRow
    <2> QED BY <2>1 DEF Injection, IsInjective, VisitsInv
  <1>2. IsFiniteSet(Visit) /\ Cardinality(Visit) = MaxVisits
    BY FS_Interval DEF Visit
  <1>3. IsFiniteSet(calls) /\ Cardinality(calls) <= Cardinality(Visit)
    BY <1>1, <1>2, FS_Injection
  <1> QED BY <1>2, <1>3, FS_CardinalityType

(* The page makes a call. *)
LEMMA CreateStep ==
  ASSUME DraftInv, CreateTransfer
  PROVE  DraftInv'
  <1>0. /\ PageTyped /\ CacheTyped /\ WorkTyped /\ VisitsInv /\ DraftConsistent /\ OneOrderPerVisit
    BY DEF DraftInv
  <1>1. /\ page = "transfer" /\ shown.transfer = 0 /\ shown.recipient # Unset /\ shown.quote # Unset
        /\ ~shown.pending /\ shown' = [shown EXCEPT !.pending = TRUE] /\ dirty' = TRUE
        /\ calls' = calls \cup {Call(Cardinality(calls))}
        /\ UNCHANGED <<draft, page, visit, selected, listed, detail, locking, checks, book, lapsed, orders, paid, lost>>
    BY DEF CreateTransfer, Ready, Choosing, server
  <1>2. Order' = Order
    BY <1>1 DEF Order
  <1> DEFINE x == Call(Cardinality(calls))
  <1>3. x \in CallRow /\ x.visit = visit /\ x.quote = shown.quote
    <2>1. shown.quote \in QuoteId /\ shown.recipient \in RecipientId
      BY <1>0, <1>1 DEF PageTyped, ShownRow, DraftQuote, DraftRecipient
    <2>2. visit \in Visit /\ Cardinality(calls) \in 0 .. MaxVisits
      BY <1>0, <1>1, FewCalls DEF VisitsInv
    <2> QED BY <2>1, <2>2 DEF Call, CallRow
  <1>4. \A c \in calls : c.visit # visit
    BY <1>0, <1>1 DEF VisitsInv
  <1>5. shown' \in ShownRow /\ shown'.transfer = shown.transfer /\ shown'.quote = shown.quote
        /\ shown'.recipient = shown.recipient /\ shown'.pending = TRUE
    BY <1>0, <1>1 DEF PageTyped, ShownRow
  <1> HIDE DEF x
  <1>6. PageTyped'
    BY <1>0, <1>1, <1>2, <1>5 DEF PageTyped, DraftRow, ShownRow
  <1>7. CacheTyped'
    BY <1>0, <1>1 DEF CacheTyped
  <1>8. WorkTyped'
    BY <1>0, <1>1, <1>2, <1>3 DEF WorkTyped, x
  <1>9. VisitsInv'
    <2>1. calls' = calls \cup {x}
      BY <1>1 DEF x
    <2>2. \A v : OrdersOf(v)' = OrdersOf(v)
      BY <1>1, <1>2 DEF OrdersOf
    <2>3. visit \in Nat /\ x.visit <= visit
      BY <1>0, <1>3 DEF PageTyped
    <2> QED BY <1>0, <1>1, <1>2, <1>3, <1>4, <1>5, <2>1, <2>2, <2>3 DEF VisitsInv
  <1>10. DraftConsistent'
    BY <1>0, <1>1, <1>5 DEF DraftConsistent
  <1>11. OneOrderPerVisit'
    BY <1>0, <1>1, <1>2 DEF OneOrderPerVisit
  <1> QED BY <1>6, <1>7, <1>8, <1>9, <1>10, <1>11 DEF DraftInv

(* A call is answered, to its own page or to another. *)
LEMMA AnsweredStep ==
  ASSUME DraftInv, NEW c \in calls, Answered(c)
  PROVE  DraftInv'
  <1> USE DraftBounds
  <1>0. /\ PageTyped /\ CacheTyped /\ WorkTyped /\ VisitsInv /\ DraftConsistent /\ OneOrderPerVisit
    BY DEF DraftInv
  <1>1. PICK n \in 0 .. MaxOrders :
           /\ Order = 1 .. n /\ Order' = 1 .. n + 1 /\ n + 1 \in 0 .. MaxOrders
           /\ Cardinality(Order) + 1 = n + 1
           /\ \A t \in Order : orders'[t] = orders[t]
           /\ orders'[n + 1] = [visit |-> c.visit, quote |-> c.quote, recipient |-> c.recipient]
           /\ orders'[n + 1] \in OrderRow
           /\ \A v : Cardinality(OrdersOf(v)') =
                         Cardinality(OrdersOf(v)) + (IF v = c.visit THEN 1 ELSE 0)
    BY <1>0, OrderMade DEF Answered
  <1>2. /\ calls' = calls \ {c}
        /\ draft' = [quote |-> c.quote, recipient |-> c.recipient, transfer |-> n + 1]
        /\ shown' = IF Mounted(c.visit) THEN [shown EXCEPT !.transfer = n + 1, !.pending = FALSE] ELSE shown
        /\ UNCHANGED <<page, visit, selected, dirty, book, listed, detail, locking, lapsed, paid, checks, lost>>
    BY <1>1 DEF Answered
  <1>3. c \in CallRow /\ c.visit \in Visit /\ c.quote \in QuoteId /\ c.recipient \in RecipientId
    BY <1>0 DEF WorkTyped, CallRow
  <1>4. /\ shown' \in [quote : DraftQuote, recipient : DraftRecipient, transfer : Order' \cup {0},
                       pending : BOOLEAN, confirmed : BOOLEAN]
        /\ shown'.quote = shown.quote
        /\ shown'.transfer = IF Mounted(c.visit) THEN n + 1 ELSE shown.transfer
        /\ ~Mounted(c.visit) => shown'.pending = shown.pending
    <2>1. shown \in ShownRow /\ Order \subseteq Order' /\ n + 1 \in Order'
      BY <1>0, <1>1 DEF PageTyped
    <2>2. CASE Mounted(c.visit)
      BY <1>2, <2>1, <2>2 DEF ShownRow
    <2>3. CASE ~Mounted(c.visit)
      BY <1>2, <2>1, <2>3 DEF ShownRow
    <2> QED BY <2>2, <2>3
  <1>5. PageTyped'
    <2>1. draft' \in [quote : DraftQuote, recipient : DraftRecipient, transfer : Order' \cup {0}]
      BY <1>1, <1>2, <1>3 DEF DraftQuote, DraftRecipient
    <2> QED BY <1>0, <1>2, <1>4, <2>1 DEF PageTyped, DraftRow, ShownRow
  <1>6. CacheTyped'
    BY <1>0, <1>2 DEF CacheTyped
  <1>7. WorkTyped'
    <2>1. \A t \in Order' : orders'[t] \in OrderRow
      BY <1>0, <1>1 DEF WorkTyped
    <2>2. Order \subseteq Order'
      BY <1>1
    <2>3. checks' \subseteq [transfer : Order', visit : Visit]
      BY <1>0, <1>2, <2>2 DEF WorkTyped
    <2> QED BY <1>0, <1>1, <1>2, <2>1, <2>2, <2>3 DEF WorkTyped
  <1>8. VisitsInv'
    <2>1. \A d \in calls' : d \in calls /\ d.visit # c.visit
      BY <1>0, <1>2 DEF VisitsInv
    <2>2. \A v : v # c.visit => Cardinality(OrdersOf(v)') = Cardinality(OrdersOf(v))
      BY <1>0, <1>1, VisitOrders
    <2>3. \A d \in calls' : d.visit <= visit' /\ Cardinality(OrdersOf(d.visit)') <= lost'[d.visit]
      BY <1>0, <1>2, <2>1, <2>2 DEF VisitsInv
    <2>4. \A t \in Order' : orders'[t].visit <= visit'
      <3>1. orders'[n + 1].visit <= visit'
        BY <1>0, <1>1, <1>2 DEF VisitsInv
      <3> QED BY <1>0, <1>1, <1>2, <3>1 DEF VisitsInv
    <2>5. page' = "transfer" =>
            /\ visit' \in Visit
            /\ shown'.transfer = 0 => Cardinality(OrdersOf(visit)') <= lost'[visit]
      <3>1. CASE Mounted(c.visit)
        BY <1>0, <1>1, <1>2, <1>4, <3>1 DEF VisitsInv
      <3>2. CASE ~Mounted(c.visit)
        BY <1>0, <1>2, <1>4, <2>2, <3>2 DEF VisitsInv, Mounted
      <3> QED BY <3>1, <3>2
    <2>6. page' = "transfer" => \A d \in calls' : d.visit = visit' => shown'.pending /\ d.quote = shown'.quote
      BY <1>0, <1>2, <1>4, <2>1 DEF VisitsInv, Mounted
    <2>7. \A d, e \in calls' : d.visit = e.visit => d = e
      BY <1>0, <2>1 DEF VisitsInv
    <2>8. OrdersOf(visit)' = {t \in Order' : orders'[t].visit = visit'} /\ visit' = visit
      BY <1>2 DEF OrdersOf
    <2> QED BY <1>2, <2>3, <2>4, <2>5, <2>6, <2>7, <2>8 DEF VisitsInv, OrdersOf
  <1>9. DraftConsistent'
    <2>1. shown'.transfer # 0 => orders'[shown'.transfer].quote = shown'.quote
      <3>1. CASE Mounted(c.visit)
        <4>1. c.quote = shown.quote
          BY <1>0, <3>1 DEF VisitsInv, Mounted
        <4> QED BY <1>1, <1>4, <3>1, <4>1
      <3>2. CASE ~Mounted(c.visit)
        <4>1. shown.transfer \in Order \cup {0}
          BY <1>0 DEF PageTyped, ShownRow
        <4> QED BY <1>0, <1>1, <1>4, <3>2, <4>1 DEF DraftConsistent
      <3> QED BY <3>1, <3>2
    <2> QED BY <1>1, <1>2, <2>1 DEF DraftConsistent
  <1>10. OneOrderPerVisit'
    <2>1. ASSUME NEW v \in Visit PROVE Cardinality(OrdersOf(v)') <= 1 + lost'[v]
      <3>1. Cardinality(OrdersOf(v)) \in Nat /\ lost[v] \in Nat
        BY <1>0, VisitOrders DEF WorkTyped
      <3>2. CASE v = c.visit
        <4>1. Cardinality(OrdersOf(v)) <= lost[v]
          BY <1>0, <3>2 DEF VisitsInv
        <4> QED BY <1>1, <1>2, <3>1, <3>2, <4>1
      <3>3. CASE v # c.visit
        BY <1>0, <1>1, <1>2, <3>1, <3>3 DEF OneOrderPerVisit, OrdersOf
      <3> QED BY <3>2, <3>3
    <2> QED BY <2>1 DEF OneOrderPerVisit, OrdersOf
  <1> QED BY <1>5, <1>6, <1>7, <1>8, <1>9, <1>10 DEF DraftInv

(* A call that made nothing, or whose answer is lost. *)
LEMMA SettleStep ==
  ASSUME DraftInv, NEW c \in calls, CreationRefused(c) \/ CreationLost(c)
  PROVE  DraftInv'
  <1> USE DraftBounds
  <1>0. /\ PageTyped /\ CacheTyped /\ WorkTyped /\ VisitsInv /\ DraftConsistent /\ OneOrderPerVisit
    BY DEF DraftInv
  <1>1. /\ calls' = calls \ {c}
        /\ shown' = IF Mounted(c.visit) THEN [shown EXCEPT !.pending = FALSE] ELSE shown
        /\ dirty' = (dirty \/ (Mounted(c.visit) /\ Choosing))
        /\ UNCHANGED <<draft, page, visit, selected, book, listed, detail, locking, lapsed, paid, checks>>
    BY DEF CreationRefused, CreationLost, Settle
  <1>a. c.visit \in Visit
    BY <1>0 DEF WorkTyped, CallRow
  <1>2. /\ \E n \in 0 .. MaxOrders : Order' = 1 .. n
        /\ Order \subseteq Order'
        /\ \A t \in Order : orders'[t] = orders[t]
        /\ \A t \in Order' \ Order : orders'[t].visit = c.visit
        /\ \A t \in Order' : orders'[t] \in OrderRow
        /\ lost' \in [Visit -> 0 .. MaxLost]
        /\ \A v \in Visit :
             /\ v # c.visit => lost'[v] = lost[v] /\ Cardinality(OrdersOf(v)') = Cardinality(OrdersOf(v))
             /\ \/ lost'[v] = lost[v] /\ Cardinality(OrdersOf(v)') = Cardinality(OrdersOf(v))
                \/ lost'[v] = lost[v] + 1 /\ Cardinality(OrdersOf(v)') = Cardinality(OrdersOf(v)) + 1
    <2>1. CASE CreationRefused(c)
      <3>1. UNCHANGED <<orders, lost>> /\ Order' = Order
        BY <2>1 DEF CreationRefused, Order
      <3>2. \A v : OrdersOf(v)' = OrdersOf(v)
        BY <3>1 DEF OrdersOf
      <3> QED BY <1>0, <3>1, <3>2 DEF WorkTyped
    <2>2. CASE CreationLost(c)
      <3>1. lost[c.visit] < MaxLost /\ Made(c) /\ lost' = [lost EXCEPT ![c.visit] = lost[c.visit] + 1]
        BY <2>2 DEF CreationLost
      <3>2. PICK n \in 0 .. MaxOrders :
              /\ Order = 1 .. n /\ Order' = 1 .. n + 1 /\ n + 1 \in 0 .. MaxOrders
              /\ Cardinality(Order) + 1 = n + 1
              /\ \A t \in Order : orders'[t] = orders[t]
              /\ orders'[n + 1] = [visit |-> c.visit, quote |-> c.quote, recipient |-> c.recipient]
              /\ orders'[n + 1] \in OrderRow
              /\ \A v : Cardinality(OrdersOf(v)') =
                            Cardinality(OrdersOf(v)) + (IF v = c.visit THEN 1 ELSE 0)
        BY <1>0, <3>1, OrderMade
      <3>3. /\ lost' \in [Visit -> 0 .. MaxLost]
            /\ \A v \in Visit : lost'[v] = lost[v] + (IF v = c.visit THEN 1 ELSE 0)
        BY <1>0, <1>a, <3>1 DEF WorkTyped
      <3>4. /\ Order \subseteq Order'
            /\ \A t \in Order' \ Order : orders'[t].visit = c.visit
            /\ \A t \in Order' : orders'[t] \in OrderRow
        BY <1>0, <3>2 DEF WorkTyped
      <3>5. \A v \in Visit : lost[v] \in Nat /\ Cardinality(OrdersOf(v)) \in Nat
        BY <1>0, VisitOrders DEF WorkTyped
      <3>6. \A v \in Visit :
             /\ v # c.visit => lost'[v] = lost[v] /\ Cardinality(OrdersOf(v)') = Cardinality(OrdersOf(v))
             /\ \/ lost'[v] = lost[v] /\ Cardinality(OrdersOf(v)') = Cardinality(OrdersOf(v))
                \/ lost'[v] = lost[v] + 1 /\ Cardinality(OrdersOf(v)') = Cardinality(OrdersOf(v)) + 1
        BY <3>2, <3>3, <3>5
      <3> QED BY <3>2, <3>3, <3>4, <3>6
    <2> QED BY <2>1, <2>2
  <1>3. /\ shown' \in ShownRow /\ shown'.quote = shown.quote /\ shown'.transfer = shown.transfer
        /\ ~Mounted(c.visit) => shown'.pending = shown.pending
    <2>1. CASE Mounted(c.visit)
      BY <1>0, <1>1, <2>1 DEF PageTyped, ShownRow
    <2>2. CASE ~Mounted(c.visit)
      BY <1>0, <1>1, <2>2 DEF PageTyped, ShownRow
    <2> QED BY <2>1, <2>2
  <1>4. PageTyped'
    <2>1. dirty' \in BOOLEAN
      BY <1>1
    <2>2. draft' \in [quote : DraftQuote, recipient : DraftRecipient, transfer : Order' \cup {0}]
      BY <1>0, <1>1, <1>2 DEF PageTyped, DraftRow
    <2>3. shown' \in [quote : DraftQuote, recipient : DraftRecipient, transfer : Order' \cup {0},
                      pending : BOOLEAN, confirmed : BOOLEAN]
      BY <1>2, <1>3 DEF ShownRow
    <2> QED BY <1>0, <1>1, <2>1, <2>2, <2>3 DEF PageTyped, DraftRow, ShownRow
  <1>5. CacheTyped'
    BY <1>0, <1>1 DEF CacheTyped
  <1>6. WorkTyped'
    <2>1. checks' \subseteq [transfer : Order', visit : Visit] /\ paid' \subseteq Order'
      BY <1>0, <1>1, <1>2 DEF WorkTyped
    <2> QED BY <1>0, <1>1, <1>2, <2>1 DEF WorkTyped
  <1>7. VisitsInv'
    <2>0. \A v \in Visit : /\ lost[v] \in Nat /\ Cardinality(OrdersOf(v)) \in Nat
                           /\ Cardinality(OrdersOf(v)) <= lost[v] => Cardinality(OrdersOf(v)') <= lost'[v]
      BY <1>0, <1>2, VisitOrders DEF WorkTyped
    <2>1. \A d \in calls' : d \in calls /\ d.visit \in Visit /\ d.visit # c.visit
      BY <1>0, <1>1 DEF VisitsInv, WorkTyped, CallRow
    <2>2. \A d \in calls' : d.visit <= visit' /\ Cardinality(OrdersOf(d.visit)') <= lost'[d.visit]
      BY <1>0, <1>1, <2>0, <2>1 DEF VisitsInv
    <2>3. \A t \in Order' : orders'[t].visit <= visit'
      BY <1>0, <1>1, <1>2 DEF VisitsInv
    <2>4. page' = "transfer" =>
            /\ visit' \in Visit
            /\ shown'.transfer = 0 => Cardinality(OrdersOf(visit)') <= lost'[visit]
      BY <1>0, <1>1, <1>3, <2>0 DEF VisitsInv
    <2>5. page' = "transfer" => \A d \in calls' : d.visit = visit' => shown'.pending /\ d.quote = shown'.quote
      BY <1>0, <1>1, <1>3, <2>1 DEF VisitsInv, Mounted
    <2>6. \A d, e \in calls' : d.visit = e.visit => d = e
      BY <1>0, <2>1 DEF VisitsInv
    <2>7. visit' = visit
      BY <1>1
    <2> QED BY <2>2, <2>3, <2>4, <2>5, <2>6, <2>7 DEF VisitsInv, OrdersOf
  <1>8. DraftConsistent'
    <2>1. draft.transfer \in Order \cup {0} /\ shown.transfer \in Order \cup {0}
      BY <1>0 DEF PageTyped, DraftRow, ShownRow
    <2> QED BY <1>0, <1>1, <1>2, <1>3, <2>1 DEF DraftConsistent
  <1>9. OneOrderPerVisit'
    <2>1. ASSUME NEW v \in Visit PROVE Cardinality(OrdersOf(v)') <= 1 + lost'[v]
      <3>1. Cardinality(OrdersOf(v)) \in Nat /\ lost[v] \in Nat /\ Cardinality(OrdersOf(v)) <= 1 + lost[v]
        <4>1. Cardinality(OrdersOf(v)) \in Nat
          BY <1>0, VisitOrders
        <4>2. Cardinality(OrdersOf(v)) <= 1 + lost[v]
          BY <1>0 DEF OneOrderPerVisit, OrdersOf
        <4> QED BY <1>0, <4>1, <4>2 DEF WorkTyped
      <3> QED BY <1>2, <3>1
    <2> QED BY <2>1 DEF OneOrderPerVisit, OrdersOf
  <1> QED BY <1>4, <1>5, <1>6, <1>7, <1>8, <1>9 DEF DraftInv

-----------------------------------------------------------------------------
(* Every step keeps the invariant: one step of the proof per action. *)
LEMMA DraftNextInv == DraftInv /\ [DraftNext]_draftVars => DraftInv'
  <1> SUFFICES ASSUME DraftInv, [DraftNext]_draftVars PROVE DraftInv'
    OBVIOUS
  <1> USE DraftBounds
  <1>0. /\ PageTyped /\ CacheTyped /\ WorkTyped /\ VisitsInv /\ DraftConsistent /\ OneOrderPerVisit
        /\ draft \in DraftRow /\ OwnTransfer(draft) /\ shown \in ShownRow
        /\ selected \in DraftRecipient /\ dirty \in BOOLEAN
    BY DEF DraftInv, PageTyped, DraftConsistent, OwnTransfer
  <1>a. EmptyDraft \in DraftRow /\ OwnTransfer(EmptyDraft)
    BY DEF DraftRow, EmptyDraft, OwnTransfer, DraftQuote, DraftRecipient
  (* Steps that make no transfer and take no call: what is left to show. *)
  <1>b. ASSUME PageTyped' /\ VisitsInv' /\ DraftConsistent' /\ OneOrderPerVisit', CacheTyped',
               UNCHANGED <<calls, orders, lost>>, paid' \subseteq Order,
               checks' \subseteq [transfer : Order, visit : Visit]
        PROVE  DraftInv'
    <2>1. WorkTyped'
      BY <1>0, <1>b DEF WorkTyped, Order
    <2> QED BY <1>b, <2>1 DEF DraftInv
  <1>c. ASSUME UNCHANGED <<book, listed, detail, lapsed>>, locking' \subseteq QuoteId PROVE CacheTyped'
    BY <1>0, <1>c DEF CacheTyped
  <1>d. /\ paid \subseteq Order /\ checks \subseteq [transfer : Order, visit : Visit]
        /\ locking \subseteq QuoteId
    BY <1>0 DEF WorkTyped, CacheTyped
  <1>e. Leave => checks' \subseteq [transfer : Order, visit : Visit]
    BY <1>d DEF Leave
  <1>f. ASSUME UNCHANGED <<draft, shown, selected, page, visit, calls, orders, lost>>, dirty' \in BOOLEAN
        PROVE  PageTyped' /\ VisitsInv' /\ DraftConsistent' /\ OneOrderPerVisit'
    BY <1>0, <1>f, OnPage
  <1>1. CASE OpenQuote
    <2>1. /\ PageTyped' /\ VisitsInv' /\ DraftConsistent' /\ OneOrderPerVisit'
      BY <1>0, <1>1, QuotePage DEF OpenQuote, server
    <2> QED BY <1>1, <1>b, <1>c, <1>d, <1>e, <2>1 DEF OpenQuote, server
  <1>2. CASE OpenTransfer
    <2>1. /\ PageTyped' /\ VisitsInv' /\ DraftConsistent' /\ OneOrderPerVisit'
      BY <1>0, <1>2, QuotePage, TransferPage DEF OpenTransfer, server
    <2> QED BY <1>2, <1>b, <1>c, <1>d, <2>1 DEF OpenTransfer, server
  <1>3. CASE OpenOther
    <2>1. /\ page' = "other" /\ shown' = Blank /\ selected' = Unset /\ dirty' = FALSE
          /\ UNCHANGED <<draft, visit, listed, detail, locking, calls, book, lapsed, orders, paid, lost>>
          /\ Order' = Order /\ Leave
      BY <1>3 DEF OpenOther, server, Order
    <2>2. Blank \in ShownRow /\ Unset \in DraftRecipient /\ Blank.transfer = 0
      BY DEF ShownRow, Blank, DraftQuote, DraftRecipient
    <2>3. PageTyped'
      BY <1>0, <2>1, <2>2 DEF PageTyped, DraftRow, ShownRow
    <2>4. VisitsInv'
      BY <1>0, <2>1 DEF VisitsInv, OrdersOf
    <2>5. DraftConsistent' /\ OneOrderPerVisit'
      BY <1>0, <2>1, <2>2 DEF DraftConsistent, OneOrderPerVisit
    <2> QED BY <1>b, <1>c, <1>d, <1>e, <2>1, <2>3, <2>4, <2>5
  <1>4. ASSUME NEW q \in QuoteId, LockQuote(q) \/ QuoteRefused(q) PROVE DraftInv'
    <2>1. /\ UNCHANGED <<draft, page, visit, shown, selected, dirty, listed, detail, calls, checks,
                         book, lapsed, orders, paid, lost>>
          /\ locking' \subseteq QuoteId
      BY <1>4, <1>d DEF LockQuote, QuoteRefused, pageState, server
    <2>2. PageTyped' /\ VisitsInv' /\ DraftConsistent' /\ OneOrderPerVisit'
      BY <1>0, <1>f, <2>1
    <2> QED BY <1>b, <1>c, <1>d, <2>1, <2>2
  <1>5. ASSUME NEW q \in QuoteId, QuoteLocked(q) PROVE DraftInv'
    <2>1. /\ UNCHANGED <<listed, detail, calls, checks, book, lapsed, orders, paid, lost>>
          /\ locking' \subseteq QuoteId
      BY <1>5, <1>d DEF QuoteLocked, server
    <2>2. Relocked(q) \in DraftRow /\ OwnTransfer(Relocked(q))
      <3>1. Relocked(q) = [quote |-> q, recipient |-> draft.recipient, transfer |-> 0]
        <4>1. draft \in DraftRow
          BY <1>0
        <4>2. Relocked(q) = [draft EXCEPT !.quote = q, !.transfer = 0]
          BY DEF Relocked
        <4>3. draft = [quote |-> draft.quote, recipient |-> draft.recipient, transfer |-> draft.transfer]
          BY <4>1 DEF DraftRow
        <4> QED BY <4>2, <4>3
      <3> QED BY <1>0, <3>1 DEF DraftRow, OwnTransfer, DraftQuote
    <2>3. CASE page = "transfer"
      <3>1. PageTyped' /\ VisitsInv' /\ DraftConsistent' /\ OneOrderPerVisit'
        BY <1>0, <1>5, <2>1, <2>2, <2>3, OnPage DEF QuoteLocked, pageState
      <3> QED BY <1>b, <1>c, <1>d, <2>1, <3>1
    <2>4. CASE page # "transfer"
      <3>1. PageTyped' /\ VisitsInv' /\ DraftConsistent' /\ OneOrderPerVisit'
        BY <1>0, <1>5, <2>1, <2>2, <2>4, TransferPage DEF QuoteLocked
      <3> QED BY <1>b, <1>c, <1>d, <2>1, <3>1
    <2> QED BY <2>3, <2>4
  <1>6. ASSUME NEW q \in QuoteId, QuoteExpires(q) PROVE DraftInv'
    <2>1. /\ UNCHANGED <<draft, page, visit, shown, selected, dirty, book, listed, detail, locking, calls, orders,
                         paid, checks, lost>>
          /\ lapsed' \subseteq QuoteId
      BY <1>0, <1>6 DEF QuoteExpires, pageState, CacheTyped
    <2>2. PageTyped' /\ VisitsInv' /\ DraftConsistent' /\ OneOrderPerVisit'
      BY <1>0, <1>f, <2>1
    <2>3. CacheTyped'
      BY <1>0, <2>1 DEF CacheTyped
    <2> QED BY <1>b, <1>d, <2>1, <2>2, <2>3
  <1>7. ASSUME NEW r \in RecipientId, LoadDetail(r) PROVE DraftInv'
    <2>1. /\ UNCHANGED <<draft, page, visit, shown, selected, locking, calls, checks, book, lapsed, orders,
                         paid, lost>>
          /\ dirty' \in BOOLEAN
      BY <1>7 DEF LoadDetail, server
    <2>2. PageTyped' /\ VisitsInv' /\ DraftConsistent' /\ OneOrderPerVisit'
      BY <1>0, <1>f, <2>1
    <2>3. CacheTyped'
      BY <1>0, <1>7, <2>1 DEF LoadDetail, CacheTyped
    <2> QED BY <1>b, <1>d, <2>1, <2>2, <2>3
  <1>8. CASE LoadList
    <2>1. /\ UNCHANGED <<draft, page, visit, shown, selected, locking, calls, checks, book, lapsed, orders,
                         paid, detail, lost>>
          /\ dirty' \in BOOLEAN /\ listed' = book
      BY <1>8 DEF LoadList, server
    <2>2. PageTyped' /\ VisitsInv' /\ DraftConsistent' /\ OneOrderPerVisit'
      BY <1>0, <1>f, <2>1
    <2>3. CacheTyped'
      BY <1>0, <2>1 DEF CacheTyped
    <2> QED BY <1>b, <1>d, <2>1, <2>2, <2>3
  <1>9. ASSUME NEW r, Select(r) PROVE DraftInv'
    <2>1. /\ UNCHANGED <<draft, page, visit, shown, listed, detail, locking, calls, checks, book, lapsed, orders,
                         paid, lost>>
          /\ dirty' \in BOOLEAN /\ selected' \in DraftRecipient
      BY <1>0, <1>9 DEF Select, server, CacheTyped, DraftRecipient
    <2>2. PageTyped' /\ VisitsInv' /\ DraftConsistent' /\ OneOrderPerVisit'
      BY <1>0, <2>1, OnPage
    <2> QED BY <1>b, <1>c, <1>d, <2>1, <2>2
  <1>10. ASSUME NEW r \in RecipientId, AddRecipient(r) PROVE DraftInv'
    <2>1. /\ UNCHANGED <<draft, page, visit, shown, listed, detail, locking, lapsed, calls, orders,
                         paid, checks, lost>>
          /\ dirty' \in BOOLEAN /\ selected' \in DraftRecipient /\ book' = book \cup {r}
      BY <1>10 DEF AddRecipient, DraftRecipient
    <2>2. PageTyped' /\ VisitsInv' /\ DraftConsistent' /\ OneOrderPerVisit'
      BY <1>0, <2>1, OnPage
    <2>3. CacheTyped'
      BY <1>0, <2>1 DEF CacheTyped
    <2> QED BY <1>b, <1>d, <2>1, <2>2, <2>3
  <1>11. CASE Effects
    <2> DEFINE ready == IF selected \in detail THEN selected ELSE Unset
    <2>1. /\ selected' \in IF shown.recipient \notin {Unset, selected} THEN {shown.recipient}
                           ELSE IF selected = Unset /\ listed # {} THEN listed
                           ELSE {selected}
          /\ shown' = [shown EXCEPT !.recipient = ready]
          /\ draft' = [draft EXCEPT !.recipient = ready, !.transfer = 0]
          /\ dirty' \in BOOLEAN
          /\ UNCHANGED <<page, visit, listed, detail, locking, calls, checks, book, lapsed, orders, paid, lost>>
      BY <1>11 DEF Effects, server
    <2>2. ready \in DraftRecipient
      BY <1>0 DEF CacheTyped, DraftRecipient
    <2> HIDE DEF ready
    <2>3. selected' \in DraftRecipient
      <3>1. shown.recipient \in DraftRecipient /\ listed \subseteq DraftRecipient
        BY <1>0 DEF ShownRow, CacheTyped, DraftRecipient
      <3> QED BY <1>0, <2>1, <3>1
    <2>4. shown' \in ShownRow /\ shown'.transfer = shown.transfer /\ shown'.quote = shown.quote
          /\ shown'.pending = shown.pending
      BY <1>0, <2>1, <2>2 DEF ShownRow
    <2>5. draft' \in DraftRow /\ OwnTransfer(draft')
      <3>1. draft' = [quote |-> draft.quote, recipient |-> ready, transfer |-> 0]
        BY <1>0, <2>1 DEF DraftRow
      <3> QED BY <1>0, <2>2, <3>1 DEF DraftRow, OwnTransfer
    <2>6. PageTyped' /\ VisitsInv' /\ DraftConsistent' /\ OneOrderPerVisit'
      BY <1>0, <2>1, <2>3, <2>4, <2>5, OnPage
    <2> QED BY <1>b, <1>c, <1>d, <2>1, <2>6
  <1>12. ASSUME NEW t \in Order, Pay(t) PROVE DraftInv'
    <2>1. /\ UNCHANGED <<draft, page, visit, shown, selected, dirty, listed, detail, locking, calls, checks, book,
                         lapsed, orders, lost>>
          /\ paid' \subseteq Order
      BY <1>12, <1>d DEF Pay, flow
    <2>2. PageTyped' /\ VisitsInv' /\ DraftConsistent' /\ OneOrderPerVisit'
      BY <1>0, <1>f, <2>1
    <2> QED BY <1>b, <1>c, <1>d, <2>1, <2>2
  <1>13. ASSUME NEW v, Confirmed(v), UNCHANGED <<flow, book, lapsed, orders, paid, lost>>, checks' \subseteq checks
         PROVE  DraftInv'
    <2>1. shown' \in ShownRow /\ shown'.transfer = shown.transfer /\ shown'.quote = shown.quote
          /\ shown'.pending = shown.pending
      BY <1>0, <1>13 DEF Confirmed, ShownRow
    <2>2. draft' \in DraftRow /\ OwnTransfer(draft')
      BY <1>13, <1>a DEF Confirmed
    <2>3. PageTyped' /\ VisitsInv' /\ DraftConsistent' /\ OneOrderPerVisit'
      BY <1>0, <1>13, <2>1, <2>2, OnPage DEF flow
    <2> QED BY <1>13, <1>b, <1>c, <1>d, <2>3 DEF flow
  <1>14. CASE Poll
    BY <1>13, <1>14 DEF Poll, server
  <1>15. CASE Verify
    <2>1. /\ UNCHANGED <<draft, page, visit, shown, selected, dirty, listed, detail, locking, calls, book,
                         lapsed, orders, paid, lost>>
          /\ checks' = checks \cup {[transfer |-> shown.transfer, visit |-> visit]}
      BY <1>15 DEF Verify, flow, server
    <2>2. shown.transfer \in Order /\ visit \in Visit
      BY <1>0, <1>15 DEF Verify, ShownRow, VisitsInv
    <2>3. checks' \subseteq [transfer : Order, visit : Visit]
      BY <1>d, <2>1, <2>2
    <2>4. PageTyped' /\ VisitsInv' /\ DraftConsistent' /\ OneOrderPerVisit'
      BY <1>0, <1>f, <2>1
    <2> QED BY <1>b, <1>c, <1>d, <2>1, <2>3, <2>4
  <1>16. ASSUME NEW c \in checks, CheckConfirmed(c) PROVE DraftInv'
    BY <1>13, <1>16 DEF CheckConfirmed, server
  <1>17. ASSUME NEW c \in checks, CheckEnds(c) PROVE DraftInv'
    <2>1. /\ UNCHANGED <<draft, page, visit, shown, selected, dirty, listed, detail, locking, calls, book,
                         lapsed, orders, paid, lost>>
          /\ checks' \subseteq checks
      BY <1>17 DEF CheckEnds, flow, server
    <2>2. PageTyped' /\ VisitsInv' /\ DraftConsistent' /\ OneOrderPerVisit'
      BY <1>0, <1>f, <2>1
    <2> QED BY <1>b, <1>c, <1>d, <2>1, <2>2
  <1>18. CASE StartNew
    <2>1. PageTyped' /\ VisitsInv' /\ DraftConsistent' /\ OneOrderPerVisit'
      BY <1>18, <1>a, QuotePage DEF StartNew, server
    <2> QED BY <1>18, <1>b, <1>c, <1>d, <1>e, <2>1 DEF StartNew, server
  <1>19. CASE UNCHANGED draftVars
    <2>1. PageTyped' /\ VisitsInv' /\ DraftConsistent' /\ OneOrderPerVisit'
      BY <1>0, <1>19, <1>f DEF draftVars
    <2> QED BY <1>19, <1>b, <1>c, <1>d, <2>1 DEF draftVars
  <1>20. ASSUME NEW c \in calls, Answered(c) \/ CreationRefused(c) \/ CreationLost(c) PROVE DraftInv'
    BY <1>20, AnsweredStep, SettleStep
  <1>21. CASE CreateTransfer
    BY <1>21, CreateStep
  <1> QED BY <1>1, <1>2, <1>3, <1>4, <1>5, <1>6, <1>7, <1>8, <1>9, <1>10, <1>11, <1>12, <1>14, <1>15,
             <1>16, <1>17, <1>18, <1>19, <1>20, <1>21 DEF DraftNext

(* The inductive invariant holds in every reachable state. *)
THEOREM DraftInvariance == DraftSpec => []DraftInv
  BY DraftInitInv, DraftNextInv, PTL DEF DraftSpec

(* Types: the draft and the page name transfers that exist, and lists and details in the
   query cache are of the customer's recipients. *)
THEOREM DraftTypeCorrect == DraftSpec => []DraftTypeOK
  <1>1. DraftInv => DraftTypeOK
    BY DraftPartsTyped DEF DraftInv
  <1> QED BY <1>1, DraftInvariance, PTL

(* The draft's transfer is one of the draft's quote and recipient, and the page's one of
   the page's quote, however late answers arrive: flow-state.ts, transfer/page.tsx. *)
THEOREM DraftIsConsistent == DraftSpec => []DraftConsistent
  <1>1. DraftInv => DraftConsistent
    BY DEF DraftInv
  <1> QED BY <1>1, DraftInvariance, PTL

(* An opened transfer page makes one transfer, plus one per answer lost, for any number of
   pages, quotes and recipients: transfer/page.tsx. *)
THEOREM OneOrder == DraftSpec => []OneOrderPerVisit
  <1>1. DraftInv => OneOrderPerVisit
    BY DEF DraftInv
  <1> QED BY <1>1, DraftInvariance, PTL

-----------------------------------------------------------------------------
(*****************************************************************************)
(* Session: one account, and sessions signed out of.                        *)
(*                                                                          *)
(* OneAccount holds because ensureCustomerLink tells a client only of the   *)
(* account the link names, and the link, once written, stays (Linked).      *)
(* SignedOutStaysOut holds because a session that a tab has signed out of   *)
(* is dead, so that only an exchange that was under way then can still      *)
(* bring a token of it (Departed).                                          *)
(*****************************************************************************)

Linked ==
    /\ account = {link} \ {0}
    /\ told \subseteq account
    /\ \A c \in Client :
          /\ client[c].at = "refind" => link # 0
          /\ client[c].at = "reply" => client[c].account = link /\ link # 0

Departed ==
    /\ \A t \in Tab : ended[t] \cap session = {}
    /\ \A c \in Client :
          /\ client[c].at = "bye" => client[c].session \notin session
          /\ client[c].at = "me" => client[c].kind = "exchange"
          /\ client[c].at # "idle" /\ client[c].kind = "exchange"
             /\ client[c].session \in ended[Mine(c)] => client[c].session \in raced[Mine(c)]
    /\ SignedOutStaysOut

SessionInv == SessionTypeOK /\ Linked /\ Departed

(* The initial states satisfy the invariant. *)
LEMMA SessionInitInv == SessionInit => SessionInv
  BY SessionAssumption DEF SessionInit, SessionInv, SessionTypeOK, Linked, Departed, SignedOutStaysOut, Idle, Steps

(* Every step keeps the types: one step of the proof per action. *)
LEMMA SessionTypeStep == SessionInv /\ [SessionNext]_sessionVars => SessionTypeOK'
  <1> SUFFICES ASSUME SessionInv, [SessionNext]_sessionVars PROVE SessionTypeOK'
    OBVIOUS
  <1> USE SessionAssumption DEF SessionInv, SessionTypeOK, sessionVars, tables, accounts, tabs, past, Steps, Idle, At, Step, Stop, Drop
  <1>1. ASSUME NEW c \in Client, SignUp(c) \/ SignInEmail(c) \/ SignInGoogle(c) PROVE SessionTypeOK'
    <2>1. NewSession(c)
      BY <1>1 DEF SignUp, SignInEmail, SignInGoogle
    <2> QED
      BY <2>1 DEF NewSession
  <1>2. ASSUME NEW c \in Client, Exchange(c) PROVE SessionTypeOK'
    BY <1>2 DEF Exchange, Asks, Resolved
  <1>3. ASSUME NEW c \in Client, ExchangeRefused(c) PROVE SessionTypeOK'
    <2>1. Mine(c) \in Tab
      BY DEF Client, Mine
    <2>2. CASE UNCHANGED tabs
      BY <1>3, <2>2 DEF ExchangeRefused
    <2>3. CASE /\ token' = [token EXCEPT ![Mine(c)] = 0]
               /\ stale' = [stale EXCEPT ![Mine(c)] = FALSE]
               /\ profile' = [profile EXCEPT ![Mine(c)] = FALSE]
      <3>1. created \in Nat /\ UNCHANGED <<tables, cookie, past, dropped>> /\ Stop(c)
        BY <1>3 DEF ExchangeRefused
      <3>2. token' \in [Tab -> 0 .. created] /\ stale' \in [Tab -> BOOLEAN] /\ profile' \in [Tab -> BOOLEAN]
        BY <2>1, <2>3, <3>1
      <3> QED
        BY <3>1, <3>2
    <2> QED
      BY <1>3, <2>2, <2>3 DEF ExchangeRefused
  <1>4. ASSUME NEW c \in Client, Find(c) PROVE SessionTypeOK'
    BY <1>4 DEF Find
  <1>5. ASSUME NEW c \in Client, InsertAccount(c) PROVE SessionTypeOK'
    <2> DEFINE n == Cardinality(account) + 1
    <2>1. n \in Nat
      <3>1. account = {link} \ {0}
        BY DEF Linked
      <3>2. CASE link = 0
        <4>1. account = {}
          BY <3>1, <3>2
        <4>2. Cardinality({}) = 0
          BY FS_EmptySet
        <4> QED
          BY <4>1, <4>2
      <3>3. CASE link # 0
        <4>1. account = {link}
          BY <3>1, <3>3
        <4>2. Cardinality({link}) = 1
          BY FS_Singleton
        <4> QED
          BY <4>1, <4>2
      <3> QED
        BY <3>2, <3>3
    <2>2. CASE link = 0
      <3>1. account' = account \cup {n} /\ link' = n /\ Step(c, "refind")
            /\ UNCHANGED <<user, session, created, cookie, tabs, past, dropped>>
        BY <1>5, <2>2 DEF InsertAccount
      <3> HIDE DEF n
      <3>2. client' \in [Client -> [at : Steps, kind : {"sign", "exchange"},
                                   session : 0 .. created, account : account' \cup {0}]]
        BY <3>1
      <3> QED
        BY <2>1, <3>1, <3>2
    <2>3. CASE link # 0
      BY <1>5, <2>3 DEF InsertAccount
    <2> QED
      BY <2>2, <2>3
  <1>6. ASSUME NEW c \in Client, Refind(c) PROVE SessionTypeOK'
    <2>1. UNCHANGED <<tables, cookie, tabs, past, dropped>>
      BY <1>6 DEF Refind
    <2>2. client' = [client EXCEPT ![c] = [client[c] EXCEPT !.at = "reply", !.account = link]]
      BY <1>6 DEF Refind
    <2>3. [client[c] EXCEPT !.at = "reply", !.account = link]
             \in [at : Steps, kind : {"sign", "exchange"}, session : 0 .. created, account : account \cup {0}]
      <3>1. client[c] \in [at : Steps, kind : {"sign", "exchange"}, session : 0 .. created,
                           account : account \cup {0}]
        BY <1>6
      <3> QED
        BY <3>1
    <2>4. client' \in [Client -> [at : Steps, kind : {"sign", "exchange"},
                                 session : 0 .. created, account : account \cup {0}]]
      BY <2>2, <2>3
    <2> QED
      BY <2>1, <2>4
  <1>7. ASSUME NEW c \in Client, Fails(c) \/ SignOutLost(c) PROVE SessionTypeOK'
    <2>1. UNCHANGED <<tables, cookie, tabs, past>> /\ Stop(c) /\ Drop
      BY <1>7 DEF Fails, SignOutLost
    <2>2. dropped' \in 0 .. MaxLostAnswers
      BY <2>1
    <2> QED
      BY <2>1, <2>2
  <1>8. ASSUME NEW c \in Client, SignedIn(c) \/ Exchanged(c) PROVE SessionTypeOK'
    <2>1. Mine(c) \in Tab /\ client[c].account \in account /\ client[c].session \in 0 .. created
      BY <1>8 DEF SignedIn, Exchanged, Client, Mine, Linked
    <2>2. UNCHANGED <<tables, ended, raced, dropped>> /\ told' = told \cup {client[c].account}
      BY <1>8 DEF SignedIn, Exchanged
    <2>3. CASE SignedIn(c)
      <3>1. cookie' = client[c].session /\ Step(c, "exchange") /\ UNCHANGED tabs
        BY <2>3 DEF SignedIn
      <3> QED
        BY <2>1, <2>2, <3>1
    <2>4. CASE Exchanged(c)
      <3>1. /\ token' = [token EXCEPT ![Mine(c)] = client[c].session]
            /\ stale' = [stale EXCEPT ![Mine(c)] = FALSE]
            /\ Step(c, "me") \/ Stop(c)
            /\ UNCHANGED <<cookie, profile>>
        BY <2>4 DEF Exchanged
      <3>2. token' \in [Tab -> 0 .. created] /\ stale' \in [Tab -> BOOLEAN]
        BY <2>1, <3>1
      <3>3. client' \in [Client -> [at : Steps, kind : {"sign", "exchange"},
                                   session : 0 .. created, account : account \cup {0}]]
        BY <3>1
      <3> QED
        BY <2>1, <2>2, <3>1, <3>2, <3>3
    <2> QED
      BY <1>8, <2>3, <2>4
  <1>9. ASSUME NEW c \in Client, Me(c) PROVE SessionTypeOK'
    BY <1>9 DEF Me, Client, Mine
  <1>10. ASSUME NEW c \in Client, SignOut(c) PROVE SessionTypeOK'
    BY <1>10 DEF SignOut
  <1>11. ASSUME NEW c \in Client, SignedOut(c) PROVE SessionTypeOK'
    BY <1>11 DEF SignedOut, Remember, Client, Mine
  <1>12. ASSUME SignOutAll \/ (\E s \in SessionId : SessionExpires(s)) PROVE SessionTypeOK'
    <2>1. /\ UNCHANGED <<user, accounts, created, tabs, client, past, dropped>>
          /\ session' \subseteq session /\ cookie' \in {cookie, 0}
      BY <1>12 DEF SignOutAll, SessionExpires
    <2> QED
      BY <2>1
  <1>13. ASSUME NEW t \in Tab, TokenExpires(t) PROVE SessionTypeOK'
    BY <1>13 DEF TokenExpires
  <1>14. ASSUME UNCHANGED sessionVars PROVE SessionTypeOK'
    BY <1>14
  <1> QED
    BY <1>1, <1>2, <1>3, <1>4, <1>5, <1>6, <1>7, <1>8, <1>9, <1>10, <1>11, <1>12, <1>13, <1>14
       DEF SessionNext

(* Every step keeps the link: one step of the proof per action. *)
LEMMA LinkedStep == SessionInv /\ [SessionNext]_sessionVars => Linked'
  <1> SUFFICES ASSUME SessionInv, [SessionNext]_sessionVars PROVE Linked'
    OBVIOUS
  <1> USE SessionAssumption DEF SessionInv, SessionTypeOK, Linked, sessionVars, tables, accounts, tabs, past, Steps, Idle, At, Step, Stop, Drop
  <1>1. ASSUME NEW c \in Client, SignUp(c) \/ SignInEmail(c) \/ SignInGoogle(c) PROVE Linked'
    <2>1. NewSession(c)
      BY <1>1 DEF SignUp, SignInEmail, SignInGoogle
    <2> QED
      BY <2>1 DEF NewSession
  <1>2. ASSUME NEW c \in Client, Exchange(c) PROVE Linked'
    BY <1>2 DEF Exchange, Asks, Resolved
  <1>3. ASSUME NEW c \in Client, ExchangeRefused(c) PROVE Linked'
    BY <1>3 DEF ExchangeRefused
  <1>4. ASSUME NEW c \in Client, Find(c) PROVE Linked'
    BY <1>4 DEF Find
  <1>5. ASSUME NEW c \in Client, InsertAccount(c) PROVE Linked'
    <2>1. CASE link = 0
      <3>1. account = {} /\ Cardinality({}) = 0
        BY <2>1, FS_EmptySet
      <3>2. account' = {1} /\ link' = 1 /\ UNCHANGED told /\ Step(c, "refind")
        <4>1. Cardinality(account) = 0
          BY <3>1
        <4>2. account' = account \cup {0 + 1} /\ link' = 0 + 1
          BY <1>5, <2>1, <4>1 DEF InsertAccount
        <4> QED
          BY <1>5, <3>1, <4>2 DEF InsertAccount
      <3>3. \A d \in Client : client[d].at # "reply"
        BY <2>1
      <3> QED
        BY <2>1, <3>1, <3>2, <3>3
    <2>2. CASE link # 0
      BY <1>5, <2>2 DEF InsertAccount
    <2> QED
      BY <2>1, <2>2
  <1>6. ASSUME NEW c \in Client, Refind(c) PROVE Linked'
    BY <1>6 DEF Refind
  <1>7. ASSUME NEW c \in Client, Fails(c) \/ SignOutLost(c) PROVE Linked'
    BY <1>7 DEF Fails, SignOutLost
  <1>8. ASSUME NEW c \in Client, SignedIn(c) \/ Exchanged(c) PROVE Linked'
    BY <1>8 DEF SignedIn, Exchanged
  <1>9. ASSUME NEW c \in Client, Me(c) PROVE Linked'
    BY <1>9 DEF Me
  <1>10. ASSUME NEW c \in Client, SignOut(c) PROVE Linked'
    BY <1>10 DEF SignOut
  <1>11. ASSUME NEW c \in Client, SignedOut(c) PROVE Linked'
    BY <1>11 DEF SignedOut, Remember
  <1>12. ASSUME SignOutAll \/ (\E s \in SessionId : SessionExpires(s)) PROVE Linked'
    <2>1. UNCHANGED <<account, link, client, told>>
      BY <1>12 DEF SignOutAll, SessionExpires
    <2> QED
      BY <2>1
  <1>13. ASSUME NEW t \in Tab, TokenExpires(t) PROVE Linked'
    BY <1>13 DEF TokenExpires
  <1>14. ASSUME UNCHANGED sessionVars PROVE Linked'
    BY <1>14
  <1> QED
    BY <1>1, <1>2, <1>3, <1>4, <1>5, <1>6, <1>7, <1>8, <1>9, <1>10, <1>11, <1>12, <1>13, <1>14
       DEF SessionNext

(* Every step keeps what is known of the sessions signed out of. *)
LEMMA DepartedStep == SessionInv /\ [SessionNext]_sessionVars => Departed'
  <1> SUFFICES ASSUME SessionInv, [SessionNext]_sessionVars PROVE Departed'
    OBVIOUS
  <1> USE SessionAssumption DEF SessionInv, SessionTypeOK, Departed, SignedOutStaysOut, sessionVars, tables, accounts, tabs,
              past, Steps, Idle, At, Step, Stop, Drop
  <1>1. ASSUME NEW c \in Client, SignUp(c) \/ SignInEmail(c) \/ SignInGoogle(c) PROVE Departed'
    <2>1. NewSession(c)
      BY <1>1 DEF SignUp, SignInEmail, SignInGoogle
    <2> QED
      BY <2>1 DEF NewSession
  <1>2. ASSUME NEW c \in Client, Exchange(c) PROVE Departed'
    BY <1>2 DEF Exchange, Asks, Resolved, Client, Mine
  <1>3. ASSUME NEW c \in Client, ExchangeRefused(c) PROVE Departed'
    BY <1>3 DEF ExchangeRefused
  <1>4. ASSUME NEW c \in Client, Find(c) PROVE Departed'
    BY <1>4 DEF Find
  <1>5. ASSUME NEW c \in Client, InsertAccount(c) PROVE Departed'
    BY <1>5 DEF InsertAccount
  <1>6. ASSUME NEW c \in Client, Refind(c) PROVE Departed'
    BY <1>6 DEF Refind
  <1>7. ASSUME NEW c \in Client, Fails(c) \/ SignOutLost(c) PROVE Departed'
    BY <1>7 DEF Fails, SignOutLost
  <1>8. ASSUME NEW c \in Client, SignedIn(c) \/ Exchanged(c) PROVE Departed'
    BY <1>8 DEF SignedIn, Exchanged
  <1>9. ASSUME NEW c \in Client, Me(c) PROVE Departed'
    BY <1>9 DEF Me
  <1>10. ASSUME NEW c \in Client, SignOut(c) PROVE Departed'
    BY <1>10 DEF SignOut
  <1>11. ASSUME NEW c \in Client, SignedOut(c) PROVE Departed'
    BY <1>11 DEF SignedOut, Remember, UnderWay
  <1>12. ASSUME SignOutAll \/ (\E s \in SessionId : SessionExpires(s)) PROVE Departed'
    <2>1. UNCHANGED <<tabs, client, past>> /\ session' \subseteq session
      BY <1>12 DEF SignOutAll, SessionExpires
    <2> QED
      BY <2>1
  <1>13. ASSUME NEW t \in Tab, TokenExpires(t) PROVE Departed'
    BY <1>13 DEF TokenExpires
  <1>14. ASSUME UNCHANGED sessionVars PROVE Departed'
    BY <1>14
  <1> QED
    BY <1>1, <1>2, <1>3, <1>4, <1>5, <1>6, <1>7, <1>8, <1>9, <1>10, <1>11, <1>12, <1>13, <1>14
       DEF SessionNext

(* The invariant holds in every reachable state. *)
LEMMA SessionInvariance == SessionSpec => []SessionInv
  <1>1. SessionInv /\ [SessionNext]_sessionVars => SessionInv'
    BY SessionTypeStep, LinkedStep, DepartedStep DEF SessionInv
  <1> QED
    BY SessionInitInv, <1>1, PTL DEF SessionSpec

(* Types of customer-auth's rows and of the tabs: no token, cookie or client names a
   session that was not created, or an account that does not exist. *)
THEOREM SessionTypeCorrect == SessionSpec => []SessionTypeOK
  BY SessionInvariance, PTL DEF SessionInv

(* For any number of tabs that sign in and exchange at the same time, the person has
   one customer account, and nobody was told of another: ensureCustomerLink. *)
THEOREM AccountUnique == SessionSpec => []OneAccount
  <1>1. SessionInv => OneAccount
    BY DEF SessionInv, Linked, OneAccount
  <1> QED
    BY SessionInvariance, <1>1, PTL

(* A tab that signed out of a session holds a token of it only if it was exchanging
   that session just then. *)
THEOREM SignOutHolds == SessionSpec => []SignedOutStaysOut
  <1>1. SessionInv => SignedOutStaysOut
    BY DEF SessionInv, Departed
  <1> QED
    BY SessionInvariance, <1>1, PTL

-----------------------------------------------------------------------------
(*****************************************************************************)
(* Wallet: one payment of a transfer.                                       *)
(*                                                                          *)
(* PaidOnce holds for two reasons. On the program's route all payments of   *)
(* the tab carry the one id in its storage, and the program lets an id      *)
(* land once (OneIdentifier). On the others a panel knows of the payment    *)
(* it has in flight or was answered, so that the next one from the same     *)
(* panel follows an error (Known, Errors).                                  *)
(*****************************************************************************)

(* Payments are numbered in the order of the presses. *)
Numbered ==
    /\ \E k \in 0 .. MaxPayments : Pressed = 1 .. k
    /\ \A n \in Payment : chain[n] # "none" => call[n] # "none"

OneIdentifier ==
    route = "program" =>
        /\ \A n \in Pressed : paymentId # 0 /\ ident[n] = paymentId
        /\ \A n, m \in Payment : chain[n] = "landed" /\ chain[m] = "landed" => n = m

(* What the mounted panel knows of the payments made from it; none of them was
   interrupted, and none is from a panel to come. *)
Known ==
    \A n \in Pressed :
        /\ from[n] \in 1 .. mounts
        /\ from[n] = mounts =>
              /\ call[n] \in {"asking", "waiting"} => panel.submitting
              /\ call[n] = "answered" => panel.result # 0
              /\ call[n] \notin {"orphan", "ended"}

Errors == \A n, m \in Pressed : n < m /\ from[n] = from[m] => call[n] = "error"

WalletInv == WalletTypeOK /\ Numbered /\ OneIdentifier /\ Known /\ Errors

(* The bounds are positive. *)
LEMMA WalletBounds == MaxPayments \in Nat \ {0} /\ MaxMounts \in Nat \ {0}
  BY WalletAssumption

USE WalletBounds

(* A new panel is one. *)
LEMMA NewPanelTyped ==
  ASSUME NEW b \in BOOLEAN, NEW i \in Identifier
  PROVE  NewPanel(b, i) \in Panel
  <1>1. 0 \in Identifier
    BY DEF Identifier
  <1> QED
    BY <1>1, Zenon DEF Panel, NewPanel

(* The verifications of payments by panels are of their type. *)
LEMMA VerificationChanges ==
  /\ \A tx \in Payment, m \in 1 .. MaxMounts, s \in {"asked", "timer"} : Check(tx, m, s) \in Verification
  /\ \A v \in Verification : v.tx \in Payment /\ v.mount \in 1 .. MaxMounts
  BY DEF Check, Verification

(* The initial states satisfy the invariant. *)
LEMMA WalletInitInv == WalletInit => WalletInv
  <1> SUFFICES ASSUME WalletInit PROVE WalletInv
    OBVIOUS
  <1>1. WalletTypeOK
    <2>1. 0 \in Identifier /\ 0 \in 0 .. MaxMounts /\ 1 \in 1 .. MaxMounts
      BY DEF Identifier
    <2>2. NewPanel(FALSE, 0) \in Panel
      BY <2>1, NewPanelTyped
    <2> QED
      BY <2>1, <2>2 DEF WalletInit, WalletTypeOK
  <1>2. Pressed = {} /\ Pressed = 1 .. 0
    BY DEF WalletInit, Pressed
  <1> QED
    BY <1>1, <1>2 DEF WalletInit, WalletInv, Numbered, OneIdentifier, Known, Errors, Payment

(* A press makes the next payment. *)
LEMMA NextPayment ==
  ASSUME Numbered
  PROVE  \E k \in 0 .. MaxPayments : Pressed = 1 .. k /\ Cardinality(Pressed) = k
  <1>1. PICK k \in 0 .. MaxPayments : Pressed = 1 .. k
    BY DEF Numbered
  <1>2. Cardinality(1 .. k) = k
    BY FS_Interval
  <1> QED
    BY <1>1, <1>2

(* ... namely payment k + 1, after k of them. *)
LEMMA Press ==
  ASSUME WalletTypeOK, Numbered, SubmitPayment
  PROVE  \E k \in 0 .. MaxPayments :
            /\ Pressed = 1 .. k /\ Cardinality(Pressed) = k
            /\ k + 1 \in Payment /\ k + 1 \notin Pressed
            /\ call' = [call EXCEPT ![k + 1] = "asking"]
            /\ Pressed' = Pressed \cup {k + 1}
  <1>1. PICK k \in 0 .. MaxPayments : Pressed = 1 .. k /\ Cardinality(Pressed) = k
    BY NextPayment
  <1>2. k + 1 <= MaxPayments /\ call' = [call EXCEPT ![k + 1] = "asking"]
    BY <1>1 DEF SubmitPayment
  <1>3. k + 1 \in Payment
    BY <1>2 DEF Payment
  <1>4. k + 1 \notin Pressed
    BY <1>1
  <1>5. Pressed' = Pressed \cup {k + 1}
    BY <1>2, <1>3 DEF Pressed, WalletTypeOK
  <1> QED
    BY <1>1, <1>2, <1>3, <1>4, <1>5

(* A panel that answers of core-api are shown on stays one. *)
LEMMA ShowsPanel ==
  ASSUME panel \in Panel, NEW m,
         NEW s \in {"idle", "verifying", "confirmed", "duplicate", "pending", "failed"}
  PROVE  Shows(m, s) \in Panel
  <1>1. [panel EXCEPT !.verify = s] \in Panel
    BY DEF Panel
  <1> QED
    BY <1>1 DEF Shows

(* Every step keeps the types: one step of the proof per action. *)
LEMMA WalletTypeStep == WalletInv /\ [WalletNext]_walletVars => WalletTypeOK'
  <1> SUFFICES ASSUME WalletInv, [WalletNext]_walletVars PROVE WalletTypeOK'
    OBVIOUS
  <1> USE DEF WalletTypeOK, walletVars, storage, payments
  <1>0. WalletTypeOK
    BY DEF WalletInv
  <1>1. CASE Connect
    <2>1. [panel EXCEPT !.connected = TRUE] \in Panel
      BY <1>0 DEF Panel
    <2> QED
      BY <1>0, <1>1, <2>1 DEF Connect
  <1>2. CASE SubmitPayment
    <2>1. PICK k \in 0 .. MaxPayments : Pressed = 1 .. k /\ Cardinality(Pressed) = k
      BY NextPayment DEF WalletInv
    <2>2. [panel EXCEPT !.submitting = TRUE] \in Panel
      BY <1>0 DEF Panel
    <2>3. k + 1 \in Payment /\ k + 1 \in Identifier /\ PaymentIdOf(k + 1) \in Identifier
      BY <1>0, <1>2, <2>1 DEF SubmitPayment, PaymentIdOf, Payment, Identifier
    <2>4. call' \in [Payment -> {"none", "asking", "waiting", "answered", "error", "orphan", "ended"}]
      BY <1>0, <1>2, <2>1, <2>3 DEF SubmitPayment
    <2>5. from' \in [Payment -> 0 .. MaxMounts]
      BY <1>0, <1>2, <2>1, <2>3 DEF SubmitPayment
    <2>6. ident' \in [Payment -> Identifier] /\ paymentId' \in Identifier
      <3>1. \/ ident' = [ident EXCEPT ![k + 1] = PaymentIdOf(k + 1)] /\ paymentId' = PaymentIdOf(k + 1)
            \/ UNCHANGED <<ident, paymentId>>
        BY <1>2, <2>1 DEF SubmitPayment
      <3>2. 0 \in Identifier /\ ident \in [Payment -> Identifier] /\ paymentId \in Identifier
        BY <1>0 DEF Identifier
      <3> QED
        BY <2>3, <3>1, <3>2
    <2> QED
      BY <1>0, <1>2, <2>2, <2>4, <2>5, <2>6 DEF SubmitPayment
  <1>3. CASE RetryVerification
    <2>1. Shows(mounts, "verifying") \in Panel
      BY <1>0, ShowsPanel
    <2>2. panel.last \in Payment
      BY <1>0, <1>3 DEF RetryVerification, Panel, Payment, Identifier
    <2> QED
      BY <1>0, <1>3, <2>1, <2>2, VerificationChanges DEF RetryVerification
  <1>4. CASE WatcherFunds
    BY <1>0, <1>4 DEF WatcherFunds
  <1>5. CASE PollFunded
    <2>1. [panel EXCEPT !.open = FALSE] \in Panel
      BY <1>0 DEF Panel
    <2> QED
      BY <1>0, <1>5, <2>1 DEF PollFunded
  <1>6. CASE Reopen
    <2>1. NewPanel(panel.connected /\ route # "base", lastTx) \in Panel
      BY <1>0, NewPanelTyped
    <2> QED
      BY <1>0, <1>6, <2>1 DEF Reopen, Mount
  <1>7. CASE Reload
    <2>1. NewPanel(FALSE, lastTx) \in Panel
      BY <1>0, NewPanelTyped
    <2>2. call' \in [Payment -> {"none", "asking", "waiting", "answered", "error", "orphan", "ended"}]
      BY <1>0, <1>7 DEF Reload
    <2>3. Mount(FALSE) /\ verifying' \subseteq Verification
      BY <1>7 DEF Reload
    <2>4. panel' \in Panel
      BY <2>1, <2>3 DEF Mount
    <2>5. mounts' \in 1 .. MaxMounts
      BY <1>0, <2>3 DEF Mount
    <2>6. UNCHANGED <<route, paymentId, lastTx, drafted, chain, from, ident, funded>>
      BY <2>3 DEF Mount
    <2> QED
      BY <1>0, <2>2, <2>3, <2>4, <2>5, <2>6
  <1>8. ASSUME NEW n \in Payment, SendBase(n) \/ SendDirect(n) \/ SendProgram(n) PROVE WalletTypeOK'
    <2>1. Sent(n)
      BY <1>8 DEF SendBase, SendDirect, SendProgram
    <2> QED
      BY <1>0, <2>1 DEF Sent
  <1>9. ASSUME NEW n \in Payment, Decline(n) \/ PaymentFails(n) PROVE WalletTypeOK'
    <2>1. Ends(n, "error")
      BY <1>9 DEF Decline, PaymentFails
    <2>2. [panel EXCEPT !.submitting = FALSE] \in Panel
      BY <1>0 DEF Panel
    <2> QED
      BY <1>0, <2>1, <2>2 DEF Ends
  <1>10. ASSUME NEW n \in Payment, Land(n) PROVE WalletTypeOK'
    BY <1>0, <1>10 DEF Land
  <1>11. ASSUME NEW n \in Payment, Revert(n) PROVE WalletTypeOK'
    BY <1>0, <1>11 DEF Revert
  <1>12. ASSUME NEW n \in Payment, PaymentAnswered(n) PROVE WalletTypeOK'
    <2>1. n \in Pressed
      BY <1>12 DEF PaymentAnswered, Pressed
    <2>2. from[n] \in 1 .. MaxMounts
      BY <1>0, <2>1 DEF WalletInv, Known
    <2>3. Check(n, from[n], "asked") \in Verification
      BY <2>2, VerificationChanges
    <2>4. n \in Identifier
      BY DEF Payment, Identifier
    <2>5. [panel EXCEPT !.submitting = FALSE, !.result = n, !.last = n, !.verify = "verifying"] \in Panel
      BY <1>0, <2>4 DEF Panel
    <2> QED
      BY <1>0, <1>12, <2>3, <2>4, <2>5 DEF PaymentAnswered
  <1>13. ASSUME NEW v \in verifying, TimerFires(v) PROVE WalletTypeOK'
    <2>1. Shows(v.mount, "verifying") \in Panel
      BY <1>0, ShowsPanel
    <2>2. Check(v.tx, v.mount, "asked") \in Verification
      BY <1>0, VerificationChanges
    <2> QED
      BY <1>0, <1>13, <2>1, <2>2 DEF TimerFires
  <1>14. ASSUME NEW v \in verifying, BackendConfirms(v) PROVE WalletTypeOK'
    <2>1. Shows(v.mount, "confirmed") \in Panel
      BY <1>0, ShowsPanel
    <2>2. [Shows(v.mount, "confirmed") EXCEPT !.open = FALSE] \in Panel
      BY <2>1 DEF Panel
    <2> QED
      BY <1>0, <1>14, <2>2 DEF BackendConfirms, Over
  <1>15. ASSUME NEW v \in verifying, BackendDuplicate(v) \/ BackendFails(v) PROVE WalletTypeOK'
    <2>1. Shows(v.mount, "duplicate") \in Panel /\ Shows(v.mount, "failed") \in Panel
      BY <1>0, ShowsPanel
    <2> QED
      BY <1>0, <1>15, <2>1 DEF BackendDuplicate, BackendFails, Over
  <1>16. ASSUME NEW v \in verifying, BackendPending(v) PROVE WalletTypeOK'
    <2>1. Shows(v.mount, "pending") \in Panel
      BY <1>0, ShowsPanel
    <2>2. Check(v.tx, v.mount, "timer") \in Verification
      BY <1>0, VerificationChanges
    <2> QED
      BY <1>0, <1>16, <2>1, <2>2 DEF BackendPending, Over
  <1>17. CASE UNCHANGED walletVars
    BY <1>0, <1>17
  <1> QED
    BY <1>1, <1>2, <1>3, <1>4, <1>5, <1>6, <1>7, <1>8, <1>9, <1>10, <1>11, <1>12, <1>13, <1>14,
       <1>15, <1>16, <1>17 DEF WalletNext

(* No step disturbs the numbers of the payments. *)
LEMMA NumberedStep == WalletInv /\ [WalletNext]_walletVars => Numbered'
  <1> SUFFICES ASSUME WalletInv, [WalletNext]_walletVars PROVE Numbered'
    OBVIOUS
  <1> USE DEF walletVars, storage, payments
  <1>0. WalletTypeOK /\ Numbered
    BY DEF WalletInv
  <1>1. CASE SubmitPayment
    <2>1. PICK k \in 0 .. MaxPayments : Pressed = 1 .. k /\ Cardinality(Pressed) = k
      BY NextPayment, <1>0
    <2>2. k + 1 \in Payment /\ call' = [call EXCEPT ![k + 1] = "asking"] /\ UNCHANGED chain
      <3>1. k + 1 <= MaxPayments
        BY <1>1, <2>1 DEF SubmitPayment
      <3>2. call' = [call EXCEPT ![k + 1] = "asking"] /\ UNCHANGED chain
        BY <1>1, <2>1 DEF SubmitPayment
      <3> QED
        BY <3>1, <3>2 DEF Payment
    <2>3. Pressed' = Pressed \cup {k + 1}
      BY <1>0, <2>2 DEF Pressed, WalletTypeOK
    <2>4. Pressed' = 1 .. k + 1
      BY <2>1, <2>3
    <2>5. \A n \in Payment : call[n] # "none" => call'[n] # "none"
      BY <1>0, <2>2 DEF WalletTypeOK
    <2> QED
      BY <1>0, <2>2, <2>4, <2>5 DEF Numbered, Payment
  <1>2. CASE /\ \A n \in Payment : call[n] = "none" <=> call'[n] = "none"
             /\ \A n \in Payment : chain'[n] # "none" => chain[n] # "none" \/ call[n] # "none"
    <2>1. Pressed' = Pressed
      BY <1>2 DEF Pressed
    <2> QED
      BY <1>0, <1>2, <2>1 DEF Numbered
  <1>3. ASSUME NEW n \in Payment, SendBase(n) \/ SendDirect(n) \/ SendProgram(n) PROVE Numbered'
    BY <1>0, <1>2, <1>3 DEF SendBase, SendDirect, SendProgram, Sent, WalletTypeOK
  <1>4. ASSUME NEW n \in Payment, Decline(n) \/ PaymentFails(n) PROVE Numbered'
    BY <1>0, <1>2, <1>4 DEF Decline, PaymentFails, Ends, WalletTypeOK
  <1>5. ASSUME NEW n \in Payment, Land(n) \/ Revert(n) PROVE Numbered'
    BY <1>0, <1>2, <1>5 DEF Land, Revert, WalletTypeOK
  <1>6. ASSUME NEW n \in Payment, PaymentAnswered(n) PROVE Numbered'
    BY <1>0, <1>2, <1>6 DEF PaymentAnswered, WalletTypeOK
  <1>7. CASE Reload
    <2>1. \A n \in Payment : call[n] = "none" <=> call'[n] = "none"
      BY <1>7 DEF Reload
    <2> QED
      BY <1>2, <1>7, <2>1 DEF Reload, Mount
  <1>8. CASE UNCHANGED <<chain, call>>
    BY <1>2, <1>8
  <1>9. CASE Connect \/ RetryVerification \/ WatcherFunds \/ PollFunded \/ Reopen
    BY <1>8, <1>9 DEF Connect, RetryVerification, WatcherFunds, PollFunded, Reopen, Mount
  <1>10. ASSUME NEW v \in verifying, TimerFires(v) \/ BackendConfirms(v) \/ BackendDuplicate(v)
                                      \/ BackendPending(v) \/ BackendFails(v) PROVE Numbered'
    BY <1>8, <1>10 DEF TimerFires, BackendConfirms, BackendDuplicate, BackendPending, BackendFails
  <1> QED
    BY <1>1, <1>3, <1>4, <1>5, <1>6, <1>7, <1>8, <1>9, <1>10 DEF WalletNext

(* Every step keeps Errors: but for a press, which a panel allows only when its earlier
   payments are errors, payments stay of their panels and errors stay errors. *)
LEMMA ErrorsStep == WalletInv /\ [WalletNext]_walletVars => Errors'
  <1> SUFFICES ASSUME WalletInv, [WalletNext]_walletVars PROVE Errors'
    OBVIOUS
  <1> USE DEF walletVars, storage, payments
  <1>0. WalletTypeOK /\ Known /\ Errors
    BY DEF WalletInv
  <1>1. CASE SubmitPayment
    <2>1. PICK k \in 0 .. MaxPayments :
            /\ Pressed = 1 .. k /\ Cardinality(Pressed) = k
            /\ k + 1 \in Payment /\ k + 1 \notin Pressed
            /\ call' = [call EXCEPT ![k + 1] = "asking"]
            /\ Pressed' = Pressed \cup {k + 1}
      BY <1>1, Press DEF WalletInv
    <2>2. /\ k + 1 <= MaxPayments
          /\ call' = [call EXCEPT ![k + 1] = "asking"] /\ from' = [from EXCEPT ![k + 1] = mounts]
          /\ ~panel.submitting /\ panel.result = 0
      BY <1>1, <2>1 DEF SubmitPayment
    <2>3. Pressed' = Pressed \cup {k + 1} /\ k + 1 \notin Pressed /\ k + 1 \in Payment
      BY <2>1
    <2>4. \A n \in Pressed : n < k + 1 /\ call'[n] = call[n] /\ from'[n] = from[n]
      <3>1. \A n \in Pressed : n < k + 1
        BY <2>1
      <3>2. \A n \in Pressed : n \in Payment /\ n # k + 1
        BY <2>3 DEF Pressed
      <3>3. \A n \in Payment : n # k + 1 => call'[n] = call[n] /\ from'[n] = from[n]
        BY <1>0, <2>2 DEF WalletTypeOK
      <3> QED
        BY <3>1, <3>2, <3>3
    <2>5. \A n \in Pressed : from[n] = mounts => call[n] = "error"
      BY <1>0, <2>2 DEF Known, WalletTypeOK, Pressed
    <2>6. from'[k + 1] = mounts
      BY <1>0, <2>2, <2>3 DEF WalletTypeOK
    <2> QED
      BY <1>0, <2>1, <2>3, <2>4, <2>5, <2>6 DEF Errors
  <1>2. CASE /\ UNCHANGED from
             /\ \A n \in Payment : call[n] = "none" <=> call'[n] = "none"
             /\ \A n \in Payment : call[n] = "error" => call'[n] = "error"
    <2>1. Pressed' = Pressed
      BY <1>2 DEF Pressed
    <2> QED
      BY <1>0, <1>2, <2>1 DEF Errors, Pressed
  <1>3. ASSUME NEW n \in Payment, SendBase(n) \/ SendDirect(n) \/ SendProgram(n) PROVE Errors'
    BY <1>0, <1>2, <1>3 DEF SendBase, SendDirect, SendProgram, Sent, WalletTypeOK
  <1>4. ASSUME NEW n \in Payment, Decline(n) \/ PaymentFails(n) PROVE Errors'
    BY <1>0, <1>2, <1>4 DEF Decline, PaymentFails, Ends, WalletTypeOK
  <1>5. ASSUME NEW n \in Payment, PaymentAnswered(n) PROVE Errors'
    BY <1>0, <1>2, <1>5 DEF PaymentAnswered, WalletTypeOK
  <1>6. CASE Reload
    <2>1. \A n \in Payment : call[n] = "none" <=> call'[n] = "none"
      BY <1>6 DEF Reload
    <2>2. \A n \in Payment : call[n] = "error" => call'[n] = "error"
      BY <1>6 DEF Reload
    <2> QED
      BY <1>2, <1>6, <2>1, <2>2 DEF Reload, Mount
  <1>7. CASE UNCHANGED <<call, from>>
    BY <1>2, <1>7
  <1>8. CASE Connect \/ RetryVerification \/ WatcherFunds \/ PollFunded \/ Reopen
    BY <1>7, <1>8 DEF Connect, RetryVerification, WatcherFunds, PollFunded, Reopen, Mount
  <1>9. ASSUME NEW n \in Payment, Land(n) \/ Revert(n) PROVE Errors'
    BY <1>7, <1>9 DEF Land, Revert
  <1>10. ASSUME NEW v \in verifying, TimerFires(v) \/ BackendConfirms(v) \/ BackendDuplicate(v)
                                      \/ BackendPending(v) \/ BackendFails(v) PROVE Errors'
    BY <1>7, <1>10 DEF TimerFires, BackendConfirms, BackendDuplicate, BackendPending, BackendFails
  <1> QED
    BY <1>1, <1>3, <1>4, <1>5, <1>6, <1>7, <1>8, <1>9, <1>10 DEF WalletNext

(* A panel loses sight of no payment: while it is mounted, only its own payments
   change what it knows, and at most one of them is in flight. *)
LEMMA KnownStep == WalletInv /\ [WalletNext]_walletVars => Known'
  <1> SUFFICES ASSUME WalletInv, [WalletNext]_walletVars PROVE Known'
    OBVIOUS
  <1> USE DEF walletVars, storage, payments
  <1>0. WalletTypeOK /\ Known /\ Errors
    BY DEF WalletInv
  <1>1. CASE SubmitPayment
    <2>1. PICK k \in 0 .. MaxPayments :
            /\ Pressed = 1 .. k /\ Cardinality(Pressed) = k
            /\ k + 1 \in Payment /\ k + 1 \notin Pressed
            /\ call' = [call EXCEPT ![k + 1] = "asking"]
            /\ Pressed' = Pressed \cup {k + 1}
      BY <1>1, Press DEF WalletInv
    <2>2. /\ k + 1 <= MaxPayments
          /\ call' = [call EXCEPT ![k + 1] = "asking"] /\ from' = [from EXCEPT ![k + 1] = mounts]
          /\ panel' = [panel EXCEPT !.submitting = TRUE] /\ UNCHANGED mounts
      BY <1>1, <2>1 DEF SubmitPayment
    <2>3. Pressed' = Pressed \cup {k + 1} /\ k + 1 \notin Pressed /\ k + 1 \in Payment
      BY <2>1
    <2>4. \A n \in Pressed : call'[n] = call[n] /\ from'[n] = from[n]
      BY <1>0, <2>1, <2>2, <2>3 DEF WalletTypeOK, Pressed, Payment
    <2>5. from'[k + 1] = mounts /\ call'[k + 1] = "asking"
      BY <1>0, <2>2, <2>3 DEF WalletTypeOK
    <2>6. panel'.submitting /\ panel'.result = panel.result
      BY <1>0, <2>2 DEF WalletTypeOK, Panel
    <2> QED
      BY <1>0, <2>2, <2>3, <2>4, <2>5, <2>6 DEF Known, WalletTypeOK
  <1>2. CASE UNCHANGED <<call, from, mounts>> /\ panel'.submitting = panel.submitting
             /\ panel'.result = panel.result
    BY <1>0, <1>2 DEF Known, Pressed
  <1>3. ASSUME NEW m, NEW s, panel' = Shows(m, s) PROVE panel'.submitting = panel.submitting /\ panel'.result = panel.result
    BY <1>0, <1>3 DEF Shows, WalletTypeOK, Panel
  <1>4. CASE Connect \/ RetryVerification \/ WatcherFunds \/ PollFunded
    <2>1. panel'.submitting = panel.submitting /\ panel'.result = panel.result
      BY <1>0, <1>3, <1>4 DEF Connect, RetryVerification, WatcherFunds, PollFunded, WalletTypeOK, Panel
    <2> QED
      BY <1>2, <1>4, <2>1 DEF Connect, RetryVerification, WatcherFunds, PollFunded
  <1>5. ASSUME NEW n \in Payment, Land(n) \/ Revert(n) PROVE Known'
    BY <1>2, <1>5 DEF Land, Revert
  <1>6. ASSUME NEW v \in verifying, TimerFires(v) \/ BackendDuplicate(v) \/ BackendPending(v)
                                      \/ BackendFails(v) PROVE Known'
    BY <1>2, <1>3, <1>6 DEF TimerFires, BackendDuplicate, BackendPending, BackendFails
  <1>7. ASSUME NEW v \in verifying, BackendConfirms(v) PROVE Known'
    <2>1. Shows(v.mount, "confirmed") \in Panel
      BY <1>0, ShowsPanel DEF WalletTypeOK
    <2>2. Shows(v.mount, "confirmed").submitting = panel.submitting
          /\ Shows(v.mount, "confirmed").result = panel.result
      BY <1>0 DEF Shows, WalletTypeOK, Panel
    <2>3. panel'.submitting = panel.submitting /\ panel'.result = panel.result
      BY <1>7, <2>1, <2>2 DEF BackendConfirms, Panel
    <2> QED
      BY <1>2, <1>7, <2>3 DEF BackendConfirms
  <1>8. CASE Reopen \/ Reload
    <2>1. mounts' = mounts + 1 /\ UNCHANGED from
      BY <1>8 DEF Reopen, Reload, Mount
    <2>2. Pressed' = Pressed
      BY <1>8 DEF Reopen, Reload, Pressed
    <2>3. \A n \in Pressed : from[n] \in 1 .. mounts' /\ from[n] # mounts'
      BY <1>0, <2>1 DEF Known, WalletTypeOK
    <2> QED
      BY <2>1, <2>2, <2>3 DEF Known
  <1>9. ASSUME NEW n \in Payment, SendBase(n) \/ SendDirect(n) \/ SendProgram(n) PROVE Known'
    <2>1. /\ call' = [call EXCEPT ![n] = IF @ = "orphan" THEN "ended" ELSE "waiting"]
          /\ UNCHANGED <<panel, mounts, from>> /\ call[n] \in {"asking", "orphan"}
      BY <1>9 DEF SendBase, SendDirect, SendProgram, Sent
    <2>2. Pressed' = Pressed /\ n \in Pressed
      BY <1>0, <2>1 DEF Pressed, WalletTypeOK
    <2> QED
      BY <1>0, <2>1, <2>2 DEF Known, WalletTypeOK, Pressed
  <1>10. ASSUME NEW n \in Payment, Decline(n) \/ PaymentFails(n) \/ PaymentAnswered(n) PROVE Known'
    <2>1. PICK s \in {"error", "answered"} : call' = [call EXCEPT ![n] = s]
      BY <1>10 DEF Decline, PaymentFails, PaymentAnswered, Ends
    <2>2. UNCHANGED <<mounts, from>> /\ call[n] \in {"asking", "waiting"}
      BY <1>10 DEF Decline, PaymentFails, PaymentAnswered, Ends
    <2>3. Pressed' = Pressed /\ n \in Pressed
      BY <1>0, <2>1, <2>2 DEF Pressed, WalletTypeOK
    <2>4. ASSUME NEW m \in Pressed, m # n, from[m] = mounts, from[n] = mounts PROVE call[m] \notin {"asking", "waiting"}
      <3>1. CASE m < n
        BY <1>0, <2>3, <2>4, <3>1 DEF Errors
      <3>2. CASE n < m
        BY <1>0, <2>2, <2>3, <2>4, <3>2 DEF Errors
      <3> QED
        BY <2>4, <3>1, <3>2 DEF Pressed, Payment
    <2>5. from[n] # mounts => UNCHANGED panel
      BY <1>10 DEF Decline, PaymentFails, PaymentAnswered, Ends
    <2>6. /\ panel'.result # 0 \/ panel'.result = panel.result
          /\ from[n] = mounts /\ s = "answered" => panel'.result # 0
      <3>1. n # 0 /\ n \in Identifier
        BY DEF Payment, Identifier
      <3>2. CASE Ends(n, "error")
        <4>1. call'[n] = "error" /\ s = "error"
          BY <1>0, <2>1, <3>2 DEF Ends, WalletTypeOK
        <4>2. panel'.result = panel.result
          BY <1>0, <3>2 DEF Ends, WalletTypeOK, Panel
        <4> QED
          BY <4>1, <4>2
      <3>3. CASE PaymentAnswered(n)
        <4>1. [panel EXCEPT !.submitting = FALSE, !.result = n, !.last = n, !.verify = "verifying"].result = n
          BY <1>0 DEF WalletTypeOK, Panel
        <4>2. IF from[n] = mounts THEN panel'.result = n ELSE panel' = panel
          BY <3>3, <4>1 DEF PaymentAnswered
        <4> QED
          BY <3>1, <4>2
      <3> QED
        BY <1>10, <3>2, <3>3 DEF Decline, PaymentFails
    <2>7. \A m \in Pressed : m # n => call'[m] = call[m]
      BY <1>0, <2>1 DEF WalletTypeOK, Pressed
    <2>8. call'[n] = s
      BY <1>0, <2>1 DEF WalletTypeOK
    <2> SUFFICES ASSUME NEW m \in Pressed
                 PROVE  /\ from[m] \in 1 .. mounts
                        /\ from[m] = mounts =>
                              /\ call'[m] \in {"asking", "waiting"} => panel'.submitting
                              /\ call'[m] = "answered" => panel'.result # 0
                              /\ call'[m] \notin {"orphan", "ended"}
      BY <2>2, <2>3 DEF Known
    <2>9. CASE m = n
      BY <1>0, <2>1, <2>6, <2>8, <2>9 DEF Known
    <2>10. CASE m # n
      BY <1>0, <2>4, <2>5, <2>6, <2>7, <2>10 DEF Known
    <2> QED
      BY <2>9, <2>10
  <1>11. CASE UNCHANGED walletVars
    BY <1>2, <1>11
  <1> QED
    BY <1>1, <1>4, <1>5, <1>6, <1>7, <1>8, <1>9, <1>10, <1>11 DEF WalletNext

(* On the program's route a new payment carries the id in the storage, which never
   changes, and none lands when another has. *)
LEMMA OneIdentifierStep == WalletInv /\ [WalletNext]_walletVars => OneIdentifier'
  <1> SUFFICES ASSUME WalletInv, [WalletNext]_walletVars, route' = "program" PROVE OneIdentifier'
    BY DEF OneIdentifier
  <1> USE DEF walletVars, storage, payments
  <1>0. WalletTypeOK /\ Numbered /\ OneIdentifier
    BY DEF WalletInv
  <1>1. route = "program"
    BY DEF WalletNext, Connect, SubmitPayment, RetryVerification, WatcherFunds, PollFunded, Reopen,
           Reload, Mount, SendBase, SendDirect, SendProgram, Sent, Decline, PaymentFails, Ends,
           PaymentAnswered, Land, Revert, TimerFires, BackendConfirms, BackendDuplicate,
           BackendPending, BackendFails
  <1>2. CASE SubmitPayment
    <2>1. PICK k \in 0 .. MaxPayments :
            /\ Pressed = 1 .. k /\ Cardinality(Pressed) = k
            /\ k + 1 \in Payment /\ k + 1 \notin Pressed
            /\ call' = [call EXCEPT ![k + 1] = "asking"]
            /\ Pressed' = Pressed \cup {k + 1}
      BY <1>0, <1>2, Press
    <2>2. /\ k + 1 <= MaxPayments /\ call' = [call EXCEPT ![k + 1] = "asking"]
          /\ paymentId' = PaymentIdOf(k + 1) /\ ident' = [ident EXCEPT ![k + 1] = PaymentIdOf(k + 1)]
          /\ UNCHANGED chain
      BY <1>1, <1>2, <2>1 DEF SubmitPayment
    <2>3. Pressed' = Pressed \cup {k + 1} /\ k + 1 \notin Pressed /\ k + 1 \in Payment
      BY <2>1
    <2>4. \A n \in Pressed : ident'[n] = ident[n] /\ paymentId' = paymentId
      BY <1>0, <1>1, <2>2, <2>3 DEF WalletTypeOK, Pressed, OneIdentifier, PaymentIdOf
    <2>5. ident'[k + 1] = paymentId' /\ paymentId' # 0
      BY <1>0, <2>2, <2>3 DEF WalletTypeOK, PaymentIdOf
    <2> QED
      BY <1>0, <1>1, <2>2, <2>3, <2>4, <2>5 DEF OneIdentifier
  <1>3. CASE /\ \A n \in Payment : call[n] = "none" <=> call'[n] = "none"
             /\ \A n \in Payment : chain'[n] = "landed" => chain[n] = "landed"
             /\ UNCHANGED <<paymentId, ident>>
    <2>1. Pressed' = Pressed
      BY <1>3 DEF Pressed
    <2> QED
      BY <1>0, <1>1, <1>3, <2>1 DEF OneIdentifier
  <1>4. ASSUME NEW n \in Payment, Land(n) PROVE OneIdentifier'
    <2>1. ~Used(n) /\ chain' = [chain EXCEPT ![n] = "landed"] /\ chain[n] = "sent" /\ UNCHANGED <<call, paymentId, ident>>
      BY <1>1, <1>4 DEF Land
    <2>2. n \in Pressed /\ Pressed' = Pressed
      BY <1>0, <2>1 DEF Numbered, Pressed
    <2>3. ASSUME NEW m \in Payment, chain[m] = "landed" PROVE FALSE
      <3>1. m \in Pressed
        BY <1>0, <2>3 DEF Numbered, Pressed
      <3> QED
        BY <1>0, <1>1, <2>1, <2>2, <2>3, <3>1 DEF Used, OneIdentifier
    <2> QED
      BY <1>0, <1>1, <2>1, <2>2, <2>3 DEF OneIdentifier, WalletTypeOK
  <1>5. ASSUME NEW n \in Payment, SendBase(n) \/ SendDirect(n) \/ SendProgram(n) PROVE OneIdentifier'
    BY <1>0, <1>3, <1>5 DEF SendBase, SendDirect, SendProgram, Sent, WalletTypeOK
  <1>6. ASSUME NEW n \in Payment, Decline(n) \/ PaymentFails(n) PROVE OneIdentifier'
    BY <1>0, <1>3, <1>6 DEF Decline, PaymentFails, Ends, WalletTypeOK
  <1>7. ASSUME NEW n \in Payment, PaymentAnswered(n) PROVE OneIdentifier'
    BY <1>0, <1>3, <1>7 DEF PaymentAnswered, WalletTypeOK
  <1>8. ASSUME NEW n \in Payment, Revert(n) PROVE OneIdentifier'
    BY <1>0, <1>3, <1>8 DEF Revert, WalletTypeOK
  <1>9. CASE Reload
    <2>1. \A n \in Payment : call[n] = "none" <=> call'[n] = "none"
      BY <1>9 DEF Reload
    <2> QED
      BY <1>3, <1>9, <2>1 DEF Reload, Mount
  <1>10. CASE UNCHANGED <<call, chain, paymentId, ident>>
    BY <1>3, <1>10
  <1>11. CASE Connect \/ RetryVerification \/ WatcherFunds \/ PollFunded \/ Reopen
    BY <1>10, <1>11 DEF Connect, RetryVerification, WatcherFunds, PollFunded, Reopen, Mount
  <1>12. ASSUME NEW v \in verifying, TimerFires(v) \/ BackendConfirms(v) \/ BackendDuplicate(v)
                                      \/ BackendPending(v) \/ BackendFails(v) PROVE OneIdentifier'
    BY <1>10, <1>12 DEF TimerFires, BackendConfirms, BackendDuplicate, BackendPending, BackendFails
  <1> QED
    BY <1>2, <1>4, <1>5, <1>6, <1>7, <1>8, <1>9, <1>10, <1>11, <1>12 DEF WalletNext

(* The invariant holds in every reachable state. *)
LEMMA WalletInvariance == WalletSpec => []WalletInv
  <1>1. WalletInv /\ [WalletNext]_walletVars => WalletInv'
    BY WalletTypeStep, NumberedStep, OneIdentifierStep, KnownStep, ErrorsStep DEF WalletInv
  <1> QED
    BY WalletInitInv, <1>1, PTL DEF WalletSpec

(* Types of the panel, of its payments and of what is kept in the tab. *)
THEOREM WalletTypeCorrect == WalletSpec => []WalletTypeOK
  BY WalletInvariance, PTL DEF WalletInv

(* For any number of presses, retries and reloads, a transfer on the program's route
   is paid once, and another one twice only from two panels or after an error. *)
THEOREM PaidAtMostOnce == WalletSpec => []PaidOnce
  <1>1. ASSUME WalletInv PROVE PaidOnce
    <2> SUFFICES ASSUME NEW n \in Payment, NEW m \in Payment, n < m,
                        chain[n] = "landed", chain[m] = "landed"
                 PROVE  route # "program" /\ (from[n] # from[m] \/ call[n] = "error")
      BY DEF PaidOnce
    <2>1. n \in Pressed /\ m \in Pressed
      BY <1>1 DEF WalletInv, Numbered, Pressed
    <2>2. route # "program"
      BY <1>1 DEF WalletInv, OneIdentifier, Payment
    <2> QED
      BY <1>1, <2>1, <2>2 DEF WalletInv, Errors
  <1> QED
    BY WalletInvariance, <1>1, PTL
=============================================================================
