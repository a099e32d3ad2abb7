---------------------------- MODULE SolanaProofs ----------------------------
(***************************************************************************)
(* Proofs of the safety properties of SolanaWatcher, for any number of     *)
(* runners, transactions, payments in them, slots and faults.              *)
(***************************************************************************)
EXTENDS SolanaWatcher, TLAPS

(* What may happen to a payment up to a cursor. *)
Accounted(p) == p \in reported \cup missed \/ Shadowed(p) \/ p.to \in Stranger

Behind(n) == \A p \in AllPayments : mined[p.tx] \in 1 .. n => Accounted(p)

(* What the poll in progress of a runner knows of the payments up to `to': after
   the treasury has been read, those by the program are accounted for or in the
   queue; the addresses listed are those that have been paid; at the end all
   payments are accounted for or in the queue. *)
Scanned(w) ==
    LET r == runner[w] IN
    \A p \in AllPayments : mined[p.tx] \in 1 .. r.to =>
       /\ r.step \in {"next", "publish", "mark", "save"} => Accounted(p) \/ p \in r.queue
       /\ r.step \in {"routes", "addresses"} /\ p.byProgram => Accounted(p) \/ p \in r.queue
       /\ r.step = "addresses" /\ ~p.byProgram => p.to \in r.routes

Queued(w) ==
    LET r == runner[w] IN
    /\ \A p \in r.queue : Final(p.tx) /\ (r.step \in {"routes", "addresses"} => p.byProgram)
    /\ r.step \in {"publish", "mark"} => r.at \in r.queue
    /\ r.step = "mark" => r.at \in reported
    /\ r.step \in {"idle", "treasury", "save", "reload"} => r.queue = {}

Known(w) == Behind(runner[w].from) /\ Scanned(w) /\ Queued(w)

(* A transaction pays transfers that exist. *)
PaidOpened == \A x \in Tx : mined[x] # 0 => Paid(x) \subseteq opened

(* A key is marked when a payment with it was reported. *)
SeenReported == \A k \in seen : \E q \in reported : Key(q) = k

(* An event numbered 0 credits a transfer that its transaction pays, or one of the
   program when the transaction names none; the others are the program's. *)
Claims(t, k) ==
    IF k[2] = 0 THEN t \in Paid(k[1]) \/ (t \notin Address /\ Unnamed(k[1]))
                ELSE t = content[k[1]].events[k[2] + 1]
EventClaimed == \A k \in DOMAIN event : Claims(event[k], k)

(* A reported payment has funded its transfer, or was refused, or found its key. *)
Refused(p) == \E r \in rejected : r.t = p.to /\ r.tx = p.tx
Settled == \A p \in reported : IsFunded(p.to) \/ Refused(p) \/ Taken(Key(p))

(* The tables of core-api. *)
CoreInv == EventClaimed /\ Settled /\ ToleranceHonoured

Inv ==
    /\ TypeOK
    /\ PaidOpened /\ SeenReported
    /\ CursorSafe
    /\ CoreInv
    /\ \A w \in Runner : Known(w)

RunnerType ==
    [step : Step, from : 0 .. slot, to : 0 .. slot, routes : SUBSET Address,
     queue : SUBSET AllPayments, at : AllPayments \cup {Nobody}, initial : BOOLEAN]

-----------------------------------------------------------------------------
(***************************************************************************)
(* Payments.                                                               *)
(***************************************************************************)

(* The contents of a transaction, of the types the constants have. *)
LEMMA ContentType ==
  ASSUME content \in [Tx -> Content], NEW x \in Tx
  PROVE  /\ content[x].events \in Seq((Transfer \ Address) \cup Stranger)
         /\ \A i \in DOMAIN content[x].events :
               i \in Nat \ {0} /\ content[x].events[i] \in (Transfer \ Address) \cup Stranger
         /\ content[x].credits \subseteq Address \cup {Treasury}
         /\ content[x].units \in Nat \ {0}
<1>1. content[x] \in Content
  OBVIOUS
<1>2. content[x].events \in Seq((Transfer \ Address) \cup Stranger)
  BY <1>1, SolanaAssumption
<1>3. \A i \in DOMAIN content[x].events :
         i \in Nat \ {0} /\ content[x].events[i] \in (Transfer \ Address) \cup Stranger
  BY <1>2
<1> QED BY <1>1, <1>2, <1>3, SolanaAssumption

LEMMA PaymentFacts ==
  ASSUME content \in [Tx -> Content], NEW p \in AllPayments
  PROVE  /\ p.tx \in Tx /\ p \in Payments(p.tx)
         /\ p.index \in Nat /\ p.byProgram \in BOOLEAN
         /\ p.byProgram =>
               p \in Programmed(p.tx) /\ p.to \in (Transfer \ Address) \cup Stranger
         /\ ~p.byProgram => p.to \in Address
         /\ p.to \in Transfer => p.to \in Paid(p.tx)
         /\ p # Nobody
<1>1. PICK x \in Tx : p \in Payments(x)
  BY DEF AllPayments
<1>2. CASE p \in Programmed(x)
  <2>1. PICK i \in DOMAIN content[x].events :
          p = [tx |-> x, index |-> i - 1, to |-> content[x].events[i], byProgram |-> TRUE]
    BY <1>2 DEF Programmed
  <2>2. i \in Nat \ {0} /\ content[x].events[i] \in (Transfer \ Address) \cup Stranger
    BY ContentType
  <2>3. p.tx = x /\ p.index = i - 1 /\ p.to = content[x].events[i] /\ p.byProgram
    BY <2>1
  <2>4. p.to \in Range(content[x].events)
    BY <2>3 DEF Range
  <2>5. p # Nobody
    BY <2>1 DEF Nobody
  <2> QED BY <1>1, <1>2, <2>2, <2>3, <2>4, <2>5, SolanaAssumption DEF Paid
<1>3. CASE p \in Credited(x)
  <2>1. PICK t \in content[x].credits \ {Treasury} :
          p = [tx |-> x, index |-> 0, to |-> t, byProgram |-> FALSE]
    BY <1>3 DEF Credited
  <2>2. p.tx = x /\ p.index = 0 /\ p.to = t /\ p.byProgram = FALSE
    BY <2>1
  <2>3. p # Nobody
    BY <2>1 DEF Nobody
  <2>4. t \in Address
    BY ContentType
  <2> QED BY <1>1, <2>1, <2>2, <2>3, <2>4, SolanaAssumption DEF Paid
<1> QED BY <1>1, <1>2, <1>3 DEF Payments

(* But for the first, the numbers are those of the program's events. *)
LEMMA PaymentEvent ==
  ASSUME content \in [Tx -> Content], NEW p \in AllPayments, p.index # 0
  PROVE  p.to = content[p.tx].events[p.index + 1]
<1>1. p \in Programmed(p.tx)
  BY PaymentFacts DEF Payments, Credited
<1>2. PICK i \in DOMAIN content[p.tx].events :
        p = [tx |-> p.tx, index |-> i - 1, to |-> content[p.tx].events[i], byProgram |-> TRUE]
  BY <1>1 DEF Programmed
<1>3. i \in Nat /\ p.index = i - 1 /\ p.to = content[p.tx].events[i]
  BY <1>2, ContentType, PaymentFacts
<1>4. i = p.index + 1
  BY <1>3
<1> QED BY <1>3, <1>4

(* A payment to a transfer has a claim to its key. *)
LEMMA PaymentClaims ==
  ASSUME content \in [Tx -> Content], NEW p \in AllPayments, p.to \in Transfer
  PROVE  Claims(p.to, Key(p))
<1>1. p.to \in Paid(p.tx)
  BY PaymentFacts
<1>2. p.index # 0 => p.to = content[p.tx].events[p.index + 1]
  BY PaymentEvent
<1> QED BY <1>1, <1>2 DEF Claims, Key

(* Two payments with the same key shadow each other. *)
LEMMA SameKeyShadows ==
  ASSUME content \in [Tx -> Content], NEW p \in AllPayments, NEW q \in AllPayments,
         Key(q) = Key(p), q # p
  PROVE  Shadowed(p)
<1>1. q.tx = p.tx /\ q \in Payments(q.tx)
  BY PaymentFacts DEF Key
<1> QED BY <1>1 DEF Shadowed

(* The payments are those of the contents, which do not change. *)
LEMMA Still ==
  ASSUME content' = content
  PROVE  /\ AllPayments' = AllPayments
         /\ \A p : Shadowed(p)' <=> Shadowed(p)
         /\ \A x : Paid(x)' = Paid(x)
         /\ \A t, k : Claims(t, k)' <=> Claims(t, k)
<1>1. \A x : Payments(x)' = Payments(x)
  BY DEF Payments, Programmed, Credited
<1>2. AllPayments' = AllPayments
  BY <1>1 DEF AllPayments
<1>3. \A p : Shadowed(p)' <=> Shadowed(p)
  BY <1>1 DEF Shadowed
<1>4. \A x : Paid(x)' = Paid(x)
  BY DEF Paid
<1>5. \A t, k : Claims(t, k)' <=> Claims(t, k)
  BY <1>4 DEF Claims, Unnamed
<1> QED BY <1>2, <1>3, <1>4, <1>5

-----------------------------------------------------------------------------
(***************************************************************************)
(* core-api.                                                               *)
(***************************************************************************)

(* What a comparison in floating point says of the amounts. *)
LEMMA ExceedsFacts ==
  ASSUME NEW n \in Nat, NEW m \in Nat, NEW b \in Exceeds(n, m)
  PROVE  /\ b \in BOOLEAN
         /\ b => n >= m + Tolerance
         /\ ~b => n <= m + Tolerance
<1>1. Tolerance \in Nat
  BY SolanaAssumption
<1>2. CASE n = m + Tolerance
  <2>1. b \in BOOLEAN
    BY <1>2 DEF Exceeds
  <2> QED BY <1>1, <1>2, <2>1
<1>3. CASE n # m + Tolerance
  <2> DEFINE more == n > m + Tolerance
  <2>1. more <=> n > m + Tolerance
    OBVIOUS
  <2>2. b \in {more} /\ more \in BOOLEAN
    BY <1>3 DEF Exceeds
  <2> HIDE DEF more
  <2>3. b \in BOOLEAN /\ (b <=> more)
    BY <2>2
  <2> QED BY <1>1, <2>1, <2>3
<1> QED BY <1>2, <1>3

(* Rounding moves an amount by half a cent. *)
LEMMA CentsBounds ==
  ASSUME NEW u \in Nat, NEW c \in Cents(u), NEW n \in Nat
  PROVE  /\ c \in Nat
         /\ c + Tolerance <= n => MuchLess(u, n)
         /\ c + Tolerance >= n => AtLeast(u, n)
         /\ c >= n + Tolerance => MuchMore(u, n)
         /\ c <= n + Tolerance => AtMost(u, n)
<1> USE SolanaAssumption
<1>1. /\ c \in Nat /\ Unit \in Nat /\ Tolerance \in Nat
      /\ -Unit <= 2 * (c * Unit - u) /\ 2 * (c * Unit - u) <= Unit
  BY DEF Cents
<1>2. /\ (c + Tolerance) * Unit = c * Unit + Tolerance * Unit
      /\ (n + Tolerance) * Unit = n * Unit + Tolerance * Unit
  BY <1>1
<1>3. /\ c * Unit \in Int /\ Tolerance * Unit \in Int /\ n * Unit \in Int
      /\ (2 * Tolerance - 1) * Unit = 2 * (Tolerance * Unit) - Unit
      /\ (2 * Tolerance + 1) * Unit = 2 * (Tolerance * Unit) + Unit
  BY <1>1
<1>4. ASSUME NEW i \in Nat, NEW j \in Nat, i <= j
      PROVE  i * Unit <= j * Unit
  <2>1. PICK k \in Nat : j = i + k
    BY <1>4
  <2>2. j * Unit = i * Unit + k * Unit /\ k * Unit >= 0
    BY <1>1, <2>1
  <2>3. i * Unit \in Int /\ k * Unit \in Int
    BY <1>1
  <2> QED BY <2>2, <2>3
<1>5. c + Tolerance \in Nat /\ n + Tolerance \in Nat
  BY <1>1
<1>6. ASSUME c + Tolerance <= n PROVE MuchLess(u, n)
  <2>1. c * Unit + Tolerance * Unit <= n * Unit
    BY <1>2, <1>4, <1>5, <1>6
  <2> QED BY <1>1, <1>3, <2>1 DEF MuchLess
<1>7. ASSUME c + Tolerance >= n PROVE AtLeast(u, n)
  <2>1. n * Unit <= c * Unit + Tolerance * Unit
    BY <1>2, <1>4, <1>5, <1>7
  <2> QED BY <1>1, <1>3, <2>1 DEF AtLeast
<1>8. ASSUME c >= n + Tolerance PROVE MuchMore(u, n)
  <2>1. n * Unit + Tolerance * Unit <= c * Unit
    BY <1>1, <1>2, <1>4, <1>5, <1>8
  <2> QED BY <1>1, <1>3, <2>1 DEF MuchMore
<1>9. ASSUME c <= n + Tolerance PROVE AtMost(u, n)
  <2>1. c * Unit <= n * Unit + Tolerance * Unit
    BY <1>1, <1>2, <1>4, <1>5, <1>9
  <2> QED BY <1>1, <1>3, <2>1 DEF AtMost
<1> QED BY <1>1, <1>6, <1>7, <1>8, <1>9

TableTyped ==
    /\ DOMAIN event \subseteq Tx \X Nat /\ \A k \in DOMAIN event : event[k] \in opened
    /\ sendAmount \in [Transfer -> Nat]
    /\ rejected \subseteq [t : Transfer, tx : Tx, expected : Nat]
Extended ==
    /\ DOMAIN event \subseteq DOMAIN event' /\ \A k \in DOMAIN event : event'[k] = event[k]
    /\ rejected \subseteq rejected'

LEMMA TablesTyped == ASSUME TypeOK PROVE TableTyped
  BY DEF TypeOK, TableTyped

(* A payment that is refused: it is recorded with what was expected. *)
LEMMA RejectFacts ==
  ASSUME TypeOK, CoreInv, content' = content, opened' = opened,
         NEW x \in Tx, NEW t \in Transfer, Reject(t, x),
         \/ MuchLess(content[x].units, sendAmount[t])
         \/ MuchMore(content[x].units, OverpayMax)
         \/ ~AutoAdjust /\ MuchMore(content[x].units, sendAmount[t])
  PROVE  /\ TableTyped' /\ EventClaimed' /\ ToleranceHonoured' /\ Extended
         /\ \E r \in rejected' : r.t = t /\ r.tx = x
<1> DEFINE new == [t |-> t, tx |-> x, expected |-> sendAmount[t]]
<1>1. rejected' = rejected \cup {new} /\ event' = event /\ sendAmount' = sendAmount
  BY DEF Reject
<1>2. new.t = t /\ new.tx = x /\ new.expected = sendAmount[t]
  OBVIOUS
<1>3. new \in [t : Transfer, tx : Tx, expected : Nat]
  BY TablesTyped DEF TableTyped
<1> HIDE DEF new
<1>4. TableTyped' /\ Extended
  BY <1>1, <1>3, TablesTyped DEF TableTyped, Extended
<1>5. EventClaimed'
  BY <1>1, Still DEF CoreInv, EventClaimed
<1>6. ToleranceHonoured'
  BY <1>1, <1>2 DEF CoreInv, ToleranceHonoured, MuchLess, MuchMore, AtLeast, AtMost
<1>7. \E r \in rejected' : r.t = t /\ r.tx = x
  BY <1>1, <1>2
<1> QED BY <1>4, <1>5, <1>6, <1>7

(* A payment that is enough: what its transfer sends is within the tolerance of
   it, and what the funded transfers send does not change. *)
LEMMA AcceptFacts ==
  ASSUME TypeOK, CoreInv, content' = content, opened' = opened,
         NEW x \in Tx, NEW n \in Nat, NEW t \in opened, Claims(t, <<x, n>>), ~IsFunded(t),
         NEW c \in Cents(content[x].units), NEW more \in BOOLEAN, Accept(t, <<x, n>>, c, more),
         AtMost(content[x].units, OverpayMax), AtLeast(content[x].units, sendAmount[t]),
         ~more => AtMost(content[x].units, sendAmount[t])
  PROVE  TableTyped' /\ EventClaimed' /\ ToleranceHonoured' /\ Extended /\ Taken(<<x, n>>)'
<1> DEFINE k == <<x, n>>
<1>1. k \in Tx \X Nat /\ k[1] = x /\ Claims(t, k)
  OBVIOUS
<1>2. /\ sendAmount' = IF more THEN [sendAmount EXCEPT ![t] = c] ELSE sendAmount
      /\ event' = IF Taken(k) THEN event
                  ELSE [j \in DOMAIN event \cup {k} |-> IF j = k THEN t ELSE event[j]]
      /\ rejected' = rejected
  BY DEF Accept
<1> HIDE DEF k
<1>3. TableTyped /\ t \in Transfer /\ \A j \in DOMAIN event : event[j] # t
  BY TablesTyped DEF TypeOK, IsFunded
<1>4. /\ DOMAIN event' = DOMAIN event \cup {k} /\ \A j \in DOMAIN event : event'[j] = event[j]
      /\ k \notin DOMAIN event => event'[k] = t
  BY <1>2 DEF Taken
<1>5. content[x].units \in Nat /\ c \in Nat
  BY ContentType, CentsBounds DEF TypeOK
<1>6. /\ sendAmount' \in [Transfer -> Nat]
      /\ sendAmount'[t] = IF more THEN c ELSE sendAmount[t]
      /\ \A q \in Transfer \ {t} : sendAmount'[q] = sendAmount[q]
  BY <1>2, <1>3, <1>5 DEF TableTyped
<1>7. TableTyped' /\ Extended
  BY <1>1, <1>2, <1>3, <1>4, <1>6 DEF TableTyped, Extended
<1>8. EventClaimed'
  BY <1>1, <1>4, Still DEF CoreInv, EventClaimed
<1>9. AtLeast(content[x].units, sendAmount'[t]) /\ AtMost(content[x].units, sendAmount'[t])
  <2>1. AtLeast(content[x].units, c) /\ AtMost(content[x].units, c)
    BY <1>5, CentsBounds, SolanaAssumption
  <2> QED BY <1>6, <2>1
<1>10. ToleranceHonoured'
  <2>1. ASSUME NEW j \in DOMAIN event'
        PROVE  LET units == content[j[1]].units
                   sent == sendAmount'[event'[j]] IN
               AtLeast(units, sent) /\ AtMost(units, sent) /\ AtMost(units, OverpayMax)
    <3>1. CASE j \in DOMAIN event
      <4>1. event'[j] = event[j] /\ event[j] \in Transfer \ {t}
        BY <1>3, <1>4, <3>1 DEF TableTyped, TypeOK
      <4> QED BY <1>6, <3>1, <4>1 DEF CoreInv, ToleranceHonoured
    <3>2. CASE j \notin DOMAIN event
      BY <1>1, <1>4, <1>9, <3>2
    <3> QED BY <3>1, <3>2
  <2> QED BY <1>2, <2>1 DEF CoreInv, ToleranceHonoured, MuchLess, MuchMore, AtLeast, AtMost
<1> QED BY <1>4, <1>7, <1>8, <1>10 DEF Taken, k

(* What a confirmation leaves: what there was, and a funded transfer, or a refused
   payment, or its key. *)
LEMMA RecordFacts ==
  ASSUME TypeOK, CoreInv, content' = content, opened' = opened,
         NEW x \in Tx, NEW n \in Nat, NEW t \in opened, Claims(t, <<x, n>>), Record(t, <<x, n>>)
  PROVE  /\ TableTyped' /\ EventClaimed' /\ ToleranceHonoured' /\ Extended
         /\ \/ IsFunded(t)'
            \/ \E r \in rejected' : r.t = t /\ r.tx = x
            \/ Taken(<<x, n>>)'
<1>1. CASE IsFunded(t)
  <2>1. event' = event /\ sendAmount' = sendAmount /\ rejected' = rejected
    BY <1>1 DEF Record, table
  <2>2. TableTyped' /\ Extended /\ IsFunded(t)'
    BY <1>1, <2>1, TablesTyped DEF TableTyped, Extended, IsFunded
  <2>3. EventClaimed'
    BY <2>1, Still DEF CoreInv, EventClaimed
  <2>4. ToleranceHonoured'
    BY <2>1 DEF CoreInv, ToleranceHonoured, MuchLess, MuchMore, AtLeast, AtMost
  <2> QED BY <2>2, <2>3, <2>4
<1>2. CASE ~IsFunded(t)
  <2>1. content[x].units \in Nat /\ t \in Transfer /\ sendAmount[t] \in Nat /\ OverpayMax \in Nat
    BY ContentType, SolanaAssumption DEF TypeOK
  <2>a. PICK c \in Cents(content[x].units) :
          \E over \in Exceeds(c, OverpayMax), short \in Underpaid(c, sendAmount[t]),
             more \in Exceeds(c, sendAmount[t]) :
               IF over \/ short \/ (more /\ ~AutoAdjust) THEN Reject(t, x)
               ELSE Accept(t, <<x, n>>, c, more)
    BY <1>2 DEF Record
  <2>2. PICK over \in Exceeds(c, OverpayMax), short \in Underpaid(c, sendAmount[t]),
             more \in Exceeds(c, sendAmount[t]) :
          IF over \/ short \/ (more /\ ~AutoAdjust) THEN Reject(t, x)
          ELSE Accept(t, <<x, n>>, c, more)
    BY <2>a
  <2>3. c \in Nat
    BY <2>1, CentsBounds
  <2>4. /\ over \in BOOLEAN /\ short \in BOOLEAN /\ more \in BOOLEAN
        /\ over => c >= OverpayMax + Tolerance
        /\ ~over => c <= OverpayMax + Tolerance
        /\ short => sendAmount[t] >= c + Tolerance
        /\ ~short => sendAmount[t] <= c + Tolerance
        /\ more => c >= sendAmount[t] + Tolerance
        /\ ~more => c <= sendAmount[t] + Tolerance
    BY <2>1, <2>2, <2>3, ExceedsFacts DEF Underpaid
  <2>5. /\ over => MuchMore(content[x].units, OverpayMax)
        /\ ~over => AtMost(content[x].units, OverpayMax)
    BY <2>1, <2>4, CentsBounds
  <2>6. /\ short => MuchLess(content[x].units, sendAmount[t])
        /\ ~short => AtLeast(content[x].units, sendAmount[t])
    <3>1. c + Tolerance \in Nat
      BY <2>3, SolanaAssumption
    <3> QED BY <2>1, <2>4, <3>1, CentsBounds
  <2>7. /\ more => MuchMore(content[x].units, sendAmount[t])
        /\ ~more => AtMost(content[x].units, sendAmount[t])
    BY <2>1, <2>4, CentsBounds
  <2>8. CASE over \/ short \/ (more /\ ~AutoAdjust)
    BY <2>1, <2>2, <2>5, <2>6, <2>7, <2>8, RejectFacts
  <2>9. CASE ~(over \/ short \/ (more /\ ~AutoAdjust))
    BY <1>2, <2>2, <2>4, <2>5, <2>6, <2>7, <2>9, AcceptFacts
  <2> QED BY <2>8, <2>9
<1> QED BY <1>1, <1>2

(* What has been reported stays settled. *)
LEMMA CoreStep ==
  ASSUME CoreInv, content' = content, Extended, EventClaimed', ToleranceHonoured',
         \A p \in reported' \ reported : IsFunded(p.to)' \/ Refused(p)' \/ Taken(Key(p))'
  PROVE  CoreInv'
<1>1. ASSUME NEW p \in reported PROVE IsFunded(p.to)' \/ Refused(p)' \/ Taken(Key(p))'
  BY DEF CoreInv, Settled, Extended, IsFunded, Refused, Taken, Key
<1> QED BY <1>1 DEF CoreInv, Settled

-----------------------------------------------------------------------------
(***************************************************************************)
(* The steps that no runner takes.                                         *)
(***************************************************************************)
LEMMA InitInv == Init => Inv
<1> SUFFICES ASSUME Init PROVE Inv
  OBVIOUS
<1> USE SolanaAssumption
<1>1. TypeOK
  BY DEF Init, Fresh, TypeOK, Step
<1>2. PaidOpened /\ SeenReported /\ CursorSafe /\ CoreInv
  BY DEF Init, Fresh, PaidOpened, SeenReported, CursorSafe, CoreInv, EventClaimed,
         Settled, ToleranceHonoured
<1>3. ASSUME NEW w \in Runner PROVE Known(w)
  <2>1. runner[w].step = "idle" /\ runner[w].queue = {} /\ runner[w].from = 0 /\ runner[w].to = 0
    BY DEF Init, Fresh
  <2>2. \A x \in Tx : mined[x] = 0
    BY DEF Init
  <2>3. \A p \in AllPayments : p.tx \in Tx
    BY PaymentFacts DEF Init
  <2> QED BY <2>1, <2>2, <2>3 DEF Known, Behind, Scanned, Queued
<1> QED BY <1>1, <1>2, <1>3 DEF Inv

LEMMA RunnerTyped == ASSUME TypeOK PROVE runner \in [Runner -> RunnerType]
  BY DEF TypeOK, RunnerType

(* A final slot is not mined any more, so that what a runner knows of the
   payments up to `to' stays true. *)
LEMMA OutsideStep ==
  ASSUME Inv, content' = content, slot' \in 0 .. MaxSlot, slot <= slot',
         mined' \in [Tx -> 0 .. MaxSlot],
         \A x \in Tx : mined'[x] = mined[x] \/ (mined[x] = 0 /\ mined'[x] > slot),
         opened \subseteq opened', opened' \subseteq Transfer, PaidOpened',
         TableTyped', CoreInv',
         UNCHANGED <<cursor, seen, reported, missed, runner, faults>>
  PROVE  Inv'
<1> USE SolanaAssumption
<1>1. /\ AllPayments' = AllPayments
      /\ \A p : Shadowed(p)' <=> Shadowed(p)
      /\ \A x : Paid(x)' = Paid(x)
  BY Still
<1>2. slot \in Nat /\ slot' \in Nat /\ cursor \in 0 .. slot /\ mined \in [Tx -> 0 .. MaxSlot]
  BY DEF Inv, TypeOK
<1>3. TypeOK'
  <2>1. runner' \in [Runner ->
          [step : Step, from : 0 .. slot', to : 0 .. slot', routes : SUBSET Address,
           queue : SUBSET AllPayments, at : AllPayments \cup {Nobody}, initial : BOOLEAN]]
    <3>1. runner \in [Runner -> RunnerType]
      BY RunnerTyped DEF Inv
    <3>2. 0 .. slot \subseteq 0 .. slot'
      BY <1>2
    <3> QED BY <3>1, <3>2 DEF RunnerType
  <2>2. seen' \subseteq {Key(p) : p \in AllPayments} /\ reported' \subseteq AllPayments
        /\ missed' \subseteq AllPayments /\ faults' \in 0 .. MaxFaults
    BY DEF Inv, TypeOK
  <2>3. content' \in [Tx -> Content] /\ cursor' \in 0 .. slot'
    BY <1>2 DEF Inv, TypeOK
  <2> QED BY <1>1, <2>1, <2>2, <2>3 DEF TypeOK, TableTyped, Key
<1>4. SeenReported'
  BY DEF Inv, SeenReported, Key
<1>5. ASSUME NEW p \in AllPayments, NEW n \in 0 .. slot, mined'[p.tx] \in 1 .. n
      PROVE  mined[p.tx] \in 1 .. n
  <2>1. p.tx \in Tx
    BY PaymentFacts DEF Inv, TypeOK
  <2>2. n \in Nat /\ n <= slot /\ mined'[p.tx] <= n
    BY <1>2, <1>5
  <2>3. mined'[p.tx] = mined[p.tx] \/ mined'[p.tx] > slot
    BY <2>1
  <2>4. mined'[p.tx] \in Nat
    BY <1>5
  <2>5. ~(mined'[p.tx] > slot)
    BY <1>2, <2>2, <2>4
  <2> QED BY <1>5, <2>3, <2>5
<1>6. CursorSafe'
  <2> SUFFICES ASSUME NEW p \in AllPayments, p.to \in Transfer, mined'[p.tx] \in 1 .. cursor
               PROVE  p \in reported \cup missed \/ Shadowed(p)
    BY <1>1 DEF CursorSafe
  <2>1. mined[p.tx] \in 1 .. cursor
    BY <1>2, <1>5
  <2>2. CursorSafe
    BY DEF Inv
  <2> QED BY <2>1, <2>2 DEF CursorSafe
<1>7. ASSUME NEW w \in Runner PROVE Known(w)'
  <2>1. Known(w) /\ runner[w] \in RunnerType
    BY RunnerTyped DEF Inv
  <2>2. \A p : Accounted(p)' <=> Accounted(p)
    BY <1>1 DEF Accounted
  <2>3. Behind(runner[w].from)'
    BY <1>1, <1>5, <2>1, <2>2 DEF Known, Behind, RunnerType
  <2>4. Scanned(w)'
    <3> SUFFICES ASSUME NEW p \in AllPayments, mined'[p.tx] \in 1 .. runner[w].to
                 PROVE  LET r == runner[w] IN
                        /\ r.step \in {"next", "publish", "mark", "save"}
                              => Accounted(p) \/ p \in r.queue
                        /\ r.step \in {"routes", "addresses"} /\ p.byProgram
                              => Accounted(p) \/ p \in r.queue
                        /\ r.step = "addresses" /\ ~p.byProgram => p.to \in r.routes
      BY <1>1, <2>2 DEF Scanned
    <3>1. mined[p.tx] \in 1 .. runner[w].to
      BY <1>5, <2>1 DEF RunnerType
    <3> QED BY <2>1, <3>1 DEF Known, Scanned
  <2>5. ASSUME NEW p \in runner[w].queue PROVE Final(p.tx)'
    <3>1. p \in AllPayments /\ Final(p.tx)
      BY <2>1 DEF RunnerType, Known, Queued
    <3>2. p.tx \in Tx
      BY <3>1, PaymentFacts DEF Inv, TypeOK
    <3> QED BY <1>2, <3>1, <3>2 DEF Final
  <2>6. Queued(w)'
    BY <2>1, <2>5 DEF Known, Queued
  <2> QED BY <2>3, <2>4, <2>6 DEF Known
<1> QED BY <1>3, <1>4, <1>6, <1>7 DEF Inv

(* Tables that do not change stay right. *)
LEMMA CoreUnchanged ==
  ASSUME CoreInv, TableTyped, content' = content, opened \subseteq opened',
         UNCHANGED <<event, sendAmount, rejected, reported>>
  PROVE  CoreInv' /\ TableTyped'
<1>1. EventClaimed'
  BY Still DEF CoreInv, EventClaimed
<1>2. Settled'
  BY DEF CoreInv, Settled, IsFunded, Refused, Taken, Key
<1>3. ToleranceHonoured'
  BY DEF CoreInv, ToleranceHonoured, MuchLess, MuchMore, AtLeast, AtMost
<1> QED BY <1>1, <1>2, <1>3 DEF CoreInv, TableTyped

LEMMA OpenRouteInv == ASSUME Inv, NEW t \in Transfer, OpenRoute(t) PROVE Inv'
<1>1. /\ UNCHANGED <<content, slot, mined, event, sendAmount, rejected, cursor, seen, reported, missed,
                     runner, faults>>
      /\ opened' = opened \cup {t}
  BY DEF OpenRoute, chainVars, table, storeVars, history
<1>2. PaidOpened'
  <2>1. \A x : Paid(x)' = Paid(x)
    BY <1>1, Still
  <2> QED BY <1>1, <2>1 DEF Inv, PaidOpened
<1>3. CoreInv' /\ TableTyped'
  BY <1>1, CoreUnchanged, TablesTyped DEF Inv
<1>4. slot \in 0 .. MaxSlot /\ mined \in [Tx -> 0 .. MaxSlot] /\ opened \subseteq Transfer
  BY DEF Inv, TypeOK
<1> QED BY <1>1, <1>2, <1>3, <1>4, OutsideStep, SolanaAssumption

LEMMA MineInv == ASSUME Inv, NEW x \in Tx, Mine(x) PROVE Inv'
<1>1. /\ UNCHANGED <<content, slot, opened, event, sendAmount, rejected, cursor, seen, reported, missed,
                     runner, faults>>
      /\ mined' = [mined EXCEPT ![x] = slot + 1] /\ mined[x] = 0 /\ slot < MaxSlot
      /\ Paid(x) \subseteq opened
  BY DEF Mine, coreVars, table, storeVars, history
<1>2. slot \in 0 .. MaxSlot /\ mined \in [Tx -> 0 .. MaxSlot] /\ opened \subseteq Transfer
  BY DEF Inv, TypeOK
<1>3. PaidOpened'
  <2>1. \A y : Paid(y)' = Paid(y)
    BY <1>1, Still
  <2> QED BY <1>1, <1>2, <2>1 DEF Inv, PaidOpened
<1>4. CoreInv' /\ TableTyped'
  BY <1>1, CoreUnchanged, TablesTyped DEF Inv
<1>5. mined' \in [Tx -> 0 .. MaxSlot]
      /\ \A y \in Tx : mined'[y] = mined[y] \/ (mined[y] = 0 /\ mined'[y] > slot)
  BY <1>1, <1>2, SolanaAssumption
<1> QED BY <1>1, <1>2, <1>3, <1>4, <1>5, OutsideStep, SolanaAssumption

LEMMA NextSlotInv == ASSUME Inv, NextSlot PROVE Inv'
<1>1. /\ UNCHANGED <<content, mined, opened, event, sendAmount, rejected, cursor, seen, reported, missed,
                     runner, faults>>
      /\ slot' = slot + 1 /\ slot < MaxSlot
  BY DEF NextSlot, coreVars, table, storeVars, history
<1>2. slot \in 0 .. MaxSlot /\ mined \in [Tx -> 0 .. MaxSlot] /\ opened \subseteq Transfer
  BY DEF Inv, TypeOK
<1>3. PaidOpened'
  <2>1. \A y : Paid(y)' = Paid(y)
    BY <1>1, Still
  <2> QED BY <1>1, <2>1 DEF Inv, PaidOpened
<1>4. CoreInv' /\ TableTyped'
  BY <1>1, CoreUnchanged, TablesTyped DEF Inv
<1> QED BY <1>1, <1>2, <1>3, <1>4, OutsideStep, SolanaAssumption

(* A customer submits: an event or a rejection for his transfer, under key 0. *)
LEMMA SubmitInv == ASSUME Inv, NEW t \in Transfer, NEW x \in Tx, Submit(t, x) PROVE Inv'
<1>1. /\ UNCHANGED <<content, slot, mined, opened, cursor, seen, reported, missed, runner, faults>>
      /\ t \in opened /\ Verifies(t, x) /\ Record(t, <<x, 0>>)
  BY DEF Submit, chainVars, storeVars, history
<1>2. Claims(t, <<x, 0>>)
  <2>1. /\ content[x].credits \subseteq Address \cup {Treasury}
        /\ content[x].events \in Seq((Transfer \ Address) \cup Stranger)
    BY ContentType DEF Inv, TypeOK
  <2>2. CASE t \in Address
    BY <1>1, <2>2, SolanaAssumption DEF Verifies, DirectTransfer, Claims, Paid
  <2>3. CASE t \notin Address /\ content[x].events = <<>>
    BY <1>1, <2>3 DEF Verifies, PayInstruction, DirectTransfer, Claims, Unnamed
  <2>4. CASE t \notin Address /\ content[x].events # <<>>
    <3>1. t = content[x].events[1]
      BY <1>1, <2>4 DEF Verifies, PayInstruction
    <3>2. 1 \in DOMAIN content[x].events
      BY <2>1, <2>4
    <3> QED BY <3>1, <3>2, SolanaAssumption DEF Claims, Paid, Range
  <2> QED BY <2>2, <2>3, <2>4
<1>3. TableTyped' /\ CoreInv'
  <2>1. TableTyped' /\ EventClaimed' /\ ToleranceHonoured' /\ Extended
    BY <1>1, <1>2, RecordFacts DEF Inv
  <2>2. CoreInv /\ content' = content /\ reported' = reported
    BY <1>1 DEF Inv
  <2> QED BY <2>1, <2>2, CoreStep
<1>4. slot \in 0 .. MaxSlot /\ mined \in [Tx -> 0 .. MaxSlot] /\ opened \subseteq Transfer
  BY DEF Inv, TypeOK
<1>5. PaidOpened'
  <2>1. \A y : Paid(y)' = Paid(y)
    BY <1>1, Still
  <2> QED BY <1>1, <2>1 DEF Inv, PaidOpened
<1> QED BY <1>1, <1>2, <1>3, <1>4, <1>5, OutsideStep, SolanaAssumption

-----------------------------------------------------------------------------
(***************************************************************************)
(* The steps of a runner.                                                  *)
(***************************************************************************)

(* A step of runner w that forgets nothing keeps what the others know; what is
   left is about the tables, the cursor and w itself. *)
LEMMA RunnerStep ==
  ASSUME Inv, NEW w \in Runner,
         UNCHANGED <<slot, mined, content, opened>>,
         TableTyped', CoreInv', SeenReported', CursorSafe',
         cursor' \in 0 .. slot, seen' \subseteq {Key(p) : p \in AllPayments},
         reported \subseteq reported', reported' \subseteq AllPayments,
         missed \subseteq missed', missed' \subseteq AllPayments, faults' \in 0 .. MaxFaults,
         runner' = [runner EXCEPT ![w] = runner'[w]], runner'[w] \in RunnerType,
         Known(w)'
  PROVE  Inv'
<1>1. /\ AllPayments' = AllPayments
      /\ \A p : Shadowed(p)' <=> Shadowed(p)
      /\ \A x : Paid(x)' = Paid(x)
  BY Still
<1>2. runner \in [Runner -> RunnerType] /\ runner' \in [Runner -> RunnerType]
  <2>1. runner \in [Runner -> RunnerType]
    BY RunnerTyped DEF Inv
  <2> QED BY <2>1
<1>3. TypeOK'
  <2>1. RunnerType' = RunnerType
    BY <1>1 DEF RunnerType
  <2>2. runner' \in [Runner ->
          [step : Step, from : 0 .. slot', to : 0 .. slot', routes : SUBSET Address,
           queue : SUBSET AllPayments', at : AllPayments' \cup {Nobody}, initial : BOOLEAN]]
    BY <1>1, <1>2 DEF RunnerType
  <2>3. /\ slot' \in 0 .. MaxSlot /\ mined' \in [Tx -> 0 .. MaxSlot]
        /\ content' \in [Tx -> Content] /\ opened' \subseteq Transfer
        /\ cursor' \in 0 .. slot'
    BY DEF Inv, TypeOK
  <2> QED BY <1>1, <2>2, <2>3 DEF TypeOK, TableTyped, Key
<1>4. PaidOpened'
  BY <1>1 DEF Inv, PaidOpened
<1>5. ASSUME NEW v \in Runner \ {w} PROVE Known(v)'
  <2>1. Known(v) /\ runner'[v] = runner[v]
    BY <1>2 DEF Inv
  <2>2. \A p : Accounted(p) => Accounted(p)'
    BY <1>1 DEF Accounted
  <2>3. Behind(runner[v].from)' /\ Scanned(v)'
    BY <1>1, <2>1, <2>2 DEF Known, Behind, Scanned
  <2>4. Queued(v)'
    BY <2>1 DEF Known, Queued, Final
  <2> QED BY <2>3, <2>4 DEF Known
<1> QED BY <1>3, <1>4, <1>5 DEF Inv

(* A step of a poll that core-api does not see. *)
LEMMA PollStep ==
  ASSUME Inv, NEW w \in Runner,
         UNCHANGED <<slot, mined, content, opened, event, sendAmount, rejected, cursor, seen, reported>>,
         missed \subseteq missed', missed' \subseteq AllPayments, faults' \in 0 .. MaxFaults,
         runner' = [runner EXCEPT ![w] = runner'[w]], runner'[w] \in RunnerType,
         Known(w)'
  PROVE  Inv'
<1>1. CoreInv' /\ TableTyped'
  BY CoreUnchanged, TablesTyped DEF Inv
<1>2. AllPayments' = AllPayments /\ \A p : Shadowed(p)' <=> Shadowed(p)
  BY Still
<1>3. SeenReported'
  BY DEF Inv, SeenReported, Key
<1>4. CursorSafe'
  BY <1>2 DEF Inv, CursorSafe
<1>5. cursor' \in 0 .. slot /\ seen' \subseteq {Key(p) : p \in AllPayments}
      /\ reported \subseteq reported' /\ reported' \subseteq AllPayments
  BY DEF Inv, TypeOK
<1> QED BY <1>1, <1>3, <1>4, <1>5, RunnerStep

(* A poll that ends, or a process that starts again, knows what is behind the
   cursor it starts from. *)
LEMMA IdleKnown ==
  ASSUME Inv, NEW w \in Runner, UNCHANGED <<mined, content>>,
         reported \subseteq reported', missed \subseteq missed',
         runner'[w].step = "idle", runner'[w].queue = {},
         runner'[w].from \in {runner[w].from, cursor}
  PROVE  Known(w)'
<1>1. AllPayments' = AllPayments /\ \A p : Shadowed(p)' <=> Shadowed(p)
  BY Still
<1>2. \A p : Accounted(p) => Accounted(p)'
  BY <1>1 DEF Accounted
<1>3. Behind(runner[w].from)
  BY DEF Inv, Known
<1>4. Behind(cursor)
  BY PaymentFacts, SolanaAssumption DEF Inv, TypeOK, CursorSafe, Behind, Accounted
<1>5. Behind(runner[w].from)'
  BY <1>1, <1>2, <1>3, <1>4 DEF Behind
<1> QED BY <1>5 DEF Known, Scanned, Queued

LEMMA RestartOrFailInv ==
  ASSUME Inv, NEW w \in Runner, RpcFails(w) \/ Restart(w) \/ Reload(w)
  PROVE  Inv'
<1>1. /\ UNCHANGED <<slot, mined, content, opened, event, sendAmount, rejected, cursor, seen, reported, missed>>
      /\ faults' \in 0 .. MaxFaults
  BY SolanaAssumption
  DEF RpcFails, Restart, Reload, chainVars, coreVars, table, storeVars, history, Inv, TypeOK
<1>2. runner \in [Runner -> RunnerType]
  BY RunnerTyped DEF Inv
<1>3. cursor \in 0 .. slot
  BY DEF Inv, TypeOK
<1>4. /\ runner' = [runner EXCEPT ![w] = runner'[w]] /\ runner'[w] \in RunnerType
      /\ runner'[w].step = "idle" /\ runner'[w].from \in {runner[w].from, cursor}
      /\ runner'[w].queue = {}
  <2>1. CASE RpcFails(w)
    BY <1>2, <2>1 DEF RpcFails, Failed, RunnerType, Step
  <2>2. CASE Restart(w)
    BY <1>2, <1>3, <2>2 DEF Restart, Failed, RunnerType, Step
  <2>3. CASE Reload(w)
    <3>1. runner[w].queue = {}
      BY <2>3 DEF Inv, Known, Queued, Reload, At
    <3> QED BY <1>2, <1>3, <2>3, <3>1 DEF Reload, RunnerType, Step
  <2> QED BY <2>1, <2>2, <2>3
<1>5. Known(w)'
  BY <1>1, <1>4, IdleKnown
<1>6. missed' \subseteq AllPayments
  BY <1>1 DEF Inv, TypeOK
<1> QED BY <1>1, <1>4, <1>5, <1>6, PollStep

(* What a poll knows of a payment survives a step that changes no table. *)
LEMMA Steady ==
  ASSUME Inv, NEW w \in Runner, UNCHANGED <<mined, content, slot>>,
         reported \subseteq reported', missed \subseteq missed',
         runner'[w].from = runner[w].from
  PROVE  /\ AllPayments' = AllPayments
         /\ \A p : Accounted(p) => Accounted(p)'
         /\ \A x : Final(x)' <=> Final(x)
         /\ Behind(runner[w].from)'
<1>1. AllPayments' = AllPayments /\ \A p : Shadowed(p)' <=> Shadowed(p)
  BY Still
<1>2. \A p : Accounted(p) => Accounted(p)'
  BY <1>1 DEF Accounted
<1>3. Behind(runner[w].from)'
  BY <1>1, <1>2 DEF Inv, Known, Behind
<1> QED BY <1>1, <1>2, <1>3 DEF Final

LEMMA ReadSlotInv == ASSUME Inv, NEW w \in Runner, ReadSlot(w) PROVE Inv'
<1>1. UNCHANGED <<slot, mined, content, opened, event, sendAmount, rejected, cursor, seen, reported, missed,
                  faults>>
  BY DEF ReadSlot, chainVars, coreVars, table, storeVars, history
<1>2. runner \in [Runner -> RunnerType] /\ Known(w)
  BY RunnerTyped DEF Inv
<1>3. slot \in Nat /\ faults \in 0 .. MaxFaults /\ missed \subseteq AllPayments
  BY DEF Inv, TypeOK
<1>4. /\ runner' = [runner EXCEPT ![w] = runner'[w]] /\ runner'[w] \in RunnerType
      /\ runner'[w].from = runner[w].from /\ runner'[w].queue = {}
      /\ \/ runner'[w].step = "save" /\ runner'[w].to = runner[w].from
         \/ runner'[w].step = "treasury"
  <2>1. runner[w].queue = {}
    BY <1>2 DEF Known, Queued, ReadSlot, At
  <2>2. CASE slot <= runner[w].from
    <3>1. runner' = [runner EXCEPT ![w] = [runner[w] EXCEPT !.step = "save", !.to = runner[w].from]]
      BY <2>2 DEF ReadSlot
    <3> QED BY <1>2, <2>1, <3>1 DEF RunnerType, Step
  <2>3. CASE ~(slot <= runner[w].from)
    <3>1. runner' = [runner EXCEPT ![w] = [runner[w] EXCEPT !.step = "treasury", !.to = slot]]
      BY <2>3 DEF ReadSlot
    <3>2. slot \in 0 .. slot
      BY <1>3
    <3> QED BY <1>2, <2>1, <3>1, <3>2 DEF RunnerType, Step
  <2> QED BY <2>2, <2>3
<1>5. Known(w)'
  <2>1. /\ AllPayments' = AllPayments /\ Behind(runner[w].from)'
        /\ \A p : Accounted(p) => Accounted(p)'
    BY <1>1, <1>4, Steady
  <2>2. Scanned(w)'
    BY <1>1, <1>2, <1>4, <2>1 DEF Scanned, Known, Behind
  <2>3. Queued(w)'
    BY <1>4 DEF Queued
  <2> QED BY <2>1, <2>2, <2>3 DEF Known
<1> QED BY <1>1, <1>3, <1>4, <1>5, PollStep

(* The treasury: the payments by the program are in the queue, or missed. *)
LEMMA ReadTreasuryInv == ASSUME Inv, NEW w \in Runner, ReadTreasury(w) PROVE Inv'
<1> DEFINE P == UNION {Programmed(x) : x \in {y \in Tx : Final(y)}}
<1>1. UNCHANGED <<slot, mined, content, opened, event, sendAmount, rejected, cursor, seen, reported>>
  BY DEF ReadTreasury, chainVars, coreVars, table, storeVars
<1>2. runner \in [Runner -> RunnerType] /\ Known(w)
  BY RunnerTyped DEF Inv
<1>3. slot \in Nat /\ mined \in [Tx -> Nat] /\ missed \subseteq AllPayments
      /\ content \in [Tx -> Content]
  BY SolanaAssumption DEF Inv, TypeOK
<1>4. PICK S \in SUBSET Tx, D \in SUBSET Tx :
        /\ Reads(D)
        /\ missed' = missed \cup Overlooked(w, P, S, D)
        /\ runner' = [runner EXCEPT ![w].step = "routes", ![w].queue = Found(w, P, S, D)]
  <2> DEFINE X == {x \in Tx : Final(x) /\ (content[x].events # <<>> \/ Treasury \in content[x].credits)}
  <2> HIDE DEF P
  <2>1. \E S \in Newest(X) : \E D \in SUBSET S :
          /\ Reads(D)
          /\ missed' = missed \cup Overlooked(w, P, S, D)
          /\ runner' = [runner EXCEPT ![w].step = "routes", ![w].queue = Found(w, P, S, D)]
    BY DEF ReadTreasury, P
  <2>2. X \in SUBSET Tx
    OBVIOUS
  <2> HIDE DEF X
  <2>3. \A S \in Newest(X) : S \in SUBSET Tx
    BY <2>2 DEF Newest
  <2> QED BY <2>1, <2>3
<1>5. P \subseteq AllPayments
  BY DEF AllPayments, Payments
<1>6. \A p \in AllPayments : p.byProgram /\ Final(p.tx) => p \in P
  BY <1>3, PaymentFacts
<1>7. \A p \in P : p.byProgram /\ p.tx \in Tx /\ Final(p.tx)
  <2>1. \A x : \A p \in Programmed(x) : p.byProgram /\ p.tx = x
    BY DEF Programmed
  <2> QED BY <2>1
<1> HIDE DEF P
<1>8. Found(w, P, S, D) \subseteq P /\ Overlooked(w, P, S, D) \subseteq P
  BY DEF Found, Overlooked
<1>9. faults' \in 0 .. MaxFaults
  BY <1>4, SolanaAssumption DEF Reads, Inv, TypeOK
<1> DEFINE queue == Found(w, P, S, D)
<1>10. queue \subseteq AllPayments /\ queue \subseteq P
  BY <1>5, <1>8
<1>11. /\ runner' = [runner EXCEPT ![w] = runner'[w]] /\ runner'[w] \in RunnerType
       /\ runner'[w].from = runner[w].from /\ runner'[w].to = runner[w].to
       /\ runner'[w].step = "routes" /\ runner'[w].queue = queue
  <2>1. runner' = [runner EXCEPT ![w] = [runner[w] EXCEPT !.step = "routes", !.queue = queue]]
    BY <1>4
  <2> HIDE DEF queue
  <2> QED BY <1>2, <1>10, <2>1 DEF RunnerType, Step
<1>12. /\ AllPayments' = AllPayments /\ Behind(runner[w].from)'
       /\ \A p : Accounted(p) => Accounted(p)'
       /\ \A x : Final(x)' <=> Final(x)
  BY <1>1, <1>4, <1>11, Steady
<1>13. Scanned(w)'
  <2> SUFFICES ASSUME NEW p \in AllPayments, mined[p.tx] \in 1 .. runner[w].to, p.byProgram
               PROVE  Accounted(p)' \/ p \in queue
    BY <1>1, <1>11, <1>12 DEF Scanned
  <2>1. /\ runner[w].from \in 0 .. slot /\ runner[w].to \in 0 .. slot /\ p.tx \in Tx
        /\ mined[p.tx] \in Nat
    BY <1>2, <1>3, PaymentFacts DEF RunnerType
  <2>2. CASE mined[p.tx] \in 1 .. runner[w].from
    BY <1>2, <1>12, <2>2 DEF Known, Behind
  <2>3. CASE mined[p.tx] \in runner[w].from + 1 .. runner[w].to
    <3>1. Final(p.tx) /\ InRange(w, p.tx)
      BY <1>3, <2>1, <2>3 DEF Final, InRange
    <3>2. p \in P
      BY <1>6, <3>1
    <3>3. p \in queue \/ p \in missed'
      BY <1>4, <2>3, <3>1, <3>2 DEF Found, Overlooked
    <3> QED BY <3>3 DEF Accounted
  <2> QED BY <1>3, <2>1, <2>2, <2>3
<1>14. Queued(w)'
  BY <1>7, <1>10, <1>11, <1>12 DEF Queued
<1>15. Known(w)'
  BY <1>11, <1>12, <1>13, <1>14 DEF Known
<1>16. missed \subseteq missed' /\ missed' \subseteq AllPayments
  BY <1>3, <1>4, <1>5, <1>8
<1> QED BY <1>1, <1>9, <1>11, <1>15, <1>16, PollStep

(* A payment to an address is mined after the address was handed out, so that
   the routes listed after the slot was read hold those of the poll. *)
LEMMA ListRoutesInv == ASSUME Inv, NEW w \in Runner, ListRoutes(w) PROVE Inv'
<1>1. UNCHANGED <<slot, mined, content, opened, event, sendAmount, rejected, cursor, seen, reported, missed,
                  faults>>
  BY DEF ListRoutes, chainVars, coreVars, table, storeVars, history
<1>2. runner \in [Runner -> RunnerType] /\ Known(w) /\ runner[w].step = "routes"
  BY RunnerTyped DEF Inv, ListRoutes, At
<1>3. slot \in Nat /\ faults \in 0 .. MaxFaults /\ missed \subseteq AllPayments
      /\ content \in [Tx -> Content]
  BY DEF Inv, TypeOK
<1>4. /\ runner' = [runner EXCEPT ![w] = runner'[w]] /\ runner'[w] \in RunnerType
      /\ runner'[w].from = runner[w].from /\ runner'[w].to = runner[w].to
      /\ runner'[w].queue = runner[w].queue /\ runner'[w].step = "addresses"
      /\ runner'[w].routes = opened \cap Address
  BY <1>2 DEF ListRoutes, RunnerType, Step
<1>5. /\ AllPayments' = AllPayments /\ Behind(runner[w].from)'
      /\ \A p : Accounted(p) => Accounted(p)'
      /\ \A x : Final(x)' <=> Final(x)
  BY <1>1, <1>4, Steady
<1>6. ASSUME NEW p \in AllPayments, mined[p.tx] \in 1 .. runner[w].to, ~p.byProgram
      PROVE  p.to \in opened \cap Address
  <2>1. p.tx \in Tx /\ p.to \in Address /\ p.to \in Paid(p.tx)
    BY <1>3, <1>6, PaymentFacts, SolanaAssumption
  <2> QED BY <1>6, <2>1 DEF Inv, PaidOpened
<1>7. Scanned(w)'
  BY <1>1, <1>2, <1>4, <1>5, <1>6 DEF Known, Scanned
<1>8. Queued(w)'
  BY <1>2, <1>4, <1>5 DEF Known, Queued
<1>9. Known(w)'
  BY <1>4, <1>5, <1>7, <1>8 DEF Known
<1> QED BY <1>1, <1>3, <1>4, <1>9, PollStep

(* The addresses: what is left out of the queue has the key of an event of the
   same transaction. *)
LEMMA ReadAddressesInv == ASSUME Inv, NEW w \in Runner, ReadAddresses(w) PROVE Inv'
<1> DEFINE P(t) == {p \in AllPayments : ~p.byProgram /\ p.to = t /\ Final(p.tx)}
<1>1. UNCHANGED <<slot, mined, content, opened, event, sendAmount, rejected, cursor, seen, reported>>
  BY DEF ReadAddresses, chainVars, coreVars, table, storeVars
<1>2. runner \in [Runner -> RunnerType] /\ Known(w) /\ runner[w].step = "addresses"
  BY RunnerTyped DEF Inv, ReadAddresses, At
<1>3. slot \in Nat /\ mined \in [Tx -> Nat] /\ missed \subseteq AllPayments
      /\ content \in [Tx -> Content]
  BY SolanaAssumption DEF Inv, TypeOK
<1> DEFINE routes == runner[w].routes
           old == runner[w].queue
<1>4. PICK S \in [routes -> SUBSET Tx], D \in SUBSET Tx :
        /\ Reads(D)
        /\ missed' = missed \cup UNION {Overlooked(w, P(t), S[t], D) : t \in routes}
        /\ runner' = [runner EXCEPT ![w].step = "next", ![w].routes = {},
             ![w].queue = @ \cup {p \in UNION {Found(w, P(t), S[t], D) : t \in routes} :
                                    \A q \in old : Key(q) # Key(p)}]
  BY DEF ReadAddresses
<1> DEFINE found == UNION {Found(w, P(t), S[t], D) : t \in routes}
           queue == old \cup {p \in found : \A q \in old : Key(q) # Key(p)}
<1>5. \A t : /\ P(t) \subseteq AllPayments
             /\ Found(w, P(t), S[t], D) \subseteq P(t)
             /\ Overlooked(w, P(t), S[t], D) \subseteq P(t)
  BY DEF Found, Overlooked
<1>6. old \subseteq AllPayments /\ routes \subseteq Address
  BY <1>2 DEF RunnerType
<1>7. \A p \in found : p \in AllPayments /\ Final(p.tx)
  <2> SUFFICES ASSUME NEW p \in found PROVE p \in AllPayments /\ Final(p.tx)
    OBVIOUS
  <2> HIDE DEF P
  <2>1. PICK t \in routes : p \in Found(w, P(t), S[t], D)
    OBVIOUS
  <2>2. p \in P(t)
    BY <1>5, <2>1
  <2> QED BY <2>2 DEF P
<1>8. missed \subseteq missed' /\ missed' \subseteq AllPayments
  <2>1. UNION {Overlooked(w, P(t), S[t], D) : t \in routes} \subseteq AllPayments
    <3> SUFFICES ASSUME NEW t \in routes PROVE Overlooked(w, P(t), S[t], D) \subseteq AllPayments
      OBVIOUS
    <3> HIDE DEF P
    <3> QED BY <1>5
  <2> QED BY <1>3, <1>4, <2>1
<1>9. faults' \in 0 .. MaxFaults
  BY <1>4, SolanaAssumption DEF Reads, Inv, TypeOK
<1>10. queue \subseteq AllPayments
  BY <1>6, <1>7
<1>11. /\ runner' = [runner EXCEPT ![w] = runner'[w]] /\ runner'[w] \in RunnerType
       /\ runner'[w].from = runner[w].from /\ runner'[w].to = runner[w].to
       /\ runner'[w].step = "next" /\ runner'[w].queue = queue
  <2>1. runner' = [runner EXCEPT ![w] =
          [runner[w] EXCEPT !.step = "next", !.routes = {}, !.queue = queue]]
    BY <1>4
  <2> HIDE DEF queue
  <2> QED BY <1>2, <1>10, <2>1 DEF RunnerType, Step
<1>12. /\ AllPayments' = AllPayments /\ Behind(runner[w].from)'
       /\ \A p : Accounted(p) => Accounted(p)'
       /\ \A x : Final(x)' <=> Final(x)
  BY <1>1, <1>8, <1>11, Steady
<1>13. Scanned(w)'
  <2> SUFFICES ASSUME NEW p \in AllPayments, mined[p.tx] \in 1 .. runner[w].to
               PROVE  Accounted(p)' \/ p \in queue
    BY <1>1, <1>11, <1>12 DEF Scanned
  <2>1. /\ runner[w].from \in 0 .. slot /\ runner[w].to \in 0 .. slot /\ p.tx \in Tx
        /\ mined[p.tx] \in Nat
    BY <1>2, <1>3, PaymentFacts DEF RunnerType
  <2>2. CASE mined[p.tx] \in 1 .. runner[w].from
    BY <1>2, <1>12, <2>2 DEF Known, Behind
  <2>3. CASE p.byProgram
    BY <1>2, <1>12, <2>3 DEF Known, Scanned
  <2>4. CASE ~p.byProgram /\ mined[p.tx] \in runner[w].from + 1 .. runner[w].to
    <3>1. Final(p.tx) /\ InRange(w, p.tx)
      BY <1>3, <2>1, <2>4 DEF Final, InRange
    <3>2. p.to \in routes
      BY <1>2, <2>4 DEF Known, Scanned
    <3>3. p \in P(p.to)
      BY <2>4, <3>1
    <3>4. CASE p.tx \in S[p.to] \ D
      <4>1. p \in found
        BY <3>1, <3>2, <3>3, <3>4 DEF Found
      <4>2. CASE \A q \in old : Key(q) # Key(p)
        BY <4>1, <4>2
      <4>3. CASE \E q \in old : Key(q) = Key(p)
        <5>1. PICK q \in old : Key(q) = Key(p)
          BY <4>3
        <5>2. q \in AllPayments /\ q.byProgram
          BY <1>2, <1>6, <5>1 DEF Known, Queued
        <5>3. q # p
          BY <2>4, <5>2
        <5>4. Accounted(p)
          BY <1>3, <5>1, <5>2, <5>3, SameKeyShadows DEF Accounted
        <5> QED BY <1>12, <5>4
      <4> QED BY <4>2, <4>3
    <3>5. CASE p.tx \notin S[p.to] \ D
      <4>1. p \in Overlooked(w, P(p.to), S[p.to], D)
        BY <2>4, <3>3, <3>5 DEF Overlooked
      <4>2. p \in missed'
        BY <1>4, <3>2, <4>1
      <4> QED BY <4>2 DEF Accounted
    <3> QED BY <3>4, <3>5
  <2> QED BY <1>3, <2>1, <2>2, <2>3, <2>4
<1>14. \A p \in queue : Final(p.tx)
  BY <1>2, <1>7 DEF Known, Queued
<1>15. Queued(w)'
  BY <1>11, <1>12, <1>14 DEF Queued
<1>16. Known(w)'
  BY <1>11, <1>12, <1>13, <1>15 DEF Known
<1> QED BY <1>1, <1>8, <1>9, <1>11, <1>16, PollStep

(* What leaves the queue unreported has the key of a payment that was reported,
   or is that payment. *)
LEMMA CheckInv == ASSUME Inv, NEW w \in Runner, Check(w) PROVE Inv'
<1>1. UNCHANGED <<slot, mined, content, opened, event, sendAmount, rejected, cursor, seen, reported, missed,
                  faults>>
  BY DEF Check, chainVars, coreVars, table, storeVars, history
<1>2. runner \in [Runner -> RunnerType] /\ Known(w) /\ runner[w].step = "next"
  BY RunnerTyped DEF Inv, Check, At
<1>3. faults \in 0 .. MaxFaults /\ missed \subseteq AllPayments /\ content \in [Tx -> Content]
      /\ reported \subseteq AllPayments
  BY DEF Inv, TypeOK
<1>4. PICK p \in runner[w].queue :
        runner' = [runner EXCEPT ![w] =
          IF Seen(p) THEN [runner[w] EXCEPT !.queue = @ \ {p}]
                     ELSE [runner[w] EXCEPT !.step = "publish", !.at = p]]
  BY DEF Check, Candidates
<1>5. p \in AllPayments
  BY <1>2 DEF RunnerType
<1>6. Seen(p) => Accounted(p)
  <2> SUFFICES ASSUME Seen(p) PROVE Accounted(p)
    OBVIOUS
  <2>1. PICK q \in reported : Key(q) = Key(p)
    BY DEF Seen, Inv, SeenReported
  <2>2. CASE q = p
    BY <2>2 DEF Accounted
  <2>3. CASE q # p
    BY <1>3, <1>5, <2>1, <2>3, SameKeyShadows DEF Accounted
  <2> QED BY <2>2, <2>3
<1>7. /\ runner' = [runner EXCEPT ![w] = runner'[w]] /\ runner'[w] \in RunnerType
      /\ runner'[w].from = runner[w].from /\ runner'[w].to = runner[w].to
      /\ \/ Seen(p) /\ runner'[w].step = "next" /\ runner'[w].queue = runner[w].queue \ {p}
         \/ /\ runner'[w].step = "publish" /\ runner'[w].at = p
            /\ runner'[w].queue = runner[w].queue
  <2>1. CASE Seen(p)
    BY <1>2, <1>4, <2>1 DEF RunnerType, Step
  <2>2. CASE ~Seen(p)
    BY <1>2, <1>4, <1>5, <2>2 DEF RunnerType, Step
  <2> QED BY <2>1, <2>2
<1>8. /\ AllPayments' = AllPayments /\ Behind(runner[w].from)'
      /\ \A q : Accounted(q) => Accounted(q)'
      /\ \A x : Final(x)' <=> Final(x)
  BY <1>1, <1>7, Steady
<1>9. Scanned(w)'
  BY <1>1, <1>2, <1>6, <1>7, <1>8 DEF Known, Scanned
<1>10. Queued(w)'
  BY <1>2, <1>7, <1>8 DEF Known, Queued
<1>11. Known(w)'
  BY <1>7, <1>8, <1>9, <1>10 DEF Known
<1> QED BY <1>1, <1>3, <1>7, <1>11, PollStep

LEMMA CompleteInv == ASSUME Inv, NEW w \in Runner, Complete(w) PROVE Inv'
<1>1. UNCHANGED <<slot, mined, content, opened, event, sendAmount, rejected, cursor, seen, reported, missed,
                  faults>>
  BY DEF Complete, chainVars, coreVars, table, storeVars, history
<1>2. runner \in [Runner -> RunnerType] /\ Known(w) /\ runner[w].step = "next"
      /\ runner[w].queue = {}
  BY RunnerTyped DEF Inv, Complete, At
<1>3. faults \in 0 .. MaxFaults /\ missed \subseteq AllPayments
  BY DEF Inv, TypeOK
<1>4. /\ runner' = [runner EXCEPT ![w] = runner'[w]] /\ runner'[w] \in RunnerType
      /\ runner'[w].from = runner[w].from /\ runner'[w].to = runner[w].to
      /\ runner'[w].queue = {} /\ runner'[w].step = "save"
  BY <1>2 DEF Complete, Goto, RunnerType, Step
<1>5. /\ AllPayments' = AllPayments /\ Behind(runner[w].from)'
      /\ \A q : Accounted(q) => Accounted(q)'
  BY <1>1, <1>4, Steady
<1>6. Known(w)'
  BY <1>1, <1>2, <1>4, <1>5 DEF Known, Scanned, Queued
<1> QED BY <1>1, <1>3, <1>4, <1>6, PollStep

(* Only a payment to a stranger finds no transfer: the others were opened before
   they were paid. *)
LEMMA RouteNotFoundInv == ASSUME Inv, NEW w \in Runner, RouteNotFound(w) PROVE Inv'
<1>1. UNCHANGED <<slot, mined, content, opened, event, sendAmount, rejected, cursor, seen, reported, missed,
                  faults>>
  BY DEF RouteNotFound, chainVars, coreVars, table, storeVars, history
<1>2. runner \in [Runner -> RunnerType] /\ Known(w) /\ runner[w].step = "publish"
  BY RunnerTyped DEF Inv, RouteNotFound, At
<1>3. faults \in 0 .. MaxFaults /\ missed \subseteq AllPayments /\ content \in [Tx -> Content]
      /\ slot \in Nat /\ mined \in [Tx -> Nat]
  BY SolanaAssumption DEF Inv, TypeOK
<1> DEFINE p == runner[w].at
<1>4. p \in AllPayments /\ p \in runner[w].queue /\ Final(p.tx)
  BY <1>2 DEF Known, Queued, RunnerType
<1>5. p.to \in Stranger
  <2> SUFFICES ASSUME p.to \in Transfer PROVE FALSE
    BY <1>3, <1>4, PaymentFacts, SolanaAssumption
  <2>1. p.tx \in Tx /\ p.to \in Paid(p.tx)
    BY <1>3, <1>4, PaymentFacts
  <2>2. p.to \in opened
    BY <1>3, <1>4, <2>1 DEF Inv, PaidOpened, Final
  <2>3. Matches(p) = {}
    BY DEF RouteNotFound
  <2>4. p.byProgram \in BOOLEAN /\ (p.byProgram => p.to \notin Address) /\ (~p.byProgram => p.to \in Address)
    BY <1>3, <1>4, PaymentFacts, SolanaAssumption
  <2> QED BY <2>2, <2>3, <2>4 DEF Matches, ResolvePayment, ResolveRoute
<1>6. /\ runner' = [runner EXCEPT ![w] = runner'[w]] /\ runner'[w] \in RunnerType
      /\ runner'[w].from = runner[w].from /\ runner'[w].to = runner[w].to
      /\ runner'[w].queue = runner[w].queue \ {p} /\ runner'[w].step = "next"
  BY <1>2 DEF RouteNotFound, Done, RunnerType, Step
<1>7. /\ AllPayments' = AllPayments /\ Behind(runner[w].from)'
      /\ \A q : Accounted(q) => Accounted(q)'
      /\ \A x : Final(x)' <=> Final(x)
  BY <1>1, <1>6, Steady
<1>8. Accounted(p)
  BY <1>5 DEF Accounted
<1> HIDE DEF p
<1>9. Scanned(w)'
  BY <1>1, <1>2, <1>6, <1>7, <1>8 DEF Known, Scanned
<1>10. Queued(w)'
  BY <1>2, <1>6, <1>7 DEF Known, Queued
<1>11. Known(w)'
  BY <1>6, <1>7, <1>9, <1>10 DEF Known
<1> QED BY <1>1, <1>3, <1>6, <1>11, PollStep

(* What a report does to the tables of core-api, answered or not. *)
LEMMA Reporting ==
  ASSUME Inv, NEW w \in Runner, At(w, "publish"),
         UNCHANGED <<slot, mined, content, opened, cursor, seen, missed>>,
         \E t \in Matches(runner[w].at) : Record(t, Key(runner[w].at)),
         reported' = reported \cup {runner[w].at}
  PROVE  /\ runner[w].at \in AllPayments
         /\ TableTyped' /\ CoreInv'
         /\ SeenReported' /\ CursorSafe'
<1>1. runner[w] \in RunnerType /\ Known(w)
  BY RunnerTyped DEF Inv
<1>a. PICK p \in AllPayments : p = runner[w].at /\ Final(p.tx)
  BY <1>1 DEF At, Known, Queued, RunnerType
<1>2. p \in AllPayments /\ Final(p.tx) /\ p = runner[w].at
  BY <1>a
<1>3. TypeOK /\ CoreInv /\ content \in [Tx -> Content] /\ opened \subseteq Transfer
  BY DEF Inv, TypeOK
<1>4. p.to \in opened /\ Record(p.to, Key(p))
  BY <1>2 DEF Matches, ResolvePayment, ResolveRoute
<1>5. p.tx \in Tx /\ p.index \in Nat /\ p.to \in opened /\ Claims(p.to, <<p.tx, p.index>>)
  BY <1>2, <1>3, <1>4, PaymentFacts, PaymentClaims DEF Key
<1>6. Record(p.to, <<p.tx, p.index>>)
  BY <1>4 DEF Key
<1>7. /\ TableTyped' /\ EventClaimed' /\ ToleranceHonoured' /\ Extended
      /\ \/ IsFunded(p.to)'
         \/ \E r \in rejected' : r.t = p.to /\ r.tx = p.tx
         \/ Taken(<<p.tx, p.index>>)'
  BY <1>3, <1>5, <1>6, RecordFacts
<1>8. \A q \in reported' \ reported : IsFunded(q.to)' \/ Refused(q)' \/ Taken(Key(q))'
  <2>1. \A q \in reported' \ reported : q = p
    BY <1>2
  <2> QED BY <1>7, <2>1 DEF Key, Taken, Refused
<1>9. CoreInv'
  BY <1>3, <1>7, <1>8, CoreStep
<1>10. SeenReported'
  BY DEF Inv, SeenReported, Key
<1>11. CursorSafe'
  BY Still DEF Inv, CursorSafe
<1> QED BY <1>2, <1>7, <1>9, <1>10, <1>11

LEMMA DeliverInv == ASSUME Inv, NEW w \in Runner, Deliver(w) PROVE Inv'
<1>1. /\ UNCHANGED <<slot, mined, content, opened, cursor, seen, missed, faults>>
      /\ At(w, "publish") /\ reported' = reported \cup {runner[w].at}
      /\ \E t \in Matches(runner[w].at) : Record(t, Key(runner[w].at))
  BY DEF Deliver, chainVars, storeVars
<1>2. runner \in [Runner -> RunnerType] /\ Known(w) /\ runner[w].step = "publish"
  BY <1>1, RunnerTyped DEF Inv, At
<1>3. /\ faults \in 0 .. MaxFaults /\ missed \subseteq AllPayments /\ reported \subseteq AllPayments
      /\ cursor \in 0 .. slot /\ seen \subseteq {Key(p) : p \in AllPayments}
  BY DEF Inv, TypeOK
<1>4. /\ runner[w].at \in AllPayments
      /\ TableTyped' /\ CoreInv'
      /\ SeenReported' /\ CursorSafe'
  BY <1>1, Reporting
<1>5. /\ runner' = [runner EXCEPT ![w] = runner'[w]] /\ runner'[w] \in RunnerType
      /\ runner'[w].from = runner[w].from /\ runner'[w].to = runner[w].to
      /\ runner'[w].queue = runner[w].queue /\ runner'[w].step = "mark"
      /\ runner'[w].at = runner[w].at
  BY <1>2 DEF Deliver, Goto, RunnerType, Step
<1>6. /\ AllPayments' = AllPayments /\ Behind(runner[w].from)'
      /\ \A q : Accounted(q) => Accounted(q)'
      /\ \A x : Final(x)' <=> Final(x)
  BY <1>1, <1>5, Steady
<1>7. Known(w)'
  <2>1. Scanned(w)'
    BY <1>1, <1>2, <1>5, <1>6 DEF Known, Scanned
  <2>2. Queued(w)'
    BY <1>1, <1>2, <1>5, <1>6 DEF Known, Queued
  <2> QED BY <1>5, <1>6, <2>1, <2>2 DEF Known
<1>8. reported \subseteq reported' /\ reported' \subseteq AllPayments
  BY <1>1, <1>3, <1>4
<1> QED BY <1>1, <1>3, <1>4, <1>5, <1>7, <1>8, RunnerStep

LEMMA DeliverFailsInv == ASSUME Inv, NEW w \in Runner, DeliverFails(w) PROVE Inv'
<1>1. /\ UNCHANGED <<slot, mined, content, opened, cursor, seen, missed>>
      /\ At(w, "publish") /\ reported' = reported \cup {runner[w].at}
      /\ \E t \in Matches(runner[w].at) : Record(t, Key(runner[w].at))
  BY DEF DeliverFails, chainVars, storeVars
<1>2. runner \in [Runner -> RunnerType]
  BY RunnerTyped DEF Inv
<1>3. /\ missed \subseteq AllPayments /\ reported \subseteq AllPayments
      /\ cursor \in 0 .. slot /\ seen \subseteq {Key(p) : p \in AllPayments}
  BY DEF Inv, TypeOK
<1>4. faults' \in 0 .. MaxFaults
  BY SolanaAssumption DEF DeliverFails, Inv, TypeOK
<1>5. /\ runner[w].at \in AllPayments
      /\ TableTyped' /\ CoreInv'
      /\ SeenReported' /\ CursorSafe'
  BY <1>1, Reporting
<1>6. /\ runner' = [runner EXCEPT ![w] = runner'[w]] /\ runner'[w] \in RunnerType
      /\ runner'[w].step = "idle" /\ runner'[w].queue = {}
      /\ runner'[w].from \in {runner[w].from, cursor}
  BY <1>2 DEF DeliverFails, Failed, RunnerType, Step
<1>7. reported \subseteq reported' /\ reported' \subseteq AllPayments
  BY <1>1, <1>3, <1>5
<1>8. Known(w)'
  BY <1>1, <1>6, <1>7, IdleKnown
<1> QED BY <1>1, <1>3, <1>4, <1>5, <1>6, <1>7, <1>8, RunnerStep

(* Tables are not touched by the marks and the cursor. *)
LEMMA MarkInv == ASSUME Inv, NEW w \in Runner, Mark(w) PROVE Inv'
<1>1. /\ UNCHANGED <<slot, mined, content, opened, event, sendAmount, rejected, cursor, reported,
                     missed, faults>>
      /\ seen' = seen \cup {Key(runner[w].at)}
  BY DEF Mark, chainVars, coreVars, table, history
<1>2. runner \in [Runner -> RunnerType] /\ Known(w) /\ runner[w].step = "mark"
  BY RunnerTyped DEF Inv, Mark, At
<1>3. /\ faults \in 0 .. MaxFaults /\ missed \subseteq AllPayments /\ reported \subseteq AllPayments
      /\ cursor \in 0 .. slot /\ seen \subseteq {Key(p) : p \in AllPayments}
  BY DEF Inv, TypeOK
<1>4. runner[w].at \in reported
  BY <1>2 DEF Known, Queued
<1>5. CoreInv' /\ TableTyped'
  BY <1>1, CoreUnchanged, TablesTyped DEF Inv
<1>6. SeenReported' /\ seen' \subseteq {Key(p) : p \in AllPayments}
  BY <1>1, <1>3, <1>4 DEF Inv, SeenReported, Key
<1>7. CursorSafe'
  BY <1>1, Still DEF Inv, CursorSafe
<1>8. /\ runner' = [runner EXCEPT ![w] = runner'[w]] /\ runner'[w] \in RunnerType
      /\ runner'[w].from = runner[w].from /\ runner'[w].to = runner[w].to
      /\ runner'[w].queue = runner[w].queue \ {runner[w].at} /\ runner'[w].step = "next"
  BY <1>2 DEF Mark, Done, RunnerType, Step
<1>9. /\ AllPayments' = AllPayments /\ Behind(runner[w].from)'
      /\ \A q : Accounted(q) => Accounted(q)'
      /\ \A x : Final(x)' <=> Final(x)
  BY <1>1, <1>8, Steady
<1>10. Known(w)'
  <2>1. Accounted(runner[w].at)
    BY <1>4 DEF Accounted
  <2>2. Scanned(w)'
    BY <1>1, <1>2, <1>8, <1>9, <2>1 DEF Known, Scanned
  <2>3. Queued(w)'
    BY <1>2, <1>8, <1>9 DEF Known, Queued
  <2> QED BY <1>8, <1>9, <2>2, <2>3 DEF Known
<1> QED BY <1>1, <1>3, <1>5, <1>6, <1>7, <1>8, <1>10, RunnerStep

(* At the end of a poll its slot is a safe cursor. *)
LEMMA SafeTo ==
  ASSUME Inv, NEW w \in Runner, runner[w].step = "save"
  PROVE  /\ runner[w].to \in 0 .. slot
         /\ \A p \in AllPayments :
               p.to \in Transfer /\ mined[p.tx] \in 1 .. runner[w].to
                  => p \in reported \cup missed \/ Shadowed(p)
<1>1. runner[w] \in RunnerType /\ Known(w)
  BY RunnerTyped DEF Inv
<1> QED BY <1>1, SolanaAssumption DEF RunnerType, Known, Scanned, Queued, Accounted

LEMMA SaveInv == ASSUME Inv, NEW w \in Runner, Save(w) PROVE Inv'
<1>1. /\ UNCHANGED <<slot, mined, content, opened, event, sendAmount, rejected, seen, reported, missed, faults>>
      /\ cursor' = runner[w].to
  BY DEF Save, chainVars, coreVars, table, history
<1>2. runner \in [Runner -> RunnerType] /\ Known(w) /\ runner[w].step = "save"
  BY RunnerTyped DEF Inv, Save, At
<1>3. /\ faults \in 0 .. MaxFaults /\ missed \subseteq AllPayments /\ reported \subseteq AllPayments
      /\ seen \subseteq {Key(p) : p \in AllPayments}
  BY DEF Inv, TypeOK
<1>4. CoreInv' /\ TableTyped'
  BY <1>1, CoreUnchanged, TablesTyped DEF Inv
<1>5. SeenReported'
  BY <1>1 DEF Inv, SeenReported, Key
<1>6. CursorSafe' /\ cursor' \in 0 .. slot
  BY <1>1, <1>2, SafeTo, Still DEF CursorSafe
<1>7. /\ runner' = [runner EXCEPT ![w] = runner'[w]] /\ runner'[w] \in RunnerType
      /\ runner'[w].from = runner[w].from
      /\ runner'[w].queue = runner[w].queue /\ runner'[w].step \in {"idle", "reload"}
  BY <1>2 DEF Save, RunnerType, Step
<1>8. AllPayments' = AllPayments /\ Behind(runner[w].from)'
  BY <1>1, <1>7, Steady
<1>9. Known(w)'
  BY <1>2, <1>7, <1>8 DEF Known, Scanned, Queued
<1> QED BY <1>1, <1>3, <1>4, <1>5, <1>6, <1>7, <1>9, RunnerStep

(* A call that failed may have saved or marked all the same. *)
LEMMA StoreFailsInv == ASSUME Inv, NEW w \in Runner, StoreFails(w) PROVE Inv'
<1>1. /\ UNCHANGED <<slot, mined, content, opened, event, sendAmount, rejected, reported, missed>>
      /\ cursor' \in IF runner[w].step = "save" THEN {cursor, runner[w].to} ELSE {cursor}
      /\ seen' \in IF runner[w].step = "mark" THEN {seen, seen \cup {Key(runner[w].at)}} ELSE {seen}
  BY DEF StoreFails, chainVars, coreVars, table, history
<1>2. runner \in [Runner -> RunnerType] /\ Known(w)
  BY RunnerTyped DEF Inv
<1>3. /\ missed \subseteq AllPayments /\ reported \subseteq AllPayments
      /\ cursor \in 0 .. slot /\ seen \subseteq {Key(p) : p \in AllPayments}
  BY DEF Inv, TypeOK
<1>4. faults' \in 0 .. MaxFaults
  BY SolanaAssumption DEF StoreFails, Inv, TypeOK
<1>5. CoreInv' /\ TableTyped'
  BY <1>1, CoreUnchanged, TablesTyped DEF Inv
<1>6. SeenReported' /\ seen' \subseteq {Key(p) : p \in AllPayments}
  <2>1. runner[w].step = "mark" => runner[w].at \in reported
    BY <1>2 DEF Known, Queued
  <2> QED BY <1>1, <1>3, <2>1 DEF Inv, SeenReported, Key
<1>7. CursorSafe' /\ cursor' \in 0 .. slot
  <2>1. CASE cursor' = cursor
    BY <1>1, <1>3, <2>1, Still DEF Inv, CursorSafe
  <2>2. CASE runner[w].step = "save" /\ cursor' = runner[w].to
    BY <1>1, <2>2, SafeTo, Still DEF CursorSafe
  <2> QED BY <1>1, <2>1, <2>2
<1>8. /\ runner' = [runner EXCEPT ![w] = runner'[w]] /\ runner'[w] \in RunnerType
      /\ runner'[w].step = "idle" /\ runner'[w].queue = {}
      /\ runner'[w].from \in {runner[w].from, cursor}
  BY <1>2 DEF StoreFails, Failed, RunnerType, Step
<1>9. Known(w)'
  BY <1>1, <1>8, IdleKnown
<1> QED BY <1>1, <1>3, <1>4, <1>5, <1>6, <1>7, <1>8, <1>9, RunnerStep

-----------------------------------------------------------------------------
LEMMA StutterInv == ASSUME Inv, UNCHANGED vars PROVE Inv'
<1>1. UNCHANGED <<slot, mined, content, opened, event, sendAmount, rejected, cursor, seen, reported, missed,
                  runner, faults>>
  BY DEF vars, chainVars, coreVars, table, storeVars, history
<1>2. CoreInv' /\ TableTyped'
  BY <1>1, CoreUnchanged, TablesTyped DEF Inv
<1>3. PaidOpened'
  BY <1>1, Still DEF Inv, PaidOpened
<1>4. slot \in 0 .. MaxSlot /\ mined \in [Tx -> 0 .. MaxSlot] /\ opened \subseteq Transfer
  BY DEF Inv, TypeOK
<1> QED BY <1>1, <1>2, <1>3, <1>4, OutsideStep, SolanaAssumption

LEMMA NextInv == ASSUME Inv, [Next]_vars PROVE Inv'
<1>1. ASSUME NEW w \in Runner, Work(w) PROVE Inv'
  BY <1>1, ReadSlotInv, ReadTreasuryInv, ListRoutesInv, ReadAddressesInv, CheckInv, CompleteInv,
     RouteNotFoundInv, DeliverInv, MarkInv, SaveInv, RestartOrFailInv DEF Work
<1>2. ASSUME NEW w \in Runner, DeliverFails(w) \/ RpcFails(w) \/ StoreFails(w) \/ Restart(w)
      PROVE  Inv'
  BY <1>2, DeliverFailsInv, StoreFailsInv, RestartOrFailInv
<1>3. CASE UNCHANGED vars
  BY <1>3, StutterInv
<1> QED BY <1>1, <1>2, <1>3, OpenRouteInv, MineInv, NextSlotInv, SubmitInv DEF Next

THEOREM Inductive == Spec => []Inv
<1>1. Inv /\ [Next]_vars => Inv'
  BY NextInv
<1> QED BY InitInv, <1>1, PTL DEF Spec

(* Types, and that neither a runner nor the cursor is ever beyond the last
   finalized slot. *)
THEOREM TypeCorrect == Spec => []TypeOK
<1>1. Inv => TypeOK
  BY DEF Inv
<1> QED BY <1>1, Inductive, PTL

(* The cursor passes no payment that was neither reported, nor overlooked by a
   read, nor shadowed by another of its transaction: the routes are listed after
   the slot is read, and a key is marked after its report. *)
THEOREM NothingPassedOver == Spec => []CursorSafe
<1>1. Inv => CursorSafe
  BY DEF Inv
<1> QED BY <1>1, Inductive, PTL

(* A payment that found its key has funded its transfer, unless it is numbered 0:
   only then may the key be another transfer's. *)
LEMMA TakenKey ==
  ASSUME Inv, NEW p \in reported, Taken(Key(p))
  PROVE  \/ IsFunded(p.to)
         \/ /\ p.index = 0 /\ Key(p) \in DOMAIN event
            /\ event[Key(p)] \in Paid(p.tx) \/ (event[Key(p)] \notin Address /\ Unnamed(p.tx))
<1>1. p \in AllPayments /\ content \in [Tx -> Content]
  BY DEF Inv, TypeOK
<1>2. Key(p) \in DOMAIN event /\ Claims(event[Key(p)], Key(p))
  BY DEF Taken, Inv, CoreInv, EventClaimed
<1>3. p.index \in Nat /\ Key(p)[1] = p.tx /\ Key(p)[2] = p.index
  BY <1>1, PaymentFacts DEF Key
<1>4. CASE p.index = 0
  BY <1>2, <1>3, <1>4 DEF Claims
<1>5. CASE p.index # 0
  <2>1. event[Key(p)] = content[p.tx].events[p.index + 1]
    BY <1>2, <1>3, <1>5 DEF Claims
  <2>2. p.to = content[p.tx].events[p.index + 1]
    BY <1>1, <1>5, PaymentEvent
  <2> QED BY <1>2, <2>1, <2>2 DEF IsFunded
<1> QED BY <1>4, <1>5

(* A reported payment has funded its transfer, or was refused for its amount, or is
   numbered 0 and found its key taken: for another transfer that its transaction
   pays, or for one of the program whose customer submitted a transaction that pays
   into the treasury and names no transfer. *)
THEOREM ReportsFund == Spec => []ReportedIsFunded
<1>1. Inv => ReportedIsFunded
  <2> SUFFICES ASSUME Inv, NEW p \in reported
               PROVE  \/ IsFunded(p.to)
                      \/ Refused(p)
                      \/ /\ p.index = 0 /\ Key(p) \in DOMAIN event
                         /\ \/ event[Key(p)] \in Paid(p.tx)
                            \/ event[Key(p)] \notin Address /\ Unnamed(p.tx)
    BY DEF ReportedIsFunded, Refused
  <2>1. IsFunded(p.to) \/ Refused(p) \/ Taken(Key(p))
    BY DEF Inv, CoreInv, Settled
  <2> QED BY <2>1, TakenKey
<1> QED BY <1>1, Inductive, PTL

(* Rounding to cents moves the tolerance by half a cent at most, for any unit,
   price, limit and amount, and what a funded transfer sends is what its payment
   brought: a raise of the amount by a duplicate comes before the transfer is
   funded, and is compared with the payment that funds it. *)
THEOREM ToleranceIsHonoured == Spec => []ToleranceHonoured
<1>1. Inv => ToleranceHonoured
  BY DEF Inv, CoreInv
<1> QED BY <1>1, Inductive, PTL
=============================================================================
