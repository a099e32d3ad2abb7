--------------------------- MODULE WorkersProofs ---------------------------
(***************************************************************************)
(* Theorems of module Workers, for any sets of transfers and of sweepers,  *)
(* any finite set of dispatcher workers, and any limits and bounds.        *)
(*                                                                         *)
(* The budget of the attempts counts tokens.  An event has a token while   *)
(* it waits to be claimed, and one for each worker that holds a claim      *)
(* which may still be retried; only a token becomes another attempt, and   *)
(* only a fault or a stall makes one.  (The workers of module Sweep have   *)
(* no such bound: a slow sweeper takes over without being counted.)        *)
(***************************************************************************)
EXTENDS Workers, FiniteSetTheorems, TLAPS

(* The workers whose claim of t leaves another attempt. *)
Retriers(t) == {w \in Worker : claim[w] # D!NoClaim /\ claim[w].t = t /\ claim[w].n < DispatchMax}

(* t can be claimed without a stall. *)
Waiting(t) ==
    \/ event[t] = "pending"
    \/ event[t] = "processing" /\ \A w \in Worker : ~D!Holds(w, t)

Tokens(t) == Cardinality(Retriers(t)) + (IF Waiting(t) THEN 1 ELSE 0)

(* Until the limit is reached there is one token, and one for each fault and
   each stall; from there each attempt uses up one. *)
BudgetOf(t) ==
    /\ attempts[t] < DispatchMax => Tokens(t) <= 1 + faults + stalls
    /\ attempts[t] >= DispatchMax => attempts[t] + Tokens(t) <= DispatchMax + faults + stalls

Budget == \A t \in Transfer : BudgetOf(t)

(* An event that is not there has not been tried. *)
Untried ==
    \A t \in Transfer :
        event[t] = "none" => attempts[t] = 0 /\ \A w \in Worker : ~D!Holds(w, t)

DispatchInv == D!TypeOK /\ Untried /\ Budget

(* A sweeper works on a record that is there, and beyond its receipt on one
   whose funds are in treasury. *)
SweepInv ==
    /\ S!TypeOK
    /\ \A w \in Sweeper : task[w] # S!NoTask =>
          /\ settlement[task[w].t] # "none"
          /\ task[w].step \in {"mined", "audit"} => deposit[task[w].t] = "treasury"
    /\ \A t \in Transfer : settlement[t] = "swept" => deposit[t] = "treasury"

Inv ==
    /\ part \in {"dispatch", "sweep"}
    /\ DispatchInv
    /\ part = "sweep" => SweepInv

USE WorkersAssumption DEF D!DispatchAssumption, S!SweepAssumption

-----------------------------------------------------------------------------
(* The tokens of an event *)

LEMMA RetriersFinite ==
  ASSUME NEW R \in SUBSET Worker
  PROVE  IsFiniteSet(R) /\ Cardinality(R) \in Nat
  BY FS_Subset, FS_CardinalityType

LEMMA TokensNat ==
  ASSUME NEW t
  PROVE  Tokens(t) \in Nat /\ Tokens(t)' \in Nat
  <1>1. Retriers(t) \in SUBSET Worker /\ Retriers(t)' \in SUBSET Worker
    BY DEF Retriers
  <1>2. Cardinality(Retriers(t)) \in Nat /\ Cardinality(Retriers(t)') \in Nat
    BY <1>1, RetriersFinite
  <1> QED BY <1>2 DEF Tokens

(* An event keeps within its budget when its attempts stay and its tokens grow
   by no more than the faults and the stalls. *)
LEMMA BudgetKept ==
  ASSUME D!TypeOK, D!TypeOK', NEW t \in Transfer, BudgetOf(t),
         attempts'[t] = attempts[t],
         Tokens(t)' + faults + stalls <= Tokens(t) + faults' + stalls'
  PROVE  BudgetOf(t)'
  <1>1. Tokens(t) \in Nat /\ Tokens(t)' \in Nat
    BY TokensNat
  <1> QED BY <1>1 DEF D!TypeOK, BudgetOf

(* A claim turns a token into an attempt, or a stall makes one. *)
LEMMA BudgetSpent ==
  ASSUME D!TypeOK, D!TypeOK', NEW t \in Transfer, BudgetOf(t),
         attempts'[t] = attempts[t] + 1, faults' = faults,
         NEW kept \in {0, 1}, kept = 1 => attempts'[t] < DispatchMax,
         Tokens(t)' + 1 + stalls <= Tokens(t) + kept + stalls'
  PROVE  BudgetOf(t)'
  <1>1. Tokens(t) \in Nat /\ Tokens(t)' \in Nat
    BY TokensNat
  <1> QED BY <1>1 DEF D!TypeOK, BudgetOf

(* The workers hold what they held, and w no longer its claim. *)
LEMMA ClaimDropped ==
  ASSUME D!TypeOK, NEW w \in Worker, ~D!Idle(w),
         claim' = [claim EXCEPT ![w] = D!NoClaim], NEW t \in Transfer
  PROVE  /\ \A v \in Worker : D!Holds(v, t)' <=> D!Holds(v, t) /\ v # w
         /\ Cardinality(Retriers(t)') + (IF w \in Retriers(t) THEN 1 ELSE 0) =
              Cardinality(Retriers(t))
  <1>1. \A v \in Worker : claim'[v] = IF v = w THEN D!NoClaim ELSE claim[v]
    BY DEF D!TypeOK
  <1>2. \A v \in Worker : D!Holds(v, t)' <=> D!Holds(v, t) /\ v # w
    BY <1>1 DEF D!Holds, D!NoClaim
  <1>3. Retriers(t)' = Retriers(t) \ {w}
    BY <1>1 DEF Retriers
  <1>4. Retriers(t) \in SUBSET Worker
    BY DEF Retriers
  <1>5. CASE w \in Retriers(t)
    <2>1. Cardinality(Retriers(t)') = Cardinality(Retriers(t)) - 1
      BY <1>3, <1>4, <1>5, RetriersFinite, FS_RemoveElement
    <2>2. Cardinality(Retriers(t)) \in Nat
      BY <1>4, RetriersFinite
    <2> QED BY <1>2, <1>5, <2>1, <2>2
  <1>6. CASE w \notin Retriers(t)
    <2>1. Retriers(t)' = Retriers(t)
      BY <1>3, <1>6
    <2>2. Cardinality(Retriers(t)) \in Nat
      BY <1>4, RetriersFinite
    <2> QED BY <1>2, <1>6, <2>1, <2>2
  <1> QED BY <1>5, <1>6

(* An idle worker takes a claim c of t. *)
LEMMA ClaimTaken ==
  ASSUME D!TypeOK, NEW w \in Worker, D!Idle(w), NEW t \in Transfer, NEW n \in Nat, n # 0,
         claim' = [claim EXCEPT ![w] = [t |-> t, n |-> n]], NEW u \in Transfer
  PROVE  /\ \A v \in Worker : D!Holds(v, u)' <=> D!Holds(v, u) \/ (v = w /\ u = t)
         /\ Cardinality(Retriers(u)') =
              Cardinality(Retriers(u)) + (IF u = t /\ n < DispatchMax THEN 1 ELSE 0)
  <1>1. \A v \in Worker : claim'[v] = IF v = w THEN [t |-> t, n |-> n] ELSE claim[v]
    BY DEF D!TypeOK
  <1>2. claim[w] = D!NoClaim /\ claim[w].t = "none"
    BY DEF D!Idle, D!NoClaim
  <1>3. \A v \in Worker : D!Holds(v, u)' <=> D!Holds(v, u) \/ (v = w /\ u = t)
    BY <1>1, <1>2 DEF D!Holds
  <1>4. Retriers(u) \in SUBSET Worker /\ w \notin Retriers(u)
    BY <1>2 DEF Retriers
  <1>5. [t |-> t, n |-> n] # D!NoClaim
    BY DEF D!NoClaim
  <1>6. CASE u = t /\ n < DispatchMax
    <2>1. Retriers(u)' = Retriers(u) \cup {w}
      BY <1>1, <1>5, <1>6 DEF Retriers
    <2> QED BY <1>3, <1>4, <1>6, <2>1, RetriersFinite, FS_AddElement
  <1>7. CASE ~(u = t /\ n < DispatchMax)
    <2>1. Retriers(u)' = Retriers(u)
      BY <1>1, <1>2, <1>7 DEF Retriers
    <2>2. Cardinality(Retriers(u)) \in Nat
      BY <1>4, RetriersFinite
    <2> QED BY <1>3, <1>7, <2>1, <2>2
  <1> QED BY <1>6, <1>7

-----------------------------------------------------------------------------
(* The dispatcher *)

LEMMA FinishTyped ==
  ASSUME D!TypeOK, NEW w \in Worker, ~D!Idle(w), NEW s \in D!EventState, D!Finish(w, s)
  PROVE  D!TypeOK'
  BY DEF D!TypeOK, D!Idle, D!Finish, D!EventState, D!NoClaim

LEMMA DispatchTyped ==
  ASSUME D!TypeOK, D!Next
  PROVE  D!TypeOK'
  <1> USE DEF D!TypeOK, D!EventState, D!Reply, D!Status, D!eventVars
  <1>1. ASSUME NEW t \in Transfer, D!Enqueue(t) /\ UNCHANGED settlement PROVE D!TypeOK'
    BY <1>1 DEF D!Enqueue
  <1>2. ASSUME NEW w \in Worker, NEW t \in Transfer, D!Claim(w, t) PROVE D!TypeOK'
    <2>1. stalls' \in 0 .. MaxStalls
      BY <1>2 DEF D!Claim, D!Due
    <2>2. attempts' = [attempts EXCEPT ![t] = attempts[t] + 1] /\ attempts[t] \in Nat
      BY <1>2 DEF D!Claim
    <2>3. claim' = [claim EXCEPT ![w] = [t |-> t, n |-> attempts[t] + 1]]
      BY <1>2 DEF D!Claim
    <2>4. \A v \in Worker : claim'[v] # D!NoClaim => claim'[v].n \in 1 .. attempts'[claim'[v].t]
      <3> SUFFICES ASSUME NEW v \in Worker, claim'[v] # D!NoClaim
                   PROVE  claim'[v].n \in 1 .. attempts'[claim'[v].t]
        OBVIOUS
      <3>1. CASE v = w
        BY <2>2, <2>3, <3>1
      <3>2. CASE v # w
        <4>1. claim'[v] = claim[v] /\ claim[v].t \in Transfer
              /\ claim[v].n \in 1 .. attempts[claim[v].t]
          BY <2>3, <3>2
        <4>2. attempts'[claim[v].t] \in {attempts[claim[v].t], attempts[claim[v].t] + 1}
          BY <2>2, <4>1
        <4> QED BY <4>1, <4>2
      <3> QED BY <3>1, <3>2
    <2>5. \A v \in Worker : claim'[v] = D!NoClaim => reply'[v] = "unsent"
      BY <1>2, <2>2, <2>3 DEF D!Claim, D!Idle, D!NoClaim
    <2> QED BY <1>2, <2>1, <2>2, <2>3, <2>4, <2>5 DEF D!Claim
  <1>3. ASSUME NEW w \in Worker, D!RejectPayload(w) PROVE D!TypeOK'
    BY <1>3, FinishTyped DEF D!RejectPayload
  <1>4. ASSUME NEW w \in Worker, D!Send(w) PROVE D!TypeOK'
    BY <1>4 DEF D!Send, D!Idle
  <1>5. ASSUME NEW w \in Worker,
               D!MarkProcessed(w) \/ D!MarkRetry(w) \/ D!MarkDeadLetter(w)
        PROVE  D!TypeOK'
    <2>1. ~D!Idle(w)
      BY <1>5 DEF D!MarkProcessed, D!MarkRetry, D!RetryDue, D!MarkDeadLetter, D!Idle
    <2> QED BY <1>5, <2>1, FinishTyped DEF D!MarkProcessed, D!MarkRetry, D!MarkDeadLetter
  <1>6. ASSUME NEW w \in Worker, D!MarkFails(w) PROVE D!TypeOK'
    <2>1. claim[w] # D!NoClaim
      BY <1>6 DEF D!MarkFails
    <2>2. event' \in [Transfer -> D!EventState]
      BY <1>6 DEF D!MarkFails
    <2>3. UNCHANGED <<valid, attempts, claim, settlement, stalls>> /\ faults' \in 0 .. MaxFaults
      BY <1>6 DEF D!MarkFails
    <2>4. reply' = [reply EXCEPT ![w] = "thrown"]
      BY <1>6 DEF D!MarkFails
    <2> QED BY <2>1, <2>2, <2>3, <2>4
  <1>7. ASSUME NEW w \in Worker, D!WorkerDies(w) PROVE D!TypeOK'
    BY <1>7 DEF D!WorkerDies, D!NoClaim
  <1>8. ASSUME NEW w \in Worker, NEW a \in D!Reply, D!Receive(w, a) PROVE D!TypeOK'
    BY <1>8 DEF D!Receive
  <1>9. ASSUME NEW t \in Transfer, NEW s \in D!SettlementState, D!SettlementChanges(t, s)
        PROVE  D!TypeOK'
    BY <1>9 DEF D!SettlementChanges
  <1> QED BY <1>1, <1>2, <1>3, <1>4, <1>5, <1>6, <1>7, <1>8, <1>9
          DEF D!Next, D!Work, D!Fault

(* Whatever leaves the claims, the events and the attempts alone. *)
LEMMA QuietStep ==
  ASSUME DispatchInv, D!TypeOK',
         UNCHANGED <<event, attempts, claim, stalls>>, faults' >= faults
  PROVE  DispatchInv'
  <1>1. \A t \in Transfer : Tokens(t)' = Tokens(t)
    BY DEF Tokens, Retriers, Waiting, D!Holds
  <1>2. Untried'
    BY DEF DispatchInv, Untried, D!Holds
  <1>3. ASSUME NEW t \in Transfer PROVE BudgetOf(t)'
    <2>1. Tokens(t) \in Nat
      BY TokensNat
    <2>2. faults \in Nat /\ faults' \in Nat /\ stalls \in Nat
      BY DEF DispatchInv, D!TypeOK
    <2> QED BY <1>1, <2>1, <2>2, BudgetKept DEF DispatchInv, Budget
  <1> QED BY <1>2, <1>3 DEF DispatchInv, Budget

(* A worker that writes its outcome gives its claim for the event's turn. *)
LEMMA FinishKeeps ==
  ASSUME DispatchInv, D!TypeOK', NEW w \in Worker, ~D!Idle(w),
         NEW s \in {"pending", "processed", "dead_letter"}, D!Finish(w, s),
         s = "pending" => claim[w].n < DispatchMax
  PROVE  DispatchInv'
  <1>1. claim[w].t \in Transfer /\ claim[w] # D!NoClaim
    BY DEF DispatchInv, D!TypeOK, D!Idle
  <1>2. \A t \in Transfer : event'[t] = IF t = claim[w].t THEN s ELSE event[t]
    BY DEF DispatchInv, D!TypeOK, D!Finish
  <1>3. UNCHANGED <<attempts, faults, stalls>> /\ claim' = [claim EXCEPT ![w] = D!NoClaim]
    BY DEF D!Finish
  <1>4. ASSUME NEW t \in Transfer
        PROVE  /\ \A v \in Worker : D!Holds(v, t)' <=> D!Holds(v, t) /\ v # w
               /\ Cardinality(Retriers(t)') + (IF w \in Retriers(t) THEN 1 ELSE 0) =
                    Cardinality(Retriers(t))
    BY <1>3, ClaimDropped DEF DispatchInv
  <1>5. ASSUME NEW t \in Transfer PROVE BudgetOf(t)'
    <2>1. Cardinality(Retriers(t)') \in Nat /\ Cardinality(Retriers(t)) \in Nat
      <3>1. Retriers(t)' \in SUBSET Worker /\ Retriers(t) \in SUBSET Worker
        BY DEF Retriers
      <3> QED BY <3>1, RetriersFinite
    <2>2. Tokens(t)' <= Tokens(t)
      <3>1. CASE t = claim[w].t /\ s = "pending"
        <4>1. w \in Retriers(t)
          BY <1>1, <3>1 DEF Retriers
        <4>2. Waiting(t)'
          BY <1>2, <3>1 DEF Waiting
        <4> QED BY <1>4, <2>1, <4>1, <4>2 DEF Tokens
      <3>2. CASE t = claim[w].t /\ s # "pending"
        <4>1. ~Waiting(t)'
          BY <1>2, <3>2 DEF Waiting
        <4> QED BY <1>4, <2>1, <4>1 DEF Tokens
      <3>3. CASE t # claim[w].t
        <4>1. ~D!Holds(w, t)
          BY <3>3 DEF D!Holds
        <4>2. Waiting(t)' <=> Waiting(t)
          BY <1>2, <1>4, <3>3, <4>1 DEF Waiting
        <4> QED BY <1>4, <2>1, <4>2 DEF Tokens
      <3> QED BY <3>1, <3>2, <3>3
    <2>3. Tokens(t) \in Nat /\ Tokens(t)' \in Nat
      BY TokensNat
    <2>4. faults \in Nat /\ stalls \in Nat
      BY DEF DispatchInv, D!TypeOK
    <2> QED BY <1>3, <2>2, <2>3, <2>4, BudgetKept DEF DispatchInv, Budget
  <1>6. Untried'
    BY <1>1, <1>2, <1>3, <1>4 DEF DispatchInv, Untried, D!Holds
  <1> QED BY <1>5, <1>6 DEF DispatchInv, Budget

(* A claim takes the event's turn, or is paid for by a stall. *)
LEMMA ClaimKeeps ==
  ASSUME DispatchInv, D!TypeOK', NEW w \in Worker, NEW t \in Transfer, D!Claim(w, t)
  PROVE  DispatchInv'
  <1>1. attempts[t] \in Nat /\ faults \in Nat /\ stalls \in Nat /\ stalls' \in Nat
    BY DEF DispatchInv, D!TypeOK
  <1>2. \A u \in Transfer : attempts'[u] = IF u = t THEN attempts[t] + 1 ELSE attempts[u]
    BY DEF DispatchInv, D!TypeOK, D!Claim
  <1>3. \A u \in Transfer : event'[u] = IF u = t THEN "processing" ELSE event[u]
    BY DEF DispatchInv, D!TypeOK, D!Claim
  <1>4. faults' = faults /\ stalls' \in {stalls, stalls + 1}
    BY DEF D!Claim, D!Due
  <1>5. /\ D!Idle(w) /\ attempts[t] + 1 \in Nat /\ attempts[t] + 1 # 0
        /\ claim' = [claim EXCEPT ![w] = [t |-> t, n |-> attempts[t] + 1]]
    BY <1>1 DEF D!Claim
  <1>6. ASSUME NEW u \in Transfer
        PROVE  /\ \A v \in Worker : D!Holds(v, u)' <=> D!Holds(v, u) \/ (v = w /\ u = t)
               /\ Cardinality(Retriers(u)') =
                    Cardinality(Retriers(u))
                      + (IF u = t /\ attempts[t] + 1 < DispatchMax THEN 1 ELSE 0)
    <2> DEFINE n == attempts[t] + 1
    <2>1. /\ D!TypeOK /\ D!Idle(w) /\ n \in Nat /\ n # 0
          /\ claim' = [claim EXCEPT ![w] = [t |-> t, n |-> n]]
      BY <1>5 DEF DispatchInv
    <2> HIDE DEF n
    <2>2. /\ \A v \in Worker : D!Holds(v, u)' <=> D!Holds(v, u) \/ (v = w /\ u = t)
          /\ Cardinality(Retriers(u)') =
               Cardinality(Retriers(u)) + (IF u = t /\ n < DispatchMax THEN 1 ELSE 0)
      BY <2>1, ClaimTaken
    <2> QED BY <2>2 DEF n
  <1>7. ASSUME NEW u \in Transfer
        PROVE  Cardinality(Retriers(u)') \in Nat /\ Cardinality(Retriers(u)) \in Nat
    <2>1. Retriers(u)' \in SUBSET Worker /\ Retriers(u) \in SUBSET Worker
      BY DEF Retriers
    <2> QED BY <2>1, RetriersFinite
  <1>8. ASSUME NEW u \in Transfer, u # t PROVE BudgetOf(u)'
    <2>1. Waiting(u)' <=> Waiting(u)
      BY <1>3, <1>6, <1>8 DEF Waiting
    <2>2. Tokens(u)' = Tokens(u)
      BY <1>6, <1>7, <1>8, <2>1 DEF Tokens
    <2>3. Tokens(u) \in Nat
      BY TokensNat
    <2>4. Tokens(u)' + faults + stalls <= Tokens(u) + faults' + stalls'
      BY <1>1, <1>4, <2>2, <2>3
    <2>5. attempts'[u] = attempts[u]
      BY <1>2, <1>8
    <2> QED BY <2>4, <2>5, BudgetKept DEF DispatchInv, Budget
  <1>9. BudgetOf(t)'
    <2> DEFINE kept == IF attempts[t] + 1 < DispatchMax THEN 1 ELSE 0
    <2>1. Cardinality(Retriers(t)') = Cardinality(Retriers(t)) + kept
      BY <1>6
    <2>2. ~Waiting(t)'
      BY <1>3, <1>6 DEF Waiting
    <2>3. Tokens(t)' = Cardinality(Retriers(t)) + kept
      BY <1>7, <2>1, <2>2 DEF Tokens
    <2>4. (Waiting(t) /\ stalls' = stalls) \/ stalls' = stalls + 1
      BY DEF D!Claim, D!Due, Waiting
    <2>5. kept \in {0, 1} /\ (kept = 1 => attempts'[t] < DispatchMax)
      BY <1>2
    <2> HIDE DEF kept
    <2>6. Tokens(t)' + 1 + stalls <= Tokens(t) + kept + stalls'
      <3>1. CASE Waiting(t) /\ stalls' = stalls
        BY <1>1, <1>7, <2>3, <2>5, <3>1 DEF Tokens
      <3>2. CASE stalls' = stalls + 1
        <4>1. Tokens(t) \in {Cardinality(Retriers(t)), Cardinality(Retriers(t)) + 1}
          BY <1>7 DEF Tokens
        <4> QED BY <1>1, <1>7, <2>3, <2>5, <3>2, <4>1
      <3> QED BY <2>4, <3>1, <3>2
    <2>7. attempts'[t] = attempts[t] + 1
      BY <1>2
    <2> QED BY <1>4, <2>5, <2>6, <2>7, BudgetSpent DEF DispatchInv, Budget
  <1>10. Untried'
    <2>1. \A u \in Transfer : event'[u] = "none" => u # t /\ event[u] = "none"
      BY <1>3
    <2> QED BY <1>2, <1>6, <2>1 DEF DispatchInv, Untried
  <1> QED BY <1>8, <1>9, <1>10 DEF DispatchInv, Budget

(* The first token of an event. *)
LEMMA EnqueueKeeps ==
  ASSUME DispatchInv, D!TypeOK', NEW t \in Transfer, D!Enqueue(t)
  PROVE  DispatchInv'
  <1>1. UNCHANGED <<attempts, claim, faults, stalls>>
    BY DEF D!Enqueue
  <1>2. \A u \in Transfer : event'[u] = IF u = t THEN "pending" ELSE event[u]
    BY DEF DispatchInv, D!TypeOK, D!Enqueue
  <1>3. \A u \in Transfer : Retriers(u)' = Retriers(u)
    BY <1>1 DEF Retriers
  <1>4. faults \in Nat /\ stalls \in Nat
    BY DEF DispatchInv, D!TypeOK
  <1>5. ASSUME NEW u \in Transfer, u # t PROVE BudgetOf(u)'
    <2>1. Tokens(u)' = Tokens(u)
      BY <1>1, <1>2, <1>3, <1>5 DEF Tokens, Waiting, D!Holds
    <2>2. Tokens(u) \in Nat
      BY TokensNat
    <2> QED BY <1>1, <1>4, <2>1, <2>2, BudgetKept DEF DispatchInv, Budget
  <1>6. BudgetOf(t)'
    <2>1. attempts[t] = 0 /\ \A w \in Worker : ~D!Holds(w, t)
      BY DEF DispatchInv, Untried, D!Enqueue
    <2>2. Retriers(t)' = {}
      BY <1>3, <2>1 DEF Retriers, D!Holds
    <2>3. Tokens(t)' <= 1
      BY <2>2, FS_EmptySet DEF Tokens
    <2>4. Tokens(t)' \in Nat
      BY TokensNat
    <2> QED BY <1>1, <1>4, <2>1, <2>3, <2>4 DEF BudgetOf
  <1>7. Untried'
    BY <1>1, <1>2 DEF DispatchInv, Untried, D!Holds
  <1> QED BY <1>5, <1>6, <1>7 DEF DispatchInv, Budget

(* A fault may give an event its turn back, and pays for it. *)
LEMMA FaultKeeps ==
  ASSUME DispatchInv, D!TypeOK', NEW w \in Worker, D!Fault(w)
  PROVE  DispatchInv'
  <1>1. UNCHANGED <<attempts, stalls>> /\ faults' = faults + 1
    BY DEF D!Fault, D!MarkFails, D!WorkerDies, D!eventVars
  <1>2. faults \in Nat /\ stalls \in Nat
    BY DEF DispatchInv, D!TypeOK
  <1>3. claim[w] # D!NoClaim /\ claim[w].t \in Transfer
    BY DEF DispatchInv, D!TypeOK, D!Fault, D!MarkFails, D!WorkerDies, D!Status, D!Idle
  <1>4. ASSUME NEW t \in Transfer
        PROVE  /\ \A v \in Worker : D!Holds(v, t)' => D!Holds(v, t)
               /\ Cardinality(Retriers(t)') <= Cardinality(Retriers(t))
               /\ Cardinality(Retriers(t)') \in Nat /\ Cardinality(Retriers(t)) \in Nat
    <2>1. Retriers(t)' \in SUBSET Worker /\ Retriers(t) \in SUBSET Worker
      BY DEF Retriers
    <2>2. Cardinality(Retriers(t)') \in Nat /\ Cardinality(Retriers(t)) \in Nat
      BY <2>1, RetriersFinite
    <2>3. CASE D!MarkFails(w)
      <3>1. claim' = claim
        BY <2>3 DEF D!MarkFails
      <3>2. Retriers(t)' = Retriers(t)
        BY <3>1 DEF Retriers
      <3> QED BY <2>2, <3>1, <3>2 DEF D!Holds
    <2>4. CASE D!WorkerDies(w)
      <3>1. ~D!Idle(w) /\ claim' = [claim EXCEPT ![w] = D!NoClaim]
        BY <2>4 DEF D!WorkerDies
      <3>2. /\ \A v \in Worker : D!Holds(v, t)' <=> D!Holds(v, t) /\ v # w
            /\ Cardinality(Retriers(t)') + (IF w \in Retriers(t) THEN 1 ELSE 0) =
                 Cardinality(Retriers(t))
        BY <3>1, ClaimDropped DEF DispatchInv
      <3> QED BY <2>2, <3>2
    <2> QED BY <2>3, <2>4 DEF D!Fault
  <1>5. ASSUME NEW t \in Transfer PROVE BudgetOf(t)'
    <2>1. Tokens(t)' <= Tokens(t) + 1
      BY <1>4 DEF Tokens
    <2>2. Tokens(t) \in Nat /\ Tokens(t)' \in Nat
      BY TokensNat
    <2> QED BY <1>1, <1>2, <2>1, <2>2, BudgetKept DEF DispatchInv, Budget
  <1>6. ASSUME NEW t \in Transfer, event'[t] = "none" PROVE event[t] = "none"
    <2>1. CASE D!MarkFails(w)
      BY <1>3, <1>6, <2>1 DEF DispatchInv, D!TypeOK, D!MarkFails
    <2>2. CASE D!WorkerDies(w)
      BY <1>6, <2>2 DEF D!WorkerDies, D!eventVars
    <2> QED BY <2>1, <2>2 DEF D!Fault
  <1>7. Untried'
    BY <1>1, <1>4, <1>6 DEF DispatchInv, Untried
  <1> QED BY <1>5, <1>7 DEF DispatchInv, Budget

LEMMA DispatchNext ==
  ASSUME DispatchInv, D!Next
  PROVE  DispatchInv'
  <1>1. D!TypeOK'
    BY DispatchTyped DEF DispatchInv
  <1>2. faults \in Nat
    BY DEF DispatchInv, D!TypeOK
  <1>3. ASSUME NEW t \in Transfer, D!Enqueue(t) PROVE DispatchInv'
    BY <1>1, <1>3, EnqueueKeeps
  <1>4. ASSUME NEW w \in Worker, NEW t \in Transfer, D!Claim(w, t) PROVE DispatchInv'
    BY <1>1, <1>4, ClaimKeeps
  <1>5. ASSUME NEW w \in Worker,
               D!RejectPayload(w) \/ D!MarkProcessed(w) \/ D!MarkRetry(w) \/ D!MarkDeadLetter(w)
        PROVE  DispatchInv'
    <2>1. ~D!Idle(w)
      BY <1>5 DEF DispatchInv, D!TypeOK, D!Idle, D!Reply, D!Status, D!RejectPayload,
                  D!MarkProcessed, D!MarkRetry, D!RetryDue, D!MarkDeadLetter
    <2>2. PICK s \in {"pending", "processed", "dead_letter"} :
             D!Finish(w, s) /\ (s = "pending" => claim[w].n < DispatchMax)
      BY <1>5 DEF D!RejectPayload, D!MarkProcessed, D!MarkRetry, D!RetryDue, D!MarkDeadLetter
    <2> QED BY <1>1, <2>1, <2>2, FinishKeeps
  <1>6. ASSUME NEW w \in Worker, D!Fault(w) PROVE DispatchInv'
    BY <1>1, <1>6, FaultKeeps
  <1>7. ASSUME NEW w \in Worker, D!Send(w) \/ \E a \in D!Reply : D!Receive(w, a)
        PROVE  DispatchInv'
    BY <1>1, <1>2, <1>7, QuietStep DEF D!Send, D!Receive, D!eventVars
  <1>8. ASSUME NEW t \in Transfer, NEW s \in D!SettlementState, D!SettlementChanges(t, s)
        PROVE  DispatchInv'
    BY <1>1, <1>2, <1>8, QuietStep DEF D!SettlementChanges, D!eventVars
  <1> QED BY <1>3, <1>4, <1>5, <1>6, <1>7, <1>8 DEF D!Next, D!Work

-----------------------------------------------------------------------------
(* The sweeper *)

LEMMA SweepNext ==
  ASSUME SweepInv, S!Next
  PROVE  SweepInv'
  <1> USE DEF SweepInv, S!TypeOK, S!SettlementState, S!TaskStep, S!NoTask, S!At, S!Goto,
              S!Stop, S!SetStatus, S!Idle
  <1>1. ASSUME NEW t \in Transfer, S!Open(t) PROVE SweepInv'
    BY <1>1 DEF S!Open
  <1>2. ASSUME NEW t \in Transfer, S!Mine(t) PROVE SweepInv'
    BY <1>2 DEF S!Mine
  <1>3. ASSUME NEW w \in Sweeper, NEW t \in Transfer, S!Claim(w, t) PROVE SweepInv'
    BY <1>3 DEF S!Claim
  <1>4. ASSUME NEW w \in Sweeper, S!Broadcast(w) PROVE SweepInv'
    BY <1>4 DEF S!Broadcast
  <1>5. ASSUME NEW w \in Sweeper, S!ReceiptSuccess(w) PROVE SweepInv'
    BY <1>5 DEF S!ReceiptSuccess
  <1>6. ASSUME NEW w \in Sweeper, S!ReceiptFailure(w) PROVE SweepInv'
    BY <1>6 DEF S!ReceiptFailure
  <1>7. ASSUME NEW w \in Sweeper, S!MarkSwept(w) PROVE SweepInv'
    BY <1>7 DEF S!MarkSwept
  <1>8. ASSUME NEW w \in Sweeper, S!AuditSwept(w) \/ S!WorkerDies(w) PROVE SweepInv'
    BY <1>8 DEF S!AuditSwept, S!WorkerDies
  <1>9. ASSUME NEW w \in Sweeper, S!MarkFails(w) PROVE SweepInv'
    BY <1>9 DEF S!MarkFails
  <1>10. ASSUME NEW w \in Sweeper, S!MarkRetry(w) \/ S!MarkReviewRequired(w) PROVE SweepInv'
    BY <1>10 DEF S!MarkRetry, S!MarkReviewRequired
  <1> QED BY <1>1, <1>2, <1>3, <1>4, <1>5, <1>6, <1>7, <1>8, <1>9, <1>10
          DEF S!Next, S!Work

-----------------------------------------------------------------------------
(* Both *)

LEMMA InitInv == Init => Inv
  <1> SUFFICES ASSUME Init PROVE Inv
    OBVIOUS
  <1>1. D!TypeOK
    BY DEF Init, D!Init, D!TypeOK, D!EventState, D!SettlementState
  <1>2. SweepInv
    BY DEF Init, S!Init, SweepInv, S!TypeOK, S!SettlementState
  <1>3. Untried
    BY DEF Init, D!Init, Untried, D!Holds, D!NoClaim, D!DispatchAssumption
  <1>4. ASSUME NEW t \in Transfer PROVE BudgetOf(t)
    <2>1. Retriers(t) = {} /\ ~Waiting(t) /\ attempts[t] = 0 /\ faults = 0 /\ stalls = 0
      BY DEF Init, D!Init, Retriers, Waiting
    <2>2. Tokens(t) = 0
      BY <2>1, FS_EmptySet DEF Tokens
    <2> QED BY <2>1, <2>2 DEF BudgetOf
  <1> QED BY <1>1, <1>2, <1>3, <1>4 DEF Init, Inv, DispatchInv, Budget

LEMMA NextInv == Inv /\ [Next]_vars => Inv'
  <1> SUFFICES ASSUME Inv, [Next]_vars PROVE Inv'
    OBVIOUS
  <1>1. CASE part = "dispatch" /\ D!Next /\ UNCHANGED part
    BY <1>1, DispatchNext DEF Inv
  <1>2. CASE part = "sweep" /\ S!Next /\ UNCHANGED <<part, dispatchVars>>
    <2>1. SweepInv'
      BY <1>2, SweepNext DEF Inv
    <2>2. D!TypeOK'
      BY <1>2, <2>1 DEF Inv, DispatchInv, D!TypeOK, SweepInv, S!TypeOK, D!SettlementState,
                        S!SettlementState, dispatchVars
    <2>3. faults' >= faults
      <3>1. faults' = faults \/ faults' = faults + 1
        BY <1>2 DEF S!Next, S!Open, S!Mine, S!Work, S!Claim, S!Broadcast, S!ReceiptSuccess,
                    S!ReceiptFailure, S!MarkSwept, S!AuditSwept, S!MarkRetry,
                    S!MarkReviewRequired, S!MarkFails, S!WorkerDies
      <3> QED BY <3>1 DEF Inv, DispatchInv, D!TypeOK
    <2>4. UNCHANGED <<event, attempts, claim, stalls>>
      BY <1>2 DEF dispatchVars
    <2>5. DispatchInv'
      BY <2>2, <2>3, <2>4, QuietStep DEF Inv
    <2> QED BY <1>2, <2>1, <2>5 DEF Inv
  <1>3. CASE UNCHANGED vars
    <2>1. UNCHANGED <<event, valid, attempts, claim, reply, stalls, settlement, tries, task,
                      deposit, airborne, faults, part>>
      BY <1>3 DEF vars, dispatchVars, sweepVars
    <2>2. D!TypeOK' /\ (part = "sweep" => SweepInv')
      BY <2>1 DEF Inv, DispatchInv, D!TypeOK, SweepInv, S!TypeOK
    <2>3. faults' >= faults
      BY <2>1 DEF Inv, DispatchInv, D!TypeOK
    <2> QED BY <2>1, <2>2, <2>3, QuietStep DEF Inv
  <1> QED BY <1>1, <1>2, <1>3 DEF Next, Inv

LEMMA Invariance == FairSpec => []Inv
  <1>1. FairSpec => Init /\ [][Next]_vars
    BY PTL DEF FairSpec
  <1> QED BY <1>1, InitInv, NextInv, PTL

(* Types of the dispatcher's rows and workers, and of the sweeper's. *)
THEOREM TypeCorrect == FairSpec => [](D!TypeOK /\ (part = "sweep" => S!TypeOK))
  <1>1. Inv => D!TypeOK /\ (part = "sweep" => S!TypeOK)
    BY DEF Inv, DispatchInv, SweepInv
  <1> QED BY Invariance, <1>1, PTL

(* Take-overs, slow workers that write late and failed marks cannot have a
   payout posted more often than the limit, plus once for each of them. *)
THEOREM AttemptsWithinBudget == FairSpec => []RetryBudget
  <1>1. Inv => RetryBudget
    <2> SUFFICES ASSUME Inv, NEW t \in Transfer
                 PROVE  attempts[t] <= DispatchMax + faults + stalls
      BY DEF RetryBudget
    <2>1. Tokens(t) \in Nat
      BY TokensNat
    <2>2. attempts[t] \in Nat /\ faults \in Nat /\ stalls \in Nat /\ DispatchMax \in Nat
      BY DEF Inv, DispatchInv, D!TypeOK
    <2>3. BudgetOf(t)
      BY DEF Inv, DispatchInv, Budget
    <2> QED BY <2>1, <2>2, <2>3 DEF BudgetOf
  <1> QED BY Invariance, <1>1, PTL

(* A record says that it is swept only when its funds are in treasury, although
   workers write it without naming their claim. *)
THEOREM SweptIsInTreasury == FairSpec => []SweptTruthful
  <1>1. Inv => SweptTruthful
    BY DEF Inv, SweepInv, SweptTruthful
  <1> QED BY Invariance, <1>1, PTL
=============================================================================
