-------------------------- MODULE SafeguardProofs --------------------------
(***************************************************************************)
(* Theorems of the two modules that guard the rest: Idempotency, which     *)
(* keeps a request from being served twice, and Reconcile, which finds     *)
(* what went wrong all the same.                                           *)
(*                                                                         *)
(* For any sets of calls, keys, payloads and responses, the reservation is *)
(* a mutual exclusion under every fault; a key has one response until      *)
(* retention deletes its row; and its handler runs to its end at most once *)
(* unless a response could not be stored.                                  *)
(*                                                                         *)
(* For any number of transfers, runs and readers and any size of a page,   *)
(* no alarm for a broken database comes from a read torn by a step of      *)
(* another service; a run misses no more transfers than left its scope     *)
(* while it read; and a completed run is shown with all its issues.        *)
(***************************************************************************)
EXTENDS Idempotency, Reconcile, FiniteSetTheorems, TLAPS

-----------------------------------------------------------------------------
(***************************************************************************)
(* The idempotency wrapper.                                                *)
(***************************************************************************)
(* What a call is about to store is what its handler returned. *)
AnswerReady == \A r \in Request : pc[r] = "storing" => answer[r] \in Response

Typed == TypeOK /\ AnswerReady
Inv == Typed /\ SingleOwner /\ OwnerHoldsRow

LEMMA InitInv == Init => Inv
  <1> USE HashAssumption
  <1> SUFFICES ASSUME Init PROVE Inv
    OBVIOUS
  <1>1. TypeOK
    BY DEF Init, TypeOK, Step, Owning, Refusal
  <1>2. AnswerReady /\ SingleOwner /\ OwnerHoldsRow
    BY DEF Init, AnswerReady, SingleOwner, OwnerHoldsRow, Owning
  <1> QED BY <1>1, <1>2 DEF Inv, Typed

(* Each step keeps the type invariant and AnswerReady. *)
LEMMA NextTyped == Typed /\ [Next]_vars => Typed'
  <1> SUFFICES ASSUME Typed, [Next]_vars PROVE Typed'
    OBVIOUS
  <1> USE DEF Typed, TypeOK, AnswerReady, Step, Owning, Refusal, rowVars, Return
  <1>1. ASSUME NEW r \in Request, Reserve(r) PROVE Typed'
    BY <1>1 DEF Reserve
  <1>2. ASSUME NEW r \in Request, FindReserved(r) PROVE Typed'
    BY <1>2 DEF FindReserved
  <1>3. ASSUME NEW r \in Request, NEW a \in Response, Execute(r, a) PROVE Typed'
    BY <1>3 DEF Execute
  <1>4. ASSUME NEW r \in Request, HandlerThrows(r) PROVE Typed'
    BY <1>4 DEF HandlerThrows
  <1>5. ASSUME NEW r \in Request, Store(r) PROVE Typed'
    BY <1>5 DEF Store
  <1>6. ASSUME NEW r \in Request, StoreFails(r) \/ Release(r) PROVE Typed'
    BY <1>6 DEF StoreFails, Release
  <1>7. ASSUME NEW r \in Request,
               PollMissing(r) \/ PollConflict(r) \/ Replay(r) \/ PollTimeout(r)
        PROVE Typed'
    BY <1>7 DEF PollMissing, PollConflict, Replay, PollTimeout
  <1>8. ASSUME NEW r \in Request, Crash(r) PROVE Typed'
    BY <1>8 DEF Crash
  <1>9. ASSUME NEW k \in Key, Purge(k) PROVE Typed'
    BY <1>9 DEF Purge
  <1>10. CASE UNCHANGED vars
    BY <1>10 DEF vars
  <1> QED
    BY <1>1, <1>2, <1>3, <1>4, <1>5, <1>6, <1>7, <1>8, <1>9, <1>10 DEF Next, Advance

(* The reservation changes hands only when nobody holds it. *)
LEMMA NextOwner == Inv /\ [Next]_vars => SingleOwner' /\ OwnerHoldsRow'
  <1> SUFFICES ASSUME Inv, [Next]_vars PROVE SingleOwner' /\ OwnerHoldsRow'
    OBVIOUS
  <1> USE DEF Inv, Typed, TypeOK, SingleOwner, OwnerHoldsRow, Step, Owning, rowVars, Return
  <1>1. ASSUME NEW r \in Request, Reserve(r) PROVE SingleOwner' /\ OwnerHoldsRow'
    BY <1>1 DEF Reserve
  <1>2. ASSUME NEW r \in Request, FindReserved(r) PROVE SingleOwner' /\ OwnerHoldsRow'
    BY <1>2 DEF FindReserved
  <1>3. ASSUME NEW r \in Request, NEW a \in Response, Execute(r, a)
        PROVE SingleOwner' /\ OwnerHoldsRow'
    BY <1>3 DEF Execute
  <1>4. ASSUME NEW r \in Request, HandlerThrows(r) PROVE SingleOwner' /\ OwnerHoldsRow'
    BY <1>4 DEF HandlerThrows
  <1>5. ASSUME NEW r \in Request, Store(r) PROVE SingleOwner' /\ OwnerHoldsRow'
    BY <1>5 DEF Store
  <1>6. ASSUME NEW r \in Request, StoreFails(r) \/ Release(r)
        PROVE SingleOwner' /\ OwnerHoldsRow'
    BY <1>6 DEF StoreFails, Release
  <1>7. ASSUME NEW r \in Request,
               PollMissing(r) \/ PollConflict(r) \/ Replay(r) \/ PollTimeout(r)
        PROVE SingleOwner' /\ OwnerHoldsRow'
    BY <1>7 DEF PollMissing, PollConflict, Replay, PollTimeout
  <1>8. ASSUME NEW r \in Request, Crash(r) PROVE SingleOwner' /\ OwnerHoldsRow'
    BY <1>8 DEF Crash
  <1>9. ASSUME NEW k \in Key, Purge(k) PROVE SingleOwner' /\ OwnerHoldsRow'
    BY <1>9 DEF Purge
  <1>10. CASE UNCHANGED vars
    BY <1>10 DEF vars
  <1> QED
    BY <1>1, <1>2, <1>3, <1>4, <1>5, <1>6, <1>7, <1>8, <1>9, <1>10 DEF Next, Advance

LEMMA Invariance == Spec => []Inv
  <1>1. Inv /\ [Next]_vars => Inv'
    BY NextTyped, NextOwner DEF Inv
  <1> QED BY InitInv, <1>1, PTL DEF Spec

(* The variables of the wrapper keep their types. *)
THEOREM TypeCorrect == Spec => []TypeOK
  BY Invariance, PTL DEF Inv, Typed

(* withIdempotency never lets two calls run the handler of one key at a time,
   whatever crashes, failing queries and the retention job do. *)
THEOREM MutualExclusion == Spec => []SingleOwner
  BY Invariance, PTL DEF Inv

(* Nothing but the owner touches the row of a running call. *)
THEOREM OwnersRow == Spec => []OwnerHoldsRow
  BY Invariance, PTL DEF Inv

-----------------------------------------------------------------------------
(***************************************************************************)
(* Until it is purged a stored response stays, so that every response a    *)
(* caller was given is still in the row of its key.                        *)
(***************************************************************************)

ResponseKept ==
    \A r \in Request :
        "purge" \notin hit[key[r]] /\ pc[r] = "answered" /\ answer[r] \in Response
        => /\ row[key[r]] = "done"
           /\ rowResponse[key[r]] = answer[r]
           /\ rowHash[key[r]] = hash[r]

LEMMA NextResponseKept ==
  ASSUME Inv, ResponseKept, [Next]_vars
  PROVE  ResponseKept'
  <1> USE DEF Inv, Typed, TypeOK, AnswerReady, SingleOwner, OwnerHoldsRow, ResponseKept,
              Step, Owning, rowVars, Return
  <1>1. ASSUME NEW r \in Request, Reserve(r) PROVE ResponseKept'
    BY <1>1 DEF Reserve
  <1>2. ASSUME NEW r \in Request, FindReserved(r) PROVE ResponseKept'
    BY <1>2 DEF FindReserved
  <1>3. ASSUME NEW r \in Request, NEW a \in Response, Execute(r, a) PROVE ResponseKept'
    BY <1>3 DEF Execute
  <1>4. ASSUME NEW r \in Request, HandlerThrows(r) \/ StoreFails(r) PROVE ResponseKept'
    BY <1>4 DEF HandlerThrows, StoreFails
  <1>5. ASSUME NEW r \in Request, Store(r) PROVE ResponseKept'
    BY <1>5 DEF Store
  <1>6. ASSUME NEW r \in Request, Release(r) PROVE ResponseKept'
    BY <1>6, ResponseAssumption DEF Release, Refusal
  <1>7. ASSUME NEW r \in Request, Replay(r) PROVE ResponseKept'
    BY <1>7 DEF Replay
  <1>8. ASSUME NEW r \in Request, PollMissing(r) \/ PollConflict(r) \/ PollTimeout(r)
        PROVE ResponseKept'
    BY <1>8, ResponseAssumption DEF PollMissing, PollConflict, PollTimeout, Refusal
  <1>9. ASSUME NEW r \in Request, Crash(r) PROVE ResponseKept'
    BY <1>9 DEF Crash
  <1>10. ASSUME NEW k \in Key, Purge(k) PROVE ResponseKept'
    BY <1>10 DEF Purge
  <1>11. CASE UNCHANGED vars
    BY <1>11 DEF vars
  <1> QED
    BY <1>1, <1>2, <1>3, <1>4, <1>5, <1>6, <1>7, <1>8, <1>9, <1>10, <1>11 DEF Next, Advance

(* As long as the retention job does not delete the row, all callers of a key
   that are given a handler's response are given the same one, and sent the
   same payload. *)
THEOREM UniqueResponse == Spec => []OneResponsePerKey
  <1>1. Init => ResponseKept
    BY DEF Init, ResponseKept
  <1>2. Inv /\ ResponseKept /\ [Next]_vars => ResponseKept'
    BY NextResponseKept
  <1>3. ResponseKept => OneResponsePerKey
    BY DEF ResponseKept, OneResponsePerKey
  <1> QED BY Invariance, <1>1, <1>2, <1>3, PTL DEF Spec

-----------------------------------------------------------------------------
(***************************************************************************)
(* A key that has been executed stays taken: crashes do not release it.    *)
(***************************************************************************)

ExecutionLocksKey ==
    /\ \A k \in Key : hit[k] = {} =>
          /\ executed[k] = {} \/ \E r \in Request : executed[k] = {r}
          /\ executed[k] # {} => row[k] # "absent"
    /\ \A r \in Request :
          hit[key[r]] = {} /\ pc[r] \in {"executing", "releasing"} => executed[key[r]] = {}

LEMMA NextExecutionLocksKey ==
  ASSUME Inv, ExecutionLocksKey, [Next]_vars
  PROVE  ExecutionLocksKey'
  <1> USE DEF Inv, Typed, TypeOK, SingleOwner, OwnerHoldsRow, ExecutionLocksKey,
              Step, Owning, rowVars, Return
  <1>1. ASSUME NEW r \in Request, Reserve(r) PROVE ExecutionLocksKey'
    BY <1>1 DEF Reserve
  <1>2. ASSUME NEW r \in Request, FindReserved(r) PROVE ExecutionLocksKey'
    BY <1>2 DEF FindReserved
  <1>3. ASSUME NEW r \in Request, NEW a \in Response, Execute(r, a)
        PROVE ExecutionLocksKey'
    <2>1. hit[key[r]] = {} => executed[key[r]] = {} /\ executed'[key[r]] = {r}
      BY <1>3 DEF Execute
    <2>2. \A k \in Key : k # key[r] => executed'[k] = executed[k]
      BY <1>3 DEF Execute
    <2>3. \A s \in Request : pc'[s] \in {"executing", "releasing"} => key[s] # key[r]
      BY <1>3 DEF Execute
    <2> QED BY <1>3, <2>1, <2>2, <2>3 DEF Execute
  <1>4. ASSUME NEW r \in Request, HandlerThrows(r) PROVE ExecutionLocksKey'
    BY <1>4 DEF HandlerThrows
  <1>5. ASSUME NEW r \in Request, Store(r) PROVE ExecutionLocksKey'
    BY <1>5, SMTT(30) DEF Store
  <1>6. ASSUME NEW r \in Request, StoreFails(r) PROVE ExecutionLocksKey'
    BY <1>6, SMTT(30) DEF StoreFails
  <1>7. ASSUME NEW r \in Request, Release(r) PROVE ExecutionLocksKey'
    BY <1>7, SMTT(30) DEF Release
  <1>8. ASSUME NEW r \in Request,
               PollMissing(r) \/ PollConflict(r) \/ Replay(r) \/ PollTimeout(r)
        PROVE ExecutionLocksKey'
    BY <1>8 DEF PollMissing, PollConflict, Replay, PollTimeout
  <1>9. ASSUME NEW r \in Request, Crash(r) PROVE ExecutionLocksKey'
    BY <1>9 DEF Crash
  <1>10. ASSUME NEW k \in Key, Purge(k) PROVE ExecutionLocksKey'
    BY <1>10 DEF Purge
  <1>11. CASE UNCHANGED vars
    BY <1>11 DEF vars
  <1> QED
    BY <1>1, <1>2, <1>3, <1>4, <1>5, <1>6, <1>7, <1>8, <1>9, <1>10, <1>11 DEF Next, Advance

(* If every response can be stored and rows are kept, the handler of a key runs
   to its end at most once, although its owner may die at any step. *)
THEOREM ExecutedOnce == Spec => []AtMostOneExecution
  <1>1. Init => ExecutionLocksKey
    BY DEF Init, ExecutionLocksKey
  <1>2. Inv /\ ExecutionLocksKey /\ [Next]_vars => ExecutionLocksKey'
    BY NextExecutionLocksKey
  <1>3. ExecutionLocksKey => AtMostOneExecution
    <2> SUFFICES ASSUME ExecutionLocksKey, NEW k \in Key, hit[k] = {}
                 PROVE  Cardinality(executed[k]) <= 1
      BY DEF AtMostOneExecution
    <2>1. CASE executed[k] = {}
      <3>1. Cardinality(executed[k]) = 0
        BY <2>1, FS_EmptySet
      <3> QED BY <3>1
    <2>2. ASSUME NEW r \in Request, executed[k] = {r} PROVE Cardinality(executed[k]) <= 1
      <3>1. Cardinality({r}) = 1
        BY FS_Singleton
      <3> QED BY <2>2, <3>1
    <2> QED BY <2>1, <2>2 DEF ExecutionLocksKey
  <1> QED BY Invariance, <1>1, <1>2, <1>3, PTL DEF Spec

-----------------------------------------------------------------------------
(***************************************************************************)
(* Reconciliation.                                                         *)
(***************************************************************************)
USE ReconcileAssumption

-----------------------------------------------------------------------------
(***************************************************************************)
(* Counting: the place of a transfer in a set that is listed newest first. *)
(***************************************************************************)
Above(W, t) == {u \in W : u > t}
Rank(W, t) == Cardinality(Above(W, t))

LEMMA TransfersFinite == IsFiniteSet(Transfer) /\ Transfer \subseteq Nat
  BY FS_Interval DEF Transfer

LEMMA SomeTransfers ==
  ASSUME NEW W \in SUBSET Transfer
  PROVE  IsFiniteSet(W) /\ Cardinality(W) \in Nat
  BY TransfersFinite, FS_Subset, FS_CardinalityType

(* The newest has none above it, and the older has more. *)
LEMMA RankFacts ==
  ASSUME NEW W \in SUBSET Transfer
  PROVE  /\ \A t : Rank(W, t) \in Nat
         /\ \A t \in W : Rank(W, t) < Cardinality(W)
         /\ \A t, u \in W : t < u => Rank(W, u) < Rank(W, t)
<1>1. \A t : Above(W, t) \in SUBSET Transfer
  BY DEF Above
<1>2. \A t : Rank(W, t) \in Nat
  BY <1>1, SomeTransfers DEF Rank
<1>3. ASSUME NEW A \in SUBSET Transfer, NEW B \in SUBSET A, NEW t \in A \ B
      PROVE  Cardinality(B) < Cardinality(A)
  <2>1. IsFiniteSet(A) /\ Cardinality(A) \in Nat /\ Cardinality(B) \in Nat
    BY SomeTransfers
  <2>2. Cardinality(B) <= Cardinality(A) /\ Cardinality(B) # Cardinality(A)
    BY <2>1, FS_Subset
  <2> QED BY <2>1, <2>2
<1>4. \A t \in W : Rank(W, t) < Cardinality(W)
  <2> SUFFICES ASSUME NEW t \in W PROVE Rank(W, t) < Cardinality(W)
    OBVIOUS
  <2>1. Above(W, t) \in SUBSET W /\ t \in W \ Above(W, t)
    BY TransfersFinite DEF Above
  <2> QED BY <1>3, <2>1 DEF Rank
<1>5. \A t, u \in W : t < u => Rank(W, u) < Rank(W, t)
  <2> SUFFICES ASSUME NEW t \in W, NEW u \in W, t < u PROVE Rank(W, u) < Rank(W, t)
    OBVIOUS
  <2>1. t \in Nat /\ u \in Nat /\ W \subseteq Nat
    BY TransfersFinite
  <2>2. \A v \in W : v > u => v > t
    BY <2>1
  <2>3. Above(W, u) \in SUBSET Above(W, t) /\ u \in Above(W, t) \ Above(W, u)
    <3>1. Above(W, u) \in SUBSET Above(W, t)
      BY <2>2 DEF Above
    <3>2. u > t /\ ~(u > u)
      BY <2>1
    <3> QED BY <3>1, <3>2 DEF Above
  <2> QED BY <1>1, <1>3, <2>3 DEF Rank
<1> QED BY <1>2, <1>4, <1>5

(* No two have the same place. *)
LEMMA RankInjective ==
  ASSUME NEW W \in SUBSET Transfer, NEW t \in W, NEW u \in W, Rank(W, t) = Rank(W, u)
  PROVE  t = u
<1>1. t \in Nat /\ u \in Nat
  BY TransfersFinite
<1> QED BY <1>1, RankFacts

(* Every place has one. *)
LEMMA RankOnto ==
  ASSUME NEW W \in SUBSET Transfer, NEW k \in Nat, k < Cardinality(W)
  PROVE  \E t \in W : Rank(W, t) = k
<1> DEFINE P == 0 .. Cardinality(W) - 1
           f == [t \in W |-> Rank(W, t)]
<1>1. Cardinality(W) \in Nat
  BY SomeTransfers
<1>2. IsFiniteSet(P) /\ Cardinality(P) = Cardinality(W)
  <2>1. IsFiniteSet(P) /\ Cardinality(P) = IF 0 > Cardinality(W) - 1 THEN 0 ELSE Cardinality(W) - 1 - 0 + 1
    <3> HIDE DEF P
    <3>1. Cardinality(W) - 1 \in Int /\ P = 0 .. (Cardinality(W) - 1)
      BY <1>1 DEF P
    <3> QED BY <3>1, FS_Interval
  <2> QED BY <1>1, <2>1
<1>3. f \in [W -> P]
  BY <1>1, RankFacts
<1>4. f \in Injection(W, P)
  BY <1>3, RankInjective DEF Injection, IsInjective
<1>5. f \in Surjection(W, P)
  BY <1>2, <1>4, FS_Injection
<1>6. k \in P
  BY <1>1
<1> QED BY <1>5, <1>6 DEF Surjection

(* A page is full if there is one beyond it. *)
LEMMA FullPage ==
  ASSUME NEW W \in SUBSET Transfer, NEW o \in Nat, NEW k \in Nat,
         NEW t \in W, Rank(W, t) >= o + k
  PROVE  Cardinality({u \in W : o <= Rank(W, u) /\ Rank(W, u) < o + k}) >= k
<1> DEFINE P == {u \in W : o <= Rank(W, u) /\ Rank(W, u) < o + k}
           g == [u \in P |-> Rank(W, u)]
<1>1. IsFiniteSet(P) /\ Cardinality(P) \in Nat
  BY SomeTransfers
<1>2. Cardinality(W) \in Nat /\ \A u \in W : Rank(W, u) \in Nat /\ Rank(W, u) < Cardinality(W)
  BY SomeTransfers, RankFacts
<1>3. ASSUME NEW n \in o .. o + k - 1 PROVE \E u \in P : Rank(W, u) = n
  <2>1. n \in Nat /\ n < Cardinality(W) /\ o <= n /\ n < o + k
    BY <1>2
  <2> QED BY <2>1, RankOnto
<1>4. g \in Surjection(P, o .. o + k - 1)
  BY <1>2, <1>3 DEF Surjection
<1>5. Cardinality(o .. o + k - 1) = k
  BY FS_Interval
<1>6. Cardinality(o .. o + k - 1) <= Cardinality(P)
  BY <1>1, <1>4, FS_Surjection
<1> QED BY <1>1, <1>5, <1>6

(* What has gained only those at one place has gained one at most. *)
LEMMA OneMore ==
  ASSUME NEW W \in SUBSET Transfer, NEW A \in SUBSET Transfer, NEW B \in SUBSET Transfer,
         NEW k, \A t \in B \ A : t \in W /\ Rank(W, t) = k
  PROVE  Cardinality(B) <= Cardinality(A) + 1
<1>1. IsFiniteSet(A) /\ Cardinality(A) \in Nat /\ Cardinality(B) \in Nat
  BY SomeTransfers
<1>2. CASE B \subseteq A
  <2>1. Cardinality(B) <= Cardinality(A)
    BY <1>1, <1>2, FS_Subset
  <2> QED BY <1>1, <2>1
<1>3. CASE ~(B \subseteq A)
  <2>1. PICK t \in B \ A : TRUE
    BY <1>3
  <2>2. B \subseteq A \cup {t}
    BY <2>1, RankInjective
  <2>3. IsFiniteSet(A \cup {t}) /\ Cardinality(A \cup {t}) = Cardinality(A) + 1
    BY <1>1, <2>1, FS_AddElement
  <2>4. Cardinality(B) <= Cardinality(A \cup {t})
    BY <2>2, <2>3, FS_Subset
  <2> QED BY <2>3, <2>4
<1> QED BY <1>2, <1>3

LEMMA RankArrives ==
  ASSUME NEW W \in SUBSET Transfer, NEW n \in Transfer, \A u \in W : u < n,
         NEW t \in W
  PROVE  Rank(W \cup {n}, t) = Rank(W, t) + 1
<1>1. Above(W \cup {n}, t) = Above(W, t) \cup {n} /\ n \notin Above(W, t)
  BY TransfersFinite DEF Above
<1>2. IsFiniteSet(Above(W, t))
  BY SomeTransfers DEF Above
<1> QED BY <1>1, <1>2, FS_AddElement DEF Rank

LEMMA RankDeparts ==
  ASSUME NEW W \in SUBSET Transfer, NEW d \in W, NEW t \in W
  PROVE  Rank(W \ {d}, t) = Rank(W, t) \/ Rank(W \ {d}, t) = Rank(W, t) - 1
<1>1. Above(W \ {d}, t) = Above(W, t) \ {d}
  BY DEF Above
<1>2. IsFiniteSet(Above(W, t))
  BY SomeTransfers DEF Above
<1> QED BY <1>1, <1>2, FS_RemoveElement DEF Rank

-----------------------------------------------------------------------------
(***************************************************************************)
(* The invariant                                                           *)
(***************************************************************************)
Scope == {t \in Transfer : InScope(t)}

(* Status and supplements are written together. *)
Written ==
    /\ \A t \in Transfer : status[t] # "AWAITING_FUNDING" => funding[t]
    /\ \A t \in Transfer : status[t] = "PAYOUT_INITIATED" => payout[t] # "none"

(* The supplements of the rows of reader x are there, and so is what it has
   read of them. *)
Backed(x) ==
    \A t \in DOMAIN page[x] :
        /\ page[x][t].status # "AWAITING_FUNDING" =>
              funding[t] /\ ("funding" \in got[x] => page[x][t].funding)
        /\ page[x][t].status = "PAYOUT_INITIATED" =>
              payout[t] # "none" /\ ("payout" \in got[x] => page[x][t].payout # "none")

(* The transfers run x has in its snapshot, and those on its page too. *)
Examined(x) == {r.t : r \in snapshot[x]}
Handled(x) == Examined(x) \cup DOMAIN page[x]

(* Run x has read its last page; its next page starts at Limit. *)
LastRead(x) ==
    phase[x] \in Reported \/ (phase[x] = "supplements" /\ Cardinality(DOMAIN page[x]) < PageSize)
Limit(x) == IF phase[x] = "targets" THEN offset[x] ELSE offset[x] + PageSize

(* The transfers that have slipped in front of the next page unread, and those
   that are to be read again. *)
Skipped(x) ==
    {t \in Scope \ (arrived[x] \cup Handled(x)) : LastRead(x) \/ Rank(Scope, t) < Limit(x)}
Again(x) == {t \in Scope \cap Handled(x) : ~LastRead(x) /\ Rank(Scope, t) >= Limit(x)}

(* Each was moved by a transfer that left, or that came. *)
Accounted(x) ==
    /\ Cardinality(Skipped(x)) <= Cardinality(departed[x])
    /\ Cardinality(snapshot[x]) + Cardinality(Examined(x) \cap DOMAIN page[x])
          + Cardinality(Again(x))
       <= Cardinality(Examined(x)) + Cardinality(arrived[x])

(* What comes and goes does so once. *)
Observed(x) ==
    /\ arrived[x] \subseteq 1 .. created
    /\ departed[x] \subseteq (1 .. created) \ Scope
    /\ Handled(x) \subseteq 1 .. created

Covered(x) ==
    /\ Observed(x)
    /\ IF phase[x] \in Reading \cup Reported THEN Accounted(x)
       ELSE offset[x] = 0 /\ snapshot[x] = {} /\ arrived[x] = {} /\ departed[x] = {}

Over == {"audit", "done", "dead"}

(* The row of run x against its progress; a completed row counts the issues. *)
RowTrue(x) ==
    /\ phase[x] \in {"idle", "unused", "called"} => run[x] = NoRun
    /\ phase[x] \in Reading \cup Reported => run[x].status = "running"
    /\ run[x].status = "completed" =>
          phase[x] \in Over /\ (issue[x] = {} \/ run[x].issues = Cardinality(issue[x]))
    /\ phase[x] = "audit" => x \in Triggered

(* The run that an operator has seen completed is as it was, or is gone. *)
ViewTrue ==
    view.step \in {"issues", "shown"} /\ view.seen.status = "completed" =>
        phase[view.run] \in Over /\ run[view.run] \in {view.seen, NoRun}

RunRow == [status : {"absent", "running", "completed"}, transfers : Nat, issues : Nat]
SnapshotRow == [at : Nat, t : Transfer, codes : SUBSET Code]

Shaped ==
    /\ page = [x \in Reader |-> page[x]]
    /\ \A x \in Reader : phase[x] # "supplements" => page[x] = NoPage
    /\ snapshot \in [Run -> SUBSET SnapshotRow] /\ \A x \in Run : IsFiniteSet(snapshot[x])
    /\ issue \in [Run -> SUBSET (Nat \X Transfer \X Code)] /\ \A x \in Run : IsFiniteSet(issue[x])
    /\ view \in [run : Run \cup {"none"}, seen : RunRow, rows : Nat,
                 step : {"idle", "unused", "asked", "issues", "shown"}]
    /\ view.step \in {"asked", "issues", "shown"} => view.run \in Run

ReconcileTyped == ReconcileTypeOK /\ Shaped

ReconcileInv ==
    /\ ReconcileTyped
    /\ Written /\ \A x \in Reader : Backed(x)
    /\ \A x \in Run : Covered(x) /\ RowTrue(x)
    /\ ViewTrue /\ ViewComplete

LEMMA NewerIsRank ==
  /\ \A t : Newer(t) = Rank(Scope, t)
  /\ \A t : Newer(t)' = Rank(Scope', t)
<1>1. ASSUME NEW t PROVE {u \in Transfer : InScope(u) /\ u > t} = Above(Scope, t)
  BY DEF Above, Scope
<1>2. ASSUME NEW t PROVE {u \in Transfer : InScope(u)' /\ u > t} = Above(Scope', t)
  BY DEF Above, Scope
<1> QED BY <1>1, <1>2 DEF Newer, Rank

-----------------------------------------------------------------------------
(***************************************************************************)
(* The services.                                                           *)
(***************************************************************************)

(* The scope when a status is written: only a transfer that was open may leave,
   and none that was closed comes back. *)
LEMMA StatusWritten ==
  ASSUME ReconcileTypeOK, UNCHANGED <<created, aged>>,
         NEW t \in Transfer, NEW s, status[t] \in OpenStatus \/ s = status[t],
         status' = [status EXCEPT ![t] = s]
  PROVE  Scope' = Scope \/ \E d \in Scope : Scope' = Scope \ {d}
<1>1. \A u \in Transfer \ {t} : InScope(u)' <=> InScope(u)
  BY DEF InScope, ReconcileTypeOK
<1>2. InScope(t)' => InScope(t)
  BY DEF InScope, ReconcileTypeOK
<1>3. CASE InScope(t)' <=> InScope(t)
  BY <1>1, <1>3 DEF Scope
<1>4. CASE InScope(t) /\ ~InScope(t)'
  <2>1. Scope' = Scope \ {t} /\ t \in Scope
    BY <1>1, <1>4 DEF Scope
  <2> QED BY <2>1
<1> QED BY <1>2, <1>3, <1>4

(* A transfer is created newest, and time takes the oldest out, if it takes any. *)
LEMMA ScopeStep ==
  ASSUME ReconcileTypeOK, Environment
  PROVE  \/ Scope' = Scope /\ created' = created
         \/ \E d \in Scope : Scope' = Scope \ {d} /\ created' = created
         \/ /\ created + 1 \in Transfer /\ created' = created + 1
            /\ Scope' = Scope \cup {created + 1}
<1> USE DEF ReconcileTypeOK
<1>1. CASE CreateTransfer
  <2>1. created + 1 \in Transfer /\ created' = created + 1
    BY <1>1 DEF CreateTransfer, Transfer
  <2>2. aged < created + 1
    OBVIOUS
  <2>3. \A u \in Transfer : InScope(u)' <=> InScope(u) \/ u = created + 1
    BY <1>1, <2>1, <2>2 DEF CreateTransfer, InScope, Transfer
  <2> QED BY <2>1, <2>3 DEF Scope
<1>2. CASE AgeOut
  <2>1. created' = created /\ aged + 1 \in Transfer /\ aged' = aged + 1 /\ status' = status
    BY <1>2 DEF AgeOut, Transfer
  <2>2. \A u \in Transfer \ {aged + 1} : InScope(u)' <=> InScope(u)
    BY <2>1 DEF InScope, Transfer
  <2>3. InScope(aged + 1)
    BY <1>2, <2>1 DEF InScope, AgeOut
  <2>4. Scope' = Scope \/ Scope' = Scope \ {aged + 1}
    BY <2>2, <2>3 DEF Scope
  <2> QED BY <2>1, <2>3, <2>4 DEF Scope
<1>3. ASSUME NEW t \in Transfer, NEW s, status[t] \in OpenStatus \/ s = status[t],
             status' = [status EXCEPT ![t] = s], UNCHANGED <<created, aged>>
      PROVE  \/ Scope' = Scope /\ created' = created
             \/ \E d \in Scope : Scope' = Scope \ {d} /\ created' = created
  BY <1>3, StatusWritten
<1>4. ASSUME NEW t \in Transfer, Submit(t) \/ InsertInstruction(t)
      PROVE  Scope' = Scope /\ created' = created
  BY <1>4 DEF Submit, InsertInstruction, Scope, InScope
<1>5. ASSUME NEW t \in Transfer, ConfirmFunding(t)
      PROVE  \/ Scope' = Scope /\ created' = created
             \/ \E d \in Scope : Scope' = Scope \ {d} /\ created' = created
  BY <1>3, <1>5 DEF ConfirmFunding, OpenStatus
<1>6. ASSUME NEW t \in Transfer, NEW to, NEW from \in SUBSET OpenStatus, Mark(t, to, from)
      PROVE  \/ Scope' = Scope /\ created' = created
             \/ \E d \in Scope : Scope' = Scope \ {d} /\ created' = created
  <2> DEFINE s == IF status[t] \in from THEN to ELSE status[t]
  <2>1. /\ status[t] \in OpenStatus \/ s = status[t]
        /\ status' = [status EXCEPT ![t] = s] /\ UNCHANGED <<created, aged>>
    BY <1>6 DEF Mark
  <2> HIDE DEF s
  <2> QED BY <1>3, <2>1
<1>7. ASSUME NEW t \in Transfer,
             \/ MarkInitiated(t) \/ MarkReviewRequired(t)
             \/ \E s \in {"PAYOUT_COMPLETED", "PAYOUT_FAILED"} : Conclude(t, s)
      PROVE  \/ Scope' = Scope /\ created' = created
             \/ \E d \in Scope : Scope' = Scope \ {d} /\ created' = created
  <2>1. /\ {"FUNDING_CONFIRMED"} \in SUBSET OpenStatus
        /\ {"PAYOUT_INITIATED"} \in SUBSET OpenStatus
        /\ {"FUNDING_CONFIRMED", "PAYOUT_INITIATED"} \in SUBSET OpenStatus
    BY DEF OpenStatus
  <2> QED BY <1>6, <1>7, <2>1 DEF MarkInitiated, MarkReviewRequired, Conclude
<1> QED BY <1>1, <1>2, <1>4, <1>5, <1>7 DEF Environment

(* What a step of the services does to the tables: what is there stays. *)
TablesTyped ==
    /\ created \in 0 .. MaxTransfer /\ aged \in 0 .. created /\ retried \subseteq Transfer
    /\ status \in [Transfer -> StoredState] /\ funding \in [Transfer -> BOOLEAN]
    /\ payout \in [Transfer -> PayoutState] /\ submission \in [Transfer -> BOOLEAN]

Grown ==
    /\ TablesTyped' /\ Written' /\ created <= created'
    /\ \A t \in Transfer : funding[t] => funding'[t]
    /\ \A t \in Transfer : payout[t] # "none" => payout'[t] # "none"

LEMMA TablesStep ==
  ASSUME TablesTyped, Written, Environment
  PROVE  Grown /\ Moved
<1> USE DEF TablesTyped, Written
<1>1. ASSUME CreateTransfer \/ AgeOut PROVE Grown /\ Moved
  BY <1>1 DEF CreateTransfer, AgeOut, Grown
<1>2. ASSUME NEW t \in Transfer, Submit(t) PROVE Grown /\ Moved
  BY <1>2 DEF Submit, Grown
<1>3. ASSUME NEW t \in Transfer, ConfirmFunding(t) PROVE Grown /\ Moved
  BY <1>3 DEF ConfirmFunding, Grown, StoredState
<1>4. ASSUME NEW t \in Transfer, InsertInstruction(t) PROVE Grown /\ Moved
  BY <1>4 DEF InsertInstruction, Grown, PayoutState
<1>5. ASSUME NEW t \in Transfer, NEW to \in StoredState \ {"AWAITING_FUNDING"},
             NEW from \in SUBSET (StoredState \ {"AWAITING_FUNDING"}), Mark(t, to, from)
      PROVE  Grown /\ Moved
  <2>1. /\ UNCHANGED <<created, aged, retried, funding, submission>> /\ Moved
        /\ payout' = [payout EXCEPT ![t] = to]
        /\ status' = [status EXCEPT ![t] = IF @ \in from THEN to ELSE @]
    BY <1>5 DEF Mark
  <2>2. to \in PayoutState /\ to # "none"
    BY DEF PayoutState, StoredState
  <2>3. TablesTyped'
    BY <2>1, <2>2
  <2>4. Written'
    BY <2>1, <2>2
  <2> QED BY <2>1, <2>2, <2>3, <2>4 DEF Grown
<1>6. ASSUME NEW t \in Transfer,
             \/ MarkInitiated(t) \/ MarkReviewRequired(t)
             \/ \E s \in {"PAYOUT_COMPLETED", "PAYOUT_FAILED"} : Conclude(t, s)
      PROVE  Grown /\ Moved
  <2>1. /\ {"PAYOUT_INITIATED", "PAYOUT_REVIEW_REQUIRED", "PAYOUT_COMPLETED", "PAYOUT_FAILED"}
               \subseteq StoredState \ {"AWAITING_FUNDING"}
        /\ {"FUNDING_CONFIRMED"} \in SUBSET (StoredState \ {"AWAITING_FUNDING"})
        /\ {"PAYOUT_INITIATED"} \in SUBSET (StoredState \ {"AWAITING_FUNDING"})
        /\ {"FUNDING_CONFIRMED", "PAYOUT_INITIATED"} \in SUBSET (StoredState \ {"AWAITING_FUNDING"})
    BY DEF StoredState
  <2> QED BY <1>5, <1>6, <2>1 DEF MarkInitiated, MarkReviewRequired, Conclude
<1> QED BY <1>1, <1>2, <1>3, <1>4, <1>6 DEF Environment

(* What a run that reads observes of it. *)
LEMMA Observing ==
  ASSUME NEW x \in Run, ScopeChanges
  PROVE  IF phase[x] \in Reading \cup Reported
         THEN /\ arrived'[x] = arrived[x] \cup (Scope' \ Scope)
              /\ departed'[x] = departed[x] \cup (Scope \ Scope')
         ELSE arrived'[x] = arrived[x] /\ departed'[x] = departed[x]
<1>1. /\ {t \in Transfer : InScope(t)' /\ ~InScope(t)} = Scope' \ Scope
      /\ {t \in Transfer : InScope(t) /\ ~InScope(t)'} = Scope \ Scope'
  BY DEF Scope
<1> QED BY <1>1 DEF ScopeChanges

LEMMA ScopeCreated ==
  ASSUME ReconcileTyped
  PROVE  Scope \in SUBSET Transfer /\ Scope \subseteq 1 .. created /\ created \in Nat
  BY DEF ReconcileTyped, ReconcileTypeOK, Scope, InScope, Transfer

(* The sets that are counted are finite. *)
LEMMA Counted ==
  ASSUME ReconcileTyped, NEW x \in Run
  PROVE  /\ {Skipped(x), Again(x), Examined(x), DOMAIN page[x], Handled(x),
             arrived[x], departed[x]} \subseteq SUBSET Transfer
         /\ Cardinality(Skipped(x)) \in Nat /\ Cardinality(Again(x)) \in Nat
         /\ Cardinality(Examined(x)) \in Nat /\ Cardinality(DOMAIN page[x]) \in Nat
         /\ Cardinality(Examined(x) \cap DOMAIN page[x]) \in Nat
         /\ Cardinality(arrived[x]) \in Nat /\ Cardinality(departed[x]) \in Nat
         /\ Cardinality(snapshot[x]) \in Nat /\ Limit(x) \in Nat
<1>1. x \in Reader
  BY DEF Reader
<1>2. Examined(x) \in SUBSET Transfer
  BY DEF Examined, ReconcileTyped, Shaped, SnapshotRow
<1>3. DOMAIN page[x] \in SUBSET Transfer
  BY <1>1 DEF ReconcileTyped, ReconcileTypeOK
<1>4. Skipped(x) \in SUBSET Transfer /\ Again(x) \in SUBSET Transfer
  BY DEF Skipped, Again, Scope
<1>5. arrived[x] \in SUBSET Transfer /\ departed[x] \in SUBSET Transfer
  BY DEF ReconcileTyped, ReconcileTypeOK
<1>6. Handled(x) \in SUBSET Transfer /\ Examined(x) \cap DOMAIN page[x] \in SUBSET Transfer
  BY <1>2, <1>3 DEF Handled
<1>7. Cardinality(snapshot[x]) \in Nat
  BY FS_CardinalityType DEF ReconcileTyped, Shaped
<1>8. Limit(x) \in Nat
  BY DEF ReconcileTyped, ReconcileTypeOK, Limit
<1> QED BY <1>2, <1>3, <1>4, <1>5, <1>6, <1>7, <1>8, SomeTransfers

(* A run that does not move keeps what it has, except for what is counted. *)
Resting(x) ==
    /\ phase'[x] = phase[x] /\ DOMAIN page'[x] = DOMAIN page[x]
    /\ offset'[x] = offset[x] /\ snapshot'[x] = snapshot[x]

LEMMA RestingFacts ==
  ASSUME NEW x \in Run, Resting(x)
  PROVE  /\ Examined(x)' = Examined(x) /\ Handled(x)' = Handled(x)
         /\ LastRead(x)' <=> LastRead(x)
         /\ Limit(x)' = Limit(x)
  BY DEF Resting, Examined, Handled, LastRead, Limit

LEMMA ArrivalCovered ==
  ASSUME ReconcileTyped, NEW x \in Run, Covered(x), Resting(x),
         phase[x] \in Reading \cup Reported,
         created + 1 \in Transfer, created' = created + 1, Scope' = Scope \cup {created + 1},
         arrived'[x] = arrived[x] \cup (Scope' \ Scope),
         departed'[x] = departed[x] \cup (Scope \ Scope')
  PROVE  Covered(x)'
<1> DEFINE n == created + 1
<1>1. /\ Scope \in SUBSET Transfer /\ Scope \subseteq 1 .. created /\ created \in Nat
      /\ n \notin 1 .. created /\ \A u \in Scope : u < n
  BY ScopeCreated
<1>2. Observed(x) /\ Accounted(x)
  BY DEF Covered
<1>3. arrived'[x] = arrived[x] \cup {n} /\ n \notin arrived[x] /\ departed'[x] = departed[x]
  BY <1>1, <1>2 DEF Observed
<1>4. n \in Transfer /\ Scope' = Scope \cup {n} /\ created' = n /\ n \in Nat /\ created < n
  BY <1>1
<1> HIDE DEF n
<1>5. Observed(x)'
  <2>1. 1 .. created \subseteq 1 .. n /\ n \in 1 .. n
    BY <1>1, <1>4 DEF n
  <2> QED BY <1>1, <1>2, <1>3, <1>4, <2>1, RestingFacts DEF Observed
<1>6. \A t \in Scope : Rank(Scope', t) = Rank(Scope, t) + 1 /\ Rank(Scope, t) \in Nat
  <2> SUFFICES ASSUME NEW t \in Scope
               PROVE  Rank(Scope', t) = Rank(Scope, t) + 1 /\ Rank(Scope, t) \in Nat
    OBVIOUS
  <2>1. Rank(Scope \cup {n}, t) = Rank(Scope, t) + 1
    BY <1>1, <1>4, RankArrives
  <2> QED BY <1>1, <1>4, <2>1, RankFacts
<1>a. Limit(x) \in Nat
  BY Counted
<1>7. Skipped(x)' \subseteq Skipped(x)
  <2>1. \A t \in Scope : Rank(Scope', t) < Limit(x) => Rank(Scope, t) < Limit(x)
    BY <1>6, <1>a
  <2> QED BY <1>3, <1>4, <2>1, RestingFacts DEF Skipped
<1>8. Again(x)' \in SUBSET Transfer /\ \A t \in Again(x)' \ Again(x) :
                                          t \in Scope /\ Rank(Scope, t) = Limit(x) - 1
  <2>1. n \notin Handled(x)
    BY <1>1, <1>2 DEF Observed
  <2>2. \A t \in Scope : Rank(Scope', t) >= Limit(x) =>
                            Rank(Scope, t) >= Limit(x) \/ Rank(Scope, t) = Limit(x) - 1
    BY <1>6, <1>a
  <2> QED BY <1>1, <1>4, <2>1, <2>2, RestingFacts, Counted DEF Again
<1>9. Cardinality(Again(x)') <= Cardinality(Again(x)) + 1
  BY <1>1, <1>8, OneMore, Counted
<1>10. Cardinality(Skipped(x)') <= Cardinality(Skipped(x))
  BY <1>7, Counted, SomeTransfers, FS_Subset
<1>11. Cardinality(arrived'[x]) = Cardinality(arrived[x]) + 1
  BY <1>3, Counted, SomeTransfers, FS_AddElement
<1>12. Cardinality(Again(x)') \in Nat /\ Cardinality(Skipped(x)') \in Nat
  BY <1>7, <1>8, Counted, SomeTransfers
<1>13. Accounted(x)'
  <2>1. /\ Examined(x)' = Examined(x) /\ DOMAIN page'[x] = DOMAIN page[x] /\ snapshot'[x] = snapshot[x]
    BY RestingFacts DEF Resting
  <2>2. /\ Cardinality(Skipped(x)') <= Cardinality(departed'[x])
        /\ Cardinality(snapshot[x]) + Cardinality(Examined(x) \cap DOMAIN page[x])
              + Cardinality(Again(x)')
           <= Cardinality(Examined(x)) + Cardinality(arrived'[x])
    <3>1. /\ Cardinality(Skipped(x)) \in Nat /\ Cardinality(Again(x)) \in Nat
          /\ Cardinality(Examined(x)) \in Nat /\ Cardinality(Examined(x) \cap DOMAIN page[x]) \in Nat
          /\ Cardinality(arrived[x]) \in Nat /\ Cardinality(departed[x]) \in Nat
          /\ Cardinality(snapshot[x]) \in Nat
      BY Counted
    <3>2. /\ Cardinality(Skipped(x)) <= Cardinality(departed[x])
          /\ Cardinality(snapshot[x]) + Cardinality(Examined(x) \cap DOMAIN page[x])
                + Cardinality(Again(x))
             <= Cardinality(Examined(x)) + Cardinality(arrived[x])
      BY <1>2 DEF Accounted
    <3>3. Cardinality(departed'[x]) = Cardinality(departed[x])
      BY <1>3
    <3>4. Cardinality(Skipped(x)') <= Cardinality(departed'[x])
      BY <1>10, <1>12, <3>1, <3>2, <3>3
    <3>5. Cardinality(snapshot[x]) + Cardinality(Examined(x) \cap DOMAIN page[x])
             + Cardinality(Again(x)')
           <= Cardinality(Examined(x)) + Cardinality(arrived'[x])
      BY <1>9, <1>11, <1>12, <3>1, <3>2
    <3> QED BY <3>4, <3>5
  <2> QED BY <2>1, <2>2 DEF Accounted
<1> QED BY <1>5, <1>13 DEF Covered, Resting

LEMMA DepartureCovered ==
  ASSUME ReconcileTyped, NEW x \in Run, Covered(x), Resting(x),
         phase[x] \in Reading \cup Reported,
         NEW d \in Scope, Scope' = Scope \ {d}, created' = created,
         arrived'[x] = arrived[x] \cup (Scope' \ Scope),
         departed'[x] = departed[x] \cup (Scope \ Scope')
  PROVE  Covered(x)'
<1>1. Scope \in SUBSET Transfer /\ Scope \subseteq 1 .. created /\ created \in Nat
  BY ScopeCreated
<1>2. Observed(x) /\ Accounted(x)
  BY DEF Covered
<1>3. departed'[x] = departed[x] \cup {d} /\ d \notin departed[x] /\ arrived'[x] = arrived[x]
  BY <1>2 DEF Observed
<1>4. Observed(x)'
  BY <1>1, <1>2, <1>3, RestingFacts DEF Observed
<1>5. \A t \in Scope : /\ Rank(Scope', t) = Rank(Scope, t) \/ Rank(Scope', t) = Rank(Scope, t) - 1
                       /\ Rank(Scope, t) \in Nat
  BY <1>1, RankDeparts, RankFacts
<1>a. Limit(x) \in Nat
  BY Counted
<1>6. Again(x)' \subseteq Again(x)
  <2>1. \A t \in Scope : Rank(Scope', t) >= Limit(x) => Rank(Scope, t) >= Limit(x)
    BY <1>5, <1>a
  <2> QED BY <2>1, RestingFacts DEF Again
<1>7. Skipped(x)' \in SUBSET Transfer /\ \A t \in Skipped(x)' \ Skipped(x) :
                                            t \in Scope /\ Rank(Scope, t) = Limit(x)
  <2>1. \A t \in Scope : Rank(Scope', t) < Limit(x) =>
                            Rank(Scope, t) < Limit(x) \/ Rank(Scope, t) = Limit(x)
    BY <1>5, <1>a
  <2> QED BY <1>1, <1>3, <2>1, RestingFacts DEF Skipped
<1>8. Cardinality(Skipped(x)') <= Cardinality(Skipped(x)) + 1
  BY <1>1, <1>7, OneMore, Counted
<1>9. Cardinality(Again(x)') <= Cardinality(Again(x))
  BY <1>6, Counted, SomeTransfers, FS_Subset
<1>10. Cardinality(departed'[x]) = Cardinality(departed[x]) + 1
  BY <1>3, Counted, SomeTransfers, FS_AddElement
<1>11. Cardinality(Again(x)') \in Nat /\ Cardinality(Skipped(x)') \in Nat
  BY <1>6, <1>7, Counted, SomeTransfers
<1>12. Accounted(x)'
  <2>1. /\ Examined(x)' = Examined(x) /\ DOMAIN page'[x] = DOMAIN page[x] /\ snapshot'[x] = snapshot[x]
    BY RestingFacts DEF Resting
  <2>2. /\ Cardinality(Skipped(x)') <= Cardinality(departed'[x])
        /\ Cardinality(snapshot[x]) + Cardinality(Examined(x) \cap DOMAIN page[x])
              + Cardinality(Again(x)')
           <= Cardinality(Examined(x)) + Cardinality(arrived'[x])
    <3>1. Cardinality(Skipped(x)') <= Cardinality(departed'[x])
      BY <1>2, <1>8, <1>10, <1>11, Counted DEF Accounted
    <3>2. Cardinality(arrived'[x]) = Cardinality(arrived[x])
      BY <1>3
    <3> QED BY <1>2, <1>9, <1>11, <3>1, <3>2, Counted DEF Accounted
  <2> QED BY <2>1, <2>2 DEF Accounted
<1> QED BY <1>4, <1>12 DEF Covered, Resting

(* Nothing has changed that a run at rest is about. *)
LEMMA RestCovered ==
  ASSUME NEW x \in Run, Covered(x), Resting(x), Scope' = Scope, created' = created,
         arrived'[x] = arrived[x], departed'[x] = departed[x]
  PROVE  Covered(x)'
<1>1. Observed(x)' <=> Observed(x)
  BY RestingFacts DEF Observed
<1>2. Skipped(x)' = Skipped(x) /\ Again(x)' = Again(x)
  BY RestingFacts DEF Skipped, Again
<1>3. Accounted(x)' <=> Accounted(x)
  BY <1>2, RestingFacts DEF Accounted, Resting
<1> QED BY <1>1, <1>3 DEF Covered, Resting

LEMMA ServicesCovered ==
  ASSUME ReconcileTyped, NEW x \in Run, Covered(x), Environment, Moved, created <= created'
  PROVE  Covered(x)'
<1>1. Resting(x) /\ ScopeChanges
  BY DEF Moved, readVars, runVars, Resting
<1>2. ReconcileTypeOK /\ created \in Nat /\ Scope \subseteq 1 .. created
  BY ScopeCreated DEF ReconcileTyped
<1>3. CASE phase[x] \notin Reading \cup Reported
  <2>1. /\ phase'[x] \notin Reading \cup Reported
        /\ arrived'[x] = {} /\ departed'[x] = {} /\ offset'[x] = 0 /\ snapshot'[x] = {}
    BY <1>1, <1>3, Observing DEF Covered, Resting
  <2>2. Handled(x)' \subseteq 1 .. created
    BY <1>1, RestingFacts DEF Covered, Observed
  <2>3. 1 .. created \subseteq (1 .. created)'
    BY <1>2, ScopeStep
  <2> QED BY <2>1, <2>2, <2>3 DEF Covered, Observed
<1>4. CASE phase[x] \in Reading \cup Reported
  <2>1. /\ arrived'[x] = arrived[x] \cup (Scope' \ Scope)
        /\ departed'[x] = departed[x] \cup (Scope \ Scope')
    BY <1>1, <1>4, Observing
  <2>2. CASE Scope' = Scope /\ created' = created
    BY <1>1, <2>1, <2>2, RestCovered
  <2>3. ASSUME NEW d \in Scope, Scope' = Scope \ {d}, created' = created PROVE Covered(x)'
    BY <1>1, <1>4, <2>1, <2>3, DepartureCovered
  <2>4. CASE created + 1 \in Transfer /\ created' = created + 1 /\ Scope' = Scope \cup {created + 1}
    BY <1>1, <1>4, <2>1, <2>4, ArrivalCovered
  <2> QED BY <1>2, <2>2, <2>3, <2>4, ScopeStep
<1> QED BY <1>3, <1>4

-----------------------------------------------------------------------------
(***************************************************************************)
(* The pages of a run.                                                     *)
(***************************************************************************)

(* What run x is about to read again is not more than it was, and nothing is
   skipped that was not: a page that is not full is the last. *)
LEMMA PageCovered ==
  ASSUME ReconcileTyped, NEW x \in Run, Covered(x), phase[x] = "targets", ReadTargets(x)
  PROVE  Covered(x)'
<1> DEFINE T == PageAt(offset[x])
           o == offset[x]
<1>1. /\ phase' = [phase EXCEPT ![x] = "supplements"] /\ DOMAIN page'[x] = T
      /\ UNCHANGED <<dbVars, runVars, arrived, departed>>
  <2>1. x \in Reader /\ page = [y \in Reader |-> page[y]]
    BY DEF Reader, ReconcileTyped, Shaped
  <2>2. page' = [page EXCEPT ![x] = [t \in T |-> [status |-> FindStatus(t), funding |-> FALSE,
                                                payout |-> "none", submission |-> FALSE]]]
    BY DEF ReadTargets, ReadRows
  <2>3. page'[x] = [t \in T |-> [status |-> FindStatus(t), funding |-> FALSE,
                                 payout |-> "none", submission |-> FALSE]]
    BY <2>1, <2>2
  <2> QED BY <2>3 DEF ReadTargets, ReadRows, Goto
<1>2. phase'[x] = "supplements" /\ page[x] = NoPage /\ DOMAIN page[x] = {} /\ x \in Reader
  <2>1. DOMAIN NoPage = {}
    BY DEF NoPage
  <2> QED BY <1>1, <2>1 DEF ReconcileTyped, ReconcileTypeOK, Shaped, Reader
<1>3. /\ Scope' = Scope /\ arrived'[x] = arrived[x] /\ departed'[x] = departed[x]
      /\ created' = created /\ snapshot'[x] = snapshot[x] /\ offset'[x] = o
  BY <1>1 DEF Scope, InScope, dbVars, runVars
<1>4. Scope \in SUBSET Transfer /\ Scope \subseteq 1 .. created /\ o \in Nat /\ PageSize \in Nat \ {0}
  BY ScopeCreated DEF ReconcileTyped, ReconcileTypeOK
<1>5. T = {t \in Scope : o <= Rank(Scope, t) /\ Rank(Scope, t) < o + PageSize}
  BY NewerIsRank DEF PageAt, Scope
<1>6. /\ Examined(x)' = Examined(x) /\ Handled(x) = Examined(x) /\ Handled(x)' = Examined(x) \cup T
      /\ Limit(x) = o /\ Limit(x)' = o + PageSize /\ ~LastRead(x)
      /\ LastRead(x)' <=> Cardinality(T) < PageSize
  <2>1. Examined(x)' = Examined(x)
    BY <1>3 DEF Examined
  <2> HIDE DEF T
  <2> QED BY <1>1, <1>2, <1>3, <2>1 DEF Handled, Limit, LastRead, Reported
<1>7. Observed(x) /\ Accounted(x)
  BY DEF Covered, Reading
<1>8. Observed(x)'
  <2> HIDE DEF T
  <2>1. T \subseteq 1 .. created
    BY <1>4, <1>5
  <2> QED BY <1>3, <1>6, <1>7, <2>1 DEF Observed
<1>9. \A t \in Scope : Rank(Scope, t) \in Nat
                       /\ (Rank(Scope, t) >= o + PageSize => Cardinality(T) >= PageSize)
  <2> SUFFICES ASSUME NEW t \in Scope
               PROVE  Rank(Scope, t) \in Nat
                      /\ (Rank(Scope, t) >= o + PageSize => Cardinality(T) >= PageSize)
    OBVIOUS
  <2> HIDE DEF T, o
  <2> QED BY <1>4, <1>5, RankFacts, FullPage
<1>10. Cardinality(T) \in Nat /\ T \in SUBSET Transfer
  BY <1>4, <1>5, SomeTransfers
<1> HIDE DEF T, o
<1>11. Skipped(x)' \subseteq Skipped(x)
  <2>1. \A t \in Scope \ T : Rank(Scope, t) < o \/ Rank(Scope, t) >= o + PageSize
    BY <1>4, <1>5, <1>9
  <2>2. \A t \in Scope \ T : Cardinality(T) < PageSize \/ Rank(Scope, t) < o + PageSize
                                => Rank(Scope, t) < o
    BY <1>4, <1>9, <1>10, <2>1
  <2> QED BY <1>3, <1>6, <2>2 DEF Skipped
<1>12. (Examined(x) \cap T) \cup Again(x)' \subseteq Again(x) /\ (Examined(x) \cap T) \cap Again(x)' = {}
  <2>1. \A t \in Again(x)' : t \in Scope \cap (Examined(x) \cup T) /\ Rank(Scope, t) >= o + PageSize
    BY <1>3, <1>6 DEF Again
  <2>2. \A t \in Again(x)' : t \notin T /\ t \in Examined(x) /\ Rank(Scope, t) >= o
    <3> SUFFICES ASSUME NEW t \in Again(x)'
                 PROVE  t \notin T /\ t \in Examined(x) /\ Rank(Scope, t) >= o
      OBVIOUS
    <3>1. t \in Scope /\ Rank(Scope, t) \in Nat /\ Rank(Scope, t) >= o + PageSize
      BY <1>9, <2>1
    <3>2. ~(Rank(Scope, t) < o + PageSize) /\ Rank(Scope, t) >= o
      BY <1>4, <3>1
    <3> QED BY <1>5, <2>1, <3>1, <3>2
  <2>3. \A t \in T : t \in Scope /\ Rank(Scope, t) >= o
    BY <1>4, <1>5, <1>9
  <2> QED BY <1>6, <2>1, <2>2, <2>3 DEF Again
<1>13. Cardinality(Skipped(x)') <= Cardinality(Skipped(x))
  BY <1>11, Counted, SomeTransfers, FS_Subset
<1>14. Cardinality(Examined(x) \cap T) + Cardinality(Again(x)') <= Cardinality(Again(x))
  <2> DEFINE E == Examined(x) \cap T
             A == Again(x)'
  <2>1. E \in SUBSET Transfer /\ A \in SUBSET Transfer /\ E \cup A \subseteq Again(x) /\ E \cap A = {}
    BY <1>10, <1>12, Counted
  <2> HIDE DEF E, A
  <2>2. Cardinality(E \cup A) = Cardinality(E) + Cardinality(A)
    <3>1. IsFiniteSet(E) /\ IsFiniteSet(A) /\ Cardinality(E) \in Nat /\ Cardinality(A) \in Nat
      BY <2>1, SomeTransfers
    <3>2. Cardinality(E \cap A) = 0
      BY <2>1, FS_EmptySet
    <3>3. Cardinality(E \cup A) = Cardinality(E) + Cardinality(A) - Cardinality(E \cap A)
      BY <3>1, FS_Union
    <3> QED BY <3>1, <3>2, <3>3
  <2>3. Cardinality(E \cup A) <= Cardinality(Again(x))
    BY <2>1, Counted, SomeTransfers, FS_Subset
  <2> QED BY <2>2, <2>3 DEF E, A
<1>15. Cardinality(Examined(x) \cap DOMAIN page[x]) = 0
  BY <1>2, FS_EmptySet
<1>16. Cardinality(Examined(x) \cap T) \in Nat /\ Cardinality(Again(x)') \in Nat
       /\ Cardinality(Skipped(x)') \in Nat
  BY <1>10, <1>11, <1>12, Counted, SomeTransfers
<1>17. Accounted(x)'
  <2>1. /\ Cardinality(Skipped(x)') <= Cardinality(departed[x])
        /\ Cardinality(snapshot[x]) + Cardinality(Examined(x) \cap T) + Cardinality(Again(x)')
              <= Cardinality(Examined(x)) + Cardinality(arrived[x])
    BY <1>7, <1>13, <1>14, <1>15, <1>16, Counted DEF Accounted
  <2> QED BY <1>1, <1>3, <1>6, <2>1 DEF Accounted
<1> QED BY <1>2, <1>8, <1>17 DEF Covered, Reading

(* The rows of a page, one for each of its transfers. *)
LEMMA PageRowFacts ==
  ASSUME ReconcileTyped, NEW x \in Run
  PROVE  /\ PageRows(x) \subseteq SnapshotRow
         /\ IsFiniteSet(PageRows(x)) /\ Cardinality(PageRows(x)) <= Cardinality(DOMAIN page[x])
         /\ {r.t : r \in PageRows(x)} = DOMAIN page[x]
<1> DEFINE D == DOMAIN page[x]
           f == [t \in D |-> [at |-> offset[x], t |-> t, codes |-> Alarms(t, page[x][t])]]
<1>1. D \in SUBSET Transfer /\ offset[x] \in Nat /\ x \in Reader
  BY Counted DEF ReconcileTyped, ReconcileTypeOK, Reader
<1>2. \A t \in D : Alarms(t, page[x][t]) \in SUBSET Code
  BY DEF Alarms
<1>3. PageRows(x) = {f[t] : t \in D}
  BY DEF PageRows
<1>4. f \in Surjection(D, PageRows(x))
  BY <1>3 DEF Surjection
<1>5. IsFiniteSet(D)
  BY <1>1, SomeTransfers
<1>6. IsFiniteSet(PageRows(x)) /\ Cardinality(PageRows(x)) <= Cardinality(D)
  <2> HIDE DEF f, D
  <2> QED BY <1>4, <1>5, FS_Surjection
<1>7. PageRows(x) \subseteq SnapshotRow
  BY <1>1, <1>2 DEF PageRows, SnapshotRow
<1>8. {r.t : r \in PageRows(x)} = D
  <2>1. \A r \in PageRows(x) : r.t \in D
    BY DEF PageRows
  <2>2. \A t \in D : f[t] \in PageRows(x) /\ f[t].t = t
    BY DEF PageRows
  <2> HIDE DEF f, D
  <2> QED BY <2>1, <2>2
<1> QED BY <1>6, <1>7, <1>8

LEMMA AppendCovered ==
  ASSUME ReconcileTyped, NEW x \in Run, Covered(x), AppendPage(x)
  PROVE  Covered(x)' /\ snapshot'[x] \subseteq SnapshotRow /\ IsFiniteSet(snapshot'[x])
<1> DEFINE D == DOMAIN page[x]
           E == Examined(x)
           R == PageRows(x)
           last == Cardinality(D) < PageSize
<1>1. /\ phase[x] = "supplements" /\ x \in Reader
      /\ snapshot'[x] = snapshot[x] \cup R
      /\ page'[x] = NoPage
      /\ UNCHANGED <<dbVars, arrived, departed>>
  BY DEF AppendPage, ForgetPage, ReconcileTyped, Shaped, Reader
<1>2. /\ last => phase'[x] = "classify" /\ offset'[x] = offset[x]
      /\ ~last => phase'[x] = "targets" /\ offset'[x] = offset[x] + PageSize
  BY <1>1 DEF AppendPage, Goto, ReconcileTyped, ReconcileTypeOK
<1>3. /\ Scope' = Scope /\ arrived'[x] = arrived[x] /\ departed'[x] = departed[x]
      /\ created' = created
  BY <1>1 DEF Scope, InScope, dbVars
<1>4. /\ R \subseteq SnapshotRow /\ IsFiniteSet(R) /\ Cardinality(R) <= Cardinality(D)
      /\ {r.t : r \in R} = D /\ DOMAIN page'[x] = {}
  BY <1>1, PageRowFacts DEF NoPage
<1> HIDE DEF R, D
<1>5. Examined(x)' = E \cup D
  BY <1>1, <1>4 DEF Examined
<1>6. /\ Handled(x) = E \cup D /\ Handled(x)' = E \cup D
      /\ Limit(x) = offset[x] + PageSize /\ (~last => Limit(x)' = Limit(x))
      /\ LastRead(x) <=> last
      /\ LastRead(x)' <=> last
  BY <1>1, <1>2, <1>4, <1>5 DEF Handled, Limit, LastRead, Reported, D
<1>7. Observed(x) /\ Accounted(x)
  BY <1>1 DEF Covered, Reading
<1>8. Observed(x)'
  BY <1>3, <1>6, <1>7 DEF Observed
<1>9. Skipped(x)' = Skipped(x) /\ Again(x)' = Again(x)
  <2> HIDE DEF last
  <2>1. CASE last
    BY <1>3, <1>6, <2>1 DEF Skipped, Again
  <2>2. CASE ~last
    BY <1>3, <1>6, <2>2 DEF Skipped, Again
  <2> QED BY <2>1, <2>2
<1>10. /\ snapshot[x] \subseteq SnapshotRow /\ IsFiniteSet(snapshot[x])
       /\ E \in SUBSET Transfer /\ D \in SUBSET Transfer
  BY Counted DEF ReconcileTyped, Shaped, D
<1>11. /\ IsFiniteSet(snapshot'[x]) /\ snapshot'[x] \subseteq SnapshotRow
       /\ Cardinality(snapshot'[x]) \in Nat
       /\ Cardinality(snapshot'[x]) <= Cardinality(snapshot[x]) + Cardinality(D)
  <2>1. /\ IsFiniteSet(snapshot[x] \cup R)
        /\ Cardinality(snapshot[x] \cup R) =
              Cardinality(snapshot[x]) + Cardinality(R) - Cardinality(snapshot[x] \cap R)
    BY <1>4, <1>10, FS_Union
  <2>2. IsFiniteSet(snapshot[x] \cap R)
    BY <1>4, FS_Intersection
  <2>3. /\ Cardinality(snapshot[x]) \in Nat /\ Cardinality(R) \in Nat /\ Cardinality(D) \in Nat
        /\ Cardinality(snapshot[x] \cap R) \in Nat /\ Cardinality(snapshot[x] \cup R) \in Nat
    BY <1>4, <1>10, <2>1, <2>2, FS_CardinalityType, SomeTransfers
  <2> QED BY <1>1, <1>4, <1>10, <2>1, <2>3
<1>12. Cardinality(E \cup D) = Cardinality(E) + Cardinality(D) - Cardinality(E \cap D)
  BY <1>10, SomeTransfers, FS_Union
<1>13. Cardinality(E \cap D) \in Nat /\ Cardinality(D) \in Nat /\ Cardinality(E) \in Nat
  BY <1>10, SomeTransfers
<1>14. Cardinality(Examined(x)' \cap DOMAIN page'[x]) = 0
  BY <1>4, FS_EmptySet
<1>15. Accounted(x)'
  <2>1. Cardinality(Skipped(x)') <= Cardinality(departed'[x])
    BY <1>3, <1>7, <1>9 DEF Accounted
  <2>2. Cardinality(snapshot[x]) + Cardinality(E \cap D) + Cardinality(Again(x))
           <= Cardinality(E) + Cardinality(arrived[x])
    BY <1>7 DEF Accounted, D
  <2>3. Cardinality(snapshot'[x]) + Cardinality(Again(x)) <= Cardinality(E \cup D) + Cardinality(arrived[x])
    <3>1. /\ Cardinality(snapshot[x]) \in Nat /\ Cardinality(Again(x)) \in Nat
          /\ Cardinality(arrived[x]) \in Nat
      BY Counted
    <3> QED BY <1>11, <1>12, <1>13, <2>2, <3>1
  <2>4. Cardinality(snapshot'[x]) + 0 = Cardinality(snapshot'[x])
    BY <1>11
  <2> QED BY <1>3, <1>5, <1>9, <1>14, <2>1, <2>3, <2>4 DEF Accounted
<1>16. phase'[x] \in Reading \cup Reported
  BY <1>2 DEF Reading, Reported
<1> QED BY <1>8, <1>11, <1>15, <1>16 DEF Covered

-----------------------------------------------------------------------------
(***************************************************************************)
(* Types, part by part.                                                    *)
(***************************************************************************)
ReadTyped ==
    /\ phase \in [Reader -> Active \cup {"idle", "unused", "done", "dead"}]
    /\ page = [x \in Reader |-> page[x]]
    /\ \A x \in Reader : /\ DOMAIN page[x] \subseteq Transfer /\ page[x] \in [DOMAIN page[x] -> Row]
                         /\ phase[x] # "supplements" => page[x] = NoPage
    /\ got \in [Reader -> SUBSET Supplement]

SnapshotTyped ==
    /\ offset \in [Run -> Nat]
    /\ snapshot \in [Run -> SUBSET SnapshotRow] /\ \A x \in Run : IsFiniteSet(snapshot[x])
    /\ arrived \in [Run -> SUBSET Transfer] /\ departed \in [Run -> SUBSET Transfer]

RunTyped ==
    /\ issue \in [Run -> SUBSET (Nat \X Transfer \X Code)] /\ \A x \in Run : IsFiniteSet(issue[x])
    /\ run \in [Run -> RunRow]
    /\ audited \subseteq Triggered

ViewTyped ==
    /\ view \in [run : Run \cup {"none"}, seen : RunRow, rows : Nat,
                 step : {"idle", "unused", "asked", "issues", "shown"}]
    /\ view.step \in {"asked", "issues", "shown"} => view.run \in Run

LEMMA PartsTyped ==
  ReconcileTyped <=> /\ TablesTyped /\ ReadTyped /\ SnapshotTyped /\ RunTyped /\ ViewTyped
                     /\ faults \in 0 .. MaxFaults
<1>1. ReconcileTyped => /\ TablesTyped /\ ReadTyped /\ SnapshotTyped /\ RunTyped /\ ViewTyped
                        /\ faults \in 0 .. MaxFaults
  BY DEF ReconcileTyped, ReconcileTypeOK, Shaped, TablesTyped, ReadTyped, SnapshotTyped, RunTyped,
         ViewTyped, RunRow
<1>2. TablesTyped /\ ReadTyped /\ SnapshotTyped /\ RunTyped /\ ViewTyped /\ faults \in 0 .. MaxFaults
         => Shaped
  BY DEF Shaped, ReadTyped, SnapshotTyped, RunTyped, ViewTyped
<1>3. TablesTyped /\ ReadTyped /\ SnapshotTyped /\ RunTyped /\ ViewTyped /\ faults \in 0 .. MaxFaults
         => ReconcileTypeOK
  BY DEF ReconcileTypeOK, TablesTyped, ReadTyped, SnapshotTyped, RunTyped,
         ViewTyped, RunRow, SnapshotRow
<1> QED BY <1>1, <1>2, <1>3 DEF ReconcileTyped

LEMMA PartsKept ==
  ASSUME TablesTyped', ReadTyped', SnapshotTyped', RunTyped', ViewTyped', faults' \in 0 .. MaxFaults
  PROVE  ReconcileTyped'
<1>1. Shaped'
  BY DEF Shaped, ReadTyped, SnapshotTyped, RunTyped, ViewTyped
<1>2. ReconcileTypeOK'
  BY DEF ReconcileTypeOK, TablesTyped, ReadTyped, SnapshotTyped, RunTyped,
         ViewTyped, RunRow, SnapshotRow
<1> QED BY <1>1, <1>2 DEF ReconcileTyped

(* A row with one more of its supplements. *)
Filled(t, r, q) == [r EXCEPT ![q] = Answer(t)[q]]

LEMMA FilledFacts ==
  ASSUME TablesTyped, NEW t \in Transfer, NEW r \in Row, NEW q \in Supplement
  PROVE  /\ Filled(t, r, q) \in Row
         /\ Filled(t, r, q).status = r.status
         /\ Filled(t, r, q).funding = IF q = "funding" THEN funding[t] ELSE r.funding
         /\ Filled(t, r, q).payout = IF q = "payout" THEN payout[t] ELSE r.payout
<1> USE DEF Filled, Row, Answer, FindFunding, FindPayout, FindSubmission
<1>1. funding[t] \in BOOLEAN /\ payout[t] \in PayoutState /\ submission[t] \in BOOLEAN
  BY DEF TablesTyped
<1>2. /\ Answer(t)["funding"] = funding[t] /\ Answer(t)["payout"] = payout[t]
      /\ Answer(t)["submission"] = submission[t]
  OBVIOUS
<1>3. CASE q = "funding"
  BY <1>1, <1>2, <1>3
<1>4. CASE q = "payout"
  BY <1>1, <1>2, <1>4
<1>5. CASE q = "submission"
  BY <1>1, <1>2, <1>5
<1> QED BY <1>3, <1>4, <1>5 DEF Supplement

(* Reading the rows of some transfers. *)
LEMMA RowsRead ==
  ASSUME TablesTyped, ReadTyped, Written, NEW x \in Reader, NEW T \in SUBSET Transfer, NEW Q,
         ReadRows(x, T, Q), UNCHANGED dbVars
  PROVE  /\ ReadTyped' /\ phase' = [phase EXCEPT ![x] = "supplements"]
         /\ \A y \in Reader \ {x} : page'[y] = page[y] /\ got'[y] = got[y]
         /\ {"funding", "payout"} \subseteq Q => Backed(x)'
<1> DEFINE rows == [t \in T |-> [status |-> status[t], funding |-> FALSE,
                                 payout |-> "none", submission |-> FALSE]]
<1>1. /\ page' = [page EXCEPT ![x] = rows]
      /\ got' = [got EXCEPT ![x] = IF T = {} THEN Supplement ELSE Supplement \ Q]
      /\ phase' = [phase EXCEPT ![x] = "supplements"]
  BY DEF ReadRows, FindStatus, Goto
<1>2. rows \in [T -> Row] /\ DOMAIN rows = T
  BY DEF TablesTyped, Row, PayoutState
<1>3. \A t \in T : rows[t].status = status[t]
  OBVIOUS
<1> HIDE DEF rows
<1>4. phase' \in [Reader -> Active \cup {"idle", "unused", "done", "dead"}]
      /\ got' \in [Reader -> SUBSET Supplement]
  BY <1>1 DEF ReadTyped, Active, Reading
<1>5. page' = [y \in Reader |-> page'[y]] /\ page'[x] = rows
      /\ \A y \in Reader \ {x} : page'[y] = page[y]
  BY <1>1 DEF ReadTyped
<1>6. \A y \in Reader \ {x} : phase'[y] = phase[y] /\ got'[y] = got[y]
  BY <1>1 DEF ReadTyped
<1>7. phase'[x] = "supplements" /\ got'[x] = IF T = {} THEN Supplement ELSE Supplement \ Q
  BY <1>1 DEF ReadTyped
<1>8. ReadTyped'
  <2> SUFFICES ASSUME NEW y \in Reader
               PROVE  /\ DOMAIN page'[y] \subseteq Transfer /\ page'[y] \in [DOMAIN page'[y] -> Row]
                      /\ phase'[y] # "supplements" => page'[y] = NoPage
    BY <1>4, <1>5 DEF ReadTyped
  <2>1. CASE y = x
    BY <1>2, <1>5, <1>7, <2>1
  <2>2. CASE y # x
    BY <1>5, <1>6, <2>2 DEF ReadTyped
  <2> QED BY <2>1, <2>2
<1>9. ASSUME {"funding", "payout"} \subseteq Q PROVE Backed(x)'
  <2> SUFFICES ASSUME NEW t \in T
               PROVE  /\ rows[t].status # "AWAITING_FUNDING" =>
                            funding'[t] /\ ("funding" \in got'[x] => rows[t].funding)
                      /\ rows[t].status = "PAYOUT_INITIATED" =>
                            payout'[t] # "none" /\ ("payout" \in got'[x] => rows[t].payout # "none")
    BY <1>2, <1>5 DEF Backed
  <2>1. "funding" \notin got'[x] /\ "payout" \notin got'[x]
    BY <1>7, <1>9
  <2> QED BY <1>3, <2>1 DEF Written, dbVars
<1> QED BY <1>1, <1>5, <1>6, <1>8, <1>9

LEMMA SupplementRead ==
  ASSUME TablesTyped, ReadTyped, NEW x \in Reader, NEW q \in Supplement, ReadSupplement(x, q)
  PROVE  /\ ReadTyped' /\ phase' = phase /\ DOMAIN page'[x] = DOMAIN page[x]
         /\ \A y \in Reader \ {x} : page'[y] = page[y] /\ got'[y] = got[y]
         /\ Backed(x) => Backed(x)'
<1> DEFINE T == DOMAIN page[x]
           rows == [t \in T |-> Filled(t, page[x][t], q)]
<1>1. /\ page' = [page EXCEPT ![x] = rows] /\ got' = [got EXCEPT ![x] = @ \cup {q}]
      /\ UNCHANGED <<dbVars, phase>> /\ phase[x] = "supplements"
  BY DEF ReadSupplement, Filled
<1>2. T \subseteq Transfer /\ page[x] \in [T -> Row]
  BY DEF ReadTyped
<1>3. \A t \in T : /\ rows[t] \in Row
                   /\ rows[t].status = page[x][t].status
                   /\ rows[t].funding = IF q = "funding" THEN funding[t] ELSE page[x][t].funding
                   /\ rows[t].payout = IF q = "payout" THEN payout[t] ELSE page[x][t].payout
  <2> SUFFICES ASSUME NEW t \in T
               PROVE  /\ Filled(t, page[x][t], q) \in Row
                      /\ Filled(t, page[x][t], q).status = page[x][t].status
                      /\ Filled(t, page[x][t], q).funding =
                            IF q = "funding" THEN funding[t] ELSE page[x][t].funding
                      /\ Filled(t, page[x][t], q).payout =
                            IF q = "payout" THEN payout[t] ELSE page[x][t].payout
    OBVIOUS
  <2>1. t \in Transfer /\ page[x][t] \in Row
    BY <1>2
  <2> HIDE DEF T
  <2> QED BY <2>1, FilledFacts
<1>4. rows \in [T -> Row] /\ DOMAIN rows = T
  BY <1>3
<1> HIDE DEF rows
<1>5. page' = [y \in Reader |-> page'[y]] /\ page'[x] = rows
      /\ \A y \in Reader \ {x} : page'[y] = page[y]
  BY <1>1 DEF ReadTyped
<1>6. /\ got' \in [Reader -> SUBSET Supplement] /\ got'[x] = got[x] \cup {q}
      /\ \A y \in Reader \ {x} : got'[y] = got[y]
  BY <1>1 DEF ReadTyped
<1>7. ReadTyped'
  <2> SUFFICES ASSUME NEW y \in Reader
               PROVE  /\ DOMAIN page'[y] \subseteq Transfer /\ page'[y] \in [DOMAIN page'[y] -> Row]
                      /\ phase'[y] # "supplements" => page'[y] = NoPage
    BY <1>1, <1>5, <1>6 DEF ReadTyped
  <2>1. CASE y = x
    BY <1>1, <1>2, <1>4, <1>5, <2>1
  <2>2. CASE y # x
    BY <1>1, <1>5, <2>2 DEF ReadTyped
  <2> QED BY <2>1, <2>2
<1>8. ASSUME Backed(x) PROVE Backed(x)'
  <2> SUFFICES ASSUME NEW t \in T
               PROVE  /\ rows[t].status # "AWAITING_FUNDING" =>
                            funding'[t] /\ ("funding" \in got'[x] => rows[t].funding)
                      /\ rows[t].status = "PAYOUT_INITIATED" =>
                            payout'[t] # "none" /\ ("payout" \in got'[x] => rows[t].payout # "none")
    BY <1>4, <1>5 DEF Backed
  <2>1. funding' = funding /\ payout' = payout
    BY <1>1 DEF dbVars
  <2>2. /\ page[x][t].status # "AWAITING_FUNDING" =>
              funding[t] /\ ("funding" \in got[x] => page[x][t].funding)
        /\ page[x][t].status = "PAYOUT_INITIATED" =>
              payout[t] # "none" /\ ("payout" \in got[x] => page[x][t].payout # "none")
    BY <1>8 DEF Backed
  <2> QED BY <1>3, <1>6, <2>1, <2>2
<1> QED BY <1>1, <1>4, <1>5, <1>6, <1>7, <1>8

(* A page is done with, and its reader goes on. *)
LEMMA PageForgotten ==
  ASSUME ReadTyped, NEW x \in Reader, NEW s \in Active \cup {"done", "dead"}, s # "supplements",
         Goto(x, s), ForgetPage(x) \/ (phase[x] # "supplements" /\ UNCHANGED <<page, got>>)
  PROVE  /\ ReadTyped' /\ phase'[x] = s /\ page'[x] = NoPage /\ Backed(x)'
         /\ \A y \in Reader \ {x} : phase'[y] = phase[y] /\ page'[y] = page[y] /\ got'[y] = got[y]
<1>1. DOMAIN NoPage = {} /\ NoPage \in [DOMAIN NoPage -> Row]
  BY DEF NoPage
<1>2. /\ phase' \in [Reader -> Active \cup {"idle", "unused", "done", "dead"}]
      /\ phase'[x] = s /\ \A y \in Reader \ {x} : phase'[y] = phase[y]
  BY DEF ReadTyped, Goto
<1>3. /\ page' = [y \in Reader |-> page'[y]] /\ page'[x] = NoPage
      /\ \A y \in Reader \ {x} : page'[y] = page[y]
  BY DEF ReadTyped, ForgetPage
<1>4. got' \in [Reader -> SUBSET Supplement] /\ \A y \in Reader \ {x} : got'[y] = got[y]
  BY DEF ReadTyped, ForgetPage
<1>5. ReadTyped'
  <2> SUFFICES ASSUME NEW y \in Reader
               PROVE  /\ DOMAIN page'[y] \subseteq Transfer /\ page'[y] \in [DOMAIN page'[y] -> Row]
                      /\ phase'[y] # "supplements" => page'[y] = NoPage
    BY <1>2, <1>3, <1>4 DEF ReadTyped
  <2>1. CASE y = x
    BY <1>1, <1>3, <2>1
  <2>2. CASE y # x
    BY <1>2, <1>3, <2>2 DEF ReadTyped
  <2> QED BY <2>1, <2>2
<1>6. Backed(x)'
  BY <1>1, <1>3 DEF Backed
<1> QED BY <1>2, <1>3, <1>4, <1>5, <1>6

-----------------------------------------------------------------------------
(***************************************************************************)
(* The steps of the readers.                                               *)
(***************************************************************************)

(* A step of reader x leaves the others as they are; and a run that is over
   may only lose what it has. *)
ReaderAlone(x) ==
    /\ \A y \in Reader \ {x} : phase'[y] = phase[y] /\ page'[y] = page[y] /\ got'[y] = got[y]
    /\ \A y \in Run \ {x} :
          /\ offset'[y] = offset[y] /\ snapshot'[y] = snapshot[y]
          /\ arrived'[y] = arrived[y] /\ departed'[y] = departed[y]
          /\ issue'[y] = issue[y] /\ run'[y] = run[y]
    /\ UNCHANGED <<dbVars, view>>

OverStays(x) ==
    phase[x] \in Over =>
        phase'[x] \in Over /\ run'[x] \in {run[x], NoRun} /\ issue'[x] \in {issue[x], {}}

LEMMA ReaderStep ==
  ASSUME ReconcileInv, NEW x \in Reader, ReaderAlone(x),
         ReadTyped', SnapshotTyped', RunTyped', faults' \in 0 .. MaxFaults, Backed(x)',
         x \in Run => Covered(x)' /\ RowTrue(x)' /\ OverStays(x)
  PROVE  ReconcileInv'
<1>1. TablesTyped /\ ReadTyped /\ SnapshotTyped /\ RunTyped /\ ViewTyped
  BY PartsTyped DEF ReconcileInv
<1>2. UNCHANGED <<created, aged, retried, status, funding, payout, submission, view>>
  BY DEF ReaderAlone, dbVars
<1>3. ReconcileTyped'
  <2>1. TablesTyped' /\ ViewTyped'
    BY <1>1, <1>2 DEF TablesTyped, ViewTyped
  <2> QED BY <2>1, PartsKept
<1>4. Written' /\ Scope' = Scope
  BY <1>2 DEF ReconcileInv, Written, Scope, InScope
<1>5. ASSUME NEW y \in Reader PROVE Backed(y)'
  <2>1. CASE y # x
    BY <1>2, <2>1 DEF ReconcileInv, Backed, ReaderAlone
  <2> QED BY <2>1
<1>6. ASSUME NEW y \in Run PROVE Covered(y)' /\ RowTrue(y)' /\ OverStays(y)
  <2>1. CASE y # x
    <3>1. y \in Reader \ {x} /\ y \in Run \ {x}
      BY <2>1 DEF Reader
    <3>2. Resting(y) /\ arrived'[y] = arrived[y] /\ departed'[y] = departed[y]
          /\ issue'[y] = issue[y] /\ run'[y] = run[y]
      BY <3>1 DEF ReaderAlone, Resting
    <3>3. Covered(y)'
      BY <1>2, <1>4, <3>2, RestCovered DEF ReconcileInv
    <3>4. RowTrue(y)' /\ OverStays(y)
      BY <3>2 DEF ReconcileInv, RowTrue, OverStays, Resting
    <3> QED BY <3>3, <3>4
  <2> QED BY <2>1
<1>7. ViewTrue' /\ ViewComplete'
  <2>1. ASSUME view.step \in {"issues", "shown"}, view.seen.status = "completed"
        PROVE  /\ phase'[view.run] \in Over /\ run'[view.run] \in {view.seen, NoRun}
               /\ view.step = "shown" /\ run'[view.run] # NoRun =>
                     view.rows = view.seen.issues \/ issue'[view.run] = {}
    <3>1. view.run \in Run /\ phase[view.run] \in Over /\ run[view.run] \in {view.seen, NoRun}
      BY <1>1, <2>1 DEF ReconcileInv, ViewTrue, ViewTyped
    <3>2. /\ phase'[view.run] \in Over /\ run'[view.run] \in {run[view.run], NoRun}
          /\ issue'[view.run] \in {issue[view.run], {}}
      BY <1>6, <3>1 DEF OverStays
    <3> QED BY <2>1, <3>1, <3>2 DEF ReconcileInv, ViewComplete
  <2> QED BY <1>2, <2>1 DEF ViewTrue, ViewComplete
<1> QED BY <1>3, <1>4, <1>5, <1>6, <1>7 DEF ReconcileInv

(* A run that does not read has nothing to account for. *)
LEMMA NotReading ==
  ASSUME NEW x \in Run, phase'[x] \notin Reading \cup Reported, page'[x] = NoPage,
         offset'[x] = 0, snapshot'[x] = {}, arrived'[x] = {}, departed'[x] = {}
  PROVE  Covered(x)'
<1>1. Handled(x)' = {}
  BY DEF Handled, Examined, NoPage
<1> QED BY <1>1 DEF Covered, Observed

LEMMA StartCovered ==
  ASSUME ReconcileTyped, NEW x \in Run, phase'[x] = "targets", page'[x] = NoPage, Scope' = Scope,
         offset'[x] = 0, snapshot'[x] = {}, arrived'[x] = {}, departed'[x] = {}
  PROVE  Covered(x)'
<1>1. Examined(x)' = {} /\ DOMAIN page'[x] = {} /\ Handled(x)' = {}
  BY DEF Handled, Examined, NoPage
<1>2. ~LastRead(x)' /\ Limit(x)' = 0
  BY DEF LastRead, Limit, Reported
<1>3. \A t \in Scope : ~(Rank(Scope, t) < 0)
  <2> SUFFICES ASSUME NEW t \in Scope PROVE ~(Rank(Scope, t) < 0)
    OBVIOUS
  <2>1. Rank(Scope, t) \in Nat
    BY ScopeCreated, RankFacts
  <2> QED BY <2>1
<1>4. Skipped(x)' = {} /\ Again(x)' = {}
  BY <1>1, <1>2, <1>3 DEF Skipped, Again
<1>5. Cardinality({}) = 0 /\ {} \cap {} = {}
  BY FS_EmptySet
<1>6. Accounted(x)'
  BY <1>1, <1>4, <1>5 DEF Accounted
<1> QED BY <1>1, <1>6 DEF Covered, Observed, Reading

(* From the last page to the issues. *)
LEMMA ReportedCovered ==
  ASSUME NEW x \in Run, Covered(x), phase[x] \in Reported, phase'[x] \in Reported,
         DOMAIN page'[x] = DOMAIN page[x], snapshot'[x] = snapshot[x],
         Scope' = Scope, created' = created, arrived'[x] = arrived[x], departed'[x] = departed[x]
  PROVE  Covered(x)'
<1>1. Examined(x)' = Examined(x) /\ Handled(x)' = Handled(x) /\ LastRead(x) /\ LastRead(x)'
  BY DEF Examined, Handled, LastRead
<1>2. Skipped(x)' = Skipped(x) /\ Again(x)' = {} /\ Again(x) = {}
  BY <1>1 DEF Skipped, Again
<1> QED BY <1>1, <1>2 DEF Covered, Observed, Accounted

(* What each run has at the step it is at. *)
LEMMA RunFacts ==
  ASSUME ReconcileInv, NEW x \in Run
  PROVE  /\ x \in Reader /\ Covered(x) /\ RowTrue(x)
         /\ phase[x] # "supplements" => page[x] = NoPage
         /\ phase[x] \notin Reading \cup Reported =>
               offset[x] = 0 /\ snapshot[x] = {} /\ arrived[x] = {} /\ departed[x] = {}
         /\ TablesTyped /\ ReadTyped /\ SnapshotTyped /\ RunTyped /\ ViewTyped
         /\ faults \in 0 .. MaxFaults
         /\ ReconcileTyped /\ Written
<1>1. x \in Reader
  BY DEF Reader
<1>2. ReconcileTyped /\ Written /\ Covered(x) /\ RowTrue(x)
  BY DEF ReconcileInv
<1>3. /\ TablesTyped /\ ReadTyped /\ SnapshotTyped /\ RunTyped /\ ViewTyped
      /\ faults \in 0 .. MaxFaults
  BY <1>2, PartsTyped
<1> QED BY <1>1, <1>2, <1>3 DEF Covered, ReadTyped

LEMMA CallInv ==
  ASSUME ReconcileInv, NEW x \in Run, Trigger(x) \/ Tick(x)
  PROVE  ReconcileInv'
<1>1. /\ phase[x] = "idle" /\ Goto(x, "called")
      /\ UNCHANGED <<dbVars, page, got, runVars, view, arrived, departed, faults>>
  BY DEF Trigger, Tick
<1>2. UNCHANGED <<page, got, offset, snapshot, issue, run, audited, arrived, departed, faults>>
  BY <1>1 DEF runVars
<1>3. "called" \in Active /\ "called" \notin Reading \cup Reported /\ "idle" \notin Reading \cup Reported
  BY DEF Active, Reading, Reported
<1>4. /\ ReadTyped' /\ phase'[x] = "called" /\ page'[x] = NoPage /\ Backed(x)'
      /\ \A y \in Reader \ {x} : phase'[y] = phase[y] /\ page'[y] = page[y] /\ got'[y] = got[y]
  BY <1>1, <1>2, <1>3, RunFacts, PageForgotten
<1>5. SnapshotTyped' /\ RunTyped' /\ faults' \in 0 .. MaxFaults
  BY <1>2, RunFacts DEF SnapshotTyped, RunTyped
<1>6. Covered(x)'
  BY <1>1, <1>2, <1>3, <1>4, RunFacts, NotReading
<1>7. RowTrue(x)' /\ OverStays(x)
  BY <1>1, <1>2, <1>4, RunFacts DEF RowTrue, OverStays, Over, Reading, Reported, NoRun
<1>8. ReaderAlone(x)
  BY <1>1, <1>2, <1>4 DEF ReaderAlone
<1> QED BY <1>4, <1>5, <1>6, <1>7, <1>8, RunFacts, ReaderStep

LEMMA StartInv ==
  ASSUME ReconcileInv, NEW x \in Run, StartRun(x)
  PROVE  ReconcileInv'
<1>1. /\ phase[x] = "called" /\ Goto(x, "targets")
      /\ run' = [run EXCEPT ![x].status = "running"]
      /\ UNCHANGED <<dbVars, page, got, offset, snapshot, issue, audited, view, arrived, departed,
                     faults>>
  BY DEF StartRun
<1>2. "targets" \in Active /\ "called" \notin Reading \cup Reported
  BY DEF Active, Reading, Reported
<1>3. /\ ReadTyped' /\ phase'[x] = "targets" /\ page'[x] = NoPage /\ Backed(x)'
      /\ \A y \in Reader \ {x} : phase'[y] = phase[y] /\ page'[y] = page[y] /\ got'[y] = got[y]
  BY <1>1, <1>2, RunFacts, PageForgotten
<1>4. /\ run' \in [Run -> RunRow] /\ run'[x].status = "running"
      /\ \A y \in Run \ {x} : run'[y] = run[y]
  BY <1>1, RunFacts DEF RunTyped, RunRow
<1>5. SnapshotTyped' /\ RunTyped' /\ faults' \in 0 .. MaxFaults
  BY <1>1, <1>4, RunFacts DEF SnapshotTyped, RunTyped
<1>6. Scope' = Scope
  BY <1>1 DEF dbVars, Scope, InScope
<1>7. Covered(x)'
  BY <1>1, <1>2, <1>3, <1>6, RunFacts, StartCovered
<1>8. RowTrue(x)' /\ OverStays(x)
  BY <1>1, <1>3, <1>4 DEF RowTrue, OverStays, Over, Reading, Reported
<1>9. ReaderAlone(x)
  BY <1>1, <1>3, <1>4 DEF ReaderAlone
<1> QED BY <1>3, <1>5, <1>7, <1>8, <1>9, RunFacts, ReaderStep

LEMMA ReadTargetsInv ==
  ASSUME ReconcileInv, NEW x \in Run, ReadTargets(x)
  PROVE  ReconcileInv'
<1>1. /\ phase[x] = "targets" /\ ReadRows(x, PageAt(offset[x]), Supplement)
      /\ UNCHANGED <<dbVars, offset, snapshot, issue, run, audited, view, arrived, departed, faults>>
  BY DEF ReadTargets, runVars
<1>2. PageAt(offset[x]) \in SUBSET Transfer /\ {"funding", "payout"} \subseteq Supplement
  BY DEF PageAt, Supplement
<1>3. /\ ReadTyped' /\ phase' = [phase EXCEPT ![x] = "supplements"] /\ Backed(x)'
      /\ \A y \in Reader \ {x} : page'[y] = page[y] /\ got'[y] = got[y]
  BY <1>1, <1>2, RunFacts, RowsRead
<1>4. phase'[x] = "supplements" /\ \A y \in Reader \ {x} : phase'[y] = phase[y]
  BY <1>3, RunFacts DEF ReadTyped
<1>5. SnapshotTyped' /\ RunTyped' /\ faults' \in 0 .. MaxFaults
  BY <1>1, RunFacts DEF SnapshotTyped, RunTyped
<1>6. Covered(x)'
  BY <1>1, RunFacts, PageCovered
<1>7. RowTrue(x)' /\ OverStays(x)
  BY <1>1, <1>4, RunFacts DEF RowTrue, OverStays, Over, Reading, Reported
<1>8. ReaderAlone(x)
  BY <1>1, <1>3, <1>4 DEF ReaderAlone
<1> QED BY <1>3, <1>5, <1>6, <1>7, <1>8, RunFacts, ReaderStep

LEMMA SupplementInv ==
  ASSUME ReconcileInv, NEW x \in Reader, NEW q \in Supplement, ReadSupplement(x, q)
  PROVE  ReconcileInv'
<1>1. UNCHANGED <<dbVars, phase, offset, snapshot, issue, run, audited, view, arrived, departed,
                  faults>>
  BY DEF ReadSupplement, runVars
<1>2. TablesTyped /\ ReadTyped /\ SnapshotTyped /\ RunTyped /\ faults \in 0 .. MaxFaults
      /\ Backed(x)
  BY PartsTyped DEF ReconcileInv
<1>3. /\ ReadTyped' /\ Backed(x)' /\ DOMAIN page'[x] = DOMAIN page[x]
      /\ \A y \in Reader \ {x} : page'[y] = page[y] /\ got'[y] = got[y]
  BY <1>2, SupplementRead
<1>4. SnapshotTyped' /\ RunTyped' /\ faults' \in 0 .. MaxFaults
  BY <1>1, <1>2 DEF SnapshotTyped, RunTyped
<1>5. Scope' = Scope /\ created' = created
  BY <1>1 DEF dbVars, Scope, InScope
<1>6. ASSUME x \in Run PROVE Covered(x)' /\ RowTrue(x)' /\ OverStays(x)
  <2>1. Resting(x) /\ arrived'[x] = arrived[x] /\ departed'[x] = departed[x]
    BY <1>1, <1>3 DEF Resting
  <2>2. Covered(x)'
    BY <1>5, <1>6, <2>1, RunFacts, RestCovered
  <2>3. RowTrue(x)' /\ OverStays(x)
    BY <1>1, <1>6, RunFacts DEF RowTrue, OverStays
  <2> QED BY <2>2, <2>3
<1>7. ReaderAlone(x)
  BY <1>1, <1>3 DEF ReaderAlone
<1> QED BY <1>3, <1>4, <1>6, <1>7, ReaderStep

LEMMA AppendInv ==
  ASSUME ReconcileInv, NEW x \in Run, AppendPage(x)
  PROVE  ReconcileInv'
<1>1. /\ phase[x] = "supplements" /\ ForgetPage(x)
      /\ UNCHANGED <<dbVars, issue, run, audited, view, arrived, departed, faults>>
      /\ snapshot' = [snapshot EXCEPT ![x] = @ \cup PageRows(x)]
  BY DEF AppendPage
<1>2. PICK s \in {"classify", "targets"} : Goto(x, s)
  BY DEF AppendPage
<1>3. s \in Active /\ s # "supplements"
  BY <1>2 DEF Active, Reading, Reported
<1>4. /\ ReadTyped' /\ phase'[x] = s /\ Backed(x)'
      /\ \A y \in Reader \ {x} : phase'[y] = phase[y] /\ page'[y] = page[y] /\ got'[y] = got[y]
  BY <1>1, <1>2, <1>3, RunFacts, PageForgotten
<1>5. Covered(x)' /\ snapshot'[x] \subseteq SnapshotRow /\ IsFiniteSet(snapshot'[x])
  BY RunFacts, AppendCovered
<1>6. \A y \in Run \ {x} : snapshot'[y] = snapshot[y] /\ offset'[y] = offset[y]
  BY <1>1, RunFacts DEF AppendPage, SnapshotTyped
<1>7. offset' \in [Run -> Nat]
  BY RunFacts DEF AppendPage, SnapshotTyped
<1>8. snapshot' \in [Run -> SUBSET SnapshotRow] /\ \A y \in Run : IsFiniteSet(snapshot'[y])
  <2>1. snapshot' = [y \in Run |-> snapshot'[y]]
    BY <1>1, RunFacts DEF SnapshotTyped
  <2>2. \A y \in Run : snapshot'[y] \subseteq SnapshotRow /\ IsFiniteSet(snapshot'[y])
    BY <1>5, <1>6, RunFacts DEF SnapshotTyped
  <2> QED BY <2>1, <2>2
<1>9. SnapshotTyped' /\ RunTyped' /\ faults' \in 0 .. MaxFaults
  BY <1>1, <1>7, <1>8, RunFacts DEF SnapshotTyped, RunTyped
<1>10. RowTrue(x)' /\ OverStays(x)
  BY <1>1, <1>2, <1>4, RunFacts DEF RowTrue, OverStays, Over, Reading, Reported
<1>11. ReaderAlone(x)
  BY <1>1, <1>4, <1>6 DEF ReaderAlone
<1> QED BY <1>4, <1>5, <1>9, <1>10, <1>11, RunFacts, ReaderStep

(* One issue for each alarm of a row, unless its transfer is too young. *)
Lines(x, ripe) ==
  UNION {{<<line.at, line.t, c>> :
            c \in {d \in line.codes :
                     d = "SOLANA_MANUAL_SUBMISSION_MISSING" => line.t <= ripe}} :
         line \in snapshot[x]}

LEMMA IssueFacts ==
  ASSUME SnapshotTyped, NEW x \in Run, NEW ripe
  PROVE  Lines(x, ripe) \subseteq Nat \X Transfer \X Code /\ IsFiniteSet(Lines(x, ripe))
<1> DEFINE rows == Lines(x, ripe)
           S == snapshot[x] \X Code
           f == [z \in S |-> <<z[1].at, z[1].t, z[2]>>]
           image == {f[z] : z \in S}
<1>1. snapshot[x] \subseteq SnapshotRow /\ IsFiniteSet(snapshot[x])
  BY DEF SnapshotTyped
<1>2. IsFiniteSet(Code)
  <2>1. Code = {"MISSING_FUNDING_EVENT"} \cup {"PAYOUT_STATUS_MISMATCH"}
                  \cup {"MISSING_PAYOUT_RECORD"} \cup {"SOLANA_MANUAL_SUBMISSION_MISSING"}
    BY DEF Code
  <2> QED BY <2>1, FS_Singleton, FS_Union
<1>3. IsFiniteSet(S)
  BY <1>1, <1>2, FS_Product
<1>4. f \in Surjection(S, image)
  BY DEF Surjection
<1>5. IsFiniteSet(image)
  <2> HIDE DEF f, S, image
  <2> QED BY <1>3, <1>4, FS_Surjection
<1>6. \A z \in S : z[1] \in snapshot[x] /\ z[2] \in Code
  OBVIOUS
<1>7. ASSUME NEW i \in rows
      PROVE  i \in image /\ i \in Nat \X Transfer \X Code
  <2>1. PICK line \in snapshot[x] :
          i \in {<<line.at, line.t, c>> :
                   c \in {d \in line.codes :
                            d = "SOLANA_MANUAL_SUBMISSION_MISSING" => line.t <= ripe}}
    BY <1>7 DEF Lines
  <2>2. PICK c \in line.codes : i = <<line.at, line.t, c>>
    BY <2>1
  <2>3. line.at \in Nat /\ line.t \in Transfer /\ c \in Code
    BY <1>1, <2>1, <2>2 DEF SnapshotRow
  <2>4. <<line, c>> \in S /\ f[<<line, c>>] = i
    BY <2>2, <2>3
  <2>5. i \in image
    <3> HIDE DEF f, S
    <3> QED BY <2>4
  <2>6. i \in Nat \X Transfer \X Code
    BY <2>2, <2>3
  <2> QED BY <2>5, <2>6
<1> HIDE DEF rows, image
<1>8. IsFiniteSet(rows)
  BY <1>5, <1>7, FS_Subset
<1> QED BY <1>7, <1>8 DEF rows

LEMMA IssuesInv ==
  ASSUME ReconcileInv, NEW x \in Run, InsertIssues(x)
  PROVE  ReconcileInv'
<1>1. /\ phase[x] = "classify" /\ Goto(x, "complete")
      /\ UNCHANGED <<dbVars, page, got, offset, snapshot, run, audited, view,
                     arrived, departed, faults>>
  BY DEF InsertIssues
<1>2. "complete" \in Active
  BY DEF Active, Reported
<1>3. /\ ReadTyped' /\ phase'[x] = "complete" /\ page'[x] = NoPage /\ Backed(x)'
      /\ \A y \in Reader \ {x} : phase'[y] = phase[y] /\ page'[y] = page[y] /\ got'[y] = got[y]
  BY <1>1, <1>2, RunFacts, PageForgotten
<1>4. PICK ripe \in 0 .. created :
         issue' = [issue EXCEPT ![x] =
           UNION {{<<line.at, line.t, c>> :
                     c \in {d \in line.codes :
                              d = "SOLANA_MANUAL_SUBMISSION_MISSING" => line.t <= ripe}} :
                  line \in snapshot[x]}]
  BY DEF InsertIssues
<1>5. /\ issue'[x] \subseteq Nat \X Transfer \X Code /\ IsFiniteSet(issue'[x])
      /\ issue' = [y \in Run |-> issue'[y]]
      /\ \A y \in Run \ {x} : issue'[y] = issue[y]
  <2>1. issue \in [Run -> SUBSET (Nat \X Transfer \X Code)] /\ SnapshotTyped
    BY RunFacts DEF RunTyped
  <2>2. Lines(x, ripe) \subseteq Nat \X Transfer \X Code /\ IsFiniteSet(Lines(x, ripe))
    BY <2>1, IssueFacts
  <2>3. issue' = [issue EXCEPT ![x] = Lines(x, ripe)]
    BY <1>4 DEF Lines
  <2> QED BY <2>1, <2>2, <2>3
<1>6. RunTyped'
  <2>1. \A y \in Run : issue'[y] \subseteq Nat \X Transfer \X Code /\ IsFiniteSet(issue'[y])
    BY <1>5, RunFacts DEF RunTyped
  <2>2. issue' \in [Run -> SUBSET (Nat \X Transfer \X Code)]
    BY <1>5, <2>1
  <2> QED BY <1>1, <2>1, <2>2, RunFacts DEF RunTyped
<1>7. SnapshotTyped' /\ faults' \in 0 .. MaxFaults
  BY <1>1, RunFacts DEF SnapshotTyped
<1>8. Covered(x)'
  <2>1. Scope' = Scope /\ created' = created
    BY <1>1 DEF dbVars, Scope, InScope
  <2>2. page'[x] = page[x] /\ phase[x] \in Reported /\ phase'[x] \in Reported
    BY <1>1, <1>3 DEF Reported
  <2> QED BY <1>1, <2>1, <2>2, RunFacts, ReportedCovered
<1>9. RowTrue(x)' /\ OverStays(x)
  BY <1>1, <1>3, RunFacts DEF RowTrue, OverStays, Over, Reading, Reported
<1>10. ReaderAlone(x)
  BY <1>1, <1>3, <1>5 DEF ReaderAlone
<1> QED BY <1>3, <1>6, <1>7, <1>8, <1>9, <1>10, RunFacts, ReaderStep

(* A run that ends, well or not, keeps nothing in memory. *)
LEMMA RunForgotten ==
  ASSUME SnapshotTyped, NEW x \in Run, ForgetRun(x)
  PROVE  /\ SnapshotTyped'
         /\ offset'[x] = 0 /\ snapshot'[x] = {} /\ arrived'[x] = {} /\ departed'[x] = {}
         /\ \A y \in Run \ {x} : /\ offset'[y] = offset[y] /\ snapshot'[y] = snapshot[y]
                                 /\ arrived'[y] = arrived[y] /\ departed'[y] = departed[y]
<1>1. /\ offset'[x] = 0 /\ snapshot'[x] = {} /\ arrived'[x] = {} /\ departed'[x] = {}
      /\ \A y \in Run \ {x} : /\ offset'[y] = offset[y] /\ snapshot'[y] = snapshot[y]
                              /\ arrived'[y] = arrived[y] /\ departed'[y] = departed[y]
  BY DEF ForgetRun, SnapshotTyped
<1>2. \A y \in Run : IsFiniteSet(snapshot'[y])
  BY <1>1, FS_EmptySet DEF SnapshotTyped
<1>3. SnapshotTyped'
  BY <1>2 DEF ForgetRun, SnapshotTyped
<1> QED BY <1>1, <1>3

LEMMA CompleteInv ==
  ASSUME ReconcileInv, NEW x \in Run, CompleteRun(x)
  PROVE  ReconcileInv'
<1> DEFINE s == IF x \in Triggered THEN "audit" ELSE "done"
           line == [status |-> "completed", transfers |-> Cardinality(snapshot[x]),
                   issues |-> Cardinality(issue[x])]
<1>1. /\ phase[x] = "complete" /\ Goto(x, s) /\ ForgetRun(x)
      /\ run' = [run EXCEPT ![x] = line]
      /\ UNCHANGED <<dbVars, page, got, issue, audited, view, faults>>
  BY DEF CompleteRun
<1>2. s \in Active \cup {"done", "dead"} /\ s # "supplements" /\ s \in Over
      /\ s \notin Reading \cup Reported
  BY DEF Active, Over, Reading, Reported
<1> HIDE DEF s
<1>3. /\ ReadTyped' /\ phase'[x] = s /\ page'[x] = NoPage /\ Backed(x)'
      /\ \A y \in Reader \ {x} : phase'[y] = phase[y] /\ page'[y] = page[y] /\ got'[y] = got[y]
  BY <1>1, <1>2, RunFacts, PageForgotten
<1>4. /\ SnapshotTyped'
      /\ offset'[x] = 0 /\ snapshot'[x] = {} /\ arrived'[x] = {} /\ departed'[x] = {}
      /\ \A y \in Run \ {x} : /\ offset'[y] = offset[y] /\ snapshot'[y] = snapshot[y]
                              /\ arrived'[y] = arrived[y] /\ departed'[y] = departed[y]
  BY <1>1, RunFacts, RunForgotten
<1>5. line \in RunRow
  <2>1. IsFiniteSet(snapshot[x]) /\ IsFiniteSet(issue[x])
    BY RunFacts DEF SnapshotTyped, RunTyped
  <2> QED BY <2>1, FS_CardinalityType DEF RunRow
<1>6. line.status = "completed" /\ line.issues = Cardinality(issue[x])
  OBVIOUS
<1> HIDE DEF line
<1>7. /\ run' \in [Run -> RunRow] /\ run'[x] = line /\ issue'[x] = issue[x]
      /\ \A y \in Run \ {x} : run'[y] = run[y] /\ issue'[y] = issue[y]
  BY <1>1, <1>5, RunFacts DEF RunTyped
<1>8. RunTyped' /\ faults' \in 0 .. MaxFaults
  BY <1>1, <1>7, RunFacts DEF RunTyped
<1>9. Covered(x)'
  BY <1>2, <1>3, <1>4, NotReading
<1>10. RowTrue(x)' /\ OverStays(x)
  <2>1. phase[x] \notin Over
    BY <1>1 DEF Over
  <2>2. phase'[x] \notin {"idle", "unused", "called"} /\ (phase'[x] = "audit" => x \in Triggered)
    BY <1>2, <1>3 DEF Over, s
  <2> QED BY <1>2, <1>3, <1>6, <1>7, <2>1, <2>2 DEF RowTrue, OverStays
<1>11. ReaderAlone(x)
  BY <1>1, <1>3, <1>4, <1>7 DEF ReaderAlone
<1> QED BY <1>3, <1>4, <1>8, <1>9, <1>10, <1>11, RunFacts, ReaderStep

LEMMA AuditInv ==
  ASSUME ReconcileInv, NEW x \in Run, Audit(x)
  PROVE  ReconcileInv'
<1>1. /\ phase[x] = "audit" /\ Goto(x, "done") /\ audited' = audited \cup {x}
      /\ UNCHANGED <<dbVars, page, got, offset, snapshot, issue, run,
                     view, arrived, departed, faults>>
  BY DEF Audit
<1>2. "audit" \notin Reading \cup Reported /\ "done" \notin Reading \cup Reported
  BY DEF Reading, Reported
<1>3. /\ ReadTyped' /\ phase'[x] = "done" /\ page'[x] = NoPage /\ Backed(x)'
      /\ \A y \in Reader \ {x} : phase'[y] = phase[y] /\ page'[y] = page[y] /\ got'[y] = got[y]
  BY <1>1, RunFacts, PageForgotten
<1>4. SnapshotTyped' /\ RunTyped' /\ faults' \in 0 .. MaxFaults
  BY <1>1, RunFacts DEF SnapshotTyped, RunTyped, RowTrue
<1>5. Covered(x)'
  BY <1>1, <1>2, <1>3, RunFacts, NotReading
<1>6. RowTrue(x)' /\ OverStays(x)
  BY <1>1, <1>2, <1>3, RunFacts DEF RowTrue, OverStays, Over
<1>7. ReaderAlone(x)
  BY <1>1, <1>3 DEF ReaderAlone
<1> QED BY <1>3, <1>4, <1>5, <1>6, <1>7, RunFacts, ReaderStep

LEMMA FailInv ==
  ASSUME ReconcileInv, NEW x \in Run, RunFails(x)
  PROVE  ReconcileInv'
<1>1. /\ faults < MaxFaults /\ faults' = faults + 1
      /\ Goto(x, "dead") /\ ForgetPage(x) /\ ForgetRun(x)
      /\ UNCHANGED <<dbVars, issue, run, audited, view>>
  BY DEF RunFails
<1>2. "dead" \notin Reading \cup Reported
  BY DEF Reading, Reported
<1>3. /\ ReadTyped' /\ phase'[x] = "dead" /\ page'[x] = NoPage /\ Backed(x)'
      /\ \A y \in Reader \ {x} : phase'[y] = phase[y] /\ page'[y] = page[y] /\ got'[y] = got[y]
  BY <1>1, RunFacts, PageForgotten
<1>4. /\ SnapshotTyped'
      /\ offset'[x] = 0 /\ snapshot'[x] = {} /\ arrived'[x] = {} /\ departed'[x] = {}
      /\ \A y \in Run \ {x} : /\ offset'[y] = offset[y] /\ snapshot'[y] = snapshot[y]
                              /\ arrived'[y] = arrived[y] /\ departed'[y] = departed[y]
  BY <1>1, RunFacts, RunForgotten
<1>5. faults' \in 0 .. MaxFaults
  <2>1. faults \in 0 .. MaxFaults /\ MaxFaults \in Nat
    BY RunFacts
  <2> QED BY <1>1, <2>1
<1>6. RunTyped'
  BY <1>1, RunFacts DEF RunTyped
<1>7. Covered(x)'
  BY <1>2, <1>3, <1>4, NotReading
<1>8. RowTrue(x)' /\ OverStays(x)
  BY <1>1, <1>2, <1>3, RunFacts DEF RowTrue, OverStays, Over
<1>9. ReaderAlone(x)
  BY <1>1, <1>3, <1>4 DEF ReaderAlone
<1> QED BY <1>3, <1>4, <1>5, <1>6, <1>7, <1>8, <1>9, RunFacts, ReaderStep

LEMMA RetainInv ==
  ASSUME ReconcileInv, NEW x \in Run, RetainIssues(x) \/ RetainRun(x)
  PROVE  ReconcileInv'
<1>1. /\ phase[x] \in {"done", "dead"}
      /\ issue' = [issue EXCEPT ![x] = {}]
      /\ run' = run \/ run' = [run EXCEPT ![x] = NoRun]
      /\ UNCHANGED <<dbVars, phase, page, got, offset, snapshot, audited, view, arrived, departed,
                     faults>>
  BY DEF RetainIssues, RetainRun, readVars
<1>2. ReadTyped' /\ SnapshotTyped' /\ faults' \in 0 .. MaxFaults
  BY <1>1, RunFacts DEF ReadTyped, SnapshotTyped
<1>3. Backed(x)'
  BY <1>1, RunFacts DEF ReconcileInv, Backed, dbVars
<1>4. /\ issue'[x] = {} /\ run'[x] \in {run[x], NoRun}
      /\ \A y \in Run \ {x} : issue'[y] = issue[y] /\ run'[y] = run[y]
  BY <1>1, RunFacts DEF RunTyped
<1>5. RunTyped'
  <2>1. NoRun \in RunRow
    BY DEF NoRun, RunRow
  <2>2. \A y \in Run : IsFiniteSet(issue'[y])
    BY <1>4, RunFacts, FS_EmptySet DEF RunTyped
  <2> QED BY <1>1, <2>1, <2>2, RunFacts DEF RunTyped
<1>6. Covered(x)'
  <2>1. Scope' = Scope /\ created' = created
    BY <1>1 DEF dbVars, Scope, InScope
  <2>2. Resting(x) /\ arrived'[x] = arrived[x] /\ departed'[x] = departed[x]
    BY <1>1 DEF Resting
  <2> QED BY <2>1, <2>2, RunFacts, RestCovered
<1>7. RowTrue(x)' /\ OverStays(x)
  <2>1. phase'[x] = phase[x] /\ phase[x] \in Over /\ phase[x] \notin Reading \cup Reported
    BY <1>1 DEF Over, Reading, Reported
  <2> QED BY <1>1, <1>4, <2>1, RunFacts DEF RowTrue, OverStays, NoRun
<1>8. ReaderAlone(x)
  BY <1>1, <1>4 DEF ReaderAlone
<1> QED BY <1>2, <1>3, <1>5, <1>6, <1>7, <1>8, RunFacts, ReaderStep

LEMMA DetailInv ==
  ASSUME ReconcileInv, NEW d \in Detail, NEW t \in Transfer, ReadDetail(d, t) \/ ReadOwnDetail(d, t)
  PROVE  ReconcileInv'
<1>1. PICK Q : /\ ReadRows(d, {t}, Q) /\ {"funding", "payout"} \subseteq Q
               /\ UNCHANGED <<dbVars, runVars, view, arrived, departed, faults>>
  BY DEF ReadDetail, ReadOwnDetail, Supplement
<1>2. d \in Reader /\ d \notin Run
  BY DEF Reader
<1>3. TablesTyped /\ ReadTyped /\ SnapshotTyped /\ RunTyped /\ faults \in 0 .. MaxFaults /\ Written
  BY PartsTyped DEF ReconcileInv
<1>4. /\ ReadTyped' /\ phase' = [phase EXCEPT ![d] = "supplements"] /\ Backed(d)'
      /\ \A y \in Reader \ {d} : page'[y] = page[y] /\ got'[y] = got[y]
  BY <1>1, <1>2, <1>3, RowsRead
<1>5. SnapshotTyped' /\ RunTyped' /\ faults' \in 0 .. MaxFaults
  BY <1>1, <1>3 DEF SnapshotTyped, RunTyped, runVars
<1>6. ReaderAlone(d)
  BY <1>1, <1>2, <1>3, <1>4 DEF ReaderAlone, runVars, ReadTyped
<1> QED BY <1>2, <1>4, <1>5, <1>6, ReaderStep

(* What an operator has read. *)
LEMMA ViewInv ==
  ASSUME ReconcileInv, ViewRun \/ ViewIssues \/ \E x \in Run : AskRun(x)
  PROVE  ReconcileInv'
<1>1. UNCHANGED <<dbVars, readVars, runVars, arrived, departed, faults>>
  BY DEF ViewRun, ViewIssues, AskRun
<1>2. UNCHANGED <<created, aged, retried, status, funding, payout, submission,
                  phase, page, got, offset, snapshot, issue, run, audited, arrived, departed, faults>>
  BY <1>1 DEF dbVars, readVars, runVars
<1>3. TablesTyped /\ ReadTyped /\ SnapshotTyped /\ RunTyped /\ ViewTyped /\ faults \in 0 .. MaxFaults
  BY PartsTyped DEF ReconcileInv
<1>4. TablesTyped' /\ ReadTyped' /\ SnapshotTyped' /\ RunTyped' /\ faults' \in 0 .. MaxFaults
  BY <1>2, <1>3 DEF TablesTyped, ReadTyped, SnapshotTyped, RunTyped
<1>5. Written' /\ Scope' = Scope /\ \A x \in Reader : Backed(x)'
  BY <1>2 DEF ReconcileInv, Written, Backed, Scope, InScope
<1>6. ASSUME NEW x \in Run PROVE Covered(x)' /\ RowTrue(x)'
  <2>1. Covered(x)'
    BY <1>2, <1>5, RestCovered DEF ReconcileInv, Resting
  <2> QED BY <1>2, <2>1 DEF ReconcileInv, RowTrue
<1>7. ViewTyped' /\ ViewTrue' /\ ViewComplete'
  <2>1. ASSUME NEW x \in Run, AskRun(x) PROVE ViewTyped' /\ ViewTrue' /\ ViewComplete'
    <3>1. view' = [run |-> x, seen |-> NoRun, rows |-> 0, step |-> "asked"]
      BY <2>1 DEF AskRun, NoView
    <3> QED BY <3>1 DEF ViewTyped, ViewTrue, ViewComplete, RunRow, NoRun
  <2>2. ASSUME ViewRun, run[view.run] = NoRun PROVE ViewTyped' /\ ViewTrue' /\ ViewComplete'
    <3>1. view' = [run |-> "none", seen |-> NoRun, rows |-> 0, step |-> "idle"]
      BY <2>2 DEF ViewRun, NoView
    <3> QED BY <3>1 DEF ViewTyped, ViewTrue, ViewComplete, RunRow, NoRun
  <2>3. ASSUME ViewRun, run[view.run] # NoRun PROVE ViewTyped' /\ ViewTrue' /\ ViewComplete'
    <3>1. /\ view.run \in Run /\ view'.run = view.run /\ view'.seen = run[view.run]
          /\ view'.rows = view.rows /\ view'.step = "issues"
          /\ view' = [view EXCEPT !.seen = run[view.run], !.step = "issues"]
      BY <1>3, <2>3 DEF ViewRun, ViewTyped
    <3>2. run[view.run] \in RunRow /\ RowTrue(view.run)
      BY <1>3, <3>1 DEF RunTyped, ReconcileInv
    <3>3. ViewTyped'
      BY <1>3, <3>1, <3>2 DEF ViewTyped
    <3>4. ViewTrue'
      BY <1>2, <3>1, <3>2 DEF ViewTrue, RowTrue
    <3> QED BY <3>1, <3>3, <3>4 DEF ViewComplete
  <2>4. ASSUME ViewIssues PROVE ViewTyped' /\ ViewTrue' /\ ViewComplete'
    <3>1. /\ view.run \in Run /\ view'.run = view.run /\ view'.seen = view.seen
          /\ view'.rows = Cardinality(issue[view.run]) /\ view.step = "issues" /\ view'.step = "shown"
          /\ view' = [view EXCEPT !.rows = Cardinality(issue[view.run]), !.step = "shown"]
      BY <1>3, <2>4 DEF ViewIssues, ViewTyped
    <3>2. Cardinality(issue[view.run]) \in Nat
      BY <1>3, <3>1, FS_CardinalityType DEF RunTyped
    <3>3. ViewTyped'
      BY <1>3, <3>1, <3>2 DEF ViewTyped
    <3>4. ViewTrue'
      BY <1>2, <3>1 DEF ViewTrue, ReconcileInv
    <3>5. view.seen.status = "completed" /\ run[view.run] # NoRun =>
             issue[view.run] = {} \/ view.seen.issues = Cardinality(issue[view.run])
      BY <3>1 DEF ReconcileInv, ViewTrue, RowTrue
    <3>6. ViewComplete'
      BY <1>2, <3>1, <3>5 DEF ViewComplete
    <3> QED BY <3>3, <3>4, <3>6
  <2> QED BY <2>1, <2>2, <2>3, <2>4
<1> QED BY <1>4, <1>5, <1>6, <1>7, PartsKept DEF ReconcileInv

LEMMA ServicesInv ==
  ASSUME ReconcileInv, Environment
  PROVE  ReconcileInv'
<1>1. TablesTyped /\ ReadTyped /\ SnapshotTyped /\ RunTyped /\ ViewTyped /\ faults \in 0 .. MaxFaults
      /\ Written /\ ReconcileTyped
  BY PartsTyped DEF ReconcileInv
<1>2. Grown /\ Moved
  BY <1>1, TablesStep
<1>3. UNCHANGED <<phase, page, got, offset, snapshot, issue, run, audited, view, faults>>
      /\ ScopeChanges
  BY <1>2 DEF Moved, readVars, runVars
<1>4. TablesTyped' /\ Written' /\ created <= created'
  BY <1>2 DEF Grown
<1>5. ReadTyped' /\ RunTyped' /\ ViewTyped' /\ faults' \in 0 .. MaxFaults
  BY <1>1, <1>3 DEF ReadTyped, RunTyped, ViewTyped
<1>6. SnapshotTyped'
  BY <1>1, <1>3 DEF SnapshotTyped, ScopeChanges
<1>7. ASSUME NEW x \in Reader PROVE Backed(x)'
  <2>1. DOMAIN page[x] \subseteq Transfer
    BY <1>1 DEF ReadTyped
  <2> QED BY <1>2, <1>3, <2>1 DEF ReconcileInv, Backed, Grown
<1>8. ASSUME NEW x \in Run PROVE Covered(x)' /\ RowTrue(x)'
  <2>1. Covered(x)'
    BY <1>1, <1>2, <1>4, ServicesCovered DEF ReconcileInv
  <2> QED BY <1>3, <2>1 DEF ReconcileInv, RowTrue
<1>9. ViewTrue' /\ ViewComplete'
  BY <1>3 DEF ReconcileInv, ViewTrue, ViewComplete
<1> QED BY <1>4, <1>5, <1>6, <1>7, <1>8, <1>9, PartsKept DEF ReconcileInv

LEMMA ReconcileNextInv == ReconcileInv /\ [ReconcileNext]_reconcileVars => ReconcileInv'
<1> SUFFICES ASSUME ReconcileInv, [ReconcileNext]_reconcileVars PROVE ReconcileInv'
  OBVIOUS
<1>1. ASSUME NEW x \in Run, Trigger(x) \/ Tick(x) \/ Proceed(x) \/ RunFails(x)
                            \/ RetainIssues(x) \/ RetainRun(x)
      PROVE  ReconcileInv'
  <2>1. x \in Reader
    BY DEF Reader
  <2> QED BY <1>1, <2>1, CallInv, StartInv, ReadTargetsInv, SupplementInv, AppendInv, IssuesInv,
             CompleteInv, AuditInv, FailInv, RetainInv DEF Proceed
<1>2. ASSUME NEW d \in Detail, NEW q \in Supplement, ReadSupplement(d, q) PROVE ReconcileInv'
  BY <1>2, SupplementInv DEF Reader
<1>3. CASE UNCHANGED reconcileVars
  <2>1. UNCHANGED <<dbVars, readVars, runVars, view, arrived, departed, faults>>
    BY <1>3 DEF reconcileVars
  <2>2. UNCHANGED <<created, aged, retried, status, funding, payout, submission, view,
                    phase, page, got, offset, snapshot, issue, run, audited, arrived, departed,
                    faults>>
    BY <2>1 DEF dbVars, readVars, runVars
  <2>3. /\ TablesTyped /\ ReadTyped /\ SnapshotTyped /\ RunTyped /\ ViewTyped
        /\ faults \in 0 .. MaxFaults
    BY PartsTyped DEF ReconcileInv
  <2>4. /\ TablesTyped' /\ ReadTyped' /\ SnapshotTyped' /\ RunTyped' /\ ViewTyped'
        /\ faults' \in 0 .. MaxFaults
    BY <2>2, <2>3 DEF TablesTyped, ReadTyped, SnapshotTyped, RunTyped, ViewTyped
  <2>5. Written' /\ Scope' = Scope /\ \A x \in Reader : Backed(x)'
    BY <2>2 DEF ReconcileInv, Written, Backed, Scope, InScope
  <2>6. ASSUME NEW x \in Run PROVE Covered(x)' /\ RowTrue(x)'
    <3>1. Covered(x)'
      BY <2>2, <2>5, RestCovered DEF ReconcileInv, Resting
    <3> QED BY <2>2, <3>1 DEF ReconcileInv, RowTrue
  <2>7. ViewTrue' /\ ViewComplete'
    BY <2>2 DEF ReconcileInv, ViewTrue, ViewComplete
  <2> QED BY <2>4, <2>5, <2>6, <2>7, PartsKept DEF ReconcileInv
<1>4. ReconcileNext => \/ Environment
                       \/ \E x \in Run : Trigger(x) \/ Tick(x) \/ Proceed(x) \/ RunFails(x)
                                         \/ RetainIssues(x) \/ RetainRun(x)
                       \/ \E d \in Detail, q \in Supplement : ReadSupplement(d, q)
                       \/ \E d \in Detail, t \in Transfer : ReadDetail(d, t) \/ ReadOwnDetail(d, t)
                       \/ ViewRun \/ ViewIssues \/ \E x \in Run : AskRun(x)
  BY DEF ReconcileNext
<1> QED BY <1>1, <1>2, <1>3, <1>4, ServicesInv, DetailInv, ViewInv

LEMMA ReconcileInitInv == ReconcileInit => ReconcileInv
<1> SUFFICES ASSUME ReconcileInit PROVE ReconcileInv
  OBVIOUS
<1> USE DEF ReconcileInit
<1>1. DOMAIN NoPage = {} /\ NoPage \in [DOMAIN NoPage -> Row]
  BY DEF NoPage
<1>2. TablesTyped
  BY DEF TablesTyped, StoredState, PayoutState
<1>3. ReadTyped
  BY <1>1 DEF ReadTyped
<1>4. SnapshotTyped /\ RunTyped
  BY FS_EmptySet DEF SnapshotTyped, RunTyped, RunRow, NoRun
<1>5. ViewTyped /\ ViewTrue /\ ViewComplete
  <2>1. PICK s \in {"idle", "unused"} : view = [NoView EXCEPT !.step = s]
    OBVIOUS
  <2>2. view = [run |-> "none", seen |-> NoRun, rows |-> 0, step |-> s]
    BY <2>1 DEF NoView
  <2> QED BY <2>2 DEF ViewTyped, ViewTrue, ViewComplete, RunRow, NoRun
<1>6. Written /\ \A x \in Reader : Backed(x)
  BY <1>1 DEF Written, Backed
<1>7. ASSUME NEW x \in Run PROVE Covered(x) /\ RowTrue(x)
  <2>1. Handled(x) = {} /\ x \in Reader
    BY <1>1 DEF Handled, Examined, Reader
  <2>2. phase[x] \in {"idle", "unused"}
    BY <2>1
  <2>3. Covered(x)
    BY <2>1, <2>2 DEF Covered, Observed, Reading, Reported
  <2>4. RowTrue(x)
    BY <2>2 DEF RowTrue, NoRun, Reading, Reported
  <2> QED BY <2>3, <2>4
<1>8. faults \in 0 .. MaxFaults
  OBVIOUS
<1> HIDE DEF ReconcileInit
<1> QED BY <1>2, <1>3, <1>4, <1>5, <1>6, <1>7, <1>8, PartsTyped DEF ReconcileInv

LEMMA ReconcileInvariance == ReconcileSpec => []ReconcileInv
<1> QED BY ReconcileInitInv, ReconcileNextInv, PTL DEF ReconcileSpec

(* Types of the tables, the readers, the runs and what an operator is shown. *)
THEOREM ReconcileTypeCorrect == ReconcileSpec => []ReconcileTypeOK
<1>1. ReconcileInv => ReconcileTypeOK
  BY DEF ReconcileInv, ReconcileTyped
<1> QED BY <1>1, ReconcileInvariance, PTL

(* The alarms for a broken database are never given by a torn read: the rows
   that an alarm misses were there before the status was, and stay. *)
THEOREM AlarmsAreReal == ReconcileSpec => []NoTornAlarm
<1>1. ReconcileInv => NoTornAlarm
  <2> SUFFICES ASSUME ReconcileInv, NEW x \in Reader, PageRead(x), NEW t \in DOMAIN page[x]
               PROVE  Alarms(t, page[x][t]) \cap
                         {"MISSING_FUNDING_EVENT", "MISSING_PAYOUT_RECORD"} = {}
    BY DEF NoTornAlarm
  <2>1. Backed(x) /\ {"funding", "payout"} \subseteq got[x]
    BY DEF ReconcileInv, PageRead, Supplement
  <2> QED BY <2>1 DEF Backed, Alarms
<1> QED BY <1>1, ReconcileInvariance, PTL

(* Whatever the size of a page and however many transfers come and go, a run
   misses no more than left its scope, and reads twice no more than came. *)
THEOREM ScopeIsCovered == ReconcileSpec => []PagesCoverScope
<1>1. ReconcileInv => PagesCoverScope
  <2> SUFFICES ASSUME ReconcileInv, NEW x \in Run, phase[x] \in Reported
               PROVE  LET examined == {r.t : r \in snapshot[x]}
                          missed == {t \in Transfer : InScope(t) /\ t \notin arrived[x]
                                                      /\ t \notin examined}
                      IN /\ Cardinality(missed) <= Cardinality(departed[x])
                         /\ Cardinality(snapshot[x]) <= Cardinality(examined) + Cardinality(arrived[x])
    BY DEF PagesCoverScope
  <2>1. Accounted(x) /\ LastRead(x) /\ DOMAIN page[x] = {}
    BY RunFacts DEF Covered, LastRead, Reported, NoPage
  <2>2. Skipped(x) = {t \in Transfer : InScope(t) /\ t \notin arrived[x] /\ t \notin Examined(x)}
    BY <2>1 DEF Skipped, Handled, Scope
  <2>3. Cardinality(Skipped(x)) <= Cardinality(departed[x])
    BY <2>1 DEF Accounted
  <2>4. Cardinality(snapshot[x]) <= Cardinality(Examined(x)) + Cardinality(arrived[x])
    <3>1. ReconcileTyped
      BY DEF ReconcileInv
    <3> QED BY <2>1, <3>1, Counted DEF Accounted
  <2> QED BY <2>2, <2>3, <2>4 DEF Examined
<1> QED BY <1>1, ReconcileInvariance, PTL

(* Who is shown a completed run is shown as many issues as it counts. *)
THEOREM ViewsAreComplete == ReconcileSpec => []ViewComplete
<1>1. ReconcileInv => ViewComplete
  BY DEF ReconcileInv
<1> QED BY <1>1, ReconcileInvariance, PTL
=============================================================================
