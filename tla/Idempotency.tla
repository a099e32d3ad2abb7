---------------------------- MODULE Idempotency ----------------------------
(***************************************************************************)
(* withIdempotency (packages/http/src/idempotency.ts): the wrapper that    *)
(* every mutating endpoint runs its handler in.  A call reserves a row of  *)
(* idempotency_record for its key; the call whose insert created the row   *)
(* owns the key and runs the handler, the others poll the row until it     *)
(* carries a response or they give up.                                     *)
(*                                                                         *)
(* Every await of the function is a step of its own, so calls interleave   *)
(* between any two of them.  The handler is abstracted to what the wrapper *)
(* sees of it: it returns some response, or it throws.                     *)
(***************************************************************************)
EXTENDS Naturals, FiniteSets

CONSTANTS
    Request,     \* the calls of withIdempotency, each made at most once
    Key,         \* scope:idempotencyKey, the primary key of a row
    Hash,        \* the sha256 of a request payload
    Response,    \* what a handler may return (status and body)
    Faults       \* which faults of the environment are enabled

(* "crash": a process dies between two steps of its calls; "store_failure":
   the query that saves a response fails; "purge": the retention job runs. *)
ASSUME FaultsAssumption == Faults \subseteq {"crash", "store_failure", "purge"}

(* What a caller is told when the handler did not answer it. *)
Refusal == {"none", "in_progress", "conflict", "error"}
ASSUME ResponseAssumption == Response \cap Refusal = {}
ASSUME HashAssumption == Hash # {}

VARIABLES
    row,         \* row[k]: "absent", "reserved" (response_status = -1), "done"
    rowHash,     \* rowHash[k]: its request_hash
    rowResponse, \* rowResponse[k]: its response, when it is done
    pc,          \* pc[r]: the step call r is at
    key, hash,   \* the arguments of r
    answer,      \* answer[r]: what r returned, or is about to store
    executed,    \* executed[k]: the calls whose handler ran to its end
    hit          \* hit[k]: the failures and purges that have hit k's row

vars == <<row, rowHash, rowResponse, pc, key, hash, answer, executed, hit>>
rowVars == <<row, rowHash, rowResponse>>

(* The steps during which a call owns the reservation of its key. *)
Owning == {"executing", "storing", "releasing"}
Step == Owning \cup {"new", "polling", "answered", "dead"}

TypeOK ==
    /\ row \in [Key -> {"absent", "reserved", "done"}]
    /\ rowHash \in [Key -> Hash]
    /\ rowResponse \in [Key -> Response \cup {"none"}]
    /\ pc \in [Request -> Step]
    /\ key \in [Request -> Key]
    /\ hash \in [Request -> Hash]
    /\ answer \in [Request -> Response \cup Refusal]
    /\ executed \in [Key -> SUBSET Request]
    /\ hit \in [Key -> SUBSET {"store_failure", "purge"}]

Init ==
    /\ row = [k \in Key |-> "absent"]
    /\ rowHash = [k \in Key |-> CHOOSE h \in Hash : TRUE]  \* no row, no meaning
    /\ rowResponse = [k \in Key |-> "none"]
    /\ pc = [r \in Request |-> "new"]
    /\ key \in [Request -> Key]
    /\ hash \in [Request -> Hash]
    /\ answer = [r \in Request |-> "none"]
    /\ executed = [k \in Key |-> {}]
    /\ hit = [k \in Key |-> {}]

(* r returns a to its caller. *)
Return(r, a) ==
    /\ pc' = [pc EXCEPT ![r] = "answered"]
    /\ answer' = [answer EXCEPT ![r] = a]

(* Mutated form of Reserve: an upsert, which takes over an existing row. *)
ReserveUpsert(r) ==
    /\ pc[r] = "new"
    /\ row' = [row EXCEPT ![key[r]] = "reserved"]
    /\ rowHash' = [rowHash EXCEPT ![key[r]] = hash[r]]
    /\ pc' = [pc EXCEPT ![r] = "executing"]
    /\ UNCHANGED <<rowResponse, key, hash, answer, executed, hit>>

(* insert ... on conflict do nothing returned the row: r owns the key. *)
Reserve(r) ==
    /\ pc[r] = "new"
    /\ row[key[r]] = "absent"
    /\ row' = [row EXCEPT ![key[r]] = "reserved"]
    /\ rowHash' = [rowHash EXCEPT ![key[r]] = hash[r]]
    /\ pc' = [pc EXCEPT ![r] = "executing"]
    /\ UNCHANGED <<rowResponse, key, hash, answer, executed, hit>>

(* The insert conflicted: another call owns the key, or has been answered. *)
FindReserved(r) ==
    /\ pc[r] = "new"
    /\ row[key[r]] # "absent"
    /\ pc' = [pc EXCEPT ![r] = "polling"]
    /\ UNCHANGED <<rowVars, key, hash, answer, executed, hit>>

(* The handler returns: its effects are committed before its response is
   stored. *)
Execute(r, a) ==
    /\ pc[r] = "executing"
    /\ pc' = [pc EXCEPT ![r] = "storing"]
    /\ answer' = [answer EXCEPT ![r] = a]
    /\ executed' = [executed EXCEPT ![key[r]] = @ \cup {r}]
    /\ UNCHANGED <<rowVars, key, hash, hit>>

HandlerThrows(r) ==
    /\ pc[r] = "executing"
    /\ pc' = [pc EXCEPT ![r] = "releasing"]
    /\ UNCHANGED <<rowVars, key, hash, answer, executed, hit>>

(* update ... where key = $1 and request_hash = $5. *)
Store(r) ==
    /\ pc[r] = "storing"
    /\ LET stored == row[key[r]] # "absent" /\ rowHash[key[r]] = hash[r] IN
       /\ row' = [row EXCEPT ![key[r]] = IF stored THEN "done" ELSE @]
       /\ rowResponse' = [rowResponse EXCEPT ![key[r]] = IF stored THEN answer[r] ELSE @]
    /\ pc' = [pc EXCEPT ![r] = "answered"]
    /\ UNCHANGED <<rowHash, key, hash, answer, executed, hit>>

(* The update is inside the try of the handler: when it fails, the catch
   that releases the key runs although the handler has succeeded. *)
StoreFails(r) ==
    /\ "store_failure" \in Faults
    /\ pc[r] = "storing"
    /\ pc' = [pc EXCEPT ![r] = "releasing"]
    /\ hit' = [hit EXCEPT ![key[r]] = @ \cup {"store_failure"}]
    /\ UNCHANGED <<rowVars, key, hash, answer, executed>>

(* delete ... where key = $1 and request_hash = $2 and response_status = -1,
   then the error is thrown to the caller. *)
Release(r) ==
    /\ pc[r] = "releasing"
    /\ row' = [row EXCEPT ![key[r]] =
                 IF @ = "reserved" /\ rowHash[key[r]] = hash[r] THEN "absent" ELSE @]
    /\ Return(r, "error")
    /\ UNCHANGED <<rowHash, rowResponse, key, hash, executed, hit>>

(* One read of the row by a call that does not own the key, when it ends the
   polling loop. *)
PollMissing(r) ==
    /\ pc[r] = "polling"
    /\ row[key[r]] = "absent"
    /\ Return(r, "in_progress")
    /\ UNCHANGED <<rowVars, key, hash, executed, hit>>

PollConflict(r) ==
    /\ pc[r] = "polling"
    /\ row[key[r]] # "absent"
    /\ rowHash[key[r]] # hash[r]
    /\ Return(r, "conflict")
    /\ UNCHANGED <<rowVars, key, hash, executed, hit>>

(* Mutated form of Replay: the request hash is not compared. *)
ReplayAnyHash(r) ==
    /\ pc[r] = "polling"
    /\ row[key[r]] = "done"
    /\ Return(r, rowResponse[key[r]])
    /\ UNCHANGED <<rowVars, key, hash, executed, hit>>

Replay(r) ==
    /\ pc[r] = "polling"
    /\ row[key[r]] = "done"
    /\ rowHash[key[r]] = hash[r]
    /\ Return(r, rowResponse[key[r]])
    /\ UNCHANGED <<rowVars, key, hash, executed, hit>>

(* Mutated form of PollTimeout: the loop has no deadline. *)
PollTimeoutNever(r) == pc[r] = "polling" /\ FALSE /\ UNCHANGED vars

(* inFlightWaitMs have passed and the row is still reserved. *)
PollTimeout(r) ==
    /\ pc[r] = "polling"
    /\ row[key[r]] = "reserved"
    /\ rowHash[key[r]] = hash[r]
    /\ Return(r, "in_progress")
    /\ UNCHANGED <<rowVars, key, hash, executed, hit>>

(* Mutated form of Crash: the row of a dead owner is cleaned up at once, as a
   reservation held by a database session would be. *)
CrashReleases(r) ==
    /\ "crash" \in Faults
    /\ pc[r] \in Owning \cup {"polling"}
    /\ pc' = [pc EXCEPT ![r] = "dead"]
    /\ answer' = [answer EXCEPT ![r] = "none"]
    /\ row' = [row EXCEPT ![key[r]] = IF pc[r] \in Owning THEN "absent" ELSE @]
    /\ UNCHANGED <<rowHash, rowResponse, key, hash, executed, hit>>

(* The process serving r dies: r is never answered and its row stays. *)
Crash(r) ==
    /\ "crash" \in Faults
    /\ pc[r] \in Owning \cup {"polling"}
    /\ pc' = [pc EXCEPT ![r] = "dead"]
    /\ answer' = [answer EXCEPT ![r] = "none"]
    /\ UNCHANGED <<rowVars, key, hash, executed, hit>>

(* runRetentionJob deletes a row two days after expires_at, three days after
   it was reserved: no handler of the program runs that long, so the owner is
   gone by then. *)
Purge(k) ==
    /\ "purge" \in Faults
    /\ row[k] # "absent"
    /\ \A r \in Request : key[r] = k => pc[r] \notin Owning
    /\ row' = [row EXCEPT ![k] = "absent"]
    /\ rowResponse' = [rowResponse EXCEPT ![k] = "none"]
    /\ hit' = [hit EXCEPT ![k] = @ \cup {"purge"}]
    /\ UNCHANGED <<rowHash, pc, key, hash, answer, executed>>

(* The steps of a call that the event loop of its process takes. *)
Advance(r) ==
    \/ Reserve(r) \/ FindReserved(r)
    \/ \E a \in Response : Execute(r, a)
    \/ HandlerThrows(r)
    \/ Store(r) \/ StoreFails(r) \/ Release(r)
    \/ PollMissing(r) \/ PollConflict(r) \/ Replay(r) \/ PollTimeout(r)

Next ==
    \/ \E r \in Request : Advance(r) \/ Crash(r)
    \/ \E k \in Key : Purge(k)

Spec == Init /\ [][Next]_vars

(* A live process keeps serving the calls it has accepted. *)
FairSpec == Spec /\ \A r \in Request : WF_vars(Advance(r))

-----------------------------------------------------------------------------
(***************************************************************************)
(* Properties                                                              *)
(***************************************************************************)

(* At no time do two calls run the handler of one key: the reservation of
   lines 33-41 is a mutual exclusion, whatever crashes, failed queries and
   retention do to the row. *)
SingleOwner ==
    \A r, s \in Request :
        key[r] = key[s] /\ pc[r] \in Owning /\ pc[s] \in Owning => r = s

(* While a call owns its key the row is there, unanswered, with its payload:
   the where-clauses of the update and of the delete, which do not say who owns
   the row, can only match the owner's. *)
OwnerHoldsRow ==
    \A r \in Request :
        pc[r] \in Owning => row[key[r]] = "reserved" /\ rowHash[key[r]] = hash[r]

(* Callers of one key that received a handler's response all received the
   same one, and all sent the same payload, until retention deletes its row: the
   response of lines 43-56 is the only one lines 107-112 replay, and lines
   94-105 keep another payload from it. *)
OneResponsePerKey ==
    \A r, s \in Request :
        /\ "purge" \notin hit[key[r]]
        /\ pc[r] = "answered" /\ answer[r] \in Response
        /\ pc[s] = "answered" /\ answer[s] \in Response
        /\ key[r] = key[s]
        => answer[r] = answer[s] /\ hash[r] = hash[s]

(* The handler of a key runs to its end at most once, even when its owner
   dies before it has stored the response; only a response that could not be
   stored, or retention, lets it run again. *)
AtMostOneExecution == \A k \in Key : hit[k] = {} => Cardinality(executed[k]) <= 1

(* Every call is answered unless its process dies, although it may wait for
   another call that never finishes: lines 114-125 bound the wait. *)
EveryCallAnswered == \A r \in Request : <>(pc[r] \in {"answered", "dead"})
=============================================================================
