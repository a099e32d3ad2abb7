------------------------------ MODULE Watcher ------------------------------
(***************************************************************************)
(* workers/base-watcher: a runner polls the chain from a cursor, reports   *)
(* every deposit it finds to core-api, remembers what it has reported and  *)
(* saves the cursor, through the endpoints of core-api's routes/watchers.  *)
(* A deployment overlaps two runners, which share the stored state.        *)
(*                                                                         *)
(* Every remote call is a step.  `head' is the last block with enough      *)
(* confirmations; the block after it holds the deposits that do not have   *)
(* them yet.  Blocks up to head do not change.                             *)
(***************************************************************************)
EXTENDS Naturals

CONSTANTS
    Deposit,      \* the token transfers that may occur
    Foreign,      \* those to an address of no transfer (found by factory scans)
    Refused,      \* those core-api rejects (fundingCallbackSchema)
    Runner,       \* the processes
    Span,         \* MaxBlockSpan
    MaxBlock,     \* bound on the blocks of a behaviour
    MaxFaults     \* bound on failed calls and crashes in a behaviour

ASSUME WatcherAssumption ==
    /\ Foreign \subseteq Deposit /\ Refused \subseteq Deposit
    /\ Span \in Nat \ {0} /\ MaxBlock \in Nat /\ MaxFaults \in Nat

VARIABLES
    head,      \* the last final block (external)
    block,     \* block[d]: the block that holds d, or 0 (external)
    routed,    \* deposits whose transfer and deposit_routes row exist
    cursor,    \* watcher_checkpoint.cursor
    seen,      \* watcher_event_dedupe
    reported,  \* deposits that funding-confirmed has processed
    stuck,     \* deposits whose idempotency key a dead core-api has left reserved
    dropped,   \* deposits left out of a scan because of a failed call (history)
    runner,    \* per runner: its step, cursor, and the poll in progress;
               \* `initial' until its first poll after a start has ended
    faults

chainVars == <<head, block, routed>>
storeVars == <<cursor, seen, reported, stuck>>
vars == <<chainVars, storeVars, dropped, runner, faults>>

Step == {"idle", "scan", "next", "publish", "mark", "save", "reload"}
NoDeposit == "none"

(* Types; no runner scans, and the cursor names no block, beyond the final ones
   (the confirmation threshold of Poll). *)
TypeOK ==
    /\ head \in 0 .. MaxBlock
    /\ block \in [Deposit -> 0 .. MaxBlock]
    /\ routed \subseteq Deposit \ Foreign
    /\ cursor \in 0 .. head
    /\ seen \subseteq Deposit /\ reported \subseteq Deposit
    /\ stuck \subseteq Deposit /\ dropped \subseteq Deposit
    /\ runner \in [Runner ->
          [step : Step, from : 0 .. head, to : 0 .. head,
           queue : SUBSET Deposit, at : Deposit \cup {NoDeposit},
           initial : BOOLEAN]]
    /\ faults \in 0 .. MaxFaults

Init ==
    /\ head = 0
    /\ block = [d \in Deposit |-> 0]
    /\ routed = {}
    /\ cursor = 0
    /\ seen = {} /\ reported = {} /\ stuck = {} /\ dropped = {}
    /\ runner = [w \in Runner |->
          [step |-> "idle", from |-> 0, to |-> 0, queue |-> {},
           at |-> NoDeposit, initial |-> TRUE]]
    /\ faults = 0

-----------------------------------------------------------------------------
(* A transfer is created and its deposit address handed out. *)
OpenRoute(d) ==
    /\ d \notin Foreign \cup routed
    /\ routed' = routed \cup {d}
    /\ UNCHANGED <<head, block, storeVars, dropped, runner, faults>>

(* d is included in the block after head. *)
Mine(d) ==
    /\ d \in routed \cup Foreign
    /\ block[d] = 0 /\ head < MaxBlock
    /\ block' = [block EXCEPT ![d] = head + 1]
    /\ UNCHANGED <<head, routed, storeVars, dropped, runner, faults>>

NextBlock ==
    /\ head < MaxBlock
    /\ head' = head + 1
    /\ UNCHANGED <<block, routed, storeVars, dropped, runner, faults>>

-----------------------------------------------------------------------------
At(w, s) == runner[w].step = s
Goto(w, s) == runner' = [runner EXCEPT ![w].step = s]

(* Poll: the latest block first.  When there is nothing to scan the cursor is
   saved all the same. *)
ReadHead(w) ==
    LET r == runner[w] IN
    /\ At(w, "idle")
    /\ runner' = [runner EXCEPT ![w] =
         IF head <= r.from
         THEN [r EXCEPT !.step = "save", !.to = r.from]
         ELSE [r EXCEPT !.step = "scan",
                        !.to = IF head - r.from > Span THEN r.from + Span
                                                       ELSE head]]
    /\ UNCHANGED <<chainVars, storeVars, dropped, faults>>

InRange(w, d) == block[d] \in runner[w].from + 1 .. runner[w].to

(* ethGetLogs, for the deposits D; a range whose answer is too large is read by
   halves, which are final alike. *)
GetLogs(w, D) == {d \in D : InRange(w, d)}

(* What a scan returns: the deposits to the routes that are active when they are
   listed, and, if factory scans are on and do not fail, the others. *)
Logs(w) == {GetLogs(w, routed \cup F) : F \in {{}, Foreign}}

(* Mutated form of Scan: the block after the range is scanned as well. *)
ScanOneMore(w) ==
    LET r == runner[w] IN
    /\ At(w, "scan")
    /\ runner' = [runner EXCEPT ![w] =
         [r EXCEPT !.step = "next", !.to = @ + 1,
                   !.queue = {d \in routed : block[d] \in r.from + 1 .. r.to + 1}]]
    /\ UNCHANGED <<chainVars, storeVars, dropped, faults>>

(* Then the routes, and the logs of the range.  A log whose block's timestamp
   cannot be read is left out of the candidates. *)
Scan(w) ==
    /\ At(w, "scan")
    /\ \E logs \in Logs(w), D \in SUBSET routed :
          /\ D \subseteq logs
          /\ D # {} => faults < MaxFaults
          /\ faults' = IF D = {} THEN faults ELSE faults + 1
          /\ dropped' = dropped \cup D
          /\ runner' = [runner EXCEPT ![w].step = "next", ![w].queue = logs \ D]
    /\ UNCHANGED <<chainVars, storeVars>>

(* Mutated form of Check: a candidate is marked as seen before it is reported. *)
CheckMarks(w) ==
    /\ At(w, "next")
    /\ \E d \in runner[w].queue :
          /\ seen' = seen \cup {d}
          /\ \/ d \in seen /\ runner' = [runner EXCEPT ![w].queue = @ \ {d}]
             \/ /\ d \notin seen
                /\ runner' = [runner EXCEPT ![w].step = "publish", ![w].at = d]
    /\ UNCHANGED <<chainVars, cursor, reported, stuck, dropped, faults>>

(* The next candidate, in the order of the scan, if it has not been seen. *)
Check(w) ==
    /\ At(w, "next")
    /\ \E d \in runner[w].queue :
          \/ /\ d \in seen
             /\ runner' = [runner EXCEPT ![w].queue = @ \ {d}]
          \/ /\ d \notin seen
             /\ runner' = [runner EXCEPT ![w].step = "publish", ![w].at = d]
    /\ UNCHANGED <<chainVars, storeVars, dropped, faults>>

(* The poll is complete. *)
Complete(w) ==
    /\ At(w, "next")
    /\ runner[w].queue = {}
    /\ Goto(w, "save")
    /\ UNCHANGED <<chainVars, storeVars, dropped, faults>>

Done(r) == [r EXCEPT !.step = "next", !.queue = @ \ {r.at}, !.at = NoDeposit]
Failed(r) ==
    [r EXCEPT !.step = "idle", !.queue = {}, !.at = NoDeposit, !.initial = FALSE]

(* ProcessRouteNotFound: the candidate is passed over. *)
RouteNotFound(w) ==
    /\ At(w, "publish") /\ runner[w].at \in Foreign
    /\ runner' = [runner EXCEPT ![w] = Done(@)]
    /\ UNCHANGED <<chainVars, storeVars, dropped, faults>>

(* funding-confirmed processes the report, or replays its answer: a 2xx. *)
Deliver(w) ==
    LET d == runner[w].at IN
    /\ At(w, "publish")
    /\ d \notin Foreign \cup Refused \cup stuck
    /\ reported' = reported \cup {d}
    /\ Goto(w, "mark")
    /\ UNCHANGED <<chainVars, cursor, seen, stuck, dropped, faults>>

(* Mutated form of Refuse: the runner goes on with the next candidate. *)
RefuseSkips(w) ==
    /\ At(w, "publish") /\ runner[w].at \in Refused \cup stuck
    /\ runner' = [runner EXCEPT ![w] = Done(@)]
    /\ UNCHANGED <<chainVars, storeVars, dropped, faults>>

(* 400 or 409: the poll ends, and will start again from the same cursor. *)
Refuse(w) ==
    /\ At(w, "publish") /\ runner[w].at \in Refused \cup stuck
    /\ runner' = [runner EXCEPT ![w] = Failed(@)]
    /\ UNCHANGED <<chainVars, storeVars, dropped, faults>>

(* The report is lost, or its answer, or core-api dies with the key reserved. *)
DeliverFails(w) ==
    LET d == runner[w].at IN
    /\ faults < MaxFaults
    /\ At(w, "publish") /\ d \notin Foreign \cup Refused \cup stuck
    /\ faults' = faults + 1
    /\ reported' \in {reported, reported \cup {d}}
    /\ stuck' \in {stuck, stuck \cup {d}}
    /\ runner' = [runner EXCEPT ![w] = Failed(@)]
    /\ UNCHANGED <<chainVars, cursor, seen, dropped>>

Mark(w) ==
    /\ At(w, "mark")
    /\ seen' = seen \cup {runner[w].at}
    /\ runner' = [runner EXCEPT ![w] = Done(@)]
    /\ UNCHANGED <<chainVars, cursor, reported, stuck, dropped, faults>>

(* SaveCursor writes what this runner has scanned, wherever the cursor is.  The
   poll at start-up does not read it back: the next one scans the range again. *)
Save(w) ==
    /\ At(w, "save")
    /\ cursor' = runner[w].to
    /\ runner' = [runner EXCEPT ![w] =
         [@ EXCEPT !.step = IF runner[w].initial THEN "idle" ELSE "reload",
                   !.initial = FALSE]]
    /\ UNCHANGED <<chainVars, seen, reported, stuck, dropped, faults>>

Reload(w) ==
    /\ At(w, "reload")
    /\ runner' = [runner EXCEPT ![w].step = "idle", ![w].from = cursor]
    /\ UNCHANGED <<chainVars, storeVars, dropped, faults>>

(* The node or core-api does not answer the calls of a scan: the poll is given
   up. *)
RpcFails(w) ==
    /\ faults < MaxFaults
    /\ At(w, "scan")
    /\ faults' = faults + 1
    /\ runner' = [runner EXCEPT ![w] = Failed(@)]
    /\ UNCHANGED <<chainVars, storeVars, dropped>>

(* A call of core-api's other endpoints fails, before or after it took effect:
   the poll is given up, or, in Reload, the old cursor kept. *)
StoreFails(w) ==
    LET r == runner[w] IN
    /\ faults < MaxFaults
    /\ \/ r.step \in {"mark", "save", "reload"}
       \/ r.step = "next" /\ r.queue # {}
       \/ r.step = "publish" /\ r.at \in Foreign
    /\ faults' = faults + 1
    /\ cursor' \in IF r.step = "save" THEN {cursor, r.to} ELSE {cursor}
    /\ seen' \in IF r.step = "mark" THEN {seen, seen \cup {r.at}} ELSE {seen}
    /\ runner' = [runner EXCEPT ![w] = Failed(@)]
    /\ UNCHANGED <<chainVars, reported, stuck, dropped>>

(* The process dies, and its successor starts from the stored cursor. *)
Restart(w) ==
    /\ faults < MaxFaults
    /\ faults' = faults + 1
    /\ runner' = [runner EXCEPT ![w] =
         [Failed(@) EXCEPT !.from = cursor, !.initial = TRUE]]
    /\ UNCHANGED <<chainVars, storeVars, dropped>>

(* The retention job deletes the reserved key: reports are processed again. *)
Purge(d) ==
    /\ d \in stuck
    /\ stuck' = stuck \ {d}
    /\ UNCHANGED <<chainVars, cursor, seen, reported, dropped, runner, faults>>

-----------------------------------------------------------------------------
(* The steps of a runner, but failures. *)
Work(w) ==
    \/ ReadHead(w) \/ Scan(w) \/ Check(w) \/ Complete(w)
    \/ RouteNotFound(w) \/ Refuse(w) \/ Deliver(w)
    \/ Mark(w) \/ Save(w) \/ Reload(w)

Next ==
    \/ \E d \in Deposit : OpenRoute(d) \/ Mine(d) \/ Purge(d)
    \/ NextBlock
    \/ \E w \in Runner : Work(w) \/ DeliverFails(w) \/ RpcFails(w) \/ StoreFails(w)
                          \/ Restart(w)

Spec == Init /\ [][Next]_vars

(* The ticker keeps starting polls, every call ends, and the retention job runs
   every hour. *)
FairSpec ==
    /\ Spec
    /\ \A w \in Runner : WF_vars(Work(w))
    /\ \A d \in Deposit : WF_vars(Purge(d))

-----------------------------------------------------------------------------
(***************************************************************************)
(* Properties                                                              *)
(***************************************************************************)

Final(d) == block[d] \in 1 .. head

(* The cursor never passes a deposit of a transfer that core-api has not been
   told of, unless a scan left it out: whatever fails between the scan and the
   checkpoint, and whichever of two runners saves last. *)
CursorSafe ==
    \A d \in Deposit \ Foreign :
        block[d] \in 1 .. cursor => d \in reported \cup dropped

(* core-api is told of final deposits to known addresses only, and a runner
   skips only what core-api has been told of. *)
ReportsFinal ==
    /\ \A d \in reported : Final(d) /\ d \in routed
    /\ seen \subseteq reported

(* Every final deposit to a transfer is reported in the end, over failed calls,
   crashes of the runner and of core-api and a second runner, unless a scan
   left it out or core-api refuses some deposit, which stops the runner. *)
EveryDepositReported ==
    \A d \in Deposit \ Foreign :
        Final(d) ~> \/ d \in reported \cup dropped
                    \/ \E e \in Refused : Final(e)
=============================================================================
