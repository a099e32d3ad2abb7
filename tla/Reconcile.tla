----------------------------- MODULE Reconcile -----------------------------
(***************************************************************************)
(* services/reconciliation-worker: ReconciliationService.runOnce, started  *)
(* by a timer or by POST /internal/v1/ops/reconciliation/run, and what the *)
(* operators read back: a run with its issues, and the detail of one       *)
(* transfer (core-api routes/ops.ts and routes/transfers.ts).              *)
(*                                                                         *)
(* A run reads the transfers page by page, by offset, newest first; for a  *)
(* page it reads the rows of the other tables after the rows of transfers, *)
(* with queries that run in parallel and see different states.  Meanwhile  *)
(* the services move the transfers.  A detail is read the same way.        *)
(*                                                                         *)
(* Transfers are numbered in the order of created_at.  No code of the      *)
(* program inserts ledger entries (LEDGER_IMBALANCE is never raised), and  *)
(* quotes never change: these two queries are left out.                    *)
(***************************************************************************)
EXTENDS TransferStates, Naturals, FiniteSets

CONSTANTS
    MaxTransfer,  \* bound: how many transfers are ever created
    Solana,       \* those on Solana
    Run,          \* run ids; a retry after a failure has a new one
    Triggered,    \* the runs that were triggered by POST, the others by timer
    Detail,       \* requests for the detail of a transfer
    Own,          \* of these, the ones customers make for their own transfers
    PageSize,     \* RECONCILIATION_PAGE_SIZE
    MaxFaults     \* bound on runs that fail or whose process dies

Transfer == 1 .. MaxTransfer
Reader == Run \cup Detail

ASSUME ReconcileAssumption ==
    /\ MaxTransfer \in Nat
    /\ PageSize \in Nat \ {0}
    /\ MaxFaults \in Nat
    /\ Triggered \subseteq Run
    /\ Run \cap Detail = {}
    /\ Own \subseteq Detail

VARIABLES
    created,     \* the transfers created so far are 1 .. created
    aged,        \* of these, 1 .. aged are older than the lookback
    retried,     \* the transfers whose payout operators will retry by hand
    status,      \* transfers.status
    funding,     \* whether an onchain_funding_event exists
    payout,      \* payout_instruction.status ("none": no row)
    submission,  \* whether a funding_submission_attempt exists
    phase,       \* per reader: the step it is at
    page,        \* the rows of the page being read
    got,         \* the supplementary queries answered for that page
    offset,      \* per run: the offset of the page
    snapshot,    \* per run: the rows read, with the alarms they give
    issue,       \* reconciliation_issue, per run
    run,         \* reconciliation_run
    view,        \* the answer to GET runs/:runId being put together
    audited,     \* the runs with an audit row
    arrived,     \* history: transfers created while the run reads
    departed,    \* history: transfers that left its scope meanwhile
    faults       \* failures so far

dbVars == <<created, aged, retried, status, funding, payout, submission>>
readVars == <<phase, page, got>>
runVars == <<offset, snapshot, issue, run, audited>>
reconcileVars == <<dbVars, readVars, runVars, view, arrived, departed, faults>>

(* The supplementary queries that can see different things. *)
Supplement == {"funding", "payout", "submission"}
Code == {"MISSING_FUNDING_EVENT", "PAYOUT_STATUS_MISMATCH",
         "MISSING_PAYOUT_RECORD", "SOLANA_MANUAL_SUBMISSION_MISSING"}
PayoutState == {"none", "PENDING"} \cup StoredState
Row == [status : StoredState, funding : BOOLEAN, payout : PayoutState, submission : BOOLEAN]
NoRun == [status |-> "absent", transfers |-> 0, issues |-> 0]

Reading == {"targets", "supplements"}
Reported == {"classify", "complete"}
Active == {"called"} \cup Reading \cup Reported \cup {"audit"}

-----------------------------------------------------------------------------
(* listTargetTransfers: open transfers, and all that are recent. *)
OpenStatus == {"AWAITING_FUNDING", "FUNDING_CONFIRMED", "PAYOUT_INITIATED",
               "PAYOUT_REVIEW_REQUIRED"}

InScope(t) == t <= created /\ (status[t] \in OpenStatus \/ t > aged)

(* order by created_at desc limit PageSize offset o. *)
Newer(t) == Cardinality({u \in Transfer : InScope(u) /\ u > t})
PageAt(o) == {t \in Transfer : InScope(t) /\ o <= Newer(t) /\ Newer(t) < o + PageSize}

(* The alarms runOnce raises for a row of transfer t, but for the age it
   requires of the last one. *)
Alarms(t, r) ==
    {c \in Code :
       \/ /\ c = "MISSING_FUNDING_EVENT"
          /\ r.status # "AWAITING_FUNDING" /\ ~r.funding
       \/ /\ c = "PAYOUT_STATUS_MISMATCH"
          /\ r.status = "PAYOUT_COMPLETED" /\ r.payout # "PAYOUT_INITIATED"
       \/ /\ c = "MISSING_PAYOUT_RECORD"
          /\ r.status = "PAYOUT_INITIATED" /\ r.payout = "none"
       \/ /\ c = "SOLANA_MANUAL_SUBMISSION_MISSING"
          /\ t \in Solana /\ r.status = "AWAITING_FUNDING"
          /\ ~r.funding /\ ~r.submission}

(* The queries on one transfer, as the database answers them now: its own row,
   and what the other tables have for it. *)
FindStatus(t) == status[t]
FindFunding(t) == funding[t]
FindPayout(t) == payout[t]
FindSubmission(t) == submission[t]

(* The supplements to the row of transfer t. *)
Answer(t) == [funding |-> FindFunding(t), payout |-> FindPayout(t),
              submission |-> FindSubmission(t)]

ReconcileTypeOK ==
    /\ created \in 0 .. MaxTransfer
    /\ aged \in 0 .. created
    /\ retried \subseteq Transfer
    /\ status \in [Transfer -> StoredState]
    /\ funding \in [Transfer -> BOOLEAN]
    /\ payout \in [Transfer -> PayoutState]
    /\ submission \in [Transfer -> BOOLEAN]
    /\ phase \in [Reader -> Active \cup {"idle", "unused", "done", "dead"}]
    /\ \A x \in Reader : DOMAIN page[x] \subseteq Transfer /\ page[x] \in [DOMAIN page[x] -> Row]
    /\ got \in [Reader -> SUBSET Supplement]
    /\ offset \in [Run -> Nat]
    /\ \A x \in Run : snapshot[x] \subseteq [at : Nat, t : Transfer, codes : SUBSET Code]
    /\ \A x \in Run : issue[x] \subseteq Nat \X Transfer \X Code
    /\ run \in [Run -> [status : {"absent", "running", "completed"}, transfers : Nat, issues : Nat]]
    /\ view.run \in Run \cup {"none"}
    /\ audited \subseteq Triggered
    /\ arrived \in [Run -> SUBSET Transfer] /\ departed \in [Run -> SUBSET Transfer]
    /\ faults \in 0 .. MaxFaults

NoPage == [t \in {} |-> NoRun]
NoView == [run |-> "none", seen |-> NoRun, rows |-> 0, step |-> "idle"]

ReconcileInit ==
    /\ created = 0 /\ aged = 0
    /\ retried \in SUBSET Transfer
    /\ status = [t \in Transfer |-> "AWAITING_FUNDING"]
    /\ funding = [t \in Transfer |-> FALSE]
    /\ payout = [t \in Transfer |-> "none"]
    /\ submission = [t \in Transfer |-> FALSE]
    /\ phase \in [Reader -> {"idle", "unused"}]  \* which requests are ever made
    /\ page = [x \in Reader |-> NoPage]
    /\ got = [x \in Reader |-> {}]
    /\ offset = [x \in Run |-> 0]
    /\ snapshot = [x \in Run |-> {}]
    /\ issue = [x \in Run |-> {}]
    /\ run = [x \in Run |-> NoRun]
    /\ \E s \in {"idle", "unused"} : view = [NoView EXCEPT !.step = s]
    /\ audited = {}
    /\ arrived = [x \in Run |-> {}]
    /\ departed = [x \in Run |-> {}]
    /\ faults = 0

-----------------------------------------------------------------------------
(***************************************************************************)
(* The services move the transfers (modules Funding and Payout).           *)
(***************************************************************************)

(* What runs that have started observe of a change to their scope. *)
ScopeChanges ==
    LET reads(x) == phase[x] \in Reading \cup Reported IN
    /\ arrived' = [x \in Run |-> IF reads(x)
                     THEN arrived[x] \cup {t \in Transfer : InScope(t)' /\ ~InScope(t)}
                     ELSE arrived[x]]
    /\ departed' = [x \in Run |-> IF reads(x)
                     THEN departed[x] \cup {t \in Transfer : InScope(t) /\ ~InScope(t)'}
                     ELSE departed[x]]

Moved == ScopeChanges /\ UNCHANGED <<readVars, runVars, view, faults>>

(* persistTransferWithRoute inserts a transfer that awaits its funding. *)
CreateTransfer ==
    /\ created < MaxTransfer
    /\ created' = created + 1
    /\ UNCHANGED <<aged, retried, status, funding, payout, submission>>
    /\ Moved

(* Time passes: the oldest transfer leaves the lookback of 14 days. *)
AgeOut ==
    /\ aged < created
    /\ aged' = aged + 1
    /\ UNCHANGED <<created, retried, status, funding, payout, submission>>
    /\ Moved

(* The customer submits a payment: upsertFundingSubmissionAttempt. *)
Submit(t) ==
    /\ t \in Solana /\ t <= created
    /\ status[t] = "AWAITING_FUNDING" /\ ~submission[t]
    /\ submission' = [submission EXCEPT ![t] = TRUE]
    /\ UNCHANGED <<created, aged, retried, status, funding, payout>>
    /\ Moved

(* Mutated form of ConfirmFunding: the status in a transaction of its own,
   before the event. *)
ConfirmFundingLater(t) ==
    /\ t <= created /\ ~funding[t]
    /\ status' = [status EXCEPT ![t] = IF @ = "AWAITING_FUNDING" THEN "FUNDING_CONFIRMED" ELSE @]
    /\ funding' = [funding EXCEPT ![t] = status[t] # "AWAITING_FUNDING"]
    /\ UNCHANGED <<created, aged, retried, payout, submission>>
    /\ Moved

(* applyFundingConfirmation: event and status in one transaction. *)
ConfirmFunding(t) ==
    /\ t <= created
    /\ status[t] = "AWAITING_FUNDING"
    /\ status' = [status EXCEPT ![t] = "FUNDING_CONFIRMED"]
    /\ funding' = [funding EXCEPT ![t] = TRUE]
    /\ UNCHANGED <<created, aged, retried, payout, submission>>
    /\ Moved

(* getOrCreateInstruction. *)
InsertInstruction(t) ==
    /\ status[t] = "FUNDING_CONFIRMED" /\ payout[t] = "none"
    /\ payout' = [payout EXCEPT ![t] = "PENDING"]
    /\ UNCHANGED <<created, aged, retried, status, funding, submission>>
    /\ Moved

(* A mark of the orchestrator, in one transaction: the instruction
   unconditionally, the transfer from the statuses it may leave.  Without a
   manual retry no mark comes after the transfer has left them (RowsAgree of
   module Payout). *)
Mark(t, to, from) ==
    /\ status[t] \in from \/ t \in retried
    /\ payout' = [payout EXCEPT ![t] = to]
    /\ status' = [status EXCEPT ![t] = IF @ \in from THEN to ELSE @]
    /\ UNCHANGED <<created, aged, retried, funding, submission>>
    /\ Moved

(* markInitiated, markReviewRequired, and after the partner's callback
   markCompleted and markFailed. *)
MarkInitiated(t) == payout[t] # "none" /\ Mark(t, "PAYOUT_INITIATED", {"FUNDING_CONFIRMED"})
MarkReviewRequired(t) ==
    payout[t] # "none" /\ Mark(t, "PAYOUT_REVIEW_REQUIRED", {"FUNDING_CONFIRMED", "PAYOUT_INITIATED"})
Conclude(t, s) == payout[t] = "PAYOUT_INITIATED" /\ Mark(t, s, {"PAYOUT_INITIATED"})

-----------------------------------------------------------------------------
(***************************************************************************)
(* Reading a page, or one transfer: its targets, then the supplements.     *)
(***************************************************************************)
Goto(x, s) == phase' = [phase EXCEPT ![x] = s]

(* Reader x has read the rows of transfers T, and goes on to supplements Q. *)
ReadRows(x, T, Q) ==
    /\ page' = [page EXCEPT ![x] = [t \in T |-> [status |-> FindStatus(t), funding |-> FALSE,
                                                payout |-> "none", submission |-> FALSE]]]
    /\ got' = [got EXCEPT ![x] = IF T = {} THEN Supplement ELSE Supplement \ Q]
    /\ Goto(x, "supplements")

(* One of the queries of Promise.all is answered. *)
ReadSupplement(x, q) ==
    LET T == DOMAIN page[x] IN
    /\ phase[x] = "supplements" /\ q \notin got[x]
    /\ page' = [page EXCEPT ![x] = [t \in T |-> [page[x][t] EXCEPT ![q] = Answer(t)[q]]]]
    /\ got' = [got EXCEPT ![x] = @ \cup {q}]
    /\ UNCHANGED <<dbVars, phase, runVars, view, arrived, departed, faults>>

-----------------------------------------------------------------------------
(***************************************************************************)
(* A run.                                                                  *)
(***************************************************************************)

(* POST reconciliation/run at core-api, which forwards it to the worker. *)
Trigger(x) ==
    /\ x \in Triggered /\ phase[x] = "idle"
    /\ Goto(x, "called")
    /\ UNCHANGED <<dbVars, page, got, runVars, view, arrived, departed, faults>>

(* The timer of the worker, which does not wait for an earlier run to end. *)
Tick(x) ==
    /\ x \in Run \ Triggered /\ phase[x] = "idle"
    /\ Goto(x, "called")
    /\ UNCHANGED <<dbVars, page, got, runVars, view, arrived, departed, faults>>

(* createRun. *)
StartRun(x) ==
    /\ phase[x] = "called"
    /\ run' = [run EXCEPT ![x].status = "running"]
    /\ Goto(x, "targets")
    /\ UNCHANGED <<dbVars, page, got, offset, snapshot, issue, audited, view, arrived, departed,
                   faults>>

ReadTargets(x) ==
    /\ x \in Run /\ phase[x] = "targets"
    /\ ReadRows(x, PageAt(offset[x]), Supplement)
    /\ UNCHANGED <<dbVars, runVars, view, arrived, departed, faults>>

(* The page is in the snapshot, or lost with its process. *)
ForgetPage(x) ==
    /\ page' = [page EXCEPT ![x] = NoPage]
    /\ got' = [got EXCEPT ![x] = {}]

(* The memory of the run is gone. *)
ForgetRun(x) ==
    /\ offset' = [offset EXCEPT ![x] = 0]
    /\ snapshot' = [snapshot EXCEPT ![x] = {}]
    /\ arrived' = [arrived EXCEPT ![x] = {}]
    /\ departed' = [departed EXCEPT ![x] = {}]

(* The rows of a complete page. *)
PageRows(x) ==
    {[at |-> offset[x], t |-> t, codes |-> Alarms(t, page[x][t])] : t \in DOMAIN page[x]}

(* Mutated form of AppendPage: a full page is taken for the last one. *)
AppendPageFullIsLast(x) ==
    /\ x \in Run /\ phase[x] = "supplements" /\ got[x] = Supplement
    /\ snapshot' = [snapshot EXCEPT ![x] = @ \cup PageRows(x)]
    /\ IF Cardinality(DOMAIN page[x]) <= PageSize
       THEN Goto(x, "classify") /\ UNCHANGED offset
       ELSE Goto(x, "targets") /\ offset' = [offset EXCEPT ![x] = @ + PageSize]
    /\ ForgetPage(x)
    /\ UNCHANGED <<dbVars, issue, run, audited, view, arrived, departed, faults>>

(* A page shorter than PageSize is the last one. *)
AppendPage(x) ==
    /\ x \in Run /\ phase[x] = "supplements" /\ got[x] = Supplement
    /\ snapshot' = [snapshot EXCEPT ![x] = @ \cup PageRows(x)]
    /\ IF Cardinality(DOMAIN page[x]) < PageSize
       THEN Goto(x, "classify") /\ UNCHANGED offset
       ELSE Goto(x, "targets") /\ offset' = [offset EXCEPT ![x] = @ + PageSize]
    /\ ForgetPage(x)
    /\ UNCHANGED <<dbVars, issue, run, audited, view, arrived, departed, faults>>

(* The loop over the snapshots, and insertIssues.  The transfers 1 .. ripe have
   waited for a submission for 15 minutes by now. *)
InsertIssues(x) ==
    /\ phase[x] = "classify"
    /\ \E ripe \in 0 .. created :
         issue' = [issue EXCEPT ![x] =
           UNION {{<<row.at, row.t, c>> :
                     c \in {d \in row.codes :
                              d = "SOLANA_MANUAL_SUBMISSION_MISSING" => row.t <= ripe}} :
                  row \in snapshot[x]}]
    /\ Goto(x, "complete")
    /\ UNCHANGED <<dbVars, page, got, offset, snapshot, run, audited, view,
                   arrived, departed, faults>>

(* Mutated form of CompleteRun: the insert of the issues is not awaited. *)
CompleteRunEarly(x) ==
    /\ phase[x] = "complete" \/ (phase[x] = "classify" /\ run[x].status = "running")
    /\ run' = [run EXCEPT ![x] =
                 [status |-> "completed", transfers |-> Cardinality(snapshot[x]),
                  issues |-> Cardinality({r \in snapshot[x] : r.codes # {}})]]
    /\ phase' = [phase EXCEPT ![x] = IF @ = "complete" THEN "done" ELSE @]
    /\ UNCHANGED <<dbVars, page, got, offset, snapshot, issue, audited,
                   view, arrived, departed, faults>>

(* The report is written to a file, and completeRun. *)
CompleteRun(x) ==
    /\ phase[x] = "complete"
    /\ run' = [run EXCEPT ![x] = [status |-> "completed", transfers |-> Cardinality(snapshot[x]),
                                  issues |-> Cardinality(issue[x])]]
    /\ Goto(x, IF x \in Triggered THEN "audit" ELSE "done")
    /\ ForgetRun(x)
    /\ UNCHANGED <<dbVars, page, got, issue, audited, view, faults>>

Audit(x) ==
    /\ phase[x] = "audit"
    /\ audited' = audited \cup {x}
    /\ Goto(x, "done")
    /\ UNCHANGED <<dbVars, page, got, offset, snapshot, issue, run,
                   view, arrived, departed, faults>>

(* A query or the write of the file fails and the exception ends the run, or
   the process dies: the row of the run stays as it is. *)
RunFails(x) ==
    /\ faults < MaxFaults
    /\ phase[x] \in Active
    /\ faults' = faults + 1
    /\ Goto(x, "dead")
    /\ ForgetPage(x)
    /\ ForgetRun(x)
    /\ UNCHANGED <<dbVars, issue, run, audited, view>>

(* runRetentionJob, 90 days later: the issues, then the runs, which takes any
   issue left with them (on delete cascade). *)
RetainIssues(x) ==
    /\ phase[x] \in {"done", "dead"} /\ issue[x] # {}
    /\ issue' = [issue EXCEPT ![x] = {}]
    /\ UNCHANGED <<dbVars, readVars, offset, snapshot, run, audited, view, arrived, departed,
                   faults>>

RetainRun(x) ==
    /\ phase[x] \in {"done", "dead"} /\ run[x] # NoRun
    /\ issue' = [issue EXCEPT ![x] = {}]
    /\ run' = [run EXCEPT ![x] = NoRun]
    /\ UNCHANGED <<dbVars, readVars, offset, snapshot, audited, view, arrived, departed,
                   faults>>

-----------------------------------------------------------------------------
(***************************************************************************)
(* What the operators read.                                                *)
(***************************************************************************)

(* GET runs/:runId at core-api, which asks the worker. *)
AskRun(x) ==
    /\ view.step \in {"idle", "shown"}
    /\ view' = [NoView EXCEPT !.run = x, !.step = "asked"]
    /\ UNCHANGED <<dbVars, readVars, runVars, arrived, departed, faults>>

(* The worker: findRunById, with 404 if there is none, then listIssuesByRunId. *)
ViewRun ==
    /\ view.step = "asked"
    /\ view' = IF run[view.run] = NoRun THEN NoView
               ELSE [view EXCEPT !.seen = run[view.run], !.step = "issues"]
    /\ UNCHANGED <<dbVars, readVars, runVars, arrived, departed, faults>>

ViewIssues ==
    /\ view.step = "issues"
    /\ view' = [view EXCEPT !.rows = Cardinality(issue[view.run]), !.step = "shown"]
    /\ UNCHANGED <<dbVars, readVars, runVars, arrived, departed, faults>>

(* GET transfers/:transferId of the operators: the transfer (404 if there is
   none), then its payout and its funding with parallel queries; the answer is
   sent when both are there. *)
ReadDetail(d, t) ==
    /\ d \in Detail \ Own /\ phase[d] = "idle" /\ t <= created
    /\ ReadRows(d, {t}, {"funding", "payout"})
    /\ UNCHANGED <<dbVars, runVars, view, arrived, departed, faults>>

(* The same for customers and their own transfers, with the latest submission. *)
ReadOwnDetail(d, t) ==
    /\ d \in Own /\ phase[d] = "idle" /\ t <= created
    /\ ReadRows(d, {t}, Supplement)
    /\ UNCHANGED <<dbVars, runVars, view, arrived, departed, faults>>

-----------------------------------------------------------------------------
Environment ==
    \/ CreateTransfer \/ AgeOut
    \/ \E t \in Transfer :
          \/ Submit(t) \/ ConfirmFunding(t) \/ InsertInstruction(t)
          \/ MarkInitiated(t) \/ MarkReviewRequired(t)
          \/ \E s \in {"PAYOUT_COMPLETED", "PAYOUT_FAILED"} : Conclude(t, s)

(* The steps of a run that the event loop of its process takes. *)
Proceed(x) ==
    \/ StartRun(x) \/ ReadTargets(x) \/ AppendPage(x)
    \/ \E q \in Supplement : ReadSupplement(x, q)
    \/ InsertIssues(x) \/ CompleteRun(x) \/ Audit(x)

ReconcileNext ==
    \/ Environment
    \/ \E x \in Run : Trigger(x) \/ Tick(x) \/ Proceed(x) \/ RunFails(x)
                      \/ RetainIssues(x) \/ RetainRun(x)
    \/ \E d \in Detail, q \in Supplement : ReadSupplement(d, q)
    \/ \E d \in Detail, t \in Transfer : ReadDetail(d, t) \/ ReadOwnDetail(d, t)
    \/ \E x \in Run : AskRun(x)
    \/ ViewRun \/ ViewIssues

ReconcileSpec == ReconcileInit /\ [][ReconcileNext]_reconcileVars

-----------------------------------------------------------------------------
(***************************************************************************)
(* Properties                                                              *)
(***************************************************************************)
PageRead(x) == phase[x] = "supplements" /\ got[x] = Supplement

(* No run, and no detail shown to an operator or a customer, has a transfer
   past its funding without a funding event, or with an initiated payout and no
   instruction, however the queries interleave with the services: the alarms
   for a broken database are never given by a torn read. *)
NoTornAlarm ==
    \A x \in Reader : PageRead(x) =>
        \A t \in DOMAIN page[x] :
            Alarms(t, page[x][t]) \cap {"MISSING_FUNDING_EVENT", "MISSING_PAYOUT_RECORD"} = {}

(* Paging by offset over a table that moves (repository.ts:91-93): a run
   misses no more of the transfers that were in its scope all the time than
   left its scope while it ran, and reads no more of them twice than were
   created meanwhile.  In particular it examines every transfer once when
   nothing entered or left. *)
PagesCoverScope ==
    \A x \in Run : phase[x] \in Reported =>
        LET examined == {r.t : r \in snapshot[x]}
            missed == {t \in Transfer : InScope(t) /\ t \notin arrived[x] /\ t \notin examined}
        IN /\ Cardinality(missed) <= Cardinality(departed[x])
           /\ Cardinality(snapshot[x]) <= Cardinality(examined) + Cardinality(arrived[x])

(* An operator who is shown a completed run is shown all its issues, as many
   as its total says, although the run and the issues are read by two queries
   while the run may be finishing: until retention deletes the run. *)
ViewComplete ==
    view.step = "shown" /\ view.seen.status = "completed" /\ run[view.run] # NoRun
        => view.rows = view.seen.issues \/ issue[view.run] = {}

(* docs/OPERATIONS_RECONCILIATION.md:22: "`PAYOUT_STATUS_MISMATCH`: transfer
   status and payout instruction status conflict": no run, which is what raises
   the alarms, gives that one for a row whose two statuses it read equal. *)
MismatchMeansConflict ==
    \A x \in Run : PageRead(x) =>
        \A t \in DOMAIN page[x] :
            "PAYOUT_STATUS_MISMATCH" \in Alarms(t, page[x][t])
                => page[x][t].payout # page[x][t].status
=============================================================================
