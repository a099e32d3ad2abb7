--------------------------- MODULE WatcherProofs ---------------------------
(***************************************************************************)
(* Proofs of the safety properties of Watcher, for any number of runners,  *)
(* deposits, blocks and faults.                                            *)
(***************************************************************************)
EXTENDS Watcher, TLAPS

(* What a runner's poll in progress knows.  Every deposit up to `from' is
   accounted for; so is every deposit up to `to' that is not in the queue, once
   the scan is over, and the queue is empty before a scan and when the cursor is
   saved. *)
Accounted(d) == d \in reported \cup dropped

BehindFrom(w) ==
    \A d \in Deposit \ Foreign : block[d] \in 1 .. runner[w].from => Accounted(d)

Scanned(w) ==
    runner[w].step \in {"next", "publish", "mark", "save", "reload"} =>
        \A d \in Deposit \ Foreign :
            block[d] \in 1 .. runner[w].to => Accounted(d) \/ d \in runner[w].queue

QueueFinal(w) ==
    \A d \in runner[w].queue : Final(d) /\ d \in Foreign \cup routed

AtCandidate(w) ==
    /\ runner[w].step \in {"publish", "mark"} => runner[w].at \in runner[w].queue
    /\ runner[w].step = "mark" => runner[w].at \in reported
    /\ runner[w].step \in {"idle", "scan", "save", "reload"} => runner[w].queue = {}

RunnerInv(w) == BehindFrom(w) /\ Scanned(w) /\ QueueFinal(w) /\ AtCandidate(w)

(* Nothing is paid to an address before it is handed out. *)
RoutedFirst == \A d \in Deposit \ Foreign : block[d] # 0 => d \in routed

Inv ==
    /\ TypeOK
    /\ RoutedFirst
    /\ CursorSafe
    /\ ReportsFinal
    /\ \A w \in Runner : RunnerInv(w)

RunnerType ==
    [step : Step, from : 0 .. head, to : 0 .. head,
     queue : SUBSET Deposit, at : Deposit \cup {NoDeposit}, initial : BOOLEAN]

(* Nothing has happened yet. *)
LEMMA InitInv == Init => Inv
<1> SUFFICES ASSUME Init PROVE Inv
    OBVIOUS
<1> USE WatcherAssumption
<1>1. TypeOK
  BY DEF Init, TypeOK, Step
<1>2. RoutedFirst /\ CursorSafe /\ ReportsFinal
  BY DEF Init, RoutedFirst, CursorSafe, ReportsFinal
<1>3. \A w \in Runner : RunnerInv(w)
  BY DEF Init, RunnerInv, BehindFrom, Scanned, QueueFinal, AtCandidate
<1> QED
  BY <1>1, <1>2, <1>3 DEF Inv

(* A step of the chain, of core-api or of retention, which no runner sees:
   nothing behind head moves, and nothing is forgotten. *)
LEMMA OutsideInv ==
  ASSUME Inv,
         \/ \E d \in Deposit : OpenRoute(d) \/ Mine(d) \/ Purge(d)
         \/ NextBlock
  PROVE  Inv'
<1> USE WatcherAssumption
<1>1. UNCHANGED <<cursor, seen, reported, dropped, runner>>
  BY DEF OpenRoute, Mine, Purge, NextBlock, chainVars, storeVars
<1>2. TypeOK'
  BY DEF Inv, TypeOK, OpenRoute, Mine, Purge, NextBlock, chainVars, storeVars,
         Step
<1>3. /\ head' \in Nat /\ head <= head' /\ routed \subseteq routed'
      /\ \A d \in Deposit : block'[d] = block[d] \/ block'[d] > head
      /\ \A d \in Deposit : block[d] # 0 => block'[d] = block[d]
  BY DEF Inv, TypeOK, OpenRoute, Mine, Purge, NextBlock, chainVars, storeVars
<1>4. RoutedFirst'
  BY DEF Inv, TypeOK, RoutedFirst, OpenRoute, Mine, Purge, NextBlock,
         chainVars, storeVars
<1>5. CursorSafe'
  BY <1>1, <1>3 DEF Inv, TypeOK, CursorSafe
<1>6. ReportsFinal'
  BY <1>1, <1>3 DEF Inv, TypeOK, ReportsFinal, Final
<1>7. ASSUME NEW w \in Runner PROVE RunnerInv(w)'
  <2>1. RunnerInv(w) /\ runner[w] \in RunnerType
    BY DEF Inv, TypeOK, RunnerType
  <2>2. BehindFrom(w)' /\ Scanned(w)'
    BY <1>1, <1>3, <2>1
    DEF RunnerInv, RunnerType, BehindFrom, Scanned, Accounted, Inv, TypeOK
  <2>3. QueueFinal(w)' /\ AtCandidate(w)'
    BY <1>1, <1>3, <2>1
    DEF RunnerInv, RunnerType, QueueFinal, AtCandidate, Final, Inv, TypeOK
  <2> QED
    BY <2>2, <2>3 DEF RunnerInv
<1> QED
  BY <1>2, <1>4, <1>5, <1>6, <1>7 DEF Inv

(* A step of runner w that forgets nothing keeps what the others know; what is
   left is about the types, the cursor, the reports and w itself. *)
LEMMA RunnerStep ==
  ASSUME Inv, NEW w \in Runner,
         UNCHANGED chainVars,
         reported \subseteq reported', dropped \subseteq dropped',
         reported' \subseteq Deposit, dropped' \subseteq Deposit,
         stuck' \subseteq Deposit,
         cursor' \in 0 .. head, faults' \in 0 .. MaxFaults,
         runner' = [runner EXCEPT ![w] = runner'[w]],
         runner'[w] \in RunnerType,
         CursorSafe', ReportsFinal', RunnerInv(w)'
  PROVE  Inv'
<1>1. RoutedFirst'
  BY DEF Inv, RoutedFirst, chainVars
<1>2. runner \in [Runner -> RunnerType] /\ runner' \in [Runner -> RunnerType]
  <2>1. runner \in [Runner -> RunnerType]
    BY DEF Inv, TypeOK, RunnerType
  <2> QED
    BY <2>1
<1>3. TypeOK'
  BY <1>2 DEF Inv, TypeOK, RunnerType, ReportsFinal, chainVars
<1>4. ASSUME NEW v \in Runner \ {w} PROVE RunnerInv(v)'
  <2>1. RunnerInv(v) /\ runner'[v] = runner[v]
    BY <1>2 DEF Inv
  <2>2. BehindFrom(v)' /\ Scanned(v)'
    BY <2>1 DEF RunnerInv, BehindFrom, Scanned, Accounted, chainVars
  <2>3. QueueFinal(v)' /\ AtCandidate(v)'
    BY <2>1 DEF RunnerInv, QueueFinal, AtCandidate, Final, chainVars
  <2> QED
    BY <2>2, <2>3 DEF RunnerInv
<1> QED
  BY <1>1, <1>3, <1>4 DEF Inv

(* The cursor it starts from is safe, so is what it saves when there is
   nothing to scan. *)
LEMMA ReadHeadInv == ASSUME Inv, NEW w \in Runner, ReadHead(w) PROVE Inv'
<1> USE WatcherAssumption
<1>1. runner \in [Runner -> RunnerType] /\ RunnerInv(w)
  BY DEF Inv, TypeOK, RunnerType
<1>2. runner' = [runner EXCEPT ![w] = runner'[w]] /\ runner'[w] \in RunnerType
  <2>1. CASE head <= runner[w].from
    BY <1>1, <2>1 DEF ReadHead, At, RunnerType, Step
  <2>2. CASE ~(head <= runner[w].from)
    <3> DEFINE to == IF head - runner[w].from > Span THEN runner[w].from + Span
                                                     ELSE head
    <3>1. head \in Nat /\ runner[w].from \in Nat
      BY <1>1 DEF RunnerType, Inv, TypeOK
    <3>2. to \in 0 .. head
      BY <2>2, <3>1
    <3>3. runner' = [runner EXCEPT ![w] = [@ EXCEPT !.step = "scan", !.to = to]]
      BY <2>2 DEF ReadHead
    <3> HIDE DEF to
    <3> QED
      BY <1>1, <3>2, <3>3 DEF RunnerType, Step
  <2> QED
    BY <2>1, <2>2
<1>3. RunnerInv(w)'
  <2>1. /\ runner'[w].from = runner[w].from /\ runner'[w].queue = {}
        /\ \/ runner'[w].step = "save" /\ runner'[w].to = runner[w].from
           \/ runner'[w].step = "scan"
    BY <1>1 DEF ReadHead, At, RunnerType, RunnerInv, AtCandidate
  <2> QED
    BY <1>1, <2>1 DEF
      ReadHead, At, chainVars, storeVars, RunnerInv, BehindFrom, Scanned,
      QueueFinal, AtCandidate, Accounted, Final
<1>4. CursorSafe' /\ ReportsFinal'
  BY <1>1 DEF ReadHead, At, chainVars, storeVars, RunnerType, RunnerInv,
    BehindFrom,
    Scanned, QueueFinal, AtCandidate, Accounted, Final, Inv, TypeOK,
    CursorSafe, ReportsFinal
<1>5. /\ UNCHANGED chainVars
      /\ reported \subseteq reported' /\ dropped \subseteq dropped'
      /\ reported' \subseteq Deposit /\ dropped' \subseteq Deposit
      /\ stuck' \subseteq Deposit
      /\ cursor' \in 0 .. head /\ faults' \in 0 .. MaxFaults
  BY <1>1 DEF ReadHead, At, chainVars, storeVars, RunnerType, RunnerInv,
    AtCandidate,
    Inv, TypeOK
<1> QED
  BY <1>2, <1>3, <1>4, <1>5, RunnerStep

(* What is in the range of the scan is in the queue or dropped, because a
   deposit is paid after its route exists. *)
LEMMA ScanInv == ASSUME Inv, NEW w \in Runner, Scan(w) PROVE Inv'
<1> USE WatcherAssumption
<1>1. runner \in [Runner -> RunnerType] /\ RunnerInv(w)
  BY DEF Inv, TypeOK, RunnerType
<1>2. PICK F \in {{}, Foreign}, D \in SUBSET routed :
        /\ dropped' = dropped \cup D
        /\ runner' = [runner EXCEPT ![w] =
             [@ EXCEPT !.step = "next",
                       !.queue = {d \in routed \cup F : InRange(w, d)} \ D]]
  BY <1>1 DEF Scan, Logs, GetLogs
<1> DEFINE queue == {d \in routed \cup F : InRange(w, d)} \ D
<1>6. queue \subseteq Deposit
  BY DEF Inv, TypeOK
<1>7. runner' = [runner EXCEPT ![w] = [@ EXCEPT !.step = "next", !.queue = queue]]
  BY <1>2
<1>8. /\ runner'[w].from = runner[w].from /\ runner'[w].to = runner[w].to
      /\ runner'[w].queue = queue /\ runner'[w].step = "next"
      /\ UNCHANGED <<chainVars, storeVars>>
  <2>1. UNCHANGED <<chainVars, storeVars>>
    BY DEF Scan
  <2> HIDE DEF queue
  <2> QED
    BY <1>1, <1>7, <2>1 DEF RunnerType
<1>9. runner' = [runner EXCEPT ![w] = runner'[w]] /\ runner'[w] \in RunnerType
  <2> HIDE DEF queue
  <2> QED
    BY <1>1, <1>6, <1>7 DEF RunnerType, Step
<1>3. RunnerInv(w)'
  <2>1. BehindFrom(w)'
    BY <1>1, <1>2, <1>8 DEF RunnerInv, BehindFrom, Accounted, chainVars, storeVars
  <2>2. runner[w].from \in 0 .. head /\ runner[w].to \in 0 .. head /\ head \in Nat
    BY <1>1 DEF RunnerType, Inv, TypeOK
  <2>3. \A d \in Deposit : block[d] \in Nat
    BY DEF Inv, TypeOK
  <2>4. Scanned(w)'
    <3> SUFFICES ASSUME NEW d \in Deposit \ Foreign, block[d] \in 1 .. runner[w].to
                 PROVE  d \in reported \cup dropped \cup D \cup queue
      BY <1>2, <1>8 DEF Scanned, Accounted, chainVars, storeVars
    <3>1. CASE block[d] \in 1 .. runner[w].from
      BY <1>1, <3>1 DEF RunnerInv, BehindFrom, Accounted
    <3>2. CASE block[d] \in runner[w].from + 1 .. runner[w].to
      <4>1. d \in routed
        BY <2>2, <2>3, <3>2 DEF Inv, RoutedFirst
      <4> QED
        BY <3>2, <4>1 DEF InRange
    <3> QED
      BY <2>2, <2>3, <3>1, <3>2
  <2>5. QueueFinal(w)'
    BY <1>2, <1>8, <2>2, <2>3, WatcherAssumption
    DEF QueueFinal, Final, InRange, chainVars
  <2>6. AtCandidate(w)'
    BY <1>8 DEF AtCandidate
  <2> QED
    BY <2>1, <2>4, <2>5, <2>6 DEF RunnerInv
<1>4. CursorSafe' /\ ReportsFinal'
  BY <1>1 DEF Scan, At, chainVars, storeVars, RunnerType, RunnerInv, BehindFrom,
    Scanned, QueueFinal, AtCandidate, Accounted, Final, Inv, TypeOK,
    CursorSafe, ReportsFinal
<1>5. /\ UNCHANGED chainVars
      /\ reported \subseteq reported' /\ dropped \subseteq dropped'
      /\ reported' \subseteq Deposit /\ dropped' \subseteq Deposit
      /\ stuck' \subseteq Deposit
      /\ cursor' \in 0 .. head /\ faults' \in 0 .. MaxFaults
  BY <1>1 DEF Scan, At, chainVars, storeVars, RunnerType, RunnerInv,
    AtCandidate, Inv,
    TypeOK
<1> QED
  BY <1>9, <1>3, <1>4, <1>5, RunnerStep

(* What leaves the queue unreported has been seen, and so reported. *)
LEMMA CheckInv == ASSUME Inv, NEW w \in Runner, Check(w) PROVE Inv'
<1> USE WatcherAssumption
<1>1. runner \in [Runner -> RunnerType] /\ RunnerInv(w)
  BY DEF Inv, TypeOK, RunnerType
<1>2. PICK d \in runner[w].queue :
        \/ d \in seen /\ runner' = [runner EXCEPT ![w].queue = @ \ {d}]
        \/ runner' = [runner EXCEPT ![w].step = "publish", ![w].at = d]
  BY DEF Check
<1>6. d \in Deposit /\ runner[w].step = "next"
  BY <1>1 DEF RunnerType, Check, At
<1>8. d \in seen => d \in reported
  BY DEF Inv, ReportsFinal
<1>9. runner' = [runner EXCEPT ![w] = runner'[w]] /\ runner'[w] \in RunnerType
  BY <1>1, <1>2, <1>6 DEF RunnerType, Step
<1>10. /\ runner'[w].from = runner[w].from /\ runner'[w].to = runner[w].to
       /\ \/ d \in reported /\ runner'[w].step = "next"
             /\ runner'[w].queue = runner[w].queue \ {d}
          \/ /\ runner'[w].step = "publish" /\ runner'[w].at = d
             /\ runner'[w].queue = runner[w].queue
  BY <1>1, <1>2, <1>6, <1>8 DEF RunnerType
<1>3. RunnerInv(w)'
  BY <1>1, <1>2, <1>6, <1>10
  DEF Check, RunnerInv, BehindFrom, Scanned, QueueFinal, AtCandidate, Accounted,
      Final, chainVars, storeVars
<1>4. CursorSafe' /\ ReportsFinal'
  BY <1>1 DEF Check, At, chainVars, storeVars, RunnerType, RunnerInv, BehindFrom,
    Scanned, QueueFinal, AtCandidate, Accounted, Final, Inv, TypeOK,
    CursorSafe, ReportsFinal
<1>5. /\ UNCHANGED chainVars
      /\ reported \subseteq reported' /\ dropped \subseteq dropped'
      /\ reported' \subseteq Deposit /\ dropped' \subseteq Deposit
      /\ stuck' \subseteq Deposit
      /\ cursor' \in 0 .. head /\ faults' \in 0 .. MaxFaults
  BY <1>1 DEF Check, At, chainVars, storeVars, RunnerType, RunnerInv,
    AtCandidate, Inv,
    TypeOK
<1> QED
  BY <1>9, <1>3, <1>4, <1>5, RunnerStep

(* The queue is empty: everything up to `to' is accounted for. *)
LEMMA CompleteInv == ASSUME Inv, NEW w \in Runner, Complete(w) PROVE Inv'
<1> USE WatcherAssumption
<1>1. runner \in [Runner -> RunnerType] /\ RunnerInv(w)
  BY DEF Inv, TypeOK, RunnerType
<1>2. runner' = [runner EXCEPT ![w] = runner'[w]] /\ runner'[w] \in RunnerType
  BY <1>1 DEF Complete, At, Goto, chainVars, storeVars, RunnerType, Step,
    RunnerInv,
    AtCandidate
<1>3. RunnerInv(w)'
  BY <1>1 DEF Complete, At, Goto, chainVars, storeVars, RunnerType, RunnerInv,
    BehindFrom, Scanned, QueueFinal, AtCandidate, Accounted, Final, Inv,
    TypeOK, CursorSafe, ReportsFinal
<1>4. CursorSafe' /\ ReportsFinal'
  BY <1>1 DEF Complete, At, Goto, chainVars, storeVars, RunnerType, RunnerInv,
    BehindFrom, Scanned, QueueFinal, AtCandidate, Accounted, Final, Inv,
    TypeOK, CursorSafe, ReportsFinal
<1>5. /\ UNCHANGED chainVars
      /\ reported \subseteq reported' /\ dropped \subseteq dropped'
      /\ reported' \subseteq Deposit /\ dropped' \subseteq Deposit
      /\ stuck' \subseteq Deposit
      /\ cursor' \in 0 .. head /\ faults' \in 0 .. MaxFaults
  BY <1>1 DEF Complete, At, Goto, chainVars, storeVars, RunnerType, RunnerInv,
    AtCandidate, Inv, TypeOK
<1> QED
  BY <1>2, <1>3, <1>4, <1>5, RunnerStep

(* Only a foreign deposit leaves the queue unreported. *)
LEMMA RouteNotFoundInv == ASSUME Inv, NEW w \in Runner, RouteNotFound(w) PROVE Inv'
<1> USE WatcherAssumption
<1>1. runner \in [Runner -> RunnerType] /\ RunnerInv(w)
  BY DEF Inv, TypeOK, RunnerType
<1>2. runner' = [runner EXCEPT ![w] = runner'[w]] /\ runner'[w] \in RunnerType
  BY <1>1 DEF RouteNotFound, At, Done, chainVars, storeVars, RunnerType, Step,
    RunnerInv, AtCandidate
<1>3. RunnerInv(w)'
  BY <1>1 DEF RouteNotFound, At, Done, chainVars, storeVars, RunnerType,
    RunnerInv,
    BehindFrom, Scanned, QueueFinal, AtCandidate, Accounted, Final, Inv,
    TypeOK, CursorSafe, ReportsFinal
<1>4. CursorSafe' /\ ReportsFinal'
  BY <1>1 DEF RouteNotFound, At, Done, chainVars, storeVars, RunnerType,
    RunnerInv,
    BehindFrom, Scanned, QueueFinal, AtCandidate, Accounted, Final, Inv,
    TypeOK, CursorSafe, ReportsFinal
<1>5. /\ UNCHANGED chainVars
      /\ reported \subseteq reported' /\ dropped \subseteq dropped'
      /\ reported' \subseteq Deposit /\ dropped' \subseteq Deposit
      /\ stuck' \subseteq Deposit
      /\ cursor' \in 0 .. head /\ faults' \in 0 .. MaxFaults
  BY <1>1 DEF RouteNotFound, At, Done, chainVars, storeVars, RunnerType,
    RunnerInv,
    AtCandidate, Inv, TypeOK
<1> QED
  BY <1>2, <1>3, <1>4, <1>5, RunnerStep

(* The poll is forgotten, and the cursor stays. *)
LEMMA RefuseInv == ASSUME Inv, NEW w \in Runner, Refuse(w) PROVE Inv'
<1> USE WatcherAssumption
<1>1. runner \in [Runner -> RunnerType] /\ RunnerInv(w)
  BY DEF Inv, TypeOK, RunnerType
<1>2. runner' = [runner EXCEPT ![w] = runner'[w]] /\ runner'[w] \in RunnerType
  BY <1>1 DEF Refuse, At, Failed, chainVars, storeVars, RunnerType, Step,
    RunnerInv,
    AtCandidate
<1>3. RunnerInv(w)'
  BY <1>1 DEF Refuse, At, Failed, chainVars, storeVars, RunnerType, RunnerInv,
    BehindFrom, Scanned, QueueFinal, AtCandidate, Accounted, Final, Inv,
    TypeOK, CursorSafe, ReportsFinal
<1>4. CursorSafe' /\ ReportsFinal'
  BY <1>1 DEF Refuse, At, Failed, chainVars, storeVars, RunnerType, RunnerInv,
    BehindFrom, Scanned, QueueFinal, AtCandidate, Accounted, Final, Inv,
    TypeOK, CursorSafe, ReportsFinal
<1>5. /\ UNCHANGED chainVars
      /\ reported \subseteq reported' /\ dropped \subseteq dropped'
      /\ reported' \subseteq Deposit /\ dropped' \subseteq Deposit
      /\ stuck' \subseteq Deposit
      /\ cursor' \in 0 .. head /\ faults' \in 0 .. MaxFaults
  BY <1>1 DEF Refuse, At, Failed, chainVars, storeVars, RunnerType, RunnerInv,
    AtCandidate, Inv, TypeOK
<1> QED
  BY <1>2, <1>3, <1>4, <1>5, RunnerStep

(* The deposit reported comes from the queue, which holds final ones. *)
LEMMA DeliverInv == ASSUME Inv, NEW w \in Runner, Deliver(w) PROVE Inv'
<1> USE WatcherAssumption
<1>1. runner \in [Runner -> RunnerType] /\ RunnerInv(w)
  BY DEF Inv, TypeOK, RunnerType
<1>2. runner' = [runner EXCEPT ![w] = runner'[w]] /\ runner'[w] \in RunnerType
  BY <1>1 DEF Deliver, At, Goto, chainVars, storeVars, RunnerType, Step,
    RunnerInv,
    AtCandidate
<1>3. RunnerInv(w)'
  BY <1>1 DEF Deliver, At, Goto, chainVars, storeVars, RunnerType, RunnerInv,
    BehindFrom, Scanned, QueueFinal, AtCandidate, Accounted, Final, Inv,
    TypeOK, CursorSafe, ReportsFinal
<1>4. CursorSafe' /\ ReportsFinal'
  BY <1>1 DEF Deliver, At, Goto, chainVars, storeVars, RunnerType, RunnerInv,
    BehindFrom, Scanned, QueueFinal, AtCandidate, Accounted, Final, Inv,
    TypeOK, CursorSafe, ReportsFinal
<1>5. /\ UNCHANGED chainVars
      /\ reported \subseteq reported' /\ dropped \subseteq dropped'
      /\ reported' \subseteq Deposit /\ dropped' \subseteq Deposit
      /\ stuck' \subseteq Deposit
      /\ cursor' \in 0 .. head /\ faults' \in 0 .. MaxFaults
  BY <1>1 DEF Deliver, At, Goto, chainVars, storeVars, RunnerType, RunnerInv,
    AtCandidate, Inv, TypeOK
<1> QED
  BY <1>2, <1>3, <1>4, <1>5, RunnerStep

(* As Deliver, or nothing is reported; the poll is forgotten. *)
LEMMA DeliverFailsInv == ASSUME Inv, NEW w \in Runner, DeliverFails(w) PROVE Inv'
<1> USE WatcherAssumption
<1>1. runner \in [Runner -> RunnerType] /\ RunnerInv(w)
  BY DEF Inv, TypeOK, RunnerType
<1>2. runner' = [runner EXCEPT ![w] = runner'[w]] /\ runner'[w] \in RunnerType
  BY <1>1 DEF DeliverFails, At, Failed, chainVars, storeVars, RunnerType, Step,
    RunnerInv, AtCandidate
<1>3. RunnerInv(w)'
  BY <1>1 DEF DeliverFails, At, Failed, chainVars, storeVars, RunnerType,
    RunnerInv,
    BehindFrom, Scanned, QueueFinal, AtCandidate, Accounted, Final, Inv,
    TypeOK, CursorSafe, ReportsFinal
<1>4. CursorSafe' /\ ReportsFinal'
  BY <1>1 DEF DeliverFails, At, Failed, chainVars, storeVars, RunnerType,
    RunnerInv,
    BehindFrom, Scanned, QueueFinal, AtCandidate, Accounted, Final, Inv,
    TypeOK, CursorSafe, ReportsFinal
<1>5. /\ UNCHANGED chainVars
      /\ reported \subseteq reported' /\ dropped \subseteq dropped'
      /\ reported' \subseteq Deposit /\ dropped' \subseteq Deposit
      /\ stuck' \subseteq Deposit
      /\ cursor' \in 0 .. head /\ faults' \in 0 .. MaxFaults
  BY <1>1 DEF DeliverFails, At, Failed, chainVars, storeVars, RunnerType,
    RunnerInv,
    AtCandidate, Inv, TypeOK
<1> QED
  BY <1>2, <1>3, <1>4, <1>5, RunnerStep

(* The candidate that leaves the queue has been reported. *)
LEMMA MarkInv == ASSUME Inv, NEW w \in Runner, Mark(w) PROVE Inv'
<1> USE WatcherAssumption
<1>1. runner \in [Runner -> RunnerType] /\ RunnerInv(w)
  BY DEF Inv, TypeOK, RunnerType
<1>2. runner' = [runner EXCEPT ![w] = runner'[w]] /\ runner'[w] \in RunnerType
  BY <1>1 DEF Mark, At, Done, chainVars, storeVars, RunnerType, Step, RunnerInv,
    AtCandidate
<1>3. RunnerInv(w)'
  BY <1>1 DEF Mark, At, Done, chainVars, storeVars, RunnerType, RunnerInv,
    BehindFrom,
    Scanned, QueueFinal, AtCandidate, Accounted, Final, Inv, TypeOK,
    CursorSafe, ReportsFinal
<1>4. CursorSafe' /\ ReportsFinal'
  BY <1>1 DEF Mark, At, Done, chainVars, storeVars, RunnerType, RunnerInv,
    BehindFrom,
    Scanned, QueueFinal, AtCandidate, Accounted, Final, Inv, TypeOK,
    CursorSafe, ReportsFinal
<1>5. /\ UNCHANGED chainVars
      /\ reported \subseteq reported' /\ dropped \subseteq dropped'
      /\ reported' \subseteq Deposit /\ dropped' \subseteq Deposit
      /\ stuck' \subseteq Deposit
      /\ cursor' \in 0 .. head /\ faults' \in 0 .. MaxFaults
  BY <1>1 DEF Mark, At, Done, chainVars, storeVars, RunnerType, RunnerInv,
    AtCandidate,
    Inv, TypeOK
<1> QED
  BY <1>2, <1>3, <1>4, <1>5, RunnerStep

(* The queue is empty, so that `to' is a safe cursor. *)
LEMMA SaveInv == ASSUME Inv, NEW w \in Runner, Save(w) PROVE Inv'
<1> USE WatcherAssumption
<1>1. runner \in [Runner -> RunnerType] /\ RunnerInv(w)
  BY DEF Inv, TypeOK, RunnerType
<1>2. runner' = [runner EXCEPT ![w] = runner'[w]] /\ runner'[w] \in RunnerType
  BY <1>1 DEF Save, At, chainVars, storeVars, RunnerType, Step, RunnerInv,
    AtCandidate
<1>3. RunnerInv(w)'
  BY <1>1 DEF Save, At, chainVars, storeVars, RunnerType, RunnerInv, BehindFrom,
    Scanned, QueueFinal, AtCandidate, Accounted, Final, Inv, TypeOK,
    CursorSafe, ReportsFinal
<1>4. CursorSafe' /\ ReportsFinal'
  BY <1>1 DEF Save, At, chainVars, storeVars, RunnerType, RunnerInv, BehindFrom,
    Scanned, QueueFinal, AtCandidate, Accounted, Final, Inv, TypeOK,
    CursorSafe, ReportsFinal
<1>5. /\ UNCHANGED chainVars
      /\ reported \subseteq reported' /\ dropped \subseteq dropped'
      /\ reported' \subseteq Deposit /\ dropped' \subseteq Deposit
      /\ stuck' \subseteq Deposit
      /\ cursor' \in 0 .. head /\ faults' \in 0 .. MaxFaults
  BY <1>1 DEF Save, At, chainVars, storeVars, RunnerType, RunnerInv,
    AtCandidate, Inv,
    TypeOK
<1> QED
  BY <1>2, <1>3, <1>4, <1>5, RunnerStep

(* The next poll starts from a safe cursor, whoever wrote it. *)
LEMMA ReloadInv == ASSUME Inv, NEW w \in Runner, Reload(w) PROVE Inv'
<1> USE WatcherAssumption
<1>1. runner \in [Runner -> RunnerType] /\ RunnerInv(w)
  BY DEF Inv, TypeOK, RunnerType
<1>2. runner' = [runner EXCEPT ![w] = runner'[w]] /\ runner'[w] \in RunnerType
  <2>1. cursor \in 0 .. head
    BY DEF Inv, TypeOK
  <2>2. runner' = [runner EXCEPT ![w].step = "idle", ![w].from = cursor]
    BY DEF Reload
  <2> QED BY <1>1, <2>1, <2>2 DEF RunnerType, Step
<1>3. RunnerInv(w)'
  BY <1>1 DEF Reload, At, chainVars, storeVars, RunnerType, RunnerInv, BehindFrom,
    Scanned, QueueFinal, AtCandidate, Accounted, Final, Inv, TypeOK,
    CursorSafe, ReportsFinal
<1>4. CursorSafe' /\ ReportsFinal'
  BY <1>1 DEF Reload, At, chainVars, storeVars, RunnerType, RunnerInv, BehindFrom,
    Scanned, QueueFinal, AtCandidate, Accounted, Final, Inv, TypeOK,
    CursorSafe, ReportsFinal
<1>5. /\ UNCHANGED chainVars
      /\ reported \subseteq reported' /\ dropped \subseteq dropped'
      /\ reported' \subseteq Deposit /\ dropped' \subseteq Deposit
      /\ stuck' \subseteq Deposit
      /\ cursor' \in 0 .. head /\ faults' \in 0 .. MaxFaults
  BY <1>1 DEF Reload, At, chainVars, storeVars, RunnerType, RunnerInv,
    AtCandidate, Inv,
    TypeOK
<1> QED
  BY <1>2, <1>3, <1>4, <1>5, RunnerStep

(* Nothing but the poll is given up. *)
LEMMA RpcFailsInv == ASSUME Inv, NEW w \in Runner, RpcFails(w) PROVE Inv'
<1> USE WatcherAssumption
<1>1. runner \in [Runner -> RunnerType] /\ RunnerInv(w)
  BY DEF Inv, TypeOK, RunnerType
<1>2. runner' = [runner EXCEPT ![w] = runner'[w]] /\ runner'[w] \in RunnerType
  BY <1>1 DEF RpcFails, At, Failed, chainVars, storeVars, RunnerType, Step,
    RunnerInv,
    AtCandidate
<1>3. RunnerInv(w)'
  BY <1>1 DEF RpcFails, At, Failed, chainVars, storeVars, RunnerType, RunnerInv,
    BehindFrom, Scanned, QueueFinal, AtCandidate, Accounted, Final, Inv,
    TypeOK, CursorSafe, ReportsFinal
<1>4. CursorSafe' /\ ReportsFinal'
  BY <1>1 DEF RpcFails, At, Failed, chainVars, storeVars, RunnerType, RunnerInv,
    BehindFrom, Scanned, QueueFinal, AtCandidate, Accounted, Final, Inv,
    TypeOK, CursorSafe, ReportsFinal
<1>5. /\ UNCHANGED chainVars
      /\ reported \subseteq reported' /\ dropped \subseteq dropped'
      /\ reported' \subseteq Deposit /\ dropped' \subseteq Deposit
      /\ stuck' \subseteq Deposit
      /\ cursor' \in 0 .. head /\ faults' \in 0 .. MaxFaults
  BY <1>1 DEF RpcFails, At, Failed, chainVars, storeVars, RunnerType, RunnerInv,
    AtCandidate, Inv, TypeOK
<1> QED
  BY <1>2, <1>3, <1>4, <1>5, RunnerStep

(* A save that took effect wrote a safe cursor. *)
LEMMA StoreFailsInv == ASSUME Inv, NEW w \in Runner, StoreFails(w) PROVE Inv'
<1> USE WatcherAssumption
<1>1. runner \in [Runner -> RunnerType] /\ RunnerInv(w)
  BY DEF Inv, TypeOK, RunnerType
<1>2. runner' = [runner EXCEPT ![w] = runner'[w]] /\ runner'[w] \in RunnerType
  BY <1>1 DEF StoreFails, Failed, chainVars, storeVars, RunnerType, Step,
    RunnerInv,
    AtCandidate
<1>3. RunnerInv(w)'
  BY <1>1 DEF StoreFails, Failed, chainVars, storeVars, RunnerType, RunnerInv,
    BehindFrom, Scanned, QueueFinal, AtCandidate, Accounted, Final, Inv,
    TypeOK, CursorSafe, ReportsFinal
<1>4. CursorSafe' /\ ReportsFinal'
  BY <1>1 DEF StoreFails, Failed, chainVars, storeVars, RunnerType, RunnerInv,
    BehindFrom, Scanned, QueueFinal, AtCandidate, Accounted, Final, Inv,
    TypeOK, CursorSafe, ReportsFinal
<1>5. /\ UNCHANGED chainVars
      /\ reported \subseteq reported' /\ dropped \subseteq dropped'
      /\ reported' \subseteq Deposit /\ dropped' \subseteq Deposit
      /\ stuck' \subseteq Deposit
      /\ cursor' \in 0 .. head /\ faults' \in 0 .. MaxFaults
  BY <1>1 DEF StoreFails, Failed, chainVars, storeVars, RunnerType, RunnerInv,
    AtCandidate, Inv, TypeOK
<1> QED
  BY <1>2, <1>3, <1>4, <1>5, RunnerStep

(* The successor starts from a safe cursor. *)
LEMMA RestartInv == ASSUME Inv, NEW w \in Runner, Restart(w) PROVE Inv'
<1> USE WatcherAssumption
<1>1. runner \in [Runner -> RunnerType] /\ RunnerInv(w)
  BY DEF Inv, TypeOK, RunnerType
<1>2. runner' = [runner EXCEPT ![w] = runner'[w]] /\ runner'[w] \in RunnerType
  BY <1>1 DEF Restart, Failed, chainVars, storeVars, RunnerType, Step, RunnerInv,
    AtCandidate, Inv, TypeOK
<1>3. RunnerInv(w)'
  BY <1>1 DEF Restart, Failed, chainVars, storeVars, RunnerType, RunnerInv,
    BehindFrom,
    Scanned, QueueFinal, AtCandidate, Accounted, Final, Inv, TypeOK,
    CursorSafe, ReportsFinal
<1>4. CursorSafe' /\ ReportsFinal'
  BY <1>1 DEF Restart, Failed, chainVars, storeVars, RunnerType, RunnerInv,
    BehindFrom,
    Scanned, QueueFinal, AtCandidate, Accounted, Final, Inv, TypeOK,
    CursorSafe, ReportsFinal
<1>5. /\ UNCHANGED chainVars
      /\ reported \subseteq reported' /\ dropped \subseteq dropped'
      /\ reported' \subseteq Deposit /\ dropped' \subseteq Deposit
      /\ stuck' \subseteq Deposit
      /\ cursor' \in 0 .. head /\ faults' \in 0 .. MaxFaults
  BY <1>1 DEF Restart, Failed, chainVars, storeVars, RunnerType, RunnerInv,
    AtCandidate,
    Inv, TypeOK
<1> QED
  BY <1>2, <1>3, <1>4, <1>5, RunnerStep

(* Every step preserves the invariant. *)
LEMMA NextInv == ASSUME Inv, [Next]_vars PROVE Inv'
<1>1. CASE \E d \in Deposit : OpenRoute(d) \/ Mine(d) \/ Purge(d)
  BY <1>1, OutsideInv
<1>2. CASE NextBlock
  BY <1>2, OutsideInv
<1>3. ASSUME NEW w \in Runner, Work(w) PROVE Inv'
  BY <1>3, ReadHeadInv, ScanInv, CheckInv, CompleteInv, RouteNotFoundInv,
     RefuseInv, DeliverInv, MarkInv, SaveInv, ReloadInv DEF Work
<1>4. ASSUME NEW w \in Runner, DeliverFails(w) \/ RpcFails(w) \/ StoreFails(w) \/ Restart(w)
      PROVE  Inv'
  BY <1>4, DeliverFailsInv, RpcFailsInv, StoreFailsInv, RestartInv
<1>5. CASE UNCHANGED vars
  BY <1>5 DEF Inv, TypeOK, RoutedFirst, CursorSafe, ReportsFinal, RunnerInv,
    BehindFrom, Scanned, QueueFinal, AtCandidate, Accounted, Final, vars,
    chainVars, storeVars
<1> QED
  BY <1>1, <1>2, <1>3, <1>4, <1>5 DEF Next

(* The invariant holds in every behaviour, whatever the faults. *)
THEOREM Inductive == Spec => []Inv
<1>1. Init => Inv
  BY InitInv
<1>2. Inv /\ [Next]_vars => Inv'
  BY NextInv
<1> QED
  BY <1>1, <1>2, PTL DEF Spec

(* Types, and that neither a runner nor the cursor is ever beyond head. *)
THEOREM TypeCorrect == Spec => []TypeOK
<1>1. Inv => TypeOK
  BY DEF Inv
<1> QED
  BY <1>1, Inductive, PTL

(* The cursor passes no deposit to a transfer that was neither reported nor left
   out of a scan: runOnce saves the cursor last, and the other runners have
   scanned what they save. *)
THEOREM NothingPassedOver == Spec => []CursorSafe
<1>1. Inv => CursorSafe
  BY DEF Inv
<1> QED
  BY <1>1, Inductive, PTL

(* core-api is told of final deposits only, and what a runner skips has been
   reported: runOnce marks an event after its report. *)
THEOREM ReportsAreFinal == Spec => []ReportsFinal
<1>1. Inv => ReportsFinal
  BY DEF Inv
<1> QED
  BY <1>1, Inductive, PTL
=============================================================================
