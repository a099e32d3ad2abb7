---------------------------- MODULE MCReconcile ----------------------------
(* Instances of Reconcile for TLC. *)
EXTENDS Reconcile, TLC

(* One request reads in a behaviour, since readers do not affect each other:
   a scheduled run beside manual retries, a triggered run beside an operator who
   looks at it, or the detail of a transfer. *)
Made == {x \in Reader : phase[x] = "idle"}

MCInit ==
    /\ ReconcileInit
    /\ Cardinality(Made) = 1
    /\ \/ Made \subseteq Run \ Triggered /\ retried = {1} /\ view.step = "unused"
       \/ Made \subseteq Triggered /\ retried = {} /\ view.step = "idle"
       \/ Made \subseteq Detail /\ retried = {1} /\ view.step = "unused"

MCSpec == MCInit /\ [][ReconcileNext]_reconcileVars

(* A behaviour is followed until the run, and the operator who looks at it,
   are done. *)
StillReading ==
    \/ \E x \in Reader : phase[x] \notin {"unused", "done", "dead"}
    \/ view.step \in {"idle", "asked", "issues"}
=============================================================================
