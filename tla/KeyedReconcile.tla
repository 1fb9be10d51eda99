--------------------------- MODULE KeyedReconcile ---------------------------
(***************************************************************************)
(* What the generic controller of pkg/controller/generic.go promises a      *)
(* reconciler, stated per key and without queues, workers or informers.    *)
(*                                                                         *)
(* Each key carries an obligation: a change of the object owes a reconcile *)
(* of the key.  A reconcile starts only when one is owed, at most one runs *)
(* per key, it reads the current object, and a failed reconcile owes       *)
(* another one.  Obligations are only given up once the controller is      *)
(* stopping.  Until it is, an owed reconcile eventually starts; a started  *)
(* reconcile always completes.  Controller.tla is shown to implement this  *)
(* specification, its fairness included.                                  *)
(***************************************************************************)
EXTENDS Naturals

CONSTANTS
    Keys,     \* the keys of the watched objects
    Values    \* what a key may hold; the object's version, or absent

VARIABLES
    store,     \* key -> the current object
    lastSeen,  \* key -> the object the last successful reconcile read
    owed,      \* key -> a reconcile of the key is owed
    run,       \* key -> "no" reconcile, "started" (not yet read), "read"
    stopping   \* the controller has been told to stop

vars == <<store, lastSeen, owed, run, stopping>>

RunStates == {"no", "started", "read"}

-----------------------------------------------------------------------------

\* The object of k changes; a reconcile of k becomes owed.
Write(k) ==
    /\ \E v \in Values \ {store[k]} : store' = [store EXCEPT ![k] = v]
    /\ owed' = [owed EXCEPT ![k] = TRUE]
    /\ UNCHANGED <<lastSeen, run, stopping>>

\* A reconcile of k starts because one is owed, and none runs for k.  Other
\* changes already owed may or may not be covered by it.
Start(k) ==
    /\ owed[k] /\ run[k] = "no"
    /\ run' = [run EXCEPT ![k] = "started"]
    /\ \E o \in BOOLEAN : owed' = [owed EXCEPT ![k] = o]
    /\ UNCHANGED <<store, lastSeen, stopping>>

\* The reconcile reads the current object and succeeds.
ReadOk(k) ==
    /\ run[k] = "started"
    /\ run' = [run EXCEPT ![k] = "read"]
    /\ lastSeen' = [lastSeen EXCEPT ![k] = store[k]]
    /\ UNCHANGED <<store, owed, stopping>>

\* The reconcile fails: another one is owed, unless the controller stops.
Fail(k) ==
    /\ run[k] = "started"
    /\ run' = [run EXCEPT ![k] = "read"]
    /\ \E o \in IF stopping THEN BOOLEAN ELSE {TRUE} : owed' = [owed EXCEPT ![k] = o]
    /\ UNCHANGED <<store, lastSeen, stopping>>

Finish(k) ==
    /\ run[k] = "read"
    /\ run' = [run EXCEPT ![k] = "no"]
    /\ UNCHANGED <<store, lastSeen, owed, stopping>>

\* While stopping, an owed reconcile may be given up.
Drop(k) ==
    /\ stopping /\ owed[k]
    /\ owed' = [owed EXCEPT ![k] = FALSE]
    /\ UNCHANGED <<store, lastSeen, run, stopping>>

Stop ==
    /\ ~stopping
    /\ stopping' = TRUE
    /\ UNCHANGED <<store, lastSeen, owed, run>>

Init ==
    /\ store \in [Keys -> Values]
    /\ lastSeen = store
    /\ owed = [k \in Keys |-> FALSE]
    /\ run = [k \in Keys |-> "no"]
    /\ stopping = FALSE

Next ==
    \/ Stop
    \/ \E k \in Keys :
          Write(k) \/ Start(k) \/ ReadOk(k) \/ Fail(k) \/ Finish(k) \/ Drop(k)

Spec == Init /\ [][Next]_vars

\* Until the controller is told to stop, a reconcile that stays owed while
\* none runs for the key starts; a reconcile that started reads and ends,
\* whether or not the controller is stopping.
LiveSpec ==
    /\ Spec
    /\ \A k \in Keys :
          /\ WF_vars(~stopping /\ Start(k))
          /\ WF_vars(ReadOk(k) \/ Fail(k))
          /\ WF_vars(Finish(k))

-----------------------------------------------------------------------------

\* Until the controller stops, an object that differs from what the last
\* successful reconcile read is owed a reconcile, or one is reading it.
NothingMissed ==
    ~stopping =>
        \A k \in Keys : store[k] # lastSeen[k] => owed[k] \/ run[k] = "started"

=============================================================================
