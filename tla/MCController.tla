---------------------------- MODULE MCController ----------------------------
(* Model-checking instance of Controller.                                  *)
EXTENDS Controller, TLC

CONSTANTS k1, k2, w1, w2

MCKeys == {k1, k2}
MCWorkers == {w1, w2}

\* Bounds on the otherwise unbounded API-server writes and reconcile failures.
MCMaxRV == 3
MCMaxPending == 2
MCMaxRetries == 1

\* Keys and workers are interchangeable: no action or invariant names one.
\* Used only by the runs that check invariants.
Symmetry == Permutations(MCKeys) \cup Permutations(MCWorkers)

\* The spec without fairness, for safety-only runs.
SafetySpec == Init /\ [][Next]_vars

=============================================================================
