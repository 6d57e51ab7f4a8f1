---------------------------- MODULE MCTaskRegistry ----------------------------
(***************************************************************************)
(* TaskRegistry with two tasks, two owners and two cancellations.          *)
(***************************************************************************)
EXTENDS TaskRegistry

CONSTANTS t1, t2, notes, cms, k1, k2

MCTasks  == {t1, t2}
MCOwners == {notes, cms}
MCCalls  == {k1, k2}

\* Tasks and cancellations are alike, so t1 is spawned and k1 begins first.  No
\* fairness is assumed of either step.
FirstFirst ==
  /\ body'[t2] # "unspawned" => body'[t1] # "unspawned"
  /\ call'[k2].stage # "idle" => call'[k1].stage # "idle"
===============================================================================
