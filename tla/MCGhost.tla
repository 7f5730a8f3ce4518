------------------------------ MODULE MCGhost ------------------------------
(* GhostTask for TLC. *)
EXTENDS GhostTask, TLC

\* Two ALTERs of one table, or a single one.
SameTable == <<"t", "t">>
OneTable == <<"t">>

\* Bounds on the repair of a task, beside threads that nothing holds up: there is
\* no other request meanwhile; and an administrator, until he has started
\* something, repairs a task whose turn has not come.
Repairs(view) == view \in {"retry"} \cup AdminViews

OneRepair ==
    \A w \in Worker :
        /\ Repairs(req'[w].view) => \A v \in Worker \ {w} : req'[v] = Idle
        /\ req[w] = Idle /\ req'[w].view \in AdminViews =>
              /\ \A p \in Pid : ~proc[p].forced
              /\ req'[w].task > 1 /\ req'[w].task - 1 \notin applied

Workers == Permutations(Worker)
=============================================================================
