------------------------------- MODULE MCSync -------------------------------
(* One workflow of two ALTERs, and one request or thread that saves. *)
EXTENDS DdlSync

CONSTANTS s1, s2, a1, a2

\* The second mirror is a plain one: it waits for approval, with the first
\* ALTER alone, nobody confirms it by hand, and its result can be stored.  What
\* else a mirror may be, the first one is.
SecondPlain ==
    /\ mirror[2].status = "workflow_manreviewing" => mirror[2].audit \notin {"NONE", "REJECTED"}
    /\ hist[2][a2] = "none"
    /\ \A s \in Saver : <<2, a2>> \notin saver[s].todo
    /\ 2 \notin vouched \cup unstored
=============================================================================
