---------------------------- MODULE Applications ----------------------------
(***************************************************************************)
(* The kinds of application that go through AuditV2.  A SQL workflow is    *)
(* AuditFlow.  Added here are                                              *)
(*   - an application for query privileges (sql/query_privileges.py):      *)
(*     when it is passed, rows of query_privileges are inserted,           *)
(*   - an archive job (sql/archiver.py): when it is passed, it is switched *)
(*     on, and a scheduler runs it from then on,                           *)
(* with their own views and with the REST view AuditWorkflow, which all    *)
(* kinds share (sql_api/api_workflow.py).                                  *)
(*                                                                         *)
(* Again nothing locks the audit row.  The views of the two kinds write it *)
(* in one transaction with what follows from it; the REST view writes it   *)
(* first, then the status, then the privileges, each on its own.           *)
(***************************************************************************)
EXTENDS AuditFlow

CONSTANTS
    Kind,      \* the kinds that an application may be of
    MaxGrant   \* how often privileges are inserted, at most

ASSUME KindAssumption ==
    /\ Kind \subseteq {"sql", "query", "archive"}
    /\ MaxGrant \in Nat

VARIABLES
    kind,      \* workflow_type of the application
    app,       \* its row: status, and the column state of an archive job
    areq,      \* areq[s]: the request session s is working on
    grant,     \* grant[g]: the privileges inserted by the g-th callback
    queue,     \* the messages for sql.archiver.archive, by who sent them
    calm,      \* history: handlers took turns so far, and none died
    died,      \* history: a worker died during a request
    copies     \* history: the insertions that followed from an execution action

ownVars == <<app, areq, grant, queue, calm, died, copies>>
appVars == <<auditVars, kind, ownVars>>

AppRow == [status : WorkflowStatus \cup {"NONE"}, state : BOOLEAN]

NoApp == [status |-> "NONE", state |-> FALSE]

\* Who sent a request, and whether to pass or to reject, matters when it comes
\* to operate(): it is chosen there.
AppRequest == [pc   : {"idle", "created", "found", "loaded", "operated", "granting"},
               view : {"none", "apply", "audit", "post"},
               row  : AuditRow,    \* the audit object the handler holds
               app  : AppRow]      \* the archive job it will save

AppIdle == [pc |-> "idle", view |-> "none", row |-> NoRow, app |-> NoApp]

AppTypeOK ==
    /\ AuditTypeOK
    /\ kind \in Kind
    /\ app \in AppRow
    /\ areq \in [Session -> AppRequest]
    /\ grant \in [1..MaxGrant -> {"none", "live", "deleted"}]
    /\ queue \subseteq {"schedule", "once"}
    /\ calm \in BOOLEAN
    /\ died \in BOOLEAN
    /\ copies \subseteq 1..MaxGrant

AppInit ==
    /\ AuditInit
    /\ kind \in Kind
    /\ app = NoApp
    /\ areq = [s \in Session |-> AppIdle]
    /\ grant = [g \in 1..MaxGrant |-> "none"]
    /\ queue = {}
    /\ calm = TRUE
    /\ died = FALSE
    /\ copies = {}

AppAt(s, pc, view) == areq[s].pc = pc /\ areq[s].view = view

AppDone(s) == areq' = [areq EXCEPT ![s] = AppIdle]

\* A request that begins, or a write outside of any, while no other is under
\* way.
Turn == calm' = (calm /\ \A s \in Session : areq[s] = AppIdle)

\* bulk_create of the privileges that the application asks for.
Insert ==
    \E g \in 1..MaxGrant :
        /\ grant[g] = "none"
        /\ \A h \in 1..MaxGrant : h < g => grant[h] # "none"
        /\ grant' = [grant EXCEPT ![g] = "live"]

-----------------------------------------------------------------------------
(* Applying *)

\* query_priv_apply: the transaction of create_audit, which saves the
\* application with it.
Apply(s) ==
    /\ kind = "query"
    /\ areq[s] = AppIdle
    /\ audit = NoRow
    /\ audit' = create_audit("manual")
    /\ app' = [app EXCEPT !.status = "WAITING"]
    /\ areq' = [areq EXCEPT ![s] = [AppIdle EXCEPT !.pc = "created", !.view = "apply",
                                                   !.row = create_audit("manual")]]
    /\ Turn
    /\ UNCHANGED <<wf, approvals, req, kind, grant, queue, died, copies>>

\* After it, the callback writes the status that the audit had then.
ApplyCallBack(s) ==
    /\ AppAt(s, "created", "apply")
    /\ app' = [app EXCEPT !.status = areq[s].row.status]
    /\ AppDone(s)
    /\ UNCHANGED <<auditVars, kind, grant, queue, calm, died, copies>>

\* archive_apply: one transaction.  The job is off.
ApplyArchive ==
    /\ kind = "archive"
    /\ audit = NoRow
    /\ audit' = create_audit("manual")
    /\ app' = [status |-> "WAITING", state |-> FALSE]
    /\ UNCHANGED <<wf, approvals, req, kind, areq, grant, queue, calm, died, copies>>

-----------------------------------------------------------------------------
(* The views query_priv_audit and archive_audit *)

\* The application is loaded, ...
AuditFind(s) ==
    /\ kind \in {"query", "archive"}
    /\ areq[s] = AppIdle
    /\ audit.status # "NONE"
    /\ areq' = [areq EXCEPT ![s] = [pc |-> "found", view |-> "audit", row |-> NoRow,
                                    app |-> IF kind = "archive" THEN app ELSE NoApp]]
    /\ Turn
    /\ UNCHANGED <<auditVars, kind, app, grant, queue, died, copies>>

\* ... then its audit, by get_auditor.
AuditLoad(s) ==
    /\ AppAt(s, "found", "audit")
    /\ areq' = [areq EXCEPT ![s].pc = "loaded", ![s].row = audit]
    /\ UNCHANGED <<auditVars, kind, app, grant, queue, calm, died, copies>>

\* The views take whatever WorkflowAction the request names, from anybody with
\* the permission to review.
AuditBy(s, u) == AppAt(s, "loaded", "audit") /\ HasReviewPerm(u)

\* operate(), and the audit row it saves; whose permission counts depends on
\* the kind (Reviewer).
Operate(s, u, act) ==
    /\ can_operate(act, u, areq[s].row)
    /\ audit' = operate(act, areq[s].row)
    /\ approvals' = IF act = "PASS"
                    THEN approvals \cup {<<u, areq[s].row.current>>}
                    ELSE approvals

\* query_priv_audit: the transaction of operate and _query_apply_audit_call_back.
AuditQuery(s, u, act) ==
    LET new == operate(act, areq[s].row)
    IN  /\ kind = "query"
        /\ AppAt(s, "loaded", "audit")
        /\ Operate(s, u, act)
        /\ app' = [app EXCEPT !.status = new.status]
        /\ IF new.status = "PASSED" THEN Insert ELSE UNCHANGED grant
        /\ AppDone(s)
        /\ UNCHANGED <<wf, req, kind, queue, calm, died, copies>>

\* archive_audit: the transaction of operate and of the save of the whole job
\* as it was loaded; the last pass switches it on, nothing switches it off.
AuditArchive(s, u, act) ==
    LET new == operate(act, areq[s].row)
    IN  /\ kind = "archive"
        /\ AppAt(s, "loaded", "audit")
        /\ Operate(s, u, act)
        /\ app' = [status |-> new.status,
                   state  |-> areq[s].app.state \/ new.status = "PASSED"]
        /\ AppDone(s)
        /\ UNCHANGED <<wf, req, kind, grant, queue, calm, died, copies>>

\* An execution action passes the check of a passed application's audit, and
\* operate() returns without touching it; the callback follows all the same: a
\* second copy of the privileges, ...
ExecuteQuery(s, u, act) ==
    /\ kind = "query"
    /\ AuditBy(s, u)
    /\ can_operate(act, u, areq[s].row)
    /\ app' = [app EXCEPT !.status = areq[s].row.status]
    /\ Insert
    /\ copies' = copies \cup {g \in 1..MaxGrant : grant'[g] # grant[g]}
    /\ AppDone(s)
    /\ UNCHANGED <<auditVars, kind, queue, calm, died>>

\* ... or a job that is on again.
ExecuteArchive(s, u, act) ==
    /\ kind = "archive"
    /\ AuditBy(s, u)
    /\ can_operate(act, u, areq[s].row)
    /\ app' = [status |-> areq[s].row.status, state |-> TRUE]
    /\ AppDone(s)
    /\ UNCHANGED <<auditVars, kind, grant, queue, calm, died, copies>>

-----------------------------------------------------------------------------
(* The REST view AuditWorkflow.post *)

\* Only a pass gets anywhere: of a cancellation the view asks for the
\* attribute engineer, which these applications do not have, and fails.
PostLoad(s) ==
    /\ kind \in {"query", "archive"}
    /\ areq[s] = AppIdle
    /\ audit.status # "NONE"
    /\ areq' = [areq EXCEPT ![s] = [pc |-> "loaded", view |-> "post",
                                    row |-> audit, app |-> NoApp]]
    /\ Turn
    /\ UNCHANGED <<auditVars, kind, app, grant, queue, died, copies>>

PostOperate(s, u) ==
    /\ AppAt(s, "loaded", "post")
    /\ Operate(s, u, "PASS")
    /\ areq' = [areq EXCEPT ![s].pc = "operated", ![s].row = operate_pass(areq[s].row)]
    /\ UNCHANGED <<wf, req, kind, app, grant, queue, calm, died, copies>>

\* Mutant: the view writes the status itself and forgets the callback.
PostQuery_noCallBack(s) ==
    /\ kind = "query"
    /\ AppAt(s, "operated", "post")
    /\ app' = [app EXCEPT !.status = areq[s].row.status]
    /\ AppDone(s)
    /\ UNCHANGED <<auditVars, kind, grant, queue, calm, died, copies>>

\* _query_apply_audit_call_back: the status, ...
PostQuery(s) ==
    /\ kind = "query"
    /\ AppAt(s, "operated", "post")
    /\ app' = [app EXCEPT !.status = areq[s].row.status]
    /\ IF areq[s].row.status = "PASSED"
       THEN areq' = [areq EXCEPT ![s].pc = "granting"]
       ELSE AppDone(s)
    /\ UNCHANGED <<auditVars, kind, grant, queue, calm, died, copies>>

\* ... then the privileges.
PostGrant(s) ==
    /\ AppAt(s, "granting", "post")
    /\ Insert
    /\ AppDone(s)
    /\ UNCHANGED <<auditVars, kind, app, queue, calm, died, copies>>

\* Mutant: the view writes the status of a SQL workflow for every kind.
PostArchive_workflowStatus(s) ==
    /\ kind = "archive"
    /\ AppAt(s, "operated", "post")
    /\ app' = [status |-> IF areq[s].row.status = "PASSED"
                          THEN "workflow_review_pass" ELSE areq[s].row.status,
               state  |-> areq[s].row.status = "PASSED"]
    /\ AppDone(s)
    /\ UNCHANGED <<auditVars, kind, grant, queue, calm, died, copies>>

\* An archive job: both columns, by what the audit says.
PostArchive(s) ==
    /\ kind = "archive"
    /\ AppAt(s, "operated", "post")
    /\ app' = [status |-> areq[s].row.status, state |-> areq[s].row.status = "PASSED"]
    /\ AppDone(s)
    /\ UNCHANGED <<auditVars, kind, grant, queue, calm, died, copies>>

-----------------------------------------------------------------------------

\* operate() raised AuditException: nothing is written.
AppRefused(s, u, act) ==
    /\ areq[s].pc = "loaded"
    /\ ~can_operate(act, u, areq[s].row)
    /\ AppDone(s)
    /\ UNCHANGED <<auditVars, kind, app, grant, queue, calm, died, copies>>

\* The worker dies, and an open transaction with it.
Die(s) ==
    /\ areq[s] # AppIdle
    /\ AppDone(s)
    /\ calm' = FALSE
    /\ died' = TRUE
    /\ UNCHANGED <<auditVars, kind, app, grant, queue, copies>>

\* query_priv_modify, type 1: privileges are marked deleted by their ids.
Revoke(g) ==
    /\ grant[g] = "live"
    /\ grant' = [grant EXCEPT ![g] = "deleted"]
    /\ UNCHANGED <<auditVars, kind, app, areq, queue, calm, died, copies>>

\* archive_switch asks for nothing but the permission.
Switch(on) ==
    /\ kind = "archive"
    /\ app # NoApp
    /\ app' = [app EXCEPT !.state = on]
    /\ Turn
    /\ UNCHANGED <<auditVars, kind, areq, grant, queue, died, copies>>

\* Mutant: jobs are picked by the switch alone.
add_archive_task_anyStatus ==
    /\ kind = "archive"
    /\ app.state
    /\ queue' = queue \cup {"schedule"}
    /\ UNCHANGED <<auditVars, kind, app, areq, grant, calm, died, copies>>

\* The schedule: jobs that are on and passed.
add_archive_task ==
    /\ kind = "archive"
    /\ app.state /\ app.status = "PASSED"
    /\ queue' = queue \cup {"schedule"}
    /\ UNCHANGED <<auditVars, kind, app, areq, grant, calm, died, copies>>

\* archive_once, and ExecuteWorkflow for a job: no question asked.
archive_once ==
    /\ kind = "archive"
    /\ app # NoApp
    /\ queue' = queue \cup {"once"}
    /\ UNCHANGED <<auditVars, kind, app, areq, grant, calm, died, copies>>

\* archive: neither status nor switch is looked at again; of the job it
\* writes last_archive_time only.
archive(m) ==
    /\ m \in queue
    /\ queue' = queue \ {m}
    /\ UNCHANGED <<auditVars, kind, app, areq, grant, calm, died, copies>>

-----------------------------------------------------------------------------

Workflow == kind = "sql" /\ AuditNext /\ UNCHANGED <<kind, ownVars>>

AppHandler(s) ==
    \/ Apply(s)
    \/ ApplyCallBack(s)
    \/ AuditFind(s)
    \/ AuditLoad(s)
    \/ \E u \in User, act \in {"PASS", "REJECT", "ABORT"} :
        AuditQuery(s, u, act) \/ AuditArchive(s, u, act)
    \/ \E u \in User, act \in ExecuteAction :
        ExecuteQuery(s, u, act) \/ ExecuteArchive(s, u, act)
    \/ \E u \in User, act \in WorkflowAction : AppRefused(s, u, act)
    \/ PostLoad(s)
    \/ \E u \in User : PostOperate(s, u)
    \/ PostQuery(s)
    \/ PostGrant(s)
    \/ PostArchive(s)
    \/ Die(s)

AppNext ==
    \/ Workflow
    \/ \E s \in Session : AppHandler(s)
    \/ ApplyArchive
    \/ \E g \in 1..MaxGrant : Revoke(g)
    \/ \E on \in BOOLEAN : Switch(on)
    \/ add_archive_task
    \/ archive_once
    \/ \E m \in queue : archive(m)

AppSpec == AppInit /\ [][AppNext]_appVars

-----------------------------------------------------------------------------
(* Properties *)

\* Nothing follows from an application that was not approved at every level:
\* no privilege was ever inserted and no archive job sent by the schedule,
\* whatever rows the handlers bring back, whoever operates the switch, and
\* though the REST view grants in a later write than it passes.
EffectApproved ==
    (\E g \in 1..MaxGrant : grant[g] # "none") \/ "schedule" \in queue => AllApproved

\* While handlers take turns, one application inserts its privileges once,
\* whichever views decide on it and whatever is decided after the pass: what is
\* deleted afterwards is then really gone, for no copy of it is left.  The
\* callback inserts without looking for what is there, so an execution action
\* sent to a passed application adds a copy, which is excepted here.
OneGrant ==
    calm => \A g, h \in (1..MaxGrant) \ copies :
              grant[g] # "none" /\ grant[h] # "none" => g = h

\* When no request is under way, what was passed was also granted, in whatever
\* order the handlers wrote, unless a worker died between the two; and while
\* handlers take turns the application says what its audit says.
Settled ==
    (\A s \in Session : areq[s] = AppIdle) /\ kind # "sql" =>
        /\ kind = "query" /\ audit.status = "PASSED" /\ ~died =>
              \E g \in 1..MaxGrant : grant[g] # "none"
        /\ calm => app.status = audit.status
=============================================================================
