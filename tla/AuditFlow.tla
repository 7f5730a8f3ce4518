------------------------------ MODULE AuditFlow ------------------------------
(***************************************************************************)
(* One SQL workflow going through approval: the row of workflow_audit, the *)
(* status column of sql_workflow, and the request handlers that read and   *)
(* write them concurrently:                                                *)
(*   - the submit API (sql_api/serializers.py),                            *)
(*   - the web views passed and cancel (sql/sql_workflow.py),              *)
(*   - the REST view AuditWorkflow (sql_api/api_workflow.py).              *)
(*                                                                         *)
(* None of them locks the audit row: AuditV2 loads it when it is           *)
(* constructed and operate() later writes the whole row back, computed     *)
(* from what was loaded.  The load and the write are therefore two         *)
(* actions, and what a handler loaded lives in req.  The two web views     *)
(* write the audit row and the status in one transaction, which is one     *)
(* action; the REST view and the submit API write them in two.             *)
(*                                                                         *)
(* What starts from an approved workflow is in SqlWorkflow, which extends  *)
(* this module.                                                            *)
(***************************************************************************)
EXTENDS AuditRules, FiniteSets

CONSTANTS
    Session,     \* requests that can be in progress at the same time
    Executor     \* users for whom can_execute's permission part holds

ASSUME SessionAssumption ==
    /\ Session # {}
    /\ Executor \subseteq User

VARIABLES
    audit,       \* the row of workflow_audit
    wf,          \* SqlWorkflow.status
    approvals,   \* the PASSED rows of workflow_audit_detail: <<user, group>>
    req          \* req[s]: the request session s is working on

auditVars == <<audit, wf, approvals, req>>

\* SQL_WORKFLOW_CHOICES, and "none" before the workflow exists.
WfStatus == {"none", "workflow_finish", "workflow_abort",
             "workflow_manreviewing", "workflow_review_pass",
             "workflow_timingtask", "workflow_queuing", "workflow_executing",
             "workflow_autoreviewwrong", "workflow_exception"}

\* How far a request has come.
Stage == {"idle", "created", "checked", "loaded", "operated"}

View == {"none", "submit", "passed", "cancel", "api"}

Request == [pc   : Stage,
            view : View,
            user : User,
            act  : {"SUBMIT", "PASS", "REJECT", "ABORT"},
            row  : AuditRow,    \* the audit object the handler holds
            wf   : WfStatus]    \* the status in the workflow object it holds

Idle == [pc |-> "idle", view |-> "none", user |-> Creator, act |-> "SUBMIT",
         row |-> NoRow, wf |-> "none"]

AuditTypeOK ==
    /\ audit \in AuditRow
    /\ wf \in WfStatus
    /\ approvals \subseteq User \X Group
    /\ req \in [Session -> Request]

AuditInit ==
    /\ audit = NoRow
    /\ wf = "none"
    /\ approvals = {}
    /\ req = [s \in Session |-> Idle]

At(s, pc, view) == req[s].pc = pc /\ req[s].view = view

\* The handler of session s has answered its request.
Done(s) == req' = [req EXCEPT ![s] = Idle]

-----------------------------------------------------------------------------
(* Submitting: WorkflowContentSerializer.create *)

\* The transaction that inserts the workflow and its audit.
Submit(s, setting) ==
    /\ req[s] = Idle
    /\ wf = "none"
    /\ wf' = "workflow_manreviewing"
    /\ audit' = create_audit(setting)
    /\ req' = [req EXCEPT ![s] =
                 [pc |-> "created", view |-> "submit", user |-> Creator,
                  act |-> "SUBMIT", row |-> create_audit(setting),
                  wf |-> "workflow_manreviewing"]]
    /\ UNCHANGED approvals

\* After the transaction the workflow object is saved once more, whole,
\* whatever happened to the row in between.
SubmitSave(s) ==
    /\ At(s, "created", "submit")
    /\ wf' = CASE req[s].row.status = "REJECTED" -> "workflow_autoreviewwrong"
               [] req[s].row.status = "PASSED"   -> "workflow_review_pass"
               [] OTHER                          -> req[s].wf
    /\ Done(s)
    /\ UNCHANGED <<audit, approvals>>

-----------------------------------------------------------------------------
(* The view passed *)

\* get_auditor reads the audit row before the transaction begins.
PassedLoad(s, u) ==
    /\ req[s] = Idle
    /\ wf # "none"
    /\ HasReviewPerm(u)
    /\ req' = [req EXCEPT ![s] =
                 [pc |-> "loaded", view |-> "passed", user |-> u,
                  act |-> "PASS", row |-> audit, wf |-> wf]]
    /\ UNCHANGED <<audit, wf, approvals>>

\* The transaction: operate(PASS), and the status when that was the last level.
PassedOperate(s) ==
    LET new == operate_pass(req[s].row)
    IN  /\ At(s, "loaded", "passed")
        /\ can_operate("PASS", req[s].user, req[s].row)
        /\ audit' = new
        /\ approvals' = approvals \cup {<<req[s].user, req[s].row.current>>}
        /\ wf' = IF new.status = "PASSED" THEN "workflow_review_pass" ELSE wf
        /\ Done(s)

-----------------------------------------------------------------------------
(* The view cancel *)

can_cancel(u) ==
    \/ /\ wf = "workflow_manreviewing"
       /\ can_review(u, audit) \/ u = Creator
    \/ /\ wf \in {"workflow_review_pass", "workflow_timingtask"}
       /\ u \in Executor \/ u = Creator

\* can_cancel, and the choice of the action: the engineer aborts, a reviewer
\* rejects, anybody else is turned away.
CancelCheck(s, u) ==
    /\ req[s] = Idle
    /\ can_cancel(u)
    /\ u = Creator \/ HasReviewPerm(u)
    /\ req' = [req EXCEPT ![s] =
                 [pc |-> "checked", view |-> "cancel", user |-> u,
                  act |-> IF u = Creator THEN "ABORT" ELSE "REJECT",
                  row |-> NoRow, wf |-> wf]]
    /\ UNCHANGED <<audit, wf, approvals>>

\* get_auditor, inside the transaction but without a lock.
CancelLoad(s) ==
    /\ At(s, "checked", "cancel")
    /\ req' = [req EXCEPT ![s].pc = "loaded", ![s].row = audit]
    /\ UNCHANGED <<audit, wf, approvals>>

\* Mutant: the status the OA callback writes, which is not one of the choices.
CancelOperate_rejectStatus(s) ==
    /\ At(s, "loaded", "cancel")
    /\ can_operate(req[s].act, req[s].user, req[s].row)
    /\ audit' = operate(req[s].act, req[s].row)
    /\ wf' = "workflow_reject"
    /\ Done(s)
    /\ UNCHANGED approvals

CancelOperate(s) ==
    /\ At(s, "loaded", "cancel")
    /\ can_operate(req[s].act, req[s].user, req[s].row)
    /\ audit' = operate(req[s].act, req[s].row)
    /\ wf' = "workflow_abort"
    /\ Done(s)
    /\ UNCHANGED approvals

-----------------------------------------------------------------------------
(* The REST view AuditWorkflow.post *)

\* Reads the audit row, then the workflow row.  Only the engineer may cancel.
ApiLoad(s, u, act) ==
    /\ req[s] = Idle
    /\ wf # "none"
    /\ act = "ABORT" => u = Creator
    /\ req' = [req EXCEPT ![s] =
                 [pc |-> "loaded", view |-> "api", user |-> u,
                  act |-> act, row |-> audit, wf |-> wf]]
    /\ UNCHANGED <<audit, wf, approvals>>

\* operate() commits the audit row on its own.
ApiOperate(s) ==
    LET new == operate(req[s].act, req[s].row)
    IN  /\ At(s, "loaded", "api")
        /\ can_operate(req[s].act, req[s].user, req[s].row)
        /\ audit' = new
        /\ approvals' = IF req[s].act = "PASS"
                        THEN approvals \cup {<<req[s].user, req[s].row.current>>}
                        ELSE approvals
        /\ req' = [req EXCEPT ![s].pc = "operated", ![s].row = new]
        /\ UNCHANGED wf

\* Mutant: any pass releases the workflow, not only the last one.
ApiSave_anyPass(s) ==
    /\ At(s, "operated", "api")
    /\ wf' = IF req[s].act = "PASS" THEN "workflow_review_pass" ELSE "workflow_abort"
    /\ Done(s)
    /\ UNCHANGED <<audit, approvals>>

\* The status follows in a second write.
ApiSave(s) ==
    /\ At(s, "operated", "api")
    /\ wf' = CASE req[s].row.status = "PASSED" -> "workflow_review_pass"
               [] req[s].row.status \in {"ABORTED", "REJECTED"} -> "workflow_abort"
               [] OTHER -> wf
    /\ Done(s)
    /\ UNCHANGED <<audit, approvals>>

-----------------------------------------------------------------------------

\* operate() raised AuditException: the handler answers with the error and
\* writes nothing.
Refused(s) ==
    /\ req[s].pc = "loaded"
    /\ ~can_operate(req[s].act, req[s].user, req[s].row)
    /\ Done(s)
    /\ UNCHANGED <<audit, wf, approvals>>

\* Every step but the last one of the REST view, which also touches the
\* schedule that SqlWorkflow adds.
Handler(s) ==
    \/ \E setting \in AuditSetting : Submit(s, setting)
    \/ SubmitSave(s)
    \/ \E u \in User : PassedLoad(s, u) \/ CancelCheck(s, u)
    \/ \E u \in User, act \in {"PASS", "ABORT"} : ApiLoad(s, u, act)
    \/ PassedOperate(s)
    \/ CancelLoad(s)
    \/ CancelOperate(s)
    \/ ApiOperate(s)
    \/ Refused(s)

AuditNext == \E s \in Session : Handler(s) \/ ApiSave(s)

AuditSpec == AuditInit /\ [][AuditNext]_auditVars

-----------------------------------------------------------------------------
(* Properties *)

\* Somebody entitled to decide at that level has passed level i.
LevelApproved(i) == \E u \in User : EntitledAt(u, Chain[i]) /\ <<u, Chain[i]>> \in approvals

AllApproved == \A i \in DOMAIN Chain : LevelApproved(i)

\* However many handlers write back rows they loaded earlier, a waiting audit
\* stands at a level of its chain and names the level after it: current_audit
\* and next_audit never come from two different writers (operate_pass moves
\* next to current and looks up the group behind it).
RowOnChain ==
    audit.status = "WAITING" =>
        \E i \in DOMAIN Chain : /\ audit.current = Chain[i]
                                /\ audit.next = NextGroup(i)

\* An audit with a chain is passed only after every level of the chain was
\* passed by somebody entitled to it: a stale write may bring a level back,
\* it can never skip one.
EveryLevelApproved == audit.status = "PASSED" /\ ~audit.auto => AllApproved

\* The status column follows: a workflow is released for execution only when
\* its settings passed it unseen or every level was approved, never when they
\* rejected it, also when the status is written after the audit row (by the
\* save at the end of the submission, or by a REST request that stood still).
ReleasedOnlyIfApproved == wf = "workflow_review_pass" => audit.auto \/ AllApproved

\* When no request is in progress the two rows tell the same story.
RowsAgree ==
    (\A s \in Session : req[s] = Idle) =>
        /\ audit.status = "NONE" <=> wf = "none"
        /\ audit.status = "WAITING" <=> wf = "workflow_manreviewing"
        /\ audit.status = "PASSED" <=> wf = "workflow_review_pass"

\* SUPPORTED_OPERATION_GRID: nothing happens to a rejected or aborted audit,
\* and a passed one is not passed again.
ClosedStaysClosed ==
    [][/\ audit.status \in {"REJECTED", "ABORTED"} => audit' = audit
       /\ audit.status = "PASSED" => audit'.status # "WAITING"]_auditVars

\* The abstract approval flow, seen through the audit row and its details.
Abstract == INSTANCE Approval WITH
    Levels <- Len(Chain),
    phase  <- CASE audit.status = "NONE"     -> "draft"
                [] audit.status = "WAITING"  -> "review"
                [] audit.status = "PASSED"   -> "approved"
                [] audit.status = "REJECTED" -> "rejected"
                [] audit.status = "ABORTED"  -> "aborted",
    passed <- Cardinality({i \in DOMAIN Chain : \A j \in 1..i : LevelApproved(j)})

\* The handlers pass levels one at a time and in order, and never leave a
\* final state.
ImplementsApproval == Abstract!ApprovalSpec
=============================================================================
