------------------------- MODULE SqlWorkflowProofs -------------------------
(***************************************************************************)
(* From approval to execution, proved for every chain and any number of    *)
(* users, requests and messages: nothing runs that was not approved.       *)
(*                                                                         *)
(* Between the check of can_execute and the run lie a request that has     *)
(* checked and not yet written, a status, a schedule and a message; any    *)
(* of them can outlive the others.  SqlInv asks of each of them that the   *)
(* workflow was approved when it came to be, and since approval is never   *)
(* taken back (AuditInv: approvals grow, auto stays), it still is.         *)
(*                                                                         *)
(* A withdrawal leaves the approvals and closes the audit.  TurnInv says   *)
(* what keeps a withdrawn workflow from starting as long as requests take  *)
(* turns: the status says "may run" only while the audit is passed.        *)
(***************************************************************************)
EXTENDS SqlWorkflow, AuditFlowProofs

Released == {"workflow_review_pass", "workflow_timingtask", "workflow_queuing",
             "workflow_executing", "workflow_finish", "workflow_exception"}

(* Something has been set going that leads to a run, or comes from one.      *)
Active ==
    \/ wf \in Released
    \/ schedule = "pending"
    \/ \E x \in ExecSession : xreq[x] # "idle"
    \/ \E t \in Task : task[t].pc # "free"

ApprovedRow(a, A) == a.status # "NONE" /\ (a.auto \/ AllPassedIn(A))

SqlInv ==
    /\ TypeOK
    /\ AuditInv
    /\ Active => ApprovedRow(audit, approvals)

-----------------------------------------------------------------------------
(* What the handlers of AuditFlow do to the status, and that none of them    *)
(* takes back an approval.                                                  *)
LEMMA AuditStepFacts ==
    ASSUME AuditInv, AuditNext
    PROVE  /\ approvals \subseteq approvals'
           /\ audit.status # "NONE" => audit'.status # "NONE" /\ audit'.auto = audit.auto
           /\ wf' = wf \/ wf' \in {"workflow_manreviewing", "workflow_autoreviewwrong",
                                   "workflow_abort", "workflow_review_pass"}
  <1> DEFINE Facts ==
           /\ approvals \subseteq approvals'
           /\ audit.status # "NONE" => audit'.status # "NONE" /\ audit'.auto = audit.auto
           /\ wf' = wf \/ wf' \in {"workflow_manreviewing", "workflow_autoreviewwrong",
                                   "workflow_abort", "workflow_review_pass"}
  <1>1. ASSUME NEW s \in Session, NEW setting \in AuditSetting, Submit(s, setting)
        PROVE Facts
    BY <1>1 DEF Submit, AuditInv
  <1>2. ASSUME NEW s \in Session, SubmitSave(s) PROVE Facts
    BY <1>2, ReqFacts DEF SubmitSave, At, HeldInv
  <1>3. ASSUME NEW s \in Session, UNCHANGED <<audit, wf, approvals>> PROVE Facts
    BY <1>3
  <1>4. ASSUME NEW s \in Session, PassedOperate(s) PROVE Facts
    <2>1. /\ req[s].row \in AuditRow /\ req[s].user \in User /\ RowInv(req[s].row, approvals)
          /\ SameAudit(req[s].row, audit)
      BY ReqFacts DEF Request, HeldInv
    <2>2. /\ operate_pass(req[s].row).status # "NONE"
          /\ operate_pass(req[s].row).auto = req[s].row.auto
          /\ req[s].row.status # "NONE"
      BY <1>4, <2>1, PassRow DEF PassedOperate
    <2> QED
      BY <1>4, <2>1, <2>2 DEF PassedOperate, SameAudit
  <1>5. ASSUME NEW s \in Session, CancelOperate(s) PROVE Facts
    <2>1. /\ req[s].row \in AuditRow /\ req[s].user \in User
          /\ SameAudit(req[s].row, audit) /\ req[s].act \in {"REJECT", "ABORT"}
      BY <1>5, ReqFacts DEF Request, HeldInv, CancelOperate, At
    <2>2. /\ audit'.status # "NONE" /\ audit'.auto = req[s].row.auto
          /\ req[s].row.status # "NONE"
      BY <1>5, <2>1, CloseRow DEF CancelOperate
    <2> QED
      BY <1>5, <2>1, <2>2 DEF CancelOperate, SameAudit
  <1>6. ASSUME NEW s \in Session, ApiOperate(s) PROVE Facts
    <2>1. /\ req[s].row \in AuditRow /\ req[s].user \in User /\ RowInv(req[s].row, approvals)
          /\ SameAudit(req[s].row, audit) /\ req[s].act \in {"PASS", "ABORT"}
      BY <1>6, ReqFacts DEF Request, HeldInv, ApiOperate, At
    <2>2. /\ audit'.status # "NONE" /\ audit'.auto = req[s].row.auto
          /\ req[s].row.status # "NONE"
      <3>1. CASE req[s].act = "PASS"
        BY <1>6, <2>1, <3>1, PassRow DEF ApiOperate, operate
      <3>2. CASE req[s].act = "ABORT"
        BY <1>6, <2>1, <3>2, CloseRow DEF ApiOperate
      <3> QED
        BY <2>1, <3>1, <3>2
    <2> QED
      BY <1>6, <2>1, <2>2 DEF ApiOperate, SameAudit
  <1>7. ASSUME NEW s \in Session, ApiSave(s) PROVE Facts
    BY <1>7 DEF ApiSave
  <1> HIDE DEF Facts
  <1>8. Facts
    BY <1>1, <1>2, <1>3, <1>4, <1>5, <1>6, <1>7
    DEF AuditNext, Handler, PassedLoad, CancelCheck, ApiLoad, CancelLoad, Refused
  <1> QED
    BY <1>8 DEF Facts

LEMMA ApprovedMonotone ==
    ASSUME NEW a, NEW b, NEW A, NEW B, ApprovedRow(a, A), A \subseteq B,
           b.status # "NONE", b.auto = a.auto
    PROVE  ApprovedRow(b, B)
  BY AllPassedMonotone DEF ApprovedRow

(* A released workflow is approved. *)
LEMMA ReleasedApproved ==
    ASSUME AuditInv, wf = "workflow_review_pass"
    PROVE  ApprovedRow(audit, approvals)
  BY DEF AuditInv, ApprovedRow

-----------------------------------------------------------------------------

LEMMA InitSqlInv == Init => SqlInv
  <1> SUFFICES ASSUME Init PROVE SqlInv
    OBVIOUS
  <1>1. AuditInv
    BY InitAuditInv DEF Init
  <1>2. TypeOK
    BY <1>1, ExecAssumption DEF Init, TypeOK, AuditInv, XStage, TaskStage, Free
  <1>3. ~Active
    BY DEF Init, AuditInit, Active, Released, Free
  <1> QED
    BY <1>1, <1>2, <1>3 DEF SqlInv

(* A handler of the approval flow. *)
LEMMA AuditStepInv ==
    ASSUME SqlInv, AuditNext, schedule' \in {"none", schedule}, UNCHANGED <<xreq, task, lost>>,
           calm' \in BOOLEAN
    PROVE  SqlInv'
  <1>1. AuditInv'
    BY StepAuditInv DEF SqlInv
  <1>2. TypeOK'
    BY <1>1 DEF SqlInv, TypeOK, AuditInv
  <1>3. /\ approvals \subseteq approvals'
        /\ audit.status # "NONE" => audit'.status # "NONE" /\ audit'.auto = audit.auto
        /\ wf' = wf \/ wf' \in {"workflow_manreviewing", "workflow_autoreviewwrong",
                                "workflow_abort", "workflow_review_pass"}
    BY AuditStepFacts DEF SqlInv
  <1>4. ASSUME Active' PROVE ApprovedRow(audit', approvals')
    <2>1. CASE Active
      <3>1. ApprovedRow(audit, approvals)
        BY <2>1 DEF SqlInv
      <3>2. audit'.status # "NONE" /\ audit'.auto = audit.auto
        BY <1>3, <3>1 DEF ApprovedRow
      <3> QED
        BY <1>3, <3>1, <3>2, ApprovedMonotone
    <2>2. CASE ~Active
      <3>1. wf' = "workflow_review_pass"
        BY <1>3, <1>4, <2>2 DEF Active, Released
      <3> QED
        BY <1>1, <3>1 DEF AuditInv, ApprovedRow
    <2> QED
      BY <2>1, <2>2
  <1> QED
    BY <1>1, <1>2, <1>4 DEF SqlInv

(* A step of the views execute and timing_task or of the cluster: it starts  *)
(* from something active, leaves the audit alone and writes only statuses of *)
(* a released workflow.                                                      *)
LEMMA ExecStepInv ==
    ASSUME SqlInv, Active, UNCHANGED <<audit, approvals, req>>,
           wf' = wf \/ wf' \in Released, TypeOK'
    PROVE  SqlInv'
  <1>1. ApprovedRow(audit, approvals)
    BY DEF SqlInv
  <1>2. AuditInv'
    BY <1>1 DEF SqlInv, AuditInv, ApprovedRow, TypeOK, Released
  <1> QED
    BY <1>1, <1>2 DEF SqlInv

(* A message moved on keeps the type of the others. *)
LEMMA TaskType ==
    ASSUME TypeOK, NEW t \in Task, NEW pc \in TaskStage, NEW success \in BOOLEAN,
           \/ task' = [task EXCEPT ![t].pc = pc]
           \/ task' = [task EXCEPT ![t] = [pc |-> pc, success |-> success]]
    PROVE  /\ task' \in [Task -> [pc : TaskStage, success : BOOLEAN]]
           /\ task'[t].pc = pc
           /\ \A t2 \in Task \ {t} : task'[t2] = task[t2]
  BY DEF TypeOK

LEMMA SessionType ==
    ASSUME TypeOK, NEW x \in ExecSession, NEW stage \in XStage,
           xreq' = [xreq EXCEPT ![x] = stage]
    PROVE  /\ xreq' \in [ExecSession -> XStage]
           /\ xreq'[x] = stage
           /\ \A y \in ExecSession \ {x} : xreq'[y] = xreq[y]
  BY DEF TypeOK

LEMMA StepSqlInv == SqlInv /\ [Next]_vars => SqlInv'
  <1> SUFFICES ASSUME SqlInv, [Next]_vars PROVE SqlInv'
    OBVIOUS
  <1> USE DEF SqlInv
  <1>0. calm' \in BOOLEAN
    BY DEF Next, InTurn, vars, TypeOK
  <1>1. ASSUME NEW s \in Session, AuditHandler(s) PROVE SqlInv'
    BY <1>0, <1>1, AuditStepInv DEF AuditHandler, AuditNext, execVars
  <1>2. ASSUME NEW s \in Session, CancelledByApi(s) PROVE SqlInv'
    BY <1>0, <1>2, AuditStepInv DEF CancelledByApi, AuditNext
  <1>3. ASSUME NEW x \in ExecSession, NEW mode \in {"auto", "manual", "timing"},
               ExecCheck(x, mode)
        PROVE SqlInv'
    <2>1. Active
      BY <1>3 DEF ExecCheck, Executable, Active, Released
    <2>2. TypeOK'
      BY <1>0, <1>3, SessionType DEF ExecCheck, TypeOK, AuditTypeOK, auditVars, XStage
    <2> QED
      BY <1>3, <2>1, <2>2, ExecStepInv DEF ExecCheck, auditVars
  <1>4. ASSUME NEW x \in ExecSession,
               ExecQueue(x) \/ ExecManual(x) \/ TimingCommit(x) \/ ExecUnschedule(x)
        PROVE SqlInv'
    <2>1. Active
      BY <1>4 DEF ExecQueue, ExecManual, TimingCommit, ExecUnschedule, Active
    <2>2. UNCHANGED <<audit, approvals, req, task, lost>> /\ (wf' = wf \/ wf' \in Released)
      BY <1>4 DEF ExecQueue, ExecManual, TimingCommit, ExecUnschedule, Released, auditVars
    <2>3. xreq' \in [ExecSession -> XStage] /\ schedule' \in {"none", "pending"}
      BY <1>0, <1>4, SessionType
      DEF ExecQueue, ExecManual, TimingCommit, ExecUnschedule, XStage, TypeOK
    <2>4. TypeOK'
      BY <1>0, <2>2, <2>3 DEF TypeOK, AuditTypeOK, Released, WfStatus
    <2> QED
      BY <2>1, <2>2, <2>4, ExecStepInv
  <1>5. ASSUME NEW x \in ExecSession, ExecEnqueue(x) PROVE SqlInv'
    <2>1. PICK t \in Task : async_task(t)
      BY <1>5 DEF ExecEnqueue
    <2>2. Active
      BY <1>5 DEF ExecEnqueue, Active
    <2>3. TypeOK'
      BY <1>0, <1>5, <2>1, SessionType, TaskType
      DEF ExecEnqueue, async_task, TypeOK, AuditTypeOK, auditVars, XStage, TaskStage
    <2> QED
      BY <1>5, <2>2, <2>3, ExecStepInv DEF ExecEnqueue, auditVars
  <1>6. ASSUME SchedulerFire PROVE SqlInv'
    <2>1. PICK t \in Task : async_task(t)
      BY <1>6 DEF SchedulerFire
    <2>2. Active
      BY <1>6 DEF SchedulerFire, Active
    <2>3. TypeOK'
      BY <1>0, <1>6, <2>1, TaskType
      DEF SchedulerFire, async_task, TypeOK, AuditTypeOK, auditVars, TaskStage
    <2> QED
      BY <1>6, <2>2, <2>3, ExecStepInv DEF SchedulerFire, auditVars
  <1>7. ASSUME NEW t \in Task, ExecuteStart(t) PROVE SqlInv'
    <2>1. Active
      BY <1>7 DEF ExecuteStart, Active
    <2>2. TypeOK'
      BY <1>0, <1>7, TaskType DEF ExecuteStart, TypeOK, AuditTypeOK, TaskStage, WfStatus
    <2> QED
      BY <1>7, <2>1, <2>2, ExecStepInv DEF ExecuteStart, Released
  <1>8. ASSUME NEW t \in Task, ExecuteRefuse(t) PROVE SqlInv'
    <2>1. Active
      BY <1>8 DEF ExecuteRefuse, Active
    <2>2. TypeOK'
      BY <1>0, <1>8, TaskType DEF ExecuteRefuse, TypeOK, AuditTypeOK, auditVars, TaskStage
    <2> QED
      BY <1>8, <2>1, <2>2, ExecStepInv DEF ExecuteRefuse, auditVars
  <1>9. ASSUME NEW t \in Task, NEW success \in BOOLEAN, ExecuteReturn(t, success)
        PROVE SqlInv'
    <2>1. Active
      BY <1>9 DEF ExecuteReturn, Active
    <2>2. TypeOK'
      BY <1>0, <1>9, TaskType DEF ExecuteReturn, TypeOK, AuditTypeOK, auditVars, TaskStage
    <2> QED
      BY <1>9, <2>1, <2>2, ExecStepInv DEF ExecuteReturn, auditVars
  <1>10. ASSUME NEW t \in Task, Crash(t) PROVE SqlInv'
    <2>1. Active
      BY <1>10 DEF Crash, Active
    <2>2. lost' \in 0..MaxCrash
      BY <1>10, ExecAssumption DEF Crash, TypeOK
    <2>3. TypeOK'
      BY <1>0, <1>10, <2>2, TaskType DEF Crash, TypeOK, AuditTypeOK, auditVars, TaskStage, Free
    <2> QED
      BY <1>10, <2>1, <2>3, ExecStepInv DEF Crash, auditVars
  <1>11. ASSUME NEW t \in Task, HookRead(t) PROVE SqlInv'
    <2>1. Active
      BY <1>11 DEF HookRead, Active
    <2>2. TypeOK'
      BY <1>0, <1>11, TaskType DEF HookRead, TypeOK, AuditTypeOK, auditVars, TaskStage
    <2> QED
      BY <1>11, <2>1, <2>2, ExecStepInv DEF HookRead, auditVars
  <1>12. ASSUME NEW t \in Task, HookRefuse(t) PROVE SqlInv'
    <2>1. Active
      BY <1>12 DEF HookRefuse, Active
    <2>2. TypeOK'
      BY <1>0, <1>12, TaskType DEF HookRefuse, TypeOK, AuditTypeOK, auditVars, TaskStage, Free
    <2> QED
      BY <1>12, <2>1, <2>2, ExecStepInv DEF HookRefuse, auditVars
  <1>13. ASSUME NEW t \in Task, HookSave(t) PROVE SqlInv'
    <2>1. Active
      BY <1>13 DEF HookSave, Active
    <2>2. TypeOK'
      BY <1>0, <1>13, TaskType DEF HookSave, TypeOK, AuditTypeOK, TaskStage, WfStatus, Free
    <2> QED
      BY <1>13, <2>1, <2>2, ExecStepInv DEF HookSave, Released
  <1>14. CASE UNCHANGED vars
    BY <1>14 DEF vars, sysVars, execVars, auditVars, TypeOK, AuditTypeOK, AuditInv, Active
  <1> QED
    BY <1>1, <1>2, <1>3, <1>4, <1>5, <1>6, <1>7, <1>8, <1>9, <1>10, <1>11, <1>12, <1>13, <1>14
    DEF Next, Step

-----------------------------------------------------------------------------
(* NoWaitInVain is inductive by itself: every action that removes what would *)
(* end a wait leaves the waiting status, or puts another in its place.       *)

LEMMA StepWait == SqlInv /\ NoWaitInVain /\ [Next]_vars => NoWaitInVain'
  <1> SUFFICES ASSUME SqlInv, NoWaitInVain, [Next]_vars PROVE NoWaitInVain'
    OBVIOUS
  <1>0. TypeOK /\ AuditInv
    BY DEF SqlInv
  <1>1. ASSUME AuditNext, UNCHANGED <<xreq, task, lost>>,
               schedule' = schedule \/ wf' = "workflow_abort"
        PROVE NoWaitInVain'
    BY <1>0, <1>1, AuditStepFacts DEF NoWaitInVain
  <1>2. ASSUME NEW s \in Session, CancelledByApi(s) PROVE NoWaitInVain'
    <2>1. schedule' = schedule \/ wf' = "workflow_abort"
      BY <1>2 DEF CancelledByApi, ApiSave
    <2> QED
      BY <1>1, <1>2, <2>1 DEF CancelledByApi, AuditNext
  <1>3. ASSUME NEW s \in Session, AuditHandler(s) PROVE NoWaitInVain'
    BY <1>1, <1>3 DEF AuditHandler, AuditNext, execVars
  <1>4. ASSUME NEW x \in ExecSession, NEW mode \in {"auto", "manual", "timing"},
               ExecCheck(x, mode)
        PROVE NoWaitInVain'
    BY <1>0, <1>4, SessionType DEF ExecCheck, NoWaitInVain, auditVars, XStage
  <1>5. ASSUME NEW x \in ExecSession, ExecQueue(x) PROVE NoWaitInVain'
    BY <1>0, <1>5, SessionType DEF ExecQueue, NoWaitInVain, XStage
  <1>6. ASSUME NEW x \in ExecSession, ExecUnschedule(x) PROVE NoWaitInVain'
    BY <1>0, <1>6, SessionType DEF ExecUnschedule, NoWaitInVain, auditVars, XStage
  <1>7. ASSUME NEW x \in ExecSession, ExecEnqueue(x) PROVE NoWaitInVain'
    <2>1. PICK t \in Task : async_task(t)
      BY <1>7 DEF ExecEnqueue
    <2>2. task'[t].pc = "queued" /\ \A t2 \in Task \ {t} : task'[t2] = task[t2]
      BY <1>0, <2>1, TaskType DEF async_task, TaskStage, Free
    <2>3. task[t].pc = "free"
      BY <2>1 DEF async_task, Free
    <2> QED
      BY <1>7, <2>2, <2>3 DEF ExecEnqueue, NoWaitInVain, auditVars
  <1>8. ASSUME NEW x \in ExecSession, ExecManual(x) \/ TimingCommit(x) PROVE NoWaitInVain'
    BY <1>8 DEF ExecManual, TimingCommit, NoWaitInVain
  <1>9. CASE SchedulerFire
    <2>1. PICK t \in Task : async_task(t)
      BY <1>9 DEF SchedulerFire
    <2>2. task'[t].pc = "queued" /\ \A t2 \in Task \ {t} : task'[t2] = task[t2]
      BY <1>0, <2>1, TaskType DEF async_task, TaskStage, Free
    <2>3. task[t].pc = "free"
      BY <2>1 DEF async_task, Free
    <2> QED
      BY <1>9, <2>2, <2>3 DEF SchedulerFire, NoWaitInVain, auditVars
  <1>10. ASSUME NEW t \in Task, ExecuteStart(t) PROVE NoWaitInVain'
    BY <1>0, <1>10, TaskType DEF ExecuteStart, NoWaitInVain, TaskStage
  <1>11. ASSUME NEW t \in Task, ExecuteRefuse(t) PROVE NoWaitInVain'
    BY <1>0, <1>11, TaskType DEF ExecuteRefuse, NoWaitInVain, TaskStage, auditVars
  <1>12. ASSUME NEW t \in Task, NEW success \in BOOLEAN, ExecuteReturn(t, success)
         PROVE NoWaitInVain'
    BY <1>0, <1>12, TaskType DEF ExecuteReturn, NoWaitInVain, TaskStage, auditVars
  <1>13. ASSUME NEW t \in Task, Crash(t) PROVE NoWaitInVain'
    BY <1>0, <1>13 DEF Crash, NoWaitInVain, TypeOK
  <1>14. ASSUME NEW t \in Task, HookRead(t) PROVE NoWaitInVain'
    BY <1>0, <1>14, TaskType DEF HookRead, NoWaitInVain, TaskStage, auditVars
  <1>15. ASSUME NEW t \in Task, HookRefuse(t) PROVE NoWaitInVain'
    BY <1>0, <1>15, TaskType DEF HookRefuse, NoWaitInVain, TaskStage, auditVars, Free
  <1>16. ASSUME NEW t \in Task, HookSave(t) PROVE NoWaitInVain'
    BY <1>16 DEF HookSave, NoWaitInVain
  <1>17. CASE UNCHANGED vars
    BY <1>17 DEF vars, sysVars, execVars, auditVars, NoWaitInVain
  <1> QED
    BY <1>2, <1>3, <1>4, <1>5, <1>6, <1>7, <1>8, <1>9, <1>10, <1>11, <1>12, <1>13, <1>14,
       <1>15, <1>16, <1>17
    DEF Next, Step

-----------------------------------------------------------------------------
(* StartsWhileApproved.  As long as requests take turns, a request finds the *)
(* audit as it loaded it, so the status of a workflow that may be executed   *)
(* and the audit row change together, except between the two commits of the *)
(* REST view.                                                               *)

Runnable == {"workflow_review_pass", "workflow_timingtask", "workflow_queuing"}

RowsHeld == \A s \in Session :
    req[s].pc \in {"created", "loaded", "operated"} => req[s].row = audit

RunnablePassed == ~BetweenCommits /\ wf \in Runnable => audit.status = "PASSED"

WaitingNotRunnable ==
    BetweenCommits /\ audit.status \notin {"PASSED", "ABORTED", "REJECTED"} => wf \notin Runnable

CheckedPassed == \A x \in ExecSession : xreq[x] # "idle" => audit.status = "PASSED"

Follows == InTurn /\ RowsHeld /\ RunnablePassed /\ WaitingNotRunnable /\ CheckedPassed

TurnInv == calm => Follows

LEMMA IdleIs == Idle.pc = "idle" /\ Idle.view = "none"
  BY DEF Idle

(* A handler works on req[s] alone, and has it before or after the step. *)
LEMMA HandlerActs ==
    ASSUME AuditInv, NEW s \in Session, Handler(s) \/ ApiSave(s)
    PROVE  /\ \A q \in Session \ {s} : req'[q] = req[q]
           /\ req[s] # Idle \/ req'[s] # Idle
  <1>1. req \in [Session -> Request]
    BY DEF AuditInv, AuditTypeOK
  <1>2. CASE \E setting \in AuditSetting : Submit(s, setting)
    BY <1>1, <1>2, IdleIs DEF Submit
  <1>3. CASE \E u \in User : PassedLoad(s, u) \/ CancelCheck(s, u)
    BY <1>1, <1>3, IdleIs DEF PassedLoad, CancelCheck
  <1>4. CASE \E u \in User, act \in {"PASS", "ABORT"} : ApiLoad(s, u, act)
    BY <1>1, <1>4, IdleIs DEF ApiLoad
  <1>5. CASE SubmitSave(s) \/ PassedOperate(s) \/ CancelOperate(s) \/ Refused(s) \/ ApiSave(s)
    BY <1>1, <1>5, IdleIs DEF SubmitSave, PassedOperate, CancelOperate, Refused, ApiSave, Done, At
  <1>6. CASE CancelLoad(s)
    BY <1>1, <1>6, IdleIs DEF CancelLoad, At
  <1>7. CASE ApiOperate(s)
    BY <1>1, <1>7, IdleIs DEF ApiOperate, At
  <1> QED
    BY <1>2, <1>3, <1>4, <1>5, <1>6, <1>7 DEF Handler

(* In turn, a handler is alone. *)
LEMMA HandlerAlone ==
    ASSUME AuditInv, NEW s \in Session, Handler(s) \/ ApiSave(s), InTurn, InTurn',
           xreq' = xreq
    PROVE  /\ \A q \in Session \ {s} : req[q] = Idle /\ req'[q] = Idle
           /\ \A x \in ExecSession : xreq[x] = "idle"
  <1>1. /\ \A q \in Session \ {s} : req'[q] = req[q]
        /\ req[s] # Idle \/ req'[s] # Idle
    BY HandlerActs
  <1>2. CASE req[s] # Idle
    BY <1>1, <1>2 DEF InTurn
  <1>3. CASE req'[s] # Idle
    BY <1>1, <1>3 DEF InTurn
  <1> QED
    BY <1>1, <1>2, <1>3

LEMMA PassesWaiting ==
    ASSUME NEW row \in AuditRow, NEW u, can_operate("PASS", u, row)
    PROVE  row.status = "WAITING"
  BY DEF can_operate, SUPPORTED_OPERATION_GRID, AuditRow, WorkflowStatus

(* What the step leaves in the two rows, for a handler that is alone. *)
LEMMA HandlerFollows ==
    ASSUME AuditInv, AuditInv', NEW s \in Session, Handler(s) \/ ApiSave(s),
           Follows, InTurn', xreq' = xreq
    PROVE  Follows'
  <1>1. /\ \A q \in Session \ {s} : req[q] = Idle /\ req'[q] = Idle
        /\ \A x \in ExecSession : xreq'[x] = "idle"
    BY HandlerAlone DEF Follows
  <1>2. req \in [Session -> Request] /\ audit \in AuditRow
    BY DEF AuditInv, AuditTypeOK
  <1>3. CheckedPassed'
    BY <1>1 DEF CheckedPassed
  <1>4. BetweenCommits <=> At(s, "operated", "api")
    BY <1>1, IdleIs DEF BetweenCommits, At
  <1>5. BetweenCommits' <=> req'[s].pc = "operated" /\ req'[s].view = "api"
    BY <1>1, IdleIs DEF BetweenCommits, At
  <1> DEFINE Held == req'[s].pc \in {"created", "loaded", "operated"} => req'[s].row = audit'
  <1> DEFINE Between == req'[s].pc = "operated" /\ req'[s].view = "api"
  <1> DEFINE Rows ==
        /\ (~Between /\ wf' \in Runnable) => audit'.status = "PASSED"
        /\ (Between /\ audit'.status \notin {"PASSED", "ABORTED", "REJECTED"})
              => wf' \notin Runnable
  <1>6. ASSUME NEW setting \in AuditSetting, Submit(s, setting) PROVE Held /\ Rows
    <2>1. /\ wf' = "workflow_manreviewing" /\ audit' = create_audit(setting)
          /\ req'[s].pc = "created" /\ req'[s].view = "submit"
          /\ req'[s].row = create_audit(setting)
      BY <1>2, <1>6 DEF Submit
    <2> QED
      BY <2>1 DEF Runnable
  <1>7. ASSUME SubmitSave(s) PROVE Held /\ Rows
    <2>1. req'[s].pc = "idle" /\ req[s].row = audit /\ req[s].wf = "workflow_manreviewing"
      BY <1>2, <1>7, IdleIs DEF SubmitSave, Done, At, Follows, RowsHeld, AuditInv, HeldInv
    <2>2. wf' \in Runnable => audit.status = "PASSED"
      BY <1>7, <2>1 DEF SubmitSave, Runnable
    <2>3. audit' = audit
      BY <1>7 DEF SubmitSave
    <2> QED
      BY <2>1, <2>2, <2>3
  <1>8. ASSUME NEW u \in User, PassedLoad(s, u) \/ CancelCheck(s, u) PROVE Held /\ Rows
    <2>1. /\ req[s] = Idle /\ wf' = wf /\ audit' = audit
          /\ req'[s].pc = "loaded" => req'[s].row = audit
          /\ req'[s].pc \in {"loaded", "checked"}
      BY <1>2, <1>8 DEF PassedLoad, CancelCheck
    <2> QED
      BY <1>4, <2>1, IdleIs DEF Follows, RunnablePassed, At
  <1>9. ASSUME NEW u \in User, NEW act \in {"PASS", "ABORT"}, ApiLoad(s, u, act)
        PROVE  Held /\ Rows
    <2>1. /\ req[s] = Idle /\ wf' = wf /\ audit' = audit
          /\ req'[s].pc = "loaded" /\ req'[s].row = audit
      BY <1>2, <1>9 DEF ApiLoad
    <2> QED
      BY <1>4, <2>1, IdleIs DEF Follows, RunnablePassed, At
  <1>10. ASSUME CancelLoad(s) PROVE Held /\ Rows
    <2>1. /\ req[s].pc = "checked" /\ wf' = wf /\ audit' = audit
          /\ req'[s].pc = "loaded" /\ req'[s].row = audit
      BY <1>2, <1>10 DEF CancelLoad, At
    <2> QED
      BY <1>4, <2>1 DEF Follows, RunnablePassed, At
  <1>11. ASSUME PassedOperate(s) PROVE Held /\ Rows
    <2>1. req'[s].pc = "idle" /\ req[s].row = audit
      BY <1>2, <1>11, IdleIs DEF PassedOperate, Done, At, Follows, RowsHeld
    <2>2. audit.status = "WAITING"
      BY <1>2, <1>11, <2>1, PassesWaiting DEF PassedOperate
    <2>3. wf \notin Runnable
      BY <1>4, <1>11, <2>2 DEF PassedOperate, At, Follows, RunnablePassed
    <2>4. wf' = wf \/ audit'.status = "PASSED"
      BY <1>11 DEF PassedOperate
    <2> QED
      BY <2>1, <2>3, <2>4
  <1>12. ASSUME CancelOperate(s) PROVE Held /\ Rows
    <2>1. req'[s].pc = "idle" /\ wf' = "workflow_abort"
      BY <1>2, <1>12, IdleIs DEF CancelOperate, Done
    <2> QED
      BY <2>1 DEF Runnable
  <1>13. ASSUME ApiOperate(s) PROVE Held /\ Rows
    <2>0. req[s].pc = "loaded" /\ req[s].view = "api" /\ req[s].row = audit
      BY <1>13 DEF ApiOperate, At, Follows, RowsHeld
    <2>1. /\ req'[s].row = audit' /\ req'[s].pc = "operated" /\ req'[s].view = "api"
          /\ wf' = wf
      BY <1>2, <1>13, <2>0 DEF ApiOperate, Request
    <2>2. req[s].act \in {"PASS", "ABORT"}
      BY <1>13 DEF ApiOperate, At, AuditInv, HeldInv
    <2>3. CASE req[s].act = "PASS"
      <3>1. audit.status = "WAITING"
        BY <1>2, <1>13, <2>0, <2>3, PassesWaiting DEF ApiOperate
      <3>2. wf \notin Runnable
        BY <1>4, <2>0, <3>1 DEF At, Follows, RunnablePassed
      <3> QED
        BY <2>1, <3>2
    <2>4. CASE req[s].act = "ABORT"
      <3>1. req[s].user \in User
        BY <1>2 DEF Request
      <3>2. audit'.status \in {"REJECTED", "ABORTED"}
        BY <1>2, <1>13, <2>0, <2>4, <3>1, CloseRow DEF ApiOperate
      <3> QED
        BY <2>1, <3>2
    <2> QED
      BY <2>2, <2>3, <2>4
  <1>14. ASSUME Refused(s) PROVE Held /\ Rows
    <2>1. req'[s].pc = "idle" /\ ~BetweenCommits /\ wf' = wf /\ audit' = audit
      BY <1>2, <1>4, <1>14, IdleIs DEF Refused, Done, At
    <2> QED
      BY <2>1 DEF Follows, RunnablePassed
  <1>15. ASSUME ApiSave(s) PROVE Held /\ Rows
    <2>1. /\ req'[s].pc = "idle" /\ req[s].row = audit /\ BetweenCommits /\ audit' = audit
      BY <1>2, <1>4, <1>15, IdleIs DEF ApiSave, Done, At, Follows, RowsHeld
    <2>2. wf' \in Runnable => audit.status = "PASSED"
      BY <1>15, <2>1 DEF ApiSave, Follows, WaitingNotRunnable, Runnable
    <2> QED
      BY <2>1, <2>2
  <1>16. Held /\ Rows
    BY <1>6, <1>7, <1>8, <1>9, <1>10, <1>11, <1>12, <1>13, <1>14, <1>15 DEF Handler
  <1>17. RowsHeld'
    BY <1>1, <1>16, IdleIs DEF RowsHeld
  <1>18. RunnablePassed' /\ WaitingNotRunnable'
    BY <1>5, <1>16 DEF RunnablePassed, WaitingNotRunnable, Runnable
  <1> QED
    BY <1>3, <1>17, <1>18 DEF Follows

(* A request to execute, which is alone too, and a step of the cluster: they *)
(* leave the audit as it is, and make no workflow runnable that was not.     *)
LEMMA ExecuteFollows ==
    ASSUME Follows, InTurn', UNCHANGED <<audit, req>>,
           wf' \in Runnable => wf \in Runnable \/ audit.status = "PASSED",
           \A x \in ExecSession : xreq'[x] # "idle" => xreq[x] # "idle" \/ audit.status = "PASSED"
    PROVE  Follows'
  BY DEF Follows, RowsHeld, RunnablePassed, WaitingNotRunnable, CheckedPassed, BetweenCommits, At,
     Runnable

LEMMA InitTurnInv == Init => TurnInv
  BY IdleIs DEF Init, AuditInit, TurnInv, Follows, InTurn, RowsHeld, RunnablePassed,
     WaitingNotRunnable, CheckedPassed, BetweenCommits, At, Runnable

LEMMA StepTurnInv == SqlInv /\ SqlInv' /\ TurnInv /\ [Next]_vars => TurnInv'
  <1> SUFFICES ASSUME SqlInv, SqlInv', TurnInv, [Next]_vars, calm' PROVE Follows'
    BY DEF TurnInv
  <1>1. AuditInv /\ AuditInv' /\ TypeOK
    BY DEF SqlInv
  <1>2. CASE UNCHANGED vars
    BY <1>2 DEF vars, sysVars, auditVars, execVars, TurnInv, Follows, InTurn, RowsHeld,
       RunnablePassed, WaitingNotRunnable, CheckedPassed, BetweenCommits, At
  <1>3. CASE Next
    <2>1. Follows /\ InTurn'
      BY <1>3 DEF Next, TurnInv
    <2>2. ASSUME NEW s \in Session, AuditHandler(s) \/ CancelledByApi(s) PROVE Follows'
      BY <1>1, <2>1, <2>2, HandlerFollows DEF AuditHandler, CancelledByApi, execVars
    <2>3. ASSUME NEW x \in ExecSession, NEW mode \in {"auto", "manual", "timing"},
                 ExecCheck(x, mode)
          PROVE  Follows'
      <3>1. \A s \in Session : req[s] = Idle
        <4>1. xreq'[x] # "idle"
          BY <1>1, <2>3 DEF ExecCheck, TypeOK
        <4> QED
          BY <2>1, <2>3, <4>1 DEF InTurn, ExecCheck, auditVars
      <3>2. audit.status = "PASSED"
        BY <2>1, <2>3, <3>1, IdleIs
        DEF ExecCheck, Executable, Follows, RunnablePassed, BetweenCommits, At, Runnable
      <3> QED
        BY <2>1, <2>3, <3>2, ExecuteFollows DEF ExecCheck, auditVars
    <2>4. ASSUME NEW x \in ExecSession,
                 ExecQueue(x) \/ ExecManual(x) \/ TimingCommit(x) \/ ExecUnschedule(x)
                 \/ ExecEnqueue(x)
          PROVE  Follows'
      <3>1. audit.status = "PASSED"
        BY <2>1, <2>4
        DEF ExecQueue, ExecManual, TimingCommit, ExecUnschedule, ExecEnqueue, Follows, CheckedPassed
      <3>2. UNCHANGED <<audit, req>>
        BY <2>4 DEF ExecQueue, ExecManual, TimingCommit, ExecUnschedule, ExecEnqueue, auditVars
      <3> QED
        BY <2>1, <3>1, <3>2, ExecuteFollows
    <2>5. ASSUME SchedulerFire \/ (\E t \in Task :
                    \/ ExecuteStart(t) \/ ExecuteRefuse(t)
                    \/ \E success \in BOOLEAN : ExecuteReturn(t, success)
                    \/ Crash(t) \/ HookRead(t) \/ HookRefuse(t) \/ HookSave(t))
          PROVE  Follows'
      <3>1. UNCHANGED <<audit, req, xreq>>
        BY <2>5
        DEF SchedulerFire, ExecuteStart, ExecuteRefuse, ExecuteReturn, Crash, HookRead, HookRefuse,
            HookSave, auditVars
      <3>2. wf' = wf \/ wf' \in {"workflow_executing", "workflow_finish", "workflow_exception"}
        BY <2>5
        DEF SchedulerFire, ExecuteStart, ExecuteRefuse, ExecuteReturn, Crash, HookRead, HookRefuse,
            HookSave, auditVars
      <3> QED
        BY <2>1, <3>1, <3>2, ExecuteFollows DEF Runnable
    <2> QED
      BY <1>3, <2>2, <2>3, <2>4, <2>5 DEF Next, Step
  <1> QED
    BY <1>2, <1>3

(* The status is executable, by Follows the audit is passed. *)
LEMMA StartsApproved ==
    SqlInv /\ TurnInv /\ [Next]_vars
      => [calm /\ ~BetweenCommits =>
            \A t \in Task : task[t].pc = "queued" /\ task'[t].pc = "running"
                            => audit.status = "PASSED"]_vars
  <1> SUFFICES ASSUME SqlInv, TurnInv, Next, calm, ~BetweenCommits,
                      NEW t \in Task, task[t].pc = "queued", task'[t].pc = "running"
               PROVE  audit.status = "PASSED"
    BY DEF vars
  <1>1. TypeOK
    BY DEF SqlInv
  <1>2. CASE task' = task
    BY <1>2
  <1>3. CASE SchedulerFire \/ \E x \in ExecSession : ExecEnqueue(x)
    BY <1>1, <1>3 DEF SchedulerFire, ExecEnqueue, async_task, TypeOK, Free
  <1>4. ASSUME NEW t2 \in Task,
               \/ ExecuteRefuse(t2) \/ (\E success \in BOOLEAN : ExecuteReturn(t2, success))
               \/ Crash(t2) \/ HookRead(t2) \/ HookRefuse(t2) \/ HookSave(t2)
        PROVE  FALSE
    BY <1>1, <1>4
    DEF ExecuteRefuse, ExecuteReturn, Crash, HookRead, HookRefuse, HookSave, TypeOK, Free
  <1>5. ASSUME NEW t2 \in Task, ExecuteStart(t2) PROVE audit.status = "PASSED"
    BY <1>5 DEF ExecuteStart, TurnInv, Follows, RunnablePassed, Runnable
  <1>6. ASSUME NEW s \in Session, AuditHandler(s) \/ CancelledByApi(s) PROVE task' = task
    BY <1>6 DEF AuditHandler, CancelledByApi, execVars
  <1>7. ASSUME NEW x \in ExecSession, 
               \/ \E mode \in {"auto", "manual", "timing"} : ExecCheck(x, mode)
               \/ ExecQueue(x) \/ ExecUnschedule(x) \/ ExecManual(x) \/ TimingCommit(x)
        PROVE task' = task
    BY <1>7 DEF ExecCheck, ExecQueue, ExecUnschedule, ExecManual, TimingCommit
  <1> QED
    BY <1>2, <1>3, <1>4, <1>5, <1>6, <1>7 DEF Next, Step

-----------------------------------------------------------------------------
(* The theorems *)

THEOREM SqlInvariant == Spec => []SqlInv
  BY InitSqlInv, StepSqlInv, PTL DEF Spec

(* Rows, requests, schedule and messages keep the types the code gives them.*)
THEOREM SqlTypes == Spec => []TypeOK
  <1>1. SqlInv => TypeOK
    BY DEF SqlInv
  <1> QED
    BY <1>1, SqlInvariant, PTL

(* Whatever the number of handlers, messages and crashes, statements run or  *)
(* wait to run only for a workflow that was approved.                        *)
THEOREM SqlOnlyApprovedRuns == Spec => []OnlyApprovedRuns
  <1>1. SqlInv => OnlyApprovedRuns
    BY DEF SqlInv, Active, Released, ApprovedRow, OnlyApprovedRuns, Approved,
           AllApproved, LevelApproved, AllPassedIn, PassedIn
  <1> QED
    BY <1>1, SqlInvariant, PTL

(* In whatever order requests that take turns, schedule, messages, crashes  *)
(* and hooks come, statements begin to run only while the audit is passed.  *)
THEOREM SqlStartsWhileApproved == Spec => StartsWhileApproved
  <1>1. SqlInv /\ SqlInv' /\ TurnInv /\ [Next]_vars => TurnInv'
    BY StepTurnInv
  <1> QED
    BY <1>1, InitTurnInv, StartsApproved, SqlInvariant, PTL DEF Spec, StartsWhileApproved

(* As long as nothing is lost, no workflow waits for something that is not   *)
(* on its way.                                                              *)
THEOREM SqlNoWaitInVain == Spec => []NoWaitInVain
  <1>1. Init => NoWaitInVain
    BY DEF Init, AuditInit, NoWaitInVain
  <1>2. SqlInv /\ NoWaitInVain /\ [Next]_vars => NoWaitInVain'
    BY StepWait
  <1> QED
    BY <1>1, <1>2, SqlInvariant, PTL DEF Spec

(* Only the handlers of the approval flow write the audit. *)
LEMMA SqlStepOfAudit ==
    [Next]_vars => AuditNext \/ UNCHANGED <<audit, approvals, req>>
  <1> SUFFICES ASSUME [Next]_vars PROVE AuditNext \/ UNCHANGED <<audit, approvals, req>>
    OBVIOUS
  <1>1. ASSUME NEW s \in Session, AuditHandler(s) \/ CancelledByApi(s) PROVE AuditNext
    BY <1>1 DEF AuditHandler, CancelledByApi, AuditNext
  <1>2. ASSUME NEW x \in ExecSession,
               \/ \E mode \in {"auto", "manual", "timing"} : ExecCheck(x, mode)
               \/ ExecQueue(x) \/ ExecUnschedule(x) \/ ExecEnqueue(x) \/ ExecManual(x)
               \/ TimingCommit(x)
        PROVE  UNCHANGED <<audit, approvals, req>>
    BY <1>2 DEF ExecCheck, ExecQueue, ExecUnschedule, ExecEnqueue, ExecManual, TimingCommit,
       auditVars
  <1>3. ASSUME NEW t \in Task,
               \/ ExecuteStart(t) \/ ExecuteRefuse(t)
               \/ \E success \in BOOLEAN : ExecuteReturn(t, success)
               \/ Crash(t) \/ HookRead(t) \/ HookRefuse(t) \/ HookSave(t)
        PROVE  UNCHANGED <<audit, approvals, req>>
    BY <1>3 DEF ExecuteStart, ExecuteRefuse, ExecuteReturn, Crash, HookRead, HookRefuse, HookSave,
       auditVars
  <1>4. SchedulerFire \/ UNCHANGED vars => UNCHANGED <<audit, approvals, req>>
    BY DEF SchedulerFire, vars, sysVars, auditVars
  <1> QED
    BY <1>1, <1>2, <1>3, <1>4 DEF Next, Step

(* Execution beside it changes nothing about that: while requests to decide *)
(* are handled one at a time, a closed audit stays closed, ...              *)
THEOREM SqlClosedStaysClosed == OneAtATime /\ Spec => ClosedStaysClosed
  <1>1. OneAtATime /\ Init => AloneInv
    BY AloneInit DEF Init
  <1>2. AloneInv /\ AuditInv' /\ [Next]_vars => AloneInv'
    BY AloneKept, SqlStepOfAudit
  <1>3. AloneInv /\ [Next]_vars
          => [/\ audit.status \in {"REJECTED", "ABORTED"} => audit' = audit
              /\ audit.status = "PASSED" => audit'.status # "WAITING"]_auditVars
    BY AloneCloses, SqlStepOfAudit DEF StaysClosed
  <1>4. SqlInv => AuditInv
    BY DEF SqlInv
  <1> QED
    BY <1>1, <1>2, <1>3, <1>4, SqlInvariant, PTL DEF Spec, ClosedStaysClosed

(* ... and the handlers implement the abstract approval flow.               *)
THEOREM SqlImplementsApproval ==
    OneAtATime /\ DistinctLevels /\ Spec => ImplementsApproval
  <1>1. OneAtATime /\ DistinctLevels /\ Init => OrderInv /\ Abstract!ApprovalInit
    BY OrderInit DEF Init
  <1>2. OrderInv /\ AuditInv' /\ [Next]_vars
          => OrderInv' /\ [Abstract!ApprovalNext]_(Abstract!approvalVars)
    BY OrderKept, SqlStepOfAudit
  <1>3. SqlInv => AuditInv
    BY DEF SqlInv
  <1> QED
    BY <1>1, <1>2, <1>3, SqlInvariant, PTL DEF Spec, ImplementsApproval, Abstract!ApprovalSpec
=============================================================================
