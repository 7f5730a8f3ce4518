------------------------ MODULE ApplicationsProofs ------------------------
(***************************************************************************)
(* The applications for privileges and the archive jobs, proved for every  *)
(* chain, every set of users and any number of concurrent requests.        *)
(*                                                                         *)
(* As in AuditFlowProofs it is the copies of the audit row that carry the  *)
(* argument: none of them says PASSED unless every level was passed, and   *)
(* what a handler writes, inserts or sends follows from a copy it holds.   *)
(* In the second part it is the order of the writes: who has passed the    *)
(* audit still has the privileges before it (SettleInv).                   *)
(***************************************************************************)
EXTENDS Applications, AuditFlowProofs

(* What has followed from the application so far. *)
Effect == (\E g \in 1..MaxGrant : grant[g] # "none") \/ "schedule" \in queue

(* What a handler holds, while the approvals are A. *)
HeldApp(q, A) ==
    /\ RowInv(q.row, A)
    /\ ~q.row.auto
    /\ q.pc = "granting" => AllPassedIn(A)

(* An application that is not a SQL workflow: the system never passes it by  *)
(* itself.                                                                  *)
OwnInv ==
    /\ RowInv(audit, approvals)
    /\ ~audit.auto
    /\ \A s \in Session : HeldApp(areq[s], approvals)
    /\ app.status = "PASSED" => AllPassedIn(approvals)
    /\ Effect => AllPassedIn(approvals)

(* A SQL workflow, of which none of the added parts is ever used. *)
SqlInv ==
    /\ AuditInv
    /\ app = NoApp
    /\ areq = [s \in Session |-> AppIdle]
    /\ grant = [g \in 1..MaxGrant |-> "none"]
    /\ queue = {}

AppInv ==
    /\ AppTypeOK
    /\ kind = "sql" => SqlInv
    /\ kind # "sql" => OwnInv

-----------------------------------------------------------------------------

LEMMA AppIdleFacts ==
    ASSUME NEW A
    PROVE  AppIdle \in AppRequest /\ HeldApp(AppIdle, A) /\ NoApp \in AppRow
  BY NoRowFacts DEF AppIdle, AppRequest, HeldApp, NoApp, AppRow, NoRow

LEMMA AppReqFacts ==
    ASSUME AppInv, kind # "sql", NEW s \in Session
    PROVE  /\ areq[s] \in AppRequest /\ areq[s].row \in AuditRow /\ areq[s].app \in AppRow
           /\ HeldApp(areq[s], approvals)
  BY DEF AppInv, AppTypeOK, OwnInv, AppRequest

(* A step of session s keeps what the others hold. *)
LEMMA AppOthersKeep ==
    ASSUME AppInv, kind # "sql", NEW s \in Session, NEW r \in AppRequest,
           areq' = [areq EXCEPT ![s] = r],
           approvals \subseteq approvals', HeldApp(r, approvals')
    PROVE  /\ areq' \in [Session -> AppRequest]
           /\ \A q \in Session : HeldApp(areq'[q], approvals')
  <1>1. areq \in [Session -> AppRequest]
    BY DEF AppInv, AppTypeOK
  <1>2. ASSUME NEW q \in Session PROVE HeldApp(areq'[q], approvals')
    <2>1. CASE q = s
      BY <1>1, <2>1
    <2>2. CASE q # s
      <3>1. areq'[q] = areq[q] /\ HeldApp(areq[q], approvals)
        BY <1>1, <2>2, AppReqFacts
      <3> QED
        BY <3>1, RowInvMonotone, AllPassedMonotone DEF HeldApp
    <2> QED
      BY <2>1, <2>2
  <1> QED
    BY <1>1, <1>2

(* AppInv, from the parts that a step has to re-establish. *)
LEMMA AppFromParts ==
    ASSUME AppInv, kind # "sql", kind' = kind, wf' = wf, req' = req,
           audit' \in AuditRow, approvals' \subseteq User \X Group, approvals \subseteq approvals',
           app' \in AppRow, areq' \in [Session -> AppRequest],
           grant' \in [1..MaxGrant -> {"none", "live", "deleted"}],
           queue' \subseteq {"schedule", "once"}, calm' \in BOOLEAN, died' \in BOOLEAN,
           copies' \subseteq 1..MaxGrant,
           RowInv(audit', approvals'), ~audit'.auto,
           \A s \in Session : HeldApp(areq'[s], approvals'),
           app' = app \/ (app'.status = "PASSED" => AllPassedIn(approvals')),
           Effect' => Effect \/ AllPassedIn(approvals')
    PROVE  AppInv'
  <1>1. AppTypeOK'
    BY DEF AppInv, AppTypeOK, AuditTypeOK
  <1>2. AllPassedIn(approvals) => AllPassedIn(approvals')
    BY AllPassedMonotone
  <1>3. app'.status = "PASSED" => AllPassedIn(approvals')
    BY <1>2 DEF AppInv, OwnInv
  <1>4. Effect' => AllPassedIn(approvals')
    BY <1>2 DEF AppInv, OwnInv
  <1>5. OwnInv'
    BY <1>3, <1>4 DEF OwnInv
  <1> QED
    BY <1>1, <1>5 DEF AppInv

(* A step that writes neither the audit nor its approvals. *)
LEMMA AppQuiet ==
    ASSUME AppInv, kind # "sql", NEW s \in Session, NEW r \in AppRequest,
           areq' = [areq EXCEPT ![s] = r], HeldApp(r, approvals),
           UNCHANGED <<auditVars, kind, queue>>,
           app' \in AppRow, app' = app \/ (app'.status = "PASSED" => AllPassedIn(approvals)),
           grant' \in [1..MaxGrant -> {"none", "live", "deleted"}],
           grant' = grant \/ AllPassedIn(approvals),
           calm' \in BOOLEAN, died' \in BOOLEAN, copies' \subseteq 1..MaxGrant
    PROVE  AppInv'
  <1>1. audit' = audit /\ approvals' = approvals /\ wf' = wf /\ req' = req
    BY DEF auditVars
  <1>2. areq' \in [Session -> AppRequest] /\ \A q \in Session : HeldApp(areq'[q], approvals')
    BY <1>1, AppOthersKeep
  <1>3. Effect' => Effect \/ AllPassedIn(approvals')
    BY <1>1 DEF Effect
  <1> QED
    BY <1>1, <1>2, <1>3, AppFromParts DEF AppInv, AppTypeOK, AuditTypeOK, OwnInv

(* Where a flag of the history may go. *)
LEMMA Flags ==
    ASSUME AppInv
    PROVE  /\ calm \in BOOLEAN /\ died \in BOOLEAN
           /\ Turn => calm' \in BOOLEAN
           /\ grant \in [1..MaxGrant -> {"none", "live", "deleted"}]
           /\ Insert => grant' \in [1..MaxGrant -> {"none", "live", "deleted"}]
           /\ app \in AppRow /\ audit \in AuditRow
           /\ queue \subseteq {"schedule", "once"} /\ copies \subseteq 1..MaxGrant
  BY DEF AppInv, AppTypeOK, AuditTypeOK, Turn, Insert

-----------------------------------------------------------------------------
(* Writing the audit row *)

(* Operate computes from the row that is held, and records who passed. *)
LEMMA OperateFacts ==
    ASSUME AppInv, kind # "sql", NEW s \in Session, NEW u \in User,
           NEW act \in {"PASS", "REJECT", "ABORT"}, Operate(s, u, act)
    PROVE  LET new == operate(act, areq[s].row)
           IN  /\ new \in AuditRow /\ ~new.auto /\ new.status \in WorkflowStatus
               /\ audit' = new
               /\ RowInv(new, approvals')
               /\ new.status = "PASSED" => AllPassedIn(approvals')
               /\ approvals \subseteq approvals' /\ approvals' \subseteq User \X Group
  <1> DEFINE row == areq[s].row
  <1> DEFINE new == operate(act, row)
  <1>1. /\ row \in AuditRow /\ RowInv(row, approvals) /\ ~row.auto
    BY AppReqFacts DEF HeldApp
  <1>2. /\ can_operate(act, u, row) /\ audit' = new
        /\ approvals' = IF act = "PASS" THEN approvals \cup {<<u, row.current>>} ELSE approvals
    BY DEF Operate
  <1>3. approvals \subseteq User \X Group
    BY DEF AppInv, AppTypeOK, AuditTypeOK
  <1> HIDE DEF row
  <1>4. /\ new \in AuditRow /\ new.status # "NONE" /\ new.auto = row.auto
        /\ RowInv(new, approvals') /\ approvals \subseteq approvals'
        /\ approvals' \subseteq User \X Group
    <2>1. CASE act = "PASS"
      <3>1. new = operate_pass(row) /\ approvals' = approvals \cup {<<u, row.current>>}
        BY <1>2, <2>1 DEF operate, ExecuteAction
      <3>2. /\ operate_pass(row) \in AuditRow /\ operate_pass(row).status # "NONE"
            /\ operate_pass(row).auto = row.auto /\ row.current \in Group
            /\ RowInv(operate_pass(row), approvals \cup {<<u, row.current>>})
        BY <1>1, <1>2, <2>1, PassRow
      <3> QED
        BY <1>3, <3>1, <3>2
    <2>2. CASE act \in {"REJECT", "ABORT"}
      <3>1. /\ new \in AuditRow /\ new.status \in {"REJECTED", "ABORTED"}
            /\ new.auto = row.auto /\ RowInv(new, approvals)
        BY <1>1, <1>2, <2>2, CloseRow
      <3> QED
        BY <1>2, <1>3, <2>2, <3>1
    <2> QED
      BY <2>1, <2>2
  <1>5. new.status \in WorkflowStatus
    <2> HIDE DEF new
    <2> QED
      BY <1>4 DEF AuditRow
  <1>6. new.status = "PASSED" => AllPassedIn(approvals')
    <2> HIDE DEF new
    <2> QED
      BY <1>1, <1>4 DEF RowInv
  <1> QED
    BY <1>1, <1>2, <1>4, <1>5, <1>6 DEF row

(* A handler that writes the audit row, with what its transaction adds. *)
LEMMA AppWrite ==
    ASSUME AppInv, kind # "sql", NEW s \in Session, NEW u \in User,
           NEW act \in {"PASS", "REJECT", "ABORT"}, Operate(s, u, act), NEW r \in AppRequest,
           areq' = [areq EXCEPT ![s] = r],
           r = AppIdle \/ (r.row = audit' /\ r.pc # "granting"),
           UNCHANGED <<wf, req, kind, queue, calm, died, copies>>,
           app' \in AppRow, app' = app \/ app'.status = operate(act, areq[s].row).status,
           grant' \in [1..MaxGrant -> {"none", "live", "deleted"}],
           grant' = grant \/ operate(act, areq[s].row).status = "PASSED"
    PROVE  AppInv'
  <1> DEFINE new == operate(act, areq[s].row)
  <1>1. /\ new \in AuditRow /\ ~new.auto /\ audit' = new /\ RowInv(new, approvals')
        /\ new.status = "PASSED" => AllPassedIn(approvals')
        /\ approvals \subseteq approvals' /\ approvals' \subseteq User \X Group
    BY OperateFacts
  <1> HIDE DEF new
  <1>2. HeldApp(r, approvals')
    <2>1. CASE r = AppIdle
      BY <2>1, AppIdleFacts
    <2>2. CASE r.row = audit' /\ r.pc # "granting"
      BY <1>1, <2>2 DEF HeldApp
    <2> QED
      BY <2>1, <2>2
  <1>3. areq' \in [Session -> AppRequest] /\ \A q \in Session : HeldApp(areq'[q], approvals')
    BY <1>1, <1>2, AppOthersKeep
  <1>4. Effect' => Effect \/ AllPassedIn(approvals')
    BY <1>1 DEF Effect, new
  <1>5. app' = app \/ (app'.status = "PASSED" => AllPassedIn(approvals'))
    BY <1>1 DEF new
  <1> QED
    BY <1>1, <1>3, <1>4, <1>5, Flags, AppFromParts

-----------------------------------------------------------------------------
(* One lemma for each group of actions *)

LEMMA NewRow ==
    ASSUME NEW A
    PROVE  /\ create_audit("manual") \in AuditRow /\ RowInv(create_audit("manual"), A)
           /\ ~create_audit("manual").auto
  BY CreateAuditRow DEF AuditSetting, create_audit

LEMMA ApplyInv ==
    ASSUME AppInv, kind # "sql", NEW s \in Session, Apply(s)
    PROVE  AppInv'
  <1> DEFINE r == [AppIdle EXCEPT !.pc = "created", !.view = "apply",
                                  !.row = create_audit("manual")]
  <1>1. r \in AppRequest /\ HeldApp(r, approvals)
    BY NewRow, AppIdleFacts DEF AppIdle, AppRequest, HeldApp
  <1>2. /\ areq' = [areq EXCEPT ![s] = r] /\ audit' = create_audit("manual")
        /\ UNCHANGED <<wf, approvals, req, kind, grant, queue, died, copies>>
        /\ Turn /\ app' = [app EXCEPT !.status = "WAITING"]
    BY DEF Apply
  <1>3. app' \in AppRow /\ app'.status = "WAITING"
    BY <1>2, Flags DEF AppRow, WorkflowStatus
  <1> HIDE DEF r
  <1>4. areq' \in [Session -> AppRequest] /\ \A q \in Session : HeldApp(areq'[q], approvals')
    BY <1>1, <1>2, AppOthersKeep
  <1>5. Effect' = Effect
    BY <1>2 DEF Effect
  <1> QED
    BY <1>2, <1>3, <1>4, <1>5, NewRow, Flags, AppFromParts DEF AppInv, AppTypeOK, AuditTypeOK

LEMMA ApplyCallBackInv ==
    ASSUME AppInv, kind # "sql", NEW s \in Session, ApplyCallBack(s)
    PROVE  AppInv'
  <1>1. /\ areq' = [areq EXCEPT ![s] = AppIdle] /\ app' = [app EXCEPT !.status = areq[s].row.status]
        /\ UNCHANGED <<auditVars, kind, grant, queue, calm, died, copies>>
    BY DEF ApplyCallBack, AppDone
  <1>2. app' \in AppRow /\ app'.status = areq[s].row.status
    BY <1>1, Flags, AppReqFacts DEF AppRow, AuditRow
  <1>3. areq[s].row.status = "PASSED" => AllPassedIn(approvals)
    BY AppReqFacts DEF HeldApp, RowInv
  <1> QED
    BY <1>1, <1>2, <1>3, AppIdleFacts, Flags, AppQuiet

LEMMA ApplyArchiveInv ==
    ASSUME AppInv, kind # "sql", ApplyArchive
    PROVE  AppInv'
  <1>1. /\ audit' = create_audit("manual") /\ app' = [status |-> "WAITING", state |-> FALSE]
        /\ UNCHANGED <<wf, approvals, req, kind, areq, grant, queue, calm, died, copies>>
    BY DEF ApplyArchive
  <1>2. app' \in AppRow /\ app'.status = "WAITING"
    BY <1>1 DEF AppRow, WorkflowStatus
  <1>3. Effect' = Effect
    BY <1>1 DEF Effect
  <1> QED
    BY <1>1, <1>2, <1>3, NewRow, Flags, AppFromParts DEF AppInv, AppTypeOK, AuditTypeOK, OwnInv

(* Loading, and being refused. *)
LEMMA ReadInvs ==
    ASSUME AppInv, kind # "sql", NEW s \in Session,
           \/ AuditFind(s) \/ AuditLoad(s) \/ PostLoad(s) \/ Die(s)
           \/ \E u \in User, act \in WorkflowAction : AppRefused(s, u, act)
    PROVE  AppInv'
  <1>1. CASE AuditFind(s)
    <2> DEFINE r == [pc |-> "found", view |-> "audit", row |-> NoRow,
                     app |-> IF kind = "archive" THEN app ELSE NoApp]
    <2>1. r \in AppRequest /\ HeldApp(r, approvals)
      BY NoRowFacts, AppIdleFacts, Flags DEF AppRequest, HeldApp, NoRow
    <2>2. areq' = [areq EXCEPT ![s] = r] /\ Turn
          /\ UNCHANGED <<auditVars, kind, app, grant, queue, died, copies>>
      BY <1>1 DEF AuditFind
    <2> HIDE DEF r
    <2> QED
      BY <2>1, <2>2, Flags, AppQuiet
  <1>2. CASE AuditLoad(s)
    <2> DEFINE r == [areq[s] EXCEPT !.pc = "loaded", !.row = audit]
    <2>1. r \in AppRequest /\ HeldApp(r, approvals)
      BY AppReqFacts, Flags DEF AppRequest, HeldApp, AppInv, OwnInv
    <2>2. areq' = [areq EXCEPT ![s] = r]
          /\ UNCHANGED <<auditVars, kind, app, grant, queue, calm, died, copies>>
      BY <1>2 DEF AuditLoad, AppInv, AppTypeOK
    <2> HIDE DEF r
    <2> QED
      BY <2>1, <2>2, Flags, AppQuiet
  <1>3. CASE PostLoad(s)
    <2> DEFINE r == [pc |-> "loaded", view |-> "post", row |-> audit, app |-> NoApp]
    <2>1. r \in AppRequest /\ HeldApp(r, approvals)
      BY AppIdleFacts, Flags DEF AppRequest, HeldApp, AppInv, OwnInv
    <2>2. areq' = [areq EXCEPT ![s] = r] /\ Turn
          /\ UNCHANGED <<auditVars, kind, app, grant, queue, died, copies>>
      BY <1>3 DEF PostLoad
    <2> HIDE DEF r
    <2> QED
      BY <2>1, <2>2, Flags, AppQuiet
  <1>4. CASE Die(s)
    <2>1. areq' = [areq EXCEPT ![s] = AppIdle] /\ calm' = FALSE /\ died' = TRUE
          /\ UNCHANGED <<auditVars, kind, app, grant, queue, copies>>
      BY <1>4 DEF Die, AppDone
    <2> QED
      BY <2>1, AppIdleFacts, Flags, AppQuiet
  <1>5. CASE \E u \in User, act \in WorkflowAction : AppRefused(s, u, act)
    <2>1. areq' = [areq EXCEPT ![s] = AppIdle]
          /\ UNCHANGED <<auditVars, kind, app, grant, queue, calm, died, copies>>
      BY <1>5 DEF AppRefused, AppDone
    <2> QED
      BY <2>1, AppIdleFacts, Flags, AppQuiet
  <1> QED
    BY <1>1, <1>2, <1>3, <1>4, <1>5

LEMMA AuditQueryInv ==
    ASSUME AppInv, kind # "sql", NEW s \in Session, NEW u \in User,
           NEW act \in {"PASS", "REJECT", "ABORT"}, AuditQuery(s, u, act)
    PROVE  AppInv'
  <1> DEFINE new == operate(act, areq[s].row)
  <1>1. /\ Operate(s, u, act) /\ app' = [app EXCEPT !.status = new.status]
        /\ (new.status = "PASSED" /\ Insert) \/ grant' = grant
        /\ areq' = [areq EXCEPT ![s] = AppIdle]
        /\ UNCHANGED <<wf, req, kind, queue, calm, died, copies>>
    BY DEF AuditQuery, AppDone
  <1>2. new.status \in WorkflowStatus
    BY <1>1, OperateFacts
  <1> HIDE DEF new
  <1>3. app' \in AppRow /\ app'.status = new.status
    BY <1>1, <1>2, Flags DEF AppRow
  <1>4. grant' \in [1..MaxGrant -> {"none", "live", "deleted"}]
    BY <1>1, Flags
  <1> QED
    BY <1>1, <1>3, <1>4, AppIdleFacts, AppWrite DEF new

LEMMA AuditArchiveInv ==
    ASSUME AppInv, kind # "sql", NEW s \in Session, NEW u \in User,
           NEW act \in {"PASS", "REJECT", "ABORT"}, AuditArchive(s, u, act)
    PROVE  AppInv'
  <1> DEFINE new == operate(act, areq[s].row)
  <1>1. /\ Operate(s, u, act)
        /\ app' = [status |-> new.status, state |-> areq[s].app.state \/ new.status = "PASSED"]
        /\ areq' = [areq EXCEPT ![s] = AppIdle]
        /\ UNCHANGED <<wf, req, kind, grant, queue, calm, died, copies>>
    BY DEF AuditArchive, AppDone
  <1>2. new.status \in WorkflowStatus
    BY <1>1, OperateFacts
  <1> HIDE DEF new
  <1>3. app' \in AppRow /\ app'.status = new.status
    BY <1>1, <1>2, AppReqFacts DEF AppRow
  <1> QED
    BY <1>1, <1>3, Flags, AppIdleFacts, AppWrite DEF new

(* An execution action follows a copy of a passed row, which it leaves. *)
LEMMA ExecuteFacts ==
    ASSUME AppInv, kind # "sql", NEW s \in Session, NEW u \in User, NEW act \in ExecuteAction,
           can_operate(act, u, areq[s].row)
    PROVE  areq[s].row.status = "PASSED" /\ AllPassedIn(approvals)
  <1>1. areq[s].row.status = "PASSED"
    BY AppReqFacts DEF can_operate, ExecuteAction, SUPPORTED_OPERATION_GRID, AuditRow, WorkflowStatus
  <1> QED
    BY <1>1, AppReqFacts DEF HeldApp, RowInv

LEMMA ExecuteInv ==
    ASSUME AppInv, kind # "sql", NEW s \in Session, NEW u \in User, NEW act \in ExecuteAction,
           ExecuteQuery(s, u, act) \/ ExecuteArchive(s, u, act)
    PROVE  AppInv'
  <1>1. /\ can_operate(act, u, areq[s].row) /\ areq' = [areq EXCEPT ![s] = AppIdle]
        /\ UNCHANGED <<auditVars, kind, queue, calm, died>>
    BY DEF ExecuteQuery, ExecuteArchive, AppDone
  <1>2. areq[s].row.status = "PASSED" /\ AllPassedIn(approvals)
    BY <1>1, ExecuteFacts
  <1>3. /\ app' \in AppRow
        /\ Insert \/ grant' = grant
        /\ copies' \subseteq 1..MaxGrant
    <2>1. CASE ExecuteQuery(s, u, act)
      BY <1>2, <2>1, Flags DEF ExecuteQuery, AppRow, WorkflowStatus
    <2>2. CASE ExecuteArchive(s, u, act)
      BY <1>2, <2>2, Flags DEF ExecuteArchive, AppRow, WorkflowStatus
    <2> QED
      BY <2>1, <2>2
  <1> QED
    BY <1>1, <1>2, <1>3, AppIdleFacts, Flags, AppQuiet

LEMMA PostOperateInv ==
    ASSUME AppInv, kind # "sql", NEW s \in Session, NEW u \in User, PostOperate(s, u)
    PROVE  AppInv'
  <1> DEFINE new == operate_pass(areq[s].row)
  <1> DEFINE r == [areq[s] EXCEPT !.pc = "operated", !.row = new]
  <1>1. /\ Operate(s, u, "PASS") /\ new = operate("PASS", areq[s].row)
        /\ areq' = [areq EXCEPT ![s] = r]
        /\ UNCHANGED <<wf, req, kind, app, grant, queue, calm, died, copies>>
    BY DEF PostOperate, operate, ExecuteAction, AppInv, AppTypeOK
  <1>2. new \in AuditRow /\ audit' = new
    BY <1>1, OperateFacts
  <1> HIDE DEF new
  <1>3. r \in AppRequest /\ r.row = audit' /\ r.pc # "granting"
    BY <1>2, AppReqFacts DEF AppRequest
  <1> HIDE DEF r
  <1> QED
    BY <1>1, <1>3, Flags, AppWrite

(* The writes of the REST view that come after that of the audit row. *)
LEMMA PostWriteInv ==
    ASSUME AppInv, kind # "sql", NEW s \in Session,
           PostQuery(s) \/ PostGrant(s) \/ PostArchive(s)
    PROVE  AppInv'
  <1>1. areq[s].row.status = "PASSED" => AllPassedIn(approvals)
    BY AppReqFacts DEF HeldApp, RowInv
  <1>2. areq[s].row.status \in WorkflowStatus \cup {"NONE"}
    BY AppReqFacts DEF AuditRow
  <1>3. CASE PostQuery(s)
    <2>1. /\ app' = [app EXCEPT !.status = areq[s].row.status]
          /\ UNCHANGED <<auditVars, kind, grant, queue, calm, died, copies>>
      BY <1>3 DEF PostQuery
    <2>2. app' \in AppRow /\ app'.status = areq[s].row.status
      BY <1>2, <2>1, Flags DEF AppRow
    <2>3. CASE areq[s].row.status = "PASSED"
      <3> DEFINE r == [areq[s] EXCEPT !.pc = "granting"]
      <3>1. r \in AppRequest /\ HeldApp(r, approvals)
        BY <1>1, <2>3, AppReqFacts DEF AppRequest, HeldApp
      <3>2. areq' = [areq EXCEPT ![s] = r]
        BY <1>3, <2>3 DEF PostQuery, AppInv, AppTypeOK
      <3> HIDE DEF r
      <3> QED
        BY <1>1, <2>1, <2>2, <3>1, <3>2, Flags, AppQuiet
    <2>4. CASE areq[s].row.status # "PASSED"
      <3>1. areq' = [areq EXCEPT ![s] = AppIdle]
        BY <1>3, <2>4 DEF PostQuery, AppDone
      <3> QED
        BY <1>1, <2>1, <2>2, <3>1, Flags, AppIdleFacts, AppQuiet
    <2> QED
      BY <2>3, <2>4
  <1>4. CASE PostGrant(s)
    <2>1. /\ areq[s].pc = "granting" /\ Insert /\ areq' = [areq EXCEPT ![s] = AppIdle]
          /\ UNCHANGED <<auditVars, kind, app, queue, calm, died, copies>>
      BY <1>4 DEF PostGrant, AppAt, AppDone
    <2>2. AllPassedIn(approvals)
      BY <2>1, AppReqFacts DEF HeldApp
    <2> QED
      BY <2>1, <2>2, Flags, AppIdleFacts, AppQuiet
  <1>5. CASE PostArchive(s)
    <2>1. /\ app' = [status |-> areq[s].row.status, state |-> areq[s].row.status = "PASSED"]
          /\ areq' = [areq EXCEPT ![s] = AppIdle]
          /\ UNCHANGED <<auditVars, kind, grant, queue, calm, died, copies>>
      BY <1>5 DEF PostArchive, AppDone
    <2>2. app' \in AppRow /\ app'.status = areq[s].row.status
      BY <1>2, <2>1 DEF AppRow
    <2> QED
      BY <1>1, <2>1, <2>2, Flags, AppIdleFacts, AppQuiet
  <1> QED
    BY <1>3, <1>4, <1>5

(* What happens outside of a request.  The schedule reads the status, the   *)
(* switch does not touch it.                                                *)
LEMMA OutsideInv ==
    ASSUME AppInv, kind # "sql",
           \/ \E g \in 1..MaxGrant : Revoke(g)
           \/ \E on \in BOOLEAN : Switch(on)
           \/ add_archive_task \/ archive_once
           \/ \E m \in queue : archive(m)
    PROVE  AppInv'
  <1>1. /\ UNCHANGED <<auditVars, kind, areq, copies>> /\ calm' \in BOOLEAN /\ died' = died
        /\ audit' = audit /\ approvals' = approvals /\ wf' = wf /\ req' = req
    BY Flags DEF Revoke, Switch, add_archive_task, archive_once, archive, auditVars
  <1>2. app' \in AppRow /\ app'.status = app.status
    BY Flags DEF Revoke, Switch, add_archive_task, archive_once, archive, AppRow
  <1>3. grant' \in [1..MaxGrant -> {"none", "live", "deleted"}]
        /\ queue' \subseteq {"schedule", "once"}
    BY Flags DEF Revoke, Switch, add_archive_task, archive_once, archive
  <1>4. Effect' => Effect \/ app.status = "PASSED"
    <2>1. CASE \E g \in 1..MaxGrant : Revoke(g)
      <3>1. PICK g \in 1..MaxGrant : Revoke(g)
        BY <2>1
      <3>2. grant[g] = "live" /\ queue' = queue
        BY <3>1 DEF Revoke
      <3> QED
        BY <3>2 DEF Effect
    <2>2. CASE \E on \in BOOLEAN : Switch(on)
      BY <2>2 DEF Switch, Effect
    <2>3. CASE add_archive_task
      BY <2>3 DEF add_archive_task
    <2>4. CASE archive_once
      BY <2>4 DEF archive_once, Effect
    <2>5. CASE \E m \in queue : archive(m)
      BY <2>5 DEF archive, Effect
    <2> QED
      BY <2>1, <2>2, <2>3, <2>4, <2>5
  <1>5. app.status = "PASSED" => AllPassedIn(approvals)
    BY DEF AppInv, OwnInv
  <1> QED
    BY <1>1, <1>2, <1>3, <1>4, <1>5, AppFromParts DEF AppInv, AppTypeOK, AuditTypeOK, OwnInv

-----------------------------------------------------------------------------
(* The theorems *)

LEMMA InitAppInv == AppInit => AppInv
  <1> SUFFICES ASSUME AppInit PROVE AppInv
    OBVIOUS
  <1>1. AuditInv
    BY InitAuditInv DEF AppInit
  <1>2. AppTypeOK
    BY <1>1, KindAssumption, AppIdleFacts DEF AppInit, AppTypeOK, AuditInv
  <1>3. OwnInv
    <2>1. ~Effect
      BY DEF AppInit, Effect
    <2>2. audit = NoRow /\ app.status = "NONE" /\ \A s \in Session : areq[s] = AppIdle
      BY DEF AppInit, AuditInit, NoApp
    <2>3. ~NoRow.auto
      BY DEF NoRow
    <2> QED
      BY <2>1, <2>2, <2>3, NoRowFacts, AppIdleFacts DEF OwnInv
  <1> QED
    BY <1>1, <1>2, <1>3 DEF AppInv, SqlInv, AppInit

(* Of a SQL workflow only AuditFlow moves. *)
LEMMA SqlStep ==
    ASSUME AppInv, kind = "sql", [AppNext]_appVars
    PROVE  AppInv'
  <1>1. CASE Workflow
    <2>1. AuditInv' /\ UNCHANGED <<kind, ownVars>>
      BY <1>1, StepAuditInv DEF Workflow, AppInv, SqlInv
    <2> QED
      BY <2>1 DEF AppInv, SqlInv, AppTypeOK, AuditInv, ownVars
  <1>2. CASE UNCHANGED appVars
    <2>1. AuditInv'
      BY <1>2, StepAuditInv DEF appVars, AppInv, SqlInv
    <2> QED
      BY <1>2, <2>1 DEF AppInv, SqlInv, AppTypeOK, AuditInv, ownVars, appVars
  <1>3. \A s \in Session : ~AppHandler(s)
    <2> SUFFICES ASSUME NEW s \in Session, AppHandler(s) PROVE FALSE
      OBVIOUS
    <2>1. areq[s] = AppIdle /\ areq[s].pc = "idle"
      BY DEF AppInv, SqlInv, AppIdle
    <2> QED
      BY <2>1 DEF AppHandler, Apply, ApplyCallBack, AuditFind, AuditLoad, AuditQuery, AuditArchive, AuditBy, ExecuteQuery, ExecuteArchive,
                  AppRefused, PostLoad, PostOperate, PostQuery, PostGrant, PostArchive, Die, AppAt
  <1>4. ~ApplyArchive /\ ~add_archive_task /\ ~(\E on \in BOOLEAN : Switch(on)) /\ ~archive_once
    BY DEF ApplyArchive, add_archive_task, Switch, archive_once
  <1>5. ~(\E g \in 1..MaxGrant : Revoke(g)) /\ ~(\E m \in queue : archive(m))
    BY DEF AppInv, SqlInv, Revoke
  <1> QED
    BY <1>1, <1>2, <1>3, <1>4, <1>5 DEF AppNext

LEMMA OwnStep ==
    ASSUME AppInv, kind # "sql", [AppNext]_appVars
    PROVE  AppInv'
  <1>1. CASE UNCHANGED appVars
    BY <1>1 DEF appVars, ownVars, auditVars, AppInv, AppTypeOK, AuditTypeOK, OwnInv, Effect
  <1>2. ASSUME NEW s \in Session, AppHandler(s) PROVE AppInv'
    <2>1. CASE Apply(s)
      BY <2>1, ApplyInv
    <2>2. CASE ApplyCallBack(s)
      BY <2>2, ApplyCallBackInv
    <2>3. CASE AuditFind(s) \/ AuditLoad(s) \/ PostLoad(s) \/ Die(s)
      BY <2>3, ReadInvs
    <2>4. ASSUME NEW u \in User, NEW act \in {"PASS", "REJECT", "ABORT"}, AuditQuery(s, u, act)
          PROVE AppInv'
      BY <2>4, AuditQueryInv
    <2>5. ASSUME NEW u \in User, NEW act \in {"PASS", "REJECT", "ABORT"}, AuditArchive(s, u, act)
          PROVE AppInv'
      BY <2>5, AuditArchiveInv
    <2>6. ASSUME NEW u \in User, NEW act \in WorkflowAction, AppRefused(s, u, act)
          PROVE AppInv'
      BY <2>6, ReadInvs
    <2>7. ASSUME NEW u \in User, PostOperate(s, u) PROVE AppInv'
      BY <2>7, PostOperateInv
    <2>8. CASE PostQuery(s) \/ PostGrant(s) \/ PostArchive(s)
      BY <2>8, PostWriteInv
    <2>9. ASSUME NEW u \in User, NEW act \in ExecuteAction,
                 ExecuteQuery(s, u, act) \/ ExecuteArchive(s, u, act)
          PROVE AppInv'
      BY <2>9, ExecuteInv
    <2> QED
      BY <1>2, <2>1, <2>2, <2>3, <2>4, <2>5, <2>6, <2>7, <2>8, <2>9 DEF AppHandler
  <1>3. CASE ApplyArchive
    BY <1>3, ApplyArchiveInv
  <1>4. ~Workflow
    BY DEF Workflow
  <1> QED
    BY <1>1, <1>2, <1>3, <1>4, OutsideInv DEF AppNext

THEOREM AppInvariant == AppSpec => []AppInv
  <1>1. AppInv /\ [AppNext]_appVars => AppInv'
    BY SqlStep, OwnStep
  <1> QED
    BY <1>1, InitAppInv, PTL DEF AppSpec

(* The rows, the requests and the history keep their types, for every kind. *)
THEOREM AppTypes == AppSpec => []AppTypeOK
  <1>1. AppInv => AppTypeOK
    BY DEF AppInv
  <1> QED
    BY <1>1, AppInvariant, PTL

(* For every chain, every set of users and any number of concurrent         *)
(* requests: privileges are inserted and a job is scheduled only after every *)
(* level was passed by somebody entitled to it.                             *)
THEOREM AppEffectApproved == AppSpec => []EffectApproved
  <1>1. AppInv => EffectApproved
    BY DEF AppInv, OwnInv, SqlInv, Effect, EffectApproved, AllApproved, LevelApproved,
           AllPassedIn, PassedIn
  <1> QED
    BY <1>1, AppInvariant, PTL

-----------------------------------------------------------------------------
(* What was passed is granted, and once *)

Granted == \E g \in 1..MaxGrant : grant[g] # "none"

(* A handler that has passed the audit and not yet inserted the privileges. *)
Owes(q) == (q.pc = "operated" /\ q.row.status = "PASSED") \/ q.pc = "granting"

(* While handlers take turns, one of them is at work, its copy is the row,   *)
(* and nothing is granted before it has come to grant.                      *)
TurnsInv ==
    /\ \A s, t \in Session : areq[s] # AppIdle /\ areq[t] # AppIdle => s = t
    /\ \A s \in Session :
         /\ areq[s].pc \in {"created", "loaded", "operated", "granting"} => areq[s].row = audit
         /\ areq[s].pc \in {"operated", "granting"} => ~Granted
         /\ areq[s].pc = "granting" => audit.status = "PASSED"
    /\ Granted => audit.status \notin {"NONE", "WAITING"}
    /\ app.status = audit.status \/ \E s \in Session : areq[s].pc = "operated"
    /\ \A g, h \in (1..MaxGrant) \ copies :
         grant[g] # "none" /\ grant[h] # "none" => g = h

(* An audit that says passed has its privileges, or a handler owes them.     *)
SettleInv ==
    /\ \A s \in Session : areq[s] # AppIdle => audit.status # "NONE"
    /\ kind = "query" /\ audit.status = "PASSED" /\ ~died =>
         Granted \/ \E s \in Session : Owes(areq[s])
    /\ calm => TurnsInv

LEMMA IdleOwesNothing == AppIdle.pc = "idle" /\ ~Owes(AppIdle)
  BY DEF AppIdle, Owes

LEMMA InsertFacts ==
    ASSUME AppInv, Insert
    PROVE  /\ Granted'
           /\ ~Granted => \A g, h \in 1..MaxGrant :
                            grant'[g] # "none" /\ grant'[h] # "none" => g = h
  <1>1. PICK g \in 1..MaxGrant : grant[g] = "none" /\ grant' = [grant EXCEPT ![g] = "live"]
    BY DEF Insert
  <1>2. grant \in [1..MaxGrant -> {"none", "live", "deleted"}]
    BY DEF AppInv, AppTypeOK
  <1>3. grant'[g] = "live" /\ \A h \in 1..MaxGrant : h # g => grant'[h] = grant[h]
    BY <1>1, <1>2
  <1> QED
    BY <1>3 DEF Granted

(* What a handler that is at work knows, if handlers take turns. *)
LEMMA Alone ==
    ASSUME SettleInv, calm, NEW s \in Session, areq[s].pc # "idle"
    PROVE  /\ \A t \in Session : t # s => areq[t] = AppIdle
           /\ areq[s].pc \in {"created", "loaded", "operated", "granting"} => areq[s].row = audit
           /\ areq[s].pc \in {"operated", "granting"} => ~Granted
           /\ areq[s].pc = "granting" => audit.status = "PASSED"
           /\ Granted => audit.status \notin {"NONE", "WAITING"}
           /\ areq[s].pc # "operated" => app.status = audit.status
           /\ OneGrant
  <1>1. areq[s] # AppIdle /\ TurnsInv
    BY IdleOwesNothing DEF SettleInv
  <1>2. \A t \in Session : t # s => areq[t] = AppIdle
    BY <1>1 DEF TurnsInv
  <1>3. areq[s].pc # "operated" => app.status = audit.status
    BY <1>1, <1>2, IdleOwesNothing DEF TurnsInv
  <1> QED
    BY <1>1, <1>2, <1>3 DEF TurnsInv, OneGrant

(* A step of session s, by what it does to the parts. *)
LEMMA SettleStep ==
    ASSUME AppInv, SettleInv, NEW s \in Session, NEW r,
           areq' = [areq EXCEPT ![s] = r], kind' = kind, audit'.status # "NONE",
           kind = "query" /\ audit'.status = "PASSED" /\ ~died' =>
             Granted' \/ Owes(r) \/ (audit.status = "PASSED" /\ ~died /\ ~Owes(areq[s])),
           Granted => Granted',
           calm' => \A t \in Session : t # s => areq[t] = AppIdle,
           calm' => (r.pc \in {"created", "loaded", "operated", "granting"} => r.row = audit'),
           calm' => (r.pc \in {"operated", "granting"} => ~Granted'),
           calm' => (r.pc = "granting" => audit'.status = "PASSED"),
           calm' => (Granted' => audit'.status \notin {"NONE", "WAITING"}),
           calm' => app'.status = audit'.status \/ r.pc = "operated",
           OneGrant'
    PROVE  SettleInv'
  <1>1. areq \in [Session -> AppRequest]
    BY DEF AppInv, AppTypeOK
  <1>2. areq'[s] = r /\ \A t \in Session : t # s => areq'[t] = areq[t]
    BY <1>1
  <1>3. kind' = "query" /\ audit'.status = "PASSED" /\ ~died' =>
          Granted' \/ \E t \in Session : Owes(areq'[t])
    <2> SUFFICES ASSUME kind = "query", audit'.status = "PASSED", ~died', ~Granted', ~Owes(r)
                 PROVE  \E t \in Session : Owes(areq'[t])
      BY <1>2
    <2>1. PICK t \in Session : Owes(areq[t])
      BY DEF SettleInv
    <2>2. t # s
      BY <2>1
    <2> QED
      BY <1>2, <2>1, <2>2
  <1>4. ASSUME calm' PROVE TurnsInv'
    <2>1. \A t \in Session : t # s => areq'[t] = AppIdle
      BY <1>2, <1>4
    <2>2. \A t \in Session : t # s => areq'[t].pc = "idle"
      BY <2>1, IdleOwesNothing
    <2> QED
      BY <1>2, <1>4, <2>1, <2>2 DEF TurnsInv, OneGrant
  <1> QED
    BY <1>2, <1>3, <1>4 DEF SettleInv

(* A pass comes to a waiting row only, and a rejection does not wait. *)
LEMMA OperateStatus ==
    ASSUME NEW row \in AuditRow, NEW u \in User, NEW act \in {"PASS", "REJECT", "ABORT"},
           can_operate(act, u, row)
    PROVE  \/ act = "PASS" /\ row.status = "WAITING"
           \/ act # "PASS" /\ operate(act, row).status \in {"REJECTED", "ABORTED"}
  <1>1. CASE act = "PASS"
    BY <1>1 DEF can_operate, ExecuteAction, SUPPORTED_OPERATION_GRID, AuditRow, WorkflowStatus
  <1>2. CASE act \in {"REJECT", "ABORT"}
    BY <1>2, CloseRow
  <1> QED
    BY <1>1, <1>2

(* So when handlers take turns nothing is granted when a pass is written. *)
LEMMA CalmOperate ==
    ASSUME AppInv, SettleInv, kind # "sql", calm, NEW s \in Session, NEW u \in User,
           NEW act \in {"PASS", "REJECT", "ABORT"}, Operate(s, u, act), areq[s].pc = "loaded"
    PROVE  Granted => /\ act # "PASS"
                      /\ operate(act, areq[s].row).status \in {"REJECTED", "ABORTED"}
  <1>1. areq[s].row = audit /\ (Granted => audit.status # "WAITING")
    BY Alone
  <1>2. \/ act = "PASS" /\ audit.status = "WAITING"
        \/ act # "PASS" /\ operate(act, audit).status \in {"REJECTED", "ABORTED"}
    BY <1>1, OperateStatus, Flags DEF Operate
  <1> QED
    BY <1>1, <1>2

LEMMA SettleOne == SettleInv => OneGrant
  BY DEF SettleInv, TurnsInv, OneGrant

(* A request that begins: if handlers took turns, all the others are idle. *)
LEMMA TurnFacts ==
    ASSUME SettleInv, Turn
    PROVE  calm' => /\ calm
                    /\ \A s \in Session : areq[s] = AppIdle
                    /\ app.status = audit.status
                    /\ Granted => audit.status \notin {"NONE", "WAITING"}
                    /\ OneGrant
  BY IdleOwesNothing DEF Turn, SettleInv, TurnsInv, OneGrant

(* The requests that begin, load or are refused: they write nothing. *)
LEMMA SettleRead ==
    ASSUME AppInv, SettleInv, kind # "sql", NEW s \in Session,
           \/ AuditFind(s) \/ AuditLoad(s) \/ PostLoad(s)
           \/ \E u \in User, act \in WorkflowAction : AppRefused(s, u, act)
    PROVE  SettleInv'
  <1>1. /\ audit' = audit /\ kind' = kind /\ app' = app /\ grant' = grant /\ died' = died
        /\ copies' = copies
        /\ audit.status # "NONE" /\ ~Owes(areq[s])
        /\ \/ Turn /\ areq[s] = AppIdle
           \/ calm' = calm /\ areq[s].pc \in {"found", "loaded"}
    <2>1. areq[s].pc # "idle" => audit.status # "NONE"
      BY IdleOwesNothing DEF SettleInv
    <2> QED
      BY <2>1, IdleOwesNothing
      DEF AuditFind, AuditLoad, PostLoad, AppRefused, AppAt, auditVars, Owes
  <1>2. PICK r : /\ areq' = [areq EXCEPT ![s] = r]
                 /\ r.pc \in {"idle", "found"} \/ (r.pc = "loaded" /\ r.row = audit)
    <2>1. CASE AuditFind(s)
      <3> DEFINE r == [pc |-> "found", view |-> "audit", row |-> NoRow,
                       app |-> IF kind = "archive" THEN app ELSE NoApp]
      <3>1. areq' = [areq EXCEPT ![s] = r] /\ r.pc = "found"
        BY <2>1 DEF AuditFind
      <3> QED
        BY <3>1
    <2>2. CASE AuditLoad(s)
      <3> DEFINE r == [areq[s] EXCEPT !.pc = "loaded", !.row = audit]
      <3>1. r.pc = "loaded" /\ r.row = audit
        BY AppReqFacts DEF AppRequest
      <3>2. areq' = [areq EXCEPT ![s] = r]
        BY <2>2 DEF AuditLoad, AppInv, AppTypeOK
      <3> QED
        BY <3>1, <3>2
    <2>3. CASE PostLoad(s)
      <3> DEFINE r == [pc |-> "loaded", view |-> "post", row |-> audit, app |-> NoApp]
      <3>1. areq' = [areq EXCEPT ![s] = r] /\ r.pc = "loaded" /\ r.row = audit
        BY <2>3 DEF PostLoad
      <3> QED
        BY <3>1
    <2>4. CASE \E u \in User, act \in WorkflowAction : AppRefused(s, u, act)
      BY <2>4, IdleOwesNothing DEF AppRefused, AppDone
    <2> QED
      BY <2>1, <2>2, <2>3, <2>4
  <1>3. Granted' = Granted
    BY <1>1 DEF Granted
  <1>4. calm' => /\ \A t \in Session : t # s => areq[t] = AppIdle
                 /\ app.status = audit.status
                 /\ Granted => audit.status \notin {"NONE", "WAITING"}
    BY <1>1, TurnFacts, Alone
  <1>5. OneGrant'
    BY <1>1, SettleOne DEF OneGrant, Turn
  <1> QED
    BY <1>1, <1>2, <1>3, <1>4, <1>5, SettleStep

LEMMA SettleApply ==
    ASSUME AppInv, SettleInv, kind # "sql", NEW s \in Session,
           Apply(s) \/ ApplyCallBack(s) \/ Die(s)
    PROVE  SettleInv'
  <1>1. CASE Apply(s)
    <2> DEFINE r == [AppIdle EXCEPT !.pc = "created", !.view = "apply",
                                    !.row = create_audit("manual")]
    <2>1. r.pc = "created" /\ r.row = create_audit("manual")
      BY DEF AppIdle
    <2>2. /\ audit = NoRow /\ audit' = create_audit("manual") /\ areq' = [areq EXCEPT ![s] = r]
          /\ app' = [app EXCEPT !.status = "WAITING"] /\ Turn /\ kind' = kind /\ grant' = grant
          /\ copies' = copies
      BY <1>1 DEF Apply
    <2>3. audit'.status = "WAITING" /\ app'.status = "WAITING" /\ audit.status = "NONE"
      BY <2>2, Flags DEF create_audit, AppRow, NoRow
    <2>4. (Granted' <=> Granted) /\ (calm' => ~Granted) /\ OneGrant'
      BY <2>2, <2>3, TurnFacts DEF Granted, OneGrant, Turn
    <2>5. calm' => \A t \in Session : t # s => areq[t] = AppIdle
      BY <2>2, TurnFacts
    <2> HIDE DEF r
    <2> QED
      BY <2>1, <2>2, <2>3, <2>4, <2>5, SettleStep
  <1>2. CASE ApplyCallBack(s)
    <2>1. /\ areq[s].pc = "created" /\ areq' = [areq EXCEPT ![s] = AppIdle]
          /\ app' = [app EXCEPT !.status = areq[s].row.status]
          /\ audit' = audit /\ kind' = kind /\ grant' = grant /\ calm' = calm /\ died' = died
          /\ copies' = copies
      BY <1>2 DEF ApplyCallBack, AppAt, AppDone, auditVars
    <2>2. app'.status = areq[s].row.status
      BY <2>1, Flags DEF AppRow
    <2>3. audit.status # "NONE" /\ ~Owes(areq[s])
      BY <2>1, IdleOwesNothing DEF SettleInv, Owes
    <2>4. (Granted' <=> Granted) /\ OneGrant'
      BY <2>1, SettleOne DEF Granted, OneGrant
    <2>5. calm => /\ \A t \in Session : t # s => areq[t] = AppIdle
                  /\ areq[s].row = audit
                  /\ Granted => audit.status \notin {"NONE", "WAITING"}
      BY <2>1, Alone
    <2> QED
      BY <2>1, <2>2, <2>3, <2>4, <2>5, IdleOwesNothing, SettleStep
  <1>3. CASE Die(s)
    <2>1. /\ areq[s] # AppIdle /\ areq' = [areq EXCEPT ![s] = AppIdle]
          /\ audit' = audit /\ kind' = kind /\ grant' = grant /\ calm' = FALSE /\ died' = TRUE
          /\ copies' = copies
      BY <1>3 DEF Die, AppDone, auditVars
    <2>2. audit.status # "NONE"
      BY <2>1 DEF SettleInv
    <2>3. (Granted' <=> Granted) /\ OneGrant'
      BY <2>1 DEF Granted, OneGrant
    <2> QED
      BY <2>1, <2>2, <2>3, SettleStep
  <1> QED
    BY <1>1, <1>2, <1>3

(* The two views, each in one transaction. *)
LEMMA SettleAudit ==
    ASSUME AppInv, SettleInv, kind # "sql", NEW s \in Session, NEW u \in User,
           NEW act \in {"PASS", "REJECT", "ABORT"}, AuditQuery(s, u, act) \/ AuditArchive(s, u, act)
    PROVE  SettleInv'
  <1> DEFINE new == operate(act, areq[s].row)
  <1>1. /\ Operate(s, u, act) /\ areq[s].pc = "loaded"
        /\ areq' = [areq EXCEPT ![s] = AppIdle]
        /\ kind' = kind /\ calm' = calm /\ died' = died /\ copies' = copies
    BY DEF AuditQuery, AuditArchive, AuditBy, AppAt, AppDone
  <1>2. audit' = new /\ new.status \in WorkflowStatus
    BY <1>1, OperateFacts
  <1>3. calm /\ Granted => new.status \in {"REJECTED", "ABORTED"}
    BY <1>1, CalmOperate
  <1>4. calm => \A t \in Session : t # s => areq[t] = AppIdle
    BY <1>1, Alone
  <1>5. /\ app'.status = new.status
        /\ grant' = grant \/ (new.status = "PASSED" /\ Insert)
        /\ kind = "query" /\ new.status = "PASSED" => Insert
    <2>1. CASE AuditQuery(s, u, act)
      BY <2>1, Flags DEF AuditQuery, AppRow
    <2>2. CASE AuditArchive(s, u, act)
      BY <2>2 DEF AuditArchive
    <2> QED
      BY <2>1, <2>2
  <1> HIDE DEF new
  <1>6. /\ Granted => Granted'
        /\ kind = "query" /\ new.status = "PASSED" => Granted'
        /\ calm => (Granted' => new.status \notin {"NONE", "WAITING"})
    BY <1>2, <1>3, <1>5, InsertFacts DEF Granted
  <1>7. OneGrant'
    <2>1. CASE grant' = grant
      BY <1>1, <2>1, SettleOne DEF OneGrant
    <2>2. CASE new.status = "PASSED" /\ Insert
      BY <1>1, <1>3, <2>2, InsertFacts DEF OneGrant
    <2> QED
      BY <1>5, <2>1, <2>2
  <1>8. new.status # "NONE"
    BY <1>2 DEF WorkflowStatus
  <1> QED
    BY <1>1, <1>2, <1>4, <1>5, <1>6, <1>7, <1>8, IdleOwesNothing, SettleStep

(* An execution action adds a copy, or switches a job on, and nothing else. *)
LEMMA SettleExecute ==
    ASSUME AppInv, SettleInv, kind # "sql", NEW s \in Session, NEW u \in User,
           NEW act \in ExecuteAction, ExecuteQuery(s, u, act) \/ ExecuteArchive(s, u, act)
    PROVE  SettleInv'
  <1>1. /\ can_operate(act, u, areq[s].row) /\ areq[s].pc = "loaded"
        /\ areq' = [areq EXCEPT ![s] = AppIdle]
        /\ audit' = audit /\ kind' = kind /\ calm' = calm /\ died' = died
    BY DEF ExecuteQuery, ExecuteArchive, AuditBy, AppAt, AppDone, auditVars
  <1>2. areq[s].row.status = "PASSED" /\ audit.status # "NONE" /\ ~Owes(areq[s])
    BY <1>1, ExecuteFacts, IdleOwesNothing DEF SettleInv, Owes
  <1>3. app'.status = "PASSED"
    BY <1>2, Flags DEF ExecuteQuery, ExecuteArchive, AppRow
  <1>4. \/ /\ Insert
           /\ copies' = copies \cup {g \in 1..MaxGrant : grant'[g] # grant[g]}
        \/ grant' = grant /\ copies' = copies
    BY DEF ExecuteQuery, ExecuteArchive
  <1>5. Granted => Granted'
    BY <1>4, InsertFacts DEF Granted
  <1>6. OneGrant'
    <2>1. \A g \in (1..MaxGrant) \ copies' : g \notin copies /\ grant'[g] = grant[g]
      BY <1>4
    <2> QED
      BY <1>1, <2>1, SettleOne DEF OneGrant
  <1>7. calm => audit.status = "PASSED" /\ \A t \in Session : t # s => areq[t] = AppIdle
    BY <1>1, <1>2, Alone
  <1> QED
    BY <1>1, <1>2, <1>3, <1>5, <1>6, <1>7, IdleOwesNothing, SettleStep

(* The REST view passes first ... *)
LEMMA SettlePostOperate ==
    ASSUME AppInv, SettleInv, kind # "sql", NEW s \in Session, NEW u \in User, PostOperate(s, u)
    PROVE  SettleInv'
  <1> DEFINE new == operate("PASS", areq[s].row)
  <1> DEFINE r == [areq[s] EXCEPT !.pc = "operated", !.row = new]
  <1>1. /\ Operate(s, u, "PASS") /\ areq[s].pc = "loaded" /\ areq' = [areq EXCEPT ![s] = r]
        /\ kind' = kind /\ calm' = calm /\ died' = died /\ grant' = grant /\ copies' = copies
    BY DEF PostOperate, AppAt, operate, ExecuteAction, AppInv, AppTypeOK
  <1>2. audit' = new /\ new.status \in WorkflowStatus
    BY <1>1, OperateFacts
  <1>3. calm => ~Granted
    BY <1>1, CalmOperate
  <1>4. calm => \A t \in Session : t # s => areq[t] = AppIdle
    BY <1>1, Alone
  <1>5. r.pc = "operated" /\ r.row = new
    BY AppReqFacts DEF AppRequest
  <1> HIDE DEF new, r
  <1>6. (Granted' <=> Granted) /\ OneGrant'
    BY <1>1, SettleOne DEF Granted, OneGrant
  <1>7. new.status # "NONE"
    BY <1>2 DEF WorkflowStatus
  <1>8. new.status = "PASSED" => Owes(r)
    BY <1>5 DEF Owes
  <1> QED
    BY <1>1, <1>2, <1>3, <1>4, <1>5, <1>6, <1>7, <1>8, SettleStep

(* ... then writes the status, and inserts last what it owes. *)
LEMMA SettlePostWrite ==
    ASSUME AppInv, SettleInv, kind # "sql", NEW s \in Session,
           PostQuery(s) \/ PostGrant(s) \/ PostArchive(s)
    PROVE  SettleInv'
  <1>1. /\ areq[s].pc \in {"operated", "granting"} /\ audit' = audit /\ kind' = kind
        /\ copies' = copies
        /\ calm' = calm /\ died' = died
    BY DEF PostQuery, PostGrant, PostArchive, AppAt, auditVars
  <1>2. audit.status # "NONE"
    BY <1>1, IdleOwesNothing DEF SettleInv
  <1>3. calm => /\ \A t \in Session : t # s => areq[t] = AppIdle
                /\ areq[s].row = audit /\ ~Granted
                /\ areq[s].pc = "granting" => app.status = audit.status
    BY <1>1, Alone
  <1>4. CASE PostQuery(s)
    <2>1. /\ app' = [app EXCEPT !.status = areq[s].row.status] /\ grant' = grant
          /\ areq[s].pc = "operated"
      BY <1>4 DEF PostQuery, AppAt
    <2>2. app'.status = areq[s].row.status
      BY <2>1, Flags DEF AppRow
    <2>3. (Granted' <=> Granted) /\ OneGrant'
      BY <1>1, <2>1, SettleOne DEF Granted, OneGrant
    <2>4. CASE areq[s].row.status = "PASSED"
      <3> DEFINE r == [areq[s] EXCEPT !.pc = "granting"]
      <3>1. r.pc = "granting" /\ r.row = areq[s].row
        BY AppReqFacts DEF AppRequest
      <3>2. areq' = [areq EXCEPT ![s] = r]
        BY <1>4, <2>4 DEF PostQuery, AppInv, AppTypeOK
      <3> HIDE DEF r
      <3>3. Owes(r)
        BY <3>1 DEF Owes
      <3> QED
        BY <1>1, <1>2, <1>3, <2>2, <2>3, <2>4, <3>1, <3>2, <3>3, SettleStep
    <2>5. CASE areq[s].row.status # "PASSED"
      <3>1. areq' = [areq EXCEPT ![s] = AppIdle]
        BY <1>4, <2>5 DEF PostQuery, AppDone
      <3>2. ~Owes(areq[s])
        BY <2>1, <2>5 DEF Owes
      <3> QED
        BY <1>1, <1>2, <1>3, <2>2, <2>3, <3>1, <3>2, IdleOwesNothing, SettleStep
    <2> QED
      BY <2>4, <2>5
  <1>5. CASE PostGrant(s)
    <2>1. /\ app' = app /\ Insert /\ areq[s].pc = "granting"
          /\ areq' = [areq EXCEPT ![s] = AppIdle]
      BY <1>5 DEF PostGrant, AppAt, AppDone
    <2>2. Granted' /\ OneGrant'
      BY <1>1, <1>3, <2>1, InsertFacts DEF OneGrant
    <2>3. calm => audit.status = "PASSED"
      BY <2>1, Alone
    <2> QED
      BY <1>1, <1>2, <1>3, <2>1, <2>2, <2>3, IdleOwesNothing, SettleStep
  <1>6. CASE PostArchive(s)
    <2>1. /\ app'.status = areq[s].row.status /\ grant' = grant
          /\ areq' = [areq EXCEPT ![s] = AppIdle] /\ kind = "archive"
      BY <1>6 DEF PostArchive, AppDone
    <2>2. (Granted' <=> Granted) /\ OneGrant'
      BY <1>1, <2>1, SettleOne DEF Granted, OneGrant
    <2> QED
      BY <1>1, <1>2, <1>3, <2>1, <2>2, IdleOwesNothing, SettleStep
  <1> QED
    BY <1>4, <1>5, <1>6

(* Outside of the requests nothing is passed and nothing inserted. *)
LEMMA SettleOutside ==
    ASSUME AppInv, SettleInv, kind # "sql",
           \/ \E g \in 1..MaxGrant : Revoke(g)
           \/ \E on \in BOOLEAN : Switch(on)
           \/ add_archive_task \/ archive_once
           \/ \E m \in queue : archive(m)
    PROVE  SettleInv'
  <1>1. /\ audit' = audit /\ kind' = kind /\ areq' = areq /\ died' = died /\ (calm' => calm)
        /\ copies' = copies
    <2>1. CASE \E g \in 1..MaxGrant : Revoke(g)
      BY <2>1 DEF Revoke, auditVars
    <2>2. CASE \E on \in BOOLEAN : Switch(on)
      <3>1. Turn => (calm' => calm)
        BY DEF Turn
      <3> QED
        BY <2>2, <3>1 DEF Switch, auditVars
    <2>3. CASE add_archive_task \/ archive_once \/ \E m \in queue : archive(m)
      BY <2>3 DEF add_archive_task, archive_once, archive, auditVars
    <2> QED
      BY <2>1, <2>2, <2>3
  <1>2. app'.status = app.status
    BY Flags DEF Revoke, Switch, add_archive_task, archive_once, archive, AppRow
  <1>3. \A g \in 1..MaxGrant : grant'[g] # "none" <=> grant[g] # "none"
    <2>1. CASE \E g \in 1..MaxGrant : Revoke(g)
      BY <2>1, Flags DEF Revoke
    <2>2. CASE grant' = grant
      BY <2>2
    <2> QED
      BY <2>1, <2>2 DEF Switch, add_archive_task, archive_once, archive
  <1>4. Granted' <=> Granted
    BY <1>3 DEF Granted
  <1>5. TurnsInv => TurnsInv'
    BY <1>1, <1>2, <1>3, <1>4 DEF TurnsInv
  <1> QED
    BY <1>1, <1>4, <1>5 DEF SettleInv

(* When a job is applied for, nobody can have loaded it. *)
LEMMA SettleApplyArchive ==
    ASSUME AppInv, SettleInv, kind # "sql", ApplyArchive
    PROVE  SettleInv'
  <1>1. /\ kind = "archive" /\ audit = NoRow /\ audit' = create_audit("manual")
        /\ app'.status = "WAITING" /\ UNCHANGED <<kind, areq, grant, calm, died, copies>>
    BY DEF ApplyArchive
  <1>2. audit.status = "NONE" /\ audit'.status = "WAITING"
    BY <1>1 DEF NoRow, create_audit
  <1>3. \A s \in Session : areq[s] = AppIdle /\ areq[s].pc = "idle"
    BY <1>2, IdleOwesNothing DEF SettleInv
  <1>4. (Granted' <=> Granted) /\ (calm => ~Granted)
    BY <1>1, <1>2 DEF Granted, SettleInv, TurnsInv
  <1>5. calm => TurnsInv'
    BY <1>1, <1>2, <1>3, <1>4 DEF SettleInv, TurnsInv
  <1> QED
    BY <1>1, <1>2, <1>3, <1>4, <1>5 DEF SettleInv

LEMMA InitSettleInv == AppInit => SettleInv
  <1> SUFFICES ASSUME AppInit PROVE SettleInv
    OBVIOUS
  <1>1. /\ \A s \in Session : areq[s] = AppIdle /\ areq[s].pc = "idle"
        /\ audit.status = "NONE" /\ app.status = "NONE"
    BY IdleOwesNothing DEF AppInit, AuditInit, NoRow, NoApp
  <1>2. \A g \in 1..MaxGrant : grant[g] = "none"
    BY DEF AppInit
  <1> QED
    BY <1>1, <1>2 DEF SettleInv, TurnsInv, Granted

(* A SQL workflow uses none of it. *)
SettleOrSql == kind # "sql" => SettleInv

LEMMA StepSettle ==
    ASSUME AppInv, SettleOrSql, [AppNext]_appVars
    PROVE  SettleOrSql'
  <1>1. CASE kind = "sql"
    <2>1. kind' = "sql"
      BY <1>1, SqlStep DEF AppNext, AppHandler, Workflow, appVars, Apply, ApplyCallBack,
         AuditFind, AuditLoad, AuditQuery, AuditArchive, AuditBy, ExecuteQuery, ExecuteArchive, AppRefused, PostLoad, PostOperate,
         PostQuery, PostGrant, PostArchive, Die, ApplyArchive, Revoke, Switch,
         add_archive_task, archive_once, archive
    <2> QED
      BY <2>1 DEF SettleOrSql
  <1>2. CASE kind # "sql"
    <2>1. SettleInv
      BY <1>2 DEF SettleOrSql
    <2>2. CASE UNCHANGED appVars
      <3>1. TurnsInv => TurnsInv'
        BY <2>2 DEF appVars, ownVars, auditVars, TurnsInv, Granted
      <3> QED
        BY <2>1, <2>2, <3>1 DEF appVars, ownVars, auditVars, SettleOrSql, SettleInv, Granted
    <2>3. ASSUME NEW s \in Session, AppHandler(s) PROVE SettleInv'
      <3>1. CASE Apply(s) \/ ApplyCallBack(s) \/ Die(s)
        BY <1>2, <2>1, <3>1, SettleApply
      <3>2. CASE AuditFind(s) \/ AuditLoad(s) \/ PostLoad(s)
        BY <1>2, <2>1, <3>2, SettleRead
      <3>3. ASSUME NEW u \in User, NEW act \in {"PASS", "REJECT", "ABORT"},
                   AuditQuery(s, u, act) \/ AuditArchive(s, u, act)
            PROVE  SettleInv'
        BY <1>2, <2>1, <3>3, SettleAudit
      <3>4. ASSUME NEW u \in User, NEW act \in WorkflowAction, AppRefused(s, u, act)
            PROVE  SettleInv'
        BY <1>2, <2>1, <3>4, SettleRead
      <3>7. ASSUME NEW u \in User, NEW act \in ExecuteAction,
                   ExecuteQuery(s, u, act) \/ ExecuteArchive(s, u, act)
            PROVE  SettleInv'
        BY <1>2, <2>1, <3>7, SettleExecute
      <3>5. ASSUME NEW u \in User, PostOperate(s, u) PROVE SettleInv'
        BY <1>2, <2>1, <3>5, SettlePostOperate
      <3>6. CASE PostQuery(s) \/ PostGrant(s) \/ PostArchive(s)
        BY <1>2, <2>1, <3>6, SettlePostWrite
      <3> QED
        BY <2>3, <3>1, <3>2, <3>3, <3>4, <3>5, <3>6, <3>7 DEF AppHandler
    <2>4. CASE ApplyArchive
      BY <1>2, <2>1, <2>4, SettleApplyArchive DEF SettleOrSql
    <2>5. ~Workflow
      BY <1>2 DEF Workflow
    <2> QED
      BY <1>2, <2>1, <2>2, <2>3, <2>4, <2>5, SettleOutside DEF AppNext, SettleOrSql
  <1> QED
    BY <1>1, <1>2

THEOREM AppSettleInvariant == AppSpec => []SettleOrSql
  <1>1. AppInit => SettleOrSql
    BY InitSettleInv DEF SettleOrSql
  <1>2. AppInv /\ SettleOrSql /\ [AppNext]_appVars => SettleOrSql'
    BY StepSettle
  <1> QED
    BY <1>1, <1>2, AppInvariant, PTL DEF AppSpec

(* For any number of requests and insertions: while handlers take turns, one *)
(* application has its privileges inserted once, whichever of the two views  *)
(* passes it last, not counting the copies that the execution actions of a   *)
(* reviewer add.                                                            *)
THEOREM AppOneGrant == AppSpec => []OneGrant
  <1>1. AppInv /\ SettleOrSql => OneGrant
    <2> SUFFICES ASSUME AppInv, SettleOrSql PROVE OneGrant
      OBVIOUS
    <2>1. CASE kind = "sql"
      <3>1. \A g \in 1..MaxGrant : grant[g] = "none"
        BY <2>1 DEF AppInv, SqlInv
      <3> QED
        BY <3>1 DEF OneGrant
    <2>2. CASE kind # "sql"
      BY <2>2, SettleOne DEF SettleOrSql
    <2> QED
      BY <2>1, <2>2
  <1> QED
    BY <1>1, AppInvariant, AppSettleInvariant, PTL

(* When no request is under way, what was passed has its privileges unless a *)
(* worker died, and while handlers take turns the application says what its  *)
(* audit says.                                                              *)
THEOREM AppSettled == AppSpec => []Settled
  <1>1. SettleOrSql => Settled
    <2> SUFFICES ASSUME SettleInv, \A s \in Session : areq[s] = AppIdle PROVE Settled
      BY DEF SettleOrSql, Settled
    <2>1. \A s \in Session : ~Owes(areq[s]) /\ areq[s].pc = "idle"
      BY IdleOwesNothing
    <2> QED
      BY <2>1 DEF SettleInv, TurnsInv, Settled, Granted
  <1> QED
    BY <1>1, AppSettleInvariant, PTL
=============================================================================
