------------------------------ MODULE DingtalkOa ------------------------------
(***************************************************************************)
(* The approval of a SQL workflow by way of DingTalk:                      *)
(*   - the view that starts an approval there (retry_oa and the driver's   *)
(*     start; nothing else in the program calls start),                    *)
(*   - the callback that DingTalk posts its events to,                     *)
(*   - the handler that applies an event to the audit row.                 *)
(* The web and REST views of AuditFlow go on beside it: neither side asks  *)
(* which of the two an audit belongs to (the column audit_driver).         *)
(*                                                                         *)
(* DingTalk itself is external.  It sends an event again until it gets an  *)
(* answer, and nothing orders the events of one approval.  A callback is   *)
(* a request thread: it looks for the event in the log, reads the audit    *)
(* row to check the approver, applies the decision under the row's lock    *)
(* and logs the event.  Others come between any two of these steps.        *)
(*                                                                         *)
(* external_status, last_synced_at and audit_driver are left out: the only *)
(* reader of the first two is the reconciliation, which fails on its       *)
(* select_related before it looks at a row, and nothing reads the third.   *)
(***************************************************************************)
EXTENDS AuditFlow

CONSTANTS
    Delivery,    \* callbacks that can be in progress at the same time
    Instance,    \* approval instances in DingTalk, one per successful start
    OaAuditor,   \* OaAuditor[g]: the whitelist of group g (GroupDingtalkAuditor)
    OaApprover,  \* OaApprover[i]: who decides at level i of DingTalk's template
    NoInstance,  \* no instance: "" in a row that records a fallback
    MaxSend      \* how often DingTalk sends one event

ASSUME OaAssumption ==
    /\ NoInstance \notin Instance
    /\ OaAuditor \in [Group -> SUBSET User]
    /\ OaApprover \in [DOMAIN Chain -> SUBSET User]
    /\ MaxSend \in Nat \ {0}

VARIABLES
    oa,      \* oa[k]: the state of instance k in DingTalk
    ext,     \* the row of ext_workflow_audit_external
    start,   \* the request to start an approval
    owed,    \* owed[e]: how often DingTalk may still send event e
    logged,  \* the events with a row processed=True in the log of events
    dl,      \* dl[d]: the callback in progress
    passes,  \* history: the rows of kind PASSED written to the details
    moved,   \* history: the events that have moved the audit row
    calm,    \* history: so far no two handlers overlapped, no event overtook
             \* the one before it, and DingTalk gave none up
    lost     \* history: an exception was swallowed while the audit waited

oaVars == <<oa, ext, start, owed, logged, dl, passes, moved, calm, lost>>
allVars == <<auditVars, oaVars>>

Level == DOMAIN Chain

\* What the handler tells apart in an event: a decision at a level, with the
\* approver, or the end of the whole instance.
Event == {e \in [inst : Instance, kind : {"agree", "refuse", "terminate"},
                 level : Level, by : User] :
             e.by \in IF e.kind = "terminate" THEN {Creator} ELSE OaApprover[e.level]}

NoEvent == [inst |-> NoInstance, kind |-> "agree", level |-> 1, by |-> Creator]

Call == [pc : {"idle", "received", "applying", "logging"},
         ev : Event \cup {NoEvent}]

NoCall == [pc |-> "idle", ev |-> NoEvent]

OaStatus == {"none", "running", "agreed", "refused", "terminated"}

OaWfStatus == WfStatus \cup {"workflow_review_reject"}

OaTypeOK ==
    /\ audit \in AuditRow
    /\ wf \in OaWfStatus
    /\ approvals \subseteq User \X (Group \cup {NoGroup})
    /\ req \in [Session -> [pc : Stage, view : View, user : User,
                            act : {"SUBMIT", "PASS", "REJECT", "ABORT"},
                            row : AuditRow, wf : OaWfStatus]]
    /\ oa \in [Instance -> [status : OaStatus, level : Level]]
    /\ ext \in Instance \cup {NoInstance, "none"}
    /\ start \in Instance \cup {NoInstance}
    /\ owed \in [Event -> 0..MaxSend]
    /\ logged \subseteq Event
    /\ dl \in [Delivery -> Call]
    /\ passes \in Nat
    /\ moved \subseteq Event
    /\ calm \in BOOLEAN
    /\ lost \in BOOLEAN

OaInit ==
    /\ AuditInit
    /\ oa = [k \in Instance |-> [status |-> "none", level |-> 1]]
    /\ ext = "none"
    /\ start = NoInstance
    /\ owed = [e \in Event |-> 0]
    /\ logged = {}
    /\ dl = [d \in Delivery |-> NoCall]
    /\ passes = 0
    /\ moved = {}
    /\ calm = TRUE
    /\ lost = FALSE

\* Nobody is in the middle of a handler.
Quiet ==
    /\ \A s \in Session : req[s] = Idle
    /\ \A d \in Delivery : dl[d] = NoCall
    /\ start = NoInstance

-----------------------------------------------------------------------------
(* Starting an approval in DingTalk: retry_oa *)

\* The API call that creates the instance.  The view has no condition on the
\* state of the audit, and does not look for an instance that exists.
StartCall(k) ==
    /\ start = NoInstance
    /\ wf # "none"
    /\ oa[k].status = "none"
    /\ oa' = [oa EXCEPT ![k].status = "running"]
    /\ start' = k
    /\ calm' = (calm /\ Quiet)
    /\ UNCHANGED <<auditVars, ext, owed, logged, dl, passes, moved, lost>>

\* The call failed: _fallback records it, unless there is a row already.
StartFallback ==
    /\ start = NoInstance
    /\ wf # "none"
    /\ ext = "none"
    /\ ext' = NoInstance
    /\ UNCHANGED <<auditVars, oa, start, owed, logged, dl, passes, moved, calm, lost>>

\* The row that links the instance to the audit.  audit is a OneToOneField:
\* a second row is refused, and the instance just created stays unknown.
StartRow ==
    /\ start # NoInstance
    /\ ext' = IF ext = "none" THEN start ELSE ext
    /\ start' = NoInstance
    /\ UNCHANGED <<auditVars, oa, owed, logged, dl, passes, moved, calm, lost>>

-----------------------------------------------------------------------------
(* DingTalk: external *)

Send(e) == owed' = [owed EXCEPT ![e] = MaxSend]

\* An approver agrees at the level the instance has reached.
OaAgree(k, u) ==
    LET i == oa[k].level
    IN  /\ oa[k].status = "running"
        /\ u \in OaApprover[i]
        /\ oa' = [oa EXCEPT ![k] =
                    IF i = Len(Chain) THEN [status |-> "agreed", level |-> i]
                                      ELSE [status |-> "running", level |-> i + 1]]
        /\ Send([inst |-> k, kind |-> "agree", level |-> i, by |-> u])
        /\ UNCHANGED <<auditVars, ext, start, logged, dl, passes, moved, calm, lost>>

OaRefuse(k, u) ==
    LET i == oa[k].level
    IN  /\ oa[k].status = "running"
        /\ u \in OaApprover[i]
        /\ oa' = [oa EXCEPT ![k].status = "refused"]
        /\ Send([inst |-> k, kind |-> "refuse", level |-> i, by |-> u])
        /\ UNCHANGED <<auditVars, ext, start, logged, dl, passes, moved, calm, lost>>

\* The instance is withdrawn by the one it was started for.
OaTerminate(k) ==
    /\ oa[k].status = "running"
    /\ oa' = [oa EXCEPT ![k].status = "terminated"]
    /\ Send([inst |-> k, kind |-> "terminate", level |-> oa[k].level, by |-> Creator])
    /\ UNCHANGED <<auditVars, ext, start, logged, dl, passes, moved, calm, lost>>

-----------------------------------------------------------------------------
(* The callback: dingtalk_oa_callback *)

\* Every event of an earlier level of the same instance has been dealt with.
InOrder(e) ==
    \A f \in Event : f.inst = e.inst /\ f.level < e.level /\ owed[f] > 0 => f \in logged

\* Mutant: the event is logged as processed before it is handled.
Receive_logsFirst(d, e) ==
    /\ dl[d] = NoCall
    /\ owed[e] > 0
    /\ owed' = [owed EXCEPT ![e] = @ - 1]
    /\ dl' = IF e \in logged THEN dl ELSE [dl EXCEPT ![d] = [pc |-> "received", ev |-> e]]
    /\ logged' = logged \cup {e}
    /\ calm' = (calm /\ (e \in logged \/ (Quiet /\ InOrder(e))))
    /\ UNCHANGED <<auditVars, oa, ext, start, passes, moved, lost>>

\* The event arrives and is looked up in the log: a known one is answered at
\* once, any other is handled.
Receive(d, e) ==
    /\ dl[d] = NoCall
    /\ owed[e] > 0
    /\ owed' = [owed EXCEPT ![e] = @ - 1]
    /\ dl' = IF e \in logged THEN dl ELSE [dl EXCEPT ![d] = [pc |-> "received", ev |-> e]]
    /\ calm' = (calm /\ (e \in logged \/ (Quiet /\ InOrder(e))))
    /\ UNCHANGED <<auditVars, oa, ext, start, logged, passes, moved, lost>>

\* Mutant: the whitelist is not consulted.
Screen_anybody(d) ==
    /\ dl[d].pc = "received"
    /\ dl' = [dl EXCEPT ![d].pc = IF ext = dl[d].ev.inst THEN "applying" ELSE "logging"]
    /\ UNCHANGED <<auditVars, oa, ext, start, owed, logged, passes, moved, calm, lost>>

\* _handle_event reads the link and, with it, the audit row, without a lock.
\* An instance that is not linked is ignored.  An approver must be on the
\* whitelist of the group the row stands at; the end of an instance names no
\* approver.  An event turned away counts as processed.
Screen(d) ==
    LET e == dl[d].ev
        entitled == audit.current # NoGroup /\ e.by \in OaAuditor[audit.current]
    IN  /\ dl[d].pc = "received"
        /\ dl' = [dl EXCEPT ![d].pc =
                    IF ext = e.inst /\ (e.kind = "terminate" \/ entitled)
                    THEN "applying" ELSE "logging"]
        /\ UNCHANGED <<auditVars, oa, ext, start, owed, logged, passes, moved, calm, lost>>

\* Mutant: any agreement releases the workflow.
_apply_node_pass_anyLevel ==
    /\ audit' = operate_pass(audit)
    /\ wf' = "workflow_review_pass"
    /\ passes' = passes + 1

\* Mutant: the level after the next one.
_apply_node_pass_skip ==
    /\ audit' = operate_pass(operate_pass(audit))
    /\ wf' = IF audit'.status = "PASSED" THEN "workflow_review_pass" ELSE wf
    /\ passes' = passes + 1

_apply_node_pass ==
    /\ audit' = operate_pass(audit)
    /\ wf' = IF audit'.status = "PASSED" THEN "workflow_review_pass" ELSE wf
    /\ passes' = passes + 1

\* Mutant: a status with a typing error.
_apply_node_reject_typo ==
    /\ audit' = operate_reject(audit)
    /\ wf' = "workflow_review_rejected"
    /\ UNCHANGED passes

_apply_node_reject ==
    /\ audit' = operate_reject(audit)
    /\ wf' = "workflow_review_reject"
    /\ UNCHANGED passes

\* Mutant: the status of the workflow is forgotten.
_apply_abort_noStatus ==
    /\ audit' = operate_abort(audit)
    /\ UNCHANGED <<wf, passes>>

_apply_abort ==
    /\ audit' = operate_abort(audit)
    /\ wf' = "workflow_abort"
    /\ UNCHANGED passes

\* handle_oa_callback: one transaction that locks the row and reads it again.
\* A decision moves a waiting audit, whichever level it waits at; the end of
\* the instance aborts any audit that has not passed, also a rejected one.
Apply(d) ==
    LET kind == dl[d].ev.kind
        open == IF kind = "terminate" THEN audit.status # "PASSED"
                                      ELSE audit.status = "WAITING"
    IN  /\ dl[d].pc = "applying"
        /\ \/ /\ open
              /\ \/ kind = "agree" /\ _apply_node_pass
                 \/ kind = "refuse" /\ _apply_node_reject
                 \/ kind = "terminate" /\ _apply_abort
              /\ moved' = moved \cup {dl[d].ev}
              /\ approvals' = IF kind = "agree"
                              THEN approvals \cup {<<dl[d].ev.by, audit.current>>}
                              ELSE approvals
           \/ ~open /\ UNCHANGED <<audit, wf, approvals, passes, moved>>
        /\ dl' = [dl EXCEPT ![d].pc = "logging"]
        /\ UNCHANGED <<req, oa, ext, start, owed, logged, calm, lost>>

\* The row of the log of events; nothing makes event_id unique.
Log(d) ==
    /\ dl[d].pc = "logging"
    /\ logged' = logged \cup {dl[d].ev}
    /\ dl' = [dl EXCEPT ![d] = NoCall]
    /\ UNCHANGED <<auditVars, oa, ext, start, owed, passes, moved, calm, lost>>

\* An exception in the check of the approver or in the handler, whose
\* transaction rolls back: _handle_event swallows it, so that the event is
\* logged as processed and answered with success like any other.
Raised(d) ==
    /\ dl[d].pc \in {"received", "applying"}
    /\ dl' = [dl EXCEPT ![d].pc = "logging"]
    /\ lost' = (lost \/ (ext = dl[d].ev.inst /\ audit.status = "WAITING"))
    /\ UNCHANGED <<auditVars, oa, ext, start, owed, logged, passes, moved, calm>>

\* The worker dies, or an exception outside these two: the event is not logged
\* as processed, and DingTalk gets no answer or an error.
Fail(d) ==
    /\ dl[d] # NoCall
    /\ dl' = [dl EXCEPT ![d] = NoCall]
    /\ calm' = (calm /\ owed[dl[d].ev] > 0)
    /\ UNCHANGED <<auditVars, oa, ext, start, owed, logged, passes, moved, lost>>

-----------------------------------------------------------------------------

\* A step of the views of AuditFlow.
WebStep(s) ==
    /\ Handler(s) \/ ApiSave(s)
    /\ passes' = IF /\ req[s].pc = "loaded"
                    /\ req[s].act = "PASS"
                    /\ can_operate("PASS", req[s].user, req[s].row)
                 THEN passes + 1 ELSE passes
    /\ calm' = (calm /\ (req[s] = Idle => Quiet))
    /\ UNCHANGED <<oa, ext, start, owed, logged, dl, moved, lost>>

Dingtalk ==
    \E k \in Instance :
        OaTerminate(k) \/ \E u \in User : OaAgree(k, u) \/ OaRefuse(k, u)

Callback(d) == Screen(d) \/ Apply(d) \/ Log(d)

OaNext ==
    \/ \E s \in Session : WebStep(s)
    \/ \E k \in Instance : StartCall(k)
    \/ StartFallback
    \/ StartRow
    \/ Dingtalk
    \/ \E d \in Delivery : Callback(d) \/ Raised(d) \/ Fail(d) \/ \E e \in Event : Receive(d, e)

OaSpec == OaInit /\ [][OaNext]_allVars

\* DingTalk sends what it owes, and a worker goes on with a callback.
OaFairSpec ==
    /\ OaSpec
    /\ WF_allVars(\E d \in Delivery : Callback(d))
    /\ WF_allVars(\E d \in Delivery, e \in Event : Receive(d, e))

-----------------------------------------------------------------------------
(* Properties *)

\* How many levels the audit row has behind it.
LevelsDone ==
    CASE audit.status = "WAITING" -> IndexOf(audit.current) - 1
      [] audit.status = "PASSED" /\ ~audit.auto -> Len(Chain)
      [] OTHER -> 0

\* Whatever callbacks and views do to one another, the audit never has more
\* levels behind it than approvals were recorded: an event that is handled
\* twice, or a copy that is written back late, may spend one approver's
\* decision on another's level, but no level comes for free.
NoFreeLevel == LevelsDone <= passes

\* The status column, which the callback writes with update() and the REST
\* view in a transaction of its own, releases a workflow only if as many
\* approvals were recorded as the chain has levels.
ReleasedCovered == wf = "workflow_review_pass" => audit.auto \/ passes >= Len(Chain)

\* As long as handlers did not overlap, a decision given in DingTalk moves the
\* audit only from the level it was given for, also when the event is sent
\* again after a worker died between applying and logging it: it is the
\* whitelist that stops the second one, since the log does not know it.
EventForItsLevel ==
    [][\A d \in Delivery :
         /\ dl[d].pc = "applying"
         /\ dl'[d].pc = "logging"
         /\ dl[d].ev.kind = "agree"
         /\ audit' # audit
         /\ calm
         => audit.current = Chain[dl[d].ev.level]]_allVars

\* As long as handlers did not overlap, the two rows agree at rest whichever
\* side decided, apart from the rejection that the callback words differently.
CalmRowsAgree == calm /\ Quiet => RowsAgree

\* As long as callbacks come one at a time and in order and no handler raises,
\* what DingTalk has agreed to does not leave the audit waiting: a worker that
\* dies is made up for by the next delivery.  (A handler that raises loses the
\* decision: nothing delivers the event again.)
Undecided(k) ==
    /\ ext = k
    /\ oa[k].status = "agreed"
    /\ calm
    /\ ~lost
    /\ audit.status = "WAITING"

OaDecides == \A k \in Instance : Undecided(k) ~> ~Undecided(k)

\* "重复事件直接返回成功响应，不重复处理": no event moves the audit twice.
HandledOnce ==
    [][\A d \in Delivery :
         dl[d].pc = "applying" /\ dl'[d].pc = "logging" /\ dl[d].ev \in moved
         => audit' = audit]_allVars
=============================================================================
