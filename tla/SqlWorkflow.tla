---------------------------- MODULE SqlWorkflow ----------------------------
(***************************************************************************)
(* From an approved SQL workflow to its result: the views execute and      *)
(* timing_task (sql/sql_workflow.py, and ExecuteWorkflow of                *)
(* sql_api/api_workflow.py), the row the schedule keeps for the workflow,  *)
(* the django-q cluster that runs sql.utils.execute_sql.execute, and the   *)
(* hook execute_callback that stores the result.  Approval and             *)
(* cancellation go on at the same time: this module adds its actions to    *)
(* those of AuditFlow.                                                     *)
(*                                                                         *)
(* The views check the status of the workflow in one transaction and write *)
(* the new one later, on its own; execute itself checks and writes under a *)
(* row lock, one action; the hook reads the status in a transaction that   *)
(* takes no lock and saves the whole row after it, two actions.            *)
(*                                                                         *)
(* django-q is external: a message is delivered at most once (a redis      *)
(* list), workers run side by side, and one monitor process receives the   *)
(* outcomes and runs the hooks one after another.                          *)
(***************************************************************************)
EXTENDS AuditFlow

CONSTANTS
    ExecSession,   \* requests to execute or schedule, in progress together
    Task,          \* the messages django-q can hold or work on at a time
    MaxCrash       \* how many messages are lost with a worker, at most

ASSUME ExecAssumption == MaxCrash \in Nat

VARIABLES
    xreq,          \* xreq[x]: the request session x is working on
    schedule,      \* the row sqlreview-timing-<id>: "none" or "pending"
    task,          \* task[t]: a message of django-q, from enqueuing to its hook
    lost,          \* messages lost so far
    calm           \* history: no two requests have been in progress together

execVars == <<xreq, schedule, task, lost>>
sysVars == <<auditVars, execVars>>       \* all but the history
vars == <<sysVars, calm>>

XStage == {"idle", "auto", "manual", "timing",   \* checked, nothing written
           "queuing", "unscheduled"}             \* the mode auto, step by step

\* "free": no message; "returned": in the result queue; "reading": the hook
\* has read the status and not yet saved.
TaskStage == {"free", "queued", "running", "returned", "reading"}

TypeOK ==
    /\ AuditTypeOK
    /\ xreq \in [ExecSession -> XStage]
    /\ schedule \in {"none", "pending"}
    /\ task \in [Task -> [pc : TaskStage, success : BOOLEAN]]
    /\ lost \in 0..MaxCrash
    /\ calm \in BOOLEAN

Free == [pc |-> "free", success |-> FALSE]

Init ==
    /\ AuditInit
    /\ xreq = [x \in ExecSession |-> "idle"]
    /\ schedule = "none"
    /\ task = [t \in Task |-> Free]
    /\ lost = 0
    /\ calm = TRUE

\* async_task: the message goes to the first free slot of the model.
async_task(t) ==
    /\ task[t] = Free
    /\ task' = [task EXCEPT ![t].pc = "queued"]

Executable == wf \in {"workflow_review_pass", "workflow_timingtask"}

-----------------------------------------------------------------------------
(* The views *)

\* Mutant: anybody's workflow can be executed, whatever its status.
ExecCheck_noStatus(x, mode) ==
    /\ xreq[x] = "idle"
    /\ wf # "none"
    /\ Executor # {}
    /\ xreq' = [xreq EXCEPT ![x] = mode]
    /\ UNCHANGED <<auditVars, schedule, task, lost>>

\* can_execute, or can_timingtask: somebody allowed to execute the workflow
\* asks for it while its status permits.
ExecCheck(x, mode) ==
    /\ xreq[x] = "idle"
    /\ Executable
    /\ Executor # {}
    /\ xreq' = [xreq EXCEPT ![x] = mode]
    /\ UNCHANGED <<auditVars, schedule, task, lost>>

\* The mode auto writes the status, ...
ExecQueue(x) ==
    /\ xreq[x] = "auto"
    /\ wf' = "workflow_queuing"
    /\ xreq' = [xreq EXCEPT ![x] = "queuing"]
    /\ UNCHANGED <<audit, approvals, req, schedule, task, lost>>

\* ... then deletes the schedule, ...
ExecUnschedule(x) ==
    /\ xreq[x] = "queuing"
    /\ schedule' = "none"
    /\ xreq' = [xreq EXCEPT ![x] = "unscheduled"]
    /\ UNCHANGED <<auditVars, task, lost>>

\* Mutant: the message is not sent.
ExecEnqueue_dropped(x) ==
    /\ xreq[x] = "unscheduled"
    /\ xreq' = [xreq EXCEPT ![x] = "idle"]
    /\ UNCHANGED <<auditVars, schedule, task, lost>>

\* ... then sends the message.
ExecEnqueue(x) ==
    /\ xreq[x] = "unscheduled"
    /\ \E t \in Task : async_task(t)
    /\ xreq' = [xreq EXCEPT ![x] = "idle"]
    /\ UNCHANGED <<auditVars, schedule, lost>>

\* The mode manual: the user vouches that the statements were executed.  The
\* schedule stays.
ExecManual(x) ==
    /\ xreq[x] = "manual"
    /\ wf' = "workflow_finish"
    /\ xreq' = [xreq EXCEPT ![x] = "idle"]
    /\ UNCHANGED <<audit, approvals, req, schedule, task, lost>>

\* Mutant: the status is written and the schedule forgotten.
TimingCommit_noSchedule(x) ==
    /\ xreq[x] = "timing"
    /\ wf' = "workflow_timingtask"
    /\ xreq' = [xreq EXCEPT ![x] = "idle"]
    /\ UNCHANGED <<audit, approvals, req, schedule, task, lost>>

\* timing_task: status and schedule in one transaction.
TimingCommit(x) ==
    /\ xreq[x] = "timing"
    /\ wf' = "workflow_timingtask"
    /\ schedule' = "pending"
    /\ xreq' = [xreq EXCEPT ![x] = "idle"]
    /\ UNCHANGED <<audit, approvals, req, task, lost>>

-----------------------------------------------------------------------------
(* django-q and the functions it calls *)

\* The time has come: a schedule of type "once" fires once.
SchedulerFire ==
    /\ schedule = "pending"
    /\ \E t \in Task : async_task(t)
    /\ schedule' = "none"
    /\ UNCHANGED <<auditVars, xreq, lost>>

\* Mutant: execute trusts whoever sent the message.
ExecuteStart_noStatus(t) ==
    /\ task[t].pc = "queued"
    /\ wf' = "workflow_executing"
    /\ task' = [task EXCEPT ![t].pc = "running"]
    /\ UNCHANGED <<audit, approvals, req, xreq, schedule, lost>>

\* execute: under the lock of the row, look at the status again.
ExecuteStart(t) ==
    /\ task[t].pc = "queued"
    /\ wf \in {"workflow_queuing", "workflow_timingtask"}
    /\ wf' = "workflow_executing"
    /\ task' = [task EXCEPT ![t].pc = "running"]
    /\ UNCHANGED <<audit, approvals, req, xreq, schedule, lost>>

\* Any other status: execute raises, and the task has failed.
ExecuteRefuse(t) ==
    /\ task[t].pc = "queued"
    /\ wf \notin {"workflow_queuing", "workflow_timingtask"}
    /\ task' = [task EXCEPT ![t] = [pc |-> "returned", success |-> FALSE]]
    /\ UNCHANGED <<auditVars, xreq, schedule, lost>>

\* The engine answers: success means neither an exception nor an error or a
\* warning in the result.
ExecuteReturn(t, success) ==
    /\ task[t].pc = "running"
    /\ task' = [task EXCEPT ![t] = [pc |-> "returned", success |-> success]]
    /\ UNCHANGED <<auditVars, xreq, schedule, lost>>

\* A worker or the whole cluster dies: whatever it held of the message, the
\* message itself, the run or its outcome, is lost.
Crash(t) ==
    /\ lost < MaxCrash
    /\ task[t].pc # "free"
    /\ task' = [task EXCEPT ![t] = Free]
    /\ lost' = lost + 1
    /\ UNCHANGED <<auditVars, xreq, schedule>>

MonitorIdle == \A t \in Task : task[t].pc # "reading"

\* execute_callback of a task that was run: the status must be executing.
HookRead(t) ==
    /\ MonitorIdle
    /\ task[t].pc = "returned"
    /\ wf = "workflow_executing"
    /\ task' = [task EXCEPT ![t].pc = "reading"]
    /\ UNCHANGED <<auditVars, xreq, schedule, lost>>

\* Otherwise the hook raises and the outcome is dropped.
HookRefuse(t) ==
    /\ MonitorIdle
    /\ task[t].pc = "returned"
    /\ wf # "workflow_executing"
    /\ task' = [task EXCEPT ![t] = Free]
    /\ UNCHANGED <<auditVars, xreq, schedule, lost>>

\* The result, then the whole row of the workflow, are saved; when one of them
\* cannot be stored, the handler of that error writes workflow_exception.
HookSave(t) ==
    /\ task[t].pc = "reading"
    /\ \/ wf' = "workflow_finish" /\ task[t].success
       \/ wf' = "workflow_exception"
    /\ task' = [task EXCEPT ![t] = Free]
    /\ UNCHANGED <<audit, approvals, req, xreq, schedule, lost>>

-----------------------------------------------------------------------------
(* Approval and cancellation, seen from here *)

\* The cancel view compares the status it has just overwritten with
\* workflow_timingtask: of the handlers of AuditFlow only the REST view gets
\* to the schedule.
AuditHandler(s) == Handler(s) /\ UNCHANGED execVars

CancelledByApi(s) ==
    /\ ApiSave(s)
    /\ schedule' = IF /\ req[s].row.status \in {"ABORTED", "REJECTED"}
                      /\ req[s].wf = "workflow_timingtask"
                   THEN "none" ELSE schedule
    /\ UNCHANGED <<xreq, task, lost>>

-----------------------------------------------------------------------------

Step ==
    \/ \E s \in Session : AuditHandler(s) \/ CancelledByApi(s)
    \/ \E x \in ExecSession :
        \/ \E mode \in {"auto", "manual", "timing"} : ExecCheck(x, mode)
        \/ ExecQueue(x)
        \/ ExecUnschedule(x)
        \/ ExecEnqueue(x)
        \/ ExecManual(x)
        \/ TimingCommit(x)
    \/ SchedulerFire
    \/ \E t \in Task :
        \/ ExecuteStart(t)
        \/ ExecuteRefuse(t)
        \/ \E success \in BOOLEAN : ExecuteReturn(t, success)
        \/ Crash(t)
        \/ HookRead(t)
        \/ HookRefuse(t)
        \/ HookSave(t)

\* At most one request, of whatever kind, is in progress.
InTurn ==
    \/ /\ \A x \in ExecSession : xreq[x] = "idle"
       /\ \A s, s2 \in Session : req[s] # Idle /\ req[s2] # Idle => s = s2
    \/ /\ \A s \in Session : req[s] = Idle
       /\ \A x, x2 \in ExecSession : xreq[x] # "idle" /\ xreq[x2] # "idle" => x = x2

Next == Step /\ calm' = (calm /\ InTurn')

Spec == Init /\ [][Next]_vars

\* A request thread that has begun goes on; the scheduler fires what is due;
\* the engine answers; the cluster works off its queues.  Users owe nothing.
RequestFairness ==
    \A x \in ExecSession :
        WF_sysVars(ExecQueue(x) \/ ExecUnschedule(x) \/ ExecEnqueue(x)
                \/ ExecManual(x) \/ TimingCommit(x))

ClusterFairness ==
    /\ WF_sysVars(SchedulerFire)
    /\ \A t \in Task :
        /\ WF_sysVars(ExecuteStart(t) \/ ExecuteRefuse(t))
        /\ WF_sysVars(\E success \in BOOLEAN : ExecuteReturn(t, success))
        /\ WF_sysVars(HookRead(t) \/ HookRefuse(t) \/ HookSave(t))

FairSpec == Spec /\ RequestFairness /\ ClusterFairness

-----------------------------------------------------------------------------
(* Properties *)

\* The settings passed the workflow unseen, or its reviewers passed it at every
\* level (a later withdrawal does not undo that: see StartsWhileApproved).
Approved == audit.auto \/ AllApproved

\* Statements run, wait to run or have run only for a workflow that its
\* settings passed or whose every level was approved, never for one they
\* rejected or that is still under review, whatever handlers interleave
\* between the check of can_execute and the writes of the view, between the
\* message and execute, and between schedule and cancellation.
OnlyApprovedRuns ==
    \/ wf \in {"workflow_review_pass", "workflow_timingtask", "workflow_queuing",
              "workflow_executing", "workflow_finish", "workflow_exception"}
    \/ schedule = "pending"
    \/ \E x \in ExecSession : xreq[x] # "idle"
    \/ \E t \in Task : task[t].pc # "free"
    => Approved

\* The REST view stands between its commit of the audit row and that of the
\* status.
BetweenCommits == \E s \in Session : At(s, "operated", "api")

\* As long as requests take turns, statements begin to run only while the
\* audit is passed: of what a withdrawn workflow leaves behind (the schedule
\* the cancel view forgets, a message already queued) nothing starts, at
\* whatever moment the cluster gets to it.  Only between the two commits of
\* a REST cancellation does the status still say otherwise.
StartsWhileApproved ==
    [][calm /\ ~BetweenCommits =>
          \A t \in Task : task[t].pc = "queued" /\ task'[t].pc = "running"
                           => audit.status = "PASSED"]_vars

\* As long as the cluster loses nothing, a status that waits has something
\* that will end the wait: a message or a view about to send it, a schedule,
\* a run, or an outcome on its way to the hook.  No refused task, dropped
\* outcome or deleted schedule leaves a workflow behind.
NoWaitInVain ==
    lost = 0 =>
        LET Sending == \E x \in ExecSession : xreq[x] \in {"queuing", "unscheduled"}
            InTask(stages) == \E t \in Task : task[t].pc \in stages
        IN  /\ wf = "workflow_queuing" => Sending \/ InTask({"queued"})
            /\ wf = "workflow_timingtask" =>
                  schedule = "pending" \/ Sending \/ InTask({"queued"})
            /\ wf = "workflow_executing" => InTask({"running", "returned", "reading"})

\* The same over time, under the fairness of the threads and of the cluster:
\* a queued workflow is taken up, a scheduled one is started, an executing one
\* gets its result, or another request changes the status first; unless a
\* worker died with a message, which nothing makes up for.
WaitsEnd ==
    \A status \in {"workflow_queuing", "workflow_timingtask", "workflow_executing"} :
        wf = status ~> wf # status \/ lost > 0

\* execute's "current read" is there so that a workflow is not executed twice
\* (sql/utils/execute_sql.py:21); it does not prevent two runs side by side.
NoTwoRuns ==
    \A t, t2 \in Task : task[t].pc = "running" /\ task[t2].pc = "running" => t = t2
=============================================================================
