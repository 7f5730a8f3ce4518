# A verification of Archery's workflows

TLA+ modules, TLC runs and TLAPS proofs about the program in this repository:
the approval of SQL workflows, on the web and through DingTalk, their execution
through django-q, applications for query privileges and archive jobs, the
execution of ALTER statements by gh-ost, the queue of table rebuilds, and the
mirroring of ALTERs to history databases.  Paths below are relative to the
repository's root; `PROJECT.json` names, for every definition, the lines it
stands for.

To run something: `tlc -config X.cfg M` for a configuration and the module the
table of runs names, `tlapm M.tla` for `AuditFlowProofs`, `SqlWorkflowProofs`,
`ApplicationsProofs`, `GhostTaskProofs`, `DingtalkOaProofs`,
`RebuildQueueProofs`, `DdlSyncProofs` and `Extrema`.

Contents: 1 the system; 2 the modules; 3 the runs; 4 fairness; 5 the proofs;
6 where code and documentation disagree; 7 what is not modelled; 8 the plan.

## 1. The system

Archery is a Django application in which engineers submit SQL to be run on
managed database instances, reviewers approve it level by level, and the
platform runs it.  It consists of several web worker processes, a django-q
cluster (a scheduler, workers, one monitor) behind redis, one MySQL database
that they share, and the managed databases.  Requests are not wrapped in
transactions (`ATOMIC_REQUESTS` is not set): a handler is as atomic as the
`transaction.atomic()` blocks it opens, and a row is locked only where the code
says `select_for_update`.

| Component | State | Operations | Interacts with |
|---|---|---|---|
| **Approval** (`sql/utils/workflow_audit.py`, `AuditV2`) | the row of `workflow_audit`: status, current level, next level, chain; its detail rows | `create_audit`, `operate` (pass, reject, abort), `can_operate` | called by the handlers of SQL workflows, query privileges, archive jobs and OA callbacks |
| **SQL workflow requests** (`sql/sql_workflow.py`, `sql_api/api_workflow.py`, `sql_api/serializers.py`) | `SqlWorkflow.status` | submit, passed, cancel, execute, timing_task; the same over REST | approval, django-q, gh-ost tasks |
| **Execution** (`sql/utils/execute_sql.py`, `sql/utils/tasks.py`) | the django-q schedule and messages; the status again | `execute`, `execute_callback`, add and delete a schedule | the requests above; the engines |
| **gh-ost tasks** (`sql/extensions/ddl_gh_ost`) | a row per big ALTER of `ext_ddl_ghost_task`, `native_alter_results`, processes, sockets, logs, poller threads | enable, start, retry, cancel, rollback, the last three also in the Django admin; the poller thread; the next task of the chain; synchronising the workflow | the workflow's status; the cancel view |
| **OA approval** (`sql/extensions/dingtalk_oa`) | the log of events; the row that links a DingTalk instance to an audit | start an instance or fall back, callback, whitelist, apply a decision, reconcile | approval and the workflow's status, beside the web views |
| **Table rebuilds** (`ddl_gh_ost/services/queue.py`, `rebuild.py`) | rebuild tasks queued per table | submit, advance the queue, cancel | the poller threads, which advance the queue when a task ends |
| **Structure synchronisation** (`sql/extensions/ddl_sync`) | the history: a row per ALTER with the mirror workflow it was copied to and what became of it | three `post_save` handlers: create a mirror when a workflow is saved as approved, end the mirrors of a workflow that ended, record the end of a mirror | every view, hook and thread that saves a workflow |
| **Archive jobs** (`sql/archiver.py`) | the job: its status and whether it is switched on; its messages | apply, audit, switch, run once, run by schedule | approval, django-q |
| **Query privileges** (`sql/query_privileges.py`) | the application's status; the rows of `query_privileges` | apply, audit and its callback, delete, change, check a query | approval |
| Settings of the chain, resource groups | groups per resource group and kind of workflow | edit | read once, when an audit is created |
| Export and offline download; engines; query page, slow log, binlog, diagnosis; instances and accounts; authentication and users; notifications | rows of their own | plain reads and writes, or calls of other systems | - |

**What is hard.**  Approval: two handlers hold copies of the same audit row, and
each writes its whole copy back.  Requests: the check of a status and the write
that rests on it lie in different transactions, and a request is a series of
writes that others come between.  Execution: a schedule that fires, a message
that waits, a hook that comes late, while users cancel, reschedule and click
again; a worker that dies with a message.  gh-ost: web workers that restart,
threads whose rows are changed under them, a log and a socket that belong to
whatever process came last, a chain of tasks each started by the thread of the
one before, and one workflow status that depends on all of them.  OA: events
that are repeated, reordered or handled twice at once, a worker that dies
between applying an event and logging it, and web views on the same rows.
Rebuilds: a queue without a lock and without an owner, advanced by whoever has
just submitted or ended something.  Synchronisation: handlers that hang on
`save()`, inside a transaction in one view and outside in the next, and not run
at all by `update()`.

**What makes the components correct.**

* Approval: no level is skipped; a level counts only when somebody entitled to
  it passed it; a final state is final.
* Requests: the status says what the audit row says; nothing is released
  without approval.
* Execution: only approved SQL runs; it runs once; whoever waits, waits for
  something.
* gh-ost: success means that the table was altered; the chain is followed; two
  processes never copy one table; what fails is stopped; the workflow is
  finished only when all of it is done; what runs comes to an end.
* OA: no level comes for free, whatever callbacks and views do to one another;
  an event counts for the level it was sent for; what DingTalk agreed to is not
  lost; both rows agree whichever side decided.
* Rebuilds: one process per table, the queue in order, nobody forgotten in it.
* Synchronisation: the history claims only what was executed; it agrees with the
  mirrors; a result stays; a withdrawn workflow leaves no mirror behind that
  somebody could still approve.
* Query privileges and archive jobs: nothing is granted or scheduled without
  approval at every level; what was approved is granted, and once, so that a
  deletion of what was granted takes it away.

## 2. The modules

| Module | Extends | Models |
|---|---|---|
| `AuditRules` | - | the rules of `AuditV2` as functions of one row: creation, pass, reject, abort, who may do what |
| `AuditFlow` | `AuditRules` | one workflow in approval: the row, the status, and the handlers that interleave on them |
| `Approval` | - | what an approval flow promises, with no rows or handlers; `AuditFlow` is checked against it |
| `Applications` | `AuditFlow` | the three kinds of application that share approval: what a SQL workflow, an application for privileges and an archive job make of it |
| `SqlWorkflow` | `AuditFlow` | scheduling, queueing and running the workflow, with approval and cancellation going on |
| `GhostTask` | - | the gh-ost tasks of a workflow: views, threads, processes, the chain, the outcome |
| `DingtalkOa` | `AuditFlow` | approval in DingTalk beside approval on the web: instances, events, callbacks |
| `RebuildQueue` | - | rebuilds of one table: submissions, pollers, processes and the queue between them |
| `DdlSync` | - | a workflow, its mirrors, the history, and the handlers that keep them together |
| `MCAudit`, `MCApplications`, `MCSqlWorkflow`, `MCGhost`, `MCOa`, `MCQueue`, `MCSync` | the above | values for TLC and symmetry |
| `AuditFlowProofs`, `SqlWorkflowProofs`, `ApplicationsProofs`, `GhostTaskProofs`, `DingtalkOaProofs`, `RebuildQueueProofs`, `DdlSyncProofs` | the above | the theorems |
| `Extrema` | - | a finite set of naturals has a least and a greatest element, for the proofs |

An operator whose comment begins with `Mutant:` (`operate_pass_oldNext`,
`ExecCheck_noStatus`, ...) is not part of a model.  It is the definition after
it with a plausible bug; substituting it makes a property fail that holds
otherwise, which shows that the property depends on that piece of code.

Some variables are history: no action reads them, properties do.  `calm`, in
five modules, says that so far handlers took turns and that none of the
mishaps named beside its declaration occurred.  A property of the form
`calm => ...` therefore
promises something for every sequential behaviour, and by the absence of a
promise says where concurrency breaks the code; section 6 lists what happens
then.  Properties that hold without `calm` are stated without it.

### AuditRules

A row is `[status, current, next, auto]`.  `current` and `next` are
`current_audit` and `next_audit`, with `NoGroup` for "-1"; `audit_auth_groups`
is the constant `Chain`, because it is copied from the settings once, in
`create_audit`, and never written again.  `auto` marks a row that the settings passed without anybody's review; one that
they rejected is not marked, so no property excuses its release.  A chain may name a
group twice: `IndexOf` takes the first position, like Python's `list.index`.
`EntitledAt` keeps a peculiarity of the code: of the resource group it is only
asked whether *somebody* of the level's group belongs to it.  `can_review`,
which the cancel view consults, asks whether the user does.  The actions of
execution (`ExecuteAction`) are allowed on a passed row to anybody, and
`operate` does nothing for them.

### AuditFlow

`audit` is the row, `wf` the status column, `approvals` the detail rows of kind
PASSED, `req[s]` the request a session is working on with the objects it has
loaded.  Views and actions:

| Code | Actions |
|---|---|
| `WorkflowContentSerializer.create` | `Submit` (the transaction), `SubmitSave` (`workflow.save()` after it) |
| `passed` | `PassedLoad`, `PassedOperate` |
| `cancel` | `CancelCheck`, `CancelLoad`, `CancelOperate` |
| `AuditWorkflow.post` | `ApiLoad`, `ApiOperate` (commits the audit row), `ApiSave` (commits the status) |
| `AuditException` | `Refused` |

A load and the write that follows are separate actions because nothing locks
the row between them.  What a transaction writes is one action.  The REST view
opens none, so its two writes are two actions; and it never consults
`can_cancel`.

### Applications

`kind` is the type of the application, chosen once.  A SQL workflow moves by
`Workflow`, which is `AuditFlow`.  For the other two, `app` is the row of
`query_privileges_apply` or `archive_config` (status, and the job's `state`),
`areq[s]` the request of session s with the audit row, and the job, it has
loaded, `grant[g]` the privileges that the g-th callback inserted, `queue` the
messages for the archive task by sender.  History: `calm`, `died`, and `copies`,
the insertions that followed from an execution action.

| Code | Actions |
|---|---|
| `query_priv_apply` | `Apply` (the transaction), `ApplyCallBack` |
| `archive_apply` | `ApplyArchive` (one transaction) |
| `query_priv_audit`, `archive_audit` | `AuditFind` (the application is loaded), `AuditLoad` (its audit), `AuditQuery` / `AuditArchive` (the transaction of a pass, a rejection or a withdrawal), `ExecuteQuery` / `ExecuteArchive` (that of an execution action) |
| `AuditWorkflow.post` | `PostLoad`, `PostOperate`, then `PostQuery` and `PostGrant`, or `PostArchive`: each write on its own |
| `AuditException` | `AppRefused` |
| `query_priv_modify`, type 1 | `Revoke` |
| `archive_switch`; `archive_once` and `ExecuteWorkflow` for a job | `Switch`; `archive_once` |
| `add_archive_task`, the task `archive` | `add_archive_task`, `archive` |
| a worker dies | `Die` |

`Reviewer` stands for the permission of the kind at hand (`sql.sql_review`,
`sql.query_review`, `sql.archive_review`).  The settings never decide these two
kinds by themselves (`is_auto_review`, `is_auto_reject`).  The pages offer a pass and a rejection
(`queryapplydetail.html:140`, `archivedetail.html:246`), but the views take any
`WorkflowAction` (`query_privileges.py:445`, `archiver.py:247`), and so does the
model, except for a submission, which no status allows.

### SqlWorkflow

`xreq` holds the requests to execute, `schedule` the row `sqlreview-timing-<id>`
of django-q, `task` the messages of django-q from enqueueing to the end of
their hook, `lost` how many were lost.

| Code | Actions |
|---|---|
| `can_execute`, `can_timingtask` in the views | `ExecCheck` |
| `execute`, mode auto | `ExecQueue`, `ExecUnschedule`, `ExecEnqueue`: three separate writes |
| `execute`, mode manual | `ExecManual` |
| `timing_task` | `TimingCommit`: one transaction, which takes the workflow's row lock with its first write |
| django-q (external) | `SchedulerFire`, `Crash`, and the single monitor (`MonitorIdle`) |
| `execute_sql.execute` | `ExecuteStart` / `ExecuteRefuse` (under the row lock), `ExecuteReturn` |
| `execute_callback` | `HookRead` / `HookRefuse`, `HookSave` |

`AuditHandler` and `CancelledByApi` bring in the actions of `AuditFlow`.  Only
the REST view deletes a schedule: the web view compares the status with
`workflow_timingtask` after it has overwritten it (`sql/sql_workflow.py:565`).

### GhostTask

`row[i]` is the row of the i-th big ALTER, `native` the list of direct ALTERs,
`proc[p]` the p-th gh-ost process that was started, `applied` the ALTERs whose
tables were swapped, `req[w]` the request a web worker handles, `poller[w][i]`
the thread of worker `w` for task `i`.

| Code | Actions |
|---|---|
| `enable` | `EnableCheck`, `EnableWrite` per statement, `EnableLink` |
| `start`, and the direct ALTERs after it | `StartCheck`, `Launch` / `LaunchFails`, `LaunchSave`, `NativeStep`, `NativeSave` |
| `retry`, `admin_retry` | `RetryCheck`, `RetryReset`, then as above |
| `cancel`, `admin_cancel` | `CancelKill`, `CancelSave` |
| `rollback`, `admin_rollback` | `RollbackDrop`, `RollbackSave` |
| the workflow's cancel view with `cleanup_pending_ghost_tasks` | `Abort` |
| `poll_loop` | `PollLoad`, `PollVerdict` (with the kill and unlink of `_finalize_task`), `FinalSave`, `PollCrash` |
| `_start_next_ghost_task` | `NextPick`, `NextLaunch` / `NextFails`, `NextSave` |
| `_sync_workflow_status` | `SyncRead`, `SyncWrite`: the status, the tasks and the outcome are read by separate queries |
| a web worker that is replaced | `Restart` |
| gh-ost (external) | `Bind`, `Swap`, `SayDone`, `Exit`, `Fatal` |

The views of a user concern the first task of the workflow, the actions of the
Django admin (`AdminViews`) any task.  One that is given several tasks loads
them all and works through them, as several workers with a task each may do.
What `admin_retry` starts is marked in the history (`forced`): it is the start
that may be any link of the chain and never asks for the one before.

A view or a thread keeps the object it loaded (`obj`, `nobj`) and saves all of
it later.  `Newest(i)` is the log as a poller finds it: every start truncates
the file, so it speaks of the process started last, not of the one the thread
watches.  A poller's decision that a process is stuck rests on clocks; the model
lets it be taken at any moment at which a live process has written nothing.

### DingtalkOa

`oa[k]` is instance k as DingTalk sees it, `ext` the row of
`ext_workflow_audit_external`, `start` a request between the creation of an
instance and that row, `owed[e]` how often DingTalk may still send event e,
`logged` the events with `processed=True`, `dl[d]` a callback in progress.
History: `passes` (rows of kind PASSED in the details), `moved` (events that
moved the audit), `calm`, `lost` (an exception was swallowed while the audit
waited for the decision).

| Code | Actions |
|---|---|
| `retry_oa`, `start` of the driver | `StartCall`, `StartRow`; `StartFallback` for `_fallback` |
| DingTalk (external) | `OaAgree`, `OaRefuse`, `OaTerminate` |
| `dingtalk_oa_callback`: the log is consulted | `Receive` |
| `_handle_event`: link, audit row and whitelist, unlocked | `Screen` |
| `handle_oa_callback`: one transaction under the row's lock | `Apply`, with `_apply_node_pass`, `_apply_node_reject`, `_apply_abort` |
| the row of the log | `Log` |
| an exception in `_handle_event`, swallowed there | `Raised`: the event goes on to `Log` |
| a worker dies, any other exception | `Fail`: the event is not logged |
| the views of `AuditFlow` | `WebStep` |

The program starts an instance in `retry_oa` only: `create_audit` does not call
`driver.start()`, although the docstring of `configurable_auditor.py` says so.
Left out are `external_status` and `last_synced_at`, which only the
reconciliation reads, and that fails on its
`select_related("audit", "audit__workflow")` (an audit has no such relation)
before it looks at a row; `audit_driver`, which nothing reads; and the checks of
signature, time and address, which turn a request away before it changes
anything.  The cleanup of gh-ost tasks in `_apply_abort` is `Abort` of
`GhostTask`.

### RebuildQueue

`row[t]` is the row of rebuild task t, `proc[p]` a gh-ost process, `sock` the
process that holds the socket of the table, `act[w][0]` the request of web
worker w and `act[w][t]` its poller of task t.  History: `trouble` (counts what
users or the world need not do), `calm`, `stalled`.

| Code | Actions |
|---|---|
| `rebuild_start` | `Submit`, then the advance below |
| `try_advance_queue` | `Pick` (`find_waiting_for`), `Check` (`find_running_for`), `Spawn` / `SpawnFails` (`start_ghost_process`), `Save` (`start_rebuild_process`), `StartPoller` |
| `poll_loop` | `PollLoad`, `PollEnd`, `PollSave` (with the removal of the socket), then the advance; `PollCrash` |
| `admin_cancel` | `CancelStop`, `CancelSave` |
| the web server restarts | `Restart` |
| gh-ost (external) | `Bind`, `Finish`, `Exit`, `Die` |

The queue is the set of rows with status queued.  There is no variable for it,
and no lock: an advance is five steps, and others come between any two.

### DdlSync

`source` and `mirror[m]` hold status and audit of the workflow and of its
mirrors, `mirror[m].run` the execution of a mirror up to its hook,
`hist[m][a]` the column `sync_status` for ALTER a and mirror m, `saver[s]` where
a request or thread is in a save and the handlers inside it.  History:
`applied`, `vouched` (mirrors somebody confirmed as executed by hand), `unstored`
(mirrors whose hook failed to store the result), `trouble`, `calm`.

| Code | Actions |
|---|---|
| `workflow_passed_handler` | `Judge`, `Create`, `WriteRow`; in the transaction of the web view `passed`: `WebApprove` |
| `workflow_terminal_handler` | `Cascade`, `CascadeTarget`, `CascadeRow`; in the transaction of `cancel`: `WebCancel` |
| `target_workflow_status_handler` | `Recorded` and `Closed`, in `TargetRecord`, `HookRecord`, `CascadeTarget`, `MirrorCancel` |
| `AuditWorkflow.post` on the source | `ApiApprove`, `ApiSaveApproved`; `ApiCancel`, `ApiSaveAborted` |
| the same on a mirror | `TargetPass` or `TargetCancel` (the audit), `TargetSave` (the status), `TargetRecord` (the handler) |
| `execute`, mode manual, on a mirror, by the web or REST | `TargetVouch` (the check), `TargetSave`, `TargetRecord` |
| saves of other columns of an approved workflow (`retry_oa`, `enable`, small tables) | `Hold`, `Resave` |
| execution of the source | `SourceStart`, `SourceFinish`, `SourceFail`, `SourceUnstored` |
| approval (web view) and execution of a mirror | `MirrorPass`, `MirrorStart`, `MirrorReturn`, `HookRead`, `HookSave`, `HookRecord` |
| the hook's `except` branch, which writes with `update()` | `HookFails`, `SourceUnstored` |
| DingTalk's callback, on either | `OaSource`, `OaMirror` |
| a process dies | `CrashSaver`, `CrashHook` |

A web view is one action, because its handlers run in its transaction; the REST
view, the hook and the threads open none, so their handlers are steps.  There is
one source and one enabled pair for its database.  Rows of the history without
a mirror (ALTERs that the pair's lists turn away, or whose submission failed)
are left out: no handler looks at them again.  Mirrors are executed by
django-q or by hand; a mirror inherits `enable_gh_ost`
(`sync_trigger.py:267`), but its execution by gh-ost is left out.  Approval by levels and its stale writes are left to `AuditFlow`.

## 3. The runs

| Run | Module | Checks | Shows |
|---|---|---|---|
| `audit_concurrent` | MCApplications | `RowOnChain`, `EveryLevelApproved`, `ReleasedOnlyIfApproved`, `AppTypeOK`, `EffectApproved`, `OneGrant`, `Settled` | stale writes can bring a level back, never skip one; nothing unapproved is released, granted or scheduled, over dying workers and the switch of a job; what was passed is granted unless a worker died in between, and granted once while handlers take turns and nobody sends an execution action |
| `audit_race` | MCAudit | `ClosedStaysClosed`, **violated** | with two requests a closed audit is reopened (section 6) |
| `exec_concurrent` | MCSqlWorkflow | `TypeOK`, `OnlyApprovedRuns`, `StartsWhileApproved`, `NoWaitInVain`, `WaitsEnd`, `ClosedStaysClosed`, `ImplementsApproval` | only approved SQL is scheduled, queued or run; it is started only while its audit is passed, whatever schedule or message a withdrawal left behind; a waiting status has something to end its wait, and ends under the fairness of section 4; with one approval request at a time, approval implements the abstract flow, whatever execution does beside it |
| `exec_double` | MCSqlWorkflow | `NoTwoRuns`, **violated** | a workflow can run twice at once (section 6) |
| `ghost_chain` | MCGhost | `GhostTypeOK`, `SuccessIsApplied`, `ChainOrder` | success is never wrong and the chain is followed, over two web workers, restarts, failing threads and retries; what an administrator starts out of turn stays the only thing out of turn |
| `ghost_ends` | MCGhost | `NoFalseFinish`, `FailedIsStopped`, `EveryRunEnds` | runs end and their outcome is right, with cancels, rollbacks and an aborted workflow |
| `ghost_cancel` | MCGhost | `CancelStands`, **violated** | a poller overwrites a cancellation (section 6) |
| `ghost_double` | MCGhost | `NoDoubleRun`, **violated** | two processes copy one table (section 6) |
| `oa_callbacks` | MCOa | `OaTypeOK`, `NoFreeLevel`, `ReleasedCovered`, `CalmRowsAgree`, `EventForItsLevel`, `OaDecides` | over repeated, reordered and dying deliveries and a web session: no level is passed without a recorded approval; a decision counts for its level, and is not lost while handlers take turns and none raises an exception |
| `oa_twice` | MCOa | `HandledOnce`, **violated** | one event moves the audit twice (section 6) |
| `rebuild_queue` | MCQueue | `QueueTypeOK`, `OneRebuild`, `InTurn`, `QueueMoves` | one rebuild at a time and in order while handlers take turns; no overlap of submissions and ends leaves a task waiting |
| `ddl_sync` | MCSync | `SyncTypeOK`, `SyncedIsApplied`, `NoOrphan`, `HistoryAgrees`, `RowsFinal` | the history claims only what was executed or confirmed by hand; while handlers take turns it agrees with the mirrors whose result could be stored, its results stay, and no withdrawn source leaves a mirror open |

**Bounds of the audit runs.**  Two levels: the smallest chain on which `next`
differs from "no group", and on which a level can be skipped or repeated.  Four
users tell the rules apart: the engineer, who is a reviewer and a member of the
first group, so that only `ban_self_audit` stops a self-approval; a reviewer for
each level; and a superuser.  Two sessions: a stale write needs one handler to
write between the load and the write of another, and every property speaks of
one row and the copies of it; the proofs of section 5 remove this bound.
`MaxGrant` of two lets a second insertion happen, by a second pass or by an
execution action; an execution action in excess of it is not sent, and two
sessions cannot pass an application three times.  The action and the user of a request for privileges
or a job are chosen where the code asks for them, in `operate()`; nothing before
depends on them.  The two sessions are interchangeable (`Sessions`).

**Bounds of the execution runs.**  Two levels and one approval session, because
what approval requests do to one another is settled by the runs above and
`ClosedStaysClosed` and `ImplementsApproval` hold only while they take turns;
one request to execute in `exec_concurrent`, two in `exec_double`; two messages,
one loss.  Two messages suffice for a fired schedule to meet a click on execute,
and for two runs.  A message in excess of `Task` is not sent until a slot is
free: a user who queues a third one waits.  `WaitsEnd` excuses behaviours in
which a message was lost: the queue delivers at most once, and a workflow whose
message is gone waits for ever by design.  `exec_concurrent` reaches one state
less of concurrency than the safety theorems of section 5, which hold for any
number of sessions, messages and losses.

**Bounds of the gh-ost runs.**  Two ALTERs: the smallest chain.  They are of the
same table, where socket, log and swap collide; one table each would leave out
interleavings, not add any.  `MaxPid` bounds how many processes are started.
`CHECK_DEADLOCK FALSE` stands in these four configurations, and in the four
below, because the system may really stop: all tasks ended, all events sent, and
users do nothing more.  The two workers of `ghost_chain` are interchangeable
(`Workers`); apart from the sessions of `audit_concurrent` no other run uses
symmetry.

Four constraints on what users do narrow these runs.  Those defined in
`GhostTask` are there because without each TLC finds a behaviour that breaks a
property:

* `EnableOnce`: enabling again after all tasks have ended resets a task that
  succeeded to queued, so its ALTER is run a second time.
* `Linked` (`ghost_chain`): tasks are created and prechecked one by one, and
  `depends_on` is written after all of them (`views.py:494`).  A start that
  comes in between, or at any time after the worker died in between, finds a
  task without a dependency, and `ChainOrder` is violated.  The administrator,
  whose actions ask for no dependency, also waits until they are written.
* `OneRepair` (`ghost_chain`; in `MCGhost`): while somebody retries, or the
  administrator cancels, no other request is under way, and until the
  administrator has started something he acts on a task whose turn has not come,
  which is what the run adds him for.  This one is there for size alone:
  `GhostChainOrder` (section 5) holds for every overlap, every task and
  `admin_rollback` too.
* `FirstStarted` (`ghost_ends`): a click on start for the second task races the
  poller that starts it by itself; both have passed the check of the status,
  the loser fails at the socket and writes `failed` over the row of the
  process that is running, and `FailedIsStopped` is violated.

`ghost_ends` leaves out retry and the administrator for the same reason: `SyncRead` and `SyncWrite`
read the rows at different moments, and `start_poller` does nothing while the
old thread of the task is still finishing (`poller.py:510`), so a retry at the
wrong moment falsifies the outcome or leaves a run without a thread.  It also
leaves out restarts, after which nobody polls what runs.

**Bounds of the OA runs.**  Two levels with different approvers: the smallest
chain on which an event can count for a level it was not sent for.  Every event
is sent up to twice, two callbacks are at work at a time and one web session
beside them, so that a repetition can meet the first delivery, a later event
overtake an earlier one, and either meet a view.  One instance: a second one is
refused its row and its events are ignored, since `audit` is one to one.
Callbacks may die or raise an exception at any moment and any number of times;
`OaDecides` excuses a behaviour in which one was swallowed while the audit waited
(`lost`), for then the decision is gone (section 6).

**Bounds of the rebuild run.**  Three tasks, three processes, one worker with a
request and a poller per task: a running task, one that is to follow and one
that must not come before it.  One trouble (a cancellation, a dead process, a
failing thread or start, a restart) at any moment.  `MaxPid` counts each start,
so every task can be started; `QueueMoves` excuses a behaviour that used all
processes.

**Bounds of the synchronisation run.**  Two ALTERs, so that rows of one mirror
can differ; two mirrors, so that a resave makes a second and a cascade meets
both; one saver, beside which web views, hooks and mirrors act at every step;
one trouble: a decision in DingTalk, a death, or a result that cannot be stored.
`SecondPlain` (in `MCSync`) keeps the second mirror plain: one ALTER, waiting for
approval when it is created, neither confirmed by hand nor unstored; what else a
mirror may be, the first one is.  The theorems have no such bound.

## 4. Fairness

All of it is weak fairness, of the smallest group of actions that one thread
chooses among.

* `SqlWorkflow!FairSpec`: a request thread that has checked a status goes on to
  its writes; the scheduler fires what is due; the cluster works its queue and
  its results off; the engine answers (its connections have timeouts).
* `GhostTask!FairSpec`: a request in progress and a poller thread are scheduled
  by the interpreter; a gh-ost process binds, copies and ends.  The last is an
  assumption about gh-ost, whose throttling could delay it without bound.

* `DingtalkOa!OaFairSpec`: DingTalk sends what it owes while a worker is free,
  and a worker goes on with a callback, or dies.  Nothing is said of the web
  views.
* `RebuildQueue!QueueFairSpec`: a request or poller in progress goes on, and so
  does gh-ost.  Submissions, cancellations and troubles owe nothing.

No user is obliged to send anything.  Approval on the web has no liveness: it
waits for people.  `DdlSync` has none either: a handler that dies is made up for
by nobody.

## 5. The proofs

`AuditFlowProofs` (for every chain, any users, any number of sessions):

| Theorem | Property |
|---|---|
| `AuditTypes` | `AuditTypeOK`, a part of the type invariants of the modules above it |
| `AuditRowOnChain` | `RowOnChain` |
| `AuditEveryLevelApproved` | `EveryLevelApproved` |
| `AuditReleasedOnlyIfApproved` | `ReleasedOnlyIfApproved` |
| `AuditClosedStaysClosed` | `ClosedStaysClosed`, if `OneAtATime` |
| `AuditImplementsApproval` | `ImplementsApproval`, if `OneAtATime` and `DistinctLevels` |

`SqlWorkflowProofs` (also for any number of messages, sessions and losses):

| Theorem | Property |
|---|---|
| `SqlTypes` | `TypeOK` |
| `SqlOnlyApprovedRuns` | `OnlyApprovedRuns` |
| `SqlStartsWhileApproved` | `StartsWhileApproved` |
| `SqlNoWaitInVain` | `NoWaitInVain` |
| `SqlClosedStaysClosed` | `ClosedStaysClosed`, if `OneAtATime` |
| `SqlImplementsApproval` | `ImplementsApproval`, if `OneAtATime` and `DistinctLevels` |

`ApplicationsProofs` (for every kind, also for any number of insertions):

| Theorem | Property |
|---|---|
| `AppTypes` | `AppTypeOK` |
| `AppEffectApproved` | `EffectApproved` |
| `AppOneGrant` | `OneGrant` |
| `AppSettled` | `Settled` |

`GhostTaskProofs` (for any number of ALTERs, small tables and processes; the
first three also for any number of workers, all views and all faults):

| Theorem | Property |
|---|---|
| `GhostTypes` | `GhostTypeOK` |
| `GhostSuccess` | `SuccessIsApplied` |
| `GhostChainOrder` | `ChainOrder`, of `LinkedSpec` |
| `GhostNoFalseFinish` | `NoFalseFinish`, of `OneStart` |
| `GhostFailedIsStopped` | `FailedIsStopped`, of `OneStart` |

`RebuildQueueProofs` (for any number of tasks, workers, processes and troubles):

| Theorem | Property |
|---|---|
| `QueueTypes` | `QueueTypeOK` |
| `QueueOneRebuild` | `OneRebuild` |
| `QueueInTurn` | `InTurn` |

`DingtalkOaProofs` (also for any whitelist, instances, callbacks and number of
deliveries):

| Theorem | Property |
|---|---|
| `OaTypes` | `OaTypeOK` |
| `OaNoFreeLevel` | `NoFreeLevel` |
| `OaReleasedCovered` | `ReleasedCovered` |
| `OaRowsAgree` | `CalmRowsAgree` |
| `OaEventForItsLevel` | `EventForItsLevel`, if `OneGroupEach` |

`DdlSyncProofs` (for any number of ALTERs, mirrors, savers and troubles):

| Theorem | Property |
|---|---|
| `SyncTypes` | `SyncTypeOK` |
| `Synced` | `SyncedIsApplied` |
| `WithdrawnLeavesNone` | `NoOrphan` |
| `HistoryFollows` | `HistoryAgrees` |
| `ResultsFinal` | `RowsFinal` |

The assumptions are the named ones of the modules: `ChainAssumption`,
`UserAssumption`, `SessionAssumption`, `KindAssumption`, `ExecAssumption`,
`GhostAssumption`, `OaAssumption`, `QueueAssumption`, `SyncAssumption`; TLC
evaluates them.  The theorems with an "if" or an "of" have a hypothesis besides;
each is one that the run of the property meets, and the argument says what goes
wrong without it.

**The argument.**  None of the properties is inductive, because a handler may
write back any row it holds.  `AuditInv` therefore says of every row, the one in
the table and each one held by a session, what makes it safe to write
(`RowInv`): a waiting row stands at a level of the chain with the right next
one, and every level before it is approved; a passed row has all levels
approved.  A row that was true when it was loaded stays true, for the details
are only ever added to: approvals grow, and `RowInv` only asks them to be large
enough.  That is why a stale row is harmless to `EveryLevelApproved`, though not
to `ClosedStaysClosed`.  `SqlInv` adds that whatever comes after release (a
status, a schedule, a request, a message) implies approval, which again cannot
be lost.  That approval is once and for all: a workflow withdrawn later counts as
approved for `OnlyApprovedRuns`.  `StartsWhileApproved` is about these.  `NoWaitInVain` is inductive beside `SqlInv`: every action
that writes a waiting status, or takes away what will end the wait, is looked
at in turn (`StepWait`).

*Starts.*  What lies in the queue or the schedule of a withdrawn workflow is held
back by one check, that of the status in `execute`.  `TurnInv` says that, while
requests take turns, a status that lets an execution start (`Runnable`) goes
with a passed audit (`RunnablePassed`), save between the two commits of a REST
handler (`BetweenCommits`, `WaitingNotRunnable`); that a request under way holds
the row as it is stored (`RowsHeld`); and that an `execute` past its check of the
status stands on a passed audit (`CheckedPassed`).

*Privileges and jobs.*  `AppInv` says of an application that is not a SQL
workflow what `AuditInv` says of one, with `RowInv` of the copies in `areq`; and
that its status, or a handler about to insert, implies that all levels are
approved.  Neither the switch nor a job saved from an old copy can make the
schedule run it unapproved, for the schedule asks for the status too.
`SettleInv` is about the order of the REST view's writes: an audit that says
passed has its privileges or there is a handler that owes them (`Owes`), so
death is the only way to lose them.  While handlers take turns the one at work
holds the row as it is, a pass comes to a waiting row only, and nothing is
granted while the row waits: hence one insertion.  An execution action breaks
that argument, for it is accepted on a passed row and ends in the same callback;
what it inserts is set apart in `copies`.

*One request at a time.*  `OneAtATime` says that there is at most one session,
that is, that no approval request begins before the one before it is answered;
with two, run `audit_race` reopens a closed audit.  Then a handler that has
loaded the row holds the row in the table (`HoldsCurrent`), and every step of a
handler is a step of `Approval` or none: `Created`, `PassedOn`, `ClosedBy`.  The
abstract flow counts the levels passed, so the proof also needs that a waiting
row stands at the first level that nobody has passed (`LevelsInOrder`), and that
the levels passed are those before it (`LevelsBefore`).  That in turn needs
`DistinctLevels`: if a chain names a group twice, `list.index` finds the first of
the two, and an approval of one level counts for the other.  `SqlWorkflow` inherits
both results, because nothing that execution does writes the audit.

*gh-ost.*  Success is written by one action, `FinalSave`, from an object held
since the verdict; so the invariant says of every object a thread holds with
the status success that its table was swapped, and since `applied` only grows,
it stays true however long the object is held.  At the verdict it rests on the
log: a log that says done is that of the last process started for the task
(`Newest`), which had swapped before it said so.

*The chain.*  `LinkedSpec` is `Spec` of users who neither start nor retry before
`enable` has written the dependencies (`Linked`; section 3 says what happens
otherwise).  Whoever launches task i found the row before it
successful, hence, by `GhostSuccess`, applied.  `ChainInv` carries that from the
check to the launch, through whatever happens in between: `After(i, applied)` for
the task a request is about to launch (`RequestChain`), for the next task of a
thread (`ThreadChain`) and for every process that was started (`ProcessChain`),
with one exemption: a request of `admin_retry` and the process it starts
(`forced`).  The exemption does not spread, and that is what the theorem says of
the administrator: a task that succeeded out of turn was applied all the same, so
the one behind it follows an applied one.  The
rows keep their dependencies once written, whatever copy is saved over them,
and before they are written nobody has begun (`Quiet`).

*One start.*  `NoFalseFinish` and `FailedIsStopped` are proved of `OneStart`: one
web worker, no retry, nothing done by the administrator, no fault (`NoRepair`), gh-ost enabled once and the first task started,
with cancels, rollbacks and aborts at any moment.  Each part is needed.  A retry, the user's or the administrator's,
may come between the queries of `_sync_workflow_status`, or meet the thread of
the task it starts again.  A restart loses what the request knew of the direct
ALTERs, and a thread that dies marks its task failed without stopping gh-ost.  A
second worker, or a start of another task, races the thread that starts the same
task.  The behaviours then go through five phases (`EndsInv`): nothing is enabled
(`NotEnabled`); the rows are being created (`Enabling`); all are prechecked and the first may be
started (`Ready`); it was launched and its row is not yet saved (`Launched`);
and the chain goes on (`Going`).  In the last, one thread at a time is busy
(`OneBusy`), the tasks behind it wait unlaunched (`Waiting`), and no process of a
failed task is alive (`FailedStopped`).  A thread that is about to write that the
workflow has ended has read rows that cannot change any more (`Ending`), which is
what makes two separate queries harmless here.

*Rebuilds.*  What keeps two processes apart is not one guard but three, of which
one always holds (`Guarded`): a live process has the socket, or a running row
carries its pid, or a handler is about to write that row.  `ActorOK` says of
each handler and thread why the row it is going to write, computed from what it
read long before, harms none of that; only the row or socket of a dead process
may be overwritten.  `InTurn` follows from what `Pick` and `Check` have read, as
long as nobody else moves in between.

*With callbacks.*  `EveryLevelApproved` does not survive them: a repeated event
moves the row past a level nobody entitled to it approved.  What survives is the
count.  `CoveredRow(r, n)` says that a row, wherever it is held, has no more
levels behind it than `n` approvals were recorded.  A row that is written
back late was covered by fewer approvals than there are now, and each step over
a level, by callback or view, adds one.  `CoverInv` states this for the table
and for every session, so `NoFreeLevel` and `ReleasedCovered` hold with stale
writes, repeated events and dying workers.

*The history.*  `SyncedIsApplied` is followed back to where it comes from:
`synced` is written only by the handler that records the end of a mirror, in the
hook's save of an execution whose outcome is good, or in the save of a view that
was told the mirror was executed by hand; so `SyncInv` carries, beside types, that
a mirror whose execution returned well (`GoodOutcome`) was applied, and that who
is going to save one as finished had somebody vouch for it (`SaverKnown`).
The cascade, which writes rows it loaded earlier, writes `skipped` or `failed`
only: it may hide a success but not invent one.

*Taking turns.*  Three properties of `DdlSync` and two of `DingtalkOa` are promised
while `calm` holds.  What they need is proved as one invariant per module,
`calm => Turns` (`TurnsInvariant`, `OaTurns`): at most one handler is at work, and
what it has read is still so.  In `DingtalkOa` that is `Told` for a web request
and `Screened` for a callback (the approver is on the whitelist of the group the
audit stands at), and whenever all rest, the audit and the workflow tell the
same story (`SameStory`).  `EventForItsLevel` also needs `OneGroupEach`: whoever is
asked in DingTalk at one level is not on the whitelist of another, or else his
repeated agreement counts for the next level too.  In `DdlSync` a row of the
history may differ from its mirror only while somebody is on the way to write
it: a hook that has saved (`run = "saved"`) or a saver whose handlers are not
done (`Excuses`), or for good when its hook could not store the result
(`unstored`); a withdrawn source has no open mirror unless the cascade is at
work on it (`Withdrawn`, `Ending`).  A result stays because a row that
a handler is going to write says `syncing`, or already what it will write
(`SaverInv`).

**Only model-checked.**  `WaitsEnd`, `EveryRunEnds`, `QueueMoves` and
`OaDecides`, being liveness under fairness, out of the prover's reach.  All
safety properties of the passing runs are proved.  The properties of the runs
that expect a violation are false, and TLC shows how.  There are no recursive
operators.

## 6. Where code and documentation disagree

Checked, each by the run named:

1. `audit_race`: `can_operate` is to refuse an operation that does not fit the
   status, "如已通过的工单不能再通过" (`sql/utils/workflow_audit.py:391`).  It
   looks at a copy.  A pass loaded before a rejection is written after it.
2. `exec_double`: `execute` reads under a lock, "使用当前读防止重复执行"
   (`sql/utils/execute_sql.py:21`).  The lock does not help against a view that
   checked the status before the first run and writes queuing or timingtask
   during it.
3. `ghost_cancel`: a poller that was past its check saves `failed` or `success`
   over `cancelled` (`poller.py:141`).
4. `ghost_double`: `start_ghost_process` refuses a table whose socket answers;
   `_finalize_task` removes the socket's file by name, and when that belongs to
   a newer process the table is free to be started on again
   (`poller.py:137`).
5. `oa_twice`: the design has "`event_id` unique 约束，DB 层强制去重" and a repeated
   event answered but not handled again, "不重复处理"
   (`docs/designs/2026-07-20_dingtalk-oa-workflow.md:1519`–`1520`).  `event_id` has
   an index and no unique constraint (`dingtalk_oa/models.py:348`), and the log is
   read before the handling and written after it: two deliveries at once both
   pass, and one approver's decision passes two levels.

Seen while modelling; the models follow the code, and no property says
otherwise:

* The cancel view marks the gh-ost tasks of an aborted workflow as cancelled and
  leaves the processes running: the table is still swapped.
* Direct ALTERs stop after an exception only; an error in the engine's answer
  lets the rest go on, although the comment promises "失败立即停止后续"
  (`ddl_gh_ost/views.py:563`).
* When the direct ALTERs end after the last gh-ost task, no one synchronises the
  workflow (`poller.py:251` leaves it to a later call that does not come).  The
  same holds after a failure with tasks still queued.
* `retry`, `cancel` and `rollback` look at the first task of the workflow only;
  the administrator's actions of these names at any.  `admin_retry` starts a
  failed or cancelled task that passed its precheck, whatever the task it depends
  on has come to (`ddl_gh_ost/admin.py:148`–`175`), where `start` answers 409
  (`views.py:789`): the second ALTER may be copied before the first, or while the
  first is.  The workflow's outcome is not safe from it either: it may turn a
  failed task to queued between the two queries of `_sync_workflow_status`.
* `enable` and `start` do not look at the status of the workflow.  With small
  tables only there is no task, so `start` answers 404 and nothing runs.
* `rollback` does not do item 3 of its docstring, the switch of the workflow to
  `workflow_exception`.
* After a worker of the cluster dies, a workflow stays `workflow_executing`.

Query privileges and archive jobs:

* Two reviewers who pass the last level at once insert the privileges twice
  (`query_privileges.py:621`); the list shows both rows, and deleting one leaves
  the other in force.  Two applications for the same database, both made before
  either is approved, do the same: the check for an existing privilege is made
  when applying, not when granting.
* `query_priv_audit` and `archive_audit` take any number for the action.  The
  grid allows the actions of execution on what is passed, `operate` does nothing
  for them, and the callback inserts the privileges again, or switches the job on
  again (`query_privileges.py:445`, `archiver.py:247`).  One request is enough.
* An application that was passed may be rejected; its privileges stay.
* The REST view asks a cancelled application for `engineer`, which it does not
  have, and fails (`api_workflow.py:343`).
* `archive_audit` saves the job as it was loaded: it may switch one on again that
  was switched off meanwhile.  `archive_once`, `ExecuteWorkflow` and the task
  itself ask for no approval at all.
* `_priv_limit` speaks of the minimum of the limits (`query_privileges.py:554`);
  `_db_priv` takes the first row, and a limit of zero counts as no privilege.
* An export is given an audit row (`sql/views.py:1555`), but
  `WorkflowAudit.get_workflow` (`sql/models.py:514`) and `can_operate` refuse its
  type, so the branch of the REST view for it never runs.

OA approval:

* A refusal writes `workflow_review_reject`, which is not a choice of the column
  (`oa_callback_handler.py:273`).
* The termination of an instance overwrites a rejected audit with an aborted
  one.
* A callback does not ask whether the audit is driven by DingTalk
  (`audit_driver`): it decides audits that were handed back to the web.
* An exception in the check of the approver or in the handler, be it a lock that
  was not granted in time, is swallowed (`callback.py:215`–`224`); the event is
  then logged as processed and answered with success (`callback.py:144`), so that
  DingTalk never sends the decision again and the audit waits for ever.  The
  design has a failed event logged with `processed=False` for somebody to look
  into (`docs/designs/2026-07-20_dingtalk-oa-workflow.md:1482`), and the view has
  the branch for it (`callback.py:124`), but no exception of the handler reaches
  that branch.
* An event that overtakes the one before it is refused by the whitelist of the
  earlier level and logged as processed, so it is lost.
* The reconciliation fails on its query.

Rebuilds:

* `rebuild_start` answers 500, "理论上不可能" (`views.py:1398`), when the advance
  starts nothing, which is what it does whenever a rebuild of the table runs.
  Item 3 of its docstring (`views.py:1291`) says that such a submission is
  refused; it is queued.
* Two advances at once may pick one row and start it twice; the one the socket
  refuses then saves `failed` over the running row (`queue.py:82`–`144`), although
  the comment there speaks of this as fixed.
* A start that fails ends the advance: the tasks behind it wait until somebody
  submits another one.
* The poller of a cancelled task removes the socket of whoever holds it by then;
  and it saves `failed` over `cancelled`.
* `trigger_rebuild_after_archive` has no caller, the administrator's retry does
  not know rebuild tasks, and `cut_over`, which the queue looks for, is never
  written.

Structure synchronisation:

* The docstring of the first handler (`sync_trigger.py:327`) relies on a unique
  constraint that does not exist (`ddl_sync/models.py:213`): every further save of an
  approved workflow creates another mirror, and gh-ost with small tables saves it
  twice.
* DingTalk's callback writes with `update()`, for which no handler runs.  A
  workflow it approves gets no mirror, one it ends leaves its mirrors open, and
  the row of a mirror it ends says `syncing` for ever.
* So does the hook when storing the result fails (`execute_sql.py:92`): the
  workflow ends as `workflow_exception` by `update()`, and the row of a mirror
  says `syncing` for ever.
* A mirror may be finished by hand (mode manual, `sql_workflow.py:391`), and the
  history then says `synced` of what Archery has not executed.  It is the word of
  whoever may execute the mirror; `SyncedIsApplied` says so (`vouched`).
* A withdrawal through the REST view that falls between the creation of a mirror
  and its row in the history finds no row, and the mirror stays open.
* The cascade overwrites a mirror that is executing: its DDL goes on, the hook
  drops the result, and the history says `skipped`.  The docstring says that the
  history is switched before the mirror is saved (`sync_trigger.py:570`); it is
  done after (`sync_trigger.py:481`–`523`).
* A mirror that the settings pass at creation has a passed audit and the status
  `workflow_manreviewing`, so nobody can approve or execute it.
* The rejection of a mirror is turned into an abortion by the handler that runs
  in the same save.
* A save that comes late, after the workflow failed, mirrors a failed workflow:
  its audit is still passed.
* The audits of a mirror are looked up by `workflow_id` alone
  (`sync_trigger.py:506`), though the key is that and the type (`sql/models.py:522`).

## 7. What is not modelled

`PROJECT.json` has each component with its status.  Not modelled because they
have no behaviour that a model would add to: the engines (SQL dialects and drivers; an engine is an
oracle that succeeds or fails), the query page and the diagnostic pages (they
read and answer), the editing of settings, instances and accounts (single
statements), authentication (its outcome is the constants of `AuditRules`),
notifications (sent after the fact, read by nobody), export (files; its approval
does not work, section 6).

Inside the modelled components the following is left out: the check of a query
against the privileges, which reads rows and changes none; the change of a
privilege's date and limit; several applications of one user; the command line
and the log of pt-archiver; lists, filters and details; the fields `run_date_start` and `run_date_end` and their edit; log
rows; the content of SQL and results; the progress, load-based pause and resume
of gh-ost; the SQL check on submission, whose verdict enters as the automatic
decision; the pages that maintain pairs, lists, whitelists and candidates for
rebuilds, which are constants or a nondeterministic choice (`kept`) in the
models; the archive of the operation log of the synchronisation; mirrors that
gh-ost executes.

## 8. The plan

Built so far, in this order: approval, execution, gh-ost tasks, DingTalk, the
queue of rebuilds, structure synchronisation, privileges and archive jobs.  What
is left:

1. Proofs: `NoFalseFinish` with retries of a task whose thread has ended, once
   stated; weaker hypotheses than `OneStart` for `FailedIsStopped`.
2. Query privileges as pure operators against a reference definition, with
   several applications of one user.
3. The composition of `DdlSync` with `GhostTask`: mirrors that gh-ost executes,
   and the saves of its threads instead of `Hold` and `Resave`.
