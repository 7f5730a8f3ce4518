------------------------------- MODULE DdlSync -------------------------------
(***************************************************************************)
(* Mirrors of a SQL workflow (sql/extensions/ddl_sync): when a workflow is *)
(* approved, its ALTERs are submitted once more, as a workflow of their    *)
(* own, to the history database that its database is paired with.  A row   *)
(* of the history per ALTER follows that mirror.                           *)
(*                                                                         *)
(* All of it hangs on three handlers of post_save, which run inside every  *)
(* save() of a workflow: one creates the mirror of a workflow saved as     *)
(* approved, one ends the mirrors of a workflow that ended, one records    *)
(* the end of a mirror.  In the web views they run in the transaction of   *)
(* the view, so such a view is one action; the REST view, the hook of an   *)
(* execution and the pollers of gh-ost save without a transaction, so the  *)
(* steps of a handler mix with those of others.  DingTalk's callback       *)
(* writes with update(), where no handler runs, and so does the hook when  *)
(* storing the result fails.                                               *)
(*                                                                         *)
(* There is one source and one enabled pair for its database; the levels   *)
(* and the stale writes of approval are AuditFlow's.  Rows of the history  *)
(* that have no mirror are left out: nothing looks at them again.  A       *)
(* mirror is executed by django-q here, not by gh-ost.                     *)
(***************************************************************************)
EXTENDS Naturals

CONSTANTS
    Alter,     \* the ALTERs in the content of the source
    Saver,     \* requests and threads that save workflows side by side
    MaxMirror, \* how many mirrors are created, at most
    MaxTrouble \* how many decisions of DingTalk, deaths of a process and results
               \* that cannot be stored, at most

Mirror == 1..MaxMirror

ASSUME SyncAssumption == MaxMirror \in Nat /\ MaxTrouble \in Nat

VARIABLES
    source,    \* status and audit of the source
    mirror,    \* the same of each mirror, and its execution
    hist,      \* hist[m][a]: sync_status of the row for ALTER a and mirror m
    saver,     \* saver[s]: where s is in a save and its handlers
    applied,   \* history: the mirrors whose ALTERs were executed
    vouched,   \* history: the mirrors confirmed by hand as executed elsewhere
    unstored,  \* history: the mirrors whose hook failed to store the result
    trouble,   \* history: how many of those there were so far
    calm       \* history: so far handlers took turns, none was cut off, and
               \* nothing was decided in DingTalk

syncVars == <<source, mirror, hist, saver, applied, vouched, unstored, trouble, calm>>

Status == {"workflow_manreviewing", "workflow_review_pass", "workflow_executing",
           "workflow_finish", "workflow_exception", "workflow_abort",
           "workflow_review_reject"}

Audit == {"NONE", "WAITING", "PASSED", "REJECTED", "ABORTED"}

NoMirror == [status |-> "none", audit |-> "NONE", run |-> "no", ok |-> FALSE]

MirrorRow == [status : Status, audit : Audit,
              run : {"no", "running", "returned", "read", "saved"},
              ok  : BOOLEAN] \cup {NoMirror}

RowStatus == {"none", "syncing", "synced", "skipped", "failed"}

Resting == [pc |-> "idle", m |-> 0, todo |-> {}, status |-> "workflow_abort"]

Saving == [pc : {"idle", "operated", "holding", "approved", "judged", "created",
                 "aborting", "ended", "cascading", "row", "targetSaving", "targetSaved"},
           m      : 0..MaxMirror,               \* the mirror it is about
           todo   : SUBSET (Mirror \X Alter),   \* the rows it still has to write
           status : {"workflow_abort", "workflow_exception",   \* what it saves
                    "workflow_finish", "workflow_review_pass"}]

SyncTypeOK ==
    /\ source \in [status : Status, audit : Audit]
    /\ mirror \in [Mirror -> MirrorRow]
    /\ hist \in [Mirror -> [Alter -> RowStatus]]
    /\ saver \in [Saver -> Saving]
    /\ applied \subseteq Mirror
    /\ vouched \subseteq Mirror
    /\ unstored \subseteq Mirror
    /\ trouble \in 0..MaxTrouble
    /\ calm \in BOOLEAN

\* The source waits for approval, or was passed by the system and is about to
\* be saved by the API that submitted it.
SyncInit ==
    /\ mirror = [m \in Mirror |-> NoMirror]
    /\ hist = [m \in Mirror |-> [a \in Alter |-> "none"]]
    /\ \/ /\ source = [status |-> "workflow_manreviewing", audit |-> "WAITING"]
          /\ saver = [s \in Saver |-> Resting]
       \/ \E s \in Saver :
          /\ source = [status |-> "workflow_manreviewing", audit |-> "PASSED"]
          /\ saver = [q \in Saver |-> IF q = s THEN [Resting EXCEPT !.pc = "operated"] ELSE Resting]
    /\ applied = {}
    /\ vouched = {}
    /\ unstored = {}
    /\ trouble = 0
    /\ calm = TRUE

\* Nobody is between two writes that belong together.  Who only holds a
\* workflow it loaded earlier does not count.
Quiet ==
    /\ \A s \in Saver : saver[s].pc \in {"idle", "holding"}
    /\ \A m \in Mirror : mirror[m].run \notin {"read", "saved"}

Begins == calm' = (calm /\ Quiet)

Trouble == trouble < MaxTrouble /\ trouble' = trouble + 1

Troubled == Trouble /\ calm' = FALSE

Becomes(s, r) == saver' = [saver EXCEPT ![s] = r]

Goes(s, pc) == Becomes(s, [saver[s] EXCEPT !.pc = pc])

Rests(s) == Becomes(s, Resting)

-----------------------------------------------------------------------------
(* The handlers, as functions of the rows *)

Fresh(m) == mirror[m] = NoMirror /\ \A n \in 1..m - 1 : mirror[n] # NoMirror

\* create_target_workflow: it waits for review whatever create_audit decides,
\* also when the settings pass or reject it, or there are none.
Created(m, audit) ==
    [mirror EXCEPT ![m] = [status |-> "workflow_manreviewing", audit |-> audit,
                           run |-> "no", ok |-> FALSE]]

NewAudit == {"NONE", "WAITING", "PASSED", "REJECTED"}

\* Mutant: the status of the workflow goes into the row as it is.
SyncStatus_raw(status) == status

SyncStatus(status) ==
    CASE status = "workflow_finish"    -> "synced"
      [] status = "workflow_exception" -> "failed"
      [] status = "workflow_abort"     -> "skipped"

\* Mutant: the end of an execution is not looked at.
Recorded_finished(h, m, status) ==
    [h EXCEPT ![m] = [a \in Alter |->
        IF @[a] # "syncing" THEN @[a]
        ELSE IF status = "workflow_abort" THEN "skipped" ELSE "synced"]]

\* Mutant: the end that a withdrawal makes is not among the final ones.
Recorded_noAbort(h, m, status) ==
    [h EXCEPT ![m] = [a \in Alter |->
        IF @[a] = "syncing" /\ status # "workflow_abort" THEN SyncStatus(status) ELSE @[a]]]

\* target_workflow_status_handler: every row still syncing with mirror m.
Recorded(h, m, status) ==
    [h EXCEPT ![m] = [a \in Alter |->
        IF @[a] = "syncing" THEN SyncStatus(status) ELSE @[a]]]

\* It also closes the audit, if there was such a row and an audit.
Closed(r, m, status) ==
    IF /\ status # "workflow_finish"
       /\ \E a \in Alter : hist[m][a] = "syncing"
       /\ r.audit # "NONE"
    THEN [r EXCEPT !.audit = "ABORTED"] ELSE r

\* Mutant: the rows are not filtered by their status.
Syncing_any == {x \in Mirror \X Alter : hist[x[1]][x[2]] # "none"}

\* workflow_terminal_handler looks for the rows that are still syncing.
Syncing == {x \in Mirror \X Alter : hist[x[1]][x[2]] = "syncing"}

\* What it writes to a mirror, whatever that one is doing.
Ended(r, status) ==
    [r EXCEPT !.status = status, !.audit = IF r.audit = "NONE" THEN "NONE" ELSE "ABORTED"]

-----------------------------------------------------------------------------
(* Saving the source as approved *)

\* The view passed, at the last level, with the handler in its transaction.
\* kept are the ALTERs that the pair's lists let through at this moment.
WebApprove ==
    /\ source.audit = "WAITING"
    /\ source' = [status |-> "workflow_review_pass", audit |-> "PASSED"]
    /\ \/ \E m \in Mirror, kept \in (SUBSET Alter) \ {{}}, audit \in NewAudit :
            /\ Fresh(m)
            /\ mirror' = Created(m, audit)
            /\ hist' = [hist EXCEPT ![m] = [a \in Alter |-> IF a \in kept THEN "syncing" ELSE "none"]]
       \/ UNCHANGED <<mirror, hist>>      \* none kept, or the creation failed
    /\ Begins
    /\ UNCHANGED <<saver, applied, vouched, unstored, trouble>>

\* The REST view commits the audit, then the status.
ApiApprove(s) ==
    /\ saver[s] = Resting
    /\ source.audit = "WAITING"
    /\ source' = [source EXCEPT !.audit = "PASSED"]
    /\ Goes(s, "operated")
    /\ Begins
    /\ UNCHANGED <<mirror, hist, applied, vouched, unstored, trouble>>

ApiSaveApproved(s) ==
    /\ saver[s].pc = "operated"
    /\ source' = [source EXCEPT !.status = "workflow_review_pass"]
    /\ Goes(s, "approved")
    /\ UNCHANGED <<mirror, hist, applied, vouched, unstored, trouble, calm>>

\* A request that loaded the approved workflow saves other columns of it: the
\* view that retries DingTalk, the enabling of gh-ost, the thread that ran the
\* small tables.  The object still says approved.
Hold(s) ==
    /\ saver[s] = Resting
    /\ source.status = "workflow_review_pass"
    /\ Goes(s, "holding")
    /\ UNCHANGED <<source, mirror, hist, applied, vouched, unstored, trouble, calm>>

Resave(s) ==
    /\ saver[s].pc = "holding"
    /\ Goes(s, "approved")
    /\ Begins
    /\ UNCHANGED <<source, mirror, hist, applied, vouched, unstored, trouble>>

\* Mutant: only the status of the object that was saved is asked.
Judge_objectOnly(s) ==
    /\ saver[s].pc = "approved"
    /\ Goes(s, "judged")
    /\ UNCHANGED <<source, mirror, hist, applied, vouched, unstored, trouble, calm>>

\* workflow_passed_handler: the audit in the database must be passed too.
\* That there is a mirror already is not looked at.
Judge(s) ==
    /\ saver[s].pc = "approved"
    /\ IF source.audit = "PASSED" THEN Goes(s, "judged") ELSE Rests(s)
    /\ UNCHANGED <<source, mirror, hist, applied, vouched, unstored, trouble, calm>>

\* The mirror, in a transaction; none if no ALTER is kept or it fails.
Create(s) ==
    /\ saver[s].pc = "judged"
    /\ \/ \E m \in Mirror, kept \in (SUBSET Alter) \ {{}}, audit \in NewAudit :
            /\ Fresh(m)
            /\ mirror' = Created(m, audit)
            /\ Becomes(s, [saver[s] EXCEPT !.pc = "created", !.todo = {m} \X kept])
       \/ Rests(s) /\ UNCHANGED mirror
    /\ UNCHANGED <<source, hist, applied, vouched, unstored, trouble, calm>>

\* The rows of the history, one after the other.
WriteRow(s) ==
    /\ saver[s].pc = "created"
    /\ \E x \in saver[s].todo :
        /\ hist' = [hist EXCEPT ![x[1]][x[2]] = "syncing"]
        /\ IF saver[s].todo = {x} THEN Rests(s)
           ELSE Becomes(s, [saver[s] EXCEPT !.todo = @ \ {x}])
    /\ UNCHANGED <<source, mirror, applied, vouched, unstored, trouble, calm>>

-----------------------------------------------------------------------------
(* The end of the source *)

\* The view cancel, with both handlers in its transaction.
WebCancel ==
    /\ source.status \in {"workflow_manreviewing", "workflow_review_pass"}
    /\ source.audit \in {"WAITING", "PASSED"}
    /\ \E audit \in {"REJECTED", "ABORTED"} :
          source' = [status |-> "workflow_abort", audit |-> audit]
    /\ mirror' = [m \in Mirror |-> IF \E a \in Alter : <<m, a>> \in Syncing
                                   THEN Ended(mirror[m], "workflow_abort") ELSE mirror[m]]
    /\ hist' = [m \in Mirror |-> [a \in Alter |-> IF <<m, a>> \in Syncing
                                                 THEN "skipped" ELSE hist[m][a]]]
    /\ Begins
    /\ UNCHANGED <<saver, applied, vouched, unstored, trouble>>

\* The REST view withdraws at any status: the audit, then the status.
ApiCancel(s) ==
    /\ saver[s] = Resting
    /\ source.audit \in {"WAITING", "PASSED"}
    /\ source' = [source EXCEPT !.audit = "ABORTED"]
    /\ Goes(s, "aborting")
    /\ Begins
    /\ UNCHANGED <<mirror, hist, applied, vouched, unstored, trouble>>

ApiSaveAborted(s) ==
    /\ saver[s].pc = "aborting"
    /\ source' = [source EXCEPT !.status = "workflow_abort"]
    /\ Becomes(s, [saver[s] EXCEPT !.pc = "ended", !.status = "workflow_abort"])
    /\ UNCHANGED <<mirror, hist, applied, vouched, unstored, trouble, calm>>

SourceStart ==
    /\ source.status = "workflow_review_pass"
    /\ source' = [source EXCEPT !.status = "workflow_executing"]
    /\ UNCHANGED <<mirror, hist, saver, applied, vouched, unstored, trouble, calm>>

\* The hook, or the poller of gh-ost, which leaves the status approved.
SourceFinish ==
    /\ source.status \in {"workflow_review_pass", "workflow_executing"}
    /\ source' = [source EXCEPT !.status = "workflow_finish"]
    /\ UNCHANGED <<mirror, hist, saver, applied, vouched, unstored, trouble, calm>>

\* The hook's other way out: storing the result failed, and update() writes
\* the status, so that no handler learns of it.
SourceUnstored ==
    /\ source.status = "workflow_executing"
    /\ source' = [source EXCEPT !.status = "workflow_exception"]
    /\ Trouble
    /\ UNCHANGED <<mirror, hist, saver, applied, vouched, unstored, calm>>

SourceFail(s) ==
    /\ saver[s] = Resting
    /\ source.status \in {"workflow_review_pass", "workflow_executing"}
    /\ source' = [source EXCEPT !.status = "workflow_exception"]
    /\ Becomes(s, [saver[s] EXCEPT !.pc = "ended", !.status = "workflow_exception"])
    /\ Begins
    /\ UNCHANGED <<mirror, hist, applied, vouched, unstored, trouble>>

\* workflow_terminal_handler: load the rows, and for each of them ...
Cascade(s) ==
    /\ saver[s].pc = "ended"
    /\ IF Syncing = {} THEN Rests(s)
       ELSE Becomes(s, [saver[s] EXCEPT !.pc = "cascading", !.todo = Syncing])
    /\ UNCHANGED <<source, mirror, hist, applied, vouched, unstored, trouble, calm>>

\* ... save the mirror, in which the handler of mirrors runs, and its audit,
CascadeTarget(s) ==
    LET x == CHOOSE x \in saver[s].todo : TRUE
    IN  /\ saver[s].pc = "cascading"
        /\ mirror' = [mirror EXCEPT ![x[1]] = Ended(@, saver[s].status)]
        /\ hist' = Recorded(hist, x[1], saver[s].status)
        /\ Goes(s, "row")
        /\ UNCHANGED <<source, applied, vouched, unstored, trouble, calm>>

\* ... and then the row that was loaded, whatever it says by now.
CascadeRow(s) ==
    LET x == CHOOSE x \in saver[s].todo : TRUE
    IN  /\ saver[s].pc = "row"
        /\ hist' = [hist EXCEPT ![x[1]][x[2]] = SyncStatus(saver[s].status)]
        /\ IF saver[s].todo = {x} THEN Rests(s)
           ELSE Becomes(s, [saver[s] EXCEPT !.pc = "cascading", !.todo = @ \ {x}])
        /\ UNCHANGED <<source, mirror, applied, vouched, unstored, trouble, calm>>

-----------------------------------------------------------------------------
(* The life of a mirror *)

\* The view passed, at the last level.
MirrorPass(m) ==
    /\ mirror[m].audit = "WAITING"
    /\ mirror' = [mirror EXCEPT ![m] = [@ EXCEPT !.status = "workflow_review_pass", !.audit = "PASSED"]]
    /\ UNCHANGED <<source, hist, saver, applied, vouched, unstored, trouble, calm>>

\* The view cancel, with the handler of mirrors in its transaction.
MirrorCancel(m) ==
    /\ mirror[m].status \in {"workflow_manreviewing", "workflow_review_pass"}
    /\ mirror[m].audit \in {"WAITING", "PASSED"}
    /\ \E audit \in {"REJECTED", "ABORTED"} :
          mirror' = [mirror EXCEPT ![m] =
              Closed([@ EXCEPT !.status = "workflow_abort", !.audit = audit], m, "workflow_abort")]
    /\ hist' = Recorded(hist, m, "workflow_abort")
    /\ Begins
    /\ UNCHANGED <<source, saver, applied, vouched, unstored, trouble>>

\* The saves of a mirror that are in no transaction: the status, and then the
\* handler of mirrors.  What comes first, the audit that the REST view operates
\* or the check of the view execute, is an action of its own.
TargetBegins(s, m, status) ==
    /\ saver[s] = Resting
    /\ Becomes(s, [saver[s] EXCEPT !.pc = "targetSaving", !.m = m, !.status = status])
    /\ Begins

TargetPass(s, m) ==
    /\ mirror[m].audit = "WAITING"
    /\ mirror' = [mirror EXCEPT ![m].audit = "PASSED"]
    /\ TargetBegins(s, m, "workflow_review_pass")
    /\ UNCHANGED <<source, hist, applied, vouched, unstored, trouble>>

TargetCancel(s, m) ==
    /\ mirror[m].audit \in {"WAITING", "PASSED"}
    /\ mirror' = [mirror EXCEPT ![m].audit = "ABORTED"]
    /\ TargetBegins(s, m, "workflow_abort")
    /\ UNCHANGED <<source, hist, applied, vouched, unstored, trouble>>

\* execute with the mode manual: somebody who may execute the mirror says that
\* its SQL was executed by hand.  Only the check looks at the status.
TargetVouch(s, m) ==
    /\ mirror[m].status = "workflow_review_pass"
    /\ TargetBegins(s, m, "workflow_finish")
    /\ vouched' = vouched \cup {m}
    /\ UNCHANGED <<source, mirror, hist, applied, unstored, trouble>>

TargetSave(s) ==
    /\ saver[s].pc = "targetSaving"
    /\ mirror' = [mirror EXCEPT ![saver[s].m].status = saver[s].status]
    /\ IF saver[s].status = "workflow_review_pass" THEN Rests(s) ELSE Goes(s, "targetSaved")
    /\ UNCHANGED <<source, hist, applied, vouched, unstored, trouble, calm>>

TargetRecord(s) ==
    LET m == saver[s].m
    IN  /\ saver[s].pc = "targetSaved"
        /\ hist' = Recorded(hist, m, saver[s].status)
        /\ mirror' = [mirror EXCEPT ![m] = Closed(@, m, saver[s].status)]
        /\ Rests(s)
        /\ UNCHANGED <<source, applied, vouched, unstored, trouble, calm>>

\* Execution: the request and the worker of django-q are one step here.
MirrorStart(m) ==
    /\ mirror[m].status = "workflow_review_pass"
    /\ mirror[m].run = "no"
    /\ mirror' = [mirror EXCEPT ![m] = [@ EXCEPT !.run = "running", !.status = "workflow_executing"]]
    /\ UNCHANGED <<source, hist, saver, applied, vouched, unstored, trouble, calm>>

MirrorReturn(m, ok) ==
    /\ mirror[m].run = "running"
    /\ mirror' = [mirror EXCEPT ![m] = [@ EXCEPT !.run = "returned", !.ok = ok]]
    /\ applied' = IF ok THEN applied \cup {m} ELSE applied
    /\ UNCHANGED <<source, hist, saver, vouched, unstored, trouble, calm>>

\* execute_callback: a mirror that is not executing any more keeps what it has.
HookRead(m) ==
    /\ mirror[m].run = "returned"
    /\ mirror' = [mirror EXCEPT ![m].run =
                    IF mirror[m].status = "workflow_executing" THEN "read" ELSE "no"]
    /\ Begins
    /\ UNCHANGED <<source, hist, saver, applied, vouched, unstored, trouble>>

Outcome(m) == IF mirror[m].ok THEN "workflow_finish" ELSE "workflow_exception"

HookSave(m) ==
    /\ mirror[m].run = "read"
    /\ mirror' = [mirror EXCEPT ![m] = [@ EXCEPT !.run = "saved", !.status = Outcome(m)]]
    /\ UNCHANGED <<source, hist, saver, applied, vouched, unstored, trouble, calm>>

\* Storing the result failed: update() ends the mirror, whatever it says by
\* now, and its handler does not run.
HookFails(m) ==
    /\ mirror[m].run = "read"
    /\ mirror' = [mirror EXCEPT ![m] = [@ EXCEPT !.run = "no", !.status = "workflow_exception"]]
    /\ unstored' = unstored \cup {m}
    /\ Trouble
    /\ UNCHANGED <<source, hist, saver, applied, vouched, calm>>

\* The handler of mirrors, in the hook's save.
HookRecord(m) ==
    /\ mirror[m].run = "saved"
    /\ hist' = Recorded(hist, m, Outcome(m))
    /\ mirror' = [mirror EXCEPT ![m] = [Closed(@, m, Outcome(m)) EXCEPT !.run = "no"]]
    /\ UNCHANGED <<source, saver, applied, vouched, unstored, trouble, calm>>

-----------------------------------------------------------------------------
(* DingTalk, and workers that die *)

\* The callback decides a row: the last level, a refusal, the termination of
\* whatever has not passed.
OaDecided(r, new) ==
    \/ r.audit = "WAITING" /\ new = [r EXCEPT !.status = "workflow_review_pass", !.audit = "PASSED"]
    \/ r.audit = "WAITING" /\ new = [r EXCEPT !.status = "workflow_review_reject", !.audit = "REJECTED"]
    \/ /\ r.audit \notin {"NONE", "PASSED"}
       /\ new = [r EXCEPT !.status = "workflow_abort", !.audit = "ABORTED"]

OaSource ==
    /\ \E status \in Status, audit \in Audit :
          /\ source' = [status |-> status, audit |-> audit]
          /\ OaDecided(source, source')
    /\ Troubled
    /\ UNCHANGED <<mirror, hist, saver, applied, vouched, unstored>>

OaMirror(m) ==
    /\ \E status \in Status, audit \in Audit :
       LET new == [mirror[m] EXCEPT !.status = status, !.audit = audit]
       IN  OaDecided(mirror[m], new) /\ mirror' = [mirror EXCEPT ![m] = new]
    /\ Troubled
    /\ UNCHANGED <<source, hist, saver, applied, vouched, unstored>>

\* A process dies; what it has not written is never written.
CrashSaver(s) ==
    /\ saver[s].pc # "idle"
    /\ Rests(s)
    /\ Troubled
    /\ UNCHANGED <<source, mirror, hist, applied, vouched, unstored>>

CrashHook(m) ==
    /\ mirror[m].run \in {"read", "saved"}
    /\ mirror' = [mirror EXCEPT ![m].run = "no"]
    /\ Troubled
    /\ UNCHANGED <<source, hist, saver, applied, vouched, unstored>>

-----------------------------------------------------------------------------
SyncNext ==
    \/ WebApprove \/ WebCancel \/ SourceStart \/ SourceFinish \/ SourceUnstored \/ OaSource
    \/ \E s \in Saver :
          \/ ApiApprove(s) \/ ApiSaveApproved(s) \/ Hold(s) \/ Resave(s)
          \/ Judge(s) \/ Create(s) \/ WriteRow(s)
          \/ ApiCancel(s) \/ ApiSaveAborted(s) \/ SourceFail(s)
          \/ Cascade(s) \/ CascadeTarget(s) \/ CascadeRow(s)
          \/ TargetSave(s) \/ TargetRecord(s) \/ CrashSaver(s)
          \/ \E m \in Mirror : TargetPass(s, m) \/ TargetCancel(s, m) \/ TargetVouch(s, m)
    \/ \E m \in Mirror :
          \/ MirrorPass(m) \/ MirrorCancel(m)
          \/ MirrorStart(m) \/ \E ok \in BOOLEAN : MirrorReturn(m, ok)
          \/ HookRead(m) \/ HookSave(m) \/ HookFails(m) \/ HookRecord(m)
          \/ OaMirror(m) \/ CrashHook(m)

SyncSpec == SyncInit /\ [][SyncNext]_syncVars

-----------------------------------------------------------------------------
(* Properties *)

\* The page of a workflow tells that an ALTER is synchronised only if the
\* mirror's SQL was executed without an error, or somebody who may execute it
\* confirmed that it was executed by hand, in whatever order requests, hooks
\* and handlers write, and wherever one of them dies.
SyncedIsApplied ==
    \A m \in Mirror, a \in Alter : hist[m][a] = "synced" => m \in applied \cup vouched

Open(m) ==
    mirror[m].status \in {"workflow_manreviewing", "workflow_review_pass", "workflow_executing"}

\* A source that is withdrawn, by whichever view, leaves no mirror behind that
\* somebody could still approve and execute, also when a request that loaded
\* the approved source saves it afterwards: as long as handlers take turns.
NoOrphan ==
    calm /\ Quiet /\ source.status = "workflow_abort" => \A m \in Mirror : ~Open(m)

\* As long as handlers take turns, the history of a mirror says syncing while
\* the mirror is open and, unless its hook failed to store a result, not any
\* longer; and the ALTERs of one mirror share one result.
HistoryAgrees ==
    calm /\ Quiet =>
        \A m \in Mirror :
            LET followed == \E a \in Alter : hist[m][a] = "syncing"
            IN  /\ Open(m) => followed
                /\ followed => Open(m) \/ m \in unstored
                /\ \A a, b \in Alter :
                      hist[m][a] # "none" /\ hist[m][b] # "none" => hist[m][a] = hist[m][b]

\* A result stays: neither the end of the source nor a later event of the
\* mirror rewrites a row of the history that has one.
RowsFinal ==
    [][calm' => \A m \in Mirror, a \in Alter :
            hist[m][a] \notin {"none", "syncing"} => hist'[m][a] = hist[m][a]]_syncVars
=============================================================================
