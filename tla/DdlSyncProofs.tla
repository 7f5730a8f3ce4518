--------------------------- MODULE DdlSyncProofs ---------------------------
(***************************************************************************)
(* What the history of mirrors claims, proved for any number of ALTERs, of *)
(* mirrors, and of requests and threads that save workflows side by side,  *)
(* with handlers cut off anywhere and decisions of DingTalk between them.  *)
(*                                                                         *)
(* A row becomes synced in one place only, the handler that runs in a save *)
(* of its mirror as finished.  So the invariant follows the outcome from   *)
(* there back to its cause: a hook that still has a good outcome to record *)
(* is about a mirror that was executed, and a request that does is about   *)
(* one that somebody vouched for.                                          *)
(*                                                                         *)
(* The other claims hold while handlers take turns.  Their invariant says  *)
(* which one saver or hook may be at work, how far it has come, and that   *)
(* the rows of every mirror it is not at say what that mirror is doing:    *)
(* then a handler that starts finds the rows in order, and leaves them so. *)
(***************************************************************************)
EXTENDS DdlSync, TLAPS

GoodOutcome(m) ==
    mirror[m].run \in {"returned", "read", "saved"} /\ mirror[m].ok

\* What a saver is about to record, and that somebody vouched for what it
\* records as finished.
SaverKnown(q) ==
    /\ q.pc \in {"ended", "cascading", "row"} => q.status \in {"workflow_abort", "workflow_exception"}
    /\ q.pc = "targetSaving" => q.status \in {"workflow_abort", "workflow_finish", "workflow_review_pass"}
    /\ q.pc = "targetSaved" => q.status \in {"workflow_abort", "workflow_finish"}
    /\ q.pc \in {"targetSaving", "targetSaved"} /\ q.status = "workflow_finish" => q.m \in vouched

SaversFine ==
    /\ saver \in [Saver -> Saving]
    /\ \A s \in Saver : SaverKnown(saver[s])

SyncInv ==
    /\ SyncTypeOK
    /\ \A s \in Saver : SaverKnown(saver[s])
    /\ \A m \in Mirror : GoodOutcome(m) => m \in applied
    /\ SyncedIsApplied

Ends == {"workflow_finish", "workflow_exception", "workflow_abort"}

-----------------------------------------------------------------------------
(* The handlers, as functions of the rows                                   *)

LEMMA SyncStatusValue ==
    /\ SyncStatus("workflow_finish") = "synced"
    /\ SyncStatus("workflow_exception") = "failed"
    /\ SyncStatus("workflow_abort") = "skipped"
  BY DEF SyncStatus

\* The handler of mirrors keeps the type of the rows, and makes one synced only
\* for a mirror that finished.
LEMMA RecordedRows ==
    ASSUME SyncTypeOK, NEW m \in Mirror, NEW status \in Ends
    PROVE  /\ Recorded(hist, m, status) \in [Mirror -> [Alter -> RowStatus]]
           /\ \A n \in Mirror, a \in Alter :
                 Recorded(hist, m, status)[n][a] = "synced" =>
                     hist[n][a] = "synced" \/ (n = m /\ status = "workflow_finish")
  <1> DEFINE row == [a \in Alter |-> IF hist[m][a] = "syncing" THEN SyncStatus(status)
                                     ELSE hist[m][a]]
  <1>1. Recorded(hist, m, status) = [hist EXCEPT ![m] = row]
    BY DEF Recorded, SyncTypeOK
  <1>2. SyncStatus(status) \in RowStatus /\ (SyncStatus(status) = "synced" => status = "workflow_finish")
    BY SyncStatusValue DEF Ends, RowStatus
  <1>3. row \in [Alter -> RowStatus]
    BY <1>2 DEF SyncTypeOK
  <1> HIDE DEF row
  <1>4. \A a \in Alter : row[a] = IF hist[m][a] = "syncing" THEN SyncStatus(status) ELSE hist[m][a]
    BY DEF row
  <1> QED
    BY <1>1, <1>2, <1>3, <1>4 DEF SyncTypeOK

Run == {"no", "running", "returned", "read", "saved"}

\* A row is rebuilt from its fields; a new status makes a row of a mirror, also
\* of one that did not exist.
LEMMA RowFields ==
    ASSUME NEW r \in MirrorRow
    PROVE  /\ r = [status |-> r.status, audit |-> r.audit, run |-> r.run, ok |-> r.ok]
           /\ r.audit \in Audit /\ r.run \in Run /\ r.ok \in BOOLEAN
           /\ r.status \in Status \cup {"none"} /\ (r.status = "none" => r = NoMirror)
  <1>1. CASE r = NoMirror
    BY <1>1 DEF NoMirror, Audit, Run
  <1>2. CASE r \in [status : Status, audit : Audit, run : Run, ok : BOOLEAN]
    BY <1>2 DEF Status
  <1> QED
    BY <1>1, <1>2 DEF MirrorRow, Run

LEMMA RowMade ==
    ASSUME NEW status \in Status, NEW audit \in Audit, NEW run \in Run, NEW ok \in BOOLEAN
    PROVE  [status |-> status, audit |-> audit, run |-> run, ok |-> ok] \in MirrorRow
  BY DEF MirrorRow, Run

\* What the actions make of a row: one with this execution and outcome.
IsRow(q, run, ok) == q \in MirrorRow /\ q.run = run /\ q.ok = ok

LEMMA RowShape ==
    ASSUME NEW status \in Status, NEW audit \in Audit, NEW run \in Run, NEW ok \in BOOLEAN,
           NEW q, q = [status |-> status, audit |-> audit, run |-> run, ok |-> ok]
    PROVE  IsRow(q, run, ok)
  BY RowMade DEF IsRow

LEMMA RowSaved ==
    ASSUME NEW r \in MirrorRow, NEW status \in Status,
           NEW q, q = [r EXCEPT !.status = status]
    PROVE  IsRow(q, r.run, r.ok)
  <1>1. r = [status |-> r.status, audit |-> r.audit, run |-> r.run, ok |-> r.ok]
    BY RowFields
  <1>2. q = [status |-> status, audit |-> r.audit, run |-> r.run, ok |-> r.ok]
    BY <1>1
  <1>3. r.audit \in Audit /\ r.run \in Run /\ r.ok \in BOOLEAN
    BY RowFields
  <1> QED
    BY <1>2, <1>3, RowShape, ZenonT(60)

LEMMA RowAudited ==
    ASSUME NEW r \in MirrorRow, r # NoMirror, NEW audit \in Audit,
           NEW q, q = [r EXCEPT !.audit = audit]
    PROVE  IsRow(q, r.run, r.ok)
  <1>1. r = [status |-> r.status, audit |-> r.audit, run |-> r.run, ok |-> r.ok]
    BY RowFields
  <1>2. q = [status |-> r.status, audit |-> audit, run |-> r.run, ok |-> r.ok]
    BY <1>1
  <1>3. r.status \in Status /\ r.run \in Run /\ r.ok \in BOOLEAN
    BY RowFields
  <1> QED
    BY <1>2, <1>3, RowShape, ZenonT(60)

LEMMA RowRuns ==
    ASSUME NEW r \in MirrorRow, r # NoMirror, NEW run \in Run,
           NEW q, q = [r EXCEPT !.run = run]
    PROVE  IsRow(q, run, r.ok)
  <1>1. r = [status |-> r.status, audit |-> r.audit, run |-> r.run, ok |-> r.ok]
    BY RowFields
  <1>2. q = [status |-> r.status, audit |-> r.audit, run |-> run, ok |-> r.ok]
    BY <1>1
  <1>3. r.status \in Status /\ r.audit \in Audit /\ r.ok \in BOOLEAN
    BY RowFields
  <1> QED
    BY <1>2, <1>3, RowShape, ZenonT(60)

LEMMA RowOutcome ==
    ASSUME NEW r \in MirrorRow, r # NoMirror, NEW ok \in BOOLEAN,
           NEW q, q = [r EXCEPT !.ok = ok]
    PROVE  IsRow(q, r.run, ok)
  <1>1. r = [status |-> r.status, audit |-> r.audit, run |-> r.run, ok |-> r.ok]
    BY RowFields
  <1>2. q = [status |-> r.status, audit |-> r.audit, run |-> r.run, ok |-> ok]
    BY <1>1
  <1>3. r.status \in Status /\ r.audit \in Audit /\ r.run \in Run
    BY RowFields
  <1> QED
    BY <1>2, <1>3, RowShape, ZenonT(60)

LEMMA RowDecided ==
    ASSUME NEW r \in MirrorRow, NEW status \in Status, NEW audit \in Audit,
           NEW q, q = [r EXCEPT !.status = status],
           NEW p, p = [q EXCEPT !.audit = audit]
    PROVE  IsRow(p, r.run, r.ok)
  <1>1. IsRow(q, r.run, r.ok)
    BY RowSaved
  <1>2. q.status = status
    BY RowFields
  <1>3. q \in MirrorRow /\ q # NoMirror /\ q.run = r.run /\ q.ok = r.ok
    BY <1>1, <1>2 DEF IsRow, NoMirror, Status
  <1>4. IsRow(p, q.run, q.ok)
    BY <1>3, RowAudited
  <1> QED
    BY <1>3, <1>4

LEMMA EndedRow ==
    ASSUME NEW r \in MirrorRow, NEW status \in {"workflow_abort", "workflow_exception"}
    PROVE  /\ Ended(r, status) \in MirrorRow
           /\ Ended(r, status).run = r.run /\ Ended(r, status).ok = r.ok
  <1> DEFINE audit == IF r.audit = "NONE" THEN "NONE" ELSE "ABORTED"
  <1>1. Ended(r, status) = [status |-> status, audit |-> audit, run |-> r.run, ok |-> r.ok]
    <2> HIDE DEF audit
    <2>1. Ended(r, status) = [r EXCEPT !.status = status, !.audit = audit]
      BY DEF Ended, audit
    <2>2. r = [status |-> r.status, audit |-> r.audit, run |-> r.run, ok |-> r.ok]
      BY RowFields
    <2> QED
      BY <2>1, <2>2
  <1>2. audit \in Audit /\ status \in Status
    BY DEF Audit, Status
  <1> QED
    BY <1>1, <1>2, RowFields, RowMade

LEMMA ClosedRow ==
    ASSUME NEW r \in MirrorRow, NEW m, NEW status
    PROVE  /\ Closed(r, m, status) \in MirrorRow
           /\ Closed(r, m, status).run = r.run /\ Closed(r, m, status).ok = r.ok
  <1>1. r.audit = "NONE" => Closed(r, m, status) = r
    BY DEF Closed
  <1>2. r.audit # "NONE" => r.status \in Status
    BY RowFields DEF NoMirror
  <1>3. \/ Closed(r, m, status) = r
        \/ Closed(r, m, status) = [status |-> r.status, audit |-> "ABORTED", run |-> r.run, ok |-> r.ok]
    BY RowFields DEF Closed
  <1>4. "ABORTED" \in Audit
    BY DEF Audit
  <1> QED
    BY <1>1, <1>2, <1>3, <1>4, RowFields, RowMade

-----------------------------------------------------------------------------
(* The initial states, and the steps                                        *)

LEMMA SyncInitInv == SyncInit => SyncInv
  <1> SUFFICES ASSUME SyncInit PROVE SyncInv
    OBVIOUS
  <1>1. NoMirror \in MirrorRow /\ Resting \in Saving /\ [Resting EXCEPT !.pc = "operated"] \in Saving
    BY SyncAssumption DEF MirrorRow, Resting, Saving
  <1>2. source \in [status : Status, audit : Audit]
    BY DEF SyncInit, Status, Audit
  <1>3. saver \in [Saver -> Saving]
    BY <1>1 DEF SyncInit
  <1>4. SyncTypeOK
    BY <1>1, <1>2, <1>3, SyncAssumption DEF SyncInit, SyncTypeOK, RowStatus
  <1>5. \A m \in Mirror : ~GoodOutcome(m)
    BY DEF SyncInit, GoodOutcome, NoMirror
  <1>6. SyncedIsApplied
    BY DEF SyncInit, SyncedIsApplied
  <1>7. \A s \in Saver : SaverKnown(saver[s])
    <2>1. \A s \in Saver : saver[s].pc \in {"idle", "operated"}
      BY DEF SyncInit, Resting
    <2> QED
      BY <2>1 DEF SaverKnown
  <1> QED
    BY <1>4, <1>5, <1>6, <1>7 DEF SyncInv

\* What a step has to establish, apart from the type of what it writes.
LEMMA Establish ==
    ASSUME SyncInv,
           source' \in [status : Status, audit : Audit],
           mirror' \in [Mirror -> MirrorRow], hist' \in [Mirror -> [Alter -> RowStatus]],
           SaversFine', trouble' \in 0..MaxTrouble, calm' \in BOOLEAN,
           applied \subseteq applied', applied' \subseteq Mirror,
           vouched \subseteq vouched', vouched' \subseteq Mirror, unstored' \subseteq Mirror,
           \A m \in Mirror : GoodOutcome(m)' => GoodOutcome(m) \/ m \in applied',
           \A m \in Mirror, a \in Alter :
              hist'[m][a] = "synced" => hist[m][a] = "synced" \/ m \in applied' \cup vouched'
    PROVE  SyncInv'
  BY DEF SyncInv, SyncTypeOK, SyncedIsApplied, SaversFine

\* The steps that leave the rows of mirrors and history alone.
LEMMA QuietStep ==
    ASSUME SyncInv, UNCHANGED <<mirror, hist, applied, vouched, unstored>>,
           source' \in [status : Status, audit : Audit], SaversFine',
           trouble' \in 0..MaxTrouble, calm' \in BOOLEAN
    PROVE  SyncInv'
  BY Establish DEF SyncInv, SyncTypeOK, GoodOutcome

PC == {"idle", "operated", "holding", "approved", "judged", "created", "aborting", "ended",
       "cascading", "row", "targetSaving", "targetSaved"}

Saved == {"workflow_abort", "workflow_exception", "workflow_finish", "workflow_review_pass"}

\* What an action may make of a saver.
LEMMA SaverRows ==
    ASSUME NEW r \in Saving, NEW pc \in PC
    PROVE  /\ Resting \in Saving
           /\ [r EXCEPT !.pc = pc] \in Saving
           /\ \A m \in Mirror, status \in Saved :
                 [r EXCEPT !.pc = pc, !.m = m, !.status = status] \in Saving
           /\ \A todo \in SUBSET (Mirror \X Alter) :
                 /\ [r EXCEPT !.todo = todo] \in Saving
                 /\ [r EXCEPT !.pc = pc, !.todo = todo] \in Saving
           /\ \A status \in Saved : [r EXCEPT !.pc = pc, !.status = status] \in Saving
  <1>1. Resting \in Saving
    BY SyncAssumption DEF Resting, Saving
  <1>2. Mirror \subseteq 0..MaxMirror
    BY SyncAssumption DEF Mirror
  <1>3. ASSUME NEW m \in 0..MaxMirror, NEW status \in Saved
        PROVE [r EXCEPT !.pc = pc, !.m = m, !.status = status] \in Saving
    BY DEF Saving, PC, Saved
  <1>4. [r EXCEPT !.pc = pc] \in Saving
    BY DEF Saving, PC
  <1>5. ASSUME NEW todo \in SUBSET (Mirror \X Alter)
        PROVE /\ [r EXCEPT !.todo = todo] \in Saving
              /\ [r EXCEPT !.pc = pc, !.todo = todo] \in Saving
    BY DEF Saving, PC
  <1>6. ASSUME NEW status \in Saved
        PROVE [r EXCEPT !.pc = pc, !.status = status] \in Saving
    BY DEF Saving, PC, Saved
  <1> QED
    BY <1>1, <1>2, <1>3, <1>4, <1>5, <1>6

LEMMA BecomesFine ==
    ASSUME SyncInv, NEW s, NEW r \in Saving, Becomes(s, r), SaverKnown(r)', vouched \subseteq vouched'
    PROVE  SaversFine'
  <1>1. saver \in [Saver -> Saving] /\ saver' = [saver EXCEPT ![s] = r]
    BY DEF SyncInv, SyncTypeOK, Becomes
  <1>2. ASSUME NEW t \in Saver PROVE SaverKnown(saver[t])'
    <2>1. CASE t = s
      BY <1>1, <2>1
    <2>2. CASE t # s
      <3>1. saver'[t] = saver[t] /\ SaverKnown(saver[t])
        BY <1>1, <2>2 DEF SyncInv
      <3> QED
        BY <3>1 DEF SaverKnown
    <2> QED
      BY <2>1, <2>2
  <1> QED
    BY <1>1, <1>2 DEF SaversFine

\* A saver that records nothing yet, or nothing any more.
FreePC == {"idle", "operated", "holding", "approved", "judged", "created", "aborting"}

LEMMA FreeFine ==
    ASSUME SyncInv, NEW s \in Saver, NEW pc \in FreePC, Goes(s, pc) \/ Rests(s), vouched \subseteq vouched'
    PROVE  SaversFine'
  <1>1. saver[s] \in Saving /\ pc \in PC
    BY DEF SyncInv, SyncTypeOK, FreePC, PC
  <1>2. PICK q : q = [saver[s] EXCEPT !.pc = pc]
    OBVIOUS
  <1>3. q.pc = pc
    BY <1>1, <1>2 DEF Saving
  <1>4. q \in Saving /\ Resting \in Saving
    BY <1>1, <1>2, SaverRows
  <1>5. SaverKnown(q)' /\ SaverKnown(Resting)'
    BY <1>3 DEF SaverKnown, FreePC, Resting
  <1>6. Becomes(s, q) \/ Becomes(s, Resting)
    BY <1>2 DEF Goes, Rests
  <1> QED
    BY <1>4, <1>5, <1>6, BecomesFine

LEMMA SaversKept ==
    ASSUME SyncInv, UNCHANGED saver, vouched \subseteq vouched'
    PROVE  SaversFine'
  BY DEF SyncInv, SyncTypeOK, SaversFine, SaverKnown

\* The steps that write the row of one mirror.
LEMMA MirrorStep ==
    ASSUME SyncInv, NEW m \in Mirror, NEW r \in MirrorRow,
           mirror' = [mirror EXCEPT ![m] = r],
           r.run \in {"returned", "read", "saved"} /\ r.ok => GoodOutcome(m) \/ m \in applied',
           source' \in [status : Status, audit : Audit],
           hist' \in [Mirror -> [Alter -> RowStatus]], SaversFine',
           trouble' \in 0..MaxTrouble, calm' \in BOOLEAN,
           applied \subseteq applied', applied' \subseteq Mirror,
           vouched \subseteq vouched', vouched' \subseteq Mirror, unstored' \subseteq Mirror,
           \A n \in Mirror, a \in Alter :
              hist'[n][a] = "synced" => hist[n][a] = "synced" \/ n \in applied' \cup vouched'
    PROVE  SyncInv'
  <1>1. mirror' \in [Mirror -> MirrorRow]
    BY DEF SyncInv, SyncTypeOK
  <1>2. ASSUME NEW n \in Mirror, GoodOutcome(n)' PROVE GoodOutcome(n) \/ n \in applied'
    BY <1>2 DEF GoodOutcome, SyncInv, SyncTypeOK
  <1> QED
    BY <1>1, <1>2, Establish

-----------------------------------------------------------------------------
LEMMA Flags ==
    ASSUME SyncTypeOK
    PROVE  /\ trouble \in 0..MaxTrouble /\ calm \in BOOLEAN
           /\ Begins => calm' \in BOOLEAN
           /\ Trouble => trouble' \in 0..MaxTrouble
           /\ Troubled => trouble' \in 0..MaxTrouble /\ calm' \in BOOLEAN
  <1>1. /\ trouble \in 0..MaxTrouble /\ (Trouble => trouble' \in 0..MaxTrouble)
        /\ Troubled => trouble' \in 0..MaxTrouble
    BY SyncAssumption, SMT DEF SyncTypeOK, Trouble, Troubled
  <1>2. Begins => calm' \in BOOLEAN
    BY Zenon DEF Begins
  <1>3. calm \in BOOLEAN /\ (Troubled => calm' \in BOOLEAN)
    BY DEF SyncTypeOK, Troubled
  <1> QED
    BY <1>1, <1>2, <1>3

LEMMA SourceRow ==
    ASSUME SyncTypeOK, NEW status \in Status, NEW audit \in Audit
    PROVE  /\ source \in [status : Status, audit : Audit]
           /\ [source EXCEPT !.status = status] \in [status : Status, audit : Audit]
           /\ [source EXCEPT !.audit = audit] \in [status : Status, audit : Audit]
           /\ [status |-> status, audit |-> audit] \in [status : Status, audit : Audit]
  BY DEF SyncTypeOK

\* The steps of a saver that approve, judge, withdraw and look for rows.
LEMMA SaverStep ==
    ASSUME SyncInv, NEW s \in Saver,
           \/ ApiApprove(s) \/ ApiSaveApproved(s) \/ Hold(s) \/ Resave(s) \/ Judge(s)
           \/ ApiCancel(s) \/ ApiSaveAborted(s) \/ SourceFail(s) \/ Cascade(s) \/ CrashSaver(s)
    PROVE  SyncInv'
  <1> USE DEF SyncInv
  <1>1. saver \in [Saver -> Saving] /\ saver[s] \in Saving
    BY DEF SyncTypeOK
  <1>2. vouched' = vouched
    BY DEF ApiApprove, ApiSaveApproved, Hold, Resave, Judge, ApiCancel, ApiSaveAborted,
       SourceFail, Cascade, CrashSaver
  <1>3. ASSUME NEW pc \in FreePC, Goes(s, pc) \/ Rests(s) PROVE SaversFine'
    BY <1>2, <1>3, FreeFine
  <1>4. "PASSED" \in Audit /\ "ABORTED" \in Audit /\ "workflow_review_pass" \in Status
        /\ "workflow_abort" \in Status /\ "workflow_exception" \in Status
    BY DEF Audit, Status
  <1>5. CASE ApiApprove(s)
    <2>1. SaversFine'
      BY <1>3, <1>5 DEF ApiApprove, FreePC
    <2> QED
      BY <1>4, <1>5, <2>1, Flags, SourceRow, QuietStep DEF ApiApprove
  <1>6. CASE ApiSaveApproved(s)
    <2>1. SaversFine'
      BY <1>3, <1>6 DEF ApiSaveApproved, FreePC
    <2> QED
      BY <1>4, <1>6, <2>1, Flags, SourceRow, QuietStep DEF ApiSaveApproved
  <1>7. CASE Hold(s) \/ Resave(s)
    <2>1. SaversFine'
      BY <1>3, <1>7 DEF Hold, Resave, FreePC
    <2> QED
      BY <1>4, <1>7, <2>1, Flags, SourceRow, QuietStep DEF Hold, Resave
  <1>8. CASE Judge(s)
    <2>1. SaversFine'
      BY <1>3, <1>8 DEF Judge, FreePC
    <2> QED
      BY <1>4, <1>8, <2>1, Flags, SourceRow, QuietStep DEF Judge
  <1>9. CASE ApiCancel(s)
    <2>1. SaversFine'
      BY <1>3, <1>9 DEF ApiCancel, FreePC
    <2> QED
      BY <1>4, <1>9, <2>1, Flags, SourceRow, QuietStep DEF ApiCancel
  <1>10. CASE ApiSaveAborted(s)
    <2>1. PICK q : q = [saver[s] EXCEPT !.pc = "ended", !.status = "workflow_abort"]
      OBVIOUS
    <2>2. SaversFine'
      <3>1. q \in Saving
        BY <1>1, <2>1, SaverRows DEF PC, Saved
      <3>2. q.pc = "ended" /\ q.status = "workflow_abort"
        BY <1>1, <2>1 DEF Saving
      <3>3. SaverKnown(q)'
        BY <3>2 DEF SaverKnown
      <3>4. Becomes(s, q)
        BY <1>10, <2>1 DEF ApiSaveAborted
      <3> QED
        BY <1>2, <3>1, <3>3, <3>4, BecomesFine
    <2> QED
      BY <1>4, <1>10, <2>2, Flags, SourceRow, QuietStep DEF ApiSaveAborted
  <1>11. CASE SourceFail(s)
    <2>1. PICK q : q = [saver[s] EXCEPT !.pc = "ended", !.status = "workflow_exception"]
      OBVIOUS
    <2>2. SaversFine'
      <3>1. q \in Saving
        BY <1>1, <2>1, SaverRows DEF PC, Saved
      <3>2. q.pc = "ended" /\ q.status = "workflow_exception"
        BY <1>1, <2>1 DEF Saving
      <3>3. SaverKnown(q)'
        BY <3>2 DEF SaverKnown
      <3>4. Becomes(s, q)
        BY <1>11, <2>1 DEF SourceFail
      <3> QED
        BY <1>2, <3>1, <3>3, <3>4, BecomesFine
    <2> QED
      BY <1>4, <1>11, <2>2, Flags, SourceRow, QuietStep DEF SourceFail
  <1>12. CASE Cascade(s)
    <2>1. PICK q : q = [saver[s] EXCEPT !.pc = "cascading", !.todo = Syncing]
      OBVIOUS
    <2>2. SaversFine'
      <3>1. q \in Saving
        BY <1>1, <2>1, SaverRows DEF PC, Syncing
      <3>2. q.pc = "cascading" /\ q.status = saver[s].status
        BY <1>1, <2>1 DEF Saving
      <3>3. saver[s].status \in {"workflow_abort", "workflow_exception"}
        BY <1>12 DEF Cascade, SaverKnown
      <3>4. SaverKnown(q)'
        BY <3>2, <3>3 DEF SaverKnown
      <3>5. Becomes(s, q) \/ Rests(s)
        BY <1>12, <2>1 DEF Cascade
      <3>6. CASE Rests(s)
        BY <1>3, <3>6 DEF FreePC
      <3> QED
        BY <1>2, <3>1, <3>4, <3>5, <3>6, BecomesFine
    <2> QED
      BY <1>4, <1>12, <2>2, Flags, SourceRow, QuietStep DEF Cascade
  <1>13. CASE CrashSaver(s)
    <2>1. SaversFine'
      BY <1>3, <1>13 DEF CrashSaver, FreePC
    <2> QED
      BY <1>4, <1>13, <2>1, Flags, SourceRow, QuietStep DEF CrashSaver
  <1> QED
    BY <1>5, <1>6, <1>7, <1>8, <1>9, <1>10, <1>11, <1>12, <1>13

\* The steps that create a mirror and the rows of its history.
LEMMA CreationStep ==
    ASSUME SyncInv, WebApprove \/ \E s \in Saver : Create(s) \/ WriteRow(s)
    PROVE  SyncInv'
  <1> USE DEF SyncInv
  <1>1. saver \in [Saver -> Saving] /\ hist \in [Mirror -> [Alter -> RowStatus]]
        /\ mirror \in [Mirror -> MirrorRow] /\ applied \subseteq Mirror
        /\ vouched \subseteq Mirror /\ unstored \subseteq Mirror
    BY DEF SyncTypeOK
  <1>2. "PASSED" \in Audit /\ "workflow_review_pass" \in Status
    BY DEF Audit, Status
  <1>3. ASSUME NEW m \in Mirror, NEW audit \in NewAudit, mirror' = Created(m, audit)
        PROVE  /\ mirror' \in [Mirror -> MirrorRow]
               /\ \A n \in Mirror : GoodOutcome(n)' => GoodOutcome(n)
    <2> DEFINE r == [status |-> "workflow_manreviewing", audit |-> audit, run |-> "no", ok |-> FALSE]
    <2>1. r \in MirrorRow
      BY RowMade DEF NewAudit, Audit, Status, Run
    <2>2. r.run = "no"
      OBVIOUS
    <2>3. mirror' = [mirror EXCEPT ![m] = r]
      BY <1>3 DEF Created
    <2> HIDE DEF r
    <2> QED
      BY <1>1, <2>1, <2>2, <2>3 DEF GoodOutcome
  <1>4. CASE WebApprove
    <2>1. source' \in [status : Status, audit : Audit]
      BY <1>2, <1>4, SourceRow DEF WebApprove
    <2>2. ASSUME NEW m \in Mirror, NEW kept \in SUBSET Alter,
                 hist' = [hist EXCEPT ![m] = [a \in Alter |-> IF a \in kept THEN "syncing" ELSE "none"]]
          PROVE  /\ hist' \in [Mirror -> [Alter -> RowStatus]]
                 /\ \A n \in Mirror, a \in Alter : hist'[n][a] = "synced" => hist[n][a] = "synced"
      BY <1>1, <2>2 DEF RowStatus
    <2>3. CASE UNCHANGED <<mirror, hist>>
      BY <1>1, <1>4, <2>1, <2>3, Flags, SaversKept, QuietStep DEF WebApprove
    <2>4. CASE \E m \in Mirror, kept \in (SUBSET Alter) \ {{}}, audit \in NewAudit :
                 /\ mirror' = Created(m, audit)
                 /\ hist' = [hist EXCEPT ![m] = [a \in Alter |-> IF a \in kept THEN "syncing" ELSE "none"]]
      <3>1. PICK m \in Mirror, kept \in SUBSET Alter, audit \in NewAudit :
                 /\ mirror' = Created(m, audit)
                 /\ hist' = [hist EXCEPT ![m] = [a \in Alter |-> IF a \in kept THEN "syncing" ELSE "none"]]
        BY <2>4
      <3>2. UNCHANGED <<saver, applied, vouched, unstored, trouble>> /\ Begins
        BY <1>4 DEF WebApprove
      <3> QED
        BY <1>1, <1>3, <2>1, <2>2, <3>1, <3>2, Flags, SaversKept, Establish
    <2> QED
      BY <1>4, <2>3, <2>4 DEF WebApprove
  <1>5. ASSUME NEW s \in Saver, Create(s) PROVE SyncInv'
    <2>1. UNCHANGED <<source, hist, applied, vouched, unstored, trouble, calm>> /\ saver[s] \in Saving
      BY <1>1, <1>5 DEF Create
    <2>2. CASE Rests(s) /\ UNCHANGED mirror
      <3>1. SaversFine'
        BY <2>1, <2>2, FreeFine DEF FreePC
      <3> QED
        BY <1>2, <2>1, <2>2, <3>1, Flags, SourceRow, QuietStep
    <2>3. CASE \E m \in Mirror, kept \in (SUBSET Alter) \ {{}}, audit \in NewAudit :
                 /\ mirror' = Created(m, audit)
                 /\ Becomes(s, [saver[s] EXCEPT !.pc = "created", !.todo = {m} \X kept])
      <3>1. PICK m \in Mirror, kept \in SUBSET Alter, audit \in NewAudit :
                 /\ mirror' = Created(m, audit)
                 /\ Becomes(s, [saver[s] EXCEPT !.pc = "created", !.todo = {m} \X kept])
        BY <2>3
      <3>2. {m} \X kept \in SUBSET (Mirror \X Alter) /\ "created" \in PC
        BY DEF PC
      <3>3. SaversFine'
        <4>1. PICK q : q = [saver[s] EXCEPT !.pc = "created", !.todo = {m} \X kept]
          OBVIOUS
        <4>2. q \in Saving
          BY <2>1, <3>2, <4>1, SaverRows
        <4>3. q.pc = "created"
          BY <2>1, <4>1 DEF Saving
        <4>4. SaverKnown(q)'
          BY <4>3 DEF SaverKnown
        <4> QED
          BY <2>1, <3>1, <4>1, <4>2, <4>4, BecomesFine
      <3> QED
        BY <1>1, <1>2, <1>3, <2>1, <3>1, <3>3, Flags, SourceRow, Establish
    <2> QED
      BY <1>5, <2>2, <2>3 DEF Create
  <1>6. ASSUME NEW s \in Saver, WriteRow(s) PROVE SyncInv'
    <2>1. PICK x \in saver[s].todo :
              /\ hist' = [hist EXCEPT ![x[1]][x[2]] = "syncing"]
              /\ \/ Rests(s)
                 \/ Becomes(s, [saver[s] EXCEPT !.todo = saver[s].todo \ {x}])
      BY <1>6 DEF WriteRow
    <2>2. UNCHANGED <<source, mirror, applied, vouched, unstored, trouble, calm>> /\ saver[s] \in Saving
      BY <1>1, <1>6 DEF WriteRow
    <2>3. saver[s].todo \in SUBSET (Mirror \X Alter)
      BY <2>2 DEF Saving
    <2>4. SaversFine'
      <3>1. PICK q : q = [saver[s] EXCEPT !.todo = saver[s].todo \ {x}]
        OBVIOUS
      <3>2. q \in Saving
        <4>1. PICK todo \in SUBSET (Mirror \X Alter) : todo = saver[s].todo \ {x}
          BY <2>3
        <4>2. "created" \in PC
          BY DEF PC
        <4> QED
          BY <2>2, <3>1, <4>1, <4>2, SaverRows
      <3>3. q.pc = "created"
        BY <1>6, <2>2, <3>1 DEF WriteRow, Saving
      <3>4. SaverKnown(q)'
        BY <3>3 DEF SaverKnown
      <3>5. Becomes(s, q) \/ Rests(s)
        BY <2>1, <3>1
      <3>6. CASE Rests(s)
        BY <2>2, <3>6, FreeFine DEF FreePC
      <3> QED
        BY <2>2, <3>2, <3>4, <3>5, <3>6, BecomesFine
    <2>5. /\ hist' \in [Mirror -> [Alter -> RowStatus]]
          /\ \A n \in Mirror, a \in Alter : hist'[n][a] = "synced" => hist[n][a] = "synced"
      BY <1>1, <2>1, <2>3 DEF RowStatus
    <2> QED
      BY <1>1, <1>2, <2>2, <2>4, <2>5, Flags, SourceRow, Establish DEF GoodOutcome
  <1> QED
    BY <1>4, <1>5, <1>6

\* The cascade from the source, which records failed or skipped, and the saves
\* of a mirror by requests, which record synced if somebody vouched for it.
LEMMA CascadeStep ==
    ASSUME SyncInv,
           \E s \in Saver : CascadeTarget(s) \/ CascadeRow(s) \/ TargetSave(s) \/ TargetRecord(s)
                            \/ \E m \in Mirror : TargetPass(s, m) \/ TargetCancel(s, m) \/ TargetVouch(s, m)
    PROVE  SyncInv'
  <1> USE DEF SyncInv
  <1>1. saver \in [Saver -> Saving] /\ hist \in [Mirror -> [Alter -> RowStatus]]
        /\ mirror \in [Mirror -> MirrorRow] /\ applied \subseteq Mirror
        /\ vouched \subseteq Mirror /\ unstored \subseteq Mirror
        /\ source \in [status : Status, audit : Audit]
    BY DEF SyncTypeOK
  <1>2. ASSUME NEW s \in Saver
        PROVE  /\ saver[s] \in Saving /\ SaverKnown(saver[s])
               /\ saver[s].todo \in SUBSET (Mirror \X Alter)
    BY <1>1 DEF Saving
  <1>3. ASSUME NEW s \in Saver, NEW pc \in PC, Goes(s, pc), UNCHANGED vouched,
               SaverKnown([saver[s] EXCEPT !.pc = pc])
        PROVE  SaversFine'
    <2>1. PICK q : q = [saver[s] EXCEPT !.pc = pc]
      OBVIOUS
    <2>2. q \in Saving /\ Becomes(s, q) /\ SaverKnown(q)
      BY <1>2, <1>3, <2>1, SaverRows DEF Goes
    <2>3. SaverKnown(q)'
      BY <1>3, <2>2 DEF SaverKnown
    <2> QED
      BY <1>3, <2>2, <2>3, BecomesFine
  <1>13. ASSUME NEW s \in Saver, Rests(s), UNCHANGED vouched
         PROVE  SaversFine'
    BY <1>13, FreeFine DEF FreePC
  \* Whichever mirror it is, if there is one at all.
  <1>4. ASSUME NEW m, NEW status \in Ends, hist' = Recorded(hist, m, status)
        PROVE  /\ hist' \in [Mirror -> [Alter -> RowStatus]]
               /\ \A n \in Mirror, a \in Alter :
                     hist'[n][a] = "synced" =>
                         hist[n][a] = "synced" \/ (n = m /\ status = "workflow_finish")
    <2>1. CASE m \in Mirror
      BY <1>4, <2>1, RecordedRows
    <2>2. CASE m \notin Mirror
      BY <1>1, <1>4, <2>2 DEF Recorded
    <2> QED
      BY <2>1, <2>2
  <1>5. ASSUME NEW m, NEW r, mirror' = [mirror EXCEPT ![m] = r],
               m \in Mirror => r \in MirrorRow /\ r.run = mirror[m].run /\ r.ok = mirror[m].ok
        PROVE  /\ mirror' \in [Mirror -> MirrorRow]
               /\ \A n \in Mirror : GoodOutcome(n)' => GoodOutcome(n)
    BY <1>1, <1>5 DEF GoodOutcome
  <1>6. ASSUME NEW s \in Saver, CascadeTarget(s) PROVE SyncInv'
    <2> DEFINE x == CHOOSE x \in saver[s].todo : TRUE
               r == Ended(mirror[x[1]], saver[s].status)
    <2>1. /\ mirror' = [mirror EXCEPT ![x[1]] = r]
          /\ hist' = Recorded(hist, x[1], saver[s].status)
          /\ Goes(s, "row") /\ UNCHANGED <<source, applied, vouched, unstored, trouble, calm>>
      BY <1>6 DEF CascadeTarget
    <2>4. /\ saver[s].pc = "cascading" /\ saver[s] \in Saving
          /\ saver[s].status \in {"workflow_abort", "workflow_exception"}
      BY <1>2, <1>6 DEF CascadeTarget, SaverKnown
    <2>2. x[1] \in Mirror => r \in MirrorRow /\ r.run = mirror[x[1]].run /\ r.ok = mirror[x[1]].ok
      BY <1>1, <2>4, EndedRow
    <2>3. SaversFine'
      <3>1. PICK q : q = [saver[s] EXCEPT !.pc = "row"]
        OBVIOUS
      <3>2. q.pc = "row" /\ q.status = saver[s].status
        BY <2>4, <3>1 DEF Saving
      <3>3. SaverKnown(q)
        BY <2>4, <3>2 DEF SaverKnown
      <3> QED
        BY <1>3, <2>1, <3>1, <3>3 DEF PC
    <2> HIDE DEF x, r
    <2>5. saver[s].status \in Ends /\ saver[s].status # "workflow_finish"
      BY <2>4 DEF Ends
    <2>6. PICK status \in Ends : status = saver[s].status
      BY <2>5
    <2>7. /\ hist' \in [Mirror -> [Alter -> RowStatus]]
          /\ \A n \in Mirror, a \in Alter : hist'[n][a] = "synced" => hist[n][a] = "synced"
      BY <1>4, <2>1, <2>5, <2>6
    <2> QED
      BY <1>1, <1>5, <2>1, <2>2, <2>3, <2>7, Flags, Establish
  <1>7. ASSUME NEW s \in Saver, CascadeRow(s) PROVE SyncInv'
    <2> DEFINE x == CHOOSE x \in saver[s].todo : TRUE
               r == [saver[s] EXCEPT !.pc = "cascading", !.todo = saver[s].todo \ {x}]
    <2>1. /\ hist' = [hist EXCEPT ![x[1]][x[2]] = SyncStatus(saver[s].status)]
          /\ Rests(s) \/ Becomes(s, r)
          /\ UNCHANGED <<source, mirror, applied, vouched, unstored, trouble, calm>>
      BY <1>7 DEF CascadeRow
    <2>2. r \in Saving
      BY <1>2, SaverRows DEF PC
    <2>6. saver[s].status \in {"workflow_abort", "workflow_exception"}
      BY <1>2, <1>7 DEF CascadeRow, SaverKnown
    <2>7. r.pc = "cascading" /\ r.status = saver[s].status
      BY <1>2 DEF Saving
    <2> HIDE DEF x, r
    <2>3. SaversFine'
      <3>1. PICK q \in Saving : q = r
        BY <2>2
      <3>2. SaverKnown(q)'
        BY <2>6, <2>7, <3>1 DEF SaverKnown
      <3>3. CASE Rests(s)
        BY <1>13, <2>1, <3>3
      <3>4. CASE Becomes(s, r)
        BY <2>1, <3>1, <3>2, <3>4, BecomesFine
      <3> QED
        BY <2>1, <3>3, <3>4
    <2>4. SyncStatus(saver[s].status) \in {"failed", "skipped"}
      BY <2>6, SyncStatusValue
    <2>5. /\ hist' \in [Mirror -> [Alter -> RowStatus]]
          /\ \A n \in Mirror, a \in Alter : hist'[n][a] = "synced" => hist[n][a] = "synced"
      BY <1>1, <2>1, <2>4 DEF RowStatus
    <2> QED
      BY <1>1, <2>1, <2>3, <2>5, Flags, Establish DEF GoodOutcome
  <1>8. ASSUME NEW s \in Saver, TargetSave(s) PROVE SyncInv'
    <2> DEFINE m == saver[s].m
               r == [mirror[m] EXCEPT !.status = saver[s].status]
    <2>1. /\ mirror' = [mirror EXCEPT ![m] = r]
          /\ UNCHANGED <<source, hist, applied, vouched, unstored, trouble, calm>>
      BY <1>8 DEF TargetSave
    <2>2. /\ saver[s] \in Saving /\ saver[s].pc = "targetSaving" /\ SaverKnown(saver[s])
          /\ saver[s].status \in {"workflow_abort", "workflow_finish", "workflow_review_pass"}
      BY <1>2, <1>8 DEF TargetSave, SaverKnown
    <2>3. saver[s].status \in Status
      BY <2>2 DEF Status
    <2>4. m \in Mirror => r \in MirrorRow /\ r.run = mirror[m].run /\ r.ok = mirror[m].ok
      BY <1>1, <2>3, RowSaved DEF IsRow
    <2>5. SaversFine'
      <3>1. CASE saver[s].status = "workflow_review_pass"
        BY <1>8, <1>13, <2>1, <3>1 DEF TargetSave
      <3>2. CASE saver[s].status # "workflow_review_pass"
        <4>1. PICK q : q = [saver[s] EXCEPT !.pc = "targetSaved"]
          OBVIOUS
        <4>2. q.pc = "targetSaved" /\ q.m = saver[s].m /\ q.status = saver[s].status
          BY <2>2, <4>1 DEF Saving
        <4>3. SaverKnown(q)
          BY <2>2, <3>2, <4>2 DEF SaverKnown
        <4>4. Goes(s, "targetSaved")
          BY <1>8, <3>2 DEF TargetSave
        <4> QED
          BY <1>3, <2>1, <4>1, <4>3, <4>4 DEF PC
      <3> QED
        BY <3>1, <3>2
    <2> HIDE DEF m, r
    <2> QED
      BY <1>1, <1>5, <2>1, <2>4, <2>5, Flags, Establish
  \* The request that vouched makes the rows synced.
  <1>9. ASSUME NEW s \in Saver, TargetRecord(s) PROVE SyncInv'
    <2> DEFINE m == saver[s].m
               r == Closed(mirror[m], m, saver[s].status)
    <2>1. /\ mirror' = [mirror EXCEPT ![m] = r]
          /\ hist' = Recorded(hist, m, saver[s].status)
          /\ Rests(s) /\ UNCHANGED <<source, applied, vouched, unstored, trouble, calm>>
      BY <1>9 DEF TargetRecord
    <2>2. m \in Mirror => r \in MirrorRow /\ r.run = mirror[m].run /\ r.ok = mirror[m].ok
      BY <1>1, ClosedRow
    <2>3. SaversFine'
      BY <1>13, <2>1
    <2>4. /\ saver[s].status \in {"workflow_abort", "workflow_finish"}
          /\ saver[s].status = "workflow_finish" => m \in vouched
      BY <1>2, <1>9 DEF TargetRecord, SaverKnown
    <2> HIDE DEF m, r
    <2>5. PICK status \in Ends : status = saver[s].status
      BY <2>4 DEF Ends
    <2>6. /\ hist' \in [Mirror -> [Alter -> RowStatus]]
          /\ \A n \in Mirror, a \in Alter :
                hist'[n][a] = "synced" => hist[n][a] = "synced" \/ n \in vouched
      BY <1>4, <2>1, <2>4, <2>5
    <2> QED
      BY <1>1, <1>5, <2>1, <2>2, <2>3, <2>6, Flags, Establish
  \* The first steps of these requests.
  <1>10. ASSUME NEW s \in Saver, NEW m \in Mirror,
                NEW status \in {"workflow_abort", "workflow_finish", "workflow_review_pass"},
                TargetBegins(s, m, status), vouched \subseteq vouched',
                status = "workflow_finish" => m \in vouched'
         PROVE  SaversFine' /\ calm' \in BOOLEAN
    <2>1. PICK q : q = [saver[s] EXCEPT !.pc = "targetSaving", !.m = m, !.status = status]
      OBVIOUS
    <2>2. q.pc = "targetSaving" /\ q.m = m /\ q.status = status
      BY <1>2, <2>1 DEF Saving
    <2>3. q \in Saving
      <3>1. status \in Saved /\ "targetSaving" \in PC
        BY DEF Saved, PC
      <3> QED
        BY <1>2, <2>1, <3>1, SaverRows
    <2>4. SaverKnown(q)'
      BY <1>10, <2>2 DEF SaverKnown
    <2>5. Becomes(s, q) /\ Begins
      BY <1>10, <2>1 DEF TargetBegins
    <2> QED
      BY <1>10, <2>3, <2>4, <2>5, BecomesFine, Flags
  <1>11. ASSUME NEW s \in Saver, NEW m \in Mirror, TargetPass(s, m) \/ TargetCancel(s, m)
         PROVE  SyncInv'
    <2>1. PICK audit \in {"PASSED", "ABORTED"} : mirror' = [mirror EXCEPT ![m] = [mirror[m] EXCEPT !.audit = audit]]
      BY <1>11 DEF TargetPass, TargetCancel
    <2>2. PICK r : r = [mirror[m] EXCEPT !.audit = audit]
      OBVIOUS
    <2>3. /\ mirror' = [mirror EXCEPT ![m] = r] /\ mirror[m].audit # "NONE"
          /\ UNCHANGED <<source, hist, applied, vouched, unstored, trouble>>
      BY <1>11, <2>1, <2>2 DEF TargetPass, TargetCancel
    <2>4. audit \in Audit /\ mirror[m] # NoMirror
      BY <2>3 DEF Audit, NoMirror
    <2>5. r \in MirrorRow /\ r.run = mirror[m].run /\ r.ok = mirror[m].ok
      BY <1>1, <2>2, <2>4, RowAudited DEF IsRow
    <2>6. SaversFine' /\ calm' \in BOOLEAN
      BY <1>10, <1>11, <2>3 DEF TargetPass, TargetCancel
    <2> QED
      BY <1>1, <1>5, <2>3, <2>5, <2>6, Flags, Establish
  <1>12. ASSUME NEW s \in Saver, NEW m \in Mirror, TargetVouch(s, m) PROVE SyncInv'
    <2>1. /\ UNCHANGED <<source, mirror, hist, applied, unstored, trouble>>
          /\ vouched' = vouched \cup {m} /\ TargetBegins(s, m, "workflow_finish")
      BY <1>12 DEF TargetVouch
    <2>2. SaversFine' /\ calm' \in BOOLEAN
      BY <1>10, <2>1
    <2> QED
      BY <1>1, <2>1, <2>2, Flags, Establish DEF GoodOutcome
  <1> QED
    BY <1>6, <1>7, <1>8, <1>9, <1>11, <1>12

\* The steps of the source alone.
LEMMA SourceStep ==
    ASSUME SyncInv, SourceStart \/ SourceFinish \/ SourceUnstored \/ WebCancel \/ OaSource
    PROVE  SyncInv'
  <1> USE DEF SyncInv
  <1>1. saver \in [Saver -> Saving] /\ hist \in [Mirror -> [Alter -> RowStatus]]
        /\ mirror \in [Mirror -> MirrorRow] /\ applied \subseteq Mirror
        /\ vouched \subseteq Mirror /\ unstored \subseteq Mirror
    BY DEF SyncTypeOK
  <1>2. CASE SourceStart \/ SourceFinish \/ SourceUnstored
    <2>1. source' \in [status : Status, audit : Audit]
      BY <1>2, SourceRow DEF SourceStart, SourceFinish, SourceUnstored, Status, Audit
    <2> QED
      BY <1>1, <1>2, <2>1, Flags, SaversKept, QuietStep DEF SourceStart, SourceFinish, SourceUnstored
  <1>3. CASE OaSource
    BY <1>1, <1>3, Flags, SourceRow, SaversKept, QuietStep DEF OaSource
  <1>4. CASE WebCancel
    <2>1. source' \in [status : Status, audit : Audit]
      BY <1>4, SourceRow DEF WebCancel, Status, Audit
    <2>2. ASSUME NEW m \in Mirror
          PROVE  mirror'[m] \in MirrorRow /\ mirror'[m].run = mirror[m].run /\ mirror'[m].ok = mirror[m].ok
      BY <1>1, <1>4, EndedRow DEF WebCancel
    <2>3. mirror' = [m \in Mirror |-> mirror'[m]]
      BY <1>4 DEF WebCancel
    <2>4. /\ mirror' \in [Mirror -> MirrorRow]
          /\ \A n \in Mirror : GoodOutcome(n)' => GoodOutcome(n)
      BY <2>2, <2>3 DEF GoodOutcome
    <2>5. /\ hist' \in [Mirror -> [Alter -> RowStatus]]
          /\ \A n \in Mirror, a \in Alter : hist'[n][a] = "synced" => hist[n][a] = "synced"
      BY <1>1, <1>4 DEF WebCancel, RowStatus
    <2>6. UNCHANGED <<saver, applied, vouched, unstored, trouble>> /\ Begins
      BY <1>4 DEF WebCancel
    <2> QED
      BY <1>1, <2>1, <2>4, <2>5, <2>6, Flags, SaversKept, Establish
  <1> QED
    BY <1>2, <1>3, <1>4

\* The approval and the execution of a mirror.
LEMMA LifeStep ==
    ASSUME SyncInv,
           \E m \in Mirror : \/ MirrorPass(m) \/ MirrorCancel(m) \/ MirrorStart(m)
                             \/ \E ok \in BOOLEAN : MirrorReturn(m, ok)
                             \/ HookRead(m) \/ HookSave(m) \/ HookFails(m) \/ HookRecord(m)
                             \/ OaMirror(m) \/ CrashHook(m)
    PROVE  SyncInv'
  <1> USE DEF SyncInv
  <1>1. saver \in [Saver -> Saving] /\ hist \in [Mirror -> [Alter -> RowStatus]]
        /\ mirror \in [Mirror -> MirrorRow] /\ applied \subseteq Mirror
        /\ vouched \subseteq Mirror /\ unstored \subseteq Mirror
        /\ source \in [status : Status, audit : Audit]
    BY DEF SyncTypeOK
  <1>2. \A n \in Mirror, a \in Alter : hist[n][a] = "synced" => n \in applied \cup vouched
    BY DEF SyncedIsApplied
  <1>3. \A m \in Mirror : GoodOutcome(m) => m \in applied
    OBVIOUS
  <1>4. ASSUME NEW m \in Mirror, MirrorPass(m) PROVE SyncInv'
    <2> DEFINE q == [mirror[m] EXCEPT !.status = "workflow_review_pass"]
               r == [q EXCEPT !.audit = "PASSED"]
    <2>1. /\ mirror' = [mirror EXCEPT ![m] = r]
          /\ UNCHANGED <<source, hist, saver, applied, vouched, unstored, trouble, calm>>
      BY <1>4 DEF MirrorPass
    <2>2. q = [mirror[m] EXCEPT !.status = "workflow_review_pass"] /\ r = [q EXCEPT !.audit = "PASSED"]
      OBVIOUS
    <2> HIDE DEF q, r
    <2>3. mirror[m] \in MirrorRow /\ "workflow_review_pass" \in Status /\ "PASSED" \in Audit
      BY <1>1 DEF Status, Audit
    <2>4. IsRow(r, mirror[m].run, mirror[m].ok)
      BY <2>2, <2>3, RowDecided
    <2> QED
      BY <1>1, <2>1, <2>4, Flags, SaversKept, MirrorStep DEF IsRow, GoodOutcome
  <1>5. ASSUME NEW m \in Mirror, MirrorStart(m) PROVE SyncInv'
    <2> DEFINE q == [mirror[m] EXCEPT !.run = "running"]
               r == [q EXCEPT !.status = "workflow_executing"]
    <2>1. /\ mirror' = [mirror EXCEPT ![m] = r] /\ mirror[m] # NoMirror
          /\ UNCHANGED <<source, hist, saver, applied, vouched, unstored, trouble, calm>>
      BY <1>5 DEF MirrorStart, NoMirror
    <2>2. q = [mirror[m] EXCEPT !.run = "running"] /\ r = [q EXCEPT !.status = "workflow_executing"]
      OBVIOUS
    <2> HIDE DEF q, r
    <2>3. IsRow(q, "running", mirror[m].ok)
      BY <1>1, <2>1, <2>2, RowRuns DEF Run
    <2>4. IsRow(r, "running", mirror[m].ok)
      BY <2>2, <2>3, RowSaved DEF IsRow, Status
    <2> QED
      BY <1>1, <2>1, <2>4, Flags, SaversKept, MirrorStep DEF IsRow
  <1>6. ASSUME NEW m \in Mirror, NEW ok \in BOOLEAN, MirrorReturn(m, ok) PROVE SyncInv'
    <2> DEFINE q == [mirror[m] EXCEPT !.run = "returned"]
               r == [q EXCEPT !.ok = ok]
    <2>1. /\ mirror' = [mirror EXCEPT ![m] = r] /\ mirror[m] # NoMirror
          /\ applied' = (IF ok THEN applied \cup {m} ELSE applied)
          /\ UNCHANGED <<source, hist, saver, vouched, unstored, trouble, calm>>
      <3>1. mirror' = [mirror EXCEPT ![m] = r]
        BY <1>6 DEF MirrorReturn
      <3>2. mirror[m] # NoMirror
        <4>1. mirror[m].run = "running"
          BY <1>6 DEF MirrorReturn
        <4>2. NoMirror.run = "no"
          BY DEF NoMirror
        <4> QED
          BY <4>1, <4>2
      <3> QED
        BY <1>6, <3>1, <3>2 DEF MirrorReturn
    <2>2. q = [mirror[m] EXCEPT !.run = "returned"] /\ r = [q EXCEPT !.ok = ok]
      OBVIOUS
    <2> HIDE DEF q, r
    <2>3. IsRow(q, "returned", mirror[m].ok)
      BY <1>1, <2>1, <2>2, RowRuns DEF Run
    <2>4. q \in MirrorRow /\ q # NoMirror /\ q.run = "returned"
      BY <2>3 DEF IsRow, NoMirror
    <2>6. IsRow(r, "returned", ok)
      BY <2>2, <2>4, RowOutcome
    <2>5. applied \subseteq applied' /\ applied' \subseteq Mirror /\ (ok => m \in applied')
      BY <1>1, <2>1
    <2> QED
      BY <1>1, <2>1, <2>5, <2>6, Flags, SaversKept, MirrorStep DEF IsRow
  <1>7. ASSUME NEW m \in Mirror, HookRead(m) \/ CrashHook(m) PROVE SyncInv'
    <2>1. PICK run \in {"read", "no"} :
              mirror' = [mirror EXCEPT ![m] = [mirror[m] EXCEPT !.run = run]]
      BY <1>7 DEF HookRead, CrashHook
    <2> DEFINE r == [mirror[m] EXCEPT !.run = run]
    <2>2. /\ mirror[m] # NoMirror /\ (mirror[m].ok => GoodOutcome(m))
          /\ UNCHANGED <<source, hist, saver, applied, vouched, unstored>> /\ trouble' \in 0..MaxTrouble /\ calm' \in BOOLEAN
      BY <1>7, Flags DEF HookRead, CrashHook, NoMirror, GoodOutcome
    <2>3. r = [mirror[m] EXCEPT !.run = run]
      OBVIOUS
    <2>4. mirror' = [mirror EXCEPT ![m] = r]
      BY <2>1
    <2> HIDE DEF r
    <2>5. IsRow(r, run, mirror[m].ok)
      BY <1>1, <2>2, <2>3, RowRuns DEF Run
    <2> QED
      BY <1>1, <2>2, <2>4, <2>5, SaversKept, MirrorStep DEF IsRow
  <1>8. ASSUME NEW m \in Mirror, HookSave(m) PROVE SyncInv'
    <2> DEFINE q == [mirror[m] EXCEPT !.run = "saved"]
               r == [q EXCEPT !.status = Outcome(m)]
    <2>1. /\ mirror' = [mirror EXCEPT ![m] = r] /\ mirror[m] # NoMirror
          /\ mirror[m].ok => GoodOutcome(m)
          /\ UNCHANGED <<source, hist, saver, applied, vouched, unstored, trouble, calm>>
      BY <1>8 DEF HookSave, NoMirror, GoodOutcome
    <2>2. q = [mirror[m] EXCEPT !.run = "saved"] /\ r = [q EXCEPT !.status = Outcome(m)]
      OBVIOUS
    <2> HIDE DEF q, r
    <2>3. IsRow(q, "saved", mirror[m].ok)
      BY <1>1, <2>1, <2>2, RowRuns DEF Run
    <2>4. Outcome(m) \in Status
      BY DEF Outcome, Status
    <2>5. IsRow(r, "saved", mirror[m].ok)
      BY <2>2, <2>3, <2>4, RowSaved DEF IsRow
    <2> QED
      BY <1>1, <2>1, <2>5, Flags, SaversKept, MirrorStep DEF IsRow
  <1>12. ASSUME NEW m \in Mirror, HookFails(m) PROVE SyncInv'
    <2> DEFINE q == [mirror[m] EXCEPT !.run = "no"]
               r == [q EXCEPT !.status = "workflow_exception"]
    <2>1. /\ mirror' = [mirror EXCEPT ![m] = r] /\ mirror[m] # NoMirror
          /\ unstored' = unstored \cup {m} /\ Trouble
          /\ UNCHANGED <<source, hist, saver, applied, vouched, calm>>
      BY <1>12 DEF HookFails, NoMirror
    <2>2. q = [mirror[m] EXCEPT !.run = "no"] /\ r = [q EXCEPT !.status = "workflow_exception"]
      OBVIOUS
    <2> HIDE DEF q, r
    <2>3. IsRow(q, "no", mirror[m].ok)
      BY <1>1, <2>1, <2>2, RowRuns DEF Run
    <2>4. IsRow(r, "no", mirror[m].ok)
      BY <2>2, <2>3, RowSaved DEF IsRow, Status
    <2>5. unstored' \subseteq Mirror
      BY <1>1, <2>1
    <2> QED
      BY <1>1, <2>1, <2>4, <2>5, Flags, SaversKept, MirrorStep DEF IsRow
  \* Of these steps the one that makes a row synced: the outcome is a good one.
  <1>9. ASSUME NEW m \in Mirror, HookRecord(m) PROVE SyncInv'
    <2> DEFINE q == Closed(mirror[m], m, Outcome(m))
               r == [q EXCEPT !.run = "no"]
    <2>1. /\ mirror' = [mirror EXCEPT ![m] = r] /\ mirror[m].run = "saved"
          /\ hist' = Recorded(hist, m, Outcome(m))
          /\ UNCHANGED <<source, saver, applied, vouched, unstored, trouble, calm>>
      BY <1>9 DEF HookRecord
    <2>2. r = [q EXCEPT !.run = "no"]
      OBVIOUS
    <2>3. q \in MirrorRow /\ q.run = mirror[m].run
      BY <1>1, ClosedRow
    <2> HIDE DEF q, r
    <2>4. IsRow(r, "no", q.ok)
      BY <2>1, <2>2, <2>3, RowRuns DEF Run, NoMirror
    <2>5. Outcome(m) \in Ends /\ (Outcome(m) = "workflow_finish" => m \in applied)
      BY <1>3, <2>1 DEF Outcome, Ends, GoodOutcome
    <2>6. /\ hist' \in [Mirror -> [Alter -> RowStatus]]
          /\ \A n \in Mirror, a \in Alter : hist'[n][a] = "synced" => hist[n][a] = "synced" \/ n \in applied
      BY <2>1, <2>5, RecordedRows
    <2> QED
      BY <1>1, <2>1, <2>4, <2>6, Flags, SaversKept, MirrorStep DEF IsRow
  <1>10. ASSUME NEW m \in Mirror, MirrorCancel(m) PROVE SyncInv'
    <2>1. PICK audit \in {"REJECTED", "ABORTED"} :
              mirror' = [mirror EXCEPT ![m] =
                  Closed([mirror[m] EXCEPT !.status = "workflow_abort", !.audit = audit], m, "workflow_abort")]
      BY <1>10 DEF MirrorCancel
    <2> DEFINE q == [mirror[m] EXCEPT !.status = "workflow_abort"]
               p == [q EXCEPT !.audit = audit]
               r == Closed(p, m, "workflow_abort")
    <2>2. /\ hist' = Recorded(hist, m, "workflow_abort") /\ Begins
          /\ UNCHANGED <<source, saver, applied, vouched, unstored, trouble>>
      BY <1>10 DEF MirrorCancel
    <2>3. /\ q = [mirror[m] EXCEPT !.status = "workflow_abort"] /\ p = [q EXCEPT !.audit = audit]
          /\ r = Closed(p, m, "workflow_abort")
      OBVIOUS
    <2>4. mirror' = [mirror EXCEPT ![m] = r]
      BY <2>1
    <2> HIDE DEF q, p, r
    <2>5. mirror[m] \in MirrorRow /\ "workflow_abort" \in Status /\ audit \in Audit
      BY <1>1 DEF Status, Audit
    <2>6. IsRow(p, mirror[m].run, mirror[m].ok)
      BY <2>3, <2>5, RowDecided
    <2>7. p \in MirrorRow /\ IsRow(r, p.run, p.ok)
      <3>1. p \in MirrorRow
        BY <2>6 DEF IsRow
      <3>2. Closed(p, m, "workflow_abort") = r
        BY <2>3
      <3> QED
        BY <3>1, <3>2, ClosedRow DEF IsRow
    <2>8. /\ hist' \in [Mirror -> [Alter -> RowStatus]]
          /\ \A n \in Mirror, a \in Alter : hist'[n][a] = "synced" => hist[n][a] = "synced"
      BY <2>2, RecordedRows DEF Ends
    <2> QED
      BY <1>1, <2>2, <2>4, <2>6, <2>7, <2>8, Flags, SaversKept, MirrorStep DEF IsRow, GoodOutcome
  <1>11. ASSUME NEW m \in Mirror, OaMirror(m) PROVE SyncInv'
    <2>1. PICK status \in Status, audit \in Audit :
              mirror' = [mirror EXCEPT ![m] = [mirror[m] EXCEPT !.status = status, !.audit = audit]]
      BY <1>11 DEF OaMirror
    <2> DEFINE q == [mirror[m] EXCEPT !.status = status]
               r == [q EXCEPT !.audit = audit]
    <2>2. Troubled /\ UNCHANGED <<source, hist, saver, applied, vouched, unstored>>
      BY <1>11 DEF OaMirror
    <2>3. q = [mirror[m] EXCEPT !.status = status] /\ r = [q EXCEPT !.audit = audit]
      OBVIOUS
    <2>4. mirror' = [mirror EXCEPT ![m] = r]
      BY <2>1
    <2> HIDE DEF q, r
    <2>5. mirror[m] \in MirrorRow
      BY <1>1
    <2>6. IsRow(r, mirror[m].run, mirror[m].ok)
      BY <2>3, <2>5, RowDecided
    <2> QED
      BY <1>1, <2>2, <2>4, <2>6, Flags, SaversKept, MirrorStep DEF IsRow, GoodOutcome
  <1> QED
    BY <1>4, <1>5, <1>6, <1>7, <1>8, <1>9, <1>10, <1>11, <1>12

-----------------------------------------------------------------------------
\* SyncInv is inductive.
THEOREM SyncInvariant == SyncSpec => []SyncInv
  <1>1. ASSUME SyncInv, SyncNext PROVE SyncInv'
    <2>1. CASE WebApprove \/ \E s \in Saver : Create(s) \/ WriteRow(s)
      BY <1>1, <2>1, CreationStep
    <2>2. CASE SourceStart \/ SourceFinish \/ SourceUnstored \/ WebCancel \/ OaSource
      BY <1>1, <2>2, SourceStep
    <2>3. ASSUME NEW s \in Saver,
                 \/ ApiApprove(s) \/ ApiSaveApproved(s) \/ Hold(s) \/ Resave(s) \/ Judge(s)
                 \/ ApiCancel(s) \/ ApiSaveAborted(s) \/ SourceFail(s) \/ Cascade(s) \/ CrashSaver(s)
          PROVE  SyncInv'
      BY <1>1, <2>3, SaverStep
    <2>4. CASE \E s \in Saver : CascadeTarget(s) \/ CascadeRow(s) \/ TargetSave(s) \/ TargetRecord(s)
                                 \/ \E m \in Mirror : TargetPass(s, m) \/ TargetCancel(s, m) \/ TargetVouch(s, m)
      BY <1>1, <2>4, CascadeStep
    <2>5. CASE \E m \in Mirror : \/ MirrorPass(m) \/ MirrorCancel(m) \/ MirrorStart(m)
                                 \/ \E ok \in BOOLEAN : MirrorReturn(m, ok)
                                 \/ HookRead(m) \/ HookSave(m) \/ HookFails(m) \/ HookRecord(m)
                                 \/ OaMirror(m) \/ CrashHook(m)
      BY <1>1, <2>5, LifeStep
    <2> QED
      BY <1>1, <2>1, <2>2, <2>3, <2>4, <2>5, Zenon DEF SyncNext
  <1>2. ASSUME SyncInv, UNCHANGED syncVars PROVE SyncInv'
    BY <1>2, SaversKept, QuietStep DEF syncVars, SyncInv, SyncTypeOK
  <1>3. SyncInv /\ [SyncNext]_syncVars => SyncInv'
    BY <1>1, <1>2
  <1> QED
    BY SyncInitInv, <1>3, PTL DEF SyncSpec

\* Every variable keeps its type, however many ALTERs, savers and mirrors.
THEOREM SyncTypes == SyncSpec => []SyncTypeOK
  <1>1. SyncInv => SyncTypeOK
    BY DEF SyncInv
  <1> QED
    BY SyncInvariant, <1>1, PTL

\* A row of the history says synced only if the SQL of its mirror was executed
\* without an error or somebody vouched that it was executed by hand:
\* target_workflow_status_handler, with everything that saves workflows around
\* it.
THEOREM Synced == SyncSpec => []SyncedIsApplied
  <1>1. SyncInv => SyncedIsApplied
    BY DEF SyncInv
  <1> QED
    BY SyncInvariant, <1>1, PTL

-----------------------------------------------------------------------------
(* While handlers take turns *)

Working(s) == saver[s].pc \notin {"idle", "holding"}

Hooked(m) == mirror[m].run \in {"read", "saved"}

Syncs(m) == \E a \in Alter : hist[m][a] = "syncing"

\* The rows say what the mirror is doing, unless its hook could not store it.
Agrees(m) == (Open(m) => Syncs(m)) /\ (Syncs(m) => Open(m) \/ m \in unstored)

\* What holds of a mirror and its rows at every moment: one that was not made
\* has no rows, one that waits for approval is under review, its rows share a
\* result, and a hook that has read or saved wrote what the status says.
RowsInv(m) ==
    /\ mirror[m] = NoMirror => \A a \in Alter : hist[m][a] = "none"
    /\ mirror[m].audit = "WAITING" => mirror[m].status = "workflow_manreviewing"
    /\ \A a, b \in Alter : hist[m][a] # "none" /\ hist[m][b] # "none" => hist[m][a] = hist[m][b]
    /\ mirror[m].run = "read" => mirror[m].status = "workflow_executing"
    /\ mirror[m].run = "saved" => mirror[m].status = Outcome(m)

\* The mirror whose rows the saver q is still to write.
Excuses(q, m) ==
    \/ q.pc = "created" /\ \E x \in q.todo : x[1] = m
    \/ q.pc = "targetSaved" /\ q.m = m

\* The row that a cascade is at, and what it writes into it.
Head(q) == CHOOSE x \in q.todo : TRUE

Final(q) == SyncStatus(q.status)

\* How far a saver has come, in terms of the rows.
SaverInv(q) ==
    /\ q.pc \in {"judged", "created"} => source.audit = "PASSED"
    /\ q.pc = "created" =>
        /\ q.todo # {}
        /\ \E m \in Mirror :
             /\ \A x \in q.todo : x[1] = m
             /\ Open(m)
             /\ \A a \in Alter : hist[m][a] \in {"none", "syncing"}
    /\ q.pc = "aborting" => source.audit = "ABORTED"
    /\ q.pc \in {"cascading", "row"} =>
        /\ q.todo # {}
        /\ \A x \in q.todo : hist[x[1]][x[2]] \in {"syncing", Final(q)}
    /\ q.pc = "row" => hist[Head(q)[1]][Head(q)[2]] = Final(q)
    /\ q.pc \in {"targetSaving", "targetSaved"} =>
        /\ q.m \in Mirror /\ mirror[q.m].status # "none" /\ mirror[q.m].audit # "WAITING"
        /\ q.pc = "targetSaving" /\ q.status = "workflow_review_pass" => Open(q.m)
        /\ q.pc = "targetSaved" => mirror[q.m].status = q.status

\* A saver that will end every mirror that is still followed.
Ending(q) == q.pc = "ended" \/ (q.pc \in {"cascading", "row"} /\ Syncing \subseteq q.todo)

OneAtWork ==
    /\ \A s, t \in Saver : Working(s) /\ Working(t) => s = t
    /\ \A m, n \in Mirror : Hooked(m) /\ Hooked(n) => m = n
    /\ \A s \in Saver, m \in Mirror : ~(Working(s) /\ Hooked(m))

\* A withdrawn source has no mirror left that is followed, or somebody is at it.
Withdrawn ==
    source.status = "workflow_abort" =>
        /\ source.audit \in {"ABORTED", "REJECTED"}
        /\ Syncing = {} \/ \E s \in Saver : Ending(saver[s])

Turns ==
    /\ OneAtWork
    /\ \A m \in Mirror : RowsInv(m)
    /\ \A m \in Mirror :
          Agrees(m) \/ mirror[m].run = "saved" \/ \E s \in Saver : Excuses(saver[s], m)
    /\ \A s \in Saver : SaverInv(saver[s])
    /\ Withdrawn

\* What RowsFinal asks of one step.
RowsKept ==
    \A m \in Mirror, a \in Alter :
        hist[m][a] \notin {"none", "syncing"} => hist'[m][a] = hist[m][a]

\* Everybody but saver s is at rest.
Alone(s) ==
    /\ \A t \in Saver : t # s => ~Working(t)
    /\ \A m \in Mirror : ~Hooked(m)

\* Who rests claims nothing.
LEMMA RestInv ==
    ASSUME NEW q, q.pc \in {"idle", "holding"}
    PROVE  SaverInv(q) /\ ~Ending(q) /\ \A m \in Mirror : ~Excuses(q, m)
  BY DEF SaverInv, Ending, Excuses

LEMMA AloneFacts ==
    ASSUME Turns, NEW s \in Saver, Working(s) \/ Quiet
    PROVE  /\ Alone(s)
           /\ \A m \in Mirror : Agrees(m) \/ Excuses(saver[s], m)
           /\ source.status = "workflow_abort" =>
                 /\ source.audit \in {"ABORTED", "REJECTED"}
                 /\ Syncing = {} \/ Ending(saver[s])
  <1>1. Alone(s)
    BY DEF Turns, OneAtWork, Alone, Quiet, Working, Hooked
  <1>2. \A t \in Saver : t # s => ~Ending(saver[t]) /\ \A m \in Mirror : ~Excuses(saver[t], m)
    BY <1>1, RestInv DEF Alone, Working
  <1>3. \A m \in Mirror : mirror[m].run # "saved"
    BY <1>1 DEF Alone, Hooked
  <1> QED
    BY <1>1, <1>2, <1>3 DEF Turns, Withdrawn

\* A step of saver s, from what it does to the rows and to its own record.
LEMMA SaverTurn ==
    ASSUME SyncTypeOK, NEW s \in Saver, Alone(s), NEW q \in Saving,
           saver' = [saver EXCEPT ![s] = q],
           \A m \in Mirror : mirror'[m].run = mirror[m].run,
           \A m \in Mirror : RowsInv(m)',
           \A m \in Mirror : Agrees(m)' \/ Excuses(saver[s], m)',
           SaverInv(saver[s])',
           source'.status = "workflow_abort" =>
               /\ source'.audit \in {"ABORTED", "REJECTED"}
               /\ Syncing' = {} \/ Ending(saver[s])'
    PROVE  Turns'
  <1>1. \A t \in Saver : t # s => saver'[t] = saver[t] /\ saver'[t].pc \in {"idle", "holding"}
    BY DEF Alone, Working, SyncTypeOK
  <1>2. \A m \in Mirror : mirror'[m].run \notin {"read", "saved"}
    BY DEF Alone, Hooked
  <1>3. OneAtWork'
    BY <1>1, <1>2 DEF OneAtWork, Working, Hooked
  <1>4. \A t \in Saver : SaverInv(saver[t])'
    <2> SUFFICES ASSUME NEW t \in Saver PROVE SaverInv(saver[t])'
      OBVIOUS
    <2>1. CASE t # s
      BY <1>1, <2>1 DEF SaverInv
    <2> QED
      BY <2>1
  <1> QED
    BY <1>3, <1>4 DEF Turns, Withdrawn

\* The steps that leave the rows alone.
LEMMA SaverOnly ==
    ASSUME SyncTypeOK, Turns, unstored \subseteq unstored', NEW s \in Saver, Working(s) \/ Quiet, NEW q \in Saving,
           saver' = [saver EXCEPT ![s] = q], UNCHANGED <<mirror, hist>>,
           \A m \in Mirror : ~Excuses(saver[s], m),
           SaverInv(saver[s])',
           source'.status = "workflow_abort" =>
               /\ source'.audit \in {"ABORTED", "REJECTED"}
               /\ Syncing = {} \/ Ending(saver[s])'
    PROVE  Turns' /\ RowsKept
  <1>1. Alone(s) /\ \A m \in Mirror : Agrees(m)
    BY AloneFacts
  <1>2. \A m \in Mirror : Agrees(m)'
    BY <1>1 DEF Agrees, Open, Syncs
  <1>3. \A m \in Mirror : RowsInv(m)'
    BY DEF Turns, RowsInv, Outcome
  <1>4. Syncing' = Syncing
    BY DEF Syncing
  <1> QED
    BY <1>1, <1>2, <1>3, <1>4, SaverTurn DEF RowsKept

\* The next record of a saver.
LEMMA NextPc ==
    ASSUME NEW r \in Saving, NEW pc \in PC, NEW q, q = [r EXCEPT !.pc = pc]
    PROVE  q \in Saving /\ q.pc = pc /\ q.m = r.m /\ q.todo = r.todo /\ q.status = r.status
  <1>1. q.pc = pc /\ q.m = r.m /\ q.todo = r.todo /\ q.status = r.status
    BY DEF Saving
  <1> QED
    BY <1>1, SaverRows

LEMMA NextTodo ==
    ASSUME NEW r \in Saving, NEW pc \in PC, NEW todo \in SUBSET (Mirror \X Alter),
           NEW p, p = [r EXCEPT !.pc = pc], NEW q, q = [p EXCEPT !.todo = todo]
    PROVE  q \in Saving /\ q.pc = pc /\ q.todo = todo /\ q.status = r.status
  <1>1. p \in Saving /\ p.pc = pc /\ p.status = r.status
    BY NextPc
  <1>2. q.pc = p.pc /\ q.todo = todo /\ q.status = p.status
    BY <1>1 DEF Saving
  <1> QED
    BY <1>1, <1>2, SaverRows

LEMMA NextStatus ==
    ASSUME NEW r \in Saving, NEW pc \in PC, NEW q,
           NEW status \in {"workflow_abort", "workflow_exception"},
           q = [r EXCEPT !.pc = pc, !.status = status]
    PROVE  q \in Saving /\ q.pc = pc /\ q.status = status
  <1>1. q.pc = pc /\ q.status = status
    BY DEF Saving
  <1>2. status \in Saved
    BY DEF Saved
  <1>3. q \in Saving
    BY <1>2, SaverRows, Zenon
  <1> QED
    BY <1>1, <1>3

\* The steps of the requests that approve and withdraw, and of the handlers
\* up to the first row they write.
LEMMA RequestTurns ==
    ASSUME SyncTypeOK, Turns, unstored \subseteq unstored', NEW s \in Saver,
           \/ /\ ApiApprove(s) \/ Resave(s) \/ ApiCancel(s) \/ SourceFail(s)
              /\ Quiet
           \/ ApiSaveApproved(s) \/ Judge(s) \/ ApiSaveAborted(s) \/ Cascade(s)
    PROVE  Turns' /\ RowsKept
  <1>1. saver \in [Saver -> Saving] /\ saver[s] \in Saving /\ SaverInv(saver[s])
    BY DEF SyncTypeOK, Turns
  <1>2. Working(s) \/ Quiet
    BY DEF ApiSaveApproved, Judge, ApiSaveAborted, Cascade, Working
  <1>3. /\ \A m \in Mirror : Agrees(m) \/ Excuses(saver[s], m)
        /\ source.status = "workflow_abort" =>
              /\ source.audit \in {"ABORTED", "REJECTED"}
              /\ Syncing = {} \/ Ending(saver[s])
    BY <1>2, AloneFacts
  \* A saver whose next record is q, and who writes no row before or after.
  <1>4. ASSUME NEW q \in Saving, saver' = [saver EXCEPT ![s] = q], UNCHANGED <<mirror, hist>>,
               q.pc \notin {"created", "targetSaved"}, SaverInv(saver[s])',
               source'.status = "workflow_abort" =>
                   /\ source'.audit \in {"ABORTED", "REJECTED"}
                   /\ Syncing = {} \/ Ending(saver[s])',
               saver[s].pc \notin {"created", "targetSaved"}
        PROVE  Turns' /\ RowsKept
    <2>1. \A m \in Mirror : ~Excuses(saver[s], m)
      BY <1>4 DEF Excuses
    <2> QED
      BY <1>2, <1>4, <2>1, SaverOnly
  <1>5. CASE ApiApprove(s)
    <2>1. PICK q : q = [saver[s] EXCEPT !.pc = "operated"]
      OBVIOUS
    <2>2. q \in Saving /\ q.pc = "operated"
      BY <1>1, <2>1, NextPc DEF PC
    <2>3. q \in Saving /\ q.pc = "operated" /\ saver' = [saver EXCEPT ![s] = q]
      BY <1>5, <2>1, <2>2, Zenon DEF ApiApprove, Goes, Becomes
    <2>4. saver'[s] = q /\ SaverInv(saver[s])'
      BY <1>1, <2>3 DEF SaverInv
    <2>5. source'.status # "workflow_abort" /\ saver[s].pc = "idle"
      BY <1>3, <1>5 DEF ApiApprove, SyncTypeOK, Resting
    <2> QED
      BY <1>4, <1>5, <2>3, <2>4, <2>5 DEF ApiApprove
  <1>6. CASE ApiSaveApproved(s) \/ Resave(s)
    <2>1. PICK q : q = [saver[s] EXCEPT !.pc = "approved"]
      OBVIOUS
    <2>2. q \in Saving /\ q.pc = "approved"
      BY <1>1, <2>1, NextPc DEF PC
    <2>3. q \in Saving /\ q.pc = "approved" /\ saver' = [saver EXCEPT ![s] = q]
      BY <1>6, <2>1, <2>2, Zenon DEF ApiSaveApproved, Resave, Goes, Becomes
    <2>4. saver'[s] = q /\ SaverInv(saver[s])'
      BY <1>1, <2>3 DEF SaverInv
    <2>5. saver[s].pc \in {"operated", "holding"} /\ ~Ending(saver[s])
      BY <1>6 DEF ApiSaveApproved, Resave, Ending
    <2>6. source'.status = "workflow_abort" =>
              source'.audit \in {"ABORTED", "REJECTED"} /\ Syncing = {}
      BY <1>3, <1>6, <2>5 DEF ApiSaveApproved, Resave, SyncTypeOK
    <2> QED
      BY <1>4, <1>6, <2>3, <2>4, <2>5, <2>6 DEF ApiSaveApproved, Resave
  <1>7. CASE Judge(s)
    <2>1. saver[s].pc = "approved" /\ ~Ending(saver[s])
      BY <1>7 DEF Judge, Ending
    <2>2. source' = source /\ UNCHANGED <<mirror, hist>>
      BY <1>7 DEF Judge
    <2>3. CASE source.audit = "PASSED"
      <3>1. PICK q : q = [saver[s] EXCEPT !.pc = "judged"]
        OBVIOUS
      <3>2. q \in Saving /\ q.pc = "judged"
        BY <1>1, <3>1, NextPc DEF PC
      <3>3. q \in Saving /\ q.pc = "judged" /\ saver' = [saver EXCEPT ![s] = q]
        BY <1>7, <2>3, <3>1, <3>2, Zenon DEF Judge, Goes, Becomes
      <3>4. saver'[s] = q /\ SaverInv(saver[s])'
        BY <1>1, <2>2, <2>3, <3>3 DEF SaverInv
      <3> QED
        BY <1>3, <1>4, <2>1, <2>2, <3>3, <3>4
    <2>4. CASE source.audit # "PASSED"
      <3>1. saver' = [saver EXCEPT ![s] = Resting] /\ Resting \in Saving /\ Resting.pc = "idle"
        BY <1>1, <1>7, <2>4, SaverRows DEF Judge, Rests, Becomes, PC, Resting
      <3>2. saver'[s] = Resting /\ SaverInv(saver[s])'
        BY <1>1, <3>1 DEF SaverInv
      <3> QED
        BY <1>3, <1>4, <2>1, <2>2, <3>1, <3>2
    <2> QED
      BY <2>3, <2>4
  <1>8. CASE ApiCancel(s)
    <2>1. PICK q : q = [saver[s] EXCEPT !.pc = "aborting"]
      OBVIOUS
    <2>2. q \in Saving /\ q.pc = "aborting"
      BY <1>1, <2>1, NextPc DEF PC
    <2>3. q \in Saving /\ q.pc = "aborting" /\ saver' = [saver EXCEPT ![s] = q]
      BY <1>8, <2>1, <2>2, Zenon DEF ApiCancel, Goes, Becomes
    <2>4. source'.audit = "ABORTED" /\ source'.status = source.status
      BY <1>8 DEF ApiCancel, SyncTypeOK
    <2>5. saver'[s] = q /\ SaverInv(saver[s])'
      BY <1>1, <2>3, <2>4 DEF SaverInv
    <2>6. saver[s].pc = "idle" /\ ~Ending(saver[s])
      BY <1>8 DEF ApiCancel, Resting, Ending
    <2> QED
      BY <1>3, <1>4, <1>8, <2>3, <2>4, <2>5, <2>6 DEF ApiCancel
  <1>9. CASE ApiSaveAborted(s)
    <2>1. PICK q : q = [saver[s] EXCEPT !.pc = "ended", !.status = "workflow_abort"]
      OBVIOUS
    <2>2. "ended" \in PC
      BY DEF PC
    <2>3. q \in Saving /\ q.pc = "ended"
      BY <1>1, <2>1, <2>2, NextStatus, Zenon
    <2>4. q \in Saving /\ q.pc = "ended" /\ saver' = [saver EXCEPT ![s] = q]
      BY <1>9, <2>1, <2>3, Zenon DEF ApiSaveAborted, Becomes
    <2>5. saver'[s] = q /\ SaverInv(saver[s])' /\ Ending(saver[s])'
      BY <1>1, <2>4 DEF SaverInv, Ending
    <2>6. saver[s].pc = "aborting" /\ source'.audit = "ABORTED"
      BY <1>1, <1>9 DEF ApiSaveAborted, SaverInv, SyncTypeOK
    <2> QED
      BY <1>4, <1>9, <2>4, <2>5, <2>6 DEF ApiSaveAborted
  <1>10. CASE SourceFail(s)
    <2>1. PICK q : q = [saver[s] EXCEPT !.pc = "ended", !.status = "workflow_exception"]
      OBVIOUS
    <2>2. "ended" \in PC
      BY DEF PC
    <2>3. q \in Saving /\ q.pc = "ended"
      BY <1>1, <2>1, <2>2, NextStatus, Zenon
    <2>4. q \in Saving /\ q.pc = "ended" /\ saver' = [saver EXCEPT ![s] = q]
      BY <1>10, <2>1, <2>3, Zenon DEF SourceFail, Becomes
    <2>5. saver'[s] = q /\ SaverInv(saver[s])'
      BY <1>1, <2>4 DEF SaverInv
    <2>6. saver[s].pc = "idle" /\ source'.status # "workflow_abort"
      BY <1>10 DEF SourceFail, SyncTypeOK, Resting
    <2> QED
      BY <1>4, <1>10, <2>4, <2>5, <2>6 DEF SourceFail
  <1>11. CASE Cascade(s)
    <2>1. saver[s].pc = "ended" /\ source' = source /\ UNCHANGED <<mirror, hist>>
      BY <1>11 DEF Cascade
    <2>2. CASE Syncing = {}
      <3>1. saver' = [saver EXCEPT ![s] = Resting] /\ Resting \in Saving /\ Resting.pc = "idle"
        BY <1>1, <1>11, <2>2, SaverRows DEF Cascade, Rests, Becomes, PC, Resting
      <3>2. saver'[s] = Resting /\ SaverInv(saver[s])'
        BY <1>1, <3>1 DEF SaverInv
      <3> QED
        BY <1>3, <1>4, <2>1, <2>2, <3>1, <3>2
    <2>3. CASE Syncing # {}
      <3>1. Syncing \in SUBSET (Mirror \X Alter) /\ Syncing' = Syncing
        BY <2>1 DEF Syncing
      <3>2. PICK p, q : /\ p = [saver[s] EXCEPT !.pc = "cascading"]
                        /\ q = [p EXCEPT !.todo = Syncing]
        OBVIOUS
      <3>3. q \in Saving /\ q.pc = "cascading" /\ q.todo = Syncing
        <4>1. "cascading" \in PC
          BY DEF PC
        <4>2. q \in Saving
          BY <1>1, <3>1, <3>2, <4>1, NextTodo
        <4>3. q.pc = "cascading"
          BY <1>1, <3>1, <3>2, <4>1, NextTodo
        <4>4. q.todo = Syncing
          BY <1>1, <3>1, <3>2, <4>1, NextTodo
        <4> QED
          BY <4>2, <4>3, <4>4
      <3>8. saver' = [saver EXCEPT ![s] = q]
        BY <1>11, <2>3, <3>2 DEF Cascade, Becomes
      <3>4. \A x \in Syncing : hist'[x[1]][x[2]] = "syncing"
        BY <2>1 DEF Syncing
      <3>5. saver'[s] = q
        BY <1>1, <3>8
      <3>6. SaverInv(saver[s])'
        BY <2>3, <3>3, <3>4, <3>5 DEF SaverInv
      <3>7. Ending(saver[s])'
        BY <3>1, <3>3, <3>5 DEF Ending
      <3> QED
        BY <1>3, <1>4, <2>1, <3>3, <3>6, <3>7, <3>8
    <2> QED
      BY <2>2, <2>3
  <1> QED
    BY <1>5, <1>6, <1>7, <1>8, <1>9, <1>10, <1>11

\* A request loads the approved workflow, whoever is at work.
LEMMA HoldTurns ==
    ASSUME SyncTypeOK, Turns, unstored \subseteq unstored', NEW s \in Saver, Hold(s)
    PROVE  Turns' /\ RowsKept
  <1>1. PICK q : q = [saver[s] EXCEPT !.pc = "holding"]
    OBVIOUS
  <1>2. /\ saver' = [saver EXCEPT ![s] = q] /\ saver[s].pc = "idle"
        /\ UNCHANGED <<source, mirror, hist>>
    BY <1>1 DEF Hold, Goes, Becomes, Resting
  <1>3. q.pc = "holding" /\ saver'[s] = q
    BY <1>1, <1>2 DEF SyncTypeOK, Saving
  <1>4. \A t \in Saver : t # s => saver'[t] = saver[t]
    BY <1>2 DEF SyncTypeOK
  <1>5. /\ ~Ending(saver[s]) /\ \A m \in Mirror : ~Excuses(saver[s], m)
    BY <1>2, RestInv
  <1>6. OneAtWork'
    BY <1>2, <1>3, <1>4 DEF Turns, OneAtWork, Working, Hooked
  <1>7. \A m \in Mirror : RowsInv(m)'
    BY <1>2 DEF Turns, RowsInv, Outcome
  <1>8. ASSUME NEW m \in Mirror
        PROVE  Agrees(m)' \/ mirror'[m].run = "saved" \/ \E t \in Saver : Excuses(saver[t], m)'
    <2>1. (Agrees(m) => Agrees(m)') /\ mirror'[m] = mirror[m]
      BY <1>2 DEF Agrees, Open, Syncs
    <2>2. \A t \in Saver : Excuses(saver[t], m) => t # s /\ Excuses(saver[t], m)'
      BY <1>4, <1>5 DEF Excuses
    <2> QED
      BY <2>1, <2>2 DEF Turns
  <1>9. ASSUME NEW t \in Saver PROVE SaverInv(saver[t])'
    <2>1. CASE t = s
      BY <1>3, <2>1 DEF SaverInv
    <2>2. CASE t # s
      <3>1. SaverInv(saver[t]) /\ saver'[t] = saver[t]
        BY <1>4, <2>2 DEF Turns
      <3> QED
        BY <1>2, <3>1 DEF SaverInv, Open
    <2> QED
      BY <2>1, <2>2
  <1>10. Withdrawn'
    <2>1. Syncing' = Syncing
      BY <1>2 DEF Syncing
    <2>2. \A t \in Saver : Ending(saver[t]) => t # s /\ Ending(saver[t])'
      BY <1>4, <1>5, <2>1 DEF Ending
    <2> QED
      BY <1>2, <2>1, <2>2 DEF Turns, Withdrawn
  <1> QED
    BY <1>2, <1>6, <1>7, <1>8, <1>9, <1>10 DEF Turns, RowsKept

\* What the step does not write stays as it was.
LEMMA OtherMirrors ==
    ASSUME Turns, unstored \subseteq unstored',
           NEW n \in Mirror, mirror'[n] = mirror[n], hist'[n] = hist[n]
    PROVE  RowsInv(n)' /\ (Agrees(n) => Agrees(n)')
  <1>1. RowsInv(n)
    BY DEF Turns
  <1>2. RowsInv(n)'
    BY <1>1 DEF RowsInv, Outcome
  <1>3. Agrees(n) => Agrees(n)'
    BY DEF Agrees, Open, Syncs
  <1> QED
    BY <1>2, <1>3

SharedResult(h) ==
    \A a, b \in Alter : h[a] # "none" /\ h[b] # "none" => h[a] = h[b]

\* The handler of mirrors gives the rows of one mirror their result, and
\* nothing else.
LEMMA RecordedKeeps ==
    ASSUME SyncTypeOK, NEW m \in Mirror, NEW status \in Ends, SharedResult(hist[m]),
           hist' = Recorded(hist, m, status)
    PROVE  /\ \A n \in Mirror : n # m => hist'[n] = hist[n]
           /\ \A a \in Alter : hist'[m][a] = IF hist[m][a] = "syncing" THEN SyncStatus(status)
                                             ELSE hist[m][a]
           /\ SyncStatus(status) \notin {"none", "syncing"}
           /\ ~Syncs(m)' /\ SharedResult(hist'[m]) /\ Syncing' \subseteq Syncing /\ RowsKept
  <1> DEFINE row == [a \in Alter |-> IF hist[m][a] = "syncing" THEN SyncStatus(status)
                                     ELSE hist[m][a]]
  <1>1. hist' = [hist EXCEPT ![m] = row]
    BY DEF Recorded, SyncTypeOK
  <1>2. SyncStatus(status) \notin {"none", "syncing"}
    BY SyncStatusValue DEF Ends
  <1>3. \A a \in Alter : row[a] = IF hist[m][a] = "syncing" THEN SyncStatus(status) ELSE hist[m][a]
    OBVIOUS
  <1> HIDE DEF row
  <1>4. hist'[m] = row /\ \A n \in Mirror : n # m => hist'[n] = hist[n]
    BY <1>1 DEF SyncTypeOK
  <1>5. ~Syncs(m)'
    BY <1>2, <1>3, <1>4 DEF Syncs
  <1>6. SharedResult(hist'[m])
    BY <1>2, <1>3, <1>4 DEF SharedResult
  <1>7. \A n \in Mirror, a \in Alter :
            hist'[n][a] = hist[n][a] \/ (hist[n][a] = "syncing" /\ hist'[n][a] # "syncing")
    BY <1>2, <1>3, <1>4
  <1>8. Syncing' \subseteq Syncing
    BY <1>7 DEF Syncing
  <1>9. RowsKept
    BY <1>7 DEF RowsKept
  <1> QED
    BY <1>2, <1>3, <1>4, <1>5, <1>6, <1>8, <1>9

LEMMA EndedFields ==
    ASSUME NEW r \in MirrorRow, NEW status \in {"workflow_abort", "workflow_exception"},
           NEW q, q = Ended(r, status)
    PROVE  q.status = status /\ q.audit \in {"NONE", "ABORTED"} /\ q.run = r.run /\ q # NoMirror
  <1>1. r = [status |-> r.status, audit |-> r.audit, run |-> r.run, ok |-> r.ok]
    BY RowFields
  <1>2. q = [status |-> status, audit |-> IF r.audit = "NONE" THEN "NONE" ELSE "ABORTED",
             run |-> r.run, ok |-> r.ok]
    BY <1>1 DEF Ended
  <1>3. q.status = status /\ q.audit \in {"NONE", "ABORTED"} /\ q.run = r.run
    BY <1>2
  <1> QED
    BY <1>3 DEF NoMirror

LEMMA ClosedFields ==
    ASSUME NEW r \in MirrorRow, NEW m, NEW status, NEW q, q = Closed(r, m, status)
    PROVE  q.status = r.status /\ q.run = r.run /\ q.ok = r.ok /\ q.audit \in {r.audit, "ABORTED"}
  <1>1. r = [status |-> r.status, audit |-> r.audit, run |-> r.run, ok |-> r.ok]
    BY RowFields
  <1>2. \/ q = r
        \/ q = [status |-> r.status, audit |-> "ABORTED", run |-> r.run, ok |-> r.ok]
    BY <1>1 DEF Closed
  <1> QED
    BY <1>2

OpenStatus == {"workflow_manreviewing", "workflow_review_pass", "workflow_executing"}

\* The mirror is made, and its rows are owed.
LEMMA CreateTurns ==
    ASSUME SyncTypeOK, Turns, unstored \subseteq unstored', NEW s \in Saver, Create(s)
    PROVE  Turns' /\ RowsKept
  <1>1. saver \in [Saver -> Saving] /\ saver[s] \in Saving /\ SaverInv(saver[s])
    BY DEF SyncTypeOK, Turns
  <1>2. Working(s) /\ saver[s].pc = "judged" /\ UNCHANGED <<source, hist>>
    BY DEF Create, Working
  <1>3. source.audit = "PASSED"
    BY <1>1, <1>2 DEF SaverInv
  <1>4. /\ Alone(s) /\ source.status # "workflow_abort"
        /\ \A n \in Mirror : Agrees(n) \/ Excuses(saver[s], n)
    BY <1>2, <1>3, AloneFacts
  <1>5. \A n \in Mirror : ~Excuses(saver[s], n)
    BY <1>2 DEF Excuses
  <1>6. CASE Rests(s) /\ UNCHANGED mirror
    <2>1. saver' = [saver EXCEPT ![s] = Resting] /\ Resting \in Saving /\ Resting.pc = "idle"
      BY <1>1, <1>6, SaverRows DEF Rests, Becomes, PC, Resting
    <2>2. saver'[s] = Resting /\ SaverInv(saver[s])'
      BY <1>1, <2>1 DEF SaverInv
    <2> QED
      BY <1>2, <1>4, <1>5, <1>6, <2>1, <2>2, SaverOnly
  <1>7. CASE \E m \in Mirror, kept \in (SUBSET Alter) \ {{}}, audit \in NewAudit :
                /\ Fresh(m)
                /\ mirror' = Created(m, audit)
                /\ Becomes(s, [saver[s] EXCEPT !.pc = "created", !.todo = {m} \X kept])
    <2>1. PICK m \in Mirror, kept \in (SUBSET Alter) \ {{}}, audit \in NewAudit :
                /\ Fresh(m)
                /\ mirror' = Created(m, audit)
                /\ Becomes(s, [saver[s] EXCEPT !.pc = "created", !.todo = {m} \X kept])
      BY <1>7
    <2>2. PICK todo : todo = {m} \X kept
      OBVIOUS
    <2>3. PICK p, q : p = [saver[s] EXCEPT !.pc = "created"] /\ q = [p EXCEPT !.todo = todo]
      OBVIOUS
    <2>4. todo \in SUBSET (Mirror \X Alter) /\ todo # {} /\ \A x \in todo : x[1] = m
      <3>1. PICK a \in kept : TRUE
        BY <2>1
      <3>2. <<m, a>> \in todo
        BY <2>2, <3>1
      <3>3. \A x \in todo : x[1] = m /\ x \in Mirror \X Alter
        BY <2>1, <2>2
      <3> QED
        BY <3>2, <3>3
    <2>5. "created" \in PC
      BY DEF PC
    <2>6. q \in Saving
      <3>1. saver[s] \in Saving /\ todo \in SUBSET (Mirror \X Alter)
        BY <1>1, <2>4
      <3> QED
        BY <2>3, <2>5, <3>1, NextTodo
    <2>7. q.pc = "created"
      BY <1>1, <2>3, <2>4, <2>5, NextTodo
    <2>8. q.todo = todo
      BY <1>1, <2>3, <2>4, <2>5, NextTodo
    <2>9. saver' = [saver EXCEPT ![s] = q]
      BY <2>1, <2>2, <2>3 DEF Becomes
    <2>10. saver'[s] = q
      BY <1>1, <2>9
    <2>11. /\ mirror'[m] = [status |-> "workflow_manreviewing", audit |-> audit,
                            run |-> "no", ok |-> FALSE]
           /\ mirror[m] = NoMirror
           /\ \A n \in Mirror : n # m => mirror'[n] = mirror[n]
      BY <2>1 DEF Created, Fresh, SyncTypeOK
    <2>12. /\ mirror'[m].status = "workflow_manreviewing" /\ mirror'[m].run = "no"
           /\ mirror[m].run = "no" /\ mirror'[m] # NoMirror
      BY <2>11 DEF NoMirror
    <2>13. \A a \in Alter : hist[m][a] = "none" /\ hist'[m][a] = "none"
      BY <1>2, <2>11 DEF Turns, RowsInv
    <2>14. RowsInv(m)'
      BY <2>12, <2>13 DEF RowsInv
    <2>15. Excuses(saver[s], m)'
      BY <2>4, <2>7, <2>8, <2>10 DEF Excuses
    <2>16. SaverInv(saver[s])'
      <3>1. Open(m)'
        BY <2>12 DEF Open
      <3> QED
        BY <1>2, <1>3, <2>4, <2>7, <2>8, <2>10, <2>13, <3>1 DEF SaverInv
    <2>17. \A n \in Mirror : n # m => RowsInv(n)' /\ (Agrees(n) => Agrees(n)')
      BY <1>2, <2>11, OtherMirrors
    <2>18. \A n \in Mirror : mirror'[n].run = mirror[n].run
      BY <2>11, <2>12
    <2>19. \A n \in Mirror : RowsInv(n)' /\ (Agrees(n)' \/ Excuses(saver[s], n)')
      BY <1>4, <1>5, <2>14, <2>15, <2>17
    <2>20. Turns'
      BY <1>2, <1>4, <2>6, <2>9, <2>16, <2>18, <2>19, SaverTurn
    <2> QED
      BY <1>2, <2>20 DEF RowsKept
  <1> QED
    BY <1>6, <1>7 DEF Create

\* The rows of the mirror, one after the other.
LEMMA WriteRowTurns ==
    ASSUME SyncTypeOK, Turns, unstored \subseteq unstored', NEW s \in Saver, WriteRow(s)
    PROVE  Turns' /\ RowsKept
  <1>1. saver \in [Saver -> Saving] /\ saver[s] \in Saving /\ SaverInv(saver[s])
    BY DEF SyncTypeOK, Turns
  <1>2. Working(s) /\ saver[s].pc = "created" /\ UNCHANGED <<source, mirror>>
    BY DEF WriteRow, Working
  <1>3. PICK x \in saver[s].todo :
            /\ hist' = [hist EXCEPT ![x[1]][x[2]] = "syncing"]
            /\ IF saver[s].todo = {x} THEN Rests(s)
               ELSE Becomes(s, [saver[s] EXCEPT !.todo = saver[s].todo \ {x}])
    BY DEF WriteRow
  <1>4. PICK m \in Mirror : /\ \A y \in saver[s].todo : y[1] = m
                            /\ Open(m)
                            /\ \A a \in Alter : hist[m][a] \in {"none", "syncing"}
    BY <1>1, <1>2 DEF SaverInv
  <1>5. source.audit = "PASSED"
    BY <1>1, <1>2 DEF SaverInv
  <1>6. /\ Alone(s) /\ source.status # "workflow_abort"
        /\ \A n \in Mirror : Agrees(n) \/ Excuses(saver[s], n)
    BY <1>2, <1>5, AloneFacts
  <1>7. x[1] = m /\ x[2] \in Alter /\ saver[s].todo \in SUBSET (Mirror \X Alter)
    BY <1>1, <1>4 DEF Saving
  <1>8. /\ hist'[m][x[2]] = "syncing" /\ \A a \in Alter : a # x[2] => hist'[m][a] = hist[m][a]
        /\ \A n \in Mirror : n # m => hist'[n] = hist[n]
    BY <1>3, <1>7 DEF SyncTypeOK
  <1>9. \A a \in Alter : hist'[m][a] \in {"none", "syncing"}
    BY <1>4, <1>8
  <1>10. mirror[m] # NoMirror
    BY <1>4 DEF Open, NoMirror
  <1>11. RowsInv(m)'
    BY <1>2, <1>9, <1>10 DEF Turns, RowsInv, Outcome
  <1>12. \A n \in Mirror : n # m => RowsInv(n)' /\ (Agrees(n) => Agrees(n)') /\ ~Excuses(saver[s], n)
    BY <1>2, <1>4, <1>8, OtherMirrors DEF Excuses
  <1>13. Open(m)' /\ Syncs(m)' /\ Agrees(m)'
    BY <1>2, <1>4, <1>7, <1>8 DEF Open, Syncs, Agrees
  <1>14. \A n \in Mirror : RowsInv(n)' /\ Agrees(n)'
    BY <1>6, <1>11, <1>12, <1>13
  <1>15. RowsKept
    BY <1>4, <1>8 DEF RowsKept
  <1>16. CASE saver[s].todo = {x}
    <2>1. saver' = [saver EXCEPT ![s] = Resting] /\ Resting \in Saving /\ Resting.pc = "idle"
      BY <1>1, <1>3, <1>16, SaverRows DEF Rests, Becomes, PC, Resting
    <2>2. saver'[s] = Resting /\ SaverInv(saver[s])'
      BY <1>1, <2>1 DEF SaverInv
    <2> QED
      BY <1>2, <1>6, <1>14, <1>15, <2>1, <2>2, SaverTurn
  <1>17. CASE saver[s].todo # {x}
    <2>1. PICK todo : todo = saver[s].todo \ {x}
      OBVIOUS
    <2>2. PICK q : q = [saver[s] EXCEPT !.todo = todo]
      OBVIOUS
    <2>3. saver' = [saver EXCEPT ![s] = q]
      BY <1>3, <1>17, <2>1, <2>2 DEF Becomes
    <2>4. todo \in SUBSET (Mirror \X Alter) /\ todo # {} /\ \A y \in todo : y[1] = m
      BY <1>3, <1>4, <1>7, <1>17, <2>1
    <2>5. q \in Saving
      <3>1. "created" \in PC
        BY DEF PC
      <3> QED
        BY <1>1, <2>2, <2>4, <3>1, SaverRows
    <2>6. q.pc = "created" /\ q.todo = todo
      BY <1>1, <1>2, <2>2 DEF Saving
    <2>7. saver'[s] = q
      BY <1>1, <2>3
    <2>8. SaverInv(saver[s])'
      BY <1>2, <1>5, <1>9, <1>13, <2>4, <2>6, <2>7 DEF SaverInv
    <2> QED
      BY <1>2, <1>6, <1>14, <1>15, <2>3, <2>5, <2>8, SaverTurn
  <1> QED
    BY <1>16, <1>17

\* The mirror of the row a cascade is at, ended with the rows it still follows.
LEMMA CascadeTargetTurns ==
    ASSUME SyncInv, SyncTypeOK, Turns, unstored \subseteq unstored', NEW s \in Saver, CascadeTarget(s)
    PROVE  Turns' /\ RowsKept
  <1>1. saver \in [Saver -> Saving] /\ saver[s] \in Saving /\ SaverInv(saver[s])
    BY DEF SyncTypeOK, Turns
  <1>2. PICK x : x = Head(saver[s])
    OBVIOUS
  <1>3. PICK r : r = Ended(mirror[x[1]], saver[s].status)
    OBVIOUS
  <1>4. PICK q : q = [saver[s] EXCEPT !.pc = "row"]
    OBVIOUS
  <1>5. /\ Working(s) /\ saver[s].pc = "cascading" /\ source' = source
        /\ mirror' = [mirror EXCEPT ![x[1]] = r]
        /\ hist' = Recorded(hist, x[1], saver[s].status)
        /\ saver' = [saver EXCEPT ![s] = q]
    BY <1>2, <1>3, <1>4 DEF CascadeTarget, Working, Head, Goes, Becomes
  <1>6. /\ saver[s].todo # {} /\ saver[s].todo \in SUBSET (Mirror \X Alter)
        /\ \A y \in saver[s].todo : hist[y[1]][y[2]] \in {"syncing", Final(saver[s])}
    BY <1>1, <1>5 DEF SaverInv, Saving
  <1>7. x \in saver[s].todo /\ x[1] \in Mirror /\ x[2] \in Alter
    BY <1>2, <1>6 DEF Head
  <1>8. saver[s].status \in {"workflow_abort", "workflow_exception"}
    BY <1>5 DEF SyncInv, SaverKnown
  <1>9. /\ Alone(s) /\ \A n \in Mirror : Agrees(n) \/ Excuses(saver[s], n)
        /\ source.status = "workflow_abort" =>
              source.audit \in {"ABORTED", "REJECTED"} /\ Syncing \subseteq saver[s].todo
    BY <1>5, AloneFacts DEF Ending
  <1>10. q \in Saving /\ q.pc = "row" /\ q.todo = saver[s].todo /\ q.status = saver[s].status
    BY <1>1, <1>4, NextPc DEF PC
  <1>11. saver'[s] = q
    BY <1>1, <1>5
  <1>12. mirror[x[1]] \in MirrorRow
    BY <1>7 DEF SyncTypeOK
  <1>13. /\ r.status = saver[s].status /\ r.audit \in {"NONE", "ABORTED"}
         /\ r.run = mirror[x[1]].run /\ r # NoMirror
    BY <1>3, <1>8, <1>12, EndedFields
  <1>14. SharedResult(hist[x[1]])
    BY <1>7 DEF Turns, RowsInv, SharedResult
  <1>15. saver[s].status \in Ends
    BY <1>8 DEF Ends
  <1>16. /\ \A n \in Mirror : n # x[1] => hist'[n] = hist[n]
         /\ \A a \in Alter : hist'[x[1]][a] = IF hist[x[1]][a] = "syncing"
                                              THEN Final(saver[s]) ELSE hist[x[1]][a]
         /\ Final(saver[s]) \notin {"none", "syncing"}
         /\ ~Syncs(x[1])' /\ SharedResult(hist'[x[1]]) /\ Syncing' \subseteq Syncing /\ RowsKept
    BY <1>5, <1>7, <1>14, <1>15, RecordedKeeps DEF Final
  <1>17. mirror'[x[1]] = r /\ \A n \in Mirror : n # x[1] => mirror'[n] = mirror[n]
    BY <1>5, <1>7 DEF SyncTypeOK
  <1>18. ~Hooked(x[1])
    BY <1>7, <1>9 DEF Alone
  <1>19. RowsInv(x[1])'
    BY <1>13, <1>16, <1>17, <1>18 DEF RowsInv, SharedResult, Hooked
  <1>20. ~Open(x[1])' /\ Agrees(x[1])'
    BY <1>8, <1>13, <1>16, <1>17 DEF Open, Agrees
  <1>21. \A n \in Mirror : n # x[1] => RowsInv(n)' /\ (Agrees(n) => Agrees(n)') /\ ~Excuses(saver[s], n)
    BY <1>5, <1>16, <1>17, OtherMirrors DEF Excuses
  <1>22. \A n \in Mirror : RowsInv(n)' /\ Agrees(n)'
    BY <1>9, <1>19, <1>20, <1>21
  <1>23. \A n \in Mirror : mirror'[n].run = mirror[n].run
    BY <1>13, <1>17
  <1>24. Final(q) = Final(saver[s]) /\ Head(q) = x
    BY <1>2, <1>10 DEF Final, Head
  <1>25. \A y \in q.todo : hist'[y[1]][y[2]] \in {"syncing", Final(q)}
    <2> SUFFICES ASSUME NEW y \in q.todo PROVE hist'[y[1]][y[2]] \in {"syncing", Final(q)}
      OBVIOUS
    <2>1. y[1] \in Mirror /\ y[2] \in Alter /\ hist[y[1]][y[2]] \in {"syncing", Final(q)}
      BY <1>6, <1>10, <1>24
    <2> QED
      BY <1>16, <1>24, <2>1
  <1>26. hist'[x[1]][x[2]] = Final(q)
    BY <1>6, <1>7, <1>16, <1>24
  <1>27. SaverInv(saver[s])'
    <2>1. Head(q)' = Head(q) /\ Final(q)' = Final(q)
      BY DEF Head, Final, SyncStatus
    <2> QED
      BY <1>6, <1>10, <1>11, <1>24, <1>25, <1>26, <2>1 DEF SaverInv
  <1>28. source'.status = "workflow_abort" =>
              source'.audit \in {"ABORTED", "REJECTED"} /\ Ending(saver[s])'
    BY <1>5, <1>9, <1>10, <1>11, <1>16 DEF Ending
  <1> QED
    BY <1>5, <1>9, <1>10, <1>16, <1>22, <1>23, <1>27, <1>28, SaverTurn

\* The row itself, which by then says what is written.
LEMMA CascadeRowTurns ==
    ASSUME SyncInv, SyncTypeOK, Turns, unstored \subseteq unstored', NEW s \in Saver, CascadeRow(s)
    PROVE  Turns' /\ RowsKept
  <1>1. saver \in [Saver -> Saving] /\ saver[s] \in Saving /\ SaverInv(saver[s])
    BY DEF SyncTypeOK, Turns
  <1>2. PICK x : x = Head(saver[s])
    OBVIOUS
  <1>3. /\ Working(s) /\ saver[s].pc = "row" /\ UNCHANGED <<source, mirror>>
        /\ hist' = [hist EXCEPT ![x[1]][x[2]] = Final(saver[s])]
        /\ IF saver[s].todo = {x} THEN Rests(s)
           ELSE Becomes(s, [saver[s] EXCEPT !.pc = "cascading", !.todo = saver[s].todo \ {x}])
    BY <1>2 DEF CascadeRow, Working, Head, Final
  <1>4. /\ saver[s].todo # {} /\ saver[s].todo \in SUBSET (Mirror \X Alter)
        /\ \A y \in saver[s].todo : hist[y[1]][y[2]] \in {"syncing", Final(saver[s])}
        /\ hist[x[1]][x[2]] = Final(saver[s])
    BY <1>1, <1>2, <1>3 DEF SaverInv, Saving
  <1>5. x \in saver[s].todo /\ x[1] \in Mirror /\ x[2] \in Alter
    BY <1>2, <1>4 DEF Head
  <1>6. hist' = hist
    BY <1>3, <1>4, <1>5 DEF SyncTypeOK
  <1>7. Final(saver[s]) # "syncing"
    <2>1. saver[s].status \in {"workflow_abort", "workflow_exception"}
      BY <1>3 DEF SyncInv, SaverKnown
    <2> QED
      BY <2>1, SyncStatusValue DEF Final
  <1>8. x \notin Syncing /\ Syncing' = Syncing
    BY <1>4, <1>6, <1>7 DEF Syncing
  <1>9. source.status = "workflow_abort" =>
              source.audit \in {"ABORTED", "REJECTED"} /\ Syncing \subseteq saver[s].todo \ {x}
    BY <1>3, <1>8, AloneFacts DEF Ending
  <1>10. \A n \in Mirror : ~Excuses(saver[s], n)
    BY <1>3 DEF Excuses
  <1>11. CASE saver[s].todo = {x}
    <2>1. saver' = [saver EXCEPT ![s] = Resting] /\ Resting \in Saving /\ Resting.pc = "idle"
      BY <1>1, <1>3, <1>11, SaverRows DEF Rests, Becomes, PC, Resting
    <2>2. saver'[s] = Resting /\ SaverInv(saver[s])'
      BY <1>1, <2>1 DEF SaverInv
    <2>3. source.status = "workflow_abort" =>
              source.audit \in {"ABORTED", "REJECTED"} /\ Syncing = {}
      BY <1>9, <1>11
    <2> QED
      BY <1>3, <1>6, <1>10, <2>1, <2>2, <2>3, SaverOnly
  <1>12. CASE saver[s].todo # {x}
    <2>1. PICK todo : todo = saver[s].todo \ {x}
      OBVIOUS
    <2>2. PICK p, q : p = [saver[s] EXCEPT !.pc = "cascading"] /\ q = [p EXCEPT !.todo = todo]
      OBVIOUS
    <2>3. saver' = [saver EXCEPT ![s] = q]
      BY <1>3, <1>12, <2>1, <2>2 DEF Becomes
    <2>4. todo \in SUBSET (Mirror \X Alter) /\ todo # {}
      BY <1>4, <1>5, <1>12, <2>1
    <2>5. "cascading" \in PC
      BY DEF PC
    <2>6. saver[s] \in Saving /\ todo \in SUBSET (Mirror \X Alter)
      BY <1>1, <2>4
    <2>7. q \in Saving
      BY <2>2, <2>5, <2>6, NextTodo
    <2>8. q.pc = "cascading" /\ q.todo = todo
      BY <2>2, <2>5, <2>6, NextTodo
    <2>9. q.status = saver[s].status
      BY <2>2, <2>5, <2>6, NextTodo
    <2>10. saver'[s] = q
      BY <1>1, <2>3
    <2>11. Final(q) = Final(saver[s]) /\ Final(q)' = Final(q)
      BY <2>9 DEF Final, SyncStatus
    <2>12. \A y \in q.todo : hist'[y[1]][y[2]] \in {"syncing", Final(q)}
      BY <1>4, <1>6, <2>1, <2>8, <2>11
    <2>13. SaverInv(saver[s])'
      BY <2>4, <2>8, <2>10, <2>11, <2>12 DEF SaverInv
    <2>14. source'.status = "workflow_abort" =>
              source'.audit \in {"ABORTED", "REJECTED"} /\ Ending(saver[s])'
      BY <1>3, <1>8, <1>9, <2>1, <2>8, <2>10 DEF Ending
    <2> QED
      BY <1>3, <1>6, <1>10, <2>3, <2>7, <2>13, <2>14, SaverOnly
  <1> QED
    BY <1>11, <1>12

\* A step of saver s that writes the row of mirror m only, and leaves the rows
\* of the history.
LEMMA TargetTurn ==
    ASSUME SyncTypeOK, Turns, unstored \subseteq unstored', NEW s \in Saver, Working(s) \/ Quiet, NEW m \in Mirror,
           NEW r, NEW q \in Saving,
           mirror' = [mirror EXCEPT ![m] = r], saver' = [saver EXCEPT ![s] = q],
           UNCHANGED <<source, hist>>,
           r.run = mirror[m].run, r.status # "none", r.audit # "WAITING",
           \A n \in Mirror : n # m => ~Excuses(saver[s], n),
           Agrees(m)' \/ Excuses(saver[s], m)',
           SaverInv(saver[s])', ~Ending(saver[s])
    PROVE  Turns' /\ RowsKept
  <1>1. /\ Alone(s) /\ \A n \in Mirror : Agrees(n) \/ Excuses(saver[s], n)
        /\ source.status = "workflow_abort" =>
              source.audit \in {"ABORTED", "REJECTED"} /\ Syncing = {}
    BY AloneFacts
  <1>2. mirror'[m] = r /\ \A n \in Mirror : n # m => mirror'[n] = mirror[n]
    BY DEF SyncTypeOK
  <1>3. RowsInv(m)'
    <2>1. ~Hooked(m)
      BY <1>1 DEF Alone
    <2> QED
      BY <1>2, <2>1 DEF RowsInv, Turns, Hooked, NoMirror
  <1>4. \A n \in Mirror : n # m => RowsInv(n)' /\ Agrees(n)'
    BY <1>1, <1>2, OtherMirrors
  <1>5. \A n \in Mirror : RowsInv(n)' /\ (Agrees(n)' \/ Excuses(saver[s], n)')
    BY <1>3, <1>4
  <1>6. Syncing' = Syncing
    BY DEF Syncing
  <1>7. \A n \in Mirror : mirror'[n].run = mirror[n].run
    BY <1>2
  <1>8. source'.status = "workflow_abort" =>
              source'.audit \in {"ABORTED", "REJECTED"} /\ Syncing' = {}
    BY <1>1, <1>6
  <1> QED
    BY <1>1, <1>5, <1>7, <1>8, SaverTurn DEF RowsKept

\* The requests that save a mirror outside of a transaction, up to the save ...
LEMMA TargetBeginsTurns ==
    ASSUME SyncTypeOK, Turns, unstored \subseteq unstored', Quiet,
           NEW s \in Saver, NEW m \in Mirror,
           NEW status \in {"workflow_abort", "workflow_finish", "workflow_review_pass"},
           TargetBegins(s, m, status), NEW r, mirror' = [mirror EXCEPT ![m] = r],
           UNCHANGED <<source, hist>>,
           r.run = mirror[m].run, r.status = mirror[m].status, r.status # "none",
           r.audit # "WAITING", status = "workflow_review_pass" => Open(m)
    PROVE  Turns' /\ RowsKept
  <1>1. saver \in [Saver -> Saving] /\ saver[s] \in Saving
    BY DEF SyncTypeOK
  <1>2. PICK q : q = [saver[s] EXCEPT !.pc = "targetSaving", !.m = m, !.status = status]
    OBVIOUS
  <1>3. saver' = [saver EXCEPT ![s] = q] /\ saver[s].pc = "idle"
    BY <1>2 DEF TargetBegins, Becomes, Resting
  <1>4. "targetSaving" \in PC /\ status \in Saved
    BY DEF PC, Saved
  <1>5. q \in Saving /\ q.pc = "targetSaving" /\ q.m = m /\ q.status = status
    <2>1. q.pc = "targetSaving" /\ q.m = m /\ q.status = status
      BY <1>1, <1>2 DEF Saving
    <2>2. q \in Saving
      BY <1>1, <1>2, <1>4, SaverRows
    <2> QED
      BY <2>1, <2>2
  <1>6. saver'[s] = q /\ mirror'[m] = r
    BY <1>1, <1>3 DEF SyncTypeOK
  <1>7. /\ ~Ending(saver[s]) /\ \A n \in Mirror : ~Excuses(saver[s], n)
    BY <1>3, RestInv
  <1>8. Open(m)' <=> Open(m)
    BY <1>6 DEF Open
  <1>9. Agrees(m)'
    <2>1. Agrees(m)
      BY <1>7, AloneFacts
    <2> QED
      BY <1>8, <2>1 DEF Agrees, Syncs
  <1>10. SaverInv(saver[s])'
    BY <1>5, <1>6, <1>8 DEF SaverInv
  <1> QED
    BY <1>3, <1>5, <1>7, <1>9, <1>10, TargetTurn

LEMMA TargetRequestTurns ==
    ASSUME SyncTypeOK, Turns, unstored \subseteq unstored', Quiet,
           NEW s \in Saver, NEW m \in Mirror,
           TargetPass(s, m) \/ TargetCancel(s, m) \/ TargetVouch(s, m)
    PROVE  Turns' /\ RowsKept
  <1>1. /\ mirror[m] \in MirrorRow /\ RowsInv(m) /\ UNCHANGED <<source, hist>>
    BY DEF SyncTypeOK, Turns, TargetPass, TargetCancel, TargetVouch
  <1>2. mirror[m] = [status |-> mirror[m].status, audit |-> mirror[m].audit,
                     run |-> mirror[m].run, ok |-> mirror[m].ok]
    BY <1>1, RowFields
  \* The audit comes first.
  <1>3. ASSUME NEW audit \in {"PASSED", "ABORTED"}, NEW r, r = [mirror[m] EXCEPT !.audit = audit]
        PROVE  r.run = mirror[m].run /\ r.status = mirror[m].status /\ r.audit # "WAITING"
    <2>1. r = [status |-> mirror[m].status, audit |-> audit,
               run |-> mirror[m].run, ok |-> mirror[m].ok]
      BY <1>2, <1>3
    <2> QED
      BY <2>1
  <1>4. CASE TargetPass(s, m)
    <2>1. PICK r : r = [mirror[m] EXCEPT !.audit = "PASSED"]
      OBVIOUS
    <2>2. mirror' = [mirror EXCEPT ![m] = r] /\ TargetBegins(s, m, "workflow_review_pass")
      BY <1>4, <2>1 DEF TargetPass
    <2>3. mirror[m].status = "workflow_manreviewing" /\ Open(m)
      BY <1>1, <1>4 DEF TargetPass, RowsInv, Open
    <2>4. r.run = mirror[m].run /\ r.status = mirror[m].status /\ r.audit # "WAITING"
      BY <1>3, <2>1
    <2>5. r.status # "none"
      BY <2>3, <2>4
    <2> QED
      BY <1>1, <2>2, <2>3, <2>4, <2>5, TargetBeginsTurns
  <1>5. CASE TargetCancel(s, m)
    <2>1. PICK r : r = [mirror[m] EXCEPT !.audit = "ABORTED"]
      OBVIOUS
    <2>2. mirror' = [mirror EXCEPT ![m] = r] /\ TargetBegins(s, m, "workflow_abort")
      BY <1>5, <2>1 DEF TargetCancel
    <2>3. mirror[m].audit # "NONE"
      BY <1>5 DEF TargetCancel
    <2>4. r.run = mirror[m].run /\ r.status = mirror[m].status /\ r.audit # "WAITING"
      BY <1>3, <2>1
    <2>5. r.status # "none"
      BY <1>1, <2>3, <2>4, RowFields DEF NoMirror
    <2> QED
      BY <1>1, <2>2, <2>4, <2>5, TargetBeginsTurns
  <1>6. CASE TargetVouch(s, m)
    <2>1. PICK r : r = mirror[m]
      OBVIOUS
    <2>2. mirror' = [mirror EXCEPT ![m] = r] /\ TargetBegins(s, m, "workflow_finish")
      BY <1>6, <2>1 DEF TargetVouch, SyncTypeOK
    <2>3. mirror[m].status = "workflow_review_pass"
      BY <1>6 DEF TargetVouch
    <2>4. r.run = mirror[m].run /\ r.status = mirror[m].status /\ r.status # "none"
          /\ r.audit # "WAITING"
      BY <1>1, <2>1, <2>3 DEF RowsInv
    <2> QED
      BY <1>1, <2>2, <2>4, TargetBeginsTurns
  <1> QED
    BY <1>4, <1>5, <1>6

\* ... the save itself, and the rows.
LEMMA TargetSaveTurns ==
    ASSUME SyncInv, SyncTypeOK, Turns, unstored \subseteq unstored', NEW s \in Saver, TargetSave(s)
    PROVE  Turns' /\ RowsKept
  <1>1. saver \in [Saver -> Saving] /\ saver[s] \in Saving /\ SaverInv(saver[s])
    BY DEF SyncTypeOK, Turns
  <1>2. PICK m : m = saver[s].m
    OBVIOUS
  <1>3. PICK status : status = saver[s].status
    OBVIOUS
  <1>4. PICK r : r = [mirror[m] EXCEPT !.status = status]
    OBVIOUS
  <1>5. /\ mirror' = [mirror EXCEPT ![m] = r]
        /\ UNCHANGED <<source, hist>> /\ Working(s) /\ saver[s].pc = "targetSaving"
    BY <1>2, <1>3, <1>4 DEF TargetSave, Working
  <1>6. m \in Mirror /\ mirror[m].audit # "WAITING"
    BY <1>1, <1>2, <1>5 DEF SaverInv
  <1>7. status \in {"workflow_abort", "workflow_finish", "workflow_review_pass"}
    BY <1>3, <1>5 DEF SyncInv, SaverKnown
  <1>8. r.run = mirror[m].run /\ r.status = status /\ r.status # "none" /\ r.audit # "WAITING"
    <2>1. mirror[m] = [status |-> mirror[m].status, audit |-> mirror[m].audit,
                       run |-> mirror[m].run, ok |-> mirror[m].ok]
      BY <1>6, RowFields DEF SyncTypeOK
    <2>2. r = [status |-> status, audit |-> mirror[m].audit,
               run |-> mirror[m].run, ok |-> mirror[m].ok]
      BY <1>4, <2>1
    <2> QED
      BY <1>6, <1>7, <2>2
  <1>9. mirror'[m] = r
    BY <1>5, <1>6 DEF SyncTypeOK
  <1>10. /\ ~Ending(saver[s]) /\ \A n \in Mirror : ~Excuses(saver[s], n)
    BY <1>5 DEF Ending, Excuses
  <1>11. CASE status = "workflow_review_pass"
    <2>1. saver' = [saver EXCEPT ![s] = Resting] /\ Resting \in Saving /\ Resting.pc = "idle"
      BY <1>1, <1>3, <1>11, SaverRows DEF TargetSave, Rests, Becomes, PC, Resting
    <2>2. saver'[s] = Resting /\ SaverInv(saver[s])'
      BY <1>1, <2>1 DEF SaverInv
    <2>3. Open(m) /\ Open(m)'
      BY <1>1, <1>2, <1>3, <1>5, <1>8, <1>9, <1>11 DEF SaverInv, Open
    <2>4. Agrees(m)'
      <3>1. Agrees(m)
        BY <1>5, <1>6, <1>10, AloneFacts
      <3> QED
        BY <1>5, <2>3, <3>1 DEF Agrees, Syncs
    <2> QED
      BY <1>5, <1>6, <1>8, <1>10, <2>1, <2>2, <2>4, TargetTurn
  <1>12. CASE status # "workflow_review_pass"
    <2>1. PICK q : q = [saver[s] EXCEPT !.pc = "targetSaved"]
      OBVIOUS
    <2>2. saver' = [saver EXCEPT ![s] = q]
      BY <1>3, <1>12, <2>1 DEF TargetSave, Goes, Becomes
    <2>3. q \in Saving /\ q.pc = "targetSaved" /\ q.m = m /\ q.status = status
      BY <1>1, <1>2, <1>3, <2>1, NextPc DEF PC
    <2>4. saver'[s] = q
      BY <1>1, <2>2
    <2>5. Excuses(saver[s], m)'
      BY <2>3, <2>4 DEF Excuses
    <2>6. SaverInv(saver[s])'
      BY <1>6, <1>8, <1>9, <2>3, <2>4 DEF SaverInv
    <2> QED
      BY <1>5, <1>6, <1>8, <1>10, <2>2, <2>3, <2>5, <2>6, TargetTurn
  <1> QED
    BY <1>11, <1>12

LEMMA TargetRecordTurns ==
    ASSUME SyncInv, SyncTypeOK, Turns, unstored \subseteq unstored', NEW s \in Saver, TargetRecord(s)
    PROVE  Turns' /\ RowsKept
  <1>1. saver \in [Saver -> Saving] /\ saver[s] \in Saving /\ SaverInv(saver[s])
    BY DEF SyncTypeOK, Turns
  <1>2. PICK m : m = saver[s].m
    OBVIOUS
  <1>3. saver[s].status \in Ends
    BY DEF SyncInv, SaverKnown, TargetRecord, Ends
  <1>4. PICK status \in Ends : status = saver[s].status
    BY <1>3
  <1>5. PICK r : r = Closed(mirror[m], m, status)
    OBVIOUS
  <1>6. /\ mirror' = [mirror EXCEPT ![m] = r] /\ Rests(s) /\ source' = source
        /\ hist' = Recorded(hist, m, status)
        /\ Working(s) /\ saver[s].pc = "targetSaved"
    BY <1>2, <1>5, <1>4 DEF TargetRecord, Working
  <1>7. m \in Mirror /\ mirror[m].audit # "WAITING" /\ mirror[m].status = status
    BY <1>1, <1>2, <1>6, <1>4 DEF SaverInv
  <1>8. saver' = [saver EXCEPT ![s] = Resting] /\ Resting \in Saving /\ Resting.pc = "idle"
    BY <1>1, <1>6, SaverRows DEF Rests, Becomes, PC, Resting
  <1>9. saver'[s] = Resting /\ SaverInv(saver[s])'
    BY <1>1, <1>8 DEF SaverInv
  <1>10. r.run = mirror[m].run /\ r.status = status /\ r.audit # "WAITING"
    BY <1>5, <1>7, ClosedFields DEF SyncTypeOK
  <1>11. SharedResult(hist[m])
    BY <1>7 DEF Turns, RowsInv, SharedResult
  <1>12. /\ \A n \in Mirror : n # m => hist'[n] = hist[n]
         /\ ~Syncs(m)' /\ SharedResult(hist'[m]) /\ Syncing' \subseteq Syncing /\ RowsKept
    BY <1>6, <1>7, <1>11, RecordedKeeps
  <1>13. mirror'[m] = r /\ \A n \in Mirror : n # m => mirror'[n] = mirror[n]
    BY <1>6, <1>7 DEF SyncTypeOK
  <1>14. /\ Alone(s) /\ \A n \in Mirror : Agrees(n) \/ Excuses(saver[s], n)
         /\ source.status = "workflow_abort" =>
               source.audit \in {"ABORTED", "REJECTED"} /\ Syncing = {}
    BY <1>6, AloneFacts DEF Ending
  <1>15. RowsInv(m)'
    <2>1. ~Hooked(m)
      BY <1>7, <1>14 DEF Alone
    <2> QED
      BY <1>10, <1>12, <1>13, <2>1 DEF RowsInv, SharedResult, Hooked, NoMirror, Ends
  <1>16. Agrees(m)'
    BY <1>10, <1>12, <1>13 DEF Agrees, Open, Ends
  <1>17. \A n \in Mirror : n # m => RowsInv(n)' /\ (Agrees(n) => Agrees(n)') /\ ~Excuses(saver[s], n)
    BY <1>2, <1>6, <1>12, <1>13, OtherMirrors DEF Excuses
  <1>18. \A n \in Mirror : RowsInv(n)' /\ Agrees(n)'
    BY <1>14, <1>15, <1>16, <1>17
  <1>19. \A n \in Mirror : mirror'[n].run = mirror[n].run
    BY <1>10, <1>13
  <1>20. source'.status = "workflow_abort" =>
               source'.audit \in {"ABORTED", "REJECTED"} /\ Syncing' = {}
    BY <1>6, <1>12, <1>14
  <1> QED
    BY <1>8, <1>9, <1>12, <1>14, <1>18, <1>19, <1>20, SaverTurn

\* A step while every saver rests.
LEMMA RestTurn ==
    ASSUME \A s \in Saver : ~Working(s), saver' = saver,
           \A m, n \in Mirror : Hooked(m)' /\ Hooked(n)' => m = n,
           \A n \in Mirror : RowsInv(n)',
           \A n \in Mirror : Agrees(n)' \/ mirror'[n].run = "saved",
           source'.status = "workflow_abort" =>
               source'.audit \in {"ABORTED", "REJECTED"} /\ Syncing' = {}
    PROVE  Turns'
  <1>1. \A s \in Saver : saver'[s].pc \in {"idle", "holding"}
    BY DEF Working
  <1>2. OneAtWork'
    BY <1>1 DEF OneAtWork, Working
  <1>3. \A s \in Saver : SaverInv(saver[s])'
    BY <1>1 DEF SaverInv
  <1> QED
    BY <1>2, <1>3 DEF Turns, Withdrawn

\* The only hook at work, or none.
LEMMA HookFacts ==
    ASSUME Turns, NEW m \in Mirror, Hooked(m) \/ Quiet
    PROVE  /\ \A s \in Saver : ~Working(s)
           /\ \A n \in Mirror : n # m => ~Hooked(n) /\ Agrees(n)
           /\ Agrees(m) \/ mirror[m].run = "saved"
           /\ source.status = "workflow_abort" =>
                 source.audit \in {"ABORTED", "REJECTED"} /\ Syncing = {}
  <1>1. \A s \in Saver : ~Working(s)
    BY DEF Turns, OneAtWork, Quiet, Working
  <1>2. \A n \in Mirror : n # m => ~Hooked(n)
    BY DEF Turns, OneAtWork, Quiet, Hooked
  <1>3. \A s \in Saver : ~Ending(saver[s]) /\ \A n \in Mirror : ~Excuses(saver[s], n)
    BY <1>1, RestInv DEF Working
  <1>4. \A n \in Mirror : n # m => mirror[n].run # "saved"
    BY <1>2 DEF Hooked
  <1> QED
    BY <1>1, <1>2, <1>3, <1>4 DEF Turns, Withdrawn

LEMMA QuietFacts ==
    ASSUME Turns, Quiet
    PROVE  /\ \A s \in Saver : ~Working(s)
           /\ \A n \in Mirror : ~Hooked(n) /\ Agrees(n)
           /\ source.status = "workflow_abort" =>
                 source.audit \in {"ABORTED", "REJECTED"} /\ Syncing = {}
  <1>1. \A s \in Saver : ~Working(s)
    BY DEF Quiet, Working
  <1>2. \A n \in Mirror : ~Hooked(n)
    BY DEF Quiet, Hooked
  <1>3. \A s \in Saver : ~Ending(saver[s]) /\ \A n \in Mirror : ~Excuses(saver[s], n)
    BY <1>1, RestInv DEF Working
  <1>4. \A n \in Mirror : mirror[n].run # "saved"
    BY <1>2 DEF Hooked
  <1> QED
    BY <1>1, <1>2, <1>3, <1>4 DEF Turns, Withdrawn

\* The view passed: the mirror and its rows in one transaction.
LEMMA WebApproveTurns ==
    ASSUME SyncTypeOK, Turns, unstored \subseteq unstored', WebApprove, Quiet
    PROVE  Turns' /\ RowsKept
  <1>1. /\ source'.status = "workflow_review_pass" /\ saver' = saver
    BY DEF WebApprove
  <1>2. /\ \A s \in Saver : ~Working(s)
        /\ \A n \in Mirror : ~Hooked(n) /\ Agrees(n)
    BY QuietFacts
  <1>3. CASE UNCHANGED <<mirror, hist>>
    <2>1. \A n \in Mirror : RowsInv(n)' /\ (Agrees(n) => Agrees(n)')
      BY <1>3, OtherMirrors
    <2>2. \A n \in Mirror : ~Hooked(n)'
      BY <1>2, <1>3 DEF Hooked
    <2> QED
      BY <1>1, <1>2, <1>3, <2>1, <2>2, RestTurn DEF RowsKept
  <1>4. CASE \E m \in Mirror, kept \in (SUBSET Alter) \ {{}}, audit \in NewAudit :
                /\ Fresh(m)
                /\ mirror' = Created(m, audit)
                /\ hist' = [hist EXCEPT ![m] = [a \in Alter |-> IF a \in kept THEN "syncing" ELSE "none"]]
    <2>1. PICK m \in Mirror, kept \in (SUBSET Alter) \ {{}}, audit \in NewAudit :
                /\ Fresh(m)
                /\ mirror' = Created(m, audit)
                /\ hist' = [hist EXCEPT ![m] = [a \in Alter |-> IF a \in kept THEN "syncing" ELSE "none"]]
      BY <1>4
    <2>2. /\ mirror'[m] = [status |-> "workflow_manreviewing", audit |-> audit,
                           run |-> "no", ok |-> FALSE]
          /\ mirror[m] = NoMirror
          /\ \A n \in Mirror : n # m => mirror'[n] = mirror[n]
      BY <2>1 DEF Created, Fresh, SyncTypeOK
    <2>3. /\ mirror'[m].status = "workflow_manreviewing" /\ mirror'[m].run = "no"
          /\ mirror'[m] # NoMirror
      BY <2>2 DEF NoMirror
    <2>4. /\ \A a \in Alter : hist'[m][a] = IF a \in kept THEN "syncing" ELSE "none"
          /\ \A n \in Mirror : n # m => hist'[n] = hist[n]
      BY <2>1 DEF SyncTypeOK
    <2>5. PICK a \in kept : a \in Alter
      BY <2>1
    <2>6. RowsInv(m)'
      BY <2>3, <2>4 DEF RowsInv
    <2>7. Agrees(m)'
      <3>1. hist'[m][a] = "syncing"
        BY <2>4, <2>5
      <3> QED
        BY <2>3, <2>5, <3>1 DEF Agrees, Open, Syncs
    <2>8. \A n \in Mirror : n # m => RowsInv(n)' /\ (Agrees(n) => Agrees(n)')
      BY <2>2, <2>4, OtherMirrors
    <2>9. \A n \in Mirror : ~Hooked(n)'
      BY <1>2, <2>2, <2>3 DEF Hooked
    <2>10. \A n \in Mirror : RowsInv(n)' /\ Agrees(n)'
      BY <1>2, <2>6, <2>7, <2>8
    <2>11. Turns'
      BY <1>1, <1>2, <2>9, <2>10, RestTurn
    <2>12. \A b \in Alter : hist[m][b] = "none"
      BY <2>2 DEF Turns, RowsInv
    <2> QED
      BY <2>4, <2>11, <2>12 DEF RowsKept
  <1> QED
    BY <1>3, <1>4 DEF WebApprove

\* The view cancel: every mirror that is followed ends, and so do its rows.
LEMMA WebCancelTurns ==
    ASSUME SyncTypeOK, Turns, unstored \subseteq unstored', WebCancel, Quiet
    PROVE  Turns' /\ RowsKept
  <1>1. source'.audit \in {"ABORTED", "REJECTED"} /\ saver' = saver
    BY DEF WebCancel
  <1>2. /\ \A s \in Saver : ~Working(s)
        /\ \A n \in Mirror : ~Hooked(n) /\ Agrees(n)
    BY QuietFacts
  <1>3. \A n \in Mirror, a \in Alter : <<n, a>> \in Syncing <=> hist[n][a] = "syncing"
    BY DEF Syncing
  <1>4. \A n \in Mirror : mirror'[n] = IF Syncs(n) THEN Ended(mirror[n], "workflow_abort") ELSE mirror[n]
    BY <1>3 DEF WebCancel, Syncs
  <1>5. \A n \in Mirror, a \in Alter :
            hist'[n][a] = IF hist[n][a] = "syncing" THEN "skipped" ELSE hist[n][a]
    BY <1>3 DEF WebCancel
  <1>6. Syncing' = {} /\ RowsKept /\ \A n \in Mirror : ~Syncs(n)'
    BY <1>5 DEF Syncing, RowsKept, Syncs
  <1>7. ASSUME NEW n \in Mirror PROVE RowsInv(n)' /\ Agrees(n)' /\ ~Hooked(n)'
    <2>1. \A a, b \in Alter : hist'[n][a] # "none" /\ hist'[n][b] # "none" => hist'[n][a] = hist'[n][b]
      <3>1. SharedResult(hist[n])
        BY DEF Turns, RowsInv, SharedResult
      <3> QED
        BY <1>5, <3>1 DEF SharedResult
    <2>2. CASE Syncs(n)
      <3>1. /\ mirror'[n].status = "workflow_abort" /\ mirror'[n].audit \in {"NONE", "ABORTED"}
            /\ mirror'[n].run = mirror[n].run /\ mirror'[n] # NoMirror
        <4>1. mirror'[n] = Ended(mirror[n], "workflow_abort")
          BY <1>4, <2>2
        <4>2. mirror[n] \in MirrorRow
          BY DEF SyncTypeOK
        <4> QED
          BY <4>1, <4>2, EndedFields
      <3>2. ~Hooked(n)'
        BY <1>2, <3>1 DEF Hooked
      <3>3. RowsInv(n)'
        BY <2>1, <3>1, <3>2 DEF RowsInv, Hooked
      <3>4. Agrees(n)'
        BY <1>6, <3>1 DEF Agrees, Open
      <3> QED
        BY <3>2, <3>3, <3>4
    <2>3. CASE ~Syncs(n)
      <3>1. mirror'[n] = mirror[n] /\ \A a \in Alter : hist'[n][a] = hist[n][a]
        BY <1>4, <1>5, <2>3 DEF Syncs
      <3>2. ~Hooked(n)'
        BY <1>2, <3>1 DEF Hooked
      <3>3. RowsInv(n)'
        BY <2>1, <3>1, <3>2 DEF Turns, RowsInv, Hooked
      <3>4. Agrees(n)'
        BY <1>2, <3>1 DEF Agrees, Open, Syncs
      <3> QED
        BY <3>2, <3>3, <3>4
    <2> QED
      BY <2>2, <2>3
  <1>8. \A m, n \in Mirror : Hooked(m)' /\ Hooked(n)' => m = n
    BY <1>7
  <1>9. \A n \in Mirror : RowsInv(n)' /\ Agrees(n)'
    BY <1>7
  <1> QED
    BY <1>1, <1>2, <1>6, <1>8, <1>9, RestTurn

\* A hook, or a view, that gives the rows of mirror m their result.
LEMMA ResultTurn ==
    ASSUME SyncTypeOK, Turns, unstored \subseteq unstored', NEW m \in Mirror, Hooked(m) \/ Quiet,
           NEW status \in Ends, NEW r,
           mirror' = [mirror EXCEPT ![m] = r], hist' = Recorded(hist, m, status),
           UNCHANGED <<source, saver>>,
           r.run \notin {"read", "saved"}, r.status \in Ends, r.audit # "WAITING"
    PROVE  Turns' /\ RowsKept
  <1>1. /\ \A s \in Saver : ~Working(s)
        /\ \A n \in Mirror : n # m => ~Hooked(n) /\ Agrees(n)
        /\ source.status = "workflow_abort" =>
              source.audit \in {"ABORTED", "REJECTED"} /\ Syncing = {}
    BY HookFacts
  <1>2. mirror'[m] = r /\ \A n \in Mirror : n # m => mirror'[n] = mirror[n]
    BY DEF SyncTypeOK
  <1>3. SharedResult(hist[m])
    BY DEF Turns, RowsInv, SharedResult
  <1>4. /\ \A n \in Mirror : n # m => hist'[n] = hist[n]
        /\ ~Syncs(m)' /\ SharedResult(hist'[m]) /\ Syncing' \subseteq Syncing /\ RowsKept
    BY <1>3, RecordedKeeps
  <1>5. RowsInv(m)' /\ Agrees(m)' /\ ~Hooked(m)'
    <2>1. ~Open(m)'
      BY <1>2 DEF Open, Ends
    <2>2. mirror'[m] # NoMirror
      BY <1>2 DEF NoMirror, Ends
    <2>3. RowsInv(m)'
      BY <1>2, <1>4, <2>2 DEF RowsInv, SharedResult
    <2> QED
      BY <1>2, <1>4, <2>1, <2>3 DEF Agrees, Hooked
  <1>6. \A n \in Mirror : n # m => RowsInv(n)' /\ (Agrees(n) => Agrees(n)') /\ ~Hooked(n)'
    BY <1>1, <1>2, <1>4, OtherMirrors DEF Hooked
  <1>7. \A n \in Mirror : RowsInv(n)' /\ Agrees(n)' /\ ~Hooked(n)'
    BY <1>1, <1>5, <1>6
  <1>8. source'.status = "workflow_abort" =>
              source'.audit \in {"ABORTED", "REJECTED"} /\ Syncing' = {}
    BY <1>1, <1>4
  <1> QED
    BY <1>1, <1>4, <1>7, <1>8, RestTurn

LEMMA MirrorCancelTurns ==
    ASSUME SyncTypeOK, Turns, unstored \subseteq unstored', NEW m \in Mirror, MirrorCancel(m), Quiet
    PROVE  Turns' /\ RowsKept
  <1>1. PICK audit \in {"REJECTED", "ABORTED"} :
            mirror' = [mirror EXCEPT ![m] =
                Closed([mirror[m] EXCEPT !.status = "workflow_abort", !.audit = audit], m, "workflow_abort")]
    BY DEF MirrorCancel
  <1>2. PICK q, p, r : /\ q = [mirror[m] EXCEPT !.status = "workflow_abort"]
                       /\ p = [q EXCEPT !.audit = audit]
                       /\ r = Closed(p, m, "workflow_abort")
    OBVIOUS
  <1>3. mirror' = [mirror EXCEPT ![m] = r]
    BY <1>1, <1>2
  <1>4. mirror[m] \in MirrorRow /\ "workflow_abort" \in Status /\ audit \in Audit
    BY DEF SyncTypeOK, Status, Audit
  <1>5. IsRow(p, mirror[m].run, mirror[m].ok)
    BY <1>2, <1>4, RowDecided
  <1>6. p.status = "workflow_abort" /\ p.audit = audit
    <2>1. mirror[m] = [status |-> mirror[m].status, audit |-> mirror[m].audit,
                       run |-> mirror[m].run, ok |-> mirror[m].ok]
      BY <1>4, RowFields
    <2>2. p = [status |-> "workflow_abort", audit |-> audit,
               run |-> mirror[m].run, ok |-> mirror[m].ok]
      BY <1>2, <2>1
    <2> QED
      BY <2>2
  <1>7. p \in MirrorRow /\ p.run = mirror[m].run
    BY <1>5 DEF IsRow
  <1>8. r.status = "workflow_abort" /\ r.run = mirror[m].run /\ r.audit # "WAITING"
    <2>1. r = Closed(p, m, "workflow_abort") /\ p \in MirrorRow
      BY <1>2, <1>7
    <2>2. r.status = p.status /\ r.run = p.run /\ r.audit \in {p.audit, "ABORTED"}
      BY <2>1, ClosedFields
    <2>3. p.audit # "WAITING"
      BY <1>6
    <2> QED
      BY <1>6, <1>7, <2>2, <2>3
  <1>9. ~Hooked(m)
    BY QuietFacts
  <1> QED
    BY <1>3, <1>8, <1>9, ResultTurn DEF MirrorCancel, Hooked, Ends

LEMMA HookRecordTurns ==
    ASSUME SyncTypeOK, Turns, unstored \subseteq unstored', NEW m \in Mirror, HookRecord(m)
    PROVE  Turns' /\ RowsKept
  <1>1. PICK q, r : q = Closed(mirror[m], m, Outcome(m)) /\ r = [q EXCEPT !.run = "no"]
    OBVIOUS
  <1>2. /\ mirror' = [mirror EXCEPT ![m] = r] /\ mirror[m].run = "saved" /\ Hooked(m)
        /\ hist' = Recorded(hist, m, Outcome(m)) /\ UNCHANGED <<source, saver>>
    BY <1>1 DEF HookRecord, Hooked
  <1>3. mirror[m] \in MirrorRow /\ mirror[m].status = Outcome(m) /\ Outcome(m) \in Ends
    BY <1>2 DEF SyncTypeOK, Turns, RowsInv, Outcome, Ends
  <1>4. mirror[m].audit # "WAITING"
    BY <1>3 DEF Turns, RowsInv, Ends
  <1>5. q \in MirrorRow /\ q.status = Outcome(m) /\ q.audit # "WAITING"
    BY <1>1, <1>3, <1>4, ClosedRow, ClosedFields
  <1>6. r.status = q.status /\ r.audit = q.audit /\ r.run = "no"
    <2>1. q = [status |-> q.status, audit |-> q.audit, run |-> q.run, ok |-> q.ok]
      BY <1>5, RowFields
    <2>2. r = [status |-> q.status, audit |-> q.audit, run |-> "no", ok |-> q.ok]
      BY <1>1, <2>1
    <2> QED
      BY <2>2
  <1>7. PICK status \in Ends : status = Outcome(m)
    BY <1>3
  <1>8. hist' = Recorded(hist, m, status)
    BY <1>2, <1>7
  <1>9. r.run \notin {"read", "saved"} /\ r.status \in Ends /\ r.audit # "WAITING"
    BY <1>3, <1>5, <1>6
  <1> QED
    BY <1>2, <1>8, <1>9, ResultTurn

\* The hook reads and saves the mirror; its rows follow.
LEMMA HookTurns ==
    ASSUME SyncTypeOK, Turns, unstored \subseteq unstored', NEW m \in Mirror, (HookRead(m) /\ Quiet) \/ HookSave(m)
    PROVE  Turns' /\ RowsKept
  <1>1. mirror[m] = [status |-> mirror[m].status, audit |-> mirror[m].audit,
                     run |-> mirror[m].run, ok |-> mirror[m].ok]
    BY RowFields DEF SyncTypeOK
  <1>2. UNCHANGED <<source, hist, saver>> /\ (Hooked(m) \/ Quiet)
    BY DEF HookRead, HookSave, Hooked
  <1>3. /\ \A s \in Saver : ~Working(s)
        /\ \A n \in Mirror : n # m => ~Hooked(n) /\ Agrees(n)
        /\ source.status = "workflow_abort" =>
              source.audit \in {"ABORTED", "REJECTED"} /\ Syncing = {}
        /\ Agrees(m) \/ mirror[m].run = "saved"
    BY <1>2, HookFacts
  <1>4. /\ \A n \in Mirror : n # m => mirror'[n] = mirror[n]
        /\ mirror'[m] # NoMirror \/ mirror[m] = NoMirror
        /\ mirror'[m].audit = mirror[m].audit /\ mirror'[m].ok = mirror[m].ok
        /\ mirror'[m].run = "read" => mirror'[m].status = "workflow_executing"
        /\ mirror'[m].run = "saved" => mirror'[m].status = Outcome(m)
        /\ mirror'[m].run = "saved" \/ (mirror'[m].status = mirror[m].status /\ Agrees(m))
        /\ mirror'[m].audit # "WAITING" \/ mirror'[m].status = mirror[m].status
    <2>1. CASE HookRead(m)
      <3>1. PICK run \in {"read", "no"} :
                /\ mirror' = [mirror EXCEPT ![m].run = run]
                /\ run = "read" => mirror[m].status = "workflow_executing"
        BY <2>1 DEF HookRead
      <3>2. mirror'[m] = [status |-> mirror[m].status, audit |-> mirror[m].audit,
                          run |-> run, ok |-> mirror[m].ok]
        BY <1>1, <3>1 DEF SyncTypeOK
      <3>3. mirror[m].run = "returned"
        BY <2>1 DEF HookRead
      <3>4. mirror'[m] # NoMirror
        <4>1. mirror[m] # NoMirror
          BY <3>3 DEF NoMirror
        <4>2. mirror[m].status # "none"
          BY <4>1, RowFields DEF SyncTypeOK
        <4> QED
          BY <3>2, <4>2 DEF NoMirror
      <3>5. \A n \in Mirror : n # m => mirror'[n] = mirror[n]
        BY <3>1 DEF SyncTypeOK
      <3> QED
        BY <1>3, <3>1, <3>2, <3>3, <3>4, <3>5
    <2>2. CASE HookSave(m)
      <3>1. mirror'[m] = [status |-> Outcome(m), audit |-> mirror[m].audit,
                          run |-> "saved", ok |-> mirror[m].ok]
        BY <1>1, <2>2 DEF HookSave, SyncTypeOK
      <3>2. mirror[m].run = "read" /\ mirror[m].status = "workflow_executing"
        BY <2>2 DEF HookSave, Turns, RowsInv
      <3>3. mirror[m].audit # "WAITING"
        BY <3>2 DEF Turns, RowsInv
      <3>4. mirror'[m] # NoMirror
        BY <3>1 DEF NoMirror
      <3>5. \A n \in Mirror : n # m => mirror'[n] = mirror[n]
        BY <2>2 DEF HookSave, SyncTypeOK
      <3> QED
        BY <3>1, <3>3, <3>4, <3>5
    <2> QED
      BY <2>1, <2>2
  <1>5. RowsInv(m)
    BY DEF Turns
  <1>6. Outcome(m)' = Outcome(m)
    BY <1>4 DEF Outcome
  <1>7. RowsInv(m)'
    <2>1. mirror'[m] = NoMirror => \A a \in Alter : hist'[m][a] = "none"
      BY <1>2, <1>4, <1>5 DEF RowsInv
    <2>2. mirror'[m].audit = "WAITING" => mirror'[m].status = "workflow_manreviewing"
      BY <1>4, <1>5 DEF RowsInv
    <2>3. \A a, b \in Alter : hist'[m][a] # "none" /\ hist'[m][b] # "none" => hist'[m][a] = hist'[m][b]
      BY <1>2, <1>5 DEF RowsInv
    <2> QED
      BY <1>4, <1>6, <2>1, <2>2, <2>3 DEF RowsInv
  <1>8. Agrees(m)' \/ mirror'[m].run = "saved"
    BY <1>2, <1>4 DEF Agrees, Open, Syncs
  <1>9. \A n \in Mirror : n # m => RowsInv(n)' /\ (Agrees(n) => Agrees(n)') /\ ~Hooked(n)'
    BY <1>2, <1>3, <1>4, OtherMirrors DEF Hooked
  <1>10. \A n \in Mirror : RowsInv(n)' /\ (Agrees(n)' \/ mirror'[n].run = "saved")
    BY <1>3, <1>7, <1>8, <1>9
  <1>11. \A n, k \in Mirror : Hooked(n)' /\ Hooked(k)' => n = k
    BY <1>9
  <1>12. Syncing' = Syncing
    BY <1>2 DEF Syncing
  <1> QED
    BY <1>2, <1>3, <1>10, <1>11, <1>12, RestTurn DEF RowsKept

\* The hook that cannot store the result ends the mirror, and leaves its rows.
LEMMA HookFailsTurns ==
    ASSUME SyncTypeOK, Turns, unstored \subseteq unstored', NEW m \in Mirror, HookFails(m)
    PROVE  Turns' /\ RowsKept
  <1>1. PICK q, r : /\ q = [mirror[m] EXCEPT !.status = "workflow_exception"]
                    /\ r = [q EXCEPT !.run = "no"]
    OBVIOUS
  <1>2. /\ mirror' = [mirror EXCEPT ![m] = r] /\ mirror[m].run = "read" /\ Hooked(m)
        /\ UNCHANGED <<source, hist, saver>> /\ m \in unstored'
    BY <1>1 DEF HookFails, Hooked
  <1>3. r.status = "workflow_exception" /\ r.audit = mirror[m].audit /\ r.run = "no"
    <2>1. mirror[m] = [status |-> mirror[m].status, audit |-> mirror[m].audit,
                       run |-> mirror[m].run, ok |-> mirror[m].ok]
      BY RowFields DEF SyncTypeOK
    <2>2. r = [status |-> "workflow_exception", audit |-> mirror[m].audit,
               run |-> "no", ok |-> mirror[m].ok]
      BY <1>1, <2>1
    <2> QED
      BY <2>2
  <1>4. /\ \A s \in Saver : ~Working(s)
        /\ \A n \in Mirror : n # m => ~Hooked(n) /\ Agrees(n)
        /\ source.status = "workflow_abort" =>
              source.audit \in {"ABORTED", "REJECTED"} /\ Syncing = {}
    BY <1>2, HookFacts
  <1>5. mirror'[m] = r /\ \A n \in Mirror : n # m => mirror'[n] = mirror[n]
    BY <1>2 DEF SyncTypeOK
  <1>6. mirror[m].audit # "WAITING" /\ SharedResult(hist[m])
    BY <1>2 DEF Turns, RowsInv, SharedResult
  <1>7. RowsInv(m)'
    BY <1>2, <1>3, <1>5, <1>6 DEF RowsInv, SharedResult, NoMirror
  <1>8. Agrees(m)' /\ ~Hooked(m)'
    BY <1>2, <1>3, <1>5 DEF Agrees, Open, Hooked
  <1>9. \A n \in Mirror : n # m => RowsInv(n)' /\ Agrees(n)' /\ ~Hooked(n)'
    BY <1>2, <1>4, <1>5, OtherMirrors DEF Hooked
  <1>10. Syncing' = Syncing
    BY <1>2 DEF Syncing
  <1> QED
    BY <1>2, <1>4, <1>7, <1>8, <1>9, <1>10, RestTurn DEF RowsKept

\* The approval and the run of mirror m, whoever is at work: its new row r is as
\* open as the old one, and what others rely on stays.
LivesOn(m, r) ==
    /\ mirror[m].run \notin {"read", "saved"} /\ r.run \notin {"read", "saved"}
    /\ r.status # "none"
    /\ r.audit = "WAITING" => r.status = "workflow_manreviewing"
    /\ (r.status \in OpenStatus) = (mirror[m].status \in OpenStatus)
    /\ mirror[m].audit # "WAITING" => r.audit # "WAITING"
    /\ mirror[m].status \notin OpenStatus => r.status = mirror[m].status

LEMMA LifeTurn ==
    ASSUME SyncInv, SyncTypeOK, Turns, unstored \subseteq unstored', NEW m \in Mirror, NEW r, LivesOn(m, r),
           mirror' = [mirror EXCEPT ![m] = r], UNCHANGED <<source, hist, saver>>
    PROVE  Turns' /\ RowsKept
  <1> USE DEF LivesOn
  <1>1. mirror'[m] = r /\ \A n \in Mirror : n # m => mirror'[n] = mirror[n]
    BY DEF SyncTypeOK
  <1>2. \A n \in Mirror : Hooked(n)' <=> Hooked(n)
    BY <1>1 DEF Hooked
  <1>3. OneAtWork'
    BY <1>2 DEF Turns, OneAtWork, Working
  <1>4. \A n \in Mirror : Open(n)' <=> Open(n)
    BY <1>1 DEF Open, OpenStatus
  <1>5. \A n \in Mirror : RowsInv(n)'
    <2>1. RowsInv(m)'
      BY <1>1 DEF Turns, RowsInv, NoMirror
    <2>2. \A n \in Mirror : n # m => RowsInv(n)'
      BY <1>1, OtherMirrors
    <2> QED
      BY <2>1, <2>2
  <1>6. ASSUME NEW n \in Mirror
        PROVE  Agrees(n)' \/ mirror'[n].run = "saved" \/ \E s \in Saver : Excuses(saver[s], n)'
    <2>1. Agrees(n) => Agrees(n)'
      BY <1>4 DEF Agrees, Syncs
    <2>2. mirror[n].run = "saved" => mirror'[n].run = "saved"
      BY <1>1
    <2>3. \A s \in Saver : Excuses(saver[s], n)' <=> Excuses(saver[s], n)
      BY DEF Excuses
    <2> QED
      BY <2>1, <2>2, <2>3 DEF Turns
  <1>7. ASSUME NEW s \in Saver PROVE SaverInv(saver[s])'
    <2>1. SaverInv(saver[s])
      BY DEF Turns
    <2>2. ASSUME saver[s].m \in Mirror
          PROVE  /\ mirror[saver[s].m].status # "none" => mirror'[saver[s].m].status # "none"
                 /\ mirror[saver[s].m].audit # "WAITING" => mirror'[saver[s].m].audit # "WAITING"
                 /\ mirror[saver[s].m].status \in Ends
                       => mirror'[saver[s].m].status = mirror[saver[s].m].status
      BY <1>1, <2>2 DEF Ends, OpenStatus
    <2>3. saver[s].pc = "targetSaved" => saver[s].status \in Ends
      BY DEF SyncInv, SaverKnown, Ends
    <2>4. ASSUME saver[s].pc \in {"targetSaving", "targetSaved"}
          PROVE  SaverInv(saver[s])'
      BY <1>4, <2>1, <2>2, <2>3, <2>4 DEF SaverInv
    <2>5. ASSUME saver[s].pc \notin {"targetSaving", "targetSaved"}
          PROVE  SaverInv(saver[s])'
      BY <1>4, <2>1, <2>5 DEF SaverInv
    <2> QED
      BY <2>4, <2>5
  <1>8. Withdrawn'
    <2>1. Syncing' = Syncing
      BY DEF Syncing
    <2>2. \A s \in Saver : Ending(saver[s])' <=> Ending(saver[s])
      BY <2>1 DEF Ending
    <2> QED
      BY <2>1, <2>2 DEF Turns, Withdrawn
  <1> QED
    BY <1>3, <1>5, <1>6, <1>7, <1>8 DEF Turns, RowsKept

LEMMA LifeTurns ==
    ASSUME SyncInv, SyncTypeOK, Turns, unstored \subseteq unstored', NEW m \in Mirror,
           MirrorPass(m) \/ MirrorStart(m) \/ \E ok \in BOOLEAN : MirrorReturn(m, ok)
    PROVE  Turns' /\ RowsKept
  <1>1. mirror[m] = [status |-> mirror[m].status, audit |-> mirror[m].audit,
                     run |-> mirror[m].run, ok |-> mirror[m].ok]
    BY RowFields DEF SyncTypeOK
  <1>2. RowsInv(m) /\ UNCHANGED <<source, hist, saver>>
    BY DEF Turns, MirrorPass, MirrorStart, MirrorReturn
  <1>3. CASE MirrorPass(m)
    <2>1. PICK q, r : q = [mirror[m] EXCEPT !.status = "workflow_review_pass"]
                      /\ r = [q EXCEPT !.audit = "PASSED"]
      OBVIOUS
    <2>2. mirror' = [mirror EXCEPT ![m] = r]
      BY <1>3, <2>1 DEF MirrorPass
    <2>3. mirror[m].audit = "WAITING" /\ mirror[m].status = "workflow_manreviewing"
      BY <1>2, <1>3 DEF MirrorPass, RowsInv
    <2>4. mirror[m].run \notin {"read", "saved"}
      BY <1>2, <2>3 DEF RowsInv, Outcome
    <2>5. r.status = "workflow_review_pass" /\ r.audit = "PASSED" /\ r.run = mirror[m].run
      <3>1. r = [status |-> "workflow_review_pass", audit |-> "PASSED",
                 run |-> mirror[m].run, ok |-> mirror[m].ok]
        BY <1>1, <2>1
      <3> QED
        BY <3>1
    <2>6. LivesOn(m, r)
      BY <2>3, <2>4, <2>5 DEF LivesOn, OpenStatus
    <2> QED
      BY <1>2, <2>2, <2>6, LifeTurn
  <1>4. CASE MirrorStart(m)
    <2>1. PICK q, r : q = [mirror[m] EXCEPT !.status = "workflow_executing"]
                      /\ r = [q EXCEPT !.run = "running"]
      OBVIOUS
    <2>2. mirror' = [mirror EXCEPT ![m] = r]
      BY <1>4, <2>1 DEF MirrorStart
    <2>3. mirror[m].status = "workflow_review_pass" /\ mirror[m].run = "no"
      BY <1>4 DEF MirrorStart
    <2>4. mirror[m].audit # "WAITING"
      BY <1>2, <2>3 DEF RowsInv
    <2>5. r.status = "workflow_executing" /\ r.audit = mirror[m].audit /\ r.run = "running"
      <3>1. r = [status |-> "workflow_executing", audit |-> mirror[m].audit,
                 run |-> "running", ok |-> mirror[m].ok]
        BY <1>1, <2>1
      <3> QED
        BY <3>1
    <2>6. LivesOn(m, r)
      BY <2>3, <2>4, <2>5 DEF LivesOn, OpenStatus
    <2> QED
      BY <1>2, <2>2, <2>6, LifeTurn
  <1>5. CASE \E ok \in BOOLEAN : MirrorReturn(m, ok)
    <2>1. PICK ok \in BOOLEAN : MirrorReturn(m, ok)
      BY <1>5
    <2>2. PICK q, r : q = [mirror[m] EXCEPT !.run = "returned"] /\ r = [q EXCEPT !.ok = ok]
      OBVIOUS
    <2>3. mirror' = [mirror EXCEPT ![m] = r] /\ mirror[m].run = "running"
      BY <2>1, <2>2 DEF MirrorReturn
    <2>4. mirror[m].status # "none"
      BY <2>3, RowFields DEF SyncTypeOK, NoMirror
    <2>5. r.status = mirror[m].status /\ r.audit = mirror[m].audit /\ r.run = "returned"
      <3>1. r = [status |-> mirror[m].status, audit |-> mirror[m].audit,
                 run |-> "returned", ok |-> ok]
        BY <1>1, <2>2
      <3> QED
        BY <3>1
    <2>6. r.audit # "WAITING" \/ r.status = "workflow_manreviewing"
      BY <1>2, <2>5 DEF RowsInv
    <2>7. LivesOn(m, r)
      BY <2>3, <2>4, <2>5, <2>6 DEF LivesOn
    <2> QED
      BY <1>2, <2>3, <2>7, LifeTurn
  <1> QED
    BY <1>3, <1>4, <1>5

\* The execution of the source touches neither rows nor audit.
LEMMA SourceTurns ==
    ASSUME SyncTypeOK, Turns, unstored \subseteq unstored',
           SourceStart \/ SourceFinish \/ SourceUnstored
    PROVE  Turns' /\ RowsKept
  <1>1. /\ source'.status # "workflow_abort" /\ source'.audit = source.audit
        /\ UNCHANGED <<mirror, hist, saver>>
    BY DEF SourceStart, SourceFinish, SourceUnstored, SyncTypeOK
  <1>2. OneAtWork'
    BY <1>1 DEF Turns, OneAtWork, Working, Hooked
  <1>3. \A n \in Mirror : RowsInv(n)' /\ (Agrees(n) => Agrees(n)')
    BY <1>1, OtherMirrors
  <1>4. \A s \in Saver : SaverInv(saver[s])'
    <2> SUFFICES ASSUME NEW s \in Saver PROVE SaverInv(saver[s])'
      OBVIOUS
    <2>1. SaverInv(saver[s])
      BY DEF Turns
    <2> QED
      BY <1>1, <2>1 DEF SaverInv, Open
  <1>5. \A n \in Mirror, s \in Saver : Excuses(saver[s], n)' <=> Excuses(saver[s], n)
    BY <1>1 DEF Excuses
  <1>6. \A n \in Mirror :
            Agrees(n)' \/ mirror'[n].run = "saved" \/ \E s \in Saver : Excuses(saver[s], n)'
    BY <1>1, <1>3, <1>5 DEF Turns
  <1> QED
    BY <1>1, <1>2, <1>3, <1>4, <1>6 DEF Turns, Withdrawn, RowsKept

LEMMA UnstoredStays ==
    ASSUME SyncNext
    PROVE  unstored \subseteq unstored'
  <1>1. CASE unstored' = unstored
    BY <1>1
  <1>2. CASE \E m \in Mirror : HookFails(m)
    BY <1>2 DEF HookFails
  <1>3. unstored' = unstored \/ \E m \in Mirror : HookFails(m)
    BY Zenon DEF SyncNext, WebApprove, WebCancel, SourceStart, SourceFinish, SourceUnstored,
       OaSource, ApiApprove, ApiSaveApproved, Hold, Resave, Judge, Create, WriteRow, ApiCancel,
       ApiSaveAborted, SourceFail, Cascade, CascadeTarget, CascadeRow, TargetSave,
       TargetRecord, CrashSaver, TargetPass, TargetCancel, TargetVouch, MirrorPass, MirrorCancel,
       MirrorStart, MirrorReturn, HookRead, HookSave, HookRecord, OaMirror, CrashHook
  <1> QED
    BY <1>1, <1>2, <1>3

\* While handlers take turns, no step but of them disturbs the rows.
LEMMA TurnsStep ==
    ASSUME SyncInv, Turns, calm, calm', SyncNext
    PROVE  Turns' /\ RowsKept
  <1>1. Begins => Quiet
    BY DEF Begins
  <1>2. ~Troubled
    BY DEF Troubled
  <1>3. SyncTypeOK /\ unstored \subseteq unstored'
    BY UnstoredStays DEF SyncInv
  <1>4. CASE WebApprove \/ WebCancel
    BY <1>1, <1>4, <1>3, WebApproveTurns, WebCancelTurns DEF WebApprove, WebCancel
  <1>5. CASE SourceStart \/ SourceFinish \/ SourceUnstored
    BY <1>5, <1>3, SourceTurns
  <1>6. ASSUME NEW s \in Saver,
               \/ ApiApprove(s) \/ ApiSaveApproved(s) \/ Resave(s) \/ Judge(s)
               \/ ApiCancel(s) \/ ApiSaveAborted(s) \/ SourceFail(s) \/ Cascade(s)
        PROVE  Turns' /\ RowsKept
    <2>1. ApiApprove(s) \/ Resave(s) \/ ApiCancel(s) \/ SourceFail(s) => Quiet
      BY <1>1 DEF ApiApprove, Resave, ApiCancel, SourceFail
    <2> QED
      BY <1>6, <1>3, <2>1, RequestTurns
  <1>7. ASSUME NEW s \in Saver, Hold(s) \/ Create(s) \/ WriteRow(s) \/ CascadeTarget(s)
                                \/ CascadeRow(s) \/ TargetSave(s) \/ TargetRecord(s)
        PROVE  Turns' /\ RowsKept
    BY <1>7, <1>3, HoldTurns, CreateTurns, WriteRowTurns, CascadeTargetTurns, CascadeRowTurns,
       TargetSaveTurns, TargetRecordTurns
  <1>8. ASSUME NEW s \in Saver, NEW m \in Mirror,
               TargetPass(s, m) \/ TargetCancel(s, m) \/ TargetVouch(s, m)
        PROVE  Turns' /\ RowsKept
    <2>1. Quiet
      BY <1>1, <1>8 DEF TargetPass, TargetCancel, TargetVouch, TargetBegins
    <2> QED
      BY <1>8, <1>3, <2>1, TargetRequestTurns
  <1>9. ASSUME NEW m \in Mirror, MirrorCancel(m) PROVE Turns' /\ RowsKept
    <2>1. Quiet
      BY <1>1, <1>9 DEF MirrorCancel
    <2> QED
      BY <1>9, <1>3, <2>1, MirrorCancelTurns
  <1>10. ASSUME NEW m \in Mirror,
               MirrorPass(m) \/ MirrorStart(m) \/ \E ok \in BOOLEAN : MirrorReturn(m, ok)
        PROVE  Turns' /\ RowsKept
    BY <1>10, <1>3, LifeTurns
  <1>11. ASSUME NEW m \in Mirror, HookRead(m) \/ HookSave(m) PROVE Turns' /\ RowsKept
    <2>1. HookRead(m) => Quiet
      BY <1>1 DEF HookRead
    <2> QED
      BY <1>11, <1>3, <2>1, HookTurns
  <1>12. ASSUME NEW m \in Mirror, HookFails(m) \/ HookRecord(m) PROVE Turns' /\ RowsKept
    BY <1>12, <1>3, HookFailsTurns, HookRecordTurns
  <1>13. /\ ~OaSource
         /\ \A s \in Saver : ~CrashSaver(s)
         /\ \A m \in Mirror : ~OaMirror(m) /\ ~CrashHook(m)
    BY <1>2 DEF OaSource, CrashSaver, OaMirror, CrashHook
  <1> QED
    BY <1>4, <1>5, <1>6, <1>7, <1>8, <1>9, <1>10, <1>11, <1>12, <1>13, Zenon DEF SyncNext

\* calm never comes back.
LEMMA CalmStays ==
    ASSUME SyncTypeOK, SyncNext, calm'
    PROVE  calm
  <1>1. Begins => calm
    BY DEF Begins
  <1>2. ~Troubled
    BY DEF Troubled
  <1>3. calm' = calm \/ Begins \/ Troubled
    BY Zenon DEF SyncNext, WebApprove, WebCancel, SourceStart, SourceFinish, SourceUnstored,
       OaSource, ApiApprove, ApiSaveApproved, Hold, Resave, Judge, Create, WriteRow, ApiCancel,
       ApiSaveAborted, SourceFail, Cascade, CascadeTarget, CascadeRow, TargetSave,
       TargetRecord, CrashSaver, TargetPass, TargetCancel, TargetVouch, TargetBegins, MirrorPass,
       MirrorCancel, MirrorStart, MirrorReturn, HookRead, HookSave, HookFails, HookRecord,
       OaMirror, CrashHook
  <1> QED
    BY <1>1, <1>2, <1>3

LEMMA TurnsInit == SyncInit => Turns
  <1> SUFFICES ASSUME SyncInit PROVE Turns
    OBVIOUS
  <1>1. \A m \in Mirror : mirror[m] = NoMirror /\ \A a \in Alter : hist[m][a] = "none"
    BY DEF SyncInit
  <1>2. PICK q \in {"none"} \cup Saver :
            \A s \in Saver : saver[s] = Resting \/ (s = q /\ saver[s] = [Resting EXCEPT !.pc = "operated"])
    BY DEF SyncInit
  <1>3. \A s \in Saver : saver[s].pc = "idle" \/ (s = q /\ saver[s].pc = "operated")
    BY <1>2 DEF Resting
  <1>4. \A m \in Mirror : mirror[m].run = "no" /\ mirror[m].status = "none" /\ mirror[m].audit = "NONE"
    BY <1>1 DEF NoMirror
  <1>5. OneAtWork
    BY <1>3, <1>4 DEF OneAtWork, Working, Hooked
  <1>6. \A m \in Mirror : RowsInv(m) /\ Agrees(m)
    BY <1>1, <1>4 DEF RowsInv, Agrees, Open, Syncs
  <1>7. \A s \in Saver : SaverInv(saver[s])
    BY <1>3 DEF SaverInv
  <1>8. source.status # "workflow_abort"
    BY DEF SyncInit
  <1> QED
    BY <1>5, <1>6, <1>7, <1>8 DEF Turns, Withdrawn

LEMMA TurnsStutter ==
    ASSUME Turns, UNCHANGED <<source, mirror, hist, saver, unstored>>
    PROVE  Turns'
  <1>1. OneAtWork'
    BY DEF Turns, OneAtWork, Working, Hooked
  <1>2. \A m \in Mirror : RowsInv(m)' /\ (Agrees(m) => Agrees(m)')
    BY OtherMirrors DEF Turns
  <1>3. \A s \in Saver : SaverInv(saver[s])'
    <2> SUFFICES ASSUME NEW s \in Saver PROVE SaverInv(saver[s])'
      OBVIOUS
    <2>1. SaverInv(saver[s])
      BY DEF Turns
    <2> QED
      BY <2>1 DEF SaverInv, Open
  <1>4. \A m \in Mirror, s \in Saver : Excuses(saver[s], m)' <=> Excuses(saver[s], m)
    BY DEF Excuses
  <1>5. \A m \in Mirror :
            Agrees(m)' \/ mirror'[m].run = "saved" \/ \E s \in Saver : Excuses(saver[s], m)'
    BY <1>2, <1>4 DEF Turns
  <1>6. Withdrawn'
    BY DEF Turns, Withdrawn, Syncing, Ending
  <1> QED
    BY <1>1, <1>2, <1>3, <1>5, <1>6 DEF Turns

\* While handlers take turns, the rows say what the mirrors are doing, apart
\* from the one mirror that somebody is at.
THEOREM TurnsInvariant == SyncSpec => [](calm => Turns)
  <1>1. SyncInit => (calm => Turns)
    BY TurnsInit
  <1>2. SyncInv /\ (calm => Turns) /\ [SyncNext]_syncVars => (calm => Turns)'
    <2>1. ASSUME SyncInv, calm => Turns, SyncNext, calm' PROVE Turns'
      BY <2>1, CalmStays, TurnsStep DEF SyncInv
    <2>2. ASSUME calm => Turns, UNCHANGED syncVars, calm' PROVE Turns'
      <3>1. UNCHANGED <<source, mirror, hist, saver, unstored>> /\ Turns
        BY <2>2 DEF syncVars
      <3> QED
        BY <3>1, TurnsStutter
    <2> QED
      BY <2>1, <2>2
  <1> QED
    BY <1>1, <1>2, SyncInvariant, PTL DEF SyncSpec

LEMMA TurnsSettle == (calm => Turns) => NoOrphan /\ HistoryAgrees
  <1> SUFFICES ASSUME Turns, Quiet
               PROVE  /\ source.status = "workflow_abort" => \A m \in Mirror : ~Open(m)
                      /\ \A m \in Mirror :
                            /\ Open(m) => Syncs(m)
                            /\ Syncs(m) => Open(m) \/ m \in unstored
                            /\ \A a, b \in Alter :
                                  hist[m][a] # "none" /\ hist[m][b] # "none" => hist[m][a] = hist[m][b]
    BY DEF NoOrphan, HistoryAgrees, Syncs
  <1>1. /\ \A m \in Mirror : Agrees(m)
        /\ source.status = "workflow_abort" => Syncing = {}
    BY QuietFacts
  <1>2. Syncing = {} => \A m \in Mirror : ~Syncs(m)
    <2> SUFFICES ASSUME NEW m \in Mirror, NEW a \in Alter, hist[m][a] = "syncing"
                 PROVE  <<m, a>> \in Syncing
      BY DEF Syncs
    <2> QED
      BY DEF Syncing
  <1>3. \A m \in Mirror : (Open(m) => Syncs(m)) /\ (Syncs(m) => Open(m) \/ m \in unstored)
    BY <1>1 DEF Agrees
  <1>4. \A m \in Mirror, a, b \in Alter :
            hist[m][a] # "none" /\ hist[m][b] # "none" => hist[m][a] = hist[m][b]
    BY DEF Turns, RowsInv
  <1> QED
    BY <1>1, <1>2, <1>3, <1>4

\* As long as handlers take turns, a source that is withdrawn leaves no mirror
\* open: workflow_terminal_handler and the views in whose saves it runs, for
\* any number of mirrors and of requests that still hold the approved source.
THEOREM WithdrawnLeavesNone == SyncSpec => []NoOrphan
  BY TurnsInvariant, TurnsSettle, PTL

\* As long as handlers take turns, the history of a mirror says syncing while
\* the mirror is open and, unless its hook failed to store a result, not any
\* longer; and its ALTERs share one result.
THEOREM HistoryFollows == SyncSpec => []HistoryAgrees
  BY TurnsInvariant, TurnsSettle, PTL

\* As long as handlers take turns, a row of the history that has its result is
\* never written with another: target_workflow_status_handler filters by the
\* status, and workflow_terminal_handler writes the rows it loaded earlier.
THEOREM ResultsFinal == SyncSpec => RowsFinal
  <1>1. SyncInv /\ (calm => Turns) /\ [SyncNext]_syncVars
           => [calm' => RowsKept]_syncVars
    <2>1. ASSUME SyncInv, calm => Turns, SyncNext, calm' PROVE RowsKept
      BY <2>1, CalmStays, TurnsStep DEF SyncInv
    <2> QED
      BY <2>1
  <1>2. [][calm' => RowsKept]_syncVars => RowsFinal
    BY PTL DEF RowsFinal, RowsKept
  <1> QED
    BY <1>1, <1>2, TurnsInvariant, SyncInvariant, PTL DEF SyncSpec
=============================================================================
