------------------------- MODULE BackupOrchestration -------------------------
(***************************************************************************)
(* The backup flow of MainWindow (src/sak_utiliy.py): trigger_backup,      *)
(* _start_permission_update, _permission_update_finished,                  *)
(* _start_next_backup, start_backup, update_progress / _update_perm_progress*)
(* and backup_finished.  All of it runs on the GUI thread, one slot at a   *)
(* time; the workers (modules PermissionUpdate and CopyEngine) are         *)
(* abstracted to the signals they send.  A PermissionUpdateWorker sends    *)
(* progress that can fill its bar, then `finished` with either outcome.   *)
(* A BackupWorker never copies a file (module CopyEngine: every task's     *)
(* destination is its source), so it sends no progress_update and its     *)
(* `finished` always carries success = False.                              *)
(*                                                                         *)
(* A backup button is usable only while no application-modal dialog is    *)
(* shown.  The QProgressDialogs keep Qt's defaults autoReset and autoClose: *)
(* setValue(maximum) hides the dialog, and with it the modality, while the *)
(* worker that filled it has still to send `finished`.  Each finished      *)
(* signal stays connected to the slot, which reads the window's *current*  *)
(* perm_dialog / progress_dialog / _backup_queue.                          *)
(***************************************************************************)
EXTENDS Integers, Sequences, FiniteSets

CONSTANTS Names,        \* the backup buttons
          Paths,        \* the user folders they resolve to
          Sources,      \* Sources[n]: resolved_sources[n], a list of paths
          MaxTriggers   \* how many times the user presses a button

ASSUME SourcesAssumption == \A n \in Names : Sources[n] \in Seq(Paths)
ASSUME MaxTriggersAssumption == MaxTriggers \in Nat \ {0}

VARIABLES
    triggers,     \* triggers[t]: the button of the t-th trigger_backup
    queue,        \* self._backup_queue
    permFlight,   \* triggers whose PermissionUpdateWorker has not sent finished
    backFlight,   \* <<t, path>> of BackupWorkers that have not sent finished
    full,         \* triggers whose permission progress reached 100%
    permDialog,   \* self.perm_dialog is visible
    backDialog,   \* self.progress_dialog is visible
    started       \* <<t, path>>: backups started, in order; t the current trigger

vars == <<triggers, queue, permFlight, backFlight, full, permDialog,
          backDialog, started>>

\* The trigger whose queue the window holds.
Current == Len(triggers)

Modal == permDialog \/ backDialog

Init ==
    /\ triggers = <<>>
    /\ queue = <<>>
    /\ permFlight = {}
    /\ backFlight = {}
    /\ full = {}
    /\ permDialog = FALSE
    /\ backDialog = FALSE
    /\ started = <<>>

\* Mutant: _backup_queue.pop() instead of pop(0).
StartNextBackupLast ==
    IF queue = <<>>
      THEN UNCHANGED <<queue, backFlight, backDialog, started>>
      ELSE /\ queue' = SubSeq(queue, 1, Len(queue) - 1)
           /\ backFlight' = backFlight \cup {<<Current, queue[Len(queue)]>>}
           /\ backDialog' = TRUE
           /\ started' = Append(started, <<Current, queue[Len(queue)]>>)

(***************************************************************************)
(* _start_next_backup / start_backup: pop the queue's head and start a     *)
(* BackupWorker on it with a fresh, shown progress_dialog.  The location   *)
(* check cannot fail: a button is enabled only once a location is set.     *)
(***************************************************************************)
StartNextBackup ==
    IF queue = <<>>
      THEN UNCHANGED <<queue, backFlight, backDialog, started>>
      ELSE /\ queue' = Tail(queue)
           /\ backFlight' = backFlight \cup {<<Current, Head(queue)>>}
           /\ backDialog' = TRUE
           /\ started' = Append(started, <<Current, Head(queue)>>)

(***************************************************************************)
(* trigger_backup(name) from an enabled button: the queue is emptied, and  *)
(* for each source os.makedirs(destination_root) and new_log_file run      *)
(* before it is appended.  When all succeed, the queue and the pending     *)
(* permission list are the name's sources and _start_permission_update     *)
(* starts one worker over all of them with a shown, modal perm_dialog.     *)
(* When one raises (at the k-th source), nothing catches it: the slot ends *)
(* with the first k-1 sources queued and no worker started.                *)
(***************************************************************************)
TriggerBackup(n) ==
    /\ ~Modal
    /\ Len(triggers) < MaxTriggers
    /\ Sources[n] # <<>>
    /\ triggers' = Append(triggers, n)
    /\ \/ /\ queue' = Sources[n]
          /\ permFlight' = permFlight \cup {Len(triggers) + 1}
          /\ permDialog' = TRUE
       \/ \E k \in 1..Len(Sources[n]) :
             /\ queue' = SubSeq(Sources[n], 1, k - 1)
             /\ UNCHANGED <<permFlight, permDialog>>
    /\ UNCHANGED <<backFlight, full, backDialog, started>>

\* _update_perm_progress at processed = total sets the current dialog to
\* 100%: autoReset hides it.  Only a worker that will report success does.
PermProgressFull(t) ==
    /\ t \in permFlight
    /\ t \notin full
    /\ full' = full \cup {t}
    /\ permDialog' = FALSE
    /\ UNCHANGED <<triggers, queue, permFlight, backFlight, backDialog, started>>

\* Mutant: success closes the dialog without calling _start_next_backup.
PermissionUpdateFinishedNoNext(t) ==
    /\ t \in permFlight
    /\ permFlight' = permFlight \ {t}
    /\ permDialog' = FALSE
    /\ \E success \in IF t \in full THEN {TRUE} ELSE BOOLEAN :
          IF success
            THEN UNCHANGED <<queue, backFlight, backDialog, started>>
            ELSE /\ queue' = <<>>
                 /\ UNCHANGED <<backFlight, backDialog, started>>
    /\ UNCHANGED <<triggers, full>>

(***************************************************************************)
(* _permission_update_finished(success): close the current perm_dialog;    *)
(* on failure (cancelled) warn and clear the queue, else start the next    *)
(* backup.  A worker whose bar filled has finished its loop: success.      *)
(***************************************************************************)
PermissionUpdateFinished(t) ==
    /\ t \in permFlight
    /\ permFlight' = permFlight \ {t}
    /\ permDialog' = FALSE
    /\ \E success \in IF t \in full THEN {TRUE} ELSE BOOLEAN :
          IF success
            THEN StartNextBackup
            ELSE /\ queue' = <<>>
                 /\ UNCHANGED <<backFlight, backDialog, started>>
    /\ UNCHANGED <<triggers, full>>

(***************************************************************************)
(* backup_finished(files_copied, success, message): close the current      *)
(* progress_dialog; success is always False, so warn and clear the queue  *)
(* (the branch that starts the next backup is never taken).                *)
(***************************************************************************)
BackupFinished(b) ==
    /\ b \in backFlight
    /\ queue' = <<>>
    /\ backFlight' = backFlight \ {b}
    /\ backDialog' = FALSE
    /\ UNCHANGED <<triggers, permFlight, full, permDialog, started>>

(***************************************************************************)
(* The dialog's Cancel button: QProgressDialog.cancel() resets and hides   *)
(* the dialog, and `canceled` runs _cancel_permission_update /             *)
(* cancel_backup, which only set the worker's flag.  The worker runs on    *)
(* (fast_scan does not poll the flag; the pool joins in-flight copies) and *)
(* reports later, as the finished actions let it.                          *)
(***************************************************************************)
CancelPermissionUpdate ==
    /\ permDialog
    /\ permDialog' = FALSE
    /\ UNCHANGED <<triggers, queue, permFlight, backFlight, full, backDialog, started>>

CancelBackup ==
    /\ backDialog
    /\ backDialog' = FALSE
    /\ UNCHANGED <<triggers, queue, permFlight, backFlight, full, permDialog, started>>

Next ==
    \/ \E n \in Names : TriggerBackup(n)
    \/ CancelPermissionUpdate \/ CancelBackup
    \/ \E t \in permFlight : PermProgressFull(t) \/ PermissionUpdateFinished(t)
    \/ \E b \in backFlight : BackupFinished(b)

\* Every started worker thread eventually sends its finished signal, and
\* the GUI thread delivers it.
Fairness ==
    /\ \A t \in 1..MaxTriggers : WF_vars(PermissionUpdateFinished(t))
    /\ \A b \in (1..MaxTriggers) \X Paths : WF_vars(BackupFinished(b))

Spec == Init /\ [][Next]_vars /\ Fairness

-----------------------------------------------------------------------------
\* How many of the first i backups started belong to trigger t.
StartedBy(t, i) == Cardinality({j \in 1..i : started[j][1] = t})

(***************************************************************************)
(* Each trigger's backups start in the order of its sources, each at most  *)
(* once: _start_next_backup pops the head of the queue it was given.  The  *)
(* i-th backup started, the k-th of its trigger t, is t's k-th source.     *)
(***************************************************************************)
QueueDiscipline ==
    \A i \in 1..Len(started) :
        LET t == started[i][1]
            k == StartedBy(t, i)
        IN  /\ t \in 1..Len(triggers)
            /\ k <= Len(Sources[triggers[t]])
            /\ started[i][2] = Sources[triggers[t]][k]

(***************************************************************************)
(* Spec 2: one operation at a time.  The GUI never has two workers in      *)
(* flight: no backup runs while a permission update runs, and              *)
(* self.worker is never replaced while a backup runs.                      *)
(***************************************************************************)
OneOperationAtATime == Cardinality(permFlight) + Cardinality(backFlight) <= 1
=============================================================================
