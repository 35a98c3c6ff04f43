----------------------------- MODULE CopyEngine -----------------------------
(***************************************************************************)
(* BackupWorker (src/sak_utiliy.py): the parallel backup.                  *)
(*                                                                         *)
(* The QThread's run() plans the copy (one task per file of the source     *)
(* tree that matches a pattern), submits every task to a ThreadPoolExecutor *)
(* of MaxWorkers threads, consumes the futures with as_completed, and      *)
(* emits one terminal `finished` signal.  Each pool thread runs copy_one:  *)
(* it polls the cancel flag, then calls shutil.copy2(src, dst).            *)
(*                                                                         *)
(* The planned destination is the source itself.  fast_scan lists a file  *)
(* by its full path (entry.path, line 98), and the backup's sources are    *)
(* absolute (USER_ROOT joined with the user's folder), so                  *)
(* os.path.join(root, fname) and os.path.join(dst_folder, fname) (lines    *)
(* 237-238) both return fname: every task has dst = src, and copy2 raises  *)
(* SameFileError.  copy_one therefore always returns False from its        *)
(* `except` (277-279); the verify, the locked counter update and the       *)
(* progress_update (264-276) are never reached, and self.files_copied      *)
(* stays 0.  The model has exactly the steps the program takes.            *)
(*                                                                         *)
(* A file is a member of Files, numbered in the order the traversal lists  *)
(* it; its name is abstracted to its extension.  The user's Cancel button  *)
(* may set the flag at any moment while the thread runs.                   *)
(***************************************************************************)
EXTENDS Integers, FiniteSets

CONSTANTS
    Files,       \* the files the traversal of the source tree lists
    Ext,         \* Ext[f]: the file name's (lower-cased) suffix
    Patterns,    \* the backup's patterns: suffixes, or Star
    Star,        \* the pattern "*"
    MaxWorkers,  \* the pool's max_workers
    NoResult     \* `finished` not yet emitted

ASSUME FilesAssumption == Files \subseteq Nat /\ IsFiniteSet(Files)
ASSUME MaxWorkersAssumption == MaxWorkers \in Nat \ {0}

VARIABLES
    phase,         \* the QThread's place in run(): "plan", "run", "drain", "finished"
    plan,          \* the planned tasks (files matching a pattern)
    pc,            \* pc[f]: where copy_one(f) is
    outcome,       \* outcome[f]: what copy_one(f) returns
    cancelled,     \* self.cancelled
    collected,     \* futures consumed by the as_completed loop
    errors,        \* the loop's error count
    result         \* the `finished` signal's arguments

vars == <<phase, plan, pc, outcome, cancelled, collected, errors, result>>

TaskState == {"idle", "queued", "copy", "done"}
\* copy_one's return: True ("ok"), or False with its reason.
Outcome == {"none", "ok", "error", "cancelled"}
Message == {"nofiles", "cancelled", "completed", "errors"}
Result == [copied : Nat, success : BOOLEAN, msg : Message]

ASSUME NoResultAssumption == NoResult \notin Result

\* self.files_copied: 0 from __init__ (205); its only increment (268)
\* follows a copy2 that always raises.
files_copied == 0

\* The threads that hold a task: at most MaxWorkers of them exist.
Busy == {f \in Files : pc[f] = "copy"}

\* `any(fname.lower().endswith(p.lstrip("*").lower()) or p == "*" ...)`
Matches(f) == \E p \in Patterns : p = Star \/ p = Ext[f]

Init ==
    /\ phase = "plan"
    /\ plan = {}
    /\ pc = [f \in Files |-> "idle"]
    /\ outcome = [f \in Files |-> "none"]
    /\ cancelled = FALSE
    /\ collected = {}
    /\ errors = 0
    /\ result = NoResult

(***************************************************************************)
(* run(), planning and submission: the plan (the mirrored folders are      *)
(* created on the way, and each task's dst is its src); an empty plan ends *)
(* the run with "No files found"; otherwise every task is submitted to the *)
(* pool.  The cancel flag is not read here.                                *)
(***************************************************************************)
Plan ==
    /\ phase = "plan"
    /\ LET p == {f \in Files : Matches(f)} IN
       /\ plan' = p
       /\ IF p = {}
            THEN /\ phase' = "finished"
                 /\ result' = [copied |-> 0, success |-> FALSE, msg |-> "nofiles"]
                 /\ UNCHANGED pc
            ELSE /\ phase' = "run"
                 /\ pc' = [f \in Files |-> IF f \in p THEN "queued" ELSE "idle"]
                 /\ UNCHANGED result
    /\ UNCHANGED <<outcome, cancelled, collected, errors>>

(***************************************************************************)
(* copy_one(task), first statement: a free pool thread takes the oldest    *)
(* queued task (the executor's queue is FIFO) and returns "cancelled" at   *)
(* once if the flag is set.                                                *)
(***************************************************************************)
Start(f) ==
    /\ pc[f] = "queued"
    /\ \A g \in Files : pc[g] = "queued" => f <= g
    /\ Cardinality(Busy) < MaxWorkers
    /\ IF cancelled
         THEN pc' = [pc EXCEPT ![f] = "done"] /\ outcome' = [outcome EXCEPT ![f] = "cancelled"]
         ELSE pc' = [pc EXCEPT ![f] = "copy"] /\ UNCHANGED outcome
    /\ UNCHANGED <<phase, plan, cancelled, collected, errors, result>>

(***************************************************************************)
(* copy_one's try block: makedirs(dirname(dst)) (an existing folder), then *)
(* shutil.copy2(src, dst) with dst = src raises SameFileError; the except  *)
(* logs it and returns False.  The thread is free again.                   *)
(***************************************************************************)
CopyFile(f) ==
    /\ pc[f] = "copy"
    /\ pc' = [pc EXCEPT ![f] = "done"]
    /\ outcome' = [outcome EXCEPT ![f] = "error"]
    /\ UNCHANGED <<phase, plan, cancelled, collected, errors, result>>

\* Mutant: `return` instead of `break` on cancel: run() ends without `finished`.
CollectReturnOnCancel(f) ==
    /\ phase = "run"
    /\ f \in plan \ collected
    /\ pc[f] = "done"
    /\ collected' = collected \cup {f}
    /\ IF cancelled
         THEN phase' = "finished" /\ UNCHANGED errors
         ELSE /\ errors' = IF outcome[f] = "ok" THEN errors ELSE errors + 1
              /\ phase' = IF collected' = plan THEN "drain" ELSE "run"
    /\ UNCHANGED <<plan, pc, outcome, cancelled, result>>

\* Mutant: the loop's `errors += 1` dropped.
CollectNotCounting(f) ==
    /\ phase = "run"
    /\ f \in plan \ collected
    /\ pc[f] = "done"
    /\ collected' = collected \cup {f}
    /\ IF cancelled
         THEN phase' = "drain"
         ELSE phase' = IF collected' = plan THEN "drain" ELSE "run"
    /\ UNCHANGED <<plan, pc, outcome, cancelled, errors, result>>

(***************************************************************************)
(* One iteration of `for fut in as_completed(futures)`: take a finished    *)
(* future; break if the flag is set, else count a failure.  The loop ends  *)
(* when every future has been taken.                                       *)
(***************************************************************************)
Collect(f) ==
    /\ phase = "run"
    /\ f \in plan \ collected
    /\ pc[f] = "done"
    /\ collected' = collected \cup {f}
    /\ IF cancelled
         THEN phase' = "drain" /\ UNCHANGED errors
         ELSE /\ errors' = IF outcome[f] = "ok" THEN errors ELSE errors + 1
              /\ phase' = IF collected' = plan THEN "drain" ELSE "run"
    /\ UNCHANGED <<plan, pc, outcome, cancelled, result>>

\* Leaving `with ThreadPoolExecutor(...)`: shutdown(wait=True) joins every task.
PoolDrained == \A f \in plan : pc[f] = "done"

\* Mutant: the pool left with shutdown(wait=False).
FinishWithoutJoin ==
    /\ phase = "drain"
    /\ phase' = "finished"
    /\ result' = IF cancelled
                   THEN [copied |-> files_copied, success |-> FALSE, msg |-> "cancelled"]
                   ELSE [copied |-> files_copied, success |-> errors = 0,
                         msg |-> IF errors = 0 THEN "completed" ELSE "errors"]
    /\ UNCHANGED <<plan, pc, outcome, cancelled, collected, errors>>

(***************************************************************************)
(* After the pool is shut down: the terminal `finished` signal, which      *)
(* reads the flag once more.                                               *)
(***************************************************************************)
Finish ==
    /\ phase = "drain"
    /\ PoolDrained
    /\ phase' = "finished"
    /\ result' = IF cancelled
                   THEN [copied |-> files_copied, success |-> FALSE, msg |-> "cancelled"]
                   ELSE [copied |-> files_copied, success |-> errors = 0,
                         msg |-> IF errors = 0 THEN "completed" ELSE "errors"]
    /\ UNCHANGED <<plan, pc, outcome, cancelled, collected, errors>>

\* BackupWorker.cancel(), reached from the dialog's Cancel while the thread runs.
Cancel ==
    /\ phase # "finished"
    /\ ~cancelled
    /\ cancelled' = TRUE
    /\ UNCHANGED <<phase, plan, pc, outcome, collected, errors, result>>

Worker(f) == Start(f) \/ CopyFile(f)

Next ==
    \/ Plan
    \/ \E f \in Files : Worker(f) \/ Collect(f)
    \/ Finish
    \/ Cancel

\* Pool threads and the QThread are OS threads: each keeps running while it can.
Fairness ==
    /\ WF_vars(Plan)
    /\ WF_vars(Finish)
    /\ \A f \in Files : WF_vars(Worker(f)) /\ WF_vars(Collect(f))

Spec == Init /\ [][Next]_vars /\ Fairness

-----------------------------------------------------------------------------
TypeOK ==
    /\ phase \in {"plan", "run", "drain", "finished"}
    /\ plan \subseteq Files
    /\ pc \in [Files -> TaskState]
    /\ outcome \in [Files -> Outcome]
    /\ cancelled \in BOOLEAN
    /\ collected \subseteq plan
    /\ errors \in Nat
    /\ result \in {NoResult} \cup Result

\* The tasks whose copy_one returned True.
Copied == {f \in Files : outcome[f] = "ok"}

\* BackupWorker seen as the job it promises (module BackupJob): the drain
\* after the as_completed loop is still the running job, and a file counts
\* as copied once its copy_one returned True.
BJ == INSTANCE BackupJob WITH phase <- IF phase = "drain" THEN "run" ELSE phase,
                              copied <- Copied,
                              Planned <- {f \in Files : Matches(f)}

(***************************************************************************)
(* BackupWorker implements the job spec.md describes: it plans the        *)
(* matching files, counts a file as copied only once and only while the   *)
(* run is on, and its one terminal `finished` signal counts the copied    *)
(* files and reports success exactly when no cancel came and every        *)
(* planned file was copied, under every interleaving of the pool threads, *)
(* the as_completed loop (its break on cancel, its error count) and the   *)
(* Cancel button.                                                         *)
(***************************************************************************)
BackupJobRefined == BJ!Spec

(***************************************************************************)
(* The terminal `finished` signal tells the truth and comes last: it is    *)
(* emitted only after the pool join, when every planned copy_one has       *)
(* returned (so results after a cancel are folded in, spec §5), its count  *)
(* is the number of copies, and it reports success exactly when no cancel  *)
(* came and every planned file was copied.                                 *)
(***************************************************************************)
ResultAccurate ==
    result # NoResult =>
        /\ PoolDrained
        /\ result.copied = Cardinality(Copied)
        /\ result.success <=> plan # {} /\ ~cancelled /\ plan \subseteq Copied

(***************************************************************************)
(* Spec §8, first copyTree scenario: a run that is not cancelled, over a   *)
(* non-empty plan, reports every planned file copied and success.          *)
(***************************************************************************)
CopiesEveryPlannedFile ==
    result # NoResult /\ ~cancelled /\ plan # {} =>
        result.copied = Cardinality(plan) /\ result.success

(***************************************************************************)
(* The run always ends with its `finished` signal, which the dialog waits  *)
(* for: every task returns, the loop ends or breaks, and the pool joins,   *)
(* whenever the user cancels.                                              *)
(***************************************************************************)
Termination == <>(result # NoResult)
=============================================================================
