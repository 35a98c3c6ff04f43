------------------------------ MODULE BackupJob ------------------------------
(***************************************************************************)
(* What a backup run promises (spec.md, operation copyTree): it plans the  *)
(* files that match the patterns, copies each planned file at most once,   *)
(* takes a cancel request at any time before its end, and ends with one    *)
(* terminal report.  The report comes after every copy has ended; it       *)
(* counts the files copied, and it is a success exactly when no cancel was *)
(* requested and every planned file was copied ("zero errors => success"). *)
(* A cancel does not stop copies already under way.  No threads, locks or  *)
(* counters appear here: module CopyEngine is the implementation, and      *)
(* CopyEngineProofs shows that it refines this specification.              *)
(***************************************************************************)
EXTENDS Integers, FiniteSets

CONSTANTS Files,     \* the files of the source tree
          Planned,   \* the files that match a pattern, a subset of Files
          NoResult   \* no terminal report yet

VARIABLES phase,      \* "plan", "run", "finished"
          plan,       \* the files the run copies
          copied,     \* the planned files copied (and verified) so far
          cancelled,  \* a cancel was requested
          result      \* the terminal report

vars == <<phase, plan, copied, cancelled, result>>

Message == {"nofiles", "cancelled", "completed", "errors"}
Result == [copied : Nat, success : BOOLEAN, msg : Message]

Init ==
    /\ phase = "plan"
    /\ plan = {}
    /\ copied = {}
    /\ cancelled = FALSE
    /\ result = NoResult

\* The plan; an empty one ends the run at once with a failure.
MakePlan ==
    /\ phase = "plan"
    /\ plan' = Planned
    /\ IF Planned = {}
         THEN /\ phase' = "finished"
              /\ result' = [copied |-> 0, success |-> FALSE, msg |-> "nofiles"]
         ELSE /\ phase' = "run"
              /\ UNCHANGED result
    /\ UNCHANGED <<copied, cancelled>>

\* One planned file is copied, once.
CopyOne(f) ==
    /\ phase = "run"
    /\ f \in plan \ copied
    /\ copied' = copied \cup {f}
    /\ UNCHANGED <<phase, plan, cancelled, result>>

RequestCancel ==
    /\ phase # "finished"
    /\ ~cancelled
    /\ cancelled' = TRUE
    /\ UNCHANGED <<phase, plan, copied, result>>

\* The terminal report.
Report ==
    /\ phase = "run"
    /\ phase' = "finished"
    /\ result' = [copied |-> Cardinality(copied),
                  success |-> ~cancelled /\ plan \subseteq copied,
                  msg |-> IF cancelled THEN "cancelled"
                          ELSE IF plan \subseteq copied THEN "completed"
                          ELSE "errors"]
    /\ UNCHANGED <<plan, copied, cancelled>>

Next == MakePlan \/ (\E f \in Files : CopyOne(f)) \/ RequestCancel \/ Report

Spec == Init /\ [][Next]_vars
=============================================================================
