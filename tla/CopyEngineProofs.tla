-------------------------- MODULE CopyEngineProofs --------------------------
(***************************************************************************)
(* Proofs about BackupWorker (module CopyEngine) for every set of files,   *)
(* every pattern set and every pool size.                                  *)
(***************************************************************************)
EXTENDS CopyEngine, FiniteSetTheorems, TLAPS

\* A task's outcome is fixed when copy_one returns, and it is never True.
OutcomeMatchesPc ==
    \A f \in Files :
        /\ pc[f] \in {"idle", "queued", "copy"} => outcome[f] = "none"
        /\ outcome[f] # "ok"

\* Every planned task is queued at submission and only planned tasks move.
PlanShape ==
    /\ \A f \in Files : f \notin plan => pc[f] = "idle"
    /\ phase = "plan" => plan = {}
    /\ phase \in {"run", "drain"} => plan # {}
    /\ \A f \in collected : pc[f] = "done"

\* The loop's error count, while it is not cancelled.
ErrorsCounted ==
    ~cancelled => errors = Cardinality({f \in collected : outcome[f] # "ok"})

\* The loop is left early only by a cancel.
LoopExit == phase \in {"drain", "finished"} /\ ~cancelled /\ plan # {} => collected = plan

\* What `finished` carries.
ResultShape ==
    /\ (result # NoResult) <=> (phase = "finished")
    /\ phase = "finished" =>
          /\ PoolDrained
          /\ result.copied = 0
          /\ result.success => plan # {} /\ ~cancelled /\ errors = 0

IInv ==
    /\ TypeOK
    /\ OutcomeMatchesPc
    /\ PlanShape
    /\ ErrorsCounted
    /\ LoopExit
    /\ ResultShape

-----------------------------------------------------------------------------
USE FilesAssumption, MaxWorkersAssumption, NoResultAssumption

\* Every set of tasks is finite.
LEMMA TaskSetFinite ==
    ASSUME NEW T \in SUBSET Files
    PROVE  IsFiniteSet(T)
BY FS_Subset, FilesAssumption

\* Adding a new element to a finite set adds one to its cardinality.
LEMMA CardinalityAddNew ==
    ASSUME NEW S, NEW x, IsFiniteSet(S), x \notin S
    PROVE  Cardinality(S \cup {x}) = Cardinality(S) + 1
BY FS_AddElement

\* No copy_one has returned True.
LEMMA NothingCopied ==
    ASSUME IInv
    PROVE  Copied = {}
BY DEF IInv, OutcomeMatchesPc, Copied

LEMMA InitIInv == Init => IInv
<1> SUFFICES ASSUME Init PROVE IInv
    OBVIOUS
<1>1. TypeOK /\ OutcomeMatchesPc /\ PlanShape
    BY DEF Init, TypeOK, OutcomeMatchesPc, PlanShape, TaskState, Outcome
<1>2. ErrorsCounted
    <2>1. {f \in collected : outcome[f] # "ok"} = {}
        BY DEF Init
    <2>2. QED
        BY <2>1, FS_EmptySet DEF Init, ErrorsCounted
<1>3. LoopExit /\ ResultShape
    BY DEF Init, LoopExit, ResultShape
<1>4. QED
    BY <1>1, <1>2, <1>3 DEF IInv

LEMMA NextIInv == IInv /\ [Next]_vars => IInv'
<1> SUFFICES ASSUME IInv, [Next]_vars PROVE IInv'
    OBVIOUS
<1> USE DEF IInv, TypeOK, TaskState, Outcome, Message, Result
<1>1. CASE Plan
    <2> DEFINE p == {g \in Files : Matches(g)}
    <2>1. /\ \A g \in Files : pc[g] = "idle"
          /\ collected = {}
        BY <1>1 DEF Plan, PlanShape
    <2>2. /\ plan' = p
          /\ p \subseteq Files
          /\ UNCHANGED <<outcome, cancelled, collected, errors>>
        BY <1>1 DEF Plan
    <2>3. CASE p = {}
        <3>1. /\ phase' = "finished"
              /\ result' = [copied |-> 0, success |-> FALSE, msg |-> "nofiles"]
              /\ pc' = pc
            BY <1>1, <2>3 DEF Plan
        <3>2. (TypeOK /\ OutcomeMatchesPc /\ PlanShape)'
            BY <2>1, <2>2, <2>3, <3>1 DEF OutcomeMatchesPc, PlanShape
        <3>3. (ErrorsCounted /\ LoopExit)'
            BY <2>2, <2>3 DEF ErrorsCounted, LoopExit
        <3>4. result' \in Result
            BY <3>1
        <3>5. ResultShape'
            BY <2>1, <2>2, <2>3, <3>1, <3>4 DEF ResultShape, PoolDrained
        <3>6. QED
            BY <3>2, <3>3, <3>5
    <2>4. CASE p # {}
        <3>1. /\ phase' = "run"
              /\ pc' = [g \in Files |-> IF g \in p THEN "queued" ELSE "idle"]
              /\ result' = result
            BY <1>1, <2>4 DEF Plan
        <3>2. (TypeOK /\ OutcomeMatchesPc /\ PlanShape)'
            BY <2>1, <2>2, <2>4, <3>1 DEF OutcomeMatchesPc, PlanShape
        <3>3. (ErrorsCounted /\ LoopExit /\ ResultShape)'
            BY <1>1, <2>1, <2>2, <2>4, <3>1 DEF Plan, ErrorsCounted, LoopExit, ResultShape
        <3>4. QED
            BY <3>2, <3>3
    <2>5. QED
        BY <2>3, <2>4
<1>2. ASSUME NEW f \in Files, Start(f) PROVE IInv'
    <2>1. /\ pc[f] = "queued"
          /\ f \notin collected
          /\ outcome[f] = "none"
          /\ UNCHANGED <<phase, plan, cancelled, collected, errors, result>>
        BY <1>2 DEF Start, PlanShape, OutcomeMatchesPc
    <2>2. CASE cancelled
        <3>1. pc' = [pc EXCEPT ![f] = "done"] /\ outcome' = [outcome EXCEPT ![f] = "cancelled"]
            BY <1>2, <2>2 DEF Start
        <3>2. (TypeOK /\ OutcomeMatchesPc /\ PlanShape)'
            BY <2>1, <3>1 DEF OutcomeMatchesPc, PlanShape
        <3>3. (ErrorsCounted /\ LoopExit)'
            BY <2>1, <2>2 DEF ErrorsCounted, LoopExit
        <3>4. ResultShape'
            BY <2>1, <3>1 DEF ResultShape, PoolDrained, PlanShape
        <3>5. QED
            BY <3>2, <3>3, <3>4
    <2>3. CASE ~cancelled
        <3>1. pc' = [pc EXCEPT ![f] = "copy"] /\ outcome' = outcome
            BY <1>2, <2>3 DEF Start
        <3>2. (TypeOK /\ OutcomeMatchesPc /\ PlanShape)'
            BY <2>1, <3>1 DEF OutcomeMatchesPc, PlanShape
        <3>3. (ErrorsCounted /\ LoopExit)'
            BY <2>1, <3>1 DEF ErrorsCounted, LoopExit
        <3>4. ResultShape'
            BY <2>1, <3>1 DEF ResultShape, PoolDrained, PlanShape
        <3>5. QED
            BY <3>2, <3>3, <3>4
    <2>4. QED
        BY <2>2, <2>3
<1>3. ASSUME NEW f \in Files, CopyFile(f) PROVE IInv'
    <2>1. /\ pc[f] = "copy"
          /\ f \notin collected
          /\ pc' = [pc EXCEPT ![f] = "done"]
          /\ outcome' = [outcome EXCEPT ![f] = "error"]
          /\ UNCHANGED <<phase, plan, cancelled, collected, errors, result>>
        BY <1>3 DEF CopyFile, PlanShape
    <2>2. {g \in collected' : outcome'[g] # "ok"} = {g \in collected : outcome[g] # "ok"}
        BY <2>1
    <2>3. (TypeOK /\ OutcomeMatchesPc /\ PlanShape)'
        BY <2>1 DEF OutcomeMatchesPc, PlanShape
    <2>4. (ErrorsCounted /\ LoopExit)'
        BY <2>1, <2>2 DEF ErrorsCounted, LoopExit
    <2>5. ResultShape'
        BY <2>1 DEF ResultShape, PoolDrained, PlanShape
    <2>6. QED
        BY <2>3, <2>4, <2>5
<1>4. ASSUME NEW f \in Files, Collect(f) PROVE IInv'
    <2>1. /\ phase = "run"
          /\ f \in plan \ collected
          /\ pc[f] = "done"
          /\ result = NoResult
          /\ plan # {}
          /\ collected' = collected \cup {f}
          /\ UNCHANGED <<plan, pc, outcome, cancelled, result>>
        BY <1>4 DEF Collect, ResultShape, PlanShape
    <2>2. (TypeOK /\ OutcomeMatchesPc)'
        BY <1>4, <2>1 DEF Collect, OutcomeMatchesPc
    <2>3. CASE cancelled
        <3>1. phase' = "drain" /\ errors' = errors
            BY <1>4, <2>3 DEF Collect
        <3>2. (PlanShape /\ ErrorsCounted /\ LoopExit /\ ResultShape)'
            BY <2>1, <2>3, <3>1 DEF PlanShape, ErrorsCounted, LoopExit, ResultShape
        <3>3. QED
            BY <2>2, <3>2
    <2>4. CASE ~cancelled
        <3> DEFINE Failed(S) == {g \in S : outcome[g] # "ok"}
        <3>1. /\ errors' = IF outcome[f] = "ok" THEN errors ELSE errors + 1
              /\ phase' = IF collected' = plan THEN "drain" ELSE "run"
            BY <1>4, <2>4 DEF Collect
        <3>2. errors \in Nat /\ errors' \in Nat
            BY <3>1
        <3>3. ErrorsCounted'
            <4>1. IsFiniteSet(Failed(collected))
                BY TaskSetFinite
            <4>2. CASE outcome[f] = "ok"
                BY <2>1, <2>4, <3>1, <4>2 DEF ErrorsCounted
            <4>3. CASE outcome[f] # "ok"
                <5>1. Failed(collected') = Failed(collected) \cup {f}
                    BY <2>1, <4>3
                <5>2. f \notin Failed(collected)
                    BY <2>1
                <5>3. Cardinality(Failed(collected')) = Cardinality(Failed(collected)) + 1
                    BY <4>1, <5>1, <5>2, CardinalityAddNew
                <5>4. errors' = errors + 1 /\ errors = Cardinality(Failed(collected))
                    BY <2>4, <3>1, <4>3 DEF ErrorsCounted
                <5>5. QED
                    BY <2>1, <2>4, <5>3, <5>4 DEF ErrorsCounted
            <4>4. QED
                BY <4>2, <4>3
        <3>4. (PlanShape /\ LoopExit /\ ResultShape)'
            BY <2>1, <2>4, <3>1, <3>2 DEF PlanShape, LoopExit, ResultShape
        <3>5. QED
            BY <2>2, <3>3, <3>4
    <2>5. QED
        BY <2>3, <2>4
<1>5. CASE Finish
    <2>1. /\ phase = "drain"
          /\ PoolDrained
          /\ plan # {}
          /\ phase' = "finished"
          /\ result' = IF cancelled
                         THEN [copied |-> 0, success |-> FALSE, msg |-> "cancelled"]
                         ELSE [copied |-> 0, success |-> errors = 0,
                               msg |-> IF errors = 0 THEN "completed" ELSE "errors"]
          /\ UNCHANGED <<plan, pc, outcome, cancelled, collected, errors>>
        BY <1>5 DEF Finish, PlanShape, files_copied
    <2>2. result' \in Result
        BY <2>1
    <2>3. (TypeOK /\ OutcomeMatchesPc /\ PlanShape /\ ErrorsCounted /\ LoopExit)'
        BY <1>5, <2>1, <2>2 DEF OutcomeMatchesPc, PlanShape, ErrorsCounted, LoopExit
    <2>4. ResultShape'
        BY <2>1, <2>2 DEF ResultShape, PoolDrained
    <2>5. QED
        BY <2>3, <2>4
<1>6. CASE Cancel
    BY <1>6 DEF Cancel, OutcomeMatchesPc, PlanShape, ErrorsCounted, LoopExit,
                ResultShape, PoolDrained
<1>7. CASE UNCHANGED vars
    BY <1>7 DEF vars, OutcomeMatchesPc, PlanShape, ErrorsCounted, LoopExit,
                ResultShape, PoolDrained
<1>8. QED
    BY <1>1, <1>2, <1>3, <1>4, <1>5, <1>6, <1>7 DEF Next, Worker

\* The strengthened invariant holds in every reachable state.
THEOREM IInvHolds == Spec => []IInv
BY InitIInv, NextIInv, PTL DEF Spec

(***************************************************************************)
(* Type correctness of BackupWorker's state, whatever the files, patterns  *)
(* and pool size.                                                          *)
(***************************************************************************)
THEOREM TypeCorrect == Spec => []TypeOK
BY IInvHolds, PTL DEF IInv

\* Off a cancel, the loop's error count is zero exactly when every planned
\* task returned True.
LEMMA NoErrorsIffAllCopied ==
    ASSUME IInv, phase = "drain", ~cancelled
    PROVE  (errors = 0) <=> (plan \subseteq Copied)
<1>1. plan # {}
    BY DEF IInv, PlanShape
<1>2. collected = plan
    BY <1>1 DEF IInv, LoopExit
<1> DEFINE Failed == {f \in collected : outcome[f] # "ok"}
<1>3. errors = Cardinality(Failed)
    BY DEF IInv, ErrorsCounted
<1>4. IsFiniteSet(Failed)
    BY TaskSetFinite DEF IInv, TypeOK
<1>5. (Cardinality(Failed) = 0) <=> (Failed = {})
    BY <1>4, FS_EmptySet
<1>6. (Failed = {}) <=> (plan \subseteq Copied)
    BY <1>2 DEF IInv, TypeOK, Copied
<1>7. QED
    BY <1>3, <1>5, <1>6

\* IInv is strong enough for the truth of the terminal report.
LEMMA IInvResultAccurate == IInv => ResultAccurate
<1> SUFFICES ASSUME IInv, result # NoResult
             PROVE  /\ PoolDrained
                    /\ result.copied = Cardinality(Copied)
                    /\ result.success <=> plan # {} /\ ~cancelled /\ plan \subseteq Copied
    BY DEF ResultAccurate
<1>1. phase = "finished" /\ PoolDrained /\ result.copied = 0
    BY DEF IInv, ResultShape
<1>2. Copied = {}
    BY NothingCopied
<1>3. result.copied = Cardinality(Copied)
    BY <1>1, <1>2, FS_EmptySet
<1>4. ~result.success
    <2>1. SUFFICES ASSUME result.success PROVE FALSE
        OBVIOUS
    <2>2. plan # {} /\ ~cancelled /\ errors = 0 /\ collected = plan
        BY <1>1, <2>1 DEF IInv, ResultShape, LoopExit
    <2>3. {f \in collected : outcome[f] # "ok"} = plan
        BY <2>2 DEF IInv, TypeOK, OutcomeMatchesPc
    <2>4. errors = Cardinality(plan)
        BY <2>2, <2>3 DEF IInv, ErrorsCounted
    <2>5. IsFiniteSet(plan)
        BY TaskSetFinite DEF IInv, TypeOK
    <2>6. QED
        BY <2>2, <2>4, <2>5, FS_EmptySet
<1>5. ~(plan # {} /\ plan \subseteq Copied)
    BY <1>2
<1>6. QED
    BY <1>1, <1>3, <1>4, <1>5

(***************************************************************************)
(* BackupWorker's `finished` signal tells the truth and comes last, for    *)
(* every tree, every pool size and every interleaving of copy_one threads, *)
(* cancel and the as_completed loop: it is emitted after the pool join,    *)
(* its count is the number of copies, and it reports success exactly when  *)
(* no cancel came and every planned file was copied.                       *)
(***************************************************************************)
THEOREM ResultAccurateHolds == Spec => []ResultAccurate
BY IInvHolds, IInvResultAccurate, PTL

-----------------------------------------------------------------------------
(***************************************************************************)
(* Refinement of BackupJob.  The abstract phase is the concrete one with  *)
(* the drain counted as running, the abstract copied set is Copied.       *)
(***************************************************************************)
AbsPhase == IF phase = "drain" THEN "run" ELSE phase

\* A step that changes none of the mapped state is an abstract stutter.
LEMMA MappedStutter ==
    ASSUME AbsPhase' = AbsPhase, plan' = plan, Copied' = Copied,
           cancelled' = cancelled, result' = result
    PROVE  UNCHANGED BJ!vars
BY DEF AbsPhase, BJ!vars

\* The steps of a pool thread and of the as_completed loop are abstract
\* stutters: no copy_one returns True.
LEMMA WorkerStutters ==
    ASSUME IInv, IInv', NEW f \in Files, Start(f) \/ CopyFile(f) \/ Collect(f)
    PROVE  UNCHANGED BJ!vars
<1>1. Copied' = Copied
    BY NothingCopied, IInv' DEF IInv, OutcomeMatchesPc, Copied
<1>2. AbsPhase' = AbsPhase
    BY DEF Start, CopyFile, Collect, AbsPhase
<1>3. QED
    BY <1>1, <1>2, MappedStutter DEF Start, CopyFile, Collect

\* Planning is the abstract plan.
LEMMA PlanRefines ==
    ASSUME IInv, Plan
    PROVE  BJ!MakePlan
<1>1. Copied' = Copied
    BY DEF Plan, Copied
<1>2. AbsPhase = "plan" /\ AbsPhase' = phase'
    BY DEF Plan, AbsPhase
<1>3. QED
    BY <1>1, <1>2 DEF Plan, BJ!MakePlan, AbsPhase

\* The terminal signal is the abstract report.
LEMMA FinishRefines ==
    ASSUME IInv, Finish
    PROVE  BJ!Report
<1>1. files_copied = Cardinality(Copied)
    BY NothingCopied, FS_EmptySet DEF files_copied
<1>2. Copied' = Copied
    BY DEF Finish, Copied
<1>3. AbsPhase = "run" /\ AbsPhase' = "finished"
    BY DEF Finish, AbsPhase
<1>4. result' = [copied |-> Cardinality(Copied),
                 success |-> ~cancelled /\ plan \subseteq Copied,
                 msg |-> IF cancelled THEN "cancelled"
                         ELSE IF plan \subseteq Copied THEN "completed"
                         ELSE "errors"]
    <2>1. CASE cancelled
        BY <1>1, <2>1 DEF Finish
    <2>2. CASE ~cancelled
        BY <1>1, <2>2, NoErrorsIffAllCopied DEF Finish
    <2>3. QED
        BY <2>1, <2>2
<1>5. plan' = plan /\ cancelled' = cancelled
    BY DEF Finish
<1>6. BJ!Report!1 /\ BJ!Report!2
    BY <1>3 DEF AbsPhase
<1>7. BJ!Report!3
    <2>1. BJ!Cardinality(Copied) = Cardinality(Copied)
        BY DEF BJ!Cardinality, Cardinality
    <2>2. QED
        BY <1>4, <2>1
<1>8. BJ!Report!4
    BY <1>2, <1>5
<1>9. QED
    BY <1>6, <1>7, <1>8 DEF BJ!Report

\* The Cancel button is the abstract cancel request.
LEMMA CancelRefines ==
    ASSUME IInv, Cancel
    PROVE  BJ!RequestCancel
BY DEF Cancel, BJ!RequestCancel, AbsPhase, Copied

\* Every step of BackupWorker is a step of the job or leaves it alone.
LEMMA NextRefines ==
    ASSUME IInv, IInv', [Next]_vars
    PROVE  [BJ!Next]_BJ!vars
<1>1. CASE Plan
    BY <1>1, PlanRefines DEF BJ!Next
<1>2. ASSUME NEW f \in Files, Start(f) \/ CopyFile(f) \/ Collect(f)
      PROVE  [BJ!Next]_BJ!vars
    BY <1>2, WorkerStutters
<1>3. CASE Finish
    BY <1>3, FinishRefines DEF BJ!Next
<1>4. CASE Cancel
    BY <1>4, CancelRefines DEF BJ!Next
<1>5. CASE UNCHANGED vars
    BY <1>5, MappedStutter DEF vars, AbsPhase, Copied
<1>6. QED
    BY <1>1, <1>2, <1>3, <1>4, <1>5 DEF Next, Worker

(***************************************************************************)
(* BackupWorker implements the job spec.md describes (BackupJobRefined):   *)
(* under every interleaving of the pool threads, the as_completed loop     *)
(* (its break on cancel and its error count) and the Cancel button, the    *)
(* plan is the matching files, a file counts as copied at most once and    *)
(* only while the run is on, and the one `finished` signal counts the      *)
(* copied files and reports success exactly when no cancel came and every  *)
(* planned file was copied.                                                *)
(***************************************************************************)
THEOREM BackupJobRefinedHolds == Spec => BackupJobRefined
<1>1. Init => BJ!Init
    BY DEF Init, BJ!Init, Copied
<1>2. Spec => [][BJ!Next]_BJ!vars
    BY IInvHolds, NextRefines, PTL DEF Spec
<1>3. QED
    BY <1>1, <1>2, PTL DEF Spec, BackupJobRefined, BJ!Spec
=============================================================================
