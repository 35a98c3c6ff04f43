----------------------- MODULE BackupOrchestrationProofs -----------------------
(***************************************************************************)
(* Proof that MainWindow's backup slots (module BackupOrchestration) start *)
(* each press's backups in the order of its sources, each at most once,   *)
(* for every set of buttons, folders and number of presses, whatever the   *)
(* workers report and however stale finished signals interleave.          *)
(***************************************************************************)
EXTENDS BackupOrchestration, FiniteSetTheorems, TLAPS

\* The backups started so far for trigger t.
Cnt(t) == StartedBy(t, Len(started))

TypeOK ==
    /\ triggers \in Seq(Names)
    /\ queue \in Seq(Paths)
    /\ started \in Seq((1..Len(triggers)) \X Paths)

(***************************************************************************)
(* The window's queue is part of what is left of the current trigger's    *)
(* sources once its started backups are taken off the front: all of it,   *)
(* or the sources before the one whose os.makedirs / new_log_file raised. *)
(***************************************************************************)
QueueRest ==
    queue # <<>> =>
        LET S == Sources[triggers[Current]] IN
        /\ Current >= 1
        /\ Cnt(Current) + Len(queue) <= Len(S)
        /\ \A k \in 1..Len(queue) : queue[k] = S[Cnt(Current) + k]

\* The inductive invariant.
QInv == TypeOK /\ QueueRest /\ QueueDiscipline

-----------------------------------------------------------------------------
\* The positions among the first i of s whose tag is t.
CountSet(s, t, i) == {j \in 1..i : s[j][1] = t}

LEMMA CountFinite ==
    ASSUME NEW s, NEW t, NEW i \in Nat
    PROVE  IsFiniteSet(CountSet(s, t, i)) /\ Cardinality(CountSet(s, t, i)) \in Nat
<1>1. IsFiniteSet(1..i)
  BY FS_Interval
<1>2. IsFiniteSet(CountSet(s, t, i))
  BY <1>1, FS_Subset DEF CountSet
<1>. QED
  BY <1>2, FS_CardinalityType

\* The count looks only at the first i elements.
LEMMA CountSame ==
    ASSUME NEW s, NEW s2, NEW t, NEW i \in Nat, \A j \in 1..i : s2[j] = s[j]
    PROVE  CountSet(s2, t, i) = CountSet(s, t, i)
BY DEF CountSet

\* One more element adds one exactly when it carries the tag.
LEMMA CountExtend ==
    ASSUME NEW s, NEW t, NEW i \in Nat
    PROVE  Cardinality(CountSet(s, t, i + 1)) =
               Cardinality(CountSet(s, t, i)) + (IF s[i + 1][1] = t THEN 1 ELSE 0)
<1>1. IsFiniteSet(CountSet(s, t, i)) /\ Cardinality(CountSet(s, t, i)) \in Nat
  BY CountFinite
<1>2. CASE s[i + 1][1] = t
  <2>1. CountSet(s, t, i + 1) = CountSet(s, t, i) \cup {i + 1} /\ i + 1 \notin CountSet(s, t, i)
    BY <1>2 DEF CountSet
  <2>2. Cardinality(CountSet(s, t, i + 1)) = Cardinality(CountSet(s, t, i)) + 1
    BY <1>1, <2>1, FS_AddElement
  <2>. QED
    BY <1>2, <2>2
<1>3. CASE s[i + 1][1] # t
  <2>1. CountSet(s, t, i + 1) = CountSet(s, t, i)
    BY <1>3 DEF CountSet
  <2>. QED
    BY <1>1, <1>3, <2>1
<1>. QED
  BY <1>2, <1>3

\* No element carries the tag: the count is 0.
LEMMA CountNone ==
    ASSUME NEW s, NEW t, NEW i \in Nat, \A j \in 1..i : s[j][1] # t
    PROVE  Cardinality(CountSet(s, t, i)) = 0
<1>1. CountSet(s, t, i) = {}
  BY DEF CountSet
<1>. QED
  BY <1>1, FS_EmptySet

\* StartedBy is the count over `started`.
LEMMA StartedByCount ==
    ASSUME NEW t, NEW i
    PROVE  /\ StartedBy(t, i) = Cardinality(CountSet(started, t, i))
           /\ StartedBy(t, i)' = Cardinality(CountSet(started', t, i))
BY DEF StartedBy, CountSet

\* A step that leaves the triggers, the queue and the started list alone.
LEMMA QInvUnchanged ==
    ASSUME QInv, UNCHANGED <<triggers, queue, started>>
    PROVE  QInv'
<1>1. TypeOK'
  BY DEF QInv, TypeOK
<1>2. QueueRest'
  BY DEF QInv, QueueRest, Cnt, StartedBy, Current
<1>3. QueueDiscipline'
  BY DEF QInv, QueueDiscipline, StartedBy
<1>. QED
  BY <1>1, <1>2, <1>3 DEF QInv

\* A failure clears the queue and starts nothing.
LEMMA QInvClear ==
    ASSUME QInv, UNCHANGED <<triggers, started>>, queue' = <<>>
    PROVE  QInv'
<1>1. TypeOK'
  BY DEF QInv, TypeOK
<1>2. QueueRest'
  BY DEF QueueRest
<1>3. QueueDiscipline'
  BY DEF QInv, QueueDiscipline, StartedBy
<1>. QED
  BY <1>1, <1>2, <1>3 DEF QInv

(***************************************************************************)
(* _start_next_backup pops the head of a queue that is the rest of the    *)
(* current trigger's sources, and tags the backup with that trigger: the  *)
(* backup started is the trigger's next source, and what is left queued is *)
(* still the rest.                                                         *)
(***************************************************************************)
LEMMA QInvStart ==
    ASSUME QInv, triggers' = triggers, StartNextBackup
    PROVE  QInv'
<1>1. CASE queue = <<>>
  BY <1>1, QInvUnchanged DEF StartNextBackup
<1>2. CASE queue # <<>>
  <2>. DEFINE L == Len(started)
              C == Current
              S == Sources[triggers[C]]
              c == Cnt(C)
              e == <<C, Head(queue)>>
  <2>1. queue' = Tail(queue) /\ started' = Append(started, e)
    BY <1>2 DEF StartNextBackup
  <2>2. /\ triggers \in Seq(Names) /\ queue \in Seq(Paths)
        /\ started \in Seq((1..Len(triggers)) \X Paths)
        /\ C \in 1..Len(triggers)
        /\ c + Len(queue) <= Len(S)
        /\ \A k \in 1..Len(queue) : queue[k] = S[c + k]
    BY <1>2 DEF QInv, TypeOK, QueueRest, Current
  <2>3. c \in Nat /\ L \in Nat
    BY <2>2, StartedByCount, CountFinite DEF Cnt
  <2>4. S \in Seq(Paths)
    BY <2>2, SourcesAssumption
  <2>5. Current' = C /\ Len(started') = L + 1 /\ started'[L + 1] = e
        /\ \A j \in 1..L : started'[j] = started[j]
    BY <2>1, <2>2 DEF Current
  <2>6. ASSUME NEW t, NEW i \in 0..L
        PROVE  CountSet(started', t, i) = CountSet(started, t, i)
    BY <2>3, <2>5, CountSame
  <2>7. ASSUME NEW t
        PROVE  Cardinality(CountSet(started', t, L + 1))
                 = Cardinality(CountSet(started, t, L)) + (IF C = t THEN 1 ELSE 0)
    <3>1. Cardinality(CountSet(started', t, L + 1))
            = Cardinality(CountSet(started', t, L)) + (IF started'[L + 1][1] = t THEN 1 ELSE 0)
      BY <2>3, CountExtend
    <3>2. CountSet(started', t, L) = CountSet(started, t, L)
      BY <2>3, <2>6
    <3>. QED
      BY <2>5, <3>1, <3>2
  <2>8. c = Cardinality(CountSet(started, C, L)) /\ Cnt(Current)' = c + 1
    <3>1. c = Cardinality(CountSet(started, C, L))
      BY DEF Cnt, StartedBy, CountSet
    <3>2. Cnt(Current)' = Cardinality(CountSet(started', C, L + 1))
      BY <2>5 DEF Cnt, StartedBy, CountSet
    <3>. QED
      BY <2>7, <3>1, <3>2
  <2>9. TypeOK'
    <3>1. e \in (1..Len(triggers)) \X Paths
      BY <1>2, <2>2
    <3>2. queue' \in Seq(Paths)
      BY <1>2, <2>1, <2>2
    <3>. QED
      BY <2>1, <2>2, <3>1, <3>2 DEF TypeOK
  <2>10. QueueDiscipline'
    <3>1. SUFFICES ASSUME NEW i \in 1..L + 1
                   PROVE  LET t == started'[i][1]
                              k == Cardinality(CountSet(started', t, i))
                          IN  /\ t \in 1..Len(triggers)
                              /\ k <= Len(Sources[triggers[t]])
                              /\ started'[i][2] = Sources[triggers[t]][k]
      BY <2>5 DEF QueueDiscipline, StartedBy, CountSet
    <3>2. CASE i \in 1..L
      <4>. DEFINE t == started[i][1]
      <4>1. started'[i] = started[i]
        BY <2>5, <3>2
      <4>2. CountSet(started', t, i) = CountSet(started, t, i)
        BY <2>3, <2>6, <3>2
      <4>3. /\ t \in 1..Len(triggers)
            /\ Cardinality(CountSet(started, t, i)) <= Len(Sources[triggers[t]])
            /\ started[i][2] = Sources[triggers[t]][Cardinality(CountSet(started, t, i))]
        BY <3>2 DEF QInv, QueueDiscipline, StartedBy, CountSet
      <4>. QED
        BY <4>1, <4>2, <4>3
    <3>3. CASE i = L + 1
      <4>1. started'[i][1] = C /\ started'[i][2] = Head(queue)
        BY <2>5, <3>3
      <4>2. Cardinality(CountSet(started', C, i)) = c + 1
        BY <2>7, <2>8, <3>3
      <4>3. c + 1 <= Len(S) /\ Head(queue) = S[c + 1]
        <5>1. Len(queue) >= 1 /\ Len(S) \in Nat
          BY <1>2, <2>2, <2>4
        <5>2. c + 1 <= Len(S)
          BY <2>2, <2>3, <5>1
        <5>3. Head(queue) = queue[1] /\ queue[1] = S[c + 1]
          BY <1>2, <2>2, <5>1
        <5>. QED
          BY <5>2, <5>3
      <4>. QED
        BY <2>2, <4>1, <4>2, <4>3
    <3>. QED
      BY <3>2, <3>3
  <2>11. QueueRest'
    <3>1. Len(queue') = Len(queue) - 1 /\ \A k \in 1..Len(queue') : queue'[k] = queue[k + 1]
      BY <1>2, <2>1, <2>2
    <3>2. Current' = C /\ Sources[triggers'[Current']] = S
      BY <2>5
    <3>3. Cnt(Current)' + Len(queue') <= Len(S)
      BY <2>2, <2>3, <2>8, <3>1
    <3>4. \A k \in 1..Len(queue') : queue'[k] = S[Cnt(Current)' + k]
      <4>1. SUFFICES ASSUME NEW k \in 1..Len(queue') PROVE queue'[k] = S[Cnt(Current)' + k]
        OBVIOUS
      <4>2. k + 1 \in 1..Len(queue) /\ queue'[k] = queue[k + 1]
        BY <2>2, <3>1
      <4>3. queue[k + 1] = S[c + (k + 1)]
        BY <2>2, <4>2
      <4>. QED
        BY <2>3, <2>8, <4>2, <4>3
    <3>. QED
      BY <2>2, <3>2, <3>3, <3>4 DEF QueueRest
  <2>. QED
    BY <2>9, <2>10, <2>11 DEF QInv
<1>. QED
  BY <1>1, <1>2

(***************************************************************************)
(* trigger_backup replaces the queue by a prefix of the new trigger's     *)
(* sources; no backup is tagged with the new trigger yet, so the queue is *)
(* part of the rest, and the older triggers' backups keep their sources.  *)
(***************************************************************************)
LEMMA QInvTrigger ==
    ASSUME QInv, NEW n \in Names, TriggerBackup(n)
    PROVE  QInv'
<1>. DEFINE L == Len(started)
            N == Len(triggers) + 1
<1>0. PICK m \in 0..Len(Sources[n]) : queue' = SubSeq(Sources[n], 1, m)
  <2>1. Sources[n] \in Seq(Paths)
    BY SourcesAssumption
  <2>2. Sources[n] = SubSeq(Sources[n], 1, Len(Sources[n]))
    BY <2>1
  <2>. QED
    BY <2>1, <2>2 DEF TriggerBackup
<1>1. /\ triggers' = Append(triggers, n) /\ started' = started
      /\ triggers \in Seq(Names) /\ started \in Seq((1..Len(triggers)) \X Paths)
      /\ L \in Nat
  BY DEF TriggerBackup, QInv, TypeOK
<1>2. /\ Len(triggers') = N /\ triggers'[N] = n
      /\ \A t \in 1..Len(triggers) : triggers'[t] = triggers[t]
  BY <1>1
<1>3. TypeOK'
  <2>1. started' \in Seq((1..N) \X Paths)
    BY <1>1
  <2>. QED
    BY <1>0, <1>1, <1>2, <2>1, SourcesAssumption DEF TypeOK
<1>4. QueueRest'
  <2>1. \A j \in 1..L : started[j][1] # N
    BY <1>1
  <2>2. Cardinality(CountSet(started, N, L)) = 0
    BY <1>1, <2>1, CountNone
  <2>3. Cnt(Current)' = 0
    BY <1>1, <1>2, <2>2 DEF Cnt, StartedBy, CountSet, Current
  <2>4. Current' = N /\ Sources[triggers'[Current']] = Sources[n]
    BY <1>2 DEF Current
  <2>. QED
    BY <1>0, <2>3, <2>4, SourcesAssumption DEF QueueRest
<1>5. QueueDiscipline'
  <2>1. SUFFICES ASSUME NEW i \in 1..L
                 PROVE  LET t == started[i][1]
                            k == Cardinality(CountSet(started, t, i))
                        IN  /\ t \in 1..N
                            /\ k <= Len(Sources[triggers'[t]])
                            /\ started[i][2] = Sources[triggers'[t]][k]
    BY <1>1, <1>2 DEF QueueDiscipline, StartedBy, CountSet
  <2>. DEFINE t == started[i][1]
  <2>2. /\ t \in 1..Len(triggers)
        /\ Cardinality(CountSet(started, t, i)) <= Len(Sources[triggers[t]])
        /\ started[i][2] = Sources[triggers[t]][Cardinality(CountSet(started, t, i))]
    BY DEF QInv, QueueDiscipline, StartedBy, CountSet
  <2>. QED
    BY <1>2, <2>2
<1>. QED
  BY <1>3, <1>4, <1>5 DEF QInv

LEMMA InitQInv == Init => QInv
BY DEF Init, QInv, TypeOK, QueueRest, QueueDiscipline

(***************************************************************************)
(* Every slot keeps the invariant: a permission success starts the next   *)
(* backup, a failure and every backup_finished clear the queue, and the progress and cancel slots touch      *)
(* neither the queue nor the started list.                                *)
(***************************************************************************)
LEMMA NextQInv == QInv /\ [Next]_vars => QInv'
<1>. SUFFICES ASSUME QInv, [Next]_vars PROVE QInv'
  OBVIOUS
<1>1. CASE \E n \in Names : TriggerBackup(n)
  BY <1>1, QInvTrigger
<1>2. CASE CancelPermissionUpdate \/ CancelBackup
  BY <1>2, QInvUnchanged DEF CancelPermissionUpdate, CancelBackup
<1>3. CASE \E t \in permFlight : PermProgressFull(t)
  BY <1>3, QInvUnchanged DEF PermProgressFull
<1>4. CASE \E t \in permFlight : PermissionUpdateFinished(t)
  <2>1. PICK t \in permFlight : PermissionUpdateFinished(t)
    BY <1>4
  <2>2. triggers' = triggers
    BY <2>1 DEF PermissionUpdateFinished
  <2>3. \/ StartNextBackup
        \/ queue' = <<>> /\ started' = started
    BY <2>1 DEF PermissionUpdateFinished
  <2>. QED
    BY <2>2, <2>3, QInvStart, QInvClear
<1>5. CASE \E b \in backFlight : BackupFinished(b)
  BY <1>5, QInvClear DEF BackupFinished
<1>6. CASE UNCHANGED vars
  BY <1>6, QInvUnchanged DEF vars
<1>. QED
  BY <1>1, <1>2, <1>3, <1>4, <1>5, <1>6 DEF Next
(***************************************************************************)
(* MainWindow starts each press's backups in the order of its sources and *)
(* each at most once, whatever the workers report, whenever the user      *)
(* cancels and however a stale worker's finished signal lands on a newer  *)
(* press's queue.                                                         *)
(***************************************************************************)
THEOREM QueueDisciplineHolds == Spec => []QueueDiscipline
<1>1. Spec => []QInv
  BY InitQInv, NextQInv, PTL DEF Spec
<1>. QED
  BY <1>1, PTL DEF QInv
=============================================================================
