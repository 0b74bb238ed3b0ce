-------------------------- MODULE PermLevelsProofs --------------------------
(* Proofs about PermLevels, for any number of users and interactions.      *)
EXTENDS PermLevels, TLAPS

LEMMA OverType == ASSUME NEW j \in Job PROVE Over(j) \in Job /\ Over(j).stage = "over"
<1>1. 0 \in Level
  BY PermLevelsAssumption DEF Level
<1> QED
  BY <1>1 DEF Over, Job, Stage

\* What Write leaves behind.
LEMMA WriteType ==
  ASSUME TypeOK, NEW u \in User, NEW level \in Level, NEW jobs \in [Interaction -> Job],
         Write(u, level, jobs)
  PROVE  /\ DOMAIN users' \subseteq User
         /\ \A v \in DOMAIN users' : users'[v] \in Level
         /\ job' \in [Interaction -> Job]
<1>1. \A i \in Interaction : [jobs[i] EXCEPT !.peak = level] \in Job
  BY PermLevelsAssumption DEF Job
<1> QED
  BY <1>1 DEF TypeOK, Write

\* What the local variables of an interaction say about its user: the level
\* read is one he held, and on the way to a write it was an admin's.
Justified(i) ==
  /\ job[i].stage = "selectLevel" /\ job[i].user \in DOMAIN users
       => users[job[i].user] <= job[i].peak
  /\ job[i].stage = "levelRow" /\ job[i].row \in Level => job[i].row <= job[i].peak
  /\ job[i].stage = "serverInfo" => job[i].row \in Level /\ job[i].row <= job[i].peak
  /\ job[i].stage \in {"selectTarget", "targetRow", "upsert"}
       => job[i].target \in User /\ job[i].peak >= 2

AdminInv == \A i \in Interaction : Justified(i)

LEMMA PermTypeInit == Init => TypeOK
BY PermLevelsAssumption DEF Init, TypeOK, Job, Stage, Level

LEMMA PermTypeNext == TypeOK /\ AdminInv /\ [Next]_vars => TypeOK'
<1> SUFFICES ASSUME TypeOK, AdminInv, [Next]_vars
             PROVE  TypeOK'
  OBVIOUS
<1> USE PermLevelsAssumption
<1>1. CASE UNCHANGED vars
  BY <1>1 DEF TypeOK, vars
<1>2. CASE BotEnds
  BY <1>2, OverType DEF TypeOK, BotEnds
<1>3. ASSUME NEW i \in Interaction, RunCommand(i) \/ LevelsSet(i)
      PROVE  TypeOK'
  <2>1. ASSUME NEW u \in User, NEW target \in User \union {NoUser}, NEW level \in Level,
               Arrive(i, u, target, level)
        PROVE  TypeOK'
    <3>1. LevelOf(u) \in Level
      BY DEF TypeOK, LevelOf, Level
    <3> QED
      BY <2>1, <3>1 DEF TypeOK, Arrive, Job, Stage
  <2>2. CASE SelectLevel(i) \/ SelectTarget(i)
    <3>1. \A u : RowOf(u) \in Level \union {NoRow}
      BY DEF TypeOK, RowOf
    <3> QED
      BY <2>2, <3>1 DEF TypeOK, SelectLevel, SelectTarget, Queried, Job, Stage
  <2>3. CASE LevelKnown(i) \/ SetLevel(i) \/ TargetKnown(i)
    BY <2>3 DEF TypeOK, LevelKnown, SetLevel, TargetKnown, Goto, Job, Stage
  <2>7. CASE NewUser(i) \/ TurnedAway(i) \/ OtherCommand(i) \/ TargetFails(i) \/ UpsertFails(i)
    BY <2>7, OverType DEF TypeOK, NewUser, TurnedAway, OtherCommand, TargetFails,
                          UpsertFails, Return
  <2>4. CASE InsertRow(i)
    <3>1. job[i].user \in User /\ 0 \in Level
      BY DEF TypeOK, Job, Level
    <3> QED
      BY <2>4, <3>1, WriteType DEF InsertRow, TypeOK
  <2>5. CASE InsertConflicts(i)
    BY <2>5, OverType DEF TypeOK, InsertConflicts, BotEnds
  <2>6. CASE Upsert(i)
    <3>1. [job EXCEPT ![i] = Over(@)] \in [Interaction -> Job]
      BY OverType DEF TypeOK
    <3>2. job[i].target \in User /\ job[i].newLevel \in Level
      BY <2>6 DEF Upsert, NewLevel, AdminInv, Justified, TypeOK, Job
    <3> QED
      BY <2>6, <3>1, <3>2, WriteType DEF Upsert, NewLevel, TypeOK
  <2> QED
    <3>1. CASE RunCommand(i)
      <4>1. 0 \in Level /\ NoUser \in User \union {NoUser}
        BY DEF Level
      <4>2. ASSUME NEW u \in User, Arrive(i, u, NoUser, 0)
            PROVE  TypeOK'
        BY <2>1, <4>1, <4>2
      <4>3. ASSUME NEW u \in User, NEW target \in User, NEW level \in Level,
                   Arrive(i, u, target, level)
            PROVE  TypeOK'
        BY <2>1, <4>3
      <4> QED
        BY <3>1, <4>2, <4>3, <2>2, <2>3, <2>4, <2>5, <2>7 DEF RunCommand
    <3>2. CASE LevelsSet(i)
      BY <3>2, <2>2, <2>3, <2>6, <2>7 DEF LevelsSet
    <3> QED
      BY <1>3, <3>1, <3>2
<1> QED
  BY <1>1, <1>2, <1>3 DEF Next

LEMMA AdminInit == Init => AdminInv
BY DEF Init, AdminInv, Justified

\* A Write disturbs nothing of it, and raises what is known of the peak.
LEMMA WriteJustified ==
  ASSUME TypeOK, AdminInv, NEW u \in User, NEW level \in Level,
         NEW jobs \in [Interaction -> Job], Write(u, level, jobs),
         \A i \in Interaction :
           jobs[i] = job[i] \/ jobs[i] = Over(job[i])
  PROVE  AdminInv'
<1> SUFFICES ASSUME NEW i \in Interaction
             PROVE  Justified(i)'
  BY DEF AdminInv
<1> DEFINE j == job[i]
<1>1. /\ job'[i].stage = jobs[i].stage /\ job'[i].user = jobs[i].user
      /\ job'[i].target = jobs[i].target /\ job'[i].row = jobs[i].row
      /\ job'[i].peak \in Level /\ jobs[i].peak \in Level /\ job'[i].peak >= jobs[i].peak
      /\ jobs[i].user = u /\ jobs[i].stage \notin {"new", "over"} => job'[i].peak >= level
  BY PermLevelsAssumption DEF Write, Job, Level
<1>2. CASE jobs[i].stage = "over"
  BY <1>1, <1>2 DEF Justified
<1>3. CASE jobs[i] = job[i]
  <2>1. j.stage = "selectLevel" /\ j.user \in DOMAIN users' => users'[j.user] <= job'[i].peak
    <3> SUFFICES ASSUME j.stage = "selectLevel", j.user \in DOMAIN users'
                 PROVE  users'[j.user] <= job'[i].peak
      OBVIOUS
    <3>1. CASE j.user = u
      BY <1>1, <1>3, <3>1 DEF Write, Level
    <3>2. CASE j.user # u
      <4>1. j.user \in DOMAIN users /\ users'[j.user] = users[j.user]
        BY <3>2 DEF Write
      <4>2. users[j.user] \in Level /\ users[j.user] <= j.peak
        BY <4>1 DEF AdminInv, Justified, TypeOK
      <4> QED
        BY <1>1, <1>3, <4>1, <4>2, PermLevelsAssumption DEF Level
    <3> QED
      BY <3>1, <3>2
  <2>2. j.row \in Level /\ j.row <= j.peak => j.row <= job'[i].peak
    BY <1>1, <1>3, PermLevelsAssumption DEF Level
  <2>3. j.peak >= 2 => job'[i].peak >= 2
    BY <1>1, <1>3, PermLevelsAssumption DEF Level
  <2> QED
    BY <1>1, <1>3, <2>1, <2>2, <2>3 DEF AdminInv, Justified
<1> QED
  BY <1>2, <1>3 DEF TypeOK, Job, Over

LEMMA AdminNext == TypeOK /\ AdminInv /\ [Next]_vars => AdminInv'
<1> SUFFICES ASSUME TypeOK, AdminInv, [Next]_vars
             PROVE  AdminInv'
  OBVIOUS
<1> USE PermLevelsAssumption
<1>1. CASE UNCHANGED vars
  BY <1>1 DEF AdminInv, Justified, vars
<1>2. CASE BotEnds
  BY <1>2 DEF TypeOK, AdminInv, Justified, BotEnds, Over, Job
<1>3. ASSUME NEW i \in Interaction, RunCommand(i) \/ LevelsSet(i)
      PROVE  AdminInv'
  <2>1. ASSUME NEW u \in User, NEW target, NEW level, Arrive(i, u, target, level)
        PROVE  AdminInv'
    <3>1. u \in DOMAIN users => users[u] <= LevelOf(u)
      BY DEF TypeOK, Level, LevelOf
    <3> QED
      BY <2>1, <3>1 DEF TypeOK, AdminInv, Justified, Arrive
  <2>2. CASE SelectLevel(i)
    <3>1. LET row == RowOf(job[i].user) IN row \in Level => row <= job[i].peak
      BY <2>2 DEF AdminInv, Justified, SelectLevel, Queried, RowOf, Level
    <3> QED
      BY <2>2, <3>1 DEF TypeOK, AdminInv, Justified, SelectLevel, Queried, Job
  <2>3. CASE NewUser(i) \/ TurnedAway(i) \/ OtherCommand(i) \/ TargetFails(i) \/ UpsertFails(i)
    <3>1. job' = [job EXCEPT ![i] = Over(@)] /\ UNCHANGED users
      BY <2>3 DEF NewUser, TurnedAway, OtherCommand, TargetFails, UpsertFails, Return
    <3>2. job'[i].stage = "over"
      BY <3>1, OverType DEF TypeOK
    <3>3. \A k \in Interaction : k # i => job'[k] = job[k]
      BY <3>1 DEF TypeOK
    <3>4. Justified(i)'
      BY <3>2 DEF Justified
    <3> QED
      BY <3>1, <3>3, <3>4 DEF AdminInv, Justified
  <2>4. CASE LevelKnown(i) \/ TargetKnown(i)
    BY <2>4 DEF TypeOK, AdminInv, Justified, LevelKnown, TargetKnown, Goto, Job
  <2>5. CASE SetLevel(i)
    <3>1. job[i].target \in User /\ job[i].peak >= 2
      BY <2>5 DEF TypeOK, AdminInv, Justified, SetLevel, May, Goto, Job, Level
    <3> QED
      BY <2>5, <3>1 DEF TypeOK, AdminInv, Justified, SetLevel, Goto, Job
  <2>6. CASE SelectTarget(i)
    BY <2>6 DEF TypeOK, AdminInv, Justified, SelectTarget, Queried, Job
  <2>7. CASE InsertRow(i)
    BY <2>7, WriteJustified DEF InsertRow, TypeOK, Job, Level
  <2>8. CASE InsertConflicts(i)
    BY <2>8 DEF TypeOK, AdminInv, Justified, InsertConflicts, BotEnds, Over, Job
  <2>9. CASE Upsert(i)
    <3> DEFINE jobs == [job EXCEPT ![i] = Over(@)]
    <3>1. jobs \in [Interaction -> Job]
      BY OverType DEF TypeOK
    <3>2. \A k \in Interaction : jobs[k] = job[k] \/ jobs[k] = Over(job[k])
      BY DEF TypeOK
    <3>3. job[i].target \in User /\ job[i].newLevel \in Level
      BY <2>9 DEF Upsert, NewLevel, AdminInv, Justified, TypeOK, Job
    <3>4. Write(job[i].target, job[i].newLevel, jobs)
      BY <2>9 DEF Upsert, NewLevel
    <3> HIDE DEF jobs
    <3> QED
      BY <3>1, <3>2, <3>3, <3>4, WriteJustified
  <2> QED
    BY <1>3, <2>1, <2>2, <2>3, <2>4, <2>5, <2>6, <2>7, <2>8, <2>9 DEF RunCommand, LevelsSet
<1> QED
  BY <1>1, <1>2, <1>3 DEF Next

LEMMA PermInvariant == Spec => [](TypeOK /\ AdminInv)
BY PermTypeInit, PermTypeNext, AdminInit, AdminNext, PTL DEF Spec

\* Every variable stays in its range.
THEOREM PermTypeCorrect == Spec => []TypeOK
BY PermInvariant, PTL

\* Only levels set changes a level that the table holds.
THEOREM LevelsAreKept == Spec => LevelKept
<1>1. TypeOK /\ [Next]_vars =>
        [\A u \in DOMAIN users :
           /\ u \in DOMAIN users'
           /\ users'[u] # users[u] =>
                \E i \in Interaction : /\ job[i].stage = "upsert"
                                       /\ job[i].target = u
                                       /\ job[i].newLevel = users'[u]]_vars
  <2> SUFFICES ASSUME TypeOK, Next, NEW u \in DOMAIN users
               PROVE  /\ u \in DOMAIN users'
                      /\ users'[u] # users[u] =>
                           \E i \in Interaction : /\ job[i].stage = "upsert"
                                                  /\ job[i].target = u
                                                  /\ job[i].newLevel = users'[u]
    OBVIOUS
  <2>1. CASE users' = users
    BY <2>1
  <2>2. ASSUME NEW i \in Interaction, InsertRow(i)
        PROVE  u \in DOMAIN users' /\ users'[u] = users[u]
    BY <2>2 DEF InsertRow, Write
  <2>3. ASSUME NEW i \in Interaction, Upsert(i)
        PROVE  /\ u \in DOMAIN users'
               /\ users'[u] # users[u] => job[i].target = u /\ job[i].newLevel = users'[u]
    BY <2>3 DEF Upsert, NewLevel, Write
  <2>4. users' = users \/ \E i \in Interaction : InsertRow(i) \/ Upsert(i)
    BY DEF Next, BotEnds, RunCommand, LevelsSet, Arrive, SelectLevel, NewUser, TurnedAway,
           LevelKnown, InsertConflicts, SetLevel, OtherCommand, SelectTarget, TargetKnown,
           TargetFails, UpsertFails
  <2> QED
    BY <2>1, <2>2, <2>3, <2>4 DEF Upsert, NewLevel
<1> QED
  BY <1>1, PermInvariant, PTL DEF Spec, LevelKept

\* A level is set only for somebody who was an admin since his command came.
THEOREM SetOnlyByAdmin == Spec => []SetByAdmin
<1>1. AdminInv => SetByAdmin
  BY DEF AdminInv, Justified, SetByAdmin
<1> QED
  BY <1>1, PermInvariant, PTL
=============================================================================
