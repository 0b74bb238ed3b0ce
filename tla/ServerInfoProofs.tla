-------------------------- MODULE ServerInfoProofs --------------------------
(* Proofs about ServerInfo, for any number of users and interactions: what *)
(* is proved of PermLevels carries over, and the address is kept.          *)
EXTENDS ServerInfo, PermLevelsProofs

\* Every step is one of PermLevels, or leaves its variables alone.
LEMMA InfoStep == [InfoNext]_infoVars => [Next]_vars
<1> SUFFICES ASSUME [InfoNext]_infoVars
             PROVE  [Next]_vars
  OBVIOUS
<1>1. CASE UNCHANGED infoVars
  BY <1>1 DEF infoVars
<1>2. CASE Ends
  BY <1>2 DEF Ends, Next, RunCommand
<1>3. ASSUME NEW i \in Interaction,
             Arrives(i) \/ Elsewhere(i) \/ Proceeds(i) \/ Update(i)
      PROVE  [Next]_vars
  BY <1>3 DEF Arrives, Elsewhere, Proceeds, Update, Next, RunCommand
<1>4. ASSUME NEW i \in Interaction, GetServerInfo(i) \/ SetInfo(i) \/ GetPublicIp(i)
      PROVE  [Next]_vars
  BY <1>4 DEF GetServerInfo, SetInfo, GetPublicIp
<1> QED
  BY <1>1, <1>2, <1>3, <1>4 DEF InfoNext

LEMMA InfoRefinesPermLevels == InfoSpec => Spec
BY InfoStep, PTL DEF InfoSpec, InfoInit, Spec

\* With the row of the server about, levels are set by admins only.
THEOREM InfoSetsByAdmin == InfoSpec => []SetByAdmin
BY InfoRefinesPermLevels, SetOnlyByAdmin, PTL

\* With the row of the server about, only levels set changes a level.
THEOREM InfoKeepsLevels == InfoSpec => LevelKept
BY InfoRefinesPermLevels, LevelsAreKept, PTL
-----------------------------------------------------------------------------
LEMMA InfoTypeNext == InfoTypeOK /\ TypeOK' /\ [InfoNext]_infoVars => InfoTypeOK'
<1> SUFFICES ASSUME InfoTypeOK, TypeOK', [InfoNext]_infoVars
             PROVE  InfoTypeOK'
  OBVIOUS
<1> USE DEF InfoTypeOK, Info, NoInfo
<1>1. CASE UNCHANGED infoVars
  BY <1>1 DEF infoVars
<1>2. CASE Ends
  BY <1>2 DEF Ends
<1>3. ASSUME NEW i \in Interaction, Arrives(i) \/ Elsewhere(i) \/ Proceeds(i)
      PROVE  InfoTypeOK'
  <2>1. CASE Arrives(i)
    BY <2>1 DEF Arrives
  <2>2. CASE Elsewhere(i)
    BY <2>2 DEF Elsewhere
  <2>3. CASE Proceeds(i)
    BY <2>3 DEF Proceeds, Forgotten
  <2> QED
    BY <1>3, <2>1, <2>2, <2>3
<1>4. ASSUME NEW i \in Interaction, GetServerInfo(i) \/ SetInfo(i) \/ GetPublicIp(i)
      PROVE  InfoTypeOK'
  BY <1>4 DEF GetServerInfo, SetInfo, GetPublicIp
<1>5. ASSUME NEW i \in Interaction, Update(i)
      PROVE  InfoTypeOK'
  <2>1. exposed' \in BOOLEAN
    BY <1>5 DEF Update
  <2>2. \A k \in Interaction : [info[k] EXCEPT !.everExposed = TRUE] \in Info
    OBVIOUS
  <2> QED
    BY <1>5, <2>1, <2>2 DEF Update
<1> QED
  BY <1>1, <1>2, <1>3, <1>4, <1>5 DEF InfoNext

\* What an interaction knows of the row was so at some time since it arrived.
Witnessed(i) ==
  /\ info[i].stage # "none" => job[i].stage = "serverInfo"
  /\ Deciding(i) /\ exposed => info[i].everExposed
  /\ info[i].stage = "known" /\ info[i].exposed => info[i].everExposed
  /\ info[i].stage = "reply" => info[i].everExposed \/ job[i].peak >= 2

AddressInv == \A i \in Interaction : Witnessed(i)

\* What the other steps of a command do to an interaction: it goes on in its
\* stage, its peak no lower, or it was not with getServerInfo or beyond.
LEMMA ElsewhereKeeps ==
  ASSUME TypeOK, AdminInv, NEW i \in Interaction, Elsewhere(i), NEW k \in Interaction
  PROVE  \/ job'[k].stage = job[k].stage /\ job'[k].peak >= job[k].peak
         \/ job[k].stage # "serverInfo" /\ (Deciding(k)' => Deciding(k))
<1> USE DEF TypeOK, Deciding
<1>1. job[k].peak \in Int
  BY PermLevelsAssumption DEF Job, Level
<1>2. CASE k # i /\ (SelectLevel(i) \/ LevelKnown(i) \/ SelectTarget(i) \/ TargetKnown(i)
                     \/ TargetFails(i) \/ UpsertFails(i))
  BY <1>1, <1>2 DEF SelectLevel, LevelKnown, SelectTarget, TargetKnown, TargetFails, UpsertFails,
                    Queried, Goto, Return
<1>3. CASE k = i /\ (SelectLevel(i) \/ LevelKnown(i))
  BY <1>3 DEF SelectLevel, LevelKnown, Queried, Goto
<1>4. CASE k = i /\ (SelectTarget(i) \/ TargetKnown(i))
  <2>1. job'[i].stage \in {"targetRow", "upsert"} /\ job[i].stage \in {"selectTarget", "targetRow"}
    <3>1. CASE SelectTarget(i)
      BY <3>1 DEF SelectTarget, Queried
    <3>2. CASE TargetKnown(i)
      BY <3>2 DEF TargetKnown, Goto
    <3> QED
      BY <1>4, <3>1, <3>2
  <2> QED
    BY <1>4, <2>1
<1>5. CASE k = i /\ (TargetFails(i) \/ UpsertFails(i))
  BY <1>5, OverType DEF TargetFails, UpsertFails, Return
<1>6. ASSUME NEW u \in User, NEW level \in Level, NEW jobs \in [Interaction -> Job],
             Write(u, level, jobs)
      PROVE  job'[k].stage = jobs[k].stage /\ job'[k].peak >= jobs[k].peak
  BY <1>6, PermLevelsAssumption DEF Write, Job, Level
<1>7. CASE InsertRow(i)
  <2>1. job[i].user \in User /\ 0 \in Level
    BY PermLevelsAssumption DEF Job, Level
  <2> QED
    BY <1>6, <1>7, <2>1 DEF InsertRow
<1>8. CASE Upsert(i)
  <2> DEFINE jobs == [job EXCEPT ![i] = Over(@)]
  <2>1. jobs \in [Interaction -> Job] /\ jobs[i].stage = "over"
    BY OverType
  <2>2. job[i].target \in User /\ job[i].newLevel \in Level
    BY <1>8 DEF Upsert, AdminInv, Justified, Job
  <2>3. Write(job[i].target, job[i].newLevel, jobs)
    BY <1>8 DEF Upsert, NewLevel
  <2>4. k # i => jobs[k] = job[k]
    OBVIOUS
  <2> HIDE DEF jobs
  <2>5. job'[k].stage = jobs[k].stage /\ job'[k].peak >= jobs[k].peak
    BY <1>6, <2>1, <2>2, <2>3
  <2> QED
    BY <1>8, <2>1, <2>4, <2>5 DEF Upsert
<1> QED
  BY <1>2, <1>3, <1>4, <1>5, <1>7, <1>8 DEF Elsewhere, LevelsSet

LEMMA AddressInit == InfoInit => AddressInv
BY DEF InfoInit, Init, NoInfo, AddressInv, Witnessed, Deciding

LEMMA AddressNext ==
  InfoTypeOK /\ TypeOK' /\ AdminInv /\ AddressInv /\ [InfoNext]_infoVars => AddressInv'
<1> SUFFICES ASSUME InfoTypeOK, TypeOK', AdminInv, AddressInv, [InfoNext]_infoVars,
                    NEW k \in Interaction
             PROVE  Witnessed(k)'
  BY DEF AddressInv
<1>0. Witnessed(k)
  BY DEF AddressInv
<1> USE DEF InfoTypeOK, TypeOK, Witnessed, Deciding
<1>1. CASE UNCHANGED infoVars
  BY <1>0, <1>1 DEF infoVars, vars
<1>2. CASE Ends
  <2>1. job'[k].stage \in {"new", "over"}
    BY <1>2, OverType DEF Ends, InsertConflicts, BotEnds
  <2> QED
    BY <1>2, <2>1 DEF Ends, NoInfo
<1>3. ASSUME NEW i \in Interaction, Arrives(i)
      PROVE  Witnessed(k)'
  BY <1>0, <1>3 DEF Arrives, Arrive, NoInfo
<1>4. ASSUME NEW i \in Interaction, GetServerInfo(i)
      PROVE  Witnessed(k)'
  BY <1>0, <1>4 DEF GetServerInfo, vars, Info
<1>5. ASSUME NEW i \in Interaction, Elsewhere(i)
      PROVE  Witnessed(k)'
  <2>1. \/ job'[k].stage = job[k].stage /\ job'[k].peak >= job[k].peak
        \/ job[k].stage # "serverInfo" /\ (Deciding(k)' => Deciding(k))
    BY <1>5, ElsewhereKeeps
  <2>2. job[k].peak \in Int /\ job'[k].peak \in Int
    BY PermLevelsAssumption DEF Job, Level
  <2> QED
    BY <1>0, <1>5, <2>1, <2>2 DEF Elsewhere
<1>6. ASSUME NEW i \in Interaction, Proceeds(i)
      PROVE  Witnessed(k)'
  <2>1. /\ info' = [info EXCEPT ![i] = NoInfo]
        /\ UNCHANGED exposed
        /\ job'[i].stage \in {"selectTarget", "over"}
        /\ k # i => job'[k] = job[k]
    <3>1. CASE SetLevel(i)
      BY <1>6, <3>1 DEF Proceeds, Forgotten, SetLevel, Goto
    <3>2. CASE NewUser(i) \/ TurnedAway(i) \/ OtherCommand(i)
      <4>1. job' = [job EXCEPT ![i] = Over(@)]
        BY <3>2 DEF NewUser, TurnedAway, OtherCommand, Return
      <4> QED
        BY <1>6, <4>1, OverType DEF Proceeds, Forgotten
    <3> QED
      BY <1>6, <3>1, <3>2 DEF Proceeds
  <2> QED
    BY <1>0, <2>1 DEF NoInfo
<1>7. ASSUME NEW i \in Interaction, SetInfo(i)
      PROVE  Witnessed(k)'
  BY <1>0, <1>7 DEF SetInfo, vars, Info
<1>8. ASSUME NEW i \in Interaction, Update(i)
      PROVE  Witnessed(k)'
  <2>1. /\ job'[i].stage = "over"
        /\ k # i => job'[k] = job[k]
    BY <1>8, OverType DEF Update, OtherCommand, Return
  <2>2. CASE k = i
    BY <1>8, <2>1, <2>2 DEF Update, NoInfo
  <2>3. CASE k # i
    BY <1>0, <1>8, <2>1, <2>3 DEF Update, Info
  <2> QED
    BY <2>2, <2>3
<1>9. ASSUME NEW i \in Interaction, GetPublicIp(i)
      PROVE  Witnessed(k)'
  BY <1>0, <1>9, PermLevelsAssumption DEF GetPublicIp, MayAsk, vars, Info, AdminInv, Justified, Job, Level
<1> QED
  BY <1>1, <1>2, <1>3, <1>4, <1>5, <1>6, <1>7, <1>8, <1>9 DEF InfoNext

LEMMA InfoInvariant == InfoSpec => [](InfoTypeOK /\ AddressInv)
<1>1. InfoInit => InfoTypeOK
  BY PermTypeInit DEF InfoInit, InfoTypeOK, Info, NoInfo
<1>2. InfoSpec => [](TypeOK /\ AdminInv)
  BY InfoRefinesPermLevels, PermInvariant, PTL
<1> QED
  BY <1>1, <1>2, AddressInit, InfoTypeNext, AddressNext, PTL DEF InfoSpec

\* Every variable of the commands and of the row stays in its range.
THEOREM InfoTypeCorrect == InfoSpec => []InfoTypeOK
BY InfoInvariant, PTL

\* Nobody is about to be shown the address who was not entitled to it at some
\* time since his command came, whatever others set meanwhile.
THEOREM AddressIsKept == InfoSpec => []AddressKept
<1>1. AddressInv => AddressKept
  BY DEF AddressInv, Witnessed, AddressKept
<1> QED
  BY <1>1, InfoInvariant, PTL
=============================================================================
