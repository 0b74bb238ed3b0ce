----------------------------- MODULE ServerInfo -----------------------------
(***************************************************************************)
(* The row of a channel's server in the table servers, as slash commands   *)
(* change and use it: set-info with "Expose Public IP", and get-public-ip, *)
(* which shows the address to those who may see it (src/SMTCBot/commands/  *)
(* setinfo.js, getpublicip.js).  Of the row only exposePublicIp matters.   *)
(*                                                                         *)
(* The commands are those of PermLevels, interleaved with it; runCommand   *)
(* reads the row between its look at the level and the command itself.     *)
(***************************************************************************)
EXTENDS PermLevels

VARIABLES
  exposed,  \* whether exposePublicIp is anything but 0
  info      \* what each interaction knows of the row, or sets it to

infoVars == <<vars, exposed, info>>

\* everExposed is history: at some time since the interaction arrived.
Info == [ stage       : {"none", "known", "update", "reply"},
          exposed     : BOOLEAN,
          everExposed : BOOLEAN ]

NoInfo == [stage |-> "none", exposed |-> FALSE, everExposed |-> FALSE]

InfoTypeOK ==
  /\ TypeOK
  /\ exposed \in BOOLEAN
  /\ info \in [Interaction -> Info]

InfoInit ==
  /\ Init
  /\ exposed \in BOOLEAN
  /\ info = [i \in Interaction |-> NoInfo]

\* On the way to its command, or in it.
Deciding(i) == job[i].stage \in {"selectLevel", "levelRow", "serverInfo"}

Forgotten(i) == info' = [info EXCEPT ![i] = NoInfo]
-----------------------------------------------------------------------------
Arrives(i) ==
  /\ \E u \in User :
       \/ Arrive(i, u, NoUser, 0)
       \/ \E target \in User, level \in Level : Arrive(i, u, target, level)
  /\ info' = [info EXCEPT ![i] = [NoInfo EXCEPT !.everExposed = exposed]]
  /\ UNCHANGED exposed

Ends ==
  /\ BotEnds \/ \E i \in Interaction : InsertConflicts(i)
  /\ info' = [i \in Interaction |-> NoInfo]
  /\ UNCHANGED exposed

\* await serverManager.getServerInfo(interaction)
GetServerInfo(i) ==
  /\ job[i].stage = "serverInfo"
  /\ info[i].stage = "none"
  /\ info' = [info EXCEPT ![i].stage = "known", ![i].exposed = exposed]
  /\ UNCHANGED <<vars, exposed>>

\* The steps of a command that have nothing to do with the row.
Elsewhere(i) ==
  /\ SelectLevel(i) \/ LevelKnown(i) \/ InsertRow(i) \/ LevelsSet(i)
  /\ UNCHANGED <<exposed, info>>

\* levels set, or the end of this command: no row for the user or the channel,
\* a refusal, a reply (one with the address, or with the error of the UPDATE).
Proceeds(i) ==
  /\ \/ NewUser(i) \/ TurnedAway(i)
     \/ info[i].stage = "known" /\ SetLevel(i)
     \/ info[i].stage # "none" /\ OtherCommand(i)
  /\ Forgotten(i)
  /\ UNCHANGED exposed

\* set-info has level 2.
SetInfo(i) ==
  /\ info[i].stage = "known"
  /\ job[i].row >= 2
  /\ \E value \in BOOLEAN : info' = [info EXCEPT ![i].stage = "update", ![i].exposed = value]
  /\ UNCHANGED <<vars, exposed>>

\* UPDATE servers SET exposePublicIp = ?
Update(i) ==
  /\ info[i].stage = "update"
  /\ OtherCommand(i)
  /\ exposed' = info[i].exposed
  /\ info' = [k \in Interaction |->
                IF k = i THEN NoInfo
                ELSE IF Deciding(k) /\ exposed'
                  THEN [info[k] EXCEPT !.everExposed = TRUE] ELSE info[k]]

MayAskAnybody(i) == job[i].row >= 1  \* mutant: no look at exposePublicIp

\* get-public-ip has level 1, and refuses if hidden and below level 2.
MayAsk(i) == job[i].row >= 1 /\ (info[i].exposed \/ job[i].row >= 2)

\* The address comes from another server: await fetch.
GetPublicIp(i) ==
  /\ info[i].stage = "known"
  /\ MayAsk(i)
  /\ info' = [info EXCEPT ![i].stage = "reply"]
  /\ UNCHANGED <<vars, exposed>>

InfoNext ==
  \/ Ends
  \/ \E i \in Interaction :
       \/ Arrives(i) \/ GetServerInfo(i) \/ Elsewhere(i) \/ Proceeds(i)
       \/ SetInfo(i) \/ Update(i) \/ GetPublicIp(i)

InfoSpec == InfoInit /\ [][InfoNext]_infoVars
-----------------------------------------------------------------------------
\* The address is on its way only to a user who was an admin, or while it was
\* exposed, at some time since he gave the command: the level and the row are
\* read at two moments and used at a third, after both may have changed.
AddressKept ==
  \A i \in Interaction :
    info[i].stage = "reply" => info[i].everExposed \/ job[i].peak >= 2
=============================================================================
