----------------------------- MODULE PermLevels -----------------------------
(***************************************************************************)
(* The bot's permission levels: the table users of database.db, the check  *)
(* that commandManager.runCommand makes of every slash command, and the    *)
(* one command that changes the table, "levels set" (src/SMTCBot/src/      *)
(* commandManager.js, commands/levels.js, commands/levels/set.js).         *)
(*                                                                         *)
(* sqlite3 executes the statements on other threads and in any order; the  *)
(* callbacks run later, one at a time.  So executing a statement and its   *)
(* callback are two steps, and what a callback looks at may be stale.      *)
(***************************************************************************)
EXTENDS Integers

CONSTANTS
  User,         \* Discord users
  Interaction,  \* slash commands, each issued once at most
  MaxLevel,     \* bound on the levels
  NoUser, NoRow

ASSUME PermLevelsAssumption ==
  /\ MaxLevel \in Nat /\ MaxLevel >= 2
  /\ NoUser \notin User
  /\ NoRow \notin -1 .. MaxLevel

\* The command's option is any integer; one below 0 stands for all of them.
Level == -1 .. MaxLevel

VARIABLES
  users,      \* the table: permLevel of the users that have a row
  job,        \* what each interaction is waiting for, and its local variables
  inserting   \* interactions whose INSERT of a new user is queued

vars == <<users, job, inserting>>

Stage == { "new",
           "selectLevel", "levelRow",    \* runCommand: query, callback
           "serverInfo",                 \* runCommand: await getServerInfo
           "selectTarget", "targetRow",  \* levels set: query, callback
           "upsert",                     \* levels set: INSERT ... ON CONFLICT
           "over" }                      \* replied to, or lost with the bot

\* target is NoUser for every command but levels set; row is the result of the
\* last query; peak is history: the user's highest level since the interaction
\* arrived.
Job == [ stage : Stage, user : User, target : User \union {NoUser},
         newLevel : Level, row : Level \union {NoRow}, peak : Level ]

LevelOf(u) == IF u \in DOMAIN users THEN users[u] ELSE 0

RowOf(u) == IF u \in DOMAIN users THEN users[u] ELSE NoRow

TypeOK ==
  /\ DOMAIN users \subseteq User
  /\ \A u \in DOMAIN users : users[u] \in Level
  /\ job \in [Interaction -> Job]
  /\ inserting \subseteq Interaction

Init ==
  /\ \E known \in SUBSET User : users \in [known -> Level]
  /\ \E u \in User :
       job = [i \in Interaction |->
                [stage |-> "new", user |-> u, target |-> NoUser, newLevel |-> 0,
                 row |-> NoRow, peak |-> 0]]
  /\ inserting = {}

Goto(i, from, to) ==
  /\ job[i].stage = from
  /\ job' = [job EXCEPT ![i].stage = to]

\* Its local variables are gone.
Over(j) == [j EXCEPT !.stage = "over", !.target = NoUser, !.newLevel = 0,
                     !.row = NoRow, !.peak = 0]

Return(i, from) ==
  /\ job[i].stage = from
  /\ job' = [job EXCEPT ![i] = Over(@)]

Queried(i, from, to, u) ==
  /\ job[i].stage = from
  /\ job' = [job EXCEPT ![i].stage = to, ![i].row = RowOf(u)]
-----------------------------------------------------------------------------
(* The table's statements that write.                                      *)

\* u's row becomes level; the interactions of u in flight take note.
Write(u, level, jobs) ==
  /\ users' = [v \in DOMAIN users \union {u} |-> IF v = u THEN level ELSE users[v]]
  /\ job' = [i \in Interaction |->
               IF /\ jobs[i].user = u /\ jobs[i].peak < level
                  /\ jobs[i].stage \notin {"new", "over"}
                 THEN [jobs[i] EXCEPT !.peak = level] ELSE jobs[i]]

\* The bot's process ends and is started again: callbacks and queued
\* statements are gone, the table stays.
BotEnds ==
  /\ job' = [i \in Interaction |->
               IF job[i].stage = "new" THEN job[i] ELSE Over(job[i])]
  /\ inserting' = {}
  /\ UNCHANGED users
-----------------------------------------------------------------------------
(* runCommand                                                              *)

Arrive(i, u, target, level) ==
  /\ job[i].stage = "new"
  /\ job' = [job EXCEPT ![i] = [stage |-> "selectLevel", user |-> u, target |-> target,
                                newLevel |-> level, row |-> NoRow, peak |-> LevelOf(u)]]
  /\ UNCHANGED <<users, inserting>>

SelectLevel(i) ==
  /\ Queried(i, "selectLevel", "levelRow", job[i].user)
  /\ UNCHANGED <<users, inserting>>

\* A new user gets a row, queued before the reply that turns him away.
NewUser(i) ==
  /\ job[i].row = NoRow
  /\ Return(i, "levelRow")
  /\ inserting' = inserting \union {i}
  /\ UNCHANGED users

\* Level 0, or err.
TurnedAway(i) ==
  /\ Return(i, "levelRow")
  /\ UNCHANGED <<users, inserting>>

LevelKnown(i) ==
  /\ job[i].row \in Level \ {0}
  /\ Goto(i, "levelRow", "serverInfo")
  /\ UNCHANGED <<users, inserting>>

InsertReplaces(i) ==  \* mutant: INSERT OR REPLACE
  /\ i \in inserting
  /\ Write(job[i].user, 0, job)
  /\ inserting' = inserting \ {i}

\* INSERT INTO users (userId, permLevel) VALUES (?, 0), userId being unique.
InsertRow(i) ==
  /\ i \in inserting
  /\ job[i].user \notin DOMAIN users
  /\ Write(job[i].user, 0, job)
  /\ inserting' = inserting \ {i}

\* The row is there already.  The call has no callback to take the error, so
\* it is emitted as an event that nobody listens to, which is thrown.
InsertConflicts(i) ==
  /\ i \in inserting
  /\ job[i].user \in DOMAIN users
  /\ BotEnds

MayUnchecked(i) ==  \* mutant: neither permissionLevel is looked at
  job[i].target # NoUser

\* permissionLevel of levels and of levels set; both are 2.
May(i) ==
  /\ job[i].target # NoUser
  /\ job[i].row >= 2

\* levels set, not on oneself: the target's level is looked up.
SetLevel(i) ==
  /\ Goto(i, "serverInfo", "selectTarget")
  /\ May(i)
  /\ job[i].target # job[i].user
  /\ UNCHANGED <<users, inserting>>

\* No server for the channel, a refusal, or a command that leaves the table
\* alone (levels set of a bot is one).
OtherCommand(i) ==
  /\ Return(i, "serverInfo")
  /\ UNCHANGED <<users, inserting>>
-----------------------------------------------------------------------------
(* levels set                                                              *)

SelectTarget(i) ==
  /\ Queried(i, "selectTarget", "targetRow", job[i].target)
  /\ UNCHANGED <<users, inserting>>

\* The group's execute passes on two of its three arguments, so that set's
\* permissionLevel is undefined: row >= undefined and level > undefined are
\* false for every row and level, and neither comparison ever refuses.
TargetKnown(i) ==
  /\ Goto(i, "targetRow", "upsert")
  /\ UNCHANGED <<users, inserting>>

TargetFails(i) ==  \* err
  /\ Return(i, "targetRow")
  /\ UNCHANGED <<users, inserting>>

NewLevelAdded(i) ==  \* mutant: permLevel + excluded.permLevel
  LevelOf(job[i].target) + job[i].newLevel

NewLevel(i) == job[i].newLevel

Upsert(i) ==
  /\ job[i].stage = "upsert"
  /\ Write(job[i].target, NewLevel(i), [job EXCEPT ![i] = Over(@)])
  /\ UNCHANGED inserting

UpsertFails(i) ==  \* err
  /\ Return(i, "upsert")
  /\ UNCHANGED <<users, inserting>>

LevelsSet(i) == SelectTarget(i) \/ TargetKnown(i) \/ TargetFails(i) \/ Upsert(i) \/ UpsertFails(i)

RunCommand(i) ==
  \/ \E u \in User :
       \/ Arrive(i, u, NoUser, 0)
       \/ \E target \in User, level \in Level : Arrive(i, u, target, level)
  \/ SelectLevel(i) \/ NewUser(i) \/ TurnedAway(i) \/ LevelKnown(i)
  \/ InsertRow(i) \/ InsertConflicts(i)
  \/ SetLevel(i) \/ OtherCommand(i)

Next == BotEnds \/ \E i \in Interaction : RunCommand(i) \/ LevelsSet(i)

Spec == Init /\ [][Next]_vars
-----------------------------------------------------------------------------
\* What levels set has put into the table stays until another levels set aimed
\* at the same user: the row that runCommand inserts for a user whom it did
\* not find never resets a level set since it looked.
LevelKept ==
  [][\A u \in DOMAIN users :
       /\ u \in DOMAIN users'
       /\ users'[u] # users[u] =>
            \E i \in Interaction : /\ job[i].stage = "upsert"
                                   /\ job[i].target = u
                                   /\ job[i].newLevel = users'[u]]_vars

\* Whoever is about to set a level had level 2 or more at some time since he
\* gave the command, although he may have lost it by now: runCommand's one
\* look at the level is carried through three later callbacks.
SetByAdmin ==
  \A i \in Interaction :
    job[i].stage \in {"selectTarget", "targetRow", "upsert"} => job[i].peak >= 2

\* The claim of the refusal at levels/set.js:42, "You cannot modify the
\* permission level of a user with equal or higher permission level than
\* yourself": whoever gets past it looked at a level below his own.
OnlyLowerLevels ==
  [][\A i \in Interaction :
       TargetKnown(i) /\ job[i].row # NoRow => job[i].row < job[i].peak]_vars
=============================================================================
