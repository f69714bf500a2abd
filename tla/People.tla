------------------------------ MODULE People ------------------------------
(* Household accounts and the record that takes access away: people.py changes
   Authentik's accounts under one lock; access.py records a hold, which Mu3Lab's
   own API honours at once, and queues one revocation per target, which a loop
   in the worker and a thread of the API attempt until each is done.

   Authentik, ContextForge, LiteLLM and the chat apps are external: an account,
   a session, and the set of things Mu3Lab issued to a person. *)
EXTENDS Naturals, FiniteSets

CONSTANTS
  Household,   \* the people other than akadmin
  Akadmin,     \* akadmin, which no change may touch, is an effective administrator
  Runners,     \* access.run: the worker's loop and one background thread of the API
  Follow,      \* the credentials followed: each comes and goes by itself
  Watch,       \* the revocations followed: each is attempted and marked by itself
  MaxChanges,  \* changes of a person an administrator makes
  MaxSetbacks   \* calls to another service that fail, and deaths of the API

Credentials == {"assistants", "gateway_key", "contextforge_admin", "voice_key",
                "voice_file", "copy", "calendar", "calendar_key"}

ASSUME PeopleAssumption == /\ MaxChanges \in Nat /\ MaxSetbacks \in Nat
                           /\ Runners \subseteq {"loop", "api"} /\ Akadmin \in BOOLEAN
                           /\ "authentik_role" \in Watch
                           /\ Follow \subseteq Credentials

VARIABLES
  account,  \* Authentik: per person active or not, and the groups
  session,  \* the role an open browser session claims, "none" without one
  hold,     \* access_holds: none, deactivated or demoted
  task,     \* access_revocations: per person and target none, pending or done
  change,   \* the half of people.change after its hold was written, under people.lock
  runner,   \* per runner the rows it read and the verdict it has still to write
  asked,    \* people whose change left work: the API attempts it at once
  creds,    \* what Mu3Lab issued to the person and has not taken back
  demotion, \* history: one neither finished nor taken back, "kept" or by now "lost"
  changes, setbacks

peopleVars == <<account, session, hold, task, change, runner, asked, creds,
                demotion, changes, setbacks>>

Groups == {"operators", "household", "superusers"}
HoldTargets == [deactivated |-> Watch \cap {"authentik_account", "authentik_sessions", "gateway",
                                        "contextforge_admin", "voice_key", "chat"},
            demoted |-> Watch \cap {"authentik_role", "contextforge_admin"}]
AllTargets == HoldTargets.deactivated \cup HoldTargets.demoted
Roles == [admin |-> "operators", member |-> "household"]
NoTasks == [t \in AllTargets |-> "none"]
NoChange == [who |-> "none", act |-> "none", unfinished |-> FALSE]
IdleRunner == [due |-> {}, verdict |-> <<>>]

RoleOf(groups) == IF groups \cap {"operators", "superusers"} # {} THEN "admin"
                  ELSE IF "household" \in groups THEN "member" ELSE "none"
Role(p) == RoleOf(account[p].groups)

(* security.resolve_identity: the session's claim, cut down by the hold. *)
Identity(p) == CASE hold[p] = "deactivated" -> "none"
                 [] hold[p] = "demoted" /\ session[p] = "admin" -> "member"
                 [] OTHER -> session[p]
EffectiveAdmin(p) == account[p].active /\ Role(p) = "admin" /\ hold[p] = "none"
Spared(p) == EffectiveAdmin(p) /\ ~Akadmin /\ ~\E other \in Household \ {p} : EffectiveAdmin(other)

(* Administrators, some just demoted while Authentik did not answer; a member is
   what a demotion leaves. *)
PeopleInit ==
  /\ demotion \in [Household -> {"none", "kept"}]
  /\ account = [p \in Household |-> [active |-> TRUE, groups |-> {Roles.admin}]]
  /\ session = [p \in Household |-> "admin"]
  /\ hold = [p \in Household |-> IF demotion[p] = "kept" THEN "demoted" ELSE "none"]
  /\ task = [p \in Household |-> [t \in AllTargets |->
               IF demotion[p] = "kept" /\ t \in HoldTargets.demoted THEN "pending" ELSE "none"]]
  /\ change = NoChange
  /\ runner = [r \in Runners |-> IdleRunner]
  /\ asked = {}
  /\ creds = [p \in Household |-> {}]
  /\ changes = 0 /\ setbacks = 0

------------------------------------------------------------------------------
(* access.record and access.release, each one transaction. *)
Recorded(p, kind) ==
  /\ hold' = [hold EXCEPT ![p] = kind]
  /\ task' = [task EXCEPT ![p] =
                [t \in AllTargets |-> IF t \in HoldTargets[kind] THEN "pending" ELSE @[t]]]
  /\ demotion' = IF kind = "demoted" THEN [demotion EXCEPT ![p] = "kept"] ELSE demotion
Unrecorded == UNCHANGED <<hold, task, demotion>>
Record(p, kind) ==
  IF hold[p] = "deactivated" /\ kind = "demoted" THEN Unrecorded ELSE Recorded(p, kind)
Release_KeepsTasks(p, kind) ==   \* mutant: the rows outlive their hold
  IF hold[p] # kind THEN Unrecorded
  ELSE /\ hold' = [hold EXCEPT ![p] = "none"]
       /\ demotion' = IF kind = "demoted" THEN [demotion EXCEPT ![p] = "none"] ELSE demotion
       /\ UNCHANGED task
Release(p, kind) ==
  IF hold[p] # kind THEN Unrecorded
  ELSE /\ hold' = [hold EXCEPT ![p] = "none"]
       /\ task' = [task EXCEPT ![p] = NoTasks]
       /\ demotion' = IF kind = "demoted" THEN [demotion EXCEPT ![p] = "none"] ELSE demotion

PendingOf(p) == {t \in AllTargets : task[p][t] = "pending"}
AskIfPending(p) ==  \* the answer shows a hold that is not finished
  asked' = IF hold'[p] # "none" /\ \E t \in AllTargets : task'[p][t] = "pending"
           THEN asked \cup {p} ELSE asked

Asks(p) ==  \* the request reaches people.change: the person is one of Mu3Lab's
  /\ change = NoChange /\ changes < MaxChanges /\ changes' = changes + 1
  /\ Role(p) # "none"

Deactivate(p) ==
  /\ Asks(p) /\ ~Spared(p)
  /\ Record(p, "deactivated") /\ AskIfPending(p)
  /\ UNCHANGED <<account, session, change, runner, creds, setbacks>>

Demote(p) ==
  /\ Asks(p) /\ ~Spared(p)
  /\ IF Role(p) = "admin" THEN Record(p, "demoted") ELSE Unrecorded
  /\ change' = [who |-> p, act |-> "member", unfinished |-> FALSE]
  /\ UNCHANGED <<account, session, runner, asked, creds, setbacks>>

Promote(p) ==
  /\ Asks(p)
  /\ Release(p, "demoted")
  /\ change' = [who |-> p, act |-> "admin", unfinished |-> FALSE]
  /\ UNCHANGED <<account, session, runner, asked, creds, setbacks>>

Unfinished_Forgotten(p) == FALSE   \* mutant: reactivation looks at no earlier demotion
Unfinished(p) == task[p]["authentik_role"] = "pending"
Reactivate(p) ==
  /\ Asks(p)
  /\ Release(p, "deactivated")
  /\ change' = [who |-> p, act |-> "reactivate", unfinished |-> Unfinished(p)]
  /\ UNCHANGED <<account, session, runner, asked, creds, setbacks>>

(* The calls to Authentik _set_role makes, in order: it adds before it removes,
   and a failed call leaves the rest undone. *)
RoleCalls == [admin |-> <<"household">>, member |-> <<"superusers", "operators">>]
AfterCalls(groups, role, done) ==  \* done: calls that succeeded, the first one adds
  IF done = 0 THEN groups
  ELSE (groups \cup {Roles[role]}) \ {RoleCalls[role][n] : n \in 1 .. (done - 1)}
AllCalls(role) == IF role = "admin" THEN 2 ELSE 3

(* A demotion that record did not write down, of somebody deactivated, is lost
   when Authentik leaves the group: the hold makes people.change accept it. *)
Forgotten(p) == hold[p] = "deactivated" /\ task[p]["authentik_role"] # "pending"

SetRole(p, role) ==
  /\ change.who = p /\ change.act = role
  /\ UNCHANGED <<hold, task>>
  /\ \E done \in 0 .. AllCalls(role) :
       LET after == AfterCalls(account[p].groups, role, done) IN
       /\ account' = [account EXCEPT ![p].groups = after]
       /\ IF done = AllCalls(role) THEN UNCHANGED setbacks
          ELSE setbacks < MaxSetbacks /\ setbacks' = setbacks + 1
       /\ IF done = AllCalls(role) \/ (role = "member" /\ hold[p] # "none")
          THEN AskIfPending(p) ELSE UNCHANGED asked
       /\ demotion' = [demotion EXCEPT ![p] =
            CASE RoleOf(after) # "admin" \/ (role = "admin" /\ @ = "lost") -> "none"
              [] RoleOf(after) = "admin" /\ role = "member" /\ Forgotten(p) -> "lost"
              [] OTHER -> @]
  /\ change' = NoChange
  /\ UNCHANGED <<session, runner, creds, changes>>

(* The rest of a reactivation: an unfinished demotion is recorded again, in a
   transaction of its own ... *)
RecordAgain(p) ==
  /\ change.who = p /\ change.act = "reactivate" /\ change.unfinished
  /\ Record(p, "demoted")
  /\ change' = [change EXCEPT !.unfinished = FALSE]
  /\ UNCHANGED <<account, session, runner, asked, creds, changes, setbacks>>

(* ... then Authentik lets the person sign in, unless that call fails. *)
LetBackIn(p) ==
  /\ change.who = p /\ change.act = "reactivate" /\ ~change.unfinished
  /\ Unrecorded
  /\ \/ account' = [account EXCEPT ![p].active = TRUE] /\ AskIfPending(p) /\ UNCHANGED setbacks
     \/ /\ setbacks < MaxSetbacks /\ setbacks' = setbacks + 1
        /\ UNCHANGED <<account, asked>>
  /\ change' = NoChange
  /\ UNCHANGED <<session, runner, creds, changes>>

(* The API dies: the change under way, what it was asked and its thread are gone,
   and with a reactivation that released its hold the demotion it had read. *)
ApiDies ==
  /\ change # NoChange \/ asked # {}
  /\ setbacks < MaxSetbacks /\ setbacks' = setbacks + 1
  /\ demotion' = IF change.unfinished /\ ~Unfinished(change.who)
                 THEN [demotion EXCEPT ![change.who] = "lost"] ELSE demotion
  /\ change' = NoChange /\ asked' = {}
  /\ runner' = [r \in Runners |-> IF r = "api" THEN IdleRunner ELSE runner[r]]
  /\ UNCHANGED <<account, session, hold, task, creds, changes>>

------------------------------------------------------------------------------
(* access.run: the rows are read once, then handled one by one in the order they
   were recorded, and marked by subject and target alone. *)
Order == <<"authentik_role", "authentik_account", "authentik_sessions", "gateway",
           "contextforge_admin", "voice_key", "chat">>
Upcoming(r) ==
  LET rows == runner[r].due
      gateway == IF r = "api" THEN {row \in rows : row[2] = "gateway"} ELSE {} IN
  IF gateway # {} THEN gateway ELSE {row \in rows : \A n \in DOMAIN Order : Order[n] = row[2]
                     => \A m \in 1 .. (n - 1) : <<row[1], Order[m]>> \notin rows}
Reads(r, rows) ==
  /\ runner[r] = IdleRunner /\ rows # {}
  /\ runner' = [runner EXCEPT ![r].due = rows]
DueRows_OnlyDeactivated ==   \* mutant: a demotion's rows are never read
  UNION {{p} \X PendingOf(p) : p \in {q \in Household : hold[q] = "deactivated"}}
DueRows == UNION {{p} \X PendingOf(p) : p \in {q \in Household : hold[q] # "none"}}

ReadDue ==
  /\ Reads("loop", DueRows)
  /\ UNCHANGED <<account, session, hold, task, demotion, change, asked, creds, changes, setbacks>>

(* After a change, the gateway's row within the request and all of the person's
   rows in a thread: one reading here, the gateway first. *)
ReadAsked(p) ==
  /\ "api" \in Runners /\ runner["api"] = IdleRunner /\ p \in asked
  /\ runner' = [runner EXCEPT !["api"].due = {row \in DueRows : row[1] = p}]
  /\ asked' = asked \ {p}
  /\ UNCHANGED <<account, session, hold, task, demotion, change, creds, changes, setbacks>>

Keeps == UNCHANGED <<account, session, creds>>
Loses(p, what) == creds' = [creds EXCEPT ![p] = @ \ what] /\ UNCHANGED <<account, session>>
RoleTaken(groups) == groups \ {"operators", "superusers"}

(* list_people as person_connectors.household and voice_tools.build read it. *)
Listed(p) == account[p].active /\ Role(p) # "none" /\ hold[p] # "deactivated"

(* chat_ops.revoke: assistants, copies, the calendar key, the calendar's tools in
   ContextForge and the voice file, in that order. *)
ChatTools(p) ==
  {"assistants", "copy", "calendar_key", "calendar"} \cup IF Listed(p) THEN {} ELSE {"voice_file"}
Handler(p, t) ==
  CASE t = "authentik_account" -> /\ account' = [account EXCEPT ![p].active = FALSE]
                                  /\ UNCHANGED <<session, creds>>
    [] t = "authentik_sessions" -> /\ session' = [session EXCEPT ![p] = "none"]
                                   /\ UNCHANGED <<account, creds>>
    [] t = "authentik_role" -> /\ account' = [account EXCEPT ![p].groups = RoleTaken(@)]
                               /\ UNCHANGED <<session, creds>>
    [] t = "gateway" -> Loses(p, {"gateway_key"})
    [] t = "contextforge_admin" -> Loses(p, {"contextforge_admin"})
    [] t = "voice_key" -> Loses(p, {"voice_key"})
    [] t = "chat" -> Loses(p, ChatTools(p))
Fails(p, t) == Keeps \/ (t = "chat" /\ Loses(p, {"assistants"}))

(* The chat's handler swallows a failure of ContextForge, with which the calendar's
   tools stay without the key they need, and one of the voice file. *)
Swallows(p, t) ==
  t = "chat" /\ \E left \in {{"calendar"}, {"voice_file"}, {"calendar", "voice_file"}} :
                  Loses(p, ChatTools(p) \ left)

Handle(r) ==
  /\ runner[r].verdict = <<>>
  /\ \E row \in Upcoming(r), result \in {"done", "pending"} :
       /\ demotion' = IF row[2] = "authentik_role" /\ result = "done"
                      THEN [demotion EXCEPT ![row[1]] = "none"] ELSE demotion
       /\ \/ Handler(row[1], row[2]) /\ result = "done" /\ UNCHANGED setbacks
          \/ /\ setbacks < MaxSetbacks /\ setbacks' = setbacks + 1
             /\ \/ Fails(row[1], row[2]) /\ result = "pending"
                \/ Swallows(row[1], row[2]) /\ result = "done"
       /\ runner' = [runner EXCEPT ![r] = [due |-> @.due \ {row}, verdict |-> <<row, result>>]]
  /\ UNCHANGED <<hold, task, change, asked, changes>>

(* A verdict on an earlier hold's row may meet the row of a newer one. *)
MarkRow(r) ==
  /\ runner[r].verdict # <<>>
  /\ LET row == runner[r].verdict[1] IN
       /\ task' = [task EXCEPT ![row[1]][row[2]] = IF @ = "none" THEN @ ELSE runner[r].verdict[2]]
       /\ demotion' = IF row[2] = "authentik_role" /\ runner[r].verdict[2] = "done"
                         /\ demotion[row[1]] = "kept"
                      THEN [demotion EXCEPT ![row[1]] = "lost"] ELSE demotion
  /\ runner' = [runner EXCEPT ![r].verdict = <<>>]
  /\ UNCHANGED <<account, session, hold, change, asked, creds, changes, setbacks>>

------------------------------------------------------------------------------
(* What the person does: signs in, to Mu3Lab and to ContextForge, which takes the
   rights Authentik's group gives only then; and makes a voice key.  Sessions
   are followed where the revocation that ends them is. *)
SignIn(p) ==
  /\ account[p].active
  /\ session' = IF "authentik_sessions" \in Watch THEN [session EXCEPT ![p] = Role(p)] ELSE session
  /\ creds' = [creds EXCEPT ![p] = IF "operators" \in account[p].groups
                                   THEN @ \cup ({"contextforge_admin"} \cap Follow)
                                   ELSE @ \ {"contextforge_admin"}]
  /\ UNCHANGED <<account, hold, task, demotion, change, runner, asked, changes, setbacks>>
MakeVoiceKey(p) ==
  /\ Identity(p) # "none"
  /\ creds' = [creds EXCEPT ![p] = @ \cup ({"voice_key"} \cap Follow)]
  /\ UNCHANGED <<account, session, hold, task, demotion, change, runner, asked, changes, setbacks>>

PersonStep(p) == SignIn(p) \/ MakeVoiceKey(p)
ChangeStep(p) ==
  \/ Deactivate(p) \/ Demote(p) \/ Promote(p) \/ Reactivate(p)
  \/ SetRole(p, "admin") \/ SetRole(p, "member") \/ RecordAgain(p) \/ LetBackIn(p)
RunnerStep ==
  ReadDue \/ (\E p \in Household : ReadAsked(p)) \/ \E r \in Runners : Handle(r) \/ MarkRow(r)
============================================================================
