------------------------------ MODULE Access ------------------------------
(* The worker's passes that give the household its tools (ctl/mcp_ops.py,
   chat_ops.sync_agents, voice_tools.sync), composed with the revocations of
   People: each pass reads who is in the household, then gives and takes. *)
EXTENDS People

CONSTANTS Owners   \* the owner of the private app keeps the app's own connector

VARIABLES
  pass,     \* what the worker does: idle, or which tools it is about to settle
  seen,     \* the people that pass read
  giving    \* those of them whose calendar tools it is making

accessVars == <<peopleVars, pass, seen, giving>>

NextPass(at) == CASE at = "copies" -> "calendar" [] at = "entries" -> "chat"
               [] at = "chat" -> "voice" [] at = "voice" -> "idle"
Everyone == {p \in Household : Listed(p)}
(* people.chat_people: Authentik's word only, whatever is held. *)
ChatPeople == {p \in Household : account[p].active /\ Role(p) # "none"}

AccessInit == PeopleInit /\ pass = "idle" /\ seen = {} /\ giving = {}

Unpassed == <<account, session, hold, task, demotion, change, runner, asked, changes>>
BeginPass ==
  /\ pass = "idle" /\ pass' = "copies" /\ seen' = Everyone
  /\ UNCHANGED <<peopleVars, giving>>

(* Each pass ends by reading the household for the next one. *)
Moves ==
  /\ pass' = NextPass(pass)
  /\ seen' = IF NextPass(pass) \in {"calendar", "voice"} THEN Everyone ELSE {}
  /\ UNCHANGED Unpassed
Fail == setbacks < MaxSetbacks /\ setbacks' = setbacks + 1
(* A person the pass fails for keeps what they have, but what it loses them. *)
Settles(members, gives, takes, loses) ==
  \E failing \in SUBSET Household :
    /\ IF failing = {} THEN UNCHANGED setbacks ELSE Cardinality(failing) = 1 /\ Fail
    /\ creds' = [p \in Household |->
                   IF p \in failing THEN IF p \in members THEN creds[p] \ loses ELSE creds[p]
                   ELSE IF p \in members THEN creds[p] \cup (gives[p] \cap Follow)
                   ELSE creds[p] \ takes]

Copies_NeverRemoved == {}   \* mutant: nobody who left loses a copy
CopiesRemoved == {"copy"}
SyncCopies ==
  /\ pass = "copies"
  /\ Settles(seen, [p \in Household |-> IF p \in Owners THEN {} ELSE {"copy"}], CopiesRemoved, {})
  /\ Moves /\ UNCHANGED giving

(* Whoever has a record is skipped, whatever became of the key; for the others
   the key is made first, the record of ContextForge's entries written last. *)
MakeCalendarKeys ==
  /\ pass = "calendar" /\ pass' = "entries"
  /\ giving' = {p \in seen : "calendar" \notin creds[p]}
  /\ creds' = [p \in Household |->
                 IF p \in giving' THEN creds[p] \cup ({"calendar_key"} \cap Follow) ELSE creds[p]]
  /\ UNCHANGED <<Unpassed, setbacks, seen>>
SyncCalendar ==
  /\ pass = "entries"
  /\ Settles(seen, [p \in Household |-> IF p \in giving THEN {"calendar"} ELSE {}], {"calendar"}, {})
  /\ Moves /\ giving' = {}

(* The chat apps' pass holds the chat-assistants lock from its reading to its
   last write, as the revocations of chat and gateway do: it is one step.
   desired_assistants gives each connected person's assistants a key of their
   own, made or made again when ContextForge no longer has it (person_key). *)
SyncChat ==
  /\ pass = "chat"
  /\ Settles(ChatPeople, [p \in Household |-> {"assistants", "gateway_key"}], {"assistants"}, {})
  /\ Moves /\ UNCHANGED giving

(* A person whose tools cannot be read is written without any; a file that cannot
   be made stays as it is. *)
SyncVoice ==
  /\ pass = "voice"
  /\ \/ Settles(seen, [p \in Household |-> {"voice_file", "gateway_key"}], {"voice_file"}, {"voice_file"})
     \/ Fail /\ UNCHANGED creds
  /\ Moves /\ UNCHANGED giving

PassStep == BeginPass \/ SyncCopies \/ MakeCalendarKeys \/ SyncCalendar \/ SyncChat \/ SyncVoice
AccessNext ==
  \/ PassStep
  \/ (\E p \in Household : ChangeStep(p) \/ PersonStep(p)) /\ UNCHANGED <<pass, seen, giving>>
  \/ (RunnerStep \/ ApiDies) /\ UNCHANGED <<pass, seen, giving>>

AccessSpec == AccessInit /\ [][AccessNext]_accessVars
(* The worker's loops and the API's threads run; a person need never come back. *)
AccessFairSpec ==
  /\ AccessSpec
  /\ WF_accessVars(PassStep)
  /\ WF_accessVars(ReadDue /\ UNCHANGED <<pass, seen, giving>>)
  /\ \A r \in Runners : WF_accessVars((Handle(r) \/ MarkRow(r)) /\ UNCHANGED <<pass, seen, giving>>)
  /\ WF_accessVars((\E p \in Household : ReadAsked(p)) /\ UNCHANGED <<pass, seen, giving>>)
  /\ \A p \in Household : WF_accessVars(
       (SetRole(p, "admin") \/ SetRole(p, "member") \/ RecordAgain(p) \/ LetBackIn(p))
         /\ UNCHANGED <<pass, seen, giving>>)

------------------------------------------------------------------------------
AccessTypeOK ==
  /\ account \in [Household -> [active : BOOLEAN, groups : SUBSET Groups]]
  /\ session \in [Household -> {"none", "member", "admin"}]
  /\ hold \in [Household -> {"none", "deactivated", "demoted"}]
  /\ task \in [Household -> [AllTargets -> {"none", "pending", "done"}]]
  /\ asked \subseteq Household /\ demotion \in [Household -> {"none", "kept", "lost"}]
  /\ creds \in [Household -> SUBSET Follow]
  /\ pass \in {"idle", "copies", "calendar", "entries", "chat", "voice"}
  /\ seen \subseteq Household /\ giving \subseteq Household

(* A revocation only ever belongs to a hold. *)
TasksHaveAHold == \A p \in Household : hold[p] = "none" => task[p] = NoTasks

(* A demotion whose group change never finished is not lost when the person is
   deactivated and let back in, however the revocations interleave: until a
   runner took the group or a promotion withdrew the hold, its revocation is
   pending, or the reactivation under way is about to record it again
   (people.change: "Reactivation must not hand back an administrator role").
   There are three ways to lose one, and no other: the API dies between the two
   transactions of a reactivation; Authentik refuses the group change of somebody
   who is deactivated already, for whom record writes no row; a runner writes
   its verdict on an earlier demotion over the row of a newer one. *)
DemotionIsKept ==
  \A p \in Household :
    demotion[p] = "kept" =>
      task[p]["authentik_role"] = "pending" \/ (change.who = p /\ change.unfinished)

(* Every revocation of a hold that stays is eventually done: a failed service, a
   busy chat lock or a second runner only delay it (access.run's promise). *)
RevocationsEnd == \A p \in Household : <>[](hold[p] # "none" => PendingOf(p) = {})

(* Once the household stops changing, a deactivated person's copy, calendar tools
   and voice tools are gone, even when a pass that had read them as a member gave
   them back after the revocation, or the revocation swallowed a failure; everyone
   who stays in the household has them.  Having calendar tools is having their
   record: tools of somebody who was deactivated before may have lost their key
   for good (CalendarWorks), and the calendar refuses whoever is under a hold. *)
ToolsFollowTheHousehold ==
  \A p \in Household :
    /\ <>[](hold[p] = "deactivated") => <>[](creds[p] \cap {"copy", "calendar", "voice_file"} = {})
    /\ <>[]Listed(p) => <>[](/\ {"calendar", "voice_file"} \subseteq creds[p]
                             /\ p \in Owners \/ "copy" \in creds[p])

(* access.summary says of a deactivation without a pending task that every
   Mu3Lab-issued credential is revoked; so no key of the person works then. *)
RevokedMeansRevoked ==
  \A p \in Household : hold[p] = "deactivated" /\ PendingOf(p) = {}
                         => creds[p] \cap {"gateway_key", "voice_key"} = {}

(* What a reader might expect and the code does not do: whoever is in the
   household and under no hold has calendar tools that work; and no accepted
   demotion is lost. *)
CalendarWorks ==
  \A p \in Household :
    <>[](Listed(p) /\ hold[p] = "none") => <>[]({"calendar", "calendar_key"} \subseteq creds[p])
NoDemotionIsLost == \A p \in Household : demotion[p] # "lost"
============================================================================
