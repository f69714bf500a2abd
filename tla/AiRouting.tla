---------------------------- MODULE AiRouting ----------------------------
(* Where the household's AI requests go (ctl/local_models.py, provider_ops.py,
   core_wiring.py).  The owner's choices for chat and voice and the state of an
   outside provider are records; a job renders them into the files of the
   provider gateway and the model proxy, which read them when they start.
   There is one local model and one provider.  Jobs of the AI settings share
   one service, those of the provider another; the worker runs one at a time.
   The runner of the local model and how the voice assistant talks are changed
   by DuplexSwitch, which composes the two. *)
EXTENDS Naturals, Sequences

CONSTANTS
  Chats, Voices,  \* the settings an owner of this instance chooses from
  MaxAsks,        \* jobs asked for
  MaxTrouble,     \* commands that fail
  MaxCuts         \* executions cut short: the worker dies, the job is cancelled

Sources == {"outside", "outside_first", "local_first", "local_only"}
Privacies == {"outside_allowed", "local_first", "local_only"}
ASSUME RoutingAssumption ==
  /\ Chats \subseteq Sources /\ Voices \subseteq Privacies \cup {"follows"}
  /\ {MaxAsks, MaxTrouble, MaxCuts} \subseteq Nat

VARIABLES
  chat, voice,  \* the stored settings
  provider,     \* the provider's connection record
  secret,       \* whether its key is stored
  file,         \* what the rendered files say: the key, the chat and voice routes
  live,         \* what the running gateway and proxy use
  shown,        \* the setting the chat app's list of models follows
  engine,       \* the record of how the voice assistant talks
  up,           \* what runs on the graphics card
  queue,        \* the jobs not ended, oldest first
  run,          \* the execution in progress
  last,         \* how the last execution ended
  spent         \* the bounds used up

records == <<chat, voice, provider, secret>>
routing == <<records, file, live, shown>>
jobs == <<queue, run, last, spent>>

Runner == "ollama"
AiKinds == {"chat", "voice", "engine"}
ProviderKinds == {"save", "verify", "disable", "remove"}
Idle == [at |-> "idle", round |-> "first", before |-> "none", wrote |-> {}, stopped |-> {}, failed |-> FALSE,
         fresh |-> FALSE, honest |-> FALSE]
NoEnd == [kind |-> "none", outcome |-> "none", fresh |-> FALSE, honest |-> FALSE]

(* ---- The settings and what they render to ------------------------------- *)
Privacy == [outside |-> "outside_allowed", outside_first |-> "outside_allowed",
            local_first |-> "local_first", local_only |-> "local_only"]
VoiceOf == IF voice = "follows" THEN Privacy[chat] ELSE voice
OutsideUsed == chat # "local_only" \/ VoiceOf # "local_only"
Key == IF ~secret THEN "none"
       ELSE IF OutsideUsed /\ provider \in {"verifying", "verified"} THEN "on" ELSE "off"
Rendered == [key |-> Key, models |-> [chat |-> chat, voice |-> VoiceOf]]

\* An import of the gateway's file adds and updates keys, and removes none.
Imported == IF file.key = "none" THEN live.key ELSE file.key
Fresh == live.models = file.models /\ live.key = Imported
\* The record of chat says "local only" only while no chat request goes outside.
Honest == chat = "local_only" => live.models.chat = "local_only"

Init ==
  /\ chat \in Chats /\ voice \in Voices
  /\ provider \in {"absent", "verified"} /\ secret = (provider = "verified")
  /\ file = Rendered /\ live = Rendered /\ shown = chat
  /\ engine = [mode |-> "pipeline", agent |-> "pipeline", stopped |-> {}]
  /\ queue = <<>> /\ run = Idle /\ last = NoEnd
  /\ spent = [asks |-> 0, trouble |-> 0, cuts |-> 0, late |-> FALSE, stuck |-> FALSE,
               lost |-> {}, unseen |-> {}]

(* ---- What people ask ---------------------------------------------------- *)
ServiceOf(kind) == IF kind \in AiKinds THEN "ai:models" ELSE "provider"
CanQueue(kind) ==
  /\ spent.asks < MaxAsks
  /\ \A i \in DOMAIN queue : ServiceOf(queue[i].kind) # ServiceOf(kind)
Queue(kind, want) ==
  /\ queue' = Append(queue, [kind |-> kind, want |-> want, cut |-> FALSE])
  /\ spent' = [spent EXCEPT !.asks = @ + 1]
  /\ UNCHANGED <<run, last>>

AskChat(want) ==
  /\ CanQueue("chat") /\ engine.mode # "duplex" /\ want # chat
  /\ Queue("chat", want) /\ UNCHANGED <<routing, engine, up>>
AskVoice(want) ==
  /\ CanQueue("voice") /\ engine.mode # "duplex" /\ want # voice
  /\ Queue("voice", want) /\ UNCHANGED <<routing, engine, up>>
\* The key and the state of the connection are stored with the job.
SaveKey ==
  /\ CanQueue("save") /\ Queue("save", "none")
  /\ secret' = TRUE /\ provider' = "verifying"
  /\ UNCHANGED <<chat, voice, file, live, shown, engine, up>>
AskProvider(kind) ==
  /\ provider # "absent" /\ CanQueue(kind) /\ Queue(kind, "none")
  /\ UNCHANGED <<routing, engine, up>>

(* ---- Claiming, ending and cutting an execution -------------------------- *)
Job == queue[1]
At(place) == run.at = place
Doing(kinds) == queue # <<>> /\ Job.kind \in kinds
Go(place) == run' = [run EXCEPT !.at = place] /\ UNCHANGED <<queue, last>>
Reconcile(round) ==
  run' = [run EXCEPT !.at = "write", !.round = round] /\ UNCHANGED <<queue, last>>
Without(i) == SubSeq(queue, 1, i - 1) \o SubSeq(queue, i + 1, Len(queue))
End(outcome) ==
  /\ queue' = Tail(queue) /\ run' = Idle
  /\ last' = [kind |-> Job.kind, outcome |-> outcome, fresh |-> run.fresh, honest |-> run.honest]
Succeeds == UNCHANGED spent
Fails == spent.trouble < MaxTrouble /\ spent' = [spent EXCEPT !.trouble = @ + 1]

\* The oldest job, or the next one while a cut one's lease runs.
Claim ==
  /\ At("idle") /\ queue # <<>>
  /\ \E i \in DOMAIN queue :
       /\ i = 1 \/ queue[1].cut
       /\ queue' = <<queue[i]>> \o Without(i)
       /\ run' = [Idle EXCEPT !.at = IF queue[i].kind \in {"chat", "voice"} THEN "fetch" ELSE "begin",
                              !.fresh = Fresh, !.honest = Honest]
  /\ UNCHANGED <<routing, engine, up, last, spent>>

\* `late`: the switch had forgotten the apps it was about to start.
Cut ==
  /\ ~At("idle") /\ spent.cuts < MaxCuts
  /\ spent' = [spent EXCEPT !.cuts = @ + 1,
                            !.late = @ \/ (run.stopped # {} /\ engine.mode = "pipeline")]
  /\ \/ queue' = [queue EXCEPT ![1].cut = TRUE]
     \/ queue' = Tail(queue)
  /\ run' = Idle /\ last' = [NoEnd EXCEPT !.outcome = "cut"]
  /\ UNCHANGED <<routing, engine, up>>

(* ---- The jobs of chat and voice ----------------------------------------- *)
NeedsRunner(kind, want) == kind = "chat" \/ want \in {"local_first", "local_only"}
\* Voice that follows chat needs the runner when chat's setting does.
Wanted == IF Job.want = "follows" THEN Privacy[chat] ELSE Job.want

Fetch ==
  /\ At("fetch")
  /\ \/ /\ NeedsRunner(Job.kind, Wanted) => Runner \in up
        /\ run' = [run EXCEPT !.at = "save", !.before = IF Job.kind = "chat" THEN chat ELSE voice]
        /\ UNCHANGED <<queue, last>> /\ Succeeds
     \/ /\ NeedsRunner(Job.kind, Wanted)
        /\ IF Runner \in up THEN Fails ELSE Succeeds
        /\ End("failed")
  /\ UNCHANGED <<routing, engine, up>>

Save(value) ==
  IF Job.kind = "chat" THEN chat' = value /\ UNCHANGED voice ELSE voice' = value /\ UNCHANGED chat
SaveChoice ==
  /\ At("save") /\ Save(Job.want) /\ Reconcile("first")
  /\ UNCHANGED <<provider, secret, file, live, shown, engine, up, spent>>

\* mu3lab-local, or the voice's routes in their order, as the proxy runs them.
Answers(privacy) ==
  \/ privacy # "outside_allowed" /\ Runner \in up
  \/ privacy # "local_only" /\ live.key = "on"
ProbeMayPass ==
  IF Job.kind = "chat" THEN live.models.chat # "outside" /\ Runner \in up
                       ELSE Answers(live.models.voice)
AfterProbe == IF Job.kind = "chat" THEN Go("follow") ELSE End("succeeded")
Probe ==
  /\ At("probe")
  /\ \/ ProbeMayPass /\ AfterProbe /\ Succeeds
     \/ (IF ProbeMayPass THEN Fails ELSE Succeeds) /\ Go("undo")
  /\ UNCHANGED <<routing, engine, up>>
Undo ==
  /\ At("undo") /\ Save(run.before) /\ Reconcile("again")
  /\ UNCHANGED <<provider, secret, file, live, shown, engine, up, spent>>

\* Mutant: the earlier setting is recorded as it was.
NeverMorePrivate_Earlier == run.before
\* The earlier setting, with the outside first when either setting allows it.
Outside(setting) == setting # "local_only"
NeverMorePrivate ==
  IF Outside(run.before) \/ Outside(Job.want)
  THEN IF run.before = "outside" THEN "outside" ELSE "outside_first"
  ELSE run.before
UndoFails ==
  /\ chat' = IF Job.kind = "chat" THEN NeverMorePrivate ELSE chat
  /\ UNCHANGED <<voice, provider, secret>> /\ End("failed")

Follow ==
  /\ At("follow")
  /\ \/ shown' = chat /\ Succeeds /\ End("succeeded")
     \/ shown' \in {shown, chat} /\ Fails /\ End("failed")
  /\ UNCHANGED <<records, file, live, engine, up>>

(* ---- The provider's jobs ------------------------------------------------ *)
ProviderBegins ==
  /\ At("begin") /\ Doing(ProviderKinds)
  /\ CASE Job.kind = "disable" -> provider' = "disabled" /\ Reconcile("first") /\ UNCHANGED secret
       [] Job.kind = "remove" -> provider' = "removing" /\ secret' = FALSE /\ Reconcile("first")
       [] OTHER -> /\ UNCHANGED secret
                   /\ IF OutsideUsed THEN provider' = "verifying" /\ Reconcile("first")
                                     ELSE UNCHANGED provider /\ End("failed")
  /\ UNCHANGED <<chat, voice, file, live, shown, engine, up, spent>>

\* The gateway's own check of the key, and mu3lab-fast through the proxy.
CheckMayPass ==
  /\ live.key # "none" /\ secret
  /\ IF live.models.chat \in {"local_first", "local_only"} THEN Runner \in up ELSE live.key = "on"
Check ==
  /\ At("check")
  /\ \/ CheckMayPass /\ provider' = "verified"
     \/ provider' = "degraded"
  /\ Reconcile("again")
  /\ UNCHANGED <<chat, voice, secret, file, live, shown, engine, up, spent>>

(* ---- Rendering the records and restarting what changed ------------------ *)
Reconciled ==
  CASE Job.kind \in {"chat", "voice"} /\ run.round = "again" ->
         UNCHANGED records /\ End("failed")
    [] Job.kind = "chat" /\ run.round = "first" ->
         UNCHANGED records /\ (IF Job.want = "outside" THEN Go("follow") ELSE Go("probe"))
    [] Job.kind = "voice" /\ run.round = "first" -> UNCHANGED records /\ Go("probe")
    [] Job.kind \in {"save", "verify"} /\ run.round = "first" -> UNCHANGED records /\ Go("check")
    [] Job.kind \in {"save", "verify"} /\ run.round = "again" ->
         UNCHANGED records /\ End(IF provider = "verified" THEN "succeeded" ELSE "failed")
    [] Job.kind = "disable" -> UNCHANGED records /\ End("succeeded")
    [] Job.kind = "remove" ->
         provider' = "absent" /\ UNCHANGED <<chat, voice, secret>> /\ End("succeeded")
NotReconciled ==
  CASE Job.kind \in {"chat", "voice"} /\ run.round = "first" -> UNCHANGED records /\ Go("undo")
    [] Job.kind \in {"chat", "voice"} /\ run.round = "again" -> UndoFails
    [] Job.kind \in {"save", "verify"} /\ run.round = "first" ->
         provider' = "degraded" /\ UNCHANGED <<chat, voice, secret>> /\ Reconcile("again")
    [] Job.kind \in {"save", "verify"} /\ run.round = "again" ->
         UNCHANGED records /\ End(IF provider = "verified" THEN "succeeded" ELSE "failed")
    [] Job.kind \in {"disable", "remove"} -> UNCHANGED records /\ End("failed")

\* The gateway's file is written before the proxy's.  A file that cannot be
\* written fails the reconciliation, or with it the whole job of a provider.
Write ==
  /\ At("write")
  /\ \/ /\ file' = Rendered /\ Succeeds
        /\ run' = [run EXCEPT !.at = "gateway",
             !.wrote = {part \in {"key", "models"} : file[part] # Rendered[part]}]
        /\ UNCHANGED <<records, queue, last>>
     \/ /\ file' \in {file, [file EXCEPT !.key = Rendered.key], Rendered} /\ Fails
        /\ \/ NotReconciled
           \/ Job.kind \in {"save", "verify"} /\ UNCHANGED records /\ End("failed")
  /\ UNCHANGED <<live, shown, engine, up>>

\* Mutant: only a changed gateway is recreated.
Started_GatewayOnly(part) ==
  IF part \in run.wrote /\ part = "key" THEN [live EXCEPT !.key = Imported] ELSE live
\* A start recreates a project only when its own files changed.
Started(part) ==
  IF part \notin run.wrote THEN live
  ELSE [live EXCEPT ![part] = IF part = "key" THEN Imported ELSE file.models]
Up(part, next) ==
  \/ live' = Started(part) /\ Go(next) /\ Succeeds /\ UNCHANGED records
  \/ live' \in {live, Started(part)} /\ Fails /\ NotReconciled
UpGateway == At("gateway") /\ Up("key", "models") /\ UNCHANGED <<file, shown, engine, up>>
UpModels == At("models") /\ Up("models", "forget") /\ UNCHANGED <<file, shown, engine, up>>
Forget ==
  /\ At("forget")
  /\ \/ live' = [live EXCEPT !.key = IF secret THEN @ ELSE "none"] /\ Reconciled /\ Succeeds
     \/ UNCHANGED live /\ NotReconciled /\ Fails
  /\ UNCHANGED <<file, shown, engine, up>>

RoutingAsks ==
  \/ \E want \in Chats : AskChat(want)
  \/ \E want \in Voices : AskVoice(want)
  \/ SaveKey
  \/ \E kind \in {"verify", "disable", "remove"} : AskProvider(kind)
RoutingSteps ==
  \/ Fetch \/ SaveChoice \/ Probe \/ Undo \/ Follow \/ ProviderBegins \/ Check
  \/ Write \/ UpGateway \/ UpModels \/ Forget

(* ---- Properties --------------------------------------------------------- *)
\* A key was saved, and its own job has not ended.
SaveAsked == \E i \in DOMAIN queue : queue[i].kind = "save"
\* A job that finds the running gateway and proxy on their files and says it
\* succeeded leaves the owner's settings served (local_models._apply): chat,
\* voice and the chat app's list, and no key routable that should not be, but
\* one that was saved meanwhile and whose own job is still to come.
SuccessIsServed ==
  At("idle") /\ last.outcome = "succeeded" /\ last.kind # "engine" /\ last.fresh =>
    /\ live.models = Rendered.models
    /\ live.key = "on" => Key = "on" \/ SaveAsked
    /\ last.kind = "chat" => shown = chat

\* An execution that finds the gateway and the proxy on their files, and the
\* record of chat true, leaves it true however it ends by itself: also a change
\* whose rollback failed does not record "local only" while chat may go outside
\* (roll_back: "never claim more privacy than may be true").  One that finds
\* them behind their files, as a failed rollback or a cut leaves them, may
\* (PrivacyIsServed).
NeverClaimsMorePrivacy ==
  At("idle") /\ last.outcome \in {"succeeded", "failed"} /\ last.fresh /\ last.honest => Honest

\* A connection is forgotten only once the gateway holds no key of it, also
\* after failures, crashes and cancellations (_forget_removed_keys).
RemovedKeysGone == provider = "absent" => ~secret /\ live.key = "none"

\* What an execution records promises no more than the gateway and the proxy
\* keep: of privacy, when it found them on their files, and of a connection
\* that it forgets.
RecordsAreKept == NeverClaimsMorePrivacy /\ RemovedKeysGone

\* Once a change to local only has succeeded, no chat route goes outside
\* (the module's docstring), whatever happened before.
PrivacyIsServed ==
  At("idle") /\ last.outcome = "succeeded" /\ last.kind = "chat" /\ chat = "local_only"
    => live.models.chat = "local_only"
============================================================================
