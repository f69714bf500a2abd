------------------------- MODULE DuplexSwitchProofs -------------------------
(***************************************************************************)
(* Proofs about DuplexSwitch and the routing it is composed with, for any  *)
(* number of GPU apps, asks, failing commands and executions cut short:    *)
(* what is recorded of privacy and of keys is kept, a job that succeeds    *)
(* leaves what the owner chose served, and the graphics card is shared     *)
(* without losing an app.                                                  *)
(***************************************************************************)
EXTENDS DuplexSwitch, FiniteSetTheorems, SequenceTheorems, TLAPS
-----------------------------------------------------------------------------
(* The inductive invariant: the jobs *)

\* The last rendering of the files may still be on its way into what runs.
Rendering == {"gateway", "models", "forget"}
Reconciling == {"write"} \cup Rendering
ChoicePlaces == {"fetch", "save", "probe", "undo", "follow"}
Kinds == AiKinds \cup ProviderKinds
Settings == Sources \cup Privacies \cup {"follows"}
Item == [kind : Kinds, want : Settings \cup Modes \cup {"none"}, cut : BOOLEAN]

RunType ==
  [at : {"idle"} \cup RoutingPlaces \cup SwitchPlaces, round : {"first", "again"},
   before : Settings \cup {"none"}, wrote : SUBSET {"key", "models"},
   stopped : SUBSET GpuApps, failed : BOOLEAN, fresh : BOOLEAN, honest : BOOLEAN]
LastType ==
  [kind : Kinds \cup {"none"}, outcome : {"none", "cut", "succeeded", "failed"},
   fresh : BOOLEAN, honest : BOOLEAN]
SpentType ==
  [asks : Nat, trouble : Nat, cuts : Nat, late : BOOLEAN, stuck : BOOLEAN,
   lost : SUBSET GpuApps, unseen : SUBSET (GpuApps \cup {Omni})]
TypeInv ==
  /\ TypeOK
  /\ run \in RunType /\ last \in LastType /\ spent \in SpentType

WantsOf(kind) ==
  CASE kind = "chat" -> Sources
    [] kind = "voice" -> Privacies \cup {"follows"}
    [] kind = "engine" -> Modes
    [] OTHER -> {"none"}
QueueInv ==
  /\ queue \in Seq(Item)
  /\ \A i \in DOMAIN queue : queue[i].want \in WantsOf(queue[i].kind)
  /\ \A i, j \in DOMAIN queue :
       i # j => ServiceOf(queue[i].kind) # ServiceOf(queue[j].kind)

Busy == run.at # "idle"

\* Which job is at which place, and what it has made of the setting it changes.
Setting == IF Job.kind = "chat" THEN chat ELSE voice
PlaceInv ==
  /\ Busy => queue # <<>>
  /\ run.at \in ChoicePlaces => Job.kind \in {"chat", "voice"}
  /\ run.at = "follow" => Job.kind = "chat"
  /\ run.at = "begin" => Job.kind \in ProviderKinds \cup {"engine"}
  /\ run.at = "check" => Job.kind \in {"save", "verify"}
  /\ run.at \in Reconciling => Job.kind # "engine"
  /\ run.at \in SwitchPlaces => Job.kind = "engine"
  /\ run.at \notin Reconciling => run.round = "first"
  /\ run.at \in Reconciling /\ Job.kind \in {"disable", "remove"} => run.round = "first"
  /\ Busy /\ Job.kind = "chat" /\ run.at # "fetch" => run.before \in Sources
  /\ Busy /\ Job.kind = "voice" /\ run.at # "fetch" => run.before \in Privacies \cup {"follows"}
  /\ run.at = "save" => run.before = Setting
  /\ run.at \in Reconciling \cup {"probe", "undo", "follow"} /\ Job.kind \in {"chat", "voice"} =>
       Setting = (IF run.round = "first" THEN Job.want ELSE run.before)

-----------------------------------------------------------------------------
(* The inductive invariant: the records, the files and what runs *)

\* A connection is forgotten after the key of it: in the store, in the file and
\* in the gateway.
RemovalInv ==
  /\ SaveAsked => secret
  /\ provider = "absent" => ~secret /\ live.key = "none" /\ file.key = "none"
  /\ run.at \in Reconciling /\ Job.kind = "remove" => ~secret /\ provider = "removing"
  /\ run.at \in Rendering /\ Job.kind = "remove" => file.key = "none"

\* What the files say is what the records say, once they are written; a key that
\* was saved since waits for a job of its own.
Written == Rendering \cup {"check", "probe", "follow"}
SaveWaits == \E i \in DOMAIN queue : i # 1 /\ queue[i].kind = "save"
FileInv ==
  /\ run.at \in Written => file.models = Rendered.models
  /\ run.at = "undo" => run.round = "first"
  /\ run.at \in Written /\ run.round = "first" => file.key = Key \/ SaveWaits

\* What runs follows the files, for an execution that began so.
WasFresh == run.fresh
WasHonest == run.honest
ModelsInStep == live.models = file.models
KeyInStep == file.key = "none" \/ live.key = file.key
NoKeyLeft == file.key = "none" => live.key = "none" \/ SaveWaits

\* Up to its rollback, and during that of chat to another setting, which finds in
\* the file what runs or the setting it takes back.
Traced == WasFresh /\ (run.round = "first" \/ (Job.kind = "chat" /\ run.before # Job.want))
TakesBack == run.at = "undo" \/ (run.at = "write" /\ run.round = "again")
StepInv ==
  /\ WasFresh /\ TakesBack /\ Job.kind = "chat" => ModelsInStep \/ file.models.chat = Job.want
  /\ WasFresh /\ run.at \in {"begin", "fetch", "save"} => ModelsInStep /\ KeyInStep
  /\ WasFresh /\ run.at = "write" /\ run.round = "first" => ModelsInStep /\ KeyInStep
  /\ Traced /\ run.at \in {"gateway", "models"} => ModelsInStep \/ "models" \in run.wrote
  /\ Traced /\ run.at \in {"forget", "check", "probe", "follow"} => ModelsInStep
  /\ WasFresh /\ run.round = "first" =>
       /\ run.at = "gateway" => KeyInStep \/ "key" \in run.wrote
       /\ run.at \in {"models", "forget", "check", "probe", "follow"} => KeyInStep
       /\ run.at \in {"check", "probe", "follow"} => NoKeyLeft

\* A connection is being verified until it is; then it is rendered once more, which
\* changes nothing.
VerifiedInv ==
  Busy /\ Job.kind \in {"save", "verify"} =>
    /\ run.at \in Reconciling \cup {"check"} /\ run.round = "first" => provider = "verifying"
    /\ WasFresh /\ run.at \in Reconciling /\ run.round = "again" /\ provider = "verified" =>
         /\ secret /\ file = Rendered /\ live = file
         /\ run.at # "write" => run.wrote = {}

\* The record of chat is true, for an execution that began so; while chat is
\* being changed, the setting before it was, or the one wanted is served.
HonestInv ==
  /\ Busy /\ WasHonest /\ (Job.kind # "chat" \/ run.at \in {"fetch", "save"}) => Honest
  /\ Busy /\ WasHonest /\ Job.kind = "chat" /\ run.at \notin {"fetch", "save"} /\ run.before = "local_only"
       => live.models.chat \in {"local_only", Job.want}
EndInv == SuccessIsServed /\ NeverClaimsMorePrivacy

-----------------------------------------------------------------------------
(* The inductive invariant: the graphics card and the apps *)

Pipeline == [mode |-> "pipeline", agent |-> "pipeline", stopped |-> {}]

\* The places where the execution itself holds the apps it stopped.
Leaving == {"stop", "remember", "start", "warm", "loaded", "retract", "put_back"}
Returning == {"tell_back", "restart"}
Holding == Leaving \cup Returning
ModeInv ==
  /\ run.at \in {"build", "choose"} \cup Returning => engine.mode = "pipeline"
  /\ run.at \in Leaving \cup {"tell", "down", "card_off"} => engine.mode = "duplex"
  /\ engine.mode = "pipeline" => engine.stopped = {}
  /\ spent.late => spent.cuts # 0
CardInv ==
  /\ OneModelOnCard
  /\ ~spent.stuck /\ (engine.mode = "pipeline" \/ run.at \in {"stop", "remember", "start", "put_back", "card_off"})
       => Omni \notin up
  /\ run.at = "start" => up = spent.unseen
StoppedInv ==
  /\ run.at \notin Holding \cup {"tell"} => run.stopped = {}
  /\ run.at \in (Leaving \ {"remember"}) \cup {"tell"} => run.stopped = engine.stopped
  /\ run.at = "remember" => \E a \in GpuApps : run.stopped = engine.stopped \cup {a}

\* Without a cut, what runs and what is remembered is what the owner wants.
WishInv ==
  spent.cuts = 0 =>
    /\ \A a \in GpuApps : rec[a] = "running" => a \in wish
    /\ up \cap GpuApps \subseteq wish /\ run.stopped \cup engine.stopped \subseteq wish
    /\ (run.stopped \cup engine.stopped) \cap up = {}

\* The apps that the owner wants and that nobody will start again.
Held == IF run.at \in Holding THEN run.stopped ELSE engine.stopped
Lost == wish \ (up \cup missed \cup spent.lost \cup Held)
LostInv == ~spent.late => Cardinality(Lost) <= spent.cuts

RoutingInv == RemovalInv /\ FileInv /\ StepInv /\ VerifiedInv /\ HonestInv /\ EndInv
SwitchInv == ModeInv /\ CardInv /\ StoppedInv /\ WishInv /\ LostInv
IInv == TypeInv /\ QueueInv /\ PlaceInv /\ RoutingInv /\ SwitchInv

-----------------------------------------------------------------------------
(* The execution: what each change of its record leaves as it is *)

RunSame ==
  /\ run'.before = run.before /\ run'.wrote = run.wrote /\ run'.stopped = run.stopped
  /\ (run'.failed <=> run.failed) /\ (run'.fresh <=> run.fresh) /\ (run'.honest <=> run.honest)
Places == {"idle"} \cup RoutingPlaces \cup SwitchPlaces

\* The execution goes on at another place.
LEMMA RunGoes ==
  ASSUME run \in RunType, NEW p \in Places, run' = [run EXCEPT !.at = p]
  PROVE  run' \in RunType /\ run'.at = p /\ run'.round = run.round /\ RunSame
<1>1. run' \in RunType
  BY DEF RunType, Places
<1>2. /\ run'.at = p /\ run'.round = run.round
      /\ run'.before = run.before /\ run'.wrote = run.wrote /\ run'.stopped = run.stopped
  BY DEF RunType
<1>3. run'.failed <=> run.failed
  BY DEF RunType
<1>4. run'.fresh <=> run.fresh
  BY DEF RunType
<1>5. run'.honest <=> run.honest
  BY DEF RunType
<1> QED BY <1>1, <1>2, <1>3, <1>4, <1>5 DEF RunSame

\* It renders the records into the files.
LEMMA RunReconciles ==
  ASSUME run \in RunType, NEW r \in {"first", "again"}, Reconcile(r)
  PROVE  /\ run' \in RunType /\ run'.at = "write" /\ run'.round = r /\ RunSame
         /\ UNCHANGED <<queue, last>>
<1>0. run' = [run EXCEPT !.at = "write", !.round = r]
  BY DEF Reconcile
<1>1. run' \in RunType
  BY <1>0 DEF RunType, RoutingPlaces
<1>2. /\ run'.at = "write" /\ run'.round = r
      /\ run'.before = run.before /\ run'.wrote = run.wrote /\ run'.stopped = run.stopped
  BY <1>0 DEF RunType
<1>3. run'.failed <=> run.failed
  BY <1>0 DEF RunType
<1>4. run'.fresh <=> run.fresh
  BY <1>0 DEF RunType
<1>5. run'.honest <=> run.honest
  BY <1>0 DEF RunType
<1> QED BY <1>1, <1>2, <1>3, <1>4, <1>5 DEF RunSame, Reconcile

\* The local model is there: the setting before is noted.
Fetched(b) == run' = [run EXCEPT !.at = "save", !.before = b]

LEMMA RunFetches ==
  ASSUME run \in RunType, NEW b \in Settings, Fetched(b)
  PROVE  /\ run' \in RunType /\ run'.at = "save" /\ run'.round = run.round
         /\ run'.before = b /\ run'.stopped = run.stopped
         /\ (run'.fresh <=> run.fresh) /\ (run'.honest <=> run.honest)
<1>1. run' \in RunType
  BY DEF Fetched, RunType, RoutingPlaces
<1>2. /\ run'.at = "save" /\ run'.round = run.round
      /\ run'.before = b /\ run'.stopped = run.stopped
  BY DEF Fetched, RunType
<1>4. run'.fresh <=> run.fresh
  BY DEF Fetched, RunType
<1>5. run'.honest <=> run.honest
  BY DEF Fetched, RunType
<1> QED BY <1>1, <1>2, <1>4, <1>5

\* The files are written.
Wrote(W) == run' = [run EXCEPT !.at = "gateway", !.wrote = W]

LEMMA RunWrites ==
  ASSUME run \in RunType, NEW W \in SUBSET {"key", "models"}, Wrote(W)
  PROVE  /\ run' \in RunType /\ run'.at = "gateway" /\ run'.round = run.round
         /\ run'.before = run.before /\ run'.wrote = W /\ run'.stopped = run.stopped
         /\ (run'.fresh <=> run.fresh) /\ (run'.honest <=> run.honest)
<1>1. run' \in RunType
  BY DEF Wrote, RunType, RoutingPlaces
<1>2. /\ run'.at = "gateway" /\ run'.round = run.round
      /\ run'.before = run.before /\ run'.wrote = W /\ run'.stopped = run.stopped
  BY DEF Wrote, RunType
<1>4. run'.fresh <=> run.fresh
  BY DEF Wrote, RunType
<1>5. run'.honest <=> run.honest
  BY DEF Wrote, RunType
<1> QED BY <1>1, <1>2, <1>4, <1>5

\* The apps it holds change.
Holds(p, S) ==
  \/ run' = [run EXCEPT !.at = p, !.stopped = S]
  \/ p = run.at /\ run' = [run EXCEPT !.stopped = S]
  \/ p = run.at /\ run' = [run EXCEPT !.stopped = S, !.failed = TRUE]

LEMMA RunHolds ==
  ASSUME run \in RunType, NEW p \in Places, NEW S \in SUBSET GpuApps, Holds(p, S)
  PROVE  /\ run' \in RunType /\ run'.at = p /\ run'.round = run.round /\ run'.stopped = S
         /\ (run'.fresh <=> run.fresh) /\ (run'.honest <=> run.honest)
<1>1. run' \in RunType
  BY DEF Holds, RunType, Places
<1>2. run'.at = p /\ run'.round = run.round /\ run'.stopped = S
  BY DEF Holds, RunType
<1>4. run'.fresh <=> run.fresh
  BY DEF Holds, RunType
<1>5. run'.honest <=> run.honest
  BY DEF Holds, RunType
<1> QED BY <1>1, <1>2, <1>4, <1>5

\* It begins, or there is none.
LEMMA IdleIs ==
  /\ Idle \in RunType /\ Idle.at = "idle" /\ Idle.round = "first" /\ Idle.stopped = {}
BY DEF Idle, RunType
BeginsAt(kind) == IF kind \in {"chat", "voice"} THEN "fetch" ELSE "begin"

LEMMA RunBegins ==
  ASSUME NEW p \in Places,
         run' = [Idle EXCEPT !.at = p, !.fresh = Fresh, !.honest = Honest]
  PROVE  /\ run' \in RunType /\ run'.at = p /\ run'.round = "first" /\ run'.stopped = {}
         /\ (run'.fresh <=> Fresh) /\ (run'.honest <=> Honest)
<1>1. run'.at = p /\ run'.round = "first" /\ run'.stopped = {} /\ run'.wrote = {} /\ run'.before = "none"
  BY DEF Idle
<1>2. Fresh \in BOOLEAN /\ Honest \in BOOLEAN
  BY DEF Fresh, Honest
<1>3. run'.fresh = Fresh /\ run'.honest = Honest
  BY DEF Idle
<1>4. run' \in RunType
  BY <1>1, <1>2 DEF Idle, RunType, Places
<1> QED BY <1>1, <1>2, <1>3, <1>4

(* The bounds used up. *)
SpentSame ==
  /\ spent'.cuts = spent.cuts
  /\ (spent'.late <=> spent.late) /\ (spent'.stuck <=> spent.stuck)
  /\ spent'.lost = spent.lost /\ spent'.unseen = spent.unseen

LEMMA SpentOrNot ==
  ASSUME spent \in SpentType,
         \/ UNCHANGED spent
         \/ Succeeds
         \/ Fails
         \/ spent' = [spent EXCEPT !.asks = @ + 1]
  PROVE  spent' \in SpentType /\ SpentSame
<1>1. \/ UNCHANGED spent
      \/ spent' = [spent EXCEPT !.trouble = spent.trouble + 1]
      \/ spent' = [spent EXCEPT !.asks = spent.asks + 1]
  BY DEF Succeeds, Fails
<1>2. spent' \in SpentType
  BY <1>1 DEF SpentType
<1>3. spent'.cuts = spent.cuts
  BY <1>1 DEF SpentType
<1>4. spent'.late <=> spent.late
  BY <1>1 DEF SpentType
<1>5. spent'.stuck <=> spent.stuck
  BY <1>1 DEF SpentType
<1>6. spent'.lost = spent.lost /\ spent'.unseen = spent.unseen
  BY <1>1 DEF SpentType
<1> QED BY <1>2, <1>3, <1>4, <1>5, <1>6 DEF SpentSame

LEMMA SpentRecord ==
  ASSUME spent \in SpentType, NEW n \in Nat, NEW v \in BOOLEAN
  PROVE  /\ [spent EXCEPT !.trouble = n, !.stuck = v] \in SpentType
         /\ [spent EXCEPT !.cuts = n, !.late = v] \in SpentType
BY DEF SpentType

LEMMA SpentStuck ==
  ASSUME spent \in SpentType, spent' = [spent EXCEPT !.trouble = @ + 1, !.stuck = TRUE]
  PROVE  spent' \in SpentType /\ spent'.cuts = spent.cuts /\ spent'.stuck
         /\ (spent'.late <=> spent.late)
         /\ spent'.lost = spent.lost /\ spent'.unseen = spent.unseen
<1>0. spent' = [spent EXCEPT !.trouble = spent.trouble + 1, !.stuck = TRUE]
  OBVIOUS
<1>2. spent' \in SpentType
  <2>1. spent.trouble + 1 \in Nat /\ TRUE \in BOOLEAN
    BY DEF SpentType
  <2> QED BY <1>0, <2>1, SpentRecord, Zenon
<1>3. spent'.cuts = spent.cuts
  BY <1>0 DEF SpentType
<1>4. spent'.late <=> spent.late
  BY <1>0 DEF SpentType
<1>5. spent'.stuck
  BY <1>0 DEF SpentType
<1>6. spent'.lost = spent.lost /\ spent'.unseen = spent.unseen
  BY <1>0 DEF SpentType
<1> QED BY <1>2, <1>3, <1>4, <1>5, <1>6

\* Apps are lost or found again, or the card is taken for free with what runs on it.
Spends(lost, unseen) ==
  \/ spent' = [spent EXCEPT !.lost = lost] /\ unseen = spent.unseen
  \/ spent' = [spent EXCEPT !.trouble = @ + 1, !.lost = lost] /\ unseen = spent.unseen
  \/ \E n \in Nat : spent' = [spent EXCEPT !.unseen = unseen, !.trouble = n] /\ lost = spent.lost

LEMMA SpentMoves ==
  ASSUME spent \in SpentType, NEW lost \in SUBSET GpuApps,
         NEW unseen \in SUBSET (GpuApps \cup {Omni}), Spends(lost, unseen)
  PROVE  /\ spent' \in SpentType /\ spent'.cuts = spent.cuts
         /\ (spent'.late <=> spent.late) /\ (spent'.stuck <=> spent.stuck)
         /\ spent'.lost = lost /\ spent'.unseen = unseen
<1>0. PICK n \in Nat :
        \/ spent' = [spent EXCEPT !.lost = lost] /\ unseen = spent.unseen
        \/ spent' = [spent EXCEPT !.trouble = n, !.lost = lost] /\ unseen = spent.unseen
        \/ spent' = [spent EXCEPT !.unseen = unseen, !.trouble = n] /\ lost = spent.lost
  <2>1. spent.trouble + 1 \in Nat
    BY DEF SpentType
  <2> QED BY <2>1 DEF Spends
<1>1. spent' \in SpentType
  BY <1>0 DEF SpentType
<1>2. spent'.cuts = spent.cuts
  BY <1>0 DEF SpentType
<1>3. spent'.late <=> spent.late
  BY <1>0 DEF SpentType
<1>4. spent'.stuck <=> spent.stuck
  BY <1>0 DEF SpentType
<1>5. spent'.lost = lost /\ spent'.unseen = unseen
  BY <1>0 DEF SpentType
<1> QED BY <1>1, <1>2, <1>3, <1>4, <1>5

LateNow == spent.late \/ (run.stopped # {} /\ engine.mode = "pipeline")

LEMMA SpentCut ==
  ASSUME spent \in SpentType, Cut
  PROVE  spent' \in SpentType /\ spent'.cuts = spent.cuts + 1
         /\ (spent'.stuck <=> spent.stuck) /\ (spent'.late <=> LateNow)
         /\ spent'.lost = spent.lost /\ spent'.unseen = spent.unseen
<1>0. spent' = [spent EXCEPT !.cuts = spent.cuts + 1, !.late = spent.late \/ (run.stopped # {} /\ engine.mode = "pipeline")]
  BY DEF Cut
<1>1. (spent.late \/ (run.stopped # {} /\ engine.mode = "pipeline")) \in BOOLEAN
  BY DEF SpentType
<1>2. spent' \in SpentType
  <2>1. spent.cuts + 1 \in Nat
    BY DEF SpentType
  <2> QED BY <1>0, <1>1, <2>1, SpentRecord, Zenon
<1>3. spent'.cuts = spent.cuts + 1
  BY <1>0 DEF SpentType
<1>4. spent'.late <=> LateNow
  BY <1>0 DEF SpentType, LateNow
<1>5. spent'.stuck <=> spent.stuck
  BY <1>0 DEF SpentType
<1>6. spent'.lost = spent.lost /\ spent'.unseen = spent.unseen
  BY <1>0 DEF SpentType
<1> QED BY <1>2, <1>3, <1>4, <1>5, <1>6

(* The queue. *)
\* Two services, one job each.
LEMMA TwoJobs ==
  QueueInv => Len(queue) <= 2
<1>1. SUFFICES ASSUME QueueInv, Len(queue) > 2 PROVE FALSE
  BY DEF QueueInv
<1>2. 1 \in DOMAIN queue /\ 2 \in DOMAIN queue /\ 3 \in DOMAIN queue
  BY <1>1 DEF QueueInv
<1>3. \A k : ServiceOf(k) \in {"ai:models", "provider"}
  BY DEF ServiceOf
<1>4. /\ ServiceOf(queue[1].kind) # ServiceOf(queue[2].kind)
      /\ ServiceOf(queue[1].kind) # ServiceOf(queue[3].kind)
      /\ ServiceOf(queue[2].kind) # ServiceOf(queue[3].kind)
  BY <1>1, <1>2 DEF QueueInv
<1> QED BY <1>3, <1>4

LEMMA JobsAreItems ==
  ASSUME QueueInv, NEW i \in DOMAIN queue
  PROVE  /\ queue[i] \in Item /\ queue[i].kind \in Kinds
         /\ queue[i].want \in WantsOf(queue[i].kind)
<1>1. queue[i] \in Item
  BY DEF QueueInv
<1> QED BY <1>1 DEF QueueInv, Item

LEMMA JobIs ==
  ASSUME QueueInv, queue # <<>>
  PROVE  1 \in DOMAIN queue /\ Job.kind \in Kinds /\ Job.want \in WantsOf(Job.kind)
<1>1. 1 \in DOMAIN queue
  BY DEF QueueInv
<1> QED BY <1>1, JobsAreItems DEF Job

\* A job is asked for.
LEMMA QueueGrows ==
  ASSUME QueueInv, NEW k \in Kinds, NEW w \in WantsOf(k), CanQueue(k), Queue(k, w)
  PROVE  /\ QueueInv' /\ queue' # <<>>
         /\ queue # <<>> => Job' = Job
         /\ Len(queue') = Len(queue) + 1 /\ queue'[Len(queue) + 1].kind = k
         /\ \A i \in DOMAIN queue' : i \in DOMAIN queue \/ i = Len(queue) + 1
         /\ \A i \in DOMAIN queue : i \in DOMAIN queue' /\ queue'[i] = queue[i]
<1> DEFINE item == [kind |-> k, want |-> w, cut |-> FALSE]
<1>1. queue' = Append(queue, item) /\ queue \in Seq(Item)
  BY DEF Queue, QueueInv
<1>2. item \in Item /\ item.kind = k /\ item.want = w
  BY DEF WantsOf, Item, Settings
<1> HIDE DEF item
<1>3. /\ queue' \in Seq(Item) /\ Len(queue') = Len(queue) + 1 /\ queue'[Len(queue) + 1] = item
      /\ \A i \in 1..Len(queue) : queue'[i] = queue[i]
      /\ DOMAIN queue = 1..Len(queue) /\ DOMAIN queue' = 1..(Len(queue) + 1)
      /\ Len(queue) \in Nat
  BY <1>1, <1>2
<1>4. \A i \in DOMAIN queue : i \in DOMAIN queue' /\ queue'[i] = queue[i]
  BY <1>3
<1>5. \A i \in DOMAIN queue : ServiceOf(queue[i].kind) # ServiceOf(k)
  BY DEF CanQueue
<1>6. \A i \in DOMAIN queue' : i \in DOMAIN queue \/ i = Len(queue) + 1
  BY <1>3
<1>7. \A i \in DOMAIN queue' : queue'[i].want \in WantsOf(queue'[i].kind)
  BY <1>2, <1>3, <1>4, <1>6 DEF QueueInv
<1>8. \A i, j \in DOMAIN queue' : i # j => ServiceOf(queue'[i].kind) # ServiceOf(queue'[j].kind)
  BY <1>2, <1>3, <1>4, <1>5, <1>6 DEF QueueInv
<1>9. queue # <<>> => 1 \in DOMAIN queue
  BY <1>3
<1> QED BY <1>2, <1>3, <1>4, <1>6, <1>7, <1>8, <1>9 DEF QueueInv, Job

\* The job at the head ends.
LEMMA QueueShrinks ==
  ASSUME QueueInv, queue # <<>>, queue' = Tail(queue)
  PROVE  /\ QueueInv'
         /\ \A i \in DOMAIN queue : i # 1 => i - 1 \in DOMAIN queue' /\ queue'[i - 1] = queue[i]
         /\ \A i \in DOMAIN queue' : i + 1 \in DOMAIN queue /\ queue'[i] = queue[i + 1]
<1>1. /\ queue' \in Seq(Item) /\ Len(queue') = Len(queue) - 1 /\ Len(queue) \in Nat
      /\ \A i \in 1..(Len(queue) - 1) : queue'[i] = queue[i + 1]
      /\ DOMAIN queue = 1..Len(queue) /\ DOMAIN queue' = 1..(Len(queue) - 1)
  BY DEF QueueInv
<1>2. \A i \in DOMAIN queue' : i + 1 \in DOMAIN queue /\ queue'[i] = queue[i + 1]
  BY <1>1
<1>3. \A i \in DOMAIN queue' : queue'[i].want \in WantsOf(queue'[i].kind)
  BY <1>2 DEF QueueInv
<1>4. \A i, j \in DOMAIN queue' : i # j => i + 1 # j + 1
  BY <1>1
<1>5. \A i, j \in DOMAIN queue' : i # j => ServiceOf(queue'[i].kind) # ServiceOf(queue'[j].kind)
  BY <1>2, <1>4 DEF QueueInv
<1>6. \A i \in DOMAIN queue : i # 1 => i - 1 \in DOMAIN queue' /\ queue'[i - 1] = queue[i]
  BY <1>1
<1> QED BY <1>1, <1>2, <1>3, <1>5, <1>6 DEF QueueInv

\* A sequence with its i-th element moved to the front.
Moved(q, i) == <<q[i]>> \o (SubSeq(q, 1, i - 1) \o SubSeq(q, i + 1, Len(q)))

LEMMA MovedFirst ==
  ASSUME NEW S, NEW q \in Seq(S), NEW i \in 1..Len(q)
  PROVE  /\ Moved(q, i) \in Seq(S) /\ Len(Moved(q, i)) = Len(q) /\ Moved(q, i)[1] = q[i]
         /\ \A k \in 2..Len(q) : Moved(q, i)[k] = IF k <= i THEN q[k - 1] ELSE q[k]
<1> DEFINE r == Moved(q, i)
<1> DEFINE n == Len(q)
<1>0. /\ i \in Int /\ n \in Int /\ 1 <= i /\ i <= n /\ \A k \in 1..n : q[k] \in S
      /\ r = <<q[i]>> \o (SubSeq(q, 1, i - 1) \o SubSeq(q, i + 1, n))
      /\ Len(q) = n
  BY ElementOfSeq DEF Moved
<1> HIDE DEF n, r
<1> DEFINE before == SubSeq(q, 1, i - 1)
           after == SubSeq(q, i + 1, n)
           others == before \o after
           first == <<q[i]>>
<1>1. /\ before \in Seq(S) /\ Len(before) = i - 1
      /\ \A k \in 1..(i - 1) : before[k] = q[k]
  <2>1. i - 1 \in Int /\ 1 \in Int /\ \A k \in 1..(i - 1) : q[k] \in S
    BY <1>0
  <2>2. /\ before \in Seq(S) /\ Len(before) = (IF 1 <= i - 1 THEN (i - 1) - 1 + 1 ELSE 0)
        /\ \A k \in 1..((i - 1) - 1 + 1) : before[k] = q[1 + k - 1]
    BY ONLY <2>1, SubSeqProperties
  <2> HIDE DEF before
  <2>3. (i - 1) - 1 + 1 = i - 1 /\ \A k \in 1..(i - 1) : 1 + k - 1 = k
    BY <1>0
  <2> QED BY <1>0, <2>2, <2>3
<1>2. /\ after \in Seq(S) /\ Len(after) = n - i
      /\ \A k \in 1..(n - i) : after[k] = q[i + k]
  <2>1. i + 1 \in Int /\ n \in Int /\ \A k \in (i + 1)..n : q[k] \in S
    BY <1>0
  <2>2. /\ after \in Seq(S) /\ Len(after) = (IF i + 1 <= n THEN n - (i + 1) + 1 ELSE 0)
        /\ \A k \in 1..(n - (i + 1) + 1) : after[k] = q[(i + 1) + k - 1]
    BY ONLY <2>1, SubSeqProperties
  <2> HIDE DEF after
  <2>3. n - (i + 1) + 1 = n - i /\ \A k \in 1..(n - i) : (i + 1) + k - 1 = i + k
    BY <1>0
  <2> QED BY <1>0, <2>2, <2>3
<1>3. /\ others \in Seq(S) /\ Len(others) = Len(before) + Len(after)
      /\ \A k \in 1..(Len(before) + Len(after)) :
           others[k] = IF k <= Len(before) THEN before[k] ELSE after[k - Len(before)]
  BY <1>1, <1>2, ConcatProperties
<1>4. first \in Seq(S) /\ Len(first) = 1 /\ first[1] = q[i]
  BY <1>0
<1>5. /\ first \o others \in Seq(S) /\ Len(first \o others) = Len(first) + Len(others)
      /\ \A k \in 1..(Len(first) + Len(others)) :
           (first \o others)[k] = IF k <= Len(first) THEN first[k] ELSE others[k - Len(first)]
  BY <1>3, <1>4, ConcatProperties
<1>6. r = first \o others
  BY <1>0
<1> HIDE DEF first, others, before, after
<1>7. /\ r \in Seq(S) /\ Len(r) = n
      /\ \A k \in 1..n : r[k] = IF k <= 1 THEN first[k] ELSE others[k - 1]
  <2>1. Len(first) = 1 /\ Len(others) = n - 1 /\ 1 + (n - 1) = n
    BY <1>0, <1>1, <1>2, <1>3, <1>4
  <2>2. /\ r \in Seq(S) /\ Len(r) = Len(first) + Len(others)
        /\ \A k \in 1..(Len(first) + Len(others)) :
             r[k] = IF k <= Len(first) THEN first[k] ELSE others[k - Len(first)]
    BY <1>5, <1>6, Zenon
  <2> QED BY ONLY <2>1, <2>2
<1>8. \A k \in 1..(n - 1) : others[k] = IF k <= i - 1 THEN before[k] ELSE after[k - (i - 1)]
  BY <1>0, <1>1, <1>2, <1>3
<1>9. ASSUME NEW k \in 2..n
      PROVE  r[k] = IF k <= i THEN q[k - 1] ELSE q[k]
  <2>1. k \in 1..n /\ k - 1 \in 1..(n - 1) /\ r[k] = others[k - 1]
    BY <1>0, <1>7
  <2>2. CASE k <= i
    <3>1. k - 1 <= i - 1 /\ k - 1 \in 1..(i - 1)
      BY <1>0, <2>1, <2>2
    <3> QED BY <1>1, <1>8, <2>1, <2>2, <3>1
  <2>3. CASE ~(k <= i)
    <3>1. ~(k - 1 <= i - 1) /\ (k - 1) - (i - 1) = k - i /\ k - i \in 1..(n - i) /\ i + (k - i) = k
      BY <1>0, <2>1, <2>3
    <3>2. others[k - 1] = after[k - i]
      BY <1>8, <2>1, <3>1
    <3> QED BY <1>2, <2>1, <2>3, <3>1, <3>2
  <2> QED BY <2>2, <2>3
<1> QED BY <1>0, <1>4, <1>7, <1>9 DEF r

\* A job is claimed: it comes first, and the others keep their order.
LEMMA QueueClaims ==
  ASSUME QueueInv, NEW i \in DOMAIN queue, queue' = <<queue[i]>> \o Without(i)
  PROVE  QueueInv' /\ queue' # <<>> /\ Job' = queue[i] /\ (SaveAsked' => SaveAsked)
<1>1. /\ DOMAIN queue = 1..Len(queue) /\ Len(queue) \in Nat /\ queue \in Seq(Item)
      /\ i \in 1..Len(queue)
  BY DEF QueueInv
<1>2. queue[i] \in Item /\ queue' = Moved(queue, i)
  BY JobsAreItems DEF Without, Moved
<1>8. /\ queue' \in Seq(Item) /\ Len(queue') = Len(queue) /\ queue'[1] = queue[i]
      /\ \A k \in 2..Len(queue) : queue'[k] = IF k <= i THEN queue[k - 1] ELSE queue[k]
  <2>1. queue \in Seq(Item) /\ Len(queue) \in Nat /\ i \in 1..Len(queue)
    BY <1>1
  <2>2. /\ Moved(queue, i) \in Seq(Item) /\ Len(Moved(queue, i)) = Len(queue)
        /\ Moved(queue, i)[1] = queue[i]
        /\ \A k \in 2..Len(queue) :
             Moved(queue, i)[k] = IF k <= i THEN queue[k - 1] ELSE queue[k]
    BY <2>1, MovedFirst
  <2> QED BY ONLY <1>2, <2>2, Zenon
<1> DEFINE from(k) == IF k = 1 THEN i ELSE IF k <= i THEN k - 1 ELSE k
<1>7. DOMAIN queue' = 1..Len(queue)
  BY <1>8
<1>9. ASSUME NEW k \in DOMAIN queue'
      PROVE  from(k) \in DOMAIN queue /\ queue'[k] = queue[from(k)]
  <2>0. k \in 1..Len(queue) /\ Len(queue) \in Nat
    BY <1>1, <1>7, Zenon
  <2>1. k \in 1..Len(queue) /\ (k # 1 => k \in 2..Len(queue))
    BY ONLY <2>0
  <2>2. queue'[k] = queue[from(k)]
    BY <1>8, <2>1
  <2>3. from(k) \in 1..Len(queue)
    BY <1>1, <2>1
  <2> QED BY <1>1, <2>2, <2>3
<1>10. ASSUME NEW k \in DOMAIN queue', NEW l \in DOMAIN queue', k # l
       PROVE  from(k) # from(l)
  <2>0. k \in 1..Len(queue) /\ l \in 1..Len(queue) /\ i \in 1..Len(queue) /\ Len(queue) \in Nat
    BY <1>1, <1>7, Zenon
  <2>1. k \in Int /\ l \in Int /\ i \in Int /\ 1 <= k /\ 1 <= l
    BY ONLY <2>0
  <2> QED BY ONLY <1>10, <2>1
<1> HIDE DEF from
<1>11. \A k \in DOMAIN queue' : queue'[k].want \in WantsOf(queue'[k].kind)
  BY <1>9 DEF QueueInv
<1>12. \A k, l \in DOMAIN queue' : k # l => ServiceOf(queue'[k].kind) # ServiceOf(queue'[l].kind)
  BY <1>9, <1>10 DEF QueueInv
<1>13. SaveAsked' => SaveAsked
  BY <1>9 DEF SaveAsked
<1> QED BY <1>1, <1>8, <1>11, <1>12, <1>13 DEF QueueInv, Job

\* An execution is cut short, and its job will be claimed again.
LEMMA QueueMarks ==
  ASSUME QueueInv, queue # <<>>, queue' = [queue EXCEPT ![1].cut = TRUE]
  PROVE  QueueInv' /\ (SaveAsked' => SaveAsked)
<1>1. /\ DOMAIN queue = 1..Len(queue) /\ Len(queue) \in Nat /\ queue \in Seq(Item)
      /\ 1 \in DOMAIN queue /\ queue[1] \in Item
  BY JobIs, JobsAreItems DEF QueueInv
<1> DEFINE item == [queue[1] EXCEPT !.cut = TRUE]
<1>2. item \in Item /\ item.kind = queue[1].kind /\ item.want = queue[1].want
  BY <1>1 DEF Item
<1>3. queue' = [queue EXCEPT ![1] = item]
  OBVIOUS
<1> HIDE DEF item
<1>4. /\ queue' \in Seq(Item) /\ DOMAIN queue' = DOMAIN queue
      /\ queue'[1] = item /\ \A k \in DOMAIN queue : k # 1 => queue'[k] = queue[k]
  <2>1. queue \in Seq(Item) /\ 1 \in 1..Len(queue) /\ item \in Item
    BY <1>1, <1>2
  <2>2. /\ queue' \in Seq(Item) /\ Len(queue') = Len(queue)
        /\ \A k \in 1..Len(queue) : queue'[k] = IF k = 1 THEN item ELSE queue[k]
    <3>1. LET r == [queue EXCEPT ![1] = item]
          IN  /\ r \in Seq(Item) /\ Len(r) = Len(queue)
              /\ \A k \in 1..Len(queue) : r[k] = IF k = 1 THEN item ELSE queue[k]
      BY ONLY <2>1, ExceptSeq
    <3> QED BY ONLY <1>3, <3>1, Zenon
  <2>3. DOMAIN queue' = 1..Len(queue')
    BY <2>2
  <2> QED BY <1>1, <2>2, <2>3
<1>5. \A k \in DOMAIN queue : queue'[k].kind = queue[k].kind /\ queue'[k].want = queue[k].want
  BY <1>2, <1>4
<1> QED BY <1>4, <1>5 DEF QueueInv, SaveAsked

\* The jobs that wait stay.
LEMMA QueueStays ==
  ASSUME QueueInv, UNCHANGED queue
  PROVE  /\ QueueInv' /\ Job' = Job
         /\ (SaveWaits' <=> SaveWaits) /\ (SaveAsked' <=> SaveAsked)
BY DEF QueueInv, Job, SaveWaits, SaveAsked

\* While the job of a provider is at the head, no key waits.
LEMMA NoSaveWaits ==
  ASSUME QueueInv, queue # <<>>, Job.kind \in ProviderKinds
  PROVE  ~SaveWaits /\ (Job.kind # "save" => ~SaveAsked)
<1>1. 1 \in DOMAIN queue
  BY JobIs
<1>2. ServiceOf(Job.kind) = "provider" /\ ServiceOf("save") = "provider"
  BY DEF ServiceOf, ProviderKinds, AiKinds
<1> QED BY <1>1, <1>2 DEF QueueInv, SaveWaits, SaveAsked, Job

(* The types of the variables, and what the records render to. *)
FileType == [key : {"none", "off", "on"}, models : [chat : Sources, voice : Privacies]]
EngineType == [mode : Modes, agent : Modes, stopped : SUBSET GpuApps]
ProviderStates == {"absent", "verifying", "verified", "degraded", "disabled", "removing"}
RoutingTypes ==
  /\ chat \in Sources /\ voice \in Privacies \cup {"follows"} /\ shown \in Sources
  /\ provider \in ProviderStates /\ secret \in BOOLEAN
  /\ file \in FileType /\ live \in FileType
SwitchTypes ==
  /\ engine \in EngineType /\ up \subseteq GpuApps \cup {Omni} /\ wish \subseteq GpuApps
  /\ missed \subseteq GpuApps /\ rec \in [GpuApps -> {"running", "stopped"}]
  /\ agent \in Modes /\ page \in Modes \cup {"none"}
JobTypes == run \in RunType /\ last \in LastType /\ spent \in SpentType

LEMMA Types ==
  ASSUME TypeInv
  PROVE  RoutingTypes /\ SwitchTypes /\ JobTypes
BY DEF TypeInv, TypeOK, RoutingTypes, SwitchTypes, JobTypes, FileType, EngineType, ProviderStates

LEMMA TypesAgain ==
  ASSUME RoutingTypes', SwitchTypes', JobTypes', QueueInv'
  PROVE  TypeInv'
<1>1. run'.at \in {"idle"} \cup RoutingPlaces \cup SwitchPlaces
  BY DEF JobTypes, RunType
<1>2. last'.outcome \in {"none", "cut", "succeeded", "failed"}
  BY DEF JobTypes, LastType
<1>3. (Len(queue) <= 2)'
  BY TwoJobs, PTL
<1> QED
  BY <1>1, <1>2, <1>3 DEF TypeInv, TypeOK, RoutingTypes, SwitchTypes, JobTypes, FileType,
       EngineType, ProviderStates

LEMMA PrivacyIs ==
  \A s \in Sources : Privacy[s] \in Privacies
BY DEF Sources, Privacies, Privacy

LEMMA Renders ==
  ASSUME RoutingTypes
  PROVE  /\ Rendered \in FileType /\ Rendered.key = Key /\ Key \in {"none", "off", "on"}
         /\ Rendered.models.chat = chat /\ (Key = "none" <=> ~secret)
<1>1. VoiceOf \in Privacies
  BY PrivacyIs DEF RoutingTypes, VoiceOf
<1>2. Key \in {"none", "off", "on"} /\ (Key = "none" <=> ~secret)
  BY DEF Key
<1> QED BY <1>1, <1>2 DEF Rendered, FileType, RoutingTypes

LEMMA FilesAreEqual ==
  ASSUME NEW f \in FileType, NEW g \in FileType, f.key = g.key, f.models = g.models
  PROVE  f = g
BY DEF FileType

LEMMA SettingsStay ==
  ASSUME UNCHANGED <<chat, voice>>
  PROVE  Rendered'.models = Rendered.models
BY DEF Rendered, VoiceOf

LEMMA RecordsStay ==
  ASSUME UNCHANGED records
  PROVE  Rendered' = Rendered /\ Key' = Key /\ UNCHANGED <<chat, voice, provider, secret>>
BY DEF Rendered, Key, VoiceOf, OutsideUsed, records

\* What a start may bring up: of the gateway, of the proxy, of neither.
LEMMA StartsKey ==
  ASSUME RoutingTypes, live' = Started("key")
  PROVE  /\ live' \in FileType /\ live'.models = live.models
         /\ live'.key = IF "key" \in run.wrote THEN Imported ELSE live.key
<1>1. Imported \in {"none", "off", "on"}
  BY DEF RoutingTypes, FileType, Imported
<1> QED BY <1>1 DEF Started, RoutingTypes, FileType

LEMMA StartsModels ==
  ASSUME RoutingTypes, live' = Started("models")
  PROVE  /\ live' \in FileType /\ live'.key = live.key
         /\ live'.models = IF "models" \in run.wrote THEN file.models ELSE live.models
BY DEF Started, RoutingTypes, FileType
LiveFollows ==
  /\ live' \in FileType
  /\ live'.models \in {live.models, file.models} /\ live'.key \in {live.key, file.key}
  /\ file.key = "none" => live'.key = live.key
  /\ run.wrote = {} => live' = live

LEMMA LiveMayFollow ==
  ASSUME RoutingTypes, live' \in {live, Started("key"), Started("models")}
  PROVE  LiveFollows
<1>1. CASE live' = live
  BY <1>1 DEF LiveFollows, RoutingTypes
<1>2. CASE live' = Started("key")
  BY <1>2, StartsKey DEF LiveFollows, Imported, Started
<1>3. CASE live' = Started("models")
  BY <1>3, StartsModels DEF LiveFollows, Started
<1> QED BY <1>1, <1>2, <1>3

\* Keys of a removed connection are taken out of the gateway.
Forgot == live' = [live EXCEPT !.key = IF secret THEN @ ELSE "none"]

LEMMA Forgets ==
  ASSUME RoutingTypes, Forgot
  PROVE  /\ live' \in FileType /\ live'.models = live.models
         /\ live'.key = IF secret THEN live.key ELSE "none"
<1>1. live' = [live EXCEPT !.key = IF secret THEN live.key ELSE "none"]
  BY DEF Forgot
<1>2. (IF secret THEN live.key ELSE "none") \in {"none", "off", "on"}
  BY DEF RoutingTypes, FileType
<1> QED BY <1>1, <1>2 DEF RoutingTypes, FileType

(* The end of an execution. *)
LastSays(outcome) ==
  /\ last'.kind = Job.kind /\ last'.outcome = outcome
  /\ (last'.fresh <=> run.fresh) /\ (last'.honest <=> run.honest)

LEMMA Ends ==
  ASSUME JobTypes, QueueInv, queue # <<>>, NEW o \in {"succeeded", "failed"}, End(o)
  PROVE  /\ QueueInv' /\ run' = Idle /\ run'.at = "idle" /\ run' \in RunType
         /\ last' \in LastType /\ LastSays(o)
         /\ (SaveWaits => SaveAsked') /\ (SaveAsked' => SaveAsked)
<1>1. QueueInv' /\ (SaveWaits => SaveAsked') /\ (SaveAsked' => SaveAsked)
  BY QueueShrinks DEF End, SaveWaits, SaveAsked
<1>2. run' = Idle /\ run'.at = "idle" /\ run' \in RunType
  BY IdleIs DEF End
<1>3. last' = [kind |-> Job.kind, outcome |-> o, fresh |-> run.fresh, honest |-> run.honest]
  BY DEF End
<1>4. Job.kind \in Kinds /\ run.fresh \in BOOLEAN /\ run.honest \in BOOLEAN
  BY JobIs DEF JobTypes, RunType
<1>5. last' \in LastType
  BY <1>3, <1>4 DEF LastType
<1>6. last'.kind = Job.kind /\ last'.outcome = o
  BY <1>3
<1>7. last'.fresh <=> run.fresh
  BY <1>3
<1>8. last'.honest <=> run.honest
  BY <1>3
<1> QED BY <1>1, <1>2, <1>5, <1>6, <1>7, <1>8 DEF LastSays

-----------------------------------------------------------------------------
(* What disturbs one side only. *)

\* The switch is not disturbed while the apps, the card and the record of how
\* the assistant talks stay, and no execution of it goes on.
Quiet ==
  /\ UNCHANGED <<engine, up, rec, wish, missed>>
  /\ SpentSame /\ run'.stopped \subseteq run.stopped
  /\ {run.at, run'.at} \cap (SwitchPlaces) = {}

LEMMA QuietKeepsSwitch ==
  ASSUME TypeInv, SwitchInv, Quiet
  PROVE  SwitchInv'
<1>0. /\ run'.at \notin SwitchPlaces /\ run.at \notin SwitchPlaces
      /\ UNCHANGED <<engine, up, rec, wish, missed>> /\ SpentSame
      /\ run'.stopped \subseteq run.stopped
  BY DEF Quiet
<1>1. ModeInv'
  BY <1>0 DEF SwitchInv, ModeInv, SpentSame, Leaving, Returning, SwitchPlaces
<1>2. CardInv'
  BY <1>0 DEF SwitchInv, CardInv, OneModelOnCard, SpentSame, SwitchPlaces
<1>3. StoppedInv'
  BY <1>0 DEF SwitchInv, StoppedInv, Holding, Leaving, Returning, SwitchPlaces
<1>4. WishInv'
  BY <1>0 DEF SwitchInv, WishInv, SpentSame, Leaving, SwitchPlaces
<1>5. Lost' = Lost
  BY <1>0 DEF Lost, Held, Holding, Leaving, Returning, SwitchPlaces, SpentSame
<1>6. LostInv'
  BY <1>0, <1>5 DEF SwitchInv, LostInv, SpentSame
<1> QED BY <1>1, <1>2, <1>3, <1>4, <1>6 DEF SwitchInv

\* The routing is not disturbed while its records and the jobs stay.
LEMMA JobsKeepRouting ==
  ASSUME PlaceInv, RoutingInv, UNCHANGED <<routing, queue, run, last>>
  PROVE  PlaceInv' /\ RoutingInv'
<1>0. UNCHANGED <<chat, voice, provider, secret, file, live, shown, queue, run, last>>
  BY DEF routing, records
<1>1. /\ Rendered' = Rendered /\ Key' = Key /\ (SaveWaits' <=> SaveWaits) /\ Job' = Job
      /\ (SaveAsked' <=> SaveAsked)
  BY <1>0, RecordsStay DEF records, SaveWaits, SaveAsked, Job
<1>2. PlaceInv'
  BY <1>0, <1>1 DEF PlaceInv, Busy, Setting
<1>3. RemovalInv' /\ FileInv'
  BY <1>0, <1>1 DEF RoutingInv, RemovalInv, FileInv
<1>4. StepInv' /\ VerifiedInv' /\ HonestInv'
  BY <1>0, <1>1 DEF RoutingInv, StepInv, VerifiedInv, HonestInv, WasFresh, WasHonest,
    ModelsInStep, KeyInStep, NoKeyLeft, Traced, Busy, Honest, TakesBack
<1>5. EndInv'
  BY <1>0, <1>1 DEF RoutingInv, EndInv, SuccessIsServed, NeverClaimsMorePrivacy, At, Honest
<1> QED BY <1>2, <1>3, <1>4, <1>5 DEF RoutingInv

\* Nor while an execution of the switch goes from place to place.
LEMMA SwitchKeepsRouting ==
  ASSUME QueueInv, PlaceInv, RoutingInv, UNCHANGED <<routing, queue, last>>,
         run.at \in SwitchPlaces \cup {"begin"}, Job.kind = "engine", Busy,
         run'.at \in SwitchPlaces, run'.round = run.round,
         run'.fresh <=> run.fresh, run'.honest <=> run.honest
  PROVE  PlaceInv' /\ RoutingInv'
<1>0. UNCHANGED <<chat, voice, provider, secret, file, live, shown, queue, last>>
  BY DEF routing, records
<1>1. /\ Rendered' = Rendered /\ Key' = Key /\ (SaveWaits' <=> SaveWaits) /\ Job' = Job
      /\ (SaveAsked' <=> SaveAsked)
  BY <1>0, RecordsStay DEF records, SaveWaits, SaveAsked, Job
<1>2. /\ run'.at \notin RoutingPlaces \cup {"idle"} /\ run'.round = "first"
      /\ run'.at \notin Reconciling /\ run'.at \notin Written
  BY DEF PlaceInv, SwitchPlaces, RoutingPlaces, Reconciling, Rendering, Written
<1>3. PlaceInv'
  BY <1>0, <1>1, <1>2 DEF PlaceInv, Busy, RoutingPlaces, Reconciling, Rendering, ChoicePlaces
<1>4. RemovalInv' /\ FileInv'
  BY <1>0, <1>1, <1>2 DEF RoutingInv, RemovalInv, FileInv, RoutingPlaces
<1>5. StepInv' /\ VerifiedInv'
  BY <1>0, <1>1, <1>2 DEF StepInv, VerifiedInv, RoutingPlaces, TakesBack
<1>6. HonestInv'
  BY <1>0, <1>1, <1>2 DEF RoutingInv, HonestInv, WasHonest, Busy, RoutingPlaces, Honest
<1>7. EndInv'
  BY <1>2 DEF EndInv, SuccessIsServed, NeverClaimsMorePrivacy, At
<1> QED BY <1>3, <1>4, <1>5, <1>6, <1>7 DEF RoutingInv

\* Nor when it ends, whatever it says.
LEMMA SwitchEndKeepsRouting ==
  ASSUME TypeInv, QueueInv, PlaceInv, RoutingInv, UNCHANGED routing, Busy, Job.kind = "engine",
         queue # <<>>, NEW o \in {"succeeded", "failed"}, End(o)
  PROVE  QueueInv' /\ PlaceInv' /\ RoutingInv'
<1>0. UNCHANGED <<chat, voice, provider, secret, file, live, shown>>
  BY DEF routing, records
<1>1. Rendered' = Rendered
  BY <1>0, RecordsStay DEF records
<1>2. /\ QueueInv' /\ run'.at = "idle" /\ run'.round = "first" /\ last'.kind = "engine"
      /\ (last'.honest <=> run.honest) /\ (SaveAsked' => SaveAsked)
  BY Types, Ends, IdleIs DEF JobTypes, LastSays
<1>3. PlaceInv'
  BY <1>2 DEF PlaceInv, Busy, Reconciling, Rendering, ChoicePlaces, SwitchPlaces
<1>4. RemovalInv' /\ FileInv'
  BY <1>0, <1>2 DEF RoutingInv, RemovalInv, FileInv, Written, Reconciling, Rendering
<1>5. StepInv' /\ VerifiedInv' /\ HonestInv'
  BY <1>2 DEF StepInv, VerifiedInv, HonestInv, Reconciling, Rendering, Busy, Honest, TakesBack
<1>6. SuccessIsServed'
  BY <1>2 DEF SuccessIsServed
<1>7. NeverClaimsMorePrivacy'
  BY <1>0, <1>2 DEF NeverClaimsMorePrivacy, RoutingInv, HonestInv, WasHonest, Honest
<1> QED BY <1>2, <1>3, <1>4, <1>5, <1>6, <1>7 DEF RoutingInv, EndInv

LEMMA RoutingStepKeeps ==
  ASSUME IInv, RoutingTypes', JobTypes', QueueInv', PlaceInv', RoutingInv', Quiet,
         UNCHANGED <<agent, page>>
  PROVE  IInv'
<1>1. SwitchInv'
  BY QuietKeepsSwitch DEF IInv
<1>2. SwitchTypes'
  BY Types DEF IInv, SwitchTypes, Quiet
<1>3. TypeInv'
  BY <1>2, TypesAgain
<1> QED BY <1>1, <1>3 DEF IInv

\* Nor while a job is asked for.
LEMMA StillKeepsSwitch ==
  ASSUME SwitchInv, UNCHANGED <<engine, up, rec, wish, missed, run>>, SpentSame
  PROVE  SwitchInv'
<1>1. Lost' = Lost
  BY DEF Lost, Held, SpentSame
<1>2. ModeInv' /\ CardInv' /\ StoppedInv'
  BY DEF SwitchInv, ModeInv, CardInv, OneModelOnCard, StoppedInv, SpentSame
<1>3. WishInv' /\ LostInv'
  BY <1>1 DEF SwitchInv, WishInv, LostInv, SpentSame
<1> QED BY <1>2, <1>3 DEF SwitchInv

\* A job that is asked for leaves the execution in progress as it is.
LEMMA AsksKeepRouting ==
  ASSUME TypeInv, QueueInv, PlaceInv, RoutingInv, UNCHANGED <<routing, run, last>>,
         NEW k \in Kinds, NEW w \in WantsOf(k), k # "save", CanQueue(k), Queue(k, w)
  PROVE  QueueInv' /\ PlaceInv' /\ RoutingInv'
<1>0. UNCHANGED <<chat, voice, provider, secret, file, live, shown, run, last>>
  BY DEF routing, records
<1>1. Rendered' = Rendered /\ Key' = Key
  BY <1>0, RecordsStay DEF records
<1>2. /\ QueueInv' /\ (queue # <<>> => Job' = Job) /\ queue' # <<>>
      /\ \A i \in DOMAIN queue : i \in DOMAIN queue' /\ queue'[i] = queue[i]
  BY QueueGrows
<1>3. Busy => Job' = Job
  BY <1>2 DEF PlaceInv
<1>4. (SaveWaits => SaveWaits') /\ (SaveAsked' => SaveAsked)
  BY QueueGrows DEF SaveWaits, SaveAsked
<1>5. PlaceInv'
  BY <1>0, <1>2, <1>3 DEF PlaceInv, Busy, Setting, ChoicePlaces, Reconciling, Rendering,
    SwitchPlaces
<1>6. RemovalInv' /\ FileInv'
  BY <1>0, <1>1, <1>3, <1>4 DEF RoutingInv, RemovalInv, FileInv, Busy, Reconciling, Rendering,
    Written
<1>7. StepInv'
  BY <1>0, <1>3, <1>4 DEF RoutingInv, StepInv, WasFresh, WasHonest, ModelsInStep, KeyInStep,
    NoKeyLeft, Traced, Busy, TakesBack
<1>8. VerifiedInv' /\ HonestInv'
  BY <1>0, <1>1, <1>3 DEF RoutingInv, VerifiedInv, HonestInv, WasFresh, WasHonest, ModelsInStep,
    Busy, Reconciling, Rendering, Honest
<1>9. EndInv'
  BY <1>0, <1>1, <1>2 DEF RoutingInv, EndInv, SuccessIsServed, NeverClaimsMorePrivacy, At,
    SaveAsked, Honest
<1> QED BY <1>2, <1>5, <1>6, <1>7, <1>8, <1>9 DEF RoutingInv

\* Someone asks for a job that changes nothing before it runs.
Asks(k, w) ==
  /\ CanQueue(k) /\ Queue(k, w) /\ UNCHANGED <<routing, engine, up, apps, agent, page>>

LEMMA AsksKeep ==
  ASSUME IInv, NEW k \in Kinds, NEW w \in WantsOf(k), k # "save", Asks(k, w)
  PROVE  IInv'
<1>0. TypeInv /\ QueueInv /\ PlaceInv /\ RoutingInv /\ RoutingTypes /\ JobTypes
  BY Types DEF IInv
<1>1. /\ CanQueue(k) /\ Queue(k, w)
      /\ UNCHANGED <<routing, engine, up, apps, agent, page, run, last>>
      /\ spent' = [spent EXCEPT !.asks = @ + 1]
  BY DEF Asks, Queue
<1>2. QueueInv' /\ PlaceInv' /\ RoutingInv'
  BY <1>0, <1>1, AsksKeepRouting
<1>3. RoutingTypes'
  BY <1>0, <1>1 DEF RoutingTypes, routing, records
<1>4. spent' \in SpentType /\ SpentSame
  BY <1>0, <1>1, SpentOrNot DEF JobTypes
<1>5. JobTypes'
  BY <1>0, <1>1, <1>4 DEF JobTypes
<1>6. SwitchTypes'
  BY <1>0, <1>1, Types DEF SwitchTypes, apps
<1>7. TypeInv' /\ SwitchInv'
  BY <1>1, <1>2, <1>3, <1>4, <1>5, <1>6, TypesAgain, StillKeepsSwitch DEF IInv, apps
<1> QED BY <1>2, <1>7 DEF IInv

\* A key is saved, and its job asked for.
LEMMA SaveKeyKeeps ==
  ASSUME IInv, SaveKey, UNCHANGED <<apps, agent, page>>
  PROVE  IInv'
<1>0. TypeInv /\ QueueInv /\ PlaceInv /\ RoutingInv /\ RoutingTypes /\ JobTypes
  BY Types DEF IInv
<1>1. /\ CanQueue("save") /\ Queue("save", "none")
      /\ UNCHANGED <<chat, voice, file, live, shown, engine, up, apps, agent, page, run, last>>
      /\ secret' = TRUE /\ provider' = "verifying"
      /\ spent' = [spent EXCEPT !.asks = @ + 1]
  BY DEF SaveKey, Queue
<1>2. "save" \in Kinds /\ "none" \in WantsOf("save") /\ ServiceOf("save") = "provider"
  BY DEF Kinds, ProviderKinds, AiKinds, WantsOf, ServiceOf
<1>3. /\ QueueInv' /\ (queue # <<>> => Job' = Job) /\ queue' # <<>>
      /\ Len(queue') = Len(queue) + 1 /\ queue'[Len(queue) + 1].kind = "save"
      /\ \A i \in DOMAIN queue : i \in DOMAIN queue' /\ queue'[i] = queue[i]
  BY <1>0, <1>1, <1>2, QueueGrows
<1>4. \E i \in DOMAIN queue' : queue'[i].kind = "save"
  BY <1>3 DEF QueueInv
<1>5. Busy => Job' = Job /\ SaveWaits'
  <2>1. SUFFICES ASSUME Busy PROVE Job' = Job /\ SaveWaits'
    OBVIOUS
  <2>2. queue # <<>> /\ Len(queue) \in Nat /\ Len(queue) # 0
    BY <1>0, <2>1 DEF PlaceInv, QueueInv
  <2>3. Len(queue) + 1 \in DOMAIN queue' /\ Len(queue) + 1 # 1
    BY <1>3, <2>2 DEF QueueInv
  <2> QED BY <1>3, <2>2, <2>3 DEF SaveWaits
<1>6. Busy => Job.kind \in AiKinds
  <2>1. SUFFICES ASSUME Busy PROVE Job.kind \in AiKinds
    OBVIOUS
  <2>2. 1 \in DOMAIN queue
    BY <1>0, <2>1, JobIs DEF PlaceInv
  <2> QED BY <1>1, <1>2, <2>2 DEF CanQueue, ServiceOf, Job
<1>7. Rendered'.models = Rendered.models
  BY <1>1, SettingsStay
<1>8. PlaceInv'
  BY <1>0, <1>1, <1>3, <1>5 DEF PlaceInv, Busy, Setting, ChoicePlaces, Reconciling, Rendering,
    SwitchPlaces
<1>9. RemovalInv' /\ FileInv'
  BY <1>0, <1>1, <1>5, <1>6, <1>7 DEF RoutingInv, RemovalInv, FileInv, Busy, Reconciling,
    Rendering,
       Written, AiKinds
<1>10. StepInv'
  BY <1>0, <1>1, <1>5 DEF RoutingInv, StepInv, WasFresh, WasHonest, ModelsInStep, KeyInStep,
    NoKeyLeft, Traced, Busy, TakesBack
<1>11. VerifiedInv' /\ HonestInv'
  BY <1>0, <1>1, <1>5, <1>7 DEF RoutingInv, VerifiedInv, HonestInv, WasFresh, WasHonest,
    ModelsInStep, Busy, Reconciling, Rendering, Honest
<1>12. EndInv'
  BY <1>0, <1>1, <1>4, <1>7 DEF RoutingInv, EndInv, SuccessIsServed, NeverClaimsMorePrivacy, At,
    SaveAsked, Honest
<1>13. RoutingTypes'
  BY <1>0, <1>1 DEF RoutingTypes, ProviderStates
<1>14. spent' \in SpentType /\ SpentSame
  BY <1>0, <1>1, SpentOrNot DEF JobTypes
<1>15. JobTypes'
  BY <1>0, <1>1, <1>14 DEF JobTypes
<1>16. SwitchTypes'
  BY <1>0, <1>1, Types DEF SwitchTypes, apps
<1>17. TypeInv' /\ SwitchInv'
  BY <1>1, <1>3, <1>13, <1>14, <1>15, <1>16, TypesAgain, StillKeepsSwitch DEF IInv, apps
<1> QED BY <1>3, <1>8, <1>9, <1>10, <1>11, <1>12, <1>17 DEF IInv, RoutingInv

-----------------------------------------------------------------------------
(* The jobs of the routing, one outcome of an action at a time: what it
   changes, then the parts of the invariant. *)

\* The worker claims a job: the oldest, or the next one.
LEMMA ClaimKeeps ==
  ASSUME IInv, UNCHANGED <<apps, agent, page>>,
         Claim
  PROVE  IInv'
<1>0. TypeInv /\ QueueInv /\ PlaceInv /\ RoutingInv /\ RoutingTypes /\ JobTypes
  BY Types DEF IInv
<1>1. /\ run.at = "idle"
      /\ UNCHANGED <<chat, voice, provider, secret, file, live, shown, engine, up, last, spent>>
  BY DEF Claim, At, routing, records
<1>2. /\ QueueInv' /\ queue' # <<>> /\ Job'.kind \in Kinds /\ (SaveAsked' => SaveAsked)
      /\ run' \in RunType /\ run'.round = "first" /\ run'.stopped = {}
      /\ run'.at = BeginsAt(Job'.kind)
      /\ (run'.fresh <=> Fresh) /\ (run'.honest <=> Honest)
  <2>1. PICK i \in DOMAIN queue :
          /\ queue' = <<queue[i]>> \o Without(i)
          /\ run' = [Idle EXCEPT !.at = BeginsAt(queue[i].kind), !.fresh = Fresh, !.honest = Honest]
    BY Zenon DEF Claim, BeginsAt
  <2>2. /\ QueueInv' /\ queue' # <<>> /\ Job' = queue[i] /\ queue[i].kind \in Kinds
        /\ (SaveAsked' => SaveAsked)
    BY <1>0, <2>1, QueueClaims, JobsAreItems
  <2>3. BeginsAt(queue[i].kind) \in Places
    BY DEF Places, RoutingPlaces, BeginsAt
  <2>4. /\ run' \in RunType /\ run'.round = "first" /\ run'.stopped = {}
        /\ run'.at = BeginsAt(queue[i].kind)
        /\ (run'.fresh <=> Fresh) /\ (run'.honest <=> Honest)
    BY <2>1, <2>3, RunBegins, Zenon
  <2> QED BY <2>2, <2>4
<1>3. Rendered' = Rendered /\ Rendered.models.chat = chat
  BY <1>0, <1>1, Renders, RecordsStay DEF records
<1>4. spent' \in SpentType /\ SpentSame
  BY <1>0, <1>1, SpentOrNot DEF JobTypes
<1>5. PlaceInv'
  BY <1>2 DEF PlaceInv, ChoicePlaces, Reconciling, Rendering, BeginsAt, Kinds, AiKinds,
    SwitchPlaces
<1>6. RemovalInv'
  BY <1>0, <1>1, <1>2 DEF RoutingInv, RemovalInv, Reconciling, Rendering, BeginsAt
<1>7. FileInv'
  BY <1>2 DEF FileInv, Written, Rendering, BeginsAt
<1>8. StepInv'
  BY <1>1, <1>2 DEF StepInv, WasFresh, ModelsInStep, KeyInStep, BeginsAt, Fresh, Imported,
    TakesBack
<1>9. VerifiedInv'
  BY <1>2 DEF VerifiedInv, Reconciling, Rendering, BeginsAt
<1>10. HonestInv'
  BY <1>1, <1>2, <1>3 DEF HonestInv, WasHonest, BeginsAt, Honest
<1>11. EndInv'
  BY <1>2 DEF EndInv, SuccessIsServed, NeverClaimsMorePrivacy, At, BeginsAt, Honest
<1>12. RoutingTypes' /\ JobTypes' /\ QueueInv'
  BY <1>0, <1>1, <1>2 DEF RoutingTypes, JobTypes
<1>13. Quiet /\ UNCHANGED <<agent, page>>
  BY <1>1, <1>2, <1>4 DEF Quiet, apps, SwitchPlaces
<1> QED BY <1>5, <1>6, <1>7, <1>8, <1>9, <1>10, <1>11, <1>12, <1>13, RoutingStepKeeps DEF
    RoutingInv

\* The local model is there, or is not needed.
LEMMA FetchSavesKeeps ==
  ASSUME IInv, UNCHANGED <<apps, agent, page>>,
         Fetch, UNCHANGED <<queue, last, spent>>, Fetched(Setting)
  PROVE  IInv'
<1>0. TypeInv /\ QueueInv /\ PlaceInv /\ RoutingInv /\ RoutingTypes /\ JobTypes
  BY Types DEF IInv
<1>1. /\ run.at = "fetch"
      /\ UNCHANGED <<chat, voice, provider, secret, file, live, shown, engine, up>>
  BY DEF Fetch, At, routing, records
<1>2. queue # <<>> /\ Job.kind \in Kinds /\ Job.want \in WantsOf(Job.kind)
  BY <1>0, <1>1, JobIs DEF PlaceInv, Busy
<1>3. Rendered' = Rendered /\ Key' = Key
  BY <1>1, RecordsStay DEF records
<1>4. /\ run' \in RunType /\ run'.at = "save" /\ run'.round = run.round
      /\ run'.before = Setting /\ run'.stopped = run.stopped
      /\ (run'.fresh <=> run.fresh) /\ (run'.honest <=> run.honest)
  <2>1. Setting \in Settings
    BY <1>0 DEF RoutingTypes, Settings, Setting
  <2> QED BY <1>0, <2>1, RunFetches DEF JobTypes
<1>5. QueueInv' /\ Job' = Job /\ UNCHANGED last
      /\ (SaveWaits' <=> SaveWaits) /\ (SaveAsked' <=> SaveAsked)
  BY <1>0, QueueStays
<1>6. spent' \in SpentType /\ SpentSame
  BY <1>0, SpentOrNot DEF JobTypes, Fetch
<1>7. PlaceInv'
  BY <1>0, <1>1, <1>2, <1>4, <1>5 DEF PlaceInv, Setting, ChoicePlaces, Reconciling, Rendering,
    RoutingTypes, SwitchPlaces
<1>8. RemovalInv'
  BY <1>0, <1>1, <1>4, <1>5 DEF RoutingInv, RemovalInv, Reconciling, Rendering
<1>9. FileInv'
  BY <1>4 DEF FileInv, Written, Rendering
<1>10. StepInv'
  BY <1>0, <1>1, <1>4 DEF RoutingInv, StepInv, WasFresh, ModelsInStep, KeyInStep, TakesBack
<1>11. VerifiedInv'
  BY <1>4 DEF VerifiedInv, Reconciling, Rendering
<1>12. HonestInv'
  BY <1>0, <1>1, <1>3, <1>4, <1>5 DEF RoutingInv, HonestInv, WasHonest, Busy, Honest
<1>13. EndInv'
  BY <1>4 DEF EndInv, SuccessIsServed, NeverClaimsMorePrivacy, At
<1>14. RoutingTypes' /\ JobTypes' /\ QueueInv'
  BY <1>0, <1>1, <1>4, <1>5 DEF RoutingTypes, JobTypes
<1>15. Quiet /\ UNCHANGED <<agent, page>>
  BY <1>1, <1>4, <1>6 DEF Quiet, apps, SwitchPlaces
<1> QED BY <1>7, <1>8, <1>9, <1>10, <1>11, <1>12, <1>13, <1>14, <1>15, RoutingStepKeeps DEF
    RoutingInv

\* The local model cannot be fetched.
LEMMA FetchFailsKeeps ==
  ASSUME IInv, UNCHANGED <<apps, agent, page>>,
         Fetch, End("failed")
  PROVE  IInv'
<1>0. TypeInv /\ QueueInv /\ PlaceInv /\ RoutingInv /\ RoutingTypes /\ JobTypes
  BY Types DEF IInv
<1>1. /\ run.at = "fetch"
      /\ UNCHANGED <<chat, voice, provider, secret, file, live, shown, engine, up>>
  BY DEF Fetch, At, routing, records
<1>2. queue # <<>> /\ Job.kind \in Kinds /\ Job.want \in WantsOf(Job.kind)
  BY <1>0, <1>1, JobIs DEF PlaceInv, Busy
<1>3. Rendered' = Rendered /\ Key' = Key
  BY <1>1, RecordsStay DEF records
<1>4. /\ QueueInv' /\ run' \in RunType /\ run'.at = "idle" /\ run'.round = "first"
      /\ run'.stopped = {} /\ last' \in LastType /\ LastSays("failed")
      /\ (SaveWaits => SaveAsked') /\ (SaveAsked' => SaveAsked)
  BY <1>0, <1>1, <1>2, Ends, IdleIs DEF JobTypes
<1>5. spent' \in SpentType /\ SpentSame
  BY <1>0, SpentOrNot DEF JobTypes, Fetch
<1>6. Rendered.models.chat = chat
  BY <1>0, Renders
<1>7. PlaceInv'
  BY <1>4 DEF PlaceInv, Busy, ChoicePlaces, Reconciling, Rendering, SwitchPlaces
<1>8. RemovalInv'
  BY <1>0, <1>1, <1>4 DEF RoutingInv, RemovalInv, Reconciling, Rendering
<1>9. FileInv'
  BY <1>4 DEF FileInv, Written, Rendering
<1>10. StepInv'
  BY <1>4 DEF StepInv, TakesBack
<1>11. VerifiedInv'
  BY <1>4 DEF VerifiedInv, Reconciling, Rendering
<1>12. HonestInv'
  BY <1>4 DEF HonestInv, Busy, Honest
<1>13. EndInv'
  BY <1>0, <1>1, <1>4, <1>6 DEF RoutingInv, EndInv, SuccessIsServed, NeverClaimsMorePrivacy,
    LastSays, WasHonest, HonestInv, Honest, Busy
<1>14. RoutingTypes' /\ JobTypes' /\ QueueInv'
  BY <1>0, <1>1, <1>4, <1>5 DEF RoutingTypes, JobTypes
<1>15. Quiet /\ UNCHANGED <<agent, page>>
  BY <1>1, <1>4, <1>5 DEF Quiet, apps, SwitchPlaces
<1> QED BY <1>7, <1>8, <1>9, <1>10, <1>11, <1>12, <1>13, <1>14, <1>15, RoutingStepKeeps DEF
    RoutingInv

\* The wanted setting is recorded.
LEMMA SaveChoiceKeeps ==
  ASSUME IInv, UNCHANGED <<apps, agent, page>>,
         SaveChoice
  PROVE  IInv'
<1>0. TypeInv /\ QueueInv /\ PlaceInv /\ RoutingInv /\ RoutingTypes /\ JobTypes
  BY Types DEF IInv
<1>1. /\ run.at = "save"
      /\ UNCHANGED <<provider, secret, file, live, shown, engine, up, spent>>
  BY DEF SaveChoice, At
<1>2. queue # <<>> /\ Job.kind \in Kinds /\ Job.want \in WantsOf(Job.kind)
  BY <1>0, <1>1, JobIs DEF PlaceInv, Busy
<1>3. Job.kind \in {"chat", "voice"} /\ run.round = "first" /\ run.before = Setting
  BY <1>0, <1>1 DEF PlaceInv, ChoicePlaces, Reconciling, Rendering
<1>4. \/ Job.kind = "chat" /\ chat' = Job.want /\ Job.want \in Sources /\ UNCHANGED voice
      \/ Job.kind = "voice" /\ voice' = Job.want /\ UNCHANGED chat
         /\ Job.want \in Privacies \cup {"follows"}
  BY <1>2, <1>3 DEF SaveChoice, Save, WantsOf
<1>5. Reconcile("first")
  BY DEF SaveChoice
<1>6. /\ run' \in RunType /\ run'.at = "write" /\ run'.round = "first" /\ RunSame
      /\ UNCHANGED <<queue, last>>
  BY <1>0, <1>5, RunReconciles DEF JobTypes
<1>7. /\ QueueInv' /\ Job' = Job /\ (SaveWaits' <=> SaveWaits) /\ (SaveAsked' <=> SaveAsked)
      /\ Rendered'.models.chat = chat' /\ Rendered.models.chat = chat
  BY <1>0, <1>6, QueueStays, Renders DEF Rendered
<1>8. UNCHANGED <<chat, voice>> => Rendered'.models = Rendered.models
  BY SettingsStay
<1>9. spent' \in SpentType /\ SpentSame
  BY <1>0, <1>1 DEF JobTypes, SpentSame
<1>10. PlaceInv'
  BY <1>0, <1>2, <1>3, <1>4, <1>6, <1>7, <1>8, <1>9 DEF PlaceInv, Setting, RunSame,
    SwitchPlaces, RoutingTypes
<1>11. RemovalInv'
  BY <1>0, <1>1, <1>4, <1>7, <1>8, <1>9 DEF RoutingInv, RemovalInv
<1>12. FileInv'
  BY <1>6, <1>7, <1>8, <1>9 DEF FileInv, Written, Rendering
<1>13. StepInv'
  BY <1>0, <1>1, <1>6, <1>7, <1>8, <1>9 DEF RoutingInv, StepInv, WasFresh, ModelsInStep,
    KeyInStep, RunSame, TakesBack
<1>14. VerifiedInv'
  BY <1>4, <1>7, <1>8, <1>9 DEF VerifiedInv
<1>15. HonestInv'
  BY <1>0, <1>1, <1>3, <1>4, <1>6, <1>7, <1>8, <1>9 DEF RoutingInv, HonestInv, WasFresh,
    WasHonest, Busy, Setting, RunSame, Honest
<1>16. EndInv'
  BY <1>6, <1>7, <1>8, <1>9 DEF EndInv, SuccessIsServed, NeverClaimsMorePrivacy, At
<1>17. RoutingTypes' /\ JobTypes' /\ QueueInv'
  BY <1>0, <1>1, <1>4, <1>6, <1>7, <1>8, <1>9 DEF RoutingTypes, JobTypes
<1>18. Quiet /\ UNCHANGED <<agent, page>>
  BY <1>1, <1>6, <1>7, <1>8, <1>9 DEF Quiet, apps, RunSame, SwitchPlaces
<1> QED BY <1>10, <1>11, <1>12, <1>13, <1>14, <1>15, <1>16, <1>17, <1>18, RoutingStepKeeps DEF
    RoutingInv

\* The chat route answers.
LEMMA ProbeFollowsKeeps ==
  ASSUME IInv, UNCHANGED <<apps, agent, page>>,
         Probe, Go("follow"), Job.kind = "chat"
  PROVE  IInv'
<1>0. TypeInv /\ QueueInv /\ PlaceInv /\ RoutingInv /\ RoutingTypes /\ JobTypes
  BY Types DEF IInv
<1>1. /\ run.at = "probe"
      /\ UNCHANGED <<chat, voice, provider, secret, file, live, shown, engine, up>>
  BY DEF Probe, At, routing, records
<1>2. queue # <<>> /\ Job.kind \in Kinds /\ Job.want \in WantsOf(Job.kind)
  BY <1>0, <1>1, JobIs DEF PlaceInv, Busy
<1>3. Rendered' = Rendered /\ Key' = Key
  BY <1>1, RecordsStay DEF records
<1>4. /\ run' \in RunType /\ run'.at = "follow" /\ run'.round = run.round /\ RunSame
      /\ UNCHANGED <<queue, last>>
  BY <1>0, RunGoes DEF Go, JobTypes, Places, RoutingPlaces
<1>5. QueueInv' /\ Job' = Job /\ (SaveWaits' <=> SaveWaits) /\ (SaveAsked' <=> SaveAsked)
  BY <1>0, <1>4, QueueStays
<1>6. spent' \in SpentType /\ SpentSame
  BY <1>0, SpentOrNot DEF JobTypes, Probe
<1>7. PlaceInv'
  BY <1>0, <1>1, <1>4, <1>5 DEF PlaceInv, Busy, Setting, Reconciling, Rendering, RunSame,
    SwitchPlaces
<1>8. RemovalInv'
  BY <1>0, <1>1, <1>5 DEF RoutingInv, RemovalInv
<1>9. FileInv'
  BY <1>0, <1>1, <1>3, <1>4, <1>5 DEF RoutingInv, FileInv, Written
<1>10. StepInv'
  BY <1>0, <1>1, <1>4, <1>5 DEF RoutingInv, StepInv, WasFresh, WasHonest, ModelsInStep, KeyInStep,
    NoKeyLeft, Traced, RunSame, TakesBack
<1>11. VerifiedInv'
  BY <1>5 DEF VerifiedInv
<1>12. HonestInv'
  BY <1>0, <1>1, <1>3, <1>4, <1>5 DEF RoutingInv, HonestInv, WasFresh, WasHonest, ModelsInStep,
    Busy, RunSame, Honest
<1>13. EndInv'
  BY <1>4 DEF EndInv, SuccessIsServed, NeverClaimsMorePrivacy, At
<1>14. RoutingTypes' /\ JobTypes' /\ QueueInv'
  BY <1>0, <1>1, <1>4, <1>5, <1>6 DEF RoutingTypes, JobTypes
<1>15. Quiet /\ UNCHANGED <<agent, page>>
  BY <1>1, <1>4, <1>6 DEF Quiet, apps, RunSame, SwitchPlaces
<1> QED BY <1>7, <1>8, <1>9, <1>10, <1>11, <1>12, <1>13, <1>14, <1>15, RoutingStepKeeps DEF
    RoutingInv

\* The voice routes answer.
LEMMA ProbeEndsKeeps ==
  ASSUME IInv, UNCHANGED <<apps, agent, page>>,
         Probe, Job.kind = "voice", End("succeeded")
  PROVE  IInv'
<1>0. TypeInv /\ QueueInv /\ PlaceInv /\ RoutingInv /\ RoutingTypes /\ JobTypes
  BY Types DEF IInv
<1>1. /\ run.at = "probe"
      /\ UNCHANGED <<chat, voice, provider, secret, file, live, shown, engine, up>>
  BY DEF Probe, At, routing, records
<1>2. queue # <<>> /\ Job.kind \in Kinds /\ Job.want \in WantsOf(Job.kind)
  BY <1>0, <1>1, JobIs DEF PlaceInv, Busy
<1>3. Rendered' = Rendered /\ Key' = Key
  BY <1>1, RecordsStay DEF records
<1>4. /\ QueueInv' /\ run' \in RunType /\ run'.at = "idle" /\ run'.round = "first"
      /\ run'.stopped = {} /\ last' \in LastType /\ LastSays("succeeded")
      /\ (SaveWaits => SaveAsked') /\ (SaveAsked' => SaveAsked)
  BY <1>0, <1>1, <1>2, Ends, IdleIs DEF JobTypes
<1>5. spent' \in SpentType /\ SpentSame
  BY <1>0, SpentOrNot DEF JobTypes, Probe
<1>6. Rendered.key = Key /\ Rendered.models.chat = chat /\ Key \in {"none", "off", "on"}
  BY <1>0, Renders
<1>7. PlaceInv'
  BY <1>4 DEF PlaceInv, Busy, ChoicePlaces, Reconciling, Rendering, SwitchPlaces
<1>8. RemovalInv'
  BY <1>0, <1>1, <1>4 DEF RoutingInv, RemovalInv, Reconciling, Rendering
<1>9. FileInv'
  BY <1>4 DEF FileInv, Written, Rendering
<1>10. StepInv'
  BY <1>4 DEF StepInv, TakesBack
<1>11. VerifiedInv'
  BY <1>4 DEF VerifiedInv, Reconciling, Rendering
<1>12. HonestInv'
  BY <1>4 DEF HonestInv, Busy, Honest
<1>13. EndInv'
  BY <1>0, <1>1, <1>3, <1>4, <1>6 DEF RoutingInv, EndInv, SuccessIsServed, NeverClaimsMorePrivacy,
    LastSays, PlaceInv, Reconciling, Rendering, FileInv, Written, StepInv, WasFresh, ModelsInStep,
    KeyInStep, NoKeyLeft, Traced, Honest, TakesBack
<1>14. RoutingTypes' /\ JobTypes' /\ QueueInv'
  BY <1>0, <1>1, <1>4, <1>5 DEF RoutingTypes, JobTypes
<1>15. Quiet /\ UNCHANGED <<agent, page>>
  BY <1>1, <1>4, <1>5 DEF Quiet, apps, SwitchPlaces
<1> QED BY <1>7, <1>8, <1>9, <1>10, <1>11, <1>12, <1>13, <1>14, <1>15, RoutingStepKeeps DEF
    RoutingInv

\* The probe fails.
LEMMA ProbeUndoesKeeps ==
  ASSUME IInv, UNCHANGED <<apps, agent, page>>,
         Probe, Go("undo")
  PROVE  IInv'
<1>0. TypeInv /\ QueueInv /\ PlaceInv /\ RoutingInv /\ RoutingTypes /\ JobTypes
  BY Types DEF IInv
<1>1. /\ run.at = "probe"
      /\ UNCHANGED <<chat, voice, provider, secret, file, live, shown, engine, up>>
  BY DEF Probe, At, routing, records
<1>2. queue # <<>> /\ Job.kind \in Kinds /\ Job.want \in WantsOf(Job.kind)
  BY <1>0, <1>1, JobIs DEF PlaceInv, Busy
<1>3. Rendered' = Rendered /\ Key' = Key
  BY <1>1, RecordsStay DEF records
<1>4. /\ run' \in RunType /\ run'.at = "undo" /\ run'.round = run.round /\ RunSame
      /\ UNCHANGED <<queue, last>>
  BY <1>0, RunGoes DEF Go, JobTypes, Places, RoutingPlaces
<1>5. QueueInv' /\ Job' = Job /\ (SaveWaits' <=> SaveWaits) /\ (SaveAsked' <=> SaveAsked)
  BY <1>0, <1>4, QueueStays
<1>6. spent' \in SpentType /\ SpentSame
  BY <1>0, SpentOrNot DEF JobTypes, Probe
<1>7. PlaceInv'
  BY <1>0, <1>1, <1>4, <1>5 DEF PlaceInv, Busy, Setting, ChoicePlaces, Reconciling, Rendering,
    RunSame, SwitchPlaces
<1>8. RemovalInv'
  BY <1>0, <1>1, <1>4, <1>5 DEF RoutingInv, RemovalInv, Reconciling, Rendering
<1>9. FileInv'
  BY <1>0, <1>1, <1>3, <1>4, <1>5 DEF RoutingInv, FileInv, Written, Rendering, PlaceInv,
    Reconciling
<1>10. StepInv'
  BY <1>0, <1>1, <1>4 DEF RoutingInv, StepInv, WasFresh, ModelsInStep, Traced, TakesBack,
    PlaceInv, Reconciling, Rendering, RunSame
<1>11. VerifiedInv'
  BY <1>4 DEF VerifiedInv, Reconciling, Rendering
<1>12. HonestInv'
  BY <1>0, <1>1, <1>3, <1>4, <1>5 DEF RoutingInv, HonestInv, WasFresh, WasHonest, ModelsInStep,
    Busy, RunSame, Honest
<1>13. EndInv'
  BY <1>4 DEF EndInv, SuccessIsServed, NeverClaimsMorePrivacy, At
<1>14. RoutingTypes' /\ JobTypes' /\ QueueInv'
  BY <1>0, <1>1, <1>4, <1>5, <1>6 DEF RoutingTypes, JobTypes
<1>15. Quiet /\ UNCHANGED <<agent, page>>
  BY <1>1, <1>4, <1>6 DEF Quiet, apps, RunSame, SwitchPlaces
<1> QED BY <1>7, <1>8, <1>9, <1>10, <1>11, <1>12, <1>13, <1>14, <1>15, RoutingStepKeeps DEF
    RoutingInv

\* The earlier setting is recorded again.
LEMMA UndoKeeps ==
  ASSUME IInv, UNCHANGED <<apps, agent, page>>,
         Undo
  PROVE  IInv'
<1>0. TypeInv /\ QueueInv /\ PlaceInv /\ RoutingInv /\ RoutingTypes /\ JobTypes
  BY Types DEF IInv
<1>1. /\ run.at = "undo"
      /\ UNCHANGED <<provider, secret, file, live, shown, engine, up, spent>>
  BY DEF Undo, At
<1>2. queue # <<>> /\ Job.kind \in Kinds /\ Job.want \in WantsOf(Job.kind)
  BY <1>0, <1>1, JobIs DEF PlaceInv, Busy
<1>3. Job.kind \in {"chat", "voice"} /\ run.round = "first"
  BY <1>0, <1>1 DEF PlaceInv, ChoicePlaces, Reconciling, Rendering
<1>4. \/ Job.kind = "chat" /\ chat' = run.before /\ run.before \in Sources /\ UNCHANGED voice
      \/ Job.kind = "voice" /\ voice' = run.before /\ UNCHANGED chat
         /\ run.before \in Privacies \cup {"follows"}
  BY <1>0, <1>1, <1>2, <1>3 DEF Undo, Save, PlaceInv, Busy
<1>5. Reconcile("again")
  BY DEF Undo
<1>6. /\ run' \in RunType /\ run'.at = "write" /\ run'.round = "again" /\ RunSame
      /\ UNCHANGED <<queue, last>>
  BY <1>0, <1>5, RunReconciles DEF JobTypes
<1>7. /\ QueueInv' /\ Job' = Job /\ (SaveWaits' <=> SaveWaits) /\ (SaveAsked' <=> SaveAsked)
      /\ Rendered'.models.chat = chat' /\ Rendered.models.chat = chat
  BY <1>0, <1>6, QueueStays, Renders DEF Rendered
<1>8. UNCHANGED <<chat, voice>> => Rendered'.models = Rendered.models
  BY SettingsStay
<1>9. spent' \in SpentType /\ SpentSame
  BY <1>0, <1>1 DEF JobTypes, SpentSame
<1>10. PlaceInv'
  BY <1>2, <1>4, <1>6, <1>7, <1>8, <1>9 DEF PlaceInv, Setting, Reconciling, RunSame, SwitchPlaces
<1>11. RemovalInv'
  BY <1>0, <1>1, <1>4, <1>7, <1>8, <1>9 DEF RoutingInv, RemovalInv
<1>12. FileInv'
  BY <1>0, <1>1, <1>6, <1>7, <1>8, <1>9 DEF RoutingInv, FileInv, Written, Rendering, PlaceInv,
    Setting
<1>13. StepInv'
  BY <1>0, <1>1, <1>6, <1>7 DEF RoutingInv, StepInv, WasFresh, ModelsInStep, TakesBack, RunSame
<1>14. VerifiedInv'
  BY <1>4, <1>7, <1>8, <1>9 DEF VerifiedInv
<1>15. HonestInv'
  BY <1>0, <1>1, <1>4, <1>6, <1>7, <1>8, <1>9 DEF RoutingInv, HonestInv, WasFresh, WasHonest,
    ModelsInStep, Busy, RunSame, Honest
<1>16. EndInv'
  BY <1>6, <1>7, <1>8, <1>9 DEF EndInv, SuccessIsServed, NeverClaimsMorePrivacy, At
<1>17. RoutingTypes' /\ JobTypes' /\ QueueInv'
  BY <1>0, <1>1, <1>4, <1>6, <1>7, <1>8, <1>9 DEF RoutingTypes, JobTypes
<1>18. Quiet /\ UNCHANGED <<agent, page>>
  BY <1>1, <1>6, <1>7, <1>8, <1>9 DEF Quiet, apps, RunSame, SwitchPlaces
<1> QED BY <1>10, <1>11, <1>12, <1>13, <1>14, <1>15, <1>16, <1>17, <1>18, RoutingStepKeeps DEF
    RoutingInv

\* The list of the chat app follows.
LEMMA FollowSucceedsKeeps ==
  ASSUME IInv, UNCHANGED <<apps, agent, page>>,
         Follow, shown' = chat, End("succeeded")
  PROVE  IInv'
<1>0. TypeInv /\ QueueInv /\ PlaceInv /\ RoutingInv /\ RoutingTypes /\ JobTypes
  BY Types DEF IInv
<1>1. /\ run.at = "follow"
      /\ UNCHANGED <<chat, voice, provider, secret, file, live, engine, up>>
      /\ shown' = chat
  BY DEF Follow, At, records, End, LastSays
<1>2. queue # <<>> /\ Job.kind \in Kinds /\ Job.want \in WantsOf(Job.kind)
  BY <1>0, <1>1, JobIs DEF PlaceInv, Busy
<1>3. Rendered' = Rendered /\ Key' = Key
  BY <1>1, RecordsStay DEF records
<1>4. /\ QueueInv' /\ run' \in RunType /\ run'.at = "idle" /\ run'.round = "first"
      /\ run'.stopped = {} /\ last' \in LastType /\ LastSays("succeeded")
      /\ (SaveWaits => SaveAsked') /\ (SaveAsked' => SaveAsked)
  BY <1>0, <1>1, <1>2, Ends, IdleIs DEF JobTypes
<1>5. spent' \in SpentType /\ SpentSame
  BY <1>0, SpentOrNot DEF JobTypes, Follow
<1>6. Rendered.key = Key /\ Rendered.models.chat = chat /\ Key \in {"none", "off", "on"}
  BY <1>0, Renders
<1>7. PlaceInv'
  BY <1>4 DEF PlaceInv, Busy, ChoicePlaces, Reconciling, Rendering, SwitchPlaces
<1>8. RemovalInv'
  BY <1>0, <1>1, <1>4 DEF RoutingInv, RemovalInv, Reconciling, Rendering
<1>9. FileInv'
  BY <1>4 DEF FileInv, Written, Rendering
<1>10. StepInv'
  BY <1>4 DEF StepInv, TakesBack
<1>11. VerifiedInv'
  BY <1>4 DEF VerifiedInv, Reconciling, Rendering
<1>12. HonestInv'
  BY <1>4 DEF HonestInv, Busy, Honest
<1>13. EndInv'
  BY <1>0, <1>1, <1>3, <1>4, <1>6 DEF RoutingInv, EndInv, SuccessIsServed, NeverClaimsMorePrivacy,
    LastSays, PlaceInv, Reconciling, Rendering, FileInv, Written, StepInv, WasFresh, ModelsInStep,
    KeyInStep, NoKeyLeft, Traced, Honest, TakesBack
<1>14. RoutingTypes' /\ JobTypes' /\ QueueInv'
  BY <1>0, <1>1, <1>4, <1>5 DEF RoutingTypes, JobTypes
<1>15. Quiet /\ UNCHANGED <<agent, page>>
  BY <1>1, <1>4, <1>5 DEF Quiet, apps, SwitchPlaces
<1> QED BY <1>7, <1>8, <1>9, <1>10, <1>11, <1>12, <1>13, <1>14, <1>15, RoutingStepKeeps DEF
    RoutingInv

\* It cannot be changed.
LEMMA FollowFailsKeeps ==
  ASSUME IInv, UNCHANGED <<apps, agent, page>>,
         Follow, End("failed")
  PROVE  IInv'
<1>0. TypeInv /\ QueueInv /\ PlaceInv /\ RoutingInv /\ RoutingTypes /\ JobTypes
  BY Types DEF IInv
<1>1. /\ run.at = "follow"
      /\ UNCHANGED <<chat, voice, provider, secret, file, live, engine, up>>
      /\ shown' \in {shown, chat}
  BY DEF Follow, At, records
<1>2. queue # <<>> /\ Job.kind \in Kinds /\ Job.want \in WantsOf(Job.kind)
  BY <1>0, <1>1, JobIs DEF PlaceInv, Busy
<1>3. Rendered' = Rendered /\ Key' = Key
  BY <1>1, RecordsStay DEF records
<1>4. /\ QueueInv' /\ run' \in RunType /\ run'.at = "idle" /\ run'.round = "first"
      /\ run'.stopped = {} /\ last' \in LastType /\ LastSays("failed")
      /\ (SaveWaits => SaveAsked') /\ (SaveAsked' => SaveAsked)
  BY <1>0, <1>1, <1>2, Ends, IdleIs DEF JobTypes
<1>5. spent' \in SpentType /\ SpentSame
  BY <1>0, SpentOrNot DEF JobTypes, Follow
<1>6. Rendered.models.chat = chat
  BY <1>0, Renders
<1>7. PlaceInv'
  BY <1>4 DEF PlaceInv, Busy, ChoicePlaces, Reconciling, Rendering, SwitchPlaces
<1>8. RemovalInv'
  BY <1>0, <1>1, <1>4 DEF RoutingInv, RemovalInv, Reconciling, Rendering
<1>9. FileInv'
  BY <1>4 DEF FileInv, Written, Rendering
<1>10. StepInv'
  BY <1>4 DEF StepInv, TakesBack
<1>11. VerifiedInv'
  BY <1>4 DEF VerifiedInv, Reconciling, Rendering
<1>12. HonestInv'
  BY <1>4 DEF HonestInv, Busy, Honest
<1>13. EndInv'
  BY <1>0, <1>1, <1>4, <1>6 DEF RoutingInv, EndInv, SuccessIsServed, NeverClaimsMorePrivacy,
    LastSays, PlaceInv, Reconciling, Rendering, FileInv, Written, StepInv, WasFresh, WasHonest, ModelsInStep, Traced,
    HonestInv, Honest, TakesBack
<1>14. RoutingTypes' /\ JobTypes' /\ QueueInv'
  BY <1>0, <1>1, <1>4, <1>5 DEF RoutingTypes, JobTypes
<1>15. Quiet /\ UNCHANGED <<agent, page>>
  BY <1>1, <1>4, <1>5 DEF Quiet, apps, SwitchPlaces
<1> QED BY <1>7, <1>8, <1>9, <1>10, <1>11, <1>12, <1>13, <1>14, <1>15, RoutingStepKeeps DEF
    RoutingInv

\* The provider is switched off.
LEMMA DisablesKeeps ==
  ASSUME IInv, UNCHANGED <<apps, agent, page>>,
         ProviderBegins, Job.kind = "disable"
  PROVE  IInv'
<1>0. TypeInv /\ QueueInv /\ PlaceInv /\ RoutingInv /\ RoutingTypes /\ JobTypes
  BY Types DEF IInv
<1>1. /\ run.at = "begin"
      /\ UNCHANGED <<chat, voice, file, live, shown, engine, up, spent>>
      /\ Job.kind \in ProviderKinds
      /\ provider' = "disabled" /\ UNCHANGED secret
  BY DEF ProviderBegins, At, Doing
<1>2. queue # <<>> /\ Job.kind \in Kinds /\ Job.want \in WantsOf(Job.kind)
  BY <1>0, <1>1, JobIs DEF PlaceInv, Busy
<1>3. Reconcile("first")
  BY DEF ProviderBegins
<1>4. /\ run' \in RunType /\ run'.at = "write" /\ run'.round = "first" /\ RunSame
      /\ UNCHANGED <<queue, last>>
  BY <1>0, <1>3, RunReconciles DEF JobTypes
<1>5. QueueInv' /\ Job' = Job /\ (SaveWaits' <=> SaveWaits) /\ (SaveAsked' <=> SaveAsked)
  BY <1>0, <1>4, QueueStays
<1>6. spent' \in SpentType /\ SpentSame
  BY <1>0, <1>1, SpentOrNot DEF JobTypes
<1>7. /\ Rendered'.models = Rendered.models /\ Rendered.models.chat = chat
      /\ Job.kind \in ProviderKinds => ~SaveWaits /\ (Job.kind # "save" => ~SaveAsked)
  BY <1>0, <1>1, <1>2, Renders, SettingsStay, NoSaveWaits
<1>8. PlaceInv'
  BY <1>2, <1>4, <1>5, <1>7 DEF PlaceInv, ChoicePlaces, SwitchPlaces
<1>9. RemovalInv'
  BY <1>1, <1>5, <1>7 DEF RemovalInv
<1>10. FileInv'
  BY <1>4, <1>7 DEF FileInv, Written, Rendering
<1>11. StepInv'
  BY <1>0, <1>1, <1>4, <1>7 DEF RoutingInv, StepInv, WasFresh, ModelsInStep, KeyInStep, RunSame,
    TakesBack
<1>12. VerifiedInv'
  BY <1>5, <1>7 DEF VerifiedInv
<1>13. HonestInv'
  BY <1>0, <1>1, <1>4, <1>5, <1>7 DEF RoutingInv, HonestInv, WasHonest, Busy, RunSame, Honest
<1>14. EndInv'
  BY <1>4, <1>7 DEF EndInv, SuccessIsServed, NeverClaimsMorePrivacy, At
<1>15. RoutingTypes' /\ JobTypes' /\ QueueInv'
  BY <1>0, <1>1, <1>4, <1>5, <1>7 DEF RoutingTypes, JobTypes, ProviderStates
<1>16. Quiet /\ UNCHANGED <<agent, page>>
  BY <1>1, <1>4, <1>6, <1>7 DEF Quiet, apps, RunSame, SwitchPlaces
<1> QED BY <1>8, <1>9, <1>10, <1>11, <1>12, <1>13, <1>14, <1>15, <1>16, RoutingStepKeeps DEF
    RoutingInv

\* The provider is about to be removed: its key is forgotten.
LEMMA RemovesKeeps ==
  ASSUME IInv, UNCHANGED <<apps, agent, page>>,
         ProviderBegins, Job.kind = "remove"
  PROVE  IInv'
<1>0. TypeInv /\ QueueInv /\ PlaceInv /\ RoutingInv /\ RoutingTypes /\ JobTypes
  BY Types DEF IInv
<1>1. /\ run.at = "begin"
      /\ UNCHANGED <<chat, voice, file, live, shown, engine, up, spent>>
      /\ Job.kind \in ProviderKinds
      /\ provider' = "removing" /\ secret' = FALSE
  BY DEF ProviderBegins, At, Doing
<1>2. queue # <<>> /\ Job.kind \in Kinds /\ Job.want \in WantsOf(Job.kind)
  BY <1>0, <1>1, JobIs DEF PlaceInv, Busy
<1>3. Reconcile("first")
  BY DEF ProviderBegins
<1>4. /\ run' \in RunType /\ run'.at = "write" /\ run'.round = "first" /\ RunSame
      /\ UNCHANGED <<queue, last>>
  BY <1>0, <1>3, RunReconciles DEF JobTypes
<1>5. QueueInv' /\ Job' = Job /\ (SaveWaits' <=> SaveWaits) /\ (SaveAsked' <=> SaveAsked)
  BY <1>0, <1>4, QueueStays
<1>6. spent' \in SpentType /\ SpentSame
  BY <1>0, <1>1, SpentOrNot DEF JobTypes
<1>7. /\ Rendered'.models = Rendered.models /\ Rendered.models.chat = chat
      /\ Job.kind \in ProviderKinds => ~SaveWaits /\ (Job.kind # "save" => ~SaveAsked)
  BY <1>0, <1>1, <1>2, Renders, SettingsStay, NoSaveWaits
<1>8. PlaceInv'
  BY <1>2, <1>4, <1>5, <1>7 DEF PlaceInv, ChoicePlaces, SwitchPlaces
<1>9. RemovalInv'
  BY <1>1, <1>4, <1>5, <1>7 DEF RemovalInv, Rendering
<1>10. FileInv'
  BY <1>4, <1>7 DEF FileInv, Written, Rendering
<1>11. StepInv'
  BY <1>0, <1>1, <1>4, <1>7 DEF RoutingInv, StepInv, WasFresh, ModelsInStep, KeyInStep, RunSame,
    TakesBack
<1>12. VerifiedInv'
  BY <1>5, <1>7 DEF VerifiedInv
<1>13. HonestInv'
  BY <1>0, <1>1, <1>4, <1>5, <1>7 DEF RoutingInv, HonestInv, WasHonest, Busy, RunSame, Honest
<1>14. EndInv'
  BY <1>4, <1>7 DEF EndInv, SuccessIsServed, NeverClaimsMorePrivacy, At
<1>15. RoutingTypes' /\ JobTypes' /\ QueueInv'
  BY <1>0, <1>1, <1>4, <1>5, <1>7 DEF RoutingTypes, JobTypes, ProviderStates
<1>16. Quiet /\ UNCHANGED <<agent, page>>
  BY <1>1, <1>4, <1>6, <1>7 DEF Quiet, apps, RunSame, SwitchPlaces
<1> QED BY <1>8, <1>9, <1>10, <1>11, <1>12, <1>13, <1>14, <1>15, <1>16, RoutingStepKeeps DEF
    RoutingInv

\* A key is about to be checked.
LEMMA VerifiesKeeps ==
  ASSUME IInv, UNCHANGED <<apps, agent, page>>,
         ProviderBegins, Job.kind \in {"save", "verify"}, OutsideUsed
  PROVE  IInv'
<1>0. TypeInv /\ QueueInv /\ PlaceInv /\ RoutingInv /\ RoutingTypes /\ JobTypes
  BY Types DEF IInv
<1>1. /\ run.at = "begin"
      /\ UNCHANGED <<chat, voice, file, live, shown, engine, up, spent>>
      /\ Job.kind \in ProviderKinds
      /\ provider' = "verifying" /\ UNCHANGED secret
  BY DEF ProviderBegins, At, Doing
<1>2. queue # <<>> /\ Job.kind \in Kinds /\ Job.want \in WantsOf(Job.kind)
  BY <1>0, <1>1, JobIs DEF PlaceInv, Busy
<1>3. Reconcile("first")
  BY DEF ProviderBegins
<1>4. /\ run' \in RunType /\ run'.at = "write" /\ run'.round = "first" /\ RunSame
      /\ UNCHANGED <<queue, last>>
  BY <1>0, <1>3, RunReconciles DEF JobTypes
<1>5. QueueInv' /\ Job' = Job /\ (SaveWaits' <=> SaveWaits) /\ (SaveAsked' <=> SaveAsked)
  BY <1>0, <1>4, QueueStays
<1>6. spent' \in SpentType /\ SpentSame
  BY <1>0, <1>1, SpentOrNot DEF JobTypes
<1>7. /\ Rendered'.models = Rendered.models /\ Rendered.models.chat = chat
      /\ Job.kind \in ProviderKinds => ~SaveWaits /\ (Job.kind # "save" => ~SaveAsked)
  BY <1>0, <1>1, <1>2, Renders, SettingsStay, NoSaveWaits
<1>8. PlaceInv'
  BY <1>2, <1>4, <1>5, <1>7 DEF PlaceInv, ChoicePlaces, SwitchPlaces
<1>9. RemovalInv'
  BY <1>0, <1>1, <1>5, <1>7 DEF RoutingInv, RemovalInv
<1>10. FileInv'
  BY <1>4, <1>7 DEF FileInv, Written, Rendering
<1>11. StepInv'
  BY <1>0, <1>1, <1>4, <1>7 DEF RoutingInv, StepInv, WasFresh, ModelsInStep, KeyInStep, RunSame,
    TakesBack
<1>12. VerifiedInv'
  BY <1>1, <1>7 DEF VerifiedInv
<1>13. HonestInv'
  BY <1>0, <1>1, <1>4, <1>5, <1>7 DEF RoutingInv, HonestInv, WasHonest, Busy, RunSame, Honest
<1>14. EndInv'
  BY <1>4, <1>7 DEF EndInv, SuccessIsServed, NeverClaimsMorePrivacy, At
<1>15. RoutingTypes' /\ JobTypes' /\ QueueInv'
  BY <1>0, <1>1, <1>4, <1>5, <1>7 DEF RoutingTypes, JobTypes, ProviderStates
<1>16. Quiet /\ UNCHANGED <<agent, page>>
  BY <1>1, <1>4, <1>6, <1>7 DEF Quiet, apps, RunSame, SwitchPlaces
<1> QED BY <1>8, <1>9, <1>10, <1>11, <1>12, <1>13, <1>14, <1>15, <1>16, RoutingStepKeeps DEF
    RoutingInv

\* No outside provider is used, so none is checked.
LEMMA NotVerifiedKeeps ==
  ASSUME IInv, UNCHANGED <<apps, agent, page>>,
         ProviderBegins, UNCHANGED <<provider, secret>>, End("failed")
  PROVE  IInv'
<1>0. TypeInv /\ QueueInv /\ PlaceInv /\ RoutingInv /\ RoutingTypes /\ JobTypes
  BY Types DEF IInv
<1>1. /\ run.at = "begin"
      /\ UNCHANGED <<chat, voice, file, live, shown, engine, up, spent>>
      /\ Job.kind \in ProviderKinds
      /\ UNCHANGED <<provider, secret>>
  BY DEF ProviderBegins, At, Doing
<1>2. queue # <<>> /\ Job.kind \in Kinds /\ Job.want \in WantsOf(Job.kind)
  BY <1>0, <1>1, JobIs DEF PlaceInv, Busy
<1>3. /\ QueueInv' /\ run' \in RunType /\ run'.at = "idle" /\ run'.round = "first"
      /\ run'.stopped = {} /\ last' \in LastType /\ LastSays("failed") /\ (SaveAsked' => SaveAsked)
  BY <1>0, <1>1, <1>2, Ends, IdleIs DEF JobTypes
<1>4. spent' \in SpentType /\ SpentSame
  BY <1>0, <1>1, SpentOrNot DEF JobTypes
<1>5. Rendered.models.chat = chat
  BY <1>0, Renders
<1>6. Rendered' = Rendered
  BY <1>1, RecordsStay DEF records
<1>7. PlaceInv'
  BY <1>3 DEF PlaceInv, Busy, ChoicePlaces, Reconciling, Rendering, SwitchPlaces
<1>8. RemovalInv'
  BY <1>0, <1>1, <1>3 DEF RoutingInv, RemovalInv, Reconciling, Rendering
<1>9. FileInv'
  BY <1>3 DEF FileInv, Written, Rendering
<1>10. StepInv'
  BY <1>3 DEF StepInv, TakesBack
<1>11. VerifiedInv'
  BY <1>3 DEF VerifiedInv, Reconciling, Rendering
<1>12. HonestInv'
  BY <1>3 DEF HonestInv, Busy, Honest
<1>13. EndInv'
  BY <1>0, <1>1, <1>3 DEF RoutingInv, EndInv, SuccessIsServed, NeverClaimsMorePrivacy, LastSays,
    Busy, WasHonest, HonestInv, ProviderKinds, Honest
<1>14. RoutingTypes' /\ JobTypes' /\ QueueInv'
  BY <1>0, <1>1, <1>3 DEF RoutingTypes, JobTypes
<1>15. Quiet /\ UNCHANGED <<agent, page>>
  BY <1>1, <1>3, <1>4 DEF Quiet, apps, SwitchPlaces
<1> QED BY <1>7, <1>8, <1>9, <1>10, <1>11, <1>12, <1>13, <1>14, <1>15, RoutingStepKeeps DEF
    RoutingInv

\* The key and the route to it are checked.
LEMMA CheckKeeps ==
  ASSUME IInv, UNCHANGED <<apps, agent, page>>,
         Check
  PROVE  IInv'
<1>0. TypeInv /\ QueueInv /\ PlaceInv /\ RoutingInv /\ RoutingTypes /\ JobTypes
  BY Types DEF IInv
<1>1. /\ run.at = "check"
      /\ UNCHANGED <<chat, voice, secret, file, live, shown, engine, up, spent>>
      /\ provider' \in {"verified", "degraded"}
      /\ provider' = "verified" => live.key # "none" /\ secret
  BY DEF Check, CheckMayPass, At
<1>2. queue # <<>> /\ Job.kind \in Kinds /\ Job.want \in WantsOf(Job.kind)
  BY <1>0, <1>1, JobIs DEF PlaceInv, Busy
<1>3. /\ Job.kind \in {"save", "verify"} /\ run.round = "first"
      /\ ~SaveWaits
  BY <1>0, <1>1, <1>2, NoSaveWaits DEF PlaceInv, Reconciling, Rendering, ProviderKinds
<1>4. Reconcile("again")
  BY DEF Check
<1>5. /\ run' \in RunType /\ run'.at = "write" /\ run'.round = "again" /\ RunSame
      /\ UNCHANGED <<queue, last>>
  BY <1>0, <1>4, RunReconciles DEF JobTypes
<1>6. QueueInv' /\ Job' = Job /\ (SaveWaits' <=> SaveWaits) /\ (SaveAsked' <=> SaveAsked)
  BY <1>0, <1>5, QueueStays
<1>7. spent' \in SpentType /\ SpentSame
  BY <1>0, <1>1, SpentOrNot DEF JobTypes
<1>8. /\ Rendered'.models = Rendered.models /\ Rendered.models.chat = chat
      /\ Job.kind \in ProviderKinds => ~SaveWaits /\ (Job.kind # "save" => ~SaveAsked)
  BY <1>0, <1>1, <1>2, Renders, SettingsStay, NoSaveWaits
<1>9. provider' = "verified" /\ WasFresh =>
        secret /\ file = Rendered /\ live = file /\ Rendered' = Rendered
  <2>1. SUFFICES ASSUME provider' = "verified", WasFresh
                 PROVE  secret /\ file = Rendered /\ live = file /\ Rendered' = Rendered
    OBVIOUS
  <2>2. provider = "verifying" /\ secret
    BY <1>0, <1>1, <1>2, <1>3, <2>1 DEF RoutingInv, VerifiedInv, Busy, Reconciling
  <2>3. Rendered' = Rendered
    BY <1>1, <2>1, <2>2 DEF Rendered, Key, VoiceOf, OutsideUsed
  <2>4. /\ Rendered \in FileType /\ Rendered.key = Key /\ Key # "none"
        /\ file \in FileType /\ live \in FileType
    BY <1>0, <2>2, Renders DEF RoutingTypes
  <2>5. file.key = Key /\ file.models = Rendered.models
    BY <1>0, <1>1, <1>3 DEF RoutingInv, FileInv, Written
  <2>6. live.key = file.key /\ live.models = file.models
    BY <1>0, <1>1, <1>3, <2>1, <2>4, <2>5 DEF RoutingInv, StepInv, ModelsInStep, KeyInStep,
      Traced, TakesBack
  <2> QED BY <2>2, <2>3, <2>4, <2>5, <2>6, FilesAreEqual
<1>10. PlaceInv'
  BY <1>2, <1>3, <1>5, <1>6, <1>7, <1>8, <1>9 DEF PlaceInv, ChoicePlaces, Reconciling,
    SwitchPlaces
<1>11. RemovalInv'
  BY <1>0, <1>1, <1>3, <1>6, <1>7, <1>8, <1>9 DEF RoutingInv, RemovalInv
<1>12. FileInv'
  BY <1>3, <1>5, <1>6, <1>7, <1>8, <1>9 DEF FileInv, Written, Rendering
<1>13. StepInv'
  BY <1>3, <1>5, <1>6, <1>7, <1>8, <1>9 DEF StepInv, TakesBack, Traced
<1>14. VerifiedInv'
  BY <1>1, <1>5, <1>7, <1>8, <1>9 DEF VerifiedInv, WasFresh, RunSame
<1>15. HonestInv'
  BY <1>0, <1>1, <1>3, <1>5, <1>6, <1>7, <1>8, <1>9 DEF RoutingInv, HonestInv, WasHonest, Busy,
    RunSame, Honest
<1>16. EndInv'
  BY <1>5, <1>7, <1>8, <1>9 DEF EndInv, SuccessIsServed, NeverClaimsMorePrivacy, At
<1>17. RoutingTypes' /\ JobTypes' /\ QueueInv'
  BY <1>0, <1>1, <1>5, <1>6, <1>7, <1>8, <1>9 DEF RoutingTypes, JobTypes, ProviderStates
<1>18. Quiet /\ UNCHANGED <<agent, page>>
  BY <1>1, <1>5, <1>7, <1>8, <1>9 DEF Quiet, apps, RunSame, SwitchPlaces
<1> QED BY <1>10, <1>11, <1>12, <1>13, <1>14, <1>15, <1>16, <1>17, <1>18, RoutingStepKeeps DEF
    RoutingInv

\* The records are rendered into the files.
FilesWritten ==
  /\ At("write") /\ file' = Rendered /\ Succeeds
  /\ Wrote({part \in {"key", "models"} : file[part] # Rendered[part]})
  /\ UNCHANGED <<records, queue, last, live, shown, engine, up>>

LEMMA FilesWrittenKeeps ==
  ASSUME IInv, UNCHANGED <<apps, agent, page>>,
         FilesWritten
  PROVE  IInv'
<1>0. TypeInv /\ QueueInv /\ PlaceInv /\ RoutingInv /\ RoutingTypes /\ JobTypes
  BY Types DEF IInv
<1>1. /\ run.at = "write"
      /\ UNCHANGED <<chat, voice, provider, secret, live, shown, engine, up, queue, last, spent>>
      /\ file' = Rendered
  BY DEF FilesWritten, At, records, Succeeds
<1>2. queue # <<>> /\ Job.kind \in Kinds /\ Job.want \in WantsOf(Job.kind)
  BY <1>0, <1>1, JobIs DEF PlaceInv, Busy
<1>3. Rendered' = Rendered /\ Key' = Key
  BY <1>1, RecordsStay DEF records
<1>4. \E W \in SUBSET {"key", "models"} :
        /\ Wrote(W) /\ ("key" \in W <=> file.key # Rendered.key)
        /\ ("models" \in W <=> file.models # Rendered.models)
  <2>1. Wrote({part \in {"key", "models"} : file[part] # Rendered[part]})
    BY DEF FilesWritten
  <2>2. file["key"] = file.key /\ file["models"] = file.models
        /\ Rendered["key"] = Rendered.key /\ Rendered["models"] = Rendered.models
    OBVIOUS
  <2> QED BY <2>1, <2>2
<1>5. /\ run' \in RunType /\ run'.at = "gateway" /\ run'.round = run.round
      /\ run'.before = run.before /\ run'.stopped = run.stopped
      /\ (run'.fresh <=> run.fresh) /\ (run'.honest <=> run.honest)
      /\ ("key" \in run'.wrote <=> file.key # Rendered.key)
      /\ ("models" \in run'.wrote <=> file.models # Rendered.models)
  BY <1>0, <1>4, RunWrites DEF JobTypes
<1>6. run'.wrote \subseteq {"key", "models"}
  BY <1>5 DEF RunType
<1>7. QueueInv' /\ Job' = Job /\ (SaveWaits' <=> SaveWaits) /\ (SaveAsked' <=> SaveAsked)
  BY <1>0, <1>1, QueueStays
<1>8. spent' \in SpentType /\ SpentSame
  BY <1>0, <1>1, SpentOrNot DEF JobTypes
<1>9. /\ Rendered \in FileType /\ Rendered.key = Key /\ Rendered.models.chat = chat
      /\ (Key = "none" <=> ~secret)
  BY <1>0, Renders
<1>10. /\ WasFresh /\ run.round = "first" => ModelsInStep /\ KeyInStep
       /\ Traced => ModelsInStep \/ file.models # Rendered.models
  BY <1>0, <1>1, <1>2, <1>9 DEF RoutingInv, StepInv, Traced, HonestInv, FileInv, PlaceInv,
    Setting, Busy, Reconciling, WasFresh, WasHonest, RunType, JobTypes, Honest, TakesBack
<1>11. PlaceInv'
  BY <1>0, <1>1, <1>5, <1>7, <1>8, <1>9, <1>10 DEF PlaceInv, Busy, Setting, ChoicePlaces,
    Reconciling, Rendering, SwitchPlaces
<1>12. RemovalInv'
  BY <1>0, <1>1, <1>7, <1>8, <1>9, <1>10 DEF RoutingInv, RemovalInv, Reconciling
<1>13. FileInv'
  BY <1>1, <1>3, <1>5, <1>7, <1>8, <1>9, <1>10 DEF FileInv
<1>14. StepInv'
  BY <1>1, <1>5, <1>7, <1>8, <1>9, <1>10 DEF StepInv, WasFresh, WasHonest, ModelsInStep,
    KeyInStep, Traced, TakesBack
<1>15. VerifiedInv'
  BY <1>0, <1>1, <1>3, <1>5, <1>6, <1>7, <1>8, <1>9, <1>10 DEF RoutingInv, VerifiedInv, Busy,
    WasFresh, Reconciling
<1>16. HonestInv'
  BY <1>0, <1>1, <1>3, <1>5, <1>7, <1>8, <1>9, <1>10 DEF RoutingInv, HonestInv, WasFresh,
    WasHonest, ModelsInStep, Busy, Honest
<1>17. EndInv'
  BY <1>5, <1>7, <1>8, <1>9, <1>10 DEF EndInv, SuccessIsServed, NeverClaimsMorePrivacy, At
<1>18. RoutingTypes' /\ JobTypes' /\ QueueInv'
  BY <1>0, <1>1, <1>5, <1>7, <1>8, <1>9, <1>10 DEF RoutingTypes, JobTypes
<1>19. Quiet /\ UNCHANGED <<agent, page>>
  BY <1>1, <1>5, <1>7, <1>8, <1>9, <1>10 DEF Quiet, apps, SwitchPlaces
<1> QED BY <1>11, <1>12, <1>13, <1>14, <1>15, <1>16, <1>17, <1>18, <1>19, RoutingStepKeeps DEF
    RoutingInv

\* The gateway is up.
LEMMA GatewayUpKeeps ==
  ASSUME IInv, UNCHANGED <<apps, agent, page>>,
         UpGateway, live' = Started("key"), UNCHANGED records, Succeeds, Go("models")
  PROVE  IInv'
<1>0. TypeInv /\ QueueInv /\ PlaceInv /\ RoutingInv /\ RoutingTypes /\ JobTypes
  BY Types DEF IInv
<1>1. /\ run.at = "gateway"
      /\ UNCHANGED <<chat, voice, provider, secret, file, shown, engine, up>>
  BY DEF UpGateway, At, records
<1>2. queue # <<>> /\ Job.kind \in Kinds /\ Job.want \in WantsOf(Job.kind)
  BY <1>0, <1>1, JobIs DEF PlaceInv, Busy
<1>3. Rendered' = Rendered /\ Key' = Key
  BY <1>1, RecordsStay DEF records
<1>4. /\ run' \in RunType /\ run'.at = "models" /\ run'.round = run.round /\ RunSame
      /\ UNCHANGED <<queue, last>>
  BY <1>0, RunGoes DEF Go, JobTypes, Places, RoutingPlaces
<1>5. QueueInv' /\ Job' = Job /\ (SaveWaits' <=> SaveWaits) /\ (SaveAsked' <=> SaveAsked)
  BY <1>0, <1>4, QueueStays
<1>6. spent' \in SpentType /\ SpentSame
  BY <1>0, SpentOrNot DEF JobTypes
<1>7. /\ live'.models = live.models
      /\ live'.key = IF "key" \in run.wrote THEN Imported ELSE live.key
  BY <1>0, StartsKey
<1>8. /\ live' \in FileType /\ LiveFollows
      /\ Rendered.models.chat = chat /\ Rendered.key = Key
  BY <1>0, LiveMayFollow, Renders DEF LiveFollows
<1>9. PlaceInv'
  BY <1>0, <1>1, <1>4, <1>5, <1>7, <1>8 DEF PlaceInv, Busy, Setting, ChoicePlaces, Reconciling,
    Rendering, RunSame, SwitchPlaces
<1>10. RemovalInv'
  BY <1>0, <1>1, <1>5, <1>7, <1>8 DEF RoutingInv, RemovalInv, Reconciling, Rendering, Imported
<1>11. FileInv'
  BY <1>0, <1>1, <1>3, <1>4, <1>5, <1>7, <1>8 DEF RoutingInv, FileInv, Written, Rendering
<1>12. StepInv'
  BY <1>0, <1>1, <1>4, <1>5, <1>7, <1>8 DEF RoutingInv, StepInv, WasFresh, WasHonest,
    ModelsInStep, KeyInStep, Traced, RunSame, Imported, TakesBack
<1>13. VerifiedInv'
  BY <1>0, <1>1, <1>3, <1>4, <1>5, <1>7, <1>8 DEF RoutingInv, VerifiedInv, Busy, WasFresh,
    Reconciling, Rendering, LiveFollows, RunSame
<1>14. HonestInv'
  BY <1>0, <1>1, <1>3, <1>4, <1>5, <1>7, <1>8 DEF RoutingInv, HonestInv, WasFresh, WasHonest,
    ModelsInStep, Busy, RunSame, Honest
<1>15. EndInv'
  BY <1>4, <1>7, <1>8 DEF EndInv, SuccessIsServed, NeverClaimsMorePrivacy, At
<1>16. RoutingTypes' /\ JobTypes' /\ QueueInv'
  BY <1>0, <1>1, <1>4, <1>5, <1>6, <1>7, <1>8 DEF RoutingTypes, JobTypes
<1>17. Quiet /\ UNCHANGED <<agent, page>>
  BY <1>1, <1>4, <1>6, <1>7, <1>8 DEF Quiet, apps, RunSame, SwitchPlaces
<1> QED BY <1>9, <1>10, <1>11, <1>12, <1>13, <1>14, <1>15, <1>16, <1>17, RoutingStepKeeps DEF
    RoutingInv

\* The model proxy is up.
LEMMA ModelsUpKeeps ==
  ASSUME IInv, UNCHANGED <<apps, agent, page>>,
         UpModels, live' = Started("models"), UNCHANGED records, Succeeds, Go("forget")
  PROVE  IInv'
<1>0. TypeInv /\ QueueInv /\ PlaceInv /\ RoutingInv /\ RoutingTypes /\ JobTypes
  BY Types DEF IInv
<1>1. /\ run.at = "models"
      /\ UNCHANGED <<chat, voice, provider, secret, file, shown, engine, up>>
  BY DEF UpModels, At, records
<1>2. queue # <<>> /\ Job.kind \in Kinds /\ Job.want \in WantsOf(Job.kind)
  BY <1>0, <1>1, JobIs DEF PlaceInv, Busy
<1>3. Rendered' = Rendered /\ Key' = Key
  BY <1>1, RecordsStay DEF records
<1>4. /\ run' \in RunType /\ run'.at = "forget" /\ run'.round = run.round /\ RunSame
      /\ UNCHANGED <<queue, last>>
  BY <1>0, RunGoes DEF Go, JobTypes, Places, RoutingPlaces
<1>5. QueueInv' /\ Job' = Job /\ (SaveWaits' <=> SaveWaits) /\ (SaveAsked' <=> SaveAsked)
  BY <1>0, <1>4, QueueStays
<1>6. spent' \in SpentType /\ SpentSame
  BY <1>0, SpentOrNot DEF JobTypes
<1>7. /\ live'.key = live.key
      /\ live'.models = IF "models" \in run.wrote THEN file.models ELSE live.models
  BY <1>0, StartsModels
<1>8. /\ live' \in FileType /\ LiveFollows
      /\ Rendered.models.chat = chat /\ Rendered.key = Key
  BY <1>0, LiveMayFollow, Renders DEF LiveFollows
<1>9. PlaceInv'
  BY <1>0, <1>1, <1>4, <1>5, <1>7, <1>8 DEF PlaceInv, Busy, Setting, ChoicePlaces, Reconciling,
    Rendering, RunSame, SwitchPlaces
<1>10. RemovalInv'
  BY <1>0, <1>1, <1>5, <1>7, <1>8 DEF RoutingInv, RemovalInv, Reconciling, Rendering
<1>11. FileInv'
  BY <1>0, <1>1, <1>3, <1>4, <1>5, <1>7, <1>8 DEF RoutingInv, FileInv, Written, Rendering
<1>12. StepInv'
  BY <1>0, <1>1, <1>4, <1>5, <1>7, <1>8 DEF RoutingInv, StepInv, WasFresh, WasHonest,
    ModelsInStep, KeyInStep, Traced, RunSame, TakesBack
<1>13. VerifiedInv'
  BY <1>0, <1>1, <1>3, <1>4, <1>5, <1>7, <1>8 DEF RoutingInv, VerifiedInv, Busy, WasFresh,
    Reconciling, Rendering, LiveFollows, RunSame
<1>14. HonestInv'
  BY <1>0, <1>1, <1>3, <1>4, <1>5, <1>7, <1>8 DEF RoutingInv, HonestInv, WasFresh, WasHonest,
    ModelsInStep, Busy, PlaceInv, Setting, Reconciling, Rendering, FileInv, RunSame, Written,
    Honest
<1>15. EndInv'
  BY <1>4, <1>7, <1>8 DEF EndInv, SuccessIsServed, NeverClaimsMorePrivacy, At
<1>16. RoutingTypes' /\ JobTypes' /\ QueueInv'
  BY <1>0, <1>1, <1>4, <1>5, <1>6, <1>7, <1>8 DEF RoutingTypes, JobTypes
<1>17. Quiet /\ UNCHANGED <<agent, page>>
  BY <1>1, <1>4, <1>6, <1>7, <1>8 DEF Quiet, apps, RunSame, SwitchPlaces
<1> QED BY <1>9, <1>10, <1>11, <1>12, <1>13, <1>14, <1>15, <1>16, <1>17, RoutingStepKeeps DEF
    RoutingInv

\* A reconciliation that fails: what runs follows the files in part, or the files
\* follow the records in part.
Leaves ==
  \/ /\ run.at \in Rendering /\ LiveFollows /\ UNCHANGED file
  \/ /\ run.at = "write" /\ UNCHANGED live
     /\ file' \in {file, [file EXCEPT !.key = Rendered.key], Rendered}

LeftBehind ==
  /\ live' \in FileType /\ file' \in FileType
  /\ live'.models \in {live.models, Rendered.models} /\ live'.key \in {live.key, file.key}
  /\ file'.models \in {file.models, Rendered.models} /\ file'.key \in {file.key, Key}
  /\ run.at # "write" => file'.models = Rendered.models
  /\ run.at = "write" => live' = live
  /\ run.wrote = {} => live' = live

LEMMA LeavesBehind ==
  ASSUME RoutingTypes, RoutingInv, Leaves
  PROVE  run.at \in Reconciling /\ LeftBehind
<1>1. Rendered \in FileType /\ Rendered.key = Key
  BY Renders
<1>2. CASE run.at \in Rendering /\ LiveFollows /\ UNCHANGED file
  <2>1. file.models = Rendered.models
    BY <1>2 DEF RoutingInv, FileInv, Written
  <2>2. run.at \in Reconciling /\ run.at # "write"
    BY <1>2 DEF Reconciling, Rendering
  <2> QED BY <1>2, <2>1, <2>2 DEF LiveFollows, LeftBehind, RoutingTypes
<1>3. CASE /\ run.at = "write" /\ UNCHANGED live
           /\ file' \in {file, [file EXCEPT !.key = Rendered.key], Rendered}
  <2>1. /\ file' \in FileType /\ file'.models \in {file.models, Rendered.models}
        /\ file'.key \in {file.key, Rendered.key}
    BY <1>1, <1>3 DEF RoutingTypes, FileType
  <2> QED BY <1>1, <1>3, <2>1 DEF LeftBehind, RoutingTypes, Reconciling
<1> QED BY <1>2, <1>3 DEF Leaves

\* A start fails: the choice is undone.
LEMMA ChoiceUndoesKeeps ==
  ASSUME IInv, UNCHANGED <<apps, agent, page>>,
         Leaves, NotReconciled, UNCHANGED <<shown, engine, up>>, Fails,
         Job.kind \in {"chat", "voice"}, run.round = "first"
  PROVE  IInv'
<1>0. TypeInv /\ QueueInv /\ PlaceInv /\ RoutingInv /\ RoutingTypes /\ JobTypes
  BY Types DEF IInv
<1>1. /\ run.at \in Reconciling /\ LeftBehind
      /\ UNCHANGED <<chat, voice, provider, secret, shown, engine, up>>
      /\ Go("undo")
  BY <1>0, LeavesBehind DEF NotReconciled, UndoFails, records
<1>2. queue # <<>> /\ Job.kind \in Kinds /\ Job.want \in WantsOf(Job.kind)
  BY <1>0, <1>1, JobIs DEF PlaceInv, Busy, Reconciling, Rendering
<1>3. Rendered' = Rendered /\ Key' = Key
  BY <1>1, RecordsStay DEF records
<1>4. /\ run' \in RunType /\ run'.at = "undo" /\ run'.round = run.round /\ RunSame
      /\ UNCHANGED <<queue, last>>
  BY <1>0, <1>1, RunGoes DEF Go, JobTypes, Places, RoutingPlaces
<1>5. QueueInv' /\ Job' = Job /\ (SaveWaits' <=> SaveWaits) /\ (SaveAsked' <=> SaveAsked)
  BY <1>0, <1>4, QueueStays
<1>6. spent' \in SpentType /\ SpentSame
  BY <1>0, SpentOrNot DEF JobTypes
<1>7. /\ Rendered'.models = Rendered.models /\ Rendered.models.chat = chat
      /\ Rendered.key = Key /\ (Key = "none" <=> ~secret) /\ (SaveWaits => SaveAsked)
  BY <1>0, <1>1, Renders, SettingsStay DEF SaveWaits, SaveAsked
<1>8. PlaceInv'
  BY <1>0, <1>1, <1>4, <1>5, <1>7 DEF PlaceInv, Busy, Setting, Reconciling, Rendering, RunSame,
    SwitchPlaces
<1>9. RemovalInv'
  BY <1>0, <1>1, <1>5, <1>7 DEF RoutingInv, RemovalInv, LeftBehind
<1>10. FileInv'
  BY <1>4 DEF FileInv, Written, Rendering
<1>11. StepInv'
  BY <1>0, <1>1, <1>4, <1>5, <1>7 DEF RoutingInv, StepInv, WasFresh, ModelsInStep, TakesBack,
    PlaceInv, Setting, Reconciling, LeftBehind, RunSame
<1>12. VerifiedInv'
  BY <1>5, <1>7 DEF VerifiedInv
<1>13. HonestInv'
  BY <1>0, <1>1, <1>4, <1>5, <1>7 DEF RoutingInv, HonestInv, WasHonest, Busy, PlaceInv, Setting,
    Reconciling, Rendering, LeftBehind, RunSame, Honest
<1>14. EndInv'
  BY <1>4, <1>7 DEF EndInv, SuccessIsServed, NeverClaimsMorePrivacy, At
<1>15. RoutingTypes' /\ JobTypes' /\ QueueInv'
  BY <1>0, <1>1, <1>4, <1>5, <1>6, <1>7 DEF RoutingTypes, JobTypes, LeftBehind
<1>16. Quiet /\ UNCHANGED <<agent, page>>
  BY <1>4, <1>6, <1>7 DEF Quiet, apps, RunSame, SwitchPlaces
<1> QED BY <1>8, <1>9, <1>10, <1>11, <1>12, <1>13, <1>14, <1>15, <1>16, RoutingStepKeeps DEF
    RoutingInv

\* It fails again, and the rollback is over.
LEMMA UndoFailsKeeps ==
  ASSUME IInv, UNCHANGED <<apps, agent, page>>,
         Leaves, NotReconciled, UNCHANGED <<shown, engine, up>>, Fails,
         Job.kind \in {"chat", "voice"}, run.round = "again"
  PROVE  IInv'
<1>0. TypeInv /\ QueueInv /\ PlaceInv /\ RoutingInv /\ RoutingTypes /\ JobTypes
  BY Types DEF IInv
<1>1. /\ run.at \in Reconciling /\ LeftBehind
      /\ UNCHANGED <<voice, provider, secret, shown, engine, up>>
      /\ chat' = (IF Job.kind = "chat" THEN NeverMorePrivate ELSE chat) /\ End("failed")
  BY <1>0, LeavesBehind DEF NotReconciled, UndoFails, records
<1>2. queue # <<>> /\ Job.kind \in Kinds /\ Job.want \in WantsOf(Job.kind)
  BY <1>0, <1>1, JobIs DEF PlaceInv, Busy, Reconciling, Rendering
<1>3. /\ QueueInv' /\ run' \in RunType /\ run'.at = "idle" /\ run'.round = "first"
      /\ run'.stopped = {} /\ last' \in LastType /\ LastSays("failed")
      /\ (SaveWaits => SaveAsked') /\ (SaveAsked' => SaveAsked)
  BY <1>0, <1>1, <1>2, Ends, IdleIs DEF JobTypes
<1>4. spent' \in SpentType /\ SpentSame
  BY <1>0, SpentOrNot DEF JobTypes
<1>5. run.before \in Sources \/ Job.kind # "chat"
  BY <1>0, <1>1 DEF PlaceInv, Busy, Reconciling, Rendering
<1>6. Job.kind = "chat" =>
        /\ chat' \in Sources
        /\ chat' = "local_only" => run.before = "local_only" /\ Job.want = "local_only"
  BY <1>1, <1>5 DEF NeverMorePrivate, Outside, Sources
<1>7. Rendered.models.chat = chat /\ (Key = "none" <=> ~secret)
  BY <1>0, Renders
<1>8. PlaceInv'
  BY <1>3, <1>7 DEF PlaceInv, Busy, ChoicePlaces, Reconciling, Rendering, SwitchPlaces
<1>9. RemovalInv'
  BY <1>0, <1>1, <1>3, <1>7 DEF RoutingInv, RemovalInv, Reconciling, Rendering, LeftBehind
<1>10. FileInv'
  BY <1>3, <1>7 DEF FileInv, Written, Rendering
<1>11. StepInv'
  BY <1>3, <1>7 DEF StepInv, TakesBack
<1>12. VerifiedInv'
  BY <1>3, <1>7 DEF VerifiedInv, Reconciling, Rendering
<1>13. HonestInv'
  BY <1>3, <1>7 DEF HonestInv, Busy, Honest
<1>14. EndInv'
  BY <1>0, <1>1, <1>3, <1>6, <1>7 DEF RoutingInv, EndInv, SuccessIsServed, NeverClaimsMorePrivacy,
    LastSays, Busy, PlaceInv, Setting, Reconciling, Rendering, WasHonest, HonestInv, Honest,
    LeftBehind
<1>15. RoutingTypes' /\ JobTypes' /\ QueueInv'
  BY <1>0, <1>1, <1>3, <1>4, <1>6, <1>7 DEF RoutingTypes, JobTypes, LeftBehind
<1>16. Quiet /\ UNCHANGED <<agent, page>>
  BY <1>3, <1>4, <1>7 DEF Quiet, apps, SwitchPlaces
<1> QED BY <1>8, <1>9, <1>10, <1>11, <1>12, <1>13, <1>14, <1>15, <1>16, RoutingStepKeeps DEF
    RoutingInv

\* A start fails before the check: the key is taken out.
LEMMA CheckDegradesKeeps ==
  ASSUME IInv, UNCHANGED <<apps, agent, page>>,
         Leaves, NotReconciled, UNCHANGED <<shown, engine, up>>, Fails,
         Job.kind \in {"save", "verify"}, run.round = "first"
  PROVE  IInv'
<1>0. TypeInv /\ QueueInv /\ PlaceInv /\ RoutingInv /\ RoutingTypes /\ JobTypes
  BY Types DEF IInv
<1>1. /\ run.at \in Reconciling /\ LeftBehind
      /\ UNCHANGED <<chat, voice, secret, shown, engine, up>>
      /\ provider' = "degraded" /\ Reconcile("again")
  BY <1>0, LeavesBehind DEF NotReconciled, UndoFails, records
<1>2. queue # <<>> /\ Job.kind \in Kinds /\ Job.want \in WantsOf(Job.kind)
  BY <1>0, <1>1, JobIs DEF PlaceInv, Busy, Reconciling, Rendering
<1>3. /\ run' \in RunType /\ run'.at = "write" /\ run'.round = "again" /\ RunSame
      /\ UNCHANGED <<queue, last>>
  BY <1>0, <1>1, RunReconciles DEF JobTypes
<1>4. QueueInv' /\ Job' = Job /\ (SaveWaits' <=> SaveWaits) /\ (SaveAsked' <=> SaveAsked)
  BY <1>0, <1>3, QueueStays
<1>5. spent' \in SpentType /\ SpentSame
  BY <1>0, SpentOrNot DEF JobTypes
<1>6. /\ Rendered'.models = Rendered.models /\ Rendered.models.chat = chat
      /\ Rendered.key = Key /\ (Key = "none" <=> ~secret) /\ (SaveWaits => SaveAsked)
  BY <1>0, <1>1, Renders, SettingsStay DEF SaveWaits, SaveAsked
<1>7. PlaceInv'
  BY <1>2, <1>3, <1>4 DEF PlaceInv, ChoicePlaces, Reconciling, SwitchPlaces
<1>8. RemovalInv'
  BY <1>0, <1>1, <1>4 DEF RoutingInv, RemovalInv, LeftBehind
<1>9. FileInv'
  BY <1>3, <1>4 DEF FileInv, Written, Rendering
<1>10. StepInv'
  BY <1>3, <1>4 DEF StepInv, TakesBack
<1>11. VerifiedInv'
  BY <1>1, <1>3 DEF VerifiedInv
<1>12. HonestInv'
  BY <1>0, <1>1, <1>3, <1>4, <1>6 DEF RoutingInv, HonestInv, WasHonest, Busy, Reconciling, Rendering,
    LeftBehind, RunSame, Honest
<1>13. EndInv'
  BY <1>3 DEF EndInv, SuccessIsServed, NeverClaimsMorePrivacy, At
<1>14. RoutingTypes' /\ JobTypes' /\ QueueInv'
  BY <1>0, <1>1, <1>3, <1>4, <1>5 DEF RoutingTypes, JobTypes, ProviderStates, LeftBehind
<1>15. Quiet /\ UNCHANGED <<agent, page>>
  BY <1>3, <1>5 DEF Quiet, apps, RunSame, SwitchPlaces
<1> QED BY <1>7, <1>8, <1>9, <1>10, <1>11, <1>12, <1>13, <1>14, <1>15, RoutingStepKeeps DEF
    RoutingInv

\* A start fails after the check.
LEMMA CheckEndsKeeps ==
  ASSUME IInv, UNCHANGED <<apps, agent, page>>,
         Leaves, NotReconciled, UNCHANGED <<shown, engine, up>>, Fails,
         Job.kind \in {"save", "verify"}, run.round = "again"
  PROVE  IInv'
<1>0. TypeInv /\ QueueInv /\ PlaceInv /\ RoutingInv /\ RoutingTypes /\ JobTypes
  BY Types DEF IInv
<1>1. /\ run.at \in Reconciling /\ LeftBehind
      /\ UNCHANGED <<chat, voice, provider, secret, shown, engine, up>>
      /\ \/ End("succeeded") /\ provider = "verified"
         \/ End("failed") /\ provider # "verified"
  BY <1>0, LeavesBehind DEF NotReconciled, UndoFails, records
<1>2. queue # <<>> /\ Job.kind \in Kinds /\ Job.want \in WantsOf(Job.kind)
  BY <1>0, <1>1, JobIs DEF PlaceInv, Busy, Reconciling, Rendering
<1>3. /\ QueueInv' /\ run' \in RunType /\ run'.at = "idle" /\ run'.round = "first"
      /\ run'.stopped = {} /\ last' \in LastType
      /\ LastSays(IF provider = "verified" THEN "succeeded" ELSE "failed") /\ (SaveAsked' => SaveAsked)
  BY <1>0, <1>1, <1>2, Ends, IdleIs DEF JobTypes
<1>4. spent' \in SpentType /\ SpentSame
  BY <1>0, SpentOrNot DEF JobTypes
<1>5. Rendered' = Rendered /\ Key' = Key
  BY <1>1, RecordsStay DEF records
<1>6. /\ Rendered'.models = Rendered.models /\ Rendered.models.chat = chat
      /\ Rendered.key = Key /\ (Key = "none" <=> ~secret) /\ (SaveWaits => SaveAsked)
  BY <1>0, <1>1, Renders, SettingsStay DEF SaveWaits, SaveAsked
<1>7. PlaceInv'
  BY <1>3 DEF PlaceInv, Busy, ChoicePlaces, Reconciling, Rendering, SwitchPlaces
<1>8. RemovalInv'
  BY <1>0, <1>1, <1>3, <1>6 DEF RoutingInv, RemovalInv, Reconciling, Rendering, LeftBehind
<1>9. FileInv'
  BY <1>3 DEF FileInv, Written, Rendering
<1>10. StepInv'
  BY <1>3 DEF StepInv, TakesBack
<1>11. VerifiedInv'
  BY <1>3 DEF VerifiedInv, Reconciling, Rendering
<1>12. HonestInv'
  BY <1>3 DEF HonestInv, Busy, Honest
<1>13. EndInv'
  BY <1>0, <1>1, <1>3, <1>5, <1>6 DEF RoutingInv, EndInv, SuccessIsServed, NeverClaimsMorePrivacy,
    LastSays, PlaceInv, Busy, Reconciling, Rendering, WasFresh, WasHonest, VerifiedInv, HonestInv,
    Honest, LeftBehind
<1>14. RoutingTypes' /\ JobTypes' /\ QueueInv'
  BY <1>0, <1>1, <1>3, <1>4 DEF RoutingTypes, JobTypes, LeftBehind
<1>15. Quiet /\ UNCHANGED <<agent, page>>
  BY <1>3, <1>4 DEF Quiet, apps, SwitchPlaces
<1> QED BY <1>7, <1>8, <1>9, <1>10, <1>11, <1>12, <1>13, <1>14, <1>15, RoutingStepKeeps DEF
    RoutingInv

\* A start fails, or a file cannot be written, and the job of a provider with it.
LEMMA ProviderFailsKeeps ==
  ASSUME IInv, UNCHANGED <<apps, agent, page>>,
         Leaves, UNCHANGED <<records, shown, engine, up>>, Fails,
         Job.kind \in ProviderKinds, End("failed")
  PROVE  IInv'
<1>0. TypeInv /\ QueueInv /\ PlaceInv /\ RoutingInv /\ RoutingTypes /\ JobTypes
  BY Types DEF IInv
<1>1. /\ run.at \in Reconciling /\ LeftBehind
      /\ UNCHANGED <<chat, voice, provider, secret, shown, engine, up>>
      /\ End("failed")
  BY <1>0, LeavesBehind DEF records
<1>2. queue # <<>> /\ Job.kind \in Kinds /\ Job.want \in WantsOf(Job.kind)
  BY <1>0, <1>1, JobIs DEF PlaceInv, Busy, Reconciling, Rendering
<1>3. /\ QueueInv' /\ run' \in RunType /\ run'.at = "idle" /\ run'.round = "first"
      /\ run'.stopped = {} /\ last' \in LastType /\ LastSays("failed")
      /\ (SaveWaits => SaveAsked') /\ (SaveAsked' => SaveAsked)
  BY <1>0, <1>1, <1>2, Ends, IdleIs DEF JobTypes
<1>4. spent' \in SpentType /\ SpentSame
  BY <1>0, SpentOrNot DEF JobTypes
<1>5. Rendered' = Rendered /\ Key' = Key
  BY <1>1, RecordsStay DEF records
<1>6. /\ Rendered'.models = Rendered.models /\ Rendered.models.chat = chat
      /\ Rendered.key = Key /\ (Key = "none" <=> ~secret) /\ (SaveWaits => SaveAsked)
  BY <1>0, <1>1, Renders, SettingsStay DEF SaveWaits, SaveAsked
<1>7. PlaceInv'
  BY <1>3 DEF PlaceInv, Busy, ChoicePlaces, Reconciling, Rendering, SwitchPlaces
<1>8. RemovalInv'
  BY <1>0, <1>1, <1>3, <1>6 DEF RoutingInv, RemovalInv, Reconciling, Rendering, LeftBehind
<1>9. FileInv'
  BY <1>3 DEF FileInv, Written, Rendering
<1>10. StepInv'
  BY <1>3 DEF StepInv, TakesBack
<1>11. VerifiedInv'
  BY <1>3 DEF VerifiedInv, Reconciling, Rendering
<1>12. HonestInv'
  BY <1>3 DEF HonestInv, Busy, Honest
<1>13. EndInv'
  BY <1>0, <1>1, <1>3, <1>6 DEF RoutingInv, EndInv, SuccessIsServed, NeverClaimsMorePrivacy,
    LastSays, Busy, Reconciling, Rendering, WasHonest, HonestInv, Honest, LeftBehind, ProviderKinds
<1>14. RoutingTypes' /\ JobTypes' /\ QueueInv'
  BY <1>0, <1>1, <1>3, <1>4 DEF RoutingTypes, JobTypes, LeftBehind
<1>15. Quiet /\ UNCHANGED <<agent, page>>
  BY <1>3, <1>4 DEF Quiet, apps, SwitchPlaces
<1> QED BY <1>7, <1>8, <1>9, <1>10, <1>11, <1>12, <1>13, <1>14, <1>15, RoutingStepKeeps DEF
    RoutingInv

\* The rollback is done.
LEMMA ForgetUndoneKeeps ==
  ASSUME IInv, UNCHANGED <<apps, agent, page>>,
         Forgot, Reconciled, run.at = "forget",
         UNCHANGED <<file, shown, engine, up>>, Succeeds,
         Job.kind \in {"chat", "voice"}, run.round = "again"
  PROVE  IInv'
<1>0. TypeInv /\ QueueInv /\ PlaceInv /\ RoutingInv /\ RoutingTypes /\ JobTypes
  BY Types DEF IInv
<1>1. /\ run.at = "forget"
      /\ UNCHANGED <<chat, voice, provider, secret, file, shown, engine, up>>
      /\ End("failed")
  BY DEF Reconciled, records
<1>2. queue # <<>> /\ Job.kind \in Kinds /\ Job.want \in WantsOf(Job.kind)
  BY <1>0, <1>1, JobIs DEF PlaceInv, Busy, Rendering
<1>3. /\ QueueInv' /\ run' \in RunType /\ run'.at = "idle" /\ run'.round = "first"
      /\ run'.stopped = {} /\ last' \in LastType /\ LastSays("failed")
      /\ (SaveWaits => SaveAsked') /\ (SaveAsked' => SaveAsked)
  BY <1>0, <1>1, <1>2, Ends, IdleIs DEF JobTypes
<1>4. spent' \in SpentType /\ SpentSame
  BY <1>0, SpentOrNot DEF JobTypes
<1>5. Rendered' = Rendered /\ Key' = Key
  BY <1>1, RecordsStay DEF records
<1>6. /\ Rendered'.models = Rendered.models /\ Rendered.models.chat = chat
      /\ Rendered.key = Key /\ (Key = "none" <=> ~secret) /\ (SaveWaits => SaveAsked)
  BY <1>0, <1>1, Renders, SettingsStay DEF SaveWaits, SaveAsked
<1>7. /\ live' \in FileType /\ live'.models = live.models
      /\ live'.key = IF secret THEN live.key ELSE "none"
  BY <1>0, Forgets
<1>8. PlaceInv'
  BY <1>3, <1>7 DEF PlaceInv, Busy, ChoicePlaces, Reconciling, Rendering, SwitchPlaces
<1>9. RemovalInv'
  BY <1>0, <1>1, <1>3, <1>7 DEF RoutingInv, RemovalInv, Reconciling, Rendering
<1>10. FileInv'
  BY <1>3, <1>7 DEF FileInv, Written, Rendering
<1>11. StepInv'
  BY <1>3, <1>7 DEF StepInv, TakesBack
<1>12. VerifiedInv'
  BY <1>3, <1>7 DEF VerifiedInv, Reconciling, Rendering
<1>13. HonestInv'
  BY <1>3, <1>7 DEF HonestInv, Busy, Honest
<1>14. EndInv'
  BY <1>0, <1>1, <1>3, <1>6, <1>7 DEF RoutingInv, EndInv, SuccessIsServed, NeverClaimsMorePrivacy,
    LastSays, Busy, PlaceInv, Setting, Reconciling, Rendering, FileInv, Written, StepInv, WasFresh,
    WasHonest, ModelsInStep, Traced, HonestInv, Honest
<1>15. RoutingTypes' /\ JobTypes' /\ QueueInv'
  BY <1>0, <1>1, <1>3, <1>4, <1>7 DEF RoutingTypes, JobTypes
<1>16. Quiet /\ UNCHANGED <<agent, page>>
  BY <1>3, <1>4, <1>7 DEF Quiet, apps, SwitchPlaces
<1> QED BY <1>8, <1>9, <1>10, <1>11, <1>12, <1>13, <1>14, <1>15, <1>16, RoutingStepKeeps DEF
    RoutingInv

\* The chat app may follow at once.
LEMMA ForgetFollowsKeeps ==
  ASSUME IInv, UNCHANGED <<apps, agent, page>>,
         Forgot, Reconciled, run.at = "forget",
         UNCHANGED <<file, shown, engine, up>>, Succeeds,
         Job.kind = "chat", run.round = "first", Job.want = "outside"
  PROVE  IInv'
<1>0. TypeInv /\ QueueInv /\ PlaceInv /\ RoutingInv /\ RoutingTypes /\ JobTypes
  BY Types DEF IInv
<1>1. /\ run.at = "forget"
      /\ UNCHANGED <<chat, voice, provider, secret, file, shown, engine, up>>
      /\ Go("follow")
  BY DEF Reconciled, records
<1>2. queue # <<>> /\ Job.kind \in Kinds /\ Job.want \in WantsOf(Job.kind)
  BY <1>0, <1>1, JobIs DEF PlaceInv, Busy, Rendering
<1>3. Rendered' = Rendered /\ Key' = Key
  BY <1>1, RecordsStay DEF records
<1>4. /\ run' \in RunType /\ run'.at = "follow" /\ run'.round = run.round /\ RunSame
      /\ UNCHANGED <<queue, last>>
  BY <1>0, <1>1, RunGoes DEF Go, JobTypes, Places, RoutingPlaces
<1>5. QueueInv' /\ Job' = Job /\ (SaveWaits' <=> SaveWaits) /\ (SaveAsked' <=> SaveAsked)
  BY <1>0, <1>4, QueueStays
<1>6. spent' \in SpentType /\ SpentSame
  BY <1>0, SpentOrNot DEF JobTypes
<1>7. /\ Rendered'.models = Rendered.models /\ Rendered.models.chat = chat
      /\ Rendered.key = Key /\ (Key = "none" <=> ~secret) /\ (SaveWaits => SaveAsked)
  BY <1>0, <1>1, Renders, SettingsStay DEF SaveWaits, SaveAsked
<1>8. /\ live' \in FileType /\ live'.models = live.models
      /\ live'.key = IF secret THEN live.key ELSE "none"
  BY <1>0, Forgets
<1>9. PlaceInv'
  BY <1>0, <1>1, <1>4, <1>5, <1>7, <1>8 DEF PlaceInv, Busy, Setting, Reconciling, Rendering,
    RunSame, SwitchPlaces
<1>10. RemovalInv'
  BY <1>0, <1>1, <1>5, <1>7, <1>8 DEF RoutingInv, RemovalInv
<1>11. FileInv'
  BY <1>0, <1>3, <1>4, <1>5, <1>7, <1>8 DEF RoutingInv, FileInv, Written, Rendering
<1>12. StepInv'
  BY <1>0, <1>4, <1>5, <1>7, <1>8 DEF RoutingInv, StepInv, WasFresh, ModelsInStep, KeyInStep,
    NoKeyLeft, Traced, Rendering, RemovalInv, FileInv, RunSame, Written, TakesBack
<1>13. VerifiedInv'
  BY <1>5, <1>7, <1>8 DEF VerifiedInv
<1>14. HonestInv'
  BY <1>0, <1>4, <1>5, <1>7, <1>8 DEF RoutingInv, HonestInv, WasFresh, WasHonest, ModelsInStep,
    Busy, RunSame, Honest
<1>15. EndInv'
  BY <1>4, <1>7, <1>8 DEF EndInv, SuccessIsServed, NeverClaimsMorePrivacy, At
<1>16. RoutingTypes' /\ JobTypes' /\ QueueInv'
  BY <1>0, <1>1, <1>4, <1>5, <1>6, <1>7, <1>8 DEF RoutingTypes, JobTypes
<1>17. Quiet /\ UNCHANGED <<agent, page>>
  BY <1>4, <1>6, <1>7, <1>8 DEF Quiet, apps, RunSame, SwitchPlaces
<1> QED BY <1>9, <1>10, <1>11, <1>12, <1>13, <1>14, <1>15, <1>16, <1>17, RoutingStepKeeps DEF
    RoutingInv

\* The route is probed.
LEMMA ForgetProbesKeeps ==
  ASSUME IInv, UNCHANGED <<apps, agent, page>>,
         Forgot, Reconciled, run.at = "forget",
         UNCHANGED <<file, shown, engine, up>>, Succeeds,
         Job.kind \in {"chat", "voice"}, run.round = "first", Go("probe"), UNCHANGED records
  PROVE  IInv'
<1>0. TypeInv /\ QueueInv /\ PlaceInv /\ RoutingInv /\ RoutingTypes /\ JobTypes
  BY Types DEF IInv
<1>1. /\ run.at = "forget"
      /\ UNCHANGED <<chat, voice, provider, secret, file, shown, engine, up>>
      /\ Go("probe")
  BY DEF Reconciled, records
<1>2. queue # <<>> /\ Job.kind \in Kinds /\ Job.want \in WantsOf(Job.kind)
  BY <1>0, <1>1, JobIs DEF PlaceInv, Busy, Rendering
<1>3. Rendered' = Rendered /\ Key' = Key
  BY <1>1, RecordsStay DEF records
<1>4. /\ run' \in RunType /\ run'.at = "probe" /\ run'.round = run.round /\ RunSame
      /\ UNCHANGED <<queue, last>>
  BY <1>0, <1>1, RunGoes DEF Go, JobTypes, Places, RoutingPlaces
<1>5. QueueInv' /\ Job' = Job /\ (SaveWaits' <=> SaveWaits) /\ (SaveAsked' <=> SaveAsked)
  BY <1>0, <1>4, QueueStays
<1>6. spent' \in SpentType /\ SpentSame
  BY <1>0, SpentOrNot DEF JobTypes
<1>7. /\ Rendered'.models = Rendered.models /\ Rendered.models.chat = chat
      /\ Rendered.key = Key /\ (Key = "none" <=> ~secret) /\ (SaveWaits => SaveAsked)
  BY <1>0, <1>1, Renders, SettingsStay DEF SaveWaits, SaveAsked
<1>8. /\ live' \in FileType /\ live'.models = live.models
      /\ live'.key = IF secret THEN live.key ELSE "none"
  BY <1>0, Forgets
<1>9. PlaceInv'
  BY <1>0, <1>1, <1>4, <1>5, <1>7, <1>8 DEF PlaceInv, Busy, Setting, Reconciling, Rendering,
    RunSame, SwitchPlaces
<1>10. RemovalInv'
  BY <1>0, <1>1, <1>5, <1>7, <1>8 DEF RoutingInv, RemovalInv
<1>11. FileInv'
  BY <1>0, <1>3, <1>4, <1>5, <1>7, <1>8 DEF RoutingInv, FileInv, Written, Rendering
<1>12. StepInv'
  BY <1>0, <1>4, <1>5, <1>7, <1>8 DEF RoutingInv, StepInv, WasFresh, ModelsInStep, KeyInStep,
    NoKeyLeft, Traced, Rendering, RemovalInv, FileInv, RunSame, Written, TakesBack
<1>13. VerifiedInv'
  BY <1>5, <1>7, <1>8 DEF VerifiedInv
<1>14. HonestInv'
  BY <1>0, <1>1, <1>4, <1>5, <1>7, <1>8 DEF RoutingInv, HonestInv, WasFresh, WasHonest,
    ModelsInStep, Busy, RunSame, Honest
<1>15. EndInv'
  BY <1>4, <1>7, <1>8 DEF EndInv, SuccessIsServed, NeverClaimsMorePrivacy, At
<1>16. RoutingTypes' /\ JobTypes' /\ QueueInv'
  BY <1>0, <1>1, <1>4, <1>5, <1>6, <1>7, <1>8 DEF RoutingTypes, JobTypes
<1>17. Quiet /\ UNCHANGED <<agent, page>>
  BY <1>4, <1>6, <1>7, <1>8 DEF Quiet, apps, RunSame, SwitchPlaces
<1> QED BY <1>9, <1>10, <1>11, <1>12, <1>13, <1>14, <1>15, <1>16, <1>17, RoutingStepKeeps DEF
    RoutingInv

\* The key is checked.
LEMMA ForgetChecksKeeps ==
  ASSUME IInv, UNCHANGED <<apps, agent, page>>,
         Forgot, Reconciled, run.at = "forget",
         UNCHANGED <<file, shown, engine, up>>, Succeeds,
         Job.kind \in {"save", "verify"}, run.round = "first"
  PROVE  IInv'
<1>0. TypeInv /\ QueueInv /\ PlaceInv /\ RoutingInv /\ RoutingTypes /\ JobTypes
  BY Types DEF IInv
<1>1. /\ run.at = "forget"
      /\ UNCHANGED <<chat, voice, provider, secret, file, shown, engine, up>>
      /\ Go("check")
  BY DEF Reconciled, records
<1>2. queue # <<>> /\ Job.kind \in Kinds /\ Job.want \in WantsOf(Job.kind)
  BY <1>0, <1>1, JobIs DEF PlaceInv, Busy, Rendering
<1>3. Rendered' = Rendered /\ Key' = Key
  BY <1>1, RecordsStay DEF records
<1>4. /\ run' \in RunType /\ run'.at = "check" /\ run'.round = run.round /\ RunSame
      /\ UNCHANGED <<queue, last>>
  BY <1>0, <1>1, RunGoes DEF Go, JobTypes, Places, RoutingPlaces
<1>5. QueueInv' /\ Job' = Job /\ (SaveWaits' <=> SaveWaits) /\ (SaveAsked' <=> SaveAsked)
  BY <1>0, <1>4, QueueStays
<1>6. spent' \in SpentType /\ SpentSame
  BY <1>0, SpentOrNot DEF JobTypes
<1>7. /\ Rendered'.models = Rendered.models /\ Rendered.models.chat = chat
      /\ Rendered.key = Key /\ (Key = "none" <=> ~secret) /\ (SaveWaits => SaveAsked)
  BY <1>0, <1>1, Renders, SettingsStay DEF SaveWaits, SaveAsked
<1>8. /\ live' \in FileType /\ live'.models = live.models
      /\ live'.key = IF secret THEN live.key ELSE "none"
  BY <1>0, Forgets
<1>9. PlaceInv'
  BY <1>2, <1>4, <1>5, <1>7, <1>8 DEF PlaceInv, ChoicePlaces, SwitchPlaces
<1>10. RemovalInv'
  BY <1>0, <1>1, <1>5, <1>7, <1>8 DEF RoutingInv, RemovalInv
<1>11. FileInv'
  BY <1>0, <1>3, <1>4, <1>5, <1>7, <1>8 DEF RoutingInv, FileInv, Written, Rendering
<1>12. StepInv'
  BY <1>0, <1>4, <1>5, <1>7, <1>8 DEF RoutingInv, StepInv, WasFresh, ModelsInStep, KeyInStep,
    NoKeyLeft, Traced, Rendering, RemovalInv, FileInv, RunSame, Written, TakesBack
<1>13. VerifiedInv'
  BY <1>0, <1>1, <1>7, <1>8 DEF RoutingInv, VerifiedInv, Busy, Reconciling, Rendering
<1>14. HonestInv'
  BY <1>0, <1>1, <1>4, <1>5, <1>7, <1>8 DEF RoutingInv, HonestInv, WasHonest, Busy, RunSame,
    Honest
<1>15. EndInv'
  BY <1>4, <1>7, <1>8 DEF EndInv, SuccessIsServed, NeverClaimsMorePrivacy, At
<1>16. RoutingTypes' /\ JobTypes' /\ QueueInv'
  BY <1>0, <1>1, <1>4, <1>5, <1>6, <1>7, <1>8 DEF RoutingTypes, JobTypes
<1>17. Quiet /\ UNCHANGED <<agent, page>>
  BY <1>4, <1>6, <1>7, <1>8 DEF Quiet, apps, RunSame, SwitchPlaces
<1> QED BY <1>9, <1>10, <1>11, <1>12, <1>13, <1>14, <1>15, <1>16, <1>17, RoutingStepKeeps DEF
    RoutingInv

\* The verified connection is rendered.
LEMMA ForgetVerifiedKeeps ==
  ASSUME IInv, UNCHANGED <<apps, agent, page>>,
         Forgot, Reconciled, run.at = "forget",
         UNCHANGED <<file, shown, engine, up>>, Succeeds,
         Job.kind \in {"save", "verify"}, run.round = "again", provider = "verified"
  PROVE  IInv'
<1>0. TypeInv /\ QueueInv /\ PlaceInv /\ RoutingInv /\ RoutingTypes /\ JobTypes
  BY Types DEF IInv
<1>1. /\ run.at = "forget"
      /\ UNCHANGED <<chat, voice, provider, secret, file, shown, engine, up>>
      /\ End("succeeded") /\ provider = "verified"
  BY DEF Reconciled, records
<1>2. queue # <<>> /\ Job.kind \in Kinds /\ Job.want \in WantsOf(Job.kind)
  BY <1>0, <1>1, JobIs DEF PlaceInv, Busy, Rendering
<1>3. /\ QueueInv' /\ run' \in RunType /\ run'.at = "idle" /\ run'.round = "first"
      /\ run'.stopped = {} /\ last' \in LastType /\ LastSays("succeeded")
      /\ (SaveWaits => SaveAsked') /\ (SaveAsked' => SaveAsked)
  BY <1>0, <1>1, <1>2, Ends, IdleIs DEF JobTypes
<1>4. spent' \in SpentType /\ SpentSame
  BY <1>0, SpentOrNot DEF JobTypes
<1>5. Rendered' = Rendered /\ Key' = Key
  BY <1>1, RecordsStay DEF records
<1>6. /\ Rendered'.models = Rendered.models /\ Rendered.models.chat = chat
      /\ Rendered.key = Key /\ (Key = "none" <=> ~secret) /\ (SaveWaits => SaveAsked)
  BY <1>0, <1>1, Renders, SettingsStay DEF SaveWaits, SaveAsked
<1>7. /\ live' \in FileType /\ live'.models = live.models
      /\ live'.key = IF secret THEN live.key ELSE "none"
  BY <1>0, Forgets
<1>8. PlaceInv'
  BY <1>3, <1>7 DEF PlaceInv, Busy, ChoicePlaces, Reconciling, Rendering, SwitchPlaces
<1>9. RemovalInv'
  BY <1>0, <1>1, <1>3, <1>7 DEF RoutingInv, RemovalInv, Reconciling, Rendering
<1>10. FileInv'
  BY <1>3, <1>7 DEF FileInv, Written, Rendering
<1>11. StepInv'
  BY <1>3, <1>7 DEF StepInv, TakesBack
<1>12. VerifiedInv'
  BY <1>3, <1>7 DEF VerifiedInv, Reconciling, Rendering
<1>13. HonestInv'
  BY <1>3, <1>7 DEF HonestInv, Busy, Honest
<1>14. EndInv'
  BY <1>0, <1>1, <1>3, <1>5, <1>6, <1>7 DEF RoutingInv, EndInv, SuccessIsServed,
    NeverClaimsMorePrivacy, LastSays, PlaceInv, Busy, WasFresh, VerifiedInv, Honest
<1>15. RoutingTypes' /\ JobTypes' /\ QueueInv'
  BY <1>0, <1>1, <1>3, <1>4, <1>7 DEF RoutingTypes, JobTypes
<1>16. Quiet /\ UNCHANGED <<agent, page>>
  BY <1>3, <1>4, <1>7 DEF Quiet, apps, SwitchPlaces
<1> QED BY <1>8, <1>9, <1>10, <1>11, <1>12, <1>13, <1>14, <1>15, <1>16, RoutingStepKeeps DEF
    RoutingInv

\* The refused key is taken out.
LEMMA ForgetDegradedKeeps ==
  ASSUME IInv, UNCHANGED <<apps, agent, page>>,
         Forgot, Reconciled, run.at = "forget",
         UNCHANGED <<file, shown, engine, up>>, Succeeds,
         Job.kind \in {"save", "verify"}, run.round = "again", provider # "verified"
  PROVE  IInv'
<1>0. TypeInv /\ QueueInv /\ PlaceInv /\ RoutingInv /\ RoutingTypes /\ JobTypes
  BY Types DEF IInv
<1>1. /\ run.at = "forget"
      /\ UNCHANGED <<chat, voice, provider, secret, file, shown, engine, up>>
      /\ End("failed") /\ provider # "verified"
  BY DEF Reconciled, records
<1>2. queue # <<>> /\ Job.kind \in Kinds /\ Job.want \in WantsOf(Job.kind)
  BY <1>0, <1>1, JobIs DEF PlaceInv, Busy, Rendering
<1>3. /\ QueueInv' /\ run' \in RunType /\ run'.at = "idle" /\ run'.round = "first"
      /\ run'.stopped = {} /\ last' \in LastType /\ LastSays("failed")
      /\ (SaveWaits => SaveAsked') /\ (SaveAsked' => SaveAsked)
  BY <1>0, <1>1, <1>2, Ends, IdleIs DEF JobTypes
<1>4. spent' \in SpentType /\ SpentSame
  BY <1>0, SpentOrNot DEF JobTypes
<1>5. Rendered' = Rendered /\ Key' = Key
  BY <1>1, RecordsStay DEF records
<1>6. /\ Rendered'.models = Rendered.models /\ Rendered.models.chat = chat
      /\ Rendered.key = Key /\ (Key = "none" <=> ~secret) /\ (SaveWaits => SaveAsked)
  BY <1>0, <1>1, Renders, SettingsStay DEF SaveWaits, SaveAsked
<1>7. /\ live' \in FileType /\ live'.models = live.models
      /\ live'.key = IF secret THEN live.key ELSE "none"
  BY <1>0, Forgets
<1>8. PlaceInv'
  BY <1>3, <1>7 DEF PlaceInv, Busy, ChoicePlaces, Reconciling, Rendering, SwitchPlaces
<1>9. RemovalInv'
  BY <1>0, <1>1, <1>3, <1>7 DEF RoutingInv, RemovalInv, Reconciling, Rendering
<1>10. FileInv'
  BY <1>3, <1>7 DEF FileInv, Written, Rendering
<1>11. StepInv'
  BY <1>3, <1>7 DEF StepInv, TakesBack
<1>12. VerifiedInv'
  BY <1>3, <1>7 DEF VerifiedInv, Reconciling, Rendering
<1>13. HonestInv'
  BY <1>3, <1>7 DEF HonestInv, Busy, Honest
<1>14. EndInv'
  BY <1>0, <1>1, <1>3, <1>7 DEF RoutingInv, EndInv, SuccessIsServed, NeverClaimsMorePrivacy,
    LastSays, Busy, WasHonest, HonestInv, Honest
<1>15. RoutingTypes' /\ JobTypes' /\ QueueInv'
  BY <1>0, <1>1, <1>3, <1>4, <1>7 DEF RoutingTypes, JobTypes
<1>16. Quiet /\ UNCHANGED <<agent, page>>
  BY <1>3, <1>4, <1>7 DEF Quiet, apps, SwitchPlaces
<1> QED BY <1>8, <1>9, <1>10, <1>11, <1>12, <1>13, <1>14, <1>15, <1>16, RoutingStepKeeps DEF
    RoutingInv

\* The provider is out of the files.
LEMMA ForgetDisabledKeeps ==
  ASSUME IInv, UNCHANGED <<apps, agent, page>>,
         Forgot, Reconciled, run.at = "forget",
         UNCHANGED <<file, shown, engine, up>>, Succeeds,
         Job.kind = "disable"
  PROVE  IInv'
<1>0. TypeInv /\ QueueInv /\ PlaceInv /\ RoutingInv /\ RoutingTypes /\ JobTypes
  BY Types DEF IInv
<1>1. /\ run.at = "forget"
      /\ UNCHANGED <<chat, voice, provider, secret, file, shown, engine, up>>
      /\ End("succeeded")
  BY DEF Reconciled, records
<1>2. queue # <<>> /\ Job.kind \in Kinds /\ Job.want \in WantsOf(Job.kind)
  BY <1>0, <1>1, JobIs DEF PlaceInv, Busy, Rendering
<1>3. /\ QueueInv' /\ run' \in RunType /\ run'.at = "idle" /\ run'.round = "first"
      /\ run'.stopped = {} /\ last' \in LastType /\ LastSays("succeeded")
      /\ (SaveWaits => SaveAsked') /\ (SaveAsked' => SaveAsked)
  BY <1>0, <1>1, <1>2, Ends, IdleIs DEF JobTypes
<1>4. spent' \in SpentType /\ SpentSame
  BY <1>0, SpentOrNot DEF JobTypes
<1>5. Rendered' = Rendered /\ Key' = Key
  BY <1>1, RecordsStay DEF records
<1>6. /\ Rendered'.models = Rendered.models /\ Rendered.models.chat = chat
      /\ Rendered.key = Key /\ (Key = "none" <=> ~secret) /\ (SaveWaits => SaveAsked)
  BY <1>0, <1>1, Renders, SettingsStay DEF SaveWaits, SaveAsked
<1>7. /\ live' \in FileType /\ live'.models = live.models
      /\ live'.key = IF secret THEN live.key ELSE "none"
  BY <1>0, Forgets
<1>8. PlaceInv'
  BY <1>3, <1>7 DEF PlaceInv, Busy, ChoicePlaces, Reconciling, Rendering, SwitchPlaces
<1>9. RemovalInv'
  BY <1>0, <1>1, <1>3, <1>7 DEF RoutingInv, RemovalInv, Reconciling, Rendering
<1>10. FileInv'
  BY <1>3, <1>7 DEF FileInv, Written, Rendering
<1>11. StepInv'
  BY <1>3, <1>7 DEF StepInv, TakesBack
<1>12. VerifiedInv'
  BY <1>3, <1>7 DEF VerifiedInv, Reconciling, Rendering
<1>13. HonestInv'
  BY <1>3, <1>7 DEF HonestInv, Busy, Honest
<1>14. EndInv'
  BY <1>0, <1>1, <1>3, <1>5, <1>6, <1>7 DEF RoutingInv, EndInv, SuccessIsServed,
    NeverClaimsMorePrivacy, LastSays, PlaceInv, Rendering, FileInv, Written, StepInv, WasFresh,
    ModelsInStep, KeyInStep, Traced, Honest, TakesBack
<1>15. RoutingTypes' /\ JobTypes' /\ QueueInv'
  BY <1>0, <1>1, <1>3, <1>4, <1>7 DEF RoutingTypes, JobTypes
<1>16. Quiet /\ UNCHANGED <<agent, page>>
  BY <1>3, <1>4, <1>7 DEF Quiet, apps, SwitchPlaces
<1> QED BY <1>8, <1>9, <1>10, <1>11, <1>12, <1>13, <1>14, <1>15, <1>16, RoutingStepKeeps DEF
    RoutingInv

\* The connection is forgotten.
LEMMA ForgetRemovedKeeps ==
  ASSUME IInv, UNCHANGED <<apps, agent, page>>,
         Forgot, Reconciled, run.at = "forget",
         UNCHANGED <<file, shown, engine, up>>, Succeeds,
         Job.kind = "remove"
  PROVE  IInv'
<1>0. TypeInv /\ QueueInv /\ PlaceInv /\ RoutingInv /\ RoutingTypes /\ JobTypes
  BY Types DEF IInv
<1>1. /\ run.at = "forget"
      /\ UNCHANGED <<chat, voice, secret, file, shown, engine, up>>
      /\ provider' = "absent" /\ End("succeeded")
  BY DEF Reconciled, records
<1>2. queue # <<>> /\ Job.kind \in Kinds /\ Job.want \in WantsOf(Job.kind)
  BY <1>0, <1>1, JobIs DEF PlaceInv, Busy, Rendering
<1>3. /\ QueueInv' /\ run' \in RunType /\ run'.at = "idle" /\ run'.round = "first"
      /\ run'.stopped = {} /\ last' \in LastType /\ LastSays("succeeded")
      /\ (SaveWaits => SaveAsked') /\ (SaveAsked' => SaveAsked)
  BY <1>0, <1>1, <1>2, Ends, IdleIs DEF JobTypes
<1>4. spent' \in SpentType /\ SpentSame
  BY <1>0, SpentOrNot DEF JobTypes
<1>5. /\ Rendered'.models = Rendered.models /\ Rendered.models.chat = chat
      /\ Rendered.key = Key /\ (Key = "none" <=> ~secret) /\ (SaveWaits => SaveAsked)
  BY <1>0, <1>1, Renders, SettingsStay DEF SaveWaits, SaveAsked
<1>6. /\ live' \in FileType /\ live'.models = live.models
      /\ live'.key = IF secret THEN live.key ELSE "none"
  BY <1>0, Forgets
<1>7. PlaceInv'
  BY <1>3 DEF PlaceInv, Busy, ChoicePlaces, Reconciling, Rendering, SwitchPlaces
<1>8. RemovalInv'
  BY <1>0, <1>1, <1>3, <1>6 DEF RoutingInv, RemovalInv, Reconciling, Rendering
<1>9. FileInv'
  BY <1>3 DEF FileInv, Written, Rendering
<1>10. StepInv'
  BY <1>3 DEF StepInv, TakesBack
<1>11. VerifiedInv'
  BY <1>3 DEF VerifiedInv, Reconciling, Rendering
<1>12. HonestInv'
  BY <1>3 DEF HonestInv, Busy, Honest
<1>13. EndInv'
  BY <1>0, <1>1, <1>3, <1>5, <1>6 DEF RoutingInv, EndInv, SuccessIsServed, NeverClaimsMorePrivacy,
    LastSays, PlaceInv, Rendering, RemovalInv, FileInv, Written, StepInv, WasFresh, ModelsInStep,
    Traced, Honest, TakesBack
<1>14. RoutingTypes' /\ JobTypes' /\ QueueInv'
  BY <1>0, <1>1, <1>3, <1>4, <1>6 DEF RoutingTypes, JobTypes, ProviderStates
<1>15. Quiet /\ UNCHANGED <<agent, page>>
  BY <1>3, <1>4 DEF Quiet, apps, SwitchPlaces
<1> QED BY <1>7, <1>8, <1>9, <1>10, <1>11, <1>12, <1>13, <1>14, <1>15, RoutingStepKeeps DEF
    RoutingInv

(* The routing's actions, from their outcomes. *)
LEMMA FetchKeeps ==
  ASSUME IInv, UNCHANGED <<apps, agent, page>>, Fetch
  PROVE  IInv'
<1>1. \/ UNCHANGED <<queue, last, spent>> /\ Fetched(Setting)
      \/ End("failed")
  BY DEF Fetch, Fetched, Setting, Succeeds
<1> QED BY <1>1, FetchSavesKeeps, FetchFailsKeeps

LEMMA ProbeKeeps ==
  ASSUME IInv, UNCHANGED <<apps, agent, page>>, Probe
  PROVE  IInv'
<1>1. At("probe") => Job.kind \in {"chat", "voice"}
  BY DEF IInv, PlaceInv, At, ChoicePlaces
<1>2. \/ Go("follow") /\ Job.kind = "chat"
      \/ Job.kind = "voice" /\ End("succeeded")
      \/ Go("undo")
  BY <1>1 DEF Probe, AfterProbe
<1> QED BY <1>2, ProbeFollowsKeeps, ProbeEndsKeeps, ProbeUndoesKeeps

LEMMA FollowKeeps ==
  ASSUME IInv, UNCHANGED <<apps, agent, page>>, Follow
  PROVE  IInv'
<1>1. (shown' = chat /\ End("succeeded")) \/ End("failed")
  BY DEF Follow
<1> QED BY <1>1, FollowSucceedsKeeps, FollowFailsKeeps

LEMMA ProviderBeginsKeeps ==
  ASSUME IInv, UNCHANGED <<apps, agent, page>>, ProviderBegins
  PROVE  IInv'
<1>1. Job.kind \in ProviderKinds
  BY DEF ProviderBegins, Doing
<1>2. CASE Job.kind = "disable"
  BY <1>2, DisablesKeeps
<1>3. CASE Job.kind = "remove"
  BY <1>3, RemovesKeeps
<1>4. CASE Job.kind \in {"save", "verify"} /\ OutsideUsed
  BY <1>4, VerifiesKeeps
<1>5. CASE Job.kind \in {"save", "verify"} /\ ~OutsideUsed
  <2>1. UNCHANGED <<provider, secret>> /\ End("failed")
    BY <1>5 DEF ProviderBegins
  <2> QED BY <2>1, NotVerifiedKeeps
<1> QED BY <1>1, <1>2, <1>3, <1>4, <1>5 DEF ProviderKinds

\* However a reconciliation fails.
LEMMA NotReconciledKeeps ==
  ASSUME IInv, UNCHANGED <<apps, agent, page>>, Leaves, NotReconciled,
         UNCHANGED <<shown, engine, up>>, Fails
  PROVE  IInv'
<1>0. run.at \in Reconciling
  BY Types, LeavesBehind DEF IInv
<1>1. Job.kind \in {"chat", "voice", "save", "verify", "disable", "remove"}
  <2>1. queue # <<>> /\ QueueInv /\ Job.kind # "engine"
    BY <1>0 DEF IInv, PlaceInv, Busy, Rendering, Reconciling
  <2> QED BY <2>1, JobIs DEF Kinds, AiKinds, ProviderKinds
<1>2. run.round \in {"first", "again"}
  BY DEF IInv, TypeInv, RunType
<1>3. CASE Job.kind \in {"disable", "remove"}
  <2>1. UNCHANGED records /\ End("failed")
    BY <1>3 DEF NotReconciled
  <2> QED BY <1>3, <2>1, ProviderFailsKeeps DEF ProviderKinds
<1> QED
  BY <1>1, <1>2, <1>3, ChoiceUndoesKeeps, UndoFailsKeeps, CheckDegradesKeeps, CheckEndsKeeps

LEMMA ReconciledKeeps ==
  ASSUME IInv, UNCHANGED <<apps, agent, page>>, Forgot, Reconciled, run.at = "forget",
         UNCHANGED <<file, shown, engine, up>>, Succeeds
  PROVE  IInv'
<1>1. Job.kind \in {"chat", "voice", "save", "verify", "disable", "remove"}
  <2>1. queue # <<>> /\ QueueInv /\ Job.kind # "engine"
    BY DEF IInv, PlaceInv, Busy, Rendering, Reconciling
  <2> QED BY <2>1, JobIs DEF Kinds, AiKinds, ProviderKinds
<1>2. run.round \in {"first", "again"}
  BY DEF IInv, TypeInv, RunType
<1>3. CASE Job.kind \in {"chat", "voice"} /\ run.round = "first"
  <2>1. CASE Job.kind = "chat" /\ Job.want = "outside"
    BY <1>3, <2>1, ForgetFollowsKeeps
  <2>2. CASE Job.kind = "voice" \/ Job.want # "outside"
    <3>1. Go("probe") /\ UNCHANGED records
      BY <1>3, <2>2 DEF Reconciled
    <3> QED BY <1>3, <3>1, ForgetProbesKeeps
  <2> QED BY <1>3, <2>1, <2>2
<1>4. CASE Job.kind \in {"save", "verify"} /\ run.round = "again"
  BY <1>4, ForgetVerifiedKeeps, ForgetDegradedKeeps
<1> QED
  BY <1>1, <1>2, <1>3, <1>4, ForgetUndoneKeeps, ForgetChecksKeeps, ForgetDisabledKeeps,
     ForgetRemovedKeeps

LEMMA WriteKeeps ==
  ASSUME IInv, UNCHANGED <<apps, agent, page>>, Write
  PROVE  IInv'
<1>1. run.at = "write" /\ UNCHANGED <<live, shown, engine, up>>
  BY DEF Write, At
<1>2. CASE file' = Rendered /\ Succeeds /\ UNCHANGED <<records, queue, last>>
           /\ Wrote({part \in {"key", "models"} : file[part] # Rendered[part]})
  <2>1. FilesWritten
    BY <1>1, <1>2 DEF FilesWritten, At
  <2> QED BY <2>1, FilesWrittenKeeps
<1>3. ASSUME file' \in {file, [file EXCEPT !.key = Rendered.key], Rendered}, Fails,
             NotReconciled \/ (Job.kind \in {"save", "verify"} /\ UNCHANGED records /\ End("failed"))
      PROVE  IInv'
  <2>1. Leaves
    BY <1>1, <1>3 DEF Leaves
  <2> QED BY <1>1, <1>3, <2>1, NotReconciledKeeps, ProviderFailsKeeps DEF ProviderKinds
<1> QED BY <1>2, <1>3 DEF Write, Wrote

LEMMA UpGatewayKeeps ==
  ASSUME IInv, UNCHANGED <<apps, agent, page>>, UpGateway
  PROVE  IInv'
<1>1. RoutingTypes /\ run.at = "gateway" /\ run.at \in Rendering /\ UNCHANGED <<file, shown, engine, up>>
  BY Types DEF IInv, UpGateway, At, Rendering
<1>2. \/ live' = Started("key") /\ Go("models") /\ Succeeds /\ UNCHANGED records
      \/ live' \in {live, Started("key")} /\ Fails /\ NotReconciled
  BY DEF UpGateway, Up
<1> QED BY <1>1, <1>2, GatewayUpKeeps, LiveMayFollow, NotReconciledKeeps DEF Leaves

LEMMA UpModelsKeeps ==
  ASSUME IInv, UNCHANGED <<apps, agent, page>>, UpModels
  PROVE  IInv'
<1>1. RoutingTypes /\ run.at = "models" /\ run.at \in Rendering /\ UNCHANGED <<file, shown, engine, up>>
  BY Types DEF IInv, UpModels, At, Rendering
<1>2. \/ live' = Started("models") /\ Go("forget") /\ Succeeds /\ UNCHANGED records
      \/ live' \in {live, Started("models")} /\ Fails /\ NotReconciled
  BY DEF UpModels, Up
<1> QED BY <1>1, <1>2, ModelsUpKeeps, LiveMayFollow, NotReconciledKeeps DEF Leaves

LEMMA ForgetKeeps ==
  ASSUME IInv, UNCHANGED <<apps, agent, page>>, Forget
  PROVE  IInv'
<1>1. RoutingTypes /\ run.at = "forget" /\ run.at \in Rendering /\ UNCHANGED <<file, shown, engine, up>>
  BY Types DEF IInv, Forget, At, Rendering
<1>2. \/ Forgot /\ Reconciled /\ Succeeds
      \/ live' = live /\ NotReconciled /\ Fails
  BY DEF Forget, Forgot
<1> QED BY <1>1, <1>2, ReconciledKeeps, LiveMayFollow, NotReconciledKeeps DEF Leaves

LEMMA RoutingStepsKeep ==
  ASSUME IInv, UNCHANGED <<apps, agent, page>>, Claim \/ RoutingSteps
  PROVE  IInv'
BY ClaimKeeps, FetchKeeps, SaveChoiceKeeps, ProbeKeeps, UndoKeeps, FollowKeeps,
   ProviderBeginsKeeps, CheckKeeps, WriteKeeps, UpGatewayKeeps, UpModelsKeeps, ForgetKeeps
   DEF RoutingSteps

LEMMA RoutingAsksKeep ==
  ASSUME IInv, UNCHANGED <<apps, agent, page>>, RoutingAsks
  PROVE  IInv'
<1>1. ASSUME NEW want \in Chats, AskChat(want) PROVE IInv'
  <2>1. want \in WantsOf("chat") /\ "chat" \in Kinds
    BY RoutingAssumption DEF WantsOf, Kinds, AiKinds
  <2>2. Asks("chat", want)
    BY <1>1 DEF Asks, AskChat, routing, records
  <2> QED BY <2>1, <2>2, AsksKeep
<1>2. ASSUME NEW want \in Voices, AskVoice(want) PROVE IInv'
  <2>1. want \in WantsOf("voice") /\ "voice" \in Kinds
    BY RoutingAssumption DEF WantsOf, Kinds, AiKinds
  <2>2. Asks("voice", want)
    BY <1>2 DEF Asks, AskVoice, routing, records
  <2> QED BY <2>1, <2>2, AsksKeep
<1>3. ASSUME NEW kind \in {"verify", "disable", "remove"}, AskProvider(kind) PROVE IInv'
  <2>1. "none" \in WantsOf(kind) /\ kind \in Kinds /\ kind # "save"
    BY <1>3 DEF WantsOf, Kinds, ProviderKinds
  <2>2. Asks(kind, "none")
    BY <1>3 DEF Asks, AskProvider
  <2> QED BY <2>1, <2>2, AsksKeep
<1> QED BY <1>1, <1>2, <1>3, SaveKeyKeeps DEF RoutingAsks
-----------------------------------------------------------------------------
(* The apps that the owner wants and that nobody will start again. *)
LEMMA LostIsFinite ==
  ASSUME SwitchTypes
  PROVE  IsFiniteSet(Lost) /\ Cardinality(Lost) \in Nat
<1>1. Lost \subseteq GpuApps
  BY DEF Lost, SwitchTypes
<1> QED BY <1>1, SwitchAssumption, FS_Subset, FS_CardinalityType

LEMMA NoMoreLost ==
  ASSUME SwitchTypes, LostInv, Lost' \subseteq Lost, spent \in SpentType,
         spent'.cuts = spent.cuts, spent'.late <=> spent.late
  PROVE  LostInv'
<1>1. IsFiniteSet(Lost) /\ Cardinality(Lost) \in Nat
  BY LostIsFinite
<1>2. Cardinality(Lost') \in Nat /\ Cardinality(Lost') <= Cardinality(Lost)
  BY <1>1, FS_Subset, FS_CardinalityType
<1>3. spent.cuts \in Nat
  BY DEF SpentType
<1>4. ~spent'.late => Cardinality(Lost') <= spent'.cuts
  BY <1>1, <1>2, <1>3 DEF LostInv
<1> QED BY <1>4 DEF LostInv

LEMMA OneMoreLost ==
  ASSUME SwitchTypes, NEW a, Lost' \subseteq Lost \cup {a}
  PROVE  Cardinality(Lost') \in Nat /\ Cardinality(Lost') <= Cardinality(Lost) + 1
<1>1. IsFiniteSet(Lost) /\ Cardinality(Lost) \in Nat
  BY LostIsFinite
<1>2. /\ IsFiniteSet(Lost \cup {a})
      /\ Cardinality(Lost \cup {a}) \in {Cardinality(Lost), Cardinality(Lost) + 1}
  BY <1>1, FS_AddElement
<1>3. /\ Cardinality(Lost') \in Nat
      /\ Cardinality(Lost') <= Cardinality(Lost \cup {a})
  BY <1>2, FS_Subset, FS_CardinalityType
<1> QED BY <1>1, <1>2, <1>3

(* The owner starts and stops apps, and the voice page writes its file. *)
\* No job goes on meanwhile, and none is asked for.
LEMMA AppsKeep ==
  ASSUME IInv, UNCHANGED <<routing, engine, queue, run, last>>, SwitchTypes', SwitchInv',
         spent' \in SpentType
  PROVE  IInv'
<1>1. QueueInv' /\ PlaceInv' /\ RoutingInv'
  BY QueueStays, JobsKeepRouting DEF IInv
<1>2. RoutingTypes' /\ JobTypes'
  BY Types DEF IInv, RoutingTypes, JobTypes, routing, records
<1>3. TypeInv'
  BY <1>1, <1>2, TypesAgain
<1> QED BY <1>1, <1>3 DEF IInv

LEMMA OwnerStopsKeeps ==
  ASSUME IInv, NEW a \in GpuApps, OwnerStops(a)
  PROVE  IInv'
<1>0. /\ run.at = "idle" /\ a \in up /\ up' = up \ {a} /\ wish' = wish \ {a}
      /\ rec' = [rec EXCEPT ![a] = "stopped"]
      /\ UNCHANGED <<routing, engine, queue, run, last, missed, agent, page>>
      /\ a # Omni
  BY SwitchAssumption DEF OwnerStops, At
<1>1. SwitchTypes /\ SwitchInv /\ spent \in SpentType
  BY Types DEF IInv, JobTypes
<1>2. spent' \in SpentType /\ SpentSame
  BY <1>1, SpentOrNot DEF OwnerStops
<1>3. SwitchTypes'
  BY <1>0, <1>1 DEF SwitchTypes
<1>4. ModeInv' /\ CardInv' /\ StoppedInv'
  BY <1>0, <1>1, <1>2 DEF SwitchInv, ModeInv, CardInv, OneModelOnCard, StoppedInv, SpentSame
<1>5. WishInv'
  <2>1. SUFFICES ASSUME spent.cuts = 0 PROVE WishInv'
    BY <1>2 DEF WishInv, SpentSame
  <2>2. a \notin run.stopped \cup engine.stopped
    BY <1>0, <1>1, <2>1 DEF SwitchInv, WishInv
  <2>3. \A b \in GpuApps : rec'[b] = "running" => b \in wish'
    BY <1>0, <1>1, <2>1 DEF SwitchInv, WishInv, SwitchTypes
  <2> QED BY <1>0, <1>1, <2>1, <2>2, <2>3 DEF SwitchInv, WishInv
<1>6. LostInv'
  <2>1. Lost' \subseteq Lost
    BY <1>0, <1>2 DEF Lost, Held, Holding, Leaving, Returning, SpentSame
  <2> QED BY <1>1, <1>2, <2>1, NoMoreLost DEF SwitchInv, SpentSame
<1> QED BY <1>0, <1>2, <1>3, <1>4, <1>5, <1>6, AppsKeep DEF SwitchInv

LEMMA OwnerStartsKeeps ==
  ASSUME IInv, NEW a \in GpuApps, OwnerStarts(a)
  PROVE  IInv'
<1>0. /\ run.at = "idle" /\ up' = up \cup {a} /\ wish' = wish \cup {a} /\ missed' = missed \ {a}
      /\ rec' = [rec EXCEPT ![a] = "running"] /\ engine.mode # "duplex"
      /\ UNCHANGED <<routing, engine, queue, run, last, agent, page>>
      /\ spent' = [spent EXCEPT !.lost = spent.lost \ {a}] /\ a # Omni
  BY SwitchAssumption DEF OwnerStarts, At, StartRefused
<1>1. SwitchTypes /\ SwitchInv /\ spent \in SpentType
  BY Types DEF IInv, JobTypes
<1>2. /\ spent' \in SpentType /\ spent'.cuts = spent.cuts /\ (spent'.late <=> spent.late)
      /\ (spent'.stuck <=> spent.stuck)
      /\ spent'.lost = spent.lost \ {a} /\ spent'.unseen = spent.unseen
  <2>1. Spends(spent.lost \ {a}, spent.unseen)
    BY <1>0 DEF Spends
  <2>2. /\ spent.lost \ {a} \in SUBSET GpuApps
        /\ spent.unseen \in SUBSET (GpuApps \cup {Omni})
    BY <1>1 DEF SpentType
  <2> QED BY <1>1, <2>1, <2>2, SpentMoves
<1>3. SwitchTypes' /\ engine.mode = "pipeline"
  BY <1>0, <1>1 DEF SwitchTypes, EngineType, Modes
<1>4. ModeInv' /\ CardInv' /\ StoppedInv'
  BY <1>0, <1>1, <1>2, <1>3 DEF SwitchInv, ModeInv, CardInv, OneModelOnCard, StoppedInv,
    Holding, Leaving, Returning
<1>5. WishInv'
  <2>1. SUFFICES ASSUME spent.cuts = 0 PROVE WishInv'
    BY <1>2 DEF WishInv
  <2>2. run.stopped = {} /\ engine.stopped = {}
    BY <1>0, <1>1, <1>3 DEF SwitchInv, ModeInv, StoppedInv, Holding, Leaving, Returning
  <2>3. \A b \in GpuApps : rec'[b] = "running" => b \in wish'
    BY <1>0, <1>1, <2>1 DEF SwitchInv, WishInv, SwitchTypes
  <2> QED BY <1>0, <1>1, <2>1, <2>2, <2>3 DEF SwitchInv, WishInv
<1>6. LostInv'
  <2>1. Lost' \subseteq Lost
    BY <1>0, <1>2 DEF Lost, Held, Holding, Leaving, Returning
  <2> QED BY <1>1, <1>2, <2>1, NoMoreLost DEF SwitchInv
<1> QED BY <1>0, <1>2, <1>3, <1>4, <1>5, <1>6, AppsKeep DEF SwitchInv

LEMMA PageKeeps ==
  ASSUME IInv, PageReads \/ PageWrites \/ Sync
  PROVE  IInv'
<1>0. UNCHANGED <<routing, engine, up, rec, wish, missed, queue, run, last>>
  BY DEF PageReads, PageWrites, Sync, apps, jobs
<1>1. SwitchTypes /\ SwitchInv /\ spent \in SpentType
  BY Types DEF IInv, JobTypes
<1>2. UNCHANGED spent \/ spent' = [spent EXCEPT !.asks = @ + 1]
  BY DEF PageReads, PageWrites, Sync, jobs
<1>3. spent' \in SpentType /\ SpentSame
  BY <1>1, <1>2, SpentOrNot
<1>4. agent' \in Modes /\ page' \in Modes \cup {"none"}
  BY <1>1 DEF PageReads, PageWrites, Sync, SwitchTypes, EngineType
<1>5. SwitchTypes'
  BY <1>0, <1>1, <1>4 DEF SwitchTypes
<1> QED BY <1>0, <1>1, <1>3, <1>5, StillKeepsSwitch, AppsKeep

LEMMA AskEngineKeeps ==
  ASSUME IInv, NEW want \in Modes, AskEngine(want)
  PROVE  IInv'
<1>1. want \in WantsOf("engine") /\ "engine" \in Kinds
  BY DEF WantsOf, Kinds, AiKinds
<1>2. Asks("engine", want)
  BY DEF AskEngine, Asks
<1> QED BY <1>1, <1>2, AsksKeep

(* An execution is cut short. *)
LEMMA CutEnds ==
  ASSUME TypeInv, QueueInv, PlaceInv, Cut
  PROVE  /\ QueueInv' /\ (SaveAsked' => SaveAsked)
         /\ run' \in RunType /\ run'.at = "idle" /\ run'.round = "first" /\ run'.stopped = {}
         /\ last' \in LastType /\ last'.outcome = "cut"
<1>1. queue # <<>>
  BY DEF Cut, At, PlaceInv, Busy
<1>2. QueueInv' /\ (SaveAsked' => SaveAsked)
  <2>1. queue' = [queue EXCEPT ![1].cut = TRUE] \/ queue' = Tail(queue)
    BY DEF Cut
  <2> QED BY <1>1, <2>1, QueueMarks, QueueShrinks DEF SaveAsked
<1>3. run' = Idle /\ last' = [NoEnd EXCEPT !.outcome = "cut"]
  BY DEF Cut
<1>4. last' \in LastType /\ last'.outcome = "cut"
  BY <1>3 DEF NoEnd, LastType
<1> QED BY <1>2, <1>3, <1>4, IdleIs

LEMMA CutKeepsRouting ==
  ASSUME TypeInv, QueueInv, PlaceInv, RoutingInv, Cut
  PROVE  QueueInv' /\ PlaceInv' /\ RoutingInv'
<1>0. UNCHANGED <<chat, voice, provider, secret, file, live, shown>>
  BY DEF Cut, routing, records
<1>1. /\ QueueInv' /\ run'.at = "idle" /\ run'.round = "first" /\ last'.outcome = "cut"
      /\ (SaveAsked' => SaveAsked)
  BY CutEnds
<1>2. PlaceInv'
  BY <1>1 DEF PlaceInv, Busy, Reconciling, Rendering, ChoicePlaces, SwitchPlaces
<1>3. RemovalInv' /\ FileInv'
  BY <1>0, <1>1 DEF RoutingInv, RemovalInv, FileInv, Written, Reconciling, Rendering
<1>4. StepInv' /\ VerifiedInv' /\ HonestInv'
  BY <1>1 DEF StepInv, VerifiedInv, HonestInv, Reconciling, Rendering, Busy, Honest, TakesBack
<1>5. EndInv'
  BY <1>1 DEF EndInv, SuccessIsServed, NeverClaimsMorePrivacy, Honest
<1> QED BY <1>1, <1>2, <1>3, <1>4, <1>5 DEF RoutingInv

\* What the execution held and had not noted is lost: one app while it stops
\* them, any number while it starts them again.
LEMMA CutLoses ==
  ASSUME SwitchTypes, ModeInv, StoppedInv, LostInv, spent \in SpentType, Cut, run'.stopped = {},
         run'.at = "idle", UNCHANGED <<engine, up, wish, missed>>
  PROVE  LostInv'
<1>0. /\ spent'.cuts = spent.cuts + 1 /\ (spent'.late <=> LateNow) /\ spent.cuts \in Nat
      /\ spent'.lost = spent.lost
  BY SpentCut DEF SpentType
<1>1. SUFFICES ASSUME ~LateNow PROVE Cardinality(Lost') <= spent.cuts + 1
  BY <1>0 DEF LostInv
<1>2. ~spent.late /\ Cardinality(Lost) <= spent.cuts
  BY <1>1 DEF LateNow, LostInv
<1>3. PICK a : run.at \in Holding => run.stopped \subseteq engine.stopped \cup {a}
  BY <1>1 DEF LateNow, ModeInv, StoppedInv, Holding, Leaving, Returning
<1>4. Lost' \subseteq Lost \cup {a}
  BY <1>0, <1>3 DEF Lost, Held, Holding, Leaving, Returning
<1>5. Cardinality(Lost') \in Nat /\ Cardinality(Lost') <= Cardinality(Lost) + 1
  BY <1>4, OneMoreLost
<1>6. Cardinality(Lost) \in Nat
  BY LostIsFinite
<1> QED BY <1>0, <1>2, <1>5, <1>6

LEMMA CutKeeps ==
  ASSUME IInv, UNCHANGED <<apps, agent, page>>, Cut
  PROVE  IInv'
<1>0. /\ UNCHANGED <<chat, voice, provider, secret, file, live, shown, engine, up, rec, wish, missed>>
      /\ UNCHANGED <<agent, page>>
  BY DEF Cut, routing, records, apps
<1>1. RoutingTypes /\ SwitchTypes /\ JobTypes /\ SwitchInv /\ spent \in SpentType
  BY Types DEF IInv, JobTypes
<1>2. QueueInv' /\ PlaceInv' /\ RoutingInv'
  BY CutKeepsRouting DEF IInv
<1>3. run' \in RunType /\ run'.at = "idle" /\ run'.stopped = {} /\ last' \in LastType
  BY CutEnds DEF IInv
<1>4. /\ spent' \in SpentType /\ spent'.cuts = spent.cuts + 1 /\ (spent'.stuck <=> spent.stuck)
      /\ spent'.cuts # 0 /\ spent'.unseen = spent.unseen
  BY <1>1, SpentCut DEF SpentType
<1>5. TypeInv'
  BY <1>0, <1>1, <1>2, <1>3, <1>4, TypesAgain DEF RoutingTypes, SwitchTypes, JobTypes
<1>6. ModeInv' /\ StoppedInv' /\ WishInv'
  BY <1>0, <1>1, <1>3, <1>4 DEF SwitchInv, ModeInv, StoppedInv, WishInv, Leaving, Returning
<1>7. CardInv'
  BY <1>0, <1>1, <1>3, <1>4 DEF SwitchInv, CardInv, OneModelOnCard
<1>8. LostInv'
  BY <1>0, <1>1, <1>3, CutLoses DEF SwitchInv
<1> QED BY <1>2, <1>5, <1>6, <1>7, <1>8 DEF IInv, SwitchInv
-----------------------------------------------------------------------------
(* The switch goes on, or its execution ends. *)
LEMMA SwitchGoes ==
  ASSUME IInv, UNCHANGED <<routing, queue, last>>, run.at \in SwitchPlaces \cup {"begin"},
         Job.kind = "engine", run' \in RunType, run'.at \in SwitchPlaces,
         run'.round = run.round, run'.fresh <=> run.fresh, run'.honest <=> run.honest,
         spent' \in SpentType, SwitchTypes', SwitchInv'
  PROVE  IInv'
<1>1. Busy
  BY DEF Busy, SwitchPlaces
<1>2. QueueInv' /\ PlaceInv' /\ RoutingInv'
  BY <1>1, QueueStays, SwitchKeepsRouting DEF IInv
<1>3. RoutingTypes' /\ JobTypes'
  BY Types DEF IInv, RoutingTypes, JobTypes, routing, records
<1>4. TypeInv'
  BY <1>2, <1>3, TypesAgain
<1> QED BY <1>2, <1>4 DEF IInv

LEMMA SwitchStops ==
  ASSUME IInv, UNCHANGED routing, run.at \in SwitchPlaces \cup {"begin"}, Job.kind = "engine",
         NEW o \in {"succeeded", "failed"}, End(o), spent' \in SpentType, SwitchTypes', SwitchInv'
  PROVE  IInv'
<1>1. Busy
  BY DEF Busy, SwitchPlaces
<1>2. queue # <<>>
  BY <1>1 DEF IInv, PlaceInv
<1>3. QueueInv' /\ PlaceInv' /\ RoutingInv'
  BY <1>1, <1>2, SwitchEndKeepsRouting DEF IInv
<1>4. RoutingTypes' /\ JobTypes'
  <2>1. RoutingTypes /\ JobTypes /\ QueueInv
    BY Types DEF IInv
  <2>2. run' \in RunType /\ last' \in LastType
    BY <1>2, <2>1, Ends
  <2>3. RoutingTypes'
    BY <2>1 DEF RoutingTypes, routing, records
  <2> QED BY <2>2, <2>3 DEF JobTypes
<1>5. TypeInv'
  BY <1>3, <1>4, TypesAgain
<1> QED BY <1>3, <1>5 DEF IInv

\* The execution of a switch, and what it finds.
LEMMA InSwitch ==
  ASSUME IInv, run.at \in SwitchPlaces
  PROVE  /\ Job.kind = "engine" /\ run \in RunType /\ spent \in SpentType
         /\ SwitchTypes /\ SwitchInv
BY Types DEF IInv, PlaceInv, JobTypes

\* It goes to another place and changes no app: what it holds stays held.
Moves(from, to) ==
  /\ run.at = from /\ run' = [run EXCEPT !.at = to]
  /\ UNCHANGED <<routing, queue, last, rec, wish, missed, page>>

LEMMA MovesKeep ==
  ASSUME IInv, NEW from \in SwitchPlaces \cup {"begin"}, NEW to \in SwitchPlaces, Moves(from, to),
         Job.kind = "engine",
         engine' \in EngineType, up' \subseteq GpuApps \cup {Omni}, agent' \in Modes,
         spent' \in SpentType, spent'.cuts = spent.cuts, spent'.late <=> spent.late,
         spent'.lost = spent.lost,
         up' \cap GpuApps = up \cap GpuApps, Held' = Held,
         ModeInv', CardInv', StoppedInv',
         run.stopped \cup engine'.stopped \subseteq run.stopped \cup engine.stopped
  PROVE  IInv'
<1>1. run.at = from /\ run \in RunType /\ SwitchTypes /\ SwitchInv /\ spent \in SpentType
  BY Types DEF IInv, JobTypes, Moves
<1>2. /\ run' \in RunType /\ run'.at = to /\ run'.round = run.round /\ run'.stopped = run.stopped
      /\ (run'.fresh <=> run.fresh) /\ (run'.honest <=> run.honest)
  BY <1>1, RunGoes DEF Moves, Places, RunSame
<1>3. SwitchTypes'
  BY <1>1 DEF SwitchTypes, Moves
<1>4. Lost' \subseteq Lost
  BY <1>1 DEF Lost, Moves, SwitchTypes
<1>5. LostInv'
  BY <1>1, <1>4, NoMoreLost DEF SwitchInv
<1>6. WishInv'
  <2>1. run.stopped \cup engine.stopped \subseteq GpuApps
    BY <1>1 DEF RunType, SwitchTypes, EngineType
  <2> QED BY <1>1, <1>2, <2>1 DEF SwitchInv, WishInv, Moves
<1> QED BY <1>1, <1>2, <1>3, <1>5, <1>6, SwitchGoes DEF SwitchInv, Moves

\* It goes on without a change of what runs or is recorded.
LEMMA GoesKeep ==
  ASSUME IInv, NEW from \in SwitchPlaces \cup {"begin"}, NEW to \in SwitchPlaces, Moves(from, to),
         Job.kind = "engine", UNCHANGED <<engine, up>>, agent' \in Modes,
         spent' \in SpentType, SpentSame, Held' = Held,
         to \in {"build", "choose"} \cup Returning => engine.mode = "pipeline",
         to \in Leaving \cup {"tell", "down", "card_off"} => engine.mode = "duplex",
         ~spent.stuck /\ to \in {"stop", "remember", "start", "put_back", "card_off"} => Omni \notin up,
         to \notin {"start", "remember"},
         to \notin Holding \cup {"tell"} => run.stopped = {},
         to \in Leaving \cup {"tell"} => run.stopped = engine.stopped
  PROVE  IInv'
<1>1. run.at = from /\ run \in RunType /\ SwitchTypes /\ SwitchInv /\ spent \in SpentType
  BY Types DEF IInv, JobTypes, Moves
<1>2. run'.at = to /\ run'.stopped = run.stopped
  BY <1>1, RunGoes DEF Moves, Places, RunSame
<1>3. ModeInv'
  BY <1>1, <1>2 DEF SwitchInv, ModeInv, SpentSame
<1>4. CardInv'
  BY <1>1, <1>2 DEF SwitchInv, CardInv, OneModelOnCard, SpentSame
<1>5. StoppedInv'
  BY <1>1, <1>2 DEF SwitchInv, StoppedInv
<1>6. engine' \in EngineType /\ up' \subseteq GpuApps \cup {Omni} /\ up' \cap GpuApps = up \cap GpuApps
  BY <1>1 DEF SwitchTypes
<1>7. run.stopped \cup engine'.stopped \subseteq run.stopped \cup engine.stopped
  OBVIOUS
<1> QED BY <1>3, <1>4, <1>5, <1>6, <1>7, MovesKeep DEF SpentSame

\* It ends without such a change; the apps it holds are lost, or others remember them.
LEMMA LeavesApps ==
  ASSUME IInv, run.at \in SwitchPlaces \cup {"begin"}, Job.kind = "engine",
         NEW o \in {"succeeded", "failed"}, End(o), agent' \in Modes,
         UNCHANGED <<routing, engine, up, rec, wish, missed, page>>,
         spent' \in SpentType, spent'.cuts = spent.cuts, spent'.late <=> spent.late,
         spent'.stuck <=> spent.stuck, spent'.unseen = spent.unseen,
         spent.lost \cup Held \subseteq spent'.lost \cup engine.stopped,
         run.at \notin Leaving
  PROVE  IInv'
<1>1. SwitchTypes /\ SwitchInv /\ spent \in SpentType /\ JobTypes /\ QueueInv /\ queue # <<>>
  BY Types DEF IInv, JobTypes, PlaceInv, Busy, SwitchPlaces
<1>2. run'.at = "idle" /\ run'.stopped = {}
  BY <1>1, Ends, IdleIs
<1>3. SwitchTypes'
  BY <1>1 DEF SwitchTypes
<1>4. ModeInv' /\ StoppedInv'
  BY <1>1, <1>2 DEF SwitchInv, ModeInv, StoppedInv, Leaving, Returning
<1>5. CardInv'
  BY <1>1, <1>2 DEF SwitchInv, CardInv, OneModelOnCard
<1>6. Held' = engine.stopped
  BY <1>2 DEF Held, Holding, Leaving, Returning
<1>7. LostInv'
  <2>1. Lost' \subseteq Lost
    BY <1>6 DEF Lost
  <2> QED BY <1>1, <2>1, NoMoreLost DEF SwitchInv
<1>8. WishInv'
  BY <1>1, <1>2 DEF SwitchInv, WishInv
<1> QED BY <1>1, <1>3, <1>4, <1>5, <1>7, <1>8, SwitchStops DEF SwitchInv

\* None was held.
LEMMA StopsKeep ==
  ASSUME IInv, run.at \in SwitchPlaces \cup {"begin"}, Job.kind = "engine",
         NEW o \in {"succeeded", "failed"}, End(o), agent' \in Modes,
         UNCHANGED <<routing, engine, up, rec, wish, missed, page>>,
         spent' \in SpentType, SpentSame,
         run.at \in Holding => run.stopped = {}, run.at \notin Leaving
  PROVE  IInv'
<1>1. Held \subseteq engine.stopped
  BY DEF Held
<1> QED BY <1>1, LeavesApps DEF SpentSame

(* The switch's actions. *)
LEMMA SwitchBeginsKeeps ==
  ASSUME IInv, SwitchBegins
  PROVE  IInv'
<1>0. /\ run.at = "begin" /\ Job.kind = "engine" /\ queue # <<>>
      /\ UNCHANGED <<routing, rec, wish, missed, page, engine, up, agent, spent>>
  BY DEF SwitchBegins, At, Doing, Same, apps
<1>1. SwitchTypes /\ SwitchInv /\ spent \in SpentType /\ run \in RunType /\ QueueInv
  BY Types DEF IInv, JobTypes
<1>2. agent' \in Modes /\ spent' \in SpentType /\ SpentSame /\ engine.mode \in Modes
  BY <1>0, <1>1 DEF SwitchTypes, SpentSame, EngineType
<1>3. \/ End("failed")
      \/ engine.mode = "pipeline" /\ Go("build")
      \/ engine.mode = "duplex" /\ Go("down")
  <2>1. Job.want \in Modes
    BY <1>0, <1>1, JobIs DEF WantsOf
  <2>2. \/ Job.want = engine.mode
        \/ Job.want = "duplex" /\ engine.mode = "pipeline"
        \/ Job.want = "pipeline" /\ engine.mode = "duplex"
    BY <1>2, <2>1 DEF Modes
  <2> QED BY <2>2 DEF SwitchBegins
<1>4. CASE End("failed")
  BY <1>0, <1>2, <1>4, StopsKeep DEF Holding, Leaving, Returning
<1>5. ASSUME NEW to \in {"build", "down"}, Go(to),
             to = "build" => engine.mode = "pipeline", to = "down" => engine.mode = "duplex"
      PROVE  IInv'
  <2>1. Moves("begin", to)
    BY <1>0, <1>5 DEF Moves, Go
  <2>2. run'.at = to /\ run'.stopped = run.stopped
    BY <1>1, <1>5, RunGoes DEF Go, Places, SwitchPlaces, RunSame
  <2>3. Held' = Held
    BY <1>0, <1>5, <2>2 DEF Held, Holding, Leaving, Returning
  <2>4. run.stopped = {}
    BY <1>0, <1>1 DEF SwitchInv, StoppedInv, Holding, Leaving, Returning
  <2> QED BY <1>0, <1>2, <1>5, <2>1, <2>3, <2>4, GoesKeep DEF SwitchPlaces, Holding, Leaving, Returning
<1> QED BY <1>3, <1>4, <1>5

LEMMA BuildKeeps ==
  ASSUME IInv, Build
  PROVE  IInv'
<1>0. run.at = "build" /\ UNCHANGED <<routing, rec, wish, missed, page, engine, up, agent>>
  BY DEF Build, At, Same, apps
<1>1. Job.kind = "engine" /\ run \in RunType /\ spent \in SpentType /\ SwitchTypes /\ SwitchInv
  BY <1>0, InSwitch DEF SwitchPlaces
<1>2. agent' \in Modes /\ spent' \in SpentType /\ SpentSame
  BY <1>0, <1>1, SpentOrNot DEF Build, SwitchTypes
<1>3. run.stopped = {} /\ engine.mode = "pipeline"
  BY <1>0, <1>1 DEF SwitchInv, StoppedInv, ModeInv, Holding, Leaving, Returning
<1>4. CASE End("failed")
  BY <1>0, <1>1, <1>2, <1>4, StopsKeep DEF SwitchPlaces, Holding, Leaving, Returning
<1>5. CASE Go("choose")
  <2>1. Moves("build", "choose")
    BY <1>0, <1>5 DEF Moves, Go
  <2>2. run'.at = "choose" /\ run'.stopped = run.stopped
    BY <1>1, <1>5, RunGoes DEF Go, Places, SwitchPlaces, RunSame
  <2>3. Held' = Held
    BY <1>0, <2>2 DEF Held, Holding, Leaving, Returning
  <2> QED BY <1>0, <1>1, <1>2, <1>3, <2>1, <2>3, GoesKeep DEF SwitchPlaces, Holding, Leaving, Returning
<1> QED BY <1>4, <1>5 DEF Build

LEMMA ChooseKeeps ==
  ASSUME IInv, Choose
  PROVE  IInv'
<1>0. /\ run.at = "choose" /\ engine' = [mode |-> "duplex", agent |-> "pipeline", stopped |-> {}]
      /\ run' = [run EXCEPT !.at = "stop"]
      /\ UNCHANGED <<routing, queue, last, rec, wish, missed, page, up, agent, spent>>
  BY DEF Choose, At, Go, Same, apps
<1>1. Job.kind = "engine" /\ run \in RunType /\ spent \in SpentType /\ SwitchTypes /\ SwitchInv
  BY <1>0, InSwitch DEF SwitchPlaces
<1>2. run'.at = "stop" /\ run'.stopped = run.stopped
  BY <1>0, <1>1, RunGoes DEF Places, SwitchPlaces, RunSame
<1>3. engine' \in EngineType /\ engine'.mode = "duplex" /\ engine'.stopped = {}
  BY <1>0 DEF EngineType, Modes
<1>4. run.stopped = {} /\ engine.mode = "pipeline" /\ engine.stopped = {}
  BY <1>0, <1>1 DEF SwitchInv, StoppedInv, ModeInv, Holding, Leaving, Returning
<1>5. Held' = Held
  BY <1>0, <1>2, <1>3, <1>4 DEF Held, Holding, Leaving, Returning
<1>6. ModeInv' /\ StoppedInv'
  BY <1>0, <1>1, <1>2, <1>3, <1>4 DEF SwitchInv, ModeInv, StoppedInv, Holding, Leaving, Returning
<1>7. CardInv'
  BY <1>0, <1>1, <1>2, <1>3, <1>4 DEF SwitchInv, CardInv, OneModelOnCard
<1>8. Moves("choose", "stop") /\ agent' \in Modes /\ up' \subseteq GpuApps \cup {Omni}
  BY <1>0, <1>1 DEF Moves, SwitchTypes
<1> QED BY <1>0, <1>1, <1>3, <1>5, <1>6, <1>7, <1>8, MovesKeep DEF SwitchPlaces, Leaving

LEMMA RememberKeeps ==
  ASSUME IInv, Remember
  PROVE  IInv'
<1>0. /\ run.at = "remember" /\ engine' = [engine EXCEPT !.stopped = run.stopped]
      /\ run' = [run EXCEPT !.at = "stop"]
      /\ UNCHANGED <<routing, queue, last, rec, wish, missed, page, up, agent, spent>>
  BY DEF Remember, At, Go, Same, apps
<1>1. Job.kind = "engine" /\ run \in RunType /\ spent \in SpentType /\ SwitchTypes /\ SwitchInv
  BY <1>0, InSwitch DEF SwitchPlaces
<1>2. run'.at = "stop" /\ run'.stopped = run.stopped /\ run.stopped \subseteq GpuApps
  BY <1>0, <1>1, RunGoes DEF Places, SwitchPlaces, RunSame, RunType
<1>3. engine' \in EngineType /\ engine'.mode = engine.mode /\ engine'.stopped = run.stopped
  BY <1>0, <1>1, <1>2 DEF SwitchTypes, EngineType
<1>4. engine.mode = "duplex"
  BY <1>0, <1>1 DEF SwitchInv, ModeInv, Leaving
<1>5. Held' = Held
  BY <1>0, <1>2 DEF Held, Holding, Leaving, Returning
<1>6. ModeInv' /\ StoppedInv'
  BY <1>0, <1>1, <1>2, <1>3, <1>4 DEF SwitchInv, ModeInv, StoppedInv, Holding, Leaving, Returning
<1>7. CardInv'
  BY <1>0, <1>1, <1>2, <1>3, <1>4 DEF SwitchInv, CardInv, OneModelOnCard
<1>8. Moves("remember", "stop") /\ agent' \in Modes /\ up' \subseteq GpuApps \cup {Omni}
  BY <1>0, <1>1 DEF Moves, SwitchTypes
<1> QED BY <1>0, <1>1, <1>3, <1>5, <1>6, <1>7, <1>8, MovesKeep DEF SwitchPlaces, Leaving

LEMMA LoadedKeeps ==
  ASSUME IInv, Loaded
  PROVE  IInv'
<1>0. /\ run.at = "loaded" /\ run' = [run EXCEPT !.at = "tell"]
      /\ engine' = [mode |-> "duplex", agent |-> "duplex", stopped |-> run.stopped]
      /\ UNCHANGED <<routing, queue, last, rec, wish, missed, page, up, agent, spent>>
  BY DEF Loaded, At, Go, Same, apps
<1>1. Job.kind = "engine" /\ run \in RunType /\ spent \in SpentType /\ SwitchTypes /\ SwitchInv
  BY <1>0, InSwitch DEF SwitchPlaces
<1>2. run'.at = "tell" /\ run'.stopped = run.stopped /\ run.stopped \subseteq GpuApps
  BY <1>0, <1>1, RunGoes DEF Places, SwitchPlaces, RunSame, RunType
<1>3. engine' \in EngineType /\ engine'.mode = "duplex" /\ engine'.stopped = run.stopped
  BY <1>0, <1>2 DEF EngineType, Modes
<1>4. engine.mode = "duplex"
  BY <1>0, <1>1 DEF SwitchInv, ModeInv, Leaving
<1>5. Held' = Held
  BY <1>0, <1>2, <1>3 DEF Held, Holding, Leaving, Returning
<1>6. ModeInv' /\ StoppedInv'
  BY <1>0, <1>1, <1>2, <1>3, <1>4 DEF SwitchInv, ModeInv, StoppedInv, Holding, Leaving, Returning
<1>7. CardInv'
  BY <1>0, <1>1, <1>2, <1>3, <1>4 DEF SwitchInv, CardInv, OneModelOnCard
<1>8. Moves("loaded", "tell") /\ agent' \in Modes /\ up' \subseteq GpuApps \cup {Omni}
  BY <1>0, <1>1 DEF Moves, SwitchTypes
<1> QED BY <1>0, <1>1, <1>3, <1>5, <1>6, <1>7, <1>8, MovesKeep DEF SwitchPlaces, Leaving

LEMMA TellKeeps ==
  ASSUME IInv, Tell
  PROVE  IInv'
<1>0. /\ run.at = "tell" /\ agent' \in {agent, engine.agent}
      /\ UNCHANGED <<routing, rec, wish, missed, page, engine, up>>
  BY DEF Tell, At, Same, apps
<1>1. Job.kind = "engine" /\ run \in RunType /\ spent \in SpentType /\ SwitchTypes /\ SwitchInv
  BY <1>0, InSwitch DEF SwitchPlaces
<1>2. agent' \in Modes /\ spent' \in SpentType /\ SpentSame
  BY <1>0, <1>1, SpentOrNot DEF Tell, SwitchTypes, EngineType
<1>3. CASE End("succeeded")
  BY <1>0, <1>1, <1>2, <1>3, StopsKeep DEF SwitchPlaces, Holding, Leaving, Returning
<1>4. CASE Go("retract")
  <2>1. Moves("tell", "retract")
    BY <1>0, <1>4 DEF Moves, Go
  <2>2. run'.at = "retract" /\ run'.stopped = run.stopped
    BY <1>1, <1>4, RunGoes DEF Go, Places, SwitchPlaces, RunSame
  <2>3. run.stopped = engine.stopped /\ engine.mode = "duplex"
    BY <1>0, <1>1 DEF SwitchInv, StoppedInv, ModeInv
  <2>4. Held' = Held
    BY <1>0, <2>2, <2>3 DEF Held, Holding, Leaving, Returning
  <2> QED BY <1>0, <1>1, <1>2, <2>1, <2>3, <2>4, GoesKeep DEF SwitchPlaces, Holding, Leaving,
        Returning
<1> QED BY <1>3, <1>4 DEF Tell

LEMMA CardFreeKeeps ==
  ASSUME IInv, CardFree
  PROVE  IInv'
<1>0. run.at = "stop" /\ UNCHANGED <<routing, rec, wish, missed, page, engine, up, agent>>
  BY DEF CardFree, At, Same, apps
<1>1. Job.kind = "engine" /\ run \in RunType /\ spent \in SpentType /\ SwitchTypes /\ SwitchInv
  BY <1>0, InSwitch DEF SwitchPlaces
<1>2. PICK to \in {"start", "retract"} :
        /\ Go(to)
        /\ to = "start" => spent' = [spent EXCEPT !.unseen = up, !.trouble = IF up = {} THEN @ ELSE @ + 1]
        /\ to = "retract" => Succeeds \/ Fails
  BY DEF CardFree
<1>3. Moves("stop", to)
  BY <1>0, <1>2 DEF Moves, Go
<1>4. run'.at = to /\ run'.stopped = run.stopped
  BY <1>1, <1>2, RunGoes DEF Go, Places, SwitchPlaces, RunSame
<1>5. Held' = Held
  BY <1>0, <1>2, <1>4 DEF Held, Holding, Leaving, Returning
<1>6. /\ run.stopped = engine.stopped /\ engine.mode = "duplex"
      /\ ~spent.stuck => Omni \notin up
  BY <1>0, <1>1 DEF SwitchInv, StoppedInv, ModeInv, CardInv, Leaving
<1>7. agent' \in Modes /\ engine' \in EngineType /\ up' \subseteq GpuApps \cup {Omni}
  BY <1>0, <1>1 DEF SwitchTypes
<1>8. CASE to = "retract"
  <2>1. spent' \in SpentType /\ SpentSame
    BY <1>1, <1>2, <1>8, SpentOrNot
  <2> QED BY <1>0, <1>1, <1>3, <1>5, <1>6, <1>7, <1>8, <2>1, GoesKeep DEF SwitchPlaces, Holding,
        Leaving, Returning
<1>9. CASE to = "start"
  <2>1. Spends(spent.lost, up)
    <3>1. spent' = [spent EXCEPT !.unseen = up,
                                 !.trouble = IF up = {} THEN spent.trouble ELSE spent.trouble + 1]
      BY <1>2, <1>9
    <3>2. (IF up = {} THEN spent.trouble ELSE spent.trouble + 1) \in Nat
      BY <1>1 DEF SpentType
    <3> QED BY <3>1, <3>2 DEF Spends
  <2>2. /\ spent' \in SpentType /\ spent'.cuts = spent.cuts /\ (spent'.late <=> spent.late)
        /\ (spent'.stuck <=> spent.stuck) /\ spent'.lost = spent.lost /\ spent'.unseen = up
    <3>1. spent.lost \in SUBSET GpuApps /\ up \in SUBSET (GpuApps \cup {Omni})
      BY <1>1 DEF SpentType, SwitchTypes
    <3> QED BY <1>1, <2>1, <3>1, SpentMoves
  <2>3. ModeInv' /\ StoppedInv'
    BY <1>0, <1>1, <1>4, <1>6, <1>9, <2>2
       DEF SwitchInv, ModeInv, StoppedInv, Holding, Leaving, Returning
  <2>4. CardInv'
    BY <1>0, <1>4, <1>6, <1>9, <2>2 DEF CardInv, OneModelOnCard
  <2> QED BY <1>0, <1>1, <1>3, <1>5, <1>7, <1>9, <2>2, <2>3, <2>4, MovesKeep DEF SwitchPlaces
<1> QED BY <1>8, <1>9

LEMMA WarmKeeps ==
  ASSUME IInv, Warm
  PROVE  IInv'
<1>0. run.at = "warm" /\ UNCHANGED <<routing, rec, wish, missed, page, engine, up, agent>>
  BY DEF Warm, At, Same, apps
<1>1. Job.kind = "engine" /\ run \in RunType /\ spent \in SpentType /\ SwitchTypes /\ SwitchInv
  BY <1>0, InSwitch DEF SwitchPlaces
<1>2. agent' \in Modes /\ spent' \in SpentType /\ SpentSame
  BY <1>0, <1>1, SpentOrNot DEF Warm, SwitchTypes
<1>3. PICK to \in {"loaded", "retract"} : Go(to)
  BY DEF Warm
<1>4. Moves("warm", to)
  BY <1>0, <1>3 DEF Moves, Go
<1>5. run'.at = to /\ run'.stopped = run.stopped
  BY <1>1, <1>3, RunGoes DEF Go, Places, SwitchPlaces, RunSame
<1>6. Held' = Held
  BY <1>0, <1>3, <1>5 DEF Held, Holding, Leaving, Returning
<1>7. run.stopped = engine.stopped /\ engine.mode = "duplex"
  BY <1>0, <1>1 DEF SwitchInv, StoppedInv, ModeInv, Leaving
<1> QED BY <1>0, <1>1, <1>2, <1>3, <1>4, <1>6, <1>7, GoesKeep DEF SwitchPlaces, Holding,
    Leaving, Returning

LEMMA TellBackKeeps ==
  ASSUME IInv, TellBack
  PROVE  IInv'
<1>0. /\ run.at = "tell_back" /\ agent' \in {agent, engine.agent}
      /\ UNCHANGED <<routing, rec, wish, missed, page, engine, up>>
  BY DEF TellBack, At, Same, apps
<1>1. Job.kind = "engine" /\ run \in RunType /\ spent \in SpentType /\ SwitchTypes /\ SwitchInv
  BY <1>0, InSwitch DEF SwitchPlaces
<1>2. agent' \in Modes /\ engine.mode = "pipeline"
  BY <1>0, <1>1 DEF SwitchTypes, EngineType, SwitchInv, ModeInv, Returning
<1>3. CASE Go("restart") /\ Succeeds
  <2>1. Moves("tell_back", "restart")
    BY <1>0, <1>3 DEF Moves, Go
  <2>2. run'.at = "restart" /\ run'.stopped = run.stopped
    BY <1>1, <1>3, RunGoes DEF Go, Places, SwitchPlaces, RunSame
  <2>3. Held' = Held
    BY <1>0, <2>2 DEF Held, Holding, Leaving, Returning
  <2>4. spent' \in SpentType /\ SpentSame
    BY <1>1, <1>3, SpentOrNot
  <2> QED BY <1>0, <1>1, <1>2, <2>1, <2>3, <2>4, GoesKeep DEF SwitchPlaces, Holding, Leaving,
        Returning
<1>4. CASE End("failed") /\ Loses(run.stopped)
  <2>1. Spends(spent.lost \cup run.stopped, spent.unseen)
    BY <1>4 DEF Loses, Spends
  <2>2. /\ spent.lost \cup run.stopped \in SUBSET GpuApps
        /\ spent.unseen \in SUBSET (GpuApps \cup {Omni})
    BY <1>1 DEF SpentType, RunType
  <2>3. /\ spent' \in SpentType /\ spent'.cuts = spent.cuts /\ (spent'.late <=> spent.late)
        /\ (spent'.stuck <=> spent.stuck) /\ spent'.unseen = spent.unseen
        /\ spent'.lost = spent.lost \cup run.stopped
    BY <1>1, <2>1, <2>2, SpentMoves
  <2>4. Held = run.stopped
    BY <1>0 DEF Held, Holding, Returning
  <2> QED BY <1>0, <1>1, <1>2, <1>4, <2>3, <2>4, LeavesApps DEF SwitchPlaces, Leaving
<1> QED BY <1>3, <1>4 DEF TellBack

LEMMA SwitchEndsKeeps ==
  ASSUME IInv, SwitchEnds
  PROVE  IInv'
<1>0. /\ run.at = "restart" /\ run.stopped = {}
      /\ UNCHANGED <<routing, rec, wish, missed, page, engine, up, agent, spent>>
  BY DEF SwitchEnds, At, Same, apps
<1>1. Job.kind = "engine" /\ run \in RunType /\ spent \in SpentType /\ SwitchTypes /\ SwitchInv
  BY <1>0, InSwitch DEF SwitchPlaces
<1>2. agent' \in Modes /\ spent' \in SpentType /\ SpentSame
  BY <1>0, <1>1 DEF SwitchTypes, SpentSame
<1>3. PICK o \in {"succeeded", "failed"} : End(o)
  BY DEF SwitchEnds
<1>4. engine.stopped = {}
  BY <1>0, <1>1 DEF SwitchInv, ModeInv, Returning
<1> QED BY <1>0, <1>1, <1>2, <1>3, <1>4, StopsKeep DEF SwitchPlaces, Holding, Leaving, Returning

LEMMA StartOmniKeeps ==
  ASSUME IInv, StartOmni
  PROVE  IInv'
<1>0. /\ run.at = "start" /\ up' \in {up, up \cup {Omni}}
      /\ UNCHANGED <<routing, rec, wish, missed, page, engine, agent>>
  BY DEF StartOmni, At, Same, apps
<1>1. Job.kind = "engine" /\ run \in RunType /\ spent \in SpentType /\ SwitchTypes /\ SwitchInv
  BY <1>0, InSwitch DEF SwitchPlaces
<1>2. agent' \in Modes /\ engine' \in EngineType /\ spent' \in SpentType /\ SpentSame
  BY <1>0, <1>1, SpentOrNot DEF StartOmni, SwitchTypes
<1>3. PICK to \in {"warm", "retract"} : Go(to)
  BY DEF StartOmni
<1>4. Moves("start", to)
  BY <1>0, <1>3 DEF Moves, Go
<1>5. run'.at = to /\ run'.stopped = run.stopped
  BY <1>1, <1>3, RunGoes DEF Go, Places, SwitchPlaces, RunSame
<1>6. Held' = Held
  BY <1>0, <1>3, <1>5 DEF Held, Holding, Leaving, Returning
<1>7. /\ run.stopped = engine.stopped /\ engine.mode = "duplex"
      /\ up' \cap GpuApps = up \cap GpuApps /\ up = spent.unseen
  BY <1>0, <1>1, SwitchAssumption DEF SwitchInv, StoppedInv, ModeInv, CardInv, Leaving
<1>8. ModeInv' /\ StoppedInv'
  BY <1>0, <1>1, <1>2, <1>3, <1>5, <1>7
     DEF SwitchInv, ModeInv, StoppedInv, SpentSame, Holding, Leaving, Returning
<1>9. CardInv'
  BY <1>0, <1>2, <1>3, <1>5, <1>7 DEF CardInv, OneModelOnCard, SpentSame
<1>10. up' \subseteq GpuApps \cup {Omni}
  BY <1>0, <1>1 DEF SwitchTypes
<1> QED
  BY <1>0, <1>1, <1>2, <1>3, <1>4, <1>6, <1>7, <1>8, <1>9, <1>10, MovesKeep DEF SwitchPlaces,
    Leaving, SpentSame

LEMMA RetractKeeps ==
  ASSUME IInv, Retract
  PROVE  IInv'
<1>0. /\ run.at = "retract" /\ Go("put_back")
      /\ UNCHANGED <<routing, rec, wish, missed, page, engine, agent>>
      /\ \/ up' = up \ {Omni} /\ UNCHANGED spent
         \/ UNCHANGED up /\ spent' = [spent EXCEPT !.trouble = @ + 1, !.stuck = TRUE]
  BY DEF Retract, At, Same, apps, Succeeds
<1>1. Job.kind = "engine" /\ run \in RunType /\ spent \in SpentType /\ SwitchTypes /\ SwitchInv
  BY <1>0, InSwitch DEF SwitchPlaces
<1>2. /\ agent' \in Modes /\ engine' \in EngineType
      /\ spent' \in SpentType /\ spent'.cuts = spent.cuts /\ (spent'.late <=> spent.late)
      /\ spent'.lost = spent.lost /\ spent'.unseen = spent.unseen
      /\ spent'.stuck \/ up' = up \ {Omni}
  BY <1>0, <1>1, SpentStuck DEF SwitchTypes
<1>4. Moves("retract", "put_back")
  BY <1>0 DEF Moves, Go
<1>5. run'.at = "put_back" /\ run'.stopped = run.stopped
  BY <1>0, <1>1, RunGoes DEF Go, Places, SwitchPlaces, RunSame
<1>6. Held' = Held
  BY <1>0, <1>5 DEF Held, Holding, Leaving, Returning
<1>7. run.stopped = engine.stopped /\ engine.mode = "duplex" /\ up' \cap GpuApps = up \cap GpuApps
  BY <1>0, <1>1, SwitchAssumption DEF SwitchInv, StoppedInv, ModeInv, Leaving
<1>8. ModeInv' /\ StoppedInv'
  BY <1>0, <1>1, <1>2, <1>5, <1>7
     DEF SwitchInv, ModeInv, StoppedInv, Holding, Leaving, Returning
<1>9. CardInv'
  BY <1>0, <1>1, <1>2, <1>5, <1>7 DEF CardInv, OneModelOnCard
<1>10. up' \subseteq GpuApps \cup {Omni}
  BY <1>0, <1>1 DEF SwitchTypes
<1> QED
  BY <1>0, <1>1, <1>2, <1>4, <1>6, <1>7, <1>8, <1>9, <1>10, MovesKeep DEF SwitchPlaces, Leaving

LEMMA DownKeeps ==
  ASSUME IInv, Down
  PROVE  IInv'
<1>0. run.at = "down" /\ UNCHANGED <<routing, rec, wish, missed, page, engine, agent>>
  BY DEF Down, At, Same, apps
<1>1. Job.kind = "engine" /\ run \in RunType /\ spent \in SpentType /\ SwitchTypes /\ SwitchInv
  BY <1>0, InSwitch DEF SwitchPlaces
<1>2. agent' \in Modes /\ engine' \in EngineType /\ spent' \in SpentType /\ SpentSame
  BY <1>0, <1>1, SpentOrNot DEF Down, SwitchTypes
<1>3. CASE UNCHANGED up /\ End("failed")
  BY <1>0, <1>1, <1>2, <1>3, StopsKeep DEF SwitchPlaces, Holding, Leaving, Returning
<1>4. CASE up' = up \ {Omni} /\ Go("card_off")
  <2>4. Moves("down", "card_off")
    BY <1>0, <1>4 DEF Moves, Go
  <2>5. run'.at = "card_off" /\ run'.stopped = run.stopped
    BY <1>4, <1>1, RunGoes DEF Go, Places, SwitchPlaces, RunSame
  <2>6. Held' = Held
    BY <1>0, <2>5 DEF Held, Holding, Leaving, Returning
  <2>7. run.stopped = {} /\ engine.mode = "duplex" /\ up' \cap GpuApps = up \cap GpuApps
    BY <1>0, <1>1, <1>4, SwitchAssumption
       DEF SwitchInv, StoppedInv, ModeInv, Holding, Leaving, Returning
  <2>8. ModeInv' /\ StoppedInv'
    BY <1>0, <1>1, <1>2, <2>5, <2>7
       DEF SwitchInv, ModeInv, StoppedInv, SpentSame, Holding, Leaving, Returning
  <2>9. CardInv'
    BY <1>4, <2>5 DEF CardInv, OneModelOnCard
  <2>10. up' \subseteq GpuApps \cup {Omni}
    BY <1>1, <1>4 DEF SwitchTypes
  <2> QED
    BY <1>0, <1>1, <1>2, <2>4, <2>6, <2>7, <2>8, <2>9, <2>10, MovesKeep DEF SwitchPlaces,
      Leaving, SpentSame
<1> QED BY <1>3, <1>4 DEF Down

LEMMA PutBackKeeps ==
  ASSUME IInv, PutBack
  PROVE  IInv'
<1>0. /\ run.at = "put_back" /\ run' = [run EXCEPT !.at = "tell_back"]
      /\ engine' = [mode |-> "pipeline", agent |-> "pipeline", stopped |-> {}]
      /\ UNCHANGED <<routing, queue, last, rec, wish, missed, page, up, agent, spent>>
  BY DEF PutBack, At, Go, Same, apps
<1>1. Job.kind = "engine" /\ run \in RunType /\ spent \in SpentType /\ SwitchTypes /\ SwitchInv
  BY <1>0, InSwitch DEF SwitchPlaces
<1>2. run'.at = "tell_back" /\ run'.stopped = run.stopped
  BY <1>0, <1>1, RunGoes DEF Places, SwitchPlaces, RunSame
<1>3. engine' \in EngineType /\ engine'.mode = "pipeline" /\ engine'.stopped = {}
  BY <1>0 DEF EngineType, Modes
<1>5. Held' = Held
  BY <1>0, <1>2 DEF Held, Holding, Leaving, Returning
<1>6. ModeInv' /\ StoppedInv'
  BY <1>0, <1>1, <1>2, <1>3 DEF SwitchInv, ModeInv, StoppedInv, Holding, Leaving, Returning
<1>7. CardInv'
  BY <1>0, <1>1, <1>2 DEF SwitchInv, CardInv, OneModelOnCard
<1>8. Moves("put_back", "tell_back") /\ agent' \in Modes /\ up' \subseteq GpuApps \cup {Omni}
  BY <1>0, <1>1 DEF Moves, SwitchTypes
<1> QED BY <1>0, <1>1, <1>3, <1>5, <1>6, <1>7, <1>8, MovesKeep DEF SwitchPlaces, Leaving

LEMMA CardFreedKeeps ==
  ASSUME IInv, CardFreed
  PROVE  IInv'
<1>0. run.at = "card_off" /\ UNCHANGED <<routing, rec, wish, missed, page, engine, up, agent>>
  BY DEF CardFreed, At, Same, apps
<1>1. Job.kind = "engine" /\ run \in RunType /\ spent \in SpentType /\ SwitchTypes /\ SwitchInv
  BY <1>0, InSwitch DEF SwitchPlaces
<1>2. agent' \in Modes /\ spent' \in SpentType /\ SpentSame
  BY <1>0, <1>1, SpentOrNot DEF CardFreed, SwitchTypes
<1>3. CASE End("failed")
  BY <1>0, <1>1, <1>2, <1>3, StopsKeep DEF SwitchPlaces, Holding, Leaving, Returning
<1>4. CASE ~End("failed")
  <2>0. UNCHANGED <<queue, last>> /\ Holds("put_back", engine.stopped)
    BY <1>4 DEF CardFreed, Holds
  <2>1. engine.stopped \in SUBSET GpuApps /\ "put_back" \in Places
    BY <1>1 DEF SwitchTypes, EngineType, Places, SwitchPlaces
  <2>2. /\ run' \in RunType /\ run'.at = "put_back" /\ run'.round = run.round
        /\ run'.stopped = engine.stopped
        /\ (run'.fresh <=> run.fresh) /\ (run'.honest <=> run.honest)
    BY <1>1, <2>0, <2>1, RunHolds
  <2>3. SwitchTypes' /\ engine.mode = "duplex"
    BY <1>0, <1>1, <1>2 DEF SwitchTypes, SwitchInv, ModeInv
  <2>4. ModeInv' /\ StoppedInv'
    BY <1>0, <1>1, <1>2, <2>2, <2>3
       DEF SwitchInv, ModeInv, StoppedInv, SpentSame, Holding, Leaving, Returning
  <2>5. CardInv' /\ WishInv'
    BY <1>0, <1>1, <1>2, <2>0, <2>2 DEF SwitchInv, CardInv, OneModelOnCard, WishInv, SpentSame,
      Leaving
  <2>6. LostInv'
    <3>1. Lost' \subseteq Lost
      BY <1>0, <1>2, <2>2 DEF Lost, Held, Holding, Leaving, Returning, SpentSame
    <3> QED BY <1>1, <1>2, <3>1, NoMoreLost DEF SwitchInv, SpentSame
  <2> QED
    BY <1>0, <1>1, <1>2, <2>0, <2>2, <2>3, <2>4, <2>5, <2>6, SwitchGoes DEF SwitchInv,
      SwitchPlaces
<1> QED BY <1>3, <1>4

LEMMA StopAppKeeps ==
  ASSUME IInv, NEW a \in GpuApps, StopApp(a)
  PROVE  IInv'
<1>0. /\ run.at = "stop" /\ rec[a] # "stopped" /\ a # Omni
      /\ UNCHANGED <<routing, engine, queue, last, wish, missed, agent, page>>
  BY SwitchAssumption DEF StopApp, At, ToStop
<1>1. Job.kind = "engine" /\ run \in RunType /\ spent \in SpentType /\ SwitchTypes /\ SwitchInv
  BY <1>0, InSwitch DEF SwitchPlaces
<1>2. /\ agent' \in Modes
      /\ spent.lost \in SUBSET GpuApps /\ spent.unseen \in SUBSET (GpuApps \cup {Omni})
  BY <1>0, <1>1 DEF SwitchTypes, SpentType
<1>3. run.stopped = engine.stopped /\ engine.mode = "duplex" /\ run.stopped \subseteq GpuApps
  BY <1>0, <1>1 DEF SwitchInv, StoppedInv, ModeInv, Leaving, RunType
<1>4. spent.cuts = 0 => a \in wish
  BY <1>0, <1>1 DEF SwitchInv, WishInv, SwitchTypes
<1>5. CASE /\ up' = up \ {a} /\ rec' = [rec EXCEPT ![a] = "stopped"] /\ Succeeds
           /\ run' = [run EXCEPT !.at = "remember", !.stopped = @ \cup {a}]
  <2>8. spent' \in SpentType /\ SpentSame
    BY <1>1, <1>5, SpentOrNot
  <2>0. Holds("remember", run.stopped \cup {a})
    BY <1>5 DEF Holds
  <2>1. run.stopped \cup {a} \in SUBSET GpuApps /\ "remember" \in Places
    BY <1>3 DEF Places, SwitchPlaces
  <2>2. /\ run' \in RunType /\ run'.at = "remember" /\ run'.round = run.round
        /\ run'.stopped = run.stopped \cup {a}
        /\ (run'.fresh <=> run.fresh) /\ (run'.honest <=> run.honest)
    BY <1>1, <2>0, <2>1, RunHolds
  <2>3. SwitchTypes'
    BY <1>0, <1>1, <1>5 DEF SwitchTypes
  <2>4. ModeInv' /\ StoppedInv'
    BY <1>0, <1>1, <2>8, <1>3, <2>2
       DEF SwitchInv, ModeInv, StoppedInv, SpentSame, Holding, Leaving, Returning
  <2>5. CardInv'
    BY <1>0, <1>1, <2>8, <1>5, <2>2 DEF SwitchInv, CardInv, OneModelOnCard, SpentSame
  <2>6. WishInv'
    <3>1. SUFFICES ASSUME spent.cuts = 0 PROVE WishInv'
      BY <2>8 DEF WishInv, SpentSame
    <3>2. \A b \in GpuApps : rec'[b] = "running" => b \in wish'
      BY <1>0, <1>1, <1>5, <3>1 DEF SwitchInv, WishInv, SwitchTypes
    <3> QED BY <1>0, <1>1, <1>4, <1>5, <2>2, <3>1, <3>2 DEF SwitchInv, WishInv, Leaving
  <2>7. LostInv'
    <3>1. Lost' \subseteq Lost
      BY <1>0, <1>5, <2>2, <2>8 DEF Lost, Held, Holding, Leaving, Returning, SpentSame
    <3> QED BY <1>1, <2>8, <3>1, NoMoreLost DEF SwitchInv, SpentSame
  <2> QED
    BY <1>0, <1>1, <2>2, <2>3, <2>4, <2>5, <2>6, <2>7, <2>8, SwitchGoes DEF SwitchInv,
      SwitchPlaces
<1>6. CASE /\ UNCHANGED rec /\ run' = [run EXCEPT !.at = "retract"]
           /\ (UNCHANGED up /\ Fails) \/ (up' = up \ {a} /\ Loses({a}))
  <2>8. PICK lost \in {spent.lost, spent.lost \cup {a}} :
          Spends(lost, spent.unseen) /\ (UNCHANGED up \/ (up' = up \ {a} /\ a \in lost))
    BY <1>6 DEF Spends, Fails, Loses
  <2>9. /\ spent' \in SpentType /\ spent'.cuts = spent.cuts
        /\ (spent'.late <=> spent.late) /\ (spent'.stuck <=> spent.stuck)
        /\ spent'.lost = lost /\ spent'.unseen = spent.unseen
    <3>1. lost \in SUBSET GpuApps
      BY <1>2, <2>8
    <3> QED BY <1>1, <1>2, <2>8, <3>1, SpentMoves
  <2>2. /\ run' \in RunType /\ run'.at = "retract" /\ run'.round = run.round
        /\ run'.stopped = run.stopped
        /\ (run'.fresh <=> run.fresh) /\ (run'.honest <=> run.honest)
    BY <1>1, <1>6, RunGoes DEF Places, SwitchPlaces, RunSame
  <2>3. SwitchTypes'
    BY <1>0, <1>1, <1>6 DEF SwitchTypes
  <2>4. ModeInv' /\ StoppedInv'
    BY <1>0, <1>1, <1>3, <2>2, <2>9
       DEF SwitchInv, ModeInv, StoppedInv, Holding, Leaving, Returning
  <2>5. CardInv'
    BY <1>0, <1>1, <1>3, <1>6, <2>2, <2>8, <2>9 DEF SwitchInv, CardInv, OneModelOnCard
  <2>6. WishInv'
    BY <1>0, <1>1, <1>6, <2>2, <2>8, <2>9 DEF SwitchInv, WishInv, Leaving
  <2>7. LostInv'
    <3>1. Lost' \subseteq Lost
      BY <1>0, <1>6, <2>2, <2>8, <2>9 DEF Lost, Held, Holding, Leaving, Returning
    <3> QED BY <1>1, <2>9, <3>1, NoMoreLost DEF SwitchInv
  <2> QED
    BY <1>0, <1>1, <2>2, <2>3, <2>4, <2>5, <2>6, <2>7, <2>9, SwitchGoes DEF SwitchInv,
      SwitchPlaces
<1> QED BY <1>5, <1>6 DEF StopApp

LEMMA RestartAppKeeps ==
  ASSUME IInv, NEW a \in GpuApps, RestartApp(a)
  PROVE  IInv'
<1>0. /\ run.at = "restart" /\ a \in run.stopped /\ a # Omni
      /\ UNCHANGED <<routing, engine, queue, last, wish, agent, page>>
  BY SwitchAssumption DEF RestartApp, At
<1>1. Job.kind = "engine" /\ run \in RunType /\ spent \in SpentType /\ SwitchTypes /\ SwitchInv
  BY <1>0, InSwitch DEF SwitchPlaces
<1>2. PICK lost \in {spent.lost, spent.lost \ {a}} :
        /\ Spends(lost, spent.unseen)
        /\ lost = spent.lost \/ a \in up' \cup missed'
  BY DEF RestartApp, Spends, Fails
<1>11. /\ spent' \in SpentType /\ spent'.cuts = spent.cuts
       /\ (spent'.late <=> spent.late) /\ (spent'.stuck <=> spent.stuck)
       /\ spent'.lost = lost /\ spent'.unseen = spent.unseen
  <2>1. lost \in SUBSET GpuApps /\ spent.unseen \in SUBSET (GpuApps \cup {Omni})
    BY <1>1, <1>2 DEF SpentType
  <2> QED BY <1>1, <1>2, <2>1, SpentMoves
<1>3. /\ engine.mode = "pipeline" /\ engine.stopped = {} /\ run.stopped \subseteq GpuApps
      /\ ~spent.stuck => Omni \notin up
      /\ spent.cuts = 0 => a \in wish
  BY <1>0, <1>1 DEF SwitchInv, ModeInv, CardInv, WishInv, Returning, RunType
<1>4. /\ run' \in RunType /\ run'.at = "restart" /\ run'.round = run.round
      /\ run'.stopped = run.stopped \ {a}
      /\ (run'.fresh <=> run.fresh) /\ (run'.honest <=> run.honest)
  <2>1. Holds("restart", run.stopped \ {a})
    BY <1>0 DEF RestartApp, Holds
  <2>2. run.stopped \ {a} \in SUBSET GpuApps /\ "restart" \in Places
    BY <1>3 DEF Places, SwitchPlaces
  <2> QED BY <1>0, <1>1, <2>1, <2>2, RunHolds
<1>5. /\ up' \in {up, up \cup {a}} /\ missed' \in {missed, missed \cup {a}}
      /\ a \in up' \cup missed'
      /\ rec' = rec \/ rec' = [rec EXCEPT ![a] = "running"]
  BY DEF RestartApp
<1>6. SwitchTypes'
  BY <1>0, <1>1, <1>5 DEF SwitchTypes
<1>7. ModeInv' /\ StoppedInv'
  BY <1>0, <1>1, <1>3, <1>4, <1>11
     DEF SwitchInv, ModeInv, StoppedInv, Holding, Leaving, Returning
<1>8. CardInv'
  BY <1>0, <1>1, <1>3, <1>4, <1>5, <1>11 DEF SwitchInv, CardInv, OneModelOnCard
<1>9. WishInv'
  <2>1. SUFFICES ASSUME spent.cuts = 0 PROVE WishInv'
    BY <1>11 DEF WishInv
  <2>2. \A b \in GpuApps : rec'[b] = "running" => b \in wish'
    BY <1>0, <1>1, <1>3, <1>5, <2>1 DEF SwitchInv, WishInv, SwitchTypes
  <2> QED BY <1>0, <1>1, <1>3, <1>4, <1>5, <2>1, <2>2 DEF SwitchInv, WishInv, Leaving
<1>10. LostInv'
  <2>1. Lost' \subseteq Lost
    BY <1>0, <1>2, <1>4, <1>5, <1>11 DEF Lost, Held, Holding, Leaving, Returning
  <2> QED BY <1>1, <1>11, <2>1, NoMoreLost DEF SwitchInv
<1> QED
  BY <1>0, <1>1, <1>4, <1>6, <1>7, <1>8, <1>9, <1>10, <1>11, SwitchGoes DEF SwitchInv, SwitchPlaces

LEMMA SwitchStepsKeep ==
  ASSUME IInv, SwitchSteps
  PROVE  IInv'
BY SwitchBeginsKeeps, BuildKeeps, ChooseKeeps, RememberKeeps, CardFreeKeeps, StartOmniKeeps,
   WarmKeeps, LoadedKeeps, TellKeeps, RetractKeeps, DownKeeps, CardFreedKeeps, PutBackKeeps,
   TellBackKeeps, StopAppKeeps, RestartAppKeeps, SwitchEndsKeeps
   DEF SwitchSteps

-----------------------------------------------------------------------------
(* The invariance, and what it says. *)
LEMMA Begins ==
  ASSUME SwitchInit
  PROVE  IInv
<1>0. /\ chat \in Chats /\ voice \in Voices /\ shown = chat
      /\ provider \in {"absent", "verified"} /\ secret = (provider = "verified")
      /\ file = Rendered /\ live = Rendered /\ engine = Pipeline
      /\ queue = <<>> /\ run = Idle /\ last = NoEnd
      /\ spent = [asks |-> 0, trouble |-> 0, cuts |-> 0, late |-> FALSE, stuck |-> FALSE,
                   lost |-> {}, unseen |-> {}]
      /\ up = GpuApps /\ wish = GpuApps /\ rec = [a \in GpuApps |-> "running"]
      /\ missed = {} /\ agent = "pipeline" /\ page = "none"
  BY DEF SwitchInit, Init, Pipeline
<1>1. run \in RunType /\ run.at = "idle" /\ run.round = "first" /\ run.stopped = {}
  BY <1>0, IdleIs
<1>2. last \in LastType /\ last.outcome = "none"
  BY <1>0 DEF NoEnd, LastType
<1>3. /\ spent \in SpentType /\ spent.cuts = 0 /\ ~spent.late /\ ~spent.stuck
  BY <1>0 DEF SpentType
<1>4. engine \in EngineType /\ engine.mode = "pipeline" /\ engine.stopped = {}
  BY <1>0 DEF Pipeline, EngineType, Modes
<1>5. RoutingTypes
  <2>1. /\ chat \in Sources /\ voice \in Privacies \cup {"follows"} /\ shown \in Sources
        /\ provider \in ProviderStates /\ secret \in BOOLEAN
    BY <1>0, RoutingAssumption DEF ProviderStates
  <2>2. VoiceOf \in Privacies
    BY <2>1, PrivacyIs DEF VoiceOf
  <2>3. Rendered \in FileType
    BY <2>1, <2>2 DEF Rendered, Key, FileType
  <2> QED BY <1>0, <2>1, <2>3 DEF RoutingTypes
<1>6. SwitchTypes /\ Len(queue) <= 2
  BY <1>0, <1>4 DEF SwitchTypes, Modes
<1>7. TypeInv
  <2>1. run.at \in {"idle"} \cup RoutingPlaces \cup SwitchPlaces
    BY <1>1 DEF RunType
  <2> QED BY <1>1, <1>2, <1>3, <1>5, <1>6, <2>1 DEF TypeInv, TypeOK, RoutingTypes, SwitchTypes,
          FileType, EngineType, ProviderStates
<1>8. QueueInv /\ ~SaveAsked
  <2>1. queue \in Seq(Item) /\ DOMAIN queue = {}
    BY <1>0
  <2> QED BY <2>1 DEF QueueInv, SaveAsked
<1>9. PlaceInv
  BY <1>1 DEF PlaceInv, Busy, ChoicePlaces, Reconciling, Rendering, SwitchPlaces
<1>10. RemovalInv
  BY <1>0, <1>1, <1>8, Renders, <1>5 DEF RemovalInv, Reconciling, Rendering
<1>11. FileInv /\ StepInv /\ VerifiedInv /\ HonestInv
  BY <1>1 DEF FileInv, StepInv, VerifiedInv, HonestInv, Written, Reconciling, Rendering, Busy,
    Honest, TakesBack
<1>12. EndInv
  BY <1>2 DEF EndInv, SuccessIsServed, NeverClaimsMorePrivacy, Honest
<1>13. ModeInv /\ StoppedInv /\ WishInv
  BY <1>0, <1>1, <1>3, <1>4 DEF ModeInv, StoppedInv, WishInv, Leaving, Returning
<1>14. CardInv
  BY <1>0, <1>1, <1>3, SwitchAssumption DEF CardInv, OneModelOnCard
<1>15. LostInv
  <2>1. Lost = {}
    BY <1>0 DEF Lost
  <2> QED BY <1>3, <2>1, FS_EmptySet DEF LostInv
<1> QED
  BY <1>7, <1>8, <1>9, <1>10, <1>11, <1>12, <1>13, <1>14, <1>15 DEF IInv, RoutingInv, SwitchInv

LEMMA StutterKeeps ==
  ASSUME IInv, UNCHANGED vars
  PROVE  IInv'
<1>1. /\ UNCHANGED <<routing, engine, queue, run, last, rec, wish, missed, up, agent, page, spent>>
  BY DEF vars, jobs
<1>2. SwitchTypes /\ SwitchInv /\ spent \in SpentType
  BY Types DEF IInv, JobTypes
<1>3. SwitchTypes' /\ spent' \in SpentType /\ SpentSame
  BY <1>1, <1>2 DEF SwitchTypes, SpentSame
<1> QED BY <1>1, <1>2, <1>3, StillKeepsSwitch, AppsKeep

LEMMA StepsKeep ==
  IInv /\ [Next]_vars => IInv'
BY RoutingStepsKeep, RoutingAsksKeep, SwitchStepsKeep, AskEngineKeeps, OwnerStopsKeeps,
   OwnerStartsKeeps, PageKeeps, CutKeeps, StutterKeeps DEF Next, Worker, People

\* The jobs, the records, the files, the gateway, the card and the apps agree
\* as the inductive invariant says, in every reachable state.
THEOREM Invariance == Spec => []IInv
<1>1. SwitchInit => IInv
  BY Begins
<1> QED BY <1>1, StepsKeep, PTL DEF Spec

\* What is recorded promises no more than the gateway and the proxy keep: an
\* execution that found them on their files, and chat's record true, leaves it
\* true, a failing roll_back included; and provider_ops forgets a connection
\* only after its keys.
THEOREM RecordsKept == Spec => []RecordsAreKept
<1>1. IInv => RecordsAreKept
  BY DEF IInv, RoutingInv, RemovalInv, EndInv, RecordsAreKept, RemovedKeysGone
<1> QED BY <1>1, Invariance, PTL

\* A job that says it succeeded, having begun with the gateway and the proxy on
\* their files, leaves what the owner chose served (local_models._apply).
THEOREM SuccessServed == Spec => []SuccessIsServed
<1>1. IInv => SuccessIsServed
  BY DEF IInv, RoutingInv, EndInv
<1> QED BY <1>1, Invariance, PTL

\* The switch of duplex_voice shares the card: its model is alone on it, but for
\* what the check did not see and unless it would not stop; after switches that
\* were not cut, the apps are as the owner wishes, named, or lost to a failed
\* stop or an agent's file that could not be written; and a cut while it stops
\* them forgets at most one app more.
THEOREM CardKept == Spec => [](TypeOK /\ OneModelOnCard /\ AppsAsWished /\ LosesAtMostOne)
<1>1. ASSUME IInv PROVE TypeOK /\ OneModelOnCard /\ AppsAsWished /\ LosesAtMostOne
  <2>1. SwitchTypes /\ SwitchInv /\ spent \in SpentType /\ TypeOK
    BY <1>1, Types DEF IInv, JobTypes, TypeInv
  <2>2. IsFiniteSet(Lost) /\ Cardinality(Lost) \in Nat /\ spent.cuts \in Nat
    BY <2>1, LostIsFinite DEF SpentType
  <2>3. At("idle") => Lost = wish \ (up \cup missed \cup spent.lost \cup engine.stopped)
    BY DEF Lost, Held, At, Holding, Leaving, Returning
  <2>4. AppsAsWished
    <3>1. SUFFICES ASSUME At("idle"), engine.mode = "pipeline", spent.cuts = 0
                   PROVE  /\ wish \subseteq up \cup missed \cup spent.lost
                          /\ up \cap GpuApps \subseteq wish
      BY DEF AppsAsWished
    <3>2. engine.stopped = {} /\ ~spent.late /\ up \cap GpuApps \subseteq wish
      BY <2>1, <3>1 DEF SwitchInv, ModeInv, WishInv
    <3>3. Cardinality(Lost) = 0
      BY <2>1, <2>2, <3>1, <3>2 DEF SwitchInv, LostInv
    <3>4. Lost = {}
      BY <2>2, <3>3, FS_EmptySet
    <3> QED BY <2>3, <3>1, <3>2, <3>4
  <2>5. LosesAtMostOne
    BY <2>1, <2>3 DEF SwitchInv, LostInv, LosesAtMostOne
  <2> QED BY <2>1, <2>4, <2>5 DEF SwitchInv, CardInv
<1> QED BY <1>1, Invariance, PTL
=============================================================================
