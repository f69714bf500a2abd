--------------------------- MODULE LifecycleProofs ---------------------------
(***************************************************************************)
(* Proofs about AppLife, with Connectors, and about SelfUpdate: the life   *)
(* of the apps, and of Mu3Lab itself.                                      *)
(*                                                                         *)
(* AppLife, for any apps, connectors and number of requests and mishaps: a *)
(* job that reports success has done what its action says, an app that was *)
(* removed left nothing behind, data keeps its release, and an app has one *)
(* connector switched on.                                                  *)
(*                                                                         *)
(* SelfUpdate, for any number of failing commands, reboots and claims: an  *)
(* update that ends leaves one version, what the result says is so, and    *)
(* the way back loses no accepted work.                                    *)
(***************************************************************************)
EXTENDS AppLife, SelfUpdate, FiniteSetTheorems, SequenceTheorems, TLAPS
-----------------------------------------------------------------------------
(***************************************************************************)
(* The life of an app                                                      *)
(***************************************************************************)

(* The inductive invariant of AppLife. *)

\* A connector's record, whole, with files under what runs.
Sane(r) == r \in Link /\ (r.up => r.files)

\* The connectors' records, one per app at most switched on.
Good(l) ==
    /\ l \in [Conns -> Link]
    /\ \A c \in Conns : Sane(l[c])
    /\ \A c, d \in Conns : l[c].on = "on" /\ l[d].on = "on" /\ AppOf[c] = AppOf[d] => c = d

\* The apps: containers, addresses and a record of what is installed are found
\* only where the files are; the data was started with the release recorded.
Fits(r, b) ==
    /\ r.proj # "full" => r.box = "absent" /\ b \notin routes /\ b \notin serve
    /\ r.pin <= approved /\ r.data <= approved
    /\ r.data # 0 /\ ~r.dropped => r.pin = r.data
Entered(r) == r.rec \in {"running", "stopped"} => r.proj = "full"
Placed(b) == Fits(app[b], b) /\ Entered(app[b])

\* No app or connector has two jobs waiting.
Apart(q) == \A i, k \in 1..Len(q) : q[i].of = q[k].of => i = k

\* The jobs that wait are whole and have not begun.
QueueInv ==
    /\ queue \in Seq(Job)
    /\ \A i \in 1..Len(queue) : queue[i].at = "begin"

\* What a connector that is switched on may still be doing.
Quiet(a) == \A c \in Enabled(link, a) : Idle(link[c]) \/ ~link[c].up
AllOff(a) == \A c \in Conns : AppOf[c] = a => link[c].on # "on"

\* The places of a job, from which on something holds.
ControlPlaces == {"compose", "health", "tools", "recorded"}
FromHalt == {"halt"}
FromPark == FromHalt \cup {"park"}
FromConnect == FromPark \cup {"connect", "rewire"}
FromSignIn == FromConnect \cup {"signin"}
FromVerify == FromSignIn \cup {"verify", "route"}
FromSettle == FromVerify \cup {"settle"}
FromPin == FromSettle \cup {"pin", "oidc", "up"}
FromRecord == FromPin \cup {"record", "render"}
FromUnsign == {"unsign", "delete", "gone"}
FromRemove == FromUnsign \cup {"remove"}
FromUnroute == FromRemove \cup {"unroute"}
FromDown == FromUnroute \cup {"down"}

AtNeeds(a) ==
    job.at = "needs" => /\ job.do \in Installs \cup {"start", "restart"}
                        /\ job.do \notin Installs => app[a].proj = "full"
AtControl(a) ==
    job.at \in ControlPlaces =>
        /\ job.do \in {"start", "restart", "stop"} /\ app[a].proj = "full"
        /\ job.do = "stop" => job.at \in {"compose", "recorded"} /\ Quiet(a)
        /\ job.do = "stop" /\ job.at = "recorded" => app[a].box \in {"absent", "stopped"}
AtInstall(a) ==
    /\ job.at \in FromRecord => job.do \in Installs
    /\ job.at \in FromPin => app[a].proj = "full"
    /\ job.at \in FromSettle => app[a].box \in {"running", "broken"}
    /\ job.at \in FromVerify => ~app[a].boot
    /\ job.at \in FromSignIn => a \in serve
    /\ job.at \in FromConnect => a \in routes /\ app[a].signin /\ app[a].rec = "running"
    /\ job.at \in FromPark => job.batch \/ job.setup
    /\ job.at \in FromHalt => Quiet(a)
AtUninstall(a) ==
    /\ job.at \in FromDown =>
         /\ job.do \in Uninstalls /\ app[a].rec = "uninstalling" /\ Quiet(a)
         /\ job.do # "uninstall" => AllOff(a)
    /\ job.at \in FromUnroute => app[a].box = "absent"
    /\ job.at \in FromRemove => a \notin routes /\ a \notin serve
    /\ job.at \in FromUnsign => /\ app[a].proj # "full"
                                /\ job.do # "uninstall" => app[a].proj = "none"
    /\ job.at \in {"delete", "gone"} => ~app[a].signin
    /\ job.at = "gone" /\ job.do # "uninstall" /\ app[a].data # 0 =>
         approved = 2 /\ FolderOf[approved] # FolderOf[app[a].data]

Here(a) == AtNeeds(a) /\ AtControl(a) /\ AtInstall(a) /\ AtUninstall(a)
PlaceInv == job # NoJob /\ job.at # "begin" => job.of \in Apps /\ Here(job.of)

LifeInv == LifeTypes /\ Good(link) /\ (\A b \in Apps : Placed(b)) /\ QueueInv /\ PlaceInv
-----------------------------------------------------------------------------
(* Connectors: what one operation leaves. *)

\* A registration leaves a sound record, switched on as before.
LEMMA BindSound ==
    ASSUME NEW r, Sane(r), r.files, NEW o \in Bind(r)
    PROVE  /\ Sane(o.is) /\ o.is.on = r.on
           /\ o.end \in {"ok", "bad", "cut"} /\ o.cost \in 0..2
<1> DEFINE Now(st, g) == [r EXCEPT !.st = st, !.gate = g]
<1>1. \A st \in LinkStates, g \in {"none", "active", "inactive"} :
         Sane(Now(st, g)) /\ Now(st, g).on = r.on
  BY DEF Sane, Link
<1>2. /\ [r EXCEPT !.st = "live"] = Now("live", r.gate)
      /\ r.gate \in {"none", "active", "inactive"}
      /\ {"live", "incompatible"} \subseteq LinkStates
  BY DEF Sane, Link, LinkStates
<1>3. \/ o = Out(Now("live", "active"), "ok", 0)
      \/ o = Out(Now("live", r.gate), "cut", 1)
      \/ \E g \in {r.gate, "active"} : o = Out(Now("incompatible", g), "bad", 1)
  BY <1>2 DEF Bind
<1> HIDE DEF Now
<1>4. QED
  BY <1>1, <1>2, <1>3 DEF Out

\* So does a start with its questions and the registration.
LEMMA ConnectSound ==
    ASSUME NEW r, Sane(r), r.files, NEW o \in Connect(r)
    PROVE  /\ Sane(o.is) /\ o.is.on = r.on
           /\ o.end \in {"ok", "bad", "cut"} /\ o.cost \in 0..2
<1> DEFINE fails == [r EXCEPT !.st = "failed"]
           falls == [r EXCEPT !.st = "degraded", !.up = TRUE]
<1>0. Sane(fails) /\ fails.on = r.on /\ Sane(falls) /\ falls.on = r.on
  BY DEF Sane, Link, LinkStates
<1> HIDE DEF fails, falls
<1>1. CASE o = Out(fails, "bad", 1)
  BY <1>0, <1>1 DEF Out
<1>2. CASE o = Out(falls, "bad", 1)
  BY <1>0, <1>2 DEF Out
<1>3. CASE o \in Bind([r EXCEPT !.up = TRUE])
  <2> DEFINE s == [r EXCEPT !.up = TRUE]
  <2>1. Sane(s) /\ s.files /\ s.on = r.on
    BY DEF Sane, Link
  <2>2. QED
    BY <1>3, <2>1, BindSound
<1>4. QED
  BY <1>1, <1>2, <1>3 DEF Connect, fails, falls

\* A connector that waits for its credential.
LEMMA WaitsSound ==
    ASSUME NEW r, Sane(r), NEW end \in {"ok", "bad"}, NEW o \in Waits(r, end)
    PROVE  /\ Sane(o.is) /\ o.is.on = r.on
           /\ o.end \in {"ok", "bad", "cut"} /\ o.cost \in 0..2
<1> DEFINE now == [r EXCEPT !.st = "authentication_required"]
<1>1. Sane(now) /\ now.on = r.on
  BY DEF Sane, Link, LinkStates
<1>2. o = Out(now, end, 1)
  BY DEF Waits
<1> HIDE DEF now
<1>3. QED
  BY <1>1, <1>2 DEF Out

\* A halt that went well leaves the connector quiet.
LEMMA HaltSound ==
    ASSUME NEW r, Sane(r), NEW o \in Halt(r)
    PROVE  /\ Sane(o.is) /\ o.is.on = r.on
           /\ o.end \in {"ok", "bad"} /\ o.cost \in 0..2
           /\ o.end = "ok" => Idle(o.is) \/ ~o.is.up
<1>1. CASE Idle(r)
  BY <1>1 DEF Halt, Out, Sane
<1>2. CASE ~Idle(r)
  <2> DEFINE down == [r EXCEPT !.st = "stopped", !.up = FALSE]
             stays == [r EXCEPT !.st = "failed"]
  <2>1. /\ Sane(down) /\ down.on = r.on /\ ~down.up
        /\ Sane(stays) /\ stays.on = r.on
    BY DEF Sane, Link, LinkStates
  <2>2. /\ Sane(Off(down)) /\ Off(down).on = r.on /\ ~Off(down).up
        /\ Sane(Off(stays)) /\ Off(stays).on = r.on
    BY <2>1 DEF Off, Sane, Link
  <2>3. o \in {Out(Off(down), "ok", 0), Out(down, "ok", 1),
              Out(Off(stays), "bad", 1), Out(stays, "bad", 2)}
    BY <1>2 DEF Halt
  <2> HIDE DEF down, stays
  <2>4. QED
    BY <2>1, <2>2, <2>3 DEF Out
<1>3. QED
  BY <1>1, <1>2

\* One connector follows its app: it stays switched on as it was.
LEMMA FollowedSound ==
    ASSUME NEW r, Sane(r), NEW running \in BOOLEAN, NEW o \in Followed(r, running)
    PROVE  /\ Sane(o.is) /\ o.is.on = r.on
           /\ o.end \in {"ok", "bad", "cut"} /\ o.cost \in 0..2
           /\ ~running => o.end # "cut"
           /\ ~running /\ o.end = "ok" => Idle(o.is) \/ ~o.is.up
<1> DEFINE there == [r EXCEPT !.files = TRUE]
<1>1. Sane(there) /\ there.on = r.on /\ there.files
  BY DEF Sane, Link
<1>2. CASE ~r.files /\ o = Out([r EXCEPT !.st = "failed"], IF running THEN "bad" ELSE "ok", 1)
  BY <1>2 DEF Out, Sane, Link, LinkStates
<1>3. CASE ~running /\ o \in Halt(there)
  <2> HIDE DEF there
  <2>1. QED
    BY <1>1, <1>3, HaltSound
<1>4. CASE running /\ o \in Waits(there, "ok")
  <2> HIDE DEF there
  <2>1. QED
    BY <1>1, <1>4, WaitsSound
<1>5. CASE running /\ o \in Connect([there EXCEPT !.key = TRUE])
  <2> DEFINE keyed == [there EXCEPT !.key = TRUE]
  <2>1. Sane(keyed) /\ keyed.on = r.on /\ keyed.files
    BY <1>1 DEF Sane, Link
  <2> HIDE DEF keyed
  <2>2. QED
    BY <1>5, <2>1, ConnectSound DEF keyed
<1>6. QED
  BY <1>2, <1>3, <1>4, <1>5 DEF Followed

\* What an app's connectors come to when they follow it.
LEMMA FollowingsSound ==
    ASSUME NEW l \in [Conns -> Link], \A c \in Conns : Sane(l[c]),
           NEW a, NEW running \in BOOLEAN, NEW o \in Followings(l, a, running)
    PROVE  /\ o.is \in [Conns -> Link] /\ o.cost \in Nat
           /\ \A c \in Conns : Sane(o.is[c]) /\ o.is[c].on = l[c].on
           /\ ~running => o.end \in {"ok", "bad"}
           /\ ~running /\ o.end = "ok" =>
                \A c \in Enabled(l, a) : Idle(o.is[c]) \/ ~o.is[c].up
<1> DEFINE on == Enabled(l, a)
           Picks == {p \in [on -> UNION {Followed(l[c], running) : c \in on}] :
                        \A c \in on : p[c] \in Followed(l[c], running)}
           spread(p) == {u \in on \X (1..2) : u[2] <= p[u[1]].cost}
<1>1. on \subseteq Conns
  BY DEF Enabled
<1>2. PICK p \in Picks :
        o = Out([c \in Conns |-> IF c \in on THEN p[c].is ELSE l[c]],
                Worst({p[c].end : c \in on}), Cardinality(spread(p)))
  BY DEF Followings
<1>3. \A c \in on : p[c] \in Followed(l[c], running)
  OBVIOUS
<1>4. Cardinality(spread(p)) \in Nat
  <2>1. IsFiniteSet(on) /\ IsFiniteSet(1..2)
    BY <1>1, ConnectorsAssumption, FS_Subset, FS_Interval
  <2>2. IsFiniteSet(on \X (1..2))
    BY <2>1, FS_Product
  <2>3. IsFiniteSet(spread(p))
    BY <2>2, FS_Subset
  <2>4. QED
    BY <2>3, FS_CardinalityType
<1>5. /\ o.is = [c \in Conns |-> IF c \in on THEN p[c].is ELSE l[c]]
      /\ o.end = Worst({p[c].end : c \in on})
      /\ o.cost = Cardinality(spread(p))
  BY <1>2 DEF Out
<1> HIDE DEF on, Picks, spread
<1>6. ASSUME NEW c \in Conns
      PROVE  /\ Sane(o.is[c]) /\ o.is[c].on = l[c].on
             /\ ~running /\ o.end = "ok" /\ c \in on => Idle(o.is[c]) \/ ~o.is[c].up
  <2>1. CASE c \in on
    <3>1. o.is[c] = p[c].is
      BY <1>5, <2>1
    <3>2. p[c] \in Followed(l[c], running)
      BY <1>3, <2>1
    <3>3. /\ Sane(p[c].is) /\ p[c].is.on = l[c].on
          /\ p[c].end \in {"ok", "bad", "cut"}
          /\ ~running /\ p[c].end = "ok" => Idle(p[c].is) \/ ~p[c].is.up
      BY <3>2, FollowedSound
    <3>4. o.end = "ok" => p[c].end = "ok"
      BY <1>5, <2>1, <3>3 DEF Worst
    <3>5. QED
      BY <3>1, <3>3, <3>4
  <2>2. CASE c \notin on
    BY <1>5, <2>2
  <2>3. QED
    BY <2>1, <2>2
<1>9. ~running => o.end \in {"ok", "bad"}
  <2>1. ASSUME ~running
        PROVE  "cut" \notin {p[c].end : c \in on}
    BY <1>1, <1>3, <2>1, FollowedSound
  <2>2. QED
    BY <1>5, <2>1 DEF Worst
<1>7. o.is \in [Conns -> Link]
  <2>1. \A c \in Conns : o.is[c] \in Link
    BY <1>6 DEF Sane
  <2>2. QED
    BY <1>5, <2>1
<1>8. QED
  BY <1>1, <1>4, <1>5, <1>6, <1>7, <1>9 DEF on

\* Records of other connectors, switched on only where they were before.
LEMMA FewerOn ==
    ASSUME NEW l, Good(l), NEW m, m \in [Conns -> Link],
           \A c \in Conns : Sane(m[c]) /\ (m[c].on = "on" => l[c].on = "on")
    PROVE  Good(m)
BY DEF Good

\* One connector's record, put where no other one of the app is switched on.
LEMMA PutSound ==
    ASSUME NEW l, Good(l), NEW c \in Conns, NEW r, Sane(r),
           Siblings(l, c) = {} \/ (r.on = "on" => l[c].on = "on")
    PROVE  Good([l EXCEPT ![c] = r])
<1> DEFINE m == [l EXCEPT ![c] = r]
<1>1. m \in [Conns -> Link] /\ m[c] = r /\ \A d \in Conns \ {c} : m[d] = l[d]
  BY DEF Good, Sane
<1>2. \A d \in Conns : Sane(m[d])
  BY <1>1 DEF Good
<1>3. CASE r.on = "on" => l[c].on = "on"
  <2>1. \A d \in Conns : m[d].on = "on" => l[d].on = "on"
    BY <1>1, <1>3
  <2> HIDE DEF m
  <2>2. QED
    BY <1>1, <1>2, <2>1, FewerOn DEF m
<1>4. CASE Siblings(l, c) = {}
  <2>1. \A d \in Conns \ {c} : AppOf[d] = AppOf[c] => m[d].on # "on"
    BY <1>1, <1>4 DEF Siblings, Enabled
  <2> HIDE DEF m
  <2>2. QED
    BY <1>1, <1>2, <2>1 DEF Good, m
<1>5. QED
  BY <1>3, <1>4

\* Every connector of an app follows it.
LEMMA FollowSound ==
    ASSUME NEW l, Good(l), trouble \in 0..MaxMishaps, NEW a, NEW running \in BOOLEAN,
           NEW end, Follow(l, a, running, end)
    PROVE  /\ Good(link') /\ trouble' \in 0..MaxMishaps
           /\ ~running /\ end = "ok" => Quiet(a)'
<1>1. PICK o \in Followings(l, a, running) : o.end = end /\ Become(o.is, o.cost)
  BY DEF Follow
<1>2. /\ o.is \in [Conns -> Link] /\ o.cost \in Nat
      /\ \A c \in Conns : Sane(o.is[c]) /\ o.is[c].on = l[c].on
      /\ ~running /\ o.end = "ok" =>
           \A c \in Enabled(l, a) : Idle(o.is[c]) \/ ~o.is[c].up
  BY FollowingsSound DEF Good
<1>3. Good(o.is)
  BY <1>2, FewerOn
<1>4. /\ link' = o.is
      /\ trouble' \in 0..MaxMishaps
  BY <1>1, <1>2, ConnectorsAssumption DEF Become
<1>5. Enabled(l, a) = Enabled(link, a)'
  BY <1>2, <1>4 DEF Enabled
<1>6. QED
  BY <1>1, <1>2, <1>3, <1>4, <1>5 DEF Quiet

\* The preferred connector is switched on only where none has a record.
LEMMA PreenabledSound ==
    ASSUME NEW l, Good(l), NEW a
    PROVE  Good(Preenabled(l, a))
<1>1. CASE \E c \in Conns : AppOf[c] = a /\ l[c].on # "never"
  BY <1>1 DEF Preenabled
<1>2. CASE ~\E c \in Conns : AppOf[c] = a /\ l[c].on # "never"
  <2> DEFINE m == [c \in Conns |-> IF AppOf[c] = a /\ c \in Preferred
                     THEN [l[c] EXCEPT !.files = TRUE, !.on = "on", !.st = "prepared"] ELSE l[c]]
  <2>1. Preenabled(l, a) = m
    BY <1>2 DEF Preenabled
  <2>2. ASSUME NEW c \in Conns
        PROVE  /\ Sane(m[c])
               /\ m[c].on = "on" => l[c].on = "on" \/ (AppOf[c] = a /\ c \in Preferred)
    <3>1. Sane(l[c])
      BY DEF Good
    <3>2. Sane([l[c] EXCEPT !.files = TRUE, !.on = "on", !.st = "prepared"])
      BY <3>1 DEF Sane, Link, LinkStates
    <3>9. /\ AppOf[c] = a /\ c \in Preferred =>
                m[c] = [l[c] EXCEPT !.files = TRUE, !.on = "on", !.st = "prepared"]
          /\ ~(AppOf[c] = a /\ c \in Preferred) => m[c] = l[c]
      OBVIOUS
    <3> HIDE DEF m
    <3>3. CASE AppOf[c] = a /\ c \in Preferred
      BY <3>2, <3>3, <3>9
    <3>4. CASE ~(AppOf[c] = a /\ c \in Preferred)
      BY <3>1, <3>4, <3>9
    <3>5. QED
      BY <3>3, <3>4
  <2>3. m \in [Conns -> Link]
    BY <2>2 DEF Sane
  <2>4. ASSUME NEW c \in Conns, NEW d \in Conns, m[c].on = "on", m[d].on = "on", AppOf[c] = AppOf[d]
        PROVE  c = d
    <3> HIDE DEF m
    <3>1. CASE AppOf[c] = a
      <4>1. l[c].on = "never" /\ l[d].on = "never"
        BY <1>2, <2>4, <3>1
      <4>2. QED
        BY <2>2, <2>4, <4>1, ConnectorsAssumption
    <3>2. CASE AppOf[c] # a
      BY <2>2, <2>4, <3>2 DEF Good
    <3>3. QED
      BY <3>1, <3>2
  <2> HIDE DEF m
  <2>5. QED
    BY <2>1, <2>2, <2>3, <2>4 DEF Good
<1>3. QED
  BY <1>1, <1>2

\* The connectors of an app whose data goes are all off.
LEMMA ForgottenSound ==
    ASSUME NEW l, Good(l), NEW a
    PROVE  /\ Good(Forgotten(l, a))
           /\ \A c \in Conns : AppOf[c] = a => Forgotten(l, a)[c].on # "on"
<1>1. ASSUME NEW c \in Conns
      PROVE  /\ Sane(Forgotten(l, a)[c])
             /\ Forgotten(l, a)[c].on = "on" => l[c].on = "on" /\ AppOf[c] # a
  <2>1. Sane(l[c])
    BY DEF Good
  <2>2. /\ Sane([l[c] EXCEPT !.key = FALSE]) /\ [l[c] EXCEPT !.key = FALSE].on = l[c].on
        /\ Sane([l[c] EXCEPT !.key = FALSE, !.on = "off", !.st = "disabled"])
        /\ [l[c] EXCEPT !.key = FALSE, !.on = "off", !.st = "disabled"].on = "off"
    BY <2>1 DEF Sane, Link, LinkStates
  <2>3. QED
    BY <2>1, <2>2 DEF Forgotten
<1>2. Forgotten(l, a) \in [Conns -> Link]
  BY <1>1 DEF Forgotten, Sane
<1>3. QED
  BY <1>1, <1>2, FewerOn

-----------------------------------------------------------------------------
(* One job on one connector. *)

\* The files are copied.
LEMMA PrepareSound ==
    ASSUME NEW r, Sane(r), NEW o \in Prepare(r)
    PROVE  Sane(o.is) /\ o.end \in {"ok", "bad", "cut"} /\ o.cost \in 0..2
<1> DEFINE now == [r EXCEPT !.files = TRUE, !.on = "on", !.st = "prepared"]
<1>1. Sane(now)
  BY DEF Sane, Link, LinkStates
<1>2. o = Out(now, "ok", 0) \/ o = Out(r, "bad", 1)
  BY DEF Prepare
<1> HIDE DEF now
<1>3. QED
  BY <1>1, <1>2 DEF Out

\* Switching the gateway off changes nothing else.
LEMMA OffSound ==
    ASSUME NEW r, Sane(r)
    PROVE  Sane(Off(r)) /\ Off(r).on = r.on /\ Off(r).key = r.key
BY DEF Off, Sane, Link

\* A connector switched off.
LEMMA SwitchedOffSound ==
    ASSUME NEW r, Sane(r)
    PROVE  /\ Sane(SwitchedOff(r)) /\ SwitchedOff(r).on = "off"
           /\ Sane(Off(SwitchedOff(r))) /\ Off(SwitchedOff(r)).on = "off"
<1>1. Sane(SwitchedOff(r)) /\ SwitchedOff(r).on = "off"
  BY DEF SwitchedOff, Sane, Link, LinkStates
<1>2. QED
  BY <1>1, OffSound

\* A disabling switches nothing on.
LEMMA DisableSound ==
    ASSUME NEW r, Sane(r), NEW o \in Disable(r)
    PROVE  /\ Sane(o.is) /\ o.end \in {"ok", "bad", "cut"} /\ o.cost \in 0..2
           /\ o.is.on \in {r.on, "off"}
<1>1. CASE o = Out(r, "bad", 1)
  BY <1>1 DEF Out
<1>2. CASE o = Out(SwitchedOff(r), "bad", 1)
  BY <1>2, SwitchedOffSound DEF Out
<1>3. CASE \E k \in {FALSE, r.key} : o = Out([Off(SwitchedOff(r)) EXCEPT !.key = k], "ok", 0)
  <2>1. PICK k \in {FALSE, r.key} : o = Out([Off(SwitchedOff(r)) EXCEPT !.key = k], "ok", 0)
    BY <1>3
  <2> DEFINE off == Off(SwitchedOff(r))
             now == [off EXCEPT !.key = k]
  <2>2. k \in BOOLEAN
    BY DEF Sane, Link
  <2>3. Sane(off) /\ off.on = "off"
    BY SwitchedOffSound
  <2> HIDE DEF off
  <2>4. Sane(now) /\ now.on = "off"
    BY <2>2, <2>3 DEF Sane, Link
  <2>5. o = Out(now, "ok", 0)
    BY <2>1 DEF off
  <2> HIDE DEF now
  <2>6. QED
    BY <2>4, <2>5 DEF Out
<1>4. QED
  BY <1>1, <1>2, <1>3 DEF Disable

\* An update, also one that puts the previous files back.
LEMMA UpdateSound ==
    ASSUME NEW r, Sane(r), NEW o \in Update(r)
    PROVE  Sane(o.is) /\ o.end \in {"ok", "bad", "cut"} /\ o.cost \in 0..2
<1> DEFINE up == [r EXCEPT !.on = "on", !.up = TRUE]
           back(g) == [r EXCEPT !.on = "on", !.st = "live", !.up = TRUE, !.gate = g]
           fails == [r EXCEPT !.on = "on", !.st = "failed"]
<1>1. CASE ~r.files
  BY <1>1 DEF Update, Out
<1>2. CASE r.files
  <2>1. Sane(up) /\ up.files /\ Sane(fails)
    BY <1>2 DEF Sane, Link, LinkStates
  <2>2. \A g \in {r.gate, "active"} : Sane(back(g))
    BY <1>2 DEF Sane, Link, LinkStates
  <2>3. \/ o \in Bind(up)
        \/ \E g \in {r.gate, "active"} : o = Out(back(g), "bad", 1)
        \/ o = Out(fails, "bad", 2)
    BY <1>2 DEF Update
  <2> HIDE DEF up, back, fails
  <2>4. QED
    BY <2>1, <2>2, <2>3, BindSound DEF Out
<1>3. QED
  BY <1>1, <1>2

\* Enabling, installing, restarting and switching.
LEMMA EnableSound ==
    ASSUME NEW r, Sane(r), NEW o \in Enable(r)
    PROVE  Sane(o.is) /\ o.end \in {"ok", "bad", "cut"} /\ o.cost \in 0..2
<1> DEFINE on == [r EXCEPT !.on = "on"]
           there == [on EXCEPT !.key = TRUE, !.files = TRUE]
<1>1. Sane(on)
  BY DEF Sane, Link
<1>2. Sane(there) /\ there.files
  BY DEF Sane, Link
<1>3. o = Out(r, "bad", 1) \/ o \in Waits(on, "bad") \/ o \in Connect(there)
  BY DEF Enable
<1> HIDE DEF on, there
<1>4. QED
  BY <1>1, <1>2, <1>3, WaitsSound, ConnectSound DEF Out

\* A switch turns the others off first, or fails half-way.
LEMMA ClearedSound ==
    ASSUME NEW l, Good(l), NEW c \in Conns, NEW m \in {Cleared(l, c)} \cup HalfCleared(l, c)
    PROVE  /\ Good(m) /\ m[c] = l[c]
           /\ m = Cleared(l, c) => Siblings(m, c) = {}
<1>1. \A s \in Conns : /\ Sane(l[s]) /\ Sane(SwitchedOff(l[s])) /\ SwitchedOff(l[s]).on = "off"
                       /\ Sane(Off(SwitchedOff(l[s]))) /\ Off(SwitchedOff(l[s])).on = "off"
  BY SwitchedOffSound DEF Good
<1>2. CASE m = l /\ m # Cleared(l, c)
  BY <1>2
<1>3. CASE m = [s \in Conns |-> IF s \in Siblings(l, c) THEN SwitchedOff(l[s]) ELSE l[s]]
  <2>1. \A s \in Conns : m[s] \in {l[s], SwitchedOff(l[s])}
    BY <1>3
  <2>2. m[c] = l[c]
    BY <1>3 DEF Siblings
  <2>3. m \in [Conns -> Link]
    BY <1>1, <1>3 DEF Sane
  <2>4. Good(m)
    BY <1>1, <2>1, <2>3, FewerOn
  <2>5. Siblings(m, c) = {}
    BY <1>1, <1>3 DEF Siblings, Enabled
  <2>6. QED
    BY <2>2, <2>4, <2>5
<1>4. CASE m = Cleared(l, c)
  <2>1. \A s \in Conns : m[s] \in {l[s], Off(SwitchedOff(l[s]))}
    BY <1>4 DEF Cleared
  <2>2. m[c] = l[c]
    BY <1>4 DEF Cleared, Siblings
  <2>3. m \in [Conns -> Link]
    BY <1>1, <1>4 DEF Sane, Cleared
  <2>4. Good(m)
    BY <1>1, <2>1, <2>3, FewerOn
  <2>5. Siblings(m, c) = {}
    BY <1>1, <1>4 DEF Siblings, Enabled, Cleared
  <2>6. QED
    BY <2>2, <2>4, <2>5
<1>5. QED
  BY <1>2, <1>3, <1>4 DEF HalfCleared

\* A job on a connector leaves at most one of an app switched on.
LEMMA ExecuteSound ==
    ASSUME Good(link), trouble \in 0..MaxMishaps, NEW c \in Conns, NEW do,
           NEW running, NEW installed, NEW end, Execute(c, do, running, installed, end)
    PROVE  Good(link') /\ trouble' \in 0..MaxMishaps
<1>1. CASE UNCHANGED <<link, trouble>>
  BY <1>1
<1>2. CASE /\ do = "switch" /\ trouble < MaxMishaps
           /\ link' \in HalfCleared(link, c) /\ trouble' = trouble + 1
  BY <1>2, ClearedSound, ConnectorsAssumption
<1>3. CASE /\ ~Refused(c, do)
           /\ LET base == IF do = "switch" THEN Cleared(link, c) ELSE link
              IN \E o \in Results(base, c, do) : Become([base EXCEPT ![c] = o.is], o.cost)
  <2> DEFINE base == IF do = "switch" THEN Cleared(link, c) ELSE link
  <2>1. PICK o \in Results(base, c, do) : Become([base EXCEPT ![c] = o.is], o.cost)
    BY <1>3
  <2>2. Good(base) /\ base[c] = link[c]
    BY ClearedSound
  <2>3. Siblings(base, c) = {} \/ do = "disable"
    BY <1>3, ClearedSound DEF Refused
  <2> HIDE DEF base
  <2>4. Sane(base[c])
    BY <2>2 DEF Good
  <2>5. /\ Sane(o.is) /\ o.cost \in 0..2
        /\ do = "disable" => o.is.on \in {base[c].on, "off"}
    BY <2>1, <2>4, PrepareSound, DisableSound, UpdateSound, EnableSound DEF Results
  <2>6. Good([base EXCEPT ![c] = o.is])
    BY <2>2, <2>3, <2>5, PutSound
  <2>7. QED
    BY <2>1, <2>5, <2>6, ConnectorsAssumption DEF Become
<1>4. QED
  BY <1>1, <1>2, <1>3 DEF Execute

\* A credential entered, a container that stops by itself.
LEMMA SlightSound ==
    ASSUME Good(link), trouble \in 0..MaxMishaps, NEW c \in Conns, PutKey(c) \/ ConnDies(c)
    PROVE  /\ Good(link') /\ trouble' \in 0..MaxMishaps
           /\ \A a \in Apps : (Quiet(a) => Quiet(a)') /\ (AllOff(a) => AllOff(a)')
<1>1. Sane(link[c]) /\ link \in [Conns -> Link]
  BY DEF Good
<1> DEFINE keyed == [link[c] EXCEPT !.key = TRUE]
           dead == [link[c] EXCEPT !.up = FALSE]
<1>0. /\ Sane(keyed) /\ keyed.on = link[c].on /\ keyed.st = link[c].st /\ keyed.up = link[c].up
      /\ Sane(dead) /\ dead.on = link[c].on /\ dead.st = link[c].st /\ ~dead.up
  BY <1>1 DEF Sane, Link
<1>a. link' = [link EXCEPT ![c] = keyed] \/ link' = [link EXCEPT ![c] = dead]
  BY <1>1 DEF PutKey, ConnDies, Sane
<1> HIDE DEF keyed, dead
<1>2. PICK now \in {keyed, dead} : link' = [link EXCEPT ![c] = now]
  BY <1>a
<1>3. Good(link')
  BY <1>0, <1>2, PutSound
<1>4. trouble' \in 0..MaxMishaps
  BY ConnectorsAssumption DEF PutKey, ConnDies
<1>5. ASSUME NEW d \in Conns
      PROVE  /\ link'[d].on = link[d].on /\ link'[d].st = link[d].st
             /\ link'[d].up => link[d].up
  <2>1. CASE d = c
    <3>1. link'[d] = now
      BY <1>1, <1>2, <2>1
    <3>2. QED
      BY <1>0, <1>2, <2>1, <3>1
  <2>2. CASE d # c
    BY <1>1, <1>2, <2>2
  <2>3. QED
    BY <2>1, <2>2
<1>6. \A a \in Apps : Quiet(a) => Quiet(a)'
  <2>1. ASSUME NEW a \in Apps, Quiet(a), NEW d \in Enabled(link', a)
        PROVE  Idle(link'[d]) \/ ~link'[d].up
    <3>1. d \in Conns /\ d \in Enabled(link, a)
      BY <1>5 DEF Enabled
    <3>2. Idle(link[d]) \/ ~link[d].up
      BY <2>1, <3>1 DEF Quiet
    <3>3. QED
      BY <1>5, <3>1, <3>2 DEF Idle
  <2>2. QED
    BY <2>1 DEF Quiet
<1>7. \A a \in Apps : AllOff(a) => AllOff(a)'
  BY <1>5 DEF AllOff
<1>8. QED
  BY <1>3, <1>4, <1>6, <1>7
-----------------------------------------------------------------------------
(* What a step of a job leaves. *)

\* NoJob is no job.
LEMMA NoJobApart == NoJob \notin Job
<1>1. \A j \in Job : j.do \in AppActions \cup ConnActions
  BY DEF Job
<1>2. NoJob.do = "none" /\ "none" \notin AppActions \cup ConnActions
  BY DEF NoJob, AppActions, ConnActions, Installs, Uninstalls
<1>3. QED
  BY <1>1, <1>2

\* The job at work, when there is one.
LEMMA JobFields ==
    ASSUME LifeInv, job # NoJob
    PROVE  /\ job \in Job /\ job.of \in Apps \cup Conns /\ job.do \in AppActions \cup ConnActions
           /\ job.batch \in BOOLEAN /\ job.setup \in BOOLEAN /\ job.at \in Places
BY DEF LifeInv, LifeTypes, Job

\* What the invariant says of one app.
LEMMA AppFields ==
    ASSUME LifeInv, NEW b \in Apps
    PROVE  /\ app \in [Apps -> App] /\ app[b] \in App /\ Fits(app[b], b) /\ Entered(app[b])
           /\ app[b].rec \in Records /\ app[b].box \in {"absent", "stopped", "running", "broken"}
           /\ app[b].proj \in {"none", "kept", "full"}
           /\ app[b].pin \in {0} \cup Releases /\ app[b].data \in {0} \cup Releases
           /\ app[b].since \in BOOLEAN /\ app[b].boot \in BOOLEAN
           /\ app[b].signin \in BOOLEAN /\ app[b].dropped \in BOOLEAN
BY DEF LifeInv, LifeTypes, Placed, App

\* A step of the worker on one app, whose files, addresses and record fit.
LEMMA AppKeeps ==
    ASSUME LifeInv, NEW a \in Apps, NEW now \in App, app' = [app EXCEPT ![a] = now],
           Fits(now, a), Entered(now), Aside,
           \A b \in (routes' \cup serve') \ (routes \cup serve) :
              b \in Apps /\ app[b].proj = "full" /\ (b = a => now.proj = "full"),
           Good(link'), trouble' \in 0..MaxMishaps,
           last' \in {"none", "succeeded", "failed", "cancelled"},
           job' = NoJob \/ job' \in Job, PlaceInv'
    PROVE  LifeInv'
<1>1. app' \in [Apps -> App] /\ app'[a] = now /\ \A b \in Apps \ {a} : app'[b] = app[b]
  BY DEF LifeInv, LifeTypes
<1>2. /\ approved' = approved /\ chosen' = chosen /\ queue' = queue /\ asks' = asks
  BY DEF Aside
<1>3. routes' \subseteq Apps /\ serve' \subseteq Apps
  BY DEF LifeInv, LifeTypes
<1>4. LifeTypes'
  BY <1>1, <1>2, <1>3 DEF LifeInv, LifeTypes, Good
<1>5. \A b \in Apps : Placed(b)'
  <2>1. ASSUME NEW b \in Apps, b # a
        PROVE  Placed(b)'
    BY <1>1, <1>2, <2>1 DEF LifeInv, Placed, Fits, Entered
  <2>2. Placed(a)'
    BY <1>1, <1>2 DEF Placed, Fits, Entered
  <2>3. QED
    BY <2>1, <2>2
<1>6. QueueInv'
  BY <1>2 DEF LifeInv, QueueInv
<1>7. QED
  BY <1>4, <1>5, <1>6 DEF LifeInv

\* The same for a job that has ended, begins again or is at its next place.
LEMMA RoutedKeeps ==
    ASSUME LifeInv, NEW a \in Apps, NEW now \in App, app' = [app EXCEPT ![a] = now],
           Fits(now, a), Entered(now), Aside,
           \A b \in (routes' \cup serve') \ (routes \cup serve) :
              b \in Apps /\ app[b].proj = "full" /\ (b = a => now.proj = "full"),
           Good(link'), trouble' \in 0..MaxMishaps,
           last' \in {"none", "succeeded", "failed", "cancelled"},
           \/ job' = NoJob
           \/ job' \in Job /\ job'.of = a /\ (job'.at = "begin" \/ Here(a)')
    PROVE  LifeInv'
<1>1. PlaceInv' /\ (job' = NoJob \/ job' \in Job)
  BY DEF PlaceInv
<1>2. QED
  BY <1>1, AppKeeps

\* The same when no address changes.
LEMMA WorkKeeps ==
    ASSUME LifeInv, NEW a \in Apps, NEW now \in App, app' = [app EXCEPT ![a] = now],
           Fits(now, a), Entered(now), NoRoutes, Aside,
           Good(link'), trouble' \in 0..MaxMishaps,
           last' \in {"none", "succeeded", "failed", "cancelled"},
           \/ job' = NoJob
           \/ job' \in Job /\ job'.of = a /\ (job'.at = "begin" \/ Here(a)')
    PROVE  LifeInv'
<1>1. \A b \in (routes' \cup serve') \ (routes \cup serve) :
         b \in Apps /\ app[b].proj = "full" /\ (b = a => now.proj = "full")
  BY DEF NoRoutes
<1>2. QED
  BY <1>1, RoutedKeeps

\* The job ends with the app as given, recorded as failed.
LEMMA FailingKeeps ==
    ASSUME LifeInv, NEW a \in Apps, NEW now \in App, Failing(a, now), Fits(now, a),
           NoRoutes, Aside, Good(link'), trouble' \in 0..MaxMishaps
    PROVE  LifeInv'
<1> DEFINE new == [now EXCEPT !.rec = "failed"]
<1>1. new \in App /\ Fits(new, a) /\ Entered(new)
  BY DEF App, Records, Fits, Entered
<1>2. app' = [app EXCEPT ![a] = new] /\ job' = NoJob /\ last' = "failed"
  BY DEF Failing, Ends
<1> HIDE DEF new
<1>3. QED
  BY <1>1, <1>2, WorkKeeps

\* What goes wrong stays within the bound.
LEMMA CostsSound ==
    ASSUME LifeInv, NEW n \in Nat, Costs(n)
    PROVE  trouble' \in 0..MaxMishaps
BY ConnectorsAssumption DEF LifeInv, LifeTypes, Costs

\* A step that fails leaves the app in one of the states given.
LEMMA FallsKeeps ==
    ASSUME LifeInv, NEW a \in Apps, NEW at, NEW left, left \subseteq App, Falls(a, at, left),
           \A now \in left : Fits(now, a), NoTools, NoRoutes, Aside
    PROVE  LifeInv'
<1>1. PICK now \in left : Failing(a, now)
  BY DEF Falls
<1>2. trouble' \in 0..MaxMishaps
  BY CostsSound DEF Falls
<1>3. Good(link')
  BY DEF NoTools, LifeInv
<1>4. QED
  BY <1>1, <1>2, <1>3, FailingKeeps

\* The job goes on at the next place, with the app as given.
LEMMA GoesSound ==
    ASSUME LifeInv, job # NoJob, NEW at \in Places, GoesTo(at)
    PROVE  /\ job' \in Job /\ job'.of = job.of /\ job'.do = job.do /\ job'.batch = job.batch
           /\ job'.setup = job.setup /\ job'.at = at
           /\ last' \in {"none", "succeeded", "failed", "cancelled"}
BY JobFields DEF GoesTo, Job, LifeInv, LifeTypes

\* A step that succeeds, when its next place holds.
LEMMA WorkStepKeeps ==
    ASSUME LifeInv, NEW a \in Apps, NEW at, NEW now \in App, NEW next \in Places,
           job.of = a, Step(a, at, now, next), Fits(now, a), Entered(now), Here(a)',
           NoTools, NoRoutes, Aside
    PROVE  LifeInv'
<1>1. /\ job # NoJob /\ GoesTo(next) /\ app' = [app EXCEPT ![a] = now]
      /\ trouble' = trouble
  BY DEF Step, JobAt
<1>2. Good(link') /\ trouble' \in 0..MaxMishaps
  BY <1>1 DEF NoTools, LifeInv, LifeTypes
<1>3. job' \in Job /\ job'.of = a /\ last' \in {"none", "succeeded", "failed", "cancelled"}
  BY <1>1, GoesSound
<1>4. QED
  BY <1>1, <1>2, <1>3, WorkKeeps
-----------------------------------------------------------------------------
(* The steps of a job that only move it on, or fail. *)

\* The parts of the state that a step with tools, routes and the rest aside keeps.
Same == \A a \in Apps : /\ Quiet(a)' = Quiet(a) /\ AllOff(a)' = AllOff(a)
                       /\ (a \in routes)' = (a \in routes) /\ (a \in serve)' = (a \in serve)
                       /\ approved' = approved

\* What is pinned is a release, no newer than the approved one.
LEMMA PinnedSound ==
    ASSUME LifeInv, NEW a \in Apps
    PROVE  /\ Pinned(app[a]) \in {0} \cup Releases /\ Pinned(app[a]) <= approved
           /\ app[a].pin # 0 => Pinned(app[a]) = app[a].pin
BY AppFields DEF Pinned, Fits, Releases, LifeInv, LifeTypes

\* The place of the job holds now.
LEMMA HereNow ==
    ASSUME LifeInv, NEW at, at # "begin", JobAt(at)
    PROVE  Here(job.of)
BY DEF LifeInv, PlaceInv, JobAt

\* What a step changes of the job and the app.
LEMMA StepFields ==
    ASSUME LifeInv, NEW a \in Apps, NEW at, NEW now, NEW next \in Places,
           job.of = a, Step(a, at, now, next), NoTools, NoRoutes, Aside
    PROVE  /\ job'.of = a /\ job'.do = job.do /\ job'.batch = job.batch /\ job'.setup = job.setup
           /\ job'.at = next /\ app'[a] = now /\ Same
<1>1. /\ job'.of = a /\ job'.do = job.do /\ job'.batch = job.batch /\ job'.setup = job.setup
      /\ job'.at = next
  BY GoesSound DEF Step, JobAt
<1>2. app'[a] = now
  BY AppFields DEF Step
<1>3. Same
  BY DEF Same, Quiet, AllOff, Enabled, Idle, NoTools, NoRoutes, Aside
<1>4. QED
  BY <1>1, <1>2, <1>3

\* The record says that the installation has begun.
LEMMA RecordKeeps ==
    ASSUME LifeInv, NEW a \in Apps, job.of = a, Record(a)
    PROVE  LifeInv'
<1>1. JobAt("record") /\ Here(a) /\ NoTools /\ NoRoutes /\ Aside
  BY HereNow DEF Record, Step, Falls
<1> DEFINE now == [app[a] EXCEPT !.rec = "installing"]
           next == "render"
<1>2. next \in Places /\ next = "render"
  BY DEF Places
<1>3. job.at = "record" /\ job.do \in Installs
  BY <1>1 DEF JobAt, Here, AtNeeds, AtControl, AtInstall, AtUninstall, ControlPlaces, FromHalt,
     FromPark, FromConnect, FromSignIn, FromVerify, FromSettle, FromPin, FromRecord, FromUnsign,
     FromRemove, FromUnroute, FromDown
<1>4. /\ now \in App
      /\ now.rec = "installing" /\ now.since = app[a].since /\ now.box = app[a].box
      /\ now.boot = app[a].boot /\ now.proj = app[a].proj /\ now.pin = app[a].pin
      /\ now.data = app[a].data /\ now.signin = app[a].signin
      /\ now.dropped = app[a].dropped
  BY AppFields DEF App, Records
<1> HIDE DEF now, next
<1>5. Fits(now, a) /\ Entered(now)
  BY <1>3, <1>4, AppFields DEF Fits, Entered
<1>6. CASE Step(a, "record", now, next)
  <2>1. /\ job'.of = a /\ job'.do = job.do /\ job'.batch = job.batch /\ job'.setup = job.setup
        /\ job'.at = next /\ app'[a] = now /\ Same
    BY <1>1, <1>2, <1>6, StepFields
  <2>2. Here(a)'
    BY <1>1, <1>2, <1>3, <1>4, <2>1 DEF Same, Here, AtNeeds, AtControl, AtInstall, AtUninstall,
       ControlPlaces, FromHalt, FromPark, FromConnect, FromSignIn, FromVerify, FromSettle,
       FromPin, FromRecord, FromUnsign, FromRemove, FromUnroute, FromDown
  <2>3. QED
    BY <1>1, <1>2, <1>4, <1>5, <1>6, <2>2, WorkStepKeeps
<1>7. CASE Falls(a, "record", {app[a]})
  <2>1. {app[a]} \subseteq App /\ \A x \in {app[a]} : Fits(x, a)
    BY AppFields
  <2>2. QED
    BY <1>1, <1>7, <2>1, FallsKeeps
<1>8. QED
  BY <1>6, <1>7 DEF Record, now, next

\* The release is pinned.
LEMMA PinKeeps ==
    ASSUME LifeInv, NEW a \in Apps, job.of = a, Pin(a)
    PROVE  LifeInv'
<1>1. JobAt("pin") /\ Here(a) /\ NoTools /\ NoRoutes /\ Aside
  BY HereNow DEF Pin, Step, Falls
<1> DEFINE now == [app[a] EXCEPT !.pin = Pinned(app[a]), !.rec = "starting"]
           next == IF Method[a] = "oidc" THEN "oidc" ELSE "up"
<1>2. next \in Places /\ next \in {"oidc", "up"}
  BY DEF Places
<1>3. job.at = "pin" /\ job.do \in Installs /\ app[a].proj = "full"
  BY <1>1 DEF JobAt, Here, AtNeeds, AtControl, AtInstall, AtUninstall, ControlPlaces, FromHalt,
     FromPark, FromConnect, FromSignIn, FromVerify, FromSettle, FromPin, FromRecord, FromUnsign,
     FromRemove, FromUnroute, FromDown
<1>4. /\ now \in App
      /\ now.rec = "starting" /\ now.since = app[a].since /\ now.box = app[a].box
      /\ now.boot = app[a].boot /\ now.proj = app[a].proj /\ now.pin = Pinned(app[a])
      /\ now.data = app[a].data /\ now.signin = app[a].signin
      /\ now.dropped = app[a].dropped
  BY AppFields, PinnedSound DEF App, Records
<1> HIDE DEF now, next
<1>5. Fits(now, a) /\ Entered(now)
  BY <1>3, <1>4, AppFields, PinnedSound DEF Fits, Entered
<1>6. CASE Step(a, "pin", now, next)
  <2>1. /\ job'.of = a /\ job'.do = job.do /\ job'.batch = job.batch /\ job'.setup = job.setup
        /\ job'.at = next /\ app'[a] = now /\ Same
    BY <1>1, <1>2, <1>6, StepFields
  <2>2. Here(a)'
    BY <1>1, <1>2, <1>3, <1>4, <2>1 DEF Same, Here, AtNeeds, AtControl, AtInstall, AtUninstall,
       ControlPlaces, FromHalt, FromPark, FromConnect, FromSignIn, FromVerify, FromSettle,
       FromPin, FromRecord, FromUnsign, FromRemove, FromUnroute, FromDown
  <2>3. QED
    BY <1>1, <1>2, <1>4, <1>5, <1>6, <2>2, WorkStepKeeps
<1>7. CASE Falls(a, "pin", {app[a]})
  <2>1. {app[a]} \subseteq App /\ \A x \in {app[a]} : Fits(x, a)
    BY AppFields
  <2>2. QED
    BY <1>1, <1>7, <2>1, FallsKeeps
<1>8. QED
  BY <1>6, <1>7 DEF Pin, now, next

\* Authentik's side, before the start.
LEMMA OidcKeeps ==
    ASSUME LifeInv, NEW a \in Apps, job.of = a, Oidc(a)
    PROVE  LifeInv'
<1>1. JobAt("oidc") /\ Here(a) /\ NoTools /\ NoRoutes /\ Aside
  BY HereNow DEF Oidc, Step, Falls
<1> DEFINE now == [app[a] EXCEPT !.signin = TRUE]
           next == "up"
<1>2. next \in Places /\ next = "up"
  BY DEF Places
<1>3. job.at = "oidc" /\ job.do \in Installs /\ app[a].proj = "full"
  BY <1>1 DEF JobAt, Here, AtNeeds, AtControl, AtInstall, AtUninstall, ControlPlaces, FromHalt,
     FromPark, FromConnect, FromSignIn, FromVerify, FromSettle, FromPin, FromRecord, FromUnsign,
     FromRemove, FromUnroute, FromDown
<1>4. /\ now \in App
      /\ now.rec = app[a].rec /\ now.since = app[a].since /\ now.box = app[a].box
      /\ now.boot = app[a].boot /\ now.proj = app[a].proj /\ now.pin = app[a].pin
      /\ now.data = app[a].data /\ now.signin = TRUE /\ now.dropped = app[a].dropped
  BY AppFields DEF App, Records
<1> HIDE DEF now, next
<1>5. Fits(now, a) /\ Entered(now)
  BY <1>3, <1>4, AppFields DEF Fits, Entered
<1>6. CASE Step(a, "oidc", now, next)
  <2>1. /\ job'.of = a /\ job'.do = job.do /\ job'.batch = job.batch /\ job'.setup = job.setup
        /\ job'.at = next /\ app'[a] = now /\ Same
    BY <1>1, <1>2, <1>6, StepFields
  <2>2. Here(a)'
    BY <1>1, <1>2, <1>3, <1>4, <2>1 DEF Same, Here, AtNeeds, AtControl, AtInstall, AtUninstall,
       ControlPlaces, FromHalt, FromPark, FromConnect, FromSignIn, FromVerify, FromSettle,
       FromPin, FromRecord, FromUnsign, FromRemove, FromUnroute, FromDown
  <2>3. QED
    BY <1>1, <1>2, <1>4, <1>5, <1>6, <2>2, WorkStepKeeps
<1>7. CASE Falls(a, "oidc", Signed(a))
  <2>1. Signed(a) \subseteq App /\ \A x \in Signed(a) : Fits(x, a)
    BY <1>4, <1>5, AppFields DEF Signed, now
  <2>2. QED
    BY <1>1, <1>7, <2>1, FallsKeeps
<1>8. QED
  BY <1>6, <1>7 DEF Oidc, now, next

\* What a first start writes.
LEMMA UppedFields ==
    ASSUME LifeInv, NEW a \in Apps, NEW box \in {"running", "broken"}
    PROVE  /\ Upped(a, box) \in App /\ Upped(a, box).proj = app[a].proj
           /\ Upped(a, box).rec = app[a].rec /\ Upped(a, box).box = box
           /\ Upped(a, box).pin = app[a].pin /\ Upped(a, box).data = app[a].pin
<1> DEFINE first == a \in FirstStart
<1>1. first \in BOOLEAN
  OBVIOUS
<1>2. Upped(a, box) = [app[a] EXCEPT !.box = box, !.boot = first, !.data = app[a].pin]
  BY DEF Upped
<1> HIDE DEF first
<1>3. QED
  BY <1>1, <1>2, AppFields DEF App

\* A start with the pinned release keeps the data with its record.
LEMMA UppedSound ==
    ASSUME LifeInv, NEW a \in Apps, app[a].proj = "full", NEW box \in {"running", "broken"}
    PROVE  Upped(a, box) \in App /\ Fits(Upped(a, box), a)
<1> DEFINE now == Upped(a, box)
<1>1. now \in App /\ now.proj = "full" /\ now.pin = app[a].pin /\ now.data = app[a].pin
  BY UppedFields
<1> HIDE DEF now
<1>2. Fits(now, a)
  BY <1>1, AppFields DEF Fits
<1>3. QED
  BY <1>1, <1>2 DEF now

\* Containers may be in any state where the files are.
LEMMA BoxSound ==
    ASSUME LifeInv, NEW a \in Apps, app[a].proj = "full",
           NEW box \in {"absent", "stopped", "running", "broken"}
    PROVE  /\ [app[a] EXCEPT !.box = box] \in App /\ Fits([app[a] EXCEPT !.box = box], a)
           /\ Entered([app[a] EXCEPT !.box = box])
<1> DEFINE now == [app[a] EXCEPT !.box = box]
<1>1. /\ now \in App /\ now.proj = "full" /\ now.pin = app[a].pin /\ now.data = app[a].data
      /\ now.dropped = app[a].dropped
  BY AppFields DEF App
<1> HIDE DEF now
<1>2. Fits(now, a) /\ Entered(now)
  BY <1>1, AppFields DEF Fits, Entered
<1>3. QED
  BY <1>1, <1>2 DEF now

\* The first start.
LEMMA UpKeeps ==
    ASSUME LifeInv, NEW a \in Apps, job.of = a, Up(a)
    PROVE  LifeInv'
<1>1. JobAt("up") /\ Here(a) /\ NoTools /\ NoRoutes /\ Aside
  BY HereNow DEF Up, Step, Falls
<1> DEFINE now == Upped(a, "running")
           next == "settle"
<1>2. next \in Places /\ next = "settle"
  BY DEF Places
<1>3. job.at = "up" /\ job.do \in Installs /\ app[a].proj = "full"
  BY <1>1 DEF JobAt, Here, AtNeeds, AtControl, AtInstall, AtUninstall, ControlPlaces, FromHalt,
     FromPark, FromConnect, FromSignIn, FromVerify, FromSettle, FromPin, FromRecord, FromUnsign,
     FromRemove, FromUnroute, FromDown
<1>4. /\ now \in App
      /\ now.proj = app[a].proj /\ now.rec = app[a].rec /\ now.box = "running"
      /\ now.pin = app[a].pin /\ now.data = app[a].pin
  BY <1>3, AppFields, UppedFields DEF App, Records
<1> HIDE DEF now, next
<1>5. Fits(now, a) /\ Entered(now)
  BY <1>3, <1>4, AppFields DEF Fits, Entered
<1>6. CASE Step(a, "up", now, next)
  <2>1. /\ job'.of = a /\ job'.do = job.do /\ job'.batch = job.batch /\ job'.setup = job.setup
        /\ job'.at = next /\ app'[a] = now /\ Same
    BY <1>1, <1>2, <1>6, StepFields
  <2>2. Here(a)'
    BY <1>1, <1>2, <1>3, <1>4, <2>1 DEF Same, Here, AtNeeds, AtControl, AtInstall, AtUninstall,
       ControlPlaces, FromHalt, FromPark, FromConnect, FromSignIn, FromVerify, FromSettle,
       FromPin, FromRecord, FromUnsign, FromRemove, FromUnroute, FromDown
  <2>3. QED
    BY <1>1, <1>2, <1>4, <1>5, <1>6, <2>2, WorkStepKeeps
<1>7. CASE Falls(a, "up", {app[a], Upped(a, "broken")})
  <2>1. /\ {app[a], Upped(a, "broken")} \subseteq App
        /\ \A x \in {app[a], Upped(a, "broken")} : Fits(x, a)
    BY <1>3, AppFields, UppedSound
  <2>2. QED
    BY <1>1, <1>7, <2>1, FallsKeeps
<1>8. QED
  BY <1>6, <1>7 DEF Up, now, next

\* The start without the first settings.
LEMMA SettleKeeps ==
    ASSUME LifeInv, NEW a \in Apps, job.of = a, Settle(a)
    PROVE  LifeInv'
<1>1. JobAt("settle") /\ Here(a) /\ NoTools /\ NoRoutes /\ Aside
  BY HereNow DEF Settle, Step, Falls
<1> DEFINE now == Finished(app[a])
           next == "verify"
<1>2. next \in Places /\ next = "verify"
  BY DEF Places
<1>3. job.at = "settle" /\ job.do \in Installs /\ app[a].proj = "full"
  BY <1>1 DEF JobAt, Here, AtNeeds, AtControl, AtInstall, AtUninstall, ControlPlaces, FromHalt,
     FromPark, FromConnect, FromSignIn, FromVerify, FromSettle, FromPin, FromRecord, FromUnsign,
     FromRemove, FromUnroute, FromDown
<1>4. /\ now \in App
      /\ now.rec = app[a].rec /\ now.since = app[a].since /\ now.box = "running"
      /\ now.boot = FALSE /\ now.proj = app[a].proj /\ now.pin = app[a].pin
      /\ now.data = app[a].data /\ now.signin = app[a].signin
      /\ now.dropped = app[a].dropped
  BY <1>3, AppFields DEF App, Records, Finished
<1> HIDE DEF now, next
<1>5. Fits(now, a) /\ Entered(now)
  BY <1>3, <1>4, AppFields DEF Fits, Entered
<1>6. CASE Step(a, "settle", now, next)
  <2>1. /\ job'.of = a /\ job'.do = job.do /\ job'.batch = job.batch /\ job'.setup = job.setup
        /\ job'.at = next /\ app'[a] = now /\ Same
    BY <1>1, <1>2, <1>6, StepFields
  <2>2. Here(a)'
    BY <1>1, <1>2, <1>3, <1>4, <2>1 DEF Same, Here, AtNeeds, AtControl, AtInstall, AtUninstall,
       ControlPlaces, FromHalt, FromPark, FromConnect, FromSignIn, FromVerify, FromSettle,
       FromPin, FromRecord, FromUnsign, FromRemove, FromUnroute, FromDown
  <2>3. QED
    BY <1>1, <1>2, <1>4, <1>5, <1>6, <2>2, WorkStepKeeps
<1>7. CASE Falls(a, "settle", {Finished(app[a]), [app[a] EXCEPT !.box = "broken"]})
  <2>1. /\ {Finished(app[a]), [app[a] EXCEPT !.box = "broken"]} \subseteq App
        /\ \A x \in {Finished(app[a]), [app[a] EXCEPT !.box = "broken"]} : Fits(x, a)
    BY <1>3, <1>4, <1>5, BoxSound DEF now
  <2>2. QED
    BY <1>1, <1>7, <2>1, FallsKeeps
<1>8. QED
  BY <1>6, <1>7 DEF Settle, now, next

\* With or without the sign-in.
LEMMA SignedSound ==
    ASSUME LifeInv, NEW a \in Apps
    PROVE  Signed(a) \subseteq App /\ \A x \in Signed(a) : Fits(x, a)
<1> DEFINE now == [app[a] EXCEPT !.signin = TRUE]
<1>1. /\ now \in App /\ now.proj = app[a].proj /\ now.box = app[a].box
      /\ now.pin = app[a].pin /\ now.data = app[a].data /\ now.dropped = app[a].dropped
  BY AppFields DEF App
<1> HIDE DEF now
<1>2. Fits(now, a)
  BY <1>1, AppFields DEF Fits
<1>3. QED
  BY <1>1, <1>2, AppFields DEF Signed, now

\* The sign-in, and the record of a running app.
LEMMA SignInKeeps ==
    ASSUME LifeInv, NEW a \in Apps, job.of = a, SignIn(a)
    PROVE  LifeInv'
<1>1. JobAt("signin") /\ Here(a) /\ NoTools /\ NoRoutes /\ Aside
  BY HereNow DEF SignIn, Step, Falls
<1> DEFINE now == [app[a] EXCEPT !.signin = TRUE, !.rec = "running", !.since = TRUE]
           next == "connect"
<1>2. next \in Places /\ next = "connect"
  BY DEF Places
<1>3. job.at = "signin" /\ job.do \in Installs /\ app[a].proj = "full" /\ ~app[a].boot
      /\ app[a].box \in {"running", "broken"} /\ a \in serve
  BY <1>1 DEF JobAt, Here, AtNeeds, AtControl, AtInstall, AtUninstall, ControlPlaces, FromHalt,
     FromPark, FromConnect, FromSignIn, FromVerify, FromSettle, FromPin, FromRecord, FromUnsign,
     FromRemove, FromUnroute, FromDown
<1>4. /\ now \in App
      /\ now.rec = "running" /\ now.since = TRUE /\ now.box = app[a].box
      /\ now.boot = app[a].boot /\ now.proj = app[a].proj /\ now.pin = app[a].pin
      /\ now.data = app[a].data /\ now.signin = TRUE /\ now.dropped = app[a].dropped
  BY AppFields DEF App, Records
<1> HIDE DEF now, next
<1>5. Fits(now, a) /\ Entered(now)
  BY <1>3, <1>4, AppFields DEF Fits, Entered
<1>6. CASE a \in routes /\ Step(a, "signin", now, next)
  <2>1. /\ job'.of = a /\ job'.do = job.do /\ job'.batch = job.batch /\ job'.setup = job.setup
        /\ job'.at = next /\ app'[a] = now /\ Same
    BY <1>1, <1>2, <1>6, StepFields
  <2>2. Here(a)'
    BY <1>1, <1>2, <1>3, <1>4, <1>6, <2>1 DEF Same, Here, AtNeeds, AtControl, AtInstall, AtUninstall,
       ControlPlaces, FromHalt, FromPark, FromConnect, FromSignIn, FromVerify, FromSettle,
       FromPin, FromRecord, FromUnsign, FromRemove, FromUnroute, FromDown
  <2>3. QED
    BY <1>1, <1>2, <1>4, <1>5, <1>6, <2>2, WorkStepKeeps
<1>7. ASSUME Costs(IF a \in routes THEN 1 ELSE 0), NEW x \in Signed(a), Failing(a, x)
      PROVE  LifeInv'
  <2>1. trouble' \in 0..MaxMishaps /\ Good(link')
    BY <1>1, <1>7, CostsSound DEF NoTools, LifeInv
  <2>2. x \in App /\ Fits(x, a)
    BY SignedSound
  <2>3. QED
    BY <1>1, <1>7, <2>1, <2>2, FailingKeeps
<1>8. QED
  BY <1>6, <1>7 DEF SignIn, now, next

\* The health check.
LEMMA VerifyKeeps ==
    ASSUME LifeInv, NEW a \in Apps, job.of = a, Verify(a)
    PROVE  LifeInv'
<1>1. JobAt("verify") /\ Here(a) /\ NoTools /\ NoRoutes /\ Aside
  BY HereNow DEF Verify, Step, Falls
<1> DEFINE now == [app[a] EXCEPT !.rec = "verifying"]
           next == "route"
<1>2. next \in Places /\ next = "route"
  BY DEF Places
<1>3. job.at = "verify" /\ job.do \in Installs /\ app[a].proj = "full" /\ ~app[a].boot
      /\ app[a].box \in {"running", "broken"}
  BY <1>1 DEF JobAt, Here, AtNeeds, AtControl, AtInstall, AtUninstall, ControlPlaces, FromHalt,
     FromPark, FromConnect, FromSignIn, FromVerify, FromSettle, FromPin, FromRecord, FromUnsign,
     FromRemove, FromUnroute, FromDown
<1>4. /\ now \in App
      /\ now.rec = "verifying" /\ now.since = app[a].since /\ now.box = app[a].box
      /\ now.boot = app[a].boot /\ now.proj = app[a].proj /\ now.pin = app[a].pin
      /\ now.data = app[a].data /\ now.signin = app[a].signin
      /\ now.dropped = app[a].dropped
  BY AppFields DEF App, Records
<1> HIDE DEF now, next
<1>5. Fits(now, a) /\ Entered(now)
  BY <1>3, <1>4, AppFields DEF Fits, Entered
<1>6. CASE Step(a, "verify", now, next)
  <2>1. /\ job'.of = a /\ job'.do = job.do /\ job'.batch = job.batch /\ job'.setup = job.setup
        /\ job'.at = next /\ app'[a] = now /\ Same
    BY <1>1, <1>2, <1>6, StepFields
  <2>2. Here(a)'
    BY <1>1, <1>2, <1>3, <1>4, <2>1 DEF Same, Here, AtNeeds, AtControl, AtInstall, AtUninstall,
       ControlPlaces, FromHalt, FromPark, FromConnect, FromSignIn, FromVerify, FromSettle,
       FromPin, FromRecord, FromUnsign, FromRemove, FromUnroute, FromDown
  <2>3. QED
    BY <1>1, <1>2, <1>4, <1>5, <1>6, <2>2, WorkStepKeeps
<1>7. CASE /\ Costs(IF app[a].box = "running" THEN 1 ELSE 0)
           /\ Failing(a, [app[a] EXCEPT !.box = "broken"])
  <2>1. trouble' \in 0..MaxMishaps /\ Good(link')
    BY <1>1, <1>7, CostsSound DEF NoTools, LifeInv
  <2>2. [app[a] EXCEPT !.box = "broken"] \in App /\ Fits([app[a] EXCEPT !.box = "broken"], a)
    BY <1>3, BoxSound
  <2>3. QED
    BY <1>1, <1>7, <2>1, <2>2, FailingKeeps
<1>8. QED
  BY <1>6, <1>7 DEF Verify, now, next
-----------------------------------------------------------------------------
(* The steps of an uninstallation. *)

\* The containers go.
LEMMA EmptiedSound ==
    ASSUME LifeInv, NEW a \in Apps
    PROVE  /\ Emptied(app[a]) \in App /\ Fits(Emptied(app[a]), a) /\ Entered(Emptied(app[a]))
           /\ Emptied(app[a]).rec = app[a].rec /\ Emptied(app[a]).box = "absent"
           /\ Emptied(app[a]).proj = app[a].proj
<1> DEFINE now == [app[a] EXCEPT !.box = "absent", !.boot = FALSE]
<1>1. /\ now \in App /\ now.rec = app[a].rec /\ now.box = "absent" /\ now.proj = app[a].proj
      /\ now.pin = app[a].pin /\ now.data = app[a].data /\ now.dropped = app[a].dropped
  BY AppFields DEF App
<1>2. Emptied(app[a]) = IF app[a].proj = "full" THEN now ELSE app[a]
  BY DEF Emptied
<1> HIDE DEF now
<1>3. Fits(now, a) /\ Entered(now)
  BY <1>1, AppFields DEF Fits, Entered
<1>4. app[a].proj # "full" => app[a].box = "absent"
  BY AppFields DEF Fits
<1>5. QED
  BY <1>1, <1>2, <1>3, <1>4, AppFields

\* The files go, and the release record with the data.
LEMMA RemovedSound ==
    ASSUME LifeInv, NEW a \in Apps, NEW delete \in BOOLEAN,
           app[a].box = "absent", a \notin routes, a \notin serve, app[a].rec = "uninstalling"
    PROVE  /\ Removed(app[a], delete) \in App /\ Fits(Removed(app[a], delete), a)
           /\ Entered(Removed(app[a], delete))
           /\ Removed(app[a], delete).rec = "uninstalling" /\ Removed(app[a], delete).box = "absent"
           /\ Removed(app[a], delete).proj # "full"
           /\ delete => Removed(app[a], delete).proj = "none"
<1> DEFINE drop == app[a].dropped \/ app[a].data # 0
           gone == [app[a] EXCEPT !.proj = "none", !.pin = 0, !.dropped = drop]
           proj == IF app[a].proj = "none" THEN "none" ELSE "kept"
           left == [app[a] EXCEPT !.proj = proj]
<1>1. drop \in BOOLEAN /\ (~drop => app[a].data = 0) /\ proj \in {"none", "kept"}
  BY AppFields
<1>2. Removed(app[a], delete) = IF delete THEN gone ELSE left
  BY AppFields DEF Removed
<1> HIDE DEF drop, proj
<1>3. /\ gone \in App /\ gone.rec = app[a].rec /\ gone.box = "absent" /\ gone.proj = "none"
      /\ gone.pin = 0 /\ gone.data = app[a].data /\ gone.dropped = drop
  BY AppFields, <1>1 DEF App
<1>4. /\ left \in App /\ left.rec = app[a].rec /\ left.box = "absent" /\ left.proj = proj
      /\ left.pin = app[a].pin /\ left.data = app[a].data /\ left.dropped = app[a].dropped
  BY AppFields, <1>1 DEF App
<1> HIDE DEF gone, left
<1>5. Fits(gone, a) /\ Entered(gone)
  BY <1>1, <1>3, AppFields DEF Fits, Entered, LifeInv, LifeTypes, Releases
<1>6. Fits(left, a) /\ Entered(left)
  BY <1>1, <1>4, AppFields DEF Fits, Entered
<1>7. QED
  BY <1>1, <1>2, <1>3, <1>4, <1>5, <1>6

\* What stays after a deletion is data the checkout has no name for.
LEMMA WipedSound ==
    ASSUME LifeInv, NEW a \in Apps
    PROVE  /\ Wiped(app[a]) \in App /\ Fits(Wiped(app[a]), a)
           /\ Wiped(app[a]).rec = app[a].rec /\ Wiped(app[a]).box = app[a].box
           /\ Wiped(app[a]).proj = app[a].proj /\ Wiped(app[a]).signin = app[a].signin
           /\ Wiped(app[a]).data # 0 =>
                approved = 2 /\ FolderOf[approved] # FolderOf[Wiped(app[a]).data]
<1> DEFINE now == [app[a] EXCEPT !.data = 0, !.dropped = FALSE]
<1>1. /\ now \in App /\ now.rec = app[a].rec /\ now.box = app[a].box /\ now.proj = app[a].proj
      /\ now.pin = app[a].pin /\ now.data = 0 /\ now.signin = app[a].signin
  BY AppFields DEF App
<1>2. Wiped(app[a]) = IF app[a].data # 0 /\ FolderOf[approved] = FolderOf[app[a].data]
                      THEN now ELSE app[a]
  BY DEF Wiped
<1> HIDE DEF now
<1>3. Fits(now, a)
  BY <1>1, AppFields DEF Fits, LifeInv, LifeTypes, Releases
<1>4. /\ approved \in 1..2 /\ app[a].data \in 0..2 /\ app[a].data <= approved
  BY AppFields DEF Fits, LifeInv, LifeTypes, Releases
<1>5. approved = 1 /\ app[a].data # 0 => FolderOf[approved] = FolderOf[app[a].data]
  BY <1>4
<1>6. QED
  BY <1>1, <1>2, <1>3, <1>4, <1>5, AppFields

\* The containers are taken down.
LEMMA TakeDownKeeps ==
    ASSUME LifeInv, NEW a \in Apps, job.of = a, TakeDown(a)
    PROVE  LifeInv'
<1>1. JobAt("down") /\ Here(a) /\ NoTools /\ NoRoutes /\ Aside
  BY HereNow DEF TakeDown, Step, Falls
<1> DEFINE now == Emptied(app[a])
           next == "unroute"
<1>2. next \in Places /\ next = "unroute"
  BY DEF Places
<1>3. job.at = "down" /\ job.do \in Uninstalls /\ app[a].rec = "uninstalling"
      /\ Quiet(a) /\ (job.do # "uninstall" => AllOff(a))
  BY <1>1 DEF JobAt, Here, AtNeeds, AtControl, AtInstall, AtUninstall, ControlPlaces, FromHalt,
     FromPark, FromConnect, FromSignIn, FromVerify, FromSettle, FromPin, FromRecord, FromUnsign,
     FromRemove, FromUnroute, FromDown
<1>4. /\ now \in App
      /\ now.rec = app[a].rec /\ now.box = "absent" /\ now.proj = app[a].proj
  BY AppFields, EmptiedSound DEF App, Records
<1> HIDE DEF now, next
<1>5. Fits(now, a) /\ Entered(now)
  BY EmptiedSound DEF now
<1>6. CASE Step(a, "down", now, next)
  <2>1. /\ job'.of = a /\ job'.do = job.do /\ job'.batch = job.batch /\ job'.setup = job.setup
        /\ job'.at = next /\ app'[a] = now /\ Same
    BY <1>1, <1>2, <1>6, StepFields
  <2>2. Here(a)'
    BY <1>1, <1>2, <1>3, <1>4, <2>1 DEF Same, Here, AtNeeds, AtControl, AtInstall, AtUninstall,
       ControlPlaces, FromHalt, FromPark, FromConnect, FromSignIn, FromVerify, FromSettle,
       FromPin, FromRecord, FromUnsign, FromRemove, FromUnroute, FromDown
  <2>3. QED
    BY <1>1, <1>2, <1>4, <1>5, <1>6, <2>2, WorkStepKeeps
<1>7. CASE Falls(a, "down", {app[a], Emptied(app[a])})
  <2>1. {app[a], Emptied(app[a])} \subseteq App /\ \A x \in {app[a], Emptied(app[a])} : Fits(x, a)
    BY AppFields, EmptiedSound
  <2>2. QED
    BY <1>1, <1>7, <2>1, FallsKeeps
<1>8. QED
  BY <1>6, <1>7 DEF TakeDown, now, next

\* The files are removed when containers and addresses are gone.
LEMMA RemoveKeeps ==
    ASSUME LifeInv, NEW a \in Apps, job.of = a, Remove(a)
    PROVE  LifeInv'
<1>1. JobAt("remove") /\ Here(a) /\ NoTools /\ NoRoutes /\ Aside
  BY HereNow DEF Remove, Step, Falls
<1> DEFINE now == Removed(app[a], job.do # "uninstall")
           next == "unsign"
<1>2. next \in Places /\ next = "unsign"
  BY DEF Places
<1>3. job.at = "remove" /\ job.do \in Uninstalls /\ app[a].rec = "uninstalling"
      /\ Quiet(a) /\ (job.do # "uninstall" => AllOff(a))
      /\ app[a].box = "absent" /\ a \notin routes /\ a \notin serve
  BY <1>1 DEF JobAt, Here, AtNeeds, AtControl, AtInstall, AtUninstall, ControlPlaces, FromHalt,
     FromPark, FromConnect, FromSignIn, FromVerify, FromSettle, FromPin, FromRecord, FromUnsign,
     FromRemove, FromUnroute, FromDown
<1>4. /\ now \in App
      /\ now.rec = "uninstalling" /\ now.box = "absent"
      /\ now.proj # "full" /\ (job.do # "uninstall" => now.proj = "none")
  BY <1>3, AppFields, RemovedSound DEF App, Records
<1> HIDE DEF now, next
<1>5. Fits(now, a) /\ Entered(now)
  BY <1>3, RemovedSound DEF now
<1>6. CASE Step(a, "remove", now, next)
  <2>1. /\ job'.of = a /\ job'.do = job.do /\ job'.batch = job.batch /\ job'.setup = job.setup
        /\ job'.at = next /\ app'[a] = now /\ Same
    BY <1>1, <1>2, <1>6, StepFields
  <2>2. Here(a)'
    BY <1>1, <1>2, <1>3, <1>4, <2>1 DEF Same, Here, AtNeeds, AtControl, AtInstall, AtUninstall,
       ControlPlaces, FromHalt, FromPark, FromConnect, FromSignIn, FromVerify, FromSettle,
       FromPin, FromRecord, FromUnsign, FromRemove, FromUnroute, FromDown
  <2>3. QED
    BY <1>1, <1>2, <1>4, <1>5, <1>6, <2>2, WorkStepKeeps
<1>7. CASE Falls(a, "remove", {app[a]})
  <2>1. {app[a]} \subseteq App /\ \A x \in {app[a]} : Fits(x, a)
    BY AppFields
  <2>2. QED
    BY <1>1, <1>7, <2>1, FallsKeeps
<1>8. QED
  BY <1>6, <1>7 DEF Remove, now, next

\* Authentik's side is removed.
LEMMA UnsignKeeps ==
    ASSUME LifeInv, NEW a \in Apps, job.of = a, Unsign(a)
    PROVE  LifeInv'
<1>1. JobAt("unsign") /\ Here(a) /\ NoTools /\ NoRoutes /\ Aside
  BY HereNow DEF Unsign, Step, Falls
<1> DEFINE now == [app[a] EXCEPT !.signin = FALSE]
           next == IF job.do = "uninstall" THEN "gone" ELSE "delete"
<1>2. next \in Places /\ next \in {"gone", "delete"}
      /\ (job.do # "uninstall" => next = "delete")
  BY DEF Places
<1>3. job.at = "unsign" /\ job.do \in Uninstalls /\ app[a].rec = "uninstalling"
      /\ Quiet(a) /\ (job.do # "uninstall" => AllOff(a))
      /\ app[a].box = "absent" /\ a \notin routes /\ a \notin serve
      /\ app[a].proj # "full" /\ (job.do # "uninstall" => app[a].proj = "none")
  BY <1>1 DEF JobAt, Here, AtNeeds, AtControl, AtInstall, AtUninstall, ControlPlaces, FromHalt,
     FromPark, FromConnect, FromSignIn, FromVerify, FromSettle, FromPin, FromRecord, FromUnsign,
     FromRemove, FromUnroute, FromDown
<1>4. /\ now \in App
      /\ now.rec = app[a].rec /\ now.since = app[a].since /\ now.box = app[a].box
      /\ now.boot = app[a].boot /\ now.proj = app[a].proj /\ now.pin = app[a].pin
      /\ now.data = app[a].data /\ now.signin = FALSE /\ now.dropped = app[a].dropped
  BY AppFields DEF App, Records
<1> HIDE DEF now, next
<1>5. Fits(now, a) /\ Entered(now)
  BY <1>3, <1>4, AppFields DEF Fits, Entered
<1>6. CASE Step(a, "unsign", now, next)
  <2>1. /\ job'.of = a /\ job'.do = job.do /\ job'.batch = job.batch /\ job'.setup = job.setup
        /\ job'.at = next /\ app'[a] = now /\ Same
    BY <1>1, <1>2, <1>6, StepFields
  <2>2. Here(a)'
    BY <1>1, <1>2, <1>3, <1>4, <2>1 DEF Same, Here, AtNeeds, AtControl, AtInstall, AtUninstall,
       ControlPlaces, FromHalt, FromPark, FromConnect, FromSignIn, FromVerify, FromSettle,
       FromPin, FromRecord, FromUnsign, FromRemove, FromUnroute, FromDown
  <2>3. QED
    BY <1>1, <1>2, <1>4, <1>5, <1>6, <2>2, WorkStepKeeps
<1>7. CASE Falls(a, "unsign", {app[a]})
  <2>1. {app[a]} \subseteq App /\ \A x \in {app[a]} : Fits(x, a)
    BY AppFields
  <2>2. QED
    BY <1>1, <1>7, <2>1, FallsKeeps
<1>8. QED
  BY <1>6, <1>7 DEF Unsign, now, next

\* The data is deleted.
LEMMA DeleteDataKeeps ==
    ASSUME LifeInv, NEW a \in Apps, job.of = a, DeleteData(a)
    PROVE  LifeInv'
<1>1. JobAt("delete") /\ Here(a) /\ NoTools /\ NoRoutes /\ Aside
  BY HereNow DEF DeleteData, Step, Falls
<1> DEFINE now == Wiped(app[a])
           next == "gone"
<1>2. next \in Places /\ next = "gone"
  BY DEF Places
<1>3. job.at = "delete" /\ job.do \in Uninstalls /\ app[a].rec = "uninstalling"
      /\ Quiet(a) /\ (job.do # "uninstall" => AllOff(a))
      /\ app[a].box = "absent" /\ a \notin routes /\ a \notin serve
      /\ app[a].proj # "full" /\ (job.do # "uninstall" => app[a].proj = "none") /\ ~app[a].signin
  BY <1>1 DEF JobAt, Here, AtNeeds, AtControl, AtInstall, AtUninstall, ControlPlaces, FromHalt,
     FromPark, FromConnect, FromSignIn, FromVerify, FromSettle, FromPin, FromRecord, FromUnsign,
     FromRemove, FromUnroute, FromDown
<1>4. /\ now \in App
      /\ now.rec = app[a].rec /\ now.box = app[a].box
      /\ now.proj = app[a].proj /\ now.signin = app[a].signin
      /\ now.data # 0 => approved = 2 /\ FolderOf[approved] # FolderOf[now.data]
  BY AppFields, WipedSound DEF App, Records
<1> HIDE DEF now, next
<1>5. Fits(now, a) /\ Entered(now)
  BY <1>3, <1>4, WipedSound DEF now, Entered
<1>6. CASE Step(a, "delete", now, next)
  <2>1. /\ job'.of = a /\ job'.do = job.do /\ job'.batch = job.batch /\ job'.setup = job.setup
        /\ job'.at = next /\ app'[a] = now /\ Same
    BY <1>1, <1>2, <1>6, StepFields
  <2>2. Here(a)'
    BY <1>1, <1>2, <1>3, <1>4, <2>1 DEF Same, Here, AtNeeds, AtControl, AtInstall, AtUninstall,
       ControlPlaces, FromHalt, FromPark, FromConnect, FromSignIn, FromVerify, FromSettle,
       FromPin, FromRecord, FromUnsign, FromRemove, FromUnroute, FromDown
  <2>3. QED
    BY <1>1, <1>2, <1>4, <1>5, <1>6, <2>2, WorkStepKeeps
<1>7. CASE Falls(a, "delete", {app[a]})
  <2>1. {app[a]} \subseteq App /\ \A x \in {app[a]} : Fits(x, a)
    BY AppFields
  <2>2. QED
    BY <1>1, <1>7, <2>1, FallsKeeps
<1>8. QED
  BY <1>6, <1>7 DEF DeleteData, now, next
-----------------------------------------------------------------------------
(* The steps that write the proxy's file. *)

\* Only what is installed has an address, and all that has containers, those
\* that could not be read aside.
LEMMA GeneratedSound ==
    ASSUME LifeInv, NEW without, NEW unread
    PROVE  /\ \A b \in Generated(without, unread) :
                 b \in Apps /\ b \notin without /\ app[b].proj = "full"
           /\ \A b \in Apps \ without :
                 app[b].box # "absent" /\ (b \notin unread \/ app[b].rec \in {"running", "stopped"})
                    => b \in Generated(without, unread)
<1>1. \A b \in Apps : app[b].box \in {"stopped", "running", "broken"} => Live(b) # "planned"
  BY DEF Live
<1>2. \A b \in Apps : Live(b) # "planned" => app[b].box # "absent"
  BY DEF Live
<1>3. \A b \in Apps : /\ app[b].box # "absent" \/ app[b].rec \in {"running", "stopped"}
                           => app[b].proj = "full"
                      /\ app[b].box \in {"absent", "stopped", "running", "broken"}
  BY AppFields DEF Fits, Entered
<1>4. QED
  BY <1>1, <1>2, <1>3 DEF Generated

\* What the file written anew has, when all could be read and when not.
LEMMA RewrittenSound ==
    ASSUME LifeInv, NEW without, NEW cost \in Nat, Rewritten(without, cost)
    PROVE  /\ trouble' \in 0..MaxMishaps
           /\ \A b \in routes' : b \in Apps /\ b \notin without /\ app[b].proj = "full"
           /\ \A b \in Apps \ without :
                 app[b].box # "absent" =>
                     \/ b \in routes'
                     \/ trouble' > trouble /\ app[b].rec \notin {"running", "stopped"}
<1>1. PICK unread \in SUBSET Apps :
         /\ routes' = Generated(without, unread)
         /\ Costs(IF unread = {} THEN cost ELSE cost + 1)
  BY DEF Rewritten
<1>2. trouble \in Nat /\ trouble' \in 0..MaxMishaps
  BY <1>1, CostsSound, ConnectorsAssumption DEF LifeInv, LifeTypes
<1>3. unread = {} \/ trouble' > trouble
  BY <1>1, <1>2 DEF Costs
<1>4. \A b \in routes' : b \in Apps /\ b \notin without /\ app[b].proj = "full"
  BY <1>1, GeneratedSound
<1>5. ASSUME NEW b \in Apps \ without, app[b].box # "absent",
             ~(trouble' > trouble /\ app[b].rec \notin {"running", "stopped"})
      PROVE  b \in routes'
  <2>1. b \notin unread \/ app[b].rec \in {"running", "stopped"}
    BY <1>3, <1>5
  <2>2. QED
    BY <1>1, <1>5, <2>1, GeneratedSound
<1>6. QED
  BY <1>2, <1>4, <1>5

\* A route that could not be written or published.
LEMMA RouteFalls ==
    ASSUME LifeInv, NEW a \in Apps, NEW without, Failing(a, app[a]), NoTools, Aside,
           (Costs(1) /\ UNCHANGED routes) \/ Rewritten(without, 1), UNCHANGED serve
    PROVE  LifeInv'
<1> DEFINE now == [app[a] EXCEPT !.rec = "failed"]
<1>1. app' = [app EXCEPT ![a] = now] /\ job' = NoJob /\ last' = "failed"
  BY DEF Failing, Ends
<1>2. now \in App /\ Fits(now, a) /\ Entered(now) /\ now.proj = app[a].proj
  BY AppFields DEF App, Records, Fits, Entered
<1>3. trouble' \in 0..MaxMishaps /\ Good(link')
  BY CostsSound, RewrittenSound DEF NoTools, LifeInv
<1> HIDE DEF now
<1>4. \A b \in (routes' \cup serve') \ (routes \cup serve) :
         b \in Apps /\ app[b].proj = "full" /\ (b = a => now.proj = "full")
  BY <1>2, RewrittenSound
<1>5. QED
  BY <1>1, <1>2, <1>3, <1>4, RoutedKeeps

\* The address is written and published.
LEMMA RouteKeeps ==
    ASSUME LifeInv, NEW a \in Apps, job.of = a, Route(a)
    PROVE  LifeInv'
<1>1. JobAt("route") /\ Here(a) /\ NoTools /\ Aside /\ Good(link')
  BY HereNow DEF Route, NoTools, LifeInv
<1>2. /\ job.do \in Installs /\ app[a].proj = "full" /\ ~app[a].boot
      /\ app[a].box \in {"running", "broken"}
  BY <1>1 DEF JobAt, Here, AtNeeds, AtControl, AtInstall, AtUninstall, ControlPlaces, FromHalt,
     FromPark, FromConnect, FromSignIn, FromVerify, FromSettle, FromPin, FromRecord, FromUnsign,
     FromRemove, FromUnroute, FromDown
<1>3. CASE Rewritten({}, 0) /\ serve' = serve \cup {a} /\ GoesTo("signin") /\ UNCHANGED app
  <2>1. /\ job' \in Job /\ job'.of = a /\ job'.do = job.do /\ job'.batch = job.batch
        /\ job'.setup = job.setup /\ job'.at = "signin"
        /\ last' \in {"none", "succeeded", "failed", "cancelled"}
    BY <1>1, <1>3, GoesSound DEF JobAt, Places
  <2>2. app' = [app EXCEPT ![a] = app[a]] /\ app[a] \in App /\ Fits(app[a], a) /\ Entered(app[a])
    BY <1>3, AppFields
  <2>3. a \in serve'
    BY <1>3
  <2>4. Here(a)'
    BY <1>2, <1>3, <2>1, <2>3 DEF Here, AtNeeds, AtControl, AtInstall, AtUninstall, ControlPlaces,
       FromHalt, FromPark, FromConnect, FromSignIn, FromVerify, FromSettle, FromPin, FromRecord,
       FromUnsign, FromRemove, FromUnroute, FromDown
  <2>5. trouble' \in 0..MaxMishaps
    BY <1>3, RewrittenSound
  <2>6. \A b \in (routes' \cup serve') \ (routes \cup serve) :
           b \in Apps /\ app[b].proj = "full" /\ (b = a => app[a].proj = "full")
    BY <1>2, <1>3, RewrittenSound
  <2>7. QED
    BY <1>1, <2>1, <2>2, <2>4, <2>5, <2>6, RoutedKeeps
<1>4. CASE /\ (Costs(1) /\ UNCHANGED routes) \/ Rewritten({}, 1)
           /\ Failing(a, app[a]) /\ UNCHANGED serve
  BY <1>1, <1>4, RouteFalls
<1>5. QED
  BY <1>3, <1>4 DEF Route

\* The address is withdrawn.
LEMMA UnrouteKeeps ==
    ASSUME LifeInv, NEW a \in Apps, job.of = a, Unroute(a)
    PROVE  LifeInv'
<1>1. JobAt("unroute") /\ Here(a) /\ NoTools /\ Aside /\ Good(link')
  BY HereNow DEF Unroute, NoTools, LifeInv
<1>2. /\ job.do \in Uninstalls /\ app[a].rec = "uninstalling"
      /\ Quiet(a) /\ (job.do # "uninstall" => AllOff(a)) /\ app[a].box = "absent"
  BY <1>1 DEF JobAt, Here, AtNeeds, AtControl, AtInstall, AtUninstall, ControlPlaces, FromHalt,
     FromPark, FromConnect, FromSignIn, FromVerify, FromSettle, FromPin, FromRecord, FromUnsign,
     FromRemove, FromUnroute, FromDown
<1>3. CASE Rewritten({a}, 0) /\ serve' = serve \ {a} /\ GoesTo("remove") /\ UNCHANGED app
  <2>1. /\ job' \in Job /\ job'.of = a /\ job'.do = job.do /\ job'.batch = job.batch
        /\ job'.setup = job.setup /\ job'.at = "remove"
        /\ last' \in {"none", "succeeded", "failed", "cancelled"}
    BY <1>1, <1>3, GoesSound DEF JobAt, Places
  <2>2. app' = [app EXCEPT ![a] = app[a]] /\ app[a] \in App /\ Fits(app[a], a) /\ Entered(app[a])
    BY <1>3, AppFields
  <2>3. a \notin routes' /\ a \notin serve'
    BY <1>3, RewrittenSound
  <2>4. Here(a)'
    <3>1. Quiet(a)' /\ (job.do # "uninstall" => AllOff(a)')
      BY <1>1, <1>2 DEF NoTools, Quiet, AllOff, Enabled, Idle
    <3>2. QED
      BY <1>2, <1>3, <2>1, <2>3, <3>1 DEF Here, AtNeeds, AtControl, AtInstall, AtUninstall,
         ControlPlaces, FromHalt, FromPark, FromConnect, FromSignIn, FromVerify, FromSettle,
         FromPin, FromRecord, FromUnsign, FromRemove, FromUnroute, FromDown
  <2>5. trouble' \in 0..MaxMishaps
    BY <1>3, RewrittenSound
  <2>6. \A b \in (routes' \cup serve') \ (routes \cup serve) :
           b \in Apps /\ app[b].proj = "full" /\ (b = a => app[a].proj = "full")
    BY <1>2, <1>3, RewrittenSound
  <2>7. QED
    BY <1>1, <2>1, <2>2, <2>4, <2>5, <2>6, RoutedKeeps
<1>4. CASE /\ (Costs(1) /\ UNCHANGED routes) \/ Rewritten({a}, 1)
           /\ Failing(a, app[a]) /\ UNCHANGED serve
  BY <1>1, <1>4, RouteFalls
<1>5. QED
  BY <1>3, <1>4 DEF Unroute
-----------------------------------------------------------------------------
(* The other steps of an installation, and the end of an uninstallation. *)

\* The project is written.
LEMMA RenderKeeps ==
    ASSUME LifeInv, NEW a \in Apps, job.of = a, Render(a)
    PROVE  LifeInv'
<1>1. JobAt("render") /\ Here(a) /\ NoTools /\ NoRoutes /\ Aside /\ Good(link')
  BY HereNow DEF Render, Falls, NoTools, LifeInv
<1> DEFINE now == [app[a] EXCEPT !.proj = "full"]
<1>2. now \in App /\ now.proj = "full" /\ Fits(now, a) /\ Entered(now)
  <2>1. /\ now \in App /\ now.proj = "full" /\ now.pin = app[a].pin /\ now.data = app[a].data
        /\ now.dropped = app[a].dropped
    BY AppFields DEF App
  <2> HIDE DEF now
  <2>2. QED
    BY <2>1, AppFields DEF Fits, Entered
<1>3. job.do \in Installs
  BY <1>1 DEF JobAt, Here, AtNeeds, AtControl, AtInstall, AtUninstall, ControlPlaces, FromHalt,
     FromPark, FromConnect, FromSignIn, FromVerify, FromSettle, FromPin, FromRecord, FromUnsign,
     FromRemove, FromUnroute, FromDown
<1>4. CASE /\ UNCHANGED <<trouble, last>> /\ app' = [app EXCEPT ![a].proj = "full"]
           /\ job' = [job EXCEPT !.at = "pin", !.setup = Missing(a)]
  <2> DEFINE miss == Missing(a)
  <2>1. miss \in BOOLEAN
    BY DEF Missing
  <2>2. job' = [job EXCEPT !.at = "pin", !.setup = miss]
    BY <1>4
  <2> HIDE DEF miss
  <2>3. job' \in Job /\ job'.of = a /\ job'.do = job.do /\ job'.at = "pin"
    BY <1>1, <2>1, <2>2, JobFields DEF JobAt, Job, Places
  <2>4. app' = [app EXCEPT ![a] = now] /\ app'[a] = now
    BY <1>4, AppFields
  <2> HIDE DEF now
  <2>5. Here(a)'
    BY <1>2, <1>3, <2>3, <2>4 DEF Here, AtNeeds, AtControl, AtInstall, AtUninstall, ControlPlaces,
       FromHalt, FromPark, FromConnect, FromSignIn, FromVerify, FromSettle, FromPin, FromRecord,
       FromUnsign, FromRemove, FromUnroute, FromDown
  <2>6. trouble' \in 0..MaxMishaps /\ last' \in {"none", "succeeded", "failed", "cancelled"}
    BY <1>4 DEF LifeInv, LifeTypes
  <2>7. QED
    BY <1>1, <1>2, <2>3, <2>4, <2>5, <2>6, WorkKeeps
<1>5. CASE Falls(a, "render", {app[a], now})
  <2>1. {app[a], now} \subseteq App /\ \A x \in {app[a], now} : Fits(x, a)
    BY <1>2, AppFields
  <2> HIDE DEF now
  <2>2. QED
    BY <1>1, <1>5, <2>1, FallsKeeps
<1>6. QED
  BY <1>4, <1>5 DEF Render

\* A job goes on with its connectors changed and its app as it was.
LEMMA FollowKeeps ==
    ASSUME LifeInv, NEW a \in Apps, job.of = a, job # NoJob, NEW l, Good(l),
           NEW running \in BOOLEAN, NEW end, Follow(l, a, running, end),
           NEW at \in Places, GoesTo(at), UNCHANGED app, NoRoutes, Aside, Here(a)'
    PROVE  LifeInv'
<1>1. /\ job' \in Job /\ job'.of = a
      /\ last' \in {"none", "succeeded", "failed", "cancelled"}
  BY GoesSound
<1>2. Good(link') /\ trouble' \in 0..MaxMishaps
  BY FollowSound DEF LifeInv, LifeTypes
<1>3. app' = [app EXCEPT ![a] = app[a]] /\ app[a] \in App /\ Fits(app[a], a) /\ Entered(app[a])
  BY AppFields
<1>4. QED
  BY <1>1, <1>2, <1>3, WorkKeeps

\* Connectors that would not follow fail the job.
LEMMA FollowFails ==
    ASSUME LifeInv, NEW a \in Apps, NEW running \in BOOLEAN, NEW end,
           Follow(link, a, running, end), Failing(a, app[a]), NoRoutes, Aside
    PROVE  LifeInv'
<1>1. Good(link') /\ trouble' \in 0..MaxMishaps
  BY FollowSound DEF LifeInv, LifeTypes
<1>2. QED
  BY <1>1, AppFields, FailingKeeps

\* The connectors follow the app, the preferred one first.
LEMMA ConnectToolsKeeps ==
    ASSUME LifeInv, NEW a \in Apps, job.of = a, ConnectTools(a)
    PROVE  LifeInv'
<1>1. JobAt("connect") /\ Here(a) /\ NoRoutes /\ Aside /\ GoesTo("rewire") /\ UNCHANGED app
  BY HereNow DEF ConnectTools
<1>2. PICK end \in {"ok", "bad"} : Follow(Preenabled(link, a), a, TRUE, end)
  BY DEF ConnectTools
<1>3. /\ job.do \in Installs /\ app[a].proj = "full" /\ ~app[a].boot
      /\ app[a].box \in {"running", "broken"} /\ a \in routes /\ a \in serve
      /\ app[a].signin /\ app[a].rec = "running"
  BY <1>1 DEF JobAt, Here, AtNeeds, AtControl, AtInstall, AtUninstall, ControlPlaces, FromHalt,
     FromPark, FromConnect, FromSignIn, FromVerify, FromSettle, FromPin, FromRecord, FromUnsign,
     FromRemove, FromUnroute, FromDown
<1>4. job # NoJob /\ "rewire" \in Places /\ Good(Preenabled(link, a))
  BY <1>1, PreenabledSound DEF JobAt, Places, LifeInv
<1>5. job'.at = "rewire" /\ job'.do = job.do
  BY <1>1, <1>4, GoesSound
<1>6. Here(a)'
  BY <1>1, <1>3, <1>5 DEF NoRoutes, Here, AtNeeds, AtControl, AtInstall, AtUninstall,
     ControlPlaces, FromHalt, FromPark, FromConnect, FromSignIn, FromVerify, FromSettle, FromPin,
     FromRecord, FromUnsign, FromRemove, FromUnroute, FromDown
<1>7. QED
  BY <1>1, <1>2, <1>4, <1>6, FollowKeeps

\* The connectors stop before the app does.
LEMMA ParkKeeps ==
    ASSUME LifeInv, NEW a \in Apps, job.of = a, Park(a)
    PROVE  LifeInv'
<1>1. JobAt("park") /\ Here(a) /\ NoRoutes /\ Aside
  BY HereNow DEF Park
<1>2. /\ job.do \in Installs /\ app[a].proj = "full" /\ ~app[a].boot
      /\ app[a].box \in {"running", "broken"} /\ a \in routes /\ a \in serve
      /\ app[a].signin /\ app[a].rec = "running" /\ (job.batch \/ job.setup)
  BY <1>1 DEF JobAt, Here, AtNeeds, AtControl, AtInstall, AtUninstall, ControlPlaces, FromHalt,
     FromPark, FromConnect, FromSignIn, FromVerify, FromSettle, FromPin, FromRecord, FromUnsign,
     FromRemove, FromUnroute, FromDown
<1>3. CASE Follow(link, a, FALSE, "ok") /\ GoesTo("halt") /\ UNCHANGED app
  <2>1. job # NoJob /\ "halt" \in Places /\ Good(link)
    BY <1>1 DEF JobAt, Places, LifeInv
  <2>2. job'.at = "halt" /\ job'.do = job.do /\ job'.batch = job.batch /\ job'.setup = job.setup
    BY <1>3, <2>1, GoesSound
  <2>3. Quiet(a)'
    BY <1>3, <2>1, FollowSound DEF LifeInv, LifeTypes
  <2>4. Here(a)'
    BY <1>1, <1>2, <1>3, <2>2, <2>3 DEF NoRoutes, Here, AtNeeds, AtControl, AtInstall,
       AtUninstall, ControlPlaces, FromHalt, FromPark, FromConnect, FromSignIn, FromVerify,
       FromSettle, FromPin, FromRecord, FromUnsign, FromRemove, FromUnroute, FromDown
  <2>5. QED
    BY <1>1, <1>3, <2>1, <2>4, FollowKeeps
<1>4. CASE Follow(link, a, FALSE, "bad") /\ Failing(a, app[a])
  BY <1>1, <1>4, FollowFails
<1>5. QED
  BY <1>3, <1>4 DEF Park

\* A parked app is stopped.
LEMMA HaltAppKeeps ==
    ASSUME LifeInv, NEW a \in Apps, job.of = a, HaltApp(a)
    PROVE  LifeInv'
<1>1. JobAt("halt") /\ Here(a) /\ NoTools /\ NoRoutes /\ Aside /\ Good(link')
  BY HereNow DEF HaltApp, NoTools, LifeInv
<1>2. app[a].proj = "full"
  BY <1>1 DEF JobAt, Here, AtNeeds, AtControl, AtInstall, AtUninstall, ControlPlaces, FromHalt,
     FromPark, FromConnect, FromSignIn, FromVerify, FromSettle, FromPin, FromRecord, FromUnsign,
     FromRemove, FromUnroute, FromDown
<1>3. CASE /\ UNCHANGED trouble /\ Ends("succeeded")
           /\ app' = [app EXCEPT ![a].box = "stopped", ![a].rec = "stopped"]
  <2> DEFINE now == [app[a] EXCEPT !.box = "stopped", !.rec = "stopped"]
  <2>1. app' = [app EXCEPT ![a] = now]
    BY <1>3, AppFields
  <2>2. /\ now \in App /\ now.proj = "full" /\ now.pin = app[a].pin /\ now.data = app[a].data
        /\ now.dropped = app[a].dropped
    BY <1>2, AppFields DEF App, Records
  <2> HIDE DEF now
  <2>3. Fits(now, a) /\ Entered(now)
    BY <2>2, AppFields DEF Fits, Entered
  <2>4. /\ trouble' \in 0..MaxMishaps /\ job' = NoJob
        /\ last' \in {"none", "succeeded", "failed", "cancelled"}
    BY <1>3 DEF LifeInv, LifeTypes, Ends
  <2>5. QED
    BY <1>1, <2>1, <2>2, <2>3, <2>4, WorkKeeps
<1>4. CASE Falls(a, "halt", {app[a]})
  <2>1. {app[a]} \subseteq App /\ \A x \in {app[a]} : Fits(x, a)
    BY AppFields
  <2>2. QED
    BY <1>1, <1>4, <2>1, FallsKeeps
<1>5. QED
  BY <1>3, <1>4 DEF HaltApp

\* The apps that use another, rendered again: their containers run or not.
RewiredTo(base, a, down) ==
    [u \in Apps |-> IF u \in down THEN [base[u] EXCEPT !.box = "broken"]
                    ELSE IF u \in Rewired(a) THEN [base[u] EXCEPT !.box = "running"]
                    ELSE base[u]]

\* Rendering the users again changes nothing but their containers.
LEMMA RewiredSound ==
    ASSUME LifeInv, NEW a \in Apps, NEW base \in [Apps -> App], NEW down, down \subseteq Rewired(a),
           NEW u \in Apps, Fits(base[u], u), Entered(base[u]), base[u].proj = app[u].proj
    PROVE  LET r == RewiredTo(base, a, down)[u]
           IN /\ r \in App /\ Fits(r, u) /\ Entered(r)
              /\ r.rec = base[u].rec /\ r.proj = base[u].proj /\ r.boot = base[u].boot
              /\ r.signin = base[u].signin /\ r.data = base[u].data
              /\ r.box = base[u].box \/ (u \in Rewired(a) /\ r.box \in {"running", "broken"})
<1> DEFINE r == RewiredTo(base, a, down)[u]
           with(box) == [base[u] EXCEPT !.box = box]
<1>1. r = IF u \in down THEN with("broken")
          ELSE IF u \in Rewired(a) THEN with("running") ELSE base[u]
  BY DEF RewiredTo
<1>2. ASSUME NEW box \in {"running", "broken"}
      PROVE  /\ with(box) \in App /\ with(box).box = box
             /\ with(box).rec = base[u].rec /\ with(box).proj = base[u].proj
             /\ with(box).boot = base[u].boot /\ with(box).signin = base[u].signin
             /\ with(box).pin = base[u].pin /\ with(box).data = base[u].data
             /\ with(box).dropped = base[u].dropped
  BY DEF App
<1>3. u \in Rewired(a) => base[u].proj = "full"
  BY DEF Rewired
<1> HIDE DEF r, with
<1>4. CASE u \notin Rewired(a)
  <2>1. r = base[u]
    BY <1>1, <1>4
  <2>2. QED
    BY <2>1 DEF r
<1>5. CASE u \in Rewired(a)
  <2>1. PICK box \in {"running", "broken"} : r = with(box)
    BY <1>1, <1>5
  <2>2. Fits(r, u) /\ Entered(r)
    BY <1>2, <1>3, <1>5, <2>1 DEF Fits, Entered
  <2>3. QED
    BY <1>2, <1>5, <2>1, <2>2 DEF r
<1>6. QED
  BY <1>4, <1>5 DEF r

\* The users are rendered again after an installation.
LEMMA RewireKeeps ==
    ASSUME LifeInv, NEW a \in Apps, job.of = a, Rewire(a)
    PROVE  /\ LifeInv' /\ Fits(app'[a], a) /\ app'[a].rec = app[a].rec /\ app'[a].boot = app[a].boot
           /\ app'[a].proj = app[a].proj /\ app'[a].signin = app[a].signin
           /\ app'[a].box \in {app[a].box, "running", "broken"}
<1>1. JobAt("rewire") /\ Here(a) /\ NoTools /\ NoRoutes /\ Aside /\ Good(link') /\ Good(link)
  BY HereNow DEF Rewire, NoTools, LifeInv
<1>2. /\ job.do \in Installs /\ app[a].proj = "full" /\ ~app[a].boot
      /\ app[a].box \in {"running", "broken"} /\ a \in routes /\ a \in serve
      /\ app[a].signin /\ app[a].rec = "running"
  BY <1>1 DEF JobAt, Here, AtNeeds, AtControl, AtInstall, AtUninstall, ControlPlaces, FromHalt,
     FromPark, FromConnect, FromSignIn, FromVerify, FromSettle, FromPin, FromRecord, FromUnsign,
     FromRemove, FromUnroute, FromDown
<1>3. PICK down \in SUBSET Rewired(a) :
        Costs(Cardinality(down)) /\ app' = RewiredTo(app, a, down)
  BY DEF Rewire, RewiredTo
<1>4. \A u \in Apps : LET r == app'[u]
                      IN /\ r \in App /\ Fits(r, u) /\ Entered(r)
                         /\ r.rec = app[u].rec /\ r.proj = app[u].proj /\ r.boot = app[u].boot
                         /\ r.signin = app[u].signin /\ r.data = app[u].data
                         /\ \/ r.box = app[u].box
                            \/ (u \in Rewired(a) /\ r.box \in {"running", "broken"})
  BY <1>3, RewiredSound, AppFields
<1>5. trouble' \in 0..MaxMishaps
  <2>1. Rewired(a) \subseteq Apps
    BY LifeAssumption DEF Rewired
  <2>2. Cardinality(down) \in Nat
    BY <2>1, ConnectorsAssumption, FS_Subset, FS_CardinalityType
  <2>3. QED
    BY <1>3, <2>2, CostsSound
<1>6. app' \in [Apps -> App]
  BY <1>3, <1>4 DEF RewiredTo
<1>7. /\ routes' = routes /\ serve' = serve /\ approved' = approved /\ chosen' = chosen
      /\ queue' = queue /\ asks' = asks /\ link' = link
  BY <1>1 DEF NoRoutes, Aside, NoTools
<1>8. /\ job' = NoJob \/ (job' \in Job /\ job'.of = a /\ Here(a)')
      /\ last' \in {"none", "succeeded", "failed", "cancelled"}
  <2>1. CASE job.batch \/ job.setup
    <3>1. job # NoJob /\ "park" \in Places /\ GoesTo("park")
      BY <1>1, <2>1 DEF JobAt, Places, Rewire
    <3>2. /\ job' \in Job /\ job'.of = a /\ job'.do = job.do /\ job'.batch = job.batch
          /\ job'.setup = job.setup /\ job'.at = "park"
          /\ last' \in {"none", "succeeded", "failed", "cancelled"}
      BY <3>1, GoesSound
    <3>3. /\ app'[a].proj = "full" /\ ~app'[a].boot /\ app'[a].signin /\ app'[a].rec = "running"
          /\ app'[a].box \in {"running", "broken"}
      BY <1>2, <1>4
    <3>4. Here(a)'
      BY <1>2, <1>7, <2>1, <3>2, <3>3 DEF Here, AtNeeds, AtControl, AtInstall, AtUninstall,
         ControlPlaces, FromHalt, FromPark, FromConnect, FromSignIn, FromVerify, FromSettle,
         FromPin, FromRecord, FromUnsign, FromRemove, FromUnroute, FromDown
    <3>5. QED
      BY <3>2, <3>4
  <2>2. CASE ~(job.batch \/ job.setup)
    BY <2>2 DEF Rewire, Ends
  <2>3. QED
    BY <2>1, <2>2
<1>9. LifeTypes'
  BY <1>1, <1>5, <1>6, <1>7, <1>8 DEF LifeInv, LifeTypes, Good
<1>10. \A b \in Apps : Placed(b)'
  BY <1>4, <1>7 DEF Placed, Fits, Entered
<1>11. QueueInv'
  BY <1>7 DEF LifeInv, QueueInv
<1>12. PlaceInv'
  BY <1>8 DEF PlaceInv
<1>13. QED
  BY <1>1, <1>4, <1>9, <1>10, <1>11, <1>12 DEF LifeInv

\* The record goes, and the users are rendered again.
LEMMA GoneKeeps ==
    ASSUME LifeInv, NEW a \in Apps, job.of = a, Gone(a)
    PROVE  /\ LifeInv' /\ app'[a].rec = "none" /\ app'[a].box = "absent" /\ ~app'[a].signin
           /\ app'[a].proj = app[a].proj /\ app'[a].data = app[a].data
<1>1. JobAt("gone") /\ Here(a) /\ NoTools /\ NoRoutes /\ Aside /\ Good(link') /\ Good(link)
  BY HereNow DEF Gone, NoTools, LifeInv
<1>2. /\ app[a].rec = "uninstalling" /\ app[a].box = "absent" /\ a \notin routes /\ a \notin serve
      /\ app[a].proj # "full" /\ ~app[a].signin
  BY <1>1 DEF JobAt, Here, AtNeeds, AtControl, AtInstall, AtUninstall, ControlPlaces, FromHalt,
     FromPark, FromConnect, FromSignIn, FromVerify, FromSettle, FromPin, FromRecord, FromUnsign,
     FromRemove, FromUnroute, FromDown
<1> DEFINE left == [app EXCEPT ![a].rec = "none", ![a].since = FALSE]
<1>3. PICK down \in SUBSET Rewired(a) :
        Costs(Cardinality(down)) /\ app' = RewiredTo(left, a, down)
  BY DEF Gone, RewiredTo
<1>4. /\ left \in [Apps -> App] /\ \A u \in Apps \ {a} : left[u] = app[u]
      /\ left[a].rec = "none" /\ left[a].box = "absent" /\ left[a].proj = app[a].proj
      /\ left[a].pin = app[a].pin /\ left[a].data = app[a].data /\ ~left[a].signin
      /\ left[a].dropped = app[a].dropped
  <2> DEFINE now == [app[a] EXCEPT !.rec = "none", !.since = FALSE]
  <2>0. app \in [Apps -> App]
    BY AppFields
  <2>1. left = [app EXCEPT ![a] = now]
    BY <2>0
  <2> HIDE DEF left
  <2>2. /\ now \in App /\ now.rec = "none" /\ now.box = app[a].box /\ now.proj = app[a].proj
        /\ now.pin = app[a].pin /\ now.data = app[a].data /\ now.signin = app[a].signin
        /\ now.dropped = app[a].dropped
    BY AppFields DEF App, Records
  <2> HIDE DEF now
  <2>3. QED
    BY <1>2, <2>1, <2>2, AppFields
<1> HIDE DEF left
<1>5. \A u \in Apps : Fits(left[u], u) /\ Entered(left[u]) /\ left[u].proj = app[u].proj
  <2>1. Fits(left[a], a) /\ Entered(left[a])
    BY <1>2, <1>4, AppFields DEF Fits, Entered
  <2>2. QED
    BY <1>4, <2>1, AppFields
<1>6. \A u \in Apps : LET r == app'[u]
                      IN /\ r \in App /\ Fits(r, u) /\ Entered(r)
                         /\ r.rec = left[u].rec /\ r.proj = left[u].proj /\ r.boot = left[u].boot
                         /\ r.signin = left[u].signin /\ r.data = left[u].data
                         /\ \/ r.box = left[u].box
                            \/ (u \in Rewired(a) /\ r.box \in {"running", "broken"})
  BY <1>3, <1>4, <1>5, RewiredSound
<1>7. trouble' \in 0..MaxMishaps
  <2>1. Rewired(a) \subseteq Apps
    BY LifeAssumption DEF Rewired
  <2>2. Cardinality(down) \in Nat
    BY <2>1, ConnectorsAssumption, FS_Subset, FS_CardinalityType
  <2>3. QED
    BY <1>3, <2>2, CostsSound
<1>8. app' \in [Apps -> App]
  BY <1>3, <1>6 DEF RewiredTo
<1>9. /\ routes' = routes /\ serve' = serve /\ approved' = approved /\ chosen' = chosen
      /\ queue' = queue /\ asks' = asks /\ link' = link /\ job' = NoJob /\ last' = "succeeded"
  BY <1>1 DEF NoRoutes, Aside, NoTools, Gone, Ends
<1>10. LifeTypes'
  BY <1>1, <1>7, <1>8, <1>9 DEF LifeInv, LifeTypes, Good
<1>11. \A b \in Apps : Placed(b)'
  BY <1>6, <1>9 DEF Placed, Fits, Entered
<1>12. QueueInv' /\ PlaceInv'
  BY <1>9 DEF LifeInv, QueueInv, PlaceInv
<1>13. a \notin Rewired(a)
  BY <1>2 DEF Rewired
<1>14. QED
  BY <1>1, <1>4, <1>6, <1>10, <1>11, <1>12, <1>13 DEF LifeInv

\* A failed installation is reset.
LEMMA ResetKeeps ==
    ASSUME LifeInv, NEW a \in Apps, job.of = a, Reset(a)
    PROVE  LifeInv'
<1>1. NoTools /\ NoRoutes /\ Aside /\ Good(link')
  BY DEF Reset, NoTools, LifeInv
<1>2. CASE /\ UNCHANGED trouble /\ Ends("succeeded")
           /\ app' = [app EXCEPT ![a] = [Emptied(app[a]) EXCEPT !.rec = "none", !.since = FALSE]]
  <2> DEFINE r == Emptied(app[a])
             now == [r EXCEPT !.rec = "none", !.since = FALSE]
  <2>1. app' = [app EXCEPT ![a] = now]
    BY <1>2
  <2>2. r \in App /\ Fits(r, a)
    BY EmptiedSound
  <2> HIDE DEF r
  <2>3. /\ now \in App /\ now.rec = "none" /\ now.box = r.box /\ now.proj = r.proj
        /\ now.pin = r.pin /\ now.data = r.data /\ now.dropped = r.dropped
    BY <2>2 DEF App, Records
  <2> HIDE DEF now
  <2>4. Fits(now, a) /\ Entered(now)
    BY <2>2, <2>3 DEF Fits, Entered
  <2>5. /\ trouble' \in 0..MaxMishaps /\ job' = NoJob
        /\ last' \in {"none", "succeeded", "failed", "cancelled"}
    BY <1>2 DEF LifeInv, LifeTypes, Ends
  <2>6. QED
    BY <1>1, <2>1, <2>3, <2>4, <2>5, WorkKeeps
<1>3. CASE Costs(1) /\ \E now \in {app[a], Emptied(app[a])} : Failing(a, now)
  <2>1. PICK now \in {app[a], Emptied(app[a])} : Failing(a, now)
    BY <1>3
  <2>2. now \in App /\ Fits(now, a) /\ trouble' \in 0..MaxMishaps
    BY <1>3, EmptiedSound, AppFields, CostsSound
  <2>3. QED
    BY <1>1, <2>1, <2>2, FailingKeeps
<1>4. QED
  BY <1>2, <1>3 DEF Reset

\* An uninstallation stops the connectors, or forgets them.
LEMMA BeginUninstallKeeps ==
    ASSUME LifeInv, NEW a \in Apps, job.of = a, BeginUninstall(a)
    PROVE  LifeInv'
<1>1. job # NoJob /\ job.do \in Uninstalls /\ NoRoutes /\ Aside
  BY DEF BeginUninstall, JobAt
<1>2. PICK o \in Followings(link, a, FALSE) :
         /\ Become(IF job.do = "uninstall" THEN o.is ELSE Forgotten(o.is, a), o.cost)
         /\ IF o.end = "bad" THEN Failing(a, app[a])
            ELSE app' = [app EXCEPT ![a].rec = "uninstalling"] /\ GoesTo("down")
  BY DEF BeginUninstall
<1>3. /\ link \in [Conns -> Link] /\ \A c \in Conns : Sane(link[c])
  BY DEF LifeInv, Good
<1>4. /\ o.is \in [Conns -> Link] /\ o.cost \in Nat
      /\ \A c \in Conns : Sane(o.is[c]) /\ o.is[c].on = link[c].on
      /\ o.end \in {"ok", "bad"}
      /\ o.end = "ok" => \A c \in Enabled(link, a) : Idle(o.is[c]) \/ ~o.is[c].up
  BY <1>3, FollowingsSound
<1>5. Good(o.is)
  BY <1>4, FewerOn DEF LifeInv
<1>6. /\ Good(Forgotten(o.is, a))
      /\ \A c \in Conns : AppOf[c] = a => Forgotten(o.is, a)[c].on # "on"
  BY <1>5, ForgottenSound
<1>7. trouble' \in 0..MaxMishaps
  BY <1>2, <1>4, ConnectorsAssumption DEF LifeInv, LifeTypes, Become
<1>8. link' = IF job.do = "uninstall" THEN o.is ELSE Forgotten(o.is, a)
  BY <1>2 DEF Become
<1>9. Good(link')
  BY <1>5, <1>6, <1>8
<1>10. CASE Failing(a, app[a])
  BY <1>1, <1>7, <1>9, <1>10, AppFields, FailingKeeps
<1>11. CASE o.end # "bad"
  <2> DEFINE now == [app[a] EXCEPT !.rec = "uninstalling"]
  <2>1. app' = [app EXCEPT ![a] = now] /\ GoesTo("down") /\ "down" \in Places
    BY <1>2, <1>11, AppFields DEF Places
  <2>2. /\ now \in App /\ now.rec = "uninstalling" /\ now.box = app[a].box /\ now.proj = app[a].proj
        /\ now.pin = app[a].pin /\ now.data = app[a].data /\ now.dropped = app[a].dropped
    BY AppFields DEF App, Records
  <2> HIDE DEF now
  <2>3. Fits(now, a) /\ Entered(now) /\ app'[a] = now
    BY <2>1, <2>2, AppFields DEF Fits, Entered
  <2>4. /\ job' \in Job /\ job'.of = a /\ job'.do = job.do /\ job'.at = "down"
        /\ last' \in {"none", "succeeded", "failed", "cancelled"}
    BY <1>1, <2>1, GoesSound
  <2>5. Quiet(a)' /\ (job.do # "uninstall" => AllOff(a)')
    <3>1. CASE job.do = "uninstall"
      <4>1. link' = o.is /\ o.end = "ok"
        BY <1>4, <1>8, <1>11, <3>1
      <4>2. Enabled(link, a) = Enabled(link', a)
        BY <1>4, <4>1 DEF Enabled
      <4>3. QED
        BY <1>4, <3>1, <4>1, <4>2 DEF Quiet
    <3>2. CASE job.do # "uninstall"
      BY <1>6, <1>8, <3>2 DEF Quiet, AllOff, Enabled
    <3>3. QED
      BY <3>1, <3>2
  <2>6. Here(a)'
    BY <1>1, <2>2, <2>3, <2>4, <2>5 DEF Here, AtNeeds, AtControl, AtInstall, AtUninstall,
       ControlPlaces, FromHalt, FromPark, FromConnect, FromSignIn, FromVerify, FromSettle,
       FromPin, FromRecord, FromUnsign, FromRemove, FromUnroute, FromDown
  <2>7. QED
    BY <1>1, <1>7, <1>9, <2>1, <2>2, <2>3, <2>4, <2>6, WorkKeeps
<1>12. QED
  BY <1>2, <1>10, <1>11
-----------------------------------------------------------------------------
(* Start, stop and restart. *)

\* A needed app that is recorded as stopped has its files.
LEMMA NeededSound ==
    ASSUME LifeInv, NEW a \in Apps, NEW n \in NextNeeded(a)
    PROVE  n \in Apps /\ app[n].proj = "full"
<1>1. n \in Apps /\ app[n].rec = "stopped"
  BY LifeAssumption DEF NextNeeded, StoppedNeeds
<1>2. QED
  BY <1>1, AppFields DEF Entered

\* The job goes on with nothing else changed.
LEMMA GoesKeeps ==
    ASSUME LifeInv, NEW a \in Apps, job.of = a, job # NoJob, NEW at \in Places, GoesTo(at),
           UNCHANGED <<app, trouble>>, NoTools, NoRoutes, Aside, Here(a)'
    PROVE  LifeInv'
<1>1. job' \in Job /\ job'.of = a /\ last' \in {"none", "succeeded", "failed", "cancelled"}
  BY GoesSound
<1>2. app' = [app EXCEPT ![a] = app[a]] /\ app[a] \in App /\ Fits(app[a], a) /\ Entered(app[a])
  BY AppFields
<1>3. Good(link') /\ trouble' \in 0..MaxMishaps
  BY DEF NoTools, LifeInv, LifeTypes
<1>4. QED
  BY <1>1, <1>2, <1>3, WorkKeeps

\* A start begins, where the files are.
LEMMA BeginStartKeeps ==
    ASSUME LifeInv, NEW a \in Apps, job.of = a, BeginStart(a)
    PROVE  LifeInv'
<1>1. /\ job # NoJob /\ job.do \in Installs \cup {"start", "restart"}
      /\ job.do \in Installs \/ app[a].proj = "full"
      /\ UNCHANGED <<app, link, trouble>> /\ NoTools /\ NoRoutes /\ Aside
  BY DEF BeginStart, JobAt, NoTools
<1>2. CASE GoesTo("needs")
  <2>1. "needs" \in Places
    BY DEF Places
  <2>2. job'.at = "needs" /\ job'.do = job.do
    BY <1>1, <1>2, <2>1, GoesSound
  <2>3. Here(a)'
    BY <1>1, <2>2 DEF Here, AtNeeds, AtControl, AtInstall, AtUninstall, ControlPlaces, FromHalt,
       FromPark, FromConnect, FromSignIn, FromVerify, FromSettle, FromPin, FromRecord, FromUnsign,
       FromRemove, FromUnroute, FromDown
  <2>4. QED
    BY <1>1, <1>2, <2>1, <2>3, GoesKeeps
<1>3. CASE Ends("failed")
  <2>1. app' = [app EXCEPT ![a] = app[a]] /\ app[a] \in App /\ Fits(app[a], a) /\ Entered(app[a])
    BY <1>1, AppFields
  <2>2. /\ Good(link') /\ trouble' \in 0..MaxMishaps /\ job' = NoJob
        /\ last' \in {"none", "succeeded", "failed", "cancelled"}
    BY <1>1, <1>3 DEF LifeInv, LifeTypes, Ends
  <2>3. QED
    BY <1>1, <2>1, <2>2, WorkKeeps
<1>4. QED
  BY <1>2, <1>3 DEF BeginStart

\* Nothing is there to be started or stopped.
LEMMA BeginNothingKeeps ==
    ASSUME LifeInv, NEW a \in Apps, job.of = a, BeginNothing(a)
    PROVE  LifeInv'
<1>1. Failing(a, app[a]) /\ UNCHANGED <<link, trouble>> /\ NoRoutes /\ Aside
  BY DEF BeginNothing
<1>2. Good(link') /\ trouble' \in 0..MaxMishaps
  BY <1>1 DEF LifeInv, LifeTypes
<1>3. QED
  BY <1>1, <1>2, AppFields, FailingKeeps

\* A stop begins with the connectors.
LEMMA BeginStopKeeps ==
    ASSUME LifeInv, NEW a \in Apps, job.of = a, BeginStop(a)
    PROVE  LifeInv'
<1>1. job # NoJob /\ job.do = "stop" /\ app[a].proj = "full" /\ NoRoutes /\ Aside
  BY DEF BeginStop, JobAt
<1>2. CASE Follow(link, a, FALSE, "ok") /\ GoesTo("compose") /\ UNCHANGED app
  <2>1. "compose" \in Places /\ Good(link)
    BY DEF Places, LifeInv
  <2>2. job'.at = "compose" /\ job'.do = job.do
    BY <1>1, <1>2, <2>1, GoesSound
  <2>3. Quiet(a)'
    BY <1>2, <2>1, FollowSound DEF LifeInv, LifeTypes
  <2>4. Here(a)'
    BY <1>1, <1>2, <2>2, <2>3 DEF Here, AtNeeds, AtControl, AtInstall, AtUninstall, ControlPlaces,
       FromHalt, FromPark, FromConnect, FromSignIn, FromVerify, FromSettle, FromPin, FromRecord,
       FromUnsign, FromRemove, FromUnroute, FromDown
  <2>5. QED
    BY <1>1, <1>2, <2>1, <2>4, FollowKeeps
<1>3. CASE Follow(link, a, FALSE, "bad") /\ Failing(a, app[a])
  BY <1>1, <1>3, FollowFails
<1>4. QED
  BY <1>2, <1>3 DEF BeginStop

\* A step on an app that may not be the one of the job.
LEMMA PlainKeeps ==
    ASSUME LifeInv, NEW a \in Apps, NEW now \in App, app' = [app EXCEPT ![a] = now],
           Fits(now, a), Entered(now), NoRoutes, Aside,
           Good(link'), trouble' \in 0..MaxMishaps,
           last' \in {"none", "succeeded", "failed", "cancelled"},
           job' = NoJob \/ job' \in Job, PlaceInv'
    PROVE  LifeInv'
<1>1. \A b \in (routes' \cup serve') \ (routes \cup serve) :
         b \in Apps /\ app[b].proj = "full" /\ (b = a => now.proj = "full")
  BY DEF NoRoutes
<1>2. QED
  BY <1>1, AppKeeps

\* A needed app is started first.
LEMMA StartNeededKeeps ==
    ASSUME LifeInv, NEW a \in Apps, job.of = a, StartNeeded(a)
    PROVE  LifeInv'
<1>1. JobAt("needs") /\ Here(a) /\ NoRoutes /\ Aside
  BY HereNow DEF StartNeeded
<1>2. /\ job # NoJob /\ job.at = "needs" /\ job.do \in Installs \cup {"start", "restart"}
      /\ job.do \notin Installs => app[a].proj = "full"
  BY <1>1 DEF JobAt, Here, AtNeeds
<1>3. CASE /\ GoesTo(IF job.do \in Installs THEN "record" ELSE "compose")
           /\ UNCHANGED <<app, link, trouble>>
  <2> DEFINE at == IF job.do \in Installs THEN "record" ELSE "compose"
  <2>1. at \in Places /\ at \in {"record", "compose"} /\ (at = "record" <=> job.do \in Installs)
    BY DEF Places
  <2> HIDE DEF at
  <2>2. GoesTo(at)
    BY <1>3 DEF at
  <2>3. job'.at = at /\ job'.do = job.do
    BY <1>2, <2>1, <2>2, GoesSound
  <2>4. Here(a)'
    BY <1>2, <1>3, <2>1, <2>3 DEF Here, AtNeeds, AtControl, AtInstall, AtUninstall, ControlPlaces,
       FromHalt, FromPark, FromConnect, FromSignIn, FromVerify, FromSettle, FromPin, FromRecord,
       FromUnsign, FromRemove, FromUnroute, FromDown, Installs
  <2>5. QED
    BY <1>1, <1>2, <1>3, <2>1, <2>2, <2>4, GoesKeeps DEF NoTools
<1>4. ASSUME NEW n \in NextNeeded(a), NEW end \in {"ok", "bad"}, Follow(link, n, TRUE, end),
             app' = [app EXCEPT ![n].box = "running", ![n].rec = "running", ![n].since = TRUE],
             UNCHANGED <<job, last>>
      PROVE  LifeInv'
  <2> DEFINE now == [app[n] EXCEPT !.box = "running", !.rec = "running", !.since = TRUE]
  <2>1. n \in Apps /\ app[n].proj = "full"
    BY NeededSound
  <2>2. app \in [Apps -> App]
    BY AppFields
  <2>3. app' = [app EXCEPT ![n] = now]
    BY <1>4, <2>1, <2>2
  <2>4. /\ now \in App /\ now.proj = "full" /\ now.pin = app[n].pin /\ now.data = app[n].data
        /\ now.dropped = app[n].dropped
    BY <2>1, AppFields DEF App, Records
  <2> HIDE DEF now
  <2>5. Fits(now, n) /\ Entered(now)
    BY <2>1, <2>4, AppFields DEF Fits, Entered
  <2>6. Good(link') /\ trouble' \in 0..MaxMishaps
    BY <1>4, FollowSound DEF LifeInv, LifeTypes
  <2>7. job.do \notin Installs => app'[a].proj = "full"
    BY <1>2, <2>1, <2>2, <2>3, <2>4
  <2>8. PlaceInv'
    BY <1>2, <1>4, <2>7 DEF PlaceInv, Here, AtNeeds, AtControl, AtInstall, AtUninstall,
       ControlPlaces, FromHalt, FromPark, FromConnect, FromSignIn, FromVerify, FromSettle,
       FromPin, FromRecord, FromUnsign, FromRemove, FromUnroute, FromDown
  <2>9. QED
    BY <1>1, <1>4, <2>1, <2>3, <2>4, <2>5, <2>6, <2>8, PlainKeeps, JobFields, <1>2
       DEF LifeInv, LifeTypes
<1>5. ASSUME NEW n \in NextNeeded(a), Costs(IF app[n].box = "absent" THEN 0 ELSE 1), NoTools,
             app' \in {app, [app EXCEPT ![n].box = IF @ = "absent" THEN @ ELSE "broken"]},
             Ends("failed")
      PROVE  LifeInv'
  <2>1. n \in Apps /\ app[n].proj = "full"
    BY NeededSound
  <2>2. app \in [Apps -> App] /\ app[n].box \in {"absent", "stopped", "running", "broken"}
    BY <2>1, AppFields
  <2>3. PICK box \in {"absent", "stopped", "running", "broken"} :
           app' = [app EXCEPT ![n] = [app[n] EXCEPT !.box = box]]
    <3>1. CASE app' = app
      <4>1. app' = [app EXCEPT ![n] = [app[n] EXCEPT !.box = app[n].box]]
        BY <2>1, <2>2, <3>1, AppFields DEF App
      <4>2. QED
        BY <2>2, <4>1
    <3>2. CASE app' # app
      <4> DEFINE box == IF app[n].box = "absent" THEN app[n].box ELSE "broken"
      <4>1. app' = [app EXCEPT ![n] = [app[n] EXCEPT !.box = box]]
        BY <1>5, <2>1, <2>2, <3>2
      <4>2. box \in {"absent", "stopped", "running", "broken"}
        BY <2>2
      <4> HIDE DEF box
      <4>3. QED
        BY <4>1, <4>2
    <3>3. QED
      BY <3>1, <3>2
  <2>4. /\ [app[n] EXCEPT !.box = box] \in App /\ Fits([app[n] EXCEPT !.box = box], n)
        /\ Entered([app[n] EXCEPT !.box = box])
    BY <2>1, BoxSound
  <2>5. Good(link') /\ trouble' \in 0..MaxMishaps
    BY <1>5, CostsSound DEF LifeInv, NoTools
  <2>6. /\ job' = NoJob /\ PlaceInv' /\ last' \in {"none", "succeeded", "failed", "cancelled"}
    BY <1>5 DEF Ends, PlaceInv
  <2>7. QED
    BY <1>1, <2>1, <2>3, <2>4, <2>5, <2>6, PlainKeeps
<1>6. QED
  BY <1>3, <1>4, <1>5 DEF StartNeeded

\* The containers are started or stopped.
LEMMA ComposeKeeps ==
    ASSUME LifeInv, NEW a \in Apps, job.of = a, Compose(a)
    PROVE  LifeInv'
<1>1. JobAt("compose") /\ Here(a) /\ NoTools /\ NoRoutes /\ Aside /\ Good(link')
  BY HereNow DEF Compose, NoTools, LifeInv
<1>2. /\ job # NoJob /\ job.at = "compose" /\ job.do \in {"start", "restart", "stop"}
      /\ app[a].proj = "full" /\ (job.do = "stop" => Quiet(a))
  BY <1>1 DEF JobAt, Here, AtControl, ControlPlaces
<1>3. app \in [Apps -> App] /\ app[a].box \in {"absent", "stopped", "running", "broken"}
  BY AppFields
<1>4. ASSUME NEW box \in {"absent", "stopped", "running", "broken"},
             app' = [app EXCEPT ![a] = [app[a] EXCEPT !.box = box]],
             NEW at \in {"health", "recorded"}, GoesTo(at), UNCHANGED trouble,
             at = "health" => job.do # "stop",
             at = "recorded" => job.do = "stop" /\ box \in {"absent", "stopped"}
      PROVE  LifeInv'
  <2> DEFINE now == [app[a] EXCEPT !.box = box]
  <2>1. now \in App /\ Fits(now, a) /\ Entered(now)
    BY <1>2, BoxSound
  <2>2. app'[a] = now /\ now.box = box /\ now.proj = "full"
    BY <1>2, <1>3, <1>4, AppFields DEF App
  <2>3. at \in Places
    BY DEF Places
  <2>4. /\ job' \in Job /\ job'.of = a /\ job'.do = job.do /\ job'.at = at
        /\ last' \in {"none", "succeeded", "failed", "cancelled"}
    BY <1>2, <1>4, <2>3, GoesSound
  <2>5. trouble' \in 0..MaxMishaps
    BY <1>4 DEF LifeInv, LifeTypes
  <2>6. app' = [app EXCEPT ![a] = now]
    BY <1>4
  <2> HIDE DEF now
  <2>7. job.do = "stop" => Quiet(a)'
    BY <1>1, <1>2 DEF NoTools, Quiet, Enabled, Idle
  <2>8. Here(a)'
    BY <1>2, <1>4, <2>2, <2>4, <2>7 DEF Here, AtNeeds, AtControl, AtInstall, AtUninstall,
       ControlPlaces, FromHalt, FromPark, FromConnect, FromSignIn, FromVerify, FromSettle,
       FromPin, FromRecord, FromUnsign, FromRemove, FromUnroute, FromDown
  <2>9. QED
    BY <1>1, <2>1, <2>4, <2>5, <2>6, <2>8, WorkKeeps
<1>5. CASE /\ job.do # "stop" /\ app[a].box # "absent" /\ UNCHANGED trouble
           /\ app' = [app EXCEPT ![a].box = "running"] /\ GoesTo("health")
  <2>1. app' = [app EXCEPT ![a] = [app[a] EXCEPT !.box = "running"]]
    BY <1>3, <1>5
  <2>2. QED
    BY <1>4, <1>5, <2>1
<1>6. CASE /\ job.do = "stop" /\ UNCHANGED trouble
           /\ app' = [app EXCEPT ![a].box = IF @ = "absent" THEN @ ELSE "stopped"]
           /\ GoesTo("recorded")
  <2> DEFINE box == IF app[a].box = "absent" THEN app[a].box ELSE "stopped"
  <2>1. app' = [app EXCEPT ![a] = [app[a] EXCEPT !.box = box]]
    BY <1>3, <1>6
  <2>2. box \in {"absent", "stopped"}
    OBVIOUS
  <2> HIDE DEF box
  <2>3. QED
    BY <1>4, <1>6, <2>1, <2>2
<1>7. CASE Costs(IF app[a].box = "absent" THEN 0 ELSE 1) /\ Failing(a, app[a])
  <2>1. trouble' \in 0..MaxMishaps
    BY <1>7, CostsSound
  <2>2. QED
    BY <1>1, <1>7, <2>1, AppFields, FailingKeeps
<1>8. QED
  BY <1>5, <1>6, <1>7 DEF Compose

\* The health check of a start.
LEMMA HealthKeeps ==
    ASSUME LifeInv, NEW a \in Apps, job.of = a, Health(a)
    PROVE  LifeInv'
<1>1. JobAt("health") /\ Here(a) /\ NoTools /\ NoRoutes /\ Aside /\ Good(link')
  BY HereNow DEF Health, NoTools, LifeInv
<1>2. /\ job # NoJob /\ job.at = "health" /\ job.do \in {"start", "restart"}
      /\ app[a].proj = "full"
  BY <1>1 DEF JobAt, Here, AtControl, ControlPlaces
<1>3. CASE GoesTo("tools") /\ UNCHANGED <<app, trouble>>
  <2>1. "tools" \in Places
    BY DEF Places
  <2>2. job'.at = "tools" /\ job'.do = job.do
    BY <1>2, <1>3, <2>1, GoesSound
  <2>3. Here(a)'
    BY <1>2, <1>3, <2>2 DEF Here, AtNeeds, AtControl, AtInstall, AtUninstall, ControlPlaces,
       FromHalt, FromPark, FromConnect, FromSignIn, FromVerify, FromSettle, FromPin, FromRecord,
       FromUnsign, FromRemove, FromUnroute, FromDown
  <2>4. QED
    BY <1>1, <1>2, <1>3, <2>1, <2>3, GoesKeeps
<1>4. CASE /\ Costs(IF app[a].box = "running" THEN 1 ELSE 0)
           /\ Failing(a, [app[a] EXCEPT !.box = "broken"])
  <2>1. trouble' \in 0..MaxMishaps
    BY <1>4, CostsSound
  <2>2. [app[a] EXCEPT !.box = "broken"] \in App /\ Fits([app[a] EXCEPT !.box = "broken"], a)
    BY <1>2, BoxSound
  <2>3. QED
    BY <1>1, <1>4, <2>1, <2>2, FailingKeeps
<1>5. QED
  BY <1>3, <1>4 DEF Health

\* A stop goes from its containers to the record, so "tools" is of a start.
LEMMA ToolsKeeps ==
    ASSUME LifeInv, NEW a \in Apps, job.of = a, Tools(a)
    PROVE  LifeInv'
<1>1. JobAt("tools") /\ Here(a) /\ NoRoutes /\ Aside /\ GoesTo("recorded") /\ UNCHANGED app
  BY HereNow DEF Tools
<1>2. /\ job # NoJob /\ job.do \in {"start", "restart"} /\ app[a].proj = "full"
  BY <1>1 DEF JobAt, Here, AtControl, ControlPlaces
<1>3. PICK end \in {"ok", "bad"} : Follow(link, a, TRUE, end)
  BY DEF Tools
<1>4. "recorded" \in Places /\ Good(link)
  BY DEF Places, LifeInv
<1>5. job'.at = "recorded" /\ job'.do = job.do
  BY <1>1, <1>2, <1>4, GoesSound
<1>6. Here(a)'
  BY <1>1, <1>2, <1>5 DEF Here, AtNeeds, AtControl, AtInstall, AtUninstall, ControlPlaces,
     FromHalt, FromPark, FromConnect, FromSignIn, FromVerify, FromSettle, FromPin, FromRecord,
     FromUnsign, FromRemove, FromUnroute, FromDown
<1>7. QED
  BY <1>1, <1>2, <1>3, <1>4, <1>6, FollowKeeps

\* The record of a start or a stop.
LEMMA RecordedKeeps ==
    ASSUME LifeInv, NEW a \in Apps, job.of = a, Recorded(a)
    PROVE  LifeInv'
<1>1. JobAt("recorded") /\ Here(a) /\ NoRoutes /\ Aside /\ Ends("succeeded")
  BY HereNow DEF Recorded
<1>2. app[a].proj = "full" /\ app \in [Apps -> App]
  BY <1>1, AppFields DEF JobAt, Here, AtControl, ControlPlaces
<1> DEFINE stopped == [app[a] EXCEPT !.rec = "stopped"]
           running == [app[a] EXCEPT !.rec = "running", !.since = TRUE]
<1>3. \A now \in {stopped, running} :
         /\ now \in App /\ now.proj = "full" /\ now.pin = app[a].pin /\ now.data = app[a].data
         /\ now.dropped = app[a].dropped
  <2>1. app[a] \in App
    BY <1>2
  <2>2. /\ stopped \in App /\ stopped.proj = "full" /\ stopped.pin = app[a].pin
        /\ stopped.data = app[a].data /\ stopped.dropped = app[a].dropped
    BY <1>2, <2>1 DEF App, Records
  <2>3. /\ running \in App /\ running.proj = "full" /\ running.pin = app[a].pin
        /\ running.data = app[a].data /\ running.dropped = app[a].dropped
    BY <1>2, <2>1 DEF App, Records
  <2> HIDE DEF stopped, running
  <2> QED BY <2>2, <2>3
<1>4. app' = [app EXCEPT ![a] = IF job.do = "stop" THEN stopped ELSE running]
  BY <1>2 DEF Recorded
<1> HIDE DEF stopped, running
<1>5. PICK now \in {stopped, running} : app' = [app EXCEPT ![a] = now]
  BY <1>4
<1>6. now \in App /\ Fits(now, a) /\ Entered(now)
  BY <1>3, <1>5, AppFields DEF Fits, Entered
<1>7. /\ Good(link') /\ trouble' \in 0..MaxMishaps /\ job' = NoJob
      /\ last' \in {"none", "succeeded", "failed", "cancelled"}
  BY <1>1 DEF Recorded, LifeInv, LifeTypes, Ends
<1>8. QED
  BY <1>1, <1>5, <1>6, <1>7, WorkKeeps

\* The job is back at its beginning.
LEMMA BeginAgain ==
    ASSUME LifeInv, job # NoJob, job' = [job EXCEPT !.at = "begin"]
    PROVE  job' \in Job /\ PlaceInv'
<1>1. job' \in Job /\ job'.at = "begin"
  BY JobFields DEF Job, Places
<1>2. QED
  BY <1>1 DEF PlaceInv

\* The worker dies inside an operation on a connector.
LEMMA CutShortKeeps ==
    ASSUME LifeInv, NEW a \in Apps, job.of = a, CutShort(a)
    PROVE  LifeInv'
<1>1. job # NoJob /\ job' = [job EXCEPT !.at = "begin"] /\ UNCHANGED last /\ NoRoutes /\ Aside
  BY DEF CutShort, JobAt
<1>2. job' \in Job /\ PlaceInv' /\ last' \in {"none", "succeeded", "failed", "cancelled"}
  BY <1>1, BeginAgain DEF LifeInv, LifeTypes
<1>3. ASSUME NEW l, Good(l), Follow(l, a, TRUE, "cut"), UNCHANGED app
      PROVE  LifeInv'
  <2>1. Good(link') /\ trouble' \in 0..MaxMishaps
    BY <1>3, FollowSound DEF LifeInv, LifeTypes
  <2>2. app' = [app EXCEPT ![a] = app[a]] /\ app[a] \in App /\ Fits(app[a], a) /\ Entered(app[a])
    BY <1>3, AppFields
  <2>3. QED
    BY <1>1, <1>2, <2>1, <2>2, PlainKeeps
<1>4. ASSUME NEW n \in NextNeeded(a), app' = [app EXCEPT ![n].box = "running"],
             Follow(link, n, TRUE, "cut")
      PROVE  LifeInv'
  <2>1. n \in Apps /\ app[n].proj = "full"
    BY NeededSound
  <2>2. Good(link') /\ trouble' \in 0..MaxMishaps
    BY <1>4, FollowSound DEF LifeInv, LifeTypes
  <2> DEFINE now == [app[n] EXCEPT !.box = "running"]
  <2>3. app \in [Apps -> App]
    BY AppFields
  <2>4. app' = [app EXCEPT ![n] = now]
    BY <1>4, <2>1, <2>3
  <2>5. now \in App /\ Fits(now, n) /\ Entered(now)
    BY <2>1, BoxSound
  <2> HIDE DEF now
  <2>6. QED
    BY <1>1, <1>2, <2>1, <2>2, <2>4, <2>5, PlainKeeps
<1>5. Good(link) /\ Good(Preenabled(link, a))
  BY PreenabledSound DEF LifeInv
<1>6. QED
  BY <1>3, <1>4, <1>5 DEF CutShort

-----------------------------------------------------------------------------
(* Connectors, and the worker between two jobs. *)

\* Only the connectors change, and the job, which is at no place.
LEMMA LinksKeep ==
    ASSUME LifeInv, Good(link'), trouble' \in 0..MaxMishaps, UNCHANGED app, NoRoutes, Aside,
           last' \in {"none", "succeeded", "failed", "cancelled"},
           job' = NoJob \/ job' \in Job, PlaceInv'
    PROVE  LifeInv'
<1>1. LifeTypes'
  BY DEF LifeInv, LifeTypes, Good, NoRoutes, Aside
<1>2. \A b \in Apps : Placed(b)'
  BY DEF LifeInv, Placed, Fits, Entered, NoRoutes, Aside
<1>3. QueueInv'
  BY DEF LifeInv, QueueInv, Aside
<1>4. QED
  BY <1>1, <1>2, <1>3 DEF LifeInv

\* A job on a connector.
LEMMA WorkConnectorKeeps ==
    ASSUME LifeInv, NEW c \in Conns, job.of = c, WorkConnector(c)
    PROVE  LifeInv'
<1>1. JobAt("begin") /\ UNCHANGED app /\ NoRoutes /\ Aside
  BY DEF WorkConnector
<1>2. PICK end \in {"ok", "bad", "cut"} :
         /\ Execute(c, job.do, app[AppOf[c]].rec = "running", app[AppOf[c]].since, end)
         /\ CASE end = "ok"  -> Ends("succeeded")
              [] end = "bad" -> Ends("failed")
              [] OTHER       -> UNCHANGED <<job, last>>
  BY DEF WorkConnector
<1>3. Good(link') /\ trouble' \in 0..MaxMishaps
  BY <1>2, ExecuteSound DEF LifeInv, LifeTypes
<1>4. /\ job' = NoJob \/ (job' \in Job /\ job'.at = "begin")
      /\ last' \in {"none", "succeeded", "failed", "cancelled"}
  BY <1>1, <1>2, JobFields DEF JobAt, Ends, LifeInv, LifeTypes
<1>5. QED
  BY <1>1, <1>3, <1>4, LinksKeep DEF PlaceInv

\* The idle worker's look at the connectors of an app.
LEMMA ReconcileKeeps ==
    ASSUME LifeInv, NEW a \in Apps, Reconcile(a)
    PROVE  LifeInv'
<1>1. job' = NoJob /\ UNCHANGED <<app, last>> /\ NoRoutes /\ Aside
  BY DEF Reconcile
<1>2. (app[a].rec = "running" /\ app[a].box = "running") \in BOOLEAN
  OBVIOUS
<1>3. PICK end : Follow(link, a, app[a].rec = "running" /\ app[a].box = "running", end)
  BY DEF Reconcile, Reconciled
<1>4. Good(link') /\ trouble' \in 0..MaxMishaps
  BY <1>2, <1>3, FollowSound DEF LifeInv, LifeTypes
<1>5. QED
  BY <1>1, <1>4, LinksKeep DEF PlaceInv, LifeInv, LifeTypes

\* The queue changes, or what is counted, and nothing of the job's.
LEMMA QueueKeeps ==
    ASSUME LifeInv, UNCHANGED <<link, app, routes, serve, approved>>, chosen' \subseteq Choosers,
           trouble' \in 0..MaxMishaps, asks' \in 0..MaxAsks, job' = NoJob \/ job' \in Job,
           last' \in {"none", "succeeded", "failed", "cancelled"},
           QueueInv', Apart(queue'), PlaceInv'
    PROVE  LifeInv'
<1>1. LifeTypes'
  BY DEF LifeInv, LifeTypes, Good, Apart
<1>2. \A b \in Apps : Placed(b)'
  BY DEF LifeInv, Placed, Fits, Entered
<1>3. Good(link')
  BY DEF LifeInv
<1>4. QED
  BY <1>1, <1>2, <1>3 DEF LifeInv

\* The queue as it is.
LEMMA QueueFacts ==
    ASSUME LifeInv
    PROVE  queue \in Seq(Job) /\ Apart(queue) /\ Len(queue) \in Nat
BY DEF LifeInv, LifeTypes, QueueInv, Apart

\* A request is queued, the only one of its app or connector.
LEMMA PutQueues ==
    ASSUME LifeInv, NEW x \in Apps \cup Conns, NEW do \in AppActions \cup ConnActions,
           NEW batch \in BOOLEAN, Put(x, do, batch)
    PROVE  asks' \in 0..MaxAsks /\ job.of # x /\ QueueInv' /\ Apart(queue')
<1> DEFINE new == [of |-> x, do |-> do, batch |-> batch, at |-> "begin", setup |-> FALSE]
<1>1. /\ asks < MaxAsks /\ asks' = asks + 1 /\ queue' = Append(queue, new) /\ job.of # x
      /\ \A i \in 1..Len(queue) : queue[i].of # x
  BY DEF Put, Busy
<1>2. new \in Job /\ new.at = "begin" /\ new.of = x
  BY DEF Job, Places
<1> HIDE DEF new
<1>3. asks' \in 0..MaxAsks
  BY <1>1, LifeAssumption DEF LifeInv, LifeTypes
<1>4. /\ queue' \in Seq(Job) /\ Len(queue') = Len(queue) + 1
      /\ \A i \in 1..Len(queue) : queue'[i] = queue[i]
      /\ queue'[Len(queue) + 1] = new
  BY <1>1, <1>2, QueueFacts, AppendProperties
<1>5. \A i \in 1..Len(queue') : i \in 1..Len(queue) \/ i = Len(queue) + 1
  BY <1>4, QueueFacts
<1>6. QueueInv'
  BY <1>2, <1>4, <1>5 DEF QueueInv, LifeInv
<1>7. Apart(queue')
  BY <1>1, <1>2, <1>4, <1>5, QueueFacts DEF Apart
<1>8. QED
  BY <1>1, <1>3, <1>6, <1>7

\* The place of a job holds through what happens to the record of another app.
LEMMA PlaceStays ==
    ASSUME LifeInv, NEW a \in Apps, job.of # a, \A b \in Apps \ {a} : app'[b] = app[b],
           UNCHANGED <<link, routes, serve, approved, job>>
    PROVE  PlaceInv'
<1>1. SUFFICES ASSUME job # NoJob, job.at # "begin"
               PROVE  job.of \in Apps /\ Here(job.of)'
  BY DEF PlaceInv
<1>2. job.of \in Apps \ {a} /\ Here(job.of)
  BY <1>1 DEF LifeInv, PlaceInv
<1>3. /\ app'[job.of] = app[job.of]
      /\ Quiet(job.of)' = Quiet(job.of) /\ AllOff(job.of)' = AllOff(job.of)
  BY <1>2 DEF Quiet, AllOff
<1>4. QED
  BY <1>2, <1>3 DEF Here, AtNeeds, AtControl, AtInstall, AtUninstall, ControlPlaces, FromHalt,
     FromPark, FromConnect, FromSignIn, FromVerify, FromSettle, FromPin, FromRecord, FromUnsign,
     FromRemove, FromUnroute, FromDown

\* Only the job's counters and the queue change.
LEMMA PlaceHolds ==
    ASSUME LifeInv, UNCHANGED <<link, app, routes, serve, approved, job>>
    PROVE  PlaceInv'
BY DEF LifeInv, PlaceInv, Quiet, AllOff, Here, AtNeeds, AtControl, AtInstall, AtUninstall,
   ControlPlaces, FromHalt, FromPark, FromConnect, FromSignIn, FromVerify, FromSettle, FromPin,
   FromRecord, FromUnsign, FromRemove, FromUnroute, FromDown

\* A request writes the record of an app that no job is working on.
LEMMA RequestKeeps ==
    ASSUME LifeInv, NEW a \in Apps, NEW now \in App, app' = [app EXCEPT ![a] = now],
           Fits(now, a), Entered(now), NEW do \in AppActions, NEW batch \in BOOLEAN,
           Put(a, do, batch),
           UNCHANGED <<link, trouble, routes, serve, approved, chosen, job, last>>
    PROVE  LifeInv'
<1>1. asks' \in 0..MaxAsks /\ job.of # a /\ QueueInv' /\ Apart(queue')
  BY PutQueues
<1>2. app' \in [Apps -> App] /\ app'[a] = now /\ \A b \in Apps \ {a} : app'[b] = app[b]
  BY DEF LifeInv, LifeTypes
<1>3. PlaceInv'
  BY <1>1, <1>2, PlaceStays
<1>4. LifeTypes'
  BY <1>1, <1>2 DEF LifeInv, LifeTypes, Good, Apart
<1>5. ASSUME NEW b \in Apps
      PROVE  Placed(b)'
  BY <1>2, <1>5 DEF LifeInv, Placed, Fits, Entered
<1>6. QED
  BY <1>1, <1>3, <1>4, <1>5 DEF LifeInv

\* A request on an app's page.
LEMMA AskKeeps ==
    ASSUME LifeInv, NEW a \in Apps, NEW do \in AppActions, Ask(a, do)
    PROVE  LifeInv'
<1> DEFINE rec == IF do \in Uninstalls THEN "uninstalling" ELSE "queued"
           now == [app[a] EXCEPT !.rec = rec]
<1>1. rec \in {"uninstalling", "queued"}
  OBVIOUS
<1> HIDE DEF rec
<1>2. now \in App /\ now.rec = rec /\ now.proj = app[a].proj /\ now.box = app[a].box
      /\ now.pin = app[a].pin /\ now.data = app[a].data /\ now.dropped = app[a].dropped
  BY <1>1, AppFields DEF App, Records
<1>3. app' = [app EXCEPT ![a] = now]
  BY AppFields DEF Ask, rec
<1> HIDE DEF now
<1>4. Fits(now, a) /\ Entered(now)
  BY <1>1, <1>2, AppFields DEF Fits, Entered
<1>5. QED
  BY <1>2, <1>3, <1>4, RequestKeeps DEF Ask

\* A request of a batch.
LEMMA AskBatchKeeps ==
    ASSUME LifeInv, NEW a \in Apps, NEW do \in {"install", "reset"}, AskBatch(a, do)
    PROVE  LifeInv'
<1> DEFINE queued == [app[a] EXCEPT !.rec = "queued"]
<1>1. /\ queued \in App /\ queued.rec = "queued"
      /\ queued.proj = app[a].proj /\ queued.box = app[a].box
      /\ queued.pin = app[a].pin /\ queued.data = app[a].data /\ queued.dropped = app[a].dropped
  BY AppFields DEF App, Records
<1>2. app' = [app EXCEPT ![a] = queued] \/ app' = [app EXCEPT ![a] = app[a]]
  BY AppFields DEF AskBatch
<1> HIDE DEF queued
<1>3. PICK now \in {queued, app[a]} : app' = [app EXCEPT ![a] = now]
  BY <1>2
<1>4. now \in App /\ Fits(now, a) /\ Entered(now)
  BY <1>1, <1>3, AppFields DEF Fits, Entered
<1>5. do \in AppActions
  BY DEF AppActions, Installs
<1>6. QED
  BY <1>3, <1>4, <1>5, RequestKeeps DEF AskBatch

\* A request on a connector's page.
LEMMA AskConnectorKeeps ==
    ASSUME LifeInv, NEW c \in Conns, NEW do \in ConnActions, AskConnector(c, do)
    PROVE  LifeInv'
<1>1. /\ Put(c, do, FALSE)
      /\ UNCHANGED <<link, trouble, app, routes, serve, approved, chosen, job, last>>
  BY DEF AskConnector
<1>2. asks' \in 0..MaxAsks /\ QueueInv' /\ Apart(queue')
  BY <1>1, PutQueues
<1>3. PlaceInv'
  BY <1>1, PlaceHolds
<1>4. QED
  BY <1>1, <1>2, <1>3, QueueKeeps DEF LifeInv, LifeTypes

\* The owner makes a choice, or takes it back.
LEMMA ChooseKeeps ==
    ASSUME LifeInv, NEW a \in Choosers, Choose(a)
    PROVE  LifeInv'
<1>1. /\ UNCHANGED <<link, trouble, app, routes, serve, approved, queue, job, last>>
      /\ chosen' \subseteq Choosers /\ asks' \in 0..MaxAsks
  BY LifeAssumption DEF Choose, LifeInv, LifeTypes
<1>2. PlaceInv' /\ QueueInv' /\ Apart(queue')
  BY <1>1, PlaceHolds, QueueFacts DEF LifeInv, QueueInv
<1>3. QED
  BY <1>1, <1>2, QueueKeeps DEF LifeInv, LifeTypes

\* The data of a deletion that ends differs from what is approved, so nothing
\* newer was pulled while it was at that place.
LEMMA PullKeeps ==
    ASSUME LifeInv, Pull
    PROVE  LifeInv'
<1>1. /\ approved = 1 /\ approved' = 2
      /\ UNCHANGED <<link, trouble, app, routes, serve, chosen, queue, job, last, asks>>
  BY DEF Pull
<1>2. LifeTypes' /\ Good(link') /\ QueueInv'
  BY <1>1 DEF LifeInv, LifeTypes, Good, QueueInv, Releases
<1>3. ASSUME NEW b \in Apps
      PROVE  Placed(b)'
  <2>1. app[b].pin \in 0..2 /\ app[b].data \in 0..2
    BY AppFields DEF Releases
  <2>2. QED
    BY <1>1, <2>1, AppFields DEF Placed, Fits, Entered
<1>4. ASSUME job # NoJob, job.at # "begin"
      PROVE  Here(job.of)'
  <2>1. job.of \in Apps /\ Here(job.of)
    BY <1>4 DEF LifeInv, PlaceInv
  <2>2. Quiet(job.of)' = Quiet(job.of) /\ AllOff(job.of)' = AllOff(job.of)
    BY <1>1 DEF Quiet, AllOff
  <2>3. QED
    BY <1>1, <2>1, <2>2 DEF Here, AtNeeds, AtControl, AtInstall, AtUninstall, ControlPlaces,
       FromHalt, FromPark, FromConnect, FromSignIn, FromVerify, FromSettle, FromPin, FromRecord,
       FromUnsign, FromRemove, FromUnroute, FromDown
<1>5. PlaceInv'
  BY <1>1, <1>4 DEF PlaceInv, LifeInv
<1>6. QED
  BY <1>2, <1>3, <1>5 DEF LifeInv

\* A connector by itself: a credential entered, a container that stops.
LEMMA SlightKeeps ==
    ASSUME LifeInv, NEW c \in Conns, EnterKey(c) \/ ToolBreaks(c)
    PROVE  LifeInv'
<1>1. /\ PutKey(c) \/ ConnDies(c)
      /\ UNCHANGED <<app, routes, serve, approved, chosen, queue, job, last>>
      /\ asks' \in 0..MaxAsks
  BY LifeAssumption DEF EnterKey, ToolBreaks, LifeInv, LifeTypes
<1>2. /\ Good(link') /\ trouble' \in 0..MaxMishaps
      /\ \A a \in Apps : (Quiet(a) => Quiet(a)') /\ (AllOff(a) => AllOff(a)')
  BY <1>1, SlightSound DEF LifeInv, LifeTypes
<1>3. LifeTypes' /\ QueueInv' /\ \A b \in Apps : Placed(b)'
  BY <1>1, <1>2 DEF LifeInv, LifeTypes, Good, QueueInv, Placed, Fits, Entered
<1>4. ASSUME job # NoJob, job.at # "begin"
      PROVE  job.of \in Apps /\ Here(job.of)'
  <2>1. job.of \in Apps /\ Here(job.of)
    BY <1>4 DEF LifeInv, PlaceInv
  <2>2. (Quiet(job.of) => Quiet(job.of)') /\ (AllOff(job.of) => AllOff(job.of)')
    BY <1>1, <1>2, <2>1
  <2>3. QED
    BY <1>1, <2>1, <2>2 DEF Here, AtNeeds, AtControl, AtInstall, AtUninstall, ControlPlaces,
       FromHalt, FromPark, FromConnect, FromSignIn, FromVerify, FromSettle, FromPin, FromRecord,
       FromUnsign, FromRemove, FromUnroute, FromDown
<1>5. PlaceInv'
  BY <1>1, <1>4 DEF PlaceInv
<1>6. QED
  BY <1>2, <1>3, <1>5 DEF LifeInv

\* Containers that stop by themselves, also those of the app at work.
LEMMA BreaksKeeps ==
    ASSUME LifeInv, NEW a \in Apps, Breaks(a)
    PROVE  LifeInv'
<1> DEFINE now == [app[a] EXCEPT !.box = "broken"]
<1>1. /\ app[a].box = "running" /\ app' = [app EXCEPT ![a] = now]
      /\ trouble' \in 0..MaxMishaps
      /\ UNCHANGED <<link, routes, serve, approved, chosen, queue, job, last, asks>>
  BY AppFields, ConnectorsAssumption DEF Breaks, LifeInv, LifeTypes
<1>2. app[a].proj = "full"
  BY <1>1, AppFields DEF Fits
<1>3. /\ now \in App
      /\ now.rec = app[a].rec /\ now.box = "broken" /\ now.boot = app[a].boot
      /\ now.proj = app[a].proj /\ now.data = app[a].data /\ now.signin = app[a].signin
  BY AppFields DEF App
<1>4. Fits(now, a) /\ Entered(now)
  BY <1>2, BoxSound
<1> HIDE DEF now
<1>5. app'[a] = now /\ \A b \in Apps \ {a} : app'[b] = app[b]
  BY <1>1, AppFields
<1>6. ASSUME job # NoJob, job.at # "begin"
      PROVE  job.of \in Apps /\ Here(job.of)'
  <2>1. job.of \in Apps /\ Here(job.of)
    BY <1>6 DEF LifeInv, PlaceInv
  <2>2. Quiet(job.of)' = Quiet(job.of) /\ AllOff(job.of)' = AllOff(job.of)
    BY <1>1 DEF Quiet, AllOff
  <2>3. CASE job.of = a
    BY <1>1, <1>2, <1>3, <1>5, <2>1, <2>2, <2>3 DEF Here, AtNeeds, AtControl, AtInstall,
       AtUninstall, ControlPlaces, FromHalt, FromPark, FromConnect, FromSignIn, FromVerify,
       FromSettle, FromPin, FromRecord, FromUnsign, FromRemove, FromUnroute, FromDown
  <2>4. CASE job.of # a
    BY <1>1, <1>5, <2>1, <2>2, <2>4 DEF Here, AtNeeds, AtControl, AtInstall, AtUninstall,
       ControlPlaces, FromHalt, FromPark, FromConnect, FromSignIn, FromVerify, FromSettle,
       FromPin, FromRecord, FromUnsign, FromRemove, FromUnroute, FromDown
  <2>5. QED
    BY <2>1, <2>3, <2>4
<1>7. PlaceInv'
  BY <1>1, <1>6 DEF PlaceInv
<1>8. Aside /\ NoRoutes /\ Good(link')
  BY <1>1 DEF Aside, NoRoutes, LifeInv
<1>9. QED
  BY <1>1, <1>3, <1>4, <1>7, <1>8, PlainKeeps DEF LifeInv, LifeTypes

-----------------------------------------------------------------------------
(* The worker and the queue. *)

\* The oldest job is taken up.
LEMMA TakeUpKeeps ==
    ASSUME LifeInv, TakeUp
    PROVE  LifeInv'
<1>1. /\ queue # <<>> /\ job' = Head(queue) /\ queue' = Tail(queue) /\ last' = "none"
      /\ UNCHANGED <<link, trouble, app, routes, serve, approved, chosen, asks>>
  BY DEF TakeUp
<1>2. /\ Head(queue) \in Job /\ Head(queue) = queue[1] /\ 1 \in 1..Len(queue)
      /\ Tail(queue) \in Seq(Job) /\ Len(Tail(queue)) = Len(queue) - 1
      /\ \A i \in 1..Len(Tail(queue)) : Tail(queue)[i] = queue[i + 1] /\ i + 1 \in 1..Len(queue)
  BY <1>1, QueueFacts, HeadTailProperties
<1>3. job' \in Job /\ job'.at = "begin"
  BY <1>1, <1>2 DEF LifeInv, QueueInv
<1>4. QueueInv'
  BY <1>1, <1>2 DEF LifeInv, QueueInv
<1>5. Apart(queue')
  <2>1. ASSUME NEW i \in 1..Len(queue'), NEW k \in 1..Len(queue'), queue'[i].of = queue'[k].of
        PROVE  i = k
    <3>1. i + 1 = k + 1
      BY <1>1, <1>2, <2>1, QueueFacts DEF Apart
    <3>2. QED
      BY <3>1
  <2>2. QED
    BY <2>1 DEF Apart
<1>6. PlaceInv'
  BY <1>3 DEF PlaceInv
<1>7. QED
  BY <1>1, <1>3, <1>4, <1>5, <1>6, QueueKeeps DEF LifeInv, LifeTypes

\* The worker dies.
LEMMA DiesKeeps ==
    ASSUME LifeInv, Dies
    PROVE  LifeInv'
<1>1. /\ job # NoJob /\ job' = [job EXCEPT !.at = "begin"] /\ trouble' \in 0..MaxMishaps
      /\ UNCHANGED <<link, app, routes, serve, approved, chosen, queue, last, asks>>
  BY ConnectorsAssumption DEF Dies, LifeInv, LifeTypes
<1>2. job' \in Job /\ PlaceInv'
  BY <1>1, BeginAgain
<1>3. QED
  BY <1>1, <1>2, LinksKeep DEF NoRoutes, Aside, LifeInv, LifeTypes

\* The running job is cancelled where it is.
LEMMA CancelRunningKeeps ==
    ASSUME LifeInv, CancelRunning
    PROVE  LifeInv'
<1>1. /\ job' = NoJob /\ last' = "cancelled" /\ trouble' \in 0..MaxMishaps
      /\ UNCHANGED <<link, app, routes, serve, approved, chosen, queue, asks>>
  BY ConnectorsAssumption DEF CancelRunning, Ends, LifeInv, LifeTypes
<1>2. QED
  BY <1>1, LinksKeep DEF NoRoutes, Aside, PlaceInv, LifeInv

\* A sequence without its i-th element.
Without(q, i) == SubSeq(q, 1, i - 1) \o SubSeq(q, i + 1, Len(q))

\* What is left of a sequence, and where it was.
LEMMA WithoutOne ==
    ASSUME NEW S, NEW q \in Seq(S), NEW i \in 1..Len(q)
    PROVE  /\ Without(q, i) \in Seq(S) /\ Len(Without(q, i)) = Len(q) - 1
           /\ \A k \in 1..Len(Without(q, i)) : Without(q, i)[k] = IF k < i THEN q[k] ELSE q[k + 1]
<1> DEFINE r == Without(q, i)
           u == SubSeq(q, 1, i - 1)
           v == SubSeq(q, i + 1, Len(q))
<1>0. Len(q) \in Nat /\ i \in Nat /\ i >= 1 /\ i <= Len(q)
  OBVIOUS
<1>1. u \in Seq(S) /\ Len(u) = i - 1 /\ \A k \in 1..(i - 1) : u[k] = q[k]
  <2>1. \A k \in 1..(i - 1) : q[k] \in S
    BY <1>0
  <2>2. 1 \in 1..(Len(q) + 1) /\ i - 1 \in 0..Len(q)
    BY <1>0
  <2>3. u = [k \in 1..(i - 1) |-> q[1 + k - 1]]
    BY <1>0, <2>2
  <2>4. QED
    BY <1>0, <2>1, <2>3
<1>2. v \in Seq(S) /\ Len(v) = Len(q) - i /\ \A k \in 1..(Len(q) - i) : v[k] = q[k + i]
  <2>1. \A k \in 1..(Len(q) - i) : k + i \in 1..Len(q) /\ q[k + i] \in S
    BY <1>0
  <2>3. v = [k \in 1..(Len(q) - i) |-> q[i + k]]
    BY <1>0
  <2>4. QED
    BY <1>0, <2>1, <2>3
<1>a. r = u \o v
  BY DEF Without
<1> HIDE DEF r, u, v
<1>b. /\ u \o v \in Seq(S) /\ Len(u \o v) = Len(u) + Len(v)
      /\ \A k \in 1..(Len(u) + Len(v)) : (u \o v)[k] = IF k <= Len(u) THEN u[k] ELSE v[k - Len(u)]
  BY <1>1, <1>2, ConcatProperties
<1>3. /\ r \in Seq(S) /\ Len(r) = Len(u) + Len(v)
      /\ \A k \in 1..(Len(u) + Len(v)) : r[k] = IF k <= Len(u) THEN u[k] ELSE v[k - Len(u)]
  BY <1>a, <1>b, Zenon
<1>4. /\ Len(r) = Len(q) - 1
      /\ \A k \in 1..Len(r) : r[k] = IF k <= i - 1 THEN u[k] ELSE v[k - (i - 1)]
  BY <1>0, <1>1, <1>2, <1>3
<1>5. ASSUME NEW k \in 1..Len(r)
      PROVE  r[k] = IF k < i THEN q[k] ELSE q[k + 1]
  <2>1. CASE k < i
    <3>1. k \in 1..(i - 1) /\ k <= i - 1
      BY <1>0, <2>1
    <3>2. QED
      BY <1>1, <1>4, <2>1, <3>1
  <2>2. CASE ~(k < i)
    <3> DEFINE m == k - (i - 1)
    <3>1. m \in 1..(Len(q) - i) /\ ~(k <= i - 1) /\ m + i = k + 1
      BY <1>0, <1>4, <2>2
    <3>2. r[k] = v[m]
      BY <1>4, <3>1
    <3> HIDE DEF m
    <3>3. v[m] = q[k + 1]
      BY <1>2, <3>1
    <3>4. QED
      BY <2>2, <3>2, <3>3
  <2>3. QED
    BY <2>1, <2>2
<1>6. QED
  BY <1>3, <1>4, <1>5 DEF r

\* A waiting job is cancelled.
LEMMA CancelQueuedKeeps ==
    ASSUME LifeInv, CancelQueued
    PROVE  LifeInv'
<1>1. /\ trouble' \in 0..MaxMishaps
      /\ UNCHANGED <<link, app, routes, serve, approved, chosen, job, last, asks>>
  BY ConnectorsAssumption DEF CancelQueued, LifeInv, LifeTypes
<1>2. PICK i \in 1..Len(queue) : queue' = Without(queue, i)
  BY DEF CancelQueued, Without
<1> DEFINE from(k) == IF k < i THEN k ELSE k + 1
<1>3. queue \in Seq(Job) /\ Len(queue) \in Nat
  BY QueueFacts
<1>4. /\ queue' \in Seq(Job) /\ Len(queue') = Len(queue) - 1
      /\ \A k \in 1..Len(queue') : queue'[k] = IF k < i THEN queue[k] ELSE queue[k + 1]
  BY <1>2, <1>3, WithoutOne
<1>5. /\ \A k \in 1..Len(queue') : queue'[k] = queue[from(k)] /\ from(k) \in 1..Len(queue)
      /\ \A k, m \in 1..Len(queue') : from(k) = from(m) => k = m
  BY <1>3, <1>4
<1> HIDE DEF from
<1>6. QueueInv'
  BY <1>4, <1>5 DEF LifeInv, QueueInv
<1>7. Apart(queue')
  BY <1>5, QueueFacts DEF Apart
<1>8. PlaceInv'
  BY <1>1, PlaceHolds
<1>9. QED
  BY <1>1, <1>6, <1>7, <1>8, QueueKeeps DEF LifeInv, LifeTypes

-----------------------------------------------------------------------------
(* The invariant of the whole. *)

\* It holds at first.
LEMMA InitSound == LifeInit => LifeInv
<1> SUFFICES ASSUME LifeInit
             PROVE  LifeInv
  OBVIOUS
<1>1. NewLink \in Link /\ ~NewLink.up /\ NewLink.on = "never"
  BY DEF NewLink, Link, LinkStates
<1>2. /\ NewApp \in App /\ NewApp.box = "absent" /\ NewApp.rec = "none" /\ NewApp.pin = 0
      /\ NewApp.data = 0
  BY DEF NewApp, App, Records
<1>3. Good(link)
  <2>1. link = [c \in Conns |-> NewLink]
    BY DEF LifeInit
  <2> HIDE DEF NewLink
  <2>2. QED
    BY <1>1, <2>1 DEF Good, Sane
<1>4. \A b \in Apps : app[b] = NewApp
  BY DEF LifeInit
<1>5. LifeTypes
  BY <1>2, <1>3, ConnectorsAssumption, LifeAssumption
     DEF LifeInit, LifeTypes, Good, Releases
<1>6. \A b \in Apps : Placed(b)
  <2>1. routes = {} /\ serve = {} /\ approved = 1
    BY DEF LifeInit
  <2> HIDE DEF NewApp
  <2>2. QED
    BY <1>2, <1>4, <2>1 DEF Placed, Fits, Entered
<1>7. QueueInv /\ PlaceInv
  BY DEF LifeInit, QueueInv, PlaceInv
<1>8. QED
  BY <1>3, <1>5, <1>6, <1>7 DEF LifeInv

\* It holds when nothing happens.
LEMMA LifeStutterKeeps ==
    ASSUME LifeInv, UNCHANGED lifeVars
    PROVE  LifeInv'
<1>1. PlaceInv'
  BY PlaceHolds DEF lifeVars
<1>2. QED
  BY <1>1, QueueKeeps, QueueFacts DEF lifeVars, LifeInv, LifeTypes, QueueInv

\* Every step of a job of an app keeps it.
LEMMA AppStepKeeps ==
    ASSUME LifeInv, NEW a \in Apps, AppStep(a)
    PROVE  LifeInv'
<1>0. job.of = a
  BY DEF AppStep
<1>1. CASE InstallStep(a)
  BY <1>0, <1>1, RecordKeeps, RenderKeeps, PinKeeps, OidcKeeps, UpKeeps, SettleKeeps, VerifyKeeps,
     RouteKeeps, SignInKeeps, ConnectToolsKeeps, RewireKeeps, ParkKeeps, HaltAppKeeps
     DEF InstallStep
<1>2. CASE ControlStep(a)
  BY <1>0, <1>2, BeginStartKeeps, BeginStopKeeps, BeginNothingKeeps, StartNeededKeeps,
     ComposeKeeps,
     HealthKeeps, ToolsKeeps, RecordedKeeps
     DEF ControlStep
<1>3. CASE UninstallStep(a)
  BY <1>0, <1>3, BeginUninstallKeeps, TakeDownKeeps, UnrouteKeeps, RemoveKeeps, UnsignKeeps,
     DeleteDataKeeps, GoneKeeps
     DEF UninstallStep
<1>4. QED
  BY <1>0, <1>1, <1>2, <1>3, ResetKeeps, CutShortKeeps DEF AppStep

\* Everything around the worker keeps it.
LEMMA AroundStepKeeps ==
    ASSUME LifeInv, Around
    PROVE  LifeInv'
BY AskKeeps, BreaksKeeps, AskBatchKeeps, AskConnectorKeeps, SlightKeeps, ChooseKeeps, PullKeeps,
   DiesKeeps, CancelRunningKeeps, CancelQueuedKeeps
   DEF Around

\* Every step keeps it.
LEMMA NextKeeps ==
    ASSUME LifeInv, [LifeNext]_lifeVars
    PROVE  LifeInv'
<1>1. CASE Worker
  BY <1>1, TakeUpKeeps, AppStepKeeps, WorkConnectorKeeps DEF Worker, ConnStep
<1>2. CASE \E a \in Apps : Reconcile(a)
  BY <1>2, ReconcileKeeps
<1>3. QED
  BY <1>1, <1>2, AroundStepKeeps, LifeStutterKeeps DEF LifeNext

\* The inductive invariant holds in every behaviour.
THEOREM LifeInvariance == LifeSpec => []LifeInv
<1>1. LifeInit => LifeInv
  BY InitSound
<1>2. LifeInv /\ [LifeNext]_lifeVars => LifeInv'
  BY NextKeeps
<1>3. QED
  BY <1>1, <1>2, PTL DEF LifeSpec

\* The invariant leaves one connector an app.
LEMMA OneIsOn ==
    ASSUME LifeInv
    PROVE  OneConnectorPerApp
<1> SUFFICES ASSUME NEW a \in Apps
             PROVE  Cardinality(Enabled(link, a)) <= 1
  BY DEF OneConnectorPerApp
<1>1. CASE Enabled(link, a) = {}
  BY <1>1, FS_EmptySet
<1>2. CASE Enabled(link, a) # {}
  <2>1. PICK c \in Conns : c \in Enabled(link, a)
    BY <1>2 DEF Enabled
  <2>2. Enabled(link, a) = {c}
    BY <2>1 DEF Enabled, LifeInv, Good
  <2>3. Cardinality({c}) = 1
    BY FS_Singleton
  <2>4. QED
    BY <2>2, <2>3
<1>3. QED
  BY <1>1, <1>2

\* Of an app at most one chat connector is ever switched on, whichever of
\* several was asked for, switched to, cut short or followed its app in between
\* (mcp_ops.execute_claimed, preenable, sync_application).
THEOREM OneConnectorThroughout == LifeSpec => []OneConnectorPerApp
<1>1. LifeInv => OneConnectorPerApp
  BY OneIsOn
<1>2. QED
  BY <1>1, LifeInvariance, PTL

-----------------------------------------------------------------------------
(* What a successful job leaves. *)

\* A job that goes on has not ended.
LEMMA GoesNotDone ==
    ASSUME LifeInv, EndsWell, NEW at
    PROVE  ~GoesTo(at) /\ job' # [job EXCEPT !.at = at]
<1>1. job # NoJob /\ job' = NoJob
  BY DEF EndsWell
<1>2. job \in Job /\ job.do \in AppActions \cup ConnActions
  BY <1>1, JobFields
<1>3. [job EXCEPT !.at = at].do = job.do
  BY <1>2 DEF Job
<1>4. NoJob.do = "none" /\ "none" \notin AppActions \cup ConnActions
  BY DEF NoJob, AppActions, ConnActions, Installs, Uninstalls
<1>5. QED
  BY <1>1, <1>2, <1>3, <1>4 DEF GoesTo

\* A job that fails or is cancelled has not ended well.
LEMMA FailsNotDone ==
    ASSUME EndsWell
    PROVE  /\ ~Ends("failed") /\ ~Ends("cancelled") /\ job' # job
           /\ \A b, now : ~Failing(b, now)
BY DEF EndsWell, Ends, Failing

\* The steps in which a job of an app may end well.
Finishing(a) ==
    \/ Rewire(a) /\ ~(job.batch \/ job.setup)
    \/ /\ JobAt("halt") /\ NoTools /\ NoRoutes
       /\ app' = [app EXCEPT ![a].box = "stopped", ![a].rec = "stopped"]
    \/ Recorded(a) \/ Gone(a)
    \/ JobAt("begin") /\ job.do = "reset"

\* No step of an installation or removal, made or failed, ends well by itself.
LEMMA StepNotDone ==
    ASSUME LifeInv, EndsWell, NEW a, NEW at
    PROVE  /\ \A now, next : ~Step(a, at, now, next)
           /\ \A left : ~Falls(a, at, left)
BY GoesNotDone, FailsNotDone DEF Step, Falls

\* The steps of an installation that end well.
LEMMA InstallDone ==
    ASSUME LifeInv, EndsWell, NEW a \in Apps, InstallStep(a)
    PROVE  Finishing(a)
<1>1. ~Record(a) /\ ~Pin(a) /\ ~Oidc(a) /\ ~Up(a) /\ ~Settle(a) /\ ~SignIn(a)
  BY StepNotDone, FailsNotDone DEF Record, Pin, Oidc, Up, Settle, SignIn
<1>2. ~Verify(a)
  BY StepNotDone, FailsNotDone DEF Verify
<1>3. ~Route(a) /\ ~ConnectTools(a) /\ ~Park(a)
  BY GoesNotDone, StepNotDone, FailsNotDone DEF Route, ConnectTools, Park
<1>4. ~Render(a)
  <2>1. job # NoJob /\ job' = NoJob
    BY DEF EndsWell
  <2>2. job \in Job /\ job.do \in AppActions \cup ConnActions
    BY <2>1, JobFields
  <2> DEFINE missing == Missing(a)
  <2>3. [job EXCEPT !.at = "pin", !.setup = missing].do = job.do
    BY <2>2 DEF Job
  <2>4. NoJob.do = "none" /\ "none" \notin AppActions \cup ConnActions
    BY DEF NoJob, AppActions, ConnActions, Installs, Uninstalls
  <2>5. job' # [job EXCEPT !.at = "pin", !.setup = missing]
    BY <2>1, <2>2, <2>3, <2>4
  <2>6. QED
    BY <2>5, StepNotDone DEF Render
<1>5. Rewire(a) => ~(job.batch \/ job.setup)
  BY GoesNotDone DEF Rewire
<1>6. HaltApp(a) => /\ JobAt("halt") /\ NoTools /\ NoRoutes
                    /\ app' = [app EXCEPT ![a].box = "stopped", ![a].rec = "stopped"]
  BY StepNotDone DEF HaltApp
<1>7. QED
  BY <1>1, <1>2, <1>3, <1>4, <1>5, <1>6 DEF InstallStep, Finishing

\* The steps of a start, stop or restart that end well.
LEMMA ControlDone ==
    ASSUME LifeInv, EndsWell, NEW a \in Apps, ControlStep(a)
    PROVE  Finishing(a)
<1>1. ~BeginStart(a) /\ ~BeginStop(a) /\ ~BeginNothing(a)
  BY GoesNotDone, FailsNotDone DEF BeginStart, BeginStop, BeginNothing
<1>2. ~StartNeeded(a)
  BY GoesNotDone, FailsNotDone DEF StartNeeded
<1>3. ~Compose(a) /\ ~Health(a) /\ ~Tools(a)
  BY GoesNotDone, FailsNotDone DEF Compose, Health, Tools
<1>4. QED
  BY <1>1, <1>2, <1>3 DEF ControlStep, Finishing

\* The steps of an uninstallation that end well.
LEMMA UninstallDone ==
    ASSUME LifeInv, EndsWell, NEW a \in Apps, UninstallStep(a)
    PROVE  Finishing(a)
<1>1. ~BeginUninstall(a)
  BY GoesNotDone, FailsNotDone DEF BeginUninstall
<1>2. ~TakeDown(a) /\ ~Remove(a) /\ ~Unsign(a) /\ ~DeleteData(a)
  BY StepNotDone DEF TakeDown, Remove, Unsign, DeleteData
<1>3. ~Unroute(a)
  BY GoesNotDone, FailsNotDone DEF Unroute
<1>4. QED
  BY <1>1, <1>2, <1>3 DEF UninstallStep, Finishing

\* The steps of any job of an app that end well.
LEMMA AppDone ==
    ASSUME LifeInv, EndsWell, NEW a \in Apps, AppStep(a)
    PROVE  Finishing(a)
<1>1. Reset(a) => Finishing(a)
  BY DEF Reset, Finishing
<1>2. ~CutShort(a)
  BY GoesNotDone DEF CutShort
<1>3. QED
  BY <1>1, <1>2, InstallDone, ControlDone, UninstallDone DEF AppStep

\* Nothing else ends a job of an app well.
LEMMA OnlyAppsFinish ==
    ASSUME LifeInv, EndsWell, [LifeNext]_lifeVars, NEW a \in Apps, job.of = a
    PROVE  Finishing(a)
<1>0. job # NoJob /\ job' # job
  BY DEF EndsWell
<1>1. ~TakeUp /\ \A b \in Apps : ~Reconcile(b)
  BY <1>0 DEF TakeUp, Reconcile
<1>2. \A c \in Conns : ~ConnStep(c)
  BY ConnectorsAssumption DEF ConnStep
<1>3. \A b \in Apps : AppStep(b) => Finishing(a)
  BY AppDone DEF AppStep
<1>4. ~Around
  BY <1>0, GoesNotDone, FailsNotDone
     DEF Around, Ask, Breaks, AskBatch, AskConnector, EnterKey, ToolBreaks, Choose, Pull, Dies,
         CancelRunning, CancelQueued
<1>5. ~UNCHANGED lifeVars
  BY <1>0 DEF lifeVars
<1>6. QED
  BY <1>1, <1>2, <1>3, <1>4, <1>5 DEF LifeNext, Worker

\* The kinds of jobs do not overlap.
LEMMA KindsApart ==
    /\ Installs \cap Uninstalls = {} /\ {"start", "restart", "stop", "reset"} \cap Installs = {}
    /\ Uninstalls = {"uninstall", "uninstall_delete_data"}
    /\ "install" \in Installs /\ "retry_setup" \in Installs
BY DEF Installs, Uninstalls

\* What was quiet before is quiet after.
LEMMA QuietAfter ==
    ASSUME NEW a, Quiet(a), link' = link
    PROVE  QuietTools(a)
BY DEF Quiet, QuietTools

\* An installation that ends leaves the app open.
LEMMA OpenIsTrue ==
    ASSUME LifeInv, NEW a \in Apps, job.of = a, Rewire(a), ~(job.batch \/ job.setup)
    PROVE  DoesAsSaid(a)
<1>1. JobAt("rewire") /\ Here(a) /\ NoRoutes
  BY HereNow DEF Rewire
<1>2. /\ job.do \in Installs /\ app[a].proj = "full" /\ ~app[a].boot
      /\ app[a].box \in {"running", "broken"} /\ a \in routes /\ a \in serve
      /\ app[a].signin /\ app[a].rec = "running"
  BY <1>1 DEF JobAt, Here, AtNeeds, AtControl, AtInstall, AtUninstall, ControlPlaces, FromHalt,
     FromPark, FromConnect, FromSignIn, FromVerify, FromSettle, FromPin, FromRecord, FromUnsign,
     FromRemove, FromUnroute, FromDown
<1>3. LeavesItOpen(a) /\ ~app'[a].boot
  BY <1>1, <1>2, RewireKeeps DEF LeavesItOpen, NoRoutes
<1>4. QED
  BY <1>2, <1>3, KindsApart DEF DoesAsSaid

\* One that parks the app leaves it stopped, with its address.
LEMMA ParkedIsTrue ==
    ASSUME LifeInv, NEW a \in Apps, job.of = a, JobAt("halt"), NoTools, NoRoutes,
           app' = [app EXCEPT ![a].box = "stopped", ![a].rec = "stopped"]
    PROVE  DoesAsSaid(a)
<1>1. Here(a)
  BY HereNow
<1>2. /\ job.do \in Installs /\ ~app[a].boot /\ a \in routes /\ app[a].signin
      /\ (job.batch \/ job.setup) /\ Quiet(a)
  BY <1>1 DEF JobAt, Here, AtNeeds, AtControl, AtInstall, AtUninstall, ControlPlaces, FromHalt,
     FromPark, FromConnect, FromSignIn, FromVerify, FromSettle, FromPin, FromRecord, FromUnsign,
     FromRemove, FromUnroute, FromDown
<1> DEFINE now == [app[a] EXCEPT !.box = "stopped", !.rec = "stopped"]
<1>3. /\ now.box = "stopped" /\ now.rec = "stopped" /\ now.boot = app[a].boot
      /\ now.signin = app[a].signin
  BY AppFields DEF App
<1>4. app' = [app EXCEPT ![a] = now]
  <2>1. app \in [Apps -> App]
    BY AppFields
  <2>2. QED
    BY <2>1
<1> HIDE DEF now
<1>5. app'[a] = now
  BY <1>4, AppFields
<1>6. QuietTools(a)
  BY <1>2, QuietAfter DEF NoTools
<1>7. LeavesItParked(a) /\ ~app'[a].boot
  BY <1>2, <1>3, <1>5, <1>6 DEF LeavesItParked, NoRoutes
<1>8. QED
  BY <1>2, <1>7, KindsApart DEF DoesAsSaid

\* A stop leaves nothing running.
LEMMA StopIsTrue ==
    ASSUME LifeInv, NEW a \in Apps, job.of = a, Recorded(a)
    PROVE  DoesAsSaid(a)
<1>1. JobAt("recorded") /\ Here(a) /\ UNCHANGED link
  BY HereNow DEF Recorded
<1>2. /\ job.do \in {"start", "restart", "stop"}
      /\ job.do = "stop" => Quiet(a) /\ app[a].box \in {"absent", "stopped"}
  BY <1>1 DEF JobAt, Here, AtControl, ControlPlaces
<1>3. CASE job.do = "stop"
  <2> DEFINE now == [app[a] EXCEPT !.rec = "stopped"]
  <2>1. now.box = app[a].box
    BY AppFields DEF App
  <2>2. app' = [app EXCEPT ![a] = now]
    BY <1>3, AppFields DEF Recorded
  <2> HIDE DEF now
  <2>3. app'[a].box # "running"
    BY <1>2, <1>3, <2>1, <2>2, AppFields
  <2>4. QuietTools(a)
    BY <1>1, <1>2, <1>3, QuietAfter
  <2>5. QED
    BY <1>3, <2>3, <2>4, KindsApart DEF DoesAsSaid
<1>4. CASE job.do \in {"start", "restart"}
  BY <1>4, KindsApart DEF DoesAsSaid
<1>5. QED
  BY <1>2, <1>3, <1>4

\* An uninstallation leaves nothing, a deletion no data it knows.
LEMMA GoneIsTrue ==
    ASSUME LifeInv, NEW a \in Apps, job.of = a, Gone(a)
    PROVE  DoesAsSaid(a)
<1>1. JobAt("gone") /\ Here(a) /\ NoTools /\ NoRoutes
  BY HereNow DEF Gone
<1>2. /\ job.do \in Uninstalls /\ a \notin routes /\ a \notin serve /\ Quiet(a)
      /\ job.do # "uninstall" => /\ AllOff(a) /\ app[a].proj = "none"
                                 /\ app[a].data # 0 => FolderOf[approved] # FolderOf[app[a].data]
  BY <1>1 DEF JobAt, Here, AtNeeds, AtControl, AtInstall, AtUninstall, ControlPlaces, FromHalt,
     FromPark, FromConnect, FromSignIn, FromVerify, FromSettle, FromPin, FromRecord, FromUnsign,
     FromRemove, FromUnroute, FromDown
<1>3. LeavesNothing(a)
  BY <1>1, <1>2, GoneKeeps, QuietAfter DEF LeavesNothing, NoTools, NoRoutes
<1>4. job.do = "uninstall_delete_data" => LeavesNoData(a)
  BY <1>1, <1>2, <1>3, GoneKeeps DEF LeavesNoData, AllOff, NoTools
<1>5. QED
  BY <1>2, <1>3, <1>4, KindsApart DEF DoesAsSaid

\* Every end that is well leaves what was asked for.
LEMMA FinishingIsTrue ==
    ASSUME LifeInv, NEW a \in Apps, job.of = a, Finishing(a)
    PROVE  DoesAsSaid(a)
<1>1. job.do = "reset" => DoesAsSaid(a)
  BY KindsApart DEF DoesAsSaid
<1>2. CASE Rewire(a) /\ ~(job.batch \/ job.setup)
  BY <1>2, OpenIsTrue
<1>3. CASE /\ JobAt("halt") /\ NoTools /\ NoRoutes
           /\ app' = [app EXCEPT ![a].box = "stopped", ![a].rec = "stopped"]
  BY <1>3, ParkedIsTrue
<1>4. QED
  BY <1>1, <1>2, <1>3, StopIsTrue, GoneIsTrue DEF Finishing

\* The same for every step.
LEMMA SuccessStep ==
    ASSUME LifeInv, [LifeNext]_lifeVars
    PROVE  EndsWell => \A a \in Apps : job.of = a => DoesAsSaid(a)
BY OnlyAppsFinish, FinishingIsTrue

-----------------------------------------------------------------------------
(* What a step leaves of the addresses. *)

AddressLeft(a) ==
    a \in routes /\ a \notin routes' =>
        \/ app[a].box = "absent" \/ job.of = a
        \/ trouble' > trouble /\ app[a].rec \notin {"running", "stopped"}

\* Only the job of an app takes its address, while it has containers that can be
\* read.
LEMMA AddressKept ==
    ASSUME LifeInv, [LifeNext]_lifeVars, NEW a \in Apps
    PROVE  AddressLeft(a)
<1>0. NoRoutes => AddressLeft(a)
  BY DEF NoRoutes, AddressLeft
<1>1. ASSUME NEW b \in Apps, job.of = b, NEW w \in {{}, {b}}, NEW cost \in Nat,
             Rewritten(w, cost)
      PROVE  AddressLeft(a)
  BY <1>1, RewrittenSound DEF AddressLeft
<1>2. ASSUME NEW b \in Apps, AppStep(b)
      PROVE  AddressLeft(a)
  <2>1. Route(b) => NoRoutes \/ \E cost \in Nat : Rewritten({}, cost)
    <3>1. Route(b) => UNCHANGED <<routes, serve>> \/ Rewritten({}, 0) \/ Rewritten({}, 1)
      BY DEF Route
    <3> QED BY <3>1 DEF NoRoutes
  <2>2. Unroute(b) => NoRoutes \/ \E cost \in Nat : Rewritten({b}, cost)
    <3>1. Unroute(b) => UNCHANGED <<routes, serve>> \/ Rewritten({b}, 0) \/ Rewritten({b}, 1)
      BY DEF Unroute
    <3> QED BY <3>1 DEF NoRoutes
  <2>3. InstallStep(b) => NoRoutes \/ Route(b)
    BY DEF InstallStep, Record, Render, Pin, Oidc, Up, Settle, Verify, SignIn, ConnectTools,
       Rewire,
           Park, HaltApp
  <2>4. ControlStep(b) => NoRoutes
    BY DEF ControlStep, BeginStart, BeginStop, BeginNothing, StartNeeded, Compose, Health, Tools,
       Recorded
  <2>5. UninstallStep(b) => NoRoutes \/ Unroute(b)
    BY DEF UninstallStep, BeginUninstall, TakeDown, Remove, Unsign, DeleteData, Gone
  <2>6. Reset(b) \/ CutShort(b) => NoRoutes
    BY DEF Reset, CutShort
  <2>7. QED
    BY <1>0, <1>1, <1>2, <2>1, <2>2, <2>3, <2>4, <2>5, <2>6 DEF AppStep
<1>3. TakeUp \/ (\E b \in Apps : Reconcile(b)) \/ (\E c \in Conns : ConnStep(c)) => routes' = routes
  BY DEF TakeUp, Reconcile, ConnStep, WorkConnector, NoRoutes
<1>4. Around => routes' = routes
  BY DEF Around, Ask, Breaks, AskBatch, AskConnector, EnterKey, ToolBreaks, Choose, Pull, Dies,
         CancelRunning, CancelQueued
<1>5. UNCHANGED lifeVars => routes' = routes
  BY DEF lifeVars
<1>6. QED
  BY <1>2, <1>3, <1>4, <1>5 DEF LifeNext, Worker, AddressLeft

\* What the dashboard says of an app is so: a job that succeeded left what its
\* action promises, connectors recorded as prepared or waiting aside, whatever
\* failed, died or was cancelled before it; a removed app left nothing behind; an
\* app with containers loses its address through another one's job only when
\* Docker did not answer and it is not recorded as running or stopped
\* (engine.install, lifecycle.uninstall, routes._generated_services).
THEOREM ReportsHold == LifeSpec => ReportsAreTrue
<1>1. LifeInv => LifeTypes /\ RemovedLeavesNothing
  BY DEF LifeInv, RemovedLeavesNothing, Placed, Fits
<1>2. LifeInv /\ [LifeNext]_lifeVars =>
        [EndsWell => \A a \in Apps : job.of = a => DoesAsSaid(a)]_lifeVars
  BY SuccessStep
<1>3. LifeInv /\ [LifeNext]_lifeVars =>
        [\A a \in routes \ routes' :
            \/ app[a].box = "absent" \/ job.of = a
            \/ trouble' > trouble /\ app[a].rec \notin {"running", "stopped"}]_lifeVars
  <2> SUFFICES ASSUME LifeInv, [LifeNext]_lifeVars, NEW a \in routes \ routes'
               PROVE  \/ app[a].box = "absent" \/ job.of = a
                      \/ trouble' > trouble /\ app[a].rec \notin {"running", "stopped"}
    OBVIOUS
  <2>1. a \in Apps
    BY DEF LifeInv, LifeTypes
  <2>2. QED
    BY <2>1, AddressKept DEF AddressLeft
<1>4. QED
  BY <1>1, <1>2, <1>3, LifeInvariance, PTL
     DEF LifeSpec, ReportsAreTrue, SuccessIsTrue, AddressesStay

-----------------------------------------------------------------------------
(* What a step leaves of the data. *)

\* No data is now of another release.
DataStill == \A b \in Apps : app'[b].data \in {0, app[b].data}

\* The state of an app, with the data it has, or none.
SameData(r, a) == r \in App /\ r.data \in {0, app[a].data}

\* A step on one app that keeps its data.
LEMMA SameDataStep ==
    ASSUME LifeInv, NEW a \in Apps, NEW now, SameData(now, a), app' = [app EXCEPT ![a] = now]
    PROVE  DataStill
BY AppFields DEF SameData, DataStill

\* So does one that fails with it.
LEMMA SameDataFailing ==
    ASSUME LifeInv, NEW a \in Apps, NEW now, SameData(now, a), Failing(a, now)
    PROVE  DataStill
<1> DEFINE new == [now EXCEPT !.rec = "failed"]
<1>1. SameData(new, a)
  BY DEF SameData, App, Records
<1>2. app' = [app EXCEPT ![a] = new]
  BY DEF Failing
<1> HIDE DEF new
<1>3. QED
  BY <1>1, <1>2, SameDataStep

\* So do the steps of an installation or removal, made or failed.
LEMMA SameDataStands ==
    ASSUME LifeInv, NEW a \in Apps, NEW at, NEW left, \A x \in left : SameData(x, a)
    PROVE  /\ Falls(a, at, left) => DataStill
           /\ \A now \in left : \A next : Step(a, at, now, next) => DataStill
BY SameDataFailing, SameDataStep DEF Falls, Step

\* What the updates of an app leave of its data.
LEMMA SameDataForms ==
    ASSUME LifeInv, NEW a \in Apps
    PROVE  /\ SameData(app[a], a)
           /\ \A rec \in Records : SameData([app[a] EXCEPT !.rec = rec], a)
           /\ \A rec \in Records : SameData([app[a] EXCEPT !.rec = rec, !.since = TRUE], a)
           /\ \A rec \in Records : SameData([app[a] EXCEPT !.rec = rec, !.since = FALSE], a)
           /\ \A box \in {"absent", "stopped", "running", "broken"} :
                 /\ SameData([app[a] EXCEPT !.box = box], a)
                 /\ SameData([app[a] EXCEPT !.box = box, !.rec = "stopped"], a)
                 /\ SameData([app[a] EXCEPT !.box = box, !.rec = "running", !.since = TRUE], a)
           /\ \A on \in BOOLEAN : SameData([app[a] EXCEPT !.signin = on], a)
           /\ SameData([app[a] EXCEPT !.signin = TRUE, !.rec = "running", !.since = TRUE], a)
           /\ SameData([app[a] EXCEPT !.proj = "full"], a)
<1>1. SameData(app[a], a)
  BY AppFields DEF SameData
<1>2. ASSUME NEW rec \in Records
      PROVE  /\ SameData([app[a] EXCEPT !.rec = rec], a)
             /\ SameData([app[a] EXCEPT !.rec = rec, !.since = TRUE], a)
             /\ SameData([app[a] EXCEPT !.rec = rec, !.since = FALSE], a)
  BY AppFields DEF SameData, App
<1>3. ASSUME NEW box \in {"absent", "stopped", "running", "broken"}
      PROVE  SameData([app[a] EXCEPT !.box = box], a)
  BY AppFields DEF SameData, App
<1>4. ASSUME NEW box \in {"absent", "stopped", "running", "broken"}
      PROVE  SameData([app[a] EXCEPT !.box = box, !.rec = "stopped"], a)
  BY AppFields DEF SameData, App, Records
<1>5. ASSUME NEW box \in {"absent", "stopped", "running", "broken"}
      PROVE  SameData([app[a] EXCEPT !.box = box, !.rec = "running", !.since = TRUE], a)
  BY AppFields DEF SameData, App, Records
<1>6. ASSUME NEW on \in BOOLEAN
      PROVE  SameData([app[a] EXCEPT !.signin = on], a)
  BY AppFields DEF SameData, App
<1>7. SameData([app[a] EXCEPT !.signin = TRUE, !.rec = "running", !.since = TRUE], a)
  BY AppFields DEF SameData, App, Records
<1>8. SameData([app[a] EXCEPT !.proj = "full"], a)
  BY AppFields DEF SameData, App
<1>9. QED
  BY <1>1, <1>2, <1>3, <1>4, <1>5, <1>6, <1>7, <1>8

\* The forms with a name of their own.
LEMMA SameDataNamed ==
    ASSUME LifeInv, NEW a \in Apps
    PROVE  /\ SameData([app[a] EXCEPT !.pin = Pinned(app[a]), !.rec = "starting"], a)
           /\ \A x \in Signed(a) : SameData(x, a)
           /\ SameData(Finished(app[a]), a)
           /\ SameData(Emptied(app[a]), a)
           /\ \A delete \in BOOLEAN : SameData(Removed(app[a], delete), a)
           /\ SameData(Wiped(app[a]), a)
           /\ SameData([Emptied(app[a]) EXCEPT !.rec = "none", !.since = FALSE], a)
<1>1. SameData([app[a] EXCEPT !.pin = Pinned(app[a]), !.rec = "starting"], a)
  <2>1. Pinned(app[a]) \in {0} \cup Releases
    BY AppFields DEF Pinned, LifeInv, LifeTypes
  <2> HIDE DEF Pinned
  <2>2. QED
    BY <2>1, AppFields DEF SameData, App, Records
<1>2. \A x \in Signed(a) : SameData(x, a)
  BY SameDataForms DEF Signed
<1>3. SameData(Finished(app[a]), a)
  BY AppFields DEF Finished, SameData, App
<1>4. SameData(Emptied(app[a]), a)
  BY AppFields DEF Emptied, SameData, App
<1>5. ASSUME NEW delete \in BOOLEAN
      PROVE  SameData(Removed(app[a], delete), a)
  <2> DEFINE drop == app[a].dropped \/ app[a].data # 0
             proj == IF app[a].proj = "none" THEN "none" ELSE "kept"
             gone == [app[a] EXCEPT !.proj = "none", !.pin = 0, !.dropped = drop]
             left == [app[a] EXCEPT !.proj = proj]
  <2>1. drop \in BOOLEAN /\ proj \in {"none", "kept"}
    BY AppFields
  <2>2. Removed(app[a], delete) = IF delete THEN gone ELSE left
    BY AppFields DEF Removed
  <2> HIDE DEF drop, proj
  <2>3. SameData(gone, a) /\ SameData(left, a)
    BY <2>1, AppFields DEF SameData, App
  <2> HIDE DEF gone, left
  <2>4. QED
    BY <2>2, <2>3
<1>6. SameData(Wiped(app[a]), a)
  BY AppFields DEF Wiped, SameData, App
<1>7. SameData([Emptied(app[a]) EXCEPT !.rec = "none", !.since = FALSE], a)
  <2> DEFINE r == Emptied(app[a])
  <2>1. SameData(r, a)
    BY <1>4
  <2> HIDE DEF r
  <2>2. SameData([r EXCEPT !.rec = "none", !.since = FALSE], a)
    BY <2>1 DEF SameData, App, Records
  <2>3. QED
    BY <2>2 DEF r
<1>8. QED
  BY <1>1, <1>2, <1>3, <1>4, <1>5, <1>6, <1>7

\* A start with the release record's files is of the release recorded.
LEMMA UpData ==
    ASSUME LifeInv, NEW a \in Apps, job.of = a, Up(a)
    PROVE  \A b \in Apps : /\ b # a => app'[b].data = app[b].data
                           /\ app'[b].data \in {app[b].data, app[b].pin}
<1>1. PICK now : /\ app' = [app EXCEPT ![a] = now]
                 /\ now.data \in {app[a].data, app[a].pin}
  <2>1. CASE Step(a, "up", Upped(a, "running"), "settle")
    <3>1. app' = [app EXCEPT ![a] = Upped(a, "running")] /\ Upped(a, "running").data = app[a].pin
      BY <2>1, UppedFields DEF Step
    <3>2. QED
      BY <3>1
  <2>2. CASE Falls(a, "up", {app[a], Upped(a, "broken")})
    <3>1. PICK left \in {app[a], Upped(a, "broken")} : Failing(a, left)
      BY <2>2 DEF Falls
    <3>2. left \in App /\ left.data \in {app[a].data, app[a].pin}
      BY <3>1, UppedFields, AppFields
    <3> DEFINE new == [left EXCEPT !.rec = "failed"]
    <3>3. app' = [app EXCEPT ![a] = new] /\ new.data = left.data
      BY <3>1, <3>2 DEF Failing, App
    <3> HIDE DEF new
    <3>4. QED
      BY <3>2, <3>3
  <2>3. QED
    BY <2>1, <2>2 DEF Up
<1>2. QED
  BY <1>1, AppFields

\* Rendering the users again keeps their data.
LEMMA RewiredData ==
    ASSUME LifeInv, NEW a \in Apps, NEW base \in [Apps -> App], NEW down,
           \A u \in Apps : base[u].data = app[u].data, app' = RewiredTo(base, a, down)
    PROVE  DataStill
<1>1. ASSUME NEW u \in Apps
      PROVE  app'[u].data = base[u].data
  <2>1. base[u] \in App
    OBVIOUS
  <2>2. app'[u] = IF u \in down THEN [base[u] EXCEPT !.box = "broken"]
                  ELSE IF u \in Rewired(a) THEN [base[u] EXCEPT !.box = "running"]
                  ELSE base[u]
    BY DEF RewiredTo
  <2>3. QED
    BY <2>1, <2>2 DEF App
<1>2. QED
  BY <1>1 DEF DataStill

\* Only the first start of an installation moves data.
LEMMA InstallData ==
    ASSUME LifeInv, NEW a \in Apps, InstallStep(a), ~Up(a)
    PROVE  DataStill
<1> USE DEF Records
<1>0. UNCHANGED app => DataStill
  BY DEF DataStill
<1>1. Record(a) => DataStill
  BY SameDataForms, SameDataNamed, SameDataStands DEF Record
<1>9. SignIn(a) => DataStill
  <2>1. \A x \in Signed(a) : SameData(x, a)
    BY SameDataForms, SameDataNamed DEF Signed
  <2>2. \A x \in Signed(a) : Failing(a, x) => DataStill
    BY <2>1, SameDataFailing
  <2>3. QED
    BY <2>2, SameDataForms, SameDataNamed, SameDataStands DEF SignIn
<1>2. Pin(a) \/ Oidc(a) => DataStill
  BY SameDataForms, SameDataNamed, SameDataStands DEF Pin, Oidc, Signed
<1>3. Settle(a) => DataStill
  BY SameDataForms, SameDataNamed, SameDataStands DEF Settle
<1>4. Verify(a) => DataStill
  BY SameDataForms, SameDataStands, SameDataFailing DEF Verify
<1>5. Route(a) \/ ConnectTools(a) \/ Park(a) => DataStill
  BY <1>0, SameDataForms, SameDataStands, SameDataFailing DEF Route, ConnectTools, Park
<1>6. Render(a) => DataStill
  <2> DEFINE full == [app[a] EXCEPT !.proj = "full"]
  <2>1. SameData(full, a) /\ SameData(app[a], a)
    BY SameDataForms
  <2>2. app' = [app EXCEPT ![a].proj = "full"] => app' = [app EXCEPT ![a] = full]
    BY AppFields
  <2> HIDE DEF full
  <2>3. app' = [app EXCEPT ![a] = full] => DataStill
    BY <2>1, SameDataStep
  <2>4. Falls(a, "render", {app[a], full}) => DataStill
    BY <2>1, SameDataStands
  <2>5. QED
    BY <2>2, <2>3, <2>4 DEF Render, full
<1>7. Rewire(a) => DataStill
  BY RewiredData, AppFields DEF Rewire, RewiredTo
<1>8. HaltApp(a) => DataStill
  <2> DEFINE now == [app[a] EXCEPT !.box = "stopped", !.rec = "stopped"]
  <2>1. SameData(now, a) /\ SameData(app[a], a)
    BY SameDataForms
  <2>2. app \in [Apps -> App]
    BY AppFields
  <2>3. app' = [app EXCEPT ![a].box = "stopped", ![a].rec = "stopped"]
          => app' = [app EXCEPT ![a] = now]
    BY <2>2
  <2> HIDE DEF now
  <2>4. QED
    BY <2>1, <2>3, SameDataStep, SameDataStands DEF HaltApp
<1>10. QED
  BY <1>1, <1>2, <1>3, <1>4, <1>5, <1>6, <1>7, <1>8, <1>9 DEF InstallStep

\* The record alone, or the containers alone.
LEMMA SlightData ==
    ASSUME LifeInv, NEW a \in Apps, NEW rec \in Records,
           NEW box \in {"absent", "stopped", "running", "broken"},
           \/ UNCHANGED app \/ app' = [app EXCEPT ![a].rec = rec]
           \/ app' = [app EXCEPT ![a].rec = rec, ![a].since = TRUE]
           \/ app' = [app EXCEPT ![a].box = box]
           \/ app' = [app EXCEPT ![a].box = box, ![a].rec = "running", ![a].since = TRUE]
    PROVE  DataStill
<1>1. app \in [Apps -> App]
  BY AppFields
<1>2. CASE UNCHANGED app
  BY <1>2 DEF DataStill
<1>3. CASE app' = [app EXCEPT ![a].rec = rec]
  <2>1. app' = [app EXCEPT ![a] = [app[a] EXCEPT !.rec = rec]]
    BY <1>1, <1>3
  <2>2. QED
    BY <2>1, SameDataForms, SameDataStep
<1>4. CASE app' = [app EXCEPT ![a].rec = rec, ![a].since = TRUE]
  <2>1. app' = [app EXCEPT ![a] = [app[a] EXCEPT !.rec = rec, !.since = TRUE]]
    BY <1>1, <1>4
  <2>2. QED
    BY <2>1, SameDataForms, SameDataStep
<1>5. CASE app' = [app EXCEPT ![a].box = box]
  <2>1. app' = [app EXCEPT ![a] = [app[a] EXCEPT !.box = box]]
    BY <1>1, <1>5
  <2>2. QED
    BY <2>1, SameDataForms, SameDataStep
<1>6. CASE app' = [app EXCEPT ![a].box = box, ![a].rec = "running", ![a].since = TRUE]
  <2>1. app' = [app EXCEPT ![a] = [app[a] EXCEPT !.box = box, !.rec = "running", !.since = TRUE]]
    BY <1>1, <1>6
  <2>2. QED
    BY <2>1, SameDataForms, SameDataStep
<1>7. QED
  BY <1>2, <1>3, <1>4, <1>5, <1>6

\* A start, stop or restart moves none.
LEMMA ControlData ==
    ASSUME LifeInv, NEW a \in Apps, ControlStep(a) \/ CutShort(a)
    PROVE  DataStill
<1>0. UNCHANGED app => DataStill
  BY DEF DataStill
<1>1. \A n \in NextNeeded(a) : n \in Apps
  BY NeededSound
<1>2. \A n \in Apps :
        Failing(n, app[n]) \/ Failing(n, [app[n] EXCEPT !.box = "broken"]) => DataStill
  BY SameDataForms, SameDataFailing
<1>3. BeginStart(a) \/ BeginStop(a) \/ BeginNothing(a) \/ Tools(a) => DataStill
  BY <1>0, <1>2 DEF BeginStart, BeginStop, BeginNothing, Tools
<1>4. StartNeeded(a) => DataStill
  <2>1. ASSUME NEW n \in NextNeeded(a),
               app' = [app EXCEPT ![n].box = "running", ![n].rec = "running", ![n].since = TRUE]
        PROVE  DataStill
    <3>1. "running" \in Records
      BY DEF Records
    <3>2. QED
      BY <1>1, <2>1, <3>1, SlightData
  <2>2. ASSUME NEW n \in NextNeeded(a),
               app' \in {app, [app EXCEPT ![n].box = IF @ = "absent" THEN @ ELSE "broken"]}
        PROVE  DataStill
    <3> DEFINE box == IF app[n].box = "absent" THEN "absent" ELSE "broken"
    <3>1. app \in [Apps -> App] /\ n \in Apps /\ "running" \in Records
      BY <1>1, AppFields DEF Records
    <3>2. box \in {"absent", "broken"}
      OBVIOUS
    <3>3. UNCHANGED app \/ app' = [app EXCEPT ![n].box = box]
      BY <2>2, <3>1
    <3> HIDE DEF box
    <3>4. QED
      BY <3>1, <3>2, <3>3, SlightData
  <2>3. QED
    BY <1>0, <2>1, <2>2 DEF StartNeeded
<1>5. Compose(a) => DataStill
  <2> DEFINE box == IF app[a].box = "absent" THEN "absent" ELSE "stopped"
  <2>1. app \in [Apps -> App] /\ "running" \in Records
    BY AppFields DEF Records
  <2>2. box \in {"absent", "stopped"}
    OBVIOUS
  <2>3. app' = [app EXCEPT ![a].box = IF @ = "absent" THEN @ ELSE "stopped"]
          => app' = [app EXCEPT ![a].box = box]
    BY <2>1
  <2> HIDE DEF box
  <2>4. app' = [app EXCEPT ![a].box = box] \/ app' = [app EXCEPT ![a].box = "running"] => DataStill
    BY <2>1, <2>2, SlightData
  <2>5. QED
    BY <1>2, <2>3, <2>4 DEF Compose
<1>6. Health(a) => DataStill
  BY <1>0, <1>2 DEF Health
<1>7. Recorded(a) => DataStill
  <2>1. {"running", "stopped"} \subseteq Records
    BY DEF Records
  <2>2. app' = [app EXCEPT ![a].rec = "running", ![a].since = TRUE] => DataStill
    BY <2>1, SlightData
  <2>3. app' = [app EXCEPT ![a].rec = "stopped"] => DataStill
    BY <2>1, SlightData
  <2>4. QED
    BY <2>2, <2>3 DEF Recorded
<1>8. CutShort(a) => DataStill
  <2>1. "running" \in Records
    BY DEF Records
  <2>2. \A n \in Apps : app' = [app EXCEPT ![n].box = "running"] => DataStill
    BY <2>1, SlightData
  <2>3. QED
    BY <1>0, <1>1, <2>2 DEF CutShort
<1>9. QED
  BY <1>3, <1>4, <1>5, <1>6, <1>7, <1>8 DEF ControlStep

\* An uninstallation moves none.
LEMMA UninstallData ==
    ASSUME LifeInv, NEW a \in Apps, UninstallStep(a) \/ Reset(a)
    PROVE  DataStill
<1>0. UNCHANGED app => DataStill
  BY DEF DataStill
<1>1. SameData(app[a], a)
  BY SameDataForms
<1>2. BeginUninstall(a) => DataStill
  <2>1. "uninstalling" \in Records
    BY DEF Records
  <2>2. app' = [app EXCEPT ![a].rec = "uninstalling"] => DataStill
    BY <2>1, SlightData
  <2>3. Failing(a, app[a]) => DataStill
    BY <1>1, SameDataFailing
  <2>4. QED
    BY <2>2, <2>3 DEF BeginUninstall
<1>3. TakeDown(a) => DataStill
  BY <1>1, SameDataNamed, SameDataStands DEF TakeDown
<1>4. Unroute(a) => DataStill
  BY <1>0, <1>1, SameDataFailing DEF Unroute
<1>5. Remove(a) => DataStill
  <2> DEFINE now == Removed(app[a], job.do # "uninstall")
  <2>1. (job.do # "uninstall") \in BOOLEAN
    OBVIOUS
  <2>2. SameData(now, a)
    BY <2>1, SameDataNamed
  <2> HIDE DEF now
  <2>3. Step(a, "remove", now, "unsign") \/ Falls(a, "remove", {app[a]}) => DataStill
    BY <1>1, <2>2, SameDataStands
  <2>4. QED
    BY <2>3 DEF Remove, now
<1>6. Unsign(a) => DataStill
  BY <1>1, SameDataForms, SameDataStands DEF Unsign
<1>7. DeleteData(a) => DataStill
  BY <1>1, SameDataNamed, SameDataStands DEF DeleteData
<1>8. Gone(a) => DataStill
  <2> DEFINE left == [app EXCEPT ![a].rec = "none", ![a].since = FALSE]
  <2>1. app \in [Apps -> App] /\ "none" \in Records
    BY AppFields DEF Records
  <2>2. left = [app EXCEPT ![a] = [app[a] EXCEPT !.rec = "none", !.since = FALSE]]
    BY <2>1
  <2>3. [app[a] EXCEPT !.rec = "none", !.since = FALSE].data = app[a].data
        /\ [app[a] EXCEPT !.rec = "none", !.since = FALSE] \in App
    BY AppFields, <2>1 DEF App
  <2> HIDE DEF left
  <2>4. left \in [Apps -> App] /\ \A u \in Apps : left[u].data = app[u].data
    BY <2>1, <2>2, <2>3
  <2>5. Gone(a) => \E down : app' = RewiredTo(left, a, down)
    BY DEF Gone, RewiredTo, left
  <2>6. QED
    BY <2>4, <2>5, RewiredData
<1>9. Reset(a) => DataStill
  BY <1>1, SameDataNamed, SameDataStep, SameDataFailing DEF Reset
<1>10. QED
  BY <1>2, <1>3, <1>4, <1>5, <1>6, <1>7, <1>8, <1>9 DEF UninstallStep

\* Nothing around the worker moves any.
LEMMA AroundData ==
    ASSUME LifeInv, Around
    PROVE  DataStill
<1>0. UNCHANGED app => DataStill
  BY DEF DataStill
<1>1. {"queued", "uninstalling"} \subseteq Records
  BY DEF Records
<1>2. ASSUME NEW a \in Apps, NEW do \in AppActions, Ask(a, do)
      PROVE  DataStill
  <2>1. PICK rec \in {"queued", "uninstalling"} : app' = [app EXCEPT ![a].rec = rec]
    BY <1>2 DEF Ask
  <2>2. QED
    BY <1>1, <2>1, SlightData
<1>3. ASSUME NEW a \in Apps, Breaks(a)
      PROVE  DataStill
  BY <1>1, <1>3, SlightData DEF Breaks
<1>4. ASSUME NEW a \in Apps, NEW do, AskBatch(a, do)
      PROVE  DataStill
  BY <1>0, <1>1, <1>4, SlightData DEF AskBatch
<1>5. QED
  BY <1>0, <1>2, <1>3, <1>4
     DEF Around, AskConnector, EnterKey, ToolBreaks, Choose, Pull, Dies, CancelRunning, CancelQueued

\* Data moves to another release only when a deletion took its record.
LEMMA DataStep ==
    ASSUME LifeInv, [LifeNext]_lifeVars, NEW a \in Apps,
           app[a].data # 0, app'[a].data \notin {0, app[a].data}
    PROVE  app[a].dropped
<1>1. ~DataStill
  BY DEF DataStill
<1>2. ~UNCHANGED app
  BY <1>1 DEF DataStill
<1>3. ~TakeUp /\ (\A b \in Apps : ~Reconcile(b)) /\ (\A c \in Conns : ~ConnStep(c))
  BY <1>2 DEF TakeUp, Reconcile, ConnStep, WorkConnector
<1>4. PICK b \in Apps : AppStep(b)
  BY <1>1, <1>2, <1>3, AroundData DEF LifeNext, Worker, lifeVars
<1>5. job.of = b /\ Up(b)
  BY <1>1, <1>4, InstallData, ControlData, UninstallData DEF AppStep
<1>6. app'[a].data = app[a].pin
  BY <1>5, UpData
<1>7. app[a].dropped \in BOOLEAN /\ (~app[a].dropped => app[a].pin = app[a].data)
  BY AppFields DEF Fits
<1>8. QED
  BY <1>6, <1>7

\* The data of an app is started with the release it was made or migrated with,
\* whatever the checkout has moved on to and however often the app is installed
\* again, except after a deletion that removed the release record
\* (app_releases.pin, lifecycle.uninstall).
THEOREM DataStaysWithItsRelease == LifeSpec => DataKeepsItsRelease
<1>1. LifeInv /\ [LifeNext]_lifeVars =>
        [\A a \in Apps : app[a].data # 0 /\ app'[a].data \notin {0, app[a].data}
            => app[a].dropped]_lifeVars
  BY DataStep
<1>2. QED
  BY <1>1, LifeInvariance, PTL DEF LifeSpec, DataKeepsItsRelease

-----------------------------------------------------------------------------
(***************************************************************************)
(* The self-update                                                         *)
(***************************************************************************)
(* The inductive invariant of SelfUpdate. *)

Executes == worker.pc # "idle"

\* The guard's places with the services stopped, and those after the database.
StoppedPlaces == {"judge", "copying", "code", "packages", "rebuild", "start"}

\* The worker's places with the new code in the checkout, and those after check.
NewTreePlaces == {"assets", "packages", "plan", "undo_tree", "undo_both", "install",
                  "go_back", "watch_over", "report_done", "restart"}
AfterCheck == NewTreePlaces \cup {"download", "undo_packages"}

(* Who runs, and what systemd has still to stop. *)
ServicesInv ==
  /\ worker.code = "none" => ~Executes /\ worker.claim = 0
  /\ "api" \in bounce => api # "none"
  /\ "worker" \in bounce => worker.code # "none"
  /\ bounce # {} => ~Executes /\ db.job \in {"succeeded", "failed"}
  /\ worker.pc = "restart" => db.job \in {"succeeded", "failed"}
  /\ guard.pc \in StoppedPlaces \cup {"stopping"} => units = "down"
  /\ guard.pc \in StoppedPlaces => api = "none" /\ worker.code = "none"
  /\ units = "down" => /\ guard.pc \in StoppedPlaces \cup {"stopping", "done"}
                       /\ guard.pc # "stopping" => api = "none" /\ worker.code = "none"
  /\ guard.pc = "none" => worker.pc \notin {"report_done", "restart"} /\ bounce = {}

(* Nothing has happened before the job is first claimed; afterwards it never
   waits again, and only the worker that executes it holds it.  An older guard has
   seen a second execution. *)
Claimed == db.job \notin {"none", "queued"}
JobInv ==
  /\ spent.claims = 0 => Only("old") /\ db.schema = "old" /\ guard.pc = "none" /\ ~Executes
  /\ spent.claims # 0 => Claimed
  /\ Executes /\ db.job = "running" => db.owner = worker.claim
  /\ guard.pc # "none" \/ worker.pc \in AfterCheck =>
       copy.whole /\ copy.job \notin {"none", "queued"}
  /\ guard.older = "watching" => spent.claims \notin {0, 1}

(* An execution begins, and the copy is taken, on a database of the old schema. *)
DatabaseInv ==
  /\ copy.schema = "old"
  /\ guard.pc = "copying" => ~db.whole
  /\ ~db.whole => guard.pc \in {"copying", "done"} /\ api = "none" /\ worker.code = "none"
  /\ disk.tree = "old" /\ worker.code # "none" =>
       /\ worker.pc = "check" => db.schema = "old"
       /\ ~Executes /\ db.job = "running" /\ db.owner # worker.claim => db.schema = "old"

(* The checkout has the new code at these places of the worker and of the guard. *)
TreeInv ==
  /\ worker.pc \in NewTreePlaces => disk.tree = "new"
  /\ guard.pc = "watch" =>
       /\ disk.tree = "new"
       /\ worker.pc \in {"idle", "check", "report_failed", "report_done", "restart"}
       /\ ~guard.waits => worker.code \in {"none", "new"}
  /\ /\ guard.pc = "watch" /\ spent.reboots = 0 /\ api = "old"
     /\ ~guard.waits \/ bounce # {}
     => "api" \in bounce

(* What the guard has put back at each place, and until someone claims again. *)
BackInv ==
  /\ guard.pc \in {"code", "packages", "rebuild", "start"} => db.whole /\ db.schema = "old"
  /\ ~guard.problem =>
       /\ guard.pc \in {"packages", "rebuild", "start"} => disk.tree = "old"
       /\ guard.pc \in {"rebuild", "start"} => disk.packages = "old"
       /\ guard.pc = "start" => disk.built = "old"
  /\ guard.pc = "watch_back" /\ spent.claims = 1 =>
       /\ Only("old") /\ db.whole /\ db.schema = "old"
       /\ ~Executes /\ worker.code \in {"none", "old"} /\ api \in {"none", "old"}

(* The first execution, when no computer or worker goes down and nothing is left
   to the owner: what is on the disk at each place. *)
Calm == spent.claims = 1 /\ spent.reboots = 0 /\ told = "nothing"
OnDisk(tree, packages, built) ==
  disk.tree \in tree /\ disk.packages \in packages /\ disk.built \in built
Any == {"old", "new", "mixed"}
AtWork ==  \* before the guard
  /\ worker.pc \in {"check", "download"} => Only("old")
  /\ worker.pc \in {"assets", "undo_tree", "packages"} => OnDisk({"new"}, {"old"}, {"old"})
  /\ worker.pc \in {"plan", "install"} => OnDisk({"new"}, {"new"}, {"old"})
  /\ worker.pc = "undo_both" => OnDisk({"new"}, Any, {"old"})
  /\ worker.pc = "undo_packages" => OnDisk({"old"}, Any, {"old"})
  /\ worker.pc = "watch_over" => Only("new")
  /\ worker.pc = "report_failed" => Only("old")
  /\ Executes => ~worker.lost /\ db.job = "running"
  /\ ~Executes => Only("old") /\ db.job \in {"failed", "cancelled"}
Guarded ==  \* from the guard on
  /\ worker.pc \in {"idle", "report_failed", "report_done", "restart"}
  /\ Executes => guard.pc \in {"watch", "stop", "stopping", "done"}
  /\ guard.pc = "watch" =>
       /\ Only("new") /\ db.job # "failed" /\ worker.pc # "report_failed"
       /\ ~guard.waits => ~Executes /\ db.job = "succeeded"
  /\ guard.pc = "done" /\ db.whole /\ result # "needs_attention" =>
       /\ ~Executes
       /\ \/ result = "verified" /\ db.job = "succeeded" /\ Only("new")
          \/ result = "rolled_back" /\ db.job = "failed" /\ Only("old")
CalmInv == Calm => IF guard.pc = "none" THEN AtWork ELSE Guarded

IInv == /\ TypeOK /\ ServicesInv /\ JobInv /\ DatabaseInv /\ TreeInv /\ BackInv /\ CalmInv
-----------------------------------------------------------------------------
(* What the updates of the records do. *)

WorkerType == [code: Versions \cup {"none"}, pc: Executing \cup {"idle"},
               claim: 0..MaxClaims, lost: BOOLEAN, stopping: BOOLEAN]
GuardType == [pc: GuardPlaces, mode: {"none", "verify", "rollback"},
              waits: BOOLEAN, problem: BOOLEAN, older: {"gone", "watching"}]
DiskType == [tree: Versions, packages: Versions \cup {"mixed"},
             built: Versions \cup {"mixed"}]
SpentType == [trouble: 0..MaxTrouble, reboots: 0..MaxReboots, claims: 0..MaxClaims]

WorkerSame == /\ worker'.code = worker.code /\ worker'.claim = worker.claim
              /\ worker'.lost <=> worker.lost
DatabaseSame == /\ db'.schema = db.schema /\ db'.work = db.work
                /\ db'.whole <=> db.whole
SpentSame == spent'.reboots = spent.reboots /\ spent'.claims = spent.claims

\* The parts of the type invariant.
LEMMA Types ==
  ASSUME TypeOK
  PROVE  /\ worker \in WorkerType /\ guard \in GuardType /\ disk \in DiskType
         /\ db \in Database /\ copy \in Database /\ spent \in SpentType
         /\ release \in [starts: BOOLEAN, migrates: BOOLEAN]
         /\ units \in {"up", "down"} /\ bounce \subseteq {"api", "worker"}
         /\ api \in Versions \cup {"none"}
         /\ result \in {"none", "verified", "rolled_back", "needs_attention"}
         /\ told \in {"nothing", "terminal", "safe"}
BY DEF TypeOK, WorkerType, GuardType, DiskType, SpentType

\* The bounds are naturals.
LEMMA BoundsAre ==
  MaxTrouble \in Nat /\ MaxReboots \in Nat /\ MaxClaims \in Nat /\ 0 \in 0..MaxClaims
BY SelfUpdateAssumption DEF SelfUpdateAssumption

\* The worker goes to another place.
LEMMA WorkerGoes ==
  ASSUME TypeOK, NEW p \in Executing \cup {"idle"}, Goes(p)
  PROVE  worker' \in WorkerType /\ worker'.pc = p /\ WorkerSame
<1>0. worker \in WorkerType /\ worker' = [worker EXCEPT !.pc = p]
  BY Types DEF Goes
<1>1. worker' \in WorkerType
  BY <1>0 DEF WorkerType
<1>2. worker'.pc = p /\ worker'.code = worker.code /\ worker'.claim = worker.claim
  BY <1>0 DEF WorkerType
<1>3. worker'.lost <=> worker.lost
  BY <1>0 DEF WorkerType
<1> QED BY <1>1, <1>2, <1>3 DEF WorkerSame

\* A worker is told that it lost its lease, or that it is to stop.
LEMMA WorkerTold ==
  ASSUME NEW w \in WorkerType, NEW u,
         u = [w EXCEPT !.lost = TRUE] \/ u = [w EXCEPT !.stopping = TRUE]
  PROVE  u \in WorkerType /\ u.pc = w.pc /\ u.code = w.code /\ u.claim = w.claim
<1>1. CASE u = [w EXCEPT !.lost = TRUE]
  <2>1. u \in WorkerType
    BY <1>1 DEF WorkerType
  <2>2. u.pc = w.pc /\ u.code = w.code /\ u.claim = w.claim
    BY <1>1 DEF WorkerType
  <2> QED BY <2>1, <2>2
<1>2. CASE u = [w EXCEPT !.stopping = TRUE]
  <2>1. u \in WorkerType
    BY <1>2 DEF WorkerType
  <2>2. u.pc = w.pc /\ u.code = w.code /\ u.claim = w.claim
    BY <1>2 DEF WorkerType
  <2> QED BY <2>1, <2>2
<1> QED BY <1>1, <1>2

\* A worker that is told to stop has lost no lease by that.
LEMMA WorkerStopping ==
  ASSUME NEW w \in WorkerType, NEW u, u = [w EXCEPT !.stopping = TRUE]
  PROVE  u.lost <=> w.lost
BY DEF WorkerType

\* A worker takes the job.
Takes(c) == worker' = [worker EXCEPT !.pc = "check", !.claim = c, !.lost = FALSE]

\* What the worker is then.
LEMMA WorkerTakes ==
  ASSUME TypeOK, NEW c \in 0..MaxClaims, Takes(c)
  PROVE  /\ worker' \in WorkerType /\ worker'.pc = "check" /\ worker'.code = worker.code
         /\ worker'.claim = c /\ ~worker'.lost
<1>1. worker' \in WorkerType
  BY Types DEF WorkerType, Executing, Takes
<1>2. worker'.pc = "check" /\ worker'.code = worker.code /\ worker'.claim = c
  BY Types DEF WorkerType, Takes
<1>3. ~worker'.lost
  BY Types DEF WorkerType, Takes
<1> QED BY <1>1, <1>2, <1>3

\* No worker, and one that has just started.
LEMMA NoWorkerIs ==
  /\ NoWorker \in WorkerType
  /\ NoWorker.code = "none" /\ NoWorker.pc = "idle" /\ NoWorker.claim = 0
<1>1. NoWorker \in WorkerType
  BY BoundsAre DEF NoWorker, WorkerType
<1>2. NoWorker.code = "none" /\ NoWorker.pc = "idle" /\ NoWorker.claim = 0
  BY DEF NoWorker
<1> QED BY <1>1, <1>2

\* A worker that has just started.
LEMMA NewWorkerIs ==
  ASSUME NEW c \in Versions \cup {"none"}, NEW u, u = [NoWorker EXCEPT !.code = c]
  PROVE  u \in WorkerType /\ u.code = c /\ u.pc = "idle" /\ u.claim = 0
<1>1. u \in WorkerType
  BY NoWorkerIs DEF WorkerType
<1>2. u.code = c /\ u.pc = "idle" /\ u.claim = 0
  BY NoWorkerIs DEF WorkerType
<1> QED BY <1>1, <1>2

\* The job changes hands: it ends, or a worker claims it.
Handed(j, o) == db' = [db EXCEPT !.job = j, !.owner = o]

\* What the job is then.
LEMMA JobIsHanded ==
  ASSUME TypeOK, NEW j \in JobStates, NEW o \in 0..MaxClaims, Handed(j, o)
  PROVE  db' \in Database /\ db'.job = j /\ db'.owner = o /\ DatabaseSame
<1>1. db' \in Database
  BY Types DEF Database, Handed
<1>2. db'.job = j /\ db'.owner = o /\ db'.schema = db.schema /\ db'.work = db.work
  BY Types DEF Database, Handed
<1>3. db'.whole <=> db.whole
  BY Types DEF Database, Handed
<1> QED BY <1>1, <1>2, <1>3 DEF DatabaseSame

\* The job changes its state alone.
LEMMA JobAloneChanges ==
  ASSUME NEW d \in Database, NEW j \in JobStates, NEW e, e = [d EXCEPT !.job = j]
  PROVE  /\ e \in Database /\ e.job = j /\ e.owner = d.owner
         /\ e.schema = d.schema /\ (e.whole <=> d.whole) /\ e.work = d.work
<1>1. e \in Database
  BY DEF Database
<1>2. e.job = j /\ e.owner = d.owner /\ e.schema = d.schema /\ e.work = d.work
  BY DEF Database
<1>3. e.whole <=> d.whole
  BY DEF Database
<1> QED BY <1>1, <1>2, <1>3

\* Another request is accepted or served.
LEMMA WorkChanges ==
  ASSUME NEW d \in Database, NEW w \in Work, NEW e, e = [d EXCEPT !.work = w]
  PROVE  /\ e \in Database /\ e.work = w
         /\ e.job = d.job /\ e.owner = d.owner /\ e.schema = d.schema /\ (e.whole <=> d.whole)
<1>1. e \in Database
  BY DEF Database
<1>2. e.work = w /\ e.job = d.job /\ e.owner = d.owner /\ e.schema = d.schema
  BY DEF Database
<1>3. e.whole <=> d.whole
  BY DEF Database
<1> QED BY <1>1, <1>2, <1>3

\* A cancellation is noted.
LEMMA CancelIsNoted ==
  ASSUME NEW d \in Database, NEW e, e = [d EXCEPT !.cancel = TRUE]
  PROVE  /\ e \in Database /\ e.job = d.job /\ e.owner = d.owner
         /\ e.schema = d.schema /\ (e.whole <=> d.whole) /\ e.work = d.work
<1>1. e \in Database
  BY DEF Database
<1>2. e.job = d.job /\ e.owner = d.owner /\ e.schema = d.schema /\ e.work = d.work
  BY DEF Database
<1>3. e.whole <=> d.whole
  BY DEF Database
<1> QED BY <1>1, <1>2, <1>3

\* The worker reports how the job ended, if it still holds it.
LEMMA Reports ==
  ASSUME TypeOK, NEW state \in JobStates, Report(state)
  PROVE  /\ db' \in Database /\ DatabaseSame
         /\ Held => db'.job = state /\ db'.owner = 0
         /\ ~Held => db'.job = db.job /\ db'.owner = db.owner
<1>1. CASE Held
  <2>1. Handed(state, 0)
    BY <1>1 DEF Report, Handed
  <2> QED BY <1>1, <2>1, BoundsAre, JobIsHanded
<1>2. CASE ~Held
  BY <1>2, Types DEF Report, DatabaseSame
<1> QED BY <1>1, <1>2

\* The file is taken away to be replaced.
LEMMA FileGoes ==
  ASSUME NEW d \in Database, NEW e, e = [d EXCEPT !.whole = FALSE]
  PROVE  /\ e \in Database /\ ~e.whole
         /\ e.job = d.job /\ e.owner = d.owner /\ e.schema = d.schema /\ e.work = d.work
<1>1. e \in Database
  BY DEF Database
<1>2. e.job = d.job /\ e.owner = d.owner /\ e.schema = d.schema /\ e.work = d.work
  BY DEF Database
<1>3. ~e.whole
  BY DEF Database
<1> QED BY <1>1, <1>2, <1>3

\* Opening the database changes nothing but its schema.
LEMMA Migrates ==
  ASSUME TypeOK, NEW v \in Versions, db' = Migrated(v)
  PROVE  /\ db' \in Database
         /\ db'.job = db.job /\ db'.owner = db.owner /\ db'.work = db.work
         /\ db'.whole <=> db.whole
         /\ v = "old" => db'.schema = db.schema
<1>1. CASE db' = db
  BY <1>1, Types
<1>2. CASE v = "new" /\ db' = [db EXCEPT !.schema = "new"]
  <2>1. db' \in Database
    BY <1>2, Types DEF Database, Versions
  <2>2. db'.job = db.job /\ db'.owner = db.owner /\ db'.work = db.work
    BY <1>2, Types DEF Database
  <2>3. db'.whole <=> db.whole
    BY <1>2, Types DEF Database
  <2> QED BY <1>2, <2>1, <2>2, <2>3
<1> QED BY <1>1, <1>2 DEF Migrated

\* One part of the checkout changes.
LEMMA DiskChanges ==
  ASSUME TypeOK, NEW field \in {"tree", "packages", "built"}, NEW value, Disk(field, value),
         value \in Versions \/ (field # "tree" /\ value = "mixed")
  PROVE  /\ disk' \in DiskType
         /\ disk'.tree = IF field = "tree" THEN value ELSE disk.tree
         /\ disk'.packages = IF field = "packages" THEN value ELSE disk.packages
         /\ disk'.built = IF field = "built" THEN value ELSE disk.built
<1>1. /\ DOMAIN disk = {"tree", "packages", "built"} /\ disk \in DiskType
      /\ disk' = [disk EXCEPT ![field] = value]
  BY Types DEF DiskType, Disk
<1>2. /\ disk'["tree"] = IF field = "tree" THEN value ELSE disk["tree"]
      /\ disk'["packages"] = IF field = "packages" THEN value ELSE disk["packages"]
      /\ disk'["built"] = IF field = "built" THEN value ELSE disk["built"]
  BY <1>1
<1>3. disk' = [tree |-> disk'.tree, packages |-> disk'.packages, built |-> disk'.built]
  BY <1>1
<1>4. /\ disk'.tree \in Versions /\ disk'.packages \in Versions \cup {"mixed"}
      /\ disk'.built \in Versions \cup {"mixed"}
  BY <1>1, <1>2 DEF DiskType
<1> QED BY <1>2, <1>3, <1>4 DEF DiskType

\* The guard goes to another place, perhaps with a problem noted.
LEMMA GuardMoves ==
  ASSUME TypeOK, NEW p \in GuardPlaces, GuardGoes(p)
  PROVE  /\ guard' \in GuardType /\ guard'.pc = p /\ guard'.older = guard.older
         /\ guard'.waits <=> guard.waits
         /\ guard'.problem <=> guard.problem
<1>0. guard \in GuardType /\ guard' = [guard EXCEPT !.pc = p]
  BY Types DEF GuardGoes
<1>1. guard' \in GuardType /\ guard'.pc = p /\ guard'.older = guard.older
  BY <1>0 DEF GuardType
<1>2. guard'.waits <=> guard.waits
  BY <1>0 DEF GuardType
<1>3. guard'.problem <=> guard.problem
  BY <1>0 DEF GuardType
<1> QED BY <1>1, <1>2, <1>3

\* The guard notes a problem.
LEMMA GuardFails ==
  ASSUME TypeOK, NEW p \in GuardPlaces,
         \/ guard' = [guard EXCEPT !.pc = p, !.problem = TRUE]
         \/ p = guard.pc /\ guard' = [guard EXCEPT !.problem = TRUE]
  PROVE  /\ guard' \in GuardType /\ guard'.pc = p /\ guard'.problem
         /\ guard'.older = guard.older
<1>1. CASE guard' = [guard EXCEPT !.pc = p, !.problem = TRUE]
  <2>1. guard' \in GuardType
    BY <1>1, Types DEF GuardType
  <2>2. guard'.pc = p /\ guard'.older = guard.older
    BY <1>1, Types DEF GuardType
  <2>3. guard'.problem
    BY <1>1, Types DEF GuardType
  <2> QED BY <2>1, <2>2, <2>3
<1>2. CASE p = guard.pc /\ guard' = [guard EXCEPT !.problem = TRUE]
  <2>1. guard' \in GuardType
    BY <1>2, Types DEF GuardType
  <2>2. guard'.pc = p /\ guard'.older = guard.older
    BY <1>2, Types DEF GuardType
  <2>3. guard'.problem
    BY <1>2, Types DEF GuardType
  <2> QED BY <2>1, <2>2, <2>3
<1> QED BY <1>1, <1>2

\* The worker the guard waits for is gone.
LEMMA GuardWaitsNoMore ==
  ASSUME TypeOK, guard' = [guard EXCEPT !.waits = FALSE]
  PROVE  /\ guard' \in GuardType /\ guard'.pc = guard.pc /\ ~guard'.waits
         /\ guard'.problem <=> guard.problem
         /\ guard'.older = guard.older
<1>1. guard' \in GuardType
  BY Types DEF GuardType
<1>2. guard'.pc = guard.pc /\ guard'.older = guard.older
  BY Types DEF GuardType
<1>3. ~guard'.waits
  BY Types DEF GuardType
<1>4. guard'.problem <=> guard.problem
  BY Types DEF GuardType
<1> QED BY <1>1, <1>2, <1>3, <1>4

\* A reboot ends the guard.
LEMMA GuardEndsAtReboot ==
  ASSUME TypeOK, Reboot
  PROVE  /\ guard' \in GuardType /\ ~guard'.waits /\ guard'.older = "gone"
         /\ guard'.pc = IF guard.pc = "none" THEN "none" ELSE "done"
<1>1. guard' \in GuardType
  BY Types DEF Reboot, GuardType, GuardPlaces
<1>2. guard'.pc = (IF guard.pc = "none" THEN "none" ELSE "done") /\ guard'.older = "gone"
  BY Types DEF Reboot, GuardType
<1>3. ~guard'.waits
  BY Types DEF Reboot, GuardType
<1> QED BY <1>1, <1>2, <1>3

\* A guard ends the job failed, if the database is there, and says how it went.
LEMMA Ended ==
  ASSUME TypeOK, NEW state, Closes(state)
  PROVE  /\ result' = state /\ db' \in Database /\ DatabaseSame
         /\ db.whole => db'.job = "failed" /\ db'.owner = 0
         /\ ~db.whole => db'.job = db.job /\ db'.owner = db.owner
<1>1. CASE db.whole
  <2>1. Handed("failed", 0)
    BY <1>1 DEF Closes, Handed
  <2> QED BY <1>1, <2>1, BoundsAre, JobIsHanded DEF JobStates, Closes
<1>2. CASE ~db.whole
  BY <1>2, Types DEF Closes, DatabaseSame
<1> QED BY <1>1, <1>2

\* The newest guard is through with that.
LEMMA Settled ==
  ASSUME TypeOK, NEW state, Settles(state)
  PROVE  /\ result' = state
         /\ guard' \in GuardType /\ guard'.pc = "done" /\ guard'.older = guard.older
         /\ db' \in Database /\ DatabaseSame
         /\ db.whole => db'.job = "failed" /\ db'.owner = 0
         /\ ~db.whole => db'.job = db.job /\ db'.owner = db.owner
<1>1. guard' \in GuardType /\ guard'.pc = "done" /\ guard'.older = guard.older
  BY GuardMoves DEF Settles, GuardPlaces
<1> QED BY <1>1, Ended DEF Settles

\* A guard is started.
LEMMA GuardStarts ==
  ASSUME TypeOK, NEW mode \in {"verify", "rollback"}, Launch(mode)
  PROVE  /\ guard' \in GuardType /\ guard'.waits
         /\ guard'.pc = IF mode = "verify" THEN "watch" ELSE "stop"
         /\ guard'.older = "watching" => guard.pc = "watch_back" \/ guard.older = "watching"
<1>1. guard' \in GuardType
  BY Types DEF Launch, GuardType, GuardPlaces
<1>2. guard'.waits
  BY DEF Launch
<1>3. /\ guard'.pc = IF mode = "verify" THEN "watch" ELSE "stop"
      /\ guard'.older = "watching" => guard.pc = "watch_back" \/ guard.older = "watching"
  BY DEF Launch
<1> QED BY <1>1, <1>2, <1>3

\* A command fails, or nothing does: no reboot and no claim is counted.
LEMMA TroubleOrNot ==
  ASSUME TypeOK, Trouble \/ Fine
  PROVE  spent' \in SpentType /\ SpentSame
<1>1. CASE Trouble
  BY <1>1, Types, BoundsAre DEF Trouble, SpentType, SpentSame
<1>2. CASE Fine
  BY <1>2, Types DEF Fine, SpentSame
<1> QED BY <1>1, <1>2

\* Something goes down.
LEMMA GoesDown ==
  ASSUME TypeOK, Down
  PROVE  spent' \in SpentType /\ spent'.reboots # 0 /\ spent'.claims = spent.claims
BY Types, BoundsAre DEF Down, SpentType

\* The job is claimed.
LEMMA OneMoreClaim ==
  ASSUME TypeOK, spent.claims < MaxClaims, spent' = [spent EXCEPT !.claims = @ + 1]
  PROVE  /\ spent' \in SpentType /\ spent'.reboots = spent.reboots
         /\ spent'.claims = spent.claims + 1 /\ spent'.claims # 0
         /\ spent'.claims = 1 => spent.claims = 0
         /\ spent.claims + 1 \in 0..MaxClaims
BY Types, BoundsAre DEF SpentType

\* The parts of the type invariant after a step.
LEMMA TypesAgain ==
  ASSUME release' \in [starts: BOOLEAN, migrates: BOOLEAN],
         worker' \in WorkerType, guard' \in GuardType, disk' \in DiskType, db' \in Database,
         copy' \in Database, spent' \in SpentType, units' \in {"up", "down"},
         bounce' \subseteq {"api", "worker"}, api' \in Versions \cup {"none"},
         result' \in {"none", "verified", "rolled_back", "needs_attention"},
         told' \in {"nothing", "terminal", "safe"}
  PROVE  TypeOK'
BY DEF TypeOK, WorkerType, GuardType, DiskType, SpentType
-----------------------------------------------------------------------------
(* Each action keeps the invariant: what it changes, then the parts of the
   invariant, those it cannot disturb together. *)

\* The owner asks for the update.
LEMMA AskUpdateKeeps ==
  ASSUME IInv, AskUpdate
  PROVE  IInv'
<1>0. TypeOK
  BY DEF IInv
<1>1. /\ db.job = "none"
      /\ UNCHANGED <<release, disk, copy, units, bounce, api, worker, guard, result, told, spent>>
  BY DEF AskUpdate
<1>2. db' \in Database /\ db'.job = "queued" /\ db'.owner = db.owner /\ DatabaseSame
  BY <1>0, Types, JobAloneChanges DEF AskUpdate, JobStates, DatabaseSame
<1>3. TypeOK'
  BY <1>0, <1>1, <1>2, Types, TypesAgain
<1>4. ServicesInv' /\ JobInv' /\ DatabaseInv' /\ TreeInv' /\ BackInv' /\ CalmInv'
  BY <1>1, <1>2 DEF IInv, ServicesInv, Executes, StoppedPlaces, JobInv, Claimed, AfterCheck,
    NewTreePlaces, Only, DatabaseInv, TreeInv, BackInv, CalmInv, Calm, AtWork, Guarded, OnDisk,
    Any, DatabaseSame
<1> QED BY <1>3, <1>4 DEF IInv

\* Another request is accepted.
LEMMA AcceptKeeps ==
  ASSUME IInv, Accept
  PROVE  IInv'
<1>0. TypeOK
  BY DEF IInv
<1>1. UNCHANGED <<release, disk, copy, units, bounce, api, worker, guard, result, told, spent>>
  BY DEF Accept
<1>2. /\ db' \in Database /\ db'.job = db.job /\ db'.owner = db.owner
      /\ db'.schema = db.schema /\ (db'.whole <=> db.whole)
  BY <1>0, Types, WorkChanges DEF Accept, Work
<1>3. TypeOK'
  BY <1>0, <1>1, <1>2, Types, TypesAgain
<1>4. ServicesInv' /\ JobInv' /\ DatabaseInv' /\ TreeInv' /\ BackInv' /\ CalmInv'
  BY <1>1, <1>2 DEF IInv, ServicesInv, Executes, StoppedPlaces, JobInv, Claimed, AfterCheck,
    NewTreePlaces, Only, DatabaseInv, TreeInv, BackInv, CalmInv, Calm, AtWork, Guarded, OnDisk,
    Any
<1> QED BY <1>3, <1>4 DEF IInv

\* The worker does the other work.
LEMMA RunOtherKeeps ==
  ASSUME IInv, RunOther
  PROVE  IInv'
<1>0. TypeOK
  BY DEF IInv
<1>1. UNCHANGED <<release, disk, copy, units, bounce, api, worker, guard, result, told, spent>>
  BY DEF RunOther
<1>2. /\ db' \in Database /\ db'.job = db.job /\ db'.owner = db.owner
      /\ db'.schema = db.schema /\ (db'.whole <=> db.whole)
  BY <1>0, Types, WorkChanges DEF RunOther, Work
<1>3. TypeOK'
  BY <1>0, <1>1, <1>2, Types, TypesAgain
<1>4. ServicesInv' /\ JobInv' /\ DatabaseInv' /\ TreeInv' /\ BackInv' /\ CalmInv'
  BY <1>1, <1>2 DEF IInv, ServicesInv, Executes, StoppedPlaces, JobInv, Claimed, AfterCheck,
    NewTreePlaces, Only, DatabaseInv, TreeInv, BackInv, CalmInv, Calm, AtWork, Guarded, OnDisk,
    Any
<1> QED BY <1>3, <1>4 DEF IInv

\* The owner cancels.
LEMMA CancelKeeps ==
  ASSUME IInv, Cancel
  PROVE  IInv'
<1>0. TypeOK
  BY DEF IInv
<1>1. /\ api # "none" /\ db.job \in {"queued", "running"}
      /\ UNCHANGED <<release, disk, copy, units, bounce, api, worker, guard, result, told, spent>>
  BY DEF Cancel
<1>2. /\ db' \in Database /\ db'.owner = db.owner /\ DatabaseSame
      /\ db'.job = IF db.job = "queued" THEN "cancelled" ELSE db.job
  BY <1>0, Types, JobAloneChanges, CancelIsNoted DEF Cancel, Queued, JobStates, DatabaseSame
<1>3. TypeOK'
  BY <1>0, <1>1, <1>2, Types, TypesAgain
<1>4. ServicesInv' /\ JobInv' /\ DatabaseInv' /\ TreeInv' /\ BackInv' /\ CalmInv'
  BY <1>1, <1>2 DEF IInv, ServicesInv, Executes, StoppedPlaces, JobInv, Claimed, AfterCheck,
    NewTreePlaces, Only, DatabaseInv, TreeInv, BackInv, CalmInv, Calm, AtWork, Guarded, OnDisk,
    Any, DatabaseSame
<1> QED BY <1>3, <1>4 DEF IInv

\* A worker claims the job, or ends it if its cancellation was noted.
LEMMA ClaimKeeps ==
  ASSUME IInv, Claim
  PROVE  IInv'
<1>0. TypeOK
  BY DEF IInv
<1>1. /\ worker.code # "none" /\ worker.pc = "idle"
      /\ db.job = "queued" \/ (db.job = "running" /\ db.owner # worker.claim)
      /\ UNCHANGED <<release, disk, copy, units, bounce, api, guard, result, told>>
  BY DEF Claim, Queued
<1>2. \/ /\ db.job = "running" /\ db' \in Database /\ db'.job = "cancelled" /\ DatabaseSame
         /\ UNCHANGED <<worker, spent>>
      \/ /\ spent' \in SpentType /\ spent'.claims # 0 /\ spent'.reboots = spent.reboots
         /\ spent'.claims = 1 => spent.claims = 0
         /\ db' \in Database /\ db'.job = "running" /\ db'.owner = worker'.claim
         /\ DatabaseSame
         /\ worker' \in WorkerType /\ worker'.pc = "check" /\ worker'.code = worker.code
         /\ ~worker'.lost
  <2>1. CASE db.job = "running" /\ db.cancel
    <3>1. /\ Handed("cancelled", 0) /\ UNCHANGED <<worker, spent>>
      BY <2>1 DEF Claim, Handed
    <3> QED BY <1>0, <2>1, <3>1, BoundsAre, JobIsHanded DEF JobStates
  <2>2. CASE ~(db.job = "running" /\ db.cancel)
    <3>1. /\ spent' \in SpentType /\ spent'.reboots = spent.reboots
          /\ spent'.claims = spent.claims + 1 /\ spent'.claims # 0
          /\ spent'.claims = 1 => spent.claims = 0
          /\ spent.claims + 1 \in 0..MaxClaims
      BY <1>0, <2>2, OneMoreClaim DEF Claim
    <3>2. Handed("running", spent.claims + 1) /\ Takes(spent.claims + 1)
      BY <2>2 DEF Claim, Handed, Takes
    <3>3. /\ db' \in Database /\ db'.job = "running" /\ DatabaseSame
          /\ db'.owner = spent.claims + 1
      BY <1>0, <3>1, <3>2, JobIsHanded DEF JobStates
    <3>4. /\ worker' \in WorkerType /\ worker'.pc = "check" /\ worker'.code = worker.code
          /\ worker'.claim = spent.claims + 1 /\ ~worker'.lost
      BY <1>0, <3>1, <3>2, WorkerTakes
    <3> QED BY <3>1, <3>3, <3>4
  <2> QED BY <2>1, <2>2
<1>3. TypeOK'
  BY <1>0, <1>1, <1>2, Types, TypesAgain
<1>4. ServicesInv' /\ JobInv' /\ TreeInv'
  BY <1>1, <1>2 DEF IInv, ServicesInv, Executes, StoppedPlaces, JobInv, Claimed, AfterCheck,
    NewTreePlaces, Only, TreeInv, DatabaseSame
<1>5. DatabaseInv'
  BY <1>1, <1>2 DEF IInv, DatabaseInv, Executes, JobInv, Claimed, AfterCheck, NewTreePlaces,
    Only, DatabaseSame
<1>6. BackInv'
  BY <1>1, <1>2 DEF IInv, BackInv, Executes, Only, JobInv, Claimed, AfterCheck, NewTreePlaces,
    DatabaseSame
<1>7. CalmInv'
  BY <1>1, <1>2 DEF IInv, CalmInv, Calm, AtWork, Guarded, OnDisk, Only, Any, Executes, JobInv,
    Claimed, AfterCheck, NewTreePlaces, DatabaseSame
<1> QED BY <1>3, <1>4, <1>5, <1>6, <1>7 DEF IInv

\* The worker learns that it lost its lease.
LEMMA LosesLeaseKeeps ==
  ASSUME IInv, LosesLease
  PROVE  IInv'
<1>0. TypeOK
  BY DEF IInv
<1>1. /\ ~Held /\ worker.pc # "idle"
      /\ UNCHANGED <<release, disk, db, copy, units, bounce, api, guard, result, told, spent>>
  BY DEF LosesLease, Executing
<1>2. /\ worker' \in WorkerType /\ worker'.pc = worker.pc
      /\ worker'.code = worker.code /\ worker'.claim = worker.claim
  BY <1>0, Types, WorkerTold DEF LosesLease
<1>3. TypeOK'
  BY <1>0, <1>1, <1>2, Types, TypesAgain
<1>4. ServicesInv' /\ JobInv' /\ DatabaseInv' /\ TreeInv' /\ BackInv'
  BY <1>1, <1>2 DEF IInv, ServicesInv, Executes, StoppedPlaces, JobInv, Claimed, AfterCheck,
    NewTreePlaces, Only, DatabaseInv, TreeInv, BackInv
<1>5. CalmInv'
  BY <1>1, <1>2 DEF IInv, CalmInv, Calm, AtWork, Guarded, OnDisk, Only, Any, Executes, JobInv,
    Claimed, AfterCheck, NewTreePlaces, Held
<1> QED BY <1>3, <1>4, <1>5 DEF IInv

\* The execution stops at a checkpoint.
LEMMA InterruptedKeeps ==
  ASSUME IInv, Interrupted
  PROVE  IInv'
<1>0. TypeOK
  BY DEF IInv
<1>1. /\ worker.pc \in Executing \ {"restart", "report_failed"}
      /\ worker.lost \/ Cancelled
      /\ UNCHANGED <<release, disk, copy, units, bounce, api, guard, result, told, spent>>
  BY DEF Interrupted
<1>2. /\ worker' \in WorkerType /\ worker'.pc = "idle" /\ WorkerSame
  BY <1>0, WorkerGoes DEF Interrupted, Goes
<1>3. /\ db' \in Database /\ DatabaseSame
      /\ Cancelled => db'.job = "cancelled"
      /\ ~Cancelled => db'.job = db.job /\ db'.owner = db.owner
  <2>1. CASE Cancelled
    <3>1. Handed("cancelled", 0)
      BY <2>1 DEF Interrupted, Handed
    <3> QED BY <1>0, <2>1, <3>1, BoundsAre, JobIsHanded DEF JobStates
  <2>2. CASE ~Cancelled
    BY <1>0, <2>2, Types DEF Interrupted, DatabaseSame
  <2> QED BY <2>1, <2>2
<1>4. TypeOK'
  BY <1>0, <1>1, <1>2, <1>3, Types, TypesAgain
<1>5. ServicesInv' /\ JobInv' /\ TreeInv' /\ BackInv'
  BY <1>1, <1>2, <1>3 DEF IInv, ServicesInv, Executes, StoppedPlaces, JobInv, Claimed,
    AfterCheck, NewTreePlaces, Only, TreeInv, BackInv, Cancelled, Held, Executing,
    WorkerSame, DatabaseSame
<1>6. DatabaseInv'
  BY <1>1, <1>2, <1>3 DEF IInv, DatabaseInv, Executes, JobInv, Claimed, AfterCheck,
    NewTreePlaces, Only, Cancelled, Held, Executing, WorkerSame, DatabaseSame
<1>7. CalmInv'
  BY <1>1, <1>2, <1>3 DEF IInv, CalmInv, Calm, AtWork, Guarded, OnDisk, Only, Any, Executes,
    ServicesInv, StoppedPlaces, Cancelled, Held, Executing, WorkerSame, DatabaseSame
<1> QED BY <1>4, <1>5, <1>6, <1>7 DEF IInv

\* The worker looks at the release and takes the checkpoint.
LEMMA CheckKeeps ==
  ASSUME IInv, Check
  PROVE  IInv'
<1>0. TypeOK
  BY DEF IInv
<1>1. /\ worker.code # "none" /\ worker.pc = "check" /\ ~worker.lost
      /\ UNCHANGED <<release, disk, units, bounce, api, guard, result, told>>
  BY DEF Check, At
<1>2. spent' \in SpentType /\ SpentSame
  BY <1>0, TroubleOrNot DEF Check
<1>3. \/ /\ disk.tree = "new" /\ UNCHANGED copy
         /\ worker' \in WorkerType /\ worker'.pc = "idle" /\ WorkerSame
         /\ db' \in Database /\ DatabaseSame
         /\ Held => db'.job = "succeeded" /\ db'.owner = 0
         /\ ~Held => db'.job = db.job /\ db'.owner = db.owner
      \/ /\ UNCHANGED <<db, copy>>
         /\ worker' \in WorkerType /\ worker'.pc = "report_failed" /\ WorkerSame
      \/ /\ disk.tree = "old" /\ UNCHANGED db /\ copy' = db
         /\ worker' \in WorkerType /\ worker'.pc = "download" /\ WorkerSame
  BY <1>0, WorkerGoes, Reports DEF Check, Checkpoint, Executing, JobStates
<1>4. TypeOK'
  BY <1>0, <1>1, <1>2, <1>3, Types, TypesAgain
<1>5. ServicesInv' /\ DatabaseInv' /\ TreeInv' /\ BackInv' /\ CalmInv'
  BY <1>1, <1>2, <1>3 DEF IInv, ServicesInv, Executes, StoppedPlaces, DatabaseInv, TreeInv,
    NewTreePlaces, BackInv, Only, CalmInv, Calm, AtWork, Guarded, OnDisk, Any, WorkerSame,
    DatabaseSame, SpentSame
<1>6. JobInv'
  BY <1>1, <1>2, <1>3 DEF IInv, JobInv, Claimed, Executes, AfterCheck, NewTreePlaces, Only,
    DatabaseInv, Held, WorkerSame, DatabaseSame, SpentSame
<1> QED BY <1>4, <1>5, <1>6 DEF IInv

\* The worker checks the release out.
LEMMA DownloadKeeps ==
  ASSUME IInv, Download
  PROVE  IInv'
<1>0. TypeOK
  BY DEF IInv
<1>1. /\ worker.code # "none" /\ worker.pc = "download"
      /\ UNCHANGED <<release, db, copy, units, bounce, api, guard, result, told>>
  BY DEF Download, At, StepUnchanged
<1>2. spent' \in SpentType /\ SpentSame
  BY <1>0, TroubleOrNot DEF Download
<1>3. \/ /\ worker' \in WorkerType /\ worker'.pc = "assets" /\ WorkerSame
         /\ disk' \in DiskType /\ disk'.tree = "new"
         /\ disk'.packages = disk.packages /\ disk'.built = disk.built
      \/ /\ worker' \in WorkerType /\ worker'.pc = "report_failed" /\ WorkerSame
         /\ UNCHANGED disk
  BY <1>0, Types, WorkerGoes, DiskChanges DEF Download, Executing, Versions
<1>4. TypeOK'
  BY <1>0, <1>1, <1>2, <1>3, Types, TypesAgain
<1>5. ServicesInv' /\ JobInv' /\ DatabaseInv' /\ TreeInv' /\ CalmInv'
  BY <1>1, <1>2, <1>3 DEF IInv, ServicesInv, Executes, StoppedPlaces, JobInv, Claimed,
    AfterCheck, NewTreePlaces, Only, DatabaseInv, TreeInv, CalmInv, Calm, AtWork, Guarded,
    OnDisk, Any, WorkerSame, SpentSame
<1>6. BackInv'
  BY <1>1, <1>2, <1>3 DEF IInv, BackInv, Executes, Only, ServicesInv, StoppedPlaces, WorkerSame,
    SpentSame
<1> QED BY <1>4, <1>5, <1>6 DEF IInv

\* The worker fetches the dashboard.
LEMMA AssetsKeeps ==
  ASSUME IInv, Assets
  PROVE  IInv'
<1>0. TypeOK
  BY DEF IInv
<1>1. /\ worker.code # "none" /\ worker.pc = "assets"
      /\ UNCHANGED <<release, disk, db, copy, units, bounce, api, guard, result, told>>
  BY DEF Assets, At, StepUnchanged
<1>2. spent' \in SpentType /\ SpentSame
  BY <1>0, TroubleOrNot DEF Assets
<1>3. \/ /\ worker' \in WorkerType /\ worker'.pc = "packages" /\ WorkerSame
      \/ /\ worker' \in WorkerType /\ worker'.pc = "undo_tree" /\ WorkerSame
  BY <1>0, WorkerGoes DEF Assets, Executing, Versions
<1>4. TypeOK'
  BY <1>0, <1>1, <1>2, <1>3, Types, TypesAgain
<1>5. ServicesInv' /\ JobInv' /\ DatabaseInv' /\ TreeInv' /\ BackInv' /\ CalmInv'
  BY <1>1, <1>2, <1>3 DEF IInv, ServicesInv, Executes, StoppedPlaces, JobInv, Claimed,
    AfterCheck, NewTreePlaces, Only, DatabaseInv, TreeInv, BackInv, CalmInv, Calm, AtWork,
    Guarded, OnDisk, Any, WorkerSame, SpentSame
<1> QED BY <1>4, <1>5 DEF IInv

\* The worker matches the packages.
LEMMA PackagesKeeps ==
  ASSUME IInv, Packages
  PROVE  IInv'
<1>0. TypeOK
  BY DEF IInv
<1>1. /\ worker.code # "none" /\ worker.pc = "packages"
      /\ UNCHANGED <<release, db, copy, units, bounce, api, guard, result, told>>
  BY DEF Packages, At, StepUnchanged
<1>2. spent' \in SpentType /\ SpentSame
  BY <1>0, TroubleOrNot DEF Packages
<1>3. \/ /\ worker' \in WorkerType /\ worker'.pc = "plan" /\ WorkerSame
         /\ disk' \in DiskType /\ disk'.packages = "new"
         /\ disk'.tree = disk.tree /\ disk'.built = disk.built
      \/ /\ worker' \in WorkerType /\ worker'.pc = "undo_both" /\ WorkerSame
         /\ disk' \in DiskType /\ disk'.packages = "mixed"
         /\ disk'.tree = disk.tree /\ disk'.built = disk.built
  BY <1>0, Types, WorkerGoes, DiskChanges DEF Packages, Executing, Versions
<1>4. TypeOK'
  BY <1>0, <1>1, <1>2, <1>3, Types, TypesAgain
<1>5. ServicesInv' /\ JobInv' /\ DatabaseInv' /\ TreeInv' /\ CalmInv'
  BY <1>1, <1>2, <1>3 DEF IInv, ServicesInv, Executes, StoppedPlaces, JobInv, Claimed,
    AfterCheck, NewTreePlaces, Only, DatabaseInv, TreeInv, CalmInv, Calm, AtWork, Guarded,
    OnDisk, Any, WorkerSame, SpentSame
<1>6. BackInv'
  BY <1>1, <1>2, <1>3 DEF IInv, BackInv, Executes, Only, ServicesInv, StoppedPlaces, WorkerSame,
    SpentSame
<1> QED BY <1>4, <1>5, <1>6 DEF IInv

\* The new code plans.
LEMMA PlanKeeps ==
  ASSUME IInv, Plan
  PROVE  IInv'
<1>0. TypeOK
  BY DEF IInv
<1>1. /\ worker.code # "none" /\ worker.pc = "plan"
      /\ UNCHANGED <<release, disk, db, copy, units, bounce, api, guard, result, told>>
  BY DEF Plan, At, StepUnchanged
<1>2. spent' \in SpentType /\ SpentSame
  BY <1>0, TroubleOrNot DEF Plan
<1>3. \/ /\ worker' \in WorkerType /\ worker'.pc = "install" /\ WorkerSame
      \/ /\ worker' \in WorkerType /\ worker'.pc = "undo_both" /\ WorkerSame
  BY <1>0, WorkerGoes DEF Plan, Executing, Versions
<1>4. TypeOK'
  BY <1>0, <1>1, <1>2, <1>3, Types, TypesAgain
<1>5. ServicesInv' /\ JobInv' /\ DatabaseInv' /\ TreeInv' /\ BackInv' /\ CalmInv'
  BY <1>1, <1>2, <1>3 DEF IInv, ServicesInv, Executes, StoppedPlaces, JobInv, Claimed,
    AfterCheck, NewTreePlaces, Only, DatabaseInv, TreeInv, BackInv, CalmInv, Calm, AtWork,
    Guarded, OnDisk, Any, WorkerSame, SpentSame
<1> QED BY <1>4, <1>5 DEF IInv

\* The worker puts the old code back.
LEMMA UndoTreeKeeps ==
  ASSUME IInv, UndoTree
  PROVE  IInv'
<1>0. TypeOK
  BY DEF IInv
<1>1. /\ worker.code # "none" /\ worker.pc \in {"undo_tree", "undo_both"}
      /\ UNCHANGED <<release, db, copy, units, bounce, api, guard, result>>
  BY DEF UndoTree, At, StepUnchanged
<1>2. spent' \in SpentType /\ SpentSame
  BY <1>0, TroubleOrNot DEF UndoTree
<1>3. \/ /\ worker' \in WorkerType /\ worker'.pc = "report_failed" /\ WorkerSame
         /\ disk' \in DiskType /\ disk'.tree = "old"
         /\ disk'.packages = disk.packages /\ disk'.built = disk.built
         /\ worker.pc = "undo_tree" /\ UNCHANGED told
      \/ /\ worker' \in WorkerType /\ worker'.pc = "undo_packages" /\ WorkerSame
         /\ disk' \in DiskType /\ disk'.tree = "old"
         /\ disk'.packages = disk.packages /\ disk'.built = disk.built
         /\ worker.pc = "undo_both" /\ UNCHANGED told
      \/ /\ worker' \in WorkerType /\ worker'.pc = "report_failed" /\ WorkerSame
         /\ UNCHANGED disk
         /\ told' = "terminal"
  BY <1>0, Types, WorkerGoes, DiskChanges DEF UndoTree, At, Executing, Versions
<1>4. TypeOK'
  BY <1>0, <1>1, <1>2, <1>3, Types, TypesAgain
<1>5. ServicesInv' /\ JobInv' /\ DatabaseInv' /\ TreeInv' /\ BackInv' /\ CalmInv'
  BY <1>1, <1>2, <1>3 DEF IInv, ServicesInv, Executes, StoppedPlaces, JobInv, Claimed,
    AfterCheck, NewTreePlaces, Only, DatabaseInv, TreeInv, BackInv, CalmInv, Calm, AtWork,
    Guarded, OnDisk, Any, WorkerSame, SpentSame
<1> QED BY <1>4, <1>5 DEF IInv

\* The worker puts the old packages back.
LEMMA UndoPackagesKeeps ==
  ASSUME IInv, UndoPackages
  PROVE  IInv'
<1>0. TypeOK
  BY DEF IInv
<1>1. /\ worker.code # "none" /\ worker.pc = "undo_packages"
      /\ UNCHANGED <<release, db, copy, units, bounce, api, guard, result>>
  BY DEF UndoPackages, At, StepUnchanged
<1>2. spent' \in SpentType /\ SpentSame
  BY <1>0, TroubleOrNot DEF UndoPackages
<1>3. \/ /\ worker' \in WorkerType /\ worker'.pc = "report_failed" /\ WorkerSame
         /\ disk' \in DiskType /\ disk'.packages = "old"
         /\ disk'.tree = disk.tree /\ disk'.built = disk.built
         /\ UNCHANGED told
      \/ /\ worker' \in WorkerType /\ worker'.pc = "report_failed" /\ WorkerSame
         /\ disk' \in DiskType /\ disk'.packages = "mixed"
         /\ disk'.tree = disk.tree /\ disk'.built = disk.built
         /\ told' = "terminal"
  BY <1>0, Types, WorkerGoes, DiskChanges DEF UndoPackages, Executing, Versions
<1>4. TypeOK'
  BY <1>0, <1>1, <1>2, <1>3, Types, TypesAgain
<1>5. ServicesInv' /\ JobInv' /\ DatabaseInv' /\ TreeInv' /\ CalmInv'
  BY <1>1, <1>2, <1>3 DEF IInv, ServicesInv, Executes, StoppedPlaces, JobInv, Claimed,
    AfterCheck, NewTreePlaces, Only, DatabaseInv, TreeInv, CalmInv, Calm, AtWork, Guarded,
    OnDisk, Any, WorkerSame, SpentSame
<1>6. BackInv'
  BY <1>1, <1>2, <1>3 DEF IInv, BackInv, Executes, Only, ServicesInv, StoppedPlaces, WorkerSame,
    SpentSame
<1> QED BY <1>4, <1>5, <1>6 DEF IInv

\* The new code installs.
LEMMA InstallKeeps ==
  ASSUME IInv, Install
  PROVE  IInv'
<1>0. TypeOK
  BY DEF IInv
<1>1. /\ worker.code # "none" /\ worker.pc = "install"
      /\ UNCHANGED <<release, db, copy, units, bounce, api, guard, result, told>>
  BY DEF Install, At, StepUnchanged
<1>2. spent' \in SpentType /\ SpentSame
  BY <1>0, TroubleOrNot DEF Install
<1>3. \/ /\ worker' \in WorkerType /\ worker'.pc = "watch_over" /\ WorkerSame
         /\ disk' \in DiskType /\ disk'.built = "new"
         /\ disk'.tree = disk.tree /\ disk'.packages = disk.packages
      \/ /\ worker' \in WorkerType /\ worker'.pc = "go_back" /\ WorkerSame
         /\ disk' \in DiskType /\ disk'.built = "mixed"
         /\ disk'.tree = disk.tree /\ disk'.packages = disk.packages
  BY <1>0, Types, WorkerGoes, DiskChanges DEF Install, Executing, Versions
<1>4. TypeOK'
  BY <1>0, <1>1, <1>2, <1>3, Types, TypesAgain
<1>5. ServicesInv' /\ JobInv' /\ DatabaseInv' /\ TreeInv' /\ CalmInv'
  BY <1>1, <1>2, <1>3 DEF IInv, ServicesInv, Executes, StoppedPlaces, JobInv, Claimed,
    AfterCheck, NewTreePlaces, Only, DatabaseInv, TreeInv, CalmInv, Calm, AtWork, Guarded,
    OnDisk, Any, WorkerSame, SpentSame
<1>6. BackInv'
  BY <1>1, <1>2, <1>3 DEF IInv, BackInv, Executes, Only, ServicesInv, StoppedPlaces, WorkerSame,
    SpentSame
<1> QED BY <1>4, <1>5, <1>6 DEF IInv

\* The worker starts the guard.
LEMMA StartGuardKeeps ==
  ASSUME IInv, StartGuard
  PROVE  IInv'
<1>0. TypeOK
  BY DEF IInv
<1>1. /\ worker.code # "none" /\ worker.pc \in {"go_back", "watch_over"}
      /\ UNCHANGED <<release, disk, db, copy, units, bounce, api, result>>
  BY DEF StartGuard, At, StepUnchanged
<1>2. spent' \in SpentType /\ SpentSame
  BY <1>0, TroubleOrNot DEF StartGuard, NoGuard
<1>3. \/ /\ guard.pc \in {"none", "done", "watch_back"} /\ guard' \in GuardType /\ guard'.waits
         /\ guard'.older = "watching" => guard.pc = "watch_back" \/ guard.older = "watching"
         /\ \/ guard'.pc = "stop" /\ worker.pc = "go_back" /\ worker'.pc = "report_failed"
            \/ guard'.pc = "watch" /\ worker.pc = "watch_over" /\ worker'.pc = "report_done"
         /\ worker' \in WorkerType /\ WorkerSame /\ UNCHANGED told
      \/ /\ worker' \in WorkerType /\ worker'.pc = "report_failed" /\ WorkerSame
         /\ told' \in {"terminal", "safe"} /\ UNCHANGED guard
  BY <1>0, WorkerGoes, GuardStarts DEF StartGuard, NoGuard, At, Launch, Executing
<1>4. TypeOK'
  BY <1>0, <1>1, <1>2, <1>3, Types, TypesAgain
<1>5. ServicesInv' /\ JobInv' /\ DatabaseInv' /\ BackInv' /\ CalmInv'
  BY <1>1, <1>2, <1>3 DEF IInv, ServicesInv, Executes, StoppedPlaces, JobInv, Claimed,
    AfterCheck, NewTreePlaces, Only, DatabaseInv, BackInv, CalmInv, Calm, AtWork, Guarded,
    OnDisk, Any, WorkerSame, SpentSame
<1>6. TreeInv'
  BY <1>1, <1>2, <1>3 DEF IInv, TreeInv, NewTreePlaces, ServicesInv, Executes, StoppedPlaces,
    WorkerSame, SpentSame
<1> QED BY <1>4, <1>5, <1>6 DEF IInv

\* The worker reports that the update failed.
LEMMA ReportFailedKeeps ==
  ASSUME IInv, ReportFailed
  PROVE  IInv'
<1>0. TypeOK
  BY DEF IInv
<1>1. /\ worker.pc = "report_failed"
      /\ UNCHANGED <<release, disk, copy, units, bounce, api, guard, result, told, spent>>
  BY DEF ReportFailed
<1>2. /\ worker' \in WorkerType /\ worker'.pc = "idle" /\ WorkerSame
  BY <1>0, WorkerGoes DEF ReportFailed
<1>3. /\ db' \in Database /\ DatabaseSame
      /\ Held => db'.job = "failed" /\ db'.owner = 0
      /\ ~Held => db'.job = db.job /\ db'.owner = db.owner
  BY <1>0, Reports DEF ReportFailed, JobStates
<1>4. TypeOK'
  BY <1>0, <1>1, <1>2, <1>3, Types, TypesAgain
<1>5. ServicesInv' /\ JobInv' /\ TreeInv' /\ BackInv'
  BY <1>1, <1>2, <1>3 DEF IInv, ServicesInv, Executes, StoppedPlaces, JobInv, Claimed,
    AfterCheck, NewTreePlaces, Only, TreeInv, BackInv, WorkerSame, DatabaseSame
<1>6. DatabaseInv'
  BY <1>1, <1>2, <1>3 DEF IInv, DatabaseInv, Executes, JobInv, Claimed, AfterCheck,
    NewTreePlaces, Only, Held, WorkerSame, DatabaseSame
<1>7. CalmInv'
  BY <1>1, <1>2, <1>3 DEF IInv, CalmInv, Calm, AtWork, Guarded, OnDisk, Only, Any, Executes,
    JobInv, Claimed, AfterCheck, NewTreePlaces, Held, WorkerSame, DatabaseSame
<1> QED BY <1>4, <1>5, <1>6, <1>7 DEF IInv

\* The worker reports that the update succeeded.
LEMMA ReportDoneKeeps ==
  ASSUME IInv, ReportDone
  PROVE  IInv'
<1>0. TypeOK
  BY DEF IInv
<1>1. /\ worker.code # "none" /\ worker.pc = "report_done"
      /\ UNCHANGED <<release, disk, copy, units, bounce, api, guard, result, told, spent>>
  BY DEF ReportDone, At
<1>2. worker' \in WorkerType /\ worker'.pc = (IF Held THEN "restart" ELSE "idle") /\ WorkerSame
  BY <1>0, WorkerGoes DEF ReportDone, Executing
<1>3. /\ db' \in Database /\ DatabaseSame
      /\ Held => db'.job = "succeeded" /\ db'.owner = 0
      /\ ~Held => db'.job = db.job /\ db'.owner = db.owner
  BY <1>0, Reports DEF ReportDone, JobStates
<1>4. TypeOK'
  BY <1>0, <1>1, <1>2, <1>3, Types, TypesAgain
<1>5. ServicesInv' /\ JobInv' /\ TreeInv' /\ BackInv'
  BY <1>1, <1>2, <1>3 DEF IInv, ServicesInv, Executes, StoppedPlaces, JobInv, Claimed,
    AfterCheck, NewTreePlaces, Only, TreeInv, BackInv, WorkerSame, DatabaseSame
<1>6. DatabaseInv'
  BY <1>1, <1>2, <1>3 DEF IInv, DatabaseInv, Executes, JobInv, Claimed, AfterCheck,
    NewTreePlaces, Only, Held, WorkerSame, DatabaseSame
<1>7. CalmInv'
  BY <1>1, <1>2, <1>3 DEF IInv, CalmInv, Calm, AtWork, Guarded, OnDisk, Only, Any, Executes,
    ServicesInv, StoppedPlaces, Held, WorkerSame, DatabaseSame
<1> QED BY <1>4, <1>5, <1>6, <1>7 DEF IInv

\* The worker asks systemd to restart the services.
LEMMA RestartKeeps ==
  ASSUME IInv, Restart
  PROVE  IInv'
<1>0. TypeOK
  BY DEF IInv
<1>1. /\ worker.pc = "restart"
      /\ UNCHANGED <<release, disk, db, copy, units, api, guard, result, told>>
  BY DEF Restart
<1>2. /\ worker' \in WorkerType /\ worker'.pc = "idle" /\ WorkerSame
  BY <1>0, WorkerGoes DEF Restart
<1>3. spent' \in SpentType /\ SpentSame
  BY <1>0, TroubleOrNot DEF Restart
<1>4. \/ bounce' = {"worker"} \cup (IF api = "none" THEN {} ELSE {"api"})
      \/ UNCHANGED bounce
  BY DEF Restart
<1>5. TypeOK'
  BY <1>0, <1>1, <1>2, <1>3, <1>4, Types, TypesAgain
<1>6. ServicesInv' /\ JobInv' /\ TreeInv' /\ BackInv'
  BY <1>1, <1>2, <1>3, <1>4 DEF IInv, ServicesInv, Executes, StoppedPlaces, JobInv, Claimed,
    AfterCheck, NewTreePlaces, Only, TreeInv, BackInv, WorkerSame, SpentSame
<1>7. DatabaseInv'
  BY <1>1, <1>2, <1>3, <1>4 DEF IInv, DatabaseInv, Executes, ServicesInv, StoppedPlaces,
    WorkerSame, SpentSame
<1>8. CalmInv'
  BY <1>1, <1>2, <1>3, <1>4 DEF IInv, CalmInv, Calm, AtWork, Guarded, OnDisk, Only, Any,
    Executes, ServicesInv, StoppedPlaces, WorkerSame, SpentSame
<1> QED BY <1>5, <1>6, <1>7, <1>8 DEF IInv

\* The guard finds the new services up, or gives up on them.
LEMMA WatchKeeps ==
  ASSUME IInv, Watch
  PROVE  IInv'
<1>0. TypeOK
  BY DEF IInv
<1>1. /\ guard.pc = "watch"
      /\ UNCHANGED <<release, disk, db, copy, units, bounce, api, worker, told, spent>>
  BY DEF Watch, GuardAt, GuardUnchanged
<1>2. /\ guard' \in GuardType /\ guard'.older = guard.older
      /\ \/ Steady /\ result' = "verified" /\ guard'.pc = "done"
         \/ UNCHANGED result /\ guard'.pc = "stop"
  BY <1>0, GuardMoves DEF Watch, GuardPlaces
<1>3. TypeOK'
  BY <1>0, <1>1, <1>2, Types, TypesAgain
<1>4. ServicesInv' /\ JobInv' /\ DatabaseInv' /\ TreeInv' /\ BackInv' /\ CalmInv'
  BY <1>1, <1>2 DEF IInv, ServicesInv, Executes, StoppedPlaces, JobInv, Claimed, AfterCheck,
    NewTreePlaces, Only, DatabaseInv, TreeInv, BackInv, CalmInv, Calm, AtWork, Guarded, OnDisk,
    Any, Steady, Answering
<1> QED BY <1>3, <1>4 DEF IInv

\* The guard stops the services.
LEMMA StopKeeps ==
  ASSUME IInv, Stop
  PROVE  IInv'
<1>0. TypeOK
  BY DEF IInv
<1>1. /\ guard.pc = "stop"
      /\ UNCHANGED <<release, disk, copy, bounce, api, worker, told>>
  BY DEF Stop, GuardAt, GuardUnchanged, Blocked
<1>2. spent' \in SpentType /\ SpentSame
  BY <1>0, TroubleOrNot DEF Stop
<1>3. \/ /\ units' = "down" /\ guard' \in GuardType /\ guard'.pc = "stopping"
         /\ guard'.older = guard.older /\ UNCHANGED <<db, result>>
      \/ /\ UNCHANGED units /\ result' = "needs_attention"
         /\ guard' \in GuardType /\ guard'.pc = "done" /\ guard'.older = guard.older
         /\ db' \in Database /\ DatabaseSame
         /\ db.whole => db'.job = "failed"
         /\ ~db.whole => db'.job = db.job /\ db'.owner = db.owner
  BY <1>0, GuardMoves, Settled DEF Stop, Blocked, GuardPlaces
<1>4. TypeOK'
  BY <1>0, <1>1, <1>2, <1>3, Types, TypesAgain
<1>5. ServicesInv' /\ JobInv' /\ DatabaseInv' /\ TreeInv' /\ BackInv' /\ CalmInv'
  BY <1>1, <1>2, <1>3 DEF IInv, ServicesInv, Executes, StoppedPlaces, JobInv, Claimed,
    AfterCheck, NewTreePlaces, Only, DatabaseInv, TreeInv, BackInv, CalmInv, Calm, AtWork,
    Guarded, OnDisk, Any, DatabaseSame, SpentSame
<1> QED BY <1>4, <1>5 DEF IInv

\* The services have stopped.
LEMMA StoppedKeeps ==
  ASSUME IInv, Stopped
  PROVE  IInv'
<1>0. TypeOK
  BY DEF IInv
<1>1. /\ guard.pc = "stopping" /\ api = "none" /\ worker.code = "none"
      /\ UNCHANGED <<release, disk, db, copy, units, bounce, api, worker, result, told, spent>>
  BY DEF Stopped, GuardAt, GuardUnchanged
<1>2. guard' \in GuardType /\ guard'.pc = "judge" /\ guard'.older = guard.older
  BY <1>0, GuardMoves DEF Stopped, GuardPlaces
<1>3. TypeOK'
  BY <1>0, <1>1, <1>2, Types, TypesAgain
<1>4. ServicesInv' /\ JobInv' /\ DatabaseInv' /\ TreeInv' /\ BackInv'
  BY <1>1, <1>2 DEF IInv, ServicesInv, Executes, StoppedPlaces, JobInv, Claimed, AfterCheck,
    NewTreePlaces, Only, DatabaseInv, TreeInv, BackInv
<1>5. CalmInv'
  BY <1>1, <1>2 DEF IInv, CalmInv, Calm, AtWork, Guarded, OnDisk, Only, Any, Executes,
    ServicesInv, StoppedPlaces
<1> QED BY <1>3, <1>4, <1>5 DEF IInv

\* The guard decides what it may put back.
LEMMA JudgeKeeps ==
  ASSUME IInv, Judge
  PROVE  IInv'
<1>0. TypeOK
  BY DEF IInv
<1>1. /\ guard.pc = "judge"
      /\ UNCHANGED <<release, disk, copy, units, bounce, api, worker, told>>
  BY DEF Judge, GuardAt, GuardUnchanged, Blocked
<1>2. spent' \in SpentType /\ SpentSame
  BY <1>0, TroubleOrNot DEF Judge
<1>3. \/ /\ result' = "needs_attention"
         /\ guard' \in GuardType /\ guard'.pc = "done" /\ guard'.older = guard.older
         /\ db' \in Database /\ DatabaseSame
         /\ db.whole => db'.job = "failed"
         /\ ~db.whole => db'.job = db.job /\ db'.owner = db.owner
      \/ /\ UNCHANGED result /\ guard' \in GuardType /\ guard'.pc = "copying"
         /\ guard'.older = guard.older
         /\ db' \in Database /\ ~db'.whole /\ db'.job = db.job /\ db'.owner = db.owner
         /\ db'.schema = db.schema
      \/ /\ UNCHANGED <<db, result>> /\ guard' \in GuardType /\ guard'.pc = "code"
         /\ guard'.older = guard.older /\ db.schema = copy.schema
  BY <1>0, Types, GuardMoves, Settled, FileGoes DEF Judge, Blocked, GuardPlaces
<1>4. TypeOK'
  BY <1>0, <1>1, <1>2, <1>3, Types, TypesAgain
<1>5. ServicesInv' /\ JobInv' /\ TreeInv' /\ CalmInv'
  BY <1>1, <1>2, <1>3 DEF IInv, ServicesInv, Executes, StoppedPlaces, JobInv, Claimed,
    AfterCheck, NewTreePlaces, Only, TreeInv, CalmInv, Calm, AtWork, Guarded, OnDisk, Any,
    DatabaseSame, SpentSame
<1>6. DatabaseInv'
  BY <1>1, <1>2, <1>3 DEF IInv, DatabaseInv, Executes, ServicesInv, StoppedPlaces, DatabaseSame,
    SpentSame
<1>7. BackInv'
  BY <1>1, <1>2, <1>3 DEF IInv, BackInv, Executes, Only, DatabaseInv, DatabaseSame, SpentSame
<1> QED BY <1>4, <1>5, <1>6, <1>7 DEF IInv

\* The guard puts the checkpoint back.
LEMMA PutBackKeeps ==
  ASSUME IInv, PutBack
  PROVE  IInv'
<1>0. TypeOK
  BY DEF IInv
<1>1. /\ guard.pc = "copying"
      /\ UNCHANGED <<release, disk, copy, units, bounce, api, worker, result, told>>
  BY DEF PutBack, GuardAt, GuardUnchanged
<1>2. spent' \in SpentType /\ SpentSame
  BY <1>0, TroubleOrNot DEF PutBack
<1>3. /\ guard' \in GuardType /\ guard'.older = guard.older
      /\ \/ guard'.pc = "code" /\ db' = copy
         \/ guard'.pc = "done" /\ UNCHANGED db
      /\ copy \in Database /\ bounce \subseteq {"api", "worker"}
  <2>1. copy \in Database /\ bounce \subseteq {"api", "worker"}
    BY <1>0, Types
  <2>2. CASE db' = copy /\ GuardGoes("code")
    <3>1. guard' \in GuardType /\ guard'.older = guard.older /\ guard'.pc = "code"
      BY <2>2, <1>0, GuardMoves DEF GuardPlaces
    <3> QED BY <2>1, <2>2, <3>1
  <2>3. CASE GuardGoes("done") /\ UNCHANGED db
    <3>1. guard' \in GuardType /\ guard'.older = guard.older /\ guard'.pc = "done"
      BY <2>3, <1>0, GuardMoves DEF GuardPlaces
    <3> QED BY <2>1, <2>3, <3>1
  <2> QED BY <2>2, <2>3 DEF PutBack
<1>4. TypeOK'
  BY <1>0, <1>1, <1>2, <1>3, Types, TypesAgain
<1>5. ServicesInv' /\ TreeInv'
  BY <1>1, <1>2, <1>3 DEF IInv, ServicesInv, Executes, StoppedPlaces, TreeInv, NewTreePlaces,
    SpentSame
<1>6. CalmInv'
  BY <1>1, <1>2, <1>3 DEF IInv, CalmInv, Calm, AtWork, Guarded, OnDisk, Only, Any, Executes,
    ServicesInv, StoppedPlaces, DatabaseInv, SpentSame
<1>7. JobInv'
  BY <1>1, <1>2, <1>3 DEF IInv, JobInv, Claimed, Executes, AfterCheck, NewTreePlaces, Only,
    ServicesInv, StoppedPlaces, SpentSame
<1>8. DatabaseInv'
  BY <1>1, <1>2, <1>3 DEF IInv, DatabaseInv, Executes, JobInv, Claimed, AfterCheck,
    NewTreePlaces, Only, SpentSame
<1>9. BackInv'
  BY <1>1, <1>2, <1>3 DEF IInv, BackInv, Executes, Only, JobInv, Claimed, AfterCheck,
    NewTreePlaces, DatabaseInv, SpentSame
<1> QED BY <1>4, <1>5, <1>6, <1>7, <1>8, <1>9 DEF IInv

\* The guard checks the old code out.
LEMMA CodeBackKeeps ==
  ASSUME IInv, CodeBack
  PROVE  IInv'
<1>0. TypeOK
  BY DEF IInv
<1>1. /\ guard.pc = "code"
      /\ UNCHANGED <<release, db, copy, units, bounce, api, worker, result, told>>
  BY DEF CodeBack, BackStep, GuardAt, GuardUnchanged
<1>2. spent' \in SpentType /\ SpentSame
  BY <1>0, TroubleOrNot DEF CodeBack, BackStep
<1>3. /\ disk' \in DiskType /\ guard' \in GuardType /\ guard'.pc = "packages"
      /\ guard'.older = guard.older
      /\ disk'.packages = disk.packages /\ disk'.built = disk.built
      /\ \/ disk'.tree = "old" /\ (guard'.problem <=> guard.problem)
         \/ guard'.problem
  BY <1>0, Types, GuardMoves, GuardFails, DiskChanges DEF CodeBack, BackStep, GuardPlaces,
    DiskType, Versions
<1>4. TypeOK'
  BY <1>0, <1>1, <1>2, <1>3, Types, TypesAgain
<1>5. ServicesInv' /\ JobInv' /\ BackInv' /\ CalmInv'
  BY <1>1, <1>2, <1>3 DEF IInv, ServicesInv, Executes, StoppedPlaces, JobInv, Claimed,
    AfterCheck, NewTreePlaces, Only, BackInv, CalmInv, Calm, AtWork, Guarded, OnDisk, Any,
    SpentSame
<1>6. DatabaseInv'
  BY <1>1, <1>2, <1>3 DEF IInv, DatabaseInv, Executes, ServicesInv, StoppedPlaces, SpentSame
<1>7. TreeInv'
  BY <1>1, <1>2, <1>3 DEF IInv, TreeInv, NewTreePlaces, ServicesInv, Executes, StoppedPlaces,
    SpentSame
<1> QED BY <1>4, <1>5, <1>6, <1>7 DEF IInv

\* The guard matches the packages to the checkout.
LEMMA PackagesBackKeeps ==
  ASSUME IInv, PackagesBack
  PROVE  IInv'
<1>0. TypeOK
  BY DEF IInv
<1>1. /\ guard.pc = "packages"
      /\ UNCHANGED <<release, db, copy, units, bounce, api, worker, result, told>>
  BY DEF PackagesBack, BackStep, GuardAt, GuardUnchanged
<1>2. spent' \in SpentType /\ SpentSame
  BY <1>0, TroubleOrNot DEF PackagesBack, BackStep
<1>3. /\ disk' \in DiskType /\ guard' \in GuardType /\ guard'.pc = "rebuild"
      /\ guard'.older = guard.older
      /\ disk'.tree = disk.tree /\ disk'.built = disk.built
      /\ \/ disk'.packages = disk.tree /\ (guard'.problem <=> guard.problem)
         \/ guard'.problem
  BY <1>0, Types, GuardMoves, GuardFails, DiskChanges DEF PackagesBack, BackStep, GuardPlaces,
    DiskType, Versions
<1>4. TypeOK'
  BY <1>0, <1>1, <1>2, <1>3, Types, TypesAgain
<1>5. ServicesInv' /\ JobInv' /\ DatabaseInv' /\ TreeInv' /\ BackInv' /\ CalmInv'
  BY <1>1, <1>2, <1>3 DEF IInv, ServicesInv, Executes, StoppedPlaces, JobInv, Claimed,
    AfterCheck, NewTreePlaces, Only, DatabaseInv, TreeInv, BackInv, CalmInv, Calm, AtWork,
    Guarded, OnDisk, Any, SpentSame
<1> QED BY <1>4, <1>5 DEF IInv

\* The guard builds the dashboard and the units.
LEMMA RebuiltKeeps ==
  ASSUME IInv, Rebuilt
  PROVE  IInv'
<1>0. TypeOK
  BY DEF IInv
<1>1. /\ guard.pc = "rebuild" /\  ~guard.problem
      /\ UNCHANGED <<release, db, copy, units, bounce, api, worker, result, told>>
  BY DEF Rebuilt, BackStep, GuardAt, GuardUnchanged
<1>2. spent' \in SpentType /\ SpentSame
  BY <1>0, TroubleOrNot DEF Rebuilt, BackStep
<1>3. /\ disk' \in DiskType /\ guard' \in GuardType /\ guard'.pc = "start"
      /\ guard'.older = guard.older
      /\ disk'.tree = disk.tree /\ disk'.packages = disk.packages
      /\ \/ disk'.built = disk.tree /\ (guard'.problem <=> guard.problem)
         \/ guard'.problem
  BY <1>0, Types, GuardMoves, GuardFails, DiskChanges DEF Rebuilt, BackStep, GuardPlaces,
    DiskType, Versions
<1>4. TypeOK'
  BY <1>0, <1>1, <1>2, <1>3, Types, TypesAgain
<1>5. ServicesInv' /\ JobInv' /\ DatabaseInv' /\ TreeInv' /\ BackInv' /\ CalmInv'
  BY <1>1, <1>2, <1>3 DEF IInv, ServicesInv, Executes, StoppedPlaces, JobInv, Claimed,
    AfterCheck, NewTreePlaces, Only, DatabaseInv, TreeInv, BackInv, CalmInv, Calm, AtWork,
    Guarded, OnDisk, Any, SpentSame
<1> QED BY <1>4, <1>5 DEF IInv

\* The guard starts what it has put back.
LEMMA StartBackKeeps ==
  ASSUME IInv, StartBack
  PROVE  IInv'
<1>0. TypeOK
  BY DEF IInv
<1>1. /\ guard.pc = "start" /\ ~guard.problem
      /\ UNCHANGED <<release, disk, db, copy, bounce, api, worker, result, told>>
  BY DEF StartBack, GuardAt, GuardUnchanged
<1>2. spent' \in SpentType /\ SpentSame
  BY <1>0, TroubleOrNot DEF StartBack
<1>3. /\ guard' \in GuardType /\ guard'.older = guard.older
      /\ \/ units' = "up" /\ guard'.pc = "watch_back"
         \/ UNCHANGED units /\ guard'.pc = "start" /\ guard'.problem
  BY <1>0, GuardMoves, GuardFails DEF StartBack, GuardPlaces, GuardAt
<1>4. TypeOK'
  BY <1>0, <1>1, <1>2, <1>3, Types, TypesAgain
<1>5. ServicesInv' /\ JobInv' /\ DatabaseInv' /\ TreeInv' /\ CalmInv'
  BY <1>1, <1>2, <1>3 DEF IInv, ServicesInv, Executes, StoppedPlaces, JobInv, Claimed,
    AfterCheck, NewTreePlaces, Only, DatabaseInv, TreeInv, CalmInv, Calm, AtWork, Guarded,
    OnDisk, Any, SpentSame
<1>6. BackInv'
  BY <1>1, <1>2, <1>3 DEF IInv, BackInv, Executes, Only, ServicesInv, StoppedPlaces, SpentSame
<1> QED BY <1>4, <1>5, <1>6 DEF IInv

\* The guard ends the job and says how it went.
LEMMA WatchBackKeeps ==
  ASSUME IInv, WatchBack
  PROVE  IInv'
<1>0. TypeOK
  BY DEF IInv
<1>1. /\ guard.pc \in {"watch_back", "rebuild", "start"}
      /\ UNCHANGED <<release, disk, copy, units, bounce, api, worker, told, spent>>
  BY DEF WatchBack, GuardAt, GuardUnchanged
<1>2. /\ guard' \in GuardType /\ guard'.pc = "done" /\ guard'.older = guard.older
      /\ db' \in Database /\ DatabaseSame
      /\ db.whole => db'.job = "failed"
      /\ ~db.whole => db'.job = db.job /\ db'.owner = db.owner
      /\ \/ result' = "needs_attention"
         \/ result' = "rolled_back" /\ guard.pc = "watch_back" /\ Steady
  BY <1>0, Settled DEF WatchBack, GuardAt
<1>3. TypeOK'
  BY <1>0, <1>1, <1>2, Types, TypesAgain
<1>4. ServicesInv' /\ JobInv' /\ DatabaseInv' /\ TreeInv' /\ BackInv'
  BY <1>1, <1>2 DEF IInv, ServicesInv, Executes, StoppedPlaces, JobInv, Claimed, AfterCheck,
    NewTreePlaces, Only, DatabaseInv, TreeInv, BackInv, DatabaseSame
<1>5. CalmInv'
  BY <1>1, <1>2 DEF IInv, CalmInv, Calm, AtWork, Guarded, OnDisk, Only, Any, Executes, BackInv,
    Steady, Answering, DatabaseSame
<1> QED BY <1>3, <1>4, <1>5 DEF IInv

\* An older guard ends the job and says how it went.
LEMMA OlderWatchesKeeps ==
  ASSUME IInv, OlderWatches
  PROVE  IInv'
<1>0. TypeOK
  BY DEF IInv
<1>1. /\ guard.older = "watching" /\ spent.claims \notin {0, 1}
      /\ UNCHANGED <<release, disk, copy, units, bounce, api, worker, told, spent>>
  BY DEF OlderWatches, GuardUnchanged, IInv, JobInv
<1>2. /\ guard' \in GuardType /\ guard'.pc = guard.pc /\ guard'.older = "gone"
      /\ guard'.waits <=> guard.waits
      /\ guard'.problem <=> guard.problem
  <2>1. guard \in GuardType /\ guard' = [guard EXCEPT !.older = "gone"]
    BY <1>0, Types DEF OlderWatches
  <2>2. guard' \in GuardType /\ guard'.pc = guard.pc /\ guard'.older = "gone"
    BY <2>1 DEF GuardType
  <2>3. guard'.waits <=> guard.waits
    BY <2>1 DEF GuardType
  <2>4. guard'.problem <=> guard.problem
    BY <2>1 DEF GuardType
  <2> QED BY <2>2, <2>3, <2>4
<1>3. /\ db' \in Database /\ DatabaseSame
      /\ result' \in {"needs_attention", "rolled_back"}
      /\ db.whole => db'.job = "failed"
      /\ ~db.whole => db'.job = db.job /\ db'.owner = db.owner
  BY <1>0, Ended DEF OlderWatches
<1>4. TypeOK'
  BY <1>0, <1>1, <1>2, <1>3, Types, TypesAgain
<1>5. ServicesInv' /\ JobInv' /\ DatabaseInv' /\ TreeInv' /\ BackInv'
  BY <1>1, <1>2, <1>3 DEF IInv, ServicesInv, Executes, StoppedPlaces, JobInv, Claimed,
    AfterCheck, NewTreePlaces, Only, DatabaseInv, TreeInv, BackInv, DatabaseSame
<1>6. CalmInv'
  BY <1>1 DEF CalmInv, Calm
<1> QED BY <1>4, <1>5, <1>6 DEF IInv

\* The dashboard stops.
LEMMA ApiStopsKeeps ==
  ASSUME IInv, ApiStops
  PROVE  IInv'
<1>0. TypeOK
  BY DEF IInv
<1>1. api # "none" /\ ("api" \in bounce \/ units = "down")
      /\ api' = "none" /\ bounce' = bounce \ {"api"}
      /\ UNCHANGED <<release, disk, db, copy, units, worker, guard, result, told, spent>>
  BY DEF ApiStops, Leaving
<1>2. TypeOK'
  BY <1>0, <1>1, Types, TypesAgain
<1>3. ServicesInv' /\ JobInv' /\ DatabaseInv' /\ TreeInv' /\ BackInv' /\ CalmInv'
  BY <1>1 DEF IInv, ServicesInv, Executes, StoppedPlaces, JobInv, Claimed, AfterCheck,
    NewTreePlaces, Only, DatabaseInv, TreeInv, BackInv, CalmInv, Calm, AtWork, Guarded, OnDisk,
    Any
<1> QED BY <1>2, <1>3 DEF IInv

\* The worker stops, or is told to.
LEMMA WorkerStopsKeeps ==
  ASSUME IInv, WorkerStops
  PROVE  IInv'
<1>0. TypeOK
  BY DEF IInv
<1>1. /\ worker.code # "none" /\ ("worker" \in bounce \/ units = "down")
      /\ UNCHANGED <<release, disk, db, copy, units, api, result, told, spent>>
  BY DEF WorkerStops, Leaving
<1>2. \/ /\ worker.pc = "idle" /\ worker' \in WorkerType /\ worker'.code = "none"
         /\ worker'.pc = "idle" /\ worker'.claim = 0
         /\ bounce' = bounce \ {"worker"}
         /\ guard' \in GuardType /\ guard'.pc = guard.pc /\ ~guard'.waits
         /\ guard'.problem <=> guard.problem
         /\ guard'.older = guard.older
      \/ /\ worker.pc # "idle" /\ UNCHANGED <<bounce, guard>>
         /\ worker' \in WorkerType /\ worker'.pc = worker.pc /\ WorkerSame
  BY <1>0, Types, NoWorkerIs, WorkerTold, WorkerStopping, GuardWaitsNoMore DEF WorkerStops,
    WorkerSame
<1>3. TypeOK'
  BY <1>0, <1>1, <1>2, Types, TypesAgain
<1>4. ServicesInv' /\ JobInv' /\ DatabaseInv' /\ BackInv'
  BY <1>1, <1>2 DEF IInv, ServicesInv, Executes, StoppedPlaces, JobInv, Claimed, AfterCheck,
    NewTreePlaces, Only, DatabaseInv, BackInv, WorkerSame
<1>5. TreeInv'
  BY <1>1, <1>2 DEF IInv, TreeInv, NewTreePlaces, ServicesInv, Executes, StoppedPlaces,
    WorkerSame
<1>6. CalmInv'
  BY <1>1, <1>2 DEF IInv, CalmInv, Calm, AtWork, Guarded, OnDisk, Only, Any, Executes,
    ServicesInv, StoppedPlaces, WorkerSame
<1> QED BY <1>3, <1>4, <1>5, <1>6 DEF IInv

\* The dashboard starts.
LEMMA StartApiKeeps ==
  ASSUME IInv, StartApi
  PROVE  IInv'
<1>0. TypeOK
  BY DEF IInv
<1>1. /\ api = "none" /\ units = "up" /\ "api" \notin bounce /\ db.whole
      /\ api' \in {disk.tree, "none"}
      /\ UNCHANGED <<release, disk, copy, units, bounce, worker, guard, result, told, spent>>
  BY DEF StartApi, Opens, Outcomes
<1>2. /\ db' \in Database /\ db'.job = db.job /\ db'.owner = db.owner
      /\ db'.whole <=> db.whole
      /\ disk.tree = "old" => db'.schema = "old"
  BY <1>0, Types, Migrates DEF StartApi, Opens, DiskType
<1>3. TypeOK'
  BY <1>0, <1>1, <1>2, Types, TypesAgain DEF DiskType
<1>4. ServicesInv' /\ JobInv' /\ DatabaseInv' /\ TreeInv' /\ CalmInv'
  BY <1>1, <1>2 DEF IInv, ServicesInv, Executes, StoppedPlaces, JobInv, Claimed, AfterCheck,
    NewTreePlaces, Only, DatabaseInv, TreeInv, CalmInv, Calm, AtWork, Guarded, OnDisk, Any
<1>5. BackInv'
  BY <1>1, <1>2 DEF IInv, BackInv, Executes, Only, ServicesInv, StoppedPlaces
<1> QED BY <1>3, <1>4, <1>5 DEF IInv

\* A worker starts.
LEMMA StartWorkerKeeps ==
  ASSUME IInv, StartWorker
  PROVE  IInv'
<1>0. TypeOK
  BY DEF IInv
<1>1. /\ worker.code = "none" /\ units = "up" /\ "worker" \notin bounce /\ db.whole
      /\ UNCHANGED <<release, disk, copy, units, bounce, api, guard, result, told, spent>>
  BY DEF StartWorker, Opens
<1>2. /\ db' \in Database /\ db'.job = db.job /\ db'.owner = db.owner
      /\ db'.whole <=> db.whole
      /\ disk.tree = "old" => db'.schema = "old"
  BY <1>0, Types, Migrates DEF StartWorker, Opens, DiskType
<1>3. /\ worker' \in WorkerType /\ worker'.code \in {disk.tree, "none"}
      /\ worker'.pc = "idle" /\ worker'.claim = 0
  <2>1. PICK code \in Outcomes(disk.tree) : worker' = [NoWorker EXCEPT !.code = code]
    BY DEF StartWorker
  <2>2. code \in {disk.tree, "none"} /\ code \in Versions \cup {"none"}
    BY <1>0, <2>1, Types DEF Outcomes, DiskType
  <2> QED BY <2>1, <2>2, NewWorkerIs
<1>4. TypeOK'
  BY <1>0, <1>1, <1>2, <1>3, Types, TypesAgain
<1>5. ServicesInv' /\ JobInv' /\ DatabaseInv' /\ TreeInv'
  BY <1>1, <1>2, <1>3 DEF IInv, ServicesInv, Executes, StoppedPlaces, JobInv, Claimed,
    AfterCheck, NewTreePlaces, Only, DatabaseInv, TreeInv
<1>6. BackInv'
  BY <1>1, <1>2, <1>3 DEF IInv, BackInv, Executes, Only, ServicesInv, StoppedPlaces
<1>7. CalmInv'
  BY <1>1, <1>2, <1>3 DEF IInv, CalmInv, Calm, AtWork, Guarded, OnDisk, Only, Any, Executes,
    ServicesInv, StoppedPlaces
<1> QED BY <1>4, <1>5, <1>6, <1>7 DEF IInv

\* The computer restarts.
LEMMA RebootKeeps ==
  ASSUME IInv, Reboot
  PROVE  IInv'
<1>0. TypeOK
  BY DEF IInv
<1>1. /\ units' = "up" /\ api' = "none" /\ bounce' = {}
      /\ UNCHANGED <<release, disk, db, copy, result, told>>
  BY DEF Reboot
<1>2. spent' \in SpentType /\ spent'.reboots # 0 /\ spent'.claims = spent.claims
  BY <1>0, GoesDown DEF Reboot
<1>3. worker' \in WorkerType /\ worker'.code = "none"
      /\ worker'.pc = "idle" /\ worker'.claim = 0
  BY NoWorkerIs DEF Reboot
<1>4. /\ guard' \in GuardType /\ ~guard'.waits /\ guard'.older = "gone"
      /\ guard'.pc = IF guard.pc = "none" THEN "none" ELSE "done"
  BY <1>0, GuardEndsAtReboot
<1>5. TypeOK'
  BY <1>0, <1>1, <1>2, <1>3, <1>4, Types, TypesAgain
<1>6. ServicesInv' /\ JobInv' /\ DatabaseInv' /\ TreeInv' /\ BackInv' /\ CalmInv'
  BY <1>1, <1>2, <1>3, <1>4 DEF IInv, ServicesInv, Executes, StoppedPlaces, JobInv, Claimed,
    AfterCheck, NewTreePlaces, Only, DatabaseInv, TreeInv, BackInv, CalmInv, Calm, AtWork,
    Guarded, OnDisk, Any
<1> QED BY <1>5, <1>6 DEF IInv

\* The worker dies.
LEMMA WorkerDiesKeeps ==
  ASSUME IInv, WorkerDies
  PROVE  IInv'
<1>0. TypeOK
  BY DEF IInv
<1>1. /\ bounce' = bounce \ {"worker"}
      /\ UNCHANGED <<release, disk, db, copy, units, api, result, told>>
  BY DEF WorkerDies
<1>2. spent' \in SpentType /\ spent'.reboots # 0 /\ spent'.claims = spent.claims
  BY <1>0, GoesDown DEF WorkerDies
<1>3. worker' \in WorkerType /\ worker'.code = "none"
      /\ worker'.pc = "idle" /\ worker'.claim = 0
  BY NoWorkerIs DEF WorkerDies
<1>4. /\ guard' \in GuardType /\ guard'.pc = guard.pc /\ ~guard'.waits
      /\ guard'.problem <=> guard.problem
      /\ guard'.older = guard.older
  BY <1>0, GuardWaitsNoMore DEF WorkerDies
<1>5. TypeOK'
  BY <1>0, <1>1, <1>2, <1>3, <1>4, Types, TypesAgain
<1>6. ServicesInv' /\ JobInv' /\ DatabaseInv' /\ TreeInv' /\ BackInv' /\ CalmInv'
  BY <1>1, <1>2, <1>3, <1>4 DEF IInv, ServicesInv, Executes, StoppedPlaces, JobInv, Claimed,
    AfterCheck, NewTreePlaces, Only, DatabaseInv, TreeInv, BackInv, CalmInv, Calm, AtWork,
    Guarded, OnDisk, Any
<1> QED BY <1>5, <1>6 DEF IInv
-----------------------------------------------------------------------------
(* The invariant holds. *)

\* Nothing happens.
LEMMA StutterKeeps ==
  ASSUME IInv, UNCHANGED vars
  PROVE  IInv'
<1>1. /\ UNCHANGED <<release, disk, db, copy, units, bounce, api, worker, guard, result>>
      /\ UNCHANGED <<told, spent>>
  BY DEF vars
<1>2. TypeOK'
  BY <1>1 DEF IInv, TypeOK
<1>3. ServicesInv' /\ JobInv' /\ DatabaseInv'
  BY <1>1 DEF IInv, ServicesInv, JobInv, DatabaseInv, Executes, Claimed, Only
<1>4. TreeInv' /\ BackInv'
  BY <1>1 DEF IInv, TreeInv, BackInv, Executes, Only
<1>5. CalmInv'
  BY <1>1 DEF IInv, CalmInv, Calm, AtWork, Guarded, OnDisk, Only, Executes
<1> QED BY <1>2, <1>3, <1>4, <1>5 DEF IInv

\* Every step keeps the invariant.
LEMMA StepKeeps ==
  ASSUME IInv, [Next]_vars
  PROVE  IInv'
<1>1. CASE WorkerSteps
  BY <1>1, ClaimKeeps, RunOtherKeeps, LosesLeaseKeeps, InterruptedKeeps, CheckKeeps,
    DownloadKeeps, AssetsKeeps, PackagesKeeps, PlanKeeps, UndoTreeKeeps, UndoPackagesKeeps,
    InstallKeeps, StartGuardKeeps, ReportFailedKeeps, ReportDoneKeeps, RestartKeeps DEF
    WorkerSteps
<1>2. CASE GuardSteps
  BY <1>2, WatchKeeps, StopKeeps, StoppedKeeps, JudgeKeeps, PutBackKeeps, CodeBackKeeps,
    PackagesBackKeeps, RebuiltKeeps, StartBackKeeps, WatchBackKeeps,
    OlderWatchesKeeps DEF GuardSteps
<1>3. CASE Next /\ ~WorkerSteps /\ ~GuardSteps
  BY <1>3, AskUpdateKeeps, AcceptKeeps, CancelKeeps, ApiStopsKeeps, WorkerStopsKeeps,
    StartApiKeeps, StartWorkerKeeps, RebootKeeps, WorkerDiesKeeps DEF Next
<1> QED BY <1>1, <1>2, <1>3, StutterKeeps

\* The invariant holds at first.
LEMMA InitHolds ==
  ASSUME Init
  PROVE  IInv
<1>1. /\ worker \in WorkerType /\ worker.code = "old" /\ worker.pc = "idle" /\ worker.claim = 0
  BY NewWorkerIs DEF Init, Versions
<1>2. db \in Database /\ db.whole
  BY BoundsAre DEF Init, Database, Versions, JobStates, Work
<1>3. db.schema = "old" /\ db.job = "none"
  BY DEF Init
<1>4. copy \in Database /\ copy.schema = "old"
  BY <1>2, <1>3, FileGoes DEF Init
<1>5. guard \in GuardType /\ guard.pc = "none" /\ guard.older = "gone"
  BY DEF Init, GuardType, GuardPlaces
<1>6. disk \in DiskType /\ Only("old")
  BY DEF Init, DiskType, Versions, Only
<1>7. spent \in SpentType /\ spent.claims = 0
  BY BoundsAre DEF Init, SpentType
<1>8. TypeOK
  BY <1>1, <1>2, <1>4, <1>5, <1>6, <1>7
     DEF Init, TypeOK, WorkerType, GuardType, DiskType, SpentType, Versions
<1>9. ServicesInv /\ JobInv
  BY <1>1, <1>2, <1>3, <1>5, <1>6, <1>7
     DEF Init, ServicesInv, JobInv, Executes, StoppedPlaces, AfterCheck, NewTreePlaces
<1>10. DatabaseInv /\ TreeInv
  BY <1>1, <1>2, <1>3, <1>4, <1>5 DEF DatabaseInv, TreeInv, Executes, NewTreePlaces
<1>11. BackInv /\ CalmInv
  BY <1>5, <1>7 DEF BackInv, CalmInv, Calm
<1> QED BY <1>8, <1>9, <1>10, <1>11 DEF IInv

\* The invariant of SelfUpdate.
THEOREM Invariance == Spec => []IInv
<1>1. Init => IInv
  BY InitHolds
<1>2. IInv /\ [Next]_vars => IInv'
  BY StepKeeps
<1> QED BY <1>1, <1>2, PTL DEF Spec
-----------------------------------------------------------------------------
(* What follows from it. *)

\* An update that ends in its first execution leaves one version, the one its
\* result names, unless the owner was told to finish it or the guard's files
\* could not be written (EndsWhole).
THEOREM UpdateEndsWhole == Spec => []EndsWhole
<1>1. IInv => EndsWhole
  <2> SUFFICES ASSUME IInv, Over, Calm, result # "needs_attention"
               PROVE  Only(IF db.job = "succeeded" THEN "new" ELSE "old")
    BY DEF EndsWhole, Calm
  <2>1. CASE guard.pc = "none"
    BY <2>1 DEF IInv, CalmInv, AtWork, Over, Executes
  <2>2. CASE guard.pc = "done"
    BY <2>2 DEF IInv, CalmInv, Guarded, Over, Executes
  <2> QED BY <2>1, <2>2 DEF Over
<1> QED BY <1>1, Invariance, PTL

\* A result is written by the guard: "verified" in the watch, "rolled_back" in
\* the watch of what it put back, by an older one during a second execution,
\* "needs_attention" in any other case.
LEMMA ResultIsWritten ==
  ASSUME IInv, Next, result' # result
  PROVE  \/ Watch /\ Steady /\ result' = "verified"
         \/ WatchBack /\ GuardAt("watch_back") /\ Steady /\ Settles("rolled_back")
         \/ result' = "needs_attention"
         \/ result' = "rolled_back" /\ spent.claims # 1
<1>1. CASE GuardSteps
  <2>1. OlderWatches => spent.claims # 1
    BY DEF OlderWatches, IInv, JobInv
  <2> QED BY <1>1, <2>1 DEF GuardSteps, Watch, Stop, Stopped, Judge, PutBack, CodeBack,
        PackagesBack, Rebuilt, BackStep, StartBack, WatchBack, OlderWatches, Blocked, Settles,
        Closes, GuardAt
<1>2. ~GuardSteps => FALSE
  BY DEF Next, WorkerSteps, AskUpdate, Accept, Cancel, Claim, RunOther, LosesLease, Interrupted,
    Check, Download, Assets, Packages, Plan, UndoTree, UndoPackages, Install, StartGuard,
    ReportFailed, ReportDone, Restart, ApiStops, WorkerStops, StartApi, StartWorker, Reboot,
    WorkerDies, StepUnchanged
<1> QED BY <1>1, <1>2

\* What the result says of the services and of the database is so.
LEMMA ResultHolds ==
  ASSUME IInv, Next, result' # result
  PROVE  /\ result' = "verified" =>
              worker.code = "new" /\ (spent.reboots = 0 => Serving("new"))
         /\ (result' = "rolled_back" /\ spent.claims = 1) =>
              Serving("old") /\ disk.tree = "old" /\ db'.schema = "old" /\ db'.whole
<1>0. TypeOK
  BY DEF IInv
<1>1. CASE Watch /\ Steady /\ result' = "verified"
  <2>1. guard.pc = "watch" /\ ~guard.waits /\ bounce = {} /\ api # "none" /\ worker.code # "none"
    BY <1>1 DEF Watch, GuardAt, Steady, Answering
  <2>2. worker.code = "new" /\ (spent.reboots = 0 => api # "old")
    BY <2>1 DEF IInv, TreeInv
  <2>3. api \in {"old", "new"}
    BY <1>0, <2>1, Types DEF Versions
  <2> QED BY <1>1, <2>2, <2>3 DEF Serving
<1>2. CASE GuardAt("watch_back") /\ Steady /\ Settles("rolled_back")
  <2>1. guard.pc = "watch_back" /\ api # "none" /\ worker.code # "none"
    BY <1>2 DEF GuardAt, Steady, Answering
  <2>2. DatabaseSame /\ result' = "rolled_back"
    BY <1>0, <1>2, Settled
  <2>3. spent.claims = 1 => /\ Serving("old") /\ disk.tree = "old"
                            /\ db.schema = "old" /\ db.whole
    BY <2>1 DEF IInv, BackInv, Only, Serving
  <2> QED BY <2>2, <2>3 DEF DatabaseSame
<1> QED BY <1>1, <1>2, ResultIsWritten

\* What the result file says of an update is so when it is written (ResultIsTrue).
THEOREM ResultTellsTheTruth == Spec => ResultIsTrue
<1>1. IInv /\ [Next]_vars =>
        [result' # result =>
           /\ result' = "verified" =>
                worker.code = "new" /\ (spent.reboots = 0 => Serving("new"))
           /\ (result' = "rolled_back" /\ spent.claims = 1) =>
                Serving("old") /\ disk.tree = "old" /\ db'.schema = "old" /\ db'.whole]_vars
  BY ResultHolds
<1> QED BY <1>1, Invariance, PTL DEF Spec, ResultIsTrue

\* The ranks are numbers.
LEMMA RankIs ==
  /\ \A w \in Work : Rank(w) \in Nat
  /\ Rank("none") = 0 /\ Rank("queued") = 1 /\ Rank("done") = 2
BY DEF Work, Rank

\* Most steps leave the other work and the file as they are.
LEMMA WorkFrame ==
  ASSUME IInv, Next, ~Accept, ~RunOther, ~Check, ~Judge, ~PutBack
  PROVE  db'.work = db.work /\ (db'.whole <=> db.whole)
<1>0. TypeOK
  BY DEF IInv
<1>1. CASE UNCHANGED db
  BY <1>1
<1>2. CASE AskUpdate \/ Cancel
  BY <1>0, <1>2, Types, JobAloneChanges, CancelIsNoted DEF AskUpdate, Cancel, JobStates
<1>3. CASE Claim
  <2>1. \/ Handed("cancelled", 0)
        \/ Handed("running", spent.claims + 1) /\ spent.claims + 1 \in 0..MaxClaims
    BY <1>0, <1>3, OneMoreClaim DEF Claim, Handed
  <2> QED BY <1>0, <2>1, BoundsAre, JobIsHanded DEF JobStates, DatabaseSame
<1>4. CASE Interrupted
  <2>1. Handed("cancelled", 0) \/ UNCHANGED db
    BY <1>4 DEF Interrupted, Handed
  <2> QED BY <1>0, <2>1, BoundsAre, JobIsHanded DEF JobStates, DatabaseSame
<1>5. CASE ReportFailed \/ ReportDone
  <2>1. Report("failed") \/ Report("succeeded")
    BY <1>5 DEF ReportFailed, ReportDone
  <2> QED BY <1>0, <2>1, Reports DEF JobStates, DatabaseSame
<1>6. CASE StartApi \/ StartWorker
  <2>1. db' = Migrated(disk.tree) /\ disk.tree \in Versions
    BY <1>0, <1>6, Types DEF StartApi, StartWorker, DiskType
  <2> QED BY <1>0, <2>1, Migrates
<1>7. CASE Stop \/ WatchBack \/ OlderWatches
  <2>1. UNCHANGED db \/ \E state : Closes(state)
    BY <1>7 DEF Stop, WatchBack, OlderWatches, Blocked, Settles
  <2> QED BY <1>0, <2>1, Ended DEF DatabaseSame
<1>8. \/ UNCHANGED db \/ AskUpdate \/ Cancel \/ Claim \/ Interrupted
      \/ ReportFailed \/ ReportDone \/ StartApi \/ StartWorker
      \/ Stop \/ WatchBack \/ OlderWatches
  BY DEF Next, WorkerSteps, GuardSteps, LosesLease, Download, Assets, Packages, Plan, UndoTree,
    UndoPackages, Install, StartGuard, Restart, StepUnchanged, Watch, Stopped, CodeBack,
    PackagesBack, Rebuilt, BackStep, StartBack, ApiStops, WorkerStops, Reboot, WorkerDies
<1> QED BY <1>1, <1>2, <1>3, <1>4, <1>5, <1>6, <1>7, <1>8

\* Only the worker's checkpoint changes the copy.
LEMMA CopyFrame ==
  ASSUME Next, ~Check
  PROVE  UNCHANGED copy
BY DEF Next, AskUpdate, Accept, Cancel, ApiStops, WorkerStops, StartApi, StartWorker, Reboot,
  WorkerDies, WorkerSteps, Claim, RunOther, LosesLease, Interrupted, Download, Assets, Packages,
  Plan, UndoTree, UndoPackages, Install, StartGuard, ReportFailed, ReportDone, Restart,
  StepUnchanged, GuardSteps, Watch, Stop, Stopped, Judge, PutBack, CodeBack, PackagesBack,
  Rebuilt, BackStep, StartBack, WatchBack, OlderWatches, Blocked

\* No step loses work that was accepted.
LEMMA WorkHolds ==
  ASSUME IInv, Next
  PROVE  Rank(Kept(db', copy')) >= Rank(Kept(db, copy))
<1>0. /\ TypeOK /\ db \in Database /\ copy \in Database
      /\ db.work \in Work /\ copy.work \in Work
  BY Types DEF IInv, Database
<1>1. ASSUME Kept(db', copy') = Kept(db, copy)
      PROVE  Rank(Kept(db', copy')) >= Rank(Kept(db, copy))
  BY <1>0, <1>1, RankIs DEF Kept
<1>2. api # "none" \/ worker.code # "none" => db.whole
  BY DEF IInv, DatabaseInv
<1>3. CASE Accept
  <2>1. db.whole /\ db.work = "none"
    BY <1>2, <1>3 DEF Accept
  <2>2. db'.whole /\ db'.work = "queued"
    BY <1>0, <1>3, <2>1, WorkChanges DEF Accept, Work
  <2> QED BY <2>1, <2>2, RankIs DEF Kept
<1>4. CASE RunOther
  <2>1. db.whole /\ db.work = "queued"
    BY <1>2, <1>4 DEF RunOther
  <2>2. db'.whole /\ db'.work = "done"
    BY <1>0, <1>4, <2>1, WorkChanges DEF RunOther, Work
  <2> QED BY <2>1, <2>2, RankIs DEF Kept
<1>5. CASE Check
  <2>1. db.whole
    BY <1>2, <1>5 DEF Check, At
  <2>2. db'.whole /\ db'.work = db.work
    <3>1. UNCHANGED db \/ Report("succeeded")
      BY <1>5 DEF Check
    <3> QED BY <1>0, <2>1, <3>1, Reports DEF JobStates, DatabaseSame
  <2> QED BY <1>1, <2>1, <2>2 DEF Kept
<1>6. CASE Judge
  <2>1. db.whole
    BY <1>6 DEF IInv, DatabaseInv, Judge, GuardAt
  <2>2. \/ db'.whole /\ db'.work = db.work
        \/ ~db'.whole /\ copy.work = db.work
    <3>1. \/ UNCHANGED db \/ Settles("needs_attention")
          \/ CheckpointSafe /\ db' = [db EXCEPT !.whole = FALSE]
      BY <1>6 DEF Judge, Blocked
    <3> QED BY <1>0, <2>1, <3>1, Settled, FileGoes DEF CheckpointSafe, DatabaseSame
  <2>3. UNCHANGED copy
    BY <1>6 DEF Judge, Blocked
  <2> QED BY <1>1, <2>1, <2>2, <2>3 DEF Kept
<1>7. CASE PutBack
  <2>1. ~db.whole /\ copy.whole
    BY <1>7 DEF IInv, DatabaseInv, JobInv, PutBack, GuardAt
  <2>2. (db' = copy \/ UNCHANGED db) /\ UNCHANGED copy
    BY <1>7 DEF PutBack
  <2> QED BY <1>1, <2>1, <2>2 DEF Kept
<1>8. CASE ~Accept /\ ~RunOther /\ ~Judge /\ ~PutBack /\ ~Check
  BY <1>1, <1>8, WorkFrame, CopyFrame DEF Kept
<1> QED BY <1>3, <1>4, <1>5, <1>6, <1>7, <1>8

\* Only the guard starts the services that it stopped, when nothing goes down.
LEMMA StartHolds ==
  ASSUME IInv, Next, units = "down", units' = "up", spent'.reboots = spent.reboots
  PROVE  Only("old") /\ db.whole /\ db.schema = "old"
<1>1. ~Reboot
  <2>1. SUFFICES ASSUME Reboot  PROVE  spent'.reboots # spent.reboots
    OBVIOUS
  <2>2. spent \in SpentType /\ spent' = [spent EXCEPT !.reboots = @ + 1]
    BY <2>1, Types DEF IInv, Reboot, Down
  <2> QED BY <2>2 DEF SpentType
<1>2. StartBack
  BY <1>1 DEF Next, AskUpdate, Accept, Cancel, ApiStops, WorkerStops, StartApi, StartWorker,
    WorkerDies, WorkerSteps, Claim, RunOther, LosesLease, Interrupted, Check, Download, Assets,
    Packages, Plan, UndoTree, UndoPackages, Install, StartGuard, ReportFailed, ReportDone,
    Restart, StepUnchanged, GuardSteps, Watch, Stop, Stopped, Judge, PutBack, CodeBack,
    PackagesBack, Rebuilt, BackStep, WatchBack, OlderWatches
<1>3. guard.pc = "start" /\ ~guard.problem
  BY <1>2 DEF StartBack, GuardAt
<1> QED BY <1>3 DEF IInv, BackInv, Only

\* The way back loses no accepted work, and starts the services only over what
\* it has put back whole (WayBackIsSafe).
THEOREM WayBackHolds == Spec => WayBackIsSafe
<1>1. IInv => TypeOK
  BY DEF IInv
<1>2. IInv /\ [Next]_vars => [Rank(Kept(db', copy')) >= Rank(Kept(db, copy))]_vars
  BY WorkHolds
<1>3. IInv /\ [Next]_vars =>
        [(units = "down" /\ units' = "up" /\ spent'.reboots = spent.reboots)
           => Only("old") /\ db.whole /\ db.schema = "old"]_vars
  BY StartHolds
<1> QED BY <1>1, <1>2, <1>3, Invariance, PTL
        DEF Spec, WayBackIsSafe, WorkKept, StartsWhatItRestored
=============================================================================
