------------------------------- MODULE AppLife -------------------------------
(***************************************************************************)
(* The life of an app: asked for through the dashboard, a batch or a       *)
(* connector's page, and installed, started, stopped, reset and            *)
(* uninstalled by the worker's jobs (ctl/service_ops.py, ctl/engine,       *)
(* ctl/lifecycle), with its chat connectors (Connectors).                  *)
(*                                                                         *)
(* The worker runs one job at a time, from the oldest.  A step is what the *)
(* job does between two checkpoints that can fail on its own: there the    *)
(* worker may die, and the job is run again from its start, or the job is  *)
(* cancelled, and ends where it is.                                        *)
(***************************************************************************)
EXTENDS Connectors, Sequences

CONSTANTS
    Needs,       \* [Apps -> SUBSET Apps]: the apps an app cannot run without
    Users,       \* [Apps -> SUBSET Apps]: the apps rendered again when it comes or goes
    Method,      \* [Apps -> {"oidc", "gate"}]: how people sign in
    Choosers,    \* the apps whose owner must make a choice before they start
    FirstStart,  \* the apps whose first start has settings of its own
    FolderOf,    \* [Releases -> Folders]: the data folder a release's files name
    Actions,     \* the actions the owner asks for
    MaxAsks      \* bound: requests

Releases == 1..2
Folders == {"old", "new"}

ASSUME LifeAssumption ==
    /\ Needs \in [Apps -> SUBSET Apps] /\ Users \in [Apps -> SUBSET Apps]
    /\ Method \in [Apps -> {"oidc", "gate"}]
    /\ FolderOf \in [Releases -> Folders]
    /\ \A a \in Apps : \A n \in Needs[a] : Needs[n] \subseteq Needs[a] \ {a}
    /\ {Choosers, FirstStart} \subseteq SUBSET Apps
    /\ MaxAsks \in Nat

VARIABLES
    app,         \* [Apps -> App]: the record, the containers, the files and the data
    routes,      \* the apps in the proxy's file
    serve,       \* the apps whose address Tailscale publishes
    approved,    \* the release the checkout approves
    chosen,      \* the Choosers whose owner has made the choice
    queue,       \* the jobs waiting, oldest first
    job,         \* the job the worker runs, or NoJob
    last,        \* how the last job ended, "none" while one runs
    asks

lifeVars == <<link, trouble, app, routes, serve, approved, chosen, queue, job, last, asks>>

Records == {"none", "queued", "installing", "starting", "verifying", "uninstalling",
            "running", "stopped", "failed"}

\* rec, since: the record of the installation, and whether it once ran; box: the
\* containers; boot: they carry the settings of a first start; proj: the files
\* ("kept" is the .env and the release record alone); pin: the release record;
\* data: the release the data was last started with; signin: Authentik's side;
\* dropped: a deletion has removed the release record since the data was made.
App == [rec : Records, since : BOOLEAN, box : {"absent", "stopped", "running", "broken"},
        boot : BOOLEAN, proj : {"none", "kept", "full"}, pin : {0} \cup Releases,
        data : {0} \cup Releases, signin : BOOLEAN, dropped : BOOLEAN]

NewApp == [rec |-> "none", since |-> FALSE, box |-> "absent", boot |-> FALSE, proj |-> "none",
           pin |-> 0, data |-> 0, signin |-> FALSE, dropped |-> FALSE]

Installs == {"install", "retry_setup"}
Uninstalls == {"uninstall", "uninstall_delete_data"}
AppActions == Installs \cup Uninstalls \cup {"start", "stop", "restart", "reset"}

\* Where a job stands: its next step.
Places == {"begin", "needs", "compose", "health", "tools", "recorded",
           "record", "render", "pin", "oidc", "up", "settle", "verify", "route", "signin",
           "connect", "rewire", "park", "halt",
           "down", "unroute", "remove", "unsign", "delete", "gone"}

Job == [of : Apps \cup Conns, do : AppActions \cup ConnActions, batch : BOOLEAN, at : Places, setup : BOOLEAN]
NoJob == [of |-> "none", do |-> "none", batch |-> FALSE, at |-> "end", setup |-> FALSE]

LifeTypes ==
    /\ app \in [Apps -> App]
    /\ routes \subseteq Apps /\ serve \subseteq Apps
    /\ approved \in Releases /\ chosen \subseteq Choosers
    /\ link \in [Conns -> Link] /\ trouble \in 0..MaxMishaps
    /\ job = NoJob \/ job \in Job
    /\ last \in {"none", "succeeded", "failed", "cancelled"}
    /\ \A i, k \in 1..Len(queue) : queue[i].of = queue[k].of => i = k
    /\ asks \in 0..MaxAsks

LifeInit ==
    /\ app = [a \in Apps |-> NewApp]
    /\ routes = {} /\ serve = {}
    /\ approved = 1 /\ chosen = {}
    /\ link = [c \in Conns |-> NewLink] /\ trouble = 0
    /\ queue = <<>> /\ job = NoJob /\ last = "none"
    /\ asks = 0

-----------------------------------------------------------------------------
\* What the dashboard shows, and what it lets one ask for.

\* The live state: the containers, the health check and a request over the
\* private route.
Live(a) ==
    CASE app[a].box = "absent"  -> "planned"
      [] app[a].box = "stopped" -> "stopped"
      [] app[a].box = "broken"  -> "starting"
      [] OTHER -> IF a \in serve \cap routes THEN "ready" ELSE "needs_setup"

Working == {"queued", "installing", "starting", "verifying", "uninstalling"}

\* A record of work in progress hides the live state, a failure only what is
\* not installed.
Effective(a) ==
    IF app[a].rec \in Working \/ (app[a].rec = "failed" /\ Live(a) = "planned") THEN app[a].rec
    ELSE Live(a)

Allowed(a) ==
    CASE Effective(a) = "planned"                     -> {"install"}
      [] Effective(a) \in {"failed", "needs_setup"}   -> {"retry_setup", "restart"} \cup Uninstalls
      [] Effective(a) = "stopped"                     -> {"start"} \cup Uninstalls
      [] Effective(a) \in {"ready", "starting"}        -> {"stop", "restart"} \cup Uninstalls
      [] OTHER -> {}

\* One active job for a service or a connector.
Busy(x) == job.of = x \/ \E i \in 1..Len(queue) : queue[i].of = x

Put(x, do, batch) ==
    /\ asks < MaxAsks /\ ~Busy(x) /\ do \in Actions
    /\ asks' = asks + 1
    /\ queue' = Append(queue, [of |-> x, do |-> do, batch |-> batch, at |-> "begin", setup |-> FALSE])

\* An administrator asks on the app's page; the record says so with the job.
Ask(a, do) ==
    /\ do \in Allowed(a)
    /\ Put(a, do, FALSE)
    /\ app' = [app EXCEPT ![a].rec = IF do \in Uninstalls THEN "uninstalling" ELSE "queued"]
    /\ UNCHANGED <<link, trouble, routes, serve, approved, chosen, job, last>>

\* A batch installs an app, or resets one whose installation failed.
AskBatch(a, do) ==
    /\ \/ do = "install" /\ "install" \in Allowed(a) /\ app' = [app EXCEPT ![a].rec = "queued"]
       \/ do = "reset" /\ app[a].rec = "failed" /\ UNCHANGED app
    /\ Put(a, do, TRUE)
    /\ UNCHANGED <<link, trouble, routes, serve, approved, chosen, job, last>>

\* An administrator asks on a connector's page.
AskConnector(c, do) ==
    /\ do \in ConnActions
    /\ do = "update" => c \in Reviewed
    /\ IF do = "prepare" THEN app[AppOf[c]].since ELSE Effective(AppOf[c]) = "ready"
    /\ Put(c, do, FALSE)
    /\ UNCHANGED <<link, trouble, app, routes, serve, approved, chosen, job, last>>

\* The world around: a choice made or undone, a newer Mu3Lab pulled, a
\* credential entered, containers that stop by themselves.
Choose(a) ==
    /\ chosen' = IF a \in chosen THEN chosen \ {a} ELSE chosen \cup {a}
    /\ asks < MaxAsks /\ asks' = asks + 1
    /\ UNCHANGED <<link, trouble, app, routes, serve, approved, queue, job, last>>

Pull ==
    /\ approved = 1 /\ approved' = 2
    /\ UNCHANGED <<link, trouble, app, routes, serve, chosen, queue, job, last, asks>>

EnterKey(c) ==
    /\ asks < MaxAsks /\ asks' = asks + 1
    /\ PutKey(c)
    /\ UNCHANGED <<app, routes, serve, approved, chosen, queue, job, last>>

Breaks(a) ==
    /\ app[a].box = "running" /\ trouble < MaxMishaps
    /\ app' = [app EXCEPT ![a].box = "broken"]
    /\ trouble' = trouble + 1
    /\ UNCHANGED <<link, routes, serve, approved, chosen, queue, job, last, asks>>

ToolBreaks(c) ==
    /\ ConnDies(c)
    /\ UNCHANGED <<app, routes, serve, approved, chosen, queue, job, last, asks>>

-----------------------------------------------------------------------------
\* The worker.
TakeUp ==
    /\ job = NoJob /\ queue # <<>>
    /\ job' = Head(queue) /\ queue' = Tail(queue) /\ last' = "none"
    /\ UNCHANGED <<link, trouble, app, routes, serve, approved, chosen, asks>>

\* The worker dies: the job's lease runs out and it is claimed again.
Dies ==
    /\ job # NoJob /\ job.at # "begin" /\ trouble < MaxMishaps
    /\ job' = [job EXCEPT !.at = "begin"]
    /\ trouble' = trouble + 1
    /\ UNCHANGED <<link, app, routes, serve, approved, chosen, queue, last, asks>>

\* How a step leaves the job: at the next one, done, failed with the app's
\* record, or failed without it.
GoesTo(at) == job' = [job EXCEPT !.at = at] /\ UNCHANGED last
Ends(how) == job' = NoJob /\ last' = how

\* A cancellation, at a checkpoint or in the queue, changes no record.
CancelRunning ==
    /\ job # NoJob /\ trouble < MaxMishaps /\ trouble' = trouble + 1
    /\ Ends("cancelled")
    /\ UNCHANGED <<link, app, routes, serve, approved, chosen, queue, asks>>

CancelQueued ==
    /\ queue # <<>> /\ trouble < MaxMishaps /\ trouble' = trouble + 1
    /\ \E i \in 1..Len(queue) :
          queue' = SubSeq(queue, 1, i - 1) \o SubSeq(queue, i + 1, Len(queue))
    /\ UNCHANGED <<link, app, routes, serve, approved, chosen, job, last, asks>>

JobAt(at) == job # NoJob /\ job.at = at

\* One command that may fail, after which the app is as given.
Costs(n) == trouble + n <= MaxMishaps /\ trouble' = trouble + n

Failing(a, now) == app' = [app EXCEPT ![a] = [now EXCEPT !.rec = "failed"]] /\ Ends("failed")

Aside == UNCHANGED <<approved, chosen, queue, asks>>
NoTools == UNCHANGED link
NoRoutes == UNCHANGED <<routes, serve>>

-----------------------------------------------------------------------------
\* The apps an app needs, started first (_start_needed_apps).
StoppedNeeds(a) == {n \in Needs[a] : app[n].rec = "stopped"}

NextNeeded(a) == {n \in StoppedNeeds(a) : StoppedNeeds(n) = {}}

StartNeeded(a) ==
    /\ JobAt("needs")
    /\ \/ /\ StoppedNeeds(a) = {}
          /\ GoesTo(IF job.do \in Installs THEN "record" ELSE "compose")
          /\ UNCHANGED <<app, link, trouble>>
       \/ \E n \in NextNeeded(a) :
             \/ /\ \E end \in {"ok", "bad"} : Follow(link, n, TRUE, end)
                /\ app[n].box # "absent"
                /\ app' = [app EXCEPT ![n].box = "running", ![n].rec = "running", ![n].since = TRUE]
                /\ UNCHANGED <<job, last>>
             \/ /\ Costs(IF app[n].box = "absent" THEN 0 ELSE 1) /\ NoTools
                /\ app' \in {app, [app EXCEPT ![n].box = IF @ = "absent" THEN @ ELSE "broken"]}
                /\ Ends("failed")
    /\ NoRoutes /\ Aside

-----------------------------------------------------------------------------
\* Start, stop and restart of an installed app (service_ops.execute_claimed).
Missing(a) == a \in Choosers \ chosen

BeginStart(a) ==
    /\ JobAt("begin") /\ job.do \in Installs \cup {"start", "restart"}
    /\ job.do \in Installs \/ app[a].proj = "full"
    /\ IF job.do = "start" /\ Missing(a) THEN Ends("failed") ELSE GoesTo("needs")
    /\ UNCHANGED <<app, link, trouble>> /\ NoRoutes /\ Aside

\* Nothing is deployed: a deletion that failed has left the record alone.
BeginNothing(a) ==
    /\ JobAt("begin") /\ job.do \in {"start", "restart", "stop"} /\ app[a].proj # "full"
    /\ Failing(a, app[a])
    /\ UNCHANGED <<link, trouble>> /\ NoRoutes /\ Aside

BeginStop(a) ==
    /\ JobAt("begin") /\ job.do = "stop" /\ app[a].proj = "full"
    /\ \/ Follow(link, a, FALSE, "ok") /\ GoesTo("compose") /\ UNCHANGED app
       \/ Follow(link, a, FALSE, "bad") /\ Failing(a, app[a])
    /\ NoRoutes /\ Aside

Compose(a) ==
    /\ JobAt("compose") /\ NoTools
    /\ \/ /\ job.do # "stop" /\ app[a].box # "absent" /\ UNCHANGED trouble
          /\ app' = [app EXCEPT ![a].box = "running"] /\ GoesTo("health")
       \/ /\ job.do = "stop" /\ UNCHANGED trouble
          /\ app' = [app EXCEPT ![a].box = IF @ = "absent" THEN @ ELSE "stopped"] /\ GoesTo("recorded")
       \/ /\ Costs(IF app[a].box = "absent" THEN 0 ELSE 1)
          /\ job.do = "stop" => app[a].box # "absent"
          /\ Failing(a, app[a])
    /\ NoRoutes /\ Aside

Health(a) ==
    /\ JobAt("health") /\ NoTools
    /\ \/ app[a].box = "running" /\ GoesTo("tools") /\ UNCHANGED <<app, trouble>>
       \/ /\ Costs(IF app[a].box = "running" THEN 1 ELSE 0)
          /\ Failing(a, [app[a] EXCEPT !.box = "broken"])
    /\ NoRoutes /\ Aside

Tools(a) ==
    /\ JobAt("tools")
    /\ \E end \in {"ok", "bad"} : Follow(link, a, TRUE, end)
    /\ GoesTo("recorded") /\ UNCHANGED app /\ NoRoutes /\ Aside

Recorded(a) ==
    /\ JobAt("recorded")
    /\ app' = IF job.do = "stop" THEN [app EXCEPT ![a].rec = "stopped"]
              ELSE [app EXCEPT ![a].rec = "running", ![a].since = TRUE]
    /\ Ends("succeeded")
    /\ UNCHANGED <<link, trouble>> /\ NoRoutes /\ Aside

\* The worker dies after a connector became live and before it was registered.
CutShort(a) ==
    /\ \/ /\ JobAt("needs")
          /\ \E n \in NextNeeded(a) :
                /\ app[n].box # "absent"
                /\ app' = [app EXCEPT ![n].box = "running"]
                /\ Follow(link, n, TRUE, "cut")
       \/ JobAt("tools") /\ Follow(link, a, TRUE, "cut") /\ UNCHANGED app
       \/ JobAt("connect") /\ Follow(Preenabled(link, a), a, TRUE, "cut") /\ UNCHANGED app
    /\ job' = [job EXCEPT !.at = "begin"]
    /\ UNCHANGED last /\ NoRoutes /\ Aside

-----------------------------------------------------------------------------
\* An installation (engine.install.run_install).  A step that fails records
\* the app as failed and leaves what it did.
Step(a, at, now, next) ==
    /\ JobAt(at) /\ UNCHANGED trouble
    /\ app' = [app EXCEPT ![a] = now] /\ GoesTo(next)

Falls(a, at, left) ==
    /\ JobAt(at) /\ Costs(1)
    /\ \E now \in left : Failing(a, now)

Record(a) ==
    /\ Step(a, "record", [app[a] EXCEPT !.rec = "installing"], "render") \/ Falls(a, "record", {app[a]})
    /\ NoTools /\ NoRoutes /\ Aside

\* The project is written from the checkout, the release record in it kept.
Render(a) ==
    /\ \/ /\ JobAt("render") /\ UNCHANGED <<trouble, last>>
          /\ app' = [app EXCEPT ![a].proj = "full"]
          /\ job' = [job EXCEPT !.at = "pin", !.setup = Missing(a)]
       \/ Falls(a, "render", {app[a], [app[a] EXCEPT !.proj = "full"]})
    /\ NoTools /\ NoRoutes /\ Aside

\* Mutant: an update of the checkout moves the data along.
Pinned_Approved(r) == approved

\* A record that is there is kept, otherwise the approved release is pinned.
Pinned(r) == IF r.pin # 0 THEN r.pin ELSE approved

Pin(a) ==
    /\ \/ Step(a, "pin", [app[a] EXCEPT !.pin = Pinned(app[a]), !.rec = "starting"],
               IF Method[a] = "oidc" THEN "oidc" ELSE "up")
       \/ Falls(a, "pin", {app[a]})
    /\ NoTools /\ NoRoutes /\ Aside

Signed(a) == {app[a], [app[a] EXCEPT !.signin = TRUE]}

Oidc(a) ==
    /\ Step(a, "oidc", [app[a] EXCEPT !.signin = TRUE], "up") \/ Falls(a, "oidc", Signed(a))
    /\ NoTools /\ NoRoutes /\ Aside

\* The first start of this installation, with the settings of a first start.
Upped(a, box) == [app[a] EXCEPT !.box = box, !.boot = a \in FirstStart, !.data = app[a].pin]

Up(a) ==
    /\ Step(a, "up", Upped(a, "running"), "settle") \/ Falls(a, "up", {app[a], Upped(a, "broken")})
    /\ NoTools /\ NoRoutes /\ Aside

\* The rules' setup in the app, and a start without those settings, which
\* follows even when the setup failed.
Finished(r) == [r EXCEPT !.boot = FALSE, !.box = "running"]

Settle(a) ==
    /\ \/ Step(a, "settle", Finished(app[a]), "verify")
       \/ Falls(a, "settle", {Finished(app[a]), [app[a] EXCEPT !.box = "broken"]})
    /\ NoTools /\ NoRoutes /\ Aside

Verify(a) ==
    /\ \/ app[a].box = "running" /\ Step(a, "verify", [app[a] EXCEPT !.rec = "verifying"], "route")
       \/ /\ JobAt("verify") /\ Costs(IF app[a].box = "running" THEN 1 ELSE 0)
          /\ Failing(a, [app[a] EXCEPT !.box = "broken"])
    /\ NoTools /\ NoRoutes /\ Aside

\* The proxy's file is written anew for every app that is there, or was.  The
\* containers of each app are read on their own, and what Docker does not answer
\* for is taken for not there.
Generated(without, unread) ==
    {b \in Apps \ without : \/ b \notin unread /\ Live(b) # "planned"
                            \/ app[b].rec \in {"running", "stopped"}}

Rewritten(without, cost) ==
    \E unread \in SUBSET Apps :
        /\ routes' = Generated(without, unread)
        /\ Costs(IF unread = {} THEN cost ELSE cost + 1)

Route(a) ==
    /\ JobAt("route")
    /\ \/ Rewritten({}, 0) /\ serve' = serve \cup {a} /\ GoesTo("signin") /\ UNCHANGED app
       \/ /\ (Costs(1) /\ UNCHANGED routes) \/ Rewritten({}, 1)
          /\ Failing(a, app[a]) /\ UNCHANGED serve
    /\ NoTools /\ Aside

\* The sign-in is asked for at the private address.
SignIn(a) ==
    /\ \/ /\ a \in routes
          /\ Step(a, "signin", [app[a] EXCEPT !.signin = TRUE, !.rec = "running", !.since = TRUE], "connect")
       \/ /\ JobAt("signin") /\ Costs(IF a \in routes THEN 1 ELSE 0)
          /\ \E now \in Signed(a) : Failing(a, now)
    /\ NoTools /\ NoRoutes /\ Aside

ConnectTools(a) ==
    /\ JobAt("connect")
    /\ \E end \in {"ok", "bad"} : Follow(Preenabled(link, a), a, TRUE, end)
    /\ GoesTo("rewire") /\ UNCHANGED app /\ NoRoutes /\ Aside

\* The running apps that use this one are rendered again and restarted; one
\* that does not come up is only logged.
Rewired(a) == {u \in Users[a] : app[u].proj = "full" /\ app[u].rec = "running"}

Rewire(a) ==
    /\ JobAt("rewire")
    /\ \E down \in SUBSET Rewired(a) :
          /\ Costs(Cardinality(down))
          /\ app' = [u \in Apps |-> IF u \in down THEN [app[u] EXCEPT !.box = "broken"]
                                    ELSE IF u \in Rewired(a) THEN [app[u] EXCEPT !.box = "running"]
                                    ELSE app[u]]
    /\ IF job.batch \/ job.setup THEN GoesTo("park") ELSE Ends("succeeded")
    /\ NoTools /\ NoRoutes /\ Aside

\* Chosen in Discover, or waiting for a choice: stopped until the owner starts it.
Park(a) ==
    /\ JobAt("park")
    /\ \/ Follow(link, a, FALSE, "ok") /\ GoesTo("halt") /\ UNCHANGED app
       \/ Follow(link, a, FALSE, "bad") /\ Failing(a, app[a])
    /\ NoRoutes /\ Aside

HaltApp(a) ==
    /\ JobAt("halt") /\ NoTools
    /\ \/ /\ UNCHANGED trouble /\ Ends("succeeded")
          /\ app' = [app EXCEPT ![a].box = "stopped", ![a].rec = "stopped"]
       \/ Falls(a, "halt", {app[a]})
    /\ NoRoutes /\ Aside

-----------------------------------------------------------------------------
\* Uninstalling (lifecycle.uninstall), and the reset of a failed installation.
BeginUninstall(a) ==
    /\ JobAt("begin") /\ job.do \in Uninstalls
    /\ \E o \in Followings(link, a, FALSE) :
          /\ Become(IF job.do = "uninstall" THEN o.is ELSE Forgotten(o.is, a), o.cost)
          /\ IF o.end = "bad" THEN Failing(a, app[a])
             ELSE app' = [app EXCEPT ![a].rec = "uninstalling"] /\ GoesTo("down")
    /\ NoRoutes /\ Aside

\* Mutant: the containers are only stopped.
Emptied_Stopped(r) == IF r.proj = "full" THEN [r EXCEPT !.box = "stopped", !.boot = FALSE] ELSE r

Emptied(r) == IF r.proj = "full" THEN [r EXCEPT !.box = "absent", !.boot = FALSE] ELSE r

TakeDown(a) ==
    /\ \/ Step(a, "down", Emptied(app[a]), "unroute")
       \/ app[a].proj = "full" /\ Falls(a, "down", {app[a], Emptied(app[a])})
    /\ NoTools /\ NoRoutes /\ Aside

Unroute(a) ==
    /\ JobAt("unroute")
    /\ \/ Rewritten({a}, 0) /\ serve' = serve \ {a} /\ GoesTo("remove") /\ UNCHANGED app
       \/ /\ (Costs(1) /\ UNCHANGED routes) \/ Rewritten({a}, 1)
          /\ Failing(a, app[a]) /\ UNCHANGED serve
    /\ NoTools /\ Aside

\* Data that stays keeps the .env and the release record beside it.
Removed(r, delete) ==
    IF delete THEN [r EXCEPT !.proj = "none", !.pin = 0, !.dropped = @ \/ r.data # 0]
    ELSE [r EXCEPT !.proj = IF @ = "none" THEN @ ELSE "kept"]

Remove(a) ==
    /\ Step(a, "remove", Removed(app[a], job.do # "uninstall"), "unsign") \/ Falls(a, "remove", {app[a]})
    /\ NoTools /\ NoRoutes /\ Aside

Unsign(a) ==
    /\ \/ Step(a, "unsign", [app[a] EXCEPT !.signin = FALSE],
               IF job.do = "uninstall" THEN "gone" ELSE "delete")
       \/ Falls(a, "unsign", {app[a]})
    /\ NoTools /\ NoRoutes /\ Aside

\* The folders are read from the project, which is gone by now, and so from
\* the checkout: data under another name stays.
Wiped(r) == IF r.data # 0 /\ FolderOf[approved] = FolderOf[r.data]
            THEN [r EXCEPT !.data = 0, !.dropped = FALSE] ELSE r

DeleteData(a) ==
    /\ \/ Step(a, "delete", Wiped(app[a]), "gone")
       \/ Wiped(app[a]) # app[a] /\ Falls(a, "delete", {app[a]})
    /\ NoTools /\ NoRoutes /\ Aside

\* The record goes, and the apps that used this one are rendered again.
Gone(a) ==
    /\ JobAt("gone")
    /\ LET left == [app EXCEPT ![a].rec = "none", ![a].since = FALSE]
       IN \E down \in SUBSET Rewired(a) :
             /\ Costs(Cardinality(down))
             /\ app' = [u \in Apps |-> IF u \in down THEN [left[u] EXCEPT !.box = "broken"]
                                       ELSE IF u \in Rewired(a) THEN [left[u] EXCEPT !.box = "running"]
                                       ELSE left[u]]
    /\ Ends("succeeded")
    /\ NoTools /\ NoRoutes /\ Aside

Reset(a) ==
    /\ JobAt("begin") /\ job.do = "reset"
    /\ \/ /\ UNCHANGED trouble /\ Ends("succeeded")
          /\ app' = [app EXCEPT ![a] = [Emptied(app[a]) EXCEPT !.rec = "none", !.since = FALSE]]
       \/ app[a].proj = "full" /\ Costs(1) /\ \E now \in {app[a], Emptied(app[a])} : Failing(a, now)
    /\ NoTools /\ NoRoutes /\ Aside

-----------------------------------------------------------------------------
\* A job on a connector, and the idle worker's look at all of them.
WorkConnector(c) ==
    /\ JobAt("begin")
    /\ LET r == app[AppOf[c]]
       IN \E end \in {"ok", "bad", "cut"} :
             /\ Execute(c, job.do, r.rec = "running", r.since, end)
             /\ CASE end = "ok"  -> Ends("succeeded")
                  [] end = "bad" -> Ends("failed")
                  [] OTHER       -> UNCHANGED <<job, last>>
    /\ UNCHANGED app /\ NoRoutes /\ Aside

Reconcile(a) ==
    /\ job = NoJob
    /\ Reconciled(a, app[a].rec = "running" /\ app[a].box = "running")
    /\ UNCHANGED <<app, job, last>> /\ NoRoutes /\ Aside

-----------------------------------------------------------------------------
InstallStep(a) ==
    \/ Record(a) \/ Render(a) \/ Pin(a) \/ Oidc(a) \/ Up(a) \/ Settle(a) \/ Verify(a)
    \/ Route(a) \/ SignIn(a) \/ ConnectTools(a) \/ Rewire(a) \/ Park(a) \/ HaltApp(a)

ControlStep(a) ==
    \/ BeginStart(a) \/ BeginStop(a) \/ BeginNothing(a) \/ StartNeeded(a)
    \/ Compose(a) \/ Health(a) \/ Tools(a) \/ Recorded(a)

UninstallStep(a) ==
    \/ BeginUninstall(a) \/ TakeDown(a) \/ Unroute(a) \/ Remove(a) \/ Unsign(a)
    \/ DeleteData(a) \/ Gone(a)

AppStep(a) ==
    job.of = a /\ (InstallStep(a) \/ ControlStep(a) \/ UninstallStep(a) \/ Reset(a) \/ CutShort(a))

ConnStep(c) == job.of = c /\ WorkConnector(c)

Worker ==
    \/ TakeUp
    \/ \E a \in Apps : AppStep(a)
    \/ \E c \in Conns : ConnStep(c)

Around ==
    \/ \E a \in Apps : (\E do \in AppActions : Ask(a, do)) \/ Breaks(a)
    \/ \E a \in Apps : \E do \in {"install", "reset"} : AskBatch(a, do)
    \/ \E c \in Conns : (\E do \in ConnActions : AskConnector(c, do)) \/ EnterKey(c) \/ ToolBreaks(c)
    \/ \E a \in Choosers : Choose(a)
    \/ Pull \/ Dies \/ CancelRunning \/ CancelQueued

LifeNext ==
    \/ Worker
    \/ \E a \in Apps : Reconcile(a)
    \/ Around

LifeSpec == LifeInit /\ [][LifeNext]_lifeVars

\* The worker takes up jobs, works on them, and looks at the connectors when
\* it has none; people and the world promise nothing.
FairLife ==
    /\ LifeSpec
    /\ WF_lifeVars(Worker)
    /\ \A a \in Apps : WF_lifeVars(Reconcile(a))
-----------------------------------------------------------------------------
EndsWell == job # NoJob /\ job' = NoJob /\ last' = "succeeded"

\* What a successful job of the app leaves, of the kinds there are.  A connector
\* recorded as prepared or as waiting for its credential is taken for one that
\* does not run, and left as it is (StopsItsTools).
QuietTools(a) == \A c \in Enabled(link', a) : Idle(link'[c]) \/ ~link'[c].up

LeavesItOpen(a) ==
    /\ app'[a].rec = "running" /\ app'[a].box \in {"running", "broken"}
    /\ app'[a].proj = "full" /\ app'[a].signin
    /\ a \in routes' /\ a \in serve'

LeavesItParked(a) ==
    /\ app'[a].rec = "stopped" /\ app'[a].box = "stopped"
    /\ a \in routes' /\ app'[a].signin /\ QuietTools(a)

LeavesNothing(a) ==
    /\ app'[a].rec = "none" /\ app'[a].box = "absent" /\ ~app'[a].signin
    /\ a \notin routes' /\ a \notin serve' /\ QuietTools(a)

LeavesNoData(a) ==
    /\ LeavesNothing(a) /\ app'[a].proj = "none"
    /\ app'[a].data # 0 => FolderOf[approved] # FolderOf[app[a].data]
    /\ \A c \in Conns : AppOf[c] = a => link'[c].on # "on"

\* What success means, of the kinds of jobs there are.
DoesAsSaid(a) ==
    /\ job.do \in Installs =>
         /\ ~app'[a].boot
         /\ IF job.batch \/ job.setup THEN LeavesItParked(a) ELSE LeavesItOpen(a)
    /\ job.do = "stop" => app'[a].box # "running" /\ QuietTools(a)
    /\ job.do = "uninstall" => LeavesNothing(a)
    /\ job.do = "uninstall_delete_data" => LeavesNoData(a)

\* A job that reports success has done what its action says, whatever failed,
\* died or was cancelled in the jobs before it: an installation leaves the app
\* signed in, published and without its first-start settings, open or, chosen
\* in Discover or waiting for a choice, stopped; a stop, an app that does not
\* run; an uninstallation leaves no container, address or sign-in; a deletion, no
\* connector switched on and no data the checkout knows.  None of the last four
\* leaves a connector of the app running, but for one that is recorded as
\* prepared or as waiting for its credential: a running one prepared again is
\* overlooked (engine.install, service_ops._uninstall, mcp_ops.sync_application).
SuccessIsTrue ==
    [][EndsWell => \A a \in Apps : job.of = a => DoesAsSaid(a)]_lifeVars

\* Files that are gone leave nothing behind them: an app whose project was
\* removed has no container, no address in the proxy's file and none at
\* Tailscale, although the removal may fail, be cancelled or die at each step
\* and its containers are found through the project's own Compose file
\* (lifecycle.uninstall's order of steps).
RemovedLeavesNothing ==
    \A a \in Apps : app[a].proj # "full" /\ app[a].rec \in {"none", "failed"} /\ ~Busy(a)
        => app[a].box = "absent" /\ a \notin routes /\ a \notin serve

\* Data stays with the release it was migrated to: only the data of a release
\* record that a deletion removed is started with another release
\* (app_releases.pin, "an app moves to it solely through the backup-first update").
DataKeepsItsRelease ==
    [][\A a \in Apps : app[a].data # 0 /\ app'[a].data \notin {0, app[a].data} => app[a].dropped]_lifeVars

\* The proxy's file is written anew with every installation and removal; an
\* app that has containers keeps its address in it through those of the
\* others, also one whose own job failed or that is being reset, as long as
\* Docker answers; when it does not, one that is recorded as running or stopped
\* still does (routes._generated_services, SurvivesTheReading).
AddressesStay ==
    [][\A a \in routes \ routes' :
          \/ app[a].box = "absent" \/ job.of = a
          \/ trouble' > trouble /\ app[a].rec \notin {"running", "stopped"}]_lifeVars

\* The tools follow the app: a connector that stays switched on, of an app that
\* stays up with nothing to do, comes to run, registered or at least recorded
\* as live (mcp_ops.reconcile_lifecycle).
ToolsFollow ==
    \A c \in Conns :
        <>[](link[c].on = "on" /\ app[AppOf[c]].rec = "running" /\ app[AppOf[c]].box = "running")
            => []<>(link[c].st = "live" /\ link[c].up)

\* What the dashboard reports of an app is so: after a job, between jobs and
\* through the jobs of other apps.
ReportsAreTrue == SuccessIsTrue /\ [](LifeTypes /\ RemovedLeavesNothing) /\ AddressesStay

\* The connectors of an app are one at a time and follow it.
ToolsAreRight == []OneConnectorPerApp /\ ToolsFollow

\* "The app keeps its stopped state rather than turning into a failed install"
\* (service_ops._ready_to_start), "leaves this app's own state as it was"
\* (_start_needed_apps): an app without a job is not shown as being worked on.
KeepsItsState == \A a \in Apps : app[a].rec \in Working => Busy(a)

\* Connectors stop "before their app stops" (docs/architecture.md): also one that
\* was prepared again, or lost its credential, while it ran.
StopsItsTools ==
    [][EndsWell /\ job.do = "stop" => \A c \in Enabled(link', job.of) : ~link'[c].up]_lifeVars

\* A connector that works is in chat: also one whose worker died between the
\* state "live" and the registration, or whose failed update was put back.
ToolsReachChat ==
    \A c \in Conns :
        <>[](link[c].on = "on" /\ app[AppOf[c]].rec = "running" /\ app[AppOf[c]].box = "running")
            => []<>(link[c].gate = "active")

\* The routes are those of the installed apps (routes._generated_services,
\* "Return installed generated routes"): also of an app whose job failed, when
\* its containers cannot be read just then.
SurvivesTheReading ==
    [][\A a \in routes \ routes' : app[a].box = "absent" \/ job.of = a]_lifeVars
=============================================================================
