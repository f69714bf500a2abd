----------------------------- MODULE Connectors -----------------------------
(***************************************************************************)
(* The chat connectors of installed apps (ctl/mcp_ops.py): small servers   *)
(* that offer an app's tools to chat through the ContextForge gateway.     *)
(* Each has a record in the control database (switched on or off, and a    *)
(* state), a container, files with a credential, and a gateway that is     *)
(* active or not.  One worker does everything here, one thing at a time,   *)
(* so an operation is one step; every command in it may fail, and the      *)
(* worker may die between the state "live" and the registration, which     *)
(* ends the operation "cut".                                               *)
(***************************************************************************)
EXTENDS Integers, FiniteSets

CONSTANTS
    Apps,        \* the apps
    Conns,       \* the accepted connectors of the catalog
    AppOf,       \* [Conns -> Apps]; no name is an app's and a connector's
    Preferred,   \* the connectors an installation switches on, one per app at most
    Reviewed,    \* the connectors with a reviewed update
    MaxMishaps   \* bound: failed commands, worker deaths and cancellations

ASSUME ConnectorsAssumption ==
    /\ AppOf \in [Conns -> Apps]
    /\ IsFiniteSet(Apps) /\ IsFiniteSet(Conns) /\ Apps \cap Conns = {}
    /\ Preferred \subseteq Conns /\ Reviewed \subseteq Conns
    /\ \A c, d \in Preferred : AppOf[c] = AppOf[d] => c = d
    /\ MaxMishaps \in Nat

VARIABLES
    link,        \* [Conns -> Link]
    trouble      \* how much went wrong, in the units of MaxMishaps

LinkStates == {"none", "prepared", "authentication_required", "live", "degraded", "failed",
               "incompatible", "stopped", "disabled"}

\* on: the record's "enabled", or "never" while there is no record; key: the
\* credential in the connector's .env; gate: its gateway in ContextForge.
Link == [on : {"never", "on", "off"}, st : LinkStates, up : BOOLEAN, files : BOOLEAN,
         key : BOOLEAN, gate : {"none", "active", "inactive"}]

NewLink == [on |-> "never", st |-> "none", up |-> FALSE, files |-> FALSE,
            key |-> FALSE, gate |-> "none"]

Enabled(l, a) == {c \in Conns : AppOf[c] = a /\ l[c].on = "on"}

Siblings(l, c) == Enabled(l, AppOf[c]) \ {c}

-----------------------------------------------------------------------------
\* What one operation on one connector can lead to: the connector after it,
\* whether it went well, badly or was cut short, and how much went wrong.
Out(r, end, cost) == [is |-> r, end |-> end, cost |-> cost]

Off(r) == [r EXCEPT !.gate = IF @ = "none" THEN @ ELSE "inactive"]

\* The gateway's side: registered and switched on, refused, or the worker dead
\* before it.
Bind(r) ==
    {Out([r EXCEPT !.st = "live", !.gate = "active"], "ok", 0), Out([r EXCEPT !.st = "live"], "cut", 1)}
        \cup {Out([r EXCEPT !.st = "incompatible", !.gate = g], "bad", 1) : g \in {r.gate, "active"}}

\* Start the container, ask it and list its tools, then register it.
Connect(r) ==
    {Out([r EXCEPT !.st = "failed"], "bad", 1), Out([r EXCEPT !.st = "degraded", !.up = TRUE], "bad", 1)}
        \cup Bind([r EXCEPT !.up = TRUE])

\* The credential first; a connector that gets none stays on and waits for it.
Waits(r, end) ==
    {Out([r EXCEPT !.st = "authentication_required"], end, 1) : k \in {FALSE} \ {r.key}}

\* A connector that waits for its credential is taken for one that does not run.
Idle(r) == r.st \in {"prepared", "authentication_required"}

Halt(r) ==
    IF Idle(r) THEN {Out(r, "ok", 0)}
    ELSE LET down == [r EXCEPT !.st = "stopped", !.up = FALSE]
             stays == [r EXCEPT !.st = "failed"]
         IN {Out(Off(down), "ok", 0), Out(down, "ok", 1), Out(Off(stays), "bad", 1), Out(stays, "bad", 2)}

\* sync_application for one enabled connector: missing files are copied again.
Followed(r, running) ==
    (IF r.files THEN {}
     ELSE {Out([r EXCEPT !.st = "failed"], IF running THEN "bad" ELSE "ok", 1)})
        \cup LET there == [r EXCEPT !.files = TRUE]
             IN IF running THEN Waits(there, "ok") \cup Connect([there EXCEPT !.key = TRUE])
                ELSE Halt(there)

Worst(ends) == IF "cut" \in ends THEN "cut" ELSE IF "bad" \in ends THEN "bad" ELSE "ok"

\* sync_application, from the connectors l: every enabled connector of the app
\* follows it, and the worst of their ends is how that went.
Followings(l, a, running) ==
    LET on == Enabled(l, a)
        Picks == {p \in [on -> UNION {Followed(l[c], running) : c \in on}] :
                     \A c \in on : p[c] \in Followed(l[c], running)}
    IN {Out([c \in Conns |-> IF c \in on THEN p[c].is ELSE l[c]],
            Worst({p[c].end : c \in on}),
            Cardinality({u \in on \X (1..2) : u[2] <= p[u[1]].cost})) : p \in Picks}

\* The connectors become l, and so much went wrong on the way.
Become(l, cost) ==
    /\ trouble' = trouble + cost
    /\ trouble' <= MaxMishaps
    /\ link' = l

Follow(l, a, running, end) ==
    \E o \in Followings(l, a, running) : o.end = end /\ Become(o.is, o.cost)

\* preenable: an app whose connectors have no record gets its preferred one.
Preenabled(l, a) ==
    IF \E c \in Conns : AppOf[c] = a /\ l[c].on # "never" THEN l
    ELSE [c \in Conns |-> IF AppOf[c] = a /\ c \in Preferred
                          THEN [l[c] EXCEPT !.files = TRUE, !.on = "on", !.st = "prepared"] ELSE l[c]]

\* The connectors of an app whose data goes lose their credentials.
Forgotten(l, a) ==
    [c \in Conns |-> IF AppOf[c] # a THEN l[c]
                     ELSE IF l[c].on = "never" THEN [l[c] EXCEPT !.key = FALSE]
                     ELSE [l[c] EXCEPT !.key = FALSE, !.on = "off", !.st = "disabled"]]

-----------------------------------------------------------------------------
\* One job on one connector (mcp_ops.execute_claimed).
ConnActions == {"prepare", "enable", "disable", "update", "switch"}

Prepare(r) ==
    {Out([r EXCEPT !.files = TRUE, !.on = "on", !.st = "prepared"], "ok", 0), Out(r, "bad", 1)}

SwitchedOff(r) == [r EXCEPT !.on = "off", !.st = "disabled", !.up = FALSE]

Disable(r) ==
    {Out(r, "bad", 1) : f \in {TRUE} \cap {r.files}} \cup {Out(SwitchedOff(r), "bad", 1)}
        \cup {Out([Off(SwitchedOff(r)) EXCEPT !.key = k], "ok", 0) : k \in {FALSE, r.key}}

\* A failed update puts the previous files back and starts them, with the
\* state "live" and without registering anything.
Update(r) ==
    IF ~r.files THEN {Out(r, "bad", 0)}
    ELSE {o \in Bind([r EXCEPT !.on = "on", !.up = TRUE]) : o.end # "bad"}
           \cup {Out([r EXCEPT !.on = "on", !.st = "live", !.up = TRUE, !.gate = g], "bad", 1)
                     : g \in {r.gate, "active"}}
           \cup {Out([r EXCEPT !.on = "on", !.st = "failed"], "bad", 2)}

\* enable, install, restart, verify and switch all end in this.
Enable(r) ==
    LET on == [r EXCEPT !.on = "on"]
    IN {Out(r, "bad", 1)} \cup Waits(on, "bad") \cup Connect([on EXCEPT !.key = TRUE, !.files = TRUE])

\* The siblings a switch turns off first.
Cleared(l, c) == [s \in Conns |-> IF s \in Siblings(l, c) THEN Off(SwitchedOff(l[s])) ELSE l[s]]


\* A sibling that could not be stopped, or not be switched off in the gateway.
HalfCleared(l, c) ==
    {l, [s \in Conns |-> IF s \in Siblings(l, c) THEN SwitchedOff(l[s]) ELSE l[s]]}

Refused(c, do) == Siblings(link, c) # {} /\ do \notin {"switch", "disable"}

Results(l, c, do) ==
    CASE do = "prepare" -> Prepare(l[c])
      [] do = "disable" -> Disable(l[c])
      [] do = "update"  -> Update(l[c])
      [] OTHER          -> Enable(l[c])

\* running: the app is recorded as running; installed: it was at some time.
Execute(c, do, running, installed, end) ==
    \/ /\ Refused(c, do) \/ (do # "disable" /\ ~running /\ ~(do = "prepare" /\ installed))
       /\ end = "bad"
       /\ UNCHANGED <<link, trouble>>
    \/ /\ ~Refused(c, do)
       /\ do = "disable" \/ running \/ (do = "prepare" /\ installed)
       /\ LET base == IF do = "switch" THEN Cleared(link, c) ELSE link
          IN \E o \in Results(base, c, do) :
                /\ Become([base EXCEPT ![c] = o.is], o.cost)
                /\ end = o.end
    \/ /\ do = "switch" /\ running /\ Siblings(link, c) # {}
       /\ trouble < MaxMishaps
       /\ link' \in HalfCleared(link, c)
       /\ trouble' = trouble + 1
       /\ end = "bad"

\* Mutant: a connector its app was too old for is never looked at again.
Behind_Refused(c, healthy) ==
    /\ link[c].on = "on"
    /\ IF healthy THEN link[c].st \notin {"live", "incompatible"} \/ ~link[c].up
       ELSE link[c].st \notin {"stopped", "prepared", "authentication_required"}
\* The idle worker's pass: an enabled connector that does not fit its app.
Behind(c, healthy) ==
    /\ link[c].on = "on"
    /\ IF healthy THEN link[c].st # "live" \/ ~link[c].up
       ELSE link[c].st \notin {"stopped", "prepared", "authentication_required"}

Reconciled(a, healthy) ==
    /\ \E c \in Conns : AppOf[c] = a /\ Behind(c, healthy)
    /\ \E end \in {"ok", "bad", "cut"} : Follow(link, a, healthy, end)

\* The administrator enters the credential by hand (mcp_config.write).
PutKey(c) ==
    /\ ~link[c].key
    /\ link' = [link EXCEPT ![c].key = TRUE]
    /\ UNCHANGED trouble

\* A connector's container stops by itself.
ConnDies(c) ==
    /\ link[c].up
    /\ trouble < MaxMishaps
    /\ link' = [link EXCEPT ![c].up = FALSE]
    /\ trouble' = trouble + 1
-----------------------------------------------------------------------------
\* At most one connector of an app is switched on: enabling another one is
\* refused, a switch turns the first one off before (mcp_ops._siblings).
OneConnectorPerApp == \A a \in Apps : Cardinality(Enabled(link, a)) <= 1
=============================================================================
