----------------------------- MODULE HostSetup -----------------------------
(* ./install.sh: one run walks through the steps of the installer in order.
   A step first checks the computer; a step that is not ready is fixed by a
   sequence of commands, and checked again (install.run_job). A command may
   fail, and the run may die after any of them; running ./install.sh again
   starts from the first step and has only the computer itself to go by.

   The computer is a record of facts: what each check reads and each command
   changes. A version stands for the contents of the checkout. *)
EXTENDS Integers, Sequences, FiniteSets, SequencesExt

CONSTANTS
  FirstVersion, \* the version first checked out on this computer
  MaxVersion,   \* bound: versions of the checkout (git pull)
  MaxTrouble    \* bound: failed commands, dead runs and disturbances in all

ASSUME SetupAssumption == MaxVersion \in Nat /\ FirstVersion \in 1 .. MaxVersion /\ MaxTrouble \in Nat

VARIABLES
  host,      \* the facts of this computer
  checkout,  \* the version of the files in the checkout
  run,       \* the installer: state, step, at, todo (commands left), restoring
  trouble    \* troubles so far

hostVars == <<host, checkout, run, trouble>>

Versions == 1 .. MaxVersion
Networks == {"frontend", "backend", "mcp", "mcp_upstream"}
Routes == {"authentik", "vault", "lobehub", "dashboard"}
None == <<"none", 0>>
Deny(v) == <<"deny", v>>   \* the checkout's Caddyfile: no dashboard at all
Auth(v) == <<"auth", v>>   \* Caddyfile.authenticated: sign-in through Authentik
Configs == {None} \cup {Deny(v) : v \in Versions} \cup {Auth(v) : v \in Versions}

Steps == <<"host_supported", "host_base", "tailscale_pkg", "tailscale_operator",
  "tailscale_join", "docker", "docker_address_pools", "docker_networks", "nvidia_toolkit",
  "dashboard_build", "runtime_layout", "restore_backup", "root_env", "service", "caddy",
  "vaultwarden", "vaultwarden_setup", "vaultwarden_serve", "browser_extension", "authentik",
  "authentik_serve", "tailnet_relay", "lobehub_serve", "authentik_setup",
  "dashboard_protection", "serve", "core_images">>
At(s) == CHOOSE n \in 1 .. Len(Steps) : Steps[n] = s
Idle == [state |-> "idle", step |-> 1, at |-> "check", todo |-> <<>>, restoring |-> FALSE]

(* A computer that never had Mu3Lab: Docker may be there already, in any state.
   The secrets, the sign-in account and the vault's account are none, made here
   (new) or restored from the old computer (old). *)
FreshHost(engine, gpu) ==
  [port |-> "free", base |-> FALSE, sources |-> {}, keys |-> {}, ts |-> "absent",
   operator |-> FALSE, engine |-> engine, group |-> IF engine = "absent" THEN "absent" ELSE "none",
   pools |-> FALSE, gpu |-> gpu, toolkit |-> FALSE, runtime |-> FALSE, loaded |-> {},
   nets |-> {}, built |-> 0, layout |-> FALSE, tokens |-> "none", units |-> 0, ctl |-> 0,
   worker |-> 0, svcStamp |-> 0, target |-> None, caddy |-> None, boundary |-> 0,
   gate |-> 0, synced |-> 0, project |-> 0, vault |-> 0, account |-> "none", served |-> {},
   extension |-> FALSE, authentik |-> FALSE, env |-> "none", admin |-> "none",
   relay |-> FALSE, images |-> 0]

-----------------------------------------------------------------------------
(* The checks: what each step reads, and the state it reports. *)

PortsState == IF host.port = "foreign" THEN "unsupported" ELSE "ready"
BaseState == IF host.base THEN "ready" ELSE "missing"
TailscaleState == host.ts
OperatorState == IF host.operator /\ host.ts \in {"unjoined", "ready"} THEN "ready" ELSE "missing"
JoinState == IF TailscaleState = "ready" THEN "ready" ELSE "unjoined"

InGroup == host.group \in {"db", "live"}
DockerAnswers == host.engine \notin {"absent", "daemon_down"} /\ InGroup
DockerState ==
  IF host.engine # "up" THEN host.engine
  ELSE IF ~InGroup THEN "no_group"
  ELSE IF host.group = "db" THEN "stale_login"
  ELSE IF host.nets # Networks THEN "no_networks"
  ELSE "ready"
PoolsState == IF host.pools THEN "ready" ELSE "missing"
NetworksState ==
  IF ~DockerAnswers THEN "denied" ELSE IF host.nets # Networks THEN "missing" ELSE "ready"
(* nvidia-smi, then the package alone. *)
GpuState == IF ~host.gpu THEN "not_needed" ELSE IF host.toolkit THEN "ready" ELSE "missing"
BuildState == IF host.built = checkout THEN "ready" ELSE "stale"
LayoutState == IF host.layout THEN "ready" ELSE "missing"
EnvState == IF host.tokens # "none" THEN "ready" ELSE "missing"
ServiceState ==
  IF host.units = 0 THEN "no_unit"
  ELSE IF host.units # checkout \/ host.svcStamp # checkout THEN "outdated"
  ELSE IF host.ctl = 0 \/ host.worker = 0 THEN "inactive"
  ELSE "ready"
CaddyState == IF host.boundary # checkout \/ host.caddy = None THEN "down" ELSE "ready"
(* Outdated is judged against the rendered project, not the checkout. *)
VaultState ==
  IF host.vault = 0 THEN "down" ELSE IF host.vault # host.project THEN "outdated" ELSE "ready"
AccountState == IF host.account # "none" THEN "ready" ELSE "needs_user"
RouteState(r) == IF host.ts = "ready" /\ r \in host.served THEN "ready" ELSE "unshared"
ExtensionState == IF host.extension THEN "ready" ELSE "missing"
AuthentikState == IF host.authentik THEN "ready" ELSE "down"
RelayState == IF host.relay /\ host.ts = "ready" THEN "ready" ELSE "missing"
AuthentikSetupState ==
  IF host.authentik /\ host.admin # "none" /\ host.env # "hash" THEN "ready" ELSE "needs_user"
GateOutdated == host.target # Auth(checkout) \/ host.gate # checkout
(* What the probe of the dashboard's address is answered: the sign-in page. *)
AsksToSignIn == host.caddy[1] = "auth" /\ host.authentik
ProtectionState_NoStamp ==  \* mutant: the configuration file is enough
  IF host.target = Auth(checkout) THEN "ready" ELSE "needs_apply"
ProtectionState ==
  IF GateOutdated THEN "needs_apply" ELSE IF AsksToSignIn THEN "ready" ELSE "needs_attention"
ImagesState == IF host.images = checkout THEN "ready" ELSE "missing"

(* The check of a step; restored is the state rebuild's own step reports. *)
StateOf(s, restored) ==
  CASE s = "host_supported" -> PortsState [] s = "host_base" -> BaseState
    [] s = "tailscale_pkg" -> TailscaleState [] s = "tailscale_operator" -> OperatorState
    [] s = "tailscale_join" -> JoinState [] s = "docker" -> DockerState
    [] s = "docker_address_pools" -> PoolsState [] s = "docker_networks" -> NetworksState
    [] s = "nvidia_toolkit" -> GpuState [] s = "dashboard_build" -> BuildState
    [] s = "runtime_layout" -> LayoutState [] s = "restore_backup" -> restored
    [] s = "root_env" -> EnvState [] s = "service" -> ServiceState [] s = "caddy" -> CaddyState
    [] s = "vaultwarden" -> VaultState [] s = "vaultwarden_setup" -> AccountState
    [] s = "vaultwarden_serve" -> RouteState("vault") [] s = "browser_extension" -> ExtensionState
    [] s = "authentik" -> AuthentikState [] s = "authentik_serve" -> RouteState("authentik")
    [] s = "tailnet_relay" -> RelayState [] s = "lobehub_serve" -> RouteState("lobehub")
    [] s = "authentik_setup" -> AuthentikSetupState
    [] s = "dashboard_protection" -> ProtectionState [] s = "serve" -> RouteState("dashboard")
    [] s = "core_images" -> ImagesState

(* DISPATCH's "skip", and the states a step's own check calls ok. *)
Skipped(s, state) ==
  state \in {"ready", "not_needed", "not_requested"} \/ (s = "tailscale_pkg" /\ state = "unjoined")

Acceptable_Ready(s) == {"ready", "not_needed"}  \* mutant: what a later step does is waited for
(* The states a step may end in after its fix (verify_ok_states). *)
Acceptable(s) ==
  CASE s = "docker" -> {"ready", "no_group", "stale_login", "no_networks", "no_access"}
    [] s = "tailscale_pkg" -> {"ready", "unjoined"}
    [] OTHER -> {"ready", "not_needed"}

-----------------------------------------------------------------------------
(* The fixes: the commands a step runs for the state its check reported. *)

FixBase == <<"repair_keys", "apt_update", "apt_base">>
FixTailscale(state) ==
  (IF state = "absent"
   THEN <<"repair_keys", "tailscale_key", "tailscale_source", "apt_update", "apt_tailscale">>
   ELSE <<>>) \o <<"start_tailscale">>
Membership ==
  IF host.group = "absent" THEN <<"docker_group", "restart_docker", "usermod">> ELSE <<"usermod">>
FixDocker(state) ==
  (CASE state = "absent" -> <<"repair_keys", "docker_key", "docker_source", "apt_update",
                              "apt_docker", "start_docker">>
     [] state = "daemon_down" -> <<"start_docker">>
     [] state = "old_engine" -> <<"repair_keys", "apt_update", "apt_docker">>
     [] state = "no_compose" -> <<"apt_compose">>
     [] OTHER -> <<>>) \o Membership
FixPools == <<"write_pools", "restart_docker">>
FixNetworks == <<"create_networks">>
FixOperator == <<"set_operator">>
FixJoin == <<"tailscale_up">>
FixBuild == <<"build">>
FixLayout == <<"make_layout">>
FixTokens == <<"make_tokens">>
FixAccount == <<"register">>
FixExtension == <<"write_policy">>
FixRelay == <<"relay_up">>
FixImages == <<"pull_images">>
FixGpu == <<"nvidia_key", "nvidia_source", "apt_update", "apt_nvidia", "nvidia_ctk", "restart_docker">>
FixService == <<"write_units", "restart_ctl", "restart_worker", "await_health">>
FixCaddy == <<"safe_config", "caddy_up", "await_caddy">>
FixVault == <<"render_vault", "vault_up">>
FixVaultRoute == <<"vault_private_url", "serve_vault">>
FixAuthentik == <<"authentik_env", "authentik_up">>
FixAuthentikSetup == <<"await_defaults", "clear_hash">>
FixProtection_Unsynced == <<"write_gate", "write_target", "gate_up">>  \* mutant: nobody waits for the gate
FixProtection == <<"sync_gate", "write_gate", "write_target", "gate_up", "await_gate">>
FixOf(s, state) ==
  CASE s = "host_base" -> FixBase [] s = "tailscale_pkg" -> FixTailscale(state)
    [] s = "tailscale_operator" -> FixOperator [] s = "tailscale_join" -> FixJoin
    [] s = "docker" -> FixDocker(state) [] s = "docker_address_pools" -> FixPools
    [] s = "docker_networks" -> FixNetworks [] s = "nvidia_toolkit" -> FixGpu
    [] s = "dashboard_build" -> FixBuild [] s = "runtime_layout" -> FixLayout
    [] s = "root_env" -> FixTokens [] s = "service" -> FixService [] s = "caddy" -> FixCaddy
    [] s = "vaultwarden" -> FixVault [] s = "vaultwarden_setup" -> FixAccount
    [] s = "vaultwarden_serve" -> FixVaultRoute [] s = "browser_extension" -> FixExtension
    [] s = "authentik" -> FixAuthentik [] s = "authentik_serve" -> <<"serve_authentik">>
    [] s = "tailnet_relay" -> FixRelay [] s = "lobehub_serve" -> <<"serve_lobehub">>
    [] s = "authentik_setup" -> FixAuthentikSetup [] s = "dashboard_protection" -> FixProtection
    [] s = "serve" -> <<"serve_dashboard">> [] s = "core_images" -> FixImages
    [] s = "restore_backup" /\ state = "missing" -> <<"restore">>   \* the module Rebuild
    [] OTHER -> <<"report">>   \* host_supported, an interrupted rebuild: nothing to run

-----------------------------------------------------------------------------
(* The commands: when one can work, and what it leaves. *)

ComposeWorks == host.engine = "up" /\ InGroup
Signs(key) == [host EXCEPT !.keys = @ \cup {key}]
Lists(source) == [host EXCEPT !.sources = @ \cup {source}]
Serves(r) == [host EXCEPT !.served = @ \cup {r}]
(* A Docker that starts reads its settings and the GPU runtime's. *)
Restarted == [host EXCEPT !.engine = IF @ = "daemon_down" THEN "up" ELSE @,
                          !.loaded = {f \in {"pools", "runtime"} : host[f]}]

(* apt-get update checks the signature of every source there is. *)
AptWorks == host.sources \subseteq host.keys
CanRun(c) ==
  CASE c = "apt_update" -> AptWorks
    [] c \in {"build", "vault_up", "vault_private_url", "authentik_up", "relay_up", "pull_images",
              "create_networks"} -> ComposeWorks
    [] c = "caddy_up" -> ComposeWorks /\ host.tokens # "none"
    [] c \in {"serve_vault", "serve_authentik", "serve_lobehub", "serve_dashboard"} -> host.ts = "ready"
    [] c \in {"await_defaults", "sync_gate"} -> host.authentik
    [] c = "gate_up" -> ComposeWorks
    [] c = "await_gate" -> AsksToSignIn
    [] c = "register" -> host.vault # 0
    [] c = "report" -> FALSE
    [] OTHER -> TRUE

PackagesAfter(c) ==
  CASE c = "repair_keys" -> [host EXCEPT !.keys = @ \cup host.sources]
    [] c = "apt_base" -> [host EXCEPT !.base = TRUE]
    [] c = "tailscale_key" -> Signs("tailscale") [] c = "tailscale_source" -> Lists("tailscale")
    [] c = "docker_key" -> Signs("docker") [] c = "docker_source" -> Lists("docker")
    [] c = "nvidia_key" -> Signs("nvidia") [] c = "nvidia_source" -> Lists("nvidia")
    [] c = "apt_tailscale" -> [host EXCEPT !.ts = "daemon_down"]
    [] c = "start_tailscale" -> [host EXCEPT !.ts = IF @ = "ready" THEN @ ELSE "unjoined"]
    [] c = "set_operator" -> [host EXCEPT !.operator = TRUE]
    [] OTHER -> host   \* apt_update, tailscale_up: the person approves this computer

DockerAfter(c) ==
  CASE c = "apt_docker" -> [host EXCEPT !.group = IF @ = "absent" THEN "none" ELSE @,
                                       !.engine = IF @ = "absent" THEN "daemon_down" ELSE "up"]
    [] c = "apt_compose" -> [host EXCEPT !.engine = "up"]
    [] c \in {"start_docker", "restart_docker"} -> Restarted
    [] c = "docker_group" -> [host EXCEPT !.group = "none"]
    [] c = "usermod" -> [host EXCEPT !.group = IF @ = "live" THEN @ ELSE "db"]
    [] c = "write_pools" -> [host EXCEPT !.pools = TRUE]
    [] c = "create_networks" -> [host EXCEPT !.nets = Networks]
    [] c = "apt_nvidia" -> [host EXCEPT !.toolkit = TRUE]
    [] c = "nvidia_ctk" -> [host EXCEPT !.runtime = TRUE]
    [] c = "pull_images" -> [host EXCEPT !.images = checkout]

(* A configuration made for another version's sign-in is replaced by one that
   answers nobody, before Caddy starts with it. *)
SafeConfig == IF host.target \in {None, Auth(checkout)} THEN host.target ELSE Deny(checkout)
IngressAfter(c) ==
  CASE c = "safe_config" -> [host EXCEPT !.target = SafeConfig]
    [] c = "caddy_up" -> [host EXCEPT !.caddy = IF host.target = None THEN Deny(checkout) ELSE host.target]
    [] c = "await_caddy" -> [host EXCEPT !.boundary = checkout]
    [] c = "sync_gate" -> [host EXCEPT !.synced = checkout]
    [] c = "write_gate" -> [host EXCEPT !.gate = checkout]
    [] c = "write_target" -> [host EXCEPT !.target = Auth(checkout)]
    [] c = "gate_up" -> [host EXCEPT !.caddy = host.target]
    [] OTHER -> host   \* await_gate

ServiceAfter(c) ==
  CASE c = "build" -> [host EXCEPT !.built = checkout]
    [] c = "make_layout" -> [host EXCEPT !.layout = TRUE]
    [] c = "make_tokens" -> [host EXCEPT !.tokens = "new"]
    [] c = "write_units" -> [host EXCEPT !.units = checkout]
    [] c = "restart_ctl" -> [host EXCEPT !.ctl = checkout]
    [] c = "restart_worker" -> [host EXCEPT !.worker = checkout]
    [] c = "await_health" -> [host EXCEPT !.svcStamp = checkout]

AppsAfter(c) ==
  CASE c = "render_vault" -> [host EXCEPT !.project = checkout]
    [] c = "vault_up" -> [host EXCEPT !.vault = host.project]
    [] c = "register" -> [host EXCEPT !.account = "new"]
    [] c = "vault_private_url" -> [host EXCEPT !.vault = checkout]   \* from the checkout itself
    [] c = "serve_vault" -> Serves("vault") [] c = "serve_authentik" -> Serves("authentik")
    [] c = "serve_lobehub" -> Serves("lobehub") [] c = "serve_dashboard" -> Serves("dashboard")
    [] c = "write_policy" -> [host EXCEPT !.extension = TRUE]
    [] c = "authentik_env" -> [host EXCEPT !.env = "hash"]
    [] c = "authentik_up" -> [host EXCEPT !.authentik = TRUE, !.admin = IF @ = "none" THEN "new" ELSE @]
    [] c = "relay_up" -> [host EXCEPT !.relay = TRUE]
    [] c = "clear_hash" -> [host EXCEPT !.env = "clean"]
    [] OTHER -> host   \* await_defaults

After(c) ==
  IF run.step < At("docker") \/ c \in {"repair_keys", "apt_update", "docker_key", "docker_source",
                                     "nvidia_key", "nvidia_source"}
  THEN PackagesAfter(c)
  ELSE IF c \in {"safe_config", "caddy_up", "await_caddy", "sync_gate", "write_gate", "write_target",
                 "gate_up", "await_gate"}
  THEN IngressAfter(c)
  ELSE IF c \in {"build", "make_layout", "make_tokens", "write_units", "restart_ctl",
                 "restart_worker", "await_health"}
  THEN ServiceAfter(c)
  ELSE IF run.step \in At("docker") .. At("nvidia_toolkit") \/ c = "pull_images" THEN DockerAfter(c)
  ELSE AppsAfter(c)

-----------------------------------------------------------------------------
(* The engine: install.run_job. *)

Running == run.state = "running"
Step == Steps[run.step]
Ends(state) == run' = [Idle EXCEPT !.state = state]
Advance == run' = IF run.step = Len(Steps)
                  THEN [run EXCEPT !.at = "finish", !.todo = <<>>]
                  ELSE [run EXCEPT !.step = @ + 1, !.at = "check", !.todo = <<>>]
Troubled == trouble < MaxTrouble /\ trouble' = trouble + 1

(* ./install.sh, or ./install.sh --restore: a new job, from the first step. *)
StartRun(restoring) ==
  /\ ~Running
  /\ run' = [Idle EXCEPT !.state = "running", !.restoring = restoring]
  /\ UNCHANGED <<host, checkout, trouble>>

(* The checks only read, and nothing else writes what they read: one step of the
   model passes all the steps up to the next that wants a fix, or to authentik,
   whose end has an effect of its own. *)
Stops(restored) ==
  {n \in run.step .. Len(Steps) :
     ~Skipped(Steps[n], StateOf(Steps[n], restored)) \/ (Steps[n] = "authentik" /\ n # run.step)}
RunCheck(restored) ==
  /\ Running /\ run.at = "check"
  /\ run' = IF Skipped(Step, StateOf(Step, restored)) THEN
              IF Stops(restored) = {} THEN [run EXCEPT !.at = "finish"]
              ELSE [run EXCEPT !.step = Min(Stops(restored))]
            ELSE [run EXCEPT !.at = "fix", !.todo = FixOf(Step, StateOf(Step, restored))]
  /\ UNCHANGED <<host, checkout, trouble>>

RunCommand ==
  /\ Running /\ run.at = "fix" /\ run.todo # <<>> /\ Step # "restore_backup"
  /\ CanRun(Head(run.todo)) /\ ~(Head(run.todo) = "tailscale_up" /\ host.ts # "ready")
  /\ host' = After(Head(run.todo))
  /\ run' = [run EXCEPT !.todo = Tail(@)]
  /\ UNCHANGED <<checkout, trouble>>

(* A command that cannot work fails the step, and with it the run. *)
CommandRefused ==
  /\ Running /\ run.at = "fix" /\ run.todo # <<>> /\ ~CanRun(Head(run.todo))
  /\ Ends("failed")
  /\ UNCHANGED <<host, checkout, trouble>>

CommandFails ==
  /\ Running /\ run.at = "fix" /\ run.todo # <<>> /\ Step # "restore_backup"
  /\ CanRun(Head(run.todo))
  /\ Troubled
  /\ Ends("failed")
  /\ UNCHANGED <<host, checkout>>

(* The person approves this computer in Tailscale; the step checks again. *)
Approve ==
  /\ Running /\ run.at = "fix" /\ run.todo = <<"tailscale_up">> /\ host.ts = "unjoined"
  /\ host' = [host EXCEPT !.ts = "ready"]
  /\ run' = [run EXCEPT !.todo = <<>>]
  /\ UNCHANGED <<checkout, trouble>>

Verify(restored) ==
  /\ Running /\ run.at = "fix" /\ run.todo = <<>>
  /\ IF StateOf(Step, restored) \in Acceptable(Step) THEN Advance ELSE Ends("failed")
  /\ UNCHANGED <<host, checkout, trouble>>

(* After nvidia_toolkit a thread downloads what core_images will want; between two
   steps, as nothing before core_images looks. *)
Prefetch ==
  /\ Running /\ run.at = "check" /\ run.step > At("nvidia_toolkit") /\ host.images # checkout /\ ComposeWorks
  /\ host' = [host EXCEPT !.images = checkout]
  /\ UNCHANGED <<checkout, run, trouble>>

(* Ctrl+C, a closed terminal, a power cut: the commands that ran stay. *)
Die ==
  /\ Running /\ Troubled
  /\ Ends("idle")
  /\ UNCHANGED <<host, checkout>>

-----------------------------------------------------------------------------
(* The rest of the world, between two runs. *)

Pull ==
  /\ ~Running /\ checkout < MaxVersion
  /\ checkout' = checkout + 1
  /\ UNCHANGED <<host, run, trouble>>

Login ==
  /\ ~Running /\ host.group = "db"
  /\ host' = [host EXCEPT !.group = "live"]
  /\ UNCHANGED <<checkout, run, trouble>>

(* A service stops, a signing key is lost, a program takes a port or frees it,
   the published addresses are reset. *)
Disturbances ==
  {[host EXCEPT !.caddy = None], [host EXCEPT !.vault = 0], [host EXCEPT !.authentik = FALSE],
   [host EXCEPT !.ctl = 0], [host EXCEPT !.served = {}]}
  \cup {[host EXCEPT !.keys = @ \ {k}] : k \in host.sources}
  \cup (IF host.ctl = 0 /\ host.caddy = None THEN {[host EXCEPT !.port = "foreign"]} ELSE {})
Disturb ==
  /\ ~Running /\ Troubled
  /\ host' \in Disturbances \ {host}
  /\ UNCHANGED <<checkout, run>>
FreePort ==
  /\ ~Running /\ host.port = "foreign"
  /\ host' = [host EXCEPT !.port = "free"]
  /\ UNCHANGED <<checkout, run, trouble>>
=============================================================================
