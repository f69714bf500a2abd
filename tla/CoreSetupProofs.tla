-------------------------- MODULE CoreSetupProofs --------------------------
(***************************************************************************)
(* Proofs about CoreSetup, for any number of versions, jobs, apps and      *)
(* troubles: what is to be started once is started once, a rebuild is of   *)
(* one computer and leaves what is not its own, the dashboard is never     *)
(* open, and a computer said to be set up is of the version checked out.   *)
(* The last part is about the people it is set up for (Access), for any    *)
(* household.                                                              *)
(***************************************************************************)
EXTENDS CoreSetup, Access, FiniteSetTheorems, SequenceTheorems, WellFoundedInduction, TLAPS

(* The commands of a step, as far as the secrets, the accounts and the worker
   depend on them: only root_env makes secrets, only vaultwarden_setup registers. *)
DockerCommands ==
  {"repair_keys", "apt_update", "docker_key", "docker_source", "nvidia_key", "nvidia_source",
   "apt_docker", "apt_compose", "start_docker", "restart_docker", "docker_group", "usermod",
   "write_pools", "create_networks", "apt_nvidia", "nvidia_ctk"}
LateCommands ==
  {"write_units", "restart_ctl", "restart_worker", "await_health", "safe_config", "caddy_up", "await_caddy",
   "render_vault", "vault_up", "vault_private_url", "serve_vault", "write_policy", "authentik_env",
   "authentik_up", "serve_authentik", "relay_up", "serve_lobehub", "await_defaults", "clear_hash",
   "sync_gate", "write_gate", "write_target", "gate_up", "await_gate", "serve_dashboard", "pull_images"}
CommandsAt(n) ==
  CASE n < 6 -> {"report", "repair_keys", "apt_update", "apt_base", "tailscale_key", "tailscale_source",
                 "apt_tailscale", "start_tailscale", "set_operator", "tailscale_up"}
    [] n \in 6 .. 9 -> DockerCommands
    [] n \in 10 .. 12 -> {"build", "make_layout", "restore", "report"}
    [] n = 13 -> {"make_tokens"}
    [] n = 17 -> {"register"}
    [] OTHER -> LateCommands

HostInv == {"tokens", "admin", "account", "worker"} \subseteq DOMAIN host
RunInv ==
  /\ {"state", "step", "at", "todo", "restoring"} \subseteq DOMAIN run
  /\ run.step \in 1 .. 27
  /\ run.at # "fix" => run.todo = <<>>
  /\ run.todo \in Seq(CommandsAt(run.step))

(* A computer that is being set up: as a new one, or after a rebuild. *)
SetUp == marker = "restored" \/ (marker = "none" /\ host.tokens = "new")
Made == {host.tokens, host.admin, host.account}
MadeInv ==
  /\ marker \in {"none", "started", "restored"}
  /\ marker = "none" => Made \subseteq {"none", "new"}
  /\ marker = "started" => Made \subseteq {"none", "old"} /\ run.step < 13
  /\ marker = "restored" => Made = {"old"}
  /\ marker = "restored" /\ run.todo # <<>> => run.step \notin {12, 13, 17}
  /\ run.step > 13 => host.tokens # "none"
  /\ host.worker # 0 => SetUp

Kinds == {"clear", "look", "begin", "own", "fill", "seal", "mark"}
FilesInv == files \in [TargetSet -> Content]
PlanInv ==
  /\ inPlace \in BOOLEAN
  /\ todo \in Seq(Kinds \X (TargetSet \cup {"all"}))
  /\ Len(todo) <= Len(Plan)
  /\ \A i \in 1 .. Len(todo) : todo[i] = Plan[Len(Plan) - Len(todo) + i]
  /\ todo # <<>> => Restoring
StepsToGo == Len(Plan) - 3
LeftInv ==
  todo # <<>> =>
    /\ Len(todo) <= StepsToGo => marker = "started"
    /\ Len(todo) = StepsToGo + 1 => "new" \notin Made
    /\ Len(todo) < 9 => host.tokens = "old"
    /\ Len(todo) < 6 => host.admin = "old"
    /\ Len(todo) < 3 => host.account = "old"
    /\ Len(todo) \in 9 .. 14 => files["staging"] = "whole"
    /\ Head(todo)[1] = "fill" => files[Target] = "absent"
    /\ marker # "restored"

JobStates == {"queued", "running", "succeeded", "failed"}
JobType == [action : {"install", "verify"}, state : JobStates, actor : {"bootstrap", "owner"},
            identity : BOOLEAN, after : BOOLEAN]
JobsInv ==
  /\ jobs \in Seq(JobType)
  /\ job \in 0 .. Len(jobs)
  /\ \A m, n \in Pending : m = n
  /\ job # 0 => job \in Pending /\ SetUp
StartedInv ==
  /\ starts \in [Apps -> {0, 1}]
  /\ (\E a \in Apps : starts[a] = 1) => marker = "restored" /\ CoreDone
  /\ noted \subseteq {a \in Apps : starts[a] = 1}

IInv == HostInv /\ RunInv /\ MadeInv /\ FilesInv /\ PlanInv /\ LeftInv /\ JobsInv /\ StartedInv

(* The steps, in their order. *)
LEMMA StepsAre ==
  /\ Len(Steps) = 27 /\ DOMAIN Steps = 1 .. 27
  /\ Steps[6] = "docker" /\ Steps[7] = "docker_address_pools" /\ Steps[8] = "docker_networks"
  /\ Steps[9] = "nvidia_toolkit" /\ Steps[10] = "dashboard_build" /\ Steps[11] = "runtime_layout"
  /\ Steps[12] = "restore_backup" /\ Steps[13] = "root_env" /\ Steps[17] = "vaultwarden_setup"
  /\ \A n \in 1 .. 27 : (Steps[n] = "restore_backup" => n = 12) /\ (Steps[n] = "root_env" => n = 13)
                        /\ (Steps[n] = "vaultwarden_setup" => n = 17)
BY DEF Steps

LEMMA GroupsAre == At("docker") = 6 /\ At("nvidia_toolkit") = 9
<1>1. \A n \in 1 .. 27 : Steps[n] = "docker" <=> n = 6
  BY DEF Steps
<1>2. \A n \in 1 .. 27 : Steps[n] = "nvidia_toolkit" <=> n = 9
  BY DEF Steps
<1>3. At("docker") = CHOOSE n \in 1 .. 27 : Steps[n] = "docker"
  BY StepsAre DEF At
<1>4. At("nvidia_toolkit") = CHOOSE n \in 1 .. 27 : Steps[n] = "nvidia_toolkit"
  BY StepsAre DEF At
<1> QED BY <1>1, <1>2, <1>3, <1>4

(* What the checks of the rebuild's step, of the secrets and of the vault's account
   report. *)
LEMMA ChecksAre ==
  ASSUME NEW restored
  PROVE  /\ StateOf("restore_backup", restored) = restored
         /\ StateOf("root_env", restored) = EnvState
         /\ StateOf("vaultwarden_setup", restored) = AccountState
<1>1. StateOf("restore_backup", restored) = restored
  BY DEF StateOf
<1>2. StateOf("root_env", restored) = EnvState
  BY DEF StateOf
<1>3. StateOf("vaultwarden_setup", restored) = AccountState
  BY DEF StateOf
<1> QED BY <1>1, <1>2, <1>3

(* The commands a step's fix starts with are commands of that step. *)
LEMMA FixesAre ==
  ASSUME NEW n \in 1 .. 27, NEW state
  PROVE  FixOf(Steps[n], state) \in Seq(CommandsAt(n))
<1> DEFINE C == CommandsAt(n)  F == FixOf(Steps[n], state)
<1>1. CASE n < 6
  <2>1. C = {"report", "repair_keys", "apt_update", "apt_base", "tailscale_key", "tailscale_source",
             "apt_tailscale", "start_tailscale", "set_operator", "tailscale_up"}
    BY <1>1 DEF CommandsAt
  <2> HIDE DEF C
  <2>2. Steps[n] \in {"host_supported", "host_base", "tailscale_pkg", "tailscale_operator", "tailscale_join"}
    BY <1>1 DEF Steps
  <2>3. F \in {<<"report">>, FixBase, FixTailscale(state), FixOperator, FixJoin}
    BY <2>2 DEF FixOf
  <2>4. <<"report">> \in Seq(C) /\ FixBase \in Seq(C) /\ FixOperator \in Seq(C) /\ FixJoin \in Seq(C)
    BY <2>1 DEF FixBase, FixOperator, FixJoin
  <2>5. <<"start_tailscale">> \in Seq(C) /\ <<>> \in Seq(C)
        /\ <<"repair_keys", "tailscale_key", "tailscale_source", "apt_update", "apt_tailscale">> \in Seq(C)
    BY <2>1
  <2>6. FixTailscale(state) \in Seq(C)
    <3>1. CASE state = "absent"
      BY <2>5, <3>1 DEF FixTailscale
    <3>2. CASE state # "absent"
      BY <2>5, <3>2 DEF FixTailscale
    <3> QED BY <3>1, <3>2
  <2> QED BY <2>3, <2>4, <2>6 DEF C
<1>2. CASE n \in 6 .. 9
  <2>1. C = DockerCommands
    BY <1>2 DEF CommandsAt
  <2> HIDE DEF C
  <2>2. Steps[n] \in {"docker", "docker_address_pools", "docker_networks", "nvidia_toolkit"}
    BY <1>2 DEF Steps
  <2>3. F \in {FixDocker(state), FixPools, FixNetworks, FixGpu}
    BY <2>2 DEF FixOf
  <2>4. Membership \in Seq(C)
    <3>1. <<"docker_group", "restart_docker", "usermod">> \in Seq(C) /\ <<"usermod">> \in Seq(C)
      BY <2>1 DEF DockerCommands
    <3> QED BY <3>1 DEF Membership
  <2>5. FixDocker(state) \in Seq(C)
    <3> DEFINE Packages(s) == s \in Seq(C) /\ FixDocker(state) = s \o Membership
    <3>1. state = "absent" => Packages(<<"repair_keys", "docker_key", "docker_source", "apt_update",
                                         "apt_docker", "start_docker">>)
      BY <2>1 DEF FixDocker, DockerCommands
    <3>2. state = "daemon_down" => Packages(<<"start_docker">>)
      BY <2>1 DEF FixDocker, DockerCommands
    <3>3. state = "old_engine" => Packages(<<"repair_keys", "apt_update", "apt_docker">>)
      BY <2>1 DEF FixDocker, DockerCommands
    <3>4. state = "no_compose" => Packages(<<"apt_compose">>)
      BY <2>1 DEF FixDocker, DockerCommands
    <3>5. state \notin {"absent", "daemon_down", "old_engine", "no_compose"} => Packages(<<>>)
      <4>1. <<>> \in Seq(C)
        OBVIOUS
      <4> QED BY <4>1, Zenon DEF FixDocker
    <3>6. \A s : Packages(s) => FixDocker(state) \in Seq(C)
      BY <2>4
    <3> HIDE DEF Packages
    <3> QED BY <3>1, <3>2, <3>3, <3>4, <3>5, <3>6
  <2>6. FixPools \in Seq(C) /\ FixNetworks \in Seq(C) /\ FixGpu \in Seq(C)
    BY <2>1 DEF FixPools, FixNetworks, FixGpu, DockerCommands
  <2> QED BY <2>3, <2>5, <2>6 DEF C
<1>3. CASE n \in 10 .. 12
  <2>1. C = {"build", "make_layout", "restore", "report"}
    BY <1>3 DEF CommandsAt
  <2> HIDE DEF C
  <2>2. Steps[n] \in {"dashboard_build", "runtime_layout", "restore_backup"}
    BY <1>3 DEF Steps
  <2>3. F \in {FixBuild, FixLayout, <<"restore">>, <<"report">>}
    BY <2>2 DEF FixOf
  <2>4. FixBuild \in Seq(C) /\ FixLayout \in Seq(C) /\ <<"restore">> \in Seq(C) /\ <<"report">> \in Seq(C)
    BY <2>1 DEF FixBuild, FixLayout
  <2> QED BY <2>3, <2>4 DEF C
<1>4. CASE n = 13
  <2>1. C = {"make_tokens"}
    BY <1>4 DEF CommandsAt
  <2> HIDE DEF C
  <2>2. F = FixTokens
    BY <1>4, StepsAre DEF FixOf
  <2>3. FixTokens \in Seq(C)
    BY <2>1 DEF FixTokens
  <2> QED BY <2>2, <2>3 DEF C
<1>5. CASE n = 17
  <2>1. C = {"register"}
    BY <1>5 DEF CommandsAt
  <2> HIDE DEF C
  <2>2. F = FixAccount
    BY <1>5, StepsAre DEF FixOf
  <2>3. FixAccount \in Seq(C)
    BY <2>1 DEF FixAccount
  <2> QED BY <2>2, <2>3 DEF C
<1>6. CASE n \in (14 .. 16) \cup (18 .. 27)
  <2>1. C = LateCommands
    BY <1>6 DEF CommandsAt
  <2> HIDE DEF C
  <2>2. Steps[n] \in {"service", "caddy", "vaultwarden"} \cup
          {"vaultwarden_serve", "browser_extension", "authentik", "authentik_serve", "tailnet_relay",
           "lobehub_serve", "authentik_setup", "dashboard_protection", "serve", "core_images"}
    BY <1>6 DEF Steps
  <2>3. F \in {FixService, FixCaddy, FixVault, FixVaultRoute, FixExtension, FixAuthentik,
               <<"serve_authentik">>, FixRelay, <<"serve_lobehub">>, FixAuthentikSetup,
               FixProtection, <<"serve_dashboard">>, FixImages}
    BY <2>2 DEF FixOf
  <2>4. FixService \in Seq(C) /\ FixCaddy \in Seq(C) /\ FixVault \in Seq(C) /\ FixVaultRoute \in Seq(C)
    BY <2>1 DEF FixService, FixCaddy, FixVault, FixVaultRoute, LateCommands
  <2>5. FixExtension \in Seq(C) /\ FixAuthentik \in Seq(C) /\ <<"serve_authentik">> \in Seq(C)
        /\ FixRelay \in Seq(C) /\ <<"serve_lobehub">> \in Seq(C) /\ FixAuthentikSetup \in Seq(C)
    BY <2>1 DEF FixExtension, FixAuthentik, FixRelay, FixAuthentikSetup, LateCommands
  <2>6. FixProtection \in Seq(C) /\ <<"serve_dashboard">> \in Seq(C) /\ FixImages \in Seq(C)
    BY <2>1 DEF FixProtection, FixImages, LateCommands
  <2> QED BY <2>3, <2>4, <2>5, <2>6 DEF C
<1> QED BY <1>1, <1>2, <1>3, <1>4, <1>5, <1>6

(* What the commands of a step may change of the secrets, the accounts and the worker. *)
Kept(h) == h.tokens = host.tokens /\ h.admin = host.admin /\ h.account = host.account /\ h.worker = host.worker
Whole(h) == {"tokens", "admin", "account", "worker"} \subseteq DOMAIN h

LEMMA CommandsKeep ==
  ASSUME HostInv, run.step \in 1 .. 27, NEW c \in CommandsAt(run.step)
  PROVE  /\ Whole(After(c))
         /\ run.step < 13 => Kept(After(c))
         /\ run.step = 13 => After(c) = [host EXCEPT !.tokens = "new"]
         /\ run.step = 17 => After(c) = [host EXCEPT !.account = "new"]
         /\ run.step > 13 /\ run.step # 17 =>
              /\ After(c).tokens = host.tokens /\ After(c).account = host.account
              /\ After(c).admin = host.admin \/ (host.admin = "none" /\ After(c).admin = "new")
<1>1. CASE run.step < 6
  <2>1. c \in {"report", "repair_keys", "apt_update", "apt_base", "tailscale_key", "tailscale_source",
               "apt_tailscale", "start_tailscale", "set_operator", "tailscale_up"}
    BY <1>1 DEF CommandsAt
  <2>2. After(c) = PackagesAfter(c)
    BY <1>1, GroupsAre DEF After
  <2>3. Whole(PackagesAfter(c)) /\ Kept(PackagesAfter(c))
    BY <2>1 DEF PackagesAfter, Signs, Lists, HostInv, Whole, Kept
  <2> QED BY <1>1, <2>2, <2>3
<1>2. CASE run.step \in 6 .. 9
  <2>1. c \in DockerCommands
    BY <1>2 DEF CommandsAt
  <2>2. CASE c \in {"repair_keys", "apt_update", "docker_key", "docker_source", "nvidia_key", "nvidia_source"}
    <3>1. After(c) = PackagesAfter(c)
      BY <1>2, <2>2, GroupsAre DEF After
    <3>2. Whole(PackagesAfter(c)) /\ Kept(PackagesAfter(c))
      BY <2>2 DEF PackagesAfter, Signs, Lists, HostInv, Whole, Kept
    <3> QED BY <1>2, <3>1, <3>2
  <2>3. CASE c \in {"apt_docker", "apt_compose", "start_docker", "restart_docker", "docker_group", "usermod",
                    "write_pools", "create_networks", "apt_nvidia", "nvidia_ctk"}
    <3>1. After(c) = DockerAfter(c)
      BY <1>2, <2>3, GroupsAre DEF After
    <3>2. Whole(Restarted) /\ Kept(Restarted)
      BY DEF Restarted, HostInv, Whole, Kept
    <3>3. CASE c \in {"start_docker", "restart_docker"}
      BY <1>2, <3>1, <3>2, <3>3 DEF DockerAfter
    <3>4. ASSUME NEW f \in {"group", "engine", "pools", "nets", "toolkit", "runtime"}, NEW v
          PROVE  Whole([host EXCEPT ![f] = v]) /\ Kept([host EXCEPT ![f] = v])
      BY DEF HostInv, Whole, Kept
    <3>5. CASE c = "apt_docker"
      <4>1. DockerAfter(c) = [host EXCEPT !.group = IF @ = "absent" THEN "none" ELSE @,
                                          !.engine = IF @ = "absent" THEN "daemon_down" ELSE "up"]
        BY <3>5 DEF DockerAfter
      <4>2. Whole(DockerAfter(c)) /\ Kept(DockerAfter(c))
        BY <4>1 DEF HostInv, Whole, Kept
      <4> QED BY <1>2, <3>1, <4>2
    <3>6. CASE c # "apt_docker" /\ c \notin {"start_docker", "restart_docker"}
      <4>1. PICK f \in {"group", "engine", "pools", "nets", "toolkit", "runtime"} :
              \E v : DockerAfter(c) = [host EXCEPT ![f] = v]
        BY <2>3, <3>6 DEF DockerAfter
      <4>2. Whole(DockerAfter(c)) /\ Kept(DockerAfter(c))
        BY <3>4, <4>1
      <4> QED BY <1>2, <3>1, <4>2
    <3> QED BY <3>3, <3>5, <3>6
  <2> QED BY <2>1, <2>2, <2>3 DEF DockerCommands
<1>3. CASE run.step \in 10 .. 12
  <2>1. c \in {"build", "make_layout", "restore", "report"}
    BY <1>3 DEF CommandsAt
  <2>2. CASE c \in {"build", "make_layout"}
    <3>1. After(c) = ServiceAfter(c)
      BY <1>3, <2>2, GroupsAre DEF After
    <3> QED BY <1>3, <2>2, <3>1 DEF ServiceAfter, HostInv, Whole, Kept
  <2>3. CASE c \in {"restore", "report"}
    <3>1. After(c) = AppsAfter(c)
      BY <1>3, <2>3, GroupsAre DEF After
    <3>2. AppsAfter(c) = host
      BY <2>3 DEF AppsAfter
    <3> QED BY <1>3, <3>1, <3>2 DEF HostInv, Whole, Kept
  <2> QED BY <2>1, <2>2, <2>3
<1>4. CASE run.step = 13
  <2>1. c = "make_tokens"
    BY <1>4 DEF CommandsAt
  <2>2. After(c) = ServiceAfter(c)
    BY <1>4, <2>1, GroupsAre DEF After
  <2>3. ServiceAfter(c) = [host EXCEPT !.tokens = "new"]
    BY <2>1 DEF ServiceAfter
  <2> QED BY <1>4, <2>2, <2>3 DEF HostInv, Whole
<1>5. CASE run.step = 17
  <2>1. c = "register"
    BY <1>5 DEF CommandsAt
  <2>2. After(c) = AppsAfter(c)
    BY <1>5, <2>1, GroupsAre DEF After
  <2>3. AppsAfter(c) = [host EXCEPT !.account = "new"]
    BY <2>1 DEF AppsAfter
  <2> QED BY <1>5, <2>2, <2>3 DEF HostInv, Whole
<1>6. CASE run.step \in (14 .. 16) \cup (18 .. 27)
  <2> DEFINE Good(h) == /\ Whole(h) /\ h.tokens = host.tokens /\ h.account = host.account
                        /\ h.admin = host.admin \/ (host.admin = "none" /\ h.admin = "new")
  <2>1. c \in LateCommands
    BY <1>6 DEF CommandsAt
  <2>2. CASE c \in {"safe_config", "caddy_up", "await_caddy", "sync_gate", "write_gate", "write_target",
                    "gate_up", "await_gate"}
    <3>1. After(c) = IngressAfter(c)
      BY <1>6, <2>2, GroupsAre DEF After
    <3>2. Good(IngressAfter(c))
      BY <2>2 DEF IngressAfter, HostInv, Whole
    <3> QED BY <1>6, <3>1, <3>2
  <2>3. CASE c \in {"write_units", "restart_ctl", "restart_worker", "await_health"}
    <3>1. After(c) = ServiceAfter(c)
      BY <1>6, <2>3, GroupsAre DEF After
    <3>2. Good(ServiceAfter(c))
      BY <2>3 DEF ServiceAfter, HostInv, Whole
    <3> QED BY <1>6, <3>1, <3>2
  <2>4. CASE c = "pull_images"
    <3>1. After(c) = DockerAfter(c)
      BY <1>6, <2>4, GroupsAre DEF After
    <3>2. Good(DockerAfter(c))
      BY <2>4 DEF DockerAfter, HostInv, Whole
    <3> QED BY <1>6, <3>1, <3>2
  <2>5. CASE c \in {"render_vault", "vault_up", "vault_private_url", "serve_vault", "write_policy",
                    "authentik_env", "authentik_up", "serve_authentik", "relay_up", "serve_lobehub",
                    "await_defaults", "clear_hash", "serve_dashboard"}
    <3>1. After(c) = AppsAfter(c)
      BY <1>6, <2>5, GroupsAre DEF After
    <3>2. CASE c = "authentik_up"
      <4>1. AppsAfter(c) = [host EXCEPT !.authentik = TRUE, !.admin = IF @ = "none" THEN "new" ELSE @]
        BY <3>2 DEF AppsAfter
      <4>2. Good(AppsAfter(c))
        BY <4>1 DEF HostInv, Whole
      <4> QED BY <1>6, <3>1, <4>2
    <3>3. CASE c # "authentik_up"
      <4>1. Good(AppsAfter(c))
        BY <2>5, <3>3 DEF AppsAfter, Serves, HostInv, Whole
      <4> QED BY <1>6, <3>1, <4>1
    <3> QED BY <3>2, <3>3
  <2> QED BY <2>1, <2>2, <2>3, <2>4, <2>5 DEF LateCommands
<1> QED BY <1>1, <1>2, <1>3, <1>4, <1>5, <1>6

(* A set of naturals has a least element. *)
LEMMA Least ==
  ASSUME NEW T, T \subseteq Nat, T # {}
  PROVE  \E n \in T : \A m \in T : n <= m
<1> DEFINE R == StrictSubsetOrdering(Nat)
<1> DEFINE I == {0 .. n : n \in T}
<1>1. IsWellFoundedOn(R, FiniteSubsetsOf(Nat))
  BY FS_StrictSubsetOrderingWellFounded
<1>2. I \subseteq FiniteSubsetsOf(Nat)
  <2>1. \A n \in Nat : IsFiniteSet(0 .. n) BY FS_Interval
  <2> QED BY <2>1 DEF FiniteSubsetsOf
<1>3. I # {}
  OBVIOUS
<1>4. \A m, n \in Nat : m < n => <<0 .. m, 0 .. n>> \in R
  <2> TAKE m, n \in Nat
  <2>1. HAVE m < n
  <2>2. 0 .. m \in SUBSET Nat /\ 0 .. n \in SUBSET Nat /\ 0 .. m \subseteq 0 .. n
    BY <2>1
  <2>3. n \in 0 .. n /\ n \notin 0 .. m
    BY <2>1
  <2> QED BY <2>2, <2>3 DEF StrictSubsetOrdering
<1> HIDE DEF R
<1>5. \E x \in I : \A y \in I : ~ (<<y, x>> \in R)
  <2> HIDE DEF I
  <2> QED BY <1>1, <1>2, <1>3, WFMin
<1>6. PICK n \in T : \A m \in T : ~ (<<0 .. m, 0 .. n>> \in R)
  BY <1>5
<1>7. ASSUME NEW m \in T, m < n PROVE FALSE
  <2>1. m \in Nat /\ n \in Nat
    OBVIOUS
  <2>2. <<0 .. m, 0 .. n>> \in R
    BY <1>4, <1>7, <2>1
  <2> QED BY <1>6, <2>2
<1>8. n \in Nat /\ \A m \in T : m \in Nat
  OBVIOUS
<1> QED BY <1>7, <1>8

(* The step the engine stops at next: every step before it is skipped. *)
LEMMA NextStop ==
  ASSUME run.step \in 1 .. 27, NEW restored, Stops(restored) # {}
  PROVE  /\ Min(Stops(restored)) \in run.step .. 27
         /\ \A n \in run.step .. 27 : n < Min(Stops(restored)) => Skipped(Steps[n], StateOf(Steps[n], restored))
<1> DEFINE S == Stops(restored)
<1>1. S \subseteq run.step .. 27
  BY StepsAre DEF Stops
<1>2. S \subseteq Nat
  BY <1>1
<1>4. \E x \in S : \A y \in S : x <= y
  <2> HIDE DEF S
  <2> QED BY <1>2, Least DEF S
<1>5. Min(S) = CHOOSE m \in S : \A y \in S : m <= y
  BY DEF Min
<1>6. Min(S) \in S /\ \A y \in S : Min(S) <= y
  BY <1>4, <1>5
<1>7. \A n \in run.step .. 27 : n < Min(S) => n \notin S
  BY <1>1, <1>6
<1>8. \A n \in run.step .. 27 : n \notin S => Skipped(Steps[n], StateOf(Steps[n], restored))
  BY StepsAre DEF Stops
<1> HIDE DEF S
<1>9. Min(S) \in run.step .. 27
  BY <1>1, <1>6
<1> QED BY <1>7, <1>8, <1>9 DEF S

(* The plan of a rebuild, counted from its end: what is next when n steps are left. *)
NextToDo(n) == Plan[Len(Plan) + 1 - n]

LEMMA TargetsAre ==
  TargetSet = {"copy", "kopia", "staging", "projects", "control", "identity", "vault"}
BY DEF TargetSet, Targets, ToSet

LEMMA TakenIs ==
  ASSUME inPlace \in BOOLEAN
  PROVE  /\ Len(Taken) \in {6, 7} /\ Taken \in Seq(TargetSet)
         /\ Taken[Len(Taken)] = "vault" /\ Taken[Len(Taken) - 1] = "identity"
         /\ Taken[Len(Taken) - 2] = "control" /\ Taken[Len(Taken) - 3] = "projects"
         /\ Taken[Len(Taken) - 4] = "staging"
         /\ \A i \in 1 .. Len(Taken) - 5 : Taken[i] \in {"copy", "kopia"}
<1>1. CASE inPlace
  <2>1. Taken = <<"kopia", "staging", "projects", "control", "identity", "vault">>
    BY <1>1 DEF Taken, Targets
  <2> QED BY <2>1, TargetsAre
<1>2. CASE ~inPlace
  <2>1. Taken = <<"copy", "kopia", "staging", "projects", "control", "identity", "vault">>
    BY <1>2 DEF Taken, Targets
  <2> QED BY <2>1, TargetsAre
<1> QED BY <1>1, <1>2

LEMMA TakingIs ==
  ASSUME inPlace \in BOOLEAN
  PROVE  /\ Taking \in Seq({"own", "fill", "seal"} \X TargetSet) /\ Len(Taking) = 3 * Len(Taken)
         /\ \A i \in 1 .. Len(Taken) :
              /\ Taking[3 * i - 2] = <<"own", Taken[i]>>
              /\ Taking[3 * i - 1] = <<"fill", Taken[i]>>
              /\ Taking[3 * i] = <<"seal", Taken[i]>>
<1> DEFINE n == Len(Taken)  K == <<"own", "fill", "seal">>
<1>1. n \in {6, 7} /\ \A i \in 1 .. n : Taken[i] \in TargetSet
  BY TakenIs
<1>2. Taking = [m \in 1 .. 3 * n |-> <<K[((m - 1) % 3) + 1], Taken[((m - 1) \div 3) + 1]>>]
  BY DEF Taking
<1>3. K[1] = "own" /\ K[2] = "fill" /\ K[3] = "seal"
  OBVIOUS
<1> HIDE DEF n, K
<1>4. \A i \in 1 .. n : /\ 3 * i - 2 \in 1 .. 3 * n /\ (3 * i - 3) % 3 = 0 /\ (3 * i - 3) \div 3 = i - 1
                        /\ 3 * i - 1 \in 1 .. 3 * n /\ (3 * i - 2) % 3 = 1 /\ (3 * i - 2) \div 3 = i - 1
                        /\ 3 * i \in 1 .. 3 * n /\ (3 * i - 1) % 3 = 2 /\ (3 * i - 1) \div 3 = i - 1
  BY <1>1
<1>5. \A m \in 1 .. 3 * n : ((m - 1) % 3) + 1 \in {1, 2, 3} /\ ((m - 1) \div 3) + 1 \in 1 .. n
  BY <1>1
<1>6. ASSUME NEW i \in 1 .. n
      PROVE  /\ Taking[3 * i - 2] = <<"own", Taken[i]>>
             /\ Taking[3 * i - 1] = <<"fill", Taken[i]>>
             /\ Taking[3 * i] = <<"seal", Taken[i]>>
  <2>1. \A m \in 1 .. 3 * n : Taking[m] = <<K[((m - 1) % 3) + 1], Taken[((m - 1) \div 3) + 1]>>
    BY <1>2
  <2>2. /\ (3 * i - 2) - 1 = 3 * i - 3 /\ (3 * i - 1) - 1 = 3 * i - 2
        /\ 0 + 1 = 1 /\ 1 + 1 = 2 /\ 2 + 1 = 3 /\ (i - 1) + 1 = i
    BY <1>1
  <2>3. Taking[3 * i - 2] = <<K[((3 * i - 3) % 3) + 1], Taken[((3 * i - 3) \div 3) + 1]>>
    BY <1>4, <2>1, <2>2
  <2>4. Taking[3 * i - 1] = <<K[((3 * i - 2) % 3) + 1], Taken[((3 * i - 2) \div 3) + 1]>>
    BY <1>4, <2>1, <2>2
  <2>5. Taking[3 * i] = <<K[((3 * i - 1) % 3) + 1], Taken[((3 * i - 1) \div 3) + 1]>>
    BY <1>4, <2>1
  <2> QED BY <1>3, <1>4, <2>2, <2>3, <2>4, <2>5
<1>7. Taking \in [1 .. 3 * n -> {"own", "fill", "seal"} \X TargetSet]
  BY <1>1, <1>2, <1>3, <1>5
<1>8. Taking \in Seq({"own", "fill", "seal"} \X TargetSet) /\ Len(Taking) = 3 * n
  BY <1>1, <1>7
<1> QED BY <1>6, <1>8 DEF n

(* What is left when n steps are: the folders in their order, each owned, filled
   and sealed, then the mark. *)
LEMMA PlanIs ==
  ASSUME inPlace \in BOOLEAN
  PROVE  /\ Plan \in Seq(Kinds \X (TargetSet \cup {"all"})) /\ Len(Plan) = 3 * Len(Taken) + 4
         /\ NextToDo(StepsToGo + 3)[1] = "clear" /\ NextToDo(StepsToGo + 2)[1] = "look"
         /\ NextToDo(StepsToGo + 1)[1] = "begin" /\ NextToDo(1)[1] = "mark"
         /\ \A i \in 1 .. Len(Taken) :
              /\ NextToDo(3 * (Len(Taken) - i) + 4) = <<"own", Taken[i]>>
              /\ NextToDo(3 * (Len(Taken) - i) + 3) = <<"fill", Taken[i]>>
              /\ NextToDo(3 * (Len(Taken) - i) + 2) = <<"seal", Taken[i]>>
<1> DEFINE n == Len(Taken)
           A == <<<<"clear", "all">>, <<"look", "all">>, <<"begin", "all">>>>
           Z == <<<<"mark", "all">>>>
           P == Kinds \X (TargetSet \cup {"all"})
<1>1. n \in {6, 7} /\ Taking \in Seq({"own", "fill", "seal"} \X TargetSet) /\ Len(Taking) = 3 * n
  BY TakenIs, TakingIs
<1>2. {"own", "fill", "seal"} \subseteq Kinds
  BY DEF Kinds
<1>3. Taking \in Seq(P)
  <2>1. \A p \in {"own", "fill", "seal"} \X TargetSet : p \in P
    BY <1>2
  <2>2. Taking \in [1 .. 3 * n -> {"own", "fill", "seal"} \X TargetSet]
    BY <1>1
  <2>3. Taking \in [1 .. 3 * n -> P]
    <3> HIDE DEF P
    <3> QED BY <2>1, <2>2
  <2> QED BY <1>1, <2>3
<1>4. A \in Seq(P) /\ Z \in Seq(P) /\ Len(A) = 3 /\ Len(Z) = 1
      /\ A[1][1] = "clear" /\ A[2][1] = "look" /\ A[3][1] = "begin" /\ Z[1][1] = "mark"
  <2>1. <<"clear", "all">> \in P /\ <<"look", "all">> \in P /\ <<"begin", "all">> \in P /\ <<"mark", "all">> \in P
    BY DEF Kinds
  <2> HIDE DEF P
  <2> QED BY <2>1
<1>5. Plan = (A \o Taking) \o Z
  BY DEF Plan
<1> HIDE DEF n, A, Z, P
<1>6. A \o Taking \in Seq(P) /\ Len(A \o Taking) = 3 * n + 3
      /\ (\A m \in 1 .. 3 : (A \o Taking)[m] = A[m])
      /\ (\A m \in 1 .. 3 * n : (A \o Taking)[m + 3] = Taking[m])
  <2>1. /\ A \o Taking \in Seq(P) /\ Len(A \o Taking) = Len(A) + Len(Taking)
        /\ \A m \in 1 .. Len(A) + Len(Taking) :
             (A \o Taking)[m] = IF m <= Len(A) THEN A[m] ELSE Taking[m - Len(A)]
    BY ONLY <1>3, <1>4, ConcatProperties
  <2>2. \A m \in 1 .. 3 + 3 * n : (A \o Taking)[m] = IF m <= 3 THEN A[m] ELSE Taking[m - 3]
    BY <1>1, <1>4, <2>1
  <2>3. \A m \in 1 .. 3 * n : m + 3 \in 1 .. 3 + 3 * n /\ ~(m + 3 <= 3) /\ (m + 3) - 3 = m
    BY <1>1
  <2>4. \A m \in 1 .. 3 * n : (A \o Taking)[m + 3] = Taking[m]
    BY <2>2, <2>3
  <2>5. \A m \in 1 .. 3 : m \in 1 .. 3 + 3 * n /\ m <= 3
    BY <1>1
  <2>6. \A m \in 1 .. 3 : (A \o Taking)[m] = A[m]
    BY <2>2, <2>5
  <2>7. Len(A \o Taking) = 3 * n + 3
    BY <1>1, <1>4, <2>1
  <2> QED BY <2>1, <2>4, <2>6, <2>7
<1>7. Plan \in Seq(P) /\ Len(Plan) = 3 * n + 4
      /\ (\A m \in 1 .. 3 * n + 3 : Plan[m] = (A \o Taking)[m]) /\ Plan[3 * n + 4] = Z[1]
  <2> DEFINE B == A \o Taking
  <2>1. B \in Seq(P) /\ Len(B) = 3 * n + 3
    BY <1>6
  <2> HIDE DEF B
  <2>2. /\ B \o Z \in Seq(P) /\ Len(B \o Z) = Len(B) + Len(Z)
        /\ \A m \in 1 .. Len(B) + Len(Z) : (B \o Z)[m] = IF m <= Len(B) THEN B[m] ELSE Z[m - Len(B)]
    BY ONLY <1>4, <2>1, ConcatProperties
  <2> QED BY <1>1, <1>4, <1>5, <2>1, <2>2 DEF B
<1>8. Plan[1] = A[1] /\ Plan[2] = A[2] /\ Plan[3] = A[3] /\ \A m \in 1 .. 3 * n : Plan[m + 3] = Taking[m]
  <2>1. \A m \in 1 .. 3 * n : m + 3 \in 1 .. 3 * n + 3
    BY <1>1
  <2>2. 1 \in 1 .. 3 * n + 3 /\ 2 \in 1 .. 3 * n + 3 /\ 3 \in 1 .. 3 * n + 3
    BY <1>1
  <2>3. /\ \A m \in 1 .. 3 * n + 3 : Plan[m] = (A \o Taking)[m]
        /\ \A m \in 1 .. 3 : (A \o Taking)[m] = A[m]
        /\ \A m \in 1 .. 3 * n : (A \o Taking)[m + 3] = Taking[m]
    BY <1>6, <1>7
  <2>4. 1 \in 1 .. 3 /\ 2 \in 1 .. 3 /\ 3 \in 1 .. 3
    OBVIOUS
  <2>5. Plan[1] = A[1] /\ Plan[2] = A[2] /\ Plan[3] = A[3]
    <3> HIDE DEF A
    <3>1. Plan[1] = (A \o Taking)[1] /\ Plan[2] = (A \o Taking)[2] /\ Plan[3] = (A \o Taking)[3]
      BY <2>2, <2>3
    <3>2. (A \o Taking)[1] = A[1] /\ (A \o Taking)[2] = A[2] /\ (A \o Taking)[3] = A[3]
      BY <2>3, <2>4
    <3> QED BY ONLY <3>1, <3>2
  <2>6. \A m \in 1 .. 3 * n : Plan[m + 3] = Taking[m]
    BY ONLY <2>1, <2>3
  <2> QED BY <2>5, <2>6
<1>9. NextToDo(StepsToGo + 3) = Plan[1] /\ NextToDo(StepsToGo + 2) = Plan[2]
      /\ NextToDo(StepsToGo + 1) = Plan[3] /\ NextToDo(1) = Plan[3 * n + 4]
  BY <1>1, <1>7 DEF NextToDo, StepsToGo
<1>10. ASSUME NEW i \in 1 .. n
       PROVE  /\ NextToDo(3 * (n - i) + 4) = <<"own", Taken[i]>>
              /\ NextToDo(3 * (n - i) + 3) = <<"fill", Taken[i]>>
              /\ NextToDo(3 * (n - i) + 2) = <<"seal", Taken[i]>>
  <2>1. /\ 3 * n + 4 + 1 - (3 * (n - i) + 4) = (3 * i - 2) + 3 /\ 3 * i - 2 \in 1 .. 3 * n
        /\ 3 * n + 4 + 1 - (3 * (n - i) + 3) = (3 * i - 1) + 3 /\ 3 * i - 1 \in 1 .. 3 * n
        /\ 3 * n + 4 + 1 - (3 * (n - i) + 2) = 3 * i + 3 /\ 3 * i \in 1 .. 3 * n
    BY <1>1
  <2>2. NextToDo(3 * (n - i) + 4) = Taking[3 * i - 2]
    BY <1>7, <1>8, <2>1 DEF NextToDo
  <2>3. NextToDo(3 * (n - i) + 3) = Taking[3 * i - 1]
    BY <1>7, <1>8, <2>1 DEF NextToDo
  <2>4. NextToDo(3 * (n - i) + 2) = Taking[3 * i]
    BY <1>7, <1>8, <2>1 DEF NextToDo
  <2> QED BY <2>2, <2>3, <2>4, <1>10, TakingIs DEF n
<1> QED BY <1>4, <1>7, <1>8, <1>9, <1>10 DEF n, P

(* The steps the invariant tells apart, and what follows what. *)
LEMMA OrderIs ==
  ASSUME inPlace \in BOOLEAN, NEW n \in 1 .. Len(Plan)
  PROVE  /\ StepsToGo \in {19, 22} /\ Len(Plan) = StepsToGo + 3
         /\ n = StepsToGo + 3 => NextToDo(n)[1] = "clear"
         /\ n = StepsToGo + 2 => NextToDo(n)[1] = "look"
         /\ n = StepsToGo + 1 => NextToDo(n)[1] = "begin"
         /\ n = 1 => NextToDo(n)[1] = "mark"
         /\ n = StepsToGo => NextToDo(n)[1] = "own"
         /\ n \in 2 .. StepsToGo =>
              /\ NextToDo(n)[1] \in {"own", "fill", "seal"} /\ NextToDo(n)[2] \in TargetSet
              /\ NextToDo(n)[1] = "own" => n > 2 /\ NextToDo(n - 1) = <<"fill", NextToDo(n)[2]>>
              /\ NextToDo(n)[1] = "fill" => NextToDo(n - 1)[1] = "seal" /\ n > 2
              /\ NextToDo(n)[1] = "seal" => NextToDo(n - 1)[1] \in {"own", "mark"}
         /\ NextToDo(n) = <<"fill", "vault">> <=> n = 3
         /\ NextToDo(n) = <<"fill", "identity">> <=> n = 6
         /\ NextToDo(n) = <<"fill", "control">> <=> n = 9
         /\ NextToDo(n) = <<"fill", "staging">> <=> n = 15
<1> DEFINE t == Len(Taken)
<1>1. /\ t \in {6, 7} /\ Taken[t] = "vault" /\ Taken[t - 1] = "identity" /\ Taken[t - 2] = "control"
      /\ Taken[t - 3] = "projects" /\ Taken[t - 4] = "staging"
      /\ \A i \in 1 .. t - 5 : Taken[i] \in {"copy", "kopia"}
  BY TakenIs
<1>2. /\ Len(Plan) = 3 * t + 4
      /\ NextToDo(StepsToGo + 3)[1] = "clear" /\ NextToDo(StepsToGo + 2)[1] = "look"
      /\ NextToDo(StepsToGo + 1)[1] = "begin" /\ NextToDo(1)[1] = "mark"
      /\ \A i \in 1 .. t :
            /\ NextToDo(3 * (t - i) + 4) = <<"own", Taken[i]>>
            /\ NextToDo(3 * (t - i) + 3) = <<"fill", Taken[i]>>
            /\ NextToDo(3 * (t - i) + 2) = <<"seal", Taken[i]>>
  BY PlanIs
<1> HIDE DEF t
<1>3. StepsToGo = 3 * t + 1 /\ StepsToGo \in {19, 22} /\ Len(Plan) = StepsToGo + 3
  BY <1>1, <1>2 DEF StepsToGo
<1>4. ASSUME n \in 2 .. StepsToGo
      PROVE  \E i \in 1 .. t : n \in {3 * (t - i) + 4, 3 * (t - i) + 3, 3 * (t - i) + 2}
  <2> DEFINE q == (n - 2) \div 3
  <2>1. n \in Int /\ 2 <= n /\ n <= 3 * t + 1
    BY <1>1, <1>3, <1>4
  <2>2. q \in 0 .. t - 1 /\ n \in {3 * q + 4, 3 * q + 3, 3 * q + 2}
    BY <1>1, <2>1
  <2> HIDE DEF q
  <2>3. t - q \in 1 .. t /\ t - (t - q) = q
    BY <1>1, <2>2
  <2>4. n \in {3 * (t - (t - q)) + 4, 3 * (t - (t - q)) + 3, 3 * (t - (t - q)) + 2}
    BY <2>2, <2>3
  <2> QED BY <2>3, <2>4
<1>5. \A i \in 1 .. t : /\ Taken[i] \in TargetSet
                        /\ Taken[i] = "vault" <=> i = t
                        /\ Taken[i] = "identity" <=> i = t - 1
                        /\ Taken[i] = "control" <=> i = t - 2
                        /\ Taken[i] = "staging" <=> i = t - 4
  <2>1. \A i \in 1 .. t : i \in 1 .. t - 5 \/ i = t \/ i = t - 1 \/ i = t - 2 \/ i = t - 3 \/ i = t - 4
    BY <1>1
  <2>2. /\ t - 1 # t /\ t - 2 # t /\ t - 3 # t /\ t - 4 # t /\ t - 2 # t - 1 /\ t - 3 # t - 1
        /\ t - 4 # t - 1 /\ t - 3 # t - 2 /\ t - 4 # t - 2 /\ t - 4 # t - 3
        /\ \A i \in 1 .. t - 5 : i \notin {t, t - 1, t - 2, t - 3, t - 4}
    BY <1>1
  <2>3. \A i \in 1 .. t : Taken[i] \in TargetSet
    BY TakenIs, ElementOfSeq DEF t
  <2> QED BY <1>1, <2>1, <2>2, <2>3
<1>6. ASSUME NEW i \in 1 .. t, n \in {3 * (t - i) + 4, 3 * (t - i) + 3, 3 * (t - i) + 2}
      PROVE  /\ NextToDo(n)[1] \in {"own", "fill", "seal"} /\ NextToDo(n)[2] = Taken[i]
             /\ NextToDo(n)[1] = "own" => n > 2 /\ NextToDo(n - 1) = <<"fill", Taken[i]>>
             /\ NextToDo(n)[1] = "fill" => n > 2 /\ NextToDo(n - 1)[1] = "seal"
             /\ NextToDo(n)[1] = "seal" => NextToDo(n - 1)[1] \in {"own", "mark"}
             /\ NextToDo(n)[1] = "fill" <=> n = 3 * (t - i) + 3
  <2>1. CASE n = 3 * (t - i) + 4
    <3>1. n > 2 /\ n - 1 = 3 * (t - i) + 3 /\ n # 3 * (t - i) + 3
      BY <1>1, <2>1
    <3> QED BY <1>2, <2>1, <3>1
  <2>2. CASE n = 3 * (t - i) + 3
    <3>1. n > 2 /\ n - 1 = 3 * (t - i) + 2
      BY <1>1, <2>2
    <3> QED BY <1>2, <2>2, <3>1
  <2>3. CASE n = 3 * (t - i) + 2
    <3>1. n # 3 * (t - i) + 3 /\ (i = t => n - 1 = 1)
      BY <1>1, <2>3
    <3>2. i # t => i + 1 \in 1 .. t /\ n - 1 = 3 * (t - (i + 1)) + 4
      BY <1>1, <2>3
    <3> QED BY <1>2, <2>3, <3>1, <3>2
  <2> QED BY <1>6, <2>1, <2>2, <2>3
<1>10. n = StepsToGo => NextToDo(n)[1] = "own"
  <2>1. 1 \in 1 .. t /\ 3 * (t - 1) + 4 = 3 * t + 1
    BY <1>1
  <2> QED BY <1>2, <1>3, <2>1
<1>7. CASE n \in 2 .. StepsToGo
  <2>1. PICK i \in 1 .. t : n \in {3 * (t - i) + 4, 3 * (t - i) + 3, 3 * (t - i) + 2}
    BY <1>4, <1>7
  <2>2. /\ NextToDo(n)[1] \in {"own", "fill", "seal"} /\ NextToDo(n)[2] = Taken[i]
        /\ NextToDo(n)[1] = "own" => n > 2 /\ NextToDo(n - 1) = <<"fill", Taken[i]>>
        /\ NextToDo(n)[1] = "fill" => n > 2 /\ NextToDo(n - 1)[1] = "seal"
        /\ NextToDo(n)[1] = "seal" => NextToDo(n - 1)[1] \in {"own", "mark"}
        /\ NextToDo(n)[1] = "fill" <=> n = 3 * (t - i) + 3
    BY <1>6, <2>1
  <2>3. n # 1 /\ n # StepsToGo + 1 /\ n # StepsToGo + 2 /\ n # StepsToGo + 3
    BY <1>3, <1>7
  <2>4. \A x : NextToDo(n) = <<"fill", x>> => NextToDo(n)[1] = "fill" /\ Taken[i] = x
    BY <2>2
  <2>5. NextToDo(n)[1] = "fill" => NextToDo(n) = <<"fill", Taken[i]>>
    BY <1>2, <2>2
  <2>6. NextToDo(n)[1] = "fill" =>
          /\ i = t <=> n = 3
          /\ i = t - 1 <=> n = 6
          /\ i = t - 2 <=> n = 9
          /\ i = t - 4 <=> n = 15
    BY <1>1, <2>2
  <2>7. n \in {3, 6, 9, 15} => NextToDo(n)[1] = "fill"
    BY <1>1, <2>1, <2>2
  <2> QED BY <1>3, <1>5, <1>10, <2>2, <2>3, <2>4, <2>5, <2>6, <2>7
<1>8. CASE n \in {1, StepsToGo + 1, StepsToGo + 2, StepsToGo + 3}
  <2>1. NextToDo(n)[1] \in {"mark", "begin", "look", "clear"}
    BY <1>2, <1>8
  <2>2. \A x : NextToDo(n) # <<"fill", x>>
    BY <2>1
  <2>3. n \notin 2 .. StepsToGo /\ n \notin {3, 6, 9, 15}
    BY <1>3, <1>8
  <2> QED BY <1>2, <1>3, <1>10, <2>2, <2>3
<1>9. n \in 2 .. StepsToGo \/ n \in {1, StepsToGo + 1, StepsToGo + 2, StepsToGo + 3}
  BY <1>3
<1> QED BY <1>7, <1>8, <1>9, <1>10

-----------------------------------------------------------------------------
(* The installer, the rebuild and the people around them. *)

Computer == HostInv /\ RunInv /\ MadeInv /\ FilesInv /\ PlanInv /\ LeftInv

(* What each of their steps is shown to do: besides the invariant, what is set up
   stays set up, and the rebuild leaves alone what is not its own. *)
FilesKept == \A t \in TargetSet : files[t] \in {"theirs", "changed"} => files'[t] = files[t]
Sound == /\ Computer' /\ FilesKept
         /\ SetUp => SetUp'
         /\ marker = "restored" => marker' = "restored"

LEMMA PlanStays == inPlace' = inPlace => Plan' = Plan /\ StepsToGo' = StepsToGo /\ \A n : NextToDo(n)' = NextToDo(n)
BY DEF Plan, Taking, Taken, StepsToGo, NextToDo

(* What the rebuild does next is the first of what it has left. *)
LEMMA HeadIs ==
  ASSUME PlanInv, todo # <<>>
  PROVE  /\ Len(todo) \in 1 .. Len(Plan) /\ Head(todo) = NextToDo(Len(todo)) /\ Restoring
         /\ run.at = "fix" => run.todo # <<>>
         /\ run.todo = <<"restore">> /\ Step = "restore_backup"
<1>1. Len(todo) \in Nat \ {0} /\ Head(todo) = todo[1]
  BY DEF PlanInv
<1>2. Len(Plan) - Len(todo) + 1 = Len(Plan) + 1 - Len(todo) /\ Len(Plan) \in Nat
  BY <1>1, PlanIs DEF PlanInv
<1>3. Len(todo) \in 1 .. Len(Plan) /\ Restoring
  BY <1>1, <1>2 DEF PlanInv
<1>4. todo[1] = Plan[Len(Plan) - Len(todo) + 1]
  BY <1>1, <1>3 DEF PlanInv
<1> QED BY <1>1, <1>2, <1>3, <1>4 DEF NextToDo, Restoring

LEMMA TailIs ==
  ASSUME PlanInv, todo # <<>>, todo' = Tail(todo), UNCHANGED <<run, inPlace>>
  PROVE  PlanInv' /\ Len(todo') = Len(todo) - 1
<1> DEFINE S == Kinds \X (TargetSet \cup {"all"})
<1>1. todo \in Seq(S)
  BY DEF PlanInv
<1> HIDE DEF S
<1>2. /\ Tail(todo) \in Seq(S) /\ Len(Tail(todo)) = Len(todo) - 1
      /\ \A i \in 1 .. Len(Tail(todo)) : Tail(todo)[i] = todo[i + 1]
  BY ONLY <1>1, todo # <<>>, HeadTailProperties
<1>3. Len(todo) \in Nat \ {0} /\ Len(Plan) \in Nat
  BY <1>1, PlanIs DEF PlanInv
<1>4. \A i \in 1 .. Len(todo') : todo'[i] = Plan[Len(Plan) - Len(todo') + i]
  <2> TAKE i \in 1 .. Len(todo')
  <2>1. i + 1 \in 1 .. Len(todo) /\ Len(Plan) - Len(todo) + (i + 1) = Len(Plan) - Len(todo') + i
    BY <1>2, <1>3
  <2>2. todo[i + 1] = Plan[Len(Plan) - Len(todo) + (i + 1)]
    BY <2>1 DEF PlanInv
  <2> QED BY <1>2, <2>1, <2>2
<1>5. (todo # <<>> => Restoring) => Restoring'
  BY DEF Restoring, Running, Step
<1>6. Len(todo') <= Len(Plan)
  BY <1>2, <1>3 DEF PlanInv
<1> QED BY <1>2, <1>4, <1>5, <1>6, PlanStays DEF PlanInv, S

LEMMA MadeIs ==
  ASSUME MadeInv
  PROVE  /\ marker = "restored" => host.tokens = "old" /\ host.admin = "old" /\ host.account = "old"
         /\ marker = "started" => run.step < 13 /\ ~SetUp
         /\ marker = "none" => host.tokens \in {"none", "new"}
BY DEF MadeInv, Made, SetUp

(* Nothing the invariant is about changes. *)
LEMMA StillKeeps ==
  ASSUME Computer, Whole(host'), Kept(host'), UNCHANGED <<run, files, marker, todo, inPlace>>
  PROVE  Sound
<1>1. HostInv' /\ RunInv' /\ FilesInv'
  BY DEF Computer, HostInv, RunInv, FilesInv, Whole
<1>2. MadeInv' /\ (SetUp => SetUp')
  BY DEF Computer, MadeInv, Made, SetUp, Kept
<1>3. PlanInv'
  BY PlanStays DEF Computer, PlanInv, Restoring, Running, Step
<1>4. LeftInv'
  BY PlanStays DEF Computer, LeftInv, Made, Kept, Target
<1> QED BY <1>1, <1>2, <1>3, <1>4 DEF Computer, Sound, FilesKept

(* A run starts or ends: the next one has only the computer to go by. *)
Fresh(r) == /\ {"state", "step", "at", "todo", "restoring"} \subseteq DOMAIN r
            /\ r.step = 1 /\ r.at # "fix" /\ r.todo = <<>>

LEMMA FreshKeeps ==
  ASSUME Computer, Fresh(run'), todo' = <<>>, UNCHANGED <<host, marker, inPlace>>, FilesInv', FilesKept
  PROVE  Sound
<1>1. RunInv'
  BY DEF Fresh, RunInv
<1>2. HostInv' /\ (SetUp => SetUp') /\ (SetUp' => SetUp) /\ Made' = Made
  BY DEF Computer, HostInv, Made, SetUp
<1>5. MadeInv'
  BY <1>2 DEF Computer, MadeInv, Fresh
<1>3. PlanInv'
  <2>1. Len(Plan) \in Nat
    BY PlanIs DEF Computer, PlanInv
  <2> QED BY <2>1, PlanStays DEF Computer, PlanInv
<1>4. LeftInv'
  BY DEF LeftInv
<1> QED BY <1>1, <1>2, <1>3, <1>4, <1>5 DEF Computer, Sound

(* The engine of the installer. *)
LEMMA CheckKeeps ==
  ASSUME Computer, RunCheck(RestoreState), UNCHANGED rebuildVars
  PROVE  Sound
<1>1. run.at = "check" /\ run.step \in 1 .. 27 /\ run.todo = <<>>
  BY DEF Computer, RunInv, RunCheck
<1>2. todo = <<>> /\ todo' = <<>> /\ UNCHANGED <<host, files, marker, inPlace>>
  BY <1>1, HeadIs DEF Computer, RunCheck, rebuildVars
<1>3. HostInv' /\ FilesInv' /\ (SetUp => SetUp') /\ (SetUp' => SetUp) /\ Made' = Made /\ FilesKept
  BY <1>2 DEF Computer, HostInv, FilesInv, SetUp, Made, FilesKept
<1>4. PlanInv' /\ LeftInv'
  BY <1>2, PlanStays DEF Computer, PlanInv, LeftInv
<1>5. /\ Skipped(Step, StateOf(Step, RestoreState)) /\ run.step = 12 => marker # "started"
      /\ Skipped(Step, StateOf(Step, RestoreState)) /\ run.step = 13 => host.tokens # "none"
  BY StepsAre, ChecksAre DEF Step, Skipped, RestoreState, EnvState, Interrupted
<1>6. CASE ~Skipped(Step, StateOf(Step, RestoreState))
  <2>1. run' = [run EXCEPT !.at = "fix", !.todo = FixOf(Step, StateOf(Step, RestoreState))]
    BY <1>6 DEF RunCheck
  <2>2. FixOf(Step, StateOf(Step, RestoreState)) \in Seq(CommandsAt(run.step))
    BY <1>1, FixesAre DEF Step
  <2>3. RunInv' /\ run'.step = run.step
    BY <1>1, <2>1, <2>2 DEF Computer, RunInv
  <2>4. marker = "restored" => run.step \notin {12, 13, 17}
    <3>1. marker = "restored" /\ run.step = 12 => FALSE
      BY <1>6, StepsAre, ChecksAre DEF Step, Skipped, RestoreState
    <3>4. marker = "restored" => EnvState = "ready" /\ AccountState = "ready"
      BY MadeIs DEF Computer, EnvState, AccountState
    <3>2. marker = "restored" /\ run.step = 13 => FALSE
      BY <1>6, <3>4, StepsAre, ChecksAre DEF Step, Skipped
    <3>3. marker = "restored" /\ run.step = 17 => FALSE
      BY <1>6, <3>4, StepsAre, ChecksAre DEF Step, Skipped
    <3> QED BY <3>1, <3>2, <3>3
  <2>5. MadeInv'
    BY <1>2, <1>3, <2>3, <2>4 DEF Computer, MadeInv
  <2> QED BY <1>2, <1>3, <1>4, <2>3, <2>5 DEF Computer, Sound
<1>7. CASE Skipped(Step, StateOf(Step, RestoreState)) /\ Stops(RestoreState) = {}
  <2>1. run' = [run EXCEPT !.at = "finish"]
    BY <1>7 DEF RunCheck
  <2>2. RunInv' /\ run'.step = run.step /\ run'.todo = <<>>
    BY <1>1, <2>1 DEF Computer, RunInv
  <2>3. MadeInv'
    BY <1>2, <1>3, <2>2 DEF Computer, MadeInv
  <2> QED BY <1>2, <1>3, <1>4, <2>2, <2>3 DEF Computer, Sound
<1>8. CASE Skipped(Step, StateOf(Step, RestoreState)) /\ Stops(RestoreState) # {}
  <2> DEFINE m == Min(Stops(RestoreState))
  <2>1. run' = [run EXCEPT !.step = m]
    BY <1>8 DEF RunCheck
  <2>2. /\ m \in run.step .. 27
        /\ \A n \in run.step .. 27 : n < m => Skipped(Steps[n], StateOf(Steps[n], RestoreState))
    BY <1>1, <1>8, NextStop
  <2> HIDE DEF m
  <2>3. run.step <= 12 /\ 12 < m => marker # "started"
    <3>1. Skipped("restore_backup", RestoreState) => marker # "started"
      BY DEF Skipped, RestoreState, Interrupted
    <3> QED BY <1>1, <2>2, <3>1, StepsAre, ChecksAre
  <2>4. run.step <= 13 /\ 13 < m => host.tokens # "none"
    <3>1. Skipped("root_env", EnvState) => host.tokens # "none"
      BY DEF Skipped, EnvState
    <3> QED BY <1>1, <2>2, <3>1, StepsAre, ChecksAre
  <2>8. {"state", "step", "at", "todo", "restoring"} \subseteq DOMAIN run
    BY DEF Computer, RunInv
  <2>5. run'.step = m /\ run'.todo = <<>> /\ run'.at = run.at /\ DOMAIN run' = DOMAIN run
    BY <1>1, <2>1, <2>8
  <2>9. m \in 1 .. 27
    BY <1>1, <2>2
  <2>6. RunInv'
    BY <1>1, <2>5, <2>8, <2>9, EmptySeq DEF RunInv
  <2>7. MadeInv'
    <3>3. (marker = "started" => run.step < 13) /\ (run.step > 13 => host.tokens # "none")
      BY DEF Computer, MadeInv
    <3>1. marker = "started" => m < 13
      BY <1>1, <2>9, <2>3, <3>3
    <3>2. m > 13 => host.tokens # "none"
      BY <1>1, <2>9, <2>4, <3>3
    <3> QED BY <1>2, <1>3, <2>5, <3>1, <3>2 DEF Computer, MadeInv
  <2> QED BY <1>2, <1>3, <1>4, <2>6, <2>7 DEF Computer, Sound
<1> QED BY <1>6, <1>7, <1>8

LEMMA VerifyKeeps ==
  ASSUME Computer, Verify(RestoreState), UNCHANGED rebuildVars
  PROVE  Sound
<1>1. run.step \in 1 .. 27 /\ run.todo = <<>> /\ run.at = "fix"
  BY DEF Computer, RunInv, Verify
<1>2. todo = <<>> /\ todo' = <<>> /\ UNCHANGED <<host, files, marker, inPlace>>
  BY <1>1, HeadIs DEF Computer, Verify, rebuildVars
<1>3. HostInv' /\ FilesInv' /\ (SetUp => SetUp') /\ (SetUp' => SetUp) /\ Made' = Made /\ FilesKept
  BY <1>2 DEF Computer, HostInv, FilesInv, SetUp, Made, FilesKept
<1>4. PlanInv' /\ LeftInv'
  BY <1>2, PlanStays DEF Computer, PlanInv, LeftInv
<1>5. CASE StateOf(Step, RestoreState) \in Acceptable(Step)
  <2>1. Advance
    BY <1>5 DEF Verify
  <2>2. RunInv' /\ run'.todo = <<>> /\ run'.step \in {run.step, run.step + 1}
        /\ (run'.step = run.step => run.step = 27)
    <3>1. CASE run.step = 27
      <4>1. run' = [run EXCEPT !.at = "finish", !.todo = <<>>]
        BY <2>1, <3>1, StepsAre DEF Advance
      <4> QED BY <1>1, <3>1, <4>1 DEF Computer, RunInv
    <3>2. CASE run.step # 27
      <4>1. run' = [run EXCEPT !.step = @ + 1, !.at = "check", !.todo = <<>>]
        BY <2>1, <3>2, StepsAre DEF Advance
      <4> QED BY <1>1, <3>2, <4>1 DEF Computer, RunInv
    <3> QED BY <3>1, <3>2
  <2>3. run.step = 12 => marker # "started"
    BY <1>5, StepsAre, ChecksAre DEF Step, Acceptable, RestoreState, Interrupted
  <2>4. run.step = 13 => host.tokens # "none"
    BY <1>5, StepsAre, ChecksAre DEF Step, Acceptable, EnvState
  <2>7. (marker = "started" => run.step < 13) /\ (run.step > 13 => host.tokens # "none")
    BY DEF Computer, MadeInv
  <2>5. (marker = "started" => run'.step < 13) /\ (run'.step > 13 => host.tokens # "none")
    BY <1>1, <2>2, <2>3, <2>4, <2>7
  <2>6. MadeInv'
    BY <1>2, <1>3, <2>2, <2>5 DEF Computer, MadeInv
  <2> QED BY <1>2, <1>3, <1>4, <2>2, <2>6 DEF Computer, Sound
<1>6. CASE StateOf(Step, RestoreState) \notin Acceptable(Step)
  <2>2. run' = [Idle EXCEPT !.state = "failed"]
    BY <1>6 DEF Verify, Ends
  <2>1. Fresh(run')
    BY <2>2 DEF Fresh, Idle
  <2> QED BY <1>2, <1>3, <2>1, FreshKeeps
<1> QED BY <1>5, <1>6

LEMMA CommandKeeps ==
  ASSUME Computer, RunCommand, UNCHANGED rebuildVars
  PROVE  Sound
<1> DEFINE c == Head(run.todo)
<1>1. /\ run.at = "fix" /\ run.todo # <<>> /\ Step # "restore_backup"
      /\ host' = After(c) /\ run' = [run EXCEPT !.todo = Tail(@)]
  BY DEF RunCommand
<1>2. run.step \in 1 .. 27 /\ run.todo \in Seq(CommandsAt(run.step))
  BY DEF Computer, RunInv
<1>3. c \in CommandsAt(run.step) /\ Tail(run.todo) \in Seq(CommandsAt(run.step))
  BY ONLY <1>1, <1>2, HeadTailProperties
<1>4. todo = <<>> /\ todo' = <<>> /\ UNCHANGED <<files, marker, inPlace>>
  BY <1>1, HeadIs DEF Computer, rebuildVars
<1>5. RunInv' /\ run'.step = run.step
  BY <1>1, <1>2, <1>3 DEF Computer, RunInv
<1> HIDE DEF c
<1>6. /\ Whole(After(c))
      /\ run.step < 13 => Kept(After(c))
      /\ run.step = 13 => After(c) = [host EXCEPT !.tokens = "new"]
      /\ run.step = 17 => After(c) = [host EXCEPT !.account = "new"]
      /\ run.step > 13 /\ run.step # 17 =>
           /\ After(c).tokens = host.tokens /\ After(c).account = host.account
           /\ After(c).admin = host.admin \/ (host.admin = "none" /\ After(c).admin = "new")
  BY <1>2, <1>3, CommandsKeep DEF Computer
<1>7. marker = "restored" => run.step \notin {12, 13, 17}
  BY <1>1 DEF Computer, MadeInv
<1>8. MadeInv' /\ (SetUp => SetUp')
  <2>1. CASE run.step < 13
    BY <1>1, <1>4, <1>5, <1>6, <1>7, <2>1 DEF Computer, MadeInv, Made, SetUp, Kept
  <2>2. CASE run.step = 13
    <3>1. marker = "none"
      BY <1>7, <2>2 DEF Computer, MadeInv
    <3>2. host'.tokens = "new" /\ host'.admin = host.admin /\ host'.account = host.account
      BY <1>1, <1>6, <2>2 DEF Computer, HostInv
    <3> QED BY <1>4, <1>5, <2>2, <3>1, <3>2 DEF Computer, MadeInv, Made, SetUp
  <2>3. CASE run.step > 13
    <3>5. marker \in {"none", "started", "restored"} /\ host.tokens # "none"
      BY <2>3 DEF Computer, MadeInv
    <3>1. (marker = "none" /\ host.tokens = "new") \/ marker = "restored"
      BY <1>2, <2>3, <3>5, MadeIs DEF Computer
    <3>2. host'.tokens = host.tokens
      BY <1>1, <1>6, <2>3 DEF Computer, HostInv
    <3>3. CASE run.step = 17
      <4>1. host'.account = "new" /\ host'.admin = host.admin
        BY <1>1, <1>6, <3>3 DEF Computer, HostInv
      <4> QED BY <1>4, <1>5, <1>7, <2>3, <3>1, <3>2, <3>3, <4>1 DEF Computer, MadeInv, Made, SetUp
    <3>4. CASE run.step # 17
      <4>1. /\ host'.account = host.account
            /\ host'.admin = host.admin \/ (host.admin = "none" /\ host'.admin = "new")
        BY <1>1, <1>6, <2>3, <3>4
      <4> QED BY <1>4, <1>5, <1>7, <2>3, <3>1, <3>2, <4>1 DEF Computer, MadeInv, Made, SetUp
    <3> QED BY <3>3, <3>4
  <2>4. run.step < 13 \/ run.step = 13 \/ run.step > 13
    <3>1. run.step \in 1 .. 27
      BY <1>2
    <3>2. \A s \in 1 .. 27 : s < 13 \/ s = 13 \/ s > 13
      OBVIOUS
    <3> QED BY ONLY <3>1, <3>2
  <2> QED BY <2>1, <2>2, <2>3, <2>4
<1>9. HostInv' /\ FilesInv' /\ FilesKept /\ PlanInv' /\ LeftInv'
  BY <1>1, <1>4, <1>6, PlanStays DEF Computer, HostInv, FilesInv, FilesKept, PlanInv, LeftInv, Whole
<1> QED BY <1>4, <1>5, <1>8, <1>9 DEF Computer, Sound

(* A run that ends at this point, and one that begins. *)
LEMMA EndKeeps ==
  ASSUME Computer, NEW s, Ends(s), todo' = <<>>, UNCHANGED <<host, files, marker, inPlace>>
  PROVE  Sound
<1>1. Fresh(run')
  BY DEF Ends, Fresh, Idle
<1>2. FilesInv' /\ FilesKept
  BY DEF Computer, FilesInv, FilesKept
<1> QED BY <1>1, <1>2, FreshKeeps

LEMMA StartKeeps ==
  ASSUME Computer, NEW restoring, StartRun(restoring), UNCHANGED rebuildVars
  PROVE  Sound
<1>1. Fresh(run')
  BY DEF StartRun, Fresh, Idle
<1>2. ~Running /\ UNCHANGED <<host, files, marker, todo, inPlace>>
  BY DEF StartRun, rebuildVars
<1>3. todo = <<>>
  BY <1>2, HeadIs DEF Computer, Restoring
<1>4. FilesInv' /\ FilesKept
  BY <1>2 DEF Computer, FilesInv, FilesKept
<1> QED BY <1>1, <1>2, <1>3, <1>4, FreshKeeps

LEMMA CommandRefusedKeeps ==
  ASSUME Computer, CommandRefused, UNCHANGED rebuildVars
  PROVE  Sound
<1>1. run.at = "fix" /\ run.todo # <<>> /\ ~CanRun(Head(run.todo)) /\ Ends("failed") /\ host' = host
  BY DEF CommandRefused
<1>2. CanRun("restore")
  BY DEF CanRun
<1>3. todo = <<>>
  <2>1. Head(<<"restore">>) = "restore"
    OBVIOUS
  <2> QED BY <1>1, <1>2, <2>1, HeadIs DEF Computer
<1> QED BY <1>1, <1>3, EndKeeps DEF rebuildVars

LEMMA CommandFailsKeeps ==
  ASSUME Computer, CommandFails, UNCHANGED rebuildVars
  PROVE  Sound
<1>1. todo = <<>> /\ Ends("failed") /\ host' = host
  BY HeadIs DEF Computer, CommandFails
<1> QED BY <1>1, EndKeeps DEF rebuildVars

LEMMA DieKeeps ==
  ASSUME Computer, Die, todo' = <<>>, UNCHANGED <<files, marker, inPlace>>
  PROVE  Sound
<1>1. Ends("idle") /\ host' = host
  BY DEF Die
<1> QED BY <1>1, EndKeeps

LEMMA ApproveKeeps ==
  ASSUME Computer, Approve, UNCHANGED rebuildVars
  PROVE  Sound
<1>1. /\ run.at = "fix" /\ run.todo = <<"tailscale_up">> /\ host' = [host EXCEPT !.ts = "ready"]
      /\ run' = [run EXCEPT !.todo = <<>>]
  BY DEF Approve
<1>2. todo = <<>> /\ todo' = <<>> /\ UNCHANGED <<files, marker, inPlace>>
  <2>1. <<"tailscale_up">> # <<>> /\ <<"tailscale_up">> # <<"restore">>
    OBVIOUS
  <2> QED BY <1>1, <2>1, HeadIs DEF Computer, rebuildVars
<1>3. HostInv' /\ Kept(host')
  BY <1>1 DEF Computer, HostInv, Kept
<1>4. RunInv' /\ run'.step = run.step /\ run'.todo = <<>>
  BY <1>1 DEF Computer, RunInv
<1>5. MadeInv' /\ (SetUp => SetUp')
  BY <1>2, <1>3, <1>4 DEF Computer, MadeInv, Made, SetUp, Kept
<1>6. FilesInv' /\ FilesKept /\ PlanInv' /\ LeftInv'
  BY <1>2, PlanStays DEF Computer, FilesInv, FilesKept, PlanInv, LeftInv
<1> QED BY <1>2, <1>3, <1>4, <1>5, <1>6 DEF Computer, Sound

(* The rest of the world. *)
LEMMA WorldKeeps ==
  ASSUME Computer, Prefetch \/ Pull \/ Login \/ FreePort \/ Disturb, UNCHANGED rebuildVars
  PROVE  Sound
<1>1. UNCHANGED <<run, files, marker, todo, inPlace>>
  BY DEF rebuildVars, Prefetch, Pull, Login, FreePort, Disturb
<1>2. \A w : /\ Whole([host EXCEPT !.caddy = w]) /\ Kept([host EXCEPT !.caddy = w])
             /\ Whole([host EXCEPT !.vault = w]) /\ Kept([host EXCEPT !.vault = w])
             /\ Whole([host EXCEPT !.authentik = w]) /\ Kept([host EXCEPT !.authentik = w])
             /\ Whole([host EXCEPT !.ctl = w]) /\ Kept([host EXCEPT !.ctl = w])
             /\ Whole([host EXCEPT !.served = w]) /\ Kept([host EXCEPT !.served = w])
             /\ Whole([host EXCEPT !.keys = w]) /\ Kept([host EXCEPT !.keys = w])
             /\ Whole([host EXCEPT !.port = w]) /\ Kept([host EXCEPT !.port = w])
             /\ Whole([host EXCEPT !.group = w]) /\ Kept([host EXCEPT !.group = w])
             /\ Whole([host EXCEPT !.images = w]) /\ Kept([host EXCEPT !.images = w])
  BY DEF Computer, HostInv, Whole, Kept
<1>3. Whole(host) /\ Kept(host)
  BY DEF Computer, HostInv, Whole, Kept
<1>4. CASE Disturb
  <2>1. host' \in Disturbances
    BY <1>4 DEF Disturb
  <2> QED BY <1>1, <1>2, <2>1, StillKeeps DEF Disturbances
<1>5. CASE Prefetch
  BY <1>1, <1>2, <1>5, StillKeeps DEF Prefetch
<1>6. CASE Pull
  BY <1>1, <1>3, <1>6, StillKeeps DEF Pull, Whole, Kept
<1>7. CASE Login
  BY <1>1, <1>2, <1>7, StillKeeps DEF Login
<1>8. CASE FreePort
  BY <1>1, <1>2, <1>8, StillKeeps DEF FreePort
<1> QED BY <1>4, <1>5, <1>6, <1>7, <1>8

LEMMA MeddleKeeps ==
  ASSUME Computer, Meddle
  PROVE  Sound
<1>1. ~Running /\ UNCHANGED <<host, run, marker, todo, inPlace>>
  BY DEF Meddle
<1>2. todo = <<>> /\ todo' = <<>>
  BY <1>1, HeadIs DEF Computer, Restoring
<1>3. PICK t \in TargetSet : /\ files[t] \in {"absent", "partial", "whole"}
                             /\ files' = [files EXCEPT ![t] = IF @ = "absent" THEN "theirs" ELSE "changed"]
  BY DEF Meddle
<1>4. FilesInv' /\ FilesKept
  BY <1>3 DEF Computer, FilesInv, FilesKept, Content
<1>5. HostInv' /\ RunInv' /\ MadeInv' /\ PlanInv' /\ LeftInv' /\ (SetUp => SetUp')
  BY <1>1, <1>2, PlanStays DEF Computer, HostInv, RunInv, MadeInv, PlanInv, LeftInv, Made, SetUp
<1> QED BY <1>1, <1>4, <1>5 DEF Computer, Sound

-----------------------------------------------------------------------------
(* The steps of the rebuild. *)

LEMMA WhereIs ==
  ASSUME inPlace \in BOOLEAN, NEW n \in 1 .. Len(Plan)
  PROVE  /\ NextToDo(n)[1] = "clear" => n = StepsToGo + 3
         /\ NextToDo(n)[1] = "look" => n = StepsToGo + 2
         /\ NextToDo(n)[1] = "begin" => n = StepsToGo + 1
         /\ NextToDo(n)[1] = "mark" => n = 1
         /\ NextToDo(n)[1] \in {"own", "fill", "seal"} => n \in 2 .. StepsToGo
         /\ NextToDo(n)[1] \in {"own", "seal"} => n \notin {3, 6, 9, 15}
<1> DEFINE k == NextToDo(n)[1]
<1>1. /\ StepsToGo \in {19, 22} /\ Len(Plan) = StepsToGo + 3
      /\ n = StepsToGo + 3 => k = "clear" /\ n = StepsToGo + 3
      /\ n = StepsToGo + 2 => k = "look"
      /\ n = StepsToGo + 1 => k = "begin"
      /\ n = 1 => k = "mark"
      /\ n \in 2 .. StepsToGo => k \in {"own", "fill", "seal"}
  BY OrderIs
<1>2. n \in {3, 6, 9, 15} => k = "fill"
  BY OrderIs
<1> HIDE DEF k
<1>3. n = 1 \/ n \in 2 .. StepsToGo \/ n = StepsToGo + 1 \/ n = StepsToGo + 2 \/ n = StepsToGo + 3
  BY <1>1
<1>4. /\ k = "clear" => n = StepsToGo + 3
      /\ k = "look" => n = StepsToGo + 2
      /\ k = "begin" => n = StepsToGo + 1
      /\ k = "mark" => n = 1
      /\ k \in {"own", "fill", "seal"} => n \in 2 .. StepsToGo
  BY <1>1, <1>3
<1>5. k \in {"own", "seal"} => n \notin {3, 6, 9, 15}
  BY <1>2
<1> QED BY <1>4, <1>5 DEF k

LEMMA RestoringIs ==
  ASSUME Computer, Restoring
  PROVE  run.step = 12 /\ run.todo # <<>> /\ run.at = "fix" /\ marker \in {"none", "started"}
<1>1. run.todo # <<>> /\ Step = "restore_backup"
  BY DEF Restoring
<1>2. run.at = "fix"
  BY <1>1 DEF Computer, RunInv
<1>3. run.step \in 1 .. 27
  BY DEF Computer, RunInv
<1>4. run.step = 12
  BY <1>1, <1>3, StepsAre DEF Step
<1> QED BY <1>1, <1>2, <1>4 DEF Computer, MadeInv

LEMMA BroughtIs ==
  ASSUME HostInv, NEW t, NEW v
  PROVE  /\ Whole(Brought(t, v)) /\ Brought(t, v).worker = host.worker
         /\ Brought(t, v).tokens = IF t = "control" THEN "old" ELSE host.tokens
         /\ Brought(t, v).admin = IF t = "identity" THEN "old" ELSE host.admin
         /\ Brought(t, v).account = IF t = "vault" THEN "old" ELSE host.account
<1>1. CASE t = "control"
  BY <1>1 DEF HostInv, Whole, Brought
<1>2. CASE t = "projects"
  BY <1>2 DEF HostInv, Whole, Brought
<1>3. CASE t = "identity"
  BY <1>3 DEF HostInv, Whole, Brought
<1>4. CASE t = "vault"
  BY <1>4 DEF HostInv, Whole, Brought
<1>5. CASE t \notin {"control", "projects", "identity", "vault"}
  <2>1. Brought(t, v) = host
    BY <1>5 DEF Brought
  <2> QED BY <1>5, <2>1 DEF HostInv, Whole
<1> QED BY <1>1, <1>2, <1>3, <1>4, <1>5

LEMMA WithoutIs ==
  ASSUME HostInv, NEW gone
  PROVE  /\ Whole(Without(gone)) /\ Without(gone).worker = host.worker
         /\ Without(gone).tokens \in {"none", host.tokens}
         /\ Without(gone).admin \in {"none", host.admin}
         /\ Without(gone).account \in {"none", host.account}
BY DEF HostInv, Whole, Without

(* While a rebuild is under way nothing is new, and nothing is set up. *)
LEMMA OldStays ==
  ASSUME MadeInv, marker = "started", marker' = marker, run'.step \in 1 .. 12,
         host'.worker = host.worker, host'.tokens \in {"none", "old", host.tokens},
         host'.admin \in {"none", "old", host.admin}, host'.account \in {"none", "old", host.account}
  PROVE  MadeInv' /\ ~SetUp
<1>1. Made \subseteq {"none", "old"} /\ host.worker = 0
  BY DEF MadeInv, SetUp
<1>2. Made' \subseteq {"none", "old"}
  BY <1>1 DEF Made
<1>3. ~SetUp' /\ ~SetUp /\ marker' = "started"
  BY DEF SetUp
<1> QED BY <1>1, <1>2, <1>3 DEF MadeInv

(* A step that is done leaves the next one to do. *)
LEMMA DoneIs ==
  ASSUME Computer, Restoring, todo # <<>>, Done, UNCHANGED <<run, inPlace>>
  PROVE  /\ PlanInv' /\ Len(todo) \in 1 .. Len(Plan) /\ Head(todo) = NextToDo(Len(todo))
         /\ Len(todo') = Len(todo) - 1 /\ StepsToGo' = StepsToGo
         /\ todo' # <<>> => Len(todo') \in 1 .. Len(Plan) /\ Head(todo') = NextToDo(Len(todo'))
         /\ RunInv' /\ Target' = Head(todo')[2]
<1>1. PlanInv' /\ Len(todo') = Len(todo) - 1
  BY TailIs DEF Computer, Done
<1>2. Len(todo) \in 1 .. Len(Plan) /\ Head(todo) = NextToDo(Len(todo))
  BY HeadIs DEF Computer
<1>3. StepsToGo' = StepsToGo /\ Plan' = Plan
  BY PlanStays
<1>4. ASSUME todo' # <<>>
      PROVE  Len(todo') \in 1 .. Len(Plan) /\ Head(todo') = NextToDo(Len(todo'))
  <2> DEFINE S == Kinds \X (TargetSet \cup {"all"})
  <2>5. todo' \in Seq(S)
    BY <1>1 DEF PlanInv
  <2> HIDE DEF S
  <2>1. Len(todo') \in Nat \ {0} /\ Head(todo') = todo'[1]
    BY <1>4, <2>5
  <2>2. Len(Plan) \in Nat
    BY PlanIs DEF Computer, PlanInv
  <2>3. Len(todo') \in 1 .. Len(Plan) /\ Len(Plan) - Len(todo') + 1 = Len(Plan) + 1 - Len(todo')
    BY <1>1, <1>3, <2>1, <2>2 DEF PlanInv
  <2>4. todo'[1] = Plan[Len(Plan) - Len(todo') + 1]
    BY <1>1, <1>3, <2>1 DEF PlanInv
  <2> QED BY <2>1, <2>3, <2>4 DEF NextToDo
<1>5. RunInv'
  BY DEF Computer, RunInv
<1> QED BY <1>1, <1>2, <1>3, <1>4, <1>5 DEF Target

LEMMA OpenRebuildKeeps ==
  ASSUME Computer, OpenRebuild
  PROVE  Sound
<1>1. /\ Restoring /\ todo' = Plan /\ inPlace \in BOOLEAN
      /\ UNCHANGED <<host, run, files, marker, inPlace>>
  BY DEF OpenRebuild, hostVars, Computer, PlanInv
<1>2. marker \in {"none", "started"}
  BY <1>1, RestoringIs
<1>3. Plan' = Plan /\ StepsToGo' = StepsToGo /\ StepsToGo \in {19, 22} /\ Len(Plan) = StepsToGo + 3
  <2>1. Len(Plan) \in Nat \ {0}
    BY <1>1, PlanIs, TakenIs
  <2>2. Len(Plan) \in 1 .. Len(Plan)
    BY <2>1
  <2> QED BY <1>1, <2>2, PlanStays, OrderIs
<1>4. Restoring'
  BY <1>1 DEF Restoring, Running, Step
<1>5. PlanInv'
  <2> DEFINE S == Kinds \X (TargetSet \cup {"all"})
  <2>1. Plan \in Seq(S)
    BY <1>1, PlanIs
  <2>2. \A i \in 1 .. Len(todo') : todo'[i] = Plan'[Len(Plan') - Len(todo') + i]
    BY <1>1, <1>3
  <2> QED BY <1>1, <1>3, <1>4, <2>1, <2>2 DEF PlanInv
<1>6. Head(todo')[1] = "clear"
  <2>1. Head(Plan) = Plan[1] /\ Plan[1] = NextToDo(Len(Plan))
    BY <1>3 DEF NextToDo
  <2>2. Len(Plan) \in 1 .. Len(Plan)
    BY <1>3
  <2> QED BY <1>1, <1>3, <2>1, <2>2, OrderIs
<1>7. LeftInv'
  BY <1>1, <1>2, <1>3, <1>6 DEF LeftInv
<1>8. HostInv' /\ RunInv' /\ MadeInv' /\ FilesInv' /\ FilesKept /\ (SetUp => SetUp')
  BY <1>1 DEF Computer, HostInv, RunInv, MadeInv, FilesInv, FilesKept, Made, SetUp
<1> QED BY <1>1, <1>5, <1>7, <1>8 DEF Computer, Sound

(* Refusing ends the run. *)
LEMMA RefuseKeeps ==
  ASSUME Computer, Refuse
  PROVE  Sound
BY EndKeeps DEF Refuse

LEMMA ClearKeeps ==
  ASSUME Computer, Clear
  PROVE  Sound
<1>1. Restoring /\ todo # <<>> /\ Head(todo)[1] = "clear"
  BY DEF Clear, Doing
<1>2. run.step = 12 /\ marker \in {"none", "started"}
  BY <1>1, RestoringIs
<1>3. CASE Refuse
  BY <1>3, RefuseKeeps
<1>4. ASSUME Done, UNCHANGED <<run, marker, inPlace>>
      PROVE  PlanInv' /\ LeftInv' /\ RunInv'
  <2>1. Len(todo) = StepsToGo + 3
    BY <1>1, <1>4, DoneIs, WhereIs DEF Computer, PlanInv
  <2>2. StepsToGo \in {19, 22} /\ StepsToGo' = StepsToGo
    BY <1>1, <1>4, DoneIs, OrderIs DEF Computer, PlanInv
  <2>3. Len(todo') = StepsToGo + 2
    BY <1>1, <1>4, <2>1, <2>2, DoneIs
  <2>4. todo' # <<>> => Head(todo')[1] = "look"
    BY <1>1, <1>4, <2>3, DoneIs, OrderIs DEF Computer, PlanInv
  <2>5. LeftInv'
    BY <1>2, <1>4, <2>2, <2>3, <2>4 DEF LeftInv
  <2> QED BY <1>1, <1>4, <2>5, DoneIs
<1>5. CASE ~Interrupted /\ Done /\ UNCHANGED <<hostVars, files, owned, marker, inPlace>>
  <2>1. HostInv' /\ MadeInv' /\ FilesInv' /\ FilesKept /\ (SetUp => SetUp')
    BY <1>5 DEF hostVars, Computer, HostInv, MadeInv, FilesInv, FilesKept, Made, SetUp
  <2> QED BY <1>4, <1>5, <2>1 DEF Computer, Sound, hostVars
<1>6. CASE /\ Interrupted /\ Done
           /\ files' = [t \in TargetSet |-> IF t \in Removable THEN "absent" ELSE files[t]]
           /\ host' = Without(Removable)
           /\ UNCHANGED <<checkout, run, trouble, owned, marker, inPlace>>
  <2>1. marker = "started" /\ run'.step = 12
    BY <1>2, <1>6 DEF Interrupted
  <2>2. HostInv' /\ MadeInv' /\ ~SetUp
    BY <1>6, <2>1, WithoutIs, OldStays DEF Computer, HostInv, Whole
  <2>3. FilesInv' /\ FilesKept
    BY <1>6 DEF Computer, FilesInv, FilesKept, Content, Removable
  <2> QED BY <1>4, <1>6, <2>1, <2>2, <2>3 DEF Computer, Sound
<1> QED BY <1>3, <1>5, <1>6 DEF Clear

LEMMA LookKeeps ==
  ASSUME Computer, Look
  PROVE  Sound
<1>1. Restoring /\ todo # <<>> /\ Head(todo)[1] = "look"
  BY DEF Look, Doing
<1>2. marker \in {"none", "started"}
  BY <1>1, RestoringIs
<1>3. CASE Refuse
  BY <1>3, RefuseKeeps
<1>4. CASE ~Existing /\ Done /\ UNCHANGED <<hostVars, files, owned, marker, inPlace>>
  <2>1. UNCHANGED <<host, run, files, marker, inPlace>>
    BY <1>4 DEF hostVars
  <2>2. Len(todo) = StepsToGo + 2
    BY <1>1, <1>4, <2>1, DoneIs, WhereIs DEF Computer, PlanInv
  <2>3. StepsToGo \in {19, 22} /\ StepsToGo' = StepsToGo
    BY <1>1, <1>4, <2>1, DoneIs, OrderIs DEF Computer, PlanInv
  <2>4. Len(todo') = StepsToGo + 1
    BY <1>1, <1>4, <2>1, <2>2, <2>3, DoneIs
  <2>5. todo' # <<>> => Head(todo')[1] = "begin"
    BY <1>1, <1>4, <2>1, <2>4, DoneIs, OrderIs DEF Computer, PlanInv
  <2>6. "new" \notin Made'
    BY <1>4, <2>1 DEF Existing, Made
  <2>7. LeftInv'
    BY <1>2, <2>1, <2>3, <2>4, <2>5, <2>6 DEF LeftInv
  <2>8. HostInv' /\ MadeInv' /\ FilesInv' /\ FilesKept /\ (SetUp => SetUp')
    BY <2>1 DEF Computer, HostInv, MadeInv, FilesInv, FilesKept, Made, SetUp
  <2> QED BY <1>1, <1>4, <2>1, <2>7, <2>8, DoneIs DEF Computer, Sound
<1> QED BY <1>3, <1>4 DEF Look

LEMMA BeginKeeps ==
  ASSUME Computer, Begin
  PROVE  Sound
<1>1. /\ Restoring /\ todo # <<>> /\ Head(todo)[1] = "begin" /\ Done /\ marker' = "started"
      /\ UNCHANGED <<host, run, files, inPlace>>
  BY DEF Begin, Doing, hostVars
<1>2. run.step = 12 /\ marker \in {"none", "started"}
  BY <1>1, RestoringIs
<1>3. Len(todo) = StepsToGo + 1
  BY <1>1, DoneIs, WhereIs DEF Computer, PlanInv
<1>4. StepsToGo \in {19, 22} /\ StepsToGo' = StepsToGo
  BY <1>1, DoneIs, OrderIs DEF Computer, PlanInv
<1>5. Len(todo') = StepsToGo
  BY <1>1, <1>3, <1>4, DoneIs
<1>6. todo' # <<>> => Head(todo')[1] = "own"
  BY <1>1, <1>5, DoneIs, OrderIs DEF Computer, PlanInv
<1>7. LeftInv'
  BY <1>1, <1>4, <1>5, <1>6 DEF LeftInv
<1>8. "new" \notin Made
  BY <1>1, <1>3, <1>4 DEF Computer, LeftInv
<1>9. ~SetUp /\ Made \subseteq {"none", "old"} /\ host.worker = 0
  <2>1. ~SetUp
    BY <1>2, <1>8 DEF SetUp, Made
  <2> QED BY <1>2, <1>8, <2>1 DEF Computer, MadeInv
<1>10. MadeInv'
  <2>1. Made' = Made /\ ~SetUp'
    BY <1>1 DEF Made, SetUp
  <2> QED BY <1>1, <1>2, <1>9, <2>1 DEF MadeInv
<1>11. HostInv' /\ FilesInv' /\ FilesKept
  BY <1>1 DEF Computer, HostInv, FilesInv, FilesKept
<1> QED BY <1>1, <1>2, <1>7, <1>9, <1>10, <1>11, DoneIs DEF Computer, Sound

(* Where owning, filling and sealing are: while the record of the rebuild is open. *)
LEMMA TakingStep ==
  ASSUME Computer, Restoring, todo # <<>>, Head(todo)[1] \in {"own", "fill", "seal"}
  PROVE  /\ marker = "started" /\ run.step = 12 /\ Target \in TargetSet
         /\ Head(todo)[1] = "fill" => files[Target] = "absent"
         /\ Len(todo) \in 2 .. StepsToGo /\ StepsToGo \in {19, 22} /\ Head(todo) = NextToDo(Len(todo))
<1>1. Len(todo) \in 1 .. Len(Plan) /\ Head(todo) = NextToDo(Len(todo))
  BY HeadIs DEF Computer
<1>2. Len(todo) \in 2 .. StepsToGo /\ StepsToGo \in {19, 22} /\ Target \in TargetSet
  BY <1>1, WhereIs, OrderIs DEF Computer, PlanInv, Target
<1>3. marker = "started" /\ (Head(todo)[1] = "fill" => files[Target] = "absent")
  BY <1>2 DEF Computer, LeftInv
<1> QED BY <1>1, <1>2, <1>3, RestoringIs

(* One of them done. *)
LEMMA TakingDone ==
  ASSUME Computer, Restoring, todo # <<>>, Head(todo)[1] \in {"own", "fill", "seal"},
         Done, UNCHANGED <<run, marker, inPlace>>,
         host'.worker = host.worker, Whole(host'), FilesInv', FilesKept,
         host'.tokens = IF Head(todo) = <<"fill", "control">> THEN "old" ELSE host.tokens,
         host'.admin = IF Head(todo) = <<"fill", "identity">> THEN "old" ELSE host.admin,
         host'.account = IF Head(todo) = <<"fill", "vault">> THEN "old" ELSE host.account,
         Head(todo)[1] = "own" => files'[Target] = "absent",
         Head(todo) = <<"fill", "staging">> => files'["staging"] = "whole",
         Head(todo) # <<"fill", "control">> /\ files["staging"] = "whole" => files'["staging"] = "whole"
  PROVE  Sound
<1> DEFINE n == Len(todo)
<1>1. /\ marker = "started" /\ run.step = 12 /\ n \in 2 .. StepsToGo /\ StepsToGo \in {19, 22}
      /\ Head(todo) = NextToDo(n) /\ StepsToGo' = StepsToGo /\ Len(todo') = n - 1
      /\ PlanInv' /\ RunInv' /\ n \in 1 .. Len(Plan)
      /\ todo' # <<>> => Head(todo') = NextToDo(n - 1) /\ Target' = Head(todo')[2]
  BY TakingStep, DoneIs
<1>2. HostInv' /\ MadeInv' /\ ~SetUp
  BY <1>1, OldStays DEF Computer, HostInv, Whole
<1>3. /\ n < 9 => host.tokens = "old"
      /\ n < 6 => host.admin = "old"
      /\ n < 3 => host.account = "old"
      /\ n \in 9 .. 14 => files["staging"] = "whole"
  BY DEF Computer, LeftInv
<1>4. /\ Head(todo) = <<"fill", "vault">> <=> n = 3
      /\ Head(todo) = <<"fill", "identity">> <=> n = 6
      /\ Head(todo) = <<"fill", "control">> <=> n = 9
      /\ Head(todo) = <<"fill", "staging">> <=> n = 15
      /\ Head(todo)[1] = "own" => NextToDo(n - 1)[2] = Target
      /\ Head(todo)[1] = "fill" => NextToDo(n - 1)[1] = "seal"
      /\ Head(todo)[1] = "seal" => NextToDo(n - 1)[1] \in {"own", "mark"}
  <2>1. inPlace \in BOOLEAN /\ Target = NextToDo(n)[2] /\ \A t : <<"fill", t>>[1] # "own" /\ <<"fill", t>>[2] = t
    BY <1>1 DEF Computer, PlanInv, Target
  <2> HIDE DEF n
  <2>2. /\ NextToDo(n) = <<"fill", "vault">> <=> n = 3
        /\ NextToDo(n) = <<"fill", "identity">> <=> n = 6
        /\ NextToDo(n) = <<"fill", "control">> <=> n = 9
        /\ NextToDo(n) = <<"fill", "staging">> <=> n = 15
    BY <1>1, <2>1, OrderIs
  <2>3. /\ NextToDo(n)[1] = "own" => NextToDo(n - 1) = <<"fill", NextToDo(n)[2]>>
        /\ NextToDo(n)[1] = "fill" => NextToDo(n - 1)[1] = "seal"
        /\ NextToDo(n)[1] = "seal" => NextToDo(n - 1)[1] \in {"own", "mark"}
    BY <1>1, <2>1, OrderIs
  <2> QED BY <1>1, <2>1, <2>2, <2>3
<1> HIDE DEF n
<1>5. /\ n - 1 < 9 => host'.tokens = "old"
      /\ n - 1 < 6 => host'.admin = "old"
      /\ n - 1 < 3 => host'.account = "old"
  BY <1>1, <1>3, <1>4
<1>6. n - 1 \in 9 .. 14 => files'["staging"] = "whole"
  <2>1. n - 1 \in 9 .. 14 => n = 15 \/ (n \in 9 .. 14 /\ n # 9)
    BY <1>1
  <2> QED BY <2>1, <1>3, <1>4
<1>7. todo' # <<>> /\ Head(todo')[1] = "fill" => files'[Target'] = "absent"
  BY <1>1, <1>4
<1>8. LeftInv'
  BY <1>1, <1>5, <1>6, <1>7 DEF LeftInv
<1> QED BY <1>1, <1>2, <1>8 DEF Computer, Sound

LEMMA OwnKeeps ==
  ASSUME Computer, Own
  PROVE  Sound
<1>1. Restoring /\ todo # <<>> /\ Head(todo)[1] = "own"
  BY DEF Own, Doing
<1>2. CASE Refuse
  BY <1>2, RefuseKeeps
<1>3. CASE Ownable(Target) /\ Done /\ UNCHANGED <<hostVars, files, marker, inPlace>>
  <2>1. UNCHANGED <<host, run, files, marker, inPlace>> /\ files[Target] = "absent"
    BY <1>3 DEF hostVars, Ownable
  <2>2. FilesInv' /\ FilesKept /\ Whole(host')
    BY <2>1 DEF Computer, HostInv, Whole, FilesInv, FilesKept
  <2>3. \A t : Head(todo) # <<"fill", t>>
    BY <1>1
  <2> QED BY <1>1, <1>3, <2>1, <2>2, <2>3, TakingDone
<1> QED BY <1>2, <1>3 DEF Own

LEMMA SealKeeps ==
  ASSUME Computer, Seal
  PROVE  Sound
<1>1. /\ Restoring /\ todo # <<>> /\ Head(todo)[1] = "seal" /\ Done
      /\ UNCHANGED <<host, run, files, marker, inPlace>>
  BY DEF Seal, Doing, hostVars
<1>2. FilesInv' /\ FilesKept /\ Whole(host')
  BY <1>1 DEF Computer, HostInv, Whole, FilesInv, FilesKept
<1>3. \A t : Head(todo) # <<"fill", t>>
  BY <1>1
<1> QED BY <1>1, <1>2, <1>3, TakingDone

LEMMA FillKeeps ==
  ASSUME Computer, Fill
  PROVE  Sound
<1>1. /\ Restoring /\ todo # <<>> /\ Head(todo)[1] = "fill" /\ Done
      /\ UNCHANGED <<run, marker, inPlace>>
      /\ files' = [t \in TargetSet |-> IF t = Target THEN "whole"
                     ELSE IF Target = "control" /\ t = "staging" THEN "absent" ELSE files[t]]
  BY DEF Fill, Doing
<1>2. PICK v : host' = Brought(Target, v)
  BY DEF Fill
<1>3. /\ marker = "started" /\ Target \in TargetSet /\ files[Target] = "absent"
      /\ Len(todo) \in 2 .. StepsToGo /\ Head(todo) = NextToDo(Len(todo)) /\ StepsToGo \in {19, 22}
  BY <1>1, TakingStep
<1>4. Head(todo) = <<"fill", Target>>
  <2>1. Head(todo) \in Kinds \X (TargetSet \cup {"all"})
    <3> DEFINE S == Kinds \X (TargetSet \cup {"all"})
    <3>1. todo \in Seq(S)
      BY DEF Computer, PlanInv
    <3> HIDE DEF S
    <3>2. Head(todo) \in S
      BY <1>1, <3>1
    <3> QED BY <3>2 DEF S
  <2> QED BY <1>1, <2>1 DEF Target
<1>5. \A t : Head(todo) = <<"fill", t>> <=> Target = t
  BY <1>4
<1>6. Target = "control" => files["staging"] = "whole"
  <2>1. Target = "control" => Len(todo) = 9
    <3>1. Len(todo) \in 1 .. Len(Plan) /\ inPlace \in BOOLEAN
      BY <1>1, HeadIs DEF Computer, PlanInv
    <3>2. NextToDo(Len(todo)) = <<"fill", "control">> => Len(todo) = 9
      BY <3>1, OrderIs
    <3> QED BY <1>3, <1>4, <3>2
  <2> QED BY <1>1, <2>1 DEF Computer, LeftInv
<1>7. FilesInv' /\ FilesKept
  BY <1>1, <1>3, <1>6 DEF Computer, FilesInv, FilesKept, Content
<1>8. /\ Whole(host') /\ host'.worker = host.worker
      /\ host'.tokens = IF Target = "control" THEN "old" ELSE host.tokens
      /\ host'.admin = IF Target = "identity" THEN "old" ELSE host.admin
      /\ host'.account = IF Target = "vault" THEN "old" ELSE host.account
  BY <1>2, BroughtIs DEF Computer
<1>9. /\ Target = "staging" => files'["staging"] = "whole"
      /\ Target # "control" /\ files["staging"] = "whole" => files'["staging"] = "whole"
  BY <1>1, TargetsAre
<1> QED BY <1>1, <1>5, <1>7, <1>8, <1>9, TakingDone

LEMMA MarkKeeps ==
  ASSUME Computer, Mark
  PROVE  Sound
<1>1. /\ Restoring /\ todo # <<>> /\ Head(todo)[1] = "mark" /\ marker' = "restored"
      /\ run' = [run EXCEPT !.todo = <<>>] /\ todo' = <<>> /\ UNCHANGED <<host, files, inPlace>>
  BY DEF Mark, Doing
<1>2. run.step = 12 /\ run.at = "fix" /\ marker \in {"none", "started"}
  BY <1>1, RestoringIs
<1>3. Len(todo) = 1
  BY <1>1, HeadIs, WhereIs DEF Computer, PlanInv
<1>4. host.tokens = "old" /\ host.admin = "old" /\ host.account = "old"
  BY <1>1, <1>3 DEF Computer, LeftInv
<1>5. RunInv' /\ run'.step = 12 /\ run'.todo = <<>>
  BY <1>1, <1>2 DEF Computer, RunInv
<1>6. MadeInv' /\ SetUp'
  BY <1>1, <1>4, <1>5 DEF MadeInv, Made, SetUp
<1>7. HostInv' /\ FilesInv' /\ FilesKept
  BY <1>1 DEF Computer, HostInv, FilesInv, FilesKept
<1>8. PlanInv' /\ LeftInv'
  <2>1. Len(Plan) \in Nat
    BY PlanIs, TakenIs DEF Computer, PlanInv
  <2> QED BY <1>1, <2>1, PlanStays DEF Computer, PlanInv, LeftInv
<1> QED BY <1>1, <1>5, <1>6, <1>7, <1>8 DEF Computer, Sound

LEMMA WrongPasswordKeeps ==
  ASSUME Computer, WrongPassword
  PROVE  Sound
<1>1. /\ Restoring /\ todo # <<>> /\ Head(todo)[1] = "fill" /\ Target = "kopia"
      /\ files' = [files EXCEPT !["kopia"] = "whole"] /\ Ends("failed") /\ todo' = <<>>
      /\ UNCHANGED <<host, marker, inPlace>>
  BY DEF WrongPassword, Doing
<1>2. files["kopia"] = "absent"
  BY <1>1, TakingStep
<1>3. Fresh(run')
  BY <1>1 DEF Ends, Fresh, Idle
<1>4. FilesInv' /\ FilesKept
  BY <1>1, <1>2 DEF Computer, FilesInv, FilesKept, Content
<1> QED BY <1>1, <1>3, <1>4, FreshKeeps

(* The run ends in the middle of a restore, with what the computer is left with. *)
LEMMA HalfDone ==
  ASSUME Computer, Restoring, marker = "started", NEW s, Ends(s), todo' = <<>>,
         UNCHANGED <<marker, inPlace>>, Whole(host'), host'.worker = host.worker,
         host'.tokens \in {"none", "old", host.tokens}, host'.admin \in {"none", "old", host.admin},
         host'.account \in {"none", "old", host.account}, FilesInv', FilesKept
  PROVE  Sound
<1>1. Fresh(run')
  BY DEF Ends, Fresh, Idle
<1>2. RunInv' /\ run'.step = 1
  BY <1>1 DEF Fresh, RunInv
<1>3. HostInv' /\ MadeInv' /\ ~SetUp
  BY <1>2, OldStays DEF Computer, HostInv, Whole
<1>4. PlanInv' /\ LeftInv'
  <2>1. Len(Plan) \in Nat
    BY PlanIs, TakenIs DEF Computer, PlanInv
  <2> QED BY <2>1, PlanStays DEF Computer, PlanInv, LeftInv
<1> QED BY <1>2, <1>3, <1>4 DEF Computer, Sound

LEMMA FillFailsKeeps ==
  ASSUME Computer, FillFails
  PROVE  Sound
<1>1. /\ Restoring /\ todo # <<>> /\ Head(todo)[1] = "fill" /\ Ends("failed") /\ todo' = <<>>
      /\ files' = [files EXCEPT ![Target] = IF @ = "theirs" THEN @ ELSE "partial"]
      /\ UNCHANGED <<marker, inPlace>>
  BY DEF FillFails, Doing
<1>2. PICK v : host' = Brought(Target, v)
  BY DEF FillFails
<1>3. marker = "started" /\ Target \in TargetSet /\ files[Target] = "absent"
  BY <1>1, TakingStep
<1>4. /\ Whole(host') /\ host'.worker = host.worker
      /\ host'.tokens \in {"old", host.tokens} /\ host'.admin \in {"old", host.admin}
      /\ host'.account \in {"old", host.account}
  BY <1>2, BroughtIs DEF Computer
<1>5. FilesInv' /\ FilesKept
  BY <1>1, <1>3 DEF Computer, FilesInv, FilesKept, Content
<1> QED BY <1>1, <1>3, <1>4, <1>5, HalfDone

LEMMA ClearDiesKeeps ==
  ASSUME Computer, ClearDies
  PROVE  Sound
<1>1. /\ Restoring /\ todo # <<>> /\ marker = "started" /\ Ends("idle") /\ todo' = <<>>
      /\ UNCHANGED <<marker, inPlace>>
  BY DEF ClearDies, Doing, Interrupted
<1>2. PICK gone \in SUBSET Removable, half \in Removable :
        /\ files' = [t \in TargetSet |-> IF t = half THEN "changed"
                                         ELSE IF t \in gone THEN "absent" ELSE files[t]]
        /\ host' = Without(gone \cup {half})
  BY DEF ClearDies
<1>3. /\ Whole(host') /\ host'.worker = host.worker
      /\ host'.tokens \in {"none", host.tokens} /\ host'.admin \in {"none", host.admin}
      /\ host'.account \in {"none", host.account}
  BY <1>2, WithoutIs DEF Computer
<1>4. FilesInv' /\ FilesKept
  <2>1. \A t \in Removable : t \in TargetSet /\ files[t] = "whole"
    BY DEF Removable, Leftover
  <2> QED BY <1>2, <2>1 DEF Computer, FilesInv, FilesKept, Content
<1> QED BY <1>1, <1>3, <1>4, HalfDone

LEMMA RebuildStepKeeps ==
  ASSUME Computer, RebuildStep
  PROVE  Sound
BY OpenRebuildKeeps, ClearKeeps, LookKeeps, BeginKeeps, OwnKeeps, FillKeeps, WrongPasswordKeeps,
   SealKeeps, MarkKeeps DEF RebuildStep

-----------------------------------------------------------------------------
(* The whole step: installer, worker, owner and what goes wrong. *)

LEMMA NothingKeeps ==
  ASSUME Computer, UNCHANGED <<host, run, files, marker, todo, inPlace>>
  PROVE  Sound
<1>1. Whole(host') /\ Kept(host')
  BY DEF Computer, HostInv, Whole, Kept
<1> QED BY <1>1, StillKeeps

LEMMA FinishKeeps ==
  ASSUME Computer, Finish
  PROVE  Sound
<1>1. run.at # "fix" /\ UNCHANGED <<host, files, marker, todo, inPlace>>
  BY DEF Finish, rebuildVars
<1>2. todo = <<>>
  BY <1>1, RestoringIs, HeadIs DEF Computer
<1>3. Ends("ready") \/ Ends("idle")
  BY DEF Finish
<1> QED BY <1>1, <1>2, <1>3, EndKeeps

LEMMA SetupStepKeeps ==
  ASSUME Computer, SetupStep
  PROVE  Sound
BY CheckKeeps, VerifyKeeps, CommandKeeps, ApproveKeeps, CommandRefusedKeeps, WorldKeeps,
   RebuildStepKeeps, FinishKeeps DEF SetupStep

LEMMA WorkerStepKeeps ==
  ASSUME Computer, WorkerStep
  PROVE  Sound /\ UNCHANGED <<host, marker>>
<1>1. UNCHANGED <<host, run, files, marker, todo, inPlace>>
  BY DEF WorkerStep, Claim, InstallApp, CoreWithoutChat, CoreVerified, VerifyRuns, Resume, Unbusy,
         Quiet, hostVars, rebuildVars
<1> QED BY <1>1, NothingKeeps

LEMMA TroublesKeep ==
  ASSUME Computer, Troubles
  PROVE  Sound
<1>1. CASE CoreFails \/ WorkerDies
  BY <1>1, NothingKeeps DEF CoreFails, WorkerDies, rebuildVars
<1>2. CASE (CommandFails \/ Disturb) /\ UNCHANGED rebuildVars
  BY <1>2, CommandFailsKeeps, WorldKeeps
<1>3. CASE Die /\ todo' = <<>> /\ UNCHANGED <<files, owned, marker, inPlace>>
  BY <1>3, DieKeeps
<1>4. CASE FillFails \/ ClearDies \/ Meddle
  BY <1>4, FillFailsKeeps, ClearDiesKeeps, MeddleKeeps
<1> QED BY <1>1, <1>2, <1>3, <1>4 DEF Troubles

LEMMA PeopleKeep ==
  ASSUME Computer, People
  PROVE  Sound
<1>1. CASE \E restoring \in Modes : StartRun(restoring) /\ UNCHANGED rebuildVars
  BY <1>1, StartKeeps
<1>2. CASE (Pull \/ Login \/ FreePort) /\ UNCHANGED rebuildVars
  BY <1>2, WorldKeeps
<1>3. CASE \/ AskFor("install") \/ AskFor("verify") \/ AddProvider \/ RemoveProvider \/ AppBusy
  BY <1>3, NothingKeeps DEF AskFor, AddProvider, RemoveProvider, AppBusy, hostVars, rebuildVars
<1> QED BY <1>1, <1>2, <1>3 DEF People

(* The jobs: at most one is pending, and the worker has none but that one. *)
DoneStays == CoreDone => CoreDone'

LEMMA SameJobs ==
  ASSUME JobsInv, UNCHANGED <<jobs, job>>, SetUp => SetUp'
  PROVE  JobsInv' /\ DoneStays
BY DEF JobsInv, Pending, DoneStays, CoreDone

LEMMA NewJobIs ==
  ASSUME NEW a \in {"install", "verify"}, NEW by \in {"bootstrap", "owner"}, NEW known \in BOOLEAN
  PROVE  /\ NewJob(a, by) \in JobType /\ NewJob(a, by).state = "queued"
         /\ [NewJob(a, by) EXCEPT !.identity = known] \in JobType
         /\ [NewJob(a, by) EXCEPT !.identity = known].state = "queued"
BY DEF NewJob, JobType, JobStates

(* One more job, when none is pending. *)
LEMMA OneMore ==
  ASSUME JobsInv, Pending = {}, NEW new \in JobType, jobs' = Append(jobs, new), job' = job
  PROVE  JobsInv' /\ DoneStays
<1>1. /\ jobs' \in Seq(JobType) /\ Len(jobs') = Len(jobs) + 1 /\ Len(jobs) \in Nat
      /\ \A n \in 1 .. Len(jobs) : jobs'[n] = jobs[n]
  BY AppendProperties DEF JobsInv
<1>2. job = 0 /\ job' = 0
  BY DEF JobsInv
<1>3. \A n \in Pending' : n = Len(jobs) + 1
  BY <1>1 DEF Pending
<1>4. DoneStays
  BY <1>1 DEF DoneStays, CoreDone
<1> QED BY <1>1, <1>2, <1>3, <1>4 DEF JobsInv

(* One of the jobs changes, but not into one that waits. *)
LEMMA OneChanges ==
  ASSUME JobsInv, NEW n, NEW new, n \in 1 .. Len(jobs) => new \in JobType,
         jobs' = [jobs EXCEPT ![n] = new],
         n \in Pending \/ (n \in 1 .. Len(jobs) => new.state = jobs[n].state /\ new.after = jobs[n].after),
         job' = 0 \/ (job' \in Pending' /\ SetUp')
  PROVE  JobsInv' /\ DoneStays
<1>1. jobs' \in Seq(JobType) /\ Len(jobs') = Len(jobs) /\ Len(jobs) \in Nat
  <2>1. CASE n \in 1 .. Len(jobs)
    BY <2>1, ExceptSeq DEF JobsInv
  <2>2. CASE n \notin 1 .. Len(jobs)
    <3>1. DOMAIN jobs = 1 .. Len(jobs)
      BY DEF JobsInv
    <3>2. jobs' = jobs
      BY <2>2, <3>1 DEF JobsInv
    <3>3. jobs \in Seq(JobType) /\ Len(jobs) \in Nat
      BY LenProperties DEF JobsInv
    <3> QED BY <3>2, <3>3
  <2> QED BY <2>1, <2>2
<1>2. \A m \in 1 .. Len(jobs) : jobs'[m] = IF m = n THEN new ELSE jobs[m]
  BY DEF JobsInv
<1>3. Pending' \subseteq Pending
  BY <1>1, <1>2 DEF Pending
<1>4. DoneStays
  BY <1>1, <1>2 DEF DoneStays, CoreDone, Pending
<1>5. Pending' \subseteq 1 .. Len(jobs')
  BY DEF Pending
<1>6. job' \in 0 .. Len(jobs') /\ (job' # 0 => job' \in Pending' /\ SetUp')
  <2>1. CASE job' = 0
    BY <1>1, <2>1
  <2>2. CASE job' \in Pending' /\ SetUp'
    BY <1>1, <1>5, <2>2
  <2> QED BY <2>1, <2>2
<1>7. \A m, k \in Pending' : m = k
  BY <1>3 DEF JobsInv
<1> QED BY <1>1, <1>4, <1>6, <1>7 DEF JobsInv

(* launch_core_setup: the job there is, told of the owner, or a new one. *)
LEMMA LaunchKeeps ==
  ASSUME JobsInv, NEW known \in BOOLEAN, jobs' \in {jobs, Launched(known), Room(Launched(known))},
         job' = job, SetUp => SetUp'
  PROVE  JobsInv' /\ DoneStays
<1>1. CASE jobs' = jobs
  BY <1>1, SameJobs
<1>2. CASE jobs' = Launched(known) /\ Active = {}
  <2> DEFINE new == [NewJob("install", "bootstrap") EXCEPT !.identity = known]
  <2>1. new \in JobType
    BY NewJobIs
  <2>2. Pending = {}
    BY <1>2 DEF Pending, Active
  <2>3. jobs' = Append(jobs, new)
    BY <1>2 DEF Launched
  <2> HIDE DEF new
  <2> QED BY <2>1, <2>2, <2>3, OneMore
<1>3. CASE jobs' = Launched(known) /\ Active # {}
  <2> DEFINE n == LastActive
             told == jobs[n].identity \/ (known /\ n \in Pending)
             new == [jobs[n] EXCEPT !.identity = told]
  <2>1. jobs' = [jobs EXCEPT ![n] = new]
    BY <1>3 DEF Launched
  <2>2. told \in BOOLEAN
    OBVIOUS
  <2> HIDE DEF n, told
  <2>3. n \in 1 .. Len(jobs) => jobs[n] \in JobType
    BY DEF JobsInv
  <2>4. n \in 1 .. Len(jobs) => new \in JobType /\ new.state = jobs[n].state /\ new.after = jobs[n].after
    BY <2>2, <2>3 DEF JobType
  <2>5. job' = 0 \/ (job' \in Pending' /\ SetUp')
    <3>1. Pending' = Pending
      <4>1. DOMAIN jobs = 1 .. Len(jobs) /\ Len(jobs') = Len(jobs)
        <5>1. jobs \in Seq(JobType)
          BY DEF JobsInv
        <5> QED BY <2>1, <5>1
      <4>2. \A m \in 1 .. Len(jobs) : jobs'[m].state = jobs[m].state
        BY <2>1, <2>4, <4>1
      <4> QED BY <4>1, <4>2 DEF Pending
    <3> QED BY <3>1 DEF JobsInv
  <2> HIDE DEF new
  <2> QED BY <2>1, <2>4, <2>5, OneChanges
<1> QED BY <1>1, <1>2, <1>3 DEF Room

(* prepare_database, in a rebuild: no job of the old computer is pending. *)
LEMMA BroughtKeeps ==
  ASSUME Computer, JobsInv, DatabaseBrought, job' = job, SetUp => SetUp'
  PROVE  JobsInv' /\ (marker = "restored" => DoneStays)
<1>1. CASE jobs' = jobs
  BY <1>1, SameJobs
<1>2. CASE todo # <<>> /\ Head(todo) = <<"fill", "control">> /\ jobs' \in {<<>>, <<OldJob>>}
  <2>1. Restoring
    BY <1>2 DEF Computer, PlanInv
  <2>2. marker = "started"
    BY <1>2, <2>1, TakingStep
  <2>3. job = 0
    BY <2>2 DEF JobsInv, SetUp
  <2>4. OldJob \in JobType /\ OldJob.state = "succeeded"
    BY DEF OldJob, NewJob, JobType, JobStates
  <2>5. jobs' \in Seq(JobType)
    <3>1. <<>> \in Seq(JobType) /\ <<OldJob>> \in Seq(JobType)
      BY <2>4, EmptySeq
    <3> QED BY <1>2, <3>1
  <2>6. Pending' = {} /\ Len(jobs') \in {0, 1}
    BY <1>2, <2>4 DEF Pending
  <2> QED BY <2>2, <2>3, <2>5, <2>6 DEF JobsInv
<1> QED BY <1>1, <1>2 DEF DatabaseBrought

(* The job of the worker ends, waits again, or is taken. *)
LEMMA EndJobKeeps ==
  ASSUME JobsInv, Working, NEW s \in {"succeeded", "failed"}, EndJob(s)
  PROVE  JobsInv' /\ DoneStays
<1>1. job \in Pending /\ job \in 1 .. Len(jobs) /\ jobs[job] \in JobType
  BY DEF JobsInv, Working, Pending
<1>2. Ended(s) \in JobType
  BY <1>1 DEF Ended, Mine, JobType, JobStates
<1> QED BY <1>1, <1>2, OneChanges DEF EndJob

LEMMA WaitKeeps ==
  ASSUME JobsInv, Working, jobs' = [jobs EXCEPT ![job].state = "queued"], job' = 0
  PROVE  JobsInv' /\ DoneStays
<1> DEFINE new == [jobs[job] EXCEPT !.state = "queued"]
<1>1. job \in Pending /\ job \in 1 .. Len(jobs) /\ jobs[job] \in JobType
  BY DEF JobsInv, Working, Pending
<1>2. new \in JobType /\ jobs' = [jobs EXCEPT ![job] = new]
  BY <1>1 DEF JobType, JobStates
<1> HIDE DEF new
<1> QED BY <1>1, <1>2, OneChanges

LEMMA ClaimKeeps ==
  ASSUME Computer, JobsInv, Claim, Sound
  PROVE  JobsInv' /\ DoneStays
<1>1. job' \in Pending
  <2>1. PICK p \in Pending : TRUE
    BY DEF Claim
  <2>2. \A m \in Pending : p <= m
    BY <2>1 DEF JobsInv, Pending
  <2> QED BY <2>1, <2>2 DEF Claim
<1> DEFINE n == job'  new == [jobs[n] EXCEPT !.state = "running"]
<1>2. n \in 1 .. Len(jobs) /\ jobs[n] \in JobType
  BY <1>1 DEF JobsInv, Pending
<1>3. jobs' = [jobs EXCEPT ![n] = new]
  BY DEF Claim
<1>4. new \in JobType /\ new.state = "running"
  BY <1>2 DEF JobType, JobStates
<1>5. n \in Pending'
  <2>1. jobs'[n] = new /\ Len(jobs') = Len(jobs)
    <3>1. jobs \in Seq(JobType)
      BY DEF JobsInv
    <3> QED BY <1>2, <1>3, <3>1
  <2> QED BY <1>2, <1>4, <2>1 DEF Pending
<1>6. SetUp'
  BY DEF Claim, Computer, MadeInv, Sound
<1> HIDE DEF new
<1> QED BY <1>1, <1>3, <1>4, <1>5, <1>6, OneChanges

(* What is pending and who works on it, after any step. *)
LEMMA JobsKeep ==
  ASSUME Computer, JobsInv, Next, Sound
  PROVE  JobsInv' /\ (marker = "restored" => DoneStays)
<1>1. SetUp => SetUp'
  BY DEF Sound
<1>2. Owner \in BOOLEAN
  BY DEF Owner
<1>3. ASSUME SetupStep
      PROVE  JobsInv' /\ (marker = "restored" => DoneStays)
  <2>1. CASE HeadStart
    <3>1. job' = job /\ jobs' \in {jobs, Room(Launched(Owner))}
      BY <2>1 DEF HeadStart, Launch, coreVars
    <3> QED BY <1>1, <1>2, <3>1, LaunchKeeps
  <2>2. CASE UNCHANGED coreVars
    BY <1>1, <2>2, SameJobs DEF coreVars
  <2>3. CASE DatabaseBrought /\ job' = job
    BY <1>1, <2>3, BroughtKeeps
  <2>4. CASE Finish
    <3>1. job' = job /\ jobs' \in {jobs, Room(Launched(Owner)), Room(Launched(FALSE))}
      BY <2>4 DEF Finish, Launch
    <3> QED BY <1>1, <1>2, <3>1, LaunchKeeps
  <2> QED BY <1>3, <2>1, <2>2, <2>3, <2>4 DEF SetupStep
<1>4. ASSUME WorkerStep
      PROVE  JobsInv' /\ DoneStays
  <2>1. CASE Claim
    BY <2>1, ClaimKeeps
  <2>2. CASE InstallApp \/ Resume \/ Unbusy
    BY <1>1, <2>2, SameJobs DEF InstallApp, Resume, Unbusy
  <2>3. CASE CoreWithoutChat \/ CoreVerified \/ VerifyRuns
    <3>1. Working /\ (EndJob("succeeded") \/ EndJob("failed"))
      BY <2>3 DEF CoreWithoutChat, CoreVerified, VerifyRuns
    <3> QED BY <3>1, EndJobKeeps
  <2> QED BY <1>4, <2>1, <2>2, <2>3 DEF WorkerStep
<1>5. ASSUME Troubles
      PROVE  JobsInv' /\ (marker = "restored" => DoneStays)
  <2>1. CASE UNCHANGED <<jobs, job>>
    BY <1>1, <2>1, SameJobs
  <2>2. CASE DatabaseBrought /\ job' = job
    BY <1>1, <2>2, BroughtKeeps
  <2>3. CASE CoreFails
    BY <2>3, EndJobKeeps DEF CoreFails
  <2>4. CASE WorkerDies
    BY <2>4, WaitKeeps DEF WorkerDies
  <2> QED BY <1>5, <2>1, <2>2, <2>3, <2>4 DEF Troubles, coreVars
<1>6. ASSUME People
      PROVE  JobsInv' /\ DoneStays
  <2>1. CASE UNCHANGED <<jobs, job>>
    BY <1>1, <2>1, SameJobs
  <2>2. CASE Pending = {} /\ job' = job /\ \E a \in {"install", "verify"} : jobs' = Append(jobs, NewJob(a, "owner"))
    <3>1. PICK a \in {"install", "verify"} : jobs' = Append(jobs, NewJob(a, "owner"))
      BY <2>2
    <3>2. NewJob(a, "owner") \in JobType
      BY NewJobIs
    <3> QED BY <2>2, <3>1, <3>2, OneMore
  <2>3. CASE AskFor("install") \/ AskFor("verify")
    BY <2>2, <2>3 DEF AskFor
  <2>4. CASE AddProvider
    BY <2>1, <2>2, <2>4 DEF AddProvider
  <2> QED BY <1>6, <2>1, <2>3, <2>4 DEF People, RemoveProvider, AppBusy, coreVars
<1> QED BY <1>3, <1>4, <1>5, <1>6 DEF Next

LEMMA StartedKeeps ==
  ASSUME StartedInv, marker = "restored" => marker' = "restored" /\ DoneStays, Next
  PROVE  StartedInv'
<1>1. CASE UNCHANGED <<starts, noted>>
  BY <1>1 DEF StartedInv, DoneStays
<1>2. CASE Resume
  <2>1. /\ marker = "restored" /\ marker' = marker /\ CoreDone'
        /\ starts' = Started /\ noted' \in {noted, noted \cup Due}
    BY <1>2 DEF Resume, DoneStays, rebuildVars
  <2>2. \A a \in Apps : /\ starts'[a] \in {0, 1}
                        /\ starts[a] = 1 => starts'[a] = 1
                        /\ a \in Due => starts'[a] = 1
    BY <2>1 DEF StartedInv, Started, Keyed
  <2>3. starts' \in [Apps -> {0, 1}]
    BY <2>1, <2>2 DEF Started
  <2>4. Due \subseteq Apps
    BY DEF Due
  <2> QED BY <2>1, <2>2, <2>3, <2>4 DEF StartedInv
<1> QED BY <1>1, <1>2
     DEF Next, SetupStep, HeadStart, Finish, coreVars, WorkerStep, Claim, InstallApp, CoreWithoutChat,
         CoreVerified, VerifyRuns, Unbusy, Quiet, Troubles, CoreFails, WorkerDies, People, AskFor,
         AddProvider, RemoveProvider, AppBusy

LEMMA InitIInv == Init => IInv
<1> SUFFICES ASSUME Init PROVE IInv
  OBVIOUS
<1>1. /\ \E engine \in Engines : host = FreshHost(engine, TRUE)
      /\ run = Idle /\ RebuildInit /\ CoreInit
  BY DEF Init
<1>2. HostInv /\ host.tokens = "none" /\ host.admin = "none" /\ host.account = "none" /\ host.worker = 0
  BY <1>1 DEF FreshHost, HostInv
<1>3. marker = "none" /\ todo = <<>> /\ inPlace \in BOOLEAN /\ FilesInv
  BY <1>1 DEF RebuildInit, FilesInv, Content
<1>4. RunInv /\ run.step = 1 /\ run.todo = <<>>
  BY <1>1, EmptySeq DEF RunInv, Idle
<1>5. MadeInv
  BY <1>2, <1>3, <1>4 DEF MadeInv, Made
<1>6. PlanInv /\ LeftInv
  <2>1. Len(Plan) \in Nat
    BY <1>3, PlanIs, TakenIs
  <2> QED BY <1>3, <2>1, EmptySeq DEF PlanInv, LeftInv
<1>7. JobsInv
  BY <1>1, EmptySeq DEF CoreInit, JobsInv, Pending
<1>8. StartedInv
  BY <1>1 DEF CoreInit, StartedInv
<1> QED BY <1>2, <1>3, <1>4, <1>5, <1>6, <1>7, <1>8 DEF IInv

LEMMA NextIInv == IInv /\ [Next]_vars => IInv' /\ FilesKept
<1> SUFFICES ASSUME IInv, [Next]_vars PROVE IInv' /\ FilesKept
  OBVIOUS
<1>1. Computer /\ JobsInv /\ StartedInv
  BY DEF IInv, Computer
<1>2. CASE Next
  <2>1. Sound
    BY <1>1, <1>2, SetupStepKeeps, WorkerStepKeeps, TroublesKeep, PeopleKeep DEF Next
  <2>2. JobsInv' /\ (marker = "restored" => DoneStays)
    BY <1>1, <1>2, <2>1, JobsKeep
  <2>3. StartedInv'
    BY <1>1, <1>2, <2>1, <2>2, StartedKeeps DEF Sound
  <2> QED BY <2>1, <2>2, <2>3 DEF Sound, Computer, IInv
<1>3. CASE UNCHANGED vars
  <2>1. UNCHANGED <<host, run, files, marker, todo, inPlace, jobs, job, starts, noted>>
    BY <1>3 DEF vars, hostVars, rebuildVars, coreVars
  <2>2. Sound
    BY <1>1, <2>1, NothingKeeps
  <2>3. JobsInv' /\ DoneStays
    BY <1>1, <2>1, <2>2, SameJobs DEF Sound
  <2>4. StartedInv'
    BY <1>1, <2>1, <2>3 DEF StartedInv, DoneStays
  <2> QED BY <2>2, <2>3, <2>4 DEF Sound, Computer, IInv
<1> QED BY <1>2, <1>3

(* Everything the next two theorems rest on holds in every state. *)
THEOREM SetupInvariance == Spec => []IInv
<1>1. Init => IInv
  BY InitIInv
<1>2. IInv /\ [Next]_vars => IInv'
  BY NextIInv
<1> QED BY <1>1, <1>2, PTL DEF Spec

(* However often the installer launches core setup, the owner asks for it and the
   worker dies, one core job at most is under way; and after a rebuild each app
   that ran is given one start job, once this computer's core setup has succeeded
   (launch_core_setup, the claim of a job, rebuild.resume). *)
THEOREM SetupStartsOnce == Spec => []StartsOnce
<1>1. IInv => OneCoreJob
  <2> SUFFICES ASSUME IInv PROVE Cardinality(Pending) <= 1
    BY DEF OneCoreJob
  <2>1. \A m, n \in Pending : m = n
    BY DEF IInv, JobsInv
  <2>2. CASE Pending = {}
    BY <2>2, FS_EmptySet
  <2>3. CASE Pending # {}
    <3>1. PICK p \in Pending : TRUE
      BY <2>3
    <3>2. Pending = {p}
      BY <2>1, <3>1
    <3> QED BY <3>2, FS_Singleton
  <2> QED BY <2>2, <2>3
<1>2. IInv => AppsStartOnce
  BY DEF IInv, StartedInv, CoreDone, AppsStartOnce
<1> QED BY <1>1, <1>2, SetupInvariance, PTL DEF StartsOnce

(* Whatever a rebuild fails at, wherever it dies and whatever a person puts in its
   way, no new secrets, sign-in account or vault account meet restored ones, and
   no file of somebody else is altered or removed (rebuild.restore). *)
THEOREM RebuildsAreClean == Spec => RebuildIsClean
<1>1. IInv => OneComputersData
  BY DEF IInv, MadeInv, Made, OneComputersData
<1>2. IInv /\ [Next]_vars =>
        [\A t \in TargetSet : files[t] \in {"theirs", "changed"} => files'[t] = files[t]]_vars
  BY NextIInv DEF FilesKept
<1> QED BY <1>1, <1>2, SetupInvariance, PTL DEF Spec, RebuildIsClean, RebuildKeepsFiles

-----------------------------------------------------------------------------
(* The sign-in and the stamps: what holds of the configuration, of Caddy, of
   Authentik and of the stamps after each command of each step, whichever run
   stopped there. *)

(* The parts of the computer that sign-in and readiness depend on. *)
Fields ==
  {"target", "caddy", "keys", "sources", "gate", "synced", "boundary", "built", "units", "svcStamp", "ctl",
   "worker", "images", "served", "tokens"}
Sources == {"docker", "tailscale", "nvidia"}
HostTypes ==
  /\ Fields \subseteq DOMAIN host
  /\ host.target \in Configs /\ host.caddy \in Configs
  /\ host.keys \cup host.sources \subseteq Sources
  /\ host.gate \in Nat /\ host.synced \in Nat
  /\ host.boundary \in Nat /\ host.svcStamp \in Nat
  /\ host.served \subseteq Routes
RestTypes ==
  /\ checkout \in Versions /\ trouble \in 0 .. MaxTrouble
  /\ run.at \in {"check", "fix", "finish"}
  /\ ~Running => run.step = 1 /\ run.at = "check"
  /\ run.at = "finish" => run.step >= 20
  /\ owned \in [TargetSet -> {"no", "open", "sealed"}]
  /\ phase \in [Phases -> PhaseStates]

(* Nothing is of a version that was never checked out. *)
PastInv == host.target[2] <= checkout /\ host.caddy[2] <= checkout
           /\ host.boundary <= checkout /\ host.svcStamp <= checkout

(* The gateway runs only on a computer that is set up; Authentik knows the version
   the configuration asks for, except in the middle of a rebuild. *)
IsAuth(config) == config[1] = "auth"
GatedInv ==
  /\ host.caddy # None => SetUp
  /\ IsAuth(host.target) => IF marker = "started" THEN host.gate = host.target[2]
                            ELSE host.synced >= host.target[2]
  /\ todo # <<>> /\ Len(todo) < 6 => host.synced = host.gate
  /\ todo # <<>> /\ Len(todo) = StepsToGo + 1 => ~IsAuth(host.target)
  /\ DashboardIsGated
  /\ phase["dashboard_protection"] = "verified" => SetUp /\ host.gate # 0 /\ host.synced # 0

(* What a stamp of this version says is so. *)
StampInv ==
  /\ host.svcStamp = checkout => host.worker = checkout /\ host.ctl \in {0, checkout}
  /\ host.boundary = checkout => host.caddy \in {None, Deny(checkout), Auth(checkout)}

(* A command that needs another is never without it: it was run, or comes first. *)
First(todos, c, d, done) ==
  \A i \in DOMAIN todos : todos[i] = c => done \/ \E j \in 1 .. i - 1 : todos[j] = d
SafeTarget == host.target \in {None, Deny(checkout), Auth(checkout)}
SafeCaddy == host.caddy \in {None, Deny(checkout), Auth(checkout)}
OrderInv ==
  /\ First(run.todo, "write_target", "sync_gate", host.synced = checkout)
  /\ First(run.todo, "gate_up", "write_target", host.target = Auth(checkout))
  /\ First(run.todo, "caddy_up", "safe_config", SafeTarget)
  /\ First(run.todo, "await_caddy", "caddy_up", SafeCaddy)
  /\ First(run.todo, "await_health", "restart_ctl", host.ctl = checkout)
  /\ First(run.todo, "await_health", "restart_worker", host.worker = checkout)

(* What a step that is ready leaves, as long as the run lasts. *)
Left(n) ==
  CASE n = 10 -> host.built = checkout
    [] n = 14 -> host.svcStamp = checkout /\ host.ctl # 0
    [] n = 15 -> host.boundary = checkout /\ host.caddy # None
    [] n = 18 -> "vault" \in host.served
    [] n = 21 -> "authentik" \in host.served
    [] n = 23 -> "lobehub" \in host.served
    [] n = 25 -> host.target = Auth(checkout) /\ host.gate = checkout /\ IsAuth(host.caddy)
    [] n = 26 -> "dashboard" \in host.served
    [] n = 27 -> host.images = checkout
    [] OTHER -> TRUE
Passed(n) == n < run.step \/ run.at = "finish"
ReadyInv == \A n \in 1 .. 27 : Passed(n) => Left(n)

GateInv == HostTypes /\ RestTypes /\ PastInv /\ GatedInv /\ StampInv /\ OrderInv /\ ReadyInv

-----------------------------------------------------------------------------
(* Commands that come in their order. *)

LEMMA FirstTail ==
  ASSUME NEW C, NEW todos \in Seq(C), todos # <<>>, NEW c, NEW d, NEW done, NEW now,
         First(todos, c, d, done), done => now, Head(todos) = d => now
  PROVE  First(Tail(todos), c, d, now)
<1>1. /\ Tail(todos) \in Seq(C) /\ Len(Tail(todos)) = Len(todos) - 1 /\ Len(todos) \in Nat
      /\ \A i \in 1 .. Len(Tail(todos)) : Tail(todos)[i] = todos[i + 1]
      /\ DOMAIN todos = 1 .. Len(todos) /\ DOMAIN Tail(todos) = 1 .. Len(Tail(todos)) /\ Head(todos) = todos[1]
  BY HeadTailProperties
<1>2. SUFFICES ASSUME NEW i \in 1 .. Len(Tail(todos)), Tail(todos)[i] = c, ~now
               PROVE  \E j \in 1 .. i - 1 : Tail(todos)[j] = d
  BY <1>1 DEF First
<1>3. i + 1 \in 1 .. Len(todos) /\ todos[i + 1] = c /\ (i + 1) - 1 = i
  BY <1>1, <1>2
<1>4. PICK j \in 1 .. i : todos[j] = d
  BY <1>1, <1>2, <1>3 DEF First
<1>5. j # 1
  BY <1>1, <1>2, <1>4
<1>6. j - 1 \in 1 .. i - 1 /\ j - 1 \in 1 .. Len(Tail(todos)) /\ (j - 1) + 1 = j
  BY <1>1, <1>4, <1>5
<1>7. Tail(todos)[j - 1] = d
  BY <1>1, <1>4, <1>6
<1> QED BY <1>6, <1>7

(* What is no command of the sequence needs nothing. *)
LEMMA FirstNot ==
  ASSUME NEW C, NEW todos \in Seq(C), NEW c, c \notin C, NEW d, NEW done
  PROVE  First(todos, c, d, done)
<1>1. \A i \in DOMAIN todos : todos[i] \in C
  OBVIOUS
<1> QED BY <1>1 DEF First

Ordered(todos) ==
  \A done : /\ First(todos, "write_target", "sync_gate", done)
            /\ First(todos, "gate_up", "write_target", done)
            /\ First(todos, "caddy_up", "safe_config", done)
            /\ First(todos, "await_caddy", "caddy_up", done)
            /\ First(todos, "await_health", "restart_ctl", done)
            /\ First(todos, "await_health", "restart_worker", done)
Needing == {"write_target", "gate_up", "caddy_up", "await_caddy", "await_health"}

LEMMA OrderedNot ==
  ASSUME NEW C, C \cap Needing = {}, NEW todos \in Seq(C)
  PROVE  Ordered(todos)
BY FirstNot DEF Ordered, Needing

(* A fix has its commands in their order. *)
LEMMA FixesOrdered ==
  ASSUME NEW n \in 1 .. 27, NEW state
  PROVE  Ordered(FixOf(Steps[n], state))
<1> DEFINE F == FixOf(Steps[n], state)
<1>1. F \in Seq(CommandsAt(n))
  BY FixesAre
<1>2. CASE n < 14 \/ n = 17
  <2>1. CommandsAt(n) \cap Needing = {}
    BY <1>2 DEF CommandsAt, DockerCommands, Needing
  <2> QED BY <1>1, <2>1, OrderedNot
<1>3. CASE n = 14
  <2>1. F = <<"write_units", "restart_ctl", "restart_worker", "await_health">>
    BY <1>3 DEF FixOf, FixService, Steps
  <2> QED BY <2>1 DEF Ordered, First
<1>4. CASE n = 15
  <2>1. F = <<"safe_config", "caddy_up", "await_caddy">>
    BY <1>4 DEF FixOf, FixCaddy, Steps
  <2> QED BY <2>1 DEF Ordered, First
<1>5. CASE n = 25
  <2>1. F = <<"sync_gate", "write_gate", "write_target", "gate_up", "await_gate">>
    BY <1>5 DEF FixOf, FixProtection, Steps
  <2> QED BY <2>1 DEF Ordered, First
<1>6. CASE n \in {16} \cup (18 .. 24) \cup {26, 27}
  <2> DEFINE C == LateCommands \ Needing
  <2>1. Steps[n] \in {"vaultwarden", "vaultwarden_serve", "browser_extension", "authentik", "authentik_serve",
                      "tailnet_relay", "lobehub_serve", "authentik_setup", "serve", "core_images"}
    BY <1>6 DEF Steps
  <2>2. F \in {FixVault, FixVaultRoute, FixExtension, FixAuthentik, <<"serve_authentik">>, FixRelay,
               <<"serve_lobehub">>, FixAuthentikSetup, <<"serve_dashboard">>, FixImages}
    BY <2>1 DEF FixOf
  <2>3. FixVault \in Seq(C) /\ FixVaultRoute \in Seq(C) /\ FixExtension \in Seq(C) /\ FixAuthentik \in Seq(C)
    BY DEF FixVault, FixVaultRoute, FixExtension, FixAuthentik, LateCommands, Needing
  <2>4. /\ <<"serve_authentik">> \in Seq(C) /\ FixRelay \in Seq(C) /\ <<"serve_lobehub">> \in Seq(C)
        /\ FixAuthentikSetup \in Seq(C) /\ <<"serve_dashboard">> \in Seq(C) /\ FixImages \in Seq(C)
    BY DEF FixRelay, FixAuthentikSetup, FixImages, LateCommands, Needing
  <2>5. C \cap Needing = {}
    OBVIOUS
  <2> HIDE DEF C
  <2>6. F \in Seq(C)
    BY <2>2, <2>3, <2>4
  <2> QED BY <2>5, <2>6, OrderedNot
<1> QED BY <1>2, <1>3, <1>4, <1>5, <1>6

-----------------------------------------------------------------------------
(* What the commands leave of the gateway, the gate and the stamps. *)

LEMMA ConfigsAre ==
  /\ \A w \in Configs : /\ w[2] \in Nat
                        /\ IsAuth(w) => w = Auth(w[2]) /\ w[2] \in Versions
  /\ \A v : /\ Auth(v)[1] = "auth" /\ Auth(v)[2] = v /\ IsAuth(Auth(v)) /\ Auth(v) # None
            /\ Deny(v)[2] = v /\ ~IsAuth(Deny(v)) /\ Deny(v) # None /\ \A w : Deny(v) # Auth(w)
            /\ v \in Versions => Auth(v) \in Configs /\ Deny(v) \in Configs
  /\ None \in Configs /\ None[2] = 0 /\ ~IsAuth(None)
<1>1. Versions \subseteq Nat
  BY DEF Versions
<1>2. \A v : /\ Auth(v)[1] = "auth" /\ Auth(v)[2] = v /\ IsAuth(Auth(v)) /\ Auth(v) # None
             /\ Deny(v)[1] = "deny" /\ Deny(v)[2] = v /\ ~IsAuth(Deny(v)) /\ Deny(v) # None
             /\ \A w : Deny(v) # Auth(w)
  <2> TAKE v
  <2>1. Auth(v)[1] = "auth" /\ Auth(v)[2] = v /\ Deny(v)[1] = "deny" /\ Deny(v)[2] = v /\ None[1] = "none"
    BY DEF Auth, Deny, None
  <2>2. \A w : Auth(w)[1] = "auth"
    BY DEF Auth
  <2> QED BY <2>1, <2>2 DEF IsAuth
<1>3. None \in Configs /\ None[2] = 0 /\ ~IsAuth(None)
  BY DEF Configs, None, IsAuth
<1>4. \A v \in Versions : Auth(v) \in Configs /\ Deny(v) \in Configs
  BY DEF Configs
<1>5. ASSUME NEW w \in Configs
      PROVE  w[2] \in Nat /\ (IsAuth(w) => w = Auth(w[2]) /\ w[2] \in Versions)
  <2>1. w = None \/ (\E v \in Versions : w = Deny(v)) \/ (\E v \in Versions : w = Auth(v))
    BY DEF Configs
  <2> QED BY <1>1, <1>2, <1>3, <2>1
<1> QED BY <1>2, <1>3, <1>4, <1>5

(* The other fields of a computer. *)
Else(h, names) == Fields \subseteq DOMAIN h /\ \A f \in Fields \ names : h[f] = host[f]

CaddyUp == IF host.target = None THEN Deny(checkout) ELSE host.target
Becomes(c, h) ==
  /\ Fields \subseteq DOMAIN h
  /\ h.target = IF c = "safe_config" THEN SafeConfig ELSE IF c = "write_target" THEN Auth(checkout) ELSE host.target
  /\ h.caddy = IF c = "caddy_up" THEN CaddyUp ELSE IF c = "gate_up" THEN host.target ELSE host.caddy
  /\ h.boundary = IF c = "await_caddy" THEN checkout ELSE host.boundary
  /\ h.synced = IF c = "sync_gate" THEN checkout ELSE host.synced
  /\ h.gate = IF c = "write_gate" THEN checkout ELSE host.gate
  /\ h.svcStamp = IF c = "await_health" THEN checkout ELSE host.svcStamp
  /\ h.ctl = IF c = "restart_ctl" THEN checkout ELSE host.ctl
  /\ h.worker = IF c = "restart_worker" THEN checkout ELSE host.worker
  /\ h.built = IF c = "build" THEN checkout ELSE host.built
  /\ h.images = IF c = "pull_images" THEN checkout ELSE host.images
  /\ host.served \subseteq h.served /\ h.served \subseteq Routes
  /\ h.keys \cup h.sources \subseteq Sources

Gateway == {"safe_config", "caddy_up", "await_caddy", "sync_gate", "write_gate", "write_target", "gate_up",
            "await_gate"}
Services == {"build", "write_units", "restart_ctl", "restart_worker", "await_health"}

(* A command that is none of those. *)
LEMMA OtherBecomes ==
  ASSUME HostTypes, NEW c, c \notin Gateway \cup Services \cup {"pull_images"}, NEW h,
         Fields \subseteq DOMAIN h, \A f \in Fields \ {"keys", "sources", "served", "tokens"} : h[f] = host[f],
         host.served \subseteq h.served, h.served \subseteq Routes, h.keys \cup h.sources \subseteq Sources
  PROVE  Becomes(c, h)
BY DEF Becomes, Fields, Gateway, Services

LEMMA AfterIs ==
  ASSUME HostTypes, run.step \in 1 .. 27, NEW c \in CommandsAt(run.step)
  PROVE  Becomes(c, After(c)) /\ (c \in Gateway \cup {"restart_worker"} => run.step > 13)
<1> DEFINE h == After(c)
<1>0. /\ Fields \subseteq DOMAIN host /\ host.keys \cup host.sources \subseteq Sources /\ host.served \subseteq Routes
  BY DEF HostTypes
<1>1. CASE run.step < 6
  <2>1. c \in {"report", "repair_keys", "apt_update", "apt_base", "tailscale_key", "tailscale_source",
               "apt_tailscale", "start_tailscale", "set_operator", "tailscale_up"}
    BY <1>1 DEF CommandsAt
  <2>2. h = PackagesAfter(c)
    BY <1>1, GroupsAre DEF After
  <2>3. /\ Fields \subseteq DOMAIN PackagesAfter(c)
        /\ \A f \in Fields \ {"keys", "sources", "served", "tokens"} : PackagesAfter(c)[f] = host[f]
        /\ PackagesAfter(c).served = host.served
        /\ PackagesAfter(c).keys \cup PackagesAfter(c).sources \subseteq Sources
    BY <1>0, <2>1 DEF PackagesAfter, Signs, Lists, Fields, Sources
  <2> QED BY <1>0, <2>1, <2>2, <2>3, OtherBecomes DEF Gateway, Services
<1>2. CASE run.step \in 6 .. 9
  <2>1. c \in DockerCommands
    BY <1>2 DEF CommandsAt
  <2>2. CASE c \in {"repair_keys", "apt_update", "docker_key", "docker_source", "nvidia_key", "nvidia_source"}
    <3>1. h = PackagesAfter(c)
      BY <1>2, <2>2, GroupsAre DEF After
    <3>2. /\ Fields \subseteq DOMAIN PackagesAfter(c)
          /\ \A f \in Fields \ {"keys", "sources", "served", "tokens"} : PackagesAfter(c)[f] = host[f]
          /\ PackagesAfter(c).served = host.served
          /\ PackagesAfter(c).keys \cup PackagesAfter(c).sources \subseteq Sources
      BY <1>0, <2>2 DEF PackagesAfter, Signs, Lists, Fields, Sources
    <3> QED BY <1>0, <2>2, <3>1, <3>2, OtherBecomes DEF Gateway, Services
  <2>3. CASE c \in {"apt_docker", "apt_compose", "start_docker", "restart_docker", "docker_group", "usermod",
                    "write_pools", "create_networks", "apt_nvidia", "nvidia_ctk"}
    <3>1. h = DockerAfter(c)
      BY <1>2, <2>3, GroupsAre DEF After
    <3> DEFINE Same(k) == Fields \subseteq DOMAIN k /\ \A f \in Fields : k[f] = host[f]
    <3>2. ASSUME NEW f \in {"group", "engine", "pools", "nets", "toolkit", "runtime"}, NEW v
          PROVE  Same([host EXCEPT ![f] = v])
      BY <1>0 DEF Fields
    <3>3. ASSUME c \in {"start_docker", "restart_docker"} PROVE Same(h)
      <4>1. DockerAfter(c) = Restarted
        BY <3>3 DEF DockerAfter
      <4>2. Same(Restarted)
        BY <1>0 DEF Restarted, Fields
      <4> QED BY <3>1, <4>1, <4>2
    <3>5. ASSUME c = "apt_docker" PROVE Same(h)
      <4>1. DockerAfter(c) = [host EXCEPT !.group = IF @ = "absent" THEN "none" ELSE @,
                                          !.engine = IF @ = "absent" THEN "daemon_down" ELSE "up"]
        BY <3>5 DEF DockerAfter
      <4>2. Same(DockerAfter(c))
        BY <1>0, <4>1 DEF Fields
      <4> QED BY <3>1, <4>2
    <3>6. ASSUME c # "apt_docker" /\ c \notin {"start_docker", "restart_docker"} PROVE Same(h)
      <4>1. PICK f \in {"group", "engine", "pools", "nets", "toolkit", "runtime"} :
              \E v : DockerAfter(c) = [host EXCEPT ![f] = v]
        BY <2>3, <3>6 DEF DockerAfter
      <4>2. Same(DockerAfter(c))
        BY <3>2, <4>1
      <4> QED BY <3>1, <4>2
    <3>7. Same(h)
      BY <3>3, <3>5, <3>6
    <3>8. /\ \A f \in Fields \ {"keys", "sources", "served", "tokens"} : h[f] = host[f]
          /\ h.served = host.served /\ h.keys = host.keys /\ h.sources = host.sources
      BY <3>7 DEF Fields
    <3> QED BY <1>0, <2>3, <3>7, <3>8, OtherBecomes DEF Gateway, Services
  <2> QED BY <2>1, <2>2, <2>3 DEF DockerCommands, Gateway
<1>3. CASE run.step \in 10 .. 12
  <2>1. c \in {"build", "make_layout", "restore", "report"}
    BY <1>3 DEF CommandsAt
  <2>2. CASE c \in {"build", "make_layout"}
    <3>1. h = ServiceAfter(c)
      BY <1>3, <2>2, GroupsAre DEF After
    <3> QED BY <1>0, <2>2, <3>1 DEF ServiceAfter, Becomes, Fields, Gateway
  <2>3. CASE c \in {"restore", "report"}
    <3>1. h = AppsAfter(c)
      BY <1>3, <2>3, GroupsAre DEF After
    <3>2. AppsAfter(c) = host
      BY <2>3 DEF AppsAfter
    <3> QED BY <1>0, <2>3, <3>1, <3>2 DEF Becomes, Gateway
  <2> QED BY <2>1, <2>2, <2>3
<1>4. CASE run.step = 13
  <2>1. c = "make_tokens"
    BY <1>4 DEF CommandsAt
  <2>2. h = [host EXCEPT !.tokens = "new"]
    BY <1>4, <2>1, GroupsAre DEF After, ServiceAfter
  <2> QED BY <1>0, <2>1, <2>2 DEF Becomes, Fields, Gateway
<1>5. CASE run.step = 17
  <2>1. c = "register"
    BY <1>5 DEF CommandsAt
  <2>2. h = [host EXCEPT !.account = "new"]
    BY <1>5, <2>1, GroupsAre DEF After, AppsAfter
  <2> QED BY <1>0, <2>1, <2>2 DEF Becomes, Fields, Gateway
<1>6. CASE run.step \in (14 .. 16) \cup (18 .. 27)
  <2>1. c \in LateCommands
    BY <1>6 DEF CommandsAt
  <2>2. CASE c \in Gateway
    <3>1. h = IngressAfter(c)
      BY <1>6, <2>2, GroupsAre DEF After, Gateway
    <3> QED BY <1>0, <1>6, <2>2, <3>1 DEF IngressAfter, Becomes, Fields, Gateway, CaddyUp
  <2>3. CASE c \in {"write_units", "restart_ctl", "restart_worker", "await_health"}
    <3>1. h = ServiceAfter(c)
      BY <1>6, <2>3, GroupsAre DEF After
    <3> QED BY <1>0, <1>6, <2>3, <3>1 DEF ServiceAfter, Becomes, Fields
  <2>4. CASE c = "pull_images"
    <3>1. h = DockerAfter(c)
      BY <1>6, <2>4, GroupsAre DEF After
    <3> QED BY <1>0, <1>6, <2>4, <3>1 DEF DockerAfter, Becomes, Fields
  <2>5. CASE c \in {"render_vault", "vault_up", "vault_private_url", "serve_vault", "write_policy",
                    "authentik_env", "authentik_up", "serve_authentik", "relay_up", "serve_lobehub",
                    "await_defaults", "clear_hash", "serve_dashboard"}
    <3>1. h = AppsAfter(c)
      BY <1>6, <2>5, GroupsAre DEF After
    <3>2. /\ Fields \subseteq DOMAIN AppsAfter(c)
          /\ \A f \in Fields \ {"served"} : AppsAfter(c)[f] = host[f]
          /\ host.served \subseteq AppsAfter(c).served /\ AppsAfter(c).served \subseteq Routes
      BY <1>0, <2>5 DEF AppsAfter, Serves, Fields, Routes
    <3>3. AppsAfter(c).keys = host.keys /\ AppsAfter(c).sources = host.sources
      BY <3>2 DEF Fields
    <3> QED BY <1>0, <1>6, <2>5, <3>1, <3>2, <3>3, OtherBecomes DEF Gateway, Services
  <2> QED BY <2>1, <2>2, <2>3, <2>4, <2>5 DEF LateCommands, Gateway
<1> QED BY <1>1, <1>2, <1>3, <1>4, <1>5, <1>6

(* What a check that is content, or a fix that verifies, says of the computer. *)
LEMMA ReadyIs ==
  ASSUME NEW n \in 1 .. 27, NEW restored,
         Skipped(Steps[n], StateOf(Steps[n], restored)) \/ StateOf(Steps[n], restored) \in Acceptable(Steps[n])
  PROVE  Left(n)
<1> DEFINE ok(s) == Skipped(s, StateOf(s, restored)) \/ StateOf(s, restored) \in Acceptable(s)
<1>0. ok(Steps[n])
  OBVIOUS
<1> DEFINE Fine(state) == state \in {"ready", "not_needed", "not_requested"}
<1>1. \A s : s \notin {"tailscale_pkg", "docker"} /\ ok(s) => Fine(StateOf(s, restored))
  BY DEF Skipped, Acceptable
<1> HIDE DEF ok
<1>2. CASE n = 10
  <2>1. Steps[n] = "dashboard_build" /\ StateOf("dashboard_build", restored) = BuildState
    BY <1>2 DEF Steps, StateOf
  <2> QED BY <1>0, <1>1, <1>2, <2>1 DEF Left, BuildState
<1>3. CASE n = 14
  <2>1. Steps[n] = "service" /\ StateOf("service", restored) = ServiceState
    BY <1>3 DEF Steps, StateOf
  <2> QED BY <1>0, <1>1, <1>3, <2>1 DEF Left, ServiceState
<1>4. CASE n = 15
  <2>1. Steps[n] = "caddy" /\ StateOf("caddy", restored) = CaddyState
    BY <1>4 DEF Steps, StateOf
  <2> QED BY <1>0, <1>1, <1>4, <2>1 DEF Left, CaddyState
<1>5. CASE n \in {18, 21, 23, 26}
  <2>1. /\ n = 18 => Steps[n] = "vaultwarden_serve" /\ StateOf("vaultwarden_serve", restored) = RouteState("vault")
        /\ n = 21 => Steps[n] = "authentik_serve" /\ StateOf("authentik_serve", restored) = RouteState("authentik")
        /\ n = 23 => Steps[n] = "lobehub_serve" /\ StateOf("lobehub_serve", restored) = RouteState("lobehub")
        /\ n = 26 => Steps[n] = "serve" /\ StateOf("serve", restored) = RouteState("dashboard")
    BY DEF Steps, StateOf
  <2> QED BY <1>0, <1>1, <1>5, <2>1 DEF Left, RouteState
<1>6. CASE n = 25
  <2>1. Steps[n] = "dashboard_protection" /\ StateOf("dashboard_protection", restored) = ProtectionState
    BY <1>6 DEF Steps, StateOf
  <2> QED BY <1>0, <1>1, <1>6, <2>1 DEF Left, ProtectionState, GateOutdated, AsksToSignIn, IsAuth
<1>7. CASE n = 27
  <2>1. Steps[n] = "core_images" /\ StateOf("core_images", restored) = ImagesState
    BY <1>7 DEF Steps, StateOf
  <2> QED BY <1>0, <1>1, <1>7, <2>1 DEF Left, ImagesState
<1>8. CASE n \notin {10, 14, 15, 18, 21, 23, 25, 26, 27}
  BY <1>8 DEF Left
<1> QED BY <1>2, <1>3, <1>4, <1>5, <1>6, <1>7, <1>8

-----------------------------------------------------------------------------
(* The steps that leave the computer as it is. *)

Guarded == SetUp /\ host.gate # 0 /\ host.synced # 0
PhasesGo ==
  /\ phase' \in [Phases -> PhaseStates]
  /\ phase'["dashboard_protection"] = "verified" => phase["dashboard_protection"] = "verified" \/ Guarded

LEMMA PhaseStays ==
  ASSUME RestTypes, phase' = phase
  PROVE  PhasesGo
BY DEF RestTypes, PhasesGo

LEMMA TroubledIs ==
  ASSUME RestTypes, Troubled \/ trouble' = trouble
  PROVE  trouble' \in 0 .. MaxTrouble
BY SetupAssumption DEF RestTypes, Troubled

LEMMA HostStays ==
  ASSUME GateInv, UNCHANGED <<host, checkout, marker>>, PhasesGo,
         todo' = <<>> \/ UNCHANGED <<todo, inPlace>>
  PROVE  HostTypes' /\ PastInv' /\ GatedInv' /\ StampInv'
<1>1. HostTypes' /\ PastInv' /\ StampInv'
  BY DEF GateInv, HostTypes, PastInv, StampInv
<1>2. SetUp' = SetUp
  BY DEF SetUp
<1>3. UNCHANGED <<todo, inPlace>> => StepsToGo' = StepsToGo /\ todo' = todo
  BY PlanStays
<1>4. GatedInv'
  BY <1>2, <1>3 DEF GateInv, GatedInv, DashboardIsGated, PhasesGo, Guarded
<1> QED BY <1>1, <1>4

(* Nothing the gate depends on changes. *)
LEMMA NothingGate ==
  ASSUME GateInv, UNCHANGED <<host, checkout, run, marker, todo, inPlace, owned>>, PhasesGo,
         trouble' \in 0 .. MaxTrouble
  PROVE  GateInv'
<1>1. HostTypes' /\ PastInv' /\ GatedInv' /\ StampInv'
  BY HostStays
<1>2. RestTypes'
  BY DEF GateInv, RestTypes, PhasesGo, Running
<1>3. OrderInv'
  BY DEF GateInv, OrderInv, SafeTarget, SafeCaddy
<1>4. ReadyInv'
  BY DEF GateInv, ReadyInv, Passed, Left
<1> QED BY <1>1, <1>2, <1>3, <1>4 DEF GateInv

(* A run begins or ends. *)
LEMMA NoCommands ==
  ASSUME NEW c, NEW d, NEW done
  PROVE  First(<<>>, c, d, done)
BY DEF First

LEMMA FreshGate ==
  ASSUME GateInv, UNCHANGED <<host, checkout, marker>>, todo' = <<>>, PhasesGo,
         run'.step = 1, run'.at = "check", run'.todo = <<>>,
         trouble' \in 0 .. MaxTrouble, owned' \in [TargetSet -> {"no", "open", "sealed"}]
  PROVE  GateInv'
<1>1. HostTypes' /\ PastInv' /\ GatedInv' /\ StampInv'
  BY HostStays
<1>2. RestTypes'
  BY DEF GateInv, RestTypes, PhasesGo
<1>3. OrderInv'
  BY NoCommands DEF OrderInv
<1>4. ReadyInv'
  BY DEF ReadyInv, Passed
<1> QED BY <1>1, <1>2, <1>3, <1>4 DEF GateInv

LEMMA EndsGate ==
  ASSUME GateInv, UNCHANGED <<host, checkout, marker, owned>>, todo' = <<>>, PhasesGo,
         NEW s, Ends(s), Troubled \/ trouble' = trouble
  PROVE  GateInv'
<1>1. run'.step = 1 /\ run'.at = "check" /\ run'.todo = <<>>
  BY DEF Ends, Idle
<1>2. trouble' \in 0 .. MaxTrouble /\ owned' \in [TargetSet -> {"no", "open", "sealed"}]
  BY TroubledIs DEF GateInv, RestTypes
<1> QED BY <1>1, <1>2, FreshGate

(* The steps from one on. *)
LEMMA StepsFrom ==
  ASSUME NEW s \in 1 .. 27
  PROVE  /\ \A n \in 1 .. 27 : n < s \/ n \in s .. 27
         /\ \A n \in s .. 27 : n \in 1 .. 27 /\ (n < s + 1 => n = s)
         /\ s # 27 => s + 1 \in s .. 27
<1>1. s \in Int /\ 1 <= s /\ s <= 27
  OBVIOUS
<1>2. ASSUME NEW n \in 1 .. 27, ~(n < s)
      PROVE  n \in s .. 27
  <2>1. n \in Int /\ s <= n /\ n <= 27
    BY <1>1, <1>2
  <2> QED BY <1>1, <2>1
<1>3. ASSUME NEW n \in s .. 27
      PROVE  n \in 1 .. 27 /\ (n < s + 1 => n = s)
  <2>1. n \in Int /\ s <= n /\ n <= 27
    BY <1>1, <1>3
  <2> QED BY <1>1, <2>1
<1>4. ASSUME s # 27
      PROVE  s + 1 \in s .. 27
  BY <1>1, <1>4
<1> QED BY <1>2, <1>3, <1>4

(* The engine goes on to a later step, or to the end: what it passed is ready. *)
LEMMA GoesOn ==
  ASSUME GateInv, Computer, Running, UNCHANGED <<host, checkout, marker, owned, phase, trouble>>,
         todo' = <<>>, run'.state = run.state, run'.todo = <<>>, run'.at \in {"check", "finish"},
         run'.step \in run.step .. 27, run'.at = "finish" => run'.step >= 20,
         \A n \in run.step .. 27 : n < run'.step \/ run'.at = "finish" => Left(n)
  PROVE  GateInv'
<1>1. HostTypes' /\ PastInv' /\ GatedInv' /\ StampInv'
  BY HostStays, PhaseStays DEF GateInv
<1>2. RestTypes'
  BY DEF GateInv, RestTypes, Running
<1>3. OrderInv'
  BY NoCommands DEF OrderInv
<1>4. ReadyInv'
  <2> SUFFICES ASSUME NEW n \in 1 .. 27, Passed(n)' PROVE Left(n)'
    BY DEF ReadyInv
  <2>1. Left(n)' = Left(n)
    BY DEF Left
  <2>2. run.step \in 1 .. 27
    BY DEF Computer, RunInv
  <2>3. CASE n < run.step
    BY <2>1, <2>3 DEF GateInv, ReadyInv, Passed
  <2>4. CASE ~(n < run.step)
    <3>1. n \in run.step .. 27
      BY <2>2, <2>4, StepsFrom
    <3> QED BY <2>1, <3>1 DEF Passed
  <2> QED BY <2>3, <2>4
<1> QED BY <1>1, <1>2, <1>3, <1>4 DEF GateInv

LEMMA CheckGate ==
  ASSUME GateInv, Computer, RunCheck(RestoreState), UNCHANGED <<rebuildVars, phase>>
  PROVE  GateInv'
<1>1. /\ Running /\ run.at = "check" /\ run.step \in 1 .. 27 /\ run.todo = <<>>
      /\ UNCHANGED <<host, checkout, trouble, marker, owned, phase, todo, inPlace>>
      /\ {"state", "step", "at", "todo", "restoring"} \subseteq DOMAIN run
  BY DEF Computer, RunInv, RunCheck, rebuildVars
<1>2. todo = <<>> /\ todo' = <<>>
  BY <1>1, HeadIs DEF Computer
<1> DEFINE ok(n) == Skipped(Steps[n], StateOf(Steps[n], RestoreState))
<1>3. CASE ~ok(run.step)
  <2>1. run' = [run EXCEPT !.at = "fix", !.todo = FixOf(Step, StateOf(Step, RestoreState))]
    BY <1>3 DEF RunCheck, Step
  <2>2. run'.at = "fix" /\ run'.step = run.step /\ run'.state = run.state
        /\ run'.todo = FixOf(Steps[run.step], StateOf(Steps[run.step], RestoreState))
    BY <1>1, <2>1 DEF Step
  <2>3. Ordered(run'.todo)
    BY <1>1, <2>2, FixesOrdered
  <2>4. HostTypes' /\ PastInv' /\ GatedInv' /\ StampInv'
    BY <1>1, HostStays, PhaseStays DEF GateInv
  <2>5. RestTypes'
    BY <1>1, <2>2 DEF GateInv, RestTypes, Running
  <2>6. OrderInv'
    BY <2>3 DEF OrderInv, Ordered
  <2>7. ReadyInv'
    <3>1. \A n \in 1 .. 27 : (Passed(n)' => Passed(n)) /\ Left(n)' = Left(n)
      BY <1>1, <2>2 DEF Passed, Left
    <3> QED BY <3>1 DEF GateInv, ReadyInv
  <2> QED BY <2>4, <2>5, <2>6, <2>7 DEF GateInv
<1>4. CASE ok(run.step) /\ Stops(RestoreState) = {}
  <2>1. run' = [run EXCEPT !.at = "finish"]
    BY <1>4 DEF RunCheck, Step
  <2>2. run'.at = "finish" /\ run'.step = run.step /\ run'.state = run.state /\ run'.todo = <<>>
    BY <1>1, <2>1
  <2>3. \A n \in run.step .. 27 : ok(n) /\ ~(Steps[n] = "authentik" /\ n # run.step)
    BY <1>4, StepsAre DEF Stops
  <2>4. run.step >= 20
    <3>1. Steps[20] = "authentik"
      BY DEF Steps
    <3>2. ~(run.step < 20)
      BY <1>1, <2>3, <3>1
    <3> QED BY <1>1, <3>2
  <2>5. \A n \in run.step .. 27 : Left(n)
    <3> TAKE n \in run.step .. 27
    <3>1. n \in 1 .. 27
      BY <1>1, StepsFrom
    <3>2. Skipped(Steps[n], StateOf(Steps[n], RestoreState))
      BY <2>3
    <3> QED BY <3>1, <3>2, ReadyIs
  <2> QED BY <1>1, <1>2, <2>2, <2>4, <2>5, GoesOn
<1>5. CASE ok(run.step) /\ Stops(RestoreState) # {}
  <2> DEFINE m == Min(Stops(RestoreState))
  <2>1. run' = [run EXCEPT !.step = m]
    BY <1>5 DEF RunCheck, Step
  <2>2. m \in run.step .. 27 /\ \A n \in run.step .. 27 : n < m => ok(n)
    BY <1>1, <1>5, NextStop
  <2> HIDE DEF m
  <2>3. run'.at = "check" /\ run'.step = m /\ run'.state = run.state /\ run'.todo = <<>>
    BY <1>1, <2>1
  <2>4. \A n \in run.step .. 27 : n < m => Left(n)
    <3> TAKE n \in run.step .. 27
    <3>1. HAVE n < m
    <3>2. n \in 1 .. 27
      BY <1>1, StepsFrom
    <3>3. Skipped(Steps[n], StateOf(Steps[n], RestoreState))
      BY <2>2, <3>1
    <3> QED BY <3>2, <3>3, ReadyIs
  <2> QED BY <1>1, <1>2, <2>2, <2>3, <2>4, GoesOn
<1> QED BY <1>3, <1>4, <1>5

LEMMA VerifyGate ==
  ASSUME GateInv, Computer, Verify(RestoreState), UNCHANGED <<rebuildVars, phase>>
  PROVE  GateInv'
<1>1. /\ Running /\ run.at = "fix" /\ run.step \in 1 .. 27 /\ run.todo = <<>>
      /\ UNCHANGED <<host, checkout, trouble, marker, owned, phase, todo, inPlace>>
      /\ {"state", "step", "at", "todo", "restoring"} \subseteq DOMAIN run
  BY DEF Computer, RunInv, Verify, rebuildVars
<1>2. todo = <<>> /\ todo' = <<>>
  BY <1>1, HeadIs DEF Computer
<1>3. CASE StateOf(Step, RestoreState) \in Acceptable(Step)
  <2>1. Advance
    BY <1>3 DEF Verify
  <2>2. Left(run.step)
    BY <1>1, <1>3, ReadyIs DEF Step
  <2>3. CASE run.step = 27
    <3>1. run' = [run EXCEPT !.at = "finish", !.todo = <<>>]
      BY <2>1, <2>3, StepsAre DEF Advance
    <3>2. run'.at = "finish" /\ run'.step = 27 /\ run'.state = run.state /\ run'.todo = <<>>
      BY <1>1, <2>3, <3>1
    <3>3. \A n \in run.step .. 27 : Left(n)
      BY <2>2, <2>3
    <3> QED BY <1>1, <1>2, <2>3, <3>2, <3>3, GoesOn
  <2>4. CASE run.step # 27
    <3>1. run' = [run EXCEPT !.step = @ + 1, !.at = "check", !.todo = <<>>]
      BY <2>1, <2>4, StepsAre DEF Advance
    <3>2. run'.at = "check" /\ run'.step = run.step + 1 /\ run'.state = run.state /\ run'.todo = <<>>
      BY <1>1, <3>1
    <3>3. \A n \in run.step .. 27 : n < run'.step => Left(n)
      <4>1. \A n \in run.step .. 27 : n < run.step + 1 => n = run.step
        BY <1>1, StepsFrom
      <4> QED BY <2>2, <3>2, <4>1
    <3>4. run'.step \in run.step .. 27
      BY <1>1, <2>4, <3>2, StepsFrom
    <3> QED BY <1>1, <1>2, <3>2, <3>3, <3>4, GoesOn
  <2> QED BY <2>3, <2>4
<1>4. CASE StateOf(Step, RestoreState) \notin Acceptable(Step)
  <2>1. Ends("failed")
    BY <1>4 DEF Verify
  <2> QED BY <1>1, <1>2, <2>1, EndsGate, PhaseStays DEF GateInv
<1> QED BY <1>3, <1>4

-----------------------------------------------------------------------------
(* The commands of a fix. *)

LEMMA VersionIs ==
  ASSUME RestTypes
  PROVE  checkout \in Versions /\ checkout \in Nat \ {0} /\ MaxVersion \in Nat
BY SetupAssumption DEF RestTypes, Versions

(* Past root_env the computer is set up. *)
LEMMA LateIsSetUp ==
  ASSUME Computer, run.step > 13
  PROVE  SetUp /\ marker # "started"
<1>1. marker \in {"none", "started", "restored"} /\ host.tokens # "none"
  BY DEF Computer, MadeInv
<1>2. run.step \in 1 .. 27
  BY DEF Computer, RunInv
<1>3. marker # "started"
  BY <1>2, MadeIs DEF Computer
<1> QED BY <1>1, <1>3, MadeIs DEF Computer, SetUp

LEMMA CommandGate ==
  ASSUME GateInv, Computer, RunCommand, UNCHANGED <<rebuildVars, phase>>, SetUp => SetUp'
  PROVE  GateInv'
<1> DEFINE c == Head(run.todo)  C == CommandsAt(run.step)
<1>1. /\ Running /\ run.at = "fix" /\ run.todo # <<>> /\ Step # "restore_backup" /\ host' = After(c)
      /\ run' = [run EXCEPT !.todo = Tail(@)] /\ run.step \in 1 .. 27 /\ run.todo \in Seq(C)
      /\ UNCHANGED <<checkout, trouble, marker, owned, phase, todo, inPlace>>
      /\ {"state", "step", "at", "todo", "restoring"} \subseteq DOMAIN run
  BY DEF RunCommand, Computer, RunInv, rebuildVars
<1>2. run'.todo = Tail(run.todo) /\ run'.step = run.step /\ run'.at = "fix" /\ run'.state = run.state
  BY <1>1
<1> HIDE DEF C
<1>3. c \in C
  BY <1>1
<1>4. /\ Becomes(c, host')
      /\ c \in Gateway \cup {"restart_worker"} => SetUp /\ marker # "started"
  BY <1>1, <1>3, AfterIs, LateIsSetUp DEF GateInv, C
<1>5. todo = <<>> /\ todo' = <<>>
  BY <1>1, HeadIs DEF Computer
<1>6. /\ c = "write_target" => host.synced = checkout
      /\ c = "gate_up" => host.target = Auth(checkout)
      /\ c = "caddy_up" => SafeTarget
      /\ c = "await_caddy" => SafeCaddy
      /\ c = "await_health" => host.ctl = checkout /\ host.worker = checkout
  <2>1. 1 \in DOMAIN run.todo /\ run.todo[1] = c
    BY <1>1
  <2> HIDE DEF c
  <2> QED BY <2>1 DEF GateInv, OrderInv, First
<1>7. checkout \in Versions /\ checkout \in Nat \ {0} /\ HostTypes /\ PastInv /\ GatedInv /\ StampInv
  BY VersionIs DEF GateInv
<1> HIDE DEF c
<1>8. /\ host'.target \in {host.target, Deny(checkout), Auth(checkout)}
      /\ host'.target # host.target => c \in {"safe_config", "write_target"}
      /\ c = "safe_config" => host'.target # Auth(checkout) \/ host'.target = host.target
      /\ host.target = Auth(checkout) => host'.target = Auth(checkout)
      /\ SafeTarget => SafeTarget'
  <2>1. SafeConfig \in {host.target, Deny(checkout)} /\ (host.target = Auth(checkout) => SafeConfig = Auth(checkout))
        /\ SafeConfig \in {None, Deny(checkout), Auth(checkout)}
    BY DEF SafeConfig
  <2> QED BY <1>1, <1>4, <2>1, ConfigsAre DEF Becomes, SafeTarget
<1>9. /\ host'.caddy \in {host.caddy, host.target, Deny(checkout)}
      /\ host'.caddy # host.caddy => c \in {"caddy_up", "gate_up"} /\ host'.caddy # None
                                     /\ host'.caddy \in {Deny(checkout), Auth(checkout)}
      /\ c \in {"caddy_up", "gate_up"} => host'.caddy # None
                                     /\ host'.caddy \in {Deny(checkout), Auth(checkout)}
      /\ host.target = Auth(checkout) /\ IsAuth(host.caddy) => IsAuth(host'.caddy)
  BY <1>4, <1>6, ConfigsAre DEF Becomes, CaddyUp, SafeTarget
<1>10. HostTypes'
  <2>1. host'.target \in Configs /\ host'.caddy \in Configs
    BY <1>7, <1>8, <1>9, ConfigsAre DEF HostTypes
  <2> QED BY <1>4, <1>7, <2>1 DEF HostTypes, Becomes
<1>11. RestTypes'
  BY <1>1, <1>2 DEF GateInv, RestTypes, Running
<1>12. PastInv'
  <2>1. host'.target[2] <= checkout
    BY <1>7, <1>8, ConfigsAre DEF PastInv
  <2>2. host'.caddy[2] <= checkout
    BY <1>7, <1>9, ConfigsAre DEF PastInv
  <2> QED BY <1>1, <1>4, <1>7, <2>1, <2>2 DEF PastInv, Becomes
<1>13. GatedInv'
  <2>1. host'.caddy # None => SetUp'
    BY <1>4, <1>7, <1>9 DEF GatedInv, Gateway
  <2>2. IsAuth(host'.target) => IF marker' = "started" THEN host'.gate = host'.target[2]
                                ELSE host'.synced >= host'.target[2]
    <3>1. CASE host'.target = host.target
      BY <1>1, <1>4, <1>7, <3>1 DEF GatedInv, PastInv, Becomes, Gateway
    <3>2. CASE host'.target # host.target /\ c = "safe_config"
      BY <1>8, <3>2, ConfigsAre
    <3>3. CASE host'.target # host.target /\ c = "write_target"
      BY <1>1, <1>4, <1>6, <1>7, <3>3, ConfigsAre DEF Becomes, Gateway
    <3> QED BY <1>8, <3>1, <3>2, <3>3
  <2>3. host'.caddy[1] = "auth" => host'.synced >= host'.caddy[2]
    <3>1. CASE c = "sync_gate"
      BY <1>4, <1>7, <1>9, <3>1 DEF PastInv, Becomes
    <3>2. CASE c # "sync_gate" /\ host'.caddy = host.caddy
      BY <1>4, <1>7, <3>2 DEF GatedInv, DashboardIsGated, Becomes
    <3>3. CASE c # "sync_gate" /\ host'.caddy # host.caddy
      BY <1>4, <1>7, <1>9, <3>3, ConfigsAre DEF GatedInv, Becomes, Gateway, IsAuth
    <3> QED BY <3>1, <3>2, <3>3
  <2>4. phase'["dashboard_protection"] = "verified" => SetUp' /\ host'.gate # 0 /\ host'.synced # 0
    BY <1>1, <1>4, <1>7 DEF GatedInv, Becomes
  <2> QED BY <1>5, <2>1, <2>2, <2>3, <2>4 DEF GatedInv, DashboardIsGated
<1>14. StampInv'
  <2>1. host'.svcStamp = checkout => host'.worker = checkout /\ host'.ctl \in {0, checkout}
    BY <1>4, <1>6, <1>7 DEF StampInv, Becomes
  <2>2. host'.boundary = checkout => host'.caddy \in {None, Deny(checkout), Auth(checkout)}
    BY <1>4, <1>6, <1>7, <1>9 DEF StampInv, Becomes, SafeCaddy
  <2> QED BY <1>1, <2>1, <2>2 DEF StampInv
<1>15. OrderInv'
  <2>1. c = Head(run.todo) /\ OrderInv
    BY DEF c, GateInv
  <2>2. First(run'.todo, "write_target", "sync_gate", (host.synced = checkout)')
    BY <1>1, <1>2, <1>4, <2>1, FirstTail DEF OrderInv, Becomes
  <2>3. First(run'.todo, "gate_up", "write_target", (host.target = Auth(checkout))')
    <3>1. c = "write_target" \/ host.target = Auth(checkout) => (host.target = Auth(checkout))'
      BY <1>1, <1>4, <1>8 DEF Becomes
    <3> QED BY <1>1, <1>2, <2>1, <3>1, FirstTail DEF OrderInv
  <2>4. First(run'.todo, "caddy_up", "safe_config", SafeTarget')
    <3>1. c = "safe_config" => SafeTarget'
      BY <1>1, <1>4 DEF Becomes, SafeConfig, SafeTarget
    <3> QED BY <1>1, <1>2, <1>8, <2>1, <3>1, FirstTail DEF OrderInv
  <2>5. First(run'.todo, "await_caddy", "caddy_up", SafeCaddy')
    <3>1. c = "caddy_up" \/ SafeCaddy => SafeCaddy'
      BY <1>1, <1>9 DEF SafeCaddy
    <3> QED BY <1>1, <1>2, <2>1, <3>1, FirstTail DEF OrderInv
  <2>6. First(run'.todo, "await_health", "restart_ctl", (host.ctl = checkout)')
    BY <1>1, <1>2, <1>4, <2>1, FirstTail DEF OrderInv, Becomes
  <2>7. First(run'.todo, "await_health", "restart_worker", (host.worker = checkout)')
    BY <1>1, <1>2, <1>4, <2>1, FirstTail DEF OrderInv, Becomes
  <2> QED BY <2>2, <2>3, <2>4, <2>5, <2>6, <2>7 DEF OrderInv
<1>16. ReadyInv'
  <2> SUFFICES ASSUME NEW n \in 1 .. 27, Passed(n)' PROVE Left(n)'
    BY DEF ReadyInv
  <2>1. Left(n)
    BY <1>1, <1>2 DEF GateInv, ReadyInv, Passed
  <2>2. CASE n \in {10, 14, 18, 21, 23, 26, 27}
    BY <1>1, <1>4, <1>7, <2>1, <2>2 DEF Left, Becomes
  <2>3. CASE n = 15
    BY <1>1, <1>4, <1>9, <2>1, <2>3 DEF Left, Becomes
  <2>4. CASE n = 25
    BY <1>1, <1>4, <1>8, <1>9, <2>1, <2>4 DEF Left, Becomes
  <2>5. CASE n \notin {10, 14, 15, 18, 21, 23, 25, 26, 27}
    BY <2>5 DEF Left
  <2> QED BY <2>2, <2>3, <2>4, <2>5
<1> QED BY <1>10, <1>11, <1>12, <1>13, <1>14, <1>15, <1>16 DEF GateInv

(* A download beside the steps, and the person who approves this computer. *)
LEMMA DownloadGate ==
  ASSUME GateInv, Computer, Prefetch \/ Approve, UNCHANGED <<rebuildVars, phase>>, SetUp => SetUp'
  PROVE  GateInv'
<1>1. /\ Running /\ UNCHANGED <<checkout, trouble, marker, owned, phase, todo, inPlace>>
      /\ {"state", "step", "at", "todo", "restoring"} \subseteq DOMAIN run /\ run.step \in 1 .. 27
      /\ Prefetch => run.at = "check" /\ run.todo = <<>>
  BY DEF Computer, RunInv, Prefetch, Approve, rebuildVars
<1>2. todo = <<>> /\ todo' = <<>>
  <2>1. <<"tailscale_up">> # <<"restore">> /\ <<>> # <<"restore">>
    OBVIOUS
  <2>2. Prefetch \/ Approve => run.todo # <<"restore">>
    BY <1>1, <2>1 DEF Approve
  <2> QED BY <1>1, <2>2, HeadIs DEF Computer
<1>3. run'.todo = <<>> /\ run'.step = run.step /\ run'.at = run.at /\ run'.state = run.state
  BY <1>1 DEF Prefetch, Approve
<1>4. /\ Fields \subseteq DOMAIN host' /\ host'.images \in {checkout, host.images}
      /\ \A f \in Fields \ {"images"} : host'[f] = host[f]
  <2>1. host' = [host EXCEPT !.images = checkout] \/ host' = [host EXCEPT !.ts = "ready"]
    BY DEF Prefetch, Approve
  <2> QED BY <2>1 DEF GateInv, HostTypes, Fields
<1>5. /\ host'.target = host.target /\ host'.caddy = host.caddy /\ host'.keys = host.keys
      /\ host'.sources = host.sources /\ host'.gate = host.gate /\ host'.synced = host.synced
      /\ host'.boundary = host.boundary /\ host'.built = host.built /\ host'.svcStamp = host.svcStamp
      /\ host'.ctl = host.ctl /\ host'.worker = host.worker /\ host'.served = host.served
  BY <1>4 DEF Fields
<1>6. HostTypes' /\ PastInv' /\ StampInv'
  BY <1>1, <1>4, <1>5 DEF GateInv, HostTypes, PastInv, StampInv
<1>7. GatedInv'
  BY <1>1, <1>2, <1>5 DEF GateInv, GatedInv, DashboardIsGated
<1>8. RestTypes'
  BY <1>1, <1>3 DEF GateInv, RestTypes, Running
<1>9. OrderInv'
  BY <1>3, NoCommands DEF OrderInv
<1>10. ReadyInv'
  <2>1. \A n \in 1 .. 27 : (Passed(n)' => Passed(n)) /\ (Left(n) => Left(n)')
    BY <1>1, <1>3, <1>4, <1>5 DEF Passed, Left
  <2> QED BY <2>1 DEF GateInv, ReadyInv
<1> QED BY <1>6, <1>7, <1>8, <1>9, <1>10 DEF GateInv

-----------------------------------------------------------------------------
(* Between two runs. *)

LEMMA BetweenRuns ==
  ASSUME GateInv, Computer, ~Running, UNCHANGED <<run, rebuildVars, phase>>, SetUp => SetUp',
         checkout' \in Versions, checkout' = checkout \/ (host' = host /\ checkout' > checkout),
         trouble' \in 0 .. MaxTrouble, Fields \subseteq DOMAIN host',
         UNCHANGED <<host.target, host.gate, host.synced, host.boundary, host.svcStamp, host.worker>>,
         host'.caddy \in {None, host.caddy}, host'.ctl \in {0, host.ctl}, host'.served \subseteq host.served,
         host'.keys \cup host'.sources \subseteq host.keys \cup host.sources
  PROVE  GateInv'
<1>1. /\ run.step = 1 /\ run.at = "check" /\ run.todo = <<>> /\ run' = run
      /\ UNCHANGED <<owned, marker, todo, inPlace>>
  BY DEF Computer, RunInv, GateInv, RestTypes, rebuildVars
<1>2. todo = <<>> /\ todo' = <<>>
  BY <1>1, HeadIs DEF Computer, Restoring
<1>3. checkout \in Nat /\ checkout' \in Nat /\ checkout <= checkout' /\ HostTypes
      /\ host.target[2] \in Nat /\ host.caddy[2] \in Nat
  BY VersionIs, ConfigsAre DEF Versions, GateInv, HostTypes
<1>4. HostTypes'
  BY ConfigsAre DEF GateInv, HostTypes
<1>5. RestTypes'
  BY <1>1 DEF GateInv, RestTypes, Running
<1>6. PastInv'
  BY <1>3, ConfigsAre DEF GateInv, PastInv, HostTypes
<1>7. GatedInv'
  <2>1. host'.caddy # None => host'.caddy = host.caddy
    OBVIOUS
  <2>2. host'.caddy[1] = "auth" => host'.synced >= host'.caddy[2]
    BY ConfigsAre DEF GateInv, GatedInv, DashboardIsGated, IsAuth
  <2> QED BY <1>1, <1>2, <2>1, <2>2 DEF GateInv, GatedInv, DashboardIsGated
<1>8. StampInv'
  <2>1. CASE checkout' = checkout
    BY <2>1 DEF GateInv, StampInv
  <2>2. CASE checkout' > checkout
    <3>1. host'.svcStamp # checkout' /\ host'.boundary # checkout'
      BY <1>3, <2>2 DEF GateInv, PastInv, HostTypes
    <3> QED BY <3>1 DEF StampInv
  <2> QED BY <2>1, <2>2
<1>9. OrderInv' /\ ReadyInv'
  BY <1>1, NoCommands DEF OrderInv, ReadyInv, Passed
<1> QED BY <1>4, <1>5, <1>6, <1>7, <1>8, <1>9 DEF GateInv

LEMMA WorldGate ==
  ASSUME GateInv, Computer, Pull \/ Login \/ FreePort \/ Disturb, UNCHANGED <<rebuildVars, phase>>, SetUp => SetUp'
  PROVE  GateInv'
<1>1. ~Running /\ run' = run /\ trouble' \in 0 .. MaxTrouble
  BY TroubledIs DEF GateInv, Pull, Login, FreePort, Disturb
<1>2. HostTypes /\ checkout \in Versions /\ checkout \in Nat
  BY VersionIs DEF GateInv
<1>3. CASE Pull
  <2>1. host' = host /\ checkout' = checkout + 1 /\ checkout' \in Versions
    BY <1>2, <1>3, VersionIs DEF GateInv, Pull, Versions
  <2> QED BY <1>1, <1>2, <2>1, BetweenRuns DEF HostTypes
<1>4. ASSUME checkout' = checkout, Fields \subseteq DOMAIN host',
             \A f \in Fields \ {"caddy", "ctl", "served", "keys"} : host'[f] = host[f],
             host'.caddy \in {None, host.caddy}, host'.ctl \in {0, host.ctl}, host'.served \subseteq host.served,
             host'.keys \subseteq host.keys
      PROVE  GateInv'
  <2>1. /\ UNCHANGED <<host.target, host.gate, host.synced, host.boundary, host.svcStamp, host.worker, host.sources>>
    BY <1>4 DEF Fields
  <2> QED BY <1>1, <1>2, <1>4, <2>1, BetweenRuns
<1>5. CASE Login \/ FreePort \/ Disturb
  <2> DEFINE N == {"group", "port", "caddy", "vault", "authentik", "ctl", "served", "keys"}
             Changes(f, w) == /\ host' = [host EXCEPT ![f] = w] /\ checkout' = checkout
                              /\ f = "caddy" => w = None
                              /\ f = "ctl" => w = 0
                              /\ f = "served" => w = {}
                              /\ f = "keys" => w \subseteq host.keys
  <2>0. \E f \in N : \E w : Changes(f, w)
    <3>1. CASE Login
      <4>1. host' = [host EXCEPT !["group"] = "live"] /\ checkout' = checkout
        BY <3>1 DEF Login
      <4> QED BY <4>1
    <3>2. CASE FreePort
      <4>1. host' = [host EXCEPT !["port"] = "free"] /\ checkout' = checkout
        BY <3>2 DEF FreePort
      <4> QED BY <4>1
    <3>3. CASE Disturb
      <4>1. host' \in Disturbances /\ checkout' = checkout
        BY <3>3 DEF Disturb
      <4>2. CASE host' \in {[host EXCEPT !.keys = @ \ {k}] : k \in host.sources}
        <5>1. PICK k : host' = [host EXCEPT !["keys"] = host.keys \ {k}]
          BY <4>2
        <5>2. host.keys \ {k} \subseteq host.keys
          OBVIOUS
        <5> QED BY <4>1, <5>1, <5>2
      <4>3. CASE host' \notin {[host EXCEPT !.keys = @ \ {k}] : k \in host.sources}
        <5>1. \/ host' = [host EXCEPT !["caddy"] = None] \/ host' = [host EXCEPT !["vault"] = 0]
              \/ host' = [host EXCEPT !["authentik"] = FALSE] \/ host' = [host EXCEPT !["ctl"] = 0]
              \/ host' = [host EXCEPT !["served"] = {}] \/ host' = [host EXCEPT !["port"] = "foreign"]
          BY <4>1, <4>3 DEF Disturbances
        <5> QED BY <4>1, <5>1
      <4> QED BY <4>2, <4>3
    <3> QED BY <1>5, <3>1, <3>2, <3>3
  <2>4. PICK f \in N : \E w : Changes(f, w)
    BY <2>0
  <2>1. PICK w : Changes(f, w)
    BY <2>4
  <2>2. /\ Fields \subseteq DOMAIN host' /\ \A x \in Fields \ {"caddy", "ctl", "served", "keys"} : host'[x] = host[x]
        /\ \A x \in Fields \ {f} : host'[x] = host[x]
        /\ f \in Fields => host'[f] = w
    BY <1>2, <2>1 DEF HostTypes, Fields
  <2>3. /\ host'.caddy \in {None, host.caddy} /\ host'.ctl \in {0, host.ctl}
        /\ host'.served \subseteq host.served /\ host'.keys \subseteq host.keys
    BY <2>1, <2>2 DEF Fields
  <2> QED BY <1>4, <2>1, <2>2, <2>3
<1> QED BY <1>3, <1>5

-----------------------------------------------------------------------------
(* The steps of the rebuild. *)

RebuildFields == {"target", "gate", "boundary", "synced", "tokens"}

LEMMA BroughtGate ==
  ASSUME HostTypes, NEW t, NEW v
  PROVE  /\ Else(Brought(t, v), RebuildFields)
         /\ Brought(t, v).target = IF t = "projects" THEN Auth(v) ELSE host.target
         /\ Brought(t, v).gate = IF t = "projects" THEN v ELSE host.gate
         /\ Brought(t, v).boundary = IF t = "projects" THEN v ELSE host.boundary
         /\ Brought(t, v).synced = IF t = "identity" THEN host.gate ELSE host.synced
<1>1. CASE t = "control"
  BY <1>1 DEF HostTypes, Fields, RebuildFields, Else, Brought
<1>2. CASE t = "projects"
  BY <1>2 DEF HostTypes, Fields, RebuildFields, Else, Brought
<1>3. CASE t = "identity"
  BY <1>3 DEF HostTypes, Fields, RebuildFields, Else, Brought
<1>4. CASE t = "vault"
  BY <1>4 DEF HostTypes, Fields, RebuildFields, Else, Brought
<1>5. CASE t \notin {"control", "projects", "identity", "vault"}
  <2>1. Brought(t, v) = host
    BY <1>5 DEF Brought
  <2> QED BY <1>5, <2>1 DEF HostTypes, Else
<1> QED BY <1>1, <1>2, <1>3, <1>4, <1>5

LEMMA WithoutGate ==
  ASSUME HostTypes, NEW gone
  PROVE  /\ Else(Without(gone), RebuildFields) /\ Without(gone).synced = host.synced
         /\ Without(gone).target = IF "projects" \in gone THEN None ELSE host.target
         /\ Without(gone).gate = IF "projects" \in gone THEN 0 ELSE host.gate
         /\ Without(gone).boundary = IF "projects" \in gone THEN 0 ELSE host.boundary
BY DEF HostTypes, Fields, RebuildFields, Else, Without

(* The rebuild's last folders are the accounts and the vault. *)
LEMMA LastFills ==
  ASSUME PlanInv, NEW n \in 1 .. Len(Plan), n <= 6, NextToDo(n)[1] = "fill"
  PROVE  \/ NextToDo(n) = <<"fill", "identity">> /\ n = 6
         \/ NextToDo(n) = <<"fill", "vault">> /\ n = 3
<1>1. inPlace \in BOOLEAN /\ Len(Plan) \in {22, 25} /\ \A k \in 2 .. 6 : k \in 2 .. StepsToGo /\ k \in 1 .. Len(Plan)
  <2>1. StepsToGo \in {19, 22} /\ Len(Plan) = StepsToGo + 3
    BY OrderIs DEF PlanInv
  <2> QED BY <2>1 DEF PlanInv
<1>2. NextToDo(6) = <<"fill", "identity">> /\ NextToDo(3) = <<"fill", "vault">>
  BY <1>1, OrderIs
<1>3. NextToDo(5)[1] = "seal" /\ NextToDo(2)[1] = "seal"
  <2>1. NextToDo(6)[1] = "fill" /\ NextToDo(3)[1] = "fill" /\ 6 - 1 = 5 /\ 3 - 1 = 2
    BY <1>2
  <2> QED BY <1>1, <2>1, OrderIs
<1>4. NextToDo(4)[1] \in {"own", "mark"}
  <2>1. 5 - 1 = 4
    OBVIOUS
  <2> QED BY <1>1, <1>3, <2>1, OrderIs
<1>5. NextToDo(1)[1] = "mark"
  <2>1. 1 \in 1 .. Len(Plan)
    BY <1>1
  <2> QED BY <1>1, <2>1, OrderIs
<1>6. n \notin {1, 2, 4, 5}
  BY <1>3, <1>4, <1>5
<1>7. n \in {1, 2, 3, 4, 5, 6}
  <2>1. n \in Int /\ 1 <= n /\ n <= 6
    BY <1>1
  <2> QED BY ONLY <2>1
<1> QED BY <1>2, <1>6, <1>7

(* A step of the rebuild: until it is done nothing is set up, and so no gateway runs. *)
LEMMA RebuildGate ==
  ASSUME GateInv, Computer, Restoring, UNCHANGED <<checkout, inPlace>>, SetUp => SetUp', PhasesGo,
         trouble' \in 0 .. MaxTrouble, owned' \in [TargetSet -> {"no", "open", "sealed"}],
         \/ run'.step = 1 /\ run'.at = "check"
         \/ run'.step = 12 /\ run'.at = "fix" /\ run'.state = run.state,
         run'.todo \in {<<>>, <<"restore">>},
         Else(host', RebuildFields), host'.target \in Configs, host'.target[2] <= checkout,
         host'.boundary \in 0 .. checkout, host'.gate \in Nat, host'.synced \in Nat,
         host' = host \/ ~SetUp,
         IsAuth(host'.target) => IF marker' = "started" THEN host'.gate = host'.target[2]
                                 ELSE host'.synced >= host'.target[2],
         todo' # <<>> /\ Len(todo') < 6 => host'.synced = host'.gate,
         todo' # <<>> /\ Len(todo') = StepsToGo + 1 => ~IsAuth(host'.target)
  PROVE  GateInv'
<1>1. /\ host'.caddy = host.caddy /\ host'.keys = host.keys /\ host'.sources = host.sources
      /\ host'.built = host.built /\ host'.svcStamp = host.svcStamp /\ host'.ctl = host.ctl
      /\ host'.worker = host.worker /\ host'.served = host.served /\ Fields \subseteq DOMAIN host'
  BY DEF Else, Fields, RebuildFields
<1>2. checkout \in Nat
  BY VersionIs DEF GateInv
<1>3. ~SetUp => host.caddy = None /\ phase["dashboard_protection"] # "verified"
  BY DEF GateInv, GatedInv
<1>4. HostTypes'
  BY <1>1, <1>2 DEF GateInv, HostTypes
<1>5. RestTypes'
  BY DEF GateInv, RestTypes, PhasesGo, Running, Restoring
<1>6. PastInv'
  BY <1>1, <1>2 DEF GateInv, PastInv
<1>7. GatedInv'
  <2>1. StepsToGo' = StepsToGo
    BY PlanStays
  <2>2. host'.caddy[1] = "auth" => host'.synced >= host'.caddy[2]
    BY <1>1, <1>3, ConfigsAre DEF GateInv, GatedInv, DashboardIsGated, IsAuth
  <2>3. phase'["dashboard_protection"] = "verified" => SetUp' /\ host'.gate # 0 /\ host'.synced # 0
    BY <1>3 DEF GateInv, GatedInv, PhasesGo, Guarded
  <2>4. host'.caddy # None => SetUp'
    BY <1>1, <1>3
  <2> QED BY <2>1, <2>2, <2>3, <2>4 DEF GatedInv, DashboardIsGated
<1>8. StampInv'
  BY <1>1, <1>3 DEF GateInv, StampInv
<1>9. OrderInv'
  <2>1. \A c, d, done : c # "restore" => First(<<"restore">>, c, d, done)
    BY DEF First
  <2> QED BY <2>1, NoCommands DEF OrderInv
<1>10. ReadyInv'
  <2> SUFFICES ASSUME NEW n \in 1 .. 27, Passed(n)' PROVE Left(n)'
    BY DEF ReadyInv
  <2>1. n < 12 /\ run.step = 12
    BY RestoringIs DEF Passed
  <2>2. Left(n)
    BY <2>1 DEF GateInv, ReadyInv, Passed
  <2> QED BY <1>1, <2>1, <2>2 DEF Left
<1> QED BY <1>4, <1>5, <1>6, <1>7, <1>8, <1>9, <1>10 DEF GateInv

(* Where a run that restores is. *)
LEMMA RestoringAt ==
  ASSUME GateInv, Computer, Restoring
  PROVE  /\ run.step = 12 /\ run.at = "fix" /\ run.todo = <<"restore">> /\ HostTypes
         /\ checkout \in Nat \ {0} /\ checkout \in Versions
         /\ Else(host, RebuildFields) /\ host.target \in Configs /\ host.target[2] <= checkout
         /\ host.boundary \in 0 .. checkout /\ host.gate \in Nat /\ host.synced \in Nat
         /\ owned \in [TargetSet -> {"no", "open", "sealed"}] /\ trouble \in 0 .. MaxTrouble
         /\ IsAuth(host.target) => IF marker = "started" THEN host.gate = host.target[2]
                                   ELSE host.synced >= host.target[2]
<1>1. HostTypes /\ RestTypes /\ PastInv /\ GatedInv
  BY DEF GateInv
<1>2. Else(host, RebuildFields)
  BY <1>1 DEF Else, HostTypes
<1>3. host.target \in Configs /\ host.target[2] <= checkout /\ host.gate \in Nat /\ host.synced \in Nat
      /\ host.boundary \in Nat /\ host.boundary <= checkout
  BY <1>1 DEF HostTypes, PastInv
<1>4. owned \in [TargetSet -> {"no", "open", "sealed"}] /\ trouble \in 0 .. MaxTrouble
  BY <1>1 DEF RestTypes
<1> QED BY <1>1, <1>2, <1>3, <1>4, VersionIs, RestoringIs DEF Restoring, GatedInv

(* One that only has less to do. *)
LEMMA TodoGate ==
  ASSUME GateInv, Computer, Restoring, UNCHANGED <<host, checkout, run, trouble, inPlace>>, PhasesGo,
         marker' = marker \/ (marker' = "started" /\ ~IsAuth(host.target)), SetUp => SetUp',
         owned' \in [TargetSet -> {"no", "open", "sealed"}],
         todo' # <<>> /\ Len(todo') < 6 => host.synced = host.gate,
         todo' # <<>> /\ Len(todo') = StepsToGo + 1 => ~IsAuth(host.target)
  PROVE  GateInv'
<1>1. Else(host', RebuildFields)
  BY RestoringAt DEF Else
<1> QED BY <1>1, RestoringAt, RebuildGate

LEMMA BroughtPhases ==
  ASSUME RestTypes, DatabaseBrought \/ phase' = phase
  PROVE  PhasesGo
<1>1. phase' = phase \/ phase' = FreshPhases
  BY DEF DatabaseBrought
<1>2. FreshPhases \in [Phases -> PhaseStates] /\ FreshPhases["dashboard_protection"] = "pending"
  BY DEF FreshPhases, Phases, BootPhases, PhaseStates
<1> QED BY <1>1, <1>2 DEF RestTypes, PhasesGo

LEMMA LessToDo ==
  ASSUME Computer, Restoring, todo # <<>>, Done, UNCHANGED <<run, inPlace>>
  PROVE  /\ Len(todo') = Len(todo) - 1 /\ Len(todo) \in 1 .. Len(Plan) /\ Head(todo) = NextToDo(Len(todo))
         /\ StepsToGo \in {19, 22} /\ Len(Plan) = StepsToGo + 3
BY DoneIs, OrderIs DEF Computer, PlanInv

LEMMA RefuseGate ==
  ASSUME GateInv, Refuse, PhasesGo
  PROVE  GateInv'
BY EndsGate DEF Refuse

LEMMA ClearGate ==
  ASSUME GateInv, Computer, Clear, PhasesGo, SetUp => SetUp'
  PROVE  GateInv'
<1>1. Restoring /\ todo # <<>> /\ Head(todo)[1] = "clear"
  BY DEF Clear, Doing
<1>2. ASSUME Done, UNCHANGED <<run, inPlace>>
      PROVE  Len(todo') = StepsToGo + 2 /\ StepsToGo \in {19, 22}
  BY <1>1, <1>2, LessToDo, WhereIs DEF Computer, PlanInv
<1>3. CASE Refuse
  BY <1>3, RefuseGate
<1>4. CASE ~Interrupted /\ Done /\ UNCHANGED <<hostVars, files, owned, marker, inPlace>>
  BY <1>1, <1>2, <1>4, RestoringAt, TodoGate DEF hostVars
<1>5. CASE /\ Interrupted /\ Done /\ host' = Without(Removable)
           /\ UNCHANGED <<checkout, run, trouble, owned, marker, inPlace>>
  <2>1. marker = "started" /\ ~SetUp
    BY <1>5, MadeIs DEF Interrupted, Computer
  <2> DEFINE gone == Removable
  <2>2. /\ Else(host', RebuildFields) /\ host'.synced = host.synced
        /\ host'.target = IF "projects" \in gone THEN None ELSE host.target
        /\ host'.gate = IF "projects" \in gone THEN 0 ELSE host.gate
        /\ host'.boundary = IF "projects" \in gone THEN 0 ELSE host.boundary
    BY <1>1, <1>5, RestoringAt, WithoutGate
  <2> HIDE DEF gone
  <2>3. /\ host'.target \in Configs /\ host'.target[2] <= checkout /\ host'.boundary \in 0 .. checkout
        /\ host'.gate \in Nat /\ host'.synced \in Nat
        /\ IsAuth(host'.target) => host'.gate = host'.target[2]
    BY <1>1, <2>1, <2>2, RestoringAt, ConfigsAre
  <2>4. ~(Len(todo') < 6) /\ Len(todo') # StepsToGo + 1
    BY <1>2, <1>5
  <2>5. /\ owned' \in [TargetSet -> {"no", "open", "sealed"}] /\ trouble' \in 0 .. MaxTrouble
        /\ run'.step = 12 /\ run'.at = "fix" /\ run'.state = run.state /\ run'.todo = <<"restore">>
        /\ UNCHANGED <<checkout, inPlace, marker>>
    BY <1>1, <1>5, RestoringAt
  <2> QED BY <1>1, <2>1, <2>2, <2>3, <2>4, <2>5, RebuildGate
<1> QED BY <1>3, <1>4, <1>5 DEF Clear

(* The run dies while it clears. *)
LEMMA ClearDiesGate ==
  ASSUME GateInv, Computer, ClearDies, PhasesGo, SetUp => SetUp'
  PROVE  GateInv'
<1>1. /\ Restoring /\ todo # <<>> /\ marker = "started" /\ Ends("idle") /\ todo' = <<>>
      /\ Troubled /\ UNCHANGED <<checkout, owned, marker, inPlace>>
  BY DEF ClearDies, Doing, Interrupted
<1>2. PICK gone : host' = Without(gone)
  BY DEF ClearDies
<1>3. ~SetUp
  BY <1>1, MadeIs DEF Computer
<1>4. /\ Else(host', RebuildFields) /\ host'.synced = host.synced
      /\ host'.target = IF "projects" \in gone THEN None ELSE host.target
      /\ host'.gate = IF "projects" \in gone THEN 0 ELSE host.gate
      /\ host'.boundary = IF "projects" \in gone THEN 0 ELSE host.boundary
  BY <1>1, <1>2, RestoringAt, WithoutGate
<1>5. /\ host'.target \in Configs /\ host'.target[2] <= checkout /\ host'.boundary \in 0 .. checkout
      /\ host'.gate \in Nat /\ host'.synced \in Nat
      /\ IsAuth(host'.target) => host'.gate = host'.target[2]
  BY <1>1, <1>4, RestoringAt, ConfigsAre
<1>6. run'.step = 1 /\ run'.at = "check" /\ run'.todo = <<>> /\ trouble' \in 0 .. MaxTrouble
  BY <1>1, TroubledIs DEF Ends, Idle, GateInv
<1> QED BY <1>1, <1>3, <1>4, <1>5, <1>6, RestoringAt, RebuildGate

(* What a folder brings when it is filled, wholly or in part. *)
LEMMA BringsGate ==
  ASSUME GateInv, Computer, Restoring, todo # <<>>, Head(todo)[1] = "fill",
         NEW v \in 1 .. checkout, host' = Brought(Target, v)
  PROVE  /\ Else(host', RebuildFields) /\ host'.target \in Configs /\ host'.target[2] <= checkout
         /\ host'.boundary \in 0 .. checkout /\ host'.gate \in Nat /\ host'.synced \in Nat
         /\ IsAuth(host'.target) => host'.gate = host'.target[2]
         /\ Len(todo) - 1 < 6 => host'.synced = host'.gate
<1>1. /\ marker = "started" /\ Len(todo) \in 2 .. StepsToGo /\ Head(todo) = NextToDo(Len(todo))
      /\ StepsToGo \in {19, 22}
  BY TakingStep
<1>2. /\ Else(host', RebuildFields)
      /\ host'.target = IF Target = "projects" THEN Auth(v) ELSE host.target
      /\ host'.gate = IF Target = "projects" THEN v ELSE host.gate
      /\ host'.boundary = IF Target = "projects" THEN v ELSE host.boundary
      /\ host'.synced = IF Target = "identity" THEN host.gate ELSE host.synced
  BY RestoringAt, BroughtGate
<1>3. v \in Nat /\ v \in Versions
  BY RestoringAt, VersionIs DEF Versions, GateInv
<1>4. /\ host'.target \in Configs /\ host'.target[2] <= checkout
      /\ host'.boundary \in 0 .. checkout /\ host'.gate \in Nat /\ host'.synced \in Nat
      /\ IsAuth(host'.target) => host'.gate = host'.target[2]
  BY <1>1, <1>2, <1>3, RestoringAt, ConfigsAre
<1>5. ASSUME Len(todo) - 1 < 6
      PROVE  host'.synced = host'.gate
  <2>1. Len(todo) <= 6 /\ Len(todo) \in 1 .. Len(Plan)
    BY <1>1, <1>5, HeadIs DEF Computer
  <2>2. (Target = "identity" /\ Len(todo) = 6) \/ (Target = "vault" /\ Len(todo) = 3)
    <3>1. \/ Head(todo) = <<"fill", "identity">> /\ Len(todo) = 6
          \/ Head(todo) = <<"fill", "vault">> /\ Len(todo) = 3
      BY <1>1, <2>1, LastFills DEF Computer
    <3> QED BY <3>1 DEF Target
  <2>3. Len(todo) = 3 => host.synced = host.gate
    BY DEF GateInv, GatedInv
  <2> QED BY <1>2, <2>2, <2>3
<1> QED BY <1>2, <1>4, <1>5

LEMMA FillGate ==
  ASSUME GateInv, Computer, Fill, PhasesGo, SetUp => SetUp'
  PROVE  GateInv'
<1>1. /\ Restoring /\ todo # <<>> /\ Head(todo)[1] = "fill" /\ Done
      /\ UNCHANGED <<checkout, run, trouble, owned, marker, inPlace>>
  BY DEF Fill, Doing
<1>2. PICK v \in 1 .. checkout : host' = Brought(Target, v)
  BY DEF Fill
<1>3. marker = "started" /\ Len(todo) \in 2 .. StepsToGo /\ StepsToGo \in {19, 22} /\ Len(todo') = Len(todo) - 1
  BY <1>1, TakingStep, LessToDo
<1>4. ~SetUp
  BY <1>3, MadeIs DEF Computer
<1>5. Len(todo') # StepsToGo + 1 /\ (Len(todo') < 6 => Len(todo) - 1 < 6)
  BY <1>3
<1> QED BY <1>1, <1>2, <1>3, <1>4, <1>5, RestoringAt, BringsGate, RebuildGate

LEMMA FillFailsGate ==
  ASSUME GateInv, Computer, FillFails, PhasesGo, SetUp => SetUp'
  PROVE  GateInv'
<1>1. /\ Restoring /\ todo # <<>> /\ Head(todo)[1] = "fill" /\ Ends("failed") /\ todo' = <<>>
      /\ Troubled /\ UNCHANGED <<checkout, owned, marker, inPlace>>
  BY DEF FillFails, Doing
<1>2. PICK v \in 1 .. checkout : host' = Brought(Target, v)
  BY DEF FillFails
<1>3. marker = "started" /\ ~SetUp
  BY <1>1, TakingStep, MadeIs DEF Computer
<1>4. run'.step = 1 /\ run'.at = "check" /\ run'.todo = <<>> /\ trouble' \in 0 .. MaxTrouble
  BY <1>1, TroubledIs DEF Ends, Idle, GateInv
<1> QED BY <1>1, <1>2, <1>3, <1>4, RestoringAt, BringsGate, RebuildGate

LEMMA OwnSealGate ==
  ASSUME GateInv, Computer, Own \/ Seal, PhasesGo, SetUp => SetUp'
  PROVE  GateInv'
<1>1. Restoring /\ todo # <<>> /\ Head(todo)[1] \in {"own", "seal"}
  BY DEF Own, Seal, Doing
<1>2. CASE Refuse
  BY <1>2, RefuseGate
<1>3. CASE /\ Done /\ UNCHANGED <<host, checkout, run, trouble, marker, inPlace>>
           /\ \E state \in {"open", "sealed"} : owned' = [owned EXCEPT ![Target] = state]
  <2>1. /\ Len(todo) \in 2 .. StepsToGo /\ StepsToGo \in {19, 22} /\ Head(todo) = NextToDo(Len(todo))
        /\ Len(todo') = Len(todo) - 1 /\ Len(todo) \in 1 .. Len(Plan)
    BY <1>1, <1>3, TakingStep, LessToDo
  <2>2. Len(todo) # 6
    BY <1>1, <2>1, WhereIs DEF Computer, PlanInv
  <2>3. Len(todo') # StepsToGo + 1 /\ (Len(todo') < 6 => Len(todo) < 6)
    BY <2>1, <2>2
  <2>4. Len(todo') < 6 => host.synced = host.gate
    BY <1>1, <2>3 DEF GateInv, GatedInv
  <2>5. owned' \in [TargetSet -> {"no", "open", "sealed"}]
    BY <1>1, <1>3, RestoringAt
  <2> QED BY <1>1, <1>3, <2>3, <2>4, <2>5, TodoGate
<1> QED BY <1>2, <1>3 DEF Own, Seal, hostVars

LEMMA OtherRebuildGate ==
  ASSUME GateInv, Computer, OpenRebuild \/ Look \/ Begin \/ WrongPassword \/ Mark, PhasesGo, SetUp => SetUp'
  PROVE  GateInv'
<1>1. Restoring
  BY DEF OpenRebuild, Look, Begin, WrongPassword, Mark, Doing
<1>2. CASE OpenRebuild
  <2>1. Len(Plan) = StepsToGo + 3 /\ StepsToGo \in {19, 22}
    <3>1. Len(Plan) \in Nat \ {0}
      BY PlanIs, TakenIs DEF Computer, PlanInv
    <3>2. Len(Plan) \in 1 .. Len(Plan)
      BY <3>1
    <3> QED BY <3>2, OrderIs DEF Computer, PlanInv
  <2>2. /\ UNCHANGED <<host, checkout, run, trouble, inPlace, marker, owned>>
        /\ ~(Len(todo') < 6) /\ Len(todo') # StepsToGo + 1
    BY <1>2, <2>1 DEF OpenRebuild, hostVars
  <2> QED BY <1>1, <2>2, RestoringAt, TodoGate
<1>3. CASE Look
  <2>1. todo # <<>> /\ Head(todo)[1] = "look"
    BY <1>3 DEF Look, Doing
  <2>2. CASE Refuse
    BY <2>2, RefuseGate
  <2>3. CASE ~Existing /\ Done /\ UNCHANGED <<hostVars, files, owned, marker, inPlace>>
    <3>1. UNCHANGED <<host, checkout, run, trouble, owned, marker, inPlace>> /\ host.target = None
      BY <2>3 DEF hostVars, Existing
    <3>2. Len(todo') = StepsToGo + 1 /\ StepsToGo \in {19, 22}
      BY <1>1, <2>1, <2>3, <3>1, LessToDo, WhereIs DEF Computer, PlanInv
    <3> QED BY <1>1, <3>1, <3>2, ConfigsAre, RestoringAt, TodoGate
  <2> QED BY <1>3, <2>2, <2>3 DEF Look
<1>4. CASE Begin
  <2>1. /\ todo # <<>> /\ Head(todo)[1] = "begin" /\ Done /\ marker' = "started"
        /\ owned' = [t \in TargetSet |-> "no"] /\ UNCHANGED <<host, checkout, run, trouble, inPlace>>
    BY <1>4 DEF Begin, Doing, hostVars
  <2>2. Len(todo) = StepsToGo + 1 /\ Len(todo') = StepsToGo /\ StepsToGo \in {19, 22}
    BY <1>1, <2>1, LessToDo, WhereIs DEF Computer, PlanInv
  <2>3. ~IsAuth(host.target)
    BY <2>1, <2>2 DEF GateInv, GatedInv
  <2> QED BY <1>1, <2>1, <2>2, <2>3, TodoGate
<1>5. CASE WrongPassword
  <2>1. /\ Ends("failed") /\ todo' = <<>> /\ UNCHANGED <<host, checkout, trouble, marker>>
        /\ owned' = [owned EXCEPT !["kopia"] = "sealed"]
    BY <1>5 DEF WrongPassword
  <2>2. owned' \in [TargetSet -> {"no", "open", "sealed"}] /\ trouble' \in 0 .. MaxTrouble
    BY <1>1, <2>1, RestoringAt
  <2>3. run'.step = 1 /\ run'.at = "check" /\ run'.todo = <<>>
    BY <2>1 DEF Ends, Idle
  <2> QED BY <2>1, <2>2, <2>3, FreshGate
<1>6. CASE Mark
  <2>1. /\ todo # <<>> /\ Head(todo)[1] = "mark" /\ marker' = "restored" /\ todo' = <<>>
        /\ run' = [run EXCEPT !.todo = <<>>] /\ UNCHANGED <<host, checkout, trouble, owned, inPlace>>
    BY <1>6 DEF Mark, Doing
  <2>7. Len(todo) \in 1 .. Len(Plan) /\ Head(todo) = NextToDo(Len(todo)) /\ inPlace \in BOOLEAN
    BY <2>1, HeadIs DEF Computer, PlanInv
  <2>2. Len(todo) = 1 /\ StepsToGo \in {19, 22}
    <3>1. Len(todo) = 1
      BY <2>1, <2>7, WhereIs DEF Computer, PlanInv
    <3>2. StepsToGo \in {19, 22}
      BY <2>7, OrderIs
    <3> QED BY <3>1, <3>2
  <2>3. marker = "started" /\ host.synced = host.gate
    <3>1. marker = "started"
      BY <2>1, <2>2 DEF Computer, LeftInv
    <3>2. host.synced = host.gate
      BY <2>1, <2>2 DEF GateInv, GatedInv
    <3> QED BY <3>1, <3>2
  <2>4. IsAuth(host.target) => host.synced >= host.target[2]
    BY <1>1, <2>3, RestoringAt, ConfigsAre
  <2>5. run'.step = 12 /\ run'.at = "fix" /\ run'.state = run.state /\ run'.todo = <<>>
    BY <1>1, <2>1, RestoringAt DEF Computer, RunInv
  <2>6. Else(host', RebuildFields)
    BY <1>1, <2>1, RestoringAt DEF Else
  <2> QED BY <1>1, <2>1, <2>4, <2>5, <2>6, RestoringAt, RebuildGate
<1> QED BY <1>2, <1>3, <1>4, <1>5, <1>6

-----------------------------------------------------------------------------
(* The ends of a run, the worker and the owner. *)

LEMMA FinishGate ==
  ASSUME GateInv, Computer, Finish
  PROVE  GateInv'
<1>1. /\ run.at = "finish" /\ UNCHANGED <<host, checkout, marker, owned, todo, inPlace>>
      /\ Troubled \/ trouble' = trouble
  BY DEF Finish, rebuildVars
<1>2. todo' = <<>>
  BY <1>1, RestoringIs, HeadIs DEF Computer
<1>3. Guarded
  <2>1. SetUp /\ marker # "started"
    BY <1>1, LateIsSetUp DEF GateInv, RestTypes, Computer, RunInv
  <2>2. host.target = Auth(checkout) /\ host.gate = checkout
    BY <1>1 DEF GateInv, ReadyInv, Passed, Left
  <2>3. host.synced >= checkout /\ checkout \in Nat \ {0} /\ host.synced \in Nat
    BY <2>1, <2>2, ConfigsAre, VersionIs DEF GateInv, GatedInv, HostTypes
  <2> QED BY <2>1, <2>2, <2>3 DEF Guarded
<1>4. PhasesGo
  <2>1. phase \in [Phases -> PhaseStates] /\ "core" \in Phases /\ {"verified", "failed"} \subseteq PhaseStates
    BY DEF GateInv, RestTypes, Phases, PhaseStates
  <2>2. ASSUME NEW core \in PhaseStates, BootDone(core) PROVE phase' \in [Phases -> PhaseStates]
    BY <2>1, <2>2 DEF BootDone
  <2>3. phase["core"] \in PhaseStates
    BY <2>1
  <2>4. phase' = phase \/ \E core \in PhaseStates : BootDone(core)
    BY <2>1, <2>3 DEF Finish
  <2> QED BY <1>3, <2>1, <2>2, <2>4 DEF PhasesGo
<1>5. Ends("ready") \/ Ends("idle")
  BY DEF Finish
<1> QED BY <1>1, <1>2, <1>4, <1>5, EndsGate

LEMMA StopsGate ==
  ASSUME GateInv, Computer, UNCHANGED <<owned, marker, phase>>,
         \/ (CommandRefused \/ CommandFails) /\ UNCHANGED rebuildVars
         \/ Die /\ todo' = <<>>
  PROVE  GateInv'
<1>1. todo' = <<>>
  <2>1. CanRun("restore") /\ Head(<<"restore">>) = "restore"
    BY DEF CanRun
  <2>2. CASE (CommandRefused \/ CommandFails) /\ UNCHANGED rebuildVars
    BY <2>1, <2>2, HeadIs DEF CommandRefused, CommandFails, Computer, rebuildVars
  <2> QED BY <2>2
<1>2. /\ UNCHANGED <<host, checkout>> /\ (Ends("failed") \/ Ends("idle"))
      /\ Troubled \/ trouble' = trouble
  BY DEF CommandRefused, CommandFails, Die
<1>3. PhasesGo
  BY PhaseStays DEF GateInv
<1> QED BY <1>1, <1>2, <1>3, EndsGate

LEMMA StartGate ==
  ASSUME GateInv, Computer, NEW restoring, StartRun(restoring), UNCHANGED <<rebuildVars, phase>>
  PROVE  GateInv'
<1>1. /\ ~Running /\ UNCHANGED <<host, checkout, trouble, owned, marker, todo, inPlace>>
      /\ run'.step = 1 /\ run'.at = "check" /\ run'.todo = <<>>
  BY DEF StartRun, Idle, rebuildVars
<1>2. todo = <<>>
  BY <1>1, HeadIs DEF Computer, Restoring
<1>3. PhasesGo /\ trouble' \in 0 .. MaxTrouble /\ owned' \in [TargetSet -> {"no", "open", "sealed"}]
  BY <1>1, PhaseStays DEF GateInv, RestTypes
<1> QED BY <1>1, <1>2, <1>3, FreshGate

(* The phases of core setup are not the gate's. *)
OwnPhases == {"core", "configuration", "verification"}
LEMMA PhaseChanges ==
  ASSUME RestTypes, NEW p \in OwnPhases, NEW q \in OwnPhases, NEW v \in PhaseStates, NEW w \in PhaseStates,
         phase' = [phase EXCEPT ![p] = v, ![q] = w]
  PROVE  PhasesGo
BY DEF RestTypes, OwnPhases, Phases, BootPhases, PhasesGo

LEMMA PhaseChange ==
  ASSUME RestTypes, NEW p \in OwnPhases, NEW v \in PhaseStates, phase' = [phase EXCEPT ![p] = v]
  PROVE  PhasesGo
BY DEF RestTypes, OwnPhases, Phases, BootPhases, PhasesGo

LEMMA WorkerGate ==
  ASSUME GateInv, WorkerStep \/ CoreFails \/ WorkerDies
  PROVE  GateInv'
<1>1. UNCHANGED <<host, checkout, run, marker, todo, inPlace, owned>>
  BY DEF WorkerStep, Claim, InstallApp, CoreWithoutChat, CoreVerified, VerifyRuns, Resume, Unbusy,
         CoreFails, WorkerDies, Quiet, hostVars, rebuildVars
<1>2. Troubled \/ trouble' = trouble
  BY DEF WorkerStep, Claim, InstallApp, CoreWithoutChat, CoreVerified, VerifyRuns, Resume, Unbusy,
         CoreFails, WorkerDies, Quiet, hostVars
<1>3. PhasesGo
  <2>1. RestTypes /\ phase \in [Phases -> PhaseStates] /\ OwnPhases \subseteq Phases
        /\ {"running", "verified", "waiting", "failed"} \subseteq PhaseStates
    BY DEF GateInv, RestTypes, OwnPhases, Phases, PhaseStates
  <2>2. CASE phase' = phase
    BY <2>1, <2>2, PhaseStays
  <2>3. CASE Claim
    <3>1. \E v \in PhaseStates : phase' = [phase EXCEPT !["core"] = v]
      BY <2>1, <2>3 DEF Claim, OwnPhases
    <3> QED BY <2>1, <3>1, PhaseChange DEF OwnPhases
  <2>4. CASE CoreWithoutChat \/ CoreVerified \/ CoreFails
    <3>1. \/ phase' = [phase EXCEPT !["core"] = "verified", !["configuration"] = "waiting"]
          \/ phase' = [phase EXCEPT !["core"] = "verified", !["verification"] = "verified"]
          \/ phase' = [phase EXCEPT !["core"] = "verified"]
          \/ phase' = [phase EXCEPT !["core"] = "failed"]
      BY <2>4 DEF CoreWithoutChat, CoreVerified, CoreFails
    <3> QED BY <2>1, <3>1, PhaseChange, PhaseChanges DEF OwnPhases
  <2>5. CASE VerifyRuns
    <3>1. \/ \E v \in PhaseStates : phase' = [phase EXCEPT !["verification"] = v]
          \/ phase' = [phase EXCEPT !["core"] = "verified", !["verification"] = "verified"]
      BY <2>1, <2>5 DEF VerifyRuns, OwnPhases
    <3> QED BY <2>1, <3>1, PhaseChange, PhaseChanges DEF OwnPhases
  <2> QED BY <2>2, <2>3, <2>4, <2>5 DEF WorkerStep, InstallApp, Resume, Unbusy, WorkerDies
<1> QED BY <1>1, <1>2, <1>3, TroubledIs, NothingGate DEF GateInv

LEMMA OwnerGate ==
  ASSUME GateInv, AskFor("install") \/ AskFor("verify") \/ AddProvider \/ RemoveProvider \/ AppBusy
  PROVE  GateInv'
<1>1. UNCHANGED <<host, checkout, run, marker, todo, inPlace, owned>> /\ (Troubled \/ trouble' = trouble)
  BY DEF AskFor, AddProvider, RemoveProvider, AppBusy, hostVars, rebuildVars
<1>2. PhasesGo
  <2>1. RestTypes /\ "verified" \in PhaseStates
    BY DEF GateInv, PhaseStates
  <2>2. phase' = phase \/ phase' = [phase EXCEPT !["configuration"] = "verified"]
    BY DEF AskFor, AddProvider, RemoveProvider, AppBusy
  <2> QED BY <2>1, <2>2, PhaseStays, PhaseChange DEF OwnPhases
<1> QED BY <1>1, <1>2, TroubledIs, NothingGate DEF GateInv

LEMMA SetupStepGate ==
  ASSUME GateInv, Computer, SetupStep, SetUp => SetUp'
  PROVE  GateInv'
<1>1. CASE (RunCheck(RestoreState) \/ Verify(RestoreState)) /\ HeadStart /\ UNCHANGED rebuildVars
  <2>1. phase' = phase
    BY <1>1 DEF HeadStart, coreVars
  <2> QED BY <1>1, <2>1, CheckGate, VerifyGate
<1>2. CASE (RunCommand \/ Approve \/ CommandRefused \/ Prefetch) /\ UNCHANGED <<rebuildVars, coreVars>>
  <2>1. phase' = phase /\ UNCHANGED rebuildVars /\ UNCHANGED <<owned, marker>>
    BY <1>2 DEF coreVars, rebuildVars
  <2> QED BY <1>2, <2>1, CommandGate, DownloadGate, StopsGate
<1>3. CASE RebuildStep /\ DatabaseBrought
  <2>1. PhasesGo
    BY <1>3, BroughtPhases DEF GateInv
  <2> QED BY <1>3, <2>1, ClearGate, FillGate, OwnSealGate, OtherRebuildGate DEF RebuildStep
<1>4. CASE Finish
  BY <1>4, FinishGate
<1> QED BY <1>1, <1>2, <1>3, <1>4 DEF SetupStep

LEMMA TroublesGate ==
  ASSUME GateInv, Computer, Troubles, SetUp => SetUp'
  PROVE  GateInv'
<1>1. CASE (CommandFails \/ Disturb) /\ UNCHANGED <<rebuildVars, coreVars>>
  <2>1. phase' = phase /\ UNCHANGED rebuildVars /\ UNCHANGED <<owned, marker>>
    BY <1>1 DEF coreVars, rebuildVars
  <2> QED BY <1>1, <2>1, StopsGate, WorldGate
<1>2. CASE Die /\ todo' = <<>> /\ UNCHANGED <<files, owned, marker, inPlace, coreVars>>
  BY <1>2, StopsGate DEF coreVars
<1>3. CASE FillFails /\ (DatabaseBrought \/ UNCHANGED <<phase, jobs>>)
  <2>1. PhasesGo
    BY <1>3, BroughtPhases DEF GateInv
  <2> QED BY <1>3, <2>1, FillFailsGate
<1>4. CASE (ClearDies \/ Meddle) /\ UNCHANGED coreVars
  <2>1. PhasesGo
    BY <1>4, PhaseStays DEF GateInv, coreVars
  <2>2. CASE Meddle
    BY <2>1, <2>2, TroubledIs, NothingGate DEF Meddle, GateInv
  <2> QED BY <1>4, <2>1, <2>2, ClearDiesGate
<1> QED BY <1>1, <1>2, <1>3, <1>4, WorkerGate DEF Troubles

LEMMA PeopleGate ==
  ASSUME GateInv, Computer, People, SetUp => SetUp'
  PROVE  GateInv'
<1>1. CASE /\ (\E restoring \in Modes : StartRun(restoring)) \/ Pull \/ Login \/ FreePort
           /\ UNCHANGED <<rebuildVars, coreVars>>
  <2>1. UNCHANGED <<rebuildVars, phase>>
    BY <1>1 DEF coreVars
  <2> QED BY <1>1, <2>1, StartGate, WorldGate
<1>2. CASE AskFor("install") \/ AskFor("verify") \/ AddProvider \/ RemoveProvider \/ AppBusy
  BY <1>2, OwnerGate
<1> QED BY <1>1, <1>2 DEF People

LEMMA InitGate == Init => GateInv
<1> SUFFICES ASSUME Init PROVE GateInv
  OBVIOUS
<1>1. /\ \E engine \in Engines : host = FreshHost(engine, TRUE)
      /\ checkout = FirstVersion /\ run = Idle /\ trouble = 0 /\ RebuildInit /\ CoreInit
  BY DEF Init
<1>2. /\ Fields \subseteq DOMAIN host /\ host.target = None /\ host.caddy = None /\ host.keys = {}
      /\ host.sources = {} /\ host.gate = 0 /\ host.synced = 0 /\ host.boundary = 0 /\ host.svcStamp = 0
      /\ host.served = {}
  BY <1>1 DEF FreshHost, Fields
<1>3. checkout \in Versions /\ checkout \in Nat \ {0} /\ trouble \in 0 .. MaxTrouble
  BY <1>1, SetupAssumption DEF Versions
<1>4. run.step = 1 /\ run.at = "check" /\ run.todo = <<>> /\ todo = <<>>
      /\ owned \in [TargetSet -> {"no", "open", "sealed"}]
  BY <1>1 DEF Idle, RebuildInit
<1>5. phase \in [Phases -> PhaseStates] /\ phase["dashboard_protection"] = "pending"
  BY <1>1 DEF CoreInit, FreshPhases, Phases, BootPhases, PhaseStates
<1>6. HostTypes
  BY <1>2, ConfigsAre DEF HostTypes, Sources, Routes
<1>7. RestTypes
  BY <1>3, <1>4, <1>5 DEF RestTypes
<1>8. PastInv /\ GatedInv /\ StampInv
  BY <1>2, <1>3, <1>4, <1>5, ConfigsAre DEF PastInv, GatedInv, StampInv, DashboardIsGated, IsAuth
<1>9. OrderInv /\ ReadyInv
  BY <1>4, NoCommands DEF OrderInv, ReadyInv, Passed
<1> QED BY <1>6, <1>7, <1>8, <1>9 DEF GateInv

LEMMA NextGate == IInv /\ GateInv /\ [Next]_vars => GateInv'
<1> SUFFICES ASSUME IInv, GateInv, [Next]_vars PROVE GateInv'
  OBVIOUS
<1>1. Computer
  BY DEF IInv, Computer
<1>2. CASE Next
  <2>1. SetUp => SetUp'
    BY <1>1, <1>2, SetupStepKeeps, WorkerStepKeeps, TroublesKeep, PeopleKeep DEF Next, Sound
  <2> QED BY <1>1, <1>2, <2>1, SetupStepGate, WorkerGate, TroublesGate, PeopleGate DEF Next
<1>3. CASE UNCHANGED vars
  <2>1. UNCHANGED <<host, checkout, run, marker, todo, inPlace, owned, phase, trouble>>
    BY <1>3 DEF vars, hostVars, rebuildVars, coreVars
  <2>2. PhasesGo /\ trouble' \in 0 .. MaxTrouble
    BY <2>1, PhaseStays, TroubledIs DEF GateInv
  <2> QED BY <2>1, <2>2, NothingGate
<1> QED BY <1>2, <1>3

(* The number of core apps installed only grows, until its job ends. *)
InstalledInv == installed \in Nat
Installs == installed' \in {0, installed} \/ (InstallApp /\ installed' = installed + 1)

LEMMA InstalledIs == [Next]_vars => Installs
<1> SUFFICES ASSUME [Next]_vars PROVE Installs
  OBVIOUS
<1>1. CASE UNCHANGED vars
  BY <1>1 DEF vars, coreVars, Installs
<1>2. CASE SetupStep
  BY <1>2 DEF SetupStep, HeadStart, Finish, coreVars, Installs
<1>3. CASE WorkerStep
  BY <1>3 DEF WorkerStep, Claim, InstallApp, CoreWithoutChat, CoreVerified, VerifyRuns, Resume, Unbusy,
              EndJob, Installs
<1>4. CASE Troubles
  BY <1>4 DEF Troubles, CoreFails, WorkerDies, EndJob, coreVars, Installs
<1>5. CASE People
  BY <1>5 DEF People, AskFor, AddProvider, RemoveProvider, AppBusy, coreVars, Installs
<1> QED BY <1>1, <1>2, <1>3, <1>4, <1>5 DEF Next

(* Everything the next two theorems rest on holds in every state. *)
THEOREM GateInvariance == Spec => [](IInv /\ GateInv /\ InstalledInv)
<1>1. Init => IInv /\ GateInv /\ InstalledInv
  <2>1. Init => InstalledInv
    BY DEF Init, CoreInit, InstalledInv
  <2> QED BY <2>1, InitIInv, InitGate
<1>2. IInv /\ GateInv /\ InstalledInv /\ [Next]_vars => IInv' /\ GateInv' /\ InstalledInv'
  BY NextIInv, NextGate, InstalledIs DEF InstalledInv, Installs
<1> QED BY <1>1, <1>2, PTL DEF Spec

(* Whatever command failed and wherever a run, a rebuild or the worker died, the
   gateway serves the dashboard only with a sign-in of a version Authentik was
   configured for, and no core app is installed before that sign-in is there and
   the owner is known (_caddy_fix, _protection_fix, core_setup._sign_in_ready). *)
THEOREM GateIsHeld == Spec => GateHolds
<1> DEFINE I == IInv /\ GateInv /\ InstalledInv
           A == installed' > installed =>
                  host.gate # 0 /\ host.synced # 0 /\ (Mine.actor = "bootstrap" /\ Owner => Mine.identity)
<1>1. I => TypeOK
  <2> SUFFICES ASSUME I PROVE TypeOK
    OBVIOUS
  <2>1. HostTypes /\ RestTypes /\ RunInv /\ FilesInv /\ PlanInv /\ JobsInv
    BY DEF GateInv, IInv
  <2> QED BY <2>1, StepsAre DEF TypeOK, HostTypes, RestTypes, RunInv, FilesInv, PlanInv, JobsInv, Sources
<1>2. I => DashboardIsGated
  BY DEF GateInv, GatedInv
<1>3. I /\ [Next]_vars => [A]_vars
  <2> SUFFICES ASSUME I, [Next]_vars, installed' > installed PROVE A
    OBVIOUS
  <2>1. InstallApp
    BY InstalledIs DEF InstalledInv, Installs
  <2>2. phase["dashboard_protection"] = "verified" /\ (Mine.actor = "bootstrap" => Mine.identity \/ ~Owner)
    BY <2>1 DEF InstallApp, SignInReady
  <2> QED BY <2>2 DEF GateInv, GatedInv
<1> HIDE DEF I
<1>4. Spec => []I
  BY GateInvariance DEF I
<1>5. Spec => [](TypeOK /\ DashboardIsGated)
  BY <1>1, <1>2, <1>4, PTL
<1>6. Spec => CoreAppsAwaitTheGate
  BY <1>3, <1>4, PTL DEF Spec, CoreAppsAwaitTheGate
<1> QED BY <1>5, <1>6, PTL DEF GateHolds

(* Only the end of a run says that Mu3Lab is set up. *)
LEMMA OnlyFinish ==
  ASSUME Computer, [Next]_vars, run'.state = "ready", run.state = "running"
  PROVE  Finish
<1>1. {"state", "step", "at", "todo", "restoring"} \subseteq DOMAIN run
  BY DEF Computer, RunInv
<1>2. \A s : Ends(s) => run'.state = s
  BY DEF Ends, Idle
<1>3. run' # run
  OBVIOUS
<1>4. ~WorkerStep /\ ~People
  BY <1>3 DEF WorkerStep, Claim, InstallApp, CoreWithoutChat, CoreVerified, VerifyRuns, Resume, Unbusy, Quiet,
              People, StartRun, Running, Pull, Login, FreePort, AskFor, AddProvider, RemoveProvider, AppBusy, hostVars
<1>5. ~Troubles
  BY <1>2, <1>3 DEF Troubles, CommandFails, Disturb, Die, FillFails, ClearDies, Meddle, CoreFails, WorkerDies
<1>6. ~(RunCommand \/ Approve \/ CommandRefused \/ Prefetch)
  BY <1>1, <1>2 DEF RunCommand, Approve, CommandRefused, Prefetch
<1>7. ~RunCheck(RestoreState)
  BY <1>1 DEF RunCheck
<1>8. ~Verify(RestoreState)
  BY <1>1, <1>2 DEF Verify, Advance
<1>9. ~RebuildStep
  <2>1. ~Refuse
    BY <1>2 DEF Refuse
  <2>2. ~Mark /\ ~WrongPassword
    BY <1>1, <1>2 DEF Mark, WrongPassword
  <2> QED BY <1>3, <2>1, <2>2 DEF RebuildStep, OpenRebuild, Clear, Look, Begin, Own, Fill, Seal, hostVars
<1>10. CASE UNCHANGED vars
  BY <1>3, <1>10 DEF vars, hostVars
<1> QED BY <1>4, <1>5, <1>6, <1>7, <1>8, <1>9, <1>10 DEF Next, SetupStep

(* When the installer says Mu3Lab is set up, dashboard, API, worker, gateway and the
   images fetched are of the version checked out and every address is published,
   although most of it was not looked at again but trusted from a stamp
   (bootstrap/stamps.py, install.run_job). Nothing is said of the vault and
   Authentik, whose versions the installer does not compare with the checkout. *)
THEOREM ReadyIsCurrent == Spec => ReadyMeansCurrent
<1> DEFINE I == IInv /\ GateInv /\ InstalledInv
           A == run'.state = "ready" /\ run.state = "running" =>
                  /\ host.built = checkout /\ host.ctl = checkout /\ host.worker = checkout
                  /\ host.caddy = Auth(checkout) /\ host.images = checkout /\ host.served = Routes
<1>1. I /\ [Next]_vars => [A]_vars
  <2> SUFFICES ASSUME I, [Next]_vars, run'.state = "ready", run.state = "running" PROVE A
    OBVIOUS
  <2>1. Finish
    BY OnlyFinish DEF IInv, Computer
  <2>2. \A n \in 1 .. 27 : Left(n)
    BY <2>1 DEF Finish, GateInv, ReadyInv, Passed
  <2>3. /\ host.built = checkout /\ host.svcStamp = checkout /\ host.ctl # 0 /\ host.boundary = checkout
        /\ IsAuth(host.caddy) /\ host.images = checkout
        /\ "vault" \in host.served /\ "authentik" \in host.served /\ "lobehub" \in host.served
        /\ "dashboard" \in host.served
    BY <2>2 DEF Left
  <2>4. host.ctl = checkout /\ host.worker = checkout
    BY <2>3 DEF GateInv, StampInv
  <2>5. host.caddy = Auth(checkout)
    BY <2>3, ConfigsAre DEF GateInv, StampInv
  <2>6. host.served = Routes
    BY <2>3 DEF GateInv, HostTypes, Routes
  <2> QED BY <2>3, <2>4, <2>5, <2>6
<1> HIDE DEF I
<1>2. Spec => []I
  BY GateInvariance DEF I
<1> QED BY <1>1, <1>2, PTL DEF Spec, ReadyMeansCurrent

-----------------------------------------------------------------------------
(* The people of this computer: any household, any followed revocations and any
   number of changes and failures. *)
Verdicts == {<<>>} \cup ((Household \X AllTargets) \X {"done", "pending"})
HoldTypes ==
  /\ hold \in [Household -> {"none", "deactivated", "demoted"}]
  /\ task \in [Household -> [AllTargets -> {"none", "pending", "done"}]]
  /\ demotion \in [Household -> {"none", "kept", "lost"}]
RunnerTypes == runner \in [Runners -> [due : SUBSET (Household \X AllTargets), verdict : Verdicts]]

(* Under people.lock nobody else writes a hold: a reactivation has released the
   deactivation, so what it records again is not refused as the weaker hold. *)
ChangeInv ==
  /\ change \in [who : Household \cup {"none"}, act : {"none", "member", "admin", "reactivate"},
                 unfinished : BOOLEAN]
  /\ change.act = "none" => ~change.unfinished
  /\ change.act = "reactivate" => change.who \in Household /\ hold[change.who] # "deactivated"
  /\ change.unfinished => change.act = "reactivate"

HoldInv == HoldTypes /\ RunnerTypes /\ ChangeInv /\ TasksHaveAHold /\ DemotionIsKept

(* What the targets of a hold are made of. *)
LEMMA RoleIsATarget == "authentik_role" \in AllTargets /\ "authentik_role" \in HoldTargets.demoted
  BY PeopleAssumption DEF PeopleAssumption, AllTargets, HoldTargets

(* The first states of a household: administrators, some of them being demoted. *)
LEMMA AccessStarts == AccessInit => HoldInv
<1> SUFFICES ASSUME AccessInit PROVE HoldInv
  OBVIOUS
<1>1. HoldTypes
  BY DEF AccessInit, PeopleInit, HoldTypes
<1>2. RunnerTypes
  BY DEF AccessInit, PeopleInit, RunnerTypes, IdleRunner, Verdicts
<1>3. ChangeInv
  BY DEF AccessInit, PeopleInit, ChangeInv, NoChange
<1>4. TasksHaveAHold
  BY DEF AccessInit, PeopleInit, TasksHaveAHold, NoTasks
<1>5. DemotionIsKept
  BY RoleIsATarget DEF AccessInit, PeopleInit, DemotionIsKept
<1> QED BY <1>1, <1>2, <1>3, <1>4, <1>5 DEF HoldInv

(* access.record keeps the types and leaves no row without a hold; what it writes
   for a demotion is the demotion's row, unless the person is deactivated. *)
LEMMA RecordKeeps ==
  ASSUME HoldTypes, TasksHaveAHold, NEW p \in Household, NEW kind \in {"deactivated", "demoted"},
         Record(p, kind)
  PROVE  /\ HoldTypes' /\ TasksHaveAHold'
         /\ \A q \in Household : task[q]["authentik_role"] = "pending" => task'[q]["authentik_role"] = "pending"
         /\ kind = "demoted" /\ hold[p] # "deactivated" => task'[p]["authentik_role"] = "pending"
         /\ \A q \in Household : demotion'[q] = "kept" =>
              demotion[q] = "kept" \/ (q = p /\ kind = "demoted" /\ hold[p] # "deactivated")
         /\ \A q \in Household \ {p} : hold'[q] = hold[q]
         /\ kind = "demoted" /\ hold[p] # "deactivated" => hold'[p] # "deactivated"
<1>1. CASE hold[p] = "deactivated" /\ kind = "demoted"
  <2>1. UNCHANGED <<hold, task, demotion>>
    BY <1>1 DEF Record, Unrecorded
  <2> QED BY <1>1, <2>1 DEF HoldTypes, TasksHaveAHold
<1>2. CASE ~(hold[p] = "deactivated" /\ kind = "demoted")
  <2>1. Recorded(p, kind)
    BY <1>2 DEF Record
  <2>2. HoldTypes'
    BY <2>1 DEF Recorded, HoldTypes
  <2>3. TasksHaveAHold'
    BY <2>1 DEF Recorded, HoldTypes, TasksHaveAHold
  <2>4. \A q \in Household : task[q]["authentik_role"] = "pending" => task'[q]["authentik_role"] = "pending"
    BY <2>1, RoleIsATarget DEF Recorded, HoldTypes
  <2>5. kind = "demoted" => task'[p]["authentik_role"] = "pending"
    BY <2>1, RoleIsATarget DEF Recorded, HoldTypes
  <2>6. \A q \in Household : demotion'[q] = "kept" =>
          demotion[q] = "kept" \/ (q = p /\ kind = "demoted" /\ hold[p] # "deactivated")
    BY <1>2, <2>1 DEF Recorded, HoldTypes
  <2> QED BY <1>2, <2>1, <2>2, <2>3, <2>4, <2>5, <2>6 DEF Recorded, HoldTypes
<1> QED BY <1>1, <1>2

(* access.release deletes the rows with the hold, and only of its kind. *)
LEMMA ReleaseKeeps ==
  ASSUME HoldTypes, TasksHaveAHold, NEW p \in Household, NEW kind \in {"deactivated", "demoted"},
         Release(p, kind)
  PROVE  /\ HoldTypes' /\ TasksHaveAHold'
         /\ \A q \in Household \ {p} : task'[q] = task[q] /\ hold'[q] = hold[q]
         /\ \A q \in Household : demotion'[q] = "kept" => demotion[q] = "kept"
         /\ hold'[p] # kind
         /\ hold[p] # kind => task' = task /\ hold' = hold
         /\ hold[p] = kind /\ kind = "demoted" => demotion'[p] = "none"
<1>1. CASE hold[p] # kind
  BY <1>1 DEF Release, Unrecorded, HoldTypes, TasksHaveAHold
<1>2. CASE hold[p] = kind
  <2>1. /\ hold' = [hold EXCEPT ![p] = "none"] /\ task' = [task EXCEPT ![p] = NoTasks]
        /\ demotion' = IF kind = "demoted" THEN [demotion EXCEPT ![p] = "none"] ELSE demotion
    BY <1>2 DEF Release
  <2>2. NoTasks \in [AllTargets -> {"none", "pending", "done"}]
    BY DEF NoTasks
  <2>3. HoldTypes'
    BY <2>1, <2>2 DEF HoldTypes
  <2>4. TasksHaveAHold'
    BY <2>1 DEF HoldTypes, TasksHaveAHold
  <2> QED BY <1>2, <2>1, <2>3, <2>4 DEF HoldTypes
<1> QED BY <1>1, <1>2

(* The changes of a person keep the invariant. *)
LEMMA ChangesKeep ==
  ASSUME HoldInv, NEW p \in Household, ChangeStep(p)
  PROVE  HoldInv'
<1> USE DEF HoldInv
<1>1. CASE Deactivate(p)
  <2>1. Record(p, "deactivated") /\ change = NoChange /\ UNCHANGED <<change, runner>>
    BY <1>1 DEF Deactivate, Asks
  <2>2. /\ HoldTypes' /\ TasksHaveAHold'
        /\ \A q \in Household : demotion'[q] = "kept" => demotion[q] = "kept"
        /\ \A q \in Household : task[q]["authentik_role"] = "pending" => task'[q]["authentik_role"] = "pending"
    BY <2>1, RecordKeeps
  <2>3. ChangeInv'
    BY <2>1 DEF ChangeInv, NoChange
  <2>4. DemotionIsKept'
    BY <2>1, <2>2 DEF DemotionIsKept, HoldTypes, NoChange
  <2> QED BY <2>1, <2>2, <2>3, <2>4 DEF RunnerTypes
<1>2. CASE Demote(p)
  <2>1. /\ change = NoChange /\ change' = [who |-> p, act |-> "member", unfinished |-> FALSE]
        /\ UNCHANGED runner
        /\ Record(p, "demoted") \/ Unrecorded
    BY <1>2 DEF Demote, Asks
  <2>2. ChangeInv'
    BY <2>1 DEF ChangeInv, NoChange
  <2>3. CASE Record(p, "demoted")
    <3>1. /\ HoldTypes' /\ TasksHaveAHold'
          /\ \A q \in Household : task[q]["authentik_role"] = "pending" => task'[q]["authentik_role"] = "pending"
          /\ hold[p] # "deactivated" => task'[p]["authentik_role"] = "pending"
          /\ \A q \in Household : demotion'[q] = "kept" =>
               demotion[q] = "kept" \/ (q = p /\ hold[p] # "deactivated")
      BY <2>3, RecordKeeps
    <3>2. DemotionIsKept'
      BY <2>1, <3>1 DEF DemotionIsKept, HoldTypes, NoChange
    <3> QED BY <2>1, <2>2, <3>1, <3>2 DEF RunnerTypes
  <2>4. CASE Unrecorded
    BY <2>1, <2>2, <2>4 DEF Unrecorded, HoldTypes, TasksHaveAHold, DemotionIsKept, RunnerTypes, NoChange
  <2> QED BY <2>1, <2>3, <2>4
<1>3. CASE Promote(p)
  <2>1. /\ change = NoChange /\ change' = [who |-> p, act |-> "admin", unfinished |-> FALSE]
        /\ UNCHANGED runner /\ Release(p, "demoted")
    BY <1>3 DEF Promote, Asks
  <2>2. /\ HoldTypes' /\ TasksHaveAHold'
        /\ \A q \in Household : demotion'[q] = "kept" => demotion[q] = "kept"
        /\ \A q \in Household \ {p} : task'[q] = task[q]
        /\ hold[p] # "demoted" => task' = task
        /\ hold[p] = "demoted" => demotion'[p] = "none"
    BY <2>1, ReleaseKeeps
  <2>3. ChangeInv'
    BY <2>1 DEF ChangeInv, NoChange
  <2>4. DemotionIsKept'
    BY <2>1, <2>2 DEF DemotionIsKept, HoldTypes, NoChange
  <2> QED BY <2>1, <2>2, <2>3, <2>4 DEF RunnerTypes
<1>4. CASE Reactivate(p)
  <2>1. /\ change = NoChange
        /\ change' = [who |-> p, act |-> "reactivate", unfinished |-> Unfinished(p)]
        /\ UNCHANGED runner /\ Release(p, "deactivated")
    BY <1>4 DEF Reactivate, Asks
  <2>2. /\ HoldTypes' /\ TasksHaveAHold'
        /\ \A q \in Household : demotion'[q] = "kept" => demotion[q] = "kept"
        /\ \A q \in Household \ {p} : task'[q] = task[q]
        /\ hold'[p] # "deactivated"
    BY <2>1, ReleaseKeeps
  <2>3. ChangeInv'
    BY <2>1, <2>2 DEF ChangeInv, NoChange, Unfinished
  <2>4. DemotionIsKept'
    <3> SUFFICES ASSUME NEW q \in Household, demotion'[q] = "kept"
                 PROVE  task'[q]["authentik_role"] = "pending" \/ (change'.who = q /\ change'.unfinished)
      BY DEF DemotionIsKept
    <3>1. demotion[q] = "kept" /\ task[q]["authentik_role"] = "pending"
      BY <2>1, <2>2 DEF DemotionIsKept, HoldTypes, NoChange
    <3> QED BY <2>1, <2>2, <3>1 DEF Unfinished
  <2> QED BY <2>1, <2>2, <2>3, <2>4 DEF RunnerTypes
<1>5. ASSUME NEW role \in {"admin", "member"}, SetRole(p, role)
      PROVE  HoldInv'
  <2>1. /\ change.act = role /\ change' = NoChange
        /\ UNCHANGED <<hold, task, runner>>
    BY <1>5 DEF SetRole
  <2>2. ~change.unfinished
    BY <2>1 DEF ChangeInv
  <2>3. ChangeInv'
    BY <2>1 DEF ChangeInv, NoChange
  <2>4. PICK d \in {"none", "lost", demotion[p]} : demotion' = [demotion EXCEPT ![p] = d]
    BY <1>5 DEF SetRole, HoldTypes
  <2>5. HoldTypes'
    BY <2>1, <2>4 DEF HoldTypes
  <2>6. DemotionIsKept'
    BY <2>1, <2>2, <2>4 DEF HoldTypes, DemotionIsKept
  <2> QED BY <2>1, <2>3, <2>5, <2>6 DEF TasksHaveAHold, RunnerTypes
<1>6. CASE RecordAgain(p)
  <2>1. /\ change.who = p /\ change.act = "reactivate" /\ UNCHANGED runner
        /\ change' = [change EXCEPT !.unfinished = FALSE]
        /\ Record(p, "demoted")
    BY <1>6 DEF RecordAgain
  <2>2. hold[p] # "deactivated"
    BY <2>1 DEF ChangeInv
  <2>3. /\ HoldTypes' /\ TasksHaveAHold' /\ hold'[p] # "deactivated"
        /\ \A q \in Household : task[q]["authentik_role"] = "pending" => task'[q]["authentik_role"] = "pending"
        /\ task'[p]["authentik_role"] = "pending"
        /\ \A q \in Household : demotion'[q] = "kept" => demotion[q] = "kept" \/ q = p
    BY <2>1, <2>2, RecordKeeps
  <2>4. ChangeInv'
    BY <2>1, <2>3 DEF ChangeInv
  <2>5. DemotionIsKept'
    BY <2>1, <2>3 DEF DemotionIsKept, HoldTypes
  <2> QED BY <2>1, <2>3, <2>4, <2>5 DEF RunnerTypes
<1>7. CASE LetBackIn(p)
  <2>1. /\ ~change.unfinished /\ change' = NoChange
        /\ UNCHANGED <<hold, task, demotion, runner>>
    BY <1>7 DEF LetBackIn, Unrecorded
  <2>2. ChangeInv'
    BY <2>1 DEF ChangeInv, NoChange
  <2> QED BY <2>1, <2>2 DEF HoldTypes, TasksHaveAHold, DemotionIsKept, RunnerTypes
<1> QED BY <1>1, <1>2, <1>3, <1>4, <1>5, <1>6, <1>7 DEF ChangeStep

(* The runners' verdicts fall on rows that exist or on none. *)
LEMMA RunnersKeep ==
  ASSUME HoldInv, RunnerStep
  PROVE  HoldInv'
<1> USE DEF HoldInv
<1>1. CASE ReadDue \/ \E p \in Household : ReadAsked(p)
  <2>1. UNCHANGED <<hold, task, demotion, change>>
    BY <1>1 DEF ReadDue, ReadAsked
  <2>2. DueRows \subseteq Household \X AllTargets
    BY DEF DueRows, PendingOf
  <2>3. RunnerTypes'
    <3>1. PICK r \in {"loop", "api"}, rows \in SUBSET (Household \X AllTargets) :
            runner' = [runner EXCEPT ![r].due = rows]
      BY <1>1, <2>2 DEF ReadDue, ReadAsked, Reads
    <3>2. r \in Runners => [runner[r] EXCEPT !.due = rows]
                            \in [due : SUBSET (Household \X AllTargets), verdict : Verdicts]
      BY DEF RunnerTypes
    <3> QED BY <3>1, <3>2 DEF RunnerTypes
  <2> QED BY <2>1, <2>3 DEF HoldTypes, ChangeInv, TasksHaveAHold, DemotionIsKept
<1>2. ASSUME NEW r \in Runners, Handle(r)
      PROVE  HoldInv'
  <2>1. UNCHANGED <<hold, task, change>>
    BY <1>2 DEF Handle
  <2>2. PICK row \in Upcoming(r) :
          /\ \E w \in {"done", "pending"} :
               runner' = [runner EXCEPT ![r] = [due |-> @.due \ {row}, verdict |-> <<row, w>>]]
          /\ \/ demotion' = [demotion EXCEPT ![row[1]] = "none"]
             \/ demotion' = demotion
    BY <1>2 DEF Handle
  <2>3. row \in runner[r].due
    BY <2>2 DEF Upcoming
  <2>4. RunnerTypes'
    BY <2>2, <2>3 DEF RunnerTypes, Verdicts
  <2>5. row[1] \in Household
    BY <2>3 DEF RunnerTypes
  <2>6. HoldTypes'
    BY <2>1, <2>2, <2>5 DEF HoldTypes
  <2>7. DemotionIsKept'
    BY <2>1, <2>2, <2>5 DEF HoldTypes, DemotionIsKept
  <2> QED BY <2>1, <2>4, <2>6, <2>7 DEF ChangeInv, TasksHaveAHold
<1>3. ASSUME NEW r \in Runners, MarkRow(r)
      PROVE  HoldInv'
  <2>1. PICK p \in Household, t \in AllTargets, w \in {"done", "pending"} :
          runner[r].verdict = <<<<p, t>>, w>>
    BY <1>3 DEF MarkRow, RunnerTypes, Verdicts
  <2>2. /\ task' = [task EXCEPT ![p][t] = IF @ = "none" THEN @ ELSE w]
        /\ demotion' = IF t = "authentik_role" /\ w = "done" /\ demotion[p] = "kept"
                        THEN [demotion EXCEPT ![p] = "lost"] ELSE demotion
        /\ runner' = [runner EXCEPT ![r].verdict = <<>>]
        /\ UNCHANGED <<hold, change>>
    BY <1>3, <2>1 DEF MarkRow
  <2>3. HoldTypes'
    BY <2>2 DEF HoldTypes
  <2>4. RunnerTypes'
    BY <2>2 DEF RunnerTypes, Verdicts
  <2>5. TasksHaveAHold'
    <3> SUFFICES ASSUME NEW q \in Household, hold[q] = "none"
                 PROVE  task'[q] = NoTasks
      BY <2>2 DEF TasksHaveAHold
    <3>1. task[q] = NoTasks
      BY DEF TasksHaveAHold
    <3>2. q = p => task[p][t] = "none"
      BY <3>1 DEF NoTasks
    <3>3. task'[q] = task[q]
      BY <2>2, <3>2 DEF HoldTypes
    <3> QED BY <3>1, <3>3
  <2>6. DemotionIsKept'
    BY <2>2, RoleIsATarget DEF HoldTypes, DemotionIsKept
  <2> QED BY <2>2, <2>3, <2>4, <2>5, <2>6 DEF ChangeInv
<1> QED BY <1>1, <1>2, <1>3 DEF RunnerStep

(* A death of the API ends the change under way: what a reactivation had read and
   not yet recorded again is lost, and nothing else. *)
LEMMA DeathKeeps ==
  ASSUME HoldInv, ApiDies
  PROVE  HoldInv'
<1> USE DEF HoldInv
<1>1. /\ change' = NoChange /\ UNCHANGED <<hold, task>>
      /\ runner' = [r \in Runners |-> IF r = "api" THEN IdleRunner ELSE runner[r]]
      /\ demotion' = IF change.unfinished /\ ~Unfinished(change.who)
                     THEN [demotion EXCEPT ![change.who] = "lost"] ELSE demotion
  BY DEF ApiDies
<1>2. HoldTypes'
  BY <1>1 DEF HoldTypes
<1>3. RunnerTypes'
  BY <1>1 DEF RunnerTypes, IdleRunner, Verdicts
<1>4. ChangeInv'
  BY <1>1 DEF ChangeInv, NoChange
<1>5. DemotionIsKept'
  BY <1>1 DEF HoldTypes, DemotionIsKept, Unfinished
<1> QED BY <1>1, <1>2, <1>3, <1>4, <1>5 DEF TasksHaveAHold

(* Every step of the household, of the runners and of the worker's passes keeps
   the invariant. *)
LEMMA AccessStepsKeep == HoldInv /\ [AccessNext]_accessVars => HoldInv'
<1> SUFFICES ASSUME HoldInv, [AccessNext]_accessVars PROVE HoldInv'
  OBVIOUS
<1>1. CASE PassStep \/ (\E p \in Household : PersonStep(p)) \/ UNCHANGED accessVars
  <2>1. UNCHANGED <<hold, task, demotion, change, runner>>
    <3>1. ASSUME SyncCopies \/ SyncCalendar \/ SyncChat \/ SyncVoice
          PROVE  Moves
      BY <3>1, Zenon DEF SyncCopies, SyncCalendar, SyncChat, SyncVoice
    <3>2. Moves \/ BeginPass \/ MakeCalendarKeys \/ (\E p \in Household : PersonStep(p))
            \/ UNCHANGED accessVars
      BY <1>1, <3>1, Zenon DEF PassStep
    <3> QED BY <3>2 DEF BeginPass, MakeCalendarKeys, Moves, Unpassed, PersonStep, SignIn,
                        MakeVoiceKey, accessVars, peopleVars
  <2> QED BY <2>1 DEF HoldInv, HoldTypes, RunnerTypes, ChangeInv, TasksHaveAHold, DemotionIsKept
<1>2. CASE \E p \in Household : ChangeStep(p)
  BY <1>2, ChangesKeep
<1>3. CASE RunnerStep
  BY <1>3, RunnersKeep
<1>4. CASE ApiDies
  BY <1>4, DeathKeeps
<1> QED BY <1>1, <1>2, <1>3, <1>4 DEF AccessNext

(* Revocations never outlive the hold they were recorded for. *)
THEOREM RevocationsBelong == AccessSpec => []TasksHaveAHold
<1>1. HoldInv => TasksHaveAHold
  BY DEF HoldInv
<1> QED BY AccessStarts, AccessStepsKeep, <1>1, PTL DEF AccessSpec

(* A demotion that is neither finished nor taken back stays due, however changes,
   deaths and runners interleave, but for the three losses people.py, access.py
   and their runners have: a death between a reactivation's two transactions, a
   demotion record wrote no row for, and an older row's verdict on a newer row. *)
THEOREM DemotionsStayDue == AccessSpec => []DemotionIsKept
<1>1. HoldInv => DemotionIsKept
  BY DEF HoldInv
<1> QED BY AccessStarts, AccessStepsKeep, <1>1, PTL DEF AccessSpec
=============================================================================
