------------------------------ MODULE Rebuild ------------------------------
(* ./install.sh --restore: the step restore_backup puts the old computer's
   Mu3Lab back before anything creates new secrets or new data, and keeps a
   record of every folder it takes, so that an interrupted rebuild can be
   cleared without touching anything that is not its own (ctl/rebuild.py). *)
EXTENDS HostSetup

VARIABLES
  files,    \* per target: absent, partial or whole (the rebuild's), changed or theirs (a person's)
  owned,    \* rebuild-started.json: per target no, open (not inventoried) or sealed
  marker,   \* none, started, restored
  todo,     \* what rebuild.restore has left to do
  inPlace   \* the owner copied the backups to their usual place

rebuildVars == <<files, owned, marker, todo, inPlace>>

(* In the order they are taken; control is the database and the keys, identity
   and vault are data folders. *)
Targets == <<"copy", "kopia", "staging", "projects", "control", "identity", "vault">>
TargetSet == ToSet(Targets)
Content == {"absent", "partial", "whole", "changed", "theirs"}

RebuildInit ==
  /\ inPlace \in BOOLEAN
  /\ files = [t \in TargetSet |-> IF t = "copy" /\ inPlace THEN "theirs" ELSE "absent"]
  /\ owned = [t \in TargetSet |-> "no"]
  /\ marker = "none" /\ todo = <<>>

Interrupted == marker = "started"
RestoreState ==
  IF marker = "restored" THEN "ready"
  ELSE IF run.restoring THEN "missing"
  ELSE IF Interrupted THEN "interrupted"
  ELSE "not_requested"

Taken == IF inPlace THEN Tail(Targets) ELSE Targets
Taking == [n \in 1 .. 3 * Len(Taken) |->   \* each target is owned, filled and sealed
             << <<"own", "fill", "seal">>[((n - 1) % 3) + 1], Taken[((n - 1) \div 3) + 1] >>]
Plan == <<<<"clear", "all">>, <<"look", "all">>, <<"begin", "all">>>> \o Taking \o <<<<"mark", "all">>>>

Restoring == Running /\ Step = "restore_backup" /\ run.todo = <<"restore">>
Doing(what) == Restoring /\ todo # <<>> /\ Head(todo)[1] = what
Target == Head(todo)[2]
Done == todo' = Tail(todo)
(* RebuildError: the step fails and the run ends; what is on disk stays. *)
Refuse ==
  /\ Ends("failed") /\ todo' = <<>>
  /\ UNCHANGED <<host, checkout, trouble, files, owned, marker, inPlace>>

(* What the old computer's files bring: its keys, its gateway configuration
   and stamps (of a version this checkout may have left behind), its accounts. *)
Brought(t, v) ==
  CASE t = "control" -> [host EXCEPT !.tokens = "old"]
    [] t = "projects" -> [host EXCEPT !.target = Auth(v), !.gate = v, !.boundary = v,
                                      !.project = v, !.env = "clean"]
    [] t = "identity" -> [host EXCEPT !.admin = "old", !.synced = host.gate]
    [] t = "vault" -> [host EXCEPT !.account = "old"]
    [] OTHER -> host
(* The computer without these targets. *)
Without(gone) ==
  [host EXCEPT !.tokens = IF "control" \in gone THEN "none" ELSE @,
               !.admin = IF "identity" \in gone THEN "none" ELSE @,
               !.account = IF "vault" \in gone THEN "none" ELSE @,
               !.target = IF "projects" \in gone THEN None ELSE @,
               !.gate = IF "projects" \in gone THEN 0 ELSE @,
               !.boundary = IF "projects" \in gone THEN 0 ELSE @,
               !.project = IF "projects" \in gone THEN 0 ELSE @,
               !.env = IF "projects" \in gone THEN "none" ELSE @]

OpenRebuild ==
  /\ Restoring /\ todo = <<>>
  /\ todo' = Plan
  /\ UNCHANGED <<hostVars, files, owned, marker, inPlace>>

(* _clear_partial: every owned folder that is still there must be exactly as it
   was when it was inventoried; otherwise nothing is removed. *)
Leftover == {t \in TargetSet : owned[t] # "no" /\ files[t] # "absent"}
Removable_Any == Leftover   \* mutant: what the record names is removed, whatever became of it
Removable == {t \in Leftover : owned[t] = "sealed" /\ files[t] = "whole"}
Clear ==
  /\ Doing("clear")
  /\ IF ~Interrupted THEN Done /\ UNCHANGED <<hostVars, files, owned, marker, inPlace>>
     ELSE IF Leftover # Removable THEN Refuse
     ELSE /\ Done
          /\ files' = [t \in TargetSet |-> IF t \in Removable THEN "absent" ELSE files[t]]
          /\ host' = Without(Removable)
          /\ UNCHANGED <<checkout, run, trouble, owned, marker, inPlace>>

(* The run dies while rm works: some targets are gone, one may be half gone. *)
ClearDies ==
  /\ Doing("clear") /\ Interrupted /\ Leftover = Removable /\ Removable # {}
  /\ Troubled
  /\ \E gone \in SUBSET Removable, half \in Removable :
       /\ files' = [t \in TargetSet |-> IF t = half THEN "changed"
                                        ELSE IF t \in gone THEN "absent" ELSE files[t]]
       /\ host' = Without(gone \cup {half})
  /\ Ends("idle") /\ todo' = <<>>
  /\ UNCHANGED <<checkout, owned, marker, inPlace>>

(* existing_data: secrets, projects, data or backups that are already here. *)
Existing == "new" \in {host.tokens, host.account, host.admin} \/ host.target # None \/ host.project # 0
  \/ (\E t \in {"projects", "control", "identity", "vault"} : files[t] # "absent")
  \/ (~inPlace /\ files["copy"] # "absent")
Look ==
  /\ Doing("look")
  /\ IF Existing THEN Refuse ELSE Done /\ UNCHANGED <<hostVars, files, owned, marker, inPlace>>

Begin ==
  /\ Doing("begin")
  /\ marker' = "started" /\ owned' = [t \in TargetSet |-> "no"]
  /\ Done
  /\ UNCHANGED <<hostVars, files, inPlace>>

(* _own: the record names the folder, not yet inventoried, before it is filled. *)
Ownable(t) == files[t] = "absent"
Own ==
  /\ Doing("own")
  /\ IF ~Ownable(Target) THEN Refuse
     ELSE /\ owned' = [owned EXCEPT ![Target] = "open"] /\ Done
          /\ UNCHANGED <<hostVars, files, marker, inPlace>>

(* Copy, open, restore a folder, put the control files in place (which empties
   the staging folder). *)
Fill ==
  /\ Doing("fill")
  /\ files' = [t \in TargetSet |-> IF t = Target THEN "whole"
                 ELSE IF Target = "control" /\ t = "staging" THEN "absent" ELSE files[t]]
  /\ \E v \in 1 .. checkout : host' = Brought(Target, v)
  /\ Done
  /\ UNCHANGED <<checkout, run, trouble, owned, marker, inPlace>>

(* A command fails, the run dies, or the typed password is not the backups':
   the folder is half filled. Kopia's own folder is inventoried all the same. *)
FillFails ==
  /\ Doing("fill") /\ Troubled
  /\ \E v \in 1 .. checkout : host' = Brought(Target, v)
  /\ files' = [files EXCEPT ![Target] = IF @ = "theirs" THEN @ ELSE "partial"]
  /\ owned' = owned
  /\ Ends("failed") /\ todo' = <<>>
  /\ UNCHANGED <<checkout, marker, inPlace>>

WrongPassword ==
  /\ Doing("fill") /\ Target = "kopia"
  /\ files' = [files EXCEPT !["kopia"] = "whole"]
  /\ owned' = [owned EXCEPT !["kopia"] = "sealed"]
  /\ Ends("failed") /\ todo' = <<>>
  /\ UNCHANGED <<host, checkout, trouble, marker, inPlace>>

Seal ==
  /\ Doing("seal")
  /\ owned' = [owned EXCEPT ![Target] = "sealed"] /\ Done
  /\ UNCHANGED <<hostVars, files, marker, inPlace>>

Mark ==
  /\ Doing("mark")
  /\ marker' = "restored"
  /\ run' = [run EXCEPT !.todo = <<>>] /\ todo' = <<>>
  /\ UNCHANGED <<host, checkout, trouble, files, owned, inPlace>>

(* Between two runs a person changes what the rebuild left, or puts files of
   their own where it would restore to. *)
Meddle ==
  /\ ~Running /\ marker # "restored" /\ Troubled
  /\ \E t \in TargetSet :
       /\ files[t] \in {"absent", "partial", "whole"}
       /\ files' = [files EXCEPT ![t] = IF @ = "absent" THEN "theirs" ELSE "changed"]
  /\ UNCHANGED <<host, checkout, run, owned, marker, todo, inPlace>>

RebuildStep ==
  \/ OpenRebuild \/ Clear \/ Look \/ Begin \/ Own \/ Fill \/ WrongPassword \/ Seal \/ Mark
=============================================================================
