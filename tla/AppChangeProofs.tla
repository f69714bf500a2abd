-------------------------- MODULE AppChangeProofs --------------------------
(***************************************************************************)
(* Proofs about AppChange, for any number of folders and of jobs.          *)
(*                                                                         *)
(* What a change owes the owner is written in its note and in the folders  *)
(* it kept aside.  The inductive invariant IInv says what the note         *)
(* promises of every folder (NoteInv), what is true while there is none    *)
(* (RestInv), and what each place of the code relies on.                   *)
(***************************************************************************)
EXTENDS AppChange, TLAPS

------------------------------------------------------------------------------
(* The inductive invariant.                                                  *)

\* The places of each job.
RestorePlaces == {"unpack", "note", "stop", "aside", "in", "switch", "start", "clear", "housekeep"}
BackPlaces == {"back_stop", "back_swap", "back_deploy", "back_clear"}
UpdatePlaces == {"capture", "render", "revert", "revert_stopped", "revert_start", "up_stop",
                 "apply", "up_write", "up_start", "up_stop_again", "up_clear"}
UndoPlaces == {"undo_stop", "undo_deploy", "undo_unpack", "undo_aside", "undo_in", "undo_clear"}
KeepPlaces == {"keep_write", "keep_start", "keep_stop", "keep_clear"}
FreshPlaces == {"unpack", "note", "capture"}
OverPlaces == {"housekeep", "back_start", "revert_start", "undo_start"}
AppliedPlaces == {"up_write", "up_start", "up_stop_again", "up_clear"} \union KeepPlaces

Clear(p) == \A f \in Folders : disk[p][f] = "none"
LiveAsBefore == \A f \in Folders : disk["live"][f] = before.live[f]

\* Data of backup b2 has every folder that only release r2 uses.
Full(live, original) ==
  (\E f \in Folders : "b2" \in {live[f], original[f]}) =>
     \A g \in added : live[g] # "none" \/ original[g] # "none"
SomeData(live, original) == \E f \in Folders : live[f] # "none" \/ original[f] # "none"

BasicInv ==
  /\ TypeOK
  /\ added # Folders
  /\ \A r \in Releases : bundles[r] # NoDeployment => bundles[r].release = r

\* Which job is where, and whether it has a note.
ControlInv ==
  /\ pc = "idle" <=> job.state # "running"
  /\ pc = "idle" => task = NoNote
  /\ pc \in RestorePlaces => job.action = "restore"
  /\ pc \in BackPlaces \union {"back_start"} => job.action \in {"restore", "recover"}
  /\ pc \in UpdatePlaces => job.action = "update"
  /\ pc \in UndoPlaces \union {"undo_start"} => job.action \in {"update", "recover"}
  /\ pc \in KeepPlaces => job.action = "keep_update"
  /\ pc \in FreshPlaces => note = NoNote /\ task = NoNote /\ Clear("original")
  /\ pc \in OverPlaces => note = NoNote
  /\ pc \in {"stop", "aside", "in", "switch", "start", "clear"} =>
       note.kind = "restore" /\ task = note
  /\ pc \in {"render", "revert", "revert_stopped", "up_stop", "apply"} =>
       note.kind = "update" /\ ~note.applied /\ task = note
  /\ pc \in AppliedPlaces => note.kind = "update" /\ note.applied /\ task = note
  /\ pc \in UndoPlaces => note.kind = "update" /\ task = note
  /\ pc \in BackPlaces =>
       \/ note.kind = "restore" /\ task = note
       \/ note = NoNote /\ task.kind = "restore" /\ task.bundle = NoDeployment /\ task.absent = {}

\* What the note of a restore promises of each folder, and that of an update.
RestoreNote ==
  /\ ~note.applied
  /\ note.folders # {}
  /\ note.absent = {f \in note.folders : before.live[f] = "none"}
  /\ \A f \in Folders \ note.folders :
       disk["original"][f] = "none" /\ disk["live"][f] = before.live[f]
  /\ \A f \in note.folders :
       \/ disk["original"][f] = before.live[f]
       \/ disk["original"][f] = "none" /\ disk["live"][f] = before.live[f]
UpdateNote ==
  /\ before.deploy.release = "r1"
  /\ Clear("original")
  /\ ~note.applied => LiveAsBefore
  /\ note.applied => \A f \in Folders :
       /\ note.snapshot[f] = before.live[f]
       /\ before.live[f] = "none" => disk["live"][f] \in {"none", "new"}

NoteInv ==
  note # NoNote =>
    /\ note.bundle = before.deploy
    /\ before.deploy \in Deployments
    /\ (\E f \in Folders : before.live[f] = "b2") => \A g \in added : before.live[g] # "none"
    /\ before.deploy.release = "r1" => \E f \in Folders : before.live[f] # "none"
    /\ note.kind \in {"restore", "update"}
    /\ note.kind = "restore" => RestoreNote
    /\ note.kind = "update" => UpdateNote

RestInv ==
  note = NoNote =>
    /\ \A f \in Folders : disk["original"][f] # "none" => f \in Uses(deploy.files)
    /\ Full(disk["live"], disk["original"])
    /\ deploy.release = "r1" => SomeData(disk["live"], disk["original"])

\* A restore: what it unpacked is what it goes to, and fits the deployment.
Fits ==
  /\ Holds(job.backup) \subseteq Layout
  /\ \A f \in Layout \ Holds(job.backup) : disk["live"][f] = "none"
Fitted ==
  /\ deploy.release = Target
  /\ Holds(job.backup) \subseteq Uses(deploy.files)
  /\ \A f \in Uses(deploy.files) \ Holds(job.backup) : disk["live"][f] = "none"
RestoreInv ==
  /\ pc \in {"stop", "aside", "in", "switch", "start", "clear", "housekeep"} =>
       task.folders = Holds(job.backup)
  /\ pc \in {"note", "stop", "aside", "in", "switch"} => Fits
  /\ pc \in {"note", "stop"} =>
       \A f \in Holds(job.backup) : disk["restoring"][f] = job.backup
  /\ pc = "stop" => LiveAsBefore /\ Clear("original")
  /\ pc \in {"aside", "in"} =>
       /\ todo # {} /\ todo \subseteq task.folders
       /\ \A f \in todo : disk["restoring"][f] = job.backup
       /\ \A f \in task.folders \ todo :
            disk["live"][f] = job.backup /\ disk["original"][f] = before.live[f]
  /\ pc = "aside" =>
       \A f \in todo : disk["live"][f] = before.live[f] /\ disk["original"][f] = "none"
  /\ pc = "in" =>
       /\ \A f \in todo \ {Turn} : disk["live"][f] = before.live[f] /\ disk["original"][f] = "none"
       /\ disk["original"][Turn] = before.live[Turn]
  /\ pc = "switch" =>
       \A f \in task.folders :
         disk["live"][f] = job.backup /\ disk["original"][f] = before.live[f]
  /\ pc \in {"start", "clear"} =>
       \A f \in task.folders : disk["original"][f] = before.live[f]
  /\ pc \in {"start", "clear", "housekeep"} =>
       Fitted /\ \A f \in task.folders : disk["live"][f] = job.backup
  /\ pc = "housekeep" => \A f \in Folders \ task.folders : disk["original"][f] = "none"

\* Putting back: the folders the loop has left, and what it has put back.
BackInv ==
  /\ pc \in BackPlaces => task.folders # {}
  /\ pc = "back_swap" =>
       /\ todo # {} /\ todo \subseteq task.folders
       /\ note # NoNote => \A f \in task.folders \ todo :
            disk["live"][f] = before.live[f] /\ disk["original"][f] = "none"
  /\ pc \in {"back_deploy", "back_clear"} /\ note # NoNote => LiveAsBefore /\ Clear("original")
  /\ pc = "back_clear" /\ note # NoNote => deploy = before.deploy
  /\ pc = "back_start" =>
       (task.bundle = NoDeployment /\ task.kind = "restore") \/ Clear("original")

\* An update: what it updates from, and what its healthy start made.
WasWhole == WholeOn(before.live, before.deploy.release, Uses(before.deploy.files))
UpdateInv ==
  /\ pc = "capture" => deploy.release = "r1"
  /\ pc = "revert_start" => deploy.release = "r1"
  /\ pc \in {"render", "revert", "revert_stopped", "up_stop", "apply"} => deploy.release = "r1"
  /\ pc \in {"up_stop", "apply"} => deploy.files = "r2"
  /\ pc = "render" => deploy = before.deploy
  /\ pc \in {"revert", "revert_stopped"} => deploy.files \in {before.deploy.files, "r2"}
  /\ pc \in {"up_write", "up_start"} => LiveAsBefore
  /\ pc \in {"up_start", "keep_start"} => deploy.release = "r2"
  /\ pc \in {"up_stop_again", "up_clear", "keep_stop", "keep_clear"} =>
       deploy.release = "r2" /\ \A g \in added : disk["live"][g] # "none"
  /\ pc \in {"up_stop_again", "up_clear"} /\ WasWhole =>
       \A f \in Uses(before.deploy.files) : disk["live"][f] \in {"new", "none"}

\* An undo: what it unpacked is the update's backup, and what it has put back.
UndoInv ==
  /\ pc \in {"undo_unpack", "undo_aside", "undo_in", "undo_clear"} => deploy = before.deploy
  /\ pc \in {"undo_unpack", "undo_aside", "undo_in"} => task.applied
  /\ pc \in {"undo_aside", "undo_in"} =>
       /\ todo # {} /\ todo \subseteq Snapshotted
       /\ \A f \in todo : disk["restoring"][f] = task.snapshot[f]
       /\ \A f \in Snapshotted \ todo : disk["live"][f] = task.snapshot[f]
       /\ \A f \in Uses(deploy.files) \ Snapshotted : disk["live"][f] = "none"
  /\ pc = "undo_clear" /\ task.applied =>
       /\ \A f \in Snapshotted : disk["live"][f] = task.snapshot[f]
       /\ \A f \in Uses(deploy.files) \ Snapshotted : disk["live"][f] = "none"
  /\ pc = "undo_start" => deploy.release = "r1"

IInv ==
  /\ BasicInv /\ ControlInv /\ NoteInv /\ RestInv
  /\ RestoreInv /\ BackInv /\ UpdateInv /\ UndoInv

------------------------------------------------------------------------------
(* The operators on the data disk.                                           *)

DiskType == disk \in [Places -> [Folders -> Contents]]

\* A rename moves one folder from one place to another and nothing else.
LEMMA RenamedIs ==
  ASSUME DiskType, NEW f \in Folders, NEW from \in Places, NEW to \in Places, from # to
  PROVE  /\ Renamed(f, from, to) \in [Places -> [Folders -> Contents]]
         /\ \A p \in Places, g \in Folders :
              Renamed(f, from, to)[p][g] =
                IF g = f /\ p = to THEN disk[from][f]
                ELSE IF g = f /\ p = from THEN "none" ELSE disk[p][g]
         /\ \A p \in Places \ {from, to} : Renamed(f, from, to)[p] = disk[p]
<1>1. "none" \in Contents
  BY DEF Contents
<1> QED BY <1>1 DEF Renamed, DiskType

\* A wipe empties some of the named folders in the named places.
LEMMA WipedIs ==
  ASSUME DiskType, NEW places, NEW names, NEW kept
  PROVE  /\ Wiped(places, names, kept) \in [Places -> [Folders -> Contents]]
         /\ \A p \in Places, g \in Folders :
              Wiped(places, names, kept)[p][g] =
                IF p \in places /\ g \in names \ kept THEN "none" ELSE disk[p][g]
         /\ \A p \in Places \ places : Wiped(places, names, kept)[p] = disk[p]
<1>1. "none" \in Contents
  BY DEF Contents
<1>2. Wiped(places, names, kept) \in [Places -> [Folders -> Contents]]
  BY <1>1 DEF Wiped, DiskType
<1>3. \A p \in Places, g \in Folders :
        Wiped(places, names, kept)[p][g] =
          IF p \in places /\ g \in names \ kept THEN "none" ELSE disk[p][g]
  BY DEF Wiped
<1>4. ASSUME NEW p \in Places \ places
      PROVE  Wiped(places, names, kept)[p] = disk[p]
  <2>1. disk[p] = [f \in Folders |-> disk[p][f]]
    BY DEF DiskType
  <2>2. Wiped(places, names, kept)[p] = [f \in Folders |-> disk[p][f]]
    BY DEF Wiped
  <2> QED BY <2>1, <2>2
<1> QED BY <1>2, <1>3, <1>4

\* Unpacking fills the named folders of the place "restoring".
LEMMA UnpackedIs ==
  ASSUME NEW d \in [Places -> [Folders -> Contents]], NEW names,
         NEW saved \in [Folders -> Contents]
  PROVE  /\ Unpacked(d, names, saved) \in [Places -> [Folders -> Contents]]
         /\ \A p \in Places, g \in Folders :
              Unpacked(d, names, saved)[p][g] =
                IF p = "restoring" /\ g \in names THEN saved[g] ELSE d[p][g]
         /\ \A p \in Places \ {"restoring"} : Unpacked(d, names, saved)[p] = d[p]
<1>1. "restoring" \in Places
  BY DEF Places
<1> QED BY <1>1 DEF Unpacked

\* A start turns some live folders into data of release r2.
LEMMA MigratedIs ==
  ASSUME DiskType, NEW some
  PROVE  /\ Migrated(some) \in [Places -> [Folders -> Contents]]
         /\ \A p \in Places, g \in Folders :
              Migrated(some)[p][g] =
                IF p = "live" /\ g \in some THEN "new" ELSE disk[p][g]
         /\ \A p \in Places \ {"live"} : Migrated(some)[p] = disk[p]
<1>1. "new" \in Contents /\ "live" \in Places
  BY DEF Contents, Places
<1> QED BY <1>1 DEF Migrated, DiskType

\* What a start of an app may do: nothing on release r1; on release r2 live
\* folders that hold data of r1, or that only r2 uses and are missing, may
\* become new, and all of them do if it is healthy.
LEMMA StartIs ==
  ASSUME TypeOK, StartHealthy \/ StartUnhealthy
  PROVE  /\ app' \in BOOLEAN
         /\ disk' \in [Places -> [Folders -> Contents]]
         /\ \A p \in Places \ {"live"} : disk'[p] = disk[p]
         /\ \A g \in Folders :
              \/ disk'["live"][g] = disk["live"][g]
              \/ /\ disk'["live"][g] = "new" /\ g \in Stale(deploy.release)
                 /\ deploy.release = "r2"
         /\ StartHealthy => \A g \in Stale(deploy.release) : disk'["live"][g] = "new"
<1>1. DiskType
  BY DEF TypeOK, DiskType
<1>2. PICK some \in SUBSET Stale(deploy.release) :
        disk' = Migrated(some) /\ (StartHealthy => some = Stale(deploy.release))
  BY DEF StartHealthy, StartUnhealthy
<1>3. app' \in BOOLEAN
  BY DEF StartHealthy, StartUnhealthy
<1>4. "live" \in Places
  BY DEF Places
<1>5. /\ disk' \in [Places -> [Folders -> Contents]]
      /\ \A p \in Places, g \in Folders :
           disk'[p][g] = IF p = "live" /\ g \in some THEN "new" ELSE disk[p][g]
      /\ \A p \in Places \ {"live"} : disk'[p] = disk[p]
  BY <1>1, <1>2, MigratedIs
<1>6. \A g \in Stale(deploy.release) : g \in Folders /\ deploy.release = "r2"
  BY DEF Stale, Uses
<1> QED BY <1>2, <1>3, <1>4, <1>5, <1>6

\* A place of the disk keeps every folder as it is.
Same(p) == disk'[p] = disk[p]

\* The four places of a folder are four.
LEMMA PlacesAre ==
  /\ "live" \in Places /\ "original" \in Places /\ "restoring" \in Places /\ "discard" \in Places
  /\ "live" # "original" /\ "live" # "restoring" /\ "live" # "discard"
  /\ "original" # "restoring" /\ "original" # "discard" /\ "restoring" # "discard"
  /\ \A p \in Places : p \in {"live", "original", "restoring", "discard"}
BY DEF Places

\* The empty note is a note.
LEMMA NoNoteIsANote == NoNote \in Notes
<1>1. NoData \in [Folders -> Contents]
  BY DEF NoData, Contents
<1> QED BY <1>1 DEF NoNote, Notes

\* The ways a step leaves the worker's place.
LEMMA EndJobIs ==
  ASSUME TypeOK, NEW s \in {"succeeded", "failed"}, EndJob(s)
  PROVE  /\ job' \in Jobs /\ pc' = "idle" /\ pc' \in Steps /\ todo' = {} /\ task' = NoNote
         /\ task' \in Notes /\ job'.state = s /\ job'.action = job.action
BY NoNoteIsANote DEF EndJob, TypeOK, Jobs, Steps

\* On to another place of the code.
LEMMA GotoIs ==
  ASSUME TypeOK, NEW step \in Steps, Goto(step)
  PROVE  /\ job' = job /\ pc' = step /\ todo' = todo /\ task' = task
         /\ job' \in Jobs /\ pc' \in Steps /\ todo' \in SUBSET Folders /\ task' \in Notes
BY DEF Goto, TypeOK

\* Into a loop over some folders.
LEMMA LoopIs ==
  ASSUME TypeOK, NEW step \in Steps, NEW names \in SUBSET Folders, Loop(step, names)
  PROVE  /\ job' = job /\ pc' = step /\ todo' = names /\ task' = task
         /\ job' \in Jobs /\ pc' \in Steps /\ todo' \in SUBSET Folders /\ task' \in Notes
BY DEF Loop, TypeOK

USE DEF RestorePlaces, BackPlaces, UpdatePlaces, UndoPlaces, KeepPlaces, FreshPlaces,
        OverPlaces, AppliedPlaces

------------------------------------------------------------------------------
(* What a step keeps of the invariant when it leaves things alone.           *)

Frame == UNCHANGED <<added, wanted, before>>

\* A step that leaves the note, its history and the two places that matter.
LEMMA NoteKept ==
  ASSUME NoteInv, RestInv, Frame, note' = note, Same("live"), Same("original"),
         note # NoNote \/ deploy' = deploy
  PROVE  NoteInv' /\ RestInv'
<1>1. NoteInv'
  BY DEF NoteInv, RestoreNote, UpdateNote, Clear, LiveAsBefore, Same, Frame
<1>2. RestInv'
  BY DEF RestInv, Full, SomeData, Uses, Same, Frame
<1> QED BY <1>1, <1>2

\* A job that ends, or that dies, leaves no place of the code behind.
LEMMA IdlePlaces ==
  ASSUME pc' = "idle"
  PROVE  RestoreInv' /\ BackInv' /\ UpdateInv' /\ UndoInv'
BY DEF RestoreInv, BackInv, UpdateInv, UndoInv

\* A job that ends is at no place of the code.
LEMMA EndJobControl ==
  ASSUME TypeOK, ControlInv, NEW s \in {"succeeded", "failed"}, EndJob(s)
  PROVE  ControlInv'
BY EndJobIs DEF ControlInv

\* A restore that fails puts the app back, whatever it has done so far.
LEMMA RestoreFails ==
  ASSUME IInv, pc \in {"stop", "aside", "in", "switch", "start"}, Goto("back_stop"),
         UNCHANGED <<stable, bundles, note, jobs, before>>, app' \in BOOLEAN,
         deploy' \in Deployments, disk' \in [Places -> [Folders -> Contents]],
         Same("live"), Same("original")
  PROVE  IInv'
<1>1. BasicInv /\ ControlInv /\ NoteInv /\ RestInv /\ TypeOK
  BY DEF IInv, BasicInv
<1>2. pc' = "back_stop" /\ job' = job /\ task' = task /\ todo' = todo
  BY DEF Goto
<1>3. BasicInv'
  BY <1>1, <1>2 DEF BasicInv, TypeOK, stable, Steps
<1>4. ControlInv'
  BY <1>1, <1>2 DEF ControlInv
<1>5. note # NoNote /\ task = note /\ note.folders # {}
  BY <1>1 DEF ControlInv, NoteInv, RestoreNote, NoNote
<1>6. NoteInv' /\ RestInv'
  BY <1>1, <1>5, NoteKept DEF Frame, stable
<1>7. RestoreInv' /\ BackInv' /\ UpdateInv' /\ UndoInv'
  BY <1>2, <1>5 DEF RestoreInv, BackInv, UpdateInv, UndoInv
<1> QED BY <1>3, <1>4, <1>6, <1>7 DEF IInv

\* A job that ends and leaves data and note alone.
LEMMA JobEnds ==
  ASSUME IInv, NEW s \in {"succeeded", "failed"}, EndJob(s),
         UNCHANGED <<stable, bundles, note, jobs, before>>, app' \in BOOLEAN,
         deploy' \in Deployments, note # NoNote \/ deploy' = deploy,
         disk' \in [Places -> [Folders -> Contents]], Same("live"), Same("original")
  PROVE  IInv'
<1>1. BasicInv /\ ControlInv /\ NoteInv /\ RestInv /\ TypeOK
  BY DEF IInv, BasicInv
<1>2. BasicInv'
  BY <1>1, EndJobIs DEF BasicInv, TypeOK, stable
<1>3. ControlInv'
  BY <1>1, EndJobControl
<1>4. NoteInv' /\ RestInv'
  BY <1>1, NoteKept DEF Frame, stable
<1>5. RestoreInv' /\ BackInv' /\ UpdateInv' /\ UndoInv'
  BY IdlePlaces DEF EndJob
<1> QED BY <1>2, <1>3, <1>4, <1>5 DEF IInv

\* A job whose last step starts the app again, with no note left.
LEMMA StartEnds ==
  ASSUME IInv, note = NoNote, NEW s \in {"succeeded", "failed"}, EndJob(s),
         StartHealthy \/ StartUnhealthy \/ UNCHANGED <<app, disk>>,
         UNCHANGED <<stable, deploy, bundles, note, jobs, before>>
  PROVE  IInv'
<1>1. BasicInv /\ ControlInv /\ NoteInv /\ RestInv /\ TypeOK
  BY DEF IInv, BasicInv
<1>2. /\ disk' \in [Places -> [Folders -> Contents]] /\ app' \in BOOLEAN /\ Same("original")
      /\ \A f \in Folders : disk'["live"][f] \in {disk["live"][f], "new"}
  <2>1. CASE StartHealthy \/ StartUnhealthy
    BY <1>1, <2>1, StartIs, PlacesAre DEF Same
  <2>2. CASE UNCHANGED <<app, disk>>
    BY <1>1, <2>2 DEF Same, TypeOK
  <2> QED BY <2>1, <2>2
<1>3. BasicInv'
  BY <1>1, <1>2, EndJobIs DEF BasicInv, TypeOK, stable
<1>4. ControlInv'
  BY <1>1, EndJobControl
<1>5. NoteInv'
  BY DEF NoteInv
<1>6. RestInv'
  <2>1. added \subseteq Folders
    BY <1>1 DEF TypeOK
  <2>2. Full(disk["live"], disk["original"])'
    BY <1>1, <1>2, <2>1 DEF RestInv, Full, Same, stable
  <2>3. deploy.release = "r1" => SomeData(disk["live"], disk["original"])'
    BY <1>1, <1>2 DEF RestInv, SomeData, Same
  <2> QED BY <1>1, <1>2, <2>2, <2>3 DEF RestInv, Uses, Same, stable
<1>7. RestoreInv' /\ BackInv' /\ UpdateInv' /\ UndoInv'
  BY IdlePlaces DEF EndJob
<1> QED BY <1>3, <1>4, <1>5, <1>6, <1>7 DEF IInv

------------------------------------------------------------------------------
(* A restore keeps the invariant.                                            *)

\* The copy is unpacked beside the live folders, which the step leaves alone.
LEMMA UnpackKeeps ==
  ASSUME IInv, Unpack
  PROVE  IInv'
<1> USE DEF IInv, Unpack
<1>0. /\ disk' \in [Places -> [Folders -> Contents]]
      /\ Same("live") /\ Same("original")
      /\ pc' = "note" => \A f \in Holds(job.backup) : disk'["restoring"][f] = job.backup
  <2>1. DiskType /\ {"live", "original", "discard", "restoring"} = Places
    BY DEF BasicInv, TypeOK, DiskType, Places
  <2>2. Backup \in [Folders -> Contents] /\ \A f \in Folders : Backup[f] = job.backup
    BY DEF Backup, BasicInv, TypeOK, Jobs, Contents
  <2>3. CASE Goto("note") /\ \E kept \in SUBSET Present("discard") :
               disk' = Unpacked(Wiped({"discard"}, Holds(job.backup), kept), Holds(job.backup), Backup)
    <3>1. PICK kept : disk' = Unpacked(Wiped({"discard"}, Holds(job.backup), kept), Holds(job.backup), Backup)
      BY <2>3
    <3>2. Holds(job.backup) \subseteq Folders
      BY DEF Holds, Uses
    <3> QED BY <2>1, <2>2, <3>1, <3>2, WipedIs, UnpackedIs DEF Same
  <2>4. CASE EndJob("failed") /\ \E some : disk' = Unpacked(disk, some, Backup)
    <3>1. pc' = "idle"
      BY <2>4 DEF EndJob
    <3> QED BY <2>1, <2>2, <2>4, <3>1, UnpackedIs DEF Same, DiskType
  <2> QED BY <2>3, <2>4 
<1>a. TypeOK /\ pc = "unpack"
  BY DEF BasicInv
<1>b. /\ UNCHANGED <<stable, deploy, bundles, app, note, jobs, before>>
      /\ \/ Planned /\ Goto("note")
         \/ EndJob("failed")
  OBVIOUS
<1>c. \/ Planned /\ pc' = "note" /\ job' = job /\ todo' = todo /\ task' = task
      \/ pc' = "idle" /\ task' = NoNote /\ job'.state = "failed" /\ job'.action = job.action
  BY <1>a, <1>b, EndJobIs, GotoIs DEF Steps
<1>d. job' \in Jobs /\ pc' \in Steps /\ todo' \in SUBSET Folders /\ task' \in Notes
  BY <1>a, <1>b, EndJobIs, GotoIs DEF Steps
<1> USE <1>0, <1>a, <1>b, <1>c, <1>d
<1> HIDE DEF Unpack
<1>1. BasicInv'
  BY DEF BasicInv, TypeOK, stable
<1>2. ControlInv'
  BY DEF Same, ControlInv, Clear
<1>3. NoteInv'
  BY DEF NoteInv, ControlInv
<1>4. RestInv'
  BY  DEF Same, RestInv, Full, SomeData, Uses, stable
<1>5. RestoreInv' /\ BackInv' /\ UpdateInv' /\ UndoInv'
  BY DEF Same, ControlInv, RestoreInv, BackInv, UpdateInv, UndoInv, stable, Fits, Layout, Holds,
     Uses, Planned, Incomplete, Present, KeptBundle, Switches, Target, ReleaseOf
<1> QED BY <1>1, <1>2, <1>3, <1>4, <1>5

\* The note of a restore is made from what is there: no original is kept aside.
LEMMA NoteRestoreKeeps ==
  ASSUME IInv, NoteRestore
  PROVE  IInv'
<1> DEFINE n == [NoNote EXCEPT !.kind = "restore", !.folders = Holds(job.backup),
                               !.absent = Holds(job.backup) \ Present("live"),
                               !.bundle = deploy, !.wasRunning = wanted]
<1>1. pc = "note" /\ BasicInv /\ ControlInv /\ RestInv /\ RestoreInv /\ TypeOK
  BY DEF IInv, BasicInv, NoteRestore
<1>2. /\ bundles' = [bundles EXCEPT ![deploy.release] = deploy]
      /\ note' = n /\ task' = n /\ before' = [live |-> disk["live"], deploy |-> deploy]
      /\ pc' = "stop"
      /\ UNCHANGED <<stable, disk, deploy, app, job, jobs, todo>>
  BY DEF NoteRestore, Begin
<1>3. Holds(job.backup) \subseteq Folders /\ Holds(job.backup) # {}
  BY <1>1 DEF Holds, Uses, BasicInv, TypeOK
<1>4. n \in Notes /\ n # NoNote /\ n.kind = "restore" /\ ~n.applied
      /\ n.folders = Holds(job.backup) /\ n.absent = Holds(job.backup) \ Present("live")
      /\ n.bundle = deploy
  <2>1. NoNote \in Notes /\ NoNote.kind = "none" /\ ~NoNote.applied
    BY NoNoteIsANote DEF NoNote
  <2>2. /\ Holds(job.backup) \in SUBSET Folders /\ Holds(job.backup) \ Present("live") \in SUBSET Folders
        /\ deploy \in Deployments \union {NoDeployment} /\ wanted \in BOOLEAN
    BY <1>1, <1>3 DEF TypeOK
  <2>3. n \in Notes
    BY <2>1, <2>2 DEF Notes
  <2> QED BY <2>1, <2>3 DEF Notes
<1> HIDE DEF n
<1>5. BasicInv'
  <2>1. bundles' \in [Releases -> Deployments \union {NoDeployment}]
    BY <1>1, <1>2 DEF TypeOK
  <2>2. \A r \in Releases : bundles'[r] # NoDeployment => bundles'[r].release = r
    BY <1>1, <1>2 DEF BasicInv, TypeOK
  <2>3. before'.live \in [Folders -> Contents] /\ before'.deploy \in Deployments \union {NoDeployment}
    BY <1>1, <1>2 DEF TypeOK, Places
  <2> QED BY <1>1, <1>2, <1>4, <2>1, <2>2, <2>3 DEF BasicInv, TypeOK, stable, Steps
<1>6. ControlInv'
  BY <1>1, <1>2, <1>4 DEF ControlInv
<1>7. LiveAsBefore' /\ Clear("original")'
  BY <1>1, <1>2 DEF ControlInv, LiveAsBefore, Clear
<1>8. NoteInv' /\ RestInv'
  <2>1. RestoreNote'
    BY <1>2, <1>3, <1>4, <1>7 DEF RestoreNote, LiveAsBefore, Clear, Present
  <2>2. \A f \in Folders : disk["original"][f] = "none"
    BY <1>1 DEF ControlInv, Clear
  <2>3. note = NoNote
    BY <1>1 DEF ControlInv
  <2>4. (\E f \in Folders : before'.live[f] = "b2") => \A g \in added' : before'.live[g] # "none"
    BY <1>1, <1>2, <2>2, <2>3 DEF RestInv, Full, TypeOK, BasicInv, stable
  <2>5. before'.deploy.release = "r1" => \E f \in Folders : before'.live[f] # "none"
    BY <1>1, <1>2, <2>2, <2>3 DEF RestInv, SomeData
  <2> QED BY <1>1, <1>2, <1>4, <2>1, <2>4, <2>5 DEF NoteInv, RestInv, TypeOK
<1>9. RestoreInv' /\ BackInv' /\ UpdateInv' /\ UndoInv'
  <2>1. Fits'
    <3>1. Fits
      BY <1>1 DEF RestoreInv
    <3>2. Layout' = Layout
      BY <1>1, <1>2 DEF Layout, KeptBundle, Switches, Target, TypeOK, ReleaseOf, Deployments,
         Releases, Uses, stable
    <3> QED BY <1>2, <3>1, <3>2 DEF Fits, Holds, Uses, stable
  <2> QED BY <1>1, <1>2, <1>4, <1>7, <2>1 DEF RestoreInv, BackInv, UpdateInv, UndoInv, Holds,
             Uses, stable
<1> QED BY <1>5, <1>6, <1>8, <1>9 DEF IInv

\* The loop starts with every folder as it was.
LEMMA StopForRestoreKeeps ==
  ASSUME IInv, StopForRestore
  PROVE  IInv'
<1>1. /\ pc = "stop" /\ BasicInv /\ ControlInv /\ NoteInv /\ RestInv /\ RestoreInv /\ TypeOK
      /\ UNCHANGED <<stable, disk, deploy, bundles, note, jobs, before>>
  BY DEF IInv, BasicInv, StopForRestore
<1>2. CASE Goto("back_stop") /\ app' \in {app, FALSE}
  BY <1>1, <1>2, RestoreFails DEF Same, TypeOK
<1>3. CASE app' = (app /\ ~wanted) /\ Loop("aside", task.folders)
  <2>1. pc' = "aside" /\ job' = job /\ task' = task /\ todo' = task.folders
    BY <1>3 DEF Loop
  <2>2. task = note /\ note # NoNote /\ task.folders \in SUBSET Folders /\ task.folders # {}
    BY <1>1 DEF ControlInv, NoteInv, RestoreNote, NoNote, TypeOK, Notes
  <2>3. BasicInv'
    BY <1>1, <1>3, <2>1, <2>2 DEF BasicInv, TypeOK, stable, Steps
  <2>4. ControlInv'
    BY <1>1, <2>1 DEF ControlInv
  <2>5. NoteInv' /\ RestInv'
    BY <1>1, NoteKept DEF Frame, stable, Same
  <2>6. RestoreInv'
    BY <1>1, <2>1, <2>2 DEF RestoreInv, Fits, Layout, Holds, Uses, KeptBundle, Switches, Target,
       LiveAsBefore, Clear, stable
  <2>7. BackInv' /\ UpdateInv' /\ UndoInv'
    BY <2>1 DEF BackInv, UpdateInv, UndoInv
  <2> QED BY <2>3, <2>4, <2>5, <2>6, <2>7 DEF IInv
<1> QED BY <1>1, <1>2, <1>3 DEF StopForRestore

\* A loop that is not over has a next folder.
LEMMA TurnIsNext == todo # {} => Turn \in todo
BY DEF Turn

\* The live folder becomes the original.
LEMMA SwapAsideKeeps ==
  ASSUME IInv, SwapAside
  PROVE  IInv'
<1>1. /\ pc = "aside" /\ BasicInv /\ ControlInv /\ NoteInv /\ RestInv /\ RestoreInv /\ TypeOK
      /\ UNCHANGED <<stable, deploy, bundles, app, note, jobs, before>>
  BY DEF IInv, BasicInv, SwapAside
<1>2. CASE Goto("back_stop") /\ UNCHANGED disk
  BY <1>1, <1>2, RestoreFails DEF Same, TypeOK
<1>3. CASE /\ Goto("in")
           /\ disk["live"][Turn] # "none" => disk["original"][Turn] = "none"
           /\ disk' = IF disk["live"][Turn] = "none" THEN disk ELSE Renamed(Turn, "live", "original")
  <2>1. pc' = "in" /\ job' = job /\ task' = task /\ todo' = todo
    BY <1>3 DEF Goto
  <2>2. /\ task = note /\ note # NoNote /\ note.kind = "restore"
        /\ task.folders = Holds(job.backup) /\ todo \subseteq task.folders /\ Turn \in todo
        /\ Turn \in Folders
        /\ task.folders \subseteq Folders /\ Layout \subseteq Folders
    BY <1>1, TurnIsNext DEF ControlInv, NoNote, RestoreInv, TypeOK, Notes, Layout, Uses
  <2>3. /\ disk' \in [Places -> [Folders -> Contents]] /\ Same("restoring")
        /\ \A f \in Folders \ {Turn} :
             disk'["live"][f] = disk["live"][f] /\ disk'["original"][f] = disk["original"][f]
        /\ disk'["live"][Turn] = "none" /\ disk'["original"][Turn] = disk["live"][Turn]
    <3>1. DiskType
      BY <1>1 DEF TypeOK, DiskType
    <3>2. disk["original"][Turn] = "none"
      BY <1>1, <2>2 DEF RestoreInv
    <3>3. CASE disk["live"][Turn] = "none"
      BY <1>3, <3>1, <3>2, <3>3 DEF Same, DiskType
    <3>4. CASE disk["live"][Turn] # "none"
      BY <1>3, <2>2, <3>1, <3>4, RenamedIs, PlacesAre DEF Same
    <3> QED BY <3>3, <3>4
  <2>4. disk["live"][Turn] = before.live[Turn]
    BY <1>1, <2>2 DEF RestoreInv
  <2>5. BasicInv'
    BY <1>1, <2>1, <2>3 DEF BasicInv, TypeOK, stable, Steps
  <2>6. ControlInv'
    BY <1>1, <2>1 DEF ControlInv
  <2>7. NoteInv' /\ RestInv'
    <3>1. RestoreNote'
      BY <1>1, <2>2, <2>3, <2>4 DEF NoteInv, RestoreNote
    <3> QED BY <1>1, <2>2, <3>1 DEF NoteInv, RestInv, stable
  <2>8. RestoreInv'
    <3>1. Turn' = Turn /\ Layout' = Layout /\ Holds(job.backup)' = Holds(job.backup)
      BY <1>1, <2>1 DEF Turn, Layout, KeptBundle, Switches, Target, Holds, Uses, stable
    <3>2. Fits'
      BY <1>1, <2>1, <2>2, <2>3, <3>1 DEF RestoreInv, Fits
    <3> QED BY <1>1, <2>1, <2>2, <2>3, <2>4, <3>1, <3>2 DEF RestoreInv, Same
  <2>9. BackInv' /\ UpdateInv' /\ UndoInv'
    BY <2>1 DEF BackInv, UpdateInv, UndoInv
  <2> QED BY <2>5, <2>6, <2>7, <2>8, <2>9 DEF IInv
<1> QED BY <1>1, <1>2, <1>3 DEF SwapAside

\* The unpacked folder becomes the live one.
LEMMA SwapInKeeps ==
  ASSUME IInv, SwapIn
  PROVE  IInv'
<1>1. /\ pc = "in" /\ BasicInv /\ ControlInv /\ NoteInv /\ RestInv /\ RestoreInv /\ TypeOK
      /\ UNCHANGED <<stable, deploy, bundles, app, note, jobs, before>>
  BY DEF IInv, BasicInv, SwapIn
<1>2. CASE Goto("back_stop") /\ UNCHANGED disk
  BY <1>1, <1>2, RestoreFails DEF Same, TypeOK
<1>3. CASE disk' = Renamed(Turn, "restoring", "live") /\ NextTurn("aside", "switch")
  <2>1. /\ job' = job /\ task' = task /\ todo' = todo \ {Turn}
        /\ pc' = IF todo = {Turn} THEN "switch" ELSE "aside"
    BY <1>3 DEF NextTurn
  <2>2. /\ task = note /\ note # NoNote /\ note.kind = "restore"
        /\ task.folders = Holds(job.backup) /\ todo \subseteq task.folders /\ Turn \in todo
        /\ Turn \in Folders
        /\ task.folders \subseteq Folders /\ Layout \subseteq Folders
    BY <1>1, TurnIsNext DEF ControlInv, NoNote, RestoreInv, TypeOK, Notes, Layout, Uses
  <2>3. /\ disk' \in [Places -> [Folders -> Contents]] /\ Same("original")
        /\ \A f \in Folders \ {Turn} :
             disk'["live"][f] = disk["live"][f] /\ disk'["restoring"][f] = disk["restoring"][f]
        /\ disk'["live"][Turn] = job.backup
    <3>1. DiskType
      BY <1>1 DEF TypeOK, DiskType
    <3>2. disk["restoring"][Turn] = job.backup
      BY <1>1, <2>2 DEF RestoreInv
    <3> QED BY <1>3, <2>2, <3>1, <3>2, RenamedIs, PlacesAre DEF Same
  <2>4. BasicInv'
    BY <1>1, <2>1, <2>3 DEF BasicInv, TypeOK, stable, Steps
  <2>5. ControlInv'
    BY <1>1, <2>1 DEF ControlInv
  <2>6. NoteInv' /\ RestInv'
    <3>1. RestoreNote'
      BY <1>1, <2>2, <2>3 DEF NoteInv, RestoreNote, RestoreInv, Same
    <3> QED BY <1>1, <2>2, <3>1 DEF NoteInv, RestInv, stable
  <2>7. RestoreInv'
    <3>1. Layout' = Layout /\ Holds(job.backup)' = Holds(job.backup)
      BY <1>1, <2>1 DEF Layout, KeptBundle, Switches, Target, Holds, Uses, stable
    <3>2. Fits'
      BY <1>1, <2>1, <2>2, <2>3, <3>1 DEF RestoreInv, Fits
    <3> QED BY <1>1, <2>1, <2>2, <2>3, <3>1, <3>2 DEF RestoreInv, Same
  <2>8. BackInv' /\ UpdateInv' /\ UndoInv'
    BY <2>1 DEF BackInv, UpdateInv, UndoInv
  <2> QED BY <2>4, <2>5, <2>6, <2>7, <2>8 DEF IInv
<1> QED BY <1>1, <1>2, <1>3 DEF SwapIn

\* The deployment becomes the one the backup was planned for.
LEMMA SwitchReleaseKeeps ==
  ASSUME IInv, SwitchRelease
  PROVE  IInv'
<1>1. /\ pc = "switch" /\ BasicInv /\ ControlInv /\ NoteInv /\ RestInv /\ RestoreInv /\ TypeOK
      /\ UNCHANGED <<stable, disk, bundles, app, note, jobs, before>>
  BY DEF IInv, BasicInv, SwitchRelease
<1>2. Target \in Releases
  BY DEF Target, ReleaseOf, Releases
<1>3. KeptBundle \in Deployments \/ KeptBundle = NoDeployment
  BY <1>1, <1>2 DEF KeptBundle, TypeOK
<1>4. CASE /\ Switches /\ Goto("back_stop")
           /\ deploy' \in IF KeptBundle = NoDeployment THEN {deploy} ELSE PartOf(KeptBundle)
  <2>1. deploy' \in Deployments
    BY <1>1, <1>3, <1>4 DEF PartOf, TypeOK
  <2> QED BY <1>1, <1>4, <2>1, RestoreFails DEF Same, TypeOK
<1>5. CASE /\ Goto(IF wanted THEN "start" ELSE "clear")
           /\ deploy' = IF ~Switches THEN deploy
                        ELSE IF KeptBundle = NoDeployment THEN [deploy EXCEPT !.release = Target]
                        ELSE KeptBundle
  <2>1. pc' \in {"start", "clear"} /\ job' = job /\ task' = task /\ todo' = todo
    BY <1>5 DEF Goto
  <2>2. /\ deploy' \in Deployments /\ deploy'.release = Target /\ Layout = Uses(deploy'.files)
    <3>1. CASE ~Switches
      BY <1>1, <1>5, <3>1 DEF Switches, Layout, KeptBundle, TypeOK
    <3>2. CASE Switches /\ KeptBundle = NoDeployment
      BY <1>1, <1>2, <1>5, <3>2 DEF Layout, TypeOK, Deployments
    <3>3. CASE Switches /\ KeptBundle # NoDeployment
      BY <1>1, <1>2, <1>3, <1>5, <3>3 DEF Layout, KeptBundle, BasicInv
    <3> QED BY <3>1, <3>2, <3>3
  <2>3. task = note /\ note # NoNote /\ task.folders = Holds(job.backup)
    BY <1>1 DEF ControlInv, NoNote, RestoreInv
  <2>4. BasicInv'
    BY <1>1, <2>1, <2>2 DEF BasicInv, TypeOK, stable, Steps
  <2>5. ControlInv'
    BY <1>1, <2>1 DEF ControlInv
  <2>6. NoteInv' /\ RestInv'
    BY <1>1, <2>3, NoteKept DEF Same, Frame, stable
  <2>7. RestoreInv'
    <3>1. Fits
      BY <1>1 DEF RestoreInv
    <3>2. Fitted' /\ Holds(job.backup)' = Holds(job.backup)
      BY <1>1, <2>1, <2>2, <3>1 DEF Fits, Fitted, Target, Holds, Uses, stable
    <3> QED BY <1>1, <2>1, <2>3, <3>2 DEF RestoreInv
  <2>8. BackInv' /\ UpdateInv' /\ UndoInv'
    BY <2>1 DEF BackInv, UpdateInv, UndoInv
  <2> QED BY <2>4, <2>5, <2>6, <2>7, <2>8 DEF IInv
<1> QED BY <1>4, <1>5 DEF SwitchRelease

\* The release that was restored finds its own data, all of it.
LEMMA NothingToMigrate ==
  ASSUME IInv, pc \in {"start", "clear"}
  PROVE  Stale(deploy.release) = {}
<1>1. Fitted /\ task.folders = Holds(job.backup) /\ \A f \in task.folders : disk["live"][f] = job.backup
  BY DEF IInv, RestoreInv
<1>2. job.backup \in Backups
  BY DEF IInv, BasicInv, TypeOK, Jobs
<1> QED BY <1>1, <1>2 DEF Stale, Fitted, Target, Holds, Uses, ReleaseOf, Backups

\* A start on restored data changes none of it.
LEMMA StartRestoredKeeps ==
  ASSUME IInv, StartRestored
  PROVE  IInv'
<1>1. /\ pc = "start" /\ BasicInv /\ ControlInv /\ NoteInv /\ RestInv /\ RestoreInv /\ TypeOK
      /\ UNCHANGED <<stable, deploy, bundles, note, jobs, before>>
      /\ StartHealthy \/ StartUnhealthy
      /\ Goto("clear") \/ Goto("back_stop")
  BY DEF IInv, BasicInv, StartRestored
<1>2. /\ disk' \in [Places -> [Folders -> Contents]] /\ app' \in BOOLEAN
      /\ Same("live") /\ Same("original")
  <2>1. Stale(deploy.release) = {}
    BY <1>1, NothingToMigrate
  <2>2. disk' = Migrated({}) /\ app' \in BOOLEAN
    BY <1>1, <2>1 DEF StartHealthy, StartUnhealthy
  <2>3. disk' = disk
    BY <1>1, <2>2 DEF Migrated, TypeOK, Places
  <2> QED BY <1>1, <2>2, <2>3 DEF Same, TypeOK
<1>3. CASE Goto("back_stop")
  BY <1>1, <1>2, <1>3, RestoreFails DEF TypeOK
<1>4. CASE Goto("clear")
  <2>1. pc' = "clear" /\ job' = job /\ task' = task /\ todo' = todo
    BY <1>4 DEF Goto
  <2>2. BasicInv'
    BY <1>1, <1>2, <2>1 DEF BasicInv, TypeOK, stable, Steps
  <2>3. ControlInv'
    BY <1>1, <2>1 DEF ControlInv
  <2>4. NoteInv' /\ RestInv'
    BY <1>1, <1>2, NoteKept DEF Frame, stable
  <2>5. RestoreInv'
    BY <1>1, <1>2, <2>1 DEF RestoreInv, Fitted, Target, Holds, Uses, Same, stable
  <2>6. BackInv' /\ UpdateInv' /\ UndoInv'
    BY <2>1 DEF BackInv, UpdateInv, UndoInv
  <2> QED BY <2>2, <2>3, <2>4, <2>5, <2>6 DEF IInv
<1> QED BY <1>1, <1>3, <1>4

\* The note goes when every folder of the backup is live.
LEMMA ClearRestoredKeeps ==
  ASSUME IInv, ClearRestored
  PROVE  IInv'
<1>1. /\ pc = "clear" /\ BasicInv /\ ControlInv /\ NoteInv /\ RestoreInv /\ TypeOK
      /\ note' = NoNote /\ pc' = "housekeep" /\ job' = job /\ todo' = todo /\ task' = task
      /\ UNCHANGED <<stable, disk, deploy, bundles, app, jobs, before>>
  BY DEF IInv, BasicInv, ClearRestored, Goto
<1>2. /\ task = note /\ note # NoNote /\ note.kind = "restore" /\ RestoreNote
      /\ task.folders = Holds(job.backup) /\ Fitted
      /\ Holds(job.backup) \subseteq Folders /\ Holds(job.backup) # {}
      /\ \A f \in Holds(job.backup) :
           disk["live"][f] = job.backup /\ disk["original"][f] = before.live[f]
      /\ \A f \in Folders \ Holds(job.backup) :
           disk["live"][f] = before.live[f] /\ disk["original"][f] = "none"
      /\ job.backup \in Backups
  BY <1>1 DEF ControlInv, NoNote, NoteInv, RestoreInv, RestoreNote, TypeOK, Jobs, Holds, Uses
<1>3. BasicInv'
  BY <1>1, NoNoteIsANote DEF BasicInv, TypeOK, stable, Steps
<1>4. ControlInv'
  BY <1>1 DEF ControlInv
<1>5. NoteInv'
  BY <1>1 DEF NoteInv
<1>6. RestInv'
  <2>1. \A f \in Folders : disk["original"][f] # "none" => f \in Uses(deploy.files)
    BY <1>2 DEF Fitted
  <2>2. Full(disk["live"], disk["original"])
    <3>1. (\E f \in Folders : before.live[f] = "b2") => \A g \in added : before.live[g] # "none"
      BY <1>1, <1>2 DEF NoteInv
    <3>2. added \subseteq Folders /\ (job.backup = "b2" => Holds(job.backup) = Folders)
      BY <1>1 DEF TypeOK, Holds, ReleaseOf, Uses
    <3> QED BY <1>2, <3>1, <3>2 DEF Full, Backups
  <2>3. SomeData(disk["live"], disk["original"])
    BY <1>2 DEF SomeData, Backups
  <2> QED BY <1>1, <2>1, <2>2, <2>3 DEF RestInv, Full, SomeData, Uses, stable
<1>7. RestoreInv'
  BY <1>1, <1>2 DEF RestoreInv, Fitted, Target, Holds, Uses, stable
<1>8. BackInv' /\ UpdateInv' /\ UndoInv'
  BY <1>1 DEF BackInv, UpdateInv, UndoInv
<1> QED BY <1>3, <1>4, <1>5, <1>6, <1>7, <1>8 DEF IInv

\* Wiping the originals leaves the restored folders.
LEMMA HousekeepKeeps ==
  ASSUME IInv, Housekeep
  PROVE  IInv'
<1>1. /\ pc = "housekeep" /\ BasicInv /\ ControlInv /\ NoteInv /\ RestInv /\ RestoreInv /\ TypeOK
      /\ UNCHANGED <<stable, deploy, bundles, app, note, jobs, before>> /\ EndJob("succeeded")
      /\ note = NoNote
  BY DEF IInv, BasicInv, Housekeep, ControlInv
<1>2. /\ disk' \in [Places -> [Folders -> Contents]] /\ Same("live")
      /\ \A f \in Folders : disk'["original"][f] \in {disk["original"][f], "none"}
  <2>1. PICK kept : disk' = Wiped({"original"}, task.folders, kept)
    BY DEF Housekeep
  <2>2. DiskType
    BY <1>1 DEF TypeOK, DiskType
  <2> QED BY <2>1, <2>2, WipedIs, PlacesAre DEF Same
<1>3. BasicInv'
  BY <1>1, <1>2, EndJobIs DEF BasicInv, TypeOK, stable
<1>4. ControlInv'
  BY <1>1, EndJobControl
<1>5. NoteInv'
  BY <1>1 DEF NoteInv
<1>6. RestInv'
  <2>1. \A f \in task.folders : disk["live"][f] # "none"
    BY <1>1 DEF RestoreInv, TypeOK, Jobs, Backups
  <2>2. \A f \in Folders \ task.folders : disk["original"][f] = "none"
    BY <1>1 DEF RestoreInv
  <2>3. added \subseteq Folders
    BY <1>1 DEF TypeOK
  <2>4. Full(disk["live"], disk["original"])'
    BY <1>1, <1>2, <2>1, <2>2, <2>3 DEF RestInv, Full, Same, stable
  <2>5. deploy.release = "r1" => SomeData(disk["live"], disk["original"])'
    BY <1>1, <1>2, <2>1, <2>2 DEF RestInv, SomeData, Same
  <2> QED BY <1>1, <1>2, <2>4, <2>5 DEF RestInv, Uses, stable
<1>7. RestoreInv' /\ BackInv' /\ UpdateInv' /\ UndoInv'
  BY <1>1, IdlePlaces DEF EndJob
<1> QED BY <1>3, <1>4, <1>5, <1>6, <1>7 DEF IInv

------------------------------------------------------------------------------
(* Putting back keeps the invariant.                                         *)

\* What an earlier attempt moved out of the way is wiped.
LEMMA BackStopKeeps ==
  ASSUME IInv, BackStop
  PROVE  IInv'
<1>1. /\ pc = "back_stop" /\ BasicInv /\ ControlInv /\ NoteInv /\ RestInv /\ BackInv /\ TypeOK
      /\ UNCHANGED <<stable, deploy, bundles, note, jobs, before>>
  BY DEF IInv, BasicInv, BackStop
<1>2. CASE app' \in {app, FALSE} /\ GiveUp /\ UNCHANGED disk
  BY <1>1, <1>2, JobEnds DEF GiveUp, Same, TypeOK
<1>3. CASE /\ app' = FALSE /\ Loop("back_swap", task.folders)
           /\ \E kept : disk' = Wiped({"discard"}, task.folders, kept)
  <2>1. pc' = "back_swap" /\ job' = job /\ task' = task /\ todo' = task.folders
    BY <1>3 DEF Loop
  <2>2. disk' \in [Places -> [Folders -> Contents]] /\ Same("live") /\ Same("original")
    <3>1. DiskType
      BY <1>1 DEF TypeOK, DiskType
    <3> QED BY <1>3, <3>1, WipedIs, PlacesAre DEF Same
  <2>3. BasicInv'
    <3>1. task.folders \in SUBSET Folders
      BY <1>1 DEF TypeOK, Notes
    <3> QED BY <1>1, <1>3, <2>1, <2>2, <3>1 DEF BasicInv, TypeOK, stable, Steps
  <2>4. ControlInv'
    BY <1>1, <2>1 DEF ControlInv
  <2>5. NoteInv' /\ RestInv'
    BY <1>1, <2>2, NoteKept DEF Frame, stable
  <2>6. RestoreInv' /\ BackInv' /\ UpdateInv' /\ UndoInv'
    BY <1>1, <2>1 DEF RestoreInv, BackInv, UpdateInv, UndoInv
  <2> QED BY <2>3, <2>4, <2>5, <2>6 DEF IInv
<1> QED BY <1>1, <1>2, <1>3 DEF BackStop

\* One step of the loop keeps the note's promise and brings its folder back.
LEMMA BackSwapKeeps ==
  ASSUME IInv, BackSwap
  PROVE  IInv'
<1>1. /\ pc = "back_swap" /\ BasicInv /\ ControlInv /\ NoteInv /\ RestInv /\ BackInv /\ TypeOK
      /\ UNCHANGED <<stable, deploy, bundles, app, note, jobs, before>>
  BY DEF IInv, BasicInv, BackSwap
<1>2. /\ Turn \in todo /\ todo \subseteq task.folders /\ task.folders \subseteq Folders /\ Turn \in Folders
      /\ \/ note # NoNote /\ note.kind = "restore" /\ task = note /\ RestoreNote
         \/ note = NoNote /\ task.absent = {}
  BY <1>1, TurnIsNext DEF BackInv, ControlInv, NoteInv, TypeOK, Notes, NoNote
<1>3. DiskType
  BY <1>1 DEF TypeOK, DiskType
<1>4. CASE GiveUp /\ UNCHANGED disk
  BY <1>1, <1>4, JobEnds DEF GiveUp, Same, TypeOK
<1>5. CASE /\ MovesOut(Turn) /\ disk' = Renamed(Turn, "live", "discard")
           /\ UNCHANGED <<pc, todo, job, task>>
  <2>1. /\ disk' \in [Places -> [Folders -> Contents]] /\ Same("original")
        /\ disk'["live"][Turn] = "none"
        /\ \A f \in Folders \ {Turn} : disk'["live"][f] = disk["live"][f]
    BY <1>2, <1>3, <1>5, RenamedIs, PlacesAre DEF Same
  <2>2. disk["original"][Turn] # "none" \/ Turn \in task.absent
    BY <1>5 DEF MovesOut
  <2>3. BasicInv'
    BY <1>1, <1>5, <2>1 DEF BasicInv, TypeOK, stable
  <2>4. ControlInv'
    BY <1>1, <1>5 DEF ControlInv
  <2>5. NoteInv'
    <3>1. note # NoNote => RestoreNote'
      BY <1>1, <1>2, <2>1, <2>2 DEF RestoreNote, Same
    <3> QED BY <1>1, <1>2, <3>1 DEF NoteInv, stable
  <2>6. RestInv'
    <3>1. added \subseteq Folders
      BY <1>1 DEF TypeOK
    <3> SUFFICES ASSUME note = NoNote PROVE RestInv'
      BY <1>1 DEF RestInv
    <3>2. disk["original"][Turn] # "none"
      BY <1>2, <2>2
    <3>3. Full(disk["live"], disk["original"])'
      BY <1>1, <1>2, <2>1, <3>1, <3>2 DEF RestInv, Full, Same, stable
    <3>4. SomeData(disk["live"], disk["original"])'
      BY <1>2, <2>1, <3>2 DEF SomeData, Same
    <3> QED BY <1>1, <2>1, <3>3, <3>4 DEF RestInv, Uses, Same, stable
  <2>7. RestoreInv' /\ BackInv' /\ UpdateInv' /\ UndoInv'
    BY <1>1, <1>2, <1>5, <2>1 DEF RestoreInv, BackInv, UpdateInv, UndoInv, Same
  <2> QED BY <2>3, <2>4, <2>5, <2>6, <2>7 DEF IInv
<1>6. CASE /\ ~MovesOut(Turn) /\ NextTurn("back_swap", "back_deploy")
           /\ disk' = IF disk["original"][Turn] = "none" THEN disk ELSE Renamed(Turn, "original", "live")
  <2>1. /\ job' = job /\ task' = task /\ todo' = todo \ {Turn}
        /\ pc' = IF todo = {Turn} THEN "back_deploy" ELSE "back_swap"
    BY <1>6 DEF NextTurn
  <2>2. /\ disk' \in [Places -> [Folders -> Contents]]
        /\ disk'["original"][Turn] = "none"
        /\ disk'["live"][Turn] = IF disk["original"][Turn] = "none" THEN disk["live"][Turn]
                                 ELSE disk["original"][Turn]
        /\ \A f \in Folders \ {Turn} :
             disk'["live"][f] = disk["live"][f] /\ disk'["original"][f] = disk["original"][f]
    <3>1. CASE disk["original"][Turn] = "none"
      BY <1>3, <1>6, <3>1 DEF DiskType
    <3>2. CASE disk["original"][Turn] # "none"
      BY <1>2, <1>3, <1>6, <3>2, RenamedIs, PlacesAre
    <3> QED BY <3>1, <3>2
  <2>3. disk["original"][Turn] # "none" => disk["live"][Turn] = "none"
    BY <1>6 DEF MovesOut
  <2>4. BasicInv'
    BY <1>1, <2>1, <2>2 DEF BasicInv, TypeOK, stable, Steps
  <2>5. ControlInv'
    BY <1>1, <2>1 DEF ControlInv
  <2>6. note # NoNote => disk'["live"][Turn] = before.live[Turn]
    BY <1>2, <1>6, <2>2, <2>3 DEF RestoreNote, MovesOut
  <2>7. NoteInv'
    <3>1. note # NoNote => RestoreNote'
      BY <1>1, <1>2, <2>2, <2>6 DEF RestoreNote
    <3> QED BY <1>1, <1>2, <3>1 DEF NoteInv, stable
  <2>8. RestInv'
    <3>1. added \subseteq Folders
      BY <1>1 DEF TypeOK
    <3>2. RestInv => Full(disk["live"], disk["original"])' \/ note # NoNote
      BY <1>1, <1>2, <2>2, <2>3, <3>1 DEF RestInv, Full, stable
    <3>3. SomeData(disk["live"], disk["original"]) => SomeData(disk["live"], disk["original"])'
      BY <1>2, <2>2, <2>3 DEF SomeData
    <3> QED BY <1>1, <2>2, <3>2, <3>3 DEF RestInv, Uses, stable
  <2>9. RestoreInv' /\ BackInv' /\ UpdateInv' /\ UndoInv'
    <3>1. BackInv'
      <4>1. note # NoNote => \A f \in task.folders \ todo' :
              disk'["live"][f] = before.live[f] /\ disk'["original"][f] = "none"
        BY <1>1, <1>2, <2>1, <2>2, <2>6 DEF BackInv
      <4>2. note # NoNote /\ todo' = {} => LiveAsBefore' /\ Clear("original")'
        BY <1>1, <1>2, <2>2, <4>1 DEF RestoreNote, LiveAsBefore, Clear
      <4> QED BY <1>1, <1>2, <2>1, <4>1, <4>2 DEF BackInv
    <3> QED BY <2>1, <3>1 DEF RestoreInv, UpdateInv, UndoInv
  <2> QED BY <2>4, <2>5, <2>7, <2>8, <2>9 DEF IInv
<1> QED BY <1>4, <1>5, <1>6 DEF BackSwap

\* The deployment goes back to the one of the note.
LEMMA BackDeployKeeps ==
  ASSUME IInv, BackDeploy
  PROVE  IInv'
<1>1. /\ pc = "back_deploy" /\ BasicInv /\ ControlInv /\ NoteInv /\ RestInv /\ BackInv /\ TypeOK
      /\ UNCHANGED <<stable, disk, bundles, app, note, jobs, before>>
  BY DEF IInv, BasicInv, BackDeploy
<1>2. \/ note # NoNote /\ task = note /\ note.bundle = before.deploy /\ task.bundle \in Deployments
      \/ note = NoNote /\ task.bundle = NoDeployment
  BY <1>1 DEF ControlInv, NoteInv, NoNote
<1>3. NoDeployment \notin Deployments
  BY DEF NoDeployment, Deployments, Releases
<1>4. CASE task.bundle # NoDeployment /\ deploy' \in PartOf(task.bundle) /\ GiveUp
  <2>1. deploy' \in Deployments
    BY <1>4 DEF PartOf
  <2> QED BY <1>1, <1>2, <1>4, <2>1, JobEnds DEF GiveUp, Same, TypeOK
<1>5. CASE Goto("back_clear") /\ deploy' = IF task.bundle = NoDeployment THEN deploy ELSE task.bundle
  <2>1. pc' = "back_clear" /\ job' = job /\ task' = task /\ todo' = todo
    BY <1>5 DEF Goto
  <2>2. deploy' \in Deployments /\ (note # NoNote => deploy' = before.deploy)
        /\ (note = NoNote => deploy' = deploy)
    BY <1>1, <1>2, <1>3, <1>5 DEF TypeOK
  <2>3. BasicInv'
    BY <1>1, <2>1, <2>2 DEF BasicInv, TypeOK, stable, Steps
  <2>4. ControlInv'
    BY <1>1, <2>1 DEF ControlInv
  <2>5. NoteInv' /\ RestInv'
    BY <1>1, <2>2, NoteKept DEF Frame, stable, Same
  <2>6. RestoreInv' /\ BackInv' /\ UpdateInv' /\ UndoInv'
    BY <1>1, <2>1, <2>2 DEF RestoreInv, BackInv, UpdateInv, UndoInv, LiveAsBefore, Clear
  <2> QED BY <2>3, <2>4, <2>5, <2>6 DEF IInv
<1> QED BY <1>1, <1>4, <1>5 DEF BackDeploy

\* The note goes with the app as it was before the restore.
LEMMA AsItWas ==
  ASSUME NoteInv, note # NoNote, added \subseteq Folders, deploy = before.deploy,
         LiveAsBefore, Clear("original")
  PROVE  /\ \A f \in Folders : disk["original"][f] # "none" => f \in Uses(deploy.files)
         /\ Full(disk["live"], disk["original"])
         /\ deploy.release = "r1" => SomeData(disk["live"], disk["original"])
<1>1. Full(disk["live"], disk["original"])
  BY DEF NoteInv, LiveAsBefore, Clear, Full
<1>2. deploy.release = "r1" => SomeData(disk["live"], disk["original"])
  BY DEF NoteInv, LiveAsBefore, SomeData
<1> QED BY <1>1, <1>2 DEF Clear

\* The note goes when every folder and the deployment are back.
LEMMA BackClearKeeps ==
  ASSUME IInv, BackClear
  PROVE  IInv'
<1>1. /\ pc = "back_clear" /\ BasicInv /\ ControlInv /\ NoteInv /\ RestInv /\ BackInv /\ TypeOK
      /\ UNCHANGED <<stable, deploy, bundles, app, jobs, before>>
      /\ note' = NoNote /\ pc' = "back_start" /\ job' = job /\ task' = task /\ todo' = todo
  BY DEF IInv, BasicInv, BackClear, Goto
<1>2. disk' \in [Places -> [Folders -> Contents]] /\ Same("live") /\ Same("original")
  <2>1. PICK kept : disk' = Wiped({"discard", "restoring"}, task.folders, kept)
    BY DEF BackClear
  <2>2. DiskType
    BY <1>1 DEF TypeOK, DiskType
  <2> QED BY <2>1, <2>2, WipedIs, PlacesAre DEF Same
<1>3. BasicInv'
  BY <1>1, <1>2, NoNoteIsANote DEF BasicInv, TypeOK, stable, Steps
<1>4. ControlInv'
  BY <1>1 DEF ControlInv
<1>5. NoteInv'
  BY <1>1 DEF NoteInv
<1>6. RestInv'
  <2>1. CASE note = NoNote
    BY <1>1, <1>2, <2>1, NoteKept DEF Frame, stable
  <2>2. CASE note # NoNote
    <3>1. deploy = before.deploy /\ LiveAsBefore /\ Clear("original") /\ added \subseteq Folders
      BY <1>1, <2>2 DEF BackInv, TypeOK
    <3> QED BY <1>1, <1>2, <2>2, <3>1, AsItWas DEF RestInv, Full, SomeData, Uses, Same, stable
  <2> QED BY <2>1, <2>2
<1>7. RestoreInv' /\ BackInv' /\ UpdateInv' /\ UndoInv'
  <2>1. (task.bundle = NoDeployment /\ task.kind = "restore") \/ Clear("original")
    BY <1>1 DEF ControlInv, BackInv, NoNote
  <2> QED BY <1>1, <1>2, <2>1 DEF RestoreInv, BackInv, UpdateInv, UndoInv, Clear, Same
<1> QED BY <1>3, <1>4, <1>5, <1>6, <1>7 DEF IInv

\* The app starts again as it was.
LEMMA BackStartKeeps ==
  ASSUME IInv, BackStart
  PROVE  IInv'
<1>1. note = NoNote
  BY DEF IInv, ControlInv, BackStart
<1> QED BY <1>1, StartEnds DEF BackStart, PutBack

------------------------------------------------------------------------------
(* An update keeps the invariant.                                            *)

\* The note of an update is made from what is there.
LEMMA CaptureKeeps ==
  ASSUME IInv, Capture
  PROVE  IInv'
<1> DEFINE n == [NoNote EXCEPT !.kind = "update", !.bundle = deploy, !.wasRunning = wanted]
<1>1. pc = "capture" /\ BasicInv /\ ControlInv /\ RestInv /\ UpdateInv /\ TypeOK
  BY DEF IInv, BasicInv, Capture
<1>2. CASE EndJob("failed") /\ UNCHANGED <<stable, disk, deploy, bundles, app, note, jobs, before>>
  BY <1>1, <1>2, JobEnds DEF Same, TypeOK
<1>3. CASE Begin(n, "render")
  <2>1. /\ bundles' = [bundles EXCEPT ![deploy.release] = deploy]
        /\ note' = n /\ task' = n /\ before' = [live |-> disk["live"], deploy |-> deploy]
        /\ pc' = "render"
        /\ UNCHANGED <<stable, disk, deploy, app, job, jobs, todo>>
    BY <1>3 DEF Begin
  <2>2. n \in Notes /\ n # NoNote /\ n.kind = "update" /\ ~n.applied /\ n.bundle = deploy
    <3>1. NoNote \in Notes /\ NoNote.kind = "none" /\ ~NoNote.applied
      BY NoNoteIsANote DEF NoNote
    <3>2. deploy \in Deployments \union {NoDeployment} /\ wanted \in BOOLEAN
      BY <1>1 DEF TypeOK
    <3>3. n \in Notes
      BY <3>1, <3>2 DEF Notes
    <3> QED BY <3>1, <3>3 DEF Notes
  <2> HIDE DEF n
  <2>3. BasicInv'
    <3>1. bundles' \in [Releases -> Deployments \union {NoDeployment}]
      BY <1>1, <2>1 DEF TypeOK
    <3>2. \A r \in Releases : bundles'[r] # NoDeployment => bundles'[r].release = r
      BY <1>1, <2>1 DEF BasicInv, TypeOK
    <3>3. before'.live \in [Folders -> Contents] /\ before'.deploy \in Deployments \union {NoDeployment}
      BY <1>1, <2>1 DEF TypeOK, Places
    <3> QED BY <1>1, <2>1, <2>2, <3>1, <3>2, <3>3 DEF BasicInv, TypeOK, stable, Steps
  <2>4. ControlInv'
    BY <1>1, <2>1, <2>2 DEF ControlInv
  <2>5. NoteInv' /\ RestInv'
    <3>1. note = NoNote /\ \A f \in Folders : disk["original"][f] = "none"
      BY <1>1 DEF ControlInv, Clear
    <3>2. UpdateNote'
      BY <1>1, <2>1, <2>2, <3>1 DEF UpdateNote, UpdateInv, LiveAsBefore, Clear
    <3>3. added \subseteq Folders
      BY <1>1 DEF TypeOK
    <3>4. (\E f \in Folders : before'.live[f] = "b2") => \A g \in added' : before'.live[g] # "none"
      BY <1>1, <2>1, <3>1, <3>3 DEF RestInv, Full, stable
    <3>5. before'.deploy.release = "r1" => \E f \in Folders : before'.live[f] # "none"
      BY <1>1, <2>1, <3>1 DEF RestInv, SomeData
    <3> QED BY <1>1, <2>1, <2>2, <3>2, <3>4, <3>5 DEF NoteInv, RestInv, TypeOK
  <2>6. RestoreInv' /\ BackInv' /\ UpdateInv' /\ UndoInv'
    BY <1>1, <2>1 DEF RestoreInv, BackInv, UpdateInv, UndoInv
  <2> QED BY <2>3, <2>4, <2>5, <2>6 DEF IInv
<1> QED BY <1>2, <1>3 DEF Capture

\* The new files are rendered over the old ones, or a part of them.
LEMMA RenderKeeps ==
  ASSUME IInv, Render
  PROVE  IInv'
<1>1. /\ pc = "render" /\ BasicInv /\ ControlInv /\ NoteInv /\ RestInv /\ UpdateInv /\ TypeOK
      /\ UNCHANGED <<stable, disk, bundles, app, note, jobs, before>>
  BY DEF IInv, BasicInv, Render
<1>2. /\ deploy' \in {deploy, [deploy EXCEPT !.files = "r2"]}
      /\ pc' \in {"up_stop", "revert"} /\ job' = job /\ task' = task /\ todo' = todo
      /\ pc' = "up_stop" => deploy' = [deploy EXCEPT !.files = "r2"]
  BY DEF Render, Goto
<1>3. deploy' \in Deployments /\ deploy'.release = deploy.release
      /\ deploy'.files \in {before.deploy.files, "r2"}
      /\ (pc' = "up_stop" => deploy'.files = "r2")
  BY <1>1, <1>2 DEF TypeOK, Deployments, Releases, UpdateInv
<1>4. note # NoNote
  BY <1>1 DEF ControlInv, NoNote
<1>5. BasicInv'
  BY <1>1, <1>2, <1>3 DEF BasicInv, TypeOK, stable, Steps
<1>6. ControlInv'
  BY <1>1, <1>2 DEF ControlInv
<1>7. NoteInv' /\ RestInv'
  BY <1>1, <1>4, NoteKept DEF Frame, stable, Same
<1>8. RestoreInv' /\ BackInv' /\ UpdateInv' /\ UndoInv'
  BY <1>1, <1>2, <1>3 DEF RestoreInv, BackInv, UpdateInv, UndoInv
<1> QED BY <1>5, <1>6, <1>7, <1>8 DEF IInv

\* The app stops, or nothing was updated.
LEMMA StopForUpdateKeeps ==
  ASSUME IInv, StopForUpdate
  PROVE  IInv'
<1>1. /\ pc = "up_stop" /\ BasicInv /\ ControlInv /\ NoteInv /\ RestInv /\ UpdateInv /\ TypeOK
      /\ UNCHANGED <<stable, disk, deploy, bundles, note, jobs, before>> /\ app' \in BOOLEAN
      /\ pc' \in {"apply", "revert_stopped"} /\ job' = job /\ task' = task /\ todo' = todo
  BY DEF IInv, BasicInv, StopForUpdate, Goto, TypeOK
<1>2. BasicInv'
  BY <1>1 DEF BasicInv, TypeOK, stable, Steps
<1>3. ControlInv'
  BY <1>1 DEF ControlInv
<1>4. NoteInv' /\ RestInv'
  BY <1>1, NoteKept DEF Frame, stable, Same
<1>5. RestoreInv' /\ BackInv' /\ UpdateInv' /\ UndoInv'
  BY <1>1 DEF RestoreInv, BackInv, UpdateInv, UndoInv
<1> QED BY <1>2, <1>3, <1>4, <1>5 DEF IInv

\* An update that touched no data goes back to the old deployment.
LEMMA RevertKeeps ==
  ASSUME IInv, Revert
  PROVE  IInv'
<1>1. /\ pc \in {"revert", "revert_stopped"} /\ BasicInv /\ ControlInv /\ NoteInv /\ RestInv /\ TypeOK
      /\ UNCHANGED <<stable, disk, bundles, app, jobs, before>>
      /\ task = note /\ note # NoNote /\ note.kind = "update" /\ ~note.applied
      /\ note.bundle = before.deploy /\ before.deploy \in Deployments /\ UpdateNote /\ LiveAsBefore
  BY DEF IInv, BasicInv, Revert, ControlInv, NoNote, NoteInv, UpdateNote
<1>2. CASE deploy' \in PartOf(task.bundle) /\ EndJob("failed") /\ UNCHANGED note
  <2>1. deploy' \in Deployments
    BY <1>2 DEF PartOf
  <2> QED BY <1>1, <1>2, <2>1, JobEnds DEF Same, TypeOK
<1>3. CASE /\ deploy' = task.bundle /\ note' = NoNote
           /\ IF pc = "revert_stopped" /\ wanted THEN Goto("revert_start") ELSE EndJob("failed")
  <2>1. \/ pc' = "revert_start" /\ Goto("revert_start")
        \/ pc' = "idle" /\ EndJob("failed")
    BY <1>3 DEF EndJob, Goto
  <2>2. deploy' = before.deploy /\ deploy' \in Deployments /\ deploy'.release = "r1"
    BY <1>1, <1>3 DEF UpdateNote
  <2>3. BasicInv'
    BY <1>1, <1>3, <2>1, <2>2, EndJobIs, GotoIs, NoNoteIsANote DEF BasicInv, TypeOK, stable, Steps
  <2>4. ControlInv'
    BY <1>1, <1>3, <2>1, EndJobIs DEF ControlInv, Goto
  <2>5. NoteInv'
    BY <1>3 DEF NoteInv
  <2>6. RestInv'
    <3>1. /\ (\E f \in Folders : before.live[f] = "b2") => \A g \in added : before.live[g] # "none"
          /\ \E f \in Folders : before.live[f] # "none"
      BY <1>1 DEF NoteInv, UpdateNote
    <3>2. added \subseteq Folders /\ Clear("original")
      BY <1>1 DEF TypeOK, UpdateNote
    <3> QED BY <1>1, <1>3, <3>1, <3>2 DEF RestInv, Full, SomeData, Clear, LiveAsBefore, stable
  <2>7. RestoreInv' /\ BackInv' /\ UpdateInv' /\ UndoInv'
    BY <2>1, <2>2 DEF RestoreInv, BackInv, UpdateInv, UndoInv
  <2> QED BY <2>3, <2>4, <2>5, <2>6, <2>7 DEF IInv
<1> QED BY <1>1, <1>2, <1>3 DEF Revert

\* The app, untouched, starts again.
LEMMA RevertStartKeeps ==
  ASSUME IInv, RevertStart
  PROVE  IInv'
<1>1. note = NoNote
  BY DEF IInv, ControlInv, RevertStart
<1> QED BY <1>1, StartEnds DEF RevertStart

\* The backup an update takes is of every folder, as it was.
LEMMA ApplyKeeps ==
  ASSUME IInv, Apply
  PROVE  IInv'
<1>1. /\ pc = "apply" /\ BasicInv /\ ControlInv /\ NoteInv /\ RestInv /\ UpdateInv /\ TypeOK
      /\ note' = [note EXCEPT !.applied = TRUE, !.snapshot = Saved] /\ task' = note'
      /\ pc' = "up_write"
      /\ UNCHANGED <<stable, disk, deploy, bundles, app, job, jobs, todo, before>>
      /\ note # NoNote /\ note.kind = "update" /\ UpdateNote /\ LiveAsBefore
  BY DEF IInv, BasicInv, Apply, ControlInv, NoteInv, NoNote, UpdateNote
<1>2. Saved \in [Folders -> Contents] /\ \A f \in Folders : Saved[f] = disk["live"][f]
  <2>1. Uses(deploy.files) = Folders
    BY <1>1 DEF UpdateInv, Uses
  <2>2. disk["live"] \in [Folders -> Contents]
    BY <1>1 DEF TypeOK, Places
  <2> QED BY <2>1, <2>2 DEF Saved
<1>3. /\ note' \in Notes /\ note' # NoNote /\ note'.kind = "update" /\ note'.applied
      /\ note'.snapshot = Saved /\ note'.bundle = note.bundle
  <2>1. note \in Notes
    BY <1>1 DEF TypeOK
  <2>2. note' \in Notes /\ note'.kind = "update" /\ note'.applied
        /\ note'.snapshot = Saved /\ note'.bundle = note.bundle
    BY <1>1, <1>2, <2>1 DEF Notes
  <2> QED BY <2>2 DEF NoNote
<1>4. BasicInv'
  BY <1>1, <1>3 DEF BasicInv, TypeOK, stable, Steps
<1>5. ControlInv'
  BY <1>1, <1>3 DEF ControlInv
<1>6. NoteInv' /\ RestInv'
  <2>1. UpdateNote'
    BY <1>1, <1>2, <1>3 DEF UpdateNote, LiveAsBefore, Clear
  <2> QED BY <1>1, <1>3, <2>1 DEF NoteInv, RestInv, stable
<1>7. RestoreInv' /\ BackInv' /\ UpdateInv' /\ UndoInv'
  BY <1>1 DEF RestoreInv, BackInv, UpdateInv, UndoInv, LiveAsBefore
<1> QED BY <1>4, <1>5, <1>6, <1>7 DEF IInv

\* The release record is written.
LEMMA WriteTargetKeeps ==
  ASSUME IInv, WriteTarget \/ KeepWrite
  PROVE  IInv'
<1>1. /\ pc \in {"up_write", "keep_write"} /\ BasicInv /\ ControlInv /\ NoteInv /\ RestInv /\ UpdateInv /\ TypeOK
      /\ deploy' = [deploy EXCEPT !.release = "r2"] /\ job' = job /\ task' = task /\ todo' = todo
      /\ pc' = IF pc = "up_write" THEN "up_start" ELSE "keep_start"
      /\ UNCHANGED <<stable, disk, bundles, app, note, jobs, before>>
      /\ note # NoNote
  BY DEF IInv, BasicInv, WriteTarget, KeepWrite, Goto, ControlInv, NoNote
<1>2. deploy' \in Deployments /\ deploy'.release = "r2"
  BY <1>1 DEF TypeOK, Deployments, Releases
<1>3. BasicInv'
  BY <1>1, <1>2 DEF BasicInv, TypeOK, stable, Steps
<1>4. ControlInv'
  BY <1>1 DEF ControlInv
<1>5. NoteInv' /\ RestInv'
  BY <1>1, NoteKept DEF Frame, stable, Same
<1>6. RestoreInv' /\ BackInv' /\ UpdateInv' /\ UndoInv'
  BY <1>1, <1>2 DEF RestoreInv, BackInv, UpdateInv, UndoInv, LiveAsBefore
<1> QED BY <1>3, <1>4, <1>5, <1>6 DEF IInv

\* A start with the note of an applied update there.
LEMMA StartNoted ==
  ASSUME IInv, note # NoNote, note.kind = "update", note.applied,
         StartHealthy \/ StartUnhealthy, UNCHANGED <<stable, deploy, note, before>>
  PROVE  NoteInv' /\ RestInv'
<1>1. NoteInv /\ TypeOK
  BY DEF IInv, BasicInv
<1>2. /\ Same("original")
      /\ \A f \in Folders : disk'["live"][f] \in {disk["live"][f], "new"}
  BY <1>1, StartIs, PlacesAre DEF Same
<1>3. \A f \in Folders : before.live[f] = "none" => disk'["live"][f] \in {"none", "new"}
  BY <1>1, <1>2 DEF NoteInv, UpdateNote
<1>4. UpdateNote'
  BY <1>1, <1>2, <1>3 DEF NoteInv, UpdateNote, Clear, Same
<1>5. note'.kind # "restore"
  OBVIOUS
<1> QED BY <1>1, <1>4, <1>5 DEF NoteInv, RestInv, stable

\* The new release starts on the old data and migrates it, or a part of it.
LEMMA StartUpdatedKeeps ==
  ASSUME IInv, StartUpdated
  PROVE  IInv'
<1>1. /\ pc = "up_start" /\ BasicInv /\ ControlInv /\ NoteInv /\ RestInv /\ UpdateInv /\ TypeOK
      /\ UNCHANGED <<stable, deploy, bundles, note, jobs, before>>
      /\ note # NoNote /\ note.kind = "update" /\ note.applied /\ task = note
      /\ before.deploy.release = "r1" /\ deploy.release = "r2" /\ LiveAsBefore
  BY DEF IInv, BasicInv, StartUpdated, ControlInv, NoNote, NoteInv, UpdateNote, UpdateInv
<1>2. /\ StartHealthy \/ StartUnhealthy
      /\ job' = job /\ task' = task /\ todo' = todo
      /\ \/ StartHealthy /\ pc' \in {"up_clear", "up_stop_again"}
         \/ pc' = "undo_stop"
  BY DEF StartUpdated, Goto
<1>3. BasicInv'
  BY <1>1, <1>2, StartIs DEF BasicInv, TypeOK, stable, Steps
<1>4. ControlInv'
  BY <1>1, <1>2 DEF ControlInv
<1>5. NoteInv' /\ RestInv'
  BY <1>1, <1>2, StartNoted
<1>6. UpdateInv'
  <2>1. CASE pc' = "undo_stop"
    BY <2>1 DEF UpdateInv
  <2>2. CASE StartHealthy /\ pc' \in {"up_clear", "up_stop_again"}
    <3>1. /\ \A g \in Folders : disk'["live"][g] \in {disk["live"][g], "new"}
          /\ \A g \in Stale("r2") : disk'["live"][g] = "new"
          /\ added \subseteq Folders
      BY <1>1, <2>2, StartIs DEF TypeOK
    <3>2. ASSUME NEW g \in added
          PROVE  disk'["live"][g] # "none"
      BY <3>1 DEF Stale, Uses
    <3>3. ASSUME WasWhole, NEW f \in Uses(before.deploy.files)
          PROVE  disk'["live"][f] \in {"new", "none"}
      <4>1. PICK c \in Contents : ReleaseOf(c) = "r1" /\ before.live[f] \in {c, "none"}
        BY <1>1, <3>3 DEF WasWhole, WholeOn
      <4>2. f \in Folders /\ disk["live"][f] = before.live[f]
        BY <1>1, <3>3 DEF Uses, LiveAsBefore
      <4>3. CASE before.live[f] = "none"
        BY <3>1, <4>2, <4>3
      <4>4. CASE before.live[f] # "none"
        BY <3>1, <4>1, <4>2, <4>4 DEF Stale, Uses
      <4> QED BY <4>3, <4>4
    <3>4. Uses(before.deploy.files)' = Uses(before.deploy.files) /\ WasWhole' = WasWhole
      BY <1>1 DEF Uses, WasWhole, WholeOn, stable
    <3> QED BY <1>1, <2>2, <3>2, <3>3, <3>4 DEF UpdateInv, stable
  <2> QED BY <1>2, <2>1, <2>2
<1>7. RestoreInv' /\ BackInv' /\ UndoInv'
  BY <1>2 DEF RestoreInv, BackInv, UndoInv
<1> QED BY <1>3, <1>4, <1>5, <1>6, <1>7 DEF IInv

\* The owner keeps the update: the new release starts on what is there.
LEMMA KeepStartKeeps ==
  ASSUME IInv, KeepStart
  PROVE  IInv'
<1>1. /\ pc = "keep_start" /\ BasicInv /\ ControlInv /\ NoteInv /\ RestInv /\ UpdateInv /\ TypeOK
      /\ UNCHANGED <<stable, deploy, bundles, note, jobs, before>>
      /\ note # NoNote /\ note.kind = "update" /\ note.applied /\ task = note
      /\ deploy.release = "r2"
      /\ StartHealthy \/ StartUnhealthy
  BY DEF IInv, BasicInv, KeepStart, ControlInv, NoNote, UpdateInv
<1>2. NoteInv' /\ RestInv'
  BY <1>1, StartNoted
<1>3. \/ StartHealthy /\ pc' \in {"keep_clear", "keep_stop"} /\ job' = job /\ task' = task /\ todo' = todo
      \/ EndJob("failed")
  BY DEF KeepStart, Goto, GiveUp
<1>4. BasicInv'
  BY <1>1, <1>3, StartIs, EndJobIs DEF BasicInv, TypeOK, stable, Steps
<1>5. ControlInv'
  <2>1. CASE EndJob("failed")
    BY <1>1, <2>1, EndJobControl
  <2>2. CASE pc' \in {"keep_clear", "keep_stop"} /\ job' = job /\ task' = task
    BY <1>1, <2>2 DEF ControlInv
  <2> QED BY <1>3, <2>1, <2>2
<1>6. RestoreInv' /\ BackInv' /\ UpdateInv' /\ UndoInv'
  <2>1. CASE EndJob("failed")
    BY <2>1, IdlePlaces DEF EndJob
  <2>2. CASE StartHealthy /\ pc' \in {"keep_clear", "keep_stop"}
    <3>1. /\ \A g \in Folders : disk'["live"][g] \in {disk["live"][g], "new"}
          /\ \A g \in Stale("r2") : disk'["live"][g] = "new"
          /\ added \subseteq Folders
      BY <1>1, <2>2, StartIs DEF TypeOK
    <3>2. ASSUME NEW g \in added
          PROVE  disk'["live"][g] # "none"
      BY <3>1 DEF Stale, Uses
    <3> QED BY <1>1, <2>2, <3>2 DEF RestoreInv, BackInv, UpdateInv, UndoInv, stable
  <2> QED BY <1>3, <2>1, <2>2
<1> QED BY <1>2, <1>4, <1>5, <1>6 DEF IInv

\* An app that was stopped is stopped again.
LEMMA StopAgainKeeps ==
  ASSUME IInv, StopAgain
  PROVE  IInv'
<1>1. /\ pc \in {"up_stop_again", "keep_stop"} /\ BasicInv /\ ControlInv /\ NoteInv /\ RestInv /\ UpdateInv
      /\ TypeOK /\ UNCHANGED <<stable, disk, deploy, bundles, note, jobs, before>>
      /\ app' \in BOOLEAN
      /\ \/ Goto(IF pc = "keep_stop" THEN "keep_clear" ELSE "up_clear")
         \/ EndJob("failed")
  BY DEF IInv, BasicInv, StopAgain, TypeOK
<1>2. CASE EndJob("failed")
  BY <1>1, <1>2, JobEnds DEF Same, TypeOK
<1>3. CASE Goto(IF pc = "keep_stop" THEN "keep_clear" ELSE "up_clear")
  <2>1. /\ pc' = IF pc = "keep_stop" THEN "keep_clear" ELSE "up_clear"
        /\ job' = job /\ task' = task /\ todo' = todo
    BY <1>3 DEF Goto
  <2>2. BasicInv'
    BY <1>1, <2>1 DEF BasicInv, TypeOK, stable, Steps
  <2>3. ControlInv'
    BY <1>1, <2>1 DEF ControlInv
  <2>4. NoteInv' /\ RestInv'
    BY <1>1, NoteKept DEF Frame, stable, Same
  <2>5. RestoreInv' /\ BackInv' /\ UpdateInv' /\ UndoInv'
    BY <1>1, <2>1 DEF RestoreInv, BackInv, UpdateInv, UndoInv, WasWhole, WholeOn, Uses, stable
  <2> QED BY <2>2, <2>3, <2>4, <2>5 DEF IInv
<1> QED BY <1>1, <1>2, <1>3

\* The note goes after a healthy start of the new release.
LEMMA ClearUpdatedKeeps ==
  ASSUME IInv, ClearUpdated
  PROVE  IInv'
<1>1. /\ pc \in {"up_clear", "keep_clear"} /\ BasicInv /\ ControlInv /\ NoteInv /\ RestInv /\ UpdateInv
      /\ TypeOK /\ UNCHANGED <<stable, disk, deploy, bundles, app, jobs, before>>
      /\ note' = NoNote /\ EndJob("succeeded")
  BY DEF IInv, BasicInv, ClearUpdated
<1>2. BasicInv'
  BY <1>1, EndJobIs, NoNoteIsANote DEF BasicInv, TypeOK, stable
<1>3. ControlInv'
  BY <1>1, EndJobControl
<1>4. NoteInv'
  BY <1>1 DEF NoteInv
<1>5. RestInv'
  <2>1. Clear("original")
    BY <1>1 DEF ControlInv, NoteInv, UpdateNote, NoNote
  <2>2. deploy.release = "r2" /\ \A g \in added : disk["live"][g] # "none"
    BY <1>1 DEF UpdateInv
  <2> QED BY <1>1, <2>1, <2>2 DEF RestInv, Full, Clear, stable
<1>6. RestoreInv' /\ BackInv' /\ UpdateInv' /\ UndoInv'
  BY <1>1, IdlePlaces DEF EndJob
<1> QED BY <1>2, <1>3, <1>4, <1>5, <1>6 DEF IInv

------------------------------------------------------------------------------
(* An undo keeps the invariant.                                              *)

\* The note of an update whose undo is under way.
UndoNote ==
  /\ note # NoNote /\ note.kind = "update" /\ task = note /\ UpdateNote
  /\ note.bundle = before.deploy /\ before.deploy \in Deployments

\* An undo works from the note.
LEMMA UndoHasItsNote ==
  ASSUME IInv, pc \in UndoPlaces
  PROVE  UndoNote
BY DEF IInv, ControlInv, NoteInv, NoNote, UndoNote

\* The app stops, or the undo gives up.
LEMMA UndoStopKeeps ==
  ASSUME IInv, UndoStop
  PROVE  IInv'
<1>1. /\ pc = "undo_stop" /\ BasicInv /\ ControlInv /\ NoteInv /\ RestInv /\ TypeOK
      /\ UNCHANGED <<stable, disk, deploy, bundles, note, jobs, before>> /\ app' \in BOOLEAN
      /\ Goto("undo_deploy") \/ EndJob("failed")
  BY DEF IInv, BasicInv, UndoStop, GiveUp, TypeOK
<1>2. CASE EndJob("failed")
  BY <1>1, <1>2, JobEnds DEF Same, TypeOK
<1>3. CASE Goto("undo_deploy")
  <2>1. pc' = "undo_deploy" /\ job' = job /\ task' = task /\ todo' = todo
    BY <1>3 DEF Goto
  <2>2. BasicInv'
    BY <1>1, <2>1 DEF BasicInv, TypeOK, stable, Steps
  <2>3. ControlInv'
    BY <1>1, <2>1 DEF ControlInv
  <2>4. NoteInv' /\ RestInv'
    BY <1>1, NoteKept DEF Frame, stable, Same
  <2>5. RestoreInv' /\ BackInv' /\ UpdateInv' /\ UndoInv'
    BY <2>1 DEF RestoreInv, BackInv, UpdateInv, UndoInv
  <2> QED BY <2>2, <2>3, <2>4, <2>5 DEF IInv
<1> QED BY <1>1, <1>2, <1>3

\* The deployment goes back to the one before the update.
LEMMA UndoDeployKeeps ==
  ASSUME IInv, UndoDeploy
  PROVE  IInv'
<1>1. /\ pc = "undo_deploy" /\ BasicInv /\ ControlInv /\ NoteInv /\ RestInv /\ TypeOK
      /\ UNCHANGED <<stable, disk, bundles, app, note, jobs, before>>
  BY DEF IInv, BasicInv, UndoDeploy
<1>2. UndoNote
  BY <1>1, UndoHasItsNote
<1>3. CASE deploy' \in PartOf(task.bundle) /\ GiveUp
  <2>1. deploy' \in Deployments
    BY <1>3 DEF PartOf
  <2> QED BY <1>1, <1>2, <1>3, <2>1, JobEnds DEF Same, TypeOK, UndoNote, GiveUp
<1>4. CASE deploy' = task.bundle /\ Goto(IF task.applied THEN "undo_unpack" ELSE "undo_clear")
  <2>1. /\ pc' = IF task.applied THEN "undo_unpack" ELSE "undo_clear"
        /\ job' = job /\ task' = task /\ todo' = todo
    BY <1>4 DEF Goto
  <2>2. deploy' = before.deploy /\ deploy' \in Deployments
    BY <1>2, <1>4 DEF UndoNote
  <2>3. BasicInv'
    BY <1>1, <2>1, <2>2 DEF BasicInv, TypeOK, stable, Steps
  <2>4. ControlInv'
    BY <1>1, <2>1 DEF ControlInv
  <2>5. NoteInv' /\ RestInv'
    BY <1>1, <1>2, NoteKept DEF Frame, stable, Same, UndoNote
  <2>6. RestoreInv' /\ BackInv' /\ UpdateInv' /\ UndoInv'
    BY <1>1, <2>1, <2>2 DEF RestoreInv, BackInv, UpdateInv, UndoInv
  <2> QED BY <2>3, <2>4, <2>5, <2>6 DEF IInv
<1> QED BY <1>3, <1>4 DEF UndoDeploy

\* Steps of an undo that touch the live folders of the backup only.
LEMMA UndoTouches ==
  ASSUME IInv, UndoNote, UNCHANGED <<stable, deploy, note, before>>,
         Same("original") \/ Clear("original")',
         note.applied,
         \A f \in Folders : before.live[f] = "none" => disk'["live"][f] = disk["live"][f]
  PROVE  NoteInv' /\ RestInv'
<1>1. NoteInv
  BY DEF IInv
<1>2. UpdateNote'
  BY <1>1 DEF UndoNote, UpdateNote, Clear, Same
<1> QED BY <1>1, <1>2 DEF UndoNote, NoteInv, RestInv, stable

\* The update's backup is unpacked beside the live folders.
LEMMA UndoUnpackKeeps ==
  ASSUME IInv, UndoUnpack
  PROVE  IInv'
<1>1. /\ pc = "undo_unpack" /\ BasicInv /\ ControlInv /\ NoteInv /\ RestInv /\ UndoInv /\ TypeOK
      /\ UNCHANGED <<stable, deploy, bundles, app, note, jobs, before>>
  BY DEF IInv, BasicInv, UndoUnpack
<1>2. UndoNote /\ task.applied /\ deploy = before.deploy /\ task \in Notes
  BY <1>1, UndoHasItsNote DEF UndoInv, TypeOK
<1>3. DiskType /\ task.snapshot \in [Folders -> Contents]
  BY <1>1, <1>2 DEF TypeOK, DiskType, Notes
<1>4. CASE GiveUp /\ \E some : disk' = Unpacked(disk, some, task.snapshot)
  <2>1. disk' \in [Places -> [Folders -> Contents]] /\ Same("live") /\ Same("original")
    BY <1>3, <1>4, UnpackedIs, PlacesAre DEF Same, DiskType
  <2> QED BY <1>1, <1>4, <2>1, JobEnds DEF GiveUp, TypeOK
<1>5. CASE /\ UndoPlanned /\ Loop("undo_aside", Snapshotted)
           /\ \E kept : disk' = Unpacked(Wiped({"original"}, Snapshotted, kept), Snapshotted, task.snapshot)
  <2>1. pc' = "undo_aside" /\ job' = job /\ task' = task /\ todo' = Snapshotted
    BY <1>5 DEF Loop
  <2>2. /\ disk' \in [Places -> [Folders -> Contents]] /\ Same("live")
        /\ \A f \in Folders : disk'["original"][f] \in {disk["original"][f], "none"}
        /\ \A f \in Snapshotted : disk'["restoring"][f] = task.snapshot[f]
    <3>1. PICK kept : disk' = Unpacked(Wiped({"original"}, Snapshotted, kept), Snapshotted, task.snapshot)
      BY <1>5
    <3> DEFINE d == Wiped({"original"}, Snapshotted, kept)
    <3>2. /\ d \in [Places -> [Folders -> Contents]] /\ d["live"] = disk["live"]
          /\ \A f \in Folders : d["original"][f] \in {disk["original"][f], "none"}
      BY <1>3, WipedIs, PlacesAre
    <3>3. disk' = Unpacked(d, Snapshotted, task.snapshot)
      BY <3>1
    <3> HIDE DEF d
    <3>4. Snapshotted \subseteq Folders
      BY DEF Snapshotted
    <3> QED BY <1>3, <3>2, <3>3, <3>4, UnpackedIs, PlacesAre DEF Same
  <2>3. Snapshotted # {} /\ Snapshotted \in SUBSET Folders
    BY <1>1, <1>2 DEF NoteInv, UndoNote, UpdateNote, Snapshotted
  <2>4. BasicInv'
    BY <1>1, <2>1, <2>2, <2>3 DEF BasicInv, TypeOK, stable, Steps
  <2>5. ControlInv'
    BY <1>1, <2>1 DEF ControlInv
  <2>6. NoteInv' /\ RestInv'
    <3>1. Clear("original")'
      BY <1>2, <2>2 DEF UndoNote, UpdateNote, Clear
    <3> QED BY <1>1, <1>2, <2>2, <3>1, UndoTouches DEF UndoNote, Same
  <2>7. UndoInv'
    <3>1. \A f \in Uses(deploy.files) \ Snapshotted : disk["live"][f] = "none"
      BY <1>5 DEF UndoPlanned, Present, Uses
    <3>2. Snapshotted' = Snapshotted /\ Uses(deploy.files)' = Uses(deploy.files)
      BY <1>1, <2>1 DEF Snapshotted, Uses, stable
    <3> QED BY <1>1, <1>2, <2>1, <2>2, <2>3, <3>1, <3>2 DEF UndoInv, Same
  <2>8. RestoreInv' /\ BackInv' /\ UpdateInv'
    BY <2>1 DEF RestoreInv, BackInv, UpdateInv
  <2> QED BY <2>4, <2>5, <2>6, <2>7, <2>8 DEF IInv
<1> QED BY <1>1, <1>4, <1>5 DEF UndoUnpack

\* A live folder is moved out of the way.
LEMMA UndoAsideKeeps ==
  ASSUME IInv, UndoAside
  PROVE  IInv'
<1>1. /\ pc = "undo_aside" /\ BasicInv /\ ControlInv /\ NoteInv /\ RestInv /\ UndoInv /\ TypeOK
      /\ UNCHANGED <<stable, deploy, bundles, app, note, jobs, before>>
  BY DEF IInv, BasicInv, UndoAside
<1>2. /\ UndoNote /\ Turn \in todo /\ todo \subseteq Snapshotted /\ Turn \in Folders
      /\ task.applied /\ Snapshotted \subseteq Folders
  BY <1>1, UndoHasItsNote, TurnIsNext DEF UndoInv, Snapshotted
<1>3. CASE GiveUp /\ UNCHANGED disk
  BY <1>1, <1>3, JobEnds DEF GiveUp, Same, TypeOK
<1>4. CASE /\ Goto("undo_in")
           /\ disk' = IF disk["live"][Turn] = "none" THEN Wiped({"discard"}, {Turn}, {})
                      ELSE Renamed(Turn, "live", "discard")
  <2>1. pc' = "undo_in" /\ job' = job /\ task' = task /\ todo' = todo
    BY <1>4 DEF Goto
  <2>2. /\ disk' \in [Places -> [Folders -> Contents]] /\ Same("original") /\ Same("restoring")
        /\ \A f \in Folders \ {Turn} : disk'["live"][f] = disk["live"][f]
    <3>1. DiskType
      BY <1>1 DEF TypeOK, DiskType
    <3>2. CASE disk["live"][Turn] = "none"
      BY <1>2, <1>4, <3>1, <3>2, WipedIs, PlacesAre DEF Same
    <3>3. CASE disk["live"][Turn] # "none"
      BY <1>2, <1>4, <3>1, <3>3, RenamedIs, PlacesAre DEF Same
    <3> QED BY <3>2, <3>3
  <2>3. BasicInv'
    BY <1>1, <2>1, <2>2 DEF BasicInv, TypeOK, stable, Steps
  <2>4. ControlInv'
    BY <1>1, <2>1 DEF ControlInv
  <2>5. NoteInv' /\ RestInv'
    <3>1. before.live[Turn] # "none"
      BY <1>2 DEF UndoNote, UpdateNote, Snapshotted
    <3> QED BY <1>1, <1>2, <2>2, <3>1, UndoTouches DEF UndoNote
  <2>6. UndoInv'
    <3>1. Snapshotted' = Snapshotted /\ Uses(deploy.files)' = Uses(deploy.files)
          /\ Uses(deploy.files) \subseteq Folders
      BY <1>1, <2>1 DEF Snapshotted, Uses, stable
    <3> QED BY <1>1, <1>2, <2>1, <2>2, <3>1 DEF UndoInv, Same
  <2>7. RestoreInv' /\ BackInv' /\ UpdateInv'
    BY <2>1 DEF RestoreInv, BackInv, UpdateInv
  <2> QED BY <2>3, <2>4, <2>5, <2>6, <2>7 DEF IInv
<1> QED BY <1>3, <1>4 DEF UndoAside

\* Its copy from the backup becomes the live one.
LEMMA UndoInKeeps ==
  ASSUME IInv, UndoIn
  PROVE  IInv'
<1>1. /\ pc = "undo_in" /\ BasicInv /\ ControlInv /\ NoteInv /\ RestInv /\ UndoInv /\ TypeOK
      /\ UNCHANGED <<stable, deploy, bundles, app, note, jobs, before>>
  BY DEF IInv, BasicInv, UndoIn
<1>2. /\ UndoNote /\ Turn \in todo /\ todo \subseteq Snapshotted /\ Turn \in Folders
      /\ task.applied /\ Snapshotted \subseteq Folders
  BY <1>1, UndoHasItsNote, TurnIsNext DEF UndoInv, Snapshotted
<1>3. CASE GiveUp /\ UNCHANGED disk
  BY <1>1, <1>3, JobEnds DEF GiveUp, Same, TypeOK
<1>4. CASE disk' = Renamed(Turn, "restoring", "live") /\ NextTurn("undo_aside", "undo_clear")
  <2>1. /\ job' = job /\ task' = task /\ todo' = todo \ {Turn}
        /\ pc' = IF todo = {Turn} THEN "undo_clear" ELSE "undo_aside"
    BY <1>4 DEF NextTurn
  <2>2. /\ disk' \in [Places -> [Folders -> Contents]] /\ Same("original")
        /\ \A f \in Folders \ {Turn} :
             disk'["live"][f] = disk["live"][f] /\ disk'["restoring"][f] = disk["restoring"][f]
        /\ disk'["live"][Turn] = task.snapshot[Turn]
    <3>1. DiskType
      BY <1>1 DEF TypeOK, DiskType
    <3>2. disk["restoring"][Turn] = task.snapshot[Turn]
      BY <1>1, <1>2 DEF UndoInv
    <3> QED BY <1>2, <1>4, <3>1, <3>2, RenamedIs, PlacesAre DEF Same
  <2>3. BasicInv'
    BY <1>1, <2>1, <2>2 DEF BasicInv, TypeOK, stable, Steps
  <2>4. ControlInv'
    BY <1>1, <2>1 DEF ControlInv
  <2>5. NoteInv' /\ RestInv'
    <3>1. before.live[Turn] # "none"
      BY <1>2 DEF UndoNote, UpdateNote, Snapshotted
    <3> QED BY <1>1, <1>2, <2>2, <3>1, UndoTouches DEF UndoNote
  <2>6. UndoInv'
    <3>1. Snapshotted' = Snapshotted /\ Uses(deploy.files)' = Uses(deploy.files)
          /\ Uses(deploy.files) \subseteq Folders
      BY <1>1, <2>1 DEF Snapshotted, Uses, stable
    <3> QED BY <1>1, <1>2, <2>1, <2>2, <3>1 DEF UndoInv
  <2>7. RestoreInv' /\ BackInv' /\ UpdateInv'
    BY <2>1 DEF RestoreInv, BackInv, UpdateInv
  <2> QED BY <2>3, <2>4, <2>5, <2>6, <2>7 DEF IInv
<1> QED BY <1>3, <1>4 DEF UndoIn

\* The note goes when every folder of the backup is live again.
LEMMA UndoClearKeeps ==
  ASSUME IInv, UndoClear
  PROVE  IInv'
<1>1. /\ pc = "undo_clear" /\ BasicInv /\ ControlInv /\ NoteInv /\ RestInv /\ UndoInv /\ TypeOK
      /\ UNCHANGED <<stable, deploy, bundles, app, jobs, before>>
      /\ note' = NoNote /\ pc' = "undo_start" /\ job' = job /\ task' = task /\ todo' = todo
  BY DEF IInv, BasicInv, UndoClear, Goto
<1>2. UndoNote /\ deploy = before.deploy /\ deploy.release = "r1"
  BY <1>1, UndoHasItsNote DEF UndoInv, UndoNote, UpdateNote
<1>3. disk' \in [Places -> [Folders -> Contents]] /\ Same("live") /\ Same("original")
  <2>1. PICK kept : disk' = Wiped({"discard"}, Snapshotted, kept)
    BY DEF UndoClear
  <2>2. DiskType
    BY <1>1 DEF TypeOK, DiskType
  <2> QED BY <2>1, <2>2, WipedIs, PlacesAre DEF Same
<1>4. BasicInv'
  BY <1>1, <1>3, NoNoteIsANote DEF BasicInv, TypeOK, stable, Steps
<1>5. ControlInv'
  BY <1>1 DEF ControlInv
<1>6. NoteInv'
  BY <1>1 DEF NoteInv
<1>7. RestInv'
  <2>1. Clear("original") /\ added \subseteq Folders
    BY <1>1, <1>2 DEF UndoNote, UpdateNote, TypeOK
  <2>2. \A f \in Folders : before.live[f] # "none" => disk["live"][f] = before.live[f]
    BY <1>1, <1>2 DEF UndoInv, UndoNote, UpdateNote, Snapshotted, LiveAsBefore
  <2>3. \A f \in Folders : before.live[f] = "none" => disk["live"][f] \in {"none", "new"}
    BY <1>1, <1>2 DEF UndoNote, UpdateNote, LiveAsBefore
  <2>4. /\ (\E f \in Folders : before.live[f] = "b2") => \A g \in added : before.live[g] # "none"
        /\ \E f \in Folders : before.live[f] # "none"
    BY <1>1, <1>2 DEF NoteInv, UndoNote
  <2>5. Full(disk["live"], disk["original"]) /\ SomeData(disk["live"], disk["original"])
    BY <2>1, <2>2, <2>3, <2>4 DEF Full, SomeData, Clear
  <2> QED BY <1>1, <1>3, <2>1, <2>5 DEF RestInv, Full, SomeData, Clear, Same, stable
<1>8. RestoreInv' /\ BackInv' /\ UpdateInv' /\ UndoInv'
  BY <1>1, <1>2 DEF RestoreInv, BackInv, UpdateInv, UndoInv
<1> QED BY <1>4, <1>5, <1>6, <1>7, <1>8 DEF IInv

\* The app starts again on its old release.
LEMMA UndoStartKeeps ==
  ASSUME IInv, UndoStart
  PROVE  IInv'
<1>1. note = NoNote
  BY DEF IInv, ControlInv, UndoStart
<1> QED BY <1>1, StartEnds DEF UndoStart, PutBack

------------------------------------------------------------------------------
(* Requests, crashes and claims keep the invariant.                          *)

\* A request touches nothing but the queue.
LEMMA RequestKeeps ==
  ASSUME IInv, Request
  PROVE  IInv'
<1>1. /\ BasicInv /\ ControlInv /\ NoteInv /\ RestInv /\ TypeOK /\ pc = "idle"
      /\ UNCHANGED <<stable, disk, deploy, bundles, app, note, pc, todo, task, before>>
      /\ jobs < MaxJobs /\ jobs' = jobs + 1 /\ job'.state = "queued"
  BY DEF IInv, BasicInv, Request, ControlInv, Active
<1>2. job' \in Jobs
  BY DEF Request, Jobs
<1>3. BasicInv'
  BY <1>1, <1>2, BoundAssumption DEF BasicInv, TypeOK, stable
<1>4. ControlInv'
  BY <1>1 DEF ControlInv
<1>5. NoteInv' /\ RestInv'
  BY <1>1, NoteKept DEF Frame, stable, Same
<1>6. RestoreInv' /\ BackInv' /\ UpdateInv' /\ UndoInv'
  BY <1>1, IdlePlaces
<1> QED BY <1>3, <1>4, <1>5, <1>6 DEF IInv

\* A death of the worker leaves disk and note.
LEMMA CrashKeeps ==
  ASSUME IInv, Crash
  PROVE  IInv'
<1>1. /\ BasicInv /\ ControlInv /\ NoteInv /\ RestInv /\ TypeOK
      /\ UNCHANGED <<stable, disk, deploy, bundles, app, note, jobs, before>>
      /\ job' = [job EXCEPT !.state = "queued", !.reclaimed = TRUE]
      /\ pc' = "idle" /\ todo' = {} /\ task' = NoNote
  BY DEF IInv, BasicInv, Crash
<1>2. job' \in Jobs /\ job'.state = "queued"
  BY <1>1 DEF TypeOK, Jobs
<1>3. BasicInv'
  BY <1>1, <1>2, NoNoteIsANote DEF BasicInv, TypeOK, stable, Steps
<1>4. ControlInv'
  BY <1>1, <1>2 DEF ControlInv
<1>5. NoteInv' /\ RestInv'
  BY <1>1, NoteKept DEF Frame, stable, Same
<1>6. RestoreInv' /\ BackInv' /\ UpdateInv' /\ UndoInv'
  BY <1>1, IdlePlaces
<1> QED BY <1>3, <1>4, <1>5, <1>6 DEF IInv

\* Without a note, the folders kept aside say what to put back.
LEMMA LeftoverNoteIs ==
  ASSUME TypeOK
  PROVE  /\ LeftoverNote \in Notes /\ LeftoverNote.kind = "restore" /\ LeftoverNote.folders = Leftovers
         /\ LeftoverNote.bundle = NoDeployment /\ LeftoverNote.absent = {} /\ LeftoverNote # NoNote
<1>1. NoNote \in Notes /\ NoNote.bundle = NoDeployment /\ NoNote.absent = {} /\ NoNote.kind = "none"
  BY NoNoteIsANote DEF NoNote
<1>2. Leftovers \in SUBSET Folders
  BY DEF Leftovers, Uses, Present
<1> QED BY <1>1, <1>2 DEF LeftoverNote, Notes

\* A job is taken up only where its preconditions hold.
LEMMA ExecuteKeeps ==
  ASSUME IInv, Execute
  PROVE  IInv'
<1>1. /\ BasicInv /\ ControlInv /\ NoteInv /\ RestInv /\ TypeOK /\ pc = "idle" /\ task = NoNote
      /\ UNCHANGED <<stable, disk, deploy, bundles, app, note, jobs, before>>
  BY DEF IInv, BasicInv, ControlInv, Execute
<1>2. CASE Refused /\ EndJob("failed")
  BY <1>1, <1>2, JobEnds DEF Same, TypeOK
<1>3. CASE /\ ~Refused /\ job' = [job EXCEPT !.state = "running"] /\ pc' = FirstStep /\ todo' = todo
           /\ task' = IF job.action \in {"recover", "keep_update"} THEN Found ELSE NoNote
  <2>1. /\ job' \in Jobs /\ job'.state = "running" /\ job'.action = job.action
        /\ job.action \in Actions
    BY <1>1, <1>3 DEF TypeOK, Jobs
  <2>2. Found \in Notes
    BY <1>1, LeftoverNoteIs DEF Found, TypeOK
  <2>3. /\ pc' = IF job.action = "restore" THEN "unpack" ELSE IF job.action = "update" THEN "capture"
                 ELSE IF job.action = "keep_update" THEN "keep_write"
                 ELSE IF Found.kind = "update" THEN "undo_stop" ELSE "back_stop"
    BY <1>3, <2>1 DEF FirstStep, Actions
  <2>4. pc' \in Steps
    BY <2>3 DEF Steps
  <2>5. BasicInv'
    BY <1>1, <1>3, <2>1, <2>2, <2>4, NoNoteIsANote DEF BasicInv, TypeOK, stable
  <2>6. CASE job.action \in {"restore", "update"}
    <3>1. note = NoNote /\ Leftovers = {} /\ (job.action = "update" => deploy.release = "r1")
      BY <1>1, <1>3, <2>6 DEF Refused, Blocking, TypeOK, Deployments, Releases
    <3>2. Clear("original")
      BY <1>1, <3>1 DEF RestInv, Leftovers, Present, Clear
    <3>3. ControlInv'
      BY <1>1, <1>3, <2>1, <2>3, <2>6, <3>1, <3>2 DEF ControlInv, Clear
    <3>4. RestoreInv' /\ BackInv' /\ UpdateInv' /\ UndoInv'
      BY <1>1, <2>3, <2>6, <3>1 DEF RestoreInv, BackInv, UpdateInv, UndoInv
    <3> QED BY <1>1, <2>5, <3>3, <3>4, NoteKept DEF Frame, stable, Same, IInv
  <2>7. CASE job.action = "keep_update"
    <3>1. Found.kind = "update" /\ Found.applied
      BY <1>3, <2>7 DEF Refused
    <3>2. Found = note
      BY <1>1, <3>1, LeftoverNoteIs DEF Found
    <3>3. ControlInv'
      BY <1>1, <1>3, <2>1, <2>3, <2>7, <3>1, <3>2 DEF ControlInv
    <3>4. RestoreInv' /\ BackInv' /\ UpdateInv' /\ UndoInv'
      BY <2>3, <2>7 DEF RestoreInv, BackInv, UpdateInv, UndoInv
    <3> QED BY <1>1, <2>5, <3>3, <3>4, NoteKept DEF Frame, stable, Same, IInv
  <2>8. CASE job.action = "recover"
    <3>1. note # NoNote \/ Leftovers # {}
      BY <1>3, <2>8 DEF Refused, Blocking
    <3>2. \/ note # NoNote /\ Found = note /\ note.kind \in {"restore", "update"}
             /\ (note.kind = "restore" => note.folders # {})
          \/ note = NoNote /\ Found.kind = "restore" /\ Found.folders # {}
             /\ Found.bundle = NoDeployment /\ Found.absent = {}
      BY <1>1, <3>1, LeftoverNoteIs DEF Found, NoteInv, RestoreNote
    <3>3. task' = Found
      BY <1>3, <2>8
    <3>4. ControlInv'
      BY <1>1, <2>1, <2>3, <2>8, <3>2, <3>3 DEF ControlInv
    <3>5. RestoreInv' /\ BackInv' /\ UpdateInv' /\ UndoInv'
      BY <2>3, <2>8, <3>2, <3>3 DEF RestoreInv, BackInv, UpdateInv, UndoInv
    <3> QED BY <1>1, <2>5, <3>4, <3>5, NoteKept DEF Frame, stable, Same, IInv
  <2> QED BY <2>1, <2>6, <2>7, <2>8 DEF Actions
<1> QED BY <1>2, <1>3 DEF Execute

------------------------------------------------------------------------------
(* The invariant of every behaviour, and what it gives.                      *)

\* The invariant holds at the start,
LEMMA InitHolds == Init => IInv
<1> SUFFICES ASSUME Init PROVE IInv
  OBVIOUS
<1>1. PICK kept \in (SUBSET (Folders \ added)) \ {{}} :
        disk = [p \in Places |-> [f \in Folders |->
                 IF p = "live" /\ f \in kept THEN "old" ELSE "none"]]
  BY DEF Init
<1>2. /\ added \in SUBSET Folders /\ added # Folders
      /\ deploy = [files |-> "r1", release |-> "r1"] /\ note = NoNote /\ task = NoNote
      /\ pc = "idle" /\ todo = {} /\ job.state = "failed"
  BY DEF Init
<1>3. /\ disk \in [Places -> [Folders -> Contents]]
      /\ \A f \in Folders : disk["original"][f] = "none" /\ disk["live"][f] \in {"old", "none"}
      /\ \E f \in Folders : disk["live"][f] # "none"
  <2>1. \A p \in Places, f \in Folders : IF p = "live" /\ f \in kept THEN "old" \in Contents ELSE "none" \in Contents
    BY DEF Contents
  <2>2. disk \in [Places -> [Folders -> Contents]]
    BY <1>1, <2>1
  <2>3. \A f \in Folders : disk["live"][f] = IF f \in kept THEN "old" ELSE "none"
    BY <1>1, PlacesAre
  <2>4. \A f \in Folders : disk["original"][f] = "none"
    BY <1>1, PlacesAre
  <2>5. PICK f \in kept : f \in Folders
    BY <1>1
  <2> QED BY <2>2, <2>3, <2>4, <2>5
<1>4. TypeOK
  <2>1. job \in Jobs /\ jobs \in 0..MaxJobs
    BY BoundAssumption DEF Init, Jobs, Actions, Backups
  <2>2. /\ bundles \in [Releases -> Deployments \union {NoDeployment}] /\ wanted \in BOOLEAN /\ app \in BOOLEAN
        /\ before.live \in [Folders -> Contents]
        /\ before.deploy \in Deployments \union {NoDeployment}
    BY DEF Init, NoData, Contents
  <2>3. deploy \in Deployments
    BY <1>2 DEF Deployments, Releases
  <2>4. pc \in Steps /\ todo \in SUBSET Folders
    BY <1>2 DEF Steps
  <2> QED BY <1>2, <1>3, <2>1, <2>2, <2>3, <2>4, NoNoteIsANote DEF TypeOK
<1>5. BasicInv
  BY <1>2, <1>4 DEF BasicInv, Init
<1>6. ControlInv
  BY <1>2 DEF ControlInv
<1>7. NoteInv
  BY <1>2 DEF NoteInv
<1>8. RestInv
  BY <1>2, <1>3 DEF RestInv, Full, SomeData
<1>9. RestoreInv /\ BackInv /\ UpdateInv /\ UndoInv
  BY <1>2 DEF RestoreInv, BackInv, UpdateInv, UndoInv
<1> QED BY <1>5, <1>6, <1>7, <1>8, <1>9 DEF IInv

\* every step keeps it,
LEMMA StepKeeps == IInv /\ [Next]_vars => IInv'
<1> SUFFICES ASSUME IInv, [Next]_vars PROVE IInv'
  OBVIOUS
<1>1. CASE Request \/ Crash \/ Execute
  BY <1>1, RequestKeeps, CrashKeeps, ExecuteKeeps
<1>2. CASE Restore
  BY <1>2, UnpackKeeps, NoteRestoreKeeps, StopForRestoreKeeps, SwapAsideKeeps, SwapInKeeps,
     SwitchReleaseKeeps, StartRestoredKeeps, ClearRestoredKeeps, HousekeepKeeps DEF Restore
<1>3. CASE PutBackSteps
  BY <1>3, BackStopKeeps, BackSwapKeeps, BackDeployKeeps, BackClearKeeps, BackStartKeeps
     DEF PutBackSteps
<1>4. CASE Update
  BY <1>4, CaptureKeeps, RenderKeeps, StopForUpdateKeeps, RevertKeeps, RevertStartKeeps, ApplyKeeps,
     WriteTargetKeeps, StartUpdatedKeeps, StopAgainKeeps, ClearUpdatedKeeps DEF Update
<1>5. CASE Undo
  BY <1>5, UndoStopKeeps, UndoDeployKeeps, UndoUnpackKeeps, UndoAsideKeeps, UndoInKeeps,
     UndoClearKeeps, UndoStartKeeps DEF Undo
<1>6. CASE Keep
  BY <1>6, WriteTargetKeeps, KeepStartKeeps DEF Keep
<1>7. CASE UNCHANGED vars
  <2> USE <1>7 DEF vars
  <2>1. BasicInv'
    BY DEF IInv, BasicInv, TypeOK
  <2>2. ControlInv'
    BY DEF IInv, ControlInv, Clear
  <2>3. NoteInv' /\ RestInv'
    BY NoteKept DEF IInv, Frame, Same
  <2>4. RestoreInv'
    BY DEF IInv, RestoreInv, Fits, Fitted, Layout, KeptBundle, Switches, Target, Holds, Uses,
       Turn, LiveAsBefore, Clear
  <2>5. BackInv' /\ UpdateInv' /\ UndoInv'
    BY DEF IInv, BackInv, UpdateInv, UndoInv, WasWhole, WholeOn, Uses, Snapshotted, LiveAsBefore,
       Clear
  <2> QED BY <2>1, <2>2, <2>3, <2>4, <2>5 DEF IInv
<1> QED BY <1>1, <1>2, <1>3, <1>4, <1>5, <1>6, <1>7 DEF Next

\* and so it holds always (IInv).
THEOREM Invariance == Spec => []IInv
<1> QED BY InitHolds, StepKeeps, PTL DEF Spec

\* While the note of a change is there, each folder that the app used is in
\* place, kept aside, or in the backup the update took (TypeOK beside it).
LEMMA RecoverableHolds == IInv => TypeOK /\ Recoverable
<1> SUFFICES ASSUME IInv PROVE TypeOK /\ Recoverable
  OBVIOUS
<1>1. ASSUME note # NoNote, NEW f \in Uses(before.deploy.files)
      PROVE  \/ disk["live"][f] = before.live[f]
             \/ note.kind = "restore" /\ f \in note.folders /\ disk["original"][f] = before.live[f]
             \/ note.applied /\ note.snapshot[f] = before.live[f]
  <2>1. NoteInv /\ f \in Folders
    BY <1>1 DEF IInv, Uses
  <2>2. CASE note.kind = "restore"
    BY <1>1, <2>1, <2>2 DEF NoteInv, RestoreNote
  <2>3. CASE note.kind = "update"
    BY <1>1, <2>1, <2>3 DEF NoteInv, UpdateNote, LiveAsBefore
  <2> QED BY <1>1, <2>1, <2>2, <2>3 DEF NoteInv
<1> QED BY <1>1 DEF Recoverable, IInv, BasicInv

\* The steps that take the note away.
LEMMA NoteGoes ==
  ASSUME IInv, Next, note # NoNote, note' = NoNote
  PROVE  ClearRestored \/ BackClear \/ Revert \/ ClearUpdated \/ UndoClear
<1>1. CASE Request \/ Crash \/ Execute
  BY <1>1 DEF Request, Crash, Execute
<1>2. CASE Restore
  <2>1. CASE NoteRestore
    BY <2>1 DEF NoteRestore, IInv, ControlInv
  <2> QED BY <1>2, <2>1 DEF Restore, Unpack, StopForRestore, SwapAside, SwapIn, SwitchRelease,
             StartRestored, Housekeep
<1>3. CASE PutBackSteps
  BY <1>3 DEF PutBackSteps, BackStop, BackSwap, BackDeploy, BackStart
<1>4. CASE Update
  <2>1. CASE Capture
    BY <2>1 DEF Capture, IInv, ControlInv
  <2>2. CASE Apply
    <3>1. note \in Notes
      BY DEF IInv, BasicInv, TypeOK
    <3>2. note'.applied
      BY <2>2, <3>1 DEF Apply, Notes
    <3> QED BY <3>2 DEF NoNote
  <2> QED BY <1>4, <2>1, <2>2 DEF Update, Render, StopForUpdate, RevertStart, WriteTarget,
             StartUpdated, StopAgain
<1>5. CASE Undo
  BY <1>5 DEF Undo, UndoStop, UndoDeploy, UndoUnpack, UndoAside, UndoIn, UndoStart
<1>6. CASE Keep
  BY <1>6 DEF Keep, KeepWrite, KeepStart
<1> QED BY <1>1, <1>2, <1>3, <1>4, <1>5, <1>6 DEF Next

\* Putting back takes the note away only when all is as it was.
LEMMA PutBackHolds ==
  ASSUME IInv, Next, note # NoNote, note' = NoNote,
         pc \in {"back_clear", "revert", "revert_stopped", "undo_clear"}
  PROVE  IsAsBefore'
<1>1. NoteInv /\ BackInv /\ UndoInv /\ ControlInv /\ TypeOK
  BY DEF IInv, BasicInv
<1>2. before' = before /\ added' = added
  BY NoteGoes DEF ClearRestored, BackClear, Revert, ClearUpdated, UndoClear, stable
<1>3. DiskType
  BY <1>1 DEF TypeOK, DiskType
<1> SUFFICES /\ deploy' = before.deploy
             /\ \A f \in Uses(before.deploy.files) : disk'["live"][f] = before.live[f]
  BY <1>2 DEF IsAsBefore, Uses
<1>4. CASE BackClear
  <2>1. Same("live") /\ deploy' = deploy
    BY <1>3, <1>4, WipedIs, PlacesAre DEF BackClear, Same
  <2> QED BY <1>1, <1>4, <2>1 DEF BackClear, BackInv, LiveAsBefore, Same, Uses
<1>5. CASE Revert
  <2>1. task = note /\ note.kind = "update" /\ ~note.applied
    BY <1>1, <1>5 DEF ControlInv, Revert
  <2>2. deploy' = task.bundle /\ disk' = disk
    BY <1>5 DEF Revert
  <2> QED BY <1>1, <2>1, <2>2 DEF NoteInv, UpdateNote, LiveAsBefore, Uses
<1>6. CASE UndoClear
  <2>1. Same("live") /\ deploy' = deploy
    BY <1>3, <1>6, WipedIs, PlacesAre DEF UndoClear, Same
  <2>2. UndoNote /\ deploy = before.deploy
    BY <1>1, <1>6, UndoHasItsNote DEF UndoClear, UndoInv
  <2>3. \A f \in Uses(before.deploy.files) : disk["live"][f] = before.live[f]
    BY <1>1, <1>6, <2>2 DEF UndoClear, UndoInv, UndoNote, UpdateNote, LiveAsBefore, Snapshotted,
       Uses
  <2> QED BY <2>1, <2>2, <2>3 DEF Same
<1> QED BY <1>4, <1>5, <1>6, NoteGoes DEF ClearRestored, ClearUpdated

\* A step that leaves the live folders and the deployment keeps the app whole.
LEMMA StaysWhole ==
  ASSUME Whole, Same("live"), deploy' = deploy, added' = added
  PROVE  Whole'
BY DEF Whole, WholeOn, Uses, Same

\* The places whose job has a note.
NotedPlaces ==
  {"stop", "aside", "in", "switch", "start", "clear"} \union AppliedPlaces
    \union {"render", "revert", "revert_stopped", "up_stop", "apply"} \union UndoPlaces

\* What a job does to an app outside of any note does not break it.
LEMMA DamageHolds ==
  ASSUME IInv, Next, Whole, note' = NoNote, ~(task # NoNote /\ task.bundle = NoDeployment)
  PROVE  Whole'
<1>1. ControlInv /\ RestInv /\ NoteInv /\ BackInv /\ UpdateInv /\ UndoInv /\ TypeOK /\ DiskType
  BY DEF IInv, BasicInv, TypeOK, DiskType
<1>2. CASE Same("live") /\ deploy' = deploy /\ added' = added
  BY <1>2, StaysWhole
<1>3. CASE Revert
  <2>1. /\ task = note /\ note # NoNote /\ UpdateNote /\ note.bundle = before.deploy /\ LiveAsBefore
        /\ deploy.release = "r1" /\ before.deploy.release = "r1"
        /\ deploy.files \in {before.deploy.files, "r2"}
    BY <1>1, <1>3 DEF ControlInv, Revert, NoteInv, UpdateInv, UpdateNote, NoNote
  <2>2. deploy' = before.deploy /\ disk' = disk /\ added' = added
    BY <1>3, <2>1 DEF Revert, stable
  <2>3. Uses(deploy.files) \subseteq Folders
    BY DEF Uses
  <2> QED BY <1>1, <1>3, <2>1, <2>2, <2>3 DEF Whole, WholeOn, Uses
<1>4. CASE RevertStart \/ UndoStart
  <2>1. deploy.release = "r1"
    BY <1>1, <1>4 DEF RevertStart, UndoStart, UpdateInv, UndoInv
  <2>2. CASE StartHealthy \/ StartUnhealthy
    <3>1. \A f \in Folders : disk'["live"][f] = disk["live"][f]
      BY <1>1, <2>1, <2>2, StartIs
    <3>2. disk' \in [Places -> [Folders -> Contents]]
      BY <1>1, <2>2, StartIs
    <3>3. disk'["live"] = disk["live"]
      BY <1>1, <3>1, <3>2, PlacesAre DEF DiskType
    <3> QED BY <1>2, <1>4, <3>3 DEF Same, RevertStart, UndoStart, stable
  <2> QED BY <1>2, <1>4, <2>2 DEF Same, RevertStart, UndoStart, stable
<1>5. CASE BackStart
  <2>1. Clear("original") /\ note = NoNote
    BY <1>1, <1>5 DEF BackInv, ControlInv, BackStart, NoNote
  <2>2. deploy' = deploy /\ added' = added
    BY <1>5 DEF BackStart, stable
  <2>3. CASE UNCHANGED <<app, disk>>
    BY <1>2, <2>2, <2>3 DEF Same
  <2>4. CASE StartHealthy \/ StartUnhealthy
    <3>1. \A g \in Folders :
            \/ disk'["live"][g] = disk["live"][g]
            \/ /\ disk'["live"][g] = "new" /\ g \in Stale(deploy.release) /\ deploy.release = "r2"
      BY <1>1, <2>4, StartIs
    <3>2. PICK c \in Contents \ {"none"} :
            ReleaseOf(c) = deploy.release /\ \A f \in Uses(deploy.files) : disk["live"][f] \in {c, "none"}
      BY DEF Whole, WholeOn
    <3>3. Uses(deploy.files) \subseteq Folders /\ Uses(deploy.files)' = Uses(deploy.files)
      BY <2>2 DEF Uses
    <3>4. CASE \A f \in Uses(deploy.files) : disk'["live"][f] = disk["live"][f]
      BY <2>2, <3>2, <3>3, <3>4 DEF Whole, WholeOn
    <3>5. ASSUME NEW g \in Uses(deploy.files), disk'["live"][g] # disk["live"][g]
          PROVE  Whole'
      <4>1. disk["live"][g] = "none" /\ g \in added /\ deploy.release = "r2"
        BY <3>1, <3>2, <3>3, <3>5 DEF Stale, ReleaseOf
      <4>2. \A f \in Folders : disk["live"][f] # "b2"
        BY <1>1, <2>1, <3>3, <4>1 DEF RestInv, Full, Clear
      <4>3. \A f \in Uses(deploy.files) : disk["live"][f] \in {"new", "none"}
        BY <3>2, <3>3, <4>1, <4>2 DEF ReleaseOf, Contents, Backups
      <4>4. \A f \in Uses(deploy.files) : disk'["live"][f] \in {"new", "none"}
        BY <3>1, <3>3, <4>3
      <4>5. "new" \in Contents \ {"none"} /\ ReleaseOf("new") = "r2"
        BY DEF Contents, ReleaseOf
      <4> QED BY <2>2, <3>3, <4>1, <4>4, <4>5 DEF Whole, WholeOn
    <3> QED BY <3>4, <3>5
  <2> QED BY <1>5, <2>3, <2>4 DEF BackStart
<1>6. CASE note' = note /\ pc \in NotedPlaces
  BY <1>1, <1>6 DEF ControlInv, NotedPlaces, NoNote
<1>7. CASE Request \/ Crash \/ Execute
  BY <1>2, <1>7 DEF Request, Crash, Execute, stable, Same
<1>8. CASE Restore
  <2>1. CASE Unpack
    <3>1. Backup \in [Folders -> Contents]
      BY <1>1 DEF Backup, TypeOK, Jobs, Contents
    <3>2. Same("live")
      <4>1. CASE \E kept : disk' = Unpacked(Wiped({"discard"}, Holds(job.backup), kept), Holds(job.backup), Backup)
        <5>1. PICK kept : disk' = Unpacked(Wiped({"discard"}, Holds(job.backup), kept), Holds(job.backup), Backup)
          BY <4>1
        <5> QED BY <1>1, <3>1, <5>1, WipedIs, UnpackedIs, PlacesAre DEF Same
      <4>2. CASE \E some : disk' = Unpacked(disk, some, Backup)
        BY <1>1, <3>1, <4>2, UnpackedIs, PlacesAre DEF Same, DiskType
      <4> QED BY <2>1, <4>1, <4>2 DEF Unpack
    <3> QED BY <1>2, <2>1, <3>2 DEF Unpack, stable
  <2>2. CASE NoteRestore
    <3>1. NoNote \in Notes
      BY NoNoteIsANote
    <3>2. note'.kind = "restore"
      BY <2>2, <3>1 DEF NoteRestore, Begin, Notes
    <3> QED BY <3>2 DEF NoNote
  <2>3. CASE ClearRestored
    BY <1>2, <2>3 DEF ClearRestored, stable, Same
  <2>4. CASE Housekeep
    <3>1. Same("live")
      BY <1>1, <2>4, WipedIs, PlacesAre DEF Housekeep, Same
    <3> QED BY <1>2, <2>4, <3>1 DEF Housekeep, stable
  <2> QED BY <1>6, <1>8, <2>1, <2>2, <2>3, <2>4
      DEF Restore, StopForRestore, SwapAside, SwapIn, SwitchRelease, StartRestored, NotedPlaces
<1>9. CASE PutBackSteps
  <2>1. CASE BackClear
    <3>1. Same("live")
      BY <1>1, <2>1, WipedIs, PlacesAre DEF BackClear, Same
    <3> QED BY <1>2, <2>1, <3>1 DEF BackClear, stable
  <2>2. CASE BackStop \/ BackSwap \/ BackDeploy
    <3>1. note' = note /\ pc \in BackPlaces
      BY <2>2 DEF BackStop, BackSwap, BackDeploy
    <3> QED BY <1>1, <3>1 DEF ControlInv, NoNote
  <2> QED BY <1>5, <1>9, <2>1, <2>2 DEF PutBackSteps
<1>10. CASE Update
  <2>1. CASE Capture
    <3>1. CASE UNCHANGED <<stable, disk, deploy>>
      BY <1>2, <3>1 DEF stable, Same
    <3>2. CASE Begin([NoNote EXCEPT !.kind = "update", !.bundle = deploy, !.wasRunning = wanted], "render")
      <4>1. NoNote \in Notes
        BY NoNoteIsANote
      <4>2. note'.kind = "update"
        BY <3>2, <4>1 DEF Begin, Notes
      <4> QED BY <4>2 DEF NoNote
    <3> QED BY <2>1, <3>1, <3>2 DEF Capture
  <2>2. CASE Apply
    <3>1. note'.applied
      BY <1>1, <2>2 DEF Apply, TypeOK, Notes
    <3> QED BY <3>1 DEF NoNote
  <2>3. CASE ClearUpdated
    BY <1>2, <2>3 DEF ClearUpdated, stable, Same
  <2> QED BY <1>3, <1>4, <1>6, <1>10, <2>1, <2>2, <2>3
      DEF Update, Render, StopForUpdate, WriteTarget, StartUpdated, StopAgain, NotedPlaces
<1>11. CASE Undo
  <2>1. CASE UndoClear
    <3>1. Same("live")
      BY <1>1, <2>1, WipedIs, PlacesAre DEF UndoClear, Same
    <3> QED BY <1>2, <2>1, <3>1 DEF UndoClear, stable
  <2> QED BY <1>4, <1>6, <1>11, <2>1
      DEF Undo, UndoStop, UndoDeploy, UndoUnpack, UndoAside, UndoIn, NotedPlaces
<1>12. CASE Keep
  BY <1>6, <1>12 DEF Keep, KeepWrite, KeepStart, NotedPlaces
<1> QED BY <1>7, <1>8, <1>9, <1>10, <1>11, <1>12 DEF Next

\* The last steps of a restore and of an update that succeed.
LEMMA Succeeds ==
  ASSUME IInv, Next, job.state = "running", job'.state = "succeeded",
         job.action \in {"restore", "update"}
  PROVE  Housekeep \/ (ClearUpdated /\ pc \in {"up_clear", "keep_clear"})
<1>1. job \in Jobs /\ ControlInv
  BY DEF IInv, BasicInv, TypeOK
<1>2. job' # job /\ job' # [job EXCEPT !.state = "failed"]
  BY <1>1 DEF Jobs
<1>3. CASE Request \/ Crash \/ Execute
  BY <1>1, <1>3 DEF Request, Crash, Execute, Active, Jobs
<1>4. CASE Restore
  BY <1>2, <1>4 DEF Restore, Unpack, NoteRestore, Begin, StopForRestore, SwapAside, SwapIn,
     SwitchRelease,
     StartRestored, ClearRestored, EndJob, Goto, Loop, NextTurn
<1>5. CASE PutBackSteps
  BY <1>2, <1>5 DEF PutBackSteps, BackStop, BackSwap, BackDeploy, BackClear, BackStart, GiveUp,
     PutBack,
     EndJob, Goto, Loop, NextTurn
<1>6. CASE Update
  BY <1>2, <1>6 DEF Update, Capture, Begin, Render, StopForUpdate, Revert, RevertStart, Apply,
     WriteTarget,
     StartUpdated, StopAgain, ClearUpdated, EndJob, Goto
<1>7. CASE Undo
  BY <1>2, <1>7 DEF Undo, UndoStop, UndoDeploy, UndoUnpack, UndoAside, UndoIn, UndoClear,
     UndoStart, GiveUp,
     PutBack, EndJob, Goto, Loop, NextTurn
<1>8. CASE Keep
  BY <1>2, <1>8 DEF Keep, KeepWrite, KeepStart, GiveUp, EndJob, Goto
<1> QED BY <1>3, <1>4, <1>5, <1>6, <1>7, <1>8 DEF Next

\* A restore ends with the backup's data and release, all of it.
LEMMA RestoredIsWhole ==
  ASSUME IInv, Housekeep
  PROVE  Whole' /\ \A f \in Holds(job.backup) : disk'["live"][f] = job.backup
<1>1. /\ Fitted /\ task.folders = Holds(job.backup) /\ job.backup \in Backups
      /\ \A f \in Holds(job.backup) : disk["live"][f] = job.backup
  BY DEF IInv, BasicInv, TypeOK, Jobs, RestoreInv, Housekeep
<1>2. DiskType
  BY DEF IInv, BasicInv, TypeOK, DiskType
<1>3. Same("live") /\ deploy' = deploy /\ added' = added
  BY <1>2, WipedIs, PlacesAre DEF Housekeep, Same, stable
<1>4. Whole
  <2>1. job.backup \in Contents \ {"none"}
    BY <1>1 DEF Contents, Backups
  <2> QED BY <1>1, <2>1 DEF Whole, WholeOn, Fitted, Target
<1> QED BY <1>1, <1>3, <1>4, StaysWhole DEF Same

\* A job that is marked successful leaves the app whole.
LEMMA SuccessHolds ==
  ASSUME IInv, Next, job.state = "running", job'.state = "succeeded",
         WholeOn(before.live, before.deploy.release, Uses(before.deploy.files))
  PROVE  /\ job.action = "restore" =>
              Whole' /\ \A f \in Holds(job.backup) : disk'["live"][f] = job.backup
         /\ job.action = "update" => WholeOn(disk'["live"], "r2", Uses(before.deploy.files))
<1>1. ASSUME job.action = "restore"
      PROVE  Whole' /\ \A f \in Holds(job.backup) : disk'["live"][f] = job.backup
  <2>1. ~ClearUpdated
    BY <1>1 DEF ClearUpdated, IInv, ControlInv
  <2> QED BY <1>1, <2>1, Succeeds, RestoredIsWhole
<1>2. ASSUME job.action = "update"
      PROVE  WholeOn(disk'["live"], "r2", Uses(before.deploy.files))
  <2>1. ClearUpdated /\ pc = "up_clear"
    BY <1>2, Succeeds DEF IInv, ControlInv, Housekeep
  <2>2. \A f \in Uses(before.deploy.files) : disk["live"][f] \in {"new", "none"}
    BY <2>1 DEF IInv, UpdateInv, WasWhole
  <2>3. "new" \in Contents \ {"none"} /\ ReleaseOf("new") = "r2" /\ disk' = disk
    BY <2>1 DEF Contents, ReleaseOf, ClearUpdated
  <2> QED BY <2>2, <2>3 DEF WholeOn
<1> QED BY <1>1, <1>2

\* The variables keep their types, whatever the jobs do (TypeOK).
THEOREM ChangeTypeCorrect == Spec => []TypeOK
<1>1. IInv => TypeOK
  BY RecoverableHolds
<1> QED BY <1>1, Invariance, PTL

\* While the note of a change is there the data from before it is whole, and
\* nothing breaks an app without a note (ChangesCanBeUndone), however often
\* the worker dies and whatever job comes next.
THEOREM NothingIsLost == Spec => ChangesCanBeUndone
<1>1. IInv => TypeOK /\ Recoverable
  BY RecoverableHolds
<1>2. IInv /\ [Next]_vars =>
        [Whole /\ ~Whole' => note' # NoNote \/ (task # NoNote /\ task.bundle = NoDeployment)]_vars
  BY DamageHolds
<1> QED BY <1>1, <1>2, Invariance, PTL DEF Spec, ChangesCanBeUndone, DamageIsNoted

\* The note of a change that is put back goes only with data and deployment
\* exactly as they were (PutBackIsExact).
THEOREM PutBackIsComplete == Spec => PutBackIsExact
<1>1. IInv /\ [Next]_vars =>
        [note # NoNote /\ note' = NoNote /\ pc \in {"back_clear", "revert", "revert_stopped", "undo_clear"}
           => IsAsBefore']_vars
  BY PutBackHolds
<1> QED BY <1>1, Invariance, PTL DEF Spec, PutBackIsExact

\* A restore or an update of a whole app that succeeds leaves a whole app, with
\* the data and the release that were asked for (SuccessIsWhole).
THEOREM SuccessLeavesItWhole == Spec => SuccessIsWhole
<1>1. IInv /\ [Next]_vars =>
        [LET was == Uses(before.deploy.files)
         IN  /\ job.state = "running" /\ job'.state = "succeeded"
             /\ WholeOn(before.live, before.deploy.release, was)
             => /\ job.action = "restore" =>
                     Whole' /\ \A f \in Holds(job.backup) : disk'["live"][f] = job.backup
                /\ job.action = "update" => WholeOn(disk'["live"], "r2", was)]_vars
  BY SuccessHolds
<1> QED BY <1>1, Invariance, PTL DEF Spec, SuccessIsWhole
==============================================================================
