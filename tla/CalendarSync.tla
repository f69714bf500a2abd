---------------------------- MODULE CalendarSync ----------------------------
(***************************************************************************)
(* One person's calendar (src/ctl/local_calendar.py): events kept by       *)
(* Mu3Lab while Nextcloud is not connected, copied in when it is           *)
(* disconnected and sent back, with conditional requests, once it is       *)
(* connected again.                                                        *)
(*                                                                         *)
(* The text of an event is a version number, drawn from a counter whenever *)
(* a person writes or edits it, here or in Nextcloud.  Nextcloud's ETag of *)
(* a file is the version it holds: it changes with the content and with    *)
(* nothing else.  A file is named after its event, so a calendar holds at  *)
(* most one version of an event.                                           *)
(*                                                                         *)
(* Every operation on the local store runs under the owner's lock (op is   *)
(* not Idle while one that sends requests holds it).  Nextcloud's clients, *)
(* the connected-mode handlers of nextcloud_calendar.py among them, and    *)
(* the first half of a disconnection do not take that lock.  Answers get   *)
(* lost, requests are refused, and the process may die between two         *)
(* requests; what a sync learnt is saved once, at its end.                 *)
(***************************************************************************)
EXTENDS Integers

CONSTANTS
  Events,       \* events, by UID
  Calendars,    \* the owner's calendars in Nextcloud
  Default,      \* the calendar a new connection selects
  NoCalendar,   \* no connection
  NoEvent,      \* no event is being resolved or checked
  MaxVersions,  \* bound on versions written
  MaxFaults     \* bound on crashes, lost answers and refused requests

ASSUME ConstantsAssumption ==
  /\ Default \in Calendars
  /\ NoCalendar \notin Calendars
  /\ NoEvent \notin Events
  /\ MaxVersions \in Nat
  /\ MaxFaults \in Nat

VARIABLES
  local,      \* the stored events: [Events -> Records]
  deleted,    \* the stored tombstones
  remote,     \* what Nextcloud holds: [Calendars -> [Events -> Versions]]
  connected,  \* the selected calendar, or NoCalendar
  op,         \* the operation that holds the owner's lock
  leaving,    \* a disconnection: its step and what it exported
  used,       \* versions drawn so far
  born,       \* events that were ever written
  faults,     \* faults so far
  current     \* history: versions nobody replaced, deleted or gave up

vars == <<local, deleted, remote, connected, op, leaving, used, born, faults,
          current>>

Versions == 0 .. MaxVersions
Nothing == 0   \* no file, no version, no ETag

Conflicts == {"changed_in_nextcloud", "deleted_in_nextcloud", "upload_unconfirmed"}

Records ==
  [version : Versions, from_nextcloud : BOOLEAN, modified : BOOLEAN,
   etag : Versions, conflict : Conflicts \union {""}]

NoRecord == [version |-> Nothing, from_nextcloud |-> FALSE, modified |-> FALSE,
             etag |-> Nothing, conflict |-> ""]

Tombstones == [event : Events, etag : Versions]

(* A new event of Mu3Lab, and a copy of what Nextcloud holds. *)
NewRecord(v) == [NoRecord EXCEPT !.version = v]

Copy(v, etag) ==
  [NoRecord EXCEPT !.version = v, !.from_nextcloud = TRUE, !.etag = etag]

Kept(bucket, u) == bucket[u].version # Nothing

(* An event that came from Nextcloud and was edited here. *)
EditedCopy_Never(r) == FALSE   \* mutant: nobody looks
EditedCopy(r) == r.from_nextcloud /\ r.modified

(* The operation that holds the lock: a sync works through tombs and then  *)
(* through pending on its own bucket (events, deleted) and stores it at    *)
(* its end; a resolution replaces the version it has seen of target.       *)
Operations ==
  [kind : {"idle", "sync", "resolve"}, calendar : Calendars \union {NoCalendar},
   events : [Events -> Records], deleted : SUBSET Tombstones,
   tombs : SUBSET Tombstones, pending : SUBSET Events,
   target : Events \union {NoEvent}, seen : Versions]

Idle ==
  [kind |-> "idle", calendar |-> NoCalendar, events |-> [u \in Events |-> NoRecord],
   deleted |-> {}, tombs |-> {}, pending |-> {}, target |-> NoEvent, seen |-> Nothing]

Free == op.kind = "idle"

NoExport == [u \in Events |-> Nothing]
Departures == [step : {"", "copy", "forget"}, export : [Events -> Versions]]
Stay == [step |-> "", export |-> NoExport]

TypeOK ==
  /\ local \in [Events -> Records]
  /\ deleted \subseteq Tombstones
  /\ remote \in [Calendars -> [Events -> Versions]]
  /\ connected \in Calendars \union {NoCalendar}
  /\ op \in Operations
  /\ leaving \in Departures
  /\ used \in Versions
  /\ born \subseteq Events
  /\ faults \in 0 .. MaxFaults
  /\ current \subseteq Versions

Init ==
  /\ local = [u \in Events |-> NoRecord]
  /\ deleted = {}
  /\ remote = [c \in Calendars |-> NoExport]
  /\ connected = NoCalendar
  /\ op = Idle
  /\ leaving = Stay
  /\ used = Nothing
  /\ born = {}
  /\ faults = 0
  /\ current = {}

Fault == faults < MaxFaults /\ faults' = faults + 1

-----------------------------------------------------------------------------
(* What people write.  A new text is a new version; the one it was written *)
(* over is no longer current.                                              *)

Write(old) ==
  /\ used < MaxVersions
  /\ used' = used + 1
  /\ current' = (current \ {old}) \union {used + 1}

(* A new event gets a random UID: it is nowhere yet. *)
Fresh(u) ==
  /\ u \notin born
  /\ ~Kept(local, u)
  /\ \A c \in Calendars : remote[c][u] = Nothing

(* A new event, from the dashboard or from chat.  The route reads whether  *)
(* Nextcloud is connected before it calls, so it may be by now.            *)
Create(u) ==
  /\ Free
  /\ Fresh(u)
  /\ Write(Nothing)
  /\ local' = [local EXCEPT ![u] = NewRecord(used + 1)]
  /\ born' = born \union {u}
  /\ UNCHANGED <<deleted, remote, connected, op, leaving, faults>>

Edited(r, v) == [r EXCEPT !.version = v, !.modified = TRUE]

Update(u) ==
  /\ Free
  /\ Kept(local, u)
  /\ Write(local[u].version)
  /\ local' = [local EXCEPT ![u] = Edited(local[u], used + 1)]
  /\ UNCHANGED <<deleted, remote, connected, op, leaving, born, faults>>

(* A deletion is remembered for Nextcloud unless it never came from there  *)
(* or is known to be gone.                                                 *)
Buried(u) ==
  IF local[u].from_nextcloud /\ local[u].conflict # "deleted_in_nextcloud"
  THEN {[event |-> u, etag |-> local[u].etag]}
  ELSE {}

Delete(u) ==
  /\ Free
  /\ Kept(local, u)
  /\ deleted' = deleted \union Buried(u)
  /\ local' = [local EXCEPT ![u] = NoRecord]
  /\ current' = current \ {local[u].version}
  /\ UNCHANGED <<remote, connected, op, leaving, used, born, faults>>

(* Nextcloud's side, whoever the client is: conditional requests make one  *)
(* edit replace the version its author saw.                                *)
RemoteCreate(c, u) ==
  /\ Fresh(u)
  /\ Write(Nothing)
  /\ remote' = [remote EXCEPT ![c][u] = used + 1]
  /\ born' = born \union {u}
  /\ UNCHANGED <<local, deleted, connected, op, leaving, faults>>

RemoteUpdate(c, u) ==
  /\ remote[c][u] # Nothing
  /\ Write(remote[c][u])
  /\ remote' = [remote EXCEPT ![c][u] = used + 1]
  /\ UNCHANGED <<local, deleted, connected, op, leaving, born, faults>>

RemoteDelete(c, u) ==
  /\ remote[c][u] # Nothing
  /\ remote' = [remote EXCEPT ![c][u] = Nothing]
  /\ current' = current \ {remote[c][u]}
  /\ UNCHANGED <<local, deleted, connected, op, leaving, used, born, faults>>

-----------------------------------------------------------------------------
(* Connecting and disconnecting.                                           *)

Connect ==
  /\ connected = NoCalendar
  /\ leaving = Stay
  /\ connected' = Default
  /\ UNCHANGED <<local, deleted, remote, op, leaving, used, born, faults, current>>

Select(c) ==
  /\ connected # NoCalendar
  /\ connected' = c
  /\ UNCHANGED <<local, deleted, remote, op, leaving, used, born, faults, current>>

(* The calendar is read before the lock is taken. *)
Export ==
  /\ connected # NoCalendar
  /\ leaving = Stay
  /\ leaving' = [step |-> "copy", export |-> remote[connected]]
  /\ UNCHANGED <<local, deleted, remote, connected, op, used, born, faults, current>>

(* Nextcloud is away: the disconnection goes on with a warning. *)
ExportFails ==
  /\ connected # NoCalendar
  /\ leaving = Stay
  /\ Fault
  /\ leaving' = [Stay EXCEPT !.step = "forget"]
  /\ UNCHANGED <<local, deleted, remote, connected, op, used, born, current>>

(* Events already held locally win; those of bare came without an ETag. *)
Imported(u, bare) ==
  IF leaving.export[u] # Nothing /\ ~Kept(local, u)
  THEN Copy(leaving.export[u], IF u \in bare THEN Nothing ELSE leaving.export[u])
  ELSE local[u]

Import ==
  /\ leaving.step = "copy"
  /\ Free
  /\ \E bare \in SUBSET Events : local' = [u \in Events |-> Imported(u, bare)]
  /\ leaving' = [Stay EXCEPT !.step = "forget"]
  /\ UNCHANGED <<deleted, remote, connected, op, used, born, faults, current>>

Forget ==
  /\ leaving.step = "forget"
  /\ connected' = NoCalendar
  /\ leaving' = Stay
  /\ UNCHANGED <<local, deleted, remote, op, used, born, faults, current>>

-----------------------------------------------------------------------------
(* A sync.                                                                 *)

(* What a sync can send: what does not wait for the person. *)
Sendable_All(bucket) == {u \in Events : Kept(bucket, u)}   \* mutant: conflicts too
Sendable(bucket) == {u \in Events : Kept(bucket, u) /\ bucket[u].conflict = ""}

StartSync ==
  /\ Free
  /\ connected # NoCalendar
  /\ deleted # {} \/ \E u \in Events : Kept(local, u)
  /\ op' = [Idle EXCEPT !.kind = "sync", !.calendar = connected,
              !.events = local, !.deleted = deleted, !.tombs = deleted,
              !.pending = Sendable(local)]
  /\ UNCHANGED <<local, deleted, remote, connected, leaving, used, born, faults,
                 current>>

(* The sync stores its bucket and ends: at its end, or where it fails. *)
Save ==
  /\ local' = op.events
  /\ deleted' = op.deleted
  /\ op' = Idle

Syncing == op.kind = "sync"
Sending == Syncing /\ op.tombs = {} /\ op.target = NoEvent

EndSync ==
  /\ Sending
  /\ op.pending = {}
  /\ Save
  /\ UNCHANGED <<remote, connected, leaving, used, born, faults, current>>

(* What the calendar of the operation holds of u, and what it holds once a *)
(* request is carried out.                                                 *)
There(u) == remote[op.calendar][u]
Put(u, v) == remote' = [remote EXCEPT ![op.calendar][u] = v]

(* The answer arrives and the sync goes on with next, or it is lost after  *)
(* the request was carried out and the sync ends without it.               *)
Answered(next) ==
  \/ /\ op' = next
     /\ UNCHANGED <<local, deleted, faults>>
  \/ Fault /\ Save

(* Tombstones without a version prove nothing: they are kept and reported. *)
SkipTombstone(t) ==
  /\ Syncing
  /\ t \in op.tombs
  /\ t.etag = Nothing
  /\ op' = [op EXCEPT !.tombs = @ \ {t}]
  /\ UNCHANGED <<local, deleted, remote, connected, leaving, used, born, faults,
                 current>>

(* DELETE with If-Match.  Deleted, gone already or changed since: the      *)
(* tombstone has done its work.                                            *)
SendTombstone(t) ==
  /\ Syncing
  /\ t \in op.tombs
  /\ t.etag # Nothing
  /\ IF There(t.event) = t.etag
     THEN Put(t.event, Nothing)
     ELSE UNCHANGED remote
  /\ Answered([op EXCEPT !.tombs = @ \ {t}, !.deleted = @ \ {t}])
  /\ UNCHANGED <<connected, leaving, used, born, current>>

Done(u) == [op EXCEPT !.pending = @ \ {u}, !.events[u] = NoRecord]

Conflicted(u, kind) ==
  [op EXCEPT !.pending = @ \ {u}, !.events[u].conflict = kind]

(* An edit whose version is unknown is left to the person. *)
SkipEdit(u) ==
  /\ Sending
  /\ u \in op.pending
  /\ EditedCopy(op.events[u]) /\ op.events[u].etag = Nothing
  /\ op' = Conflicted(u, "changed_in_nextcloud")
  /\ UNCHANGED <<local, deleted, remote, connected, leaving, used, born, faults,
                 current>>

(* PUT with If-Match on the version the copy was made from.  A server may  *)
(* answer a failed condition on a missing file with 404 or with 412.       *)
SendEdit(u) ==
  /\ Sending
  /\ u \in op.pending
  /\ EditedCopy(op.events[u]) /\ op.events[u].etag # Nothing
  /\ \/ /\ There(u) = op.events[u].etag
        /\ Put(u, op.events[u].version)
        /\ Answered(Done(u))
     \/ /\ There(u) # op.events[u].etag
        /\ Answered(Conflicted(u, "changed_in_nextcloud"))
        /\ UNCHANGED remote
     \/ /\ There(u) = Nothing
        /\ Answered(Conflicted(u, "deleted_in_nextcloud"))
        /\ UNCHANGED remote
  /\ UNCHANGED <<connected, leaving, used, born, current>>

(* PUT with If-None-Match: new events and untouched copies.  When the file *)
(* is there, Nextcloud's version of an untouched copy is the real one, and *)
(* a new event is compared first.                                          *)
SendNew(u) ==
  /\ Sending
  /\ u \in op.pending
  /\ ~EditedCopy(op.events[u])
  /\ \/ /\ There(u) = Nothing
        /\ Put(u, op.events[u].version)
        /\ Answered(Done(u))
     \/ /\ There(u) # Nothing
        /\ Answered(IF op.events[u].from_nextcloud
                    THEN Done(u)
                    ELSE [op EXCEPT !.target = u])
        /\ UNCHANGED remote
  /\ UNCHANGED <<connected, leaving, used, born, current>>

(* GET the file that was there.  Gone again, or an answer that is no file: *)
(* the event waits for the next sync.                                      *)
Compare(u) ==
  /\ Syncing
  /\ op.target = u
  /\ \/ /\ There(u) = Nothing
        /\ Answered([op EXCEPT !.target = NoEvent, !.pending = @ \ {u}])
     \/ /\ Fault
        /\ op' = [op EXCEPT !.target = NoEvent, !.pending = @ \ {u}]
        /\ UNCHANGED <<local, deleted>>
     \/ /\ There(u) = op.events[u].version
        /\ Answered([Done(u) EXCEPT !.target = NoEvent])
     \/ /\ There(u) \notin {Nothing, op.events[u].version}
        /\ Answered([Conflicted(u, "upload_unconfirmed") EXCEPT
                       !.target = NoEvent, !.events[u].etag = There(u)])
  /\ UNCHANGED <<remote, connected, leaving, used, born, current>>

(* A request is refused or does not arrive. *)
SyncFails ==
  /\ Syncing
  /\ op.tombs # {} \/ op.pending # {}
  /\ Fault
  /\ Save
  /\ UNCHANGED <<remote, connected, leaving, used, born, current>>

-----------------------------------------------------------------------------
(* The person settles a conflict.                                          *)

KeepServer(u) ==
  /\ Free
  /\ local[u].conflict # ""
  /\ local' = [local EXCEPT ![u] = NoRecord]
  /\ current' = current \ {local[u].version}
  /\ UNCHANGED <<deleted, remote, connected, op, leaving, used, born, faults>>

(* GET what it replaces. *)
KeepMine(u) ==
  /\ Free
  /\ connected # NoCalendar
  /\ local[u].conflict # ""
  /\ op' = [Idle EXCEPT !.kind = "resolve", !.calendar = connected,
              !.target = u, !.seen = remote[connected][u]]
  /\ UNCHANGED <<local, deleted, remote, connected, leaving, used, born, faults,
                 current>>

Resolving(u) == op.kind = "resolve" /\ op.target = u

(* PUT on what was seen; the answer may be lost. *)
Replace(u) ==
  /\ Resolving(u)
  /\ There(u) = op.seen
  /\ Put(u, local[u].version)
  /\ current' = current \ ({op.seen} \ {local[u].version})
  /\ \/ local' = [local EXCEPT ![u] = NoRecord] /\ UNCHANGED faults
     \/ Fault /\ UNCHANGED local
  /\ op' = Idle
  /\ UNCHANGED <<deleted, connected, leaving, used, born>>

(* Nextcloud changed again, or did not accept it: nothing changes here. *)
ReplaceFails(u) ==
  /\ Resolving(u)
  /\ \/ There(u) # op.seen /\ UNCHANGED faults
     \/ Fault
  /\ op' = Idle
  /\ UNCHANGED <<local, deleted, remote, connected, leaving, used, born, current>>

-----------------------------------------------------------------------------
(* The process dies: what was not stored is forgotten. *)
Crash ==
  /\ ~Free \/ leaving # Stay
  /\ Fault
  /\ op' = Idle
  /\ leaving' = Stay
  /\ UNCHANGED <<local, deleted, remote, connected, used, born, current>>

Person ==
  \E u \in Events :
    Create(u) \/ Update(u) \/ Delete(u) \/ KeepServer(u) \/ KeepMine(u)

Clients ==
  \E c \in Calendars, u \in Events :
    RemoteCreate(c, u) \/ RemoteUpdate(c, u) \/ RemoteDelete(c, u)

Connection ==
  \/ Connect \/ Export \/ ExportFails \/ Import \/ Forget
  \/ \E c \in Calendars : Select(c)

Sync ==
  \/ StartSync \/ EndSync \/ SyncFails
  \/ \E t \in op.tombs : SkipTombstone(t) \/ SendTombstone(t)
  \/ \E u \in op.pending : SkipEdit(u) \/ SendEdit(u) \/ SendNew(u) \/ Compare(u)

Resolution == \E u \in Events : Replace(u) \/ ReplaceFails(u)

Next == Person \/ Clients \/ Connection \/ Sync \/ Resolution \/ Crash

Spec == Init /\ [][Next]_vars

-----------------------------------------------------------------------------
(* Properties.                                                             *)

InRemote(u, v) == \E c \in Calendars : remote[c][u] = v

(* NoTextLost: whatever a person wrote last, here or in Nextcloud, and no  *)
(* one replaced, deleted or gave up since, is stored here or in Nextcloud, *)
(* whatever fails on the way ("sending back never overwrites a change made *)
(* in Nextcloud meanwhile", and an edit here stays until it arrived).      *)
NoTextLost ==
  \A v \in current :
    \E u \in Events : local[u].version = v \/ InRemote(u, v)

(* NothingDuplicated: sending events back does not put one that is in a    *)
(* calendar of Nextcloud into a second one (local_calendar.py: "Nothing is *)
(* duplicated").                                                           *)
NothingDuplicated ==
  \A u \in Events, c, d \in Calendars :
    remote[c][u] # Nothing /\ remote[d][u] # Nothing => c = d

(* ConflictsWait: a sync leaves an event that waits for the person's choice *)
(* as it is ("stays here marked as a conflict until the person chooses     *)
(* which version to keep").                                                *)
ConflictsWait ==
  [][\A u \in Events :
       Syncing /\ local[u].conflict # "" => local'[u] = local[u]]_vars
=============================================================================
