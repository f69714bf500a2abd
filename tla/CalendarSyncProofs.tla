------------------------- MODULE CalendarSyncProofs -------------------------
(***************************************************************************)
(* No text of a calendar is lost, for any number of events, calendars,     *)
(* versions and faults.                                                    *)
(*                                                                         *)
(* A sync may forget an event of its own once its text is no longer        *)
(* current or is in Nextcloud, and may replace or delete a file of         *)
(* Nextcloud only if its text is no longer current.  The second holds      *)
(* because a request carries the version a copy was made from and the      *)
(* person who edited or deleted the copy has replaced just that version.   *)
(***************************************************************************)
EXTENDS CalendarSync, TLAPS

(* Versions are drawn in order: nothing holds one that was not drawn. *)
Drawn(v) == v <= used

CurrentOK == \A v \in current : v # Nothing /\ Drawn(v)

RemoteOK == \A c \in Calendars, u \in Events : Drawn(remote[c][u])

(* A version read from Nextcloud is still there unless it was replaced. *)
Safe(v, u) == v \in current => InRemote(u, v)

(* An untouched copy holds a version of Nextcloud; the version an edited   *)
(* copy was made from was replaced by the edit.                            *)
RecordOK(r, u) ==
  /\ Drawn(r.version) /\ Drawn(r.etag)
  /\ r.from_nextcloud /\ r.modified => r.etag \notin current
  /\ r.from_nextcloud /\ ~r.modified =>
       Safe(r.version, u) /\ r.etag \in {Nothing, r.version}

TombstoneOK(t) == Drawn(t.etag) /\ t.etag \notin current

StoreOK ==
  /\ \A u \in Events : RecordOK(local[u], u)
  /\ \A t \in deleted : TombstoneOK(t)

ExportOK == \A u \in Events : Drawn(leaving.export[u]) /\ Safe(leaving.export[u], u)

(* What the sync dropped from its bucket arrived or is no longer current;  *)
(* what waits for the person it does not touch; what it compares is new.   *)
SyncOK ==
  \A u \in Events :
    /\ op.events[u].version = local[u].version \/ Safe(local[u].version, u)
    /\ local[u].conflict # "" => op.events[u] = local[u] /\ u \notin op.pending
    /\ op.target = u => ~op.events[u].from_nextcloud

OperationOK ==
  /\ \A u \in Events : RecordOK(op.events[u], u)
  /\ \A t \in op.deleted \union op.tombs : TombstoneOK(t)
  /\ Drawn(op.seen)
  /\ ~Free => op.calendar \in Calendars
  /\ Syncing => SyncOK

IInv ==
  /\ TypeOK
  /\ CurrentOK /\ RemoteOK /\ StoreOK /\ ExportOK /\ OperationOK
  /\ NoTextLost

-----------------------------------------------------------------------------
(* Every operator that builds a record or an operation builds one.         *)

LEMMA RecordTypes ==
  /\ NoRecord \in Records
  /\ \A v \in Versions : NewRecord(v) \in Records
  /\ \A v, e \in Versions : Copy(v, e) \in Records
  /\ \A r \in Records, v \in Versions : Edited(r, v) \in Records
<1>1. Nothing \in Versions
  BY ConstantsAssumption DEF Nothing, Versions
<1>2. NoRecord \in Records
  BY <1>1 DEF NoRecord, Records
<1>3. ASSUME NEW v \in Versions PROVE NewRecord(v) \in Records
  BY <1>2 DEF NewRecord, Records
<1>4. ASSUME NEW v \in Versions, NEW e \in Versions PROVE Copy(v, e) \in Records
  BY <1>2 DEF Copy, Records
<1>5. ASSUME NEW r \in Records, NEW v \in Versions PROVE Edited(r, v) \in Records
  BY DEF Edited, Records
<1> QED
  BY <1>2, <1>3, <1>4, <1>5

LEMMA IdleType == Idle \in Operations
BY RecordTypes, ConstantsAssumption DEF Idle, Operations, Versions, Nothing

LEMMA OperationTypes ==
  ASSUME op \in Operations, NEW u \in Events, NEW k \in Conflicts, NEW v \in Versions
  PROVE  /\ Done(u) \in Operations
         /\ Conflicted(u, k) \in Operations
         /\ [op EXCEPT !.target = u] \in Operations
         /\ [op EXCEPT !.target = NoEvent, !.pending = @ \ {u}] \in Operations
         /\ [Done(u) EXCEPT !.target = NoEvent] \in Operations
         /\ [Conflicted(u, k) EXCEPT !.target = NoEvent, !.events[u].etag = v]
              \in Operations
<1>1. op.events \in [Events -> Records] /\ op.pending \subseteq Events
  BY DEF Operations
<1>2. [op.events EXCEPT ![u] = NoRecord] \in [Events -> Records]
  BY <1>1, RecordTypes
<1>3. [op.events EXCEPT ![u].conflict = k] \in [Events -> Records]
  BY <1>1 DEF Records
<1>4. Done(u) \in Operations
  BY <1>1, <1>2 DEF Done, Operations
<1>5. Conflicted(u, k) \in Operations
  BY <1>1, <1>3 DEF Conflicted, Operations
<1>6. [op EXCEPT !.target = u] \in Operations
  BY DEF Operations
<1>7. [op EXCEPT !.target = NoEvent, !.pending = @ \ {u}] \in Operations
  BY <1>1 DEF Operations
<1>8. [Done(u) EXCEPT !.target = NoEvent] \in Operations
  BY <1>4 DEF Operations
<1>9. [Conflicted(u, k) EXCEPT !.target = NoEvent, !.events[u].etag = v] \in Operations
  <2> DEFINE o == Conflicted(u, k)
  <2>1. o.events \in [Events -> Records]
    BY <1>5 DEF Operations
  <2>2. [o.events EXCEPT ![u].etag = v] \in [Events -> Records]
    BY <2>1 DEF Records
  <2>3. o \in Operations
    BY <1>5
  <2> HIDE DEF o
  <2>4. [o EXCEPT !.target = NoEvent, !.events[u].etag = v] \in Operations
    BY <2>2, <2>3 DEF Operations
  <2> QED
    BY <2>4 DEF o
<1> QED
  BY <1>4, <1>5, <1>6, <1>7, <1>8, <1>9

LEMMA SaveType ==
  ASSUME TypeOK, Save
  PROVE  local' \in [Events -> Records] /\ deleted' \subseteq Tombstones /\ op' \in Operations
BY IdleType DEF TypeOK, Save, Operations

LEMMA AnsweredType ==
  ASSUME TypeOK, NEW o \in Operations, Answered(o)
  PROVE  /\ local' \in [Events -> Records]
         /\ deleted' \subseteq Tombstones
         /\ op' \in Operations
         /\ faults' \in 0 .. MaxFaults
<1>1. CASE op' = o /\ UNCHANGED <<local, deleted, faults>>
  BY <1>1 DEF TypeOK
<1>2. CASE Fault /\ Save
  BY <1>2, SaveType, ConstantsAssumption DEF TypeOK, Fault
<1> QED
  BY <1>1, <1>2 DEF Answered

LEMMA PutType ==
  ASSUME TypeOK, NEW u \in Events, NEW v \in Versions, Put(u, v)
  PROVE  remote' \in [Calendars -> [Events -> Versions]]
BY DEF TypeOK, Put

LEMMA InitType == Init => TypeOK
<1> SUFFICES ASSUME Init PROVE TypeOK
  OBVIOUS
<1>1. Nothing \in Versions
  BY ConstantsAssumption DEF Nothing, Versions
<1>2. Stay \in Departures /\ NoExport \in [Events -> Versions]
  BY <1>1 DEF Stay, NoExport, Departures
<1> QED
  BY <1>1, <1>2, IdleType, RecordTypes, ConstantsAssumption DEF Init, TypeOK

LEMMA WriteType ==
  ASSUME TypeOK, NEW old, Write(old)
  PROVE  /\ used' = used + 1
         /\ used + 1 \in Versions
         /\ current' \subseteq Versions
<1>1. used + 1 \in Versions
  BY ConstantsAssumption DEF TypeOK, Write, Versions
<1> QED
  BY <1>1 DEF TypeOK, Write

LEMMA PersonType ==
  ASSUME TypeOK, NEW u \in Events,
         Create(u) \/ Update(u) \/ Delete(u) \/ KeepServer(u) \/ KeepMine(u)
  PROVE  TypeOK'
<1> USE ConstantsAssumption DEF TypeOK
<1>1. CASE Create(u)
  BY <1>1, RecordTypes, WriteType DEF Create
<1>2. CASE Update(u)
  BY <1>2, RecordTypes, WriteType DEF Update
<1>3. CASE Delete(u)
  <2>1. Buried(u) \subseteq Tombstones
    <3>1. local[u].etag \in Versions
      BY DEF Records
    <3>2. [event |-> u, etag |-> local[u].etag] \in Tombstones
      BY <3>1 DEF Tombstones
    <3> QED
      BY <3>2 DEF Buried
  <2> QED
    BY <1>3, <2>1, RecordTypes DEF Delete
<1>4. CASE KeepServer(u)
  BY <1>4, RecordTypes DEF KeepServer
<1>5. CASE KeepMine(u)
  <2>1. connected \in Calendars /\ remote[connected][u] \in Versions
    BY <1>5 DEF KeepMine
  <2>2. op' \in Operations
    BY <1>5, <2>1, IdleType DEF KeepMine, Operations
  <2> QED
    BY <1>5, <2>2 DEF KeepMine
<1> QED
  BY <1>1, <1>2, <1>3, <1>4, <1>5

LEMMA ClientsType ==
  ASSUME TypeOK, NEW c \in Calendars, NEW u \in Events,
         RemoteCreate(c, u) \/ RemoteUpdate(c, u) \/ RemoteDelete(c, u)
  PROVE  TypeOK'
<1> USE ConstantsAssumption DEF TypeOK
<1>1. CASE RemoteCreate(c, u)
  BY <1>1, WriteType DEF RemoteCreate
<1>2. CASE RemoteUpdate(c, u)
  BY <1>2, WriteType DEF RemoteUpdate
<1>3. CASE RemoteDelete(c, u)
  <2>1. Nothing \in Versions
    BY DEF Nothing, Versions
  <2> QED
    BY <1>3, <2>1 DEF RemoteDelete
<1> QED
  BY <1>1, <1>2, <1>3

LEMMA ConnectionType ==
  ASSUME TypeOK, Connection
  PROVE  TypeOK'
<1> USE ConstantsAssumption DEF TypeOK
<1>0. Stay \in Departures /\ [Stay EXCEPT !.step = "forget"] \in Departures
  <2>1. NoExport \in [Events -> Versions]
    BY DEF NoExport, Nothing, Versions
  <2>2. Stay \in Departures
    BY <2>1 DEF Stay, Departures
  <2> QED
    BY <2>2 DEF Departures
<1>1. CASE Connect
  BY <1>1 DEF Connect
<1>2. CASE Export
  <2>1. leaving' \in Departures
    BY <1>2 DEF Export, Departures
  <2> QED
    BY <1>2, <2>1 DEF Export
<1>3. CASE ExportFails
  BY <1>0, <1>3 DEF ExportFails, Fault
<1>4. CASE Import
  <2>1. PICK bare \in SUBSET Events : local' = [u \in Events |-> Imported(u, bare)]
    BY <1>4 DEF Import
  <2>2. ASSUME NEW u \in Events PROVE Imported(u, bare) \in Records
    <3>1. leaving.export[u] \in Versions
      BY DEF Departures
    <3>2. Nothing \in Versions
      BY DEF Nothing, Versions
    <3> QED
      BY <3>1, <3>2, RecordTypes DEF Imported
  <2>3. local' \in [Events -> Records]
    BY <2>1, <2>2
  <2> QED
    BY <1>0, <1>4, <2>3 DEF Import
<1>5. CASE Forget
  BY <1>0, <1>5 DEF Forget
<1>6. CASE \E c \in Calendars : Select(c)
  BY <1>6 DEF Select
<1> QED
  BY <1>1, <1>2, <1>3, <1>4, <1>5, <1>6 DEF Connection

LEMMA SyncType ==
  ASSUME TypeOK, OperationOK, Sync
  PROVE  TypeOK'
<1> USE ConstantsAssumption
<1>0. Nothing \in Versions
  BY DEF Nothing, Versions
<1>1. CASE StartSync
  <2>1. Sendable(local) \subseteq Events
    BY DEF Sendable
  <2>2. op' \in Operations
    BY <1>1, <2>1, IdleType DEF StartSync, TypeOK, Operations
  <2> QED
    BY <1>1, <2>2 DEF StartSync, TypeOK
<1>2. CASE EndSync
  BY <1>2, SaveType DEF EndSync, TypeOK
<1>3. CASE SyncFails
  BY <1>3, SaveType DEF SyncFails, TypeOK, Fault
<1>4. ASSUME NEW t \in op.tombs, SkipTombstone(t) PROVE TypeOK'
  <2>1. op' \in Operations
    BY <1>4 DEF SkipTombstone, TypeOK, Operations
  <2> QED
    BY <1>4, <2>1 DEF SkipTombstone, TypeOK
<1>5. ASSUME NEW t \in op.tombs, SendTombstone(t) PROVE TypeOK'
  <2>1. [op EXCEPT !.tombs = @ \ {t}, !.deleted = @ \ {t}] \in Operations
    BY DEF TypeOK, Operations
  <2>2. t.event \in Events
    BY DEF TypeOK, Operations, Tombstones
  <2>3. remote' \in [Calendars -> [Events -> Versions]]
    BY <1>0, <1>5, <2>2, PutType DEF SendTombstone, TypeOK
  <2> QED
    BY <1>5, <2>1, <2>3, AnsweredType DEF SendTombstone, TypeOK
<1>6. ASSUME NEW u \in op.pending,
             SkipEdit(u) \/ SendEdit(u) \/ SendNew(u) \/ Compare(u)
      PROVE  TypeOK'
  <2>1. u \in Events
    BY DEF TypeOK, Operations
  <2>2. op.events[u].version \in Versions
    BY <2>1 DEF TypeOK, Operations, Records
  <2>3. Conflicts = {"changed_in_nextcloud", "deleted_in_nextcloud", "upload_unconfirmed"}
    BY DEF Conflicts
  <2>4. CASE SkipEdit(u)
    <3>1. Conflicted(u, "changed_in_nextcloud") \in Operations
      BY <1>0, <2>1, <2>3, OperationTypes DEF TypeOK
    <3> QED
      BY <2>4, <3>1 DEF SkipEdit, TypeOK
  <2>5. CASE SendEdit(u)
    <3>1. /\ Done(u) \in Operations
          /\ Conflicted(u, "changed_in_nextcloud") \in Operations
          /\ Conflicted(u, "deleted_in_nextcloud") \in Operations
      BY <1>0, <2>1, <2>3, OperationTypes DEF TypeOK
    <3>2. remote' \in [Calendars -> [Events -> Versions]]
      BY <2>1, <2>2, <2>5, PutType DEF SendEdit, TypeOK
    <3> QED
      BY <2>5, <3>1, <3>2, AnsweredType DEF SendEdit, TypeOK
  <2>6. CASE SendNew(u)
    <3>1. Done(u) \in Operations /\ [op EXCEPT !.target = u] \in Operations
      BY <1>0, <2>1, <2>3, OperationTypes DEF TypeOK
    <3>2. remote' \in [Calendars -> [Events -> Versions]]
      BY <2>1, <2>2, <2>6, PutType DEF SendNew, TypeOK
    <3> QED
      BY <2>6, <3>1, <3>2, AnsweredType DEF SendNew, TypeOK
  <2>7. CASE Compare(u)
    <3>1. There(u) \in Versions
      BY <2>1, <2>7 DEF Compare, Syncing, Free, There, OperationOK, TypeOK
    <3>2. /\ [op EXCEPT !.target = NoEvent, !.pending = @ \ {u}] \in Operations
          /\ [Done(u) EXCEPT !.target = NoEvent] \in Operations
          /\ [Conflicted(u, "upload_unconfirmed") EXCEPT
                !.target = NoEvent, !.events[u].etag = There(u)] \in Operations
      BY <2>1, <2>3, <3>1, OperationTypes DEF TypeOK
    <3>3. CASE Fault /\ op' = [op EXCEPT !.target = NoEvent, !.pending = @ \ {u}]
                     /\ UNCHANGED <<local, deleted>>
      BY <2>7, <3>2, <3>3 DEF Compare, TypeOK, Fault
    <3> QED
      BY <2>7, <3>2, <3>3, AnsweredType DEF Compare, TypeOK
  <2> QED
    BY <1>6, <2>4, <2>5, <2>6, <2>7
<1> QED
  BY <1>1, <1>2, <1>3, <1>4, <1>5, <1>6 DEF Sync

LEMMA ResolutionType ==
  ASSUME TypeOK, NEW u \in Events, Replace(u) \/ ReplaceFails(u)
  PROVE  TypeOK'
<1>1. CASE Replace(u)
  <2>1. local[u].version \in Versions
    BY DEF TypeOK, Records
  <2>2. remote' \in [Calendars -> [Events -> Versions]]
    BY <1>1, <2>1, PutType DEF Replace
  <2>3. local' \in [Events -> Records]
    BY <1>1, RecordTypes DEF Replace, TypeOK
  <2>4. current' \subseteq Versions
    BY <1>1 DEF Replace, TypeOK
  <2>5. faults' \in 0 .. MaxFaults
    BY <1>1, ConstantsAssumption DEF Replace, TypeOK, Fault
  <2> QED
    BY <1>1, <2>2, <2>3, <2>4, <2>5, IdleType DEF Replace, TypeOK
<1>2. CASE ReplaceFails(u)
  BY <1>2, IdleType, ConstantsAssumption DEF ReplaceFails, TypeOK, Fault
<1> QED
  BY <1>1, <1>2

LEMMA CrashType ==
  ASSUME TypeOK, Crash
  PROVE  TypeOK'
<1>1. Stay \in Departures
  BY ConstantsAssumption DEF Stay, NoExport, Departures, Nothing, Versions
<1> QED
  BY <1>1, IdleType, ConstantsAssumption DEF Crash, TypeOK, Fault

LEMMA TypeStep ==
  ASSUME TypeOK, OperationOK, [Next]_vars
  PROVE  TypeOK'
<1>1. CASE Next
  BY <1>1, PersonType, ClientsType, ConnectionType, SyncType, ResolutionType, CrashType
  DEF Next, Person, Clients, Resolution
<1>2. CASE UNCHANGED vars
  BY <1>2 DEF vars, TypeOK
<1> QED
  BY <1>1, <1>2
-----------------------------------------------------------------------------
(* What every step does to the texts: those that stay current were current *)
(* or are new, and each one that was in Nextcloud stays there.             *)
TextsStay ==
  /\ used <= used'
  /\ \A v \in current' : v \in current \/ ~Drawn(v)
  /\ \A u \in Events : \A v \in current' :
       InRemote(u, v) => \E c \in Calendars : remote'[c][u] = v

(* Replacing one file keeps every other text. *)
LEMMA OneFile ==
  ASSUME TypeOK, NEW c \in Calendars, NEW x \in Events, NEW w \in Versions,
         remote' = [remote EXCEPT ![c][x] = w],
         remote[c][x] \notin current' \/ remote[c][x] = w
  PROVE  \A u \in Events : \A v \in current' :
           InRemote(u, v) => \E d \in Calendars : remote'[d][u] = v
<1> SUFFICES ASSUME NEW u \in Events, NEW v \in current', NEW d \in Calendars,
                    remote[d][u] = v
             PROVE  remote'[d][u] = v
  BY DEF InRemote
<1>1. remote \in [Calendars -> [Events -> Versions]]
  BY DEF TypeOK
<1>2. CASE d = c /\ u = x
  BY <1>1, <1>2
<1>3. CASE d # c \/ u # x
  BY <1>1, <1>3
<1> QED
  BY <1>2, <1>3

LEMMA WriteTexts ==
  ASSUME TypeOK, CurrentOK, NEW old \in Versions, Drawn(old), Write(old)
  PROVE  /\ used <= used'
         /\ \A v \in current' : v \in current \/ ~Drawn(v)
         /\ \A v \in current' : v # Nothing /\ v <= used'
         /\ old \notin current'
         /\ ~Drawn(used + 1)
<1>1. used \in Nat /\ used' = used + 1 /\ current' = (current \ {old}) \union {used + 1}
  BY ConstantsAssumption DEF TypeOK, Write, Versions
<1>2. \A v \in current : v \in Int /\ v # 0 /\ v <= used
  BY ConstantsAssumption DEF TypeOK, CurrentOK, Drawn, Nothing, Versions
<1>3. old \in Int /\ old <= used
  BY ConstantsAssumption DEF Versions, Drawn
<1> QED
  BY <1>1, <1>2, <1>3 DEF Drawn, Nothing

LEMMA TextsStayOrNew ==
  ASSUME IInv, Next
  PROVE  TextsStay /\ CurrentOK' /\ RemoteOK'
<1>t. TypeOK /\ CurrentOK /\ RemoteOK
  BY DEF IInv
<1>n. used \in Int /\ Nothing \in Versions /\ Nothing \notin current
  BY <1>t, ConstantsAssumption DEF TypeOK, Versions, Nothing, CurrentOK
<1>d. Nothing <= used
  BY <1>t, ConstantsAssumption DEF TypeOK, Versions, Nothing
<1>v. /\ \A u \in Events : local[u].version \in Versions /\ op.events[u].version \in Versions
      /\ \A c \in Calendars, u \in Events : remote[c][u] \in Versions
  BY <1>t DEF TypeOK, Operations, Records
<1>l. /\ \A u \in Events : Drawn(local[u].version) /\ Drawn(op.events[u].version)
      /\ \A c \in Calendars, u \in Events : Drawn(remote[c][u])
  BY DEF IInv, StoreOK, OperationOK, RecordOK, RemoteOK
(* A step that writes nothing and leaves the files alone. *)
<1>q. ASSUME used' = used, current' \subseteq current, remote' = remote
      PROVE  TextsStay /\ CurrentOK' /\ RemoteOK'
  <2>1. TextsStay
    BY <1>n, <1>q DEF TextsStay, InRemote
  <2> QED
    BY <1>t, <1>q, <2>1 DEF CurrentOK, RemoteOK, Drawn
(* A step that writes nothing and puts a drawn version into one file. *)
<1>p. ASSUME used' = used, current' \subseteq current,
             NEW c \in Calendars, NEW x \in Events, NEW w \in Versions, Drawn(w),
             remote' = [remote EXCEPT ![c][x] = w],
             remote[c][x] \notin current' \/ remote[c][x] = w
      PROVE  TextsStay /\ CurrentOK' /\ RemoteOK'
  <2>0. \A u \in Events : \A v \in current' :
          InRemote(u, v) => \E d \in Calendars : remote'[d][u] = v
    BY <1>t, <1>p, OneFile
  <2>1. TextsStay
    BY <1>n, <1>p, <2>0 DEF TextsStay
  <2>2. CurrentOK'
    BY <1>t, <1>p DEF CurrentOK, Drawn
  <2>3. RemoteOK'
    BY <1>t, <1>p DEF TypeOK, RemoteOK, Drawn
  <2> QED
    BY <2>1, <2>2, <2>3
<1>1. CASE Person
  <2>1. PICK u \in Events :
          Create(u) \/ Update(u) \/ Delete(u) \/ KeepServer(u) \/ KeepMine(u)
    BY <1>1 DEF Person
  <2>2. CASE Delete(u) \/ KeepServer(u) \/ KeepMine(u)
    BY <1>q, <2>2 DEF Delete, KeepServer, KeepMine
  <2>3. ASSUME NEW old \in Versions, Drawn(old), Write(old), remote' = remote
        PROVE  TextsStay /\ CurrentOK' /\ RemoteOK'
    <3>1. used <= used' /\ \A v \in current' : v \in current \/ ~Drawn(v)
      BY <1>t, <2>3, WriteTexts
    <3>2. TextsStay
      BY <2>3, <3>1 DEF TextsStay, InRemote
    <3>3. CurrentOK'
      BY <1>t, <2>3, WriteTexts DEF CurrentOK, Drawn
    <3>4. RemoteOK'
      <4>1. used' = used + 1
        BY <2>3 DEF Write
      <4>2. \A c \in Calendars, x \in Events : remote[c][x] \in Int
        BY <1>v, ConstantsAssumption DEF Versions
      <4> QED
        BY <1>n, <1>l, <2>3, <4>1, <4>2 DEF RemoteOK, Drawn
    <3> QED
      BY <3>2, <3>3, <3>4
  <2>4. CASE Create(u)
    BY <1>n, <1>d, <2>3, <2>4 DEF Create, Drawn
  <2>5. CASE Update(u)
    BY <1>v, <1>l, <2>3, <2>5 DEF Update
  <2> QED
    BY <2>1, <2>2, <2>4, <2>5
<1>2. CASE Clients
  <2>1. PICK c \in Calendars, u \in Events :
          RemoteCreate(c, u) \/ RemoteUpdate(c, u) \/ RemoteDelete(c, u)
    BY <1>2 DEF Clients
  <2>2. CASE RemoteDelete(c, u)
    <3>1. used' = used /\ current' \subseteq current /\ remote[c][u] \notin current'
      BY <2>2 DEF RemoteDelete
    <3>2. remote' = [remote EXCEPT ![c][u] = Nothing] /\ Drawn(Nothing)
      BY <1>d, <2>2 DEF RemoteDelete, Drawn
    <3> QED
      BY <1>p, <1>n, <3>1, <3>2
  <2>3. ASSUME Write(remote[c][u]), remote' = [remote EXCEPT ![c][u] = used + 1]
        PROVE  TextsStay /\ CurrentOK' /\ RemoteOK'
    <3>1. /\ used <= used' /\ \A v \in current' : v \in current \/ ~Drawn(v)
          /\ remote[c][u] \notin current'
          /\ \A v \in current' : v # Nothing /\ v <= used'
      BY <1>t, <1>v, <1>l, <2>3, WriteTexts
    <3>2. used + 1 \in Versions /\ used' = used + 1
      BY <1>t, <2>3, WriteType
    <3>3. TextsStay
      BY <1>t, <2>3, <3>1, <3>2, OneFile DEF TextsStay
    <3>4. CurrentOK'
      BY <3>1 DEF CurrentOK, Drawn
    <3>5. RemoteOK'
      <4>1. \A d \in Calendars, x \in Events : remote[d][x] \in Int /\ remote[d][x] <= used
        BY <1>v, <1>l, ConstantsAssumption DEF Versions, Drawn
      <4>2. remote \in [Calendars -> [Events -> Versions]]
        BY <1>t DEF TypeOK
      <4>3. ASSUME NEW d \in Calendars, NEW x \in Events
            PROVE  remote'[d][x] = used + 1 \/ remote'[d][x] = remote[d][x]
        BY <2>3, <4>2
      <4> QED
        BY <1>n, <3>2, <4>1, <4>3 DEF RemoteOK, Drawn
    <3> QED
      BY <3>3, <3>4, <3>5
  <2>4. CASE RemoteCreate(c, u)
    <3>1. remote[c][u] = Nothing
      BY <2>4 DEF RemoteCreate, Fresh
    <3> QED
      BY <2>3, <2>4, <3>1 DEF RemoteCreate
  <2>5. CASE RemoteUpdate(c, u)
    BY <2>3, <2>5 DEF RemoteUpdate
  <2> QED
    BY <2>1, <2>2, <2>4, <2>5
<1>3. CASE Connection
  BY <1>q, <1>3 DEF Connection, Connect, Export, ExportFails, Import, Forget, Select
<1>4. CASE Sync
  <2>1. CASE StartSync \/ EndSync \/ SyncFails
    BY <1>q, <2>1 DEF StartSync, EndSync, SyncFails
  <2>c. Syncing => op.calendar \in Calendars
    BY DEF IInv, OperationOK, Free, Syncing
  <2>2. ASSUME NEW t \in op.tombs, SkipTombstone(t) \/ SendTombstone(t)
        PROVE  TextsStay /\ CurrentOK' /\ RemoteOK'
    <3>1. CASE remote' = remote
      BY <1>q, <2>2, <3>1 DEF SkipTombstone, SendTombstone
    <3>2. CASE SendTombstone(t) /\ There(t.event) = t.etag /\ Put(t.event, Nothing)
      <4>1. t.event \in Events /\ op.calendar \in Calendars
        BY <1>t, <2>c, <3>2 DEF SendTombstone, TypeOK, Operations, Tombstones
      <4>2. t.etag \notin current
        BY DEF IInv, OperationOK, TombstoneOK
      <4>3. remote[op.calendar][t.event] \notin current /\ used' = used /\ current' = current
        BY <3>2, <4>2 DEF SendTombstone, There
      <4>4. remote' = [remote EXCEPT ![op.calendar][t.event] = Nothing] /\ Drawn(Nothing)
        BY <1>d, <3>2 DEF Put, Drawn
      <4> QED
        BY <1>p, <1>n, <4>1, <4>3, <4>4
    <3> QED
      BY <2>2, <3>1, <3>2 DEF SkipTombstone, SendTombstone
  <2>3. ASSUME NEW u \in op.pending,
               SkipEdit(u) \/ SendEdit(u) \/ SendNew(u) \/ Compare(u)
        PROVE  TextsStay /\ CurrentOK' /\ RemoteOK'
    <3>1. u \in Events /\ op.calendar \in Calendars /\ used' = used /\ current' = current
      BY <1>t, <2>c, <2>3
      DEF SkipEdit, SendEdit, SendNew, Compare, Sending, TypeOK, Operations
    <3>2. CASE remote' = remote
      BY <1>q, <3>1, <3>2
    <3>3. CASE Put(u, op.events[u].version) /\ There(u) \notin current
      BY <1>p, <1>v, <1>l, <3>1, <3>3 DEF Put, There
    <3>4. CASE SendEdit(u)
      <4>1. op.events[u].etag \notin current
        BY <3>1, <3>4 DEF SendEdit, EditedCopy, IInv, OperationOK, RecordOK
      <4> QED
        BY <3>2, <3>3, <3>4, <4>1 DEF SendEdit
    <3>5. CASE SendNew(u)
      BY <1>n, <3>2, <3>3, <3>5 DEF SendNew
    <3> QED
      BY <2>3, <3>2, <3>4, <3>5 DEF SkipEdit, Compare
  <2> QED
    BY <1>4, <2>1, <2>2, <2>3 DEF Sync
<1>5. CASE Resolution
  <2>1. PICK u \in Events : Replace(u) \/ ReplaceFails(u)
    BY <1>5 DEF Resolution
  <2>2. CASE ReplaceFails(u)
    BY <1>q, <2>2 DEF ReplaceFails
  <2>3. CASE Replace(u)
    <3>1. op.calendar \in Calendars
      BY <2>3 DEF Replace, Resolving, IInv, OperationOK, Free
    <3>2. used' = used /\ current' \subseteq current
      BY <2>3 DEF Replace
    <3>3. remote' = [remote EXCEPT ![op.calendar][u] = local[u].version]
      BY <2>3 DEF Replace, Put
    <3>4. \/ remote[op.calendar][u] \notin current'
          \/ remote[op.calendar][u] = local[u].version
      BY <2>3 DEF Replace, There
    <3> QED
      BY <1>p, <1>v, <1>l, <3>1, <3>2, <3>3, <3>4
  <2> QED
    BY <2>1, <2>2, <2>3
<1>6. CASE Crash
  BY <1>q, <1>6 DEF Crash
<1> QED
  BY <1>1, <1>2, <1>3, <1>4, <1>5, <1>6 DEF Next
-----------------------------------------------------------------------------
(* What a step leaves alone keeps its part of the invariant.               *)

(* RecordOK and TombstoneOK in the next state, of a value of this one. *)
RecordStays(r, u) ==
  /\ r.version <= used' /\ r.etag <= used'
  /\ r.from_nextcloud /\ r.modified => r.etag \notin current'
  /\ r.from_nextcloud /\ ~r.modified =>
       /\ r.version \in current' => \E c \in Calendars : remote'[c][u] = r.version
       /\ r.etag \in {Nothing, r.version}

TombstoneStays(t) == t.etag <= used' /\ t.etag \notin current'

LEMMA Stays ==
  ASSUME TypeOK, TypeOK', TextsStay
  PROVE  /\ \A v \in Versions : Drawn(v) => Drawn(v)'
         /\ \A v \in Versions, u \in Events : Drawn(v) /\ Safe(v, u) => Safe(v, u)'
         /\ \A r \in Records, u \in Events : RecordOK(r, u) => RecordStays(r, u)
         /\ \A t \in Tombstones : TombstoneOK(t) => TombstoneStays(t)
<1>1. ASSUME NEW v \in Versions, Drawn(v) PROVE Drawn(v)'
  <2>1. v \in Int /\ used \in Int /\ used' \in Int /\ v <= used /\ used <= used'
    BY <1>1, ConstantsAssumption DEF TypeOK, TextsStay, Drawn, Versions
  <2> QED
    BY <2>1 DEF Drawn
<1>2. ASSUME NEW v \in Versions, NEW u \in Events, Drawn(v), Safe(v, u) PROVE Safe(v, u)'
  BY <1>2 DEF Safe, TextsStay, InRemote
<1>3. ASSUME NEW r \in Records, NEW u \in Events, RecordOK(r, u) PROVE RecordStays(r, u)
  <2>1. r.version \in Versions /\ r.etag \in Versions
    BY DEF Records
  <2>2. Drawn(r.version)' /\ Drawn(r.etag)'
    BY <1>1, <1>3, <2>1 DEF RecordOK
  <2>3. r.from_nextcloud /\ ~r.modified => Safe(r.version, u)'
    BY <1>2, <1>3, <2>1 DEF RecordOK
  <2>4. r.from_nextcloud /\ r.modified => r.etag \notin current'
    BY <1>3, <2>1 DEF RecordOK, TextsStay
  <2> QED
    BY <1>3, <2>2, <2>3, <2>4 DEF RecordOK, RecordStays, Drawn, Safe, InRemote
<1>4. ASSUME NEW t \in Tombstones, TombstoneOK(t) PROVE TombstoneStays(t)
  BY <1>1, <1>4 DEF Tombstones, TombstoneOK, TombstoneStays, TextsStay, Drawn
<1> QED
  BY <1>1, <1>2, <1>3, <1>4

LEMMA StoreSame ==
  ASSUME IInv, TypeOK', TextsStay, UNCHANGED <<local, deleted>>
  PROVE  StoreOK'
<1>1. \A u \in Events : local[u] \in Records
  BY DEF IInv, TypeOK
<1>2. \A u \in Events : RecordStays(local[u], u)
  BY <1>1, Stays DEF IInv, StoreOK
<1>3. \A t \in deleted : TombstoneStays(t)
  BY Stays DEF IInv, StoreOK, TypeOK
<1> QED
  BY <1>2, <1>3 DEF StoreOK, RecordOK, RecordStays, TombstoneOK, TombstoneStays,
                    Drawn, Safe, InRemote

LEMMA ExportSame ==
  ASSUME IInv, TypeOK', CurrentOK', TextsStay,
         leaving' = leaving \/ leaving'.export = NoExport
  PROVE  ExportOK'
<1>1. CASE leaving' = leaving
  <2>1. \A u \in Events : leaving.export[u] \in Versions
    BY DEF IInv, TypeOK, Departures
  <2> QED
    BY <1>1, <2>1, Stays DEF IInv, ExportOK
<1>2. CASE leaving'.export = NoExport
  <2>1. \A u \in Events : leaving'.export[u] = Nothing
    BY <1>2 DEF NoExport
  <2>2. Nothing <= used' /\ Nothing \notin current'
    BY ConstantsAssumption DEF TypeOK, CurrentOK, Nothing, Versions
  <2> QED
    BY <2>1, <2>2 DEF ExportOK, Safe, Drawn
<1> QED
  BY <1>1, <1>2

LEMMA OperationSame ==
  ASSUME IInv, TypeOK', TextsStay, op' = op, Free \/ local' = local
  PROVE  OperationOK'
<1>1. \A u \in Events : op.events[u] \in Records /\ local[u] \in Records
  BY DEF IInv, TypeOK, Operations
<1>2. op.deleted \union op.tombs \subseteq Tombstones /\ op.seen \in Versions
  BY DEF IInv, TypeOK, Operations
<1>3. \A u \in Events : RecordStays(op.events[u], u)
  BY <1>1, Stays DEF IInv, OperationOK
<1>4. /\ \A t \in op.deleted \union op.tombs : TombstoneStays(t)
      /\ op.seen <= used'
  BY <1>2, Stays DEF IInv, OperationOK, Drawn
<1>5. ASSUME Syncing PROVE SyncOK'
  <2>1. local' = local /\ SyncOK
    BY <1>5 DEF Free, Syncing, IInv, OperationOK
  <2>2. \A u \in Events : local[u].version \in Versions /\ Drawn(local[u].version)
    BY <1>1 DEF Records, IInv, StoreOK, RecordOK
  <2>3. \A u \in Events : Safe(local[u].version, u) => Safe(local[u].version, u)'
    BY <2>1, <2>2, TextsStay DEF Safe, InRemote, TextsStay
  <2> QED
    BY <2>1, <2>3 DEF SyncOK
<1> QED
  BY <1>3, <1>4, <1>5
  DEF IInv, OperationOK, Free, Syncing, RecordOK, RecordStays, TombstoneOK,
      TombstoneStays, Drawn, Safe, InRemote

LEMMA IdleRecords ==
  ASSUME TypeOK', CurrentOK'
  PROVE  /\ \A u \in Events : RecordStays(NoRecord, u)
         /\ Nothing <= used'
<1> QED
  BY ConstantsAssumption
  DEF TypeOK, CurrentOK, RecordStays, NoRecord, Nothing, Versions

LEMMA OperationIdle ==
  ASSUME TypeOK', CurrentOK', op' = Idle
  PROVE  OperationOK'
<1>1. /\ \A u \in Events : op'.events[u] = NoRecord
      /\ op'.deleted = {} /\ op'.tombs = {} /\ op'.seen = Nothing /\ op'.kind = "idle"
  BY DEF Idle
<1> QED
  BY <1>1, IdleRecords
  DEF OperationOK, Free, Syncing, RecordOK, RecordStays, Drawn, Safe, InRemote

LEMMA TextsSame ==
  ASSUME IInv, TextsStay, current' \subseteq current,
         \A u \in Events : local[u].version \in current' =>
           \/ local'[u].version = local[u].version
           \/ \E c \in Calendars : remote'[c][u] = local[u].version
  PROVE  NoTextLost'
<1> SUFFICES ASSUME NEW v \in current'
             PROVE  \E u \in Events :
                      local'[u].version = v \/ \E c \in Calendars : remote'[c][u] = v
  BY DEF NoTextLost, InRemote
<1>1. PICK u \in Events : local[u].version = v \/ InRemote(u, v)
  BY DEF IInv, NoTextLost
<1> QED
  BY <1>1 DEF TextsStay
-----------------------------------------------------------------------------
(* The steps of a sync.                                                    *)

(* Storing the bucket forgets what arrived and what is no longer current.  *)
LEMMA Ends ==
  ASSUME IInv, TypeOK', CurrentOK', TextsStay, current' = current, Syncing, Save
  PROVE  StoreOK' /\ OperationOK' /\ NoTextLost'
<1>1. /\ \A u \in Events : op.events[u] \in Records
      /\ op.deleted \subseteq Tombstones
  BY DEF IInv, TypeOK, Operations
<1>2. \A u \in Events : RecordStays(op.events[u], u)
  BY <1>1, Stays DEF IInv, OperationOK
<1>3. \A t \in op.deleted : TombstoneStays(t)
  BY <1>1, Stays DEF IInv, OperationOK
<1>4. StoreOK'
  BY <1>2, <1>3 DEF Save, StoreOK, RecordOK, RecordStays, TombstoneOK, TombstoneStays,
                    Drawn, Safe, InRemote
<1>5. OperationOK'
  BY OperationIdle DEF Save
<1>6. ASSUME NEW u \in Events, local[u].version \in current'
      PROVE  \/ local'[u].version = local[u].version
             \/ \E c \in Calendars : remote'[c][u] = local[u].version
  <2>1. op.events[u].version = local[u].version \/ Safe(local[u].version, u)
    BY DEF IInv, OperationOK, SyncOK
  <2> QED
    BY <1>6, <2>1 DEF Save, Safe, TextsStay
<1> QED
  BY <1>4, <1>5, <1>6, TextsSame

(* A request was answered: the bucket dropped an event whose text is in    *)
(* Nextcloud or no longer current, or marked it; all others are as before. *)
Dropped(u) ==
  /\ op'.events[u] = NoRecord
  /\ op.events[u].version \in current' =>
       \E c \in Calendars : remote'[c][u] = op.events[u].version

Marked(u) ==
  /\ op'.events[u].version = op.events[u].version
  /\ op'.events[u].from_nextcloud = op.events[u].from_nextcloud
  /\ op'.events[u].modified = op.events[u].modified
  /\ \/ op'.events[u].etag = op.events[u].etag
     \/ ~op.events[u].from_nextcloud /\ op'.events[u].etag <= used'

LEMMA GoesOn ==
  ASSUME IInv, TypeOK', CurrentOK', TextsStay, current' = current,
         Syncing, UNCHANGED <<local, deleted>>,
         op'.kind = op.kind, op'.calendar = op.calendar, op'.seen = op.seen,
         op'.deleted \subseteq op.deleted, op'.tombs \subseteq op.tombs,
         op'.pending \subseteq op.pending,
         \A u \in Events : op'.target = u => ~op'.events[u].from_nextcloud,
         \A u \in Events : \/ op'.events[u] = op.events[u]
                           \/ u \in op.pending /\ (Dropped(u) \/ Marked(u))
  PROVE  StoreOK' /\ OperationOK' /\ NoTextLost'
<1>1. /\ \A u \in Events : op.events[u] \in Records /\ local[u] \in Records
      /\ op.deleted \union op.tombs \subseteq Tombstones /\ op.seen \in Versions
  BY DEF IInv, TypeOK, Operations
<1>2. \A u \in Events : RecordStays(op.events[u], u)
  BY <1>1, Stays DEF IInv, OperationOK
<1>2n. \A u \in Events : RecordStays(NoRecord, u)
  BY IdleRecords
<1>3. ASSUME NEW u \in Events PROVE RecordStays(op'.events[u], u)
  <2>1. CASE op'.events[u] = op.events[u]
    BY <1>2, <2>1 DEF RecordStays
  <2>2. CASE Dropped(u)
    BY <1>2n, <2>2 DEF Dropped, RecordStays
  <2>3. CASE Marked(u)
    BY <1>2, <2>3 DEF Marked, RecordStays
  <2> QED
    BY <2>1, <2>2, <2>3
<1>4. \A t \in op'.deleted \union op'.tombs : TombstoneStays(t)
  BY <1>1, Stays DEF IInv, OperationOK
<1>5. op'.seen <= used'
  BY <1>1, Stays DEF IInv, OperationOK, Drawn
<1>6. SyncOK
  BY DEF IInv, OperationOK
<1>7. ASSUME NEW u \in Events
      PROVE  \/ op'.events[u].version = local[u].version
             \/ local[u].version \in current' =>
                  \E c \in Calendars : remote'[c][u] = local[u].version
  <2>1. op.events[u].version = local[u].version \/ Safe(local[u].version, u)
    BY <1>6 DEF SyncOK
  <2>2. CASE Safe(local[u].version, u)
    BY <2>2 DEF Safe, TextsStay
  <2>3. CASE op.events[u].version = local[u].version
    BY <2>3 DEF Dropped, Marked
  <2> QED
    BY <2>1, <2>2, <2>3
<1>8. SyncOK'
  <2>1. ASSUME NEW u \in Events, local[u].conflict # ""
        PROVE  op'.events[u] = local[u] /\ u \notin op'.pending
    BY <1>6, <2>1 DEF SyncOK
  <2> QED
    BY <1>7, <2>1 DEF SyncOK, Safe, InRemote
<1>9. OperationOK'
  BY <1>3, <1>4, <1>5, <1>8
  DEF OperationOK, IInv, Free, Syncing, RecordOK, RecordStays, TombstoneOK,
      TombstoneStays, Drawn, Safe, InRemote
<1> QED
  BY <1>9, StoreSame, TextsSame
-----------------------------------------------------------------------------
(* Each kind of step keeps the rest of the invariant.                      *)
Rest == StoreOK /\ ExportOK /\ OperationOK /\ NoTextLost

LEMMA PersonStep ==
  ASSUME IInv, TypeOK', CurrentOK', TextsStay, NEW u \in Events,
         Create(u) \/ Update(u) \/ Delete(u) \/ KeepServer(u) \/ KeepMine(u)
  PROVE  Rest'
<1>r. /\ \A x \in Events : local[x] \in Records
      /\ \A x \in Events : RecordStays(local[x], x)
      /\ \A t \in deleted : TombstoneStays(t)
  BY Stays DEF IInv, TypeOK, StoreOK
<1>n. /\ Nothing \notin current /\ Nothing \notin current'
      /\ \A v \in current : v <= used
      /\ \A x \in Events : local[x].version <= used
      /\ used \in Int
  <2>1. Nothing \notin current /\ Nothing \notin current'
    BY DEF IInv, CurrentOK
  <2>2. \A v \in current : v <= used
    BY DEF IInv, CurrentOK, Drawn
  <2>3. \A x \in Events : local[x].version <= used
    BY DEF IInv, StoreOK, RecordOK, Drawn
  <2>4. used \in Int
    BY ConstantsAssumption DEF IInv, TypeOK, Versions
  <2> QED
    BY <2>1, <2>2, <2>3, <2>4
<1>e. ExportOK'
  BY ExportSame DEF Create, Update, Delete, KeepServer, KeepMine
(* One event gets a record, and perhaps a tombstone; no operation runs. *)
<1>s. ASSUME NEW r \in Records, RecordStays(r, u), local' = [local EXCEPT ![u] = r],
             \A t \in deleted' : t \in deleted \/ TombstoneStays(t), op' = op, Free
      PROVE  StoreOK' /\ OperationOK'
  <2>1. \A x \in Events : RecordStays(local'[x], x)
    BY <1>r, <1>s DEF IInv, TypeOK
  <2>2. \A t \in deleted' : TombstoneStays(t)
    BY <1>r, <1>s
  <2>3. StoreOK'
    BY <2>1, <2>2
    DEF StoreOK, RecordOK, RecordStays, TombstoneOK, TombstoneStays, Drawn, Safe, InRemote
  <2> QED
    BY <1>s, <2>3, OperationSame
(* Where a text is written over local[u], that one is no longer current. *)
<1>w. ASSUME NEW w, Write(w), w = Nothing \/ w = local[u].version,
             local'[u].version = used + 1, w = local[u].version \/ local[u].version = Nothing,
             \A x \in Events \ {u} : local'[x] = local[x]
      PROVE  NoTextLost'
  <2>1. current' = (current \ {w}) \union {used + 1}
    BY <1>w DEF Write
  <2> SUFFICES ASSUME NEW v \in current'
               PROVE  \E x \in Events :
                        local'[x].version = v \/ \E c \in Calendars : remote'[c][x] = v
    BY DEF NoTextLost, InRemote
  <2>2. CASE v = used + 1
    BY <1>w, <2>2
  <2>3. CASE v # used + 1
    <3>1. v \in current /\ v # w /\ v # Nothing
      BY <1>n, <2>1, <2>3
    <3>2. PICK x \in Events : local[x].version = v \/ InRemote(x, v)
      BY <3>1 DEF IInv, NoTextLost
    <3>3. CASE InRemote(x, v)
      BY <3>3 DEF TextsStay
    <3>4. CASE local[x].version = v
      BY <1>w, <3>1, <3>4
    <3> QED
      BY <3>2, <3>3, <3>4
  <2> QED
    BY <2>2, <2>3
<1>1. CASE Create(u)
  <2>0. used + 1 \in Versions /\ used' = used + 1
    BY <1>1, WriteType DEF Create, IInv
  <2>1. NewRecord(used + 1) \in Records /\ RecordStays(NewRecord(used + 1), u)
    <3>1. NewRecord(used + 1) \in Records
      BY <2>0, RecordTypes
    <3>2. Nothing <= used'
      BY ConstantsAssumption DEF TypeOK, Nothing, Versions
    <3>3. /\ NewRecord(used + 1).version = used + 1 /\ NewRecord(used + 1).etag = Nothing
          /\ ~NewRecord(used + 1).from_nextcloud
      BY DEF NewRecord, NoRecord
    <3> QED
      BY <1>n, <2>0, <3>1, <3>2, <3>3 DEF RecordStays
  <2>2. StoreOK' /\ OperationOK'
    <3>1. local' = [local EXCEPT ![u] = NewRecord(used + 1)] /\ deleted' = deleted
      BY <1>1 DEF Create
    <3> QED
      BY <1>1, <1>s, <2>1, <3>1 DEF Create
  <2>3. NoTextLost'
    <3>1. local[u].version = Nothing /\ Write(Nothing)
      BY <1>1 DEF Create, Fresh, Kept
    <3>2. local'[u].version = used + 1 /\ \A x \in Events \ {u} : local'[x] = local[x]
      BY <1>1 DEF Create, NewRecord, NoRecord, IInv, TypeOK
    <3> QED
      BY <1>w, <3>1, <3>2
  <2> QED
    BY <1>e, <2>2, <2>3 DEF Rest
<1>2. CASE Update(u)
  <2> DEFINE r == Edited(local[u], used + 1)
  <2>0. used + 1 \in Versions /\ used' = used + 1 /\ Write(local[u].version)
    BY <1>2, WriteType DEF Update, IInv
  <2>1. r \in Records
    BY <1>r, <2>0, RecordTypes
  <2>2. /\ r.version = used + 1 /\ r.modified /\ r.etag = local[u].etag
        /\ r.from_nextcloud = local[u].from_nextcloud
    BY <1>r DEF Edited, Records
  <2>3. RecordStays(r, u)
    <3>1. local[u].version \notin current'
      BY <1>n, <2>0 DEF Write
    <3>2. local[u].from_nextcloud => local[u].etag \notin current'
      BY <1>n, <1>r, <3>1 DEF RecordStays
    <3> QED
      BY <1>n, <1>r, <2>0, <2>2, <3>2 DEF RecordStays
  <2>4. local' = [local EXCEPT ![u] = r]
    BY <1>2 DEF Update
  <2>5. local'[u].version = used + 1 /\ \A x \in Events \ {u} : local'[x] = local[x]
    BY <2>2, <2>4 DEF IInv, TypeOK
  <2> HIDE DEF r
  <2>6. StoreOK' /\ OperationOK'
    BY <1>2, <1>s, <2>1, <2>3, <2>4 DEF Update
  <2>7. NoTextLost'
    BY <1>w, <2>0, <2>5
  <2> QED
    BY <1>e, <2>6, <2>7 DEF Rest
<1>3. CASE Delete(u) \/ KeepServer(u)
  <2>1. NoRecord \in Records /\ RecordStays(NoRecord, u)
    BY RecordTypes, IdleRecords
  <2>2. current' = current \ {local[u].version} /\ local' = [local EXCEPT ![u] = NoRecord]
    BY <1>3 DEF Delete, KeepServer
  <2>3. \A t \in deleted' : t \in deleted \/ TombstoneStays(t)
    <3>1. ASSUME local[u].from_nextcloud PROVE local[u].etag \notin current'
      BY <1>n, <1>r, <2>2, <3>1 DEF RecordStays
    <3>2. local[u].etag <= used'
      BY <1>r DEF RecordStays
    <3>3. \A t \in Buried(u) : TombstoneStays(t)
      BY <3>1, <3>2 DEF Buried, TombstoneStays
    <3> QED
      BY <1>3, <3>3 DEF Delete, KeepServer
  <2>4. StoreOK' /\ OperationOK'
    BY <1>3, <1>s, <2>1, <2>2, <2>3 DEF Delete, KeepServer
  <2>5. \A x \in Events : local[x].version \in current' => local'[x].version = local[x].version
    BY <2>2 DEF IInv, TypeOK
  <2>6. NoTextLost'
    BY <2>2, <2>5, TextsSame
  <2> QED
    BY <1>e, <2>4, <2>6 DEF Rest
<1>4. CASE KeepMine(u)
  <2>1. StoreOK' /\ NoTextLost'
    BY <1>4, StoreSame, TextsSame DEF KeepMine
  <2>2. /\ op'.events = Idle.events /\ op'.deleted = {} /\ op'.tombs = {}
        /\ op'.kind = "resolve" /\ op'.calendar = connected
        /\ op'.seen = remote[connected][u]
    BY <1>4 DEF KeepMine, Idle
  <2>3. connected \in Calendars
    BY <1>4 DEF KeepMine, IInv, TypeOK
  <2>4. remote[connected][u] <= used'
    BY <1>4, <2>3 DEF KeepMine, IInv, RemoteOK, Drawn
  <2>5. \A x \in Events : RecordStays(op'.events[x], x)
    BY <2>2, IdleRecords DEF Idle
  <2>6. OperationOK'
    BY <2>2, <2>3, <2>4, <2>5
    DEF OperationOK, Free, Syncing, RecordOK, RecordStays, Drawn, Safe, InRemote
  <2> QED
    BY <1>e, <2>1, <2>6 DEF Rest
<1> QED
  BY <1>1, <1>2, <1>3, <1>4

LEMMA ClientsStep ==
  ASSUME IInv, TypeOK', CurrentOK', TextsStay, Clients
  PROVE  Rest'
<1>1. PICK c \in Calendars, u \in Events :
        RemoteCreate(c, u) \/ RemoteUpdate(c, u) \/ RemoteDelete(c, u)
  BY DEF Clients
<1>2. StoreOK' /\ ExportOK' /\ OperationOK'
  BY <1>1, StoreSame, ExportSame, OperationSame DEF RemoteCreate, RemoteUpdate, RemoteDelete
<1>3. CASE RemoteDelete(c, u)
  BY <1>2, <1>3, TextsSame DEF RemoteDelete, Rest
<1>4. ASSUME NEW old, Write(old), remote' = [remote EXCEPT ![c][u] = used + 1],
             local' = local
      PROVE  NoTextLost'
  <2> SUFFICES ASSUME NEW v \in current'
               PROVE  \E x \in Events :
                        local'[x].version = v \/ \E d \in Calendars : remote'[d][x] = v
    BY DEF NoTextLost, InRemote
  <2>1. CASE v = used + 1
    BY <1>4, <2>1 DEF IInv, TypeOK
  <2>2. CASE v # used + 1
    <3>1. v \in current
      BY <1>4, <2>2 DEF Write
    <3>2. PICK x \in Events : local[x].version = v \/ InRemote(x, v)
      BY <3>1 DEF IInv, NoTextLost
    <3> QED
      BY <1>4, <3>2 DEF TextsStay
  <2> QED
    BY <2>1, <2>2
<1>5. CASE RemoteCreate(c, u) \/ RemoteUpdate(c, u)
  BY <1>2, <1>4, <1>5 DEF RemoteCreate, RemoteUpdate, Rest
<1> QED
  BY <1>1, <1>3, <1>5
LEMMA ConnectionStep ==
  ASSUME IInv, TypeOK', CurrentOK', TextsStay, Connection
  PROVE  Rest'
<1>1. OperationOK'
  BY OperationSame
  DEF Connection, Connect, Select, Export, ExportFails, Import, Forget
<1>2. CASE Connect \/ ExportFails \/ Forget \/ \E c \in Calendars : Select(c)
  <2>1. leaving' = leaving \/ leaving'.export = NoExport
    <3>1. CASE Connect \/ \E c \in Calendars : Select(c)
      BY <3>1 DEF Connect, Select
    <3>2. CASE ExportFails \/ Forget
      <4>1. Stay.export = NoExport /\ [Stay EXCEPT !.step = "forget"].export = NoExport
        BY DEF Stay
      <4> QED
        BY <3>2, <4>1 DEF ExportFails, Forget
    <3> QED
      BY <1>2, <3>1, <3>2
  <2>2. UNCHANGED <<local, deleted, current>>
    BY <1>2 DEF Connect, ExportFails, Forget, Select
  <2> QED
    BY <1>1, <2>1, <2>2, StoreSame, ExportSame, TextsSame DEF Rest
<1>3. CASE Export
  <2>1. UNCHANGED <<local, deleted, current>>
    BY <1>3 DEF Export
  <2>2. ExportOK'
    <3>1. connected \in Calendars /\ remote' = remote /\ used' = used
      BY <1>3 DEF Export, IInv, TypeOK
    <3>2. leaving'.export = remote[connected]
      BY <1>3 DEF Export
    <3> QED
      BY <3>1, <3>2 DEF ExportOK, Drawn, Safe, InRemote, IInv, RemoteOK
  <2> QED
    BY <1>1, <2>1, <2>2, StoreSame, TextsSame DEF Rest
<1>4. CASE Import
  <2>1. PICK bare \in SUBSET Events : local' = [u \in Events |-> Imported(u, bare)]
    BY <1>4 DEF Import
  <2>2. deleted' = deleted /\ current' = current /\ leaving'.export = NoExport
    BY <1>4 DEF Import, Stay
  <2>3. \A u \in Events : RecordStays(local[u], u) /\ local[u] \in Records
    BY Stays DEF IInv, TypeOK, StoreOK
  <2>4. \A t \in deleted : TombstoneStays(t)
    BY Stays DEF IInv, TypeOK, StoreOK
  <2>5. Nothing \notin current /\ Nothing <= used'
    BY ConstantsAssumption DEF IInv, CurrentOK, TypeOK, Nothing, Versions
  <2>6. ASSUME NEW u \in Events PROVE RecordStays(local'[u], u)
    <3> DEFINE v == leaving.export[u]
    <3>1. v \in Versions
      BY DEF IInv, TypeOK, Departures
    <3>2. v <= used' /\ (v \in current' => \E c \in Calendars : remote'[c][u] = v)
      BY <1>4, <3>1 DEF Import, IInv, ExportOK, Drawn, Safe, InRemote
    <3>3. ASSUME NEW e \in {Nothing, v} PROVE RecordStays(Copy(v, e), u)
      <4>1. /\ Copy(v, e).version = v /\ Copy(v, e).etag = e
            /\ ~Copy(v, e).modified
        BY DEF Copy, NoRecord
      <4> QED
        BY <2>5, <3>2, <3>3, <4>1 DEF RecordStays
    <3>4. \/ local'[u] = local[u]
          \/ \E e \in {Nothing, v} : local'[u] = Copy(v, e)
      BY <2>1 DEF Imported
    <3> QED
      BY <2>3, <3>3, <3>4
  <2>7. StoreOK'
    BY <2>2, <2>4, <2>6
    DEF StoreOK, RecordOK, RecordStays, TombstoneOK, TombstoneStays, Drawn, Safe, InRemote
  <2>8. \A u \in Events : local[u].version \in current => local'[u] = local[u]
    BY <2>1, <2>5 DEF Imported, Kept
  <2>9. NoTextLost'
    BY <2>2, <2>8, TextsSame
  <2> QED
    BY <1>1, <2>2, <2>7, <2>9, ExportSame DEF Rest
<1> QED
  BY <1>2, <1>3, <1>4 DEF Connection

(* What the answers leave of the operation. *)
Follows(o) ==
  /\ o.kind = op.kind /\ o.calendar = op.calendar /\ o.seen = op.seen
  /\ o.deleted \subseteq op.deleted /\ o.tombs \subseteq op.tombs
  /\ o.pending \subseteq op.pending

OthersKept(o, u) == \A x \in Events \ {u} : o.events[x] = op.events[x]

LEMMA DoneFollows ==
  ASSUME op \in Operations, NEW u \in Events
  PROVE  /\ Follows(Done(u)) /\ OthersKept(Done(u), u)
         /\ Done(u).events[u] = NoRecord /\ Done(u).target = op.target
<1>1. op.events \in [Events -> Records]
  BY DEF Operations
<1>2. Done(u).events = [op.events EXCEPT ![u] = NoRecord]
  BY DEF Done, Operations
<1>3. Follows(Done(u)) /\ Done(u).target = op.target
  BY DEF Follows, Done, Operations
<1> QED
  BY <1>1, <1>2, <1>3 DEF OthersKept

LEMMA ConflictedFollows ==
  ASSUME op \in Operations, NEW u \in Events, NEW k \in Conflicts
  PROVE  /\ Follows(Conflicted(u, k)) /\ OthersKept(Conflicted(u, k), u)
         /\ Conflicted(u, k).events[u] = [op.events[u] EXCEPT !.conflict = k]
         /\ Conflicted(u, k).target = op.target
<1>1. op.events \in [Events -> Records]
  BY DEF Operations
<1>2. Conflicted(u, k).events = [op.events EXCEPT ![u].conflict = k]
  BY DEF Conflicted, Operations
<1>3. Follows(Conflicted(u, k)) /\ Conflicted(u, k).target = op.target
  BY DEF Follows, Conflicted, Operations
<1> QED
  BY <1>1, <1>2, <1>3 DEF OthersKept
(* A bucket that differs in one event that was sent. *)
LEMMA OneAnswer ==
  ASSUME IInv, TypeOK', CurrentOK', TextsStay, current' = current, Syncing,
         NEW u \in op.pending, Follows(op'), OthersKept(op', u),
         op'.events[u] = op.events[u] \/ Dropped(u) \/ Marked(u),
         UNCHANGED <<local, deleted>>,
         \A x \in Events : op'.target = x => ~op'.events[x].from_nextcloud
  PROVE  StoreOK' /\ OperationOK' /\ NoTextLost'
<1>1. \A x \in Events : \/ op'.events[x] = op.events[x]
                        \/ x \in op.pending /\ (Dropped(x) \/ Marked(x))
  BY DEF OthersKept
<1> QED
  BY <1>1, GoesOn DEF Follows

LEMMA StartStep ==
  ASSUME IInv, TypeOK', CurrentOK', TextsStay, StartSync
  PROVE  Rest'
<1>1. StoreOK' /\ NoTextLost' /\ ExportOK'
  BY StoreSame, TextsSame, ExportSame DEF StartSync
<1>2. /\ op'.events = local /\ op'.deleted = deleted /\ op'.tombs = deleted
      /\ op'.pending = Sendable(local) /\ op'.calendar = connected
      /\ op'.kind = "sync" /\ op'.target = NoEvent /\ op'.seen = Nothing
  BY DEF StartSync, Idle
<1>3. Nothing <= used' /\ connected \in Calendars
  BY IdleRecords DEF StartSync, IInv, TypeOK
<1>4. \A u \in Events : RecordStays(local[u], u)
  BY Stays DEF IInv, TypeOK, StoreOK
<1>5. \A t \in deleted : TombstoneStays(t)
  BY Stays DEF IInv, TypeOK, StoreOK
<1>6. SyncOK'
  BY <1>2, ConstantsAssumption DEF StartSync, SyncOK, Sendable
<1>7. OperationOK'
  BY <1>2, <1>3, <1>4, <1>5, <1>6
  DEF OperationOK, Free, Syncing, RecordOK, RecordStays, TombstoneOK, TombstoneStays,
      Drawn, Safe, InRemote
<1> QED
  BY <1>1, <1>7 DEF Rest

LEMMA TombstoneStep ==
  ASSUME IInv, TypeOK', CurrentOK', TextsStay, NEW t \in op.tombs,
         SkipTombstone(t) \/ SendTombstone(t)
  PROVE  Rest'
<1>1. ExportOK' /\ Syncing /\ current' = current
  BY ExportSame DEF SkipTombstone, SendTombstone
<1>2. CASE Save
  BY <1>1, <1>2, Ends DEF Rest
<1>3. CASE /\ UNCHANGED <<local, deleted>>
           /\ \/ op' = [op EXCEPT !.tombs = @ \ {t}]
              \/ op' = [op EXCEPT !.tombs = @ \ {t}, !.deleted = @ \ {t}]
  <2>1. Follows(op') /\ op'.events = op.events /\ op'.target = op.target
    BY <1>3 DEF Follows, IInv, TypeOK, Operations
  <2>2. \A u \in Events : op'.target = u => ~op'.events[u].from_nextcloud
    BY <1>1, <2>1 DEF IInv, OperationOK, SyncOK
  <2> QED
    BY <1>1, <1>3, <2>1, <2>2, GoesOn DEF Follows, Rest
<1> QED
  BY <1>2, <1>3 DEF SkipTombstone, SendTombstone, Answered

LEMMA PendingStep ==
  ASSUME IInv, TypeOK', CurrentOK', TextsStay, NEW u \in op.pending,
         SkipEdit(u) \/ SendEdit(u) \/ SendNew(u) \/ Compare(u)
  PROVE  Rest'
<1>1. ExportOK' /\ Syncing /\ current' = current /\ op.target \in {u, NoEvent}
  BY ExportSame DEF SkipEdit, SendEdit, SendNew, Compare, Sending
<1>2. /\ op \in Operations /\ u \in Events /\ NoEvent \notin Events
      /\ op.events[u] \in Records
  BY ConstantsAssumption DEF IInv, TypeOK, Operations
<1>3. /\ remote \in [Calendars -> [Events -> Versions]] /\ op.calendar \in Calendars
  BY <1>1 DEF IInv, TypeOK, OperationOK, Free, Syncing
<1>c. /\ Conflicts = {"changed_in_nextcloud", "deleted_in_nextcloud", "upload_unconfirmed"}
      /\ Nothing \in Versions
  BY ConstantsAssumption DEF Conflicts, Nothing, Versions
(* The event arrived: its text is in Nextcloud, or no longer current. *)
<1>d. ASSUME UNCHANGED <<local, deleted>>, Follows(op'), OthersKept(op', u),
             op'.events[u] = NoRecord, op'.target \notin Events,
             op.events[u].version \in current' =>
               \E c \in Calendars : remote'[c][u] = op.events[u].version
      PROVE  Rest'
  BY <1>1, <1>d, OneAnswer DEF Dropped, Rest
<1>m. ASSUME NEW k \in Conflicts, op' = Conflicted(u, k), op.target = NoEvent,
             UNCHANGED <<local, deleted>>
      PROVE  Rest'
  <2>0. op'.events[u] = [op.events[u] EXCEPT !.conflict = k]
    BY <1>2, <1>m, ConflictedFollows
  <2>1. Marked(u)
    BY <1>2, <2>0 DEF Marked, Records
  <2>2. Follows(op') /\ OthersKept(op', u) /\ op'.target \notin Events
    BY <1>2, <1>m, ConflictedFollows
  <2> QED
    BY <1>1, <1>m, <2>1, <2>2, OneAnswer DEF Rest
<1>f. ASSUME op' = Done(u), op.target = NoEvent, UNCHANGED <<local, deleted>>,
             op.events[u].version \in current' =>
               \E c \in Calendars : remote'[c][u] = op.events[u].version
      PROVE  Rest'
  BY <1>2, <1>d, <1>f, DoneFollows
<1>s. ASSUME Save PROVE Rest'
  BY <1>1, <1>s, Ends DEF Rest
<1>p. ASSUME Put(u, op.events[u].version)
      PROVE  \E c \in Calendars : remote'[c][u] = op.events[u].version
  BY <1>2, <1>3, <1>p DEF Put
<1>4. CASE SkipEdit(u)
  BY <1>4, <1>c, <1>m DEF SkipEdit, Sending
<1>5. CASE SendEdit(u)
  <2>0. op.target = NoEvent
    BY <1>5 DEF SendEdit, Sending
  <2>1. CASE Put(u, op.events[u].version) /\ Answered(Done(u))
    BY <1>f, <1>s, <1>p, <2>0, <2>1 DEF Answered
  <2>2. CASE Answered(Conflicted(u, "changed_in_nextcloud"))
    BY <1>c, <1>m, <1>s, <2>0, <2>2 DEF Answered
  <2>3. CASE Answered(Conflicted(u, "deleted_in_nextcloud"))
    BY <1>c, <1>m, <1>s, <2>0, <2>3 DEF Answered
  <2> QED
    BY <1>5, <2>1, <2>2, <2>3 DEF SendEdit
<1>6. CASE SendNew(u)
  <2>0. op.target = NoEvent /\ ~EditedCopy(op.events[u])
    BY <1>6 DEF SendNew, Sending
  <2>1. CASE Put(u, op.events[u].version) /\ Answered(Done(u))
    BY <1>f, <1>s, <1>p, <2>0, <2>1 DEF Answered
  <2>2. CASE op.events[u].from_nextcloud /\ Answered(Done(u))
    <3>1. Safe(op.events[u].version, u)
      BY <1>2, <2>0, <2>2 DEF EditedCopy, IInv, OperationOK, RecordOK
    <3> QED
      BY <1>1, <1>2, <1>f, <1>s, <2>0, <2>2, <3>1 DEF Answered, Safe, TextsStay
  <2>3. CASE ~op.events[u].from_nextcloud /\ Answered([op EXCEPT !.target = u])
    <3>1. CASE op' = [op EXCEPT !.target = u] /\ UNCHANGED <<local, deleted>>
      <4>1. Follows(op') /\ op'.events = op.events /\ op'.target = u
        BY <1>2, <3>1 DEF Follows, Operations
      <4> QED
        BY <1>1, <2>3, <3>1, <4>1, OneAnswer DEF OthersKept, Rest
    <3> QED
      BY <1>s, <2>3, <3>1 DEF Answered
  <2> QED
    BY <1>6, <2>1, <2>2, <2>3 DEF SendNew
<1>7. CASE Compare(u)
  <2>0. op.target = u /\ ~op.events[u].from_nextcloud /\ remote' = remote /\ used' = used
    BY <1>1, <1>2, <1>7 DEF Compare, IInv, OperationOK, SyncOK
  <2>1. CASE /\ op' = [op EXCEPT !.target = NoEvent, !.pending = @ \ {u}]
             /\ UNCHANGED <<local, deleted>>
    <3>1. Follows(op') /\ op'.events = op.events /\ op'.target = NoEvent
      BY <1>2, <2>1 DEF Follows, Operations
    <3> QED
      BY <1>1, <1>2, <2>1, <3>1, OneAnswer DEF OthersKept, Rest
  <2>2. CASE /\ There(u) = op.events[u].version
             /\ op' = [Done(u) EXCEPT !.target = NoEvent] /\ UNCHANGED <<local, deleted>>
    <3>1. Done(u) \in Operations
      BY <1>2, <1>c, OperationTypes
    <3>2. /\ Follows(op') /\ OthersKept(op', u) /\ op'.events[u] = NoRecord
          /\ op'.target = NoEvent
      BY <1>2, <2>2, <3>1, DoneFollows DEF Follows, OthersKept, Operations
    <3> QED
      BY <1>2, <1>3, <1>d, <2>0, <2>2, <3>2 DEF There
  <2>3. CASE /\ op' = [Conflicted(u, "upload_unconfirmed") EXCEPT
                         !.target = NoEvent, !.events[u].etag = There(u)]
             /\ UNCHANGED <<local, deleted>>
    <3> DEFINE o == Conflicted(u, "upload_unconfirmed")
    <3>1. /\ o \in Operations /\ Follows(o) /\ OthersKept(o, u)
          /\ o.events[u] = [op.events[u] EXCEPT !.conflict = "upload_unconfirmed"]
      BY <1>2, <1>c, OperationTypes, ConflictedFollows
    <3>2. op' = [o EXCEPT !.target = NoEvent, !.events[u].etag = There(u)]
      BY <2>3
    <3> HIDE DEF o
    <3>3. o.events \in [Events -> Records]
      BY <3>1 DEF Operations
    <3>4. /\ op'.events = [o.events EXCEPT ![u].etag = There(u)]
          /\ op'.target = NoEvent /\ Follows(op')
      BY <3>1, <3>2 DEF Operations, Follows
    <3>5. OthersKept(op', u) /\ op'.events[u] = [o.events[u] EXCEPT !.etag = There(u)]
      BY <1>2, <3>1, <3>3, <3>4 DEF OthersKept
    <3>6. There(u) <= used'
      BY <1>2, <1>3, <2>0 DEF There, IInv, RemoteOK, Drawn
    <3>7. Marked(u)
      BY <1>2, <2>0, <3>1, <3>5, <3>6 DEF Marked, Records
    <3> QED
      BY <1>1, <1>2, <2>3, <3>4, <3>5, <3>7, OneAnswer DEF Rest
  <2> QED
    BY <1>s, <1>7, <2>1, <2>2, <2>3 DEF Compare, Answered
<1> QED
  BY <1>4, <1>5, <1>6, <1>7
LEMMA SyncStep ==
  ASSUME IInv, TypeOK', CurrentOK', TextsStay, Sync
  PROVE  Rest'
<1>1. CASE EndSync \/ SyncFails
  BY <1>1, Ends, ExportSame DEF EndSync, SyncFails, Sending, Rest
<1> QED
  BY <1>1, StartStep, TombstoneStep, PendingStep DEF Sync

LEMMA ResolutionStep ==
  ASSUME IInv, TypeOK', CurrentOK', TextsStay, NEW u \in Events,
         Replace(u) \/ ReplaceFails(u)
  PROVE  Rest'
<1>1. OperationOK' /\ ExportOK'
  BY OperationIdle, ExportSame DEF Replace, ReplaceFails
<1>2. CASE local' = local
  BY <1>1, <1>2, StoreSame, TextsSame DEF Replace, ReplaceFails, Rest
<1>3. CASE Replace(u) /\ local' = [local EXCEPT ![u] = NoRecord]
  <2>1. /\ local \in [Events -> Records] /\ op.calendar \in Calendars
        /\ remote \in [Calendars -> [Events -> Versions]]
    BY <1>3 DEF Replace, Resolving, IInv, TypeOK, OperationOK, Free
  <2>2. \A x \in Events : RecordStays(local[x], x)
    BY <2>1, Stays DEF IInv, StoreOK
  <2>3. \A x \in Events : RecordStays(local'[x], x)
    BY <1>3, <2>1, <2>2, IdleRecords
  <2>4. \A t \in deleted : TombstoneStays(t)
    BY Stays DEF IInv, TypeOK, StoreOK
  <2>5. StoreOK'
    BY <1>3, <2>3, <2>4
    DEF Replace, StoreOK, RecordOK, RecordStays, TombstoneOK, TombstoneStays, Drawn,
        Safe, InRemote
  <2>6. remote'[op.calendar][u] = local[u].version
    BY <1>3, <2>1 DEF Replace, Put
  <2>7. \A x \in Events \ {u} : local'[x] = local[x]
    BY <1>3
  <2>8. NoTextLost'
    BY <1>3, <2>1, <2>6, <2>7, TextsSame DEF Replace
  <2> QED
    BY <1>1, <2>5, <2>8 DEF Rest
<1> QED
  BY <1>2, <1>3 DEF Replace, ReplaceFails

LEMMA CrashStep ==
  ASSUME IInv, TypeOK', CurrentOK', TextsStay, Crash
  PROVE  Rest'
<1>1. leaving'.export = NoExport
  BY DEF Crash, Stay
<1> QED
  BY <1>1, StoreSame, ExportSame, OperationIdle, TextsSame DEF Crash, Rest

-----------------------------------------------------------------------------
(* The invariant is inductive.                                             *)

LEMMA InitIInv == Init => IInv
<1> SUFFICES ASSUME Init PROVE IInv
  OBVIOUS
<1>1. TypeOK
  BY InitType
<1>2. CurrentOK /\ NoTextLost
  BY DEF Init, CurrentOK, NoTextLost
<1>3. used = Nothing /\ Nothing <= used /\ current = {}
  BY DEF Init, Nothing
<1>4. RemoteOK
  BY <1>3 DEF Init, RemoteOK, NoExport, Drawn
<1>5. \A u \in Events : RecordOK(NoRecord, u)
  BY <1>3 DEF RecordOK, NoRecord, Drawn
<1>6. StoreOK
  BY <1>5 DEF Init, StoreOK
<1>7. ExportOK
  BY <1>3 DEF Init, Stay, NoExport, ExportOK, Drawn, Safe
<1>8. OperationOK
  BY <1>3, <1>5 DEF Init, Idle, OperationOK, Free, Syncing, Drawn
<1> QED
  BY <1>1, <1>2, <1>4, <1>6, <1>7, <1>8 DEF IInv

LEMMA StepIInv == IInv /\ [Next]_vars => IInv'
<1> SUFFICES ASSUME IInv, [Next]_vars PROVE IInv'
  OBVIOUS
<1>1. TypeOK'
  BY TypeStep DEF IInv
<1>2. CASE Next
  <2>1. TextsStay /\ CurrentOK' /\ RemoteOK'
    BY <1>2, TextsStayOrNew
  <2>2. Rest'
    BY <1>1, <1>2, <2>1, PersonStep, ClientsStep, ConnectionStep, SyncStep,
       ResolutionStep, CrashStep
    DEF Next, Person, Resolution
  <2> QED
    BY <1>1, <2>1, <2>2 DEF IInv, Rest
<1>3. CASE UNCHANGED vars
  <2>1. UNCHANGED <<local, deleted, remote, op, leaving, used, current>>
    BY <1>3 DEF vars
  <2>2. used \in Int
    BY ConstantsAssumption DEF IInv, TypeOK, Versions
  <2>3. TextsStay
    BY <2>1, <2>2 DEF TextsStay, InRemote
  <2>4. CurrentOK' /\ RemoteOK'
    BY <2>1 DEF IInv, CurrentOK, RemoteOK, Drawn
  <2> QED
    BY <1>1, <2>1, <2>3, <2>4, StoreSame, ExportSame, OperationSame, TextsSame DEF IInv
<1> QED
  BY <1>2, <1>3

(* Every step leaves the events that wait for the person as they are while *)
(* a sync runs: it stores them as it found them.                           *)
LEMMA WaitingStep ==
  ASSUME IInv, [Next]_vars, NEW u \in Events, Syncing, local[u].conflict # ""
  PROVE  local'[u] = local[u]
<1>1. op.events[u] = local[u]
  BY DEF IInv, OperationOK, SyncOK
<1>2. ~Free /\ \A x \in Events : ~Resolving(x)
  BY DEF Free, Syncing, Resolving
<1>3. CASE Person
  BY <1>2, <1>3 DEF Person, Create, Update, Delete, KeepServer, KeepMine
<1>4. CASE Clients
  BY <1>4 DEF Clients, RemoteCreate, RemoteUpdate, RemoteDelete
<1>5. CASE Connection
  BY <1>2, <1>5 DEF Connection, Connect, Export, ExportFails, Import, Forget, Select
<1>6. CASE Sync
  <2>1. local' = local \/ Save
    BY <1>2, <1>6
    DEF Sync, StartSync, EndSync, SyncFails, SkipTombstone, SendTombstone, SkipEdit,
        SendEdit, SendNew, Compare, Answered
  <2> QED
    BY <1>1, <2>1 DEF Save
<1>7. CASE Resolution
  BY <1>2, <1>7 DEF Resolution, Replace, ReplaceFails
<1>8. CASE Crash \/ UNCHANGED vars
  BY <1>8 DEF Crash, vars
<1> QED
  BY <1>3, <1>4, <1>5, <1>6, <1>7, <1>8 DEF Next

(* InvariantHolds: the inductive invariant holds in every reachable state  *)
(* of local_calendar.py's store, its syncs and Nextcloud.                  *)
THEOREM InvariantHolds == Spec => []IInv
BY InitIInv, StepIInv, PTL DEF Spec

(* CalendarTypeCorrect: the store, the running operation and Nextcloud     *)
(* hold values of their types, whatever number of events and calendars.    *)
THEOREM CalendarTypeCorrect == Spec => []TypeOK
<1>1. IInv => TypeOK
  BY DEF IInv
<1> QED
  BY <1>1, InvariantHolds, PTL

(* NoTextIsLost: what a person wrote last, here or in Nextcloud, is stored *)
(* here or there, through lost answers, refused requests and crashes.      *)
THEOREM NoTextIsLost == Spec => []NoTextLost
<1>1. IInv => NoTextLost
  BY DEF IInv
<1> QED
  BY <1>1, InvariantHolds, PTL

(* ConflictsAreKept: no sync changes or drops an event marked as a         *)
(* conflict; only the person's choice does.                                *)
THEOREM ConflictsAreKept == Spec => ConflictsWait
<1>1. IInv /\ [Next]_vars =>
        [\A u \in Events :
           Syncing /\ local[u].conflict # "" => local'[u] = local[u]]_vars
  BY WaitingStep
<1> QED
  BY <1>1, InvariantHolds, PTL DEF Spec, ConflictsWait
=============================================================================
