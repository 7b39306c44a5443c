---------------------------- MODULE ZoneVersions ----------------------------
(***************************************************************************)
(* The versions of one zone: zone_db_entry_t with its active version, the  *)
(* version kept for a rollback (prev), the retire stack and the byte       *)
(* totals, in dns_snapshot_rcu.c, and the threads that use them: readers,  *)
(* outgoing and incoming transfers, the writers that take turns with       *)
(* writer_lock, the control thread that frees and sweeps, the cache        *)
(* manager that takes a database zone out of memory.                       *)
(*                                                                         *)
(* Version 0 is the empty version every entry starts with, which is not on *)
(* the heap.  A grace period is what GracePeriod promises; that an entry   *)
(* outlives the readers who found it is what SnapshotGc shows.             *)
(***************************************************************************)
EXTENDS Integers, FiniteSets

CONSTANTS
  Readers,  \* worker threads
  Senders,  \* threads that send a zone (axfr_worker_thread)
  Kinds,    \* the kinds of zone to look at: "file", "db", "secondary"
  MaxVer,   \* bound of the number of versions published
  Bytes     \* version -> what it holds (zone_version_t.bytes)

Threads == Readers \cup Senders
Versions == 1 .. MaxVer
Empty == 0
None == -1
Control == "control"  \* a writer that is no worker

\* A thread that sends a zone is not a worker, and neither is the control thread.
ASSUME ThreadsAssumption ==
  Readers \cap Senders = {} /\ Control \notin Threads /\ IsFiniteSet(Senders)
ASSUME VersionsAssumption == MaxVer \in Nat \ {0} /\ Bytes \in [Versions -> Nat]

VARIABLES
  kind,
  active,          \* entry->rcu.active
  nver,            \* versions made so far
  prev, expired,   \* entry->prev, and whether its window is over
  stack,           \* g_zone_retire_head
  batch,           \* what zone_retire_process() has taken off the stack
  from_prev,       \* versions on the stack that memory pressure dropped
  freed, leaked,
  counted,         \* zone_version_t.counted
  resident, retired, previous, prev_inflight, evict_inflight,
  evicted, evicted_bytes, updated,
  busy,            \* ZDIR_F_BUSY
  linked,          \* the directory element points to the entry
  given,           \* the reference of the directory was given back
  refs,            \* snapshot_refs
  entry,           \* "live", "dying" (no reference left) or "gone"
  writer, wself, wpc, wlist, wver,   \* the holder of writer_lock
  evpc,            \* dbreg_evict_locked() is between its checks and trylock
  sweep, pressure, \* prev_sweep()
  section, found, tver,              \* readers and senders
  spc, active_axfr,
  is_transferring, xver,             \* the incoming transfer
  cmd,             \* a reload or a rollback has found the entry in its snapshot
  older            \* versions -> sections open since before it left active

zvars == <<kind, active, nver, prev, expired, counted>>
rvars == <<stack, batch, from_prev, freed, leaked>>
bvars == <<resident, retired, previous, prev_inflight, evict_inflight>>
evars == <<evicted, evicted_bytes, updated, busy, linked, given, refs, entry, evpc>>
wvars == <<writer, wself, wpc, wlist, wver>>
svars == <<sweep, pressure>>
tvars == <<section, found, tver, spc, active_axfr>>
xvars == <<is_transferring, xver, cmd>>
vars == <<zvars, rvars, bvars, evars, wvars, svars, tvars, xvars, older>>

\* The bytes of the versions of S.
BytesOf(S) ==
  LET sum[n \in 0 .. MaxVer] ==
        IF n = 0 THEN 0 ELSE sum[n - 1] + (IF n \in S THEN Bytes[n] ELSE 0)
  IN  sum[MaxVer]

\* Every variable has its type; the byte totals and snapshot_refs never go below zero.
TypeOK ==
  /\ kind \in Kinds /\ active \in 0 .. MaxVer /\ nver \in 0 .. MaxVer
  /\ prev \in Versions \cup {None} /\ expired \in BOOLEAN
  /\ \A S \in {stack, batch, from_prev, freed, leaked, counted, wlist}: S \subseteq Versions
  /\ \A n \in {resident, retired, previous, prev_inflight, evict_inflight, evicted_bytes}:
       n \in Nat
  /\ \A b \in {evicted, updated, busy, linked, given, pressure, is_transferring, cmd}: b \in BOOLEAN
  /\ refs \in Nat /\ entry \in {"live", "dying", "gone"}
  /\ writer \in {"none", "update", "reload", "install", "rollback", "xfr", "sweep"}
  /\ wself \in Readers \cup {Control}
  /\ wpc \in {"idle", "axfr", "build", "retire", "grace"}
  /\ wver \in Versions \cup {None}
  /\ evpc \in {"idle", "checked"}
  /\ sweep \in {"idle", "ref", "drop", "unref"}
  /\ section \subseteq Threads /\ found \subseteq Readers
  /\ tver \in [Threads -> 0 .. MaxVer \cup {None}]
  /\ spc \in [Senders -> {"idle", "spawned", "section", "sending", "leaving"}]
  /\ active_axfr \in Nat
  /\ xver \in 0 .. MaxVer \cup {None}
  /\ older \in [Versions -> SUBSET Threads]

Init ==
  /\ kind \in Kinds
  /\ active = (IF kind = "db" THEN 1 ELSE Empty) /\ nver = active
  /\ prev = None /\ expired = FALSE
  /\ stack = {} /\ batch = {} /\ from_prev = {} /\ freed = {} /\ leaked = {}
  /\ counted = {active} \ {Empty} /\ resident = BytesOf(counted)
  /\ retired = 0 /\ previous = 0 /\ prev_inflight = 0
  /\ evict_inflight = 0
  /\ evicted = FALSE /\ evicted_bytes = 0 /\ updated = FALSE /\ busy = FALSE
  /\ linked = TRUE /\ given = FALSE /\ refs = 1 /\ entry = "live" /\ evpc = "idle"
  /\ writer = "none" /\ wself = Control /\ wpc = "idle" /\ wlist = {} /\ wver = None
  /\ sweep = "idle" /\ pressure = FALSE
  /\ section = {} /\ found = {} /\ tver = [t \in Threads |-> None]
  /\ spc = [s \in Senders |-> "idle"] /\ active_axfr = 0
  /\ is_transferring = FALSE /\ xver = None /\ cmd = FALSE
  /\ older = [v \in Versions |-> {}]

Quiet == active_axfr = 0 /\ ~is_transferring

\* The thread that gives back the last reference frees the entry.
zone_entry_unref ==
  /\ refs' = refs - 1
  /\ entry' = IF refs = 1 THEN "dying" ELSE entry

-----------------------------------------------------------------------------
(* Readers and outgoing transfers *)

Enter(r) ==
  /\ r \notin section
  /\ section' = section \cup {r}
  /\ UNCHANGED <<zvars, rvars, bvars, evars, wvars, svars, found, tver, spc, active_axfr,
                 xvars, older>>

\* The lookup in the directory.
Find(r) ==
  /\ r \in section /\ linked
  /\ found' = found \cup {r}
  /\ UNCHANGED <<zvars, rvars, bvars, evars, wvars, svars, section, tver, spc, active_axfr,
                 xvars, older>>

Load(r) ==
  /\ r \in found /\ wself # r
  /\ tver' = [tver EXCEPT ![r] = active]
  /\ UNCHANGED <<zvars, rvars, bvars, evars, wvars, svars, section, found, spc, active_axfr,
                 xvars, older>>

LeaveSection(t) ==
  /\ section' = section \ {t}
  /\ older' = [v \in Versions |-> older[v] \ {t}]

Exit(r) ==
  /\ r \in section /\ wself # r
  /\ LeaveSection(r)
  /\ found' = found \ {r}
  /\ tver' = [tver EXCEPT ![r] = None]
  /\ UNCHANGED <<zvars, rvars, bvars, evars, wvars, svars, spc, active_axfr, xvars>>

\* A worker hands a transfer request to a thread of its own; the snapshot that it
\* retains for the thread keeps the entry.
StartSender(r, s) ==
  /\ r \in found /\ spc[s] = "idle"
  /\ active_axfr' = active_axfr + 1
  /\ spc' = [spc EXCEPT ![s] = "spawned"]
  /\ UNCHANGED <<zvars, rvars, bvars, evars, wvars, svars, section, found, tver, xvars, older>>

\* No memory or no thread: the count is taken back.
StartSenderFails(s) ==
  /\ spc[s] = "spawned"
  /\ active_axfr' = active_axfr - 1
  /\ spc' = [spc EXCEPT ![s] = "idle"]
  /\ UNCHANGED <<zvars, rvars, bvars, evars, wvars, svars, section, found, tver, xvars, older>>

SenderEnter(s) ==
  /\ spc[s] = "spawned"
  /\ section' = section \cup {s}
  /\ spc' = [spc EXCEPT ![s] = "section"]
  /\ UNCHANGED <<zvars, rvars, bvars, evars, wvars, svars, found, tver, active_axfr, xvars,
                 older>>

SenderLoad(s) ==
  /\ spc[s] = "section"
  /\ tver' = [tver EXCEPT ![s] = active]
  /\ spc' = [spc EXCEPT ![s] = "sending"]
  /\ UNCHANGED <<zvars, rvars, bvars, evars, wvars, svars, section, found, active_axfr, xvars,
                 older>>

SenderDone(s) ==
  /\ spc[s] = "sending"
  /\ tver' = [tver EXCEPT ![s] = None]
  /\ active_axfr' = active_axfr - 1
  /\ spc' = [spc EXCEPT ![s] = "leaving"]
  /\ UNCHANGED <<zvars, rvars, bvars, evars, wvars, svars, section, found, xvars, older>>

\* A bug: the thread ends inside of its section.
SenderExitKeepsSection(s) ==
  /\ spc[s] = "leaving"
  /\ spc' = [spc EXCEPT ![s] = "idle"]
  /\ UNCHANGED <<zvars, rvars, bvars, evars, wvars, svars, section, found, tver, active_axfr,
                 xvars, older>>

SenderExit(s) ==
  /\ spc[s] = "leaving"
  /\ LeaveSection(s)
  /\ spc' = [spc EXCEPT ![s] = "idle"]
  /\ UNCHANGED <<zvars, rvars, bvars, evars, wvars, svars, found, tver, active_axfr, xvars>>

-----------------------------------------------------------------------------
(* The incoming transfer of a secondary, outside of any section *)

StartTransfer ==
  /\ kind = "secondary" /\ linked /\ ~is_transferring
  /\ is_transferring' = TRUE
  /\ UNCHANGED <<zvars, rvars, bvars, evars, wvars, svars, tvars, xver, cmd, older>>

TransferLoad ==
  /\ is_transferring /\ xver = None
  /\ xver' = active
  /\ UNCHANGED <<zvars, rvars, bvars, evars, wvars, svars, tvars, is_transferring, cmd,
                 older>>

TransferEnd ==
  /\ is_transferring /\ writer # "xfr"
  /\ is_transferring' = FALSE
  /\ xver' = None
  /\ UNCHANGED <<zvars, rvars, bvars, evars, wvars, svars, tvars, cmd, older>>

\* A reload or a rollback works on the entry that its retained snapshot lists.
CommandFind ==
  /\ ~cmd /\ linked
  /\ cmd' = TRUE
  /\ UNCHANGED <<zvars, rvars, bvars, evars, wvars, svars, tvars, is_transferring, xver, older>>

CommandEnd ==
  /\ cmd /\ writer \notin {"reload", "rollback"}
  /\ cmd' = FALSE
  /\ UNCHANGED <<zvars, rvars, bvars, evars, wvars, svars, tvars, is_transferring, xver, older>>

-----------------------------------------------------------------------------
(* Writers, one at a time: entry->writer_lock *)

\* A bug: the update does not look whether the zone was taken out of memory while it
\* waited for the lock.
UpdateEvicted(r) == r \in found /\ tver[r] = None /\ kind # "secondary"

handle_dynamic_update(r) == r \in found /\ tver[r] = None /\ kind # "secondary" /\ ~evicted

\* Who may hold the lock: a worker for an UPDATE, the control thread for a zone file
\* or a rollback, the ingest thread for a zone that it has marked busy, the transfer.
MayWrite(w, r) ==
  \/ w = "update" /\ handle_dynamic_update(r)
  \/ w = "reload" /\ r = Control /\ cmd /\ kind # "db"
  \/ w = "install" /\ r = Control /\ busy
  \/ w = "rollback" /\ r = Control /\ cmd /\ kind # "secondary" /\ prev # None /\ ~evicted
  \/ w = "xfr" /\ r = Control /\ is_transferring /\ xver # None

Lock(w, r) ==
  /\ writer = "none" /\ MayWrite(w, r)
  /\ writer' = w /\ wself' = r /\ wpc' = "axfr"
  /\ UNCHANGED <<zvars, rvars, bvars, evars, wlist, wver, svars, tvars, xvars, older>>

wait_for_active_axfr ==
  /\ wpc = "axfr" /\ active_axfr = 0
  /\ wpc' = "build"
  /\ UNCHANGED <<zvars, rvars, bvars, evars, writer, wself, wlist, wver, svars, tvars, xvars,
                 older>>

Released == writer' = "none" /\ wself' = Control /\ wpc' = "idle"

\* The wait for the transfers timed out, or the new version could not be made.
Abort ==
  /\ \/ wpc = "axfr" /\ active_axfr > 0
     \/ wpc = "build"
  /\ Released
  /\ UNCHANGED <<zvars, rvars, bvars, evars, wlist, wver, svars, tvars, xvars, older>>

\* keep_prev_secs: -1, 0, or 1 for a window.
KeepPrev ==
  IF writer \in {"reload", "install"} /\ kind # "secondary" THEN {0, 1} ELSE {-1}

\* The prev that goes: another one is kept, none is kept, or a rollback consumed it.
DroppedPrev(keep, keepsecs) ==
  IF prev # None /\ (keep \/ keepsecs = 0 \/ writer = "rollback") THEN {prev} ELSE {}

\* zone_publish_ex(): the new version is served and counted; the old one becomes prev
\* or is retired, and so is the prev that is not wanted any more (rollback: consumed).
zone_publish_ex(keepsecs, same) ==
  LET new == nver + 1
      old == active
      keep == keepsecs > 0 /\ old # Empty /\ ~same
      dropped == DroppedPrev(keep, keepsecs) IN
    /\ wpc = "build" /\ nver < MaxVer
    /\ nver' = new /\ active' = new
    /\ counted' = (counted \ {old}) \cup {new}
    /\ resident' = resident + Bytes[new] - BytesOf(counted \cap {old})
    /\ older' = IF old = Empty THEN older ELSE [older EXCEPT ![old] = section]
    /\ wlist' = dropped \cup (IF old # Empty /\ ~keep THEN {old} ELSE {})
    /\ prev' = IF keep THEN old ELSE IF dropped # {} THEN None ELSE prev
    /\ previous' = previous - BytesOf(dropped) + (IF keep THEN Bytes[old] ELSE 0)
    /\ expired' = (expired /\ ~keep)
    /\ wpc' = "retire"
    /\ UNCHANGED <<kind, rvars, retired, prev_inflight, evict_inflight, evars, writer,
                   wself, wver, svars, tvars, xvars>>

\* zone_version_retire(): the version goes on the stack with a reference of the entry ...
RetirePush(v) ==
  /\ wpc = "retire" /\ v \in wlist
  /\ wlist' = wlist \ {v}
  /\ stack' = stack \cup {v}
  /\ refs' = refs + 1
  /\ retired' = retired + Bytes[v]
  /\ IF writer = "sweep" /\ pressure
       THEN /\ from_prev' = from_prev \cup {v}
            /\ prev_inflight' = prev_inflight + Bytes[v]
       ELSE UNCHANGED <<from_prev, prev_inflight>>
  /\ UNCHANGED <<zvars, batch, freed, leaked, resident, previous, evict_inflight, evicted,
                 evicted_bytes, updated, busy, linked, given, entry, evpc, writer, wself,
                 wpc, wver, svars, tvars, xvars, older>>

\* ... or, out of memory: the writer waits for the readers itself ...
RetireWait(v) ==
  /\ wpc = "retire" /\ v \in wlist /\ Quiet
  /\ wlist' = wlist \ {v}
  /\ wver' = v /\ wpc' = "grace"
  /\ UNCHANGED <<zvars, rvars, bvars, evars, writer, wself, svars, tvars, xvars, older>>

RetireFree ==
  /\ wpc = "grace" /\ older[wver] \subseteq {wself}
  /\ freed' = freed \cup {wver}
  /\ wver' = None /\ wpc' = "retire"
  /\ UNCHANGED <<zvars, stack, batch, from_prev, leaked, bvars, evars, writer, wself, wlist,
                 svars, tvars, xvars, older>>

\* ... or leaks the version, which stays counted.
RetireLeak(v) ==
  /\ \/ wpc = "retire" /\ v \in wlist /\ ~Quiet
     \/ wpc = "grace" /\ v = wver /\ ~(older[v] \subseteq {wself})
  /\ wlist' = wlist \ {v}
  /\ wver' = None /\ wpc' = "retire"
  /\ leaked' = leaked \cup {v}
  /\ retired' = retired + Bytes[v]
  /\ UNCHANGED <<zvars, stack, batch, from_prev, freed, resident, previous, prev_inflight,
                 evict_inflight, evars, writer, wself, svars, tvars, xvars, older>>

\* Only the memory has what an UPDATE or a rollback made of a database zone.
Unlock ==
  /\ wpc = "retire" /\ wlist = {}
  /\ updated' = CASE kind = "db" /\ writer \in {"update", "rollback"} -> TRUE
                  [] writer = "install" -> FALSE
                  [] OTHER -> updated
  /\ sweep' = IF writer = "sweep" THEN "unref" ELSE sweep
  /\ Released
  /\ UNCHANGED <<zvars, rvars, bvars, evicted, evicted_bytes, busy, linked, given, refs,
                 entry, evpc, wlist, wver, pressure, tvars, xvars, older>>

-----------------------------------------------------------------------------
(* The control thread: zone_retire_process() *)

TakeStack ==
  /\ batch = {} /\ stack # {}
  /\ batch' = stack /\ stack' = {}
  /\ UNCHANGED <<zvars, from_prev, freed, leaked, bvars, evars, wvars, svars, tvars, xvars,
                 older>>

Free(v) ==
  /\ freed' = freed \cup {v}
  /\ retired' = retired - Bytes[v]
  /\ prev_inflight' = prev_inflight - BytesOf(from_prev \cap {v})
  /\ from_prev' = from_prev \ {v}
  /\ zone_entry_unref
  /\ UNCHANGED stack

PushBack(v) ==
  /\ stack' = stack \cup {v}
  /\ UNCHANGED <<freed, retired, prev_inflight, from_prev, refs, entry>>

SafeToFree(v) == older[v] = {} /\ Quiet

\* A version is freed when its grace period is over and no transfer runs, else it goes
\* back on the stack.
RetireItem(v) ==
  /\ v \in batch
  /\ batch' = batch \ {v}
  /\ IF SafeToFree(v) THEN Free(v) ELSE PushBack(v)
  /\ UNCHANGED <<zvars, leaked, resident, previous, evict_inflight, evicted, evicted_bytes,
                 updated, busy, linked, given, evpc, wvars, svars, tvars, xvars, older>>

-----------------------------------------------------------------------------
(* The previous version: prev_sweep(), by the control thread when its window is *)
(* over, by the cache manager under memory pressure                            *)

Expire ==
  /\ prev # None /\ ~expired
  /\ expired' = TRUE
  /\ UNCHANGED <<kind, active, nver, prev, counted, rvars, bvars, evars, wvars, svars, tvars,
                 xvars, older>>

\* The list holds no reference; the walker takes one if the entry has one still.
entry_ref_if_live ==
  /\ sweep = "idle" /\ prev # None /\ entry # "gone" /\ refs > 0
  /\ pressure' \in {p \in BOOLEAN: IF p THEN kind = "db" ELSE expired}
  /\ refs' = refs + 1
  /\ sweep' = "ref"
  /\ UNCHANGED <<zvars, rvars, bvars, evicted, evicted_bytes, updated, busy, linked, given,
                 entry, evpc, wvars, tvars, xvars, older>>

\* pthread_mutex_trylock() succeeds and the version is still to be dropped.
SweepDrop ==
  /\ sweep = "ref" /\ writer = "none" /\ prev # None /\ (pressure \/ expired)
  /\ writer' = "sweep" /\ wpc' = "retire" /\ wlist' = {prev}
  /\ prev' = None /\ expired' = FALSE
  /\ previous' = previous - Bytes[prev]
  /\ sweep' = "drop"
  /\ UNCHANGED <<kind, active, nver, counted, rvars, resident, retired, prev_inflight,
                 evict_inflight, evars, wself, wver, pressure, tvars, xvars, older>>

\* The lock is taken, or there is nothing to drop any more.
SweepSkip ==
  /\ sweep = "ref" /\ (writer # "none" \/ prev = None \/ (~pressure /\ ~expired))
  /\ sweep' = "unref"
  /\ UNCHANGED <<zvars, rvars, bvars, evars, wvars, pressure, tvars, xvars, older>>

SweepUnref ==
  /\ sweep = "unref"
  /\ zone_entry_unref
  /\ sweep' = "idle"
  /\ UNCHANGED <<zvars, rvars, bvars, evicted, evicted_bytes, updated, busy, linked, given,
                 evpc, wvars, pressure, tvars, xvars, older>>

-----------------------------------------------------------------------------
(* The ingest thread and the cache manager, under the lock of the registry *)

dbreg_lookup_entry_busy ==
  /\ kind = "db" /\ linked /\ evpc = "idle" /\ ~busy
  /\ busy' = TRUE
  /\ UNCHANGED <<zvars, rvars, bvars, evicted, evicted_bytes, updated, linked, given, refs,
                 entry, evpc, wvars, svars, tvars, xvars, older>>

\* dbreg_commit() or dbreg_reject().
InstallEnd ==
  /\ busy /\ writer # "install" /\ evpc = "idle"
  /\ busy' = FALSE
  /\ UNCHANGED <<zvars, rvars, bvars, evicted, evicted_bytes, updated, linked, given, refs,
                 entry, evpc, wvars, svars, tvars, xvars, older>>

\* The zone was deleted or replaced: the entry is on its way to the garbage.
Unlink ==
  /\ linked /\ evpc = "idle" /\ ~busy
  /\ linked' = FALSE
  /\ UNCHANGED <<zvars, rvars, bvars, evicted, evicted_bytes, updated, busy, given, refs,
                 entry, evpc, wvars, svars, tvars, xvars, older>>

Evictable == kind = "db" /\ linked /\ ~busy /\ active # Empty /\ Quiet /\ refs = 1

\* dbreg_evict_locked(): what it looks at before it tries writer_lock ...
EvictCheck ==
  /\ evpc = "idle" /\ Evictable
  /\ evpc' = "checked"
  /\ UNCHANGED <<zvars, rvars, bvars, evicted, evicted_bytes, updated, busy, linked, given,
                 refs, entry, wvars, svars, tvars, xvars, older>>

\* A bug: the zone goes although only the memory has its latest change.
EvictLosesUpdate == writer = "none"

\* ... what it looks at with the lock ...
EvictLocked == writer = "none" /\ ~updated

EvictFails ==
  /\ evpc = "checked" /\ ~EvictLocked
  /\ evpc' = "idle"
  /\ UNCHANGED <<zvars, rvars, bvars, evicted, evicted_bytes, updated, busy, linked, given,
                 refs, entry, wvars, svars, tvars, xvars, older>>

\* A bug: the version that leaves memory still counts as served.
EvictStaysCounted == counted' = counted

EvictUncounts == counted' = counted \ {active}

\* ... and the data leaves memory, the entry the directory.
Evict ==
  /\ evpc = "checked" /\ EvictLocked
  /\ evicted' = TRUE /\ linked' = FALSE
  /\ EvictUncounts
  /\ LET bytes == BytesOf(counted \cap {active}) IN
       /\ resident' = resident - bytes
       /\ retired' = retired + bytes
       /\ evicted_bytes' = bytes
       /\ evict_inflight' = evict_inflight + bytes
  /\ evpc' = "idle"
  /\ UNCHANGED <<kind, active, nver, prev, expired, rvars, previous, prev_inflight, updated,
                 busy, given, refs, entry, wvars, svars, tvars, xvars, older>>

\* Who has the entry through a snapshot.
Held == found # {} \/ is_transferring \/ cmd \/ \E s \in Senders: spc[s] # "idle"

\* A bug: the reference goes back as soon as the entry is out of the directory.
UnrefWhileHeld ==
  /\ ~linked /\ ~given
  /\ given' = TRUE
  /\ zone_entry_unref
  /\ UNCHANGED <<zvars, rvars, bvars, evicted, evicted_bytes, updated, busy, linked, evpc,
                 wvars, svars, tvars, xvars, older>>

\* The garbage list with the entry is freed: no reader of a snapshot has it any more.
zdir_entry_unref ==
  /\ ~linked /\ ~given /\ ~Held
  /\ given' = TRUE
  /\ zone_entry_unref
  /\ UNCHANGED <<zvars, rvars, bvars, evicted, evicted_bytes, updated, busy, linked, evpc,
                 wvars, svars, tvars, xvars, older>>

free_zone_db_entry ==
  /\ entry = "dying" /\ active_axfr = 0
  /\ entry' = "gone"
  /\ freed' = freed \cup ({prev, active} \ {None, Empty})
  /\ previous' = previous - BytesOf({prev} \ {None})
  /\ resident' = resident - BytesOf(counted \cap {active})
  /\ retired' = retired - evicted_bytes
  /\ evict_inflight' = evict_inflight - evicted_bytes
  /\ evicted_bytes' = 0
  /\ prev' = None /\ active' = Empty /\ counted' = counted \ {active} /\ expired' = FALSE
  /\ UNCHANGED <<kind, nver, stack, batch, from_prev, leaked, prev_inflight, evicted,
                 updated, busy, linked, given, refs, evpc, wvars, svars, tvars, xvars, older>>

-----------------------------------------------------------------------------

Next ==
  \/ \E r \in Readers: Enter(r) \/ Find(r) \/ Load(r) \/ Exit(r)
  \/ \E r \in Readers, s \in Senders: StartSender(r, s)
  \/ \E s \in Senders:
       StartSenderFails(s) \/ SenderEnter(s) \/ SenderLoad(s) \/ SenderDone(s) \/ SenderExit(s)
  \/ StartTransfer \/ TransferLoad \/ TransferEnd \/ CommandFind \/ CommandEnd
  \/ \E w \in {"update", "reload", "install", "rollback", "xfr"},
        r \in Readers \cup {Control}: Lock(w, r)
  \/ wait_for_active_axfr \/ Abort
  \/ \E keepsecs \in KeepPrev, same \in BOOLEAN: zone_publish_ex(keepsecs, same)
  \/ \E v \in Versions: RetirePush(v) \/ RetireWait(v) \/ RetireLeak(v) \/ RetireItem(v)
  \/ RetireFree \/ Unlock \/ TakeStack
  \/ Expire \/ entry_ref_if_live \/ SweepDrop \/ SweepSkip \/ SweepUnref
  \/ dbreg_lookup_entry_busy \/ InstallEnd \/ Unlink
  \/ EvictCheck \/ EvictFails \/ Evict
  \/ zdir_entry_unref \/ free_zone_db_entry

Spec == Init /\ [][Next]_vars

-----------------------------------------------------------------------------
(* Properties *)

\* A version that somebody reads (a reader in its section, a transfer that sends it, the
\* transfer that compares with it) or that the entry points to is not freed, and the
\* entry itself is there for everybody who has it: readers, transfers, commands, the
\* walker of the prev list, and the items of the retire stack, which look at its counts.
NoUseAfterFree ==
  /\ ({tver[t]: t \in Threads} \cup {xver, active, prev, wver} \cup wlist
       \cup stack \cup batch) \cap freed = {}
  /\ Held \/ stack \cup batch # {} \/ sweep # "idle" \/ writer # "none" => entry # "gone"

\* Every version made is in exactly one place: no version is lost without being freed
\* (or given up on purpose when there is no memory), and none is freed twice.
OneOwner ==
  \A v \in 1 .. nver:
    Cardinality({i \in 1 .. 8: v \in <<{active}, {prev}, stack, batch, wlist, {wver},
                                       leaked, freed>>[i]}) = 1

\* The byte totals that the cache manager decides by (zone_bytes_*, g_prev_inflight,
\* g_evict_inflight) are the bytes of the versions in that state.
BytesExact ==
  /\ resident = BytesOf(counted) /\ (evicted \/ counted = {active} \ {Empty})
  /\ retired = BytesOf(stack \cup batch \cup leaked) + evicted_bytes
  /\ previous = BytesOf({prev} \ {None})
  /\ prev_inflight = BytesOf(from_prev) /\ from_prev \subseteq stack \cup batch
  /\ evict_inflight = evicted_bytes

\* Every version made is in exactly one place and the totals say how many bytes are where
\* (zone_version_retire(), zone_prev_set_locked(), dbreg_evict_locked(), zone_bytes_*).
Accounted == OneOwner /\ BytesExact

\* The latest version of a zone is not thrown away while only the memory has it: a zone
\* changed by an UPDATE or a rollback stays until the database has sent it again.
UpdateStays == evicted => ~updated

\* Nobody publishes into an entry that was taken out of memory: the answer to the change
\* would say it was made, and no query would ever see it.
EvictedIsFinal == [][evicted /\ entry # "gone" => active' \in {active, Empty}]_vars
=============================================================================
