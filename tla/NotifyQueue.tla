---------------------------- MODULE NotifyQueue ----------------------------
(***************************************************************************)
(* Who is still owed a NOTIFY.  A zone in memory has the flag notify_now   *)
(* and the count g_zone_notify_pending that makes the tick of the control  *)
(* thread walk every zone (dns_server_internal.h, dns_server_core.c).  A   *)
(* zone out of memory goes through a ring; when it is full the zone keeps  *)
(* the mark ZDIR_F_NOTIFY_DEFER until the sweep of the registry finds it   *)
(* (dns_snapshot_rcu.c).  The registry lock makes each function one step.  *)
(***************************************************************************)
EXTENDS Naturals, Sequences, FiniteSets, SequencesExt

CONSTANTS
  NZones,         \* the zones, 1 .. NZones, one per bucket of the registry
  NrnRing,        \* NRN_RING
  SweepSlice,     \* NRN_SWEEP_SLICE
  PopMax,         \* what a tick takes out of the ring
  MaxChanges      \* bound: changes of a serial and requests

NZ == 1 .. NZones

VARIABLES
  inmem,          \* zones that have their data in memory
  due, defer,     \* ZDIR_F_NOTIFY_DUE, ZDIR_F_NOTIFY_DEFER
  deleted,        \* ZDIR_F_DELETED: gone from the registry
  nrn, overflow,  \* the ring, g_nrn_overflow
  sb, seen, drops,\* the sweep: its cursor, a deferred zone was seen, an overflow since it began
  notify_now,     \* the flag of a zone in memory
  npending,       \* g_zone_notify_pending # 0
  requester,      \* zones whose request has set the flag and not the count yet
  delayed,        \* zones inside of notify-delay
  tick,           \* the control thread: what is left of this tick
  updated,        \* zones that UPDATE changed in memory
  owe,            \* zones that changed since their last NOTIFY
  lost,           \* zones that were taken out of memory with a request
  changes

nqvars == <<inmem, due, defer, deleted, nrn, overflow, sb, seen, drops, notify_now, npending,
            requester, delayed, tick, updated, owe, lost, changes>>
marks == <<due, defer, nrn, overflow, drops>>
sweeping == <<sb, seen>>
flags == <<notify_now, npending, requester, delayed>>

Idle == [at |-> "idle", all |-> FALSE, left |-> {}, pops |-> 0]

NqInit ==
  /\ inmem \in SUBSET NZ /\ due = {} /\ defer = {} /\ deleted = {} /\ nrn = <<>> /\ overflow = FALSE
  /\ sb = 1 /\ seen = FALSE /\ drops = FALSE /\ notify_now = {} /\ npending = FALSE
  /\ requester = {} /\ delayed = {} /\ tick = Idle /\ updated = {} /\ owe = {} /\ lost = {} /\ changes = 0

Counted == changes < MaxChanges /\ changes' = changes + 1
nrn_room == Len(nrn) < NrnRing

nrn_queue_locked(z) ==
  /\ due' = due \ {z}
  /\ IF nrn_room
     THEN nrn' = Append(nrn, z) /\ defer' = defer \ {z} /\ UNCHANGED <<overflow, drops>>
     ELSE defer' = defer \cup {z} /\ overflow' = TRUE /\ drops' = TRUE /\ UNCHANGED nrn

(***************************************************************************)
(* The ingest thread and the cache manager.                                *)
(***************************************************************************)
\* dbreg_apply_summary(), dbreg_commit_cold(): another serial for a zone without data.
Changed(z) ==
  /\ z \notin inmem \cup deleted /\ Counted
  /\ due' = due \cup {z} /\ owe' = owe \cup {z}
  /\ UNCHANGED <<inmem, defer, deleted, updated, lost, nrn, overflow, drops, sweeping, flags, tick>>

\* The summary of that version brings its apex, or none.
dbreg_set_apex(z) ==
  /\ z \in due \ (inmem \cup deleted)
  /\ nrn_queue_locked(z)
  /\ UNCHANGED <<inmem, deleted, updated, lost, sweeping, flags, tick, owe, changes>>

\* The data of a zone that was out of memory: a fetch, or the body of a changed zone.
dbreg_commit(z, changed) ==
  /\ z \notin inmem \cup deleted /\ inmem' = inmem \cup {z}
  /\ IF changed THEN Counted ELSE UNCHANGED changes
  /\ owe' = IF changed THEN owe \cup {z} ELSE owe
  /\ IF z \in due \/ changed THEN nrn_queue_locked(z) ELSE UNCHANGED marks
  /\ UNCHANGED <<deleted, updated, lost, sweeping, flags, tick>>

\* A zone whose NOTIFY is in the ring or deferred stays in memory, and one that UPDATE changed.
\* A request that the entry holds (notify_now) goes with it.
dbreg_evict_locked(z) ==
  /\ z \in inmem \ (defer \cup Range(nrn) \cup updated) /\ inmem' = inmem \ {z}
  /\ lost' = lost \cup ({z} \cap notify_now)
  /\ notify_now' = notify_now \ {z} /\ owe' = owe \ {z}
  /\ UNCHANGED <<deleted, updated, marks, sweeping, npending, requester, delayed, tick, changes>>

\* The zone leaves the registry and is owed nothing.
dbreg_delete(z) ==
  /\ z \notin deleted /\ deleted' = deleted \cup {z} /\ inmem' = inmem \ {z}
  /\ owe' = owe \ {z} /\ notify_now' = notify_now \ {z}
  /\ UNCHANGED <<updated, lost, marks, sweeping, npending, requester, delayed, tick, changes>>

(***************************************************************************)
(* zone_notify_request(): UPDATE, an install over data in memory, karictl  *)
(* notify.  First the flag, then the count.                                *)
(***************************************************************************)
\* An UPDATE keeps the zone in memory until the database's version replaces it.
RequestFlag(z, by) ==
  /\ z \in inmem \ requester /\ Counted /\ owe' = owe \cup {z}
  /\ notify_now' = notify_now \cup {z} /\ requester' = requester \cup {z}
  /\ updated' = CASE by = "update" -> updated \cup {z}
                  [] by = "install" -> updated \ {z}
                  [] by = "karictl" -> updated
  /\ UNCHANGED <<inmem, deleted, lost, marks, sweeping, npending, delayed, tick>>

RequestCount(z) ==
  /\ z \in requester /\ requester' = requester \ {z} /\ npending' = TRUE
  /\ UNCHANGED <<inmem, deleted, updated, lost, marks, sweeping, notify_now, delayed, tick, owe, changes>>

DelayOver(z) ==
  /\ z \in delayed /\ delayed' = delayed \ {z}
  /\ UNCHANGED <<inmem, deleted, updated, lost, marks, sweeping, notify_now, npending, requester, tick,
                 owe, changes>>

(***************************************************************************)
(* The tick of the control thread.                                         *)
(***************************************************************************)
\* A pass begins at the first bucket.
SweepState ==
  [sb |-> sb, seen |-> seen /\ sb # 1, drops |-> drops /\ sb # 1, defer |-> defer, due |-> due,
   nrn |-> nrn, over |-> overflow, left |-> SweepSlice]

Visit(s) ==
  LET z == s.sb IN
  IF z \notin s.defer \ deleted THEN [s EXCEPT !.sb = @ + 1, !.left = @ - 1]
  ELSE IF Len(s.nrn) >= NrnRing THEN [s EXCEPT !.seen = TRUE, !.left = 0]
  ELSE [s EXCEPT !.sb = @ + 1, !.left = @ - 1, !.seen = TRUE, !.defer = @ \ {z}, !.due = @ \ {z},
                 !.nrn = Append(@, z)]

\* The next pass does not begin at the first bucket.
PassEndsHere(s) == [s EXCEPT !.left = 0, !.over = @ /\ (s.seen \/ s.drops)]

PassEnds(s) == [s EXCEPT !.sb = 1, !.left = 0, !.over = @ /\ (s.seen \/ s.drops)]

\* One slice of the registry, with the lock.
dbreg_notify_sweep ==
  LET After[i \in 0 .. NZones + 1] ==
        IF i = 0 THEN SweepState
        ELSE LET p == After[i - 1] IN
             IF p.left = 0 THEN p ELSE IF p.sb > NZones THEN PassEnds(p) ELSE Visit(p)
  IN \E s \in {After[NZones + 1]} :
       /\ sb' = s.sb /\ seen' = s.seen /\ drops' = s.drops /\ defer' = s.defer /\ due' = s.due
       /\ nrn' = s.nrn /\ overflow' = s.over

TickStarts ==
  /\ tick.at = "idle" /\ tick' = [Idle EXCEPT !.at = "pop", !.pops = PopMax]
  /\ IF overflow THEN dbreg_notify_sweep ELSE UNCHANGED <<marks, sweeping>>
  /\ UNCHANGED <<inmem, deleted, updated, lost, flags, owe, changes>>

\* control_zone_notify_queue(): from the entry or from the apex, whichever is there now.
dbreg_notify_pop ==
  /\ tick.at = "pop" /\ tick.pops > 0 /\ nrn # <<>>
  /\ nrn' = Tail(nrn) /\ owe' = owe \ {Head(nrn)} /\ tick' = [tick EXCEPT !.pops = @ - 1]
  /\ UNCHANGED <<inmem, due, defer, deleted, updated, lost, overflow, drops, sweeping, flags, changes>>

\* The count is taken back before the walk.
WalkStarts ==
  /\ tick.at = "pop" /\ (tick.pops = 0 \/ nrn = <<>>)
  /\ tick' = [Idle EXCEPT !.at = "walk", !.left = IF npending THEN NZ ELSE {}]
  /\ npending' = FALSE
  /\ UNCHANGED <<inmem, deleted, updated, lost, marks, sweeping, notify_now, requester, delayed, owe, changes>>

\* A request inside of notify-delay waits: the flag stays and is counted again.
WalkZone(z) ==
  /\ tick.at = "walk" /\ z \in tick.left /\ tick' = [tick EXCEPT !.left = @ \ {z}]
  /\ CASE z \in inmem \cap notify_now \cap delayed ->
            npending' = TRUE /\ UNCHANGED <<notify_now, delayed, owe>>
       [] z \in (inmem \cap notify_now) \ delayed ->
            /\ notify_now' = notify_now \ {z} /\ delayed' = delayed \cup {z} /\ owe' = owe \ {z}
            /\ UNCHANGED npending
       [] OTHER -> UNCHANGED <<notify_now, delayed, owe, npending>>
  /\ UNCHANGED <<inmem, deleted, updated, lost, marks, sweeping, requester, changes>>

TickEnds ==
  /\ tick.at = "walk" /\ tick.left = {} /\ tick' = Idle
  /\ UNCHANGED <<inmem, deleted, updated, lost, marks, sweeping, flags, owe, changes>>

NqTick == TickStarts \/ dbreg_notify_pop \/ WalkStarts \/ TickEnds \/ \E z \in NZ : WalkZone(z)

NqNext ==
  \/ NqTick
  \/ \E z \in NZ :
       \/ Changed(z) \/ dbreg_set_apex(z) \/ dbreg_evict_locked(z) \/ dbreg_delete(z)
       \/ RequestCount(z) \/ DelayOver(z)
       \/ \E changed \in BOOLEAN : dbreg_commit(z, changed)
       \/ \E by \in {"update", "install", "karictl"} : RequestFlag(z, by)
=============================================================================
