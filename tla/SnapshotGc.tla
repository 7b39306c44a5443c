----------------------------- MODULE SnapshotGc -----------------------------
(***************************************************************************)
(* The zone database snapshots of dns_snapshot_rcu.c and the collection of *)
(* what they throw away.  Snapshots are numbered in the order of their     *)
(* publication, which is the order of their retirement.  A snapshot lists  *)
(* one directory (one view); a delta shares the directory of the snapshot  *)
(* before it and changes its index in place, a full rebuild makes a new    *)
(* directory, named after the snapshot that it was made for.               *)
(*                                                                         *)
(* The index holds elements that the directory owns and elements of the    *)
(* database registry.  What leaves the index is garbage: the publication   *)
(* hands it to the snapshot it retires, whose cleanup thread frees it when *)
(* this snapshot and all older ones have no reader any more.               *)
(*                                                                         *)
(* A grace period is what GracePeriod promises and EpochRcu implements:    *)
(* the sections open at the retirement have all been closed.               *)
(***************************************************************************)
EXTENDS Integers, FiniteSets, FiniteSetsExt

CONSTANTS
  Readers,   \* threads that use snapshots
  Owned,     \* elements a directory owns (ZDIR_K_OWNED)
  Registry,  \* elements of the database registry
  MaxSnap    \* bound of the number of snapshots published

ASSUME KindsAssumption == Owned \cap Registry = {}
ASSUME MaxSnapAssumption == MaxSnap \in Nat \ {0}

Elems == Owned \cup Registry
Snaps == 1 .. MaxSnap
NoSnap == 0

VARIABLES
  cur,          \* g_zone_db_active
  dir,          \* Snaps -> the directory the snapshot lists
  refs,         \* directories -> zdir_t.refs
  index,        \* directories -> the elements in the index
  made,         \* elements that were allocated
  registry,     \* elements that are in the registry
  adds, removes,\* the queues of the registry for the next delta
  g_garb,       \* elements -> how often the element is on g_garb
  garb,         \* Snaps -> the garbage list handed to the snapshot
  flagged,      \* ZDIR_F_GARB
  frees,        \* elements -> how often the element was freed
  wpc,          \* what the holder of g_zone_db_rebuild_lock has changed
  ndir,         \* the directory of the snapshot being made
  queued,       \* the retired snapshots, oldest is the smallest
  gc_started, gc_drained, g_gc_unstarted,
  starting,     \* the snapshot gc_start_pending() has claimed
  gcpc,         \* Snaps -> where the cleanup thread is
  gone,         \* snapshots that were freed
  section, rsnap, retained, relems,  \* the readers
  reader_count,
  older         \* Snaps -> sections open since before its retirement

dvars == <<cur, dir, refs, index, made, ndir, wpc>>
qvars == <<registry, adds, removes>>
fvars == <<g_garb, garb, flagged, frees>>
gvars == <<queued, gc_started, gc_drained, g_gc_unstarted, starting, gcpc, gone>>
rvars == <<section, rsnap, retained, relems, reader_count>>
vars == <<dvars, qvars, fvars, gvars, rvars, older>>

Counts == [Elems -> Nat]

\* Every variable has its type; reference and reader counts never go below zero.
TypeOK ==
  /\ cur \in Snaps
  /\ dir \in [Snaps -> Snaps \cup {NoSnap}]
  /\ refs \in [Snaps -> Nat]
  /\ index \in [Snaps -> SUBSET Elems]
  /\ made \subseteq Elems
  /\ registry \subseteq Registry /\ adds \subseteq Registry /\ removes \subseteq Registry
  /\ g_garb \in Counts /\ garb \in [Snaps -> Counts]
  /\ flagged \subseteq Elems
  /\ frees \in Counts
  /\ wpc \in {"idle", "delta", "catalog", "rebuild"}
  /\ ndir \in Snaps \cup {NoSnap}
  /\ queued \subseteq Snaps
  /\ gc_started \subseteq Snaps /\ gc_drained \subseteq Snaps
  /\ g_gc_unstarted \in Nat
  /\ starting \in Snaps \cup {NoSnap}
  /\ gcpc \in [Snaps -> {"none", "epoch", "count", "unref", "drain", "end"}]
  /\ gone \subseteq Snaps
  /\ section \subseteq Readers
  /\ rsnap \in [Readers -> Snaps \cup {NoSnap}]
  /\ retained \subseteq Readers
  /\ relems \in [Readers -> SUBSET Elems]
  /\ reader_count \in [Snaps -> Nat]
  /\ older \in [Snaps -> SUBSET Readers]

NoGarbage == [x \in Elems |-> 0]

Init ==
  /\ cur = 1
  /\ dir = [s \in Snaps |-> IF s = 1 THEN 1 ELSE NoSnap]
  /\ refs = [s \in Snaps |-> IF s = 1 THEN 1 ELSE 0]
  /\ index = [s \in Snaps |-> {}]
  /\ made = {} /\ registry = {} /\ adds = {} /\ removes = {}
  /\ g_garb = NoGarbage /\ garb = [s \in Snaps |-> NoGarbage]
  /\ flagged = {} /\ frees = NoGarbage
  /\ wpc = "idle" /\ ndir = NoSnap
  /\ queued = {} /\ gc_started = {} /\ gc_drained = {}
  /\ g_gc_unstarted = 0 /\ starting = NoSnap
  /\ gcpc = [s \in Snaps |-> "none"]
  /\ gone = {}
  /\ section = {} /\ retained = {}
  /\ rsnap = [r \in Readers |-> NoSnap]
  /\ relems = [r \in Readers |-> {}]
  /\ reader_count = [s \in Snaps |-> 0]
  /\ older = [s \in Snaps |-> {}]

-----------------------------------------------------------------------------
(* Writers, one at a time: g_zone_db_rebuild_lock *)

\* A bug: an element that is on a garbage list already is put there again.
GarbElemUnflagged(g, S) == [x \in Elems |-> g[x] + IF x \in S THEN 1 ELSE 0]

\* The list g with the elements S that are on no garbage list yet.
garb_elem(g, S) == [x \in Elems |-> g[x] + IF x \in S \ flagged THEN 1 ELSE 0]

Discard(S) ==
  /\ g_garb' = garb_elem(g_garb, S)
  /\ flagged' = flagged \cup S

\* A new entry of a database zone.  Its element waits for the next delta unless
\* the index has it or a zone of the configuration or a catalog hides it.
dbreg_commit(x) ==
  /\ wpc = "idle"
  /\ x \in registry \cup (Registry \ made)
  /\ made' = made \cup {x}
  /\ registry' = registry \cup {x}
  /\ \E shadowed \in BOOLEAN:
       adds' = IF shadowed \/ x \in index[dir[cur]] THEN adds ELSE adds \cup {x}
  /\ UNCHANGED <<cur, dir, refs, index, ndir, wpc, removes, fvars, gvars, rvars, older>>

\* An element that is in the index or waits for it leaves with the next delta, any
\* other one (a rebuild hid it) is garbage at once.
dbreg_delete(x) ==
  /\ wpc = "idle"
  /\ x \in registry
  /\ registry' = registry \ {x}
  /\ IF x \in adds \/ x \in index[dir[cur]]
       THEN removes' = removes \cup {x} /\ UNCHANGED <<g_garb, flagged>>
       ELSE Discard({x}) /\ UNCHANGED removes
  /\ UNCHANGED <<dvars, adds, garb, frees, gvars, rvars, older>>

\* The new snapshot shares the directory of the current one.
snap_clone_locked ==
  /\ ndir' = dir[cur]
  /\ refs' = [refs EXCEPT ![dir[cur]] = @ + 1]

\* snapshot_apply_db_delta() up to the publication: the plan of the queued
\* changes is applied to the index that readers see.  An addition whose name is
\* taken by the configuration or a catalog stays hidden in the registry.
ApplyDelta ==
  /\ wpc = "idle" /\ cur < MaxSnap
  /\ adds \cup removes # {}
  /\ snap_clone_locked
  /\ \E hidden \in SUBSET adds:
       index' = [index EXCEPT ![dir[cur]] = (@ \ removes) \cup ((adds \cap registry) \ hidden)]
  /\ Discard(removes \cap index[dir[cur]])
  /\ wpc' = "delta"
  /\ UNCHANGED <<cur, dir, made, qvars, garb, frees, gvars, rvars, older>>

\* A catalog change: members leave and enter the index in place.  A member may
\* take the place of a registry element, which stays in the registry, and one
\* that leaves uncovers the registry element that it hid.
ApplyCatalog ==
  /\ wpc = "idle" /\ cur < MaxSnap
  /\ snap_clone_locked
  /\ \E out \in SUBSET index[dir[cur]], new \in SUBSET (Owned \ made),
        back \in SUBSET (registry \ adds):
       /\ index' = [index EXCEPT ![dir[cur]] = (@ \ out) \cup new \cup back]
       /\ Discard(out \cap Owned)
       /\ made' = made \cup new
  /\ wpc' = "catalog"
  /\ UNCHANGED <<cur, dir, qvars, garb, frees, gvars, rvars, older>>

\* A full rebuild: a new directory with new elements of its own and those
\* registry elements that the configuration does not hide.
BuildDirectory ==
  /\ wpc = "idle" /\ cur < MaxSnap
  /\ ndir' = cur + 1
  /\ refs' = [refs EXCEPT ![cur + 1] = 1]
  /\ \E shown \in SUBSET registry, new \in SUBSET (Owned \ made):
       /\ index' = [index EXCEPT ![cur + 1] = shown \cup new]
       /\ made' = made \cup new
  /\ wpc' = "rebuild"
  /\ UNCHANGED <<cur, dir, qvars, fvars, gvars, rvars, older>>

\* rcu_writer_publish(), dbreg_pending_drop_locked() and gc_retire_locked():
\* the old snapshot takes the garbage and joins the queue.
PublishAndRetire ==
  /\ wpc # "idle"
  /\ cur' = cur + 1
  /\ dir' = [dir EXCEPT ![cur + 1] = ndir]
  /\ older' = [older EXCEPT ![cur] = section]
  /\ LET dropped == IF wpc = "catalog" THEN {} ELSE removes IN
       /\ garb' = [garb EXCEPT ![cur] = garb_elem(g_garb, dropped)]
       /\ flagged' = flagged \cup dropped
  /\ g_garb' = NoGarbage
  /\ IF wpc = "catalog" THEN UNCHANGED <<adds, removes>>
                        ELSE adds' = {} /\ removes' = {}
  /\ queued' = queued \cup {cur}
  /\ g_gc_unstarted' = g_gc_unstarted + 1
  /\ wpc' = "idle" /\ ndir' = NoSnap
  /\ UNCHANGED <<refs, index, made, registry, frees, gc_started, gc_drained,
                 starting, gcpc, gone, rvars>>

-----------------------------------------------------------------------------
(* Cleanup threads *)

\* gc_start_pending(), called after a publication, by the control thread's tick
\* and by a cleanup thread that ends, holds g_gc_start_lock over a round.
\* It claims the oldest snapshot that has no thread ...
StartClaim ==
  /\ starting = NoSnap
  /\ g_gc_unstarted # 0
  /\ queued \ gc_started # {}
  /\ starting' = Min(queued \ gc_started)
  /\ gc_started' = gc_started \cup {Min(queued \ gc_started)}
  /\ UNCHANGED <<dvars, qvars, fvars, queued, gc_drained, g_gc_unstarted, gcpc, gone,
                 rvars, older>>

\* ... pthread_create() succeeds ...
StartThread ==
  /\ starting # NoSnap /\ gcpc[starting] = "none"
  /\ gcpc' = [gcpc EXCEPT ![starting] = "epoch"]
  /\ UNCHANGED <<dvars, qvars, fvars, queued, gc_started, gc_drained, g_gc_unstarted,
                 starting, gone, rvars, older>>

\* ... and is counted, perhaps after the new thread has already ended ...
StartDone ==
  /\ starting # NoSnap /\ gcpc[starting] # "none"
  /\ g_gc_unstarted' = g_gc_unstarted - 1
  /\ starting' = NoSnap
  /\ UNCHANGED <<dvars, qvars, fvars, queued, gc_started, gc_drained, gcpc, gone,
                 rvars, older>>

\* ... or fails: the snapshot stays queued for the next round.
StartFailed ==
  /\ starting # NoSnap /\ gcpc[starting] = "none"
  /\ gc_started' = gc_started \ {starting}
  /\ starting' = NoSnap
  /\ UNCHANGED <<dvars, qvars, fvars, queued, gc_drained, g_gc_unstarted, gcpc, gone,
                 rvars, older>>

\* gc_snapshot_thread(): first the grace period ...
GcEpoch(s) ==
  /\ gcpc[s] = "epoch" /\ older[s] = {}
  /\ gcpc' = [gcpc EXCEPT ![s] = "count"]
  /\ UNCHANGED <<dvars, qvars, fvars, queued, gc_started, gc_drained, g_gc_unstarted,
                 starting, gone, rvars, older>>

\* A bug: the references that readers keep beyond their section are not waited for.
GcCountSkipped(s) ==
  /\ gcpc[s] = "count"
  /\ gcpc' = [gcpc EXCEPT ![s] = "unref"]
  /\ UNCHANGED <<dvars, qvars, fvars, queued, gc_started, gc_drained, g_gc_unstarted,
                 starting, gone, rvars, older>>

\* ... then the references of retain_zone_snapshot().
GcCount(s) ==
  /\ gcpc[s] = "count" /\ reader_count[s] = 0
  /\ gcpc' = [gcpc EXCEPT ![s] = "unref"]
  /\ UNCHANGED <<dvars, qvars, fvars, queued, gc_started, gc_drained, g_gc_unstarted,
                 starting, gone, rvars, older>>

\* free_zone_db_snapshot(): zdir_unref() frees the directory, and the elements
\* that it owns, with the last snapshot that lists it.
GcUnref(s) ==
  /\ gcpc[s] = "unref"
  /\ LET d == dir[s]
         freed == IF refs[d] = 1 THEN (index[d] \cap Owned) \ flagged ELSE {} IN
       /\ refs' = [refs EXCEPT ![d] = @ - 1]
       /\ index' = IF refs[d] = 1 THEN [index EXCEPT ![d] = {}] ELSE index
       /\ frees' = [x \in Elems |-> frees[x] + IF x \in freed THEN 1 ELSE 0]
  /\ gcpc' = [gcpc EXCEPT ![s] = "drain"]
  /\ UNCHANGED <<cur, dir, made, ndir, wpc, qvars, g_garb, garb, flagged, queued,
                 gc_started, gc_drained, g_gc_unstarted, starting, gone, rvars, older>>

\* The places of x on the garbage lists of these snapshots.
Places(x, done) == UNION {{s} \X (1 .. garb[s][x]): s \in done}

\* garb_free() of each of these snapshots.
garb_free(done) == frees' = [x \in Elems |-> frees[x] + Cardinality(Places(x, done))]

\* A bug: only the snapshot that drains is looked at, and not the ones behind it
\* that drained before.
GcDrainedHeadOnly(s) ==
  /\ gcpc[s] = "drain"
  /\ gc_drained' = gc_drained \cup {s}
  /\ LET done == {q \in queued \cap {s}: \A p \in queued: q <= p} IN
       /\ garb_free(done)
       /\ queued' = queued \ done /\ gone' = gone \cup done
  /\ gcpc' = [gcpc EXCEPT ![s] = "end"]
  /\ UNCHANGED <<dvars, qvars, g_garb, garb, flagged, gc_started, g_gc_unstarted,
                 starting, rvars, older>>

\* gc_drained(): the drained snapshots at the head of the queue are freed.
GcDrained(s) ==
  /\ gcpc[s] = "drain"
  /\ gc_drained' = gc_drained \cup {s}
  /\ LET done == {q \in queued: \A p \in queued: p <= q => p \in gc_drained'} IN
       /\ garb_free(done)
       /\ queued' = queued \ done /\ gone' = gone \cup done
  /\ gcpc' = [gcpc EXCEPT ![s] = "end"]
  /\ UNCHANGED <<dvars, qvars, g_garb, garb, flagged, gc_started, g_gc_unstarted,
                 starting, rvars, older>>

-----------------------------------------------------------------------------
(* Readers *)

Enter(r) ==
  /\ r \notin section /\ rsnap[r] = NoSnap
  /\ section' = section \cup {r}
  /\ UNCHANGED <<dvars, qvars, fvars, gvars, rsnap, retained, relems, reader_count,
                 older>>

acquire_zone_snapshot(r) ==
  /\ r \in section /\ rsnap[r] = NoSnap
  /\ rsnap' = [rsnap EXCEPT ![r] = cur]
  /\ UNCHANGED <<dvars, qvars, fvars, gvars, section, retained, relems, reader_count,
                 older>>

retain_zone_snapshot(r) ==
  /\ r \in section /\ rsnap[r] # NoSnap /\ r \notin retained
  /\ retained' = retained \cup {r}
  /\ reader_count' = [reader_count EXCEPT ![rsnap[r]] = @ + 1]
  /\ UNCHANGED <<dvars, qvars, fvars, gvars, section, rsnap, relems, older>>

\* zdir_tab_find(): the reader walks the index as it is now.
Lookup(r, x) ==
  /\ rsnap[r] # NoSnap
  /\ x \in index[dir[rsnap[r]]]
  /\ relems' = [relems EXCEPT ![r] = @ \cup {x}]
  /\ UNCHANGED <<dvars, qvars, fvars, gvars, section, rsnap, retained, reader_count,
                 older>>

\* The section ends; without a reference the snapshot and its elements go too.
Exit(r) ==
  /\ r \in section
  /\ section' = section \ {r}
  /\ older' = [s \in Snaps |-> older[s] \ {r}]
  /\ IF r \in retained
       THEN UNCHANGED <<rsnap, relems>>
       ELSE /\ rsnap' = [rsnap EXCEPT ![r] = NoSnap]
            /\ relems' = [relems EXCEPT ![r] = {}]
  /\ UNCHANGED <<dvars, qvars, fvars, gvars, retained, reader_count>>

release_zone_snapshot(r) ==
  /\ r \in retained /\ r \notin section
  /\ reader_count' = [reader_count EXCEPT ![rsnap[r]] = IF @ > 0 THEN @ - 1 ELSE @]
  /\ retained' = retained \ {r}
  /\ rsnap' = [rsnap EXCEPT ![r] = NoSnap]
  /\ relems' = [relems EXCEPT ![r] = {}]
  /\ UNCHANGED <<dvars, qvars, fvars, gvars, section, older>>

-----------------------------------------------------------------------------
GcStart == StartClaim \/ StartThread \/ StartDone \/ StartFailed
GcThread(s) == GcEpoch(s) \/ GcCount(s) \/ GcUnref(s) \/ GcDrained(s)

Writer ==
  \/ \E x \in Elems: dbreg_commit(x) \/ dbreg_delete(x)
  \/ ApplyDelta \/ ApplyCatalog \/ BuildDirectory \/ PublishAndRetire

Reader(r) ==
  \/ Enter(r) \/ acquire_zone_snapshot(r) \/ retain_zone_snapshot(r)
  \/ \E x \in Elems: Lookup(r, x)
  \/ Exit(r) \/ release_zone_snapshot(r)

Next ==
  \/ Writer \/ GcStart
  \/ \E s \in Snaps: GcThread(s)
  \/ \E r \in Readers: Reader(r)

Spec == Init /\ [][Next]_vars

\* Readers leave their sections and give their references back, threads run, the
\* tick tries again to start a cleanup thread, and it can be started at last.
Fairness ==
  /\ \A r \in Readers: WF_vars(Exit(r)) /\ WF_vars(release_zone_snapshot(r))
  /\ WF_vars(PublishAndRetire)
  /\ WF_vars(StartClaim) /\ SF_vars(StartThread) /\ WF_vars(StartDone)
  /\ \A s \in Snaps: WF_vars(GcThread(s))

FairSpec == Spec /\ Fairness

-----------------------------------------------------------------------------
(* Properties *)

\* What a reader can touch is there: its snapshot, the directory of the snapshot
\* and every element that it found in the index, however old its snapshot is and
\* whatever left the shared index meanwhile (gc_drained() frees in order).
NoUseAfterFree ==
  \A r \in Readers:
    rsnap[r] # NoSnap =>
      /\ rsnap[r] \notin gone
      /\ refs[dir[rsnap[r]]] > 0
      /\ \A x \in relems[r]: frees[x] = 0

\* No element is freed twice: by two garbage lists, or by a garbage list and the
\* directory that owns it (ZDIR_F_GARB).
FreedOnce == \A x \in Elems: frees[x] <= 1

\* Every element that a directory still lists exists, also in a directory that
\* only old snapshots list: zdir_unref() looks at all of them.
DirectoriesIntact ==
  \A d \in Snaps: refs[d] > 0 => \A x \in index[d]: frees[x] = 0

\* No element is freed twice, by two garbage lists or by a garbage list and the directory that owns
\* it, and what a directory still lists exists (garb_elem(), zdir_unref(), gc_drained()).
ElementsIntact == FreedOnce /\ DirectoriesIntact

\* g_gc_unstarted never misses a snapshot without a thread, so the tick and the
\* threads that end do not stop trying: the garbage behind it is not stuck.
UnstartedCounted ==
  g_gc_unstarted = Cardinality(queued \ gc_started) + (IF starting = NoSnap THEN 0 ELSE 1)

\* Every retired snapshot is freed in the end, with its garbage.
RetiredIsFreed == \A s \in Snaps: (s \in queued) ~> (s \in gone)
=============================================================================
