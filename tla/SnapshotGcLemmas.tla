-------------------------- MODULE SnapshotGcLemmas --------------------------
(***************************************************************************)
(* The lower half of the proofs about SnapshotGc: the types, the queue of  *)
(* retired snapshots, what readers hold, and the reference counts, each as *)
(* an invariant with the lemma that every step keeps it.  SnapshotGcProofs *)
(* goes on with the garbage and has the theorems.                          *)
(***************************************************************************)
EXTENDS SnapshotGc, FiniteSetTheorems, NaturalsInduction, TLAPS

\* A set of snapshots that is not empty has an oldest one.
LEMMA OldestSnap ==
  ASSUME NEW D \in SUBSET Snaps, D # {}
  PROVE  Min(D) \in D
<1>1. D \in SUBSET Nat
  BY MaxSnapAssumption DEF Snaps
<1>2. PICK d \in D : \A e \in D : ~ (<<e, d>> \in OpToRel(<, Nat))
  BY <1>1, NatLessThanWellFounded, WFMin
<1>3. ASSUME NEW e \in D PROVE d <= e
  <2>1. d \in Nat /\ e \in Nat
    BY <1>1
  <2>2. e < d => <<e, d>> \in OpToRel(<, Nat)
    BY <2>1 DEF OpToRel
  <2>3. ~ (e < d)
    BY <1>2, <2>2, Zenon
  <2>. QED  BY <2>1, <2>3
<1>. QED  BY <1>3, Zenon DEF Min

-----------------------------------------------------------------------------
(* Types.  That the counters never go below zero follows from what they    *)
(* count, so that the types below let them; how often an element is freed  *)
(* comes with the invariant about it.                                      *)

DirTypes ==
  /\ cur \in Snaps /\ (wpc # "idle" => cur < MaxSnap)
  /\ dir \in [Snaps -> Snaps \cup {NoSnap}]
  /\ refs \in [Snaps -> Int]
  /\ index \in [Snaps -> SUBSET Elems]
  /\ made \subseteq Elems
  /\ wpc \in {"idle", "delta", "catalog", "rebuild"}
  /\ ndir \in Snaps \cup {NoSnap}

QueueTypes == registry \subseteq Registry /\ adds \subseteq Registry /\ removes \subseteq Registry

GarbTypes == g_garb \in Counts /\ garb \in [Snaps -> Counts] /\ flagged \subseteq Elems

GcTypes ==
  /\ queued \subseteq Snaps
  /\ gc_started \subseteq Snaps /\ gc_drained \subseteq Snaps
  /\ g_gc_unstarted \in Int
  /\ starting \in Snaps \cup {NoSnap}
  /\ gcpc \in [Snaps -> {"none", "epoch", "count", "unref", "drain", "end"}]
  /\ gone \subseteq Snaps

ReaderTypes ==
  /\ section \subseteq Readers
  /\ rsnap \in [Readers -> Snaps \cup {NoSnap}]
  /\ retained \subseteq Readers
  /\ relems \in [Readers -> SUBSET Elems]
  /\ reader_count \in [Snaps -> Nat]

OlderTypes == older \in [Snaps -> SUBSET Readers]

Types == DirTypes /\ QueueTypes /\ GarbTypes /\ GcTypes /\ ReaderTypes /\ OlderTypes

\* The initial state has the types.
LEMMA InitTypes == Init => Types
<1> SUFFICES ASSUME Init
             PROVE  Types
  OBVIOUS
<1>1. cur \in Snaps /\ NoGarbage \in Counts /\ 1 \in Snaps
  BY MaxSnapAssumption DEF Init, Snaps, NoGarbage, Counts
<1>2. dir \in [Snaps -> Snaps \cup {NoSnap}]
  BY <1>1 DEF Init
<1>3. refs \in [Snaps -> Int] /\ reader_count \in [Snaps -> Nat] /\ g_gc_unstarted \in Int
  BY DEF Init
<1>4. rsnap \in [Readers -> Snaps \cup {NoSnap}] /\ gcpc \in [Snaps -> {"none", "epoch", "count", "unref", "drain", "end"}]
  BY DEF Init
<1>. QED
  BY <1>1, <1>2, <1>3, <1>4 DEF Init, Types, DirTypes, QueueTypes, GarbTypes, GcTypes, ReaderTypes, OlderTypes

\* A garbage list that elements are added to.
LEMMA GarbType ==
  ASSUME NEW g \in Counts, NEW S
  PROVE  garb_elem(g, S) \in Counts
BY DEF garb_elem, Counts

\* Reference counts go up and down.
LEMMA CountType ==
  ASSUME NEW f \in [Snaps -> Int], NEW d
  PROVE  [f EXCEPT ![d] = @ + 1] \in [Snaps -> Int] /\ [f EXCEPT ![d] = @ - 1] \in [Snaps -> Int]
<1>1. \A s \in Snaps : f[s] + 1 \in Int /\ f[s] - 1 \in Int
  OBVIOUS
<1>. QED  BY <1>1, Zenon

\* What a step leaves alone keeps its types.
LEMMA TypesFrame ==
  ASSUME Types
  PROVE  /\ UNCHANGED dvars => DirTypes'
         /\ UNCHANGED qvars => QueueTypes'
         /\ UNCHANGED fvars => GarbTypes'
         /\ UNCHANGED <<g_garb, garb, flagged>> => GarbTypes'
         /\ UNCHANGED gvars => GcTypes'
         /\ UNCHANGED rvars => ReaderTypes'
         /\ UNCHANGED older => OlderTypes'
<1>1. UNCHANGED dvars => DirTypes'
  BY DEF Types, DirTypes, dvars
<1>2. UNCHANGED qvars => QueueTypes'
  BY DEF Types, QueueTypes, qvars
<1>3. UNCHANGED fvars => GarbTypes'
  BY DEF Types, GarbTypes, fvars
<1>4. UNCHANGED <<g_garb, garb, flagged>> => GarbTypes'
  BY DEF Types, GarbTypes
<1>5. UNCHANGED gvars => GcTypes'
  BY DEF Types, GcTypes, gvars
<1>6. UNCHANGED rvars => ReaderTypes'
  BY DEF Types, ReaderTypes, rvars
<1>7. UNCHANGED older => OlderTypes'
  BY DEF Types, OlderTypes
<1>. QED  BY <1>1, <1>2, <1>3, <1>4, <1>5, <1>6, <1>7

\* Every step of the writers, the cleanup threads and the readers keeps the types.
LEMMA NextTypes == Types /\ [Next]_vars => Types'
<1> SUFFICES ASSUME Types, [Next]_vars
             PROVE  Types'
  OBVIOUS
<1>1. ASSUME NEW x \in Elems, dbreg_commit(x) PROVE Types'
  <2>1. DirTypes'
    BY <1>1 DEF Types, DirTypes, dbreg_commit
  <2>2. QueueTypes'
    BY <1>1 DEF Types, DirTypes, QueueTypes, dbreg_commit
  <2>. QED  BY <1>1, <2>1, <2>2, TypesFrame DEF Types, dbreg_commit
<1>2. ASSUME NEW x \in Elems, dbreg_delete(x) PROVE Types'
  <2>1. QueueTypes'
    BY <1>2 DEF Types, QueueTypes, dbreg_delete
  <2>2. GarbTypes'
    BY <1>2, GarbType DEF Types, GarbTypes, dbreg_delete, Discard
  <2>. QED  BY <1>2, <2>1, <2>2, TypesFrame DEF Types, dbreg_delete
<1>3. CASE ApplyDelta \/ ApplyCatalog
  <2>1. /\ ndir' = dir[cur] /\ refs' = [refs EXCEPT ![dir[cur]] = @ + 1]
        /\ wpc' \in {"delta", "catalog"} /\ cur < MaxSnap /\ UNCHANGED <<cur, dir>>
    BY <1>3 DEF ApplyDelta, ApplyCatalog, snap_clone_locked
  <2>2. index' \in [Snaps -> SUBSET Elems] /\ made' \subseteq Elems
    <3>1. Registry \subseteq Elems /\ Owned \subseteq Elems
      BY DEF Elems
    <3>2. CASE ApplyDelta
      <4>1. PICK hidden \in SUBSET adds :
                   index' = [index EXCEPT ![dir[cur]] = (@ \ removes) \cup ((adds \cap registry) \ hidden)]
        BY <3>2, ZenonT(30) DEF ApplyDelta
      <4>2. UNCHANGED made
        BY <3>2 DEF ApplyDelta
      <4>. QED  BY <3>1, <4>1, <4>2, ZenonT(30) DEF Types, DirTypes, QueueTypes
    <3>3. CASE ApplyCatalog
      <4>1. PICK out \in SUBSET index[dir[cur]], new \in SUBSET (Owned \ made), back \in SUBSET (registry \ adds) :
                   /\ index' = [index EXCEPT ![dir[cur]] = (@ \ out) \cup new \cup back]
                   /\ made' = made \cup new
        BY <3>3, ZenonT(30) DEF ApplyCatalog
      <4>. QED  BY <3>1, <4>1, ZenonT(30) DEF Types, DirTypes, QueueTypes
    <3>. QED  BY <1>3, <3>2, <3>3
  <2>3. DirTypes'
    <3>1. ndir' \in Snaps \cup {NoSnap} /\ cur' \in Snaps /\ dir' \in [Snaps -> Snaps \cup {NoSnap}]
      BY <2>1 DEF Types, DirTypes
    <3>2. refs' \in [Snaps -> Int]
      BY <2>1, CountType DEF Types, DirTypes
    <3>. QED  BY <2>1, <2>2, <3>1, <3>2 DEF DirTypes
  <2>4. GarbTypes'
    <3>1. PICK S \in SUBSET Elems : Discard(S)
      BY <1>3, ZenonT(30) DEF Types, QueueTypes, ApplyDelta, ApplyCatalog, Elems
    <3>2. UNCHANGED garb
      BY <1>3 DEF ApplyDelta, ApplyCatalog
    <3>. QED  BY <3>1, <3>2, GarbType DEF Types, GarbTypes, Discard
  <2>. QED  BY <1>3, <2>3, <2>4, TypesFrame DEF Types, ApplyDelta, ApplyCatalog
<1>4. CASE BuildDirectory
  <2>1. cur < MaxSnap /\ cur + 1 \in Snaps
    BY <1>4, MaxSnapAssumption DEF Types, DirTypes, BuildDirectory, Snaps
  <2>2. DirTypes'
    BY <1>4, <2>1 DEF Types, DirTypes, QueueTypes, BuildDirectory, Elems
  <2>. QED  BY <1>4, <2>2, TypesFrame DEF Types, BuildDirectory
<1>5. CASE PublishAndRetire
  <2>1. cur + 1 \in Snaps /\ cur' \in Snaps /\ wpc' = "idle"
    BY <1>5, MaxSnapAssumption DEF Types, DirTypes, PublishAndRetire, Snaps
  <2>2. DirTypes'
    BY <1>5, <2>1 DEF Types, DirTypes, PublishAndRetire
  <2>3. NoGarbage \in Counts
    BY DEF NoGarbage, Counts
  <2>4. GarbTypes'
    BY <1>5, <2>3, GarbType, ZenonT(30) DEF Types, GarbTypes, QueueTypes, PublishAndRetire, Elems
  <2>5. GcTypes' /\ QueueTypes' /\ OlderTypes'
    BY <1>5 DEF Types, DirTypes, GcTypes, QueueTypes, ReaderTypes, OlderTypes, PublishAndRetire
  <2>. QED  BY <1>5, <2>2, <2>4, <2>5, TypesFrame DEF Types, PublishAndRetire
<1>6. CASE StartClaim
  <2>1. queued \ gc_started \subseteq Snaps /\ queued \ gc_started # {}
    BY <1>6 DEF Types, GcTypes, StartClaim
  <2>2. Min(queued \ gc_started) \in Snaps
    BY <2>1, OldestSnap
  <2>3. GcTypes'
    BY <1>6, <2>2 DEF Types, GcTypes, StartClaim
  <2>. QED  BY <1>6, <2>3, TypesFrame DEF Types, StartClaim
<1>7. CASE StartThread \/ StartDone \/ StartFailed
  <2>1. GcTypes'
    BY <1>7 DEF Types, GcTypes, StartThread, StartDone, StartFailed
  <2>. QED  BY <1>7, <2>1, TypesFrame DEF Types, StartThread, StartDone, StartFailed
<1>8. ASSUME NEW s \in Snaps, GcEpoch(s) \/ GcCount(s) PROVE Types'
  <2>1. GcTypes'
    BY <1>8 DEF Types, GcTypes, GcEpoch, GcCount
  <2>. QED  BY <1>8, <2>1, TypesFrame DEF Types, GcEpoch, GcCount
<1>9. ASSUME NEW s \in Snaps, GcUnref(s) PROVE Types'
  <2>1. DirTypes'
    <3>1. /\ refs' = [refs EXCEPT ![dir[s]] = @ - 1]
          /\ index' = [index EXCEPT ![dir[s]] = {}] \/ index' = index
          /\ UNCHANGED <<cur, dir, made, ndir, wpc>>
      BY <1>9 DEF GcUnref
    <3>2. refs' \in [Snaps -> Int]
      BY <3>1, CountType DEF Types, DirTypes
    <3>3. index' \in [Snaps -> SUBSET Elems]
      BY <3>1 DEF Types, DirTypes
    <3>. QED  BY <3>1, <3>2, <3>3 DEF Types, DirTypes
  <2>2. GcTypes'
    BY <1>9 DEF Types, GcTypes, GcUnref
  <2>. QED  BY <1>9, <2>1, <2>2, TypesFrame DEF Types, GcUnref
<1>10. ASSUME NEW s \in Snaps, GcDrained(s) PROVE Types'
  <2>1. GcTypes'
    BY <1>10 DEF Types, GcTypes, GcDrained
  <2>. QED  BY <1>10, <2>1, TypesFrame DEF Types, GcDrained
<1>11. ASSUME NEW r \in Readers, Enter(r) \/ acquire_zone_snapshot(r) \/ retain_zone_snapshot(r) PROVE Types'
  <2>1. ReaderTypes'
    BY <1>11, SMTT(30) DEF Types, DirTypes, ReaderTypes, Enter, acquire_zone_snapshot, retain_zone_snapshot
  <2>. QED  BY <1>11, <2>1, TypesFrame DEF Types, Enter, acquire_zone_snapshot, retain_zone_snapshot
<1>12. ASSUME NEW r \in Readers, NEW x \in Elems, Lookup(r, x) PROVE Types'
  <2>1. ReaderTypes'
    BY <1>12 DEF Types, ReaderTypes, Lookup
  <2>. QED  BY <1>12, <2>1, TypesFrame, SMTT(30) DEF Types, Lookup
<1>13. ASSUME NEW r \in Readers, Exit(r) PROVE Types'
  <2>1. ReaderTypes' /\ OlderTypes'
    BY <1>13 DEF Types, ReaderTypes, OlderTypes, Exit
  <2>. QED  BY <1>13, <2>1, TypesFrame DEF Types, Exit
<1>14. ASSUME NEW r \in Readers, release_zone_snapshot(r) PROVE Types'
  <2>1. reader_count' \in [Snaps -> Nat]
    <3>1. \A n \in Nat : (IF n > 0 THEN n - 1 ELSE n) \in Nat
      OBVIOUS
    <3>. QED  BY <1>14, <3>1, ZenonT(30) DEF Types, ReaderTypes, release_zone_snapshot
  <2>2. ReaderTypes'
    BY <1>14, <2>1 DEF Types, ReaderTypes, release_zone_snapshot
  <2>. QED  BY <1>14, <2>2, TypesFrame DEF Types, release_zone_snapshot
<1>15. CASE UNCHANGED vars
  BY <1>15, TypesFrame DEF Types, vars
<1>. QED
  BY <1>1, <1>2, <1>3, <1>4, <1>5, <1>6, <1>7, <1>8, <1>9, <1>10, <1>11, <1>12, <1>13, <1>14, <1>15
  DEF Next, Writer, GcStart, GcThread, Reader

-----------------------------------------------------------------------------
(* Snapshots are retired and freed in order; a cleanup thread runs for a   *)
(* retired snapshot only.                                                  *)

SnapInv ==
  /\ queued \cap gone = {} /\ queued \cup gone = 1 .. cur - 1
  /\ \A s \in gone, t \in Snaps : t <= s => t \in gone
  /\ gone \subseteq gc_drained
  /\ \A s \in Snaps : gcpc[s] = "end" <=> s \in gc_drained
  /\ \A s \in Snaps : gcpc[s] # "none" => s < cur
  /\ starting # NoSnap => starting < cur

\* The order of the queue is kept: gc_retire_locked() adds the snapshot retired last, gc_start_pending()
\* starts threads for queued snapshots, gc_drained() takes from the head.
LEMMA NextSnap == Types /\ SnapInv /\ [Next]_vars => SnapInv'
<1> SUFFICES ASSUME Types, SnapInv, [Next]_vars
             PROVE  SnapInv'
  OBVIOUS
<1>0. cur \in Int /\ cur >= 1 /\ cur <= MaxSnap
  BY MaxSnapAssumption DEF Types, DirTypes, Snaps
<1>1. CASE UNCHANGED gvars /\ UNCHANGED cur
  BY <1>1 DEF SnapInv, gvars
<1>2. CASE PublishAndRetire
  <2>1. /\ cur' = cur + 1 /\ queued' = queued \cup {cur}
        /\ UNCHANGED <<gone, gc_drained, gcpc, starting>>
    BY <1>2 DEF PublishAndRetire
  <2>2. queued' \cap gone' = {} /\ queued' \cup gone' = 1 .. cur' - 1
    BY <1>0, <2>1 DEF SnapInv
  <2>3. \A s \in Snaps : gcpc'[s] # "none" => s < cur'
    BY <1>0, <2>1 DEF SnapInv, Snaps
  <2>4. starting' # NoSnap => starting' < cur'
    BY <1>0, <2>1 DEF SnapInv, Types, GcTypes, Snaps, NoSnap
  <2>. QED  BY <2>1, <2>2, <2>3, <2>4 DEF SnapInv
<1>3. CASE StartClaim
  <2>1. /\ queued \ gc_started # {} /\ starting' = Min(queued \ gc_started)
        /\ UNCHANGED <<cur, queued, gone, gc_drained, gcpc>>
    BY <1>3 DEF StartClaim, dvars
  <2>2. starting' \in queued
    BY <2>1, OldestSnap DEF Types, GcTypes
  <2>3. starting' < cur
    BY <1>0, <2>2 DEF SnapInv
  <2>. QED  BY <2>1, <2>3 DEF SnapInv
<1>4. CASE StartThread
  <2>1. /\ starting # NoSnap /\ gcpc[starting] = "none" /\ gcpc' = [gcpc EXCEPT ![starting] = "epoch"]
        /\ UNCHANGED <<cur, queued, gone, gc_drained, starting>>
    BY <1>4 DEF StartThread, dvars
  <2>2. starting \in Snaps /\ starting < cur
    BY <2>1 DEF SnapInv, Types, GcTypes
  <2>3. \A s \in Snaps : gcpc'[s] = IF s = starting THEN "epoch" ELSE gcpc[s]
    BY <2>1 DEF Types, GcTypes
  <2>4. \A s \in Snaps : gcpc'[s] = "end" <=> s \in gc_drained'
    BY <2>1, <2>2, <2>3 DEF SnapInv
  <2>5. \A s \in Snaps : gcpc'[s] # "none" => s < cur'
    BY <2>1, <2>2, <2>3 DEF SnapInv
  <2>. QED  BY <2>1, <2>4, <2>5 DEF SnapInv
<1>5. CASE StartDone \/ StartFailed
  BY <1>5 DEF StartDone, StartFailed, SnapInv, dvars
<1>6. ASSUME NEW s \in Snaps, GcEpoch(s) \/ GcCount(s) \/ GcUnref(s) PROVE SnapInv'
  <2>1. /\ gcpc[s] \in {"epoch", "count", "unref"}
        /\ \E p \in {"count", "unref", "drain"} : gcpc' = [gcpc EXCEPT ![s] = p]
        /\ UNCHANGED <<cur, queued, gone, gc_drained, starting>>
    BY <1>6 DEF GcEpoch, GcCount, GcUnref, dvars
  <2>2. PICK p \in {"count", "unref", "drain"} : \A t \in Snaps : gcpc'[t] = IF t = s THEN p ELSE gcpc[t]
    BY <2>1 DEF Types, GcTypes
  <2>3. \A t \in Snaps : gcpc'[t] = "end" <=> t \in gc_drained'
    BY <2>1, <2>2 DEF SnapInv
  <2>4. \A t \in Snaps : gcpc'[t] # "none" => t < cur'
    BY <2>1, <2>2 DEF SnapInv
  <2>. QED  BY <2>1, <2>3, <2>4 DEF SnapInv
<1>7. ASSUME NEW s \in Snaps, GcDrained(s) PROVE SnapInv'
  <2> DEFINE done == {q \in queued : \A p \in queued : p <= q => p \in gc_drained'}
  <2>1. /\ gcpc[s] = "drain" /\ gc_drained' = gc_drained \cup {s} /\ gcpc' = [gcpc EXCEPT ![s] = "end"]
        /\ queued' = queued \ done /\ gone' = gone \cup done /\ UNCHANGED <<cur, starting>>
    BY <1>7 DEF GcDrained, dvars
  <2>2. \A t \in Snaps : gcpc'[t] = IF t = s THEN "end" ELSE gcpc[t]
    BY <2>1 DEF Types, GcTypes
  <2>3. \A t \in Snaps : (gcpc'[t] = "end" <=> t \in gc_drained') /\ (gcpc'[t] # "none" => t < cur')
    BY <2>1, <2>2 DEF SnapInv
  <2>4. queued' \cap gone' = {} /\ queued' \cup gone' = queued \cup gone
    BY <2>1 DEF SnapInv
  <2>5. done \subseteq gc_drained'
    <3>1. \A q \in queued : q <= q
      BY MaxSnapAssumption DEF Types, GcTypes, Snaps
    <3>. QED  BY <3>1
  <2>6. ASSUME NEW a \in gone', NEW t \in Snaps, t <= a
        PROVE  t \in gone'
    <3>1. CASE a \in gone
      BY <2>1, <2>6, <3>1 DEF SnapInv
    <3>2. CASE a \in done
      <4>1. a \in 1 .. cur - 1
        BY <3>2 DEF SnapInv
      <4>2. t \in queued \cup gone
        BY <1>0, <2>6, <4>1 DEF SnapInv, Snaps
      <4>3. ASSUME t \in queued PROVE t \in done
        <5>1. \A p \in queued : p \in Int
          BY DEF Types, GcTypes, Snaps
        <5>2. \A p \in queued : p <= t => p <= a
          BY <2>6, <4>1, <5>1, MaxSnapAssumption DEF Snaps
        <5>. QED  BY <3>2, <4>3, <5>2
      <4>. QED  BY <2>1, <4>2, <4>3
    <3>. QED  BY <2>1, <3>1, <3>2
  <2>. QED  BY <2>1, <2>3, <2>4, <2>5, <2>6 DEF SnapInv
<1>8. ASSUME [Next]_vars,
             ~ PublishAndRetire, ~ GcStart, \A s \in Snaps : ~ GcThread(s)
      PROVE  UNCHANGED gvars /\ UNCHANGED cur
  BY <1>8, Zenon DEF Next, Writer, Reader, dbreg_commit, dbreg_delete, ApplyDelta, ApplyCatalog, BuildDirectory,
     Enter, acquire_zone_snapshot, retain_zone_snapshot, Lookup, Exit, release_zone_snapshot, vars, dvars
<1>. QED
  BY <1>1, <1>2, <1>3, <1>4, <1>5, <1>6, <1>7, <1>8 DEF GcStart, GcThread

(* A snapshot lists a directory that was made for it or for an older one,  *)
(* so does the one that is being made.                                     *)

ListInv ==
  /\ \A s \in Snaps : IF s <= cur THEN dir[s] \in 1 .. cur ELSE dir[s] = NoSnap
  /\ wpc = "idle" => ndir = NoSnap
  /\ wpc = "rebuild" => ndir = cur + 1
  /\ wpc \in {"delta", "catalog"} => ndir = dir[cur]

\* The directories of the snapshots: snap_clone_locked() takes the current one, a rebuild a new one.
LEMMA NextList == Types /\ ListInv /\ [Next]_vars => ListInv'
<1> SUFFICES ASSUME Types, ListInv, [Next]_vars
             PROVE  ListInv'
  OBVIOUS
<1>0. cur \in Int /\ cur >= 1 /\ cur \in Snaps
  BY MaxSnapAssumption DEF Types, DirTypes, Snaps
<1>1. CASE UNCHANGED <<cur, dir, ndir, wpc>>
  BY <1>1 DEF ListInv
<1>2. CASE ApplyDelta \/ ApplyCatalog
  <2>1. wpc' \in {"delta", "catalog"} /\ ndir' = dir[cur] /\ UNCHANGED <<cur, dir>>
    BY <1>2 DEF ApplyDelta, ApplyCatalog, snap_clone_locked
  <2>. QED  BY <2>1 DEF ListInv
<1>3. CASE BuildDirectory
  BY <1>3 DEF BuildDirectory, ListInv
<1>4. CASE PublishAndRetire
  <2>1. /\ wpc # "idle" /\ cur' = cur + 1 /\ dir' = [dir EXCEPT ![cur + 1] = ndir]
        /\ wpc' = "idle" /\ ndir' = NoSnap
    BY <1>4 DEF PublishAndRetire
  <2>2. cur + 1 \in Snaps
    BY <2>1, MaxSnapAssumption DEF Types, DirTypes, Snaps
  <2>3. ndir \in 1 .. cur + 1
    BY <1>0, <2>1 DEF Types, DirTypes, ListInv
  <2>4. ASSUME NEW s \in Snaps
        PROVE  IF s <= cur' THEN dir'[s] \in 1 .. cur' ELSE dir'[s] = NoSnap
    <3>1. CASE s = cur + 1
      BY <2>1, <2>2, <2>3, <3>1, <1>0 DEF Types, DirTypes
    <3>2. CASE s # cur + 1
      <4>1. dir'[s] = dir[s] /\ s \in Int
        BY <2>1, <3>2 DEF Types, DirTypes, Snaps
      <4>. QED  BY <1>0, <2>1, <3>2, <4>1 DEF ListInv
    <3>. QED  BY <3>1, <3>2
  <2>. QED  BY <2>1, <2>4 DEF ListInv
<1>5. ASSUME ~ ApplyDelta, ~ ApplyCatalog, ~ BuildDirectory, ~ PublishAndRetire
      PROVE  UNCHANGED <<cur, dir, ndir, wpc>>
  BY <1>5, Zenon DEF Next, Writer, GcStart, GcThread, Reader, dbreg_commit, dbreg_delete, StartClaim, StartThread,
     StartDone, StartFailed, GcEpoch, GcCount, GcUnref, GcDrained, Enter, acquire_zone_snapshot,
     retain_zone_snapshot, Lookup, Exit, release_zone_snapshot, vars, dvars
<1>. QED  BY <1>1, <1>2, <1>3, <1>4, <1>5

(* Where a cleanup thread goes, and what it has seen when it goes on.      *)

\* gc_snapshot_thread() goes from the grace period to the references of the readers, to the directory,
\* and to the queue; nothing else changes what readers hold in such a step.
LEMMA GcMoves ==
  ASSUME Types, [Next]_vars, NEW s \in Snaps, gcpc'[s] # gcpc[s]
  PROVE  /\ UNCHANGED <<rvars, older, cur, dir, ndir, wpc>>
         /\ \/ gcpc[s] = "none" /\ gcpc'[s] = "epoch"
            \/ gcpc[s] = "epoch" /\ gcpc'[s] = "count" /\ older[s] = {}
            \/ gcpc[s] = "count" /\ gcpc'[s] = "unref" /\ reader_count[s] = 0
            \/ gcpc[s] = "unref" /\ gcpc'[s] = "drain" /\ GcUnref(s)
            \/ gcpc[s] = "drain" /\ gcpc'[s] = "end"
<1> DEFINE Goal == /\ UNCHANGED <<rvars, older, cur, dir, ndir, wpc>>
                   /\ \/ gcpc[s] = "none" /\ gcpc'[s] = "epoch"
                      \/ gcpc[s] = "epoch" /\ gcpc'[s] = "count" /\ older[s] = {}
                      \/ gcpc[s] = "count" /\ gcpc'[s] = "unref" /\ reader_count[s] = 0
                      \/ gcpc[s] = "unref" /\ gcpc'[s] = "drain" /\ GcUnref(s)
                      \/ gcpc[s] = "drain" /\ gcpc'[s] = "end"
<1>1. gcpc \in [Snaps -> {"none", "epoch", "count", "unref", "drain", "end"}]
  BY DEF Types, GcTypes
<1>2. CASE StartThread
  BY <1>1, <1>2 DEF StartThread, dvars
<1>3. ASSUME NEW t \in Snaps, GcEpoch(t) PROVE Goal
  BY <1>1, <1>3 DEF GcEpoch, dvars
<1>4. ASSUME NEW t \in Snaps, GcCount(t) PROVE Goal
  BY <1>1, <1>4 DEF GcCount, dvars
<1>5. ASSUME NEW t \in Snaps, GcUnref(t) PROVE Goal
  <2>1. UNCHANGED <<rvars, older, cur, dir, ndir, wpc>> /\ gcpc[t] = "unref" /\ gcpc' = [gcpc EXCEPT ![t] = "drain"]
    BY <1>5 DEF GcUnref
  <2>2. t = s
    BY <1>1, <2>1, SMTT(30)
  <2>. QED  BY <1>1, <1>5, <2>1, <2>2
<1>6. ASSUME NEW t \in Snaps, GcDrained(t) PROVE Goal
  BY <1>1, <1>6 DEF GcDrained, dvars
<1>7. ASSUME ~ StartThread, \A t \in Snaps : ~ GcThread(t)
      PROVE  UNCHANGED gcpc
  BY <1>7, Zenon DEF Next, Writer, GcStart, GcThread, Reader, dbreg_commit, dbreg_delete, ApplyDelta, ApplyCatalog,
     BuildDirectory, PublishAndRetire, StartClaim, StartDone, StartFailed, Enter, acquire_zone_snapshot,
     retain_zone_snapshot, Lookup, Exit, release_zone_snapshot, vars, gvars
<1>. QED  BY <1>2, <1>3, <1>4, <1>5, <1>6, <1>7, Zenon DEF GcThread

(* A reader of a snapshot is in its section or has a reference; a reader   *)
(* of a retired snapshot is among the sections its cleanup waits for.      *)

HoldInv ==
  /\ \A r \in Readers : rsnap[r] # NoSnap => rsnap[r] <= cur /\ r \in section \cup retained
  /\ \A r \in Readers : rsnap[r] # NoSnap /\ rsnap[r] < cur => r \in older[rsnap[r]] \cup retained
  /\ \A r \in retained : rsnap[r] # NoSnap
  /\ \A s \in Snaps : gcpc[s] \in {"count", "unref", "drain", "end"} => older[s] = {}

\* A section that is open when its snapshot is retired is waited for (GracePeriod); a reference outlives
\* the section (retain_zone_snapshot()).
LEMMA NextHold == Types /\ SnapInv /\ HoldInv /\ [Next]_vars => HoldInv'
<1> SUFFICES ASSUME Types, SnapInv, HoldInv, [Next]_vars
             PROVE  HoldInv'
  OBVIOUS
<1>0. cur \in Int /\ cur >= 1 /\ cur \in Snaps /\ \A r \in Readers : rsnap[r] \in Int
  BY MaxSnapAssumption DEF Types, DirTypes, ReaderTypes, Snaps, NoSnap
<1>1. \A s \in Snaps : older'[s] \subseteq older[s] \/ (s = cur /\ PublishAndRetire)
  <2>1. CASE PublishAndRetire
    BY <2>1, SMTT(30) DEF PublishAndRetire, Types, OlderTypes
  <2>2. ASSUME NEW r \in Readers, Exit(r) PROVE \A s \in Snaps : older'[s] \subseteq older[s]
    BY <2>2 DEF Exit
  <2>3. ASSUME ~ PublishAndRetire, \A r \in Readers : ~ Exit(r) PROVE UNCHANGED older
    BY <2>3, Zenon DEF Next, Writer, GcStart, GcThread, Reader, dbreg_commit, dbreg_delete, ApplyDelta, ApplyCatalog,
       BuildDirectory, StartClaim, StartThread, StartDone, StartFailed, GcEpoch, GcCount, GcUnref, GcDrained, Enter,
       acquire_zone_snapshot, retain_zone_snapshot, Lookup, release_zone_snapshot, vars
  <2>. QED  BY <2>1, <2>2, <2>3, SMTT(30)
<1>2. \A s \in Snaps : gcpc'[s] \in {"count", "unref", "drain", "end"} => older'[s] = {}
  <2> SUFFICES ASSUME NEW s \in Snaps, gcpc'[s] \in {"count", "unref", "drain", "end"}
               PROVE  older'[s] = {}
    OBVIOUS
  <2>1. CASE gcpc'[s] = gcpc[s]
    <3>1. s < cur /\ older[s] = {}
      BY <2>1 DEF SnapInv, HoldInv
    <3>2. s # cur
      BY <1>0, <3>1
    <3>. QED  BY <1>1, <3>1, <3>2
  <2>2. CASE gcpc'[s] # gcpc[s]
    <3>1. UNCHANGED older /\ (older[s] = {} \/ gcpc[s] \in {"count", "unref", "drain", "end"})
      BY <2>2, GcMoves, SMTT(30)
    <3>. QED  BY <3>1 DEF HoldInv
  <2>. QED  BY <2>1, <2>2
<1>3. CASE UNCHANGED <<cur, section, retained, rsnap, older>>
  BY <1>2, <1>3 DEF HoldInv
<1>4. CASE PublishAndRetire
  <2>1. cur' = cur + 1 /\ older' = [older EXCEPT ![cur] = section] /\ UNCHANGED <<section, retained, rsnap>>
    BY <1>4 DEF PublishAndRetire, rvars
  <2>2. ASSUME NEW r \in Readers, rsnap[r] # NoSnap
        PROVE  /\ rsnap[r] <= cur' /\ r \in section \cup retained
               /\ r \in older'[rsnap[r]] \cup retained
    <3>1. rsnap[r] <= cur /\ r \in section \cup retained /\ rsnap[r] \in Snaps
      BY <2>2 DEF HoldInv, Types, ReaderTypes
    <3>2. CASE rsnap[r] = cur
      BY <1>0, <2>1, <3>1, <3>2 DEF Types, OlderTypes
    <3>3. CASE rsnap[r] # cur
      <4>1. rsnap[r] < cur
        BY <1>0, <3>1, <3>3
      <4>2. r \in older[rsnap[r]] \cup retained /\ older'[rsnap[r]] = older[rsnap[r]]
        BY <2>1, <2>2, <3>1, <3>3, <4>1 DEF HoldInv, Types, OlderTypes
      <4>. QED  BY <1>0, <2>1, <3>1, <4>2
    <3>. QED  BY <3>2, <3>3
  <2>. QED  BY <1>2, <2>1, <2>2 DEF HoldInv
<1>5. ASSUME NEW r \in Readers, Enter(r) PROVE HoldInv'
  BY <1>2, <1>5 DEF HoldInv, Enter, dvars
<1>6. ASSUME NEW r \in Readers, acquire_zone_snapshot(r) PROVE HoldInv'
  <2>1. /\ r \in section /\ rsnap[r] = NoSnap /\ rsnap' = [rsnap EXCEPT ![r] = cur]
        /\ UNCHANGED <<cur, section, retained, older>>
    BY <1>6 DEF acquire_zone_snapshot, dvars
  <2>2. \A q \in Readers : rsnap'[q] = IF q = r THEN cur ELSE rsnap[q]
    BY <2>1 DEF Types, ReaderTypes
  <2>3. cur # NoSnap /\ ~ (cur < cur) /\ cur <= cur
    BY <1>0 DEF NoSnap
  <2>4. retained \subseteq Readers
    BY SMTT(30) DEF Types, ReaderTypes
  <2>. QED  BY <1>2, <2>1, <2>2, <2>3, <2>4 DEF HoldInv
<1>7. ASSUME NEW r \in Readers, retain_zone_snapshot(r) PROVE HoldInv'
  <2>1. r \in section /\ rsnap[r] # NoSnap /\ retained' = retained \cup {r} /\ UNCHANGED <<cur, section, rsnap, older>>
    BY <1>7 DEF retain_zone_snapshot, dvars
  <2>. QED  BY <1>2, <2>1 DEF HoldInv
<1>8. ASSUME NEW r \in Readers, Exit(r) PROVE HoldInv'
  <2>1. /\ section' = section \ {r} /\ \A s \in Snaps : older'[s] = older[s] \ {r}
        /\ UNCHANGED <<cur, retained>>
        /\ IF r \in retained THEN UNCHANGED rsnap ELSE rsnap' = [rsnap EXCEPT ![r] = NoSnap]
    BY <1>8, ZenonT(30) DEF Exit, dvars
  <2>2. \A q \in Readers : rsnap'[q] = IF q = r /\ r \notin retained THEN NoSnap ELSE rsnap[q]
    BY <2>1 DEF Types, ReaderTypes
  <2>3. retained \subseteq Readers /\ \A q \in Readers : rsnap[q] # NoSnap => rsnap[q] \in Snaps
    BY DEF Types, ReaderTypes
  <2>. QED  BY <1>2, <2>1, <2>2, <2>3, SMTT(30) DEF HoldInv
<1>9. ASSUME NEW r \in Readers, release_zone_snapshot(r) PROVE HoldInv'
  <2>1. /\ retained' = retained \ {r} /\ rsnap' = [rsnap EXCEPT ![r] = NoSnap]
        /\ UNCHANGED <<cur, section, older>>
    BY <1>9 DEF release_zone_snapshot, dvars
  <2>2. \A q \in Readers : rsnap'[q] = IF q = r THEN NoSnap ELSE rsnap[q]
    BY <2>1 DEF Types, ReaderTypes
  <2>3. retained \subseteq Readers
    BY DEF Types, ReaderTypes
  <2>. QED  BY <1>2, <2>1, <2>2, <2>3 DEF HoldInv
<1>10. CASE GcStart \/ \E s \in Snaps : GcThread(s)
  <2>1. UNCHANGED <<cur, section, retained, rsnap, older>>
    BY <1>10, Zenon DEF GcStart, GcThread, StartClaim, StartThread, StartDone, StartFailed, GcEpoch, GcCount, GcUnref,
       GcDrained, dvars, rvars
  <2>. QED  BY <1>3, <2>1
<1>11. ASSUME ~ PublishAndRetire, \/ Writer \/ UNCHANGED vars \/ \E r \in Readers, x \in Elems : Lookup(r, x)
       PROVE  HoldInv'
  <2>1. UNCHANGED <<cur, section, retained, rsnap, older>>
    BY <1>11, Zenon DEF Writer, dbreg_commit, dbreg_delete, ApplyDelta, ApplyCatalog, BuildDirectory, Lookup, vars,
       dvars, rvars
  <2>. QED  BY <1>3, <2>1
<1>. QED  BY <1>4, <1>5, <1>6, <1>7, <1>8, <1>9, <1>10, <1>11, Zenon DEF Next, Reader

(* The counter of a snapshot is the number of its references.  Nobody      *)
(* takes a reference once the cleanup has seen that there is none.         *)

Reading(s) == {r \in retained : rsnap[r] = s}

CountInv ==
  /\ IsFiniteSet(retained)
  /\ \A s \in Snaps : reader_count[s] = Cardinality(Reading(s))
  /\ \A s \in Snaps : gcpc[s] \in {"unref", "drain", "end"} => Reading(s) = {}

\* A reader that still sees a snapshot finds its cleanup thread before zdir_unref().
LEMMA HeldEarly ==
  ASSUME Types, SnapInv, HoldInv, CountInv, NEW r \in Readers, rsnap[r] # NoSnap
  PROVE  rsnap[r] \in Snaps /\ rsnap[r] <= cur /\ gcpc[rsnap[r]] \notin {"unref", "drain", "end"}
<1>1. rsnap[r] \in Snaps /\ rsnap[r] <= cur /\ cur \in Int
  BY MaxSnapAssumption DEF HoldInv, Types, ReaderTypes, DirTypes, Snaps
<1>2. CASE rsnap[r] = cur
  <2>1. ~ (cur < cur)
    BY <1>1
  <2>. QED  BY <1>1, <1>2, <2>1 DEF SnapInv
<1>3. CASE r \in retained
  BY <1>1, <1>3 DEF CountInv, Reading
<1>4. CASE rsnap[r] # cur /\ r \notin retained
  <2>1. rsnap[r] < cur
    BY <1>1, <1>4, MaxSnapAssumption DEF Snaps
  <2>2. r \in older[rsnap[r]]
    BY <1>4, <2>1 DEF HoldInv
  <2>. QED  BY <1>1, <2>2 DEF HoldInv
<1>. QED  BY <1>2, <1>3, <1>4

\* retain_zone_snapshot() and release_zone_snapshot() count; the cleanup thread goes on at zero.
LEMMA NextCount == Types /\ SnapInv /\ HoldInv /\ CountInv /\ [Next]_vars => CountInv'
<1> SUFFICES ASSUME Types, SnapInv, HoldInv, CountInv, [Next]_vars
             PROVE  CountInv'
  OBVIOUS
<1>0. retained \subseteq Readers /\ \A s \in Snaps : IsFiniteSet(Reading(s)) /\ Cardinality(Reading(s)) \in Nat
  <2>1. \A s \in Snaps : Reading(s) \subseteq retained
    BY DEF Reading
  <2>. QED  BY <2>1, FS_Subset, FS_CardinalityType DEF CountInv, Types, ReaderTypes
<1>1. ASSUME NEW s \in Snaps, gcpc'[s] \in {"unref", "drain", "end"},
             gcpc[s] \in {"unref", "drain", "end"} => Reading(s)' = {}
      PROVE  Reading(s)' = {}
  <2>1. CASE gcpc'[s] = gcpc[s]
    BY <1>1, <2>1
  <2>2. CASE gcpc'[s] # gcpc[s]
    <3>1. UNCHANGED <<rvars, older, cur, dir, ndir, wpc>> /\ (reader_count[s] = 0 \/ gcpc[s] \in {"unref", "drain", "end"})
      BY <1>1, <2>2, GcMoves
    <3>2. CASE gcpc[s] \in {"unref", "drain", "end"}
      BY <1>1, <3>2
    <3>3. CASE reader_count[s] = 0
      <4>1. Reading(s) = {}
        BY <1>0, <3>3, FS_EmptySet DEF CountInv
      <4>2. Reading(s)' = Reading(s)
        BY <3>1 DEF Reading, rvars
      <4>. QED  BY <4>1, <4>2
    <3>. QED  BY <3>1, <3>2, <3>3
  <2>. QED  BY <2>1, <2>2
<1>2. CASE UNCHANGED <<retained, rsnap, reader_count>>
  <2>1. \A s \in Snaps : Reading(s)' = Reading(s)
    BY <1>2, SMTT(30) DEF Reading
  <2>. QED  BY <1>1, <1>2, <2>1 DEF CountInv
<1>3. ASSUME UNCHANGED <<retained, reader_count>>, \A r \in retained : rsnap'[r] = rsnap[r]
      PROVE  CountInv'
  <2>1. \A s \in Snaps : Reading(s)' = Reading(s)
    BY <1>3 DEF Reading
  <2>. QED  BY <1>1, <1>3, <2>1 DEF CountInv
<1>4. ASSUME NEW r \in Readers, acquire_zone_snapshot(r) PROVE CountInv'
  <2>1. r \notin retained
    BY <1>4 DEF acquire_zone_snapshot, HoldInv
  <2>. QED  BY <1>0, <1>3, <1>4, <2>1 DEF acquire_zone_snapshot, Types, ReaderTypes
<1>5. ASSUME NEW r \in Readers, Exit(r) PROVE CountInv'
  BY <1>0, <1>3, <1>5 DEF Exit, Types, ReaderTypes
<1>6. ASSUME NEW r \in Readers, retain_zone_snapshot(r) PROVE CountInv'
  <2>1. /\ rsnap[r] # NoSnap /\ r \notin retained /\ retained' = retained \cup {r}
        /\ reader_count' = [reader_count EXCEPT ![rsnap[r]] = @ + 1] /\ UNCHANGED <<rsnap, gcpc>>
    BY <1>6 DEF retain_zone_snapshot, gvars
  <2>2. rsnap[r] \in Snaps /\ gcpc[rsnap[r]] \notin {"unref", "drain", "end"}
    BY <2>1, HeldEarly
  <2>3. IsFiniteSet(retained')
    BY <2>1, FS_AddElement DEF CountInv
  <2>4. \A s \in Snaps : Reading(s)' = IF s = rsnap[r] THEN Reading(s) \cup {r} ELSE Reading(s)
    BY <2>1 DEF Reading
  <2>5. r \notin Reading(rsnap[r])
    BY <2>1 DEF Reading
  <2>6. Cardinality(Reading(rsnap[r]) \cup {r}) = Cardinality(Reading(rsnap[r])) + 1
    BY <1>0, <2>2, <2>5, FS_AddElement, ZenonT(30)
  <2>7. ASSUME NEW s \in Snaps PROVE reader_count'[s] = Cardinality(Reading(s)')
    <3>1. CASE s = rsnap[r]
      <4>1. reader_count'[s] = reader_count[s] + 1
        BY <2>1, <2>2, <3>1 DEF Types, ReaderTypes
      <4>. QED  BY <2>4, <2>6, <3>1, <4>1 DEF CountInv
    <3>2. CASE s # rsnap[r]
      <4>1. reader_count'[s] = reader_count[s]
        BY <2>1, <3>2 DEF Types, ReaderTypes
      <4>. QED  BY <2>4, <3>2, <4>1 DEF CountInv
    <3>. QED  BY <3>1, <3>2
  <2>8. \A s \in Snaps : gcpc'[s] \in {"unref", "drain", "end"} => Reading(s)' = {}
    BY <2>1, <2>2, <2>4 DEF CountInv
  <2>. QED  BY <2>3, <2>7, <2>8 DEF CountInv
<1>7. ASSUME NEW r \in Readers, release_zone_snapshot(r) PROVE CountInv'
  <2>1. /\ r \in retained /\ retained' = retained \ {r} /\ rsnap' = [rsnap EXCEPT ![r] = NoSnap]
        /\ reader_count' = [reader_count EXCEPT ![rsnap[r]] = IF @ > 0 THEN @ - 1 ELSE @] /\ UNCHANGED gcpc
    BY <1>7 DEF release_zone_snapshot, gvars
  <2>2. rsnap[r] \in Snaps /\ \A q \in Readers : q # r => rsnap'[q] = rsnap[q]
    BY <2>1 DEF HoldInv, Types, ReaderTypes
  <2>3. IsFiniteSet(retained')
    BY <2>1, FS_RemoveElement DEF CountInv
  <2>4. \A s \in Snaps : Reading(s)' = IF s = rsnap[r] THEN Reading(s) \ {r} ELSE Reading(s)
    BY <1>0, <2>1, <2>2 DEF Reading
  <2>5. r \in Reading(rsnap[r])
    BY <2>1 DEF Reading
  <2>6. Cardinality(Reading(rsnap[r]) \ {r}) = Cardinality(Reading(rsnap[r])) - 1
    BY <1>0, <2>2, <2>5, FS_RemoveElement, ZenonT(30)
  <2>7. Cardinality(Reading(rsnap[r])) > 0
    <3>1. Cardinality(Reading(rsnap[r])) # 0
      BY <1>0, <2>2, <2>5, FS_EmptySet
    <3>. QED  BY <1>0, <2>2, <3>1
  <2>8. ASSUME NEW s \in Snaps PROVE reader_count'[s] = Cardinality(Reading(s)')
    <3>1. CASE s = rsnap[r]
      <4>1. reader_count[s] > 0
        BY <2>7, <3>1 DEF CountInv
      <4>2. reader_count'[s] = reader_count[s] - 1
        BY <2>1, <2>2, <3>1, <4>1 DEF Types, ReaderTypes
      <4>. QED  BY <2>4, <2>6, <3>1, <4>2 DEF CountInv
    <3>2. CASE s # rsnap[r]
      <4>1. reader_count'[s] = reader_count[s]
        BY <2>1, <3>2 DEF Types, ReaderTypes
      <4>. QED  BY <2>4, <3>2, <4>1 DEF CountInv
    <3>. QED  BY <3>1, <3>2
  <2>9. \A s \in Snaps : gcpc'[s] \in {"unref", "drain", "end"} => Reading(s)' = {}
    BY <2>1, <2>4 DEF CountInv
  <2>. QED  BY <2>3, <2>8, <2>9 DEF CountInv
<1>8. ASSUME \/ Writer \/ GcStart \/ UNCHANGED vars
             \/ \E s \in Snaps : GcThread(s)
             \/ \E r \in Readers : Enter(r) \/ \E x \in Elems : Lookup(r, x)
      PROVE  CountInv'
  <2>1. UNCHANGED <<retained, rsnap, reader_count>>
    BY <1>8, Zenon DEF Writer, dbreg_commit, dbreg_delete, ApplyDelta, ApplyCatalog, BuildDirectory, PublishAndRetire,
       GcStart, GcThread, StartClaim, StartThread, StartDone, StartFailed, GcEpoch, GcCount, GcUnref, GcDrained,
       Enter, Lookup, vars, rvars
  <2>. QED  BY <1>2, <2>1
<1>. QED  BY <1>4, <1>5, <1>6, <1>7, <1>8, Zenon DEF Next, Reader

(* A directory has a reference for each snapshot that lists it and for the *)
(* one that is being made.                                                 *)

Listed(d) == {s \in 1 .. cur : dir[s] = d /\ gcpc[s] \notin {"drain", "end"}}

RefInv == \A d \in Snaps : refs[d] = Cardinality(Listed(d)) + (IF ndir = d THEN 1 ELSE 0)

\* The snapshots that list a directory are finitely many.
LEMMA ListedFinite ==
  ASSUME Types, NEW d
  PROVE  IsFiniteSet(Listed(d)) /\ Cardinality(Listed(d)) \in Nat
<1>1. Listed(d) \subseteq 1 .. cur /\ cur \in Int
  BY MaxSnapAssumption DEF Listed, Types, DirTypes, Snaps
<1>2. IsFiniteSet(1 .. cur)
  BY <1>1, FS_Interval
<1>. QED  BY <1>1, <1>2, FS_Subset, FS_CardinalityType

\* zdir_ref() with a snapshot that shares or makes a directory, zdir_unref() when one is freed.
LEMMA NextRef == Types /\ SnapInv /\ ListInv /\ RefInv /\ [Next]_vars => RefInv'
<1> SUFFICES ASSUME Types, SnapInv, ListInv, RefInv, [Next]_vars
             PROVE  RefInv'
  OBVIOUS
<1>0. /\ cur \in Int /\ cur >= 1 /\ cur \in Snaps
      /\ refs \in [Snaps -> Int] /\ dir \in [Snaps -> Snaps \cup {NoSnap}] /\ 1 .. cur \subseteq Snaps
      /\ \A d \in Snaps : d # NoSnap
  BY MaxSnapAssumption DEF Types, DirTypes, Snaps, NoSnap
<1>1. ASSUME UNCHANGED <<cur, dir, refs, ndir>>,
             \A s \in Snaps : gcpc'[s] \in {"drain", "end"} <=> gcpc[s] \in {"drain", "end"}
      PROVE  RefInv'
  <2>1. \A d \in Snaps : Listed(d)' = Listed(d)
    BY <1>0, <1>1 DEF Listed
  <2>. QED  BY <1>1, <2>1 DEF RefInv
<1>2. CASE ApplyDelta \/ ApplyCatalog
  <2>1. /\ wpc = "idle" /\ ndir' = dir[cur] /\ refs' = [refs EXCEPT ![dir[cur]] = @ + 1]
        /\ UNCHANGED <<cur, dir, gcpc>>
    BY <1>2 DEF ApplyDelta, ApplyCatalog, snap_clone_locked, gvars
  <2>2. ndir = NoSnap
    BY <2>1 DEF ListInv
  <2>3. ASSUME NEW d \in Snaps PROVE refs'[d] = Cardinality(Listed(d)') + (IF ndir' = d THEN 1 ELSE 0)
    <3>1. Listed(d)' = Listed(d)
      BY <2>1 DEF Listed
    <3>2. refs[d] = Cardinality(Listed(d)) /\ Cardinality(Listed(d)) \in Nat
      BY <1>0, <2>2, ListedFinite DEF RefInv
    <3>3. refs'[d] = IF d = dir[cur] THEN refs[d] + 1 ELSE refs[d]
      BY <1>0, <2>1
    <3>. QED  BY <2>1, <3>1, <3>2, <3>3
  <2>. QED  BY <2>3 DEF RefInv
<1>3. CASE BuildDirectory
  <2>1. /\ wpc = "idle" /\ ndir' = cur + 1 /\ refs' = [refs EXCEPT ![cur + 1] = 1]
        /\ UNCHANGED <<cur, dir, gcpc>>
    BY <1>3 DEF BuildDirectory, gvars
  <2>2. ndir = NoSnap
    BY <2>1 DEF ListInv
  <2>3. ASSUME NEW d \in Snaps PROVE refs'[d] = Cardinality(Listed(d)') + (IF ndir' = d THEN 1 ELSE 0)
    <3>1. Listed(d)' = Listed(d)
      BY <2>1 DEF Listed
    <3>2. CASE d = cur + 1
      <4>1. Listed(d) = {}
        BY <1>0, <3>2 DEF Listed, ListInv
      <4>2. Cardinality(Listed(d)') = 0
        BY <3>1, <4>1, FS_EmptySet
      <4>3. refs'[d] = 1
        BY <1>0, <2>1, <3>2
      <4>. QED  BY <2>1, <3>2, <4>2, <4>3
    <3>3. CASE d # cur + 1
      <4>1. refs[d] = Cardinality(Listed(d)) /\ Cardinality(Listed(d)) \in Nat
        BY <1>0, <2>2, ListedFinite DEF RefInv
      <4>2. refs'[d] = refs[d]
        BY <1>0, <2>1, <3>3
      <4>. QED  BY <2>1, <3>1, <3>3, <4>1, <4>2
    <3>. QED  BY <3>2, <3>3
  <2>. QED  BY <2>3 DEF RefInv
<1>4. CASE PublishAndRetire
  <2>1. /\ wpc # "idle" /\ cur' = cur + 1 /\ dir' = [dir EXCEPT ![cur + 1] = ndir] /\ ndir' = NoSnap
        /\ UNCHANGED <<refs, gcpc>>
    BY <1>4 DEF PublishAndRetire
  <2>2. cur + 1 \in Snaps /\ gcpc[cur + 1] \notin {"drain", "end"}
    <3>1. cur + 1 \in Snaps
      BY <2>1, MaxSnapAssumption DEF Types, DirTypes, Snaps
    <3>2. ~ (cur + 1 < cur)
      BY <1>0
    <3>. QED  BY <3>1, <3>2 DEF SnapInv
  <2>3. \A s \in 1 .. cur : dir'[s] = dir[s]
    BY <1>0, <2>1
  <2>4. dir'[cur + 1] = ndir
    BY <1>0, <2>1, <2>2
  <2>5. 1 .. cur' = (1 .. cur) \cup {cur + 1} /\ cur + 1 \notin 1 .. cur
    BY <1>0, <2>1
  <2>6. ASSUME NEW d \in Snaps PROVE refs'[d] = Cardinality(Listed(d)') + (IF ndir' = d THEN 1 ELSE 0)
    <3>1. Listed(d)' = IF ndir = d THEN Listed(d) \cup {cur + 1} ELSE Listed(d)
      <4>1. Listed(d)' = {s \in (1 .. cur) \cup {cur + 1} : dir'[s] = d /\ gcpc[s] \notin {"drain", "end"}}
        BY <2>1, <2>5 DEF Listed
      <4>. QED  BY <2>2, <2>3, <2>4, <4>1 DEF Listed
    <3>2. cur + 1 \notin Listed(d)
      BY <2>5 DEF Listed
    <3>3. IsFiniteSet(Listed(d)) /\ Cardinality(Listed(d)) \in Nat
      BY ListedFinite
    <3>4. Cardinality(Listed(d) \cup {cur + 1}) = Cardinality(Listed(d)) + 1
      BY <3>2, <3>3, FS_AddElement, SMTT(30)
    <3>5. refs[d] = Cardinality(Listed(d)) + (IF ndir = d THEN 1 ELSE 0)
      BY DEF RefInv
    <3>6. ndir' # d
      BY <1>0, <2>1
    <3>. QED  BY <2>1, <3>1, <3>3, <3>4, <3>5, <3>6
  <2>. QED  BY <2>6 DEF RefInv
<1>5. ASSUME NEW s \in Snaps, GcUnref(s) PROVE RefInv'
  <2>1. /\ gcpc[s] = "unref" /\ refs' = [refs EXCEPT ![dir[s]] = @ - 1] /\ gcpc' = [gcpc EXCEPT ![s] = "drain"]
        /\ UNCHANGED <<cur, dir, ndir>>
    BY <1>5 DEF GcUnref
  <2>2. s \in 1 .. cur /\ dir[s] \in Snaps
    <3>1. s < cur /\ s \in Int /\ s >= 1
      BY <2>1, MaxSnapAssumption DEF SnapInv, Snaps
    <3>. QED  BY <1>0, <3>1 DEF ListInv
  <2>3. \A t \in Snaps : gcpc'[t] = IF t = s THEN "drain" ELSE gcpc[t]
    BY <2>1 DEF Types, GcTypes
  <2>4. ASSUME NEW d \in Snaps PROVE refs'[d] = Cardinality(Listed(d)') + (IF ndir' = d THEN 1 ELSE 0)
    <3>1. Listed(d)' = IF d = dir[s] THEN Listed(d) \ {s} ELSE Listed(d)
      BY <1>0, <2>1, <2>3 DEF Listed
    <3>2. refs[d] = Cardinality(Listed(d)) + (IF ndir = d THEN 1 ELSE 0)
      BY DEF RefInv
    <3>3. IsFiniteSet(Listed(d)) /\ Cardinality(Listed(d)) \in Nat
      BY ListedFinite
    <3>4. refs'[d] = IF d = dir[s] THEN refs[d] - 1 ELSE refs[d]
      BY <1>0, <2>1
    <3>5. CASE d = dir[s]
      <4>1. s \in Listed(d)
        BY <2>1, <2>2, <3>5 DEF Listed
      <4>2. Cardinality(Listed(d) \ {s}) = Cardinality(Listed(d)) - 1
        BY <3>3, <4>1, FS_RemoveElement, ZenonT(30)
      <4>. QED  BY <2>1, <3>1, <3>2, <3>3, <3>4, <3>5, <4>2
    <3>6. CASE d # dir[s]
      BY <2>1, <3>1, <3>2, <3>4, <3>6
    <3>. QED  BY <3>5, <3>6
  <2>. QED  BY <2>4 DEF RefInv
<1>6. ASSUME ~ Writer, \A s \in Snaps : ~ GcUnref(s) PROVE RefInv'
  <2>1. UNCHANGED <<cur, dir, refs, ndir>>
    BY <1>6, Zenon DEF Next, GcStart, GcThread, Reader, StartClaim, StartThread, StartDone, StartFailed, GcEpoch, GcCount,
       GcDrained, Enter, acquire_zone_snapshot, retain_zone_snapshot, Lookup, Exit, release_zone_snapshot, vars, dvars
  <2>2. ASSUME NEW s \in Snaps PROVE gcpc'[s] \in {"drain", "end"} <=> gcpc[s] \in {"drain", "end"}
    BY <1>6, GcMoves
  <2>. QED  BY <1>1, <2>1, <2>2
<1>7. ASSUME NEW x \in Elems, dbreg_commit(x) \/ dbreg_delete(x) PROVE RefInv'
  <2>1. UNCHANGED <<cur, dir, refs, ndir, gcpc>>
    BY <1>7, Zenon DEF dbreg_commit, dbreg_delete, dvars, gvars
  <2>. QED  BY <1>1, <2>1
<1>. QED  BY <1>2, <1>3, <1>4, <1>5, <1>6, <1>7, Zenon DEF Writer

\* A snapshot that still lists its directory has a reference to it, and so has the one that is made.
LEMMA ListedRef ==
  ASSUME Types, RefInv, NEW d \in Snaps
  PROVE  refs[d] >= 0 /\ (Listed(d) # {} => refs[d] > 0) /\ (refs[d] > 0 => Listed(d) # {} \/ ndir = d)
<1>1. IsFiniteSet(Listed(d)) /\ Cardinality(Listed(d)) \in Nat
  BY ListedFinite
<1>2. refs[d] = Cardinality(Listed(d)) + (IF ndir = d THEN 1 ELSE 0)
  BY DEF RefInv
<1>3. Cardinality(Listed(d)) = 0 <=> Listed(d) = {}
  BY <1>1, FS_EmptySet
<1>. QED  BY <1>1, <1>2, <1>3

\* The directory of a snapshot that a reader still sees is kept by this snapshot, and by any other one
\* that lists it beside: zdir_unref() of that one does not free it.
LEMMA HeldRef ==
  ASSUME Types, SnapInv, HoldInv, CountInv, ListInv, RefInv, NEW r \in Readers, rsnap[r] # NoSnap
  PROVE  /\ dir[rsnap[r]] \in Snaps /\ refs[dir[rsnap[r]]] > 0
         /\ \A s \in Snaps : gcpc[s] = "unref" /\ dir[s] = dir[rsnap[r]] => refs[dir[s]] # 1
<1>1. rsnap[r] \in Snaps /\ rsnap[r] <= cur /\ gcpc[rsnap[r]] \notin {"unref", "drain", "end"}
  BY HeldEarly
<1>2. cur \in Int /\ 1 .. cur \subseteq Snaps /\ rsnap[r] \in 1 .. cur
  BY <1>1, MaxSnapAssumption DEF Types, DirTypes, Snaps
<1>3. dir[rsnap[r]] \in Snaps
  BY <1>1, <1>2 DEF ListInv
<1> DEFINE d == dir[rsnap[r]]
<1>4. rsnap[r] \in Listed(d)
  BY <1>1, <1>2 DEF Listed
<1>5. refs[d] > 0
  BY <1>3, <1>4, ListedRef
<1>6. ASSUME NEW s \in Snaps, gcpc[s] = "unref", dir[s] = d PROVE refs[dir[s]] # 1
  <2>1. s < cur /\ s \in 1 .. cur
    BY <1>2, <1>6, MaxSnapAssumption DEF SnapInv, Snaps
  <2>2. s \in Listed(d) /\ rsnap[r] \in Listed(d) \ {s}
    BY <1>1, <1>4, <1>6, <2>1 DEF Listed
  <2>3. IsFiniteSet(Listed(d)) /\ Cardinality(Listed(d)) \in Nat
    BY ListedFinite
  <2>4. IsFiniteSet(Listed(d) \ {s}) /\ Cardinality(Listed(d) \ {s}) = Cardinality(Listed(d)) - 1
    BY <2>2, <2>3, FS_RemoveElement
  <2>5. Cardinality(Listed(d) \ {s}) # 0 /\ Cardinality(Listed(d) \ {s}) \in Nat
    BY <2>2, <2>4, FS_EmptySet, FS_CardinalityType, ZenonT(30)
  <2>6. refs[d] = Cardinality(Listed(d)) + (IF ndir = d THEN 1 ELSE 0)
    BY <1>3 DEF RefInv
  <2>7. Cardinality(Listed(d)) > 1
    BY <2>3, <2>4, <2>5
  <2>8. refs[d] # 1
    BY <2>3, <2>6, <2>7
  <2>. QED  BY <1>6, <2>8
<1>. QED  BY <1>3, <1>5, <1>6
=============================================================================
