-------------------------- MODULE SnapshotGcProofs --------------------------
(***************************************************************************)
(* Proofs about SnapshotGc, for any readers, elements and bound of the     *)
(* snapshots: what readers can touch is never freed, nothing is freed      *)
(* twice, and no snapshot is left without a cleanup thread unnoticed.      *)
(*                                                                         *)
(* The argument.  Cleanup threads wait for sections and references of      *)
(* their own snapshot (HoldInv, CountInv), but garbage of a snapshot may   *)
(* be seen by readers of older ones, which share its directory.  So the    *)
(* list that holds an element is behind every snapshot whose directory or  *)
(* reader has it (DirInv, FoundInv), and lists are freed in the order of   *)
(* the queue (SnapInv): when one is freed, no older snapshot has a reader. *)
(***************************************************************************)
EXTENDS SnapshotGcLemmas

(* An element is on one garbage list at most, and never in the registry    *)
(* when it is on one.                                                      *)

GarbInv ==
  /\ flagged \cup registry \cup removes \subseteq made
  /\ (flagged \cup removes) \cap registry = {}
  /\ \A d \in Snaps : index[d] \subseteq made
  /\ g_garb \in [Elems -> {0, 1}] /\ garb \in [Snaps -> [Elems -> {0, 1}]]
  /\ \A x \in Elems : x \notin flagged => g_garb[x] = 0 /\ \A s \in Snaps : garb[s][x] = 0
  /\ \A x \in Elems, s \in Snaps :
       garb[s][x] = 1 => s < cur /\ g_garb[x] = 0 /\ \A t \in Snaps : garb[t][x] = 1 => t = s

\* The part of it that a change of the directory alone can disturb.
LEMMA GarbFrame ==
  ASSUME GarbInv, UNCHANGED <<cur, registry, removes, g_garb, garb, flagged>>, made \subseteq made',
         \A d \in Snaps : index'[d] \subseteq made'
  PROVE  GarbInv'
BY DEF GarbInv

\* ZDIR_F_GARB: what is flagged already is not put on the list again.
LEMMA DiscardKeeps ==
  ASSUME GarbInv, Types, NEW S \in SUBSET Elems, Discard(S), S \cap registry' = {}, S \subseteq made',
         UNCHANGED <<cur, garb>>, registry' \subseteq registry, removes' \cap registry' = {},
         made \subseteq made', removes' \subseteq made', \A d \in Snaps : index'[d] \subseteq made'
  PROVE  GarbInv'
<1>1. flagged' = flagged \cup S /\ flagged \subseteq Elems
  BY DEF Discard, Types, GarbTypes
<1>2. \A x \in Elems : g_garb'[x] = IF x \in S \ flagged THEN 1 ELSE g_garb[x]
  <2>1. \A x \in Elems : g_garb'[x] = g_garb[x] + IF x \in S \ flagged THEN 1 ELSE 0
    BY DEF Discard, garb_elem
  <2>2. \A x \in Elems : g_garb[x] \in {0, 1} /\ (x \notin flagged => g_garb[x] = 0)
    BY DEF GarbInv
  <2>. QED  BY <2>1, <2>2
<1>3. g_garb' \in [Elems -> {0, 1}]
  <2>1. g_garb' = [x \in Elems |-> g_garb'[x]]
    BY DEF Discard, garb_elem
  <2>. QED  BY <1>2, <2>1 DEF GarbInv
<1>4. \A x \in Elems : x \notin flagged' => g_garb'[x] = 0 /\ \A s \in Snaps : garb'[s][x] = 0
  BY <1>1, <1>2 DEF GarbInv
<1>5. ASSUME NEW x \in Elems, NEW s \in Snaps, garb'[s][x] = 1
      PROVE  s < cur' /\ g_garb'[x] = 0 /\ \A t \in Snaps : garb'[t][x] = 1 => t = s
  <2>1. garb[s][x] = 1 /\ x \in flagged
    BY <1>5 DEF GarbInv
  <2>. QED  BY <1>2, <2>1 DEF GarbInv
<1>. QED  BY <1>1, <1>3, <1>4, <1>5 DEF GarbInv

\* The index that a change gives a directory.
LEMMA ChangedIndex ==
  ASSUME Types, ListInv, GarbInv, ApplyDelta \/ ApplyCatalog
  PROVE  \E out, new, back :
           /\ index' = [index EXCEPT ![dir[cur]] = (@ \ out) \cup new \cup back]
           /\ made' = made \cup new /\ back \subseteq registry /\ new \subseteq Owned \ made
           /\ \/ ApplyDelta /\ out = removes /\ new = {} /\ Discard(removes \cap index[dir[cur]])
              \/ ApplyCatalog /\ out \subseteq index[dir[cur]] /\ Discard(out \cap Owned)
<1>1. CASE ApplyDelta
  <2>1. PICK hidden \in SUBSET adds :
               index' = [index EXCEPT ![dir[cur]] = (@ \ removes) \cup ((adds \cap registry) \ hidden)]
    BY <1>1, ZenonT(30) DEF ApplyDelta
  <2>2. UNCHANGED made /\ Discard(removes \cap index[dir[cur]])
    BY <1>1 DEF ApplyDelta
  <2>3. index' = [index EXCEPT ![dir[cur]] = (@ \ removes) \cup {} \cup ((adds \cap registry) \ hidden)]
    BY <2>1
  <2>. QED  BY <1>1, <2>2, <2>3, ZenonT(30)
<1>2. CASE ApplyCatalog
  BY <1>2, ZenonT(30) DEF ApplyCatalog
<1>. QED  BY <1>1, <1>2, ZenonT(30)

\* What leaves the index or the registry goes on a list once; dbreg_delete() and the changes of the index
\* never discard an element of the registry.
LEMMA NextGarb == Types /\ ListInv /\ GarbInv /\ [Next]_vars => GarbInv'
<1> SUFFICES ASSUME Types, ListInv, GarbInv, [Next]_vars
             PROVE  GarbInv'
  OBVIOUS
<1>0. cur \in Int /\ cur \in Snaps /\ dir[cur] \in Snaps
  BY MaxSnapAssumption DEF Types, DirTypes, ListInv, Snaps
<1>1. ASSUME NEW x \in Elems, dbreg_commit(x) PROVE GarbInv'
  BY <1>1 DEF dbreg_commit, GarbInv, fvars
<1>2. ASSUME NEW x \in Elems, dbreg_delete(x) PROVE GarbInv'
  <2>1. x \in registry /\ registry' = registry \ {x} /\ UNCHANGED <<cur, made, index, garb>>
    BY <1>2 DEF dbreg_delete, dvars
  <2>2. CASE x \in adds \/ x \in index[dir[cur]]
    <3>1. removes' = removes \cup {x} /\ UNCHANGED <<g_garb, flagged>>
      BY <1>2, <2>2, ZenonT(30) DEF dbreg_delete
    <3>. QED  BY <2>1, <3>1, SMTT(30) DEF GarbInv
  <2>3. CASE ~ (x \in adds \/ x \in index[dir[cur]])
    <3>1. Discard({x}) /\ UNCHANGED removes
      BY <1>2, <2>3 DEF dbreg_delete
    <3>2. /\ {x} \in SUBSET Elems /\ {x} \cap registry' = {} /\ {x} \subseteq made' /\ registry' \subseteq registry
          /\ removes' \cap registry' = {} /\ made \subseteq made' /\ removes' \subseteq made'
          /\ \A d \in Snaps : index'[d] \subseteq made'
      BY <2>1, <3>1, SMTT(30) DEF GarbInv
    <3>. QED  BY <2>1, <3>1, <3>2, DiscardKeeps
  <2>. QED  BY <2>2, <2>3
<1>3. CASE ApplyDelta \/ ApplyCatalog
  <2>1. PICK out, new, back :
           /\ index' = [index EXCEPT ![dir[cur]] = (@ \ out) \cup new \cup back]
           /\ made' = made \cup new /\ back \subseteq registry /\ new \subseteq Owned \ made
           /\ \/ ApplyDelta /\ out = removes /\ new = {} /\ Discard(removes \cap index[dir[cur]])
              \/ ApplyCatalog /\ out \subseteq index[dir[cur]] /\ Discard(out \cap Owned)
    BY <1>3, ChangedIndex, ZenonT(30)
  <2>2. UNCHANGED <<cur, registry, removes, garb>>
    BY <1>3 DEF ApplyDelta, ApplyCatalog, qvars
  <2>3. \A d \in Snaps : index'[d] \subseteq made'
    BY <1>0, <2>1 DEF GarbInv, Types, DirTypes
  <2>4. PICK S \in SUBSET Elems : Discard(S) /\ S \cap registry = {} /\ S \subseteq made
    <3>1. index[dir[cur]] \subseteq made /\ made \subseteq Elems
      BY <1>0, ZenonT(30) DEF GarbInv, Types, DirTypes
    <3>2. CASE Discard(removes \cap index[dir[cur]])
      BY <3>1, <3>2 DEF GarbInv
    <3>3. CASE out \subseteq index[dir[cur]] /\ Discard(out \cap Owned)
      <4>1. (out \cap Owned) \cap registry = {}
        BY KindsAssumption DEF Types, QueueTypes
      <4>. QED  BY <3>1, <3>3, <4>1
    <3>. QED  BY <2>1, <3>2, <3>3
  <2>5. /\ S \cap registry' = {} /\ S \subseteq made' /\ registry' \subseteq registry
        /\ removes' \cap registry' = {} /\ made \subseteq made' /\ removes' \subseteq made'
    BY <2>1, <2>2, <2>4 DEF GarbInv
  <2>. QED  BY <2>2, <2>3, <2>4, <2>5, DiscardKeeps
<1>4. CASE BuildDirectory
  <2>1. PICK shown \in SUBSET registry, new \in SUBSET (Owned \ made) :
               index' = [index EXCEPT ![cur + 1] = shown \cup new] /\ made' = made \cup new
    BY <1>4, ZenonT(30) DEF BuildDirectory
  <2>2. UNCHANGED <<cur, registry, removes, g_garb, garb, flagged>>
    BY <1>4 DEF BuildDirectory, qvars, fvars
  <2>3. \A d \in Snaps : index'[d] \subseteq made'
    BY <2>1 DEF GarbInv, Types, DirTypes
  <2>. QED  BY <2>1, <2>2, <2>3, GarbFrame
<1>5. CASE PublishAndRetire
  <2> DEFINE dropped == IF wpc = "catalog" THEN {} ELSE removes
  <2>1. /\ cur' = cur + 1 /\ garb' = [garb EXCEPT ![cur] = garb_elem(g_garb, dropped)]
        /\ flagged' = flagged \cup dropped /\ g_garb' = NoGarbage /\ UNCHANGED <<index, made, registry>>
    BY <1>5 DEF PublishAndRetire
  <2>2. removes' \subseteq removes /\ dropped \subseteq removes
    BY <1>5 DEF PublishAndRetire
  <2> HIDE DEF dropped
  <2>3. \A x \in Elems : g_garb'[x] = 0
    BY <2>1 DEF NoGarbage
  <2>4. g_garb' \in [Elems -> {0, 1}]
    BY <2>1 DEF NoGarbage
  <2> DEFINE g == garb_elem(g_garb, dropped)
  <2>5. \A x \in Elems : g[x] = IF x \in dropped \ flagged THEN 1 ELSE g_garb[x]
    <3>1. \A x \in Elems : g[x] = g_garb[x] + IF x \in dropped \ flagged THEN 1 ELSE 0
      BY DEF garb_elem
    <3>2. \A x \in Elems : g_garb[x] \in {0, 1} /\ (x \notin flagged => g_garb[x] = 0)
      BY DEF GarbInv
    <3>. QED  BY <3>1, <3>2
  <2>6. g \in [Elems -> {0, 1}]
    <3>1. g = [x \in Elems |-> g[x]]
      BY DEF garb_elem
    <3>. QED  BY <2>5, <3>1 DEF GarbInv
  <2> HIDE DEF g
  <2>7. \A s \in Snaps : garb'[s] = IF s = cur THEN g ELSE garb[s]
    BY <2>1 DEF Types, GarbTypes, g
  <2>8. garb' \in [Snaps -> [Elems -> {0, 1}]]
    <3>1. garb' = [s \in Snaps |-> garb'[s]]
      BY <2>1, ZenonT(30) DEF Types, GarbTypes
    <3>. QED  BY <2>6, <2>7, <3>1 DEF GarbInv
  <2>9. \A x \in Elems : x \notin flagged' => g_garb'[x] = 0 /\ \A s \in Snaps : garb'[s][x] = 0
    BY <2>1, <2>3, <2>5, <2>7 DEF GarbInv
  <2>10. ASSUME NEW x \in Elems, NEW s \in Snaps, garb'[s][x] = 1
         PROVE  s < cur' /\ g_garb'[x] = 0 /\ \A t \in Snaps : garb'[t][x] = 1 => t = s
    <3>1. ASSUME NEW t \in Snaps, garb[t][x] = 1 PROVE g[x] = 0
      BY <2>5, <3>1 DEF GarbInv
    <3>2. s < cur'
      <4>1. s = cur \/ s < cur
        BY <2>7, <2>10 DEF GarbInv
      <4>. QED  BY <1>0, <2>1, <4>1 DEF Snaps
    <3>3. \A t \in Snaps : garb'[t][x] = 1 => t = s
      BY <2>7, <2>10, <3>1 DEF GarbInv
    <3>. QED  BY <2>3, <3>2, <3>3
  <2>11. /\ flagged' \cup registry' \cup removes' \subseteq made' /\ (flagged' \cup removes') \cap registry' = {}
         /\ \A d \in Snaps : index'[d] \subseteq made'
    BY <2>1, <2>2 DEF GarbInv
  <2>. QED  BY <2>4, <2>8, <2>9, <2>10, <2>11, ZenonT(30) DEF GarbInv
<1>6. ASSUME NEW s \in Snaps, GcUnref(s) PROVE GarbInv'
  <2>1. index' = [index EXCEPT ![dir[s]] = {}] \/ index' = index
    BY <1>6 DEF GcUnref
  <2>2. UNCHANGED <<cur, registry, removes, g_garb, garb, flagged, made>>
    BY <1>6 DEF GcUnref, qvars
  <2>3. \A d \in Snaps : index'[d] \subseteq made'
    BY <2>1, <2>2 DEF GarbInv, Types, DirTypes
  <2>. QED  BY <2>2, <2>3, GarbFrame
<1>7. ASSUME ~ Writer, \A s \in Snaps : ~ GcUnref(s) PROVE GarbInv'
  <2>1. UNCHANGED <<cur, registry, removes, g_garb, garb, flagged, made, index>>
    BY <1>7, Zenon DEF Next, GcStart, GcThread, Reader, StartClaim, StartThread, StartDone, StartFailed, GcEpoch, GcCount,
       GcDrained, Enter, acquire_zone_snapshot, retain_zone_snapshot, Lookup, Exit, release_zone_snapshot, vars, dvars,
       qvars, fvars
  <2>. QED  BY <2>1 DEF GarbInv
<1>. QED  BY <1>1, <1>2, <1>3, <1>4, <1>5, <1>6, <1>7, Zenon DEF Writer

(* What is garbage has left the directory that is changed now, and is in   *)
(* directories of snapshots up to the one that holds it.                   *)

Latest == IF wpc = "idle" THEN dir[cur] ELSE ndir

DirInv ==
  /\ flagged \cap index[Latest] = {}
  /\ wpc \in {"delta", "rebuild"} => removes \cap index[ndir] = {}
  /\ \A x \in Owned, d, e \in Snaps : x \in index[d] /\ x \in index[e] => d = e
  /\ \A d \in Snaps : refs[d] = 0 => index[d] = {}
  /\ \A x \in Elems, s, t \in Snaps : garb[s][x] = 1 /\ t <= cur /\ x \in index[dir[t]] => t <= s

\* The snapshots that a change of the directories meets.
LEMMA LatestDir ==
  ASSUME Types, ListInv
  PROVE  /\ cur \in Int /\ cur >= 1 /\ cur \in Snaps /\ 1 .. cur \subseteq Snaps /\ \A s \in Snaps : s \in Int
         /\ dir[cur] \in 1 .. cur /\ \A t \in Snaps : t <= cur => dir[t] \in 1 .. cur
         /\ wpc # "idle" => cur + 1 \in Snaps /\ ndir \in Snaps
         /\ Latest \in Snaps
<1>1. /\ cur \in Int /\ cur >= 1 /\ cur \in Snaps /\ 1 .. cur \subseteq Snaps /\ \A s \in Snaps : s \in Int
  BY MaxSnapAssumption DEF Types, DirTypes, Snaps
<1>2. \A t \in Snaps : t <= cur => dir[t] \in 1 .. cur
  BY DEF ListInv
<1>3. dir[cur] \in 1 .. cur
  BY <1>1, <1>2
<1>4. wpc # "idle" => cur + 1 \in Snaps
  BY MaxSnapAssumption DEF Types, DirTypes, Snaps
<1>5. wpc # "idle" => ndir = cur + 1 \/ ndir = dir[cur]
  BY DEF ListInv, Types, DirTypes
<1>. QED  BY <1>1, <1>2, <1>3, <1>4, <1>5 DEF Latest

\* zdir_tab changes in place, publication and zdir_unref(): what is garbage is not in the newest directory,
\* and an element that a directory owns is in no other one.
LEMMA NextDir ==
  ASSUME Types, ListInv, RefInv, GarbInv, DirInv, [Next]_vars, ListInv', GarbInv'
  PROVE  DirInv'
<1>0. /\ cur \in Int /\ cur >= 1 /\ cur \in Snaps /\ 1 .. cur \subseteq Snaps /\ \A s \in Snaps : s \in Int
      /\ dir[cur] \in 1 .. cur /\ \A t \in Snaps : t <= cur => dir[t] \in 1 .. cur
      /\ wpc # "idle" => cur + 1 \in Snaps /\ ndir \in Snaps
      /\ Latest \in Snaps
  BY LatestDir, SMTT(30)
<1>1. ASSUME NEW x \in Elems, dbreg_commit(x) PROVE DirInv'
  BY <1>1, ZenonT(30) DEF dbreg_commit, DirInv, Latest, fvars
<1>2. ASSUME NEW x \in Elems, dbreg_delete(x) PROVE DirInv'
  <2>1. wpc = "idle" /\ UNCHANGED <<cur, dir, refs, index, ndir, wpc, garb>>
    BY <1>2, SMTT(30) DEF dbreg_delete, dvars
  <2>2. flagged' = flagged \/ (flagged' = flagged \cup {x} /\ x \notin index[dir[cur]])
    BY <1>2 DEF dbreg_delete, Discard
  <2>3. flagged' \cap index'[Latest'] = {}
    BY <2>1, <2>2, SMTT(30) DEF DirInv, Latest
  <2>. QED  BY <2>1, <2>3 DEF DirInv
<1>3. CASE ApplyDelta \/ ApplyCatalog
  <2>1. PICK out, new, back :
           /\ index' = [index EXCEPT ![dir[cur]] = (@ \ out) \cup new \cup back]
           /\ made' = made \cup new /\ back \subseteq registry /\ new \subseteq Owned \ made
           /\ \/ ApplyDelta /\ out = removes /\ new = {} /\ Discard(removes \cap index[dir[cur]])
              \/ ApplyCatalog /\ out \subseteq index[dir[cur]] /\ Discard(out \cap Owned)
    BY <1>3, ChangedIndex, ZenonT(30)
  <2>2. /\ wpc = "idle" /\ wpc' \in {"delta", "catalog"} /\ (ApplyCatalog => wpc' = "catalog")
        /\ ndir' = dir[cur] /\ refs' = [refs EXCEPT ![dir[cur]] = @ + 1]
        /\ UNCHANGED <<cur, dir, registry, removes, garb>>
    BY <1>3 DEF ApplyDelta, ApplyCatalog, snap_clone_locked, qvars
  <2>3. /\ \A d \in Snaps : d # dir[cur] => index'[d] = index[d]
        /\ index'[dir[cur]] = (index[dir[cur]] \ out) \cup new \cup back
    BY <1>0, <2>1 DEF Types, DirTypes
  <2>4. /\ (flagged \cup removes) \cap (new \cup back) = {} /\ back \cap Owned = {} /\ Latest = dir[cur] /\ Latest' = dir[cur]
        /\ removes \cap Owned = {}
    BY <2>1, <2>2, KindsAssumption DEF GarbInv, Latest, Types, QueueTypes
  <2>5. flagged' \cap index'[Latest'] = {}
    <3>1. flagged \cap index[dir[cur]] = {} /\ index[dir[cur]] \subseteq made
      BY <1>0, <2>4 DEF DirInv, GarbInv
    <3>2. CASE ApplyDelta /\ out = removes /\ new = {} /\ Discard(removes \cap index[dir[cur]])
      BY <2>3, <2>4, <3>1, <3>2 DEF Discard
    <3>3. CASE ApplyCatalog /\ out \subseteq index[dir[cur]] /\ Discard(out \cap Owned)
      BY <2>1, <2>3, <2>4, <3>1, <3>3, SMTT(30) DEF Discard
    <3>. QED  BY <2>1, <3>2, <3>3
  <2>6. wpc' \in {"delta", "rebuild"} => removes' \cap index'[ndir'] = {}
    <3>1. ASSUME wpc' \in {"delta", "rebuild"} PROVE out = removes
      BY <2>1, <2>2, <3>1
    <3>. QED  BY <2>2, <2>3, <2>4, <3>1
  <2>7. ASSUME NEW x \in Owned, NEW d \in Snaps, NEW e \in Snaps, x \in index'[d], x \in index'[e] PROVE d = e
    <3>1. CASE x \in new
      <4>1. \A c \in Snaps : x \notin index[c]
        BY <2>1, <3>1, SMTT(30) DEF GarbInv
      <4>. QED  BY <2>3, <2>7, <4>1
    <3>2. CASE x \notin new
      <4>1. x \in index[d] /\ x \in index[e]
        BY <2>3, <2>4, <2>7, <3>2, SMTT(30)
      <4>. QED  BY <4>1, ZenonT(30) DEF DirInv
    <3>. QED  BY <3>1, <3>2
  <2>8. ASSUME NEW d \in Snaps, refs'[d] = 0 PROVE index'[d] = {}
    <3>1. refs[d] >= 0 /\ refs[d] \in Int
      BY ListedRef DEF Types, DirTypes
    <3>2. d # dir[cur]
      BY <2>2, <2>8, <3>1 DEF Types, DirTypes
    <3>3. refs[d] = 0
      BY <2>2, <2>8, <3>2, SMTT(30) DEF Types, DirTypes
    <3>. QED  BY <2>3, <3>2, <3>3, ZenonT(30) DEF DirInv
  <2>9. ASSUME NEW x \in Elems, NEW s \in Snaps, NEW u \in Snaps, garb'[s][x] = 1, u <= cur', x \in index'[dir'[u]]
        PROVE  u <= s
    <3>1. garb[s][x] = 1 /\ u <= cur /\ x \in index'[dir[u]] /\ dir[u] \in Snaps /\ x \in flagged
      BY <1>0, <2>2, <2>9, SMTT(30) DEF GarbInv
    <3>2. x \in index[dir[u]]
      BY <2>3, <2>4, <3>1
    <3>. QED  BY <3>1, <3>2, SMTT(30) DEF DirInv
  <2>. QED  BY <2>5, <2>6, <2>7, <2>8, <2>9 DEF DirInv
<1>4. CASE BuildDirectory
  <2>1. PICK shown \in SUBSET registry, new \in SUBSET (Owned \ made) :
               index' = [index EXCEPT ![cur + 1] = shown \cup new] /\ made' = made \cup new
    BY <1>4, ZenonT(30) DEF BuildDirectory
  <2>2. /\ wpc' = "rebuild" /\ ndir' = cur + 1 /\ refs' = [refs EXCEPT ![cur + 1] = 1] /\ cur < MaxSnap
        /\ UNCHANGED <<cur, dir, registry, removes, g_garb, garb, flagged>>
    BY <1>4 DEF BuildDirectory, qvars, fvars
  <2>3. cur + 1 \in Snaps /\ cur + 1 \notin 1 .. cur
    BY <2>2, MaxSnapAssumption DEF Types, DirTypes, Snaps
  <2>4. /\ \A d \in Snaps : d # cur + 1 => index'[d] = index[d]
        /\ index'[cur + 1] = shown \cup new
    BY <2>1, <2>3 DEF Types, DirTypes
  <2>5. (flagged \cup removes) \cap (shown \cup new) = {} /\ shown \cap Owned = {}
    BY <2>1, KindsAssumption DEF GarbInv, Types, QueueTypes
  <2>6. flagged' \cap index'[Latest'] = {} /\ removes' \cap index'[ndir'] = {}
    BY <2>2, <2>4, <2>5 DEF Latest
  <2>7. ASSUME NEW x \in Owned, NEW d \in Snaps, NEW e \in Snaps, x \in index'[d], x \in index'[e] PROVE d = e
    <3>1. x \in new => \A c \in Snaps : x \notin index[c]
      BY <2>1 DEF GarbInv
    <3>. QED  BY <2>4, <2>5, <2>7, <3>1, ZenonT(30) DEF DirInv
  <2>8. ASSUME NEW d \in Snaps, refs'[d] = 0 PROVE index'[d] = {}
    BY <2>2, <2>3, <2>4, <2>8 DEF DirInv, Types, DirTypes
  <2>9. ASSUME NEW x \in Elems, NEW s \in Snaps, NEW u \in Snaps, garb'[s][x] = 1, u <= cur', x \in index'[dir'[u]]
        PROVE  u <= s
    <3>1. dir[u] \in Snaps /\ dir[u] # cur + 1
      BY <1>0, <2>2, <2>3, <2>9, ZenonT(30)
    <3>. QED  BY <2>2, <2>4, <2>9, <3>1 DEF DirInv
  <2>. QED  BY <2>6, <2>7, <2>8, <2>9 DEF DirInv
<1>5. CASE PublishAndRetire
  <2> DEFINE dropped == IF wpc = "catalog" THEN {} ELSE removes
  <2>1. /\ wpc # "idle" /\ wpc' = "idle" /\ cur' = cur + 1 /\ dir' = [dir EXCEPT ![cur + 1] = ndir]
        /\ garb' = [garb EXCEPT ![cur] = garb_elem(g_garb, dropped)] /\ flagged' = flagged \cup dropped
        /\ UNCHANGED <<index, refs>>
    BY <1>5 DEF PublishAndRetire
  <2>2. \A u \in Snaps : u <= cur => dir'[u] = dir[u]
    BY <1>0, <2>1 DEF Types, DirTypes
  <2>3. dir'[cur + 1] = ndir /\ Latest' = ndir /\ Latest = ndir
    BY <1>0, <2>1 DEF Types, DirTypes, Latest
  <2>4. flagged' \cap index'[Latest'] = {}
    <3>1. wpc # "catalog" => removes \cap index[ndir] = {}
      BY <2>1 DEF DirInv, Types, DirTypes
    <3>. QED  BY <2>1, <2>3, <3>1 DEF DirInv
  <2>5. ASSUME NEW x \in Elems, NEW s \in Snaps, NEW u \in Snaps, garb'[s][x] = 1, u <= cur', x \in index'[dir'[u]]
        PROVE  u <= s
    <3>1. x \in flagged'
      BY <2>5 DEF GarbInv
    <3>2. u # cur + 1
      BY <2>3, <2>4, <2>5, <3>1
    <3>3. u <= cur
      BY <1>0, <2>1, <2>5, <3>2
    <3>4. CASE s = cur
      BY <3>3, <3>4
    <3>5. CASE s # cur
      <4>1. garb[s][x] = 1
        BY <2>1, <2>5, <3>5, SMTT(30) DEF Types, GarbTypes
      <4>. QED  BY <2>1, <2>2, <2>5, <3>3, <4>1 DEF DirInv
    <3>. QED  BY <3>4, <3>5
  <2>6. \A x \in Owned, d, e \in Snaps : x \in index'[d] /\ x \in index'[e] => d = e
    BY <2>1 DEF DirInv
  <2>7. \A d \in Snaps : refs'[d] = 0 => index'[d] = {}
    BY <2>1 DEF DirInv
  <2>8. wpc' \notin {"delta", "rebuild"}
    BY <2>1, SMTT(30)
  <2>. QED  BY <2>4, <2>5, <2>6, <2>7, <2>8 DEF DirInv
<1>6. ASSUME NEW s \in Snaps, GcUnref(s) PROVE DirInv'
  <2>1. /\ refs' = [refs EXCEPT ![dir[s]] = @ - 1]
        /\ index' = IF refs[dir[s]] = 1 THEN [index EXCEPT ![dir[s]] = {}] ELSE index
        /\ UNCHANGED <<cur, dir, ndir, wpc, removes, flagged, garb>>
    BY <1>6 DEF GcUnref, qvars
  <2>2. \A d \in Snaps : index'[d] \subseteq index[d]
    BY <2>1 DEF Types, DirTypes
  <2>3. ASSUME NEW d \in Snaps, refs'[d] = 0 PROVE index'[d] = {}
    <3>1. CASE d = dir[s]
      <4>1. refs[d] \in Int /\ refs'[d] = refs[d] - 1
        BY <2>1, <3>1 DEF Types, DirTypes
      <4>2. refs[d] = 1
        BY <2>3, <4>1
      <4>. QED  BY <2>1, <3>1, <4>2 DEF Types, DirTypes
    <3>2. CASE d # dir[s]
      BY <2>1, <2>2, <2>3, <3>2 DEF DirInv, Types, DirTypes
    <3>. QED  BY <3>1, <3>2
  <2>4. flagged' \cap index'[Latest'] = {}
    BY <1>0, <2>1, <2>2, SMTT(30) DEF DirInv, Latest
  <2>5. wpc' \in {"delta", "rebuild"} => removes' \cap index'[ndir'] = {}
    BY <1>0, <2>1, <2>2 DEF DirInv
  <2>6. \A x \in Owned, d, e \in Snaps : x \in index'[d] /\ x \in index'[e] => d = e
    BY <2>2 DEF DirInv
  <2>7. ASSUME NEW x \in Elems, NEW t \in Snaps, NEW u \in Snaps, garb'[t][x] = 1, u <= cur', x \in index'[dir'[u]]
        PROVE  u <= t
    <3>1. dir[u] \in Snaps
      BY <1>0, <2>1, <2>7
    <3>. QED  BY <2>1, <2>2, <2>7, <3>1 DEF DirInv
  <2>. QED  BY <2>3, <2>4, <2>5, <2>6, <2>7, ZenonT(30) DEF DirInv
<1>7. ASSUME ~ Writer, \A s \in Snaps : ~ GcUnref(s) PROVE DirInv'
  <2>1. UNCHANGED <<cur, dir, ndir, wpc, refs, index, removes, garb, flagged>>
    BY <1>7, Zenon DEF Next, GcStart, GcThread, Reader, StartClaim, StartThread, StartDone, StartFailed, GcEpoch, GcCount,
       GcDrained, Enter, acquire_zone_snapshot, retain_zone_snapshot, Lookup, Exit, release_zone_snapshot, vars, dvars,
       qvars, fvars
  <2>. QED  BY <2>1 DEF DirInv, Latest
<1>. QED  BY <1>1, <1>2, <1>3, <1>4, <1>5, <1>6, <1>7, Zenon DEF Writer

(* An element is freed by the list that it is on, or by its directory.     *)

FreeInv ==
  /\ frees \in [Elems -> {0, 1}]
  /\ \A x \in flagged : frees[x] = 1 => \E s \in gone : garb[s][x] = 1
  /\ \A x \in Elems \ flagged : frees[x] = 1 => x \in Owned \cap made /\ \A d \in Snaps : x \notin index[d]

\* A garbage list has an element in one place.
LEMMA OnePlace ==
  ASSUME GarbInv, NEW x \in Elems, NEW done \in SUBSET Snaps
  PROVE  /\ (\E s \in done : garb[s][x] = 1) => Cardinality(Places(x, done)) = 1
         /\ (\A s \in done : garb[s][x] # 1) => Cardinality(Places(x, done)) = 0
<1>1. \A s \in done : garb[s][x] = 0 \/ garb[s][x] = 1
  BY DEF GarbInv
<1>2. ASSUME NEW s \in done, garb[s][x] = 1 PROVE Cardinality(Places(x, done)) = 1
  <2>1. \A t \in done : t # s => garb[t][x] = 0
    BY <1>1, <1>2 DEF GarbInv
  <2>2. \A t \in done : {t} \X (1 .. garb[t][x]) = IF t = s THEN {<<s, 1>>} ELSE {}
    <3>1. 1 .. 1 = {1} /\ 1 .. 0 = {}
      OBVIOUS
    <3>2. {s} \X {1} = {<<s, 1>>} /\ \A t \in done : {t} \X {} = {}
      OBVIOUS
    <3>3. ASSUME NEW t \in done, t # s PROVE {t} \X (1 .. garb[t][x]) = {}
      BY <2>1, <3>1, <3>2, <3>3
    <3>. QED  BY <1>2, <3>1, <3>2, <3>3
  <2>3. Places(x, done) = {<<s, 1>>}
    <3>1. \A p : p \in Places(x, done) <=> \E t \in done : p \in {t} \X (1 .. garb[t][x])
      BY Zenon DEF Places
    <3>. QED  BY <2>2, <3>1, Zenon
  <2>. QED  BY <2>3, FS_Singleton, ZenonT(30)
<1>3. ASSUME \A s \in done : garb[s][x] # 1 PROVE Cardinality(Places(x, done)) = 0
  <2>1. \A s \in done : {s} \X (1 .. garb[s][x]) = {}
    <3>1. 1 .. 0 = {}
      OBVIOUS
    <3>. QED  BY <1>1, <1>3, <3>1
  <2>2. Places(x, done) = {}
    <3>1. \A p : p \in Places(x, done) <=> \E t \in done : p \in {t} \X (1 .. garb[t][x])
      BY Zenon DEF Places
    <3>. QED  BY <2>1, <3>1, Zenon
  <2>. QED  BY <2>2, FS_EmptySet
<1>. QED  BY <1>2, <1>3

\* What is freed: a new flag is never put on what is freed already.
LEMMA FlagKeeps ==
  ASSUME Types, SnapInv, GarbInv, FreeInv, UNCHANGED frees, UNCHANGED gone, flagged \subseteq flagged', made \subseteq made',
         \A s \in gone : garb'[s] = garb[s],
         \A x \in flagged' \ flagged : x \in Elems /\ frees[x] = 0,
         \A x \in Elems, d \in Snaps : x \in index'[d] /\ x \notin flagged' /\ x \in Owned \cap made => \E e \in Snaps : x \in index[e]
  PROVE  FreeInv'
<1>1. \A x \in flagged' : frees'[x] = 1 => \E s \in gone' : garb'[s][x] = 1
  BY DEF FreeInv
<1>2. \A x \in Elems \ flagged' : frees'[x] = 1 => x \in Owned \cap made' /\ \A d \in Snaps : x \notin index'[d]
  BY DEF FreeInv
<1>. QED  BY <1>1, <1>2 DEF FreeInv

\* garb_free() and zdir_unref() free each element once: the flag tells who does.
LEMMA NextFree ==
  ASSUME Types, SnapInv, ListInv, GarbInv, DirInv, FreeInv, [Next]_vars
  PROVE  FreeInv'
<1>0. /\ cur \in Int /\ cur >= 1 /\ cur \in Snaps /\ 1 .. cur \subseteq Snaps /\ \A s \in Snaps : s \in Int
      /\ dir[cur] \in 1 .. cur /\ \A t \in Snaps : t <= cur => dir[t] \in 1 .. cur
  BY LatestDir
<1>1. \A x \in Registry : x \in Elems /\ x \notin Owned /\ (x \notin flagged => frees[x] = 0)
  BY KindsAssumption DEF Elems, FreeInv
<1>2. \A x \in Elems, d \in Snaps : x \in index[d] /\ x \notin flagged => frees[x] = 0
  BY DEF FreeInv
<1>3. ASSUME NEW x \in Elems, dbreg_commit(x) PROVE FreeInv'
  <2>1. UNCHANGED <<frees, gone, flagged, garb, index>> /\ made \subseteq made'
    BY <1>3 DEF dbreg_commit, fvars, gvars
  <2>. QED  BY <2>1, FlagKeeps
<1>4. ASSUME NEW x \in Elems, dbreg_delete(x) PROVE FreeInv'
  <2>1. UNCHANGED <<frees, gone, garb, index, made>> /\ (flagged' = flagged \/ flagged' = flagged \cup {x}) /\ x \in Registry
    BY <1>4 DEF dbreg_delete, Discard, gvars, dvars, Types, QueueTypes
  <2>. QED  BY <1>1, <2>1, FlagKeeps
<1>5. CASE ApplyDelta \/ ApplyCatalog
  <2>1. PICK out, new, back :
           /\ index' = [index EXCEPT ![dir[cur]] = (@ \ out) \cup new \cup back]
           /\ made' = made \cup new /\ back \subseteq registry /\ new \subseteq Owned \ made
           /\ \/ ApplyDelta /\ out = removes /\ new = {} /\ Discard(removes \cap index[dir[cur]])
              \/ ApplyCatalog /\ out \subseteq index[dir[cur]] /\ Discard(out \cap Owned)
    BY <1>5, ChangedIndex, ZenonT(30)
  <2>2. UNCHANGED <<frees, gone, garb>>
    BY <1>5 DEF ApplyDelta, ApplyCatalog, gvars
  <2>3. PICK S : S \subseteq index[dir[cur]] /\ flagged' = flagged \cup S
    BY <2>1 DEF Discard
  <2>4. \A x \in flagged' \ flagged : x \in Elems /\ frees[x] = 0
    BY <1>0, <1>2, <2>3 DEF Types, DirTypes
  <2>5. registry \cap Owned = {}
    BY KindsAssumption DEF Types, QueueTypes
  <2>6. \A x \in Elems, d \in Snaps : x \in index'[d] /\ x \in Owned \cap made => \E e \in Snaps : x \in index[e]
    BY <1>0, <2>1, <2>5 DEF Types, DirTypes
  <2>. QED  BY <2>1, <2>2, <2>3, <2>4, <2>6, FlagKeeps
<1>6. CASE BuildDirectory
  <2>1. PICK shown \in SUBSET registry, new \in SUBSET (Owned \ made) :
               index' = [index EXCEPT ![cur + 1] = shown \cup new] /\ made' = made \cup new
    BY <1>6, ZenonT(30) DEF BuildDirectory
  <2>2. UNCHANGED <<frees, gone, garb, flagged>>
    BY <1>6 DEF BuildDirectory, gvars, fvars
  <2>3. registry \cap Owned = {}
    BY KindsAssumption DEF Types, QueueTypes
  <2>4. \A x \in Elems, d \in Snaps : x \in index'[d] /\ x \in Owned \cap made => \E e \in Snaps : x \in index[e]
    BY <2>1, <2>3 DEF Types, DirTypes
  <2>. QED  BY <2>1, <2>2, <2>4, FlagKeeps
<1>7. CASE PublishAndRetire
  <2>1. /\ UNCHANGED <<frees, gone, index, made>> /\ flagged \subseteq flagged' /\ flagged' \subseteq flagged \cup removes
        /\ \A s \in Snaps : s # cur => garb'[s] = garb[s]
    BY <1>7 DEF PublishAndRetire, Types, GarbTypes
  <2>2. \A s \in gone : s \in Snaps /\ s # cur
    BY <1>0 DEF SnapInv, Types, GcTypes
  <2>3. \A x \in flagged' \ flagged : x \in Elems /\ frees[x] = 0
    BY <1>1, <2>1 DEF Types, QueueTypes
  <2>. QED  BY <2>1, <2>2, <2>3, FlagKeeps
<1>8. ASSUME NEW s \in Snaps, GcUnref(s) PROVE FreeInv'
  <2> DEFINE freed == IF refs[dir[s]] = 1 THEN (index[dir[s]] \cap Owned) \ flagged ELSE {}
  <2>1. /\ index' = IF refs[dir[s]] = 1 THEN [index EXCEPT ![dir[s]] = {}] ELSE index
        /\ frees' = [x \in Elems |-> frees[x] + IF x \in freed THEN 1 ELSE 0]
        /\ UNCHANGED <<flagged, garb, made, gone>> /\ gcpc[s] = "unref"
    BY <1>8 DEF GcUnref
  <2>2. dir[s] \in Snaps
    <3>1. s < cur
      BY <2>1 DEF SnapInv
    <3>2. s <= cur
      BY <1>0, <3>1, SMTT(30)
    <3>. QED  BY <1>0, <3>2, SMTT(30)
  <2>3. \A x \in freed : x \in Owned \cap made /\ x \in Elems /\ x \notin flagged /\ frees[x] = 0 /\ \A d \in Snaps : x \notin index'[d]
    <3>1. \A x \in freed : x \in index[dir[s]] /\ x \in Owned /\ x \notin flagged /\ x \in Elems
      BY DEF Elems
    <3>2. \A x \in freed : \A d \in Snaps : x \notin index'[d]
      BY <2>1, <2>2, <3>1 DEF DirInv, Types, DirTypes
    <3>. QED  BY <1>2, <2>2, <3>1, <3>2, ZenonT(30) DEF GarbInv
  <2>4. \A d \in Snaps : index'[d] \subseteq index[d]
    BY <2>1 DEF Types, DirTypes
  <2> HIDE DEF freed
  <2>5. \A x \in Elems : frees'[x] = IF x \in freed THEN 1 ELSE frees[x]
    <3>1. \A x \in Elems : frees[x] \in {0, 1}
      BY DEF FreeInv
    <3>. QED  BY <2>1, <2>3, <3>1
  <2>6. frees' \in [Elems -> {0, 1}]
    <3>1. frees' = [x \in Elems |-> frees'[x]]
      BY <2>1
    <3>. QED  BY <2>5, <3>1 DEF FreeInv
  <2>7. \A x \in flagged' : frees'[x] = 1 => \E t \in gone' : garb'[t][x] = 1
    BY <2>1, <2>3, <2>5, SMTT(30) DEF FreeInv, Types, GarbTypes
  <2>8. \A x \in Elems \ flagged' : frees'[x] = 1 => x \in Owned \cap made' /\ \A d \in Snaps : x \notin index'[d]
    BY <2>1, <2>3, <2>4, <2>5 DEF FreeInv
  <2>. QED  BY <2>6, <2>7, <2>8 DEF FreeInv
<1>9. ASSUME NEW s \in Snaps, GcDrained(s) PROVE FreeInv'
  <2> DEFINE done == {q \in queued : \A p \in queued : p <= q => p \in gc_drained'}
  <2>1. garb_free(done) /\ gone' = gone \cup done /\ UNCHANGED <<flagged, garb, made, index>>
    BY <1>9 DEF GcDrained, dvars
  <2>2. done \subseteq queued /\ done \in SUBSET Snaps
    BY DEF Types, GcTypes
  <2> HIDE DEF done
  <2>3. \A x \in Elems : frees'[x] = frees[x] + Cardinality(Places(x, done))
    BY <2>1 DEF garb_free
  <2>4. ASSUME NEW x \in Elems, NEW t \in done, garb[t][x] = 1 PROVE frees[x] = 0 /\ x \in flagged
    <3>1. x \in flagged
      BY <2>2, <2>4 DEF GarbInv
    <3>2. \A u \in gone : garb[u][x] # 1
      BY <2>2, <2>4, SMTT(30) DEF GarbInv, SnapInv, Types, GcTypes
    <3>. QED  BY <3>1, <3>2 DEF FreeInv
  <2>5. \A x \in Elems : frees'[x] = IF \E t \in done : garb[t][x] = 1 THEN 1 ELSE frees[x]
    <3>1. \A x \in Elems : frees[x] \in {0, 1}
      BY DEF FreeInv
    <3> SUFFICES ASSUME NEW x \in Elems
                 PROVE  frees'[x] = IF \E t \in done : garb[t][x] = 1 THEN 1 ELSE frees[x]
      OBVIOUS
    <3>2. CASE \E t \in done : garb[t][x] = 1
      <4>1. Cardinality(Places(x, done)) = 1
        BY <2>2, <3>2, OnePlace
      <4>2. frees[x] = 0
        BY <2>4, <3>2
      <4>. QED  BY <2>3, <3>2, <4>1, <4>2
    <3>3. CASE ~ \E t \in done : garb[t][x] = 1
      <4>1. Cardinality(Places(x, done)) = 0
        BY <2>2, <3>3, OnePlace
      <4>. QED  BY <2>3, <3>1, <3>3, <4>1
    <3>. QED  BY <3>2, <3>3, ZenonT(30)
  <2>6. frees' \in [Elems -> {0, 1}]
    <3>1. frees' = [x \in Elems |-> frees'[x]]
      BY <2>1, SMTT(30) DEF garb_free
    <3>. QED  BY <2>5, <3>1 DEF FreeInv
  <2>7. \A x \in flagged' : frees'[x] = 1 => \E t \in gone' : garb'[t][x] = 1
    BY <2>1, <2>5 DEF FreeInv, Types, GarbTypes
  <2>8. \A x \in Elems \ flagged' : frees'[x] = 1 => x \in Owned \cap made' /\ \A d \in Snaps : x \notin index'[d]
    BY <2>1, <2>4, <2>5 DEF FreeInv
  <2>. QED  BY <2>6, <2>7, <2>8 DEF FreeInv
<1>10. ASSUME ~ Writer, \A s \in Snaps : ~ GcUnref(s) /\ ~ GcDrained(s) PROVE FreeInv'
  <2>1. UNCHANGED <<index, made, garb, flagged, frees, gone>>
    BY <1>10, Zenon DEF Next, GcStart, GcThread, Reader, StartClaim, StartThread, StartDone, StartFailed, GcEpoch, GcCount,
       Enter, acquire_zone_snapshot, retain_zone_snapshot, Lookup, Exit, release_zone_snapshot, vars, dvars,
       fvars, gvars
  <2>. QED  BY <2>1 DEF FreeInv
<1>. QED  BY <1>3, <1>4, <1>5, <1>6, <1>7, <1>8, <1>9, <1>10, Zenon DEF Writer

(* What a reader found is in its directory, or on a list behind its own    *)
(* snapshot.                                                               *)

FoundInv ==
  \A r \in Readers : \A x \in relems[r] :
    /\ rsnap[r] # NoSnap
    /\ \A s \in Snaps : garb[s][x] = 1 => rsnap[r] <= s
    /\ x \in Owned /\ x \notin flagged => x \in index[dir[rsnap[r]]]

\* A reader of a snapshot finds what a list behind its snapshot keeps, or what the directory keeps.
LEMMA NextFound ==
  ASSUME Types, SnapInv, HoldInv, CountInv, ListInv, RefInv, GarbInv, DirInv, FoundInv, [Next]_vars
  PROVE  FoundInv'
<1>0. /\ cur \in Int /\ cur >= 1 /\ cur \in Snaps /\ 1 .. cur \subseteq Snaps /\ \A s \in Snaps : s \in Int
      /\ dir[cur] \in 1 .. cur /\ \A t \in Snaps : t <= cur => dir[t] \in 1 .. cur
  BY LatestDir
<1>1. \A r \in Readers : rsnap[r] # NoSnap => rsnap[r] \in Snaps /\ rsnap[r] <= cur /\ dir[rsnap[r]] \in 1 .. cur
  BY <1>0, ZenonT(30) DEF HoldInv, Types, ReaderTypes
<1>2. ASSUME UNCHANGED <<relems, rsnap>>, flagged \subseteq flagged',
             \A r \in Readers : rsnap[r] # NoSnap => dir'[rsnap[r]] = dir[rsnap[r]],
             \A s \in Snaps : garb'[s] = garb[s] \/ s = cur,
             \A r \in Readers, x \in Elems :
               rsnap[r] # NoSnap /\ x \in Owned /\ x \notin flagged' /\ x \in index[dir[rsnap[r]]] => x \in index'[dir[rsnap[r]]]
      PROVE  FoundInv'
  <2> SUFFICES ASSUME NEW r \in Readers, NEW x \in relems[r]
               PROVE  /\ rsnap[r] # NoSnap
                      /\ \A s \in Snaps : garb'[s][x] = 1 => rsnap[r] <= s
                      /\ x \in Owned /\ x \notin flagged' => x \in index'[dir'[rsnap[r]]]
    BY <1>2 DEF FoundInv
  <2>1. x \in Elems
    BY DEF Types, ReaderTypes
  <2>2. rsnap[r] # NoSnap /\ rsnap[r] <= cur
    BY <1>1 DEF FoundInv
  <2>3. \A s \in Snaps : garb'[s][x] = 1 => rsnap[r] <= s
    BY <1>2, <2>2 DEF FoundInv
  <2>4. x \in Owned /\ x \notin flagged' => x \in index'[dir'[rsnap[r]]]
    BY <1>2, <2>1, <2>2, SMTT(30) DEF FoundInv
  <2>. QED  BY <2>2, <2>3, <2>4
<1>3. ASSUME NEW x \in Elems, dbreg_commit(x) \/ dbreg_delete(x) PROVE FoundInv'
  <2>1. UNCHANGED <<relems, rsnap, dir, garb, index>> /\ flagged \subseteq flagged'
    BY <1>3 DEF dbreg_commit, dbreg_delete, Discard, rvars, dvars, fvars
  <2>. QED  BY <1>2, <2>1
<1>4. CASE ApplyDelta \/ ApplyCatalog
  <2>1. PICK out, new, back :
           /\ index' = [index EXCEPT ![dir[cur]] = (@ \ out) \cup new \cup back]
           /\ made' = made \cup new /\ back \subseteq registry /\ new \subseteq Owned \ made
           /\ \/ ApplyDelta /\ out = removes /\ new = {} /\ Discard(removes \cap index[dir[cur]])
              \/ ApplyCatalog /\ out \subseteq index[dir[cur]] /\ Discard(out \cap Owned)
    BY <1>4, ChangedIndex, ZenonT(30)
  <2>2. UNCHANGED <<relems, rsnap, dir, garb>>
    BY <1>4 DEF ApplyDelta, ApplyCatalog, rvars
  <2>3. flagged \subseteq flagged' /\ out \cap Owned \subseteq flagged'
    <3>1. removes \cap Owned = {}
      BY KindsAssumption DEF Types, QueueTypes
    <3>. QED  BY <2>1, <3>1 DEF Discard
  <2>4. \A x \in Elems, d \in Snaps : x \in Owned /\ x \notin flagged' /\ x \in index[d] => x \in index'[d]
    BY <2>1, <2>3 DEF Types, DirTypes
  <2>. QED  BY <1>0, <1>1, <1>2, <2>2, <2>3, <2>4
<1>5. CASE BuildDirectory
  <2>1. /\ \A d \in Snaps : d # cur + 1 => index'[d] = index[d]
        /\ UNCHANGED <<relems, rsnap, dir, garb, flagged>>
    BY <1>5 DEF BuildDirectory, rvars, fvars, Types, DirTypes
  <2>2. \A r \in Readers : rsnap[r] # NoSnap => index'[dir[rsnap[r]]] = index[dir[rsnap[r]]]
    <3>1. cur + 1 \notin 1 .. cur
      BY <1>0
    <3>. QED  BY <1>0, <1>1, <2>1, <3>1
  <2>. QED  BY <1>2, <2>1, <2>2
<1>6. CASE PublishAndRetire
  <2>1. /\ UNCHANGED <<relems, rsnap, index>> /\ flagged \subseteq flagged'
        /\ \A s \in Snaps : garb'[s] = garb[s] \/ s = cur
        /\ dir' = [dir EXCEPT ![cur + 1] = ndir]
    BY <1>6 DEF PublishAndRetire, rvars, Types, GarbTypes
  <2>2. \A r \in Readers : rsnap[r] # NoSnap => dir'[rsnap[r]] = dir[rsnap[r]]
    BY <1>0, <1>1, <2>1, SMTT(30) DEF Types, DirTypes
  <2>. QED  BY <1>2, <2>1, <2>2
<1>7. ASSUME NEW s \in Snaps, GcUnref(s) PROVE FoundInv'
  <2>1. /\ index' = IF refs[dir[s]] = 1 THEN [index EXCEPT ![dir[s]] = {}] ELSE index
        /\ gcpc[s] = "unref" /\ UNCHANGED <<relems, rsnap, dir, garb, flagged>>
    BY <1>7 DEF GcUnref, rvars
  <2>2. ASSUME NEW r \in Readers, rsnap[r] # NoSnap PROVE index'[dir[rsnap[r]]] = index[dir[rsnap[r]]]
    <3>1. dir[rsnap[r]] \in Snaps /\ (dir[s] = dir[rsnap[r]] => refs[dir[s]] # 1)
      BY <2>1, <2>2, HeldRef
    <3>. QED  BY <2>1, <3>1 DEF Types, DirTypes
  <2>. QED  BY <1>2, <2>1, <2>2, SMTT(30)
<1>8. ASSUME NEW r \in Readers, acquire_zone_snapshot(r) PROVE FoundInv'
  <2>1. /\ rsnap[r] = NoSnap /\ \A q \in Readers : q # r => rsnap'[q] = rsnap[q]
        /\ UNCHANGED <<relems, dir, index, garb, flagged>>
    BY <1>8, SMTT(30) DEF acquire_zone_snapshot, dvars, fvars, Types, ReaderTypes
  <2>2. relems[r] = {}
    BY <2>1 DEF FoundInv
  <2>. QED  BY <2>1, <2>2 DEF FoundInv
<1>9. ASSUME NEW r \in Readers, NEW x \in Elems, Lookup(r, x) PROVE FoundInv'
  <2>1. /\ rsnap[r] # NoSnap /\ x \in index[dir[rsnap[r]]]
        /\ \A q \in Readers : relems'[q] = IF q = r THEN relems[q] \cup {x} ELSE relems[q]
        /\ UNCHANGED <<rsnap, dir, index, garb, flagged>>
    BY <1>9, ZenonT(30) DEF Lookup, dvars, fvars, Types, ReaderTypes
  <2>2. \A s \in Snaps : garb[s][x] = 1 => rsnap[r] <= s
    BY <1>1, <2>1, ZenonT(30) DEF DirInv
  <2>3. ASSUME NEW q \in Readers, NEW y \in relems'[q]
        PROVE  /\ rsnap'[q] # NoSnap
               /\ \A s \in Snaps : garb'[s][y] = 1 => rsnap'[q] <= s
               /\ y \in Owned /\ y \notin flagged' => y \in index'[dir'[rsnap'[q]]]
    <3>1. CASE y \in relems[q]
      BY <2>1, <3>1, ZenonT(30) DEF FoundInv
    <3>2. CASE q = r /\ y = x
      BY <2>1, <2>2, <3>2, ZenonT(30)
    <3>. QED  BY <2>1, <2>3, <3>1, <3>2, ZenonT(30)
  <2>. QED  BY <2>3, SMTT(30) DEF FoundInv
<1>10. ASSUME NEW r \in Readers, Exit(r) \/ release_zone_snapshot(r) PROVE FoundInv'
  <2>1. UNCHANGED <<dir, index, garb, flagged>>
    BY <1>10 DEF Exit, release_zone_snapshot, dvars, fvars
  <2>2. \A q \in Readers : relems'[q] = {} \/ (relems'[q] = relems[q] /\ rsnap'[q] = rsnap[q])
    BY <1>10, SMTT(30) DEF Exit, release_zone_snapshot, Types, ReaderTypes
  <2>. QED  BY <2>1, <2>2 DEF FoundInv
<1>11. ASSUME \/ GcStart \/ UNCHANGED vars
              \/ \E s \in Snaps : GcEpoch(s) \/ GcCount(s) \/ GcDrained(s)
              \/ \E r \in Readers : Enter(r) \/ retain_zone_snapshot(r)
       PROVE  FoundInv'
  <2>1. UNCHANGED <<relems, rsnap, dir, index, garb, flagged>>
    BY <1>11, Zenon DEF GcStart, StartClaim, StartThread, StartDone, StartFailed, GcEpoch, GcCount, GcDrained,
       Enter, retain_zone_snapshot, vars, dvars, fvars, rvars
  <2>. QED  BY <2>1 DEF FoundInv
<1>. QED
  BY <1>3, <1>4, <1>5, <1>6, <1>7, <1>8, <1>9, <1>10, <1>11, Zenon DEF Next, Writer, GcThread, Reader

(* g_gc_unstarted counts the queued snapshots that have no thread and the  *)
(* one a thread is being started for.                                      *)

StartInv ==
  /\ gc_started \subseteq 1 .. cur - 1
  /\ \A s \in Snaps : gcpc[s] # "none" => s \in gc_started
  /\ starting # NoSnap => starting \in gc_started
  /\ UnstartedCounted

\* gc_retire_locked() counts up, gc_start_pending() down when the thread runs: a thread that could not be
\* started is tried again.
LEMMA NextStart == Types /\ SnapInv /\ StartInv /\ [Next]_vars /\ SnapInv' => StartInv'
<1> SUFFICES ASSUME Types, SnapInv, StartInv, [Next]_vars, SnapInv'
             PROVE  StartInv'
  OBVIOUS
<1> DEFINE U == queued \ gc_started
<1>0. /\ cur \in Int /\ cur >= 1 /\ cur \in Snaps /\ queued \subseteq 1 .. cur - 1
      /\ IsFiniteSet(U) /\ Cardinality(U) \in Nat /\ g_gc_unstarted \in Int
  <2>1. cur \in Int /\ cur >= 1 /\ cur \in Snaps
    BY MaxSnapAssumption DEF Types, DirTypes, Snaps
  <2>2. queued \subseteq 1 .. cur - 1 /\ U \subseteq 1 .. cur - 1
    BY DEF SnapInv
  <2>3. IsFiniteSet(1 .. cur - 1)
    BY <2>1, FS_Interval
  <2>. QED  BY <2>1, <2>2, <2>3, FS_Subset, FS_CardinalityType, ZenonT(30) DEF Types, GcTypes
<1>1. /\ starting = NoSnap => g_gc_unstarted = Cardinality(U)
      /\ starting # NoSnap => g_gc_unstarted = Cardinality(U) + 1
  BY <1>0 DEF StartInv, UnstartedCounted
<1>2. CASE UNCHANGED gvars /\ UNCHANGED cur
  BY <1>2 DEF StartInv, UnstartedCounted, gvars
<1>3. CASE PublishAndRetire
  <2>1. /\ cur' = cur + 1 /\ queued' = queued \cup {cur} /\ g_gc_unstarted' = g_gc_unstarted + 1
        /\ UNCHANGED <<gc_started, starting, gcpc>>
    BY <1>3 DEF PublishAndRetire
  <2>2. cur \notin queued /\ cur \notin gc_started /\ gc_started' \subseteq 1 .. cur' - 1
    BY <1>0, <2>1 DEF StartInv
  <2>3. queued' \ gc_started' = U \cup {cur} /\ cur \notin U
    BY <2>1, <2>2
  <2>4. Cardinality(queued' \ gc_started') = Cardinality(U) + 1
    BY <1>0, <2>3, FS_AddElement, SMTT(30)
  <2>5. UnstartedCounted'
    BY <1>0, <1>1, <2>1, <2>4 DEF UnstartedCounted
  <2>. QED  BY <2>1, <2>2, <2>5 DEF StartInv
<1>4. CASE StartClaim
  <2>1. /\ starting = NoSnap /\ U # {} /\ starting' = Min(U) /\ gc_started' = gc_started \cup {Min(U)}
        /\ UNCHANGED <<cur, queued, g_gc_unstarted, gcpc>>
    BY <1>4 DEF StartClaim, dvars
  <2>2. Min(U) \in U
    <3>1. U \subseteq Snaps
      BY DEF Types, GcTypes
    <3> HIDE DEF U
    <3>. QED  BY <2>1, <3>1, OldestSnap
  <2>3. queued' \ gc_started' = U \ {Min(U)}
    BY <2>1
  <2>4. Cardinality(queued' \ gc_started') = Cardinality(U) - 1
    BY <1>0, <2>2, <2>3, FS_RemoveElement, ZenonT(30)
  <2>5. starting' # NoSnap /\ gc_started' \subseteq 1 .. cur' - 1
    <3>1. Min(U) \in 1 .. cur - 1
      BY <1>0, <2>2, ZenonT(30)
    <3>2. 0 \notin 1 .. cur - 1
      BY <1>0
    <3>. QED  BY <2>1, <3>1, <3>2, Zenon DEF StartInv, NoSnap
  <2>6. UnstartedCounted'
    BY <1>0, <1>1, <2>1, <2>4, <2>5 DEF UnstartedCounted
  <2>. QED  BY <2>1, <2>5, <2>6 DEF StartInv
<1>5. CASE StartThread
  <2>1. /\ starting # NoSnap /\ gcpc' = [gcpc EXCEPT ![starting] = "epoch"]
        /\ UNCHANGED <<cur, queued, gc_started, g_gc_unstarted, starting>>
    BY <1>5 DEF StartThread, dvars
  <2>2. \A s \in Snaps : gcpc'[s] # "none" => s \in gc_started
    BY <2>1 DEF StartInv, Types, GcTypes
  <2>. QED  BY <2>1, <2>2 DEF StartInv, UnstartedCounted
<1>6. CASE StartDone
  <2>1. /\ starting # NoSnap /\ starting' = NoSnap /\ g_gc_unstarted' = g_gc_unstarted - 1
        /\ UNCHANGED <<cur, queued, gc_started, gcpc>>
    BY <1>6 DEF StartDone, dvars
  <2>2. UnstartedCounted'
    BY <1>0, <1>1, <2>1 DEF UnstartedCounted
  <2>. QED  BY <2>1, <2>2 DEF StartInv
<1>7. CASE StartFailed
  <2>1. /\ starting # NoSnap /\ gcpc[starting] = "none" /\ starting' = NoSnap /\ gc_started' = gc_started \ {starting}
        /\ UNCHANGED <<cur, queued, g_gc_unstarted, gcpc>>
    BY <1>7 DEF StartFailed, dvars
  <2>2. starting \in queued /\ starting \in gc_started
    <3>1. starting \in 1 .. cur - 1 /\ starting \in Snaps /\ starting \in gc_started
      BY <2>1 DEF StartInv, Types, GcTypes
    <3>2. starting \notin gone
      BY <2>1, <3>1 DEF SnapInv
    <3>. QED  BY <3>1, <3>2 DEF SnapInv
  <2>3. queued' \ gc_started' = U \cup {starting} /\ starting \notin U
    BY <2>1, <2>2
  <2>4. Cardinality(queued' \ gc_started') = Cardinality(U) + 1
    BY <1>0, <2>3, FS_AddElement
  <2>5. UnstartedCounted'
    BY <1>0, <1>1, <2>1, <2>4 DEF UnstartedCounted
  <2>6. \A s \in Snaps : gcpc'[s] # "none" => s \in gc_started'
    BY <2>1 DEF StartInv
  <2>. QED  BY <2>1, <2>5, <2>6, ZenonT(30) DEF StartInv
<1>8. ASSUME NEW s \in Snaps, GcEpoch(s) \/ GcCount(s) \/ GcUnref(s) PROVE StartInv'
  <2>1. /\ gcpc[s] # "none" /\ \A t \in Snaps : t # s => gcpc'[t] = gcpc[t]
        /\ UNCHANGED <<cur, queued, gc_started, g_gc_unstarted, starting>>
    BY <1>8, ZenonT(30) DEF GcEpoch, GcCount, GcUnref, dvars, Types, GcTypes
  <2>. QED  BY <2>1, SMTT(30) DEF StartInv, UnstartedCounted
<1>9. ASSUME NEW s \in Snaps, GcDrained(s) PROVE StartInv'
  <2> DEFINE done == {q \in queued : \A p \in queued : p <= q => p \in gc_drained'}
  <2>1. /\ gcpc[s] = "drain" /\ \A t \in Snaps : t # s => gcpc'[t] = gcpc[t]
        /\ queued' = queued \ done /\ gone' = gone \cup done /\ done \subseteq queued
        /\ UNCHANGED <<cur, gc_started, g_gc_unstarted, starting>>
    BY <1>9 DEF GcDrained, dvars, Types, GcTypes
  <2> HIDE DEF done
  <2>2. \A t \in Snaps : gcpc'[t] # "none" => t \in gc_started
    BY <2>1 DEF StartInv
  <2>3. done \subseteq gc_started
    <3>1. done \subseteq gc_drained' /\ done \subseteq Snaps
      BY <2>1 DEF SnapInv, Types, GcTypes
    <3>2. \A t \in done : gcpc'[t] = "end"
      BY <3>1 DEF SnapInv
    <3>. QED  BY <2>2, <3>1, <3>2
  <2>4. queued' \ gc_started' = U
    BY <2>1, <2>3
  <2>5. UnstartedCounted'
    BY <2>1, <2>4 DEF UnstartedCounted, StartInv
  <2>. QED  BY <2>1, <2>2, <2>5 DEF StartInv
<1>10. ASSUME ~ PublishAndRetire, ~ GcStart, \A s \in Snaps : ~ GcThread(s)
       PROVE  UNCHANGED gvars /\ UNCHANGED cur
  BY <1>10, Zenon DEF Next, Writer, Reader, dbreg_commit, dbreg_delete, ApplyDelta, ApplyCatalog, BuildDirectory,
     Enter, acquire_zone_snapshot, retain_zone_snapshot, Lookup, Exit, release_zone_snapshot, vars, dvars
<1>. QED
  BY <1>2, <1>3, <1>4, <1>5, <1>6, <1>7, <1>8, <1>9, <1>10, Zenon DEF GcStart, GcThread

-----------------------------------------------------------------------------
(* The invariant, and what follows from it.                                *)

Inv ==
  /\ Types /\ SnapInv /\ ListInv /\ HoldInv /\ CountInv
  /\ RefInv /\ GarbInv /\ DirInv /\ FreeInv /\ FoundInv /\ StartInv

\* The server starts with one snapshot, an empty directory and no garbage.
LEMMA InitInv == Init => Inv
<1> SUFFICES ASSUME Init
             PROVE  Inv
  OBVIOUS
<1>1. Types
  BY InitTypes
<1>2. cur = 1 /\ 1 .. 0 = {} /\ 1 \in Snaps /\ \A s \in Snaps : s >= 1 /\ s \in Int
  BY MaxSnapAssumption DEF Init, Snaps
<1>3. SnapInv
  BY <1>2 DEF Init, SnapInv
<1>4. ListInv
  <2>1. 1 \in 1 .. 1
    OBVIOUS
  <2>2. \A s \in Snaps : IF s <= 1 THEN dir[s] = 1 ELSE dir[s] = NoSnap
    BY <1>2 DEF Init
  <2>. QED  BY <1>2, <2>1, <2>2 DEF Init, ListInv
<1>5. HoldInv
  BY DEF Init, HoldInv
<1>6. CountInv
  <2>1. \A s : Reading(s) = {}
    BY DEF Init, Reading
  <2>. QED  BY <2>1, FS_EmptySet DEF Init, CountInv
<1>7. RefInv
  <2>1. 1 .. cur = {1} /\ dir[1] = 1 /\ gcpc[1] = "none" /\ ndir = NoSnap /\ NoSnap \notin Snaps
    BY <1>2 DEF Init, NoSnap
  <2>2. \A d \in Snaps : Listed(d) = IF d = 1 THEN {1} ELSE {}
    BY <2>1 DEF Listed
  <2>3. Cardinality({1}) = 1 /\ Cardinality({}) = 0
    BY FS_Singleton, FS_EmptySet, ZenonT(30)
  <2>4. ASSUME NEW d \in Snaps PROVE refs[d] = Cardinality(Listed(d)) + (IF ndir = d THEN 1 ELSE 0)
    <3>1. refs[d] = IF d = 1 THEN 1 ELSE 0
      BY DEF Init
    <3>2. ndir # d
      BY <2>1
    <3>. QED  BY <2>2, <2>3, <3>1, <3>2
  <2>. QED  BY <2>4 DEF RefInv
<1>8. GarbInv
  BY DEF Init, GarbInv, NoGarbage
<1>9. DirInv
  BY DEF Init, DirInv, NoGarbage
<1>10. FreeInv
  BY DEF Init, FreeInv, NoGarbage
<1>11. FoundInv
  BY DEF Init, FoundInv
<1>12. StartInv
  BY FS_EmptySet DEF Init, StartInv, UnstartedCounted
<1>. QED  BY <1>1, <1>3, <1>4, <1>5, <1>6, <1>7, <1>8, <1>9, <1>10, <1>11, <1>12 DEF Inv

\* Every step keeps the invariant.
LEMMA NextInv == Inv /\ [Next]_vars => Inv'
<1> SUFFICES ASSUME Inv, [Next]_vars
             PROVE  Inv'
  OBVIOUS
<1>1. Types' /\ SnapInv' /\ ListInv' /\ HoldInv' /\ CountInv' /\ RefInv' /\ GarbInv'
  BY NextTypes, NextSnap, NextList, NextHold, NextCount, NextRef, NextGarb DEF Inv
<1>2. DirInv'
  BY <1>1, NextDir DEF Inv
<1>3. FreeInv' /\ FoundInv'
  BY NextFree, NextFound DEF Inv
<1>4. StartInv'
  BY <1>1, NextStart DEF Inv
<1>. QED  BY <1>1, <1>2, <1>3, <1>4 DEF Inv

\* The invariant holds in every reachable state.
LEMMA InvHolds == Spec => []Inv
BY InitInv, NextInv, PTL DEF Spec

\* Every variable has its type for any number of readers, elements and snapshots: the reference counts of
\* zdir_ref()/zdir_unref(), reader_count and g_gc_unstarted never go below zero.
THEOREM TypeCorrect == Spec => []TypeOK
<1>1. Inv => TypeOK
  <2> SUFFICES ASSUME Inv
               PROVE  TypeOK
    OBVIOUS
  <2>1. refs \in [Snaps -> Nat]
    <3>1. refs = [d \in Snaps |-> refs[d]] /\ \A d \in Snaps : refs[d] \in Int
      BY DEF Inv, Types, DirTypes
    <3>2. \A d \in Snaps : refs[d] >= 0
      BY ListedRef DEF Inv
    <3>3. \A d \in Snaps : refs[d] \in Nat
      BY <3>1, <3>2
    <3>. QED  BY <3>1, <3>3, Zenon
  <2>2. g_gc_unstarted \in Nat
    <3>1. IsFiniteSet(queued \ gc_started)
      <4>1. cur \in Int /\ queued \ gc_started \subseteq 1 .. cur - 1
        BY MaxSnapAssumption DEF Inv, SnapInv, Types, DirTypes, Snaps
      <4>2. IsFiniteSet(1 .. cur - 1)
        BY <4>1, FS_Interval
      <4>. QED  BY <4>1, <4>2, FS_Subset
    <3>2. Cardinality(queued \ gc_started) \in Nat
      BY <3>1, FS_CardinalityType
    <3>. QED  BY <3>2 DEF Inv, StartInv, UnstartedCounted
  <2>3. frees \in Counts
    BY DEF Inv, FreeInv, Counts
  <2>. QED  BY <2>1, <2>2, <2>3 DEF Inv, TypeOK, Types, DirTypes, QueueTypes, GarbTypes, GcTypes, ReaderTypes, OlderTypes
<1>. QED  BY <1>1, InvHolds, PTL

\* What a reader can touch is there, for any number of readers, elements and snapshots: gc_snapshot_thread()
\* waits for its section and its reference, zdir_unref() for every snapshot that lists the directory, and
\* gc_drained() frees garbage in the order of retirement.
THEOREM UseSafe == Spec => []NoUseAfterFree
<1>1. Inv => NoUseAfterFree
  <2> SUFFICES ASSUME Inv, NEW r \in Readers, rsnap[r] # NoSnap
               PROVE  /\ rsnap[r] \notin gone
                      /\ refs[dir[rsnap[r]]] > 0
                      /\ \A x \in relems[r] : frees[x] = 0
    BY DEF NoUseAfterFree
  <2>1. rsnap[r] \in Snaps /\ gcpc[rsnap[r]] \notin {"unref", "drain", "end"}
    BY HeldEarly DEF Inv
  <2>2. rsnap[r] \notin gone
    BY <2>1 DEF Inv, SnapInv
  <2>3. refs[dir[rsnap[r]]] > 0
    BY HeldRef DEF Inv
  <2>4. ASSUME NEW x \in relems[r] PROVE frees[x] = 0
    <3>1. x \in Elems /\ (frees[x] = 0 \/ frees[x] = 1)
      BY DEF Inv, Types, ReaderTypes, FreeInv
    <3>2. ASSUME x \in flagged, frees[x] = 1 PROVE FALSE
      <4>1. PICK s \in gone : garb[s][x] = 1
        BY <3>2 DEF Inv, FreeInv
      <4>2. s \in Snaps
        BY DEF Inv, Types, GcTypes
      <4>3. rsnap[r] <= s
        BY <4>1, <4>2 DEF Inv, FoundInv
      <4>. QED  BY <2>1, <2>2, <4>3 DEF Inv, SnapInv
    <3>3. ASSUME x \notin flagged, frees[x] = 1 PROVE FALSE
      <4>1. x \in Owned /\ \A d \in Snaps : x \notin index[d]
        BY <3>1, <3>3 DEF Inv, FreeInv
      <4>2. x \in index[dir[rsnap[r]]]
        BY <3>3, <4>1 DEF Inv, FoundInv
      <4>3. dir[rsnap[r]] \in Snaps
        BY HeldRef DEF Inv
      <4>. QED  BY <4>1, <4>2, <4>3
    <3>. QED  BY <3>1, <3>2, <3>3
  <2>. QED  BY <2>2, <2>3, <2>4
<1>. QED  BY <1>1, InvHolds, PTL

\* No element is freed twice and what a directory lists exists: garb_elem() puts an element on one list, and
\* zdir_unref() frees what it owns and no list has (ZDIR_F_GARB).
THEOREM ElementsSafe == Spec => []ElementsIntact
<1>1. Inv => ElementsIntact
  <2> SUFFICES ASSUME Inv
               PROVE  ElementsIntact
    OBVIOUS
  <2>1. FreedOnce
    <3>1. \A x \in Elems : frees[x] = 0 \/ frees[x] = 1
      BY DEF Inv, FreeInv
    <3>. QED  BY <3>1 DEF FreedOnce
  <2>2. ASSUME NEW d \in Snaps, refs[d] > 0, NEW x \in index[d], frees[x] # 0 PROVE FALSE
    <3>1. x \in Elems /\ frees[x] = 1
      BY <2>2 DEF Inv, Types, DirTypes, FreeInv
    <3>2. x \in flagged
      BY <3>1 DEF Inv, FreeInv
    <3>3. PICK s \in gone : garb[s][x] = 1
      BY <3>1, <3>2 DEF Inv, FreeInv
    <3>4. s \in Snaps /\ gone \subseteq gc_drained
      BY SMTT(30) DEF Inv, Types, GcTypes, SnapInv
    <3>5. CASE ndir = d
      <4>1. wpc # "idle"
        BY <3>5, MaxSnapAssumption DEF Inv, ListInv, Snaps, NoSnap
      <4>2. Latest = d
        BY <3>5, <4>1 DEF Latest
      <4>. QED  BY <3>2, <4>2, ZenonT(30) DEF Inv, DirInv
    <3>6. CASE Listed(d) # {}
      <4>1. PICK t \in 1 .. cur : dir[t] = d /\ gcpc[t] \notin {"drain", "end"}
        BY <3>6 DEF Listed
      <4>2. t \in Snaps /\ t <= cur
        BY MaxSnapAssumption DEF Inv, Types, DirTypes, Snaps
      <4>3. t <= s
        BY <3>1, <3>3, <3>4, <4>1, <4>2 DEF Inv, DirInv
      <4>4. t \in gone
        BY <3>3, <4>2, <4>3 DEF Inv, SnapInv
      <4>. QED  BY <3>4, <4>1, <4>2, <4>4 DEF Inv, SnapInv
    <3>. QED  BY <2>2, <3>5, <3>6, ListedRef DEF Inv
  <2>. QED  BY <2>1, <2>2 DEF ElementsIntact, DirectoriesIntact
<1>. QED  BY <1>1, InvHolds, PTL

\* g_gc_unstarted never misses a snapshot without a thread, so that gc_start_pending() goes on trying.
THEOREM StartsCounted == Spec => []UnstartedCounted
<1>1. Inv => UnstartedCounted
  BY DEF Inv, StartInv
<1>. QED  BY <1>1, InvHolds, PTL
=============================================================================
