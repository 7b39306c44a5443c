------------------------- MODULE ZoneVersionsProofs -------------------------
(***************************************************************************)
(* Proofs about ZoneVersions for any number of workers, senders, versions  *)
(* and any sizes of versions: no version is used after it was freed        *)
(* (UseSafe), every version is in one place and the byte totals are exact  *)
(* (VersionsAccounted), a change that only the memory has is not evicted   *)
(* (UpdateKept) and nobody publishes into an evicted entry (EvictedFinal). *)
(***************************************************************************)
EXTENDS ZoneVersions, FiniteSetTheorems, NaturalsInduction, TLAPS

-----------------------------------------------------------------------------
(* Which steps change what *)

\* Only publishing, the sweep, the cache manager and the end of the entry change the
\* versions that the entry points to.
LEMMA VersionMoves ==
  [Next]_vars =>
    \/ UNCHANGED zvars
    \/ \E keepsecs \in KeepPrev, same \in BOOLEAN : zone_publish_ex(keepsecs, same)
    \/ Expire \/ SweepDrop \/ Evict \/ free_zone_db_entry
BY Zenon DEF Next, vars, zvars, Enter, Find, Load, Exit, StartSender, StartSenderFails, SenderEnter,
   SenderLoad, SenderDone, SenderExit, StartTransfer, TransferLoad, TransferEnd, CommandFind,
   CommandEnd, Lock, wait_for_active_axfr, Abort, RetirePush, RetireWait, RetireLeak, RetireItem,
   RetireFree, Unlock, TakeStack, entry_ref_if_live, SweepSkip, SweepUnref,
   dbreg_lookup_entry_busy, InstallEnd, Unlink, EvictCheck, EvictFails, zdir_entry_unref

\* Only the retire functions and the end of the entry free versions or move them to the stack.
LEMMA RetireMoves ==
  [Next]_vars =>
    \/ UNCHANGED rvars
    \/ \E v \in Versions : RetirePush(v) \/ RetireLeak(v) \/ RetireItem(v)
    \/ RetireFree \/ TakeStack \/ free_zone_db_entry
BY Zenon DEF Next, vars, rvars, Enter, Find, Load, Exit, StartSender, StartSenderFails, SenderEnter,
   SenderLoad, SenderDone, SenderExit, StartTransfer, TransferLoad, TransferEnd, CommandFind,
   CommandEnd, Lock, wait_for_active_axfr, Abort, zone_publish_ex, RetireWait,
   Unlock, Expire, entry_ref_if_live, SweepDrop, SweepSkip, SweepUnref,
   dbreg_lookup_entry_busy, InstallEnd, Unlink, EvictCheck, EvictFails, Evict, zdir_entry_unref

\* Who changes the byte totals.
LEMMA TotalMoves ==
  [Next]_vars =>
    \/ UNCHANGED bvars
    \/ \E keepsecs \in KeepPrev, same \in BOOLEAN : zone_publish_ex(keepsecs, same)
    \/ \E v \in Versions : RetirePush(v) \/ RetireLeak(v) \/ RetireItem(v)
    \/ SweepDrop \/ Evict \/ free_zone_db_entry
BY Zenon DEF Next, vars, bvars, Enter, Find, Load, Exit, StartSender, StartSenderFails, SenderEnter,
   SenderLoad, SenderDone, SenderExit, StartTransfer, TransferLoad, TransferEnd, CommandFind,
   CommandEnd, Lock, wait_for_active_axfr, Abort, RetireWait,
   RetireFree, Unlock, TakeStack, Expire, entry_ref_if_live, SweepSkip, SweepUnref,
   dbreg_lookup_entry_busy, InstallEnd, Unlink, EvictCheck, EvictFails, zdir_entry_unref

\* Who changes the flags and the reference count of the entry.
LEMMA EntryMoves ==
  [Next]_vars =>
    \/ UNCHANGED evars
    \/ \E v \in Versions : RetirePush(v) \/ RetireItem(v)
    \/ Unlock \/ entry_ref_if_live \/ SweepUnref \/ dbreg_lookup_entry_busy \/ InstallEnd \/ Unlink
    \/ EvictCheck \/ EvictFails \/ Evict \/ zdir_entry_unref \/ free_zone_db_entry
BY Zenon DEF Next, vars, evars, Enter, Find, Load, Exit, StartSender, StartSenderFails, SenderEnter,
   SenderLoad, SenderDone, SenderExit, StartTransfer, TransferLoad, TransferEnd, CommandFind,
   CommandEnd, Lock, wait_for_active_axfr, Abort, zone_publish_ex, RetireWait, RetireLeak,
   RetireFree, TakeStack, Expire, SweepDrop, SweepSkip

\* The holder of writer_lock is changed by writers and by the sweep.
LEMMA WriterMoves ==
  [Next]_vars =>
    \/ UNCHANGED wvars
    \/ \E w \in {"update", "reload", "install", "rollback", "xfr"}, r \in Readers \cup {Control} :
         Lock(w, r)
    \/ wait_for_active_axfr \/ Abort
    \/ \E keepsecs \in KeepPrev, same \in BOOLEAN : zone_publish_ex(keepsecs, same)
    \/ \E v \in Versions : RetirePush(v) \/ RetireWait(v) \/ RetireLeak(v)
    \/ RetireFree \/ Unlock \/ SweepDrop
BY Zenon DEF Next, vars, wvars, Enter, Find, Load, Exit, StartSender, StartSenderFails, SenderEnter,
   SenderLoad, SenderDone, SenderExit, StartTransfer, TransferLoad, TransferEnd, CommandFind,
   CommandEnd, RetireItem, TakeStack, Expire, entry_ref_if_live, SweepSkip,
   SweepUnref, dbreg_lookup_entry_busy, InstallEnd, Unlink, EvictCheck, EvictFails, Evict,
   zdir_entry_unref, free_zone_db_entry

\* The sweep of the previous versions.
LEMMA SweepMoves ==
  [Next]_vars => UNCHANGED svars \/ Unlock \/ entry_ref_if_live \/ SweepDrop \/ SweepSkip \/ SweepUnref
BY Zenon DEF Next, vars, svars, Enter, Find, Load, Exit, StartSender, StartSenderFails, SenderEnter,
   SenderLoad, SenderDone, SenderExit, StartTransfer, TransferLoad, TransferEnd, CommandFind,
   CommandEnd, Lock, wait_for_active_axfr, Abort, zone_publish_ex, RetirePush, RetireWait,
   RetireLeak, RetireItem, RetireFree, TakeStack, Expire,
   dbreg_lookup_entry_busy, InstallEnd, Unlink, EvictCheck, EvictFails, Evict,
   zdir_entry_unref, free_zone_db_entry

\* Only readers and senders change what they have.
LEMMA ThreadMoves ==
  [Next]_vars =>
    \/ UNCHANGED tvars
    \/ \E r \in Readers : Enter(r) \/ Find(r) \/ Load(r) \/ Exit(r)
    \/ \E r \in Readers, s \in Senders : StartSender(r, s)
    \/ \E s \in Senders :
         StartSenderFails(s) \/ SenderEnter(s) \/ SenderLoad(s) \/ SenderDone(s) \/ SenderExit(s)
BY Zenon DEF Next, vars, tvars, StartTransfer, TransferLoad, TransferEnd, CommandFind,
   CommandEnd, Lock, wait_for_active_axfr, Abort, zone_publish_ex, RetirePush, RetireWait,
   RetireLeak, RetireItem, RetireFree, Unlock, TakeStack, Expire, entry_ref_if_live, SweepDrop,
   SweepSkip, SweepUnref, dbreg_lookup_entry_busy, InstallEnd, Unlink, EvictCheck, EvictFails,
   Evict, zdir_entry_unref, free_zone_db_entry

\* The incoming transfer and the commands.
LEMMA XferMoves ==
  [Next]_vars =>
    UNCHANGED xvars \/ StartTransfer \/ TransferLoad \/ TransferEnd \/ CommandFind \/ CommandEnd
BY Zenon DEF Next, vars, xvars, Enter, Find, Load, Exit, StartSender, StartSenderFails, SenderEnter,
   SenderLoad, SenderDone, SenderExit, Lock, wait_for_active_axfr, Abort, zone_publish_ex,
   RetirePush, RetireWait, RetireLeak, RetireItem, RetireFree, Unlock, TakeStack, Expire,
   entry_ref_if_live, SweepDrop, SweepSkip, SweepUnref, dbreg_lookup_entry_busy, InstallEnd,
   Unlink, EvictCheck, EvictFails, Evict, zdir_entry_unref, free_zone_db_entry

\* A section that is left does not count for any version; publishing starts the count of
\* the version that is replaced.
LEMMA OlderMoves ==
  [Next]_vars =>
    \/ UNCHANGED older
    \/ \E r \in Readers : Exit(r)
    \/ \E s \in Senders : SenderExit(s)
    \/ \E keepsecs \in KeepPrev, same \in BOOLEAN : zone_publish_ex(keepsecs, same)
BY Zenon DEF Next, vars, Enter, Find, Load, StartSender, StartSenderFails, SenderEnter,
   SenderLoad, SenderDone, StartTransfer, TransferLoad, TransferEnd, CommandFind,
   CommandEnd, Lock, wait_for_active_axfr, Abort, RetirePush, RetireWait, RetireLeak, RetireItem,
   RetireFree, Unlock, TakeStack, Expire, entry_ref_if_live, SweepDrop, SweepSkip, SweepUnref,
   dbreg_lookup_entry_busy, InstallEnd, Unlink, EvictCheck, EvictFails, Evict, zdir_entry_unref,
   free_zone_db_entry

-----------------------------------------------------------------------------
(* The bytes of a set of versions                                          *)

\* A set of numbers that is not empty has a least one.
LEMMA Least ==
  ASSUME NEW D \in SUBSET Nat, D # {}
  PROVE  \E d \in D : \A e \in D : d <= e
<1>1. PICK d \in D : \A e \in D : ~ (<<e, d>> \in OpToRel(<, Nat))
  BY NatLessThanWellFounded, WFMin
<1>2. ASSUME NEW e \in D PROVE d <= e
  <2>1. d \in Nat /\ e \in Nat
    OBVIOUS
  <2>2. e < d => <<e, d>> \in OpToRel(<, Nat)
    BY <2>1 DEF OpToRel
  <2>3. ~ (e < d)
    BY <1>1, <2>2, Zenon
  <2>. QED  BY <2>1, <2>3
<1>. QED  BY <1>2, Zenon

\* Induction up to a bound, for the numbers of a set.
LEMMA Upwards ==
  ASSUME NEW N \in Nat, NEW G,
         0 \in G, \A k \in 1 .. N : k - 1 \in G => k \in G
  PROVE  \A k \in 0 .. N : k \in G
<1>. DEFINE D == (0 .. N) \ G
<1>1. ASSUME D # {} PROVE FALSE
  <2>1. D \in SUBSET Nat
    OBVIOUS
  <2>2. PICK d \in D : \A e \in D : d <= e
    BY <1>1, <2>1, Least, Zenon
  <2>3. d \in 1 .. N /\ d - 1 \in 0 .. N
    BY <2>2
  <2>4. d - 1 \notin D
    BY <2>2, <2>3
  <2>. QED  BY <2>2, <2>3, <2>4
<1>. QED  BY <1>1

\* What version i adds to the bytes of S.
Share(S, i) == IF i \in S THEN Bytes[i] ELSE 0

\* f adds up the bytes of the versions of S, one version after the other, up to n.
Sums(S, f, n) ==
  /\ f \in [0 .. n -> Nat]
  /\ f[0] = 0
  /\ \A i \in 1 .. n : f[i] = f[i - 1] + Share(S, i)

\* Partial sums exist for every set and every bound.
LEMMA SumsExist ==
  ASSUME NEW S, NEW n \in 0 .. MaxVer
  PROVE  \E f : Sums(S, f, n)
<1>. DEFINE G == {k \in 0 .. MaxVer : \E f : Sums(S, f, k)}
<1>1. 0 \in G
  <2>1. Sums(S, [i \in 0 .. 0 |-> 0], 0)
    BY DEF Sums
  <2>. QED  BY <2>1, VersionsAssumption
<1>2. ASSUME NEW k \in 1 .. MaxVer, k - 1 \in G PROVE k \in G
  <2>1. PICK f : Sums(S, f, k - 1)
    BY <1>2
  <2>2. Share(S, k) \in Nat
    BY VersionsAssumption DEF Share, Versions
  <2>. DEFINE h == [i \in 0 .. k |-> IF i = k THEN f[k - 1] + Share(S, k) ELSE f[i]]
  <2>3. h \in [0 .. k -> Nat] /\ h[0] = 0
    BY <2>1, <2>2 DEF Sums
  <2>4. \A i \in 1 .. k : h[i] = h[i - 1] + Share(S, i)
    BY <2>1 DEF Sums
  <2>5. Sums(S, h, k)
    BY <2>3, <2>4, ZenonT(30) DEF Sums
  <2>. QED  BY <2>5
<1>. HIDE DEF G
<1>3. n \in G
  BY <1>1, <1>2, Upwards, VersionsAssumption
<1>. QED  BY <1>3 DEF G

\* The total of a set is the last of its partial sums.
LEMMA BytesOfSums ==
  ASSUME NEW S
  PROVE  \E f : Sums(S, f, MaxVer) /\ BytesOf(S) = f[MaxVer]
<1>. DEFINE sum == CHOOSE f : f = [n \in 0 .. MaxVer |->
                     IF n = 0 THEN 0 ELSE f[n - 1] + (IF n \in S THEN Bytes[n] ELSE 0)]
<1>1. PICK f : Sums(S, f, MaxVer)
  BY SumsExist, VersionsAssumption
<1>2. f = [n \in 0 .. MaxVer |->
             IF n = 0 THEN 0 ELSE f[n - 1] + (IF n \in S THEN Bytes[n] ELSE 0)]
  BY <1>1, VersionsAssumption DEF Sums, Share
<1>3. sum = [n \in 0 .. MaxVer |->
             IF n = 0 THEN 0 ELSE sum[n - 1] + (IF n \in S THEN Bytes[n] ELSE 0)]
  BY <1>2, ZenonT(30)
<1>4. BytesOf(S) = sum[MaxVer]
  BY DEF BytesOf
<1>. HIDE DEF sum
<1>5. sum = f
  <2>. DEFINE G == {k \in 0 .. MaxVer : sum[k] = f[k]}
  <2>0. 0 \in G
    BY <1>2, <1>3, VersionsAssumption
  <2>1. ASSUME NEW k \in 1 .. MaxVer, k - 1 \in G PROVE k \in G
    <3>1. k \in 0 .. MaxVer /\ k # 0
      OBVIOUS
    <3>2. f[k] = f[k - 1] + (IF k \in S THEN Bytes[k] ELSE 0)
      BY <1>2, <3>1, ZenonT(30)
    <3>3. sum[k] = sum[k - 1] + (IF k \in S THEN Bytes[k] ELSE 0)
      BY <1>3, <3>1, ZenonT(30)
    <3>. QED  BY <2>1, <3>1, <3>2, <3>3
  <2>. HIDE DEF G
  <2>2. \A k \in 0 .. MaxVer : sum[k] = f[k]
    <3>1. \A k \in 0 .. MaxVer : k \in G
      BY <2>0, <2>1, Upwards, VersionsAssumption
    <3>. QED  BY <3>1 DEF G
  <2>3. sum = [k \in 0 .. MaxVer |-> sum[k]] /\ f = [k \in 0 .. MaxVer |-> f[k]]
    BY <1>2, <1>3
  <2>. QED  BY <2>2, <2>3
<1>. QED  BY <1>1, <1>4, <1>5

\* A total is a natural number.
LEMMA BytesOfType ==
  ASSUME NEW S
  PROVE  BytesOf(S) \in Nat
<1>1. PICK f : Sums(S, f, MaxVer) /\ BytesOf(S) = f[MaxVer]
  BY BytesOfSums
<1>. QED  BY <1>1, VersionsAssumption DEF Sums

\* Nothing that is a version, as in the empty set or in {Empty}: no bytes.
LEMMA BytesOfNone ==
  ASSUME NEW S, S \cap Versions = {}
  PROVE  BytesOf(S) = 0
<1>1. PICK f : Sums(S, f, MaxVer) /\ BytesOf(S) = f[MaxVer]
  BY BytesOfSums
<1>. DEFINE G == {k \in 0 .. MaxVer : f[k] = 0}
<1>2. 0 \in G
  BY <1>1, VersionsAssumption DEF Sums
<1>3. ASSUME NEW k \in 1 .. MaxVer, k - 1 \in G PROVE k \in G
  BY <1>1, <1>3 DEF Sums, Share, Versions
<1>. HIDE DEF G
<1>4. MaxVer \in G
  BY <1>2, <1>3, Upwards, VersionsAssumption
<1>. QED  BY <1>1, <1>4 DEF G

\* A version more: its bytes more.
LEMMA BytesOfAdd ==
  ASSUME NEW S, NEW v \in Versions, v \notin S
  PROVE  BytesOf(S \cup {v}) = BytesOf(S) + Bytes[v]
<1>1. PICK f : Sums(S, f, MaxVer) /\ BytesOf(S) = f[MaxVer]
  BY BytesOfSums
<1>2. PICK g : Sums(S \cup {v}, g, MaxVer) /\ BytesOf(S \cup {v}) = g[MaxVer]
  BY BytesOfSums
<1>. DEFINE G == {k \in 0 .. MaxVer : g[k] = f[k] + (IF k < v THEN 0 ELSE Bytes[v])}
<1>3. 0 \in G
  BY <1>1, <1>2, VersionsAssumption DEF Sums, Versions
<1>4. ASSUME NEW k \in 1 .. MaxVer, k - 1 \in G PROVE k \in G
  <2>1. g[k - 1] = f[k - 1] + (IF k - 1 < v THEN 0 ELSE Bytes[v])
    BY <1>4
  <2>2. g[k] = g[k - 1] + Share(S \cup {v}, k) /\ f[k] = f[k - 1] + Share(S, k)
    BY <1>1, <1>2, ZenonT(30) DEF Sums
  <2>3. f[k - 1] \in Nat /\ Bytes[v] \in Nat /\ Share(S, k) \in Nat /\ k \in Nat /\ v \in Nat
    BY <1>1, VersionsAssumption DEF Sums, Versions, Share
  <2>4. Share(S \cup {v}, k) = IF k = v THEN Bytes[v] ELSE Share(S, k)
    BY DEF Share
  <2>5. k = v => Share(S, k) = 0
    BY DEF Share
  <2>6. g[k] = f[k] + (IF k < v THEN 0 ELSE Bytes[v])
    <3>1. CASE k = v
      BY <3>1, <2>1, <2>2, <2>3, <2>4, <2>5
    <3>2. CASE k # v
      BY <3>2, <2>1, <2>2, <2>3, <2>4
    <3>. QED  BY <3>1, <3>2
  <2>. QED  BY <2>6
<1>. HIDE DEF G
<1>5. MaxVer \in G
  BY <1>3, <1>4, Upwards, VersionsAssumption
<1>6. g[MaxVer] = f[MaxVer] + (IF MaxVer < v THEN 0 ELSE Bytes[v])
  BY <1>5 DEF G
<1>. QED  BY <1>1, <1>2, <1>6, VersionsAssumption DEF Versions

\* A version less: its bytes less.
LEMMA BytesOfRemove ==
  ASSUME NEW S, NEW v \in Versions, v \in S
  PROVE  BytesOf(S \ {v}) = BytesOf(S) - Bytes[v]
<1>1. S = (S \ {v}) \cup {v}
  OBVIOUS
<1>2. BytesOf(S) = BytesOf(S \ {v}) + Bytes[v]
  BY <1>1, BytesOfAdd, Zenon
<1>3. BytesOf(S \ {v}) \in Nat /\ Bytes[v] \in Nat
  BY BytesOfType, VersionsAssumption
<1>. QED  BY <1>2, <1>3

\* The bytes of one version.
LEMMA BytesOfOne ==
  ASSUME NEW v \in Versions
  PROVE  BytesOf({v}) = Bytes[v]
<1>1. BytesOf({} \cup {v}) = BytesOf({}) + Bytes[v]
  BY BytesOfAdd
<1>2. BytesOf({}) = 0 /\ Bytes[v] \in Nat
  BY BytesOfNone, VersionsAssumption
<1>3. {} \cup {v} = {v}
  OBVIOUS
<1>. QED  BY <1>1, <1>2, <1>3

-----------------------------------------------------------------------------
(* Types.  That the counters never go below zero follows from what they    *)
(* count; the types below let them.                                        *)

VerTypes ==
  /\ kind \in Kinds /\ active \in 0 .. MaxVer /\ nver \in 0 .. MaxVer
  /\ prev \in Versions \cup {None} /\ expired \in BOOLEAN /\ counted \subseteq Versions

PlaceTypes ==
  /\ stack \subseteq Versions /\ batch \subseteq Versions /\ from_prev \subseteq Versions
  /\ freed \subseteq Versions /\ leaked \subseteq Versions

EntryTypes ==
  /\ evicted \in BOOLEAN /\ updated \in BOOLEAN /\ busy \in BOOLEAN /\ linked \in BOOLEAN
  /\ given \in BOOLEAN /\ refs \in Int /\ entry \in {"live", "dying", "gone"}
  /\ evpc \in {"idle", "checked"} /\ evicted_bytes \in Nat

WriterTypes ==
  /\ writer \in {"none", "update", "reload", "install", "rollback", "xfr", "sweep"}
  /\ wself \in Readers \cup {Control}
  /\ wpc \in {"idle", "axfr", "build", "retire", "grace"}
  /\ wlist \subseteq Versions /\ wver \in Versions \cup {None}
  /\ wpc = "grace" => wver \in Versions

SweepTypes == sweep \in {"idle", "ref", "drop", "unref"} /\ pressure \in BOOLEAN

ThreadTypes ==
  /\ section \subseteq Threads /\ found \subseteq Readers
  /\ tver \in [Threads -> 0 .. MaxVer \cup {None}]
  /\ spc \in [Senders -> {"idle", "spawned", "section", "sending", "leaving"}]

XferTypes == is_transferring \in BOOLEAN /\ xver \in 0 .. MaxVer \cup {None} /\ cmd \in BOOLEAN

OlderTypes == older \in [Versions -> SUBSET Threads]

Types ==
  /\ VerTypes /\ PlaceTypes /\ EntryTypes /\ WriterTypes /\ SweepTypes /\ ThreadTypes
  /\ XferTypes /\ OlderTypes

\* The initial state has the types.
LEMMA InitTypes == Init => Types
<1> SUFFICES ASSUME Init
             PROVE  Types
  OBVIOUS
<1>1. VerTypes
  <2>1. active \in {0, 1} /\ nver = active /\ counted = {active} \ {0}
    BY DEF Init, Empty
  <2>2. kind \in Kinds /\ prev = None /\ expired \in BOOLEAN
    BY Zenon DEF Init
  <2>. QED  BY <2>1, <2>2, VersionsAssumption DEF VerTypes, Versions
<1>2. PlaceTypes /\ SweepTypes /\ XferTypes
  BY Zenon DEF Init, PlaceTypes, SweepTypes, XferTypes
<1>4. EntryTypes
  <2>1. refs = 1 /\ evicted_bytes = 0
    BY Zenon DEF Init
  <2>2. refs \in Int /\ evicted_bytes \in Nat
    BY <2>1
  <2>. QED  BY <2>2, Zenon DEF Init, EntryTypes
<1>5. WriterTypes
  BY DEF Init, WriterTypes
<1>3. ThreadTypes /\ OlderTypes
  BY DEF Init, ThreadTypes, OlderTypes
<1>. QED  BY <1>1, <1>2, <1>3, <1>4, <1>5 DEF Types

\* Every step of the readers, the writers and the control thread keeps the types.
LEMMA NextTypes == Types /\ [Next]_vars => Types'
<1> SUFFICES ASSUME Types, [Next]_vars
             PROVE  Types'
  OBVIOUS
<1> USE DEF Types
<1>1. VerTypes'
  <2>1. CASE UNCHANGED zvars
    BY <2>1 DEF VerTypes, zvars
  <2>2. ASSUME NEW keepsecs \in KeepPrev, NEW same \in BOOLEAN, zone_publish_ex(keepsecs, same)
        PROVE  VerTypes'
    <3>1. nver' = nver + 1 /\ active' = nver + 1 /\ nver < MaxVer /\ kind' = kind
      BY <2>2 DEF zone_publish_ex
    <3>2. nver + 1 \in Versions
      BY <3>1, VersionsAssumption DEF VerTypes, Versions
    <3>3. prev' \in {None, prev} \/ (active # Empty /\ prev' = active)
      BY <2>2 DEF zone_publish_ex
    <3>4. active # Empty => active \in Versions
      BY DEF VerTypes, Versions, Empty
    <3>5. expired' \in BOOLEAN
      BY <2>2 DEF zone_publish_ex
    <3>6. counted' \subseteq counted \cup {nver + 1}
      BY <2>2 DEF zone_publish_ex
    <3>7. prev' \in Versions \cup {None}
      BY <3>3, <3>4 DEF VerTypes
    <3>. QED  BY <3>1, <3>2, <3>5, <3>6, <3>7 DEF VerTypes, Versions
  <2>3. CASE Expire \/ SweepDrop \/ Evict
    BY <2>3, ZenonT(30) DEF VerTypes, Expire, SweepDrop, Evict, EvictUncounts
  <2>4. CASE free_zone_db_entry
    <3>1. /\ kind' = kind /\ nver' = nver /\ prev' = None /\ active' = 0 /\ expired' \in BOOLEAN
          /\ counted' \subseteq counted
      BY <2>4, Zenon DEF free_zone_db_entry, Empty
    <3>. QED  BY <3>1, VersionsAssumption DEF VerTypes
  <2>. QED  BY <2>1, <2>2, <2>3, <2>4, VersionMoves
<1>2. PlaceTypes'
  <2>1. CASE UNCHANGED rvars
    BY <2>1 DEF PlaceTypes, rvars
  <2>2. ASSUME NEW v \in Versions, RetirePush(v) \/ RetireLeak(v) PROVE PlaceTypes'
    BY <2>2 DEF PlaceTypes, RetirePush, RetireLeak
  <2>3. ASSUME NEW v \in Versions, RetireItem(v) PROVE PlaceTypes'
    BY <2>3 DEF PlaceTypes, RetireItem, Free, PushBack
  <2>4. CASE RetireFree
    <3>1. wver \in Versions
      BY <2>4, Zenon DEF RetireFree, WriterTypes
    <3>. QED  BY <2>4, <3>1 DEF PlaceTypes, RetireFree
  <2>5. CASE TakeStack
    BY <2>5 DEF PlaceTypes, TakeStack
  <2>6. CASE free_zone_db_entry
    <3>1. /\ freed' = freed \cup ({prev, active} \ {None, Empty})
          /\ UNCHANGED <<stack, batch, from_prev, leaked>>
      BY <2>6, Zenon DEF free_zone_db_entry
    <3>2. prev \in Versions \cup {None} /\ active \in Versions \cup {Empty}
      BY DEF VerTypes, Versions, Empty
    <3>3. {prev, active} \ {None, Empty} \subseteq Versions
      BY <3>2, Zenon
    <3>. QED  BY <3>1, <3>3, Zenon DEF PlaceTypes
  <2>. QED  BY <2>1, <2>2, <2>3, <2>4, <2>5, <2>6, RetireMoves
<1>3. EntryTypes'
  <2>1. CASE UNCHANGED evars
    BY <2>1 DEF EntryTypes, evars
  <2>2. ASSUME NEW v \in Versions, RetirePush(v) PROVE EntryTypes'
    BY <2>2 DEF EntryTypes, RetirePush
  <2>3. ASSUME NEW v \in Versions, RetireItem(v) PROVE EntryTypes'
    BY <2>3 DEF EntryTypes, RetireItem, Free, PushBack, zone_entry_unref
  <2>4. CASE Unlock
    <3>1. updated' \in BOOLEAN
      BY <2>4, Zenon DEF EntryTypes, Unlock
    <3>. QED  BY <2>4, <3>1, Zenon DEF EntryTypes, Unlock
  <2>8. CASE entry_ref_if_live
    BY <2>8 DEF EntryTypes, entry_ref_if_live
  <2>9. CASE SweepUnref \/ zdir_entry_unref
    <3>1. refs' = refs - 1 /\ entry' \in {"dying", entry}
      BY <2>9, Zenon DEF SweepUnref, zdir_entry_unref, zone_entry_unref
    <3>2. refs' \in Int
      BY <3>1 DEF EntryTypes
    <3>. QED  BY <2>9, <3>1, <3>2, Zenon DEF EntryTypes, SweepUnref, zdir_entry_unref
  <2>5. CASE dbreg_lookup_entry_busy \/ InstallEnd \/ Unlink \/ EvictCheck \/ EvictFails
    BY <2>5, ZenonT(30) DEF EntryTypes, dbreg_lookup_entry_busy, InstallEnd, Unlink, EvictCheck, EvictFails
  <2>6. CASE Evict
    BY <2>6, BytesOfType, ZenonT(30) DEF EntryTypes, Evict
  <2>7. CASE free_zone_db_entry
    BY <2>7 DEF EntryTypes, free_zone_db_entry
  <2>. QED  BY <2>1, <2>2, <2>3, <2>4, <2>5, <2>6, <2>7, <2>8, <2>9, EntryMoves
<1>4. WriterTypes'
  <2>1. CASE UNCHANGED wvars
    BY <2>1 DEF WriterTypes, wvars
  <2>2. ASSUME NEW w \in {"update", "reload", "install", "rollback", "xfr"},
               NEW r \in Readers \cup {Control}, Lock(w, r)
        PROVE  WriterTypes'
    BY <2>2 DEF WriterTypes, Lock
  <2>3. CASE wait_for_active_axfr \/ Abort \/ Unlock
    BY <2>3, ZenonT(30) DEF WriterTypes, wait_for_active_axfr, Abort, Unlock, Released
  <2>4. ASSUME NEW keepsecs \in KeepPrev, NEW same \in BOOLEAN, zone_publish_ex(keepsecs, same)
        PROVE  WriterTypes'
    <3>1. wlist' \subseteq ({prev, active} \ {None, Empty})
      BY <2>4 DEF zone_publish_ex, DroppedPrev, VerTypes, Empty, None, Versions
    <3>2. wlist' \subseteq Versions
      BY <3>1, SMTT(30) DEF VerTypes, Versions, Empty
    <3>. QED  BY <2>4, <3>2 DEF WriterTypes, zone_publish_ex
  <2>5. ASSUME NEW v \in Versions, RetirePush(v) \/ RetireWait(v) \/ RetireLeak(v)
        PROVE  WriterTypes'
    BY <2>5, SMTT(30) DEF WriterTypes, RetirePush, RetireWait, RetireLeak
  <2>6. CASE RetireFree
    BY <2>6, ZenonT(30) DEF WriterTypes, RetireFree
  <2>7. CASE SweepDrop
    BY <2>7 DEF WriterTypes, VerTypes, SweepDrop
  <2>. QED  BY <2>1, <2>2, <2>3, <2>4, <2>5, <2>6, <2>7, WriterMoves
<1>5. SweepTypes'
  BY SweepMoves, ZenonT(30) DEF SweepTypes, svars, Unlock, entry_ref_if_live, SweepDrop, SweepSkip, SweepUnref
<1>6. ThreadTypes'
  <2>1. CASE UNCHANGED tvars
    BY <2>1 DEF ThreadTypes, tvars
  <2>2. ASSUME NEW r \in Readers, Enter(r) \/ Find(r) \/ Load(r) \/ Exit(r) PROVE ThreadTypes'
    BY <2>2 DEF ThreadTypes, VerTypes, Threads, Enter, Find, Load, Exit, LeaveSection
  <2>3. ASSUME NEW r \in Readers, NEW s \in Senders, StartSender(r, s) PROVE ThreadTypes'
    BY <2>3 DEF ThreadTypes, StartSender
  <2>4. ASSUME NEW s \in Senders, StartSenderFails(s) \/ SenderEnter(s) \/ SenderLoad(s)
               \/ SenderDone(s) \/ SenderExit(s)
        PROVE  ThreadTypes'
    BY <2>4 DEF ThreadTypes, VerTypes, Threads, StartSenderFails, SenderEnter, SenderLoad,
       SenderDone, SenderExit, LeaveSection
  <2>. QED  BY <2>1, <2>2, <2>3, <2>4, ThreadMoves
<1>7. XferTypes'
  BY XferMoves, ZenonT(30) DEF XferTypes, VerTypes, xvars, StartTransfer, TransferLoad, TransferEnd, CommandFind,
     CommandEnd
<1>8. OlderTypes'
  <2>1. CASE UNCHANGED older
    BY <2>1 DEF OlderTypes
  <2>2. ASSUME NEW t, LeaveSection(t) PROVE OlderTypes'
    BY <2>2 DEF OlderTypes, LeaveSection
  <2>3. ASSUME NEW keepsecs \in KeepPrev, NEW same \in BOOLEAN, zone_publish_ex(keepsecs, same)
        PROVE  OlderTypes'
    BY <2>3, ZenonT(30) DEF OlderTypes, ThreadTypes, VerTypes, zone_publish_ex
  <2>. QED  BY <2>1, <2>2, <2>3, OlderMoves DEF Exit, SenderExit
<1>. QED  BY <1>1, <1>2, <1>3, <1>4, <1>5, <1>6, <1>7, <1>8

-----------------------------------------------------------------------------
(* Who holds writer_lock, and what the holder relies on *)

WriterInv ==
  /\ wpc = "idle" <=> writer = "none"
  /\ writer = "none" => wself = Control
  /\ wlist # {} => wpc \in {"retire", "grace"}
  /\ wver # None <=> wpc = "grace"
  /\ writer = "sweep" => wpc \in {"retire", "grace"}
  /\ writer = "update" => wself # Control
  /\ writer = "reload" => kind # "db"
  /\ wself # Control => wself \in found /\ tver[wself] = None
  /\ writer \in {"reload", "rollback"} => cmd
  /\ writer = "install" => busy
  /\ writer = "xfr" => is_transferring
  /\ writer = "sweep" <=> sweep = "drop"

\* The kind of a zone does not change.
LEMMA KindKept == [Next]_vars => kind' = kind
BY VersionMoves, ZenonT(30) DEF zvars, zone_publish_ex, Expire, SweepDrop, Evict, free_zone_db_entry

\* Nobody holds the lock at the start.
LEMMA InitWriter == Init => WriterInv
BY DEF Init, WriterInv

\* A reader, a command, an install and a transfer stay while they hold the lock.
LEMMA NextWriter == Types /\ WriterInv /\ [Next]_vars => WriterInv'
<1> SUFFICES ASSUME Types, WriterInv, [Next]_vars
             PROVE  WriterInv'
  OBVIOUS
<1>k. kind' = kind
  BY KindKept
<1>1. CASE UNCHANGED wvars
  <2>0. writer' = writer /\ wself' = wself /\ wpc' = wpc /\ wlist' = wlist /\ wver' = wver
    BY <1>1, Zenon DEF wvars
  <2>1. wself # Control => wself \in found' /\ tver'[wself] = None
    <3> SUFFICES ASSUME wself # Control PROVE wself \in found' /\ tver'[wself] = None
      OBVIOUS
    <3>0. /\ wself \in found /\ tver[wself] = None /\ wself \in Readers /\ wself \notin Senders
          /\ wself \in Threads
      BY ThreadsAssumption DEF Types, WriterTypes, WriterInv, Threads
    <3>1. CASE UNCHANGED tvars
      BY <3>0, <3>1, Zenon DEF tvars
    <3>2. ASSUME NEW r \in Readers, Enter(r) \/ Find(r) \/ Load(r) \/ Exit(r)
          PROVE  wself \in found' /\ tver'[wself] = None
      BY <3>0, <3>2 DEF Enter, Find, Load, Exit, Types, ThreadTypes
    <3>3. ASSUME NEW s \in Senders, StartSenderFails(s) \/ SenderEnter(s) \/ SenderLoad(s)
                 \/ SenderDone(s) \/ SenderExit(s)
          PROVE  wself \in found' /\ tver'[wself] = None
      BY <3>0, <3>3 DEF StartSenderFails, SenderEnter, SenderLoad, SenderDone, SenderExit, Types, ThreadTypes
    <3>4. ASSUME NEW r \in Readers, NEW s \in Senders, StartSender(r, s)
          PROVE  wself \in found' /\ tver'[wself] = None
      BY <3>0, <3>4 DEF StartSender
    <3>. QED  BY <3>1, <3>2, <3>3, <3>4, ThreadMoves, Zenon
  <2>2. writer \in {"reload", "rollback"} => cmd'
    BY XferMoves DEF xvars, StartTransfer, TransferLoad, TransferEnd, CommandFind, CommandEnd, WriterInv
  <2>3. writer = "xfr" => is_transferring'
    BY XferMoves, ZenonT(30) DEF xvars, StartTransfer, TransferLoad, TransferEnd, CommandFind, CommandEnd, WriterInv
  <2>4. writer = "install" => busy'
    BY EntryMoves, Zenon DEF evars, RetirePush, RetireItem, Unlock, entry_ref_if_live, SweepUnref,
       dbreg_lookup_entry_busy, InstallEnd, Unlink, EvictCheck, EvictFails, Evict, zdir_entry_unref,
       free_zone_db_entry, WriterInv
  <2>5. writer = "sweep" <=> sweep' = "drop"
    <3>1. CASE UNCHANGED svars
      BY <3>1 DEF svars, WriterInv
    <3>2. CASE Unlock \/ SweepDrop
      BY <2>0, <3>2, ZenonT(30) DEF Unlock, SweepDrop, Released, WriterInv
    <3>3. CASE entry_ref_if_live \/ SweepSkip \/ SweepUnref
      BY <3>3 DEF entry_ref_if_live, SweepSkip, SweepUnref, WriterInv
    <3>. QED  BY <3>1, <3>2, <3>3, SweepMoves
  <2>. QED  BY <1>k, <2>0, <2>1, <2>2, <2>3, <2>4, <2>5, Zenon DEF WriterInv
<1>2. ASSUME NEW w \in {"update", "reload", "install", "rollback", "xfr"},
             NEW r \in Readers \cup {Control}, Lock(w, r)
      PROVE  WriterInv'
  <2>1. w = "update" => r \in found /\ tver[r] = None /\ r # Control
    BY <1>2, ThreadsAssumption DEF Lock, MayWrite, handle_dynamic_update, Types, ThreadTypes, Threads
  <2>2. w # "update" => r = Control
    BY <1>2 DEF Lock, MayWrite
  <2>3. /\ w = "reload" => kind # "db" /\ cmd
        /\ w = "rollback" => cmd
        /\ w = "install" => busy
        /\ w = "xfr" => is_transferring
    BY <1>2 DEF Lock, MayWrite
  <2>4. /\ writer = "none" /\ writer' = w /\ wself' = r /\ wpc' = "axfr"
        /\ UNCHANGED <<wlist, wver, kind, found, tver, cmd, busy, is_transferring, sweep>>
    BY <1>2, Zenon DEF Lock, zvars, evars, svars, tvars, xvars
  <2>. QED  BY <2>1, <2>2, <2>3, <2>4 DEF WriterInv
<1>3. CASE wait_for_active_axfr \/ Abort
  BY <1>3 DEF wait_for_active_axfr, Abort, Released, WriterInv, zvars, evars, svars, tvars, xvars
<1>4. ASSUME NEW keepsecs \in KeepPrev, NEW same \in BOOLEAN, zone_publish_ex(keepsecs, same)
      PROVE  WriterInv'
  <2>1. /\ wpc = "build" /\ wpc' = "retire"
        /\ UNCHANGED <<writer, wself, wver, kind, found, tver, cmd, busy, is_transferring, sweep>>
    BY <1>4, Zenon DEF zone_publish_ex, evars, svars, tvars, xvars
  <2>. QED  BY <2>1 DEF WriterInv
<1>5. ASSUME NEW v \in Versions, RetirePush(v) \/ RetireWait(v) \/ RetireLeak(v)
      PROVE  WriterInv'
  <2>1. v # None
    BY VersionsAssumption DEF Versions, None
  <2>2. UNCHANGED <<writer, wself, kind, found, tver, cmd, busy, is_transferring, sweep>>
    BY <1>5, Zenon DEF RetirePush, RetireWait, RetireLeak, zvars, evars, svars, tvars, xvars
  <2>3. CASE RetirePush(v)
    BY <2>2, <2>3 DEF RetirePush, WriterInv
  <2>4. CASE RetireWait(v)
    BY <2>1, <2>2, <2>4 DEF RetireWait, WriterInv
  <2>5. CASE RetireLeak(v)
    BY <2>2, <2>5 DEF RetireLeak, WriterInv
  <2>. QED  BY <1>5, <2>3, <2>4, <2>5
<1>6. CASE RetireFree
  <2>1. UNCHANGED <<writer, wself, wlist, kind, found, tver, cmd, busy, is_transferring, sweep>>
    BY <1>6, Zenon DEF RetireFree, zvars, evars, svars, tvars, xvars
  <2>. QED  BY <1>6, <2>1 DEF RetireFree, WriterInv
<1>7. CASE Unlock
  <2>1. UNCHANGED <<wlist, wver, kind, found, tver, cmd, busy, is_transferring>>
    BY <1>7, Zenon DEF Unlock, zvars, tvars, xvars
  <2>. QED  BY <1>7, <2>1 DEF Unlock, Released, WriterInv
<1>8. CASE SweepDrop
  <2>1. /\ UNCHANGED <<wself, wver, kind, found, tver, cmd, busy, is_transferring>>
        /\ writer = "none" /\ writer' = "sweep" /\ wpc' = "retire" /\ sweep' = "drop"
    BY <1>8, Zenon DEF SweepDrop, evars, tvars, xvars
  <2>. QED  BY <2>1 DEF WriterInv
<1>. QED  BY <1>1, <1>2, <1>3, <1>4, <1>5, <1>6, <1>7, <1>8, WriterMoves, Zenon

-----------------------------------------------------------------------------
(* Who has the entry *)

\* What a thread has, it has inside of a section.
ThreadInv ==
  /\ found \subseteq section
  /\ \A r \in Readers : tver[r] # None => r \in found
  /\ \A s \in Senders : /\ tver[s] # None => spc[s] = "sending"
                        /\ spc[s] \in {"section", "sending", "leaving"} => s \in section

\* Every step of the readers and the senders keeps it.
LEMMA NextThread == Types /\ ThreadInv /\ [Next]_vars => ThreadInv'
<1> SUFFICES ASSUME Types, ThreadInv, [Next]_vars
             PROVE  ThreadInv'
  OBVIOUS
<1>0. /\ tver \in [Threads -> 0 .. MaxVer \cup {None}] /\ found \subseteq Readers
      /\ spc \in [Senders -> {"idle", "spawned", "section", "sending", "leaving"}]
      /\ Readers \cap Senders = {}
  BY ThreadsAssumption DEF Types, ThreadTypes
<1>1. CASE UNCHANGED tvars
  BY <1>1 DEF tvars, ThreadInv
<1>2. ASSUME NEW r \in Readers, Enter(r) \/ Find(r) \/ Load(r) PROVE ThreadInv'
  BY <1>0, <1>2 DEF Enter, Find, Load, ThreadInv, Threads
<1>3. ASSUME NEW r \in Readers, Exit(r) PROVE ThreadInv'
  <2>1. /\ section' = section \ {r} /\ found' = found \ {r} /\ spc' = spc
        /\ tver' = [tver EXCEPT ![r] = None]
    BY <1>3, Zenon DEF Exit, LeaveSection
  <2>2. found' \subseteq section'
    BY <2>1 DEF ThreadInv
  <2>3. \A x \in Readers : tver'[x] # None => x \in found'
    BY <1>0, <2>1 DEF ThreadInv, Threads
  <2>4. \A s \in Senders : s # r /\ tver'[s] = tver[s]
    BY <1>0, <2>1 DEF Threads
  <2>. QED  BY <2>1, <2>2, <2>3, <2>4 DEF ThreadInv
<1>4. ASSUME NEW r \in Readers, NEW s \in Senders, StartSender(r, s) PROVE ThreadInv'
  BY <1>0, <1>4 DEF StartSender, ThreadInv
<1>5. ASSUME NEW s \in Senders, StartSenderFails(s) \/ SenderEnter(s) \/ SenderLoad(s) \/ SenderDone(s)
      PROVE  ThreadInv'
  BY <1>0, <1>5 DEF StartSenderFails, SenderEnter, SenderLoad, SenderDone, ThreadInv, Threads
<1>6. ASSUME NEW s \in Senders, SenderExit(s) PROVE ThreadInv'
  <2>1. /\ section' = section \ {s} /\ found' = found /\ tver' = tver /\ spc[s] = "leaving"
        /\ spc' = [spc EXCEPT ![s] = "idle"]
    BY <1>6, Zenon DEF SenderExit, LeaveSection
  <2>2. found' \subseteq section'
    BY <1>0, <2>1 DEF ThreadInv
  <2>. QED  BY <1>0, <2>1, <2>2 DEF ThreadInv
<1>. QED  BY <1>1, <1>2, <1>3, <1>4, <1>5, <1>6, ThreadMoves, Zenon

\* The directory gives its reference back after everybody who found the entry is done.
HoldInv ==
  /\ Held \/ linked => ~given
  /\ xver # None => is_transferring
  /\ is_transferring => kind = "secondary"
  /\ busy => linked /\ kind = "db" /\ evpc = "idle"

\* Who has the entry after a step had it before or found it in the directory.
LEMMA HeldFrom ==
  ASSUME Types, [Next]_vars
  PROVE  Held' => Held \/ linked
<1> SUFFICES ASSUME Held', ~Held, ~linked
             PROVE  FALSE
  OBVIOUS
<1>0. found = {} /\ ~is_transferring /\ ~cmd /\ \A s \in Senders : spc[s] = "idle"
  BY DEF Held
<1>1. ~is_transferring' /\ ~cmd'
  BY <1>0, XferMoves DEF xvars, StartTransfer, TransferLoad, TransferEnd, CommandFind, CommandEnd
<1>2. found' = {} /\ \A s \in Senders : spc'[s] = "idle"
  <2>1. CASE UNCHANGED tvars
    BY <1>0, <2>1 DEF tvars
  <2>2. ASSUME NEW r \in Readers, Enter(r) \/ Find(r) \/ Load(r) \/ Exit(r)
        PROVE  found' = {} /\ spc' = spc
    BY <1>0, <2>2 DEF Enter, Find, Load, Exit
  <2>3. ~ \E r \in Readers, s \in Senders : StartSender(r, s)
    BY <1>0 DEF StartSender
  <2>4. ~ \E s \in Senders :
         StartSenderFails(s) \/ SenderEnter(s) \/ SenderLoad(s) \/ SenderDone(s) \/ SenderExit(s)
    BY <1>0 DEF StartSenderFails, SenderEnter, SenderLoad, SenderDone, SenderExit
  <2>. QED  BY <1>0, <2>1, <2>2, <2>3, <2>4, ThreadMoves
<1>. QED  BY <1>1, <1>2 DEF Held

\* The reference of the directory is given back by one step.
LEMMA GivenBack ==
  ASSUME [Next]_vars
  PROVE  /\ given' = given \/ (zdir_entry_unref /\ UNCHANGED <<tvars, xvars>>)
         /\ linked' => linked
<1>1. given' = given \/ zdir_entry_unref
  BY EntryMoves, Zenon DEF evars, RetirePush, RetireItem, Unlock, entry_ref_if_live, SweepUnref,
     dbreg_lookup_entry_busy, InstallEnd, Unlink, EvictCheck, EvictFails, Evict, free_zone_db_entry
<1>2. zdir_entry_unref => UNCHANGED <<tvars, xvars>>
  BY Zenon DEF zdir_entry_unref
<1>3. linked' => linked
  BY EntryMoves, Zenon DEF evars, RetirePush, RetireItem, Unlock, entry_ref_if_live, SweepUnref,
     dbreg_lookup_entry_busy, InstallEnd, Unlink, EvictCheck, EvictFails, Evict, zdir_entry_unref,
     free_zone_db_entry
<1>. QED  BY <1>1, <1>2, <1>3, Zenon

\* Every step keeps HoldInv: only zdir_entry_unref() gives the reference back.
LEMMA NextHold == Types /\ HoldInv /\ [Next]_vars => HoldInv'
<1> SUFFICES ASSUME Types, HoldInv, [Next]_vars
             PROVE  HoldInv'
  OBVIOUS
<1>k. kind' = kind
  BY KindKept
<1>1. Held' \/ linked' => ~given'
  <2>1. CASE given' = given
    BY <2>1, HeldFrom, GivenBack, Zenon DEF HoldInv
  <2>2. CASE zdir_entry_unref /\ UNCHANGED <<tvars, xvars>>
    <3>1. ~Held /\ ~linked
      BY <2>2, Zenon DEF zdir_entry_unref
    <3>2. Held' <=> Held
      BY <2>2, Zenon DEF Held, tvars, xvars
    <3>. QED  BY <3>1, <3>2, GivenBack, Zenon
  <2>. QED  BY <2>1, <2>2, GivenBack, Zenon
<1>2. xver' # None => is_transferring'
  BY XferMoves DEF HoldInv, xvars, StartTransfer, TransferLoad, TransferEnd, CommandFind, CommandEnd
<1>3. is_transferring' => kind = "secondary"
  BY XferMoves DEF HoldInv, xvars, StartTransfer, TransferLoad, TransferEnd, CommandFind, CommandEnd
<1>4. busy' => linked' /\ kind = "db" /\ evpc' = "idle"
  <2>1. CASE UNCHANGED evars
    BY <2>1 DEF evars, HoldInv
  <2>2. CASE Evict \/ EvictCheck \/ EvictFails
    <3>1. evpc = "checked" \/ ~busy
      BY <2>2, Zenon DEF Evict, EvictCheck, EvictFails, Evictable
    <3>2. ~busy /\ busy' = busy
      BY <2>2, <3>1 DEF Evict, EvictCheck, EvictFails, HoldInv
    <3>. QED  BY <3>2
  <2>3. CASE dbreg_lookup_entry_busy \/ InstallEnd \/ Unlink
    BY <2>3 DEF dbreg_lookup_entry_busy, InstallEnd, Unlink, HoldInv
  <2>4. ASSUME NEW v \in Versions, RetirePush(v) \/ RetireItem(v) PROVE UNCHANGED <<busy, linked, evpc>>
    BY <2>4, Zenon DEF RetirePush, RetireItem
  <2>5. CASE Unlock \/ entry_ref_if_live \/ SweepUnref \/ zdir_entry_unref \/ free_zone_db_entry
    BY <2>5, Zenon DEF HoldInv, Unlock, entry_ref_if_live, SweepUnref, zdir_entry_unref, free_zone_db_entry
  <2>. QED  BY <2>1, <2>2, <2>3, <2>4, <2>5, EntryMoves, ZenonT(30) DEF HoldInv
<1>. QED  BY <1>k, <1>1, <1>2, <1>3, <1>4, Zenon DEF HoldInv

-----------------------------------------------------------------------------
(* Eviction *)

\* An entry that is out of memory is out of the directory, and whoever could write to it
\* is gone.
EvictInv ==
  /\ evpc = "checked" => linked /\ kind = "db"
  /\ evicted => ~linked /\ kind = "db" /\ writer \in {"none", "sweep"} /\ ~updated
  /\ ~evicted => evicted_bytes = 0

\* Every step keeps EvictInv.
LEMMA NextEvict == Types /\ WriterInv /\ HoldInv /\ EvictInv /\ [Next]_vars => EvictInv'
<1> SUFFICES ASSUME Types, WriterInv, HoldInv, EvictInv, [Next]_vars
             PROVE  EvictInv'
  OBVIOUS
<1>k. kind' = kind
  BY KindKept
<1>1. evpc' = "checked" => linked' /\ kind = "db"
  BY EntryMoves, Zenon DEF EvictInv, evars, RetirePush, RetireItem, Unlock, entry_ref_if_live, SweepUnref,
     dbreg_lookup_entry_busy, InstallEnd, Unlink, EvictCheck, EvictFails, Evict, zdir_entry_unref,
     free_zone_db_entry, Evictable
<1>3. (evicted' = evicted /\ evicted_bytes' \in {evicted_bytes, 0}) \/ Evict
  BY EntryMoves, Zenon DEF evars, RetirePush, RetireItem, Unlock, entry_ref_if_live, SweepUnref,
     dbreg_lookup_entry_busy, InstallEnd, Unlink, EvictCheck, EvictFails, zdir_entry_unref, free_zone_db_entry
<1>4. CASE Evict
  BY <1>4, <1>k, <1>1, Zenon DEF Evict, EvictInv, EvictLocked, wvars
<1>5. CASE evicted' = evicted /\ evicted_bytes' \in {evicted_bytes, 0} /\ ~evicted
  BY <1>5, <1>1, <1>k, Zenon DEF EvictInv
<1>6. CASE evicted' = evicted /\ evicted
  <2>1. ~linked /\ ~busy /\ ~is_transferring /\ kind = "db" /\ writer \in {"none", "sweep"} /\ ~updated
    BY <1>6 DEF EvictInv, HoldInv
  <2>2. ~linked'
    BY <2>1, GivenBack, Zenon
  <2>3. writer' \in {"none", "sweep"}
    <3>1. ASSUME NEW w \in {"update", "reload", "install", "rollback", "xfr"},
                 NEW r \in Readers \cup {Control}, Lock(w, r)
          PROVE  FALSE
      BY <1>6, <2>1, <3>1 DEF Lock, MayWrite, handle_dynamic_update
    <3>2. writer' \in {writer, "none", "sweep"} \/ (\E w \in {"update", "reload", "install", "rollback", "xfr"},
                 r \in Readers \cup {Control} : Lock(w, r))
      BY WriterMoves, Zenon DEF wvars, wait_for_active_axfr, Abort, Released, zone_publish_ex, RetirePush, RetireWait,
         RetireLeak, RetireFree, Unlock, SweepDrop
    <3>. QED  BY <2>1, <3>1, <3>2
  <2>4. ~updated'
    <3>1. CASE Unlock
      BY <2>1, <3>1 DEF Unlock
    <3>2. updated' = updated \/ Unlock
      BY EntryMoves, Zenon DEF evars, RetirePush, RetireItem, entry_ref_if_live, SweepUnref,
         dbreg_lookup_entry_busy, InstallEnd, Unlink, EvictCheck, EvictFails, Evict, zdir_entry_unref,
         free_zone_db_entry
    <3>. QED  BY <2>1, <3>1, <3>2
  <2>. QED  BY <1>6, <1>1, <1>k, <2>1, <2>2, <2>3, <2>4, Zenon DEF EvictInv
<1>. QED  BY <1>3, <1>4, <1>5, <1>6, Zenon

-----------------------------------------------------------------------------
(* Where the versions are *)

Served == {active} \ {Empty}
Kept == {prev} \ {None}
Waited == {wver} \ {None}

\* Every version that was made is in a place, and no two places share one.
PlaceInv ==
  /\ 1 .. nver = Served \cup Kept \cup stack \cup batch \cup wlist \cup Waited \cup leaked \cup freed
  /\ Served \cap (Kept \cup stack \cup batch \cup wlist \cup Waited \cup leaked \cup freed) = {}
  /\ Kept \cap (stack \cup batch \cup wlist \cup Waited \cup leaked \cup freed) = {}
  /\ stack \cap (batch \cup wlist \cup Waited \cup leaked \cup freed) = {}
  /\ batch \cap (wlist \cup Waited \cup leaked \cup freed) = {}
  /\ wlist \cap (Waited \cup leaked \cup freed) = {}
  /\ Waited \cap (leaked \cup freed) = {}
  /\ leaked \cap freed = {}

\* The only version at the start is the one of a database zone.
LEMMA InitPlace == Init => PlaceInv
<1> SUFFICES ASSUME Init
             PROVE  PlaceInv
  OBVIOUS
<1>1. nver = active /\ active \in {0, 1}
  BY DEF Init, Empty
<1>2. 1 .. nver = Served
  BY <1>1 DEF Served, Empty
<1>3. Kept = {} /\ Waited = {} /\ stack = {} /\ batch = {} /\ wlist = {} /\ leaked = {} /\ freed = {}
  BY DEF Init, Kept, Waited
<1>. QED  BY <1>2, <1>3 DEF PlaceInv

\* Which steps move versions.
LEMMA PlaceMoves ==
  [Next]_vars =>
    \/ UNCHANGED <<nver, active, prev, stack, batch, wlist, wver, leaked, freed>>
    \/ \E keepsecs \in KeepPrev, same \in BOOLEAN : zone_publish_ex(keepsecs, same)
    \/ \E v \in Versions : RetirePush(v) \/ RetireWait(v) \/ RetireLeak(v) \/ RetireItem(v)
    \/ RetireFree \/ TakeStack \/ SweepDrop \/ free_zone_db_entry
<1> SUFFICES ASSUME [Next]_vars
             PROVE  \/ UNCHANGED <<nver, active, prev, stack, batch, wlist, wver, leaked, freed>>
                    \/ \E keepsecs \in KeepPrev, same \in BOOLEAN : zone_publish_ex(keepsecs, same)
                    \/ \E v \in Versions : RetirePush(v) \/ RetireWait(v) \/ RetireLeak(v) \/ RetireItem(v)
                    \/ RetireFree \/ TakeStack \/ SweepDrop \/ free_zone_db_entry
  OBVIOUS
<1>1. \/ UNCHANGED <<nver, active, prev>>
      \/ \E keepsecs \in KeepPrev, same \in BOOLEAN : zone_publish_ex(keepsecs, same)
      \/ SweepDrop \/ free_zone_db_entry
  BY VersionMoves, Zenon DEF zvars, Expire, Evict
<1>2. \/ UNCHANGED <<stack, batch, leaked, freed>>
      \/ \E v \in Versions : RetirePush(v) \/ RetireLeak(v) \/ RetireItem(v)
      \/ RetireFree \/ TakeStack \/ free_zone_db_entry
  BY RetireMoves, Zenon DEF rvars
<1>3. \/ UNCHANGED <<wlist, wver>>
      \/ \E keepsecs \in KeepPrev, same \in BOOLEAN : zone_publish_ex(keepsecs, same)
      \/ \E v \in Versions : RetirePush(v) \/ RetireWait(v) \/ RetireLeak(v)
      \/ RetireFree \/ SweepDrop
  BY WriterMoves, Zenon DEF wvars, Lock, wait_for_active_axfr, Abort, Unlock
<1>. QED  BY <1>1, <1>2, <1>3, Zenon

\* Every step moves a version from one place to another.
LEMMA NextPlace == Types /\ WriterInv /\ PlaceInv /\ [Next]_vars => PlaceInv'
<1> SUFFICES ASSUME Types, WriterInv, PlaceInv, [Next]_vars
             PROVE  PlaceInv'
  OBVIOUS
<1>1. CASE UNCHANGED <<nver, active, prev, stack, batch, wlist, wver, leaked, freed>>
  BY <1>1 DEF PlaceInv, Served, Kept, Waited
<1>2. ASSUME NEW keepsecs \in KeepPrev, NEW same \in BOOLEAN, zone_publish_ex(keepsecs, same)
      PROVE  PlaceInv'
  <2>1. /\ wlist = {} /\ Waited = {} /\ nver' = nver + 1 /\ active' = nver + 1
        /\ UNCHANGED <<stack, batch, wver, leaked, freed>>
    BY <1>2 DEF zone_publish_ex, WriterInv, rvars, Waited
  <2>2. nver \in Nat /\ 1 .. nver + 1 = (1 .. nver) \cup {nver + 1} /\ nver + 1 \notin 1 .. nver
    BY DEF Types, VerTypes
  <2>3. Served' = {nver + 1} /\ Waited' = {}
    BY <2>1, <2>2 DEF Served, Waited, Empty
  <2>4. wlist' \cup Kept' = Served \cup Kept /\ wlist' \cap Kept' = {}
    <3>. DEFINE keep == keepsecs > 0 /\ active # Empty /\ ~same
                dropped == DroppedPrev(keep, keepsecs)
    <3>1. /\ wlist' = dropped \cup (IF active # Empty /\ ~keep THEN {active} ELSE {})
          /\ prev' = IF keep THEN active ELSE IF dropped # {} THEN None ELSE prev
      BY <1>2, Zenon DEF zone_publish_ex
    <3>2. dropped \in {{}, Kept} /\ (keep => dropped = Kept)
      BY DEF DroppedPrev, Kept
    <3>3. active # None /\ Served \cap Kept = {}
      BY DEF Types, VerTypes, None, PlaceInv
    <3>4. CASE keep
      BY <3>1, <3>2, <3>3, <3>4 DEF Served, Kept
    <3>5. CASE ~keep
      BY <3>1, <3>2, <3>3, <3>5, SMTT(30) DEF Served, Kept
    <3>. QED  BY <3>4, <3>5
  <2>. QED  BY <2>1, <2>2, <2>3, <2>4, SMTT(30) DEF PlaceInv
<1>3. ASSUME NEW v \in Versions, RetirePush(v) PROVE PlaceInv'
  <2>1. /\ v \in wlist /\ wlist' = wlist \ {v} /\ stack' = stack \cup {v}
        /\ UNCHANGED <<nver, active, prev, batch, wver, leaked, freed>>
    BY <1>3, Zenon DEF RetirePush, zvars
  <2>2. Served' = Served /\ Kept' = Kept /\ Waited' = Waited
    BY <2>1 DEF Served, Kept, Waited
  <2>. QED  BY <2>1, <2>2 DEF PlaceInv
<1>4. ASSUME NEW v \in Versions, RetireWait(v) PROVE PlaceInv'
  <2>1. /\ v \in wlist /\ wlist' = wlist \ {v} /\ wver' = v /\ wver = None
        /\ UNCHANGED <<nver, active, prev, stack, batch, leaked, freed>>
    BY <1>4 DEF RetireWait, zvars, rvars, WriterInv
  <2>2. Served' = Served /\ Kept' = Kept /\ Waited = {} /\ Waited' = {v}
    BY <2>1 DEF Served, Kept, Waited, Versions, None
  <2>. QED  BY <2>1, <2>2 DEF PlaceInv
<1>5. ASSUME NEW v \in Versions, RetireLeak(v) PROVE PlaceInv'
  <2>1. /\ wlist' = wlist \ {v} /\ wver' = None /\ leaked' = leaked \cup {v}
        /\ UNCHANGED <<nver, active, prev, stack, batch, freed>>
    BY <1>5, Zenon DEF RetireLeak, zvars
  <2>2. Served' = Served /\ Kept' = Kept /\ Waited' = {}
    BY <2>1, SMTT(30) DEF Served, Kept, Waited
  <2>3. (v \in wlist /\ Waited = {}) \/ Waited = {v}
    BY <1>5, SMTT(30) DEF RetireLeak, WriterInv, Waited, Versions, None
  <2>. QED  BY <2>1, <2>2, <2>3 DEF PlaceInv
<1>6. ASSUME NEW v \in Versions, RetireItem(v) PROVE PlaceInv'
  <2>1. /\ v \in batch /\ batch' = batch \ {v}
        /\ \/ stack' = stack \cup {v} /\ freed' = freed
           \/ stack' = stack /\ freed' = freed \cup {v}
        /\ UNCHANGED <<nver, active, prev, wlist, wver, leaked>>
    BY <1>6, Zenon DEF RetireItem, Free, PushBack, zvars, wvars
  <2>2. Served' = Served /\ Kept' = Kept /\ Waited' = Waited
    BY <2>1 DEF Served, Kept, Waited
  <2>. QED  BY <2>1, <2>2 DEF PlaceInv
<1>7. CASE RetireFree
  <2>1. /\ freed' = freed \cup {wver} /\ wver' = None /\ wpc = "grace"
        /\ UNCHANGED <<nver, active, prev, stack, batch, wlist, leaked>>
    BY <1>7, Zenon DEF RetireFree, zvars
  <2>2. Served' = Served /\ Kept' = Kept /\ Waited' = {} /\ Waited = {wver}
    BY <2>1 DEF Served, Kept, Waited, WriterInv
  <2>. QED  BY <2>1, <2>2 DEF PlaceInv
<1>8. CASE TakeStack
  <2>1. /\ batch = {} /\ batch' = stack /\ stack' = {}
        /\ UNCHANGED <<nver, active, prev, wlist, wver, leaked, freed>>
    BY <1>8, Zenon DEF TakeStack, zvars, wvars
  <2>2. Served' = Served /\ Kept' = Kept /\ Waited' = Waited
    BY <2>1 DEF Served, Kept, Waited
  <2>. QED  BY <2>1, <2>2 DEF PlaceInv
<1>9. CASE SweepDrop
  <2>1. /\ prev # None /\ prev' = None /\ wlist = {} /\ wlist' = {prev}
        /\ UNCHANGED <<nver, active, stack, batch, wver, leaked, freed>>
    BY <1>9, ZenonT(30) DEF SweepDrop, WriterInv, rvars
  <2>2. Served' = Served /\ Kept' = {} /\ Kept = wlist' /\ Waited' = Waited
    BY <2>1 DEF Served, Kept, Waited
  <2>. QED  BY <2>1, <2>2, SMTT(30) DEF PlaceInv
<1>10. CASE free_zone_db_entry
  <2>1. /\ freed' = freed \cup ({prev, active} \ {None, Empty}) /\ prev' = None /\ active' = Empty
        /\ UNCHANGED <<nver, stack, batch, wlist, wver, leaked>>
    BY <1>10, Zenon DEF free_zone_db_entry, wvars
  <2>2. Served' = {} /\ Kept' = {} /\ Waited' = Waited
    BY <2>1 DEF Served, Kept, Waited
  <2>3. {prev, active} \ {None, Empty} = Served \cup Kept
    <3>1. prev # Empty /\ active # None
      BY DEF Types, VerTypes, Versions, None, Empty
    <3>. QED  BY <3>1 DEF Served, Kept
  <2>. QED  BY <2>1, <2>2, <2>3 DEF PlaceInv
<1>. QED
  BY <1>1, <1>2, <1>3, <1>4, <1>5, <1>6, <1>7, <1>8, <1>9, <1>10, PlaceMoves, Zenon

-----------------------------------------------------------------------------
(* The references of the entry *)

\* What the retire functions hold, each with a reference of the entry.
Items == stack \cup batch

\* snapshot_refs counts the items, the directory and the sweep; the entry lives as long.
RefInv ==
  /\ refs = Cardinality(Items) + (IF given THEN 0 ELSE 1) + (IF sweep # "idle" THEN 1 ELSE 0)
  /\ refs = 0 <=> entry # "live"

\* There are finitely many items.
LEMMA ItemsFinite ==
  ASSUME Types
  PROVE  IsFiniteSet(Items) /\ Cardinality(Items) \in Nat /\ (Items = {} <=> Cardinality(Items) = 0)
<1>1. IsFiniteSet(Versions)
  BY FS_Interval, VersionsAssumption DEF Versions
<1>2. Items \subseteq Versions
  BY DEF Items, Types, PlaceTypes
<1>3. IsFiniteSet(Items)
  BY <1>1, <1>2, FS_Subset
<1>. QED  BY <1>3, FS_CardinalityType, FS_EmptySet

\* Whoever uses the entry keeps it.
LEMMA UsersKeep ==
  ASSUME Types, WriterInv, HoldInv, RefInv,
         Held \/ linked \/ Items # {} \/ sweep # "idle" \/ writer # "none"
  PROVE  refs > 0 /\ entry = "live"
<1>1. Cardinality(Items) \in Nat /\ (Items # {} => Cardinality(Items) > 0)
  BY ItemsFinite
<1>2. writer # "none" => Held \/ linked \/ sweep # "idle"
  <2>1. writer \in {"update", "reload", "install", "rollback", "xfr", "sweep"} \/ writer = "none"
    BY DEF Types, WriterTypes
  <2>2. CASE writer = "update"
    BY <2>2 DEF WriterInv, Held
  <2>3. CASE writer \in {"reload", "rollback"}
    BY <2>3 DEF WriterInv, Held
  <2>4. CASE writer = "install"
    BY <2>4 DEF WriterInv, HoldInv
  <2>5. CASE writer = "xfr"
    BY <2>5 DEF WriterInv, Held
  <2>6. CASE writer = "sweep"
    BY <2>6 DEF WriterInv
  <2>. QED  BY <2>1, <2>2, <2>3, <2>4, <2>5, <2>6
<1>3. Items # {} \/ ~given \/ sweep # "idle"
  BY <1>2, Zenon DEF HoldInv
<1>4. refs > 0
  BY <1>1, <1>3 DEF RefInv
<1>5. refs # 0
  BY <1>4
<1>. QED  BY <1>4, <1>5, Zenon DEF RefInv

\* Which steps change the count or what it counts.
LEMMA RefMoves ==
  ASSUME WriterInv, [Next]_vars
  PROVE  \/ UNCHANGED <<refs, entry, stack, batch, given>> /\ (sweep = "idle" <=> sweep' = "idle")
         \/ \E v \in Versions : RetirePush(v) \/ RetireItem(v)
         \/ TakeStack \/ entry_ref_if_live \/ SweepUnref \/ zdir_entry_unref \/ free_zone_db_entry
<1>1. \/ UNCHANGED <<refs, entry, given>>
      \/ \E v \in Versions : RetirePush(v) \/ RetireItem(v)
      \/ entry_ref_if_live \/ SweepUnref \/ zdir_entry_unref \/ free_zone_db_entry
  BY EntryMoves, Zenon DEF evars, Unlock, dbreg_lookup_entry_busy, InstallEnd, Unlink, EvictCheck,
     EvictFails, Evict
<1>2. \/ UNCHANGED <<stack, batch>>
      \/ \E v \in Versions : RetirePush(v) \/ RetireItem(v)
      \/ TakeStack
  BY RetireMoves, Zenon DEF rvars, RetireLeak, RetireFree, free_zone_db_entry
<1>3. (sweep = "idle" <=> sweep' = "idle") \/ entry_ref_if_live \/ SweepUnref
  BY SweepMoves, ZenonT(30) DEF svars, SweepDrop, SweepSkip, Unlock, WriterInv
<1>. QED  BY <1>1, <1>2, <1>3, Zenon

\* Every reference that is taken or given back is one thing more or less to count.
LEMMA NextRef ==
  Types /\ WriterInv /\ HoldInv /\ PlaceInv /\ RefInv /\ [Next]_vars => RefInv'
<1> SUFFICES ASSUME Types, WriterInv, HoldInv, PlaceInv, RefInv, [Next]_vars
             PROVE  RefInv'
  OBVIOUS
<1>. DEFINE card == Cardinality(Items)
            g == IF given THEN 0 ELSE 1
            s == IF sweep # "idle" THEN 1 ELSE 0
<1>0. IsFiniteSet(Items) /\ card \in Nat /\ refs \in Int /\ g \in 0 .. 1 /\ s \in 0 .. 1
      /\ refs = card + g + s
  BY ItemsFinite DEF Types, EntryTypes, RefInv
<1>u. ASSUME refs > 0, zone_entry_unref PROVE refs' = refs - 1 /\ (refs' = 0 <=> entry' # "live")
  <2>1. refs # 0 /\ refs' = refs - 1
    BY <1>u, <1>0 DEF zone_entry_unref
  <2>2. entry = "live"
    BY <2>1, Zenon DEF RefInv
  <2>3. refs = 1 <=> refs' = 0
    BY <1>0, <2>1
  <2>. QED  BY <1>u, <2>1, <2>2, <2>3, Zenon DEF zone_entry_unref
<1>1. CASE UNCHANGED <<refs, entry, stack, batch, given>> /\ (sweep = "idle" <=> sweep' = "idle")
  <2>1. Items' = Items /\ g' = g /\ s' = s
    BY <1>1, Zenon DEF Items
  <2>. QED  BY <1>1, <2>1, Zenon DEF RefInv
<1>2. ASSUME NEW v \in Versions, RetirePush(v) PROVE RefInv'
  <2>1. /\ v \in wlist /\ stack' = stack \cup {v} /\ batch' = batch /\ refs' = refs + 1
        /\ UNCHANGED <<given, entry, sweep>> /\ wpc = "retire"
    BY <1>2, Zenon DEF RetirePush, svars
  <2>2. v \notin Items /\ Items' = Items \cup {v}
    BY <2>1 DEF Items, PlaceInv
  <2>3. Cardinality(Items') = card + 1
    BY <1>0, <2>2, FS_AddElement
  <2>4. writer # "none"
    BY <2>1 DEF WriterInv
  <2>5. refs > 0 /\ entry = "live"
    BY <2>4, UsersKeep
  <2>6. refs' = Cardinality(Items') + g + s /\ refs' # 0
    BY <1>0, <2>1, <2>3, <2>5
  <2>. QED  BY <2>1, <2>5, <2>6, Zenon DEF RefInv
<1>3. ASSUME NEW v \in Versions, RetireItem(v) PROVE RefInv'
  <2>1. v \in batch /\ batch' = batch \ {v} /\ UNCHANGED <<given, sweep>>
    BY <1>3, Zenon DEF RetireItem, svars
  <2>2. CASE PushBack(v)
    <3>1. Items' = Items /\ UNCHANGED <<refs, entry>>
      BY <2>1, <2>2 DEF PushBack, Items
    <3>. QED  BY <2>1, <3>1, Zenon DEF RefInv
  <2>3. CASE Free(v)
    <3>1. stack' = stack /\ zone_entry_unref
      BY <2>3, Zenon DEF Free
    <3>2. v \in Items /\ Items' = Items \ {v}
      BY <2>1, <3>1 DEF Items, PlaceInv
    <3>3. Cardinality(Items') = card - 1
      BY <1>0, <3>2, FS_RemoveElement
    <3>4. refs > 0
      BY <3>2, UsersKeep
    <3>5. refs' = refs - 1 /\ (refs' = 0 <=> entry' # "live")
      BY <1>u, <3>1, <3>4
    <3>6. refs' = Cardinality(Items') + g + s
      BY <1>0, <3>3, <3>5
    <3>. QED  BY <2>1, <3>5, <3>6, Zenon DEF RefInv
  <2>. QED  BY <1>3, <2>2, <2>3, Zenon DEF RetireItem
<1>4. CASE TakeStack
  <2>1. Items' = Items
    BY <1>4 DEF TakeStack, Items
  <2>2. UNCHANGED <<refs, entry, given, sweep>>
    BY <1>4, Zenon DEF TakeStack, evars, svars
  <2>. QED  BY <2>1, <2>2, Zenon DEF RefInv
<1>5. CASE entry_ref_if_live
  <2>1. refs > 0 /\ refs' = refs + 1 /\ sweep = "idle" /\ sweep' = "ref" /\ UNCHANGED <<given, entry, stack, batch>>
    BY <1>5, Zenon DEF entry_ref_if_live, rvars
  <2>2. Items' = Items /\ s = 0 /\ s' = 1 /\ g' = g
    BY <2>1 DEF Items
  <2>3. refs # 0 /\ refs' # 0 /\ refs' = card + g + 1
    BY <1>0, <2>1, <2>2
  <2>. QED  BY <2>1, <2>2, <2>3, Zenon DEF RefInv
<1>6. CASE SweepUnref
  <2>1. sweep = "unref" /\ sweep' = "idle" /\ UNCHANGED <<given, stack, batch>> /\ zone_entry_unref
    BY <1>6, Zenon DEF SweepUnref, rvars
  <2>2. Items' = Items /\ s = 1 /\ s' = 0 /\ g' = g
    BY <2>1 DEF Items
  <2>3. refs > 0
    BY <1>0, <2>2
  <2>4. refs' = refs - 1 /\ (refs' = 0 <=> entry' # "live")
    BY <1>u, <2>1, <2>3
  <2>5. refs' = card + g + 0
    BY <1>0, <2>2, <2>4
  <2>. QED  BY <2>1, <2>2, <2>4, <2>5, Zenon DEF RefInv
<1>7. CASE zdir_entry_unref
  <2>1. ~given /\ given' /\ UNCHANGED <<sweep, stack, batch>> /\ zone_entry_unref
    BY <1>7, Zenon DEF zdir_entry_unref, rvars, svars
  <2>2. Items' = Items /\ g = 1 /\ g' = 0 /\ s' = s
    BY <2>1 DEF Items
  <2>3. refs > 0
    BY <1>0, <2>2
  <2>4. refs' = refs - 1 /\ (refs' = 0 <=> entry' # "live")
    BY <1>u, <2>1, <2>3
  <2>5. refs' = card + 0 + s
    BY <1>0, <2>2, <2>4
  <2>. QED  BY <2>2, <2>4, <2>5, Zenon DEF RefInv
<1>8. CASE free_zone_db_entry
  <2>1. entry = "dying" /\ entry' = "gone" /\ UNCHANGED <<refs, given, sweep, stack, batch>>
    BY <1>8, Zenon DEF free_zone_db_entry, svars
  <2>2. Items' = Items
    BY <2>1 DEF Items
  <2>. QED  BY <2>1, <2>2, Zenon DEF RefInv
<1>. QED  BY <1>1, <1>2, <1>3, <1>4, <1>5, <1>6, <1>7, <1>8, RefMoves, Zenon

-----------------------------------------------------------------------------
(* What is read is not freed *)

\* A thread that reads a version which is not served any more has been in its section
\* since before it was replaced, and the version is not freed.  The incoming transfer
\* compares with a version that is not freed and that no writer waits to free.
ReadInv ==
  /\ \A t \in Threads : tver[t] \in Versions =>
       tver[t] \notin freed /\ (tver[t] = active \/ t \in older[tver[t]])
  /\ xver \in Versions => xver \notin freed /\ xver # wver

\* A thread that reads a version is in a section and has the entry.
LEMMA ReaderHolds ==
  ASSUME Types, ThreadInv, NEW t \in Threads, tver[t] # None
  PROVE  t \in section /\ Held
BY DEF ThreadInv, Threads, Held, Types, ThreadTypes

\* A version on the way to be freed is not the one that is served.
LEMMA RetiredNotActive ==
  ASSUME PlaceInv, NEW v \in Versions, v \in stack \cup batch \cup wlist \cup {wver}
  PROVE  v # active
<1>1. v # None /\ v # Empty
  BY DEF Versions, None, Empty
<1>2. v \in stack \cup batch \cup wlist \cup Waited
  BY <1>1 DEF Waited
<1>3. v \notin Served
  BY <1>2 DEF PlaceInv
<1>. QED  BY <1>1, <1>3 DEF Served

\* What is served is not freed.
LEMMA ActiveNotFreed ==
  ASSUME PlaceInv, active \in Versions
  PROVE  active \notin freed /\ active # wver
<1>1. active # None /\ active # Empty
  BY DEF Versions, None, Empty
<1>2. active \in Served /\ (active = wver => active \in Waited)
  BY <1>1 DEF Served, Waited
<1>. QED  BY <1>2 DEF PlaceInv

\* Which versions a step frees, and why nobody reads them.
LEMMA FreedUnread ==
  ASSUME Types, WriterInv, ThreadInv, HoldInv, PlaceInv, RefInv, ReadInv, [Next]_vars,
         NEW v \in Versions, v \in freed', v \notin freed
  PROVE  /\ \A t \in Threads : tver[t] # v
         /\ xver # v
         /\ UNCHANGED <<tver, xver>>
<1>1. ASSUME NEW w \in Versions, RetireItem(w)
      PROVE  (\A t \in Threads : tver[t] # v) /\ xver # v /\ UNCHANGED <<tver, xver>>
  <2>1. w \in batch /\ UNCHANGED <<tver, xver>> /\ (freed' = freed \/ (freed' = freed \cup {w} /\ SafeToFree(w)))
    BY <1>1, Zenon DEF RetireItem, Free, PushBack, tvars, xvars
  <2>2. v = w /\ older[v] = {} /\ ~is_transferring
    BY <2>1 DEF SafeToFree, Quiet
  <2>3. v # active /\ xver = None /\ v # None
    BY <2>1, <2>2, RetiredNotActive DEF HoldInv, Versions, None
  <2>. QED  BY <2>1, <2>2, <2>3 DEF ReadInv
<1>2. CASE RetireFree
  <2>1. /\ v = wver /\ older[v] \subseteq {wself} /\ UNCHANGED <<tver, xver>>
    BY <1>2 DEF RetireFree, tvars, xvars
  <2>2. v # active
    BY <2>1, RetiredNotActive
  <2>3. \A t \in Threads : tver[t] # v
    <3> SUFFICES ASSUME NEW t \in Threads, tver[t] = v PROVE FALSE
      OBVIOUS
    <3>1. t = wself
      BY <2>1, <2>2 DEF ReadInv
    <3>2. wself # Control /\ v # None
      BY <3>1, ThreadsAssumption DEF Versions, None
    <3>. QED  BY <3>1, <3>2 DEF WriterInv
  <2>. QED  BY <2>1, <2>3, SMTT(30) DEF ReadInv
<1>3. CASE free_zone_db_entry
  <2>1. entry = "dying" /\ UNCHANGED <<tver, xver>>
    BY <1>3, Zenon DEF free_zone_db_entry, tvars, xvars
  <2>2. ~Held
    BY <2>1, UsersKeep
  <2>3. v # None
    BY DEF Versions, None
  <2>4. \A t \in Threads : tver[t] = None
    BY <2>2, ReaderHolds
  <2>5. xver = None
    BY <2>2 DEF HoldInv, Held
  <2>. QED  BY <2>1, <2>3, <2>4, <2>5
<1>4. freed' = freed \/ (\E w \in Versions : RetireItem(w)) \/ RetireFree \/ free_zone_db_entry
  BY RetireMoves, Zenon DEF rvars, RetirePush, RetireLeak, TakeStack
<1>. QED  BY <1>1, <1>2, <1>3, <1>4, Zenon

\* Every step keeps ReadInv.
LEMMA NextRead ==
  Types /\ WriterInv /\ ThreadInv /\ HoldInv /\ PlaceInv /\ RefInv /\ ReadInv /\ [Next]_vars => ReadInv'
<1> SUFFICES ASSUME Types, WriterInv, ThreadInv, HoldInv, PlaceInv, RefInv, ReadInv, [Next]_vars
             PROVE  ReadInv'
  OBVIOUS
<1>0. tver \in [Threads -> 0 .. MaxVer \cup {None}] /\ older \in [Versions -> SUBSET Threads]
  BY DEF Types, ThreadTypes, OlderTypes
<1>1. ASSUME NEW t \in Threads
      PROVE  \/ tver'[t] = tver[t]
             \/ tver'[t] = None
             \/ tver'[t] = active /\ UNCHANGED <<active, freed>>
  <2>1. CASE UNCHANGED tver
    BY <2>1
  <2>2. ASSUME NEW r \in Threads, tver' = [tver EXCEPT ![r] = active], UNCHANGED <<active, freed>>
        PROVE  tver'[t] = tver[t] \/ (tver'[t] = active /\ UNCHANGED <<active, freed>>)
    BY <1>0, <2>2
  <2>3. ASSUME NEW r \in Threads, tver' = [tver EXCEPT ![r] = None]
        PROVE  tver'[t] = tver[t] \/ tver'[t] = None
    BY <1>0, <2>3
  <2>4. \/ UNCHANGED tver
        \/ \E r \in Threads : tver' = [tver EXCEPT ![r] = active] /\ UNCHANGED <<active, freed>>
        \/ \E r \in Threads : tver' = [tver EXCEPT ![r] = None]
    <3>1. ASSUME NEW r \in Readers, Enter(r) \/ Find(r) \/ Load(r) \/ Exit(r)
          PROVE  \/ UNCHANGED tver
                 \/ tver' = [tver EXCEPT ![r] = active] /\ UNCHANGED <<active, freed>>
                 \/ tver' = [tver EXCEPT ![r] = None]
      BY <3>1, Zenon DEF Enter, Find, Load, Exit, zvars, rvars
    <3>2. ASSUME NEW s \in Senders, StartSenderFails(s) \/ SenderEnter(s) \/ SenderLoad(s) \/ SenderDone(s) \/ SenderExit(s)
          PROVE  \/ UNCHANGED tver
                 \/ tver' = [tver EXCEPT ![s] = active] /\ UNCHANGED <<active, freed>>
                 \/ tver' = [tver EXCEPT ![s] = None]
      BY <3>2, Zenon DEF StartSenderFails, SenderEnter, SenderLoad, SenderDone, SenderExit, zvars, rvars
    <3>3. Readers \subseteq Threads /\ Senders \subseteq Threads
      BY DEF Threads
    <3>4. ASSUME NEW r \in Readers, NEW s \in Senders, StartSender(r, s) PROVE UNCHANGED tver
      BY <3>4, Zenon DEF StartSender
    <3>5. UNCHANGED tvars => UNCHANGED tver
      BY DEF tvars
    <3>. QED  BY <3>1, <3>2, <3>3, <3>4, <3>5, ThreadMoves, Zenon
  <2>. QED  BY <2>1, <2>2, <2>3, <2>4, Zenon
<1>2. ASSUME NEW t \in Threads, tver'[t] \in Versions PROVE tver'[t] \notin freed'
  <2>1. tver'[t] # None
    BY <1>2 DEF Versions, None
  <2>2. CASE tver'[t] = tver[t]
    <3>1. tver[t] \notin freed
      BY <1>2, <2>2 DEF ReadInv
    <3>. QED  BY <1>2, <2>2, <3>1, FreedUnread
  <2>3. CASE tver'[t] = active /\ UNCHANGED <<active, freed>>
    BY <1>2, <2>3, ActiveNotFreed
  <2>. QED  BY <1>1, <2>1, <2>2, <2>3
<1>3. ASSUME NEW t \in Threads, tver'[t] \in Versions PROVE tver'[t] = active' \/ t \in older'[tver'[t]]
  <2>1. tver'[t] # None /\ tver'[t] # Empty
    BY <1>3 DEF Versions, None, Empty
  <2>2. CASE tver'[t] = active /\ UNCHANGED <<active, freed>>
    BY <2>2
  <2>3. CASE tver'[t] = tver[t]
    <3>. DEFINE v == tver[t]
    <3>0. v \in Versions /\ v # None /\ v # Empty /\ (v = active \/ t \in older[v]) /\ t \in section /\ Held
      BY <1>3, <2>1, <2>3, ReaderHolds DEF ReadInv
    <3>1. ASSUME NEW keepsecs \in KeepPrev, NEW same \in BOOLEAN, zone_publish_ex(keepsecs, same)
          PROVE  t \in older'[v]
      <4>1. older' = IF active = Empty THEN older ELSE [older EXCEPT ![active] = section]
        BY <3>1, Zenon DEF zone_publish_ex
      <4>2. CASE v = active
        BY <1>0, <3>0, <4>1, <4>2
      <4>3. CASE v # active
        BY <1>0, <3>0, <4>1, <4>3, SMTT(30)
      <4>. QED  BY <4>2, <4>3
    <3>2. ~ free_zone_db_entry
      BY <3>0, UsersKeep DEF free_zone_db_entry
    <3>3. active' = active \/ \E keepsecs \in KeepPrev, same \in BOOLEAN : zone_publish_ex(keepsecs, same)
      BY <3>2, VersionMoves, Zenon DEF zvars, Expire, SweepDrop, Evict
    <3>4. ASSUME t \in older[v] PROVE t \in older'[v]
      <4>1. ASSUME NEW u, LeaveSection(u), u # t PROVE t \in older'[v]
        BY <3>0, <3>4, <4>1 DEF LeaveSection
      <4>2. ASSUME NEW r \in Readers, Exit(r) PROVE LeaveSection(r) /\ r # t
        <5>1. LeaveSection(r) /\ tver' = [tver EXCEPT ![r] = None]
          BY <4>2, Zenon DEF Exit
        <5>. QED  BY <1>0, <2>1, <5>1
      <4>3. ASSUME NEW s \in Senders, SenderExit(s) PROVE LeaveSection(s) /\ s # t
        BY <3>0, <4>3 DEF SenderExit, ThreadInv
      <4>4. CASE UNCHANGED older
        BY <3>4, <4>4
      <4>. QED  BY <3>1, <4>1, <4>2, <4>3, <4>4, OlderMoves, Zenon
    <3>. QED  BY <2>3, <3>0, <3>1, <3>3, <3>4
  <2>. QED  BY <1>1, <2>1, <2>2, <2>3
<1>4. ASSUME xver' \in Versions PROVE xver' \notin freed' /\ xver' # wver'
  <2>0. xver' # None
    BY <1>4 DEF Versions, None
  <2>1. CASE TransferLoad
    <3>1. xver' = active /\ UNCHANGED <<freed, wver>>
      BY <2>1, Zenon DEF TransferLoad, rvars, wvars
    <3>. QED  BY <1>4, <3>1, ActiveNotFreed
  <2>2. CASE xver' = xver
    <3>1. xver \in Versions /\ xver \notin freed /\ xver # wver
      BY <1>4, <2>2 DEF ReadInv
    <3>2. xver \notin freed'
      BY <3>1, FreedUnread
    <3>3. xver # wver'
      <4>1. is_transferring
        BY <2>0, <2>2 DEF HoldInv
      <4>2. ~ \E v \in Versions : RetireWait(v)
        BY <4>1 DEF RetireWait, Quiet
      <4>3. wver' \in {wver, None}
        BY <4>2, WriterMoves, Zenon DEF wvars, Lock, wait_for_active_axfr, Abort, zone_publish_ex, RetirePush,
           RetireLeak, RetireFree, Unlock, SweepDrop
      <4>. QED  BY <2>0, <2>2, <3>1, <4>3
    <3>. QED  BY <2>2, <3>2, <3>3
  <2>3. xver' = xver \/ xver' = None \/ TransferLoad
    BY XferMoves, Zenon DEF xvars, StartTransfer, TransferEnd, CommandFind, CommandEnd
  <2>. QED  BY <2>0, <2>1, <2>2, <2>3
<1>. QED  BY <1>2, <1>3, <1>4 DEF ReadInv

-----------------------------------------------------------------------------
(* The byte totals *)

CountInv ==
  /\ counted = IF evicted THEN {} ELSE Served
  /\ resident = BytesOf(counted)
  /\ retired = BytesOf(Items \cup leaked) + evicted_bytes
  /\ previous = BytesOf(Kept)
  /\ prev_inflight = BytesOf(from_prev) /\ from_prev \subseteq Items
  /\ evict_inflight = evicted_bytes

\* The totals at the start.
LEMMA InitCount == Init => CountInv
<1> SUFFICES ASSUME Init
             PROVE  CountInv
  OBVIOUS
<1>1. BytesOf({}) = 0
  BY BytesOfNone
<1>2. Items \cup leaked = {} /\ Kept = {} /\ from_prev = {} /\ counted = Served /\ ~evicted
  BY DEF Init, Items, Kept, Served
<1>3. resident = BytesOf(counted) /\ retired = 0 /\ previous = 0 /\ prev_inflight = 0 /\ evict_inflight = 0
      /\ evicted_bytes = 0
  BY Zenon DEF Init
<1>4. retired = BytesOf(Items \cup leaked) + evicted_bytes
  BY <1>1, <1>2, <1>3
<1>. QED  BY <1>1, <1>2, <1>3, <1>4, Zenon DEF CountInv

\* The version that is served is the one whose bytes count as resident.
LEMMA NextResident ==
  Types /\ WriterInv /\ EvictInv /\ PlaceInv /\ CountInv /\ [Next]_vars =>
    (counted = (IF evicted THEN {} ELSE Served) /\ resident = BytesOf(counted))'
<1> SUFFICES ASSUME Types, WriterInv, EvictInv, PlaceInv, CountInv, [Next]_vars
             PROVE  counted' = (IF evicted' THEN {} ELSE Served') /\ resident' = BytesOf(counted')
  OBVIOUS
<1>0. counted = (IF evicted THEN {} ELSE Served) /\ resident = BytesOf(counted) /\ BytesOf({}) = 0
      /\ resident \in Nat
  BY BytesOfNone, BytesOfType DEF CountInv
<1>1. CASE UNCHANGED <<active, counted, resident, evicted>>
  BY <1>0, <1>1 DEF Served
<1>2. ASSUME NEW keepsecs \in KeepPrev, NEW same \in BOOLEAN, zone_publish_ex(keepsecs, same)
      PROVE  counted' = (IF evicted' THEN {} ELSE Served') /\ resident' = BytesOf(counted')
  <2>1. /\ active' = nver + 1 /\ nver < MaxVer /\ counted' = (counted \ {active}) \cup {nver + 1}
        /\ resident' = resident + Bytes[nver + 1] - BytesOf(counted \cap {active}) /\ evicted' = evicted
        /\ wpc = "build"
    BY <1>2, Zenon DEF zone_publish_ex, evars
  <2>2. ~evicted
    BY <2>1 DEF WriterInv, EvictInv
  <2>3. counted \ {active} = {} /\ counted \cap {active} = counted
    BY <1>0, <2>2 DEF Served
  <2>4. nver + 1 \in Versions /\ nver + 1 # Empty
    BY <2>1, VersionsAssumption DEF Types, VerTypes, Versions, Empty
  <2>5. counted' = {nver + 1} /\ Served' = {nver + 1}
    BY <2>1, <2>3, <2>4 DEF Served
  <2>6. Bytes[nver + 1] \in Nat /\ BytesOf(counted') = Bytes[nver + 1]
    BY <2>4, <2>5, BytesOfOne, VersionsAssumption
  <2>7. resident' = resident + Bytes[nver + 1] - resident
    BY <1>0, <2>1, <2>3, Zenon
  <2>8. resident' = Bytes[nver + 1]
    BY <1>0, <2>6, <2>7
  <2>. QED  BY <2>1, <2>2, <2>5, <2>6, <2>8
<1>3. CASE Evict
  <2>1. /\ counted' = counted \ {active} /\ resident' = resident - BytesOf(counted \cap {active})
        /\ evicted' /\ evpc = "checked"
    BY <1>3, Zenon DEF Evict, EvictUncounts
  <2>2. ~evicted
    BY <2>1 DEF EvictInv
  <2>3. counted' = {} /\ counted \cap {active} = counted
    BY <1>0, <2>1, <2>2 DEF Served
  <2>5. resident' = resident - resident
    BY <1>0, <2>1, <2>3, Zenon
  <2>4. resident' = 0
    BY <1>0, <2>5
  <2>. QED  BY <1>0, <2>1, <2>3, <2>4
<1>4. CASE free_zone_db_entry
  <2>1. /\ counted' = counted \ {active} /\ resident' = resident - BytesOf(counted \cap {active})
        /\ evicted' = evicted /\ active' = Empty
    BY <1>4, Zenon DEF free_zone_db_entry
  <2>3. counted' = {} /\ counted \cap {active} = counted /\ Served' = {}
    BY <1>0, <2>1 DEF Served
  <2>5. resident' = resident - resident
    BY <1>0, <2>1, <2>3, Zenon
  <2>4. resident' = 0
    BY <1>0, <2>5
  <2>. QED  BY <1>0, <2>1, <2>3, <2>4
<1>5. \/ UNCHANGED <<active, counted, resident, evicted>>
      \/ \E keepsecs \in KeepPrev, same \in BOOLEAN : zone_publish_ex(keepsecs, same)
      \/ Evict \/ free_zone_db_entry
  <2>1. \/ UNCHANGED <<active, counted>>
        \/ \E keepsecs \in KeepPrev, same \in BOOLEAN : zone_publish_ex(keepsecs, same)
        \/ Evict \/ free_zone_db_entry
    BY VersionMoves, Zenon DEF zvars, Expire, SweepDrop
  <2>2. \/ UNCHANGED resident
        \/ \E keepsecs \in KeepPrev, same \in BOOLEAN : zone_publish_ex(keepsecs, same)
        \/ Evict \/ free_zone_db_entry
    BY TotalMoves, Zenon DEF bvars, RetirePush, RetireLeak, RetireItem, SweepDrop
  <2>3. UNCHANGED evicted \/ Evict
    BY EntryMoves, Zenon DEF evars, RetirePush, RetireItem, Unlock, entry_ref_if_live, SweepUnref,
       dbreg_lookup_entry_busy, InstallEnd, Unlink, EvictCheck, EvictFails, zdir_entry_unref, free_zone_db_entry
  <2>. QED  BY <2>1, <2>2, <2>3, Zenon
<1>. QED  BY <1>1, <1>2, <1>3, <1>4, <1>5, Zenon

\* The version kept for a rollback.
LEMMA NextPrevious ==
  Types /\ CountInv /\ [Next]_vars => (previous = BytesOf(Kept))'
<1> SUFFICES ASSUME Types, CountInv, [Next]_vars
             PROVE  previous' = BytesOf(Kept')
  OBVIOUS
<1>0. previous = BytesOf(Kept) /\ BytesOf({}) = 0 /\ previous \in Nat /\ active # None
  BY BytesOfNone, BytesOfType DEF CountInv, Types, VerTypes, None
<1>1. CASE UNCHANGED <<prev, previous>>
  BY <1>0, <1>1 DEF Kept
<1>2. ASSUME NEW keepsecs \in KeepPrev, NEW same \in BOOLEAN, zone_publish_ex(keepsecs, same)
      PROVE  previous' = BytesOf(Kept')
  <2>. DEFINE keep == keepsecs > 0 /\ active # Empty /\ ~same
              dropped == DroppedPrev(keep, keepsecs)
  <2>1. /\ prev' = IF keep THEN active ELSE IF dropped # {} THEN None ELSE prev
        /\ previous' = previous - BytesOf(dropped) + (IF keep THEN Bytes[active] ELSE 0)
    BY <1>2, Zenon DEF zone_publish_ex
  <2>2. dropped \in {{}, Kept} /\ (keep => dropped = Kept)
    BY DEF DroppedPrev, Kept
  <2>3. active # Empty => active \in Versions /\ Bytes[active] \in Nat
    BY VersionsAssumption DEF Types, VerTypes, Versions, Empty
  <2>4. CASE keep
    <3>1. dropped = Kept /\ Kept' = {active} /\ active \in Versions /\ Bytes[active] \in Nat
      BY <1>0, <2>1, <2>2, <2>3, <2>4 DEF Kept
    <3>2. BytesOf(Kept') = Bytes[active]
      BY <3>1, BytesOfOne
    <3>3. previous' = previous - BytesOf(Kept) + Bytes[active]
      BY <2>1, <2>4, <3>1, Zenon
    <3>. QED  BY <1>0, <3>1, <3>2, <3>3, SMTT(30)
  <2>5. CASE ~keep /\ dropped = {}
    <3>1. prev' = prev /\ previous' = previous - BytesOf({}) + 0
      BY <2>1, <2>5, Zenon
    <3>2. previous' = previous
      BY <1>0, <3>1
    <3>. QED  BY <1>0, <3>1, <3>2 DEF Kept
  <2>6. CASE ~keep /\ dropped # {}
    <3>1. prev' = None /\ previous' = previous - BytesOf(Kept) + 0
      BY <2>1, <2>2, <2>6, Zenon
    <3>2. previous' = 0 /\ Kept' = {}
      BY <1>0, <3>1 DEF Kept
    <3>. QED  BY <1>0, <3>2
  <2>. QED  BY <2>4, <2>5, <2>6, Zenon
<1>3. CASE SweepDrop
  <2>1. prev # None /\ prev' = None /\ previous' = previous - Bytes[prev]
    BY <1>3, Zenon DEF SweepDrop
  <2>2. prev \in Versions /\ Kept = {prev} /\ Kept' = {}
    BY <2>1 DEF Types, VerTypes, Kept
  <2>3. BytesOf(Kept) = Bytes[prev]
    BY <2>2, BytesOfOne
  <2>. QED  BY <1>0, <2>1, <2>2, <2>3
<1>4. CASE free_zone_db_entry
  <2>1. prev' = None /\ previous' = previous - BytesOf(Kept)
    BY <1>4, Zenon DEF free_zone_db_entry, Kept
  <2>2. Kept' = {}
    BY <2>1 DEF Kept
  <2>. QED  BY <1>0, <2>1, <2>2
<1>5. \/ UNCHANGED <<prev, previous>>
      \/ \E keepsecs \in KeepPrev, same \in BOOLEAN : zone_publish_ex(keepsecs, same)
      \/ SweepDrop \/ free_zone_db_entry
  <2>1. \/ UNCHANGED prev
        \/ \E keepsecs \in KeepPrev, same \in BOOLEAN : zone_publish_ex(keepsecs, same)
        \/ SweepDrop \/ free_zone_db_entry
    BY VersionMoves, Zenon DEF zvars, Expire, Evict
  <2>2. \/ UNCHANGED previous
        \/ \E keepsecs \in KeepPrev, same \in BOOLEAN : zone_publish_ex(keepsecs, same)
        \/ SweepDrop \/ free_zone_db_entry
    BY TotalMoves, Zenon DEF bvars, RetirePush, RetireLeak, RetireItem, Evict
  <2>. QED  BY <2>1, <2>2, Zenon
<1>. QED  BY <1>1, <1>2, <1>3, <1>4, <1>5, Zenon

\* What was retired or given up on, and what was evicted.
LEMMA NextRetired ==
  Types /\ WriterInv /\ EvictInv /\ PlaceInv /\ CountInv /\ [Next]_vars =>
    (retired = BytesOf(Items \cup leaked) + evicted_bytes /\ evict_inflight = evicted_bytes)'
<1> SUFFICES ASSUME Types, WriterInv, EvictInv, PlaceInv, CountInv, [Next]_vars
             PROVE  retired' = BytesOf(Items' \cup leaked') + evicted_bytes' /\ evict_inflight' = evicted_bytes'
  OBVIOUS
<1>. DEFINE gone == Items \cup leaked
<1>0. /\ retired = BytesOf(gone) + evicted_bytes /\ evict_inflight = evicted_bytes
      /\ BytesOf(gone) \in Nat /\ evicted_bytes \in Nat
  BY BytesOfType DEF CountInv, Types, EntryTypes
<1>1. CASE UNCHANGED <<stack, batch, leaked, retired, evicted_bytes, evict_inflight>>
  <2>1. gone' = gone
    BY <1>1 DEF Items
  <2>. QED  BY <1>0, <1>1, <2>1, Zenon
<1>2. ASSUME NEW v \in Versions, v \notin gone, gone' = gone \cup {v}, retired' = retired + Bytes[v],
             UNCHANGED <<evicted_bytes, evict_inflight>>
      PROVE  retired' = BytesOf(gone') + evicted_bytes' /\ evict_inflight' = evicted_bytes'
  <2>1. BytesOf(gone') = BytesOf(gone) + Bytes[v] /\ Bytes[v] \in Nat
    BY <1>2, BytesOfAdd, VersionsAssumption
  <2>. QED  BY <1>0, <1>2, <2>1
<1>3. ASSUME NEW v \in Versions, RetirePush(v)
      PROVE  retired' = BytesOf(gone') + evicted_bytes' /\ evict_inflight' = evicted_bytes'
  <2>1. /\ v \in wlist /\ stack' = stack \cup {v} /\ retired' = retired + Bytes[v]
        /\ UNCHANGED <<batch, leaked, evicted_bytes, evict_inflight>>
    BY <1>3, Zenon DEF RetirePush
  <2>2. v \notin gone /\ gone' = gone \cup {v}
    BY <2>1 DEF PlaceInv, Items
  <2>. QED  BY <1>2, <2>1, <2>2
<1>4. ASSUME NEW v \in Versions, RetireLeak(v)
      PROVE  retired' = BytesOf(gone') + evicted_bytes' /\ evict_inflight' = evicted_bytes'
  <2>1. /\ v \in wlist \cup Waited /\ leaked' = leaked \cup {v} /\ retired' = retired + Bytes[v]
        /\ UNCHANGED <<stack, batch, evicted_bytes, evict_inflight>>
    BY <1>4, SMTT(30) DEF RetireLeak, WriterInv, Waited, evars
  <2>2. v \notin gone /\ gone' = gone \cup {v}
    BY <2>1 DEF PlaceInv, Items
  <2>. QED  BY <1>2, <2>1, <2>2, SMTT(30)
<1>5. ASSUME NEW v \in Versions, RetireItem(v)
      PROVE  retired' = BytesOf(gone') + evicted_bytes' /\ evict_inflight' = evicted_bytes'
  <2>1. v \in batch /\ batch' = batch \ {v} /\ UNCHANGED <<leaked, evicted_bytes, evict_inflight>>
    BY <1>5, Zenon DEF RetireItem
  <2>2. CASE PushBack(v)
    <3>1. gone' = gone /\ retired' = retired
      BY <2>1, <2>2 DEF PushBack, Items
    <3>. QED  BY <1>0, <2>1, <3>1, Zenon
  <2>3. CASE Free(v)
    <3>1. stack' = stack /\ retired' = retired - Bytes[v]
      BY <2>3, Zenon DEF Free
    <3>2. v \in gone /\ gone' = gone \ {v}
      BY <2>1, <3>1 DEF PlaceInv, Items
    <3>3. BytesOf(gone') = BytesOf(gone) - Bytes[v] /\ Bytes[v] \in Nat
      BY <3>2, BytesOfRemove, VersionsAssumption
    <3>. QED  BY <1>0, <2>1, <3>1, <3>3
  <2>. QED  BY <1>5, <2>2, <2>3, Zenon DEF RetireItem
<1>6. CASE TakeStack
  <2>1. gone' = gone
    BY <1>6 DEF TakeStack, Items
  <2>2. UNCHANGED <<retired, evicted_bytes, evict_inflight>>
    BY <1>6, Zenon DEF TakeStack, bvars, evars
  <2>. QED  BY <1>0, <2>1, <2>2, Zenon
<1>7. CASE Evict
  <2>. DEFINE bytes == BytesOf(counted \cap {active})
  <2>1. /\ retired' = retired + bytes /\ evicted_bytes' = bytes /\ evict_inflight' = evict_inflight + bytes
        /\ UNCHANGED <<stack, batch, leaked>> /\ evpc = "checked"
    BY <1>7, Zenon DEF Evict, rvars
  <2>2. evicted_bytes = 0
    BY <2>1 DEF EvictInv
  <2>3. gone' = gone /\ bytes \in Nat
    BY <2>1, BytesOfType DEF Items
  <2>. HIDE DEF bytes, gone
  <2>4. retired' = BytesOf(gone) + bytes /\ evict_inflight' = bytes
    BY <1>0, <2>1, <2>2, <2>3
  <2>. QED  BY <2>1, <2>3, <2>4, Zenon DEF gone
<1>8. CASE free_zone_db_entry
  <2>1. /\ retired' = retired - evicted_bytes /\ evict_inflight' = evict_inflight - evicted_bytes /\ evicted_bytes' = 0
        /\ UNCHANGED <<stack, batch, leaked>>
    BY <1>8, Zenon DEF free_zone_db_entry
  <2>2. gone' = gone
    BY <2>1 DEF Items
  <2>. HIDE DEF gone
  <2>3. retired' = BytesOf(gone) + 0 /\ evict_inflight' = 0
    BY <1>0, <2>1
  <2>. QED  BY <2>1, <2>2, <2>3, Zenon DEF gone
<1>9. \/ UNCHANGED <<stack, batch, leaked, retired, evicted_bytes, evict_inflight>>
      \/ \E v \in Versions : RetirePush(v) \/ RetireLeak(v) \/ RetireItem(v)
      \/ TakeStack \/ Evict \/ free_zone_db_entry
  <2>1. \/ UNCHANGED <<stack, batch, leaked>>
        \/ \E v \in Versions : RetirePush(v) \/ RetireLeak(v) \/ RetireItem(v)
        \/ TakeStack \/ free_zone_db_entry
    BY RetireMoves, Zenon DEF rvars, RetireFree
  <2>2. \/ UNCHANGED <<retired, evict_inflight>>
        \/ \E v \in Versions : RetirePush(v) \/ RetireLeak(v) \/ RetireItem(v)
        \/ Evict \/ free_zone_db_entry
    BY TotalMoves, Zenon DEF bvars, zone_publish_ex, SweepDrop
  <2>3. UNCHANGED evicted_bytes \/ Evict \/ free_zone_db_entry
    BY EntryMoves, Zenon DEF evars, RetirePush, RetireItem, Unlock, entry_ref_if_live, SweepUnref,
       dbreg_lookup_entry_busy, InstallEnd, Unlink, EvictCheck, EvictFails, zdir_entry_unref
  <2>. QED  BY <2>1, <2>2, <2>3, Zenon
<1>. QED  BY <1>1, <1>3, <1>4, <1>5, <1>6, <1>7, <1>8, <1>9, Zenon

\* What memory pressure has dropped and nobody has freed yet.
LEMMA NextPressed ==
  Types /\ PlaceInv /\ CountInv /\ [Next]_vars =>
    (prev_inflight = BytesOf(from_prev) /\ from_prev \subseteq Items)'
<1> SUFFICES ASSUME Types, PlaceInv, CountInv, [Next]_vars
             PROVE  prev_inflight' = BytesOf(from_prev') /\ from_prev' \subseteq Items'
  OBVIOUS
<1>0. /\ prev_inflight = BytesOf(from_prev) /\ from_prev \subseteq Items /\ prev_inflight \in Nat
      /\ BytesOf({}) = 0
  BY BytesOfType, BytesOfNone DEF CountInv
<1>1. CASE UNCHANGED <<stack, batch, from_prev, prev_inflight>>
  BY <1>0, <1>1 DEF Items
<1>2. ASSUME NEW v \in Versions, RetirePush(v)
      PROVE  prev_inflight' = BytesOf(from_prev') /\ from_prev' \subseteq Items'
  <2>1. v \in wlist /\ stack' = stack \cup {v} /\ batch' = batch
    BY <1>2, Zenon DEF RetirePush
  <2>2. Items' = Items \cup {v} /\ v \notin from_prev
    BY <1>0, <2>1 DEF Items, PlaceInv
  <2>3. CASE from_prev' = from_prev \cup {v} /\ prev_inflight' = prev_inflight + Bytes[v]
    <3>1. BytesOf(from_prev') = BytesOf(from_prev) + Bytes[v]
      BY <2>2, <2>3, BytesOfAdd
    <3>. QED  BY <1>0, <2>2, <2>3, <3>1, SMTT(30)
  <2>4. CASE UNCHANGED <<from_prev, prev_inflight>>
    BY <1>0, <2>2, <2>4
  <2>. QED  BY <1>2, <2>3, <2>4, Zenon DEF RetirePush
<1>3. ASSUME NEW v \in Versions, RetireItem(v)
      PROVE  prev_inflight' = BytesOf(from_prev') /\ from_prev' \subseteq Items'
  <2>1. v \in batch /\ batch' = batch \ {v}
    BY <1>3, Zenon DEF RetireItem
  <2>2. CASE PushBack(v)
    BY <1>0, <2>1, <2>2 DEF PushBack, Items
  <2>3. CASE Free(v)
    <3>1. /\ stack' = stack /\ from_prev' = from_prev \ {v}
          /\ prev_inflight' = prev_inflight - BytesOf(from_prev \cap {v})
      BY <2>3, Zenon DEF Free
    <3>2. from_prev' \subseteq Items'
      BY <1>0, <2>1, <3>1, SMTT(30) DEF PlaceInv, Items
    <3>3. CASE v \in from_prev
      <4>1. from_prev \cap {v} = {v} /\ Bytes[v] \in Nat
        BY <3>3, VersionsAssumption
      <4>2. BytesOf(from_prev \cap {v}) = Bytes[v]
        BY <4>1, BytesOfOne, SMTT(30)
      <4>3. BytesOf(from_prev') = BytesOf(from_prev) - Bytes[v]
        BY <3>1, <3>3, BytesOfRemove
      <4>. QED  BY <1>0, <3>1, <3>2, <4>2, <4>3
    <3>4. CASE v \notin from_prev
      <4>1. from_prev \cap {v} = {} /\ from_prev' = from_prev
        BY <3>1, <3>4
      <4>2. prev_inflight' = prev_inflight - 0
        BY <1>0, <3>1, <4>1, Zenon
      <4>3. prev_inflight' = prev_inflight
        BY <1>0, <4>2
      <4>. QED  BY <1>0, <3>2, <4>1, <4>3, Zenon
    <3>. QED  BY <3>3, <3>4
  <2>. QED  BY <1>3, <2>2, <2>3, Zenon DEF RetireItem
<1>4. CASE TakeStack
  <2>1. Items' = Items
    BY <1>4 DEF TakeStack, Items
  <2>2. UNCHANGED <<from_prev, prev_inflight>>
    BY <1>4, Zenon DEF TakeStack, bvars
  <2>. QED  BY <1>0, <2>1, <2>2, Zenon
<1>5. \/ UNCHANGED <<stack, batch, from_prev, prev_inflight>>
      \/ \E v \in Versions : RetirePush(v) \/ RetireItem(v)
      \/ TakeStack
  <2>1. \/ UNCHANGED <<stack, batch, from_prev>>
        \/ \E v \in Versions : RetirePush(v) \/ RetireItem(v)
        \/ TakeStack
    BY RetireMoves, Zenon DEF rvars, RetireFree, RetireLeak, free_zone_db_entry
  <2>2. \/ UNCHANGED prev_inflight
        \/ \E v \in Versions : RetirePush(v) \/ RetireItem(v)
    BY TotalMoves, Zenon DEF bvars, zone_publish_ex, RetireLeak, SweepDrop, Evict, free_zone_db_entry
  <2>. QED  BY <2>1, <2>2, Zenon
<1>. QED  BY <1>1, <1>2, <1>3, <1>4, <1>5, Zenon

\* Every step keeps the totals.
LEMMA NextCount ==
  Types /\ WriterInv /\ EvictInv /\ PlaceInv /\ CountInv /\ [Next]_vars => CountInv'
BY NextResident, NextPrevious, NextRetired, NextPressed, Zenon DEF CountInv

-----------------------------------------------------------------------------
(* Transfers that are sent *)

\* active_axfr counts the transfers that a writer waits for.
Sending == {s \in Senders : spc[s] \in {"spawned", "section", "sending"}}
AxfrInv == active_axfr = Cardinality(Sending)

\* Every transfer is counted once, from the request to its last message or to its failure.
LEMMA NextAxfr == Types /\ AxfrInv /\ [Next]_vars => AxfrInv'
<1> SUFFICES ASSUME Types, AxfrInv, [Next]_vars
             PROVE  AxfrInv'
  OBVIOUS
<1>0. /\ IsFiniteSet(Sending) /\ Cardinality(Sending) \in Nat /\ active_axfr = Cardinality(Sending)
      /\ spc \in [Senders -> {"idle", "spawned", "section", "sending", "leaving"}]
  <2>1. Sending \subseteq Senders
    BY DEF Sending
  <2>. QED  BY <2>1, FS_Subset, FS_CardinalityType, ThreadsAssumption DEF Types, ThreadTypes, AxfrInv
<1>1. ASSUME UNCHANGED <<spc, active_axfr>> PROVE AxfrInv'
  BY <1>1, Zenon DEF AxfrInv, Sending
<1>2. ASSUME NEW s \in Senders, spc[s] = "idle", active_axfr' = active_axfr + 1,
             spc' = [spc EXCEPT ![s] = "spawned"]
      PROVE  AxfrInv'
  <2>1. s \notin Sending /\ Sending' = Sending \cup {s}
    BY <1>0, <1>2 DEF Sending
  <2>. QED  BY <1>0, <1>2, <2>1, FS_AddElement DEF AxfrInv
<1>3. ASSUME NEW s \in Senders, spc[s] \in {"spawned", "sending"}, active_axfr' = active_axfr - 1,
             NEW pc \in {"idle", "leaving"}, spc' = [spc EXCEPT ![s] = pc]
      PROVE  AxfrInv'
  <2>1. s \in Sending /\ Sending' = Sending \ {s}
    BY <1>0, <1>3 DEF Sending
  <2>. QED  BY <1>0, <1>3, <2>1, FS_RemoveElement DEF AxfrInv
<1>4. ASSUME NEW s \in Senders, UNCHANGED active_axfr, NEW pc, spc' = [spc EXCEPT ![s] = pc],
             (spc[s] \in {"spawned", "section", "sending"}) <=> (pc \in {"spawned", "section", "sending"})
      PROVE  AxfrInv'
  <2>1. Sending' = Sending
    BY <1>0, <1>4 DEF Sending
  <2>. QED  BY <1>4, <2>1, Zenon DEF AxfrInv
<1>5. ASSUME NEW r \in Readers, NEW s \in Senders, StartSender(r, s) PROVE AxfrInv'
  BY <1>2, <1>5, ZenonT(30) DEF StartSender
<1>6. ASSUME NEW s \in Senders, StartSenderFails(s) \/ SenderDone(s) PROVE AxfrInv'
  BY <1>3, <1>6 DEF StartSenderFails, SenderDone
<1>7. ASSUME NEW s \in Senders, SenderEnter(s) PROVE AxfrInv'
  BY <1>4, <1>7, ZenonT(30) DEF SenderEnter
<1>8. ASSUME NEW s \in Senders, SenderLoad(s) PROVE AxfrInv'
  BY <1>4, <1>8, ZenonT(30) DEF SenderLoad
<1>9. ASSUME NEW s \in Senders, SenderExit(s) PROVE AxfrInv'
  BY <1>4, <1>9, ZenonT(30) DEF SenderExit
<1>10. ASSUME NEW r \in Readers, Enter(r) \/ Find(r) \/ Load(r) \/ Exit(r) PROVE AxfrInv'
  BY <1>1, <1>10, Zenon DEF Enter, Find, Load, Exit
<1>11. CASE UNCHANGED tvars
  BY <1>1, <1>11, Zenon DEF tvars
<1>. QED  BY <1>5, <1>6, <1>7, <1>8, <1>9, <1>10, <1>11, ThreadMoves, Zenon

-----------------------------------------------------------------------------
(* The invariant and the theorems *)

Inv ==
  /\ Types /\ WriterInv /\ ThreadInv /\ HoldInv /\ EvictInv /\ PlaceInv /\ RefInv /\ ReadInv
  /\ CountInv /\ AxfrInv

\* The initial state satisfies the invariant.
LEMMA InitInv == Init => Inv
<1> SUFFICES ASSUME Init
             PROVE  Inv
  OBVIOUS
<1>1. Types /\ WriterInv /\ PlaceInv /\ CountInv
  BY InitTypes, InitWriter, InitPlace, InitCount
<1>2. \A t \in Threads : tver[t] = None
  BY DEF Init
<1>3. ThreadInv
  BY <1>2 DEF Init, ThreadInv, Threads
<1>4. ~given /\ ~busy /\ ~is_transferring /\ xver = None
  BY DEF Init
<1>5. HoldInv
  BY <1>4 DEF HoldInv
<1>6. EvictInv
  BY DEF Init, EvictInv
<1>7. RefInv
  <2>1. Items = {} /\ refs = 1 /\ ~given /\ sweep = "idle" /\ entry = "live"
    BY DEF Init, Items
  <2>2. Cardinality(Items) = 0
    BY <2>1, FS_EmptySet
  <2>. QED  BY <2>1, <2>2 DEF RefInv
<1>8. ReadInv
  BY <1>2, <1>4 DEF ReadInv, Versions, None
<1>9. AxfrInv
  <2>1. Sending = {} /\ active_axfr = 0
    BY DEF Init, Sending
  <2>. QED  BY <2>1, FS_EmptySet DEF AxfrInv
<1>. QED  BY <1>1, <1>3, <1>5, <1>6, <1>7, <1>8, <1>9 DEF Inv

\* Every step keeps it.
LEMMA NextInv == Inv /\ [Next]_vars => Inv'
BY NextTypes, NextWriter, NextThread, NextHold, NextEvict, NextPlace, NextRef, NextRead, NextCount,
   NextAxfr, Zenon DEF Inv

\* The invariant holds in every reachable state.
LEMMA InvHolds == Spec => []Inv
BY InitInv, NextInv, PTL DEF Spec

\* The counters of an entry (snapshot_refs, active_axfr, the byte totals) never go below
\* zero and everything has its type, whatever the threads of the server do.
THEOREM TypeCorrect == Spec => []TypeOK
<1>1. Inv => TypeOK
  <2> SUFFICES ASSUME Inv
               PROVE  TypeOK
    OBVIOUS
  <2>1. /\ resident \in Nat /\ retired \in Nat /\ previous \in Nat /\ prev_inflight \in Nat
        /\ evict_inflight \in Nat /\ evicted_bytes \in Nat
    BY BytesOfType DEF Inv, CountInv, Types, EntryTypes
  <2>2. refs \in Nat
    BY ItemsFinite DEF Inv, RefInv
  <2>3. active_axfr \in Nat
    BY FS_Subset, FS_CardinalityType, ThreadsAssumption DEF Inv, AxfrInv, Sending
  <2>. QED
    BY <2>1, <2>2, <2>3, Zenon DEF TypeOK, Inv, Types, VerTypes, PlaceTypes, EntryTypes, WriterTypes,
       SweepTypes, ThreadTypes, XferTypes, OlderTypes
<1>. QED  BY <1>1, InvHolds, PTL

\* No version is used after zone_retire_process(), zone_version_retire() or
\* free_zone_db_entry() freed it, and nobody has the entry when it is freed.
THEOREM UseSafe == Spec => []NoUseAfterFree
<1>1. Inv => NoUseAfterFree
  <2> SUFFICES ASSUME Inv
               PROVE  NoUseAfterFree
    OBVIOUS
  <2>0. Types /\ WriterInv /\ HoldInv /\ PlaceInv /\ RefInv /\ ReadInv
    BY DEF Inv
  <2>1. freed \subseteq Versions /\ None \notin freed /\ Empty \notin freed
    BY <2>0 DEF Types, PlaceTypes, Versions, None, Empty
  <2>2. \A t \in Threads : tver[t] \notin freed
    BY <2>0, <2>1 DEF ReadInv
  <2>3. xver \notin freed
    BY <2>0, <2>1 DEF ReadInv
  <2>4. active \notin freed /\ prev \notin freed /\ wver \notin freed
    BY <2>0, <2>1 DEF PlaceInv, Served, Kept, Waited
  <2>5. (wlist \cup stack \cup batch) \cap freed = {}
    BY <2>0 DEF PlaceInv
  <2>6. ({tver[t] : t \in Threads} \cup {xver, active, prev, wver} \cup wlist \cup stack \cup batch)
          \cap freed = {}
    BY <2>2, <2>3, <2>4, <2>5
  <2>7. Held \/ stack \cup batch # {} \/ sweep # "idle" \/ writer # "none" => entry # "gone"
    BY <2>0, UsersKeep DEF Items
  <2>. QED  BY <2>6, <2>7, Zenon DEF NoUseAfterFree
<1>. QED  BY <1>1, InvHolds, PTL

\* Every version that was published is served, kept, on its way to be freed, given up or
\* freed, and nothing of that twice; the totals of the cache manager are exact.
THEOREM VersionsAccounted == Spec => []Accounted
<1>1. Inv => OneOwner
  <2> SUFFICES ASSUME Inv, NEW v \in 1 .. nver
               PROVE  Cardinality({i \in 1 .. 8 : v \in <<{active}, {prev}, stack, batch, wlist, {wver},
                                                          leaked, freed>>[i]}) = 1
    BY DEF OneOwner
  <2>. DEFINE T == <<{active}, {prev}, stack, batch, wlist, {wver}, leaked, freed>>
  <2>0. PlaceInv /\ v # None /\ v # Empty
    BY DEF Inv, Types, VerTypes, None, Empty
  <2>1. \E k \in 1 .. 8 : \A i \in 1 .. 8 : v \in T[i] <=> i = k
    <3>1. /\ v \in T[1] <=> v \in Served
          /\ v \in T[2] <=> v \in Kept
          /\ v \in T[6] <=> v \in Waited
      BY <2>0 DEF Served, Kept, Waited
    <3>2. T[3] = stack /\ T[4] = batch /\ T[5] = wlist /\ T[7] = leaked /\ T[8] = freed
      OBVIOUS
    <3>3. v \in Served \cup Kept \cup stack \cup batch \cup wlist \cup Waited \cup leaked \cup freed
      BY <2>0 DEF PlaceInv
    <3>. HIDE DEF T
    <3>4. \A i \in 1 .. 8 : i \in {1, 2, 3, 4, 5, 6, 7, 8}
      OBVIOUS
    <3>5. CASE v \in Served
      BY <2>0, <3>1, <3>2, <3>4, <3>5 DEF PlaceInv
    <3>6. CASE v \in Kept
      BY <2>0, <3>1, <3>2, <3>4, <3>6 DEF PlaceInv
    <3>7. CASE v \in stack
      BY <2>0, <3>1, <3>2, <3>4, <3>7 DEF PlaceInv
    <3>8. CASE v \in batch
      BY <2>0, <3>1, <3>2, <3>4, <3>8 DEF PlaceInv
    <3>9. CASE v \in wlist
      BY <2>0, <3>1, <3>2, <3>4, <3>9, SMTT(30) DEF PlaceInv
    <3>10. CASE v \in Waited
      BY <2>0, <3>1, <3>2, <3>4, <3>10 DEF PlaceInv
    <3>11. CASE v \in leaked
      BY <2>0, <3>1, <3>2, <3>4, <3>11 DEF PlaceInv
    <3>12. CASE v \in freed
      BY <2>0, <3>1, <3>2, <3>4, <3>12 DEF PlaceInv
    <3>. QED  BY <3>3, <3>5, <3>6, <3>7, <3>8, <3>9, <3>10, <3>11, <3>12
  <2>2. PICK k \in 1 .. 8 : \A i \in 1 .. 8 : v \in T[i] <=> i = k
    BY <2>1
  <2>3. {i \in 1 .. 8 : v \in T[i]} = {k}
    BY <2>2
  <2>. QED  BY <2>3, FS_Singleton, ZenonT(30)
<1>2. Inv => BytesExact
  BY DEF Inv, CountInv, BytesExact, Items, Served, Kept
<1>. QED  BY <1>1, <1>2, InvHolds, PTL DEF Accounted

\* The cache manager never evicts a zone whose latest change only the memory has
\* (dbreg_evict_locked() looks at it with writer_lock).
THEOREM UpdateKept == Spec => []UpdateStays
<1>1. Inv => UpdateStays
  BY DEF Inv, EvictInv, UpdateStays
<1>. QED  BY <1>1, InvHolds, PTL

\* No writer publishes into an entry that was evicted: an UPDATE that waited for
\* writer_lock looks again (handle_dynamic_update()).
THEOREM EvictedFinal == Spec => EvictedIsFinal
<1>1. Inv /\ [Next]_vars => [evicted /\ entry # "gone" => active' \in {active, Empty}]_vars
  <2> SUFFICES ASSUME Inv, [Next]_vars, evicted
               PROVE  active' \in {active, Empty}
    BY SMTT(30)
  <2>1. ~ \E keepsecs \in KeepPrev, same \in BOOLEAN : zone_publish_ex(keepsecs, same)
    BY DEF Inv, WriterInv, EvictInv, zone_publish_ex
  <2>. QED  BY <2>1, VersionMoves, Zenon DEF zvars, Expire, SweepDrop, Evict, free_zone_db_entry
<1>. QED  BY <1>1, InvHolds, PTL DEF Spec, EvictedIsFinal
=============================================================================
