---------------------------- MODULE ServerProofs ----------------------------
(***************************************************************************)
(* Two tables of the workers, for every size of them.                      *)
(*                                                                         *)
(* The counters, the free list and the deadline bound of the park table    *)
(* fit its entries after every sequence of calls, for every set of zones   *)
(* and timeouts.  The invariants hold only together: a scan that marks     *)
(* entries ends when it has seen nwait entries that wait (Seen), so it     *)
(* reaches all of them because the counter is exact (SeenAll), and the     *)
(* bound of the deadlines is right because the scan reached all of them.   *)
(*                                                                         *)
(* The free list of TCP contexts is exact for any number of threads and of *)
(* exchanges.  The list is described by a chain: the contexts in the order *)
(* in which the head reaches them.                                         *)
(***************************************************************************)
EXTENDS ParkTable, TcpPool, FiniteSetTheorems, SequenceTheorems, NaturalsInduction, WellFoundedInduction, TLAPS

IndInv == TypeOK /\ CountersExact /\ FreeExact /\ MinSound /\ DonesAhead

-----------------------------------------------------------------------------
(* Lemmas about finite sets and minima. *)

\* The indexes of the table are finite, and so are all sets of entries.
LEMMA IdxFinite ==
  /\ IsFiniteSet(Idx)
  /\ Cardinality(Idx) = Cap
  /\ \A S \in SUBSET Idx : IsFiniteSet(S) /\ Cardinality(S) \in 0..Cap
<1>1. Cap \in Nat \ {0} /\ 0 \in Int /\ Cap - 1 \in Int
  BY TableAssumption
<1>2. IsFiniteSet(Idx) /\ Cardinality(Idx) = Cap
  BY <1>1, FS_Interval DEF Idx
<1>3. ASSUME NEW S \in SUBSET Idx
      PROVE  IsFiniteSet(S) /\ Cardinality(S) \in 0..Cap
  <2>1. IsFiniteSet(S) /\ Cardinality(S) <= Cap
    BY <1>2, FS_Subset
  <2>2. Cardinality(S) \in Nat
    BY <2>1, FS_CardinalityType
  <2>. QED  BY <1>1, <2>1, <2>2
<1>. QED  BY <1>2, <1>3

\* Taking a part of a finite set away takes its number of elements away.
LEMMA PartCardinality ==
  ASSUME NEW S, IsFiniteSet(S), NEW W \in SUBSET S
  PROVE  /\ IsFiniteSet(W) /\ IsFiniteSet(S \ W)
         /\ Cardinality(S \ W) = Cardinality(S) - Cardinality(W)
<1>1. IsFiniteSet(W) /\ IsFiniteSet(S \ W)
  BY FS_Subset, S \ W \in SUBSET S
<1>2. Cardinality((S \ W) \cup W) = Cardinality(S \ W) + Cardinality(W) - Cardinality((S \ W) \cap W)
  BY <1>1, FS_Union
<1>3. (S \ W) \cup W = S /\ (S \ W) \cap W = {}
  OBVIOUS
<1>4. Cardinality(S) \in Nat /\ Cardinality(W) \in Nat /\ Cardinality(S \ W) \in Nat
  BY <1>1, FS_CardinalityType
<1>5. Cardinality({}) = 0
  BY FS_EmptySet
<1>6. Cardinality(S) = Cardinality(S \ W) + Cardinality(W) - 0
  BY <1>2, <1>3, <1>5, Zenon
<1>. QED  BY <1>1, <1>4, <1>6

\* A set of natural numbers that is not empty has a smallest element.
LEMMA NatMinimum ==
  ASSUME NEW D \in SUBSET Nat, D # {}
  PROVE  \E d \in D : \A e \in D : d <= e
<1>1. PICK d \in D : \A e \in D : ~ (<<e, d>> \in OpToRel(<, Nat))
  BY NatLessThanWellFounded, WFMin
<1>2. ASSUME NEW e \in D PROVE d <= e
  <2>1. d \in Nat /\ e \in Nat
    OBVIOUS
  <2>2. e < d => <<e, d>> \in OpToRel(<, Nat)
    BY <2>1 DEF OpToRel
  <2>3. ~ (e < d)
    BY <1>1, <2>2, Zenon
  <2>. QED  BY <2>1, <2>3
<1>. QED  BY <1>2

\* The scans of dns_park.c reach every entry that waits if the counter is exact:
\* before the last of them fewer than nwait were seen.
LEMMA SeenAll ==
  ASSUME TypeOK, CountersExact
  PROVE  Seen(nwait) = Waits
<1>1. SUFFICES ASSUME NEW i \in Waits
               PROVE  Cardinality({j \in Waits : j < i}) < nwait
  BY DEF Seen
<1>. DEFINE L == {j \in Waits : j < i}
<1>2. Waits \in SUBSET Idx /\ IsFiniteSet(Waits)
  BY IdxFinite DEF Waits
<1>3. L \in SUBSET Waits /\ i \notin L
  BY DEF Waits, Idx
<1>4. Cardinality(L) <= Cardinality(Waits) /\ Cardinality(Waits) # Cardinality(L)
  BY <1>2, <1>3, FS_Subset
<1>5. Cardinality(L) \in Nat /\ Cardinality(Waits) \in Nat
  BY <1>2, <1>3, FS_Subset, FS_CardinalityType
<1>. QED  BY <1>4, <1>5 DEF CountersExact

\* The bound that park_expire() computes is a lower bound of the deadlines.
LEMMA MinDeadlineBound ==
  ASSUME TypeOK, NEW W \in SUBSET Idx
  PROVE  MinDeadline(W) \in Nat /\ \A i \in W : MinDeadline(W) <= deadline[i]
<1>1. CASE W = {}
  BY <1>1, TableAssumption DEF MinDeadline
<1>2. CASE W # {}
  <2>. DEFINE D == {deadline[i] : i \in W}
  <2>1. D \in SUBSET Nat /\ D # {}
    BY <1>2 DEF TypeOK
  <2>2. PICK d \in D : \A e \in D : d <= e
    BY <2>1, NatMinimum, ZenonT(30)
  <2>3. \A i \in W : d <= deadline[i]
    BY <2>2
  <2>4. MinDeadline(W) \in D /\ \A i \in W : MinDeadline(W) <= deadline[i]
    BY <1>2, <2>3, Zenon DEF MinDeadline
  <2>. QED  BY <2>1, <2>4
<1>. QED  BY <1>1, <1>2

-----------------------------------------------------------------------------
(* Lemmas about the parts of the operations. *)

\* park_wake(), park_fail(), park_wake_all() and park_expire() keep the counters
\* exact: what leaves the state WAIT is counted out of one and into the other.
LEMMA FinishCounts ==
  ASSUME TypeOK, CountersExact,
         NEW W \in SUBSET Waits, NEW how \in {"READY", "TIMEOUT"}, Finish(W, how)
  PROVE  /\ st' \in [Idx -> States]
         /\ Waits' = Waits \ W /\ Dones' = Dones \cup W /\ Frees' = Frees
         /\ nwait' \in 0..Cap /\ nready' \in 0..Cap
         /\ CountersExact'
<1>1. st' \in [Idx -> States]
  BY DEF TypeOK, Finish, States, Waits
<1>2. Waits' = Waits \ W /\ Dones' = Dones \cup W /\ Frees' = Frees
  BY DEF TypeOK, Finish, Waits, Dones, Frees
<1>3. Waits \in SUBSET Idx /\ W \in SUBSET Idx /\ Dones \in SUBSET Idx /\ Dones \cup W \in SUBSET Idx
  BY DEF Waits, Dones
<1>4. IsFiniteSet(Waits) /\ IsFiniteSet(W) /\ IsFiniteSet(Dones)
  BY <1>3, IdxFinite
<1>5. Cardinality(Waits \ W) = Cardinality(Waits) - Cardinality(W)
  BY <1>4, PartCardinality
<1>6. Cardinality(Dones \cup W) = Cardinality(Dones) + Cardinality(W)
  <2>1. Dones \cap W = {}
    BY DEF Waits, Dones
  <2>2. Cardinality(Dones \cup W) = Cardinality(Dones) + Cardinality(W) - Cardinality(Dones \cap W)
    BY <1>4, FS_Union
  <2>3. Cardinality(Dones \cup W) = Cardinality(Dones) + Cardinality(W) - 0
    BY <2>1, <2>2, FS_EmptySet, Zenon
  <2>4. Cardinality(Dones) \in Nat /\ Cardinality(W) \in Nat
    BY <1>4, FS_CardinalityType
  <2>. QED  BY <2>3, <2>4
<1>7. CountersExact'
  <2>1. nwait' = nwait - Cardinality(W) /\ nready' = nready + Cardinality(W)
    BY DEF Finish
  <2>. QED  BY <1>2, <1>5, <1>6, <2>1, Zenon DEF CountersExact
<1>8. nwait' \in 0..Cap /\ nready' \in 0..Cap
  <2>1. Waits' \in SUBSET Idx /\ Dones' \in SUBSET Idx
    BY <1>2, <1>3
  <2>2. Cardinality(Waits') \in 0..Cap /\ Cardinality(Dones') \in 0..Cap
    BY <2>1, IdxFinite
  <2>. QED  BY <1>7, <2>2 DEF CountersExact
<1>. QED  BY <1>1, <1>2, <1>7, <1>8

\* park_release() of an entry in use takes it out of its counter and puts its
\* index on the free list; the bound stays below the deadlines that are left.
LEMMA ReleaseKeeps ==
  ASSUME TypeOK, CountersExact, FreeExact, MinSound,
         NEW i \in Idx, st[i] # "FREE", park_release(i), deadline' = deadline
  PROVE  /\ st' \in [Idx -> States]
         /\ Waits' = Waits \ {i} /\ Dones' = Dones \ {i}
         /\ free' \in Seq(Idx)
         /\ nwait' \in 0..Cap /\ nready' \in 0..Cap
         /\ minDl' \in Nat
         /\ CountersExact' /\ FreeExact' /\ MinSound'
<1>1. st' \in [Idx -> States] /\ free' \in Seq(Idx)
  BY DEF TypeOK, park_release, States
<1>2. Waits' = Waits \ {i} /\ Dones' = Dones \ {i} /\ Frees' = Frees \cup {i}
  BY DEF TypeOK, park_release, Waits, Dones, Frees
<1>3. IsFiniteSet(Waits) /\ IsFiniteSet(Dones)
  BY IdxFinite DEF Waits, Dones
<1>4. CountersExact'
  <2>1. CASE st[i] = "WAIT"
    <3>1. i \in Waits /\ i \notin Dones
      BY <2>1 DEF Waits, Dones
    <3>2. Cardinality(Waits \ {i}) = Cardinality(Waits) - 1 /\ Dones \ {i} = Dones
      BY <1>3, <3>1, FS_RemoveElement, ZenonT(30)
    <3>. QED  BY <1>2, <2>1, <3>2, ZenonT(30) DEF CountersExact, park_release
  <2>2. CASE st[i] # "WAIT"
    <3>1. i \notin Waits /\ i \in Dones
      BY <2>2 DEF Waits, Dones, TypeOK, States
    <3>2. Cardinality(Dones \ {i}) = Cardinality(Dones) - 1 /\ Waits \ {i} = Waits
      BY <1>3, <3>1, FS_RemoveElement, ZenonT(30)
    <3>. QED  BY <1>2, <2>2, <3>2, ZenonT(30) DEF CountersExact, park_release
  <2>. QED  BY <2>1, <2>2
<1>5. nwait' \in 0..Cap /\ nready' \in 0..Cap
  <2>1. Waits' \in SUBSET Idx /\ Dones' \in SUBSET Idx
    BY <1>2 DEF Waits, Dones
  <2>2. Cardinality(Waits') \in 0..Cap /\ Cardinality(Dones') \in 0..Cap
    BY <2>1, IdxFinite
  <2>. QED  BY <1>4, <2>2 DEF CountersExact
<1>6. FreeExact'
  <2>1. Len(free') = Len(free) + 1 /\ free'[Len(free) + 1] = i
        /\ \A k \in 1..Len(free) : free'[k] = free[k]
    BY DEF TypeOK, park_release
  <2>2. Len(free) \in Nat /\ i \notin Frees
    BY DEF TypeOK, Frees
  <2>3. 1..Len(free') = (1..Len(free)) \cup {Len(free) + 1}
    BY <2>1, <2>2
  <2>4. \A k \in 1..Len(free') : free'[k] \in Frees'
    BY <1>2, <2>1, <2>3 DEF FreeExact
  <2>5. \A k, l \in 1..Len(free') : free'[k] = free'[l] => k = l
    BY <2>1, <2>2, <2>3 DEF FreeExact
  <2>6. \A j \in Frees' : \E k \in 1..Len(free') : free'[k] = j
    BY <1>2, <2>1, <2>3 DEF FreeExact
  <2>. QED  BY <2>4, <2>5, <2>6 DEF FreeExact
<1>7. minDl' \in Nat
  BY TableAssumption DEF TypeOK, park_release
<1>8. MinSound'
  <2>1. CASE minDl' = minDl
    BY <1>2, <2>1 DEF MinSound
  <2>2. CASE st[i] = "WAIT" /\ nwait = 1
    <3>1. i \in Waits
      BY <2>2 DEF Waits
    <3>2. Cardinality(Waits \ {i}) = Cardinality(Waits) - 1 /\ Cardinality(Waits) = 1
      BY <1>3, <2>2, <3>1, FS_RemoveElement, ZenonT(30) DEF CountersExact
    <3>3. Waits \ {i} = {}
      <4>1. IsFiniteSet(Waits \ {i}) /\ Cardinality(Waits \ {i}) = 0
        BY <1>3, <3>1, <3>2, FS_RemoveElement
      <4>. QED  BY <4>1, FS_EmptySet
    <3>. QED  BY <1>2, <3>3 DEF MinSound
  <2>. QED  BY <2>1, <2>2 DEF park_release
<1>. QED  BY <1>1, <1>2, <1>4, <1>5, <1>6, <1>7, <1>8

-----------------------------------------------------------------------------
(* The invariant. *)

LEMMA InitIndInv == Init => IndInv
<1>. SUFFICES ASSUME Init PROVE IndInv
  OBVIOUS
<1>1. TypeOK
  BY TableAssumption DEF Init, TypeOK, Idx, States, NoService
<1>2. Waits = {} /\ Dones = {} /\ Frees = Idx
  BY DEF Init, Waits, Dones, Frees
<1>3. CountersExact
  BY <1>2, FS_EmptySet DEF Init, CountersExact
<1>4. FreeExact
  <2>1. Len(free) = Cap /\ \A k \in 1..Cap : free[k] = Cap - k
    BY TableAssumption DEF Init
  <2>2. \A j \in Idx : Cap - j \in 1..Cap /\ Cap - (Cap - j) = j
    BY TableAssumption DEF Idx
  <2>3. \A k \in 1..Cap : Cap - k \in Idx
    BY TableAssumption DEF Idx
  <2>4. \A k, l \in 1..Cap : Cap - k = Cap - l => k = l
    BY TableAssumption
  <2>. QED  BY <1>2, <2>1, <2>2, <2>3, <2>4 DEF FreeExact
<1>5. MinSound /\ DonesAhead
  BY <1>2 DEF MinSound, DonesAhead
<1>. QED  BY <1>1, <1>3, <1>4, <1>5 DEF IndInv

\* The entry that park_take() gives out is free, and it is out of the free list.
LEMMA TakeKeeps ==
  ASSUME IndInv, NEW z \in Zones, NEW t \in Timeouts, park_take(z, t)
  PROVE  IndInv'
<1>. DEFINE i == free[Len(free)]
<1>. USE DEF IndInv, Top
<1>1. Len(free) \in Nat \ {0} /\ i \in Idx /\ st[i] = "FREE"
  BY DEF TypeOK, park_take, FreeExact, Frees
<1>2. t \in Nat /\ now \in Nat /\ now + t \in Nat
  BY TableAssumption DEF TypeOK
<1>3. /\ Len(free') = Len(free) - 1 /\ free' \in Seq(Idx)
      /\ \A k \in 1..Len(free') : free'[k] = free[k]
  <2>. DEFINE n == Len(free) - 1
  <2>1. free \in Seq(Idx) /\ n \in 0..Len(free) /\ free' = SubSeq(free, 1, n)
    BY <1>1 DEF TypeOK, park_take
  <2>2. \A k \in 1..n : free[k] \in Idx
    BY <2>1
  <2>3. /\ free' \in Seq(Idx)
        /\ Len(free') = IF 1 <= n THEN n - 1 + 1 ELSE 0
        /\ \A k \in 1..(n - 1 + 1) : free'[k] = free[1 + k - 1]
    BY <2>1, <2>2, SubSeqProperties
  <2>4. n \in Nat /\ n - 1 + 1 = n /\ \A k \in 1..n : 1 + k - 1 = k
    BY <2>1
  <2>5. Len(free') = n
    <3>1. Len(free') = IF 1 <= n THEN n ELSE 0
      BY <2>3, <2>4, Zenon
    <3>2. CASE 1 <= n
      BY <3>1, <3>2, Zenon
    <3>3. CASE ~ (1 <= n)
      <4>1. n = 0
        BY <2>4, <3>3
      <4>. QED  BY <3>1, <3>3, <4>1, Zenon
    <3>. QED  BY <3>2, <3>3
  <2>6. \A k \in 1..n : free'[k] = free[k]
    BY <2>3, <2>4, Zenon
  <2>. QED  BY <2>3, <2>5, <2>6
<1>4. Waits' = Waits \cup {i} /\ Dones' = Dones /\ Frees' = Frees \ {i}
  BY <1>1 DEF TypeOK, park_take, Waits, Dones, Frees
<1>5. st' \in [Idx -> States] /\ zone' \in [Idx -> Zones] /\ deadline' \in [Idx -> Nat]
  BY <1>1, <1>2 DEF TypeOK, park_take, States
<1>6. CountersExact'
  <2>1. IsFiniteSet(Waits) /\ i \notin Waits
    BY <1>1, IdxFinite DEF Waits
  <2>2. Cardinality(Waits \cup {i}) = Cardinality(Waits) + 1
    BY <2>1, FS_AddElement, ZenonT(30)
  <2>. QED  BY <1>4, <2>2 DEF CountersExact, park_take
<1>7. nwait' \in 0..Cap /\ nready' \in 0..Cap
  <2>1. Waits' \in SUBSET Idx /\ Dones' \in SUBSET Idx
    BY <1>1, <1>4 DEF Waits, Dones
  <2>2. Cardinality(Waits') \in 0..Cap /\ Cardinality(Dones') \in 0..Cap
    BY <2>1, IdxFinite
  <2>. QED  BY <1>6, <2>2 DEF CountersExact
<1>8. TypeOK'
  BY <1>2, <1>3, <1>5, <1>7, ZenonT(30) DEF TypeOK, park_take, Bound
<1>9. FreeExact'
  <2>1. 1..Len(free) = (1..Len(free')) \cup {Len(free)} /\ Len(free) \notin 1..Len(free')
    BY <1>1, <1>3
  <2>2. \A k \in 1..Len(free') : free'[k] \in Frees'
    BY <1>3, <1>4, <2>1 DEF FreeExact
  <2>3. \A k, l \in 1..Len(free') : free'[k] = free'[l] => k = l
    BY <1>3, <2>1, SMTT(30) DEF FreeExact
  <2>4. \A j \in Frees' : \E k \in 1..Len(free') : free'[k] = j
    BY <1>3, <1>4, <2>1, SMTT(30) DEF FreeExact
  <2>. QED  BY <2>2, <2>3, <2>4 DEF FreeExact
<1>10. MinSound'
  <2>1. minDl' <= minDl /\ minDl' <= now + t /\ minDl' \in Nat
    BY <1>2 DEF TypeOK, park_take, Bound
  <2>2. deadline'[i] = now + t /\ \A j \in Idx \ {i} : deadline'[j] = deadline[j]
    BY <1>1 DEF TypeOK, park_take
  <2>. QED  BY <1>4, <2>1, <2>2, SMTT(30) DEF MinSound, TypeOK, Waits
<1>11. DonesAhead'
  BY <1>4 DEF DonesAhead, park_take
<1>. QED  BY <1>6, <1>8, <1>9, <1>10, <1>11

\* The steps that mark entries, when they are not due yet or wait on.
LEMMA MarkKeeps ==
  ASSUME IndInv, NEW W \in SUBSET Waits, NEW how \in {"READY", "TIMEOUT"},
         Finish(W, how), UNCHANGED <<zone, deadline, free, now>>,
         minDl' \in Nat, \A i \in Waits \ W : minDl' <= deadline[i],
         cursor' = 0 \/ cursor' = NoService
  PROVE  IndInv'
<1>. USE DEF IndInv
<1>1. /\ st' \in [Idx -> States]
      /\ Waits' = Waits \ W /\ Dones' = Dones \cup W /\ Frees' = Frees
      /\ nwait' \in 0..Cap /\ nready' \in 0..Cap
      /\ CountersExact'
  BY FinishCounts
<1>2. TypeOK'
  BY <1>1, TableAssumption DEF TypeOK, NoService
<1>3. FreeExact'
  BY <1>1 DEF FreeExact
<1>4. MinSound'
  BY <1>1 DEF MinSound
<1>5. DonesAhead'
  BY DEF DonesAhead, Dones, Idx
<1>. QED  BY <1>1, <1>2, <1>3, <1>4, <1>5

\* Every operation of dns_park.c keeps the invariant.
LEMMA NextIndInv == IndInv /\ [Next]_vars => IndInv'
<1>. SUFFICES ASSUME IndInv, [Next]_vars PROVE IndInv'
  OBVIOUS
<1>. USE DEF IndInv
<1>0. Seen(nwait) = Waits
  BY SeenAll
<1>1. ASSUME NEW z \in Zones, NEW t \in Timeouts, park_take(z, t) PROVE IndInv'
  BY <1>1, TakeKeeps
<1>2. ASSUME NEW z \in Zones, NEW how \in {"READY", "TIMEOUT"}, park_wake(z, how) PROVE IndInv'
  <2>. DEFINE W == {i \in Waits : zone[i] = z}
  <2>1. /\ Finish(W, how) /\ UNCHANGED <<zone, deadline, free, now>>
        /\ cursor' = NoService /\ minDl' = minDl
    BY <1>0, <1>2 DEF park_wake
  <2>2. W \in SUBSET Waits /\ minDl' \in Nat /\ \A i \in Waits \ W : minDl' <= deadline[i]
    BY <2>1 DEF TypeOK, MinSound
  <2>. QED  BY <2>1, <2>2, MarkKeeps
<1>3. CASE park_wake_all
  <2>1. /\ Finish(Waits, "READY") /\ UNCHANGED <<zone, deadline, free, now>>
        /\ cursor' = NoService /\ minDl' = minDl
    BY <1>0, <1>3 DEF park_wake_all
  <2>2. Waits \in SUBSET Waits /\ minDl' \in Nat /\ \A i \in Waits \ Waits : minDl' <= deadline[i]
    BY <2>1 DEF TypeOK
  <2>. QED  BY <2>1, <2>2, MarkKeeps
<1>4. CASE park_expire
  <2>. DEFINE due == {i \in Waits : Due(i)}
  <2>1. CASE nwait = 0 \/ now < minDl
    <3>1. UNCHANGED <<st, zone, deadline, free, nwait, nready, minDl, now>> /\ cursor' = 0
      BY <1>4, <2>1 DEF park_expire, First
    <3>2. TypeOK'
      BY <3>1, TableAssumption DEF TypeOK, NoService
    <3>3. CountersExact' /\ FreeExact' /\ MinSound'
      BY <3>1 DEF CountersExact, FreeExact, MinSound, Waits, Dones, Frees
    <3>4. DonesAhead'
      BY <3>1 DEF DonesAhead, Dones, Idx
    <3>. QED  BY <3>2, <3>3, <3>4
  <2>2. CASE ~ (nwait = 0 \/ now < minDl)
    <3>1. /\ Finish(due, "TIMEOUT") /\ UNCHANGED <<zone, deadline, free, now>>
          /\ cursor' = 0 /\ minDl' = MinDeadline(Waits \ due)
      BY <1>0, <1>4, <2>2 DEF park_expire, First
    <3>2. due \in SUBSET Waits /\ Waits \ due \in SUBSET Idx
      BY DEF Waits
    <3>3. minDl' \in Nat /\ \A i \in Waits \ due : minDl' <= deadline[i]
      BY <3>1, <3>2, MinDeadlineBound
    <3>. QED  BY <3>1, <3>2, <3>3, MarkKeeps
  <2>. QED  BY <2>1, <2>2
<1>5. ASSUME NEW i \in Idx, Cancel(i) PROVE IndInv'
  <2>1. st[i] # "FREE" /\ park_release(i) /\ UNCHANGED <<zone, deadline, cursor, now>>
    BY <1>5 DEF Cancel
  <2>2. /\ st' \in [Idx -> States] /\ free' \in Seq(Idx) /\ Dones' = Dones \ {i}
        /\ nwait' \in 0..Cap /\ nready' \in 0..Cap /\ minDl' \in Nat
        /\ CountersExact' /\ FreeExact' /\ MinSound'
    BY <2>1, ReleaseKeeps
  <2>. QED  BY <2>1, <2>2 DEF TypeOK, DonesAhead
<1>6. ASSUME NEW i \in Idx, ServeNext(i) PROVE IndInv'
  <2>1. /\ st[i] # "FREE" /\ park_release(i) /\ UNCHANGED <<zone, deadline, now>>
        /\ cursor' = i + 1 /\ cursor # NoService
        /\ \A j \in Dones : j >= cursor => i <= j
    BY <1>6 DEF ServeNext, Dones
  <2>2. /\ st' \in [Idx -> States] /\ free' \in Seq(Idx) /\ Dones' = Dones \ {i}
        /\ nwait' \in 0..Cap /\ nready' \in 0..Cap /\ minDl' \in Nat
        /\ CountersExact' /\ FreeExact' /\ MinSound'
    BY <2>1, ReleaseKeeps
  <2>3. TypeOK'
    BY <2>1, <2>2, TableAssumption DEF TypeOK, Idx, NoService
  <2>4. DonesAhead'
    <3>1. SUFFICES ASSUME NEW j \in Dones' PROVE cursor' <= j
      BY DEF DonesAhead
    <3>2. j \in Dones /\ j # i
      BY <2>2
    <3>3. cursor <= j
      BY <2>1, <3>2 DEF DonesAhead
    <3>4. i \in Int /\ j \in Int /\ cursor \in Int
      BY <3>2 DEF TypeOK, Dones, Idx
    <3>5. i <= j
      BY <2>1, <3>2, <3>3, <3>4
    <3>. QED  BY <2>1, <3>2, <3>4, <3>5
  <2>. QED  BY <2>2, <2>3, <2>4
<1>7. CASE ServeEnd
  <2>1. TypeOK'
    BY <1>7, TableAssumption DEF ServeEnd, TypeOK, NoService
  <2>. QED  BY <1>7, <2>1 DEF ServeEnd, CountersExact, FreeExact, MinSound, DonesAhead, Waits, Dones, Frees
<1>8. CASE Tick
  <2>1. TypeOK'
    BY <1>8, TableAssumption DEF Tick, TypeOK
  <2>. QED  BY <1>8, <2>1 DEF Tick, CountersExact, FreeExact, MinSound, DonesAhead, Waits, Dones, Frees
<1>9. CASE UNCHANGED vars
  BY <1>9 DEF vars, TypeOK, CountersExact, FreeExact, MinSound, DonesAhead, Waits, Dones, Frees
<1>. QED  BY <1>1, <1>2, <1>3, <1>4, <1>5, <1>6, <1>7, <1>8, <1>9 DEF Next

-----------------------------------------------------------------------------
LEMMA Invariance == Spec => []IndInv
<1>. QED  BY InitIndInv, NextIndInv, PTL DEF Spec

\* The counters of dns_park.c always are the numbers of the entries that wait and
\* that are done, so no scan ends early.
THEOREM CountersAreExact == Spec => [](TypeOK /\ CountersExact)
<1>1. IndInv => TypeOK /\ CountersExact
  BY DEF IndInv
<1>. QED  BY Invariance, <1>1, PTL

\* The free list of the table always holds exactly the free entries.
THEOREM FreeListIsExact == Spec => []FreeExact
<1>1. IndInv => FreeExact
  BY DEF IndInv
<1>. QED  BY Invariance, <1>1, PTL

\* min_deadline_ms is always a lower bound of the deadlines that are waited for.
THEOREM DeadlineBoundIsSound == Spec => []MinSound
<1>1. IndInv => MinSound
  BY DEF IndInv
<1>. QED  BY Invariance, <1>1, PTL

\* park_expire() always leaves no entry waiting whose time is up: the whole scan
\* is left out only when no deadline has passed, and it ends only behind the last
\* entry that waits.
THEOREM ExpiryIsComplete == Spec => ExpireComplete
<1>. DEFINE A == cursor = NoService /\ cursor' # NoService => \A i \in Waits' : deadline'[i] > now'
<1>1. ASSUME IndInv, Next PROVE A
  <2>. SUFFICES ASSUME cursor = NoService, cursor' # NoService, NEW i \in Waits'
                PROVE  deadline'[i] > now'
    OBVIOUS
  <2>. USE DEF IndInv
  <2>1. park_expire
    BY <1>1, ZenonT(30) DEF Next, park_take, park_wake, park_wake_all, Cancel, ServeNext, ServeEnd, Tick
  <2>2. UNCHANGED <<deadline, now>> /\ now \in Nat /\ minDl \in Nat /\ deadline \in [Idx -> Nat]
    BY <1>1, <2>1 DEF park_expire, TypeOK
  <2>3. CASE nwait = 0
    <3>1. UNCHANGED st /\ Cardinality(Waits) = 0
      BY <1>1, <2>1, <2>3 DEF park_expire, CountersExact
    <3>2. IsFiniteSet(Waits)
      BY IdxFinite DEF Waits
    <3>3. Waits = {}
      BY <3>1, <3>2, FS_EmptySet
    <3>. QED  BY <3>1, <3>3 DEF Waits
  <2>4. CASE nwait # 0 /\ now < minDl
    <3>1. i \in Waits /\ i \in Idx
      BY <2>1, <2>4 DEF park_expire, Waits
    <3>2. minDl <= deadline[i]
      BY <1>1, <3>1 DEF MinSound
    <3>. QED  BY <2>2, <2>4, <3>1, <3>2
  <2>5. CASE nwait # 0 /\ ~ (now < minDl)
    <3>. DEFINE due == {j \in Waits : Due(j)}
    <3>1. Finish(due, "TIMEOUT")
      BY <1>1, <2>1, <2>5, SeenAll DEF park_expire
    <3>2. Waits' = Waits \ due
      BY <1>1, <3>1, FinishCounts
    <3>. QED  BY <2>2, <3>2 DEF Due, Waits
  <2>. QED  BY <2>3, <2>4, <2>5
<1>2. ASSUME IndInv, UNCHANGED vars PROVE A
  BY <1>2 DEF vars
<1>3. IndInv /\ [Next]_vars => [A]_vars
  BY <1>1, <1>2
<1>. QED  BY Invariance, <1>3, PTL DEF Spec, ExpireComplete

\* The park table is sound after every sequence of calls: counters, free list and deadline bound
\* together (park_take(), park_wake(), park_expire(), park_release(), park_cancel_tcp()).
THEOREM TableIsSound == Spec => []TableSound
<1>1. IndInv => TableSound
  BY DEF IndInv, TableSound
<1>. QED  BY Invariance, <1>1, PTL

\* The service of the done entries always ends with none of them left, although
\* requests may park again while it goes on.
THEOREM ServiceIsComplete == Spec => ServiceComplete
<1>. DEFINE A == cursor # NoService /\ cursor' = NoService => Dones = {}
<1>1. ASSUME IndInv, Next PROVE A
  <2>. SUFFICES ASSUME cursor # NoService, cursor' = NoService PROVE Dones = {}
    OBVIOUS
  <2>. USE DEF IndInv
  <2>1. ServeEnd
    <3>1. ~ park_expire
      BY TableAssumption DEF park_expire, First, NoService
    <3>2. ASSUME NEW i \in Idx PROVE ~ ServeNext(i)
      <4>1. i + 1 # NoService
        BY TableAssumption DEF Idx, NoService
      <4>. QED  BY <4>1 DEF ServeNext
    <3>. QED  BY <1>1, <3>1, <3>2, ZenonT(30) DEF Next, park_take, park_wake, park_wake_all, Cancel, Tick
  <2>2. CASE nready = 0
    <3>1. IsFiniteSet(Dones) /\ Cardinality(Dones) = 0
      BY <1>1, <2>2, IdxFinite DEF Dones, CountersExact
    <3>. QED  BY <3>1, FS_EmptySet
  <2>3. CASE \A j \in Dones : j < cursor
    <3>1. ASSUME NEW j \in Dones PROVE FALSE
      <4>1. j \in Int /\ cursor \in Int
        BY <1>1 DEF TypeOK, Dones, Idx
      <4>2. cursor <= j /\ j < cursor
        BY <1>1, <2>3 DEF DonesAhead
      <4>. QED  BY <4>1, <4>2
    <3>. QED  BY <3>1
  <2>. QED  BY <2>1, <2>2, <2>3 DEF ServeEnd
<1>2. ASSUME IndInv, UNCHANGED vars PROVE A
  BY <1>2 DEF vars
<1>3. IndInv /\ [Next]_vars => [A]_vars
  BY <1>1, <1>2
<1>. QED  BY Invariance, <1>3, PTL DEF Spec, ServiceComplete

-----------------------------------------------------------------------------
(* Induction over the places of the list *)

\* A set of numbers that is not empty has a least one.
LEMMA Least ==
  ASSUME NEW D \in SUBSET Nat, D # {}
  PROVE  \E d \in D : \A e \in D : d <= e
<1>1. PICK d \in D : \A e \in D : ~ (<<e, d>> \in OpToRel(<, Nat))
  BY NatLessThanWellFounded, WFMin
<1>2. ASSUME NEW e \in D PROVE d <= e
  <2>1. d \in Nat /\ e \in Nat
    OBVIOUS
  <2>2. e < d => <<e, d>> \in OpToRel(<, Nat)
    BY <2>1 DEF OpToRel
  <2>3. ~ (e < d)
    BY <1>1, <2>2, Zenon
  <2>. QED  BY <2>1, <2>3
<1>. QED  BY <1>2, Zenon

\* A property of places that is handed on from each place to the next one.
LEMMA Onwards ==
  ASSUME NEW a \in Nat, NEW b \in Nat, NEW G,
         a \in G, \A k \in a + 1 .. b : k - 1 \in G => k \in G
  PROVE  \A k \in a .. b : k \in G
<1>. DEFINE D == (a .. b) \ G
<1>1. ASSUME D # {} PROVE FALSE
  <2>1. D \in SUBSET Nat
    OBVIOUS
  <2>2. PICK d \in D : \A e \in D : d <= e
    BY <1>1, <2>1, Least, Zenon
  <2>3. d \in a + 1 .. b /\ d - 1 \in a .. b
    BY <2>2
  <2>4. d - 1 \notin D
    BY <2>2, <2>3
  <2>. QED  BY <2>2, <2>3, <2>4
<1>. QED  BY <1>1

-----------------------------------------------------------------------------
(* The invariant *)

Links == 0 .. PoolSize
Heads == [gen : Nat, top : Links]

Types ==
  /\ pool_head \in Heads
  /\ pool_next \in [Slots -> Links]
  /\ puser \in [PoolUsers ->
       {Idle} \cup [at : {"next"}, old : Heads] \cup [at : {"take"}, old : Heads, next : Links]
       \cup [at : {"link", "give"}, old : Heads, ctx : Slots]]
  /\ held \in [PoolUsers -> SUBSET Slots]

\* A head that was read is older than the one there is now, or it is that one: the
\* generation tells them apart.
Known(old) == old.gen <= pool_head.gen /\ (old.gen = pool_head.gen => old = pool_head)

\* What a thread has read is right as long as its exchange can still succeed.
UserInv ==
  \A u \in PoolUsers :
    /\ puser[u].at # "idle" => Known(puser[u].old)
    /\ puser[u].at \in {"next", "take"} => puser[u].old.top # 0
    /\ puser[u].at = "take" /\ puser[u].old = pool_head => puser[u].next = pool_next[pool_head.top]
    /\ puser[u].at \in {"link", "give"} => puser[u].ctx \in held[u]
    /\ puser[u].at = "give" => pool_next[puser[u].ctx] = puser[u].old.top

\* f is the list: from the head to the end, without coming back to a context.
Chain(f) ==
  /\ f \in [Links -> Links]
  /\ f[0] = pool_head.top /\ f[PoolSize] = 0
  /\ \A i \in 0 .. PoolSize - 1 : f[i + 1] = IF f[i] = 0 THEN 0 ELSE pool_next[f[i]]
  /\ \A i, j \in Links : f[i] = f[j] /\ f[i] # 0 => i = j

On(f) == {f[i] : i \in Links} \ {0}

\* The contexts that are on the list are the ones that nobody has.
ListInv == \E f : Chain(f) /\ On(f) = Slots \ Held

\* No two threads have the same context.
HeldInv == \A u, v \in PoolUsers : u # v => held[u] \cap held[v] = {}

Inv == Types /\ UserInv /\ ListInv /\ HeldInv

-----------------------------------------------------------------------------
(* Lemmas about chains *)

\* Behind the end of the list there is nothing.
LEMMA EndStays ==
  ASSUME NEW f, Chain(f), NEW i \in Links, f[i] = 0
  PROVE  \A j \in i .. PoolSize : f[j] = 0
<1>. DEFINE G == {j \in i .. PoolSize : f[j] = 0}
<1>1. i \in G
  BY PoolAssumption DEF Links
<1>2. ASSUME NEW k \in i + 1 .. PoolSize, k - 1 \in G PROVE k \in G
  BY <1>2, PoolAssumption DEF Chain, Links
<1>. HIDE DEF G
<1>3. \A k \in i .. PoolSize : k \in G
  BY <1>1, <1>2, Onwards, PoolAssumption DEF Links
<1>. QED  BY <1>3 DEF G

\* A list that lacks a context has a place left.
LEMMA Room ==
  ASSUME NEW f, Chain(f), NEW c \in Slots, c \notin On(f)
  PROVE  f[PoolSize - 1] = 0
<1> SUFFICES ASSUME f[PoolSize - 1] # 0
             PROVE  FALSE
  OBVIOUS
<1>. DEFINE P == 0 .. PoolSize - 1
            T == Slots \ {c}
            g == [i \in P |-> f[i]]
<1>1. \A i \in P : f[i] # 0
  BY EndStays, PoolAssumption DEF Links
<1>2. g \in [P -> T]
  <2>1. \A i \in P : i \in Links /\ f[i] \in Links /\ f[i] # 0
    BY <1>1, PoolAssumption DEF Chain, Links
  <2>2. \A i \in P : f[i] \in On(f)
    BY <2>1, Zenon DEF On
  <2>3. \A i \in P : f[i] \in Slots
    BY <2>1, PoolAssumption DEF Links, Slots
  <2>. QED  BY <2>2, <2>3
<1>3. IsFiniteSet(P) /\ Cardinality(P) = PoolSize
  BY FS_Interval, PoolAssumption
<1>4. IsFiniteSet(Slots) /\ Cardinality(Slots) = PoolSize
  BY FS_Interval, PoolAssumption DEF Slots
<1>5. IsFiniteSet(T) /\ Cardinality(T) = PoolSize - 1
  BY <1>4, FS_RemoveElement
<1>6. Cardinality(T) < Cardinality(P)
  BY <1>3, <1>5, PoolAssumption
<1>. HIDE DEF P, T, g
<1>7. PICK x \in P, y \in P : x # y /\ g[x] = g[y]
  BY <1>2, <1>3, <1>5, <1>6, FS_PigeonHole
<1>. QED  BY <1>1, <1>7, PoolAssumption DEF Chain, P, g, Links

\* The contexts on the list are those of its chain.
LEMMA ChainIsList ==
  ASSUME NEW f, Chain(f)
  PROVE  OnList = On(f)
<1>. DEFINE reach == CHOOSE r : r = [n \in 0 .. PoolSize |->
                       IF n = 0 THEN pool_head.top
                       ELSE IF r[n - 1] = 0 THEN 0 ELSE pool_next[r[n - 1]]]
<1>1. f = [n \in 0 .. PoolSize |->
             IF n = 0 THEN pool_head.top
             ELSE IF f[n - 1] = 0 THEN 0 ELSE pool_next[f[n - 1]]]
  <2>1. \A n \in Links : f[n] = IF n = 0 THEN pool_head.top ELSE IF f[n - 1] = 0 THEN 0 ELSE pool_next[f[n - 1]]
    <3> SUFFICES ASSUME NEW n \in Links
                 PROVE  f[n] = IF n = 0 THEN pool_head.top ELSE IF f[n - 1] = 0 THEN 0 ELSE pool_next[f[n - 1]]
      OBVIOUS
    <3>1. CASE n = 0
      BY <3>1 DEF Chain
    <3>2. CASE n # 0
      <4>1. n - 1 \in 0 .. PoolSize - 1 /\ (n - 1) + 1 = n
        BY <3>2, PoolAssumption DEF Links
      <4>. QED  BY <3>2, <4>1 DEF Chain
    <3>. QED  BY <3>1, <3>2
  <2>2. f = [n \in Links |-> f[n]]
    BY DEF Chain
  <2>. QED  BY <2>1, <2>2, Zenon DEF Links
<1>2. reach = [n \in 0 .. PoolSize |->
                 IF n = 0 THEN pool_head.top
                 ELSE IF reach[n - 1] = 0 THEN 0 ELSE pool_next[reach[n - 1]]]
  BY <1>1, ZenonT(30)
<1>3. OnList = {reach[n] : n \in 0 .. PoolSize - 1} \ {0}
  BY DEF OnList
<1>. HIDE DEF reach
<1>. DEFINE G == {k \in 0 .. PoolSize : reach[k] = f[k]}
<1>4. 0 \in G
  BY <1>1, <1>2, PoolAssumption
<1>5. ASSUME NEW k \in 0 + 1 .. PoolSize, k - 1 \in G PROVE k \in G
  <2>1. k \in 0 .. PoolSize /\ k # 0 /\ reach[k - 1] = f[k - 1]
    BY <1>5
  <2>2. f[k] = IF f[k - 1] = 0 THEN 0 ELSE pool_next[f[k - 1]]
    BY <1>1, <2>1, ZenonT(30)
  <2>3. reach[k] = IF reach[k - 1] = 0 THEN 0 ELSE pool_next[reach[k - 1]]
    BY <1>2, <2>1, ZenonT(30)
  <2>. QED  BY <2>1, <2>2, <2>3
<1>. HIDE DEF G
<1>6. \A k \in 0 .. PoolSize : k \in G
  BY <1>4, <1>5, Onwards, PoolAssumption
<1>7. \A k \in 0 .. PoolSize : reach[k] = f[k]
  BY <1>6 DEF G
<1>8. f[PoolSize] = 0
  BY DEF Chain
<1>. QED  BY <1>3, <1>7, <1>8, PoolAssumption DEF On, Links

-----------------------------------------------------------------------------
(* What the threads hold *)

\* The record of a thread has the fields of the place where it is.
LEMMA UserShape ==
  ASSUME Types, NEW u \in PoolUsers
  PROVE  /\ puser[u].at \in {"idle", "next", "take", "link", "give"}
         /\ puser[u].at = "idle" <=> puser[u] = Idle
         /\ puser[u].at # "idle" => puser[u].old \in Heads
         /\ puser[u].at = "take" => puser[u].next \in Links
         /\ puser[u].at \in {"link", "give"} =>
              /\ puser[u].ctx \in Slots
              /\ puser[u] = [at |-> puser[u].at, old |-> puser[u].old, ctx |-> puser[u].ctx]
  BY DEF Types, Idle

\* A context that a thread holds is not on the list.
LEMMA HeldIsOff ==
  ASSUME NEW f, On(f) = Slots \ Held, NEW u \in PoolUsers, NEW c \in held[u]
  PROVE  c \in Held /\ c \notin On(f)
  BY DEF Held

\* The head is on the list, when there is one.
LEMMA HeadIsOn ==
  ASSUME NEW f, Chain(f), pool_head.top # 0
  PROVE  pool_head.top \in On(f)
  BY PoolAssumption DEF Chain, On, Links

\* tcp_pool_init(): the contexts one after the other.
LEMMA InitInv == tcp_pool_init => Inv
<1> SUFFICES ASSUME tcp_pool_init
             PROVE  Inv
  OBVIOUS
<1>1. Types
  BY PoolAssumption DEF tcp_pool_init, Types, Heads, Links, Slots, Idle
<1>2. UserInv /\ HeldInv
  BY DEF tcp_pool_init, UserInv, HeldInv, Idle
<1>3. ListInv
  <2>. DEFINE f == [i \in Links |-> IF i < PoolSize THEN i + 1 ELSE 0]
  <2>1. f \in [Links -> Links] /\ f[0] = pool_head.top /\ f[PoolSize] = 0
    BY PoolAssumption DEF tcp_pool_init, Links
  <2>2. ASSUME NEW i \in 0 .. PoolSize - 1
        PROVE  f[i + 1] = IF f[i] = 0 THEN 0 ELSE pool_next[f[i]]
    BY PoolAssumption DEF tcp_pool_init, Links, Slots
  <2>3. \A i, j \in Links : f[i] = f[j] /\ f[i] # 0 => i = j
    BY PoolAssumption DEF Links
  <2>4. Chain(f)
    BY <2>1, <2>2, <2>3, Zenon DEF Chain
  <2>5. Held = {}
    BY DEF tcp_pool_init, Held
  <2>6. On(f) = Slots
    <3>1. ASSUME NEW s \in Slots PROVE s \in On(f)
      <4>1. s - 1 \in Links /\ f[s - 1] = s /\ s # 0
        BY PoolAssumption DEF Slots, Links
      <4>. HIDE DEF f
      <4>. QED  BY <4>1 DEF On
    <3>2. ASSUME NEW s \in On(f) PROVE s \in Slots
      BY PoolAssumption DEF On, Slots, Links
    <3>. QED  BY <3>1, <3>2
  <2>. HIDE DEF f
  <2>. QED  BY <2>4, <2>5, <2>6 DEF ListInv
<1>. QED  BY <1>1, <1>2, <1>3 DEF Inv

-----------------------------------------------------------------------------
(* The steps *)

\* A step that changes neither the list nor who holds what leaves the list as it is.
LEMMA ListSame ==
  ASSUME ListInv, UNCHANGED <<pool_head, pool_next, held>>
  PROVE  ListInv'
<1>1. PICK f : Chain(f) /\ On(f) = Slots \ Held
  BY DEF ListInv
<1>2. pool_head' = pool_head /\ pool_next' = pool_next /\ held' = held
  OBVIOUS
<1>3. Held' = Held
  BY <1>2, Zenon DEF Held
<1>4. Chain(f)'
  BY <1>1, <1>2, Zenon DEF Chain
<1>5. On(f)' = Slots \ Held'
  BY <1>1, <1>3 DEF On
<1>. QED  BY <1>4, <1>5 DEF ListInv

\* tcp_ctx_alloc() and tcp_ctx_free() load the head: what they loaded is the head.
LEMMA LoadKeeps ==
  ASSUME Inv, NEW u \in PoolUsers, AllocLoad(u) \/ AllocRetry(u) \/ FreeLoad(u) \/ FreeRetry(u)
  PROVE  Inv'
<1>. DEFINE At(r) ==
       \/ r = Idle
       \/ pool_head.top # 0 /\ r = [at |-> "next", old |-> pool_head]
       \/ \E c \in held[u] : r = [at |-> "link", old |-> pool_head, ctx |-> c]
<1>0. Types /\ UserInv /\ ListInv /\ HeldInv
  BY DEF Inv
<1>1. PICK r : At(r) /\ puser' = [puser EXCEPT ![u] = r]
  <2>1. CASE AllocLoad(u)
    BY <2>1, ZenonT(30) DEF AllocLoad
  <2>2. CASE AllocRetry(u)
    BY <2>2, ZenonT(30) DEF AllocRetry
  <2>3. CASE FreeLoad(u)
    BY <2>3, ZenonT(30) DEF FreeLoad
  <2>4. CASE FreeRetry(u)
    BY <2>4, <1>0, ZenonT(30) DEF FreeRetry, UserInv
  <2>. QED  BY <2>1, <2>2, <2>3, <2>4
<1>2. UNCHANGED <<pool_head, pool_next, held>>
  BY DEF AllocLoad, AllocRetry, FreeLoad, FreeRetry
<1>3. r \in {Idle} \cup [at : {"next"}, old : Heads] \cup [at : {"link", "give"}, old : Heads, ctx : Slots]
  BY <1>0, <1>1 DEF Types
<1>4. Types'
  BY <1>0, <1>1, <1>2, <1>3 DEF Types
<1>5. pool_head \in Heads
  BY <1>0 DEF Types
<1>6. UserInv'
  <2> SUFFICES ASSUME NEW v \in PoolUsers
               PROVE  /\ puser'[v].at # "idle" => Known(puser'[v].old)
                      /\ puser'[v].at \in {"next", "take"} => puser'[v].old.top # 0
                      /\ puser'[v].at = "take" /\ puser'[v].old = pool_head =>
                           puser'[v].next = pool_next[pool_head.top]
                      /\ puser'[v].at \in {"link", "give"} => puser'[v].ctx \in held[v]
                      /\ puser'[v].at = "give" => pool_next[puser'[v].ctx] = puser'[v].old.top
    BY <1>2, Zenon DEF UserInv, Known
  <2>1. CASE v # u
    <3>1. puser'[v] = puser[v]
      BY <2>1, <1>0, <1>1 DEF Types
    <3>. QED  BY <3>1, <1>0 DEF UserInv
  <2>2. CASE v = u
    <3>1. puser'[v] = r
      BY <2>2, <1>0, <1>1 DEF Types
    <3>. QED  BY <3>1, <2>2, <1>1, <1>5 DEF Known, Heads, Idle
  <2>. QED  BY <2>1, <2>2
<1>7. ListInv'
  BY <1>0, <1>2, ListSame
<1>8. HeldInv'
  BY <1>0, <1>2 DEF HeldInv
<1>. QED  BY <1>4, <1>6, <1>7, <1>8 DEF Inv

\* tcp_ctx_alloc() loads the successor of the top.
LEMMA NextKeeps ==
  ASSUME Inv, NEW u \in PoolUsers, AllocNext(u)
  PROVE  Inv'
<1>. DEFINE r == [at |-> "take", old |-> puser[u].old, next |-> pool_next[puser[u].old.top]]
<1>0. Types /\ UserInv /\ ListInv /\ HeldInv
  BY DEF Inv
<1>1. /\ puser[u].at = "next" /\ puser' = [puser EXCEPT ![u] = r]
      /\ UNCHANGED <<pool_head, pool_next, held>>
  BY DEF AllocNext
<1>2. puser[u].old \in Heads /\ puser[u].old.top # 0 /\ Known(puser[u].old)
  BY <1>0, <1>1, UserShape, ZenonT(30) DEF UserInv
<1>3. pool_next[puser[u].old.top] \in Links
  BY <1>0, <1>2, PoolAssumption DEF Types, Heads, Links, Slots
<1>4. r \in [at : {"take"}, old : Heads, next : Links]
  BY <1>2, <1>3
<1>5. Types'
  BY <1>0, <1>1, <1>4 DEF Types
<1>6. UserInv'
  <2> SUFFICES ASSUME NEW v \in PoolUsers
               PROVE  /\ puser'[v].at # "idle" => Known(puser'[v].old)
                      /\ puser'[v].at \in {"next", "take"} => puser'[v].old.top # 0
                      /\ puser'[v].at = "take" /\ puser'[v].old = pool_head =>
                           puser'[v].next = pool_next[pool_head.top]
                      /\ puser'[v].at \in {"link", "give"} => puser'[v].ctx \in held[v]
                      /\ puser'[v].at = "give" => pool_next[puser'[v].ctx] = puser'[v].old.top
    BY <1>1, Zenon DEF UserInv, Known
  <2>1. CASE v # u
    <3>1. puser'[v] = puser[v]
      BY <2>1, <1>0, <1>1 DEF Types
    <3>. QED  BY <3>1, <1>0 DEF UserInv
  <2>2. CASE v = u
    <3>1. puser'[v] = r
      BY <2>2, <1>0, <1>1 DEF Types
    <3>. QED  BY <3>1, <1>2
  <2>. QED  BY <2>1, <2>2
<1>7. ListInv'
  BY <1>0, <1>1, ListSame
<1>8. HeldInv'
  BY <1>0, <1>1 DEF HeldInv
<1>. QED  BY <1>5, <1>6, <1>7, <1>8 DEF Inv

\* tcp_ctx_free() links a context to the head it loaded: nobody else looks at that link.
LEMMA LinkKeeps ==
  ASSUME Inv, NEW u \in PoolUsers, FreeLink(u)
  PROVE  Inv'
<1>. DEFINE c == puser[u].ctx
            r == [at |-> "give", old |-> puser[u].old, ctx |-> c]
<1>0. Types /\ UserInv /\ ListInv /\ HeldInv
  BY DEF Inv
<1>1. puser[u].at = "link" /\ UNCHANGED <<pool_head, held>>
  BY DEF FreeLink
<1>2. /\ puser[u].old \in Heads /\ c \in Slots /\ c \in held[u] /\ Known(puser[u].old)
      /\ puser[u] = [at |-> "link", old |-> puser[u].old, ctx |-> c]
  BY <1>0, <1>1, UserShape DEF UserInv
<1>3. pool_next' = [pool_next EXCEPT ![c] = puser[u].old.top]
  BY DEF FreeLink
<1>4. puser' = [puser EXCEPT ![u] = r]
  <2>1. [puser[u] EXCEPT !.at = "give"] = r
    BY <1>2
  <2>2. puser' = [puser EXCEPT ![u] = [puser[u] EXCEPT !.at = "give"]]
    BY <1>0 DEF FreeLink, Types
  <2>. QED  BY <2>1, <2>2, ZenonT(30)
<1>5. puser[u].old.top \in Links
  BY <1>2 DEF Heads
<1>6. Types'
  BY <1>0, <1>1, <1>2, <1>3, <1>4, <1>5 DEF Types
<1>7. PICK f : Chain(f) /\ On(f) = Slots \ Held
  BY <1>0 DEF ListInv
<1>8. c \notin On(f)
  BY <1>2, <1>7, HeldIsOff
<1>9. \A s \in Slots \ {c} : pool_next'[s] = pool_next[s]
  BY <1>0, <1>3 DEF Types
<1>10. pool_next'[c] = puser[u].old.top
  BY <1>0, <1>2, <1>3 DEF Types
<1>11. UserInv'
  <2> SUFFICES ASSUME NEW v \in PoolUsers
               PROVE  /\ puser'[v].at # "idle" => Known(puser'[v].old)
                      /\ puser'[v].at \in {"next", "take"} => puser'[v].old.top # 0
                      /\ puser'[v].at = "take" /\ puser'[v].old = pool_head =>
                           puser'[v].next = pool_next'[pool_head.top]
                      /\ puser'[v].at \in {"link", "give"} => puser'[v].ctx \in held[v]
                      /\ puser'[v].at = "give" => pool_next'[puser'[v].ctx] = puser'[v].old.top
    BY <1>1, Zenon DEF UserInv, Known
  <2>1. CASE v # u
    <3>1. puser'[v] = puser[v]
      BY <2>1, <1>0, <1>4 DEF Types
    <3>2. ASSUME puser[v].at = "take", puser[v].old = pool_head
          PROVE  puser[v].next = pool_next'[pool_head.top]
      <4>1. pool_head.top # 0 /\ puser[v].next = pool_next[pool_head.top]
        BY <3>2, <1>0 DEF UserInv
      <4>2. pool_head.top \in On(f)
        BY <4>1, <1>7, HeadIsOn
      <4>3. pool_head.top \in Slots \ {c}
        BY <4>2, <1>7, <1>8
      <4>. QED  BY <4>1, <4>3, <1>9
    <3>3. ASSUME puser[v].at = "give" PROVE pool_next'[puser[v].ctx] = puser[v].old.top
      <4>1. puser[v].ctx \in held[v] /\ pool_next[puser[v].ctx] = puser[v].old.top
        BY <3>3, <1>0 DEF UserInv
      <4>2. puser[v].ctx \in Slots
        BY <3>3, <1>0, UserShape, ZenonT(30)
      <4>3. puser[v].ctx # c
        BY <4>1, <1>0, <1>2, <2>1 DEF HeldInv
      <4>. QED  BY <4>1, <4>2, <4>3, <1>9
    <3>. QED  BY <3>1, <3>2, <3>3, <1>0 DEF UserInv
  <2>2. CASE v = u
    <3>1. puser'[v] = r
      BY <2>2, <1>0, <1>4 DEF Types
    <3>. QED  BY <3>1, <2>2, <1>2, <1>10
  <2>. QED  BY <2>1, <2>2
<1>12. ListInv'
  <2>1. ASSUME NEW i \in 0 .. PoolSize - 1
        PROVE  f[i + 1] = IF f[i] = 0 THEN 0 ELSE pool_next'[f[i]]
    <3>1. f[i + 1] = IF f[i] = 0 THEN 0 ELSE pool_next[f[i]]
      BY <1>7 DEF Chain
    <3>2. f[i] # 0 => f[i] \in On(f)
      BY PoolAssumption DEF On, Links
    <3>3. f[i] # 0 => f[i] \in Slots \ {c}
      BY <3>2, <1>7, <1>8
    <3>. QED  BY <3>1, <3>3, <1>9
  <2>2. Chain(f)'
    BY <2>1, <1>1, <1>7, Zenon DEF Chain
  <2>3. Held' = Held
    BY <1>1, Zenon DEF Held
  <2>4. On(f)' = Slots \ Held'
    BY <1>7, <2>3 DEF On
  <2>. QED  BY <2>2, <2>4 DEF ListInv
<1>13. HeldInv'
  BY <1>0, <1>1 DEF HeldInv
<1>. QED  BY <1>6, <1>11, <1>12, <1>13 DEF Inv

\* An exchange that succeeded makes every head that was read before it an old one.
LEMMA ExchangeKeeps ==
  ASSUME Types, UserInv, HeldInv, NEW u \in PoolUsers, NEW top \in Links,
         pool_head' = Bumped(top), puser' = [puser EXCEPT ![u] = Idle], UNCHANGED pool_next,
         held' \in [PoolUsers -> SUBSET Slots], \A v \in PoolUsers \ {u} : held'[v] = held[v]
  PROVE  Types' /\ UserInv'
<1>1. /\ pool_head \in Heads /\ pool_head' \in Heads
      /\ pool_head'.gen = pool_head.gen + 1 /\ pool_head'.top = top
  BY DEF Types, Heads, Bumped
<1>2. Types'
  BY <1>1, ZenonT(30) DEF Types
<1>3. UserInv'
  <2> SUFFICES ASSUME NEW v \in PoolUsers
               PROVE  /\ puser'[v].at # "idle" =>
                           /\ puser'[v].old.gen <= pool_head'.gen
                           /\ puser'[v].old.gen = pool_head'.gen => puser'[v].old = pool_head'
                      /\ puser'[v].at \in {"next", "take"} => puser'[v].old.top # 0
                      /\ puser'[v].at = "take" /\ puser'[v].old = pool_head' =>
                           puser'[v].next = pool_next[pool_head'.top]
                      /\ puser'[v].at \in {"link", "give"} => puser'[v].ctx \in held'[v]
                      /\ puser'[v].at = "give" => pool_next[puser'[v].ctx] = puser'[v].old.top
    BY Zenon DEF UserInv, Known
  <2>1. CASE v = u
    <3>1. puser'[v] = Idle
      BY <2>1 DEF Types
    <3>. QED  BY <3>1 DEF Idle
  <2>2. CASE v # u
    <3>1. puser'[v] = puser[v] /\ held'[v] = held[v]
      BY <2>2 DEF Types
    <3>2. puser[v].at # "idle" => puser[v].old \in Heads
      BY UserShape, ZenonT(30)
    <3>3. puser[v].at # "idle" => puser[v].old.gen < pool_head'.gen /\ puser[v].old # pool_head'
      BY <3>2, <1>1 DEF UserInv, Known, Heads
    <3>4. pool_head'.gen \in Nat
      BY <1>1 DEF Heads
    <3>. QED  BY <3>1, <3>2, <3>3, <3>4 DEF UserInv, Heads
  <2>. QED  BY <2>1, <2>2
<1>. QED  BY <1>2, <1>3

\* tcp_ctx_alloc() takes the first context: the list is the rest of the chain.
LEMMA AllocKeeps ==
  ASSUME Inv, NEW u \in PoolUsers, AllocExchange(u)
  PROVE  Inv'
<1>. DEFINE c == pool_head.top
            n == pool_next[c]
<1>0. Types /\ UserInv /\ ListInv /\ HeldInv
  BY DEF Inv
<1>1. puser[u].at = "take" /\ puser[u].old = pool_head /\ puser[u].next = n /\ c # 0
  BY <1>0, Zenon DEF AllocExchange, UserInv
<1>2. /\ pool_head' = Bumped(n) /\ puser' = [puser EXCEPT ![u] = Idle] /\ pool_next' = pool_next
      /\ held' = [held EXCEPT ![u] = @ \cup {c}]
  BY <1>1 DEF AllocExchange
<1>3. c \in Slots /\ n \in Links /\ pool_head'.top = n
  BY <1>0, <1>1, <1>2, PoolAssumption DEF Types, Heads, Links, Slots, Bumped
<1>4. /\ held' \in [PoolUsers -> SUBSET Slots] /\ held'[u] = held[u] \cup {c}
      /\ \A v \in PoolUsers \ {u} : held'[v] = held[v]
  BY <1>0, <1>2, <1>3 DEF Types
<1>5. Types' /\ UserInv'
  BY <1>0, <1>2, <1>3, <1>4, ExchangeKeeps, ZenonT(30)
<1>6. PICK f : Chain(f) /\ On(f) = Slots \ Held
  BY <1>0 DEF ListInv
<1>7. c \in On(f)
  BY <1>1, <1>6, HeadIsOn
<1>8. HeldInv'
  <2>1. \A v \in PoolUsers : c \notin held[v]
    BY <1>6, <1>7 DEF Held
  <2>. QED  BY <2>1, <1>0, <1>4 DEF HeldInv
<1>9. Held' = Held \cup {c}
  BY <1>4 DEF Held
<1>. DEFINE g == [i \in Links |-> IF i < PoolSize THEN f[i + 1] ELSE 0]
<1>10. f \in [Links -> Links] /\ f[0] = c /\ f[PoolSize] = 0 /\ f[1] = n
  BY <1>1, <1>6, PoolAssumption DEF Chain
<1>11. \A i \in 0 .. PoolSize - 1 : f[i + 1] = IF f[i] = 0 THEN 0 ELSE pool_next[f[i]]
  BY <1>6 DEF Chain
<1>12. \A i, j \in Links : f[i] = f[j] /\ f[i] # 0 => i = j
  BY <1>6 DEF Chain
<1>13. Chain(g)'
  <2>1. g \in [Links -> Links] /\ g[0] = n /\ g[PoolSize] = 0
    BY <1>10, PoolAssumption, SMTT(30) DEF Links
  <2>2. ASSUME NEW i \in 0 .. PoolSize - 1
        PROVE  g[i + 1] = IF g[i] = 0 THEN 0 ELSE pool_next[g[i]]
    <3>1. i \in Links /\ i + 1 \in Links /\ g[i] = f[i + 1]
      BY PoolAssumption DEF Links
    <3>2. CASE i + 1 = PoolSize
      BY <3>1, <3>2, <1>10, PoolAssumption
    <3>3. CASE i + 1 # PoolSize
      <4>1. i + 1 \in 0 .. PoolSize - 1 /\ g[i + 1] = f[i + 2]
        BY <3>1, <3>3, PoolAssumption
      <4>2. f[(i + 1) + 1] = IF f[i + 1] = 0 THEN 0 ELSE pool_next[f[i + 1]]
        BY <4>1, <1>11
      <4>3. (i + 1) + 1 = i + 2
        OBVIOUS
      <4>. QED  BY <3>1, <4>1, <4>2, <4>3
    <3>. QED  BY <3>2, <3>3
  <2>3. ASSUME NEW i \in Links, NEW j \in Links, g[i] = g[j], g[i] # 0
        PROVE  i = j
    <3>1. i < PoolSize /\ j < PoolSize /\ g[i] = f[i + 1] /\ g[j] = f[j + 1]
      BY <2>3, PoolAssumption DEF Links
    <3>2. i + 1 \in Links /\ j + 1 \in Links
      BY <3>1, PoolAssumption DEF Links
    <3>3. i + 1 = j + 1
      BY <3>1, <3>2, <2>3, <1>12
    <3>. QED  BY <3>3 DEF Links
  <2>. HIDE DEF g
  <2>. QED  BY <2>1, <2>2, <2>3, <1>2, <1>3, Zenon DEF Chain
<1>14. On(g) = On(f) \ {c}
  <2>1. ASSUME NEW s \in On(g) PROVE s \in On(f) \ {c}
    <3>1. PICK i \in Links : s = g[i] /\ s # 0
      BY <2>1 DEF On
    <3>2. i + 1 \in Links /\ s = f[i + 1] /\ i + 1 # 0
      BY <3>1, PoolAssumption DEF Links
    <3>3. s # c
      BY <3>1, <3>2, <1>10, <1>12, PoolAssumption DEF Links
    <3>. QED  BY <3>1, <3>2, <3>3 DEF On
  <2>2. ASSUME NEW s \in On(f) \ {c} PROVE s \in On(g)
    <3>1. PICK i \in Links : s = f[i] /\ s # 0
      BY <2>2 DEF On
    <3>2. i # 0
      BY <3>1, <2>2, <1>10
    <3>3. i - 1 \in Links /\ g[i - 1] = s
      BY <3>1, <3>2, PoolAssumption DEF Links
    <3>. HIDE DEF g
    <3>. QED  BY <3>1, <3>3 DEF On
  <2>. QED  BY <2>1, <2>2
<1>. HIDE DEF g
<1>15. On(g)' = Slots \ Held'
  BY <1>6, <1>9, <1>14 DEF On
<1>16. ListInv'
  BY <1>13, <1>15 DEF ListInv
<1>. QED  BY <1>5, <1>8, <1>16 DEF Inv

\* tcp_ctx_free() puts its context in front of the list, which has a place for it.
LEMMA GiveKeeps ==
  ASSUME Inv, NEW u \in PoolUsers, FreeExchange(u)
  PROVE  Inv'
<1>a. PICK c : c = puser[u].ctx
  OBVIOUS
<1>0. Types /\ UserInv /\ ListInv /\ HeldInv
  BY DEF Inv
<1>1. /\ puser[u].at = "give" /\ puser[u].old = pool_head
      /\ pool_head' = Bumped(c) /\ puser' = [puser EXCEPT ![u] = Idle] /\ pool_next' = pool_next
      /\ held' = [held EXCEPT ![u] = @ \ {c}]
  BY <1>a DEF FreeExchange
<1>2. c \in held[u] /\ pool_next[c] = pool_head.top
  BY <1>0, <1>1, <1>a DEF UserInv
<1>3. c \in Slots /\ c \in Links /\ c # 0 /\ pool_head'.top = c
  <2>1. c \in Slots
    BY <1>0, <1>1, <1>a, UserShape, ZenonT(30)
  <2>. QED  BY <1>1, <2>1, PoolAssumption DEF Links, Slots, Bumped
<1>4. /\ held' \in [PoolUsers -> SUBSET Slots] /\ held'[u] = held[u] \ {c}
      /\ \A v \in PoolUsers \ {u} : held'[v] = held[v]
  BY <1>0, <1>1 DEF Types
<1>5. Types' /\ UserInv'
  BY <1>0, <1>1, <1>3, <1>4, ExchangeKeeps, ZenonT(30)
<1>6. PICK f : Chain(f) /\ On(f) = Slots \ Held
  BY <1>0 DEF ListInv
<1>7. c \in Held /\ c \notin On(f)
  BY <1>2, <1>6, HeldIsOff
<1>8. HeldInv'
  BY <1>0, <1>4 DEF HeldInv
<1>9. Held' = Held \ {c}
  <2>1. \A v \in PoolUsers \ {u} : c \notin held[v]
    BY <1>0, <1>2 DEF HeldInv
  <2>. QED  BY <2>1, <1>4 DEF Held
<1>. DEFINE g == [i \in Links |-> IF i = 0 THEN c ELSE f[i - 1]]
<1>10. f \in [Links -> Links] /\ f[0] = pool_head.top /\ f[PoolSize] = 0
  BY <1>6 DEF Chain
<1>11. \A i \in 0 .. PoolSize - 1 : f[i + 1] = IF f[i] = 0 THEN 0 ELSE pool_next[f[i]]
  BY <1>6 DEF Chain
<1>12. \A i, j \in Links : f[i] = f[j] /\ f[i] # 0 => i = j
  BY <1>6 DEF Chain
<1>13. f[PoolSize - 1] = 0
  BY <1>3, <1>6, <1>7, Room
<1>14. \A i \in Links : f[i] # c
  BY <1>3, <1>7 DEF On
<1>15. Chain(g)'
  <2>1. g \in [Links -> Links] /\ g[0] = c /\ g[PoolSize] = 0
    BY <1>3, <1>10, <1>13, PoolAssumption DEF Links
  <2>2. ASSUME NEW i \in 0 .. PoolSize - 1
        PROVE  g[i + 1] = IF g[i] = 0 THEN 0 ELSE pool_next[g[i]]
    <3>1. i \in Links /\ i + 1 \in Links /\ g[i + 1] = f[i]
      BY PoolAssumption DEF Links
    <3>2. CASE i = 0
      BY <3>1, <3>2, <1>2, <1>3, <1>10
    <3>3. CASE i # 0
      <4>1. i - 1 \in 0 .. PoolSize - 1 /\ g[i] = f[i - 1] /\ (i - 1) + 1 = i
        BY <3>1, <3>3, PoolAssumption
      <4>2. f[i] = IF f[i - 1] = 0 THEN 0 ELSE pool_next[f[i - 1]]
        BY <4>1, <1>11
      <4>. QED  BY <3>1, <4>1, <4>2
    <3>. QED  BY <3>2, <3>3
  <2>3. ASSUME NEW i \in Links, NEW j \in Links, g[i] = g[j], g[i] # 0
        PROVE  i = j
    <3>1. ASSUME NEW k \in Links, k # 0 PROVE k - 1 \in Links /\ g[k] = f[k - 1] /\ g[k] # c
      BY <3>1, <1>14, PoolAssumption DEF Links
    <3>2. g[0] = c
      BY PoolAssumption DEF Links
    <3>3. CASE i = 0 \/ j = 0
      BY <3>1, <3>2, <3>3, <2>3
    <3>4. CASE i # 0 /\ j # 0
      <4>1. i - 1 = j - 1
        BY <3>1, <3>4, <2>3, <1>12
      <4>. QED  BY <4>1 DEF Links
    <3>. QED  BY <3>3, <3>4
  <2>. HIDE DEF g
  <2>. QED  BY <2>1, <2>2, <2>3, <1>1, <1>3, Zenon DEF Chain
<1>16. On(g) = On(f) \cup {c}
  <2>1. ASSUME NEW s \in On(g) PROVE s \in On(f) \cup {c}
    <3>1. PICK i \in Links : s = g[i] /\ s # 0
      BY <2>1 DEF On
    <3>2. CASE i = 0
      BY <3>1, <3>2
    <3>3. CASE i # 0
      <4>1. i - 1 \in Links /\ s = f[i - 1]
        BY <3>1, <3>3, PoolAssumption DEF Links
      <4>. QED  BY <3>1, <4>1 DEF On
    <3>. QED  BY <3>2, <3>3
  <2>2. ASSUME NEW s \in On(f) PROVE s \in On(g)
    <3>1. PICK i \in Links : s = f[i] /\ s # 0
      BY <2>2 DEF On
    <3>2. i # PoolSize
      BY <3>1, <1>10
    <3>3. i + 1 \in Links /\ g[i + 1] = s
      BY <3>1, <3>2, PoolAssumption DEF Links
    <3>. HIDE DEF g
    <3>. QED  BY <3>1, <3>3 DEF On
  <2>3. c \in On(g)
    <3>1. 0 \in Links /\ g[0] = c
      BY PoolAssumption DEF Links
    <3>. HIDE DEF g
    <3>. QED  BY <3>1, <1>3 DEF On
  <2>. QED  BY <2>1, <2>2, <2>3
<1>. HIDE DEF g
<1>17. On(g)' = Slots \ Held'
  BY <1>3, <1>6, <1>9, <1>16 DEF On
<1>18. ListInv'
  BY <1>15, <1>17 DEF ListInv
<1>. QED  BY <1>5, <1>8, <1>18 DEF Inv

-----------------------------------------------------------------------------
(* The theorem *)

\* Every step of every thread keeps the invariant.
LEMMA NextInv == Inv /\ [PoolNext]_pvars => Inv'
<1> SUFFICES ASSUME Inv, [PoolNext]_pvars
             PROVE  Inv'
  OBVIOUS
<1>1. ASSUME NEW u \in PoolUsers, PoolStep(u) PROVE Inv'
  BY <1>1, LoadKeeps, NextKeeps, AllocKeeps, LinkKeeps, GiveKeeps, Zenon DEF PoolStep
<1>2. CASE UNCHANGED pvars
  <2>1. pool_head' = pool_head /\ pool_next' = pool_next /\ puser' = puser /\ held' = held
    BY <1>2 DEF pvars
  <2>2. ListInv'
    BY <2>1, ListSame DEF Inv
  <2>3. Types' /\ UserInv' /\ HeldInv'
    BY <2>1, Zenon DEF Inv, Types, UserInv, Known, HeldInv
  <2>. QED  BY <2>2, <2>3 DEF Inv
<1>. QED  BY <1>1, <1>2 DEF PoolNext

\* In every state of the pool each context is on the free list or with exactly one thread, whatever
\* the exchanges of tcp_ctx_alloc() and tcp_ctx_free() do to each other: the generation that every
\* exchange advances keeps a thread from putting back a head whose successor has changed.
THEOREM PoolIsExact == PoolSpec => []PoolExact
<1>1. Inv => PoolExact
  <2> SUFFICES ASSUME Inv
               PROVE  PoolExact
    OBVIOUS
  <2>1. PICK f : Chain(f) /\ On(f) = Slots \ Held
    BY DEF Inv, ListInv
  <2>2. OnList = Slots \ Held
    BY <2>1, ChainIsList
  <2>3. Held \subseteq Slots
    BY DEF Inv, Types, Held
  <2>. QED  BY <2>2, <2>3 DEF PoolExact, Inv, HeldInv
<1>. QED  BY <1>1, InitInv, NextInv, PTL DEF PoolSpec
=============================================================================
