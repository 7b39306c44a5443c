-------------------------- MODULE EpochRcuProofs ---------------------------
(***************************************************************************)
(* Proofs about EpochRcu for any numbers of threads, slots, pointers and   *)
(* objects.  IndInv is inductive.  The argument in short: a section's slot *)
(* shows an epoch that is not newer than the retire epoch of any object    *)
(* retired while the section is open (OlderInv); so a scan cannot pass the *)
(* slot of an older section (ScanInv); and an object that left its pointer *)
(* cannot be loaded by a younger one (ActiveInv).                          *)
(***************************************************************************)
EXTENDS EpochRcu, TLAPS

\* The inductive invariant holds at the start.
LEMMA InitInd == Init => IndInv
  <1> SUFFICES ASSUME Init PROVE IndInv
    OBVIOUS
  <1> USE DistinctAssumption, ActiveAssumption, DepthAssumption
  <1>1. TypeOK
    BY DEF Init, TypeOK, GP!Status, Epochs, Idle, Threads, Slots
  <1>2. SectionInv
    BY DEF Init, SectionInv, Slot
  <1>3. AuxInv
    BY DEF Init, AuxInv, SlotsExclusive, Threads, Slots
  <1>4. WriterInv /\ ScanInv
    BY DEF Init, WriterInv, ScanInv, Waiting
  <1>5. ActiveInv /\ OlderInv
    BY DEF Init, ActiveInv, OlderInv
  <1> QED
    BY <1>1, <1>2, <1>3, <1>4, <1>5 DEF IndInv

\* The steps that claim or release an auxiliary slot keep the invariant.
LEMMA SlotStepInd ==
  ASSUME IndInv, NEW t \in Threads,
         \/ AuxLockClaim(t) \/ AuxUnlockOuter(t)
         \/ rcu_aux_thread_pin(t) \/ rcu_aux_thread_unpin(t)
  PROVE  IndInv'
  <1> USE DistinctAssumption, DepthAssumption
      DEF IndInv, TypeOK, rvars, avars, ovars, wvars, Threads, Slots
  <1>1. CASE AuxLockClaim(t)
    BY <1>1 DEF AuxLockClaim, aux_slot_claim, SectionInv, AuxInv, SlotsExclusive,
                WriterInv, ActiveInv, OlderInv, ScanInv, Waiting, Slot
  <1>2. CASE AuxUnlockOuter(t)
    <2> USE <1>2 DEF AuxUnlockOuter, CloseSection, ReleaseSlot
    <2>0. t \in Aux /\ t_aux_slot[t] \in AuxSlots /\ Slot(t) = t_aux_slot[t]
      BY DEF SectionInv, AuxInv, Slot
    <2>1. /\ in_use' \in [AuxSlots -> BOOLEAN]
          /\ t_aux_slot' \in [Threads -> AuxSlots \cup {NoSlot}]
      <3>1. CASE t_aux_pinned[t]
        BY <3>1
      <3>2. CASE ~t_aux_pinned[t]
        BY <3>2, ZenonT(30)
      <3> QED BY <3>1, <3>2
    <2>2. TypeOK'
      BY <2>1, <2>0 DEF Epochs, Idle
    <2>3. SectionInv'
      BY <2>0 DEF SectionInv, AuxInv, SlotsExclusive, WriterInv, Slot
    <2>4. AuxInv'
      <3>1. CASE t_aux_pinned[t]
        BY <3>1, <2>0, SMTT(60) DEF AuxInv, SlotsExclusive
      <3>2. CASE ~t_aux_pinned[t]
        BY <3>2, <2>0, SMTT(60) DEF AuxInv, SlotsExclusive
      <3> QED BY <3>1, <3>2
    <2>5. WriterInv' /\ ActiveInv'
      BY DEF WriterInv, ActiveInv, Waiting
    <2>6. OlderInv' /\ ScanInv'
      BY DEF OlderInv, ScanInv, SectionInv, AuxInv, WriterInv, Waiting, Slot
    <2> QED BY <2>2, <2>3, <2>4, <2>5, <2>6
  <1>3. CASE rcu_aux_thread_pin(t)
    <2> USE <1>3 DEF rcu_aux_thread_pin, aux_slot_claim
    <2>1. CASE t_aux_slot[t] = NoSlot
      <3>1. PICK s \in AuxSlots:
              /\ ~in_use[s]
              /\ in_use' = [in_use EXCEPT ![s] = TRUE]
              /\ t_aux_slot' = [t_aux_slot EXCEPT ![t] = s]
        BY <2>1
      <3>2. TypeOK'
        BY <3>1
      <3>3. AuxInv'
        BY <2>1, <3>1, SMTT(60) DEF AuxInv, SlotsExclusive
      <3>4. /\ SectionInv' /\ WriterInv' /\ ActiveInv'
            /\ OlderInv' /\ ScanInv'
        BY <2>1, <3>1, SMTT(60) DEF SectionInv, AuxInv, WriterInv, ActiveInv, OlderInv,
                          ScanInv, Waiting, Slot
      <3> QED BY <3>2, <3>3, <3>4
    <2>2. CASE t_aux_slot[t] # NoSlot
      BY <2>2, SMTT(60) DEF SectionInv, AuxInv, SlotsExclusive, WriterInv, ActiveInv,
                  OlderInv, ScanInv, Waiting, Slot
    <2> QED BY <2>1, <2>2
  <1>4. CASE rcu_aux_thread_unpin(t)
    <2> USE <1>4 DEF rcu_aux_thread_unpin, ReleaseSlot
    <2>1. CASE t_aux_depth[t] = 0
      <3>1. t \in Aux /\ t_aux_slot[t] \in AuxSlots /\ rpc[t] = "out"
        BY <2>1 DEF AuxInv
      <3>2. TypeOK'
        BY <2>1, <3>1, ZenonT(30)
      <3>3. AuxInv'
        BY <2>1, <3>1, SMTT(60) DEF AuxInv, SlotsExclusive
      <3>4. SectionInv' /\ WriterInv' /\ ActiveInv'
        BY <3>1, <2>1 DEF SectionInv, AuxInv, WriterInv, ActiveInv, Waiting, Slot
      <3>5. OlderInv'
        BY DEF OlderInv
      <3>6. ScanInv'
        BY <3>1, <2>1, SMTT(60) DEF ScanInv, OlderInv, WriterInv, Waiting, Slot
      <3> QED BY <3>2, <3>3, <3>4, <3>5, <3>6
    <2>2. CASE t_aux_depth[t] # 0
      BY <2>2, SMTT(60) DEF SectionInv, AuxInv, SlotsExclusive, WriterInv, ActiveInv,
                  OlderInv, ScanInv, Waiting, Slot
    <2> QED BY <2>1, <2>2
  <1> QED BY <1>1, <1>2, <1>3, <1>4

\* The steps of a reader that leave the auxiliary slots alone keep it.
LEMMA SectionStepInd ==
  ASSUME IndInv, NEW t \in Threads,
         \/ AuxLockOuter(t) \/ AuxLockNested(t) \/ AuxUnlockNested(t)
         \/ rcu_reader_enter(t) \/ EnterLoad(t) \/ EnterStore(t) \/ DrainStore(t)
         \/ EnterFence(t) \/ (\E c \in Cells: LoadPointer(t, c)) \/ rcu_reader_exit(t)
  PROVE  IndInv'
  <1> USE DistinctAssumption, DepthAssumption
      DEF IndInv, TypeOK, rvars, avars, ovars, wvars, Threads, Slots, SectionInv,
          AuxInv, SlotsExclusive, WriterInv, ActiveInv, OlderInv, ScanInv, Waiting,
          Slot
  <1>1. CASE AuxLockOuter(t)
    BY <1>1, SMTT(60) DEF AuxLockOuter
  <1>2. CASE AuxLockNested(t)
    BY <1>2, SMTT(60) DEF AuxLockNested
  <1>3. CASE AuxUnlockNested(t)
    BY <1>3, SMTT(60) DEF AuxUnlockNested
  <1>4. CASE rcu_reader_enter(t)
    BY <1>4, SMTT(60) DEF rcu_reader_enter
  <1>5. CASE EnterLoad(t)
    BY <1>5, SMTT(60) DEF EnterLoad
  <1>6. CASE EnterStore(t)
    BY <1>6, SMTT(60) DEF EnterStore
  <1>7. CASE DrainStore(t)
    BY <1>7, SMTT(60) DEF DrainStore, Epochs
  <1>8. CASE EnterFence(t)
    BY <1>8, SMTT(60) DEF EnterFence
  <1>9. ASSUME NEW c \in Cells, LoadPointer(t, c) PROVE IndInv'
    BY <1>9, SMTT(60) DEF LoadPointer
  <1>10. CASE rcu_reader_exit(t)
    <2>1. TypeOK' /\ SectionInv' /\ AuxInv'
      BY <1>10, SMTT(60) DEF rcu_reader_exit, CloseSection, Epochs, Idle
    <2>2. WriterInv' /\ ActiveInv'
      BY <1>10, SMTT(60) DEF rcu_reader_exit, CloseSection
    <2>3. OlderInv' /\ ScanInv'
      BY <1>10, SMTT(60) DEF rcu_reader_exit, CloseSection, Epochs, Idle
    <2> QED BY <2>1, <2>2, <2>3, SMTT(60)
  <1> QED
    BY <1>1, <1>2, <1>3, <1>4, <1>5, <1>6, <1>7, <1>8, <1>9, <1>10, ZenonT(30)

\* The steps of a writer keep it.
LEMMA WriterStepInd ==
  ASSUME IndInv, NEW t \in Threads, WriterStep(t)
  PROVE  IndInv'
  <1> USE DistinctAssumption
      DEF IndInv, TypeOK, rvars, avars, ovars, wvars, SectionInv, AuxInv,
          SlotsExclusive, WriterInv, ActiveInv, OlderInv, ScanInv, Waiting, Slot,
          GP!Status
  <1>1. ASSUME NEW c \in Cells, NEW new \in Objects, PublishStore(t, c, new)
        PROVE  IndInv'
    <2>1. status[active[c]] = "active" /\ new # active[c]
      BY <1>1 DEF PublishStore
    <2>2. TypeOK'
      BY <1>1 DEF PublishStore
    <2>3. SectionInv' /\ AuxInv'
      BY <1>1 DEF PublishStore
    <2>4. WriterInv'
      BY <1>1, <2>1, SMTT(60) DEF PublishStore
    <2>5. ActiveInv'
      BY <1>1, <2>1 DEF PublishStore
    <2>6. OlderInv'
      BY <1>1, <2>1 DEF PublishStore
    <2>7. ScanInv'
      BY <1>1, <2>1, SMTT(60) DEF PublishStore
    <2> QED BY <2>2, <2>3, <2>4, <2>5, <2>6, <2>7
  <1>2. CASE rcu_writer_advance_epoch(t)
    BY <1>2, SMTT(60) DEF rcu_writer_advance_epoch
  <1>3. CASE RetirePush(t)
    BY <1>3, SMTT(60) DEF RetirePush
  <1>4. CASE WaitInReaderStart(t)
    BY <1>4, SMTT(60) DEF WaitInReaderStart, OwnSlot
  <1>5. ASSUME NEW o \in Objects, WaitStart(t, o) PROVE IndInv'
    BY <1>5, SMTT(60) DEF WaitStart
  <1>6. ASSUME NEW s \in Slots, ScanSlot(t, s) PROVE IndInv'
    BY <1>6, SMTT(60) DEF ScanSlot, epoch_blocks, Epochs, Idle
  <1>7. ASSUME NEW s \in Slots, ScanAgain(t, s) PROVE IndInv'
    BY <1>7, SMTT(60) DEF ScanAgain, OwnSlot
  <1>8. ASSUME NEW s \in Slots, GiveUp(t, s) PROVE IndInv'
    BY <1>8, SMTT(60) DEF GiveUp
  <1>9. CASE Reclaim(t)
    <2>1. \A u \in Threads: wobj[t] \notin held[u]
      BY <1>9, SMTT(60) DEF Reclaim
    <2>2. TypeOK' /\ SectionInv' /\ AuxInv' /\ ActiveInv'
      BY <1>9, SMTT(60) DEF Reclaim
    <2>3. WriterInv' /\ ScanInv'
      BY <1>9, SMTT(60) DEF Reclaim
    <2>4. OlderInv'
      BY <1>9, <2>1 DEF Reclaim
    <2> QED BY <2>2, <2>3, <2>4, SMTT(60)
  <1> QED
    BY <1>1, <1>2, <1>3, <1>4, <1>5, <1>6, <1>7, <1>8, <1>9, ZenonT(30) DEF WriterStep

LEMMA NextInd == IndInv /\ [Next]_vars => IndInv'
  <1> SUFFICES ASSUME IndInv, [Next]_vars PROVE IndInv'
    OBVIOUS
  <1>1. CASE UNCHANGED vars
    BY <1>1, SMTT(60) DEF vars, rvars, avars, ovars, wvars, IndInv, TypeOK, SectionInv, AuxInv,
                SlotsExclusive, WriterInv, ActiveInv, OlderInv, ScanInv, Waiting, Slot
  <1>2. ASSUME NEW t \in Threads, ReaderStep(t) PROVE IndInv'
    BY <1>2, SlotStepInd, SectionStepInd DEF ReaderStep
  <1>3. ASSUME NEW t \in Threads, WriterStep(t) PROVE IndInv'
    BY <1>3, WriterStepInd
  <1> QED
    BY <1>1, <1>2, <1>3 DEF Next

LEMMA SpecInd == Spec => []IndInv
  BY InitInd, NextInd, PTL DEF Spec

\* Every variable keeps its type in every behaviour of the epoch RCU.
THEOREM TypeCorrect == Spec => []TypeOK
  <1>1. IndInv => TypeOK
    BY DEF IndInv
  <1> QED BY <1>1, SpecInd, PTL

\* Whatever the numbers of readers, writers and pointers: no thread holds, in
\* the section it loaded it in, an object that a writer has reclaimed.
THEOREM ReadersAreSafe == Spec => []NoUseAfterFree
  <1>1. IndInv => NoUseAfterFree
    BY DEF IndInv, TypeOK, OlderInv, NoUseAfterFree
  <1> QED BY <1>1, SpecInd, PTL

\* A slot of g_aux_rcu_slots never has two owners, and is never lost.
THEOREM SlotsAreExclusive == Spec => []SlotsExclusive
  <1>1. IndInv => SlotsExclusive
    BY DEF IndInv, AuxInv
  <1> QED BY <1>1, SpecInd, PTL

-----------------------------------------------------------------------------
(* EpochRcu implements GracePeriod. *)

LEMMA GPInit == Init => GP!Init
  BY DEF Init, GP!Init

\* Most steps of a reader are invisible in GracePeriod: they move no thread
\* into or out of a section.
LEMMA GPReaderStep ==
  ASSUME IndInv, NEW t \in Threads, ReaderStep(t)
  PROVE  [GP!Next]_(GP!vars)
  <1> USE DEF IndInv, TypeOK, rvars, avars, ovars, wvars, GP!vars
  <1>1. CASE EnterFence(t)
    <2>1. GP!Enter(t)
      BY <1>1 DEF EnterFence, GP!Enter
    <2> QED BY <2>1 DEF GP!Next
  <1>2. CASE rcu_reader_exit(t)
    <2>1. GP!Exit(t)
      BY <1>2 DEF rcu_reader_exit, CloseSection, GP!Exit
    <2> QED BY <2>1 DEF GP!Next
  <1>3. CASE AuxUnlockOuter(t)
    <2>1. GP!Exit(t)
      BY <1>3 DEF AuxUnlockOuter, CloseSection, GP!Exit
    <2> QED BY <2>1 DEF GP!Next
  <1>4. CASE AuxLockOuter(t) \/ AuxLockClaim(t) \/ AuxLockNested(t)
    BY <1>4 DEF AuxLockOuter, AuxLockClaim, AuxLockNested
  <1>5. CASE rcu_reader_enter(t) \/ EnterLoad(t) \/ EnterStore(t) \/ DrainStore(t)
    BY <1>5 DEF rcu_reader_enter, EnterLoad, EnterStore, DrainStore
  <1>6. CASE AuxUnlockNested(t) \/ rcu_aux_thread_pin(t) \/ rcu_aux_thread_unpin(t)
    BY <1>6 DEF AuxUnlockNested, rcu_aux_thread_pin, rcu_aux_thread_unpin
  <1>7. ASSUME NEW c \in Cells, LoadPointer(t, c) PROVE [GP!Next]_(GP!vars)
    BY <1>7 DEF LoadPointer
  <1> QED
    BY <1>1, <1>2, <1>3, <1>4, <1>5, <1>6, <1>7 DEF ReaderStep

LEMMA GPWriterStep ==
  ASSUME IndInv, NEW t \in Threads, WriterStep(t)
  PROVE  [GP!Next]_(GP!vars)
  <1> USE DEF IndInv, TypeOK, rvars, avars, ovars, wvars, GP!vars
  <1>0. wpc[t] # "idle" => wobj[t] \in Objects
    BY DEF WriterInv
  <1>1. ASSUME NEW c \in Cells, NEW new \in Objects, PublishStore(t, c, new)
        PROVE  [GP!Next]_(GP!vars)
    <2>1. GP!Replace(active[c], new)
      BY <1>1 DEF PublishStore, GP!Replace, ActiveInv
    <2> QED BY <2>1 DEF GP!Next
  <1>2. CASE rcu_writer_advance_epoch(t)
    <2>1. GP!Retire(wobj[t])
      BY <1>2, <1>0 DEF rcu_writer_advance_epoch, GP!Retire, WriterInv
    <2> QED BY <2>1, <1>0, <1>2 DEF GP!Next, rcu_writer_advance_epoch
  <1>3. CASE RetirePush(t)
    BY <1>3 DEF RetirePush
  <1>4. CASE WaitInReaderStart(t)
    <2>1. GP!Await(wobj[t])
      BY <1>4, <1>0 DEF WaitInReaderStart, GP!Await, WriterInv
    <2> QED BY <2>1, <1>0, <1>4 DEF GP!Next, WaitInReaderStart
  <1>5. ASSUME NEW o \in Objects, WaitStart(t, o) PROVE [GP!Next]_(GP!vars)
    <2>1. GP!Await(o)
      BY <1>5 DEF WaitStart, GP!Await
    <2> QED BY <2>1 DEF GP!Next
  <1>6. ASSUME NEW s \in Slots, ScanSlot(t, s) \/ ScanAgain(t, s)
        PROVE  [GP!Next]_(GP!vars)
    BY <1>6 DEF ScanSlot, ScanAgain
  <1>7. ASSUME NEW s \in Slots, GiveUp(t, s) PROVE [GP!Next]_(GP!vars)
    <2>1. GP!GiveUp(wobj[t])
      BY <1>7, <1>0, ZenonT(30) DEF GiveUp, GP!GiveUp, WriterInv, Waiting
    <2> QED BY <2>1, <1>0, <1>7 DEF GP!Next, GiveUp, Waiting
  <1>8. CASE Reclaim(t)
    <2>1. older[wobj[t]] \subseteq {t}
      BY <1>8, <1>0 DEF Reclaim, ScanInv, Waiting
    <2>2. GP!Reclaim(wobj[t], t)
      BY <1>8, <1>0, <2>1 DEF Reclaim, GP!Reclaim, WriterInv, Waiting
    <2> QED BY <2>2, <1>0, <1>8 DEF GP!Next, Reclaim, Waiting
  <1> QED
    BY <1>1, <1>2, <1>3, <1>4, <1>5, <1>6, <1>7, <1>8 DEF WriterStep

\* The detailed protocol implements the promise that the other components use:
\* an object is reclaimed only after every older section is closed.
THEOREM EpochRcuImplementsGracePeriod == Spec => ImplementsGracePeriod
  <1>1. IndInv /\ [Next]_vars => [GP!Next]_(GP!vars)
    <2> SUFFICES ASSUME IndInv, [Next]_vars PROVE [GP!Next]_(GP!vars)
      OBVIOUS
    <2>1. CASE UNCHANGED vars
      BY <2>1 DEF vars, rvars, avars, ovars, wvars, GP!vars
    <2> QED
      BY <2>1, GPReaderStep, GPWriterStep DEF Next
  <1> QED
    BY <1>1, GPInit, SpecInd, PTL DEF Spec, ImplementsGracePeriod, GP!Spec
=============================================================================
