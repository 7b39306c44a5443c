----------------------------- MODULE EpochRcu ------------------------------
(***************************************************************************)
(* The epoch based read-copy-update of dns_epoch_rcu.{h,c}.                *)
(*                                                                         *)
(* A thread is a reader and may be a writer as well (a worker that answers *)
(* an UPDATE publishes inside its own read section).  Dedicated threads    *)
(* (workers, loggers, asynchronous I/O) own a slot each; auxiliary threads *)
(* claim one of a fixed table of slots.  A store to a slot waits in the    *)
(* store buffer of the thread until it drains; only the fence of           *)
(* rcu_epoch_enter() makes the reader wait for that.  A relaxed load of    *)
(* the epoch may be as old as the thread's last step, which the step       *)
(* between loading and storing the epoch gives.                            *)
(*                                                                         *)
(* The writers of one pointer are serialised by a lock in the code; the    *)
(* model lets them interleave, so what it shows does not rest on the lock. *)
(***************************************************************************)
EXTENDS Integers

CONSTANTS
  Dedicated,  \* threads with a slot of their own; the thread names the slot
  Aux,        \* threads that use g_aux_rcu_slots
  AuxSlots,   \* the slots of g_aux_rcu_slots
  Cells,      \* the protected pointers
  Objects,    \* what the pointers point to; an object is published once
  InitialActive, \* the object each pointer starts with
  MaxDepth,   \* bound of the nesting of auxiliary read sections
  NoSlot, NoObj

Threads == Dedicated \cup Aux
Slots == Dedicated \cup AuxSlots

ASSUME DistinctAssumption ==
  /\ Dedicated \cap Aux = {}
  /\ Dedicated \cap AuxSlots = {}
  /\ NoSlot \notin Slots
  /\ NoObj \notin Objects
ASSUME ActiveAssumption ==
  /\ InitialActive \in [Cells -> Objects]
  /\ \A c, d \in Cells: InitialActive[c] = InitialActive[d] => c = d
ASSUME DepthAssumption == MaxDepth \in Nat \ {0}

\* RCU_EPOCH_IDLE (UINT64_MAX in the code): no epoch has this value.
Idle == -1

VARIABLES
  g_global_epoch,
  observed,     \* Slots -> epoch or Idle, as other threads see it
  in_use,       \* AuxSlots -> BOOLEAN
  active,       \* Cells -> the object the pointer points to
  status,       \* Objects -> see GracePeriod
  retire_epoch, \* Objects -> the epoch the publisher got back
  rpc,          \* Threads -> where the thread is in rcu_epoch_enter()
  e,            \* Threads -> the epoch loaded by rcu_epoch_enter()
  buffered,     \* Threads -> the store of e has not drained yet
  held,         \* Threads -> the objects loaded in the current section
  t_aux_slot, t_aux_depth, t_aux_pinned,
  wpc,          \* Threads -> where the thread is as a writer
  wobj,         \* Threads -> the object it publishes away or waits for
  unscanned,    \* Threads -> the slots readers_safe() has still to look at
  older         \* history: the sections open since before the retirement

rvars == <<observed, rpc, e, buffered, held>>
avars == <<in_use, t_aux_slot, t_aux_depth, t_aux_pinned>>
ovars == <<g_global_epoch, active, status, retire_epoch>>
wvars == <<wpc, wobj, unscanned>>
vars == <<rvars, avars, ovars, wvars, older>>

GP == INSTANCE GracePeriod
        WITH section <- {t \in Threads: rpc[t] = "in"}

Epochs == Nat \cup {Idle}

\* Every variable has its type: a slot shows an epoch or Idle, a thread stands at
\* a point of rcu_epoch_enter() and of a publication.
TypeOK ==
  /\ g_global_epoch \in Nat
  /\ observed \in [Slots -> Epochs]
  /\ in_use \in [AuxSlots -> BOOLEAN]
  /\ active \in [Cells -> Objects]
  /\ status \in [Objects -> GP!Status]
  /\ retire_epoch \in [Objects -> Nat]
  /\ rpc \in [Threads -> {"out", "claim", "enter", "loaded", "stored", "in"}]
  /\ e \in [Threads -> Nat]
  /\ buffered \in [Threads -> BOOLEAN]
  /\ held \in [Threads -> SUBSET Objects]
  /\ t_aux_slot \in [Threads -> AuxSlots \cup {NoSlot}]
  /\ t_aux_depth \in [Threads -> 0 .. MaxDepth]
  /\ t_aux_pinned \in [Threads -> BOOLEAN]
  /\ wpc \in [Threads -> {"idle", "stored", "advanced", "wait", "wait_in_reader"}]
  /\ wobj \in [Threads -> Objects \cup {NoObj}]
  /\ unscanned \in [Threads -> SUBSET Slots]
  /\ older \in [Objects -> SUBSET Threads]

Init ==
  /\ g_global_epoch = 0
  /\ observed = [s \in Slots |-> Idle]
  /\ in_use = [s \in AuxSlots |-> FALSE]
  /\ active = InitialActive
  /\ status = [o \in Objects |->
                 IF \E c \in Cells: InitialActive[c] = o THEN "active" ELSE "fresh"]
  /\ retire_epoch = [o \in Objects |-> 0]
  /\ rpc = [t \in Threads |-> "out"]
  /\ e = [t \in Threads |-> 0]
  /\ buffered = [t \in Threads |-> FALSE]
  /\ held = [t \in Threads |-> {}]
  /\ t_aux_slot = [t \in Threads |-> NoSlot]
  /\ t_aux_depth = [t \in Threads |-> 0]
  /\ t_aux_pinned = [t \in Threads |-> FALSE]
  /\ wpc = [t \in Threads |-> "idle"]
  /\ wobj = [t \in Threads |-> NoObj]
  /\ unscanned = [t \in Threads |-> {}]
  /\ older = [o \in Objects |-> {}]

-----------------------------------------------------------------------------
(* Readers *)

Slot(t) == IF t \in Dedicated THEN t ELSE t_aux_slot[t]

\* aux_slot_claim(): the compare-and-swap that takes a free slot.  When every
\* slot is in use the thread waits: nothing is enabled for it.
aux_slot_claim(t) ==
  \E s \in AuxSlots:
    /\ ~in_use[s]
    /\ in_use' = [in_use EXCEPT ![s] = TRUE]
    /\ t_aux_slot' = [t_aux_slot EXCEPT ![t] = s]

rcu_aux_thread_pin(t) ==
  /\ t \in Aux /\ wpc[t] = "idle" /\ rpc[t] \in {"out", "in"}
  /\ ~t_aux_pinned[t]
  /\ IF t_aux_slot[t] = NoSlot
       THEN aux_slot_claim(t)
       ELSE UNCHANGED <<in_use, t_aux_slot>>
  /\ t_aux_pinned' = [t_aux_pinned EXCEPT ![t] = TRUE]
  /\ UNCHANGED <<rvars, t_aux_depth, ovars, wvars, older>>

ReleaseSlot(t) ==
  /\ in_use' = [in_use EXCEPT ![t_aux_slot[t]] = FALSE]
  /\ t_aux_slot' = [t_aux_slot EXCEPT ![t] = NoSlot]

\* A bug: unpin gives the slot away inside a section.
UnpinInsideSection(t) ==
  /\ t \in Aux /\ wpc[t] = "idle" /\ rpc[t] \in {"out", "in"}
  /\ t_aux_pinned[t]
  /\ t_aux_pinned' = [t_aux_pinned EXCEPT ![t] = FALSE]
  /\ in_use' = [in_use EXCEPT ![t_aux_slot[t]] = FALSE]
  /\ UNCHANGED <<rvars, t_aux_slot, t_aux_depth, ovars, wvars, older>>

rcu_aux_thread_unpin(t) ==
  /\ t \in Aux /\ wpc[t] = "idle" /\ rpc[t] \in {"out", "in"}
  /\ t_aux_pinned[t]
  /\ t_aux_pinned' = [t_aux_pinned EXCEPT ![t] = FALSE]
  /\ IF t_aux_depth[t] = 0
       THEN ReleaseSlot(t)
       ELSE UNCHANGED <<in_use, t_aux_slot>>
  /\ UNCHANGED <<rvars, t_aux_depth, ovars, wvars, older>>

\* rcu_aux_read_lock(): only the outermost call enters.
AuxLockOuter(t) ==
  /\ t \in Aux /\ wpc[t] = "idle" /\ rpc[t] = "out"
  /\ t_aux_depth[t] = 0
  /\ t_aux_depth' = [t_aux_depth EXCEPT ![t] = 1]
  /\ rpc' = [rpc EXCEPT ![t] = IF t_aux_slot[t] = NoSlot THEN "claim" ELSE "enter"]
  /\ UNCHANGED <<observed, e, buffered, held, in_use, t_aux_slot, t_aux_pinned,
                 ovars, wvars, older>>

AuxLockClaim(t) ==
  /\ rpc[t] = "claim"
  /\ aux_slot_claim(t)
  /\ rpc' = [rpc EXCEPT ![t] = "enter"]
  /\ UNCHANGED <<observed, e, buffered, held, t_aux_depth, t_aux_pinned,
                 ovars, wvars, older>>

AuxLockNested(t) ==
  /\ t \in Aux /\ wpc[t] = "idle" /\ rpc[t] = "in"
  /\ t_aux_depth[t] \in 1 .. MaxDepth - 1
  /\ t_aux_depth' = [t_aux_depth EXCEPT ![t] = @ + 1]
  /\ UNCHANGED <<rvars, in_use, t_aux_slot, t_aux_pinned, ovars, wvars, older>>

\* rcu_reader_enter() / rcu_slot_reader_enter(): a dedicated thread.
rcu_reader_enter(t) ==
  /\ t \in Dedicated /\ wpc[t] = "idle" /\ rpc[t] = "out"
  /\ rpc' = [rpc EXCEPT ![t] = "enter"]
  /\ UNCHANGED <<observed, e, buffered, held, avars, ovars, wvars, older>>

\* The three steps of rcu_epoch_enter().
EnterLoad(t) ==
  /\ rpc[t] = "enter"
  /\ e' = [e EXCEPT ![t] = g_global_epoch]
  /\ rpc' = [rpc EXCEPT ![t] = "loaded"]
  /\ UNCHANGED <<observed, buffered, held, avars, ovars, wvars, older>>

EnterStore(t) ==
  /\ rpc[t] = "loaded"
  /\ buffered' = [buffered EXCEPT ![t] = TRUE]
  /\ rpc' = [rpc EXCEPT ![t] = "stored"]
  /\ UNCHANGED <<observed, e, held, avars, ovars, wvars, older>>

\* The processor lets the buffered store become visible.
DrainStore(t) ==
  /\ buffered[t]
  /\ observed' = [observed EXCEPT ![Slot(t)] = e[t]]
  /\ buffered' = [buffered EXCEPT ![t] = FALSE]
  /\ UNCHANGED <<rpc, e, held, avars, ovars, wvars, older>>

EnterFence(t) ==
  /\ rpc[t] = "stored"
  /\ ~buffered[t]
  /\ rpc' = [rpc EXCEPT ![t] = "in"]
  /\ UNCHANGED <<observed, e, buffered, held, avars, ovars, wvars, older>>

\* A load of a protected pointer; the thread may use the object from now on.
LoadPointer(t, c) ==
  /\ rpc[t] = "in" /\ wpc[t] = "idle"
  /\ held' = [held EXCEPT ![t] = @ \cup {active[c]}]
  /\ UNCHANGED <<observed, rpc, e, buffered, avars, ovars, wvars, older>>

\* A bug: the slot is not set back to idle.
CloseSectionKeepsEpoch(t) ==
  /\ rpc' = [rpc EXCEPT ![t] = "out"]
  /\ held' = [held EXCEPT ![t] = {}]
  /\ older' = [o \in Objects |-> older[o] \ {t}]
  /\ UNCHANGED <<observed, e, buffered>>

\* rcu_epoch_exit(): the section ends and with it the use of what it loaded.
CloseSection(t) ==
  /\ observed' = [observed EXCEPT ![Slot(t)] = Idle]
  /\ rpc' = [rpc EXCEPT ![t] = "out"]
  /\ held' = [held EXCEPT ![t] = {}]
  /\ older' = [o \in Objects |-> older[o] \ {t}]
  /\ UNCHANGED <<e, buffered>>

rcu_reader_exit(t) ==
  /\ t \in Dedicated /\ wpc[t] = "idle" /\ rpc[t] = "in"
  /\ CloseSection(t)
  /\ UNCHANGED <<avars, ovars, wvars>>

\* A bug: the inner unlock of a nested section closes it.
AuxUnlockForgetsDepth(t) ==
  /\ t \in Aux /\ wpc[t] = "idle" /\ rpc[t] = "in" /\ t_aux_depth[t] > 1
  /\ t_aux_depth' = [t_aux_depth EXCEPT ![t] = @ - 1]
  /\ observed' = [observed EXCEPT ![Slot(t)] = Idle]
  /\ UNCHANGED <<rpc, e, buffered, held, in_use, t_aux_slot, t_aux_pinned,
                 ovars, wvars, older>>

\* rcu_aux_read_unlock(): only the outermost call exits.
AuxUnlockNested(t) ==
  /\ t \in Aux /\ wpc[t] = "idle" /\ rpc[t] = "in" /\ t_aux_depth[t] > 1
  /\ t_aux_depth' = [t_aux_depth EXCEPT ![t] = @ - 1]
  /\ UNCHANGED <<rvars, in_use, t_aux_slot, t_aux_pinned, ovars, wvars, older>>

AuxUnlockOuter(t) ==
  /\ t \in Aux /\ wpc[t] = "idle" /\ rpc[t] = "in" /\ t_aux_depth[t] = 1
  /\ t_aux_depth' = [t_aux_depth EXCEPT ![t] = 0]
  /\ CloseSection(t)
  /\ IF t_aux_pinned[t]
       THEN UNCHANGED <<in_use, t_aux_slot>>
       ELSE ReleaseSlot(t)
  /\ UNCHANGED <<t_aux_pinned, ovars, wvars>>

-----------------------------------------------------------------------------
(* Writers *)

\* The store of rcu_writer_publish().
PublishStore(t, c, new) ==
  /\ wpc[t] = "idle" /\ rpc[t] \in {"out", "in"}
  /\ status[new] = "fresh"
  /\ active' = [active EXCEPT ![c] = new]
  /\ status' = [status EXCEPT ![active[c]] = "unlinked", ![new] = "active"]
  /\ wpc' = [wpc EXCEPT ![t] = "stored"]
  /\ wobj' = [wobj EXCEPT ![t] = active[c]]
  /\ UNCHANGED <<rvars, avars, g_global_epoch, retire_epoch, unscanned, older>>

\* rcu_writer_advance_epoch(), called by rcu_writer_publish().
rcu_writer_advance_epoch(t) ==
  /\ wpc[t] = "stored"
  /\ g_global_epoch' = g_global_epoch + 1
  /\ retire_epoch' = [retire_epoch EXCEPT ![wobj[t]] = g_global_epoch]
  /\ status' = [status EXCEPT ![wobj[t]] = "retired"]
  /\ older' = [older EXCEPT ![wobj[t]] = {u \in Threads: rpc[u] = "in"}]
  /\ wpc' = [wpc EXCEPT ![t] = "advanced"]
  /\ UNCHANGED <<rvars, avars, active, wobj, unscanned>>

\* The retired object is queued for a thread that waits outside of sections.
RetirePush(t) ==
  /\ wpc[t] = "advanced"
  /\ wpc' = [wpc EXCEPT ![t] = "idle"]
  /\ wobj' = [wobj EXCEPT ![t] = NoObj]
  /\ UNCHANGED <<rvars, avars, ovars, unscanned, older>>

\* rcu_writer_wait_until_safe_in_reader(): there is no memory for the queue, and
\* the publisher waits itself, not for its own slot (t_rcu_own_observed).  Its
\* caller does not use the replaced object afterwards.
OwnSlot(t) == IF t \in Dedicated THEN {t} ELSE {}

WaitInReaderStart(t) ==
  /\ wpc[t] = "advanced"
  /\ wpc' = [wpc EXCEPT ![t] = "wait_in_reader"]
  /\ status' = [status EXCEPT ![wobj[t]] = "waiting"]
  /\ unscanned' = [unscanned EXCEPT ![t] = Slots \ OwnSlot(t)]
  /\ held' = [held EXCEPT ![t] = @ \ {wobj[t]}]
  /\ UNCHANGED <<observed, rpc, e, buffered, avars, g_global_epoch, active,
                 retire_epoch, wobj, older>>

\* rcu_writer_wait_until_safe() / rcu_writer_is_safe(), outside of any section,
\* by a thread that took the object off the queue.
WaitStart(t, o) ==
  /\ wpc[t] = "idle" /\ rpc[t] = "out"
  /\ status[o] = "retired"
  /\ \A u \in Threads: wobj[u] # o
  /\ wpc' = [wpc EXCEPT ![t] = "wait"]
  /\ wobj' = [wobj EXCEPT ![t] = o]
  /\ status' = [status EXCEPT ![o] = "waiting"]
  /\ unscanned' = [unscanned EXCEPT ![t] = Slots]
  /\ UNCHANGED <<rvars, avars, g_global_epoch, active, retire_epoch, older>>

Waiting(t) == wpc[t] \in {"wait", "wait_in_reader"}

\* A bug: a reader that observed the retire epoch itself does not block.
EpochBlocksStrict(s, o) == observed[s] # Idle /\ observed[s] < retire_epoch[o]

epoch_blocks(s, o) == observed[s] # Idle /\ observed[s] <= retire_epoch[o]

\* readers_safe() looks at one slot.  The code's order of the slots is one of
\* the orders the model allows.
ScanSlot(t, s) ==
  /\ Waiting(t) /\ s \in unscanned[t]
  /\ ~epoch_blocks(s, wobj[t])
  /\ unscanned' = [unscanned EXCEPT ![t] = @ \ {s}]
  /\ UNCHANGED <<rvars, avars, ovars, wpc, wobj, older>>

\* A slot blocks: wait_until_safe_impl() backs off and scans again ...
ScanAgain(t, s) ==
  /\ Waiting(t) /\ s \in unscanned[t]
  /\ epoch_blocks(s, wobj[t])
  /\ unscanned' = [unscanned EXCEPT ![t] =
                     IF wpc[t] = "wait" THEN Slots ELSE Slots \ OwnSlot(t)]
  /\ UNCHANGED <<rvars, avars, ovars, wpc, wobj, older>>

\* ... or its time is over, or it was the single look of rcu_writer_is_safe():
\* the object goes back to the queue, or is leaked where there is no memory.
GiveUp(t, s) ==
  /\ Waiting(t) /\ s \in unscanned[t]
  /\ epoch_blocks(s, wobj[t])
  /\ status' = [status EXCEPT ![wobj[t]] =
                  IF wpc[t] = "wait" THEN "retired" ELSE "leaked"]
  /\ wpc' = [wpc EXCEPT ![t] = "idle"]
  /\ wobj' = [wobj EXCEPT ![t] = NoObj]
  /\ unscanned' = [unscanned EXCEPT ![t] = {}]
  /\ UNCHANGED <<rvars, avars, g_global_epoch, active, retire_epoch, older>>

\* All slots passed: the caller frees the object.
Reclaim(t) ==
  /\ Waiting(t) /\ unscanned[t] = {}
  /\ status' = [status EXCEPT ![wobj[t]] = "freed"]
  /\ wpc' = [wpc EXCEPT ![t] = "idle"]
  /\ wobj' = [wobj EXCEPT ![t] = NoObj]
  /\ UNCHANGED <<rvars, avars, g_global_epoch, active, retire_epoch, unscanned,
                 older>>

-----------------------------------------------------------------------------
ReaderStep(t) ==
  \/ AuxLockOuter(t) \/ AuxLockClaim(t) \/ AuxLockNested(t)
  \/ rcu_reader_enter(t) \/ EnterLoad(t) \/ EnterStore(t) \/ EnterFence(t)
  \/ rcu_reader_exit(t) \/ AuxUnlockNested(t) \/ AuxUnlockOuter(t)
  \/ rcu_aux_thread_pin(t) \/ rcu_aux_thread_unpin(t)
  \/ DrainStore(t)
  \/ \E c \in Cells: LoadPointer(t, c)

WriterStep(t) ==
  \/ \E c \in Cells, new \in Objects: PublishStore(t, c, new)
  \/ rcu_writer_advance_epoch(t) \/ RetirePush(t) \/ WaitInReaderStart(t)
  \/ \E o \in Objects: WaitStart(t, o)
  \/ \E s \in Slots: ScanSlot(t, s) \/ ScanAgain(t, s) \/ GiveUp(t, s)
  \/ Reclaim(t)

Next == \E t \in Threads: ReaderStep(t) \/ WriterStep(t)

Spec == Init /\ [][Next]_vars

\* Scheduling: a thread that entered a section leaves it, a publisher and a
\* waiting thread go on, the queue is looked at again and again (the control
\* thread's tick, the collector threads), and the time of a wait runs out.
Fairness ==
  /\ \A t \in Threads:
       /\ WF_vars(EnterLoad(t) \/ EnterStore(t) \/ DrainStore(t) \/ EnterFence(t))
       /\ WF_vars(rcu_reader_exit(t))
       /\ SF_vars(AuxUnlockOuter(t)) /\ WF_vars(AuxUnlockNested(t))
       /\ WF_vars(rcu_writer_advance_epoch(t))
       /\ WF_vars(RetirePush(t) \/ WaitInReaderStart(t))
       /\ WF_vars(\E s \in Slots: ScanSlot(t, s) \/ ScanAgain(t, s))
       /\ SF_vars(\E s \in Slots: wpc[t] = "wait_in_reader" /\ GiveUp(t, s))
       /\ WF_vars(Reclaim(t))
  /\ \A o \in Objects: SF_vars(\E t \in Threads: WaitStart(t, o))

FairSpec == Spec /\ Fairness

-----------------------------------------------------------------------------
(* Properties *)

\* No thread ever holds, inside the section it loaded it in, an object that a
\* writer has reclaimed: rcu_epoch_enter()'s store-fence-load against the
\* publish-fence-scan of rcu_writer_publish() and readers_safe().
NoUseAfterFree ==
  \A t \in Threads: \A o \in held[t]: status[o] # "freed"

\* aux_slot_claim(): a slot belongs to one thread at a time, so no thread's
\* unlock closes the section another thread is still in.
SlotsExclusive ==
  /\ \A t, u \in Aux: t_aux_slot[t] = t_aux_slot[u] /\ t # u => t_aux_slot[t] = NoSlot
  /\ \A s \in AuxSlots: in_use[s] <=> \E t \in Aux: t_aux_slot[t] = s

\* The epochs, slots and scans keep the promise of GracePeriod: reclaiming an
\* object happens only after every older section is closed.
ImplementsGracePeriod == GP!Spec

\* Under the scheduling above every object that is retired is in the end
\* reclaimed, or leaked by the out-of-memory path of zone_version_retire():
\* readers that keep entering never hold up the reclaiming for ever.
RetiredIsReclaimed ==
  \A o \in Objects: (status[o] = "retired") ~> (status[o] \in {"freed", "leaked"})
-----------------------------------------------------------------------------
(* The inductive invariant behind NoUseAfterFree, part by part. *)

\* Where a thread stands in its section, its slot shows the epoch it loaded.
SectionInv ==
  \A t \in Threads:
    /\ e[t] <= g_global_epoch
    /\ buffered[t] => rpc[t] = "stored"
    /\ rpc[t] \in {"stored", "in"} /\ ~buffered[t] => observed[Slot(t)] = e[t]
    /\ rpc[t] # "in" => held[t] = {}
    /\ rpc[t] \in {"enter", "loaded", "stored", "in"} => Slot(t) \in Slots

\* Who owns an auxiliary slot, and for how long.
AuxInv ==
  /\ \A t \in Dedicated: t_aux_slot[t] = NoSlot /\ rpc[t] # "claim"
  /\ \A t \in Aux:
       /\ t_aux_depth[t] = 0 <=> rpc[t] = "out"
       /\ t_aux_pinned[t] => t_aux_slot[t] # NoSlot
       /\ rpc[t] = "claim" => t_aux_slot[t] = NoSlot
       /\ rpc[t] = "out" /\ ~t_aux_pinned[t] => t_aux_slot[t] = NoSlot
  /\ SlotsExclusive

\* What a writer works on is in the state its step needs, and is its alone.
WriterInv ==
  /\ \A t \in Threads:
       /\ wpc[t] = "idle" <=> wobj[t] = NoObj
       /\ wpc[t] = "stored" => status[wobj[t]] = "unlinked"
       /\ wpc[t] = "advanced" => status[wobj[t]] = "retired"
       /\ Waiting(t) => status[wobj[t]] = "waiting"
       /\ wpc[t] = "wait_in_reader" => wobj[t] \notin held[t]
       /\ wpc[t] # "idle" => rpc[t] \in {"out", "in"}
  /\ \A t, u \in Threads: wobj[t] = wobj[u] /\ t # u => wobj[t] = NoObj

\* A pointer never points to an object that left it.
ActiveInv ==
  /\ \A c \in Cells: status[active[c]] = "active"
  /\ \A c1, c2 \in Cells: active[c1] = active[c2] => c1 = c2

\* The sections that a retired object has to outlive.
OlderInv ==
  \A o \in Objects:
    /\ \A t \in older[o]: rpc[t] = "in" /\ e[t] <= retire_epoch[o]
    /\ older[o] # {} => status[o] \notin {"fresh", "active", "unlinked"}
    /\ \A t \in Threads:
         o \in held[t] =>
           /\ status[o] \notin {"fresh", "freed"}
           /\ status[o] \in {"retired", "waiting", "leaked"} => t \in older[o]

\* A slot that a scan has passed holds nobody older but the scanner itself.
ScanInv ==
  \A u \in Threads:
    Waiting(u) =>
      \A t \in older[wobj[u]]: Slot(t) \notin unscanned[u] => t = u /\ wpc[u] = "wait_in_reader"

\* All parts together, which every step of readers and writers keeps: what
\* rcu_epoch_enter() and readers_safe() rely on of each other.
IndInv ==
  TypeOK /\ SectionInv /\ AuxInv /\ WriterInv /\ ActiveInv /\ OlderInv /\ ScanInv
=============================================================================
