----------------------------- MODULE ParkTable ------------------------------
(***************************************************************************)
(* The park table of one worker (dns_park.c): a fixed array of entries, a  *)
(* stack of free indexes, two counters that end the scans early, and a     *)
(* lower bound of the deadlines that the worker sleeps by.  Only the       *)
(* worker calls it, so every operation is one step; what can go wrong is   *)
(* that a counter or the bound no longer fits the entries after some       *)
(* sequence of calls, and a scan then stops before an entry it should see. *)
(***************************************************************************)
EXTENDS Integers, Sequences, FiniteSets

CONSTANTS
    Cap,        \* entries of the table (park_init)
    Zones,      \* the zones queries wait for
    Timeouts,   \* the times a query may have left when it parks
    INT64_MAX,  \* min_deadline_ms when nothing waits
    MaxNow      \* bound: the clock stops here

ASSUME TableAssumption ==
    /\ Cap \in Nat \ {0}
    /\ Zones # {}
    /\ Timeouts \subseteq Nat \ {0}
    /\ MaxNow \in Nat
    /\ INT64_MAX \in Nat
    /\ \A t \in Timeouts : MaxNow + t < INT64_MAX

VARIABLES
    st,         \* st[i]: state of entry i
    zone,       \* zone[i]: the zone entry i waits for
    deadline,   \* deadline[i]
    free,       \* free_idx[0 .. nfree-1], the top last
    nwait,      \* number of WAIT entries
    nready,     \* number of READY and TIMEOUT entries
    minDl,      \* min_deadline_ms
    cursor,     \* the done entries are served from here on, or NoService
    now         \* the clock

vars == <<st, zone, deadline, free, nwait, nready, minDl, cursor, now>>

Idx == 0..(Cap - 1)
NoService == Cap + 1
States == {"FREE", "WAIT", "READY", "TIMEOUT"}

Waits == {i \in Idx : st[i] = "WAIT"}
Dones == {i \in Idx : st[i] \in {"READY", "TIMEOUT"}}
Frees == {i \in Idx : st[i] = "FREE"}

\* park_init(): entry 0 is on top of the stack
Init ==
    /\ st = [i \in Idx |-> "FREE"]
    /\ zone \in [Idx -> Zones]
    /\ deadline = [i \in Idx |-> 0]
    /\ free = [k \in 1..Cap |-> Cap - k]
    /\ nwait = 0 /\ nready = 0
    /\ minDl = INT64_MAX
    /\ cursor = NoService
    /\ now = 0

\* a scan looks at the entries in order and ends when it has seen n that wait
Seen(n) == {i \in Waits : Cardinality({j \in Waits : j < i}) < n}

\* mutant: the bound is that of the last entry
BoundLast(d) == d
\* park_take(): the bound never rises when an entry is taken
Bound(d) == IF d < minDl THEN d ELSE minDl

Top == free[Len(free)]

\* park_udp(), park_tcp() -> park_take()
park_take(z, t) ==
    LET i == Top IN
    /\ free # <<>>
    /\ free' = SubSeq(free, 1, Len(free) - 1)
    /\ st' = [st EXCEPT ![i] = "WAIT"]
    /\ zone' = [zone EXCEPT ![i] = z]
    /\ deadline' = [deadline EXCEPT ![i] = now + t]
    /\ minDl' = Bound(now + t)
    /\ nwait' = nwait + 1
    /\ UNCHANGED <<nready, cursor, now>>

\* the entries W leave the state WAIT
Finish(W, how) ==
    /\ st' = [i \in Idx |-> IF i \in W THEN how ELSE st[i]]
    /\ nwait' = nwait - Cardinality(W)
    /\ nready' = nready + Cardinality(W)

\* park_wake(), park_fail() of a zone
park_wake(z, how) ==
    /\ nwait > 0 /\ cursor = NoService
    /\ Finish({i \in Seen(nwait) : zone[i] = z}, how)
    /\ UNCHANGED <<zone, deadline, free, minDl, cursor, now>>

\* park_wake_all(): the scan ends when the counter is 0
park_wake_all ==
    /\ nwait > 0 /\ cursor = NoService
    /\ Finish(Seen(nwait), "READY")
    /\ UNCHANGED <<zone, deadline, free, minDl, cursor, now>>

\* the smallest deadline of the entries W
MinDeadline(W) ==
    IF W = {} THEN INT64_MAX
    ELSE CHOOSE d \in {deadline[i] : i \in W} : \A i \in W : d <= deadline[i]

\* mutant: an entry is due a tick late
DueLate(i) == deadline[i] < now
Due(i) == deadline[i] <= now

\* mutant: the first entry is left out
FirstSkipped == 1
First == 0

\* park_expire(), and the service of the done entries begins
park_expire ==
    LET due == {i \in Seen(nwait) : Due(i)} IN
    /\ cursor = NoService
    /\ IF nwait = 0 \/ now < minDl
       THEN UNCHANGED <<st, nwait, nready, minDl>>
       ELSE Finish(due, "TIMEOUT") /\ minDl' = MinDeadline(Seen(nwait) \ due)
    /\ cursor' = First
    /\ UNCHANGED <<zone, deadline, free, now>>

\* park_release()
park_release(i) ==
    /\ st' = [st EXCEPT ![i] = "FREE"]
    /\ free' = Append(free, i)
    /\ IF st[i] = "WAIT"
       THEN /\ nwait' = nwait - 1
            /\ minDl' = IF nwait = 1 THEN INT64_MAX ELSE minDl
            /\ nready' = nready
       ELSE nready' = nready - 1 /\ UNCHANGED <<nwait, minDl>>

\* a request that could not be handed over, or a connection that is closed
\* (park_cancel_tcp()), gives its entry back
Cancel(i) ==
    /\ st[i] = "WAIT" \/ (st[i] # "FREE" /\ cursor = NoService)
    /\ park_release(i)
    /\ UNCHANGED <<zone, deadline, cursor, now>>

\* park_next_done() finds an entry at the cursor or behind it; it is released
\* before its request runs
ServeNext(i) ==
    /\ cursor # NoService /\ nready > 0
    /\ i \in Dones /\ i >= cursor /\ \A j \in Dones : j >= cursor => i <= j
    /\ park_release(i)
    /\ cursor' = i + 1
    /\ UNCHANGED <<zone, deadline, now>>

\* park_next_done() finds none
ServeEnd ==
    /\ cursor # NoService
    /\ nready = 0 \/ \A j \in Dones : j < cursor
    /\ cursor' = NoService
    /\ UNCHANGED <<st, zone, deadline, free, nwait, nready, minDl, now>>

Tick ==
    /\ now < MaxNow
    /\ now' = now + 1
    /\ UNCHANGED <<st, zone, deadline, free, nwait, nready, minDl, cursor>>

Next ==
    \/ \E z \in Zones, t \in Timeouts : park_take(z, t)
    \/ \E z \in Zones, how \in {"READY", "TIMEOUT"} : park_wake(z, how)
    \/ park_wake_all \/ park_expire
    \/ \E i \in Idx : Cancel(i) \/ ServeNext(i)
    \/ ServeEnd \/ Tick

Spec == Init /\ [][Next]_vars

-----------------------------------------------------------------------------
\* Every variable has its type; the counters are counts of entries.
TypeOK ==
    /\ st \in [Idx -> States]
    /\ zone \in [Idx -> Zones]
    /\ deadline \in [Idx -> Nat]
    /\ free \in Seq(Idx)
    /\ nwait \in 0..Cap /\ nready \in 0..Cap
    /\ minDl \in Nat
    /\ cursor \in 0..NoService
    /\ now \in 0..MaxNow

\* The counters that end the scans of dns_park.c early are the numbers of the
\* entries they stand for, after every sequence of calls.
CountersExact == nwait = Cardinality(Waits) /\ nready = Cardinality(Dones)

\* free_idx lists every free entry once, and no entry in use: no entry is given
\* out twice and none is lost.
FreeExact ==
    /\ \A k \in 1..Len(free) : free[k] \in Frees
    /\ \A k, l \in 1..Len(free) : free[k] = free[l] => k = l
    /\ \A i \in Frees : \E k \in 1..Len(free) : free[k] = i

\* min_deadline_ms is not after the deadline of any entry that waits, so the
\* worker's kevent() returns in time for it and park_expire() does not skip it.
MinSound == \A i \in Waits : minDl <= deadline[i]

\* The counters, the free list and the deadline bound fit the entries after every sequence of
\* calls: the scans of park_wake(), park_expire() and park_next_done() may end early by them.
TableSound == CountersExact /\ FreeExact /\ MinSound

\* During a service the entries that are done lie at the cursor or behind it.
DonesAhead == cursor # NoService => \A i \in Dones : cursor <= i

\* After park_expire() no entry waits whose time is up: the early end of the scan
\* and the test of min_deadline_ms leave none out.
ExpireComplete ==
    [][cursor = NoService /\ cursor' # NoService => \A i \in Waits' : deadline'[i] > now']_vars

\* When park_next_done() finds no more entry, none is left that is done: the
\* cursor passes over none, although requests park again meanwhile.
ServiceComplete == [][cursor # NoService /\ cursor' = NoService => Dones = {}]_vars
=============================================================================
