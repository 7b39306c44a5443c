-------------------------------- MODULE Park --------------------------------
(***************************************************************************)
(* Queries that wait for a zone which is in the directory and not in       *)
(* memory (dns_park.c, dns_server_core.c, dns_db_ingest.c,                 *)
(* dns_snapshot_rcu.c).  A worker parks the query and asks the ingest      *)
(* thread for the zone through a ring of its own; the ingest thread has    *)
(* the loader read it, a builder installs it, and the ingest thread wakes  *)
(* every worker through the worker's wake ring and kqueue.                 *)
(*                                                                         *)
(* One zone Z and all the others: the queries wait for Z, the other zones  *)
(* share the rings with it.  The queries are those whose client may ask (a *)
(* refused one is answered before anything parks).  Time is abstract:      *)
(* late[q] says that the deadline of q has passed.                         *)
(***************************************************************************)
EXTENDS Naturals, Sequences, FiniteSets, Functions

CONSTANTS
    Workers,        \* the worker threads
    Queries,        \* the queries that arrive
    Tcp,            \* those of them that arrive on a TCP connection
    None,           \* no query
    Home,           \* Home[q]: the worker whose socket q arrives on
    ParkCaps,       \* how many places a worker's park table may have (0: park_init
                    \* failed, park_on is false)
    WakeRing,       \* PARK_WAKE_RING
    FetchRing,      \* PARK_FETCH_RING
    MaxFetch,       \* bound: fetches the ingest thread starts
    MaxSide,        \* bound: requests of the transfer threads and for other zones,
                    \* installs without a wake and requests that end before their job
    Rejects,        \* TRUE: the data of a zone may be refused
    EvictGap        \* TRUE: a worker may look between the two stores of an eviction

ASSUME ParkAssumption ==
    /\ Tcp \subseteq Queries
    /\ None \notin Queries
    /\ Home \in [Queries -> Workers]
    /\ {WakeRing, FetchRing, MaxFetch, MaxSide} \subseteq Nat
    /\ ParkCaps \subseteq Nat
    /\ {Rejects, EvictGap} \subseteq BOOLEAN

VARIABLES
    places,        \* the places of a park table
    entry,      \* the zone's data is in memory (zdir_elem_t.entry)
    state,      \* zdir_elem_t.state
    evicting,   \* the eviction has stored entry and not yet state (the lock is held)
    qst,        \* qst[q]: where the query is
    late,       \* late[q]: its deadline has passed
    woken,      \* woken[q]: it was parked before (w->woken, park_deadline_ms)
    nready,     \* nready[q]: w->not_ready, not_ready_now
    wpc,        \* wpc[w]: where the worker is in its loop
    cur,        \* cur[w]: the query the worker handles
    ret,        \* ret[w]: where it goes on after that
    wake,       \* wake[w]: the wake ring: Z is there, Z failed, another zone
    overflow,   \* overflow[w]: the ring was full
    kq,         \* kq[w]: PARK_WAKE_IDENT is triggered
    fetch,      \* fetch[w]: the worker's fetch ring: requests for Z or others
    slot,       \* a slot of the transfer threads: 0 free, 1 filling, 2 ready
    side,       \* how much of MaxSide is spent
    freq,       \* the ingest thread has an active request for the zone
    job,        \* the builder's job of the zone
    stale,      \* the job belongs to a request that is over
    bcast,      \* park_wake_broadcast in progress: what is left of it
    nfetch      \* number of fetches started

zoneVars == <<places, entry, state, evicting>>
queryVars == <<qst, late, woken, nready>>
workVars == <<wpc, cur, ret>>
ringVars == <<wake, overflow, kq>>
askVars == <<fetch, slot, side>>
ingVars == <<freq, job, stale, bcast, nfetch>>
vars == <<zoneVars, queryVars, workVars, ringVars, askVars, ingVars>>

ABSENT == "ABSENT"
LOADING == "LOADING"
RESIDENT == "RESIDENT"
ERROR == "ERROR"

\* the entries of the park table of w
\* ("blind" is PARK_WAIT, too: it marks the queries that rely on nobody)
InTable(w) == {q \in Queries : Home[q] = w /\ qst[q] \in {"wait", "blind", "ready", "timeout"}}
Waiting(w) == {q \in InTable(w) : qst[q] \in {"wait", "blind"}}
Done(w) == InTable(w) \ Waiting(w)

NoBroadcast == [left |-> {}, trig |-> {}, key |-> "ok"]

Init ==
    /\ places \in ParkCaps
    /\ entry = FALSE /\ state = ABSENT /\ evicting = FALSE
    /\ qst = [q \in Queries |-> "new"]
    /\ late = [q \in Queries |-> FALSE]
    /\ woken = [q \in Queries |-> FALSE]
    /\ nready = [q \in Queries |-> FALSE]
    /\ wpc = [w \in Workers |-> "kevent"]
    /\ cur = [w \in Workers |-> None]
    /\ ret = [w \in Workers |-> "events"]
    /\ wake = [w \in Workers |-> <<>>]
    /\ overflow = [w \in Workers |-> FALSE]
    /\ kq = [w \in Workers |-> FALSE]
    /\ fetch = [w \in Workers |-> <<>>]
    /\ slot = 0 /\ side = 0
    /\ freq = FALSE /\ job = "none" /\ stale = FALSE
    /\ bcast = NoBroadcast
    /\ nfetch = 0

Goto(w, pc) == wpc' = [wpc EXCEPT ![w] = pc]

(***************************************************************************)
(* The worker loop.                                                        *)
(***************************************************************************)

\* kevent() returns: a wake-up, a deadline in the park table, a request on a
\* socket, or the timer that resumes a TCP connection
kevent(w) ==
    /\ wpc[w] = "kevent"
    /\ \/ kq[w]
       \/ \E q \in Waiting(w) : late[q]
       \/ \E q \in Queries : Home[q] = w /\ qst[q] \in {"new", "resume"}
    /\ Goto(w, "events")
    /\ kq' = [kq EXCEPT ![w] = FALSE]
    /\ UNCHANGED <<zoneVars, queryVars, cur, ret, wake, overflow, askVars, ingVars>>

\* one request: udp_one() of a datagram, or the TCP loop of a new or a
\* resumed connection
Receive(w, q) ==
    /\ wpc[w] = "events" /\ Home[q] = w /\ qst[q] \in {"new", "resume"}
    /\ qst' = [qst EXCEPT ![q] = "running"]
    /\ cur' = [cur EXCEPT ![w] = q]
    /\ ret' = [ret EXCEPT ![w] = "events"]
    /\ Goto(w, "lookup")
    /\ UNCHANGED <<zoneVars, late, woken, nready, ringVars, askVars, ingVars>>

\* a query for another zone that is not in memory
AskOther(w) ==
    /\ wpc[w] = "events" /\ side < MaxSide /\ Len(fetch[w]) < FetchRing
    /\ fetch' = [fetch EXCEPT ![w] = Append(@, "other")]
    /\ side' = side + 1
    /\ UNCHANGED <<zoneVars, queryVars, workVars, ringVars, slot, ingVars>>

EventsEnd(w) ==
    /\ wpc[w] = "events"
    /\ Goto(w, "drain")
    /\ UNCHANGED <<zoneVars, queryVars, cur, ret, ringVars, askVars, ingVars>>

\* the worker goes on after the query
Return(w) ==
    /\ cur' = [cur EXCEPT ![w] = None]
    /\ ret' = [ret EXCEPT ![w] = "events"]
    /\ Goto(w, ret[w])

\* the query leaves the worker with an answer
Answer(w, how) ==
    /\ qst' = [qst EXCEPT ![cur[w]] = how]
    /\ late' = [late EXCEPT ![cur[w]] = FALSE]
    /\ woken' = [woken EXCEPT ![cur[w]] = FALSE]
    /\ nready' = [nready EXCEPT ![cur[w]] = FALSE]
    /\ Return(w)

\* find_zone_for_query_ex(): a query whose time is up is still answered from
\* the zone when it is there
Lookup(w) ==
    /\ wpc[w] = "lookup"
    /\ \/ entry /\ Answer(w, "answered")
       \/ ~entry /\ nready[cur[w]] /\ Answer(w, "not_ready")
       \/ ~entry /\ ~nready[cur[w]] /\ Goto(w, "park") /\ UNCHANGED <<queryVars, cur, ret>>
    /\ UNCHANGED <<zoneVars, ringVars, askVars, ingVars>>

\* mutant: a query that was woken never asks again
AskNotWoken(w) == ~woken[cur[w]] /\ Waiting(w) = {}

\* who asks for the zone: the first of the waiting queries of this worker; a
\* woken one only when nothing is on its way
Ask(w) == (~woken[cur[w]] \/ state = ABSENT) /\ Waiting(w) = {}

\* a query relies on one that waits already; with none there, on the request it
\* makes or on the fetch that the state LOADING stands for
Relies(w) ==
    \/ Waiting(w) # {} /\ \A q \in Waiting(w) : qst[q] = "wait"
    \/ Waiting(w) = {} /\ (~woken[cur[w]] \/ state \in {ABSENT, LOADING})

\* mutant: one place too many
TableFullLate(w) == Cardinality(InTable(w)) > places
\* park_take(): no free entry
TableFull(w) == Cardinality(InTable(w)) >= places

\* udp_park() up to the entry in the table; park_take() fails when it is full
udp_park(w) ==
    LET q == cur[w] IN
    /\ wpc[w] = "park"
    /\ IF late[q] \/ TableFull(w)
       THEN Answer(w, "not_ready")
       ELSE /\ qst' = [qst EXCEPT ![q] = IF Relies(w) THEN "wait" ELSE "blind"]
            /\ IF Ask(w) THEN Goto(w, "ask") /\ UNCHANGED <<cur, ret>> ELSE Return(w)
            /\ UNCHANGED <<late, woken, nready>>
    /\ UNCHANGED <<zoneVars, ringVars, askVars, ingVars>>

RingFull(w) == Answer(w, "not_ready")

\* park_fetch_request(), which triggers the ingest thread.  A full ring:
\* park_release(), and the query is answered at once
park_fetch_request(w) ==
    /\ wpc[w] = "ask"
    /\ \/ /\ Len(fetch[w]) >= FetchRing /\ RingFull(w)
          /\ UNCHANGED fetch
       \/ /\ Len(fetch[w]) < FetchRing
          /\ fetch' = [fetch EXCEPT ![w] = Append(@, "z")]
          /\ Return(w)
          /\ UNCHANGED queryVars
    /\ UNCHANGED <<zoneVars, ringVars, slot, side, ingVars>>

(***************************************************************************)
(* park_service().                                                         *)
(***************************************************************************)

\* the entries Q of a table change to the state st
Mark(Q, st) == qst' = [q \in Queries |-> IF q \in Q THEN st ELSE qst[q]]

\* park_wake() / park_fail() for each key of the ring
WakePop(w) ==
    /\ wpc[w] = "drain" /\ wake[w] # <<>>
    /\ CASE Head(wake[w]) = "ok" -> Mark(Waiting(w), "ready")
         [] Head(wake[w]) = "failed" -> Mark(Waiting(w), "timeout")
         [] OTHER -> UNCHANGED qst
    /\ wake' = [wake EXCEPT ![w] = Tail(@)]
    /\ UNCHANGED <<zoneVars, late, woken, nready, workVars, overflow, kq, askVars, ingVars>>

WakeEmpty(w) ==
    /\ wpc[w] = "drain" /\ wake[w] = <<>>
    /\ Goto(w, "overflow")
    /\ UNCHANGED <<zoneVars, queryVars, cur, ret, ringVars, askVars, ingVars>>

\* park_wake_all(): a wake was lost, so every query looks again
park_wake_all(w) == IF overflow[w] THEN Waiting(w) ELSE {}

\* mutant: a deadline is kept for the first wait only
ExpireFirst(w) == {q \in Waiting(w) : late[q] /\ ~woken[q]}
\* park_expire()
park_expire(w) == {q \in Waiting(w) : late[q]}

\* park_wake_take_overflow(), and then the deadlines
TakeOverflow(w) ==
    /\ wpc[w] = "overflow"
    /\ qst' = [q \in Queries |-> IF q \in park_wake_all(w) THEN "ready"
                                ELSE IF q \in park_expire(w) THEN "timeout" ELSE qst[q]]
    /\ overflow' = [overflow EXCEPT ![w] = FALSE]
    /\ Goto(w, "done")
    /\ UNCHANGED <<zoneVars, late, woken, nready, cur, ret, wake, kq, askVars, ingVars>>

\* an entry that is done is released; a UDP request runs again at once, a TCP
\* connection is given a timer (and is closed if it cannot be)
ServeDone(w, q) ==
    /\ wpc[w] = "done" /\ q \in Done(w)
    /\ woken' = [woken EXCEPT ![q] = TRUE]
    /\ nready' = [nready EXCEPT ![q] = qst[q] = "timeout"]
    /\ \/ /\ q \notin Tcp
          /\ qst' = [qst EXCEPT ![q] = "running"]
          /\ cur' = [cur EXCEPT ![w] = q]
          /\ ret' = [ret EXCEPT ![w] = "done"]
          /\ Goto(w, "lookup")
       \/ /\ q \in Tcp
          /\ \E st \in {"resume", "closed"} : qst' = [qst EXCEPT ![q] = st]
          /\ UNCHANGED workVars
    /\ UNCHANGED <<zoneVars, late, ringVars, askVars, ingVars>>

ServiceEnd(w) ==
    /\ wpc[w] = "done" /\ Done(w) = {}
    /\ Goto(w, "kevent")
    /\ UNCHANGED <<zoneVars, queryVars, cur, ret, ringVars, askVars, ingVars>>

\* the deadline of a query that is parked, or that was, passes
Deadline(q) ==
    /\ ~late[q]
    /\ q \in Waiting(Home[q]) \/ (woken[q] /\ qst[q] \in {"ready", "timeout", "resume", "running"})
    /\ late' = [late EXCEPT ![q] = TRUE]
    /\ UNCHANGED <<zoneVars, qst, woken, nready, workVars, ringVars, askVars, ingVars>>

(***************************************************************************)
(* Threads that are not workers.                                           *)
(***************************************************************************)

\* park_fetch_request_any(): a transfer thread takes a free slot ...
TakeSlot ==
    /\ slot = 0 /\ side < MaxSide
    /\ slot' = 1 /\ side' = side + 1
    /\ UNCHANGED <<zoneVars, queryVars, workVars, ringVars, fetch, ingVars>>

\* ... and hands it over
FillSlot ==
    /\ slot = 1
    /\ slot' = 2
    /\ UNCHANGED <<zoneVars, queryVars, workVars, ringVars, fetch, side, ingVars>>

\* dbreg_evict_locked(): the cache manager takes the zone out of memory.  The
\* registry lock is held; the workers read entry and state without it
Evict ==
    /\ ~evicting /\ entry /\ state = RESIDENT
    /\ entry' = FALSE
    /\ \/ EvictGap /\ evicting' = TRUE /\ state' = state
       \/ ~EvictGap /\ evicting' = FALSE /\ state' = ABSENT
    /\ UNCHANGED <<places, queryVars, workVars, ringVars, askVars, ingVars>>

EvictState ==
    /\ evicting
    /\ evicting' = FALSE /\ state' = ABSENT
    /\ UNCHANGED <<places, entry, queryVars, workVars, ringVars, askVars, ingVars>>

\* a batch of the loader brings the zone, or its job is refused: jobs that
\* have no request wake nobody
BatchJob ==
    /\ job = "none" /\ ~evicting
    /\ side < MaxSide /\ side' = side + 1
    /\ \/ entry' = TRUE /\ state' = RESIDENT
       \/ Rejects /\ ~entry /\ entry' = entry /\ state' = ERROR
    /\ UNCHANGED <<places, evicting, queryVars, workVars, ringVars, fetch, slot, ingVars>>

(***************************************************************************)
(* The ingest thread.                                                      *)
(***************************************************************************)

Broadcast(key) == bcast' = [left |-> Workers, trig |-> {}, key |-> key]
Idle == bcast.left = {} /\ bcast.trig = {} /\ ~evicting

\* mutant: a failed fetch leaves the state as it is
fetch_end_keep == state' = state

\* dbreg_fetch_end()
dbreg_fetch_end == state' = IF ~entry /\ state = LOADING THEN ABSENT ELSE state

\* what fetch_issue() does with a request: refused (no such view, over
\* memory-limit, no token, not a zone of the registry), on its way, in memory,
\* started, or started and given up (no free place, no stream)
Issue ==
    \/ Broadcast("failed") /\ UNCHANGED <<state, freq, nfetch>>
    \/ freq /\ UNCHANGED <<bcast, state, freq, nfetch>>
    \/ ~freq /\ entry /\ Broadcast("ok") /\ UNCHANGED <<state, freq, nfetch>>
    \/ ~freq /\ ~entry /\ state = LOADING /\ UNCHANGED <<bcast, state, freq, nfetch>>
    \/ /\ ~freq /\ ~entry /\ state # LOADING /\ nfetch < MaxFetch
       /\ state' = LOADING
       /\ freq' = TRUE
       /\ nfetch' = nfetch + 1
       /\ UNCHANGED bcast
    \/ /\ ~freq /\ ~entry /\ state # LOADING
       /\ state' = ABSENT
       /\ Broadcast("failed")
       /\ UNCHANGED <<freq, nfetch>>

\* fetch_issue() takes the next request: park_fetch_next() over the rings and
\* the slots.  What comes of a request for another zone reaches the workers as
\* a wake, sooner or later
fetch_issue ==
    /\ Idle
    /\ \/ \E w \in Workers :
            /\ fetch[w] # <<>>
            /\ fetch' = [fetch EXCEPT ![w] = Tail(@)]
            /\ slot' = slot
            /\ IF Head(fetch[w]) = "z" THEN Issue
               ELSE Broadcast("other") /\ UNCHANGED <<state, freq, nfetch>>
       \/ slot = 2 /\ slot' = 0 /\ fetch' = fetch /\ Issue
    /\ UNCHANGED <<places, entry, evicting, queryVars, workVars, ringVars, side, job, stale>>

\* fetch_complete()
fetch_complete(ok) ==
    /\ freq' = FALSE
    /\ dbreg_fetch_end
    /\ Broadcast(IF ok THEN "ok" ELSE "failed")

\* on_fetch_end(): the zone was received whole and goes to a builder; two jobs
\* of one zone do not run at the same time
on_fetch_end ==
    /\ Idle /\ freq /\ job = "none"
    /\ job' = "build" /\ stale' = FALSE
    /\ UNCHANGED <<zoneVars, queryVars, workVars, ringVars, askVars, freq, bcast, nfetch>>

\* job_execute() by the builder: installed, refused (dbreg_reject()), or
\* dropped because the directory has another version by now
job_execute ==
    /\ job = "build" /\ ~evicting
    /\ \/ entry' = TRUE /\ state' = RESIDENT /\ job' = "ok"
       \/ Rejects /\ job' = "rejected" /\ entry' = entry /\ state' \in {state, IF entry THEN state ELSE ERROR}
       \/ job' = "ok" /\ UNCHANGED <<entry, state>>
    /\ UNCHANGED <<places, evicting, queryVars, workVars, ringVars, askVars, freq, stale, bcast, nfetch>>

\* drain_results(), fetch_job_finish(): a job whose request is over wakes nobody
fetch_job_finish ==
    /\ Idle /\ job \in {"ok", "rejected"}
    /\ job' = "none" /\ stale' = FALSE
    /\ IF stale THEN UNCHANGED <<freq, state, bcast>> ELSE fetch_complete(job = "ok")
    /\ UNCHANGED <<places, entry, evicting, queryVars, workVars, ringVars, askVars, nfetch>>

\* fetch_expire(), fetch_fail_all(), on_fetch_failed(), ZONE_ABORT: the request
\* ends without its data; a job that was submitted goes on
FetchFails ==
    /\ Idle /\ freq
    /\ IF job = "none" THEN side' = side ELSE side < MaxSide /\ side' = side + 1
    /\ fetch_complete(FALSE)
    /\ stale' = (job # "none")
    /\ UNCHANGED <<places, entry, evicting, queryVars, workVars, ringVars, fetch, slot, job, nfetch>>

\* park_wake_push(): a full ring sets the overflow flag
park_wake_push(w) ==
    IF Len(wake[w]) >= WakeRing
    THEN overflow' = [overflow EXCEPT ![w] = TRUE] /\ UNCHANGED wake
    ELSE wake' = [wake EXCEPT ![w] = Append(@, bcast.key)] /\ UNCHANGED overflow

trigger(w) == kq' = [kq EXCEPT ![w] = TRUE]

\* mutant: the worker is triggered before there is something in its ring
TriggerThenPush(w, first) ==
    IF first THEN trigger(w) /\ UNCHANGED <<wake, overflow>>
             ELSE park_wake_push(w) /\ UNCHANGED kq

\* the two steps of park_wake_broadcast() for one worker
PushThenTrigger(w, first) ==
    IF first THEN park_wake_push(w) /\ UNCHANGED kq
             ELSE trigger(w) /\ UNCHANGED <<wake, overflow>>

\* park_wake_broadcast(): the workers in any order
BroadcastPush(w) ==
    /\ w \in bcast.left /\ bcast.trig = {}
    /\ PushThenTrigger(w, TRUE)
    /\ bcast' = [bcast EXCEPT !.left = @ \ {w}, !.trig = {w}]
    /\ UNCHANGED <<zoneVars, queryVars, workVars, askVars, freq, job, stale, nfetch>>

BroadcastTrigger(w) ==
    /\ w \in bcast.trig
    /\ PushThenTrigger(w, FALSE)
    /\ bcast' = IF bcast.left = {} THEN NoBroadcast ELSE [bcast EXCEPT !.trig = {}]
    /\ UNCHANGED <<zoneVars, queryVars, workVars, askVars, freq, job, stale, nfetch>>

(***************************************************************************)
(* The specification.                                                      *)
(***************************************************************************)

Worker(w) ==
    \/ kevent(w) \/ EventsEnd(w) \/ Lookup(w) \/ udp_park(w) \/ park_fetch_request(w)
    \/ WakePop(w) \/ WakeEmpty(w) \/ TakeOverflow(w) \/ ServiceEnd(w)
    \/ AskOther(w)
    \/ \E q \in Queries : Receive(w, q) \/ ServeDone(w, q)

Ingest ==
    \/ fetch_issue \/ on_fetch_end \/ fetch_job_finish \/ FetchFails
    \/ \E w \in Workers : BroadcastPush(w) \/ BroadcastTrigger(w)

Next ==
    \/ \E w \in Workers : Worker(w)
    \/ \E q \in Queries : Deadline(q)
    \/ Ingest \/ job_execute
    \/ TakeSlot \/ FillSlot \/ Evict \/ EvictState \/ BatchJob

Spec == Init /\ [][Next]_vars

(***************************************************************************)
(* Fairness.  The threads run.  Time passes for a query that waits.  A     *)
(* request in flight ends: the ingest loop calls fetch_expire() on its     *)
(* timer.  A connection that was given its timer is resumed: the worker    *)
(* handles every event that kevent() returned before it sleeps again.      *)
(***************************************************************************)
Fairness ==
    /\ \A w \in Workers : WF_vars(Worker(w))
    /\ \A q \in Queries : WF_vars(Deadline(q))
    /\ \A q \in Queries : SF_vars(qst[q] = "resume" /\ Receive(Home[q], q))
    /\ WF_vars(Ingest)
    /\ WF_vars(job_execute)
    /\ WF_vars(EvictState)

FairSpec == Spec /\ Fairness

(***************************************************************************)
(* Properties.                                                             *)
(***************************************************************************)

QueryStates ==
    {"new", "running", "wait", "blind", "ready", "timeout", "resume", "answered", "not_ready", "closed"}
WorkerSteps == {"kevent", "events", "lookup", "park", "ask", "drain", "overflow", "done"}

\* Every variable has its type.
TypeOK ==
    /\ places \in Nat
    /\ entry \in BOOLEAN /\ evicting \in BOOLEAN /\ freq \in BOOLEAN /\ stale \in BOOLEAN
    /\ state \in {ABSENT, LOADING, RESIDENT, ERROR}
    /\ qst \in [Queries -> QueryStates]
    /\ late \in [Queries -> BOOLEAN] /\ woken \in [Queries -> BOOLEAN] /\ nready \in [Queries -> BOOLEAN]
    /\ wpc \in [Workers -> WorkerSteps]
    /\ cur \in [Workers -> Queries \cup {None}]
    /\ ret \in [Workers -> {"events", "done"}]
    /\ wake \in [Workers -> Seq({"ok", "failed", "other"})]
    /\ fetch \in [Workers -> Seq({"z", "other"})]
    /\ overflow \in [Workers -> BOOLEAN] /\ kq \in [Workers -> BOOLEAN]
    /\ slot \in 0..2 /\ side \in 0..MaxSide /\ nfetch \in 0..MaxFetch
    /\ job \in {"none", "build", "ok", "rejected"}
    /\ bcast \in [left : SUBSET Workers, trig : SUBSET Workers, key : {"ok", "failed", "other"}]

\* No table or ring of dns_park.c holds more than its capacity: park_take(), park_fetch_request() and
\* park_wake_push() look before they add.
CapacitiesKept ==
    \A w \in Workers :
        Len(wake[w]) <= WakeRing /\ Len(fetch[w]) <= FetchRing /\ Cardinality(InTable(w)) <= places

\* something will wake the queries of w that wait: a request in a ring or a
\* slot, the fetch in flight, the broadcast that has not come to w yet, or a
\* wake in the ring of w
Waker(w) ==
    \/ \E v \in Workers : "z" \in Range(fetch[v])
    \/ slot = 2
    \/ freq
    \/ w \in bcast.left \cup bcast.trig /\ bcast.key # "other"
    \/ Range(wake[w]) \cap {"ok", "failed"} # {} \/ overflow[w]

\* A query that asked, or that found somebody waiting or the zone LOADING, always
\* has something on its way that wakes it: no request, wake or broadcast is lost
\* between the rings, the fetch table and the overflow flags.
AskerHasWaker ==
    \A w \in Workers : \A q \in Waiting(w) : qst[q] = "blind" \/ q = cur[w] \/ Waker(w)

\* A query is never parked with nothing on its way that wakes it: what
\* udp_park() says of the decision who asks ("nobody else would wake it before
\* its time is up").
WaiterHasWaker ==
    \A w \in Workers : \A q \in Waiting(w) : q = cur[w] \/ Waker(w)

\* A worker never sleeps in kevent() on a wake that it was sent: the entry of
\* the ring, or the overflow flag, is followed by the trigger of the kqueue
\* (park_wake_broadcast()), also when the wake came while the worker was in
\* park_service().
NoLostWake ==
    \A w \in Workers :
        wpc[w] = "kevent" /\ (wake[w] # <<>> \/ overflow[w]) => kq[w] \/ w \in bcast.trig

\* A zone is LOADING only while a request for it is active, whatever evictions,
\* refused jobs and late jobs did meanwhile.  Otherwise every request for the
\* zone would be taken for a duplicate (DBREG_FETCH_BUSY) for ever.
LoadingHasFetch == state = LOADING => freq

\* Every query that a worker took is answered, from the zone or "not ready", or
\* its connection is closed: the deadline ends a wait that no wake ends.
QueryEnds ==
    \A q \in Queries : qst[q] = "running" ~> qst[q] \in {"answered", "not_ready", "closed"}
=============================================================================
