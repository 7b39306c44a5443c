----------------------------- MODULE ProgramZone -----------------------------
(* Queries for program zones: the queue of the I/O threads (dns_server_core.c enqueue_async_io_task(), async_io_worker_func()) and the exchange with the     *)
(* program over its pipes (dns_query_engine.c dispatch_to_program_zone()): one at a time under the plugin's lock, with one deadline, and no name in a reply. *)
EXTENDS Naturals, Sequences

CONSTANTS
  IoThreads,       \* threads of the pool
  QueueCapacity,   \* ASYNC_IO_QUEUE_CAPACITY
  MaxFailures,     \* program-max-failures
  PzQueries        \* queries 1 .. PzQueries arrive in this order

VARIABLES
  pz_queue, pz_next,        \* the queue; the next query to arrive
  pz_thread,                \* what a thread does
  pz_lock,                  \* plugin->lock
  pz_in, pz_out,            \* the pipes: requests and replies
  pz_alive,                 \* the process runs
  pz_failures, pz_dead,     \* consecutive_failures, dead
  pz_result,                \* what a client got: the query whose reply it was, "servfail", "dropped"
  pz_late                   \* some exchange ended at its deadline
pzvars == <<pz_queue, pz_next, pz_thread, pz_lock, pz_in, pz_out, pz_alive, pz_failures, pz_dead, pz_result, pz_late>>

NoThread == "nobody"
ASSUME PzAssumption == PzQueries \in Nat /\ NoThread \notin IoThreads

Waiting(q) == [at |-> "waits", q |-> q]
NothingToDo == [at |-> "idle", q |-> 0]
SERVFAIL == PzQueries + 1
DROPPED == PzQueries + 2

PzInit ==
  /\ pz_queue = <<>> /\ pz_next = 1
  /\ pz_thread = [t \in IoThreads |-> NothingToDo]
  /\ pz_lock = NoThread /\ pz_in = <<>> /\ pz_out = <<>>
  /\ pz_alive = TRUE /\ pz_failures = 0 /\ pz_dead = FALSE
  /\ pz_result = [q \in 1 .. PzQueries |-> 0]
  /\ pz_late = FALSE

Ends(q, r) == pz_result' = [pz_result EXCEPT ![q] = r]

\* A query that finds the queue full is dropped.
enqueue_async_io_task ==
  /\ pz_next <= PzQueries /\ pz_next' = pz_next + 1
  /\ IF Len(pz_queue) >= QueueCapacity THEN Ends(pz_next, DROPPED) /\ UNCHANGED pz_queue
     ELSE pz_queue' = Append(pz_queue, pz_next) /\ UNCHANGED pz_result
  /\ UNCHANGED <<pz_thread, pz_lock, pz_in, pz_out, pz_alive, pz_failures, pz_dead, pz_late>>

\* A thread takes the next task; a program that was given up is not asked.
async_io_worker_func(t) ==
  /\ pz_thread[t].at = "idle" /\ pz_queue # <<>>
  /\ pz_queue' = Tail(pz_queue)
  /\ IF pz_dead THEN Ends(Head(pz_queue), SERVFAIL) /\ UNCHANGED pz_thread
     ELSE pz_thread' = [pz_thread EXCEPT ![t] = Waiting(Head(pz_queue))] /\ UNCHANGED pz_result
  /\ UNCHANGED <<pz_next, pz_lock, pz_in, pz_out, pz_alive, pz_failures, pz_dead, pz_late>>

\* The request is written without the lock.
WriteUnlocked(t) ==
  /\ pz_thread[t].at = "waits"
  /\ pz_thread' = [pz_thread EXCEPT ![t].at = "reads"]
  /\ pz_in' = IF pz_alive THEN Append(pz_in, pz_thread[t].q) ELSE pz_in
  /\ UNCHANGED <<pz_queue, pz_next, pz_lock, pz_out, pz_alive, pz_failures, pz_dead, pz_result, pz_late>>

\* The lock is taken and the request is written; dead is not looked at again.
WriteRequest(t) ==
  /\ pz_thread[t].at = "waits" /\ pz_lock = NoThread
  /\ pz_lock' = t
  /\ pz_thread' = [pz_thread EXCEPT ![t].at = "reads"]
  /\ pz_in' = IF pz_alive THEN Append(pz_in, pz_thread[t].q) ELSE pz_in
  /\ UNCHANGED <<pz_queue, pz_next, pz_out, pz_alive, pz_failures, pz_dead, pz_result, pz_late>>

\* What comes out of the pipe next is the reply.
ReadReply(t) ==
  /\ pz_thread[t].at = "reads" /\ pz_out # <<>>
  /\ Ends(pz_thread[t].q, Head(pz_out)) /\ pz_out' = Tail(pz_out)
  /\ pz_failures' = 0
  /\ pz_lock' = NoThread /\ pz_thread' = [pz_thread EXCEPT ![t] = NothingToDo]
  /\ UNCHANGED <<pz_queue, pz_next, pz_in, pz_alive, pz_dead, pz_late>>

\* The thread that gives up leaves the plugin locked.
FailsLocked(t) ==
  /\ pz_thread[t].at = "reads"
  /\ Ends(pz_thread[t].q, SERVFAIL)
  /\ pz_late' = TRUE
  /\ pz_thread' = [pz_thread EXCEPT ![t] = NothingToDo]
  /\ UNCHANGED <<pz_queue, pz_next, pz_in, pz_out, pz_lock, pz_failures, pz_dead, pz_alive>>

\* The deadline passes, or the pipe is broken: SERVFAIL, and after too many of them the process is killed.
ExchangeFails(t) ==
  /\ pz_thread[t].at = "reads"
  /\ Ends(pz_thread[t].q, SERVFAIL)
  /\ pz_failures' = IF pz_failures < MaxFailures THEN pz_failures + 1 ELSE pz_failures
  /\ pz_dead' = (pz_dead \/ pz_failures + 1 >= MaxFailures)
  /\ pz_alive' = (pz_alive /\ ~pz_dead')
  /\ pz_late' = TRUE
  /\ pz_lock' = NoThread /\ pz_thread' = [pz_thread EXCEPT ![t] = NothingToDo]
  /\ UNCHANGED <<pz_queue, pz_next, pz_in, pz_out>>

\* The program (external): it answers the requests in their order, at its own speed.
ProgramAnswers ==
  /\ pz_alive /\ pz_in # <<>>
  /\ pz_out' = Append(pz_out, Head(pz_in)) /\ pz_in' = Tail(pz_in)
  /\ UNCHANGED <<pz_queue, pz_next, pz_thread, pz_lock, pz_alive, pz_failures, pz_dead, pz_result, pz_late>>

PzNext ==
  \/ enqueue_async_io_task \/ ProgramAnswers
  \/ \E t \in IoThreads : async_io_worker_func(t) \/ WriteRequest(t) \/ ReadReply(t) \/ ExchangeFails(t)

PzSpec == PzInit /\ [][PzNext]_pzvars

\* No reply goes to two clients, and as long as every exchange ended in time each client gets the reply to its own query (the plugin's lock).
PipeInOrder ==
  \A q \in 1 .. PzQueries : pz_result[q] \in 1 .. PzQueries =>
    (pz_late \/ pz_result[q] = q) /\ \A p \in 1 .. PzQueries : pz_result[p] = pz_result[q] => p = q
=============================================================================
