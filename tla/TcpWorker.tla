----------------------------- MODULE TcpWorker -----------------------------
(***************************************************************************)
(* The TCP connections of one worker (dns_server_core.c,                   *)
(* worker_thread_func): accepting, the events of a kevent() call, reading  *)
(* and answering requests, the quota of requests of one pass, parking for  *)
(* a zone that is not in memory, the hand-over to a transfer or I/O        *)
(* thread, and closing.  Descriptors and contexts are reused at once, and  *)
(* the events of a call were collected before the worker acts on any.      *)
(* A request is a unit of input; what it asks is the choice of an outcome. *)
(***************************************************************************)
EXTENDS Naturals, Sequences, FiniteSets, SequencesExt

CONSTANTS
  Fds,            \* descriptors accept() may return
  Ctxs,           \* contexts of the pool
  Quota,          \* requests answered before the worker turns to others (16)
  TransfersOut,   \* transfers-out: transfers sent at a time
  IoQueue,        \* ASYNC_IO_QUEUE_CAPACITY
  MaxConn,        \* bound: connections that are accepted
  MaxInput,       \* bound: requests that arrive
  NoCtx

VARIABLES
  conn,           \* per descriptor: the number of its connection, 0 when closed
  xfr, aio,       \* the descriptors that belong to a transfer thread, to the I/O threads
  input, eof,     \* the socket: unread requests, the peer has closed
  rd,             \* EVFILT_READ of a descriptor: [ctx, on], ctx = NoCtx when not registered
  tm,             \* EVFILT_TIMER of a descriptor: [ctx, short, on]
  ctx,            \* the contexts
  pool,           \* the free contexts, the last one given back first
  table,          \* the park table's entries for connections
  evs,            \* the events of this kevent() call that are still to be handled
  cur,            \* the connection being served
  phase,          \* "wait", "events" or "service"
  born, came      \* connections accepted and requests arrived so far

tvars == <<conn, xfr, aio, input, eof, rd, tm, ctx, pool, table, evs, cur, phase, born, came>>

NoRead == [ctx |-> NoCtx, on |-> FALSE]
NoTimer == [ctx |-> NoCtx, short |-> FALSE, on |-> FALSE]
NoWork == [fd |-> 0, ctx |-> NoCtx, done |-> 0]

\* tcp_ctx_alloc() clears the context; "of" is the connection it was given out for (its gen).
Fresh(n) == [of |-> n, parked |-> FALSE, resume |-> FALSE, late |-> FALSE,
             resume_pending |-> FALSE, quota_yield |-> FALSE,
             over |-> FALSE, old |-> FALSE]

TcpInit ==
  /\ conn = [f \in Fds |-> 0] /\ xfr = {} /\ aio = {}
  /\ input = [f \in Fds |-> 0] /\ eof = [f \in Fds |-> FALSE]
  /\ rd = [f \in Fds |-> NoRead] /\ tm = [f \in Fds |-> NoTimer]
  /\ ctx = [c \in Ctxs |-> Fresh(0)]
  /\ pool = SetToSeq(Ctxs)
  /\ table = {} /\ evs = {} /\ cur = NoWork /\ phase = "wait" /\ born = 0 /\ came = 0

Mine == {f \in Fds : conn[f] # 0} \ (xfr \cup aio)

Given == Ctxs \ Range(pool)

CtxOf(f) == CHOOSE c \in Given : ctx[c].of = conn[f]

(***************************************************************************)
(* The peers, the clock and the other threads.  The deadline for the next  *)
(* request of a connection passes ("over"), it becomes a minute old        *)
(* ("old").  The code allows for a timer that fires before the deadline it *)
(* was set for.                                                            *)
(***************************************************************************)
Arrives(f) ==
  /\ conn[f] # 0 /\ ~eof[f] /\ came < MaxInput
  /\ input' = [input EXCEPT ![f] = @ + 1] /\ came' = came + 1
  /\ rd' = [rd EXCEPT ![f].on = @ \/ rd[f].ctx # NoCtx]
  /\ UNCHANGED <<conn, xfr, aio, eof, tm, ctx, pool, table, evs, cur, phase, born>>

PeerCloses(f) ==
  /\ f \in Mine /\ ~eof[f]
  /\ eof' = [eof EXCEPT ![f] = TRUE]
  /\ rd' = [rd EXCEPT ![f].on = @ \/ rd[f].ctx # NoCtx]
  /\ UNCHANGED <<conn, xfr, aio, input, tm, ctx, pool, table, evs, cur, phase, born, came>>

DeadlinePasses(f) ==
  /\ f \in Mine /\ ~ctx[CtxOf(f)].over
  /\ ctx' = [ctx EXCEPT ![CtxOf(f)].over = TRUE]
  /\ UNCHANGED <<conn, xfr, aio, input, eof, rd, tm, pool, table, evs, cur, phase, born, came>>

Ages(f) ==
  /\ f \in Mine /\ ~ctx[CtxOf(f)].old
  /\ ctx' = [ctx EXCEPT ![CtxOf(f)].old = TRUE]
  /\ UNCHANGED <<conn, xfr, aio, input, eof, rd, tm, pool, table, evs, cur, phase, born, came>>

TimerFires(f) ==
  /\ tm[f].ctx # NoCtx /\ ~tm[f].on
  /\ tm' = [tm EXCEPT ![f].on = TRUE]
  /\ UNCHANGED <<conn, xfr, aio, input, eof, rd, ctx, pool, table, evs, cur, phase, born, came>>

OtherThreadCloses(f) ==
  /\ f \in xfr \cup aio
  /\ conn' = [conn EXCEPT ![f] = 0] /\ xfr' = xfr \ {f} /\ aio' = aio \ {f}
  /\ input' = [input EXCEPT ![f] = 0] /\ eof' = [eof EXCEPT ![f] = FALSE]
  /\ UNCHANGED <<rd, tm, ctx, pool, table, evs, cur, phase, born, came>>

(***************************************************************************)
(* kevent(): the active events are taken off the queue; a timer is         *)
(* EV_ONESHOT, a read event EV_CLEAR.  "of" is the connection the event    *)
(* was raised for, and only the properties read it.  The listening socket  *)
(* reports whenever it likes.                                              *)
(***************************************************************************)
ReadEvent(f) == [k |-> "read", fd |-> f, ctx |-> rd[f].ctx, eof |-> eof[f], of |-> conn[f]]
TimerEvent(f) == [k |-> "timer", fd |-> f, ctx |-> tm[f].ctx, eof |-> FALSE, of |-> conn[f]]
AcceptEvent == [k |-> "accept", fd |-> 0, ctx |-> NoCtx, eof |-> FALSE, of |-> 0]

Kevent ==
  /\ phase = "wait"
  /\ \E acc \in SUBSET {AcceptEvent} :
       evs' = acc \cup {ReadEvent(f) : f \in {g \in Fds : rd[g].on}}
                  \cup {TimerEvent(f) : f \in {g \in Fds : tm[g].on}}
  /\ rd' = [f \in Fds |-> [rd[f] EXCEPT !.on = FALSE]]
  /\ tm' = [f \in Fds |-> IF tm[f].on THEN NoTimer ELSE tm[f]]
  /\ phase' = "events"
  /\ UNCHANGED <<conn, xfr, aio, input, eof, ctx, pool, table, cur, born, came>>

(***************************************************************************)
(* Accepting: the limit on open connections, then a context of the pool;   *)
(* a connection that gets none is closed, which changes nothing here.      *)
(***************************************************************************)
Accept(f) ==
  /\ phase = "events" /\ cur = NoWork /\ AcceptEvent \in evs
  /\ conn[f] = 0 /\ born < MaxConn
  /\ Cardinality({g \in Fds : conn[g] # 0}) < Cardinality(Ctxs) /\ pool # <<>>
  /\ LET c == Head(pool) IN
       /\ pool' = Tail(pool)
       /\ ctx' = [ctx EXCEPT ![c] = Fresh(born + 1)]
       /\ tm' = [tm EXCEPT ![f] = [ctx |-> c, short |-> FALSE, on |-> FALSE]]
       /\ rd' = [rd EXCEPT ![f] = [ctx |-> c, on |-> FALSE]]
  /\ conn' = [conn EXCEPT ![f] = born + 1] /\ born' = born + 1
  /\ UNCHANGED <<xfr, aio, input, eof, table, evs, cur, phase, came>>

Accepted ==
  /\ phase = "events" /\ cur = NoWork /\ AcceptEvent \in evs
  /\ evs' = evs \ {AcceptEvent}
  /\ UNCHANGED <<conn, xfr, aio, input, eof, rd, tm, ctx, pool, table, cur, phase, born, came>>

(***************************************************************************)
(* Closing.  tcp_client_forget drops the later events of this call that    *)
(* name the connection, before another one can get its context.            *)
(***************************************************************************)

tcp_client_forget(f, c) ==
  /\ evs' = {e \in evs : ~(e.fd = f /\ e.ctx = c)}
  /\ pool' = <<c>> \o pool

\* kevent() stops at the first change that fails: the timer is only reached when the read event was registered.
Unregistered(f) ==
  /\ rd' = [rd EXCEPT ![f] = NoRead]
  /\ tm' = IF rd[f].ctx # NoCtx THEN [tm EXCEPT ![f] = NoTimer] ELSE tm

tcp_client_close(f, c) ==
  /\ table' = IF ctx[c].parked THEN {e \in table : ~(e.ctx = c /\ e.of = ctx[c].of)} ELSE table
  /\ ctx' = [ctx EXCEPT ![c].parked = FALSE]
  /\ Unregistered(f)
  /\ conn' = [conn EXCEPT ![f] = 0]
  /\ input' = [input EXCEPT ![f] = 0] /\ eof' = [eof EXCEPT ![f] = FALSE]
  /\ tcp_client_forget(f, c)
  /\ cur' = NoWork
  /\ UNCHANGED <<xfr, aio, phase, born, came>>

(***************************************************************************)
(* An event.  A timer event that is neither the end of a quota nor a       *)
(* request to resume, and that came before the deadline, is set again.     *)
(***************************************************************************)
Turn(e) == phase = "events" /\ cur = NoWork /\ e \in evs

Skip(e) ==
  /\ evs' = evs \ {e}
  /\ UNCHANGED <<conn, xfr, aio, input, eof, rd, tm, ctx, pool, table, cur, phase, born, came>>

ParkedEvent(e) == Turn(e) /\ e.k # "accept" /\ ctx[e.ctx].parked /\ Skip(e)

Resumes(e) == e.k = "timer" /\ (ctx[e.ctx].quota_yield \/ ctx[e.ctx].resume_pending)

Serves(e) == e.k = "read" \/ Resumes(e)

Serve(e) ==
  /\ Turn(e) /\ Serves(e) /\ ~ctx[e.ctx].parked /\ ~e.eof /\ ~ctx[e.ctx].old
  /\ evs' = evs \ {e}
  /\ cur' = [fd |-> e.fd, ctx |-> e.ctx, done |-> 0]
  /\ ctx' = IF e.k = "read" THEN ctx
            ELSE [ctx EXCEPT ![e.ctx].quota_yield = FALSE, ![e.ctx].resume_pending = FALSE]
  /\ UNCHANGED <<conn, xfr, aio, input, eof, rd, tm, pool, table, phase, born, came>>

EarlyTimer(e) ==
  /\ Turn(e) /\ e.k = "timer" /\ ~Resumes(e) /\ ~ctx[e.ctx].parked /\ ~ctx[e.ctx].over
  /\ evs' = evs \ {e}
  /\ tm' = [tm EXCEPT ![e.fd] = [ctx |-> e.ctx, short |-> FALSE, on |-> FALSE]]
  /\ UNCHANGED <<conn, xfr, aio, input, eof, rd, ctx, pool, table, cur, phase, born, came>>

CloseEvent(e) ==
  /\ Turn(e) /\ e.k # "accept" /\ ~ctx[e.ctx].parked
  /\ IF Serves(e) THEN e.eof \/ ctx[e.ctx].old ELSE ctx[e.ctx].over
  /\ tcp_client_close(e.fd, e.ctx)

(***************************************************************************)
(* The requests of the connection, at most Quota of them.  The one that    *)
(* was parked is still in the buffer and comes first.                      *)
(***************************************************************************)
Reads == cur # NoWork /\ cur.done < Quota /\ (ctx[cur.ctx].resume \/ input[cur.fd] > 0)

Taken ==
  /\ input' = IF ctx[cur.ctx].resume THEN input ELSE [input EXCEPT ![cur.fd] = @ - 1]
  /\ tm' = [tm EXCEPT ![cur.fd] = NoTimer]

Answer ==
  /\ Reads /\ Taken
  /\ ctx' = [ctx EXCEPT ![cur.ctx].resume = FALSE, ![cur.ctx].over = FALSE, ![cur.ctx].late = FALSE]
  /\ cur' = [cur EXCEPT !.done = @ + 1]
  /\ UNCHANGED <<conn, xfr, aio, eof, rd, pool, table, evs, phase, born, came>>

\* The zone is not in memory: the request stays in the buffer.  One that was already told "not ready" is answered.
ParkConnection ==
  /\ Reads /\ ~ctx[cur.ctx].late /\ Taken
  /\ table' = table \cup {[fd |-> cur.fd, ctx |-> cur.ctx, of |-> ctx[cur.ctx].of]}
  /\ ctx' = [ctx EXCEPT ![cur.ctx].resume = TRUE, ![cur.ctx].over = FALSE, ![cur.ctx].parked = TRUE]
  /\ cur' = NoWork
  /\ UNCHANGED <<conn, xfr, aio, eof, rd, pool, evs, phase, born, came>>

\* A transfer that is allowed, and within transfers-out: the descriptor is the transfer thread's from now on.
HandToTransfer ==
  /\ Reads /\ Cardinality(xfr) < TransfersOut
  /\ rd' = [rd EXCEPT ![cur.fd] = NoRead] /\ tm' = [tm EXCEPT ![cur.fd] = NoTimer]
  /\ xfr' = xfr \cup {cur.fd}
  /\ tcp_client_forget(cur.fd, cur.ctx)
  /\ cur' = NoWork
  /\ UNCHANGED <<conn, aio, input, eof, ctx, table, phase, born, came>>

\* A transfer that is not allowed, over the limit, or whose thread does not start
\* (its events are then gone already): one answer, and the end.
RefuseTransfer ==
  /\ Reads
  /\ tcp_client_close(cur.fd, cur.ctx)

\* A zone that is answered by a program or another server: the request goes to
\* the I/O threads, and the descriptor with it unless their queue is full.
HandToIo ==
  /\ Reads
  /\ rd' = [rd EXCEPT ![cur.fd] = NoRead] /\ tm' = [tm EXCEPT ![cur.fd] = NoTimer]
  /\ tcp_client_forget(cur.fd, cur.ctx)
  /\ IF Cardinality(aio) < IoQueue
     THEN aio' = aio \cup {cur.fd} /\ UNCHANGED <<conn, input, eof>>
     ELSE /\ conn' = [conn EXCEPT ![cur.fd] = 0]
          /\ input' = [input EXCEPT ![cur.fd] = 0] /\ eof' = [eof EXCEPT ![cur.fd] = FALSE]
          /\ UNCHANGED aio
  /\ cur' = NoWork
  /\ UNCHANGED <<xfr, ctx, table, phase, born, came>>

\* The peer has closed, or the message is no request.
CloseUnread ==
  /\ Reads \/ (cur # NoWork /\ cur.done < Quota /\ eof[cur.fd])
  /\ tcp_client_close(cur.fd, cur.ctx)

\* The answer cannot be sent, or tcp-connection-reuse is off.
AnswerAndClose ==
  /\ Reads
  /\ tcp_client_close(cur.fd, cur.ctx)

\* Mutant: the end of a quota waits for the deadline and for another read event.
RearmIdle ==
  /\ tm' = [tm EXCEPT ![cur.fd] = [ctx |-> cur.ctx, short |-> FALSE, on |-> FALSE]]
  /\ ctx' = [ctx EXCEPT ![cur.ctx].quota_yield = FALSE, ![cur.ctx].resume_pending = FALSE]
  /\ UNCHANGED rd

Rearm ==
  LET used == cur.done >= Quota IN
  /\ tm' = [tm EXCEPT ![cur.fd] = [ctx |-> cur.ctx, short |-> used, on |-> FALSE]]
  /\ ctx' = [ctx EXCEPT ![cur.ctx].quota_yield = used, ![cur.ctx].resume_pending = FALSE]
  /\ rd' = [rd EXCEPT ![cur.fd].on = @ \/ (used /\ (input[cur.fd] > 0 \/ eof[cur.fd]))]

Served ==
  /\ cur # NoWork
  /\ cur.done >= Quota \/ (~ctx[cur.ctx].resume /\ input[cur.fd] = 0 /\ ~eof[cur.fd])
  /\ Rearm
  /\ cur' = NoWork
  /\ UNCHANGED <<conn, xfr, aio, input, eof, pool, table, evs, phase, born, came>>

EventsDone ==
  /\ phase = "events" /\ cur = NoWork /\ evs = {}
  /\ phase' = "service"
  /\ UNCHANGED <<conn, xfr, aio, input, eof, rd, tm, ctx, pool, table, evs, cur, born, came>>

(***************************************************************************)
(* park_service: an entry whose zone is there, or whose time is up, gives  *)
(* its connection a short timer; a connection that cannot be given one is  *)
(* closed.                                                                 *)
(***************************************************************************)
StillParked(e) == ctx[e.ctx].of = e.of /\ ctx[e.ctx].parked

ServiceResume(e) ==
  /\ phase = "service" /\ e \in table /\ table' = table \ {e}
  /\ \E timed_out \in BOOLEAN :
       IF StillParked(e)
       THEN /\ ctx' = [ctx EXCEPT ![e.ctx].parked = FALSE, ![e.ctx].late = timed_out,
                                  ![e.ctx].resume_pending = TRUE]
            /\ tm' = [tm EXCEPT ![e.fd] = [ctx |-> e.ctx, short |-> TRUE, on |-> FALSE]]
       ELSE UNCHANGED <<ctx, tm>>
  /\ UNCHANGED <<conn, xfr, aio, input, eof, rd, pool, evs, cur, phase, born, came>>

ServiceFails(e) ==
  /\ phase = "service" /\ e \in table /\ table' = table \ {e} /\ StillParked(e)
  /\ ctx' = [ctx EXCEPT ![e.ctx].parked = FALSE, ![e.ctx].resume_pending = TRUE]
  /\ conn' = [conn EXCEPT ![e.fd] = 0]
  /\ input' = [input EXCEPT ![e.fd] = 0] /\ eof' = [eof EXCEPT ![e.fd] = FALSE]
  /\ rd' = [rd EXCEPT ![e.fd] = NoRead]
  /\ pool' = <<e.ctx>> \o pool
  /\ UNCHANGED <<xfr, aio, tm, evs, cur, phase, born, came>>

ServiceDone ==
  /\ phase = "service"
  /\ phase' = "wait"
  /\ UNCHANGED <<conn, xfr, aio, input, eof, rd, tm, ctx, pool, table, evs, cur, born, came>>

TcpNext ==
  \/ \E f \in Fds : Arrives(f) \/ PeerCloses(f) \/ DeadlinePasses(f) \/ Ages(f)
                    \/ TimerFires(f) \/ OtherThreadCloses(f) \/ Accept(f)
  \/ Kevent \/ Accepted
  \/ \E e \in evs : ParkedEvent(e) \/ Serve(e) \/ EarlyTimer(e) \/ CloseEvent(e)
  \/ Answer \/ ParkConnection \/ HandToTransfer \/ RefuseTransfer \/ HandToIo
  \/ CloseUnread \/ AnswerAndClose \/ Served \/ EventsDone
  \/ \E e \in table : ServiceResume(e) \/ ServiceFails(e)
  \/ ServiceDone

(***************************************************************************)
(* Properties.                                                             *)
(***************************************************************************)
Alive(c, n) == c \in Given /\ ctx[c].of = n /\ n # 0

\* Whatever names a context names the connection it was made for: an event of
\* this kevent() call that is still to be handled, a registration in the
\* kernel, an entry of the park table.  A descriptor and a context that are
\* reused within one call are not taken for the ones before.
NoStaleReference ==
  /\ \A e \in evs : e.k # "accept" => Alive(e.ctx, e.of) /\ conn[e.fd] = e.of
  /\ \A f \in Fds : (rd[f].ctx # NoCtx => Alive(rd[f].ctx, conn[f]))
                    /\ (tm[f].ctx # NoCtx => Alive(tm[f].ctx, conn[f]))
  /\ \A e \in table : Alive(e.ctx, e.of) /\ conn[e.fd] = e.of /\ ctx[e.ctx].parked

\* Every connection of the worker is looked at again whatever its peer does: it
\* is being served, it has a timer or an event to come, or it is parked.
Watched ==
  \A f \in Mine :
    \/ cur.fd = f
    \/ tm[f].ctx # NoCtx
    \/ \E e \in evs : e.fd = f
    \/ ctx[CtxOf(f)].parked /\ \E e \in table : e.fd = f

\* A request that has arrived, or that was parked and is to be resumed, does not
\* wait for the idle timeout: read events are edge-triggered and are dropped
\* while a connection is parked, so something else has to bring the worker back.
NoLostInput ==
  \A f \in Mine : input[f] > 0 \/ ctx[CtxOf(f)].resume =>
    \/ cur.fd = f
    \/ rd[f].on
    \/ \E e \in evs : e.fd = f /\ Serves(e)
    \/ tm[f].ctx # NoCtx /\ tm[f].short /\ (ctx[CtxOf(f)].quota_yield \/ ctx[CtxOf(f)].resume_pending)
    \/ ctx[CtxOf(f)].parked /\ \E e \in table : e.fd = f
=============================================================================
