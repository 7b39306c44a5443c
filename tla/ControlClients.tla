--------------------------- MODULE ControlClients ---------------------------
(***************************************************************************)
(* The control channel (dns_server_core.c, control_thread_func) and the    *)
(* reload requests it hands to the ingest thread (dns_db_ingest.c): the    *)
(* clients from accept() to close(), a client parked until the loader has  *)
(* answered, the two rings between the threads, the ingest thread's table  *)
(* of requests, one request for every view, cancelling, a lost loader, and *)
(* the time limits.  A line is a unit; what a command other than these     *)
(* does is elsewhere (ConfigReload, Transfers, ZoneVersions).              *)
(***************************************************************************)
EXTENDS Naturals, Sequences, FiniteSets, SequencesExt, FiniteSetsExt

CONSTANTS
  CtlFds,         \* descriptors accept() may return
  ParkMax,        \* CTRL_PARK_MAX
  ReqMax,         \* ING_REQ_MAX
  RingMax,        \* RQ_RING, the size of both rings
  DbViews,        \* how many views take zones from the database
  MaxClients,     \* bound: clients that connect
  MaxLines        \* bound: lines that they send

VARIABLES
  cl,             \* per descriptor: [st, buf, req]
  waiting,        \* connections that accept() has not taken
  sock,           \* per descriptor: the lines that were not read
  gone,           \* the descriptors whose client has closed
  ron,            \* the descriptors whose EVFILT_READ is active
  dbev,           \* EVFILT_USER of the ingest thread is active
  batch,          \* events of this kevent() call that are still to be handled
  ctl_parked,     \* g_ctrl_parked
  rq, rs,         \* the rings of requests and of results
  reqs,           \* ingest thread: the parts at the loader, [id, grp], grp 0 without a group
  grps,           \* ingest thread: the requests for every view that are active
  cur_req,        \* the request whose batch is being received
  linked,         \* the loader is connected
  dropped,        \* requests whose answer found the ring full
  conns, lines,   \* clients and lines so far
  next_id         \* g_next_req_id and sub_seq

ccvars == <<cl, waiting, sock, gone, ron, dbev, batch, ctl_parked, rq, rs, reqs, grps, cur_req,
            linked, dropped, conns, lines, next_id>>

ingest == <<reqs, grps, cur_req, linked>>

Closed == [st |-> "closed", buf |-> <<>>, req |-> 0]
NoReq == [id |-> <<0, 0>>, grp |-> 0]

CcInit ==
  /\ cl = [f \in CtlFds |-> Closed] /\ waiting = 0
  /\ sock = [f \in CtlFds |-> <<>>] /\ gone = {} /\ ron = {} /\ dbev = FALSE /\ batch = {}
  /\ ctl_parked = 0 /\ rq = <<>> /\ rs = <<>> /\ reqs = {} /\ grps = {} /\ cur_req = NoReq
  /\ linked = TRUE /\ dropped = {} /\ conns = 0 /\ lines = 0 /\ next_id = 0

(***************************************************************************)
(* The clients.                                                            *)
(***************************************************************************)
Connect ==
  /\ conns < MaxClients /\ conns' = conns + 1 /\ waiting' = waiting + 1
  /\ UNCHANGED <<cl, sock, gone, ron, dbev, batch, ctl_parked, rq, rs, dropped, lines, next_id,
                 ingest>>

\* "auth" is a correct AUTH line (as a command it is an unknown one), the others are commands (as
\* AUTH lines they fail): the reload of one database zone in a named view or in all of them, the
\* reload of everything, and one that the key may not use.
Lines == {"auth", "zone", "zoneall", "all", "refused"}

Send(f, line) ==
  /\ cl[f].st # "closed" /\ f \notin gone /\ lines < MaxLines /\ lines' = lines + 1
  /\ sock' = [sock EXCEPT ![f] = Append(@, line)] /\ ron' = ron \cup {f}
  /\ UNCHANGED <<cl, waiting, gone, dbev, batch, ctl_parked, rq, rs, dropped, conns, next_id,
                 ingest>>

Leave(f) ==
  /\ cl[f].st # "closed" /\ f \notin gone
  /\ gone' = gone \cup {f} /\ ron' = ron \cup {f}
  /\ UNCHANGED <<cl, waiting, sock, dbev, batch, ctl_parked, rq, rs, dropped, conns, lines, next_id,
                 ingest>>

(***************************************************************************)
(* kevent(): at most four events.  A read event is EV_CLEAR, its knote is  *)
(* looked at again when it is taken.  The timer may always be due.         *)
(***************************************************************************)
Event(k, f, eof) == [k |-> k, fd |-> f, eof |-> eof]

Active ==
  {Event("timer", 0, FALSE)}
    \cup (IF waiting > 0 THEN {Event("listen", 0, FALSE)} ELSE {})
    \cup (IF dbev THEN {Event("db", 0, FALSE)} ELSE {})
    \cup {Event("read", f, f \in gone) : f \in {g \in ron : sock[g] # <<>> \/ g \in gone}}

CtlKevent ==
  /\ batch = {}
  /\ batch' \in {taken \in SUBSET Active \ {{}} :
                  /\ Cardinality(taken) <= 4
                  /\ Cardinality(taken) = 4 \/ \A e \in Active \ taken : e.k = "timer"}
  /\ ron' = ron \ {e.fd : e \in batch'}
  /\ dbev' = (dbev /\ \A e \in batch' : e.k # "db")
  /\ UNCHANGED <<cl, waiting, sock, gone, ctl_parked, rq, rs, dropped, conns, lines, next_id,
                 ingest>>

(***************************************************************************)
(* What a handler does to the clients, to the ring of requests and to what *)
(* the kernel keeps of a descriptor (shut: closed, took: read).            *)
(***************************************************************************)
Now == [cl |-> cl, n |-> ctl_parked, rq |-> rq, id |-> next_id, shut |-> {}, took |-> {}]

Push(ring, item) == IF Len(ring) >= RingMax THEN ring ELSE Append(ring, item)

\* The count of parked clients is not taken back.
free_keeps_count(s, f) ==
  [s EXCEPT !.cl[f] = Closed, !.shut = @ \cup {f},
            !.rq = IF s.cl[f].st = "parked" THEN Push(@, [type |-> "cancel", id |-> s.cl[f].req])
                                            ELSE @]

free_ctrl_client(s, f) ==
  [s EXCEPT !.cl[f] = Closed, !.shut = @ \cup {f},
            !.n = IF s.cl[f].st = "parked" THEN @ - 1 ELSE @,
            !.rq = IF s.cl[f].st = "parked" THEN Push(@, [type |-> "cancel", id |-> s.cl[f].req])
                                            ELSE @]

\* close() ends what the kernel has for the descriptor; events that kevent() has returned stay.
Becomes(s) ==
  /\ cl' = s.cl /\ ctl_parked' = s.n /\ rq' = s.rq /\ next_id' = s.id
  /\ sock' = [f \in CtlFds |-> IF f \in s.shut \cup s.took THEN <<>> ELSE sock[f]]
  /\ gone' = gone \ s.shut /\ ron' = ron \ s.shut

Handled(e) == e \in batch /\ batch' = batch \ {e}

\* accept() until it fails: a peer that is not admitted is closed at once, the others get the
\* lowest free descriptors and a challenge.
Accept(e) ==
  LET free == {f \in CtlFds : cl[f].st = "closed"} IN
  /\ e.k = "listen" /\ Handled(e)
  /\ \E k \in 0 .. Min({waiting, Cardinality(free)}) :
       /\ cl' = [f \in CtlFds |-> IF f \in free /\ Cardinality({g \in free : g < f}) < k
                                  THEN [Closed EXCEPT !.st = "auth"] ELSE cl[f]]
       /\ IF k = Cardinality(free) THEN waiting' \in 0 .. waiting - k ELSE waiting' = 0
  /\ UNCHANGED <<sock, gone, ron, dbev, ctl_parked, rq, rs, dropped, conns, lines, next_id, ingest>>

Request(s, type) == [s EXCEPT !.id = @ + 1, !.rq = Append(@, [type |-> type, id |-> s.id + 1])]

\* db_zone_command() with "reload": refused, or the request is queued and the client parked.
db_zone_command(s, f, type) ==
  IF s.n >= ParkMax \/ Len(s.rq) >= RingMax THEN free_ctrl_client(s, f)
  ELSE [Request(s, type) EXCEPT !.cl[f].st = "parked", !.cl[f].req = s.id + 1, !.n = @ + 1]

\* A command that was answered ends the connection, a refused one does not.
Command(s, f, line) ==
  CASE line = "refused" -> [s EXCEPT !.cl[f].buf = Tail(@)]
    [] line \in {"zone", "zoneall"} -> db_zone_command(s, f, line)
    [] line = "all" -> free_ctrl_client(IF Len(s.rq) >= RingMax THEN s ELSE Request(s, "all"), f)
    [] OTHER -> free_ctrl_client(s, f)

HandleLine(s, f) ==
  LET line == Head(s.cl[f].buf) IN
  IF s.cl[f].st = "cmd" THEN Command(s, f, line)
  ELSE IF line = "auth" THEN [s EXCEPT !.cl[f].st = "cmd", !.cl[f].buf = Tail(@)]
  ELSE free_ctrl_client(s, f)

\* recv() takes all that is there; nothing (end of file, or EAGAIN) closes the client, and one
\* line is handled.  A parked client's words are thrown away.
recv(f) ==
  LET s == [Now EXCEPT !.took = {f}] IN
  IF cl[f].st = "parked" THEN IF sock[f] = <<>> /\ f \in gone THEN free_ctrl_client(s, f) ELSE s
  ELSE IF sock[f] = <<>> THEN free_ctrl_client(s, f)
  ELSE HandleLine([s EXCEPT !.cl[f].buf = @ \o sock[f]], f)

\* A read event.  It may be one of an earlier client that had this descriptor.
Readable(e) ==
  /\ e.k = "read" /\ Handled(e)
  /\ Becomes(IF cl[e.fd].st = "closed" THEN Now
             ELSE IF e.eof THEN free_ctrl_client(Now, e.fd) ELSE recv(e.fd))
  /\ UNCHANGED <<waiting, dbev, rs, dropped, conns, lines, ingest>>

\* Every answer that is in the ring: its client, if it still waits, gets it and is closed without
\* cancelling what is done.
Answered(s) == {f \in CtlFds : s.cl[f].st = "parked" /\ s.cl[f].req \in Range(rs)}

control_db_results(s) ==
  [s EXCEPT !.cl = [f \in CtlFds |-> IF f \in Answered(s) THEN Closed ELSE @[f]],
            !.n = @ - Cardinality(Answered(s)), !.shut = @ \cup Answered(s)]

DbResults(e) ==
  /\ e.k = "db" /\ Handled(e)
  /\ Becomes(control_db_results(Now)) /\ rs' = <<>>
  /\ UNCHANGED <<waiting, dbev, dropped, conns, lines, ingest>>

\* The tick: idle clients and parked clients whose time is over.  `late` are those whose time is.
Expire(s, late) == FoldSet(LAMBDA f, t : free_ctrl_client(t, f), s, late)

Tick(e) ==
  /\ e.k = "timer" /\ Handled(e) /\ rs' = <<>>
  /\ \E late \in SUBSET {f \in CtlFds : cl[f].st # "closed"} :
       LET idle == {f \in late : cl[f].st # "parked"}
           s == control_db_results(Expire(Now, idle))
       IN Becomes(Expire(s, {f \in late \ idle : s.cl[f].st = "parked"}))
  /\ UNCHANGED <<waiting, dbev, dropped, conns, lines, ingest>>

Control == CtlKevent \/ \E e \in batch : Accept(e) \/ Readable(e) \/ DbResults(e) \/ Tick(e)

(***************************************************************************)
(* The ingest thread: the rings, the table of requests, the loader.        *)
(***************************************************************************)
post_result(ids) ==
  /\ rs' = rs \o SubSeq(SetToSeq(ids), 1, Min({Cardinality(ids), RingMax - Len(rs)}))
  /\ dropped' = dropped \cup (ids \ Range(rs'))
  /\ dbev' = (dbev \/ Len(rs') > Len(rs))

control == <<cl, waiting, sock, gone, ron, batch, ctl_parked, conns, lines>>

\* The id of a request that is one view's part of a group is the ingest thread's own.
SubReqs(id) == {[id |-> <<id, v>>, grp |-> id] : v \in 1 .. DbViews}
Single(id) == [id |-> <<id, 0>>, grp |-> 0]
CtlId(r) == r.id[1]

\* One request of the ring.
process_requests ==
  /\ rq # <<>> /\ rq' = Tail(rq)
  /\ LET it == Head(rq)
         new == IF it.type = "zone" THEN {Single(it.id)} ELSE SubReqs(it.id)
     IN
     CASE it.type = "all" -> UNCHANGED <<reqs, grps, cur_req, rs, dropped, dbev>>
       [] it.type = "cancel" ->
            /\ reqs' = {r \in reqs : CtlId(r) # it.id} /\ grps' = grps \ {it.id}
            /\ cur_req' = IF cur_req \in reqs' THEN cur_req ELSE NoReq
            /\ UNCHANGED <<rs, dropped, dbev>>
       [] it.type \in {"zone", "zoneall"} ->
            \/ /\ linked /\ Cardinality(reqs) + Cardinality(new) <= ReqMax
               /\ it.type = "zoneall" => Cardinality(grps) < ReqMax
               /\ reqs' = reqs \cup new
               /\ grps' = IF it.type = "zoneall" THEN grps \cup {it.id} ELSE grps
               /\ UNCHANGED <<cur_req, rs, dropped, dbev>>
            \/ \* not connected, no place, or a name or view that is not valid any more
               /\ post_result({it.id}) /\ UNCHANGED <<reqs, grps, cur_req>>
  /\ UNCHANGED <<control, linked, next_id>>

\* BATCH_BEGIN names the request it answers; one that was cancelled is nobody's.
BatchBegin ==
  /\ linked /\ cur_req = NoReq /\ cur_req' \in reqs
  /\ UNCHANGED <<control, rq, rs, dbev, reqs, grps, linked, dropped, next_id>>

\* BATCH_END: the last part of a group posts the answer of the group.
answer_request ==
  /\ cur_req # NoReq /\ cur_req' = NoReq /\ reqs' = reqs \ {cur_req}
  /\ IF cur_req.grp # 0 /\ \E r \in reqs' : r.grp = cur_req.grp
     THEN UNCHANGED <<grps, rs, dropped, dbev>>
     ELSE grps' = grps \ {cur_req.grp} /\ post_result({CtlId(cur_req)})
  /\ UNCHANGED <<control, rq, linked, next_id>>

\* The loader is lost: every request and every group is answered once.
fail_requests ==
  /\ linked /\ linked' = FALSE
  /\ reqs' = {} /\ grps' = {} /\ cur_req' = NoReq
  /\ post_result({CtlId(r) : r \in reqs})
  /\ UNCHANGED <<control, rq, next_id>>

Reconnect ==
  /\ ~linked /\ linked' = TRUE
  /\ UNCHANGED <<control, rq, rs, dbev, reqs, grps, cur_req, dropped, next_id>>

Ingest == process_requests \/ BatchBegin \/ answer_request \/ fail_requests \/ Reconnect

CcNext ==
  \/ Control \/ Ingest \/ Connect
  \/ \E f \in CtlFds : Leave(f) \/ \E line \in Lines : Send(f, line)
=============================================================================
