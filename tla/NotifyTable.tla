---------------------------- MODULE NotifyTable ----------------------------
(***************************************************************************)
(* The NOTIFYs that await an answer (dns_dynamic_update.c): the table of   *)
(* the control thread, the retransmissions, notify-rate, the answers that  *)
(* come late or not at all, and the exchanges over TCP, each a thread of   *)
(* its own that works on a copy.  A key is a zone and a destination; an id *)
(* is unique (in the code 16 random bits).                                 *)
(***************************************************************************)
EXTENDS Naturals, FiniteSets

CONSTANTS
  NKeys,          \* zone and destination
  PendMax,        \* NOTIFY_PENDING_MAX
  TcpMax,         \* NOTIFY_TCP_MAX
  MaxSends,       \* 1 + notify-retries
  Rate,           \* notify-rate
  TcpOnly,        \* keys whose `server` statement says tcp-only
  MaxNotify       \* bound: NOTIFYs

VARIABLES
  ntab,           \* the table: per place Unused or the NOTIFY
  rl_used,        \* g_notify_rl: first messages in this second
  tcp_active,     \* g_notify_tcp_active
  tcp_jobs,       \* the threads: [id, tries]
  asked,          \* datagrams that may be answered: [id, key]
  nid             \* the last id

ntvars == <<ntab, rl_used, tcp_active, tcp_jobs, asked, nid>>

\* A NOTIFY is sent at least once.
ASSUME NtAssumption == PendMax \in Nat /\ TcpMax \in Nat /\ Rate \in Nat /\ MaxSends \in Nat \ {0}

Slots == 1 .. PendMax
Unused == [used |-> FALSE, id |-> 0]
\* wait: the seconds until next_time; sends = 0: not sent yet.
Note(id, k, tcp, tries, wait) ==
  [used |-> TRUE, id |-> id, key |-> k, tcp |-> tcp, tries |-> tries, sends |-> 0, wait |-> wait]

\* A second less to wait; one more second because it cannot go out now; one message more.
Older(p) == [p EXCEPT !.wait = @ - 1]
Held(p) == [p EXCEPT !.wait = 1]
Sent(p) == [p EXCEPT !.sends = @ + 1, !.wait = 1]

NtInit ==
  /\ ntab = [i \in Slots |-> Unused] /\ rl_used = 0 /\ tcp_active = 0 /\ tcp_jobs = {}
  /\ asked = {} /\ nid = 0

(***************************************************************************)
(* What a call works on: [tab, rl, act, jobs, asked].                      *)
(***************************************************************************)
Here == [tab |-> ntab, rl |-> rl_used, act |-> tcp_active, jobs |-> tcp_jobs, asked |-> asked]

Becomes(s) ==
  ntab' = s.tab /\ rl_used' = s.rl /\ tcp_active' = s.act /\ tcp_jobs' = s.jobs /\ asked' = s.asked

TcpRoom(s) == s.act < TcpMax
xfr_rl_take(s) == s.rl < Rate

\* No memory or no thread: the NOTIFY is not sent.
notify_tcp_start(s, p, fails) ==
  IF fails THEN s
  ELSE [s EXCEPT !.act = @ + 1, !.jobs = @ \cup {[id |-> p.id, tries |-> p.tries]}]

Datagram(s, p) == [s EXCEPT !.asked = @ \cup {[id |-> p.id, key |-> p.key]}]

\* The NOTIFY of place i (0: not in the table) goes out; one that goes over TCP leaves the table.
notify_xmit(s, i, p, fails) ==
  IF ~p.tcp THEN Datagram(IF i = 0 THEN s ELSE [s EXCEPT !.tab[i] = p], p)
  ELSE notify_tcp_start(IF i = 0 THEN s ELSE [s EXCEPT !.tab[i] = Unused], p, fails)

\* The first free place is taken even when the zone has one for this destination.
FirstFree(k) ==
  LET free == {i \in Slots : ~ntab[i].used} IN
  IF free = {} THEN 0 ELSE CHOOSE i \in free : \A j \in free : i <= j

\* The place of the older NOTIFY for this zone and destination, else a free one, else none.
Place(k) ==
  LET same == {i \in Slots : ntab[i].used /\ ntab[i].key = k}
      free == {i \in Slots : ~ntab[i].used}
      pick == IF same # {} THEN same ELSE free
  IN IF pick = {} THEN 0 ELSE CHOOSE i \in pick : \A j \in pick : i <= j

\* fails: the thread cannot be started; unsigned: it cannot be signed, and the place is empty.
notify_send_to(k, fails, unsigned) ==
  LET i == Place(k)
      p == Note(nid + 1, k, k \in TcpOnly, IF k \in TcpOnly THEN 2 ELSE 1, 1)
      room == ~p.tcp \/ TcpRoom(Here)
  IN
  /\ nid < MaxNotify /\ nid' = nid + 1
  /\ CASE unsigned -> Becomes(IF i = 0 THEN Here ELSE [Here EXCEPT !.tab[i] = Unused])
       [] ~unsigned /\ i = 0 -> Becomes(IF room THEN notify_xmit(Here, 0, Sent(p), fails) ELSE Here)
       [] ~unsigned /\ i # 0 ->
            IF room /\ xfr_rl_take(Here)
            THEN Becomes(notify_xmit([Here EXCEPT !.rl = @ + 1], i, Sent(p), fails))
            ELSE Becomes([Here EXCEPT !.tab[i] = p])

\* The UDP messages were not answered, or the answer was no good.
notify_to_tcp(p) == Note(p.id, p.key, TRUE, 1, 0)

\* One place at the tick.
Due(s, i, fails, unsigned) ==
  LET q == s.tab[i]
      p == IF q.sends > 0 /\ q.sends >= MaxSends THEN notify_to_tcp(q) ELSE q
  IN
  CASE p.sends = 0 /\ ((p.tcp /\ ~TcpRoom(s)) \/ ~xfr_rl_take(s)) ->
         [s EXCEPT !.tab[i] = Held(p)]
    [] p.sends = 0 /\ (~p.tcp \/ TcpRoom(s)) /\ xfr_rl_take(s) ->
         LET t == [s EXCEPT !.rl = @ + 1] IN
         IF unsigned /\ ~p.tcp THEN [t EXCEPT !.tab[i] = Unused]
         ELSE notify_xmit(t, i, Sent(p), fails)
    [] p.sends > 0 ->
         IF unsigned THEN [s EXCEPT !.tab[i] = Unused]
         ELSE Datagram([s EXCEPT !.tab[i] = Sent(p)], p)

TickPlace(s, i, fails, unsigned) ==
  IF ~s.tab[i].used THEN s
  ELSE IF s.tab[i].wait > 0 THEN [s EXCEPT !.tab[i] = Older(s.tab[i])]
  ELSE Due(s, i, fails, unsigned)

\* A second passes and the whole table is looked at.
notify_retransmit_due(fails, unsigned) ==
  LET After[i \in 0 .. PendMax] ==
        IF i = 0 THEN [Here EXCEPT !.rl = 0] ELSE TickPlace(After[i - 1], i, fails, unsigned)
  IN \E s \in {After[PendMax]} : Becomes(s) /\ UNCHANGED nid

\* An answer: of the NOTIFY that waits, or a late one of a NOTIFY that was replaced.
notify_handle_response(a, good) ==
  /\ a \in asked
  /\ LET hit == {i \in Slots : ntab[i].used /\ ntab[i].id = a.id /\ ntab[i].key = a.key} IN
     Becomes([Here EXCEPT !.tab = [i \in Slots |->
        IF i \notin hit THEN @[i]
        ELSE IF good THEN Unused ELSE IF ~@[i].tcp THEN notify_to_tcp(@[i]) ELSE @[i]]])
  /\ UNCHANGED nid

\* notify_tcp_thread(): one attempt, answered or the last one.
TcpAttempt(j, answered) ==
  /\ j \in tcp_jobs
  /\ IF answered \/ j.tries = 1
     THEN tcp_jobs' = tcp_jobs \ {j} /\ tcp_active' = tcp_active - 1
     ELSE tcp_jobs' = (tcp_jobs \ {j}) \cup {[j EXCEPT !.tries = @ - 1]} /\ UNCHANGED tcp_active
  /\ UNCHANGED <<ntab, rl_used, asked, nid>>

NtTick == \E fails, unsigned \in BOOLEAN : notify_retransmit_due(fails, unsigned)
TcpThread == \E j \in tcp_jobs, answered \in BOOLEAN : TcpAttempt(j, answered)

NtNext ==
  \/ NtTick \/ TcpThread
  \/ \E k \in NKeys, fails, unsigned \in BOOLEAN : notify_send_to(k, fails, unsigned)
  \/ \E a \in asked, good \in BOOLEAN : notify_handle_response(a, good)

NtSpec == NtInit /\ [][NtNext]_ntvars

\* The table never has two NOTIFYs for one zone and destination, a NOTIFY is not sent more often
\* than notify-retries says, and the count of the TCP exchanges is exact (notify_send_to(),
\* notify_retransmit_due(), notify_tcp_start()).
NotifySound ==
  /\ tcp_active = Cardinality(tcp_jobs) /\ tcp_active <= TcpMax
  /\ \A i, j \in 1 .. PendMax : ntab[i].used /\ ntab[j].used /\ i # j => ntab[i].key # ntab[j].key
  /\ \A i \in 1 .. PendMax : ntab[i].used => ntab[i].sends <= MaxSends
=============================================================================
