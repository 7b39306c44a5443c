---------------------------- MODULE MCBackground ----------------------------
(***************************************************************************)
(* What the server owes: a reload that was asked for is made, a NOTIFY is  *)
(* sent and ends, and a query for a program zone is answered.  The parts   *)
(* share no state; one run checks each with its own initial states (focus).*)
(***************************************************************************)
EXTENDS ConfigReload, NotifyTable, ProgramZone

CONSTANTS
  c1, c2, k1, k2, k3, i1, i2,
  NZones, NrnRing, SweepSlice, PopMax, MaxChanges             \* NotifyQueue

VARIABLES
  focus,
  inmem, due, defer, deleted, nrn, overflow, sb, seen, drops, notify_now, npending, requester,
  delayed, tick, updated, owe, lost, changes

Queue == INSTANCE NotifyQueue

nqvars == <<inmem, due, defer, deleted, nrn, overflow, sb, seen, drops, notify_now, npending,
            requester, delayed, tick, updated, owe, lost, changes>>
bgvars == <<focus, cfgvars, nqvars, ntvars, pzvars>>

MCInit ==
  /\ focus \in {"config", "queue", "table", "program"}
  /\ CfgInit /\ Queue!NqInit /\ NtInit /\ PzInit
  /\ focus # "queue" => inmem = {}

MCNext ==
  /\ UNCHANGED focus
  /\ \/ focus = "config" /\ CfgNext /\ UNCHANGED <<nqvars, ntvars, pzvars>>
     \/ focus = "queue" /\ Queue!NqNext /\ UNCHANGED <<cfgvars, ntvars, pzvars>>
     \/ focus = "table" /\ NtNext /\ UNCHANGED <<cfgvars, nqvars, pzvars>>
     \/ focus = "program" /\ PzNext /\ UNCHANGED <<cfgvars, nqvars, ntvars>>

\* The control thread returns to kevent() and its timer fires every second; read sections, the
\* delay of notify-delay and the TCP exchanges (a timeout each) end.  A thread of the I/O pool takes the
\* plugin's lock when it stays free, and its exchange ends, at the deadline at the latest.
MCFairness ==
  /\ WF_cfgvars(focus = "config" /\ CtlStep)
  /\ WF_cfgvars(focus = "config" /\ CtlTick)
  /\ \A r \in CfgReaders : WF_cfgvars(focus = "config" /\ SectionEnds(r))
  /\ WF_nqvars(focus = "queue" /\ Queue!NqTick)
  /\ \A z \in 1 .. NZones : /\ WF_nqvars(focus = "queue" /\ Queue!RequestCount(z))
                            /\ WF_nqvars(focus = "queue" /\ Queue!DelayOver(z))
  /\ WF_ntvars(focus = "table" /\ NtTick)
  /\ WF_ntvars(focus = "table" /\ TcpThread)
  /\ \A t \in IoThreads : /\ WF_pzvars(focus = "program" /\ async_io_worker_func(t))
                           /\ WF_pzvars(focus = "program" /\ WriteRequest(t))
                           /\ WF_pzvars(focus = "program" /\ (ReadReply(t) \/ ExchangeFails(t)))

MCFairSpec == MCInit /\ [][MCNext]_bgvars /\ MCFairness

\* A reload that a SIGHUP or a command asked for is made, also when it was postponed because of a
\* reader or when several signals came as one event, and a full one is not replaced by a partial
\* one (run_config_reload(), sighup_decide()).
ReloadHappens == owed # "none" ~> owed = "none"

\* A zone whose serial changed gets its NOTIFY once the apex of the version is here: from the flag
\* in its entry, from the ring, or from the sweep when the ring was full, also inside of
\* notify-delay (zone_notify_request(), nrn_queue_locked(), dbreg_notify_sweep()).
NotifyFollows ==
  \A z \in 1 .. NZones : (z \in owe \ due) ~> (z \notin owe \/ z \in due)

\* Every NOTIFY in the table leaves it: answered, replaced, handed to a TCP thread or given up
\* (notify_retransmit_due()), however notify-rate and the limit of TCP exchanges hold it back.  Every
\* query for a program zone that was taken into the queue is answered: the exchange ends at its
\* deadline, and a plugin that was given up is not asked (async_io_worker_func()).
ExchangesEnd ==
  /\ \A n \in 1 .. MaxNotify :
       (\E i \in 1 .. PendMax : ntab[i].id = n) ~> (\A i \in 1 .. PendMax : ntab[i].id # n)
  /\ \A q \in 1 .. PzQueries : (pz_next > q) ~> (pz_result[q] # 0)
=============================================================================
