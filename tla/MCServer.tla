------------------------------ MODULE MCServer ------------------------------
(***************************************************************************)
(* The parts of the server whose safety is checked together: the park      *)
(* table, the connections of a worker and the pool of their contexts, the  *)
(* clients of the control channel, the tables of the response rates and of *)
(* the cached responses, and what is done with one message.  They share no *)
(* state; focus tells which of them a behaviour is about.                  *)
(***************************************************************************)
EXTENDS ParkTable, TcpPool, ResponseCache, FiniteSetsExt, SequencesExt

CONSTANTS
  z1, z2, u1, u2, x1, x2, t1, t2,
  Fds, Ctxs, Quota, TransfersOut, IoQueue, MaxConn, MaxInput, NoCtx,          \* TcpWorker
  CtlFds, ParkMax, ReqMax, RingMax, DbViews, MaxClients, MaxLines,            \* ControlClients
  RrlThreads, Responses, Exempt, RateOf, WindowTicks, TICKS, Ways, MaxClock, MaxChecks,  \* RrlTable
  AcWorkers, MaxPublish, MaxReload                                            \* AnswerCache

VARIABLES
  focus,
  conn, xfr, aio, input, eof, rd, tm, ctx, pool, table, evs, cur, phase, born, came,
  cl, waiting, sock, gone, ron, dbev, kbatch, ctl_parked, rq, rs, reqs, grps, cur_req, uplink,
  dropped, conns, lines, next_id,
  rrl_bucket, rrl_clock, rrl_thread, rrl_grants, rrl_checks,
  ac_ver, ac_sib, ac_gen, ac_cfg, ac_cache, ac_dirty, ac_worker,
  sample           \* one of the cases the operators without state are checked over

Worker == INSTANCE TcpWorker
Clients == INSTANCE ControlClients WITH batch <- kbatch, linked <- uplink
Rrl == INSTANCE RrlTable
Answers == INSTANCE AnswerCache
Forward == INSTANCE ForwardZone
Update == INSTANCE UpdateSections
Opts == INSTANCE Edns
Types == INSTANCE Rdata
Names == INSTANCE NameCompression
Signed == INSTANCE Tsig
Streams == INSTANCE XfrStream

Response(c, rc, an, q, program) ==
  [client |-> c, rcode |-> rc, an |-> an, ns |-> 0, aa |-> TRUE, qname |-> q, qtype |-> "A", zone |-> "z",
   wildcard |-> FALSE, cut |-> "d", program |-> program]
MCResponses == {Response("c", "NOERROR", 1, "a", FALSE), Response("c", "NXDOMAIN", 0, "b", TRUE)}
MCRates == [class \in {"noerror", "nodata", "nxdomain", "referral", "error", "all"} |->
              CASE class \in {"noerror", "nxdomain"} -> 1 [] class = "all" -> 0 [] OTHER -> 0]
MCBodies == {[tag |-> "x", ver |-> 1, words |-> 2], [tag |-> "y", ver |-> 1, words |-> 1],
             [tag |-> "x", ver |-> 2, words |-> 1]}

wvars == <<conn, xfr, aio, input, eof, rd, tm, ctx, pool, table, evs, cur, phase, born, came>>
ccvars == <<cl, waiting, sock, gone, ron, dbev, kbatch, ctl_parked, rq, rs, reqs, grps, cur_req,
            uplink, dropped, conns, lines, next_id>>

rrlvars == <<rrl_bucket, rrl_clock, rrl_thread, rrl_grants, rrl_checks>>
acvars == <<ac_ver, ac_sib, ac_gen, ac_cfg, ac_cache, ac_dirty, ac_worker>>

NoSample == [is |-> "none"]
Seeds ==
  [is : {"forward"}, seed : Forward!ForwardSeeds] \cup [is : {"update"}, seed : Update!UpdateSeeds]
  \cup [is : {"edns"}, seed : Opts!EdnsSeeds] \cup [is : {"rdata"}, seed : Types!RdataSeeds]
  \cup [is : {"parts"}, seed : Types!PartsSeeds] \cup [is : {"names"}, seed : Names!CompressionSeeds]
         \cup [is : {"tsig"}, seed : Signed!TsigSeeds]
         \cup [is : {"xfr"}, seed : Streams!XfrSeeds]

Samples(s) ==
  CASE s.is = "forward" -> Forward!ForwardInputs(s.seed)
    [] s.is = "update" -> Update!UpdateInputs(s.seed)
    [] s.is = "edns" -> Opts!EdnsInputs(s.seed)
    [] s.is = "rdata" -> Types!RdataInputs(s.seed)
    [] s.is = "parts" -> Types!PartsInputs(s.seed)
    [] s.is = "names" -> Names!CompressionInputs(s.seed)
    [] s.is = "tsig" -> Signed!TsigInputs(s.seed)
    [] s.is = "xfr" -> Streams!XfrInputs(s.seed)

MCInit ==
  /\ \/ focus \in {"table", "pool", "worker", "clients", "rates", "cache", "answers"} /\ sample = NoSample
     \/ focus = "message" /\ sample \in Seeds
  /\ Init /\ tcp_pool_init /\ Worker!TcpInit /\ Clients!CcInit
  /\ Rrl!RrlInit /\ RcInit /\ Answers!AcInit
  /\ focus # "table" => zone = [i \in Idx |-> z1]

TakeSample ==
  /\ "seed" \in DOMAIN sample
  /\ sample' \in {[is |-> sample.is, case |-> c] : c \in Samples(sample)}

MCNext ==
  /\ UNCHANGED focus
  /\ \/ focus = "message" /\ TakeSample
        /\ UNCHANGED <<vars, pvars, wvars, ccvars, rrlvars, rcvars, acvars>>
     \/ focus = "table" /\ Next /\ UNCHANGED <<sample, pvars, wvars, ccvars, rrlvars, rcvars, acvars>>
     \/ focus = "pool" /\ PoolNext /\ UNCHANGED <<sample, vars, wvars, ccvars, rrlvars, rcvars, acvars>>
     \/ focus = "worker" /\ Worker!TcpNext /\ UNCHANGED <<sample, vars, pvars, ccvars, rrlvars, rcvars, acvars>>
     \/ focus = "clients" /\ Clients!CcNext /\ UNCHANGED <<sample, vars, pvars, wvars, rrlvars, rcvars, acvars>>
     \/ focus = "rates" /\ Rrl!RrlNext /\ UNCHANGED <<sample, vars, pvars, wvars, ccvars, rcvars, acvars>>
     \/ focus = "cache" /\ RcNext /\ UNCHANGED <<sample, vars, pvars, wvars, ccvars, rrlvars, acvars>>
     \/ focus = "answers" /\ Answers!AcNext /\ UNCHANGED <<sample, vars, pvars, wvars, ccvars, rrlvars, rcvars>>

srvvars == <<focus, sample, vars, pvars, wvars, ccvars, rrlvars, rcvars, acvars>>

MCSpec == MCInit /\ [][MCNext]_srvvars

\* Whatever names a context names the connection it was made for, also when a descriptor and a
\* context are reused within one kevent() call (tcp_client_forget()).  A connection of a worker is
\* looked at again whatever its peer does, and a request that has arrived or that was parked does
\* not wait for the idle timeout, although read events are edge-triggered and dropped while a
\* connection is parked (worker_thread_func()).
Attended == focus = "worker" => Worker!NoStaleReference /\ Worker!Watched /\ Worker!NoLostInput

\* Under concurrent threads, a client gets no more responses of a key than its rate and window allow,
\* up to one bucket for each probe (rrl_debit()); a response found in the cache is one that was stored
\* whole, whatever is written meanwhile (rcache_lookup()), and it is the answer that the zone's version,
\* the sibling zones and the configuration at the time of the query give (rcache_tag()).
TablesSound ==
  /\ focus = "rates" => Rrl!CopiesBounded /\ Rrl!BudgetKept
  /\ focus = "cache" => HitIsWhole
  /\ focus = "answers" => Answers!HitIsFresh

\* What the server does with one message (see the modules for each part): a forwarder that answers in
\* its part of the time is heard (dispatch_forward_zone()); an UPDATE leaves a zone a zone, changes what
\* the policy allows and nothing when a prerequisite fails (process_update_sections_policy()); a
\* response to a request with OPT has room for its OPT (edns_opt_reserve_len(), assemble_edns_opt());
\* the data of every type is shown, cached and compared by the layout it was written with
\* (serialize_dns_record()); and a compressed name reads back as the name that was written, also after
\* records that did not fit were taken back (compress_name()).  A signed request gets a signed response
\* that its sender accepts, and a transfer is read to its end exactly when every message of it is
\* covered by a signature (tsig_check_request_nolog(), handle_axfr_event()); what a secondary has after
\* a transfer is what the primary had (send_axfr_response(), parse_xfr_packet()).
MessagesRight ==
  "case" \in DOMAIN sample =>
    CASE sample.is = "forward" -> Forward!ForwardRight(sample.case)
      [] sample.is = "update" -> Update!UpdateRight(sample.case)
      [] sample.is = "edns" -> Opts!EdnsRight(sample.case)
      [] sample.is = "rdata" -> Types!RdataRight(sample.case)
      [] sample.is = "parts" -> Types!PartsRight(sample.case)
      [] sample.is = "names" -> Names!CompressionRight(sample.case)
      [] sample.is = "tsig" -> Signed!TsigRight(sample.case)
      [] sample.is = "xfr" -> Streams!XfrRight(sample.case)

\* A parked client of the control channel is counted once, and the answer it waits for is on its
\* way or was dropped with the answer ring full: the ingest thread does not forget a request when
\* its stream ends or one of its views fails (process_requests(), fail_requests()).
ParkedIsOwed ==
  LET Parked == {f \in CtlFds : cl[f].st = "parked"}
      Asked == {i.id : i \in {q \in Range(rq) : q.type \in {"zone", "zoneall"}}}
  IN  /\ ctl_parked = Cardinality(Parked)
      /\ \A f \in Parked :
           cl[f].req \in Asked \cup Range(rs) \cup dropped \cup {Clients!CtlId(q) : q \in reqs}
=============================================================================
