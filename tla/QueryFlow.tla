----------------------------- MODULE QueryFlow -----------------------------
(* The order of the checks a request goes through (dns_query_engine.c process_query_body()), for a zone in memory, a zone of the database that is not in memory, and no zone. *)
(* A request m and the situation it meets c are records of the facts the checks look at; what the zone answers to a good question is ZoneAnswer, who may ask is Access.       *)
(* A response is its RCODE, flags, extended error (written when there is an OPT), whether it has an OPT, and what kind of content follows.                                     *)
EXTENDS Sequences, FiniteSets, Integers

NoEde == -1

Response(rc, ede, opt, aa, body) == [rc |-> rc, ede |-> ede, opt |-> opt, aa |-> aa, tc |-> FALSE, body |-> body]

\* Checks are made one after the other: the response of the first one that is met.
Ladder(rungs) == rungs[CHOOSE i \in DOMAIN rungs : rungs[i][1] /\ \A j \in 1..(i - 1) : ~rungs[j][1]][2]

HasOpt(m) == m.opt \in {"v0", "v1"}
dns_build_error_response(m, rc, ede) == Response(rc, ede, HasOpt(m), FALSE, "none")
Formerr(m) == dns_build_error_response(m, "FORMERR", NoEde)
Refused(m) == dns_build_error_response(m, "REFUSED", 18)
NotAuthoritative(m) == dns_build_error_response(m, "REFUSED", 20)

Option(m, o) == HasOpt(m) /\ o
HasMqtype(m, c) == Option(m, m.mq # "none") /\ c.mqtype_enable
Transfer(m) == m.t \in {"AXFR", "IXFR"}

(* ---- the message itself, whatever the zone ---- *)

dns_question_section_ok(m) == m.qd # "bad" /\ (m.op \in {"notify", "update"} => m.class # "ANY")

MessageChecks(m, c) ==
    << <<~dns_question_section_ok(m), Response("FORMERR", NoEde, FALSE, FALSE, "none")>>,
       <<m.opt = "bad", Response("FORMERR", NoEde, FALSE, FALSE, "none")>>,
       <<m.tsig = "malformed", Formerr(m)>>,
       <<m.tsig = "error", dns_build_error_response(m, "NOTAUTH", 18)>>,
       <<HasMqtype(m, c) /\ m.mq = "invalid", Formerr(m)>>,
       <<m.opt = "v1", dns_build_error_response(m, "BADVERS", NoEde)>>,
       <<Option(m, m.cookie = "malformed") \/ (Option(m, m.ecs = "malformed") /\ c.ecs_enable), Formerr(m)>>,
       <<m.op = "other", dns_build_error_response(m, "NOTIMP", 21)>>,
       <<IF m.op = "query" THEN m.qd = "two" ELSE m.qd # "one", dns_build_error_response(m, "FORMERR", 0)>>,
       <<m.op \in {"notify", "update"} /\ m.class # "IN", dns_build_error_response(m, "NOTIMP", NoEde)>>,
       <<m.op = "notify" /\ m.t # "SOA", dns_build_error_response(m, "FORMERR", 0)>> >>

NoQuestion(m, c) ==
    << <<HasMqtype(m, c), Formerr(m)>>,
       <<~Option(m, m.cookie # "none"), dns_build_error_response(m, "FORMERR", 0)>>,
       <<TRUE, Response("NOERROR", NoEde, TRUE, FALSE, "none")>> >>

(* ---- a zone that is in the directory and not in memory ---- *)

\* Everything the body of an answer does that a summary cannot.
SummaryAnswers(m, c, ixfr) ==
    /\ c.summary
    /\ m.class = "IN"
    /\ HasOpt(m) => /\ ~m.dnssec_ok /\ m.ecs = "none" /\ m.cookie = "none" /\ ~m.karidns_ext
                    /\ ~HasMqtype(m, c)
                    /\ ~m.expire \/ ixfr

build_apex_soa_answer(m, ixfr) ==
    [Response("NOERROR", NoEde, HasOpt(m), TRUE, IF ixfr THEN "soa" ELSE "answer") EXCEPT !.tc = ixfr /\ m.behind]

build_not_ready_response(m) == dns_build_error_response(m, "SERVFAIL", 14)

\* A worker that can park the request asks first whether it may wait.
MayWait(m, probe) == IF probe THEN Response("WAIT", NoEde, FALSE, FALSE, "none") ELSE build_not_ready_response(m)

NotReady(m, c, probe) ==
    LET UdpTransferOfZone == Transfer(m) /\ ~m.tcp /\ m.name = "apex" IN
    << <<m.op = "notify", Refused(m)>>,
       <<m.op = "update" /\ m.t # "SOA", Formerr(m)>>,
       <<m.op = "update" /\ m.name # "apex", dns_build_error_response(m, "NOTAUTH", NoEde)>>,
       <<m.op = "update" /\ ~(c.may_query /\ c.may_update), Refused(m)>>,
       <<m.op = "update", MayWait(m, probe)>>,
       <<~c.may_query, Refused(m)>>,
       <<m.t = "SOA" /\ m.name = "apex" /\ SummaryAnswers(m, c, FALSE), build_apex_soa_answer(m, FALSE)>>,
       <<UdpTransferOfZone /\ m.class # "IN", NotAuthoritative(m)>>,
       <<UdpTransferOfZone /\ ~c.may_transfer, Refused(m)>>,
       <<UdpTransferOfZone /\ (m.t = "AXFR" \/ ~m.shape_ok), Formerr(m)>>,
       <<UdpTransferOfZone /\ SummaryAnswers(m, c, TRUE), build_apex_soa_answer(m, TRUE)>>,
       <<TRUE, MayWait(m, probe)>> >>

(* ---- a zone in memory, or none ---- *)

HasZone(c) == c.zone # "none" /\ c.view
PassThrough(c) == HasZone(c) /\ c.type \in {"program", "forward"}

Notify(m, c) ==
    << <<PassThrough(c), dns_build_error_response(m, "NOTIMP", 21)>>,
       <<HasMqtype(m, c), Formerr(m)>>,
       <<HasZone(c) /\ c.type = "secondary" /\ c.may_notify, [dns_build_error_response(m, "NOERROR", NoEde) EXCEPT !.aa = TRUE, !.body = "refresh"]>>,
       <<TRUE, Refused(m)>> >>

Update(m, c) ==
    << <<PassThrough(c), dns_build_error_response(m, "NOTIMP", 21)>>,
       <<HasMqtype(m, c), Formerr(m)>>,
       <<m.t # "SOA", Formerr(m)>>,
       <<~HasZone(c) \/ m.name # "apex", dns_build_error_response(m, "NOTAUTH", NoEde)>>,
       <<c.type # "primary" \/ ~(c.may_query /\ c.may_update), Refused(m)>>,
       <<TRUE, [dns_build_error_response(m, "NOERROR", NoEde) EXCEPT !.body = "update"]>> >>

is_badcookie(m, c) == /\ ~m.tcp
                      /\ Option(m, m.cookie = "wrong" \/ (m.cookie = "client" /\ c.require_server_cookie))

\* SERVFAIL and REFUSED after the header was begun: the extended bits of BADCOOKIE stay in the OPT of a request that has a wrong cookie.
LateError(m, c, rc, ede) ==
    IF is_badcookie(m, c) THEN dns_build_error_response(m, IF rc = "REFUSED" THEN "REFUSED+16" ELSE "SERVFAIL+16", ede)
    ELSE dns_build_error_response(m, rc, ede)

Stale(c) == c.zone = "expired" /\ c.serve_stale

build_badcookie_response(m, c) == dns_build_error_response(m, "BADCOOKIE", IF Stale(c) THEN 3 ELSE NoEde)

QueryChecks(m, c) ==
    << <<HasZone(c) /\ ~c.may_query, Refused(m)>>,
       <<c.zone = "expired" /\ ~c.serve_stale, dns_build_error_response(m, "SERVFAIL", 24)>>,
       <<m.class = "HS", dns_build_error_response(m, "REFUSED", 0)>> >>

Chaos(m, c) ==
    << <<~c.may_query_options, Refused(m)>>,
       <<m.t = "AXFR" /\ ~m.tcp, Formerr(m)>>,
       <<is_badcookie(m, c), build_badcookie_response(m, c)>>,
       <<TRUE, Response("NOERROR", NoEde, HasOpt(m), TRUE, "chaos")>> >>

\* The response of a plugin or a forwarder is passed on; one that is only a header and a question gets the OPT.
Relay(m, c) ==
    << <<Transfer(m) /\ (m.class # "IN" \/ c.type = "forward"), NotAuthoritative(m)>>,
       <<Transfer(m) /\ ((m.t = "AXFR" /\ ~m.tcp) \/ ~m.shape_ok), Formerr(m)>>,
       <<TRUE, Response("NOERROR", NoEde, HasOpt(m), FALSE, "relay")>> >>

\* A KariDNS secondary that checks the serial is shown the SOA whatever it may see.
ref_soa_ask(m, c) == m.t \in {"SOA", "IXFR"} /\ m.class = "IN" /\ Option(m, m.karidns_ext) /\ m.name = "apex"

ZoneChecks(m, c) ==
    << <<~HasZone(c), LateError(m, c, "REFUSED", IF c.view THEN 20 ELSE 18)>>,
       <<c.zone = "empty", LateError(m, c, "SERVFAIL", 14)>>,
       <<c.soa_attr /\ ~c.sees_soa /\ ~ref_soa_ask(m, c), LateError(m, c, "REFUSED", 18)>>,
       <<is_badcookie(m, c), build_badcookie_response(m, c)>> >>

Answer(m, c, body) == Response("NOERROR", IF Stale(c) THEN 3 ELSE NoEde, HasOpt(m), TRUE, body)

UdpTransfer(m, c) ==
    << <<m.class # "IN" \/ m.name # "apex", NotAuthoritative(m)>>,
       <<~c.may_transfer, Refused(m)>>,
       <<m.t = "AXFR" \/ ~m.shape_ok, Formerr(m)>>,
       <<TRUE, [Answer(m, c, "soa") EXCEPT !.tc = m.behind]>> >>

Resolve(m, c) ==
    << <<HasMqtype(m, c) /\ m.mq = "bad", Formerr(m)>>,
       <<TRUE, Answer(m, c, "answer")>> >>

process_query_body(m, c, probe) ==
    LET chaos == m.class = "CH" /\ m.name = "chaos"
        rungs == MessageChecks(m, c)
                 \o (IF c.zone = "absent" /\ m.qd = "one" THEN NotReady(m, c, probe)
                     ELSE IF m.op = "notify" THEN Notify(m, c)
                     ELSE IF m.op = "update" THEN Update(m, c)
                     ELSE IF m.qd = "none" THEN NoQuestion(m, c)
                     ELSE QueryChecks(m, c)
                          \o (IF chaos THEN Chaos(m, c)
                              ELSE IF PassThrough(c) THEN Relay(m, c)
                              ELSE ZoneChecks(m, c) \o (IF Transfer(m) /\ ~m.tcp THEN UdpTransfer(m, c) ELSE Resolve(m, c))))
    IN Ladder(rungs)

-----------------------------------------------------------------------------
(* What the order of the checks has to guarantee: the properties of QueryFlow, and the requests and situations they are checked over: all that differ from a plain one in two *)
(* facts at most on one side and one on the other.                                                                                                                             *)

Plain(op, t) == [op |-> op, t |-> t, qd |-> "one", class |-> "IN", name |-> "apex", tcp |-> FALSE, opt |-> "v0", tsig |-> "none", cookie |-> "none", ecs |-> "none",
                 mq |-> "none", expire |-> FALSE, dnssec_ok |-> FALSE, karidns_ext |-> FALSE, shape_ok |-> TRUE, behind |-> FALSE]

MessageFacts == [qd : {"none", "two", "bad"}] \cup [class : {"CH", "ANY", "HS"}] \cup [name : {"below", "chaos"}] \cup [tcp : {TRUE}] \cup [opt : {"none", "bad", "v1"}]
                \cup [tsig : {"malformed", "error", "valid"}] \cup [cookie : {"malformed", "client", "valid", "wrong"}] \cup [ecs : {"malformed", "given"}]
                \cup [mq : {"good", "bad", "invalid"}] \cup [expire : {TRUE}] \cup [dnssec_ok : {TRUE}] \cup [karidns_ext : {TRUE}] \cup [shape_ok : {FALSE}] \cup [behind : {TRUE}]

Calm == [zone |-> "there", type |-> "primary", view |-> TRUE, may_query |-> TRUE, may_query_options |-> TRUE, may_transfer |-> TRUE, may_update |-> TRUE, may_notify |-> TRUE,
         serve_stale |-> FALSE, mqtype_enable |-> TRUE, ecs_enable |-> TRUE, require_server_cookie |-> FALSE, summary |-> FALSE, soa_attr |-> FALSE, sees_soa |-> FALSE]

SituationFacts == [zone : {"none", "empty", "expired", "absent"}] \cup [type : {"secondary", "program", "forward"}] \cup [view : {FALSE}] \cup [may_query : {FALSE}]
                  \cup [may_query_options : {FALSE}] \cup [may_transfer : {FALSE}] \cup [may_update : {FALSE}] \cup [may_notify : {FALSE}] \cup [serve_stale : {TRUE}]
                  \cup [mqtype_enable : {FALSE}] \cup [ecs_enable : {FALSE}] \cup [require_server_cookie : {TRUE}] \cup [summary : {TRUE}] \cup [soa_attr : {TRUE}]

With(r, facts) == [f \in DOMAIN r |-> IF f \in DOMAIN facts THEN facts[f] ELSE r[f]]
Variants(rs, facts) == rs \cup {With(r, f) : r \in rs, f \in facts}

\* Only primary zones of the database leave memory, and a summary of one whose SOA is restricted is not kept (apex_from_image()).
Possible(c) == /\ c.zone = "absent" => c.type = "primary" /\ c.view
               /\ c.summary => c.zone = "absent" /\ ~c.soa_attr
               /\ c.zone = "expired" => c.type = "secondary"

OneFact == Variants({Calm, [Calm EXCEPT !.zone = "absent"], [Calm EXCEPT !.zone = "expired", !.type = "secondary"]}, SituationFacts)
Situations(n) == {c \in IF n = 1 THEN OneFact ELSE Variants(OneFact, SituationFacts) : Possible(c)}
Messages(op, t, n) == LET one == Variants({Plain(op, t)}, MessageFacts) IN IF n = 1 THEN one ELSE Variants(one, MessageFacts)

InMemory(c) == [c EXCEPT !.zone = "there"]

\* A zone that is not in memory changes when a request is answered, not how: its answer is the one the zone in memory gives, or the request waits (or is told to come again), which it
\* never does when the zone in memory would refuse it by an access list.  Left out: the built-in CHAOS names, an option MQTYPE, which the zone in memory looks at first, the cookie of a transfer
\* request, the extended error of one of a class no zone has, and a zone that is shown to some clients only, which is known when it is read.
NotReadyOnlyDelays(m, c) ==
    c.zone = "absent" /\ m.name # "chaos" /\ ~HasMqtype(m, c) =>
        LET there == process_query_body(m, InMemory(c), FALSE)
        IN \A probe \in BOOLEAN :
              LET r == process_query_body(m, c, probe)
              IN \/ r = there
                 \/ r \in {MayWait(m, TRUE), MayWait(m, FALSE)} /\ there # Refused(m)
                 \/ c.soa_attr /\ r.body = "none"
                 \/ there.rc = "BADCOOKIE" /\ Transfer(m)
                 \/ m.class = "HS" /\ Transfer(m) /\ r.rc = there.rc
                 \/ there.body = "update" /\ r = MayWait(m, probe)

\* A response has an OPT exactly when the request had one that could be used and its question section could be read (RFC 6891 7).
OptEchoed(m, c) == LET r == process_query_body(m, c, FALSE) IN r.opt <=> HasOpt(m) /\ dns_question_section_ok(m)

\* Only a response that answers or accepts something speaks as the authority, and TC is only set on one.
AuthorityOnlyInAnswers(m, c) == LET r == process_query_body(m, c, FALSE) IN (r.aa \/ r.tc) => r.rc = "NOERROR" /\ r.body # "none"

\* Content comes out, and a change or a refresh goes in, only for a request that is well formed and signed right if it is signed, from a client every list on the way lets through; with
\* a wrong cookie nothing comes out over UDP of a zone this server has the data of, in memory or as a summary.
NothingUnasked(m, c) ==
    LET r == process_query_body(m, c, FALSE) IN r.body # "none" =>
        /\ m.tsig \in {"none", "valid"} /\ m.opt # "bad" /\ m.qd = "one"
        /\ r.body \in {"answer", "soa", "relay", "update"} => c.view /\ c.may_query
        /\ Transfer(m) /\ ~m.tcp /\ r.body \in {"answer", "soa"} => c.may_transfer /\ r.body = "soa"
        /\ r.body = "update" => c.may_update /\ c.type = "primary" /\ c.zone # "absent"
        /\ r.body = "refresh" => c.may_notify
        /\ r.body = "chaos" => c.may_query_options
        /\ r.body \in {"answer", "soa", "chaos"} => ~is_badcookie(m, c)
        /\ c.zone = "expired" /\ r.body \in {"answer", "soa"} => c.serve_stale /\ (r.opt => r.ede = 3)

\* An unsigned request and the same one with a good signature get the same checks: what differs is who may ask, which is in the lists.
FlowRightFor(m, c) == NotReadyOnlyDelays(m, c) /\ OptEchoed(m, c) /\ AuthorityOnlyInAnswers(m, c) /\ NothingUnasked(m, c)

FlowSeeds == [is : {"flow"}, op : {"query", "notify", "update", "other"}, t : {"A", "SOA", "IXFR", "AXFR"}, facts : {1, 2}]
FlowInputs(s) == {[is |-> "flow", op |-> s.op, t |-> s.t, facts |-> s.facts, c |-> c] : c \in Situations(s.facts)}
FlowRight(i) == \A m \in Messages(i.op, i.t, 3 - i.facts) : FlowRightFor(m, i.c)
=============================================================================
