-------------------------------- MODULE Edns --------------------------------
(* The OPT record of a request and of a response (dns_wire.c parse_edns_opt(), edns_opt_reserve_len(), assemble_edns_opt(), dns_build_error_response(), *)
(* dns_truncate_keep_opt()).  An option is [code, len, value]; lengths are those of the code, contents are left out where they are only copied.        *)
EXTENDS Integers, Sequences, FiniteSets, SequencesExt

MAX_EDE_COUNT == 3
NoEdns == [present |-> FALSE, size |-> 512, version |-> 0, dnssec_ok |-> FALSE, cookie |-> "none", server_len |-> 0, ede |-> <<>>, nsid |-> FALSE, keepalive |-> FALSE,
           mq_response |-> FALSE, mq |-> "none", mqtypes |-> 0, mq_twice |-> FALSE, ecs |-> "none", source |-> 0, family |-> 0, scope |-> 0, expire_query |-> FALSE, expire_value |-> FALSE,
           ext |-> FALSE, send_expire |-> FALSE]
FORMERR == "formerr"

Bytes(bits) == (bits + 7) \div 8

\* The last octet of the address of an ECS option must have no bits behind the prefix; value = [family, source, scope, clean].
EcsOk(o) ==
    /\ o.len >= 4 /\ o.value.family \in {1, 2} /\ o.value.scope = 0
    /\ o.value.source <= (IF o.value.family = 1 THEN 32 ELSE 128)
    /\ o.len - 4 = Bytes(o.value.source)
    /\ o.value.source % 8 # 0 => o.value.clean

CookieOption(e, o) ==
    IF e.cookie # "none" THEN e
    ELSE IF o.len = 8 \/ o.len \in 16 .. 40 THEN [e EXCEPT !.cookie = "ok", !.server_len = o.len - 8] ELSE [e EXCEPT !.cookie = "bad"]

EcsOption(e, o) ==
    IF e.ecs # "none" THEN e
    ELSE IF EcsOk(o) THEN [e EXCEPT !.ecs = "ok", !.source = o.value.source, !.family = o.value.family] ELSE [e EXCEPT !.ecs = "bad"]

MqtypeOption(e, o) ==
    IF e.mq # "none" THEN [e EXCEPT !.mq_twice = TRUE]
    ELSE [e EXCEPT !.mq = "query", !.mqtypes = IF o.len % 2 # 0 THEN 0 ELSE IF o.len \div 2 > 16 THEN 16 ELSE o.len \div 2]

ParseOption(e, o) ==
    CASE o.code = "COOKIE" -> CookieOption(e, o)
      [] o.code = "EDE" -> IF o.len >= 2 /\ Len(e.ede) < MAX_EDE_COUNT THEN [e EXCEPT !.ede = Append(@, o.len - 2)] ELSE e
      [] o.code = "NSID" -> [e EXCEPT !.nsid = TRUE]
      [] o.code = "KEEPALIVE" -> [e EXCEPT !.keepalive = TRUE]
      [] o.code = "MQTYPE-RESPONSE" -> [e EXCEPT !.mq_response = TRUE]
      [] o.code = "MQTYPE-QUERY" -> MqtypeOption(e, o)
      [] o.code = "ECS" -> EcsOption(e, o)
      [] o.code = "EXPIRE" -> [e EXCEPT !.expire_query = @ \/ o.len = 0, !.expire_value = @ \/ o.len = 4]
      [] o.code = "KARIDNS" -> [e EXCEPT !.ext = @ \/ o.len = 5]
      [] OTHER -> e

\* An option whose length reaches behind the OPT ends the list ("overrun").
RECURSIVE ParseOptions(_, _)
ParseOptions(e, opts) == IF opts = <<>> \/ Head(opts).code = "overrun" THEN e ELSE ParseOptions(ParseOption(e, Head(opts)), Tail(opts))

\* The records after the question in their order.  r.short: less than its fixed fields is left of the message (the scan ends without a complaint); r.cut: its data reach behind the end.
RECURSIVE Scan(_, _)
Scan(e, rrs) ==
    IF rrs = <<>> \/ (Head(rrs).short /\ Head(rrs).owner # "bad") THEN e
    ELSE LET r == Head(rrs) IN
         IF r.owner = "bad" THEN [e EXCEPT !.cookie = FORMERR]
         ELSE IF r.type # "OPT" THEN IF r.cut THEN e ELSE Scan(e, Tail(rrs))
         ELSE IF r.section # "additional" \/ r.owner # "root" \/ e.present \/ r.cut THEN [e EXCEPT !.cookie = FORMERR]
         ELSE Scan(ParseOptions([e EXCEPT !.present = TRUE, !.size = r.size, !.version = r.version, !.dnssec_ok = r.dnssec_ok], r.opts), Tail(rrs))

parse_edns_opt(rrs) == Scan(NoEdns, rrs)
Refused(e) == e.cookie = FORMERR

(* ---- the OPT of the response; conf = [nsid (length or -1), reuse, ecs] ---- *)

Sum2(a, cond) == IF cond THEN a ELSE 0

edns_opt_reserve_len(e, is_tcp, conf) ==
    11 + Sum2(4 + 8 + 32, e.cookie = "ok") + Sum2(4 + 2 * e.mqtypes, e.mq = "query") + Sum2(4 + conf.nsid, e.nsid /\ conf.nsid >= 0)
       + Sum2(6, is_tcp /\ e.keepalive /\ conf.reuse) + Sum2(9, e.ext) + Sum2(8, e.expire_query \/ e.send_expire) + Sum2(24, e.ecs = "ok" /\ conf.ecs)

NoValue == [family |-> 0, source |-> 0, scope |-> 0, clean |-> TRUE]
Opt(code, len) == [code |-> code, len |-> len, value |-> NoValue]
Some(o, cond) == IF cond THEN <<o>> ELSE <<>>

\* The options as they are written, one after the other.
Written(e, is_tcp, conf, ede) ==
    Some(Opt("COOKIE", 8 + e.server_len), e.cookie = "ok")
    \o [i \in DOMAIN ede |-> Opt("EDE", 2 + ede[i])]
    \o Some(Opt("MQTYPE-RESPONSE", 2 * e.mqtypes), e.mq = "query")
    \o Some(Opt("NSID", conf.nsid), e.nsid /\ conf.nsid >= 0)
    \o Some(Opt("KEEPALIVE", 2), is_tcp /\ e.keepalive /\ conf.reuse)
    \o Some(Opt("KARIDNS", 5), e.ext)
    \o Some(Opt("EXPIRE", 4), e.send_expire)
    \o Some([Opt("ECS", 4 + Bytes(e.source)) EXCEPT !.value = [family |-> e.family, source |-> e.source, scope |-> e.scope, clean |-> TRUE]], e.ecs = "ok" /\ conf.ecs)

RECURSIVE Length(_)
Length(opts) == IF opts = <<>> THEN 0 ELSE 4 + Head(opts).len + Length(Tail(opts))

\* The EDEs are given up before the OPT is.
assemble_edns_opt(e, offset, max, is_tcp, conf) ==
    LET End(opts) == offset + 11 + Length(opts)
        OrFewer(opts) == IF End(opts) > max THEN Written(e, is_tcp, conf, <<>>) ELSE opts
        OrNone(opts) == IF End(opts) <= max THEN [opt |-> TRUE, opts |-> opts, end |-> End(opts)]
                        ELSE [opt |-> FALSE, opts |-> <<>>, end |-> offset] IN
    OrNone(OrFewer(Written(e, is_tcp, conf, e.ede)))

\* AA, RD and CD of a response (dns_init_response_header()): RD and CD only come back in the response to a QUERY.
dns_init_response_header(req, rcode, aa) ==
    [id |-> req.id, opcode |-> req.opcode, aa |-> aa, tc |-> FALSE, rd |-> req.rd /\ req.opcode = "QUERY", cd |-> req.cd /\ req.opcode = "QUERY", rcode |-> rcode]

\* An error response.  q = [ok (dns_question_section_ok()), lens (of the questions to keep, 0: cannot be read)].
\* The questions are kept when all of them can be read and fit; a plain FORMERR for a bad question section has no OPT.
dns_build_error_response(e, q, max, rcode, ext, is_tcp, conf) ==
    LET kept == (\A i \in DOMAIN q.lens : q.lens[i] > 0) /\ FoldLeft(+, 12, q.lens) <= max
        from == IF kept THEN FoldLeft(+, 12, q.lens) ELSE 12
        bare == [len |-> from, qd |-> IF kept THEN Len(q.lens) ELSE 0, opt |-> FALSE] IN
    IF max < 12 THEN [len |-> 0, qd |-> 0, opt |-> FALSE]
    ELSE IF ~e.present \/ (rcode = "FORMERR" /\ ext = 0 /\ ~q.ok) THEN bare
    ELSE LET With(a) == [bare EXCEPT !.len = a.end, !.opt = a.opt] IN
         With(assemble_edns_opt([e EXCEPT !.mq = "none", !.mqtypes = 0, !.send_expire = FALSE], from, max, is_tcp, conf))

\* The first OPT among the records behind the questions, [type, len] each; a record with length 0 cannot be read.
dns_find_opt_rr(rrs) ==
    LET found == {i \in DOMAIN rrs : rrs[i].type = "OPT" /\ \A k \in 1 .. i : rrs[k].len > 0} IN
    IF found = {} THEN 0 ELSE CHOOSE i \in found : \A k \in found : i <= k

\* TC: the records go, the question and the OPT stay.
dns_truncate_keep_opt(rrs, q_end) ==
    LET opt == dns_find_opt_rr(rrs) IN
    IF opt = 0 THEN [len |-> q_end, rrs |-> <<>>] ELSE [len |-> q_end + rrs[opt].len, rrs |-> <<rrs[opt]>>]

(* ---- what is promised ---- *)

\* A response body that leaves the reserved room always gets its OPT (RFC 6891 7), whatever options were asked for: the two lengths are computed in different places.
RoomForOpt(e, is_tcp, conf, max) ==
    LET offset == max - edns_opt_reserve_len(e, is_tcp, conf) IN
    offset >= 12 /\ e.present => assemble_edns_opt(e, offset, max, is_tcp, conf).opt

\* The OPT that is written is one that is read again: the options of the response arrive as they were, the length fits.
OptReadBack(e, is_tcp, conf, max) ==
    \A a \in {assemble_edns_opt(e, 12, max, is_tcp, conf)} : a.opt =>
      \A back \in {parse_edns_opt(<<[section |-> "additional", type |-> "OPT", owner |-> "root", short |-> FALSE, cut |-> FALSE, size |-> 1232, version |-> 0, dnssec_ok |-> e.dnssec_ok, opts |-> a.opts]>>)} :
             /\ a.end <= max /\ ~Refused(back) /\ back.present /\ (back.ede = e.ede \/ 12 + 11 + Length(Written(e, is_tcp, conf, e.ede)) > max)
             /\ e.cookie = "ok" => back.cookie = "ok" /\ back.server_len = e.server_len
             /\ back.ede \in {<<>>, e.ede} /\ (back.ecs # "none" <=> e.ecs = "ok" /\ conf.ecs) /\ (back.ecs = "bad" => e.scope > 0) /\ (back.ecs = "ok" => back.source = e.source /\ back.family = e.family)
             /\ (back.mq_response <=> e.mq = "query") /\ back.expire_value = e.send_expire

\* The first COOKIE and the first ECS option count, wherever they stand among the others; two OPTs, or one that is not in its place, are refused.
FirstCounts(rrs) ==
    LET e == parse_edns_opt(rrs)
        seen == {i \in DOMAIN rrs : \A k \in 1 .. i - 1 : ~rrs[k].short /\ ~rrs[k].cut}
        opts == {i \in seen : rrs[i].type = "OPT" /\ ~rrs[i].short}
        all == rrs[CHOOSE i \in opts : TRUE].opts
        of(code) == SelectSeq(SubSeq(all, 1, Cardinality({i \in DOMAIN all : \A k \in 1 .. i : all[k].code # "overrun"})), LAMBDA o : o.code = code) IN
    /\ Refused(e) <=> \/ \E i \in seen : rrs[i].owner = "bad"
                      \/ Cardinality(opts) > 1
                      \/ \E i \in opts : rrs[i].section # "additional" \/ rrs[i].owner # "root" \/ rrs[i].cut
    /\ ~Refused(e) /\ opts # {} =>
         /\ e.cookie = (IF of("COOKIE") = <<>> THEN "none" ELSE IF of("COOKIE")[1].len \in {8} \cup 16 .. 40 THEN "ok" ELSE "bad")
         /\ e.cookie = "ok" => e.server_len = of("COOKIE")[1].len - 8
         /\ e.ecs = (IF of("ECS") = <<>> THEN "none" ELSE IF EcsOk(of("ECS")[1]) THEN "ok" ELSE "bad")
         /\ e.mq_twice <=> Len(of("MQTYPE-QUERY")) > 1

\* An error response never outgrows the room, and only a FORMERR for an unreadable question or a lack of room costs a request with OPT its OPT.
ErrorFits(e, q, max, is_tcp, conf) ==
    \A rcode \in {"FORMERR", "REFUSED"}, ext \in {0, 1} :
      \A r \in {dns_build_error_response(e, q, max, rcode, ext, is_tcp, conf)} :
        /\ r.len <= max
        /\ r.opt => e.present
        /\ e.present /\ ~r.opt => \/ rcode = "FORMERR" /\ ext = 0 /\ ~q.ok
                                  \/ r.len + edns_opt_reserve_len(e, is_tcp, conf) > max

\* Truncation: what was found of the OPT is found again, and nothing else is left.
TruncationKeepsOpt(rrs) ==
    LET t == dns_truncate_keep_opt(rrs, 20) IN
    /\ Len(t.rrs) <= 1 /\ (t.rrs = <<>> <=> dns_find_opt_rr(rrs) = 0)
    /\ t.rrs # <<>> => t.rrs[1].type = "OPT" /\ dns_find_opt_rr(t.rrs) = 1 /\ t.len = 20 + t.rrs[1].len

(* ---- inputs ---- *)

Options == {Opt("COOKIE", n) : n \in {8, 12, 24}} \cup {Opt("EDE", n) : n \in {1, 9}} \cup {Opt("NSID", 0), Opt("KEEPALIVE", 0), Opt("MQTYPE-QUERY", 4), Opt("MQTYPE-QUERY", 3), Opt("EXPIRE", 0), Opt("KARIDNS", 5), Opt("overrun", 9)}
           \cup {[Opt("ECS", l[1]) EXCEPT !.value = [family |-> l[2], source |-> l[3], scope |-> 0, clean |-> l[4]]] : l \in {<<7, 1, 24, TRUE>>, <<8, 1, 24, TRUE>>, <<8, 1, 25, FALSE>>, <<8, 2, 25, TRUE>>}}
Record(type, section, owner, cut, short, opts) == [section |-> section, type |-> type, owner |-> owner, short |-> short, cut |-> cut, size |-> 1232, version |-> 0, dnssec_ok |-> TRUE, opts |-> opts]
EdnsSeeds == Options
EdnsInputs(first) ==
    {<<Record("OPT", "additional", "root", FALSE, FALSE, <<first>> \o t)>> : t \in {<<>>} \cup {<<o>> : o \in Options} \cup {<<o, p>> : o, p \in Options}}
    \cup {<<Record(t, sec, owner, cut, short, <<first>>), Record(u, "additional", "root", FALSE, FALSE, <<>>)>> :
            t, u \in {"OPT", "TSIG"}, sec \in {"answer", "additional"}, owner \in {"root", "name", "bad"}, cut \in BOOLEAN, short \in BOOLEAN}
EdnsRight(rrs) ==
    LET e == parse_edns_opt(rrs) IN
    /\ FirstCounts(rrs)
    /\ ~Refused(e) => \A tcp \in BOOLEAN, nsid \in {-1, 6}, flag \in BOOLEAN, max \in {80, 512} :
          LET conf == [nsid |-> nsid, reuse |-> flag, ecs |-> ~flag]
              sent == [e EXCEPT !.send_expire = e.expire_query /\ flag, !.server_len = IF e.cookie = "ok" THEN 16 ELSE 0, !.scope = IF tcp THEN e.source ELSE 0] IN
          /\ RoomForOpt(sent, tcp, conf, max) /\ OptReadBack(sent, tcp, conf, max)
          /\ \A q \in {[ok |-> TRUE, lens |-> <<20>>], [ok |-> FALSE, lens |-> <<20, 0>>]} : ErrorFits(sent, q, max, tcp, conf)
    /\ TruncationKeepsOpt([i \in DOMAIN rrs |-> [type |-> rrs[i].type, len |-> IF rrs[i].cut \/ rrs[i].short THEN 0 ELSE 30]])
=============================================================================
