--------------------------- MODULE UpdateSections ---------------------------
(* What an UPDATE does to the records of a zone (dns_wire.c process_update_sections_policy(), dns_dynamic_update.c handle_dynamic_update()).  A zone is a set of        *)
(* records; RDATA is a pair whose first part is the serial of a SOA or the address and protocol of a WKS.  RDATA that is missing, cannot be read or cannot be written *)
(* in wire format is NoData, BadData or Unwritable.  Locking and publication are in ZoneVersions.                                                                     *)
EXTENDS Integers, Sequences, FiniteSets, FiniteSetsExt, SequencesExt

SerialModulus == 8       \* 2^32 in the code
Apex == "@"
NoData == <<0, 0>>
BadData == <<0, 1>>
Unwritable == <<0, 2>>

AddMod(a, b) == (a + b) % SerialModulus
serial_gt(a, b) == a # b /\ (a - b) % SerialModulus < SerialModulus \div 2

name_is_in_zone(n) == n # "elsewhere"
update_type_is_meta(t) == t \in {"OPT", "ANY", "0"}
type_may_coexist_with_cname(t) == t \in {"RRSIG", "NSEC", "KEY"}
At(z, n) == {r \in z : r.name = n}
update_zone_has(z, n, t) == \E r \in At(z, n) : t = "ANY" \/ r.type = t
SameRr(r, s) == r.name = s.name /\ r.type = s.type /\ r.data = s.data

\* Is the record of the zone the one that the added record takes the place of?
update_replaces(zrr, rr) ==
    \/ rr.type \in {"CNAME", "SOA", "DNAME"}
    \/ rr.type = "WKS" /\ zrr.data[1] = rr.data[1]
    \/ SameRr(zrr, rr)

(* ---- update-policy ---- *)

\* Names are ordered by a chain of labels: a name and everything above it.
Above == [n \in {Apex, "a", "b.a"} |-> CASE n = Apex -> {Apex} [] n = "a" -> {Apex, "a"} [] OTHER -> {Apex, "a", "b.a"}]
upd_below(n, parent) == parent \in Above[n]

Matches(rule, signer, n) ==
    CASE rule.match = "name" -> n = rule.name
      [] rule.match = "subdomain" -> upd_below(n, rule.name)
      [] rule.match = "wildcard" -> upd_below(n, rule.name) /\ n # rule.name
      [] rule.match = "self" -> n = signer
      [] rule.match = "selfsub" -> upd_below(n, signer)
      [] rule.match = "selfwild" -> upd_below(n, signer) /\ n # signer

\* Without types a rule is about all but NS, SOA and RRSIG.
ForType(rule, t) == IF rule.types = {} THEN t \notin {"NS", "SOA", "RRSIG"} ELSE t \in rule.types \/ "ANY" \in rule.types

\* The first rule that matches decides.
update_policy_allows(policy, signer, n, t) ==
    LET fit == {i \in DOMAIN policy : policy[i].identity = signer /\ Matches(policy[i], signer, n) /\ ForType(policy[i], t)} IN
    fit # {} /\ policy[Min(fit)].grant

(* ---- the sections ---- *)

\* The checks that find the zone of the message; in the order of the code.
ZoneCheck(msg) ==
    CASE msg.zocount # 1 -> "FORMERR"
      [] Len(msg.pre) + Len(msg.upd) > msg.most -> "REFUSED"
      [] msg.ztype # "SOA" -> "FORMERR"
      [] msg.zclass # "IN" \/ msg.zname # Apex -> "NOTAUTH"
      [] OTHER -> "NOERROR"

PrereqOf(z, p) ==
    CASE p.ttl # 0 -> "FORMERR"
      [] ~name_is_in_zone(p.name) -> "NOTZONE"
      [] p.class = "ANY" -> IF p.data # NoData THEN "FORMERR"
                            ELSE IF update_zone_has(z, p.name, p.type) THEN "NOERROR" ELSE IF p.type = "ANY" THEN "NXDOMAIN" ELSE "NXRRSET"
      [] p.class = "NONE" -> IF p.data # NoData THEN "FORMERR"
                             ELSE IF ~update_zone_has(z, p.name, p.type) THEN "NOERROR" ELSE IF p.type = "ANY" THEN "YXDOMAIN" ELSE "YXRRSET"
      [] p.class = "IN" -> "NOERROR"
      [] OTHER -> "FORMERR"

\* The first result that is not NOERROR, in the order of the records.
FirstError(codes) == LET bad == {i \in DOMAIN codes : codes[i] # "NOERROR"} IN IF bad = {} THEN "NOERROR" ELSE codes[Min(bad)]

\* Value-dependent prerequisites: for each name and type the members are those of the zone.
ValuesHold(z, pre) ==
    LET temp == {p \in Range(pre) : p.class = "IN"} IN
    \A p \in temp :
        /\ \E r \in z : SameRr(r, p)
        /\ \A r \in At(z, p.name) : r.type = p.type => \E q \in temp : SameRr(r, q)

Prerequisites(z, pre) ==
    LET e == FirstError([i \in DOMAIN pre |-> PrereqOf(z, pre[i])]) IN
    IF e # "NOERROR" THEN e
    ELSE IF \E p \in Range(pre) : p.class = "IN" /\ p.data = BadData THEN "FORMERR"
    ELSE IF ValuesHold(z, pre) THEN "NOERROR" ELSE "NXRRSET"

\* The whole update section is checked against the zone as it is before anything is changed.
PrescanOf(z, u, policy, signer) ==
    CASE ~name_is_in_zone(u.name) -> "NOTZONE"
      [] u.class = "IN" /\ update_type_is_meta(u.type) -> "FORMERR"
      [] u.class = "ANY" /\ (u.ttl # 0 \/ u.data # NoData \/ (u.type # "ANY" /\ update_type_is_meta(u.type))) -> "FORMERR"
      [] u.class = "NONE" /\ (u.ttl # 0 \/ update_type_is_meta(u.type)) -> "FORMERR"
      [] u.class \notin {"IN", "ANY", "NONE"} -> "FORMERR"
      [] policy # <<>> /\ u.class = "ANY" /\ u.type = "ANY" ->
            IF \A r \in At(z, u.name) : update_policy_allows(policy, signer, u.name, r.type) THEN "NOERROR" ELSE "REFUSED"
      [] policy # <<>> /\ ~update_policy_allows(policy, signer, u.name, u.type) -> "REFUSED"
      [] OTHER -> "NOERROR"

\* Types at the apex that a deletion of whole RRsets leaves.
Kept(r) == r.name = Apex /\ r.type \in {"SOA", "NS"}

DeleteRr(z, u) ==
    IF u.type = "SOA" \/ (u.type = "NS" /\ u.name = Apex /\ Cardinality({r \in At(z, Apex) : r.type = "NS"}) <= 1) THEN z
    ELSE {r \in z : ~SameRr(r, u)}

DeleteRrset(z, u) == {r \in z : r.name # u.name \/ (u.type # "ANY" /\ r.type # u.type) \/ Kept(r)}

\* An added record that cannot stand beside what is there, a SOA that is not newer and a record that cannot be written are left out without an error.
Ignored(z, u) ==
    \/ u.type = "CNAME" /\ \E r \in At(z, u.name) : r.type # "CNAME" /\ ~type_may_coexist_with_cname(r.type)
    \/ u.type # "CNAME" /\ ~type_may_coexist_with_cname(u.type) /\ \E r \in At(z, u.name) : r.type = "CNAME"
    \/ u.type = "SOA" /\ ~\E r \in At(z, u.name) : r.type = "SOA" /\ serial_gt(u.data[1], r.data[1])
    \/ u.data = Unwritable

Plain(u) == [name |-> u.name, type |-> u.type, data |-> u.data, ttl |-> u.ttl]

AddRr(z, u) ==
    LET old == {r \in At(z, u.name) : r.type = u.type /\ update_replaces(r, Plain(u))} IN
    IF Ignored(z, u) THEN z ELSE (z \ (IF old = {} THEN {} ELSE {CHOOSE r \in old : TRUE})) \union {Plain(u)}

\* One record of the update section; "bad" when its RDATA cannot be read.
Apply(s, u) ==
    LET z == CASE u.class = "ANY" -> DeleteRrset(s.zone, u) [] u.class = "NONE" -> DeleteRr(s.zone, u) [] OTHER -> AddRr(s.zone, u) IN
    IF s.rcode # "NOERROR" THEN s
    ELSE IF u.class # "ANY" /\ u.data = BadData THEN [s EXCEPT !.rcode = "FORMERR"]
    ELSE [zone |-> z, rcode |-> "NOERROR", changed |-> s.changed \/ z # s.zone,
          soa |-> s.soa \/ (u.class = "IN" /\ u.type = "SOA" /\ z # s.zone)]

RECURSIVE ApplyFrom(_, _, _)
ApplyFrom(upd, i, s) == IF i > Len(upd) THEN s ELSE ApplyFrom(upd, i + 1, Apply(s, upd[i]))

process_update_sections_policy(z, msg, policy, signer) ==
    LET start == [zone |-> z, rcode |-> "NOERROR", changed |-> FALSE, soa |-> FALSE]
        checks == <<ZoneCheck(msg), Prerequisites(z, msg.pre), FirstError([i \in DOMAIN msg.upd |-> PrescanOf(z, msg.upd[i], policy, signer)])>> IN
    IF FirstError(checks) # "NOERROR" THEN [start EXCEPT !.rcode = FirstError(checks)] ELSE ApplyFrom(msg.upd, 1, start)

(* ---- handle_dynamic_update() ---- *)

SoaSerial(z) == (CHOOSE r \in z : r.name = Apex /\ r.type = "SOA").data[1]

\* The clock's value is used when it is newer; 0 is skipped.
update_next_serial(serial, cand) ==
    LET ns == IF AddMod(serial, 1) = 0 THEN 1 ELSE AddMod(serial, 1) IN
    IF cand # 0 /\ serial_gt(cand, serial) THEN cand ELSE ns

bump_soa_serial_method(z, cand) ==
    {IF r.name = Apex /\ r.type = "SOA" THEN [r EXCEPT !.data = <<update_next_serial(SoaSerial(z), cand), @[2]>>] ELSE r : r \in z}

handle_dynamic_update(z, msg, policy, signer, limits, cand) ==
    LET Cut(all) == {[r EXCEPT !.ttl = IF limits.ttl # 0 /\ @ > limits.ttl THEN limits.ttl ELSE @] : r \in all}
        Publish(new) == IF Cardinality(new) > limits.records THEN [rcode |-> "SERVFAIL", zone |-> z]
                        ELSE [rcode |-> "NOERROR", zone |-> new]
        Bumped(soa, all) == IF soa THEN all ELSE bump_soa_serial_method(all, cand)
        Done(res) == IF res.rcode # "NOERROR" \/ ~res.changed THEN [rcode |-> res.rcode, zone |-> z]
                     ELSE Publish(Bumped(res.soa, Cut(res.zone))) IN
    Done(process_update_sections_policy(z, msg, policy, signer))

-----------------------------------------------------------------------------
(* What an UPDATE may and may not do (RFC 2136, RFC 1982, update-policy), and the messages it is checked over. *)

(* ---- what is promised ---- *)

Apexes(z, t) == {r \in z : r.name = Apex /\ r.type = t}
CnameAlone(z) == \A r, s \in z : r.name = s.name /\ r.type = "CNAME" /\ s # r => type_may_coexist_with_cname(s.type)
Data(z) == {IF r.type = "SOA" THEN [r EXCEPT !.data = NoData, !.ttl = 0] ELSE [r EXCEPT !.ttl = 0] : r \in z}

\* The apex keeps one SOA and a NS, a CNAME stays alone, and a zone that changed has a newer serial, whatever the message asks for, in whatever order.  (Two SOAs in one
\* message, each newer than the one before, may together go half way round: serial numbers are not transitive.)
ZoneKept(z, msg, r) ==
    /\ Cardinality(Apexes(r.zone, "SOA")) = 1 /\ Apexes(r.zone, "NS") # {}
    /\ CnameAlone(r.zone)
    /\ r.zone # z /\ Cardinality({i \in DOMAIN msg.upd : msg.upd[i].type = "SOA"}) <= 1 => serial_gt(SoaSerial(r.zone), SoaSerial(z))
    /\ r.rcode # "NOERROR" => r.zone = z

\* Every record that came or went (the serial aside) is one that update-policy lets the signer change, also when a name is emptied with TYPE ANY or a record gives way to another.
PolicyKept(z, r, policy, signer) ==
    policy # <<>> => \A x \in (Data(z) \ Data(r.zone)) \union (Data(r.zone) \ Data(z)) : update_policy_allows(policy, signer, x.name, x.type)

\* RFC 2136 2.4: the prerequisites as statements about the zone, each on its own.
Holds(z, p, all) ==
    LET has == {r \in z : r.name = p.name /\ (p.type = "ANY" \/ r.type = p.type)} IN
    CASE p.class = "ANY" -> has # {}
      [] p.class = "NONE" -> has = {}
      [] OTHER -> {r.data : r \in has} = {q.data : q \in {q \in Range(all) : q.class = "IN" /\ q.name = p.name /\ q.type = p.type}}
WellFormed(p) == p.ttl = 0 /\ name_is_in_zone(p.name) /\ (IF p.class = "IN" THEN p.data # BadData ELSE p.class \in {"ANY", "NONE"} /\ p.data = NoData)

\* Nothing is done unless every prerequisite holds, and the error says which kind did not.
PrerequisitesExact(z, msg, r) ==
    ZoneCheck(msg) = "NOERROR" /\ (\A i \in DOMAIN msg.pre : WellFormed(msg.pre[i])) =>
        ((r.rcode \in {"NXDOMAIN", "NXRRSET", "YXDOMAIN", "YXRRSET"}) <=> \E i \in DOMAIN msg.pre : ~Holds(z, msg.pre[i], msg.pre))

(* ---- inputs ---- *)

Rr(n, t, d) == [name |-> n, type |-> t, data |-> d, ttl |-> 1]
Base == {Rr(Apex, "SOA", <<6, 1>>), Rr(Apex, "NS", <<1, 1>>)}
UpdateZones == {Base, Base \union {Rr(Apex, "NS", <<2, 1>>), Rr("a", "CNAME", <<1, 1>>), Rr("a", "RRSIG", <<1, 1>>)},
                Base \union {Rr("a", "A", <<1, 1>>), Rr("a", "A", <<2, 1>>), Rr("b.a", "WKS", <<1, 1>>), Rr("a", "NS", <<1, 1>>)}}

U(n, t, c, d, ttl) == [name |-> n, type |-> t, class |-> c, data |-> d, ttl |-> ttl]
Updates ==
    {U(n, t, "IN", <<1, 1>>, 2) : n \in {Apex, "a"}, t \in {"A", "CNAME", "NS"}} \union {U("b.a", "WKS", "IN", <<1, 2>>, 1)}
    \union {U("a", t, "IN", <<1, 1>>, 1) : t \in {"A", "RRSIG"}} \union {U("a", "A", "IN", d, 1) : d \in {Unwritable, BadData}}
    \union {U(Apex, "SOA", "IN", <<s, 1>>, 1) : s \in {0, 2, 7}} \union {U("a", "SOA", "IN", <<7, 1>>, 1)}
    \union {U(n, t, "ANY", NoData, 0) : n \in {Apex, "a"}, t \in {"ANY", "NS", "A"}}
    \union {U(Apex, "NS", "NONE", <<d, 1>>, 0) : d \in {1, 2}} \union {U("a", "CNAME", "NONE", <<1, 1>>, 0), U(Apex, "SOA", "NONE", <<6, 1>>, 0)}
    \union {U("elsewhere", "A", "IN", <<1, 1>>, 1), U("a", "OPT", "IN", <<1, 1>>, 1), U("a", "A", "CH", <<1, 1>>, 1), U("a", "A", "ANY", NoData, 1)}
Prereqs ==
    {U(n, t, c, NoData, 0) : n \in {"a", "b.a"}, t \in {"A", "CNAME", "ANY"}, c \in {"ANY", "NONE"}}
    \union {U("a", "A", "IN", <<d, 1>>, 0) : d \in {1, 2}} \union {U("a", "A", "IN", BadData, 0), U("elsewhere", "A", "ANY", NoData, 0), U("a", "A", "ANY", NoData, 1), U("a", "A", "CH", NoData, 0)}
Rule(grant, id, match, n, types) == [grant |-> grant, identity |-> id, match |-> match, name |-> n, types |-> types]
Policies == {<<>>, <<Rule(TRUE, "a", "selfsub", Apex, {})>>, <<Rule(FALSE, "a", "name", "a", {"CNAME"}), Rule(TRUE, "a", "subdomain", Apex, {"ANY"})>>,
             <<Rule(TRUE, "a", "self", Apex, {"ANY"}), Rule(TRUE, "b.a", "subdomain", "a", {}), Rule(TRUE, "a", "wildcard", Apex, {"WKS"}), Rule(TRUE, "a", "selfwild", Apex, {})>>}
Message(pre, upd) == [zocount |-> 1, most |-> 4, ztype |-> "SOA", zclass |-> "IN", zname |-> Apex, pre |-> pre, upd |-> upd]
OddMessages == {[Message(<<>>, <<U("a", "A", "IN", <<1, 1>>, 1)>>) EXCEPT !.zocount = 0], [Message(<<>>, <<U("a", "A", "IN", <<1, 1>>, 1)>>) EXCEPT !.ztype = "A"],
                [Message(<<>>, <<U("a", "A", "IN", <<1, 1>>, 1)>>) EXCEPT !.zname = "a"], [Message(<<>>, <<U("a", "A", "IN", <<1, 1>>, 1)>>) EXCEPT !.most = 0]}

UpdateSeeds == {[zone |-> z, what |-> w] : z \in UpdateZones, w \in {"pre", "odd"}} \union {[zone |-> z, what |-> "upd", first |-> u] : z \in UpdateZones, u \in Updates}
UpdateInputs(s) ==
    CASE s.what = "pre" -> {[zone |-> s.zone, msg |-> Message(<<p, q>>, <<U("b.a", "A", "IN", <<1, 1>>, 1)>>)] : p, q \in Prereqs}
      [] s.what = "odd" -> {[zone |-> s.zone, msg |-> msg] : msg \in OddMessages}
      [] s.what = "upd" -> {[zone |-> s.zone, msg |-> Message(<<>>, <<s.first>> \o t)] : t \in {<<>>} \union {<<u>> : u \in Updates} \union {<<u, v>> : u, v \in {x \in Updates : x.name \in {Apex, "a"} /\ x.ttl # 2}}}

UpdateRight(i) ==
    \A policy \in IF Len(i.msg.upd) < 3 THEN Policies ELSE {<<>>} : \A limits \in {[ttl |-> 1, records |-> 6], [ttl |-> 0, records |-> 9]} : \A cand \in {0, 3} :
      \A r \in {handle_dynamic_update(i.zone, i.msg, policy, "a", limits, cand)} :
        ZoneKept(i.zone, i.msg, r) /\ PolicyKept(i.zone, r, policy, "a") /\ PrerequisitesExact(i.zone, i.msg, r)
=============================================================================
