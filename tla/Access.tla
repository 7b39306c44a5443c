------------------------------- MODULE Access -------------------------------
(* Who may ask, transfer, update and notify (dns_tsig_acl.c, dns_cidr.c), which view a request belongs to (select_view_req() in dns_query_engine.c), and what a client sees.      *)
(*                                                                         *)
(* An address is a family and a sequence of bits, a network a family and a prefix of bits.  A list is a sequence of elements; a statement that need not be written is a sequence  *)
(* of at most one list (<<>>: not written).  A key is a string, "" where the request has no verified key.                                                                         *)
EXTENDS Integers, Sequences, SequencesExt, FiniteSets

Elem(kind, neg) == [k |-> kind, neg |-> neg, fam |-> 0, bits |-> <<>>, key |-> "", list |-> <<>>]
AnyElem == Elem("any", FALSE)
NoneElem == Elem("none", FALSE)
NetElem(neg, fam, bits) == [Elem("net", neg) EXCEPT !.fam = fam, !.bits = bits]
KeyElem(neg, key) == [Elem("key", neg) EXCEPT !.key = key]
ListElem(neg, list) == [Elem("list", neg) EXCEPT !.list = list]

NoAddr == [fam |-> 0, bits |-> <<>>]
AML_MAX_DEPTH == 4            \* nesting one match may follow (32 in the code; no list below is as deep as either)

(* ---- prefixes ---- *)

cidr_entry_match(e, addr) ==
    \/ e.k = "any"
    \/ e.k = "net" /\ addr.fam = e.fam /\ IsPrefix(e.bits, addr.bits)

\* The flat lists: the first entry with an address that matches decides; what is no address (the name of a key) is passed over.
check_acl_bin(addr, list) ==
    \E i \in DOMAIN list : /\ cidr_entry_match(list[i], addr)
                           /\ ~list[i].neg
                           /\ \A j \in 1..(i-1) : ~cidr_entry_match(list[j], addr)

(* ---- address match lists ---- *)

\* 1: let in, -1: kept out, 0: no element matches.  A negative match inside a nested list is no match.
RECURSIVE aml_match_depth(_, _, _)
aml_match_depth(l, s, depth) ==
    LET Matches(e) == \/ cidr_entry_match(e, s.addr)
                      \/ e.k = "key" /\ s.key # "" /\ s.key = e.key
                      \/ e.k = "list" /\ aml_match_depth(e.list, s, depth + 1) > 0
        hits == IF depth > AML_MAX_DEPTH THEN {} ELSE {i \in DOMAIN l : Matches(l[i])}
        first == CHOOSE i \in hits : \A j \in hits : i <= j
    IN IF hits = {} THEN 0 ELSE IF l[first].neg THEN -1 ELSE 1

aml_match(l, s) == aml_match_depth(l, s, 0)
aml_allows_addr(l, s) == aml_match(l, [s EXCEPT !.key = ""]) > 0

\* The key stands in the list where it would let in: not negated, or negated an even number of times.
RECURSIVE aml_key_listed_d(_, _, _)
aml_key_listed_d(l, key, neg) ==
    \E i \in DOMAIN l : LET en == neg # l[i].neg IN
        \/ l[i].k = "key" /\ ~en /\ l[i].key = key
        \/ l[i].k = "list" /\ aml_key_listed_d(l[i].list, key, en)
aml_key_listed(l, key) == key # "" /\ aml_key_listed_d(l, key, FALSE)

\* The flags aml_resolve() leaves in a list.
RECURSIVE has_kind(_, _)
has_kind(l, key) ==
    \E i \in DOMAIN l : IF l[i].k = "list" THEN has_kind(l[i].list, key) ELSE (l[i].k = "key") = key
has_addr(l) == has_kind(l, FALSE)
has_key(l) == has_kind(l, TRUE)

(* ---- the levels of a statement ---- *)

\* The statements that apply to a request for the zone through view v: the in-view zone's own, the zone's, a view's, options'.
config_in_view_mode(cfg, v) ==
    LET written == SelectSeq(<<cfg.views[v].stub.settings, cfg.views[v].settings, cfg.settings>>, LAMBDA x : x # "")
    IN IF written = <<>> THEN "owner" ELSE written[1]

\* The owner's statements are lost: the referencing view's own are used in their place.
ChainOfReferencing(cfg, zone, v, which) ==
    IF v \notin DOMAIN cfg.views THEN <<zone.acl[which], <<>>>>
    ELSE LET view == cfg.views[v] IN
         IF view.stub.shares /\ config_in_view_mode(cfg, v) = "view"
         THEN <<view.stub.acl[which], zone.acl[which], view.acl[which]>>
         ELSE <<zone.acl[which], view.acl[which]>>

acl_chain_of(cfg, zone, v, which) ==
    IF v \notin DOMAIN cfg.views THEN <<zone.acl[which], <<>>>>
    ELSE LET view == cfg.views[v] IN
         IF ~view.stub.shares THEN <<zone.acl[which], view.acl[which]>>
         ELSE IF config_in_view_mode(cfg, v) = "view"
              THEN <<view.stub.acl[which], zone.acl[which], view.acl[which]>>
              ELSE <<zone.acl[which], cfg.views[view.stub.owner].acl[which]>>

FirstWritten(levels) == LET written == SelectSeq(levels, LAMBDA x : x # <<>>) IN IF written = <<>> THEN <<>> ELSE written[1]
config_acl_for(cfg, zone, v, which) ==
    FirstWritten(acl_chain_of(cfg, zone, v, which) \o <<cfg.acl[which]>>)

acl_in_view_own(cfg, zone, v, which) ==
    /\ v \in DOMAIN cfg.views
    /\ cfg.views[v].stub.shares
    /\ config_in_view_mode(cfg, v) = "view"
    /\ cfg.views[v].stub.acl[which] # <<>>

acl_query_active(cfg) == cfg.query_active

query_acl_permits(cfg, zone, v, s, local) ==
    acl_query_active(cfg) =>
      /\ \A q \in {config_acl_for(cfg, zone, v, "query")} : q # <<>> => s.addr # NoAddr /\ aml_match(q[1], s) > 0
      /\ \A qo \in {config_acl_for(cfg, zone, v, "query_on")} :
           qo # <<>> => aml_match(qo[1], [addr |-> local, key |-> s.key]) > 0

zone_notify_acl_allows(cfg, zone, v, s) ==
    LET l == config_acl_for(cfg, zone, v, "notify") IN l # <<>> /\ s.addr # NoAddr /\ aml_match(l[1], s) > 0

(* ---- transfers and updates ---- *)

db_acl_ceiling_configured(cfg) == cfg.ceiling # <<>> \/ cfg.ceiling_keys # {}

ceiling_allows(cfg, s) ==
    LET addr_in == check_acl_bin(s.addr, cfg.ceiling)
        key_in == s.key # "" /\ s.key \in cfg.ceiling_keys
    IN /\ db_acl_ceiling_configured(cfg)
       /\ IF cfg.ceiling_match = "all" /\ cfg.ceiling # <<>> /\ cfg.ceiling_keys # {} THEN addr_in /\ key_in
                                                                                      ELSE addr_in \/ key_in

\* Both kinds of entry: all of them, or any of them; one kind: that one.
Combine(all, has_acl, has_keys, acl_ok, key_ok) ==
    CASE has_acl /\ has_keys -> IF all THEN acl_ok /\ key_ok ELSE acl_ok \/ key_ok
      [] has_acl /\ ~has_keys -> acl_ok
      [] ~has_acl /\ has_keys -> key_ok
      [] OTHER -> FALSE

zone_transfer_acl_allows(cfg, zone, s) ==
    LET zone_key_counts == zone.tsig_key # "" /\ ~zone.db
        key_ok == s.key # "" /\ (s.key \in zone.tsig_keys \/ (zone_key_counts /\ s.key = zone.tsig_key))
    IN /\ zone.db => zone.tsig_keys \subseteq cfg.keys
       /\ Combine(zone.transfer_match # "any", zone.allow_transfer # <<>>, zone.tsig_keys # {} \/ zone_key_counts,
                  check_acl_bin(s.addr, zone.allow_transfer), key_ok)
       /\ zone.db => ceiling_allows(cfg, s)

zone_update_acl_allows(cfg, zone, s) ==
    LET l == zone.allow_update
        keys == {l[i].key : i \in {j \in DOMAIN l : l[j].k = "key" /\ ~l[j].neg}}
        addr_present == \E i \in DOMAIN l : l[i].k # "key" \/ l[i].neg
        addr_ok == check_acl_bin(s.addr, l)
        key_ok == s.key # "" /\ s.key \in keys
    IN /\ l # <<>>
       /\ zone.db => keys \subseteq cfg.keys
       /\ IF zone.update_match = "all" THEN Combine(TRUE, addr_present, keys # {}, addr_ok, key_ok) ELSE addr_ok \/ key_ok
       /\ zone.db => ceiling_allows(cfg, s)

\* The list of a statement that is written; one that is not written lists nothing.
ListOf(stmt) == IF stmt = <<>> THEN <<>> ELSE stmt[1]

TransferListed(zone, l, s) ==
    LET m == aml_match(l, s)
        zk_signed == zone.tsig_key # "" /\ s.key = zone.tsig_key
        key_ok == zk_signed \/ aml_key_listed(l, s.key)
    IN /\ s.addr # NoAddr
       /\ IF zone.transfer_match = ""
          THEN CASE zone.tsig_key = "" -> m > 0
                 [] zone.tsig_key # "" /\ has_addr(l) -> m > 0 /\ key_ok
                 [] OTHER -> m > 0 \/ zk_signed
          ELSE Combine(zone.transfer_match # "any", has_addr(l), has_key(l) \/ zone.tsig_key # "", aml_allows_addr(l, s), key_ok)

zone_transfer_acl_allows_in_view(cfg, zone, v, s) ==
    LET flat_own == (zone.allow_transfer # <<>> \/ zone.tsig_keys # {}) /\ zone.acl["transfer"] = <<>>
    IN IF ~acl_in_view_own(cfg, zone, v, "transfer") /\ (zone.db \/ flat_own) THEN zone_transfer_acl_allows(cfg, zone, s)
       ELSE TransferListed(zone, ListOf(config_acl_for(cfg, zone, v, "transfer")), s)

UpdateListed(zone, stmt, s) ==
    LET l == ListOf(stmt)
        addr_ok == aml_allows_addr(l, s)
        key_ok == aml_key_listed(l, s.key)
    IN /\ stmt # <<>>
       /\ s.addr # NoAddr
       /\ CASE zone.update_match = "" -> aml_match(l, s) > 0
            [] zone.update_match = "all" -> IF has_addr(l) /\ has_key(l) THEN addr_ok /\ key_ok
                                            ELSE IF has_addr(l) THEN addr_ok ELSE key_ok
            [] OTHER -> addr_ok \/ key_ok

zone_update_acl_allows_in_view(cfg, zone, v, s) ==
    LET flat_own == zone.allow_update # <<>> /\ zone.acl["update"] = <<>>
    IN IF ~acl_in_view_own(cfg, zone, v, "update") /\ (zone.db \/ flat_own) THEN zone_update_acl_allows(cfg, zone, s)
       ELSE UpdateListed(zone, config_acl_for(cfg, zone, v, "update"), s)

(* ---- the signature and the view of a request ---- *)

\* A signature names a key and is good, late, cut short or wrong; "none": the request has none, "bad": its TSIG record cannot be read.
view_own_keys(cfg, v) == IF v \in DOMAIN cfg.views THEN cfg.views[v].keys ELSE {}

tsig_check_request(cfg, v, sig) ==
    CASE sig.is = "none" -> [status |-> "none", error |-> 0, key |-> "", signs |-> FALSE]
      [] sig.is = "bad" -> [status |-> "formerr", error |-> 0, key |-> "", signs |-> FALSE]
      [] sig.is \notin {"none", "bad"} /\ sig.key \notin view_own_keys(cfg, v) \cup cfg.keys ->
            [status |-> "error", error |-> 17, key |-> "", signs |-> FALSE]
      [] OTHER -> CASE sig.is = "good" -> [status |-> "valid", error |-> 0, key |-> sig.key, signs |-> TRUE]
                    [] sig.is = "cut" -> [status |-> "error", error |-> 22, key |-> sig.key, signs |-> TRUE]
                    [] sig.is = "late" -> [status |-> "error", error |-> 18, key |-> sig.key, signs |-> TRUE]
                    [] sig.is = "wrong" -> [status |-> "error", error |-> 16, key |-> "", signs |-> FALSE]

view_match_addr(view, addr) == view.match_clients # <<>> => check_acl_bin(addr, view.match_clients)

\* What a view that lists keys makes of the request: the key counts only when it verifies with the ring of that view.
ViewMatches(cfg, v, addr, sig) ==
    LET view == cfg.views[v]
        t == tsig_check_request(cfg, v, sig)
    IN IF view.match_aml = <<>> THEN view_match_addr(view, addr)
       ELSE aml_match(view.match_aml[1], [addr |-> addr, key |-> IF t.status = "valid" THEN t.key ELSE ""]) > 0

\* The view and the signature check the request goes on with; no view: the global keys only.
select_view_req(cfg, addr, sig) ==
    LET order == SelectSeq(cfg.order, LAMBDA v : ViewMatches(cfg, v, addr, sig))
        v == IF order = <<>> THEN "" ELSE order[1]
    IN [view |-> v, tsig |-> tsig_check_request(cfg, v, sig)]

-----------------------------------------------------------------------------
(* What docs/karidns.md promises of the lists of Access, over small configurations: two views, of which the second shares the zone of the first, two keys and two addresses.      *)

Addrs == {[fam |-> 4, bits |-> <<0, 0>>], [fam |-> 4, bits |-> <<0, 1>>], [fam |-> 6, bits |-> <<0, 0>>]}
Keys == {"k1", "k2"}
Subjects == [addr : Addrs, key : Keys \cup {""}]

Nobody == <<NoneElem>>
Net == <<NetElem(FALSE, 4, <<0>>)>>
Host == <<NetElem(TRUE, 4, <<0, 1>>), NetElem(FALSE, 4, <<0>>)>>
Signed == <<KeyElem(FALSE, "k1")>>
Both == <<NetElem(FALSE, 4, <<0, 0>>), KeyElem(FALSE, "k1")>>
Statements == {<<>>, <<Nobody>>, <<<<AnyElem>>>>, <<Host>>, <<Signed>>}

Acls(l) == [query |-> l, query_on |-> <<>>, transfer |-> l, update |-> l, notify |-> l]
NoStub == [shares |-> FALSE, settings |-> "", owner |-> "", acl |-> Acls(<<>>)]
PlainZone == [acl |-> Acls(<<>>), db |-> FALSE, allow_transfer |-> <<>>, tsig_keys |-> {}, tsig_key |-> "", transfer_match |-> "",
              allow_update |-> <<>>, update_match |-> ""]

Config(opt, v1, v2, stub, settings) ==
    [acl |-> Acls(opt), settings |-> settings, query_active |-> TRUE, keys |-> Keys, ceiling |-> Net, ceiling_keys |-> {}, ceiling_match |-> "any",
     order |-> <<"v1", "v2">>,
     views |-> [v1 |-> [acl |-> Acls(v1), settings |-> "", stub |-> NoStub, keys |-> {}, match_clients |-> <<>>, match_aml |-> <<>>],
                v2 |-> [acl |-> Acls(v2), settings |-> "", stub |-> stub, keys |-> {}, match_clients |-> <<>>, match_aml |-> <<>>]]]

(* ---- shared zones ---- *)

Stub(settings, l) == [shares |-> TRUE, settings |-> settings, owner |-> "v1", acl |-> Acls(l)]
DbZone(l, transfer, keys, match) ==
    [PlainZone EXCEPT !.acl = Acls(l), !.db = TRUE, !.allow_transfer = transfer, !.tsig_keys = keys, !.transfer_match = match,
                      !.allow_update = transfer \o SetToSeq({KeyElem(FALSE, k) : k \in keys}), !.update_match = IF match = "any" THEN "all" ELSE ""]

\* Only with in-view-settings view may the in-view zone write lists of its own (in_view_resolve()).
SharedInputs ==
    {[is |-> "shared", cfg |-> Config(o, a, b, Stub(m, s), ""), zone |-> z] :
        o \in {<<>>, <<Host>>}, a \in Statements, b \in Statements, m \in {"", "view"}, s \in {<<>>, <<Nobody>>, <<Signed>>},
        z \in {[PlainZone EXCEPT !.acl = Acls(l)] : l \in {<<>>, <<<<AnyElem>>>>, <<Signed>>}}
              \cup {DbZone(<<>>, t, ks, "any") : t \in {Net, Host}, ks \in {{}, {"k1"}}}}
LegalStub(i) == i.cfg.views["v2"].stub.settings = "" => i.cfg.views["v2"].stub.acl = Acls(<<>>)

Decisions(cfg, zone, v, s) ==
    <<query_acl_permits(cfg, zone, v, s, s.addr), zone_notify_acl_allows(cfg, zone, v, s),
      zone_transfer_acl_allows_in_view(cfg, zone, v, s), zone_update_acl_allows_in_view(cfg, zone, v, s)>>

\* in-view-settings owner: "the referencing view's own statements are not used"; a request through it is decided as one through the owner view.
OwnerDecides(i) ==
    config_in_view_mode(i.cfg, "v2") = "owner"
      => \A s \in Subjects : Decisions(i.cfg, i.zone, "v2", s) = Decisions(i.cfg, i.zone, "v1", s)

\* in-view-settings view: the in-view zone's statement, else the owner zone's, else the referencing view's, else options': the owner view's are not used.
ReferencingDecides(i) ==
    LET other == [i.cfg EXCEPT !.views["v1"].acl = Acls(<<Signed>>)]
    IN config_in_view_mode(i.cfg, "v2") = "view"
         => \A s \in Subjects : Decisions(i.cfg, i.zone, "v2", s) = Decisions(other, i.zone, "v2", s)

\* What the rows of the database grant stays inside acl-ceiling; only the in-view zone's own lists, written in karidns.conf, go beyond it.
CeilingHolds(i) ==
    \A s \in Subjects, v \in {"v1", "v2"} :
        i.zone.db =>
          /\ zone_transfer_acl_allows_in_view(i.cfg, i.zone, v, s)
               => ceiling_allows(i.cfg, s) \/ acl_in_view_own(i.cfg, i.zone, v, "transfer")
          /\ zone_update_acl_allows_in_view(i.cfg, i.zone, v, s)
               => ceiling_allows(i.cfg, s) \/ acl_in_view_own(i.cfg, i.zone, v, "update")

(* ---- lists ---- *)

AclNets == {NetElem(n, f, b) : n \in BOOLEAN, f \in {4, 6}, b \in {<<0>>, <<0, 1>>}}
AddrLists == {<<>>} \cup {<<a>> : a \in AclNets} \cup {<<a, b>> : a, b \in AclNets}
KeyLists == {<<KeyElem(FALSE, "k1")>>, <<KeyElem(FALSE, "k1"), KeyElem(FALSE, "k2")>>}
ListInputs == {[is |-> "list", nets |-> n, keys |-> k] : n \in AddrLists \ {<<>>}, k \in KeyLists}

\* docs/karidns.md, "Order of evaluation": transfer-acl-match all is what BIND's lists say with a nested, negated list of the addresses.
AllIsNested(i) ==
    LET both == i.nets \o i.keys
        nested == <<ListElem(TRUE, <<ListElem(TRUE, i.nets), AnyElem>>)>> \o i.keys
        zone == [PlainZone EXCEPT !.acl = Acls(<<both>>), !.transfer_match = "all"]
        cfg == Config(<<>>, <<>>, <<>>, NoStub, "")
    IN \A s \in Subjects : zone_transfer_acl_allows_in_view(cfg, zone, "v1", s) = (aml_match(nested, s) > 0)

\* A list of addresses read as a flat list and as an address match list lets in the same clients; a list of keys lets in no unsigned request.
FlatIsList(i) ==
    \A s \in Subjects : /\ check_acl_bin(s.addr, i.nets) = (aml_match(i.nets, s) > 0)
                        /\ s.key = "" => aml_match(i.keys, s) = 0

\* A nested list that lets nobody in by itself changes nothing, negated or not.
NestedNeutral(i) ==
    \A s \in Subjects, n \in BOOLEAN :
        aml_match(<<ListElem(n, <<[AnyElem EXCEPT !.neg = TRUE]>> \o i.nets)>> \o i.keys, s) = aml_match(i.keys, s)

(* ---- the view of a request ---- *)

Rings == {{}, {"own"}}
Matches == {<<>>, <<NetElem(FALSE, 4, <<0, 0>>)>>}
AmlMatches == {<<>>, <<<<KeyElem(FALSE, "own")>>>>, <<<<KeyElem(FALSE, "k1"), NetElem(FALSE, 6, <<0>>)>>>>, <<<<KeyElem(TRUE, "k1"), AnyElem>>>>}
Sigs == {[is |-> "none", key |-> ""], [is |-> "bad", key |-> ""]} \cup [is : {"good", "cut", "late", "wrong"}, key : {"k1", "own", "unknown"}]
ViewInputs ==
    {[is |-> "view", cfg |-> [Config(<<>>, <<>>, <<>>, NoStub, "") EXCEPT !.views =
        [v1 |-> [@["v1"] EXCEPT !.keys = r1, !.match_clients = m1, !.match_aml = a1],
         v2 |-> [@["v2"] EXCEPT !.keys = r2, !.match_clients = m2, !.match_aml = a2]]]] :
        r1 \in Rings, r2 \in Rings, m1 \in Matches, m2 \in Matches, a1 \in AmlMatches, a2 \in AmlMatches}

\* A request is served by the first view that takes it, with the verdict of that view's own ring: a key of another view gives nothing, neither a view nor a valid signature.
ViewIsFirst(i) ==
    \A addr \in Addrs, sig \in Sigs :
        LET r == select_view_req(i.cfg, addr, sig)
            ring == Keys \cup (IF r.view = "" THEN {} ELSE i.cfg.views[r.view].keys)
            takes(v) == ViewMatches(i.cfg, v, addr, sig)
        IN /\ r.view = "v1" <=> takes("v1")
           /\ r.view = "v2" <=> ~takes("v1") /\ takes("v2")
           /\ r.tsig.status = "valid" <=> sig.is = "good" /\ sig.key \in ring
           /\ r.tsig.signs => sig.key \in ring
           /\ r.view # "" /\ sig.is # "good" => select_view_req(i.cfg, addr, [is |-> "none", key |-> ""]).view = r.view

AccessSeeds == {i \in SharedInputs : LegalStub(i)} \cup ListInputs \cup ViewInputs

AccessRight(i) ==
    CASE i.is = "shared" -> OwnerDecides(i) /\ ReferencingDecides(i) /\ CeilingHolds(i)
      [] i.is = "list" -> AllIsNested(i) /\ FlatIsList(i) /\ NestedNeutral(i)
      [] i.is = "view" -> ViewIsFirst(i)

(* ---- what a client sees of a zone ---- *)

(* dns_edns_ecs.c: the tag of its ECS subnet and the SCOPE the answer is good for, its tinydns location, whether its ECS is believed, and the server cookie it shows.           *)

ADDR_BITS == 3                \* 32 and 128 in the code
SERIAL_SPAN == 48             \* 2^32
VALID_PAST == 12              \* 3600, 300 and 1800 seconds in units of 300
VALID_FUTURE == 1
REFRESH == 6

(* ---- EDNS Client Subnet (RFC 7871) ---- *)

Larger(a, b) == IF a > b THEN a ELSE b

ecs_common_prefix_bits(a, b, max_bits) ==
    CHOOSE n \in 0..max_bits : /\ \A i \in 1..n : a[i] = b[i]
                               /\ n < max_bits => a[n + 1] # b[n + 1]

\* The scope one definition asks for: inside it its length, outside of it as many bits as tell the address from it.
ecs_cidr_step(net, addr, scope) ==
    IF cidr_entry_match(net, addr) THEN Larger(scope, Len(net.bits))
    ELSE IF net.fam = addr.fam THEN Larger(scope, ecs_common_prefix_bits(addr.bits, net.bits, Len(net.bits)) + 1)
    ELSE scope

\* The definitions of the zone's data, else of its configuration, else the server's.
Definitions(sources) == LET written == SelectSeq(sources, LAMBDA d : d # <<>>) IN IF written = <<>> THEN <<>> ELSE written[1]

\* defs is the sequence of <<tag, network>> in the order they are looked at: the first that matches wins, and the ones behind it do not count.
resolve_ecs_subnet_tag(defs, addr) ==
    LET hits == {i \in DOMAIN defs : cidr_entry_match(defs[i][2], addr)}
        last == IF hits = {} THEN Len(defs) ELSE CHOOSE i \in hits : \A j \in hits : i <= j
        scope[i \in 0..last] == IF i = 0 THEN 0 ELSE ecs_cidr_step(defs[i][2], addr, scope[i - 1])
    IN [tag |-> IF hits = {} THEN "" ELSE defs[last][1],
        scope |-> IF scope[last] > ADDR_BITS THEN ADDR_BITS ELSE scope[last]]

resolve_bind_location_tag(defs, addr) ==
    LET hits == {i \in DOMAIN defs : cidr_entry_match(defs[i][2], addr)}
    IN IF hits = {} THEN "" ELSE defs[CHOOSE i \in hits : \A j \in hits : i <= j][1]

is_ecs_trusted_resolver(image, zone, server, db, ceiling, addr) ==
    LET l == Definitions(<<image, zone, server>>)
    IN /\ l # <<>>
       /\ check_acl_bin(addr, l)
       /\ image = <<>> /\ zone # <<>> /\ db => ceiling # <<>> /\ check_acl_bin(addr, ceiling)

\* The longest prefix wins, the earlier of two that are as long.
tinydns_resolve_client_location(locs, addr) ==
    LET Fits(i) == addr.fam = 4 /\ IsPrefix(locs[i].bits, addr.bits)
        best[i \in 0..Len(locs)] ==
            IF i = 0 THEN 0
            ELSE IF (best[i - 1] = 0 \/ Len(locs[i].bits) > Len(locs[best[i - 1]].bits)) /\ Fits(i) THEN i ELSE best[i - 1]
    IN IF best[Len(locs)] = 0 THEN "" ELSE locs[best[Len(locs)]].code

(* ---- server cookies (RFC 7873, RFC 9018) ---- *)

\* SipHash is taken as the tuple of what goes into it.
compute_server_cookie_hash(secret, addr, client_cookie, ts) == <<secret, addr, client_cookie, ts>>

\* own: the secret drawn at start, used when the configuration has none.
Secrets(secrets, own) == IF secrets = <<>> THEN <<own>> ELSE secrets

generate_server_cookie(secrets, own, addr, client_cookie, now) ==
    [ts |-> now, hash |-> compute_server_cookie_hash(Secrets(secrets, own)[1], addr, client_cookie, now)]

Age(now, ts) == ((now - ts + SERIAL_SPAN \div 2) % SERIAL_SPAN) - SERIAL_SPAN \div 2

verify_server_cookie(secrets, own, addr, client_cookie, cookie, now) ==
    LET age == Age(now, cookie.ts)
        known == {compute_server_cookie_hash(s, addr, client_cookie, cookie.ts) : s \in ToSet(Secrets(secrets, own))}
    IN IF age > VALID_PAST \/ age < -VALID_FUTURE \/ cookie.hash \notin known THEN "invalid"
       ELSE IF age > REFRESH THEN "refresh" ELSE "valid"

(* ---- what they promise ---- *)

Address(bits) == [fam |-> 4, bits |-> bits]
Addresses == {Address(b) : b \in [1..ADDR_BITS -> 0..1]}
Nets == UNION {[1..n -> 0..1] : n \in 0..ADDR_BITS}
Definition == {<<t, NetElem(FALSE, 4, b)>> : t \in {"a", "b"}, b \in Nets} \cup {<<"b", AnyElem>>, <<"b", NetElem(FALSE, 6, <<0>>)>>}
Block(a, len) == {x \in Addresses : \A i \in 1..len : x.bits[i] = a.bits[i]}

\* RFC 7871 7.2.1, and the comment over resolve_ecs_subnet_tag(): every address of ADDRESS/SCOPE gets the same tag, and two answers never have scopes that overlap.
ScopesApart(i) ==
    LET r == [a \in Addresses |-> resolve_ecs_subnet_tag(i.defs, a)]
    IN \A a \in Addresses : \A b \in Block(a, r[a].scope) : r[b] = r[a]

\* The scope is no longer than it has to be for one definition: one bit less and two tags would be in it, or the definition itself is that long.
ScopeIsShort(i) ==
    \A a \in Addresses : LET r == resolve_ecs_subnet_tag(i.defs, a) IN
        Len(i.defs) = 1 /\ r.scope > 0 /\ i.defs[1][2].k = "net" =>
            \E b \in Block(a, r.scope - 1) : resolve_ecs_subnet_tag(i.defs, b).tag # r.tag

Locations == {[code |-> c, bits |-> b] : c \in {"x", "y"}, b \in Nets}

\* tinydns data: the client is at the location of the longest prefix that holds its address.
LongestLocation(i) ==
    \A a \in Addresses :
        LET fits == {j \in DOMAIN i.locs : IsPrefix(i.locs[j].bits, a.bits)}
            longest == {j \in fits : \A k \in fits : Len(i.locs[k].bits) <= Len(i.locs[j].bits)}
        IN tinydns_resolve_client_location(i.locs, a) =
              IF fits = {} THEN "" ELSE i.locs[CHOOSE j \in longest : \A k \in longest : j <= k].code

\* A cookie the server gave is good from VALID_FUTURE before to VALID_PAST after its time, also across the wrap of the 32 bit clock, for its client only, and as long as its
\* secret is among the configured ones, wherever it stands: a secret can be replaced without a single BADCOOKIE.
CookieLives(i) ==
    LET c == generate_server_cookie(i.before, "own", "client", "cc", i.made)
        d == (i.now - i.made) % SERIAL_SPAN
        kept == Secrets(i.before, "own")[1] \in ToSet(Secrets(i.after, "own"))
        fresh == d \in 0..VALID_PAST \/ SERIAL_SPAN - d \in 1..VALID_FUTURE
    IN /\ verify_server_cookie(i.after, "own", "client", "cc", c, i.now) # "invalid" <=> kept /\ fresh
       /\ verify_server_cookie(i.after, "own", "client", "cc", c, i.now) = "refresh" => d \in (REFRESH + 1)..VALID_PAST
       /\ verify_server_cookie(i.after, "own", "other", "cc", c, i.now) = "invalid"
       /\ verify_server_cookie(i.after, "own", "client", "xx", c, i.now) = "invalid"

ClientSeeds(is) ==
    CASE is = "ecs" -> {[is |-> is, defs |-> d] : d \in BoundedSeq(Definition, 2)}
      [] is = "location" -> {[is |-> is, locs |-> l] : l \in BoundedSeq(Locations, 2)}
      [] is = "cookie" -> [is : {is}, before : {<<>>, <<"s1">>, <<"s1", "s2">>}, after : {<<>>, <<"s1">>, <<"s2", "s1">>, <<"s2">>},
                           made : {0, 5, SERIAL_SPAN - 1}, now : 0..(SERIAL_SPAN - 1)]

ClientRight(i) ==
    CASE i.is = "ecs" -> ScopesApart(i) /\ ScopeIsShort(i)
      [] i.is = "location" -> LongestLocation(i)
      [] i.is = "cookie" -> CookieLives(i)
=============================================================================
