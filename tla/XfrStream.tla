------------------------------ MODULE XfrStream ------------------------------
(***************************************************************************)
(* What a zone transfer carries: send_axfr_response() with the encoder of  *)
(* the extension records (xext_*, dns_wire.c), and parse_xfr_packet()      *)
(* (dns_axfr_ixfr.c) that reads the stream back.  A record has the         *)
(* attributes that make it visible to some clients only: a location tag, a *)
(* subnet tag, and a tinydns location or time stamp; a SOA has its serial  *)
(* as data.  A standard transfer carries none of the attributes, version 2 *)
(* of the extended format all but those of SOA records.                    *)
(***************************************************************************)
EXTENDS Integers, Sequences, FiniteSets, SequencesExt

Modulus == 8
serial_is_newer(a, b) == (a - b) % Modulus \in 1 .. Modulus \div 2 - 1

Rr(at, type, data, loc, ecs, tloc) ==
  [at |-> at, type |-> type, data |-> data, loc |-> loc, ecs |-> ecs, tloc |-> tloc, class |-> "IN"]
Restricted(rr) == rr.loc # "" \/ rr.ecs # "" \/ rr.tloc # ""
NoRr == Rr("apex", "-", 0, "", "", "")
\* An item of the stream: a record ("rr"), a record in a wrapper ("wrap"), or an extension record
Item(is, text, n, rr) == [is |-> is, text |-> text, n |-> n, rr |-> rr]
Marker(is, text) == Item(is, text, 0, NoRr)

\* zone: [soas, rrs : records in file order, defs : tag definitions of the data, trusted, locs : of the
\* data, tinydns]; cfg: [defs, trusted, settings] of the configuration
Restrained(zone) == \E i \in DOMAIN zone.rrs : Restricted(zone.rrs[i])
zone_has_multiple_or_restricted_soa(zone) ==
  Len(zone.soas) > 1 \/ \E i \in DOMAIN zone.soas : Restricted(zone.soas[i])
HasView(zone) == Restrained(zone) \/ \E i \in DOMAIN zone.soas : Restricted(zone.soas[i])
zone_needs_extended_axfr(zone, cfg, version) ==
  \/ zone.defs # <<>> \/ zone.trusted \/ zone.locs # <<>> \/ zone.tinydns
  \/ zone_has_multiple_or_restricted_soa(zone)
  \/ version < 3 /\ cfg.trusted

-----------------------------------------------------------------------------
(* The sender *)

\* A marker before each change of the tags
xext_select(x, rr) ==
  (IF rr.loc # x.loc THEN <<Marker("loc", rr.loc)>> ELSE <<>>)
  \o (IF rr.ecs # x.ecs THEN <<Marker("ecs", rr.ecs)>> ELSE <<>>)
xext_finish(x) ==
  (IF x.loc # "" THEN <<Marker("loc", "")>> ELSE <<>>) \o (IF x.ecs # "" THEN <<Marker("ecs", "")>> ELSE <<>>)

Plain(rr) == [rr EXCEPT !.loc = "", !.ecs = "", !.tloc = ""]
\* The wrapper carries the tinydns attributes; the tags are in the markers
Carried(rr, wrap) ==
  IF rr.tloc # "" \/ wrap THEN Item("wrap", rr.tloc, 0, Plain(rr)) ELSE Item("rr", "", 0, Plain(rr))

NoView == [loc |-> "", tloc |-> ""]
Visible(rr, view) == rr.loc \in {"", view.loc} /\ rr.ecs = "" /\ rr.tloc \in {"", view.tloc}

\* x: [out, loc, ecs]; a record that the requester does not see is not sent in a standard transfer
axfr_emit_zone_item(x, rr, how) ==
  IF ~how.extended
  THEN IF Visible(rr, how.view) THEN [x EXCEPT !.out = Append(@, Item("rr", "", 0, Plain(rr)))] ELSE x
  ELSE [out |-> x.out \o xext_select(x, rr)
                \o <<Carried(rr, how.wrap /\ rr.type = "SOA" /\ rr.at = "apex")>>,
        loc |-> rr.loc, ecs |-> rr.ecs]
\* The frame, and the SOA records of the differences: without markers
axfr_emit_record(x, rr) == [x EXCEPT !.out = Append(@, Item("rr", "", 0, Plain(rr)))]
EmitAll(x, rrs, how) == FoldLeft(LAMBDA y, rr : axfr_emit_zone_item(y, rr, how), x, rrs)
Put(x, items) == [x EXCEPT !.out = @ \o items]

Def(kind, tag, cidr) == [kind |-> kind, tag |-> tag, cidr |-> cidr]
Uses(zone, def) ==
  \E rr \in Range(zone.rrs) \cup Range(zone.soas) : def.tag = IF def.kind = "loc" THEN rr.loc ELSE rr.ecs
Defines(zone, kind) == \E i \in DOMAIN zone.defs : zone.defs[i].kind = kind
DefItem(def) == Item(IF def.kind = "loc" THEN "locdef" ELSE "ecsdef", def.tag, def.cidr, NoRr)
axfr_emit_config_tags(zone, cfg) ==
  LET Wanted(d) == ~Defines(zone, d.kind) /\ Uses(zone, d)
      sent == SelectSeq(cfg.defs, Wanted)
  IN  [i \in DOMAIN sent |-> DefItem(sent[i])]
\* zone_settings_render(): the settings, with the trusted resolvers unless the data has its own
axfr_emit_settings(zone, cfg) ==
  LET text == cfg.settings \o (IF cfg.trusted /\ ~zone.trusted THEN <<"trusted">> ELSE <<>>)
  IN  IF text = <<>> THEN <<>> ELSE <<Item("settings", text[Len(text)], Len(text), NoRr)>>

Definitions(zone, cfg, v3) ==
  (IF v3 /\ zone_has_multiple_or_restricted_soa(zone)
   THEN <<Item("soaset", "", Len(zone.soas), NoRr)>> ELSE <<>>)
  \o (IF v3 THEN axfr_emit_settings(zone, cfg) ELSE <<>>)
  \o [i \in DOMAIN zone.defs |-> DefItem(zone.defs[i])]
  \o (IF v3 THEN axfr_emit_config_tags(zone, cfg) ELSE <<>>)
  \o (IF zone.trusted \/ (~v3 /\ cfg.trusted) THEN <<Marker("trusted", "")>> ELSE <<>>)
  \o [i \in DOMAIN zone.locs |-> Marker("tinyloc", zone.locs[i])]

Nothing == [out |-> <<>>, loc |-> "", ecs |-> ""]
Closed(x, how) == IF how.extended THEN [Put(x, xext_finish(x)) EXCEPT !.loc = "", !.ecs = ""] ELSE x
WholeZone(zone, cfg, frame, how, v3) ==
  LET head == Put(axfr_emit_record(Nothing, frame), IF how.extended THEN Definitions(zone, cfg, v3) ELSE <<>>)
      rrs == (IF how.wrap THEN zone.soas ELSE <<>>) \o zone.rrs
  IN  axfr_emit_record(Closed(EmitAll(head, rrs, how), how), frame).out

\* A difference: its SOA first, without markers, then its other records
IsSoa(rr) == rr.type = "SOA"
NotSoa(rr) == rr.type # "SOA"
Differences(zone, cfg, txns, frame, how, v3) ==
  LET Half(x, rrs) == EmitAll(axfr_emit_record(x, SelectSeq(rrs, IsSoa)[1]), SelectSeq(rrs, NotSoa), how)
      Txn(x, t) == FoldLeft(Half, x, <<t.deleted, t.added>>)
      head == axfr_emit_record(Nothing, frame)
  IN  IF txns = <<>> THEN head.out
      ELSE axfr_emit_record(FoldLeft(Txn, Put(head, IF v3 THEN axfr_emit_settings(zone, cfg) ELSE <<>>), txns), frame).out

SoaInHistory(txns) ==
  \E t \in Range(txns) : \E rrs \in {t.deleted, t.added} :
    \/ Len(SelectSeq(rrs, IsSoa)) > 1
    \/ \E rr \in Range(rrs) : IsSoa(rr) /\ Restricted(rr)

\* compute_ixfr_diff(): the records, with all their attributes, that only one of two versions has
IxfrMaxDelta == 6
All(zone) == zone.soas \o zone.rrs
compute_ixfr_diff(history, depth, old, new) ==
  LET deleted == SelectSeq(All(old), LAMBDA rr : rr \notin Range(All(new)))
      added == SelectSeq(All(new), LAMBDA rr : rr \notin Range(All(old)))
      txn == [old |-> old.soas[1].data, new |-> new.soas[1].data, deleted |-> deleted, added |-> added]
  IN  IF \/ depth = 0 \/ txn.old = 0 \/ txn.new = 0
         \/ ~serial_is_newer(txn.new, txn.old)
         \/ Len(deleted) + Len(added) > IxfrMaxDelta
      THEN history
      ELSE LET all == Append(history, txn) IN SubSeq(all, IF Len(all) > depth THEN 2 ELSE 1, Len(all))

\* The differences from the client's serial, oldest first, when they lead to the current one
Chain(history, serial, current) ==
  LET from == {i \in DOMAIN history : history[i].old = serial}
      i == CHOOSE k \in from : \A j \in from : k <= j
      tail == SubSeq(history, i, Len(history))
      joined == \A k \in 1 .. Len(tail) - 1 : tail[k].new = tail[k + 1].old
  IN  IF from = {} \/ ~joined \/ tail[Len(tail)].new # current THEN <<>> ELSE tail

Refuse(why) == [kind |-> why, items |-> <<>>]
\* req: [ixfr, serial, ext (0, 2 or 3), view, provide (provide-ixfr)]
send_axfr_response(zone, cfg, history, req) ==
  LET v3 == req.ext = 3
      extended == req.ext # 0
      multi == zone_has_multiple_or_restricted_soa(zone)
      seen == SelectSeq(zone.soas, LAMBDA rr : Visible(rr, req.view))
      frame == IF ~extended /\ HasView(zone) THEN seen[1] ELSE zone.soas[1]
      current == zone.soas[1].data
      upToDate == req.ixfr /\ (req.serial = current \/ serial_is_newer(req.serial, current))
      whole == \/ ~req.ixfr \/ ~req.provide
               \/ extended /\ zone_needs_extended_axfr(zone, cfg, req.ext)
               \/ ~extended /\ HasView(zone)
      how == [extended |-> extended, view |-> IF HasView(zone) THEN req.view ELSE NoView, wrap |-> FALSE]
      Sent(txns) ==
        IF upToDate \/ (txns # <<>> /\ ~SoaInHistory(txns))
        THEN [kind |-> IF upToDate THEN "poll" ELSE "ixfr", items |-> Differences(zone, cfg, txns, frame, how, v3)]
        ELSE [kind |-> "axfr", items |-> WholeZone(zone, cfg, frame, [how EXCEPT !.wrap = v3 /\ multi], v3)]
  IN  IF All(zone) = <<>> THEN Refuse("not loaded")
      ELSE IF zone.soas = <<>> THEN Refuse("nothing")
      ELSE IF extended /\ ~v3 /\ multi THEN Refuse("several SOA records")
      ELSE IF ~extended /\ HasView(zone) /\ seen = <<>> THEN Refuse("not served")
      ELSE Sent(IF whole \/ upToDate THEN <<>> ELSE Chain(history, req.serial, current))

\* axfr_emit_item(): a message is sent when the next record does not fit, or after each (one-answer)
RECURSIVE Messages(_, _)
Messages(items, room) ==
  IF Len(items) <= room THEN <<items>>
  ELSE <<SubSeq(items, 1, room)>> \o Messages(SubSeq(items, room + 1, Len(items)), room)

-----------------------------------------------------------------------------
(* The receiver *)

MaxDefs == 3
MaxSoaSet == 4
\* active: the version that is served, [recs, defs, trusted, locs, tinydns], to which differences are applied
Session(ixfr, serial, ext, active, loader) ==
  [st |-> "reading", ixfr |-> ixfr, client |-> serial, ext |-> ext, active |-> active, loader |-> loader,
   soas |-> 0, serial |-> 0, deleting |-> FALSE, expected |-> 0, loc |-> "", ecs |-> "",
   set |-> FALSE, announced |-> 0, seen |-> 0, settings |-> <<>>, recs |-> <<>>, defs |-> <<>>,
   trusted |-> FALSE, locs |-> <<>>, tinydns |-> FALSE, skipped |-> 0, trailing |-> FALSE]
Reject(s) == [s EXCEPT !.st = "refused"]
BadSequence(s) == [s EXCEPT !.st = "bad sequence"]
Finish(s) == [s EXCEPT !.st = "finished"]
Store(s, rr) == [s EXCEPT !.recs = Append(@, rr)]

TakeSet(s, n) ==
  IF s.set \/ s.soas # 1 \/ Len(s.recs) # 1 \/ s.recs[1].type # "SOA" \/ n \notin 1 .. MaxSoaSet THEN Reject(s)
  ELSE [s EXCEPT !.set = TRUE, !.announced = n, !.recs = <<>>]
TakeDef(s, def) ==
  LET t == [s EXCEPT !.defs = Append(@, def)]
      same == SelectSeq(t.defs, LAMBDA d : d.kind = def.kind)
  IN  IF Len(same) > MaxDefs THEN Reject(s) ELSE t
TakeSettings(s, item) ==
  IF s.loader THEN Reject(s)
  ELSE IF s.ext >= 3 /\ s.settings = <<>> THEN [s EXCEPT !.settings = <<item.text, item.n>>] ELSE s
TakeTrusted(s) == IF s.loader THEN Reject(s) ELSE [s EXCEPT !.trusted = TRUE]

IndexOf(recs, P(_)) ==
  LET hits == {i \in DOMAIN recs : P(recs[i])}
  IN  IF hits = {} THEN 0 ELSE CHOOSE i \in hits : \A j \in hits : i <= j
\* The last record takes the place of the deleted one
DeleteAt(recs, i) == IF i = 0 THEN recs ELSE Front([recs EXCEPT ![i] = recs[Len(recs)]])
ReplaceSoa(recs, soa) ==
  LET i == IndexOf(recs, LAMBDA r : r.type = "SOA" /\ r.at = "apex")
  IN  IF i = 0 THEN Append(recs, soa) ELSE [recs EXCEPT ![i] = soa]

FirstSoa(s, rr, alone) ==
  IF (s.ixfr /\ alone /\ rr.data = s.client) \/ (s.client # 0 /\ rr.data = s.client)
  THEN [Finish(s) EXCEPT !.recs = <<>>, !.serial = rr.data]
  ELSE IF s.client # 0 /\ ~serial_is_newer(rr.data, s.client) THEN Reject(s)
  ELSE [Store(s, rr) EXCEPT !.serial = rr.data]
SecondSoa(s, rr) ==
  IF rr.data # s.client THEN BadSequence(s)
  ELSE LET a == s.active
       IN  [s EXCEPT !.recs = a.recs, !.defs = a.defs, !.trusted = a.trusted, !.locs = a.locs,
                     !.tinydns = a.tinydns, !.deleting = TRUE]
AddedSoa(s, rr) == [s EXCEPT !.deleting = FALSE, !.expected = rr.data, !.recs = ReplaceSoa(@, rr)]
NextSoa(s, rr) ==
  IF rr.data = s.serial /\ s.expected = s.serial THEN Finish(s)
  ELSE IF rr.data # s.expected THEN BadSequence(s) ELSE [s EXCEPT !.deleting = TRUE]
LastSoa(s, rr, last) ==
  IF rr.data # s.serial \/ rr.at # "apex" THEN Store(s, rr)
  ELSE IF s.set /\ s.seen # s.announced THEN Reject(s)
  ELSE [Finish(s) EXCEPT !.trailing = ~last]
TakeSoa(s, rr, alone, last) ==
  LET t == [s EXCEPT !.soas = @ + 1]
  IN  CASE t.soas = 1 -> FirstSoa(t, rr, alone)
        [] t.soas = 2 /\ t.ixfr -> SecondSoa(t, rr)
        [] t.soas > 2 /\ t.ixfr /\ t.deleting -> AddedSoa(t, rr)
        [] t.soas > 2 /\ t.ixfr /\ ~t.deleting -> NextSoa(t, rr)
        [] OTHER -> LastSoa(t, rr, last)
\* An apex SOA record of the body of a version 3 stream
BodySoa(s, rr) ==
  IF rr.at # "apex" \/ rr.data # s.serial \/ s.seen = s.announced THEN Reject(s)
  ELSE [Store(s, rr) EXCEPT !.seen = @ + 1]
TakeRr(s, rr) ==
  LET t == IF s.soas = 1 /\ s.ixfr THEN [s EXCEPT !.ixfr = FALSE] ELSE s
  IN  IF t.ixfr /\ t.deleting
      THEN [t EXCEPT !.recs = DeleteAt(@, IndexOf(@, LAMBDA r : r = rr))]
      ELSE Store(t, rr)

\* The owner, the class and the tags in force; then what the record is
TakeRecord(s, bare, wrapped, alone, last) ==
  LET rr == [bare EXCEPT !.loc = s.loc, !.ecs = s.ecs]
  IN  IF rr.class # "IN" THEN Reject(s)
      ELSE IF rr.at = "out" THEN IF rr.type = "SOA" THEN Reject(s) ELSE [s EXCEPT !.skipped = @ + 1]
      ELSE IF rr.type # "SOA" THEN TakeRr(s, rr)
      ELSE IF wrapped /\ s.set THEN BodySoa(s, rr)
      ELSE TakeSoa(s, rr, alone, last)

\* An item of a message; alone: it is the only one of its message, last: nothing follows in it
TakeItem(s, item, alone, last) ==
  CASE s.st \notin {"reading", "finished"} -> s
    [] s.st = "finished" /\ s.recs = <<>> -> s
    [] item.is = "loc" -> [s EXCEPT !.loc = item.text]
    [] item.is = "ecs" -> [s EXCEPT !.ecs = item.text]
    [] item.is = "locdef" -> TakeDef(s, Def("loc", item.text, item.n))
    [] item.is = "ecsdef" -> TakeDef(s, Def("ecs", item.text, item.n))
    [] item.is = "trusted" -> TakeTrusted(s)
    [] item.is = "soaset" -> TakeSet(s, item.n)
    [] item.is = "settings" -> TakeSettings(s, item)
    [] item.is = "tinyloc" -> [s EXCEPT !.locs = Append(@, item.text), !.tinydns = TRUE]
    [] item.is = "wrap" -> TakeRecord([s EXCEPT !.tinydns = @ \/ item.text # ""],
                                      [item.rr EXCEPT !.tloc = item.text], TRUE, alone, last)
    [] item.is = "rr" -> TakeRecord(s, item.rr, FALSE, alone, last)

RECURSIVE FromItem(_, _, _)
FromItem(s, message, i) ==
  IF i > Len(message) THEN s
  ELSE FromItem(TakeItem(s, message[i], Len(message) = 1, i = Len(message)), message, i + 1)
parse_xfr_packet(s, message) == FromItem(s, message, 1)

RECURSIVE ReadAll(_, _)
ReadAll(s, messages) ==
  IF messages = <<>> \/ s.st # "reading" THEN s ELSE ReadAll(parse_xfr_packet(s, messages[1]), Tail(messages))

-----------------------------------------------------------------------------
(***************************************************************************)
(* What a secondary must have after a transfer, against the sender and the *)
(* receiver of XfrStream.                                                  *)
(***************************************************************************)

Soa(serial, loc) == Rr("apex", "SOA", serial, loc, "", "")
A(n, loc, ecs, tloc) == Rr("in", "A", n, loc, ecs, tloc)
Ns == Rr("apex", "NS", 0, "", "", "")
\* Records with every kind of attribute, several with the same; a zone has an NS record
More == {<<>>, <<A(1, "", "", "")>>, <<A(1, "x", "", ""), A(2, "x", "e", ""), A(3, "", "e", "")>>,
           <<A(1, "", "", ""), A(2, "y", "", ""), A(3, "", "", "t")>>,
           <<A(1, "x", "", ""), A(1, "y", "", ""), A(2, "", "", ""), A(3, "x", "e", "t")>>}
Contents == {<<Ns>> \o more : more \in More}
SoaSets(n) == {<<Soa(n, "")>>, <<Soa(n, "x"), Soa(n, "y")>>, <<Soa(n, "x")>>, <<Soa(n, ""), Soa(n, "x")>>}
DefSets == {<<>>, <<Def("loc", "x", 1)>>, <<Def("ecs", "e", 2)>>, <<Def("loc", "x", 3), Def("loc", "y", 4), Def("ecs", "e", 5)>>}
Zone(soas, rrs, defs, trusted, tiny) ==
  [soas |-> soas, rrs |-> rrs, defs |-> defs, trusted |-> trusted,
   locs |-> IF tiny THEN <<"t">> ELSE <<>>, tinydns |-> tiny]
Cfg(defs, trusted, settings) == [defs |-> defs, trusted |-> trusted, settings |-> settings]
Views == {NoView, [loc |-> "x", tloc |-> "t"], [loc |-> "y", tloc |-> ""]}

\* How a tag is resolved: by the definitions of the data when it has any of that kind, else by the
\* configuration (of the primary; the secondary's has none)
Resolved(zone, defs, kind, tag) ==
  LET from == IF \E i \in DOMAIN zone.defs : zone.defs[i].kind = kind THEN zone.defs ELSE defs
  IN  {d.cidr : d \in {e \in Range(from) : e.kind = kind /\ e.tag = tag}}
Trusts(data, cfg) == data \/ cfg
NoServed == [recs |-> <<>>, defs |-> <<>>, trusted |-> FALSE, locs |-> <<>>, tinydns |-> FALSE]
Served(s) == [recs |-> s.recs, defs |-> s.defs, trusted |-> s.trusted, locs |-> s.locs, tinydns |-> s.tinydns]

\* ("Same" compares bags: the records of a zone differ)
SameRecords(recs, rrs) == Range(recs) = Range(rrs) /\ Len(recs) = Len(rrs)

Request(c, ixfr, serial) == [ixfr |-> ixfr, serial |-> serial, ext |-> c.ext, view |-> c.view, provide |-> TRUE]
Taken(c, req, active, sent) ==
  ReadAll(Session(req.ixfr, req.serial, c.ext, active, FALSE), Messages(sent.items, c.room))

(***************************************************************************)
(* A whole transfer is read to its end whatever the size of the messages,  *)
(* and gives: to a version 3 secondary the SOA set and all records with    *)
(* their attributes, tags that resolve as at the primary, and the trusted  *)
(* resolvers; to a version 2 secondary the same, with the definitions of   *)
(* the data only; to any other one the records its address sees, without   *)
(* attributes, behind the first SOA it sees (send_axfr_response(),         *)
(* parse_xfr_packet()).                                                    *)
(***************************************************************************)
WholeGot(c, sent, got) ==
  LET seen == SelectSeq(c.zone.soas, LAMBDA rr : Visible(rr, c.view))
      mine == SelectSeq(c.zone.rrs, LAMBDA rr : Visible(rr, c.view))
  IN  CASE c.ext = 2 /\ zone_has_multiple_or_restricted_soa(c.zone) -> sent.kind = "several SOA records"
        [] c.ext = 0 /\ seen = <<>> -> sent.kind = "not served"
        [] c.ext = 0 /\ seen # <<>> ->
             /\ got.st = "finished" /\ ~got.trailing /\ got.defs = <<>> /\ got.locs = <<>> /\ ~got.tinydns
             /\ got.recs = <<Plain(seen[1])>> \o [i \in DOMAIN mine |-> Plain(mine[i])]
        [] OTHER ->
             /\ got.st = "finished" /\ ~got.trailing /\ got.skipped = 0 /\ got.loc = "" /\ got.ecs = ""
             /\ got.recs = All(c.zone)
             /\ got.locs = c.zone.locs /\ (got.tinydns <=> Range(got.locs) # {} \/ \E r \in Range(got.recs) : r.tloc # "")
             /\ \A r \in Range(got.recs) :
                  LET cfg == IF c.ext = 3 THEN c.cfg.defs ELSE <<>>
                  IN  /\ Resolved(got, <<>>, "loc", r.loc) = Resolved(c.zone, cfg, "loc", r.loc)
                      /\ Resolved(got, <<>>, "ecs", r.ecs) = Resolved(c.zone, cfg, "ecs", r.ecs)
             /\ Trusts(got.trusted, got.settings # <<>> /\ got.settings[1] = "trusted")
                  = Trusts(c.zone.trusted, c.cfg.trusted)
             /\ (c.ext = 3 /\ c.cfg.settings # <<>>) <=> (got.settings # <<>> /\ got.settings # <<"trusted", 1>>)
WholeSent(c, sent) == WholeGot(c, sent, Taken(c, Request(c, FALSE, 0), NoServed, sent))
WholeRight(c) == WholeSent(c, send_axfr_response(c.zone, c.cfg, <<>>, Request(c, FALSE, 0)))

(***************************************************************************)
(* An incremental transfer leaves a secondary with the records it would    *)
(* have after a whole one (compute_ixfr_diff(), send_axfr_response(),      *)
(* parse_xfr_packet()), whichever of its versions it starts from, with two *)
(* exceptions.  A standard secondary keeps a record that only some clients *)
(* saw when it is deleted with the last such record of the zone: the       *)
(* differences are not sent for a zone that has such records, but the test *)
(* looks at the current version alone.  And the SOA that comes after a     *)
(* deleted record with a tag gets its tag: no marker is written for it.    *)
(* (The definitions of the configuration's tags travel with a whole zone   *)
(* only.)                                                                  *)
(***************************************************************************)
Untagged(recs) == [i \in DOMAIN recs |-> IF recs[i].type = "SOA" THEN Plain(recs[i]) ELSE recs[i]]
History(c) ==
  FoldLeft(LAMBDA h, k : compute_ixfr_diff(h, c.depth, c.versions[k], c.versions[k + 1]), <<>>,
           [k \in 1 .. Len(c.versions) - 1 |-> k])
Serial(c) == c.versions[c.from].soas[1].data
\* The secondary that had version c.from asks for the changes (answer) and has the zone after; one
\* that asks for the whole zone has it whole.
ChangesGot(c, first, answer, after, whole) ==
  LET v == c.versions
      n == Len(v)
      serial == Serial(c)
      lostDeletion == \E k \in c.from .. n - 1 : \E rr \in Range(v[k].rrs) \ Range(v[k + 1].rrs) : Restricted(rr)
  IN  CASE first.st # "finished" \/ answer.kind \notin {"ixfr", "axfr", "poll"} -> TRUE
        [] answer.kind = "poll" ->
             /\ ~serial_is_newer(v[n].soas[1].data, serial)
             /\ after.st = IF serial = v[n].soas[1].data THEN "finished" ELSE "refused"
        [] answer.kind = "axfr" -> after.st = "finished" /\ after.recs = whole.recs
        [] answer.kind = "ixfr" ->
             /\ after.st = "finished"
             /\ c.ext # 0 \/ ~lostDeletion => SameRecords(Untagged(after.recs), Untagged(whole.recs))
ChangesSent(c, first, answer, whole) ==
  ChangesGot(c, first, answer, Taken(c, Request(c, TRUE, Serial(c)), Served(first), answer), whole)
\* sent: the whole zone before and after, and the changes
ChangesRead(c, sent) ==
  LET Whole(k) == Taken(c, Request(c, FALSE, 0), NoServed, sent[k])
  IN  ChangesSent(c, Whole(1), sent[3], Whole(2))
ChangesOf(c, history) ==
  ChangesRead(c, [k \in 1 .. 3 |->
    send_axfr_response(c.versions[IF k = 1 THEN c.from ELSE Len(c.versions)], c.cfg, history,
                       IF k = 3 THEN Request(c, TRUE, Serial(c)) ELSE Request(c, FALSE, 0))])
ChangesRight(c) == ChangesOf(c, History(c))

-----------------------------------------------------------------------------
XfrSeeds == [soas : SoaSets(2), rrs : Contents]
\* Only a standard transfer depends on who asks
Requesters == ({0} \X Views) \cup ({2, 3} \X {NoView})
Wholes(seed) ==
  {[what |-> "whole", ext |-> q[1], view |-> q[2], room |-> r, zone |-> z, cfg |-> c] :
     q \in Requesters, r \in {1, 20},
     z \in {Zone(seed.soas, seed.rrs, d, t, y) : d \in DefSets, t \in BOOLEAN, y \in BOOLEAN},
     c \in {Cfg(d, t, <<"ttl">>) : d \in {<<>>, <<Def("loc", "x", 6), Def("loc", "z", 7), Def("ecs", "e", 8)>>},
                                  t \in BOOLEAN} \cup {Cfg(<<>>, TRUE, <<>>)}}
Step(soas, rrs) == Zone(soas, rrs, <<>>, FALSE, FALSE)
Changes(seed) ==
  {[what |-> "changes", ext |-> q[1], view |-> q[2], room |-> 2, depth |-> d, from |-> f,
    cfg |-> Cfg(<<Def("loc", "x", 6)>>, FALSE, <<"ttl">>),
    versions |-> <<Step(<<Soa(1, "")>>, b1), Step(seed.soas, seed.rrs), Step(<<Soa(n, "")>>, b3)>>] :
     q \in Requesters, d \in {1, 2}, f \in 1 .. 3, n \in {3, 7}, b1 \in Contents, b3 \in Contents}
XfrInputs(seed) == Wholes(seed) \cup Changes(seed)
XfrRight(c) == IF c.what = "whole" THEN WholeRight(c) ELSE ChangesRight(c)
=============================================================================
