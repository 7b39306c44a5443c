----------------------------- MODULE ZoneAnswer -----------------------------
(***************************************************************************)
(* How an authoritative answer is put together from the images of the      *)
(* zones of a view: resolve_name() and what it calls in                    *)
(* dns_query_engine.c.                                                     *)
(*                                                                         *)
(* A name is the sequence of its labels from the root down, so that "at or *)
(* below" is "has as prefix".  A record is [n, t, d, tag]: owner, type,    *)
(* the name or type its data holds, and the ECS tag that restricts it ("": *)
(* none).  A zone is [apex, rrs, denial, n3, allow, kind]; rrs holds the   *)
(* RRSIG and NSEC records too (d = the type covered, the next name).  The  *)
(* NSEC3 chain is kept apart: n3, a set of [h, next].  allow says whether  *)
(* the client may query the zone, kind is "auth", "empty" (no data yet),   *)
(* "forward" or "away" (in the directory, not in memory).                  *)
(*                                                                         *)
(* A message m holds the sets of RRs of its sections (the NSEC3 RRs of the *)
(* Authority section, each with its RRSIG, in n3), n = the RRs written,    *)
(* cap = how many fit (every RR has the size 1), the flags, and w = what   *)
(* the last helper returned (-1: it did not fit).                          *)
(***************************************************************************)
EXTENDS Integers, FiniteSets, SequencesExt

MaxChain == 4      \* CNAMEs followed (16 in the code)

\* The labels in canonical order.
Labels == <<"*", "a", "b", "c", "x", "y">>
Rank == [l \in Range(Labels) |-> CHOOSE i \in 1 .. Len(Labels) : Labels[i] = l]

AtOrBelow(n, a) == IsPrefix(a, n)
Below(n, a) == AtOrBelow(n, a) /\ n # a
Parent(n) == SubSeq(n, 1, Len(n) - 1)
Above(n) == {SubSeq(n, 1, k) : k \in 1 .. Len(n) - 1}
Longest(S) == CHOOSE n \in S : \A o \in S : Len(o) <= Len(n)

\* compare_canonical_name() < 0
Before(m, n) ==
  \/ Below(n, m)
  \/ \E k \in 1 .. Len(m) :
       /\ k <= Len(n)
       /\ SubSeq(m, 1, k - 1) = SubSeq(n, 1, k - 1)
       /\ Rank[m[k]] < Rank[n[k]]
Lowest(S) == CHOOSE n \in S : \A o \in S : o = n \/ Before(n, o)
Highest(S) == CHOOSE n \in S : \A o \in S : o = n \/ Before(o, n)

\* The hash of an NSEC3 name: some injective function whose order is not the canonical one.
Hash(n) ==
  LET Digits[k \in 0 .. Len(n)] == IF k = 0 THEN 0 ELSE 7 * Digits[k - 1] + Rank[n[k]]
  IN  (1009 * Digits[Len(n)]) % 16811

-----------------------------------------------------------------------------
(* Records and RRsets *)

NotServed == {"LUA"}   \* rr_not_served(); the NSEC3 chain is no record here
Valid(r, tag) == r.t \notin NotServed /\ (r.tag = "" \/ r.tag = tag)
At(z, n) == {r \in z.rrs : r.n = n}
RRset(z, n, t, tag) == {r \in At(z, n) : r.t = t /\ Valid(r, tag)}
Owners(z) == {r.n : r \in z.rrs}
As(S, owner) == {[r EXCEPT !.n = owner] : r \in S}
Sigs(z, n, t) == {r \in At(z, n) : r.t = "RRSIG" /\ r.d = <<t>>}

Room(m) == m.cap - m.n
Put(m, sec, S) == [m EXCEPT ![sec] = @ \cup S, !.n = @ + Cardinality(S), !.w = Cardinality(S)]
Fails(m) == [m EXCEPT !.w = -1]
ServFail(m) == [m EXCEPT !.rcode = "SERVFAIL", !.an = {}, !.ns = {}, !.n3 = {}, !.ar = {}, !.n = 0, !.done = TRUE]
Truncated(m) == [m EXCEPT !.tc = TRUE, !.done = TRUE]

\* The RRset of a name that has variants for client subnets makes the answer depend on them.
note_ecs_variant(m, S, t) ==
  [m EXCEPT !.scope = @ \/ \E r \in S : r.tag # "" /\ (t = "ANY" \/ r.t \in {t, "CNAME", "DNAME"})]

emit_rrset(z, n, owner, t, tag, mode, m, sec) ==
  LET S == RRset(z, n, t, tag)
      G == IF mode = "none" \/ t = "RRSIG" THEN {} ELSE Sigs(z, n, t)
      whole == Put(m, sec, As(S, owner))
  IN  IF Cardinality(S) > Room(m) THEN Fails(m)
      ELSE IF S = {} THEN whole
      ELSE IF Cardinality(G) <= Room(whole)
           THEN [Put(whole, sec, As(G, owner)) EXCEPT !.w = Cardinality(S)]
      ELSE IF mode = "required" THEN Fails(whole) ELSE whole

\* One RR with the signatures of its RRset, as a CNAME, a DNAME or an SOA is written.
put_signed(z, r, owner, do, m, sec) ==
  LET G == IF do THEN Sigs(z, r.n, r.t) ELSE {}
      one == Put(m, sec, As({r}, owner))
  IN  IF Room(m) < 1 THEN Truncated(m)
      ELSE IF Cardinality(G) > Room(one) THEN Truncated(one)
      ELSE Put(one, sec, As(G, owner))

-----------------------------------------------------------------------------
(* What exists *)

name_exists_in_zone(z, n, tag) ==
  \/ \E r \in At(z, n) : Valid(r, tag)
  \/ LET after == {o \in Owners(z) : Before(n, o)}
     IN  after # {} /\ Below(Lowest(after), n)

find_closest_encloser(z, n, tag) ==
  Longest({z.apex} \cup {a \in Above(n) : Below(a, z.apex) /\ name_exists_in_zone(z, a, tag)})

NextCloser(n, ce) == SubSeq(n, 1, Len(ce) + 1)

name_is_authoritative(z, n) ==
  /\ AtOrBelow(n, z.apex)
  /\ \A a \in Above(n) \cup {n} : Below(a, z.apex) => \A r \in At(z, a) : r.t # "NS"

-----------------------------------------------------------------------------
(* Proofs of absence *)

nsec_covers_name(r, n) ==
  IF Before(r.n, r.d) THEN ~Before(n, r.n) /\ Before(n, r.d)
  ELSE ~Before(n, r.n) \/ Before(n, r.d)

find_covering_nsec(z, n) ==
  LET all == {r \in z.rrs : r.t = "NSEC"}
      floor == {r.n : r \in {s \in all : ~Before(n, s.n)}}
      at == IF floor # {} THEN Highest(floor) ELSE Highest({r.n : r \in all})
  IN  IF all = {} THEN {} ELSE {r \in all : r.n = at /\ nsec_covers_name(r, n)}

nsec3_covers_hash(c, h) ==
  IF c.h < c.next THEN c.h < h /\ h < c.next
  ELSE IF c.h > c.next THEN c.h < h \/ h < c.next
  ELSE h # c.h
find_matching_nsec3(z, n) == {c \in z.n3 : c.h = Hash(n)}
find_covering_nsec3(z, n) ==
  LET lower == {c \in z.n3 : c.h < Hash(n)}
      pool == IF lower # {} THEN lower ELSE z.n3
  IN  {c \in pool : (\A o \in pool : o.h <= c.h) /\ nsec3_covers_hash(c, Hash(n))}

\* A denial record (S has one element or none) with its signature, written once; w = -1 when
\* they do not fit.
attach_denial_record(z, S, m) ==
  LET nsec == {r \in S : "t" \in DOMAIN r} \ m.ns
      n3 == {c \in S : "h" \in DOMAIN c} \ m.n3
      sigs == UNION {Sigs(z, r.n, "NSEC") : r \in nsec}
      size == Cardinality(nsec) + Cardinality(n3)
      one == [m EXCEPT !.ns = @ \cup nsec, !.n3 = @ \cup n3, !.n = @ + size]
  IN  IF size > Room(m) THEN Fails(m)
      ELSE IF Cardinality(sigs) + Cardinality(n3) > Room(one) THEN Fails(one)
      ELSE [Put(one, "ns", sigs) EXCEPT !.n = @ + Cardinality(n3)]

\* Several records in the order the code adds them; the first that does not fit ends it.
RECURSIVE AttachEach(_, _, _)
AttachEach(z, sets, m) ==
  IF sets = <<>> \/ m.w < 0 THEN m ELSE AttachEach(z, Tail(sets), attach_denial_record(z, Head(sets), m))
Attach(z, sets, m) == AttachEach(z, sets, [m EXCEPT !.w = 0])

Wildcard(n) == Append(n, "*")

\* A plausible slip: the wildcard that could have matched is not denied.
DenyNsecNoWildcard(z, q, tag, found, wc, matched, ent) ==
  IF ~found THEN <<find_covering_nsec(z, q)>> ELSE <<>>

DenyNsec(z, q, tag, found, wc, matched, ent) ==
  LET cover == find_covering_nsec(z, q)
      ce == find_closest_encloser(z, q, tag)
      own == RRset(z, q, "NSEC", tag)
  IN  IF found /\ wc THEN
        <<cover>> \o IF matched THEN <<>> ELSE <<RRset(z, Wildcard(ce), "NSEC", tag)>>
      ELSE IF found /\ ~matched THEN
        IF own # {} THEN <<own>> ELSE IF ent THEN <<cover>> ELSE <<>>
      ELSE IF ~found THEN
        <<cover>> \o IF \E r \in cover : nsec_covers_name(r, Wildcard(ce)) THEN <<>>
                     ELSE <<find_covering_nsec(z, Wildcard(ce))>>
      ELSE <<>>

DenyNsec3(z, q, tag, found, wc, matched) ==
  LET ce == find_closest_encloser(z, q, tag)
      encloser == <<find_matching_nsec3(z, ce), find_covering_nsec3(z, NextCloser(q, ce))>>
  IN  IF found /\ wc THEN
        encloser \o IF matched THEN <<>> ELSE <<find_matching_nsec3(z, Wildcard(ce))>>
      ELSE IF found /\ ~matched THEN <<find_matching_nsec3(z, q)>>
      ELSE IF ~found THEN encloser \o <<find_covering_nsec3(z, Wildcard(ce))>>
      ELSE <<>>

\* The proof that a wildcard CNAME met on the way was not bypassed (first_wc_qname).
DenyExpanded(z, q, tag) ==
  IF z.denial = "nsec3" THEN
    LET ce == find_closest_encloser(z, q, tag)
    IN  <<find_matching_nsec3(z, ce), find_covering_nsec3(z, NextCloser(q, ce))>>
  ELSE <<find_covering_nsec(z, q)>>

-----------------------------------------------------------------------------
(* Glue *)

\* The zone of the view that is closest to a name; of a DS question, the zone above the cut.
find_zone_for_query(view, n, t) ==
  LET all == {z \in view : AtOrBelow(n, z.apex) /\ ~(t = "DS" /\ n = z.apex)}
      own == {z \in view : AtOrBelow(n, z.apex)}
      best == IF all # {} THEN all ELSE own
  IN  {z \in best : \A o \in best : Len(o.apex) <= Len(z.apex)}

append_additional_from_zone(z, target, do, m) ==
  LET mode == IF do /\ name_is_authoritative(z, target) THEN "optional" ELSE "none"
      Sum(w, b) == IF b.w < 0 THEN b ELSE [b EXCEPT !.w = w + @]
      Second(a) == IF a.w < 0 THEN a ELSE Sum(a.w, emit_rrset(z, target, target, "AAAA", "", mode, a, "ar"))
  IN  Second(emit_rrset(z, target, target, "A", "", mode, m, "ar"))

SiblingGlue(c, sib, target, m) ==
  LET s == CHOOSE s \in sib : TRUE
  IN  IF ~s.allow \/ s.kind # "auth" \/ RRset(s, s.apex, "SOA", "") = {} THEN [m EXCEPT !.w = 0]
      ELSE append_additional_from_zone(s, target, c.do, m)

append_glue_records(c, z, target, m) ==
  LET addr == RRset(z, target, "A", "") \cup RRset(z, target, "AAAA", "")
      outside == ~AtOrBelow(target, z.apex)
      OrSibling(sib, local) ==
        IF local.w # 0 \/ c.policy # "yes" \/ sib = {} THEN local
        ELSE SiblingGlue(c, sib, target, [m EXCEPT !.sibling = TRUE])
  IN  IF c.policy = "no" \/ (c.policy = "in-domain" /\ outside) THEN [m EXCEPT !.w = 0]
      ELSE IF ~c.do /\ addr # {}   \* the prelinked glue, all of it or nothing
        THEN IF Cardinality(addr) > Room(m) THEN Fails(m) ELSE Put(m, "ar", addr)
      ELSE OrSibling({s \in find_zone_for_query(c.view, target, "A") : s # z},
                     append_additional_from_zone(z, target, c.do, m))

-----------------------------------------------------------------------------
(* Referrals *)

Cuts(z, q, t) ==
  {n \in Above(q) \cup {q} : Below(n, z.apex) /\ RRset(z, n, "NS", "") # {} /\ ~(t = "DS" /\ n = q)}

\* The DS RRset, or the proof that there is none.
ReferralDs(c, z, n, m) ==
  LET ds == emit_rrset(z, n, n, "DS", "", "required", m, "ns")
      own == RRset(z, n, "NSEC", c.tag)
      proof == IF z.denial = "nsec3" THEN
                 IF find_matching_nsec3(z, n) # {} THEN <<find_matching_nsec3(z, n)>>
                 ELSE <<find_covering_nsec3(z, n),
                        find_matching_nsec3(z, find_closest_encloser(z, n, c.tag))>>
               ELSE <<IF own # {} THEN own ELSE find_covering_nsec(z, n)>>
  IN  IF ~c.do THEN m ELSE IF ds.w # 0 THEN ds ELSE Attach(z, proof, m)

\* The addresses of the name servers: those inside the delegated zone must all be there.
RECURSIVE ReferralEach(_, _, _, _, _)
ReferralEach(c, z, n, targets, m) ==
  LET inside == AtOrBelow(Head(targets), n)
      Given(g) == IF g.w >= 0 THEN g ELSE IF inside THEN Truncated(g) ELSE [g EXCEPT !.full = TRUE]
  IN  IF targets = <<>> \/ m.done THEN m
      ELSE ReferralEach(c, z, n, Tail(targets),
             IF m.full /\ ~inside THEN m ELSE Given(append_glue_records(c, z, Head(targets), m)))
ReferralGlue(c, z, n, m) ==
  [ReferralEach(c, z, n, SetToSeq({r.d : r \in {s \in At(z, n) : s.t = "NS"}}), [m EXCEPT !.done = FALSE])
   EXCEPT !.done = TRUE]

ReferralTail(c, z, n, m) == IF m.w < 0 THEN Truncated(m) ELSE ReferralGlue(c, z, n, m)
ReferralTo(c, z, n, m) == IF m.w < 0 THEN Truncated(m) ELSE ReferralTail(c, z, n, ReferralDs(c, z, n, m))
find_delegation(c, z, q, m) ==
  LET n == Longest(Cuts(z, q, c.t))
  IN  ReferralTo(c, z, n, [emit_rrset(z, n, n, "NS", "", "none", m, "ns") EXCEPT !.aa = FALSE])

-----------------------------------------------------------------------------
(* One zone's part of the answer *)

Targets(S) == {r.d : r \in {s \in S : s.t \in {"NS", "MX"}}}

\* The name's ALIAS is expanded, not answered.
HasAlias(c, z, n) == c.resolvers /\ \E r \in At(z, n) : r.t = "ALIAS"

\* The types at name n that answer the question.
Matched(c, z, n, q) ==
  {t \in {r.t : r \in {s \in At(z, n) : Valid(s, c.tag)}} :
     /\ IF c.t = "ANY" THEN ~(c.do /\ t = "RRSIG") ELSE t = c.t
     /\ n = q /\ HasAlias(c, z, n) => t # "ALIAS" /\ (c.t = "ANY" => t = "CNAME")}

\* sign_answers: the RRSIGs are not repeated when they are asked for themselves.
AnswerMode(c) == IF c.do /\ "RRSIG" \notin {c.t} \cup Range(c.more) THEN "required" ELSE "none"

\* An NS question always gets the full authority and additional sections.
MinimalMode(c) == IF c.t = "NS" THEN "no" ELSE c.minimal

RECURSIVE AnswerEach(_, _, _, _, _, _)
AnswerEach(c, z, n, q, types, m) ==
  LET Answered(t, e) ==
        IF e.w < 0 THEN Truncated(e)
        ELSE [e EXCEPT !.glue = @ \cup IF MinimalMode(c) = "yes" THEN {} ELSE Targets(RRset(z, n, t, c.tag))]
  IN  IF types = <<>> \/ m.done THEN m
      ELSE AnswerEach(c, z, n, q, Tail(types),
             Answered(Head(types), emit_rrset(z, n, q, Head(types), c.tag, AnswerMode(c), m, "an")))
AnswerTypes(c, z, n, q, types, m) == AnswerEach(c, z, n, q, SetToSeq(types), m)

\* RFC 8482: one HINFO for ANY; in a signed zone with DO the first RRset instead.
MinimalAny(c, z, n) ==
  LET seen == {r \in At(z, n) : Valid(r, c.tag)}
      signed == c.do /\ \E r \in seen : r.t = "RRSIG"
  IN  IF c.t # "ANY" \/ ~c.minimal_any \/ seen = {} \/ \E r \in seen : r.t = "CNAME" THEN "no"
      ELSE IF signed THEN "first" ELSE "hinfo"

\* The chain goes on with the name a CNAME leads to, unless it was there already.
Follow(s, m, target) ==
  IF m.done THEN [s EXCEPT !.m = m]
  ELSE IF target \in s.visited THEN [s EXCEPT !.m = [m EXCEPT !.rcode = "NOERROR", !.done = TRUE]]
  ELSE [s EXCEPT !.m = m, !.q = target, !.visited = @ \cup {target}, !.followed = TRUE, !.found = TRUE]

\* What a name's own records say (n = q), or those of the wildcard n for q.
FromName(c, s, n) ==
  LET z == s.z
      seen == {r \in At(z, n) : Valid(r, c.tag)}
      m == note_ecs_variant(s.m, At(z, n), c.t)
      cname == {r \in seen : r.t = "CNAME"}
      any == IF n = s.q THEN MinimalAny(c, z, n) ELSE "no"
      types == Matched(c, z, n, s.q)
      plain == types \ {"RRSIG"}
      pick == IF any # "first" THEN types
              ELSE IF plain = {} THEN {} ELSE {CHOOSE t \in plain : TRUE}
  IN  IF seen = {} THEN [s EXCEPT !.m = m]
      ELSE IF any = "hinfo" THEN
        [s EXCEPT !.found = TRUE, !.matched = TRUE, !.final = TRUE,
                  !.m = IF Room(m) < 1 THEN Truncated(m)
                        ELSE [Put(m, "an", {[n |-> n, t |-> "HINFO", d |-> <<>>, tag |-> ""]})
                              EXCEPT !.done = TRUE]]
      ELSE IF cname # {} /\ c.t \notin {"CNAME", "ANY"} THEN
        LET r == CHOOSE r \in cname : TRUE
        IN  Follow([s EXCEPT !.found = TRUE], put_signed(z, r, s.q, c.do, m, "an"), r.d)
      ELSE [s EXCEPT !.found = TRUE, !.matched = pick # {},
                     !.m = AnswerTypes(c, z, n, s.q, pick, m)]

\* The RRs of an ALIAS name: the addresses its target was found to have (alias_lookup()).
answer_alias(c, s) ==
  LET want == IF c.t = "ANY" THEN {"A", "AAAA"} ELSE {c.t} \cap {"A", "AAAA"}
      usable == {t \in want : c.alias[t] # "none"}
      S == {[n |-> s.q, t |-> t, d |-> <<>>, tag |-> ""] : t \in {u \in usable : c.alias[u] = "addr"}}
  IN  IF usable = {} THEN [s EXCEPT !.m = ServFail(@)]
      ELSE IF Cardinality(S) > Room(s.m) THEN [s EXCEPT !.m = Truncated(@)]
      ELSE [s EXCEPT !.m = Put(@, "an", S), !.matched = S # {}]

Expands(c, s) ==
  /\ c.t \in {"A", "AAAA", "ANY"}
  /\ s.found /\ ~s.matched /\ ~s.followed /\ ~s.m.done
  /\ HasAlias(c, s.z, s.q)

\* The closest DNAME above q, and the name it makes of q.
Dnames(c, s) == {n \in Above(s.q) : RRset(s.z, n, "DNAME", c.tag) # {}}
Synthesised(q, n, target) == target \o SubSeq(q, Len(n) + 1, Len(q))
FromDname(c, s) ==
  LET n == Longest(Dnames(c, s))
      r == CHOOSE r \in RRset(s.z, n, "DNAME", c.tag) : TRUE
      m == put_signed(s.z, r, n, c.do, note_ecs_variant(s.m, At(s.z, n), "DNAME"), "an")
      q == Synthesised(s.q, n, r.d)
      cn == [n |-> s.q, t |-> "CNAME", d |-> q, tag |-> ""]
  IN  IF m.done THEN [s EXCEPT !.m = m]
      ELSE IF Len(q) > c.maxlen THEN [s EXCEPT !.m = [m EXCEPT !.rcode = "YXDOMAIN", !.done = TRUE]]
      ELSE IF Room(m) < 1 THEN [s EXCEPT !.m = Truncated(m)]
      ELSE Follow(s, Put(m, "an", {cn}), q)

\* The wildcards looked at for q: the one below each name above q, until a name exists.
WildcardAt(c, s) ==
  LET stop(n) == (\E r \in At(s.z, Wildcard(n)) : Valid(r, c.tag))
                   \/ name_exists_in_zone(s.z, n, c.tag)
      stops == {n \in Above(s.q) : stop(n)}
  IN  IF stops = {} THEN {} ELSE {Wildcard(Longest(stops))}

FromWildcard(c, s) ==
  LET Marked(f) == [f EXCEPT !.wc = f.found,
                             !.expanded = IF f.followed /\ @ = <<>> THEN <<[q |-> s.q, z |-> s.z]>> ELSE @]
      From(w) == IF w = {} THEN s ELSE Marked(FromName(c, s, CHOOSE n \in w : TRUE))
  IN  IF name_exists_in_zone(s.z, s.q, c.tag) THEN s ELSE From(WildcardAt(c, s))

\* The further types of a question with several (MQTYPE): each is there whole or not at all.
\* The wildcard is looked at for a name that has records of its own, too.
RECURSIVE MoreEach(_, _, _, _)
MoreEach(c, s, wild, types) ==
  LET t == Head(types)
      mode == AnswerMode(c)
      owned == {"A", "AAAA"} \cap {u \in DOMAIN c.alias : c.alias[u] = "addr"}
      Included(tries, wc) ==
        IF wc.w < 0 THEN [s EXCEPT !.stop = TRUE, !.wc = @ /\ ~tries]
        ELSE [s EXCEPT !.m = [wc EXCEPT !.glue = @ \cup IF MinimalMode(c) = "yes" THEN {}
                               ELSE Targets({r \in wc.an \ s.m.an : r.t = t})],
                       !.all = @ /\ wc.w > 0, !.wc = IF tries THEN wc.w > 0 ELSE @,
                       !.included = @ \cup {t}]
      Wild(tries, ali) ==
        Included(tries, IF ~tries THEN ali
                        ELSE emit_rrset(s.z, CHOOSE n \in wild : TRUE, s.q, t, c.tag, mode, ali, "an"))
      Aliased(ali) == Wild(ali.w = 0 /\ wild # {}, ali)
      Owned(own) ==
        Aliased(IF own.w # 0 \/ ~HasAlias(c, s.z, s.q) \/ t \notin owned THEN own
                ELSE IF Room(own) < 1 THEN Fails(own)
                ELSE Put(own, "an", {[n |-> s.q, t |-> t, d |-> <<>>, tag |-> ""]}))
  IN  IF types = <<>> \/ s.stop THEN s
      ELSE MoreEach(c, Owned(IF HasAlias(c, s.z, s.q) /\ t = "ALIAS" THEN [s.m EXCEPT !.w = 0]
                             ELSE emit_rrset(s.z, s.q, s.q, t, c.tag, mode, s.m, "an")), wild, Tail(types))
MoreTypes(c, s) == MoreEach(c, s, WildcardAt(c, s), c.more)

-----------------------------------------------------------------------------
(* The end of the answer *)

\* The SOA of a negative answer.
Negative(c, s) ==
  LET soa == RRset(s.z, s.z.apex, "SOA", c.tag)
      m == [s.m EXCEPT !.rcode = IF s.found THEN "NOERROR" ELSE "NXDOMAIN"]
  IN  IF s.found /\ s.matched THEN s
      ELSE IF soa = {} THEN [s EXCEPT !.m = m]
      ELSE [s EXCEPT !.m = put_signed(s.z, CHOOSE r \in soa : TRUE, s.z.apex, c.do, m, "ns")]

Absence(c, s) ==
  IF s.z.denial = "nsec3" THEN DenyNsec3(s.z, s.q, c.tag, s.found, s.wc, s.all)
  ELSE DenyNsec(s.z, s.q, c.tag, s.found, s.wc, s.all, s.ent)

\* The proof that goes with it, and the one of a wildcard CNAME before: all of it, or TC.
Denial(c, s) ==
  LET x == s.expanded
      Both(m) == IF m.w < 0 \/ x = <<>> THEN m ELSE Attach(x[1].z, DenyExpanded(x[1].z, x[1].q, c.tag), m)
      OrCut(m) == IF m.w < 0 THEN Truncated(s.m) ELSE m
  IN  IF ~c.do \/ s.m.done THEN s ELSE [s EXCEPT !.m = OrCut(Both(Attach(s.z, Absence(c, s), @)))]

\* The addresses of one name after the other; the first that do not fit end it.
RECURSIVE GlueEach(_, _, _, _)
GlueEach(c, z, targets, m) ==
  LET OrCut(g) == IF g.w < 0 THEN [g EXCEPT !.cut = TRUE] ELSE g
  IN  IF targets = <<>> \/ m.cut THEN m
      ELSE GlueEach(c, z, Tail(targets), OrCut(append_glue_records(c, z, Head(targets), m)))

\* The NS RRset of the zone, and the addresses of the names in the answer.
AuthorityAndGlue(c, s) ==
  LET z == s.z
      mode == IF c.do THEN "required" ELSE "none"
      ns == s.matched /\ MinimalMode(c) = "no" /\ c.t \notin {"NS", "ANY"}
      Authority(e) == IF e.w < 0 THEN Truncated(e) ELSE [e EXCEPT !.glue = @ \cup Targets(RRset(z, z.apex, "NS", ""))]
      Rest(m) == IF m.done \/ MinimalMode(c) = "yes" THEN m ELSE GlueEach(c, z, SetToSeq(m.glue), m)
  IN  IF s.m.done THEN s
      ELSE [s EXCEPT !.final = TRUE,
                     !.m = Rest(IF ns THEN Authority(emit_rrset(z, z.apex, z.apex, "NS", "", mode, @, "ns")) ELSE @)]

\* After a CNAME the search starts again in the zone that is closest to the new name.
SwitchZone(c, s) ==
  LET to == find_zone_for_query(c.view, s.q, c.t)
  IN  IF to = {} THEN [s EXCEPT !.m.done = TRUE]
      ELSE LET z == CHOOSE z \in to : TRUE
               hidden == RRset(z, z.apex, "SOA", c.tag) = {}
           IN  IF z.kind = "forward" THEN [s EXCEPT !.m.done = TRUE]
               ELSE IF z.kind = "away" \/ (z # s.z /\ ~z.allow)
                 THEN [s EXCEPT !.m.done = TRUE, !.m.crossed = TRUE]
               ELSE [s EXCEPT !.z = z, !.m.crossed = @ \/ z # s.z, !.m.done = z.kind = "auth" /\ hidden]

Fresh(s) == [s EXCEPT !.found = FALSE, !.matched = FALSE, !.followed = FALSE, !.wc = FALSE,
                      !.ent = FALSE, !.stop = FALSE]

\* The end of the answer: at an empty non-terminal (ent) the name exists and has nothing.
EndAnswer(c, s, ent) ==
  AuthorityAndGlue(c, Denial(c, Negative(c, [s EXCEPT !.found = @ \/ ent, !.ent = ent, !.all = @ /\ ~ent])))
EndSearch(c, s) == EndAnswer(c, s, ~s.found /\ name_exists_in_zone(s.z, s.q, c.tag))
AddTypes(c, s) == IF s.found THEN MoreTypes(c, s) ELSE s

\* What follows the search in one zone: the next zone, or the rest of the answer.
Conclude(c, s) ==
  IF s.m.done THEN s
  ELSE IF s.followed THEN SwitchZone(c, s)
  ELSE EndSearch(c, AddTypes(c, [s EXCEPT !.all = s.matched]))

Expanded(c, s) == IF Expands(c, s) THEN answer_alias(c, s) ELSE s
Synthesized(c, s) ==
  IF s.found \/ s.m.done THEN s
  ELSE IF Dnames(c, s) # {} THEN FromDname(c, s) ELSE FromWildcard(c, s)
SearchZone(c, s) ==
  IF s.z.kind = "empty" THEN [s EXCEPT !.m = ServFail(@)]
  ELSE IF Cuts(s.z, s.q, c.t) # {} THEN [s EXCEPT !.m = find_delegation(c, s.z, s.q, @), !.final = TRUE]
  ELSE Conclude(c, Synthesized(c, Expanded(c, FromName(c, s, s.q))))
OneZone(c, s) == SearchZone(c, Fresh(s))

Message(cap) ==
  [an |-> {}, ns |-> {}, n3 |-> {}, ar |-> {}, n |-> 0, cap |-> cap, w |-> 0, aa |-> TRUE, tc |-> FALSE,
   rcode |-> "NOERROR", done |-> FALSE, full |-> FALSE, cut |-> FALSE, scope |-> FALSE,
   sibling |-> FALSE, crossed |-> FALSE, glue |-> {}]
Start(c, q, z, cap) ==
  [m |-> Message(cap), q |-> q, z |-> z, visited |-> {q}, found |-> FALSE, matched |-> FALSE,
   followed |-> FALSE, wc |-> FALSE, ent |-> FALSE, all |-> FALSE, stop |-> FALSE, final |-> FALSE,
   included |-> {}, expanded |-> <<>>]

\* resolve_name(): the whole answer; a negative answer or a referral has no ECS scope.
RECURSIVE Chase(_, _, _)
Chase(c, s, k) ==   \* at k = 0 the chain is longer than what is followed: its CNAMEs are the answer
  IF k = 0 \/ s.m.done \/ s.final THEN s ELSE Chase(c, OneZone(c, s), k - 1)
resolve_name(c, q, z, cap) ==
  LET Positive(m) == [m EXCEPT !.scope = @ /\ m.rcode = "NOERROR" /\ m.an # {}]
  IN  Positive(Chase(c, Start(c, q, z, cap), MaxChain).m)

-----------------------------------------------------------------------------
(***************************************************************************)
(* What an answer of ZoneAnswer has to be, said without the code's way of  *)
(* finding it: the algorithm of RFC 1034 4.3.2 with the closest encloser   *)
(* of RFC 4592, what a validator can conclude from the NSEC and NSEC3      *)
(* records (RFC 4035 5.4, RFC 5155 8), and RFC 2181 9 on truncation.  The  *)
(* zones are small, signed or not, and complete as a signer leaves them.   *)
(***************************************************************************)

RR(n, t, d) == [n |-> n, t |-> t, d |-> d, tag |-> ""]
X == <<"x">>
Y == <<"y">>
XA == <<"x", "a">>
XB == <<"x", "b">>
XC == <<"x", "c">>
XAB == <<"x", "a", "b">>

ApexRRs == {RR(X, "SOA", X), RR(X, "NS", XB)}
Optional ==
  {RR(XA, "A", <<>>), RR(XA, "MX", XB), RR(XA, "CNAME", XB), RR(XA, "CNAME", <<"y", "a">>),
   RR(XA, "NS", XAB), RR(XA, "NS", <<"y", "a">>), RR(XA, "DS", <<>>), RR(XA, "DNAME", XC),
   RR(XA, "ALIAS", <<"y", "a">>), RR(XAB, "A", <<>>), RR(XAB, "NS", XB), RR(Wildcard(X), "A", <<>>),
   RR(Wildcard(X), "CNAME", XB), RR(Wildcard(XA), "TXT", <<>>), RR(XB, "A", <<>>),
   [n |-> XB, t |-> "A", d |-> <<>>, tag |-> "e"], RR(XB, "LUA", <<>>),
   RR(<<"x", "c", "b">>, "CNAME", XA)}

\* The owners of cuts, and what lies below them.
CutsOf(rrs) == {r.n : r \in {s \in rrs : s.t = "NS" /\ s.n # X}}
Occluded(rrs, n) == \E c \in CutsOf(rrs) : Below(n, c)

WellFormed(rrs) ==
  /\ \A r, s \in rrs : r.t = "CNAME" /\ s.n = r.n => s = r
  /\ \A r, s \in rrs : r.t = "DNAME" => ~Below(s.n, r.n) /\ (s.n = r.n => s.t # "NS")
  /\ \A r \in rrs : r.t = "DS" => r.n \in CutsOf(rrs)
  /\ \A r \in rrs : r.n \in CutsOf(rrs) => r.t \in {"NS", "DS"}
  /\ \A r \in rrs : Occluded(rrs, r.n) => r.t = "A"

\* A signer's work (external): RRSIGs, and the NSEC or NSEC3 chain.
SignedNames(rrs) == {r.n : r \in {s \in rrs : ~Occluded(rrs, s.n)}}
Sets(rrs) ==
  {<<r.n, r.t>> : r \in {s \in rrs : s.n \in SignedNames(rrs) /\ (s.n \in CutsOf(rrs) => s.t # "NS")}}
NextIn(S, n) == LET after == {o \in S : Before(n, o)} IN IF after = {} THEN Lowest(S) ELSE Lowest(after)
\* With opt-out an unsigned delegation is not in the chain, but the names above it are.
Chained(rrs, optout) ==
  {n \in SignedNames(rrs) : ~(optout /\ n \in CutsOf(rrs) /\ \A r \in rrs : r.n = n => r.t # "DS")}
    \cup {a \in UNION {Above(n) : n \in SignedNames(rrs)} : Below(a, X)}
Sign(rrs, denial) ==
  LET nsec == {RR(n, "NSEC", NextIn(SignedNames(rrs), n)) : n \in SignedNames(rrs)}
      all == IF denial = "nsec" THEN rrs \cup nsec ELSE rrs
      H == {Hash(n) : n \in Chained(rrs, denial = "optout")}
      next(h) == LET up == {g \in H : g > h} IN
                 CHOOSE g \in IF up = {} THEN H ELSE up : \A k \in IF up = {} THEN H ELSE up : g <= k
  IN  [rrs |-> IF denial = "none" THEN rrs ELSE all \cup {RR(s[1], "RRSIG", <<s[2]>>) : s \in Sets(all)},
       n3 |-> IF denial \in {"nsec3", "optout"} THEN {[h |-> h, next |-> next(h)] : h \in H} ELSE {}]
Zone(rrs, denial) ==
  LET s == Sign(ApexRRs \cup rrs, denial)
  IN  [apex |-> X, rrs |-> s.rrs, n3 |-> s.n3, allow |-> TRUE, kind |-> "auth",
       denial |-> IF denial = "optout" THEN "nsec3" ELSE denial]
Other(allow, kind) ==
  [apex |-> Y, n3 |-> {}, denial |-> "none", allow |-> allow, kind |-> kind,
   rrs |-> {RR(Y, "SOA", Y), RR(<<"y", "a">>, "A", <<>>)}]

-----------------------------------------------------------------------------
(* The reference *)

\* RFC 4592: a name exists when it or a name below it owns a record.
Exists(z, n) == \E r \in z.rrs : r.t \notin NotServed /\ AtOrBelow(r.n, n)
Encloser(z, n) == Longest({a \in Above(n) : Exists(z, a)})
Data(z, n, t) == {r \in z.rrs : r.n = n /\ r.t = t}

\* Where the search for q ends in zone z: at a cut, with data, at a CNAME, without the type or the name.
Kind(z, q, t) ==
  LET cut == Cuts(z, q, t)
      src == IF \E r \in At(z, q) : r.t \notin NotServed THEN q
             ELSE IF Exists(z, q) THEN q ELSE Wildcard(Encloser(z, q))
      dname == {n \in Above(q) : Data(z, n, "DNAME") # {}}
  IN  IF cut # {} THEN [k |-> "referral", n |-> Longest(cut)]
      ELSE IF dname # {} THEN
        [k |-> "chain", n |-> Synthesised(q, Longest(dname), (CHOOSE r \in Data(z, Longest(dname), "DNAME") : TRUE).d)]
      ELSE IF ~Exists(z, src) THEN [k |-> "nxdomain", n |-> q]
      ELSE IF Data(z, src, "CNAME") # {} /\ t \notin {"CNAME", "ANY"}
        THEN [k |-> "chain", n |-> (CHOOSE r \in Data(z, src, "CNAME") : TRUE).d]
      ELSE IF Data(z, src, t) # {} THEN [k |-> "data", n |-> src] ELSE [k |-> "nodata", n |-> src]

\* The names the answer goes through in its zone, and how it ends.
Walk(z, q, t) ==
  LET At_[i \in 1 .. MaxChain] ==
        IF i = 1 THEN [k |-> "chain", n |-> q]
        ELSE IF At_[i - 1].k # "chain" \/ ~AtOrBelow(At_[i - 1].n, z.apex) THEN At_[i - 1]
        ELSE Kind(z, At_[i - 1].n, t)
      ends == {i \in 1 .. MaxChain : At_[i].k # "chain"}
      e == CHOOSE i \in ends : \A j \in ends : i <= j
  IN  IF ends = {} THEN [k |-> "chain", q |-> q, n |-> q]
      ELSE [k |-> At_[e].k, q |-> At_[e - 1].n, n |-> At_[e].n]

\* What a validator concludes from the records of the Authority section.
Nsecs(m) == {r \in m.ns : r.t = "NSEC"}
Covers(r, n) ==
  IF Before(r.n, r.d) THEN Before(r.n, n) /\ Before(n, r.d) ELSE Before(r.n, n) \/ Before(n, r.d)
CommonEncloser(r, q) ==
  Longest({a \in Above(q) : AtOrBelow(r.n, a) \/ AtOrBelow(r.d, a)})
NsecProves(z, m, w, t) ==
  LET covering == {r \in Nsecs(m) : Covers(r, w.q)}
      lacks(n, type) == \E r \in Nsecs(m) : r.n = n /\ Data(z, n, type) = {} /\ Data(z, n, "CNAME") = {}
  IN  CASE w.k = "nxdomain" -> \E r \in covering : ~Below(r.d, w.q)
                                 /\ \E s \in Nsecs(m) : Covers(s, Wildcard(CommonEncloser(r, w.q)))
      [] w.k = "nodata" /\ w.n = w.q -> lacks(w.q, t) \/ \E r \in covering : Below(r.d, w.q)
      [] w.k = "nodata" -> \E r \in covering : lacks(Wildcard(CommonEncloser(r, w.q)), t)
      [] w.k = "data" /\ w.n # w.q -> covering # {}
      [] w.k = "referral" -> Data(z, w.n, "DS") # {} \/ lacks(w.n, "DS")
      [] OTHER -> TRUE
N3Matches(m, n) == \E c \in m.n3 : c.h = Hash(n)
N3Covers(m, n) == \E c \in m.n3 : IF c.h < c.next THEN c.h < Hash(n) /\ Hash(n) < c.next
                                    ELSE c.h # Hash(n) /\ (c.h < Hash(n) \/ Hash(n) < c.next)
EncloserProof(m, q, ce) == N3Matches(m, ce) /\ N3Covers(m, NextCloser(q, ce))
N3Proves(z, m, w, t) ==
  CASE w.k = "nxdomain" -> \E ce \in Above(w.q) : EncloserProof(m, w.q, ce) /\ N3Covers(m, Wildcard(ce))
    [] w.k = "nodata" /\ w.n = w.q -> N3Matches(m, w.q)
    [] w.k = "nodata" -> \E ce \in Above(w.q) : EncloserProof(m, w.q, ce) /\ N3Matches(m, Wildcard(ce))
    [] w.k = "data" /\ w.n # w.q -> N3Covers(m, NextCloser(w.q, Parent(w.n)))
    [] w.k = "referral" -> \/ Data(z, w.n, "DS") # {} \/ N3Matches(m, w.n)
                           \/ \E ce \in Above(w.n) : EncloserProof(m, w.n, ce)
    [] OTHER -> TRUE

-----------------------------------------------------------------------------
(* A question: i = [rrs, denial, q, t, more, do, tag, allow, kind, minimal, any, alias] *)

ZoneOf(i) == Zone(i.rrs, i.denial)
Context(i, z) ==
  [view |-> {z, Other(i.allow, i.kind)}, t |-> i.t, more |-> i.more, do |-> i.do, tag |-> i.tag,
   minimal |-> i.minimal, minimal_any |-> i.any, policy |-> "yes", resolvers |-> i.alias # "off",
   alias |-> [A |-> IF i.alias = "off" THEN "none" ELSE i.alias, AAAA |-> "none"], maxlen |-> 4]
Everything == 40

Seen(i, z) == [z EXCEPT !.rrs = {r \in @ : Valid(r, i.tag)}]
IsAlias(i, z) == i.alias # "off" /\ Data(z, i.q, "ALIAS") # {} /\ i.t = "A" /\ Data(z, i.q, "A") = {}
Plain(S) == {r \in S : r.t \notin {"RRSIG", "CNAME", "DNAME"}}

\* The answer is the one of the standard: its code, its authority, its data, its proofs.
Standard(i, z, m) ==
  \A w \in {Walk(z, i.q, i.t)} :
      w.k # "chain" /\ ~IsAlias(i, z) /\ i.more = <<>> /\ i.t # "ANY" =>
        /\ m.rcode = IF w.k = "nxdomain" THEN "NXDOMAIN" ELSE "NOERROR"
        /\ m.aa = (w.k # "referral")
        /\ Plain(m.an) = IF w.k = "data" THEN As(Data(z, w.n, i.t), w.q) ELSE {}
        /\ w.k = "referral" => Data(z, w.n, "NS") \subseteq m.ns
        /\ w.k \in {"nodata", "nxdomain"} => \E r \in m.ns : r.t = "SOA"
        /\ i.do /\ i.denial = "nsec" => NsecProves(z, m, w, i.t)
        /\ i.do /\ i.denial \in {"nsec3", "optout"} => N3Proves(z, m, w, i.t)

\* An ALIAS name gives the addresses of its target, or says that it cannot.
AliasAnswered(i, z, m) ==
  IsAlias(i, z) /\ Cuts(z, i.q, i.t) = {} /\ i.more = <<>> =>
    IF i.alias = "none" THEN m.rcode = "SERVFAIL" /\ m.n = 0
    ELSE RR(i.q, "A", <<>>) \in m.an

\* A name server inside the delegated zone has its address in the referral.
GlueComplete(z, m) ==
  \A r \in m.ns : r.t = "NS" /\ r.n # X /\ AtOrBelow(r.d, r.n) => Data(z, r.d, "A") \subseteq m.ar

\* What does not fit is left out as whole RRsets, and TC says so unless it is only additional.
Whole(part, all) ==
  \A r \in part \ {s \in all : s.t = "RRSIG"} :
    {s \in all : s.n = r.n /\ s.t = r.t} \subseteq part
Shortened(i, c, z, full) ==
  \A cap \in 0 .. full.n :
    \A m \in {resolve_name(c, i.q, z, cap)} :
      /\ m.n <= cap
      /\ m.an \subseteq full.an /\ m.ns \subseteq full.ns /\ m.n3 \subseteq full.n3 /\ m.ar \subseteq full.ar
      /\ Whole(m.an, full.an) /\ Whole(m.ns, full.ns) /\ Whole(m.ar, full.ar)
      /\ ~m.tc /\ i.more = <<>> =>
           /\ m.an = full.an /\ m.ns = full.ns /\ m.n3 = full.n3 /\ m.rcode = full.rcode
           /\ GlueComplete(z, m)

\* Nothing of a zone the client may not query, or that is not there, is in the answer.
Permitted(i, m) ==
  (~i.allow \/ i.kind # "auth") => \A r \in m.an \cup m.ns \cup m.ar : ~AtOrBelow(r.n, Y)

\* A positive answer whose RRset has variants for subnets has a scope, and the other sections have
\* no variant.
Scoped(i, z, m) ==
  /\ \A r \in m.ns \cup m.ar : r.tag = ""
  /\ (\E r \in m.an : r.tag # "") => m.scope
  /\ (\E r \in At(z, i.q) : r.tag # "" /\ r.t = i.t) /\ Plain(m.an) # {} /\ m.rcode = "NOERROR"
       => m.scope

\* No record is written twice; each further type asked for is there as the zone has it.
Once(m) == m.n = Cardinality(m.an) + Cardinality(m.ns) + 2 * Cardinality(m.n3) + Cardinality(m.ar)
Further(i, z, m) ==
  (/\ Walk(z, i.q, i.t) = [k |-> "data", q |-> i.q, n |-> i.q]
   /\ \A r \in z.rrs : r.n # Wildcard(X))
      => \A k \in 1 .. Len(i.more) : {r \in m.an : r.t = i.more[k]} = Data(z, i.q, i.more[k])

AnswerRight(i) ==
  \A z \in {ZoneOf(i)} : \A c \in {Context(i, z)}, seen \in {Seen(i, z)} :
    \A m \in {resolve_name(c, i.q, z, Everything)} :
      /\ ~m.tc /\ Standard(i, seen, m) /\ AliasAnswered(i, seen, m) /\ GlueComplete(seen, m)
      /\ Shortened(i, c, z, m) /\ Permitted(i, m) /\ Scoped(i, z, m) /\ Once(m) /\ Further(i, seen, m)

\* The zones and the questions that are tried.
Zones == {S \in UNION {kSubset(k, Optional) : k \in 0 .. 3} :
            WellFormed(ApexRRs \cup S) /\ (Cardinality(S) = 3 => \E r \in S : r.t = "NS")}
Plainly(rrs, denial, q, t, do) ==
  [rrs |-> rrs, denial |-> denial, q |-> q, t |-> t, do |-> do, more |-> <<>>, tag |-> "", allow |-> TRUE,
   kind |-> "auth", minimal |-> "no", any |-> FALSE, alias |-> "off"]
QNames == {X, XA, XB, XC, XAB, <<"x", "a", "c">>, <<"x", "c", "b">>, <<"x", "a", "b", "c">>}
Questions(rrs) ==
  {Plainly(rrs, d, q, t, d # "none") : d \in {"none", "nsec", "nsec3", "optout"}, q \in QNames, t \in {"A", "TXT"}}
    \cup {Plainly(rrs, d, q, t, d # "none") : d \in {"none", "nsec", "nsec3"}, q \in {X, XA, XAB}, t \in {"DS", "ANY", "NS", "MX"}}
    \cup {[Plainly(rrs, d, q, "A", d # "none") EXCEPT !.more = <<"MX", "TXT">>] : d \in {"none", "nsec"}, q \in {XA, XB}}
    \cup {[Plainly(rrs, "none", q, "A", FALSE) EXCEPT !.tag = "e", !.alias = a] : q \in {XA, XB, XC}, a \in {"off", "none", "addr"}}
    \cup {[Plainly(rrs, "nsec", XA, t, do) EXCEPT !.allow = o[1], !.kind = o[2], !.any = TRUE, !.minimal = o[3]] :
             t \in {"A", "ANY"}, do \in BOOLEAN,
             o \in {<<TRUE, "auth", "yes">>, <<FALSE, "auth", "noauth">>, <<TRUE, "empty", "yes">>,
                    <<TRUE, "forward", "noauth">>, <<TRUE, "away", "no">>}}
=============================================================================
