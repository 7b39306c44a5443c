---------------------------- MODULE ResponseCache ----------------------------
(* One set of the shared response cache (dns_query_engine.c rcache_set_t): a small ring of words and an index of it, written by one worker at a time and read *)
(* without a lock.  The stores of a writer are relaxed: between its two updates of seq they become visible in any order.                                    *)
EXTENDS Integers, Sequences, FiniteSets

CONSTANTS
  RcWorkers,
  Bodies,        \* [tag, ver, words]: responses; the tag stands for the hash of name, type, class, generations, and the generation beside it
  RcEntries, RcWords,
  MaxStores, MaxLookups

VARIABLES rc_seq, rc_head, rc_next, rc_ent, rc_data, rc_worker, rc_ops
rcvars == <<rc_seq, rc_head, rc_next, rc_ent, rc_data, rc_worker, rc_ops>>

Free == "free"
RcIdle == [at |-> "idle"]
NoBody == [tag |-> Free, ver |-> 0, words |-> 0]
Word(b, i) == [tag |-> b.tag, ver |-> b.ver, i |-> i]

\* rcache_store() refuses a body of no octets and one of more than RCACHE_BODY_MAX; rcache_tag() is never 0.
ASSUME RcAssumption ==
  /\ RcEntries \in Nat \ {0} /\ RcWords \in Nat \ {0}
  /\ \A b \in Bodies : b.tag # Free /\ b.words \in 1 .. RcWords

RcInit ==
  /\ rc_seq = 0 /\ rc_head = 0 /\ rc_next = 0
  /\ rc_ent = [i \in 0 .. (RcEntries - 1) |-> [tag |-> Free, words |-> 0, off |-> 0, counts |-> NoBody]]
  /\ rc_data = [i \in 0 .. (RcWords - 1) |-> Word(NoBody, 0)]
  /\ rc_worker = [w \in RcWorkers |-> RcIdle]
  /\ rc_ops = [stores |-> 0, lookups |-> 0]

(* ---- rcache_store() ---- *)

\* Where the body goes: after the last one, or at the beginning when it does not fit there.
Offset(b) == IF rc_head + b.words > RcWords THEN 0 ELSE rc_head

\* Entries of the same key and entries whose words are overwritten are dropped first.
Cleared(b) ==
  {i \in DOMAIN rc_ent : /\ rc_ent[i].tag # Free
                         /\ \/ rc_ent[i].tag = b.tag
                            \/ rc_ent[i].off < Offset(b) + b.words /\ Offset(b) < rc_ent[i].off + rc_ent[i].words}

Unused(b) == {i \in DOMAIN rc_ent : rc_ent[i].tag = Free} \union Cleared(b)
Slot(b) == IF Unused(b) = {} THEN rc_next % RcEntries ELSE CHOOSE i \in Unused(b) : \A j \in Unused(b) : i <= j

\* Everything the writer stores between its two updates of seq.
Stores(b) ==
  LET s == Slot(b) IN
  {[in |-> "ent", i |-> i, field |-> "tag"] : i \in Cleared(b) \ {s}}
  \union {[in |-> "ent", i |-> s, field |-> f] : f \in {"tag", "words", "off", "counts"}}
  \union {[in |-> "data", i |-> Offset(b) + k, field |-> "word"] : k \in 0 .. (b.words - 1)}

rcache_store(w) ==
  /\ rc_worker[w] = RcIdle /\ rc_ops.stores < MaxStores
  /\ rc_seq % 2 = 0
  /\ \E b \in Bodies :
       rc_worker' = [rc_worker EXCEPT ![w] = [at |-> "store", b |-> b, off |-> Offset(b), slot |-> Slot(b), left |-> Stores(b), full |-> Unused(b) = {}]]
  /\ rc_seq' = rc_seq + 1
  /\ rc_ops' = [rc_ops EXCEPT !.stores = @ + 1]
  /\ UNCHANGED <<rc_head, rc_next, rc_ent, rc_data>>

StoreOne(w) ==
  LET s == rc_worker[w] IN
  /\ s.at = "store"
  /\ \E x \in s.left :
       /\ rc_worker' = [rc_worker EXCEPT ![w].left = @ \ {x}]
       /\ IF x.in = "data"
          THEN rc_data' = [rc_data EXCEPT ![x.i] = Word(s.b, x.i - s.off)] /\ UNCHANGED rc_ent
          ELSE /\ rc_ent' = [rc_ent EXCEPT ![x.i] =
                    IF x.i # s.slot THEN [@ EXCEPT !.tag = Free]
                    ELSE IF x.field = "tag" THEN [@ EXCEPT !.tag = s.b.tag]
                    ELSE IF x.field = "words" THEN [@ EXCEPT !.words = s.b.words]
                    ELSE IF x.field = "off" THEN [@ EXCEPT !.off = s.off] ELSE [@ EXCEPT !.counts = s.b]]
               /\ UNCHANGED rc_data
  /\ UNCHANGED <<rc_seq, rc_head, rc_next, rc_ops>>

StoreEnd(w) ==
  LET s == rc_worker[w] IN
  /\ s.at = "store" /\ s.left = {}
  /\ rc_head' = s.off + s.b.words
  /\ rc_next' = IF s.full THEN rc_next + 1 ELSE rc_next
  /\ rc_seq' = rc_seq + 1
  /\ rc_worker' = [rc_worker EXCEPT ![w] = RcIdle]
  /\ UNCHANGED <<rc_ent, rc_data, rc_ops>>

(* ---- rcache_lookup() ---- *)

rcache_lookup(w) ==
  /\ rc_worker[w] = RcIdle /\ rc_ops.lookups < MaxLookups
  /\ rc_seq % 2 = 0
  /\ \E b \in Bodies : rc_worker' = [rc_worker EXCEPT ![w] = [at |-> "look", tag |-> b.tag, s1 |-> rc_seq, i |-> 0]]
  /\ rc_ops' = [rc_ops EXCEPT !.lookups = @ + 1]
  /\ UNCHANGED <<rc_seq, rc_head, rc_next, rc_ent, rc_data>>

Quiet == UNCHANGED <<rc_seq, rc_head, rc_next, rc_ent, rc_data, rc_ops>>
Goes(w, to) == rc_worker' = [rc_worker EXCEPT ![w] = to] /\ Quiet

LookTag(w) ==
  LET l == rc_worker[w] IN
  /\ l.at = "look"
  /\ Goes(w, IF rc_ent[l.i].tag = l.tag THEN [at |-> "words", tag |-> l.tag, s1 |-> l.s1, i |-> l.i]
             ELSE IF l.i + 1 < RcEntries THEN [l EXCEPT !.i = @ + 1] ELSE RcIdle)

LookWords(w) ==
  LET l == rc_worker[w] IN
  /\ l.at = "words"
  /\ Goes(w, IF rc_ent[l.i].words = 0 THEN RcIdle ELSE [at |-> "off", tag |-> l.tag, s1 |-> l.s1, i |-> l.i, words |-> rc_ent[l.i].words])

\* A value in the middle of a change must not lead out of the data.
LookOff(w) ==
  LET l == rc_worker[w]  off == rc_ent[l.i].off IN
  /\ l.at = "off"
  /\ Goes(w, IF off + l.words > RcWords THEN RcIdle
             ELSE [at |-> "copy", tag |-> l.tag, s1 |-> l.s1, i |-> l.i, words |-> l.words, off |-> off, counts |-> rc_ent[l.i].counts, got |-> <<>>])

Copy(w) ==
  LET l == rc_worker[w] IN
  /\ l.at = "copy" /\ Len(l.got) < l.words
  /\ Goes(w, [l EXCEPT !.got = Append(@, rc_data[l.off + Len(@)])])

LookEnd(w) ==
  LET l == rc_worker[w] IN
  /\ l.at = "copy" /\ Len(l.got) = l.words
  /\ Goes(w, IF rc_seq # l.s1 THEN RcIdle ELSE [at |-> "hit", tag |-> l.tag, counts |-> l.counts, got |-> l.got])

Served(w) == rc_worker[w].at = "hit" /\ Goes(w, RcIdle)

RcNext == \E w \in RcWorkers :
  \/ rcache_store(w) \/ StoreOne(w) \/ StoreEnd(w)
  \/ rcache_lookup(w) \/ LookTag(w) \/ LookWords(w) \/ LookOff(w) \/ Copy(w) \/ LookEnd(w) \/ Served(w)

RcSpec == RcInit /\ [][RcNext]_rcvars

\* A hit is one body that was stored under the key asked for, whole and with its own counts, whatever other workers store meanwhile
\* (rcache_lookup() against rcache_store()).
HitIsWhole ==
  \A w \in RcWorkers : rc_worker[w].at = "hit" =>
    LET h == rc_worker[w] IN
    \E b \in Bodies : b.tag = h.tag /\ h.counts = b /\ h.got = [i \in 1 .. b.words |-> Word(b, i - 1)]
=============================================================================
