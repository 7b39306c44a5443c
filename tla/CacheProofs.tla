----------------------------- MODULE CacheProofs -----------------------------
(***************************************************************************)
(* The response cache for any number of workers, entries, words, responses *)
(* and publications: what a lookup returns is one response, whole          *)
(* (ResponseCache), and it is the response that would be made now          *)
(* (AnswerCache).                                                          *)
(***************************************************************************)
EXTENDS ResponseCache, AnswerCache, NaturalsInduction, WellFoundedInduction, TLAPS

-----------------------------------------------------------------------------
(* The invariant of one set of the cache *)

Index == 0 .. RcEntries - 1
Places == 0 .. RcWords - 1
Fields == {"tag", "words", "off", "counts"}
Tags == {b.tag : b \in Bodies}
WordSet == {Word(b, k) : b \in Bodies \cup {NoBody}, k \in Nat}

EntWrite(i, f) == [in |-> "ent", i |-> i, field |-> f]
DataWrite(i) == [in |-> "data", i |-> i, field |-> "word"]

Ents == [tag : Tags \cup {Free}, words : Nat, off : Nat, counts : Bodies \cup {NoBody}]
Storing == [at : {"store"}, b : Bodies, off : Nat, slot : Index, left : SUBSET [in : {"ent", "data"}, i : Nat, field : Fields \cup {"word"}],
            full : BOOLEAN]
Looking == [at : {"look", "words"}, tag : Tags, s1 : Nat, i : Index]
Sizing == [at : {"off"}, tag : Tags, s1 : Nat, i : Index, words : Nat]
Copying == [at : {"copy"}, tag : Tags, s1 : Nat, i : Index, words : Nat, off : Nat, counts : Bodies \cup {NoBody}, got : Seq(WordSet)]
Hits == [at : {"hit"}, tag : Tags, counts : Bodies \cup {NoBody}, got : Seq(WordSet)]

RcTypes ==
  /\ rc_seq \in Nat /\ rc_head \in Nat /\ rc_next \in Nat
  /\ rc_ent \in [Index -> Ents]
  /\ rc_data \in [Places -> WordSet]
  /\ rc_worker \in [RcWorkers -> {RcIdle} \cup Storing \cup Looking \cup Sizing \cup Copying \cup Hits]

\* The entry names one response: its counts and all of its words.
Whole(e, data) ==
  /\ e.counts \in Bodies
  /\ e.tag = e.counts.tag /\ e.words = e.counts.words /\ e.off + e.words <= RcWords
  /\ \A k \in 0 .. e.words - 1 : data[e.off + k] = Word(e.counts, k)

\* Two stretches of words have none in common.
Apart(o, n, p, m) == o + n <= p \/ p + m <= o

\* Between two stores every entry in use is whole.
TableInv == rc_seq % 2 = 0 => \A i \in Index : rc_ent[i].tag = Free \/ Whole(rc_ent[i], rc_data)

\* One worker stores at a time, while seq is odd.
SeqInv ==
  /\ \A w \in RcWorkers : rc_worker[w].at = "store" => rc_seq % 2 = 1
  /\ \A w, v \in RcWorkers : rc_worker[w].at = "store" /\ rc_worker[v].at = "store" => w = v

\* Everything of a store is still to be written or as it will be.
Halfway(b, o, t, left, ent, data) ==
  /\ o + b.words <= RcWords
  /\ \A x \in left : \/ \E i \in Index \ {t} : x = EntWrite(i, "tag")
                     \/ \E f \in Fields : x = EntWrite(t, f)
                     \/ \E k \in 0 .. b.words - 1 : x = DataWrite(o + k)
  /\ \A i \in Index \ {t} :
       \/ ent[i].tag = Free
       \/ EntWrite(i, "tag") \in left
       \/ Whole(ent[i], data) /\ Apart(ent[i].off, ent[i].words, o, b.words)
  /\ EntWrite(t, "tag") \in left \/ ent[t].tag = b.tag
  /\ EntWrite(t, "words") \in left \/ ent[t].words = b.words
  /\ EntWrite(t, "off") \in left \/ ent[t].off = o
  /\ EntWrite(t, "counts") \in left \/ ent[t].counts = b
  /\ \A k \in 0 .. b.words - 1 : DataWrite(o + k) \in left \/ data[o + k] = Word(b, k)

InStore(s, ent, data) == Halfway(s.b, s.off, s.slot, s.left, ent, data)

StoreInv == \A w \in RcWorkers : rc_worker[w].at = "store" => InStore(rc_worker[w], rc_ent, rc_data)

\* What a lookup has read is what is there, as long as seq is what it was at its beginning.
Current(l, ent, data) ==
  /\ l.at \in {"words", "off", "copy"} => ent[l.i].tag = l.tag
  /\ l.at \in {"off", "copy"} => l.words = ent[l.i].words
  /\ l.at = "copy" => /\ l.off = ent[l.i].off /\ l.counts = ent[l.i].counts
                      /\ \A k \in 1 .. Len(l.got) : l.got[k] = data[l.off + (k - 1)]

Reading(l) == l.at \in {"look", "words", "off", "copy"}

LookRight(l, seq, ent, data) ==
  /\ l.s1 % 2 = 0 /\ l.s1 <= seq
  /\ l.at = "copy" => l.off + l.words <= RcWords /\ Len(l.got) <= l.words
  /\ l.s1 = seq => Current(l, ent, data)

LookInv == \A w \in RcWorkers : Reading(rc_worker[w]) => LookRight(rc_worker[w], rc_seq, rc_ent, rc_data)

HitRight(h) ==
  \E b \in Bodies : b.tag = h.tag /\ h.counts = b /\ h.got = [i \in 1 .. b.words |-> Word(b, i - 1)]

RcInv == RcTypes /\ TableInv /\ SeqInv /\ StoreInv /\ LookInv /\ HitIsWhole

-----------------------------------------------------------------------------
(* The shape of what a worker does *)

\* The record of a worker has the fields of the place where it is.
LEMMA WorkShape ==
  ASSUME RcTypes, NEW w \in RcWorkers
  PROVE  /\ rc_worker[w].at \in {"idle", "store", "look", "words", "off", "copy", "hit"}
         /\ rc_worker[w].at = "store" => rc_worker[w] \in Storing
         /\ rc_worker[w].at \in {"look", "words"} => rc_worker[w] \in Looking
         /\ rc_worker[w].at = "off" => rc_worker[w] \in Sizing
         /\ rc_worker[w].at = "copy" => rc_worker[w] \in Copying
         /\ rc_worker[w].at = "hit" => rc_worker[w] \in Hits
<1>1. rc_worker[w] \in {RcIdle} \cup Storing \cup Looking \cup Sizing \cup Copying \cup Hits
  BY DEF RcTypes
<1>2. \A r \in Storing : r.at = "store"
  BY DEF Storing
<1>3. \A r \in Looking : r.at \in {"look", "words"}
  BY DEF Looking
<1>4. \A r \in Sizing : r.at = "off"
  BY DEF Sizing
<1>5. \A r \in Copying : r.at = "copy"
  BY DEF Copying
<1>6. \A r \in Hits : r.at = "hit"
  BY DEF Hits
<1>7. RcIdle.at = "idle"
  BY DEF RcIdle
<1>. QED  BY <1>1, <1>2, <1>3, <1>4, <1>5, <1>6, <1>7

\* The set starts empty.
LEMMA RcInitInv == RcInit => RcInv
<1> SUFFICES ASSUME RcInit
             PROVE  RcInv
  OBVIOUS
<1>1. RcTypes
  <2>1. rc_seq \in Nat /\ rc_head \in Nat /\ rc_next \in Nat
    BY DEF RcInit
  <2>2. NoBody \in Bodies \cup {NoBody} /\ Word(NoBody, 0) \in WordSet
    BY DEF WordSet
  <2>3. rc_data \in [Places -> WordSet]
    BY <2>2, RcAssumption DEF RcInit, Places
  <2>4. rc_ent \in [Index -> Ents]
    BY <2>2, RcAssumption DEF RcInit, Index, Ents
  <2>5. rc_worker \in [RcWorkers -> {RcIdle} \cup Storing \cup Looking \cup Sizing \cup Copying \cup Hits]
    BY Zenon DEF RcInit
  <2>. QED  BY <2>1, <2>3, <2>4, <2>5 DEF RcTypes
<1>2. \A w \in RcWorkers : rc_worker[w].at = "idle"
  BY DEF RcInit, RcIdle
<1>3. TableInv
  BY DEF RcInit, TableInv, Index
<1>4. SeqInv /\ StoreInv /\ HitIsWhole
  BY <1>2 DEF SeqInv, StoreInv, HitIsWhole
<1>5. LookInv
  BY <1>2 DEF LookInv, Reading
<1>. QED  BY <1>1, <1>3, <1>4, <1>5 DEF RcInv

-----------------------------------------------------------------------------
(* rcache_lookup() *)

\* A step of a lookup writes nothing; it is enough that what it has read is right.
LEMMA LookStep ==
  ASSUME RcInv, NEW w \in RcWorkers, rc_worker[w].at # "store",
         NEW l \in {RcIdle} \cup Looking \cup Sizing \cup Copying \cup Hits,
         rc_worker' = [rc_worker EXCEPT ![w] = l],
         UNCHANGED <<rc_seq, rc_head, rc_next, rc_ent, rc_data>>,
         Reading(l) => LookRight(l, rc_seq, rc_ent, rc_data), l.at = "hit" => HitRight(l)
  PROVE  RcInv'
<1>0. RcTypes /\ TableInv /\ SeqInv /\ StoreInv /\ LookInv /\ HitIsWhole
  BY DEF RcInv
<1>1. /\ rc_seq' = rc_seq /\ rc_head' = rc_head /\ rc_next' = rc_next
      /\ rc_ent' = rc_ent /\ rc_data' = rc_data
  OBVIOUS
<1>2. rc_worker'[w] = l /\ \A v \in RcWorkers \ {w} : rc_worker'[v] = rc_worker[v]
  BY <1>0 DEF RcTypes
<1>3. l.at # "store"
  BY DEF RcIdle, Looking, Sizing, Copying, Hits
<1>4. RcTypes'
  <2>1. rc_worker' \in [RcWorkers -> {RcIdle} \cup Storing \cup Looking \cup Sizing \cup Copying \cup Hits]
    BY <1>0, Zenon DEF RcTypes
  <2>. QED  BY <2>1, <1>0, <1>1, Zenon DEF RcTypes
<1>5. TableInv'
  BY <1>0, <1>1, Zenon DEF TableInv, Whole
<1>6. \A v \in RcWorkers : rc_worker'[v].at = "store" => v # w /\ rc_worker'[v] = rc_worker[v]
  BY <1>2, <1>3, Zenon
<1>7. SeqInv'
  BY <1>0, <1>1, <1>6, Zenon DEF SeqInv
<1>8. StoreInv'
  BY <1>0, <1>1, <1>6, Zenon DEF StoreInv
<1>9. LookInv'
  BY <1>0, <1>1, <1>2, Zenon DEF LookInv
<1>10. HitIsWhole'
  <2>1. \A v \in RcWorkers : rc_worker[v].at = "hit" => HitRight(rc_worker[v])
    BY <1>0, Zenon DEF HitIsWhole, HitRight
  <2>2. \A v \in RcWorkers : rc_worker'[v].at = "hit" => HitRight(rc_worker'[v])
    BY <2>1, <1>2, Zenon
  <2>. QED  BY <2>2, Zenon DEF HitIsWhole, HitRight
<1>. QED  BY <1>4, <1>5, <1>7, <1>8, <1>9, <1>10 DEF RcInv

\* The beginning of rcache_lookup(): seq is even, nothing is read yet.
LEMMA LookupKeeps ==
  ASSUME RcInv, NEW w \in RcWorkers, rcache_lookup(w)
  PROVE  RcInv'
<1>1. PICK b \in Bodies : rc_worker' = [rc_worker EXCEPT ![w] = [at |-> "look", tag |-> b.tag, s1 |-> rc_seq, i |-> 0]]
  BY ZenonT(30) DEF rcache_lookup
<1>. DEFINE l == [at |-> "look", tag |-> b.tag, s1 |-> rc_seq, i |-> 0]
<1>2. rc_worker[w].at # "store" /\ rc_seq % 2 = 0 /\ UNCHANGED <<rc_seq, rc_head, rc_next, rc_ent, rc_data>>
  BY DEF rcache_lookup, RcIdle
<1>3. rc_seq \in Nat
  BY DEF RcInv, RcTypes
<1>4. l \in Looking
  BY <1>3, RcAssumption DEF Looking, Index, Tags
<1>5. LookRight(l, rc_seq, rc_ent, rc_data)
  BY <1>2, <1>3 DEF LookRight, Current
<1>. QED  BY <1>1, <1>2, <1>4, <1>5, LookStep, ZenonT(30) DEF Looking

\* What a lookup is about: the types of the entry and of the record.
LEMMA LookFacts ==
  ASSUME RcInv, NEW w \in RcWorkers, Reading(rc_worker[w])
  PROVE  /\ rc_worker[w].i \in Index /\ rc_ent[rc_worker[w].i] \in Ents
         /\ rc_worker[w].tag \in Tags /\ rc_worker[w].s1 \in Nat /\ rc_seq \in Nat
         /\ LookRight(rc_worker[w], rc_seq, rc_ent, rc_data) /\ rc_worker[w].at # "store"
<1>1. RcTypes /\ LookInv
  BY DEF RcInv
<1>2. rc_worker[w].i \in Index /\ rc_worker[w].tag \in Tags /\ rc_worker[w].s1 \in Nat
  BY <1>1, WorkShape DEF Reading, Looking, Sizing, Copying
<1>. QED  BY <1>1, <1>2 DEF LookInv, LookRight, RcTypes, Reading

\* The tag of an entry is read.
LEMMA TagKeeps ==
  ASSUME RcInv, NEW w \in RcWorkers, LookTag(w)
  PROVE  RcInv'
<1>. DEFINE l == rc_worker[w]
            found == [at |-> "words", tag |-> l.tag, s1 |-> l.s1, i |-> l.i]
            next == [at |-> "look", tag |-> l.tag, s1 |-> l.s1, i |-> l.i + 1]
            to == IF rc_ent[l.i].tag = l.tag THEN found ELSE IF l.i + 1 < RcEntries THEN next ELSE RcIdle
<1>1. l.at = "look"
  BY DEF LookTag
<1>2. l \in Looking
  BY <1>1, WorkShape DEF RcInv
<1>3. /\ l.i \in Index /\ l.tag \in Tags /\ l.s1 \in Nat /\ rc_seq \in Nat
      /\ LookRight(l, rc_seq, rc_ent, rc_data) /\ l.at # "store"
  BY <1>1, LookFacts DEF Reading
<1>4. [l EXCEPT !.i = @ + 1] = next
  BY <1>1, <1>2 DEF Looking
<1>5. rc_worker' = [rc_worker EXCEPT ![w] = to] /\ UNCHANGED <<rc_seq, rc_head, rc_next, rc_ent, rc_data>>
  BY <1>4, ZenonT(30) DEF LookTag, Goes, Quiet
<1>6. found \in Looking /\ (l.i + 1 < RcEntries => next \in Looking)
  BY <1>3, RcAssumption DEF Looking, Index
<1>7. to \in {RcIdle} \cup Looking
  BY <1>6
<1>8. Reading(to) => LookRight(to, rc_seq, rc_ent, rc_data)
  BY <1>3, ZenonT(30) DEF LookRight, Current, Reading, RcIdle
<1>9. to.at # "hit"
  BY <1>7 DEF RcIdle, Looking
<1>. HIDE DEF to
<1>. QED  BY <1>3, <1>5, <1>7, <1>8, <1>9, LookStep, ZenonT(30)

\* The length of the body is read.
LEMMA WordsKeeps ==
  ASSUME RcInv, NEW w \in RcWorkers, LookWords(w)
  PROVE  RcInv'
<1>. DEFINE l == rc_worker[w]
            next == [at |-> "off", tag |-> l.tag, s1 |-> l.s1, i |-> l.i, words |-> rc_ent[l.i].words]
            to == IF rc_ent[l.i].words = 0 THEN RcIdle ELSE next
<1>1. l.at = "words"
  BY DEF LookWords
<1>3. /\ l.i \in Index /\ l.tag \in Tags /\ l.s1 \in Nat /\ rc_seq \in Nat /\ rc_ent[l.i] \in Ents
      /\ LookRight(l, rc_seq, rc_ent, rc_data) /\ l.at # "store"
  BY <1>1, LookFacts DEF Reading
<1>5. rc_worker' = [rc_worker EXCEPT ![w] = to] /\ UNCHANGED <<rc_seq, rc_head, rc_next, rc_ent, rc_data>>
  BY DEF LookWords, Goes, Quiet
<1>6. next \in Sizing
  BY <1>3 DEF Sizing, Ents
<1>7. to \in {RcIdle} \cup Sizing
  BY <1>6
<1>8. Reading(to) => LookRight(to, rc_seq, rc_ent, rc_data)
  BY <1>1, <1>3 DEF LookRight, Current, Reading, RcIdle
<1>9. to.at # "hit"
  BY <1>7 DEF RcIdle, Sizing
<1>. HIDE DEF to
<1>. QED  BY <1>3, <1>5, <1>7, <1>8, <1>9, LookStep, ZenonT(30)

\* The place of the body is read; a place out of the data ends the lookup.
LEMMA OffKeeps ==
  ASSUME RcInv, NEW w \in RcWorkers, LookOff(w)
  PROVE  RcInv'
<1>. DEFINE l == rc_worker[w]
            e == rc_ent[l.i]
            next == [at |-> "copy", tag |-> l.tag, s1 |-> l.s1, i |-> l.i, words |-> l.words, off |-> e.off,
                     counts |-> e.counts, got |-> <<>>]
            to == IF e.off + l.words > RcWords THEN RcIdle ELSE next
<1>1. l.at = "off"
  BY DEF LookOff
<1>2. l.words \in Nat
  BY <1>1, WorkShape DEF RcInv, Sizing
<1>3. /\ l.i \in Index /\ l.tag \in Tags /\ l.s1 \in Nat /\ rc_seq \in Nat /\ e \in Ents
      /\ LookRight(l, rc_seq, rc_ent, rc_data) /\ l.at # "store"
  BY <1>1, LookFacts DEF Reading
<1>4. e.off \in Nat /\ e.counts \in Bodies \cup {NoBody}
  BY <1>3 DEF Ents
<1>5. rc_worker' = [rc_worker EXCEPT ![w] = to] /\ UNCHANGED <<rc_seq, rc_head, rc_next, rc_ent, rc_data>>
  BY DEF LookOff, Goes, Quiet
<1>6. next \in Copying
  BY <1>2, <1>3, <1>4 DEF Copying
<1>7. to \in {RcIdle} \cup Copying
  BY <1>6
<1>8. Reading(to) => LookRight(to, rc_seq, rc_ent, rc_data)
  <2>1. RcWords \in Nat
    BY RcAssumption
  <2>2. CASE e.off + l.words > RcWords
    BY <2>2, SMTT(30) DEF Reading, RcIdle
  <2>3. CASE ~ (e.off + l.words > RcWords)
    <3>1. to = next /\ e.off + l.words <= RcWords
      BY <2>1, <2>3, <1>2, <1>4
    <3>2. l.s1 % 2 = 0 /\ l.s1 <= rc_seq /\ (l.s1 = rc_seq => e.tag = l.tag /\ l.words = e.words)
      BY <1>1, <1>3 DEF LookRight, Current
    <3>3. l.s1 = rc_seq => Current(next, rc_ent, rc_data)
      BY <3>2, SMTT(30) DEF Current
    <3>. QED  BY <3>1, <3>2, <3>3, <1>2 DEF LookRight
  <2>. QED  BY <2>2, <2>3
<1>9. to.at # "hit"
  BY <1>7, SMTT(30) DEF RcIdle, Copying
<1>. HIDE DEF to
<1>. QED  BY <1>3, <1>5, <1>7, <1>8, <1>9, LookStep, ZenonT(30)

\* One word of the body is copied.
LEMMA CopyKeeps ==
  ASSUME RcInv, NEW w \in RcWorkers, Copy(w)
  PROVE  RcInv'
<1>. DEFINE l == rc_worker[w]
            n == Len(l.got)
            word == rc_data[l.off + n]
            to == [at |-> "copy", tag |-> l.tag, s1 |-> l.s1, i |-> l.i, words |-> l.words, off |-> l.off,
                   counts |-> l.counts, got |-> Append(l.got, word)]
<1>1. l.at = "copy" /\ n < l.words
  BY DEF Copy
<1>2. l \in Copying
  BY <1>1, WorkShape DEF RcInv
<1>3. l.words \in Nat /\ l.off \in Nat /\ l.got \in Seq(WordSet) /\ n \in Nat
  BY <1>2 DEF Copying
<1>4. /\ l.i \in Index /\ l.tag \in Tags /\ l.s1 \in Nat /\ rc_seq \in Nat
      /\ LookRight(l, rc_seq, rc_ent, rc_data) /\ l.at # "store"
  BY <1>1, LookFacts DEF Reading
<1>5. l.off + l.words <= RcWords /\ (l.s1 = rc_seq => Current(l, rc_ent, rc_data))
  BY <1>1, <1>4 DEF LookRight
<1>6. word \in WordSet
  BY <1>1, <1>3, <1>5, RcAssumption DEF RcInv, RcTypes, Places
<1>7. /\ Append(l.got, word) \in Seq(WordSet) /\ Len(Append(l.got, word)) = n + 1
      /\ \A k \in 1 .. n : Append(l.got, word)[k] = l.got[k]
      /\ Append(l.got, word)[n + 1] = word
  BY <1>3, <1>6
<1>8. [l EXCEPT !.got = Append(@, rc_data[l.off + Len(@)])] = to
  <2>1. ASSUME NEW g
        PROVE  [l EXCEPT !.got = g] = [at |-> "copy", tag |-> l.tag, s1 |-> l.s1, i |-> l.i, words |-> l.words,
                                       off |-> l.off, counts |-> l.counts, got |-> g]
    BY <1>1, <1>2 DEF Copying
  <2>2. [l EXCEPT !.got = Append(@, rc_data[l.off + Len(@)])] = [l EXCEPT !.got = Append(l.got, word)]
    BY Zenon
  <2>. QED  BY <2>1, <2>2, Zenon
<1>9. rc_worker' = [rc_worker EXCEPT ![w] = to] /\ UNCHANGED <<rc_seq, rc_head, rc_next, rc_ent, rc_data>>
  BY <1>8, ZenonT(30) DEF Copy, Goes, Quiet
<1>10. to \in Copying
  BY <1>2, <1>7 DEF Copying
<1>11. LookRight(to, rc_seq, rc_ent, rc_data)
  <2>1. ASSUME l.s1 = rc_seq PROVE Current(to, rc_ent, rc_data)
    <3>1. /\ rc_ent[l.i].tag = l.tag /\ l.words = rc_ent[l.i].words
          /\ l.off = rc_ent[l.i].off /\ l.counts = rc_ent[l.i].counts
          /\ \A k \in 1 .. n : l.got[k] = rc_data[l.off + (k - 1)]
      BY <2>1, <1>1, <1>5 DEF Current
    <3>2. ASSUME NEW k \in 1 .. n + 1 PROVE Append(l.got, word)[k] = rc_data[l.off + (k - 1)]
      <4>1. CASE k = n + 1
        BY <4>1, <1>3, <1>7, SMTT(30)
      <4>2. CASE k # n + 1
        BY <4>2, <1>3, <1>7, <3>1, SMTT(30)
      <4>. QED  BY <4>1, <4>2
    <3>. QED  BY <3>1, <3>2, <1>7, ZenonT(30) DEF Current
  <2>2. l.s1 % 2 = 0 /\ l.s1 <= rc_seq
    BY <1>4 DEF LookRight
  <2>3. n + 1 <= l.words
    BY <1>1, <1>3
  <2>. HIDE DEF word, n
  <2>. QED  BY <2>1, <2>2, <2>3, <1>5, <1>7 DEF LookRight
<1>. HIDE DEF to
<1>12. to.at # "hit"
  BY <1>10 DEF Copying
<1>. QED  BY <1>4, <1>9, <1>10, <1>11, <1>12, LookStep, ZenonT(30)

\* The end of rcache_lookup(): seq is what it was, so all of it is one response.
LEMMA LookEndKeeps ==
  ASSUME RcInv, NEW w \in RcWorkers, LookEnd(w)
  PROVE  RcInv'
<1>. DEFINE l == rc_worker[w]
            hit == [at |-> "hit", tag |-> l.tag, counts |-> l.counts, got |-> l.got]
            to == IF rc_seq # l.s1 THEN RcIdle ELSE hit
<1>1. l.at = "copy" /\ Len(l.got) = l.words
  BY DEF LookEnd
<1>2. l \in Copying
  BY <1>1, WorkShape DEF RcInv
<1>3. /\ l.i \in Index /\ l.tag \in Tags
      /\ LookRight(l, rc_seq, rc_ent, rc_data) /\ l.at # "store"
  BY <1>1, LookFacts DEF Reading
<1>4. rc_worker' = [rc_worker EXCEPT ![w] = to] /\ UNCHANGED <<rc_seq, rc_head, rc_next, rc_ent, rc_data>>
  BY DEF LookEnd, Goes, Quiet
<1>5. hit \in Hits
  BY <1>2 DEF Hits, Copying
<1>6. ASSUME rc_seq = l.s1 PROVE HitRight(hit)
  <2>. DEFINE e == rc_ent[l.i]
              b == e.counts
  <2>1. /\ e.tag = l.tag /\ l.words = e.words /\ l.off = e.off /\ l.counts = b
        /\ \A k \in 1 .. Len(l.got) : l.got[k] = rc_data[l.off + (k - 1)]
    BY <1>1, <1>3, <1>6 DEF LookRight, Current
  <2>2. rc_seq % 2 = 0
    BY <1>3, <1>6 DEF LookRight
  <2>3. e.tag # Free
    BY <1>3, <2>1, RcAssumption DEF Tags
  <2>4. Whole(e, rc_data)
    BY <1>3, <2>2, <2>3, SMTT(30) DEF RcInv, TableInv
  <2>5. /\ b \in Bodies /\ b.tag = l.tag /\ b.words = l.words /\ b.words \in Nat
        /\ \A k \in 0 .. l.words - 1 : rc_data[l.off + k] = Word(b, k)
    <3>1. b \in Bodies /\ b.tag = l.tag /\ b.words = l.words
      BY <2>1, <2>4, Zenon DEF Whole
    <3>2. b.words \in Nat
      BY <3>1, RcAssumption
    <3>3. \A k \in 0 .. l.words - 1 : rc_data[l.off + k] = Word(b, k)
      BY <2>1, <2>4, Zenon DEF Whole
    <3>. QED  BY <3>1, <3>2, <3>3, Zenon
  <2>6. l.got \in Seq(WordSet) /\ Len(l.got) = b.words
    BY <1>1, <1>2, <2>5 DEF Copying
  <2>. HIDE DEF e, b
  <2>7. ASSUME NEW k \in 1 .. b.words PROVE l.got[k] = Word(b, k - 1)
    <3>1. k - 1 \in 0 .. l.words - 1 /\ k \in 1 .. Len(l.got)
      BY <2>5, <2>6
    <3>. QED  BY <3>1, <2>1, <2>5
  <2>8. l.got = [k \in 1 .. b.words |-> Word(b, k - 1)]
    BY <2>6, <2>7
  <2>. QED  BY <2>1, <2>5, <2>8 DEF HitRight
<1>7. to \in {RcIdle} \cup Hits
  BY <1>5
<1>8. ~ Reading(to) /\ (to.at = "hit" => HitRight(to))
  BY <1>6 DEF Reading, RcIdle
<1>. HIDE DEF to
<1>. QED  BY <1>3, <1>4, <1>7, <1>8, LookStep, ZenonT(30)

\* The response is sent.
LEMMA ServedKeeps ==
  ASSUME RcInv, NEW w \in RcWorkers, Served(w)
  PROVE  RcInv'
<1>1. rc_worker[w].at # "store" /\ rc_worker' = [rc_worker EXCEPT ![w] = RcIdle]
  BY DEF Served, Goes
<1>2. UNCHANGED <<rc_seq, rc_head, rc_next, rc_ent, rc_data>>
  BY DEF Served, Goes, Quiet
<1>3. ~ Reading(RcIdle) /\ RcIdle.at # "hit"
  BY DEF Reading, RcIdle
<1>. QED  BY <1>1, <1>2, <1>3, LookStep, ZenonT(30)

-----------------------------------------------------------------------------
(* rcache_store() *)

\* A set of numbers that is not empty has a least one.
LEMMA Least ==
  ASSUME NEW D \in SUBSET Nat, D # {}
  PROVE  \E d \in D : \A e \in D : d <= e
<1>1. PICK d \in D : \A e \in D : ~ (<<e, d>> \in OpToRel(<, Nat))
  BY NatLessThanWellFounded, WFMin
<1>2. ASSUME NEW e \in D PROVE d <= e
  <2>1. d \in Nat /\ e \in Nat
    OBVIOUS
  <2>2. e < d => <<e, d>> \in OpToRel(<, Nat)
    BY <2>1 DEF OpToRel
  <2>3. ~ (e < d)
    BY <1>1, <2>2, Zenon
  <2>. QED  BY <2>1, <2>3
<1>. QED  BY <1>2, Zenon

\* The stores of a store are told apart by where they write.
LEMMA Distinct ==
  /\ \A i, j, f, g : EntWrite(i, f) = EntWrite(j, g) <=> i = j /\ f = g
  /\ \A i, j : DataWrite(i) = DataWrite(j) <=> i = j
  /\ \A i, j, f : EntWrite(i, f) # DataWrite(j)
  BY DEF EntWrite, DataWrite

\* Where a body goes, it fits.
LEMMA OffsetFits ==
  ASSUME RcTypes, NEW b \in Bodies
  PROVE  /\ Offset(b) \in Nat /\ b.words \in Nat \ {0}
         /\ Offset(b) + b.words <= RcWords
  BY RcAssumption DEF RcTypes, Offset

\* Words of stretches that are apart are in different places.
LEMMA ApartPlaces ==
  ASSUME NEW p \in Nat, NEW n \in Nat, NEW o \in Nat, NEW m \in Nat, p + n <= RcWords, Apart(p, n, o, m),
         NEW j \in 0 .. n - 1, NEW k \in 0 .. m - 1
  PROVE  p + j \in Places /\ p + j # o + k
  BY RcAssumption DEF Apart, Places

\* The entry that is written is one of the set.
LEMMA SlotIsEntry ==
  ASSUME RcTypes, NEW b \in Bodies
  PROVE  Slot(b) \in Index
<1>1. DOMAIN rc_ent = Index
  BY DEF RcTypes
<1>2. CASE Unused(b) = {}
  <2>1. rc_next % RcEntries \in 0 .. RcEntries - 1
    BY RcAssumption DEF RcTypes
  <2>. QED  BY <1>2, <2>1 DEF Slot, Index
<1>3. CASE Unused(b) # {}
  <2>1. Unused(b) \in SUBSET Nat /\ Unused(b) \subseteq Index
    BY <1>1 DEF Unused, Cleared, Index
  <2>2. PICK i \in Unused(b) : \A j \in Unused(b) : i <= j
    BY <1>3, <2>1, Least
  <2>3. (CHOOSE k \in Unused(b) : \A j \in Unused(b) : k <= j) \in Unused(b)
    BY <2>2, Zenon
  <2>. QED  BY <1>3, <2>1, <2>3 DEF Slot
<1>. QED  BY <1>2, <1>3

\* seq is odd or even.
LEMMA OddIsNotEven == \A n \in Nat : n % 2 = 1 => n % 2 # 0
  OBVIOUS

\* A step of a store: the lookups in progress began at another value of seq.
LEMMA StoreStep ==
  ASSUME RcInv, NEW w \in RcWorkers, NEW s \in {RcIdle} \cup Storing,
         rc_worker' = [rc_worker EXCEPT ![w] = s],
         ~ Reading(rc_worker[w]), rc_seq' \in {rc_seq, rc_seq + 1},
         \A v \in RcWorkers : Reading(rc_worker[v]) => rc_worker[v].s1 # rc_seq'
  PROVE  /\ rc_worker' \in [RcWorkers -> {RcIdle} \cup Storing \cup Looking \cup Sizing \cup Copying \cup Hits]
         /\ LookInv' /\ HitIsWhole'
<1>0. RcTypes /\ LookInv /\ HitIsWhole
  BY DEF RcInv
<1>1. rc_worker'[w] = s /\ \A v \in RcWorkers \ {w} : rc_worker'[v] = rc_worker[v]
  BY <1>0 DEF RcTypes
<1>2. s.at \in {"idle", "store"}
  BY DEF RcIdle, Storing
<1>3. rc_worker' \in [RcWorkers -> {RcIdle} \cup Storing \cup Looking \cup Sizing \cup Copying \cup Hits]
  BY <1>0, Zenon DEF RcTypes
<1>4. LookInv'
  <2> SUFFICES ASSUME NEW v \in RcWorkers, Reading(rc_worker'[v])
               PROVE  LookRight(rc_worker'[v], rc_seq', rc_ent', rc_data')
    BY Zenon DEF LookInv
  <2>1. v # w
    BY <1>1, <1>2 DEF Reading
  <2>2. rc_worker'[v] = rc_worker[v] /\ Reading(rc_worker[v])
    BY <1>1, <2>1, Zenon
  <2>3. LookRight(rc_worker[v], rc_seq, rc_ent, rc_data) /\ rc_worker[v].s1 # rc_seq'
    BY <1>0, <2>2, Zenon DEF LookInv
  <2>4. rc_worker[v].s1 \in Nat /\ rc_seq \in Nat
    BY <2>2, LookFacts
  <2>. QED  BY <2>2, <2>3, <2>4 DEF LookRight
<1>5. HitIsWhole'
  <2>1. \A v \in RcWorkers : rc_worker[v].at = "hit" => HitRight(rc_worker[v])
    BY <1>0, Zenon DEF HitIsWhole, HitRight
  <2>2. \A v \in RcWorkers : rc_worker'[v].at = "hit" => HitRight(rc_worker'[v])
    BY <2>1, <1>1, <1>2
  <2>. QED  BY <2>2, Zenon DEF HitIsWhole, HitRight
<1>. QED  BY <1>3, <1>4, <1>5

\* The beginning of rcache_store(): what will be overwritten is among the stores to come.
LEMMA StoreKeeps ==
  ASSUME RcInv, NEW w \in RcWorkers, rcache_store(w)
  PROVE  RcInv'
<1>0. RcTypes /\ TableInv /\ SeqInv /\ LookInv
  BY DEF RcInv
<1>1. /\ rc_worker[w] = RcIdle /\ rc_seq % 2 = 0 /\ rc_seq' = rc_seq + 1
      /\ rc_head' = rc_head /\ rc_next' = rc_next /\ rc_ent' = rc_ent /\ rc_data' = rc_data
  BY DEF rcache_store
<1>2. PICK b \in Bodies :
        rc_worker' = [rc_worker EXCEPT ![w] = [at |-> "store", b |-> b, off |-> Offset(b), slot |-> Slot(b),
                                               left |-> Stores(b), full |-> Unused(b) = {}]]
  BY Zenon DEF rcache_store
<1>3. PICK o, t, left, full : o = Offset(b) /\ t = Slot(b) /\ left = Stores(b) /\ full = (Unused(b) = {})
  BY Zenon
<1>. DEFINE s == [at |-> "store", b |-> b, off |-> o, slot |-> t, left |-> left, full |-> full]
<1>4. o \in Nat /\ t \in Index /\ b.words \in Nat \ {0} /\ o + b.words <= RcWords
  BY <1>0, <1>3, OffsetFits, SlotIsEntry
<1>5. /\ \A i \in Cleared(b) \ {t} : EntWrite(i, "tag") \in left
      /\ \A f \in Fields : EntWrite(t, f) \in left
      /\ \A k \in 0 .. b.words - 1 : DataWrite(o + k) \in left
  BY <1>3, Zenon DEF Stores, EntWrite, DataWrite, Fields
<1>6. Cleared(b) \subseteq Index
  BY <1>0 DEF Cleared, RcTypes
<1>7. \A x \in left : \/ \E i \in Index \ {t} : x = EntWrite(i, "tag")
                      \/ \E f \in Fields : x = EntWrite(t, f)
                      \/ \E k \in 0 .. b.words - 1 : x = DataWrite(o + k)
  BY <1>3, <1>6, Zenon DEF Stores, EntWrite, DataWrite, Fields
<1>8. left \subseteq [in : {"ent", "data"}, i : Nat, field : Fields \cup {"word"}]
  <2>1. \A i \in Nat, f \in Fields \cup {"word"} :
          /\ EntWrite(i, f) \in [in : {"ent", "data"}, i : Nat, field : Fields \cup {"word"}]
          /\ DataWrite(i) \in [in : {"ent", "data"}, i : Nat, field : Fields \cup {"word"}]
    BY DEF EntWrite, DataWrite
  <2>2. Index \subseteq Nat /\ \A k \in 0 .. b.words - 1 : o + k \in Nat
    BY <1>4, RcAssumption DEF Index
  <2>3. "tag" \in Fields
    BY DEF Fields
  <2>. QED  BY <1>4, <1>7, <2>1, <2>2, <2>3
<1>9. s \in Storing
  <2>1. full \in BOOLEAN
    BY <1>3
  <2>. QED  BY <1>4, <1>8, <2>1 DEF Storing
<1>10. rc_worker' = [rc_worker EXCEPT ![w] = s]
  BY <1>2, <1>3, Zenon
<1>11. InStore(s, rc_ent, rc_data)
  <2>1. ASSUME NEW i \in Index \ {t}
        PROVE  \/ rc_ent[i].tag = Free
               \/ EntWrite(i, "tag") \in left
               \/ Whole(rc_ent[i], rc_data) /\ Apart(rc_ent[i].off, rc_ent[i].words, o, b.words)
    <3>1. CASE rc_ent[i].tag = Free \/ i \in Cleared(b)
      BY <3>1, <1>5
    <3>2. CASE rc_ent[i].tag # Free /\ i \notin Cleared(b)
      <4>1. Whole(rc_ent[i], rc_data)
        BY <3>2, <1>0, <1>1 DEF TableInv
      <4>2. rc_ent[i] \in Ents /\ i \in DOMAIN rc_ent
        BY <1>0 DEF RcTypes
      <4>3. rc_ent[i].off \in Nat /\ rc_ent[i].words \in Nat
        BY <4>2 DEF Ents
      <4>4. ~ (rc_ent[i].off < o + b.words /\ o < rc_ent[i].off + rc_ent[i].words)
        BY <3>2, <4>2, <1>3 DEF Cleared
      <4>5. Apart(rc_ent[i].off, rc_ent[i].words, o, b.words)
        BY <4>3, <4>4, <1>4 DEF Apart
      <4>. QED  BY <4>1, <4>5
    <3>. QED  BY <3>1, <3>2
  <2>2. /\ EntWrite(t, "tag") \in left /\ EntWrite(t, "words") \in left
        /\ EntWrite(t, "off") \in left /\ EntWrite(t, "counts") \in left
    BY <1>5 DEF Fields
  <2>3. o + b.words <= RcWords /\ \A k \in 0 .. b.words - 1 : DataWrite(o + k) \in left
    BY <1>4, <1>5
  <2>4. Halfway(b, o, t, left, rc_ent, rc_data)
    BY <2>1, <2>2, <2>3, <1>7, Zenon DEF Halfway
  <2>. QED  BY <2>4 DEF InStore
<1>. HIDE DEF s
<1>12. s.at = "store"
  BY <1>9 DEF Storing
<1>13. \A v \in RcWorkers : rc_worker[v].at # "store"
  BY <1>0, <1>1 DEF SeqInv
<1>14. rc_worker'[w] = s /\ \A v \in RcWorkers \ {w} : rc_worker'[v] = rc_worker[v]
  BY <1>0, <1>10 DEF RcTypes
<1>15. rc_seq \in Nat /\ rc_seq' \in Nat /\ rc_seq' % 2 = 1
  BY <1>0, <1>1 DEF RcTypes
<1>16. ~ Reading(rc_worker[w])
  BY <1>1 DEF Reading, RcIdle
<1>17. \A v \in RcWorkers : Reading(rc_worker[v]) => rc_worker[v].s1 # rc_seq'
  BY <1>1, <1>15, LookFacts DEF LookRight
<1>18. /\ rc_worker' \in [RcWorkers -> {RcIdle} \cup Storing \cup Looking \cup Sizing \cup Copying \cup Hits]
       /\ LookInv' /\ HitIsWhole'
  BY <1>1, <1>9, <1>10, <1>16, <1>17, StoreStep, Zenon
<1>19. RcTypes'
  BY <1>0, <1>1, <1>15, <1>18, Zenon DEF RcTypes
<1>20. TableInv'
  <2>1. rc_seq' % 2 # 0
    BY <1>15, OddIsNotEven, Zenon
  <2>. QED  BY <2>1, Zenon DEF TableInv
<1>21. SeqInv'
  BY <1>13, <1>14, <1>15, Zenon DEF SeqInv
<1>22. StoreInv'
  BY <1>1, <1>11, <1>13, <1>14, Zenon DEF StoreInv
<1>. QED  BY <1>18, <1>19, <1>20, <1>21, <1>22 DEF RcInv

\* One of the stores: the rest of the entries in use stays as it was.
LEMMA HalfwayKept ==
  ASSUME RcTypes, NEW b \in Bodies, NEW o \in Nat, NEW t \in Index, NEW left, NEW x \in left,
         Halfway(b, o, t, left, rc_ent, rc_data),
         \/ /\ x.in = "data"
            /\ rc_data' = [rc_data EXCEPT ![x.i] = Word(b, x.i - o)] /\ rc_ent' = rc_ent
         \/ /\ x.in # "data" /\ rc_data' = rc_data
            /\ rc_ent' = [rc_ent EXCEPT ![x.i] =
                    IF x.i # t THEN [@ EXCEPT !.tag = Free]
                    ELSE IF x.field = "tag" THEN [@ EXCEPT !.tag = b.tag]
                    ELSE IF x.field = "words" THEN [@ EXCEPT !.words = b.words]
                    ELSE IF x.field = "off" THEN [@ EXCEPT !.off = o] ELSE [@ EXCEPT !.counts = b]]
  PROVE  /\ rc_ent' \in [Index -> Ents] /\ rc_data' \in [Places -> WordSet]
         /\ Halfway(b, o, t, left \ {x}, rc_ent', rc_data')
<1>. DEFINE rest == left \ {x}
<1>0. /\ b.words \in Nat \ {0} /\ b.tag \in Tags /\ RcWords \in Nat
      /\ rc_ent \in [Index -> Ents] /\ rc_data \in [Places -> WordSet]
  BY RcAssumption DEF RcTypes, Tags
<1>1. /\ o + b.words <= RcWords
      /\ \A y \in left : \/ \E i \in Index \ {t} : y = EntWrite(i, "tag")
                         \/ \E f \in Fields : y = EntWrite(t, f)
                         \/ \E k \in 0 .. b.words - 1 : y = DataWrite(o + k)
  BY Zenon DEF Halfway
<1>2. /\ \A i \in Index \ {t} :
           \/ rc_ent[i].tag = Free
           \/ EntWrite(i, "tag") \in left
           \/ Whole(rc_ent[i], rc_data) /\ Apart(rc_ent[i].off, rc_ent[i].words, o, b.words)
      /\ \A k \in 0 .. b.words - 1 : DataWrite(o + k) \in left \/ rc_data[o + k] = Word(b, k)
  BY Zenon DEF Halfway
<1>3. /\ EntWrite(t, "tag") \in left \/ rc_ent[t].tag = b.tag
      /\ EntWrite(t, "words") \in left \/ rc_ent[t].words = b.words
      /\ EntWrite(t, "off") \in left \/ rc_ent[t].off = o
      /\ EntWrite(t, "counts") \in left \/ rc_ent[t].counts = b
  BY Zenon DEF Halfway
<1>. DEFINE Others == \A i \in Index \ {t} :
                        \/ rc_ent'[i].tag = Free
                        \/ EntWrite(i, "tag") \in rest
                        \/ Whole(rc_ent'[i], rc_data') /\ Apart(rc_ent'[i].off, rc_ent'[i].words, o, b.words)
            Own == /\ EntWrite(t, "tag") \in rest \/ rc_ent'[t].tag = b.tag
                   /\ EntWrite(t, "words") \in rest \/ rc_ent'[t].words = b.words
                   /\ EntWrite(t, "off") \in rest \/ rc_ent'[t].off = o
                   /\ EntWrite(t, "counts") \in rest \/ rc_ent'[t].counts = b
            Data == \A k \in 0 .. b.words - 1 : DataWrite(o + k) \in rest \/ rc_data'[o + k] = Word(b, k)
<1>4. Others /\ Own /\ Data => Halfway(b, o, t, left \ {x}, rc_ent', rc_data')
  <2>1. \A y \in rest : y \in left
    OBVIOUS
  <2>. HIDE DEF rest
  <2>2. Others /\ Own /\ Data => Halfway(b, o, t, rest, rc_ent', rc_data')
    BY <1>1, <2>1, Zenon DEF Halfway
  <2>. QED  BY <2>2 DEF rest
<1>5. CASE \E k \in 0 .. b.words - 1 : x = DataWrite(o + k)
  <2>1. PICK k \in 0 .. b.words - 1 : x = DataWrite(o + k)
    BY <1>5
  <2>2. x.in = "data" /\ x.i = o + k /\ o + k \in Places /\ (o + k) - o = k
    BY <2>1, <1>0, <1>1, RcAssumption DEF DataWrite, Places
  <2>3. rc_data' = [rc_data EXCEPT ![o + k] = Word(b, k)] /\ rc_ent' = rc_ent
    BY <2>2
  <2>4. rc_data'[o + k] = Word(b, k) /\ \A p \in Places \ {o + k} : rc_data'[p] = rc_data[p]
    BY <2>2, <2>3, <1>0
  <2>5. rc_data' \in [Places -> WordSet]
    <3>1. Word(b, k) \in WordSet
      BY <1>0 DEF WordSet
    <3>. QED  BY <3>1, <2>3, <1>0, ZenonT(30)
  <2>6. \A y \in left : y # x => y \in rest
    OBVIOUS
  <2>7. \A i, f : EntWrite(i, f) # x
    BY <2>1, Distinct
  <2>8. ASSUME NEW i \in Index \ {t},
               Whole(rc_ent[i], rc_data), Apart(rc_ent[i].off, rc_ent[i].words, o, b.words)
        PROVE  Whole(rc_ent[i], rc_data')
    <3>1. rc_ent[i].off \in Nat /\ rc_ent[i].words \in Nat
      BY <1>0 DEF Ents
    <3>2. ASSUME NEW j \in 0 .. rc_ent[i].words - 1 PROVE rc_data'[rc_ent[i].off + j] = Word(rc_ent[i].counts, j)
      <4>0. rc_ent[i].off + rc_ent[i].words <= RcWords
        BY <2>8 DEF Whole
      <4>1. rc_ent[i].off + j \in Places /\ rc_ent[i].off + j # o + k
        BY <4>0, <3>1, <2>8, <1>0, ApartPlaces
      <4>2. rc_data[rc_ent[i].off + j] = Word(rc_ent[i].counts, j)
        BY <2>8 DEF Whole
      <4>. QED  BY <4>1, <4>2, <2>4
    <3>. QED  BY <3>2, <2>8, Zenon DEF Whole
  <2>9. ASSUME NEW j \in 0 .. b.words - 1 PROVE DataWrite(o + j) \in rest \/ rc_data'[o + j] = Word(b, j)
    <3>1. CASE j = k
      BY <3>1, <2>4
    <3>2. CASE j # k
      <4>1. o + j # o + k /\ o + j \in Places
        BY <3>2, <1>0, <1>1, RcAssumption DEF Places
      <4>2. DataWrite(o + j) # x
        BY <4>1, <2>1, Distinct, Zenon
      <4>. QED  BY <4>1, <4>2, <2>4, <2>6, <1>2
    <3>. QED  BY <3>1, <3>2
  <2>. HIDE DEF rest
  <2>10. Others
    BY <2>3, <2>6, <2>7, <2>8, <1>2, Zenon
  <2>11. Own
    BY <2>3, <2>6, <2>7, <1>3
  <2>12. Data
    BY <2>9, Zenon
  <2>. QED  BY <2>3, <2>5, <2>10, <2>11, <2>12, <1>0, <1>4, Zenon
<1>6. CASE \E i \in Index \ {t} : x = EntWrite(i, "tag")
  <2>1. PICK i \in Index \ {t} : x = EntWrite(i, "tag")
    BY <1>6
  <2>2. x.in # "data" /\ x.i = i /\ i # t
    BY <2>1 DEF EntWrite
  <2>3. rc_data' = rc_data /\ rc_ent' = [rc_ent EXCEPT ![i] = [@ EXCEPT !.tag = Free]]
    BY <2>2
  <2>4. rc_ent' \in [Index -> Ents] /\ rc_ent'[i].tag = Free /\ \A j \in Index \ {i} : rc_ent'[j] = rc_ent[j]
    BY <2>3, <1>0 DEF Ents
  <2>5. \A y \in left : y # x => y \in rest
    OBVIOUS
  <2>6. /\ \A j, f : j # i => EntWrite(j, f) # x
        /\ \A j : DataWrite(j) # x
    BY <2>1, Distinct
  <2>7. rc_ent'[t] = rc_ent[t]
    BY <2>2, <2>4, <1>0
  <2>8. ASSUME NEW j \in Index \ {t}
        PROVE  \/ rc_ent'[j].tag = Free
               \/ EntWrite(j, "tag") \in rest
               \/ Whole(rc_ent'[j], rc_data') /\ Apart(rc_ent'[j].off, rc_ent'[j].words, o, b.words)
    <3>1. CASE j = i
      BY <3>1, <2>4
    <3>2. CASE j # i
      <4>1. rc_ent'[j] = rc_ent[j]
        BY <3>2, <2>4
      <4>. QED  BY <4>1, <3>2, <2>3, <2>5, <2>6, <1>2, Zenon
    <3>. QED  BY <3>1, <3>2
  <2>. HIDE DEF rest
  <2>9. Others
    BY <2>8, Zenon
  <2>10. Own
    BY <2>2, <2>5, <2>6, <2>7, <1>3, ZenonT(40)
  <2>11. Data
    BY <2>3, <2>5, <2>6, <1>2, Zenon
  <2>. QED  BY <2>3, <2>4, <2>9, <2>10, <2>11, <1>0, <1>4, Zenon
<1>7. CASE \E f \in Fields : x = EntWrite(t, f)
  <2>1. PICK f \in Fields : x = EntWrite(t, f)
    BY <1>7
  <2>2. x.in # "data" /\ x.i = t /\ x.field = f
    BY <2>1 DEF EntWrite
  <2>3. /\ rc_data' = rc_data
        /\ rc_ent' = [rc_ent EXCEPT ![t] = IF f = "tag" THEN [@ EXCEPT !.tag = b.tag]
                                           ELSE IF f = "words" THEN [@ EXCEPT !.words = b.words]
                                           ELSE IF f = "off" THEN [@ EXCEPT !.off = o] ELSE [@ EXCEPT !.counts = b]]
    BY <2>2
  <2>4. \A j \in Index \ {t} : rc_ent'[j] = rc_ent[j]
    BY <2>3, <1>0
  <2>5. PICK e : e = rc_ent[t]
    BY Zenon
  <2>6. e \in Ents
    BY <2>5, <1>0
  <2>7. rc_ent'[t] = IF f = "tag" THEN [e EXCEPT !.tag = b.tag]
                     ELSE IF f = "words" THEN [e EXCEPT !.words = b.words]
                     ELSE IF f = "off" THEN [e EXCEPT !.off = o] ELSE [e EXCEPT !.counts = b]
    BY <2>3, <2>5, <1>0
  <2>8. rc_ent'[t] \in Ents
    BY <2>6, <2>7, <1>0 DEF Ents
  <2>9. rc_ent' \in [Index -> Ents]
    BY <2>3, <2>5, <2>7, <2>8, <1>0
  <2>10. /\ f = "tag" \/ rc_ent'[t].tag = e.tag
         /\ f = "words" \/ rc_ent'[t].words = e.words
         /\ f = "off" \/ rc_ent'[t].off = e.off
         /\ f = "counts" \/ rc_ent'[t].counts = e.counts
    BY <2>6, <2>7 DEF Ents, Fields
  <2>11. /\ f = "tag" => rc_ent'[t].tag = b.tag
         /\ f = "words" => rc_ent'[t].words = b.words
         /\ f = "off" => rc_ent'[t].off = o
         /\ f = "counts" => rc_ent'[t].counts = b
    BY <2>6, <2>7 DEF Ents
  <2>12. \A y \in left : y # x => y \in rest
    OBVIOUS
  <2>13. /\ \A g : g # f => EntWrite(t, g) # x
         /\ \A j \in Index \ {t} : EntWrite(j, "tag") # x
         /\ \A j : DataWrite(j) # x
    BY <2>1, Distinct
  <2>. HIDE DEF rest
  <2>14. Others
    BY <2>3, <2>4, <2>12, <2>13, <1>2, Zenon
  <2>15. Own
    BY <2>5, <2>10, <2>11, <2>12, <2>13, <1>3
  <2>16. Data
    BY <2>3, <2>12, <2>13, <1>2, Zenon
  <2>. QED  BY <2>3, <2>9, <2>14, <2>15, <2>16, <1>0, <1>4, Zenon
<1>. QED  BY <1>1, <1>5, <1>6, <1>7, Zenon

\* One store of rcache_store().
LEMMA StoreOneKeeps ==
  ASSUME RcInv, NEW w \in RcWorkers, StoreOne(w)
  PROVE  RcInv'
<1>. DEFINE s == rc_worker[w]
<1>0. RcTypes /\ SeqInv /\ StoreInv /\ LookInv
  BY DEF RcInv
<1>1. s.at = "store" /\ rc_seq' = rc_seq /\ rc_head' = rc_head /\ rc_next' = rc_next
  BY DEF StoreOne
<1>2. s \in Storing
  BY <1>0, <1>1, WorkShape
<1>3. PICK b, o, t, left, full : s = [at |-> "store", b |-> b, off |-> o, slot |-> t, left |-> left, full |-> full]
  BY <1>2, Zenon DEF Storing
<1>4. s.b = b /\ s.off = o /\ s.slot = t /\ s.left = left
  BY <1>3
<1>5. b \in Bodies /\ o \in Nat /\ t \in Index
  BY <1>2, <1>4 DEF Storing
<1>6. PICK x \in s.left :
        /\ rc_worker' = [rc_worker EXCEPT ![w].left = @ \ {x}]
        /\ IF x.in = "data"
           THEN rc_data' = [rc_data EXCEPT ![x.i] = Word(s.b, x.i - s.off)] /\ UNCHANGED rc_ent
           ELSE /\ rc_ent' = [rc_ent EXCEPT ![x.i] =
                     IF x.i # s.slot THEN [@ EXCEPT !.tag = Free]
                     ELSE IF x.field = "tag" THEN [@ EXCEPT !.tag = s.b.tag]
                     ELSE IF x.field = "words" THEN [@ EXCEPT !.words = s.b.words]
                     ELSE IF x.field = "off" THEN [@ EXCEPT !.off = s.off] ELSE [@ EXCEPT !.counts = s.b]]
                /\ UNCHANGED rc_data
  BY Zenon DEF StoreOne
<1>. DEFINE r == [at |-> "store", b |-> b, off |-> o, slot |-> t, left |-> left \ {x}, full |-> full]
<1>7. rc_worker' = [rc_worker EXCEPT ![w] = r]
  <2>1. [s EXCEPT !.left = left \ {x}] = r
    BY <1>3
  <2>2. rc_worker' = [rc_worker EXCEPT ![w] = [s EXCEPT !.left = left \ {x}]]
    BY <1>4, <1>6
  <2>. QED  BY <2>1, <2>2, ZenonT(30)
<1>8. r \in Storing
  BY <1>2, <1>3 DEF Storing
<1>9. Halfway(b, o, t, left, rc_ent, rc_data)
  BY <1>0, <1>1, <1>4, Zenon DEF StoreInv, InStore
<1>10. x \in left
  BY <1>4
<1>11. \/ /\ x.in = "data"
          /\ rc_data' = [rc_data EXCEPT ![x.i] = Word(b, x.i - o)] /\ rc_ent' = rc_ent
       \/ /\ x.in # "data" /\ rc_data' = rc_data
          /\ rc_ent' = [rc_ent EXCEPT ![x.i] =
                    IF x.i # t THEN [@ EXCEPT !.tag = Free]
                    ELSE IF x.field = "tag" THEN [@ EXCEPT !.tag = b.tag]
                    ELSE IF x.field = "words" THEN [@ EXCEPT !.words = b.words]
                    ELSE IF x.field = "off" THEN [@ EXCEPT !.off = o] ELSE [@ EXCEPT !.counts = b]]
  BY <1>4, <1>6, Zenon
<1>12. /\ rc_ent' \in [Index -> Ents] /\ rc_data' \in [Places -> WordSet]
       /\ Halfway(b, o, t, left \ {x}, rc_ent', rc_data')
  BY <1>0, <1>5, <1>9, <1>10, <1>11, HalfwayKept, ZenonT(30)
<1>13. r.at = "store" /\ InStore(r, rc_ent', rc_data')
  BY <1>12 DEF InStore
<1>. HIDE DEF r
<1>14. rc_worker'[w] = r /\ \A v \in RcWorkers \ {w} : rc_worker'[v] = rc_worker[v]
  BY <1>0, <1>7 DEF RcTypes
<1>15. rc_seq % 2 = 1 /\ rc_seq \in Nat
  BY <1>0, <1>1 DEF SeqInv, RcTypes
<1>16. ~ Reading(rc_worker[w])
  BY <1>1 DEF Reading
<1>17. \A v \in RcWorkers : Reading(rc_worker[v]) => rc_worker[v].s1 # rc_seq
  BY <1>15, LookFacts DEF LookRight
<1>18. /\ rc_worker' \in [RcWorkers -> {RcIdle} \cup Storing \cup Looking \cup Sizing \cup Copying \cup Hits]
       /\ LookInv' /\ HitIsWhole'
  BY <1>1, <1>7, <1>8, <1>16, <1>17, StoreStep, Zenon
<1>19. RcTypes'
  BY <1>0, <1>1, <1>12, <1>18, Zenon DEF RcTypes
<1>20. TableInv'
  <2>1. rc_seq' % 2 # 0
    BY <1>1, <1>15, OddIsNotEven, Zenon
  <2>. QED  BY <2>1, Zenon DEF TableInv
<1>21. \A v \in RcWorkers : rc_worker'[v].at = "store" => v = w
  BY <1>0, <1>1, <1>14, Zenon DEF SeqInv
<1>22. SeqInv'
  BY <1>1, <1>15, <1>21, Zenon DEF SeqInv
<1>23. StoreInv'
  BY <1>13, <1>14, <1>21, Zenon DEF StoreInv
<1>. QED  BY <1>18, <1>19, <1>20, <1>22, <1>23 DEF RcInv

\* The end of rcache_store(): nothing is left to write, the entry that was written is whole.
LEMMA StoreEndKeeps ==
  ASSUME RcInv, NEW w \in RcWorkers, StoreEnd(w)
  PROVE  RcInv'
<1>. DEFINE s == rc_worker[w]
<1>0. RcTypes /\ SeqInv /\ StoreInv /\ LookInv
  BY DEF RcInv
<1>1. /\ s.at = "store" /\ s.left = {} /\ rc_seq' = rc_seq + 1 /\ rc_head' = s.off + s.b.words
      /\ rc_next' = (IF s.full THEN rc_next + 1 ELSE rc_next) /\ rc_ent' = rc_ent /\ rc_data' = rc_data
      /\ rc_worker' = [rc_worker EXCEPT ![w] = RcIdle]
  BY DEF StoreEnd
<1>2. s \in Storing
  BY <1>0, <1>1, WorkShape
<1>3. PICK b, o, t : s.b = b /\ s.off = o /\ s.slot = t
  BY Zenon
<1>4. b \in Bodies /\ o \in Nat /\ t \in Index /\ b.words \in Nat
  BY <1>2, <1>3, RcAssumption DEF Storing
<1>5. Halfway(b, o, t, {}, rc_ent, rc_data)
  BY <1>0, <1>1, <1>3, Zenon DEF StoreInv, InStore
<1>6. rc_ent[t].tag = b.tag /\ rc_ent[t].words = b.words /\ rc_ent[t].off = o /\ rc_ent[t].counts = b
  BY <1>5 DEF Halfway
<1>7. \A k \in 0 .. b.words - 1 : rc_data[o + k] = Word(b, k)
  BY <1>5 DEF Halfway
<1>8. Whole(rc_ent[t], rc_data)
  <2>1. o + b.words <= RcWords
    BY <1>5 DEF Halfway
  <2>. QED  BY <2>1, <1>4, <1>6, <1>7 DEF Whole
<1>9. \A i \in Index \ {t} : rc_ent[i].tag = Free \/ Whole(rc_ent[i], rc_data)
  <2>1. \A i : EntWrite(i, "tag") \notin {}
    OBVIOUS
  <2>. QED  BY <2>1, <1>5, Zenon DEF Halfway
<1>10. TableInv'
  BY <1>1, <1>8, <1>9, Zenon DEF TableInv
<1>11. rc_seq \in Nat /\ rc_seq' \in Nat /\ rc_head' \in Nat /\ rc_next' \in Nat
  BY <1>0, <1>1, <1>3, <1>4 DEF RcTypes
<1>12. ~ Reading(rc_worker[w])
  BY <1>1 DEF Reading
<1>13. \A v \in RcWorkers : Reading(rc_worker[v]) => rc_worker[v].s1 # rc_seq'
  BY <1>1, <1>11, LookFacts DEF LookRight
<1>14. /\ rc_worker' \in [RcWorkers -> {RcIdle} \cup Storing \cup Looking \cup Sizing \cup Copying \cup Hits]
       /\ LookInv' /\ HitIsWhole'
  BY <1>1, <1>12, <1>13, StoreStep, Zenon
<1>15. RcTypes'
  BY <1>0, <1>1, <1>11, <1>14, Zenon DEF RcTypes
<1>16. \A v \in RcWorkers : rc_worker'[v].at # "store"
  <2>1. rc_worker'[w] = RcIdle /\ \A v \in RcWorkers \ {w} : rc_worker'[v] = rc_worker[v]
    BY <1>0, <1>1 DEF RcTypes
  <2>2. RcIdle.at # "store"
    BY DEF RcIdle
  <2>. QED  BY <2>1, <2>2, <1>0, <1>1, Zenon DEF SeqInv
<1>17. SeqInv' /\ StoreInv'
  BY <1>16, Zenon DEF SeqInv, StoreInv
<1>. QED  BY <1>10, <1>14, <1>15, <1>17 DEF RcInv

-----------------------------------------------------------------------------
(* The theorem of the set *)

\* Every step of every worker keeps the invariant.
LEMMA RcNextInv == RcInv /\ [RcNext]_rcvars => RcInv'
<1> SUFFICES ASSUME RcInv, [RcNext]_rcvars
             PROVE  RcInv'
  OBVIOUS
<1>1. CASE RcNext
  BY <1>1, StoreKeeps, StoreOneKeeps, StoreEndKeeps, LookupKeeps, TagKeeps, WordsKeeps, OffKeeps, CopyKeeps,
     LookEndKeeps, ServedKeeps, Zenon DEF RcNext
<1>2. CASE UNCHANGED rcvars
  BY <1>2, Zenon DEF rcvars, RcInv, RcTypes, TableInv, SeqInv, StoreInv, LookInv, HitIsWhole
<1>. QED  BY <1>1, <1>2

\* What rcache_lookup() returns is one response that was stored under the key asked for, with all of its
\* words and its own counts, for any number of workers that store and look up meanwhile.
THEOREM HitsWhole == RcSpec => []HitIsWhole
<1>1. RcInv => HitIsWhole
  BY DEF RcInv
<1>. QED  BY <1>1, RcInitInv, RcNextInv, PTL DEF RcSpec

-----------------------------------------------------------------------------
(* What is in the cache *)

\* The versions somebody may still store an answer of: the zone's, and those of the workers that resolve.
Resolving == {w \in AcWorkers : ac_worker[w].at \in {"asked", "built"}}

\* A generation names one content of the zone.
SameContent(u, v) == u.gen = v.gen => u.data = v.data /\ u.tagged = v.tagged

GenInv ==
  /\ ac_gen \in Nat /\ ac_ver.gen \in Nat /\ ac_ver.gen < ac_gen
  /\ \A w \in Resolving : ac_worker[w].ver.gen \in Nat /\ ac_worker[w].ver.gen < ac_gen /\ SameContent(ac_worker[w].ver, ac_ver)
  /\ \A v, w \in Resolving : SameContent(ac_worker[v].ver, ac_worker[w].ver)

\* What a worker carries.
Carries(r) ==
  /\ r.at \in {"idle", "asked", "built", "hit"}
  /\ r.at = "asked" => r.key = Key(r.q, r.ver, r.cfg)
  /\ r.at = "built" => \E sib, cfg, client : r.key = Key(r.q, r.ver, cfg) /\ r.body = Body(r.q, r.ver, sib, cfg, client)
  /\ r.at = "hit" => r.body = r.fresh

WorkInv == DOMAIN ac_worker = AcWorkers /\ \A w \in AcWorkers : Carries(ac_worker[w])

\* What an entry holds, against a version that has its generation.
Tells(e, v) == e.key.gen = v.gen => ~v.tagged /\ e.body = Body("own", v, 0, e.key.cfg, 0)

CacheInv ==
  /\ \A e \in ac_cache : e.key.q = "own" /\ e.key.gen \in Nat /\ e.key.gen < ac_gen
  /\ \A e \in ac_cache : Tells(e, ac_ver) /\ \A w \in Resolving : Tells(e, ac_worker[w].ver)

AcInv == GenInv /\ WorkInv /\ CacheInv

-----------------------------------------------------------------------------
(* Every step keeps it *)

\* Nothing is cached and nobody resolves.
LEMMA AcInitInv == AcInit => AcInv
<1> SUFFICES ASSUME AcInit
             PROVE  AcInv
  OBVIOUS
<1>1. \A w \in AcWorkers : ac_worker[w].at = "idle"
  BY DEF AcInit, NoQuery
<1>2. Resolving = {}
  BY <1>1 DEF Resolving
<1>. QED  BY <1>1, <1>2 DEF AcInit, AcInv, GenInv, WorkInv, CacheInv, Carries

\* A step of one worker.
LEMMA AcMoves ==
  ASSUME AcInv, NEW w \in AcWorkers, NEW r, ac_worker' = [ac_worker EXCEPT ![w] = r]
  PROVE  /\ DOMAIN ac_worker' = AcWorkers
         /\ ac_worker'[w] = r
         /\ \A v \in AcWorkers \ {w} : ac_worker'[v] = ac_worker[v]
BY DEF AcInv, WorkInv

\* The versions that are resolved stay, and so does what is cached: the other invariants stay.
LEMMA AcQuiet ==
  ASSUME AcInv, NEW w \in AcWorkers, UNCHANGED <<ac_ver, ac_gen, ac_cache>>,
         DOMAIN ac_worker' = AcWorkers, \A v \in AcWorkers \ {w} : ac_worker'[v] = ac_worker[v],
         ac_worker'[w].at \in {"asked", "built"} =>
           \/ ac_worker'[w].ver = ac_ver
           \/ w \in Resolving /\ ac_worker'[w].ver = ac_worker[w].ver
  PROVE  GenInv' /\ CacheInv'
<1>1. \A v \in Resolving' : \/ ac_worker'[v].ver = ac_ver
                            \/ v \in Resolving /\ ac_worker'[v].ver = ac_worker[v].ver
  BY Zenon DEF Resolving
<1>2. GenInv'
  <2>1. \A v \in Resolving' : /\ ac_worker'[v].ver.gen \in Nat /\ ac_worker'[v].ver.gen < ac_gen
                              /\ SameContent(ac_worker'[v].ver, ac_ver)
    BY <1>1 DEF AcInv, GenInv, SameContent
  <2>2. \A u, v \in Resolving' : SameContent(ac_worker'[u].ver, ac_worker'[v].ver)
    <3>. TAKE u, v \in Resolving'
    <3>1. SameContent(ac_worker'[u].ver, ac_ver) /\ SameContent(ac_worker'[v].ver, ac_ver)
      BY <2>1
    <3>2. CASE ac_worker'[u].ver = ac_ver \/ ac_worker'[v].ver = ac_ver
      BY <3>1, <3>2 DEF SameContent
    <3>3. CASE /\ u \in Resolving /\ ac_worker'[u].ver = ac_worker[u].ver
               /\ v \in Resolving /\ ac_worker'[v].ver = ac_worker[v].ver
      BY <3>3 DEF AcInv, GenInv
    <3>. QED  BY <1>1, <3>2, <3>3
  <2>. QED  BY <2>1, <2>2 DEF AcInv, GenInv, SameContent
<1>3. CacheInv'
  <2>1. \A e \in ac_cache : \A v \in Resolving' : Tells(e, ac_worker'[v].ver)
    BY <1>1, Zenon DEF AcInv, CacheInv
  <2>. QED  BY <2>1, Zenon DEF AcInv, CacheInv, Tells
<1>. QED  BY <1>2, <1>3

\* A question is looked up in the cache, or goes on to be resolved.
LEMMA AskKeeps == ASSUME AcInv, NEW w \in AcWorkers, Ask(w)
                  PROVE  AcInv'
<1>1. PICK q \in Questions, c \in Clients :
        LET key == Key(q, ac_ver, ac_cfg)
            hit == {e \in ac_cache : e.key = key} IN
        ac_worker' = [ac_worker EXCEPT ![w] =
          IF rcache_ok(ac_ver) /\ hit # {}
          THEN [at |-> "hit", body |-> (CHOOSE e \in hit : TRUE).body, fresh |-> Body(q, ac_ver, ac_sib, ac_cfg, c)]
          ELSE [at |-> "asked", q |-> q, client |-> c, ver |-> ac_ver, cfg |-> ac_cfg, key |-> key]]
  BY Zenon DEF Ask
<1>2. UNCHANGED <<ac_ver, ac_gen, ac_cache>>
  BY DEF Ask
<1> DEFINE key == Key(q, ac_ver, ac_cfg)
           hit == {e \in ac_cache : e.key = key}
           found == [at |-> "hit", body |-> (CHOOSE e \in hit : TRUE).body, fresh |-> Body(q, ac_ver, ac_sib, ac_cfg, c)]
           asked == [at |-> "asked", q |-> q, client |-> c, ver |-> ac_ver, cfg |-> ac_cfg, key |-> key]
<1>3. CASE rcache_ok(ac_ver) /\ hit # {}
  <2>1. ac_worker' = [ac_worker EXCEPT ![w] = found]
    BY <1>1, <1>3
  <2>2. /\ DOMAIN ac_worker' = AcWorkers
        /\ ac_worker'[w] = found
        /\ \A v \in AcWorkers \ {w} : ac_worker'[v] = ac_worker[v]
    BY <2>1, AcMoves
  <2>3. found.at = "hit" /\ found.body = (CHOOSE e \in hit : TRUE).body /\ found.fresh = Body(q, ac_ver, ac_sib, ac_cfg, c)
    OBVIOUS
  <2>4. PICK e \in ac_cache : e.key = key /\ found.body = e.body
    BY <1>3, <2>3, Zenon
  <2>5. key.q = q /\ key.gen = ac_ver.gen /\ key.cfg = ac_cfg
    BY DEF Key
  <2>6. q = "own" /\ ~ac_ver.tagged /\ e.body = Body("own", ac_ver, 0, ac_cfg, 0)
    BY <2>4, <2>5, Zenon DEF AcInv, CacheInv, Tells
  <2>7. found.body = found.fresh
    BY <2>3, <2>4, <2>6 DEF Body
  <2> HIDE DEF found, key, hit
  <2>8. GenInv' /\ CacheInv'
    BY <1>2, <2>2, <2>3, AcQuiet
  <2>9. WorkInv'
    <3>1. Carries(found)
      BY <2>3, <2>7 DEF Carries
    <3>. QED  BY <2>2, <3>1, Zenon DEF AcInv, WorkInv
  <2>. QED  BY <2>8, <2>9 DEF AcInv
<1>4. CASE ~(rcache_ok(ac_ver) /\ hit # {})
  <2>1. ac_worker' = [ac_worker EXCEPT ![w] = asked]
    BY <1>1, <1>4, ZenonT(30)
  <2>2. /\ DOMAIN ac_worker' = AcWorkers
        /\ ac_worker'[w] = asked
        /\ \A v \in AcWorkers \ {w} : ac_worker'[v] = ac_worker[v]
    BY <2>1, AcMoves, ZenonT(30)
  <2>3. asked.at = "asked" /\ asked.ver = ac_ver /\ asked.key = Key(asked.q, asked.ver, asked.cfg)
    OBVIOUS
  <2> HIDE DEF asked, key, hit
  <2>4. GenInv' /\ CacheInv'
    BY <1>2, <2>2, <2>3, AcQuiet
  <2>5. WorkInv'
    <3>1. Carries(asked)
      BY <2>3 DEF Carries
    <3>. QED  BY <2>2, <3>1, Zenon DEF AcInv, WorkInv
  <2>. QED  BY <2>4, <2>5, SMTT(30) DEF AcInv
<1>. QED  BY <1>3, <1>4

\* An answer is made from the version and the configuration of the read section.
LEMMA ResolveKeeps == ASSUME AcInv, NEW w \in AcWorkers, Resolve(w)
                      PROVE  AcInv'
<1> DEFINE s == ac_worker[w]
           built == [at |-> "built", q |-> s.q, ver |-> s.ver, key |-> s.key, body |-> Body(s.q, s.ver, ac_sib, s.cfg, s.client)]
<1>1. /\ s.at = "asked" /\ ac_worker' = [ac_worker EXCEPT ![w] = built]
      /\ UNCHANGED <<ac_ver, ac_gen, ac_cache>>
  BY DEF Resolve
<1>2. /\ DOMAIN ac_worker' = AcWorkers
      /\ ac_worker'[w] = built
      /\ \A v \in AcWorkers \ {w} : ac_worker'[v] = ac_worker[v]
  BY <1>1, AcMoves, ZenonT(30)
<1>3. /\ built.at = "built" /\ built.ver = s.ver /\ built.q = s.q /\ built.key = s.key
      /\ built.body = Body(s.q, s.ver, ac_sib, s.cfg, s.client)
  OBVIOUS
<1>4. built.key = Key(built.q, built.ver, s.cfg) /\ built.body = Body(built.q, built.ver, ac_sib, s.cfg, s.client)
  BY <1>1, <1>3, Zenon DEF AcInv, WorkInv, Carries
<1>5. w \in Resolving
  BY <1>1 DEF Resolving
<1> HIDE DEF built
<1>6. GenInv' /\ CacheInv'
  BY <1>1, <1>2, <1>3, <1>5, AcQuiet
<1>7. WorkInv'
  <2>1. Carries(built)
    BY <1>3, <1>4, Zenon DEF Carries
  <2>. QED  BY <1>2, <2>1, Zenon DEF AcInv, WorkInv
<1>. QED  BY <1>6, <1>7 DEF AcInv

\* An answer of the zone alone goes into the cache.
LEMMA StoreAnswerKeeps == ASSUME AcInv, NEW w \in AcWorkers, Store(w)
                          PROVE  AcInv'
<1> DEFINE s == ac_worker[w]
           entry == [key |-> s.key, body |-> s.body]
<1>1. /\ s.at = "built" /\ ac_worker' = [ac_worker EXCEPT ![w] = NoQuery] /\ UNCHANGED <<ac_ver, ac_gen>>
      /\ ac_cache' = IF Storable(s.q) /\ rcache_ok(s.ver)
                     THEN {e \in ac_cache : e.key # s.key} \union {entry} ELSE ac_cache
  BY DEF Store
<1>2. /\ DOMAIN ac_worker' = AcWorkers
      /\ ac_worker'[w] = NoQuery
      /\ \A v \in AcWorkers \ {w} : ac_worker'[v] = ac_worker[v]
  BY <1>1, AcMoves, ZenonT(30)
<1>3. NoQuery.at = "idle"
  BY DEF NoQuery
<1>4. WorkInv'
  <2>1. Carries(NoQuery)
    BY <1>3 DEF Carries
  <2>. QED  BY <1>2, <2>1, Zenon DEF AcInv, WorkInv
<1>5. Resolving' \subseteq Resolving /\ \A v \in Resolving' : ac_worker'[v] = ac_worker[v]
  BY <1>2, <1>3 DEF Resolving
<1>6. GenInv'
  BY <1>1, <1>5, Zenon DEF AcInv, GenInv
<1>7. w \in Resolving
  BY <1>1 DEF Resolving
<1>8. \A e \in ac_cache : /\ e.key.q = "own" /\ e.key.gen \in Nat /\ e.key.gen < ac_gen /\ Tells(e, ac_ver)
                          /\ \A v \in Resolving : Tells(e, ac_worker[v].ver)
  BY Zenon DEF AcInv, CacheInv
<1>9. ASSUME Storable(s.q), rcache_ok(s.ver)
      PROVE  /\ entry.key.q = "own" /\ entry.key.gen \in Nat /\ entry.key.gen < ac_gen /\ Tells(entry, ac_ver)
             /\ \A v \in Resolving : Tells(entry, ac_worker[v].ver)
  <2>1. PICK sib, cfg, client : s.key = Key(s.q, s.ver, cfg) /\ s.body = Body(s.q, s.ver, sib, cfg, client)
    BY <1>1, Zenon DEF AcInv, WorkInv, Carries
  <2>2. s.q = "own" /\ ~s.ver.tagged
    BY <1>9 DEF Storable, rcache_ok
  <2>3. entry.key.q = "own" /\ entry.key.gen = s.ver.gen /\ entry.key.cfg = cfg
    BY <2>1, <2>2 DEF Key
  <2>4. entry.body = [q |-> "own", data |-> s.ver.data, sib |-> 0, cfg |-> cfg, client |-> 0]
    BY <2>1, <2>2 DEF Body
  <2>5. \A u : u.gen = s.ver.gen /\ u.data = s.ver.data /\ u.tagged = s.ver.tagged => Tells(entry, u)
    BY <2>2, <2>3, <2>4 DEF Tells, Body
  <2>6. \A u : SameContent(s.ver, u) => Tells(entry, u)
    BY <2>2, <2>3, <2>4 DEF Tells, Body, SameContent
  <2>7. SameContent(s.ver, ac_ver) /\ s.ver.gen \in Nat /\ s.ver.gen < ac_gen /\ \A v \in Resolving : SameContent(s.ver, ac_worker[v].ver)
    BY <1>7, Zenon DEF AcInv, GenInv
  <2> HIDE DEF entry
  <2>. QED  BY <2>3, <2>6, <2>7, Zenon
<1>10. \A e \in ac_cache' : /\ e.key.q = "own" /\ e.key.gen \in Nat /\ e.key.gen < ac_gen /\ Tells(e, ac_ver)
                            /\ \A v \in Resolving : Tells(e, ac_worker[v].ver)
  <2> HIDE DEF entry
  <2>1. CASE Storable(s.q) /\ rcache_ok(s.ver)
    <3>1. \A e \in ac_cache' : e \in ac_cache \/ e = entry
      BY <1>1, <2>1
    <3>. QED  BY <3>1, <1>8, <1>9, <2>1, Zenon
  <2>2. CASE ~(Storable(s.q) /\ rcache_ok(s.ver))
    BY <1>1, <1>8, <2>2, Zenon
  <2>. QED  BY <2>1, <2>2
<1>11. CacheInv'
  BY <1>1, <1>5, <1>10, ZenonT(40) DEF CacheInv, Tells
<1>. QED  BY <1>4, <1>6, <1>11 DEF AcInv

\* An answer from the cache is sent.
LEMMA SendHitKeeps == ASSUME AcInv, NEW w \in AcWorkers, SendHit(w)
                      PROVE  AcInv'
<1>1. ac_worker' = [ac_worker EXCEPT ![w] = NoQuery] /\ UNCHANGED <<ac_ver, ac_gen, ac_cache>>
  BY DEF SendHit
<1>2. /\ DOMAIN ac_worker' = AcWorkers
      /\ ac_worker'[w] = NoQuery
      /\ \A v \in AcWorkers \ {w} : ac_worker'[v] = ac_worker[v]
  BY <1>1, AcMoves, ZenonT(30)
<1>3. NoQuery.at = "idle"
  BY DEF NoQuery
<1>4. GenInv' /\ CacheInv'
  BY <1>1, <1>2, <1>3, AcQuiet
<1>5. WorkInv'
  <2>1. Carries(NoQuery)
    BY <1>3 DEF Carries
  <2>. QED  BY <1>2, <2>1, Zenon DEF AcInv, WorkInv
<1>. QED  BY <1>4, <1>5 DEF AcInv

\* A version that takes the next generation: nothing in the cache and nobody who resolves has that one.
LEMMA NewGeneration ==
  ASSUME AcInv, UNCHANGED <<ac_cache, ac_worker>>, ac_gen' = ac_gen + 1, ac_ver'.gen = ac_gen
  PROVE  AcInv'
<1>1. Resolving' = Resolving
  BY DEF Resolving
<1>2. ac_gen' \in Nat /\ ac_ver'.gen \in Nat /\ ac_ver'.gen < ac_gen'
  BY DEF AcInv, GenInv
<1>3. \A w \in Resolving : /\ ac_worker[w].ver.gen \in Nat /\ ac_worker[w].ver.gen < ac_gen'
                           /\ SameContent(ac_worker[w].ver, ac_ver')
  BY DEF AcInv, GenInv, SameContent
<1>4. GenInv'
  BY <1>1, <1>2, <1>3, ZenonT(30) DEF AcInv, GenInv, SameContent
<1>5. \A e \in ac_cache : e.key.gen \in Nat /\ e.key.gen < ac_gen' /\ Tells(e, ac_ver')
  BY DEF AcInv, GenInv, CacheInv, Tells
<1>6. CacheInv'
  BY <1>1, <1>5, Zenon DEF AcInv, CacheInv, Tells
<1>7. WorkInv'
  BY Zenon DEF AcInv, WorkInv
<1>. QED  BY <1>4, <1>6, <1>7 DEF AcInv

\* A step that leaves the zone's version, the cache and the workers alone.
LEMMA AcElsewhere == ASSUME AcInv, UNCHANGED <<ac_ver, ac_gen, ac_cache, ac_worker>>
                     PROVE  AcInv'
<1>1. Resolving' = Resolving
  BY DEF Resolving
<1>2. GenInv'
  BY <1>1, Zenon DEF AcInv, GenInv, SameContent
<1>3. CacheInv'
  BY <1>1, Zenon DEF AcInv, CacheInv, Tells
<1>4. WorkInv'
  BY Zenon DEF AcInv, WorkInv
<1>. QED  BY <1>2, <1>3, <1>4 DEF AcInv

\* Every step of the workers, of the writers and of the control thread keeps the invariant.
LEMMA AcNextInv == AcInv /\ [AcNext]_acvars => AcInv'
<1> SUFFICES ASSUME AcInv, [AcNext]_acvars
             PROVE  AcInv'
  OBVIOUS
<1>1. CASE zone_publish
  <2>1. UNCHANGED <<ac_cache, ac_worker>> /\ ac_gen' = ac_gen + 1 /\ ac_ver'.gen = ac_gen
    BY <1>1 DEF zone_publish
  <2>. QED  BY <2>1, NewGeneration
<1>2. CASE PublishSibling
  BY <1>2, AcElsewhere DEF PublishSibling
<1>3. CASE zone_glue_refresh_dependents
  <2>1. CASE ac_sib > ac_ver.saw
    <3>1. UNCHANGED <<ac_cache, ac_worker>> /\ ac_gen' = ac_gen + 1 /\ ac_ver' = [ac_ver EXCEPT !.gen = ac_gen, !.saw = ac_sib]
      BY <1>3, <2>1 DEF zone_glue_refresh_dependents
    <3>2. ac_ver'.gen = ac_gen
      BY <3>1
    <3>. QED  BY <3>1, <3>2, NewGeneration
  <2>2. CASE ~(ac_sib > ac_ver.saw)
    BY <1>3, <2>2, AcElsewhere DEF zone_glue_refresh_dependents
  <2>. QED  BY <2>1, <2>2
<1>4. CASE Reload
  BY <1>4, AcElsewhere DEF Reload
<1>5. CASE \E w \in AcWorkers : Ask(w) \/ Resolve(w) \/ Store(w) \/ SendHit(w)
  BY <1>5, AskKeeps, ResolveKeeps, StoreAnswerKeeps, SendHitKeeps, Zenon
<1>6. CASE UNCHANGED acvars
  BY <1>6, AcElsewhere DEF acvars
<1>. QED  BY <1>1, <1>2, <1>3, <1>4, <1>5, <1>6, Zenon DEF AcNext

\* What the fast path of process_query_body() sends is what the zone's version, the configuration, the sibling
\* and the client would give if the answer were made now: for any number of workers, publications and reloads.
THEOREM HitsFresh == AcSpec => []HitIsFresh
<1>1. AcInv => HitIsFresh
  BY Zenon DEF AcInv, WorkInv, Carries, HitIsFresh
<1>. QED  BY <1>1, AcInitInv, AcNextInv, PTL DEF AcSpec
=============================================================================
