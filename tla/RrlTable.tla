------------------------------ MODULE RrlTable ------------------------------
(* Response rate limiting (dns_rrl.c): what a response is counted under, and the table of token buckets that the workers share. *)
(* A bucket has a lock of its own, so each probe of a bucket is one step and the probes of two threads interleave.              *)
EXTENDS Integers, Sequences, FiniteSets

CONSTANTS
  RrlThreads,
  Responses,      \* responses: [client, rcode, an, ns, aa, qname, qtype, zone, wildcard, cut, program]
  Exempt,         \* clients of exempt-clients
  RateOf,         \* class -> tokens a second, 0: no limit
  WindowTicks,    \* the window
  TICKS,          \* ticks of the clock in a second
  Ways,           \* RRL_PROBE_WAYS
  MaxClock, MaxChecks

VARIABLES rrl_bucket, rrl_clock, rrl_thread, rrl_grants, rrl_checks
rrlvars == <<rrl_bucket, rrl_clock, rrl_thread, rrl_grants, rrl_checks>>

EmptyBucket == [key |-> <<>>, last |-> 0, tokens |-> 0]
IdleThread == [todo |-> <<>>, now |-> 0, pass |-> 0, probe |-> 0, allow |-> TRUE]

get_rrl_class(r) ==
  IF r.rcode = "NXDOMAIN" THEN "nxdomain"
  ELSE IF r.rcode # "NOERROR" THEN "error"
  ELSE IF r.an > 0 THEN "noerror"
  ELSE IF ~r.aa /\ r.ns > 0 THEN "referral" ELSE "nodata"

\* The name a response is counted under: its own, the zone's for names that do not exist and for wildcards, the cut's for referrals.
rrl_make_key(r) ==
  LET cls == get_rrl_class(r) IN
  [cls |-> cls,
   name |-> IF cls \in {"noerror", "nodata"} THEN (IF r.wildcard THEN r.zone ELSE r.qname)
            ELSE IF cls = "nxdomain" THEN r.zone
            ELSE IF cls = "referral" THEN r.cut ELSE "",
   wildcard |-> cls \in {"noerror", "nodata"} /\ r.wildcard,
   qtype |-> r.qtype]

\* The hash covers what tells two budgets apart; clients are prefixes (ipv4-prefix-length, ipv6-prefix-length).
rrl_key_hash(client, k) == <<client, k.cls, IF k.cls = "noerror" THEN k.qtype ELSE "", k.name, k.wildcard>>
AllKey == [cls |-> "all", name |-> "", wildcard |-> FALSE, qtype |-> ""]

\* The budgets one response is taken from.
Debits(r) ==
  LET k == rrl_make_key(r) IN
  IF r.client \in Exempt THEN <<>>
  ELSE (IF RateOf[k.cls] > 0 THEN <<rrl_key_hash(r.client, k)>> ELSE <<>>)
       \o (IF RateOf["all"] > 0 THEN <<rrl_key_hash(r.client, AllKey)>> ELSE <<>>)

Capacity(hash) == (RateOf[hash[2]] * WindowTicks) \div TICKS

RrlInit ==
  /\ rrl_bucket = [i \in 1 .. Ways |-> EmptyBucket]
  /\ rrl_clock = 0 /\ rrl_checks = 0
  /\ rrl_thread = [t \in RrlThreads |-> IdleThread]
  /\ rrl_grants = [h \in {} |-> 0]

RrlTick == rrl_clock < MaxClock /\ rrl_clock' = rrl_clock + 1 /\ UNCHANGED <<rrl_bucket, rrl_thread, rrl_grants, rrl_checks>>

\* A program zone with early-drop looks before the program is asked (no refill here).
rrl_bucket_empty(hash) == \E i \in 1 .. Ways : rrl_bucket[i].key = hash /\ rrl_bucket[i].tokens <= 0
rrl_key_exhausted(r) == r.program /\ \E i \in DOMAIN Debits(r) : rrl_bucket_empty(Debits(r)[i])

Begin(t) ==
  /\ rrl_thread[t].todo = <<>> /\ rrl_checks < MaxChecks
  /\ \E r \in Responses :
       /\ Debits(r) # <<>> /\ ~rrl_key_exhausted(r)
       /\ rrl_thread' = [rrl_thread EXCEPT ![t] = [todo |-> Debits(r), now |-> rrl_clock, pass |-> 1, probe |-> 1, allow |-> TRUE]]
  /\ rrl_checks' = rrl_checks + 1
  /\ UNCHANGED <<rrl_bucket, rrl_clock, rrl_grants>>

\* The bucket is filled up again and again for the same time.
RefillForgetsTime(b, hash, now) ==
  LET sum == b.tokens + ((now - b.last) * RateOf[hash[2]]) \div TICKS IN
  IF now <= b.last THEN b ELSE [b EXCEPT !.tokens = IF sum > Capacity(hash) THEN Capacity(hash) ELSE sum]

\* A bucket of the key is filled up for the time since its last refill, a bucket taken over is full.
Refill(b, hash, now) ==
  LET add == ((now - b.last) * RateOf[hash[2]]) \div TICKS
      sum == b.tokens + add IN
  IF now <= b.last \/ add = 0 THEN b
  ELSE [b EXCEPT !.tokens = IF sum > Capacity(hash) THEN Capacity(hash) ELSE sum, !.last = now]

Loaded(b, hash, now) ==
  IF b.key # hash THEN [key |-> hash, last |-> now, tokens |-> Capacity(hash)] ELSE Refill(b, hash, now)

Granted(hash, now) ==
  LET old == IF hash \in DOMAIN rrl_grants THEN rrl_grants[hash] ELSE [c \in 0 .. MaxClock |-> 0] IN
  [h \in DOMAIN rrl_grants \union {hash} |-> IF h = hash THEN [old EXCEPT ![now] = @ + 1] ELSE rrl_grants[h]]

\* The next budget of the same response, or the end of the check.
Following(s, ok) ==
  IF Len(s.todo) = 1 THEN IdleThread ELSE [s EXCEPT !.todo = Tail(@), !.pass = 1, !.probe = 1, !.allow = @ /\ ok]

Fits(b, s) ==
  IF s.pass = 1 THEN b.key = Head(s.todo) ELSE b.key = <<>> \/ s.now - b.last > WindowTicks

\* One probe, under the lock of its bucket: first the key's own bucket is looked for, then one that is empty or expired; none of both: no limit.
rrl_debit(t) ==
  LET s == rrl_thread[t]
      hash == Head(s.todo)
      b == Loaded(rrl_bucket[s.probe], hash, s.now)
      ok == b.tokens > 0 IN
  /\ s.todo # <<>>
  /\ IF Fits(rrl_bucket[s.probe], s)
     THEN /\ rrl_bucket' = [rrl_bucket EXCEPT ![s.probe] = IF ok THEN [b EXCEPT !.tokens = @ - 1] ELSE b]
          /\ rrl_grants' = IF ok THEN Granted(hash, s.now) ELSE rrl_grants
          /\ rrl_thread' = [rrl_thread EXCEPT ![t] = Following(s, ok)]
     ELSE /\ rrl_thread' = [rrl_thread EXCEPT ![t] =
                IF s.probe < Ways THEN [s EXCEPT !.probe = @ + 1]
                ELSE IF s.pass = 1 THEN [s EXCEPT !.pass = 2, !.probe = 1] ELSE Following(s, TRUE)]
          /\ UNCHANGED <<rrl_bucket, rrl_grants>>
  /\ UNCHANGED <<rrl_clock, rrl_checks>>

RrlNext == RrlTick \/ \E t \in RrlThreads : Begin(t) \/ rrl_debit(t)

RECURSIVE GrantsFrom(_, _, _)
GrantsFrom(g, a, b) == IF a > b THEN 0 ELSE g[a] + GrantsFrom(g, a + 1, b)

\* Threads that miss a key at the same time may each give it a bucket, one thread never a second one (the two passes of rrl_debit()).
CopiesBounded ==
  \A h \in DOMAIN rrl_grants : Cardinality({i \in 1 .. Ways : rrl_bucket[i].key = h}) <= Cardinality(RrlThreads)

\* However the checks of the workers interleave, a budget gives out no more than its capacity and its rate for the time, for every bucket that racing threads made.
BudgetKept ==
  \A h \in DOMAIN rrl_grants : \A a, b \in 0 .. MaxClock :
    a <= b => GrantsFrom(rrl_grants[h], a, b) <= Cardinality(RrlThreads) * (Capacity(h) + ((b - a) * RateOf[h[2]]) \div TICKS)
=============================================================================
