----------------------------- MODULE ForwardZone -----------------------------
(* The forwarders of a forward zone are asked one after the other under one deadline (dns_query_engine.c dispatch_forward_zone(), forward_via_tcp()). *)
(* A forwarder is what it does: whether its address can be used, the datagrams it sends and when (in units of time after the question), and how long   *)
(* each part of a TCP exchange takes.  A response is good when its ID, its QR bit and its question are those of the request.                           *)
EXTENDS Integers, Sequences, FiniteSets

NoAnswer == [kind |-> "servfail", from |-> 0, time |-> 0, tcp |-> FALSE]

question_section_matches(d) == d.kind \in {"good", "tc", "big"}

\* Datagrams that do not match are dropped and the wait goes on until the share is used up; an error ends it.
RECURSIVE Receive(_, _)
Receive(dgrams, share) ==
    IF dgrams = <<>> \/ Head(dgrams).at >= share THEN [kind |-> "none", at |-> share]
    ELSE IF Head(dgrams).kind = "error" THEN [kind |-> "none", at |-> Head(dgrams).at]
    ELSE IF question_section_matches(Head(dgrams)) THEN Head(dgrams)
    ELSE Receive(Tail(dgrams), share)

\* All of the rest for this forwarder.
ShareAll(rem, left) == rem

\* Equal parts of the rest for this forwarder and those after it.
Share(rem, left) == IF rem \div left = 0 THEN 1 ELSE rem \div left

\* Connecting counts against the limit; writing, the length and the message have what is then left each.
forward_via_tcp(tcp, timeout) ==
    LET each == timeout - tcp.connect IN
    IF tcp.connect >= timeout THEN [ok |-> FALSE, time |-> timeout]
    ELSE IF tcp.write >= each THEN [ok |-> FALSE, time |-> timeout]
    ELSE IF tcp.prefix >= each THEN [ok |-> FALSE, time |-> tcp.connect + tcp.write + each]
    ELSE IF tcp.body >= each THEN [ok |-> FALSE, time |-> tcp.connect + tcp.write + tcp.prefix + each]
    ELSE [ok |-> tcp.kind = "good", time |-> tcp.connect + tcp.write + tcp.prefix + tcp.body]

\* A truncated answer is asked for again over TCP; when that fails it is passed on as it is.
Fallback(f, i, now, deadline) ==
    LET t == forward_via_tcp(f.tcp, deadline - now) IN
    IF now >= deadline THEN [kind |-> "tc", from |-> i, time |-> now, tcp |-> FALSE]
    ELSE [kind |-> IF t.ok THEN "good" ELSE "tc", from |-> i, time |-> now + t.time, tcp |-> TRUE]

RECURSIVE AskFrom(_, _, _, _)
AskFrom(fs, i, now, deadline) ==
    IF i > Len(fs) \/ now >= deadline THEN [NoAnswer EXCEPT !.time = now]
    ELSE IF ~fs[i].usable THEN AskFrom(fs, i + 1, now, deadline)
    ELSE LET got == Receive(fs[i].dgrams, Share(deadline - now, Len(fs) - i + 1)) IN
         IF got.kind = "none" THEN AskFrom(fs, i + 1, now + got.at, deadline)
         ELSE IF got.kind = "tc" THEN Fallback(fs[i], i, now + got.at, deadline)
         ELSE [kind |-> IF got.kind = "big" THEN "tc" ELSE "good", from |-> i, time |-> now + got.at, tcp |-> FALSE]

dispatch_forward_zone(fs, budget) == AskFrom(fs, 1, 0, budget)

(* ---- what is promised ---- *)

\* A forwarder that answers within an equal part of the whole budget is heard, unless one before it answered, however those hang, refuse or send other answers.
EveryForwarderHeard(fs, budget) ==
    LET r == dispatch_forward_zone(fs, budget) IN
    \A i \in DOMAIN fs :
        LET early == SelectSeq(fs[i].dgrams, LAMBDA d : question_section_matches(d) \/ d.kind = "error") IN
        /\ fs[i].usable /\ early # <<>> /\ early[1].kind # "error"
        /\ early[1].at < budget \div Len(fs)
        => r.kind # "servfail" /\ r.from <= i

\* Only a forwarder that sent a matching answer is passed on, and without TCP the query takes no longer than the budget; the three parts of a TCP exchange each
\* have the whole rest (not one deadline), so with TCP it may take twice the budget more.
ForwardInTime(fs, budget) ==
    LET r == dispatch_forward_zone(fs, budget) IN
    /\ r.kind # "servfail" => \E k \in DOMAIN fs[r.from].dgrams : question_section_matches(fs[r.from].dgrams[k])
    /\ r.time <= (IF r.tcp THEN 3 * budget ELSE budget)

(* ---- inputs ---- *)

Dgrams == {<<>>} \union {<<[kind |-> k, at |-> a]>> : k \in {"good", "tc", "big", "other", "error"}, a \in {0, 2, 3}}
          \union {<<[kind |-> "other", at |-> 1], [kind |-> "good", at |-> a]>> : a \in {1, 3}}
Forwarders == [usable : BOOLEAN, dgrams : Dgrams, tcp : {[kind |-> "good", connect |-> 1, write |-> 0, prefix |-> p, body |-> 3] : p \in {0, 3}}]
Plainly(f) == f.tcp.prefix = 0 \/ \E k \in DOMAIN f.dgrams : f.dgrams[k].kind = "tc"
ForwardSeeds == [is : {"forward"}, n : {2, 3}, first : {f \in Forwarders : Plainly(f)}]
ForwardInputs(s) ==
    {[is |-> "forward", fs |-> <<s.first, g>> \o (IF s.n = 2 THEN <<>> ELSE <<h>>)] :
        g \in {f \in Forwarders : Plainly(f)}, h \in {f \in Forwarders : Plainly(f) /\ s.n = 3 /\ f.usable /\ Len(f.dgrams) = 1}}
ForwardRight(i) == \A b \in {5, 7, 9} : EveryForwarderHeard(i.fs, b) /\ ForwardInTime(i.fs, b)
=============================================================================
