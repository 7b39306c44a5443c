------------------------------- MODULE Tsig -------------------------------
(***************************************************************************)
(* Signed messages: tsig_sign_packet_ex(), tsig_parse_rr() and             *)
(* tsig_verify_packet_ex() (dns_wire.c), the server's side of an exchange  *)
(* (tsig_check_request_nolog(), tsig_finish_response(), dns_tsig_acl.c)    *)
(* and the receiver of a transfer (handle_axfr_event(), dns_axfr_ixfr.c).  *)
(* A MAC is the record of the secret and of everything that is hashed: two *)
(* MACs are equal exactly when their inputs are.                           *)
(***************************************************************************)
EXTENDS Integers, Sequences, FiniteSets, SequencesExt

BadSig == 16
BadKey == 17
BadTime == 18
BadTrunc == 22
Formerr == -2
None == -1
DefaultFudge == 2
UnsignedMax == 2       \* XFR_TSIG_UNSIGNED_MAX (99)

Digest(alg) ==
  CASE alg \in {"hmac-md5", "hmac-md5.sig-alg.reg.int"} -> "md5"
    [] alg = "hmac-sha1" -> "sha1" [] alg = "hmac-sha256" -> "sha256"
    [] OTHER -> "unknown"
HashLength(digest) == CASE digest = "md5" -> 16 [] digest = "sha1" -> 20 [] digest = "sha256" -> 32
MinMac(digest) == IF HashLength(digest) \div 2 > 10 THEN HashLength(digest) \div 2 ELSE 10
LowerKey(name) == IF name = "K" THEN "k" ELSE name

TsigSize(error) == IF error = BadTime THEN 5 ELSE 4

Hmac(secret, pre) == <<[secret |-> secret, pre |-> pre]>>
NoMac == <<>>
Content(packet) == [id |-> packet.id, ar |-> packet.ar, body |-> packet.body]
PreMac(prior, unsigned, content, name, alg, time, fudge, error, other, subsequent) ==
  [prior |-> prior, octets |-> Append(unsigned, content),
   names |-> IF subsequent THEN <<>> ELSE <<LowerKey(name), alg>>,
   time |-> time, fudge |-> fudge,
   rest |-> IF subsequent THEN <<>> ELSE <<error, other>>]

\* times: the Time Signed and Fudge to use instead of now and 300 (a BADTIME response), or none
SignFails(packet, prior) == [ok |-> FALSE, packet |-> packet, mac |-> prior]
tsig_sign(packet, max, key, error, prior, unsigned, subsequent, times, now) ==
  LET time == IF times = <<>> THEN now ELSE times[1]
      fudge == IF times = <<>> THEN DefaultFudge ELSE times[2]
      other == IF error = BadTime THEN <<now>> ELSE <<>>
      mac == IF error \in {BadSig, BadKey} THEN NoMac
             ELSE Hmac(key.secret, PreMac(prior, unsigned, Content(packet), key.name, key.alg,
                                          time, fudge, error, other, subsequent))
      rr == [name |-> key.name, alg |-> key.alg, time |-> time, fudge |-> fudge, mac |-> mac,
             size |-> IF mac = NoMac THEN 0 ELSE HashLength(Digest(key.alg)),
             id |-> packet.id, error |-> error, other |-> other, class |-> "ANY", readable |-> TRUE]
  IN  IF packet.len + TsigSize(error) > max THEN SignFails(packet, prior)
      ELSE IF mac # NoMac /\ Digest(key.alg) = "unknown" THEN SignFails(packet, prior)
      ELSE [ok |-> TRUE, mac |-> mac,
            packet |-> [packet EXCEPT !.ar = @ + 1, !.len = @ + TsigSize(error), !.rrs = Append(@, "tsig"),
                                      !.tsig = <<rr>>]]

\* rrs: the records of the answer, authority and additional sections in their order ("broken" ends
\* before its data, "cut" announces more data than there is, "tsigcut" is a TSIG of that kind)
FirstUnread(rrs) ==
  LET bad == {i \in DOMAIN rrs : rrs[i] \in {"broken", "cut", "tsigcut"}}
  IN  IF bad = {} THEN Len(rrs) + 1 ELSE CHOOSE i \in bad : \A j \in bad : i <= j
tsig_parse_rr(packet) ==
  LET stop == FirstUnread(packet.rrs)
      seen == {i \in 1 .. stop - 1 : packet.rrs[i] = "tsig"}
  IN  CASE packet.ar = 0 -> None
        [] packet.ar # 0 /\ stop <= Len(packet.rrs) ->
             IF seen # {} \/ packet.rrs[stop] = "tsigcut" THEN Formerr ELSE None
        [] OTHER ->
             IF seen = {} THEN None
             ELSE IF seen # {Len(packet.rrs)} \/ packet.tsig[1].class # "ANY" \/ ~packet.tsig[1].readable
             THEN Formerr ELSE 0

Verified(code, mac, truncated) == [code |-> code, mac |-> mac, truncated |-> truncated]
tsig_verify(packet, key, prior, unsigned, subsequent, now) ==
  LET rr == packet.tsig[1]
      digest == Digest(rr.alg)
      pre == PreMac(prior, unsigned, [Content(packet) EXCEPT !.id = rr.id, !.ar = @ - 1], key.name,
                    rr.alg, rr.time, rr.fudge, rr.error, rr.other, subsequent)
  IN  CASE tsig_parse_rr(packet) # 0 -> Verified(tsig_parse_rr(packet), NoMac, FALSE)
        [] OTHER ->
      CASE digest = "unknown" \/ digest # Digest(key.alg) \/ LowerKey(rr.name) # LowerKey(key.name) ->
             Verified(BadKey, NoMac, FALSE)
        [] OTHER ->
      CASE rr.size = 0 /\ prior # NoMac /\ ~subsequent /\ rr.error \in {BadSig, BadKey} ->
             Verified(rr.error, NoMac, FALSE)
        [] OTHER ->
      CASE rr.size > HashLength(digest) \/ rr.size < MinMac(digest) -> Verified(Formerr, NoMac, FALSE)
        [] OTHER ->
      CASE rr.mac # Hmac(key.secret, pre) -> Verified(BadSig, NoMac, FALSE)
        [] OTHER ->
             Verified(IF now > rr.time + rr.fudge \/ now < rr.time - rr.fudge THEN BadTime ELSE 0,
                      rr.mac, rr.size < HashLength(digest))

-----------------------------------------------------------------------------
(* The server *)

Checked(status, error, key, mac) == [status |-> status, error |-> error, key |-> key, mac |-> mac]
KeyFor(keys, rr) ==
  {k \in keys : LowerKey(k.name) = LowerKey(rr.name) /\ Digest(rr.alg) # "unknown"
                /\ Digest(k.alg) = Digest(rr.alg)}
tsig_check_request(packet, keys, now) ==
  IF packet.ar = 0 \/ tsig_parse_rr(packet) = None THEN Checked("none", 0, {}, NoMac)
  ELSE IF tsig_parse_rr(packet) = Formerr THEN Checked("formerr", 0, {}, NoMac)
  ELSE LET found == KeyFor(keys, packet.tsig[1])
           Verdict(v) ==
             CASE v.code = 0 /\ v.truncated -> Checked("error", BadTrunc, found, v.mac)
               [] v.code = 0 /\ ~v.truncated -> Checked("valid", 0, found, v.mac)
               [] v.code = BadTime -> Checked("error", BadTime, found, v.mac)
               [] v.code \in {BadSig, BadKey} -> Checked("error", v.code, {}, NoMac)
               [] OTHER -> Checked("formerr", 0, {}, NoMac)
       IN  IF found = {} THEN Checked("error", BadKey, {}, NoMac)
           ELSE Verdict(tsig_verify(packet, CHOOSE k \in found : TRUE, NoMac, <<>>, FALSE, now))

tsig_response_reserve(t) ==
  IF t.key = {} \/ t.status \notin {"valid", "error"} THEN 0 ELSE TsigSize(t.error)

\* The response that does not fit with its TSIG becomes the question with TC set
CutToQuestion(res) ==
  [res EXCEPT !.tc = TRUE, !.rcode = 0, !.ar = 0, !.rrs = <<>>, !.len = res.question, !.body = "question"]
Unsendable(res) == [res EXCEPT !.len = -1]
tsig_finish_response(res, max, request, t, now) ==
  LET rr == request.tsig[1]
      error == t.error
      echo == [name |-> rr.name, alg |-> rr.alg, secret |-> "none"]
      key == IF error \in {BadSig, BadKey} THEN echo ELSE CHOOSE k \in t.key : TRUE
      prior == IF error \in {BadSig, BadKey} THEN NoMac ELSE t.mac
      times == IF error = BadTime THEN <<rr.time, rr.fudge>> ELSE <<>>
      Sign(r) == tsig_sign(r, max, key, error, prior, <<>>, FALSE, times, now)
  IN  IF t.status \in {"none", "formerr"} THEN res
      ELSE IF error \notin {BadSig, BadKey} /\ t.key = {} THEN Unsendable(res)
      ELSE IF Sign(res).ok THEN Sign(res).packet
      ELSE IF Sign(CutToQuestion(res)).ok THEN Sign(CutToQuestion(res)).packet
      ELSE Unsendable(res)

-----------------------------------------------------------------------------
(* A transfer: every message of this server is signed (axfr_emit_item(), axfr_ec_finish()); other
   primaries may leave messages in between unsigned.  The receiver's chain is handle_axfr_event(). *)

RECURSIVE SendFrom(_, _, _, _, _, _, _)
SendFrom(packets, signed, k, key, prior, unsigned, subsequent) ==
  IF k > Len(packets) THEN <<>>
  ELSE IF k \notin signed
  THEN <<packets[k]>>
       \o SendFrom(packets, signed, k + 1, key, prior, Append(unsigned, Content(packets[k])), subsequent)
  ELSE LET s == tsig_sign(packets[k], 100, key, 0, prior, unsigned, subsequent, <<>>, 5)
       IN  <<s.packet>> \o SendFrom(packets, signed, k + 1, key, s.mac, <<>>, TRUE)

Chain(prior) == [prior |-> prior, unsigned |-> <<>>, run |-> 0, subsequent |-> FALSE, taken |-> <<>>,
                 st |-> "reading"]
Take(chain, packet, key, now) ==
  LET v == tsig_verify(packet, key, chain.prior, chain.unsigned, chain.subsequent, now)
      body == packet.body
      Finish(c) == IF body # "end" THEN c
                   ELSE [c EXCEPT !.st = IF c.unsigned # <<>> THEN "refused" ELSE "done"]
  IN  IF chain.st # "reading" THEN chain
      ELSE IF tsig_parse_rr(packet) # 0
      THEN IF ~chain.subsequent \/ chain.run + 1 > UnsignedMax THEN [chain EXCEPT !.st = "refused"]
           ELSE Finish([chain EXCEPT !.run = @ + 1, !.unsigned = Append(@, Content(packet)),
                                     !.taken = Append(@, body)])
      ELSE IF v.code # 0 THEN [chain EXCEPT !.st = "refused"]
      ELSE Finish([chain EXCEPT !.run = 0, !.unsigned = <<>>, !.prior = v.mac, !.subsequent = TRUE,
                                !.taken = Append(@, body)])
Receive(packets, prior, key, now) ==
  FoldLeft(LAMBDA c, p : Take(c, p, key, now), Chain(prior), packets)

-----------------------------------------------------------------------------
(***************************************************************************)
(* What the signatures of Tsig are for: an exchange of a client and the    *)
(* server, and a transfer whose messages may be lost, repeated, swapped or *)
(* changed on their way.                                                   *)
(***************************************************************************)

Packet(id, body, len, question) ==
  [id |-> id, ar |-> 0, body |-> body, rrs |-> <<>>, len |-> len, question |-> question, tc |-> FALSE,
   rcode |-> 0, tsig |-> <<>>]
Key(name, alg, secret) == [name |-> name, alg |-> alg, secret |-> secret]
ServerKeys == {Key("k", "hmac-sha256", "s"), Key("m", "hmac-md5", "t"), Key("k", "hmac-sha1", "u")}

Query == Packet(1, "query", 3, 3)
Sent(i) == tsig_sign(Query, 20, i.key, 0, NoMac, <<>>, FALSE, <<>>, i.time)
\* What happens to the request on its way: a forwarder may change the ID, the MAC may be cut to half
OnItsWay(packet, change) ==
  CASE change = "none" -> packet
    [] change = "id" -> [packet EXCEPT !.id = 7]
    [] change = "half" -> [packet EXCEPT !.tsig[1].size = @ \div 2]
    [] change = "less" -> [packet EXCEPT !.tsig[1].size = 9]
    [] change = "body" -> [packet EXCEPT !.body = "other"]
    [] change = "error" -> [packet EXCEPT !.tsig[1].error = 5]
    [] change = "twice" -> [packet EXCEPT !.ar = 2, !.rrs = <<"tsig", "tsig">>]
    [] change = "inner" -> [packet EXCEPT !.ar = 2, !.rrs = <<"tsig", "other">>]
    [] change = "after" -> [packet EXCEPT !.ar = 2, !.rrs = <<"tsig", "broken">>]
    [] change = "class" -> [packet EXCEPT !.tsig[1].class = "IN"]
    [] change = "gone" -> Query
Changes == {"none", "id", "half", "less", "body", "error", "twice", "inner", "after", "class", "gone"}

Same(a, b) == LowerKey(a.name) = LowerKey(b.name) /\ Digest(a.alg) = Digest(b.alg)
Genuine(i) ==
  /\ i.change \in {"none", "id"}
  /\ \E k \in ServerKeys : Same(k, i.key) /\ k.secret = i.key.secret
  /\ i.now - i.time \in -DefaultFudge .. DefaultFudge

Response(i) == Packet(IF i.change = "id" THEN 1 ELSE OnItsWay(Sent(i).packet, i.change).id, "answer", i.len, 3)

\* A request is taken as signed exactly when a holder of one of the server's keys signed it as it
\* arrived, with a whole MAC and at about this time; the ID may differ (tsig_check_request_nolog()).
\* The response always has room for its signature where there is room for the question, is cut only
\* when the room was not kept (tsig_response_reserve()), and the client understands it: the answer is
\* verified, BADTIME is verified by the client's own clock and shows the server's, and the errors that
\* cannot be signed are seen as such (tsig_finish_response(), tsig_verify_packet_ex()).
Understood(i, t, res, got) ==
      /\ t.status = "valid" <=> Genuine(i)
      /\ i.change \in {"twice", "inner", "after", "class", "less"} =>
           t.status = "formerr" \/ (i.change = "less" /\ t.error = BadKey)
      /\ res.len <= i.max
      /\ res.len = -1 <=> t.status \in {"valid", "error"} /\ res.question + TsigSize(t.error) > i.max
      /\ i.len + tsig_response_reserve(t) <= i.max /\ t.status = "valid" => ~res.tc
      /\ res.len # -1 /\ t.status = "valid" => got.code = 0 /\ res.tsig[1].error = 0
      /\ res.len # -1 /\ t.error = BadTime =>
           /\ got.code = 0
           /\ res.tsig[1].error = BadTime /\ res.tsig[1].other = <<i.now>>
      /\ res.len # -1 /\ t.error \in {BadSig, BadKey} /\ Digest(i.key.alg) # "unknown" => got.code = t.error
Answered(i, t, res) == Understood(i, t, res, tsig_verify(res, i.key, Sent(i).mac, <<>>, FALSE, i.time))
Finished(i, request, t) == Answered(i, t, tsig_finish_response(Response(i), i.max, request, t, i.now))
Arrived(i, request) == Finished(i, request, tsig_check_request(request, ServerKeys, i.now))
ExchangeRight(i) == Arrived(i, OnItsWay(Sent(i).packet, i.change))

Payloads(n) == [k \in 1 .. n |-> IF k = n THEN "end" ELSE <<"a", "b", "c", "d">>[k]]
RequestMac == tsig_sign(Query, 20, Key("k", "hmac-sha256", "s"), 0, NoMac, <<>>, FALSE, <<>>, 5).mac
Stream(i) ==
  SendFrom([k \in 1 .. i.n |-> Packet(9, Payloads(i.n)[k], 3, 3)], i.signed, 1, Key("k", "hmac-sha256", "s"),
           RequestMac, <<>>, FALSE)
Faulty(s, fault, at) ==
  CASE fault = "none" -> s
    [] fault = "lost" -> RemoveAt(s, at)
    [] fault = "twice" -> SubSeq(s, 1, at) \o SubSeq(s, at, Len(s))
    [] fault = "swapped" -> IF at = Len(s) THEN s ELSE [s EXCEPT ![at] = s[at + 1], ![at + 1] = s[at]]
    [] fault = "changed" -> [s EXCEPT ![at].body = "x"]
    [] fault = "ended" -> [s EXCEPT ![at].body = "end"]
    [] fault = "unsigned" -> [s EXCEPT ![at] = [@ EXCEPT !.ar = 0, !.rrs = <<>>, !.tsig = <<>>]]
Faults == {"none", "lost", "twice", "swapped", "changed", "ended", "unsigned"}

\* A transfer is complete only when the messages that were taken are the ones that were sent, in their
\* order, whatever happens to one of them; and a stream that arrives as it was sent is complete when
\* its first and last messages are signed and no more than the limit in a row are not
\* (handle_axfr_event()).
StreamRight(i) ==
  LET Gap == \E k \in 1 .. i.n - UnsignedMax : k .. k + UnsignedMax \cap i.signed = {}
  IN  \A c \in {Receive(Faulty(Stream(i), i.fault, i.at), RequestMac, Key("K", "hmac-sha256", "s"), 6)} :
        /\ c.st = "done" => c.taken = Payloads(i.n)
        /\ i.fault = "none" => (c.st = "done" <=> {1, i.n} \subseteq i.signed /\ ~Gap)

TsigSeeds == [is : {"exchange"}, n : {0}, change : Changes] \cup [is : {"stream"}, n : 1 .. 5, change : {"none"}]
TsigInputs(seed) ==
  IF seed.is = "exchange"
  THEN {i \in [is : {"exchange"}, change : {seed.change}, len : {4, 8}, max : {6, 8, 9, 12},
                now : {5, 7, 8, 2}, time : {5},
                key : [name : {"k", "K", "m", "x"}, secret : {"s", "t"},
                       alg : {"hmac-sha256", "hmac-md5.sig-alg.reg.int"}]] : i.len <= i.max}
  ELSE [is : {"stream"}, n : {seed.n}, signed : SUBSET (1 .. seed.n), fault : Faults, at : 1 .. seed.n]
TsigRight(i) == IF i.is = "exchange" THEN ExchangeRight(i) ELSE StreamRight(i)
=============================================================================
