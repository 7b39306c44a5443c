------------------------------- MODULE MCZones -------------------------------
(* A zone: its versions under everything that writes, reads and frees them (a small instance of ZoneVersions), and what is done with one request to a version, from the        *)
(* decision who may ask to the records of the answer.  The second part has no state of its own: input is one of the cases the operators are checked over, in two steps so that *)
(* the cases of one seed are made together.                                                                                                                                     *)
EXTENDS ZoneVersions, TLC

VARIABLE input

Answers == INSTANCE ZoneAnswer
Access == INSTANCE Access
Flow == INSTANCE QueryFlow

\* A total tells which versions are counted in it.
MCBytes == [v \in Versions |-> 2^v]

Versioned == [is |-> "versions"]
Seeds == [is : {"answer"}, seed : Answers!Zones] \cup [is : {"access"}, seed : {"shared", "list", "view"}]
         \cup [is : {"client"}, seed : {"ecs", "location", "cookie"}] \cup [is : {"flow"}, seed : Flow!FlowSeeds]

Cases(s) ==
  CASE s.is = "answer" -> Answers!Questions(s.seed)
    [] s.is = "access" -> {i \in Access!AccessSeeds : i.is = s.seed}
    [] s.is = "client" -> Access!ClientSeeds(s.seed)
    [] s.is = "flow" -> Flow!FlowInputs(s.seed)

MCInit == Init /\ (input = Versioned \/ (kind = "db" /\ input \in Seeds))

TakeCase == "seed" \in DOMAIN input /\ input' \in {[is |-> input.is, case |-> c] : c \in Cases(input)} /\ UNCHANGED vars

MCNext == (input = Versioned /\ Next /\ UNCHANGED input) \/ TakeCase

MCSpec == MCInit /\ [][MCNext]_<<input, vars>>

\* The answer of resolve_name() is the one RFC 1034 4.3.2 and RFC 6672 ask for: computed by an independent walk down the zone, it has the same RCODE, AA and records; a denial proves
\* what it says (NSEC, NSEC3, opt-out), glue is complete or the message is cut, no record is written twice, and a variant for a subnet comes with a scope.
AnswersRight == input.is = "answer" /\ "case" \in DOMAIN input => Answers!AnswerRight(input.case)

\* Who may do what, what a client is shown and in which order a request is checked: the view is the first that takes the request; each access list is the one the owner or the
\* referencing view's statement says, bounded by the ceiling; SCOPEs never overlap and cookies live as long as they should; a zone that is not in memory delays a request and does not
\* change its answer; nothing comes out for a request that one of the checks refuses (dns_tsig_acl.c, dns_edns_ecs.c, process_query_body()).
DecisionsRight ==
  "case" \in DOMAIN input =>
    CASE input.is = "access" -> Access!AccessRight(input.case)
      [] input.is = "client" -> Access!ClientRight(input.case)
      [] input.is = "flow" -> Flow!FlowRight(input.case)
      [] OTHER -> TRUE
=============================================================================
