-------------------------- MODULE NameCompression --------------------------
(***************************************************************************)
(* Domain names in a message: compress_name() with its table of suffixes,  *)
(* the question name that is registered without being written, and the     *)
(* readers skip_wire_name() and expand_wire_name().                        *)
(*                                                                         *)
(* Every label is one letter, so it takes two octets: its length and the   *)
(* letter.  A pointer takes two octets as well.  The buffer keeps what a   *)
(* record that did not fit left behind its end, and so does the table.     *)
(***************************************************************************)
EXTENDS Naturals, Sequences, FiniteSets

Empty == [is |-> "stale", v |-> "-", to |-> 0]
LengthOctet == [is |-> "len", v |-> "-", to |-> 0]
Letter(l) == [is |-> "letter", v |-> l, to |-> 0]
Pointer(to) == [is |-> "pointer", v |-> "-", to |-> to]
PointerLow == [is |-> "low", v |-> "-", to |-> 0]
Root == [is |-> "root", v |-> "-", to |-> 0]

Lower(l) == IF l = "A" THEN "a" ELSE l
LowerName(name) == [k \in DOMAIN name |-> Lower(name[k])]
Labels(name, k) == SubSeq(name, k, Len(name))

(* 0x4000, COMPRESS_HASH_MASK + 1, MAX_PROBE_DEPTH *)
PointerLimit == 10
TableSize == 3
MaxProbe == 2

(* The hash of a suffix; different suffixes may share one. *)
Hash(suffix) == (Len(suffix) + Cardinality({k \in DOMAIN suffix : Lower(suffix[k]) = "b"})) % 4

NoEntry == [live |-> FALSE, hash |-> 0, offset |-> 0]
InitPacket == [k \in 0 .. TableSize - 1 |-> NoEntry]

---------------------------------------------------------------------------
(* suffix_equals(): the name that starts at an offset, pointers followed   *)
(* only backwards.                                                         *)
RECURSIVE SuffixEquals(_, _, _)
SuffixEquals(buffer, at, suffix) ==
    CASE buffer[at].is = "pointer" ->
            buffer[at].to < at /\ SuffixEquals(buffer, buffer[at].to, suffix)
      [] buffer[at].is # "pointer" /\ suffix = <<>> -> buffer[at].is = "root"
      [] OTHER -> /\ buffer[at].is = "len"
                  /\ buffer[at + 1].is = "letter"
                  /\ Lower(buffer[at + 1].v) = Lower(suffix[1])
                  /\ SuffixEquals(buffer, at + 2, Tail(suffix))

Probes(hash) == [k \in 1 .. MaxProbe |-> (hash + k - 1) % TableSize]

(* The first entry of the probe that holds the suffix in front of offset;   *)
(* the search ends at an entry of an older packet.                          *)
Found(state, suffix) ==
    LET probes == Probes(Hash(suffix))
        Stops(k) == ~state.table[probes[k]].live
        Fits(k) == /\ \A j \in 1 .. k : ~Stops(j)
                   /\ state.table[probes[k]].offset < state.offset
                   /\ state.table[probes[k]].offset < PointerLimit
                   /\ state.table[probes[k]].hash = Hash(suffix)
                   /\ SuffixEquals(state.buffer, state.table[probes[k]].offset, suffix)
        hits == {k \in 1 .. MaxProbe : Fits(k)}
    IN  IF hits = {} THEN {}
        ELSE {state.table[probes[CHOOSE k \in hits : \A j \in hits : k <= j]].offset}

(* The first free entry of the probe takes the suffix, unless the same one  *)
(* is met before; when all are taken it is not remembered.                  *)
Register(table, suffix, at) ==
    LET probes == Probes(Hash(suffix))
        mine == [live |-> TRUE, hash |-> Hash(suffix), offset |-> at]
        ends == {k \in 1 .. MaxProbe : table[probes[k]] = mine \/ ~table[probes[k]].live}
    IN  IF at >= PointerLimit \/ ends = {} THEN table
        ELSE [table EXCEPT ![probes[CHOOSE k \in ends : \A j \in ends : k <= j]] = mine]

Failed(state) == [state EXCEPT !.ok = FALSE]

(* compress_name(): label by label until a suffix is found in the message. *)
RECURSIVE compress_name(_, _, _)
compress_name(state, name, max) ==
    LET at == state.offset
        found == IF name = <<>> THEN {} ELSE Found(state, name)
    IN  CASE name = <<>> ->
                IF at + 1 > max THEN Failed(state)
                ELSE [state EXCEPT !.buffer[at] = Root, !.offset = at + 1]
          [] name # <<>> /\ found # {} ->
                IF at + 2 > max THEN Failed(state)
                ELSE [state EXCEPT !.buffer[at] = Pointer(CHOOSE f \in found : TRUE),
                                   !.buffer[at + 1] = PointerLow,
                                   !.offset = at + 2]
          [] OTHER ->
                IF at + 2 > max THEN Failed(state)
                ELSE compress_name(
                        [state EXCEPT !.buffer[at] = LengthOctet,
                                      !.buffer[at + 1] = Letter(name[1]),
                                      !.offset = at + 2,
                                      !.table = Register(@, name, at)],
                        Tail(name), max)

(* register_wire_name_for_compression(): the copied question name. *)
RECURSIVE register_wire_name(_, _, _)
register_wire_name(table, name, at) ==
    IF name = <<>> THEN table
    ELSE register_wire_name(Register(table, name, at), Tail(name), at + 2)

---------------------------------------------------------------------------
(* skip_wire_name(): the offset behind the name.  A pointer target met      *)
(* twice ends it.  0 when the name is malformed.                            *)
RECURSIVE SkipFrom(_, _, _, _, _)
SkipFrom(buffer, length, at, after, visited) ==
    IF at >= length THEN 0
    ELSE CASE buffer[at].is = "pointer" ->
                IF buffer[at].to >= length \/ buffer[at].to \in visited THEN 0
                ELSE SkipFrom(buffer, length, buffer[at].to,
                              IF after = 0 THEN at + 2 ELSE after, visited \cup {buffer[at].to})
           [] buffer[at].is = "root" -> IF after = 0 THEN at + 1 ELSE after
           [] buffer[at].is = "len" -> SkipFrom(buffer, length, at + 2, after, visited)
           [] OTHER -> 0

skip_wire_name(buffer, length, at) == SkipFrom(buffer, length, at, 0, {})

(* expand_wire_name(): the labels. *)
RECURSIVE ExpandFrom(_, _, _, _)
ExpandFrom(buffer, length, at, visited) ==
    IF at >= length THEN <<"malformed">>
    ELSE CASE buffer[at].is = "pointer" ->
                IF buffer[at].to >= length \/ buffer[at].to \in visited THEN <<"malformed">>
                ELSE ExpandFrom(buffer, length, buffer[at].to, visited \cup {buffer[at].to})
           [] buffer[at].is = "root" -> <<>>
           [] buffer[at].is = "len" ->
                <<buffer[at + 1].v>> \o ExpandFrom(buffer, length, at + 2, visited)
           [] OTHER -> <<"malformed">>

expand_wire_name(buffer, length, at) == ExpandFrom(buffer, length, at, {})

---------------------------------------------------------------------------
(* A message: the question is copied and registered, then records with an   *)
(* owner name and data are written; one that does not fit is taken back,    *)
(* and only the offset goes back.                                           *)
Capacity == 24
Header == 1

RECURSIVE QuestionCells(_, _, _)
QuestionCells(buffer, name, at) ==
    IF name = <<>> THEN [buffer EXCEPT ![at] = Root]
    ELSE QuestionCells([buffer EXCEPT ![at] = LengthOctet, ![at + 1] = Letter(name[1])],
                       Tail(name), at + 2)

Question(name) ==
    [buffer |-> QuestionCells([k \in 0 .. Capacity + 1 |-> Empty], name, Header),
     table |-> register_wire_name(InitPacket, name, Header),
     offset |-> Header + 2 * Len(name) + 1, ok |-> TRUE,
     kept |-> <<[name |-> name, at |-> Header, end |-> Header + 2 * Len(name) + 1]>>]

Data == [is |-> "data", v |-> "-", to |-> 0]
RdataLength == 3

Put(state, name, max) ==
    LET new == compress_name(state, name, max)
        end == new.offset + RdataLength
    IN  IF new.ok /\ end <= max
        THEN [new EXCEPT !.buffer = [k \in DOMAIN @ |-> IF k \in new.offset .. end - 1
                                                       THEN Data ELSE @[k]],
                         !.offset = end,
                         !.kept = Append(@, [name |-> name, at |-> state.offset, end |-> new.offset])]
        ELSE [new EXCEPT !.ok = TRUE, !.offset = state.offset]

Message(names, maxima) ==
    LET first == Question(names[1])
        second == Put(first, names[2], maxima[1])
        third == Put(second, names[3], maxima[2])
    IN  Put(third, names[4], maxima[2])

(* Every name that was kept reads back as itself, also after another one    *)
(* was taken back; its pointers lead to earlier offsets below the limit,    *)
(* and the name ends where its data begins.                                     *)
NamesReadBack(message) ==
    \A k \in DOMAIN message.kept :
        LET name == message.kept[k] IN
            /\ LowerName(expand_wire_name(message.buffer, message.offset, name.at))
                    = LowerName(name.name)
            /\ skip_wire_name(message.buffer, message.offset, name.at) = name.end

PointersGoBack(message) ==
    \A at \in Header .. message.offset - 1 :
        message.buffer[at].is = "pointer" =>
            message.buffer[at].to < at /\ message.buffer[at].to < PointerLimit

CompressionNames == {<<>>, <<"a">>, <<"b", "a">>, <<"b", "A">>, <<"a", "b">>, <<"a", "b", "a">>}
CompressionSeeds == CompressionNames \X CompressionNames
CompressionInputs(seed) ==
    {[names |-> <<seed[1], seed[2], third, fourth>>, maxima |-> maxima] :
        third \in CompressionNames, fourth \in CompressionNames,
        maxima \in {<<12, 18>>, <<24, 24>>, <<9, 24>>, <<9, 12>>}}

CompressionRight(i) ==
    LET message == Message(i.names, i.maxima)
    IN  NamesReadBack(message) /\ PointersGoBack(message)
=============================================================================
