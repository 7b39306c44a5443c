------------------------------- MODULE Rdata -------------------------------
(***************************************************************************)
(* The RDATA of every record type the server writes.  Five places of the   *)
(* code know where the fields of a type begin and end: the writer          *)
(* (serialize_dns_record), the decoder of received records                 *)
(* (parse_resource_record), the cache of pre-encoded records               *)
(* (dns_record_preparse_cache), the two tables of the names inside RDATA   *)
(* (canonical form and compression) and the display of dag.  Each one is   *)
(* given here as a layout, a sequence of fields, and the same octets are   *)
(* read by all of them.                                                    *)
(*                                                                         *)
(* A token of the text form is its length and, for a number that decides   *)
(* how the rest is laid out, its value.  The octets are abstracted to      *)
(* chunks, one per field written; a reader stands at an offset and may     *)
(* read a name or a counted string only where one was written.             *)
(***************************************************************************)
EXTENDS Integers, Sequences, FiniteSets, SequencesExt

Field(is, n, i) == [is |-> is, n |-> n, i |-> i]
\* n octets of number, address or time
Fixed(n) == Field("fixed", n, 0)
\* a number that is the length of the i-th field
Announce(n, i) == Field("announce", n, i)
\* the data whose length the i-th field announces
By(i) == Field("by", 0, i)
\* a gateway or relay of the kind the i-th field says: none, IPv4, IPv6, name
Gateway(i) == Field("gateway", 0, i)
\* the address suffix and the prefix name of an A6 record
Suffix(i) == Field("suffix", 0, i)
PrefixName(i) == Field("prefix", 0, i)
\* a name that may be compressed, a name that may not, a character-string,
\* data behind its length octet, everything up to the end, and lists
Comp == Field("comp", 0, 0)
Raw == Field("raw", 0, 0)
Str == Field("str", 0, 0)
Counted == Field("counted", 0, 0)
Rest == Field("rest", 0, 0)
Strs == Field("strs", 0, 0)
Names == Field("names", 0, 0)

OneName == {"NS", "MD", "MF", "CNAME", "MB", "MG", "MR", "PTR"}
TextLike == {"TXT", "SPF", "AVC", "NINFO", "RESINFO", "WALLET"}
KeyLike == {"KEY", "DNSKEY", "CDNSKEY", "RKEY"}
DigestLike == {"DS", "CDS", "TA", "DLV"}
Blobs == {"OPENPGPKEY", "DHCID", "HHIT", "BRID"}
Signatures == {"SIG", "RRSIG"}

---------------------------------------------------------------------------
(* serialize_dns_record(), type by type *)

WrittenHost(t) ==
    CASE t = "A" -> <<Fixed(4)>>
      [] t = "AAAA" -> <<Fixed(16)>>
      [] t \in OneName -> <<Comp>>
      [] t \in {"NSAP-PTR", "DNAME"} -> <<Raw>>
      [] t = "MX" -> <<Fixed(2), Comp>>
      [] t = "SRV" -> <<Fixed(2), Fixed(2), Fixed(2), Raw>>
      [] OTHER -> <<>>

WrittenPlace(t) ==
    CASE t = "X25" -> <<Str>>
      [] t = "ISDN" -> <<Str, Str>>
      [] t = "NSAP" -> <<Rest>>
      [] t = "GPOS" -> <<Str, Str, Str>>
      [] t = "LOC" -> <<Fixed(1), Fixed(1), Fixed(1), Fixed(1),
                        Fixed(4), Fixed(4), Fixed(4)>>
      [] t = "APL" -> <<Rest>>
      [] t = "CAA" -> <<Fixed(1), Counted, Rest>>
      [] OTHER -> <<>>

WrittenSoaText(t) ==
    CASE t = "SOA" -> <<Comp, Comp, Fixed(4), Fixed(4), Fixed(4), Fixed(4), Fixed(4)>>
      [] t \in TextLike -> <<Strs>>
      [] OTHER -> <<>>

WrittenRelay(t) ==
    CASE t = "IPSECKEY" -> <<Fixed(1), Fixed(1), Fixed(1), Gateway(2), Rest>>
      [] t = "AMTRELAY" -> <<Fixed(1), Fixed(1), Gateway(2)>>
      [] t \in {"NID", "L64"} -> <<Fixed(2), Fixed(8)>>
      [] t = "L32" -> <<Fixed(2), Fixed(4)>>
      [] t = "SSHFP" -> <<Fixed(1), Fixed(1), Rest>>
      [] OTHER -> <<>>

WrittenSigned(t) ==
    CASE t \in Signatures -> <<Fixed(2), Fixed(1), Fixed(1), Fixed(4), Fixed(4),
                               Fixed(4), Fixed(2), Raw, Rest>>
      [] t = "NSEC" -> <<Raw, Rest>>
      [] t = "NSEC3" -> <<Fixed(1), Fixed(1), Fixed(2), Counted, Counted, Rest>>
      [] t \in {"TLSA", "SMIMEA"} -> <<Fixed(1), Fixed(1), Fixed(1), Rest>>
      [] t = "CERT" -> <<Fixed(2), Fixed(2), Fixed(1), Rest>>
      [] OTHER -> <<>>

WrittenService(t) ==
    CASE t = "NAPTR" -> <<Fixed(2), Fixed(2), Str, Str, Str, Raw>>
      [] t = "NSEC3PARAM" -> <<Fixed(1), Fixed(1), Fixed(2), Counted>>
      [] t = "HIP" -> <<Announce(1, 4), Fixed(1), Announce(2, 5), By(1), By(3), Names>>
      [] t \in {"SVCB", "HTTPS"} -> <<Fixed(2), Raw, Rest>>
      [] OTHER -> <<>>

WrittenLater(t) ==
    CASE t = "DSYNC" -> <<Fixed(2), Fixed(1), Fixed(2), Raw>>
      [] t = "HINFO" -> <<Str, Str>>
      [] t = "URI" -> <<Fixed(2), Fixed(2), Rest>>
      [] t = "SINK" -> <<Fixed(1), Fixed(1), Fixed(1), Rest>>
      [] t \in {"OPENPGPKEY", "DHCID"} -> <<Rest>>
      [] t = "EUI48" -> <<Fixed(6)>>
      [] t = "EUI64" -> <<Fixed(8)>>
      [] t = "ZONEMD" -> <<Fixed(4), Fixed(1), Fixed(1), Rest>>
      [] OTHER -> <<>>

WrittenPair(t) ==
    CASE t = "WKS" -> <<Fixed(4), Fixed(1), Rest>>
      [] t = "MINFO" -> <<Comp, Comp>>
      [] t = "RP" -> <<Raw, Raw>>
      [] t \in {"AFSDB", "RT", "KX", "LP"} -> <<Fixed(2), Raw>>
      [] t = "PX" -> <<Fixed(2), Raw, Raw>>
      [] t = "CSYNC" -> <<Fixed(4), Fixed(2), Rest>>
      [] OTHER -> <<>>

WrittenKey(t) ==
    CASE t \in DigestLike \cup KeyLike -> <<Fixed(2), Fixed(1), Fixed(1), Rest>>
      [] t = "TALINK" -> <<Raw, Raw>>
      [] t \in {"HHIT", "BRID"} -> <<Rest>>
      [] t = "NXT" -> <<Raw, Rest>>
      [] t = "ATMA" -> <<Fixed(1), Rest>>
      [] t = "A6" -> <<Fixed(1), Suffix(1), PrefixName(1)>>
      [] t = "DOA" -> <<Fixed(4), Fixed(4), Fixed(1), Counted, Rest>>
      [] OTHER -> <<>>

Written(t) ==
    WrittenHost(t) \o WrittenPlace(t) \o WrittenSoaText(t) \o WrittenRelay(t)
        \o WrittenSigned(t) \o WrittenService(t) \o WrittenLater(t)
        \o WrittenPair(t) \o WrittenKey(t)

---------------------------------------------------------------------------
(* dag's display, type by type.  Addresses, numbers and text are only      *)
(* printed; what matters is where it looks for them.                       *)

ShownBasic(t) ==
    CASE t = "A" -> <<Fixed(4)>>
      [] t = "AAAA" -> <<Fixed(16)>>
      [] t \in OneName \cup {"NSAP-PTR", "DNAME"} -> <<Raw>>
      [] t = "MX" -> <<Fixed(2), Raw>>
      [] t = "SOA" -> <<Raw, Raw, Fixed(4), Fixed(4), Fixed(4), Fixed(4), Fixed(4)>>
      [] t \in TextLike -> <<Strs>>
      [] OTHER -> <<>>

ShownOld(t) ==
    CASE t = "WKS" -> <<Fixed(4), Fixed(1), Rest>>
      [] t = "HINFO" -> <<Str, Str>>
      [] t = "MINFO" -> <<Raw, Raw>>
      [] t = "SINK" -> <<Fixed(1), Fixed(1), Fixed(1), Rest>>
      [] t = "RP" -> <<Raw, Raw>>
      [] t = "AFSDB" -> <<Fixed(2), Raw>>
      [] t = "X25" -> <<Str>>
      [] t = "ISDN" -> <<Str, Str>>
      [] t = "NSAP" -> <<Rest>>
      [] t = "PX" -> <<Fixed(2), Raw, Raw>>
      [] t \in {"RT", "KX", "LP"} -> <<Fixed(2), Raw>>
      [] t = "GPOS" -> <<Str, Str, Str>>
      [] OTHER -> <<>>

ShownMiddle(t) ==
    CASE t = "LOC" -> <<Fixed(1), Fixed(1), Fixed(1), Fixed(1),
                        Fixed(4), Fixed(4), Fixed(4)>>
      [] t = "SRV" -> <<Fixed(2), Fixed(2), Fixed(2), Raw>>
      [] t = "NAPTR" -> <<Fixed(2), Fixed(2), Str, Str, Str, Raw>>
      [] t = "CERT" -> <<Fixed(2), Fixed(2), Fixed(1), Rest>>
      [] t = "APL" -> <<Rest>>
      [] t = "SSHFP" -> <<Fixed(1), Fixed(1), Rest>>
      [] OTHER -> <<>>

ShownNewer(t) ==
    CASE t = "IPSECKEY" -> <<Fixed(1), Fixed(1), Fixed(1), Gateway(2), Rest>>
      [] t \in {"DHCID", "OPENPGPKEY"} -> <<Rest>>
      [] t = "NSEC3PARAM" -> <<Fixed(1), Fixed(1), Fixed(2), Counted>>
      [] t = "NSEC3" -> <<Fixed(1), Fixed(1), Fixed(2), Counted, Counted, Rest>>
      [] t \in {"TLSA", "SMIMEA"} -> <<Fixed(1), Fixed(1), Fixed(1), Rest>>
      [] t = "HIP" -> <<Fixed(1), Fixed(1), Fixed(2), By(1), By(3), Names>>
      [] OTHER -> <<>>

ShownService(t) ==
    CASE t \in {"SVCB", "HTTPS"} -> <<Fixed(2), Raw, Rest>>
      [] t = "DSYNC" -> <<Fixed(2), Fixed(1), Fixed(2), Raw>>
      [] t = "URI" -> <<Fixed(2), Fixed(2), Rest>>
      [] t \in Signatures -> <<Fixed(2), Fixed(1), Fixed(1), Fixed(4), Fixed(4),
                               Fixed(4), Fixed(2), Raw, Rest>>
      [] t \in KeyLike \cup DigestLike -> <<Fixed(2), Fixed(1), Fixed(1), Rest>>
      [] t = "NSEC" -> <<Raw, Rest>>
      [] t = "CSYNC" -> <<Fixed(4), Fixed(2), Rest>>
      [] t = "ZONEMD" -> <<Fixed(4), Fixed(1), Fixed(1), Rest>>
      [] OTHER -> <<>>

ShownLast(t) ==
    CASE t = "CAA" -> <<Fixed(1), Counted, Rest>>
      [] t = "EUI48" -> <<Fixed(6)>>
      [] t = "EUI64" -> <<Fixed(8)>>
      [] t \in {"NID", "L64"} -> <<Fixed(2), Fixed(8)>>
      [] t = "L32" -> <<Fixed(2), Fixed(4)>>
      [] t = "AMTRELAY" -> <<Fixed(1), Fixed(1), Gateway(2)>>
      [] t = "NXT" -> <<Raw, Rest>>
      [] OTHER -> <<>>

ShownRare(t) ==
    CASE t = "ATMA" -> <<Fixed(1), Rest>>
      [] t = "A6" -> <<Fixed(1), Suffix(1), PrefixName(1)>>
      [] t = "DOA" -> <<Fixed(4), Fixed(4), Fixed(1), Counted, Rest>>
      [] t = "TALINK" -> <<Raw, Raw>>
      [] t \in {"HHIT", "BRID"} -> <<Rest>>
      [] OTHER -> <<>>

Shown(t) ==
    ShownBasic(t) \o ShownOld(t) \o ShownMiddle(t) \o ShownNewer(t)
        \o ShownService(t) \o ShownLast(t) \o ShownRare(t)

---------------------------------------------------------------------------
(* parse_resource_record(): what a received record is taken apart into.    *)
(* Every other type is kept as it came.                                    *)

ParsedAs(t) ==
    CASE t = "SOA" -> <<Raw, Raw, Fixed(4), Fixed(4), Fixed(4), Fixed(4), Fixed(4)>>
      [] t = "A" -> <<Fixed(4)>>
      [] t = "AAAA" -> <<Fixed(16)>>
      [] t \in OneName \cup {"NSAP-PTR", "DNAME"} -> <<Raw>>
      [] t \in {"MINFO", "RP"} -> <<Raw, Raw>>
      [] t \in {"AFSDB", "RT", "KX", "LP", "MX"} -> <<Fixed(2), Raw>>
      [] t = "PX" -> <<Fixed(2), Raw, Raw>>
      [] t = "SRV" -> <<Fixed(2), Fixed(2), Fixed(2), Raw>>
      [] t = "NAPTR" -> <<Fixed(2), Fixed(2), Str, Str, Str, Raw>>
      [] t = "TXT" -> <<Strs>>
      [] OTHER -> <<Rest>>

Decoded == OneName \cup {"SOA", "A", "AAAA", "NSAP-PTR", "DNAME", "MINFO", "RP",
                         "AFSDB", "RT", "KX", "LP", "MX", "PX", "SRV", "NAPTR", "TXT"}

(* The shortest RDATA the decoder looks at. *)
ShortestParsed(t) ==
    CASE t = "A" -> 4
      [] t = "AAAA" -> 16
      [] t \in {"AFSDB", "RT", "KX", "LP", "MX"} -> 3
      [] t = "PX" -> 4
      [] t \in {"SRV", "NAPTR"} -> 7
      [] OTHER -> 0

(* decode_dnssec_rdata(): the fields shown beside the kept octets. *)
DnssecFields(t) ==
    CASE t = "RRSIG" -> <<Fixed(2), Fixed(1), Fixed(1), Fixed(4), Fixed(4),
                          Fixed(4), Fixed(2), Raw, Rest>>
      [] t = "NSEC" -> <<Raw, Rest>>
      [] t = "NSEC3" -> <<Fixed(1), Fixed(1), Fixed(2), Counted, Counted, Rest>>
      [] t = "NSEC3PARAM" -> <<Fixed(1), Fixed(1), Fixed(2), Counted>>
      [] t \in {"DNSKEY", "DS"} -> <<Fixed(2), Fixed(1), Fixed(1), Rest>>
      [] OTHER -> <<>>

(* dns_record_preparse_cache(): the types written from encoded parts. *)
Cached(t) ==
    CASE t = "A" -> <<Fixed(4)>>
      [] t = "AAAA" -> <<Fixed(16)>>
      [] t \in OneName -> <<Comp>>
      [] t \in {"NSAP-PTR", "DNAME"} -> <<Raw>>
      [] t \in TextLike -> <<Strs>>
      [] t = "SOA" -> <<Comp, Comp, Fixed(4), Fixed(4), Fixed(4), Fixed(4), Fixed(4)>>
      [] t = "MX" -> <<Fixed(2), Comp>>
      [] t \in Signatures -> <<Fixed(2), Fixed(1), Fixed(1), Fixed(4), Fixed(4),
                               Fixed(4), Fixed(2), Raw, Rest>>
      [] t = "SRV" -> <<Fixed(2), Fixed(2), Fixed(2), Raw>>
      [] OTHER -> <<>>

(* g_rdata_name_layout: octets before the names, how many, compressible. *)
NameLayout(t) ==
    LET At(skip, count, compress) == <<skip, count, compress>> IN
    CASE t \in OneName -> At(0, 1, TRUE)
      [] t \in {"SOA", "MINFO"} -> At(0, 2, TRUE)
      [] t = "MX" -> At(2, 1, TRUE)
      [] t = "RP" -> At(0, 2, FALSE)
      [] t \in {"AFSDB", "RT", "KX", "LP"} -> At(2, 1, FALSE)
      [] t \in {"NSAP-PTR", "DNAME", "NXT", "NSEC"} -> At(0, 1, FALSE)
      [] t \in Signatures -> At(18, 1, FALSE)
      [] t = "PX" -> At(2, 2, FALSE)
      [] t = "SRV" -> At(6, 1, FALSE)
      [] OTHER -> At(0, 0, FALSE)

(* dns_canonical_downcase_rdata(): the names it lowers. *)
Lowered(t) ==
    CASE t \in OneName \cup {"NXT", "DNAME"} -> <<Raw>>
      [] t \in {"SOA", "MINFO", "RP"} -> <<Raw, Raw>>
      [] t \in {"MX", "AFSDB", "RT", "KX"} -> <<Fixed(2), Raw>>
      [] t = "PX" -> <<Fixed(2), Raw, Raw>>
      [] t = "SRV" -> <<Fixed(6), Raw>>
      [] t \in Signatures -> <<Fixed(18), Raw>>
      [] t = "NAPTR" -> <<Fixed(4), Str, Str, Str, Raw>>
      [] t = "A6" -> <<Fixed(1), Suffix(1), PrefixName(1)>>
      [] OTHER -> <<>>

(* dns_generic_rdata_parse(): types whose generic form has one size. *)
FixedSize(t) ==
    CASE t = "A" -> 4 [] t = "AAAA" -> 16 [] t = "EUI48" -> 6 [] t = "EUI64" -> 8
      [] t = "L32" -> 6 [] t \in {"NID", "L64"} -> 10 [] OTHER -> 0

-----------------------------------------------------------------------------
(***************************************************************************)
(* Writing RDATA by one layout and reading it by the others.               *)
(***************************************************************************)

Token(len, says, list) == [len |-> len, says |-> says, list |-> list]
Chunk(kind, len, says) == [kind |-> kind, len |-> len, says |-> says]

MaxString == 255

(* write_char_string() cuts a string at 255 octets. *)
StringChunk(len) == Chunk("str", 1 + (IF len > MaxString THEN MaxString ELSE len), 0)

(* A TXT token longer than 255 octets becomes several strings, an empty one *)
(* a string of length zero.                                                 *)
TextChunks[len \in 0 .. 3 * MaxString] ==
    IF len <= MaxString THEN <<StringChunk(len)>>
    ELSE <<StringChunk(MaxString)>> \o TextChunks[len - MaxString]

NameChunk(kind, len) == Chunk(kind, len, 0)

(* The chunks of the gateway or relay of kind says. *)
GatewayChunks(says, token) ==
    CASE says = 1 -> <<Chunk("data", 4, 0)>>
      [] says = 2 -> <<Chunk("data", 16, 0)>>
      [] says = 3 -> <<NameChunk("raw", token.len)>>
      [] OTHER -> <<>>

SuffixLength(prefix) == (128 - prefix + 7) \div 8

(* The chunks written for field k of a layout from the tokens of the text. *)
FieldChunks(field, tokens, k) ==
    LET token == tokens[k] IN
    CASE field.is = "fixed" -> <<Chunk("data", field.n, token.says)>>
      [] field.is = "announce" -> <<Chunk("data", field.n, tokens[field.i].len)>>
      [] field.is \in {"comp", "raw"} -> <<NameChunk(field.is, token.len)>>
      [] field.is = "str" -> <<StringChunk(token.len)>>
      [] field.is = "counted" -> <<Chunk("counted", 1 + token.len, 0)>>
      [] field.is \in {"rest", "by"} -> <<Chunk("data", token.len, 0)>>
      [] field.is = "strs" -> FlattenSeq([j \in DOMAIN token.list |-> TextChunks[token.list[j]]])
      [] field.is = "names" -> [j \in DOMAIN token.list |-> NameChunk("raw", token.list[j])]
      [] field.is = "gateway" -> GatewayChunks(tokens[field.i].says, token)
      [] field.is = "suffix" -> <<Chunk("data", SuffixLength(tokens[field.i].says), 0)>>
      [] field.is = "prefix" ->
            IF tokens[field.i].says = 0 THEN <<>> ELSE <<NameChunk("raw", token.len)>>

(* The tokens may be fewer than the fields: the optional ones are left out. *)
Write(layout, tokens) ==
    FlattenSeq([k \in 1 .. Len(tokens) |-> FieldChunks(layout[k], tokens, k)])

RECURSIVE Length(_)
Length(chunks) == IF chunks = <<>> THEN 0 ELSE Head(chunks).len + Length(Tail(chunks))
Start(chunks, k) == Length(SubSeq(chunks, 1, k - 1))

(* The chunk that was written at an offset: 0 when the offset is inside a   *)
(* chunk or behind the last one.  Empty chunks begin where the next does.   *)
ChunkAt(chunks, at, kinds) ==
    LET here == {k \in DOMAIN chunks : Start(chunks, k) = at /\ chunks[k].kind \in kinds}
    IN  IF here = {} THEN 0 ELSE CHOOSE k \in here : \A j \in here : k <= j

(* One field of a reader at an offset: the spans it takes, or Fails. *)
Fails == <<[from |-> 0, to |-> 0, kind |-> "malformed"]>>
Span(from, to, kind) == <<[from |-> from, to |-> to, kind |-> kind]>>

ReadWhole(chunks, at, kinds, kind) ==
    LET k == ChunkAt(chunks, at, kinds)
    IN  IF k = 0 THEN Fails ELSE Span(at, at + chunks[k].len, kind)

ReadOctets(chunks, at, n) ==
    IF at + n > Length(chunks) THEN Fails ELSE Span(at, at + n, "data")

(* The value of a number read before, known only if it was written there. *)
Said(chunks, spans, i) ==
    LET k == ChunkAt(chunks, spans[i].from, {"data"})
    IN  IF k # 0 /\ spans[i].to = spans[i].from + chunks[k].len
        THEN chunks[k].says ELSE 999

RECURSIVE ReadList(_, _, _, _)
ReadList(chunks, at, kinds, kind) ==
    IF at = Length(chunks) THEN <<>>
    ELSE LET one == ReadWhole(chunks, at, kinds, kind)
         IN  IF one = Fails THEN Fails
             ELSE one \o ReadList(chunks, one[1].to, kinds, kind)

ReadField(field, chunks, at, spans) ==
    LET name == ReadWhole(chunks, at, {"comp", "raw"}, "name")
        said == IF field.i = 0 THEN 0 ELSE Said(chunks, spans, field.i)
    IN  CASE field.is = "fixed" -> ReadOctets(chunks, at, field.n)
          [] field.is = "raw" -> name
          [] field.is = "str" -> ReadWhole(chunks, at, {"str"}, "str")
          [] field.is = "counted" -> ReadWhole(chunks, at, {"counted"}, "counted")
          [] field.is = "rest" -> Span(at, Length(chunks), "data")
          [] field.is = "strs" -> ReadList(chunks, at, {"str"}, "str")
          [] field.is = "names" -> ReadList(chunks, at, {"raw"}, "name")
          [] field.is = "by" -> ReadOctets(chunks, at, said)
          [] field.is = "gateway" /\ said = 1 -> ReadOctets(chunks, at, 4)
          [] field.is = "gateway" /\ said = 2 -> ReadOctets(chunks, at, 16)
          [] field.is = "gateway" /\ said = 3 -> name
          [] field.is = "gateway" -> <<>>
          [] field.is = "suffix" ->
                IF said > 128 THEN Fails ELSE ReadOctets(chunks, at, SuffixLength(said))
          [] field.is = "prefix" -> IF said = 0 THEN <<>> ELSE name

RECURSIVE ReadFrom(_, _, _, _, _)
ReadFrom(layout, k, chunks, at, spans) ==
    LET Next(new) == IF new = Fails THEN Fails
                     ELSE ReadFrom(layout, k + 1, chunks,
                                   IF new = <<>> THEN at ELSE new[Len(new)].to, spans \o new)
    IN  IF k > Len(layout) \/ (at = Length(chunks) /\ k > 1
                               /\ layout[k].is \in {"str", "rest"}) THEN spans
        ELSE Next(ReadField(layout[k], chunks, at, spans))

Read(layout, chunks) == ReadFrom(layout, 1, chunks, 0, <<>>)

(* The spans of the chunks as they were written; an empty last chunk has no *)
(* octet and is not shown.                                                  *)
KindRead(kind) == IF kind \in {"comp", "raw"} THEN "name" ELSE kind
AllSpans(chunks) ==
    [k \in DOMAIN chunks |->
        [from |-> Start(chunks, k), to |-> Start(chunks, k + 1), kind |-> KindRead(chunks[k].kind)]]
NotEmpty(span) == span.to > span.from
Spans(chunks) == SelectSeq(AllSpans(chunks), NotEmpty)
ReadSpans(layout, chunks) ==
    LET spans == Read(layout, chunks)
    IN  IF spans = Fails THEN Fails ELSE SelectSeq(spans, NotEmpty)

---------------------------------------------------------------------------
(* What dag shows field by field is what the server wrote field by field,  *)
(* up to the last octet.                                                   *)
ShownAsWritten(t, tokens) ==
    \A chunks \in {Write(Written(t), tokens)} : ReadSpans(Shown(t), chunks) = Spans(chunks)

(* A received record that was taken apart is written again with the same   *)
(* octets, and its text fields are where the writer put them; the DNSSEC   *)
(* fields shown beside a kept record are the fields written.               *)
KeptAsReceived(t, tokens) ==
    \A chunks \in {Write(Written(t), tokens)} :
        /\ t \in Decoded =>
            /\ Length(chunks) >= ShortestParsed(t)
            /\ ReadSpans(ParsedAs(t), chunks) = Spans(chunks)
        /\ DnssecFields(t) # <<>> => ReadSpans(DnssecFields(t), chunks) = Spans(chunks)

(* A record written from its pre-encoded parts is the record written from  *)
(* its text, compression included.                                         *)
CachedSame(t, tokens) ==
    Cached(t) # <<>> => Write(Cached(t), tokens) = Write(Written(t), tokens)

(* The table of names agrees with the writer: it lists a type with its     *)
(* names wherever they stand at a fixed place, and exactly the names the   *)
(* writer may compress are marked; every compressible name is in it.       *)
TabledAs(layout, entry) ==
    LET names == {k \in DOMAIN layout : layout[k].is \in {"comp", "raw"}}
        First == CHOOSE k \in names : \A j \in names : k <= j
    IN  /\ entry[2] > 0 =>
            /\ names # {}
            /\ \A k \in 1 .. First - 1 : layout[k].is = "fixed"
            /\ entry[1] = FoldLeft(LAMBDA sum, f : sum + f.n, 0, SubSeq(layout, 1, First - 1))
            /\ names = First .. First + entry[2] - 1
            /\ \A k \in names : (layout[k].is = "comp") <=> entry[3]
        /\ (\E k \in DOMAIN layout : layout[k].is = "comp") => entry[2] > 0 /\ entry[3]
NamesTabled(t) == TabledAs(Written(t), NameLayout(t))

(* The canonical form lowers letters of names only: every place it lowers  *)
(* is a name that was written, and every compressible name is lowered, so  *)
(* two spellings of it compare equal.                                      *)
LowersNames(t, tokens) ==
    \A chunks \in {Write(Written(t), tokens)} : \A spans \in {Read(Lowered(t), chunks)} :
        /\ spans # Fails
        /\ \A k \in {c \in DOMAIN chunks : chunks[c].kind = "comp"} : \E s \in DOMAIN spans :
                spans[s].kind = "name" /\ spans[s].from = Start(chunks, k)

(* The generic form of a type has the size the writer gives it. *)
SizeIsFixed(t, tokens) ==
    FixedSize(t) # 0 => Length(Write(Written(t), tokens)) = FixedSize(t)

---------------------------------------------------------------------------
RdataTypes ==
    OneName \cup TextLike \cup KeyLike \cup DigestLike \cup Blobs \cup Signatures
        \cup {"A", "AAAA", "NSAP-PTR", "DNAME", "MX", "SRV", "X25", "ISDN", "NSAP", "GPOS",
              "LOC", "APL", "CAA", "SOA", "IPSECKEY", "AMTRELAY", "NID", "L64", "L32", "SSHFP",
              "NSEC", "NSEC3", "TLSA", "SMIMEA", "CERT", "NAPTR", "NSEC3PARAM", "HIP", "SVCB",
              "HTTPS", "DSYNC", "HINFO", "URI", "SINK", "EUI48", "EUI64", "ZONEMD", "WKS",
              "MINFO", "RP", "AFSDB", "RT", "KX", "LP", "PX", "CSYNC", "TALINK", "NXT", "ATMA",
              "A6", "DOA"}

(* The tokens a field is tried with; the fields a later one depends on say  *)
(* their value.                                                             *)
TokensFor(t, field, k) ==
    CASE t \in {"IPSECKEY", "AMTRELAY"} /\ k = 2 -> {Token(0, says, <<>>) : says \in 0 .. 3}
      [] t = "A6" /\ k = 1 -> {Token(0, says, <<>>) : says \in {0, 1, 64, 128}}
      [] field.is \in {"fixed", "announce", "suffix"} -> {Token(0, 0, <<>>)}
      [] field.is \in {"comp", "raw", "prefix", "gateway"} -> {Token(len, 0, <<>>) : len \in {1, 5}}
      [] field.is = "str" -> {Token(len, 0, <<>>) : len \in {0, 2, 300}}
      [] field.is = "strs" -> {Token(0, 0, list) : list \in {<<0>>, <<3, 0>>, <<255, 2>>, <<600>>}}
      [] field.is = "names" -> {Token(0, 0, list) : list \in {<<>>, <<1>>, <<5, 1>>}}
      [] OTHER -> {Token(len, 0, <<>>) : len \in {0, 3}}

RECURSIVE TokenLists(_, _)
TokenLists(t, k) ==
    IF k = 0 THEN {<<>>}
    ELSE {Append(list, token) : list \in TokenLists(t, k - 1),
                                token \in TokensFor(t, Written(t)[k], k)}

(* ISDN and SINK may end before their last field. *)
Optional == {"ISDN", "SINK", "IPSECKEY", "DOA"}

RdataSeeds == RdataTypes
RdataInputs(t) ==
    LET full == Len(Written(t)) IN
    {[type |-> t, tokens |-> tokens] :
        tokens \in TokenLists(t, full)
                   \cup IF t \in Optional THEN TokenLists(t, full - 1) ELSE {}}

RdataRight(i) ==
    /\ ShownAsWritten(i.type, i.tokens)
    /\ KeptAsReceived(i.type, i.tokens)
    /\ CachedSame(i.type, i.tokens)
    /\ NamesTabled(i.type)
    /\ LowersNames(i.type, i.tokens)
    /\ SizeIsFixed(i.type, i.tokens)

---------------------------------------------------------------------------
(* The parts of RDATA with rules of their own: type bitmaps, the            *)
(* parameters of SVCB and HTTPS, the precision octet of LOC and the items   *)
(* of APL, as serialize_dns_record() writes them and as the decoder of      *)
(* received records and dag read them.                                      *)

---------------------------------------------------------------------------
(* encode_type_bitmap(): sorted codes in windows of 256, each window as     *)
(* long as its last bit asks; code 0 (an unknown name) is left out.         *)
Window == 256
BitsOf(codes, w) == {c % Window : c \in {d \in codes \ {0} : d \div Window = w}}
Highest(set) == CHOOSE x \in set : \A y \in set : y <= x
encode_type_bitmap(codes) ==
    LET windows == SetToSortSeq({c \div Window : c \in codes \ {0}}, <)
    IN  [k \in DOMAIN windows |->
            [window |-> windows[k], bits |-> BitsOf(codes, windows[k]),
             length |-> Highest(BitsOf(codes, windows[k])) \div 8 + 1]]

(* decode_type_bitmap() of dag takes what fits; dnssec_rdata_bitmap()       *)
(* refuses windows out of order and lengths other than 1 to 32, and drops   *)
(* the types that have no records.                                          *)
decode_type_bitmap(windows) ==
    UNION {{w.window * Window + b : b \in {c \in w.bits : c < w.length * 8}} : w \in ToSet(windows)}

NoRecords == {0, 41} \cup 249 .. 255
dnssec_rdata_bitmap(windows) ==
    IF \A k \in DOMAIN windows :
            /\ windows[k].length \in 1 .. 32
            /\ k > 1 => windows[k].window > windows[k - 1].window
    THEN decode_type_bitmap(windows) \ NoRecords
    ELSE {-1}

(* NXT (RFC 2535): one map of the types 1 to 127. *)
NxtBitmap(codes) ==
    LET kept == {c \in codes : c \in 1 .. 127}
    IN  [bits |-> kept, length |-> IF kept = {} THEN 0 ELSE Highest(kept) \div 8 + 1]
NxtShown(map) == {c \in map.bits \ {0} : c < map.length * 8}

---------------------------------------------------------------------------
(* SVCB and HTTPS parameters.  A parameter is its key name and its value;   *)
(* the value of mandatory is a list of key names, another value is right    *)
(* or not for its key.                                                      *)
KeyNumber(name) ==
    CASE name = "mandatory" -> 0 [] name = "alpn" -> 1 [] name = "no-default-alpn" -> 2
      [] name = "port" -> 3 [] name = "ipv4hint" -> 4 [] name = "ech" -> 5
      [] name = "ipv6hint" -> 6 [] name = "key1" -> 1 [] name = "key0" -> 0
      [] name = "key7" -> 7 [] name = "key65535" -> 65535 [] OTHER -> -1

(* The list of a mandatory parameter: known names, not mandatory itself,    *)
(* none twice.                                                              *)
MandatoryOk(list) ==
    /\ \A k \in DOMAIN list : KeyNumber(list[k]) \in 1 .. 65534
    /\ \A j, k \in DOMAIN list : KeyNumber(list[j]) = KeyNumber(list[k]) => j = k

(* What is written: the parameters by key, or Refused. *)
Refused == <<[key |-> -1, list |-> <<>>]>>
WrittenKnown(known) ==
    LET Key(k) == KeyNumber(known[k].name)
        keys == {Key(k) : k \in DOMAIN known}
        mandatory == {k \in DOMAIN known : Key(k) = 0}
        Listed(k) == {KeyNumber(n) : n \in ToSet(known[k].list)}
        refused == \/ 65535 \in keys
                   \/ \E j, k \in DOMAIN known : j # k /\ Key(j) = Key(k)
                   \/ \E k \in DOMAIN known : ~known[k].right
                   \/ \E k \in mandatory : ~MandatoryOk(known[k].list)
                   \/ \E k \in mandatory : ~(Listed(k) \subseteq keys)
        Of(key) == CHOOSE k \in DOMAIN known : Key(k) = key
        Sorted(seq) == [j \in DOMAIN seq |-> [key |-> seq[j], list |-> SetToSortSeq(Listed(Of(seq[j])), <)]]
    IN  IF refused THEN Refused ELSE Sorted(SetToSortSeq(keys, <))
WrittenParams(params) == WrittenKnown(SelectSeq(params, LAMBDA p : KeyNumber(p.name) # -1))

(* sink_svcparams(): the parameters as dag prints them. *)
KeyName(key) ==
    CASE key = 0 -> "mandatory" [] key = 1 -> "alpn" [] key = 2 -> "no-default-alpn"
      [] key = 3 -> "port" [] key = 4 -> "ipv4hint" [] key = 5 -> "ech"
      [] key = 6 -> "ipv6hint" [] key = 7 -> "key7" [] OTHER -> "other"
sink_svcparams(wire) ==
    [k \in DOMAIN wire |->
        [name |-> KeyName(wire[k].key), right |-> TRUE,
         list |-> [j \in DOMAIN wire[k].list |-> KeyName(wire[k].list[j])]]]

---------------------------------------------------------------------------
(* loc_encode_precsize(), in centimetres: one digit and a power of ten.     *)
MaxExponent == 9
Power[e \in 0 .. 9] == IF e = 0 THEN 1 ELSE 10 * Power[e - 1]
loc_encode_precsize(cm) ==
    LET exponent == Cardinality({e \in 1 .. MaxExponent : cm >= Power[e]})
        mantissa == cm \div Power[exponent]
    IN  <<IF mantissa > 9 THEN 9 ELSE mantissa, exponent>>
loc_decode_precsize(octet) == octet[1] * Power[octet[2]]

(* APL: an address without the zero octets at its end. *)
TrimAddress(address) ==
    LET used == {k \in DOMAIN address : address[k] # 0}
    IN  IF used = {} THEN <<>> ELSE SubSeq(address, 1, Highest(used))
ShownAddress(trimmed, length) ==
    [k \in 1 .. length |-> IF k <= Len(trimmed) THEN trimmed[k] ELSE 0]

---------------------------------------------------------------------------
(* A bitmap names the types it was made from, in both readers. *)
BitmapRight(codes) ==
    LET windows == encode_type_bitmap(codes)
    IN  /\ decode_type_bitmap(windows) = codes \ {0}
        /\ dnssec_rdata_bitmap(windows) = codes \ NoRecords
        /\ NxtShown(NxtBitmap(codes)) = codes \cap 1 .. 127

(* The order of the parameters does not matter: sorted with none twice,     *)
(* with every mandatory key present, and what dag prints is written as the  *)
(* same octets again.                                                       *)
ParamsRight(params) ==
    \A wire \in {WrittenParams(params)} :
        /\ WrittenParams(Reverse(params)) = wire
        /\ wire # Refused =>
            /\ \A k \in DOMAIN wire : k > 1 => wire[k].key > wire[k - 1].key
            /\ \A k \in DOMAIN wire : ToSet(wire[k].list) \subseteq {wire[j].key : j \in DOMAIN wire}
            /\ WrittenParams(sink_svcparams(wire)) = wire

(* A precision of one digit is kept; another one loses digits but never     *)
(* grows, and stays above a tenth.                                          *)
PrecisionRight(cm) ==
    LET shown == loc_decode_precsize(loc_encode_precsize(cm))
    IN  /\ shown <= cm
        /\ cm - shown < Power[loc_encode_precsize(cm)[2]]
        /\ shown = loc_decode_precsize(loc_encode_precsize(shown))

AddressRight(address) ==
    LET trimmed == TrimAddress(address)
    IN  /\ ShownAddress(trimmed, Len(address)) = address
        /\ trimmed # <<>> => trimmed[Len(trimmed)] # 0

Param(name, right, list) == [name |-> name, right |-> right, list |-> list]
SomeParams ==
    {Param(n, TRUE, <<>>) : n \in {"alpn", "key1", "port", "key7", "key65535", "unknown"}}
        \cup {Param("port", FALSE, <<>>)}
        \cup {Param("mandatory", TRUE, l) : l \in {<<"alpn">>, <<"port", "alpn">>, <<"alpn", "key1">>,
                                                   <<"mandatory">>, <<"unknown">>}}

PartsSeeds == {"bitmap", "params", "precision", "address"}
SomeCodes == {0, 1, 2, 41, 127, 128, 250, 255, 256, 257, 32769, 65535}
PartsInputs(seed) ==
    CASE seed = "bitmap" -> {[is |-> seed, codes |-> c] : c \in {s \in SUBSET SomeCodes : Cardinality(s) <= 3}}
      [] seed = "params" -> {[is |-> seed, params |-> p] :
                                p \in UNION {[1 .. n -> SomeParams] : n \in 0 .. 3}}
      [] seed = "precision" -> {[is |-> seed, cm |-> c] :
                                c \in (0 .. 120) \cup {950, 999, 1000, 12345, 99999999, 100000000, 999999999}}
      [] seed = "address" -> {[is |-> seed, address |-> a] : a \in [1 .. 4 -> {0, 7}]}

PartsRight(i) ==
    CASE i.is = "bitmap" -> BitmapRight(i.codes)
      [] i.is = "params" -> ParamsRight(i.params)
      [] i.is = "precision" -> PrecisionRight(i.cm)
      [] i.is = "address" -> AddressRight(i.address)
=============================================================================
