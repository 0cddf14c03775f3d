-------------------------------- MODULE Wire --------------------------------
(***************************************************************************)
(* The octets of BACnet/IP as internal/bacnet writes them: tag headers     *)
(* (tag.go), values (value.go), service parameters (services.go,           *)
(* errors.go) and packets (apdu.go, npdu.go, bvlc.go).  An octet is a      *)
(* number, a packet a sequence of octets.                                  *)
(*                                                                         *)
(* A value is a record [kind, tag, data].  data is a sequence of integers: *)
(* the eight octets of a 64-bit integer, the four of an Enumerated or a    *)
(* Real, the code points of a string, the bits of a bit string, the fields *)
(* of a date or time (-1 unspecified), <<type, instance>> of an object.  A *)
(* constructed value is written out flat: an "open" value, its items and a *)
(* "close" value; only these and "context" values use tag.                 *)
(***************************************************************************)
EXTENDS Integers, Sequences, FiniteSetsExt, SequencesExt

Octet == 0 .. 255

\* Position n + 1 holds the kind of application tag n (tag.go:12-26).
AppKinds == << "null", "boolean", "unsigned", "signed", "real", "double",
               "octets", "text", "bits", "enumerated", "date", "time", "object" >>

Value(kind, data) == [kind |-> kind, tag |-> 0, data |-> data]
ContextPrimitiveValue(tag, data) == [kind |-> "context", tag |-> tag, data |-> data]
ConstructedValue(tag, items) ==
  << [kind |-> "open", tag |-> tag, data |-> << >>] >> \o items
    \o << [kind |-> "close", tag |-> tag, data |-> << >>] >>

applicationTagFor(kind) == (CHOOSE i \in DOMAIN AppKinds : AppKinds[i] = kind) - 1

-----------------------------------------------------------------------------
(* Integers.                                                               *)

\* The positions of s that satisfy Test, in order.
Positions(s, Test(_)) == SelectSeq([i \in 1 .. Len(s) |-> i], Test)

Zeros(n) == [i \in 1 .. n |-> 0]
LowOctets(n, s) == SubSeq(s, Len(s) - n + 1, Len(s))

\* n as an integer of width octets.
Uint(width, n) ==
  [i \in 1 .. width |-> IF width - i > 3 THEN 0 ELSE (n \div 256 ^ (width - i)) % 256]

\* tag.go:157-165 and 168-183, for an integer given by its eight octets.
minUnsignedBytes(u) ==
  SubSeq(u, Min({i \in 1 .. 8 : i = 8 \/ u[i] # 0}), 8)

\* Mutant of minSignedBytes: the sign of the first octet kept is ignored.
minSignedBytesBare(u) ==
  SubSeq(u, Min({i \in 1 .. 8 : i = 8 \/ u[i] \notin {0, 255}}), 8)

minSignedBytes(u) ==
  LET Redundant(i) == \/ u[i] = 0 /\ u[i + 1] < 128
                      \/ u[i] = 255 /\ u[i + 1] >= 128
  IN  SubSeq(u, Min({i \in 1 .. 8 : i = 8 \/ ~Redundant(i)}), 8)

\* value.go:480-497.  More than eight octets: the excess is shifted out.
decodeUnsignedData(d) == LowOctets(8, Zeros(8) \o d)

decodeSignedData(d) ==
  IF d # << >> /\ d[1] >= 128 THEN LowOctets(8, [i \in 1 .. 8 |-> 255] \o d)
                              ELSE decodeUnsignedData(d)

-----------------------------------------------------------------------------
(* Tags.                                                                   *)

Marker(tag, low) ==
  IF tag < 15 THEN << tag * 16 + low >> ELSE << 240 + low, tag >>

appendTagHeader(tag, context, length) ==
  LET class == IF context THEN 8 ELSE 0
  IN  CASE length <= 4     -> Marker(tag, class + length)
        [] length \in 5 .. 253 -> Marker(tag, class + 5) \o << length >>
        [] length \in 254 .. 65535 ->
             Marker(tag, class + 5) \o << 254 >> \o Uint(2, length)
        [] OTHER -> Marker(tag, class + 5) \o << 255 >> \o Uint(4, length)

appendOpeningTag(tag) == Marker(tag, 14)
appendClosingTag(tag) == Marker(tag, 15)

\* Whether the header at offset p of b (counted from 0, as in the code) lies
\* within b, and what it says.  A length of 2^24 or more is longer than any
\* packet; TooLong stands for all of them.
TooLong == 2 ^ 24
BadTag == [ok |-> FALSE, number |-> 0, context |-> FALSE, lvt |-> 0, header |-> 0]

decodeTagHeader(b, p) ==
  LET size  == Len(b) - p
      first == b[p + 1]
      named == IF first \div 16 = 15 THEN 2 ELSE 1
      low   == first % 8
      long  == b[p + named + 1]
      octets == IF long < 254 THEN 1 ELSE IF long = 254 THEN 3 ELSE 5
      length == IF long < 254 THEN long
                ELSE IF long = 254 THEN b[p + named + 2] * 256 + b[p + named + 3]
                ELSE IF b[p + named + 2] > 0 THEN TooLong
                ELSE b[p + named + 3] * 65536 + b[p + named + 4] * 256 + b[p + named + 5]
      whole == named + (IF low = 5 THEN octets ELSE 0)
      lvt   == IF low = 5 THEN length ELSE low
  IN  IF size < 1 \/ size < named \/ (low = 5 /\ size < named + 1) \/ size < whole
      THEN BadTag
      ELSE [ok |-> TRUE, number |-> IF named = 2 THEN b[p + 2] ELSE first \div 16,
            context |-> (first \div 8) % 2 = 1, lvt |-> lvt, header |-> whole]

IsOpening(t) == t.context /\ t.lvt = 6
IsClosing(t) == t.context /\ t.lvt = 7

-----------------------------------------------------------------------------
(* Values.                                                                 *)

encodeBitStringData(bits) ==
  LET n == Len(bits)
      Bit(i) == IF i <= n THEN bits[i] * 2 ^ (7 - ((i - 1) % 8)) ELSE 0
      Sum(j) == MapThenSumSet(Bit, 8 * j - 7 .. 8 * j)
  IN  << (8 - (n % 8)) % 8 >> \o [j \in 1 .. (n + 7) \div 8 |-> Sum(j)]

decodeBitStringData(d) ==
  [i \in 1 .. 8 * (Len(d) - 1) - d[1] |->
     (d[2 + (i - 1) \div 8] \div 2 ^ (7 - ((i - 1) % 8))) % 2]

\* Dates and times (value.go:250-303): years count from 1900, 255 is -1.
enc(v) == IF v < 0 THEN 255 ELSE v % 256
dec(o) == IF o = 255 THEN -1 ELSE o
encodeDateData(d) == << enc(d[1] - 1900), enc(d[2]), enc(d[3]), enc(d[4]) >>
decodeDateData(d) ==
  << IF d[1] = 255 THEN -1 ELSE d[1] + 1900, dec(d[2]), dec(d[3]), dec(d[4]) >>
encodeTimeData(t) == [i \in 1 .. 4 |-> enc(t[i])]
decodeTimeData(d) == [i \in 1 .. 4 |-> dec(d[i])]

\* A ten-bit type and the low 22 bits of an instance (value.go:211-215 and 305-311).
encodeObjectID(o) ==
  << (o[1] \div 4) % 256, (o[1] % 4) * 64 + ((o[2] \div 65536) % 64) >> \o Uint(2, o[2])
decodeObjectIDData(d) ==
  << d[1] * 4 + d[2] \div 64, (d[2] % 64) * 65536 + d[3] * 256 + d[4] >>

\* Strings.  The model's UTF-8 text is of one-octet characters; an octet
\* above 127 is malformed, and a run of them becomes one U+FFFD (65533).
\* Surrogates, single here, and numbers beyond U+10FFFF become U+FFFD too.
Malformed == 65533
ToValidUTF8(d) ==
  LET Starts(i) == d[i] < 128 \/ i = 1 \/ d[i - 1] < 128
      at == Positions(d, Starts)
  IN  [k \in DOMAIN at |-> IF d[at[k]] < 128 THEN d[at[k]] ELSE Malformed]
Rune(n) == IF n \in 55296 .. 57343 THEN Malformed ELSE n
Units(d, width) ==
  [i \in 1 .. Len(d) \div width |-> SubSeq(d, width * i - width + 1, width * i)]
UCS2(u) == Rune(u[1] * 256 + u[2])
UCS4(u) == IF u[1] > 0 \/ u[2] > 16 THEN Malformed
           ELSE Rune(u[2] * 65536 + u[3] * 256 + u[4])
decodeCharacterString(charset, d) ==
  CASE charset = 0 -> ToValidUTF8(d)
    [] charset = 5 -> d
    [] charset = 4 -> LET us == Units(d, 2) IN [i \in DOMAIN us |-> UCS2(us[i])]
    [] charset = 3 -> LET us == Units(d, 4) IN [i \in DOMAIN us |-> UCS4(us[i])]
CharsetOk(charset, d) ==
  \/ charset \in {0, 5}
  \/ charset = 4 /\ Len(d) % 2 = 0
  \/ charset = 3 /\ Len(d) % 4 = 0

\* The data octets of a value (AppendContextValue).
DataOf(v) ==
  CASE v.kind \in {"null", "boolean", "real", "double", "octets", "context"} -> v.data
    [] v.kind = "unsigned" -> minUnsignedBytes(v.data)
    [] v.kind = "signed" -> minSignedBytes(v.data)
    [] v.kind = "enumerated" -> minUnsignedBytes(Zeros(4) \o v.data)
    [] v.kind = "text" -> << 0 >> \o v.data
    [] v.kind = "bits" -> encodeBitStringData(v.data)
    [] v.kind = "date" -> encodeDateData(v.data)
    [] v.kind = "time" -> encodeTimeData(v.data)
    [] v.kind = "object" -> encodeObjectID(v.data)

\* An application-tagged Boolean has its value in the header (value.go:155-162).
AppendValue(v) ==
  CASE v.kind = "open" -> appendOpeningTag(v.tag)
    [] v.kind = "close" -> appendClosingTag(v.tag)
    [] v.kind = "context" -> appendTagHeader(v.tag, TRUE, Len(v.data)) \o v.data
    [] v.kind = "boolean" -> appendTagHeader(1, FALSE, v.data[1])
    [] OTHER -> appendTagHeader(applicationTagFor(v.kind), FALSE, Len(DataOf(v)))
                  \o DataOf(v)
AppendContextValue(tag, v) == appendTagHeader(tag, TRUE, Len(DataOf(v))) \o DataOf(v)
AppendValues(vs) == FlattenSeq([i \in DOMAIN vs |-> AppendValue(vs[i])])

\* Whether decodeApplicationValue accepts data d for a kind, and as what.
Decodable(kind, d) ==
  CASE kind \in {"real", "date", "time", "object"} -> Len(d) = 4
    [] kind = "double" -> Len(d) = 8
    [] kind = "text" -> d # << >> /\ CharsetOk(d[1], Tail(d))
    [] kind = "bits" -> d # << >> /\ 8 * (Len(d) - 1) >= d[1]
    [] OTHER -> TRUE
Decoded(kind, d) ==
  CASE kind = "null" -> << >>
    [] kind \in {"real", "double", "octets"} -> d
    [] kind = "unsigned" -> decodeUnsignedData(d)
    [] kind = "signed" -> decodeSignedData(d)
    [] kind = "enumerated" -> LowOctets(4, decodeUnsignedData(d))
    [] kind = "text" -> decodeCharacterString(d[1], Tail(d))
    [] kind = "bits" -> decodeBitStringData(d)
    [] kind = "date" -> decodeDateData(d)
    [] kind = "time" -> decodeTimeData(d)
    [] kind = "object" -> decodeObjectIDData(d)

-----------------------------------------------------------------------------
(* Services.  An optional parameter is a sequence of at most one number.   *)

Unsigned(n) == Value("unsigned", Uint(8, n))
Enumerated(n) == Value("enumerated", Uint(4, n))
Object(o) == Value("object", o)
AppendOptional(tag, opt) ==
  IF opt = << >> THEN << >> ELSE AppendContextValue(tag, Unsigned(opt[1]))
Bracketed(tag, octets) == appendOpeningTag(tag) \o octets \o appendClosingTag(tag)

EncodeReadPropertyRequest(object, prop, index) ==
  AppendContextValue(0, Object(object)) \o AppendContextValue(1, Enumerated(prop))
    \o AppendOptional(2, index)
EncodeReadPropertyACK(object, prop, index, values) ==
  EncodeReadPropertyRequest(object, prop, index) \o Bracketed(3, AppendValues(values))
EncodeWritePropertyRequest(object, prop, value, priority) ==
  EncodeReadPropertyACK(object, prop, << >>, << value >>) \o AppendOptional(4, priority)

\* A specification is an object and its references [prop, index]; a result an
\* object and its results [prop, index, values, err], err a sequence of at
\* most one error [class, code].
appendErrorSequence(e) == AppendValue(Enumerated(e.class)) \o AppendValue(Enumerated(e.code))
EncodeReadPropertyMultipleRequest(specs) ==
  LET Ref(r) == AppendContextValue(0, Enumerated(r.prop)) \o AppendOptional(1, r.index)
      Spec(s) == AppendContextValue(0, Object(s.object))
                   \o Bracketed(1, FlattenSeq([i \in DOMAIN s.refs |-> Ref(s.refs[i])]))
  IN  FlattenSeq([i \in DOMAIN specs |-> Spec(specs[i])])
EncodeReadPropertyMultipleACK(results) ==
  LET Result(r) ==
        AppendContextValue(2, Enumerated(r.prop)) \o AppendOptional(3, r.index)
          \o IF r.err # << >> THEN Bracketed(5, appendErrorSequence(r.err[1]))
                              ELSE Bracketed(4, AppendValues(r.values))
      Of(s) == AppendContextValue(0, Object(s.object))
                 \o Bracketed(1, FlattenSeq([i \in DOMAIN s.results |-> Result(s.results[i])]))
  IN  FlattenSeq([i \in DOMAIN results |-> Of(results[i])])

EncodeWhoIsRequest(low, high) ==
  IF low = << >> \/ high = << >> THEN << >>
  ELSE AppendOptional(0, low) \o AppendOptional(1, high)
EncodeIAm(instance, maxAPDU, segmentation, vendor) ==
  AppendValues(<< Object(<< 8, instance >>), Unsigned(maxAPDU),
                  Enumerated(segmentation), Unsigned(vendor) >>)

-----------------------------------------------------------------------------
(* Packets.                                                                *)

ReadProperty == 12
ReadPropertyMultiple == 14
WriteProperty == 15
WhoIs == 8
IAm == 0

EncodeConfirmedRequestAPDU(id, service, params) == << 0, 5, id, service >> \o params
EncodeUnconfirmedRequestAPDU(service, params) == << 16, service >> \o params
EncodeSimpleACKAPDU(id, service) == << 32, id, service >>
EncodeComplexACKAPDU(id, service, params) == << 48, id, service >> \o params
EncodeErrorAPDU(id, service, e) == << 80, id, service >> \o appendErrorSequence(e)
EncodeRejectAPDU(id, reason) == << 96, id, reason >>
EncodeAbortAPDU(id, reason) == << 113, id, reason >>

\* Data-expecting-reply for confirmed requests (npdu.go:11).
encodeNPDU(apdu) == << 1, IF apdu[1] \div 16 = 0 THEN 4 ELSE 0 >> \o apdu
EncodeUnicastPacket(apdu) ==
  << 129, 10 >> \o Uint(2, Len(apdu) + 6) \o encodeNPDU(apdu)
=============================================================================
