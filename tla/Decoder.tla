------------------------------- MODULE Decoder -------------------------------
(***************************************************************************)
(* How internal/bacnet takes a received packet apart: DecodeIncomingPacket *)
(* (bvlc.go, npdu.go, apdu.go) and then the Decode function of the service *)
(* (services.go, errors.go, value.go).  The Decode functions are sequences *)
(* and loops of a few helpers; todo is what is left of them to do, which   *)
(* for decodeNestedValues is its call stack.  pos counts octets from 0, as *)
(* in the code; out is what has been decoded so far, written out flat.     *)
(*                                                                         *)
(* Slicing beyond the end of a slice panics in Go, which ends the process  *)
(* unless it is a handler that decodes.  Here status becomes "panic".      *)
(***************************************************************************)
EXTENDS Wire

CONSTANT MaxNesting      \* maxNesting of value.go:421

ASSUME NestingAssumption == MaxNesting \in Nat

VARIABLES buf, pos, todo, out, status

decoderVars == << buf, pos, todo, out, status >>

\* What is left to do.  as names the field that results; the depth of
\* "values" is kept in tag.
Item(op, tag, as) == [op |-> op, tag |-> tag, as |-> as]
Context(tag, as) == Item("context", tag, as)
Optional(tag, as) == Item("optional", tag, as)
Opening(tag) == Item("opening", tag, "")
Closing(tag) == Item("closing", tag, "")
Values(depth) == Item("values", depth, "")

Packet == << Item("bvlc", 0, ""), Item("npdu", 0, ""), Item("apdu", 0, "") >>

\* The Decode function that the receiver of a PDU calls: the device's server
\* for requests, the client for replies (server.go:90-189, client.go:271-347).
DecodeReadPropertyRequest == << Context(0, "object"), Context(1, "prop"), Optional(2, "index") >>
DecodeReadPropertyACK ==
  DecodeReadPropertyRequest \o << Opening(3), Values(0), Closing(3) >>
DecodeWritePropertyRequest ==
  DecodeReadPropertyRequest
    \o << Opening(3), Item("application", 0, ""), Closing(3), Optional(4, "priority") >>
DecodeReadPropertyMultipleRequest == << Item("specs", 0, "refs") >>
DecodeReadPropertyMultipleACK == << Item("specs", 0, "results") >>
DecodeWhoIsRequest == << Item("limits", 0, "") >>
DecodeIAm == << Item("iam", 0, "") >>
DecodeBACnetError == << Item("error", 0, "class"), Item("error", 1, "code") >>

Known(type, service) ==
  \/ type = 0 /\ service \in {ReadProperty, WriteProperty, ReadPropertyMultiple}
  \/ type = 1 /\ service \in {WhoIs, IAm}
  \/ type = 3 /\ service \in {ReadProperty, ReadPropertyMultiple}
  \/ type = 5

Params(type, service) ==
  CASE type = 0 /\ service = ReadProperty -> DecodeReadPropertyRequest
    [] type = 0 /\ service = WriteProperty -> DecodeWritePropertyRequest
    [] type = 0 /\ service = ReadPropertyMultiple -> DecodeReadPropertyMultipleRequest
    [] type = 1 /\ service = WhoIs -> DecodeWhoIsRequest
    [] type = 1 /\ service = IAm -> DecodeIAm
    [] type = 3 /\ service = ReadProperty -> DecodeReadPropertyACK
    [] type = 3 /\ service = ReadPropertyMultiple -> DecodeReadPropertyMultipleACK
    [] type = 5 -> DecodeBACnetError
    [] ~Known(type, service) -> << >>

-----------------------------------------------------------------------------

Start(packet) ==
  /\ buf' = packet
  /\ pos' = 0
  /\ todo' = Packet
  /\ out' = << >>
  /\ status' = "decoding"

Doing(op) == status = "decoding" /\ Head(todo).op = op
Tag == decodeTagHeader(buf, pos)

\* Consume n octets and append what they mean, if ok; else return an error.
Take(ok, n, found, next) ==
  /\ buf' = buf
  /\ IF ok /\ pos + n <= Len(buf)
     THEN /\ pos' = pos + n
          /\ out' = out \o found
          /\ todo' = next
          /\ status' = IF next = << >> THEN "done" ELSE "decoding"
     ELSE /\ status' = IF ok THEN "panic" ELSE "error"
          /\ UNCHANGED << pos, out, todo >>

Pop == Take(TRUE, 0, << >>, Tail(todo))

\* Mutant of Fits: the length is compared with the packet, not with the rest
\* of it.
FitsPacket(t) == t.lvt <= Len(buf)

\* Whether the data of tag t lie within the slice.
Fits(t) == pos + t.header + t.lvt <= Len(buf)
DataAt(t) == SubSeq(buf, pos + t.header + 1, Min({pos + t.header + t.lvt, Len(buf)}))
Whole(t) == t.header + t.lvt

\* Fields: the conversions to uint32 and uint8 keep the low octets.
Field(as, d) ==
  CASE as = "object" -> Value("ref", decodeObjectIDData(d))
    [] as = "priority" -> Value(as, LowOctets(1, decodeUnsignedData(d)))
    [] OTHER -> Value(as, LowOctets(4, decodeUnsignedData(d)))
FieldOk(as, t) == as = "object" => t.lvt = 4

\* decodeContextData and its typed variants.
ContextData(want, as, next) ==
  LET t == Tag
  IN  Take(/\ t.ok /\ t.context /\ t.number = want
           /\ ~IsOpening(t) /\ ~IsClosing(t)
           /\ Fits(t) /\ FieldOk(as, t),
           Whole(t), << Field(as, DataAt(t)) >>, next)

\* decodeApplicationValue.
\* Mutant of Consumed: the header is counted only with data.
ConsumedData(t) == IF t.number = 0 THEN t.lvt ELSE Whole(t)

Consumed(t) == IF t.number = 1 THEN t.header ELSE Whole(t)
ApplicationData(t) ==
  IF t.number = 1 THEN Value("boolean", << IF t.lvt # 0 THEN 1 ELSE 0 >>)
  ELSE Value(AppKinds[t.number + 1], Decoded(AppKinds[t.number + 1], DataAt(t)))
ApplicationValue(t, next) ==
  Take(/\ t.ok /\ ~t.context
       /\ \/ t.number = 1
          \/ Fits(t) /\ t.number <= 12 /\ Decodable(AppKinds[t.number + 1], DataAt(t)),
       Consumed(t), << ApplicationData(t) >>, next)

-----------------------------------------------------------------------------
(* The packet's headers.                                                   *)

BvlcHeader == IF buf[2] = 4 THEN 10 ELSE 4
DecodeIncomingPacket ==
  /\ Doing("bvlc")
  /\ Take(/\ Len(buf) >= 4
          /\ buf[1] = 129 /\ buf[2] \in {4, 10, 11}
          /\ buf[3] * 256 + buf[4] = Len(buf)
          /\ Len(buf) >= BvlcHeader,
          BvlcHeader, << >>, Tail(todo))

\* DNET, DLEN, DADR if bit 5 is set; SNET, SLEN, SADR if bit 3 is; hop count.
decodeNPDU ==
  /\ Doing("npdu")
  /\ LET size    == Len(buf) - pos
         control == buf[pos + 2]
         dest    == (control \div 32) % 2 = 1
         source  == (control \div 8) % 2 = 1
         d       == IF dest THEN 3 + buf[pos + 5] ELSE 0
         s       == IF source THEN 3 + buf[pos + 2 + d + 3] ELSE 0
         whole   == 2 + d + s + (IF dest THEN 1 ELSE 0)
     IN  Take(/\ size >= 2 /\ control < 128
              /\ dest => size >= 5
              /\ source => size >= 2 + d + 3
              /\ size >= whole + 1,
              whole, << >>, Tail(todo))

ApduHeader(type) == IF type = 0 THEN 4 ELSE IF type = 1 THEN 2 ELSE 3
DecodeAPDU ==
  /\ Doing("apdu")
  /\ LET type    == buf[pos + 1] \div 16
         n       == ApduHeader(type)
         id      == IF type = 1 THEN 0 ELSE buf[pos + n - 1]
         service == buf[pos + n]
     IN  Take(/\ type \in {0, 1, 2, 3, 5, 6, 7}
              /\ type \in {0, 3} => (buf[pos + 1] \div 8) % 2 = 0
              /\ Len(buf) - pos >= n,
              n, << [kind |-> "pdu", tag |-> type, data |-> << id, service >>] >>,
              Params(type, service))

-----------------------------------------------------------------------------
(* Service parameters.                                                     *)

DecodeContext == Doing("context") /\ ContextData(Head(todo).tag, Head(todo).as, Tail(todo))

\* peekContextTag.  ReadPropertyMultiple's optional indexes ("index?") are
\* skipped at an opening or closing tag, the others then fail.
DecodeOptional ==
  /\ Doing("optional")
  /\ LET t == Tag
     IN  IF /\ t.ok /\ t.context /\ t.number = Head(todo).tag
            /\ Head(todo).as = "index?" => ~IsOpening(t) /\ ~IsClosing(t)
         THEN ContextData(Head(todo).tag, Head(todo).as, Tail(todo))
         ELSE Pop

expectOpening ==
  /\ Doing("opening")
  /\ Take(Tag.ok /\ IsOpening(Tag) /\ Tag.number = Head(todo).tag, Tag.header, << >>, Tail(todo))

\* After the values or the error of a ReadPropertyMultiple result the code
\* steps over one octet (services.go:456 and 468), elsewhere over the header.
CloseHeader(as, t) == IF as = "result" THEN 1 ELSE t.header
expectClosing ==
  /\ Doing("closing")
  /\ LET f == Head(todo)
         closed == IF f.as = "close" THEN << [kind |-> "close", tag |-> f.tag, data |-> << >>] >>
                                     ELSE << >>
     IN  Take(Tag.ok /\ IsClosing(Tag) /\ Tag.number = f.tag, CloseHeader(f.as, Tag), closed, Tail(todo))

DecodeApplication == Doing("application") /\ ApplicationValue(Tag, Tail(todo))

\* One turn of the loop of decodeNestedValues.
decodeNestedValues ==
  /\ Doing("values")
  /\ LET t == Tag
         depth == Head(todo).tag
     IN  \/ pos = Len(buf) /\ Pop
         \/ pos < Len(buf) /\ ~t.context /\ ApplicationValue(t, todo)
         \/ pos < Len(buf) /\ IsClosing(t) /\ Pop
         \/ /\ pos < Len(buf) /\ IsOpening(t)
            /\ Take(depth < MaxNesting, t.header,
                    << [kind |-> "open", tag |-> t.number, data |-> << >>] >>,
                    << Values(depth + 1), Item("closing", t.number, "close") >> \o todo)
         \/ /\ pos < Len(buf) /\ t.context /\ ~IsOpening(t) /\ ~IsClosing(t)
            /\ Take(Fits(t), Whole(t), << ContextPrimitiveValue(t.number, DataAt(t)) >>, todo)

\* The loops of ReadPropertyMultiple: over objects, and over an object's
\* references or results until its closing tag.
DecodeSpecs ==
  /\ Doing("specs")
  /\ IF pos = Len(buf) THEN Pop
     ELSE ContextData(0, "object",
            << Opening(1), Item(Head(todo).as, 0, ""), Closing(1) >> \o todo)
AtEnd == Tag.ok /\ IsClosing(Tag) /\ Tag.number = 1
DecodeRefs ==
  /\ Doing("refs")
  /\ IF AtEnd THEN Pop ELSE ContextData(0, "prop", << Optional(1, "index?") >> \o todo)
DecodeResults ==
  /\ Doing("results")
  /\ IF AtEnd THEN Pop
     ELSE ContextData(2, "prop", << Optional(3, "index?"), Item("choice", 0, "") >> \o todo)
DecodeChoice ==
  /\ Doing("choice")
  /\ Take(Tag.ok /\ IsOpening(Tag) /\ Tag.number \in {4, 5}, Tag.header, << >>,
          (IF Tag.number = 4 THEN << Values(0) >> ELSE DecodeBACnetError)
            \o << Item("closing", Tag.number, "result") >> \o Tail(todo))

\* One turn of the loop of decodeErrorSequence.
decodeErrorSequence ==
  /\ Doing("error")
  /\ LET t == Tag
     IN  Take(/\ t.ok /\ ~IsOpening(t) /\ ~IsClosing(t)
              /\ t.number = IF t.context THEN Head(todo).tag ELSE 9
              /\ Fits(t),
              Whole(t), << Field(Head(todo).as, DataAt(t)) >>, Tail(todo))

DecodeLimits ==
  /\ Doing("limits")
  /\ IF pos = Len(buf) THEN Pop ELSE ContextData(0, "low", << Context(1, "high") >>)

\* decodeApplicationValues, and DecodeIAm's look at what it returns.
DecodeIAmValues ==
  /\ Doing("iam")
  /\ IF pos < Len(buf) /\ ~Tag.context
     THEN ApplicationValue(Tag, todo)
     ELSE Take(Len(out) = 5 /\ out[2].kind = "object", 0, << >>, Tail(todo))

Decode ==
  \/ DecodeIncomingPacket \/ decodeNPDU \/ DecodeAPDU
  \/ DecodeContext \/ DecodeOptional \/ expectOpening \/ expectClosing
  \/ DecodeApplication \/ decodeNestedValues
  \/ DecodeSpecs \/ DecodeRefs \/ DecodeResults \/ DecodeChoice
  \/ decodeErrorSequence \/ DecodeLimits \/ DecodeIAmValues

-----------------------------------------------------------------------------
(* A receiver of any packets, of which Exchange is an instance.            *)

Silent == buf = << >> /\ pos = 0 /\ todo = << >> /\ out = << >> /\ status = "done"

Receive == status # "decoding" /\ buf' \in Seq(Octet) /\ Start(buf')
Forget == status # "decoding" /\ Silent'

Receiver == Silent /\ [][Receive \/ Forget \/ Decode]_decoderVars

-----------------------------------------------------------------------------
(* Properties.                                                             *)

\* No octets a device can send make the decoder slice beyond the packet:
\* every length is checked before it is used (tag.go, value.go, services.go).
InBounds == status # "panic"

\* Every turn of every decoding loop consumes octets or ends a piece of the
\* work, so no packet keeps the receiver busy for ever (value.go:432-478,
\* services.go:310-359 and 400-484).
Progress ==
  [][status = "decoding" /\ status' = "decoding"
       => pos' > pos \/ (pos' = pos /\ Len(todo') < Len(todo))]_decoderVars
=============================================================================
