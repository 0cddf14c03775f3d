------------------------------ MODULE Exchange ------------------------------
(***************************************************************************)
(* One HTTP request after another against one device, down to the octets:  *)
(* JSON to a BACnet value (internal/api/dto.go), the request's octets, the *)
(* device's decoding of them and its object store (internal/bacnetmock),   *)
(* the reply's octets, the client's decoding of them, and JSON again.      *)
(* BacnetClient has the transport between the two, Handlers the            *)
(* authorization before it; both are taken as passed here.                 *)
(*                                                                         *)
(* The device holds its Device object and one other object, the point.     *)
(* present-value of an output or value object has a priority array.  A     *)
(* reply may also be altered or cut (Mangle), as by a device that encodes  *)
(* it wrongly.                                                             *)
(***************************************************************************)
EXTENDS Decoder

CONSTANTS
  NumPriorities,     \* 16 in device.go:24
  MaxAPDU,           \* server.go:193
  DeviceId,          \* the device's instance number
  Devices,           \* pairs of an object <<type, instance>>, the point, and
                     \* the values of its event-time-stamps
  Inputs,            \* JSON values that are PUT
  PutPriorities,     \* priorities of a PUT, sequences of at most one
  Indexes,           \* indexes of a GET, likewise
  OddOctets,         \* what an octet of a mangled reply may be changed to
  MaxPuts            \* bound on the PUTs of one behaviour

ASSUME ExchangeAssumption ==
  /\ NumPriorities \in Nat \ {0} /\ MaxAPDU \in Nat /\ DeviceId \in 0 .. 4194302
  /\ OddOctets \subseteq Octet /\ MaxPuts \in Nat

VARIABLES
  point, list,       \* the device's object and its event-time-stamps
  slots,             \* its priority array: per priority at most one value
  phase,             \* idle, or who is decoding: device or client
  req,               \* the request under way
  sent,              \* what the packet being decoded was made from
  mangled,           \* whether it was altered
  answer,            \* the last HTTP response, [status, body]
  wanted,            \* per priority, what the last acknowledged PUT asked for
  puts

exchangeVars == << point, list, slots, phase, req, sent, mangled, answer, wanted, puts >>
vars == << decoderVars, exchangeVars >>

\* objects.go: types and properties that the code treats specially.
Device == 8
DeviceInstanceWildcard == 4194303
AnalogTypes == {0, 1, 2}
BinaryTypes == {3, 4, 5}
MultiStateTypes == {13, 14, 19}
PropObjectID == 75
PropObjectList == 76
PropObjectName == 77
PropPresentValue == 85
PropDescription == 28
PropUnits == 117
PropStatusFlags == 111
PropEventTimeStamps == 130
Commandable(object, prop) ==
  prop = PropPresentValue /\ object[1] \in {1, 2, 4, 5, 14, 19}

-----------------------------------------------------------------------------
(* JSON.  A JSON value is a record [type, data].  A number that is PUT is  *)
(* counted in halves, Huge standing for those beyond a float32; the words  *)
(* that the code knows are strings of one character.                       *)

Json(type, data) == [type |-> type, data |-> data]
Huge == 2 ^ 30
Str(s) == Json("string", << s >>)
WordNaN == 78
WordInfinity == 73
WordMinusInfinity == 45
WordActive == 97
WordInactive == 105

NaN == << 127, 192, 0, 0 >>
Infinity(sign) == << 127 + 128 * sign, 128, 0, 0 >>

\* The octets of the float32 nearest to h halves, exact below 2^24.
Float32(h) ==
  LET sign == IF h < 0 THEN 1 ELSE 0
      a    == IF h < 0 THEN -h ELSE h
      e    == CHOOSE k \in 0 .. 23 : 2 ^ k <= a /\ a < 2 ^ (k + 1)
      m    == (a - 2 ^ e) * 2 ^ (23 - e)
      x    == e - 1 + 127
  IN  CASE a = 0 -> << 0, 0, 0, 0 >>
        [] a >= Huge -> Infinity(sign)
        [] a \in 1 .. Huge - 1 ->
             << 128 * sign + x \div 2, (x % 2) * 128 + m \div 65536 >> \o Uint(2, m)

Refused == Value("refused", << >>)

parseJSONFloat(raw) ==
  CASE raw.type = "number" -> Value("real", Float32(raw.data[1]))
    [] raw = Str(WordNaN) -> Value("real", NaN)
    [] raw = Str(WordInfinity) -> Value("real", Infinity(0))
    [] raw = Str(WordMinusInfinity) -> Value("real", Infinity(1))
    [] OTHER -> Refused

binaryPresentValue(raw) ==
  CASE raw \in {Json("bool", << 1 >>), Json("number", << 2 >>), Str(WordActive)} -> Enumerated(1)
    [] raw \in {Json("bool", << 0 >>), Json("number", << 0 >>), Str(WordInactive)} -> Enumerated(0)
    [] OTHER -> Refused

\* A positive integer; a float64 beyond uint64 does not survive the
\* conversion there and back (dto.go:179).
multiStatePresentValue(raw) ==
  IF raw.type = "number" /\ raw.data[1] \in 2 .. Huge - 1 /\ raw.data[1] % 2 = 0
  THEN Unsigned(raw.data[1] \div 2) ELSE Refused

valueFromJSONShape(raw) ==
  CASE raw.type = "bool" -> Value("boolean", raw.data)
    [] raw.type = "number" -> Value("real", Float32(raw.data[1]))
    [] raw.type = "string" -> Value("text", raw.data)
    [] OTHER -> Refused

valueForWrite(object, prop, raw) ==
  IF raw.type = "null" THEN Value("null", << >>)
  ELSE CASE prop = PropPresentValue /\ object[1] \in AnalogTypes -> parseJSONFloat(raw)
         [] prop = PropPresentValue /\ object[1] \in BinaryTypes -> binaryPresentValue(raw)
         [] prop = PropPresentValue /\ object[1] \in MultiStateTypes -> multiStatePresentValue(raw)
         [] OTHER -> valueFromJSONShape(raw)

\* The octets of a float with the given octets for a positive infinity.
jsonFloat(d, inf) ==
  LET nonfinite == d[1] % 128 = inf[1] /\ d[2] >= inf[2]
      infinite  == Tail(d) = Tail(inf)
  IN  CASE ~nonfinite -> Json("real", d)
        [] nonfinite /\ ~infinite -> Str(WordNaN)
        [] nonfinite /\ infinite -> Str(IF d[1] < 128 THEN WordInfinity ELSE WordMinusInfinity)

\* The day of the week is left out; what opens and closes stays flat here too.
jsonValue(v) ==
  CASE v.kind = "real" -> jsonFloat(v.data, Infinity(0))
    [] v.kind = "double" -> jsonFloat(v.data, << 127, 240, 0, 0, 0, 0, 0, 0 >>)
    [] v.kind \in {"unsigned", "signed"} -> Json("integer", v.data)
    [] v.kind = "enumerated" -> Json("integer", Zeros(4) \o v.data)
    [] v.kind = "text" -> Json("string", v.data)
    [] v.kind = "boolean" -> Json("bool", v.data)
    [] v.kind = "date" -> Json("date", SubSeq(v.data, 1, 3))
    [] v.kind \in {"context", "open", "close"} -> Json(v.kind, << v.tag >> \o v.data)
    [] OTHER -> Json(v.kind, v.data)

\* A single value is shown bare, any other number of them as an array.
TopLevel(vs) ==
  LET Before(i, kind) == Cardinality({j \in 1 .. i - 1 : vs[j].kind = kind})
  IN  {i \in DOMAIN vs : vs[i].kind # "close" /\ Before(i, "open") = Before(i, "close")}
jsonValues(vs) ==
  << Json(IF Cardinality(TopLevel(vs)) = 1 THEN "bare" ELSE "array", << >>) >>
    \o [i \in DOMAIN vs |-> jsonValue(vs[i])]

-----------------------------------------------------------------------------
(* The device.                                                             *)

BacErr(class, code) == [class |-> class, code |-> code]
UnknownObject == BacErr(1, 31)
UnknownProperty == BacErr(2, 32)
ValueOutOfRange == BacErr(2, 37)
WriteAccessDenied == BacErr(2, 39)
InvalidArrayIndex == BacErr(2, 42)

deviceObject == << Device, DeviceId >>
objectList ==
  LET Before(a, b) == a[1] < b[1] \/ (a[1] = b[1] /\ a[2] < b[2])
      sorted == SetToSortSeq({point, deviceObject}, Before)
  IN  [i \in DOMAIN sorted |-> Object(sorted[i])]

InitialValue(object) ==
  CASE object[1] \in AnalogTypes -> Value("real", Float32(0))
    [] object[1] \in BinaryTypes -> Enumerated(0)
    [] OTHER -> Unsigned(1)

\* The first value of the priority array, else the relinquish default.
Commanded == {p \in 1 .. NumPriorities : slots[p] # << >>}
\* Mutant of effectiveValue: the array is searched from the other end.
effectiveValueLast ==
  IF Commandable(point, PropPresentValue) /\ Commanded # {}
  THEN slots[Max(Commanded)][1] ELSE InitialValue(point)

effectiveValue ==
  IF Commandable(point, PropPresentValue) /\ Commanded # {}
  THEN slots[Min(Commanded)][1] ELSE InitialValue(point)

Found(values) == [values |-> values, err |-> << >>]
Failed(e) == [values |-> << >>, err |-> << e >>]

\* The properties the store holds, and their values.
stored(object) ==
  IF object = point THEN {PropObjectName, PropPresentValue, PropStatusFlags, PropEventTimeStamps}
                    ELSE {PropObjectName}
StoredValues(object, prop) ==
  CASE prop = PropObjectName -> << Value("text", << object[1] >>) >>
    [] prop = PropPresentValue -> << effectiveValue >>
    [] prop = PropStatusFlags -> << Value("bits", << 0, 1, 0, 0 >>) >>
    [] prop = PropEventTimeStamps -> list

readObjectListAt(index) ==
  CASE index = << >> -> Found(objectList)
    [] index = << 0 >> -> Found(<< Unsigned(Len(objectList)) >>)
    [] index # << >> /\ index[1] \in DOMAIN objectList -> Found(<< objectList[index[1]] >>)
    [] OTHER -> Failed(InvalidArrayIndex)

readProperty(asked, prop, index) ==
  LET object == IF asked = << Device, DeviceInstanceWildcard >> THEN deviceObject ELSE asked
  IN  IF object = deviceObject /\ prop = PropObjectList THEN readObjectListAt(index)
      ELSE IF object \notin {point, deviceObject} THEN Failed(UnknownObject)
      ELSE IF prop = PropObjectID THEN Found(<< Object(object) >>)
      ELSE IF prop \notin stored(object) THEN Failed(UnknownProperty)
      ELSE Found(StoredValues(object, prop))

\* The error, if any, of writing at a priority; the default is the lowest.
PriorityOf(priority) == IF priority = << >> THEN NumPriorities ELSE priority[1]
WriteErr(object, prop, priority) ==
  IF object \notin {point, deviceObject} THEN << UnknownObject >>
  ELSE IF prop \notin stored(object) THEN << UnknownProperty >>
  ELSE IF ~Commandable(object, prop) THEN << WriteAccessDenied >>
  ELSE IF PriorityOf(priority) \notin 1 .. NumPriorities THEN << ValueOutOfRange >>
  ELSE << >>
writeProperty(value, priority) ==
  slots' = [slots EXCEPT ![PriorityOf(priority)] =
              IF value.kind = "null" THEN << >> ELSE << value >>]

-----------------------------------------------------------------------------
(* Requests.  sent lists what the packet holds, in the decoder's terms.    *)

InvokeID == 7
Pdu(type, service) == [kind |-> "pdu", tag |-> type, data |-> << InvokeID, service >>]
Announcement(service) == [kind |-> "pdu", tag |-> 1, data |-> << 0, service >>]
Uint32s(as, opt) == [i \in DOMAIN opt |-> Value(as, Uint(4, opt[i]))]
RefFields(object, prop, index) ==
  << Value("ref", object), Value("prop", Uint(4, prop)) >> \o Uint32s("index", index)

Summary ==
  LET props == << PropObjectName, PropPresentValue, PropDescription, PropUnits, PropStatusFlags >>
  IN  [i \in DOMAIN props |-> [prop |-> props[i], index |-> << >>]]
Metadata ==
  LET props == << PropObjectName, PropDescription, PropUnits >>
  IN  [i \in DOMAIN props |-> [prop |-> props[i], index |-> << >>]]
SpecFields(specs) ==
  LET Ref(r) == << Value("prop", Uint(4, r.prop)) >> \o Uint32s("index?", r.index)
      Of(s) == << Value("ref", s.object) >>
                 \o FlattenSeq([i \in DOMAIN s.refs |-> Ref(s.refs[i])])
  IN  FlattenSeq([i \in DOMAIN specs |-> Of(specs[i])])

\* The request named by the record r, with the octets and the fields of it.
Request(r) ==
  CASE r.op = "get" ->
         [apdu |-> EncodeConfirmedRequestAPDU(InvokeID, ReadProperty,
                     EncodeReadPropertyRequest(r.object, r.prop, r.opt)),
          fields |-> << Pdu(0, ReadProperty) >> \o RefFields(r.object, r.prop, r.opt)]
    [] r.op = "put" ->
         [apdu |-> EncodeConfirmedRequestAPDU(InvokeID, WriteProperty,
                     EncodeWritePropertyRequest(r.object, r.prop,
                       valueForWrite(r.object, r.prop, r.raw), r.opt)),
          fields |-> << Pdu(0, WriteProperty) >> \o RefFields(r.object, r.prop, << >>)
                       \o << valueForWrite(r.object, r.prop, r.raw) >>
                       \o [i \in DOMAIN r.opt |-> Value("priority", << r.opt[i] >>)]]
    [] r.op = "rpm" ->
         [apdu |-> EncodeConfirmedRequestAPDU(InvokeID, ReadPropertyMultiple,
                     EncodeReadPropertyMultipleRequest(r.specs)),
          fields |-> << Pdu(0, ReadPropertyMultiple) >> \o SpecFields(r.specs)]
    [] r.op = "whois" ->
         [apdu |-> EncodeUnconfirmedRequestAPDU(WhoIs, EncodeWhoIsRequest(r.opt, r.opt)),
          fields |-> << Announcement(WhoIs) >> \o Uint32s("low", r.opt) \o Uint32s("high", r.opt)]

NoAnswer == [status |-> 0, body |-> << >>]
Ask(r) ==
  /\ phase = "idle"
  /\ req' = r
  /\ phase' = "device"
  /\ Start(EncodeUnicastPacket(Request(r).apdu))
  /\ sent' = Request(r).fields
  /\ mangled' = FALSE
  /\ answer' = NoAnswer
  /\ UNCHANGED << point, list, slots, wanted >>

Req(op, object, prop, opt, raw, specs) ==
  [op |-> op, object |-> object, prop |-> prop, opt |-> opt, raw |-> raw, specs |-> specs]
Nothing == Json("null", << >>)
Elsewhere == << 0, 99 >>       \* an object the device does not have

GetProperty ==
  /\ \/ \E prop \in {PropPresentValue, PropEventTimeStamps, PropDescription} :
          Ask(Req("get", point, prop, << >>, Nothing, << >>))
     \/ \E index \in Indexes :
          Ask(Req("get", deviceObject, PropObjectList, index, Nothing, << >>))
     \/ Ask(Req("get", << Device, DeviceInstanceWildcard >>, PropObjectID, << >>, Nothing, << >>))
     \/ Ask(Req("get", Elsewhere, PropPresentValue, << >>, Nothing, << >>))
  /\ UNCHANGED puts

\* handleGetObject, and the loader's readMetadataRPM for several objects.
GetObjects ==
  /\ \/ \E object \in {point, Elsewhere} :
          Ask(Req("rpm", object, 0, << >>, Nothing, << [object |-> object, refs |-> Summary] >>))
     \/ Ask(Req("rpm", point, 0, << >>, Nothing,
                << [object |-> deviceObject, refs |-> Metadata],
                   [object |-> point, refs |-> Metadata] >>))
  /\ UNCHANGED puts

PutProperty ==
  /\ puts < MaxPuts
  /\ puts' = puts + 1
  /\ \E target \in { << point, PropPresentValue >>, << point, PropObjectName >>,
                     << Elsewhere, PropPresentValue >> },
        raw \in Inputs, priority \in PutPriorities :
       LET r == Req("put", target[1], target[2], priority, raw, << >>)
       IN  IF valueForWrite(target[1], target[2], raw) # Refused THEN Ask(r)
           ELSE /\ phase = "idle"
                /\ req' = r
                /\ answer' = [status |-> 400, body |-> << >>]
                /\ UNCHANGED << decoderVars, point, list, slots, phase, sent, mangled, wanted >>

\* The proxy sends Who-Is without limits; others ask for one instance.
AskWhoIs ==
  /\ \E limit \in { << >>, << DeviceId >>, << DeviceId + 1 >> } :
       Ask(Req("whois", deviceObject, 0, limit, Nothing, << >>))
  /\ UNCHANGED puts

-----------------------------------------------------------------------------
(* The device answers.                                                     *)

Fields(kind) == SelectSeq(out, LAMBDA v : v.kind = kind)
Number(d) == d[2] * 65536 + d[3] * 256 + d[4]
OptNumber(fields) == [i \in DOMAIN fields |-> Number(fields[i].data)]

\* The parts of s that begin with a value of the given kind.
Parts(s, kind) ==
  LET at == Positions(s, LAMBDA i : s[i].kind = kind)
  IN  [k \in DOMAIN at |-> SubSeq(s, at[k], IF k = Len(at) THEN Len(s) ELSE at[k + 1] - 1)]

ErrorReply(service, e) ==
  [apdu |-> EncodeErrorAPDU(InvokeID, service, e),
   fields |-> << Pdu(5, service), Value("class", Uint(4, e.class)), Value("code", Uint(4, e.code)) >>]

\* An Abort if the reply does not fit (server.go:198-204).
sendComplexACK(service, params, fields) ==
  IF Len(params) + 3 > MaxAPDU
  THEN [apdu |-> EncodeAbortAPDU(InvokeID, 4), fields |-> << Pdu(7, 4) >>]
  ELSE [apdu |-> EncodeComplexACKAPDU(InvokeID, service, params),
        fields |-> << Pdu(3, service) >> \o fields]

handleReadProperty ==
  LET object == Fields("ref")[1].data
      prop   == Number(Fields("prop")[1].data)
      index  == OptNumber(Fields("index"))
      r      == readProperty(object, prop, index)
  IN  IF r.err # << >> THEN ErrorReply(ReadProperty, r.err[1])
      ELSE sendComplexACK(ReadProperty, EncodeReadPropertyACK(object, prop, index, r.values),
                          RefFields(object, prop, index) \o r.values)

handleReadPropertyMultiple ==
  LET Result(object, ref) ==
        LET prop == Number(ref[1].data)
            index == OptNumber(Tail(ref))
            r == readProperty(object, prop, index)
        IN  [prop |-> prop, index |-> index, values |-> r.values, err |-> r.err]
      specs == Parts(out, "ref")
      Of(spec) ==
        LET refs == Parts(spec, "prop")
        IN  [object |-> spec[1].data,
             results |-> [i \in DOMAIN refs |-> Result(spec[1].data, refs[i])]]
      results == [i \in DOMAIN specs |-> Of(specs[i])]
      ResultFields(r) ==
        << Value("prop", Uint(4, r.prop)) >> \o Uint32s("index?", r.index) \o r.values
          \o FlattenSeq([i \in DOMAIN r.err |->
               << Value("class", Uint(4, r.err[i].class)), Value("code", Uint(4, r.err[i].code)) >>])
      AllFields(s) ==
        << Value("ref", s.object) >>
          \o FlattenSeq([i \in DOMAIN s.results |-> ResultFields(s.results[i])])
  IN  sendComplexACK(ReadPropertyMultiple, EncodeReadPropertyMultipleACK(results),
                     FlattenSeq([i \in DOMAIN results |-> AllFields(results[i])]))

handleUnconfirmed ==
  [apdu |-> EncodeUnconfirmedRequestAPDU(IAm, EncodeIAm(DeviceId, 1476, 3, 999)),
   fields |-> << Announcement(IAm), Object(deviceObject), Unsigned(1476), Enumerated(3), Unsigned(999) >>]

Deliver(packet, altered) ==
  /\ phase' = "client"
  /\ Start(packet)
  /\ mangled' = altered

\* A reply as it is; or, before the first PUT, one to a read with one octet
\* changed, or cut short.
Reply(r) == sent' = r.fields /\ Deliver(EncodeUnicastPacket(r.apdu), FALSE)
Mangle(r) ==
  /\ puts = 0
  /\ sent' = r.fields
  /\ \/ \E i \in 1 .. Len(r.apdu) + 6, o \in OddOctets :
          Deliver([EncodeUnicastPacket(r.apdu) EXCEPT ![i] = o], TRUE)
     \/ \E n \in 1 .. Len(r.apdu) - 1 :
          Deliver(EncodeUnicastPacket(SubSeq(r.apdu, 1, n)), TRUE)

Requested(type, service) ==
  phase = "device" /\ status = "done" /\ out[1].tag = type /\ out[1].data[2] = service

DeviceReads ==
  /\ \/ Requested(0, ReadProperty) /\ (Reply(handleReadProperty) \/ Mangle(handleReadProperty))
     \/ /\ Requested(0, ReadPropertyMultiple)
        /\ Reply(handleReadPropertyMultiple) \/ Mangle(handleReadPropertyMultiple)
  /\ UNCHANGED << point, list, slots, req, answer, wanted, puts >>

handleWriteProperty ==
  /\ Requested(0, WriteProperty)
  /\ LET object   == Fields("ref")[1].data
         prop     == Number(Fields("prop")[1].data)
         priority == [i \in DOMAIN Fields("priority") |-> Fields("priority")[i].data[1]]
         value    == out[4]
         err      == WriteErr(object, prop, priority)
     IN  IF err = << >>
         THEN /\ writeProperty(value, priority)
              /\ Reply([apdu |-> EncodeSimpleACKAPDU(InvokeID, WriteProperty),
                        fields |-> << Pdu(2, WriteProperty) >>])
         ELSE /\ Reply(ErrorReply(WriteProperty, err[1]))
              /\ UNCHANGED slots
  /\ UNCHANGED << point, list, req, answer, wanted, puts >>

\* No reply is taken.  Which timer then ends the request, and with what status,
\* is for RequestDeadline.
Unanswered == [status |-> 0, body |-> << >>]

\* Who-Is outside the limits is not answered.
InLimits ==
  /\ \A i \in DOMAIN Fields("low") : Number(Fields("low")[i].data) <= DeviceId
  /\ \A i \in DOMAIN Fields("high") : DeviceId <= Number(Fields("high")[i].data)
DeviceAnnounces ==
  /\ Requested(1, WhoIs)
  /\ IF InLimits THEN (Reply(handleUnconfirmed) \/ Mangle(handleUnconfirmed)) /\ UNCHANGED answer
     ELSE /\ phase' = "idle"
          /\ answer' = Unanswered
          /\ UNCHANGED << decoderVars, sent, mangled >>
  /\ UNCHANGED << point, list, slots, req, wanted, puts >>

-----------------------------------------------------------------------------
(* The client takes the reply, and the handler responds.                   *)

ServiceOf(op) ==
  CASE op = "get" -> ReadProperty [] op = "rpm" -> ReadPropertyMultiple
    [] op = "put" -> WriteProperty [] op = "whois" -> IAm

\* handleIncoming drops what is no answer to this request.
Accepted ==
  /\ out # << >>
  /\ IF req.op = "whois" THEN out[1].tag = 1 /\ out[1].data[2] = IAm /\ status = "done"
     ELSE /\ out[1].tag \in {2, 3, 5, 6, 7}
          /\ out[1].data[1] = InvokeID
          /\ out[1].tag \in {2, 3, 5} => out[1].data[2] = ServiceOf(req.op)

\* writeBACnetError.
HttpStatus(code) ==
  CASE code \in {31, 32} -> 404
    [] code = 39 -> 403
    [] code = 37 -> 422
    [] code = 30 -> 504
    [] OTHER -> 502
CodeOf(fields) == LET d == fields[Len(fields)].data IN IF d[1] = 0 THEN Number(d) ELSE -1

\* handleGetObject: what the results give, or the error of the last of
\* present-value and object-name if there is nothing to show.
SummaryResponse ==
  LET results == Parts(Parts(out, "ref")[1], "prop")
      IsErr(r) == r[Len(r)].kind = "code" /\ r[Len(r) - 1].kind = "class"
      good == SelectSeq(results, LAMBDA r : ~IsErr(r))
      grave == SelectSeq(results, LAMBDA r :
                 IsErr(r) /\ Number(r[1].data) \in {PropObjectName, PropPresentValue})
      Shown(r) == << Json("member", r[1].data) >>
                    \o jsonValues(SelectSeq(Tail(r), LAMBDA v : v.kind # "index?"))
  IN  IF Len(Parts(out, "ref")) # 1 THEN [status |-> 502, body |-> << >>]
      ELSE IF good = << >> /\ grave # << >>
      THEN [status |-> HttpStatus(CodeOf(grave[Len(grave)])), body |-> << >>]
      ELSE [status |-> 200, body |-> FlattenSeq([i \in DOMAIN good |-> Shown(good[i])])]

ValuesOut == SelectSeq(SubSeq(out, 4, Len(out)), LAMBDA v : v.kind # "index")
Response ==
  CASE ~Accepted -> Unanswered
    [] Accepted /\ status = "done" /\ out[1].tag = 5 ->
         [status |-> HttpStatus(CodeOf(out)), body |-> << >>]
    [] Accepted /\ status = "done" /\ out[1].tag = 3 /\ req.op = "get" ->
         [status |-> 200, body |-> jsonValues(ValuesOut)]
    [] Accepted /\ status = "done" /\ out[1].tag = 3 /\ req.op = "rpm" -> SummaryResponse
    [] Accepted /\ status = "done" /\ out[1].tag = 2 /\ req.op = "put" ->
         [status |-> 204, body |-> << >>]
    [] Accepted /\ out[1].tag = 1 ->
         [status |-> 200, body |-> << Json("integer", out[2].data) >>]
    [] OTHER -> [status |-> 502, body |-> << >>]

Respond ==
  /\ phase = "client"
  /\ status \in {"done", "error"}
  /\ answer' = Response
  /\ phase' = "idle"
  /\ wanted' = IF req.op = "put" /\ Response.status = 204
               THEN [wanted EXCEPT ![PriorityOf(req.opt)] =
                       IF req.raw.type = "null" THEN << >> ELSE << req.raw >>]
               ELSE wanted
  /\ buf' = << >> /\ pos' = 0 /\ todo' = << >> /\ out' = << >> /\ status' = "done"
  /\ sent' = << >>
  /\ UNCHANGED << point, list, slots, req, mangled, puts >>

-----------------------------------------------------------------------------

Init ==
  /\ \E d \in Devices : point = d[1] /\ list = d[2]
  /\ slots = [p \in 1 .. NumPriorities |->
                IF p = NumPriorities /\ Commandable(point, PropPresentValue)
                THEN << InitialValue(point) >> ELSE << >>]
  /\ phase = "idle"
  /\ req = Req("none", point, 0, << >>, Nothing, << >>)
  /\ sent = << >>
  /\ mangled = FALSE
  /\ answer = NoAnswer
  /\ wanted = [p \in 1 .. NumPriorities |-> << >>]
  /\ puts = 0
  /\ buf = << >> /\ pos = 0 /\ todo = << >> /\ out = << >> /\ status = "done"

Next ==
  \/ GetProperty \/ GetObjects \/ PutProperty \/ AskWhoIs
  \/ DeviceReads \/ handleWriteProperty \/ DeviceAnnounces
  \/ Respond
  \/ Decode /\ UNCHANGED exchangeVars

Spec == Init /\ [][Next]_vars

-----------------------------------------------------------------------------
(* Properties.                                                             *)

\* A packet that arrives as it was encoded is decoded to the very fields and
\* values it was made from, whatever their kinds and lengths, and however
\* they nest; only what nests deeper than maxNesting is refused.
Nesting(vs) ==
  LET Count(i, kind) == Cardinality({j \in 1 .. i : vs[j].kind = kind})
  IN  Max({0} \cup {Count(i, "open") - Count(i, "close") : i \in DOMAIN vs})
RoundTrip ==
  phase # "idle" /\ ~mangled =>
    /\ status = "done" => out = sent
    /\ status = "error" => Nesting(sent) > MaxNesting

\* What a PUT of raw means for a GET (openapi.yaml, WriteRequest): the number
\* that was written, the state's number, 0 or 1.
Meaning(raw) ==
  CASE point[1] \in AnalogTypes /\ raw.type = "number" ->
         IF raw.data[1] >= Huge THEN Str(WordInfinity) ELSE Json("real", Float32(raw.data[1]))
    [] point[1] \in AnalogTypes /\ raw.type = "string" -> raw
    [] point[1] \in BinaryTypes ->
         Json("integer", Uint(8, IF raw \in {Json("bool", << 1 >>), Json("number", << 2 >>),
                                             Str(WordActive)} THEN 1 ELSE 0))
    [] OTHER -> Json("integer", Uint(8, raw.data[1] \div 2))

\* After any sequence of PUTs a GET of present-value shows what the
\* acknowledged PUT of the highest priority that is not relinquished asked
\* for, through JSON, both encodings and the priority array.
ReadsBack ==
  LET set == {p \in 1 .. NumPriorities : wanted[p] # << >>}
  IN  /\ phase = "idle" /\ ~mangled
      /\ req.op = "get" /\ req.object = point /\ req.prop = PropPresentValue
      => answer = [status |-> 200,
                   body |-> << Json("bare", << >>),
                               IF set = {} THEN jsonValue(InitialValue(point))
                               ELSE Meaning(wanted[Min(set)][1]) >>]
=============================================================================
