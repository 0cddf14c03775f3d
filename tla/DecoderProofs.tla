---------------------------- MODULE DecoderProofs ----------------------------
(***************************************************************************)
(* Proofs about a receiver of arbitrary packets, of any length and nesting:*)
(* whatever octets arrive, no Decode function slices beyond the packet,    *)
(* and every turn of every loop makes progress.                            *)
(***************************************************************************)
EXTENDS Decoder, TLAPS

\* What may be left to do once the first header has been taken off.
LaterOps == {"npdu", "apdu", "context", "optional", "opening", "closing", "application",
             "values", "specs", "refs", "results", "choice", "error", "limits", "iam"}
Fields == {"", "object", "prop", "index", "index?", "priority", "refs", "results", "low",
           "high", "class", "code", "close", "result"}
Later == {i \in [op : LaterOps, tag : Nat, as : Fields] :
            i.op = "specs" => i.as \in {"refs", "results"}}

\* The position lies within the packet; the first header is decoded at its
\* beginning; and while the decoder is at work there is something left to do.
IInv ==
  /\ buf \in Seq(Octet)
  /\ pos \in 0 .. Len(buf)
  /\ status \in {"decoding", "done", "error"}
  /\ todo \in Seq(Later) \/ (todo = Packet /\ pos = 0)
  /\ status = "decoding" => todo # << >>

\* An octet is a number.
LEMMA OctetNat == \A o \in Octet : o \in Nat
BY DEF Octet

\* The number that stands for a length beyond any packet.
LEMMA TooLongNat == TooLong \in Nat
BY DEF TooLong

\* A header of a tag that is accepted lies within the packet.
LEMMA TagInBounds ==
  ASSUME NEW b \in Seq(Octet), NEW p \in 0 .. Len(b), NEW t, t = decodeTagHeader(b, p)
  PROVE  \/ t = BadTag
         \/ /\ t.ok
            /\ t.header \in Nat /\ t.header >= 1 /\ p + t.header <= Len(b)
            /\ t.lvt \in Nat /\ t.number \in Nat
<1> DEFINE size == Len(b) - p
           first == b[p + 1]
           named == IF first \div 16 = 15 THEN 2 ELSE 1
           low == first % 8
           long == b[p + named + 1]
           octets == IF long < 254 THEN 1 ELSE IF long = 254 THEN 3 ELSE 5
           length == IF long < 254 THEN long
                     ELSE IF long = 254 THEN b[p + named + 2] * 256 + b[p + named + 3]
                     ELSE IF b[p + named + 2] > 0 THEN TooLong
                     ELSE b[p + named + 3] * 65536 + b[p + named + 4] * 256 + b[p + named + 5]
           whole == named + (IF low = 5 THEN octets ELSE 0)
           lvt == IF low = 5 THEN length ELSE low
           bad == size < 1 \/ size < named \/ (low = 5 /\ size < named + 1) \/ size < whole
           number == IF named = 2 THEN b[p + 2] ELSE first \div 16
           good == [ok |-> TRUE, number |-> number,
                    context |-> (first \div 8) % 2 = 1, lvt |-> lvt, header |-> whole]
<1>1. t = IF bad THEN BadTag ELSE good
  BY DEF decodeTagHeader
<1> HIDE DEF bad, good
<1>2. ASSUME NEW k \in 1 .. Len(b)
      PROVE  b[k] \in Nat
  <2>1. b[k] \in Octet
    OBVIOUS
  <2> QED
    BY <2>1, OctetNat, Zenon
<1>3. Len(b) \in Nat /\ p \in Nat /\ p <= Len(b)
  OBVIOUS
<1>4. CASE bad
  BY <1>1, <1>4
<1>5. CASE ~ bad
  <2>1. size >= 1 /\ size >= named /\ ~ (low = 5 /\ size < named + 1) /\ size >= whole
    BY <1>5 DEF bad
  <2>2. first \in Nat /\ low \in Nat
    <3>1. p + 1 \in 1 .. Len(b)
      BY <1>3, <2>1
    <3>2. first \in Nat
      BY <1>2, <3>1
    <3> HIDE DEF first
    <3> QED
      BY <3>2
  <2>3. number \in Nat
    <3>1. CASE named = 2
      <4>1. p + 2 \in 1 .. Len(b)
        BY <1>3, <2>1, <3>1
      <4> QED
        BY <1>2, <3>1, <4>1
    <3>2. CASE named # 2
      <4> HIDE DEF first
      <4> QED
        BY <2>2, <3>2
    <3> QED
      BY <3>1, <3>2
  <2>4. named \in {1, 2}
    OBVIOUS
  <2> HIDE DEF low, named, number, first
  <2>5. whole \in Nat /\ whole >= 1 /\ p + whole <= Len(b) /\ lvt \in Nat
    <3>1. CASE low # 5
      <4>1. whole = named /\ lvt = low
        <5> HIDE DEF octets, length
        <5> QED
          BY <2>4, <3>1
      <4> QED
        BY <1>3, <2>1, <2>2, <2>4, <4>1
    <3>2. CASE low = 5
      <4>1. p + named + 1 \in 1 .. Len(b)
        BY <1>3, <2>1, <2>4, <3>2
      <4>2. long \in Nat
        BY <1>2, <4>1
      <4> HIDE DEF long
      <4>3. whole = named + octets /\ lvt = length
        <5> HIDE DEF octets, length
        <5> QED
          BY <3>2
      <4>4. CASE long < 254
        <5>1. octets = 1 /\ length = long
          BY <4>2, <4>4
        <5> HIDE DEF octets, length
        <5> QED
          BY <1>3, <2>1, <2>4, <4>2, <4>3, <5>1
      <4>5. CASE long = 254
        <5>1. octets = 3 /\ length = b[p + named + 2] * 256 + b[p + named + 3]
          BY <4>2, <4>5
        <5> HIDE DEF octets, length
        <5>2. p + named + 2 \in 1 .. Len(b) /\ p + named + 3 \in 1 .. Len(b)
          BY <1>3, <2>1, <2>4, <4>3, <5>1
        <5>3. b[p + named + 2] \in Nat /\ b[p + named + 3] \in Nat
          BY <1>2, <5>2
        <5>4. length \in Nat
          BY <5>1, <5>3
        <5> QED
          BY <1>3, <2>1, <2>4, <4>3, <5>1, <5>4
      <4>6. CASE long > 254
        <5>1. octets = 5
          BY <4>2, <4>6
        <5>5. length = IF b[p + named + 2] > 0 THEN TooLong
                          ELSE b[p + named + 3] * 65536 + b[p + named + 4] * 256
                               + b[p + named + 5]
          BY <4>2, <4>6
        <5> HIDE DEF octets, length
        <5>2. /\ p + named + 3 \in 1 .. Len(b) /\ p + named + 4 \in 1 .. Len(b)
              /\ p + named + 5 \in 1 .. Len(b)
          BY <1>3, <2>1, <2>4, <4>3, <5>1
        <5>3. b[p + named + 3] \in Nat /\ b[p + named + 4] \in Nat /\ b[p + named + 5] \in Nat
          BY <1>2, <5>2
        <5>4. length \in Nat
          <6> DEFINE x == b[p + named + 3]  y == b[p + named + 4]  z == b[p + named + 5]
          <6>1. x \in Nat /\ y \in Nat /\ z \in Nat
            BY <5>3
          <6> HIDE DEF x, y, z
          <6>2. x * 65536 + y * 256 + z \in Nat
            BY <6>1
          <6>3. length = TooLong \/ length = x * 65536 + y * 256 + z
            BY <5>5 DEF x, y, z
          <6> QED
            BY <6>2, <6>3, TooLongNat
        <5> QED
          BY <1>3, <2>1, <2>4, <4>3, <5>1, <5>4
      <4> QED
        BY <4>2, <4>4, <4>5, <4>6
    <3> QED
      BY <3>1, <3>2
  <2> HIDE DEF whole, lvt
  <2>6. t.ok = TRUE /\ t.header = whole /\ t.lvt = lvt /\ t.number = number
    BY <1>1, <1>5 DEF good
  <2> QED
    BY <2>3, <2>5, <2>6
<1> QED
  BY <1>4, <1>5

\* A packet is made of octets, in its own words.
LEMMA OctetAt ==
  ASSUME NEW b \in Seq(Octet), NEW k \in 1 .. Len(b)
  PROVE  b[k] \in Nat
<1>1. b[k] \in Octet
  OBVIOUS
<1> QED
  BY <1>1, OctetNat, Zenon

\* What is left to do after the first item, and with other items before it.
LEMMA LaterKeeps ==
  ASSUME NEW s \in Seq(Later)
  PROVE  /\ s # << >> => /\ Head(s) \in Later /\ Tail(s) \in Seq(Later)
                         /\ Len(Tail(s)) = Len(s) - 1 /\ Len(s) \in Nat /\ Len(s) > 0
         /\ \A r \in Seq(Later) : r \o s \in Seq(Later)
OBVIOUS

\* Sequences of a few items.
LEMMA FewItems ==
  ASSUME NEW S, NEW a \in S, NEW b \in S, NEW c \in S, NEW d \in S
  PROVE  /\ << >> \in Seq(S) /\ << a >> \in Seq(S) /\ << a, b >> \in Seq(S)
         /\ << a, b, c >> \in Seq(S) /\ << a, b, c, d >> \in Seq(S)
         /\ Len(<< a >>) = 1
OBVIOUS

\* One after the other.
LEMMA Joined ==
  ASSUME NEW S, NEW s \in Seq(S), NEW t \in Seq(S)
  PROVE  s \o t \in Seq(S)
OBVIOUS

\* The Decode functions, as what is left to do.
LEMMA ParamsLater ==
  ASSUME NEW type, NEW service
  PROVE  Params(type, service) \in Seq(Later)
<1>1. /\ Context(0, "object") \in Later /\ Context(1, "prop") \in Later
      /\ Optional(2, "index") \in Later
      /\ Opening(3) \in Later /\ Closing(3) \in Later /\ Values(0) \in Later
      /\ Item("application", 0, "") \in Later /\ Optional(4, "priority") \in Later
      /\ Item("specs", 0, "refs") \in Later /\ Item("specs", 0, "results") \in Later
      /\ Item("limits", 0, "") \in Later /\ Item("iam", 0, "") \in Later
      /\ Item("error", 0, "class") \in Later /\ Item("error", 1, "code") \in Later
  <2>1. Context(0, "object") \in Later /\ Context(1, "prop") \in Later
    BY DEF Context, Item, Later, LaterOps, Fields
  <2>2. Optional(2, "index") \in Later /\ Optional(4, "priority") \in Later
    BY DEF Optional, Item, Later, LaterOps, Fields
  <2>3. Opening(3) \in Later /\ Closing(3) \in Later /\ Values(0) \in Later
    BY DEF Opening, Closing, Values, Item, Later, LaterOps, Fields
  <2>4. /\ Item("application", 0, "") \in Later
        /\ Item("specs", 0, "refs") \in Later /\ Item("specs", 0, "results") \in Later
        /\ Item("limits", 0, "") \in Later /\ Item("iam", 0, "") \in Later
        /\ Item("error", 0, "class") \in Later /\ Item("error", 1, "code") \in Later
    BY DEF Item, Later, LaterOps, Fields
  <2> QED
    BY <2>1, <2>2, <2>3, <2>4, Zenon
<1>2. << >> \in Seq(Later)
  OBVIOUS
<1>3. DecodeReadPropertyRequest \in Seq(Later)
  BY <1>1, FewItems, Zenon DEF DecodeReadPropertyRequest
<1>4. DecodeReadPropertyACK \in Seq(Later)
  <2>1. << Opening(3), Values(0), Closing(3) >> \in Seq(Later)
    BY <1>1, FewItems, Zenon
  <2> QED
    BY <1>3, <2>1, Joined, Zenon DEF DecodeReadPropertyACK
<1>5. DecodeWritePropertyRequest \in Seq(Later)
  <2>1. << Opening(3), Item("application", 0, ""), Closing(3), Optional(4, "priority") >> \in Seq(Later)
    BY <1>1, FewItems, Zenon
  <2> QED
    BY <1>3, <2>1, Joined, Zenon DEF DecodeWritePropertyRequest
<1>6. /\ DecodeReadPropertyMultipleRequest \in Seq(Later)
      /\ DecodeReadPropertyMultipleACK \in Seq(Later)
      /\ DecodeWhoIsRequest \in Seq(Later) /\ DecodeIAm \in Seq(Later)
      /\ DecodeBACnetError \in Seq(Later)
  BY <1>1, FewItems, Zenon
  DEF DecodeReadPropertyMultipleRequest, DecodeReadPropertyMultipleACK,
      DecodeWhoIsRequest, DecodeIAm, DecodeBACnetError
<1> QED
  BY <1>2, <1>3, <1>4, <1>5, <1>6, Zenon DEF Params, Known

-----------------------------------------------------------------------------
(* Steps                                                                   *)

\* What a step of the decoder must not do: leave the invariant, or turn without
\* progress.
Sound ==
  /\ IInv'
  /\ status' = "decoding" => pos' > pos \/ (pos' = pos /\ Len(todo') < Len(todo))

\* Consuming octets that lie within the packet is sound, if it is some octets or
\* less is left to do.
LEMMA TakeSound ==
  ASSUME IInv, status = "decoding", NEW ok, NEW n, NEW found, NEW next,
         Take(ok, n, found, next),
         ok => n \in Nat /\ pos + n <= Len(buf) /\ next \in Seq(Later)
               /\ (n > 0 \/ Len(next) < Len(todo))
  PROVE  Sound
<1>1. pos \in Nat /\ pos <= Len(buf) /\ Len(buf) \in Nat /\ buf' = buf
  BY DEF IInv, Take
<1>2. CASE ok
  <2>1. n \in Nat /\ pos + n <= Len(buf) /\ next \in Seq(Later) /\ (n > 0 \/ Len(next) < Len(todo))
    BY <1>2
  <2>2. pos' = pos + n /\ todo' = next /\ status' = IF next = << >> THEN "done" ELSE "decoding"
    BY <1>2, <2>1 DEF Take
  <2>3. pos' \in 0 .. Len(buf')
    BY <1>1, <2>1, <2>2
  <2>4. IInv'
    BY <1>1, <2>1, <2>2, <2>3 DEF IInv
  <2>5. pos' > pos \/ (pos' = pos /\ Len(todo') < Len(todo))
    BY <1>1, <2>1, <2>2
  <2> QED
    BY <2>4, <2>5 DEF Sound
<1>3. CASE ~ ok
  <2>1. status' = "error" /\ pos' = pos /\ todo' = todo
    BY <1>3 DEF Take
  <2>2. todo' \in Seq(Later) \/ (todo' = Packet /\ pos' = 0)
    BY <2>1 DEF IInv
  <2> QED
    BY <1>1, <2>1, <2>2 DEF IInv, Sound
<1> QED
  BY <1>2, <1>3
\* The tag at the position, if there is one, and its data, if they fit.
LEMMA TagHere ==
  ASSUME IInv, NEW t, t = Tag, t.ok
  PROVE  /\ t.header \in Nat /\ t.header >= 1 /\ pos + t.header <= Len(buf)
         /\ t.lvt \in Nat /\ t.number \in Nat
         /\ Whole(t) \in Nat /\ Whole(t) >= 1
         /\ Fits(t) => pos + Whole(t) <= Len(buf)
<1>1. BadTag.ok = FALSE
  BY DEF BadTag
<1>2. buf \in Seq(Octet) /\ pos \in 0 .. Len(buf) /\ t = decodeTagHeader(buf, pos)
  BY DEF IInv, Tag
<1>3. /\ t.header \in Nat /\ t.header >= 1 /\ pos + t.header <= Len(buf)
      /\ t.lvt \in Nat /\ t.number \in Nat
  BY <1>1, <1>2, TagInBounds
<1> QED
  BY <1>2, <1>3 DEF Whole, Fits

\* The headers, as what is left to do.
LEMMA PacketLater ==
  /\ Packet # << >> /\ Head(Packet).op = "bvlc" /\ "bvlc" \notin LaterOps
  /\ Tail(Packet) \in Seq(Later) /\ Len(Tail(Packet)) < Len(Packet)
<1>1. Item("npdu", 0, "") \in Later /\ Item("apdu", 0, "") \in Later
  BY DEF Item, Later, LaterOps, Fields
<1>2. Item("bvlc", 0, "").op = "bvlc"
  BY DEF Item
<1>3. "bvlc" \notin LaterOps
  BY DEF LaterOps
<1>4. \A a, b, c : /\ << a, b, c >> # << >> /\ Head(<< a, b, c >>) = a
                  /\ Tail(<< a, b, c >>) = << b, c >>
                  /\ Len(<< b, c >>) = 2 /\ Len(<< a, b, c >>) = 3
  OBVIOUS
<1>5. << Item("npdu", 0, ""), Item("apdu", 0, "") >> \in Seq(Later)
  <2>1. \A a, b \in Later : << a, b >> \in Seq(Later)
    BY FewItems, Zenon
  <2> QED
    BY <1>1, <2>1, Zenon
<1>6. Len(Tail(Packet)) = 2 /\ Len(Packet) = 3
  <2>1. Tail(Packet) = << Item("npdu", 0, ""), Item("apdu", 0, "") >>
    BY <1>4, Zenon DEF Packet
  <2>2. \A a, b : Len(<< a, b >>) = 2
    OBVIOUS
  <2>3. Len(Tail(Packet)) = 2
    BY <2>1, <2>2, Zenon
  <2>4. Len(Packet) = 3
    BY <1>4, Zenon DEF Packet
  <2> QED
    BY <2>3, <2>4, Zenon
<1>7. /\ Packet # << >> /\ Head(Packet) = Item("bvlc", 0, "")
      /\ Tail(Packet) = << Item("npdu", 0, ""), Item("apdu", 0, "") >>
  <2>1. Packet # << >>
    BY DEF Packet
  <2>2. Head(Packet) = Item("bvlc", 0, "")
    BY <1>4, Zenon DEF Packet
  <2>3. Tail(Packet) = << Item("npdu", 0, ""), Item("apdu", 0, "") >>
    BY <1>4, Zenon DEF Packet
  <2> QED
    BY <2>1, <2>2, <2>3, Zenon
<1>8. Len(Tail(Packet)) < Len(Packet)
  <2>1. 2 < 3
    OBVIOUS
  <2> QED
    BY <1>6, <2>1, Zenon
<1> QED
  <2>1. Head(Packet).op = "bvlc"
    BY <1>2, <1>7, Zenon
  <2>2. Tail(Packet) \in Seq(Later)
    BY <1>5, <1>7, Zenon
  <2> HIDE DEF Packet, LaterOps, Later
  <2> QED
    BY <1>3, <1>7, <1>8, <2>1, <2>2

\* Only the first header has nothing before it.
LEMMA AfterFirst ==
  ASSUME IInv, NEW op \in LaterOps, Doing(op)
  PROVE  /\ status = "decoding" /\ todo \in Seq(Later) /\ todo # << >>
         /\ Head(todo) \in Later /\ Tail(todo) \in Seq(Later)
         /\ Len(Tail(todo)) < Len(todo)
<1>1. status = "decoding" /\ Head(todo).op = op /\ todo # << >>
  BY DEF Doing, IInv
<1>2. Head(Packet).op = "bvlc" /\ "bvlc" \notin LaterOps
  BY PacketLater
<1>3. todo \in Seq(Later)
  BY <1>1, <1>2 DEF IInv
<1>4. /\ Head(todo) \in Later /\ Tail(todo) \in Seq(Later)
      /\ Len(Tail(todo)) = Len(todo) - 1 /\ Len(todo) \in Nat
  BY <1>1, <1>3, LaterKeeps
<1> QED
  BY <1>1, <1>3, <1>4

\* Ending a piece of the work.
LEMMA PopSound ==
  ASSUME IInv, NEW op \in LaterOps, Doing(op), Pop
  PROVE  Sound
<1>1. /\ status = "decoding" /\ Tail(todo) \in Seq(Later)
      /\ Len(Tail(todo)) < Len(todo)
  BY AfterFirst
<1>2. Take(TRUE, 0, << >>, Tail(todo))
  BY DEF Pop
<1>3. 0 \in Nat /\ pos + 0 <= Len(buf)
  BY DEF IInv
<1> QED
  BY <1>1, <1>2, <1>3, TakeSound

\* Context-tagged data.
LEMMA ContextSound ==
  ASSUME IInv, status = "decoding", NEW want, NEW as, NEW next \in Seq(Later),
         ContextData(want, as, next)
  PROVE  Sound
<1> DEFINE t == Tag
           ok == /\ t.ok /\ t.context /\ t.number = want
                 /\ ~IsOpening(t) /\ ~IsClosing(t)
                 /\ Fits(t) /\ FieldOk(as, t)
           found == << Field(as, DataAt(t)) >>
<1>1. Take(ok, Whole(t), found, next)
  BY DEF ContextData
<1>2. ok => Whole(t) \in Nat /\ pos + Whole(t) <= Len(buf) /\ Whole(t) > 0
  <2> HAVE ok
  <2>1. t.ok /\ Fits(t)
    OBVIOUS
  <2> HIDE DEF t
  <2>2. t = Tag
    BY DEF t
  <2>3. Whole(t) \in Nat /\ Whole(t) >= 1 /\ pos + Whole(t) <= Len(buf)
    BY <2>1, <2>2, TagHere
  <2> QED
    BY <2>3
<1> HIDE DEF t, ok, found
<1> QED
  BY <1>1, <1>2, TakeSound

\* Application-tagged data.
LEMMA ApplicationSound ==
  ASSUME IInv, status = "decoding", NEW next \in Seq(Later), ApplicationValue(Tag, next)
  PROVE  Sound
<1> DEFINE t == Tag
           ok == /\ t.ok /\ ~t.context
                 /\ \/ t.number = 1
                    \/ Fits(t) /\ t.number <= 12 /\ Decodable(AppKinds[t.number + 1], DataAt(t))
           found == << ApplicationData(t) >>
<1>1. Take(ok, Consumed(t), found, next)
  BY DEF ApplicationValue
<1>2. ok => Consumed(t) \in Nat /\ pos + Consumed(t) <= Len(buf) /\ Consumed(t) > 0
  <2> HAVE ok
  <2>1. t.ok /\ (t.number = 1 \/ Fits(t))
    OBVIOUS
  <2> HIDE DEF t
  <2>2. t = Tag
    BY DEF t
  <2>3. /\ t.header \in Nat /\ t.header >= 1 /\ pos + t.header <= Len(buf)
        /\ Whole(t) \in Nat /\ Whole(t) >= 1
        /\ Fits(t) => pos + Whole(t) <= Len(buf)
    BY <2>1, <2>2, TagHere
  <2>4. CASE t.number = 1
    BY <2>3, <2>4 DEF Consumed
  <2>5. CASE t.number # 1
    BY <2>1, <2>3, <2>5 DEF Consumed
  <2> QED
    BY <2>4, <2>5
<1> HIDE DEF t, ok, found
<1> QED
  BY <1>1, <1>2, TakeSound

-----------------------------------------------------------------------------
(* The headers.                                                            *)

\* The link layer's header, at the beginning of the packet.
LEMMA BvlcSound ==
  ASSUME IInv, DecodeIncomingPacket
  PROVE  Sound
<1> DEFINE ok == /\ Len(buf) >= 4
                 /\ buf[1] = 129 /\ buf[2] \in {4, 10, 11}
                 /\ buf[3] * 256 + buf[4] = Len(buf)
                 /\ Len(buf) >= BvlcHeader
<1>1. status = "decoding" /\ Head(todo).op = "bvlc" /\ Take(ok, BvlcHeader, << >>, Tail(todo))
  BY DEF DecodeIncomingPacket, Doing
<1>2. ok => Len(buf) >= BvlcHeader
  OBVIOUS
<1> HIDE DEF ok
<1>3. BvlcHeader \in Nat /\ BvlcHeader > 0
  BY DEF BvlcHeader
<1>4. todo # << >>
  BY <1>1 DEF IInv
<1>5. todo \notin Seq(Later)
  <2> SUFFICES ASSUME todo \in Seq(Later) PROVE FALSE
    OBVIOUS
  <2>1. Head(todo) \in Later
    BY <1>4, LaterKeeps
  <2>2. Head(todo).op \in LaterOps
    BY <2>1 DEF Later
  <2> QED
    BY <1>1, <2>2, PacketLater
<1>6. todo = Packet /\ pos = 0
  BY <1>5 DEF IInv
<1>7. Tail(todo) \in Seq(Later)
  BY <1>6, PacketLater
<1>8. ok => BvlcHeader \in Nat /\ pos + BvlcHeader <= Len(buf) /\ BvlcHeader > 0
  BY <1>2, <1>3, <1>6
<1> QED
  BY <1>1, <1>7, <1>8, TakeSound

\* The network layer's header: its address fields are looked at only as far as the
\* packet goes.
LEMMA NpduSound ==
  ASSUME IInv, decodeNPDU
  PROVE  Sound
<1> DEFINE size    == Len(buf) - pos
           control == buf[pos + 2]
           dest    == (control \div 32) % 2 = 1
           source  == (control \div 8) % 2 = 1
           d       == IF dest THEN 3 + buf[pos + 5] ELSE 0
           s       == IF source THEN 3 + buf[pos + 2 + d + 3] ELSE 0
           whole   == 2 + d + s + (IF dest THEN 1 ELSE 0)
           ok      == /\ size >= 2 /\ control < 128
                      /\ dest => size >= 5
                      /\ source => size >= 2 + d + 3
                      /\ size >= whole + 1
<1>1. Doing("npdu") /\ Take(ok, whole, << >>, Tail(todo))
  BY DEF decodeNPDU
<1>2. ok => /\ size >= 2 /\ (dest => size >= 5) /\ (source => size >= 2 + d + 3)
            /\ size >= whole + 1
  OBVIOUS
<1> HIDE DEF ok, source, dest, control
<1>3. buf \in Seq(Octet) /\ pos \in Nat /\ pos <= Len(buf) /\ Len(buf) \in Nat
  BY DEF IInv
<1>4. ok => whole \in Nat /\ pos + whole <= Len(buf) /\ whole > 0
  <2> HAVE ok
  <2>1. d \in Nat
    <3>1. CASE dest
      <4>1. pos + 5 \in 1 .. Len(buf)
        BY <1>2, <1>3, <3>1
      <4>2. buf[pos + 5] \in Nat
        BY <1>3, <4>1, OctetAt
      <4> QED
        BY <3>1, <4>2
    <3>2. CASE ~ dest
      BY <3>2
    <3> QED
      BY <3>1, <3>2
  <2> HIDE DEF d
  <2>2. s \in Nat
    <3>1. CASE source
      <4>1. pos + 2 + d + 3 \in 1 .. Len(buf)
        BY <1>2, <1>3, <2>1, <3>1
      <4>2. buf[pos + 2 + d + 3] \in Nat
        BY <1>3, <4>1, OctetAt
      <4> QED
        BY <3>1, <4>2
    <3>2. CASE ~ source
      BY <3>2
    <3> QED
      BY <3>1, <3>2
  <2> HIDE DEF s
  <2>3. whole \in Nat /\ whole > 0
    BY <2>1, <2>2
  <2>4. size >= whole + 1
    BY <1>2
  <2> HIDE DEF whole
  <2> QED
    BY <1>3, <2>3, <2>4
<1>5. "npdu" \in LaterOps
  BY DEF LaterOps
<1>6. status = "decoding" /\ Tail(todo) \in Seq(Later)
  BY <1>1, <1>5, AfterFirst
<1> HIDE DEF whole
<1> QED
  BY <1>1, <1>4, <1>6, TakeSound

\* The application layer's header, by the type of PDU.
LEMMA ApduSound ==
  ASSUME IInv, DecodeAPDU
  PROVE  Sound
<1> DEFINE type    == buf[pos + 1] \div 16
           n       == ApduHeader(type)
           id      == IF type = 1 THEN 0 ELSE buf[pos + n - 1]
           service == buf[pos + n]
           ok      == /\ type \in {0, 1, 2, 3, 5, 6, 7}
                      /\ type \in {0, 3} => (buf[pos + 1] \div 8) % 2 = 0
                      /\ Len(buf) - pos >= n
           found   == << [kind |-> "pdu", tag |-> type, data |-> << id, service >>] >>
<1>1. Doing("apdu") /\ Take(ok, n, found, Params(type, service))
  BY DEF DecodeAPDU
<1>2. ok => Len(buf) - pos >= n
  OBVIOUS
<1>3. n \in Nat /\ n > 0
  <2> HIDE DEF type
  <2> QED
    BY DEF ApduHeader
<1> HIDE DEF ok, found, n, type, service
<1>4. Params(type, service) \in Seq(Later)
  BY ParamsLater
<1>5. "apdu" \in LaterOps
  BY DEF LaterOps
<1>6. status = "decoding"
  BY <1>1 DEF Doing
<1>7. ok => n \in Nat /\ pos + n <= Len(buf) /\ n > 0
  BY <1>2, <1>3 DEF IInv
<1> QED
  BY <1>1, <1>4, <1>6, <1>7, TakeSound

-----------------------------------------------------------------------------
(* Service parameters.                                                     *)

\* Context-tagged fields, required and optional.
LEMMA FieldsSound ==
  ASSUME IInv, DecodeContext \/ DecodeOptional
  PROVE  Sound
<1>1. "context" \in LaterOps /\ "optional" \in LaterOps
  BY DEF LaterOps
<1>2. CASE DecodeContext
  <2>1. Doing("context") /\ ContextData(Head(todo).tag, Head(todo).as, Tail(todo))
    BY <1>2 DEF DecodeContext
  <2>2. status = "decoding" /\ Tail(todo) \in Seq(Later)
    BY <1>1, <2>1, AfterFirst
  <2> QED
    BY <2>1, <2>2, ContextSound
<1>3. CASE DecodeOptional
  <2>1. /\ Doing("optional")
        /\ Pop \/ ContextData(Head(todo).tag, Head(todo).as, Tail(todo))
    BY <1>3 DEF DecodeOptional
  <2>2. status = "decoding" /\ Tail(todo) \in Seq(Later)
    BY <1>1, <2>1, AfterFirst
  <2> QED
    BY <1>1, <2>1, <2>2, ContextSound, PopSound
<1> QED
  BY <1>2, <1>3

\* Opening tags, by their header.
LEMMA OpeningSound ==
  ASSUME IInv, expectOpening
  PROVE  Sound
<1> DEFINE ok == Tag.ok /\ IsOpening(Tag) /\ Tag.number = Head(todo).tag
<1>1. Doing("opening") /\ Take(ok, Tag.header, << >>, Tail(todo))
  BY DEF expectOpening
<1>2. ok => Tag.header \in Nat /\ Tag.header > 0 /\ pos + Tag.header <= Len(buf)
  <2> HAVE ok
  <2>1. Tag.ok
    OBVIOUS
  <2>2. Tag.header \in Nat /\ Tag.header >= 1 /\ pos + Tag.header <= Len(buf)
    BY <2>1, TagHere
  <2> QED
    BY <2>2
<1>3. "opening" \in LaterOps
  BY DEF LaterOps
<1>4. status = "decoding" /\ Tail(todo) \in Seq(Later)
  BY <1>1, <1>3, AfterFirst
<1> HIDE DEF ok
<1> QED
  BY <1>1, <1>2, <1>4, TakeSound

\* Closing tags, by their header or by one octet, which is no more.
LEMMA ClosingSound ==
  ASSUME IInv, expectClosing
  PROVE  Sound
<1> DEFINE f == Head(todo)
           n == CloseHeader(f.as, Tag)
           closed == IF f.as = "close" THEN << [kind |-> "close", tag |-> f.tag, data |-> << >>] >>
                                       ELSE << >>
           ok == Tag.ok /\ IsClosing(Tag) /\ Tag.number = f.tag
<1>1. Doing("closing") /\ Take(ok, n, closed, Tail(todo))
  BY DEF expectClosing
<1>2. ok => n \in Nat /\ n > 0 /\ pos + n <= Len(buf)
  <2> HAVE ok
  <2>1. Tag.ok
    OBVIOUS
  <2>2. Tag.header \in Nat /\ Tag.header >= 1 /\ pos + Tag.header <= Len(buf)
    BY <2>1, TagHere
  <2>3. n = 1 \/ n = Tag.header
    BY DEF CloseHeader
  <2> HIDE DEF n
  <2>4. pos \in Nat /\ Len(buf) \in Nat
    BY DEF IInv
  <2> QED
    BY <2>2, <2>3, <2>4
<1>3. "closing" \in LaterOps
  BY DEF LaterOps
<1>4. status = "decoding" /\ Tail(todo) \in Seq(Later)
  BY <1>1, <1>3, AfterFirst
<1> HIDE DEF ok, n, closed
<1> QED
  BY <1>1, <1>2, <1>4, TakeSound

\* The value of a WriteProperty request.
LEMMA ValueSound ==
  ASSUME IInv, DecodeApplication
  PROVE  Sound
<1>1. Doing("application") /\ ApplicationValue(Tag, Tail(todo))
  BY DEF DecodeApplication
<1>2. "application" \in LaterOps
  BY DEF LaterOps
<1>3. status = "decoding" /\ Tail(todo) \in Seq(Later)
  BY <1>1, <1>2, AfterFirst
<1> QED
  BY <1>1, <1>3, ApplicationSound

\* A turn of decodeNestedValues: it ends, takes a value, or goes one level down.
LEMMA NestedSound ==
  ASSUME IInv, decodeNestedValues
  PROVE  Sound
<1> DEFINE t == Tag
           depth == Head(todo).tag
           item == << [kind |-> "open", tag |-> t.number, data |-> << >>] >>
           inner == << Values(depth + 1), Item("closing", t.number, "close") >> \o todo
           value == << ContextPrimitiveValue(t.number, DataAt(t)) >>
<1>1. /\ Doing("values")
      /\ \/ Pop
         \/ ApplicationValue(t, todo)
         \/ t.context /\ Take(depth < MaxNesting, t.header, item, inner)
         \/ t.context /\ Take(Fits(t), Whole(t), value, todo)
  BY DEF decodeNestedValues, IsOpening
<1>2. "values" \in LaterOps
  BY DEF LaterOps
<1>3. status = "decoding" /\ todo \in Seq(Later) /\ Head(todo) \in Later
  BY <1>1, <1>2, AfterFirst
<1>4. ASSUME t.context
      PROVE  /\ t.header \in Nat /\ t.header > 0 /\ pos + t.header <= Len(buf)
             /\ Whole(t) \in Nat /\ Whole(t) > 0
             /\ Fits(t) => pos + Whole(t) <= Len(buf)
             /\ t.number \in Nat
  <2>1. t.ok
    <3>1. BadTag.context = FALSE
      BY DEF BadTag
    <3>2. buf \in Seq(Octet) /\ pos \in 0 .. Len(buf)
      BY DEF IInv
    <3>3. t = decodeTagHeader(buf, pos)
      BY DEF Tag
    <3>4. t = BadTag \/ t.ok
      BY <3>2, <3>3, TagInBounds
    <3> QED
      BY <1>4, <3>1, <3>4
  <2>2. t = Tag
    OBVIOUS
  <2> HIDE DEF t
  <2> QED
    BY <2>1, <2>2, TagHere
<1>5. CASE Pop
  BY <1>1, <1>2, <1>5, PopSound
<1>6. CASE ApplicationValue(t, todo)
  BY <1>3, <1>6, ApplicationSound
<1>7. CASE t.context /\ Take(depth < MaxNesting, t.header, item, inner)
  <2>1. /\ t.header \in Nat /\ t.header > 0 /\ pos + t.header <= Len(buf) /\ t.number \in Nat
    BY <1>4, <1>7
  <2> HIDE DEF t
  <2>2. depth + 1 \in Nat
    BY <1>3 DEF Later
  <2> HIDE DEF depth
  <2>3. Values(depth + 1) \in Later
    BY <2>2 DEF Values, Item, Later, LaterOps, Fields
  <2>4. Item("closing", t.number, "close") \in Later
    BY <2>1 DEF Item, Later, LaterOps, Fields
  <2>5. inner \in Seq(Later)
    BY <1>3, <2>3, <2>4
  <2> HIDE DEF inner, item
  <2> QED
    BY <1>3, <1>7, <2>1, <2>5, TakeSound
<1>8. CASE t.context /\ Take(Fits(t), Whole(t), value, todo)
  <2>1. /\ Whole(t) \in Nat /\ Whole(t) > 0
        /\ Fits(t) => pos + Whole(t) <= Len(buf)
    BY <1>4, <1>8
  <2> HIDE DEF t, value
  <2> QED
    BY <1>3, <1>8, <2>1, TakeSound
<1> QED
  BY <1>1, <1>5, <1>6, <1>7, <1>8

\* The loops of ReadPropertyMultiple and of Who-Is end, or take a field and go
\* on to what belongs to it.
LEMMA ListsSound ==
  ASSUME IInv, DecodeSpecs \/ DecodeRefs \/ DecodeResults \/ DecodeLimits
  PROVE  Sound
<1>1. /\ "specs" \in LaterOps /\ "refs" \in LaterOps /\ "results" \in LaterOps
      /\ "limits" \in LaterOps
  BY DEF LaterOps
<1>2. CASE DecodeSpecs
  <2> DEFINE part == Head(todo).as
             next == << Opening(1), Item(part, 0, ""), Closing(1) >> \o todo
  <2>1. Doing("specs") /\ (Pop \/ ContextData(0, "object", next))
    BY <1>2 DEF DecodeSpecs
  <2>2. status = "decoding" /\ todo \in Seq(Later) /\ Head(todo) \in Later
    BY <1>1, <2>1, AfterFirst
  <2>3. CASE Pop
    BY <1>1, <2>1, <2>3, PopSound
  <2>4. CASE ContextData(0, "object", next)
    <3>1. part \in {"refs", "results"}
      BY <2>1, <2>2 DEF Later, Doing
    <3>2. Item(part, 0, "") \in Later
      <4> HIDE DEF part
      <4> QED
        BY <3>1 DEF Item, Later, LaterOps, Fields
    <3>3. Opening(1) \in Later /\ Closing(1) \in Later
      BY DEF Opening, Closing, Item, Later, LaterOps, Fields
    <3> HIDE DEF part
    <3>4. << Opening(1), Item(part, 0, ""), Closing(1) >> \in Seq(Later)
      BY <3>2, <3>3, FewItems, Zenon
    <3>5. next \in Seq(Later)
      BY <2>2, <3>4, Joined, Zenon
    <3> HIDE DEF next
    <3> QED
      BY <2>2, <2>4, <3>5, ContextSound
  <2> QED
    BY <2>1, <2>3, <2>4
<1>3. CASE DecodeRefs
  <2> DEFINE next == << Optional(1, "index?") >> \o todo
  <2>1. Doing("refs") /\ (Pop \/ ContextData(0, "prop", next))
    BY <1>3 DEF DecodeRefs
  <2>2. status = "decoding" /\ todo \in Seq(Later)
    BY <1>1, <2>1, AfterFirst
  <2>3. Optional(1, "index?") \in Later
    BY DEF Optional, Item, Later, LaterOps, Fields
  <2>4. next \in Seq(Later)
    BY <2>2, <2>3
  <2> HIDE DEF next
  <2> QED
    BY <1>1, <2>1, <2>2, <2>4, PopSound, ContextSound
<1>4. CASE DecodeResults
  <2> DEFINE next == << Optional(3, "index?"), Item("choice", 0, "") >> \o todo
  <2>1. Doing("results") /\ (Pop \/ ContextData(2, "prop", next))
    BY <1>4 DEF DecodeResults
  <2>2. status = "decoding" /\ todo \in Seq(Later)
    BY <1>1, <2>1, AfterFirst
  <2>3. Optional(3, "index?") \in Later /\ Item("choice", 0, "") \in Later
    BY DEF Optional, Item, Later, LaterOps, Fields
  <2>4. << Optional(3, "index?"), Item("choice", 0, "") >> \in Seq(Later)
    BY <2>3, FewItems, Zenon
  <2>5. next \in Seq(Later)
    BY <2>2, <2>4, Joined, Zenon
  <2> HIDE DEF next
  <2> QED
    BY <1>1, <2>1, <2>2, <2>5, PopSound, ContextSound
<1>5. CASE DecodeLimits
  <2> DEFINE next == << Context(1, "high") >>
  <2>1. Doing("limits") /\ (Pop \/ ContextData(0, "low", next))
    BY <1>5 DEF DecodeLimits
  <2>2. status = "decoding"
    BY <2>1 DEF Doing
  <2>3. Context(1, "high") \in Later
    BY DEF Context, Item, Later, LaterOps, Fields
  <2>4. next \in Seq(Later)
    BY <2>3, FewItems, Zenon
  <2> HIDE DEF next
  <2> QED
    BY <1>1, <2>1, <2>2, <2>4, PopSound, ContextSound
<1> QED
  BY <1>2, <1>3, <1>4, <1>5

\* What a ReadPropertyMultiple result holds: values or an error.
LEMMA ChoiceSound ==
  ASSUME IInv, DecodeChoice
  PROVE  Sound
<1> DEFINE ok == Tag.ok /\ IsOpening(Tag) /\ Tag.number \in {4, 5}
           content == IF Tag.number = 4 THEN << Values(0) >> ELSE DecodeBACnetError
           closing == << Item("closing", Tag.number, "result") >>
           next == content \o closing \o Tail(todo)
<1>1. Doing("choice") /\ Take(ok, Tag.header, << >>, next)
  BY DEF DecodeChoice
<1>2. "choice" \in LaterOps
  BY DEF LaterOps
<1>3. status = "decoding" /\ Tail(todo) \in Seq(Later)
  BY <1>1, <1>2, AfterFirst
<1>4. content \in Seq(Later)
  <2>1. Values(0) \in Later
    BY DEF Values, Item, Later, LaterOps, Fields
  <2>2. Item("error", 0, "class") \in Later /\ Item("error", 1, "code") \in Later
    BY DEF Item, Later, LaterOps, Fields
  <2>3. << Values(0) >> \in Seq(Later) /\ DecodeBACnetError \in Seq(Later)
    BY <2>1, <2>2, FewItems, Zenon DEF DecodeBACnetError
  <2> QED
    BY <2>3, Zenon
<1>5. ASSUME ok
      PROVE  /\ Tag.header \in Nat /\ Tag.header > 0 /\ pos + Tag.header <= Len(buf)
             /\ next \in Seq(Later)
  <2>1. Tag.ok /\ Tag.number \in Nat
    BY <1>5
  <2>2. Tag.header \in Nat /\ Tag.header >= 1 /\ pos + Tag.header <= Len(buf)
    BY <2>1, TagHere
  <2>3. Item("closing", Tag.number, "result") \in Later
    BY <2>1 DEF Item, Later, LaterOps, Fields
  <2>4. closing \in Seq(Later)
    BY <2>3, FewItems, Zenon
  <2> HIDE DEF content, closing
  <2>5. next \in Seq(Later)
    <3>1. content \o closing \in Seq(Later)
      BY <1>4, <2>4, Joined, Zenon
    <3> QED
      BY <1>3, <3>1, Joined, Zenon
  <2> HIDE DEF next
  <2> QED
    BY <2>2, <2>5
<1> HIDE DEF ok, next
<1> QED
  BY <1>1, <1>3, <1>5, TakeSound

\* A field of an error.
LEMMA ErrorSound ==
  ASSUME IInv, decodeErrorSequence
  PROVE  Sound
<1> DEFINE t == Tag
           ok == /\ t.ok /\ ~IsOpening(t) /\ ~IsClosing(t)
                 /\ t.number = IF t.context THEN Head(todo).tag ELSE 9
                 /\ Fits(t)
           found == << Field(Head(todo).as, DataAt(t)) >>
<1>1. Doing("error") /\ Take(ok, Whole(t), found, Tail(todo))
  BY DEF decodeErrorSequence
<1>2. ok => Whole(t) \in Nat /\ Whole(t) > 0 /\ pos + Whole(t) <= Len(buf)
  <2> HAVE ok
  <2>1. t.ok /\ Fits(t)
    OBVIOUS
  <2>2. t = Tag
    OBVIOUS
  <2> HIDE DEF t
  <2>3. Whole(t) \in Nat /\ Whole(t) >= 1 /\ pos + Whole(t) <= Len(buf)
    BY <2>1, <2>2, TagHere
  <2> QED
    BY <2>3
<1>3. "error" \in LaterOps
  BY DEF LaterOps
<1>4. status = "decoding" /\ Tail(todo) \in Seq(Later)
  BY <1>1, <1>3, AfterFirst
<1> HIDE DEF ok, found, t
<1> QED
  BY <1>1, <1>2, <1>4, TakeSound

\* I-Am's application values, and the look at them when the packet ends.
LEMMA IAmSound ==
  ASSUME IInv, DecodeIAmValues
  PROVE  Sound
<1> DEFINE ok == Len(out) = 5 /\ out[2].kind = "object"
<1>1. /\ Doing("iam")
      /\ ApplicationValue(Tag, todo) \/ Take(ok, 0, << >>, Tail(todo))
  BY DEF DecodeIAmValues
<1>2. "iam" \in LaterOps
  BY DEF LaterOps
<1>3. /\ status = "decoding" /\ todo \in Seq(Later) /\ Tail(todo) \in Seq(Later)
      /\ Len(Tail(todo)) < Len(todo)
  BY <1>1, <1>2, AfterFirst
<1>4. CASE ApplicationValue(Tag, todo)
  BY <1>3, <1>4, ApplicationSound
<1>5. CASE Take(ok, 0, << >>, Tail(todo))
  <2> HIDE DEF ok
  <2>1. 0 \in Nat /\ pos + 0 <= Len(buf)
    BY DEF IInv
  <2> QED
    BY <1>3, <1>5, <2>1, TakeSound
<1> QED
  BY <1>1, <1>4, <1>5

-----------------------------------------------------------------------------
(* The whole receiver.                                                     *)

\* Every Decode step is sound.
LEMMA DecodeSound ==
  ASSUME IInv, Decode
  PROVE  Sound
BY BvlcSound, NpduSound, ApduSound, FieldsSound, OpeningSound, ClosingSound, ValueSound,
   NestedSound, ListsSound, ChoiceSound, ErrorSound, IAmSound
DEF Decode

\* Before the first packet.
LEMMA Initially == Silent => IInv
<1>1. << >> \in Seq(Octet) /\ << >> \in Seq(Later) /\ Len(<< >>) = 0
  OBVIOUS
<1> QED
  BY <1>1 DEF Silent, IInv

\* A packet of any octets is received.
LEMMA ReceiveKeeps == ASSUME Receive PROVE IInv'
<1>1. Packet # << >>
  BY PacketLater
<1>2. buf' \in Seq(Octet) /\ pos' = 0 /\ todo' = Packet /\ status' = "decoding"
  BY DEF Receive, Start
<1> QED
  BY <1>1, <1>2 DEF IInv

\* The result of a packet is taken.
LEMMA ForgetKeeps == ASSUME Forget PROVE IInv'
<1>1. << >> \in Seq(Octet) /\ << >> \in Seq(Later) /\ Len(<< >>) = 0
  OBVIOUS
<1> QED
  BY <1>1 DEF Forget, Silent, IInv

\* The invariant is inductive.
LEMMA IInvHolds == Receiver => []IInv
<1>1. IInv /\ [Receive \/ Forget \/ Decode]_decoderVars => IInv'
  <2> SUFFICES ASSUME IInv, [Receive \/ Forget \/ Decode]_decoderVars
               PROVE  IInv'
    OBVIOUS
  <2>1. CASE Decode
    BY <2>1, DecodeSound DEF Sound
  <2>2. CASE UNCHANGED decoderVars
    BY <2>2 DEF decoderVars, IInv
  <2> QED
    BY <2>1, <2>2, ReceiveKeeps, ForgetKeeps
<1> QED
  BY <1>1, Initially, PTL DEF Receiver

\* Whatever octets arrive, and however deep they nest, no Decode function slices
\* beyond the packet: every length is compared with what is left before it is used
\* (tag.go, value.go, services.go).
THEOREM NoPanic == Receiver => []InBounds
<1>1. IInv => InBounds
  BY DEF IInv, InBounds
<1> QED
  BY <1>1, IInvHolds, PTL

\* Every turn of every decoding loop consumes octets or ends a piece of the work
\* (value.go:432-478, services.go:310-359 and 400-484): todo grows only at the cost
\* of octets, so a packet of n octets is done with after finitely many turns.
THEOREM EveryTurnCounts == Receiver => Progress
<1>1. ASSUME IInv, Receive \/ Forget \/ Decode, status = "decoding", status' = "decoding"
      PROVE  pos' > pos \/ (pos' = pos /\ Len(todo') < Len(todo))
  <2>1. Decode
    BY <1>1 DEF Receive, Forget
  <2> QED
    BY <1>1, <2>1, DecodeSound DEF Sound
<1>2. IInv /\ [Receive \/ Forget \/ Decode]_decoderVars
        => [status = "decoding" /\ status' = "decoding"
              => pos' > pos \/ (pos' = pos /\ Len(todo') < Len(todo))]_decoderVars
  BY <1>1
<1> QED
  BY <1>2, IInvHolds, PTL DEF Receiver, Progress
=============================================================================
