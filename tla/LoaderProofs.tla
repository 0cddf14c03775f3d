---------------------------- MODULE LoaderProofs ----------------------------
(***************************************************************************)
(* Proofs about the enumeration of a device, for object-lists of any       *)
(* length, any sizes of index batches and metadata chunks, any limits on   *)
(* the device's replies, and any number of faults: the list comes out in   *)
(* order, nothing else is omitted, an unknown service is tried once, and   *)
(* only faults and the context make an enumeration fail.                   *)
(***************************************************************************)
EXTENDS Loader, SequenceTheorems, TLAPS

-----------------------------------------------------------------------------
(* The inductive invariant                                                 *)

\* The list is in order, and as long as the loops say.
Reading ==
  /\ list = UpTo(Len(list))
  /\ start >= 1
  /\ pc \in {"identify", "whole", "length"} => Len(list) = 0
  /\ pc = "indexes" => Len(list) = Least(start - 1, N)
  /\ pc = "index" => Len(list) = i - 1 /\ start <= i /\ i <= End
  /\ pc \in {"metadata", "name", "done"} => Len(list) = N

\* Chunks that follow one another up to the end of the list, none empty.
Chain(s) ==
  /\ \A k \in 1 .. Len(s) : s[k].lo <= s[k].hi
  /\ \A k \in 1 .. Len(s) - 1 : s[k + 1].lo = s[k].hi + 1
  /\ Len(s) > 0 => s[Len(s)].hi = N

\* The objects up to n have been dealt with, and no others.
Through(n) ==
  /\ named = ((1 .. n) \ dev.unnamed) \ spoilt
  /\ spoilt \subseteq 1 .. n

\* The chunks left begin where the metadata read so far ends.
Naming ==
  /\ pc \in {"identify", "whole", "length", "indexes", "index"} => named = {} /\ spoilt = {}
  /\ pc \in {"metadata", "name"} => Chain(chunks)
  /\ pc = "metadata" => Through(IF chunks = << >> THEN N ELSE Chunk.lo - 1)
  /\ pc = "name" => chunks # << >> /\ i \in Members /\ Through(i - 1)
  /\ pc = "done" => Through(N)

\* The device is asked no more once it has said it does not know the service.
Latched == rejects = IF noRPM THEN 1 ELSE 0

IInv == TypeOK /\ Reading /\ Naming /\ Latched /\ PiecesSuffice

-----------------------------------------------------------------------------
(* Lists and chunks                                                        *)

ChunkSet == [lo : 1 .. N, hi : 0 .. N]

\* The constants, as numbers.
LEMMA Constants ==
  /\ N \in Nat /\ MaxFaults \in Nat
  /\ IndexChunk \in Nat /\ IndexChunk > 0 /\ RpmChunk \in Nat /\ RpmChunk > 0
  /\ \A u \in Nameless : u \subseteq 1 .. N
BY LoaderAssumption

\* The list of the first n objects.
LEMMA UpToType ==
  ASSUME NEW n \in Nat
  PROVE  /\ UpTo(n) \in Seq(Nat) /\ Len(UpTo(n)) = n
         /\ \A k \in 1 .. n : UpTo(n)[k] = k
         /\ n <= N => UpTo(n) \in Seq(1 .. N)
<1>1. UpTo(n) = [k \in 1 .. n |-> k]
  BY DEF UpTo
<1>2. UpTo(n) \in Seq(Nat) /\ Len(UpTo(n)) = n
  BY <1>1
<1>3. n <= N => UpTo(n) \in Seq(1 .. N)
  BY <1>1, Constants
<1> QED
  BY <1>1, <1>2, <1>3

\* Reading the next d objects leaves a list of the first n + d.
LEMMA UpToMore ==
  ASSUME NEW n \in Nat, NEW d \in Nat
  PROVE  UpTo(n) \o [k \in 1 .. d |-> n + k] = UpTo(n + d)
<1> DEFINE t == [k \in 1 .. d |-> n + k]
           u == UpTo(n) \o t
<1>1. t \in Seq(Nat) /\ Len(t) = d
  OBVIOUS
<1>2. UpTo(n) \in Seq(Nat) /\ Len(UpTo(n)) = n /\ \A k \in 1 .. n : UpTo(n)[k] = k
  BY UpToType
<1>3. u \in Seq(Nat) /\ Len(u) = n + d
  BY <1>1, <1>2
<1>4. ASSUME NEW k \in 1 .. n + d
      PROVE  u[k] = k
  <2>1. CASE k <= n
    BY <1>1, <1>2, <2>1
  <2>2. CASE k > n
    <3>1. k - n \in 1 .. d
      BY <2>2
    <3>2. u[k] = t[k - n]
      BY <1>1, <1>2, <2>2
    <3>3. t[k - n] = n + (k - n)
      BY <3>1
    <3> HIDE DEF t, u
    <3> QED
      BY <3>2, <3>3
  <2>3. k <= n \/ k > n
    OBVIOUS
  <2> QED
    BY <2>1, <2>2, <2>3
<1>5. UpTo(n + d) \in Seq(Nat) /\ Len(UpTo(n + d)) = n + d
      /\ \A k \in 1 .. n + d : UpTo(n + d)[k] = k
  BY UpToType
<1> HIDE DEF t, u
<1>6. u = UpTo(n + d)
  BY <1>3, <1>4, <1>5
<1> QED
  BY <1>6 DEF t, u

\* Reading one more object.
LEMMA UpToNext ==
  ASSUME NEW n \in Nat
  PROVE  Append(UpTo(n), n + 1) = UpTo(n + 1)
<1>1. UpTo(n) \in Seq(Nat) /\ Len(UpTo(n)) = n /\ \A k \in 1 .. n : UpTo(n)[k] = k
  BY UpToType
<1>2. UpTo(n + 1) \in Seq(Nat) /\ Len(UpTo(n + 1)) = n + 1
      /\ \A k \in 1 .. n + 1 : UpTo(n + 1)[k] = k
  BY UpToType
<1> DEFINE u == Append(UpTo(n), n + 1)
<1>3. u \in Seq(Nat) /\ Len(u) = n + 1 /\ \A k \in 1 .. n + 1 : u[k] = k
  BY <1>1
<1> HIDE DEF u
<1>4. u = UpTo(n + 1)
  BY <1>2, <1>3
<1> QED
  BY <1>4 DEF u

\* load's chunks follow one another and cover the list.
LEMMA ChunksCover ==
  /\ ChunksOf(N) \in Seq(ChunkSet)
  /\ Chain(ChunksOf(N))
  /\ IF N = 0 THEN ChunksOf(N) = << >> ELSE ChunksOf(N) # << >> /\ Head(ChunksOf(N)).lo = 1
<1> DEFINE C == (N + RpmChunk - 1) \div RpmChunk
           S == ChunksOf(N)
<1>1. C \in Nat /\ C * RpmChunk >= N /\ (C - 1) * RpmChunk < N
  BY Constants
<1>2. S = [k \in 1 .. C |-> [lo |-> (k - 1) * RpmChunk + 1, hi |-> Least(k * RpmChunk, N)]]
  BY DEF ChunksOf
<1> HIDE DEF C, S
<1>3. ASSUME NEW k \in 1 .. C
      PROVE  /\ k * RpmChunk \in Nat /\ (k - 1) * RpmChunk \in Nat
             /\ k * RpmChunk = (k - 1) * RpmChunk + RpmChunk
             /\ (k - 1) * RpmChunk < N
             /\ k < C => k * RpmChunk < N
  <2>1. k * RpmChunk \in Nat /\ (k - 1) * RpmChunk \in Nat
        /\ k * RpmChunk = (k - 1) * RpmChunk + RpmChunk
    BY <1>1, Constants
  <2>2. ASSUME NEW j \in Nat, j <= C - 1
        PROVE  j * RpmChunk <= (C - 1) * RpmChunk
    <3>1. (C - 1) - j \in Nat /\ C - 1 = j + ((C - 1) - j)
      BY <1>1, <2>2
    <3>2. \A d \in Nat : (j + d) * RpmChunk = j * RpmChunk + d * RpmChunk
                         /\ d * RpmChunk \in Nat /\ j * RpmChunk \in Nat
      BY Constants
    <3> QED
      BY <3>1, <3>2
  <2> QED
    BY <1>1, <2>1, <2>2, Constants
<1>4. ASSUME NEW k \in 1 .. C
      PROVE  /\ S[k] \in ChunkSet /\ S[k].lo <= S[k].hi
             /\ S[k].lo = (k - 1) * RpmChunk + 1
             /\ k < C => S[k].hi = k * RpmChunk
             /\ k = C => S[k].hi = N
  <2>1. S[k] = [lo |-> (k - 1) * RpmChunk + 1, hi |-> Least(k * RpmChunk, N)]
    BY <1>2
  <2>2. (k - 1) * RpmChunk + 1 \in 1 .. N
    BY <1>3, Constants
  <2>3. Least(k * RpmChunk, N) \in 0 .. N
    BY <1>3, Constants DEF Least
  <2>4. (k - 1) * RpmChunk + 1 <= Least(k * RpmChunk, N)
    BY <1>3, Constants DEF Least
  <2>5. k < C => Least(k * RpmChunk, N) = k * RpmChunk
    BY <1>3, Constants DEF Least
  <2>6. k = C => Least(k * RpmChunk, N) = N
    BY <1>1, <1>3, Constants DEF Least
  <2> QED
    BY <2>1, <2>2, <2>3, <2>4, <2>5, <2>6 DEF ChunkSet
<1>5. S \in Seq(ChunkSet) /\ Len(S) = C
  <2>1. S \in [1 .. C -> ChunkSet]
    <3>1. S = [k \in 1 .. C |-> S[k]]
      BY <1>2
    <3>2. \A k \in 1 .. C : S[k] \in ChunkSet
      BY <1>4
    <3> QED
      BY <3>1, <3>2
  <2> QED
    BY <1>1, <2>1
<1>6. Chain(S)
  <2>1. ASSUME NEW k \in 1 .. C - 1
        PROVE  S[k + 1].lo = S[k].hi + 1
    <3>1. k \in 1 .. C /\ k + 1 \in 1 .. C /\ k < C /\ (k + 1) - 1 = k
      BY <1>1
    <3> QED
      BY <1>4, <3>1
  <2>2. C > 0 => S[C].hi = N
    BY <1>1, <1>4
  <2> QED
    BY <1>4, <1>5, <2>1, <2>2 DEF Chain
<1>7. CASE N = 0
  <2>1. C = 0
    BY <1>1, <1>3, <1>7, Constants
  <2> QED
    BY <1>5, <1>6, <1>7, <2>1 DEF S
<1>8. CASE N # 0
  <2>1. 1 \in 1 .. C
    <3>1. C # 0
      BY <1>1, <1>8, Constants
    <3> QED
      BY <1>1, <3>1
  <2>2. S # << >> /\ Head(S) = S[1]
    BY <1>5, <2>1
  <2>3. S[1].lo = (1 - 1) * RpmChunk + 1
    BY <1>4, <2>1
  <2>4. (1 - 1) * RpmChunk + 1 = 1
    BY Constants
  <2> QED
    BY <1>5, <1>6, <1>8, <2>2, <2>3, <2>4 DEF S
<1> QED
  BY <1>7, <1>8

\* The first of the chunks left, and the chunks after it.
LEMMA ChainTail ==
  ASSUME NEW s \in Seq(ChunkSet), s # << >>, Chain(s)
  PROVE  /\ Head(s) \in ChunkSet /\ Head(s).lo <= Head(s).hi
         /\ Tail(s) \in Seq(ChunkSet) /\ Chain(Tail(s))
         /\ Tail(s) = << >> => Head(s).hi = N
         /\ Tail(s) # << >> => Head(Tail(s)).lo = Head(s).hi + 1
<1>1. Len(s) \in Nat /\ Len(s) >= 1 /\ Head(s) = s[1] /\ s[1] \in ChunkSet
      /\ Tail(s) \in Seq(ChunkSet) /\ Len(Tail(s)) = Len(s) - 1
  OBVIOUS
<1>2. \A k \in 1 .. Len(s) - 1 : Tail(s)[k] = s[k + 1]
  OBVIOUS
<1>3. s[1].lo <= s[1].hi
  BY <1>1 DEF Chain
<1>4. Chain(Tail(s))
  <2>1. ASSUME NEW k \in 1 .. Len(s) - 1
        PROVE  Tail(s)[k].lo <= Tail(s)[k].hi
    <3>1. k + 1 \in 1 .. Len(s) /\ Tail(s)[k] = s[k + 1]
      BY <1>1, <1>2
    <3> QED
      BY <3>1 DEF Chain
  <2>2. ASSUME NEW k \in 1 .. (Len(s) - 1) - 1
        PROVE  Tail(s)[k + 1].lo = Tail(s)[k].hi + 1
    <3>1. k \in 1 .. Len(s) - 1 /\ k + 1 \in 1 .. Len(s) - 1
      BY <1>1
    <3>2. Tail(s)[k] = s[k + 1] /\ Tail(s)[k + 1] = s[(k + 1) + 1]
      BY <1>2, <3>1
    <3> QED
      BY <3>1, <3>2 DEF Chain
  <2>3. ASSUME Len(s) - 1 > 0
        PROVE  Tail(s)[Len(s) - 1].hi = N
    <3>1. Tail(s)[Len(s) - 1] = s[Len(s)]
      BY <1>1, <1>2, <2>3
    <3>2. s[Len(s)].hi = N
      BY <1>1 DEF Chain
    <3> QED
      BY <3>1, <3>2
  <2> QED
    BY <1>1, <2>1, <2>2, <2>3 DEF Chain
<1>5. ASSUME Tail(s) = << >>
      PROVE  s[1].hi = N
  <2>1. Len(s) = 1
    <3>1. PICK r \in Seq(ChunkSet) : r = << >> /\ Len(r) = Len(s) - 1
      BY <1>1, <1>5, Zenon
    <3>2. Len(r) = 0
      BY <3>1
    <3>3. Len(s) \in Nat
      OBVIOUS
    <3> QED
      BY <3>1, <3>2, <3>3
  <2> QED
    BY <2>1 DEF Chain
<1>6. ASSUME Tail(s) # << >>
      PROVE  Head(Tail(s)).lo = s[1].hi + 1
  <2>1. Len(s) - 1 >= 1 /\ Head(Tail(s)) = Tail(s)[1]
    BY <1>1, <1>6
  <2>2. Tail(s)[1] = s[1 + 1] /\ 1 \in 1 .. Len(s) - 1
    BY <1>1, <1>2, <2>1
  <2> QED
    BY <2>1, <2>2 DEF Chain
<1> QED
  BY <1>1, <1>3, <1>4, <1>5, <1>6

\* Halving the first chunk leaves chunks that follow one another, from the same
\* object on.
LEMMA ChainHalves ==
  ASSUME NEW s \in Seq(ChunkSet), s # << >>, Chain(s), Size(Head(s)) > 1
  PROVE  LET t == Halves(Head(s)) \o Tail(s)
         IN /\ t \in Seq(ChunkSet) /\ Chain(t)
            /\ t # << >> /\ Head(t).lo = Head(s).lo
<1> DEFINE c == Head(s)
           mid == Size(c) \div 2
           a == [lo |-> c.lo, hi |-> c.lo + mid - 1]
           b == [lo |-> c.lo + mid, hi |-> c.hi]
           h == Halves(c)
           r == Tail(s)
           t == h \o r
<1>1. /\ c \in ChunkSet /\ c.lo <= c.hi /\ r \in Seq(ChunkSet) /\ Chain(r)
      /\ (r = << >> => c.hi = N) /\ (r # << >> => Head(r).lo = c.hi + 1)
  BY ChainTail
<1>2. c.lo \in 1 .. N /\ c.hi \in 0 .. N /\ Size(c) = c.hi - c.lo + 1 /\ Size(c) > 1
  BY <1>1 DEF ChunkSet, Size
<1>3. h = <<a, b>>
  BY DEF Halves
<1> HIDE DEF c, h, r
<1>4. mid \in Nat /\ mid >= 1 /\ mid < Size(c)
  BY <1>2, Constants
<1> HIDE DEF mid
<1>5. a \in ChunkSet /\ b \in ChunkSet /\ a.lo <= a.hi /\ b.lo <= b.hi
      /\ a.lo = c.lo /\ b.lo = a.hi + 1 /\ b.hi = c.hi
  <2>1. a.lo = c.lo /\ a.hi = c.lo + mid - 1 /\ b.lo = c.lo + mid /\ b.hi = c.hi
    OBVIOUS
  <2>2. c.lo + mid - 1 \in 0 .. N /\ c.lo + mid \in 1 .. N
    BY <1>2, <1>4, Constants
  <2>3. a \in ChunkSet /\ b \in ChunkSet
    BY <1>2, <2>2 DEF ChunkSet
  <2> HIDE DEF a, b
  <2> QED
    BY <1>2, <1>4, <2>1, <2>3, Constants
<1> HIDE DEF a, b
<1>6. h \in Seq(ChunkSet) /\ Len(h) = 2 /\ h[1] = a /\ h[2] = b
  BY <1>3, <1>5
<1>7. t \in Seq(ChunkSet) /\ Len(t) = Len(r) + 2 /\ Len(r) \in Nat
  <2>1. Len(r) \in Nat
    BY <1>1
  <2>2. t \in Seq(ChunkSet) /\ Len(t) = Len(h) + Len(r)
    BY <1>1, <1>6, ConcatProperties, Zenon
  <2> HIDE DEF t
  <2> QED
    BY <1>6, <2>1, <2>2
<1>8. t[1] = a /\ t[2] = b /\ \A k \in 1 .. Len(r) : t[k + 2] = r[k]
  <2>1. \A k \in 1 .. Len(h) + Len(r) :
          t[k] = IF k <= Len(h) THEN h[k] ELSE r[k - Len(h)]
    BY <1>1, <1>6, ConcatProperties, Zenon
  <2> HIDE DEF t
  <2>2. t[1] = a /\ t[2] = b
    BY <1>6, <1>7, <2>1
  <2>3. ASSUME NEW k \in 1 .. Len(r)
        PROVE  t[k + 2] = r[k]
    <3>1. k + 2 \in 1 .. 2 + Len(r) /\ ~ (k + 2 <= 2) /\ (k + 2) - 2 = k
      BY <1>7
    <3> QED
      BY <1>6, <2>1, <3>1
  <2> QED
    BY <2>2, <2>3
<1> HIDE DEF t
<1>9. Chain(t)
  <2>1. ASSUME NEW k \in 1 .. Len(t)
        PROVE  t[k].lo <= t[k].hi
    <3>1. CASE k \in {1, 2}
      BY <1>5, <1>8, <3>1
    <3>2. CASE k \notin {1, 2}
      <4>1. k - 2 \in 1 .. Len(r) /\ k = (k - 2) + 2
        BY <1>7, <3>2
      <4>2. t[k] = r[k - 2]
        BY <1>8, <4>1
      <4> QED
        BY <1>1, <4>1, <4>2 DEF Chain
    <3> QED
      BY <3>1, <3>2
  <2>2. ASSUME NEW k \in 1 .. Len(t) - 1
        PROVE  t[k + 1].lo = t[k].hi + 1
    <3>1. CASE k = 1
      BY <1>5, <1>8, <3>1
    <3>2. CASE k = 2
      <4>1. Len(r) >= 1 /\ Head(r) = r[1] /\ r # << >>
        BY <1>1, <1>7, <3>2
      <4>2. t[k + 1] = r[1]
        BY <1>7, <1>8, <3>2, <4>1
      <4> QED
        BY <1>1, <1>5, <1>8, <3>2, <4>1, <4>2
    <3>3. CASE k \notin {1, 2}
      <4>1. k - 2 \in 1 .. Len(r) - 1 /\ k - 2 \in 1 .. Len(r) /\ k - 1 \in 1 .. Len(r)
            /\ k = (k - 2) + 2 /\ k + 1 = (k - 1) + 2 /\ k - 1 = (k - 2) + 1
        BY <1>7, <3>3
      <4>2. t[k] = r[k - 2] /\ t[k + 1] = r[k - 1]
        BY <1>8, <4>1
      <4>3. r[(k - 2) + 1].lo = r[k - 2].hi + 1
        BY <1>1, <4>1 DEF Chain
      <4> QED
        BY <4>1, <4>2, <4>3
    <3> QED
      BY <3>1, <3>2, <3>3
  <2>3. t[Len(t)].hi = N
    <3>1. CASE Len(r) = 0
      BY <1>1, <1>5, <1>7, <1>8, <3>1
    <3>2. CASE Len(r) # 0
      <4>1. t[Len(t)] = r[Len(r)]
        BY <1>7, <1>8, <3>2
      <4> QED
        BY <1>1, <1>7, <3>2, <4>1 DEF Chain
    <3> QED
      BY <3>1, <3>2
  <2> QED
    BY <2>1, <2>2, <2>3 DEF Chain
<1>10. t # << >> /\ Head(t) = a
  BY <1>7, <1>8
<1> QED
  BY <1>5, <1>7, <1>9, <1>10 DEF t, h, r, c

-----------------------------------------------------------------------------
(* Steps                                                                   *)

\* An enumeration begins with nothing read.
LEMMA IInvInit == Init => IInv
<1> SUFFICES ASSUME Init
             PROVE  IInv
  OBVIOUS
<1>1. list \in Seq(1 .. N) /\ chunks \in Seq(ChunkSet) /\ Len(list) = 0
  BY DEF Init
<1>2. TypeOK
  <2>1. start \in Nat /\ i \in 0 .. N /\ faults \in 0 .. MaxFaults /\ rejects \in Nat
    BY Constants DEF Init
  <2>2. noRPM \in BOOLEAN /\ expired \in BOOLEAN
    BY DEF Init
  <2> QED
    BY <1>1, <2>1, <2>2 DEF Init, TypeOK, PCs, ChunkSet
<1>3. Reading
  <2>1. list = UpTo(0)
    BY DEF Init, UpTo
  <2> QED
    BY <1>1, <2>1 DEF Init, Reading
<1>4. Naming /\ Latched /\ PiecesSuffice
  BY DEF Init, Naming, Latched, PiecesSuffice
<1> QED
  BY <1>2, <1>3, <1>4 DEF IInv

\* What a list of the first n objects is.
LEMMA ListIs ==
  ASSUME NEW n \in 0 .. N, NEW l, l = UpTo(n)
  PROVE  l = UpTo(Len(l)) /\ Len(l) = n /\ l \in Seq(1 .. N)
BY UpToType, Constants

\* Every step leaves the list in order and as long as the loops say: batches and
\* single elements go on where the list ends.
LEMMA ReadingKeeps ==
  ASSUME IInv, [Next]_vars
  PROVE  Reading' /\ list' \in Seq(1 .. N) /\ start' \in Nat
<1>1. /\ Reading /\ pc \in PCs /\ list \in Seq(1 .. N) /\ start \in Nat /\ start >= 1
      /\ i \in 0 .. N /\ list = UpTo(Len(list)) /\ Len(list) \in Nat
  BY DEF IInv, TypeOK, Reading
<1>2. /\ N \in Nat /\ IndexChunk \in Nat /\ IndexChunk >= 1
      /\ End = IF start + IndexChunk - 1 <= N THEN start + IndexChunk - 1 ELSE N
      /\ NextStart = start + IndexChunk
  BY Constants DEF End, Least, NextStart
<1>3. ASSUME UNCHANGED reading,
             \/ pc' \in {pc, "failed"} /\ (pc' = "index" => i' = i)
             \/ pc = "identify" /\ pc' = "whole"
             \/ pc = "whole" /\ pc' = "length"
             \/ pc = "metadata" /\ pc' \in {"name", "done"}
             \/ pc = "name" /\ pc' = "metadata"
      PROVE  Reading' /\ list' \in Seq(1 .. N) /\ start' \in Nat
  BY <1>1, <1>3 DEF Reading, reading, End, Least, UpTo
<1>4. CASE ReadWhole
  <2>1. list' = UpTo(N) /\ start' = start /\ pc' = "metadata"
    BY <1>4 DEF ReadWhole, Listed
  <2>2. list' = UpTo(Len(list')) /\ Len(list') = N /\ list' \in Seq(1 .. N)
    BY <1>2, <2>1, ListIs
  <2> QED
    BY <1>1, <2>1, <2>2 DEF Reading, UpTo
<1>5. CASE ReadLength
  <2>1. list' = list /\ start' = 1 /\ pc' = "indexes" /\ Len(list) = 0
    BY <1>1, <1>5 DEF ReadLength, Reading
  <2> QED
    BY <1>1, <1>2, <2>1 DEF Reading, UpTo, Least
<1>6. CASE ListComplete
  <2>1. list' = list /\ start' = start /\ pc' = "metadata" /\ Len(list) = N
    BY <1>1, <1>2, <1>6 DEF ListComplete, Listed, Reading, Least
  <2> QED
    BY <1>1, <2>1 DEF Reading, UpTo
<1>7. CASE ReadIndexes
  <2>1. /\ pc = "indexes" /\ pc' = "indexes" /\ start <= N /\ start' = start + IndexChunk
        /\ Len(list) = start - 1
        /\ list' = list \o [k \in 1 .. End - start + 1 |-> start + k - 1]
    BY <1>1, <1>2, <1>7 DEF ReadIndexes, Reading, Least
  <2>2. End \in start .. N /\ End = Least(start + IndexChunk - 1, N)
    BY <1>1, <1>2, <2>1 DEF End
  <2>3. list' = UpTo(End)
    <3>4. start - 1 \in Nat /\ End - start + 1 \in Nat
          /\ (start - 1) + (End - start + 1) = End
      BY <1>1, <2>2
    <3>1. PICK n \in Nat, d \in Nat : n = start - 1 /\ d = End - start + 1 /\ n + d = End
      BY <3>4, Zenon
    <3>2. [k \in 1 .. End - start + 1 |-> start + k - 1] = [k \in 1 .. d |-> n + k]
      BY <1>1, <3>1
    <3>3. list = UpTo(n)
      BY <1>1, <2>1, <3>1
    <3> QED
      BY <2>1, <3>1, <3>2, <3>3, UpToMore
  <2>4. list' = UpTo(Len(list')) /\ Len(list') = End /\ list' \in Seq(1 .. N)
    BY <1>1, <1>2, <2>2, <2>3, ListIs
  <2>5. start' \in Nat /\ start' >= 1 /\ End = Least(start' - 1, N)
    BY <1>1, <1>2, <2>1, <2>2
  <2> QED
    BY <1>2, <2>1, <2>4, <2>5 DEF Reading, UpTo, Least
<1>8. CASE ReadIndexesFails \/ SkipIndexes
  <2>1. /\ pc = "indexes" /\ start <= N /\ pc' \in {"index", "failed"}
        /\ i' = start /\ list' = list /\ start' = start /\ Len(list) = start - 1
    BY <1>1, <1>2, <1>8 DEF ReadIndexesFails, SkipIndexes, Reading, reading, Least
  <2>2. End' = End /\ start <= End
    BY <1>1, <1>2, <2>1 DEF End
  <2> QED
    BY <1>1, <2>1, <2>2 DEF Reading, UpTo
<1>9. CASE ReadIndex
  <2>1. pc = "index" /\ Len(list) = i - 1 /\ start <= i /\ i <= End /\ i \in Nat
        /\ list' = Append(list, i)
    BY <1>1, <1>9 DEF ReadIndex, Reading
  <2>2. list' = UpTo(i)
    <3>1. PICK n \in Nat : n = i - 1 /\ n + 1 = i
      BY <1>1, <2>1
    <3> QED
      BY <1>1, <2>1, <3>1, UpToNext
  <2>3. i \in 0 .. N
    BY <1>1
  <2>4. list' = UpTo(Len(list')) /\ Len(list') = i /\ list' \in Seq(1 .. N)
    BY <2>2, <2>3, ListIs
  <2>5. CASE i < End
    <3>1. i' = i + 1 /\ pc' = pc /\ start' = start
      BY <1>9, <2>5 DEF ReadIndex
    <3>2. End' = End /\ End \in Nat
      BY <1>1, <1>2, <3>1 DEF End
    <3> QED
      BY <1>1, <2>1, <2>4, <2>5, <3>1, <3>2 DEF Reading, UpTo
  <2>6. CASE ~ (i < End)
    <3>1. pc' = "indexes" /\ start' = start + IndexChunk
      BY <1>9, <2>6 DEF ReadIndex, NextStart
    <3>2. i = Least(start' - 1, N) /\ start' \in Nat /\ start' >= 1
      BY <1>1, <1>2, <2>1, <2>6, <3>1 DEF Least
    <3> QED
      BY <2>4, <3>1, <3>2 DEF Reading, UpTo, Least
  <2> QED
    BY <2>5, <2>6
<1>10. CASE Identify \/ Unidentified \/ ReadWholeFails \/ ReadIndexFails \/ Finish
            \/ Expire \/ UNCHANGED vars
  BY <1>3, <1>10 DEF Identify, Unidentified, ReadWholeFails, ReadIndexFails, Finish,
                     Expire, vars
<1>11. CASE readMetadata
  BY <1>3, <1>11 DEF readMetadata, ReadMetadata, ReadMetadataFails, SkipMetadata,
                     ReadName, ReadNameFails, NextName
<1> QED
  BY <1>4, <1>5, <1>6, <1>7, <1>8, <1>9, <1>10, <1>11 DEF Next, load, readObjectList

\* Every step leaves rejects and noRPM in agreement: noteRPMFailure is reached
\* only while noRPM is false.
LEMMA LatchedKeeps ==
  ASSUME IInv, [Next]_vars
  PROVE  Latched' /\ noRPM' \in BOOLEAN /\ rejects' \in Nat
<1>1. Latched /\ noRPM \in BOOLEAN /\ rejects \in Nat
  BY DEF IInv, TypeOK
<1>2. CASE UNCHANGED <<noRPM, rejects>>
  BY <1>1, <1>2 DEF Latched
<1>3. ASSUME ~ noRPM, NEW e \in Errors, Latch(e)
      PROVE  Latched' /\ noRPM' \in BOOLEAN /\ rejects' \in Nat
  <2>1. rejects = 0
    BY <1>1, <1>3 DEF Latched
  <2>2. CASE e = "unrecognized"
    <3>1. noRPM' = TRUE
      BY <1>3, <2>2, Zenon DEF Latch
    <3>2. rejects' = 1
      BY <1>3, <2>1, <2>2 DEF Latch
    <3> QED
      BY <3>1, <3>2 DEF Latched
  <2>3. CASE e # "unrecognized"
    BY <1>3, <2>1, <2>3 DEF Latch, Latched
  <2> QED
    BY <2>2, <2>3
<1>4. CASE ReadIndexesFails
  BY <1>3, <1>4 DEF ReadIndexesFails
<1>5. CASE ReadMetadataFails
  BY <1>2, <1>3, <1>5 DEF ReadMetadataFails
<1> QED
  BY <1>2, <1>4, <1>5
  DEF Next, load, readObjectList, readMetadata, vars, Identify, Unidentified, ReadWhole,
      ReadWholeFails, ReadLength, ListComplete, ReadIndexes, SkipIndexes, ReadIndex,
      ReadIndexFails, ReadMetadata, SkipMetadata, ReadName, ReadNameFails, Finish, Expire

\* Every step that ends the enumeration has met a fault or the end of the
\* context: a reply that does not fit, or an unknown service, is retried.
LEMMA PiecesKeeps ==
  ASSUME IInv, [Next]_vars
  PROVE  PiecesSuffice' /\ faults' \in 0 .. MaxFaults /\ expired' \in BOOLEAN
<1>1. /\ PiecesSuffice /\ faults \in 0 .. MaxFaults /\ expired \in BOOLEAN /\ MaxFaults \in Nat
  BY Constants DEF IInv, TypeOK
<1>2. CASE UNCHANGED <<expired, faults>> /\ pc' # "failed"
  BY <1>1, <1>2 DEF PiecesSuffice
<1>3. ASSUME NEW e \in Errors, Fault(e)
      PROVE  faults' \in 0 .. MaxFaults /\ (expired \/ faults' > 0)
  BY <1>1, <1>3 DEF Fault
<1>4. CASE Unidentified \/ ReadIndexFails \/ ReadNameFails
  <2>1. faults' \in 0 .. MaxFaults /\ (expired \/ faults' > 0) /\ expired' = expired
    BY <1>3, <1>4 DEF Unidentified, ReadIndexFails, ReadNameFails
  <2> QED
    BY <1>1, <2>1 DEF PiecesSuffice
<1>5. ASSUME NEW e \in Errors, NEW big, FailsRPM(e, big) \/ Fails(e, big)
      PROVE  /\ faults' \in 0 .. MaxFaults
             /\ (expired \/ faults' > 0) \/ e = "piecewise" \/ e = "unrecognized"
  BY <1>1, <1>3, <1>5 DEF FailsRPM, Fails
<1>6. CASE ReadWholeFails
  <2>1. PICK e \in Errors : /\ Fails(e, N > dev.elements)
                            /\ pc' = IF retryPiecewise(e) THEN "length" ELSE "failed"
    BY <1>6 DEF ReadWholeFails
  <2>2. expired' = expired
    BY <1>6 DEF ReadWholeFails
  <2>3. faults' \in 0 .. MaxFaults /\ (expired \/ faults' > 0 \/ e = "piecewise")
    BY <1>1, <1>3, <2>1 DEF Fails
  <2> QED
    BY <1>1, <2>1, <2>2, <2>3 DEF retryPiecewise, PiecesSuffice
<1>7. CASE ReadIndexesFails
  <2>1. PICK e \in Errors : /\ FailsRPM(e, End - start + 1 > dev.elements)
                            /\ pc' = IF noteRPMFailure(e) THEN "index" ELSE "failed"
    BY <1>7 DEF ReadIndexesFails
  <2>2. expired' = expired
    BY <1>7 DEF ReadIndexesFails
  <2>3. faults' \in 0 .. MaxFaults
        /\ (expired \/ faults' > 0 \/ e = "piecewise" \/ e = "unrecognized")
    BY <1>5, <2>1
  <2> QED
    BY <1>1, <2>1, <2>2, <2>3 DEF noteRPMFailure, retryPiecewise, PiecesSuffice
<1>8. CASE ReadMetadataFails
  <2>1. PICK e \in Errors :
          /\ FailsRPM(e, Size(Chunk) > dev.objects)
          /\ IF expired THEN pc' = "failed"
             ELSE IF Divisible(e) THEN pc' = pc ELSE pc' = "name"
    BY <1>8 DEF ReadMetadataFails
  <2>2. expired' = expired /\ pc = "metadata"
    BY <1>8 DEF ReadMetadataFails
  <2>3. faults' \in 0 .. MaxFaults
    BY <1>5, <2>1
  <2> QED
    BY <1>1, <2>1, <2>2, <2>3 DEF PiecesSuffice
<1>9. CASE Expire
  BY <1>1, <1>9 DEF Expire, PiecesSuffice
<1>10. CASE UNCHANGED vars
  BY <1>1, <1>10 DEF vars, PiecesSuffice
<1>11. CASE \/ Identify \/ ReadWhole \/ ReadLength \/ ListComplete \/ ReadIndexes
            \/ SkipIndexes \/ ReadIndex \/ ReadMetadata \/ SkipMetadata \/ ReadName \/ Finish
  BY <1>2, <1>11 DEF Identify, ReadWhole, ReadLength, ListComplete, ReadIndexes, SkipIndexes,
     ReadIndex, ReadMetadata, SkipMetadata, ReadName, Finish, Listed, NextName
<1> QED
  BY <1>4, <1>6, <1>7, <1>8, <1>9, <1>10, <1>11 DEF Next, load, readObjectList, readMetadata

\* The chunks left, their first, and the objects in it.
LEMMA FirstChunk ==
  ASSUME IInv, pc \in {"metadata", "name"}, chunks # << >>
  PROVE  /\ Chunk \in ChunkSet /\ Chunk.lo \in 1 .. N /\ Chunk.hi \in 0 .. N
         /\ Chunk.lo <= Chunk.hi /\ chunks \in Seq(ChunkSet) /\ Chain(chunks)
         /\ Tail(chunks) \in Seq(ChunkSet) /\ Chain(Tail(chunks))
         /\ (IF Tail(chunks) = << >> THEN N ELSE Head(Tail(chunks)).lo - 1) = Chunk.hi
<1>1. chunks \in Seq(ChunkSet) /\ Chain(chunks)
  BY DEF IInv, TypeOK, Naming, ChunkSet
<1>2. /\ Chunk \in ChunkSet /\ Chunk.lo <= Chunk.hi
      /\ Tail(chunks) \in Seq(ChunkSet) /\ Chain(Tail(chunks))
      /\ Tail(chunks) = << >> => Chunk.hi = N
      /\ Tail(chunks) # << >> => Head(Tail(chunks)).lo = Chunk.hi + 1
  BY <1>1, ChainTail DEF Chunk
<1>3. Chunk.lo \in 1 .. N /\ Chunk.hi \in 0 .. N
  BY <1>2 DEF ChunkSet
<1>4. (IF Tail(chunks) = << >> THEN N ELSE Head(Tail(chunks)).lo - 1) = Chunk.hi
  <2>1. PICK l, t : l = Head(Tail(chunks)).lo /\ t = Tail(chunks)
    OBVIOUS
  <2>2. (t = << >> => Chunk.hi = N) /\ (t # << >> => l = Chunk.hi + 1)
    BY <1>2, <2>1, Zenon
  <2>3. (IF t = << >> THEN N ELSE l - 1) = Chunk.hi
    BY <1>3, <2>2, Constants
  <2> QED
    BY <2>1, <2>3, Zenon
<1> QED
  BY <1>1, <1>2, <1>3, <1>4

-----------------------------------------------------------------------------
(* Steps of readMetadata                                                   *)

\* Where load stands before there is a list.
Early == {"identify", "whole", "length", "indexes", "index"}

\* The types of what readMetadata works on.
NamingTypes ==
  /\ dev' = dev /\ pc' \in PCs /\ i' \in 0 .. N
  /\ chunks' \in Seq(ChunkSet) /\ named' \subseteq 1 .. N /\ spoilt' \subseteq 1 .. N

\* The end of an iteration for one object that has been dealt with leaves the
\* next object, or the chunks after this one.
LEMMA NextNameKeeps ==
  ASSUME IInv, pc = "name", NextName, dev' = dev,
         named' = ((1 .. i) \ dev.unnamed) \ spoilt', spoilt' \subseteq 1 .. i
  PROVE  Naming' /\ NamingTypes
<1>1. chunks # << >> /\ i \in Chunk.lo .. Chunk.hi
  BY DEF IInv, Naming, Members
<1>2. /\ Chunk.lo \in 1 .. N /\ Chunk.hi \in 0 .. N
      /\ chunks \in Seq(ChunkSet) /\ Chain(chunks)
      /\ Tail(chunks) \in Seq(ChunkSet) /\ Chain(Tail(chunks))
      /\ (IF Tail(chunks) = << >> THEN N ELSE Head(Tail(chunks)).lo - 1) = Chunk.hi
  BY <1>1, FirstChunk
<1>3. i \in 1 .. N
  BY <1>1, <1>2, Constants
<1>4. named' \subseteq 1 .. N /\ spoilt' \subseteq 1 .. N
  BY <1>3, Constants
<1>5. CASE i < Chunk.hi
  <2>1. i' = i + 1 /\ pc' = "name" /\ chunks' = chunks
    BY <1>5 DEF NextName
  <2>2. i' \in Chunk.lo .. Chunk.hi /\ i' \in 0 .. N /\ i' - 1 = i
    <3>1. PICK lo \in 1 .. N, hi \in 0 .. N : lo = Chunk.lo /\ hi = Chunk.hi
      BY <1>2, Zenon
    <3>2. i \in lo .. hi /\ i < hi
      BY <1>1, <1>5, <3>1, Zenon
    <3>3. i' \in lo .. hi /\ i' \in 0 .. N /\ i' - 1 = i
      BY <2>1, <3>2, Constants
    <3> QED
      BY <3>1, <3>3, Zenon
  <2>3. Chunk' = Chunk /\ Chain(chunks)'
    BY <1>2, <2>1 DEF Chunk, Chain
  <2>4. Through(i - 1)'
    BY <2>2 DEF Through
  <2>5. Naming'
    BY <1>1, <2>1, <2>2, <2>3, <2>4 DEF Naming, Members
  <2> QED
    BY <1>2, <1>4, <2>1, <2>2, <2>5 DEF NamingTypes, PCs
<1>6. CASE ~ (i < Chunk.hi)
  <2>1. i' = i /\ pc' = "metadata" /\ chunks' = Tail(chunks) /\ i = Chunk.hi
    BY <1>1, <1>2, <1>6 DEF NextName
  <2>2. PICK n : n = (IF Tail(chunks) = << >> THEN N ELSE Head(Tail(chunks)).lo - 1)
    OBVIOUS
  <2>3. n = i /\ (IF chunks = << >> THEN N ELSE Chunk.lo - 1)' = n
    BY <1>2, <2>1, <2>2, Zenon DEF Chunk
  <2>4. Through(IF chunks = << >> THEN N ELSE Chunk.lo - 1)'
    BY <2>3 DEF Through
  <2>5. Chain(chunks)'
    BY <1>2, <2>1 DEF Chain
  <2>6. Naming'
    BY <2>1, <2>4, <2>5 DEF Naming
  <2> QED
    BY <1>2, <1>3, <1>4, <2>1, <2>6 DEF NamingTypes, PCs
<1> QED
  BY <1>5, <1>6

\* The metadata of a whole chunk, or a fallback, keeps the chunks in step with
\* what has been named.
LEMMA ChunkKeeps ==
  ASSUME IInv, ReadMetadata \/ ReadMetadataFails \/ SkipMetadata
  PROVE  Naming' /\ NamingTypes
<1>1. pc = "metadata" /\ chunks # << >> /\ dev' = dev
  BY DEF ReadMetadata, ReadMetadataFails, SkipMetadata
<1>2. /\ Chunk.lo \in 1 .. N /\ Chunk.hi \in 0 .. N /\ Chunk.lo <= Chunk.hi
      /\ chunks \in Seq(ChunkSet) /\ Chain(chunks)
      /\ Tail(chunks) \in Seq(ChunkSet) /\ Chain(Tail(chunks))
      /\ (IF Tail(chunks) = << >> THEN N ELSE Head(Tail(chunks)).lo - 1) = Chunk.hi
  BY <1>1, FirstChunk
<1>3. /\ named = ((1 .. Chunk.lo - 1) \ dev.unnamed) \ spoilt
      /\ spoilt \subseteq 1 .. Chunk.lo - 1
      /\ named \subseteq 1 .. N /\ spoilt \subseteq 1 .. N /\ i \in 0 .. N
  BY <1>1 DEF IInv, TypeOK, Naming, Through
<1>4. ASSUME pc' = "name", i' = Chunk.lo, UNCHANGED naming
      PROVE  Naming' /\ NamingTypes
  <2>1. i' \in 0 .. N /\ i' \in Chunk.lo .. Chunk.hi
    BY <1>2, <1>4
  <2>2. chunks' = chunks /\ named' = named /\ spoilt' = spoilt /\ Chunk' = Chunk
    BY <1>4 DEF naming, Chunk
  <2>3. Through(i - 1)'
    BY <1>1, <1>3, <1>4, <2>2 DEF Through
  <2>4. Chain(chunks)'
    BY <1>2, <2>2 DEF Chain
  <2>5. Naming'
    BY <1>1, <1>4, <2>1, <2>2, <2>3, <2>4 DEF Naming, Members
  <2> QED
    BY <1>1, <1>2, <1>3, <1>4, <2>1, <2>2, <2>5 DEF NamingTypes, PCs
<1>5. CASE SkipMetadata
  BY <1>4, <1>5 DEF SkipMetadata
<1>6. CASE ReadMetadata
  <2>1. /\ named' = named \cup ((Chunk.lo .. Chunk.hi) \ dev.unnamed)
        /\ chunks' = Tail(chunks) /\ pc' = "metadata" /\ i' = i /\ spoilt' = spoilt
    BY <1>6 DEF ReadMetadata, Members
  <2>2. named' = ((1 .. Chunk.hi) \ dev.unnamed) \ spoilt /\ spoilt \subseteq 1 .. Chunk.hi
    BY <1>2, <1>3, <2>1, Constants
  <2>3. PICK n : n = (IF Tail(chunks) = << >> THEN N ELSE Head(Tail(chunks)).lo - 1)
    OBVIOUS
  <2>4. n = Chunk.hi /\ (IF chunks = << >> THEN N ELSE Chunk.lo - 1)' = n
    BY <1>2, <2>1, <2>3, Zenon DEF Chunk
  <2>5. Through(IF chunks = << >> THEN N ELSE Chunk.lo - 1)'
    BY <1>1, <2>1, <2>2, <2>4 DEF Through
  <2>6. Chain(chunks)'
    BY <1>2, <2>1 DEF Chain
  <2>7. Naming'
    BY <2>1, <2>5, <2>6 DEF Naming
  <2>8. named' \subseteq 1 .. N
    BY <1>2, <2>2, Constants
  <2> QED
    BY <1>1, <1>2, <1>3, <2>1, <2>7, <2>8 DEF NamingTypes, PCs
<1>7. CASE ReadMetadataFails
  <2>1. i' = Chunk.lo /\ named' = named /\ spoilt' = spoilt /\ i' \in 0 .. N
    BY <1>2, <1>7 DEF ReadMetadataFails
  <2>2. CASE pc' = "failed" /\ chunks' = chunks
    BY <1>1, <1>2, <1>3, <2>1, <2>2 DEF Naming, NamingTypes, PCs
  <2>3. CASE pc' = "name" /\ chunks' = chunks
    BY <1>4, <2>1, <2>3 DEF naming
  <2>4. CASE pc' = pc /\ chunks' = Halves(Chunk) \o Tail(chunks) /\ Size(Chunk) > 1
    <3>1. PICK t : t = Halves(Chunk) \o Tail(chunks)
      OBVIOUS
    <3>2. t \in Seq(ChunkSet) /\ Chain(t) /\ t # << >> /\ Head(t).lo = Chunk.lo
      BY <1>1, <1>2, <2>4, <3>1, ChainHalves DEF Chunk
    <3>3. chunks' = t
      BY <2>4, <3>1
    <3>4. Chain(chunks)' /\ (IF chunks = << >> THEN N ELSE Chunk.lo - 1)' = Chunk.lo - 1
      BY <3>2, <3>3 DEF Chunk, Chain
    <3>5. Through(IF chunks = << >> THEN N ELSE Chunk.lo - 1)'
      BY <1>1, <1>3, <2>1, <3>4 DEF Through
    <3>6. Naming'
      BY <1>1, <2>4, <3>4, <3>5 DEF Naming
    <3> QED
      BY <1>1, <1>3, <2>1, <2>4, <3>2, <3>3, <3>6 DEF NamingTypes, PCs
  <2> QED
    BY <1>7, <2>2, <2>3, <2>4 DEF ReadMetadataFails, Divisible
<1> QED
  BY <1>5, <1>6, <1>7

\* A step of the object-list loops names nothing.
LEMMA EarlyKeeps ==
  ASSUME IInv, pc \in Early, pc' \in Early \cup {"failed"}, dev' = dev, UNCHANGED naming,
         i' \in 0 .. N
  PROVE  Naming' /\ NamingTypes
<1>1. /\ named = {} /\ spoilt = {} /\ chunks \in Seq(ChunkSet)
      /\ named \subseteq 1 .. N /\ spoilt \subseteq 1 .. N
  BY DEF IInv, TypeOK, Naming, Early, ChunkSet
<1>2. chunks' = chunks /\ named' = named /\ spoilt' = spoilt
  BY DEF naming
<1>3. Naming'
  BY <1>1, <1>2 DEF Naming, Early
<1> QED
  BY <1>1, <1>2, <1>3 DEF NamingTypes, Early, PCs

\* A complete list is cut into chunks that cover it, of which nothing is named.
LEMMA ListedKeeps ==
  ASSUME IInv, pc \in Early, pc' = "metadata", chunks' = ChunksOf(N),
         UNCHANGED <<dev, i, named, spoilt>>
  PROVE  Naming' /\ NamingTypes
<1>1. named = {} /\ spoilt = {} /\ i \in 0 .. N
  BY DEF IInv, TypeOK, Naming, Early
<1>2. PICK s : s = ChunksOf(N)
  OBVIOUS
<1>3. /\ s \in Seq(ChunkSet) /\ Chain(s)
      /\ IF N = 0 THEN s = << >> ELSE s # << >> /\ Head(s).lo = 1
  BY <1>2, ChunksCover
<1>4. chunks' = s
  BY <1>2
<1>5. (IF chunks = << >> THEN N ELSE Chunk.lo - 1)' = 0
  BY <1>3, <1>4 DEF Chunk
<1>6. Through(IF chunks = << >> THEN N ELSE Chunk.lo - 1)'
  BY <1>1, <1>5 DEF Through
<1>7. Chain(chunks)'
  BY <1>3, <1>4 DEF Chain
<1>8. Naming'
  BY <1>6, <1>7 DEF Naming
<1> QED
  BY <1>1, <1>3, <1>4, <1>8 DEF NamingTypes, PCs

\* One object's own name request deals with that object: it is named, has no
\* name, or is omitted.
LEMMA NameKeeps ==
  ASSUME IInv, ReadName \/ ReadNameFails
  PROVE  Naming' /\ NamingTypes
<1>1. pc = "name" /\ dev' = dev
  BY DEF ReadName, ReadNameFails
<1>2. /\ chunks # << >> /\ chunks \in Seq(ChunkSet) /\ i \in 0 .. N
      /\ named = ((1 .. i - 1) \ dev.unnamed) \ spoilt
      /\ spoilt \subseteq 1 .. i - 1
      /\ named \subseteq 1 .. N /\ spoilt \subseteq 1 .. N
      /\ i \in Members
  BY <1>1 DEF IInv, TypeOK, Naming, Through, ChunkSet
<1>3. i \in Nat /\ i >= 1 /\ 1 .. i = (1 .. i - 1) \cup {i} /\ i \notin 1 .. i - 1
  <2>1. Chunk.lo \in 1 .. N /\ Chunk.hi \in 0 .. N
    BY <1>1, <1>2, FirstChunk
  <2>2. i >= 1
    BY <1>2, <2>1 DEF Members
  <2> QED
    BY <1>2, <2>2
<1>4. CASE ReadName
  <2>1. named' = named \cup ({i} \ dev.unnamed) /\ spoilt' = spoilt /\ NextName
    BY <1>4 DEF ReadName
  <2>2. named' = ((1 .. i) \ dev.unnamed) \ spoilt' /\ spoilt' \subseteq 1 .. i
    BY <1>2, <1>3, <2>1
  <2> QED
    BY <1>1, <2>1, <2>2, NextNameKeeps
<1>5. CASE ReadNameFails /\ expired
  <2>1. /\ pc' = "failed" /\ i' = i /\ chunks' = chunks /\ spoilt' = spoilt
        /\ named' = named
    BY <1>5 DEF ReadNameFails
  <2> QED
    BY <1>1, <1>2, <2>1 DEF Naming, NamingTypes, PCs
<1>6. CASE ReadNameFails /\ ~ expired
  <2>1. spoilt' = spoilt \cup {i} /\ named' = named /\ NextName
    BY <1>6 DEF ReadNameFails
  <2>2. named' = ((1 .. i) \ dev.unnamed) \ spoilt' /\ spoilt' \subseteq 1 .. i
    BY <1>2, <1>3, <2>1
  <2> QED
    BY <1>1, <2>1, <2>2, NextNameKeeps
<1> QED
  BY <1>4, <1>5, <1>6

\* Every step keeps what is named in agreement with the chunks left.
LEMMA NamingKeeps ==
  ASSUME IInv, [Next]_vars
  PROVE  Naming' /\ NamingTypes
<1>1. /\ start \in Nat /\ i \in 0 .. N /\ N \in Nat /\ IndexChunk \in Nat
      /\ pc \in PCs /\ chunks \in Seq(ChunkSet)
      /\ named \subseteq 1 .. N /\ spoilt \subseteq 1 .. N /\ Naming
  BY Constants DEF IInv, TypeOK, ChunkSet
<1>2. CASE Identify \/ Unidentified \/ ReadWholeFails \/ ReadLength \/ ReadIndexFails
           \/ ReadIndexes
  <2>1. pc \in Early /\ pc' \in Early \cup {"failed"} /\ dev' = dev /\ i' = i
        /\ UNCHANGED naming
    BY <1>2 DEF Identify, Unidentified, ReadWholeFails, ReadLength, ReadIndexFails,
                ReadIndexes, Early
  <2> QED
    BY <1>1, <2>1, EarlyKeeps
<1>3. CASE ReadIndexesFails \/ SkipIndexes
  <2>1. pc \in Early /\ pc' \in Early \cup {"failed"} /\ dev' = dev /\ i' = start
        /\ start <= N /\ UNCHANGED naming
    BY <1>3 DEF ReadIndexesFails, SkipIndexes, Early
  <2>2. i' \in 0 .. N
    BY <1>1, <2>1
  <2> QED
    BY <2>1, <2>2, EarlyKeeps
<1>4. CASE ReadIndex
  <2>1. pc \in Early /\ pc' \in Early \cup {"failed"} /\ dev' = dev /\ UNCHANGED naming
        /\ (i' = i \/ (i < End /\ i' = i + 1))
    BY <1>4 DEF ReadIndex, Early
  <2>2. End \in Int /\ End <= N
    BY <1>1 DEF End, Least
  <2>3. i' \in 0 .. N
    BY <1>1, <2>1, <2>2
  <2> QED
    BY <2>1, <2>3, EarlyKeeps
<1>5. CASE ReadWhole \/ ListComplete
  <2>1. PICK l : Listed(l) /\ (l = UpTo(N) \/ (ListComplete /\ l = list))
    BY <1>5 DEF ReadWhole, ListComplete
  <2>2. Len(l) = N
    <3>1. CASE l = UpTo(N)
      BY <1>1, <3>1, UpToType
    <3>2. CASE ListComplete /\ l = list
      BY <1>1, <3>2 DEF ListComplete, IInv, Reading, Least
    <3> QED
      BY <2>1, <3>1, <3>2
  <2>3. pc \in Early /\ pc' = "metadata" /\ chunks' = ChunksOf(N)
    BY <1>5, <2>1, <2>2 DEF ReadWhole, ListComplete, Listed, Early
  <2>4. UNCHANGED <<dev, i, named, spoilt>>
    BY <1>5 DEF ReadWhole, ListComplete
  <2> QED
    BY <2>3, <2>4, ListedKeeps
<1>6. CASE readMetadata
  BY <1>6, ChunkKeeps, NameKeeps DEF readMetadata
<1>7. CASE Finish
  <2>1. /\ pc = "metadata" /\ pc' = "done" /\ chunks = << >>
        /\ UNCHANGED <<dev, i, chunks, named, spoilt>>
    BY <1>7 DEF Finish, naming
  <2>2. Through(N)
    BY <1>1, <2>1 DEF Naming
  <2>3. Through(N)'
    BY <2>1, <2>2 DEF Through
  <2>4. Naming'
    BY <2>1, <2>3 DEF Naming
  <2> QED
    BY <1>1, <2>1, <2>4 DEF NamingTypes, PCs
<1>8. CASE Expire \/ UNCHANGED vars
  <2>1. UNCHANGED <<dev, pc, i, chunks, named, spoilt>>
    BY <1>8 DEF Expire, vars, naming
  <2>2. Naming'
    BY <1>1, <2>1 DEF Naming, Through, Chain, Chunk, Members
  <2> QED
    BY <1>1, <2>1, <2>2 DEF NamingTypes
<1> QED
  BY <1>2, <1>3, <1>4, <1>5, <1>6, <1>7, <1>8 DEF Next, load, readObjectList

-----------------------------------------------------------------------------
(* The invariant and what follows from it                                  *)

\* Every step of an enumeration keeps the invariant.
LEMMA IInvNext == IInv /\ [Next]_vars => IInv'
<1> SUFFICES ASSUME IInv, [Next]_vars
             PROVE  IInv'
  OBVIOUS
<1>1. Reading' /\ list' \in Seq(1 .. N) /\ start' \in Nat
  BY ReadingKeeps
<1>2. Latched' /\ noRPM' \in BOOLEAN /\ rejects' \in Nat
  BY LatchedKeeps
<1>3. PiecesSuffice' /\ faults' \in 0 .. MaxFaults /\ expired' \in BOOLEAN
  BY PiecesKeeps
<1>4. Naming' /\ NamingTypes
  BY NamingKeeps
<1>5. dev' \in [rpm : BOOLEAN, elements : 1 .. N + 1, objects : 0 .. RpmChunk,
                unnamed : Nameless]
  BY <1>4 DEF IInv, TypeOK, NamingTypes
<1>6. TypeOK'
  BY <1>1, <1>2, <1>3, <1>4, <1>5 DEF TypeOK, NamingTypes, ChunkSet
<1> QED
  BY <1>1, <1>2, <1>3, <1>4, <1>6 DEF IInv

\* The invariant holds throughout an enumeration.
LEMMA Invariance == Spec => []IInv
BY IInvInit, IInvNext, PTL DEF Spec

\* The state of an enumeration has its type: what is named, omitted or still to
\* be read lies within the object-list (load).
THEOREM TypeCorrect == Spec => []TypeOK
<1>1. IInv => TypeOK
  BY DEF IInv
<1> QED
  BY <1>1, Invariance, PTL

\* readObjectList reads the list complete, in order and without repetition, for
\* every length, batch size and limit on replies, wherever a batch fails.
THEOREM ListOrdered == Spec => []ListInOrder
<1>1. IInv => ListInOrder
  BY DEF IInv, Reading, ListInOrder
<1> QED
  BY <1>1, Invariance, PTL

\* load leaves out the objects that have no name, and those whose own name
\* request failed, and no others, however readMetadata halved and fell back.
THEOREM NoOtherOmitted == Spec => []NothingElseOmitted
<1>1. IInv => NothingElseOmitted
  BY DEF IInv, Naming, Through, NothingElseOmitted
<1> QED
  BY <1>1, Invariance, PTL

\* noteRPMFailure sees at most one Reject of an unknown service in an
\* enumeration.
THEOREM OneReject == Spec => []RejectedOnce
<1>1. IInv => RejectedOnce
  BY DEF IInv, Latched, RejectedOnce
<1> QED
  BY <1>1, Invariance, PTL

\* An enumeration fails only if its context ended or a request failed without a
\* reason of the device's: no limit on replies and no missing service is final.
THEOREM FaultsOnly == Spec => []PiecesSuffice
<1>1. IInv => PiecesSuffice
  BY DEF IInv
<1> QED
  BY <1>1, Invariance, PTL
=============================================================================
