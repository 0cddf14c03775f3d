------------------------------- MODULE Loader -------------------------------
(***************************************************************************)
(* One enumeration of a device: varCache.load and the loader's             *)
(* readObjectList, readIndexes and readMetadata (internal/api/varcache.go).*)
(*                                                                         *)
(* Each action is one exchange with the device, and what the loader makes  *)
(* of its outcome.  A device may not know ReadPropertyMultiple, may fit    *)
(* only so many list elements or objects into a reply, and may have        *)
(* objects without a readable name; requests may also fail for no reason   *)
(* of the device's, and the enumeration's context may end.                 *)
(*                                                                         *)
(* An object is represented by its position in the object-list, which does *)
(* not change meanwhile.  Errors are told apart as far as the loader does: *)
(* "piecewise" (an Abort, or no answer) may go away with a smaller         *)
(* request, "unrecognized" is the Reject of an unknown service, and        *)
(* "other" is all the rest, the context's error included.                  *)
(***************************************************************************)
EXTENDS Integers, Sequences

CONSTANTS
  N,           \* length of the object-list
  IndexChunk,  \* indexChunk: 50
  RpmChunk,    \* rpmChunk: 16
  Nameless,    \* sets of objects a device may have no name for
  MaxFaults    \* bound on the requests that fail without a reason

\* The code's uint32 indexes do not wrap: no device has four billion objects.
ASSUME LoaderAssumption ==
  /\ N \in Nat
  /\ IndexChunk \in Nat \ {0}
  /\ RpmChunk \in Nat \ {0}
  /\ Nameless \subseteq SUBSET (1 .. N)
  /\ MaxFaults \in Nat

VARIABLES
  dev,      \* the device: rpm (it knows ReadPropertyMultiple), elements and
            \* objects (how many fit into a reply), unnamed
  pc,       \* where load stands
  list,     \* the object-list as far as it has been read
  start,    \* readObjectList's loop variable
  i,        \* the loop variable of the one-by-one loops
  chunks,   \* the chunks of metadata still to be read, in order
  named,    \* the objects whose Name has been filled in
  noRPM,    \* loader.noRPM
  expired,  \* the enumeration's context has ended
  faults,   \* requests failed without a reason
  rejects,  \* times the device said it does not know ReadPropertyMultiple
  spoilt    \* objects whose own object-name request was such a failure

reading == <<list, start>>
naming == <<chunks, named, spoilt>>
vars == <<dev, pc, reading, i, naming, noRPM, expired, faults, rejects>>
-----------------------------------------------------------------------------
PCs == {"identify", "whole", "length", "indexes", "index", "metadata", "name",
        "done", "failed"}
Errors == {"piecewise", "unrecognized", "other"}

Least(a, b) == IF a <= b THEN a ELSE b
Size(c) == c.hi - c.lo + 1
UpTo(n) == [k \in 1 .. n |-> k]

\* Line 251: the last index of the chunk that begins at start.
End == Least(start + IndexChunk - 1, N)

\* Mutant of NextStart: chunks overlap.
NextStartOverlap == IF IndexChunk > 1 THEN start + IndexChunk - 1 ELSE start + 1

NextStart == start + IndexChunk

\* Lines 193-194: load's chunks of a list of n.
ChunksOf(n) ==
  [k \in 1 .. ((n + RpmChunk - 1) \div RpmChunk) |->
     [lo |-> (k - 1) * RpmChunk + 1, hi |-> Least(k * RpmChunk, n)]]

\* Mutant of Halves: the element in the middle is lost.
HalvesApart(c) ==
  LET mid == Size(c) \div 2
  IN <<[lo |-> c.lo, hi |-> c.lo + mid - 1], [lo |-> c.lo + mid + 1, hi |-> c.hi]>>

\* Lines 310-314.
Halves(c) ==
  LET mid == Size(c) \div 2
  IN <<[lo |-> c.lo, hi |-> c.lo + mid - 1], [lo |-> c.lo + mid, hi |-> c.hi]>>

\* Mutant of retryPiecewise: a reply that does not fit is final.
retryNever(e) == FALSE

retryPiecewise(e) == ~ expired /\ e = "piecewise"

\* noteRPMFailure reports whether a smaller request may succeed ...
noteRPMFailure(e) == e = "unrecognized" \/ retryPiecewise(e)

\* Mutant of Latch: it does not record what the device said.
LatchNot(e) ==
  /\ noRPM' = noRPM
  /\ rejects' = IF e = "unrecognized" THEN rejects + 1 ELSE rejects

\* ... and records a device that does not know the service.
Latch(e) ==
  /\ noRPM' = (noRPM \/ e = "unrecognized")
  /\ rejects' = IF e = "unrecognized" THEN rejects + 1 ELSE rejects

Init ==
  /\ dev \in [rpm : BOOLEAN, elements : 1 .. N + 1, objects : 0 .. RpmChunk,
              unnamed : Nameless]
  /\ pc = "identify"
  /\ list = << >>
  /\ start = 1
  /\ i = 0
  /\ chunks = << >>
  /\ named = {}
  /\ noRPM = FALSE
  /\ expired = FALSE
  /\ faults = 0
  /\ rejects = 0
  /\ spoilt = {}
-----------------------------------------------------------------------------
(* Outcomes of an exchange *)

\* A request fails with error e for no reason of the device's, or because the
\* context has ended.
Fault(e) ==
  \/ /\ expired
     /\ e = "other"
     /\ UNCHANGED faults
  \/ /\ e \in {"piecewise", "other"}
     /\ faults < MaxFaults
     /\ faults' = faults + 1

\* A request whose reply does not fit if big.
Fails(e, big) ==
  \/ Fault(e)
  \/ big /\ e = "piecewise" /\ UNCHANGED faults

\* The same for ReadPropertyMultiple, which the device may not know.
FailsRPM(e, big) ==
  \/ Fails(e, dev.rpm /\ big)
  \/ ~ dev.rpm /\ e = "unrecognized" /\ UNCHANGED faults
-----------------------------------------------------------------------------
(* Identification and object-list *)

\* Line 177: DeviceInstance succeeds.
Identify ==
  /\ pc = "identify"
  /\ pc' = "whole"
  /\ UNCHANGED <<dev, reading, i, naming, noRPM, expired, faults, rejects>>

\* Lines 178-180 and 241-243, with 183-185: the error ends the enumeration.
Unidentified ==
  /\ pc \in {"identify", "length"}
  /\ \E e \in Errors : Fault(e)
  /\ pc' = "failed"
  /\ UNCHANGED <<dev, reading, i, naming, noRPM, expired, rejects>>

\* The object-list is complete (lines 187-193).
Listed(l) ==
  /\ list' = l
  /\ chunks' = ChunksOf(Len(l))
  /\ pc' = "metadata"

\* Lines 234-236: the whole list fits into one reply.
ReadWhole ==
  /\ pc = "whole"
  /\ N <= dev.elements
  /\ Listed(UpTo(N))
  /\ UNCHANGED <<dev, start, i, named, spoilt, noRPM, expired, faults, rejects>>

ReadWholeFails ==
  /\ pc = "whole"
  /\ \E e \in Errors : /\ Fails(e, N > dev.elements)
                       /\ pc' = IF retryPiecewise(e) THEN "length" ELSE "failed"
  /\ UNCHANGED <<dev, reading, i, naming, noRPM, expired, rejects>>

\* Lines 239-249.
ReadLength ==
  /\ pc = "length"
  /\ pc' = "indexes"
  /\ start' = 1
  /\ UNCHANGED <<dev, list, i, naming, noRPM, expired, faults, rejects>>

\* Lines 250-258.
ListComplete ==
  /\ pc = "indexes"
  /\ start > N
  /\ Listed(list)
  /\ UNCHANGED <<dev, start, i, named, spoilt, noRPM, expired, faults, rejects>>

\* Lines 262-279.
ReadIndexes ==
  /\ pc = "indexes"
  /\ start <= N
  /\ ~ noRPM
  /\ dev.rpm
  /\ End - start + 1 <= dev.elements
  /\ list' = list \o [k \in 1 .. End - start + 1 |-> start + k - 1]
  /\ start' = NextStart
  /\ UNCHANGED <<dev, pc, i, naming, noRPM, expired, faults, rejects>>

\* Lines 280-283: go on one by one, or give up.
ReadIndexesFails ==
  /\ pc = "indexes"
  /\ start <= N
  /\ ~ noRPM
  /\ \E e \in Errors :
       /\ FailsRPM(e, End - start + 1 > dev.elements)
       /\ Latch(e)
       /\ pc' = IF noteRPMFailure(e) THEN "index" ELSE "failed"
  /\ i' = start
  /\ UNCHANGED <<dev, reading, naming, expired>>

\* Line 262: ReadPropertyMultiple is not tried any more.
SkipIndexes ==
  /\ pc = "indexes"
  /\ start <= N
  /\ noRPM
  /\ pc' = "index"
  /\ i' = start
  /\ UNCHANGED <<dev, reading, naming, noRPM, expired, faults, rejects>>

\* Lines 284-292.
ReadIndex ==
  /\ pc = "index"
  /\ list' = Append(list, i)
  /\ IF i < End
       THEN i' = i + 1 /\ UNCHANGED <<pc, start>>
       ELSE i' = i /\ pc' = "indexes" /\ start' = NextStart
  /\ UNCHANGED <<dev, naming, noRPM, expired, faults, rejects>>

ReadIndexFails ==
  /\ pc = "index"
  /\ \E e \in Errors : Fault(e)
  /\ pc' = "failed"
  /\ UNCHANGED <<dev, reading, i, naming, noRPM, expired, rejects>>
-----------------------------------------------------------------------------
(* readMetadata, of the first of the chunks *)

Chunk == Head(chunks)
Members == Chunk.lo .. Chunk.hi

\* Lines 302-305 and 333-370.
ReadMetadata ==
  /\ pc = "metadata"
  /\ chunks # << >>
  /\ ~ noRPM
  /\ dev.rpm
  /\ Size(Chunk) <= dev.objects
  /\ named' = named \cup (Members \ dev.unnamed)
  /\ chunks' = Tail(chunks)
  /\ UNCHANGED <<dev, pc, reading, i, spoilt, noRPM, expired, faults, rejects>>

\* Mutant of Divisible: a chunk of one is halved too.
DivisibleAlways(e) == noteRPMFailure(e)

\* Line 309.
Divisible(e) == noteRPMFailure(e) /\ e # "unrecognized" /\ Size(Chunk) > 1

\* Lines 306-319: give up, halve the chunk, or go on name by name.
ReadMetadataFails ==
  /\ pc = "metadata"
  /\ chunks # << >>
  /\ ~ noRPM
  /\ \E e \in Errors :
       /\ FailsRPM(e, Size(Chunk) > dev.objects)
       /\ IF expired THEN pc' = "failed" /\ UNCHANGED <<chunks, noRPM, rejects>>
          ELSE /\ Latch(e)
               /\ IF Divisible(e)
                    THEN chunks' = Halves(Chunk) \o Tail(chunks) /\ pc' = pc
                    ELSE chunks' = chunks /\ pc' = "name"
  /\ i' = Chunk.lo
  /\ UNCHANGED <<dev, reading, named, spoilt, expired>>

\* Line 301.
SkipMetadata ==
  /\ pc = "metadata"
  /\ chunks # << >>
  /\ noRPM
  /\ pc' = "name"
  /\ i' = Chunk.lo
  /\ UNCHANGED <<dev, reading, naming, noRPM, expired, faults, rejects>>

\* The end of an iteration of the loop of lines 320-329.
NextName ==
  IF i < Chunk.hi
    THEN i' = i + 1 /\ UNCHANGED <<pc, chunks>>
    ELSE i' = i /\ pc' = "metadata" /\ chunks' = Tail(chunks)

\* Lines 321 and 328, or 326 if the device has no name to give.
ReadName ==
  /\ pc = "name"
  /\ named' = named \cup ({i} \ dev.unnamed)
  /\ NextName
  /\ UNCHANGED <<dev, reading, spoilt, noRPM, expired, faults, rejects>>

\* Lines 322-327: the object is omitted.
ReadNameFails ==
  /\ pc = "name"
  /\ \E e \in Errors : Fault(e)
  /\ IF expired THEN pc' = "failed" /\ UNCHANGED <<i, chunks, spoilt>>
     ELSE spoilt' = spoilt \cup {i} /\ NextName
  /\ UNCHANGED <<dev, reading, named, noRPM, expired, rejects>>

\* Lines 200-212: load returns the objects that have got a name.
Finish ==
  /\ pc = "metadata"
  /\ chunks = << >>
  /\ pc' = "done"
  /\ UNCHANGED <<dev, reading, i, naming, noRPM, expired, faults, rejects>>

\* The context of line 174 ends, or close cancels it.
Expire ==
  /\ pc \notin {"done", "failed"}
  /\ ~ expired
  /\ expired' = TRUE
  /\ UNCHANGED <<dev, pc, reading, i, naming, noRPM, faults, rejects>>
-----------------------------------------------------------------------------
readObjectList ==
  \/ ReadWhole \/ ReadWholeFails \/ ReadLength \/ ListComplete
  \/ ReadIndexes \/ ReadIndexesFails \/ SkipIndexes
  \/ ReadIndex \/ ReadIndexFails

readMetadata ==
  \/ ReadMetadata \/ ReadMetadataFails \/ SkipMetadata
  \/ ReadName \/ ReadNameFails

load == Identify \/ Unidentified \/ readObjectList \/ readMetadata \/ Finish

Next == load \/ Expire

Spec == Init /\ [][Next]_vars

\* Every request ends, by its timer if not by a reply.
FairSpec == Spec /\ WF_vars(load)
-----------------------------------------------------------------------------
(* Properties *)

\* The type of the state.
TypeOK ==
  /\ dev \in [rpm : BOOLEAN, elements : 1 .. N + 1, objects : 0 .. RpmChunk,
              unnamed : Nameless]
  /\ pc \in PCs
  /\ list \in Seq(1 .. N)
  /\ start \in Nat
  /\ i \in 0 .. N
  /\ chunks \in Seq([lo : 1 .. N, hi : 0 .. N])
  /\ named \subseteq 1 .. N
  /\ noRPM \in BOOLEAN
  /\ expired \in BOOLEAN
  /\ faults \in 0 .. MaxFaults
  /\ rejects \in Nat
  /\ spoilt \subseteq 1 .. N

\* However it is read, whole, in batches or element by element after a batch
\* has failed, the object-list comes out complete, in order and without
\* repetition (readObjectList and readIndexes).
ListInOrder ==
  /\ list = UpTo(Len(list))
  /\ pc \in {"metadata", "name", "done"} => Len(list) = N

\* "Objects whose name can't be read are left out" (load, lines 170-172), and
\* only those: each object that has a name is in the result, unless the
\* request for that very name failed, whatever halving and falling back went
\* on before.
NothingElseOmitted ==
  pc = "done" => named = ((1 .. N) \ dev.unnamed) \ spoilt

\* A device that "doesn't support the service at all" (noteRPMFailure, lines
\* 372-374) is asked once per enumeration, not once per chunk.
RejectedOnce == rejects <= 1

\* "working within the client's limitation to unsegmented replies" (lines
\* 220-221): no limit on replies and no missing service keeps a device from
\* being enumerated, only requests that fail for another reason do.
PiecesSuffice == pc = "failed" => expired \/ faults > 0

\* Every enumeration ends: chunks are halved only so often.
LoadEnds == <>(pc \in {"done", "failed"})
=============================================================================
