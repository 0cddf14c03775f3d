----------------------------- MODULE MCExchange -----------------------------
(* Values for the constants of Exchange.                                   *)
EXTENDS Exchange

Points == { << 0, 1 >>, << 1, 3 >>, << 5, 2 >>, << 19, 4194302 >> }

\* One list with every kind of primitive and integers around the sizes where
\* encodings change; lists as deep as allowed and one deeper; a tag number
\* and lengths in the extended forms; a reply too long for one APDU; an empty
\* list.
Primitives ==
  << Value("null", << >>), Value("boolean", << 1 >>), Value("unsigned", Uint(8, 256)),
     Value("unsigned", << 255, 0, 0, 0, 0, 0, 0, 0 >>),
     Value("signed", << 255, 255, 255, 255, 255, 255, 255, 128 >>),
     Value("signed", << 0, 0, 0, 0, 0, 0, 0, 128 >>), Value("real", NaN),
     Value("double", << 127, 240, 0, 0, 0, 0, 0, 0 >>), Value("octets", << 1, 2, 3, 4, 5, 6 >>),
     Value("text", << 65, 66, 67, 68, 69 >>), Value("bits", << 1, 0, 0, 0, 0, 0, 0, 1, 1 >>),
     Value("date", << 2022, -1, 27, -1 >>), Value("time", << 12, 30, -1, 0 >>) >>
Deep == ConstructedValue(2, ConstructedValue(20, << ContextPrimitiveValue(1, << 5 >>) >>))
Octets(n) == << Value("octets", [i \in 1 .. n |-> i % 256]) >>
Lists == { Octets(254), Octets(320), Primitives, Deep, ConstructedValue(0, Deep), << >>,
             << ContextPrimitiveValue(16, << 1, 2, 3, 4, 5, 6, 7, 8 >>), Value("null", << >>) >> }

MCDevices == (Points \X { << >> }) \cup ({ << 0, 1 >> } \X Lists)

\* A context-tagged primitive whose length is in the extended form too.
LongDevices == { << << 0, 1 >>, << ContextPrimitiveValue(1, << 1, 2, 3, 4, 5, 6 >>) >> >> }

MCInputs == { Json("null", << >>), Json("bool", << 1 >>), Json("number", << 2 >>),
              Json("number", << 3 >>), Json("number", << 600 >>), Json("number", << Huge >>),
              Str(WordNaN), Str(WordInactive) }
MCPutPriorities == { << >>, << 1 >>, << 3 >> }
MCIndexes == { << >>, << 0 >>, << 2 >>, << 3 >> }
=============================================================================
