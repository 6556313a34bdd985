--------------------------- MODULE RuntimeIOProofs ---------------------------
(***************************************************************************)
(* Proofs about RuntimeIO, for any buffer size, input, literal and bounds. *)
(* The inductive invariant IInv joins                                      *)
(*                                                                         *)
(*   TypeOK                the types of the state                          *)
(*   Control               only a print has something to write, and it     *)
(*                         holds no str; a readln has room for one more    *)
(*   LastStrIsFresh        the last str held still has its text            *)
(*   StatusIsAnswer        the status is one that input_ok may report      *)
(*   OutputIsWhatWasAsked  the output                                      *)
(*   NoByteLost            the input                                       *)
(*                                                                         *)
(* and LinesInv adds to it where the input is in its lines:                *)
(*                                                                         *)
(*   InputIsRest           the input is the rest of stdin                  *)
(*   LinesReturned         the strings returned are the first lines, in    *)
(*                         order                                           *)
(*   Position              either every line was returned, or the input is *)
(*                         at the start of the next line, or in it with    *)
(*                         the buffer holding what was read of it, or      *)
(*                         behind it with the buffer holding all of it     *)
(*                                                                         *)
(* The last two hold when the lines are short and no read has failed.      *)
(***************************************************************************)
EXTENDS RuntimeIO, SequenceLemmas, FiniteSetTheorems

USE BytesAssumption, BufferAssumption, BoundsAssumption

Control ==
  /\ call # "print" => piece = <<>> /\ pieces = <<>>
  /\ call = "print" => held = <<>>
  /\ call \in {"readln", "readlnLen"} => Len(held) < MaxHeld

LastStrIsFresh ==
  /\ Len(held) <= Len(returned)
  /\ call = "none" /\ held # <<>> => Text(held[Len(held)]) = returned[Len(returned)]

StatusIsAnswer == lastOk \in answers

IInv ==
  /\ TypeOK
  /\ Control
  /\ LastStrIsFresh
  /\ StatusIsAnswer
  /\ OutputIsWhatWasAsked
  /\ NoByteLost

-----------------------------------------------------------------------------
(* Texts.                                                                  *)

\* Concatenation of bytes is associative and has a neutral element.
LEMMA BytesConcatenation ==
  /\ \A s, t, u \in Seq(Byte) : (s \o t) \o u = s \o (t \o u)
  /\ \A s \in Seq(Byte) : s \o <<>> = s /\ <<>> \o s = s
BY Concatenation, Zenon

\* The parts of a sequence of bytes, and a byte more.
LEMMA BytesParts ==
  /\ \A S : \A s \in Seq(S) : Len(s) \in Nat
  /\ \A s \in Seq(Byte) : s # <<>> => Head(s) \in Byte /\ Tail(s) \in Seq(Byte)
  /\ \A ss \in Seq(Seq(Byte)) : ss # <<>> => Head(ss) \in Seq(Byte) /\ Tail(ss) \in Seq(Seq(Byte))
  /\ \A s \in Seq(Byte), c \in Byte : Append(s, c) = s \o <<c>> /\ Append(s, c) \in Seq(Byte)
  /\ \A s \in Seq(Byte) : \A n \in 1 .. Len(s) :
       /\ SubSeq(s, 1, n) \in Seq(Byte)
       /\ SubSeq(s, n + 1, Len(s)) \in Seq(Byte)
       /\ SubSeq(s, 1, n) \o SubSeq(s, n + 1, Len(s)) = s
<1>1. ASSUME NEW s \in Seq(Byte), NEW c \in Byte
      PROVE  Append(s, c) = s \o <<c>> /\ Append(s, c) \in Seq(Byte)
  BY AppendIsConcat, AppendProperties
<1>2. ASSUME NEW s \in Seq(Byte), NEW n \in 1 .. Len(s)
      PROVE  /\ SubSeq(s, 1, n) \in Seq(Byte)
             /\ SubSeq(s, n + 1, Len(s)) \in Seq(Byte)
             /\ SubSeq(s, 1, n) \o SubSeq(s, n + 1, Len(s)) = s
  <2>1. SubSeq(s, 1, n) \in Seq(Byte) /\ SubSeq(s, n + 1, Len(s)) \in Seq(Byte)
    BY SubSeqProperties
  <2>2. SubSeq(s, 1, n) \o SubSeq(s, n + 1, Len(s)) = s
    BY ConcatAdjacentSubSeq, SubSeqFull
  <2>. QED
    BY <2>1, <2>2
<1>. QED
  BY <1>1, <1>2, HeadTailProperties, LenProperties

\* A str whose length fits the buffer is a sequence of bytes of that length.
LEMMA TextType ==
  ASSUME buffer \in [0 .. BufferSize - 1 -> Byte], NEW n \in 0 .. BufferSize - 1
  PROVE  Text(n) \in Seq(Byte) /\ Len(Text(n)) = n
<1>1. ASSUME NEW i \in 1 .. n
      PROVE  buffer[i - 1] \in Byte
  OBVIOUS
<1>. QED
  BY <1>1 DEF Text

\* Storing a byte behind a text does not change it; storing it makes it one longer.
LEMMA TextStore ==
  ASSUME buffer \in [0 .. BufferSize - 1 -> Byte], NEW n \in 0 .. BufferSize - 1,
         NEW c \in Byte, buffer' = [buffer EXCEPT ![n] = c]
  PROVE  /\ Text(n)' = Text(n)
         /\ n + 1 <= BufferSize - 1 => Text(n + 1)' = Append(Text(n), c)
<1>1. \A i \in 1 .. n : buffer'[i - 1] = buffer[i - 1]
  OBVIOUS
<1>2. Text(n)' = Text(n)
  BY <1>1 DEF Text
<1>3. ASSUME n + 1 <= BufferSize - 1
      PROVE  Text(n + 1)' = Append(Text(n), c)
  <2>1. buffer'[n] = c
    OBVIOUS
  <2>2. Text(n + 1)' \in Seq(Byte) /\ Len(Text(n + 1)') = n + 1
    <3>1. ASSUME NEW i \in 1 .. n + 1
          PROVE  buffer'[i - 1] \in Byte
      BY <1>3
    <3>. QED
      BY <3>1 DEF Text
  <2>3. Append(Text(n), c) \in Seq(Byte) /\ Len(Append(Text(n), c)) = n + 1
    BY TextType
  <2>4. ASSUME NEW i \in 1 .. n + 1
        PROVE  Text(n + 1)'[i] = Append(Text(n), c)[i]
    <3>1. Text(n + 1)'[i] = buffer'[i - 1]
      BY DEF Text
    <3>2. CASE i = n + 1
      BY <2>1, <3>1, <3>2, TextType, AppendProperties
    <3>3. CASE i \in 1 .. n
      <4>1. Append(Text(n), c)[i] = Text(n)[i]
        BY <3>3, TextType, AppendProperties
      <4>. QED
        BY <1>1, <3>1, <3>3, <4>1 DEF Text
    <3>4. i = n + 1 \/ i \in 1 .. n
      OBVIOUS
    <3>. QED
      BY <3>2, <3>3, <3>4, Zenon
  <2>. QED
    BY <2>2, <2>3, <2>4, SeqEqual
<1>. QED
  BY <1>2, <1>3

-----------------------------------------------------------------------------
(* Payloads.                                                               *)

\* What one byte adds to the payload.
Kept(c) == IF c \in Char THEN <<c>> ELSE <<>>

\* The sequence that Payload concatenates.
Pieced(bytes) == [i \in DOMAIN bytes |-> IF bytes[i] \in Char THEN <<bytes[i]>> ELSE <<>>]

\* It has a sequence for each byte.
LEMMA PiecedType ==
  ASSUME NEW bytes \in Seq(Byte)
  PROVE  /\ Pieced(bytes) \in Seq(Seq(Byte))
         /\ Len(Pieced(bytes)) = Len(bytes)
         /\ \A i \in 1 .. Len(bytes) : Pieced(bytes)[i] = Kept(bytes[i])
<1>1. ASSUME NEW i \in 1 .. Len(bytes)
      PROVE  Kept(bytes[i]) \in Seq(Byte)
  BY DEF Kept
<1>2. Len(bytes) \in Nat /\ Pieced(bytes) = [i \in 1 .. Len(bytes) |-> Kept(bytes[i])]
  BY DEF Pieced, Kept
<1>. QED
  BY <1>1, <1>2

\* The payload of some bytes is a sequence of bytes.
LEMMA PayloadType ==
  ASSUME NEW bytes \in Seq(Byte)
  PROVE  Payload(bytes) \in Seq(Byte)
BY PiecedType, FlattenType DEF Payload, Pieced

\* The payload of some bytes is that of the first one and that of the others.
LEMMA PayloadHeadTail ==
  ASSUME NEW bytes \in Seq(Byte), bytes # <<>>
  PROVE  Payload(bytes) = Kept(Head(bytes)) \o Payload(Tail(bytes))
<1>1. Pieced(bytes) \in Seq(Seq(Byte)) /\ Pieced(bytes) # <<>>
  BY PiecedType
<1>2. Head(Pieced(bytes)) = Kept(Head(bytes))
  BY PiecedType
<1>3. Tail(Pieced(bytes)) = Pieced(Tail(bytes))
  <2>1. /\ Tail(bytes) \in Seq(Byte) /\ Len(Tail(bytes)) = Len(bytes) - 1
        /\ \A i \in 1 .. Len(bytes) - 1 : Tail(bytes)[i] = bytes[i + 1]
    BY HeadTailProperties
  <2>2. /\ Tail(Pieced(bytes)) \in Seq(Seq(Byte))
        /\ Len(Tail(Pieced(bytes))) = Len(bytes) - 1
        /\ \A i \in 1 .. Len(bytes) - 1 : Tail(Pieced(bytes))[i] = Pieced(bytes)[i + 1]
    BY <1>1, PiecedType, HeadTailProperties
  <2>3. /\ Pieced(Tail(bytes)) \in Seq(Seq(Byte))
        /\ Len(Pieced(Tail(bytes))) = Len(bytes) - 1
        /\ \A i \in 1 .. Len(bytes) - 1 : Pieced(Tail(bytes))[i] = Kept(Tail(bytes)[i])
    BY <2>1, PiecedType
  <2>4. ASSUME NEW i \in 1 .. Len(bytes) - 1
        PROVE  Tail(Pieced(bytes))[i] = Pieced(Tail(bytes))[i]
    <3>1. i + 1 \in 1 .. Len(bytes)
      OBVIOUS
    <3>. QED
      BY <2>1, <2>2, <2>3, <3>1, PiecedType, Zenon
  <2>. QED
    BY <2>2, <2>3, <2>4, SeqEqual
<1>4. FlattenSeq(Pieced(bytes)) = Kept(Head(bytes)) \o FlattenSeq(Pieced(Tail(bytes)))
  BY <1>1, <1>2, <1>3, FlattenHeadTail
<1>. QED
  BY <1>4 DEF Payload, Pieced

-----------------------------------------------------------------------------
(* Types.                                                                  *)

\* The types hold initially.
LEMMA TypesInit ==
  ASSUME Init
  PROVE  TypeOK
<1>1. Char \cup {NewLine, CarriageReturn} \subseteq Byte
  BY DEF Byte
<1>2. stdin \in Seq(Byte)
  BY <1>1, StdinAssumption DEF Init
<1>3. {stdin, input, piece, output, asked} \subseteq Seq(Byte)
  BY <1>2 DEF Init
<1>4. pieces \in Seq(Seq(Byte)) /\ returned \in Seq(Seq(Byte)) /\ held \in Seq(0 .. BufferSize - 1)
  BY DEF Init
<1>5. buffer \in [0 .. BufferSize - 1 -> Byte]
  BY DEF Init, Byte
<1>6. length \in 0 .. BufferSize - 1 /\ calls \in 0 .. MaxCalls /\ Len(held) <= MaxHeld
  BY DEF Init
<1>7. {lastOk, writeFailed, readFailed, overwritten} \subseteq BOOLEAN /\ answers \subseteq BOOLEAN
  BY Zenon DEF Init
<1>8. call \in {"none", "print", "readln", "readlnLen"}
  BY DEF Init
<1>. QED
  BY <1>3, <1>4, <1>5, <1>6, <1>7, <1>8, Zenon DEF TypeOK

\* What a print has to write.
LEMMA PrintTypes ==
  ASSUME TypeOK, LastStrIsFresh, NEW count \in 1 .. MaxPieces,
         NEW args \in [1 .. count -> 0 .. Len(held)]
  PROVE  /\ [k \in DOMAIN args |-> IF args[k] = 0 THEN Literal ELSE Text(held[args[k]])]
              \in Seq(Seq(Byte))
         /\ [k \in DOMAIN args |-> IF args[k] = 0 THEN Literal ELSE HeldTexts[args[k]]]
              \in Seq(Seq(Byte))
         /\ Len(held) > 0 => HeldTexts[Len(held)] = returned[Len(returned)]
<1>5. returned \in Seq(Seq(Byte)) /\ held \in Seq(0 .. BufferSize - 1)
  BY Zenon DEF TypeOK
<1>6. Len(held) <= Len(returned)
  BY Zenon DEF LastStrIsFresh
<1>1. /\ Len(held) \in Nat /\ Len(returned) \in Nat /\ Len(held) <= Len(returned)
      /\ returned \in Seq(Seq(Byte)) /\ held \in Seq(0 .. BufferSize - 1)
  BY <1>5, <1>6, BytesParts, Zenon
<1>2. /\ HeldTexts \in Seq(Seq(Byte)) /\ Len(HeldTexts) = Len(held)
      /\ Len(held) > 0 => HeldTexts[Len(held)] = returned[Len(returned)]
  <2>1. \A m \in Nat : m <= Len(returned) =>
          LET last == SubSeq(returned, Len(returned) - m + 1, Len(returned)) IN
            last \in Seq(Seq(Byte)) /\ Len(last) = m /\ (m > 0 => last[m] = returned[Len(returned)])
    BY <1>1, LastMembers
  <2>2. LET last == SubSeq(returned, Len(returned) - Len(held) + 1, Len(returned)) IN
          /\ last \in Seq(Seq(Byte)) /\ Len(last) = Len(held)
          /\ Len(held) > 0 => last[Len(held)] = returned[Len(returned)]
    BY <1>1, <2>1, Zenon
  <2>. QED
    BY <2>2, Zenon DEF HeldTexts
<1>3. ASSUME NEW k \in 1 .. count, args[k] # 0
      PROVE  Text(held[args[k]]) \in Seq(Byte) /\ HeldTexts[args[k]] \in Seq(Byte)
  <2>1. args[k] \in 1 .. Len(held)
    BY <1>1, <1>3
  <2>2. held[args[k]] \in 0 .. BufferSize - 1
    BY <1>1, <2>1, Members, Zenon
  <2>3. HeldTexts[args[k]] \in Seq(Byte)
    <3>1. args[k] \in 1 .. Len(HeldTexts)
      BY <1>2, <2>1, Zenon
    <3>. QED
      BY <1>2, <3>1, SMTT(30)
  <2>. QED
    BY <2>2, <2>3, TextType DEF TypeOK
<1>4. DOMAIN args = 1 .. count /\ count \in Nat
  OBVIOUS
<1>. QED
  BY <1>2, <1>3, <1>4, LiteralAssumption

\* Every step preserves the types.
LEMMA TypesStep ==
  ASSUME TypeOK, Control, LastStrIsFresh, [Next]_vars
  PROVE  TypeOK'
<1>. USE DEF TypeOK
<1>1. ASSUME NEW count \in 1 .. MaxPieces, NEW args \in [1 .. count -> 0 .. Len(held)],
             StartPrint(args)
      PROVE  TypeOK'
  <2>. DEFINE now == [k \in DOMAIN args |-> IF args[k] = 0 THEN Literal ELSE Text(held[args[k]])]
              meant == [k \in DOMAIN args |-> IF args[k] = 0 THEN Literal ELSE HeldTexts[args[k]]]
  <2>1. now \in Seq(Seq(Byte)) /\ meant \in Seq(Seq(Byte))
    BY PrintTypes
  <2>2. now # <<>>
    OBVIOUS
  <2>3. /\ piece' = Head(now) /\ pieces' = Tail(now) /\ asked' = asked \o FlattenSeq(meant)
        /\ overwritten' \in BOOLEAN /\ call' = "print" /\ calls' \in 0 .. MaxCalls /\ held' = <<>>
        /\ UNCHANGED <<runtime, world, writeFailed, readFailed, returned, answers>>
    BY <1>1 DEF StartPrint, StartBuiltin
  <2>. HIDE DEF now, meant
  <2>4. piece' \in Seq(Byte) /\ pieces' \in Seq(Seq(Byte))
    BY <2>1, <2>2, <2>3, HeadTailProperties
  <2>5. asked' \in Seq(Byte)
    BY <2>1, <2>3, FlattenType, ConcatProperties
  <2>6. held' \in Seq(0 .. BufferSize - 1) /\ Len(held') <= MaxHeld
    BY <2>3
  <2>7. UNCHANGED <<buffer, length, lastOk, stdin, input, output, writeFailed, readFailed,
                    returned, answers>>
    BY <2>3, Zenon DEF runtime, world
  <2>. QED
    BY <2>3, <2>4, <2>5, <2>6, <2>7
<1>2. ASSUME NEW kept \in {held, <<>>}, StartReadln(kept)
      PROVE  TypeOK'
  <2>1. held' \in Seq(0 .. BufferSize - 1) /\ Len(held') <= MaxHeld
    <3>1. kept \in Seq(0 .. BufferSize - 1)
      <4>1. <<>> \in Seq(0 .. BufferSize - 1) /\ held \in Seq(0 .. BufferSize - 1)
        BY EmptySeq
      <4>. QED
        BY <4>1, Zenon
    <3>2. held' = kept /\ Len(kept) < MaxHeld
      BY <1>2, Zenon DEF StartReadln
    <3>. HIDE DEF TypeOK
    <3>. QED
      BY <3>1, <3>2
  <2>2. length' \in 0 .. BufferSize - 1 /\ call' = "readln" /\ calls' \in 0 .. MaxCalls
    BY <1>2 DEF StartReadln, StartBuiltin
  <2>3. UNCHANGED <<piece, pieces, buffer, lastOk, stdin, input, output, asked, writeFailed,
                    readFailed, overwritten, returned, answers>>
    BY <1>2, Zenon DEF StartReadln, world, ghost
  <2>. QED
    BY <2>1, <2>2, <2>3
<1>3. ASSUME NEW ok \in BOOLEAN, Parse(ok)
      PROVE  TypeOK'
  BY <1>3 DEF Parse, StartBuiltin, world
<1>4. ASSUME NEW n \in 1 .. Len(piece), Write(n)
      PROVE  TypeOK'
  <2>1. SubSeq(piece, 1, n) \in Seq(Byte) /\ SubSeq(piece, n + 1, Len(piece)) \in Seq(Byte)
    BY BytesParts, Zenon
  <2>2. output \o SubSeq(piece, 1, n) \in Seq(Byte)
    BY <2>1, ConcatProperties
  <2>. QED
    BY <1>4, <2>1, <2>2 DEF Write, unwritten, runtime, ghost
<1>5. CASE PieceWritten \/ WriteFails
  <2>1. piece' \in Seq(Byte) /\ pieces' \in Seq(Seq(Byte)) /\ call' \in {"none", "print"}
    <3>. call = "print" /\ NextPiece
      BY <1>5, Zenon DEF PieceWritten, WriteFails
    <3>1. CASE pieces = <<>>
      BY <3>1 DEF NextPiece
    <3>2. CASE pieces # <<>>
      <4>1. piece' = Head(pieces) /\ pieces' = Tail(pieces) /\ call' = "print"
        BY <3>2, Zenon DEF NextPiece
      <4>2. Head(pieces) \in Seq(Byte) /\ Tail(pieces) \in Seq(Seq(Byte))
        BY <3>2, HeadTailProperties
      <4>. QED
        BY <4>1, <4>2
    <3>. QED
      BY <3>1, <3>2
  <2>2. /\ lastOk' \in BOOLEAN /\ writeFailed' \in BOOLEAN /\ answers' \subseteq BOOLEAN
        /\ UNCHANGED <<held, calls, buffer, length, world, asked, readFailed, overwritten, returned>>
    BY <1>5 DEF PieceWritten, WriteFails
  <2>. QED
    BY <2>1, <2>2 DEF world
<1>6. CASE LineBufferFull
  BY <1>6 DEF LineBufferFull, EndLine, afterLine, world, Byte
<1>7. CASE ReadEnd
  BY <1>7 DEF ReadEnd, EndLine, world, Byte
<1>8. CASE ReadFails
  <2>1. buffer' \in [0 .. BufferSize - 1 -> Byte] /\ length' \in 0 .. BufferSize - 1
    BY <1>8 DEF ReadFails, Byte
  <2>2. call' = "readlnLen" /\ lastOk' = FALSE /\ readFailed' = TRUE /\ answers' = {FALSE}
    BY <1>8, Zenon DEF ReadFails
  <2>3. UNCHANGED <<piece, pieces, held, calls, stdin, input, output, asked, writeFailed,
                    overwritten, returned>>
    BY <1>8, Zenon DEF ReadFails, world
  <2>. QED
    BY <2>1, <2>2, <2>3
<1>9. CASE ReadByte
  <2>1. /\ input' \in Seq(Byte) /\ input[1] \in Byte
        /\ UNCHANGED <<piece, pieces, held, calls, stdin, output, asked, writeFailed,
                       readFailed, overwritten, returned>>
    BY <1>9, HeadTailProperties DEF ReadByte
  <2>2. /\ buffer' \in [0 .. BufferSize - 1 -> Byte] /\ length' \in 0 .. BufferSize - 1
        /\ call' \in {"readln", "readlnLen"} /\ lastOk' \in BOOLEAN /\ answers' \subseteq BOOLEAN
    <3>1. CASE ReadNewLine
      BY <1>9, <3>1 DEF ReadByte, ReadNewLine, EndLine, afterLine, Byte
    <3>2. CASE ReadCarriageReturn
      BY <1>9, <3>2 DEF ReadByte, ReadCarriageReturn, runtime
    <3>3. CASE ReadChar
      BY <1>9, <2>1, <3>3 DEF ReadByte, ReadChar, bufferFull
    <3>. QED
      BY <1>9, <3>1, <3>2, <3>3 DEF ReadByte
  <2>. QED
    BY <2>1, <2>2
<1>10. CASE ReadlnLen
  <2>1. Text(length) \in Seq(Byte)
    BY TextType
  <2>2. held' \in Seq(0 .. BufferSize - 1) /\ returned' \in Seq(Seq(Byte))
    BY <1>10, <2>1, AppendProperties DEF ReadlnLen
  <2>3. Len(held') <= MaxHeld
    BY <1>10, AppendProperties DEF ReadlnLen, Control
  <2>4. /\ call' = "none"
        /\ UNCHANGED <<piece, pieces, calls, buffer, length, lastOk, stdin, input, output, asked,
                       writeFailed, readFailed, overwritten, answers>>
    BY <1>10, Zenon DEF ReadlnLen, runtime, world
  <2>. QED
    BY <2>2, <2>3, <2>4
<1>11. CASE UNCHANGED vars
  BY <1>11 DEF vars, program, runtime, world, ghost
<1>. QED
  BY <1>1, <1>2, <1>3, <1>4, <1>5, <1>6, <1>7, <1>8, <1>9, <1>10, <1>11 DEF Next, RuntimeStep

-----------------------------------------------------------------------------
(* Control, and the strs.                                                  *)

\* Every step preserves Control.
LEMMA ControlStep ==
  ASSUME TypeOK, Control, [Next]_vars
  PROVE  Control'
<1>. USE DEF Control
<1>1. ASSUME NEW args, StartPrint(args)
      PROVE  Control'
  BY <1>1 DEF StartPrint, StartBuiltin
<1>2. ASSUME NEW kept \in {held, <<>>}, StartReadln(kept)
      PROVE  Control'
  BY <1>2 DEF StartReadln, StartBuiltin
<1>3. ASSUME NEW ok \in BOOLEAN, Parse(ok)
      PROVE  Control'
  BY <1>3 DEF Parse, StartBuiltin
<1>4. ASSUME NEW n \in 1 .. Len(piece), Write(n)
      PROVE  Control'
  BY <1>4 DEF Write
<1>5. CASE PieceWritten \/ WriteFails
  <2>. call = "print" /\ NextPiece /\ UNCHANGED held
    BY <1>5, Zenon DEF PieceWritten, WriteFails
  <2>. QED
    BY DEF NextPiece
<1>6. CASE LineBufferFull
  BY <1>6 DEF LineBufferFull, EndLine
<1>7. CASE ReadEnd
  BY <1>7 DEF ReadEnd, EndLine
<1>8. CASE ReadFails
  BY <1>8 DEF ReadFails
<1>9. CASE ReadByte
  <2>. call = "readln" /\ call' \in {"readln", "readlnLen"} /\ UNCHANGED <<piece, pieces, held>>
    BY <1>9 DEF ReadByte, ReadNewLine, ReadCarriageReturn, ReadChar, EndLine
  <2>. QED
    OBVIOUS
<1>10. CASE ReadlnLen
  BY <1>10 DEF ReadlnLen
<1>11. CASE UNCHANGED vars
  BY <1>11 DEF vars, program
<1>. QED
  BY <1>1, <1>2, <1>3, <1>4, <1>5, <1>6, <1>7, <1>8, <1>9, <1>10, <1>11 DEF Next, RuntimeStep

\* Every step preserves LastStrIsFresh: only ReadlnLen ends a readln.
LEMMA LastStrStep ==
  ASSUME TypeOK, Control, LastStrIsFresh, [Next]_vars
  PROVE  LastStrIsFresh'
<1>. USE DEF LastStrIsFresh
<1>. /\ held \in Seq(0 .. BufferSize - 1) /\ returned \in Seq(Seq(Byte))
     /\ Len(held) \in Nat /\ Len(returned) \in Nat
  BY BytesParts, Zenon DEF TypeOK
<1>1. ASSUME NEW args, StartPrint(args)
      PROVE  LastStrIsFresh'
  BY <1>1 DEF StartPrint, StartBuiltin
<1>2. ASSUME NEW kept \in {held, <<>>}, StartReadln(kept)
      PROVE  LastStrIsFresh'
  BY <1>2 DEF StartReadln, StartBuiltin, ghost
<1>3. ASSUME NEW ok \in BOOLEAN, Parse(ok)
      PROVE  LastStrIsFresh'
  BY <1>3 DEF Parse, StartBuiltin, Text
<1>4. CASE call = "print" /\ UNCHANGED <<held, returned>>
  BY <1>4 DEF Control
<1>5. CASE call' \in {"readln", "readlnLen"} /\ UNCHANGED <<held, returned>>
  BY <1>5
<1>6. CASE ReadlnLen
  <2>1. Text(length) \in Seq(Byte)
    BY TextType DEF TypeOK
  <2>2. length \in 0 .. BufferSize - 1
    BY DEF TypeOK
  <2>3. held' = Append(held, length) /\ returned' = Append(returned, Text(length)) /\ buffer' = buffer
    BY <1>6, Zenon DEF ReadlnLen, runtime
  <2>4. /\ Len(held') = Len(held) + 1 /\ held'[Len(held) + 1] = length
        /\ Len(returned') = Len(returned) + 1 /\ returned'[Len(returned) + 1] = Text(length)
    BY <2>1, <2>2, <2>3, AppendProperties
  <2>5. Text(length)' = Text(length) /\ UNCHANGED length
    BY <1>6 DEF ReadlnLen, runtime, Text
  <2>6. \A n : buffer' = buffer => [i \in 1 .. n |-> buffer'[i - 1]] = [i \in 1 .. n |-> buffer[i - 1]]
    OBVIOUS
  <2>. QED
    BY <2>3, <2>4, <2>6 DEF Text
<1>7. CASE UNCHANGED vars
  BY <1>7 DEF vars, program, ghost, runtime, Text
<1>. QED
  <2>1. ASSUME NEW n \in 1 .. Len(piece), Write(n)
        PROVE  call = "print" /\ UNCHANGED <<held, returned>>
    BY <2>1 DEF Write, ghost
  <2>2. PieceWritten \/ WriteFails => call = "print" /\ UNCHANGED <<held, returned>>
    BY DEF PieceWritten, WriteFails
  <2>3. LineBufferFull \/ ReadEnd \/ ReadFails \/ ReadByte
          => call' \in {"readln", "readlnLen"} /\ UNCHANGED <<held, returned>>
    BY DEF LineBufferFull, ReadEnd, ReadFails, ReadByte, ReadNewLine, ReadCarriageReturn, ReadChar,
           EndLine
  <2>. QED
    BY <1>1, <1>2, <1>3, <1>4, <1>5, <1>6, <1>7, <2>1, <2>2, <2>3 DEF Next, RuntimeStep

\* Every step preserves StatusIsAnswer: whatever sets the status adds it to the answers.
LEMMA StatusStep ==
  ASSUME TypeOK, StatusIsAnswer, [Next]_vars
  PROVE  StatusIsAnswer'
<1>. USE DEF StatusIsAnswer
<1>. lastOk \in BOOLEAN
  BY DEF TypeOK
<1>1. ASSUME NEW ok \in BOOLEAN, Parse(ok)
      PROVE  StatusIsAnswer'
  BY <1>1 DEF Parse
<1>2. CASE PieceWritten \/ WriteFails
  BY <1>2 DEF PieceWritten, WriteFails
<1>3. ASSUME EndLine(lastOk), answers' = afterLine
      PROVE  StatusIsAnswer'
  BY <1>3 DEF EndLine, afterLine
<1>4. CASE ReadEnd
  BY <1>4 DEF ReadEnd, EndLine
<1>5. CASE ReadFails
  BY <1>5 DEF ReadFails
<1>6. CASE UNCHANGED <<lastOk, answers>>
  BY <1>6
<1>. QED
  <2>1. ASSUME NEW args, StartPrint(args)
        PROVE  UNCHANGED <<lastOk, answers>>
    BY <2>1 DEF StartPrint, runtime
  <2>2. ASSUME NEW kept, StartReadln(kept)
        PROVE  UNCHANGED <<lastOk, answers>>
    BY <2>2 DEF StartReadln, ghost
  <2>3. ASSUME NEW n, Write(n)
        PROVE  UNCHANGED <<lastOk, answers>>
    BY <2>3 DEF Write, runtime, ghost
  <2>4. ReadlnLen \/ ReadCarriageReturn \/ ReadChar \/ UNCHANGED vars => UNCHANGED <<lastOk, answers>>
    BY DEF ReadlnLen, ReadCarriageReturn, ReadChar, vars, runtime, ghost
  <2>5. LineBufferFull \/ ReadNewLine => EndLine(lastOk) /\ answers' = afterLine
    BY DEF LineBufferFull, ReadNewLine
  <2>. QED
    BY <1>1, <1>2, <1>3, <1>4, <1>5, <1>6, <2>1, <2>2, <2>3, <2>4, <2>5
       DEF Next, RuntimeStep, ReadByte

-----------------------------------------------------------------------------
(* The output.                                                             *)

\* What a print starts with is what it was asked for, unless a str has lost its text.
LEMMA StartPrintOutput ==
  ASSUME IInv, NEW count \in 1 .. MaxPieces, NEW args \in [1 .. count -> 0 .. Len(held)],
         StartPrint(args)
  PROVE  OutputIsWhatWasAsked'
<1>. DEFINE now == [k \in DOMAIN args |-> IF args[k] = 0 THEN Literal ELSE Text(held[args[k]])]
            meant == [k \in DOMAIN args |-> IF args[k] = 0 THEN Literal ELSE HeldTexts[args[k]]]
<1>1. SUFFICES ASSUME ~writeFailed', ~overwritten'
               PROVE  output' \o piece' \o FlattenSeq(pieces') = asked'
  BY DEF OutputIsWhatWasAsked
<1>2. /\ now \in Seq(Seq(Byte)) /\ meant \in Seq(Seq(Byte))
      /\ Len(held) > 0 => HeldTexts[Len(held)] = returned[Len(returned)]
  BY PrintTypes DEF IInv
<1>3. /\ call = "none" /\ piece' = Head(now) /\ pieces' = Tail(now)
      /\ asked' = asked \o FlattenSeq(meant) /\ UNCHANGED output
      /\ ~writeFailed /\ ~overwritten
      /\ \A k \in DOMAIN args : args[k] \notin 1 .. Len(held) - 1
  BY <1>1, Zenon DEF StartPrint, StartBuiltin, world
<1>4. now = meant
  <2>1. ASSUME NEW k \in DOMAIN args, args[k] # 0
        PROVE  Text(held[args[k]]) = HeldTexts[args[k]]
    <3>1. args[k] = Len(held) /\ Len(held) > 0 /\ held # <<>>
      <4>1. args[k] \in 0 .. Len(held) /\ args[k] # 0 /\ args[k] \notin 1 .. Len(held) - 1
        BY <1>3, <2>1, Zenon
      <4>2. Len(held) \in Nat /\ (held = <<>> => Len(held) = 0)
        BY DEF IInv, TypeOK
      <4>. QED
        BY <4>1, <4>2
    <3>2. Text(held[Len(held)]) = returned[Len(returned)]
      BY <1>3, <3>1 DEF IInv, LastStrIsFresh
    <3>. QED
      BY <1>2, <3>1, <3>2
  <2>. QED
    BY <2>1, Zenon
<1>5. now # <<>>
  OBVIOUS
<1>. HIDE DEF now, meant
<1>6. output = asked
  <2>1. piece = <<>> /\ pieces = <<>>
    BY <1>3 DEF IInv, Control
  <2>2. output \o piece \o FlattenSeq(pieces) = asked
    BY <1>3, Zenon DEF IInv, OutputIsWhatWasAsked
  <2>3. output \in Seq(Byte)
    BY DEF IInv, TypeOK
  <2>4. output \o <<>> = output
    BY <2>3, BytesConcatenation, ZenonT(60)
  <2>. QED
    BY <2>1, <2>2, <2>4, FlattenEmpty, Zenon
<1>7. FlattenSeq(now) = Head(now) \o FlattenSeq(Tail(now))
  BY <1>2, <1>5, FlattenHeadTail
<1>8. /\ output \in Seq(Byte) /\ Head(now) \in Seq(Byte) /\ FlattenSeq(Tail(now)) \in Seq(Byte)
  BY <1>2, <1>5, HeadTailProperties, FlattenType DEF IInv, TypeOK
<1>9. (output \o Head(now)) \o FlattenSeq(Tail(now)) = output \o (Head(now) \o FlattenSeq(Tail(now)))
  BY <1>8, BytesConcatenation, ZenonT(60)
<1>. QED
  BY <1>3, <1>4, <1>6, <1>7, <1>9, Zenon

\* Every step preserves OutputIsWhatWasAsked.
LEMMA OutputStep ==
  ASSUME IInv, [Next]_vars
  PROVE  OutputIsWhatWasAsked'
<1>. /\ output \in Seq(Byte) /\ piece \in Seq(Byte) /\ pieces \in Seq(Seq(Byte))
     /\ FlattenSeq(pieces) \in Seq(Byte)
  BY FlattenType DEF IInv, TypeOK
<1>. OutputIsWhatWasAsked
  BY DEF IInv
<1>1. ASSUME NEW n \in 1 .. Len(piece), Write(n)
      PROVE  OutputIsWhatWasAsked'
  <2>. DEFINE taken == SubSeq(piece, 1, n)
              left == SubSeq(piece, n + 1, Len(piece))
  <2>1. output' = output \o taken /\ piece' = left /\ UNCHANGED <<pieces, ghost>>
    BY <1>1, Zenon DEF Write, unwritten
  <2>2. taken \o left = piece
    BY BytesParts, Zenon
  <2>3. taken \in Seq(Byte) /\ left \in Seq(Byte)
    BY BytesParts, Zenon
  <2>. HIDE DEF taken, left
  <2>4. (output \o taken) \o left = output \o piece
    BY <2>2, <2>3, BytesConcatenation, ZenonT(60)
  <2>. QED
    BY <2>1, <2>4, Zenon DEF OutputIsWhatWasAsked, ghost
<1>2. CASE WriteFails
  BY <1>2 DEF WriteFails, OutputIsWhatWasAsked
<1>3. CASE PieceWritten
  <2>1. piece = <<>> /\ NextPiece /\ UNCHANGED <<output, asked, writeFailed, overwritten>>
    BY <1>3, Zenon DEF PieceWritten, world
  <2>2. CASE pieces = <<>>
    BY <2>1, <2>2, Zenon DEF NextPiece, OutputIsWhatWasAsked
  <2>3. CASE pieces # <<>>
    <3>1. piece' = Head(pieces) /\ pieces' = Tail(pieces)
      BY <2>1, <2>3, Zenon DEF NextPiece
    <3>2. FlattenSeq(pieces) = Head(pieces) \o FlattenSeq(Tail(pieces))
      BY <2>3, FlattenHeadTail
    <3>3. Head(pieces) \in Seq(Byte) /\ FlattenSeq(Tail(pieces)) \in Seq(Byte)
      BY <2>3, BytesParts, FlattenType, Zenon
    <3>4. /\ output \o <<>> = output
          /\ (output \o Head(pieces)) \o FlattenSeq(Tail(pieces))
               = output \o (Head(pieces) \o FlattenSeq(Tail(pieces)))
      BY <3>3, BytesConcatenation, ZenonT(60)
    <3>5. (output \o Head(pieces)) \o FlattenSeq(Tail(pieces)) = (output \o piece) \o FlattenSeq(pieces)
      BY <2>1, <3>2, <3>4, ZenonT(60)
    <3>. QED
      BY <2>1, <3>1, <3>5, Zenon DEF OutputIsWhatWasAsked
  <2>. QED
    BY <2>2, <2>3
<1>4. CASE UNCHANGED <<output, piece, pieces, asked, writeFailed, overwritten>>
  BY <1>4 DEF OutputIsWhatWasAsked
<1>. QED
  <2>1. ASSUME NEW kept, StartReadln(kept)
        PROVE  UNCHANGED <<output, piece, pieces, asked, writeFailed, overwritten>>
    BY <2>1 DEF StartReadln, world, ghost
  <2>2. ASSUME NEW ok, Parse(ok)
        PROVE  UNCHANGED <<output, piece, pieces, asked, writeFailed, overwritten>>
    BY <2>2 DEF Parse, world
  <2>3. LineBufferFull \/ ReadByte \/ ReadEnd \/ ReadFails \/ ReadlnLen \/ UNCHANGED vars
          => UNCHANGED <<output, piece, pieces, asked, writeFailed, overwritten>>
    BY DEF LineBufferFull, ReadByte, ReadEnd, ReadFails, ReadlnLen, vars, program, world, ghost
  <2>. QED
    BY <1>1, <1>2, <1>3, <1>4, <2>1, <2>2, <2>3, StartPrintOutput DEF Next, RuntimeStep

-----------------------------------------------------------------------------
(* The input.                                                              *)

\* The line being read.
Current == IF call \in {"readln", "readlnLen"} THEN Text(length) ELSE <<>>

\* Reading a byte adds it to the line, unless it is no part of one.
LEMMA ReadByteLine ==
  ASSUME IInv, ReadByte
  PROVE  /\ Current' = Current \o Kept(Head(input))
         /\ Current \in Seq(Byte) /\ Kept(Head(input)) \in Seq(Byte)
<1>. USE DEF IInv, TypeOK
<1>1. /\ call = "readln" /\ input # <<>> /\ ~bufferFull
      /\ ReadNewLine \/ ReadCarriageReturn \/ ReadChar
  BY Zenon DEF ReadByte
<1>2. Head(input) = input[1] /\ Head(input) \in Byte
  BY <1>1, HeadTailProperties
<1>3. Current = Text(length) /\ Current \in Seq(Byte)
  BY <1>1, TextType DEF Current
<1>4. Kept(Head(input)) \in Seq(Byte)
  BY <1>2 DEF Kept
<1>5. CASE Kept(Head(input)) = <<>> /\ Current' = Current
  <2>. HIDE DEF IInv, TypeOK
  <2>1. Current \o <<>> = Current
    BY <1>3, BytesConcatenation, ZenonT(60)
  <2>. QED
    BY <1>3, <1>4, <1>5, <2>1, Zenon
<1>6. CASE ReadNewLine
  <2>1. Kept(Head(input)) = <<>>
    BY <1>2, <1>6 DEF ReadNewLine, Kept
  <2>2. call' = "readlnLen" /\ length' = length /\ buffer' = [buffer EXCEPT ![length] = Nul]
    BY <1>6 DEF ReadNewLine, EndLine
  <2>3. Text(length)' = Text(length)
    BY <2>2, TextStore DEF Byte
  <2>4. Current' = Current
    BY <1>3, <2>2, <2>3 DEF Current
  <2>. QED
    BY <1>5, <2>1, <2>4
<1>7. CASE ReadCarriageReturn
  <2>1. Kept(Head(input)) = <<>>
    BY <1>2, <1>7 DEF ReadCarriageReturn, Kept
  <2>2. Current' = Current
    BY <1>7 DEF ReadCarriageReturn, Current, Text, runtime
  <2>. QED
    BY <1>5, <2>1, <2>2
<1>8. CASE ReadChar
  <2>1. /\ input[1] \in Char /\ buffer' = [buffer EXCEPT ![length] = input[1]]
        /\ length' = length + 1 /\ call' = "readln"
    BY <1>1, <1>8, Zenon DEF ReadChar
  <2>2. PICK n \in 0 .. BufferSize - 1 : n = length /\ n + 1 <= BufferSize - 1
    BY <1>1 DEF bufferFull
  <2>3. buffer' = [buffer EXCEPT ![n] = input[1]]
    BY <2>1, <2>2
  <2>4. Text(n + 1)' = Append(Text(n), input[1])
    BY <1>2, <2>2, <2>3, TextStore
  <2>5. Current' = Append(Current, input[1])
    BY <1>3, <2>1, <2>2, <2>4 DEF Current, Text
  <2>6. Kept(Head(input)) = <<input[1]>>
    BY <1>2, <2>1 DEF Kept
  <2>. HIDE DEF IInv, TypeOK
  <2>7. Current \in Seq(Byte) /\ input[1] \in Byte
    BY <1>2, <1>3
  <2>8. Append(Current, input[1]) = Current \o <<input[1]>>
    BY <2>7, BytesParts, ZenonT(60)
  <2>. QED
    BY <1>3, <1>4, <2>5, <2>6, <2>8, Zenon
<1>. QED
  BY <1>1, <1>6, <1>7, <1>8

\* Reading a byte moves it from the input to the line, or drops it when it is no part
\* of a line.
LEMMA ReadByteInput ==
  ASSUME IInv, ReadByte
  PROVE  /\ Current \o Payload(input) = Current' \o Payload(input')
         /\ Current \in Seq(Byte) /\ Current' \in Seq(Byte)
<1>1. input # <<>> /\ input' = Tail(input) /\ input \in Seq(Byte)
  BY Zenon DEF ReadByte, IInv, TypeOK
<1>2. Payload(input) = Kept(Head(input)) \o Payload(input')
  BY <1>1, PayloadHeadTail
<1>3. Payload(input') \in Seq(Byte)
  BY <1>1, HeadTailProperties, PayloadType
<1>4. PICK c : c = Kept(Head(input))
  OBVIOUS
<1>5. Current' = Current \o c /\ Current \in Seq(Byte) /\ c \in Seq(Byte)
  BY <1>4, ReadByteLine
<1>6. (Current \o c) \o Payload(input') = Current \o (c \o Payload(input'))
  BY <1>3, <1>5, BytesConcatenation, ZenonT(60)
<1>7. Current' \in Seq(Byte)
  BY <1>5, ConcatProperties
<1>. QED
  BY <1>2, <1>4, <1>5, <1>6, <1>7, Zenon

\* NoByteLost, with the line being read.
LEMMA NoByteLostIs ==
  NoByteLost <=> (~readFailed => FlattenSeq(returned) \o Current \o Payload(input) = Payload(stdin))
BY DEF NoByteLost, Current

\* Every step preserves NoByteLost.
LEMMA InputStep ==
  ASSUME IInv, [Next]_vars
  PROVE  NoByteLost'
<1>1. /\ buffer \in [0 .. BufferSize - 1 -> Byte] /\ length \in 0 .. BufferSize - 1
      /\ returned \in Seq(Seq(Byte)) /\ input \in Seq(Byte)
      /\ call \in {"none", "print", "readln", "readlnLen"}
  BY DEF IInv, TypeOK
<1>2. ~readFailed => FlattenSeq(returned) \o Current \o Payload(input) = Payload(stdin)
  BY NoByteLostIs DEF IInv
<1>3. FlattenSeq(returned) \in Seq(Byte) /\ Payload(input) \in Seq(Byte) /\ Text(length) \in Seq(Byte)
  BY <1>1, FlattenType, PayloadType, TextType
<1>. SUFFICES ASSUME ~readFailed'
              PROVE  FlattenSeq(returned') \o Current' \o Payload(input') = Payload(stdin')
  BY DEF NoByteLost, Current
<1>4. CASE Current' = Current /\ UNCHANGED <<stdin, input, returned, readFailed>>
  BY <1>2, <1>4, Zenon
<1>5. CASE ReadByte
  <2>1. /\ Current \o Payload(input) = Current' \o Payload(input')
        /\ Current \in Seq(Byte) /\ Current' \in Seq(Byte)
    BY <1>5, ReadByteInput
  <2>2. UNCHANGED <<stdin, returned, readFailed>> /\ Payload(input') \in Seq(Byte)
    <3>1. UNCHANGED <<stdin, returned, readFailed>> /\ input # <<>> /\ input' = Tail(input)
      BY <1>5, Zenon DEF ReadByte
    <3>. QED
      BY <1>1, <3>1, BytesParts, PayloadType, Zenon
  <2>3. /\ (FlattenSeq(returned) \o Current) \o Payload(input)
             = FlattenSeq(returned) \o (Current \o Payload(input))
        /\ (FlattenSeq(returned) \o Current') \o Payload(input')
             = FlattenSeq(returned) \o (Current' \o Payload(input'))
    BY <1>3, <2>1, <2>2, BytesConcatenation, ZenonT(60)
  <2>. QED
    BY <1>2, <2>1, <2>2, <2>3, ZenonT(60)
<1>6. CASE ReadlnLen
  <2>1. /\ call = "readlnLen" /\ call' = "none" /\ returned' = Append(returned, Text(length))
        /\ UNCHANGED <<stdin, input, readFailed>>
    BY <1>6, Zenon DEF ReadlnLen, world
  <2>2. Current = Text(length) /\ Current' = <<>>
    BY <2>1 DEF Current
  <2>3. FlattenSeq(returned') = FlattenSeq(returned) \o Text(length)
    BY <1>1, <1>3, <2>1, FlattenAppend
  <2>4. FlattenSeq(returned') \in Seq(Byte)
    BY <1>3, <2>3, ConcatProperties
  <2>5. FlattenSeq(returned') \o <<>> = FlattenSeq(returned')
    BY <2>4, BytesConcatenation, ZenonT(60)
  <2>. QED
    BY <1>2, <2>1, <2>2, <2>3, <2>5, Zenon
<1>7. ASSUME NEW kept, StartReadln(kept)
      PROVE  Current' = Current /\ UNCHANGED <<stdin, input, returned, readFailed>>
  <2>1. /\ call = "none" /\ call' = "readln" /\ length' = 0
        /\ UNCHANGED <<stdin, input, returned, readFailed>>
    BY <1>7, Zenon DEF StartReadln, StartBuiltin, world, ghost
  <2>2. Text(0)' = <<>>
    BY DEF Text
  <2>. QED
    BY <2>1, <2>2 DEF Current, Text
<1>8. CASE LineBufferFull \/ ReadEnd
  <2>1. /\ call = "readln" /\ call' = "readlnLen" /\ length' = length
        /\ buffer' = [buffer EXCEPT ![length] = Nul]
        /\ UNCHANGED <<stdin, input, returned, readFailed>>
    BY <1>8, Zenon DEF LineBufferFull, ReadEnd, EndLine, world
  <2>2. Text(length)' = Text(length)
    BY <1>1, <2>1, TextStore DEF Byte
  <2>3. Current' = Current
    BY <2>1, <2>2 DEF Current
  <2>. QED
    BY <1>4, <2>1, <2>3
<1>9. CASE ReadFails
  BY <1>9 DEF ReadFails
<1>10. CASE UNCHANGED vars
  <2>1. Current' = Current
    BY <1>10 DEF vars, program, runtime, Current, Text
  <2>. QED
    BY <1>4, <1>10, <2>1 DEF vars, world, ghost
<1>11. CASE /\ call \in {"none", "print"} /\ call' \in {"none", "print"}
            /\ UNCHANGED <<stdin, input, returned, readFailed>>
  <2>1. Current' = Current
    BY <1>11 DEF Current
  <2>. QED
    BY <1>4, <1>11, <2>1
<1>12. ASSUME NEW args, StartPrint(args)
       PROVE  /\ call = "none" /\ call' = "print"
              /\ UNCHANGED <<stdin, input, returned, readFailed>>
  BY <1>12, Zenon DEF StartPrint, StartBuiltin, world
<1>13. ASSUME NEW ok, Parse(ok)
       PROVE  /\ call = "none" /\ call' = "none"
              /\ UNCHANGED <<stdin, input, returned, readFailed>>
  BY <1>13, Zenon DEF Parse, StartBuiltin, world
<1>14. ASSUME NEW n, Write(n)
       PROVE  /\ call = "print" /\ call' = "print"
              /\ UNCHANGED <<stdin, input, returned, readFailed>>
  BY <1>14, Zenon DEF Write, ghost
<1>15. CASE PieceWritten \/ WriteFails
  <2>1. /\ call = "print" /\ NextPiece
        /\ UNCHANGED <<stdin, input, returned, readFailed>>
    BY <1>15, Zenon DEF PieceWritten, WriteFails, world
  <2>2. call' \in {"none", "print"}
    BY <2>1 DEF NextPiece
  <2>. QED
    BY <1>11, <2>1, <2>2
<1>. QED
  BY <1>4, <1>5, <1>6, <1>7, <1>8, <1>9, <1>10, <1>11, <1>12, <1>13, <1>14, <1>15
     DEF Next, RuntimeStep

-----------------------------------------------------------------------------
(* Theorems.                                                               *)

\* The inductive invariant holds initially.
LEMMA InvariantInit ==
  ASSUME Init
  PROVE  IInv
<1>1. TypeOK
  BY TypesInit
<1>2. Control /\ LastStrIsFresh /\ StatusIsAnswer
  BY DEF Init, Control, LastStrIsFresh, StatusIsAnswer
<1>3. OutputIsWhatWasAsked
  <2>1. <<>> \o <<>> = <<>>
    BY ConcatEmptySeq, EmptySeq
  <2>. QED
    BY <2>1, FlattenEmpty DEF Init, OutputIsWhatWasAsked
<1>4. NoByteLost
  <2>1. /\ call = "none" /\ input = stdin /\ returned = <<>>
    BY DEF Init
  <2>2. Payload(input) \in Seq(Byte) /\ <<>> \in Seq(Byte)
    BY <1>1, PayloadType, EmptySeq DEF TypeOK
  <2>3. <<>> \o <<>> = <<>> /\ <<>> \o Payload(input) = Payload(input)
    BY <2>2, BytesConcatenation, ZenonT(60)
  <2>4. Current = <<>>
    BY <2>1 DEF Current
  <2>5. FlattenSeq(returned) \o Current \o Payload(input) = Payload(stdin)
    BY <2>1, <2>3, <2>4, FlattenEmpty, Zenon
  <2>. QED
    BY <2>5, NoByteLostIs
<1>. QED
  BY <1>1, <1>2, <1>3, <1>4 DEF IInv

\* The inductive invariant of the runtime and its kernel holds in every state.
THEOREM InductiveInvariant == Spec => []IInv
<1>1. Init => IInv
  BY InvariantInit
<1>2. IInv /\ [Next]_vars => IInv'
  <2>. SUFFICES ASSUME IInv, [Next]_vars
                PROVE  IInv'
    OBVIOUS
  <2>. TypeOK /\ Control /\ LastStrIsFresh /\ StatusIsAnswer
    BY DEF IInv
  <2>. TypeOK' /\ Control' /\ LastStrIsFresh' /\ StatusIsAnswer'
    BY TypesStep, ControlStep, LastStrStep, StatusStep
  <2>. OutputIsWhatWasAsked' /\ NoByteLost'
    BY OutputStep, InputStep
  <2>. QED
    BY Zenon DEF IInv
<1>. QED
  BY <1>1, <1>2, PTL DEF Spec

\* The state keeps its types, and every byte that nex_runtime_readln_data stores, its
\* terminator included, is inside the buffer, whatever its size and the input.
THEOREM TypeCorrect == Spec => []TypeOK
<1>1. IInv => TypeOK
  BY DEF IInv
<1>. QED
  BY <1>1, InductiveInvariant, PTL

\* Output is complete and in order however the kernel splits the writes, until one
\* fails, and a str has its text until another readln reuses the buffer
\* (nex_runtime_print_str).
THEOREM OutputIsComplete == Spec => []OutputIsWhatWasAsked
<1>1. IInv => OutputIsWhatWasAsked
  BY DEF IInv
<1>. QED
  BY <1>1, InductiveInvariant, PTL

\* The strings returned, the line being read and the rest of the input are the whole
\* input, for every buffer size and every input, until a read fails
\* (nex_runtime_readln_data).
THEOREM InputIsComplete == Spec => []NoByteLost
<1>1. IInv => NoByteLost
  BY DEF IInv
<1>. QED
  BY <1>1, InductiveInvariant, PTL

\* input_ok reports a way in which the operations since the last one that decides
\* the status may have ended (nex_runtime_last_ok).
THEOREM StatusIsReported == Spec => []InputOkReportsInput
<1>1. IInv => InputOkReportsInput
  BY DEF IInv, StatusIsAnswer, InputOkReportsInput
<1>. QED
  BY <1>1, InductiveInvariant, PTL

-----------------------------------------------------------------------------
(* The lines of some bytes.                                                *)

Ends(bytes) == {i \in DOMAIN bytes : bytes[i] = NewLine} \cup {Len(bytes) + 1}
Starts(bytes) == {0} \cup (Ends(bytes) \ {Len(bytes) + 1})
EndOf(bytes, s) == CHOOSE e \in Ends(bytes) : e > s /\ \A f \in Ends(bytes) : f > s => e <= f
LineText(bytes, s) == Payload(SubSeq(bytes, s + 1, EndOf(bytes, s) - 1))
LineAt(bytes, s) == [start |-> s, text |-> LineText(bytes, s)]

\* Lines that start at s or before, and how many they are.
UpTo(bytes, s) == {l \in Lines(bytes) : l.start <= s}
Number(bytes, s) == Cardinality(UpTo(bytes, s))

\* A line goes from s to e.
IsLine(bytes, s, e) ==
  /\ s \in Starts(bytes) /\ e \in Ends(bytes) /\ s < e
  /\ \A f \in Ends(bytes) : f > s => e <= f

\* The lines of RuntimeIO are those that start at the starts.
LEMMA LinesAre ==
  ASSUME NEW bytes
  PROVE  Lines(bytes) = {LineAt(bytes, s) : s \in Starts(bytes)}
BY Zenon DEF Lines, LineAt, LineText, EndOf, Starts, Ends

\* The ends and the starts of the lines.
LEMMA EndsType ==
  ASSUME NEW bytes \in Seq(Byte)
  PROVE  /\ Len(bytes) \in Nat
         /\ Ends(bytes) \subseteq 1 .. Len(bytes) + 1 /\ Len(bytes) + 1 \in Ends(bytes)
         /\ Starts(bytes) \subseteq 0 .. Len(bytes) /\ 0 \in Starts(bytes)
         /\ \A i \in 1 .. Len(bytes) : i \in Ends(bytes) <=> bytes[i] = NewLine
         /\ \A i \in 1 .. Len(bytes) : i \in Ends(bytes) => i \in Starts(bytes)
BY DEF Ends, Starts

\* Every line has an end.
LEMMA EndExists ==
  ASSUME NEW bytes \in Seq(Byte), NEW s \in Starts(bytes)
  PROVE  \E e : IsLine(bytes, s, e)
<1>1. PICK S : S = {e \in Ends(bytes) : e > s}
  OBVIOUS
<1>2. S \subseteq Nat /\ S # {}
  BY <1>1, EndsType
<1>3. PICK e \in S : \A f \in S : e <= f
  BY <1>2, LeastExists
<1>. QED
  BY <1>1, <1>3, EndsType DEF IsLine

\* The end that Lines chooses is that one.
LEMMA EndIs ==
  ASSUME NEW bytes \in Seq(Byte), NEW s, NEW e, IsLine(bytes, s, e)
  PROVE  EndOf(bytes, s) = e /\ LineText(bytes, s) = Payload(SubSeq(bytes, s + 1, e - 1))
<1>1. PICK x : x = EndOf(bytes, s)
  OBVIOUS
<1>2. x \in Ends(bytes) /\ x > s /\ \A f \in Ends(bytes) : f > s => x <= f
  <2>1. \E y \in Ends(bytes) : y > s /\ \A f \in Ends(bytes) : f > s => y <= f
    BY EndsType DEF IsLine
  <2>. QED
    BY <1>1, <2>1, Zenon DEF EndOf
<1>3. x = e
  BY <1>2, EndsType DEF IsLine
<1>. QED
  BY <1>1, <1>3 DEF LineText

-----------------------------------------------------------------------------
(* Their numbers.                                                          *)

\* There are finitely many lines.
LEMMA LinesFinite ==
  ASSUME NEW bytes \in Seq(Byte)
  PROVE  /\ IsFiniteSet(Lines(bytes))
         /\ \A s : IsFiniteSet(UpTo(bytes, s)) /\ Number(bytes, s) \in Nat
<1>1. IsFiniteSet(Starts(bytes))
  <2>1. IsFiniteSet(0 .. Len(bytes))
    BY EndsType, FS_Interval
  <2>. QED
    BY <2>1, EndsType, FS_Subset
<1>2. PICK f : f = [s \in Starts(bytes) |-> LineAt(bytes, s)]
  OBVIOUS
<1>3. f \in Surjection(Starts(bytes), Lines(bytes))
  BY <1>2, LinesAre DEF Surjection
<1>4. IsFiniteSet(Lines(bytes))
  BY <1>1, <1>3, FS_Surjection
<1>5. ASSUME NEW s
      PROVE  IsFiniteSet(UpTo(bytes, s)) /\ Number(bytes, s) \in Nat
  <2>1. UpTo(bytes, s) \in SUBSET Lines(bytes)
    BY DEF UpTo
  <2>2. IsFiniteSet(UpTo(bytes, s))
    BY <1>4, <2>1, FS_Subset
  <2>. QED
    BY <2>2, FS_CardinalityType DEF Number
<1>. QED
  BY <1>4, <1>5

\* A later line has a greater number.
LEMMA NumberGrows ==
  ASSUME NEW bytes \in Seq(Byte), NEW s \in Starts(bytes), NEW t \in Starts(bytes), s < t
  PROVE  Number(bytes, s) < Number(bytes, t)
<1>1. /\ LineAt(bytes, t) \in UpTo(bytes, t) /\ LineAt(bytes, t) \notin UpTo(bytes, s)
      /\ UpTo(bytes, s) \in SUBSET UpTo(bytes, t)
  <2>1. LineAt(bytes, t) \in Lines(bytes) /\ LineAt(bytes, t).start = t
    BY LinesAre DEF LineAt
  <2>2. s \in Int /\ t \in Int
    BY EndsType
  <2>3. \A l \in Lines(bytes) : l.start \in Int
    BY LinesAre, EndsType DEF LineAt
  <2>. QED
    BY <2>1, <2>2, <2>3 DEF UpTo
<1>2. IsFiniteSet(UpTo(bytes, t)) /\ Number(bytes, s) \in Nat /\ Number(bytes, t) \in Nat
  BY LinesFinite
<1>3. Number(bytes, s) <= Number(bytes, t)
  BY <1>1, <1>2, FS_Subset DEF Number
<1>4. Number(bytes, s) # Number(bytes, t)
  BY <1>1, <1>2, FS_Subset DEF Number
<1>. QED
  BY <1>2, <1>3, <1>4

\* The first line has number 1.
LEMMA NumberFirst ==
  ASSUME NEW bytes \in Seq(Byte)
  PROVE  Number(bytes, 0) = 1
<1>1. UpTo(bytes, 0) = {LineAt(bytes, 0)}
  BY LinesAre, EndsType DEF UpTo, LineAt
<1>. QED
  BY <1>1, FS_Singleton DEF Number

\* Every line has a positive number.
LEMMA NumberPositive ==
  ASSUME NEW bytes \in Seq(Byte), NEW s \in Starts(bytes)
  PROVE  Number(bytes, s) > 0
<1>1. 0 \in Starts(bytes) /\ 0 <= s /\ s \in Nat
  BY EndsType
<1>2. CASE s = 0
  BY <1>2, NumberFirst
<1>3. CASE 0 < s
  BY <1>1, <1>3, NumberFirst, NumberGrows, LinesFinite
<1>. QED
  BY <1>1, <1>2, <1>3

\* The line that starts at the end of another one has the next number.
LEMMA NumberNext ==
  ASSUME NEW bytes \in Seq(Byte), NEW s, NEW e, IsLine(bytes, s, e), e <= Len(bytes)
  PROVE  e \in Starts(bytes) /\ Number(bytes, e) = Number(bytes, s) + 1
<1>1. e \in Starts(bytes) /\ s \in Starts(bytes) /\ s < e
  BY EndsType DEF IsLine
<1>2. \A t \in Starts(bytes) : t <= e <=> t <= s \/ t = e
  BY <1>1, EndsType DEF IsLine, Starts
<1>3. UpTo(bytes, e) = UpTo(bytes, s) \cup {LineAt(bytes, e)}
  BY <1>1, <1>2, LinesAre DEF UpTo, LineAt
<1>4. LineAt(bytes, e) \notin UpTo(bytes, s)
  BY <1>1, EndsType DEF UpTo, LineAt
<1>5. IsFiniteSet(UpTo(bytes, s))
  BY LinesFinite
<1>. QED
  BY <1>1, <1>3, <1>4, <1>5, FS_AddElement DEF Number

\* The last line has the greatest number.
LEMMA NumberLast ==
  ASSUME NEW bytes \in Seq(Byte), NEW s, IsLine(bytes, s, Len(bytes) + 1), NEW t \in Starts(bytes)
  PROVE  Number(bytes, t) <= Number(bytes, s)
<1>1. s \in Starts(bytes) /\ t <= s
  BY EndsType DEF IsLine, Starts
<1>2. CASE t < s
  BY <1>1, <1>2, NumberGrows, LinesFinite
<1>3. CASE t = s
  BY <1>3, LinesFinite
<1>. QED
  BY <1>1, <1>2, <1>3, EndsType

-----------------------------------------------------------------------------
(* Where the input is in its lines: p bytes of some bytes have been read,  *)
(* and k strings returned.                                                 *)

Consumed == Len(stdin) - Len(input)

\* Every line has been returned.
AllRead(bytes, p, k) == p = Len(bytes) /\ \A s \in Starts(bytes) : Number(bytes, s) <= k

\* The next line starts here.
AtStart(bytes, p, k) == p \in Starts(bytes) /\ Number(bytes, p) = k + 1

\* The next line started at s and has not ended; what was read of it is the text.
ReadingFrom(bytes, p, k, text, s) ==
  /\ s <= p /\ Number(bytes, s) = k + 1
  /\ \A f \in Ends(bytes) : s < f => p < f
  /\ text = Payload(SubSeq(bytes, s + 1, p))

Reading(bytes, p, k, text) == \E s \in Starts(bytes) : ReadingFrom(bytes, p, k, text, s)

\* The next line goes from s to e, is the text, and has been read.
HasReadTo(bytes, p, k, text, s, e) ==
  /\ IsLine(bytes, s, e) /\ Number(bytes, s) = k + 1
  /\ p = e \/ (p = Len(bytes) /\ e = Len(bytes) + 1)
  /\ text = LineText(bytes, s)

HasRead(bytes, p, k, text) ==
  \E s \in Starts(bytes), e \in Ends(bytes) : HasReadTo(bytes, p, k, text, s, e)

\* The rest is the end of the bytes.
IsRest(bytes, rest) ==
  /\ Len(rest) <= Len(bytes)
  /\ \A i \in 1 .. Len(rest) : rest[i] = bytes[Len(bytes) - Len(rest) + i]

\* The strings are the first lines.
AreLines(bytes, strings) ==
  \A s \in Starts(bytes) :
    Number(bytes, s) <= Len(strings) => strings[Number(bytes, s)] = LineText(bytes, s)

AreShort(bytes) == \A line \in Lines(bytes) : Len(line.text) + 1 < BufferSize

InputIsRest == IsRest(stdin, input)

LinesReturned == AreLines(stdin, returned)

Position ==
  LET k == Len(returned) IN
    \/ AllRead(stdin, Consumed, k)
    \/ call \in {"none", "print"} /\ AtStart(stdin, Consumed, k)
    \/ call = "readln" /\ Reading(stdin, Consumed, k, Current)
    \/ call = "readlnLen" /\ HasRead(stdin, Consumed, k, Current)

LinesInv ==
  /\ InputIsRest
  /\ ~readFailed /\ AreShort(stdin) => LinesReturned /\ Position

-----------------------------------------------------------------------------
(* What a byte, or the end of a line, does to that.                        *)

\* What a byte adds is a sequence of bytes.
LEMMA KeptType ==
  ASSUME NEW c \in Byte
  PROVE  Kept(c) \in Seq(Byte)
BY DEF Kept

\* A part of some bytes.
LEMMA PartType ==
  ASSUME NEW bytes \in Seq(Byte), NEW s \in 0 .. Len(bytes), NEW p \in s .. Len(bytes)
  PROVE  SubSeq(bytes, s + 1, p) \in Seq(Byte) /\ Len(SubSeq(bytes, s + 1, p)) = p - s
<1>1. \A i \in s + 1 .. p : bytes[i] \in Byte
  OBVIOUS
<1>. QED
  BY <1>1, SubSeqProperties

\* Reading a byte appends what it adds to the payload.
LEMMA PayloadAppend ==
  ASSUME NEW bytes \in Seq(Byte), NEW c \in Byte
  PROVE  Payload(Append(bytes, c)) = Payload(bytes) \o Kept(c)
<1>1. PICK more : more = Append(bytes, c)
  OBVIOUS
<1>2. /\ more \in Seq(Byte) /\ Len(more) = Len(bytes) + 1 /\ Len(bytes) \in Nat
      /\ \A i \in 1 .. Len(bytes) : more[i] = bytes[i]
      /\ more[Len(bytes) + 1] = c
  BY <1>1, AppendProperties
<1>3. /\ Pieced(bytes) \in Seq(Seq(Byte)) /\ Len(Pieced(bytes)) = Len(bytes)
      /\ \A i \in 1 .. Len(bytes) : Pieced(bytes)[i] = Kept(bytes[i])
      /\ Pieced(more) \in Seq(Seq(Byte)) /\ Len(Pieced(more)) = Len(bytes) + 1
      /\ \A i \in 1 .. Len(bytes) + 1 : Pieced(more)[i] = Kept(more[i])
  BY <1>2, PiecedType
<1>4. PICK both : both = Append(Pieced(bytes), Kept(c))
  OBVIOUS
<1>5. /\ both \in Seq(Seq(Byte)) /\ Len(both) = Len(bytes) + 1
      /\ \A i \in 1 .. Len(bytes) : both[i] = Pieced(bytes)[i]
      /\ both[Len(bytes) + 1] = Kept(c)
  BY <1>3, <1>4, KeptType, AppendProperties
<1>6. ASSUME NEW i \in 1 .. Len(bytes) + 1
      PROVE  Pieced(more)[i] = both[i]
  <2>1. CASE i \in 1 .. Len(bytes)
    BY <1>2, <1>3, <1>5, <2>1, Zenon
  <2>2. CASE i = Len(bytes) + 1
    BY <1>2, <1>3, <1>5, <2>2, Zenon
  <2>. QED
    BY <1>2, <2>1, <2>2
<1>7. Pieced(more) = both
  BY <1>3, <1>5, <1>6, SeqEqual
<1>8. FlattenSeq(Pieced(more)) = FlattenSeq(Pieced(bytes)) \o Kept(c)
  BY <1>3, <1>4, <1>7, KeptType, FlattenAppend
<1>. QED
  BY <1>1, <1>8 DEF Payload, Pieced

\* Nothing adds nothing.
LEMMA PayloadNone == Payload(<<>>) = <<>>
<1>1. <<>> \in Seq(Byte)
  BY EmptySeq
<1>2. Pieced(<<>>) \in Seq(Seq(Byte)) /\ Len(Pieced(<<>>)) = 0
  BY <1>1, PiecedType
<1>3. Pieced(<<>>) = <<>>
  BY <1>2
<1>. QED
  BY <1>3, FlattenEmpty DEF Payload, Pieced

\* One byte more of a part.
LEMMA PartNext ==
  ASSUME NEW bytes \in Seq(Byte), NEW s \in 0 .. Len(bytes), NEW p \in s .. Len(bytes) - 1
  PROVE  /\ SubSeq(bytes, s + 1, p + 1) = Append(SubSeq(bytes, s + 1, p), bytes[p + 1])
         /\ Payload(SubSeq(bytes, s + 1, p + 1))
              = Payload(SubSeq(bytes, s + 1, p)) \o Kept(bytes[p + 1])
<1>1. /\ p + 1 \in s .. Len(bytes) /\ p \in s .. Len(bytes) /\ bytes[p + 1] \in Byte
      /\ s + 1 \in 1 .. Len(bytes) + 1 /\ p \in (s + 1) - 1 .. Len(bytes)
      /\ p + 1 \in p .. Len(bytes)
  OBVIOUS
<1>2. PICK part : part = SubSeq(bytes, s + 1, p)
  OBVIOUS
<1>3. part \in Seq(Byte)
  BY <1>1, <1>2, PartType
<1>4. part \o SubSeq(bytes, p + 1, p + 1) = SubSeq(bytes, s + 1, p + 1)
  BY <1>1, <1>2, ConcatAdjacentSubSeq
<1>5. SubSeq(bytes, p + 1, p + 1) = <<bytes[p + 1]>>
  <2>1. PICK i \in 1 .. Len(bytes) : i = p + 1
    BY <1>1
  <2>2. PICK one : one = SubSeq(bytes, i, i)
    OBVIOUS
  <2>3. \A j \in i .. i : bytes[j] \in Byte
    OBVIOUS
  <2>4. one \in Seq(Byte) /\ Len(one) = 1 /\ one[1] = bytes[i]
    BY <2>2, <2>3, SubSeqProperties
  <2>5. one = <<bytes[i]>>
    BY <2>4
  <2>. QED
    BY <2>1, <2>2, <2>5
<1>6. SubSeq(bytes, s + 1, p + 1) = Append(part, bytes[p + 1])
  BY <1>1, <1>3, <1>4, <1>5, AppendIsConcat
<1>7. Payload(Append(part, bytes[p + 1])) = Payload(part) \o Kept(bytes[p + 1])
  BY <1>1, <1>3, PayloadAppend
<1>. QED
  BY <1>2, <1>6, <1>7, Zenon

\* The payload of a part grows with it.
LEMMA PartGrows ==
  ASSUME NEW bytes \in Seq(Byte), NEW s \in 0 .. Len(bytes), NEW e \in s .. Len(bytes),
         NEW p \in s .. e
  PROVE  Len(Payload(SubSeq(bytes, s + 1, p))) <= Len(Payload(SubSeq(bytes, s + 1, e)))
<1>. DEFINE L(q) == Len(Payload(SubSeq(bytes, s + 1, q)))
            S == {d \in Nat : d <= e - p => L(p) <= L(p + d)}
<1>1. ASSUME NEW q \in s .. Len(bytes)
      PROVE  L(q) \in Nat /\ Payload(SubSeq(bytes, s + 1, q)) \in Seq(Byte)
  <2>1. Payload(SubSeq(bytes, s + 1, q)) \in Seq(Byte)
    BY PartType, PayloadType
  <2>. QED
    BY <2>1, LenProperties
<1>2. ASSUME NEW q \in s .. Len(bytes) - 1
      PROVE  L(q) <= L(q + 1)
  <2>1. PICK t \in Seq(Byte) : t = Payload(SubSeq(bytes, s + 1, q))
    BY <1>1
  <2>2. PICK u \in Seq(Byte) : u = Kept(bytes[q + 1])
    BY KeptType
  <2>3. Payload(SubSeq(bytes, s + 1, q + 1)) = t \o u
    BY <2>1, <2>2, PartNext
  <2>4. Len(t \o u) = Len(t) + Len(u) /\ Len(t) \in Nat /\ Len(u) \in Nat
    BY ConcatProperties
  <2>. QED
    BY <2>1, <2>3, <2>4
<1>3. 0 \in S
  BY <1>1
<1>. HIDE DEF L
<1>4. ASSUME NEW d \in Nat, d \in S
      PROVE  d + 1 \in S
  <2>1. SUFFICES ASSUME d + 1 <= e - p
                 PROVE  L(p) <= L(p + (d + 1))
    OBVIOUS
  <2>2. p \in s .. Len(bytes) /\ p + d \in s .. Len(bytes) - 1 /\ p + d \in s .. Len(bytes)
        /\ (p + d) + 1 = p + (d + 1) /\ (p + d) + 1 \in s .. Len(bytes) /\ d <= e - p
    BY <2>1
  <2>3. L(p) <= L(p + d)
    BY <1>4, <2>2
  <2>4. L(p + d) <= L((p + d) + 1)
    BY <1>2, <2>2
  <2>5. L(p) \in Nat /\ L(p + d) \in Nat /\ L((p + d) + 1) \in Nat
    BY <1>1, <2>2
  <2>. QED
    BY <2>2, <2>3, <2>4, <2>5
<1>5. Nat \subseteq S
  <2>. HIDE DEF S
  <2>. QED
    BY <1>3, <1>4, NatSetInduction
<1>6. e - p \in Nat /\ p + (e - p) = e
  OBVIOUS
<1>7. L(p) <= L(p + (e - p))
  BY <1>5, <1>6
<1>. QED
  BY <1>6, <1>7 DEF L

\* Starting a line.
LEMMA StartReading ==
  ASSUME NEW bytes \in Seq(Byte), NEW p, NEW k, AtStart(bytes, p, k)
  PROVE  Reading(bytes, p, k, <<>>)
<1>1. p \in Starts(bytes) /\ Number(bytes, p) = k + 1 /\ p \in Nat
  BY EndsType DEF AtStart
<1>2. SubSeq(bytes, p + 1, p) = <<>>
  BY <1>1, SubSeqEmpty
<1>3. ReadingFrom(bytes, p, k, <<>>, p)
  <2>1. Payload(SubSeq(bytes, p + 1, p)) = <<>>
    BY <1>2, PayloadNone, Zenon
  <2>2. p <= p
    BY <1>1
  <2>. QED
    BY <1>1, <2>1, <2>2, Zenon DEF ReadingFrom
<1>. QED
  BY <1>1, <1>3 DEF Reading

\* A byte of the line.
LEMMA ReadingNext ==
  ASSUME NEW bytes \in Seq(Byte), NEW p \in 0 .. Len(bytes) - 1, NEW k, NEW text,
         Reading(bytes, p, k, text), bytes[p + 1] # NewLine
  PROVE  Reading(bytes, p + 1, k, text \o Kept(bytes[p + 1]))
<1>1. PICK s \in Starts(bytes) : ReadingFrom(bytes, p, k, text, s)
  BY DEF Reading
<1>2. s \in 0 .. Len(bytes) /\ p \in s .. Len(bytes) - 1
  BY <1>1, EndsType DEF ReadingFrom
<1>3. text \o Kept(bytes[p + 1]) = Payload(SubSeq(bytes, s + 1, p + 1))
  BY <1>1, <1>2, PartNext DEF ReadingFrom
<1>4. ASSUME NEW f \in Ends(bytes), s < f
      PROVE  p + 1 < f
  <2>1. p < f /\ f \in Nat
    BY <1>1, <1>4, EndsType DEF ReadingFrom
  <2>2. p + 1 \notin Ends(bytes)
    BY EndsType
  <2>. QED
    BY <2>1, <2>2
<1>5. ReadingFrom(bytes, p + 1, k, text \o Kept(bytes[p + 1]), s)
  BY <1>1, <1>2, <1>3, <1>4 DEF ReadingFrom
<1>. QED
  BY <1>5 DEF Reading

\* The end of a line, and of the last one.
LEMMA ReadingEnds ==
  ASSUME NEW bytes \in Seq(Byte), NEW p \in 0 .. Len(bytes), NEW k, NEW text,
         Reading(bytes, p, k, text), p + 1 \in Ends(bytes),
         NEW q, q = p + 1 \/ (q = Len(bytes) /\ p = Len(bytes))
  PROVE  HasRead(bytes, q, k, text)
<1>1. PICK s \in Starts(bytes) : ReadingFrom(bytes, p, k, text, s)
  BY DEF Reading
<1>2. s \in 0 .. Len(bytes) /\ s < p + 1 /\ (p + 1) - 1 = p
  BY <1>1, EndsType DEF ReadingFrom
<1>3. IsLine(bytes, s, p + 1)
  BY <1>1, <1>2, EndsType DEF ReadingFrom, IsLine
<1>4. LineText(bytes, s) = text
  BY <1>1, <1>2, <1>3, EndIs DEF ReadingFrom
<1>5. HasReadTo(bytes, q, k, text, s, p + 1)
  BY <1>1, <1>3, <1>4 DEF HasReadTo, ReadingFrom
<1>. QED
  BY <1>5 DEF HasRead

\* What was read of a short line leaves room in the buffer.
LEMMA ReadingIsShort ==
  ASSUME NEW bytes \in Seq(Byte), NEW p \in 0 .. Len(bytes), NEW k, NEW text,
         AreShort(bytes), Reading(bytes, p, k, text)
  PROVE  Len(text) + 1 < BufferSize
<1>1. PICK s \in Starts(bytes) : ReadingFrom(bytes, p, k, text, s)
  BY DEF Reading
<1>2. PICK e : IsLine(bytes, s, e)
  BY EndExists
<1>3. /\ s \in 0 .. Len(bytes) /\ e \in 1 .. Len(bytes) + 1 /\ s < e /\ p < e /\ s <= p
      /\ Len(bytes) \in Nat
  BY <1>1, <1>2, EndsType DEF ReadingFrom, IsLine
<1>4. PICK m \in s .. Len(bytes) : m = e - 1
  BY <1>3
<1>5. p \in s .. m /\ p \in s .. Len(bytes)
  BY <1>3, <1>4
<1>6. Len(Payload(SubSeq(bytes, s + 1, p))) <= Len(Payload(SubSeq(bytes, s + 1, m)))
  BY <1>3, <1>5, PartGrows
<1>7. LineText(bytes, s) = Payload(SubSeq(bytes, s + 1, m))
  BY <1>2, <1>4, EndIs
<1>8. Len(LineText(bytes, s)) + 1 < BufferSize
  <2>1. LineAt(bytes, s) \in Lines(bytes)
    BY LinesAre
  <2>. QED
    BY <2>1 DEF AreShort, LineAt
<1>9. Len(text) \in Nat /\ Len(LineText(bytes, s)) \in Nat
  <2>1. text \in Seq(Byte) /\ LineText(bytes, s) \in Seq(Byte)
    BY <1>1, <1>3, <1>5, <1>7, PartType, PayloadType DEF ReadingFrom
  <2>. QED
    BY <2>1, LenProperties
<1>. QED
  BY <1>1, <1>6, <1>7, <1>8, <1>9 DEF ReadingFrom

\* A string more, when every line was returned.
LEMMA AllReadNext ==
  ASSUME NEW bytes \in Seq(Byte), NEW p, NEW k \in Nat, NEW strings \in Seq(Seq(Byte)),
         k = Len(strings), NEW text \in Seq(Byte), AllRead(bytes, p, k), AreLines(bytes, strings)
  PROVE  AllRead(bytes, p, k + 1) /\ AreLines(bytes, Append(strings, text))
<1>1. ASSUME NEW s \in Starts(bytes)
      PROVE  /\ Number(bytes, s) <= k /\ Number(bytes, s) \in 1 .. k
             /\ strings[Number(bytes, s)] = LineText(bytes, s)
  <2>1. Number(bytes, s) <= k /\ Number(bytes, s) \in Nat
    BY LinesFinite DEF AllRead
  <2>2. Number(bytes, s) > 0
    BY NumberPositive, <2>1
  <2>. QED
    BY <2>1, <2>2 DEF AreLines
<1>2. /\ Len(Append(strings, text)) = k + 1
      /\ \A i \in 1 .. k : Append(strings, text)[i] = strings[i]
  BY AppendProperties
<1>. QED
  BY <1>1, <1>2 DEF AllRead, AreLines

\* A string more, when it is the next line.
LEMMA HasReadNext ==
  ASSUME NEW bytes \in Seq(Byte), NEW p \in 0 .. Len(bytes), NEW k \in Nat, NEW strings \in Seq(Seq(Byte)),
         k = Len(strings), NEW text \in Seq(Byte), HasRead(bytes, p, k, text),
         AreLines(bytes, strings)
  PROVE  /\ AllRead(bytes, p, k + 1) \/ AtStart(bytes, p, k + 1)
         /\ AreLines(bytes, Append(strings, text))
<1>1. PICK s \in Starts(bytes), e \in Ends(bytes) : HasReadTo(bytes, p, k, text, s, e)
  BY DEF HasRead
<1>2. IsLine(bytes, s, e) /\ Number(bytes, s) = k + 1 /\ text = LineText(bytes, s)
  BY <1>1 DEF HasReadTo
<1>3. PICK more : more = Append(strings, text)
  OBVIOUS
<1>4. /\ Len(more) = k + 1 /\ more[k + 1] = text
      /\ \A i \in 1 .. k : more[i] = strings[i]
  BY <1>3, AppendProperties
<1>5. ASSUME NEW t \in Starts(bytes), Number(bytes, t) <= k + 1
      PROVE  more[Number(bytes, t)] = LineText(bytes, t)
  <2>1. PICK n \in Nat : n = Number(bytes, t) /\ n > 0 /\ n <= k + 1
    BY <1>5, NumberPositive, LinesFinite
  <2>2. CASE n <= k
    <3>1. n \in 1 .. k
      BY <2>1, <2>2
    <3>2. strings[n] = LineText(bytes, t)
      BY <2>1, <2>2 DEF AreLines
    <3>. QED
      BY <1>4, <2>1, <3>1, <3>2, Zenon
  <2>3. CASE n = k + 1
    <3>1. /\ t < s => Number(bytes, t) < Number(bytes, s)
          /\ s < t => Number(bytes, s) < Number(bytes, t)
      BY NumberGrows
    <3>2. ~(t < s) /\ ~(s < t)
      BY <1>2, <2>1, <2>3, <3>1
    <3>3. t = s
      BY <3>2, EndsType
    <3>. QED
      BY <1>2, <1>4, <2>1, <2>3, <3>3, Zenon
  <2>4. n <= k \/ n = k + 1
    BY <2>1
  <2>. QED
    BY <2>1, <2>2, <2>3, <2>4, Zenon
<1>6. AreLines(bytes, more)
  BY <1>4, <1>5 DEF AreLines
<1>7. CASE e <= Len(bytes)
  <2>1. p = e /\ e \in Starts(bytes) /\ Number(bytes, e) = k + 1 + 1
    BY <1>1, <1>2, <1>7, NumberNext, EndsType DEF HasReadTo
  <2>. QED
    BY <1>3, <1>6, <2>1 DEF AtStart
<1>8. CASE e = Len(bytes) + 1
  <2>1. p = Len(bytes)
    BY <1>1, <1>8 DEF HasReadTo
  <2>2. IsLine(bytes, s, Len(bytes) + 1)
    BY <1>2, <1>8
  <2>3. \A t \in Starts(bytes) : Number(bytes, t) <= k + 1
    BY <1>2, <2>2, NumberLast
  <2>. QED
    BY <1>3, <1>6, <2>1, <2>3, Zenon DEF AllRead
<1>. QED
  BY <1>7, <1>8, EndsType

\* Taking the first byte of the rest.
LEMMA RestNext ==
  ASSUME NEW bytes \in Seq(Byte), NEW rest \in Seq(Byte), rest # <<>>, IsRest(bytes, rest)
  PROVE  /\ IsRest(bytes, Tail(rest))
         /\ Len(bytes) - Len(rest) \in 0 .. Len(bytes) - 1
         /\ Len(bytes) - Len(Tail(rest)) = (Len(bytes) - Len(rest)) + 1
         /\ Head(rest) = bytes[(Len(bytes) - Len(rest)) + 1]
<1>1. PICK n \in Nat \ {0} : n = Len(rest)
  BY LenProperties
<1>2. PICK m \in Nat : m = Len(bytes)
  BY LenProperties
<1>3. n <= m /\ \A i \in 1 .. n : rest[i] = bytes[(m - n) + i]
  BY <1>1, <1>2 DEF IsRest
<1>4. /\ Len(Tail(rest)) = n - 1 /\ Head(rest) = rest[1]
      /\ \A i \in 1 .. n - 1 : Tail(rest)[i] = rest[i + 1]
  BY <1>1, HeadTailProperties
<1>5. ASSUME NEW i \in 1 .. n - 1
      PROVE  Tail(rest)[i] = bytes[m - (n - 1) + i]
  <2>1. i + 1 \in 1 .. n /\ (m - n) + (i + 1) = m - (n - 1) + i
    BY <1>1, <1>2
  <2>2. rest[i + 1] = bytes[(m - n) + (i + 1)]
    BY <1>3, <2>1, Zenon
  <2>. QED
    BY <1>4, <2>1, <2>2
<1>6. 1 \in 1 .. n
  BY <1>1
<1>7. Head(rest) = bytes[(m - n) + 1]
  BY <1>3, <1>4, <1>6, Zenon
<1>8. IsRest(bytes, Tail(rest))
  BY <1>2, <1>3, <1>4, <1>5 DEF IsRest
<1>. QED
  BY <1>1, <1>2, <1>3, <1>4, <1>7, <1>8

-----------------------------------------------------------------------------
(* Steps.                                                                  *)

\* The types of what the invariant is about.
LEMMA LinesTypes ==
  ASSUME IInv, LinesInv
  PROVE  /\ stdin \in Seq(Byte) /\ input \in Seq(Byte) /\ returned \in Seq(Seq(Byte))
         /\ Len(returned) \in Nat /\ Consumed \in 0 .. Len(stdin)
         /\ call \in {"readln", "readlnLen"} => Current \in Seq(Byte) /\ Current = Text(length)
         /\ IsRest(stdin, input)
<1>1. stdin \in Seq(Byte) /\ input \in Seq(Byte) /\ returned \in Seq(Seq(Byte))
  BY DEF IInv, TypeOK
<1>2. Len(returned) \in Nat /\ Len(input) \in Nat /\ Len(stdin) \in Nat
  BY <1>1
<1>3. IsRest(stdin, input) /\ Len(input) <= Len(stdin)
  BY DEF LinesInv, InputIsRest, IsRest
<1>4. call \in {"readln", "readlnLen"} => Current \in Seq(Byte) /\ Current = Text(length)
  BY TextType DEF IInv, TypeOK, Current
<1>. QED
  BY <1>1, <1>2, <1>3, <1>4 DEF Consumed

\* A step outside of readln.
LEMMA OtherLines ==
  ASSUME LinesInv, call \in {"none", "print"}, call' \in {"none", "print"},
         UNCHANGED <<stdin, input, returned, readFailed>>
  PROVE  LinesInv'
<1>1. InputIsRest' /\ LinesReturned' <=> InputIsRest /\ LinesReturned
  BY DEF InputIsRest, LinesReturned
<1>2. Position => Position'
  BY Zenon DEF Position, Consumed
<1>. QED
  BY <1>1, <1>2 DEF LinesInv, InputIsRest

\* The start of a readln.
LEMMA StartLines ==
  ASSUME IInv, LinesInv, NEW kept, StartReadln(kept)
  PROVE  LinesInv'
<1>1. /\ call = "none" /\ call' = "readln" /\ length' = 0
      /\ UNCHANGED <<stdin, input, returned, readFailed>>
  BY Zenon DEF StartReadln, StartBuiltin, world, ghost
<1>2. Current' = <<>>
  BY <1>1 DEF Current, Text
<1>3. Position => Position'
  <2>1. Consumed' = Consumed
    BY <1>1 DEF Consumed
  <2>2. AtStart(stdin, Consumed, Len(returned)) => Reading(stdin, Consumed, Len(returned), <<>>)
    BY LinesTypes, StartReading
  <2>. QED
    BY <1>1, <1>2, <2>1, <2>2, Zenon DEF Position
<1>. QED
  BY <1>1, <1>3 DEF LinesInv, InputIsRest, LinesReturned

\* The end of the loop of readln without a newline: the buffer is never full before
\* the end of a short line.
LEMMA EndLines ==
  ASSUME IInv, LinesInv, LineBufferFull \/ ReadEnd
  PROVE  LinesInv'
<1>1. /\ call = "readln" /\ call' = "readlnLen" /\ length' = length
      /\ buffer' = [buffer EXCEPT ![length] = Nul]
      /\ UNCHANGED <<stdin, input, returned, readFailed>>
  BY Zenon DEF LineBufferFull, ReadEnd, EndLine, world
<1>2. Current' = Current
  <2>1. Text(length)' = Text(length)
    BY <1>1, TextStore DEF Byte, IInv, TypeOK
  <2>. QED
    BY <1>1, <2>1 DEF Current
<1>3. Consumed' = Consumed
  BY <1>1 DEF Consumed
<1>. DEFINE reading == Reading(stdin, Consumed, Len(returned), Current)
<1>4. ASSUME AreShort(stdin), reading
      PROVE  HasRead(stdin, Consumed, Len(returned), Current)
  <2>1. CASE LineBufferFull
    <3>1. length + 1 >= BufferSize /\ length \in Nat
      BY <2>1 DEF LineBufferFull, bufferFull, IInv, TypeOK
    <3>2. Len(Current) = length
      BY <1>1, TextType, LinesTypes DEF IInv, TypeOK
    <3>3. Len(Current) + 1 < BufferSize
      BY <1>4, LinesTypes, ReadingIsShort
    <3>. QED
      BY <3>1, <3>2, <3>3
  <2>2. CASE ReadEnd
    <3>1. Consumed = Len(stdin) /\ Len(stdin) \in Nat
      <4>1. input = <<>>
        BY <2>2 DEF ReadEnd
      <4>. QED
        BY <4>1, LinesTypes DEF Consumed
    <3>2. Consumed + 1 \in Ends(stdin)
      BY <3>1, LinesTypes, EndsType
    <3>. QED
      BY <1>4, <3>1, <3>2, LinesTypes, ReadingEnds
  <2>. QED
    BY <2>1, <2>2
<1>. HIDE DEF reading
<1>5. AreShort(stdin) /\ Position => Position'
  BY <1>1, <1>2, <1>3, <1>4, Zenon DEF Position, reading
<1>. QED
  BY <1>1, <1>5 DEF LinesInv, InputIsRest, LinesReturned

\* A byte.
LEMMA ReadByteLines ==
  ASSUME IInv, LinesInv, ReadByte
  PROVE  LinesInv'
<1>1. /\ call = "readln" /\ input # <<>> /\ input' = Tail(input)
      /\ UNCHANGED <<stdin, returned, readFailed>>
  BY Zenon DEF ReadByte
<1>. DEFINE c == Head(input)
<1>2. /\ IsRest(stdin, input') /\ Consumed \in 0 .. Len(stdin) - 1
      /\ Consumed' = Consumed + 1 /\ c = stdin[Consumed + 1]
  BY <1>1, LinesTypes, RestNext DEF Consumed
<1>3. c = input[1] /\ c \in Byte
  BY <1>1, LinesTypes, HeadTailProperties
<1>4. Current' = Current \o Kept(c) /\ Current \in Seq(Byte)
  BY ReadByteLine
<1>. HIDE DEF c
<1>5. AllRead(stdin, Consumed, Len(returned)) => FALSE
  BY <1>2, LinesTypes DEF AllRead
<1>6. ASSUME Reading(stdin, Consumed, Len(returned), Current)
      PROVE  Position'
  <2>1. CASE ReadNewLine
    <3>1. c = NewLine /\ call' = "readlnLen"
      BY <1>3, <2>1, Zenon DEF ReadNewLine, EndLine
    <3>2. Kept(c) = <<>>
      BY <3>1 DEF Kept
    <3>3. Current' = Current
      <4>1. Current \o <<>> = Current
        BY <1>4, BytesConcatenation, ZenonT(60)
      <4>. QED
        BY <1>4, <3>2, <4>1, Zenon
    <3>4. Consumed + 1 \in Ends(stdin)
      <4>1. PICK i \in 1 .. Len(stdin) : i = Consumed + 1
        BY <1>2, LinesTypes, LenProperties
      <4>2. stdin[i] = NewLine
        BY <1>2, <3>1, <4>1, Zenon
      <4>3. i \in Ends(stdin)
        BY <4>2, LinesTypes, EndsType
      <4>. QED
        BY <4>1, <4>3
    <3>5. HasRead(stdin, Consumed + 1, Len(returned), Current)
      BY <1>6, <3>4, LinesTypes, ReadingEnds
    <3>. QED
      BY <1>1, <1>2, <3>1, <3>3, <3>5, Zenon DEF Position
  <2>2. CASE ReadCarriageReturn \/ ReadChar
    <3>1. c # NewLine /\ call' = "readln"
      BY <1>1, <1>3, <2>2, Zenon DEF ReadCarriageReturn, ReadChar
    <3>2. Reading(stdin, Consumed + 1, Len(returned), Current \o Kept(c))
      BY <1>2, <1>6, <3>1, LinesTypes, ReadingNext
    <3>. QED
      BY <1>1, <1>2, <1>4, <3>1, <3>2, Zenon DEF Position
  <2>. QED
    BY <2>1, <2>2 DEF ReadByte
<1>7. Position => Position'
  BY <1>1, <1>5, <1>6, Zenon DEF Position
<1>. QED
  BY <1>1, <1>2, <1>7 DEF LinesInv, InputIsRest, LinesReturned

\* The program gets the string.
LEMMA ReadlnLenLines ==
  ASSUME IInv, LinesInv, ReadlnLen
  PROVE  LinesInv'
<1>1. /\ call = "readlnLen" /\ call' = "none" /\ returned' = Append(returned, Current)
      /\ UNCHANGED <<stdin, input, readFailed>>
  BY Zenon DEF ReadlnLen, world, Current
<1>2. PICK k \in Nat : k = Len(returned)
  BY LinesTypes
<1>3. Current \in Seq(Byte)
  BY <1>1, LinesTypes
<1>4. Len(returned') = k + 1
  BY <1>1, <1>2, <1>3, LinesTypes, AppendProperties
<1>5. Consumed' = Consumed
  BY <1>1 DEF Consumed
<1>6. ASSUME LinesReturned, Position
      PROVE  LinesReturned' /\ Position'
  <2>1. CASE AllRead(stdin, Consumed, k)
    <3>1. AllRead(stdin, Consumed, k + 1) /\ AreLines(stdin, returned')
      BY <1>1, <1>2, <1>3, <1>6, <2>1, LinesTypes, AllReadNext DEF LinesReturned
    <3>. QED
      BY <1>1, <1>4, <1>5, <3>1, Zenon DEF LinesReturned, Position
  <2>2. CASE HasRead(stdin, Consumed, k, Current)
    <3>1. /\ AllRead(stdin, Consumed, k + 1) \/ AtStart(stdin, Consumed, k + 1)
          /\ AreLines(stdin, returned')
      BY <1>1, <1>2, <1>3, <1>6, <2>2, LinesTypes, HasReadNext DEF LinesReturned
    <3>. QED
      BY <1>1, <1>4, <1>5, <3>1, Zenon DEF LinesReturned, Position
  <2>. QED
    BY <1>1, <1>2, <1>6, <2>1, <2>2, Zenon DEF Position
<1>. QED
  BY <1>1, <1>6 DEF LinesInv, InputIsRest

\* Every step preserves LinesInv.
LEMMA LinesStep ==
  ASSUME IInv, LinesInv, [Next]_vars
  PROVE  LinesInv'
<1>1. CASE UNCHANGED vars
  <2>1. UNCHANGED <<stdin, input, returned, readFailed, call, buffer, length>>
    BY <1>1 DEF vars, program, runtime, world, ghost
  <2>2. Current' = Current /\ Consumed' = Consumed
    BY <2>1 DEF Current, Consumed, Text
  <2>. QED
    BY <2>1, <2>2 DEF LinesInv, InputIsRest, LinesReturned, Position
<1>2. CASE ReadFails
  BY <1>2, Zenon DEF ReadFails, world, LinesInv, InputIsRest
<1>3. ASSUME NEW args, StartPrint(args)
      PROVE  LinesInv'
  BY <1>3, OtherLines, Zenon DEF StartPrint, StartBuiltin, world
<1>4. ASSUME NEW ok, Parse(ok)
      PROVE  LinesInv'
  BY <1>4, OtherLines, Zenon DEF Parse, StartBuiltin, world
<1>5. ASSUME NEW n, Write(n)
      PROVE  LinesInv'
  BY <1>5, OtherLines, Zenon DEF Write, ghost
<1>6. CASE PieceWritten \/ WriteFails
  <2>1. /\ call = "print" /\ NextPiece
        /\ UNCHANGED <<stdin, input, returned, readFailed>>
    BY <1>6, Zenon DEF PieceWritten, WriteFails, world
  <2>2. call' \in {"none", "print"}
    BY <2>1 DEF NextPiece
  <2>. QED
    BY <2>1, <2>2, OtherLines
<1>. QED
  BY <1>1, <1>2, <1>3, <1>4, <1>5, <1>6, StartLines, EndLines, ReadByteLines, ReadlnLenLines
     DEF Next, RuntimeStep

-----------------------------------------------------------------------------
(* Theorems.                                                               *)

\* LinesInv holds in every state.
THEOREM LinesInvariant == Spec => []LinesInv
<1>1. Init /\ IInv => LinesInv
  <2>. SUFFICES ASSUME Init, IInv
                PROVE  LinesInv
    OBVIOUS
  <2>1. stdin \in Seq(Byte) /\ input = stdin /\ returned = <<>> /\ call = "none"
    BY DEF Init, IInv, TypeOK
  <2>2. Consumed = 0 /\ IsRest(stdin, input)
    BY <2>1 DEF Consumed, IsRest
  <2>3. AtStart(stdin, 0, 0)
    BY <2>1, EndsType, NumberFirst DEF AtStart
  <2>4. Len(returned) = 0
    BY <2>1
  <2>5. Position
    BY <2>1, <2>2, <2>3, <2>4, Zenon DEF Position
  <2>6. LinesReturned
    BY <2>1, <2>4, NumberPositive, LinesFinite DEF LinesReturned, AreLines
  <2>. QED
    BY <2>2, <2>5, <2>6 DEF LinesInv, InputIsRest
<1>2. IInv /\ LinesInv /\ [Next]_vars => LinesInv'
  BY LinesStep
<1>. QED
  BY <1>1, <1>2, InductiveInvariant, PTL DEF Spec

\* When every line leaves room for its terminator and one byte more, the n-th readln
\* returns the n-th line, for every buffer size and every input, until a read fails
\* (nex_runtime_readln_data).
THEOREM ShortLinesAreWhole == Spec => []ShortLinesAreReadWhole
<1>1. IInv /\ LinesInv => ShortLinesAreReadWhole
  <2>. SUFFICES ASSUME IInv, LinesInv, ~readFailed, AreShort(stdin), NEW line \in Lines(stdin),
                       Number(stdin, line.start) <= Len(returned)
                PROVE  returned[Number(stdin, line.start)] = line.text
    BY Zenon DEF ShortLinesAreReadWhole, AreShort, Number, UpTo
  <2>1. PICK s \in Starts(stdin) : line = LineAt(stdin, s)
    BY LinesAre
  <2>2. line.start = s /\ line.text = LineText(stdin, s)
    BY <2>1 DEF LineAt
  <2>. QED
    BY <2>2 DEF LinesInv, LinesReturned, AreLines
<1>. QED
  BY <1>1, InductiveInvariant, LinesInvariant, PTL
=============================================================================
