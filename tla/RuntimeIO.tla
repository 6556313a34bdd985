------------------------------ MODULE RuntimeIO ------------------------------
(***************************************************************************)
(* Input and output of a compiled program: the runtime functions of        *)
(* runtime/nex_runtime.c (nex_runtime_print_str, nex_runtime_readln_data,  *)
(* nex_runtime_readln_len, the parse functions, nex_runtime_last_ok_flag), *)
(* called the way src/mlir/textual.cpp lowers print, println, readln,      *)
(* parse_* and input_ok.                                                   *)
(*                                                                         *)
(* The program is single-threaded; what interleaves with it is the kernel, *)
(* which decides for every write(2) and read(2) whether it fails, and how  *)
(* many bytes a write takes.  One action is one system call, or the start  *)
(* of one built-in of the program.                                         *)
(*                                                                         *)
(* A print is a sequence of pieces (literal segments, arguments, the final *)
(* newline of println), each a call of nex_runtime_print_str: piece is     *)
(* what is left to write of the current one, pieces are those to come.     *)
(***************************************************************************)
EXTENDS Naturals, Sequences, FiniteSets, SequencesExt

CONSTANTS
  Char,            \* the bytes of a line
  NewLine,         \* '\n'
  CarriageReturn,  \* '\r'
  Nul,             \* '\0'
  BufferSize,      \* sizeof(nex_runtime_readln_buffer)
  Stdins,          \* what stdin may hold
  Literal,         \* a literal segment of a format string
  MaxPieces,       \* bound: pieces of one print
  MaxHeld,         \* bound: strs of readln that one expression uses
  MaxCalls         \* bound: built-ins called

Byte == Char \cup {NewLine, CarriageReturn, Nul}

\* A byte '\0' of the input is stored like any other: Nul may be in Char.
ASSUME BytesAssumption ==
  NewLine # CarriageReturn /\ {NewLine, CarriageReturn} \cap Char = {}
ASSUME BufferAssumption == BufferSize \in Nat \ {0}
ASSUME StdinAssumption == Stdins \subseteq Seq(Char \cup {NewLine, CarriageReturn})
ASSUME LiteralAssumption == Literal \in Seq(Byte)
ASSUME BoundsAssumption == {MaxPieces, MaxHeld, MaxCalls} \subseteq Nat

VARIABLES
  stdin, input,       \* what stdin holds, and what has not been read of it
  buffer, length,     \* nex_runtime_readln_buffer, nex_runtime_readln_length
  lastOk,             \* nex_runtime_last_ok
  call,               \* the built-in the program is in
  piece, pieces,      \* what print has still to write
  output,             \* what write has taken
  held,               \* the lengths of the strs that the expression has read
  calls,              \* built-ins called
  \* Ghosts:
  asked,              \* what the program has asked to print
  writeFailed, readFailed,
  overwritten,        \* a str was printed after another readln had reused its buffer
  returned,           \* the strings that readln has returned
  answers             \* what input_ok may answer, after the last input or parse operation

program == <<call, piece, pieces, held, calls>>
runtime == <<buffer, length, lastOk>>
world == <<stdin, input, output>>
ghost == <<asked, writeFailed, readFailed, overwritten, returned, answers>>
vars == <<program, runtime, world, ghost>>

\* A str is a pointer to the buffer and a length.
Text(n) == [i \in 1 .. n |-> buffer[i - 1]]

\* The strings behind the strs held, when readln returned them.
HeldTexts == SubSeq(returned, Len(returned) - Len(held) + 1, Len(returned))

StartBuiltin(name) ==
  /\ call = "none"
  /\ calls < MaxCalls
  /\ calls' = calls + 1
  /\ call' = name

-----------------------------------------------------------------------------
(* print and println.                                                      *)

\* A piece of a print is the literal (0) or a str held; printing ends the
\* expression.
StartPrint(args) ==
  LET now == [k \in DOMAIN args |->
                IF args[k] = 0 THEN Literal ELSE Text(held[args[k]])]
      meant == [k \in DOMAIN args |->
                  IF args[k] = 0 THEN Literal ELSE HeldTexts[args[k]]]
  IN /\ StartBuiltin("print")
     /\ piece' = Head(now) /\ pieces' = Tail(now)
     /\ asked' = asked \o FlattenSeq(meant)
     /\ overwritten' = (overwritten \/ \E k \in DOMAIN args : args[k] \in 1 .. Len(held) - 1)
     /\ held' = <<>>
     /\ UNCHANGED <<runtime, world, writeFailed, readFailed, returned,
                    answers>>

\* nex_runtime_print_str returns: the next piece, or back to the program.
NextPiece ==
  IF pieces = <<>>
    THEN call' = "none" /\ piece' = <<>> /\ UNCHANGED pieces
    ELSE piece' = Head(pieces) /\ pieces' = Tail(pieces) /\ UNCHANGED call

\* Mutant of unwritten: a short write is taken for a complete one.
unwrittenNothing(n) == <<>>

\* What is left of the piece after a write of n bytes.
unwritten(n) == SubSeq(piece, n + 1, Len(piece))

\* write(1, data, length) takes n bytes.
Write(n) ==
  /\ call = "print"
  /\ n \in 1 .. Len(piece)
  /\ output' = output \o SubSeq(piece, 1, n)
  /\ piece' = unwritten(n)
  /\ UNCHANGED <<call, pieces, held, calls, runtime, stdin, input, ghost>>

\* write fails, also when it is interrupted: the rest of this piece is given up,
\* but not the pieces after it.
WriteFails ==
  /\ call = "print"
  /\ piece # <<>>
  /\ lastOk' = FALSE
  /\ writeFailed' = TRUE
  /\ answers' = answers \cup {FALSE}
  /\ NextPiece
  /\ UNCHANGED <<held, calls, buffer, length, world, asked, readFailed, overwritten,
                 returned>>

PieceWritten ==
  /\ call = "print"
  /\ piece = <<>>
  /\ lastOk' = TRUE
  /\ answers' = answers \cup {TRUE}
  /\ NextPiece
  /\ UNCHANGED <<held, calls, buffer, length, world, asked, writeFailed, readFailed,
                 overwritten, returned>>

-----------------------------------------------------------------------------
(* readln: nex_runtime_readln_data, then nex_runtime_readln_len.           *)

\* Mutant of StartReadln: the length is not reset.
StartReadlnKeepingLength(kept) ==
  /\ StartBuiltin("readln")
  /\ Len(kept) < MaxHeld
  /\ held' = kept
  /\ UNCHANGED <<piece, pieces, runtime, world, ghost>>

\* In the expression that holds the strs of kept, or in a new one.
StartReadln(kept) ==
  /\ StartBuiltin("readln")
  /\ Len(kept) < MaxHeld
  /\ held' = kept
  /\ length' = 0
  /\ UNCHANGED <<piece, pieces, buffer, lastOk, world, ghost>>

\* Mutant of EndLine: only the end of the input sets the status.
EndLineKeepingStatus(ok) ==
  /\ call' = "readlnLen"
  /\ buffer' = [buffer EXCEPT ![length] = Nul]
  /\ lastOk' = ok
  /\ UNCHANGED length

\* The loop is over: the string gets its terminator.  A string that is not empty
\* is a success; otherwise nex_runtime_last_ok is ok.
EndLine(ok) ==
  /\ call' = "readlnLen"
  /\ buffer' = [buffer EXCEPT ![length] = Nul]
  /\ lastOk' = (length > 0 \/ ok)
  /\ UNCHANGED length

\* A line is a success; an empty one does not say so.
afterLine == IF length > 0 THEN {TRUE} ELSE answers \cup {TRUE}

\* Mutants of bufferFull: the byte for the terminator is forgotten; the loop
\* stops one byte early.
bufferOverfull == length = BufferSize
bufferNearlyFull == length + 2 >= BufferSize

bufferFull == length + 1 >= BufferSize

LineBufferFull ==
  /\ call = "readln"
  /\ bufferFull
  /\ EndLine(lastOk)
  /\ answers' = afterLine
  /\ UNCHANGED <<piece, pieces, held, calls, world, asked, writeFailed,
                 readFailed, overwritten, returned>>

\* read(0, &c, 1) gets a byte.
ReadNewLine ==
  /\ input[1] = NewLine
  /\ EndLine(lastOk)
  /\ answers' = afterLine

ReadCarriageReturn ==
  /\ input[1] = CarriageReturn
  /\ UNCHANGED <<call, runtime, answers>>

ReadChar ==
  /\ input[1] \in Char
  /\ buffer' = [buffer EXCEPT ![length] = input[1]]
  /\ length' = length + 1
  /\ UNCHANGED <<call, lastOk, answers>>

ReadByte ==
  /\ call = "readln"
  /\ ~bufferFull
  /\ input # <<>>
  /\ input' = Tail(input)
  /\ ReadNewLine \/ ReadCarriageReturn \/ ReadChar
  /\ UNCHANGED <<piece, pieces, held, calls, stdin, output, asked, writeFailed,
                 readFailed, overwritten, returned>>

\* Mutant of ReadEnd: only a newline ends a line.
ReadEndRetried ==
  /\ call = "readln"
  /\ ~bufferFull
  /\ input = <<>>
  /\ UNCHANGED vars

\* The end of the input is a failure when nothing was read.
ReadEnd ==
  /\ call = "readln"
  /\ ~bufferFull
  /\ input = <<>>
  /\ EndLine(FALSE)
  /\ answers' = {length > 0}
  /\ UNCHANGED <<piece, pieces, held, calls, world, asked, writeFailed,
                 readFailed, overwritten, returned>>

\* read fails, also when it is interrupted: the bytes of this line are lost.
ReadFails ==
  /\ call = "readln"
  /\ ~bufferFull
  /\ call' = "readlnLen"
  /\ lastOk' = FALSE
  /\ length' = 0
  /\ buffer' = [buffer EXCEPT ![0] = Nul]
  /\ readFailed' = TRUE
  /\ answers' = {FALSE}
  /\ UNCHANGED <<piece, pieces, held, calls, world, asked, writeFailed, overwritten,
                 returned>>

\* The program has its str: the pointer to the buffer, and the length.
ReadlnLen ==
  /\ call = "readlnLen"
  /\ call' = "none"
  /\ held' = Append(held, length)
  /\ returned' = Append(returned, Text(length))
  /\ UNCHANGED <<piece, pieces, calls, runtime, world, asked, writeFailed,
                 readFailed, overwritten, answers>>

-----------------------------------------------------------------------------
\* parse_i32, parse_u64, parse_bool of a str or of a literal.
Parse(ok) ==
  /\ StartBuiltin("none")
  /\ lastOk' = ok
  /\ answers' = {ok}
  /\ UNCHANGED <<piece, pieces, held, buffer, length, world, asked, writeFailed,
                 readFailed, overwritten, returned>>

-----------------------------------------------------------------------------

Init ==
  /\ stdin \in Stdins /\ input = stdin
  /\ buffer = [i \in 0 .. BufferSize - 1 |-> Nul] /\ length = 0
  /\ lastOk = TRUE
  /\ call = "none" /\ piece = <<>> /\ pieces = <<>>
  /\ output = <<>>
  /\ held = <<>> /\ calls = 0
  /\ asked = <<>> /\ writeFailed = FALSE /\ readFailed = FALSE
  /\ overwritten = FALSE
  /\ returned = <<>> /\ answers = {TRUE}

\* The built-in that is running goes on.
RuntimeStep ==
  \/ \E n \in 1 .. Len(piece) : Write(n)
  \/ PieceWritten
  \/ LineBufferFull
  \/ ReadByte
  \/ ReadEnd
  \/ ReadlnLen

Next ==
  \/ \E count \in 1 .. MaxPieces :
       \E args \in [1 .. count -> 0 .. Len(held)] : StartPrint(args)
  \/ \E kept \in {held, <<>>} : StartReadln(kept)
  \/ \E ok \in BOOLEAN : Parse(ok)
  \/ RuntimeStep
  \/ WriteFails
  \/ ReadFails

\* System calls return, and the program goes on when they do; none has to fail.
Spec == Init /\ [][Next]_vars /\ WF_vars(RuntimeStep)

-----------------------------------------------------------------------------
(* Properties.                                                             *)

\* Types of the state, and: the terminator of a line always has its place.
TypeOK ==
  /\ {stdin, input, piece, output, asked} \subseteq Seq(Byte)
  /\ pieces \in Seq(Seq(Byte)) /\ returned \in Seq(Seq(Byte))
  /\ buffer \in [0 .. BufferSize - 1 -> Byte]
  /\ length \in 0 .. BufferSize - 1
  /\ held \in Seq(0 .. BufferSize - 1) /\ Len(held) <= MaxHeld
  /\ call \in {"none", "print", "readln", "readlnLen"}
  /\ calls \in 0 .. MaxCalls
  /\ {lastOk, writeFailed, readFailed, overwritten} \subseteq BOOLEAN
  /\ answers \subseteq BOOLEAN

\* As long as no write has failed and no str was printed after a later readln of the
\* same expression, what has been written and what is still to be written is what the
\* program has asked to print: short writes neither lose, nor repeat, nor reorder
\* bytes, and a str still has the text that its readln returned.  (print_str and the
\* strs of readln in one buffer.)
OutputIsWhatWasAsked ==
  ~writeFailed /\ ~overwritten => output \o piece \o FlattenSeq(pieces) = asked

\* The bytes of the lines; line endings are not part of them.
Payload(bytes) ==
  FlattenSeq([i \in DOMAIN bytes |-> IF bytes[i] \in Char THEN <<bytes[i]>> ELSE <<>>])

\* Whatever the lengths of the lines, no byte of the input is lost or read twice
\* unless a read fails: the strings returned, the line being read and the rest of
\* the input are the whole input.  (nex_runtime_readln_data.)
NoByteLost ==
  LET current == IF call \in {"readln", "readlnLen"} THEN Text(length) ELSE <<>>
  IN ~readFailed =>
       FlattenSeq(returned) \o current \o Payload(input) = Payload(stdin)

\* The lines of some bytes, and where each one starts; the last one is what
\* follows the last newline.
Lines(bytes) ==
  LET ends == {i \in DOMAIN bytes : bytes[i] = NewLine} \cup {Len(bytes) + 1}
      starts == {0} \cup (ends \ {Len(bytes) + 1})
  IN {[start |-> s,
       text |-> Payload(SubSeq(bytes, s + 1, (CHOOSE e \in ends : e > s /\ \A f \in ends : f > s => e <= f) - 1))] :
        s \in starts}

\* When every line leaves room for its terminator and one byte more, the n-th
\* readln returns the n-th line.  (The bound of the loop of
\* nex_runtime_readln_data.)
ShortLinesAreReadWhole ==
  LET lines == Lines(stdin)
      number(line) == Cardinality({l \in lines : l.start <= line.start})
  IN ~readFailed /\ (\A line \in lines : Len(line.text) + 1 < BufferSize) =>
       \A line \in lines :
         number(line) <= Len(returned) => returned[number(line)] = line.text

\* input_ok reports how the last input or parse operation ended, whatever came before
\* it, with two exceptions: the pieces of a print set the same flag, and a line that is
\* empty leaves it as it was.  In particular it reports no failure after an operation
\* that succeeded, unless a write failed or such a line hides it.
\* (The places that set nex_runtime_last_ok.)
InputOkReportsInput == call = "none" => lastOk \in answers

\* Every built-in returns, whatever the kernel answers.  (The loops of
\* nex_runtime_print_str and nex_runtime_readln_data.)
BuiltinsReturn == (call # "none") ~> (call = "none")
=============================================================================
