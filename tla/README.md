# A TLA+ development of the nexc compiler

nexc compiles the language nex: lexer, parser, semantic analysis, a typed IR,
MLIR, LLVM IR, then `llc` and a linker, with a small runtime in C.  This
directory models the parts of it where a mistake is easy to make and hard to
see in a test, checks the models with TLC on small instances, and proves what
matters most with TLAPS for every value of the constants.

Paths below are relative to the repository, so `src/frontend/semantic.cpp` is
the semantic analyzer.  `PROJECT.json` maps every definition to its lines.

## 1. Inventory

| Part | State it keeps | Operations | What makes it correct | Module |
|---|---|---|---|---|
| Lexer (`src/frontend/lexer.cpp`) | position in the text, tokens so far, diagnostics | `nextToken`, comments, numbers, strings | tokens are the longest that fit and cover the text; every call advances or ends | `Lexer` |
| Parser (`parser.cpp`, `ast.cpp`) | position in the token vector | one function per production, recovery to the next statement | what it accepts is the text it was given; precedence; it ends on every text | `Parser` |
| Symbols and types (`semantic.cpp`) | module-level maps, expected type | collection of functions and constants; `analyzeExpr`, `analyzeStmt` | what is accepted is what the typing rules of the reference allow | `Expressions`, `ExpressionLowering` |
| Names and scopes (`semantic.cpp`, `src/ir/builder.cpp`) | a stack of maps in each of the two passes | push, pop, declare, look up | both passes resolve a name to the same declaration | `ScopeResolution` |
| Definite assignment and return paths (`semantic.cpp`) | `definiteAssign_`, `arrayElemAssign_`, snapshots in the activation records | one case of `analyzeStmt` per statement, merges, restorations | an accepted program loads only what it has stored; a non-void function returns | `DefiniteAssignment` |
| Constants (`semantic.cpp`, `src/mlir/textual.cpp`) | values of constant expressions | the evaluator; replay of a constant at its use | both sides compute the same value; evaluation ends | `Expressions`, `ExpressionLowering` |
| IR builder (`src/ir/builder.cpp`) | the block being built, locals, scopes | `buildStmt`, `buildExpr`, `inferExprType`, places | the IR does what the AST says, on the types the analyzer found | `ExpressionLowering`, `LoopLowering` |
| MLIR lowering (`src/mlir/textual.cpp`) | MLIR builder position, slots, `activeLoops_` | one `lower*` per operation | the lowered code does what the IR says, or lowering refuses | `ExpressionLowering`, `LoopLowering` |
| Format strings and literals (`string_literal_decode.cpp`, both passes) | none | decoding, split into segments and holes, lowering to runtime calls | analyzer and lowering split alike; the output is the expansion | `FormatText` |
| Runtime, text of numbers (`runtime/nex_runtime.c`) | none | print and parse of integers, floats, bools | integers are printed exactly, floats rounded; parsing accepts exactly the numbers of the type | `Numbers` |
| Runtime, streams (`runtime/nex_runtime.c`) | one line buffer, its length, one status flag | print, readln, parse, `input_ok` | output complete and in order; a line is read once; the status is that of the last operation that sets it | `RuntimeIO` |
| Driver (`src/tools/nexc/main.cpp`) | options, two temporary files, child processes | the phases, `llc`, the linker | exit status 0 means that the program is at its output; no file is left behind | `Driver`, `Compilation` |
| Diagnostics, dumps, LLVM pass pipeline | a list; none; none | rendering | layout, not modelled (section 6) | |

**How they interact.**  Each phase runs once, to its end, on the result of the
one before; the analyzer stops nothing by itself, but the driver runs the
builder only when no diagnostic is an error.  So the contract between parts is
what the later one assumes of an accepted program: the builder types every
expression and resolves every name again, with functions of its own, and must
come to the analyzer's answers; the lowering emits loads without any check,
because definite assignment has been established; the lowering expects shapes
that the analyzer does not check, and throws otherwise.  At run time the
compiled program calls the runtime, which calls the kernel.

**What is hard.**  One compilation is sequential.  Its hard behaviours are long
legal sequences: state saved before a nested statement and restored after it,
one pass that must mirror another, control that leaves a nest of statements from
the middle, an analysis that looks at a loop once while it runs many times, and
programs that pass the analyzer and stop a later phase.  In the runtime, the
kernel may take fewer bytes than it was given, may fail, or may end the input
anywhere, and all operations share one buffer and one flag.  Drivers do run
concurrently: several of them share one temporary directory, and each waits for
two child processes.  `PROJECT.json` lists these hazards at their lines, with
the properties that catch them.

## 2. Plan

Done:

1. `DefiniteAssignment`, `DefiniteAssignmentProofs`: the analysis, beside one
   execution of the analyzed program.  *Checked and proved.*
2. `LoopLowering`, `LoopLoweringProofs`: from statements to executed code, compared
   with the language reference.  *Checked; proved which programs
   are lowered, and that they are lowered as written.*
3. `ScopeResolution`, `ScopeResolutionProofs`: the scopes of analyzer and
   builder, side by side.  *Checked and proved.*
4. `RuntimeIO`, `RuntimeIOProofs`, with `SequenceLemmas`:
   the runtime and the kernel.  *Checked, with liveness; safety proved.*
5. `Numbers`, `FormatText`, `FormatTextProofs`: a print from its
   literal to its output, and parsing.  *Checked over small widths; proved for
   every width, format string and function.*
6. `Lexer`, `Parser`, `LexerProofs`: from characters to the tree.  *Checked; the
   tokens proved for every text.*
7. `Driver`, `Compilation`, `DriverProofs`: several drivers, and what they
   promise.  *Checked and proved, refinement included; liveness checked.*
8. `Expressions`, `ExpressionLowering`, `ExpressionRules`: types, constants,
   calls and arrays of one statement through all passes to its execution, beside
   the rules of the reference.  *Checked.*

Left, in order of worth:

9. `Dataflow`: the abstract specification of definite assignment (the elements
    assigned on every path), implemented by `DefiniteAssignment` outside the step
    of a `for`.
10. Theorems about the parts that still have recursive operators: `Parser` and
    `Expressions`, as was done for `LoopLowering` (section 6).

## 3. The models

Each specification has an `MC` module with the definitions that its
configurations need.  `Parser` extends `Lexer` and is fed by it; `FormatText`
extends `Numbers`; `ExpressionLowering` extends `Expressions`; `Driver` implements
`Compilation`.  The others are not composed: what one guarantees to another is
stated in it (`rejected` ends a behaviour, because the builder then never runs).

### Lexer and Parser

One action of `Lexer` is one turn of the loops of `tokenize`: a piece of trivia
skipped, or one token, with the spans and the spellings of the code.  One action
of `Parser` is one turn of the loop of `parseTranslationUnit`; inside it the
recursive descent is a family of functions from a parser state to a parser
state, with `current_`, whether an error was reported or an exception thrown,
and the tree.  `expect` consumes nothing when the token is missing, as in the
code, so recovery is what the code does.  The properties read the tree back as
text: an accepted program is the text it came from.  `TokensAreLongest` says of
every token that it is a lexeme and that no longer one starts at its place; what a
lexeme is (`IsLexeme`, after `docs/reference/language`) is declared on positions
of the text and shares no scanning with the model.

### Expressions, ExpressionLowering, ExpressionRules

A behaviour takes one program: some module constants, a function signature and
one statement.  `Analyze` collects the names and types the statement
(`Expressions` is `analyzeExpr` with the evaluator of constants); `Build` makes
the IR (`buildExpr`, `inferExprType`, the coercions, short circuits as two
blocks); `Lower` says whether the lowering and the verification of the MLIR
module get through, following the replay of constants; then `Operate`,
`CallFunction`, `EnterArm`, `EnterConst`, `LeaveBlock` and `FinishStatement`
execute one operation each.  Values are bit patterns of `Width` bits; an
operation interprets them with the sign that the lowering gives it.
`ExpressionRules` states the reference: the types an expression may have, and
what it computes, with its calls in order.  The exceptions of its properties are
the disagreements listed in section 4.  i32 stands for the signed integers, u32
for the unsigned ones, f64 for both floats; the value of a float or a str is not
followed.

### ScopeResolution

The analyzer's `scopes_` and the builder's walk the same function statement by
statement.  Ghosts relate the slot of each binding (`slotOf`), the slots whose
MLIR region is closed (`lost`), the slots of a `for` that is over (`leaked`) and
the bindings declared by a statement that is itself an arm or a body (`bare`).
The builder does not build what follows a return, break or continue in a block;
the analyzer does analyze it.  A lookup changes nothing, so lookups are not
actions: the properties quantify over the names at a `LookupPoint`.  Ids and
slots are numbered from 1, with 0 for absent.  Types and mutability are left
out; a duplicate declaration rejects.

### DefiniteAssignment

*State.*  `definiteAssign`, `arrayElemAssign`, `scope` (the union of
`scopeBindingIds_`) and `nextBindingId` are the analyzer's fields.  `frames` and
`depth` are the C++ activation records of `analyzeStmt`, with the snapshots each
holds.  An absent mask and a mask of zeros are one value, since every reader
treats them alike.

*Actions.*  One per statement, or per boundary inside a compound statement:
`OpenIf`, `OpenElse`, `CloseIf` (with the merge), `OpenWhile`, `EnterWhileBody`,
`CloseWhile`, and for `for` also `EnterForHead`, `EnterForStep`.  `Next`
chooses the next statement, so the behaviours are the analyses of all programs
within the bounds.  Reads are actions of their own: whole value, one element,
a slice, an element with an index that is not constant.

*Ghost execution.*  `mem` is what one execution has stored, `exec` where it is:
at the point the analyzer has reached, parked at a later point (the else arm,
the join after an if, the exit of a loop, the step of a `for`), running a step
that a `continue` jumped to, or gone.  A loop is analyzed once but runs many
times: on entry `mem` becomes any superset of itself, which stands for what
earlier iterations may have stored, and an execution that takes the back edge is
gone, its next iteration being one of those already considered.

*Left out.*  Types, names, mutability and duplicate declarations: more programs
are walked than would be accepted, which is harmless for properties of accepted
ones.  The texts of `defAssignReasons_`.  Operands that `&&` and `||` skip are
taken as executed.  An index out of bounds is diagnosed elsewhere.  The scope of
the function and that of its body are one frame.

### LoopLowering

A behaviour compiles one program and runs it twice in lock step: as the reference
says (`src`), and as the lowered code says (`low`).  The two must agree on their
events: the effects, the conditions evaluated, for either outcome, the exits from
loops by `break`, and the end.  The compilation is the builder's
(`buildBlockStatements`, including what it leaves out behind a return, break or
continue) followed by the lowering's (`lowerRegion`), which is defined case by
case as in the code: `FallthroughRegionEnd`, the exit flag, the step at the end
of the body, the shapes that throw or that the verifier refuses (`ok`).  Both are
recursive functions on the statements of up to `MaxNesting` levels.

An execution is a stack of frames: what is left to do in the function and in the
iteration of each open loop, for lowered code with the exit flag of the loop.
`PerformEffect`, `EvaluateCondition` and `LeaveLoop` are the events, which both
take at once or not at all; `EnterBlock`, `RunContinue` and `RunSetExit` are the
steps of one of them that nobody sees.

Expressions, values and types are left out; so is the `init` clause (an effect
before the loop), and an omitted condition is one that is always true.  The
programs have no loop control outside a loop, which the analyzer refuses.

### FormatText and Numbers

A behaviour is one call of `print` or `println` in a function: `Analyze` decodes
the literal and checks holes against arguments, `Lower` searches the literal in
the IR operations of the function (`findStringLiteralRaw`, with its early end),
splits it again and makes the calls of the runtime, widening the arguments, and
each `Write` is one call.  `ReadBack` and `ParseText` give a text to the parsers.
`Numbers` is the runtime's arithmetic modulo `2^Bits`, with its overflow guard
and its digit loops.  Both are written without recursive operators: a loop is a
function from its turns to its variable (`remaining`, `valueRead`, `decodeLoop`,
`parseLoop`), the recursive search of `findStringLiteralRaw` is a function from
the depth to the blocks it comes to (`scanned`, up to `MaxNesting`), and the place
where a loop stops is the one position with the properties of a stop (`turnsOf`, `skipSpaces`,
`skipDigits`).  A float is a number of units of `2^-FractionBits` (the least double
above nought), an infinity or not a number.  A number of units is a float when
`SignificandBits` bits hold it (`IsFloat`), and arithmetic rounds to the nearest one,
ties to even (`nearestFloat`): `rounded` has both outcomes that C allows for
`value * scale + 0.5`, the product and the sum rounded one after the other, or at
once when the compiler contracts them to a fused operation.  A conversion to
`uint64_t` out of range may give any value.

### RuntimeIO

One action is one system call, or the start or the end of a built-in.  A print
is a sequence of pieces, each one call of `nex_runtime_print_str`; a str of
`readln` is a length, since its pointer is always the one buffer; the strs of
one expression are `held` until it is printed.  Ghosts: what the program asked
to print, what the readlns returned when they returned it, whether a str was
printed after a later readln of its expression (`overwritten`: it then shows the
later line), and the status that `input_ok` may report (`answers`).  Which texts the parsers accept is left open
(`Parse` may succeed or fail; `Numbers` says which do); numbers are pieces like
any other.

### Driver and Compilation

Each driver has its own `pc` through `main` and, for a native compilation,
through `compileExecutable` system call by system call: `mkstemps` for the IR,
the lowering with the file open, `mkstemps` and `remove` for the object, the
runtime library, the guards, `llc`, the linker, the destructors.  Files are
shared; any call may fail, any phase may report errors or throw, a tool may leave
a broken file.  Between the `remove` and `llc` the object is only a name, which
another driver may be given too: the ghost `collision` records that.
`Compilation` is the promise: a run succeeds only after its own program is at
its output, and what fails puts none there; only runs with a common temporary
name can put another's program in place.  Left out: what the phases print, and
the other platforms' tools.

## 4. The runs

| Run | Bounds | Shows |
|---|---|---|
| `fe_texts` | texts of up to 5 of a few characters; some hundred programs of at most two items, rendered with blanks and comments; 4 programs with one token deleted, replaced, inserted, or cut off | `TokensAreLongest`; `AcceptedIsItsText`; `PrecedenceIsRespected`, all pairs of operators; `GrammarIsAccepted`; `EveryTurnAdvances` |
| `fe_literals` | the short texts | **violated** `LiteralsKeepTheirValue` |
| `ex_expressions` | `Width` = 3; every operator on operands of every type, nested once; constants of all values with one operator, some with two; constants that name each other; calls in decisions, arrays and stores; two worlds of values | `AcceptedIsWellTyped` and `WellTypedIsAccepted`: accepted is what the rules allow, but for the differences below; `ConstantsAreEvaluated`; `PassesAgreeOnTypes`; `AcceptedIsCompiled`; `ComputedAsWritten`, in value and in order of calls |
| `da_functions` | two scalars or one array of two elements, slices of one, 3 statements nested | `TypeOK`; `IInv`, the inductive invariant of the proofs; `NoUninitializedRead`; `ReturningCodeIsLeft`; `ScalarsStayReadable`: no path forgets a scalar; `CleanBetweenFunctions` |
| `da_for_continue` | 1 binding, 3 nested | **violated** `NoLoadBeforeStore` |
| `sr_scopes` | 2 names, one also a constant; 3 declarations, 4 scopes deep | `TypeOK`; `OnlyForLocalsLeak`: the passes disagree only about names of a `for` that is over; `VisibleSlotsAreLive` |
| `sr_for_scope` | 2 declarations, 3 deep | **violated** `NamesResolveAlike` |
| `ll_lowering` | 1 loop of at most 2 statements, with ifs, loop control in arms, nested loops; functions of returning ifs | `LoweringIsFaithful` where it is; `ContinueAdvances`; `ShallowControlIsLowered`: which programs compile |
| `ll_after_if` | as `ll_lowering` | **violated** `ExecutionContinuesAfterIf` |
| `ft_formats` | integers of 6 and 8 bits, floats with 5 significant bits and 6 below the point, precision at most 2; raw texts of 4 characters, formats of two fragments, two arguments; blocks two deep; inputs of 4 characters | `FormatStringsAreRead`; `PlainCallsAreLowered`; `OutputIsTheExpansion`; `FloatsAreRounded`; `ParsesAreExact`; `NumbersAreReadBack` |
| `io_runtime` | buffer of 3 bytes, stdin of at most 4, 3 built-ins, 2 pieces per print, two readlns per expression | `TypeOK`; `OutputIsWhatWasAsked`; `NoByteLost`; `ShortLinesAreReadWhole`; `InputOkReportsInput`; `BuiltinsReturn` |
| `drv_two` | 2 drivers, one of them compiling, 2 names of each kind, 2 outputs | `TypeOK`; `FilesAreOwn`; `GuardedFilesAreRemoved`; `ImplementsCompilation`; `DriversEnd` |

*Why the bounds are enough.*  Nesting three deep puts an if in a loop in a
function body, so that every snapshot is held while another is taken, and a loop
control leaves two statements at once.  Two bindings let a scope end while
another binding lives; two elements tell a partly assigned array from an empty
and a full one, and slices of one element from the whole.  For scopes, three
declarations allow shadowing inside and after a `for`.  Three bits give an
integer a sign, a literal that fits unsigned only, overflow of every operator
and shifts by the width; two worlds take both ways through each decision.  The
texts of one token changed reach every recovery.  Six bits in eight leave room
to widen with zeros and with signs, and 8 bits to overflow at the third digit.  With
five significant bits and six below the point, a float may lie just below a half,
where the sum rounds up, and in the range where floats are whole numbers.  A
buffer of three bytes has lines that are short (one byte), that fill it (two) and
that overflow it, and four bytes of input hold two lines of any of these kinds.
Two drivers with two names can meet at either kind of file, and a third would
meet each of them the same way: the theorems hold for any number.  Bounds are
constants or the sets of the `MC` modules: `MaxNesting` (2, the depth of the blocks
around a call in `FormatText`: one block with an if before the call and one inside it;
4 in `LoopLowering`, the most that a program of the family has), `Labels`, `MaxBinding`, `MaxDepth` (beyond it,
nothing is opened), `MaxPieces`, `MaxHeld`, `MaxCalls`, `MaxInput`, `MaxRaw`,
`MaxFragments`.  The state constraints `Accepted`, `AcceptedAndSmall` (an array is
the only binding) and `UsualLets` stop at programs that are refused, are
beyond the bound, or whose lets stand alone as an arm.

*Deadlock* is checked for the walks of functions and in `fe_texts`, where
`Finished` is the only end.  The others stop when their program, call or driver
has come to its end.

*Fairness.*  `Driver` assumes weak fairness of every driver: a process that can
go on does, and `llc` and the linker end.  `RuntimeIO` assumes weak fairness of
`RuntimeStep`: a system call returns and the program then goes on.  Neither
assumes that anything ever fails or succeeds, so a loop that waited for it would
be found.  Someone who never ends the line at a terminal is outside this.  The
other modules state safety only: they are sequential, and `EveryTurnAdvances`
(each turn of a loop consumes text or tokens) is an action property.

### What the violated runs show

1. **`for` and `continue`** (`src/frontend/semantic.cpp:1642`).  The step of a
   `for` is analyzed with the assignments of the whole body, but a `continue`
   skips some of them: an accepted program may load a local before any store.
2. **Statements after an `if` with loop control** (`src/mlir/textual.cpp:2048`)
   are not lowered, a `return` neither.
3. **The scope of a `for`** (`src/ir/builder.cpp:541`).  Its variables stay bound
   in the builder after the loop.
4. **Leading zeros** (`src/mlir/textual.cpp:156`).  A literal is decimal for the
   analyzer and octal for the lowering and for array lengths.

### Differences without a run of their own

The passing properties except these cases by name (that of two `readln`s by the
ghost `overwritten`); what the last paragraph lists is outside of them, but for the files left
by the driver.

*Loops* (`LoweringIsFaithful`): a `break` inside an `if` still runs the step
(`textual.cpp:1993`), and the condition is evaluated once more after it (1967).

*Types.*  An integer condition of `if`, `while` or `for` is allowed by
`docs/reference/language/statements.md:102` (and 111, 129) and accepted, but
MLIR verification fails (`textual.cpp:1882`).  A row of an array can be neither passed nor
returned.  An array is returned by reference to a stack slot of the callee
(`textual.cpp:1036`), so the caller of a function that returns a local array or a
literal, as in `examples/array_abi.nexs`, reads storage that is gone.
A comparison that begins with a literal is refused where a `bool` is expected,
and accepted but not lowered where no type is given (`semantic.cpp:2313`,
`builder.cpp:289`).  A list of pointers is typed as a list of what they point to.
Strs in locals and constants, `==` of strs, arrays or pointers, and an index
directly behind an array literal are accepted but throw.
`docs/reference/language/expressions.md:137` bounds every constant shift count by the
width; `semantic.cpp:2397` compares only when it knows both operands, and it knows the
value of no name: `x << 5` and `x << C` are accepted (`ShiftsUnchecked`), and the
lowered shift has no defined result.
`docs/reference/language/types.md:85` says that void is no value; a `let` with the
explicit type `void` (`semantic.cpp:1402` refuses it only where the type is inferred)
and `==` or `!=` of two calls of void functions (2333 to 2365) are accepted
(`UsesVoid`), and throw in the builder (`builder.cpp:661`).

*Constants.*  A constant that names itself, alone or through others, is replayed
for ever (`textual.cpp:794`); `&&` and `||` in a constant evaluate both operands
when replayed; a call hidden behind `false &&` is accepted in a constant and
throws where it is used; `~` of a signed constant is masked
(`semantic.cpp:2242`).  An unsigned index from the middle of its range on is
sign-extended (`textual.cpp:318`).  `docs/reference/language/types.md:55` lets signed
arithmetic wrap; the least integer divided by -1 is lowered to a division that does
not define it (`textual.cpp:1397`), so `ArithmeticDefined` leaves it out.

*Floats.*  `value * (double)scale + 0.5` is rounded as doubles are
(`nex_runtime.c:336`), so that what is printed is not always the nearest number: with
`{:.0}`, 0.49999999999999994 prints 1, and 4503599627370497.0 prints 4503599627370498.
No document says how floats are rounded; `FloatsAreRounded` says what the code
guarantees (section 5).

*Formats.*  A formatted print behind an `if`, `&&` or `||` of its block, and a
format string in parentheses, throw (`textual.cpp:105`).

*Runtime.*  Two `readln`s in one print share the buffer (`nex_runtime.c:63`),
so that the first is printed with the text of the second.  `docs/reference/language/builtins_and_io.md:107`
says that `input_ok` reports the last input; a print overwrites it and an empty
line leaves it as it was (35, 92).  Line 84 says that
`readln` reads one line; a line of 4095 bytes or more comes in parts.

*Front end and driver.*  `docs/design/definite_assignment.md:57` gives 65536 as
the number of elements tracked, the code 255; `statements.md` requires `= expr`
in a `let` of a `for` header, the parser does not; an array length that
`std::stoull` cannot read ends the driver with its usage and no diagnostic
(`parser.cpp:249`); a failure before the guards leaves the temporary IR file
(`main.cpp:283`).

## 5. The proofs

### DefiniteAssignmentProofs

For every `MaxBinding`, `MaxDepth`, `Elem` and `Slice` that satisfy the four
assumptions of `DefiniteAssignment` (the bounds are numbers, there is an element,
slices are sets of elements):

- `InductiveInvariant`: `Spec => []IInv`;
- `TypeCorrect`: `TypeOK`;
- `AcceptedProgramsLoadStoredElements`: `NoUninitializedRead`, that is,
  the analysis is sound except for finding 1;
- `ReturningStatementsAreLeft`: `ReturningCodeIsLeft`;
- `FunctionsStartClean`: `CleanBetweenFunctions`;
- `ScalarsAreKept`: `ScalarsStayReadable`.

*The inductive invariant.*  `NoUninitializedRead` is not inductive: it says
nothing of what the analyzer has recorded.  `CoverInv` does: what the analyzer
takes for assigned has been stored by the execution, for the state it will have
when it comes to where the execution is.  When the execution is at the
analyzer's point, that is the present state; when it is parked at an else arm,
the snapshot `before`; at the join after the then arm, `afterThen`; and while it
is inside a loop, the snapshot the loop will restore is covered too, since the
loop may be left at any moment.  `ParkingInv` says in which phases an execution
can be parked, so that nobody is parked at a place the walk has passed.
`ScopeInv` says that snapshots mention only bindings that will still be in
scope when they are restored, which `TypeOK` needs after `CloseWhile` and
`CloseFor`; `CleanBetweenFunctions` follows from it.  `StackInv` says that only
the top activation is between two parts of its statement.

*The argument.*  Each conjunct has its step lemma (`FramesStep`,
`TrackingStep`, `ScopeStep`, `GhostStep`, `ParkingStep`, `ReturningStep`,
`CoverStep`, `NoUninitializedReadStep`), which goes through the actions of
`Next`.  Lemmas about the stack (`PushEffect`, `PopEffect`, `RephaseEffect`,
`CompleteStmtEffect`) carry what each of them leaves alone; `MergeCovered`
carries the merge after an if, whose six cases for masks are the delicate part.
`IInv` is also an invariant of the run `da_functions`.

`ScalarsAreKept` has a strengthening of its own, `ScalarsKept`: what is said of
`definiteAssign` is not enough, since the ends of an arm and of a loop replace it
by a snapshot.  So the scalars of a snapshot must also be in every snapshot
nested in it, and in every `afterThen` of an if whose else arm is being analyzed;
the merge is then an intersection of sets that all have them (`MergeKeeps`), and
`ScopeInv` keeps `popScope` from erasing them.

### LoopLoweringProofs

For every `MaxNesting` and every set of `Programs` of statements so deep
(`ProgramsAssumption`), with any labels, in which no loop control is left outside of
the loops (`ControlAssumption`: the analyzer refuses it, `semantic.cpp:1656` and `:1664`):

- `LoweredAsWritten`: `LoweringIsFaithful`;
- `ShallowIsAccepted`: `ShallowControlIsLowered`.

By the first, which does not use `ControlAssumption`, in a program in which each if
with loop control ends its block, and breaks are out of reach of a step or of a
condition with effects (`controlIsLast`), lowered code does what the source says,
event by event, for every outcome of every condition and however long it runs.
Without this condition it does not (section 4).

*Recursion over statements.*  `Statements` is a recursive function of the level, so
`Code` has an induction (`CodeInduction`): what holds of a list when it holds of its
tail and of the lists in its first statement holds of all code.  `RecursionOnCode`
then proves of a recursive function on code, whose step looks only at what is inside
of its argument, that it is what its equation says; `BuildUnfolded`,
`LowerUnfolded`, `ControlsUnfolded`, `ShallowUnfolded` and others are its uses.

*What goes with what.*  At any time the source has a list of statements left in its
frame and lowered code a list of instructions, and the first may be anything that
iterations, arms and blocks leave behind.  `Pending(loop)` is the relation between the
two: the least that relates effects to themselves, and a list `X \o T` to the
code of `X`, as lowered in one of the places of the loop, followed by code related to
`T`; or to the code of `X` alone when control in `X` ends the iteration, closed as
`closeBody` closes it (`Pends`).  Its inversion, one lemma per kind of statement
(`AtBlock`, `AtEffect`, `AtLoop`, `AtIf`, `AtBreak`, `AtContinue`, `AtReturn`), says
what lowered code is at when the source is at that statement, and that what is left
behind it is related again.  `AtIf` is the hard one: the code behind the if is lowered
once, in the region of the if, and goes with either arm.  `RegionsJoined` lowers a
joined list piece by piece, which is what a nested block of the source needs.

*The inductive invariant*, `MatchedInv`, says that the two stacks are equally high and
related frame by frame (`FramesMatch`): the same loop, and what is left to do in
`Pending` of that loop, where a frame with its exit flag set counts as one that has
still to set it (`Due`), because the source is still at the `break` then.  Each action
has its lemma (`EnterBlockMatches`, `RunSetExitMatches`, ..), and `EventsMatch` draws
the conclusion.  That `FrameOf` finds the right flag among loops of the same name is
in `RunSetExitMatches`.

*What is lowered.*  A block is built flat: without blocks in it, and with a return at
its end only (`BuiltIsFlat`).  For a flat block without returns in its ifs and loops,
in any place that it may be at (`MayBeAt`: returns in functions, loop control in loops),
`AllIsShaped` proves three facts at once, since each needs the others one level down
(`ShapeFits`): the region is accepted if and only if control is shallow in the
block; if so, it is complete if and only if the block has no control of its loop; and
the verifier finds a terminator in it, or gets one added, if and only if the first
control is direct.  An if is the case that uses all three, of both arms (`IfIsShaped`).
`StatusInv`, that a program is running if it was accepted and rejected if not, is the
inductive invariant.

### ScopeResolutionProofs

For any `Name`, `Global`, `MaxBinding` and `MaxDepth` with `Global` among the
names and the bounds numbers:

- `InductiveInvariant`: `Spec => []IInv`;
- `TypeCorrect`: `TypeOK`;
- `NamesAgree`: `OnlyForLocalsLeak`, that is, the two passes give every name the
  same declaration, except for finding 3;
- `SlotsStayLive`: `VisibleSlotsAreLive`.

*The inductive invariant.*  The two stacks of scopes have different heights: the
builder has no scope of its own for the header of a `for`, and none for a block
it does not reach.  So the invariant counts: of the first `e` open statements,
`ScopesUpTo(e)` have a scope in the analyzer and `BlocksUpTo(e)` in the builder,
and `ScopesOfFrames` says that these are all the scopes there are.  `ScopesAgree`
then says of every `e` at which a block could end (`Boundary`), not only of the
top, that the names mean the same in the scopes up to `e`; what is under a block
must agree already while the block is open, because `CloseBlock` returns to it.
It stops at the first statement that the builder has left (`BuildingUpTo`), from
where the two do differ; `Walk` says that they come together again at the end of
that block.  `SlotsAreLive` is about all scopes, not only the visible names, since
a hidden name is visible again when its block ends; closing an arm loses the slots
made since it was opened, and `ArmsAreYounger` says that those of the
declarations outside are older.  `BindingsAreOld` makes the next declaration
differ from all others.

*The argument.*  A step changes the top of the stacks only, so one step lemma
serves a kind of action: `StatementStep`, `NextArmStep`, `OpenStep`, `CloseStep`,
`AcceptedStep` and `RefusedStep` (a declaration), `BeginStep`, `EndStep`.  Below
them `PushEffect`, `PopEffect` and the like say what happens to the open
statements, `CountStep` and `CountMonotone` what happens to the counts, and
`LookupOuter` and `ResolvesKept` that a lookup in the outer scopes does not see
the inner ones.  TLC has checked `IInv` within the bounds of `sr_scopes`.

### SequenceLemmas and RuntimeIOProofs

For any bytes, `BufferSize` above 0, `Stdins`, `Literal` and bounds that satisfy
the assumptions of `RuntimeIO`:

- `InductiveInvariant`: `Spec => []IInv`;
- `TypeCorrect`: `TypeOK`, in particular the terminator always has its place;
- `OutputIsComplete`: `OutputIsWhatWasAsked`;
- `InputIsComplete`: `NoByteLost`;
- `StatusIsReported`: `InputOkReportsInput`;
- `ShortLinesAreWhole`: `ShortLinesAreReadWhole`.

*The inductive invariant* adds to these what connects a call with the ones before
it: `Control` (only a print has pieces, and it holds no str; a `readln` has room
for one more), `LastStrIsFresh` (the last str held still has the text that its
`readln` returned, although the buffer is shared) and `StatusIsAnswer` (the
status is one that `input_ok` may report *during* a call too, since a call that
is under way has not set it yet).

*The argument.*  Output and input are equations between sequences, kept by moving
a byte or a piece over the concatenation sign.  Their right and left sides are
made by `FlattenSeq`, a fold of the community modules, and `SequenceLemmas`
proves what is needed of it by induction over lengths: `FlattenAppend`,
`FlattenHeadTail`, `FlattenConcatenation` and `FlattenType`.  The induction is over a set of numbers
(`NatSetInduction`, from well-foundedness), and `RecursionExists` and
`RecursionUnique` justify the recursive function that the fold is.

*Lines.*  `ShortLinesAreReadWhole` compares the strings returned with the lines
cut out of the whole input, so its proof needs to know where in its
lines the input is.  `LinesInv` says it: the input is the rest of `stdin`, the
strings returned are the first lines, and then the input is at the start of the
line with the next number, or in that line with the buffer holding what was read
of it, or behind it with the buffer holding all of it; or every line has been
returned.  The lemmas above it are about cutting alone (`NumberNext`: the line
that starts where another one ends has the next number) and about the payload of
a growing part (`PartGrows`), which is why a buffer with room for the line and
its terminator never stops the loop before the newline does (`EndLines`).  TLC
has checked `LinesInv` with the bounds of `io_runtime` and a fourth built-in.

### FormatTextProofs: numbers

For any `Bits` and any `IntBits` from 1 to `Bits - 1` (`WidthAssumption`; so for 64
and 32):

- `PrintsNumerals`: `print_u64_base` prints the shortest numeral of its value, in
  at most `Bits` digits, which is the size of its buffers;
- `DecimalIsShort`: three times the digits of a decimal numeral, but for the
  first, are fewer than `Bits`; with 64 bits there are 22 at the most, and the
  buffers of `print_u64_decimal` have 32 characters;
- `ParseU64IsExact`, `ParseI32IsExact`: the parsers accept exactly the numerals of
  the numbers of their types, of any length, with spaces around them and a sign
  for the second, and return the number that the numeral denotes;
- `U64IsReadBack`, `I32IsReadBack`: what is printed is read back.

The run `ft_formats` checks the same of texts of four characters
(`ParsesAreExact`) and of numbers at the limits of their types
(`NumbersAreReadBack`), at 8 and 6 bits.

*What a numeral denotes* is said without reference to the code: `Denotes` asks for
a function that has the values of the first 0, 1, .. n digits, each ten times the
one before plus a digit, computed in the unbounded numbers.

*The argument.*  Printing: after `n` turns what is left of the value has `n` bits
less (`NothingRemains`), so that the loop ends and the digits fit; read backwards,
what is left is the function that `Denotes` asks for.  Parsing: while the guard
holds, `value * 10 + digit` is a `uint64_t` and nothing wraps (`OverflowIsSeen`),
so that the loop computes the denoted values; and since these only grow
(`ValuesGrow`), a numeral whose value is a `uint64_t` never meets the guard
(`DigitsAreRead`).  The places where the loops stop exist and are unique
(`FirstOutside`).  That the recursive functions are what their equations say comes
from `RecursionExists`.  Reading back joins both halves; the least `int32_t` is
the case for which `~uv + 1` and the limit of a negative number were written.

### FormatTextProofs: prints

For any widths, any `MaxPrecision` whose power of ten is a `uint64_t`
(`PrecisionAssumption`), any `MaxNesting`, any set of `Programs` whose arguments
have numbers of their types and whose function holds the call
(`ProgramsAssumption`: what the analyzer and the builder see to before), and any
`Inputs` that are texts (`InputsAssumption`):

- `FormatStringsAreAlwaysRead`: `FormatStringsAreRead`, from `FormatsAreRead`, which
  says it of every text;
- `PlainCallsAreAlwaysLowered`: `PlainCallsAreLowered`;
- `OutputIsAlwaysTheExpansion`: `OutputIsTheExpansion`;
- `FloatsAreAlwaysRounded`: `FloatsAreRounded`, for any `SignificandBits` up to `Bits`
  and any `FractionBits` for which the powers of ten are floats (`ScaleAssumption`);
- `ParsesAreAlwaysExact`: `ParsesAreExact`;
- `NumbersAreAlwaysReadBack`: `NumbersAreReadBack`.

*The inductive invariant* is `CallInv` with `OutputInv`.  `CallInv` says that the call
is one of the programs, or that there is none.  `OutputIsTheExpansion` speaks of
the end only, so `OutputInv` says it at every step: what has been written,
followed by what the runtime calls to come will write (`Says`), is the expansion.
A step of the program moves one text from one side to the other.  The rest of
`OutputInv` remembers, behind each stage, what led there: that the call was
accepted, that a call that throws is not lowered, that the input is the first line
of the output, that the results are those of the parsers.

*Format strings.*  `IsParsed` is the invariant of the parser's loop: the text up to
a position has been split into placeholders and the text between them, or has an
open brace where no placeholder begins.  `Placeholders` says what a placeholder is
without scanning; that the code finds one exactly where there is one is
`HoleIsPlaceholder`, and that it then goes on behind it `PlaceholderIsRead`.

*The output.*  The lowering joins the calls of all holes, the reference the texts;
both are `FlattenSeq` of a sequence of pairs, and an induction over the holes
(`FlattenConcatenation`) compares them.  Under it are the calls for one argument:
`ArgumentsAreRendered` for integers widened with zeros or with signs, and
`DigitsArePrinted`, by which `print_u64_base`, whose loop goes from the last digit
to the first, prints the digits that their places ask for.

*Floats.*  What is promised has two ranges.  Below `2^(SignificandBits - 1)`, scaled by
the places, a double has room for the half: the number printed is the nearest, or the
next one when the float lies below the half before that by at most the rounding of
the sum (`Neighbours`).  Above, there is no such room, and the number is within four
parts in `2^SignificandBits` (`Near`).  In no range is it further off, and a number
that `uint64_t` may not hold is left out (`IsConvertible`).  `NearestFloats` says
that one rounding is off by at most a part in `2^SignificandBits`, and that it never
crosses a multiple of a power of two that is short enough to be a float.  Below that
limit the whole numbers and their halves are such multiples, so no product falls below
the half it has reached and no sum below its whole number (`SumsAreConverted`): the
number printed can be off upwards only.
`RoundedIsNearest` and `RoundedIsNear` join this for both ways of rounding the product
and the sum.  The whole and the places are printed by two different loops; `PlacesAreDenoted` says that together
they are the digits of one number, by induction over the places, from
`TenthOfQuotient` and `DigitsOfRests` (dividing by a power of ten and then by ten is
dividing by the next power).

*Reading back.*  A number printed alone is one line with nothing but a numeral in
it, so `U64IsReadBack` and `I32IsReadBack` apply; for a bool the two words differ.

*The search for the literal.*  `scanned` and `Within` are one recursion with and
without the early return (`BlocksAreNests`); by induction over the depth
(`NestsExist`), a block in which the literal lies is one the scan comes to, unless
an if stands before the literal or before a block around it (`LiteralIsFound`).

### LexerProofs

For any set of texts and of letters, when a letter is none of the characters with
another role (`LettersAssumption`):

- `TokensAreMaximal`: `TokensAreLongest`;
- `LexerAdvances`: every turn of the lexer consumes a part of the text, errors
  included, or ends it.

*What the theorems are about.*  `LexerSpec`: the steps of the lexer, and any steps
of what runs after it and does not come back to it.  The specification of `Parser`
is of this form (`Next` is `LexerNext` while the phase is "lex"), but has recursive
operators, so that the theorems are not stated in its terms.

*The argument.*  `IInv` says where the tokens lie (`TokensFit`) and, while there is
no error, that each is a longest lexeme; it is inductive because a step appends a
token that starts where the last one left off.  What is left is, per kind of
lexeme, that the one which the code cuts out is a lexeme and that no longer one
is.  The first character decides the kind (`NameCharacters`, `LexemeOfDigit`..).
A name ends at the first character that is none of a name (`LongestName`).
A decimal literal may be split into digits, fraction and exponent in several ways;
any other split ends inside the run of digits the code has found (`DigitsInRun`,
`FractionInRun`, `ExponentInRun`).  A string is the hard case: the code pairs each
backslash with the character behind it, and `IsString` allows any set of escapes
that do not overlap; by induction that set is determined (`EscapesAre`), so the
closing quote is the first one that is not escaped (`LongestString`).

### DriverProofs

For any sets of drivers, outputs and names, with `None`, `Empty` and `Broken`
different from what they are told apart from (`FilesAssumption`):

- `TypeCorrect`: `TypeOK`;
- `OwnFiles`: `FilesAreOwn`;
- `GuardsRemove`: `GuardedFilesAreRemoved`;
- `DriverImplements`: `ImplementsCompilation`, that is, `Spec` implements
  `Compilation!CompilationSpec`.

*The inductive invariant* joins `TypeOK` with who holds which file (`IrIsHeld`,
`ObjectIsHeld`), which files are whose (`FilesAreKnown`, and `FilesAreAccounted`:
behind every file is a driver that will remove it or that left it before its
guards), and what a driver's place says of its mode, errors, exit status and
guards (`Control`).  `ObjectIsHeld` needs "no collision", since the object's name
is not reserved between its removal and `llc`; `IrIsHeld` does not.  Each has its
step lemma, one case per action.  For the refinement, a phase or a file
operation is a stutter or `Fail`, `linkSucceeds` is `Publish`, and the exit is
`Succeed`; `Control` shows that a driver exits with 0 only behind its guards.

## 6. Only model-checked, and not modelled

*Only model-checked.*  `Parser` and `Expressions` with its extensions: they go through
trees with recursive operators, which the provers do not take.  Where recursion is
written as functions, over numbers or positions as in `Numbers` and `FormatText` or over
statements as in `LoopLowering`, induction is at hand (`SequenceLemmas`,
`CodeInduction`).  Of `LoopLowering`, `ContinueAdvances` is
checked only: it speaks of programs in which the two executions do part, too, and
holds because the labels of the family are different, so that they cannot come to the
same event by accident.  Liveness (`BuiltinsReturn`, `DriversEnd`) is out of reach
altogether.  `EveryTurnAdvances` is proved for the lexer (`LexerAdvances`) and checked
for the parser.

*Not modelled.*  The rendering of diagnostics and the dumps are layout; of
diagnostics the modules keep the flag.  The LLVM lowering is a fixed pipeline of
external passes, and the fallback without MLIR prints text only.  The stack that
an `alloca` in a loop takes (`textual.cpp:1141`) is not followed: nothing in the
repository bounds it.  `Driver` takes `std::filesystem::remove` to
succeed: its error is ignored (`main.cpp:266` and `:295`), so a file that cannot be
removed stays, which no property allows for.  It leaves out that `waitpid` fails
(`main.cpp:238`) when the linker has already written its output: the driver then ends
with an error and the program is in place.  Nor does it follow the flush in the
destructor of the IR stream, which comes behind the last check of the stream (`main.cpp:157`)
and whose failure nobody sees: `llc` would read a file that is cut off.  Of spans and messages only their presence is modelled;
file names, the merging of source files and the build are left out.
