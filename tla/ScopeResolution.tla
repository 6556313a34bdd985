--------------------------- MODULE ScopeResolution ---------------------------
(***************************************************************************)
(* Names and scopes.  Two passes resolve the names of a function on their  *)
(* own: the semantic analyzer (src/frontend/semantic.cpp: scopes_), whose  *)
(* answer decides whether the program is accepted, and the typed-IR        *)
(* builder (src/ir/builder.cpp: its own scopes_), whose answer decides     *)
(* which slot is read and written.  Both walk the statements in source     *)
(* order; this module lets them walk one function side by side:            *)
(*                                                                         *)
(*   scopes, nextBindingId   the analyzer's scopes_: a map from names to   *)
(*                           binding ids per open scope,                   *)
(*   irScopes, locals        the builder's scopes_, a map from names to    *)
(*                           local slots per open scope, and the number of *)
(*                           Function::locals,                             *)
(*   frames                  the open statements.                          *)
(*                                                                         *)
(* 0 stands for "not in this map"; local slots, numbered from 0 in the     *)
(* code, are numbered from 1 here.  The builder leaves out code it knows   *)
(* to be dead, the analyzer does not; so the two need not have declared    *)
(* the same number of locals.                                              *)
(*                                                                         *)
(* A name is read or assigned at a point of the walk (LookupPoint) without *)
(* changing this state, so lookups are not actions: the properties         *)
(* quantify over the names that could be looked up at the point.           *)
(*                                                                         *)
(* Ghost state relates the passes:                                         *)
(*   slotOf   the slot made for a binding by the same declaration,         *)
(*   lost     the slots whose MLIR region is closed: the alloca of a slot  *)
(*            is in the scf region of the IR block it was declared in, and *)
(*            a use outside that region is refused by the verifier,        *)
(*   leaked   the slots of bindings whose for statement is over,           *)
(*   bare     the bindings whose let is itself an arm or a loop body.      *)
(***************************************************************************)
EXTENDS Naturals, Sequences, FiniteSets

CONSTANTS
  Name,         \* the names of the function
  Global,       \* those of them that are module constants
  MaxBinding,   \* bound: declarations in one function
  MaxDepth      \* bound: statements nested in one another

ASSUME GlobalAssumption == Global \subseteq Name
ASSUME MaxBindingAssumption == MaxBinding \in Nat
ASSUME MaxDepthAssumption == MaxDepth \in Nat

VARIABLES
  scopes, nextBindingId, rejected,
  irScopes, locals,
  frames,
  slotOf, lost, leaked, bare

analyzer == <<scopes, nextBindingId, rejected>>
builder == <<irScopes, locals>>
ghost == <<slotOf, lost, leaked, bare>>
vars == <<analyzer, builder, frames, ghost>>

Binding == 1 .. MaxBinding
Id == 0 .. MaxBinding

EmptyScope == [n \in Name |-> 0]

-----------------------------------------------------------------------------
(* Scopes.                                                                 *)

pushScope(ss) == Append(ss, EmptyScope)

\* Mutant of popScope: the names stay.
popScopeKeepingNames(ss) == ss

popScope(ss) == SubSeq(ss, 1, Len(ss) - 1)

\* The name is bound in the innermost scope.
bindLocalName(ss, name, id) == [ss EXCEPT ![Len(ss)][name] = id]

\* From the innermost scope outward.
lookup(ss, name) ==
  IF \E d \in DOMAIN ss : ss[d][name] # 0
    THEN LET inner == CHOOSE d \in DOMAIN ss :
                        /\ ss[d][name] # 0
                        /\ \A e \in DOMAIN ss : ss[e][name] # 0 => e <= d
         IN ss[inner][name]
    ELSE 0

\* What a name means to the analyzer and to the builder; 0: a module constant,
\* or nothing.
analyzerLookup(name) == lookup(scopes, name)
builderLookup(name) == lookup(irScopes, name)

-----------------------------------------------------------------------------
(* Open statements.                                                        *)

\* The parts of a statement at which a child statement is walked.
Arm == {"then", "else", "whileBody", "forBody"}
StmtSlot == {"block"} \cup Arm

EndOf(part) ==
  CASE part = "block" -> "block"
    [] part = "parameters" -> "bodyEnd"
    [] part = "then" -> "thenEnd"
    [] part = "else" -> "elseEnd"
    [] part = "whileBody" -> "whileBodyEnd"
    [] part = "forInit" -> "forInitEnd"
    [] part = "forBody" -> "forBodyEnd"

Part == StmtSlot \cup {"parameters", "bodyEnd", "thenEnd", "elseEnd",
                       "whileBodyEnd", "forInit", "forInitEnd", "forBodyEnd"}

Frame ==
  [at: Part,
   built: BOOLEAN,     \* the builder builds this statement
   stopped: BOOLEAN,   \* the builder has left this block: the rest is dead
   locals: Id]         \* locals when the IR block of this arm was opened

top == frames[Len(frames)]

\* The builder gets to this point of the walk.
Building == \A d \in DOMAIN frames : ~frames[d].stopped

Push(at) ==
  /\ Len(frames) < MaxDepth
  /\ frames' = Append(frames, [at |-> at, built |-> Building,
                               stopped |-> FALSE, locals |-> locals])

Rephase(f) == frames' = [frames EXCEPT ![Len(frames)] = f]

\* The child statement of a part has been walked.
Completed(f) == [f EXCEPT !.at = EndOf(f.at)]

CompleteStmt == Rephase(Completed(top))

PopFrame ==
  frames' = [d \in 1 .. Len(frames) - 1 |->
               IF d = Len(frames) - 1 THEN Completed(frames[d]) ELSE frames[d]]

At(parts) == frames # <<>> /\ top.at \in parts

-----------------------------------------------------------------------------
(* Declarations.                                                           *)

\* The analyzer refuses a second declaration in one scope; the builder, which
\* only sees accepted programs, allocates a slot and binds the name.
declareLocal(name) ==
  IF scopes[Len(scopes)][name] # 0
    THEN /\ rejected' = TRUE
         /\ UNCHANGED <<scopes, nextBindingId, builder, slotOf>>
    ELSE /\ nextBindingId \in Binding
         /\ nextBindingId' = nextBindingId + 1
         /\ scopes' = bindLocalName(scopes, name, nextBindingId)
         /\ UNCHANGED rejected
         /\ IF Building
              THEN /\ locals' = locals + 1
                   /\ irScopes' = bindLocalName(irScopes, name, locals + 1)
                   /\ slotOf' = [slotOf EXCEPT ![nextBindingId] = locals + 1]
              ELSE UNCHANGED <<builder, slotOf>>

\* let [mut] name: T = e; the names of e are looked up before.
Let(name) ==
  /\ At(StmtSlot \cup {"forInit"})
  /\ declareLocal(name)
  /\ bare' = IF top.at \in Arm THEN bare \cup {nextBindingId} ELSE bare
  /\ CompleteStmt
  /\ UNCHANGED <<lost, leaked>>

-----------------------------------------------------------------------------
(* The function, its blocks and its other statements.                      *)

BeginFunction ==
  /\ frames = <<>>
  /\ Push("parameters")
  /\ scopes' = pushScope(<<>>) /\ nextBindingId' = 1
  /\ irScopes' = pushScope(<<>>) /\ locals' = 0
  /\ slotOf' = [b \in Binding |-> 0]
  /\ lost' = {} /\ leaked' = {} /\ bare' = {}
  /\ UNCHANGED rejected

DeclareParameter(name) ==
  /\ At({"parameters"})
  /\ declareLocal(name)
  /\ UNCHANGED <<frames, lost, leaked, bare>>

\* A block, or the body of the function.
OpenBlock ==
  /\ At(StmtSlot \cup {"parameters"})
  /\ Push("block")
  /\ scopes' = pushScope(scopes)
  /\ irScopes' = IF Building THEN pushScope(irScopes) ELSE irScopes
  /\ UNCHANGED <<nextBindingId, rejected, locals, ghost>>

\* Mutant of popBuiltScope: a block left early keeps its scope.
popScopeUnlessStopped == IF top.built /\ ~top.stopped THEN popScope(irScopes) ELSE irScopes

\* The builder pops the scope of a block it has opened, also when it left the
\* block early.
popBuiltScope == IF top.built THEN popScope(irScopes) ELSE irScopes

CloseBlock ==
  /\ At({"block"})
  /\ scopes' = popScope(scopes)
  /\ irScopes' = popBuiltScope
  /\ PopFrame
  /\ UNCHANGED <<nextBindingId, rejected, locals, ghost>>

EndFunction ==
  /\ At({"bodyEnd"})
  /\ scopes' = popScope(scopes)
  /\ irScopes' = popScope(irScopes)
  /\ frames' = <<>>
  /\ UNCHANGED <<nextBindingId, rejected, locals, ghost>>

\* An assignment or a call.
OtherStmt ==
  /\ At(StmtSlot \cup {"forInit"})
  /\ CompleteStmt
  /\ UNCHANGED <<analyzer, builder, ghost>>

\* return: the IR block gets its terminator, and the builder leaves all the
\* source blocks that were being built into that IR block.
Return ==
  /\ At(StmtSlot)
  /\ LET nested(d) == \A e \in d .. Len(frames) : frames[e].at = "block"
     IN frames' = [d \in DOMAIN frames |->
          IF nested(d) /\ Building THEN [frames[d] EXCEPT !.stopped = TRUE]
          ELSE IF d = Len(frames) THEN Completed(frames[d])
          ELSE frames[d]]
  /\ UNCHANGED <<analyzer, builder, ghost>>

\* break or continue: the builder leaves the block that it stands in.
LoopControl ==
  /\ At(StmtSlot)
  /\ \E d \in DOMAIN frames : frames[d].at \in {"whileBody", "forBody"}
  /\ Rephase([Completed(top) EXCEPT
                !.stopped = @ \/ (top.at = "block" /\ Building)])
  /\ UNCHANGED <<analyzer, builder, ghost>>

-----------------------------------------------------------------------------
(* Compound statements.                                                    *)

\* The slots declared in the arm or body that ends here.
SlotsOfArm == top.locals + 1 .. locals

OpenIf ==
  /\ At(StmtSlot)
  /\ Push("then")
  /\ UNCHANGED <<analyzer, builder, ghost>>

OpenElse ==
  /\ At({"thenEnd"})
  /\ lost' = lost \cup SlotsOfArm
  /\ Rephase([top EXCEPT !.at = "else", !.locals = locals])
  /\ UNCHANGED <<analyzer, builder, slotOf, leaked, bare>>

CloseIf ==
  /\ At({"thenEnd", "elseEnd"})
  /\ lost' = lost \cup SlotsOfArm
  /\ PopFrame
  /\ UNCHANGED <<analyzer, builder, slotOf, leaked, bare>>

OpenWhile ==
  /\ At(StmtSlot)
  /\ Push("whileBody")
  /\ UNCHANGED <<analyzer, builder, ghost>>

CloseWhile ==
  /\ At({"whileBodyEnd"})
  /\ lost' = lost \cup SlotsOfArm
  /\ PopFrame
  /\ UNCHANGED <<analyzer, builder, slotOf, leaked, bare>>

\* Only the analyzer gives a for a scope of its own.
OpenFor ==
  /\ At(StmtSlot)
  /\ Push("forInit")
  /\ scopes' = pushScope(scopes)
  /\ UNCHANGED <<nextBindingId, rejected, builder, ghost>>

\* After the init clause, if any, and the condition.
EnterForBody ==
  /\ At({"forInit", "forInitEnd"})
  /\ Rephase([top EXCEPT !.at = "forBody", !.locals = locals])
  /\ UNCHANGED <<analyzer, builder, ghost>>

\* After the step, which is lowered at the end of the body's region.
CloseFor ==
  /\ At({"forBodyEnd"})
  /\ scopes' = popScope(scopes)
  /\ lost' = lost \cup SlotsOfArm
  /\ leaked' = leaked \cup {slotOf[b] : b \in Binding \cap
                                            {scopes[Len(scopes)][n] : n \in Name}}
  /\ PopFrame
  /\ UNCHANGED <<nextBindingId, rejected, builder, slotOf, bare>>

-----------------------------------------------------------------------------

Init ==
  /\ scopes = <<>> /\ nextBindingId = 1 /\ rejected = FALSE
  /\ irScopes = <<>> /\ locals = 0
  /\ frames = <<>>
  /\ slotOf = [b \in Binding |-> 0] /\ lost = {} /\ leaked = {} /\ bare = {}

Next ==
  \/ BeginFunction
  \/ \E name \in Name : DeclareParameter(name)
  \/ \E name \in Name : Let(name)
  \/ OpenBlock
  \/ CloseBlock
  \/ EndFunction
  \/ OtherStmt
  \/ Return
  \/ LoopControl
  \/ OpenIf
  \/ OpenElse
  \/ CloseIf
  \/ OpenWhile
  \/ CloseWhile
  \/ OpenFor
  \/ EnterForBody
  \/ CloseFor

Spec == Init /\ [][Next]_vars

-----------------------------------------------------------------------------
(* Properties.                                                             *)

\* The statements that have a scope: of the builder, and of the analyzer.
BlockPart == {"parameters", "bodyEnd", "block"}
ScopePart == BlockPart \cup {"forInit", "forInitEnd", "forBody", "forBodyEnd"}

\* Types of the state, and: the analyzer has one scope for the function, one for
\* every open block and one for every open for; the builder has one for the
\* function and one for every open block that it builds, left early or not.
TypeOK ==
  /\ scopes \in Seq([Name -> Id])
  /\ irScopes \in Seq([Name -> Id])
  /\ nextBindingId \in 1 .. MaxBinding + 1
  /\ locals \in 0 .. nextBindingId - 1
  /\ frames \in Seq(Frame)
  /\ rejected \in BOOLEAN
  /\ slotOf \in [Binding -> 0 .. locals]
  /\ lost \subseteq 1 .. locals
  /\ leaked \subseteq 0 .. locals
  /\ bare \subseteq 1 .. MaxBinding + 1
  /\ Len(scopes) = Cardinality({d \in DOMAIN frames : frames[d].at \in ScopePart})
  /\ Len(irScopes) =
       Cardinality({d \in DOMAIN frames : frames[d].at \in BlockPart /\ frames[d].built})

\* A name is looked up here, by the analyzer and by the builder.
LookupPoint ==
  /\ ~rejected
  /\ Building
  /\ At(StmtSlot \cup {"forInit", "forInitEnd", "forBodyEnd"})

\* The builder finds the slot that the analyzer's binding of the name was given,
\* or no slot if the name is a module constant.
Agree(name) ==
  LET binding == analyzerLookup(name) IN
    IF binding # 0 THEN builderLookup(name) = slotOf[binding] /\ slotOf[binding] # 0
    ELSE name \in Global => builderLookup(name) = 0

\* "a let in init is visible in condition, body, and step, and not after the for
\* statement" (docs/reference/language/statements.md): in an accepted program
\* every name means to the builder what it means to the analyzer.
NamesResolveAlike ==
  LookupPoint => \A name \in Name : Agree(name)

\* In an accepted program a name of which the analyzer approves always resolves
\* in the builder, and to the same declaration, unless it resolves to a local
\* that the init clause or the body of an earlier for declared in the for's own
\* scope.
OnlyForLocalsLeak ==
  LookupPoint =>
    \A name \in Name : Agree(name) \/ builderLookup(name) \in leaked \ {0}

\* The slot of a binding that can be named is in a region that is still open,
\* unless its let was itself an arm of an if or the body of a loop.
VisibleSlotsAreLive ==
  LookupPoint =>
    \A name \in Name :
      LET binding == analyzerLookup(name) IN
        binding # 0 /\ binding \notin bare => slotOf[binding] \notin lost
=============================================================================
