----------------------- MODULE ScopeResolutionProofs -----------------------
(***************************************************************************)
(* Proofs about ScopeResolution, for any names, module constants and       *)
(* bounds.  The inductive invariant IInv joins                             *)
(*                                                                         *)
(*   Types           the plain types of the state                          *)
(*   Walk            the open statements: which may have a child, which    *)
(*                   the builder has left, which it never entered          *)
(*   ScopesOfFrames  both passes have the scopes that the open statements  *)
(*                   give them                                             *)
(*   BindingsAreOld  a binding in a scope has been numbered, and one that  *)
(*                   has not been has no slot                              *)
(*   ArmsAreYounger  an arm was opened after the slots of the bindings     *)
(*                   that can be named in it were made                     *)
(*   SlotsAreLive    the slot of a binding in a scope is not lost          *)
(*   ScopesAgree     the passes resolve names alike, but for the locals of *)
(*                   a for that is over, wherever a block may end or a     *)
(*                   name be looked up                                     *)
(*                                                                         *)
(* Positions in the stack of frames carry the proof: the scopes that are   *)
(* open where frame e is the top are the first ScopesUpTo(e) of the        *)
(* analyzer's and the first BlocksUpTo(e) of the builder's.                *)
(***************************************************************************)
EXTENDS ScopeResolution, FiniteSetTheorems, SequenceLemmas

USE GlobalAssumption, MaxBindingAssumption, MaxDepthAssumption

\* The members of a set of positions up to e.
Count(P, e) == Cardinality(P \cap (1 .. e))

\* The frames that have a scope of the analyzer, and of the builder.
ScopeFrames == {d \in DOMAIN frames : frames[d].at \in ScopePart}
BuiltBlocks == {d \in DOMAIN frames : frames[d].at \in BlockPart /\ frames[d].built}

ScopesUpTo(e) == Count(ScopeFrames, e)
BlocksUpTo(e) == Count(BuiltBlocks, e)

\* The first k scopes.
Outer(ss, k) == [d \in 1 .. k |-> ss[d]]

\* The builder has left none of the first e frames.
BuildingUpTo(e) == \A d \in 1 .. e : ~frames[d].stopped

Types ==
  /\ scopes \in Seq([Name -> Id])
  /\ irScopes \in Seq([Name -> Id])
  /\ nextBindingId \in 1 .. MaxBinding + 1
  /\ locals \in 0 .. nextBindingId - 1
  /\ frames \in Seq(Frame)
  /\ rejected \in BOOLEAN
  /\ slotOf \in [Binding -> 0 .. locals]
  /\ lost \subseteq 1 .. locals
  /\ leaked \subseteq 0 .. locals
  /\ bare \subseteq 1 .. MaxBinding + 1

FunctionPart == {"parameters", "bodyEnd"}

Walk ==
  /\ frames # <<>> => frames[1].at \in FunctionPart /\ frames[1].built
  /\ \A d \in 2 .. Len(frames) : frames[d].at \notin FunctionPart
  /\ \A d \in 1 .. Len(frames) - 1 : frames[d].at \in StmtSlot \cup {"parameters"}
  /\ \A d \in DOMAIN frames : frames[d].stopped => frames[d].at = "block"
  /\ \A e \in DOMAIN frames : ~frames[e].built => ~BuildingUpTo(e - 1)

ScopesOfFrames ==
  /\ Len(scopes) = ScopesUpTo(Len(frames))
  /\ Len(irScopes) = BlocksUpTo(Len(frames))

BindingsAreOld ==
  /\ \A k \in DOMAIN scopes, n \in Name : scopes[k][n] < nextBindingId
  /\ \A b \in Binding : b >= nextBindingId => slotOf[b] = 0

\* The parts of a statement whose region has an end: the slots made since the frame's
\* locals are lost there.
ArmPart == Arm \cup {"thenEnd", "elseEnd", "whileBodyEnd", "forBodyEnd"}

ArmsAreYounger ==
  \A e \in DOMAIN frames :
    frames[e].at \in ArmPart =>
      \A k \in 1 .. ScopesUpTo(e), n \in Name :
        LET b == scopes[k][n] IN
          b # 0 /\ b \notin bare => slotOf[b] <= frames[e].locals

SlotsAreLive ==
  \A k \in DOMAIN scopes, n \in Name :
    LET b == scopes[k][n] IN b # 0 /\ b \notin bare => slotOf[b] \notin lost

\* With the first k scopes of the analyzer and the first j of the builder, the name has
\* the same meaning to both, or the builder finds a local of a for that is over.
Resolves(name, k, j) ==
  LET binding == lookup(Outer(scopes, k), name)
      slot == lookup(Outer(irScopes, j), name)
  IN \/ slot \in leaked \ {0}
     \/ binding # 0 /\ slot = slotOf[binding] /\ slot # 0
     \/ binding = 0 /\ slot = 0

\* At the top, and below every open block.
Boundary(e) == e = Len(frames) \/ frames[e + 1].at = "block"

ScopesAgree ==
  \A e \in 0 .. Len(frames) :
    Boundary(e) /\ BuildingUpTo(e) =>
      \A name \in Name : Resolves(name, ScopesUpTo(e), BlocksUpTo(e))

IInv ==
  /\ Types
  /\ Walk
  /\ ScopesOfFrames
  /\ BindingsAreOld
  /\ ArmsAreYounger
  /\ SlotsAreLive
  /\ ScopesAgree

-----------------------------------------------------------------------------
(* Counting positions.                                                     *)

\* One position further.
LEMMA CountStep ==
  ASSUME NEW P, NEW n \in Nat
  PROVE  /\ Count(P, 0) = 0
         /\ Count(P, n) \in Nat
         /\ Count(P, n + 1) = IF n + 1 \in P THEN Count(P, n) + 1 ELSE Count(P, n)
<1>1. IsFiniteSet(1 .. n) /\ P \cap (1 .. n) \in SUBSET (1 .. n)
  BY FS_Interval
<1>2. IsFiniteSet(P \cap (1 .. n))
  BY <1>1, FS_Subset
<1>3. Count(P, n) \in Nat
  BY <1>2, FS_CardinalityType DEF Count
<1>4. Count(P, 0) = 0
  <2>1. P \cap (1 .. 0) = {}
    OBVIOUS
  <2>. QED
    BY <2>1, FS_EmptySet DEF Count
<1>5. n + 1 \notin P \cap (1 .. n)
  OBVIOUS
<1>6. CASE n + 1 \in P
  <2>1. P \cap (1 .. n + 1) = (P \cap (1 .. n)) \cup {n + 1}
    BY <1>6
  <2>2. Cardinality((P \cap (1 .. n)) \cup {n + 1}) = Cardinality(P \cap (1 .. n)) + 1
    BY <1>2, <1>5, FS_AddElement
  <2>. QED
    BY <1>3, <1>4, <1>6, <2>1, <2>2, Zenon DEF Count
<1>7. CASE n + 1 \notin P
  <2>1. P \cap (1 .. n + 1) = P \cap (1 .. n)
    BY <1>7
  <2>. QED
    BY <1>3, <1>4, <1>7, <2>1, Zenon DEF Count
<1>. QED
  BY <1>6, <1>7

\* More positions have no fewer members, and more when there is one between.
LEMMA CountMonotone ==
  ASSUME NEW P, NEW m \in Nat, NEW n \in Nat, m <= n
  PROVE  /\ Count(P, m) <= Count(P, n)
         /\ \A d \in m + 1 .. n : d \in P => Count(P, m) < Count(P, n)
<1>1. ASSUME NEW i \in Nat, NEW j \in Nat, i <= j
      PROVE  Count(P, i) <= Count(P, j)
  <2>1. IsFiniteSet(1 .. j)
    BY FS_Interval
  <2>2. IsFiniteSet(P \cap (1 .. j)) /\ P \cap (1 .. i) \in SUBSET (P \cap (1 .. j))
    <3>1. P \cap (1 .. j) \in SUBSET (1 .. j)
      OBVIOUS
    <3>2. IsFiniteSet(P \cap (1 .. j))
      BY <2>1, <3>1, FS_Subset
    <3>. QED
      BY <1>1, <3>2
  <2>. QED
    BY <2>2, FS_Subset DEF Count
<1>2. ASSUME NEW d \in m + 1 .. n, d \in P
      PROVE  Count(P, m) < Count(P, n)
  <2>1. d - 1 \in Nat /\ d \in Nat /\ (d - 1) + 1 = d /\ m <= d - 1 /\ d <= n
    OBVIOUS
  <2>2. Count(P, m) <= Count(P, d - 1) /\ Count(P, d) <= Count(P, n)
    BY <1>1, <2>1
  <2>3. Count(P, d) = Count(P, d - 1) + 1
    BY <1>2, <2>1, CountStep
  <2>4. {Count(P, m), Count(P, n), Count(P, d - 1)} \subseteq Nat
    BY <2>1, CountStep
  <2>. QED
    BY <2>2, <2>3, <2>4
<1>. QED
  BY <1>1, <1>2

-----------------------------------------------------------------------------
(* Looking names up.                                                       *)

\* A set of positions has a last one.
LEMMA LastPosition ==
  ASSUME NEW n \in Nat, NEW T \in SUBSET (1 .. n), T # {}
  PROVE  \E m \in T : \A x \in T : x <= m
<1>. DEFINE S == {k \in Nat : \A U \in SUBSET (1 .. k) :
                    U # {} => \E m \in U : \A x \in U : x <= m}
<1>1. 0 \in S
  <2>1. \A U \in SUBSET (1 .. 0) : U = {}
    OBVIOUS
  <2>. QED
    BY <2>1
<1>2. ASSUME NEW k \in Nat, k \in S
      PROVE  k + 1 \in S
  <2>1. ASSUME NEW U \in SUBSET (1 .. k + 1), U # {}
        PROVE  \E m \in U : \A x \in U : x <= m
    <3>1. CASE k + 1 \in U
      BY <3>1
    <3>2. CASE k + 1 \notin U
      <4>1. U \in SUBSET (1 .. k)
        BY <3>2
      <4>. QED
        BY <1>2, <2>1, <4>1
    <3>. QED
      BY <3>1, <3>2
  <2>. QED
    BY <2>1
<1>3. n \in S
  <2>. HIDE DEF S
  <2>1. Nat \subseteq S
    BY <1>1, <1>2, NatSetInduction
  <2>. QED
    BY <2>1
<1>. QED
  BY <1>3

\* The innermost scope that has the name decides.
LEMMA LookupInner ==
  ASSUME NEW ss \in Seq([Name -> Id]), NEW name \in Name, NEW d \in 1 .. Len(ss),
         ss[d][name] # 0, \A e \in d + 1 .. Len(ss) : ss[e][name] = 0
  PROVE  lookup(ss, name) = ss[d][name]
<1>. DEFINE Inner(i) == /\ ss[i][name] # 0
                        /\ \A e \in DOMAIN ss : ss[e][name] # 0 => e <= i
<1>1. DOMAIN ss = 1 .. Len(ss) /\ Len(ss) \in Nat
  OBVIOUS
<1>2. Inner(d)
  BY <1>1
<1>3. \A i \in DOMAIN ss : Inner(i) => i = d
  BY <1>1
<1>4. (CHOOSE i \in DOMAIN ss : Inner(i)) = d
  <2>. HIDE DEF Inner
  <2>. QED
    BY <1>1, <1>2, <1>3
<1>. QED
  BY <1>1, <1>4, Zenon DEF lookup

\* A name that no scope has is not found.
LEMMA LookupNone ==
  ASSUME NEW ss \in Seq([Name -> Id]), NEW name \in Name,
         \A d \in 1 .. Len(ss) : ss[d][name] = 0
  PROVE  lookup(ss, name) = 0
<1>1. DOMAIN ss = 1 .. Len(ss)
  OBVIOUS
<1>. QED
  BY <1>1, Zenon DEF lookup

\* One of the two is the case.
LEMMA LookupFinds ==
  ASSUME NEW ss \in Seq([Name -> Id]), NEW name \in Name
  PROVE  \/ /\ \A d \in 1 .. Len(ss) : ss[d][name] = 0
            /\ lookup(ss, name) = 0
         \/ \E d \in 1 .. Len(ss) :
              /\ ss[d][name] # 0
              /\ \A e \in d + 1 .. Len(ss) : ss[e][name] = 0
              /\ lookup(ss, name) = ss[d][name]
<1>1. PICK n \in Nat : n = Len(ss)
  OBVIOUS
<1>. DEFINE T == {d \in 1 .. n : ss[d][name] # 0}
<1>2. CASE T = {}
  <2>1. \A d \in 1 .. Len(ss) : ss[d][name] = 0
    BY <1>1, <1>2
  <2>. QED
    BY <2>1, LookupNone
<1>3. CASE T # {}
  <2>1. PICK d \in T : \A x \in T : x <= d
    BY <1>3, LastPosition
  <2>2. d \in 1 .. Len(ss) /\ ss[d][name] # 0 /\ \A e \in d + 1 .. Len(ss) : ss[e][name] = 0
    BY <1>1, <2>1
  <2>. QED
    BY <2>2, LookupInner
<1>. QED
  BY <1>2, <1>3

\* The outer scopes are scopes.
LEMMA OuterType ==
  ASSUME NEW ss \in Seq([Name -> Id]), NEW k \in 0 .. Len(ss)
  PROVE  /\ Outer(ss, k) \in Seq([Name -> Id])
         /\ Len(Outer(ss, k)) = k
         /\ \A d \in 1 .. k : Outer(ss, k)[d] = ss[d]
         /\ k = Len(ss) => Outer(ss, k) = ss
<1>1. PICK n \in Nat : /\ n = Len(ss) /\ k \in 0 .. n /\ k \in Nat
                       /\ ss \in [1 .. n -> [Name -> Id]]
  OBVIOUS
<1>2. PICK t : t = Outer(ss, k)
  OBVIOUS
<1>5. t \in [1 .. k -> [Name -> Id]] /\ \A d \in 1 .. k : t[d] = ss[d]
  <2>1. \A d \in 1 .. k : ss[d] \in [Name -> Id]
    BY <1>1
  <2>. QED
    BY <1>2, <2>1, Zenon DEF Outer
<1>3. t \in Seq([Name -> Id]) /\ Len(t) = k
  BY <1>1, <1>5, FunctionIsSeq, Zenon
<1>4. k = n => t = ss
  BY <1>1, <1>5
<1>. QED
  BY <1>1, <1>2, <1>3, <1>4, <1>5, Zenon

\* The innermost scope is asked first.
LEMMA LookupOuter ==
  ASSUME NEW ss \in Seq([Name -> Id]), NEW k \in Nat, k + 1 <= Len(ss), NEW name \in Name
  PROVE  lookup(Outer(ss, k + 1), name) =
           IF ss[k + 1][name] # 0 THEN ss[k + 1][name] ELSE lookup(Outer(ss, k), name)
<1>. DEFINE outer == Outer(ss, k)
            all == Outer(ss, k + 1)
<1>1. /\ outer \in Seq([Name -> Id]) /\ Len(outer) = k
      /\ all \in Seq([Name -> Id]) /\ Len(all) = k + 1
      /\ \A d \in 1 .. k : outer[d] = ss[d] /\ all[d] = ss[d]
      /\ all[k + 1] = ss[k + 1]
  BY OuterType
<1>. HIDE DEF outer, all
<1>2. CASE ss[k + 1][name] # 0
  <2>1. lookup(all, name) = all[k + 1][name]
    BY <1>1, <1>2, LookupInner
  <2>. QED
    BY <1>1, <1>2, <2>1 DEF all
<1>3. CASE ss[k + 1][name] = 0
  <2>1. CASE (\A d \in 1 .. k : outer[d][name] = 0) /\ lookup(outer, name) = 0
    <3>1. \A d \in 1 .. k + 1 : all[d][name] = 0
      BY <1>1, <1>3, <2>1
    <3>2. lookup(all, name) = 0
      BY <1>1, <3>1, LookupNone
    <3>. QED
      BY <1>3, <2>1, <3>2 DEF outer, all
  <2>2. CASE \E d \in 1 .. k : /\ outer[d][name] # 0
                               /\ \A e \in d + 1 .. k : outer[e][name] = 0
                               /\ lookup(outer, name) = outer[d][name]
    <3>1. PICK d \in 1 .. k : /\ outer[d][name] # 0
                              /\ \A e \in d + 1 .. k : outer[e][name] = 0
                              /\ lookup(outer, name) = outer[d][name]
      BY <2>2
    <3>2. all[d] = outer[d] /\ d \in 1 .. k + 1
      BY <1>1
    <3>3. \A e \in d + 1 .. k + 1 : e = k + 1 \/ (e \in d + 1 .. k /\ e \in 1 .. k)
      OBVIOUS
    <3>4. \A e \in d + 1 .. k + 1 : all[e][name] = 0
      BY <1>1, <1>3, <3>1, <3>3, Zenon
    <3>5. lookup(all, name) = all[d][name]
      <4>1. d \in 1 .. Len(all) /\ all[d][name] # 0 /\ \A e \in d + 1 .. Len(all) : all[e][name] = 0
        BY <1>1, <3>1, <3>2, <3>4, Zenon
      <4>. QED
        BY <1>1, <4>1, LookupInner, Zenon
    <3>. QED
      BY <1>3, <3>1, <3>2, <3>5, Zenon DEF outer, all
  <2>3. \/ (\A d \in 1 .. k : outer[d][name] = 0) /\ lookup(outer, name) = 0
        \/ \E d \in 1 .. k : /\ outer[d][name] # 0
                             /\ \A e \in d + 1 .. k : outer[e][name] = 0
                             /\ lookup(outer, name) = outer[d][name]
    BY <1>1, LookupFinds, Zenon
  <2>. QED
    BY <2>1, <2>2, <2>3, Zenon
<1>. QED
  BY <1>2, <1>3

-----------------------------------------------------------------------------
(* The open statements.                                                    *)

\* A step leaves the scopes of the first n frames alone, and leaves no block of
\* theirs again.
Kept(n) ==
  /\ n \in 0 .. Len(frames) /\ n <= Len(frames')
  /\ \A d \in 1 .. n :
       /\ frames'[d].at \in ScopePart <=> frames[d].at \in ScopePart
       /\ frames'[d].at \in BlockPart <=> frames[d].at \in BlockPart
       /\ frames'[d].at = "block" <=> frames[d].at = "block"
       /\ frames'[d].built = frames[d].built
       /\ frames[d].stopped => frames'[d].stopped

\* The scopes of the first frames are then the same.
LEMMA KeptCounts ==
  ASSUME Types, frames' \in Seq(Frame), NEW n, Kept(n), NEW e \in 0 .. n
  PROVE  /\ ScopesUpTo(e)' = ScopesUpTo(e)
         /\ BlocksUpTo(e)' = BlocksUpTo(e)
         /\ BuildingUpTo(e)' => BuildingUpTo(e)
<1>1. /\ DOMAIN frames = 1 .. Len(frames) /\ DOMAIN frames' = 1 .. Len(frames')
      /\ e <= Len(frames) /\ e <= Len(frames') /\ 1 .. e \subseteq 1 .. n
      /\ e \in Nat /\ Len(frames) \in Nat /\ Len(frames') \in Nat
  BY DEF Types, Kept
<1>2. \A d \in 1 .. e : d \in DOMAIN frames /\ d \in DOMAIN frames' /\ d \in 1 .. n
  BY <1>1
<1>3. ScopeFrames' \cap (1 .. e) = ScopeFrames \cap (1 .. e)
  BY <1>2, Zenon DEF ScopeFrames, Kept
<1>4. BuiltBlocks' \cap (1 .. e) = BuiltBlocks \cap (1 .. e)
  BY <1>2, Zenon DEF BuiltBlocks, Kept
<1>5. BuildingUpTo(e)' => BuildingUpTo(e)
  BY <1>2, Zenon DEF BuildingUpTo, Kept
<1>. QED
  BY <1>3, <1>4, <1>5, Zenon DEF ScopesUpTo, BlocksUpTo, Count

\* The scopes of the frame at n + 1.
LEMMA CountsStep ==
  ASSUME frames \in Seq(Frame), NEW n \in Nat, n + 1 <= Len(frames)
  PROVE  /\ ScopesUpTo(n) \in Nat /\ BlocksUpTo(n) \in Nat
         /\ ScopesUpTo(0) = 0 /\ BlocksUpTo(0) = 0
         /\ ScopesUpTo(n + 1) =
              IF frames[n + 1].at \in ScopePart THEN ScopesUpTo(n) + 1 ELSE ScopesUpTo(n)
         /\ BlocksUpTo(n + 1) =
              IF frames[n + 1].at \in BlockPart /\ frames[n + 1].built
                THEN BlocksUpTo(n) + 1 ELSE BlocksUpTo(n)
<1>1. n + 1 \in DOMAIN frames
  OBVIOUS
<1>2. /\ n + 1 \in ScopeFrames <=> frames[n + 1].at \in ScopePart
      /\ n + 1 \in BuiltBlocks <=> frames[n + 1].at \in BlockPart /\ frames[n + 1].built
  BY <1>1, Zenon DEF ScopeFrames, BuiltBlocks
<1>. QED
  BY <1>2, CountStep, Zenon DEF ScopesUpTo, BlocksUpTo

\* The same after a step.
LEMMA CountsStepAfter ==
  ASSUME frames' \in Seq(Frame), NEW n \in Nat, n + 1 <= Len(frames')
  PROVE  /\ ScopesUpTo(n)' \in Nat /\ BlocksUpTo(n)' \in Nat
         /\ ScopesUpTo(0)' = 0 /\ BlocksUpTo(0)' = 0
         /\ ScopesUpTo(n + 1)' =
              IF frames'[n + 1].at \in ScopePart THEN ScopesUpTo(n)' + 1 ELSE ScopesUpTo(n)'
         /\ BlocksUpTo(n + 1)' =
              IF frames'[n + 1].at \in BlockPart /\ frames'[n + 1].built
                THEN BlocksUpTo(n)' + 1 ELSE BlocksUpTo(n)'
<1>1. n + 1 \in DOMAIN frames'
  OBVIOUS
<1>2. /\ n + 1 \in ScopeFrames' <=> frames'[n + 1].at \in ScopePart
      /\ n + 1 \in BuiltBlocks' <=> frames'[n + 1].at \in BlockPart /\ frames'[n + 1].built
  BY <1>1, Zenon DEF ScopeFrames, BuiltBlocks
<1>. QED
  BY <1>2, CountStep, Zenon DEF ScopesUpTo, BlocksUpTo

\* Completing a part of a statement keeps its scope.
LEMMA CompletedIs ==
  ASSUME NEW f \in Frame, f.at \in StmtSlot \cup {"parameters", "forInit"}
  PROVE  /\ Completed(f) \in Frame
         /\ Completed(f) = [at |-> EndOf(f.at), built |-> f.built, stopped |-> f.stopped,
                            locals |-> f.locals]
         /\ Completed(f).at \in ScopePart <=> f.at \in ScopePart
         /\ Completed(f).at \in BlockPart <=> f.at \in BlockPart
         /\ Completed(f).at \in FunctionPart <=> f.at \in FunctionPart
         /\ Completed(f).at = "block" <=> f.at = "block"
         /\ Completed(f).at \in ArmPart <=> f.at \in ArmPart
         /\ f.at # "block" => Completed(f).at \notin Arm
<1>1. EndOf(f.at) \in Part
  BY DEF EndOf, Part, StmtSlot, Arm
<1>2. Completed(f) = [at |-> EndOf(f.at), built |-> f.built, stopped |-> f.stopped,
                      locals |-> f.locals]
  BY <1>1 DEF Completed, Frame
<1>3. Completed(f) \in Frame
  BY <1>1, <1>2 DEF Frame
<1>. QED
  BY <1>2, <1>3 DEF EndOf, StmtSlot, Arm, ScopePart, BlockPart, FunctionPart, ArmPart

\* A child statement is opened.
LEMMA PushEffect ==
  ASSUME Types, Walk, NEW at \in {"block", "then", "whileBody", "forInit"},
         At(StmtSlot \cup {"parameters"}), Push(at)
  PROVE  /\ frames' \in Seq(Frame) /\ Walk' /\ Kept(Len(frames))
         /\ Len(frames') = Len(frames) + 1
         /\ \A d \in 1 .. Len(frames) : frames'[d] = frames[d]
         /\ frames'[Len(frames) + 1] = [at |-> at, built |-> Building,
                                        stopped |-> FALSE, locals |-> locals]
<1>1. PICK n \in Nat \ {0} : n = Len(frames)
  BY DEF Types, At
<1>. DEFINE f == [at |-> at, built |-> Building, stopped |-> FALSE, locals |-> locals]
<1>2. f \in Frame
  <2>1. at \in Part
    BY DEF Part, StmtSlot, Arm
  <2>2. locals \in Id
    BY DEF Types, Id
  <2>3. Building \in BOOLEAN
    BY Zenon DEF Building
  <2>. QED
    BY <2>1, <2>2, <2>3 DEF Frame
<1>3. frames' = Append(frames, f)
  BY DEF Push
<1>. HIDE DEF f
<1>4. /\ frames' \in Seq(Frame) /\ Len(frames') = n + 1
      /\ \A d \in 1 .. n : frames'[d] = frames[d]
      /\ frames'[n + 1] = f
  BY <1>1, <1>2, <1>3 DEF Types
<1>5. Kept(n)
  BY <1>1, <1>4 DEF Kept
<1>6. Walk'
  <2>1. /\ f.at = at /\ f.built = Building /\ f.stopped = FALSE
        /\ frames[n].at \in StmtSlot \cup {"parameters"}
        /\ DOMAIN frames = 1 .. n /\ DOMAIN frames' = 1 .. n + 1 /\ frames # <<>>
    BY <1>1, <1>4 DEF f, At, top, Types
  <2>2. frames'[1].at \in FunctionPart /\ frames'[1].built
    BY <1>1, <1>4, <2>1 DEF Walk
  <2>3. \A d \in 2 .. n + 1 : frames'[d].at \notin FunctionPart
    BY <1>1, <1>4, <2>1 DEF Walk, FunctionPart
  <2>4. \A d \in 1 .. n : frames'[d].at \in StmtSlot \cup {"parameters"}
    BY <1>1, <1>4, <2>1 DEF Walk
  <2>5. \A d \in 1 .. n + 1 : frames'[d].stopped => frames'[d].at = "block"
    BY <1>1, <1>4, <2>1 DEF Walk
  <2>6. ASSUME NEW e \in 1 .. n + 1, ~frames'[e].built
        PROVE  ~BuildingUpTo(e - 1)'
    <3>1. BuildingUpTo(e - 1)' => BuildingUpTo(e - 1)
      BY <1>1, <1>4, <1>5, KeptCounts
    <3>2. CASE e = n + 1
      <4>1. ~Building /\ e - 1 = n
        BY <1>4, <2>1, <2>6, <3>2
      <4>2. ~BuildingUpTo(n)
        BY <2>1, <4>1, Zenon DEF Building, BuildingUpTo
      <4>. QED
        BY <3>1, <4>1, <4>2, Zenon
    <3>3. CASE e # n + 1
      <4>1. e \in 1 .. n
        BY <3>3
      <4>2. e \in DOMAIN frames /\ ~frames[e].built
        BY <1>4, <2>1, <2>6, <4>1, Zenon
      <4>3. ~BuildingUpTo(e - 1)
        BY <4>2, Zenon DEF Walk
      <4>. QED
        BY <3>1, <4>3, Zenon
    <3>. QED
      BY <3>2, <3>3
  <2>. QED
    BY <1>4, <2>1, <2>2, <2>3, <2>4, <2>5, <2>6 DEF Walk
<1>. QED
  BY <1>1, <1>4, <1>5, <1>6 DEF f

\* The walk goes on, or back, among frames that are already there.
LEMMA SameFramesEffect ==
  ASSUME Types, Walk, frames' \in Seq(Frame), NEW m \in 1 .. Len(frames), Len(frames') = m,
         \A d \in 1 .. m :
           /\ frames'[d].at \in ScopePart <=> frames[d].at \in ScopePart
           /\ frames'[d].at \in BlockPart <=> frames[d].at \in BlockPart
           /\ frames'[d].at \in FunctionPart <=> frames[d].at \in FunctionPart
           /\ frames'[d].at = "block" <=> frames[d].at = "block"
           /\ frames'[d].built = frames[d].built
           /\ frames[d].stopped => frames'[d].stopped
           /\ frames'[d].stopped => frames'[d].at = "block"
           /\ d < m => frames'[d].at = frames[d].at
  PROVE  Walk' /\ Kept(m)
<1>1. /\ DOMAIN frames = 1 .. Len(frames) /\ DOMAIN frames' = 1 .. m /\ Len(frames) \in Nat
      /\ frames # <<>> /\ m \in Nat /\ m >= 1 /\ m <= Len(frames)
      /\ m \in 0 .. Len(frames) /\ m <= Len(frames')
  BY DEF Types
<1>2. Kept(m)
  BY <1>1, Zenon DEF Kept
<1>3. frames'[1].at \in FunctionPart /\ frames'[1].built
  <2>1. 1 \in 1 .. m
    BY <1>1
  <2>. QED
    BY <1>1, <2>1, Zenon DEF Walk
<1>4. \A d \in 2 .. m : frames'[d].at \notin FunctionPart
  <2>1. \A d \in 2 .. m : d \in 1 .. m /\ d \in 2 .. Len(frames)
    BY <1>1
  <2>. QED
    BY <2>1, Zenon DEF Walk
<1>5. \A d \in 1 .. m - 1 : frames'[d].at \in StmtSlot \cup {"parameters"}
  <2>1. \A d \in 1 .. m - 1 : d \in 1 .. m /\ d < m /\ d \in 1 .. Len(frames) - 1
    BY <1>1
  <2>. QED
    BY <2>1, Zenon DEF Walk
<1>6. ASSUME NEW e \in 1 .. m, ~frames'[e].built
      PROVE  ~BuildingUpTo(e - 1)'
  <2>1. e \in DOMAIN frames /\ e - 1 \in 0 .. m
    BY <1>1
  <2>2. ~BuildingUpTo(e - 1)
    BY <1>6, <2>1, Zenon DEF Walk
  <2>. QED
    BY <1>2, <2>1, <2>2, KeptCounts, Zenon
<1>. QED
  BY <1>1, <1>2, <1>3, <1>4, <1>5, <1>6, Zenon DEF Walk

\* Only the top frame changes.
LEMMA RephaseEffect ==
  ASSUME Types, Walk, frames # <<>>, NEW f \in Frame, Rephase(f),
         f.at \in ScopePart <=> top.at \in ScopePart,
         f.at \in BlockPart <=> top.at \in BlockPart,
         f.at \in FunctionPart <=> top.at \in FunctionPart,
         f.at = "block" <=> top.at = "block",
         f.built = top.built,
         top.stopped => f.stopped,
         f.stopped => f.at = "block"
  PROVE  /\ frames' \in Seq(Frame) /\ Walk' /\ Kept(Len(frames))
         /\ Len(frames') = Len(frames)
         /\ \A d \in 1 .. Len(frames) - 1 : frames'[d] = frames[d]
         /\ frames'[Len(frames)] = f
<1>1. PICK n \in Nat \ {0} : n = Len(frames)
  BY Members, Zenon DEF Types
<1>2. /\ frames' \in Seq(Frame) /\ Len(frames') = n
      /\ \A d \in 1 .. n - 1 : frames'[d] = frames[d]
      /\ frames'[n] = f /\ top = frames[n] /\ DOMAIN frames = 1 .. n
  BY <1>1 DEF Types, Rephase, top
<1>3. ASSUME NEW d \in 1 .. n
      PROVE  /\ frames'[d].at \in ScopePart <=> frames[d].at \in ScopePart
             /\ frames'[d].at \in BlockPart <=> frames[d].at \in BlockPart
             /\ frames'[d].at \in FunctionPart <=> frames[d].at \in FunctionPart
             /\ frames'[d].at = "block" <=> frames[d].at = "block"
             /\ frames'[d].built = frames[d].built
             /\ frames[d].stopped => frames'[d].stopped
             /\ frames'[d].stopped => frames'[d].at = "block"
             /\ d < n => frames'[d].at = frames[d].at
  <2>1. CASE d = n
    BY <1>2, <2>1
  <2>2. CASE d # n
    <3>1. frames'[d] = frames[d] /\ d \in DOMAIN frames
      BY <1>2, <2>2
    <3>. QED
      BY <3>1, Zenon DEF Walk
  <2>. QED
    BY <2>1, <2>2
<1>4. n \in 1 .. Len(frames)
  BY <1>1
<1>. QED
  BY <1>1, <1>2, <1>3, <1>4, SameFramesEffect, Zenon

\* A statement without children is walked.
LEMMA CompleteEffect ==
  ASSUME Types, Walk, At(StmtSlot \cup {"forInit"}), CompleteStmt
  PROVE  /\ frames' \in Seq(Frame) /\ Walk' /\ Kept(Len(frames))
         /\ Len(frames') = Len(frames)
         /\ \A d \in 1 .. Len(frames) - 1 : frames'[d] = frames[d]
         /\ frames'[Len(frames)] = Completed(top)
<1>1. frames # <<>> /\ top \in Frame /\ top.at \in StmtSlot \cup {"forInit"}
  BY DEF Types, At, top
<1>2. Completed(top) \in Frame
  BY <1>1, CompletedIs
<1>3. /\ Completed(top).at \in ScopePart <=> top.at \in ScopePart
      /\ Completed(top).at \in BlockPart <=> top.at \in BlockPart
      /\ Completed(top).at \in FunctionPart <=> top.at \in FunctionPart
      /\ Completed(top).at = "block" <=> top.at = "block"
      /\ Completed(top).built = top.built
      /\ Completed(top).stopped = top.stopped
  BY <1>1, CompletedIs
<1>4. top.stopped => top.at = "block"
  BY <1>1 DEF Walk, top, Types
<1>. QED
  BY <1>1, <1>2, <1>3, <1>4, RephaseEffect, Zenon DEF CompleteStmt

\* The other statements without children change nothing but frames, where they only
\* leave blocks.
LEMMA StatementEffect ==
  ASSUME Types, Walk, OtherStmt \/ Return \/ LoopControl
  PROVE  /\ frames' \in Seq(Frame) /\ Walk' /\ Kept(Len(frames))
         /\ Len(frames') = Len(frames)
         /\ \A d \in 1 .. Len(frames) :
              /\ frames'[d].at \in ArmPart <=> frames[d].at \in ArmPart
              /\ frames'[d].locals = frames[d].locals
         /\ UNCHANGED <<analyzer, builder, ghost>>
<1>1. /\ UNCHANGED <<analyzer, builder, ghost>> /\ At(StmtSlot \cup {"forInit"})
      /\ CompleteStmt \/ Return \/ LoopControl
  <2>1. OtherStmt \/ Return \/ LoopControl => UNCHANGED <<analyzer, builder, ghost>>
    BY Zenon DEF OtherStmt, Return, LoopControl
  <2>2. Return \/ LoopControl => At(StmtSlot \cup {"forInit"})
    BY Zenon DEF Return, LoopControl, At
  <2>3. OtherStmt => At(StmtSlot \cup {"forInit"}) /\ CompleteStmt
    BY Zenon DEF OtherStmt
  <2>. QED
    BY <2>1, <2>2, <2>3
<1>2. frames \in Seq(Frame) /\ frames # <<>>
  BY <1>1, Zenon DEF Types, At
<1>3. PICK n \in Nat \ {0} : n = Len(frames)
  BY <1>2, Members, Zenon
<1>4. /\ DOMAIN frames = 1 .. n /\ n \in 1 .. n /\ n \in DOMAIN frames
      /\ \A d \in 1 .. n : frames[d] \in Frame
      /\ top = frames[n] /\ top \in Frame /\ top.at \in StmtSlot \cup {"forInit"}
      /\ \A d \in 1 .. n : frames[d].stopped => frames[d].at = "block"
  <2>1. /\ DOMAIN frames = 1 .. n /\ n \in 1 .. n
        /\ \A d \in 1 .. n : frames[d] \in Frame
    BY <1>2, <1>3, Members, Zenon
  <2>2. top = frames[n] /\ top.at \in StmtSlot \cup {"forInit"}
    BY <1>1, <1>3, Zenon DEF top, At
  <2>3. \A d \in DOMAIN frames : frames[d].stopped => frames[d].at = "block"
    BY Zenon DEF Walk
  <2>. QED
    BY <2>1, <2>2, <2>3, Zenon
<1>5. /\ Completed(top) \in Frame
      /\ Completed(top).at \in ScopePart <=> top.at \in ScopePart
      /\ Completed(top).at \in BlockPart <=> top.at \in BlockPart
      /\ Completed(top).at \in FunctionPart <=> top.at \in FunctionPart
      /\ Completed(top).at = "block" <=> top.at = "block"
      /\ Completed(top).at \in ArmPart <=> top.at \in ArmPart
      /\ Completed(top).built = top.built
      /\ Completed(top).stopped = top.stopped
      /\ Completed(top).locals = top.locals
  BY <1>4, CompletedIs
<1>6. CASE CompleteStmt
  <2>1. /\ frames' \in Seq(Frame) /\ Walk' /\ Kept(n) /\ Len(frames') = n
        /\ \A d \in 1 .. n - 1 : frames'[d] = frames[d]
        /\ frames'[n] = Completed(top)
    BY <1>1, <1>3, <1>6, CompleteEffect, Zenon
  <2>2. \A d \in 1 .. n : d = n \/ d \in 1 .. n - 1
    OBVIOUS
  <2>. QED
    BY <1>1, <1>3, <1>4, <1>5, <2>1, <2>2, Zenon
<1>7. CASE LoopControl
  <2>. DEFINE f == [Completed(top) EXCEPT !.stopped = @ \/ (top.at = "block" /\ Building)]
  <2>1. /\ f \in Frame /\ f.at = Completed(top).at /\ f.built = top.built
        /\ top.stopped => f.stopped
        /\ f.stopped => f.at = "block"
        /\ f.locals = top.locals
    <3>1. (Completed(top).stopped \/ (top.at = "block" /\ Building)) \in BOOLEAN
      BY <1>4, <1>5 DEF Building, Frame
    <3>2. /\ f \in Frame /\ f.at = Completed(top).at /\ f.built = Completed(top).built
          /\ f.locals = Completed(top).locals
          /\ f.stopped = (Completed(top).stopped \/ (top.at = "block" /\ Building))
      BY <1>5, <3>1 DEF Frame
    <3>. QED
      BY <1>4, <1>5, <3>2
  <2>2. Rephase(f)
    BY <1>7, Zenon DEF LoopControl
  <2>. HIDE DEF f
  <2>3. /\ frames' \in Seq(Frame) /\ Walk' /\ Kept(n) /\ Len(frames') = n
        /\ \A d \in 1 .. n - 1 : frames'[d] = frames[d]
        /\ frames'[n] = f
    BY <1>2, <1>3, <1>5, <2>1, <2>2, RephaseEffect, Zenon
  <2>4. \A d \in 1 .. n : d = n \/ d \in 1 .. n - 1
    OBVIOUS
  <2>. QED
    BY <1>1, <1>3, <1>4, <1>5, <2>1, <2>3, <2>4, Zenon
<1>8. CASE Return
  <2>. DEFINE nested(d) == \A e \in d .. n : frames[e].at = "block"
              g(d) == IF nested(d) /\ Building THEN [frames[d] EXCEPT !.stopped = TRUE]
                      ELSE IF d = n THEN Completed(frames[d])
                      ELSE frames[d]
  <2>1. frames' = [d \in DOMAIN frames |-> g(d)]
    BY <1>3, <1>8, Zenon DEF Return
  <2>2. ASSUME NEW d \in 1 .. n
        PROVE  /\ g(d) \in Frame
               /\ g(d).at \in ScopePart <=> frames[d].at \in ScopePart
               /\ g(d).at \in BlockPart <=> frames[d].at \in BlockPart
               /\ g(d).at \in FunctionPart <=> frames[d].at \in FunctionPart
               /\ g(d).at \in ArmPart <=> frames[d].at \in ArmPart
               /\ g(d).at = "block" <=> frames[d].at = "block"
               /\ g(d).built = frames[d].built
               /\ frames[d].stopped => g(d).stopped
               /\ g(d).stopped => g(d).at = "block"
               /\ g(d).locals = frames[d].locals
               /\ d < n => g(d).at = frames[d].at
    <3>1. frames[d] \in Frame
      BY <1>4
    <3>2. CASE nested(d) /\ Building
      <4>1. g(d) = [frames[d] EXCEPT !.stopped = TRUE] /\ frames[d].at = "block"
        BY <3>2
      <4>. HIDE DEF g
      <4>2. /\ g(d) \in Frame /\ g(d).at = frames[d].at /\ g(d).built = frames[d].built
            /\ g(d).stopped /\ g(d).locals = frames[d].locals
        BY <3>1, <4>1 DEF Frame
      <4>. QED
        BY <4>1, <4>2
    <3>3. CASE ~(nested(d) /\ Building) /\ d = n
      <4>1. g(d) = Completed(top)
        BY <1>4, <3>3
      <4>. HIDE DEF g
      <4>. QED
        BY <1>4, <1>5, <3>3, <4>1
    <3>4. CASE ~(nested(d) /\ Building) /\ d # n
      <4>1. g(d) = frames[d]
        BY <3>4
      <4>. HIDE DEF g
      <4>. QED
        BY <1>4, <3>1, <4>1
    <3>. QED
      BY <3>2, <3>3, <3>4
  <2>. HIDE DEF g
  <2>3. frames' \in Seq(Frame) /\ Len(frames') = n /\ \A d \in 1 .. n : frames'[d] = g(d)
    <3>1. frames' \in [1 .. n -> Frame] /\ \A d \in 1 .. n : frames'[d] = g(d)
      BY <1>4, <2>1, <2>2, Zenon
    <3>2. n \in Nat
      OBVIOUS
    <3>. QED
      BY <3>1, <3>2, FunctionIsSeq, Zenon
  <2>4. ASSUME NEW d \in 1 .. n
        PROVE  /\ frames'[d].at \in ScopePart <=> frames[d].at \in ScopePart
               /\ frames'[d].at \in BlockPart <=> frames[d].at \in BlockPart
               /\ frames'[d].at \in FunctionPart <=> frames[d].at \in FunctionPart
               /\ frames'[d].at = "block" <=> frames[d].at = "block"
               /\ frames'[d].built = frames[d].built
               /\ frames[d].stopped => frames'[d].stopped
               /\ frames'[d].stopped => frames'[d].at = "block"
               /\ d < n => frames'[d].at = frames[d].at
    <3>1. frames'[d] = g(d)
      BY <2>3
    <3>. QED
      BY <2>2, <3>1, Zenon
  <2>5. Walk' /\ Kept(n)
    BY <1>3, <1>4, <2>3, <2>4, SameFramesEffect, Zenon
  <2>. QED
    BY <1>1, <1>3, <2>2, <2>3, <2>5, Zenon
<1>. QED
  BY <1>1, <1>6, <1>7, <1>8

\* A compound statement ends: its frame is popped and its parent goes on.
LEMMA PopEffect ==
  ASSUME Types, Walk, NEW parts, parts \cap FunctionPart = {}, At(parts), PopFrame
  PROVE  /\ frames' \in Seq(Frame) /\ Walk' /\ Kept(Len(frames) - 1)
         /\ Len(frames) - 1 \in Nat \ {0} /\ Len(frames') = Len(frames) - 1
         /\ \A d \in 1 .. Len(frames) - 1 :
              /\ frames'[d].at \in ArmPart <=> frames[d].at \in ArmPart
              /\ frames'[d].locals = frames[d].locals
<1>1. PICK n \in Nat \ {0} : n = Len(frames)
  BY Members, Zenon DEF Types, At
<1>2. PICK m \in Nat : n = m + 1 /\ m = n - 1
  BY <1>1
<1>3. top = frames[n] /\ top.at \notin FunctionPart /\ frames # <<>>
  BY <1>1, Zenon DEF At, top
<1>4. m # 0
  <2>1. n # 1
    BY <1>3, Zenon DEF Walk
  <2>. QED
    BY <1>2, <2>1
<1>5. \A d \in 1 .. m : /\ frames[d] \in Frame /\ d \in DOMAIN frames
                        /\ frames[d].at \in StmtSlot \cup {"parameters"}
                        /\ frames[d].stopped => frames[d].at = "block"
  <2>1. \A d \in 1 .. m : d \in 1 .. Len(frames) /\ d \in 1 .. Len(frames) - 1
    BY <1>1, <1>2
  <2>2. DOMAIN frames = 1 .. Len(frames) /\ \A d \in 1 .. Len(frames) : frames[d] \in Frame
    BY Members, Zenon DEF Types
  <2>. QED
    BY <2>1, <2>2, Zenon DEF Walk
<1>. DEFINE g(d) == IF d = m THEN Completed(frames[d]) ELSE frames[d]
<1>6. frames' = [d \in 1 .. m |-> g(d)]
  BY <1>1, <1>2 DEF PopFrame
<1>7. ASSUME NEW d \in 1 .. m
      PROVE  /\ g(d) \in Frame
             /\ g(d).at \in ScopePart <=> frames[d].at \in ScopePart
             /\ g(d).at \in BlockPart <=> frames[d].at \in BlockPart
             /\ g(d).at \in FunctionPart <=> frames[d].at \in FunctionPart
             /\ g(d).at \in ArmPart <=> frames[d].at \in ArmPart
             /\ g(d).at = "block" <=> frames[d].at = "block"
             /\ g(d).built = frames[d].built
             /\ frames[d].stopped => g(d).stopped
             /\ g(d).stopped => g(d).at = "block"
             /\ g(d).locals = frames[d].locals
             /\ d < m => g(d).at = frames[d].at
  <2>1. CASE d = m
    <3>1. g(d) = Completed(frames[d])
      BY <2>1
    <3>. HIDE DEF g
    <3>. QED
      BY <1>5, <2>1, <3>1, CompletedIs
  <2>2. CASE d # m
    <3>1. g(d) = frames[d]
      BY <2>2
    <3>. HIDE DEF g
    <3>. QED
      BY <1>5, <3>1
  <2>. QED
    BY <2>1, <2>2
<1>. HIDE DEF g
<1>8. frames' \in Seq(Frame) /\ Len(frames') = m /\ \A d \in 1 .. m : frames'[d] = g(d)
  <2>1. frames' \in [1 .. m -> Frame] /\ \A d \in 1 .. m : frames'[d] = g(d)
    BY <1>6, <1>7, Zenon
  <2>. QED
    BY <1>2, <2>1, FunctionIsSeq, Zenon
<1>9. m \in 1 .. Len(frames)
  BY <1>1, <1>2, <1>4
<1>11. ASSUME NEW d \in 1 .. m
       PROVE  /\ frames'[d].at \in ScopePart <=> frames[d].at \in ScopePart
              /\ frames'[d].at \in BlockPart <=> frames[d].at \in BlockPart
              /\ frames'[d].at \in FunctionPart <=> frames[d].at \in FunctionPart
              /\ frames'[d].at = "block" <=> frames[d].at = "block"
              /\ frames'[d].built = frames[d].built
              /\ frames[d].stopped => frames'[d].stopped
              /\ frames'[d].stopped => frames'[d].at = "block"
              /\ d < m => frames'[d].at = frames[d].at
  <2>1. frames'[d] = g(d)
    BY <1>8
  <2>. QED
    BY <1>7, <2>1, Zenon
<1>10. Walk' /\ Kept(m)
  BY <1>8, <1>9, <1>11, SameFramesEffect, Zenon
<1>. QED
  BY <1>1, <1>2, <1>4, <1>7, <1>8, <1>10, Zenon

-----------------------------------------------------------------------------
(* What a step keeps of the scopes.                                        *)

\* The first k scopes, the slots of the bindings, and what is known of them.
ScopesKept(k) ==
  /\ k \in 0 .. Len(scopes) /\ k <= Len(scopes')
  /\ \A d \in 1 .. k : scopes'[d] = scopes[d]

IrScopesKept(j) ==
  /\ j \in 0 .. Len(irScopes) /\ j <= Len(irScopes')
  /\ \A d \in 1 .. j : irScopes'[d] = irScopes[d]

SlotsKept ==
  /\ \A b \in 1 .. nextBindingId - 1 : slotOf'[b] = slotOf[b]
  /\ leaked \subseteq leaked'
  /\ bare \subseteq bare'

\* The innermost binding of a name is one of its bindings.
LEMMA LookupBinding ==
  ASSUME NEW ss \in Seq([Name -> Id]), NEW name \in Name
  PROVE  /\ lookup(ss, name) \in Id
         /\ lookup(ss, name) # 0 =>
              \E d \in 1 .. Len(ss) : lookup(ss, name) = ss[d][name]
<1>1. \A d \in 1 .. Len(ss) : ss[d][name] \in Id
  OBVIOUS
<1>2. 0 \in Id
  BY DEF Id
<1>3. \/ (\A d \in 1 .. Len(ss) : ss[d][name] = 0) /\ lookup(ss, name) = 0
      \/ \E d \in 1 .. Len(ss) : lookup(ss, name) = ss[d][name]
  BY LookupFinds, Zenon
<1>. QED
  BY <1>1, <1>2, <1>3, Zenon

\* Scopes that are kept mean the same.
LEMMA OuterKept ==
  ASSUME NEW k
  PROVE  /\ ScopesKept(k) => Outer(scopes', k) = Outer(scopes, k)
         /\ IrScopesKept(k) => Outer(irScopes', k) = Outer(irScopes, k)
BY Zenon DEF ScopesKept, IrScopesKept, Outer

\* A name that resolved resolves as before.
LEMMA ResolvesKept ==
  ASSUME Types, BindingsAreOld, NEW k, NEW j, ScopesKept(k), IrScopesKept(j), SlotsKept,
         NEW name \in Name, Resolves(name, k, j)
  PROVE  Resolves(name, k, j)'
<1>. DEFINE b == lookup(Outer(scopes, k), name)
            slot == lookup(Outer(irScopes, j), name)
<1>1. lookup(Outer(scopes', k), name) = b /\ lookup(Outer(irScopes', j), name) = slot
  BY OuterKept, Zenon
<1>2. b # 0 => slotOf'[b] = slotOf[b]
  <2>1. /\ Outer(scopes, k) \in Seq([Name -> Id]) /\ Len(Outer(scopes, k)) = k
        /\ \A d \in 1 .. k : Outer(scopes, k)[d] = scopes[d]
    BY OuterType DEF ScopesKept, Types
  <2>. SUFFICES ASSUME b # 0 PROVE slotOf'[b] = slotOf[b]
    OBVIOUS
  <2>2. b \in Id /\ \E d \in 1 .. k : b = Outer(scopes, k)[d][name]
    BY <2>1, LookupBinding, Zenon
  <2>3. \A d \in 1 .. k : d \in DOMAIN scopes
    BY DEF ScopesKept, Types
  <2>4. b < nextBindingId
    BY <2>1, <2>2, <2>3, Zenon DEF BindingsAreOld
  <2>. HIDE DEF b
  <2>5. b \in 1 .. nextBindingId - 1
    BY <2>2, <2>4 DEF Types, Id
  <2>. QED
    BY <2>5, Zenon DEF SlotsKept
<1>3. leaked \ {0} \subseteq leaked' \ {0}
  BY Zenon DEF SlotsKept
<1>4. \/ slot \in leaked \ {0}
      \/ b # 0 /\ slot = slotOf[b] /\ slot # 0
      \/ b = 0 /\ slot = 0
  BY Zenon DEF Resolves
<1>5. \/ slot \in leaked' \ {0}
      \/ b # 0 /\ slot = slotOf'[b] /\ slot # 0
      \/ b = 0 /\ slot = 0
  BY <1>2, <1>3, <1>4, Zenon
<1>. HIDE DEF b, slot
<1>. QED
  BY <1>1, <1>5, Zenon DEF Resolves

\* The scopes up to a frame are among the open ones.
LEMMA CountsBound ==
  ASSUME Types, ScopesOfFrames, NEW e \in 0 .. Len(frames)
  PROVE  /\ ScopesUpTo(e) \in 0 .. Len(scopes)
         /\ BlocksUpTo(e) \in 0 .. Len(irScopes)
<1>1. e \in Nat /\ Len(frames) \in Nat /\ e <= Len(frames)
  BY DEF Types
<1>2. /\ Count(ScopeFrames, e) <= Count(ScopeFrames, Len(frames))
      /\ Count(BuiltBlocks, e) <= Count(BuiltBlocks, Len(frames))
  BY <1>1, CountMonotone
<1>3. /\ Count(ScopeFrames, e) \in Nat /\ Count(ScopeFrames, Len(frames)) \in Nat
      /\ Count(BuiltBlocks, e) \in Nat /\ Count(BuiltBlocks, Len(frames)) \in Nat
  BY <1>1, CountStep
<1>. QED
  BY <1>2, <1>3 DEF ScopesUpTo, BlocksUpTo, ScopesOfFrames

\* The passes agree below an open block as they did.
LEMMA AgreeBelow ==
  ASSUME Types, ScopesOfFrames, BindingsAreOld, ScopesAgree, frames' \in Seq(Frame),
         NEW m, Kept(m), NEW e \in 0 .. m, BuildingUpTo(e)', Boundary(e),
         ScopesKept(ScopesUpTo(e)), IrScopesKept(BlocksUpTo(e)), SlotsKept,
         NEW name \in Name
  PROVE  Resolves(name, ScopesUpTo(e), BlocksUpTo(e))'
<1>1. e \in 0 .. Len(frames)
  BY DEF Kept, Types
<1>2. BuildingUpTo(e) /\ ScopesUpTo(e)' = ScopesUpTo(e) /\ BlocksUpTo(e)' = BlocksUpTo(e)
  BY KeptCounts, Zenon
<1>3. Resolves(name, ScopesUpTo(e), BlocksUpTo(e))
  BY <1>1, <1>2, Zenon DEF ScopesAgree
<1>4. PICK k, j : k = ScopesUpTo(e) /\ j = BlocksUpTo(e)
  OBVIOUS
<1>5. Resolves(name, k, j)'
  BY <1>3, <1>4, ResolvesKept, Zenon
<1>. QED
  BY <1>2, <1>4, <1>5, Zenon DEF Resolves

\* An arm was opened after the slots that can be named in it, as before.
LEMMA ArmKept ==
  ASSUME Types, BindingsAreOld, ScopesOfFrames, ArmsAreYounger, frames' \in Seq(Frame),
         NEW m, Kept(m), NEW e \in 1 .. m, frames[e].at \in ArmPart,
         frames'[e].locals = frames[e].locals,
         ScopesKept(ScopesUpTo(e)), SlotsKept,
         NEW k \in 1 .. ScopesUpTo(e)', NEW n \in Name,
         scopes'[k][n] # 0, scopes'[k][n] \notin bare'
  PROVE  slotOf'[scopes'[k][n]] <= frames'[e].locals
<1>1. e \in DOMAIN frames /\ e \in 0 .. m
  BY DEF Kept, Types
<1>2. ScopesUpTo(e)' = ScopesUpTo(e)
  BY <1>1, KeptCounts, Zenon
<1>3. PICK b : b = scopes[k][n] /\ b = scopes'[k][n]
  BY <1>2, Zenon DEF ScopesKept
<1>4. k \in DOMAIN scopes
  BY <1>2 DEF ScopesKept, Types
<1>5. b # 0 /\ b \notin bare /\ b < nextBindingId /\ b \in Id
  <2>1. b # 0 /\ b \notin bare /\ b < nextBindingId
    BY <1>3, <1>4, Zenon DEF BindingsAreOld, SlotsKept
  <2>2. scopes[k] \in [Name -> Id]
    BY <1>4 DEF Types
  <2>. QED
    BY <1>3, <2>1, <2>2
<1>6. slotOf[b] <= frames[e].locals
  BY <1>1, <1>2, <1>3, <1>5, Zenon DEF ArmsAreYounger
<1>7. b \in 1 .. nextBindingId - 1
  BY <1>5 DEF Types, Id
<1>8. slotOf'[b] = slotOf[b]
  BY <1>7, Zenon DEF SlotsKept
<1>. QED
  BY <1>3, <1>6, <1>8, Zenon

\* An empty scope more has no names.
LEMMA PushedIs ==
  ASSUME NEW ss \in Seq([Name -> Id])
  PROVE  /\ pushScope(ss) \in Seq([Name -> Id])
         /\ Len(pushScope(ss)) = Len(ss) + 1
         /\ \A k \in 1 .. Len(ss) : pushScope(ss)[k] = ss[k]
         /\ pushScope(ss)[Len(ss) + 1] = EmptyScope
         /\ \A name \in Name : lookup(pushScope(ss), name) = lookup(ss, name)
<1>1. EmptyScope \in [Name -> Id]
  BY DEF EmptyScope, Id
<1>2. PICK n \in Nat : n = Len(ss)
  OBVIOUS
<1>3. PICK tt \in Seq([Name -> Id]) :
        /\ tt = pushScope(ss) /\ Len(tt) = n + 1 /\ tt[n + 1] = EmptyScope
        /\ \A k \in 1 .. n : tt[k] = ss[k]
  <2>1. /\ Append(ss, EmptyScope) \in Seq([Name -> Id])
        /\ Len(Append(ss, EmptyScope)) = Len(ss) + 1
        /\ Append(ss, EmptyScope)[Len(ss) + 1] = EmptyScope
        /\ \A k \in 1 .. Len(ss) : Append(ss, EmptyScope)[k] = ss[k]
    BY <1>1, AppendProperties
  <2>. QED
    BY <1>2, <2>1, Zenon DEF pushScope
<1>4. Outer(tt, n + 1) = tt /\ Outer(ss, n) = ss
  BY <1>2, <1>3, OuterType
<1>5. Outer(tt, n) = Outer(ss, n)
  BY <1>3, Zenon DEF Outer
<1>6. \A name \in Name : EmptyScope[name] = 0
  BY DEF EmptyScope
<1>7. ASSUME NEW name \in Name
      PROVE  lookup(tt, name) = lookup(ss, name)
  <2>1. n + 1 <= Len(tt)
    BY <1>3
  <2>2. lookup(Outer(tt, n + 1), name) =
          IF tt[n + 1][name] # 0 THEN tt[n + 1][name] ELSE lookup(Outer(tt, n), name)
    BY <2>1, LookupOuter
  <2>. QED
    BY <1>3, <1>4, <1>5, <1>6, <2>2, Zenon
<1>. QED
  BY <1>2, <1>3, <1>7, Zenon

\* Without its innermost scope.
LEMMA PoppedIs ==
  ASSUME NEW ss \in Seq([Name -> Id]), ss # <<>>
  PROVE  /\ popScope(ss) \in Seq([Name -> Id])
         /\ Len(popScope(ss)) = Len(ss) - 1
         /\ \A k \in 1 .. Len(ss) - 1 : popScope(ss)[k] = ss[k]
<1>1. PICK n \in Nat : n + 1 = Len(ss) /\ n = Len(ss) - 1
  BY EmptySeq
<1>2. \A k \in 1 .. n : ss[k] \in [Name -> Id]
  BY <1>1
<1>3. SubSeq(ss, 1, n) = [k \in 1 .. n |-> ss[k]]
  BY <1>1 DEF SubSeq
<1>4. PICK tt \in [1 .. n -> [Name -> Id]] : tt = SubSeq(ss, 1, n) /\ \A k \in 1 .. n : tt[k] = ss[k]
  BY <1>2, <1>3
<1>5. popScope(ss) = tt
  BY <1>1, <1>4, Zenon DEF popScope
<1>6. tt \in Seq([Name -> Id]) /\ Len(tt) = n
  BY <1>4, FunctionIsSeq, Zenon
<1>. QED
  BY <1>1, <1>4, <1>5, <1>6, Zenon

-----------------------------------------------------------------------------
(* Every step preserves the invariant.                                     *)

\* When the scopes stay, so do the facts about them.
LEMMA SameScopes ==
  ASSUME Types, UNCHANGED <<scopes, irScopes, nextBindingId, slotOf, leaked>>, bare \subseteq bare'
  PROVE  /\ \A k \in 0 .. Len(scopes) : ScopesKept(k)
         /\ \A j \in 0 .. Len(irScopes) : IrScopesKept(j)
         /\ SlotsKept
<1>1. /\ \A k \in 0 .. Len(scopes) : k <= Len(scopes')
      /\ \A j \in 0 .. Len(irScopes) : j <= Len(irScopes')
  BY DEF Types
<1>. QED
  BY <1>1, Zenon DEF ScopesKept, IrScopesKept, SlotsKept

\* The walk stays in the top statement, and the scopes stay.
LEMMA StayInScope ==
  ASSUME IInv, frames' \in Seq(Frame), Kept(Len(frames)), Len(frames') = Len(frames),
         UNCHANGED <<scopes, irScopes, nextBindingId, slotOf, leaked>>, bare \subseteq bare'
  PROVE  ScopesOfFrames' /\ BindingsAreOld' /\ ScopesAgree'
<1>1. Types /\ ScopesOfFrames /\ BindingsAreOld /\ ScopesAgree
  BY Zenon DEF IInv
<1>2. PICK n \in Nat : n = Len(frames) /\ n = Len(frames') /\ n \in 0 .. n
  BY <1>1, Members DEF Types
<1>3. Kept(n)
  BY <1>2, Zenon
<1>4. ScopesUpTo(n)' = ScopesUpTo(n) /\ BlocksUpTo(n)' = BlocksUpTo(n)
  BY <1>1, <1>2, <1>3, KeptCounts, Zenon
<1>5. ScopesOfFrames'
  BY <1>1, <1>2, <1>4, Zenon DEF ScopesOfFrames, ScopesUpTo, BlocksUpTo
<1>6. ASSUME NEW e \in 0 .. n, Boundary(e)', BuildingUpTo(e)', NEW name \in Name
      PROVE  Resolves(name, ScopesUpTo(e), BlocksUpTo(e))'
  <2>1. Boundary(e)
    <3>1. CASE e = n
      BY <1>2, <3>1, Zenon DEF Boundary
    <3>2. CASE e # n
      <4>1. e + 1 \in 1 .. n
        BY <3>2
      <4>2. frames'[e + 1].at = "block"
        BY <1>2, <1>6, <3>2, Zenon DEF Boundary
      <4>. QED
        BY <1>3, <4>1, <4>2, Zenon DEF Kept, Boundary
    <3>. QED
      BY <3>1, <3>2
  <2>2. ScopesUpTo(e) \in 0 .. Len(scopes) /\ BlocksUpTo(e) \in 0 .. Len(irScopes)
    BY <1>1, <1>2, CountsBound, Zenon
  <2>3. ScopesKept(ScopesUpTo(e)) /\ IrScopesKept(BlocksUpTo(e)) /\ SlotsKept
    BY <1>1, <2>2, SameScopes, Zenon
  <2>. QED
    BY <1>1, <1>3, <1>6, <2>1, <2>3, AgreeBelow, Zenon
<1>7. ScopesAgree'
  BY <1>2, <1>6, Zenon DEF ScopesAgree
<1>8. BindingsAreOld'
  BY <1>1, Zenon DEF BindingsAreOld
<1>. QED
  BY <1>5, <1>7, <1>8

\* A statement without children.
LEMMA StatementStep ==
  ASSUME IInv, OtherStmt \/ Return \/ LoopControl
  PROVE  IInv'
<1>1. /\ Types /\ Walk /\ ScopesOfFrames /\ BindingsAreOld /\ ArmsAreYounger
      /\ SlotsAreLive
  BY Zenon DEF IInv
<1>2. /\ frames' \in Seq(Frame) /\ Walk' /\ Kept(Len(frames))
      /\ Len(frames') = Len(frames)
      /\ \A d \in 1 .. Len(frames) :
           /\ frames'[d].at \in ArmPart <=> frames[d].at \in ArmPart
           /\ frames'[d].locals = frames[d].locals
      /\ UNCHANGED <<analyzer, builder, ghost>>
  BY <1>1, StatementEffect, Zenon
<1>3. /\ UNCHANGED <<scopes, irScopes, nextBindingId, slotOf, leaked, bare>>
      /\ UNCHANGED <<rejected, locals, lost>>
  BY <1>2, Zenon DEF analyzer, builder, ghost
<1>4. ScopesOfFrames' /\ BindingsAreOld' /\ ScopesAgree'
  BY <1>2, <1>3, StayInScope, Zenon
<1>5. Types'
  BY <1>1, <1>2, <1>3, Zenon DEF Types
<1>6. SlotsAreLive'
  BY <1>1, <1>3, Zenon DEF SlotsAreLive
<1>7. ASSUME NEW e \in DOMAIN frames', frames'[e].at \in ArmPart,
             NEW k \in 1 .. ScopesUpTo(e)', NEW n \in Name,
             scopes'[k][n] # 0, scopes'[k][n] \notin bare'
      PROVE  slotOf'[scopes'[k][n]] <= frames'[e].locals
  <2>1. e \in 1 .. Len(frames) /\ e \in 0 .. Len(frames)
    BY <1>2
  <2>2. frames[e].at \in ArmPart /\ frames'[e].locals = frames[e].locals
    BY <1>2, <1>7, <2>1, Zenon
  <2>3. ScopesKept(ScopesUpTo(e)) /\ SlotsKept
    BY <1>1, <1>3, <2>1, CountsBound, SameScopes, Zenon
  <2>. QED
    BY <1>1, <1>2, <1>7, <2>1, <2>2, <2>3, ArmKept, Zenon
<1>8. ArmsAreYounger'
  BY <1>7, Zenon DEF ArmsAreYounger
<1>. QED
  BY <1>2, <1>4, <1>5, <1>6, <1>8, Zenon DEF IInv

\* The top is the last frame.
LEMMA TopIs ==
  ASSUME Types, frames # <<>>
  PROVE  /\ Len(frames) \in Nat \ {0} /\ DOMAIN frames = 1 .. Len(frames)
         /\ Len(frames) \in DOMAIN frames /\ top = frames[Len(frames)] /\ top \in Frame
<1>1. frames \in Seq(Frame)
  BY Zenon DEF Types
<1>2. /\ Len(frames) \in Nat \ {0} /\ Len(frames) \in 1 .. Len(frames)
      /\ DOMAIN frames = 1 .. Len(frames)
      /\ \A i \in 1 .. Len(frames) : frames[i] \in Frame
  BY <1>1, Members, Zenon
<1>. QED
  BY <1>2, Zenon DEF top

\* A frame for another part of the same statement.
LEMMA RearmedIs ==
  ASSUME NEW f \in Frame, NEW arm \in Part, NEW l \in Id
  PROVE  [f EXCEPT !.at = arm, !.locals = l]
           = [at |-> arm, built |-> f.built, stopped |-> f.stopped, locals |-> l]
<1>1. PICK g \in Frame : g = [f EXCEPT !.at = arm]
  BY DEF Frame
<1>2. /\ g.at = arm /\ g.built = f.built /\ g.stopped = f.stopped
      /\ [f EXCEPT !.at = arm, !.locals = l] = [g EXCEPT !.locals = l]
  BY <1>1 DEF Frame
<1>3. [g EXCEPT !.locals = l] = [at |-> g.at, built |-> g.built, stopped |-> g.stopped, locals |-> l]
  BY DEF Frame
<1>. QED
  BY <1>2, <1>3, Zenon

\* The slots that are lost with an arm are not those of bindings that can be named.
LEMMA SlotsOfArmAreInner ==
  ASSUME IInv, frames # <<>>, top.at \in ArmPart, NEW k \in DOMAIN scopes, NEW n \in Name,
         scopes[k][n] # 0, scopes[k][n] \notin bare
  PROVE  slotOf[scopes[k][n]] \notin lost \cup SlotsOfArm
<1>1. Types /\ ScopesOfFrames /\ ArmsAreYounger /\ SlotsAreLive
  BY Zenon DEF IInv
<1>2. PICK e : e = Len(frames) /\ e \in DOMAIN frames /\ top = frames[e] /\ top \in Frame
  BY <1>1, TopIs, Zenon
<1>3. k \in 1 .. ScopesUpTo(e)
  BY <1>1, <1>2 DEF ScopesOfFrames, Types
<1>4. PICK b : b = scopes[k][n] /\ b # 0 /\ b \notin bare
  OBVIOUS
<1>5. slotOf[b] <= top.locals
  BY <1>1, <1>2, <1>3, <1>4, Zenon DEF ArmsAreYounger
<1>6. slotOf[b] \notin lost
  BY <1>1, <1>4, Zenon DEF SlotsAreLive
<1>7. b \in Binding
  BY <1>1, <1>4 DEF Types, Binding, Id
<1>8. slotOf[b] \in 0 .. locals /\ locals \in Nat
  BY <1>1, <1>7 DEF Types
<1>9. top.locals \in Nat
  BY <1>2 DEF Frame, Id
<1>10. slotOf[b] \notin SlotsOfArm
  BY <1>5, <1>8, <1>9 DEF SlotsOfArm
<1>. QED
  BY <1>4, <1>6, <1>10, Zenon

\* The slots of bindings in scope exist.
LEMMA SlotsExist ==
  ASSUME Types, NEW k \in DOMAIN scopes, NEW n \in Name, scopes[k][n] # 0
  PROVE  scopes[k][n] \in Binding /\ slotOf[scopes[k][n]] \in 0 .. locals
<1>1. scopes[k][n] \in Binding
  BY DEF Types, Binding, Id
<1>. QED
  BY <1>1 DEF Types

\* A further arm or body of the statement begins.
LEMMA NextArmStep ==
  ASSUME IInv, OpenElse \/ EnterForBody
  PROVE  IInv'
<1>1. /\ Types /\ Walk /\ ScopesOfFrames /\ BindingsAreOld /\ ArmsAreYounger
      /\ SlotsAreLive
  BY Zenon DEF IInv
<1>2. PICK arm \in {"else", "forBody"} :
        /\ frames # <<>>
        /\ Rephase([top EXCEPT !.at = arm, !.locals = locals])
        /\ arm = "else" => top.at = "thenEnd" /\ lost' = lost \cup SlotsOfArm
        /\ arm = "forBody" => top.at \in {"forInit", "forInitEnd"} /\ lost' = lost
  BY DEF OpenElse, EnterForBody, At, ghost
<1>3. /\ UNCHANGED <<scopes, irScopes, nextBindingId, slotOf, leaked, bare>>
      /\ UNCHANGED <<rejected, locals>>
  BY Zenon DEF OpenElse, EnterForBody, analyzer, builder, ghost
<1>4. PICK n \in Nat \ {0} : n = Len(frames)
  BY <1>2, Members, Zenon DEF IInv, Types
<1>5. top = frames[n] /\ top \in Frame /\ n \in DOMAIN frames
  BY <1>1, <1>2, <1>4, TopIs, Zenon
<1>. DEFINE f == [top EXCEPT !.at = arm, !.locals = locals]
<1>6. f = [at |-> arm, built |-> top.built, stopped |-> top.stopped, locals |-> locals]
  <2>1. arm \in Part
    BY DEF Part, StmtSlot, Arm
  <2>2. locals \in Id
    BY <1>1 DEF Types, Id
  <2>. QED
    BY <1>5, <2>1, <2>2, RearmedIs, Zenon
<1>7. f \in Frame
  <2>1. arm \in Part
    BY DEF Part, StmtSlot, Arm
  <2>2. locals \in Id
    BY <1>1 DEF Types, Id
  <2>3. top.built \in BOOLEAN /\ top.stopped \in BOOLEAN
    BY <1>5 DEF Frame
  <2>. QED
    BY <1>6, <2>1, <2>2, <2>3 DEF Frame
<1>8. ~top.stopped
  BY <1>1, <1>2, <1>5 DEF Walk
<1>9. /\ f.at \in ScopePart <=> top.at \in ScopePart
      /\ f.at \in BlockPart <=> top.at \in BlockPart
      /\ f.at \in FunctionPart <=> top.at \in FunctionPart
      /\ f.at = "block" <=> top.at = "block"
      /\ f.built = top.built
      /\ top.stopped => f.stopped
      /\ f.stopped => f.at = "block"
      /\ f.locals = locals
  BY <1>2, <1>6, <1>8 DEF ScopePart, BlockPart, FunctionPart
<1>10. Rephase(f)
  BY <1>2
<1>. HIDE DEF f
<1>11. /\ frames' \in Seq(Frame) /\ Walk' /\ Kept(n) /\ Len(frames') = n
       /\ \A d \in 1 .. n - 1 : frames'[d] = frames[d]
       /\ frames'[n] = f
  BY <1>1, <1>2, <1>4, <1>7, <1>9, <1>10, RephaseEffect, Zenon
<1>12. ScopesOfFrames' /\ BindingsAreOld' /\ ScopesAgree'
  BY <1>3, <1>4, <1>11, StayInScope, Zenon
<1>13. lost' \subseteq lost \cup SlotsOfArm /\ (arm = "forBody" => lost' = lost)
  BY <1>2
<1>14. Types'
  <2>1. SlotsOfArm \subseteq 1 .. locals
    <3>1. top.locals \in Nat /\ locals \in Nat
      BY <1>1, <1>5 DEF Types, Frame, Id
    <3>. QED
      BY <3>1 DEF SlotsOfArm
  <2>2. lost' \subseteq 1 .. locals
    BY <1>1, <1>13, <2>1, Zenon DEF Types
  <2>. QED
    BY <1>1, <1>3, <1>11, <2>2, Zenon DEF Types
<1>15. SlotsAreLive'
  <2>1. ASSUME NEW k \in DOMAIN scopes, NEW name \in Name, scopes[k][name] # 0,
               scopes[k][name] \notin bare
        PROVE  slotOf[scopes[k][name]] \notin lost'
    <3>1. CASE arm = "else"
      <4>1. top.at \in ArmPart
        BY <1>2, <3>1 DEF ArmPart
      <4>. QED
        BY <1>2, <1>13, <2>1, <4>1, SlotsOfArmAreInner, Zenon
    <3>2. CASE arm = "forBody"
      BY <1>1, <1>13, <2>1, <3>2, Zenon DEF SlotsAreLive
    <3>. QED
      BY <3>1, <3>2
  <2>. QED
    BY <1>3, <2>1, Zenon DEF SlotsAreLive
<1>16. ASSUME NEW e \in DOMAIN frames', frames'[e].at \in ArmPart,
              NEW k \in 1 .. ScopesUpTo(e)', NEW name \in Name,
              scopes'[k][name] # 0, scopes'[k][name] \notin bare'
       PROVE  slotOf'[scopes'[k][name]] <= frames'[e].locals
  <2>1. e \in 1 .. Len(frames) /\ e \in 0 .. Len(frames) /\ e \in 1 .. n /\ e \in 0 .. n
    BY <1>4, <1>11
  <2>2. ScopesUpTo(e) \in 0 .. Len(scopes) /\ ScopesKept(ScopesUpTo(e)) /\ SlotsKept
    BY <1>1, <1>3, <2>1, CountsBound, SameScopes, Zenon
  <2>3. ScopesUpTo(e)' = ScopesUpTo(e)
    BY <1>1, <1>11, <2>1, KeptCounts, Zenon
  <2>4. CASE e = n
    <3>1. frames'[e].locals = locals
      BY <1>9, <1>11, <2>4
    <3>2. k \in DOMAIN scopes
      BY <1>1, <2>2, <2>3 DEF Types
    <3>3. slotOf[scopes[k][name]] \in 0 .. locals
      BY <1>1, <1>3, <1>16, <3>2, SlotsExist, Zenon
    <3>4. slotOf[scopes[k][name]] <= locals
      BY <3>3
    <3>. QED
      BY <1>3, <3>1, <3>4, Zenon
  <2>5. CASE e # n
    <3>1. frames'[e] = frames[e]
      BY <1>11, <2>1, <2>5
    <3>. QED
      BY <1>1, <1>4, <1>11, <1>16, <2>1, <2>2, <3>1, ArmKept, Zenon
  <2>. QED
    BY <2>4, <2>5
<1>17. ArmsAreYounger'
  BY <1>16, Zenon DEF ArmsAreYounger
<1>. QED
  BY <1>11, <1>12, <1>14, <1>15, <1>17, Zenon DEF IInv

\* A block or a compound statement is opened.
LEMMA OpenStep ==
  ASSUME IInv, OpenBlock \/ OpenIf \/ OpenWhile \/ OpenFor
  PROVE  IInv'
<1>1. /\ Types /\ Walk /\ ScopesOfFrames /\ BindingsAreOld /\ ArmsAreYounger
      /\ SlotsAreLive /\ ScopesAgree
  BY Zenon DEF IInv
<1>2. PICK at \in {"block", "then", "whileBody", "forInit"} :
        /\ At(StmtSlot \cup {"parameters"}) /\ Push(at)
        /\ scopes' = IF at \in {"block", "forInit"} THEN pushScope(scopes) ELSE scopes
        /\ irScopes' = IF at = "block" /\ Building THEN pushScope(irScopes) ELSE irScopes
  BY DEF OpenBlock, OpenIf, OpenWhile, OpenFor, At, analyzer, builder
<1>3. UNCHANGED <<nextBindingId, rejected, locals, slotOf, lost, leaked, bare>>
  BY Zenon DEF OpenBlock, OpenIf, OpenWhile, OpenFor, analyzer, builder, ghost
<1>4. PICK n \in Nat \ {0} : n = Len(frames)
  BY <1>1, <1>2, TopIs, Zenon DEF At
<1>. DEFINE f == [at |-> at, built |-> Building, stopped |-> FALSE, locals |-> locals]
<1>5. /\ frames' \in Seq(Frame) /\ Walk' /\ Kept(n) /\ Len(frames') = n + 1
      /\ \A d \in 1 .. n : frames'[d] = frames[d]
      /\ frames'[n + 1] = f
  BY <1>1, <1>2, <1>4, PushEffect, Zenon
<1>6. f.at = at /\ f.built = Building /\ f.locals = locals
  OBVIOUS
<1>. HIDE DEF f
<1>7. /\ scopes' \in Seq([Name -> Id]) /\ ScopesKept(Len(scopes))
      /\ Len(scopes') = IF at \in {"block", "forInit"} THEN Len(scopes) + 1 ELSE Len(scopes)
      /\ \A k \in DOMAIN scopes' : \/ k \in DOMAIN scopes /\ scopes'[k] = scopes[k]
                                   \/ \A name \in Name : scopes'[k][name] = 0
      /\ \A name \in Name : lookup(scopes', name) = lookup(scopes, name)
  <2>1. scopes \in Seq([Name -> Id]) /\ Len(scopes) \in Nat
    BY <1>1 DEF Types
  <2>2. CASE at \in {"block", "forInit"}
    <3>1. /\ scopes' \in Seq([Name -> Id]) /\ Len(scopes') = Len(scopes) + 1
          /\ \A k \in 1 .. Len(scopes) : scopes'[k] = scopes[k]
          /\ scopes'[Len(scopes) + 1] = EmptyScope
          /\ \A name \in Name : lookup(scopes', name) = lookup(scopes, name)
      BY <1>2, <2>1, <2>2, PushedIs, Zenon
    <3>2. \A name \in Name : EmptyScope[name] = 0
      BY DEF EmptyScope
    <3>3. \A k \in DOMAIN scopes' : \/ k \in DOMAIN scopes /\ scopes'[k] = scopes[k]
                                    \/ \A name \in Name : scopes'[k][name] = 0
      BY <2>1, <3>1, <3>2
    <3>4. ScopesKept(Len(scopes))
      BY <2>1, <3>1 DEF ScopesKept
    <3>. QED
      BY <2>2, <3>1, <3>3, <3>4
  <2>3. CASE at \notin {"block", "forInit"}
    <3>1. scopes' = scopes
      BY <1>2, <2>3
    <3>2. ScopesKept(Len(scopes))
      BY <2>1, <3>1 DEF ScopesKept
    <3>. QED
      BY <2>1, <2>3, <3>1, <3>2, Zenon
  <2>. QED
    BY <2>2, <2>3
<1>8. /\ irScopes' \in Seq([Name -> Id]) /\ IrScopesKept(Len(irScopes))
      /\ Len(irScopes') = IF at = "block" /\ Building THEN Len(irScopes) + 1 ELSE Len(irScopes)
      /\ \A name \in Name : lookup(irScopes', name) = lookup(irScopes, name)
  <2>1. irScopes \in Seq([Name -> Id]) /\ Len(irScopes) \in Nat
    BY <1>1 DEF Types
  <2>2. CASE at = "block" /\ Building
    <3>1. /\ irScopes' \in Seq([Name -> Id]) /\ Len(irScopes') = Len(irScopes) + 1
          /\ \A k \in 1 .. Len(irScopes) : irScopes'[k] = irScopes[k]
          /\ \A name \in Name : lookup(irScopes', name) = lookup(irScopes, name)
      BY <1>2, <2>1, <2>2, PushedIs, Zenon
    <3>2. IrScopesKept(Len(irScopes))
      BY <2>1, <3>1 DEF IrScopesKept
    <3>. QED
      BY <2>2, <3>1, <3>2
  <2>3. CASE ~(at = "block" /\ Building)
    <3>1. irScopes' = irScopes
      BY <1>2, <2>3
    <3>2. IrScopesKept(Len(irScopes))
      BY <2>1, <3>1 DEF IrScopesKept
    <3>. QED
      BY <2>1, <2>3, <3>1, <3>2, Zenon
  <2>. QED
    BY <2>2, <2>3
<1>9. SlotsKept
  BY <1>3, Zenon DEF SlotsKept
<1>10. Types'
  BY <1>1, <1>3, <1>5, <1>7, <1>8, Zenon DEF Types
<1>11. /\ ScopesUpTo(n)' = Len(scopes) /\ BlocksUpTo(n)' = Len(irScopes)
       /\ ScopesUpTo(n) = Len(scopes) /\ BlocksUpTo(n) = Len(irScopes)
       /\ ScopesUpTo(n + 1)' = Len(scopes') /\ BlocksUpTo(n + 1)' = Len(irScopes')
  <2>1. ScopesUpTo(n) = Len(scopes) /\ BlocksUpTo(n) = Len(irScopes)
    BY <1>1, <1>4, Zenon DEF ScopesOfFrames
  <2>2. ScopesUpTo(n)' = Len(scopes) /\ BlocksUpTo(n)' = Len(irScopes)
    <3>1. n \in 0 .. n
      OBVIOUS
    <3>. QED
      BY <1>1, <1>5, <2>1, <3>1, KeptCounts, Zenon
  <2>3. /\ f.at \in ScopePart <=> at \in {"block", "forInit"}
        /\ f.at \in BlockPart <=> at = "block"
    BY <1>6 DEF ScopePart, BlockPart
  <2>4. n \in Nat /\ n + 1 <= Len(frames')
    BY <1>5
  <2>5. /\ ScopesUpTo(n + 1)' = IF f.at \in ScopePart THEN ScopesUpTo(n)' + 1 ELSE ScopesUpTo(n)'
        /\ BlocksUpTo(n + 1)' = IF f.at \in BlockPart /\ f.built
                                  THEN BlocksUpTo(n)' + 1 ELSE BlocksUpTo(n)'
    BY <1>5, <2>4, CountsStepAfter, Zenon
  <2>. QED
    BY <1>6, <1>7, <1>8, <2>1, <2>2, <2>3, <2>5, Zenon
<1>12. ScopesOfFrames'
  BY <1>5, <1>11, Zenon DEF ScopesOfFrames, ScopesUpTo, BlocksUpTo
<1>13. BindingsAreOld'
  <2>1. 0 < nextBindingId
    BY <1>1 DEF Types
  <2>. QED
    BY <1>1, <1>3, <1>7, <2>1, Zenon DEF BindingsAreOld
<1>14. SlotsAreLive'
  BY <1>1, <1>3, <1>7, Zenon DEF SlotsAreLive
<1>15. ASSUME NEW e \in 0 .. n
       PROVE  /\ ScopesKept(ScopesUpTo(e)) /\ IrScopesKept(BlocksUpTo(e))
              /\ ScopesUpTo(e)' = ScopesUpTo(e)
  <2>1. ScopesUpTo(e) \in 0 .. Len(scopes) /\ BlocksUpTo(e) \in 0 .. Len(irScopes)
    BY <1>1, <1>4, CountsBound, Zenon
  <2>2. ScopesKept(ScopesUpTo(e)) /\ IrScopesKept(BlocksUpTo(e))
    BY <1>1, <1>7, <1>8, <2>1 DEF ScopesKept, IrScopesKept, Types
  <2>. QED
    BY <1>1, <1>5, <2>2, KeptCounts, Zenon
<1>16. ASSUME NEW e \in DOMAIN frames', frames'[e].at \in ArmPart,
              NEW k \in 1 .. ScopesUpTo(e)', NEW name \in Name,
              scopes'[k][name] # 0, scopes'[k][name] \notin bare'
       PROVE  slotOf'[scopes'[k][name]] <= frames'[e].locals
  <2>1. e \in 1 .. n + 1
    BY <1>5
  <2>2. CASE e = n + 1
    <3>1. scopes' = scopes /\ frames'[e].locals = locals
      BY <1>2, <1>5, <1>6, <1>16, <2>2 DEF ArmPart, Arm
    <3>2. k \in DOMAIN scopes
      BY <1>1, <1>11, <2>2, <3>1 DEF Types
    <3>3. slotOf[scopes[k][name]] \in 0 .. locals
      BY <1>1, <1>16, <3>1, <3>2, SlotsExist, Zenon
    <3>4. slotOf[scopes[k][name]] <= locals
      BY <3>3
    <3>. QED
      BY <1>3, <3>1, <3>4, Zenon
  <2>3. CASE e # n + 1
    <3>1. e \in 1 .. n /\ e \in 0 .. n
      BY <2>1, <2>3
    <3>2. frames'[e] = frames[e]
      BY <1>5, <3>1
    <3>. QED
      BY <1>1, <1>5, <1>9, <1>15, <1>16, <3>1, <3>2, ArmKept, Zenon
  <2>. QED
    BY <2>2, <2>3
<1>17. ArmsAreYounger'
  BY <1>16, Zenon DEF ArmsAreYounger
<1>18. ASSUME NEW e \in 0 .. n + 1, Boundary(e)', BuildingUpTo(e)', NEW name \in Name
       PROVE  Resolves(name, ScopesUpTo(e), BlocksUpTo(e))'
  <2>1. CASE e = n + 1
    <3>1. BuildingUpTo(n)'
      BY <1>18, <2>1 DEF BuildingUpTo
    <3>2. BuildingUpTo(n)
      <4>1. n \in 0 .. n
        OBVIOUS
      <4>. QED
        BY <1>1, <1>5, <3>1, <4>1, KeptCounts, Zenon
    <3>3. Resolves(name, Len(scopes), Len(irScopes))
      <4>1. n \in 0 .. Len(frames)
        BY <1>4
      <4>2. Boundary(n)
        BY <1>4, Zenon DEF Boundary
      <4>. QED
        BY <1>1, <1>11, <3>2, <4>1, <4>2, Zenon DEF ScopesAgree
    <3>4. /\ Outer(scopes, Len(scopes)) = scopes /\ Outer(irScopes, Len(irScopes)) = irScopes
          /\ Outer(scopes', Len(scopes')) = scopes'
          /\ Outer(irScopes', Len(irScopes')) = irScopes'
      <4>1. \A ss \in Seq([Name -> Id]) : Outer(ss, Len(ss)) = ss
        BY DEF Outer
      <4>. QED
        BY <1>1, <1>7, <1>8, <4>1, Zenon DEF Types
    <3>5. Resolves(name, Len(scopes), Len(irScopes))'
      BY <1>3, <1>7, <1>8, <3>3, <3>4, Zenon DEF Resolves
    <3>. QED
      BY <1>11, <2>1, <3>5, Zenon DEF Resolves
  <2>2. CASE e # n + 1
    <3>1. e \in 0 .. n
      BY <2>2
    <3>2. Boundary(e)
      <4>1. CASE e = n
        BY <1>4, <4>1, Zenon DEF Boundary
      <4>2. CASE e # n
        <5>1. e + 1 \in 1 .. n /\ e # Len(frames')
          BY <1>5, <3>1, <4>2
        <5>2. frames'[e + 1].at = "block"
          BY <1>18, <5>1, Zenon DEF Boundary
        <5>. QED
          BY <1>5, <5>1, <5>2, Zenon DEF Boundary
      <4>. QED
        BY <4>1, <4>2
    <3>. QED
      BY <1>1, <1>5, <1>9, <1>15, <1>18, <3>1, <3>2, AgreeBelow, Zenon
  <2>. QED
    BY <2>1, <2>2
<1>19. ScopesAgree'
  BY <1>5, <1>18, Zenon DEF ScopesAgree
<1>. QED
  BY <1>5, <1>10, <1>12, <1>13, <1>14, <1>17, <1>19, Zenon DEF IInv

\* What the end of a compound statement or a block does.
LEMMA CloseIs ==
  ASSUME IInv, CloseIf \/ CloseWhile \/ CloseFor \/ CloseBlock
  PROVE  /\ frames # <<>> /\ PopFrame
         /\ top.at \in {"block", "thenEnd", "elseEnd", "whileBodyEnd", "forBodyEnd"}
         /\ scopes' = IF top.at \in {"block", "forBodyEnd"} THEN popScope(scopes) ELSE scopes
         /\ irScopes' = IF top.at = "block" /\ top.built THEN popScope(irScopes) ELSE irScopes
         /\ lost' = IF top.at = "block" THEN lost ELSE lost \cup SlotsOfArm
         /\ leaked' = IF top.at = "forBodyEnd"
                        THEN leaked \cup {slotOf[b] : b \in Binding \cap
                                                    {scopes[Len(scopes)][n] : n \in Name}}
                        ELSE leaked
         /\ UNCHANGED <<nextBindingId, rejected, locals, slotOf, bare>>
<1>1. CASE CloseIf
  BY <1>1 DEF CloseIf, At, analyzer, builder
<1>2. CASE CloseWhile
  BY <1>2 DEF CloseWhile, At, analyzer, builder
<1>3. CASE CloseFor
  BY <1>3 DEF CloseFor, At, analyzer, builder
<1>4. CASE CloseBlock
  BY <1>4 DEF CloseBlock, At, analyzer, builder, ghost, popBuiltScope
<1>. QED
  BY <1>1, <1>2, <1>3, <1>4

\* A compound statement or a block ends.
LEMMA CloseStep ==
  ASSUME IInv, CloseIf \/ CloseWhile \/ CloseFor \/ CloseBlock
  PROVE  IInv'
<1>1. /\ Types /\ Walk /\ ScopesOfFrames /\ BindingsAreOld /\ ArmsAreYounger
      /\ SlotsAreLive /\ ScopesAgree
  BY Zenon DEF IInv
<1>2. /\ frames # <<>> /\ PopFrame
      /\ top.at \in {"block", "thenEnd", "elseEnd", "whileBodyEnd", "forBodyEnd"}
      /\ scopes' = IF top.at \in {"block", "forBodyEnd"} THEN popScope(scopes) ELSE scopes
      /\ irScopes' = IF top.at = "block" /\ top.built THEN popScope(irScopes) ELSE irScopes
      /\ lost' = IF top.at = "block" THEN lost ELSE lost \cup SlotsOfArm
      /\ leaked' = IF top.at = "forBodyEnd"
                     THEN leaked \cup {slotOf[b] : b \in Binding \cap
                                                 {scopes[Len(scopes)][n] : n \in Name}}
                     ELSE leaked
      /\ UNCHANGED <<nextBindingId, rejected, locals, slotOf, bare>>
  BY CloseIs, Zenon
<1>3. PICK n \in Nat \ {0} : n = Len(frames) /\ top = frames[n] /\ top \in Frame
                             /\ n \in DOMAIN frames
  BY <1>1, <1>2, TopIs, Zenon
<1>4. PICK m \in Nat : m = n - 1 /\ n = m + 1
  OBVIOUS
<1>5. /\ frames' \in Seq(Frame) /\ Walk' /\ Kept(m) /\ Len(frames') = m
      /\ m \in Nat \ {0}
      /\ \A d \in 1 .. m : /\ frames'[d].at \in ArmPart <=> frames[d].at \in ArmPart
                           /\ frames'[d].locals = frames[d].locals
  <2>. DEFINE parts == {"block", "thenEnd", "elseEnd", "whileBodyEnd", "forBodyEnd"}
  <2>1. parts \cap FunctionPart = {}
    BY DEF FunctionPart
  <2>2. At(parts)
    BY <1>2 DEF At
  <2>. HIDE DEF parts
  <2>. QED
    BY <1>1, <1>2, <1>3, <1>4, <2>1, <2>2, PopEffect, Zenon
<1>6. /\ ScopesUpTo(n) = Len(scopes) /\ BlocksUpTo(n) = Len(irScopes)
      /\ ScopesUpTo(m) \in Nat /\ BlocksUpTo(m) \in Nat
      /\ ScopesUpTo(n) = IF top.at \in {"block", "forBodyEnd"} THEN ScopesUpTo(m) + 1
                         ELSE ScopesUpTo(m)
      /\ BlocksUpTo(n) = IF top.at = "block" /\ top.built THEN BlocksUpTo(m) + 1
                         ELSE BlocksUpTo(m)
  <2>1. ScopesUpTo(n) = Len(scopes) /\ BlocksUpTo(n) = Len(irScopes)
    BY <1>1, <1>3, Zenon DEF ScopesOfFrames
  <2>2. /\ top.at \in ScopePart <=> top.at \in {"block", "forBodyEnd"}
        /\ top.at \in BlockPart <=> top.at = "block"
    BY <1>2 DEF ScopePart, BlockPart
  <2>3. frames \in Seq(Frame) /\ m + 1 <= Len(frames)
    BY <1>1, <1>3, <1>4 DEF Types
  <2>. QED
    BY <1>3, <1>4, <2>1, <2>2, <2>3, CountsStep, Zenon
<1>7. /\ scopes' \in Seq([Name -> Id]) /\ Len(scopes') = ScopesUpTo(m)
      /\ Len(scopes') <= Len(scopes) /\ \A k \in 1 .. Len(scopes') : scopes'[k] = scopes[k]
  <2>1. scopes \in Seq([Name -> Id])
    BY <1>1, Zenon DEF Types
  <2>2. CASE top.at \in {"block", "forBodyEnd"}
    <3>1. scopes # <<>> /\ Len(scopes) - 1 = ScopesUpTo(m) /\ Len(scopes) \in Nat
      <4>1. PICK K \in Nat : K = ScopesUpTo(m) /\ Len(scopes) = K + 1
        BY <1>6, <2>2
      <4>2. K + 1 # 0 /\ (K + 1) - 1 = K /\ K + 1 \in Nat
        OBVIOUS
      <4>3. Len(<<>>) = 0
        OBVIOUS
      <4>. QED
        BY <4>1, <4>2, <4>3, Zenon
    <3>2. /\ scopes' \in Seq([Name -> Id]) /\ Len(scopes') = Len(scopes) - 1
          /\ \A k \in 1 .. Len(scopes) - 1 : scopes'[k] = scopes[k]
      BY <1>2, <2>1, <2>2, <3>1, PoppedIs, Zenon
    <3>3. Len(scopes) - 1 <= Len(scopes)
      BY <3>1
    <3>. QED
      BY <3>1, <3>2, <3>3, Zenon
  <2>3. CASE top.at \notin {"block", "forBodyEnd"}
    <3>1. scopes' = scopes /\ Len(scopes) = ScopesUpTo(m) /\ Len(scopes) <= Len(scopes)
      BY <1>2, <1>6, <2>3
    <3>. QED
      BY <2>1, <3>1, Zenon
  <2>. QED
    BY <2>2, <2>3
<1>8. /\ irScopes' \in Seq([Name -> Id]) /\ Len(irScopes') = BlocksUpTo(m)
      /\ Len(irScopes') <= Len(irScopes) /\ \A k \in 1 .. Len(irScopes') : irScopes'[k] = irScopes[k]
  <2>1. irScopes \in Seq([Name -> Id])
    BY <1>1, Zenon DEF Types
  <2>2. CASE top.at = "block" /\ top.built
    <3>1. irScopes # <<>> /\ Len(irScopes) - 1 = BlocksUpTo(m) /\ Len(irScopes) \in Nat
      <4>1. PICK K \in Nat : K = BlocksUpTo(m) /\ Len(irScopes) = K + 1
        BY <1>6, <2>2
      <4>2. K + 1 # 0 /\ (K + 1) - 1 = K /\ K + 1 \in Nat
        OBVIOUS
      <4>3. Len(<<>>) = 0
        OBVIOUS
      <4>. QED
        BY <4>1, <4>2, <4>3, Zenon
    <3>2. /\ irScopes' \in Seq([Name -> Id]) /\ Len(irScopes') = Len(irScopes) - 1
          /\ \A k \in 1 .. Len(irScopes) - 1 : irScopes'[k] = irScopes[k]
      BY <1>2, <2>1, <2>2, <3>1, PoppedIs, Zenon
    <3>3. Len(irScopes) - 1 <= Len(irScopes)
      BY <3>1
    <3>. QED
      BY <3>1, <3>2, <3>3, Zenon
  <2>3. CASE ~(top.at = "block" /\ top.built)
    <3>1. irScopes' = irScopes /\ Len(irScopes) = BlocksUpTo(m) /\ Len(irScopes) <= Len(irScopes)
      BY <1>2, <1>6, <2>3
    <3>. QED
      BY <2>1, <3>1, Zenon
  <2>. QED
    BY <2>2, <2>3
<1>9. SlotsKept
  BY <1>2 DEF SlotsKept
<1>10. Types'
  <2>1. lost' \subseteq 1 .. locals
    <3>1. top.locals \in Nat /\ locals \in Nat
      BY <1>1, <1>3 DEF Types, Frame, Id
    <3>2. SlotsOfArm \subseteq 1 .. locals
      BY <3>1 DEF SlotsOfArm
    <3>3. lost \subseteq 1 .. locals /\ lost' \subseteq lost \cup SlotsOfArm
      BY <1>1, <1>2, Zenon DEF Types
    <3>. QED
      BY <3>2, <3>3, Zenon
  <2>2. leaked' \subseteq 0 .. locals
    <3>1. \A b \in Binding : slotOf[b] \in 0 .. locals
      BY <1>1 DEF Types
    <3>2. leaked \subseteq 0 .. locals
      BY <1>1, Zenon DEF Types
    <3>. QED
      BY <1>2, <3>1, <3>2
  <2>. QED
    BY <1>1, <1>2, <1>5, <1>7, <1>8, <2>1, <2>2, Zenon DEF Types
<1>11. ScopesUpTo(m)' = ScopesUpTo(m) /\ BlocksUpTo(m)' = BlocksUpTo(m)
  <2>1. m \in 0 .. m
    OBVIOUS
  <2>. QED
    BY <1>1, <1>5, <2>1, KeptCounts, Zenon
<1>12. ScopesOfFrames'
  BY <1>5, <1>7, <1>8, <1>11, Zenon DEF ScopesOfFrames, ScopesUpTo, BlocksUpTo
<1>13. \A k \in DOMAIN scopes' : k \in DOMAIN scopes /\ scopes'[k] = scopes[k]
  BY <1>1, <1>7 DEF Types
<1>14. BindingsAreOld'
  BY <1>1, <1>2, <1>13, Zenon DEF BindingsAreOld
<1>15. SlotsAreLive'
  <2>1. ASSUME NEW k \in DOMAIN scopes, NEW name \in Name, scopes[k][name] # 0,
               scopes[k][name] \notin bare
        PROVE  slotOf[scopes[k][name]] \notin lost'
    <3>1. CASE top.at = "block"
      BY <1>1, <1>2, <2>1, <3>1, Zenon DEF SlotsAreLive
    <3>2. CASE top.at # "block"
      <4>1. top.at \in ArmPart
        BY <1>2, <3>2 DEF ArmPart
      <4>. QED
        BY <1>2, <2>1, <3>2, <4>1, SlotsOfArmAreInner, Zenon
    <3>. QED
      BY <3>1, <3>2
  <2>. QED
    BY <1>2, <1>13, <2>1, Zenon DEF SlotsAreLive
<1>16. ASSUME NEW e \in 0 .. m
       PROVE  ScopesKept(ScopesUpTo(e)) /\ IrScopesKept(BlocksUpTo(e))
  <2>1. e \in Nat /\ e <= m
    OBVIOUS
  <2>2. /\ ScopesUpTo(e) <= ScopesUpTo(m) /\ ScopesUpTo(e) \in Nat
        /\ BlocksUpTo(e) <= BlocksUpTo(m) /\ BlocksUpTo(e) \in Nat
    BY <2>1, CountMonotone, CountStep, Zenon DEF ScopesUpTo, BlocksUpTo
  <2>3. Len(scopes) \in Nat /\ Len(irScopes) \in Nat
    BY <1>1 DEF Types
  <2>. QED
    BY <1>7, <1>8, <2>2, <2>3 DEF ScopesKept, IrScopesKept
<1>17. ASSUME NEW e \in DOMAIN frames', frames'[e].at \in ArmPart,
              NEW k \in 1 .. ScopesUpTo(e)', NEW name \in Name,
              scopes'[k][name] # 0, scopes'[k][name] \notin bare'
       PROVE  slotOf'[scopes'[k][name]] <= frames'[e].locals
  <2>1. e \in 1 .. m /\ e \in 0 .. m
    BY <1>5
  <2>2. frames[e].at \in ArmPart /\ frames'[e].locals = frames[e].locals
    BY <1>5, <1>17, <2>1, Zenon
  <2>. QED
    BY <1>1, <1>5, <1>9, <1>16, <1>17, <2>1, <2>2, ArmKept, Zenon
<1>18. ArmsAreYounger'
  BY <1>17, Zenon DEF ArmsAreYounger
<1>19. ASSUME NEW e \in 0 .. m, Boundary(e)', BuildingUpTo(e)', NEW name \in Name
       PROVE  Resolves(name, ScopesUpTo(e), BlocksUpTo(e))'
  <2>1. CASE e # m \/ top.at = "block"
    <3>1. Boundary(e)
      <4>1. CASE e # m
        <5>1. e + 1 \in 1 .. m /\ e # Len(frames')
          BY <1>5, <4>1
        <5>2. frames'[e + 1].at = "block"
          BY <1>19, <5>1, Zenon DEF Boundary
        <5>. QED
          BY <1>5, <5>1, <5>2, Zenon DEF Boundary, Kept
      <4>2. CASE e = m /\ top.at = "block"
        BY <1>3, <1>4, <4>2, Zenon DEF Boundary
      <4>. QED
        BY <2>1, <4>1, <4>2
    <3>. QED
      BY <1>1, <1>5, <1>9, <1>16, <1>19, <3>1, AgreeBelow, Zenon
  <2>2. CASE e = m /\ top.at # "block"
    <3>1. BuildingUpTo(m)
      <4>1. m \in 0 .. m
        OBVIOUS
      <4>. QED
        BY <1>1, <1>5, <1>19, <2>2, <4>1, KeptCounts, Zenon
    <3>2. BuildingUpTo(n)
      <4>1. ~top.stopped
        BY <1>1, <1>3, <2>2, Zenon DEF Walk
      <4>2. \A d \in 1 .. n : d = n \/ d \in 1 .. m
        BY <1>4
      <4>. QED
        BY <1>3, <3>1, <4>1, <4>2, Zenon DEF BuildingUpTo
    <3>3. Resolves(name, Len(scopes), Len(irScopes))
      <4>1. n \in 0 .. Len(frames)
        BY <1>3
      <4>2. Boundary(n)
        BY <1>3, Zenon DEF Boundary
      <4>. QED
        BY <1>1, <1>6, <3>2, <4>1, <4>2, Zenon DEF ScopesAgree
    <3>4. irScopes' = irScopes /\ Len(irScopes') = Len(irScopes)
      BY <1>2, <2>2
    <3>5. CASE top.at # "forBodyEnd"
      <4>1. scopes' = scopes /\ leaked' = leaked
        BY <1>2, <2>2, <3>5
      <4>2. Resolves(name, Len(scopes), Len(irScopes))'
        BY <1>2, <3>3, <3>4, <4>1, Zenon DEF Resolves
      <4>. QED
        BY <1>7, <1>8, <1>11, <2>2, <4>2, Zenon DEF Resolves
    <3>6. CASE top.at = "forBodyEnd"
      <4>1. PICK K : K = ScopesUpTo(m) /\ K \in Nat /\ K + 1 = Len(scopes)
        BY <1>6, <3>6
      <4>2. Outer(scopes', K) = Outer(scopes, K)
        BY <1>7, <4>1, Zenon DEF Outer
      <4>3. lookup(Outer(scopes, K + 1), name) =
              IF scopes[K + 1][name] # 0 THEN scopes[K + 1][name]
              ELSE lookup(Outer(scopes, K), name)
        <5>1. scopes \in Seq([Name -> Id]) /\ K + 1 <= Len(scopes)
          BY <1>1, <4>1 DEF Types
        <5>. QED
          BY <4>1, <5>1, LookupOuter, Zenon
      <4>. DEFINE slot == lookup(Outer(irScopes, Len(irScopes)), name)
                  inner == scopes[K + 1][name]
                  outer == lookup(Outer(scopes, K), name)
      <4>4. inner # 0 => slotOf[inner] \in leaked'
        <5>1. K + 1 \in DOMAIN scopes
          BY <1>1, <4>1 DEF Types
        <5>2. inner # 0 => inner \in Binding
          BY <1>1, <5>1, SlotsExist, Zenon
        <5>. QED
          BY <1>2, <3>6, <4>1, <5>2
      <4>5. leaked \subseteq leaked' /\ slotOf' = slotOf
        BY <1>2, <3>6
      <4>6. \/ slot \in leaked \ {0}
            \/ (IF inner # 0 THEN inner ELSE outer) # 0
               /\ slot = slotOf[IF inner # 0 THEN inner ELSE outer] /\ slot # 0
            \/ (IF inner # 0 THEN inner ELSE outer) = 0 /\ slot = 0
        BY <3>3, <4>1, <4>3, Zenon DEF Resolves
      <4>7. /\ lookup(Outer(scopes', K), name) = outer
            /\ lookup(Outer(irScopes', Len(irScopes)), name) = slot
        BY <3>4, <4>2, Zenon
      <4>. HIDE DEF slot, inner, outer
      <4>8. \/ slot \in leaked' \ {0}
            \/ outer # 0 /\ slot = slotOf'[outer] /\ slot # 0
            \/ outer = 0 /\ slot = 0
        <5>1. CASE inner # 0
          BY <4>4, <4>5, <4>6, <5>1
        <5>2. CASE inner = 0
          BY <4>5, <4>6, <5>2
        <5>. QED
          BY <5>1, <5>2
      <4>9. ScopesUpTo(e)' = K /\ BlocksUpTo(e)' = Len(irScopes)
        BY <1>8, <1>11, <2>2, <3>4, <4>1, Zenon
      <4>. QED
        BY <4>7, <4>8, <4>9, Zenon DEF Resolves
    <3>. QED
      BY <3>5, <3>6
  <2>. QED
    BY <2>1, <2>2
<1>20. ScopesAgree'
  BY <1>5, <1>19, Zenon DEF ScopesAgree
<1>. QED
  BY <1>5, <1>10, <1>12, <1>14, <1>15, <1>18, <1>20, Zenon DEF IInv

\* The function has a scope in both passes.
LEMMA ScopesOpen ==
  ASSUME Types, Walk, ScopesOfFrames, frames # <<>>
  PROVE  scopes # <<>> /\ irScopes # <<>>
<1>1. PICK n \in Nat \ {0} : n = Len(frames) /\ DOMAIN frames = 1 .. n
  BY TopIs, Zenon
<1>2. 1 \in DOMAIN frames /\ 1 \in 0 + 1 .. n /\ 0 \in Nat /\ 0 <= n
  BY <1>1
<1>3. 1 \in ScopeFrames /\ 1 \in BuiltBlocks
  <2>1. frames[1].at \in BlockPart /\ frames[1].at \in ScopePart /\ frames[1].built
    BY DEF Walk, FunctionPart, BlockPart, ScopePart
  <2>. QED
    BY <1>2, <2>1, Zenon DEF ScopeFrames, BuiltBlocks
<1>4. /\ Count(ScopeFrames, 0) < Count(ScopeFrames, n)
      /\ Count(BuiltBlocks, 0) < Count(BuiltBlocks, n)
  BY <1>2, <1>3, CountMonotone, Zenon
<1>5. Count(ScopeFrames, 0) = 0 /\ Count(BuiltBlocks, 0) = 0
  BY <1>2, CountStep, Zenon
<1>6. Len(scopes) = Count(ScopeFrames, n) /\ Len(irScopes) = Count(BuiltBlocks, n)
  BY <1>1, Zenon DEF ScopesOfFrames, ScopesUpTo, BlocksUpTo
<1>7. Len(scopes) # 0 /\ Len(irScopes) # 0
  BY <1>4, <1>5, <1>6
<1>. QED
  BY <1>7

\* tt is ss with id bound to name in the innermost scope.
BindsInnermost(tt, ss, name, id) ==
  /\ tt \in Seq([Name -> Id]) /\ Len(tt) = Len(ss)
  /\ \A k \in 1 .. Len(ss) - 1 : tt[k] = ss[k]
  /\ \A n \in Name : tt[Len(ss)][n] = IF n = name THEN id ELSE ss[Len(ss)][n]
  /\ \A n \in Name : lookup(tt, n) = IF n = name THEN id ELSE lookup(ss, n)

\* A declaration binds one name of the innermost scope.
LEMMA BoundIs ==
  ASSUME NEW ss \in Seq([Name -> Id]), ss # <<>>, NEW name \in Name, NEW id \in Id \ {0}
  PROVE  BindsInnermost(bindLocalName(ss, name, id), ss, name, id)
<1>1. PICK K \in Nat : /\ K + 1 = Len(ss) /\ K = Len(ss) - 1 /\ K + 1 <= Len(ss)
                       /\ DOMAIN ss = 1 .. K + 1
  <2>1. PICK L \in Nat \ {0} : L = Len(ss) /\ DOMAIN ss = 1 .. L
    BY Members, Zenon
  <2>2. PICK K \in Nat : K + 1 = L /\ K = L - 1 /\ K + 1 <= L
    OBVIOUS
  <2>. QED
    BY <2>1, <2>2, Zenon
<1>2. /\ K + 1 \in 1 .. K + 1 /\ ss[K + 1] \in [Name -> Id]
      /\ \A k \in 1 .. K + 1 : ss[k] \in [Name -> Id]
      /\ \A k \in 1 .. K : k \in 1 .. K + 1 /\ k # K + 1
  <2>1. K + 1 \in 1 .. K + 1 /\ \A k \in 1 .. K : k \in 1 .. K + 1 /\ k # K + 1
    OBVIOUS
  <2>. QED
    BY <1>1, <2>1, Members, Zenon
<1>3. PICK sc \in [Name -> Id] : /\ sc = [ss[K + 1] EXCEPT ![name] = id]
                                 /\ \A n \in Name : sc[n] = IF n = name THEN id ELSE ss[K + 1][n]
  <2>1. PICK inner \in [Name -> Id] : inner = ss[K + 1]
    BY <1>2
  <2>. DEFINE sc == [inner EXCEPT ![name] = id]
  <2>2. sc \in [Name -> Id] /\ \A n \in Name : sc[n] = IF n = name THEN id ELSE inner[n]
    OBVIOUS
  <2>. HIDE DEF sc
  <2>3. sc = [ss[K + 1] EXCEPT ![name] = id]
    BY <2>1, Zenon DEF sc
  <2>. QED
    BY <2>1, <2>2, <2>3, Zenon
<1>4. bindLocalName(ss, name, id) = [ss EXCEPT ![K + 1] = sc]
  BY <1>1, <1>3, Zenon DEF bindLocalName
<1>5. PICK tt \in [1 .. K + 1 -> [Name -> Id]] :
        /\ tt = [ss EXCEPT ![K + 1] = sc]
        /\ \A k \in 1 .. K : tt[k] = ss[k]
        /\ tt[K + 1] = sc
  <2>. DEFINE tt == [k \in 1 .. K + 1 |-> IF k = K + 1 THEN sc ELSE ss[k]]
  <2>1. tt = [ss EXCEPT ![K + 1] = sc]
    BY <1>1, Zenon
  <2>2. tt \in [1 .. K + 1 -> [Name -> Id]]
    BY <1>2, Zenon
  <2>3. (\A k \in 1 .. K : tt[k] = ss[k]) /\ tt[K + 1] = sc
    BY <1>2, Zenon
  <2>. HIDE DEF tt
  <2>. QED
    BY <2>1, <2>2, <2>3, Zenon
<1>6. tt \in Seq([Name -> Id]) /\ Len(tt) = K + 1
  <2>1. K + 1 \in Nat
    OBVIOUS
  <2>2. \A f \in [1 .. K + 1 -> [Name -> Id]] : f \in Seq([Name -> Id]) /\ Len(f) = K + 1
    BY <2>1, FunctionIsSeq, Zenon
  <2>. QED
    BY <1>5, <2>2, Zenon
<1>7. Outer(tt, K + 1) = tt /\ Outer(ss, K + 1) = ss
  <2>1. \A uu \in Seq([Name -> Id]) : Outer(uu, Len(uu)) = uu
    BY DEF Outer
  <2>. QED
    BY <1>1, <1>6, <2>1, Zenon
<1>8. Outer(tt, K) = Outer(ss, K)
  BY <1>5, Zenon DEF Outer
<1>9. ASSUME NEW n \in Name
      PROVE  lookup(tt, n) = IF n = name THEN id ELSE lookup(ss, n)
  <2>1. K + 1 <= Len(tt)
    BY <1>6
  <2>2. lookup(tt, n) = IF tt[K + 1][n] # 0 THEN tt[K + 1][n] ELSE lookup(Outer(ss, K), n)
    <3>1. lookup(Outer(tt, K + 1), n) =
            IF tt[K + 1][n] # 0 THEN tt[K + 1][n] ELSE lookup(Outer(tt, K), n)
      BY <1>6, <2>1, LookupOuter
    <3>. QED
      BY <1>7, <1>8, <3>1, Zenon
  <2>3. lookup(ss, n) = IF ss[K + 1][n] # 0 THEN ss[K + 1][n] ELSE lookup(Outer(ss, K), n)
    <3>1. lookup(Outer(ss, K + 1), n) =
            IF ss[K + 1][n] # 0 THEN ss[K + 1][n] ELSE lookup(Outer(ss, K), n)
      BY <1>1, LookupOuter
    <3>. QED
      BY <1>7, <3>1, Zenon
  <2>4. tt[K + 1][n] = IF n = name THEN id ELSE ss[K + 1][n]
    BY <1>3, <1>5, Zenon
  <2>5. id # 0
    OBVIOUS
  <2>. QED
    BY <2>2, <2>3, <2>4, <2>5, Zenon
<1>10. bindLocalName(ss, name, id) = tt
  BY <1>4, <1>5, Zenon
<1>11. \A n \in Name : tt[Len(ss)][n] = IF n = name THEN id ELSE ss[Len(ss)][n]
  <2>1. tt[Len(ss)] = sc /\ ss[Len(ss)] = ss[K + 1]
    BY <1>1, <1>5, Zenon
  <2>2. \A n \in Name : sc[n] = IF n = name THEN id ELSE ss[K + 1][n]
    BY <1>3
  <2>. QED
    BY <2>1, <2>2, Zenon
<1>12. \A k \in 1 .. Len(ss) - 1 : tt[k] = ss[k]
  BY <1>1, <1>5, Zenon
<1>13. BindsInnermost(tt, ss, name, id)
  BY <1>1, <1>6, <1>9, <1>11, <1>12, Zenon DEF BindsInnermost
<1>. QED
  BY <1>10, <1>13, Zenon

\* What a declaration does to the open statements.
LEMMA DeclareFrames ==
  ASSUME Types, Walk, NEW name \in Name, DeclareParameter(name) \/ Let(name)
  PROVE  /\ frames # <<>> /\ declareLocal(name) /\ UNCHANGED <<lost, leaked>>
         /\ frames' \in Seq(Frame) /\ Walk' /\ Kept(Len(frames))
         /\ Len(frames') = Len(frames)
         /\ \A d \in 1 .. Len(frames) :
              /\ frames'[d].at \in ArmPart <=> frames[d].at \in ArmPart
              /\ frames'[d].locals = frames[d].locals
         /\ bare' = bare \/ bare' = bare \cup {nextBindingId}
         /\ top.at \notin ScopePart \/ top.at \in ArmPart =>
              top.at \in Arm /\ nextBindingId \in bare'
<1>1. CASE DeclareParameter(name)
  <2>1. /\ frames # <<>> /\ top.at = "parameters" /\ declareLocal(name)
        /\ UNCHANGED <<frames, lost, leaked, bare>>
    BY <1>1 DEF DeclareParameter, At
  <2>2. top.at \in ScopePart /\ top.at \notin ArmPart
    BY <2>1 DEF ScopePart, BlockPart, ArmPart, Arm
  <2>3. frames' \in Seq(Frame) /\ Len(frames) \in 0 .. Len(frames) /\ Len(frames) <= Len(frames')
    BY <2>1 DEF Types
  <2>4. Walk'
    BY <2>1, Zenon DEF Walk, BuildingUpTo
  <2>5. Kept(Len(frames))
    BY <2>1, <2>3, Zenon DEF Kept
  <2>. QED
    BY <2>1, <2>2, <2>3, <2>4, <2>5, Zenon
<1>2. CASE Let(name)
  <2>1. /\ frames # <<>> /\ At(StmtSlot \cup {"forInit"}) /\ top.at \in StmtSlot \cup {"forInit"}
        /\ declareLocal(name) /\ CompleteStmt /\ UNCHANGED <<lost, leaked>>
        /\ bare' = IF top.at \in Arm THEN bare \cup {nextBindingId} ELSE bare
    BY <1>2, Zenon DEF Let, At
  <2>2. top.at \notin ScopePart \/ top.at \in ArmPart => top.at \in Arm
    BY <2>1 DEF ScopePart, BlockPart, ArmPart, Arm, StmtSlot
  <2>3. PICK n : /\ n = Len(frames) /\ n \in Nat \ {0} /\ top = frames[n] /\ top \in Frame
    BY <2>1, TopIs, Zenon
  <2>4. /\ frames' \in Seq(Frame) /\ Walk' /\ Kept(n) /\ Len(frames') = n
        /\ \A d \in 1 .. n - 1 : frames'[d] = frames[d]
        /\ frames'[n] = Completed(top)
    BY <2>1, <2>3, CompleteEffect, Zenon
  <2>5. /\ Completed(top).at \in ArmPart <=> top.at \in ArmPart
        /\ Completed(top).locals = top.locals
    BY <2>1, <2>3, CompletedIs
  <2>6. \A d \in 1 .. n : d = n \/ d \in 1 .. n - 1
    BY <2>3
  <2>7. nextBindingId \in bare \cup {nextBindingId}
    OBVIOUS
  <2>. QED
    BY <2>1, <2>2, <2>3, <2>4, <2>5, <2>6, <2>7, Zenon
<1>. QED
  BY <1>1, <1>2

\* What a declaration does to the scopes.
LEMMA DeclareScopes ==
  ASSUME Types, scopes # <<>>, irScopes # <<>>, NEW name \in Name, declareLocal(name),
         scopes[Len(scopes)][name] = 0
  PROVE  /\ nextBindingId \in Binding /\ nextBindingId' = nextBindingId + 1
         /\ UNCHANGED rejected
         /\ scopes' \in Seq([Name -> Id]) /\ Len(scopes') = Len(scopes)
         /\ \A k \in 1 .. Len(scopes) - 1 : scopes'[k] = scopes[k]
         /\ \A n \in Name : scopes'[Len(scopes)][n] =
                             IF n = name THEN nextBindingId ELSE scopes[Len(scopes)][n]
         /\ \A n \in Name : lookup(scopes', n) =
                             IF n = name THEN nextBindingId ELSE lookup(scopes, n)
         /\ irScopes' \in Seq([Name -> Id]) /\ Len(irScopes') = Len(irScopes)
         /\ \A j \in 1 .. Len(irScopes) - 1 : irScopes'[j] = irScopes[j]
         /\ Building => \A n \in Name : lookup(irScopes', n) =
                                        IF n = name THEN locals + 1 ELSE lookup(irScopes, n)
         /\ ~Building => irScopes' = irScopes
         /\ locals <= locals' /\ locals' \in 0 .. nextBindingId
         /\ slotOf' \in [Binding -> 0 .. locals']
         /\ \A b \in Binding : b # nextBindingId => slotOf'[b] = slotOf[b]
         /\ slotOf'[nextBindingId] = IF Building THEN locals + 1 ELSE slotOf[nextBindingId]
<1>1. /\ nextBindingId \in Binding /\ nextBindingId' = nextBindingId + 1 /\ UNCHANGED rejected
      /\ scopes' = bindLocalName(scopes, name, nextBindingId)
      /\ Building => /\ locals' = locals + 1
                     /\ irScopes' = bindLocalName(irScopes, name, locals + 1)
                     /\ slotOf' = [slotOf EXCEPT ![nextBindingId] = locals + 1]
      /\ ~Building => locals' = locals /\ irScopes' = irScopes /\ slotOf' = slotOf
  BY Zenon DEF declareLocal, builder
<1>2. /\ nextBindingId \in Id \ {0} /\ locals + 1 \in Id \ {0} /\ locals \in Nat
      /\ locals + 1 \in 0 .. nextBindingId /\ locals \in 0 .. nextBindingId
  <2>1. nextBindingId \in 1 .. MaxBinding /\ locals \in 0 .. nextBindingId - 1
    BY <1>1, Zenon DEF Types, Binding
  <2>. QED
    BY <2>1 DEF Id
<1>3. scopes \in Seq([Name -> Id]) /\ irScopes \in Seq([Name -> Id])
      /\ slotOf \in [Binding -> 0 .. locals]
  BY Zenon DEF Types
<1>4. /\ scopes' \in Seq([Name -> Id]) /\ Len(scopes') = Len(scopes)
      /\ \A k \in 1 .. Len(scopes) - 1 : scopes'[k] = scopes[k]
      /\ \A n \in Name : scopes'[Len(scopes)][n] =
                          IF n = name THEN nextBindingId ELSE scopes[Len(scopes)][n]
      /\ \A n \in Name : lookup(scopes', n) =
                          IF n = name THEN nextBindingId ELSE lookup(scopes, n)
  <2>1. PICK tt : tt = scopes' /\ BindsInnermost(tt, scopes, name, nextBindingId)
    BY <1>1, <1>2, <1>3, BoundIs
  <2>. QED
    BY <2>1, Zenon DEF BindsInnermost
<1>5. CASE Building
  <2>1. /\ irScopes' \in Seq([Name -> Id]) /\ Len(irScopes') = Len(irScopes)
        /\ \A j \in 1 .. Len(irScopes) - 1 : irScopes'[j] = irScopes[j]
        /\ \A n \in Name : lookup(irScopes', n) =
                            IF n = name THEN locals + 1 ELSE lookup(irScopes, n)
    <3>1. PICK tt : tt = irScopes' /\ BindsInnermost(tt, irScopes, name, locals + 1)
      BY <1>1, <1>2, <1>3, <1>5, BoundIs
    <3>. QED
      BY <3>1, Zenon DEF BindsInnermost
  <2>2. /\ locals <= locals' /\ locals' \in 0 .. nextBindingId
        /\ slotOf' \in [Binding -> 0 .. locals']
        /\ \A b \in Binding : b # nextBindingId => slotOf'[b] = slotOf[b]
        /\ slotOf'[nextBindingId] = locals + 1
    <3>1. locals' = locals + 1 /\ slotOf' = [slotOf EXCEPT ![nextBindingId] = locals + 1]
      BY <1>1, <1>5
    <3>. QED
      BY <1>1, <1>2, <1>3, <3>1
  <2>. QED
    BY <1>1, <1>4, <1>5, <2>1, <2>2, Zenon
<1>6. CASE ~Building
  <2>1. locals' = locals /\ irScopes' = irScopes /\ slotOf' = slotOf
    BY <1>1, <1>6, Zenon
  <2>2. locals <= locals'
    BY <1>2, <2>1
  <2>. QED
    BY <1>1, <1>2, <1>3, <1>4, <1>6, <2>1, <2>2, Zenon
<1>. QED
  BY <1>5, <1>6

\* A declaration that the analyzer refuses.
LEMMA RefusedStep ==
  ASSUME IInv, NEW name \in Name, DeclareParameter(name) \/ Let(name),
         scopes[Len(scopes)][name] # 0
  PROVE  IInv'
<1>1. /\ Types /\ Walk /\ ScopesOfFrames /\ BindingsAreOld /\ ArmsAreYounger
      /\ SlotsAreLive
  BY Zenon DEF IInv
<1>2. /\ frames # <<>> /\ declareLocal(name) /\ UNCHANGED <<lost, leaked>>
      /\ frames' \in Seq(Frame) /\ Walk' /\ Kept(Len(frames))
      /\ Len(frames') = Len(frames)
      /\ \A d \in 1 .. Len(frames) :
           /\ frames'[d].at \in ArmPart <=> frames[d].at \in ArmPart
           /\ frames'[d].locals = frames[d].locals
      /\ bare' = bare \/ bare' = bare \cup {nextBindingId}
  BY <1>1, DeclareFrames, Zenon
<1>3. /\ UNCHANGED <<scopes, irScopes, nextBindingId, slotOf, leaked>> /\ bare \subseteq bare'
      /\ UNCHANGED <<locals, lost>> /\ rejected' = TRUE
  BY <1>2, Zenon DEF declareLocal, builder
<1>4. ScopesOfFrames' /\ BindingsAreOld' /\ ScopesAgree'
  BY <1>2, <1>3, StayInScope, Zenon
<1>5. Types'
  <2>1. bare' \subseteq 1 .. MaxBinding + 1
    BY <1>1, <1>2, Zenon DEF Types
  <2>. QED
    BY <1>1, <1>2, <1>3, <2>1, Zenon DEF Types
<1>6. SlotsAreLive'
  BY <1>1, <1>3, Zenon DEF SlotsAreLive
<1>7. ASSUME NEW e \in DOMAIN frames', frames'[e].at \in ArmPart,
             NEW k \in 1 .. ScopesUpTo(e)', NEW n \in Name,
             scopes'[k][n] # 0, scopes'[k][n] \notin bare'
      PROVE  slotOf'[scopes'[k][n]] <= frames'[e].locals
  <2>1. e \in 1 .. Len(frames) /\ e \in 0 .. Len(frames)
    BY <1>2
  <2>2. frames[e].at \in ArmPart /\ frames'[e].locals = frames[e].locals
    BY <1>2, <1>7, <2>1, Zenon
  <2>3. ScopesKept(ScopesUpTo(e)) /\ SlotsKept
    BY <1>1, <1>3, <2>1, CountsBound, SameScopes, Zenon
  <2>. QED
    BY <1>1, <1>2, <1>7, <2>1, <2>2, <2>3, ArmKept, Zenon
<1>8. ArmsAreYounger'
  BY <1>7, Zenon DEF ArmsAreYounger
<1>. QED
  BY <1>2, <1>4, <1>5, <1>6, <1>8, Zenon DEF IInv

\* A declaration that the analyzer accepts: the name is bound by both passes, or, in
\* code that the builder leaves out, by the analyzer.
LEMMA AcceptedStep ==
  ASSUME IInv, NEW name \in Name, DeclareParameter(name) \/ Let(name),
         scopes[Len(scopes)][name] = 0
  PROVE  IInv'
<1>1. /\ Types /\ Walk /\ ScopesOfFrames /\ BindingsAreOld /\ ArmsAreYounger
      /\ SlotsAreLive /\ ScopesAgree
  BY Zenon DEF IInv
<1>2. PICK n \in Nat \ {0} : n = Len(frames) /\ top = frames[n] /\ top \in Frame
                             /\ n \in DOMAIN frames /\ DOMAIN frames = 1 .. n
  <2>1. frames # <<>>
    BY <1>1, DeclareFrames, Zenon
  <2>. QED
    BY <1>1, <2>1, TopIs, Zenon
<1>3. /\ frames # <<>> /\ declareLocal(name) /\ UNCHANGED <<lost, leaked>>
      /\ frames' \in Seq(Frame) /\ Walk' /\ Kept(n) /\ Len(frames') = n
      /\ \A d \in 1 .. n : /\ frames'[d].at \in ArmPart <=> frames[d].at \in ArmPart
                           /\ frames'[d].locals = frames[d].locals
      /\ bare' = bare \/ bare' = bare \cup {nextBindingId}
      /\ top.at \notin ScopePart \/ top.at \in ArmPart =>
           top.at \in Arm /\ nextBindingId \in bare'
  BY <1>1, <1>2, DeclareFrames, Zenon
<1>4. PICK K \in Nat : K + 1 = Len(scopes) /\ K = Len(scopes) - 1 /\ DOMAIN scopes = 1 .. K + 1
  <2>1. PICK L \in Nat \ {0} : L = Len(scopes) /\ DOMAIN scopes = 1 .. L
    BY <1>1, <1>3, ScopesOpen, Members, Zenon DEF Types
  <2>2. PICK K \in Nat : K + 1 = L /\ K = L - 1
    OBVIOUS
  <2>. QED
    BY <2>1, <2>2, Zenon
<1>5. PICK J \in Nat : J + 1 = Len(irScopes) /\ J = Len(irScopes) - 1
  <2>1. PICK L \in Nat \ {0} : L = Len(irScopes)
    BY <1>1, <1>3, ScopesOpen, Members, Zenon DEF Types
  <2>2. PICK J \in Nat : J + 1 = L /\ J = L - 1
    OBVIOUS
  <2>. QED
    BY <2>1, <2>2, Zenon
<1>6. PICK id \in Binding : id = nextBindingId
  BY <1>1, <1>3, ScopesOpen, DeclareScopes, Zenon
<1>7. /\ nextBindingId' = id + 1 /\ UNCHANGED rejected
      /\ scopes' \in Seq([Name -> Id]) /\ Len(scopes') = K + 1
      /\ \A k \in 1 .. K : scopes'[k] = scopes[k]
      /\ \A x \in Name : scopes'[K + 1][x] = IF x = name THEN id ELSE scopes[K + 1][x]
      /\ \A x \in Name : lookup(scopes', x) = IF x = name THEN id ELSE lookup(scopes, x)
  <2>1. scopes # <<>> /\ irScopes # <<>>
    BY <1>1, <1>3, ScopesOpen, Zenon
  <2>2. /\ nextBindingId' = nextBindingId + 1 /\ UNCHANGED rejected
        /\ scopes' \in Seq([Name -> Id]) /\ Len(scopes') = Len(scopes)
        /\ \A k \in 1 .. Len(scopes) - 1 : scopes'[k] = scopes[k]
        /\ \A x \in Name : scopes'[Len(scopes)][x] =
                            IF x = name THEN nextBindingId ELSE scopes[Len(scopes)][x]
        /\ \A x \in Name : lookup(scopes', x) =
                            IF x = name THEN nextBindingId ELSE lookup(scopes, x)
    BY <1>1, <1>3, <2>1, DeclareScopes
  <2>. QED
    BY <1>4, <1>6, <2>2
<1>8. /\ irScopes' \in Seq([Name -> Id]) /\ Len(irScopes') = J + 1
      /\ \A j \in 1 .. J : irScopes'[j] = irScopes[j]
      /\ Building => \A x \in Name : lookup(irScopes', x) =
                                     IF x = name THEN locals + 1 ELSE lookup(irScopes, x)
      /\ ~Building => irScopes' = irScopes
      /\ locals <= locals' /\ locals' \in 0 .. id
      /\ slotOf' \in [Binding -> 0 .. locals']
      /\ \A b \in Binding : b # id => slotOf'[b] = slotOf[b]
      /\ slotOf'[id] = IF Building THEN locals + 1 ELSE slotOf[id]
  <2>1. scopes # <<>> /\ irScopes # <<>>
    BY <1>1, <1>3, ScopesOpen, Zenon
  <2>2. /\ irScopes' \in Seq([Name -> Id]) /\ Len(irScopes') = Len(irScopes)
        /\ \A j \in 1 .. Len(irScopes) - 1 : irScopes'[j] = irScopes[j]
        /\ Building => \A x \in Name : lookup(irScopes', x) =
                                       IF x = name THEN locals + 1 ELSE lookup(irScopes, x)
        /\ ~Building => irScopes' = irScopes
        /\ locals <= locals' /\ locals' \in 0 .. nextBindingId
        /\ slotOf' \in [Binding -> 0 .. locals']
        /\ \A b \in Binding : b # nextBindingId => slotOf'[b] = slotOf[b]
        /\ slotOf'[nextBindingId] = IF Building THEN locals + 1 ELSE slotOf[nextBindingId]
    BY <1>1, <1>3, <2>1, DeclareScopes
  <2>. QED
    BY <1>5, <1>6, <2>2
<1>9. locals \in Nat /\ locals' \in Nat /\ id \in Nat /\ id # 0 /\ locals + 1 # 0
  BY <1>1, <1>6, <1>8 DEF Types, Binding
<1>10. SlotsKept
  <2>1. \A b \in 1 .. id - 1 : b \in Binding /\ b # id
    BY <1>6 DEF Binding
  <2>2. bare \subseteq bare' /\ leaked \subseteq leaked'
    BY <1>3, Zenon
  <2>. QED
    BY <1>6, <1>8, <2>1, <2>2, Zenon DEF SlotsKept
<1>11. Types'
  <2>1. nextBindingId' \in 1 .. MaxBinding + 1
    BY <1>6, <1>7 DEF Binding
  <2>2. locals' \in 0 .. nextBindingId' - 1
    BY <1>7, <1>8, <1>9
  <2>3. lost' \subseteq 1 .. locals' /\ leaked' \subseteq 0 .. locals'
    <3>1. 1 .. locals \subseteq 1 .. locals' /\ 0 .. locals \subseteq 0 .. locals'
      BY <1>8, <1>9
    <3>. QED
      BY <1>1, <1>3, <3>1, Zenon DEF Types
  <2>4. bare' \subseteq 1 .. MaxBinding + 1
    BY <1>1, <1>3, Zenon DEF Types
  <2>. QED
    BY <1>1, <1>3, <1>7, <1>8, <2>1, <2>2, <2>3, <2>4, Zenon DEF Types
<1>12. ASSUME NEW k \in 1 .. K + 1, NEW x \in Name
       PROVE  \/ scopes'[k][x] = scopes[k][x]
              \/ k = K + 1 /\ scopes'[k][x] = id
  <2>1. k \in 1 .. K \/ k = K + 1
    OBVIOUS
  <2>. QED
    BY <1>7, <2>1, Zenon
<1>13. BindingsAreOld'
  <2>1. ASSUME NEW k \in 1 .. K + 1, NEW x \in Name
        PROVE  scopes'[k][x] < id + 1
    <3>1. scopes[k][x] < id /\ scopes[k][x] \in Nat
      <4>1. scopes[k][x] < id
        BY <1>1, <1>4, <1>6, Zenon DEF BindingsAreOld
      <4>2. scopes[k][x] \in Id
        BY <1>1, <1>4 DEF Types
      <4>. QED
        BY <4>1, <4>2 DEF Id
    <3>. QED
      BY <1>9, <1>12, <3>1
  <2>2. DOMAIN scopes' = 1 .. K + 1
    BY <1>7
  <2>3. ASSUME NEW b \in Binding, b >= id + 1
        PROVE  slotOf'[b] = 0
    <3>1. b # id /\ b >= id
      BY <1>9, <2>3 DEF Binding
    <3>. QED
      BY <1>1, <1>6, <1>8, <3>1, Zenon DEF BindingsAreOld
  <2>. QED
    BY <1>7, <2>1, <2>2, <2>3, Zenon DEF BindingsAreOld
<1>14. ASSUME NEW k \in 1 .. K + 1, NEW x \in Name, scopes[k][x] # 0
       PROVE  scopes[k][x] \in Binding /\ slotOf'[scopes[k][x]] = slotOf[scopes[k][x]]
  <2>1. scopes[k][x] < id
    BY <1>1, <1>4, <1>6, Zenon DEF BindingsAreOld
  <2>2. scopes[k][x] \in Binding
    BY <1>1, <1>4, <1>14, SlotsExist, Zenon
  <2>3. scopes[k][x] # id
    BY <1>9, <2>1
  <2>. QED
    BY <1>8, <2>2, <2>3, Zenon
<1>15. SlotsAreLive'
  <2>1. ASSUME NEW k \in 1 .. K + 1, NEW x \in Name, scopes'[k][x] # 0, scopes'[k][x] \notin bare'
        PROVE  slotOf'[scopes'[k][x]] \notin lost
    <3>1. CASE scopes'[k][x] = scopes[k][x]
      <4>1. scopes[k][x] \notin bare /\ scopes[k][x] # 0
        BY <1>3, <2>1, <3>1, Zenon
      <4>2. slotOf[scopes[k][x]] \notin lost
        BY <1>1, <1>4, <4>1, Zenon DEF SlotsAreLive
      <4>. QED
        BY <1>14, <3>1, <4>1, <4>2, Zenon
    <3>2. CASE scopes'[k][x] = id
      <4>1. locals + 1 \notin lost /\ 0 \notin lost
        <5>1. lost \subseteq 1 .. locals
          BY <1>1, Zenon DEF Types
        <5>. QED
          BY <1>9, <5>1
      <4>2. slotOf[id] = 0
        <5>1. id >= nextBindingId
          BY <1>6, <1>9
        <5>. QED
          BY <1>1, <5>1, Zenon DEF BindingsAreOld
      <4>3. slotOf'[id] = locals + 1 \/ slotOf'[id] = 0
        BY <1>8, <4>2
      <4>. QED
        BY <3>2, <4>1, <4>3, Zenon
    <3>. QED
      BY <1>12, <3>1, <3>2, Zenon
  <2>2. DOMAIN scopes' = 1 .. K + 1
    BY <1>7
  <2>. QED
    BY <1>3, <2>1, <2>2, Zenon DEF SlotsAreLive
<1>16. ASSUME NEW e \in 0 .. n
       PROVE  /\ ScopesUpTo(e)' = ScopesUpTo(e) /\ BlocksUpTo(e)' = BlocksUpTo(e)
              /\ BuildingUpTo(e)' => BuildingUpTo(e)
              /\ ScopesUpTo(e) \in 0 .. K + 1 /\ BlocksUpTo(e) \in 0 .. J + 1
              /\ e < n /\ frames[e + 1].at \in ScopePart => ScopesUpTo(e) <= K
              /\ e < n /\ frames[e + 1].at \in BlockPart /\ frames[e + 1].built =>
                   BlocksUpTo(e) <= J
  <2>1. /\ ScopesUpTo(e)' = ScopesUpTo(e) /\ BlocksUpTo(e)' = BlocksUpTo(e)
        /\ BuildingUpTo(e)' => BuildingUpTo(e)
    BY <1>1, <1>3, KeptCounts, Zenon
  <2>2. ScopesUpTo(e) \in 0 .. K + 1 /\ BlocksUpTo(e) \in 0 .. J + 1
    BY <1>1, <1>2, <1>4, <1>5, CountsBound, Zenon
  <2>3. ASSUME e < n
        PROVE  /\ frames[e + 1].at \in ScopePart => ScopesUpTo(e) <= K
               /\ frames[e + 1].at \in BlockPart /\ frames[e + 1].built => BlocksUpTo(e) <= J
    <3>1. e + 1 \in e + 1 .. n /\ e + 1 \in 1 .. n /\ e \in Nat /\ e <= n
      BY <2>3
    <3>2. /\ frames[e + 1].at \in ScopePart => ScopesUpTo(e) < ScopesUpTo(n)
          /\ frames[e + 1].at \in BlockPart /\ frames[e + 1].built => BlocksUpTo(e) < BlocksUpTo(n)
      BY <1>2, <3>1, CountMonotone, Zenon DEF ScopesUpTo, BlocksUpTo, ScopeFrames, BuiltBlocks
    <3>3. ScopesUpTo(n) = K + 1 /\ BlocksUpTo(n) = J + 1
      BY <1>1, <1>2, <1>4, <1>5, Zenon DEF ScopesOfFrames
    <3>. QED
      BY <2>2, <3>2, <3>3
  <2>. QED
    BY <2>1, <2>2, <2>3, Zenon
<1>17. ScopesUpTo(n) = K + 1 /\ BlocksUpTo(n) = J + 1 /\ n \in 0 .. n
  BY <1>1, <1>2, <1>4, <1>5 DEF ScopesOfFrames
<1>18. ScopesOfFrames'
  BY <1>3, <1>7, <1>8, <1>16, <1>17, Zenon DEF ScopesOfFrames, ScopesUpTo, BlocksUpTo
<1>19. ASSUME NEW e \in 1 .. n, frames'[e].at \in ArmPart,
              NEW k \in 1 .. ScopesUpTo(e)', NEW x \in Name,
              scopes'[k][x] # 0, scopes'[k][x] \notin bare'
       PROVE  slotOf'[scopes'[k][x]] <= frames'[e].locals
  <2>1. frames[e].at \in ArmPart /\ frames'[e].locals = frames[e].locals /\ e \in 0 .. n
    <3>1. e \in 0 .. n
      OBVIOUS
    <3>. QED
      BY <1>3, <1>19, <3>1, Zenon
  <2>2. k \in 1 .. ScopesUpTo(e) /\ ScopesUpTo(e) \in 0 .. K + 1
    BY <1>16, <1>19, <2>1, Zenon
  <2>3. k \in 1 .. K + 1
    BY <2>2
  <2>4. CASE scopes'[k][x] = scopes[k][x]
    <3>1. scopes[k][x] # 0 /\ scopes[k][x] \notin bare
      BY <1>3, <1>19, <2>4, Zenon
    <3>2. slotOf[scopes[k][x]] <= frames[e].locals
      BY <1>1, <1>2, <2>1, <2>2, <3>1, Zenon DEF ArmsAreYounger
    <3>. QED
      BY <1>14, <2>1, <2>3, <2>4, <3>1, <3>2, Zenon
  <2>5. CASE k = K + 1 /\ scopes'[k][x] = id
    <3>1. ~(top.at \notin ScopePart \/ top.at \in ArmPart)
      BY <1>3, <1>6, <1>19, <2>5, Zenon
    <3>2. e # n
      BY <1>2, <2>1, <3>1, Zenon
    <3>3. PICK d \in Nat : d + 1 = n /\ d = n - 1 /\ d \in 0 .. n /\ d < n /\ e <= d
      BY <3>2
    <3>4. ScopesUpTo(d) <= K
      BY <1>2, <1>16, <3>1, <3>3, Zenon
    <3>5. ScopesUpTo(e) <= ScopesUpTo(d)
      <4>1. e \in Nat
        OBVIOUS
      <4>. QED
        BY <3>3, <4>1, CountMonotone, Zenon DEF ScopesUpTo
    <3>6. ScopesUpTo(d) \in Nat
      BY <1>16, <3>3
    <3>. QED
      BY <2>2, <2>5, <3>4, <3>5, <3>6
  <2>. QED
    BY <1>12, <2>3, <2>4, <2>5, Zenon
<1>20. ArmsAreYounger'
  <2>1. DOMAIN frames' = 1 .. n
    BY <1>3
  <2>. QED
    BY <1>19, <2>1, Zenon DEF ArmsAreYounger
<1>21. ASSUME NEW e \in 0 .. n, Boundary(e)', BuildingUpTo(e)', NEW x \in Name
       PROVE  Resolves(x, ScopesUpTo(e), BlocksUpTo(e))'
  <2>1. CASE e = n
    <3>1. BuildingUpTo(n) /\ Building
      BY <1>2, <1>16, <1>21, <2>1, Zenon DEF Building, BuildingUpTo
    <3>2. Resolves(x, K + 1, J + 1)
      <4>1. Boundary(n)
        BY <1>2, Zenon DEF Boundary
      <4>. QED
        BY <1>1, <1>2, <1>17, <3>1, <4>1, Zenon DEF ScopesAgree
    <3>3. /\ Outer(scopes, K + 1) = scopes /\ Outer(irScopes, J + 1) = irScopes
          /\ Outer(scopes', K + 1) = scopes' /\ Outer(irScopes', J + 1) = irScopes'
      <4>1. \A ss \in Seq([Name -> Id]) : Outer(ss, Len(ss)) = ss
        BY DEF Outer
      <4>. QED
        BY <1>1, <1>4, <1>5, <1>7, <1>8, <4>1, Zenon DEF Types
    <3>4. PICK b, slot : b = lookup(scopes, x) /\ slot = lookup(irScopes, x)
      OBVIOUS
    <3>5. \/ slot \in leaked \ {0}
          \/ b # 0 /\ slot = slotOf[b] /\ slot # 0
          \/ b = 0 /\ slot = 0
      BY <3>2, <3>3, <3>4, Zenon DEF Resolves
    <3>6. b # 0 => slotOf'[b] = slotOf[b]
      <4>1. scopes \in Seq([Name -> Id])
        BY <1>1, Zenon DEF Types
      <4>2. b # 0 => \E k \in 1 .. Len(scopes) : b = scopes[k][x]
        BY <3>4, <4>1, LookupBinding, Zenon
      <4>. SUFFICES ASSUME b # 0 PROVE slotOf'[b] = slotOf[b]
        OBVIOUS
      <4>3. PICK k \in 1 .. K + 1 : b = scopes[k][x]
        BY <1>4, <4>2, Zenon
      <4>. QED
        BY <1>14, <4>3, Zenon
    <3>7. /\ lookup(scopes', x) = IF x = name THEN id ELSE b
          /\ lookup(irScopes', x) = IF x = name THEN locals + 1 ELSE slot
      BY <1>7, <1>8, <3>1, <3>4, Zenon
    <3>8. leaked' = leaked /\ slotOf'[id] = locals + 1 /\ id # 0 /\ locals + 1 # 0
      BY <1>3, <1>8, <1>9, <3>1, Zenon
    <3>9. \/ lookup(irScopes', x) \in leaked' \ {0}
          \/ /\ lookup(scopes', x) # 0 /\ lookup(irScopes', x) = slotOf'[lookup(scopes', x)]
             /\ lookup(irScopes', x) # 0
          \/ lookup(scopes', x) = 0 /\ lookup(irScopes', x) = 0
      <4>1. CASE x = name
        BY <3>7, <3>8, <4>1, Zenon
      <4>2. CASE x # name
        BY <3>5, <3>6, <3>7, <3>8, <4>2, Zenon
      <4>. QED
        BY <4>1, <4>2
    <3>10. ScopesUpTo(e)' = K + 1 /\ BlocksUpTo(e)' = J + 1
      BY <1>16, <1>17, <2>1, Zenon
    <3>. QED
      BY <3>3, <3>9, <3>10, Zenon DEF Resolves
  <2>2. CASE e # n
    <3>1. e + 1 \in 1 .. n /\ e < n /\ e \in 0 .. n /\ e + 1 \in DOMAIN frames /\ (e + 1) - 1 = e
      BY <1>2, <2>2
    <3>2. frames'[e + 1].at = "block"
      BY <1>3, <1>21, <2>2, Zenon DEF Boundary
    <3>3. frames[e + 1].at = "block" /\ Boundary(e)
      BY <1>3, <3>1, <3>2, Zenon DEF Kept, Boundary
    <3>4. "block" \in ScopePart /\ "block" \in BlockPart
      BY DEF ScopePart, BlockPart
    <3>5. ScopesUpTo(e) <= K /\ ScopesUpTo(e) \in 0 .. K + 1
      BY <1>16, <3>1, <3>3, <3>4, Zenon
    <3>6. ScopesKept(ScopesUpTo(e))
      <4>1. /\ ScopesUpTo(e) \in 0 .. Len(scopes) /\ ScopesUpTo(e) <= Len(scopes')
            /\ 1 .. ScopesUpTo(e) \subseteq 1 .. K
        BY <1>4, <1>7, <3>5
      <4>. QED
        BY <1>7, <4>1, Zenon DEF ScopesKept
    <3>7. IrScopesKept(BlocksUpTo(e))
      <4>1. BlocksUpTo(e) \in 0 .. J + 1
        BY <1>16
      <4>2. BlocksUpTo(e) \in 0 .. Len(irScopes) /\ BlocksUpTo(e) <= Len(irScopes')
        BY <1>5, <1>8, <4>1
      <4>3. CASE ~Building
        BY <1>8, <4>2, <4>3, Zenon DEF IrScopesKept
      <4>4. CASE Building
        <5>1. BuildingUpTo(e)
          BY <1>16, <1>21
        <5>2. frames[e + 1].built
          BY <1>1, <3>1, <5>1, Zenon DEF Walk
        <5>3. BlocksUpTo(e) <= J
          BY <1>16, <3>1, <3>3, <3>4, <5>2, Zenon
        <5>4. 1 .. BlocksUpTo(e) \subseteq 1 .. J
          BY <4>1, <5>3
        <5>. QED
          BY <1>8, <4>2, <5>4, Zenon DEF IrScopesKept
      <4>. QED
        BY <4>3, <4>4
    <3>. QED
      BY <1>1, <1>3, <1>10, <1>21, <3>3, <3>6, <3>7, AgreeBelow, Zenon
  <2>. QED
    BY <2>1, <2>2
<1>22. ScopesAgree'
  BY <1>3, <1>21, Zenon DEF ScopesAgree
<1>. QED
  BY <1>3, <1>11, <1>13, <1>15, <1>18, <1>20, <1>22, Zenon DEF IInv

\* A name is bound in no scope.
LEMMA LookupEmpty ==
  \A name \in Name : lookup(<<>>, name) = 0 /\ lookup(pushScope(<<>>), name) = 0
<1>1. PICK ss \in Seq([Name -> Id]) : ss = <<>> /\ Len(ss) = 0
  BY EmptySeq, Zenon
<1>. TAKE name \in Name
<1>2. lookup(ss, name) = 0
  <2>1. \A d \in 1 .. Len(ss) : ss[d][name] = 0
    BY <1>1
  <2>. QED
    BY <2>1, LookupNone
<1>3. lookup(pushScope(ss), name) = lookup(ss, name)
  BY PushedIs
<1>. QED
  BY <1>1, <1>2, <1>3, Zenon

\* Between two functions.
Outside ==
  /\ Types
  /\ frames = <<>> /\ scopes = <<>> /\ irScopes = <<>>
  /\ \A b \in Binding : b >= nextBindingId => slotOf[b] = 0

\* The invariant holds where no statement is open.
LEMMA OutsideInvariant == Outside => IInv
<1>. SUFFICES ASSUME Outside
              PROVE  IInv
  OBVIOUS
<1>1. /\ Types /\ frames = <<>> /\ scopes = <<>> /\ irScopes = <<>>
      /\ \A b \in Binding : b >= nextBindingId => slotOf[b] = 0
  BY Zenon DEF Outside
<1>2. /\ DOMAIN frames = {} /\ DOMAIN scopes = {} /\ Len(frames) = 0 /\ Len(scopes) = 0
      /\ Len(irScopes) = 0
  BY <1>1
<1>3. 1 .. Len(frames) - 1 = {} /\ 2 .. Len(frames) = {} /\ 0 .. Len(frames) = {0} /\ 0 \in Nat
  BY <1>2
<1>4. Walk
  BY <1>1, <1>2, <1>3, Zenon DEF Walk
<1>5. ScopesUpTo(0) = 0 /\ BlocksUpTo(0) = 0
  BY <1>3, CountStep, Zenon DEF ScopesUpTo, BlocksUpTo
<1>6. ScopesOfFrames
  BY <1>2, <1>5, Zenon DEF ScopesOfFrames
<1>7. BindingsAreOld /\ ArmsAreYounger /\ SlotsAreLive
  BY <1>1, <1>2, Zenon DEF BindingsAreOld, ArmsAreYounger, SlotsAreLive
<1>8. ScopesAgree
  <2>1. Outer(scopes, 0) = <<>> /\ Outer(irScopes, 0) = <<>>
    <3>1. \A ss : Outer(ss, 0) = <<>>
      BY DEF Outer
    <3>. QED
      BY <3>1, Zenon
  <2>2. \A name \in Name : Resolves(name, 0, 0)
    BY <2>1, LookupEmpty, Zenon DEF Resolves
  <2>. QED
    BY <1>3, <1>5, <2>2, Zenon DEF ScopesAgree
<1>. QED
  BY <1>1, <1>4, <1>6, <1>7, <1>8, Zenon DEF IInv

\* The function ends.
LEMMA EndStep ==
  ASSUME IInv, EndFunction
  PROVE  IInv'
<1>1. /\ Types /\ Walk /\ ScopesOfFrames /\ BindingsAreOld
  BY Zenon DEF IInv
<1>2. /\ frames # <<>> /\ top.at = "bodyEnd" /\ frames' = <<>>
      /\ scopes' = popScope(scopes) /\ irScopes' = popScope(irScopes)
      /\ UNCHANGED <<nextBindingId, rejected, locals, slotOf, lost, leaked, bare>>
  BY DEF EndFunction, At, ghost
<1>3. PICK n \in Nat \ {0} : n = Len(frames) /\ top = frames[n] /\ frames \in Seq(Frame)
  BY <1>1, <1>2, TopIs, Zenon DEF Types
<1>4. n = 1
  <2>1. n \notin 2 .. n
    <3>1. top.at \in FunctionPart
      BY <1>2 DEF FunctionPart
    <3>. QED
      BY <1>1, <1>3, <3>1, Zenon DEF Walk
  <2>. QED
    BY <2>1
<1>5. Len(scopes) = 1 /\ Len(irScopes) = 1
  <2>1. frames[1].at \in ScopePart /\ frames[1].at \in BlockPart /\ frames[1].built
    <3>1. frames[1].at \in FunctionPart /\ frames[1].built
      BY <1>1, <1>2, Zenon DEF Walk
    <3>. QED
      BY <3>1 DEF FunctionPart, ScopePart, BlockPart
  <2>2. ScopesUpTo(0 + 1) = ScopesUpTo(0) + 1 /\ BlocksUpTo(0 + 1) = BlocksUpTo(0) + 1
        /\ ScopesUpTo(0) = 0 /\ BlocksUpTo(0) = 0
    <3>1. 0 \in Nat /\ 0 + 1 <= Len(frames) /\ 0 + 1 = 1
      BY <1>3, <1>4
    <3>. QED
      BY <1>3, <2>1, <3>1, CountsStep, Zenon
  <2>3. 0 + 1 = 1
    OBVIOUS
  <2>. QED
    BY <1>1, <1>3, <1>4, <2>2, <2>3, Zenon DEF ScopesOfFrames
<1>6. scopes' = <<>> /\ irScopes' = <<>>
  <2>1. ASSUME NEW ss \in Seq([Name -> Id]), Len(ss) = 1
        PROVE  popScope(ss) = <<>>
    <3>1. ss # <<>>
      <4>1. Len(<<>>) = 0 /\ 1 # 0
        OBVIOUS
      <4>. QED
        BY <2>1, <4>1, Zenon
    <3>2. 1 - 1 = 0
      OBVIOUS
    <3>3. PICK tt \in Seq([Name -> Id]) : tt = popScope(ss) /\ Len(tt) = 0
      BY <2>1, <3>1, <3>2, PoppedIs, Zenon
    <3>4. tt = <<>>
      BY <3>3
    <3>. QED
      BY <3>3, <3>4, Zenon
  <2>. QED
    BY <1>1, <1>2, <1>5, <2>1, Zenon DEF Types
<1>7. Types'
  <2>1. <<>> \in Seq([Name -> Id]) /\ <<>> \in Seq(Frame)
    OBVIOUS
  <2>. QED
    BY <1>1, <1>2, <1>6, <2>1, Zenon DEF Types
<1>8. Outside'
  BY <1>1, <1>2, <1>6, <1>7, Zenon DEF Outside, BindingsAreOld
<1>9. Outside' => IInv'
  BY OutsideInvariant, PTL
<1>. QED
  BY <1>8, <1>9

\* The function begins.
LEMMA BeginStep ==
  ASSUME IInv, BeginFunction
  PROVE  IInv'
<1>1. Types
  BY Zenon DEF IInv
<1>2. /\ frames = <<>> /\ Push("parameters")
      /\ scopes' = pushScope(<<>>) /\ nextBindingId' = 1
      /\ irScopes' = pushScope(<<>>) /\ locals' = 0
      /\ slotOf' = [b \in Binding |-> 0]
      /\ lost' = {} /\ leaked' = {} /\ bare' = {} /\ rejected' = rejected
  BY Zenon DEF BeginFunction
<1>3. PICK f \in Frame : /\ f.at = "parameters" /\ f.built /\ ~f.stopped
                         /\ frames' = <<f>>
  <2>. DEFINE f == [at |-> "parameters", built |-> Building, stopped |-> FALSE, locals |-> locals]
  <2>1. Building
    BY <1>2 DEF Building
  <2>2. "parameters" \in Part /\ locals \in Id
    BY <1>1 DEF Part, Types, Id
  <2>3. f \in Frame /\ f.at = "parameters" /\ f.built /\ ~f.stopped
    BY <2>1, <2>2 DEF Frame
  <2>4. frames' = Append(<<>>, f)
    BY <1>2, Zenon DEF Push
  <2>. HIDE DEF f
  <2>5. Append(<<>>, f) = <<f>>
    OBVIOUS
  <2>. QED
    BY <2>3, <2>4, <2>5, Zenon
<1>4. /\ frames' \in Seq(Frame) /\ Len(frames') = 1 /\ DOMAIN frames' = {1} /\ frames'[1] = f
  BY <1>3
<1>5. PICK ss \in Seq([Name -> Id]) : ss = pushScope(<<>>) /\ Len(ss) = 1 /\ DOMAIN ss = {1}
                                     /\ \A name \in Name : ss[1][name] = 0 /\ lookup(ss, name) = 0
  <2>1. <<>> \in Seq([Name -> Id]) /\ Len(<<>>) = 0 /\ 0 + 1 = 1
    OBVIOUS
  <2>2. /\ pushScope(<<>>) \in Seq([Name -> Id]) /\ Len(pushScope(<<>>)) = 1
        /\ pushScope(<<>>)[1] = EmptyScope
    BY <2>1, PushedIs
  <2>3. \A name \in Name : EmptyScope[name] = 0
    BY DEF EmptyScope
  <2>4. DOMAIN pushScope(<<>>) = {1}
    BY <2>2
  <2>. QED
    BY <2>2, <2>3, <2>4, LookupEmpty, Zenon
<1>6. Types'
  <2>1. /\ 1 \in 1 .. MaxBinding + 1 /\ 0 \in 0 .. 1 - 1 /\ 0 \in 0 .. 0
    OBVIOUS
  <2>2. rejected' \in BOOLEAN
    BY <1>1, <1>2, Zenon DEF Types
  <2>3. slotOf' \in [Binding -> 0 .. 0]
    BY <1>2, <2>1, Zenon
  <2>. QED
    BY <1>2, <1>4, <1>5, <2>1, <2>2, <2>3, Zenon DEF Types
<1>7. Walk'
  <2>1. /\ 2 .. 1 = {} /\ 1 .. 1 - 1 = {} /\ \A d \in {1} : d = 1
    OBVIOUS
  <2>2. f.at \in FunctionPart
    BY <1>3 DEF FunctionPart
  <2>. QED
    BY <1>3, <1>4, <2>1, <2>2, Zenon DEF Walk
<1>8. ScopesUpTo(1)' = 1 /\ BlocksUpTo(1)' = 1
  <2>1. 0 \in Nat /\ 0 + 1 <= Len(frames') /\ 0 + 1 = 1
    BY <1>4
  <2>2. f.at \in ScopePart /\ f.at \in BlockPart
    BY <1>3 DEF ScopePart, BlockPart
  <2>. QED
    BY <1>3, <1>4, <2>1, <2>2, CountsStepAfter, Zenon
<1>9. ScopesOfFrames'
  BY <1>2, <1>4, <1>5, <1>8, Zenon DEF ScopesOfFrames, ScopesUpTo, BlocksUpTo
<1>10. BindingsAreOld' /\ SlotsAreLive'
  <2>1. 0 < 1
    OBVIOUS
  <2>. QED
    BY <1>2, <1>5, <2>1, Zenon DEF BindingsAreOld, SlotsAreLive
<1>11. ArmsAreYounger'
  <2>1. f.at \notin ArmPart
    BY <1>3 DEF ArmPart, Arm
  <2>. QED
    BY <1>4, <2>1, Zenon DEF ArmsAreYounger
<1>12. ScopesAgree'
  <2>1. Outer(ss, 1) = ss
    <3>1. \A tt \in Seq([Name -> Id]) : Outer(tt, Len(tt)) = tt
      BY DEF Outer
    <3>. QED
      BY <1>5, <3>1, Zenon
  <2>2. \A name \in Name : Resolves(name, 1, 1)'
    BY <1>2, <1>5, <2>1, Zenon DEF Resolves
  <2>3. \A e \in 0 .. 1 : e = 1 \/ (e + 1 = 1 /\ e # 1)
    OBVIOUS
  <2>4. frames'[1].at # "block"
    BY <1>3, <1>4
  <2>. QED
    BY <1>4, <1>8, <2>2, <2>3, <2>4, Zenon DEF ScopesAgree, Boundary, Resolves
<1>. QED
  BY <1>6, <1>7, <1>9, <1>10, <1>11, <1>12, Zenon DEF IInv

\* Every step preserves the invariant.
LEMMA StepInvariant ==
  ASSUME IInv, [Next]_vars
  PROVE  IInv'
<1>1. CASE BeginFunction
  BY <1>1, BeginStep
<1>2. CASE \E name \in Name : DeclareParameter(name) \/ Let(name)
  BY <1>2, RefusedStep, AcceptedStep, Zenon
<1>3. CASE OpenBlock \/ OpenIf \/ OpenWhile \/ OpenFor
  BY <1>3, OpenStep
<1>4. CASE CloseIf \/ CloseWhile \/ CloseFor \/ CloseBlock
  BY <1>4, CloseStep
<1>5. CASE EndFunction
  BY <1>5, EndStep
<1>6. CASE OtherStmt \/ Return \/ LoopControl
  BY <1>6, StatementStep
<1>7. CASE OpenElse \/ EnterForBody
  BY <1>7, NextArmStep
<1>8. CASE UNCHANGED vars
  <2>1. /\ UNCHANGED <<scopes, nextBindingId, rejected, irScopes, locals, frames>>
        /\ UNCHANGED <<slotOf, lost, leaked, bare>>
    BY <1>8, Zenon DEF vars, analyzer, builder, ghost
  <2>2. Types /\ Walk /\ ScopesOfFrames /\ BindingsAreOld /\ ArmsAreYounger /\ SlotsAreLive
        /\ ScopesAgree
    BY Zenon DEF IInv
  <2>3. Types'
    BY <2>1, <2>2, Zenon DEF Types
  <2>4. \A e : ScopesUpTo(e)' = ScopesUpTo(e) /\ BlocksUpTo(e)' = BlocksUpTo(e)
    BY <2>1, Zenon DEF ScopesUpTo, BlocksUpTo, ScopeFrames, BuiltBlocks
  <2>5. \A e : BuildingUpTo(e)' <=> BuildingUpTo(e)
    BY <2>1, Zenon DEF BuildingUpTo
  <2>6. Walk'
    BY <2>1, <2>2, <2>5, Zenon DEF Walk
  <2>7. ScopesOfFrames'
    BY <2>1, <2>2, Zenon DEF ScopesOfFrames, ScopesUpTo, BlocksUpTo, ScopeFrames, BuiltBlocks
  <2>8. BindingsAreOld' /\ SlotsAreLive'
    BY <2>1, <2>2, Zenon DEF BindingsAreOld, SlotsAreLive
  <2>9. ArmsAreYounger'
    BY <2>1, <2>2, <2>4, Zenon DEF ArmsAreYounger
  <2>10. ScopesAgree'
    BY <2>1, <2>2, <2>4, <2>5, Zenon DEF ScopesAgree, Boundary, Resolves
  <2>. QED
    BY <2>3, <2>6, <2>7, <2>8, <2>9, <2>10, Zenon DEF IInv
<1>. QED
  BY <1>1, <1>2, <1>3, <1>4, <1>5, <1>6, <1>7, <1>8, Zenon DEF Next

-----------------------------------------------------------------------------
(* The theorems.                                                           *)

\* The program begins outside of functions.
LEMMA InitInvariant == Init => IInv
<1>. SUFFICES ASSUME Init
              PROVE  IInv
  OBVIOUS
<1>1. Types
  <2>1. /\ <<>> \in Seq([Name -> Id]) /\ <<>> \in Seq(Frame)
        /\ 1 \in 1 .. MaxBinding + 1 /\ 0 \in 0 .. 1 - 1 /\ 0 \in 0 .. 0
    OBVIOUS
  <2>2. slotOf \in [Binding -> 0 .. 0]
    BY <2>1, Zenon DEF Init
  <2>. QED
    BY <2>1, <2>2, Zenon DEF Init, Types
<1>2. Outside
  BY <1>1, Zenon DEF Init, Outside
<1>. QED
  BY <1>2, OutsideInvariant

\* The invariant holds throughout the walk of both passes over a function.
THEOREM InductiveInvariant == Spec => []IInv
<1>1. Init => IInv
  BY InitInvariant
<1>2. IInv /\ [Next]_vars => IInv'
  BY StepInvariant
<1>. QED
  BY <1>1, <1>2, PTL DEF Spec

\* The scopes of both passes are those of the open statements: every block the builder
\* leaves early, or never builds, is closed with the scopes that it had when it was opened.
THEOREM TypeCorrect == Spec => []TypeOK
<1>1. IInv => TypeOK
  <2>. SUFFICES ASSUME IInv
                PROVE  TypeOK
    OBVIOUS
  <2>1. Types /\ ScopesOfFrames
    BY Zenon DEF IInv
  <2>2. DOMAIN frames = 1 .. Len(frames)
    BY <2>1 DEF Types
  <2>3. /\ ScopeFrames \cap (1 .. Len(frames)) = ScopeFrames
        /\ BuiltBlocks \cap (1 .. Len(frames)) = BuiltBlocks
    BY <2>2, Zenon DEF ScopeFrames, BuiltBlocks
  <2>4. Len(scopes) = Cardinality(ScopeFrames) /\ Len(irScopes) = Cardinality(BuiltBlocks)
    BY <2>1, <2>3, Zenon DEF ScopesOfFrames, ScopesUpTo, BlocksUpTo, Count
  <2>. QED
    BY <2>1, <2>4, Zenon DEF TypeOK, Types, ScopeFrames, BuiltBlocks
<1>. QED
  BY <1>1, InductiveInvariant, PTL

\* In an accepted program a name means to the typed-IR builder what it means to the
\* analyzer, however the scopes are nested, whatever code the builder leaves out, and
\* whatever is shadowed: but for the locals of a for statement that is over.
THEOREM NamesAgree == Spec => []OnlyForLocalsLeak
<1>1. IInv => OnlyForLocalsLeak
  <2>. SUFFICES ASSUME IInv, LookupPoint, NEW name \in Name
                PROVE  Agree(name) \/ builderLookup(name) \in leaked \ {0}
    BY Zenon DEF OnlyForLocalsLeak
  <2>1. Types /\ ScopesOfFrames /\ ScopesAgree
    BY Zenon DEF IInv
  <2>2. Building /\ frames # <<>>
    BY Zenon DEF LookupPoint, At
  <2>3. PICK n \in Nat : n = Len(frames) /\ DOMAIN frames = 1 .. n /\ n \in 0 .. n
    <3>1. PICK n \in Nat : n = Len(frames) /\ DOMAIN frames = 1 .. n
      BY <2>1, Members, Zenon DEF Types
    <3>2. n \in 0 .. n
      OBVIOUS
    <3>. QED
      BY <3>1, <3>2, Zenon
  <2>4. BuildingUpTo(n) /\ Boundary(n)
    BY <2>2, <2>3, Zenon DEF Building, BuildingUpTo, Boundary
  <2>5. Resolves(name, Len(scopes), Len(irScopes))
    BY <2>1, <2>3, <2>4, Zenon DEF ScopesAgree, ScopesOfFrames
  <2>6. Outer(scopes, Len(scopes)) = scopes /\ Outer(irScopes, Len(irScopes)) = irScopes
    <3>1. \A ss \in Seq([Name -> Id]) : Outer(ss, Len(ss)) = ss
      BY DEF Outer
    <3>. QED
      BY <2>1, <3>1, Zenon DEF Types
  <2>7. PICK b, slot : b = lookup(scopes, name) /\ slot = lookup(irScopes, name)
    OBVIOUS
  <2>8. \/ slot \in leaked \ {0}
        \/ b # 0 /\ slot = slotOf[b] /\ slot # 0
        \/ b = 0 /\ slot = 0
    BY <2>5, <2>6, <2>7, Zenon DEF Resolves
  <2>9. analyzerLookup(name) = b /\ builderLookup(name) = slot
    BY <2>7, Zenon DEF analyzerLookup, builderLookup
  <2>. QED
    BY <2>8, <2>9, Zenon DEF Agree
<1>. QED
  BY <1>1, InductiveInvariant, PTL

\* No use of a binding that can be named is outside the region its slot was made in.
THEOREM SlotsStayLive == Spec => []VisibleSlotsAreLive
<1>1. IInv => VisibleSlotsAreLive
  <2>. SUFFICES ASSUME IInv, NEW name \in Name, NEW b, b = analyzerLookup(name),
                       b # 0, b \notin bare
                PROVE  slotOf[b] \notin lost
    BY Zenon DEF VisibleSlotsAreLive
  <2>1. scopes \in Seq([Name -> Id]) /\ SlotsAreLive
    BY Zenon DEF IInv, Types
  <2>2. b = lookup(scopes, name)
    BY Zenon DEF analyzerLookup
  <2>3. PICK k \in 1 .. Len(scopes) : b = scopes[k][name]
    BY <2>1, <2>2, LookupBinding, Zenon
  <2>4. k \in DOMAIN scopes
    BY <2>1
  <2>. QED
    BY <2>1, <2>3, <2>4, Zenon DEF SlotsAreLive
<1>. QED
  BY <1>1, InductiveInvariant, PTL
=============================================================================
