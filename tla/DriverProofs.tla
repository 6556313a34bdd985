---------------------------- MODULE DriverProofs ----------------------------
(***************************************************************************)
(* Proofs about Driver, for any number of drivers, outputs and names.  The *)
(* inductive invariant IInv joins                                          *)
(*                                                                         *)
(*   TypeOK             the types of the state                             *)
(*   Control            what the place reached says of mode, exit code,    *)
(*                      guards and errors                                  *)
(*   IrIsHeld           a driver's IR is its own until it removes it       *)
(*   ObjectIsHeld       so is its object, while no two drivers got one name*)
(*   FilesAreKnown      a program is only at its driver's name             *)
(*   FilesAreAccounted  behind every file is a driver that will remove it, *)
(*                      or that left it before its guards                  *)
(***************************************************************************)
EXTENDS Driver, TLAPS

USE FilesAssumption

\* The places of main outside compileExecutable.
PhaseLabels ==
  {"parseArgs", "mergeSourceFiles", "tokenize", "parse", "analyze", "buildTypedIr", "lower",
   "printDiagnostics"}

\* A phase moves its driver and touches no file.
LEMMA PhaseSteps ==
  ASSUME TypeOK, NEW d \in Drivers, Phase(d)
  PROVE  /\ pc[d] \in PhaseLabels
         /\ \E l \in PhaseLabels \cup {"createIrFile", "exited"} : pc' = [pc EXCEPT ![d] = l]
         /\ UNCHANGED <<mode, output, guarded, llvmIrPath, objectPath, irFiles, objectFiles,
                        exe, collision>>
<1>1. CASE parseArgs(d)
  BY <1>1 DEF parseArgs, At, Goto, Throw, Exit, PhaseLabels, options, paths, files
<1>2. CASE mergeSourceFiles(d)
  BY <1>2 DEF mergeSourceFiles, At, Goto, Throw, Exit, PhaseLabels, options, paths, files
<1>3. CASE tokenize(d)
  BY <1>3 DEF tokenize, At, Goto, Reports, PhaseLabels, options, paths, files
<1>4. CASE parse(d)
  BY <1>4 DEF parse, At, Goto, Reports, Throw, Exit, PhaseLabels, options, paths, files
<1>5. CASE analyze(d)
  BY <1>5 DEF analyze, At, Goto, PhaseLabels, options, paths, files
<1>6. CASE buildTypedIr(d)
  BY <1>6 DEF buildTypedIr, At, Goto, Throw, Exit, PhaseLabels, options, paths, files
<1>7. CASE lower(d)
  BY <1>7 DEF lower, At, Goto, Throw, Exit, PhaseLabels, options, paths, files
<1>8. CASE printDiagnostics(d)
  BY <1>8 DEF printDiagnostics, At, Goto, Exit, PhaseLabels, options, paths, files
<1>. QED
  BY <1>1, <1>2, <1>3, <1>4, <1>5, <1>6, <1>7, <1>8 DEF Phase

\* The types are kept.
LEMMA TypePreserved ==
  ASSUME TypeOK /\ IrIsHeld /\ ObjectIsHeld, NEW d \in Drivers, Step(d)
  PROVE  TypeOK'
<1>1. CASE parseArgs(d)
  BY <1>1 DEF parseArgs, At, Goto, Throw, Exit, TypeOK, Labels, options, paths, files
<1>2. CASE mergeSourceFiles(d)
  BY <1>2 DEF mergeSourceFiles, At, Goto, Throw, Exit, TypeOK, Labels, options, paths,
     files
<1>3. CASE tokenize(d)
  BY <1>3 DEF tokenize, At, Goto, Reports, TypeOK, Labels, options, paths, files
<1>4. CASE parse(d)
  <2>1. CASE Reports(d, IF mode[d] = "DumpAst" THEN "printDiagnostics" ELSE "analyze")
    BY <1>4, <2>1 DEF parse, Goto, Reports, TypeOK, Labels, options, paths, files
  <2>2. CASE Throw(d, 2) \/ Throw(d, 1)
    BY <1>4, <2>2 DEF parse, Goto, Throw, Exit, TypeOK, Labels, options, paths, files
  <2>. QED
    BY <1>4, <2>1, <2>2 DEF parse
<1>5. CASE analyze(d)
  <2>1. PICK errors \in BOOLEAN, l \in {"printDiagnostics", "buildTypedIr"} :
          hasErrors' = [hasErrors EXCEPT ![d] = errors] /\ pc' = [pc EXCEPT ![d] = l]
    BY <1>5 DEF analyze, Goto
  <2>. QED
    BY <1>5, <2>1 DEF analyze, TypeOK, Labels, options, paths, files
<1>6. CASE buildTypedIr(d)
  BY <1>6 DEF buildTypedIr, At, Goto, Throw, Exit, TypeOK, Labels, options, paths, files
<1>7. CASE lower(d)
  BY <1>7 DEF lower, At, Goto, Throw, Exit, TypeOK, Labels, options, paths, files
<1>8. CASE printDiagnostics(d)
  BY <1>8 DEF printDiagnostics, At, Goto, Exit, TypeOK, Labels, options, paths, files
<1>9. CASE createIrFile(d)
  BY <1>9 DEF createIrFile, At, Goto, ThrowUnguarded, Throw, Exit, TypeOK, Labels,
     options, paths, files
<1>10. CASE writeIrFile(d)
  BY <1>10 DEF writeIrFile, At, Goto, ThrowUnguarded, Throw, Exit, TypeOK, Labels,
     options, paths, files
<1>11. CASE createObjectFile(d)
  <2>1. collision' \in BOOLEAN
    BY <1>11 DEF createObjectFile, ThrowUnguarded, paths, TypeOK
  <2>2. CASE ThrowUnguarded(d)
    BY <1>11, <2>2 DEF createObjectFile, At, ThrowUnguarded, Throw, Exit, Goto, TypeOK, Labels,
       options, paths, files
  <2>3. CASE ~ThrowUnguarded(d)
    <3>1. PICK n \in ObjectNames :
            /\ objectFiles' = [objectFiles EXCEPT ![n] = Empty]
            /\ objectPath' = [objectPath EXCEPT ![d] = n]
            /\ pc' = [pc EXCEPT ![d] = "removeObjectFile"]
            /\ UNCHANGED <<options, hasErrors, exitCode, guarded, llvmIrPath, irFiles, exe>>
      BY <1>11, <2>3 DEF createObjectFile, Goto
    <3>. QED
      BY <2>1, <3>1 DEF TypeOK, Labels, options
  <2>. QED
    BY <2>2, <2>3
<1>12. CASE removeObjectFile(d)
  BY <1>12 DEF removeObjectFile, At, Goto, TypeOK, Labels, options, paths, files
<1>13. CASE resolveRuntimeLibrary(d)
  BY <1>13 DEF resolveRuntimeLibrary, At, Goto, ThrowUnguarded, Throw, Exit, TypeOK,
     Labels, options, paths, files
<1>14. CASE llcSucceeds(d)
  BY <1>14 DEF llcSucceeds, At, Goto, TypeOK, Labels, IrIsHeld, ObjectIsHeld, HoldsIr,
     HoldsObject, options, paths, files
<1>15. CASE llcFails(d)
  BY <1>15 DEF llcFails, At, Goto, ThrowGuarded, TypeOK, Labels, IrIsHeld, ObjectIsHeld,
     HoldsIr, HoldsObject, options, paths, files
<1>16. CASE linkSucceeds(d)
  BY <1>16 DEF linkSucceeds, At, Goto, TypeOK, Labels, IrIsHeld, ObjectIsHeld, HoldsIr,
     HoldsObject, options, paths, files
<1>17. CASE linkFails(d)
  BY <1>17 DEF linkFails, At, Goto, ThrowGuarded, TypeOK, Labels, options, paths, files
<1>18. CASE cleanupObj(d)
  BY <1>18 DEF cleanupObj, At, Goto, TypeOK, Labels, options, paths, files
<1>19. CASE cleanupLl(d)
  BY <1>19 DEF cleanupLl, At, Goto, TypeOK, Labels, options, paths, files
<1>. QED
  BY <1>1, <1>2, <1>3, <1>4, <1>5, <1>6, <1>7, <1>8, <1>9, <1>10, <1>11, <1>12, <1>13,
     <1>14, <1>15, <1>16, <1>17, <1>18, <1>19 DEF Step, File, Child, Phase

\* What a driver knows by the place it has reached stays true.
LEMMA ControlPreserved ==
  ASSUME TypeOK /\ Control, NEW d \in Drivers, Step(d)
  PROVE  Control'
<1>1. CASE parseArgs(d)
  BY <1>1 DEF parseArgs, At, Goto, Throw, Exit, TypeOK, Control, HoldsIr, Exited,
     options, paths, files
<1>2. CASE mergeSourceFiles(d)
  BY <1>2 DEF mergeSourceFiles, At, Goto, Throw, Exit, TypeOK, Control, HoldsIr, Exited,
     options, paths, files
<1>3. CASE tokenize(d)
  BY <1>3 DEF tokenize, At, Goto, Reports, TypeOK, Control, HoldsIr, Exited, options,
     paths, files
<1>4. CASE parse(d)
  BY <1>4 DEF parse, At, Goto, Reports, Throw, Exit, TypeOK, Control, HoldsIr, Exited,
     options, paths, files
<1>5. CASE analyze(d)
  BY <1>5 DEF analyze, At, Goto, TypeOK, Control, HoldsIr, Exited, options, paths, files
<1>6. CASE buildTypedIr(d)
  <2>1. CASE Throw(d, 1)
    BY <1>6, <2>1 DEF buildTypedIr, At, Goto, Throw, Exit, TypeOK, Control, HoldsIr, Exited,
       options, paths, files
  <2>2. CASE mode[d] = "DumpIr" /\ Goto(d, "printDiagnostics") /\ UNCHANGED exitCode
    BY <1>6, <2>2 DEF buildTypedIr, At, Goto, Throw, TypeOK, Control, HoldsIr, Exited, options,
       paths, files
  <2>3. CASE mode[d] \in {"DumpMlir", "DumpLlvm"} /\ Goto(d, "lower") /\ UNCHANGED exitCode
    BY <1>6, <2>3 DEF buildTypedIr, At, Goto, Throw, TypeOK, Control, HoldsIr, Exited, options,
       paths, files
  <2>4. CASE mode[d] = "CompileExecutable" /\ Goto(d, "createIrFile") /\ UNCHANGED exitCode
    BY <1>6, <2>4 DEF buildTypedIr, At, Goto, Throw, TypeOK, Control, HoldsIr, Exited, options,
       paths, files
  <2>. QED
    BY <1>6, <2>1, <2>2, <2>3, <2>4 DEF buildTypedIr
<1>7. CASE lower(d)
  BY <1>7 DEF lower, At, Goto, Throw, Exit, TypeOK, Control, HoldsIr, Exited, options,
     paths, files
<1>8. CASE printDiagnostics(d)
  BY <1>8 DEF printDiagnostics, At, Goto, Exit, TypeOK, Control, HoldsIr, Exited,
     options, paths, files
<1>9. CASE createIrFile(d)
  BY <1>9 DEF createIrFile, At, Goto, ThrowUnguarded, Throw, Exit, TypeOK, Control,
     HoldsIr, Exited, options, paths, files
<1>10. CASE writeIrFile(d)
  BY <1>10 DEF writeIrFile, At, Goto, ThrowUnguarded, Throw, Exit, TypeOK, Control,
     HoldsIr, Exited, options, paths, files
<1>11. CASE createObjectFile(d)
  BY <1>11 DEF createObjectFile, At, Goto, ThrowUnguarded, Throw, Exit, HoldsName,
     TypeOK, Control, HoldsIr, Exited, options, paths, files
<1>12. CASE removeObjectFile(d)
  BY <1>12 DEF removeObjectFile, At, Goto, TypeOK, Control, HoldsIr, Exited, options,
     paths, files
<1>13. CASE resolveRuntimeLibrary(d)
  BY <1>13 DEF resolveRuntimeLibrary, At, Goto, ThrowUnguarded, Throw, Exit, TypeOK,
     Control, HoldsIr, Exited, options, paths, files
<1>14. CASE llcSucceeds(d)
  BY <1>14 DEF llcSucceeds, At, Goto, TypeOK, Control, HoldsIr, Exited, options, paths,
     files
<1>15. CASE llcFails(d)
  BY <1>15 DEF llcFails, At, Goto, ThrowGuarded, TypeOK, Control, HoldsIr, Exited,
     options, paths, files
<1>16. CASE linkSucceeds(d)
  BY <1>16 DEF linkSucceeds, At, Goto, TypeOK, Control, HoldsIr, Exited, options, paths,
     files
<1>17. CASE linkFails(d)
  BY <1>17 DEF linkFails, At, Goto, ThrowGuarded, TypeOK, Control, HoldsIr, Exited,
     options, paths, files
<1>18. CASE cleanupObj(d)
  BY <1>18 DEF cleanupObj, At, Goto, TypeOK, Control, HoldsIr, Exited, options, paths,
     files
<1>19. CASE cleanupLl(d)
  BY <1>19 DEF cleanupLl, At, Goto, TypeOK, Control, HoldsIr, Exited, options, paths,
     files
<1>. QED
  BY <1>1, <1>2, <1>3, <1>4, <1>5, <1>6, <1>7, <1>8, <1>9, <1>10, <1>11, <1>12, <1>13,
     <1>14, <1>15, <1>16, <1>17, <1>18, <1>19 DEF Step, File, Child, Phase

\* A driver keeps its IR until it removes it, and nobody else is given its name.
LEMMA IrPreserved ==
  ASSUME TypeOK /\ IrIsHeld, NEW d \in Drivers, Step(d)
  PROVE  IrIsHeld'
<1>1. CASE Phase(d)
  BY <1>1, PhaseSteps DEF PhaseLabels, TypeOK, IrIsHeld, HoldsIr, At
<1>2. CASE createIrFile(d)
  BY <1>2 DEF createIrFile, At, Goto, ThrowUnguarded, Throw, Exit, TypeOK, IrIsHeld,
     HoldsIr, options, paths, files
<1>3. CASE writeIrFile(d)
  BY <1>3 DEF writeIrFile, At, Goto, ThrowUnguarded, Throw, Exit, TypeOK, IrIsHeld,
     HoldsIr, options, paths, files
<1>4. CASE createObjectFile(d)
  BY <1>4 DEF createObjectFile, At, Goto, ThrowUnguarded, Throw, Exit, HoldsName,
     TypeOK, IrIsHeld, HoldsIr, options, paths, files
<1>5. CASE removeObjectFile(d)
  BY <1>5 DEF removeObjectFile, At, Goto, TypeOK, IrIsHeld, HoldsIr, options, paths,
     files
<1>6. CASE resolveRuntimeLibrary(d)
  BY <1>6 DEF resolveRuntimeLibrary, At, Goto, ThrowUnguarded, Throw, Exit, TypeOK,
     IrIsHeld, HoldsIr, options, paths, files
<1>7. CASE llcSucceeds(d)
  BY <1>7 DEF llcSucceeds, At, Goto, TypeOK, IrIsHeld, HoldsIr, options, paths, files
<1>8. CASE llcFails(d)
  BY <1>8 DEF llcFails, At, Goto, ThrowGuarded, TypeOK, IrIsHeld, HoldsIr, options,
     paths, files
<1>9. CASE linkSucceeds(d)
  BY <1>9 DEF linkSucceeds, At, Goto, TypeOK, IrIsHeld, HoldsIr, options, paths, files
<1>10. CASE linkFails(d)
  BY <1>10 DEF linkFails, At, Goto, ThrowGuarded, TypeOK, IrIsHeld, HoldsIr, options,
     paths, files
<1>11. CASE cleanupObj(d)
  BY <1>11 DEF cleanupObj, At, Goto, TypeOK, IrIsHeld, HoldsIr, options, paths, files
<1>12. CASE cleanupLl(d)
  BY <1>12 DEF cleanupLl, At, Goto, TypeOK, IrIsHeld, HoldsIr, options, paths, files
<1>. QED
  BY <1>1, <1>2, <1>3, <1>4, <1>5, <1>6, <1>7, <1>8, <1>9, <1>10, <1>11, <1>12 DEF Step,
     File, Child

\* Without a collision a driver keeps its object until it removes it.
LEMMA ObjectPreserved ==
  ASSUME TypeOK /\ Control /\ IrIsHeld /\ ObjectIsHeld, NEW d \in Drivers, Step(d)
  PROVE  ObjectIsHeld'
<1>1. CASE Phase(d)
  BY <1>1, PhaseSteps DEF PhaseLabels, TypeOK, ObjectIsHeld, HoldsObject, At
<1>2. CASE createIrFile(d)
  BY <1>2 DEF createIrFile, At, Goto, ThrowUnguarded, Throw, Exit, TypeOK, IrIsHeld,
     ObjectIsHeld, HoldsObject, HoldsIr, options, paths, files
<1>3. CASE writeIrFile(d)
  BY <1>3 DEF writeIrFile, At, Goto, ThrowUnguarded, Throw, Exit, TypeOK, IrIsHeld,
     ObjectIsHeld, HoldsObject, HoldsIr, options, paths, files
<1>4. CASE createObjectFile(d)
  <2>1. CASE ThrowUnguarded(d)
    BY <1>4, <2>1 DEF createObjectFile, At, Goto, ThrowUnguarded, Throw, Exit, TypeOK,
       ObjectIsHeld, HoldsObject, options, paths, files
  <2>2. CASE ~ThrowUnguarded(d)
    <3>1. PICK n \in ObjectNames :
            /\ objectFiles[n] = None
            /\ objectFiles' = [objectFiles EXCEPT ![n] = Empty]
            /\ objectPath' = [objectPath EXCEPT ![d] = n]
            /\ collision' = (collision \/ \E e \in Drivers : HoldsName(e, n))
            /\ Goto(d, "removeObjectFile")
      BY <1>4, <2>2 DEF createObjectFile
    <3>2. /\ pc' = [pc EXCEPT ![d] = "removeObjectFile"]
          /\ pc[d] = "createObjectFile"
      BY <1>4, <3>1 DEF createObjectFile, At, Goto
    <3>3. \A e \in Drivers : HoldsObject(e)' <=> HoldsObject(e) \/ e = d
      BY <3>2 DEF TypeOK, HoldsObject
    <3>4. ~collision' => ~collision /\ \A e \in Drivers : HoldsObject(e) => objectPath[e] # n
      BY <3>1 DEF ObjectIsHeld, HoldsObject, HoldsName, At
    <3>. QED
      BY <3>1, <3>2, <3>3, <3>4 DEF TypeOK, ObjectIsHeld, At
  <2>. QED
    BY <2>1, <2>2
<1>5. CASE removeObjectFile(d)
  BY <1>5 DEF removeObjectFile, At, Goto, TypeOK, IrIsHeld, ObjectIsHeld, HoldsObject,
     HoldsIr, options, paths, files
<1>6. CASE resolveRuntimeLibrary(d)
  BY <1>6 DEF resolveRuntimeLibrary, At, Goto, ThrowUnguarded, Throw, Exit, TypeOK,
     IrIsHeld, ObjectIsHeld, HoldsObject, HoldsIr, options, paths, files
<1>7. CASE llcSucceeds(d)
  BY <1>7 DEF llcSucceeds, At, Goto, TypeOK, IrIsHeld, ObjectIsHeld, HoldsObject,
     HoldsIr, options, paths, files
<1>8. CASE llcFails(d)
  BY <1>8 DEF llcFails, At, Goto, ThrowGuarded, TypeOK, IrIsHeld, ObjectIsHeld,
     HoldsObject, HoldsIr, options, paths, files
<1>9. CASE linkSucceeds(d)
  BY <1>9 DEF linkSucceeds, At, Goto, TypeOK, IrIsHeld, ObjectIsHeld, HoldsObject,
     HoldsIr, options, paths, files
<1>10. CASE linkFails(d)
  BY <1>10 DEF linkFails, At, Goto, ThrowGuarded, TypeOK, IrIsHeld, ObjectIsHeld,
     HoldsObject, HoldsIr, options, paths, files
<1>11. CASE cleanupObj(d)
  BY <1>11 DEF cleanupObj, At, Goto, TypeOK, IrIsHeld, ObjectIsHeld, HoldsObject,
     HoldsIr, options, paths, files
<1>12. CASE cleanupLl(d)
  BY <1>12 DEF cleanupLl, At, Goto, TypeOK, IrIsHeld, ObjectIsHeld, HoldsObject,
     HoldsIr, options, paths, files
<1>. QED
  BY <1>1, <1>2, <1>3, <1>4, <1>5, <1>6, <1>7, <1>8, <1>9, <1>10, <1>11, <1>12 DEF Step,
     File, Child

\* A file with the program of a driver is at the name the driver has.
LEMMA KnownPreserved ==
  ASSUME TypeOK /\ Control /\ IrIsHeld /\ ObjectIsHeld /\ FilesAreKnown, NEW d \in Drivers, Step(d)
  PROVE  FilesAreKnown'
<1>1. CASE Phase(d)
  BY <1>1, PhaseSteps DEF PhaseLabels, TypeOK, FilesAreKnown, HoldsIr, Exited, At
<1>2. CASE createIrFile(d)
  BY <1>2 DEF createIrFile, At, Goto, ThrowUnguarded, Throw, Exit, TypeOK, Control,
     IrIsHeld, ObjectIsHeld, FilesAreKnown, HoldsObject, HoldsIr, Exited, options,
     paths, files
<1>3. CASE writeIrFile(d)
  BY <1>3 DEF writeIrFile, At, Goto, ThrowUnguarded, Throw, Exit, TypeOK, Control,
     IrIsHeld, ObjectIsHeld, FilesAreKnown, HoldsObject, HoldsIr, Exited, options,
     paths, files
<1>4. CASE createObjectFile(d)
  BY <1>4 DEF createObjectFile, At, Goto, ThrowUnguarded, Throw, Exit, HoldsName,
     TypeOK, Control, IrIsHeld, ObjectIsHeld, FilesAreKnown, HoldsObject, HoldsIr,
     Exited, options, paths, files
<1>5. CASE removeObjectFile(d)
  BY <1>5 DEF removeObjectFile, At, Goto, TypeOK, Control, IrIsHeld, ObjectIsHeld,
     FilesAreKnown, HoldsObject, HoldsIr, Exited, options, paths, files
<1>6. CASE resolveRuntimeLibrary(d)
  BY <1>6 DEF resolveRuntimeLibrary, At, Goto, ThrowUnguarded, Throw, Exit, TypeOK,
     Control, IrIsHeld, ObjectIsHeld, FilesAreKnown, HoldsObject, HoldsIr, Exited,
     options, paths, files
<1>7. CASE llcSucceeds(d)
  BY <1>7 DEF llcSucceeds, At, Goto, TypeOK, Control, IrIsHeld, ObjectIsHeld,
     FilesAreKnown, HoldsObject, HoldsIr, Exited, options, paths, files
<1>8. CASE llcFails(d)
  BY <1>8 DEF llcFails, At, Goto, ThrowGuarded, TypeOK, Control, IrIsHeld, ObjectIsHeld,
     FilesAreKnown, HoldsObject, HoldsIr, Exited, options, paths, files
<1>9. CASE linkSucceeds(d)
  BY <1>9 DEF linkSucceeds, At, Goto, TypeOK, Control, IrIsHeld, ObjectIsHeld,
     FilesAreKnown, HoldsObject, HoldsIr, Exited, options, paths, files
<1>10. CASE linkFails(d)
  BY <1>10 DEF linkFails, At, Goto, ThrowGuarded, TypeOK, Control, IrIsHeld,
     ObjectIsHeld, FilesAreKnown, HoldsObject, HoldsIr, Exited, options, paths, files
<1>11. CASE cleanupObj(d)
  BY <1>11 DEF cleanupObj, At, Goto, TypeOK, Control, IrIsHeld, ObjectIsHeld,
     FilesAreKnown, HoldsObject, HoldsIr, Exited, options, paths, files
<1>12. CASE cleanupLl(d)
  BY <1>12 DEF cleanupLl, At, Goto, TypeOK, Control, IrIsHeld, ObjectIsHeld,
     FilesAreKnown, HoldsObject, HoldsIr, Exited, options, paths, files
<1>. QED
  BY <1>1, <1>2, <1>3, <1>4, <1>5, <1>6, <1>7, <1>8, <1>9, <1>10, <1>11, <1>12 DEF Step,
     File, Child

\* Every file has a driver behind it.
LEMMA AccountedPreserved ==
  ASSUME TypeOK /\ Control /\ IrIsHeld /\ ObjectIsHeld /\ FilesAreAccounted, NEW d \in Drivers, Step(d)
  PROVE  FilesAreAccounted'
<1>1. CASE Phase(d)
  BY <1>1, PhaseSteps DEF PhaseLabels, TypeOK, FilesAreAccounted, HoldsIr, Exited, At
<1>2. CASE createIrFile(d)
  BY <1>2 DEF createIrFile, At, Goto, ThrowUnguarded, Throw, Exit, TypeOK, Control,
     IrIsHeld, ObjectIsHeld, FilesAreAccounted, HoldsObject, HoldsIr, Exited, options,
     paths, files
<1>3. CASE writeIrFile(d)
  BY <1>3 DEF writeIrFile, At, Goto, ThrowUnguarded, Throw, Exit, TypeOK, Control,
     IrIsHeld, ObjectIsHeld, FilesAreAccounted, HoldsObject, HoldsIr, Exited, options,
     paths, files
<1>4. CASE createObjectFile(d)
  BY <1>4 DEF createObjectFile, At, Goto, ThrowUnguarded, Throw, Exit, HoldsName,
     TypeOK, Control, IrIsHeld, ObjectIsHeld, FilesAreAccounted, HoldsObject, HoldsIr,
     Exited, options, paths, files
<1>5. CASE removeObjectFile(d)
  BY <1>5 DEF removeObjectFile, At, Goto, TypeOK, Control, IrIsHeld, ObjectIsHeld,
     FilesAreAccounted, HoldsObject, HoldsIr, Exited, options, paths, files
<1>6. CASE resolveRuntimeLibrary(d)
  BY <1>6 DEF resolveRuntimeLibrary, At, Goto, ThrowUnguarded, Throw, Exit, TypeOK,
     Control, IrIsHeld, ObjectIsHeld, FilesAreAccounted, HoldsObject, HoldsIr, Exited,
     options, paths, files
<1>7. CASE llcSucceeds(d)
  BY <1>7 DEF llcSucceeds, At, Goto, TypeOK, Control, IrIsHeld, ObjectIsHeld,
     FilesAreAccounted, HoldsObject, HoldsIr, Exited, options, paths, files
<1>8. CASE llcFails(d)
  BY <1>8 DEF llcFails, At, Goto, ThrowGuarded, TypeOK, Control, IrIsHeld, ObjectIsHeld,
     FilesAreAccounted, HoldsObject, HoldsIr, Exited, options, paths, files
<1>9. CASE linkSucceeds(d)
  BY <1>9 DEF linkSucceeds, At, Goto, TypeOK, Control, IrIsHeld, ObjectIsHeld,
     FilesAreAccounted, HoldsObject, HoldsIr, Exited, options, paths, files
<1>10. CASE linkFails(d)
  BY <1>10 DEF linkFails, At, Goto, ThrowGuarded, TypeOK, Control, IrIsHeld,
     ObjectIsHeld, FilesAreAccounted, HoldsObject, HoldsIr, Exited, options, paths,
     files
<1>11. CASE cleanupObj(d)
  BY <1>11 DEF cleanupObj, At, Goto, TypeOK, Control, IrIsHeld, ObjectIsHeld,
     FilesAreAccounted, HoldsObject, HoldsIr, Exited, options, paths, files
<1>12. CASE cleanupLl(d)
  BY <1>12 DEF cleanupLl, At, Goto, TypeOK, Control, IrIsHeld, ObjectIsHeld,
     FilesAreAccounted, HoldsObject, HoldsIr, Exited, options, paths, files
<1>. QED
  BY <1>1, <1>2, <1>3, <1>4, <1>5, <1>6, <1>7, <1>8, <1>9, <1>10, <1>11, <1>12 DEF Step,
     File, Child

-----------------------------------------------------------------------------
(* The theorems.                                                           *)

\* The inductive invariant holds in every initial state.
LEMMA Initially == Init => IInv
<1>. SUFFICES ASSUME Init PROVE IInv
  OBVIOUS
<1>1. TypeOK
  BY DEF Init, TypeOK, Labels
<1>2. Control
  BY DEF Init, Control, HoldsIr, At, Exited
<1>3. IrIsHeld /\ ObjectIsHeld
  BY DEF Init, IrIsHeld, ObjectIsHeld, HoldsIr, HoldsObject, At
<1>4. FilesAreKnown /\ FilesAreAccounted
  BY DEF Init, FilesAreKnown, FilesAreAccounted
<1>. QED
  BY <1>1, <1>2, <1>3, <1>4 DEF IInv

\* Every step of every driver preserves it.
LEMMA Inductive == IInv /\ [Next]_vars => IInv'
<1>. SUFFICES ASSUME IInv, [Next]_vars PROVE IInv'
  OBVIOUS
<1>1. ASSUME NEW d \in Drivers, Step(d) PROVE IInv'
  BY <1>1, TypePreserved, ControlPreserved, IrPreserved, ObjectPreserved, KnownPreserved,
     AccountedPreserved DEF IInv
<1>2. CASE UNCHANGED vars
  BY <1>2 DEF vars, options, paths, files, IInv, TypeOK, Control, IrIsHeld, ObjectIsHeld,
     FilesAreKnown, FilesAreAccounted, HoldsIr, HoldsObject, At, Exited
<1>. QED
  BY <1>1, <1>2 DEF Next

\* In every behaviour the inductive invariant always holds.
THEOREM InvariantHolds == Spec => []IInv
  BY Initially, Inductive, PTL DEF Spec

\* The types of the driver's state are kept by every action (main, compileExecutable).
THEOREM TypeCorrect == Spec => []TypeOK
<1>1. IInv => TypeOK
  BY DEF IInv
<1>. QED
  BY <1>1, InvariantHolds, PTL

\* While no two drivers hold one name for an object, a driver that links, links the
\* object made of its own IR, and its IR is its own until it is removed, for any
\* number of drivers (writeTemporaryLlvmIr, writeTemporaryObjectFilePath).
THEOREM OwnFiles == Spec => []FilesAreOwn
<1>1. IInv => FilesAreOwn
  BY DEF IInv, IrIsHeld, ObjectIsHeld, HoldsIr, At, FilesAreOwn
<1>. QED
  BY <1>1, InvariantHolds, PTL

\* A driver that got as far as its guards leaves no temporary file, whatever fails
\* after that and whatever the other drivers do (TemporaryCleanup).
THEOREM GuardsRemove == Spec => []GuardedFilesAreRemoved
<1>1. IInv => GuardedFilesAreRemoved
  <2>. SUFFICES ASSUME IInv PROVE GuardedFilesAreRemoved
    OBVIOUS
  <2>1. ASSUME ~collision, NEW d \in Drivers, Exited(d), guarded[d]
        PROVE  /\ \A n \in IrNames : irFiles[n] # d
               /\ \A n \in ObjectNames : objectFiles[n] # d
    BY <2>1 DEF IInv, FilesAreKnown, HoldsIr, Exited, At
  <2>2. ASSUME \A d \in Drivers : Exited(d) /\ (guarded[d] \/ llvmIrPath[d] = None)
        PROVE  /\ \A n \in IrNames : irFiles[n] = None
               /\ \A n \in ObjectNames : objectFiles[n] = None
    BY <2>2 DEF IInv, FilesAreAccounted, HoldsIr, Exited, At
  <2>. QED
    BY <2>1, <2>2 DEF GuardedFilesAreRemoved
<1>. QED
  BY <1>1, InvariantHolds, PTL

-----------------------------------------------------------------------------
(* The driver implements Compilation.                                      *)

\* The initial states of drivers are initial states of Compilation.
LEMMA PromiseInit == Init => Promise!CompilationInit
  BY DEF Init, Promise!CompilationInit, outcome, Exited, At

\* A driver whose exit status is no longer 0 has failed.
LEMMA OutcomeFails ==
  ASSUME IInv, NEW d \in Drivers, NEW l, pc' = [pc EXCEPT ![d] = l], UNCHANGED guarded,
         NEW code \in {1, 2}, exitCode' = [exitCode EXCEPT ![d] = code]
  PROVE  outcome' = [outcome EXCEPT ![d] = "failed"]
<1>1. exitCode'[d] # 0
  BY DEF IInv, TypeOK
<1>2. \A e \in Drivers \ {d} : pc'[e] = pc[e] /\ exitCode'[e] = exitCode[e]
  BY DEF IInv, TypeOK
<1>. QED
  BY <1>1, <1>2 DEF outcome, Exited, At

\* A driver that throws before its files are guarded fails.
LEMMA ThrowFails ==
  ASSUME IInv, NEW d \in Drivers, NEW code \in {1, 2}, Throw(d, code),
         pc[d] \notin {"exited", "llc", "link", "cleanupObj", "cleanupLl", "printDiagnostics"},
         UNCHANGED <<options, paths, files>>
  PROVE  Promise!Fail(d)
<1>1. /\ pc' = [pc EXCEPT ![d] = "exited"] /\ exitCode' = [exitCode EXCEPT ![d] = code]
      /\ UNCHANGED <<guarded, mode, output, exe, collision>>
  BY DEF Throw, Exit, Goto, options, paths, files
<1>2. outcome' = [outcome EXCEPT ![d] = "failed"]
  BY <1>1, OutcomeFails
<1>3. outcome[d] = "running"
  BY DEF outcome, IInv, TypeOK, Control, Exited, At
<1>. QED
  BY <1>1, <1>2, <1>3 DEF Promise!Fail, Promise!Ends

\* A step that moves a driver on before it publishes, or after, is a stutter.
LEMMA MoveStutters ==
  ASSUME IInv, NEW d \in Drivers, NEW l \in Labels \ {"exited"}, pc' = [pc EXCEPT ![d] = l],
         pc[d] # "exited", UNCHANGED <<exitCode, mode, output, exe, collision>>,
         \/ /\ l \in {"cleanupObj", "cleanupLl", "printDiagnostics"} /\ guarded[d]
            /\ pc[d] \in {"cleanupObj", "cleanupLl"} /\ UNCHANGED guarded
         \/ ~guarded[d] /\ UNCHANGED guarded
         \/ /\ {pc[d], l} \cap {"cleanupObj", "cleanupLl", "printDiagnostics"} = {}
            /\ \A e \in Drivers \ {d} : guarded'[e] = guarded[e]
  PROVE  UNCHANGED Promise!compilationVars
<1>1. UNCHANGED outcome
  BY DEF outcome, Exited, At, IInv, TypeOK
<1>. QED
  BY <1>1 DEF Promise!compilationVars

\* A phase of main fails, or ends the driver, or is a stutter.
LEMMA PhaseImplements ==
  ASSUME IInv, NEW d \in Drivers, Phase(d)
  PROVE  [Promise!CompilationNext]_Promise!compilationVars
<1>1. CASE pc[d] # "printDiagnostics"
  <2>1. ~guarded[d]
    BY <1>1, PhaseSteps DEF IInv, Control, PhaseLabels
  <2>2. CASE \E code \in {1, 2} : Throw(d, code)
    BY <1>1, <2>2, PhaseSteps, ThrowFails DEF PhaseLabels, IInv, options, paths, files,
       Promise!CompilationNext
  <2>3. CASE ~\E code \in {1, 2} : Throw(d, code)
    <3>1. \E l \in Labels \ {"exited"} : pc' = [pc EXCEPT ![d] = l] /\ UNCHANGED exitCode
      BY <1>1, <2>3 DEF Phase, parseArgs, mergeSourceFiles, tokenize, parse, analyze,
         buildTypedIr, lower, printDiagnostics, Reports, Goto, At, Labels
    <3>. QED
      BY <2>1, <3>1, PhaseSteps, MoveStutters DEF IInv, PhaseLabels, options, paths, files
  <2>. QED
    BY <2>2, <2>3
<1>2. CASE pc[d] = "printDiagnostics"
  <2>1. printDiagnostics(d)
    BY <1>2 DEF Phase, parseArgs, mergeSourceFiles, tokenize, parse, analyze, buildTypedIr,
       lower, At
  <2>2. /\ pc' = [pc EXCEPT ![d] = "exited"]
        /\ exitCode' = [exitCode EXCEPT ![d] = IF hasErrors[d] THEN 1 ELSE 0]
        /\ UNCHANGED <<guarded, mode, output, exe, collision>>
    BY <2>1 DEF printDiagnostics, Exit, Goto, options, paths, files
  <2>3. CASE hasErrors[d]
    <3>1. outcome' = [outcome EXCEPT ![d] = "failed"]
      BY <2>2, <2>3, OutcomeFails
    <3>2. outcome[d] = "running"
      BY <1>2, <2>3 DEF outcome, IInv, TypeOK, Control, Exited, At
    <3>. QED
      BY <2>2, <3>1, <3>2 DEF Promise!Fail, Promise!Ends, Promise!CompilationNext
  <2>4. CASE ~hasErrors[d]
    <3>1. outcome' = [outcome EXCEPT ![d] = "succeeded"]
      <4>1. exitCode'[d] = 0 /\ pc'[d] = "exited" /\ \A e \in Drivers \ {d} :
              pc'[e] = pc[e] /\ exitCode'[e] = exitCode[e]
        BY <2>2, <2>4 DEF IInv, TypeOK
      <4>. QED
        BY <2>2, <4>1 DEF outcome, Exited, At
    <3>2. outcome[d] = IF guarded[d] THEN "published" ELSE "running"
      BY <1>2, <2>4 DEF outcome, IInv, TypeOK, Control, Exited, At
    <3>3. guarded[d] <=> mode[d] = "CompileExecutable"
      BY <1>2, <2>4 DEF IInv, Control, At
    <3>. QED
      BY <2>2, <3>1, <3>2, <3>3 DEF Promise!Succeed, Promise!Ends, Promise!CompilationNext
  <2>. QED
    BY <2>3, <2>4
<1>. QED
  BY <1>1, <1>2

\* Before the guards, a step fails, or draws a name that may be in use, or is a stutter.
LEMMA FileImplements ==
  ASSUME IInv, NEW d \in Drivers, File(d)
  PROVE  [Promise!CompilationNext]_Promise!compilationVars
<1>1. /\ pc[d] \in {"createIrFile", "writeIrFile", "createObjectFile", "removeObjectFile",
                    "resolveRuntime"}
      /\ ~guarded[d]
  BY DEF File, createIrFile, writeIrFile, createObjectFile, removeObjectFile,
     resolveRuntimeLibrary, At, IInv, Control
<1>2. CASE ThrowUnguarded(d)
  BY <1>1, <1>2, ThrowFails DEF ThrowUnguarded, Promise!CompilationNext
<1>3. CASE ~ThrowUnguarded(d)
  <2>1. /\ \E l \in {"writeIrFile", "createObjectFile", "removeObjectFile", "resolveRuntime",
                     "llc"} : pc' = [pc EXCEPT ![d] = l]
        /\ UNCHANGED <<exitCode, mode, output, exe>>
        /\ \A e \in Drivers \ {d} : guarded'[e] = guarded[e]
    BY <1>3 DEF File, createIrFile, writeIrFile, createObjectFile, removeObjectFile,
       resolveRuntimeLibrary, Goto, options, paths, files, IInv, TypeOK
  <2>2. UNCHANGED outcome
    BY <1>1, <2>1 DEF outcome, Exited, At, IInv, TypeOK
  <2>3. collision' = collision \/ collision' = TRUE
    BY <1>3 DEF File, createIrFile, writeIrFile, createObjectFile, removeObjectFile,
       resolveRuntimeLibrary, paths, IInv, TypeOK
  <2>. QED
    BY <2>1, <2>2, <2>3 DEF Promise!Collide, Promise!CompilationNext, Promise!compilationVars
<1>. QED
  BY <1>2, <1>3

\* From the guards on, linking publishes the driver's own program, a tool that fails
\* makes the driver fail, and the guards are stutters.
LEMMA ChildImplements ==
  ASSUME IInv, NEW d \in Drivers, Child(d)
  PROVE  [Promise!CompilationNext]_Promise!compilationVars
<1>1. CASE llcSucceeds(d)
  <2>1. /\ pc' = [pc EXCEPT ![d] = "link"] /\ pc[d] = "llc"
        /\ UNCHANGED <<exitCode, mode, output, exe, collision, guarded>>
    BY <1>1 DEF llcSucceeds, At, Goto, options, paths
  <2>. QED
    BY <2>1, MoveStutters DEF Labels
<1>2. CASE llcFails(d) \/ linkFails(d)
  <2>1. /\ pc' = [pc EXCEPT ![d] = "cleanupObj"] /\ pc[d] \in {"llc", "link"}
        /\ exitCode' = [exitCode EXCEPT ![d] = 1]
        /\ UNCHANGED <<guarded, mode, output, collision>>
        /\ exe' = exe \/ exe' = [exe EXCEPT ![output[d]] = None]
    BY <1>2 DEF llcFails, linkFails, ThrowGuarded, At, Goto, options, paths
  <2>2. outcome' = [outcome EXCEPT ![d] = "failed"]
    BY <2>1, OutcomeFails
  <2>3. outcome[d] = "running" /\ mode[d] = "CompileExecutable"
    BY <2>1 DEF outcome, IInv, TypeOK, Control, HoldsIr, Exited, At
  <2>. QED
    BY <2>1, <2>2, <2>3 DEF Promise!Fail, Promise!Ends, Promise!CompilationNext
<1>3. CASE linkSucceeds(d)
  <2>1. /\ pc' = [pc EXCEPT ![d] = "cleanupObj"] /\ pc[d] = "link"
        /\ objectFiles[objectPath[d]] \in Drivers
        /\ exe' = [exe EXCEPT ![output[d]] = objectFiles[objectPath[d]]]
        /\ UNCHANGED <<exitCode, guarded, mode, output, collision>>
    BY <1>3 DEF linkSucceeds, At, Goto, options, paths
  <2>2. /\ exitCode[d] = 0 /\ guarded[d] /\ mode[d] = "CompileExecutable"
        /\ outcome[d] = "running"
    BY <2>1 DEF outcome, IInv, TypeOK, Control, HoldsIr, Exited, At
  <2>3. outcome' = [outcome EXCEPT ![d] = "published"]
    <3>1. exitCode'[d] = 0 /\ guarded'[d] /\ pc'[d] = "cleanupObj"
      BY <2>1, <2>2 DEF IInv, TypeOK
    <3>2. \A e \in Drivers \ {d} :
            pc'[e] = pc[e] /\ exitCode'[e] = exitCode[e] /\ guarded'[e] = guarded[e]
      BY <2>1 DEF IInv, TypeOK
    <3>. QED
      BY <3>1, <3>2 DEF outcome, Exited, At
  <2>4. collision \/ objectFiles[objectPath[d]] = d
    BY <2>1 DEF IInv, ObjectIsHeld, At
  <2>. QED
    BY <2>1, <2>2, <2>3, <2>4 DEF Promise!Publish, Promise!Ends, Promise!CompilationNext
<1>4. CASE cleanupObj(d) \/ cleanupLl(d)
  <2>1. /\ \/ pc' = [pc EXCEPT ![d] = "cleanupLl"]
           \/ exitCode[d] = 0 /\ pc' = [pc EXCEPT ![d] = "printDiagnostics"]
           \/ exitCode[d] # 0 /\ pc' = [pc EXCEPT ![d] = "exited"]
        /\ pc[d] \in {"cleanupObj", "cleanupLl"}
        /\ UNCHANGED <<exitCode, guarded, mode, output, exe, collision>>
    BY <1>4 DEF cleanupObj, cleanupLl, At, Goto, options, paths
  <2>2. UNCHANGED outcome
    BY <2>1 DEF outcome, Exited, At, IInv, TypeOK, Control
  <2>. QED
    BY <2>1, <2>2 DEF Promise!compilationVars
<1>. QED
  BY <1>1, <1>2, <1>3, <1>4 DEF Child

\* The driver implements Compilation: exit status 0 of a compilation means that it has
\* put its own program at its output, and no other step ever puts one there.
THEOREM DriverImplements == Spec => ImplementsCompilation
<1>1. IInv /\ [Next]_vars => [Promise!CompilationNext]_Promise!compilationVars
  <2>. SUFFICES ASSUME IInv, [Next]_vars
                PROVE  [Promise!CompilationNext]_Promise!compilationVars
    OBVIOUS
  <2>1. CASE UNCHANGED vars
    BY <2>1 DEF vars, options, paths, files, Promise!compilationVars, outcome, Exited, At
  <2>. QED
    BY <2>1, PhaseImplements, FileImplements, ChildImplements DEF Next, Step
<1>. QED
  BY <1>1, PromiseInit, InvariantHolds, PTL DEF Spec, ImplementsCompilation,
     Promise!CompilationSpec

=============================================================================
