-------------------------------- MODULE Driver --------------------------------
(***************************************************************************)
(* The driver (src/tools/nexc/main.cpp): several runs of nexc at the same  *)
(* time, with the temporary files and the child processes of native        *)
(* compilation (Linux: llc, then ld.lld).                                  *)
(*                                                                         *)
(* One action is one phase of main or one system call of compileExecutable *)
(* that the file system or another process can see.  What a phase makes of *)
(* the source is a choice: it succeeds, it reports errors or it throws.    *)
(*                                                                         *)
(* The file of an object or an executable is the driver whose program it   *)
(* holds; Empty is a file just created, Broken what a failed tool leaves.  *)
(***************************************************************************)
CONSTANTS
  Drivers,
  Outputs,     \* the paths after -o
  IrNames,     \* what the XXXXXX of nexc-llvm-XXXXXX.ll may become
  ObjectNames, \* and that of nexc-obj-XXXXXX.o
  None, Empty, Broken

ASSUME FilesAssumption ==
  /\ None \notin Drivers \cup IrNames \cup ObjectNames
  /\ {Empty, Broken} \cap (Drivers \cup {None}) = {}

\* DumpAst stands for DumpAstDot too.
Modes == {"DumpTokens", "DumpAst", "Check", "DumpIr", "DumpMlir", "DumpLlvm",
          "CompileExecutable"}

VARIABLES
  pc,          \* what main does next; "exited"
  mode, output,
  hasErrors,   \* DiagnosticBag::hasErrors
  exitCode,
  guarded,     \* the TemporaryCleanup guards have been constructed
  llvmIrPath, objectPath,
  irFiles, objectFiles,  \* the temporary directory
  exe,                   \* the files at Outputs
  collision    \* ghost: a driver was given a name that another one still uses

files == <<irFiles, objectFiles, exe>>
paths == <<guarded, llvmIrPath, objectPath, collision>>
options == <<mode, output>>
vars == <<pc, options, hasErrors, exitCode, paths, files>>

At(d, label) == pc[d] = label
Goto(d, label) == pc' = [pc EXCEPT ![d] = label]

Exit(d, code) ==
  /\ Goto(d, "exited")
  /\ exitCode' = [exitCode EXCEPT ![d] = code]

-----------------------------------------------------------------------------
(* main.                                                                   *)

\* invalid_argument is taken for misuse of the command line, every other exception
\* for a failure.
Throw(d, code) == Exit(d, code) /\ UNCHANGED hasErrors

parseArgs(d) ==
  /\ At(d, "parseArgs")
  /\ \/ Goto(d, "mergeSourceFiles") /\ UNCHANGED <<hasErrors, exitCode>>
     \/ Throw(d, 2)
  /\ UNCHANGED <<options, paths, files>>

mergeSourceFiles(d) ==
  /\ At(d, "mergeSourceFiles")
  /\ \/ Goto(d, "tokenize") /\ UNCHANGED <<hasErrors, exitCode>>
     \/ Throw(d, 1)
  /\ UNCHANGED <<options, paths, files>>

\* A phase that may add errors to the diagnostics.
Reports(d, next) ==
  /\ Goto(d, next)
  /\ \E errors \in BOOLEAN : hasErrors' = [hasErrors EXCEPT ![d] = @ \/ errors]
  /\ UNCHANGED exitCode

tokenize(d) ==
  /\ At(d, "tokenize")
  /\ Reports(d, IF mode[d] = "DumpTokens" THEN "printDiagnostics" ELSE "parse")
  /\ UNCHANGED <<options, paths, files>>

\* The length of an array type is read by std::stoull, which throws
\* invalid_argument or out_of_range.
parse(d) ==
  /\ At(d, "parse")
  /\ \/ Reports(d, IF mode[d] = "DumpAst" THEN "printDiagnostics" ELSE "analyze")
     \/ Throw(d, 2)
     \/ Throw(d, 1)
  /\ UNCHANGED <<options, paths, files>>

\* Mutant of analyze: IR is built whatever the diagnostics say.
analyzeWithoutGate(d) ==
  /\ At(d, "analyze")
  /\ \E errors \in IF hasErrors[d] THEN {TRUE} ELSE BOOLEAN :
       /\ hasErrors' = [hasErrors EXCEPT ![d] = errors]
       /\ Goto(d, IF mode[d] = "Check" THEN "printDiagnostics" ELSE "buildTypedIr")
  /\ UNCHANGED <<options, exitCode, paths, files>>

\* After a syntax error there is no analysis, after any error no IR.
analyze(d) ==
  /\ At(d, "analyze")
  /\ \E errors \in IF hasErrors[d] THEN {TRUE} ELSE BOOLEAN :
       /\ hasErrors' = [hasErrors EXCEPT ![d] = errors]
       /\ Goto(d, IF mode[d] = "Check" \/ errors THEN "printDiagnostics" ELSE "buildTypedIr")
  /\ UNCHANGED <<options, exitCode, paths, files>>

\* The IR builder and the lowering throw on programs that they do not support.
buildTypedIr(d) ==
  /\ At(d, "buildTypedIr")
  /\ \/ /\ \/ mode[d] = "DumpIr" /\ Goto(d, "printDiagnostics")
           \/ mode[d] \in {"DumpMlir", "DumpLlvm"} /\ Goto(d, "lower")
           \/ mode[d] = "CompileExecutable" /\ Goto(d, "createIrFile")
        /\ UNCHANGED <<hasErrors, exitCode>>
     \/ Throw(d, 1)
  /\ UNCHANGED <<options, paths, files>>

\* dumpTextualMlir, dumpTextualLlvmIr to stdout.
lower(d) ==
  /\ At(d, "lower")
  /\ \/ Goto(d, "printDiagnostics") /\ UNCHANGED <<hasErrors, exitCode>>
     \/ Throw(d, 1)
  /\ UNCHANGED <<options, paths, files>>

printDiagnostics(d) ==
  /\ At(d, "printDiagnostics")
  /\ Exit(d, IF hasErrors[d] THEN 1 ELSE 0)
  /\ UNCHANGED <<options, hasErrors, paths, files>>

-----------------------------------------------------------------------------
(* compileExecutable, up to the guards: what throws leaves its files.      *)

ThrowUnguarded(d) ==
  /\ Throw(d, 1)
  /\ UNCHANGED <<options, paths, files>>

\* Mutant of createIrFile: the name is made without asking whether the file exists.
createIrFileAnyName(d) ==
  /\ At(d, "createIrFile")
  /\ \/ \E n \in IrNames :
          /\ irFiles' = [irFiles EXCEPT ![n] = Empty]
          /\ llvmIrPath' = [llvmIrPath EXCEPT ![d] = n]
          /\ Goto(d, "writeIrFile")
          /\ UNCHANGED <<options, hasErrors, exitCode, guarded, objectPath, collision,
                         objectFiles, exe>>
     \/ ThrowUnguarded(d)

\* mkstemps of writeTemporaryLlvmIr.
createIrFile(d) ==
  /\ At(d, "createIrFile")
  /\ \/ \E n \in IrNames :
          /\ irFiles[n] = None
          /\ irFiles' = [irFiles EXCEPT ![n] = Empty]
          /\ llvmIrPath' = [llvmIrPath EXCEPT ![d] = n]
          /\ Goto(d, "writeIrFile")
          /\ UNCHANGED <<options, hasErrors, exitCode, guarded, objectPath, collision,
                         objectFiles, exe>>
     \/ ThrowUnguarded(d)

\* The lowering runs with the file open.
writeIrFile(d) ==
  /\ At(d, "writeIrFile")
  /\ \/ /\ irFiles' = [irFiles EXCEPT ![llvmIrPath[d]] = d]
        /\ Goto(d, "createObjectFile")
        /\ UNCHANGED <<options, hasErrors, exitCode, paths, objectFiles, exe>>
     \/ ThrowUnguarded(d)

\* Drivers that have a name for an object but no file.
HoldsName(e, n) ==
  objectPath[e] = n /\ pc[e] \in {"resolveRuntime", "llc", "link", "cleanupObj"}

\* mkstemps of writeTemporaryObjectFilePath.
createObjectFile(d) ==
  /\ At(d, "createObjectFile")
  /\ \/ \E n \in ObjectNames :
          /\ objectFiles[n] = None
          /\ objectFiles' = [objectFiles EXCEPT ![n] = Empty]
          /\ objectPath' = [objectPath EXCEPT ![d] = n]
          /\ collision' = (collision \/ \E e \in Drivers : HoldsName(e, n))
          /\ Goto(d, "removeObjectFile")
          /\ UNCHANGED <<options, hasErrors, exitCode, guarded, llvmIrPath, irFiles, exe>>
     \/ ThrowUnguarded(d)

\* From here on the name is kept, but not the file.
removeObjectFile(d) ==
  /\ At(d, "removeObjectFile")
  /\ objectFiles' = [objectFiles EXCEPT ![objectPath[d]] = None]
  /\ Goto(d, "resolveRuntime")
  /\ UNCHANGED <<options, hasErrors, exitCode, paths, irFiles, exe>>

\* The runtime library is found, or there is none; then the guards are constructed.
resolveRuntimeLibrary(d) ==
  /\ At(d, "resolveRuntime")
  /\ \/ /\ guarded' = [guarded EXCEPT ![d] = TRUE]
        /\ Goto(d, "llc")
        /\ UNCHANGED <<options, hasErrors, exitCode, llvmIrPath, objectPath, collision, files>>
     \/ ThrowUnguarded(d)

-----------------------------------------------------------------------------
(* compileExecutable, from the guards on.  runChildProcess forks, the      *)
(* child executes a tool, waitpid waits for it; whatever goes wrong, also  *)
(* a tool that is killed or that cannot be executed (127), throws.         *)

ThrowGuarded(d) ==
  /\ Goto(d, "cleanupObj")
  /\ exitCode' = [exitCode EXCEPT ![d] = 1]

llcSucceeds(d) ==
  /\ At(d, "llc")
  /\ objectFiles' = [objectFiles EXCEPT ![objectPath[d]] = irFiles[llvmIrPath[d]]]
  /\ Goto(d, "link")
  /\ UNCHANGED <<options, hasErrors, exitCode, paths, irFiles, exe>>

llcFails(d) ==
  /\ At(d, "llc")
  /\ \E left \in {objectFiles[objectPath[d]], Broken} :
       objectFiles' = [objectFiles EXCEPT ![objectPath[d]] = left]
  /\ ThrowGuarded(d)
  /\ UNCHANGED <<options, hasErrors, paths, irFiles, exe>>

\* The linker needs an object; what it links, it puts at the output.
linkSucceeds(d) ==
  /\ At(d, "link")
  /\ objectFiles[objectPath[d]] \in Drivers
  /\ exe' = [exe EXCEPT ![output[d]] = objectFiles[objectPath[d]]]
  /\ Goto(d, "cleanupObj")
  /\ UNCHANGED <<options, hasErrors, exitCode, paths, irFiles, objectFiles>>

\* Mutants of linkFails: what the linker had written stays at the output; the
\* compilation is tried again.
linkFailsHalfway(d) ==
  /\ At(d, "link")
  /\ exe' \in {exe, [exe EXCEPT ![output[d]] = Broken]}
  /\ ThrowGuarded(d)
  /\ UNCHANGED <<options, hasErrors, paths, irFiles, objectFiles>>

linkFailsRetries(d) ==
  /\ At(d, "link")
  /\ exe' \in {exe, [exe EXCEPT ![output[d]] = None]}
  /\ Goto(d, "llc")
  /\ UNCHANGED <<options, hasErrors, exitCode, paths, irFiles, objectFiles>>

linkFails(d) ==
  /\ At(d, "link")
  /\ exe' \in {exe, [exe EXCEPT ![output[d]] = None]}
  /\ ThrowGuarded(d)
  /\ UNCHANGED <<options, hasErrors, paths, irFiles, objectFiles>>

\* The destructors of the guards, the last one first, on return and on unwinding.
cleanupObj(d) ==
  /\ At(d, "cleanupObj")
  /\ objectFiles' = [objectFiles EXCEPT ![objectPath[d]] = None]
  /\ Goto(d, "cleanupLl")
  /\ UNCHANGED <<options, hasErrors, exitCode, paths, irFiles, exe>>

\* Mutant of cleanupLl: the guard is dismissed by an exception.
cleanupLlOnReturn(d) ==
  /\ At(d, "cleanupLl")
  /\ irFiles' = IF exitCode[d] = 0 THEN [irFiles EXCEPT ![llvmIrPath[d]] = None] ELSE irFiles
  /\ Goto(d, IF exitCode[d] = 0 THEN "printDiagnostics" ELSE "exited")
  /\ UNCHANGED <<options, hasErrors, exitCode, paths, objectFiles, exe>>

cleanupLl(d) ==
  /\ At(d, "cleanupLl")
  /\ irFiles' = [irFiles EXCEPT ![llvmIrPath[d]] = None]
  /\ Goto(d, IF exitCode[d] = 0 THEN "printDiagnostics" ELSE "exited")
  /\ UNCHANGED <<options, hasErrors, exitCode, paths, objectFiles, exe>>

-----------------------------------------------------------------------------

Init ==
  /\ pc = [d \in Drivers |-> "parseArgs"]
  /\ mode \in [Drivers -> Modes]
  /\ output \in [Drivers -> Outputs]
  /\ hasErrors = [d \in Drivers |-> FALSE]
  /\ exitCode = [d \in Drivers |-> 0]
  /\ guarded = [d \in Drivers |-> FALSE]
  /\ llvmIrPath = [d \in Drivers |-> None]
  /\ objectPath = [d \in Drivers |-> None]
  /\ irFiles = [n \in IrNames |-> None]
  /\ objectFiles = [n \in ObjectNames |-> None]
  /\ exe = [o \in Outputs |-> None]
  /\ collision = FALSE

Phase(d) ==
  \/ parseArgs(d) \/ mergeSourceFiles(d) \/ tokenize(d) \/ parse(d) \/ analyze(d)
  \/ buildTypedIr(d) \/ lower(d) \/ printDiagnostics(d)

File(d) ==
  \/ createIrFile(d) \/ writeIrFile(d) \/ createObjectFile(d) \/ removeObjectFile(d)
  \/ resolveRuntimeLibrary(d)

Child(d) ==
  \/ llcSucceeds(d) \/ llcFails(d) \/ linkSucceeds(d) \/ linkFails(d)
  \/ cleanupObj(d) \/ cleanupLl(d)

Step(d) == Phase(d) \/ File(d) \/ Child(d)

Next == \E d \in Drivers : Step(d)

\* The system runs every process, and the tools end.
Spec == Init /\ [][Next]_vars /\ \A d \in Drivers : WF_vars(Step(d))

-----------------------------------------------------------------------------
(* Properties.                                                             *)

Exited(d) == At(d, "exited")

Labels ==
  {"parseArgs", "mergeSourceFiles", "tokenize", "parse", "analyze", "buildTypedIr", "lower",
   "printDiagnostics", "createIrFile", "writeIrFile", "createObjectFile", "removeObjectFile",
   "resolveRuntime", "llc", "link", "cleanupObj", "cleanupLl", "exited"}

\* The types of the state, for the proofs.
TypeOK ==
  /\ pc \in [Drivers -> Labels]
  /\ mode \in [Drivers -> Modes] /\ output \in [Drivers -> Outputs]
  /\ hasErrors \in [Drivers -> BOOLEAN] /\ exitCode \in [Drivers -> {0, 1, 2}]
  /\ guarded \in [Drivers -> BOOLEAN]
  /\ llvmIrPath \in [Drivers -> IrNames \cup {None}]
  /\ objectPath \in [Drivers -> ObjectNames \cup {None}]
  /\ irFiles \in [IrNames -> Drivers \cup {None, Empty}]
  /\ objectFiles \in [ObjectNames -> Drivers \cup {None, Empty, Broken}]
  /\ exe \in [Outputs -> Drivers \cup {None}]
  /\ collision \in BOOLEAN

\* While no two drivers hold one name for an object, the files that a driver works
\* with are its own: its IR until it is removed, and at the link the object made
\* of that IR (writeTemporaryLlvmIr, writeTemporaryObjectFilePath, compileExecutable).
FilesAreOwn ==
  ~collision => \A d \in Drivers :
    /\ pc[d] \in {"createObjectFile", "removeObjectFile", "resolveRuntime", "llc", "link",
                  "cleanupObj", "cleanupLl"} => irFiles[llvmIrPath[d]] = d
    /\ At(d, "link") => objectFiles[objectPath[d]] = d

\* A driver that got as far as its guards leaves none of its temporary files, whatever
\* failed after that; and when all drivers did, nobody's are left, whole or not, even
\* if two of them held the same name (TemporaryCleanup).
GuardedFilesAreRemoved ==
  /\ ~collision => \A d \in Drivers : Exited(d) /\ guarded[d] =>
       /\ \A n \in IrNames : irFiles[n] # d
       /\ \A n \in ObjectNames : objectFiles[n] # d
  /\ (\A d \in Drivers : Exited(d) /\ (guarded[d] \/ llvmIrPath[d] = None)) =>
       /\ \A n \in IrNames : irFiles[n] = None
       /\ \A n \in ObjectNames : objectFiles[n] = None

\* Every run of the driver ends, whatever fails (main, runChildProcess).
DriversEnd == \A d \in Drivers : <>Exited(d)

-----------------------------------------------------------------------------
(* The inductive invariant (DriverProofs).                                 *)

\* Who has a file for its IR, and who a name for its object.
HoldsIr(d) ==
  pc[d] \in {"writeIrFile", "createObjectFile", "removeObjectFile", "resolveRuntime", "llc",
             "link", "cleanupObj", "cleanupLl"}
HoldsObject(d) ==
  pc[d] \in {"removeObjectFile", "resolveRuntime", "llc", "link", "cleanupObj"}

IrIsHeld ==
  /\ \A d \in Drivers : HoldsIr(d) =>
       /\ llvmIrPath[d] \in IrNames
       /\ irFiles[llvmIrPath[d]] = IF At(d, "writeIrFile") THEN Empty ELSE d
  /\ \A d \in Drivers : \A e \in Drivers :
       HoldsIr(d) /\ HoldsIr(e) /\ llvmIrPath[d] = llvmIrPath[e] => d = e

ObjectIsHeld ==
  /\ \A d \in Drivers : HoldsObject(d) => objectPath[d] \in ObjectNames
  /\ ~collision =>
       /\ \A d \in Drivers : At(d, "link") => objectFiles[objectPath[d]] = d
       /\ \A d \in Drivers : At(d, "removeObjectFile") => objectFiles[objectPath[d]] # None
       /\ \A d \in Drivers : \A e \in Drivers :
            HoldsObject(d) /\ HoldsObject(e) /\ objectPath[d] = objectPath[e] => d = e

\* The files that hold the program of a driver are the ones it holds, or ones that it
\* left before its guards.
FilesAreKnown ==
  \A d \in Drivers :
    /\ \A n \in IrNames : irFiles[n] = d =>
         llvmIrPath[d] = n /\ (HoldsIr(d) \/ (Exited(d) /\ ~guarded[d]))
    /\ ~collision => \A n \in ObjectNames :
         objectFiles[n] = d => objectPath[d] = n /\ pc[d] \in {"link", "cleanupObj"}

\* Behind every file there is a driver that will remove it, or that left it.
FilesAreAccounted ==
  /\ \A n \in IrNames : irFiles[n] # None =>
       \E d \in Drivers : llvmIrPath[d] = n /\ (HoldsIr(d) \/ (Exited(d) /\ ~guarded[d]))
  /\ \A n \in ObjectNames : objectFiles[n] # None =>
       \E d \in Drivers : objectPath[d] = n /\ pc[d] \in {"removeObjectFile", "link", "cleanupObj"}

\* What a driver knows by the place it has reached.
Control ==
  \A d \in Drivers :
    /\ guarded[d] => /\ mode[d] = "CompileExecutable" /\ ~hasErrors[d]
                     /\ pc[d] \in {"llc", "link", "cleanupObj", "cleanupLl",
                                  "printDiagnostics", "exited"}
    /\ pc[d] \in {"llc", "link", "cleanupObj", "cleanupLl"} => guarded[d]
    /\ HoldsIr(d) \/ At(d, "createIrFile") => mode[d] = "CompileExecutable" /\ ~hasErrors[d]
    /\ At(d, "buildTypedIr") => ~hasErrors[d]
    /\ At(d, "lower") => mode[d] \in {"DumpMlir", "DumpLlvm"}
    /\ At(d, "printDiagnostics") /\ mode[d] = "CompileExecutable" => guarded[d] \/ hasErrors[d]
    /\ pc[d] \notin {"cleanupObj", "cleanupLl", "exited"} => exitCode[d] = 0
    /\ Exited(d) /\ exitCode[d] = 0 /\ mode[d] = "CompileExecutable" => guarded[d]

IInv ==
  TypeOK /\ IrIsHeld /\ ObjectIsHeld /\ FilesAreKnown /\ FilesAreAccounted /\ Control

-----------------------------------------------------------------------------
(* The driver implements Compilation.                                      *)

outcome ==
  [d \in Drivers |->
     IF exitCode[d] # 0 THEN "failed"
     ELSE IF Exited(d) THEN "succeeded"
     ELSE IF guarded[d] /\ pc[d] \in {"cleanupObj", "cleanupLl", "printDiagnostics"}
       THEN "published"
     ELSE "running"]

Promise == INSTANCE Compilation WITH
  compiles <- [d \in Drivers |-> mode[d] = "CompileExecutable"]

\* What the driver promises (Compilation): exit status 0 of a compilation means that
\* its own program is at its output, and nothing else ever puts a program there
\* (compileExecutable; main, "!diagnostics.hasErrors()").
ImplementsCompilation == Promise!CompilationSpec
=============================================================================
