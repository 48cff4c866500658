---------------------------- MODULE Preparation ----------------------------
(***************************************************************************)
(* The declaration passes of walang's compiler: Compiler::compile() up to  *)
(* and around the code generation of each file (src/compiler.cpp:41-101).  *)
(*                                                                         *)
(* Classes may be used before they are declared, so the compiler lays them *)
(* out by retrying: a first scan of the statements keeps every class whose *)
(* members' types are not all known in pendingClasses, and a loop retries  *)
(* that list for as long as a pass lays out at least one class.  Function  *)
(* and method signatures follow, then the bodies are compiled.             *)
(*                                                                         *)
(* A layout is abstracted to the set of basis types it is made of          *)
(* ("leaves"): that is all the constructor's error path depends on.        *)
(***************************************************************************)
EXTENDS Naturals, Sequences, Functions

CONSTANTS
  Names,      (* the identifiers a program can use                         *)
  NoClass,    (* the owner of a function which is not a method             *)
  NoType,     (* the return type of a function that does not declare one   *)
  Programs    (* the sets of files given to the compiler                   *)

Basis == {"i32", "u32", "i64", "u64", "f32", "f64", "void"}

FunctionStatement ==
  [kind: {"function"}, name: Names, args: Seq(Names), ret: Names \cup {NoType},
   readonly: BOOLEAN]
ClassStatement ==
  [kind: {"class"}, name: Names, members: Seq([name: Names, type: Names]),
   methods: Seq(FunctionStatement)]
OtherStatement == [kind: {"other"}]
Statement == FunctionStatement \cup ClassStatement \cup OtherStatement
Files == Seq(Seq(Statement)) \ {<<>>}

ASSUME NamesAssumption ==
  /\ Basis \cup {"constructor", "_start"} \subseteq Names
  /\ NoClass \notin Names
  /\ NoType \notin Names
ASSUME ProgramsAssumption == Programs \subseteq Files

VARIABLES
  files,       (* files_                                                   *)
  fileNo,      (* the file the outer loop of compile() is at               *)
  pc,          (* where compile() is                                       *)
  cursor,      (* the iterator of the loop it is in                        *)
  method,      (* the inner iterator of prepareClassStatementLevel2        *)
  pending,     (* pendingClasses, as positions in the file                 *)
  current,     (* currentPendingClasses                                    *)
  isResolved,  (* did the pass lay out a class?                            *)
  types,       (* variantTypeMap_: the classes it holds                    *)
  functions,   (* resolver_.functions(): name -> signature                 *)
  wasm,        (* the names of the functions the Binaryen module has       *)
  error        (* the exception that left compile(), or "none"             *)

EmptyMap == [x \in {} |-> x]
Emplace(map, key, value) ==
  [x \in DOMAIN map \cup {key} |-> IF x = key THEN value ELSE map[x]]

registry == <<types, functions, wasm>>
loop == <<cursor, method, pending, current, isResolved>>
vars == <<files, fileNo, pc, loop, registry, error>>

-----------------------------------------------------------------------------
(* What the statements say. *)

Needs(s) == {s.members[i].type : i \in DOMAIN s.members}

SymbolsOf(s) == [i \in DOMAIN s.members |-> s.members[i].name]
                  \o [i \in DOMAIN s.methods |-> s.methods[i].name]
Redefines(s) == ~IsInjective(SymbolsOf(s))
MethodNames(s) == {s.methods[i].name : i \in DOMAIN s.methods}
Signature(args, ret, readonly) == [args |-> args, ret |-> ret, readonly |-> readonly]

(* The type table, and what findVariantType says of a class's members in   *)
(* the order they are declared in: the first one that is of the class's    *)
(* own type, or of an unknown one, decides.                                *)
KnownTypes == Basis \cup DOMAIN types

UsableUnchecked(s, i) == s.members[i].type # s.name                 \* mutant
UsableInItself(s, i) == s.members[i].type \in KnownTypes \cup {s.name} \* mutant
Usable(s, i) == s.members[i].type # s.name /\ s.members[i].type \in KnownTypes
FirstUnusable(s, i) ==
  /\ i \in DOMAIN s.members
  /\ ~Usable(s, i)
  /\ \A j \in DOMAIN s.members : j < i => Usable(s, j)

UnknownFirst(s) ==
  /\ ~Redefines(s)
  /\ \E i \in DOMAIN s.members : FirstUnusable(s, i) /\ s.members[i].type # s.name
RecursiveFirst(s) ==
  /\ ~Redefines(s)
  /\ \E i \in DOMAIN s.members : FirstUnusable(s, i) /\ s.members[i].type = s.name
RegistrableAgain(s) ==                                              \* mutant
  /\ ~Redefines(s)
  /\ \A i \in DOMAIN s.members : Usable(s, i)
Registrable(s) ==
  /\ ~Redefines(s)
  /\ \A i \in DOMAIN s.members : Usable(s, i)
  /\ s.name \notin KnownTypes

(* underlyingTypes() of a class concatenates those of its members; "void"  *)
(* is one of them, although underlyingType() leaves it out: a class that   *)
(* has "void" beside other types is built in memory, slot by slot, and     *)
(* "void" has no default value.                                            *)
LeavesOf(t) == IF t \in DOMAIN types THEN types[t].leaves ELSE {t}
Leaves(s) == UNION {LeavesOf(t) : t \in Needs(s)}
NoDefaultValue(s) == "void" \in Leaves(s) /\ Leaves(s) # {"void"}

-----------------------------------------------------------------------------
(* prepareClassStatementLevel1.  ClassError is what it throws, "none" when *)
(* it returns; a class is in the type table from registerType on, even if  *)
(* its constructor is refused afterwards.                                  *)

ClassError(s) ==
  CASE Registrable(s) /\ NoDefaultValue(s) -> "runtime_error"
    [] Registrable(s) /\ ~NoDefaultValue(s) /\ <<NoClass, s.name>> \notin DOMAIN functions -> "none"
    [] UnknownFirst(s) -> "UnknownSymbol"
    [] RecursiveFirst(s) -> "RecursiveDefinedSymbol"
    [] OTHER -> "RedefinedSymbol"

PrepareClass(s) ==
  /\ types' = IF Registrable(s)
              THEN Emplace(types, s.name,
                           [needs |-> Needs(s), leaves |-> Leaves(s), methods |-> {}])
              ELSE types
  /\ wasm' = IF Registrable(s) /\ ~NoDefaultValue(s)
             THEN wasm \cup {<<s.name, "constructor">>} ELSE wasm
  /\ functions' = IF ClassError(s) = "none"
                  THEN Emplace(functions, <<NoClass, s.name>>, Signature(<<>>, s.name, FALSE))
                  ELSE functions

-----------------------------------------------------------------------------
(* The loops of compile(). *)

Statements == files[fileNo]
Raise(e) ==
  /\ error' = e
  /\ pc' = IF e = "none" THEN pc ELSE "failed"
Goto(phase) ==
  /\ pc' = phase
  /\ cursor' = 1
  /\ UNCHANGED <<files, fileNo, method, registry, error>>

PrepareOrDrop(p) ==                                                 \* mutant
  /\ PrepareClass(Statements[p])
  /\ Raise(IF ClassError(Statements[p]) = "UnknownSymbol" THEN "none" ELSE ClassError(Statements[p]))
  /\ UNCHANGED pending
(* catch (UnknownSymbol const &): the class at position p waits.           *)
PrepareOrDefer(p) ==
  /\ PrepareClass(Statements[p])
  /\ IF ClassError(Statements[p]) = "UnknownSymbol"
     THEN Raise("none") /\ pending' = Append(pending, p)
     ELSE Raise(ClassError(Statements[p])) /\ UNCHANGED pending

Scan ==
  /\ pc = "scan" /\ cursor <= Len(Statements)
  /\ cursor' = cursor + 1
  /\ IF Statements[cursor].kind = "class"
     THEN PrepareOrDefer(cursor)
     ELSE UNCHANGED <<registry, pending, pc, error>>
  /\ UNCHANGED <<files, fileNo, method, current, isResolved>>

ScanEndsUnresolved ==                                               \* mutant
  /\ pc = "scan" /\ cursor > Len(Statements)
  /\ Goto("while")
  /\ isResolved' = FALSE
  /\ UNCHANGED <<pending, current>>
ScanEnds ==
  /\ pc = "scan" /\ cursor > Len(Statements)
  /\ Goto("while")
  /\ isResolved' = TRUE
  /\ UNCHANGED <<pending, current>>

PassBeginsCopying ==                                                \* mutant
  /\ pc = "while" /\ pending # <<>> /\ isResolved
  /\ Goto("pass")
  /\ isResolved' = FALSE
  /\ current' = pending
  /\ UNCHANGED pending
PassBegins ==
  /\ pc = "while" /\ pending # <<>> /\ isResolved
  /\ Goto("pass")
  /\ isResolved' = FALSE
  /\ current' = pending
  /\ pending' = <<>>

RetryForgetting ==                                                  \* mutant
  /\ pc = "pass" /\ cursor <= Len(current)
  /\ cursor' = cursor + 1
  /\ PrepareOrDefer(current[cursor])
  /\ isResolved' = (ClassError(Statements[current[cursor]]) = "none")
  /\ UNCHANGED <<files, fileNo, method, current>>
RetryForever ==                                                     \* mutant
  /\ pc = "pass" /\ cursor <= Len(current)
  /\ cursor' = cursor + 1
  /\ PrepareOrDefer(current[cursor])
  /\ isResolved' = TRUE
  /\ UNCHANGED <<files, fileNo, method, current>>
Retry ==
  /\ pc = "pass" /\ cursor <= Len(current)
  /\ cursor' = cursor + 1
  /\ PrepareOrDefer(current[cursor])
  /\ isResolved' = (isResolved \/ ClassError(Statements[current[cursor]]) = "none")
  /\ UNCHANGED <<files, fileNo, method, current>>

PassEnds ==
  /\ pc = "pass" /\ cursor > Len(current)
  /\ Goto("while")
  /\ UNCHANGED <<pending, current, isResolved>>

WhileEndsEarly ==                                                   \* mutant
  /\ pc = "while"
  /\ Goto("leftover")
  /\ UNCHANGED <<pending, current, isResolved>>
WhileEnds ==
  /\ pc = "while" /\ (pending = <<>> \/ ~isResolved)
  /\ Goto("leftover")
  /\ UNCHANGED <<pending, current, isResolved>>

(* What no pass could lay out is prepared once more, outside of any try.   *)
Leftover ==
  /\ pc = "leftover" /\ cursor <= Len(pending)
  /\ cursor' = cursor + 1
  /\ PrepareClass(Statements[pending[cursor]])
  /\ Raise(ClassError(Statements[pending[cursor]]))
  /\ UNCHANGED <<files, fileNo, method, pending, current, isResolved>>

LeftoverSkipped ==                                                  \* mutant
  /\ pc = "leftover"
  /\ Goto("functions")
  /\ UNCHANGED <<pending, current, isResolved>>
LeftoverEnds ==
  /\ pc = "leftover" /\ cursor > Len(pending)
  /\ Goto("functions")
  /\ UNCHANGED <<pending, current, isResolved>>

-----------------------------------------------------------------------------
(* Signatures: prepareFunctionStatement, prepareMethod, doPrepareFunction. *)

FunctionErrorByName(owner, f) ==                                    \* mutant
  IF \E i \in DOMAIN f.args : f.args[i] \notin KnownTypes THEN "UnknownSymbol"
  ELSE IF f.ret = NoType THEN "runtime_error"
  ELSE IF f.ret \notin KnownTypes THEN "UnknownSymbol"
  ELSE IF f.readonly /\ owner = NoClass THEN "ErrorDecorator"
  ELSE IF \E g \in DOMAIN functions : g[2] = f.name THEN "RedefinedSymbol"
  ELSE "none"
FunctionError(owner, f) ==
  IF \E i \in DOMAIN f.args : f.args[i] \notin KnownTypes THEN "UnknownSymbol"
  ELSE IF f.ret = NoType THEN "runtime_error"
  ELSE IF f.ret \notin KnownTypes THEN "UnknownSymbol"
  ELSE IF f.readonly /\ owner = NoClass THEN "ErrorDecorator"
  ELSE IF <<owner, f.name>> \in DOMAIN functions THEN "RedefinedSymbol"
  ELSE "none"

PrepareFunction(owner, f) ==
  /\ functions' = IF FunctionError(owner, f) = "none"
                  THEN Emplace(functions, <<owner, f.name>>, Signature(f.args, f.ret, f.readonly))
                  ELSE functions
  /\ Raise(FunctionError(owner, f))
  /\ UNCHANGED wasm

PrepareFunctions ==
  /\ pc = "functions" /\ cursor <= Len(Statements)
  /\ cursor' = cursor + 1
  /\ IF Statements[cursor].kind = "function"
     THEN PrepareFunction(NoClass, Statements[cursor])
     ELSE UNCHANGED <<functions, wasm, pc, error>>
  /\ UNCHANGED <<files, fileNo, method, types, pending, current, isResolved>>

FunctionsEnd ==
  /\ pc = "functions" /\ cursor > Len(Statements)
  /\ Goto("methods")
  /\ UNCHANGED <<pending, current, isResolved>>

(* prepareClassStatementLevel2, one method at a time; the class receives   *)
(* its method map when all of them are prepared.                           *)
PrepareMethod ==
  /\ pc = "methods" /\ cursor <= Len(Statements)
  /\ Statements[cursor].kind = "class"
  /\ method <= Len(Statements[cursor].methods)
  /\ method' = method + 1
  /\ PrepareFunction(Statements[cursor].name, Statements[cursor].methods[method])
  /\ UNCHANGED <<files, fileNo, cursor, types, pending, current, isResolved>>

NextClass ==
  /\ pc = "methods" /\ cursor <= Len(Statements)
  /\ Statements[cursor].kind = "class" => method > Len(Statements[cursor].methods)
  /\ cursor' = cursor + 1
  /\ method' = 1
  /\ types' = IF Statements[cursor].kind = "class"
              THEN [types EXCEPT ![Statements[cursor].name].methods = MethodNames(Statements[cursor])]
              ELSE types
  /\ UNCHANGED <<files, fileNo, pc, functions, wasm, error, pending, current, isResolved>>

MethodsEnd ==
  /\ pc = "methods" /\ cursor > Len(Statements)
  /\ Goto("compile")
  /\ UNCHANGED <<pending, current, isResolved>>

-----------------------------------------------------------------------------
(* Code generation, abstracted to what it adds to the Binaryen module: the *)
(* function of every declaration and, last, the file's "_start".  A body   *)
(* can be refused (CompilerError); a name the module has is fatal in       *)
(* Binaryen.                                                               *)

Compiled(s) ==
  CASE s.kind = "function" -> {<<NoClass, s.name>>}
    [] s.kind = "class" -> {<<s.name, m>> : m \in MethodNames(s)}
    [] OTHER -> {}
CompiledNames == UNION {Compiled(Statements[i]) : i \in DOMAIN Statements}
StartName == <<NoClass, "_start">>

CompileFile ==
  /\ pc = "compile"
  /\ cursor' = 1 /\ pending' = <<>> /\ current' = <<>>
  /\ \/ /\ wasm \cap CompiledNames = {} /\ StartName \notin wasm \cup CompiledNames
        /\ wasm' = wasm \cup CompiledNames \cup {StartName}
        /\ error' = error
        /\ IF fileNo < Len(files)
           THEN fileNo' = fileNo + 1 /\ pc' = "scan"
           ELSE fileNo' = fileNo /\ pc' = "done"
     \/ /\ wasm \cap CompiledNames # {} \/ StartName \in wasm \cup CompiledNames
        /\ Raise("Fatal")
        /\ UNCHANGED <<fileNo, wasm>>
     \/ Raise("CompilerError") /\ UNCHANGED <<fileNo, wasm>>
  /\ UNCHANGED <<files, method, types, functions, isResolved>>

-----------------------------------------------------------------------------
Init ==
  /\ files \in Programs
  /\ fileNo = 1
  /\ pc = "scan"
  /\ cursor = 1 /\ method = 1
  /\ pending = <<>> /\ current = <<>>
  /\ isResolved = TRUE
  /\ types = EmptyMap /\ functions = EmptyMap /\ wasm = {}
  /\ error = "none"

Next ==
  \/ Scan \/ ScanEnds
  \/ PassBegins \/ Retry \/ PassEnds \/ WhileEnds
  \/ Leftover \/ LeftoverEnds
  \/ PrepareFunctions \/ FunctionsEnd
  \/ PrepareMethod \/ NextClass \/ MethodsEnd
  \/ CompileFile

Safe == Init /\ [][Next]_vars
(* compile() is a loop nothing suspends.                                   *)
Spec == Safe /\ WF_vars(Next)

-----------------------------------------------------------------------------
(* Where every class of the file is: the positions still to be laid out.   *)
Classes == {i \in DOMAIN Statements : Statements[i].kind = "class"}
Waiting ==
  CASE pc = "scan" -> Range(pending) \cup {i \in Classes : i >= cursor}
    [] pc = "pass" -> Range(pending) \cup {current[i] : i \in cursor..Len(current)}
    [] pc \in {"while", "leftover"} -> Range(pending)
    [] OTHER -> {}

Errors ==
  {"none", "UnknownSymbol", "RedefinedSymbol", "RecursiveDefinedSymbol",
   "ErrorDecorator", "CompilerError", "runtime_error", "Fatal"}
ClassEntry == [needs: SUBSET Names, leaves: SUBSET Basis, methods: SUBSET Names]
FunctionName == (Names \cup {NoClass}) \X Names

(* The state is well typed; "failed" is the state an exception left.       *)
TypeOK ==
  /\ files \in Files
  /\ fileNo \in Nat \ {0}
  /\ pc \in {"scan", "while", "pass", "leftover", "functions", "methods",
             "compile", "done", "failed"}
  /\ pc # "done" =>
       fileNo \in DOMAIN files /\ pending \in Seq(Classes) /\ current \in Seq(Classes)
  /\ cursor \in Nat \ {0} /\ method \in Nat \ {0}
  /\ isResolved \in BOOLEAN
  /\ DOMAIN types \subseteq Names \ Basis
  /\ \A c \in DOMAIN types : types[c] \in ClassEntry
  /\ DOMAIN functions \subseteq FunctionName
  /\ wasm \subseteq FunctionName
  /\ error \in Errors
  /\ (pc = "failed") <=> (error # "none")

-----------------------------------------------------------------------------
(* Layouts *)

(* A class only has members of types that are known: findVariantType of a  *)
(* member of a member never fails.                                         *)
LayoutClosed == \A c \in DOMAIN types : types[c].needs \subseteq KnownTypes

(* Every set of classes has one that needs no other of the set: the        *)
(* recursion of underlyingType(), underlyingTypes() and initMembers over   *)
(* the members ends, although only direct recursion is ever checked for.   *)
LayoutWellFounded ==
  \A S \in SUBSET DOMAIN types :
    S # {} => \E c \in S : types[c].needs \cap S = {}

(* A class that is retried is never laid out twice, lost between the two   *)
(* pending lists, or left behind by the scan.                              *)
NoClassLost ==
  pc \notin {"done", "failed"} =>
    \A i \in Classes :
      \/ i \in Waiting
      \/ /\ Statements[i].name \in DOMAIN types
         /\ types[Statements[i].name].needs = Needs(Statements[i])
         /\ <<NoClass, Statements[i].name>> \in DOMAIN functions

(* The lists keep the classes in source order: the first error reported is *)
(* that of the first class that has one, and no class is in them twice.    *)
SourceOrder ==
  LET ascending(seq) == \A i, j \in DOMAIN seq : i < j => seq[i] < seq[j]
  IN  /\ ascending(pending) /\ ascending(current)
      /\ pc = "scan" => \A i \in DOMAIN pending : pending[i] < cursor
      /\ pc = "pass" => \A i \in DOMAIN pending, j \in cursor..Len(current) : pending[i] < current[j]

(* Once a pass has laid out nothing, every pending class is still blocked: *)
(* the loop is right to stop, and the uncaught attempt that follows it     *)
(* throws for the first of them.                                           *)
StuckWhenNoProgress ==
  (pc \in {"pass", "while", "leftover"} /\ ~isResolved) =>
    \A i \in Range(pending) : ClassError(Statements[i]) = "UnknownSymbol"

(* Signatures and bodies are only looked at when every class of the file   *)
(* has its layout (the assert of prepareClassStatementLevel2).             *)
SignaturesSeeEveryClass ==
  pc \in {"functions", "methods", "compile"} =>
    \A i \in Classes : Statements[i].name \in DOMAIN types

-----------------------------------------------------------------------------
(* Order independence, against a reference that does not retry anything:   *)
(* the classes that can be built are those of some set which only needs    *)
(* basis types, the classes of earlier files and itself, without a cycle.  *)
ClassesOf(file) == {i \in DOMAIN file : file[i].kind = "class"}
NamesOf(S) == {Statements[i].name : i \in S}
TypesOfFiles(last) ==
  Basis \cup UNION {{files[k][i].name : i \in ClassesOf(files[k])} : k \in 1..last}

Constructible(S) ==
  /\ \A i \in S : Needs(Statements[i]) \subseteq TypesOfFiles(fileNo - 1) \cup NamesOf(S)
  /\ \A T \in SUBSET S : T # {} => \E i \in T : Needs(Statements[i]) \cap NamesOf(T) = {}
Buildable == UNION {S \in SUBSET Classes : Constructible(S)}

(* The loop gives up exactly on the classes that cannot be built, whatever *)
(* the order in which the program declares them.                           *)
LeftoverIsUnbuildable ==
  pc = "leftover" => Range(pending) = Classes \ Buildable

(* "Redefined" is about a name the program does declare twice, never about *)
(* a class that a retry meets again or a method of another class.          *)
Declarations ==
  UNION {{<<k, i>> : i \in {j \in DOMAIN files[k] : files[k][j].kind # "other"}} : k \in 1..fileNo}
RedefinedIsDeclaredTwice ==
  error = "RedefinedSymbol" =>
    \/ \E p, q \in Declarations : p # q /\ files[p[1]][p[2]].name = files[q[1]][q[2]].name
    \/ \E i \in Classes : Redefines(Statements[i]) \/ Statements[i].name \in Basis


(* compile() ends: every pass of the loop lays out a class or is the last. *)
Termination == <>(pc \in {"done", "failed"})

-----------------------------------------------------------------------------
(* The abstract specification, and how the lists of compile() map to it.   *)
Declaration(i) ==
  [at |-> i, name |-> Statements[i].name, needs |-> Needs(Statements[i]),
   clash |-> Redefines(Statements[i])]
Verdict ==
  CASE pc = "done" -> "accepted"
    [] pc = "failed" -> IF error = "UnknownSymbol" THEN "unknown" ELSE "refused"
    [] OTHER -> "running"

Resolution == INSTANCE ClassResolution WITH
  waiting <- {Declaration(i) : i \in Waiting}, known <- KnownTypes, verdict <- Verdict

(* compile() implements it: retrying in source order loses no layout that  *)
(* another order would have found, and refuses nothing without a reason.   *)
ImplementsResolution == Resolution!Spec
=============================================================================
