------------------------- MODULE PreparationProofs -------------------------
(***************************************************************************)
(* Proofs about Preparation, for every program and every set of names.     *)
(***************************************************************************)
EXTENDS Preparation, WellFoundedInduction, TLAPS

LEMMA LeastElement ==
  ASSUME NEW T \in SUBSET Nat, T # {}
  PROVE  \E x \in T : \A y \in T : x <= y
<1> DEFINE R == {ss \in Nat \X Nat : ss[1] < ss[2]}
<1>1. IsWellFoundedOn(R, Nat)
  BY NatLessThanWellFounded DEF OpToRel
<1>2. PICK x \in T : \A y \in T : ~ (<<y, x>> \in R)
  BY <1>1, WFMin
<1>3. \A y \in T : ~(y < x)
  BY <1>2
<1> QED BY <1>3

LEMMA ElementType ==
  ASSUME NEW S, NEW q \in Seq(S)
  PROVE  \A i \in DOMAIN q : q[i] \in S
OBVIOUS

(* What a file holds, and what a class statement is made of.               *)
LEMMA StatementsType ==
  ASSUME TypeOK, pc # "done"
  PROVE  Statements \in Seq(Statement)
BY DEF TypeOK, Files, Statements

LEMMA ClassType ==
  ASSUME TypeOK, pc # "done", NEW i \in Classes
  PROVE  /\ i \in DOMAIN Statements
         /\ Statements[i] \in ClassStatement
         /\ Statements[i].name \in Names
         /\ Needs(Statements[i]) \subseteq Names
         /\ MethodNames(Statements[i]) \subseteq Names
<1>1. i \in DOMAIN Statements /\ Statements[i] \in Statement /\ Statements[i].kind = "class"
  BY StatementsType DEF Classes
<1>2. Statements[i] \in ClassStatement
  BY <1>1 DEF Statement, ClassStatement, FunctionStatement, OtherStatement
<1>3. Statements[i].members \in Seq([name: Names, type: Names])
  BY <1>2 DEF ClassStatement
<1>4. Statements[i].methods \in Seq(FunctionStatement)
  BY <1>2 DEF ClassStatement
<1>5. Needs(Statements[i]) \subseteq Names
  <2>1. \A j \in DOMAIN Statements[i].members :
            Statements[i].members[j] \in [name: Names, type: Names]
    BY <1>3, ElementType
  <2> QED BY <2>1 DEF Needs
<1>6. MethodNames(Statements[i]) \subseteq Names
  <2>1. \A j \in DOMAIN Statements[i].methods : Statements[i].methods[j] \in FunctionStatement
    BY <1>4, ElementType
  <2> QED BY <2>1 DEF MethodNames, FunctionStatement
<1> QED BY <1>1, <1>2, <1>5, <1>6 DEF ClassStatement

(* The map that PrepareClass leaves: the old one, and the class if it is   *)
(* registrable.                                                            *)
LEMMA PrepareClassTypes ==
  ASSUME NEW s, PrepareClass(s)
  PROVE  /\ Registrable(s) =>
              /\ DOMAIN types' = DOMAIN types \cup {s.name}
              /\ s.name \notin DOMAIN types
              /\ types'[s.name] = [needs |-> Needs(s), leaves |-> Leaves(s), methods |-> {}]
              /\ \A c \in DOMAIN types : types'[c] = types[c]
         /\ ~Registrable(s) => types' = types
BY DEF PrepareClass, Registrable, KnownTypes, Emplace

LEMMA SameFile ==
  ASSUME UNCHANGED <<files, fileNo>>
  PROVE  Statements' = Statements /\ Classes' = Classes
BY DEF Statements, Classes

LEMMA ErrorTypes ==
  ASSUME NEW s, NEW owner
  PROVE  ClassError(s) \in Errors /\ FunctionError(owner, s) \in Errors
<1>1. ClassError(s) \in Errors
  BY DEF ClassError, Errors
<1>2. FunctionError(owner, s) \in Errors
  BY DEF FunctionError, Errors
<1> QED BY <1>1, <1>2

LEMMA RaiseTypes ==
  ASSUME TypeOK, NEW e \in Errors, Raise(e), pc \notin {"done", "failed"}
  PROVE  /\ error' \in Errors
         /\ pc' \in {pc, "failed"}
         /\ (pc' = "failed") <=> (error' # "none")
BY DEF TypeOK, Raise

LEMMA PrepareClassType ==
  ASSUME TypeOK, pc # "done", NEW i \in Classes, PrepareClass(Statements[i])
  PROVE  /\ DOMAIN types' \subseteq Names \ Basis
         /\ \A c \in DOMAIN types' : types'[c] \in ClassEntry
         /\ DOMAIN functions' \subseteq FunctionName
         /\ wasm' \subseteq FunctionName
<1> DEFINE s == Statements[i]
<1>1. s.name \in Names /\ Needs(s) \subseteq Names
  BY ClassType
<1>2. Registrable(s) => Leaves(s) \subseteq Basis
  <2> SUFFICES ASSUME Registrable(s), NEW t \in Needs(s)
               PROVE  LeavesOf(t) \subseteq Basis
    BY DEF Leaves
  <2>1. t \in KnownTypes
    BY DEF Registrable, Usable, Needs
  <2> QED BY <2>1 DEF LeavesOf, KnownTypes, TypeOK, ClassEntry
<1>3. CASE Registrable(s)
  <2>1. s.name \in Names \ Basis
    BY <1>1, <1>3 DEF Registrable, KnownTypes
  <2>2. types'[s.name] \in ClassEntry
    BY <1>1, <1>2, <1>3 DEF PrepareClass, Emplace, ClassEntry
  <2> QED BY <1>1, <1>3, <2>1, <2>2, PrepareClassTypes, NamesAssumption
          DEF TypeOK, PrepareClass, Emplace, FunctionName
<1>4. CASE ~Registrable(s)
  <2>1. ClassError(s) # "none"
    BY <1>4 DEF ClassError
  <2> QED BY <1>4, <2>1 DEF TypeOK, PrepareClass
<1> QED BY <1>3, <1>4

LEMMA PrepareOrDeferType ==
  ASSUME TypeOK, pc \notin {"done", "failed"}, NEW i \in Classes, PrepareOrDefer(i)
  PROVE  /\ error' \in Errors
         /\ pc' \in {pc, "failed"}
         /\ (pc' = "failed") <=> (error' # "none")
         /\ pending' \in Seq(Classes)
<1>1. pending \in Seq(Classes)
  BY DEF TypeOK
<1>2. CASE ClassError(Statements[i]) = "UnknownSymbol"
  <2>1. Raise("none") /\ pending' = Append(pending, i)
    BY <1>2 DEF PrepareOrDefer
  <2> QED BY <1>1, <2>1 DEF Raise, TypeOK, Errors
<1>3. CASE ClassError(Statements[i]) # "UnknownSymbol"
  <2>1. Raise(ClassError(Statements[i])) /\ pending' = pending
    BY <1>3 DEF PrepareOrDefer
  <2> QED BY <1>1, <2>1, ErrorTypes, RaiseTypes
<1> QED BY <1>2, <1>3

LEMMA PrepareFunctionType ==
  ASSUME TypeOK, pc \notin {"done", "failed"},
         NEW owner \in Names \cup {NoClass}, NEW f \in FunctionStatement,
         PrepareFunction(owner, f)
  PROVE  /\ error' \in Errors
         /\ pc' \in {pc, "failed"}
         /\ (pc' = "failed") <=> (error' # "none")
         /\ DOMAIN functions' \subseteq FunctionName
         /\ wasm' = wasm
<1>1. f.name \in Names
  BY DEF FunctionStatement
<1> QED BY <1>1, ErrorTypes, RaiseTypes DEF PrepareFunction, TypeOK, Emplace, FunctionName

-----------------------------------------------------------------------------
(* Type correctness: whatever the program, the state of compile() is well  *)
(* typed; in particular the pending lists only hold classes of the file    *)
(* and the type table never holds a class in place of a basis type.        *)
THEOREM TypeCorrect == Spec => []TypeOK
<1>1. Init => TypeOK
  <2> SUFFICES ASSUME Init PROVE TypeOK
    OBVIOUS
  <2>1. files \in Seq(Seq(Statement)) /\ files # <<>>
    BY ProgramsAssumption DEF Init, Files
  <2>2. pc # "done" => fileNo \in DOMAIN files
    BY <2>1 DEF Init
  <2>3. files \in Files
    BY ProgramsAssumption DEF Init
  <2> QED BY <2>2, <2>3 DEF Init, TypeOK, EmptyMap, Errors
<1>2. TypeOK /\ [Next]_vars => TypeOK'
  <2> SUFFICES ASSUME TypeOK, [Next]_vars PROVE TypeOK'
    OBVIOUS
  <2>1. CASE Scan
    <3>1. pc = "scan" /\ cursor \in DOMAIN Statements /\ UNCHANGED <<files, fileNo>>
      BY <2>1, StatementsType DEF Scan, TypeOK
    <3>2. CASE Statements[cursor].kind = "class"
      <4>1. cursor \in Classes /\ PrepareOrDefer(cursor)
        BY <2>1, <3>1, <3>2 DEF Scan, Classes
      <4>2. PrepareClass(Statements[cursor])
        BY <4>1 DEF PrepareOrDefer
      <4> QED BY <2>1, <3>1, <4>1, <4>2, SameFile, PrepareClassType, PrepareOrDeferType
              DEF Scan, TypeOK
    <3>3. CASE Statements[cursor].kind # "class"
      BY <2>1, <3>1, <3>3, SameFile DEF Scan, TypeOK, registry
    <3> QED BY <3>2, <3>3
  <2>2. CASE Retry
    <3>1. pc = "pass" /\ cursor \in DOMAIN current /\ UNCHANGED <<files, fileNo>>
      BY <2>2 DEF Retry, TypeOK
    <3>2. current[cursor] \in Classes /\ PrepareOrDefer(current[cursor])
      BY <2>2, <3>1, ElementType DEF Retry, TypeOK
    <3>3. PrepareClass(Statements[current[cursor]])
      BY <3>2 DEF PrepareOrDefer
    <3> QED BY <2>2, <3>1, <3>2, <3>3, SameFile, PrepareClassType, PrepareOrDeferType
            DEF Retry, TypeOK
  <2>3. CASE Leftover
    <3>1. pc = "leftover" /\ cursor \in DOMAIN pending /\ UNCHANGED <<files, fileNo>>
      BY <2>3 DEF Leftover, TypeOK
    <3>2. pending[cursor] \in Classes /\ PrepareClass(Statements[pending[cursor]])
      BY <2>3, <3>1, ElementType DEF Leftover, TypeOK
    <3>3. /\ error' \in Errors
          /\ pc' \in {pc, "failed"}
          /\ (pc' = "failed") <=> (error' # "none")
      BY <2>3, <3>1, ErrorTypes, RaiseTypes DEF Leftover
    <3> QED BY <2>3, <3>1, <3>2, <3>3, SameFile, PrepareClassType DEF Leftover, TypeOK
  <2>4. CASE ScanEnds \/ PassBegins \/ PassEnds \/ WhileEnds \/ LeftoverEnds
             \/ FunctionsEnd \/ MethodsEnd
    <3>1. /\ UNCHANGED <<files, fileNo, method, types, functions, wasm, error>>
          /\ cursor' = 1 /\ isResolved' \in BOOLEAN
          /\ pc \notin {"done", "failed"}
          /\ pc' \in {"while", "pass", "leftover", "functions", "methods", "compile"}
      BY <2>4 DEF ScanEnds, PassBegins, PassEnds, WhileEnds, LeftoverEnds, FunctionsEnd,
                  MethodsEnd, Goto, registry, TypeOK
    <3>2. pending' \in Seq(Classes) /\ current' \in Seq(Classes)
      <4>1. pending \in Seq(Classes) /\ current \in Seq(Classes)
        BY <3>1 DEF TypeOK
      <4>2. /\ pending' \in {pending, <<>>}
            /\ current' \in {current, pending}
        BY <2>4 DEF ScanEnds, PassBegins, PassEnds, WhileEnds, LeftoverEnds, FunctionsEnd,
                    MethodsEnd
      <4>3. <<>> \in Seq(Classes)
        OBVIOUS
      <4> QED BY <4>1, <4>2, <4>3
    <3> QED BY <3>1, <3>2, SameFile DEF TypeOK
  <2>5. CASE PrepareFunctions
    <3>1. pc = "functions" /\ cursor \in DOMAIN Statements /\ UNCHANGED <<files, fileNo>>
      BY <2>5, StatementsType DEF PrepareFunctions, TypeOK
    <3>2. CASE Statements[cursor].kind = "function"
      <4>1. Statements[cursor] \in FunctionStatement
        BY <3>1, <3>2, StatementsType
        DEF Statement, FunctionStatement, ClassStatement, OtherStatement
      <4>2. PrepareFunction(NoClass, Statements[cursor])
        BY <2>5, <3>2 DEF PrepareFunctions
      <4>3. /\ error' \in Errors /\ pc' \in {pc, "failed"}
            /\ (pc' = "failed") <=> (error' # "none")
            /\ DOMAIN functions' \subseteq FunctionName
            /\ wasm' = wasm
        BY <3>1, <4>1, <4>2, PrepareFunctionType
      <4> QED BY <2>5, <3>1, <4>3, SameFile DEF PrepareFunctions, TypeOK
    <3>3. CASE Statements[cursor].kind # "function"
      BY <2>5, <3>1, <3>3, SameFile DEF PrepareFunctions, TypeOK
    <3> QED BY <3>2, <3>3
  <2>6. CASE PrepareMethod
    <3>1. pc = "methods" /\ cursor \in Classes /\ UNCHANGED <<files, fileNo>>
      BY <2>6, StatementsType DEF PrepareMethod, TypeOK, Classes
    <3>2. /\ Statements[cursor].name \in Names
          /\ Statements[cursor].methods \in Seq(FunctionStatement)
      BY <3>1, ClassType DEF ClassStatement
    <3>3. Statements[cursor].methods[method] \in FunctionStatement
      BY <2>6, <3>2 DEF PrepareMethod, TypeOK
    <3>4. PrepareFunction(Statements[cursor].name, Statements[cursor].methods[method])
      BY <2>6 DEF PrepareMethod
    <3> QED BY <2>6, <3>1, <3>2, <3>3, <3>4, SameFile, PrepareFunctionType
            DEF PrepareMethod, TypeOK
  <2>7. CASE NextClass
    <3>1. pc = "methods" /\ cursor \in DOMAIN Statements /\ UNCHANGED <<files, fileNo>>
      BY <2>7, StatementsType DEF NextClass, TypeOK
    <3>2. /\ DOMAIN types' = DOMAIN types
          /\ \A c \in DOMAIN types : types'[c] \in ClassEntry
      <4>1. CASE Statements[cursor].kind = "class"
        <5>1. MethodNames(Statements[cursor]) \subseteq Names
          BY <3>1, <4>1, ClassType DEF Classes
        <5> QED BY <2>7, <4>1, <5>1 DEF NextClass, TypeOK, ClassEntry
      <4>2. CASE Statements[cursor].kind # "class"
        BY <2>7, <4>2 DEF NextClass, TypeOK
      <4> QED BY <4>1, <4>2
    <3> QED BY <2>7, <3>1, <3>2, SameFile DEF NextClass, TypeOK
  <2>8. CASE CompileFile
    <3>1. pc = "compile" /\ fileNo \in DOMAIN files /\ files \in Seq(Seq(Statement))
      BY <2>8 DEF CompileFile, TypeOK, Files
    <3>2. CompiledNames \cup {StartName} \subseteq FunctionName
      <4>1. ASSUME NEW i \in DOMAIN Statements
            PROVE  Compiled(Statements[i]) \subseteq FunctionName
        <5>1. CASE i \in Classes
          BY <3>1, <5>1, ClassType DEF Compiled, Classes, FunctionName
        <5>2. CASE Statements[i].kind = "function"
          BY <3>1, <5>2, StatementsType
          DEF Compiled, FunctionName, Statement, FunctionStatement, ClassStatement, OtherStatement
        <5>3. CASE i \notin Classes /\ Statements[i].kind # "function"
          BY <5>3 DEF Compiled, Classes
        <5> QED BY <5>1, <5>2, <5>3
      <4> QED BY <4>1, NamesAssumption DEF CompiledNames, StartName, FunctionName
    <3>3. /\ UNCHANGED <<files, method, types, functions, isResolved>>
          /\ cursor' = 1 /\ pending' = <<>> /\ current' = <<>>
          /\ wasm' \subseteq FunctionName
          /\ error' \in Errors /\ ((pc' = "failed") <=> (error' # "none"))
          /\ pc' \in {"scan", "done", "failed"}
          /\ fileNo' \in Nat \ {0} /\ fileNo' \in DOMAIN files
      BY <2>8, <3>1, <3>2 DEF CompileFile, TypeOK, Raise, Errors
    <3> QED BY <3>3 DEF TypeOK
  <2>9. CASE UNCHANGED vars
    BY <2>9, SameFile DEF vars, loop, registry, TypeOK
  <2> QED BY <2>1, <2>2, <2>3, <2>4, <2>5, <2>6, <2>7, <2>8, <2>9 DEF Next
<1> QED BY <1>1, <1>2, PTL DEF Spec, Safe

-----------------------------------------------------------------------------
(* How a step changes the layouts: not at all, or by that of one class     *)
(* whose members' types are all known and which is not known itself.       *)
SameLayouts ==
  /\ DOMAIN types' = DOMAIN types
  /\ \A c \in DOMAIN types : types'[c].needs = types[c].needs
NewLayout(s) ==
  /\ s.name \notin KnownTypes
  /\ Needs(s) \subseteq KnownTypes
  /\ s.name \notin Needs(s)
  /\ DOMAIN types' = DOMAIN types \cup {s.name}
  /\ types'[s.name].needs = Needs(s)
  /\ \A c \in DOMAIN types : types'[c].needs = types[c].needs

LEMMA PrepareClassLayout ==
  ASSUME NEW i \in Classes, PrepareClass(Statements[i])
  PROVE  SameLayouts \/ NewLayout(Statements[i])
<1>1. CASE Registrable(Statements[i])
  BY <1>1 DEF PrepareClass, Registrable, KnownTypes, Emplace, Usable, Needs, NewLayout
<1>2. CASE ~Registrable(Statements[i])
  BY <1>2 DEF PrepareClass, SameLayouts
<1> QED BY <1>1, <1>2

LEMMA LayoutStep ==
  ASSUME TypeOK, [Next]_vars
  PROVE  SameLayouts \/ \E i \in Classes : NewLayout(Statements[i])
<1>1. CASE Scan
  <2>1. cursor \in DOMAIN Statements
    BY <1>1, StatementsType DEF Scan, TypeOK
  <2>2. CASE Statements[cursor].kind = "class"
    BY <1>1, <2>1, <2>2, PrepareClassLayout DEF Scan, PrepareOrDefer, Classes
  <2>3. CASE Statements[cursor].kind # "class"
    BY <1>1, <2>3 DEF Scan, registry, SameLayouts
  <2> QED BY <2>2, <2>3
<1>2. CASE Retry
  <2>1. current[cursor] \in Classes
    BY <1>2, ElementType DEF Retry, TypeOK
  <2> QED BY <1>2, <2>1, PrepareClassLayout DEF Retry, PrepareOrDefer
<1>3. CASE Leftover
  <2>1. pending[cursor] \in Classes
    BY <1>3, ElementType DEF Leftover, TypeOK
  <2> QED BY <1>3, <2>1, PrepareClassLayout DEF Leftover
<1>4. CASE NextClass
  BY <1>4 DEF NextClass, SameLayouts, TypeOK, ClassEntry
<1>5. CASE ~(Scan \/ Retry \/ Leftover \/ NextClass)
  <2>1. types' = types
    BY <1>5 DEF Next, ScanEnds, PassBegins, PassEnds, WhileEnds, LeftoverEnds, PrepareFunctions,
                FunctionsEnd, PrepareMethod, MethodsEnd, CompileFile, Goto, registry, vars
  <2> QED BY <2>1 DEF SameLayouts
<1> QED BY <1>1, <1>2, <1>3, <1>4, <1>5

(* The two facts about the type table are inductive together.              *)
LEMMA LayoutsKept == Spec => [](LayoutClosed /\ LayoutWellFounded)
<1>1. Init => LayoutClosed /\ LayoutWellFounded
  BY DEF Init, EmptyMap, LayoutClosed, LayoutWellFounded
<1>2. ASSUME TypeOK, LayoutClosed, LayoutWellFounded, [Next]_vars
      PROVE  LayoutClosed' /\ LayoutWellFounded'
  <2>1. CASE SameLayouts
    BY <1>2, <2>1 DEF SameLayouts, LayoutClosed, LayoutWellFounded, KnownTypes
  <2>2. ASSUME NEW i \in Classes, NewLayout(Statements[i])
        PROVE  LayoutClosed' /\ LayoutWellFounded'
    <3> DEFINE n == Statements[i].name
    <3>1. LayoutClosed'
      BY <1>2, <2>2 DEF NewLayout, LayoutClosed, KnownTypes
    <3>2. ASSUME NEW S \in SUBSET DOMAIN types', S # {}
          PROVE  \E c \in S : types'[c].needs \cap S = {}
      <4>1. CASE S \ {n} = {}
        <5>1. S = {n}
          BY <3>2, <4>1
        <5> QED BY <2>2, <5>1 DEF NewLayout
      <4>2. CASE S \ {n} # {}
        <5>1. S \ {n} \in SUBSET DOMAIN types
          BY <2>2, <3>2 DEF NewLayout
        <5>2. PICK c \in S \ {n} : types[c].needs \cap (S \ {n}) = {}
          BY <1>2, <4>2, <5>1 DEF LayoutWellFounded
        <5>3. n \notin types[c].needs
          BY <1>2, <2>2, <5>1 DEF NewLayout, LayoutClosed
        <5> QED BY <2>2, <5>1, <5>2, <5>3 DEF NewLayout
      <4> QED BY <4>1, <4>2
    <3> QED BY <3>1, <3>2 DEF LayoutWellFounded
  <2> QED BY <1>2, <2>1, <2>2, LayoutStep
<1> QED BY <1>1, <1>2, TypeCorrect, PTL DEF Spec, Safe

(* A class in the type table only has members of types that are in it      *)
(* (prepareClassStatementLevel1 and findVariantType).                      *)
THEOREM LayoutsAreClosed == Spec => []LayoutClosed
BY LayoutsKept, PTL

(* No set of classes in the type table is cyclic, although only direct     *)
(* recursion is looked for: underlyingTypes() ends for every program.      *)
THEOREM LayoutsAreFinite == Spec => []LayoutWellFounded
BY LayoutsKept, PTL

-----------------------------------------------------------------------------
(* The pending lists.  What keeps them right: they are in source order, a  *)
(* pass that laid out nothing leaves every class it saw blocked, and the   *)
(* uncaught attempts begin with nothing pending or after such a pass.      *)
LeftoverFirst ==
  pc = "leftover" => cursor = 1 /\ (pending = <<>> \/ ~isResolved)
Bookkeeping == SourceOrder /\ StuckWhenNoProgress /\ LeftoverFirst

(* The three ways an attempt at a class ends. *)
LaidOut(i) ==
  /\ ClassError(Statements[i]) = "none"
  /\ NewLayout(Statements[i])
  /\ DOMAIN functions' = DOMAIN functions \cup {<<NoClass, Statements[i].name>>}
  /\ UNCHANGED pc
Deferred(i) ==
  /\ ClassError(Statements[i]) = "UnknownSymbol"
  /\ ~(Needs(Statements[i]) \subseteq KnownTypes)
  /\ UNCHANGED registry

LEMMA Attempt ==
  ASSUME NEW i \in Classes, PrepareClass(Statements[i])
  PROVE  /\ ClassError(Statements[i]) = "none" =>
              /\ Registrable(Statements[i])
              /\ NewLayout(Statements[i])
              /\ DOMAIN functions' = DOMAIN functions \cup {<<NoClass, Statements[i].name>>}
         /\ ClassError(Statements[i]) = "UnknownSymbol" =>
              /\ ~(Needs(Statements[i]) \subseteq KnownTypes)
              /\ UNCHANGED registry
<1> DEFINE s == Statements[i]
<1>1. ClassError(s) = "none" => Registrable(s)
  BY DEF ClassError
<1>2. ClassError(s) = "UnknownSymbol" => UnknownFirst(s) /\ ~Registrable(s)
  <2>1. UnknownFirst(s) => ~Registrable(s)
    BY DEF UnknownFirst, FirstUnusable, Registrable
  <2> QED BY <2>1 DEF ClassError
<1>3. UnknownFirst(s) => ~(Needs(s) \subseteq KnownTypes)
  BY DEF UnknownFirst, FirstUnusable, Usable, Needs
<1>4. Registrable(s) => NewLayout(s)
  BY DEF PrepareClass, Registrable, KnownTypes, Emplace, Usable, Needs, NewLayout
<1> QED BY <1>1, <1>2, <1>3, <1>4 DEF PrepareClass, Emplace, registry

LEMMA AttemptOrDefer ==
  ASSUME pc # "failed", NEW i \in Classes, PrepareOrDefer(i)
  PROVE  \/ LaidOut(i) /\ UNCHANGED pending
         \/ Deferred(i) /\ pending' = Append(pending, i) /\ UNCHANGED pc
         \/ pc' = "failed"
BY Attempt DEF PrepareOrDefer, Raise, LaidOut, Deferred

LEMMA SameError ==
  ASSUME UNCHANGED <<files, fileNo, types, functions>>, NEW i
  PROVE  ClassError(Statements[i])' = ClassError(Statements[i])
BY DEF Statements, ClassError, UnknownFirst, RecursiveFirst, FirstUnusable, Usable, Registrable,
       NoDefaultValue, Leaves, LeavesOf, Redefines, SymbolsOf, KnownTypes, Needs

LEMMA AppendIndex ==
  ASSUME NEW S, NEW q \in Seq(S), NEW e \in S
  PROVE  /\ DOMAIN Append(q, e) = 1..(Len(q) + 1)
         /\ DOMAIN q = 1..Len(q) /\ Len(q) \in Nat
         /\ \A i \in 1..Len(q) : Append(q, e)[i] = q[i]
         /\ Append(q, e)[Len(q) + 1] = e
OBVIOUS

LEMMA RangeAppend ==
  ASSUME NEW S, NEW q \in Seq(S), NEW e \in S
  PROVE  Range(Append(q, e)) = Range(q) \cup {e}
<1>1. ASSUME NEW x PROVE x \in Range(Append(q, e)) <=> x \in Range(q) \cup {e}
  BY AppendIndex DEF Range
<1> QED BY <1>1

LEMMA ScanClass ==
  ASSUME TypeOK, Scan
  PROVE  /\ pc = "scan" /\ cursor \in DOMAIN Statements
         /\ Statements[cursor].kind = "class" => cursor \in Classes /\ PrepareOrDefer(cursor)
BY StatementsType DEF Scan, TypeOK, Classes

LEMMA RetryClass ==
  ASSUME TypeOK, Retry
  PROVE  /\ pc = "pass" /\ cursor \in DOMAIN current
         /\ current[cursor] \in Classes /\ PrepareOrDefer(current[cursor])
<1>1. pc = "pass" /\ cursor \in DOMAIN current
  BY DEF Retry, TypeOK
<1> QED BY <1>1, ElementType DEF Retry, TypeOK

LEMMA AscendingAppend ==
  ASSUME NEW S \in SUBSET Nat, NEW q \in Seq(S), NEW e \in S,
         \A i, j \in DOMAIN q : i < j => q[i] < q[j],
         \A i \in DOMAIN q : q[i] < e
  PROVE  /\ \A i, j \in DOMAIN Append(q, e) : i < j => Append(q, e)[i] < Append(q, e)[j]
         /\ \A i \in DOMAIN Append(q, e) : Append(q, e)[i] <= e
<1> DEFINE a == Append(q, e)
<1>1. \A i \in 1..(Len(q) + 1) : i = Len(q) + 1 \/ i \in 1..Len(q)
  BY AppendIndex
<1>2. ASSUME NEW i \in DOMAIN a, NEW j \in DOMAIN a, i < j
      PROVE  a[i] < a[j]
  <2>1. i \in 1..Len(q) /\ a[i] = q[i]
    BY <1>2, AppendIndex
  <2>2. CASE j \in 1..Len(q)
    BY <1>2, <2>1, <2>2, AppendIndex
  <2>3. CASE j = Len(q) + 1
    BY <2>1, <2>3, AppendIndex
  <2> QED BY <1>1, <2>2, <2>3, AppendIndex
<1>3. ASSUME NEW i \in DOMAIN a PROVE a[i] <= e
  <2>1. CASE i \in 1..Len(q)
    <3>1. i \in DOMAIN q /\ a[i] = q[i]
      BY <2>1, AppendIndex
    <3>2. q[i] \in Nat /\ e \in Nat /\ q[i] < e
      BY <3>1, ElementType
    <3> QED BY <3>1, <3>2
  <2>2. CASE i = Len(q) + 1
    BY <2>2, AppendIndex
  <2> QED BY <1>1, <2>1, <2>2, AppendIndex
<1> QED BY <1>2, <1>3

LEMMA SourceOrderStep ==
  ASSUME TypeOK, SourceOrder, [Next]_vars
  PROVE  SourceOrder'
<1> USE DEF SourceOrder
<1>0. pc # "done" =>
        /\ pending \in Seq(Classes) /\ current \in Seq(Classes)
        /\ Classes \subseteq Nat
  BY StatementsType DEF Classes, TypeOK
<1>1. CASE Scan
  <2>1. cursor \in Nat /\ cursor' = cursor + 1 /\ current' = current /\ pc = "scan"
        /\ pc' \in {"scan", "failed"}
    BY <1>1 DEF Scan, TypeOK, PrepareOrDefer, Raise
  <2>2. CASE pending' = pending
    BY <1>0, <2>1, <2>2, ElementType
  <2>3. CASE pending' = Append(pending, cursor) /\ cursor \in Classes
    <3>1. /\ \A i, j \in DOMAIN pending' : i < j => pending'[i] < pending'[j]
          /\ \A i \in DOMAIN pending' : pending'[i] <= cursor
      BY <1>0, <2>1, <2>3, AscendingAppend
    <3>2. \A i \in DOMAIN pending' : pending'[i] \in Nat
      <4>1. pending' \in Seq(Classes)
        BY <1>0, <2>1, <2>3
      <4> QED BY <1>0, <2>1, <4>1, ElementType
    <3> QED BY <2>1, <3>1, <3>2
  <2> QED BY <1>1, <2>2, <2>3, ScanClass DEF Scan, PrepareOrDefer
<1>2. CASE Retry
  <2> DEFINE p == current[cursor]
  <2>1. /\ pc = "pass" /\ cursor \in DOMAIN current /\ p \in Classes
        /\ cursor' = cursor + 1 /\ current' = current
        /\ pc' \in {"pass", "failed"}
    BY <1>2, RetryClass DEF Retry, PrepareOrDefer, Raise
  <2>2. \A j \in DOMAIN current : current[j] \in Nat /\ j \in Nat
    BY <1>0, <2>1, ElementType
  <2>3. cursor \in Nat /\ Len(current) \in Nat /\ DOMAIN current = 1..Len(current)
    BY <1>0, <2>1
  <2>4. CASE pending' = pending
    BY <2>1, <2>2, <2>3, <2>4
  <2>5. CASE pending' = Append(pending, p)
    <3>1. /\ \A i, j \in DOMAIN pending' : i < j => pending'[i] < pending'[j]
          /\ \A i \in DOMAIN pending' : pending'[i] <= p
      <4>1. cursor \in cursor..Len(current)
        BY <2>1, <2>3
      <4>2. \A i \in DOMAIN pending : pending[i] < p
        BY <2>1, <4>1
      <4>3. \A i, j \in DOMAIN pending : i < j => pending[i] < pending[j]
        OBVIOUS
      <4> QED BY <1>0, <2>1, <2>5, <4>2, <4>3, AscendingAppend
    <3>2. \A i \in DOMAIN pending' : pending'[i] \in Nat
      <4>1. pending' \in Seq(Classes)
        BY <1>0, <2>1, <2>5
      <4> QED BY <1>0, <2>1, <4>1, ElementType
    <3>3. \A j \in (cursor + 1)..Len(current) : p < current[j]
      BY <2>1, <2>3
    <3> QED BY <2>1, <2>2, <2>3, <3>1, <3>2, <3>3
  <2> QED BY <2>4, <2>5, <1>2, RetryClass DEF PrepareOrDefer
<1>3. CASE PassBegins
  BY <1>0, <1>3 DEF PassBegins, Goto
<1>4. CASE CompileFile
  BY <1>4 DEF CompileFile, Raise
<1>5. CASE ~(Scan \/ Retry \/ PassBegins \/ CompileFile)
  BY <1>5 DEF Next, ScanEnds, PassEnds, WhileEnds, Leftover, LeftoverEnds, PrepareFunctions,
              FunctionsEnd, PrepareMethod, NextClass, MethodsEnd, Goto, vars, loop, Raise,
              PrepareFunction
<1> QED BY <1>1, <1>2, <1>3, <1>4, <1>5

(* The first uncaught attempt throws.                                      *)
LEMMA LeftoverThrows ==
  ASSUME TypeOK, StuckWhenNoProgress, LeftoverFirst, Leftover
  PROVE  /\ pc' = "failed" /\ error' = "UnknownSymbol"
         /\ UNCHANGED registry
<1>1. /\ pc = "leftover" /\ cursor = 1 /\ 1 \in DOMAIN pending
      /\ pending[1] \in Classes /\ ~isResolved
  BY ElementType DEF Leftover, TypeOK, LeftoverFirst
<1>2. ClassError(Statements[pending[1]]) = "UnknownSymbol"
  BY <1>1 DEF StuckWhenNoProgress, Range
<1>3. PrepareClass(Statements[pending[1]]) /\ Raise("UnknownSymbol")
  BY <1>1, <1>2 DEF Leftover
<1> QED BY <1>1, <1>2, <1>3, Attempt DEF Raise

LEMMA StuckStep ==
  ASSUME TypeOK, StuckWhenNoProgress, LeftoverFirst, [Next]_vars
  PROVE  StuckWhenNoProgress'
<1> USE DEF StuckWhenNoProgress
<1>1. CASE Retry
  <2> DEFINE p == current[cursor]
  <2>1. pc = "pass" /\ p \in Classes /\ PrepareOrDefer(p) /\ UNCHANGED <<files, fileNo>>
    BY <1>1, RetryClass DEF Retry
  <2>2. CASE LaidOut(p)
    BY <1>1, <2>2 DEF LaidOut, Retry
  <2>3. CASE Deferred(p) /\ pending' = Append(pending, p) /\ pc' = pc
    <3>1. UNCHANGED <<files, fileNo, types, functions>>
      BY <2>1, <2>3 DEF Deferred, registry
    <3>2. pending \in Seq(Classes)
      BY <2>1 DEF TypeOK
    <3>3. Range(pending') = Range(pending) \cup {p}
      BY <2>1, <2>3, <3>2, RangeAppend
    <3>4. isResolved' = isResolved
      BY <1>1, <2>3 DEF Retry, Deferred, TypeOK
    <3> QED BY <2>1, <2>3, <3>1, <3>3, <3>4, SameError DEF Deferred
  <2>4. CASE pc' = "failed"
    BY <2>4
  <2> QED BY <2>1, <2>2, <2>3, <2>4, AttemptOrDefer
<1>2. CASE PassBegins
  <2>1. Range(<<>>) = {}
    BY DEF Range
  <2> QED BY <1>2, <2>1 DEF PassBegins
<1>3. CASE PassEnds \/ WhileEnds
  <2>1. /\ UNCHANGED <<files, fileNo, types, functions, pending, isResolved>>
        /\ pc \in {"pass", "while"}
    BY <1>3 DEF PassEnds, WhileEnds, Goto, registry
  <2> QED BY <2>1, SameError
<1>4. CASE UNCHANGED vars
  <2>1. UNCHANGED <<files, fileNo, types, functions, pending, isResolved, pc>>
    BY <1>4 DEF vars, loop, registry
  <2> QED BY <2>1, SameError
<1>5. CASE Leftover
  BY <1>5, LeftoverThrows
<1>6. CASE ~(Retry \/ PassBegins \/ PassEnds \/ WhileEnds \/ Leftover \/ UNCHANGED vars)
  <2>1. pc' \notin {"pass", "while", "leftover"} \/ isResolved'
    BY <1>6 DEF Next, Scan, ScanEnds, LeftoverEnds, PrepareFunctions, FunctionsEnd, PrepareMethod,
                NextClass, MethodsEnd, CompileFile, Goto, Raise, PrepareOrDefer, PrepareFunction
  <2> QED BY <2>1
<1> QED BY <1>1, <1>2, <1>3, <1>4, <1>5, <1>6

LEMMA LeftoverFirstStep ==
  ASSUME TypeOK, StuckWhenNoProgress, LeftoverFirst, [Next]_vars
  PROVE  LeftoverFirst'
<1>1. CASE Leftover
  BY <1>1, LeftoverThrows DEF LeftoverFirst
<1>2. CASE WhileEnds
  BY <1>2 DEF WhileEnds, Goto, LeftoverFirst, TypeOK
<1>3. CASE UNCHANGED vars
  BY <1>3 DEF vars, loop, LeftoverFirst
<1>4. CASE ~(Leftover \/ WhileEnds \/ UNCHANGED vars)
  <2>1. pc' # "leftover"
    BY <1>4 DEF Next, Scan, ScanEnds, PassBegins, Retry, PassEnds, LeftoverEnds, PrepareFunctions,
                FunctionsEnd, PrepareMethod, NextClass, MethodsEnd, CompileFile, Goto, Raise,
                PrepareOrDefer, PrepareFunction
  <2> QED BY <2>1 DEF LeftoverFirst
<1> QED BY <1>1, <1>2, <1>3, <1>4

(* The three facts about the pending lists are inductive together.         *)
LEMMA BookkeepingKept == Spec => []Bookkeeping
<1>1. Init => Bookkeeping
  BY DEF Init, Bookkeeping, SourceOrder, StuckWhenNoProgress, LeftoverFirst
<1>2. ASSUME TypeOK, Bookkeeping, [Next]_vars PROVE Bookkeeping'
  BY <1>2, SourceOrderStep, StuckStep, LeftoverFirstStep DEF Bookkeeping
<1> QED BY <1>1, <1>2, TypeCorrect, PTL DEF Spec, Safe

(* The lists hold the waiting classes in source order, so the first class  *)
(* that cannot be laid out is the one that is reported.                    *)
THEOREM PendingInOrder == Spec => []SourceOrder
<1>1. Bookkeeping => SourceOrder
  BY DEF Bookkeeping
<1> QED BY <1>1, BookkeepingKept, PTL

(* The loop over the pending classes stops only when it is done or when no *)
(* class it still has can be laid out.                                     *)
THEOREM StopsOnlyWhenStuck == Spec => []StuckWhenNoProgress
<1>1. Bookkeeping => StuckWhenNoProgress
  BY DEF Bookkeeping
<1> QED BY <1>1, BookkeepingKept, PTL

-----------------------------------------------------------------------------
(* Which classes wait for their layout, and how a step that does not throw *)
(* changes that: it lays out one of them, or none.                         *)
KeepsWaiting ==
  /\ Waiting' = Waiting
  /\ SameLayouts
  /\ DOMAIN functions \subseteq DOMAIN functions'

LEMMA WaitingIn ==
  /\ pc = "scan" => Waiting = Range(pending) \cup {i \in Classes : i >= cursor}
  /\ pc = "pass" => Waiting = Range(pending) \cup {current[i] : i \in cursor..Len(current)}
  /\ pc \in {"while", "leftover"} => Waiting = Range(pending)
  /\ pc \notin {"scan", "pass", "while", "leftover"} => Waiting = {}
BY DEF Waiting

LEMMA WaitingInNext ==
  /\ pc' = "scan" => Waiting' = Range(pending') \cup {i \in Classes' : i >= cursor'}
  /\ pc' = "pass" => Waiting' = Range(pending') \cup {current'[i] : i \in cursor'..Len(current')}
  /\ pc' \in {"while", "leftover"} => Waiting' = Range(pending')
  /\ pc' \notin {"scan", "pass", "while", "leftover"} => Waiting' = {}
BY DEF Waiting

LEMMA ScanWaiting ==
  ASSUME TypeOK, SourceOrder, Scan, pc' # "failed"
  PROVE  KeepsWaiting \/ \E i \in Waiting \cap Classes : LaidOut(i) /\ Waiting' = Waiting \ {i}
<1>1. /\ pc = "scan" /\ pc' = "scan" /\ cursor \in Nat /\ cursor' = cursor + 1
      /\ UNCHANGED <<files, fileNo>> /\ pending \in Seq(Classes)
  BY DEF Scan, TypeOK, PrepareOrDefer, Raise
<1>2. Classes' = Classes /\ Classes \subseteq Nat
  BY <1>1, SameFile, StatementsType DEF Classes
<1>3. {i \in Classes : i >= cursor + 1} = {i \in Classes : i >= cursor} \ {cursor}
  <2>1. \A i \in Nat : i >= cursor + 1 <=> (i >= cursor /\ i # cursor)
    BY <1>1
  <2> QED BY <1>2, <2>1
<1>4. cursor \notin Range(pending)
  BY <1>1, <1>2, ElementType DEF SourceOrder, Range
<1>5. CASE Statements[cursor].kind # "class"
  <2>1. UNCHANGED <<pending, types, functions>> /\ cursor \notin Classes
    BY <1>5 DEF Scan, registry, Classes
  <2>2. Waiting' = Range(pending) \cup {i \in Classes : i >= cursor + 1}
    BY <1>1, <1>2, <2>1, WaitingInNext
  <2>3. Waiting' = Waiting
    BY <1>1, <1>3, <2>1, <2>2, WaitingIn
  <2> QED BY <2>1, <2>3 DEF KeepsWaiting, SameLayouts
<1>6. CASE Statements[cursor].kind = "class"
  <2>1. cursor \in Classes /\ PrepareOrDefer(cursor)
    BY <1>6, ScanClass
  <2>2. cursor \in Waiting
    BY <1>1, <1>2, <2>1, WaitingIn
  <2>3. CASE LaidOut(cursor) /\ pending' = pending
    <3>1. Waiting' = Waiting \ {cursor}
      BY <1>1, <1>2, <1>3, <1>4, <2>3, WaitingIn, WaitingInNext
    <3> QED BY <2>1, <2>2, <2>3, <3>1
  <2>4. CASE Deferred(cursor) /\ pending' = Append(pending, cursor)
    <3>1. Range(pending') = Range(pending) \cup {cursor}
      BY <1>1, <2>1, <2>4, RangeAppend
    <3>2. Waiting' = Range(pending) \cup {cursor} \cup {i \in Classes : i >= cursor + 1}
      BY <1>1, <1>2, <3>1, WaitingInNext
    <3>3. Waiting = Range(pending) \cup {i \in Classes : i >= cursor}
      BY <1>1, WaitingIn
    <3>4. cursor \in {i \in Classes : i >= cursor}
      BY <1>1, <2>1
    <3>5. Waiting' = Waiting
      BY <1>3, <3>2, <3>3, <3>4
    <3> QED BY <2>4, <3>5 DEF KeepsWaiting, SameLayouts, Deferred, registry
  <2> QED BY <1>1, <2>1, <2>3, <2>4, AttemptOrDefer
<1> QED BY <1>5, <1>6

LEMMA RetryWaiting ==
  ASSUME TypeOK, SourceOrder, Retry, pc' # "failed"
  PROVE  KeepsWaiting \/ \E i \in Waiting \cap Classes : LaidOut(i) /\ Waiting' = Waiting \ {i}
<1> DEFINE p == current[cursor]
           rest(c) == {current[i] : i \in c..Len(current)}
<1>1. /\ pc = "pass" /\ pc' = "pass" /\ cursor' = cursor + 1 /\ current' = current
      /\ UNCHANGED <<files, fileNo>>
      /\ pending \in Seq(Classes) /\ current \in Seq(Classes)
      /\ p \in Classes /\ PrepareOrDefer(p)
      /\ cursor \in Nat /\ cursor \in 1..Len(current) /\ Len(current) \in Nat
  BY RetryClass DEF Retry, TypeOK, PrepareOrDefer, Raise
<1>2. Classes \subseteq Nat
  BY <1>1, StatementsType DEF Classes
<1>3. \A i \in 1..Len(current) : current[i] \in Nat
  <2>1. DOMAIN current = 1..Len(current) /\ \A i \in DOMAIN current : current[i] \in Classes
    BY <1>1, ElementType
  <2> QED BY <1>2, <2>1
<1>4. rest(cursor) = rest(cursor + 1) \cup {p}
  <2>1. \A i : i \in cursor..Len(current) <=> (i = cursor \/ i \in (cursor + 1)..Len(current))
    BY <1>1
  <2> QED BY <2>1
<1>5. p \notin rest(cursor + 1) /\ p \notin Range(pending)
  <2>1. \A i \in (cursor + 1)..Len(current) : p < current[i]
    BY <1>1 DEF SourceOrder
  <2>2. p \notin rest(cursor + 1)
    BY <1>1, <1>3, <2>1
  <2>3. \A i \in DOMAIN pending : pending[i] < p /\ pending[i] \in Nat
    <3>1. \A i \in DOMAIN pending : pending[i] \in Classes
      BY <1>1, ElementType
    <3>2. cursor \in cursor..Len(current)
      BY <1>1
    <3> QED BY <1>1, <1>2, <3>1, <3>2 DEF SourceOrder
  <2>4. p \notin Range(pending)
    BY <1>1, <1>2, <2>3 DEF Range
  <2> QED BY <2>2, <2>4
<1>6. /\ Waiting = Range(pending) \cup rest(cursor)
      /\ Waiting' = Range(pending') \cup rest(cursor + 1)
  BY <1>1, WaitingIn, WaitingInNext
<1>7. CASE LaidOut(p) /\ pending' = pending
  BY <1>1, <1>4, <1>5, <1>6, <1>7
<1>8. CASE Deferred(p) /\ pending' = Append(pending, p)
  <2>1. Range(pending') = Range(pending) \cup {p}
    BY <1>1, <1>8, RangeAppend
  <2>2. Waiting' = Waiting
    BY <1>4, <1>6, <2>1
  <2> QED BY <1>8, <2>2 DEF KeepsWaiting, SameLayouts, Deferred, registry
<1> QED BY <1>1, <1>7, <1>8, AttemptOrDefer

LEMMA LoopWaiting ==
  ASSUME TypeOK, LeftoverFirst,
         ScanEnds \/ PassBegins \/ PassEnds \/ WhileEnds \/ LeftoverEnds
  PROVE  KeepsWaiting /\ UNCHANGED <<files, fileNo>>
<1>1. UNCHANGED <<files, fileNo, types, functions>> /\ Classes' = Classes /\ cursor' = 1
  BY SameFile
  DEF ScanEnds, PassBegins, PassEnds, WhileEnds, LeftoverEnds, Goto, registry
<1>2. Waiting' = Waiting
  <2>1. CASE ScanEnds
    <3>1. {i \in Classes : i >= cursor} = {}
      BY <2>1, StatementsType DEF ScanEnds, Classes, TypeOK
    <3> QED BY <2>1, <3>1, WaitingIn, WaitingInNext DEF ScanEnds, Goto
  <2>2. CASE PassBegins
    <3>1. pending \in Seq(Classes)
      BY <2>2 DEF PassBegins, TypeOK
    <3>2. Range(<<>>) = {} /\ Range(pending) = {pending[i] : i \in 1..Len(pending)}
      BY <3>1 DEF Range
    <3> QED BY <1>1, <2>2, <3>2, WaitingIn, WaitingInNext DEF PassBegins, Goto
  <2>3. CASE PassEnds
    <3>1. cursor..Len(current) = {}
      BY <2>3 DEF PassEnds, TypeOK
    <3> QED BY <2>3, <3>1, WaitingIn, WaitingInNext DEF PassEnds, Goto
  <2>4. CASE WhileEnds
    BY <2>4, WaitingIn, WaitingInNext DEF WhileEnds, Goto
  <2>5. CASE LeftoverEnds
    <3>1. pending = <<>>
      BY <2>5 DEF LeftoverEnds, LeftoverFirst, TypeOK
    <3>2. Range(<<>>) = {}
      BY DEF Range
    <3> QED BY <2>5, <3>1, <3>2, WaitingIn, WaitingInNext DEF LeftoverEnds, Goto
  <2> QED BY <2>1, <2>2, <2>3, <2>4, <2>5
<1> QED BY <1>1, <1>2 DEF KeepsWaiting, SameLayouts

Signatures ==
  PrepareFunctions \/ FunctionsEnd \/ PrepareMethod \/ NextClass \/ MethodsEnd

LEMMA SignaturesWaiting ==
  ASSUME TypeOK, Signatures
  PROVE  /\ KeepsWaiting /\ UNCHANGED <<files, fileNo>>
         /\ Waiting = {} /\ pc \in {"functions", "methods"}
<1>1. /\ UNCHANGED <<files, fileNo>>
      /\ pc \in {"functions", "methods"}
      /\ pc' \in {"functions", "methods", "compile", "failed"}
  BY DEF Signatures, PrepareFunctions, FunctionsEnd, PrepareMethod, NextClass, MethodsEnd, Goto,
         PrepareFunction, Raise
<1>2. Waiting' = Waiting /\ Waiting = {}
  BY <1>1, WaitingIn, WaitingInNext
<1>3. SameLayouts
  <2>1. CASE NextClass
    BY <2>1 DEF NextClass, SameLayouts, TypeOK, ClassEntry
  <2>2. CASE ~NextClass
    BY <2>2 DEF Signatures, PrepareFunctions, FunctionsEnd, PrepareMethod, MethodsEnd, Goto,
                registry, SameLayouts
  <2> QED BY <2>1, <2>2
<1>4. DOMAIN functions \subseteq DOMAIN functions'
  BY DEF Signatures, PrepareFunctions, FunctionsEnd, PrepareMethod, NextClass, MethodsEnd, Goto,
         registry, PrepareFunction, Emplace
<1> QED BY <1>1, <1>2, <1>3, <1>4 DEF KeepsWaiting

LEMMA WaitingStep ==
  ASSUME TypeOK, Bookkeeping, Next, ~CompileFile, pc' # "failed"
  PROVE  /\ UNCHANGED <<files, fileNo>>
         /\ KeepsWaiting \/ \E i \in Waiting \cap Classes : LaidOut(i) /\ Waiting' = Waiting \ {i}
<1>1. CASE Scan
  BY <1>1, ScanWaiting DEF Bookkeeping, Scan
<1>2. CASE Retry
  BY <1>2, RetryWaiting DEF Bookkeeping, Retry
<1>3. CASE Leftover
  BY <1>3, LeftoverThrows DEF Bookkeeping
<1>4. CASE ScanEnds \/ PassBegins \/ PassEnds \/ WhileEnds \/ LeftoverEnds
  BY <1>4, LoopWaiting DEF Bookkeeping
<1>5. CASE Signatures
  BY <1>5, SignaturesWaiting
<1> QED BY <1>1, <1>2, <1>3, <1>4, <1>5 DEF Next, Signatures

LEMMA ClassesKept == Spec => [](NoClassLost /\ SignaturesSeeEveryClass)
<1>1. Init => NoClassLost
  <2> SUFFICES ASSUME Init, pc # "done" PROVE \A i \in Classes : i \in Waiting
    BY DEF Init, NoClassLost
  <2>1. pc = "scan" /\ cursor = 1 /\ files \in Seq(Seq(Statement)) /\ fileNo \in DOMAIN files
    BY ProgramsAssumption DEF Init, Files
  <2>2. Classes \subseteq Nat \ {0}
    BY <2>1 DEF Classes, Statements
  <2> QED BY <2>1, <2>2, WaitingIn
<1>2. ASSUME TypeOK, Bookkeeping, NoClassLost, [Next]_vars PROVE NoClassLost'
  <2>1. CASE UNCHANGED vars
    BY <1>2, <2>1 DEF vars, loop, registry, NoClassLost, Waiting, Classes, Statements, Needs
  <2>2. CASE Next /\ pc' = "failed"
    BY <2>2 DEF NoClassLost
  <2>3. CASE CompileFile /\ pc' # "failed"
    <3>1. pc' = "done" \/ (pc' = "scan" /\ cursor' = 1 /\ fileNo' = fileNo + 1 /\ files' = files
                           /\ fileNo' \in 1..Len(files))
      BY <1>2, <2>3 DEF CompileFile, TypeOK, Raise
    <3>2. CASE pc' = "scan"
      <4>1. Statements' \in Seq(Statement)
        BY <1>2, <3>1, <3>2 DEF Statements, TypeOK, Files
      <4>2. \A i \in Classes' : i \in Waiting'
        BY <3>1, <3>2, <4>1, WaitingInNext DEF Classes
      <4> QED BY <4>2 DEF NoClassLost
    <3> QED BY <3>1, <3>2 DEF NoClassLost
  <2>4. CASE Next /\ ~CompileFile /\ pc' # "failed"
    <3>1. /\ UNCHANGED <<files, fileNo>>
          /\ KeepsWaiting \/ \E i \in Waiting \cap Classes : LaidOut(i) /\ Waiting' = Waiting \ {i}
      BY <1>2, <2>4, WaitingStep
    <3>2. Classes' = Classes /\ Statements' = Statements
      BY <3>1, SameFile
    <3>3. pc \notin {"done", "failed"}
      BY <2>4 DEF Next, Scan, ScanEnds, PassBegins, Retry, PassEnds, WhileEnds, Leftover,
                  LeftoverEnds, PrepareFunctions, FunctionsEnd, PrepareMethod, NextClass, MethodsEnd
    <3>4. CASE KeepsWaiting
      BY <1>2, <3>2, <3>3, <3>4 DEF NoClassLost, KeepsWaiting, SameLayouts, Needs
    <3>5. ASSUME NEW i \in Waiting \cap Classes, LaidOut(i), Waiting' = Waiting \ {i}
          PROVE  NoClassLost'
      BY <1>2, <3>2, <3>3, <3>5 DEF NoClassLost, LaidOut, NewLayout, Needs
    <3> QED BY <3>1, <3>4, <3>5
  <2> QED BY <1>2, <2>1, <2>2, <2>3, <2>4
<1>3. NoClassLost => SignaturesSeeEveryClass
  BY WaitingIn DEF NoClassLost, SignaturesSeeEveryClass
<1> QED BY <1>1, <1>2, <1>3, TypeCorrect, BookkeepingKept, PTL DEF Spec, Safe

(* Every class of the file either still waits or has the layout its own    *)
(* declaration says, and its constructor (the lists of compile()).         *)
THEOREM NoClassIsLost == Spec => []NoClassLost
BY ClassesKept, PTL

(* Signatures and bodies, which are looked at when no class waits, see     *)
(* every class of the file (the assert of prepareClassStatementLevel2).    *)
THEOREM SignaturesAreLate == Spec => []SignaturesSeeEveryClass
BY ClassesKept, PTL

-----------------------------------------------------------------------------
(* Refinement of the abstract specification.                               *)
LEMMA UnusableHasFirst ==
  ASSUME NEW s \in ClassStatement, ~(\A i \in DOMAIN s.members : Usable(s, i))
  PROVE  \E i \in DOMAIN s.members : FirstUnusable(s, i)
<1> DEFINE U == {i \in DOMAIN s.members : ~Usable(s, i)}
<1>1. DOMAIN s.members \subseteq Nat
  BY DEF ClassStatement
<1>2. PICK i \in U : \A j \in U : i <= j
  BY <1>1, LeastElement
<1> QED BY <1>1, <1>2 DEF FirstUnusable

(* A class is refused for something its declaration says, or after its     *)
(* layout has been found.                                                  *)
LEMMA RefusalReason ==
  ASSUME TypeOK, pc # "done", NEW i \in Classes, PrepareClass(Statements[i]),
         ClassError(Statements[i]) \notin {"none", "UnknownSymbol"}
  PROVE  \/ /\ Redefines(Statements[i]) \/ Statements[i].name \in KnownTypes \cup Needs(Statements[i])
            /\ KnownTypes' = KnownTypes
         \/ /\ NewLayout(Statements[i]) /\ ~Redefines(Statements[i])
<1> DEFINE s == Statements[i]
<1>1. CASE Registrable(s)
  BY <1>1, PrepareClassLayout DEF PrepareClass, Registrable, KnownTypes, Emplace, Usable, Needs, NewLayout
<1>2. CASE ~Registrable(s)
  <2>1. KnownTypes' = KnownTypes
    BY <1>2 DEF PrepareClass, KnownTypes
  <2>2. ~UnknownFirst(s)
    <3>1. s \in ClassStatement
      BY ClassType
    <3>2. DOMAIN s.members \subseteq Nat
      BY <3>1 DEF ClassStatement
    <3>3. UnknownFirst(s) => ~RecursiveFirst(s)
      BY <3>2 DEF UnknownFirst, RecursiveFirst, FirstUnusable
    <3>4. UnknownFirst(s) => ClassError(s) = "UnknownSymbol"
      BY <1>2, <3>3 DEF ClassError
    <3> QED BY <3>4
  <2>3. CASE \A j \in DOMAIN s.members : Usable(s, j)
    BY <1>2, <2>1, <2>3 DEF Registrable
  <2>4. CASE ~(\A j \in DOMAIN s.members : Usable(s, j))
    <3>1. PICK j \in DOMAIN s.members : FirstUnusable(s, j)
      BY <2>4, ClassType, UnusableHasFirst
    <3>2. Redefines(s) \/ s.name \in Needs(s)
      BY <2>2, <3>1 DEF UnknownFirst, Needs
    <3> QED BY <2>1, <3>2
  <2> QED BY <2>3, <2>4
<1> QED BY <1>1, <1>2

WaitingDeclarations == {Declaration(i) : i \in Waiting}

LEMMA WaitingMinus ==
  ASSUME Statements' = Statements, NEW i \in Waiting, Waiting' = Waiting \ {i}
  PROVE  WaitingDeclarations' = WaitingDeclarations \ {Declaration(i)}
<1>1. \A j, k : Declaration(j) = Declaration(k) => j = k
  BY DEF Declaration
<1>2. \A j : Declaration(j)' = Declaration(j)
  BY DEF Declaration, Needs, Redefines, SymbolsOf
<1> QED BY <1>1, <1>2 DEF WaitingDeclarations

LEMMA WaitingSame ==
  ASSUME Statements' = Statements, Waiting' = Waiting
  PROVE  WaitingDeclarations' = WaitingDeclarations
BY DEF WaitingDeclarations, Declaration, Needs, Redefines, SymbolsOf

AbstractStep == [Resolution!Next]_Resolution!vars

LEMMA LaysOutAbstractly ==
  ASSUME Verdict = "running", Verdict' = "running", Statements' = Statements,
         NEW i \in Waiting, NewLayout(Statements[i]), ~Redefines(Statements[i]),
         Waiting' = Waiting \ {i}
  PROVE  AbstractStep
<1>1. KnownTypes' = KnownTypes \cup {Statements[i].name}
  BY DEF NewLayout, KnownTypes
<1>2. Declaration(i) \in WaitingDeclarations
  BY DEF WaitingDeclarations
<1>3. Resolution!LayOut(Declaration(i))
  BY <1>1, WaitingMinus
  DEF Resolution!LayOut, Resolution!Ready, Resolution!AtFault, Declaration, NewLayout,
      WaitingDeclarations
<1> QED BY <1>2, <1>3 DEF AbstractStep, Resolution!Next, WaitingDeclarations

LEMMA RefusesAbstractly ==
  ASSUME TypeOK, Verdict = "running", Verdict' = "refused", NEW i \in Waiting \cap Classes,
         PrepareClass(Statements[i]), ClassError(Statements[i]) \notin {"none", "UnknownSymbol"}
  PROVE  AbstractStep
<1>0. pc # "done"
  BY DEF Verdict
<1>1. Declaration(i) \in WaitingDeclarations
  BY DEF WaitingDeclarations
<1>2. CASE /\ Redefines(Statements[i]) \/ Statements[i].name \in KnownTypes \cup Needs(Statements[i])
           /\ KnownTypes' = KnownTypes
  <2>1. Resolution!RefuseDeclaration(Declaration(i))
    BY <1>2 DEF Resolution!RefuseDeclaration, Resolution!AtFault, Declaration
  <2> QED BY <1>1, <2>1 DEF AbstractStep, Resolution!Next, WaitingDeclarations
<1>3. CASE NewLayout(Statements[i]) /\ ~Redefines(Statements[i])
  <2>1. KnownTypes' = KnownTypes \cup {Statements[i].name}
    BY <1>3 DEF NewLayout, KnownTypes
  <2>2. Resolution!RefuseLayout(Declaration(i))
    BY <1>3, <2>1
    DEF Resolution!RefuseLayout, Resolution!Ready, Resolution!AtFault, Declaration, NewLayout
  <2> QED BY <1>1, <2>2 DEF AbstractStep, Resolution!Next, WaitingDeclarations
<1> QED BY <1>0, <1>2, <1>3, RefusalReason

LEMMA StuttersAbstractly ==
  ASSUME Statements' = Statements, Verdict' = Verdict, Waiting' = Waiting, SameLayouts
  PROVE  AbstractStep
<1>1. KnownTypes' = KnownTypes
  BY DEF SameLayouts, KnownTypes
<1> QED BY <1>1, WaitingSame DEF AbstractStep, Resolution!vars, WaitingDeclarations

LEMMA ThrowsFromAttempt ==
  ASSUME TypeOK, pc \in {"scan", "pass"}, pc' = "failed",
         NEW i \in Waiting \cap Classes, PrepareOrDefer(i)
  PROVE  AbstractStep
<1>1. PrepareClass(Statements[i]) /\ ClassError(Statements[i]) \notin {"none", "UnknownSymbol"}
  BY DEF PrepareOrDefer, Raise
<1>2. Verdict = "running" /\ Verdict' = "refused"
  BY <1>1 DEF PrepareOrDefer, Raise, Verdict
<1> QED BY <1>1, <1>2, RefusesAbstractly

(* Once nothing waits, every step that keeps the type table is allowed.    *)
LEMMA ProceedsAbstractly ==
  ASSUME Waiting = {}, Verdict = "running", KnownTypes' = KnownTypes
  PROVE  AbstractStep
BY DEF AbstractStep, Resolution!Next, Resolution!Proceed

LEMMA LeftoverIsStuck ==
  ASSUME TypeOK, Bookkeeping, Leftover
  PROVE  AbstractStep
<1>1. /\ pc = "leftover" /\ pending \in Seq(Classes)
      /\ ~isResolved /\ 1 \in DOMAIN pending
  BY DEF Leftover, TypeOK, Bookkeeping, LeftoverFirst
<1>2. Waiting = Range(pending) /\ Range(pending) \subseteq Classes
  BY <1>1, WaitingIn, ElementType DEF Range
<1>3. ASSUME NEW i \in Waiting PROVE ~(Needs(Statements[i]) \subseteq KnownTypes)
  <2>1. ClassError(Statements[i]) = "UnknownSymbol"
    BY <1>1, <1>2, <1>3 DEF Bookkeeping, StuckWhenNoProgress
  <2>2. UnknownFirst(Statements[i])
    BY <2>1 DEF ClassError
  <2> QED BY <2>2 DEF UnknownFirst, FirstUnusable, Usable, Needs
<1>4. Waiting # {}
  BY <1>1, <1>2 DEF Range
<1>5. /\ pc' = "failed" /\ error' = "UnknownSymbol" /\ KnownTypes' = KnownTypes
  BY LeftoverThrows DEF Bookkeeping, registry, KnownTypes
<1>6. ASSUME NEW i \in Waiting PROVE ~Resolution!Ready(Declaration(i))
  BY <1>3, <1>6 DEF Resolution!Ready, Declaration
<1>7. \A d \in WaitingDeclarations : ~Resolution!Ready(d)
  BY <1>6 DEF WaitingDeclarations
<1>8. WaitingDeclarations # {}
  BY <1>4 DEF WaitingDeclarations
<1>9. Verdict = "running" /\ Verdict' = "unknown"
  BY <1>1, <1>5 DEF Verdict
<1>10. Resolution!Stuck
  BY <1>5, <1>7, <1>8, <1>9 DEF Resolution!Stuck, WaitingDeclarations
<1> QED BY <1>9, <1>10 DEF AbstractStep, Resolution!Next

(* compile() implements the abstract specification: it lays the classes    *)
(* out in an order in which each follows the ones it needs, and reports an *)
(* unknown type only when no class that is left could be laid out.         *)
THEOREM RefinesResolution == Spec => ImplementsResolution
<1>1. Init => Resolution!Init
  BY DEF Init, EmptyMap, Resolution!Init, KnownTypes, Verdict
<1>2. ASSUME TypeOK, Bookkeeping, [Next]_vars PROVE AbstractStep
  <2>1. CASE UNCHANGED vars
    <3>1. Statements' = Statements /\ Verdict' = Verdict /\ Waiting' = Waiting /\ SameLayouts
      BY <2>1 DEF vars, loop, registry, Statements, Verdict, Waiting, Classes, SameLayouts
    <3> QED BY <3>1, StuttersAbstractly
  <2>2. CASE Next /\ ~CompileFile /\ pc' # "failed"
    <3>1. /\ UNCHANGED <<files, fileNo>>
          /\ KeepsWaiting \/ \E i \in Waiting \cap Classes : LaidOut(i) /\ Waiting' = Waiting \ {i}
      BY <1>2, <2>2, WaitingStep
    <3>2. Statements' = Statements
      BY <3>1, SameFile
    <3>3. Verdict = "running" /\ Verdict' = "running"
      BY <1>2, <2>2
      DEF Next, Scan, ScanEnds, PassBegins, Retry, PassEnds, WhileEnds, Leftover, LeftoverEnds,
          PrepareFunctions, FunctionsEnd, PrepareMethod, NextClass, MethodsEnd, Goto,
          PrepareOrDefer, PrepareFunction, Raise, Verdict
    <3>4. CASE KeepsWaiting
      BY <3>2, <3>3, <3>4, StuttersAbstractly DEF KeepsWaiting
    <3>5. ASSUME NEW i \in Waiting \cap Classes, LaidOut(i), Waiting' = Waiting \ {i}
          PROVE  AbstractStep
      <4>1. ~Redefines(Statements[i])
        BY <3>5 DEF LaidOut, ClassError, Registrable
      <4> QED BY <3>2, <3>3, <3>5, <4>1, LaysOutAbstractly DEF LaidOut
    <3> QED BY <3>1, <3>4, <3>5
  <2>3. CASE Scan /\ pc' = "failed"
    <3>1. Statements[cursor].kind = "class"
      BY <2>3 DEF Scan
    <3>2. cursor \in Classes /\ PrepareOrDefer(cursor) /\ pc = "scan" /\ cursor \in Nat
      BY <1>2, <2>3, <3>1, ScanClass DEF TypeOK
    <3>3. cursor \in Waiting
      BY <3>2, WaitingIn
    <3> QED BY <1>2, <2>3, <3>2, <3>3, ThrowsFromAttempt
  <2>4. CASE Retry /\ pc' = "failed"
    <3>1. /\ pc = "pass" /\ cursor \in DOMAIN current /\ current \in Seq(Classes)
          /\ current[cursor] \in Classes /\ PrepareOrDefer(current[cursor])
      BY <1>2, <2>4, RetryClass DEF TypeOK
    <3>2. cursor \in cursor..Len(current)
      BY <3>1
    <3>3. current[cursor] \in Waiting
      BY <3>1, <3>2, WaitingIn
    <3> QED BY <1>2, <2>4, <3>1, <3>3, ThrowsFromAttempt
  <2>5. CASE Leftover
    BY <1>2, <2>5, LeftoverIsStuck
  <2>6. CASE Signatures \/ CompileFile
    <3>1. pc \in {"functions", "methods", "compile"}
      BY <1>2, <2>6, SignaturesWaiting DEF CompileFile
    <3>2. KnownTypes' = KnownTypes
      BY <1>2, <2>6, SignaturesWaiting DEF CompileFile, KeepsWaiting, SameLayouts, KnownTypes
    <3> QED BY <3>1, <3>2, WaitingIn, ProceedsAbstractly DEF Verdict
  <2>7. CASE (ScanEnds \/ PassBegins \/ PassEnds \/ WhileEnds \/ LeftoverEnds) /\ pc' = "failed"
    BY <2>7 DEF ScanEnds, PassBegins, PassEnds, WhileEnds, LeftoverEnds, Goto
  <2> QED BY <1>2, <2>1, <2>2, <2>3, <2>4, <2>5, <2>6, <2>7 DEF Next, Signatures
<1>3. ASSUME AbstractStep PROVE [Resolution!Next]_Resolution!vars
  BY <1>3 DEF AbstractStep
<1> QED BY <1>1, <1>2, <1>3, TypeCorrect, BookkeepingKept, PTL
        DEF Spec, Safe, ImplementsResolution, Resolution!Spec

-----------------------------------------------------------------------------
(* Where the types and the signatures come from.                           *)

(* Every type that is known was declared: in an earlier file, or by a      *)
(* class of this one that no longer waits.                                 *)
KnownFromDeclarations ==
  /\ TypesOfFiles(fileNo - 1) \subseteq KnownTypes
  /\ KnownTypes \subseteq TypesOfFiles(fileNo - 1) \cup NamesOf(Classes \ Waiting)

(* So was every signature.  Which ones a statement declares, and which of  *)
(* this file's have been looked at.                                        *)
SignaturesOf(s) ==
  CASE s.kind = "function" -> {<<NoClass, s.name>>}
    [] s.kind = "class" -> {<<NoClass, s.name>>} \cup {<<s.name, m>> : m \in MethodNames(s)}
    [] OTHER -> {}
FunctionTaken(i) ==
  \/ pc = "functions" /\ i < cursor
  \/ pc \in {"methods", "compile", "done", "failed"}
MethodTaken(i, m) ==
  \/ pc = "methods" /\ (i < cursor \/ (i = cursor /\ m < method))
  \/ pc \in {"compile", "done", "failed"}

EarlierSignature(g) ==
  \E k \in 1..(fileNo - 1) : \E i \in DOMAIN files[k] : g \in SignaturesOf(files[k][i])
ClassSignature(g) == \E i \in Classes \ Waiting : g = <<NoClass, Statements[i].name>>
FunctionSignature(g) ==
  \E i \in DOMAIN Statements :
    Statements[i].kind = "function" /\ FunctionTaken(i) /\ g = <<NoClass, Statements[i].name>>
MethodSignature(g) ==
  \E i \in Classes : \E m \in DOMAIN Statements[i].methods :
    MethodTaken(i, m) /\ g = <<Statements[i].name, Statements[i].methods[m].name>>
FunctionsDeclared ==
  \A g \in DOMAIN functions :
    EarlierSignature(g) \/ ClassSignature(g) \/ FunctionSignature(g) \/ MethodSignature(g)

LEMMA NamesOfTypes ==
  ASSUME NEW last, NEW x
  PROVE  x \in TypesOfFiles(last) <=>
           \/ x \in Basis
           \/ \E k \in 1..last : \E i \in ClassesOf(files[k]) : x = files[k][i].name
BY DEF TypesOfFiles

LEMMA TypesOfThisFile ==
  ASSUME fileNo \in Nat \ {0}
  PROVE  TypesOfFiles(fileNo) = TypesOfFiles(fileNo - 1) \cup NamesOf(Classes)
<1>1. 1..fileNo = 1..(fileNo - 1) \cup {fileNo}
  OBVIOUS
<1>2. NamesOf(Classes) = {files[fileNo][i].name : i \in ClassesOf(files[fileNo])}
  BY DEF NamesOf, Classes, ClassesOf, Statements
<1>3. ASSUME NEW x
      PROVE  x \in TypesOfFiles(fileNo) <=> x \in TypesOfFiles(fileNo - 1) \cup NamesOf(Classes)
  <2>1. x \in NamesOf(Classes) <=> \E i \in ClassesOf(files[fileNo]) : x = files[fileNo][i].name
    BY <1>2
  <2> QED
    BY <1>1, <2>1, NamesOfTypes
<1> QED
  BY <1>3

LEMMA InitKnown == Init => KnownFromDeclarations
<1> SUFFICES ASSUME Init PROVE KnownFromDeclarations
  OBVIOUS
<1>1. fileNo = 1 /\ KnownTypes = Basis
  BY DEF Init, EmptyMap, KnownTypes
<1>2. 1..(fileNo - 1) = {}
  BY <1>1
<1>3. TypesOfFiles(fileNo - 1) = Basis
  BY <1>2 DEF TypesOfFiles
<1> QED
  BY <1>1, <1>3 DEF KnownFromDeclarations

LEMMA KnownStep ==
  ASSUME TypeOK, Bookkeeping, SignaturesSeeEveryClass, KnownFromDeclarations, [Next]_vars
  PROVE  KnownFromDeclarations'
<1>1. ASSUME UNCHANGED <<files, fileNo>>
      PROVE  /\ TypesOfFiles(fileNo - 1)' = TypesOfFiles(fileNo - 1)
             /\ Classes' = Classes /\ \A S : NamesOf(S)' = NamesOf(S)
  BY <1>1, SameFile DEF TypesOfFiles, NamesOf
<1>2. ASSUME UNCHANGED <<files, fileNo>>, SameLayouts, Waiting' \subseteq Waiting
      PROVE  KnownFromDeclarations'
  <2>1. KnownTypes' = KnownTypes
    BY <1>2 DEF SameLayouts, KnownTypes
  <2>2. NamesOf(Classes \ Waiting) \subseteq NamesOf(Classes \ Waiting)'
    <3>1. Classes \ Waiting \subseteq Classes' \ Waiting'
      BY <1>1, <1>2
    <3>2. Statements' = Statements
      BY <1>2, SameFile
    <3> QED
      BY <3>1, <3>2 DEF NamesOf
  <2> QED
    BY <1>1, <1>2, <2>1, <2>2, Zenon DEF KnownFromDeclarations
<1>3. ASSUME UNCHANGED <<files, fileNo>>, NEW i \in Classes, NewLayout(Statements[i]),
             Waiting' \subseteq Waiting \ {i}
      PROVE  KnownFromDeclarations'
  <2>1. KnownTypes' = KnownTypes \cup {Statements[i].name}
    BY <1>3 DEF NewLayout, KnownTypes
  <2>2. NamesOf(Classes \ Waiting) \cup {Statements[i].name} \subseteq NamesOf(Classes \ Waiting)'
    <3>1. (Classes \ Waiting) \cup {i} \subseteq Classes' \ Waiting'
      BY <1>1, <1>3
    <3>2. Statements' = Statements
      BY <1>3, SameFile
    <3> QED
      BY <3>1, <3>2 DEF NamesOf
  <2>3. TypesOfFiles(fileNo - 1)' = TypesOfFiles(fileNo - 1)
    BY <1>1, <1>3
  <2> QED
    BY <2>1, <2>2, <2>3 DEF KnownFromDeclarations
<1>4. CASE UNCHANGED vars
  <2>1. UNCHANGED <<files, fileNo>> /\ SameLayouts /\ Waiting' = Waiting
    BY <1>4 DEF vars, loop, registry, SameLayouts, Waiting, Classes, Statements
  <2> QED
    BY <1>2, <2>1
<1>5. CASE Next /\ ~CompileFile /\ pc' # "failed"
  <2>1. /\ UNCHANGED <<files, fileNo>>
        /\ KeepsWaiting \/ \E i \in Waiting \cap Classes : LaidOut(i) /\ Waiting' = Waiting \ {i}
    BY <1>5, WaitingStep
  <2> QED
    BY <1>2, <1>3, <2>1 DEF KeepsWaiting, LaidOut
<1>6. CASE Next /\ pc' = "failed"
  <2>1. Waiting' = {}
    BY <1>6, WaitingInNext
  <2>2. UNCHANGED <<files, fileNo>>
    BY <1>6 DEF Next, Scan, ScanEnds, PassBegins, Retry, PassEnds, WhileEnds, Leftover,
        LeftoverEnds, PrepareFunctions, FunctionsEnd, PrepareMethod, NextClass, MethodsEnd, Goto,
        CompileFile
  <2> QED
    BY <1>2, <1>3, <2>1, <2>2, LayoutStep
<1>7. CASE CompileFile /\ pc' # "failed"
  <2>1. /\ pc = "compile" /\ files' = files /\ types' = types
        /\ \/ fileNo' = fileNo + 1
           \/ fileNo' = fileNo /\ pc' = "done"
    BY <1>7 DEF CompileFile, Raise
  <2>2. Waiting = {} /\ fileNo \in Nat \ {0}
    BY <2>1, WaitingIn DEF TypeOK
  <2>3. CASE fileNo' = fileNo
    <3>1. Waiting' = {} /\ SameLayouts
      BY <2>1, <2>2, <2>3, WaitingInNext DEF SameLayouts
    <3> QED
      BY <1>2, <2>1, <2>3, <3>1
  <2>4. CASE fileNo' = fileNo + 1
    <3>1. TypesOfFiles(fileNo - 1)' = TypesOfFiles(fileNo)
      <4>1. (fileNo - 1)' = fileNo
        BY <2>2, <2>4
      <4> QED
        BY <2>1, <4>1 DEF TypesOfFiles
    <3>2. KnownTypes = TypesOfFiles(fileNo)
      <4>1. NamesOf(Classes) \subseteq KnownTypes
        BY <2>1 DEF SignaturesSeeEveryClass, NamesOf, KnownTypes
      <4>2. Classes \ Waiting = Classes
        BY <2>2
      <4> QED
        BY <2>2, <4>1, <4>2, TypesOfThisFile DEF KnownFromDeclarations
    <3>3. KnownTypes' = KnownTypes
      BY <2>1 DEF KnownTypes
    <3> QED
      BY <3>1, <3>2, <3>3 DEF KnownFromDeclarations
  <2> QED
    BY <2>1, <2>3, <2>4
<1> QED
  BY <1>4, <1>5, <1>6, <1>7

LEMMA KnownKept == Spec => []KnownFromDeclarations
BY InitKnown, KnownStep, TypeCorrect, BookkeepingKept, ClassesKept, PTL DEF Spec, Safe

LEMMA LeftoverUnbuildable ==
  ASSUME TypeOK, Bookkeeping, LayoutClosed, LayoutWellFounded, NoClassLost, KnownFromDeclarations,
         pc = "leftover"
  PROVE  Range(pending) = Classes \ Buildable
<1> DEFINE L == Classes \ Range(pending)
<1>1. Waiting = Range(pending) /\ Range(pending) \subseteq Classes
  <2>1. pending \in Seq(Classes)
    BY DEF TypeOK
  <2> QED
    BY <2>1, WaitingIn, ElementType DEF Range
<1>2. ASSUME NEW i \in L
      PROVE  Statements[i].name \in DOMAIN types /\ types[Statements[i].name].needs = Needs(Statements[i])
  BY <1>1, <1>2 DEF NoClassLost
<1>3. KnownTypes = TypesOfFiles(fileNo - 1) \cup NamesOf(L)
  <2>1. NamesOf(L) \subseteq KnownTypes
    BY <1>2 DEF NamesOf, KnownTypes
  <2> QED
    BY <1>1, <2>1 DEF KnownFromDeclarations
<1>4. ASSUME NEW i \in L PROVE Needs(Statements[i]) \subseteq KnownTypes
  BY <1>2, <1>4 DEF LayoutClosed
<1>5. Constructible(L)
  <2>1. ASSUME NEW T \in SUBSET L, T # {}
        PROVE  \E i \in T : Needs(Statements[i]) \cap NamesOf(T) = {}
    <3>1. NamesOf(T) \in SUBSET DOMAIN types /\ NamesOf(T) # {}
      BY <1>2, <2>1 DEF NamesOf
    <3>2. PICK c \in NamesOf(T) : types[c].needs \cap NamesOf(T) = {}
      BY <3>1 DEF LayoutWellFounded
    <3>3. PICK i \in T : c = Statements[i].name
      BY <3>2 DEF NamesOf
    <3> QED
      BY <1>2, <3>2, <3>3
  <2> QED
    BY <1>3, <1>4, <2>1 DEF Constructible
<1>6. ASSUME NEW S \in SUBSET Classes, Constructible(S), NEW p \in S \cap Range(pending)
      PROVE  FALSE
  <2> DEFINE T == S \cap Range(pending)
  <2>1. PICK i \in T : Needs(Statements[i]) \cap NamesOf(T) = {}
    BY <1>6 DEF Constructible
  <2>2. ~(Needs(Statements[i]) \subseteq KnownTypes)
    <3>1. ~isResolved
      BY <2>1 DEF Bookkeeping, LeftoverFirst, Range
    <3>2. ClassError(Statements[i]) = "UnknownSymbol"
      BY <2>1, <3>1 DEF Bookkeeping, StuckWhenNoProgress
    <3>3. UnknownFirst(Statements[i])
      BY <3>2 DEF ClassError
    <3> QED
      BY <3>3 DEF UnknownFirst, FirstUnusable, Usable, Needs
  <2>3. Needs(Statements[i]) \subseteq TypesOfFiles(fileNo - 1) \cup NamesOf(S)
    BY <1>6, <2>1 DEF Constructible
  <2>4. NamesOf(S) \subseteq NamesOf(T) \cup NamesOf(L)
    BY DEF NamesOf
  <2> QED
    BY <1>3, <2>1, <2>2, <2>3, <2>4
<1>7. L \subseteq Buildable
  <2>1. L \in SUBSET Classes
    OBVIOUS
  <2> QED
    BY <1>5, <2>1 DEF Buildable
<1>8. Range(pending) \cap Buildable = {}
  BY <1>6 DEF Buildable
<1> QED
  BY <1>1, <1>7, <1>8

(* The loop gives up exactly on the classes that no order of layouts could *)
(* build, whatever the order in which the program declares them (the loop  *)
(* over pendingClasses in compile()).                                      *)
THEOREM OnlyUnbuildableIsLeft == Spec => []LeftoverIsUnbuildable
<1>1. TypeOK /\ Bookkeeping /\ LayoutClosed /\ LayoutWellFounded /\ NoClassLost /\ KnownFromDeclarations
        => LeftoverIsUnbuildable
  BY LeftoverUnbuildable DEF LeftoverIsUnbuildable
<1> QED
  BY <1>1, TypeCorrect, BookkeepingKept, LayoutsKept, ClassesKept, KnownKept, PTL

LEMMA ThatStatement ==
  ASSUME TypeOK, NEW k \in DOMAIN files, NEW i \in DOMAIN files[k]
  PROVE  files[k][i] \in Statement
<1>1. files[k] \in Seq(Statement)
  BY DEF TypeOK, Files
<1> QED
  BY <1>1, ElementType

(* What a signature of a statement says of its owner.                      *)
LEMMA SignatureOwner ==
  ASSUME NEW s \in Statement, NEW g \in SignaturesOf(s)
  PROVE  /\ s.kind # "other"
         /\ \A n : g = <<NoClass, n>> => s.name = n
         /\ \A c \in Names : \A m : g = <<c, m>> => s.name = c
<1>1. CASE s.kind = "function"
  BY <1>1, NamesAssumption DEF SignaturesOf
<1>2. CASE s.kind = "class"
  <2>1. s.name \in Names
    BY <1>2 DEF Statement, ClassStatement, FunctionStatement, OtherStatement
  <2>2. g = <<NoClass, s.name>> \/ \E m : g = <<s.name, m>>
    BY <1>2 DEF SignaturesOf
  <2> QED
    BY <1>2, <2>1, <2>2, NamesAssumption
<1>3. CASE s.kind \notin {"function", "class"}
  BY <1>3 DEF SignaturesOf
<1> QED
  BY <1>1, <1>2, <1>3

Taken(g) ==
  EarlierSignature(g) \/ ClassSignature(g) \/ FunctionSignature(g) \/ MethodSignature(g)

(* A step within a file forgets no signature that has been taken.          *)
LEMMA TakenStays ==
  ASSUME TypeOK, pc # "done", UNCHANGED <<files, fileNo>>, Waiting' \subseteq Waiting,
         \A i \in Nat : FunctionTaken(i) => FunctionTaken(i)',
         \A i, m \in Nat : MethodTaken(i, m) => MethodTaken(i, m)',
         NEW g, Taken(g)
  PROVE  Taken(g)'
<1>1. Statements' = Statements /\ Classes' = Classes
  BY SameFile
<1>a. /\ DOMAIN Statements \subseteq Nat
      /\ \A i \in Classes : i \in Nat /\ DOMAIN Statements[i].methods \subseteq Nat
  <2>1. DOMAIN Statements \subseteq Nat
    BY StatementsType
  <2>2. ASSUME NEW i \in Classes PROVE DOMAIN Statements[i].methods \subseteq Nat
    BY ClassType DEF ClassStatement
  <2> QED
    BY <2>1, <2>2 DEF Classes
<1>2. CASE EarlierSignature(g)
  <2>1. EarlierSignature(g)'
    BY <1>2 DEF EarlierSignature, SignaturesOf, MethodNames
  <2> QED
    BY <2>1 DEF Taken
<1>3. CASE ClassSignature(g)
  <2>1. ClassSignature(g)'
    BY <1>1, <1>3 DEF ClassSignature
  <2> QED
    BY <2>1 DEF Taken
<1>4. CASE FunctionSignature(g)
  <2>1. PICK i \in DOMAIN Statements :
          Statements[i].kind = "function" /\ FunctionTaken(i) /\ g = <<NoClass, Statements[i].name>>
    BY <1>4 DEF FunctionSignature
  <2>2. FunctionSignature(g)'
    BY <1>1, <1>a, <2>1 DEF FunctionSignature
  <2> QED
    BY <2>2 DEF Taken
<1>5. CASE MethodSignature(g)
  <2>1. MethodSignature(g)'
    BY <1>1, <1>a, <1>5 DEF MethodSignature
  <2> QED
    BY <2>1 DEF Taken
<1> QED
  BY <1>2, <1>3, <1>4, <1>5 DEF Taken

(* The place compile() is at never goes back within a file.                *)
LEMMA PlaceGoesOn ==
  ASSUME TypeOK, Bookkeeping, Next, CompileFile => pc' # "scan"
  PROVE  /\ UNCHANGED <<files, fileNo>>
         /\ \A i \in Nat : FunctionTaken(i) => FunctionTaken(i)'
         /\ \A i, m \in Nat : MethodTaken(i, m) => MethodTaken(i, m)'
<1>1. cursor \in Nat /\ method \in Nat
  BY DEF TypeOK
<1>2. CASE Scan \/ ScanEnds \/ PassBegins \/ Retry \/ PassEnds \/ WhileEnds \/ Leftover \/ LeftoverEnds
  BY <1>2 DEF Scan, ScanEnds, PassBegins, Retry, PassEnds, WhileEnds, Leftover, LeftoverEnds, Goto,
              FunctionTaken, MethodTaken
<1>3. CASE PrepareFunctions
  <2>1. /\ pc = "functions" /\ cursor' = cursor + 1 /\ pc' \in {"functions", "failed"}
        /\ UNCHANGED <<files, fileNo>>
    BY <1>3 DEF PrepareFunctions, PrepareFunction, Raise
  <2>2. \A i \in Nat : FunctionTaken(i) => FunctionTaken(i)'
    BY <1>1, <2>1 DEF FunctionTaken
  <2> QED
    BY <2>1, <2>2 DEF MethodTaken
<1>4. CASE FunctionsEnd \/ MethodsEnd
  BY <1>4 DEF FunctionsEnd, MethodsEnd, Goto, FunctionTaken, MethodTaken
<1>5. CASE PrepareMethod
  <2>1. /\ pc = "methods" /\ cursor' = cursor /\ method' = method + 1 /\ pc' \in {"methods", "failed"}
        /\ UNCHANGED <<files, fileNo>>
    BY <1>5 DEF PrepareMethod, PrepareFunction, Raise
  <2>2. \A i, m \in Nat : MethodTaken(i, m) => MethodTaken(i, m)'
    BY <1>1, <2>1 DEF MethodTaken
  <2> QED
    BY <2>1, <2>2 DEF FunctionTaken
<1>6. CASE NextClass
  <2>1. /\ pc = "methods" /\ cursor' = cursor + 1 /\ pc' = pc
        /\ UNCHANGED <<files, fileNo>>
    BY <1>6 DEF NextClass
  <2>2. \A i, m \in Nat : MethodTaken(i, m) => MethodTaken(i, m)'
    BY <1>1, <2>1 DEF MethodTaken
  <2> QED
    BY <2>1, <2>2 DEF FunctionTaken
<1>7. CASE CompileFile
  <2>1. pc = "compile" /\ pc' \in {"done", "failed"} /\ UNCHANGED <<files, fileNo>>
    BY <1>7, CompileFile => pc' # "scan" DEF CompileFile, Raise
  <2> QED
    BY <2>1 DEF FunctionTaken, MethodTaken
<1> QED
  BY <1>2, <1>3, <1>4, <1>5, <1>6, <1>7 DEF Next

(* What one declaration adds.                                              *)
LEMMA FunctionAdded ==
  ASSUME NEW owner, NEW f, PrepareFunction(owner, f)
  PROVE  \/ /\ FunctionError(owner, f) = "none" /\ pc' = pc
            /\ DOMAIN functions' = DOMAIN functions \cup {<<owner, f.name>>}
         \/ /\ FunctionError(owner, f) # "none" /\ functions' = functions
            /\ pc' = "failed" /\ error' = FunctionError(owner, f)
BY DEF PrepareFunction, Raise, Emplace

LEMMA ClassAdded ==
  ASSUME TypeOK, pc \notin {"done", "failed"}, NEW i \in Classes, PrepareOrDefer(i)
  PROVE  \/ DOMAIN functions' = DOMAIN functions \cup {<<NoClass, Statements[i].name>>} /\ pc' = pc
         \/ functions' = functions
BY DEF PrepareOrDefer, PrepareClass, Emplace, Raise

(* The signatures of a step: the new ones are declared.                    *)
LEMMA NewSignature ==
  ASSUME TypeOK, Bookkeeping, Next, ~CompileFile, NEW g \in DOMAIN functions' \ DOMAIN functions
  PROVE  Taken(g)'
<1>1. CASE pc' = "failed"
  <2>1. functions' = functions
    BY <1>1 DEF Next, Scan, ScanEnds, PassBegins, Retry, PassEnds, WhileEnds, Leftover, LeftoverEnds,
                PrepareFunctions, FunctionsEnd, PrepareMethod, NextClass, MethodsEnd, Goto, registry,
                PrepareOrDefer, PrepareClass, PrepareFunction, Raise, TypeOK
  <2> QED
    BY <2>1
<1>2. CASE (Scan \/ Retry) /\ pc' # "failed"
  <2>1. /\ UNCHANGED <<files, fileNo>>
        /\ KeepsWaiting \/ \E i \in Waiting \cap Classes : LaidOut(i) /\ Waiting' = Waiting \ {i}
    BY <1>2, WaitingStep DEF Next
  <2>2. Statements' = Statements /\ Classes' = Classes
    BY <2>1, SameFile
  <2>3. ASSUME NEW i \in Waiting \cap Classes, LaidOut(i), Waiting' = Waiting \ {i}
        PROVE  Taken(g)'
    <3>1. g = <<NoClass, Statements[i].name>>
      BY <2>3 DEF LaidOut
    <3>2. ClassSignature(g)'
      BY <2>2, <2>3, <3>1 DEF ClassSignature
    <3> QED
      BY <3>2 DEF Taken
  <2>4. CASE KeepsWaiting
    <3>1. ASSUME NEW i \in Classes, LaidOut(i), KeepsWaiting PROVE FALSE
      BY <3>1 DEF LaidOut, NewLayout, KeepsWaiting, SameLayouts, KnownTypes
    <3>2. CASE Scan
      <4>1. CASE Statements[cursor].kind = "class"
        <5>1. cursor \in Classes /\ PrepareOrDefer(cursor) /\ pc = "scan"
          BY <3>2, <4>1, ScanClass
        <5>2. Deferred(cursor)
          BY <1>2, <2>4, <3>1, <5>1, AttemptOrDefer
        <5> QED
          BY <5>2 DEF Deferred, registry
      <4>2. CASE Statements[cursor].kind # "class"
        BY <3>2, <4>2 DEF Scan, registry
      <4> QED
        BY <4>1, <4>2
    <3>3. CASE Retry
      <4>1. pc = "pass" /\ current[cursor] \in Classes /\ PrepareOrDefer(current[cursor])
        BY <3>3, RetryClass
      <4>2. Deferred(current[cursor])
        BY <1>2, <2>4, <3>1, <4>1, AttemptOrDefer
      <4> QED
        BY <4>2 DEF Deferred, registry
    <3> QED
      BY <1>2, <3>2, <3>3
  <2> QED
    BY <2>1, <2>3, <2>4
<1>3. CASE PrepareFunctions /\ pc' # "failed"
  <2>1. /\ pc = "functions" /\ pc' = "functions" /\ cursor' = cursor + 1 /\ cursor \in DOMAIN Statements
        /\ UNCHANGED <<files, fileNo>> /\ cursor \in Nat
    BY <1>3, StatementsType DEF PrepareFunctions, PrepareFunction, Raise, TypeOK
  <2>2. PICK i : i = cursor
    OBVIOUS
  <2>3. PICK f : f = Statements[i]
    OBVIOUS
  <2>4. f.kind = "function"
    BY <1>3, <2>2, <2>3 DEF PrepareFunctions, registry
  <2>5. PrepareFunction(NoClass, f)
    BY <1>3, <2>2, <2>3, <2>4 DEF PrepareFunctions
  <2>6. g = <<NoClass, f.name>>
    <3>1. DOMAIN functions' = DOMAIN functions \cup {<<NoClass, f.name>>} \/ pc' = "failed"
      BY <2>5, FunctionAdded
    <3> QED
      BY <1>3, <3>1
  <2>7. FunctionTaken(i)'
    BY <2>1, <2>2 DEF FunctionTaken
  <2>8. Statements' = Statements
    BY <2>1, SameFile
  <2>9. FunctionSignature(g)'
    BY <2>1, <2>2, <2>3, <2>4, <2>6, <2>7, <2>8 DEF FunctionSignature
  <2> QED
    BY <2>9 DEF Taken
<1>4. CASE PrepareMethod /\ pc' # "failed"
  <2>1. /\ pc = "methods" /\ pc' = "methods" /\ cursor' = cursor /\ method' = method + 1
        /\ UNCHANGED <<files, fileNo>> /\ method \in Nat /\ cursor \in Classes
    BY <1>4, StatementsType DEF PrepareMethod, PrepareFunction, Raise, TypeOK, Classes
  <2>2. PICK i, m : i = cursor /\ m = method
    OBVIOUS
  <2>3. PICK f : f = Statements[i].methods[m]
    OBVIOUS
  <2>4. PICK c : c = Statements[i].name
    OBVIOUS
  <2>5. m \in DOMAIN Statements[i].methods
    <3>1. Statements[i].methods \in Seq(FunctionStatement)
      BY <2>1, <2>2, ClassType DEF ClassStatement
    <3> QED
      BY <1>4, <2>2, <3>1 DEF PrepareMethod, TypeOK
  <2>6. PrepareFunction(c, f)
    BY <1>4, <2>2, <2>3, <2>4 DEF PrepareMethod
  <2>7. g = <<c, f.name>>
    <3>1. DOMAIN functions' = DOMAIN functions \cup {<<c, f.name>>} \/ pc' = "failed"
      BY <2>6, FunctionAdded
    <3> QED
      BY <1>4, <3>1
  <2>8. MethodTaken(i, m)'
    BY <2>1, <2>2 DEF MethodTaken
  <2>9. Statements' = Statements /\ Classes' = Classes
    BY <2>1, SameFile
  <2>10. MethodSignature(g)'
    BY <2>1, <2>2, <2>3, <2>4, <2>5, <2>7, <2>8, <2>9 DEF MethodSignature
  <2> QED
    BY <2>10 DEF Taken
<1>5. CASE Leftover
  BY <1>1, <1>5, LeftoverThrows DEF Bookkeeping
<1>6. CASE ScanEnds \/ PassBegins \/ PassEnds \/ WhileEnds \/ LeftoverEnds \/ FunctionsEnd \/ NextClass
             \/ MethodsEnd
  BY <1>6 DEF ScanEnds, PassBegins, PassEnds, WhileEnds, LeftoverEnds, FunctionsEnd, NextClass,
              MethodsEnd, Goto, registry
<1> QED
  BY <1>1, <1>2, <1>3, <1>4, <1>5, <1>6 DEF Next

LEMMA InitFunctions == Init => FunctionsDeclared
BY DEF Init, EmptyMap, FunctionsDeclared

LEMMA FunctionsStep ==
  ASSUME TypeOK, Bookkeeping, FunctionsDeclared, [Next]_vars
  PROVE  FunctionsDeclared'
<1>1. SUFFICES ASSUME NEW g \in DOMAIN functions' PROVE Taken(g)'
  BY DEF FunctionsDeclared, Taken
<1>2. g \in DOMAIN functions => Taken(g)
  BY DEF FunctionsDeclared, Taken
<1>3. CASE UNCHANGED vars
  <2>1. /\ UNCHANGED <<files, fileNo, pc, cursor, method, functions>> /\ Waiting' = Waiting
        /\ Statements' = Statements /\ Classes' = Classes
    BY <1>3 DEF vars, loop, registry, Waiting, Classes, Statements
  <2>2. EarlierSignature(g) => EarlierSignature(g)'
    BY <2>1 DEF EarlierSignature, SignaturesOf, MethodNames
  <2>3. ClassSignature(g) => ClassSignature(g)'
    BY <2>1 DEF ClassSignature
  <2>4. FunctionSignature(g) => FunctionSignature(g)'
    BY <2>1 DEF FunctionSignature, FunctionTaken
  <2>5. MethodSignature(g) => MethodSignature(g)'
    BY <2>1 DEF MethodSignature, MethodTaken
  <2> QED
    BY <1>2, <2>1, <2>2, <2>3, <2>4, <2>5 DEF Taken
<1>4. CASE Next /\ ~(CompileFile /\ pc' = "scan")
  <2>1. /\ UNCHANGED <<files, fileNo>>
        /\ \A i \in Nat : FunctionTaken(i) => FunctionTaken(i)'
        /\ \A i, m \in Nat : MethodTaken(i, m) => MethodTaken(i, m)'
    BY <1>4, PlaceGoesOn
  <2>2. Waiting' \subseteq Waiting
    <3>1. CASE CompileFile \/ pc' = "failed"
      <4>1. pc' \notin {"scan", "pass", "while", "leftover"}
        BY <1>4, <3>1 DEF CompileFile, Raise
      <4> QED
        BY <4>1, WaitingInNext
    <3>2. CASE ~CompileFile /\ pc' # "failed"
      BY <1>4, <3>2, WaitingStep DEF KeepsWaiting
    <3> QED
      BY <3>1, <3>2
  <2>3. pc # "done"
    BY <1>4 DEF Next, Scan, ScanEnds, PassBegins, Retry, PassEnds, WhileEnds, Leftover,
        LeftoverEnds, PrepareFunctions, FunctionsEnd, PrepareMethod, NextClass, MethodsEnd, CompileFile
  <2>4. CASE g \in DOMAIN functions
    BY <1>2, <2>1, <2>2, <2>3, <2>4, TakenStays
  <2>5. CASE g \notin DOMAIN functions
    <3>1. ~CompileFile
      BY <1>1, <2>5 DEF CompileFile
    <3> QED
      BY <1>1, <1>4, <2>5, <3>1, NewSignature
  <2> QED
    BY <2>4, <2>5
<1>5. CASE CompileFile /\ pc' = "scan"
  <2>1. /\ pc = "compile" /\ files' = files /\ functions' = functions /\ fileNo' = fileNo + 1
        /\ fileNo \in Nat \ {0}
    BY <1>5 DEF CompileFile, Raise, TypeOK
  <2>2. /\ 1..(fileNo' - 1) = 1..fileNo /\ fileNo \in 1..fileNo
        /\ 1..(fileNo - 1) \subseteq 1..fileNo
    BY <2>1
  <2>3. \A s : SignaturesOf(s)' = SignaturesOf(s)
    BY DEF SignaturesOf, MethodNames
  <2>4. CASE EarlierSignature(g)
    <3>1. EarlierSignature(g)'
      BY <2>1, <2>2, <2>3, <2>4 DEF EarlierSignature
    <3> QED
      BY <3>1 DEF Taken
  <2>5. ASSUME NEW i \in DOMAIN Statements, g \in SignaturesOf(Statements[i]) PROVE Taken(g)'
    <3>1. PICK k : k = fileNo
      OBVIOUS
    <3>2. PICK s : s = files[k][i]
      OBVIOUS
    <3>3. i \in DOMAIN files'[k] /\ s = files'[k][i] /\ g \in SignaturesOf(s)
      BY <2>1, <2>5, <3>1, <3>2 DEF Statements
    <3>4. g \in SignaturesOf(s)'
      BY <2>3, <3>3
    <3>5. EarlierSignature(g)'
      BY <2>2, <3>1, <3>3, <3>4 DEF EarlierSignature
    <3> QED
      BY <3>5 DEF Taken
  <2>6. CASE ClassSignature(g)
    <3>1. PICK i \in Classes : g = <<NoClass, Statements[i].name>>
      BY <2>6 DEF ClassSignature
    <3>2. i \in DOMAIN Statements /\ g \in SignaturesOf(Statements[i])
      BY <3>1 DEF Classes, SignaturesOf
    <3> QED
      BY <2>5, <3>2
  <2>7. CASE FunctionSignature(g)
    BY <2>5, <2>7 DEF FunctionSignature, SignaturesOf
  <2>8. CASE MethodSignature(g)
    <3>1. PICK i \in Classes : \E m \in DOMAIN Statements[i].methods :
            g = <<Statements[i].name, Statements[i].methods[m].name>>
      BY <2>8 DEF MethodSignature
    <3>2. i \in DOMAIN Statements /\ g \in SignaturesOf(Statements[i])
      BY <3>1 DEF Classes, SignaturesOf, MethodNames
    <3> QED
      BY <2>5, <3>2
  <2> QED
    BY <1>1, <1>2, <2>1, <2>4, <2>6, <2>7, <2>8 DEF Taken
<1> QED
  BY <1>3, <1>4, <1>5

LEMMA FunctionsKept == Spec => []FunctionsDeclared
BY InitFunctions, FunctionsStep, TypeCorrect, BookkeepingKept, PTL DEF Spec, Safe

-----------------------------------------------------------------------------
(* Why a name is reported as redefined.                                    *)
DeclaredTwice ==
  \/ \E p, q \in Declarations : p # q /\ files[p[1]][p[2]].name = files[q[1]][q[2]].name
  \/ \E i \in Classes : Redefines(Statements[i]) \/ Statements[i].name \in Basis

LEMMA TwoDeclarations ==
  ASSUME NEW k \in 1..fileNo, NEW i \in DOMAIN files[k], files[k][i].kind # "other",
         NEW l \in 1..fileNo, NEW j \in DOMAIN files[l], files[l][j].kind # "other",
         k # l \/ i # j, files[k][i].name = files[l][j].name
  PROVE  DeclaredTwice
<1>1. <<k, i>> \in Declarations /\ <<l, j>> \in Declarations
  BY DEF Declarations
<1>2. <<k, i>> # <<l, j>>
  OBVIOUS
<1>3. files[<<k, i>>[1]][<<k, i>>[2]].name = files[<<l, j>>[1]][<<l, j>>[2]].name
  OBVIOUS
<1> QED
  BY <1>1, <1>2, <1>3 DEF DeclaredTwice

(* The same name in an earlier file.                                       *)
LEMMA DeclaredEarlier ==
  ASSUME TypeOK, pc # "done", NEW i \in DOMAIN Statements, Statements[i].kind # "other",
         NEW k \in 1..(fileNo - 1), NEW j \in DOMAIN files[k], files[k][j].kind # "other",
         files[k][j].name = Statements[i].name
  PROVE  DeclaredTwice
<1>1. k \in 1..fileNo /\ fileNo \in 1..fileNo /\ k # fileNo
  BY DEF TypeOK
<1>2. i \in DOMAIN files[fileNo] /\ files[fileNo][i] = Statements[i]
  BY DEF Statements
<1> QED
  BY <1>1, <1>2, TwoDeclarations

LEMMA DeclaredHere ==
  ASSUME TypeOK, pc # "done", NEW i \in DOMAIN Statements, Statements[i].kind # "other",
         NEW j \in DOMAIN Statements, Statements[j].kind # "other", i # j,
         Statements[j].name = Statements[i].name
  PROVE  DeclaredTwice
<1>1. fileNo \in 1..fileNo
  BY DEF TypeOK
<1> QED
  BY <1>1, TwoDeclarations DEF Statements

LEMMA EarlierSignatureTwice ==
  ASSUME TypeOK, pc # "done", NEW i \in DOMAIN Statements, Statements[i].kind # "other",
         NEW g, EarlierSignature(g),
         \/ g = <<NoClass, Statements[i].name>>
         \/ Statements[i].name \in Names /\ \E m : g = <<Statements[i].name, m>>
  PROVE  DeclaredTwice
<1>1. PICK k \in 1..(fileNo - 1) : \E j \in DOMAIN files[k] : g \in SignaturesOf(files[k][j])
  BY DEF EarlierSignature
<1>2. PICK j \in DOMAIN files[k] : g \in SignaturesOf(files[k][j])
  BY <1>1
<1>3. k \in DOMAIN files
  BY <1>1 DEF TypeOK, Files
<1>4. files[k][j].kind # "other" /\ files[k][j].name = Statements[i].name
  BY <1>2, <1>3, ThatStatement, SignatureOwner
<1> QED
  BY <1>1, <1>2, <1>4, DeclaredEarlier

LEMMA RedefinedReason ==
  ASSUME TypeOK, pc # "done", NEW i \in Classes, ClassError(Statements[i]) = "RedefinedSymbol"
  PROVE  \/ Redefines(Statements[i]) \/ Statements[i].name \in KnownTypes
         \/ <<NoClass, Statements[i].name>> \in DOMAIN functions
<1> DEFINE s == Statements[i]
<1> SUFFICES ASSUME ~Redefines(s), s.name \notin KnownTypes, <<NoClass, s.name>> \notin DOMAIN functions
             PROVE  FALSE
  OBVIOUS
<1>1. CASE Registrable(s)
  BY <1>1 DEF ClassError
<1>2. CASE ~Registrable(s)
  <2>1. s \in ClassStatement /\ ~(\A j \in DOMAIN s.members : Usable(s, j))
    BY <1>2, ClassType DEF Registrable
  <2>2. PICK j \in DOMAIN s.members : FirstUnusable(s, j)
    BY <2>1, UnusableHasFirst
  <2>3. UnknownFirst(s) \/ RecursiveFirst(s)
    BY <2>2 DEF UnknownFirst, RecursiveFirst
  <2> QED
    BY <1>2, <2>3 DEF ClassError
<1> QED
  BY <1>1, <1>2

LEMMA ClassRedefined ==
  ASSUME TypeOK, KnownFromDeclarations, FunctionsDeclared, pc # "done",
         NEW i \in Waiting \cap Classes, ClassError(Statements[i]) = "RedefinedSymbol"
  PROVE  DeclaredTwice
<1>1. i \in DOMAIN Statements /\ Statements[i].kind = "class" /\ Statements[i].name \in Names
  BY ClassType DEF Classes
<1>2. ASSUME NEW j \in Classes \ Waiting, Statements[j].name = Statements[i].name
      PROVE  DeclaredTwice
  BY <1>1, <1>2, DeclaredHere DEF Classes
<1>3. CASE Redefines(Statements[i])
  BY <1>3 DEF DeclaredTwice
<1>4. CASE Statements[i].name \in KnownTypes
  <2>1. CASE Statements[i].name \in NamesOf(Classes \ Waiting)
    BY <1>2, <2>1 DEF NamesOf
  <2>2. CASE Statements[i].name \in TypesOfFiles(fileNo - 1)
    <3>1. CASE Statements[i].name \in Basis
      BY <3>1 DEF DeclaredTwice
    <3>2. CASE Statements[i].name \notin Basis
      <4>1. PICK k \in 1..(fileNo - 1) : \E j \in ClassesOf(files[k]) : Statements[i].name = files[k][j].name
        BY <2>2, <3>2, NamesOfTypes
      <4>2. PICK j \in ClassesOf(files[k]) : Statements[i].name = files[k][j].name
        BY <4>1
      <4> QED
        BY <1>1, <4>1, <4>2, DeclaredEarlier DEF ClassesOf
    <3> QED
      BY <3>1, <3>2
  <2> QED
    BY <1>4, <2>1, <2>2 DEF KnownFromDeclarations
<1>5. CASE <<NoClass, Statements[i].name>> \in DOMAIN functions
  <2> DEFINE g == <<NoClass, Statements[i].name>>
  <2>1. CASE EarlierSignature(g)
    BY <1>1, <2>1, EarlierSignatureTwice
  <2>2. CASE ClassSignature(g)
    BY <1>2, <2>2 DEF ClassSignature
  <2>3. CASE FunctionSignature(g)
    <3>1. PICK j \in DOMAIN Statements : Statements[j].kind = "function" /\ g = <<NoClass, Statements[j].name>>
      BY <2>3 DEF FunctionSignature
    <3> QED
      BY <1>1, <3>1, DeclaredHere
  <2>4. ~MethodSignature(g)
    BY ClassType, NamesAssumption DEF MethodSignature
  <2> QED
    BY <1>5, <2>1, <2>2, <2>3, <2>4 DEF FunctionsDeclared
<1> QED
  BY <1>3, <1>4, <1>5, RedefinedReason

LEMMA FunctionRedefined ==
  ASSUME TypeOK, FunctionsDeclared, pc = "functions", cursor \in DOMAIN Statements,
         Statements[cursor].kind = "function",
         <<NoClass, Statements[cursor].name>> \in DOMAIN functions
  PROVE  DeclaredTwice
<1> DEFINE g == <<NoClass, Statements[cursor].name>>
<1>1. CASE EarlierSignature(g)
  BY <1>1, EarlierSignatureTwice
<1>2. CASE ClassSignature(g)
  <2>1. PICK j \in Classes : g = <<NoClass, Statements[j].name>>
    BY <1>2 DEF ClassSignature
  <2> QED
    BY <2>1, DeclaredHere DEF Classes
<1>3. CASE FunctionSignature(g)
  <2>1. PICK j \in DOMAIN Statements :
          /\ Statements[j].kind = "function" /\ FunctionTaken(j) /\ g = <<NoClass, Statements[j].name>>
    BY <1>3 DEF FunctionSignature
  <2>2. j # cursor
    BY <2>1 DEF FunctionTaken, TypeOK
  <2> QED
    BY <2>1, <2>2, DeclaredHere
<1>4. ~MethodSignature(g)
  BY ClassType, NamesAssumption DEF MethodSignature
<1> QED
  BY <1>1, <1>2, <1>3, <1>4 DEF FunctionsDeclared

(* Two methods of a class with one name.                                   *)
LEMMA SameMethod ==
  ASSUME NEW s \in ClassStatement, NEW l \in DOMAIN s.methods, NEW m \in DOMAIN s.methods, l # m,
         s.methods[l].name = s.methods[m].name
  PROVE  Redefines(s)
<1> DEFINE a == [i \in DOMAIN s.members |-> s.members[i].name]
           b == [i \in DOMAIN s.methods |-> s.methods[i].name]
<1>1. s.members \in Seq([name: Names, type: Names]) /\ s.methods \in Seq(FunctionStatement)
  BY DEF ClassStatement
<1>2. PICK n \in Nat : DOMAIN s.members = 1..n
  BY <1>1
<1>3. PICK k \in Nat : DOMAIN s.methods = 1..k
  BY <1>1
<1>4. a \in Seq(Names) /\ Len(a) = n
  <2>1. \A i \in DOMAIN s.members : s.members[i] \in [name: Names, type: Names]
    BY <1>1, ElementType
  <2>2. a \in [1..n -> Names]
    BY <1>2, <2>1
  <2> QED
    BY <2>2
<1>5. b \in Seq(Names) /\ Len(b) = k /\ \A i \in 1..k : b[i] = s.methods[i].name
  <2>1. \A i \in DOMAIN s.methods : s.methods[i] \in FunctionStatement
    BY <1>1, ElementType
  <2>2. b \in [1..k -> Names] /\ \A i \in 1..k : b[i] = s.methods[i].name
    BY <1>3, <2>1 DEF FunctionStatement
  <2> QED
    BY <2>2
<1>6. SymbolsOf(s) = a \o b
  BY DEF SymbolsOf
<1> HIDE DEF a, b
<1>7. \A i \in 1..k : n + i \in DOMAIN (a \o b) /\ (a \o b)[n + i] = b[i]
  BY <1>4, <1>5
<1>8. l \in 1..k /\ m \in 1..k /\ n + l # n + m
  BY <1>3
<1>9. SymbolsOf(s)[n + l] = SymbolsOf(s)[n + m] /\ n + l \in DOMAIN SymbolsOf(s) /\ n + m \in DOMAIN SymbolsOf(s)
  BY <1>5, <1>6, <1>7, <1>8
<1> QED
  BY <1>8, <1>9 DEF Redefines, IsInjective

LEMMA MethodRedefined ==
  ASSUME TypeOK, FunctionsDeclared, pc = "methods", cursor \in Classes,
         method \in DOMAIN Statements[cursor].methods,
         <<Statements[cursor].name, Statements[cursor].methods[method].name>> \in DOMAIN functions
  PROVE  DeclaredTwice
<1>1. PICK i, c, n, m : /\ i = cursor /\ m = method /\ c = Statements[i].name
                       /\ n = Statements[i].methods[m].name
  OBVIOUS
<1>2. PICK g : g = <<c, n>>
  OBVIOUS
<1>3. i \in Classes /\ i \in DOMAIN Statements /\ c \in Names /\ c # NoClass /\ Statements[i].kind = "class"
  BY <1>1, ClassType, NamesAssumption DEF Classes
<1>4. CASE EarlierSignature(g)
  BY <1>1, <1>2, <1>3, <1>4, EarlierSignatureTwice
<1>5. ~ClassSignature(g) /\ ~FunctionSignature(g)
  BY <1>2, <1>3 DEF ClassSignature, FunctionSignature
<1>6. CASE MethodSignature(g)
  <2>1. PICK j \in Classes : \E l \in DOMAIN Statements[j].methods :
          MethodTaken(j, l) /\ g = <<Statements[j].name, Statements[j].methods[l].name>>
    BY <1>6 DEF MethodSignature
  <2>2. PICK l \in DOMAIN Statements[j].methods :
          MethodTaken(j, l) /\ g = <<Statements[j].name, Statements[j].methods[l].name>>
    BY <2>1
  <2>3. Statements[j].name = c /\ Statements[j].methods[l].name = n
    BY <1>2, <2>2
  <2>4. CASE j # i
    BY <1>1, <1>3, <2>1, <2>3, <2>4, DeclaredHere DEF Classes
  <2>5. CASE j = i
    <3>1. l # m
      BY <1>1, <2>2, <2>5 DEF MethodTaken, TypeOK
    <3>2. Redefines(Statements[i])
      BY <1>1, <1>3, <2>2, <2>3, <2>5, <3>1, ClassType, SameMethod
    <3> QED
      BY <1>3, <3>2 DEF DeclaredTwice
  <2> QED
    BY <2>4, <2>5
<1> QED
  BY <1>1, <1>2, <1>4, <1>5, <1>6 DEF FunctionsDeclared

LEMMA DeclaredStays ==
  ASSUME UNCHANGED <<files, fileNo>>
  PROVE  DeclaredTwice' <=> DeclaredTwice
<1>1. Statements' = Statements /\ Classes' = Classes
  BY SameFile
<1>2. Declarations' = Declarations
  BY DEF Declarations
<1>3. \A i : Redefines(Statements[i])' <=> Redefines(Statements[i])
  BY <1>1 DEF Redefines, SymbolsOf
<1> QED
  BY <1>1, <1>2, <1>3 DEF DeclaredTwice

LEMMA RedefinedStep ==
  ASSUME TypeOK, Bookkeeping, KnownFromDeclarations, FunctionsDeclared, RedefinedIsDeclaredTwice,
         [Next]_vars
  PROVE  RedefinedIsDeclaredTwice'
<1>1. CASE UNCHANGED vars
  <2>1. error' = error /\ (DeclaredTwice' <=> DeclaredTwice)
    BY <1>1, DeclaredStays DEF vars
  <2> QED
    BY <2>1 DEF RedefinedIsDeclaredTwice, DeclaredTwice
<1>2. ASSUME Next, error' = "RedefinedSymbol" PROVE RedefinedIsDeclaredTwice'
  <2>1. pc \notin {"done", "failed"} /\ error = "none"
    BY <1>2 DEF Next, Scan, ScanEnds, PassBegins, Retry, PassEnds, WhileEnds, Leftover,
        LeftoverEnds, PrepareFunctions, FunctionsEnd, PrepareMethod, NextClass, MethodsEnd, CompileFile,
        TypeOK
  <2>2. DeclaredTwice /\ UNCHANGED <<files, fileNo>>
    <3>1. CASE Scan
      <4>1. Statements[cursor].kind = "class" /\ UNCHANGED <<files, fileNo>>
        BY <1>2, <2>1, <3>1 DEF Scan
      <4>2. /\ cursor \in Classes /\ PrepareOrDefer(cursor) /\ pc = "scan" /\ cursor \in Nat
        BY <3>1, <4>1, ScanClass DEF TypeOK
      <4>3. cursor \in Waiting
        BY <4>2, WaitingIn
      <4>4. ClassError(Statements[cursor]) = "RedefinedSymbol"
        BY <1>2, <4>2 DEF PrepareOrDefer, Raise
      <4> QED
        BY <2>1, <4>1, <4>2, <4>3, <4>4, ClassRedefined
    <3>2. CASE Retry
      <4>1. /\ pc = "pass" /\ cursor \in DOMAIN current /\ current \in Seq(Classes)
            /\ current[cursor] \in Classes /\ PrepareOrDefer(current[cursor])
        BY <3>2, RetryClass DEF TypeOK
      <4>2. cursor \in cursor..Len(current)
        BY <4>1
      <4>3. current[cursor] \in Waiting
        BY <4>1, <4>2, WaitingIn
      <4>4. ClassError(Statements[current[cursor]]) = "RedefinedSymbol"
        BY <1>2, <4>1 DEF PrepareOrDefer, Raise
      <4> QED
        BY <2>1, <3>2, <4>1, <4>3, <4>4, ClassRedefined DEF Retry
    <3>3. CASE Leftover
      BY <1>2, <3>3, LeftoverThrows DEF Bookkeeping
    <3>4. CASE PrepareFunctions
      <4>1. /\ pc = "functions" /\ cursor \in DOMAIN Statements /\ UNCHANGED <<files, fileNo>>
            /\ Statements[cursor].kind = "function"
        BY <1>2, <2>1, <3>4, StatementsType DEF PrepareFunctions, TypeOK
      <4>2. FunctionError(NoClass, Statements[cursor]) = "RedefinedSymbol"
        BY <1>2, <3>4, <4>1 DEF PrepareFunctions, PrepareFunction, Raise
      <4>3. <<NoClass, Statements[cursor].name>> \in DOMAIN functions
        BY <4>2 DEF FunctionError
      <4> QED
        BY <4>1, <4>3, FunctionRedefined
    <3>5. CASE PrepareMethod
      <4>1. /\ pc = "methods" /\ cursor \in Classes /\ UNCHANGED <<files, fileNo>>
        BY <3>5, StatementsType DEF PrepareMethod, TypeOK, Classes
      <4>2. method \in DOMAIN Statements[cursor].methods
        <5>1. Statements[cursor].methods \in Seq(FunctionStatement)
          BY <4>1, ClassType DEF ClassStatement
        <5> QED
          BY <3>5, <5>1 DEF PrepareMethod, TypeOK
      <4>3. FunctionError(Statements[cursor].name, Statements[cursor].methods[method]) = "RedefinedSymbol"
        BY <1>2, <3>5 DEF PrepareMethod, PrepareFunction, Raise
      <4>4. <<Statements[cursor].name, Statements[cursor].methods[method].name>> \in DOMAIN functions
        BY <4>3 DEF FunctionError
      <4> QED
        BY <4>1, <4>2, <4>4, MethodRedefined
    <3> QED
      BY <1>2, <2>1, <3>1, <3>2, <3>3, <3>4, <3>5
      DEF Next, ScanEnds, PassBegins, PassEnds, WhileEnds, LeftoverEnds, FunctionsEnd, NextClass,
          MethodsEnd, CompileFile, Goto, Raise
  <2>3. DeclaredTwice'
    BY <2>2, DeclaredStays
  <2> QED
    BY <2>3 DEF RedefinedIsDeclaredTwice, DeclaredTwice
<1> QED
  BY <1>1, <1>2 DEF RedefinedIsDeclaredTwice

(* "Redefined" is about a name that the program does declare twice, never  *)
(* about a class that a retry meets again or a method of another class     *)
(* (registerType, addFunction and the retries of compile()).               *)
THEOREM RedefinedIsJustified == Spec => []RedefinedIsDeclaredTwice
<1>1. Init => RedefinedIsDeclaredTwice
  BY DEF Init, RedefinedIsDeclaredTwice
<1> QED
  BY <1>1, RedefinedStep, TypeCorrect, BookkeepingKept, KnownKept, FunctionsKept, PTL DEF Spec, Safe

=============================================================================
