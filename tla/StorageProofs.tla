--------------------------- MODULE StorageProofs ----------------------------
(***************************************************************************)
(* Proofs about Storage, for every set of classes and functions and for    *)
(* bodies of any length.                                                   *)
(***************************************************************************)
EXTENDS Storage, SequenceTheorems, WellFoundedInduction, TLAPS

(* The wasm machine has every local and global that is declared: those of  *)
(* the arguments from the start, the others from their declaration on.     *)
(* And a statement only began where the bound on the body let it.          *)
Holds(variables, gs) == \A d \in declared(variables, gs) : d[1] \in DOMAIN store
StoreHolds ==
  /\ <<"result">> \in DOMAIN store
  /\ status # "arguments" => Holds(locals, globals)
  /\ status = "arguments" =>
       /\ Holds(function.arguments, globals)
       /\ Len(locals) <= Len(function.arguments)
       /\ \A i \in DOMAIN locals : locals[i].type = function.arguments[i].type
  /\ statement.do \notin {"nothing", "end"} => length < MaxLength

-----------------------------------------------------------------------------
(* Types.                                                                  *)

(* Elements of a sequence are in its set.                                  *)
LEMMA ElementType ==
  ASSUME NEW S, NEW q \in Seq(S)
  PROVE  \A i \in DOMAIN q : q[i] \in S
OBVIOUS

(* The types of a function.                                                *)
LEMMA FunctionType ==
  ASSUME TypeOK
  PROVE  /\ function \in Function
         /\ function.arguments \in Seq(Variable)
         /\ function.globals \in Seq(Variable)
BY FunctionsAssumption DEF TypeOK, Function

(* The slots of a type are a sequence.                                     *)
LEMMA SlotsType ==
  ASSUME NEW t \in Types
  PROVE  Slots[t] \in Seq(Basis) /\ Len(Slots[t]) \in Nat
BY LayoutAssumption

(* A declaration has a name.                                               *)
LEMMA StatementName ==
  ASSUME NEW s \in Statements
  PROVE  s.do = "let" => s.name \in Names
BY DEF Statements

(* Emitted code is valid for what is declared after the statement, so that *)
(* a store which has that has the targets of the code.                     *)
LEMMA EmittedType ==
  ASSUME NEW instructions, Emit(instructions), TypeOK, function' = function,
         <<"result">> \in DOMAIN store', status # "arguments",
         Holds(locals, globals)'
  PROVE  /\ code' \in Seq(Instruction)
         /\ \A i \in DOMAIN code' : code'[i].to[1] = "memory" \/ code'[i].to \in DOMAIN store'
         /\ status' \in {"arguments", "running", "returned", "invalid"}
         /\ status' # "arguments"
<1>1. CASE Valid(instructions, declared(locals', globals'))
  <2>1. code' = instructions /\ status' = status
    BY <1>1 DEF Emit
  <2>2. ASSUME NEW i \in DOMAIN instructions
        PROVE  instructions[i].to[1] = "memory" \/ instructions[i].to \in DOMAIN store'
    <3> DEFINE to == instructions[i].to
    <3>1. PICK t \in Basis : Writable(declared(locals', globals'), to, t)
      BY <1>1 DEF Valid
    <3>2. CASE <<to, t>> \in declared(locals', globals')
      <4>1. <<to, t>>[1] \in DOMAIN store'
        BY <3>2 DEF Holds
      <4> QED BY <4>1
    <3>3. CASE to[1] = "memory"
      BY <3>3
    <3>4. CASE to = <<"result">>
      BY <3>4
    <3> QED BY <3>1, <3>2, <3>3, <3>4 DEF Writable
  <2> QED BY <1>1, <2>1, <2>2 DEF Valid, TypeOK
<1>2. CASE ~Valid(instructions, declared(locals', globals'))
  BY <1>2 DEF Emit
<1> QED BY <1>1, <1>2

(* What the start of a statement leaves to be shown.                       *)
LEMMA BeginType ==
  ASSUME TypeOK, NEW s \in Statements, Begin(s)
  PROVE  /\ status = "running" /\ length' \in 0..MaxLength /\ length' < MaxLength
         /\ function' = function /\ function' \in Functions
         /\ statement' \in Statements
         /\ SourceType(locals, globals, s.from) \in Types
BY DEF TypeOK, Begin, Ready, WellTyped

(* Another local.                                                          *)
LEMMA AddLocalType ==
  ASSUME TypeOK, NEW name \in Names, NEW type \in Types, addLocal(name, type)
  PROVE  /\ locals' \in Seq([name: Names, type: Types, index: Nat])
         /\ localIndex' \in Nat
         /\ Len(locals') = Len(locals) + 1
         /\ \A i \in DOMAIN locals : i \in DOMAIN locals' /\ locals'[i] = locals[i]
         /\ locals'[Len(locals) + 1] = [name |-> name, type |-> type, index |-> localIndex]
BY SlotsType DEF TypeOK, addLocal, nextIndex

(* What a statement declares is there.                                     *)
LEMMA DeclareHolds ==
  ASSUME Declare
  PROVE  /\ Holds(locals, globals)'
         /\ DOMAIN store \subseteq DOMAIN store'
BY DEF Declare, Holds

-----------------------------------------------------------------------------
(* The invariants hold at first.                                           *)
LEMMA InitHolds ==
  ASSUME Init
  PROVE  TypeOK /\ LocalsDisjoint /\ StoreHolds
<1>1. TypeOK
  BY FunctionsAssumption, MaxLengthAssumption DEF Init, TypeOK, Function
<1>2. LocalsDisjoint
  BY DEF Init, LocalsDisjoint
<1>3. Len(locals) <= Len(function.arguments)
  BY <1>1, FunctionType DEF Init
<1>4. Holds(function.arguments, globals) /\ <<"result">> \in DOMAIN store
  BY DEF Init, Holds
<1> QED BY <1>1, <1>2, <1>3, <1>4 DEF Init, StoreHolds, Idle

(* A variable added to others that are disjoint is disjoint from them.     *)
LEMMA AddLocalDisjoint ==
  ASSUME TypeOK, LocalsDisjoint, NEW name \in Names, NEW type \in Types, addLocal(name, type)
  PROVE  LocalsDisjoint'
<1> DEFINE end(i) == locals[i].index + Len(Slots[locals[i].type])
           n == Len(locals) + 1
<1>1. /\ locals \in Seq([name: Names, type: Types, index: Nat])
      /\ localIndex \in Nat
  BY DEF TypeOK
<1>2. /\ locals' \in Seq([name: Names, type: Types, index: Nat])
      /\ Len(locals') = n
      /\ \A i \in DOMAIN locals : i \in DOMAIN locals' /\ locals'[i] = locals[i]
      /\ locals'[n] = [name |-> name, type |-> type, index |-> localIndex]
  BY AddLocalType
<1>3. localIndex' = localIndex + Len(Slots[type]) /\ Len(Slots[type]) \in Nat
  BY SlotsType DEF addLocal, nextIndex
<1>4. \A i \in DOMAIN locals : locals[i].index \in Nat /\ Len(Slots[locals[i].type]) \in Nat
  <2>1. \A i \in DOMAIN locals : locals[i] \in [name: Names, type: Types, index: Nat]
    BY <1>1, ElementType
  <2> QED BY <2>1, SlotsType
<1>5. \A i \in DOMAIN locals :
        end(i) <= localIndex /\ \A j \in DOMAIN locals : i < j => end(i) <= locals[j].index
  BY DEF LocalsDisjoint
<1>6. DOMAIN locals' = DOMAIN locals \cup {n} /\ \A i \in DOMAIN locals : i < n
  BY <1>1, <1>2
<1> SUFFICES ASSUME NEW i \in DOMAIN locals'
             PROVE  LET last == locals'[i].index + Len(Slots[locals'[i].type])
                    IN  /\ last <= localIndex'
                        /\ \A j \in DOMAIN locals' : i < j => last <= locals'[j].index
  BY DEF LocalsDisjoint
<1>7. CASE i = n
  <2>1. \A j \in DOMAIN locals' : ~(i < j)
    BY <1>1, <1>6, <1>7
  <2> QED BY <1>1, <1>2, <1>3, <1>7, <2>1
<1>8. CASE i \in DOMAIN locals
  <2>1. locals'[i] = locals[i] /\ end(i) <= localIndex /\ end(i) \in Nat
    BY <1>2, <1>4, <1>5, <1>8
  <2>2. ASSUME NEW j \in DOMAIN locals', i < j
        PROVE  end(i) <= locals'[j].index
    <3>1. CASE j = n
      BY <1>2, <2>1, <3>1
    <3>2. CASE j \in DOMAIN locals
      BY <1>2, <1>5, <1>8, <2>2, <3>2
    <3> QED BY <1>6, <3>1, <3>2
  <2> QED BY <1>1, <1>3, <2>1, <2>2
<1> QED BY <1>6, <1>7, <1>8

(* Variables that stay are as disjoint as before.                          *)
LEMMA LocalsKept ==
  ASSUME LocalsDisjoint, UNCHANGED <<locals, localIndex>>
  PROVE  LocalsDisjoint'
BY DEF LocalsDisjoint

-----------------------------------------------------------------------------
(* One lemma per action.                                                   *)

(* The constructor of ir::Function.                                        *)
LEMMA AddArgumentStep ==
  ASSUME TypeOK, LocalsDisjoint, StoreHolds, AddArgument
  PROVE  TypeOK' /\ LocalsDisjoint' /\ StoreHolds'
<1> DEFINE n == Len(locals) + 1
           argument == function.arguments[n]
<1>1. locals \in Seq([name: Names, type: Types, index: Nat]) /\ Len(locals) \in Nat
  BY DEF TypeOK
<1>2. n \in DOMAIN function.arguments /\ argument \in Variable
  BY <1>1, FunctionType DEF AddArgument
<1>3. argument.name \in Names /\ argument.type \in Types
  BY <1>2 DEF Variable
<1>4. addLocal(argument.name, argument.type)
  BY DEF AddArgument
<1>5. LocalsDisjoint'
  BY <1>3, <1>4, AddLocalDisjoint
<1>6. /\ locals' \in Seq([name: Names, type: Types, index: Nat])
      /\ localIndex' \in Nat /\ Len(locals') = n
      /\ \A i \in DOMAIN locals : i \in DOMAIN locals' /\ locals'[i] = locals[i]
      /\ locals'[n] = [name |-> argument.name, type |-> argument.type, index |-> localIndex]
  <2> HIDE DEF argument
  <2> QED BY <1>3, <1>4, AddLocalType
<1>7. TypeOK'
  BY <1>6 DEF AddArgument, TypeOK
<1>8. \A i \in DOMAIN locals' : locals'[i].type = function.arguments[i].type
  <2>1. DOMAIN locals' = DOMAIN locals \cup {n}
    BY <1>1, <1>6
  <2>2. locals'[n].type = function.arguments[n].type
    BY <1>6
  <2>3. \A i \in DOMAIN locals : locals'[i].type = function.arguments[i].type
    BY <1>6 DEF StoreHolds, AddArgument
  <2> QED BY <2>1, <2>2, <2>3
<1>9. Len(locals') <= Len(function.arguments)
  BY <1>1, <1>6, FunctionType DEF AddArgument
<1>10. Holds(function.arguments, globals)'
  BY DEF StoreHolds, AddArgument, Holds, declared
<1> QED BY <1>5, <1>7, <1>8, <1>9, <1>10 DEF StoreHolds, AddArgument

(* The arguments are the locals of the body.                               *)
LEMMA EnterBodyStep ==
  ASSUME TypeOK, LocalsDisjoint, StoreHolds, EnterBody
  PROVE  TypeOK' /\ LocalsDisjoint' /\ StoreHolds'
<1>1. TypeOK'
  BY DEF EnterBody, scope, TypeOK
<1>2. LocalsDisjoint'
  BY LocalsKept DEF EnterBody, scope
<1>3. wasmLocals(locals) = wasmLocals(function.arguments)
  <2>1. DOMAIN locals = DOMAIN function.arguments
    BY FunctionType DEF TypeOK, EnterBody
  <2>2. \A i \in DOMAIN locals : locals[i].type = function.arguments[i].type
    BY DEF StoreHolds, EnterBody
  <2>3. [i \in DOMAIN locals |-> Slots[locals[i].type]]
          = [i \in DOMAIN function.arguments |-> Slots[function.arguments[i].type]]
    BY <2>1, <2>2
  <2> QED BY <2>3 DEF wasmLocals
<1>4. declared(locals, globals) = declared(function.arguments, globals)
  BY <1>3 DEF declared
<1>5. Holds(locals, globals)
  BY <1>4 DEF StoreHolds, EnterBody, Holds
<1>6. Holds(locals, globals)'
  BY <1>5 DEF EnterBody, scope, Holds
<1> QED BY <1>1, <1>2, <1>6 DEF StoreHolds, EnterBody

(* A declaration.                                                          *)
LEMMA LetStep ==
  ASSUME TypeOK, LocalsDisjoint, StoreHolds, NEW s \in Statements, CompileLet(s)
  PROVE  TypeOK' /\ LocalsDisjoint' /\ StoreHolds'
<1> DEFINE type == SourceType(locals, globals, s.from)
<1>1. Begin(s) /\ Declare /\ s.name \in Names
  BY StatementName DEF CompileLet
<1>2. /\ status = "running" /\ length' \in 0..MaxLength /\ length' < MaxLength
      /\ function' = function /\ function' \in Functions
      /\ statement' \in Statements /\ type \in Types
  BY <1>1, BeginType
<1>3. PICK instructions : Emit(instructions)
  BY DEF CompileLet
<1>4. /\ Holds(locals, globals)'
      /\ <<"result">> \in DOMAIN store'
  BY <1>1, DeclareHolds DEF StoreHolds
<1>5. /\ code' \in Seq(Instruction)
      /\ \A i \in DOMAIN code' : code'[i].to[1] = "memory" \/ code'[i].to \in DOMAIN store'
      /\ status' \in {"arguments", "running", "returned", "invalid"}
      /\ status' # "arguments"
  BY <1>2, <1>3, <1>4, EmittedType
<1>6. CASE addLocal(s.name, type) /\ UNCHANGED globals
  <2>1. LocalsDisjoint'
    BY <1>1, <1>2, <1>6, AddLocalDisjoint
  <2>2. locals' \in Seq([name: Names, type: Types, index: Nat]) /\ localIndex' \in Nat
    BY <1>1, <1>2, <1>6, AddLocalType
  <2>3. globals' \in Seq(Variable)
    BY <1>6 DEF TypeOK
  <2> QED BY <1>2, <1>4, <1>5, <2>1, <2>2, <2>3 DEF TypeOK, StoreHolds
<1>7. CASE /\ globals' = Append(globals, [name |-> s.name, type |-> type])
           /\ UNCHANGED <<locals, localIndex>>
  <2>1. LocalsDisjoint'
    BY <1>7, LocalsKept
  <2>2. globals' \in Seq(Variable)
    BY <1>1, <1>2, <1>7 DEF TypeOK, Variable
  <2>3. locals' \in Seq([name: Names, type: Types, index: Nat]) /\ localIndex' \in Nat
    BY <1>7 DEF TypeOK
  <2> QED BY <1>2, <1>4, <1>5, <2>1, <2>2, <2>3 DEF TypeOK, StoreHolds
<1> QED BY <1>6, <1>7 DEF CompileLet

(* The other statements declare nothing.                                   *)
LEMMA PlainStep ==
  ASSUME TypeOK, LocalsDisjoint, StoreHolds, status # "arguments",
         UNCHANGED <<function, locals, localIndex, globals, store>>,
         NEW instructions, Emit(instructions), length' \in 0..MaxLength,
         statement'.do \notin {"nothing", "end"} => length' < MaxLength,
         statement' \in Statements \cup {Idle, EndOfBody}
  PROVE  TypeOK' /\ LocalsDisjoint' /\ StoreHolds'
<1>1. Holds(locals, globals)'
  BY DEF StoreHolds, Holds
<1>2. <<"result">> \in DOMAIN store'
  BY DEF StoreHolds
<1>3. /\ code' \in Seq(Instruction)
      /\ \A i \in DOMAIN code' : code'[i].to[1] = "memory" \/ code'[i].to \in DOMAIN store'
      /\ status' \in {"arguments", "running", "returned", "invalid"}
      /\ status' # "arguments"
  BY <1>1, <1>2, EmittedType
<1>4. TypeOK'
  BY <1>3 DEF TypeOK
<1>5. LocalsDisjoint'
  BY LocalsKept
<1> QED BY <1>1, <1>2, <1>3, <1>4, <1>5 DEF StoreHolds

(* An assignment or a return.                                              *)
LEMMA AssignStep ==
  ASSUME TypeOK, LocalsDisjoint, StoreHolds, NEW s \in Statements,
         CompileAssign(s) \/ CompileReturn(s)
  PROVE  TypeOK' /\ LocalsDisjoint' /\ StoreHolds'
<1>1. Begin(s) /\ UNCHANGED <<locals, localIndex, globals, store>>
  BY DEF CompileAssign, CompileReturn
<1>2. PICK instructions : Emit(instructions)
  BY DEF CompileAssign, CompileReturn
<1>3. /\ status = "running" /\ length' \in 0..MaxLength /\ length' < MaxLength
      /\ function' = function /\ statement' \in Statements
  BY <1>1, BeginType
<1> QED BY <1>1, <1>2, <1>3, PlainStep

(* The end of the body.                                                    *)
LEMMA EndStep ==
  ASSUME TypeOK, LocalsDisjoint, StoreHolds, CompileEnd
  PROVE  TypeOK' /\ LocalsDisjoint' /\ StoreHolds'
<1>1. status = "running" /\ UNCHANGED <<function, locals, localIndex, globals, store>>
  BY DEF CompileEnd, Ready, scope
<1>2. /\ statement' = EndOfBody /\ statement'.do = "end"
      /\ length' \in 0..MaxLength
  BY DEF CompileEnd, TypeOK, EndOfBody
<1>3. Emit(WriteBack)
  BY DEF CompileEnd
<1> QED BY <1>1, <1>2, <1>3, PlainStep

(* An instruction.                                                         *)
LEMMA InstructionStep ==
  ASSUME TypeOK, LocalsDisjoint, StoreHolds, Set \/ Store
  PROVE  TypeOK' /\ LocalsDisjoint' /\ StoreHolds'
<1>1. /\ code # <<>> /\ code' = Tail(code) /\ DOMAIN store' = DOMAIN store
      /\ UNCHANGED <<function, locals, localIndex, globals, statement, length, status>>
  BY DEF Set, Store, Running, scope
<1>2. /\ code' \in Seq(Instruction)
      /\ \A i \in DOMAIN code' : i + 1 \in DOMAIN code /\ code'[i] = code[i + 1]
  BY <1>1 DEF TypeOK
<1>3. TypeOK'
  BY <1>1, <1>2 DEF TypeOK
<1>4. LocalsDisjoint'
  BY <1>1, LocalsKept
<1>5. StoreHolds'
  BY <1>1 DEF StoreHolds, Holds
<1> QED BY <1>3, <1>4, <1>5

(* The end of a statement.                                                 *)
LEMMA DoneStep ==
  ASSUME TypeOK, LocalsDisjoint, StoreHolds, Done
  PROVE  TypeOK' /\ LocalsDisjoint' /\ StoreHolds'
<1>1. UNCHANGED <<function, locals, localIndex, globals, store, code>>
  BY DEF Done, scope
<1>2. /\ status = "running" /\ status' \in {"running", "returned"}
      /\ statement' = Idle /\ statement'.do = "nothing"
  BY DEF Done, Idle
<1>3. length' \in 0..MaxLength
  <2>1. CASE statement.do = "end"
    BY <2>1 DEF Done, TypeOK
  <2>2. CASE statement.do # "end"
    <3>1. statement.do # "nothing"
      BY DEF Done, TypeOK, Statements, Idle, EndOfBody
    <3>2. length < MaxLength /\ length' = length + 1
      BY <2>2, <3>1 DEF Done, StoreHolds
    <3> QED BY <3>2, MaxLengthAssumption DEF TypeOK
  <2> QED BY <2>1, <2>2
<1>4. TypeOK'
  BY <1>1, <1>2, <1>3 DEF TypeOK
<1>5. LocalsDisjoint'
  BY <1>1, LocalsKept
<1>6. StoreHolds'
  BY <1>1, <1>2 DEF StoreHolds, Holds
<1> QED BY <1>4, <1>5, <1>6

-----------------------------------------------------------------------------
Inv == TypeOK /\ LocalsDisjoint /\ StoreHolds

(* The three are inductive together: every action keeps them.              *)
THEOREM Invariance == Spec => []Inv
<1>1. Init => Inv
  BY InitHolds DEF Inv
<1>2. Inv /\ [Next]_vars => Inv'
  <2> SUFFICES ASSUME TypeOK, LocalsDisjoint, StoreHolds, [Next]_vars
               PROVE  TypeOK' /\ LocalsDisjoint' /\ StoreHolds'
    BY DEF Inv
  <2>1. CASE AddArgument
    BY <2>1, AddArgumentStep
  <2>2. CASE EnterBody
    BY <2>2, EnterBodyStep
  <2>3. ASSUME NEW s \in Statements, CompileLet(s)
        PROVE  TypeOK' /\ LocalsDisjoint' /\ StoreHolds'
    BY <2>3, LetStep
  <2>4. ASSUME NEW s \in Statements, CompileAssign(s) \/ CompileReturn(s)
        PROVE  TypeOK' /\ LocalsDisjoint' /\ StoreHolds'
    BY <2>4, AssignStep
  <2>5. CASE CompileEnd
    BY <2>5, EndStep
  <2>6. CASE Set \/ Store
    BY <2>6, InstructionStep
  <2>7. CASE Done
    BY <2>7, DoneStep
  <2>8. CASE UNCHANGED vars
    <3>1. UNCHANGED <<function, locals, localIndex, globals, store, code, statement, length, status>>
      BY <2>8 DEF vars, scope
    <3>2. TypeOK' /\ StoreHolds'
      BY <3>1 DEF TypeOK, StoreHolds, Holds
    <3> QED BY <3>1, <3>2, LocalsKept
  <2> QED BY <2>1, <2>2, <2>3, <2>4, <2>5, <2>6, <2>7, <2>8 DEF Next
<1> QED BY <1>1, <1>2, PTL DEF Spec

(* Indices, places and lengths stay in their types, and whatever a         *)
(* statement compiles to writes only memory and what finalize and          *)
(* makeDefinition declare.                                                 *)
THEOREM TypeCorrect == Spec => []TypeOK
BY Invariance, PTL DEF Inv

(* Function::addLocal never gives two variables of a function the same     *)
(* wasm local, for all classes, arguments and bodies.                      *)
THEOREM NoSharedLocals == Spec => []LocalsDisjoint
BY Invariance, PTL DEF Inv

-----------------------------------------------------------------------------
(* The refinement: Storage implements Variables. A statement has a plan, a *)
(* set of pairs of a place and the value it is to have in the end. No two  *)
(* of its places meet (Distinct); each instruction moves the value planned *)
(* (Sound); and every pair has an instruction (Covers) or its value        *)
(* already. Each instruction keeps that (Pending), so that in the end      *)
(* every place holds what was planned, and Done makes it visible. Phases   *)
(* is the invariant: there is such a plan while a statement runs. The      *)
(* first sections are about sequences, sizes and members, the next about   *)
(* each kind of place, the last about the statements and the end of the    *)
(* body.                                                                   *)

-----------------------------------------------------------------------------
(* Recursion along a sequence.                                             *)

(* A set of numbers that has the first and with each the next has all.     *)
LEMMA CountingUp ==
  ASSUME NEW a \in Nat, NEW b \in Nat, NEW S,
         a <= b => a \in S,
         \A k \in a..b : k \in S /\ k < b => k + 1 \in S
  PROVE  \A k \in a..b : k \in S
<1> DEFINE bad == {k \in a..b : k \notin S}
           R == OpToRel(<, Nat)
<1> SUFFICES ASSUME bad # {} PROVE FALSE
  OBVIOUS
<1>1. IsWellFoundedOn(R, Nat)
  BY NatLessThanWellFounded
<1>2. \A x \in Nat, y \in Nat : y < x => <<y, x>> \in R
  BY DEF OpToRel
<1> HIDE DEF R
<1>3. PICK x \in bad : \A y \in bad : ~ (<<y, x>> \in R)
  <2>1. bad \subseteq Nat
    OBVIOUS
  <2> QED BY <1>1, <2>1, WFMin
<1>4. x \in Nat /\ x - 1 \in Nat /\ x - 1 < x /\ x - 1 \in a..b /\ x - 1 < b /\ (x - 1) + 1 = x
  OBVIOUS
<1>5. x - 1 \in bad
  BY <1>4
<1> QED BY <1>2, <1>3, <1>4, <1>5

(* What is computed step by step exists, and stays where the steps stay.   *)
Steps(g, a, n, x, f) == \A k \in a..n : g[k] = IF k = a THEN x ELSE f[<<k, g[k - 1]>>]
(* Such a sequence of steps exists.                                        *)
LEMMA Recursion ==
  ASSUME NEW a \in Nat, NEW n \in Nat, NEW D, NEW x \in D, NEW f,
         \A k \in (a + 1)..n, v \in D : f[<<k, v>>] \in D
  PROVE  \E g \in [a..n -> D] : Steps(g, a, n, x, f)
<1> DEFINE Upto(m) == \E g \in [a..m -> D] : Steps(g, a, m, x, f)
           S == {m \in a..n : Upto(m)}
<1>1. a <= n => a \in S
  <2> DEFINE g == [k \in a..a |-> x]
  <2>1. \A k \in a..a : k = a
    OBVIOUS
  <2>2. g \in [a..a -> D] /\ Steps(g, a, a, x, f)
    BY <2>1 DEF Steps
  <2> HIDE DEF g
  <2> QED BY <2>2
<1>2. ASSUME NEW m \in a..n, m \in S, m < n PROVE m + 1 \in S
  <2>1. PICK g \in [a..m -> D] : Steps(g, a, m, x, f)
    BY <1>2
  <2>2. m \in Nat /\ m + 1 \in a..n /\ m + 1 # a /\ a..m \subseteq a..(m + 1) /\ g[m] \in D
    <3>1. m \in a..m
      BY <1>2
    <3> QED BY <1>2, <3>1
  <2> DEFINE h == [k \in a..(m + 1) |-> IF k = m + 1 THEN f[<<m + 1, g[m]>>] ELSE g[k]]
  <2>3. h \in [a..(m + 1) -> D]
    <3> SUFFICES ASSUME NEW k \in a..(m + 1), k # m + 1 PROVE g[k] \in D
      BY <2>2
    <3> QED BY <2>2
  <2>4. h[m + 1] = f[<<m + 1, g[m]>>] /\ \A k \in a..m : h[k] = g[k]
    BY <2>2
  <2> HIDE DEF h
  <2>5. ASSUME NEW k \in a..(m + 1) PROVE h[k] = IF k = a THEN x ELSE f[<<k, h[k - 1]>>]
    <3>1. CASE k = m + 1
      BY <2>2, <2>4, <3>1
    <3>2. CASE k # m + 1
      <4>1. k \in a..m /\ (k # a => k - 1 \in a..m)
        BY <2>2, <3>2
      <4>2. g[k] = IF k = a THEN x ELSE f[<<k, g[k - 1]>>]
        BY <2>1, <4>1 DEF Steps
      <4> QED BY <2>4, <4>1, <4>2
    <3> QED BY <3>1, <3>2
  <2>6. Steps(h, a, m + 1, x, f)
    BY <2>5 DEF Steps
  <2> HIDE DEF S
  <2>7. Upto(m + 1)
    BY <2>3, <2>6
  <2> QED BY <2>2, <2>7 DEF S
<1>3. CASE a <= n
  <2>1. n \in a..n
    BY <1>3
  <2>2. \A k \in a..n : k \in S
    <3> HIDE DEF S
    <3> QED BY <1>1, <1>2, CountingUp
  <2> QED BY <2>1, <2>2
<1>4. CASE ~(a <= n)
  <2>1. \A k : k \notin a..n
    BY <1>4
  <2>2. [k \in a..n |-> x] \in [a..n -> D] /\ Steps([k \in a..n |-> x], a, n, x, f)
    BY <2>1 DEF Steps
  <2> QED BY <2>2
<1> QED BY <1>3, <1>4

-----------------------------------------------------------------------------
(* Sizes in memory.                                                        *)

SizesOf(L, g) == \A k \in 0..Len(L) : g[k] = IF k = 0 THEN 0 ELSE g[k - 1] + Bytes[L[k]]
(* The sizes of the slots of a value are positive numbers.                 *)
LEMMA BytesType ==
  ASSUME NEW L \in Seq(Basis)
  PROVE  /\ Len(L) \in Nat /\ DOMAIN L = 1..Len(L)
         /\ \A k \in 1..Len(L) : L[k] \in Basis /\ Bytes[L[k]] \in Nat /\ Bytes[L[k]] >= 1
<1>1. \A b \in Basis : Bytes[b] \in Nat \ {0}
  BY LayoutAssumption
<1> QED BY <1>1

(* The sums of the sizes exist, and the last of them is getSize.           *)
LEMMA SizesExist ==
  ASSUME NEW L \in Seq(Basis)
  PROVE  \E g \in [0..Len(L) -> Nat] : SizesOf(L, g) /\ getSize(L) = g[Len(L)]
<1> DEFINE n == Len(L)
           f == [z \in (1..n) \X Nat |-> z[2] + Bytes[L[z[1]]]]
           Q(g) == g = [k \in 0..n |-> IF k = 0 THEN 0 ELSE g[k - 1] + Bytes[L[k]]]
           c == CHOOSE g : Q(g)
<1>1. n \in Nat /\ \A k \in 1..n : Bytes[L[k]] \in Nat
  BY BytesType
<1>2. \A k \in 1..n, v \in Nat : f[<<k, v>>] = v + Bytes[L[k]]
  OBVIOUS
<1>3. getSize(L) = c[n]
  BY DEF getSize
<1> HIDE DEF f, n
<1>4. PICK g \in [0..n -> Nat] : Steps(g, 0, n, 0, f)
  <2>1. (0 + 1)..n = 1..n
    BY <1>1
  <2>2. ASSUME NEW k \in 1..n, NEW v \in Nat PROVE f[<<k, v>>] \in Nat
    BY <1>1, <1>2
  <2> QED BY <1>1, <2>1, <2>2, Recursion
<1>5. \A k \in 0..n : g[k] = IF k = 0 THEN 0 ELSE g[k - 1] + Bytes[L[k]]
  <2> SUFFICES ASSUME NEW k \in 0..n, k # 0 PROVE g[k] = g[k - 1] + Bytes[L[k]]
    BY <1>4 DEF Steps
  <2>1. k \in 1..n /\ k - 1 \in 0..n
    BY <1>1
  <2> QED BY <1>2, <1>4, <2>1 DEF Steps
<1>6. Q(g)
  BY <1>5
<1>7. Q(c)
  BY <1>6
<1> HIDE DEF c
<1> DEFINE S == {k \in 0..n : c[k] = g[k]}
<1>8. 0 \in S
  BY <1>1, <1>5, <1>7
<1>9. ASSUME NEW k \in 0..n, k \in S, k < n PROVE k + 1 \in S
  <2>1. k + 1 \in 0..n /\ k + 1 # 0 /\ (k + 1) - 1 = k
    BY <1>1, <1>9
  <2>2. c[k + 1] = c[k] + Bytes[L[k + 1]]
    BY <1>7, <2>1
  <2> QED BY <1>5, <1>9, <2>1, <2>2
<1>10. \A k \in 0..n : k \in S
  <2> HIDE DEF S, Q
  <2>1. 0 \in Nat /\ n \in Nat /\ (0 <= n => 0 \in S)
    BY <1>1, <1>8
  <2> QED BY <1>9, <2>1, CountingUp
<1>11. getSize(L) = g[n]
  BY <1>1, <1>3, <1>10
<1>12. SizesOf(L, g)
  BY <1>5 DEF SizesOf, n
<1> QED BY <1>11, <1>12 DEF n

(* The size of a beginning is what came before.                            *)
LEMMA SizesOfBeginnings ==
  ASSUME NEW L \in Seq(Basis)
  PROVE  \E g \in [0..Len(L) -> Nat] :
           SizesOf(L, g) /\ \A k \in 0..Len(L) : getSize(SubSeq(L, 1, k)) = g[k]
<1>1. PICK g \in [0..Len(L) -> Nat] : SizesOf(L, g)
  BY SizesExist
<1>2. ASSUME NEW k \in 0..Len(L) PROVE getSize(SubSeq(L, 1, k)) = g[k]
  <2> DEFINE P == SubSeq(L, 1, k)
  <2>1. P \in Seq(Basis) /\ Len(P) = k /\ \A i \in 1..k : P[i] = L[i]
    BY SubSeqProperties
  <2> HIDE DEF P
  <2>2. PICK h \in [0..k -> Nat] : SizesOf(P, h) /\ getSize(P) = h[k]
    BY <2>1, SizesExist
  <2> DEFINE S == {i \in 0..k : h[i] = g[i]}
  <2>3. 0 \in S
    BY <1>1, <2>1, <2>2 DEF SizesOf
  <2>4. ASSUME NEW i \in 0..k, i \in S, i < k PROVE i + 1 \in S
    <3>1. i + 1 \in 0..k /\ i + 1 \in 0..Len(L) /\ i + 1 # 0 /\ (i + 1) - 1 = i /\ i + 1 \in 1..k
      BY <2>4
    <3>2. h[i + 1] = h[i] + Bytes[P[i + 1]]
      BY <2>1, <2>2, <3>1 DEF SizesOf
    <3>3. g[i + 1] = g[i] + Bytes[L[i + 1]]
      BY <1>1, <3>1 DEF SizesOf
    <3> QED BY <2>1, <2>4, <3>1, <3>2, <3>3
  <2>5. \A i \in 0..k : i \in S
    <3> HIDE DEF S
    <3>1. 0 \in Nat /\ k \in Nat /\ (0 <= k => 0 \in S)
      BY <2>3
    <3> QED BY <2>4, <3>1, CountingUp
  <2> QED BY <2>2, <2>5 DEF P
<1> QED BY <1>1, <1>2

(* The places of a value in memory follow each other.                      *)
SizeBefore(L, k) == getSize(SubSeq(L, 1, k - 1))
(* Each slot starts where those before it end or behind.                   *)
LEMMA MemoryOffsets ==
  ASSUME NEW L \in Seq(Basis)
  PROVE  /\ getSize(L) \in Nat
         /\ \A k \in DOMAIN L : SizeBefore(L, k) \in Nat /\ SizeBefore(L, k) + Bytes[L[k]] <= getSize(L)
         /\ \A j, k \in DOMAIN L : j < k => SizeBefore(L, j) + Bytes[L[j]] <= SizeBefore(L, k)
<1> DEFINE n == Len(L)
<1>1. n \in Nat /\ DOMAIN L = 1..n /\ \A k \in 1..n : Bytes[L[k]] \in Nat
  BY BytesType
<1>2. PICK g \in [0..n -> Nat] : SizesOf(L, g) /\ \A k \in 0..n : getSize(SubSeq(L, 1, k)) = g[k]
  BY SizesOfBeginnings
<1>3. getSize(L) = g[n]
  <2>1. SubSeq(L, 1, n) = L
    OBVIOUS
  <2> QED BY <1>1, <1>2, <2>1
<1>4. \A k \in 1..n : SizeBefore(L, k) = g[k - 1] /\ g[k] = g[k - 1] + Bytes[L[k]]
                      /\ k - 1 \in 0..n /\ k \in 0..n
  BY <1>1, <1>2 DEF SizeBefore, SizesOf
<1> HIDE DEF n
<1>5. ASSUME NEW j \in 0..n PROVE \A k \in j..n : g[j] <= g[k]
  <2> DEFINE S == {k \in j..n : g[j] <= g[k]}
  <2>1. j \in S
    BY <1>1
  <2>2. ASSUME NEW k \in j..n, k \in S, k < n PROVE k + 1 \in S
    <3>1. k + 1 \in 1..n /\ k + 1 \in j..n /\ (k + 1) - 1 = k /\ k \in 0..n /\ k + 1 \in 0..n
      BY <1>1, <2>2
    <3>2. g[k + 1] = g[k] + Bytes[L[k + 1]] /\ g[k] \in Nat /\ g[j] \in Nat /\ Bytes[L[k + 1]] \in Nat
      BY <1>1, <1>2, <1>4, <3>1
    <3> QED BY <2>2, <3>1, <3>2
  <2>3. \A k \in j..n : k \in S
    <3> HIDE DEF S
    <3>1. j \in Nat
      BY <1>1
    <3> QED BY <1>1, <2>1, <2>2, <3>1, CountingUp
  <2> QED BY <2>3
<1>6. \A k \in 1..n : SizeBefore(L, k) \in Nat /\ SizeBefore(L, k) + Bytes[L[k]] <= getSize(L)
  <2> SUFFICES ASSUME NEW k \in 1..n PROVE g[k - 1] \in Nat /\ g[k] <= g[n]
    BY <1>3, <1>4
  <2> QED BY <1>1, <1>4, <1>5
<1>7. \A j, k \in 1..n : j < k => SizeBefore(L, j) + Bytes[L[j]] <= SizeBefore(L, k)
  <2> SUFFICES ASSUME NEW j \in 1..n, NEW k \in 1..n, j < k PROVE g[j] <= g[k - 1]
    BY <1>4
  <2>1. j \in 0..n /\ k - 1 \in j..n
    BY <1>1
  <2> QED BY <1>5, <2>1
<1>8. getSize(L) \in Nat
  BY <1>1, <1>2, <1>3
<1> QED BY <1>1, <1>6, <1>7, <1>8
-----------------------------------------------------------------------------
(* Flattening: where the parts of sequences are.                           *)

Joined(s, g) == \A k \in 1..Len(s) : g[k] = IF k = 1 THEN s[k] ELSE g[k - 1] \o s[k]
(* FlattenSeq is computed sequence by sequence.                            *)
LEMMA FlattenSteps ==
  ASSUME NEW S, NEW s \in Seq(Seq(S)), s # <<>>
  PROVE  \E g \in [1..Len(s) -> Seq(S)] : Joined(s, g) /\ FlattenSeq(s) = g[Len(s)]
<1> DEFINE n == Len(s)
           f == [z \in (1..n) \X Seq(S) |-> z[2] \o s[z[1]]]
           Q(g) == g = [k \in 1..n |-> IF k = 1 THEN s[k] ELSE g[k - 1] \o s[k]]
           c == CHOOSE g : Q(g)
<1>1. n \in Nat /\ n >= 1 /\ \A k \in 1..n : s[k] \in Seq(S)
  OBVIOUS
<1>2. \A k \in 1..n, v \in Seq(S) : f[<<k, v>>] = v \o s[k]
  OBVIOUS
<1>3. FlattenSeq(s) = c[n]
  BY <1>1 DEF FlattenSeq
<1> HIDE DEF f, n
<1>4. PICK g \in [1..n -> Seq(S)] : Steps(g, 1, n, s[1], f)
  <2>1. ASSUME NEW k \in (1 + 1)..n, NEW v \in Seq(S) PROVE f[<<k, v>>] \in Seq(S)
    <3>1. k \in 1..n
      BY <1>1
    <3>2. f[<<k, v>>] = v \o s[k] /\ s[k] \in Seq(S)
      BY <1>1, <1>2, <3>1
    <3> QED BY <3>2
  <2>2. 1 \in Nat /\ s[1] \in Seq(S)
    BY <1>1
  <2> QED BY <1>1, <2>1, <2>2, Recursion
<1>5. ASSUME NEW k \in 1..n PROVE g[k] = IF k = 1 THEN s[k] ELSE g[k - 1] \o s[k]
  <2>1. g[k] = IF k = 1 THEN s[1] ELSE f[<<k, g[k - 1]>>]
    BY <1>4 DEF Steps
  <2>2. CASE k # 1
    <3>1. g[k - 1] \in Seq(S)
      BY <1>1, <2>2
    <3> QED BY <1>2, <2>1, <2>2, <3>1
  <2> QED BY <2>1, <2>2
<1>6. Q(g)
  BY <1>5
<1>7. Q(c)
  BY <1>6
<1> HIDE DEF c
<1> DEFINE T == {k \in 1..n : c[k] = g[k]}
<1>8. 1 \in T
  <2>1. 1 \in 1..n
    BY <1>1
  <2> QED BY <1>5, <1>7, <2>1
<1>9. ASSUME NEW k \in 1..n, k \in T, k < n PROVE k + 1 \in T
  <2>1. k + 1 \in 1..n /\ k + 1 # 1 /\ (k + 1) - 1 = k
    BY <1>1, <1>9
  <2>2. c[k + 1] = c[k] \o s[k + 1]
    BY <1>7, <2>1
  <2>3. g[k + 1] = g[k] \o s[k + 1]
    BY <1>5, <2>1
  <2> QED BY <1>9, <2>1, <2>2, <2>3
<1>10. \A k \in 1..n : k \in T
  <2> HIDE DEF T, Q
  <2>1. 1 \in Nat /\ n \in Nat /\ (1 <= n => 1 \in T)
    BY <1>1, <1>8
  <2> QED BY <1>9, <2>1, CountingUp
<1>11. FlattenSeq(s) = g[n]
  BY <1>1, <1>3, <1>10
<1>12. Joined(s, g)
  BY <1>5 DEF Joined, n
<1> QED BY <1>11, <1>12 DEF n

(* The k-th sequence starts behind o[k] elements.                          *)
Offsets(s, o) ==
  /\ o \in [1..(Len(s) + 1) -> Nat] /\ o[1] = 0
  /\ \A k \in 1..Len(s) : o[k + 1] = o[k] + Len(s[k])
(* And its elements are those of the sequences, in their order.            *)
LEMMA Flattened ==
  ASSUME NEW S, NEW s \in Seq(Seq(S)), NEW o, Offsets(s, o)
  PROVE  /\ FlattenSeq(s) \in Seq(S) /\ Len(FlattenSeq(s)) = o[Len(s) + 1]
         /\ \A k \in 1..Len(s) : \A j \in 1..Len(s[k]) :
              /\ FlattenSeq(s)[o[k] + j] = s[k][j]
              /\ o[k] + j \in 1..Len(FlattenSeq(s))
<1> DEFINE n == Len(s)
<1>1. n \in Nat /\ \A k \in 1..n : s[k] \in Seq(S) /\ Len(s[k]) \in Nat
  OBVIOUS
<1>2. /\ o[1] = 0 /\ \A k \in 1..(n + 1) : o[k] \in Nat
      /\ \A k \in 1..n : o[k + 1] = o[k] + Len(s[k])
  BY DEF Offsets
<1>3. CASE s = <<>>
  <2>1. n = 0 /\ FlattenSeq(s) = s
    BY <1>3 DEF FlattenSeq
  <2>2. 1..n = {} /\ n + 1 = 1
    BY <2>1
  <2> HIDE DEF n
  <2>3. FlattenSeq(s) \in Seq(S) /\ Len(FlattenSeq(s)) = 0
    <3>1. FlattenSeq(s) = <<>>
      BY <1>3, <2>1
    <3>2. <<>> \in Seq(S) /\ Len(<<>>) = 0
      OBVIOUS
    <3> QED BY <3>1, <3>2
  <2> QED BY <1>2, <2>2, <2>3 DEF n
<1>4. CASE s # <<>>
  <2>1. PICK g \in [1..n -> Seq(S)] : Joined(s, g) /\ FlattenSeq(s) = g[n]
    BY <1>4, FlattenSteps
  <2>2. n >= 1 /\ g[1] = s[1] /\ \A k \in 1..n : k # 1 => g[k] = g[k - 1] \o s[k]
    <3>1. n >= 1
      BY <1>4
    <3>2. \A k \in 1..n : g[k] = IF k = 1 THEN s[k] ELSE g[k - 1] \o s[k]
      BY <2>1 DEF Joined
    <3> HIDE DEF n
    <3>3. 1 \in 1..n
      BY <1>1, <3>1
    <3> QED BY <3>1, <3>2, <3>3
  <2> HIDE DEF n
  <2> DEFINE P(k) == /\ Len(g[k]) = o[k + 1]
                     /\ \A i \in 1..k : o[i + 1] <= o[k + 1]
                     /\ \A i \in 1..k : \A j \in 1..Len(s[i]) : g[k][o[i] + j] = s[i][j]
             T == {k \in 1..n : P(k)}
  <2>3. 1 \in T
    <3>1. \A i \in 1..1 : i = 1
      OBVIOUS
    <3>2. 1 \in 1..n /\ 1 + 1 \in 1..(n + 1) /\ o[1 + 1] = Len(s[1]) /\ Len(s[1]) \in Nat
      BY <1>1, <1>2, <2>2
    <3>3. \A j \in 1..Len(s[1]) : o[1] + j = j
      BY <1>2, <3>2
    <3>4. P(1)
      BY <2>2, <3>1, <3>2, <3>3
    <3> QED BY <3>2, <3>4
  <2>4. ASSUME NEW k \in 1..n, k \in T, k < n PROVE k + 1 \in T
    <3>1. /\ k + 1 \in 1..n /\ k + 1 # 1 /\ (k + 1) - 1 = k /\ k \in Nat
          /\ k + 1 \in 1..(n + 1) /\ (k + 1) + 1 \in 1..(n + 1)
      BY <1>1, <2>4
    <3>2. g[k + 1] = g[k] \o s[k + 1] /\ g[k] \in Seq(S) /\ s[k + 1] \in Seq(S)
      BY <1>1, <2>1, <2>2, <3>1
    <3>9. P(k)
      BY <2>4
    <3>3. /\ o[k + 1 + 1] = o[k + 1] + Len(s[k + 1]) /\ o[k + 1] \in Nat /\ Len(s[k + 1]) \in Nat
          /\ Len(g[k]) = o[k + 1]
      BY <1>1, <1>2, <2>4, <3>1
    <3>4. Len(g[k + 1]) = o[k + 1 + 1]
      <4>1. Len(g[k] \o s[k + 1]) = Len(g[k]) + Len(s[k + 1])
        BY <3>2
      <4> QED BY <3>2, <3>3, <4>1
    <3>5. \A i \in 1..(k + 1) : i = k + 1 \/ i \in 1..k
      BY <3>1
    <3>6. ASSUME NEW i \in 1..(k + 1) PROVE o[i + 1] <= o[k + 1 + 1]
      <4>1. CASE i = k + 1
        BY <1>2, <3>1, <4>1
      <4>2. CASE i \in 1..k
        <5>1. o[i + 1] <= o[k + 1] /\ o[i + 1] \in Nat
          <6>1. i + 1 \in 1..(n + 1)
            BY <1>1, <4>2
          <6> QED BY <1>2, <3>9, <4>2, <6>1
        <5> QED BY <3>3, <5>1
      <4> QED BY <3>5, <4>1, <4>2
    <3>7. ASSUME NEW i \in 1..(k + 1), NEW j \in 1..Len(s[i]) PROVE g[k + 1][o[i] + j] = s[i][j]
      <4>1. CASE i = k + 1
        <5>1. j \in 1..Len(s[k + 1]) /\ o[i] + j = Len(g[k]) + j
          BY <3>3, <4>1
        <5>2. (g[k] \o s[k + 1])[Len(g[k]) + j] = s[k + 1][j]
          BY <3>2, <5>1
        <5> QED BY <3>2, <4>1, <5>1, <5>2
      <4>2. CASE i \in 1..k
        <5>1. /\ o[i] \in Nat /\ o[i + 1] = o[i] + Len(s[i]) /\ Len(s[i]) \in Nat
              /\ o[i + 1] <= o[k + 1] /\ g[k][o[i] + j] = s[i][j]
          <6>1. i \in 1..n /\ i \in 1..(n + 1)
            BY <1>1, <4>2
          <6> QED BY <1>1, <1>2, <3>9, <4>2, <6>1
        <5>2. o[i] + j \in 1..Len(g[k])
          <6> DEFINE a == o[i]
                     b == Len(s[i])
          <6>1. a \in Nat /\ b \in Nat /\ j \in 1..b /\ a + b <= o[k + 1] /\ o[k + 1] = Len(g[k])
            BY <3>3, <5>1
          <6> HIDE DEF a, b
          <6>2. a + j \in 1..o[k + 1]
            BY <3>3, <6>1
          <6> QED BY <6>1, <6>2 DEF a
        <5>3. (g[k] \o s[k + 1])[o[i] + j] = g[k][o[i] + j]
          BY <3>2, <5>2
        <5> QED BY <3>2, <5>1, <5>3
      <4> QED BY <3>5, <4>1, <4>2
    <3>8. P(k + 1)
      BY <3>4, <3>6, <3>7
    <3> QED BY <3>1, <3>8
  <2>5. \A k \in 1..n : k \in T
    <3> HIDE DEF T
    <3>1. 1 \in Nat /\ n \in Nat /\ (1 <= n => 1 \in T)
      BY <1>1, <2>3
    <3> QED BY <2>4, <3>1, CountingUp
  <2>6. n \in 1..n /\ P(n) /\ g[n] \in Seq(S)
    BY <1>1, <2>1, <2>2, <2>5
  <2>7. ASSUME NEW k \in 1..n, NEW j \in 1..Len(s[k]) PROVE o[k] + j \in 1..Len(g[n])
    <3>1. /\ o[k] \in Nat /\ o[k + 1] = o[k] + Len(s[k]) /\ Len(s[k]) \in Nat
          /\ o[k + 1] <= o[n + 1] /\ Len(g[n]) = o[n + 1] /\ o[n + 1] \in Nat
      BY <1>1, <1>2, <2>6
    <3> QED BY <3>1
  <2> QED BY <2>1, <2>6, <2>7 DEF n
<1> QED BY <1>3, <1>4

-----------------------------------------------------------------------------
(* Members.                                                                *)

(* Members have names of fields and types of values.                       *)
LEMMA MembersType ==
  ASSUME NEW c \in Classes
  PROVE  /\ c \in Types /\ Members[c] \in Seq(Field) /\ Len(Members[c]) \in Nat
         /\ DOMAIN Members[c] = 1..Len(Members[c])
         /\ \A i \in DOMAIN Members[c] :
              Members[c][i].type \in Types \ {Void} /\ Members[c][i].name \in FieldNames
<1>1. Members[c] \in Seq(Field)
  BY LayoutAssumption
<1>2. \A i \in DOMAIN Members[c] : Members[c][i] \in Field
  BY <1>1, ElementType
<1> QED BY <1>1, <1>2 DEF Field, Types

(* The i-th member of a class starts at its i-th slot, and its slots are   *)
(* its own.                                                                *)
LEMMA MemberFacts ==
  ASSUME MembersOfOneSlot, NEW c \in Classes, NEW i \in DOMAIN Members[c]
  PROVE  LET t == Members[c][i].type
             before == SubSeq(Members[c], 1, i - 1)
         IN  /\ Len(FlattenSeq([j \in DOMAIN before |-> Slots[before[j].type]])) = i - 1
             /\ i - 1 + Len(Slots[t]) <= Len(Slots[c])
             /\ \A j \in 1..Len(Slots[t]) : Slots[c][i - 1 + j] = Slots[t][j]
             /\ Len(Slots[t]) = 1 \/ i - 1 + Len(Slots[t]) = Len(Slots[c])
<1> DEFINE n == Len(Members[c])
           t == Members[c][i].type
           before == SubSeq(Members[c], 1, i - 1)
           s == [j \in 1..n |-> Slots[Members[c][j].type]]
           b == [j \in 1..(i - 1) |-> Slots[before[j].type]]
<1>1. /\ Members[c] \in Seq(Field) /\ n \in Nat /\ DOMAIN Members[c] = 1..n
      /\ \A j \in 1..n : Members[c][j].type \in Types
  BY MembersType
<1>2. \A j \in 1..n : s[j] \in Seq(Basis) /\ Len(s[j]) \in Nat /\ (j < n => Len(s[j]) = 1)
  BY <1>1, SlotsType DEF MembersOfOneSlot
<1>3. s \in Seq(Seq(Basis)) /\ Len(s) = n /\ Slots[c] = FlattenSeq(s)
  <2>1. Slots[c] = FlattenSeq(s)
    BY <1>1, LayoutAssumption DEF underlyingTypes
  <2> HIDE DEF n
  <2> QED BY <1>1, <1>2, <2>1
<1>4. /\ DOMAIN before = 1..(i - 1) /\ i - 1 \in Nat /\ i <= n /\ i \in Nat /\ i >= 1
      /\ \A j \in 1..(i - 1) : before[j] = Members[c][j] /\ j \in 1..n /\ j < n
  <2>1. i \in Nat /\ i >= 1 /\ i <= n
    BY <1>1
  <2>2. before \in Seq(Field) /\ Len(before) = i - 1 /\ \A j \in 1..(i - 1) : before[j] = Members[c][j]
    BY <1>1, <2>1, SubSeqProperties
  <2> HIDE DEF n, before
  <2> QED BY <1>1, <2>1, <2>2
<1>5. t = Members[c][i].type /\ s[i] = Slots[t]
  BY <1>1, <1>4
<1>6. b \in Seq(Seq(Basis)) /\ Len(b) = i - 1 /\ \A j \in 1..(i - 1) : b[j] = s[j]
  <2>1. \A j \in 1..(i - 1) : b[j] = s[j]
    BY <1>4
  <2> HIDE DEF s
  <2> QED BY <1>2, <1>4, <2>1
<1>7. [j \in DOMAIN before |-> Slots[before[j].type]] = b
  BY <1>4
<1> HIDE DEF n, t, before, s, b
<1>8. Len(FlattenSeq(b)) = i - 1
  <2> DEFINE o == [k \in 1..i |-> k - 1]
  <2>1. Offsets(b, o)
    <3>1. (i - 1) + 1 = i /\ \A k \in 1..(i - 1) : k + 1 \in 1..i /\ k \in 1..i
      BY <1>4
    <3>2. \A k \in 1..(i - 1) : Len(b[k]) = 1
      BY <1>2, <1>4, <1>6
    <3>3. o \in [1..i -> Nat] /\ o[1] = 0
      BY <1>4
    <3>4. ASSUME NEW k \in 1..(i - 1) PROVE o[k + 1] = o[k] + Len(b[k])
      <4>1. \A j \in 1..i : o[j] = j - 1
        OBVIOUS
      <4> HIDE DEF o
      <4>2. o[k] = k - 1 /\ o[k + 1] = (k + 1) - 1 /\ Len(b[k]) = 1 /\ k \in Nat
        BY <1>4, <3>1, <3>2, <4>1
      <4> QED BY <4>2
    <3> QED BY <1>6, <3>1, <3>3, <3>4 DEF Offsets
  <2>2. o[Len(b) + 1] = i - 1
    BY <1>4, <1>6
  <2> HIDE DEF o
  <2> QED BY <1>6, <2>1, <2>2, Flattened
<1> DEFINE o == [k \in 1..(n + 1) |-> IF k = n + 1 THEN n - 1 + Len(s[n]) ELSE k - 1]
<1>9. Offsets(s, o) /\ o[i] = i - 1 /\ o[n + 1] = n - 1 + Len(s[n]) /\ Len(s[n]) \in Nat
  <2>1. n \in 1..n /\ Len(s[n]) \in Nat
    BY <1>1, <1>2, <1>4
  <2>2. \A k \in 1..n : k \in 1..(n + 1) /\ k + 1 \in 1..(n + 1) /\ o[k] = k - 1
    BY <1>1
  <2>3. o[n + 1] = n - 1 + Len(s[n])
    BY <1>1
  <2>4. ASSUME NEW k \in 1..n PROVE o[k + 1] = o[k] + Len(s[k])
    <3>1. CASE k = n
      BY <2>2, <2>3, <3>1
    <3>2. CASE k # n
      <4>1. k + 1 \in 1..n /\ k < n
        BY <1>1, <3>2
      <4>2. o[k] = k - 1 /\ o[k + 1] = (k + 1) - 1 /\ Len(s[k]) = 1
        BY <1>2, <2>2, <4>1
      <4> HIDE DEF o
      <4> QED BY <1>1, <4>2
    <3> QED BY <3>1, <3>2
  <2>5. o \in [1..(n + 1) -> Nat] /\ o[1] = 0
    BY <1>1, <1>4, <2>1
  <2> HIDE DEF o
  <2>6. o[i] = i - 1
    BY <1>4, <2>2
  <2> QED BY <1>3, <2>1, <2>3, <2>4, <2>5, <2>6 DEF Offsets
<1> HIDE DEF o
<1>10. /\ Len(Slots[c]) = n - 1 + Len(s[n])
       /\ \A j \in 1..Len(s[i]) : Slots[c][o[i] + j] = s[i][j]
  <2>1. /\ Len(FlattenSeq(s)) = o[Len(s) + 1]
        /\ \A k \in 1..Len(s) : \A j \in 1..Len(s[k]) : FlattenSeq(s)[o[k] + j] = s[k][j]
    BY <1>3, <1>9, Flattened
  <2>2. i \in 1..Len(s)
    BY <1>1, <1>3, <1>4
  <2> QED BY <1>3, <1>9, <2>1, <2>2
<1>11. i - 1 + Len(Slots[t]) <= Len(Slots[c]) /\ (Len(Slots[t]) = 1 \/ i - 1 + Len(Slots[t]) = Len(Slots[c]))
  <2>1. CASE i = n
    <3>1. Len(s[n]) = Len(Slots[t])
      BY <1>5, <2>1
    <3> QED BY <1>1, <1>9, <1>10, <2>1, <3>1
  <2>2. CASE i # n
    <3>1. i < n /\ i \in 1..n
      BY <1>1, <1>4, <2>2
    <3>2. Len(s[i]) = 1
      BY <1>2, <3>1
    <3> QED BY <1>1, <1>4, <1>5, <1>9, <1>10, <3>1, <3>2
  <2> QED BY <2>1, <2>2
<1> QED BY <1>5, <1>7, <1>8, <1>9, <1>10, <1>11 DEF t, before

-----------------------------------------------------------------------------
(* Names and paths.                                                        *)

(* A set of numbers that is not empty has a least one.                     *)
LEMMA LeastNumber ==
  ASSUME NEW S, S \subseteq Nat, S # {}
  PROVE  \E x \in S : \A y \in S : x <= y
<1> DEFINE R == OpToRel(<, Nat)
<1>1. IsWellFoundedOn(R, Nat)
  BY NatLessThanWellFounded
<1>2. \A x \in Nat, y \in Nat : y < x => <<y, x>> \in R
  BY DEF OpToRel
<1> HIDE DEF R
<1>3. PICK x \in S : \A y \in S : ~ (<<y, x>> \in R)
  BY <1>1, WFMin
<1>4. \A y \in S : ~(y < x)
  BY <1>2, <1>3, Zenon
<1> QED BY <1>4

(* A name that is declared has a first declaration.                        *)
LEMMA FirstFacts ==
  ASSUME NEW vs, NEW x, DOMAIN vs \subseteq Nat, Named(vs, x) # {}
  PROVE  First(vs, x) \in DOMAIN vs /\ vs[First(vs, x)].name = x
<1>1. Named(vs, x) \subseteq Nat
  BY DEF Named
<1>2. \E i \in Named(vs, x) : \A j \in Named(vs, x) : i <= j
  BY <1>1, LeastNumber
<1>3. First(vs, x) \in Named(vs, x)
  BY <1>2 DEF First
<1> QED BY <1>3 DEF Named

(* A member that has a type is one of the class.                           *)
LEMMA MemberTypeFacts ==
  ASSUME NEW t \in Types, NEW m
  PROVE  /\ MemberType(t, m) \in Types
         /\ MemberType(t, m) # Void =>
              /\ t \in Classes /\ m \in FieldNames
              /\ MemberIndex(t, m) \in DOMAIN Members[t]
              /\ MemberType(t, m) = Members[t][MemberIndex(t, m)].type
<1>1. CASE t \in Classes /\ Named(Members[t], m) # {}
  <2>1. MemberIndex(t, m) \in DOMAIN Members[t] /\ Members[t][MemberIndex(t, m)].name = m
    BY <1>1, MembersType, FirstFacts DEF MemberIndex
  <2> QED BY <1>1, <2>1, MembersType DEF MemberType
<1>2. CASE ~(t \in Classes /\ Named(Members[t], m) # {})
  BY <1>2 DEF MemberType, Types
<1> QED BY <1>1, <1>2

(* The types a path comes through, and where the values of these types     *)
(* start in the value of its variable.                                     *)
Along(t, path, T, F) ==
  /\ T \in [1..Len(path) -> Types] /\ F \in [1..Len(path) -> Nat] /\ T[1] = t /\ F[1] = 1
  /\ \A k \in 1..Len(path) : k # 1 =>
       /\ T[k - 1] \in Classes /\ path[k] \in FieldNames
       /\ MemberIndex(T[k - 1], path[k]) \in DOMAIN Members[T[k - 1]]
       /\ T[k] = Members[T[k - 1]][MemberIndex(T[k - 1], path[k])].type
       /\ T[k] = MemberType(T[k - 1], path[k])
       /\ F[k] = F[k - 1] + MemberIndex(T[k - 1], path[k]) - 1

(* A path is the name of a variable and names of members.                  *)
LEMMA PathFacts ==
  ASSUME NEW path \in Paths
  PROVE  /\ Len(path) \in Nat /\ Len(path) >= 1 /\ DOMAIN path = 1..Len(path)
         /\ path[1] \in Names /\ Head(path) = path[1]
         /\ Len(Tail(path)) = Len(path) - 1
         /\ \A k \in 1..(Len(path) - 1) : Tail(path)[k] = path[k + 1]
<1>1. path \in Seq(Names \cup FieldNames) /\ path # <<>> /\ path[1] \in Names
  BY PathsAssumption
<1> QED BY <1>1

(* The types that TypeBehind comes through.                                *)
LEMMA TypesAlong ==
  ASSUME NEW path \in Paths, NEW t \in Types
  PROVE  \E T \in [1..Len(path) -> Types] :
           /\ T[1] = t /\ T[Len(path)] = TypeBehind[t][Tail(path)]
           /\ \A k \in 1..Len(path) : k # 1 => T[k] = MemberType(T[k - 1], path[k])
<1> DEFINE n == Len(path)
           f == [z \in (1..n) \X Types |-> MemberType(z[2], path[z[1]])]
           members == Tail(path)
           N == Len(members)
           Q(g) == g = [k \in 0..N |-> IF k = 0 THEN t ELSE MemberType(g[k - 1], members[k])]
           c == CHOOSE g : Q(g)
<1>1. /\ n \in Nat /\ n >= 1 /\ N = n - 1
      /\ \A k \in 1..(n - 1) : members[k] = path[k + 1]
  BY PathFacts
<1>2. \A k \in 1..n, v \in Types : f[<<k, v>>] = MemberType(v, path[k])
  OBVIOUS
<1>3. TypeBehind[t][members] = c[N]
  BY DEF TypeBehind
<1> HIDE DEF f, n, members, N
<1>4. PICK T \in [1..n -> Types] : Steps(T, 1, n, t, f)
  <2>1. ASSUME NEW k \in (1 + 1)..n, NEW v \in Types PROVE f[<<k, v>>] \in Types
    <3>1. k \in 1..n
      BY <1>1
    <3>2. f[<<k, v>>] = MemberType(v, path[k])
      BY <1>2, <3>1
    <3> QED BY <3>2, MemberTypeFacts
  <2> QED BY <1>1, <2>1, Recursion
<1>5. /\ T[1] = t
      /\ \A k \in 1..n : k # 1 => T[k] = MemberType(T[k - 1], path[k])
  <2>1. 1 \in 1..n
    BY <1>1
  <2>2. ASSUME NEW k \in 1..n, k # 1 PROVE T[k] = MemberType(T[k - 1], path[k])
    <3>1. T[k - 1] \in Types
      BY <1>1, <2>2
    <3>2. T[k] = f[<<k, T[k - 1]>>]
      BY <1>4, <2>2 DEF Steps
    <3> QED BY <1>2, <3>1, <3>2
  <2> QED BY <1>4, <2>1, <2>2 DEF Steps
<1> DEFINE G == [k \in 0..N |-> T[k + 1]]
<1>6. Q(G)
  <2>1. ASSUME NEW k \in 0..N PROVE G[k] = IF k = 0 THEN t ELSE MemberType(G[k - 1], members[k])
    <3>1. CASE k = 0
      BY <1>5, <3>1
    <3>2. CASE k # 0
      <4>1. k + 1 \in 1..n /\ k + 1 # 1 /\ (k + 1) - 1 = k /\ k - 1 \in 0..N /\ (k - 1) + 1 = k /\ k \in 1..(n - 1)
        BY <1>1, <3>2
      <4>2. T[k + 1] = MemberType(T[k], path[k + 1])
        BY <1>5, <4>1
      <4> QED BY <1>1, <3>2, <4>1, <4>2
    <3> QED BY <3>1, <3>2
  <2> HIDE DEF G
  <2>2. G = [k \in 0..N |-> G[k]]
    BY DEF G
  <2> QED BY <2>1, <2>2
<1>7. Q(c)
  BY <1>6
<1> HIDE DEF c
<1> DEFINE S == {k \in 0..N : c[k] = T[k + 1]}
<1>8. 0 \in S
  BY <1>1, <1>5, <1>7
<1>9. ASSUME NEW k \in 0..N, k \in S, k < N PROVE k + 1 \in S
  <2>1. k + 1 \in 0..N /\ k + 1 # 0 /\ (k + 1) - 1 = k /\ k + 1 \in 1..(n - 1)
        /\ (k + 1) + 1 \in 1..n /\ (k + 1) + 1 # 1 /\ ((k + 1) + 1) - 1 = k + 1
    BY <1>1, <1>9
  <2>2. c[k + 1] = MemberType(c[k], members[k + 1])
    BY <1>7, <2>1
  <2>3. T[(k + 1) + 1] = MemberType(T[k + 1], path[(k + 1) + 1])
    BY <1>5, <2>1
  <2> QED BY <1>1, <1>9, <2>1, <2>2, <2>3
<1>10. \A k \in 0..N : k \in S
  <2> HIDE DEF S, Q
  <2>1. 0 \in Nat /\ N \in Nat /\ (0 <= N => 0 \in S)
    BY <1>1, <1>8
  <2> QED BY <1>9, <2>1, CountingUp
<1>11. c[N] = T[n]
  BY <1>1, <1>10
<1> QED BY <1>3, <1>5, <1>11 DEF n, members

(* A path that comes to a value comes through classes that have the        *)
(* members.                                                                *)
LEMMA PathSteps ==
  ASSUME NEW path \in Paths, NEW t \in Types, TypeBehind[t][Tail(path)] # Void
  PROVE  \E T, F : Along(t, path, T, F) /\ T[Len(path)] = TypeBehind[t][Tail(path)]
<1> DEFINE n == Len(path)
<1>1. n \in Nat /\ n >= 1
  BY PathFacts
<1> HIDE DEF n
<1>2. PICK T \in [1..n -> Types] :
        /\ T[1] = t /\ T[n] = TypeBehind[t][Tail(path)]
        /\ \A k \in 1..n : k # 1 => T[k] = MemberType(T[k - 1], path[k])
  BY TypesAlong DEF n
<1>3. ASSUME NEW k \in 1..n PROVE T[k] # Void
  <2> SUFFICES ASSUME T[k] = Void PROVE FALSE
    OBVIOUS
  <2> DEFINE S == {j \in k..n : T[j] = Void}
  <2>1. k \in Nat /\ (k <= n => k \in S)
    BY <1>1
  <2>2. ASSUME NEW j \in k..n, j \in S, j < n PROVE j + 1 \in S
    <3>1. j + 1 \in k..n /\ j + 1 \in 1..n /\ j + 1 # 1 /\ (j + 1) - 1 = j
      BY <1>1, <2>2
    <3>2. T[j + 1] = MemberType(Void, path[j + 1])
      BY <1>2, <2>2, <3>1
    <3>3. MemberType(Void, path[j + 1]) = Void
      BY LayoutAssumption DEF MemberType
    <3> QED BY <3>1, <3>2, <3>3
  <2>3. \A j \in k..n : j \in S
    <3> HIDE DEF S
    <3> QED BY <1>1, <2>1, <2>2, CountingUp
  <2>4. n \in k..n
    BY <1>1
  <2>5. T[n] = Void
    BY <2>3, <2>4
  <2> QED BY <1>2, <2>5
<1>4. ASSUME NEW k \in 1..n, k # 1
      PROVE  /\ T[k - 1] \in Classes /\ path[k] \in FieldNames
             /\ MemberIndex(T[k - 1], path[k]) \in DOMAIN Members[T[k - 1]]
             /\ T[k] = Members[T[k - 1]][MemberIndex(T[k - 1], path[k])].type
             /\ T[k] = MemberType(T[k - 1], path[k])
             /\ MemberIndex(T[k - 1], path[k]) \in Nat \ {0}
  <2>1. T[k - 1] \in Types
    BY <1>1, <1>4
  <2>2. T[k] = MemberType(T[k - 1], path[k]) /\ T[k] # Void
    BY <1>2, <1>3, <1>4
  <2>3. /\ T[k - 1] \in Classes /\ path[k] \in FieldNames
        /\ MemberIndex(T[k - 1], path[k]) \in DOMAIN Members[T[k - 1]]
        /\ T[k] = Members[T[k - 1]][MemberIndex(T[k - 1], path[k])].type
    BY <2>1, <2>2, MemberTypeFacts
  <2>4. MemberIndex(T[k - 1], path[k]) \in Nat \ {0}
    BY <2>3, MembersType
  <2> QED BY <2>2, <2>3, <2>4
<1> DEFINE f == [z \in (1..n) \X Nat |-> z[2] + MemberIndex(T[z[1] - 1], path[z[1]]) - 1]
<1>5. \A k \in 1..n, v \in Nat : f[<<k, v>>] = v + MemberIndex(T[k - 1], path[k]) - 1
  OBVIOUS
<1> HIDE DEF f
<1>6. PICK F \in [1..n -> Nat] : Steps(F, 1, n, 1, f)
  <2>1. ASSUME NEW k \in (1 + 1)..n, NEW v \in Nat PROVE f[<<k, v>>] \in Nat
    <3>1. k \in 1..n /\ k # 1
      BY <1>1
    <3>2. f[<<k, v>>] = v + MemberIndex(T[k - 1], path[k]) - 1
      BY <1>5, <3>1
    <3>3. MemberIndex(T[k - 1], path[k]) \in Nat \ {0}
      BY <1>4, <3>1
    <3> QED BY <3>2, <3>3
  <2>2. 1 \in Nat
    OBVIOUS
  <2> QED BY <1>1, <2>1, <2>2, Recursion
<1>7. /\ F[1] = 1
      /\ \A k \in 1..n : k # 1 => F[k] = F[k - 1] + MemberIndex(T[k - 1], path[k]) - 1
  <2>1. 1 \in 1..n
    BY <1>1
  <2>2. ASSUME NEW k \in 1..n, k # 1 PROVE F[k] = F[k - 1] + MemberIndex(T[k - 1], path[k]) - 1
    <3>1. F[k - 1] \in Nat
      BY <1>1, <2>2
    <3>2. F[k] = f[<<k, F[k - 1]>>]
      BY <1>6, <2>2 DEF Steps
    <3> QED BY <1>5, <3>1, <3>2
  <2> QED BY <1>6, <2>1, <2>2 DEF Steps
<1>8. Along(t, path, T, F)
  BY <1>2, <1>4, <1>7 DEF Along, n
<1> QED BY <1>2, <1>8 DEF n

(* What a path comes to lies inside the value of its variable, in slots of *)
(* the right types, and takes one slot at most or is the rest of it.       *)
Inside(t, part, from) ==
  /\ from >= 1 /\ from - 1 + Len(Slots[part]) <= Len(Slots[t])
  /\ \A j \in 1..Len(Slots[part]) : Slots[t][from - 1 + j] = Slots[part][j]
  /\ Len(Slots[part]) <= 1 \/ from - 1 + Len(Slots[part]) = Len(Slots[t])
(* By the facts on members, member by member.                              *)
LEMMA PathInside ==
  ASSUME MembersOfOneSlot, NEW path \in Paths, NEW t \in Types, NEW T, NEW F, Along(t, path, T, F)
  PROVE  Inside(t, T[Len(path)], F[Len(path)])
<1> DEFINE n == Len(path)
           S == {k \in 1..n : Inside(t, T[k], F[k])}
<1>1. n \in Nat /\ n >= 1
  BY PathFacts
<1> HIDE DEF n
<1>2. /\ T \in [1..n -> Types] /\ F \in [1..n -> Nat] /\ T[1] = t /\ F[1] = 1
      /\ \A k \in 1..n : k # 1 =>
           /\ T[k - 1] \in Classes
           /\ MemberIndex(T[k - 1], path[k]) \in DOMAIN Members[T[k - 1]]
           /\ T[k] = Members[T[k - 1]][MemberIndex(T[k - 1], path[k])].type
           /\ F[k] = F[k - 1] + MemberIndex(T[k - 1], path[k]) - 1
  BY DEF Along, n
<1>3. 1 \in S
  <2>1. \A j \in 1..Len(Slots[t]) : 1 - 1 + j = j
    BY SlotsType
  <2> QED BY <1>1, <1>2, <2>1, SlotsType DEF Inside
<1>4. ASSUME NEW k \in 1..n, k \in S, k < n PROVE k + 1 \in S
  <2> DEFINE c == T[k]
             i == MemberIndex(c, path[k + 1])
             u == T[k + 1]
             f == F[k]
             g == F[k + 1]
             a == Len(Slots[c])
             b == Len(Slots[u])
             l == Len(Slots[t])
  <2>1. k + 1 \in 1..n /\ k + 1 # 1 /\ (k + 1) - 1 = k
    BY <1>1, <1>4
  <2>2. /\ c \in Classes /\ i \in DOMAIN Members[c] /\ u = Members[c][i].type /\ g = f + i - 1
        /\ f \in Nat /\ g \in Nat /\ u \in Types /\ c \in Types
    BY <1>2, <2>1
  <2>3. Inside(t, c, f)
    BY <1>4
  <2> HIDE DEF c, i, u, f, g
  <2>4. a \in Nat /\ b \in Nat /\ l \in Nat /\ i \in Nat /\ i >= 1
    BY <2>2, SlotsType, MembersType
  <2>5. /\ i - 1 + b <= a
        /\ \A j \in 1..b : Slots[c][i - 1 + j] = Slots[u][j]
        /\ b = 1 \/ i - 1 + b = a
    BY <2>2, MemberFacts
  <2>6. /\ f >= 1 /\ f - 1 + a <= l
        /\ \A j \in 1..a : Slots[t][f - 1 + j] = Slots[c][j]
        /\ a <= 1 \/ f - 1 + a = l
    BY <2>3 DEF Inside
  <2> HIDE DEF a, b, l
  <2>7. g >= 1 /\ g - 1 + b <= l /\ (b <= 1 \/ g - 1 + b = l)
    BY <2>2, <2>4, <2>5, <2>6
  <2>8. ASSUME NEW j \in 1..b PROVE Slots[t][g - 1 + j] = Slots[u][j]
    <3>1. i - 1 + j \in 1..a /\ f - 1 + (i - 1 + j) = g - 1 + j
      BY <2>2, <2>4, <2>5
    <3> QED BY <2>5, <2>6, <3>1
  <2>9. Inside(t, u, g)
    BY <2>7, <2>8 DEF Inside, b, l
  <2> QED BY <2>1, <2>9 DEF u, g
<1>5. \A k \in 1..n : k \in S
  <2> HIDE DEF S
  <2>1. 1 \in Nat /\ n \in Nat /\ (1 <= n => 1 \in S)
    BY <1>1, <1>3
  <2> QED BY <1>4, <2>1, CountingUp
<1>6. n \in 1..n
  BY <1>1
<1> QED BY <1>5, <1>6 DEF n

-----------------------------------------------------------------------------
(* The operators of Layout mean in Variables what they mean in Storage.    *)

(* Names are looked up alike.                                              *)
LEMMA SameNames ==
  ASSUME NEW vs, NEW x
  PROVE  Abstract!Named(vs, x) = Named(vs, x) /\ Abstract!First(vs, x) = First(vs, x)
BY DEF Named, First, Abstract!Named, Abstract!First

(* And so are members.                                                     *)
LEMMA SameMembers ==
  ASSUME NEW t, NEW m
  PROVE  Abstract!MemberIndex(t, m) = MemberIndex(t, m) /\ Abstract!MemberType(t, m) = MemberType(t, m)
<1>1. Abstract!MemberIndex(t, m) = MemberIndex(t, m)
  BY SameNames DEF MemberIndex, Abstract!MemberIndex
<1>2. Abstract!Named(Members[t], m) = Named(Members[t], m)
  BY SameNames
<1> QED BY <1>1, <1>2 DEF MemberType, Abstract!MemberType, Void, Abstract!Void

(* And the types behind paths.                                             *)
LEMMA SameTypeBehind ==
  Abstract!TypeBehind = TypeBehind
BY DEF TypeBehind, MemberType, MemberIndex, First, Named, Types, Void,
       Abstract!TypeBehind, Abstract!MemberType, Abstract!MemberIndex, Abstract!First, Abstract!Named,
       Abstract!Types, Abstract!Void

SlotsBefore(t, i) ==
  LET before == SubSeq(Members[t], 1, i - 1) IN [j \in DOMAIN before |-> Slots[before[j].type]]
(* A step of Variables to a member.                                        *)
LEMMA SamePart ==
  ASSUME NEW part, NEW m
  PROVE  Abstract!Part(part, m)
           = [type |-> MemberType(part.type, m),
              from |-> part.from + Len(FlattenSeq(SlotsBefore(part.type, MemberIndex(part.type, m))))]
<1>1. Abstract!Part(part, m)
        = [type |-> Abstract!MemberType(part.type, m),
           from |-> part.from + Len(Abstract!FlattenSeq(SlotsBefore(part.type, Abstract!MemberIndex(part.type, m))))]
  BY DEF SlotsBefore, Abstract!Part
<1>2. \A s : Abstract!FlattenSeq(s) = FlattenSeq(s)
  BY DEF FlattenSeq, Abstract!FlattenSeq
<1> QED BY <1>1, <1>2, SameMembers

(* What Variables takes for the place of a path.                           *)
LEMMA PartStep ==
  ASSUME MembersOfOneSlot, NEW c \in Classes, NEW m, NEW from \in Nat, MemberType(c, m) # Void
  PROVE  Abstract!Part([type |-> c, from |-> from], m)
           = [type |-> MemberType(c, m), from |-> from + MemberIndex(c, m) - 1]
<1> DEFINE i == MemberIndex(c, m)
           before == SubSeq(Members[c], 1, i - 1)
           flat == FlattenSeq([j \in DOMAIN before |-> Slots[before[j].type]])
<1>1. i \in DOMAIN Members[c] /\ i \in Nat /\ i >= 1
  BY MembersType, MemberTypeFacts
<1>2. Len(flat) = i - 1
  BY <1>1, MemberFacts
<1>3. Abstract!Part([type |-> c, from |-> from], m)
        = [type |-> MemberType(c, m), from |-> from + Len(flat)]
  <2>1. flat = FlattenSeq(SlotsBefore(c, i))
    BY DEF SlotsBefore
  <2> HIDE DEF i, before, flat
  <2> DEFINE part == [type |-> c, from |-> from]
  <2>2. part.type = c /\ part.from = from
    OBVIOUS
  <2> HIDE DEF part
  <2>3. Abstract!Part(part, m) = [type |-> MemberType(c, m), from |-> from + Len(flat)]
    BY <2>1, <2>2, SamePart DEF i
  <2> QED BY <2>3 DEF part
<1> HIDE DEF i, before, flat
<1>4. from + Len(flat) = from + i - 1
  BY <1>1, <1>2
<1> QED BY <1>3, <1>4 DEF i

(* It takes the same way as the resolver.                                  *)
LEMMA PartOfPath ==
  ASSUME MembersOfOneSlot, NEW path \in Paths, NEW t \in Types, NEW T, NEW F, Along(t, path, T, F),
         \A k \in 1..Len(path) : T[k] # Void
  PROVE  Abstract!PartOf(t, path) = [type |-> T[Len(path)], from |-> F[Len(path)]]
<1> DEFINE n == Len(path)
           Q(g) == g = [k \in 1..n |-> IF k = 1 THEN [type |-> t, from |-> 1]
                                       ELSE Abstract!Part(g[k - 1], path[k])]
           c == CHOOSE g : Q(g)
           G == [k \in 1..n |-> [type |-> T[k], from |-> F[k]]]
<1>1. n \in Nat /\ n >= 1
  BY PathFacts
<1>2. Abstract!PartOf(t, path) = c[n]
  BY DEF Abstract!PartOf
<1> HIDE DEF n
<1>3. /\ T \in [1..n -> Types] /\ F \in [1..n -> Nat] /\ T[1] = t /\ F[1] = 1
      /\ \A k \in 1..n : k # 1 =>
           /\ T[k - 1] \in Classes
           /\ T[k] = MemberType(T[k - 1], path[k])
           /\ F[k] = F[k - 1] + MemberIndex(T[k - 1], path[k]) - 1
  BY DEF Along, n
<1>4. ASSUME NEW k \in 1..n, k # 1 PROVE G[k] = Abstract!Part(G[k - 1], path[k])
  <2>1. k - 1 \in 1..n /\ F[k - 1] \in Nat /\ T[k] # Void
    BY <1>1, <1>3, <1>4 DEF n
  <2>2. G[k] = [type |-> T[k], from |-> F[k]] /\ G[k - 1] = [type |-> T[k - 1], from |-> F[k - 1]]
    BY <2>1
  <2> HIDE DEF G
  <2>3. /\ T[k - 1] \in Classes /\ T[k] = MemberType(T[k - 1], path[k])
        /\ F[k] = F[k - 1] + MemberIndex(T[k - 1], path[k]) - 1
    BY <1>3, <1>4
  <2>4. MemberType(T[k - 1], path[k]) # Void
    BY <2>1, <2>3
  <2>5. Abstract!Part([type |-> T[k - 1], from |-> F[k - 1]], path[k])
          = [type |-> MemberType(T[k - 1], path[k]), from |-> F[k - 1] + MemberIndex(T[k - 1], path[k]) - 1]
    BY <2>1, <2>3, <2>4, PartStep
  <2> QED BY <2>2, <2>3, <2>5
<1>5. 1 \in 1..n /\ G[1] = [type |-> t, from |-> 1]
  BY <1>1, <1>3
<1>6. Q(G)
  <2>1. G = [k \in 1..n |-> G[k]]
    OBVIOUS
  <2> HIDE DEF G
  <2>2. \A k \in 1..n : G[k] = IF k = 1 THEN [type |-> t, from |-> 1]
                               ELSE Abstract!Part(G[k - 1], path[k])
    BY <1>4, <1>5
  <2> QED BY <2>1, <2>2
<1>7. Q(c)
  BY <1>6
<1> HIDE DEF c
<1> DEFINE S == {k \in 1..n : c[k] = G[k]}
<1> HIDE DEF G
<1>8. 1 \in S
  BY <1>5, <1>7
<1>9. ASSUME NEW k \in 1..n, k \in S, k < n PROVE k + 1 \in S
  <2>1. k + 1 \in 1..n /\ k + 1 # 1 /\ (k + 1) - 1 = k
    BY <1>1, <1>9
  <2>2. c[k + 1] = Abstract!Part(c[k], path[k + 1])
    BY <1>7, <2>1
  <2>3. G[k + 1] = Abstract!Part(G[k], path[k + 1])
    BY <1>4, <2>1
  <2> QED BY <1>9, <2>1, <2>2, <2>3
<1>10. \A k \in 1..n : k \in S
  <2> HIDE DEF S, Q
  <2>1. 1 \in Nat /\ n \in Nat /\ (1 <= n => 1 \in S)
    BY <1>1, <1>8
  <2> QED BY <1>9, <2>1, CountingUp
<1>11. n \in 1..n /\ c[n] = G[n]
  BY <1>1, <1>10
<1> QED BY <1>2, <1>11 DEF G, n

(* And what the resolver takes for it: in a local, the local behind as     *)
(* many members as it is in the list; in a global, the global that has the *)
(* last name.                                                              *)
PlaceOfPath(path, base, T, F) ==
  IF base.in = "local" THEN Local(base.at + F[Len(path)] - 1, T[Len(path)])
  ELSE Global(path[Len(path)], T[Len(path)])
(* By induction along the path.                                            *)
LEMMA ResolvePath ==
  ASSUME NEW path \in Paths, NEW t \in Types, NEW T, NEW F, Along(t, path, T, F),
         NEW base, base = ResolveIdentifier(path[1]),
         \/ \E i \in Nat : base = Local(i, t)
         \/ base = Global(path[1], t)
  PROVE  Resolve(path) = PlaceOfPath(path, base, T, F)
<1> DEFINE n == Len(path)
           Q(g) == g = [k \in 1..n |-> IF k = 1 THEN ResolveIdentifier(path[1])
                                       ELSE Member(g[k - 1], path[k])]
           c == CHOOSE g : Q(g)
           G == [k \in 1..n |-> IF base.in = "local" THEN Local(base.at + F[k] - 1, T[k])
                                ELSE Global(path[k], T[k])]
<1>1. n \in Nat /\ n >= 1
  BY PathFacts
<1>2. Resolve(path) = c[n]
  BY DEF Resolve
<1> HIDE DEF n
<1>3. /\ F \in [1..n -> Nat] /\ T[1] = t /\ F[1] = 1
      /\ \A k \in 1..n : k # 1 =>
           /\ T[k - 1] \in Classes
           /\ MemberIndex(T[k - 1], path[k]) \in DOMAIN Members[T[k - 1]]
           /\ T[k] = MemberType(T[k - 1], path[k])
           /\ F[k] = F[k - 1] + MemberIndex(T[k - 1], path[k]) - 1
  BY DEF Along, n
<1>4. \/ base.in = "local" /\ base.at \in Nat /\ base = Local(base.at, t)
      \/ base.in = "global" /\ base = Global(path[1], t)
  <2>1. ASSUME NEW i \in Nat, base = Local(i, t) PROVE base.in = "local" /\ base.at = i
    BY <2>1 DEF Local
  <2>2. ASSUME base = Global(path[1], t) PROVE base.in = "global"
    BY <2>2 DEF Global
  <2> QED BY <2>1, <2>2
<1>7. ASSUME NEW k \in 1..n, k # 1 PROVE G[k] = Member(G[k - 1], path[k])
  <2>1. k - 1 \in 1..n /\ F[k - 1] \in Nat
    BY <1>1, <1>3, <1>7
  <2>2. /\ T[k - 1] \in Classes /\ T[k] = MemberType(T[k - 1], path[k])
        /\ F[k] = F[k - 1] + MemberIndex(T[k - 1], path[k]) - 1
        /\ MemberIndex(T[k - 1], path[k]) \in Nat
    <3>1. /\ T[k - 1] \in Classes /\ T[k] = MemberType(T[k - 1], path[k])
          /\ F[k] = F[k - 1] + MemberIndex(T[k - 1], path[k]) - 1
          /\ MemberIndex(T[k - 1], path[k]) \in DOMAIN Members[T[k - 1]]
      BY <1>3, <1>7
    <3> QED BY <3>1, MembersType
  <2>3. CASE base.in = "local"
    <3>1. G[k] = Local(base.at + F[k] - 1, T[k]) /\ G[k - 1] = Local(base.at + F[k - 1] - 1, T[k - 1])
      BY <2>1, <2>3
    <3> HIDE DEF G
    <3>2. Member(G[k - 1], path[k])
            = Local((base.at + F[k - 1] - 1) + MemberIndex(T[k - 1], path[k]) - 1, MemberType(T[k - 1], path[k]))
      BY <3>1 DEF Member, LocalMember, Local
    <3>3. (base.at + F[k - 1] - 1) + MemberIndex(T[k - 1], path[k]) - 1 = base.at + F[k] - 1
      BY <1>4, <2>1, <2>2, <2>3
    <3> QED BY <2>2, <3>1, <3>2, <3>3
  <2>4. CASE base.in = "global"
    <3>1. G[k] = Global(path[k], T[k]) /\ G[k - 1] = Global(path[k - 1], T[k - 1])
      BY <2>1, <2>4
    <3> HIDE DEF G
    <3> QED BY <2>2, <3>1 DEF Member, GlobalMember, Global
  <2> QED BY <1>4, <2>3, <2>4
<1>8. 1 \in 1..n /\ G[1] = base
  <2>1. 1 \in 1..n
    BY <1>1
  <2>2. CASE base.in = "local"
    <3>1. base.at + F[1] - 1 = base.at
      BY <1>3, <1>4, <2>2
    <3> QED BY <1>3, <1>4, <2>1, <2>2, <3>1
  <2>3. CASE base.in = "global"
    BY <1>3, <1>4, <2>1, <2>3
  <2> QED BY <1>4, <2>1, <2>2, <2>3
<1>9. Q(G)
  <2>1. G = [k \in 1..n |-> G[k]]
    OBVIOUS
  <2> HIDE DEF G
  <2>2. \A k \in 1..n : G[k] = IF k = 1 THEN ResolveIdentifier(path[1]) ELSE Member(G[k - 1], path[k])
    BY <1>7, <1>8
  <2> QED BY <2>1, <2>2
<1>10. Q(c)
  BY <1>9
<1> HIDE DEF c
<1> DEFINE S == {k \in 1..n : c[k] = G[k]}
<1> HIDE DEF G
<1>11. 1 \in S
  BY <1>8, <1>10
<1>12. ASSUME NEW k \in 1..n, k \in S, k < n PROVE k + 1 \in S
  <2>1. k + 1 \in 1..n /\ k + 1 # 1 /\ (k + 1) - 1 = k
    BY <1>1, <1>12
  <2>2. c[k + 1] = Member(c[k], path[k + 1])
    BY <1>10, <2>1
  <2>3. G[k + 1] = Member(G[k], path[k + 1])
    BY <1>7, <2>1
  <2> QED BY <1>12, <2>1, <2>2, <2>3
<1>13. \A k \in 1..n : k \in S
  <2> HIDE DEF S, Q
  <2>1. 1 \in Nat /\ n \in Nat /\ (1 <= n => 1 \in S)
    BY <1>1, <1>11
  <2> QED BY <1>12, <2>1, CountingUp
<1>14. n \in 1..n /\ c[n] = G[n]
  BY <1>1, <1>13
<1> QED BY <1>2, <1>14 DEF G, n, PlaceOfPath

-----------------------------------------------------------------------------
(* The machine: what an instruction changes.                               *)

MemoryPlaces == {"memory"} \X Nat \X Basis
InStore(p) == p[1] \in {"local", "global", "result"} /\ p \in DOMAIN store
Target(p) == InStore(p) \/ p \in MemoryPlaces
Legible(p) == Target(p) \/ p[1] \in {"default", "literal"}
Apart(p, q) ==
  /\ p # q
  /\ p[1] = "memory" /\ q[1] = "memory" =>
       p[2] + Bytes[p[3]] <= q[2] \/ q[2] + Bytes[q[3]] <= p[2]

(* The bytes of a place in memory are behind one another.                  *)
LEMMA BytesOfPlace ==
  ASSUME NEW p \in MemoryPlaces
  PROVE  /\ p[1] = "memory" /\ p[2] \in Nat /\ p[3] \in Basis
         /\ Bytes[p[3]] \in Nat /\ Bytes[p[3]] >= 1
         /\ \A b \in BytesOf(p) : b[2] \in 0..(Bytes[p[3]] - 1) /\ b[1] = p[2] + b[2]
         /\ \A j \in 0..(Bytes[p[3]] - 1) : <<p[2] + j, j>> \in BytesOf(p)
<1>1. p[1] = "memory" /\ p[2] \in Nat /\ p[3] \in Basis
  BY DEF MemoryPlaces
<1>2. Bytes[p[3]] \in Nat /\ Bytes[p[3]] >= 1
  <2>1. \A b \in Basis : Bytes[b] \in Nat \ {0}
    BY LayoutAssumption
  <2> QED BY <1>1, <2>1
<1> QED BY <1>1, <1>2 DEF BytesOf

(* A store writes these bytes and no other.                                *)
LEMMA StoredBytes ==
  ASSUME NEW p \in MemoryPlaces, NEW v, memory' = Stored(p, v)
  PROVE  /\ \A j \in 0..(Bytes[p[3]] - 1) :
              /\ p[2] + j \in DOMAIN memory'
              /\ memory'[p[2] + j] = [value |-> v, type |-> p[3], byte |-> j]
         /\ \A a \in Nat : a < p[2] \/ p[2] + Bytes[p[3]] <= a =>
              /\ a \in DOMAIN memory' <=> a \in DOMAIN memory
              /\ a \in DOMAIN memory => memory'[a] = memory[a]
<1> DEFINE addresses == {b[1] : b \in BytesOf(p)}
<1>1. /\ p[2] \in Nat /\ Bytes[p[3]] \in Nat
      /\ \A b \in BytesOf(p) : b[2] \in 0..(Bytes[p[3]] - 1) /\ b[1] = p[2] + b[2]
      /\ \A j \in 0..(Bytes[p[3]] - 1) : <<p[2] + j, j>> \in BytesOf(p)
  BY BytesOfPlace
<1>2. memory' = [a \in DOMAIN memory \cup addresses |->
                   IF a \in addresses THEN [value |-> v, type |-> p[3], byte |-> a - p[2]] ELSE memory[a]]
  BY DEF Stored
<1>3. \A j \in 0..(Bytes[p[3]] - 1) : p[2] + j \in addresses
  <2> SUFFICES ASSUME NEW j \in 0..(Bytes[p[3]] - 1) PROVE p[2] + j \in addresses
    OBVIOUS
  <2>1. <<p[2] + j, j>> \in BytesOf(p) /\ <<p[2] + j, j>>[1] = p[2] + j
    BY <1>1
  <2> QED BY <2>1
<1>4. \A a \in Nat : a < p[2] \/ p[2] + Bytes[p[3]] <= a => a \notin addresses
  BY <1>1
<1> HIDE DEF addresses
<1>5. ASSUME NEW j \in 0..(Bytes[p[3]] - 1)
      PROVE  /\ p[2] + j \in DOMAIN memory'
             /\ memory'[p[2] + j] = [value |-> v, type |-> p[3], byte |-> j]
  <2>1. p[2] + j \in addresses /\ (p[2] + j) - p[2] = j
    BY <1>1, <1>3
  <2> QED BY <1>2, <2>1
<1>6. ASSUME NEW a \in Nat, a < p[2] \/ p[2] + Bytes[p[3]] <= a
      PROVE  /\ a \in DOMAIN memory' <=> a \in DOMAIN memory
             /\ a \in DOMAIN memory => memory'[a] = memory[a]
  <2>1. a \notin addresses
    BY <1>4, <1>6
  <2> QED BY <1>2, <2>1
<1> QED BY <1>5, <1>6

(* A load returns what was stored.                                         *)
LEMMA LoadStored ==
  ASSUME NEW p \in MemoryPlaces, NEW v, memory' = Stored(p, v)
  PROVE  Load(p)' = v
<1>1. /\ p[2] \in Nat /\ Bytes[p[3]] \in Nat /\ Bytes[p[3]] >= 1
      /\ \A b \in BytesOf(p) : b[2] \in 0..(Bytes[p[3]] - 1) /\ b[1] = p[2] + b[2]
  BY BytesOfPlace
<1>2. \A j \in 0..(Bytes[p[3]] - 1) :
        /\ p[2] + j \in DOMAIN memory'
        /\ memory'[p[2] + j] = [value |-> v, type |-> p[3], byte |-> j]
  BY StoredBytes
<1>3. \A b \in BytesOf(p) :
        b[1] \in DOMAIN memory' /\ memory'[b[1]] = [value |-> v, type |-> p[3], byte |-> b[2]]
  BY <1>1, <1>2
<1>4. p[2] \in DOMAIN memory' /\ memory'[p[2]].value = v
  <2>1. 0 \in 0..(Bytes[p[3]] - 1) /\ p[2] + 0 = p[2]
    BY <1>1
  <2>2. memory'[p[2]] = [value |-> v, type |-> p[3], byte |-> 0] /\ p[2] \in DOMAIN memory'
    BY <1>2, <2>1
  <2> QED BY <2>2
<1> QED BY <1>3, <1>4 DEF Load

(* And is not disturbed by a store elsewhere.                              *)
LEMMA LoadApart ==
  ASSUME NEW p \in MemoryPlaces, NEW q \in MemoryPlaces, NEW v, memory' = Stored(p, v), Apart(q, p)
  PROVE  Load(q)' = Load(q)
<1>1. /\ p[2] \in Nat /\ Bytes[p[3]] \in Nat /\ Bytes[p[3]] >= 1 /\ p[1] = "memory"
      /\ q[2] \in Nat /\ Bytes[q[3]] \in Nat /\ Bytes[q[3]] >= 1 /\ q[1] = "memory"
      /\ \A b \in BytesOf(q) : b[2] \in 0..(Bytes[q[3]] - 1) /\ b[1] = q[2] + b[2]
  BY BytesOfPlace
<1>2. q[2] + Bytes[q[3]] <= p[2] \/ p[2] + Bytes[p[3]] <= q[2]
  BY <1>1 DEF Apart
<1>3. \A b \in BytesOf(q) : b[1] \in Nat /\ (b[1] < p[2] \/ p[2] + Bytes[p[3]] <= b[1])
  BY <1>1, <1>2
<1>4. q[2] < p[2] \/ p[2] + Bytes[p[3]] <= q[2]
  BY <1>1, <1>2
<1>5. \A a \in Nat : a < p[2] \/ p[2] + Bytes[p[3]] <= a =>
        /\ a \in DOMAIN memory' <=> a \in DOMAIN memory
        /\ a \in DOMAIN memory => memory'[a] = memory[a]
  BY StoredBytes
<1>6. /\ q[2] \in DOMAIN memory' <=> q[2] \in DOMAIN memory
      /\ q[2] \in DOMAIN memory => memory'[q[2]] = memory[q[2]]
  BY <1>1, <1>4, <1>5
<1>7. \A b \in BytesOf(q) :
        /\ b[1] \in DOMAIN memory' <=> b[1] \in DOMAIN memory
        /\ b[1] \in DOMAIN memory => memory'[b[1]] = memory[b[1]]
  BY <1>3, <1>5
<1> DEFINE whole(v1) == \A b \in BytesOf(q) :
             b[1] \in DOMAIN memory /\ memory[b[1]] = [value |-> v1, type |-> q[3], byte |-> b[2]]
           after(v1) == \A b \in BytesOf(q) :
             b[1] \in DOMAIN memory' /\ memory'[b[1]] = [value |-> v1, type |-> q[3], byte |-> b[2]]
<1>8. \A v1 : whole(v1) <=> after(v1)
  BY <1>7
<1>9. /\ Load(q) = IF q[2] \in DOMAIN memory /\ whole(memory[q[2]].value)
                     THEN memory[q[2]].value ELSE <<"mangled">>
      /\ Load(q)' = IF q[2] \in DOMAIN memory' /\ after(memory'[q[2]].value)
                      THEN memory'[q[2]].value ELSE <<"mangled">>
  BY DEF Load
<1> HIDE DEF whole, after
<1> QED BY <1>6, <1>8, <1>9

(* An instruction gives its target the value of its source and leaves      *)
(* every place apart from that as it is.                                   *)
LEMMA InstructionEffect ==
  ASSUME Set \/ Store, NEW from, NEW to, Head(code) = [from |-> from, to |-> to], Target(to)
  PROVE  /\ Read(to)' = Read(from)
         /\ \A p : Legible(p) /\ Apart(p, to) => Read(p)' = Read(p)
         /\ DOMAIN store' = DOMAIN store
<1>1. Head(code).from = from /\ Head(code).to = to
  OBVIOUS
<1>2. CASE Set
  <2>1. to[1] # "memory" /\ store' = [store EXCEPT ![to] = Read(from)] /\ memory' = memory
    BY <1>1, <1>2 DEF Set
  <2>2. InStore(to)
    BY <2>1, BytesOfPlace DEF Target
  <2>3. Read(to)' = Read(from)
    <3>1. store'[to] = Read(from)
      BY <2>1, <2>2 DEF InStore
    <3>2. Read(to)' = store'[to]
      BY <2>2 DEF Read, InStore
    <3> QED BY <3>1, <3>2
  <2>4. ASSUME NEW p, Legible(p), Apart(p, to) PROVE Read(p)' = Read(p)
    <3>1. CASE InStore(p)
      <4>1. store'[p] = store[p]
        BY <2>1, <2>4, <3>1 DEF InStore, Apart
      <4> QED BY <3>1, <4>1 DEF Read, InStore
    <3>2. CASE p[1] = "memory"
      <4>1. Load(p)' = Load(p)
        BY <2>1 DEF Load
      <4> QED BY <3>2, <4>1 DEF Read
    <3>3. CASE p[1] \in {"default", "literal"}
      BY <3>3 DEF Read
    <3> QED BY <2>4, <3>1, <3>2, <3>3, BytesOfPlace DEF Legible, Target
  <2>5. DOMAIN store' = DOMAIN store
    BY <2>1
  <2> QED BY <2>3, <2>4, <2>5
<1>3. CASE Store
  <2>1. to[1] = "memory" /\ memory' = Stored(to, Read(from)) /\ store' = store
    BY <1>1, <1>3 DEF Store
  <2>2. to \in MemoryPlaces
    BY <2>1 DEF Target, InStore
  <2>3. Read(to)' = Read(from)
    <3>1. Load(to)' = Read(from)
      BY <2>1, <2>2, LoadStored
    <3> QED BY <2>1, <3>1 DEF Read
  <2>4. ASSUME NEW p, Legible(p), Apart(p, to) PROVE Read(p)' = Read(p)
    <3>1. CASE InStore(p)
      BY <2>1, <3>1 DEF Read, InStore
    <3>2. CASE p \in MemoryPlaces
      <4>1. Load(p)' = Load(p)
        BY <2>1, <2>2, <2>4, <3>2, LoadApart
      <4>2. p[1] = "memory"
        BY <3>2, BytesOfPlace
      <4> QED BY <4>1, <4>2 DEF Read
    <3>3. CASE p[1] \in {"default", "literal"}
      BY <3>3 DEF Read
    <3> QED BY <2>4, <3>1, <3>2, <3>3 DEF Legible, Target
  <2> QED BY <2>1, <2>3, <2>4
<1> QED BY <1>2, <1>3

-----------------------------------------------------------------------------
(* What running a list of instructions comes to.  G is a set of pairs of a *)
(* place and the value it is to have in the end.                           *)

Distinct(G) ==
  /\ \A g \in G : g = <<g[1], g[2]>>
  /\ \A g, h \in G : g # h => Apart(g[1], h[1])
Untouched(G, p, e) == Legible(p) /\ (\A g \in G : Apart(p, g[1])) /\ Read(p) = e
Finally(G, p, e) == <<p, e>> \in G \/ Untouched(G, p, e)

(* Each of the instructions c moves what its target is to have: from a     *)
(* place no instruction writes, or from one that has its own value already *)
(* or has it from an instruction before.                                   *)
Sound(G, c) ==
  \A i \in DOMAIN c : \E v :
    /\ <<c[i].to, v>> \in G
    /\ \/ Untouched(G, c[i].from, v)
       \/ /\ <<c[i].from, v>> \in G
          /\ \/ Legible(c[i].from) /\ Read(c[i].from) = v
             \/ \E j \in DOMAIN c : j < i /\ c[j].to = c[i].from
Covers(G, c) == \A g \in G : \E i \in DOMAIN c : c[i].to = g[1]
Pending(G) ==
  /\ Distinct(G)
  /\ \A g \in G : Target(g[1])
  /\ Sound(G, code)
  /\ \A g \in G : Read(g[1]) = g[2] \/ \E i \in DOMAIN code : code[i].to = g[1]

(* The slots of a variant will have these values.                          *)
Becomes(G, v, values) ==
  /\ values = [k \in DOMAIN Slots[v.type] |-> values[k]]
  /\ \A k \in DOMAIN Slots[v.type] : Finally(G, Place(v, Slots[v.type], k), values[k])

(* An instruction brings no value that is not to be there, and what will   *)
(* be, will still be.                                                      *)
LEMMA PendingStep ==
  ASSUME TypeOK, Set \/ Store, NEW G, Pending(G)
  PROVE  Pending(G)' /\ \A p, e : Finally(G, p, e) => Finally(G, p, e)'
<1>1. /\ code \in Seq(Instruction) /\ code # <<>> /\ code' = Tail(code)
      /\ Head(code) = code[1] /\ 1 \in DOMAIN code
  BY DEF TypeOK, Set, Store, Running
<1>2. PICK from, to : code[1] = [from |-> from, to |-> to]
  <2>1. code[1] \in Instruction
    BY <1>1, ElementType
  <2> QED BY <2>1 DEF Instruction
<1>17. code[1].from = from /\ code[1].to = to
  BY <1>2
<1>3. DOMAIN code' = 1..(Len(code) - 1) /\ \A i \in DOMAIN code' : i + 1 \in DOMAIN code /\ code'[i] = code[i + 1]
  BY <1>1
<1>4. PICK v :
        /\ <<to, v>> \in G
        /\ \/ Untouched(G, from, v)
           \/ /\ <<from, v>> \in G
              /\ \/ Legible(from) /\ Read(from) = v
                 \/ \E j \in DOMAIN code : j < 1 /\ code[j].to = from
  BY <1>1, <1>17 DEF Pending, Sound
<1>5. Read(from) = v
  <2>1. \A j \in DOMAIN code : ~(j < 1)
    BY <1>1
  <2> QED BY <1>4, <2>1 DEF Untouched
<1>6. Target(to)
  <2>1. Target(<<to, v>>[1])
    BY <1>4 DEF Pending
  <2> QED BY <2>1
<1>7. Distinct(G)
  BY DEF Pending
<1>8. /\ Read(to)' = v
      /\ \A p : Legible(p) /\ Apart(p, to) => Read(p)' = Read(p)
      /\ DOMAIN store' = DOMAIN store
  <2>1. Head(code) = [from |-> from, to |-> to]
    BY <1>1, <1>2
  <2> QED BY <1>5, <1>6, <2>1, InstructionEffect
<1>9. \A p : (Target(p) <=> Target(p)') /\ (Legible(p) <=> Legible(p)')
  BY <1>8 DEF Target, Legible, InStore
<1>10. ASSUME NEW p, NEW e, <<p, e>> \in G PROVE (p = to /\ e = v) \/ (p # to /\ Apart(p, to))
  <2>1. <<p, e>>[1] = p /\ <<p, e>>[2] = e /\ <<to, v>>[1] = to /\ <<to, v>>[2] = v
    OBVIOUS
  <2>2. CASE <<p, e>> = <<to, v>>
    BY <2>2
  <2>3. CASE <<p, e>> # <<to, v>>
    <3>1. Apart(<<p, e>>[1], <<to, v>>[1])
      BY <1>4, <1>7, <1>10, <2>3 DEF Distinct
    <3> QED BY <2>1, <3>1 DEF Apart
  <2> QED BY <2>2, <2>3
<1>11. ASSUME NEW p, NEW e, <<p, e>> \in G, Read(p) = e PROVE Read(p)' = e
  <2>1. CASE p = to
    BY <1>8, <1>10, <1>11, <2>1
  <2>2. CASE Apart(p, to)
    <3>1. Target(<<p, e>>[1])
      BY <1>11 DEF Pending
    <3>2. Legible(p)
      BY <3>1 DEF Legible
    <3> QED BY <1>8, <1>11, <2>2, <3>2
  <2> QED BY <1>10, <1>11, <2>1, <2>2
<1>12. ASSUME NEW p, NEW e, Untouched(G, p, e) PROVE Untouched(G, p, e)'
  <2>1. Apart(p, <<to, v>>[1])
    BY <1>4, <1>12 DEF Untouched
  <2>2. Read(p)' = Read(p)
    BY <1>8, <1>12, <2>1 DEF Untouched
  <2> QED BY <1>9, <1>12, <2>2 DEF Untouched
<1>13. ASSUME NEW p, NEW e, Finally(G, p, e) PROVE Finally(G, p, e)'
  BY <1>12, <1>13 DEF Finally
<1>14. \A g \in G : Target(g[1])'
  BY <1>9 DEF Pending
<1>15. ASSUME NEW g \in G PROVE Read(g[1])' = g[2] \/ \E i \in DOMAIN code' : code'[i].to = g[1]
  <2>1. PICK p, e : p = g[1] /\ e = g[2] /\ <<p, e>> \in G
    BY <1>7 DEF Distinct
  <2>2. Read(p)' = e \/ \E i \in DOMAIN code' : code'[i].to = p
    <3>1. CASE Read(p) = e
      BY <1>11, <2>1, <3>1
    <3>2. ASSUME NEW i \in DOMAIN code, code[i].to = p
          PROVE  Read(p)' = e \/ \E j \in DOMAIN code' : code'[j].to = p
      <4>1. CASE i = 1
        BY <1>8, <1>10, <1>17, <2>1, <3>2, <4>1
      <4>2. CASE i # 1
        <5>1. i - 1 \in DOMAIN code' /\ (i - 1) + 1 = i
          BY <1>1, <1>3, <4>2
        <5> QED BY <1>3, <3>2, <5>1
      <4> QED BY <4>1, <4>2
    <3>3. Read(p) = e \/ \E i \in DOMAIN code : code[i].to = p
      BY <2>1 DEF Pending
    <3> QED BY <3>1, <3>2, <3>3
  <2> QED BY <2>1, <2>2
<1>16. Sound(G, code)'
  <2>1. ASSUME NEW i \in DOMAIN code'
        PROVE  \E w :
                 /\ <<code'[i].to, w>> \in G
                 /\ \/ Untouched(G, code[i].from, w)'
                    \/ /\ <<code'[i].from, w>> \in G
                       /\ \/ Legible(code[i].from)' /\ Read(code[i].from)' = w
                          \/ \E j \in DOMAIN code' : j < i /\ code'[j].to = code'[i].from
    <3>1. PICK f : code'[i].from = f
      OBVIOUS
    <3>2. i + 1 \in DOMAIN code /\ code'[i] = code[i + 1] /\ i \in Nat
      BY <1>1, <1>3
    <3>3. PICK w :
            /\ <<code'[i].to, w>> \in G
            /\ \/ Untouched(G, f, w)
               \/ /\ <<f, w>> \in G
                  /\ \/ Legible(f) /\ Read(f) = w
                     \/ \E j \in DOMAIN code : j < i + 1 /\ code[j].to = f
      <4>1. Sound(G, code) /\ code[i + 1].from = f /\ code[i + 1].to = code'[i].to
        BY <3>1, <3>2 DEF Pending
      <4>2. \E w :
              /\ <<code[i + 1].to, w>> \in G
              /\ \/ Untouched(G, code[i + 1].from, w)
                 \/ /\ <<code[i + 1].from, w>> \in G
                    /\ \/ Legible(code[i + 1].from) /\ Read(code[i + 1].from) = w
                       \/ \E j \in DOMAIN code : j < i + 1 /\ code[j].to = code[i + 1].from
        BY <3>2, <4>1 DEF Sound
      <4> QED BY <4>1, <4>2
    <3>4. CASE Untouched(G, f, w)
      <4>1. Untouched(G, f, w)'
        BY <1>12, <3>4
      <4>2. Untouched(G, code[i].from, w)'
        BY <3>1, <4>1 DEF Untouched, Legible, Target, InStore, Read, Load
      <4> QED BY <3>3, <4>2
    <3>5. CASE <<f, w>> \in G
      <4> DEFINE again == Legible(f)' /\ Read(f)' = w
                 fed == again \/ \E j \in DOMAIN code' : j < i /\ code'[j].to = f
      <4>1. Legible(f)'
        <5>1. Target(<<f, w>>[1]) /\ <<f, w>>[1] = f
          BY <3>5 DEF Pending
        <5> QED BY <1>9, <5>1 DEF Legible
      <4>2. Read(f) = w => again
        BY <1>11, <3>5, <4>1
      <4>3. ASSUME NEW j \in DOMAIN code, j < i + 1, code[j].to = f PROVE fed
        <5>1. CASE j = 1
          <6>1. f = to
            BY <1>17, <4>3, <5>1
          <6> QED BY <1>8, <1>10, <3>5, <4>1, <6>1
        <5>2. CASE j # 1
          <6>1. j - 1 \in DOMAIN code' /\ (j - 1) + 1 = j /\ j - 1 < i
            BY <1>1, <1>3, <3>2, <4>3, <5>2
          <6> QED BY <1>3, <4>3, <6>1
        <5> QED BY <5>1, <5>2
      <4>4. fed
        <5>1. Untouched(G, f, w) => fed
          BY <4>2 DEF Untouched
        <5> QED BY <3>3, <4>2, <4>3, <5>1
      <4>5. again => Legible(code[i].from)' /\ Read(code[i].from)' = w
        BY <3>1 DEF Read, Load, Legible, Target, InStore
      <4> QED BY <3>1, <3>3, <3>5, <4>4, <4>5
    <3> QED BY <3>3, <3>4, <3>5
  <2> QED BY <2>1 DEF Sound
<1> QED BY <1>7, <1>13, <1>14, <1>15, <1>16 DEF Pending

(* Beginning to run: the store may have grown.                             *)
LEMMA PlanBegins ==
  ASSUME NEW G, NEW c, Distinct(G), Sound(G, c), Covers(G, c),
         code' = c, memory' = memory, DOMAIN store \subseteq DOMAIN store',
         \A p \in DOMAIN store : store'[p] = store[p],
         \A g \in G : Target(g[1])'
  PROVE  Pending(G)' /\ \A p, e : Finally(G, p, e) => Finally(G, p, e)'
<1>1. ASSUME NEW p, Legible(p) PROVE Legible(p)' /\ Read(p)' = Read(p)
  <2>1. CASE InStore(p)
    BY <2>1 DEF InStore, Legible, Target, Read
  <2>2. CASE p \in MemoryPlaces
    <3>1. p[1] = "memory"
      BY <2>2, BytesOfPlace
    <3> QED BY <2>2, <3>1 DEF Legible, Target, Read, Load
  <2>3. CASE p[1] \in {"default", "literal"}
    BY <2>3 DEF Legible, Target, Read
  <2> QED BY <1>1, <2>1, <2>2, <2>3 DEF Legible, Target
<1>2. ASSUME NEW p, NEW e, Untouched(G, p, e) PROVE Untouched(G, p, e)'
  BY <1>1, <1>2 DEF Untouched
<1>3. \A g \in G : \E i \in DOMAIN code' : code'[i].to = g[1]
  BY DEF Covers
<1>4. Sound(G, code)'
  <2>1. ASSUME NEW i \in DOMAIN code'
        PROVE  \E w :
                 /\ <<code'[i].to, w>> \in G
                 /\ \/ Untouched(G, code[i].from, w)'
                    \/ /\ <<code'[i].from, w>> \in G
                       /\ \/ Legible(code[i].from)' /\ Read(code[i].from)' = w
                          \/ \E j \in DOMAIN code' : j < i /\ code'[j].to = code'[i].from
    <3>1. PICK f : code'[i].from = f
      OBVIOUS
    <3>2. PICK w :
            /\ <<code'[i].to, w>> \in G
            /\ \/ Untouched(G, f, w)
               \/ /\ <<f, w>> \in G
                  /\ \/ Legible(f) /\ Read(f) = w
                     \/ \E j \in DOMAIN code' : j < i /\ code'[j].to = f
      BY <3>1 DEF Sound
    <3>3. CASE Untouched(G, f, w)
      <4>1. Untouched(G, f, w)'
        BY <1>2, <3>3
      <4>2. Untouched(G, code[i].from, w)'
        BY <3>1, <4>1 DEF Untouched, Legible, Target, InStore, Read, Load
      <4> QED BY <3>2, <4>2
    <3>4. CASE <<f, w>> \in G /\ Legible(f) /\ Read(f) = w
      <4>1. Legible(f)' /\ Read(f)' = w
        BY <1>1, <3>4
      <4>2. Legible(code[i].from)' /\ Read(code[i].from)' = w
        BY <3>1, <4>1 DEF Read, Load, Legible, Target, InStore
      <4> QED BY <3>1, <3>2, <3>4, <4>2
    <3>5. CASE <<f, w>> \in G /\ \E j \in DOMAIN code' : j < i /\ code'[j].to = f
      BY <3>1, <3>2, <3>5
    <3> QED BY <3>2, <3>3, <3>4, <3>5
  <2> QED BY <2>1 DEF Sound
<1> QED BY <1>2, <1>3, <1>4 DEF Pending, Finally

-----------------------------------------------------------------------------
(* Lists of instructions, one after the other.                             *)

Sequence(c) == c \in Seq({c[i] : i \in DOMAIN c})

(* Where the instructions of two lists are in their concatenation.         *)
LEMMA Concatenated ==
  ASSUME NEW c, NEW d, Sequence(c), Sequence(d)
  PROVE  /\ Sequence(c \o d)
         /\ \A i \in DOMAIN c : i \in DOMAIN (c \o d) /\ (c \o d)[i] = c[i]
         /\ Len(c) \in Nat
         /\ \A i \in DOMAIN d : Len(c) + i \in DOMAIN (c \o d) /\ (c \o d)[Len(c) + i] = d[i]
         /\ \A i \in DOMAIN (c \o d) : i \in DOMAIN c \/ (i - Len(c) \in DOMAIN d /\ i > Len(c))
         /\ DOMAIN c = 1..Len(c)
         /\ DOMAIN (c \o d) \subseteq Nat
<1> DEFINE S == {c[i] : i \in DOMAIN c} \cup {d[i] : i \in DOMAIN d}
<1>1. c \in Seq(S) /\ d \in Seq(S)
  BY DEF Sequence
<1> HIDE DEF S
<1>2. /\ c \o d \in Seq(S) /\ Len(c \o d) = Len(c) + Len(d) /\ Len(c) \in Nat /\ Len(d) \in Nat
      /\ \A i \in 1..(Len(c) + Len(d)) : (c \o d)[i] = IF i <= Len(c) THEN c[i] ELSE d[i - Len(c)]
      /\ DOMAIN c = 1..Len(c) /\ DOMAIN d = 1..Len(d) /\ DOMAIN (c \o d) = 1..(Len(c) + Len(d))
  BY <1>1
<1> DEFINE e == c \o d
<1> HIDE DEF e
<1>3. e \in Seq(S)
  BY <1>2 DEF e
<1>4. Sequence(e)
  BY <1>3 DEF Sequence
<1> QED BY <1>2, <1>4 DEF e

(* The instructions of a move.                                             *)
LEMMA Moves ==
  ASSUME NEW source, NEW target, source.type \in Types
  PROVE  LET L == Slots[source.type] IN
         /\ Sequence(AssignTo(source, target))
         /\ DOMAIN AssignTo(source, target) = DOMAIN L
         /\ \A k \in DOMAIN L :
              /\ AssignTo(source, target)[k].from = Place(source, L, k)
              /\ AssignTo(source, target)[k].to = Place(target, L, k)
<1> DEFINE L == Slots[source.type]
           c == AssignTo(source, target)
<1>1. L \in Seq(Basis) /\ Len(L) \in Nat
  BY SlotsType
<1>2. c = [k \in DOMAIN L |-> [from |-> Place(source, L, k), to |-> Place(target, L, k)]]
  BY DEF AssignTo
<1>3. DOMAIN c = 1..Len(L) /\ DOMAIN c = DOMAIN L /\ c = [k \in 1..Len(L) |-> c[k]]
  BY <1>1, <1>2
<1>4. \A k \in DOMAIN L : c[k].from = Place(source, L, k) /\ c[k].to = Place(target, L, k)
  BY <1>2
<1> HIDE DEF c, L
<1>5. Sequence(c)
  BY <1>1, <1>3 DEF Sequence
<1> QED BY <1>3, <1>4, <1>5 DEF c, L

(* The pairs of the slots of a variant and the values they are to have.    *)
Block(v, values) == {<<Place(v, Slots[v.type], k), values[k]>> : k \in DOMAIN Slots[v.type]}

(* A move after the instructions c.                                        *)
LEMMA SoundMove ==
  ASSUME NEW c, Sequence(c), NEW G, Sound(G, c),
         NEW source, NEW target, source.type \in Types, target.type = source.type,
         NEW values, Block(target, values) \subseteq G,
         \A k \in DOMAIN Slots[source.type] :
           LET from == Place(source, Slots[source.type], k) IN
           \/ Untouched(G, from, values[k])
           \/ /\ <<from, values[k]>> \in G
              /\ \/ Legible(from) /\ Read(from) = values[k]
                 \/ \E j \in DOMAIN c : c[j].to = from
  PROVE  Sound(G, c \o AssignTo(source, target)) /\ Sequence(c \o AssignTo(source, target))
<1> DEFINE L == Slots[source.type]
           d == AssignTo(source, target)
           e == c \o d
<1>1. /\ Sequence(d) /\ DOMAIN d = DOMAIN L
      /\ \A k \in DOMAIN L : d[k].from = Place(source, L, k) /\ d[k].to = Place(target, L, k)
  BY Moves
<1> HIDE DEF d
<1>2. /\ Sequence(e) /\ Len(c) \in Nat
      /\ \A i \in DOMAIN c : i \in DOMAIN e /\ e[i] = c[i]
      /\ \A i \in DOMAIN d : Len(c) + i \in DOMAIN e /\ e[Len(c) + i] = d[i]
      /\ \A i \in DOMAIN e : i \in DOMAIN c \/ (i - Len(c) \in DOMAIN d /\ i > Len(c))
      /\ DOMAIN c = 1..Len(c)
      /\ DOMAIN e \subseteq Nat
  <2>1. Sequence(c) /\ Sequence(d)
    BY <1>1
  <2> HIDE DEF L, e
  <2>2. e = c \o d
    BY DEF e
  <2> QED BY <2>1, <2>2, Concatenated
<1> HIDE DEF e
<1> SUFFICES ASSUME NEW i \in DOMAIN e
             PROVE  \E v :
                      /\ <<e[i].to, v>> \in G
                      /\ \/ Untouched(G, e[i].from, v)
                         \/ /\ <<e[i].from, v>> \in G
                            /\ \/ Legible(e[i].from) /\ Read(e[i].from) = v
                               \/ \E j \in DOMAIN e : j < i /\ e[j].to = e[i].from
  BY <1>2 DEF Sound, d, e
<1>3. CASE i \in DOMAIN c
  <2>1. PICK v :
          /\ <<c[i].to, v>> \in G
          /\ \/ Untouched(G, c[i].from, v)
             \/ /\ <<c[i].from, v>> \in G
                /\ \/ Legible(c[i].from) /\ Read(c[i].from) = v
                   \/ \E j \in DOMAIN c : j < i /\ c[j].to = c[i].from
    BY <1>3 DEF Sound
  <2>2. e[i] = c[i] /\ \A j \in DOMAIN c : j \in DOMAIN e /\ e[j] = c[j]
    BY <1>2, <1>3
  <2>3. <<e[i].to, v>> \in G
    BY <2>1, <2>2
  <2>4. CASE \E j \in DOMAIN c : j < i /\ c[j].to = c[i].from
    <3>1. \E j \in DOMAIN e : j < i /\ e[j].to = e[i].from
      BY <2>2, <2>4
    <3>2. Untouched(G, e[i].from, v) \/ <<e[i].from, v>> \in G
      BY <2>1, <2>2
    <3> QED BY <2>3, <3>1, <3>2
  <2>5. CASE ~\E j \in DOMAIN c : j < i /\ c[j].to = c[i].from
    <3>1. Untouched(G, e[i].from, v) \/ (<<e[i].from, v>> \in G /\ Legible(e[i].from) /\ Read(e[i].from) = v)
      BY <2>1, <2>2, <2>5
    <3> QED BY <2>3, <3>1
  <2> QED BY <2>4, <2>5
<1>4. CASE i - Len(c) \in DOMAIN d /\ i > Len(c)
  <2> DEFINE k == i - Len(c)
             from == Place(source, L, k)
  <2>1. e[i] = d[k] /\ k \in DOMAIN L
    <3>1. i \in Nat /\ Len(c) + k = i
      BY <1>1, <1>2, <1>4, SlotsType
    <3> QED BY <1>1, <1>2, <1>4, <3>1
  <2>2. e[i].from = from /\ e[i].to = Place(target, L, k)
    BY <1>1, <2>1
  <2>3. <<Place(target, L, k), values[k]>> \in G
    BY <2>1 DEF Block
  <2>4. \A j \in DOMAIN c : j \in DOMAIN e /\ e[j] = c[j] /\ j < i
    BY <1>1, <1>2, <1>4, SlotsType
  <2>5. \/ Untouched(G, from, values[k])
        \/ /\ <<from, values[k]>> \in G
           /\ \/ Legible(from) /\ Read(from) = values[k]
              \/ \E j \in DOMAIN c : c[j].to = from
    BY <2>1
  <2> HIDE DEF k, from
  <2>6. CASE \E j \in DOMAIN c : c[j].to = from
    <3>1. \E j \in DOMAIN e : j < i /\ e[j].to = e[i].from
      BY <2>2, <2>4, <2>6
    <3>2. Untouched(G, e[i].from, values[k]) \/ <<e[i].from, values[k]>> \in G
      BY <2>2, <2>5
    <3> QED BY <2>2, <2>3, <3>1, <3>2
  <2>7. CASE ~\E j \in DOMAIN c : c[j].to = from
    <3>1. \/ Untouched(G, e[i].from, values[k])
          \/ (<<e[i].from, values[k]>> \in G /\ Legible(e[i].from) /\ Read(e[i].from) = values[k])
      BY <2>2, <2>5, <2>7
    <3> QED BY <2>2, <2>3, <3>1
  <2> QED BY <2>6, <2>7
<1> QED BY <1>2, <1>3, <1>4

(* The targets of the move are written by it.                              *)
LEMMA CoversMove ==
  ASSUME NEW c, Sequence(c), NEW G, Covers(G, c),
         NEW source, NEW target, source.type \in Types, target.type = source.type, NEW values
  PROVE  Covers(G \cup Block(target, values), c \o AssignTo(source, target))
<1> DEFINE L == Slots[source.type]
           d == AssignTo(source, target)
           e == c \o d
<1>1. /\ Sequence(d) /\ DOMAIN d = DOMAIN L
      /\ \A k \in DOMAIN L : d[k].to = Place(target, L, k)
  BY Moves
<1> HIDE DEF d
<1>2. /\ \A i \in DOMAIN c : i \in DOMAIN e /\ e[i] = c[i]
      /\ \A i \in DOMAIN d : Len(c) + i \in DOMAIN e /\ e[Len(c) + i] = d[i]
  <2>1. Sequence(c) /\ Sequence(d)
    BY <1>1
  <2> HIDE DEF L, e
  <2>2. e = c \o d
    BY DEF e
  <2> QED BY <2>1, <2>2, Concatenated
<1> HIDE DEF e
<1> SUFFICES ASSUME NEW g \in G \cup Block(target, values) PROVE \E i \in DOMAIN e : e[i].to = g[1]
  BY DEF Covers, d, e
<1>3. CASE g \in G
  BY <1>2, <1>3 DEF Covers
<1>4. CASE g \in Block(target, values)
  <2>1. PICK k \in DOMAIN L : g = <<Place(target, L, k), values[k]>>
    BY <1>4 DEF Block
  <2>2. e[Len(c) + k].to = g[1] /\ Len(c) + k \in DOMAIN e
    BY <1>1, <1>2, <2>1
  <2> QED BY <2>2
<1> QED BY <1>3, <1>4

(* What is pending is done when no instruction is left.                    *)
LEMMA BecomesDone ==
  ASSUME NEW G, Pending(G), code = <<>>, NEW v, NEW values, Becomes(G, v, values)
  PROVE  Contents(v) = values
<1> DEFINE L == Slots[v.type]
<1>1. ASSUME NEW k \in DOMAIN L PROVE Read(Place(v, L, k)) = values[k]
  <2> DEFINE p == Place(v, L, k)
  <2>1. Finally(G, p, values[k])
    BY DEF Becomes
  <2> HIDE DEF p
  <2>2. CASE <<p, values[k]>> \in G
    <3> DEFINE g == <<p, values[k]>>
    <3>1. Read(g[1]) = g[2]
      BY <2>2 DEF Pending
    <3> QED BY <3>1 DEF p
  <2>3. CASE Untouched(G, p, values[k])
    BY <2>3 DEF Untouched, p
  <2> QED BY <2>1, <2>2, <2>3 DEF Finally
<1>2. Contents(v) = [k \in DOMAIN L |-> values[k]]
  BY <1>1 DEF Contents
<1> QED BY <1>2 DEF Becomes

-----------------------------------------------------------------------------
(* The wasm locals of a function: one variable after the other.            *)

LocalVariable == [name: Names, type: Types, index: Nat]
SlotsOf(vs) == [i \in DOMAIN vs |-> Slots[vs[i].type]]
Packed(vs, end) ==
  Offsets(SlotsOf(vs), [i \in 1..(Len(vs) + 1) |-> IF i = Len(vs) + 1 THEN end ELSE vs[i].index])

(* The slots of a list of variables are sequences of basis types.          *)
LEMMA SlotsOfType ==
  ASSUME NEW vs, NEW n \in Nat, DOMAIN vs = 1..n, \A i \in 1..n : vs[i].type \in Types
  PROVE  SlotsOf(vs) \in Seq(Seq(Basis)) /\ Len(SlotsOf(vs)) = n
<1>1. \A i \in 1..n : Slots[vs[i].type] \in Seq(Basis)
  BY SlotsType
<1> DEFINE s == [i \in 1..n |-> Slots[vs[i].type]]
<1>2. s \in [1..n -> Seq(Basis)]
  BY <1>1
<1> HIDE DEF s
<1>3. s \in Seq(Seq(Basis)) /\ Len(s) = n
  BY <1>2
<1> QED BY <1>3 DEF SlotsOf, s

(* The types of a list of local variables.                                 *)
LEMMA LocalFacts ==
  ASSUME NEW vs \in Seq(LocalVariable)
  PROVE  /\ Len(vs) \in Nat /\ DOMAIN vs = 1..Len(vs)
         /\ \A i \in DOMAIN vs :
              /\ vs[i].name \in Names /\ vs[i].type \in Types /\ vs[i].index \in Nat
              /\ vs[i] = [name |-> vs[i].name, type |-> vs[i].type, index |-> vs[i].index]
         /\ SlotsOf(vs) \in Seq(Seq(Basis)) /\ Len(SlotsOf(vs)) = Len(vs)
<1>1. \A i \in DOMAIN vs : vs[i] \in LocalVariable
  BY ElementType
<1>2. \A i \in DOMAIN vs :
        /\ vs[i].name \in Names /\ vs[i].type \in Types /\ vs[i].index \in Nat
        /\ vs[i] = [name |-> vs[i].name, type |-> vs[i].type, index |-> vs[i].index]
  BY <1>1 DEF LocalVariable
<1>3. Len(vs) \in Nat /\ DOMAIN vs = 1..Len(vs)
  OBVIOUS
<1> QED BY <1>2, <1>3, SlotsOfType

(* Every slot of a variable is a wasm local the function declares.         *)
LEMMA DeclaredSlots ==
  ASSUME NEW vs \in Seq(LocalVariable), NEW end, Packed(vs, end), NEW gs,
         NEW i \in DOMAIN vs, NEW k \in DOMAIN Slots[vs[i].type]
  PROVE  /\ vs[i].index + k - 1 \in Nat
         /\ << <<"local", vs[i].index + k - 1>>, Slots[vs[i].type][k]>> \in declared(vs, gs)
<1> DEFINE s == SlotsOf(vs)
           o == [j \in 1..(Len(vs) + 1) |-> IF j = Len(vs) + 1 THEN end ELSE vs[j].index]
           n == vs[i].index + k
<1>1. s \in Seq(Seq(Basis)) /\ Len(s) = Len(vs) /\ Offsets(s, o) /\ wasmLocals(vs) = FlattenSeq(s)
  BY LocalFacts DEF Packed, wasmLocals, SlotsOf
<1>2. /\ i \in 1..Len(vs) /\ Len(vs) \in Nat /\ o[i] = vs[i].index /\ s[i] = Slots[vs[i].type]
      /\ vs[i].index \in Nat /\ vs[i].type \in Types
  <2>1. i \in 1..Len(vs) /\ Len(vs) \in Nat /\ vs[i].index \in Nat /\ vs[i].type \in Types
    BY LocalFacts
  <2>2. s[i] = Slots[vs[i].type]
    BY DEF SlotsOf
  <2>3. o[i] = vs[i].index
    BY <2>1
  <2> QED BY <2>1, <2>2, <2>3
<1>3. k \in 1..Len(s[i]) /\ k \in Nat /\ k >= 1
  BY <1>2, SlotsType
<1> HIDE DEF s, o
<1>4. /\ FlattenSeq(s) \in Seq(Basis)
      /\ FlattenSeq(s)[o[i] + k] = s[i][k]
      /\ o[i] + k \in 1..Len(FlattenSeq(s))
  BY <1>1, <1>2, <1>3, Flattened
<1>5. n \in DOMAIN wasmLocals(vs) /\ wasmLocals(vs)[n] = Slots[vs[i].type][k] /\ n - 1 \in Nat
  <2>1. DOMAIN FlattenSeq(s) = 1..Len(FlattenSeq(s))
    BY <1>4
  <2> QED BY <1>1, <1>2, <1>3, <1>4, <2>1
<1>6. << <<"local", n - 1>>, wasmLocals(vs)[n]>> \in declared(vs, gs)
  BY <1>5 DEF declared
<1>7. << <<"local", n - 1>>, Slots[vs[i].type][k]>> \in declared(vs, gs)
  BY <1>5, <1>6
<1>8. vs[i].index + k - 1 = n - 1
  BY <1>2, <1>3
<1> HIDE DEF n
<1> QED BY <1>5, <1>7, <1>8

(* No variable takes no place.                                             *)
LEMMA PackedEmpty ==
  Packed(<<>>, 0)
<1> DEFINE o == [i \in 1..(Len(<<>>) + 1) |-> IF i = Len(<<>>) + 1 THEN 0 ELSE <<>>[i].index]
<1>1. SlotsOf(<<>>) = <<>>
  BY DEF SlotsOf
<1>2. o = [i \in 1..1 |-> 0]
  OBVIOUS
<1> HIDE DEF o
<1>3. Offsets(<<>>, o)
  BY <1>2 DEF Offsets
<1> QED BY <1>1, <1>3 DEF Packed, o

(* Function::addLocal puts the next variable behind the last.              *)
LEMMA PackedAppend ==
  ASSUME NEW vs \in Seq(LocalVariable), NEW end \in Nat, Packed(vs, end),
         NEW name \in Names, NEW type \in Types
  PROVE  LET new == [name |-> name, type |-> type, index |-> end] IN
         /\ Append(vs, new) \in Seq(LocalVariable)
         /\ Packed(Append(vs, new), end + Len(Slots[type]))
<1> DEFINE new == [name |-> name, type |-> type, index |-> end]
           ws == Append(vs, new)
           n == Len(vs)
           last == end + Len(Slots[type])
           o == [j \in 1..(n + 1) |-> IF j = n + 1 THEN end ELSE vs[j].index]
           p == [j \in 1..(n + 2) |-> IF j = n + 2 THEN last ELSE ws[j].index]
<1>1. new \in LocalVariable /\ Len(Slots[type]) \in Nat /\ last \in Nat
  BY SlotsType DEF LocalVariable
<1>2. n \in Nat /\ \A j \in 1..n : vs[j].type \in Types
  BY LocalFacts
<1> HIDE DEF new
<1>3. /\ ws \in Seq(LocalVariable) /\ Len(ws) = n + 1 /\ ws[n + 1] = new
      /\ \A j \in 1..n : ws[j] = vs[j]
  BY <1>1, <1>2
<1>4. new.type = type /\ new.index = end
  BY DEF new
<1> HIDE DEF ws, n, last
<1>5. \A j \in 1..(n + 1) : p[j] = o[j]
  BY <1>2, <1>3, <1>4
<1>6. p[n + 2] = last /\ o[n + 1] = end
  BY <1>2
<1>7. Offsets(SlotsOf(vs), o) /\ Len(SlotsOf(vs)) = n /\ \A j \in 1..n : SlotsOf(vs)[j] = Slots[vs[j].type]
  BY LocalFacts DEF Packed, n, SlotsOf
<1>8. Len(SlotsOf(ws)) = n + 1 /\ \A j \in 1..(n + 1) : SlotsOf(ws)[j] = Slots[ws[j].type]
  BY <1>3, LocalFacts DEF SlotsOf
<1>9. p = [j \in 1..(n + 2) |-> p[j]]
  OBVIOUS
<1> HIDE DEF o, p
<1>10. /\ o[1] = 0 /\ \A j \in 1..(n + 1) : o[j] \in Nat
       /\ \A j \in 1..n : o[j + 1] = o[j] + Len(Slots[vs[j].type])
  BY <1>7 DEF Offsets
<1>11. \A j \in 1..(n + 2) : p[j] \in Nat
  <2>1. \A j \in 1..(n + 2) : j = n + 2 \/ j \in 1..(n + 1)
    BY <1>2
  <2> QED BY <1>1, <1>5, <1>6, <1>10, <2>1
<1>12. p[1] = 0
  <2>1. 1 \in 1..(n + 1)
    BY <1>2
  <2> QED BY <1>5, <1>10, <2>1
<1>13. ASSUME NEW j \in 1..(n + 1) PROVE p[j + 1] = p[j] + Len(SlotsOf(ws)[j])
  <2>1. CASE j = n + 1
    <3>1. j + 1 = n + 2 /\ p[j] = end /\ SlotsOf(ws)[j] = Slots[type]
      BY <1>2, <1>3, <1>4, <1>5, <1>6, <1>8, <2>1
    <3> QED BY <1>6, <3>1 DEF last
  <2>2. CASE j # n + 1
    <3>1. j \in 1..n /\ j + 1 \in 1..(n + 1)
      BY <1>2, <2>2
    <3> QED BY <1>3, <1>5, <1>8, <1>10, <3>1
  <2> QED BY <2>1, <2>2
<1>14. p \in [1..(n + 2) -> Nat]
  BY <1>9, <1>11
<1>15. (n + 1) + 1 = n + 2
  BY <1>2
<1>16. Offsets(SlotsOf(ws), p)
  BY <1>8, <1>12, <1>13, <1>14, <1>15 DEF Offsets
<1>17. p = [j \in 1..(Len(ws) + 1) |-> IF j = Len(ws) + 1 THEN last ELSE ws[j].index]
  BY <1>3, <1>15 DEF p
<1>18. Packed(ws, last)
  BY <1>16, <1>17 DEF Packed
<1> QED BY <1>3, <1>18 DEF ws, new, last

(* The locals are the arguments and then the other variables.              *)
Shape ==
  /\ Packed(locals, localIndex)
  /\ GlobalsDiffer(globals)
  /\ status # "arguments" => Len(function.arguments) <= Len(locals)
  /\ status = "arguments" => globals = function.globals
  /\ \A i \in DOMAIN locals : i <= Len(function.arguments) =>
       /\ locals[i].name = function.arguments[i].name
       /\ locals[i].type = function.arguments[i].type

(* At the beginning.                                                       *)
LEMMA ShapeInit ==
  ASSUME Regular, Init
  PROVE  Shape
<1>1. Packed(locals, localIndex)
  BY PackedEmpty DEF Init
<1>2. GlobalsDiffer(globals)
  BY DEF Init, Regular
<1>3. DOMAIN locals = {}
  BY DEF Init
<1> QED BY <1>1, <1>2, <1>3 DEF Shape, Init

(* A step that leaves the variables keeps it.                              *)
LEMMA ShapeKept ==
  ASSUME Shape, UNCHANGED <<function, locals, localIndex, globals>>,
         status' = "arguments" => status = "arguments",
         status' # "arguments" /\ status = "arguments" => Len(function.arguments) <= Len(locals)
  PROVE  Shape'
BY DEF Shape

(* And so do the steps that add one.                                       *)
LEMMA ShapeStep ==
  ASSUME TypeOK, StoreHolds, Shape, [Next]_vars
  PROVE  Shape'
<1>1. locals \in Seq(LocalVariable) /\ localIndex \in Nat /\ Len(locals) \in Nat /\ DOMAIN locals = 1..Len(locals)
  BY LocalFacts DEF TypeOK, LocalVariable
<1>2. function.arguments \in Seq(Variable) /\ Len(function.arguments) \in Nat
  BY FunctionType
<1>3. ASSUME NEW name \in Names, NEW type \in Types, addLocal(name, type)
      PROVE  /\ Packed(locals', localIndex') /\ Len(locals') = Len(locals) + 1
             /\ \A i \in DOMAIN locals : locals'[i] = locals[i]
             /\ DOMAIN locals' = DOMAIN locals \cup {Len(locals) + 1}
             /\ locals'[Len(locals) + 1] = [name |-> name, type |-> type, index |-> localIndex]
  <2>1. /\ locals' = Append(locals, [name |-> name, type |-> type, index |-> localIndex])
        /\ localIndex' = localIndex + Len(Slots[type])
    BY <1>3 DEF addLocal, nextIndex
  <2>2. Packed(locals', localIndex')
    BY <1>1, <2>1, PackedAppend DEF Shape
  <2> QED BY <1>1, <1>3, <2>1, <2>2
<1>4. CASE AddArgument
  <2> DEFINE n == Len(locals) + 1
             argument == function.arguments[n]
  <2>1. n \in DOMAIN function.arguments /\ argument \in Variable
    BY <1>1, <1>2, <1>4 DEF AddArgument
  <2>2. argument.name \in Names /\ argument.type \in Types
    BY <2>1 DEF Variable
  <2>3. /\ addLocal(argument.name, argument.type) /\ status = "arguments"
        /\ UNCHANGED <<function, globals, status>>
    BY <1>4 DEF AddArgument
  <2>4. /\ Packed(locals', localIndex')
        /\ \A i \in DOMAIN locals : locals'[i] = locals[i]
        /\ DOMAIN locals' = DOMAIN locals \cup {n}
        /\ locals'[n] = [name |-> argument.name, type |-> argument.type, index |-> localIndex]
    <3> HIDE DEF argument
    <3> QED BY <1>3, <2>2, <2>3
  <2>5. locals'[n].name = argument.name /\ locals'[n].type = argument.type
    BY <2>4
  <2>6. ASSUME NEW i \in DOMAIN locals', i <= Len(function.arguments)
        PROVE  /\ locals'[i].name = function.arguments[i].name
               /\ locals'[i].type = function.arguments[i].type
    BY <2>4, <2>5, <2>6 DEF Shape
  <2> QED BY <2>3, <2>4, <2>6 DEF Shape
<1>5. CASE EnterBody
  BY <1>5, ShapeKept DEF EnterBody, scope
<1>6. ASSUME NEW s \in Statements, CompileLet(s)
      PROVE  Shape'
  <2> DEFINE type == SourceType(locals, globals, s.from)
  <2>1. /\ status = "running" /\ function' = function /\ type \in Types /\ s.name \in Names
        /\ s.do = "let"
    BY <1>6, BeginType, StatementName DEF CompileLet
  <2>2. status' # "arguments"
    BY <1>6, <2>1 DEF CompileLet, Emit
  <2>3. CASE addLocal(s.name, type) /\ UNCHANGED globals
    <3>1. /\ Packed(locals', localIndex') /\ Len(locals') = Len(locals) + 1
          /\ \A i \in DOMAIN locals : locals'[i] = locals[i]
          /\ DOMAIN locals' = DOMAIN locals \cup {Len(locals) + 1}
      <4> HIDE DEF type
      <4> QED BY <1>3, <2>1, <2>3
    <3>2. Len(function.arguments) <= Len(locals)
      BY <2>1 DEF Shape
    <3>3. Len(function.arguments) <= Len(locals') /\ ~(Len(locals) + 1 <= Len(function.arguments))
      BY <1>1, <1>2, <3>1, <3>2
    <3>4. ASSUME NEW i \in DOMAIN locals', i <= Len(function.arguments)
          PROVE  /\ locals'[i].name = function.arguments[i].name
                 /\ locals'[i].type = function.arguments[i].type
      BY <3>1, <3>3, <3>4 DEF Shape
    <3> QED BY <2>1, <2>2, <2>3, <3>1, <3>3, <3>4 DEF Shape
  <2>4. CASE /\ function.start
             /\ globals' = Append(globals, [name |-> s.name, type |-> type])
             /\ UNCHANGED <<locals, localIndex>>
    <3>1. Named(globals, s.name) = {}
      BY <1>6, <2>1, <2>4 DEF CompileLet, Begin, WellTyped
    <3>2. globals \in Seq(Variable) /\ Len(globals) \in Nat /\ DOMAIN globals = 1..Len(globals)
      BY DEF TypeOK
    <3> DEFINE n == Len(globals) + 1
    <3>3. /\ DOMAIN globals' = DOMAIN globals \cup {n} /\ globals'[n].name = s.name
          /\ \A i \in DOMAIN globals : globals'[i] = globals[i]
      <4> DEFINE new == [name |-> s.name, type |-> type]
      <4>1. new \in Variable /\ new.name = s.name
        BY <2>1 DEF Variable
      <4> HIDE DEF new
      <4>2. globals' = Append(globals, new)
        BY <2>4 DEF new
      <4> QED BY <3>2, <4>1, <4>2
    <3>4. \A i \in DOMAIN globals : globals[i].name # s.name
      BY <3>1 DEF Named
    <3> HIDE DEF n
    <3>5. GlobalsDiffer(globals')
      BY <3>3, <3>4 DEF Shape, GlobalsDiffer
    <3> QED BY <2>1, <2>2, <2>4, <3>5 DEF Shape
  <2> QED BY <1>6, <2>3, <2>4 DEF CompileLet
<1>7. ASSUME NEW s \in Statements, CompileAssign(s) \/ CompileReturn(s)
      PROVE  Shape'
  BY <1>7, ShapeKept DEF CompileAssign, CompileReturn, Begin, Ready, Emit
<1>8. CASE CompileEnd
  BY <1>8, ShapeKept DEF CompileEnd, Ready, Emit, scope
<1>9. CASE Set \/ Store
  BY <1>9, ShapeKept DEF Set, Store, Running, scope
<1>10. CASE Done
  BY <1>10, ShapeKept DEF Done, scope
<1>11. CASE UNCHANGED vars
  BY <1>11, ShapeKept DEF vars, scope
<1> QED BY <1>4, <1>5, <1>6, <1>7, <1>8, <1>9, <1>10, <1>11 DEF Next

-----------------------------------------------------------------------------
(* What a path of a well typed statement is resolved to.                   *)

(* The types of the globals.                                               *)
LEMMA GlobalFacts ==
  ASSUME TypeOK
  PROVE  /\ Len(globals) \in Nat /\ DOMAIN globals = 1..Len(globals)
         /\ \A i \in DOMAIN globals :
              /\ globals[i].name \in Names /\ globals[i].type \in Types
              /\ globals[i] = [name |-> globals[i].name, type |-> globals[i].type]
<1>1. globals \in Seq(Variable)
  BY DEF TypeOK
<1>2. \A i \in DOMAIN globals : globals[i] \in Variable
  BY <1>1, ElementType
<1> QED BY <1>1, <1>2 DEF Variable

(* And of the locals.                                                      *)
LEMMA StateFacts ==
  ASSUME TypeOK
  PROVE  /\ locals \in Seq(LocalVariable) /\ Len(locals) \in Nat /\ DOMAIN locals = 1..Len(locals)
         /\ localIndex \in Nat
         /\ \A i \in DOMAIN locals :
              /\ locals[i].name \in Names /\ locals[i].type \in Types /\ locals[i].index \in Nat
              /\ Len(Slots[locals[i].type]) \in Nat
<1>1. locals \in Seq(LocalVariable) /\ localIndex \in Nat
  BY DEF TypeOK, LocalVariable
<1> QED BY <1>1, LocalFacts, SlotsType

(* The path comes to a value of type t at F in the local i.                *)
OfLocal(path, i, t, F) ==
  /\ Named(locals, Head(path)) # {}
  /\ i = First(locals, Head(path)) /\ i \in DOMAIN locals
  /\ Inside(locals[i].type, t, F)
  /\ Abstract!PartOf(locals[i].type, path) = [type |-> t, from |-> F]
  /\ Resolve(path) = Local(locals[i].index + F - 1, t)
(* Or of the global i, where a longer path is resolved to the name of a    *)
(* member.                                                                 *)
OfGlobal(path, i, t, F) ==
  /\ IsGlobal(locals, globals, Head(path))
  /\ i = First(globals, Head(path)) /\ i \in DOMAIN globals
  /\ Inside(globals[i].type, t, F)
  /\ Abstract!PartOf(globals[i].type, path) = [type |-> t, from |-> F]
  /\ \/ Len(path) = 1 /\ F = 1 /\ t = globals[i].type /\ Resolve(path) = Global(globals[i].name, t)
     \/ Len(path) > 1 /\ \E m \in FieldNames : Resolve(path) = Global(m, t)

(* One of the two, for every path that has a type.                         *)
LEMMA ResolvedPath ==
  ASSUME TypeOK, MembersOfOneSlot, NEW path \in Paths, NEW t,
         t = PathType(locals, globals, path), t # Void
  PROVE  /\ t \in Types
         /\ \E i, F \in Nat : OfLocal(path, i, t, F) \/ OfGlobal(path, i, t, F)
<1> DEFINE x == Head(path)
           root == RootType(locals, globals, x)
           n == Len(path)
<1>1. x = path[1] /\ n \in Nat /\ n >= 1 /\ 1 \in 1..n /\ n \in 1..n
  BY PathFacts
<1>2. DOMAIN locals \subseteq Nat /\ DOMAIN globals \subseteq Nat
  BY StateFacts, GlobalFacts
<1>3. /\ Named(locals, x) # {} =>
           /\ First(locals, x) \in DOMAIN locals /\ locals[First(locals, x)].name = x
           /\ root = locals[First(locals, x)].type
      /\ IsGlobal(locals, globals, x) =>
           /\ First(globals, x) \in DOMAIN globals /\ globals[First(globals, x)].name = x
           /\ root = globals[First(globals, x)].type
  BY <1>2, FirstFacts DEF RootType, IsGlobal
<1>4. ~(Named(locals, x) # {}) /\ ~IsGlobal(locals, globals, x) => root = Void
  BY DEF RootType
<1>5. root \in Types
  BY <1>3, <1>4, StateFacts, GlobalFacts DEF Types
<1>6. t = TypeBehind[root][Tail(path)]
  BY DEF PathType
<1> HIDE DEF root, n
<1>7. PICK T, F : Along(root, path, T, F) /\ T[n] = t
  BY <1>5, <1>6, PathSteps DEF n
<1>8. /\ T \in [1..n -> Types] /\ F \in [1..n -> Nat] /\ T[1] = root /\ F[1] = 1
      /\ \A k \in 1..n : k # 1 => T[k] = Members[T[k - 1]][MemberIndex(T[k - 1], path[k])].type
                                  /\ T[k - 1] \in Classes /\ path[k] \in FieldNames
                                  /\ MemberIndex(T[k - 1], path[k]) \in DOMAIN Members[T[k - 1]]
  BY <1>7 DEF Along, n
<1>9. ASSUME NEW k \in 1..n PROVE T[k] # Void
  <2>1. CASE k = n
    BY <1>7, <2>1
  <2>2. CASE k # n
    <3>1. k + 1 \in 1..n /\ k + 1 # 1 /\ (k + 1) - 1 = k
      BY <1>1, <2>2
    <3>2. T[k] \in Classes
      BY <1>8, <3>1
    <3> QED BY <3>2, LayoutAssumption
  <2> QED BY <2>1, <2>2
<1>10. root # Void /\ t \in Types /\ F[n] \in Nat
  BY <1>1, <1>7, <1>8, <1>9
<1>11. Inside(root, t, F[n])
  <2>1. Inside(root, T[Len(path)], F[Len(path)])
    BY <1>5, <1>7, PathInside
  <2> QED BY <1>7, <2>1 DEF n
<1>12. Abstract!PartOf(root, path) = [type |-> t, from |-> F[n]]
  <2>1. \A k \in 1..Len(path) : T[k] # Void
    BY <1>9 DEF n
  <2>2. Abstract!PartOf(root, path) = [type |-> T[Len(path)], from |-> F[Len(path)]]
    BY <1>5, <1>7, <2>1, PartOfPath
  <2> QED BY <1>7, <2>2 DEF n
<1>13. CASE Named(locals, x) # {}
  <2> DEFINE i == First(locals, x)
             base == Local(locals[i].index, root)
  <2>1. i \in DOMAIN locals /\ root = locals[i].type /\ locals[i].index \in Nat /\ i \in Nat
    BY <1>2, <1>3, <1>13, StateFacts
  <2>2. base = ResolveIdentifier(path[1])
    BY <1>1, <1>13, <2>1 DEF ResolveIdentifier
  <2>3. Resolve(path) = PlaceOfPath(path, base, T, F)
    <3> DEFINE at == locals[i].index
    <3>1. at \in Nat /\ base = Local(at, root)
      BY <2>1
    <3> HIDE DEF base, at
    <3> QED BY <1>5, <1>7, <2>2, <3>1, ResolvePath
  <2>4. PlaceOfPath(path, base, T, F) = Local(locals[i].index + F[n] - 1, t)
    BY <1>7 DEF PlaceOfPath, Local, n
  <2>5. OfLocal(path, i, t, F[n])
    BY <1>11, <1>12, <1>13, <2>1, <2>3, <2>4 DEF OfLocal
  <2> QED BY <1>10, <2>1, <2>5
<1>14. CASE IsGlobal(locals, globals, x)
  <2> DEFINE i == First(globals, x)
             base == Global(x, root)
  <2>1. i \in DOMAIN globals /\ root = globals[i].type /\ globals[i].name = x /\ i \in Nat
    BY <1>2, <1>3, <1>14
  <2>2. base = ResolveIdentifier(path[1])
    BY <1>1, <1>14, <2>1 DEF ResolveIdentifier, IsGlobal
  <2>3. Resolve(path) = PlaceOfPath(path, base, T, F)
    <3>1. base = Global(path[1], root)
      BY <1>1
    <3> HIDE DEF base
    <3> QED BY <1>5, <1>7, <2>2, <3>1, ResolvePath
  <2>4. PlaceOfPath(path, base, T, F) = Global(path[n], t)
    BY <1>7 DEF PlaceOfPath, Global, n
  <2>5. CASE n = 1
    <3>1. OfGlobal(path, i, t, F[n])
      BY <1>1, <1>7, <1>8, <1>11, <1>12, <1>14, <2>1, <2>3, <2>4, <2>5 DEF OfGlobal, n
    <3> QED BY <1>10, <2>1, <3>1
  <2>6. CASE n > 1
    <3>1. path[n] \in FieldNames
      BY <1>1, <1>8, <2>6
    <3>2. OfGlobal(path, i, t, F[n])
      BY <1>11, <1>12, <1>14, <2>1, <2>3, <2>4, <2>6, <3>1 DEF OfGlobal, n
    <3> QED BY <1>10, <2>1, <3>2
  <2> QED BY <1>1, <2>5, <2>6
<1> QED BY <1>4, <1>10, <1>13, <1>14

-----------------------------------------------------------------------------
(* The variables with their values look as those without.                  *)

SameShape(vs, ws) ==
  /\ DOMAIN vs = DOMAIN ws
  /\ \A i \in DOMAIN vs : vs[i].name = ws[i].name /\ vs[i].type = ws[i].type
SameVariables(ls, gs, vs, ws) ==
  /\ SameShape(ls, vs) /\ SameShape(gs, ws)
  /\ DOMAIN ls \subseteq Nat /\ DOMAIN gs \subseteq Nat

(* Lookup sees names only.                                                 *)
LEMMA SameNamed ==
  ASSUME NEW vs, NEW ws, SameShape(vs, ws), NEW x
  PROVE  Named(vs, x) = Named(ws, x) /\ First(vs, x) = First(ws, x)
<1>1. Named(vs, x) = Named(ws, x)
  BY DEF SameShape, Named
<1> QED BY <1>1 DEF First

(* Types see the variables only by name and type.                          *)
LEMMA SameTypes ==
  ASSUME NEW ls, NEW gs, NEW vs, NEW ws, SameVariables(ls, gs, vs, ws)
  PROVE  /\ \A x : Abstract!IsGlobal(ls, gs, x) <=> IsGlobal(vs, ws, x)
         /\ \A path : Abstract!PathType(ls, gs, path) = PathType(vs, ws, path)
         /\ \A source : Abstract!SourceType(ls, gs, source) = SourceType(vs, ws, source)
         /\ \A f, s : Abstract!WellTyped(f, ls, gs, s) <=> WellTyped(f, vs, ws, s)
<1>1. \A x : /\ Named(ls, x) = Named(vs, x) /\ First(ls, x) = First(vs, x)
             /\ Named(gs, x) = Named(ws, x) /\ First(gs, x) = First(ws, x)
  BY SameNamed DEF SameVariables
<1>2. \A x : /\ Abstract!Named(ls, x) = Named(vs, x) /\ Abstract!First(ls, x) = First(vs, x)
             /\ Abstract!Named(gs, x) = Named(ws, x) /\ Abstract!First(gs, x) = First(ws, x)
  BY <1>1, SameNames
<1>3. \A x : Abstract!IsGlobal(ls, gs, x) <=> IsGlobal(vs, ws, x)
  BY <1>2 DEF IsGlobal, Abstract!IsGlobal
<1>4. \A x : Abstract!RootType(ls, gs, x) = RootType(vs, ws, x)
  <2> TAKE x
  <2>1. CASE Named(vs, x) # {}
    <3>1. First(vs, x) \in DOMAIN vs
      BY <2>1, FirstFacts DEF SameVariables, SameShape
    <3>2. ls[First(vs, x)].type = vs[First(vs, x)].type
      BY <3>1 DEF SameVariables, SameShape
    <3>3. Abstract!RootType(ls, gs, x) = ls[First(vs, x)].type
      BY <1>2, <1>3, <2>1 DEF Abstract!RootType, IsGlobal
    <3> QED BY <2>1, <3>2, <3>3 DEF RootType, IsGlobal
  <2>2. CASE IsGlobal(vs, ws, x)
    <3>1. First(ws, x) \in DOMAIN ws
      BY <2>2, FirstFacts DEF SameVariables, SameShape, IsGlobal
    <3>2. gs[First(ws, x)].type = ws[First(ws, x)].type
      BY <3>1 DEF SameVariables, SameShape
    <3>3. Named(vs, x) = {}
      BY <2>2 DEF IsGlobal
    <3>4. Abstract!RootType(ls, gs, x) = gs[First(ws, x)].type
      BY <1>2, <1>3, <2>2, <3>3 DEF Abstract!RootType
    <3>5. RootType(vs, ws, x) = ws[First(ws, x)].type
      BY <2>2, <3>3 DEF RootType
    <3> QED BY <3>2, <3>4, <3>5
  <2>3. CASE ~(Named(vs, x) # {}) /\ ~IsGlobal(vs, ws, x)
    BY <1>2, <1>3, <2>3 DEF RootType, Abstract!RootType, Void, Abstract!Void
  <2> QED BY <2>1, <2>2, <2>3
<1>5. \A path : Abstract!PathType(ls, gs, path) = PathType(vs, ws, path)
  BY <1>4, SameTypeBehind DEF PathType, Abstract!PathType
<1>6. \A source : Abstract!SourceType(ls, gs, source) = SourceType(vs, ws, source)
  BY <1>5 DEF SourceType, Abstract!SourceType
<1>7. \A f, s : Abstract!WellTyped(f, ls, gs, s) <=> WellTyped(f, vs, ws, s)
  <2> TAKE f, s
  <2>1. Abstract!SourceType(ls, gs, s.from) = SourceType(vs, ws, s.from)
    BY <1>6
  <2>2. Abstract!PathType(ls, gs, s.to) = PathType(vs, ws, s.to)
    BY <1>5
  <2>3. Abstract!Named(gs, s.name) = Named(ws, s.name)
    BY <1>2
  <2> QED BY <2>1, <2>2, <2>3
          DEF WellTyped, Abstract!WellTyped, Types, Abstract!Types, Void, Abstract!Void
<1> QED BY <1>3, <1>5, <1>6, <1>7

(* The variables with the values they have now are such.                   *)
LEMMA NowFacts ==
  ASSUME TypeOK
  PROVE  /\ SameVariables(localsNow, globalsNow, locals, globals)
         /\ \A i \in DOMAIN locals :
              localsNow[i] = [name |-> locals[i].name, type |-> locals[i].type,
                              value |-> Contents(Local(locals[i].index, locals[i].type))]
         /\ \A i \in DOMAIN globals :
              globalsNow[i] = [name |-> globals[i].name, type |-> globals[i].type,
                               value |-> Contents(Global(globals[i].name, globals[i].type))]
<1>1. DOMAIN locals \subseteq Nat /\ DOMAIN globals \subseteq Nat
  BY StateFacts, GlobalFacts
<1>2. DOMAIN localsNow = DOMAIN locals /\ DOMAIN globalsNow = DOMAIN globals
  BY DEF localsNow, globalsNow
<1>3. \A i \in DOMAIN locals :
        localsNow[i] = [name |-> locals[i].name, type |-> locals[i].type,
                        value |-> Contents(Local(locals[i].index, locals[i].type))]
  BY DEF localsNow
<1>4. \A i \in DOMAIN globals :
        globalsNow[i] = [name |-> globals[i].name, type |-> globals[i].type,
                         value |-> Contents(Global(globals[i].name, globals[i].type))]
  BY DEF globalsNow
<1>5. SameShape(localsNow, locals) /\ SameShape(globalsNow, globals)
  BY <1>2, <1>3, <1>4 DEF SameShape
<1> QED BY <1>1, <1>2, <1>3, <1>4, <1>5 DEF SameVariables

-----------------------------------------------------------------------------
(* The part of a value that a path comes to.                               *)

(* Get takes the slots from F on.                                          *)
LEMMA GetPart ==
  ASSUME NEW v, NEW path, NEW t \in Types, NEW F \in Nat, v.type \in Types,
         DOMAIN v.value = DOMAIN Slots[v.type], v.value = [k \in DOMAIN v.value |-> v.value[k]],
         Abstract!PartOf(v.type, path) = [type |-> t, from |-> F], Inside(v.type, t, F)
  PROVE  Abstract!Get(v, path) = [k \in DOMAIN Slots[t] |-> v.value[F - 1 + k]]
<1> DEFINE n == Len(Slots[t])
           w == v.value
           m == Len(Slots[v.type])
<1>1. n \in Nat /\ m \in Nat /\ DOMAIN Slots[t] = 1..n /\ DOMAIN w = 1..m
  BY SlotsType
<1>2. F >= 1 /\ F - 1 + n <= m
  BY DEF Inside
<1>3. Abstract!Get(v, path) = SubSeq(w, F, F + n - 1)
  <2> DEFINE part == Abstract!PartOf(v.type, path)
  <2>1. part.type = t /\ part.from = F
    OBVIOUS
  <2>2. Abstract!Get(v, path) = SubSeq(v.value, part.from, part.from + Len(Slots[part.type]) - 1)
    BY DEF Abstract!Get
  <2> HIDE DEF part
  <2> QED BY <2>1, <2>2
<1> HIDE DEF n, w, m
<1>4. w \in Seq({w[k] : k \in 1..m}) /\ Len(w) = m
  BY <1>1 DEF w
<1>5. SubSeq(w, F, F + n - 1) = [k \in 1..n |-> w[F - 1 + k]]
  <2>1. F + n - 1 - F + 1 = n /\ F + n - 1 \in Int /\ F + n - 1 <= m
    BY <1>1, <1>2
  <2> DEFINE S == {w[k] : k \in 1..m}
             sub == SubSeq(w, F, F + n - 1)
  <2>2. CASE n = 0
    <3>1. sub = <<>> /\ [k \in 1..n |-> w[F - 1 + k]] = <<>>
      BY <1>1, <1>2, <1>4, <2>2
    <3> QED BY <3>1
  <2>3. CASE n > 0
    <3>1. F \in 1..(m + 1) /\ F + n - 1 \in F-1..m
      BY <1>1, <1>2, <2>1, <2>3
    <3> HIDE DEF S
    <3>2. w \in Seq(S)
      BY <1>4 DEF S
    <3>3. sub \in Seq(S) /\ Len(sub) = n /\ \A k \in 1..n : sub[k] = w[F - 1 + k]
      <4>1. \A k \in 1..n : F + k - 1 = F - 1 + k
        BY <1>1
      <4>2. \A k \in F..(F + n - 1) : w[k] \in S
        BY <1>1, <1>2 DEF S
      <4>3. F \in Int /\ F + n - 1 \in Int /\ F <= F + n - 1 /\ F + n - 1 - F + 1 = n
        BY <1>1, <1>2, <2>3
      <4>4. PICK q \in Int : q = F + n - 1
        BY <4>3
      <4>5. /\ SubSeq(w, F, q) \in Seq(S) /\ Len(SubSeq(w, F, q)) = q - F + 1
            /\ \A k \in 1..(q - F + 1) : SubSeq(w, F, q)[k] = w[F + k - 1]
        <5>1. \A k \in F..q : w[k] \in S
          BY <4>2, <4>4
        <5>2. F \in Int /\ F <= q
          BY <4>3, <4>4
        <5> HIDE DEF sub
        <5> QED BY <5>1, <5>2, SubSeqProperties
      <4>6. sub = SubSeq(w, F, q)
        BY <4>4
      <4> HIDE DEF sub
      <4>7. q - F + 1 = n
        BY <1>1, <4>4
      <4> QED BY <4>1, <4>5, <4>6, <4>7
    <3> HIDE DEF sub
    <3>4. sub = [k \in 1..n |-> sub[k]]
      BY <3>3
    <3> QED BY <3>3, <3>4 DEF sub
  <2> QED BY <1>1, <2>2, <2>3
<1> QED BY <1>1, <1>3, <1>5 DEF w

-----------------------------------------------------------------------------
(* Where the slots of the variants are.                                    *)

(* A local has its slots one after the other.                              *)
LEMMA LocalSlot ==
  ASSUME NEW a, NEW t, NEW L, NEW k
  PROVE  Place(Local(a, t), L, k) = <<"local", a + k - 1>> /\ Local(a, t).type = t
BY DEF Place, Local, LocalPlace

(* A global has a wasm global per slot, named by number if there are       *)
(* several.                                                                *)
LEMMA GlobalSlot ==
  ASSUME NEW x, NEW t, NEW L, NEW k
  PROVE  /\ Global(x, t).type = t
         /\ Place(Global(x, t), L, k) = IF Len(L) = 1 THEN <<"global", x>> ELSE <<"global", x, k - 1>>
BY DEF Place, Global, GlobalPlace

(* An object in memory has them behind those before.                       *)
LEMMA MemorySlot ==
  ASSUME NEW p \in Nat, NEW t \in Types, NEW k \in DOMAIN Slots[t]
  PROVE  /\ MemoryData(p, t).type = t
         /\ Place(MemoryData(p, t), Slots[t], k) = <<"memory", p + SizeBefore(Slots[t], k), Slots[t][k]>>
         /\ Place(MemoryData(p, t), Slots[t], k) \in MemoryPlaces
<1>1. Place(MemoryData(p, t), Slots[t], k) = <<"memory", p + SizeBefore(Slots[t], k), Slots[t][k]>>
  BY DEF Place, MemoryData, MemoryPlace, SizeBefore
<1>2. SizeBefore(Slots[t], k) \in Nat /\ Slots[t][k] \in Basis
  BY SlotsType, MemoryOffsets, BytesType
<1>3. p + SizeBefore(Slots[t], k) \in Nat
  BY <1>2
<1>4. MemoryData(p, t).type = t
  BY DEF MemoryData
<1> QED BY <1>1, <1>2, <1>3, <1>4 DEF MemoryPlaces

(* A constructor has the default of each.                                  *)
LEMMA DefaultSlot ==
  ASSUME NEW t \in Types, NEW k \in DOMAIN Slots[t]
  PROVE  Place(Defaults(t), Slots[t], k) = <<"default", Slots[t][k]>> /\ Defaults(t).type = t
<1> DEFINE at == [j \in DOMAIN Slots[t] |-> <<"default", Slots[t][j]>>]
           n == Len(Slots[t])
<1>1. n \in Nat /\ DOMAIN Slots[t] = 1..n /\ k \in 1..n
  BY SlotsType
<1>2. at = [j \in 1..n |-> at[j]]
  BY <1>1
<1>3. at[k] = <<"default", Slots[t][k]>>
  OBVIOUS
<1>4. Place(Defaults(t), Slots[t], k) = at[Len(at) - n + k] /\ Defaults(t).type = t
  BY DEF Place, Defaults, StackData, StackPlace
<1> HIDE DEF at, n
<1>5. Len(at) = n
  BY <1>1, <1>2
<1>6. Len(at) - n + k = k
  BY <1>1, <1>5
<1> QED BY <1>3, <1>4, <1>6

(* A literal is a value of one slot.                                       *)
LEMMA LiteralSlot ==
  ASSUME NEW b \in Basis
  PROVE  LET v == StackData(<< <<"literal", b>> >>, b) IN
         v.type = b /\ b \in Types /\ Slots[b] = <<b>> /\ Place(v, Slots[b], 1) = <<"literal", b>>
<1> DEFINE v == StackData(<< <<"literal", b>> >>, b)
<1>1. b \in Types /\ Slots[b] = <<b>>
  BY LayoutAssumption DEF Types
<1>2. v.type = b /\ v.in = "stack" /\ v.at = << <<"literal", b>> >>
  BY DEF StackData
<1>3. Place(v, <<b>>, 1) = << <<"literal", b>> >>[1 - 1 + 1]
  BY <1>2 DEF Place, StackPlace
<1> HIDE DEF v
<1> QED BY <1>1, <1>2, <1>3 DEF v

(* So is a result that is not an object.                                   *)
LEMMA ResultSlot ==
  ASSUME Len(Slots[function.returns]) = 1, function.returns \in Types
  PROVE  /\ Result.type = function.returns
         /\ DOMAIN Slots[function.returns] = {1}
         /\ Place(Result, Slots[function.returns], 1) = <<"result">>
<1>1. Slots[function.returns] \in Seq(Basis)
  BY SlotsType
<1>2. DOMAIN Slots[function.returns] = {1}
  BY <1>1
<1>3. Result.type = function.returns /\ Result.at = << <<"result">> >> /\ Result.in = "stack"
  BY DEF Result, StackData
<1>4. Place(Result, Slots[function.returns], 1) = << <<"result">> >>[1 - 1 + 1]
  BY <1>3 DEF Place, StackPlace
<1> QED BY <1>2, <1>3, <1>4

-----------------------------------------------------------------------------
(* No two slots of a variant are at the same place.                        *)

Separate(v) ==
  LET L == Slots[v.type] IN \A j, k \in DOMAIN L : j # k => Apart(Place(v, L, j), Place(v, L, k))

(* Two wasm locals of a local are different.                               *)
LEMMA SeparateLocal ==
  ASSUME NEW a \in Nat, NEW t \in Types
  PROVE  Separate(Local(a, t))
<1> SUFFICES ASSUME NEW j \in DOMAIN Slots[t], NEW k \in DOMAIN Slots[t], j # k
             PROVE  Apart(<<"local", a + j - 1>>, <<"local", a + k - 1>>)
  BY LocalSlot DEF Separate
<1>1. j \in Nat /\ k \in Nat
  BY SlotsType
<1>2. a + j - 1 # a + k - 1
  BY <1>1
<1> QED BY <1>2 DEF Apart

(* Two wasm globals of a global are different.                             *)
LEMMA SeparateGlobal ==
  ASSUME NEW x, NEW t \in Types
  PROVE  Separate(Global(x, t))
<1> DEFINE L == Slots[t]
           p(i) == IF Len(L) = 1 THEN <<"global", x>> ELSE <<"global", x, i - 1>>
<1> SUFFICES ASSUME NEW j \in DOMAIN L, NEW k \in DOMAIN L, j # k
             PROVE  Apart(p(j), p(k))
  BY GlobalSlot DEF Separate
<1>1. j \in Nat /\ k \in Nat /\ Len(L) # 1
  BY SlotsType
<1>2. j - 1 # k - 1
  BY <1>1
<1>3. <<"global", x, j - 1>> # <<"global", x, k - 1>>
  BY <1>2
<1> QED BY <1>1, <1>3 DEF Apart

(* Two slots in memory do not overlap.                                     *)
LEMMA SeparateMemory ==
  ASSUME NEW p \in Nat, NEW t \in Types
  PROVE  Separate(MemoryData(p, t))
<1> DEFINE L == Slots[t]
           at(i) == <<"memory", p + SizeBefore(L, i), L[i]>>
<1> SUFFICES ASSUME NEW j \in DOMAIN L, NEW k \in DOMAIN L, j # k
             PROVE  Apart(at(j), at(k))
  <2>1. MemoryData(p, t).type = t
    BY DEF MemoryData
  <2>2. \A k \in DOMAIN L : Place(MemoryData(p, t), L, k) = at(k)
    BY MemorySlot
  <2> HIDE DEF L, at
  <2> QED BY <2>1, <2>2 DEF Separate, L
<1>1. L \in Seq(Basis) /\ DOMAIN L \subseteq Nat
  BY SlotsType
<1>2. /\ SizeBefore(L, j) \in Nat /\ SizeBefore(L, k) \in Nat
      /\ Bytes[L[j]] \in Nat /\ Bytes[L[j]] >= 1 /\ Bytes[L[k]] \in Nat /\ Bytes[L[k]] >= 1
  BY <1>1, MemoryOffsets, BytesType
<1>3. \/ SizeBefore(L, j) + Bytes[L[j]] <= SizeBefore(L, k)
      \/ SizeBefore(L, k) + Bytes[L[k]] <= SizeBefore(L, j)
  <2>1. j < k \/ k < j
    BY <1>1
  <2> QED BY <1>1, <2>1, MemoryOffsets
<1>4. \/ (p + SizeBefore(L, j)) + Bytes[L[j]] <= p + SizeBefore(L, k)
      \/ (p + SizeBefore(L, k)) + Bytes[L[k]] <= p + SizeBefore(L, j)
  BY <1>2, <1>3
<1>5. p + SizeBefore(L, j) # p + SizeBefore(L, k)
  BY <1>2, <1>3
<1> HIDE DEF L
<1>6. at(j) # at(k)
  BY <1>5
<1> QED BY <1>4, <1>6 DEF Apart

-----------------------------------------------------------------------------
(* What the variables hold, read slot by slot.                             *)

Settles == TypeOK /\ StoreHolds /\ Shape /\ LocalsDisjoint /\ status = "running"

(* Every slot of a local is a wasm local.                                  *)
LEMMA LocalInStore ==
  ASSUME Settles, NEW i \in DOMAIN locals, NEW k \in DOMAIN Slots[locals[i].type]
  PROVE  /\ InStore(<<"local", locals[i].index + k - 1>>)
         /\ << <<"local", locals[i].index + k - 1>>, Slots[locals[i].type][k]>> \in declared(locals, globals)
         /\ locals[i].index + k - 1 \in Nat
<1>1. locals \in Seq(LocalVariable) /\ Packed(locals, localIndex)
  BY StateFacts DEF Settles, Shape
<1> DEFINE n == locals[i].index + k - 1
           b == Slots[locals[i].type][k]
<1>2. n \in Nat /\ << <<"local", n>>, b>> \in declared(locals, globals)
  BY <1>1, DeclaredSlots
<1> HIDE DEF n, b
<1>3. << <<"local", n>>, b>>[1] \in DOMAIN store
  BY <1>2 DEF Settles, StoreHolds, Holds
<1> QED BY <1>2, <1>3 DEF InStore, n, b

(* Every slot of a global is a wasm global.                                *)
LEMMA GlobalInStore ==
  ASSUME Settles, NEW i \in DOMAIN globals, NEW k \in DOMAIN Slots[globals[i].type]
  PROVE  LET L == Slots[globals[i].type]
             p == Place(Global(globals[i].name, globals[i].type), L, k)
         IN  InStore(p) /\ <<p, L[k]>> \in declared(locals, globals) /\ p[1] = "global"
<1> DEFINE L == Slots[globals[i].type]
           v == Global(globals[i].name, globals[i].type)
           p == Place(v, L, k)
<1>1. v.type = globals[i].type
  BY GlobalSlot
<1>2. p = IF Len(L) = 1 THEN <<"global", globals[i].name>> ELSE <<"global", globals[i].name, k - 1>>
  BY GlobalSlot
<1>3. p[1] = "global"
  BY <1>2
<1> HIDE DEF p
<1>4. <<p, L[k]>> \in slots(v)
  BY <1>1 DEF slots, p
<1>5. <<p, L[k]>> \in declared(locals, globals)
  BY <1>4 DEF declared
<1>6. <<p, L[k]>>[1] \in DOMAIN store
  BY <1>5 DEF Settles, StoreHolds, Holds
<1> QED BY <1>3, <1>5, <1>6 DEF InStore, p

(* What a local holds.                                                     *)
LEMMA LocalContents ==
  ASSUME Settles, NEW i \in DOMAIN locals
  PROVE  /\ localsNow[i].type = locals[i].type /\ localsNow[i].name = locals[i].name
         /\ localsNow[i].value =
              [k \in DOMAIN Slots[locals[i].type] |-> Read(<<"local", locals[i].index + k - 1>>)]
<1> DEFINE v == Local(locals[i].index, locals[i].type)
<1>1. localsNow[i] = [name |-> locals[i].name, type |-> locals[i].type, value |-> Contents(v)]
  BY NowFacts DEF Settles
<1>2. v.type = locals[i].type /\ \A L, k : Place(v, L, k) = <<"local", locals[i].index + k - 1>>
  BY LocalSlot
<1> HIDE DEF v
<1>3. Contents(v) = [k \in DOMAIN Slots[locals[i].type] |-> Read(<<"local", locals[i].index + k - 1>>)]
  BY <1>2 DEF Contents
<1> QED BY <1>1, <1>3

(* What a global holds.                                                    *)
LEMMA GlobalContents ==
  ASSUME Settles, NEW i \in DOMAIN globals
  PROVE  LET L == Slots[globals[i].type]
             v == Global(globals[i].name, globals[i].type)
         IN  /\ globalsNow[i].type = globals[i].type /\ globalsNow[i].name = globals[i].name
             /\ globalsNow[i].value = [k \in DOMAIN L |-> Read(Place(v, L, k))]
<1> DEFINE v == Global(globals[i].name, globals[i].type)
<1>1. globalsNow[i] = [name |-> globals[i].name, type |-> globals[i].type, value |-> Contents(v)]
  BY NowFacts DEF Settles
<1>2. v.type = globals[i].type
  BY GlobalSlot
<1> HIDE DEF v
<1>3. Contents(v) = [k \in DOMAIN Slots[globals[i].type] |-> Read(Place(v, Slots[globals[i].type], k))]
  BY <1>2 DEF Contents
<1> QED BY <1>1, <1>3 DEF v

(* A path into a local is resolved to the wasm locals Variables means.     *)
LEMMA LocalPath ==
  ASSUME Settles, NEW path, NEW i, NEW t \in Types, NEW F \in Nat, OfLocal(path, i, t, F)
  PROVE  /\ Resolve(path).type = t
         /\ \A k \in DOMAIN Slots[t] :
              LET p == Place(Resolve(path), Slots[t], k) IN
              /\ p = <<"local", locals[i].index + (F - 1 + k) - 1>>
              /\ F - 1 + k \in DOMAIN Slots[locals[i].type]
              /\ InStore(p) /\ <<p, Slots[t][k]>> \in declared(locals, globals)
         /\ Abstract!Get(localsNow[i], path)
              = [k \in DOMAIN Slots[t] |-> Read(Place(Resolve(path), Slots[t], k))]
<1> DEFINE T == locals[i].type
           a == locals[i].index
           v == localsNow[i]
<1>1. /\ i \in DOMAIN locals /\ Inside(T, t, F) /\ Abstract!PartOf(T, path) = [type |-> t, from |-> F]
      /\ Resolve(path) = Local(a + F - 1, t)
  BY DEF OfLocal
<1>2. T \in Types /\ a \in Nat
  BY <1>1, StateFacts DEF Settles
<1>3. v.type = T /\ v.value = [k \in DOMAIN Slots[T] |-> Read(<<"local", a + k - 1>>)]
  BY <1>1, LocalContents
<1>4. Abstract!Get(v, path) = [k \in DOMAIN Slots[t] |-> v.value[F - 1 + k]]
  <2>1. DOMAIN v.value = DOMAIN Slots[v.type] /\ v.value = [k \in DOMAIN v.value |-> v.value[k]]
    BY <1>3
  <2>2. /\ v.type \in Types /\ Inside(v.type, t, F)
        /\ Abstract!PartOf(v.type, path) = [type |-> t, from |-> F]
    BY <1>1, <1>2, <1>3
  <2> HIDE DEF v, T
  <2> QED BY <2>1, <2>2, GetPart
<1>5. ASSUME NEW k \in DOMAIN Slots[t]
      PROVE  /\ Place(Resolve(path), Slots[t], k) = <<"local", a + (F - 1 + k) - 1>>
             /\ F - 1 + k \in DOMAIN Slots[T] /\ Slots[T][F - 1 + k] = Slots[t][k]
  <2>1. k \in Nat /\ k >= 1 /\ k <= Len(Slots[t]) /\ DOMAIN Slots[T] = 1..Len(Slots[T])
        /\ Len(Slots[t]) \in Nat /\ Len(Slots[T]) \in Nat /\ DOMAIN Slots[t] = 1..Len(Slots[t])
    BY <1>2, SlotsType
  <2>2. F >= 1 /\ F - 1 + Len(Slots[t]) <= Len(Slots[T])
        /\ \A j \in 1..Len(Slots[t]) : Slots[T][F - 1 + j] = Slots[t][j]
    BY <1>1 DEF Inside
  <2>3. Place(Resolve(path), Slots[t], k) = <<"local", (a + F - 1) + k - 1>>
    BY <1>1, LocalSlot
  <2>4. (a + F - 1) + k - 1 = a + (F - 1 + k) - 1
    BY <1>2, <2>1
  <2> HIDE DEF a
  <2>5. Place(Resolve(path), Slots[t], k) = <<"local", a + (F - 1 + k) - 1>>
    BY <2>3, <2>4
  <2>6. F - 1 + k \in 1..Len(Slots[T])
    BY <2>1, <2>2
  <2> QED BY <2>1, <2>2, <2>5, <2>6
<1>6. ASSUME NEW k \in DOMAIN Slots[t]
      PROVE  LET p == Place(Resolve(path), Slots[t], k) IN
             InStore(p) /\ <<p, Slots[t][k]>> \in declared(locals, globals)
  <2> DEFINE n == F - 1 + k
  <2>1. n \in DOMAIN Slots[T] /\ Slots[T][n] = Slots[t][k]
        /\ Place(Resolve(path), Slots[t], k) = <<"local", a + n - 1>>
    BY <1>5
  <2> HIDE DEF n
  <2>2. /\ InStore(<<"local", a + n - 1>>)
        /\ << <<"local", a + n - 1>>, Slots[T][n]>> \in declared(locals, globals)
    BY <1>1, <2>1, LocalInStore
  <2> QED BY <2>1, <2>2
<1>7. \A k \in DOMAIN Slots[t] : v.value[F - 1 + k] = Read(Place(Resolve(path), Slots[t], k))
  <2> SUFFICES ASSUME NEW k \in DOMAIN Slots[t]
               PROVE  v.value[F - 1 + k] = Read(Place(Resolve(path), Slots[t], k))
    OBVIOUS
  <2> DEFINE n == F - 1 + k
  <2>1. n \in DOMAIN Slots[T] /\ Place(Resolve(path), Slots[t], k) = <<"local", a + n - 1>>
    BY <1>5
  <2> HIDE DEF n
  <2>2. v.value[n] = Read(<<"local", a + n - 1>>)
    BY <1>3, <2>1
  <2> QED BY <2>1, <2>2 DEF n
<1>8. Resolve(path).type = t
  BY <1>1, LocalSlot
<1> QED BY <1>4, <1>5, <1>6, <1>7, <1>8

(* A global, or nothing behind a member of one, is read from its own wasm  *)
(* globals.                                                                *)
LEMMA GlobalPath ==
  ASSUME Settles, NEW path, NEW i, NEW t \in Types, NEW F \in Nat, OfGlobal(path, i, t, F),
         Len(path) = 1 \/ Slots[t] = <<>>
  PROVE  /\ Resolve(path).type = t
         /\ Len(path) = 1 => t = globals[i].type /\ F = 1 /\ Resolve(path) = Global(globals[i].name, t)
         /\ \A k \in DOMAIN Slots[t] :
              LET p == Place(Resolve(path), Slots[t], k) IN
              InStore(p) /\ <<p, Slots[t][k]>> \in declared(locals, globals) /\ p[1] = "global"
         /\ Abstract!Get(globalsNow[i], path)
              = [k \in DOMAIN Slots[t] |-> Read(Place(Resolve(path), Slots[t], k))]
<1> DEFINE T == globals[i].type
           v == globalsNow[i]
           u == Global(globals[i].name, T)
<1>1. /\ i \in DOMAIN globals /\ Inside(T, t, F) /\ Abstract!PartOf(T, path) = [type |-> t, from |-> F]
      /\ \/ Len(path) = 1 /\ F = 1 /\ t = T /\ Resolve(path) = Global(globals[i].name, t)
         \/ Len(path) > 1 /\ \E m \in FieldNames : Resolve(path) = Global(m, t)
  BY DEF OfGlobal
<1>2. T \in Types
  BY <1>1, GlobalFacts DEF Settles
<1>3. v.type = T /\ v.value = [k \in DOMAIN Slots[T] |-> Read(Place(u, Slots[T], k))]
  BY <1>1, GlobalContents
<1>4. Abstract!Get(v, path) = [k \in DOMAIN Slots[t] |-> v.value[F - 1 + k]]
  <2>1. DOMAIN v.value = DOMAIN Slots[v.type] /\ v.value = [k \in DOMAIN v.value |-> v.value[k]]
    BY <1>3
  <2>2. /\ v.type \in Types /\ Inside(v.type, t, F)
        /\ Abstract!PartOf(v.type, path) = [type |-> t, from |-> F]
    BY <1>1, <1>2, <1>3
  <2> HIDE DEF v, T
  <2> QED BY <2>1, <2>2, GetPart
<1>5. Resolve(path).type = t
  BY <1>1, GlobalSlot
<1>6. CASE Slots[t] = <<>>
  <2>1. DOMAIN Slots[t] = {}
    BY <1>6
  <2>2. Len(path) = 1 => t = T /\ F = 1 /\ Resolve(path) = Global(globals[i].name, t)
    BY <1>1
  <2> HIDE DEF v, T
  <2>3. Abstract!Get(v, path) = [k \in DOMAIN Slots[t] |-> Read(Place(Resolve(path), Slots[t], k))]
    BY <1>4, <2>1
  <2> QED BY <1>5, <2>1, <2>2, <2>3 DEF v, T
<1>7. CASE Len(path) = 1
  <2>1. F = 1 /\ t = T /\ Resolve(path) = u
    BY <1>1, <1>7
  <2>2. \A k \in DOMAIN Slots[T] :
          LET p == Place(u, Slots[T], k) IN
          InStore(p) /\ <<p, Slots[T][k]>> \in declared(locals, globals) /\ p[1] = "global"
    BY <1>1, GlobalInStore
  <2>3. \A k \in DOMAIN Slots[t] : v.value[F - 1 + k] = Read(Place(u, Slots[t], k))
    <3>1. \A k \in DOMAIN Slots[T] : 1 - 1 + k = k
      BY <1>2, SlotsType
    <3> QED BY <1>3, <2>1, <3>1
  <2> HIDE DEF v
  <2>4. Abstract!Get(v, path) = [k \in DOMAIN Slots[t] |-> Read(Place(u, Slots[t], k))]
    BY <1>4, <2>3
  <2> HIDE DEF u, T
  <2> QED BY <1>5, <2>1, <2>2, <2>4 DEF v, u, T
<1> QED BY <1>6, <1>7

-----------------------------------------------------------------------------
(* Where a statement takes its value from, and which value that is.        *)

ValueOf(ls, gs, source) ==
  CASE source.of = "path" /\ Named(ls, Head(source.path)) # {} ->
         Abstract!Get(ls[First(ls, Head(source.path))], source.path)
    [] source.of = "path" /\ IsGlobal(ls, gs, Head(source.path)) ->
         Abstract!Get(gs[First(gs, Head(source.path))], source.path)
    [] source.of = "new" ->
         [k \in DOMAIN Slots[source.type] |-> <<"default", Slots[source.type][k]>>]
    [] source.of = "literal" -> << <<"literal", source.type>> >>
ValueNow(source) == ValueOf(localsNow, globalsNow, source)

Behind(path) == Len(path) > 1 /\ IsGlobal(locals, globals, Head(path))
Via(source) == source.of = "new" /\ ViaMemory(source.type)
Typed(path, t) == PathType(locals, globals, path) = t /\ t # Void
Yields(source, t) == SourceType(locals, globals, source) = t /\ t \in Types \ {Void}

(* Lookup among the variables as they are.                                 *)
LEMMA SameNow ==
  ASSUME TypeOK, NEW x
  PROVE  /\ Named(localsNow, x) = Named(locals, x) /\ First(localsNow, x) = First(locals, x)
         /\ Named(globalsNow, x) = Named(globals, x) /\ First(globalsNow, x) = First(globals, x)
BY NowFacts, SameNamed DEF SameVariables

(* What is read from the places of a path is what Variables takes for its  *)
(* value.                                                                  *)
LEMMA PathReads ==
  ASSUME Settles, MembersOfOneSlot, NEW path \in Paths, NEW t, Typed(path, t), Behind(path) => Slots[t] = <<>>
  PROVE  LET v == Resolve(path)
             L == Slots[t]
             w == ValueNow([of |-> "path", path |-> path])
         IN  /\ t \in Types /\ v.type = t /\ w = [k \in DOMAIN L |-> Read(Place(v, L, k))]
             /\ \A k \in DOMAIN L : InStore(Place(v, L, k)) /\ <<Place(v, L, k), L[k]>> \in declared(locals, globals)
             /\ \A k \in DOMAIN L : Place(v, L, k)[1] \in {"local", "global"}
<1> DEFINE v == Resolve(path)
           L == Slots[t]
           x == Head(path)
           source == [of |-> "path", path |-> path]
           w == ValueNow(source)
<1>1. t \in Types
  BY ResolvedPath DEF Settles, Typed
<1>2. PICK i, F \in Nat : OfLocal(path, i, t, F) \/ OfGlobal(path, i, t, F)
  BY ResolvedPath DEF Settles, Typed
<1>3. /\ Named(localsNow, x) = Named(locals, x) /\ First(localsNow, x) = First(locals, x)
      /\ Named(globalsNow, x) = Named(globals, x) /\ First(globalsNow, x) = First(globals, x)
  BY SameNow DEF Settles
<1>4. source.of = "path" /\ source.path = path
  OBVIOUS
<1>5. CASE OfLocal(path, i, t, F)
  <2>1. Named(locals, x) # {} /\ i = First(locals, x)
    BY <1>5 DEF OfLocal
  <2>2. w = Abstract!Get(localsNow[i], path)
    <3>1. ~IsGlobal(localsNow, globalsNow, x)
      BY <1>3, <2>1 DEF IsGlobal
    <3> HIDE DEF x, source
    <3> QED BY <1>3, <1>4, <2>1, <3>1 DEF ValueNow, ValueOf, x
  <2>3. /\ v.type = t
        /\ \A k \in DOMAIN L :
              LET p == Place(v, L, k) IN
              p[1] = "local" /\ InStore(p) /\ <<p, L[k]>> \in declared(locals, globals)
        /\ Abstract!Get(localsNow[i], path) = [k \in DOMAIN L |-> Read(Place(v, L, k))]
    <3>1. F \in Nat
      BY <1>2
    <3> DEFINE u == Resolve(path)
    <3>2. /\ u.type = t
          /\ \A k \in DOMAIN Slots[t] :
                LET p == Place(u, Slots[t], k) IN
                /\ p = <<"local", locals[i].index + (F - 1 + k) - 1>>
                /\ F - 1 + k \in DOMAIN Slots[locals[i].type]
                /\ InStore(p) /\ <<p, Slots[t][k]>> \in declared(locals, globals)
          /\ Abstract!Get(localsNow[i], path) = [k \in DOMAIN Slots[t] |-> Read(Place(u, Slots[t], k))]
      BY <1>1, <1>5, <3>1, LocalPath, ZenonT(60)
    <3> HIDE DEF u
    <3> QED BY <3>2 DEF u
  <2> HIDE DEF v, L, w
  <2> QED BY <1>1, <2>2, <2>3 DEF v, L, w
<1>6. CASE OfGlobal(path, i, t, F)
  <2>1. IsGlobal(locals, globals, x) /\ i = First(globals, x) /\ (Len(path) = 1 \/ Len(path) > 1)
    BY <1>6 DEF OfGlobal
  <2>2. w = Abstract!Get(globalsNow[i], path)
    <3>1. IsGlobal(localsNow, globalsNow, x) /\ Named(localsNow, x) = {}
      BY <1>3, <2>1 DEF IsGlobal
    <3> HIDE DEF x, source
    <3> QED BY <1>3, <1>4, <2>1, <3>1 DEF ValueNow, ValueOf, x
  <2>3. Len(path) = 1 \/ Slots[t] = <<>>
    BY <2>1 DEF Behind
  <2>4. /\ v.type = t
        /\ \A k \in DOMAIN L :
              LET p == Place(v, L, k) IN
              p[1] = "global" /\ InStore(p) /\ <<p, L[k]>> \in declared(locals, globals)
        /\ Abstract!Get(globalsNow[i], path) = [k \in DOMAIN L |-> Read(Place(v, L, k))]
    <3>1. F \in Nat
      BY <1>2
    <3> DEFINE u == Resolve(path)
    <3>2. /\ u.type = t
          /\ \A k \in DOMAIN Slots[t] :
                LET p == Place(u, Slots[t], k) IN
                InStore(p) /\ <<p, Slots[t][k]>> \in declared(locals, globals) /\ p[1] = "global"
          /\ Abstract!Get(globalsNow[i], path) = [k \in DOMAIN Slots[t] |-> Read(Place(u, Slots[t], k))]
      BY <1>1, <1>6, <2>3, <3>1, GlobalPath
    <3> HIDE DEF u
    <3> QED BY <3>2 DEF u
  <2> HIDE DEF v, L, w
  <2> QED BY <1>1, <2>2, <2>4 DEF v, L, w
<1> QED BY <1>2, <1>5, <1>6

(* The same for every source.                                              *)
LEMMA SourceReads ==
  ASSUME Settles, MembersOfOneSlot, NEW source \in Sources, NEW t, Yields(source, t),
         source.of = "path" /\ Behind(source.path) => Slots[t] = <<>>
  PROVE  LET v == Compile(source)
             L == Slots[t]
             w == ValueNow(source)
         IN  /\ v.type = t /\ w = [k \in DOMAIN L |-> w[k]]
             /\ Via(source) => v = MemoryData(0, t) /\ w = [k \in DOMAIN L |-> <<"default", L[k]>>]
             /\ ~Via(source) => \A k \in DOMAIN L :
                  /\ Legible(Place(v, L, k)) /\ Read(Place(v, L, k)) = w[k]
                  /\ \/ Place(v, L, k)[1] \in {"local", "global"} /\ <<Place(v, L, k), L[k]>> \in declared(locals, globals)
                     \/ Place(v, L, k) \in {<<"default", L[k]>>, <<"literal", L[k]>>}
<1> DEFINE v == Compile(source)
           L == Slots[t]
           w == ValueNow(source)
<1>4. t \in Types
  BY DEF Yields
<1>1. CASE source.of = "path"
  <2>1. source = [of |-> "path", path |-> source.path] /\ source.path \in Paths
    BY <1>1 DEF Sources
  <2>2. Typed(source.path, t) /\ v = Resolve(source.path) /\ ~Via(source)
    BY <1>1 DEF SourceType, Compile, Via, Yields, Typed
  <2>3. /\ v.type = t /\ w = [k \in DOMAIN L |-> Read(Place(v, L, k))]
        /\ \A k \in DOMAIN L : InStore(Place(v, L, k)) /\ <<Place(v, L, k), L[k]>> \in declared(locals, globals)
        /\ \A k \in DOMAIN L : Place(v, L, k)[1] \in {"local", "global"}
    <3>1. PICK path \in Paths : path = source.path
      BY <2>1
    <3>2. source = [of |-> "path", path |-> path] /\ (Behind(path) => Slots[t] = <<>>)
      BY <1>1, <2>1, <3>1
    <3>3. v = Resolve(path) /\ Typed(path, t)
      BY <2>2, <3>1
    <3> DEFINE u == Resolve(path)
               y == ValueNow([of |-> "path", path |-> path])
    <3>4. /\ u.type = t /\ y = [k \in DOMAIN L |-> Read(Place(u, L, k))]
          /\ \A k \in DOMAIN L : InStore(Place(u, L, k)) /\ <<Place(u, L, k), L[k]>> \in declared(locals, globals)
          /\ \A k \in DOMAIN L : Place(u, L, k)[1] \in {"local", "global"}
      BY <3>2, <3>3, PathReads
    <3>5. w = y
      BY <3>2
    <3> HIDE DEF u, v, w, y, L
    <3>6. v = u
      BY <3>3 DEF u
    <3> QED BY <3>4, <3>5, <3>6
  <2> HIDE DEF v, L, w
  <2>4. \A k \in DOMAIN L : Legible(Place(v, L, k)) /\ Read(Place(v, L, k)) = w[k]
    BY <2>3 DEF Legible, Target
  <2>5. w = [k \in DOMAIN L |-> w[k]]
    BY <2>3
  <2> QED BY <2>2, <2>3, <2>4, <2>5 DEF v, L, w
<1>2. CASE source.of = "new"
  <2>1. source.type = t
    BY <1>2 DEF SourceType, Yields
  <2>2. w = [k \in DOMAIN L |-> <<"default", L[k]>>]
    BY <1>2, <2>1 DEF ValueNow, ValueOf
  <2>3. CASE ViaMemory(t)
    <3>1. Via(source) /\ v = MemoryData(0, t) /\ v.type = t
      BY <1>2, <2>1, <2>3 DEF Via, Compile, MemoryData
    <3> HIDE DEF v, L, w
    <3>2. w = [k \in DOMAIN L |-> w[k]]
      BY <2>2
    <3> QED BY <2>2, <3>1, <3>2 DEF v, L, w
  <2>4. CASE ~ViaMemory(t)
    <3>1. ~Via(source) /\ v = Defaults(t) /\ v.type = t
      BY <1>2, <2>1, <2>4 DEF Via, Compile, Defaults, StackData
    <3>2. \A k \in DOMAIN L : Place(v, L, k) = <<"default", L[k]>>
      BY <1>4, <3>1, DefaultSlot
    <3> HIDE DEF v, L, w
    <3>3. \A k \in DOMAIN L : Legible(Place(v, L, k)) /\ Read(Place(v, L, k)) = w[k]
      BY <2>2, <3>2 DEF Legible, Read
    <3>4. w = [k \in DOMAIN L |-> w[k]]
      BY <2>2
    <3> QED BY <2>2, <3>1, <3>2, <3>3, <3>4 DEF v, L, w
  <2> QED BY <2>3, <2>4
<1>3. CASE source.of = "literal"
  <2>1. source.type = t /\ t \in Basis
    BY <1>3 DEF SourceType, Sources, Yields
  <2>2. w = << <<"literal", t>> >> /\ ~Via(source) /\ v = StackData(<< <<"literal", t>> >>, t)
    BY <1>3, <2>1 DEF ValueNow, ValueOf, Via, Compile
  <2>3. v.type = t /\ L = <<t>> /\ Place(v, L, 1) = <<"literal", t>>
    BY <2>1, <2>2, LiteralSlot
  <2> HIDE DEF v, L, w
  <2>4. DOMAIN L = {1} /\ L[1] = t /\ w[1] = <<"literal", t>> /\ w = [k \in {1} |-> w[k]]
    BY <2>2, <2>3
  <2>5. \A k \in DOMAIN L : Legible(Place(v, L, k)) /\ Read(Place(v, L, k)) = w[k]
    BY <2>3, <2>4 DEF Legible, Read
  <2> QED BY <2>2, <2>3, <2>4, <2>5 DEF v, L, w
<1> QED BY <1>1, <1>2, <1>3 DEF Sources

-----------------------------------------------------------------------------
(* The wasm locals and globals there are, and those there are not yet.     *)

(* The wasm locals of the function end where the next variable will start. *)
LEMMA WasmLocals ==
  ASSUME TypeOK, Shape
  PROVE  Len(wasmLocals(locals)) = localIndex /\ wasmLocals(locals) \in Seq(Basis)
<1>1. locals \in Seq(LocalVariable) /\ localIndex \in Nat
  BY StateFacts
<1> DEFINE o == [i \in 1..(Len(locals) + 1) |-> IF i = Len(locals) + 1 THEN localIndex ELSE locals[i].index]
<1>2. Offsets(SlotsOf(locals), o)
  BY DEF Shape, Packed
<1>3. SlotsOf(locals) \in Seq(Seq(Basis)) /\ Len(SlotsOf(locals)) = Len(locals) /\ Len(locals) \in Nat
  BY <1>1, LocalFacts
<1>4. o[Len(locals) + 1] = localIndex
  BY <1>3
<1> HIDE DEF o
<1>5. FlattenSeq(SlotsOf(locals)) \in Seq(Basis) /\ Len(FlattenSeq(SlotsOf(locals))) = o[Len(SlotsOf(locals)) + 1]
  BY <1>2, <1>3, Flattened
<1>6. wasmLocals(locals) = FlattenSeq(SlotsOf(locals))
  BY DEF wasmLocals, SlotsOf
<1> QED BY <1>3, <1>4, <1>5, <1>6

(* What is declared is a wasm local or a slot of a global.                 *)
LEMMA DeclaredPlaces ==
  ASSUME Settles, NEW d \in declared(locals, globals)
  PROVE  /\ InStore(d[1]) /\ d[2] \in Basis /\ d = <<d[1], d[2]>>
         /\ \/ \E n \in Nat : d[1] = <<"local", n>> /\ n < localIndex
            \/ \E i \in DOMAIN globals : \E k \in DOMAIN Slots[globals[i].type] :
                 LET p == Place(Global(globals[i].name, globals[i].type), Slots[globals[i].type], k) IN
                 d[1] = p /\ p[1] = "global" /\ d[2] = Slots[globals[i].type][k]
<1>0. TypeOK /\ Shape /\ Holds(locals, globals)
  BY DEF Settles, StoreHolds
<1>1. CASE \E i \in DOMAIN wasmLocals(locals) : d = << <<"local", i - 1>>, wasmLocals(locals)[i]>>
  <2>1. PICK i \in DOMAIN wasmLocals(locals) : d = << <<"local", i - 1>>, wasmLocals(locals)[i]>>
    BY <1>1
  <2>2. localIndex \in Nat /\ i \in 1..localIndex /\ wasmLocals(locals)[i] \in Basis
    BY <1>0, <2>1, WasmLocals, StateFacts
  <2>3. i - 1 \in Nat /\ i - 1 < localIndex
    BY <2>2
  <2>4. d[1] \in DOMAIN store
    BY <1>0 DEF Holds
  <2> QED BY <2>1, <2>2, <2>3, <2>4 DEF InStore
<1>2. CASE \E i \in DOMAIN globals : d \in slots(Global(globals[i].name, globals[i].type))
  <2>1. PICK i \in DOMAIN globals : d \in slots(Global(globals[i].name, globals[i].type))
    BY <1>2
  <2> DEFINE v == Global(globals[i].name, globals[i].type)
             L == Slots[globals[i].type]
  <2>2. v.type = globals[i].type
    BY GlobalSlot
  <2>3. PICK k \in DOMAIN L : d = <<Place(v, L, k), L[k]>>
    BY <2>1, <2>2 DEF slots
  <2>4. InStore(Place(v, L, k)) /\ Place(v, L, k)[1] = "global"
    BY <2>1, <2>3, GlobalInStore
  <2>5. L[k] \in Basis
    BY <1>0, <2>1, <2>3, GlobalFacts, SlotsType
  <2> HIDE DEF v
  <2>6. d[1] = Place(v, L, k) /\ d[2] = L[k]
    BY <2>3
  <2> QED BY <2>1, <2>3, <2>4, <2>5, <2>6 DEF v
<1> QED BY <1>1, <1>2 DEF declared

(* The slots of the next local are no slots of a variable yet.             *)
LEMMA FreshLocal ==
  ASSUME Settles, NEW d \in declared(locals, globals), NEW t \in Types, NEW k \in DOMAIN Slots[t]
  PROVE  Apart(d[1], Place(Local(localIndex, t), Slots[t], k))
<1>1. Place(Local(localIndex, t), Slots[t], k) = <<"local", localIndex + k - 1>>
  BY LocalSlot
<1>2. localIndex \in Nat /\ k \in Nat /\ k >= 1
  BY StateFacts, SlotsType DEF Settles
<1>3. CASE \E n \in Nat : d[1] = <<"local", n>> /\ n < localIndex
  <2>1. PICK n \in Nat : d[1] = <<"local", n>> /\ n < localIndex
    BY <1>3
  <2>2. n # localIndex + k - 1
    BY <1>2, <2>1
  <2> QED BY <1>1, <2>1, <2>2 DEF Apart
<1>4. CASE d[1][1] = "global"
  BY <1>1, <1>4 DEF Apart
<1> QED BY <1>3, <1>4, DeclaredPlaces

(* Nor are those of a global with a new name.                              *)
LEMMA FreshGlobal ==
  ASSUME Settles, NEW d \in declared(locals, globals), NEW x, Named(globals, x) = {},
         NEW t \in Types, NEW k \in DOMAIN Slots[t]
  PROVE  Apart(d[1], Place(Global(x, t), Slots[t], k))
<1> DEFINE q == Place(Global(x, t), Slots[t], k)
<1>1. q[1] = "global" /\ q[2] = x
  BY GlobalSlot
<1> HIDE DEF q
<1>2. ASSUME \E n \in Nat : d[1] = <<"local", n>>
      PROVE  Apart(d[1], q)
  BY <1>1, <1>2 DEF Apart
<1>3. ASSUME NEW i \in DOMAIN globals, NEW j \in DOMAIN Slots[globals[i].type],
             d[1] = Place(Global(globals[i].name, globals[i].type), Slots[globals[i].type], j)
      PROVE  Apart(d[1], q)
  <2>1. d[1][1] = "global" /\ d[1][2] = globals[i].name
    BY <1>3, GlobalSlot
  <2>2. globals[i].name # x
    BY DEF Named
  <2> QED BY <1>1, <2>1, <2>2 DEF Apart
<1>4. \/ \E n \in Nat : d[1] = <<"local", n>>
      \/ \E i \in DOMAIN globals : \E j \in DOMAIN Slots[globals[i].type] :
           d[1] = Place(Global(globals[i].name, globals[i].type), Slots[globals[i].type], j)
  BY DeclaredPlaces
<1>5. Apart(d[1], q)
  BY <1>2, <1>3, <1>4
<1> QED BY <1>5 DEF q

-----------------------------------------------------------------------------
(* What the variables will hold.                                           *)

LocalsEnd(G, vs, ls) ==
  /\ ls = [i \in DOMAIN vs |-> [name |-> vs[i].name, type |-> vs[i].type, value |-> ls[i].value]]
  /\ \A i \in DOMAIN vs : Becomes(G, Local(vs[i].index, vs[i].type), ls[i].value)
GlobalsEnd(G, vs, gs) ==
  /\ gs = [i \in DOMAIN vs |-> [name |-> vs[i].name, type |-> vs[i].type, value |-> gs[i].value]]
  /\ \A i \in DOMAIN vs : Becomes(G, Global(vs[i].name, vs[i].type), gs[i].value)

(* A local that no instruction writes stays as it is.                      *)
LEMMA LocalKept ==
  ASSUME Settles, NEW i \in DOMAIN locals, NEW G,
         \A k \in DOMAIN Slots[locals[i].type] : \A g \in G :
           Apart(<<"local", locals[i].index + k - 1>>, g[1])
  PROVE  Becomes(G, Local(locals[i].index, locals[i].type), localsNow[i].value)
<1> DEFINE v == Local(locals[i].index, locals[i].type)
           values == localsNow[i].value
           T == locals[i].type
<1>1. v.type = T /\ \A k : Place(v, Slots[T], k) = <<"local", locals[i].index + k - 1>>
  BY LocalSlot
<1>2. values = [k \in DOMAIN Slots[T] |-> Read(<<"local", locals[i].index + k - 1>>)]
  BY LocalContents
<1> HIDE DEF v, values
<1>3. ASSUME NEW k \in DOMAIN Slots[T]
      PROVE  Finally(G, Place(v, Slots[T], k), values[k])
  <2> DEFINE p == <<"local", locals[i].index + k - 1>>
  <2>1. InStore(p)
    BY LocalInStore
  <2>2. values[k] = Read(p) /\ Place(v, Slots[T], k) = p
    BY <1>1, <1>2
  <2>3. \A g \in G : Apart(p, g[1])
    OBVIOUS
  <2> HIDE DEF p
  <2> QED BY <2>1, <2>2, <2>3 DEF Finally, Untouched, Legible, Target
<1>4. values = [k \in DOMAIN Slots[T] |-> values[k]]
  BY <1>2
<1> HIDE DEF T
<1>5. Becomes(G, v, values)
  BY <1>1, <1>3, <1>4 DEF Becomes
<1> QED BY <1>5 DEF v, values, T

(* And so does a global.                                                   *)
LEMMA GlobalKept ==
  ASSUME Settles, NEW i \in DOMAIN globals, NEW G,
         \A k \in DOMAIN Slots[globals[i].type] : \A g \in G :
           Apart(Place(Global(globals[i].name, globals[i].type), Slots[globals[i].type], k), g[1])
  PROVE  Becomes(G, Global(globals[i].name, globals[i].type), globalsNow[i].value)
<1> DEFINE v == Global(globals[i].name, globals[i].type)
           values == globalsNow[i].value
           L == Slots[globals[i].type]
<1>1. v.type = globals[i].type
  BY GlobalSlot
<1>2. values = [k \in DOMAIN L |-> Read(Place(v, L, k))]
  BY GlobalContents
<1>3. ASSUME NEW k \in DOMAIN L
      PROVE  Finally(G, Place(v, L, k), values[k])
  <2> DEFINE p == Place(v, L, k)
  <2>1. InStore(p)
    BY GlobalInStore
  <2>2. \A g \in G : Apart(p, g[1])
    OBVIOUS
  <2> HIDE DEF v, L, values
  <2>3. values[k] = Read(p)
    BY <1>2
  <2> HIDE DEF p
  <2>4. Finally(G, p, values[k])
    BY <2>1, <2>2, <2>3 DEF Finally, Untouched, Legible, Target
  <2> QED BY <2>4 DEF p
<1> HIDE DEF values, v
<1>4. values = [k \in DOMAIN L |-> values[k]]
  BY <1>2
<1>5. Becomes(G, v, values)
  BY <1>1, <1>3, <1>4 DEF Becomes
<1> QED BY <1>5 DEF v, values

(* The variables as they are, written as above.                            *)
LEMMA NowForm ==
  ASSUME TypeOK
  PROVE  /\ localsNow = [i \in DOMAIN locals |->
                [name |-> locals[i].name, type |-> locals[i].type, value |-> localsNow[i].value]]
         /\ globalsNow = [i \in DOMAIN globals |->
                [name |-> globals[i].name, type |-> globals[i].type, value |-> globalsNow[i].value]]
<1>1. \A i \in DOMAIN locals : localsNow[i] =
        [name |-> locals[i].name, type |-> locals[i].type, value |-> localsNow[i].value]
  <2> TAKE i \in DOMAIN locals
  <2> DEFINE c == Contents(Local(locals[i].index, locals[i].type))
  <2>1. localsNow[i] = [name |-> locals[i].name, type |-> locals[i].type, value |-> c]
    BY NowFacts
  <2> HIDE DEF c
  <2> QED BY <2>1
<1>2. \A i \in DOMAIN globals : globalsNow[i] =
        [name |-> globals[i].name, type |-> globals[i].type, value |-> globalsNow[i].value]
  <2> TAKE i \in DOMAIN globals
  <2> DEFINE c == Contents(Global(globals[i].name, globals[i].type))
  <2>1. globalsNow[i] = [name |-> globals[i].name, type |-> globals[i].type, value |-> c]
    BY NowFacts
  <2> HIDE DEF c
  <2> QED BY <2>1
<1>3. /\ localsNow = [i \in DOMAIN locals |-> localsNow[i]]
      /\ globalsNow = [i \in DOMAIN globals |-> globalsNow[i]]
  BY DEF localsNow, globalsNow
<1> DEFINE ls == localsNow
           gs == globalsNow
<1>4. /\ ls = [i \in DOMAIN locals |-> ls[i]]
      /\ \A i \in DOMAIN locals : ls[i] =
           [name |-> locals[i].name, type |-> locals[i].type, value |-> ls[i].value]
  BY <1>1, <1>3
<1>5. /\ gs = [i \in DOMAIN globals |-> gs[i]]
      /\ \A i \in DOMAIN globals : gs[i] =
           [name |-> globals[i].name, type |-> globals[i].type, value |-> gs[i].value]
  BY <1>2, <1>3
<1> HIDE DEF ls, gs
<1>6. ls = [i \in DOMAIN locals |->
                [name |-> locals[i].name, type |-> locals[i].type, value |-> ls[i].value]]
  BY <1>4
<1>7. gs = [i \in DOMAIN globals |->
                [name |-> globals[i].name, type |-> globals[i].type, value |-> gs[i].value]]
  BY <1>5
<1> QED BY <1>6, <1>7 DEF ls, gs

(* Instructions that write nothing that is declared keep every variable.   *)
LEMMA AllKept ==
  ASSUME Settles, NEW G, \A d \in declared(locals, globals) : \A g \in G : Apart(d[1], g[1])
  PROVE  LocalsEnd(G, locals, localsNow) /\ GlobalsEnd(G, globals, globalsNow)
<1>1. ASSUME NEW i \in DOMAIN locals
      PROVE  Becomes(G, Local(locals[i].index, locals[i].type), localsNow[i].value)
  <2>1. \A k \in DOMAIN Slots[locals[i].type] : \A g \in G :
           Apart(<<"local", locals[i].index + k - 1>>, g[1])
    <3> TAKE k \in DOMAIN Slots[locals[i].type]
    <3> TAKE g \in G
    <3> DEFINE p == <<"local", locals[i].index + k - 1>>
               b == Slots[locals[i].type][k]
    <3>1. <<p, b>> \in declared(locals, globals)
      BY LocalInStore
    <3> HIDE DEF p, b
    <3>2. Apart(<<p, b>>[1], g[1])
      BY <3>1
    <3>3. Apart(p, g[1])
      BY <3>2
    <3> QED BY <3>3 DEF p
  <2> QED BY <2>1, LocalKept
<1>2. ASSUME NEW i \in DOMAIN globals
      PROVE  Becomes(G, Global(globals[i].name, globals[i].type), globalsNow[i].value)
  <2> DEFINE v == Global(globals[i].name, globals[i].type)
             L == Slots[globals[i].type]
  <2>1. \A k \in DOMAIN L : \A g \in G : Apart(Place(v, L, k), g[1])
    <3> TAKE k \in DOMAIN L
    <3> TAKE g \in G
    <3> DEFINE p == Place(v, L, k)
               b == L[k]
    <3>1. <<p, b>> \in declared(locals, globals)
      BY GlobalInStore
    <3> HIDE DEF p, b
    <3>2. Apart(<<p, b>>[1], g[1])
      BY <3>1
    <3>3. Apart(p, g[1])
      BY <3>2
    <3> QED BY <3>3 DEF p
  <2> QED BY <2>1, GlobalKept
<1> QED BY <1>1, <1>2, NowForm DEF LocalsEnd, GlobalsEnd, Settles

-----------------------------------------------------------------------------
(* The instructions that bring the value of a source to a variant.         *)

Brings(source, u) == AssignTo(Compile(source), u)
Blocks(source, u) ==
  (IF Via(source) THEN Block(MemoryData(0, u.type), ValueNow(source)) ELSE {})
    \cup Block(u, ValueNow(source))

(* A constructor of several slots stores its defaults first.               *)
LEMMA CallBeforeFacts ==
  ASSUME NEW source \in Sources, NEW t, Yields(source, t), NEW c, Sequence(c)
  PROVE  /\ Via(source) => /\ CallBefore(source) = AssignTo(Defaults(t), MemoryData(0, t))
                           /\ ViaMemory(t) /\ source.type = t
         /\ ~Via(source) => c \o CallBefore(source) = c /\ CallBefore(source) = <<>>
<1>1. CASE Via(source)
  <2>1. source.of = "new" /\ source.type = t
    BY <1>1 DEF Via, Yields, SourceType
  <2> QED BY <1>1, <2>1 DEF Via, CallBefore, Constructor
<1>2. CASE ~Via(source)
  <2>1. CallBefore(source) = <<>>
    BY <1>2 DEF Via, CallBefore, Constructor
  <2>2. c \o <<>> = c
    BY DEF Sequence
  <2> QED BY <1>2, <2>1, <2>2
<1> QED BY <1>1, <1>2

(* A source can be moved behind any instructions that leave what it reads. *)
LEMMA SoundSource ==
  ASSUME Settles, MembersOfOneSlot, NEW source \in Sources, NEW t, Yields(source, t),
         source.of = "path" /\ Behind(source.path) => Slots[t] = <<>>,
         NEW c, Sequence(c), NEW G, Sound(G, c), NEW u, u.type = t,
         Blocks(source, u) \subseteq G,
         \A g \in G : g[1][1] \notin {"default", "literal"},
         \A k \in DOMAIN Slots[t] :
           LET from == Place(Compile(source), Slots[t], k) IN
           <<from, Slots[t][k]>> \in declared(locals, globals) =>
             <<from, ValueNow(source)[k]>> \in G \/ \A g \in G : Apart(from, g[1])
  PROVE  /\ Sound(G, (c \o CallBefore(source)) \o Brings(source, u))
         /\ Sequence((c \o CallBefore(source)) \o Brings(source, u))
<1> DEFINE v == Compile(source)
           L == Slots[t]
           w == ValueNow(source)
           cc == c \o CallBefore(source)
<1>0. t \in Types
  BY DEF Yields
<1>1. /\ v.type = t /\ w = [k \in DOMAIN L |-> w[k]]
      /\ Via(source) => v = MemoryData(0, t) /\ w = [k \in DOMAIN L |-> <<"default", L[k]>>]
      /\ ~Via(source) => \A k \in DOMAIN L :
           /\ Legible(Place(v, L, k)) /\ Read(Place(v, L, k)) = w[k]
           /\ \/ Place(v, L, k)[1] \in {"local", "global"} /\ <<Place(v, L, k), L[k]>> \in declared(locals, globals)
              \/ Place(v, L, k) \in {<<"default", L[k]>>, <<"literal", L[k]>>}
  BY SourceReads
<1>2. \A b : b[1] \in {"default", "literal"} => \A g \in G : Apart(b, g[1])
  BY DEF Apart
<1>3. CASE Via(source)
  <2> DEFINE m == MemoryData(0, t)
  <2>1. CallBefore(source) = AssignTo(Defaults(t), m)
    BY <1>3, CallBeforeFacts
  <2>2. m.type = t /\ Defaults(t).type = t
    BY DEF MemoryData, Defaults, StackData
  <2>3. Block(m, w) \subseteq G /\ Block(u, w) \subseteq G
    BY <1>3 DEF Blocks
  <2>4. \A k \in DOMAIN L : Place(Defaults(t), L, k) = <<"default", L[k]>> /\ w[k] = <<"default", L[k]>>
    BY <1>0, <1>1, <1>3, DefaultSlot
  <2>5. \A k \in DOMAIN L : Untouched(G, Place(Defaults(t), L, k), w[k])
    <3> TAKE k \in DOMAIN L
    <3> DEFINE b == <<"default", L[k]>>
    <3>1. b[1] = "default" /\ Read(b) = b
      BY DEF Read
    <3> HIDE DEF b
    <3>2. Untouched(G, b, b)
      BY <1>2, <3>1 DEF Untouched, Legible
    <3> QED BY <2>4, <3>2 DEF b
  <2> DEFINE a == Defaults(t)
  <2> HIDE DEF a, m, w
  <2>6. Sound(G, c \o AssignTo(a, m)) /\ Sequence(c \o AssignTo(a, m))
    BY <1>0, <2>2, <2>3, <2>5, SoundMove DEF a
  <2>7. Sound(G, cc) /\ Sequence(cc)
    BY <2>1, <2>6 DEF a, m
  <2>8. \A k \in DOMAIN L : <<Place(m, L, k), w[k]>> \in G /\ \E j \in DOMAIN cc : cc[j].to = Place(m, L, k)
    <3> TAKE k \in DOMAIN L
    <3>1. <<Place(m, L, k), w[k]>> \in G
      BY <2>2, <2>3 DEF Block
    <3>2. /\ Sequence(AssignTo(a, m)) /\ k \in DOMAIN AssignTo(a, m)
          /\ AssignTo(a, m)[k].to = Place(m, L, k)
      BY <1>0, <2>2, Moves DEF a
    <3>3. Len(c) + k \in DOMAIN cc /\ cc[Len(c) + k] = AssignTo(a, m)[k]
      BY <2>1, <3>2, Concatenated DEF a, m
    <3> HIDE DEF cc
    <3> QED BY <3>1, <3>2, <3>3
  <2>9. v = m
    BY <1>1, <1>3 DEF m
  <2> HIDE DEF cc, v, L
  <2>10. Sound(G, cc \o AssignTo(m, u)) /\ Sequence(cc \o AssignTo(m, u))
    <3>1. \A k \in DOMAIN Slots[m.type] :
             LET from == Place(m, Slots[m.type], k) IN
             \/ Untouched(G, from, w[k])
             \/ /\ <<from, w[k]>> \in G
                /\ \/ Legible(from) /\ Read(from) = w[k]
                   \/ \E j \in DOMAIN cc : cc[j].to = from
      BY <2>2, <2>8 DEF L
    <3> QED BY <1>0, <2>2, <2>3, <2>7, <3>1, SoundMove
  <2>11. Sound(G, cc \o Brings(source, u)) /\ Sequence(cc \o Brings(source, u))
    BY <2>9, <2>10 DEF Brings, v
  <2> QED BY <2>11 DEF cc
<1>4. CASE ~Via(source)
  <2>1. cc = c
    BY <1>4, CallBeforeFacts
  <2>2. Block(u, w) \subseteq G
    BY DEF Blocks
  <2> HIDE DEF v, w, cc
  <2>3. \A k \in DOMAIN L : Untouched(G, Place(v, L, k), w[k])
             \/ (<<Place(v, L, k), w[k]>> \in G /\ Legible(Place(v, L, k)) /\ Read(Place(v, L, k)) = w[k])
    <3> TAKE k \in DOMAIN L
    <3> DEFINE p == Place(v, L, k)
    <3>1. /\ Legible(p) /\ Read(p) = w[k]
          /\ <<p, L[k]>> \in declared(locals, globals) \/ p \in {<<"default", L[k]>>, <<"literal", L[k]>>}
      BY <1>1, <1>4
    <3>2. <<p, L[k]>> \in declared(locals, globals) => <<p, w[k]>> \in G \/ \A g \in G : Apart(p, g[1])
      BY DEF v, w
    <3> HIDE DEF p
    <3>3. <<p, w[k]>> \in G \/ \A g \in G : Apart(p, g[1])
      BY <1>2, <3>1, <3>2
    <3>4. Untouched(G, p, w[k]) \/ (<<p, w[k]>> \in G /\ Legible(p) /\ Read(p) = w[k])
      BY <3>1, <3>3 DEF Untouched
    <3> QED BY <3>4 DEF p
  <2>4. v.type = t
    BY <1>1
  <2>5. Sound(G, c \o AssignTo(v, u)) /\ Sequence(c \o AssignTo(v, u))
    <3>1. \A k \in DOMAIN Slots[v.type] :
             LET from == Place(v, Slots[v.type], k) IN
             \/ Untouched(G, from, w[k])
             \/ /\ <<from, w[k]>> \in G
                /\ \/ Legible(from) /\ Read(from) = w[k]
                   \/ \E j \in DOMAIN c : c[j].to = from
      BY <2>3, <2>4
    <3> QED BY <1>0, <2>2, <2>4, <3>1, SoundMove
  <2> QED BY <2>1, <2>5 DEF Brings, v, cc
<1> QED BY <1>3, <1>4

(* All that is to be written is written.                                   *)
LEMMA CoversSource ==
  ASSUME Settles, MembersOfOneSlot, NEW source \in Sources, NEW t, Yields(source, t),
         source.of = "path" /\ Behind(source.path) => Slots[t] = <<>>,
         NEW c, Sequence(c), NEW G, Covers(G, c), NEW u, u.type = t
  PROVE  /\ Covers(G \cup Blocks(source, u), (c \o CallBefore(source)) \o Brings(source, u))
         /\ Sequence((c \o CallBefore(source)) \o Brings(source, u))
<1> DEFINE v == Compile(source)
           w == ValueNow(source)
           m == MemoryData(0, t)
           a == Defaults(t)
           cc == c \o CallBefore(source)
           B == IF Via(source) THEN Block(m, w) ELSE {}
<1>0. t \in Types
  BY DEF Yields
<1>1. v.type = t
  BY SourceReads
<1>2. Covers(G \cup B, cc) /\ Sequence(cc)
  <2>1. CASE Via(source)
    <3>1. CallBefore(source) = AssignTo(a, m)
      BY <2>1, CallBeforeFacts
    <3>2. m.type = t /\ a.type = t
      BY DEF MemoryData, Defaults, StackData
    <3>3. B = Block(m, w)
      BY <2>1
    <3> HIDE DEF a, m, w, B
    <3>4. Covers(G \cup Block(m, w), c \o AssignTo(a, m))
      BY <1>0, <3>2, CoversMove
    <3>5. Sequence(c \o AssignTo(a, m))
      BY <1>0, <3>2, Moves, Concatenated
    <3> QED BY <3>1, <3>3, <3>4, <3>5
  <2>2. CASE ~Via(source)
    <3>1. cc = c /\ B = {}
      BY <2>2, CallBeforeFacts
    <3>2. G \cup {} = G
      OBVIOUS
    <3> HIDE DEF cc, B
    <3> QED BY <3>1, <3>2
  <2> QED BY <2>1, <2>2
<1> HIDE DEF cc, B, v, w
<1>3. Covers((G \cup B) \cup Block(u, w), cc \o AssignTo(v, u))
  BY <1>0, <1>1, <1>2, CoversMove
<1>4. Sequence(cc \o AssignTo(v, u))
  BY <1>0, <1>1, <1>2, Moves, Concatenated
<1>5. (G \cup B) \cup Block(u, w) = G \cup Blocks(source, u)
  BY DEF Blocks, B, w, m
<1> QED BY <1>3, <1>4, <1>5 DEF Brings, cc, v

-----------------------------------------------------------------------------
(* Places that do not disturb each other.                                  *)

(* Places of different kinds are apart.                                    *)
LEMMA KindsApart ==
  ASSUME NEW p, NEW q, p[1] # q[1]
  PROVE  Apart(p, q) /\ Apart(q, p)
BY DEF Apart

(* Apart is symmetric.                                                     *)
LEMMA ApartBack ==
  ASSUME NEW p, NEW q, Apart(p, q)
  PROVE  Apart(q, p)
BY DEF Apart

(* The slots of a separate variant are written once.                       *)
LEMMA DistinctBlock ==
  ASSUME NEW v, NEW w, Separate(v)
  PROVE  Distinct(Block(v, w))
<1> DEFINE L == Slots[v.type]
<1>1. ASSUME NEW g \in Block(v, w)
      PROVE  g = <<g[1], g[2]>>
  BY DEF Block
<1>2. ASSUME NEW g \in Block(v, w), NEW h \in Block(v, w), g # h
      PROVE  Apart(g[1], h[1])
  <2>1. PICK j \in DOMAIN L : g = <<Place(v, L, j), w[j]>>
    BY DEF Block
  <2>2. PICK k \in DOMAIN L : h = <<Place(v, L, k), w[k]>>
    BY DEF Block
  <2>3. j # k
    BY <1>2, <2>1, <2>2
  <2> QED BY <2>1, <2>2, <2>3 DEF Separate
<1> QED BY <1>1, <1>2 DEF Distinct

(* So are those of two that are apart.                                     *)
LEMMA DistinctUnion ==
  ASSUME NEW G, NEW H, Distinct(G), Distinct(H),
         \A g \in G : \A h \in H : Apart(g[1], h[1])
  PROVE  Distinct(G \cup H)
BY ApartBack DEF Distinct

(* The places of a block are slots of its variant.                         *)
LEMMA BlockPlaces ==
  ASSUME NEW v, NEW w, NEW g \in Block(v, w)
  PROVE  \E k \in DOMAIN Slots[v.type] : g[1] = Place(v, Slots[v.type], k) /\ g[2] = w[k]
BY DEF Block

(* An object in memory stays inside its size.                              *)
LEMMA MemoryBlock ==
  ASSUME NEW p \in Nat, NEW t \in Types, NEW w
  PROVE  /\ Distinct(Block(MemoryData(p, t), w))
         /\ getSize(Slots[t]) \in Nat
         /\ \A g \in Block(MemoryData(p, t), w) :
              /\ g[1][1] = "memory"
              /\ g[1][2] \in Nat /\ Bytes[g[1][3]] \in Nat
              /\ p <= g[1][2] /\ g[1][2] + Bytes[g[1][3]] <= p + getSize(Slots[t])
<1>1. Distinct(Block(MemoryData(p, t), w))
  BY SeparateMemory, DistinctBlock
<1>2. Slots[t] \in Seq(Basis)
  BY SlotsType
<1>3. getSize(Slots[t]) \in Nat
  BY <1>2, MemoryOffsets
<1>4. ASSUME NEW g \in Block(MemoryData(p, t), w)
      PROVE  /\ g[1][1] = "memory"
             /\ g[1][2] \in Nat /\ Bytes[g[1][3]] \in Nat
             /\ p <= g[1][2] /\ g[1][2] + Bytes[g[1][3]] <= p + getSize(Slots[t])
  <2> DEFINE v == MemoryData(p, t)
  <2>1. v.type = t
    BY DEF MemoryData
  <2>2. PICK k \in DOMAIN Slots[v.type] : g[1] = Place(v, Slots[v.type], k)
    BY BlockPlaces
  <2>3. k \in DOMAIN Slots[t] /\ g[1] = Place(MemoryData(p, t), Slots[t], k)
    BY <2>1, <2>2
  <2> DEFINE s == SizeBefore(Slots[t], k)
             b == Slots[t][k]
  <2>4. g[1] = <<"memory", p + s, b>>
    BY <2>3, MemorySlot
  <2>5. s \in Nat /\ s + Bytes[b] <= getSize(Slots[t])
    BY <1>2, <2>3, MemoryOffsets
  <2>6. Bytes[b] \in Nat
    <3>1. b \in Basis
      BY <1>2, <2>3
    <3> QED BY <3>1, LayoutAssumption
  <2> HIDE DEF s, b, v
  <2>7. g[1][1] = "memory" /\ g[1][2] = p + s /\ g[1][3] = b
    BY <2>4
  <2>8. p <= p + s /\ p + s + Bytes[b] <= p + getSize(Slots[t]) /\ p + s \in Nat
    BY <1>3, <2>5, <2>6
  <2> QED BY <2>6, <2>7, <2>8
<1> QED BY <1>1, <1>3, <1>4

-----------------------------------------------------------------------------
(* The write-back of the receiver.                                         *)

Receiver == Len(function.arguments)
ReceiverBlock ==
  IF function.writesBack THEN Block(ReceiverData, localsNow[Receiver].value) ELSE {}

(* The receiver is the last argument.                                      *)
LEMMA ReceiverFacts ==
  ASSUME Settles, function.writesBack
  PROVE  /\ Receiver \in DOMAIN locals
         /\ ReceiverType = locals[Receiver].type /\ ReceiverType \in Types
         /\ function.returns \in Types /\ getSize(Slots[function.returns]) \in Nat
         /\ ReceiverData = MemoryData(getSize(Slots[function.returns]), ReceiverType)
         /\ ReceiverData.type = ReceiverType
<1>1. function \in Function /\ function.arguments \in Seq(Variable) /\ function.arguments # <<>>
  BY FunctionType, FunctionsAssumption DEF Settles, TypeOK
<1>2. Receiver \in Nat /\ Receiver >= 1 /\ Receiver <= Len(locals)
  BY <1>1 DEF Receiver, Settles, Shape
<1>3. Receiver \in DOMAIN locals
  BY <1>2, StateFacts DEF Settles
<1>4. locals[Receiver].type = ReceiverType
  BY <1>2, <1>3 DEF Settles, Shape, ReceiverType, Receiver
<1>5. locals[Receiver].type \in Types
  BY <1>3, StateFacts DEF Settles
<1>6. function.returns \in Types
  BY <1>1 DEF Function
<1>7. getSize(Slots[function.returns]) \in Nat
  BY <1>6, SlotsType, MemoryOffsets
<1> QED BY <1>3, <1>4, <1>5, <1>6, <1>7 DEF ReceiverData, MemoryData

(* It is behind the result in memory.                                      *)
LEMMA ReceiverPlaces ==
  ASSUME Settles
  PROVE  /\ Distinct(ReceiverBlock)
         /\ \A g \in ReceiverBlock :
              g[1][1] = "memory" /\ g[1][2] \in Nat /\ getSize(Slots[function.returns]) <= g[1][2]
<1>1. CASE function.writesBack
  <2> DEFINE w == localsNow[Receiver].value
             p == getSize(Slots[function.returns])
             R == Block(MemoryData(p, ReceiverType), w)
  <2>1. ReceiverType \in Types /\ p \in Nat /\ ReceiverBlock = R
    BY <1>1, ReceiverFacts DEF ReceiverBlock
  <2> HIDE DEF p, w
  <2>2. Distinct(R) /\ \A g \in R : g[1][1] = "memory" /\ g[1][2] \in Nat /\ p <= g[1][2]
    BY <2>1, MemoryBlock
  <2> HIDE DEF R
  <2> QED BY <2>1, <2>2 DEF p
<1>2. CASE ~function.writesBack
  BY <1>2 DEF ReceiverBlock, Distinct
<1> QED BY <1>1, <1>2

(* The write-back reads the receiver as it is.                             *)
LEMMA SoundWriteBack ==
  ASSUME Settles, NEW c, Sequence(c), NEW G, Sound(G, c), ReceiverBlock \subseteq G,
         \A d \in declared(locals, globals) : \A g \in G : Apart(d[1], g[1])
  PROVE  Sound(G, c \o WriteBack) /\ Sequence(c \o WriteBack)
<1>1. CASE function.writesBack
  <2> DEFINE n == Receiver
             t == ReceiverType
             v == Local(locals[n].index, t)
             w == localsNow[n].value
             u == ReceiverData
  <2>1. n \in DOMAIN locals /\ t = locals[n].type /\ t \in Types /\ u.type = t
    BY <1>1, ReceiverFacts
  <2>2. WriteBack = AssignTo(v, u) /\ Block(u, w) \subseteq G
    BY <1>1 DEF WriteBack, ReceiverBlock, Receiver
  <2>3. v.type = t /\ \A k : Place(v, Slots[t], k) = <<"local", locals[n].index + k - 1>>
    BY LocalSlot
  <2>4. \A k \in DOMAIN Slots[t] : Untouched(G, Place(v, Slots[t], k), w[k])
    <3> TAKE k \in DOMAIN Slots[t]
    <3> DEFINE p == <<"local", locals[n].index + k - 1>>
               b == Slots[t][k]
    <3>1. InStore(p) /\ <<p, b>> \in declared(locals, globals)
      BY <2>1, LocalInStore
    <3>2. w = [j \in DOMAIN Slots[t] |-> Read(<<"local", locals[n].index + j - 1>>)]
      BY <2>1, LocalContents
    <3>3. w[k] = Read(p)
      BY <3>2
    <3> HIDE DEF p, b, w
    <3>4. \A g \in G : Apart(<<p, b>>[1], g[1])
      BY <3>1
    <3>5. Untouched(G, p, w[k])
      BY <3>1, <3>3, <3>4 DEF Untouched, Legible, Target
    <3> QED BY <2>3, <3>5 DEF p
  <2> HIDE DEF v, w, u, t
  <2>5. Sound(G, c \o AssignTo(v, u)) /\ Sequence(c \o AssignTo(v, u))
    BY <2>1, <2>2, <2>3, <2>4, SoundMove
  <2> QED BY <2>2, <2>5
<1>2. CASE ~function.writesBack
  <2>1. c \o WriteBack = c
    BY <1>2 DEF WriteBack, Sequence
  <2> QED BY <2>1
<1> QED BY <1>1, <1>2

(* And writes all of its slots.                                            *)
LEMMA CoversWriteBack ==
  ASSUME Settles, NEW c, Sequence(c), NEW G, Covers(G, c)
  PROVE  Covers(G \cup ReceiverBlock, c \o WriteBack) /\ Sequence(c \o WriteBack)
<1>1. CASE function.writesBack
  <2> DEFINE n == Receiver
             t == ReceiverType
             v == Local(locals[n].index, t)
             w == localsNow[n].value
             u == ReceiverData
  <2>1. t \in Types /\ u.type = t
    BY <1>1, ReceiverFacts
  <2>2. WriteBack = AssignTo(v, u) /\ Block(u, w) = ReceiverBlock
    BY <1>1 DEF WriteBack, ReceiverBlock, Receiver
  <2>3. v.type = t
    BY LocalSlot
  <2> HIDE DEF v, w, u, t
  <2> QED BY <2>1, <2>2, <2>3, CoversMove, Moves, Concatenated
<1>2. CASE ~function.writesBack
  <2>1. c \o WriteBack = c /\ G \cup ReceiverBlock = G
    BY <1>2 DEF WriteBack, ReceiverBlock, Sequence
  <2> QED BY <2>1
<1> QED BY <1>1, <1>2

-----------------------------------------------------------------------------
(* What a statement leaves, in values.                                     *)

ResultBecomes(G, value) ==
  Becomes(G, IF ViaMemory(function.returns) THEN MemoryData(0, function.returns) ELSE Result, value)
ReceiverBecomes(G, value) ==
  IF function.writesBack THEN Becomes(G, ReceiverData, value) ELSE value = <<>>
ReceiverOf(ls) == IF function.writesBack THEN ls[Receiver].value ELSE <<>>
Planned(G, c) == Distinct(G) /\ Sound(G, c) /\ Covers(G, c)

(* What is moved to a variant will be there.                               *)
LEMMA BlockBecomes ==
  ASSUME NEW v, NEW w, NEW G, Block(v, w) \subseteq G, w = [k \in DOMAIN Slots[v.type] |-> w[k]]
  PROVE  Becomes(G, v, w)
BY DEF Becomes, Finally, Block

(* A value without slots is everywhere.                                    *)
LEMMA NothingBecomes ==
  ASSUME NEW v, NEW G, Slots[v.type] = <<>>
  PROVE  Becomes(G, v, <<>>)
BY DEF Becomes

(* The empty list of instructions.                                         *)
LEMMA NoInstructions ==
  /\ Sequence(<<>>)
  /\ \A G : Sound(G, <<>>)
  /\ Covers({}, <<>>)
  /\ \A c : Sequence(c) => <<>> \o c = c
BY DEF Sequence, Sound, Covers

(* The write-back is a list of instructions.                               *)
LEMMA WriteBackAlone ==
  ASSUME Settles
  PROVE  Sequence(WriteBack) /\ <<>> \o WriteBack = WriteBack
<1>1. Sequence(WriteBack)
  <2>1. CASE function.writesBack
    <3>1. ReceiverType \in Types
      BY <2>1, ReceiverFacts
    <3>2. Local(locals[Receiver].index, ReceiverType).type = ReceiverType
      BY LocalSlot
    <3> QED BY <2>1, <3>1, <3>2, Moves DEF WriteBack, Receiver
  <2>2. CASE ~function.writesBack
    BY <2>2, NoInstructions DEF WriteBack
  <2> QED BY <2>1, <2>2
<1> QED BY <1>1, NoInstructions

(* So is what a constructor does.                                          *)
LEMMA CallBeforeAlone ==
  ASSUME NEW source \in Sources, NEW t, Yields(source, t)
  PROVE  Sequence(CallBefore(source)) /\ <<>> \o CallBefore(source) = CallBefore(source)
<1>0. t \in Types
  BY DEF Yields
<1>1. CASE Via(source)
  <2>1. CallBefore(source) = AssignTo(Defaults(t), MemoryData(0, t))
    BY <1>1, NoInstructions, CallBeforeFacts
  <2>2. Defaults(t).type = t
    BY DEF Defaults, StackData
  <2> QED BY <1>0, <2>1, <2>2, Moves, NoInstructions
<1>2. CASE ~Via(source)
  <2>1. CallBefore(source) = <<>>
    BY <1>2, NoInstructions, CallBeforeFacts
  <2> QED BY <2>1, NoInstructions
<1> QED BY <1>1, <1>2

(* The caller will find the receiver as it is now.                         *)
LEMMA ReceiverKept ==
  ASSUME Settles, NEW G, ReceiverBlock \subseteq G
  PROVE  ReceiverBecomes(G, ReceiverOf(localsNow))
<1>1. CASE function.writesBack
  <2> DEFINE w == localsNow[Receiver].value
             t == ReceiverType
  <2>1. ReceiverData.type = t /\ t = locals[Receiver].type /\ Receiver \in DOMAIN locals
    BY <1>1, ReceiverFacts
  <2>2. w = [k \in DOMAIN Slots[t] |-> Read(<<"local", locals[Receiver].index + k - 1>>)]
    BY <2>1, LocalContents
  <2>3. Block(ReceiverData, w) \subseteq G /\ ReceiverOf(localsNow) = w
    BY <1>1 DEF ReceiverBlock, ReceiverOf
  <2> HIDE DEF w, t
  <2>4. w = [k \in DOMAIN Slots[t] |-> w[k]]
    BY <2>2
  <2> QED BY <1>1, <2>1, <2>3, <2>4, BlockBecomes DEF ReceiverBecomes
<1>2. CASE ~function.writesBack
  BY <1>2 DEF ReceiverBecomes, ReceiverOf
<1> QED BY <1>1, <1>2

(* At the end of the body only the receiver moves.                         *)
LEMMA EndPlan ==
  ASSUME Settles, MayEndWithoutReturn(function)
  PROVE  \E G :
           /\ Planned(G, WriteBack)
           /\ LocalsEnd(G, locals, localsNow) /\ GlobalsEnd(G, globals, globalsNow)
           /\ ResultBecomes(G, <<>>) /\ ReceiverBecomes(G, ReceiverOf(localsNow))
<1> DEFINE G == ReceiverBlock
<1>1. \A d \in declared(locals, globals) : \A g \in G : Apart(d[1], g[1])
  <2> TAKE d \in declared(locals, globals)
  <2> TAKE g \in G
  <2>1. d[1][1] \in {"local", "global"} /\ g[1][1] = "memory"
    BY DeclaredPlaces, ReceiverPlaces
  <2> QED BY <2>1, KindsApart
<1>2. Distinct(G)
  BY ReceiverPlaces
<1>3. Sound(G, <<>> \o WriteBack) /\ Sequence(<<>> \o WriteBack) /\ Covers({} \cup G, <<>> \o WriteBack)
  BY <1>1, NoInstructions, SoundWriteBack, CoversWriteBack
<1>4. <<>> \o WriteBack = WriteBack
  BY WriteBackAlone
<1>5. {} \cup G = G
  OBVIOUS
<1>6. ResultBecomes(G, <<>>)
  <2>1. Slots[function.returns] = <<>>
    BY DEF MayEndWithoutReturn
  <2>2. ~ViaMemory(function.returns) /\ Result.type = function.returns
    BY <2>1 DEF ViaMemory, Result, StackData
  <2> QED BY <2>1, <2>2, NothingBecomes DEF ResultBecomes
<1>7. ReceiverBecomes(G, ReceiverOf(localsNow))
  BY ReceiverKept
<1>8. LocalsEnd(G, locals, localsNow) /\ GlobalsEnd(G, globals, globalsNow)
  BY <1>1, AllKept
<1> HIDE DEF G
<1> QED BY <1>2, <1>3, <1>4, <1>5, <1>6, <1>7, <1>8 DEF Planned

-----------------------------------------------------------------------------
(* A statement that is on no slot behind a member of a global.             *)
Calm(s) ==
  \A path \in PathsOf(s) : Behind(path) => Slots[SourceType(locals, globals, s.from)] = <<>>

(* Its value can be read.                                                  *)
LEMMA CalmSource ==
  ASSUME NEW s \in Statements, WellTyped(function, locals, globals, s), Calm(s)
  PROVE  LET t == SourceType(locals, globals, s.from) IN
         /\ s.from \in Sources /\ t \in Types /\ Yields(s.from, t)
         /\ s.from.of = "path" /\ Behind(s.from.path) => Slots[t] = <<>>
<1>1. s.from \in Sources
  BY DEF Statements
<1>2. Yields(s.from, SourceType(locals, globals, s.from))
  BY DEF WellTyped, Yields
<1>3. s.from.of = "path" => s.from.path \in PathsOf(s)
  BY DEF PathsOf
<1> QED BY <1>1, <1>2, <1>3 DEF Calm, Yields

(* The blocks of a source: the object a constructor makes, and the target. *)
LEMMA BlocksFacts ==
  ASSUME Settles, MembersOfOneSlot, NEW source \in Sources, NEW t, Yields(source, t),
         source.of = "path" /\ Behind(source.path) => Slots[t] = <<>>,
         NEW u, u.type = t
  PROVE  /\ \A g \in Blocks(source, u) :
              \/ g \in Block(u, ValueNow(source))
              \/ g \in Block(MemoryData(0, t), ValueNow(source)) /\ g[1][1] = "memory"
         /\ \A G : Blocks(source, u) \subseteq G => Becomes(G, u, ValueNow(source))
<1>1. t \in Types
  BY DEF Yields
<1>2. \A g \in Block(MemoryData(0, t), ValueNow(source)) : g[1][1] = "memory"
  BY <1>1, MemoryBlock
<1>3. ValueNow(source) = [k \in DOMAIN Slots[t] |-> ValueNow(source)[k]]
  BY SourceReads
<1>4. \A G : Blocks(source, u) \subseteq G => Becomes(G, u, ValueNow(source))
  BY <1>3, BlockBecomes DEF Blocks
<1> QED BY <1>2, <1>4 DEF Blocks

(* An object is returned at 0, the receiver behind it.                     *)
ReturnMemory(s) == CallBefore(s.from) \o Brings(s.from, MemoryData(0, function.returns)) \o WriteBack
ReturnResult(s) == WriteBack \o CallBefore(s.from) \o Brings(s.from, Result)
ReturnPlanned(s, c) ==
  \E G :
    /\ Planned(G, c)
    /\ LocalsEnd(G, locals, localsNow) /\ GlobalsEnd(G, globals, globalsNow)
    /\ ResultBecomes(G, ValueNow(s.from)) /\ ReceiverBecomes(G, ReceiverOf(localsNow))

(* The value goes to memory at 0, and the write-back behind it does not    *)
(* disturb it.                                                             *)
LEMMA ReturnMemoryPlan ==
  ASSUME Settles, MembersOfOneSlot, NEW s \in Statements, s.do = "return",
         WellTyped(function, locals, globals, s), Calm(s), Len(Slots[function.returns]) # 1
  PROVE  ReturnPlanned(s, ReturnMemory(s))
<1> DEFINE t == function.returns
           source == s.from
           w == ValueNow(source)
           u == MemoryData(0, t)
           B == Blocks(source, u)
           G == B \cup ReceiverBlock
<1>1. /\ source \in Sources /\ t \in Types /\ Yields(source, t) /\ t = SourceType(locals, globals, source)
      /\ source.of = "path" /\ Behind(source.path) => Slots[t] = <<>>
  <2>1. SourceType(locals, globals, s.from) = t
    BY DEF WellTyped
  <2> QED BY <2>1, CalmSource
<1>2. u.type = t
  BY DEF MemoryData
<1> HIDE DEF t, source
<1>3. B = Block(u, w)
  BY <1>2 DEF Blocks
<1>4. /\ Distinct(B)
      /\ \A g \in B : /\ g[1][1] = "memory" /\ g[1][2] \in Nat /\ Bytes[g[1][3]] \in Nat
                      /\ g[1][2] + Bytes[g[1][3]] <= 0 + getSize(Slots[t])
      /\ getSize(Slots[t]) \in Nat
  <2> HIDE DEF B
  <2>1. 0 \in Nat
    OBVIOUS
  <2> QED BY <1>1, <1>3, <2>1, MemoryBlock
<1> HIDE DEF u, B, w
<1>5. \A g \in ReceiverBlock : g[1][1] = "memory" /\ g[1][2] \in Nat /\ getSize(Slots[t]) <= g[1][2]
  BY ReceiverPlaces DEF t
<1>6. Distinct(G)
  <2>1. ASSUME NEW g \in B, NEW h \in ReceiverBlock
        PROVE  Apart(g[1], h[1])
    <3> DEFINE p == g[1]
               q == h[1]
               a == p[2]
               b == Bytes[p[3]]
               e == q[2]
               z == getSize(Slots[t])
    <3>1. a \in Nat /\ b \in Nat /\ e \in Nat /\ z \in Nat /\ a + b <= 0 + z /\ z <= e
      BY <1>4, <1>5
    <3>2. b >= 1
      <4>1. PICK k \in DOMAIN Slots[t] : p = Place(u, Slots[t], k)
        BY <1>2, <1>3, BlockPlaces
      <4>2. p \in MemoryPlaces
        BY <1>1, <4>1, MemorySlot DEF u
      <4> QED BY <4>2, BytesOfPlace
    <3> HIDE DEF a, b, e, z
    <3>3. a + b <= e /\ a # e
      BY <3>1, <3>2
    <3>4. p # q
      BY <3>3 DEF a, e
    <3>5. Apart(p, q)
      BY <3>3, <3>4 DEF Apart, a, b, e
    <3> QED BY <3>5
  <2> QED BY <1>4, <2>1, DistinctUnion, ReceiverPlaces
<1>7. \A g \in G : g[1][1] = "memory"
  BY <1>4, <1>5
<1>8. \A d \in declared(locals, globals) : \A g \in G : Apart(d[1], g[1])
  <2> TAKE d \in declared(locals, globals)
  <2> TAKE g \in G
  <2>1. d[1][1] \in {"local", "global"} /\ g[1][1] = "memory"
    BY <1>7, DeclaredPlaces
  <2> QED BY <2>1, KindsApart
<1>9. B \subseteq G /\ ReceiverBlock \subseteq G
  OBVIOUS
<1> DEFINE c == (<<>> \o CallBefore(source)) \o Brings(source, u)
<1>10. Sound(G, c) /\ Sequence(c)
  <2>1. \A k \in DOMAIN Slots[t] :
           LET from == Place(Compile(source), Slots[t], k) IN
           <<from, Slots[t][k]>> \in declared(locals, globals) =>
             <<from, ValueNow(source)[k]>> \in G \/ \A g \in G : Apart(from, g[1])
    <3> TAKE k \in DOMAIN Slots[t]
    <3> DEFINE from == Place(Compile(source), Slots[t], k)
               b == Slots[t][k]
    <3>1. ASSUME <<from, b>> \in declared(locals, globals)
          PROVE  \A g \in G : Apart(from, g[1])
      <4> HIDE DEF from, b, G
      <4>1. \A g \in G : Apart(<<from, b>>[1], g[1])
        BY <1>8, <3>1
      <4> QED BY <4>1
    <3> HIDE DEF from, b, G
    <3> QED BY <3>1 DEF from, b
  <2>2. \A g \in G : g[1][1] \notin {"default", "literal"}
    BY <1>7
  <2>3. Blocks(source, u) \subseteq G
    BY DEF B
  <2> HIDE DEF G
  <2> QED BY <1>1, <1>2, <2>1, <2>2, <2>3, NoInstructions, SoundSource
<1>11. Covers({} \cup B, c)
  BY <1>1, <1>2, NoInstructions, CoversSource DEF B
<1>12. {} \cup B = B
  OBVIOUS
<1> HIDE DEF c
<1>13. Covers(B \cup ReceiverBlock, c \o WriteBack)
  BY <1>10, <1>11, <1>12, CoversWriteBack
<1>14. Sound(G, c \o WriteBack)
  <2> HIDE DEF G
  <2> QED BY <1>8, <1>9, <1>10, SoundWriteBack
<1>15. <<>> \o CallBefore(source) = CallBefore(source)
  BY <1>1, CallBeforeAlone
<1>16. ReturnMemory(s) = c \o WriteBack
  BY <1>15 DEF ReturnMemory, c, source, u, t
<1>17. ResultBecomes(G, w)
  <2>1. Becomes(G, u, w)
    <3> HIDE DEF G
    <3> QED BY <1>1, <1>2, <1>9, BlocksFacts DEF B, w
  <2>2. CASE ViaMemory(t)
    BY <2>1, <2>2 DEF ResultBecomes, t, u
  <2>3. CASE ~ViaMemory(t)
    <3>1. Slots[t] = <<>>
      <4>1. Len(Slots[t]) \in Nat /\ Slots[t] \in Seq(Basis)
        BY <1>1, SlotsType
      <4>2. Len(Slots[t]) # 1 /\ ~(Len(Slots[t]) > 1)
        BY <2>3 DEF ViaMemory, t
      <4>3. Len(Slots[t]) = 0
        <5> DEFINE n == Len(Slots[t])
        <5>1. n \in Nat /\ n # 1 /\ ~(n > 1)
          BY <4>1, <4>2
        <5> HIDE DEF n
        <5>2. n = 0
          BY <5>1
        <5> QED BY <5>2 DEF n
      <4> QED BY <4>1, <4>3, EmptySeq
    <3>2. w = [k \in DOMAIN Slots[t] |-> w[k]]
      BY <1>2, <2>1 DEF Becomes
    <3>3. Result.type = t
      BY DEF Result, StackData, t
    <3>4. Becomes(G, Result, w)
      BY <3>1, <3>2, <3>3 DEF Becomes
    <3> QED BY <2>3, <3>4 DEF ResultBecomes, t
  <2> QED BY <2>2, <2>3
<1>18. ReceiverBecomes(G, ReceiverOf(localsNow))
  BY <1>9, ReceiverKept
<1>19. LocalsEnd(G, locals, localsNow) /\ GlobalsEnd(G, globals, globalsNow)
  BY <1>8, AllKept
<1>20. Covers(G, c \o WriteBack)
  BY <1>13
<1> HIDE DEF G
<1> QED BY <1>6, <1>14, <1>16, <1>17, <1>18, <1>19, <1>20 DEF Planned, ReturnPlanned, w, source

(* A single value is returned after the receiver is stored.                *)
LEMMA ReturnResultPlan ==
  ASSUME Settles, MembersOfOneSlot, NEW s \in Statements, s.do = "return",
         WellTyped(function, locals, globals, s), Calm(s), Len(Slots[function.returns]) = 1
  PROVE  ReturnPlanned(s, ReturnResult(s))
<1> DEFINE t == function.returns
           source == s.from
           w == ValueNow(source)
           u == Result
           B == Blocks(source, u)
           G == ReceiverBlock \cup B
<1>1. /\ source \in Sources /\ t \in Types /\ Yields(source, t)
      /\ source.of = "path" /\ Behind(source.path) => Slots[t] = <<>>
  <2>1. SourceType(locals, globals, s.from) = t
    BY DEF WellTyped
  <2> QED BY <2>1, CalmSource
<1>2. u.type = t /\ DOMAIN Slots[t] = {1} /\ Place(u, Slots[t], 1) = <<"result">>
  BY <1>1, ResultSlot
<1>3. ~ViaMemory(t)
  BY DEF ViaMemory
<1>4. ~Via(source)
  BY <1>1, <1>3 DEF Via, Yields, SourceType
<1> HIDE DEF t, source, u
<1>5. B = Block(u, w)
  BY <1>4 DEF Blocks
<1> HIDE DEF B, w
<1>6. \A g \in B : g[1] = <<"result">> /\ g[1][1] = "result"
  <2> TAKE g \in B
  <2>1. g[1] = <<"result">>
    BY <1>2, <1>5, BlockPlaces
  <2> QED BY <2>1
<1>7. Distinct(B)
  <2>1. Separate(u)
    BY <1>2 DEF Separate
  <2> QED BY <1>5, <2>1, DistinctBlock
<1>8. \A g \in ReceiverBlock : g[1][1] = "memory"
  BY ReceiverPlaces
<1>9. Distinct(G)
  <2>1. ASSUME NEW g \in ReceiverBlock, NEW h \in B
        PROVE  Apart(g[1], h[1])
    BY <1>6, <1>8, KindsApart
  <2> QED BY <1>7, <2>1, DistinctUnion, ReceiverPlaces
<1>10. \A g \in G : g[1][1] \in {"memory", "result"}
  BY <1>6, <1>8
<1>11. \A d \in declared(locals, globals) : \A g \in G : Apart(d[1], g[1])
  <2> TAKE d \in declared(locals, globals)
  <2> TAKE g \in G
  <2>1. d[1][1] \in {"local", "global"} /\ g[1][1] \in {"memory", "result"}
    BY <1>10, DeclaredPlaces
  <2> QED BY <2>1, KindsApart
<1>12. B \subseteq G /\ ReceiverBlock \subseteq G
  OBVIOUS
<1>13. Sound(G, WriteBack) /\ Sequence(WriteBack) /\ Covers(ReceiverBlock, WriteBack)
  <2>1. {} \cup ReceiverBlock = ReceiverBlock
    OBVIOUS
  <2>2. Covers(ReceiverBlock, WriteBack)
    BY <2>1, NoInstructions, CoversWriteBack, WriteBackAlone
  <2> HIDE DEF G
  <2> QED BY <1>11, <1>12, <2>2, NoInstructions, SoundWriteBack, WriteBackAlone
<1> DEFINE c == (WriteBack \o CallBefore(source)) \o Brings(source, u)
<1>14. Sound(G, c)
  <2>1. \A k \in DOMAIN Slots[t] :
           LET from == Place(Compile(source), Slots[t], k) IN
           <<from, Slots[t][k]>> \in declared(locals, globals) =>
             <<from, ValueNow(source)[k]>> \in G \/ \A g \in G : Apart(from, g[1])
    <3> TAKE k \in DOMAIN Slots[t]
    <3> DEFINE from == Place(Compile(source), Slots[t], k)
               b == Slots[t][k]
    <3>1. ASSUME <<from, b>> \in declared(locals, globals)
          PROVE  \A g \in G : Apart(from, g[1])
      <4> HIDE DEF from, b, G
      <4>1. \A g \in G : Apart(<<from, b>>[1], g[1])
        BY <1>11, <3>1
      <4> QED BY <4>1
    <3> HIDE DEF from, b, G
    <3> QED BY <3>1 DEF from, b
  <2>2. \A g \in G : g[1][1] \notin {"default", "literal"}
    BY <1>10
  <2>3. Blocks(source, u) \subseteq G
    BY DEF B
  <2> HIDE DEF G
  <2> QED BY <1>1, <1>2, <1>13, <2>1, <2>2, <2>3, SoundSource
<1>15. Covers(G, c)
  BY <1>1, <1>2, <1>13, CoversSource DEF B
<1> HIDE DEF c
<1>16. ReturnResult(s) = c
  BY DEF ReturnResult, c, source, u
<1>17. ResultBecomes(G, w)
  <2>1. Becomes(G, u, w)
    <3> HIDE DEF G
    <3> QED BY <1>1, <1>2, <1>12, BlocksFacts DEF B, w
  <2> QED BY <1>3, <2>1 DEF ResultBecomes, t, u
<1>18. ReceiverBecomes(G, ReceiverOf(localsNow))
  BY <1>12, ReceiverKept
<1>19. LocalsEnd(G, locals, localsNow) /\ GlobalsEnd(G, globals, globalsNow)
  BY <1>11, AllKept
<1> HIDE DEF G
<1> QED BY <1>9, <1>14, <1>15, <1>16, <1>17, <1>18, <1>19 DEF Planned, ReturnPlanned, w, source

-----------------------------------------------------------------------------
(* A declaration: the slots of the new variable are apart from all others. *)
Lets(s, u) == CallBefore(s.from) \o Brings(s.from, u)

(* The others stay as they are.                                            *)
LEMMA LetPlan ==
  ASSUME Settles, MembersOfOneSlot, NEW s \in Statements, s.do = "let",
         WellTyped(function, locals, globals, s), Calm(s),
         NEW u, u.type = SourceType(locals, globals, s.from), Separate(u),
         \A k \in DOMAIN Slots[u.type] :
           /\ Place(u, Slots[u.type], k)[1] \in {"local", "global"}
           /\ \A d \in declared(locals, globals) : Apart(d[1], Place(u, Slots[u.type], k))
  PROVE  \E G :
           /\ Planned(G, Lets(s, u))
           /\ LocalsEnd(G, locals, localsNow) /\ GlobalsEnd(G, globals, globalsNow)
           /\ Becomes(G, u, ValueNow(s.from))
<1> DEFINE t == u.type
           source == s.from
           w == ValueNow(source)
           G == Blocks(source, u)
           c == (<<>> \o CallBefore(source)) \o Brings(source, u)
<1>1. /\ source \in Sources /\ t \in Types /\ Yields(source, t)
      /\ source.of = "path" /\ Behind(source.path) => Slots[t] = <<>>
  BY CalmSource
<1> HIDE DEF source, w
<1>2. /\ Distinct(Block(u, w)) /\ Distinct(Block(MemoryData(0, t), w))
      /\ \A g \in Block(MemoryData(0, t), w) : g[1][1] = "memory"
  <2>1. 0 \in Nat
    OBVIOUS
  <2> QED BY <1>1, <2>1, DistinctBlock, MemoryBlock
<1>3. \A g \in Block(u, w) :
        g[1][1] \in {"local", "global"} /\ \A d \in declared(locals, globals) : Apart(d[1], g[1])
  BY BlockPlaces
<1>4. Distinct(G)
  <2>1. CASE Via(source)
    <3>1. \A g \in Block(MemoryData(0, t), w) : \A h \in Block(u, w) : Apart(g[1], h[1])
      BY <1>2, <1>3, KindsApart
    <3>2. G = Block(MemoryData(0, t), w) \cup Block(u, w)
      BY <2>1 DEF Blocks, w
    <3> QED BY <1>2, <3>1, <3>2, DistinctUnion
  <2>2. CASE ~Via(source)
    BY <1>2, <2>2 DEF Blocks, w
  <2> QED BY <2>1, <2>2
<1>5. \A g \in G : g \in Block(u, w) \/ g[1][1] = "memory"
  BY <1>1, BlocksFacts DEF w
<1>6. \A d \in declared(locals, globals) : \A g \in G : Apart(d[1], g[1])
  <2> TAKE d \in declared(locals, globals)
  <2> TAKE g \in G
  <2>1. CASE g \in Block(u, w)
    BY <1>3, <2>1
  <2>2. CASE g[1][1] = "memory"
    <3>1. d[1][1] \in {"local", "global"}
      BY DeclaredPlaces
    <3> QED BY <2>2, <3>1, KindsApart
  <2> QED BY <1>5, <2>1, <2>2
<1>7. Sound(G, c)
  <2>1. \A k \in DOMAIN Slots[t] :
           LET from == Place(Compile(source), Slots[t], k) IN
           <<from, Slots[t][k]>> \in declared(locals, globals) =>
             <<from, ValueNow(source)[k]>> \in G \/ \A g \in G : Apart(from, g[1])
    <3> TAKE k \in DOMAIN Slots[t]
    <3> DEFINE from == Place(Compile(source), Slots[t], k)
               b == Slots[t][k]
    <3>1. ASSUME <<from, b>> \in declared(locals, globals)
          PROVE  \A g \in G : Apart(from, g[1])
      <4> HIDE DEF from, b, G
      <4>1. \A g \in G : Apart(<<from, b>>[1], g[1])
        BY <1>6, <3>1
      <4> QED BY <4>1
    <3> HIDE DEF from, b, G
    <3> QED BY <3>1 DEF from, b
  <2>2. \A g \in G : g[1][1] \notin {"default", "literal"}
    BY <1>3, <1>5
  <2>3. Blocks(source, u) \subseteq G
    OBVIOUS
  <2> HIDE DEF G
  <2> QED BY <1>1, <2>1, <2>2, <2>3, NoInstructions, SoundSource
<1>8. Covers(G, c)
  <2>1. Covers({} \cup G, c)
    BY <1>1, NoInstructions, CoversSource
  <2>2. {} \cup G = G
    OBVIOUS
  <2> HIDE DEF G
  <2> QED BY <2>1, <2>2
<1>9. Lets(s, u) = c
  <2>1. <<>> \o CallBefore(source) = CallBefore(source)
    BY <1>1, CallBeforeAlone
  <2> QED BY <2>1 DEF Lets, source
<1>10. Becomes(G, u, w)
  BY <1>1, BlocksFacts DEF w
<1>11. LocalsEnd(G, locals, localsNow) /\ GlobalsEnd(G, globals, globalsNow)
  BY <1>6, AllKept
<1> HIDE DEF G, c
<1> QED BY <1>4, <1>7, <1>8, <1>9, <1>10, <1>11 DEF Planned, w, source

-----------------------------------------------------------------------------
(* An assignment: the slots of the target are those of the source or apart *)
(* from them.                                                              *)

(* Two values of a type in locals are the same or apart.                   *)
LEMMA LocalPathsOverlap ==
  ASSUME Settles, NEW p, NEW q, NEW t \in Types, NEW i, NEW j, NEW E \in Nat, NEW F \in Nat,
         OfLocal(p, i, t, E), OfLocal(q, j, t, F)
  PROVE  LET L == Slots[t] IN
         \/ \A k \in DOMAIN L : Place(Resolve(p), L, k) = Place(Resolve(q), L, k)
         \/ \A k, m \in DOMAIN L : Apart(Place(Resolve(p), L, k), Place(Resolve(q), L, m))
<1> DEFINE L == Slots[t]
           n == Len(L)
           a == locals[i].index
           b == locals[j].index
           A == Len(Slots[locals[i].type])
           B == Len(Slots[locals[j].type])
<1>1. /\ i \in DOMAIN locals /\ j \in DOMAIN locals
      /\ Resolve(p) = Local(a + E - 1, t) /\ Resolve(q) = Local(b + F - 1, t)
      /\ Inside(locals[i].type, t, E) /\ Inside(locals[j].type, t, F)
  BY DEF OfLocal
<1>2. /\ a \in Nat /\ b \in Nat /\ A \in Nat /\ B \in Nat /\ n \in Nat /\ DOMAIN L = 1..n
      /\ i \in Nat /\ j \in Nat
  BY <1>1, StateFacts, SlotsType DEF Settles
<1>3. /\ E >= 1 /\ E - 1 + n <= A /\ (n <= 1 \/ E - 1 + n = A)
      /\ F >= 1 /\ F - 1 + n <= B /\ (n <= 1 \/ F - 1 + n = B)
  BY <1>1 DEF Inside
<1>4. /\ i < j => a + A <= b
      /\ j < i => b + B <= a
  BY <1>1 DEF Settles, LocalsDisjoint
<1>5. \A k : /\ Place(Resolve(p), L, k) = <<"local", (a + E - 1) + k - 1>>
             /\ Place(Resolve(q), L, k) = <<"local", (b + F - 1) + k - 1>>
  BY <1>1, LocalSlot
<1>6. i = j => a = b /\ A = B
  OBVIOUS
<1> DEFINE P(k) == (a + E - 1) + k - 1
           Q(k) == (b + F - 1) + k - 1
<1>7. (\A k \in 1..n : P(k) = Q(k)) \/ (\A k, m \in 1..n : P(k) # Q(m))
  <2> HIDE DEF a, b, A, B, n
  <2>1. CASE i = j /\ E = F
    BY <1>6, <2>1
  <2>2. CASE i = j /\ E # F
    <3>1. n <= 1
      BY <1>2, <1>3, <1>6, <2>2
    <3> QED BY <1>2, <1>6, <2>2, <3>1
  <2>3. CASE i < j
    BY <1>2, <1>3, <1>4, <2>3
  <2>4. CASE j < i
    BY <1>2, <1>3, <1>4, <2>4
  <2> QED BY <1>2, <2>1, <2>2, <2>3, <2>4
<1> DEFINE pp(k) == Place(Resolve(p), L, k)
           qq(k) == Place(Resolve(q), L, k)
<1>8. \A k : pp(k) = <<"local", P(k)>> /\ qq(k) = <<"local", Q(k)>>
  BY <1>5
<1> HIDE DEF P, Q, n
<1>9. CASE \A k \in 1..n : P(k) = Q(k)
  BY <1>2, <1>8, <1>9
<1>10. CASE \A k, m \in 1..n : P(k) # Q(m)
  <2>1. ASSUME NEW k \in 1..n, NEW m \in 1..n
        PROVE  Apart(pp(k), qq(m))
    <3>1. P(k) # Q(m)
      BY <1>10
    <3>2. pp(k) = <<"local", P(k)>> /\ qq(m) = <<"local", Q(m)>>
      BY <1>8
    <3> HIDE DEF pp, qq
    <3> QED BY <3>1, <3>2 DEF Apart
  <2> QED BY <1>2, <2>1
<1> QED BY <1>7, <1>9, <1>10

(* And so are any two, globals or locals.                                  *)
LEMMA PathsOverlap ==
  ASSUME Settles, MembersOfOneSlot, NEW p \in Paths, NEW q \in Paths, NEW t, Typed(p, t), Typed(q, t),
         Behind(p) => Slots[t] = <<>>, Behind(q) => Slots[t] = <<>>
  PROVE  LET L == Slots[t] IN
         \/ \A k \in DOMAIN L : Place(Resolve(p), L, k) = Place(Resolve(q), L, k)
         \/ \A k, m \in DOMAIN L : Apart(Place(Resolve(p), L, k), Place(Resolve(q), L, m))
<1> DEFINE L == Slots[t]
           pp(k) == Place(Resolve(p), L, k)
           qq(k) == Place(Resolve(q), L, k)
<1>1. t \in Types
  BY ResolvedPath DEF Settles, Typed
<1>2. PICK i, E \in Nat : OfLocal(p, i, t, E) \/ OfGlobal(p, i, t, E)
  BY ResolvedPath DEF Settles, Typed
<1>3. PICK j, F \in Nat : OfLocal(q, j, t, F) \/ OfGlobal(q, j, t, F)
  BY ResolvedPath DEF Settles, Typed
<1>4. ASSUME L # <<>>, NEW r \in Paths, NEW h \in Nat, NEW H \in Nat, OfGlobal(r, h, t, H),
             Behind(r) => Slots[t] = <<>>
      PROVE  /\ h \in DOMAIN globals
             /\ \A k : Place(Resolve(r), L, k)
                         = IF Len(L) = 1 THEN <<"global", globals[h].name>>
                           ELSE <<"global", globals[h].name, k - 1>>
             /\ \A k : LET x == Place(Resolve(r), L, k) IN x[1] = "global" /\ x[2] = globals[h].name
  <2>1. h \in DOMAIN globals /\ Resolve(r) = Global(globals[h].name, t)
    BY <1>4 DEF OfGlobal, Behind
  <2>2. \A k : Place(Resolve(r), L, k)
                 = IF Len(L) = 1 THEN <<"global", globals[h].name>>
                   ELSE <<"global", globals[h].name, k - 1>>
    BY <2>1, GlobalSlot
  <2>3. ASSUME NEW k
        PROVE  LET x == Place(Resolve(r), L, k) IN x[1] = "global" /\ x[2] = globals[h].name
    <3> DEFINE x == Place(Resolve(r), L, k)
    <3>1. CASE Len(L) = 1
      <4>1. x = <<"global", globals[h].name>>
        BY <2>2, <3>1
      <4> QED BY <4>1
    <3>2. CASE Len(L) # 1
      <4>1. x = <<"global", globals[h].name, k - 1>>
        BY <2>2, <3>2
      <4> QED BY <4>1
    <3> QED BY <3>1, <3>2
  <2> QED BY <2>1, <2>2, <2>3
<1>5. CASE L = <<>>
  BY <1>5
<1>6. CASE L # <<>> /\ OfLocal(p, i, t, E) /\ OfLocal(q, j, t, F)
  BY <1>1, <1>2, <1>3, <1>6, LocalPathsOverlap
<1>7. CASE L # <<>> /\ OfGlobal(p, i, t, E) /\ OfGlobal(q, j, t, F)
  <2>1. i \in DOMAIN globals /\ j \in DOMAIN globals
    BY <1>2, <1>3, <1>4, <1>7
  <2>2. \A k : /\ pp(k) = IF Len(L) = 1 THEN <<"global", globals[i].name>>
                          ELSE <<"global", globals[i].name, k - 1>>
               /\ qq(k) = IF Len(L) = 1 THEN <<"global", globals[j].name>>
                          ELSE <<"global", globals[j].name, k - 1>>
    BY <1>2, <1>3, <1>4, <1>7
  <2>3. CASE i = j
    BY <2>2, <2>3
  <2>4. CASE i # j
    <3>1. globals[i].name # globals[j].name
      BY <2>1, <2>4 DEF Settles, Shape, GlobalsDiffer
    <3>2. ASSUME NEW k, NEW m
          PROVE  Apart(pp(k), qq(m))
      <4>1. /\ pp(k)[1] = "global" /\ qq(m)[1] = "global"
            /\ pp(k)[2] = globals[i].name /\ qq(m)[2] = globals[j].name
        BY <1>2, <1>3, <1>4, <1>7
      <4> HIDE DEF pp, qq
      <4> QED BY <3>1, <4>1 DEF Apart
    <3> QED BY <3>2
  <2> QED BY <2>3, <2>4
<1>8. CASE L # <<>> /\ OfLocal(p, i, t, E) /\ OfGlobal(q, j, t, F)
  <2>1. ASSUME NEW k \in DOMAIN L, NEW m \in DOMAIN L
        PROVE  Apart(pp(k), qq(m))
    <3>1. pp(k)[1] = "local"
      BY <1>8, LocalSlot DEF OfLocal
    <3>2. qq(m)[1] = "global"
      BY <1>3, <1>4, <1>8
    <3> QED BY <3>1, <3>2, KindsApart
  <2> QED BY <2>1
<1>9. CASE L # <<>> /\ OfGlobal(p, i, t, E) /\ OfLocal(q, j, t, F)
  <2>1. ASSUME NEW k \in DOMAIN L, NEW m \in DOMAIN L
        PROVE  Apart(pp(k), qq(m))
    <3>1. qq(m)[1] = "local"
      BY <1>9, LocalSlot DEF OfLocal
    <3>2. pp(k)[1] = "global"
      BY <1>2, <1>4, <1>9
    <3> QED BY <3>1, <3>2, KindsApart
  <2> QED BY <2>1
<1> QED BY <1>2, <1>3, <1>5, <1>6, <1>7, <1>8, <1>9

(* What Variables puts into a variable.                                    *)
PutValue(value, F, n, w) ==
  [k \in DOMAIN value |-> IF k \in F..(F + n - 1) THEN w[k - F + 1] ELSE value[k]]

Records(vs) ==
  vs = [j \in DOMAIN vs |-> [name |-> vs[j].name, type |-> vs[j].type, value |-> vs[j].value]]
FillsSlots(w, t) == w = [k \in DOMAIN Slots[t] |-> w[k]]
HasPut(ws, vs, i, F, n, w) ==
  /\ ws = [j \in DOMAIN vs |-> [name |-> vs[j].name, type |-> vs[j].type, value |-> ws[j].value]]
  /\ \A j \in DOMAIN vs : j # i => ws[j].value = vs[j].value
  /\ ws[i].value = PutValue(vs[i].value, F, n, w)

(* PutNamed changes the slots of the one variable from F on.               *)
LEMMA PutNamedFacts ==
  ASSUME NEW vs, NEW path, NEW i, NEW t \in Types, NEW F, NEW w, Records(vs),
         i = First(vs, Head(path)), i \in DOMAIN vs,
         Abstract!PartOf(vs[i].type, path) = [type |-> t, from |-> F], FillsSlots(w, t)
  PROVE  HasPut(Abstract!PutNamed(vs, path, w), vs, i, F, Len(Slots[t]), w)
<1> DEFINE ws == Abstract!PutNamed(vs, path, w)
           v == vs[i]
           x == PutValue(v.value, F, Len(Slots[t]), w)
<1>1. Len(w) = Len(Slots[t])
  <2>1. Slots[t] \in Seq(Basis) /\ Len(Slots[t]) \in Nat /\ DOMAIN Slots[t] = 1..Len(Slots[t])
    BY SlotsType
  <2> DEFINE n == Len(Slots[t])
  <2> HIDE DEF n
  <2>2. w = [k \in 1..n |-> w[k]] /\ n \in Nat
    BY <2>1 DEF n, FillsSlots
  <2>3. DOMAIN w = 1..n /\ w \in [1..n -> {w[k] : k \in 1..n}]
    BY <2>2
  <2>4. w \in Seq({w[k] : k \in 1..n})
    BY <2>2, <2>3, SeqDef
  <2>5. Len(w) = n
    BY <2>2, <2>3, <2>4, LenProperties
  <2> QED BY <2>5 DEF n
<1>2. ws = [vs EXCEPT ![i] = Abstract!Put(vs[i], path, w)]
  BY SameNames DEF Abstract!PutNamed
<1>3. Abstract!Put(v, path, w) = [v EXCEPT !.value = x]
  <2> DEFINE part == Abstract!PartOf(v.type, path)
  <2>1. part.from = F
    OBVIOUS
  <2>2. Abstract!Put(v, path, w) = [v EXCEPT !.value = [k \in DOMAIN v.value |->
         IF k \in part.from..(part.from + Len(w) - 1)
           THEN w[k - part.from + 1] ELSE v.value[k]]]
    BY DEF Abstract!Put
  <2> HIDE DEF part, v
  <2> QED BY <1>1, <2>1, <2>2 DEF PutValue
<1> HIDE DEF x
<1>4. v = [name |-> v.name, type |-> v.type, value |-> v.value]
  BY DEF Records
<1> HIDE DEF v
<1>5. [v EXCEPT !.value = x] = [name |-> v.name, type |-> v.type, value |-> x]
  BY <1>4
<1>6. ws = [vs EXCEPT ![i] = [name |-> v.name, type |-> v.type, value |-> x]]
  BY <1>2, <1>3, <1>5 DEF v
<1> HIDE DEF ws
<1>7. /\ DOMAIN ws = DOMAIN vs /\ ws = [j \in DOMAIN vs |-> ws[j]]
      /\ ws[i] = [name |-> v.name, type |-> v.type, value |-> x]
      /\ \A j \in DOMAIN vs : j # i => ws[j] = vs[j]
  BY <1>6
<1>8. \A j \in DOMAIN vs : ws[j] = [name |-> vs[j].name, type |-> vs[j].type, value |-> ws[j].value]
  <2> TAKE j \in DOMAIN vs
  <2>1. CASE j = i
    BY <1>7, <2>1 DEF v
  <2>2. CASE j # i
    <3>1. vs[j] = [name |-> vs[j].name, type |-> vs[j].type, value |-> vs[j].value]
      BY DEF Records
    <3> QED BY <1>7, <2>2, <3>1
  <2> QED BY <2>1, <2>2
<1>9. ws[i].value = x
  BY <1>7
<1>10. ws = [j \in DOMAIN vs |-> [name |-> vs[j].name, type |-> vs[j].type, value |-> ws[j].value]]
  BY <1>7, <1>8
<1> QED BY <1>7, <1>9, <1>10 DEF ws, x, v, HasPut

(* The target of an assignment.                                            *)
LEMMA TargetFacts ==
  ASSUME Settles, MembersOfOneSlot, NEW to \in Paths, NEW t, Typed(to, t), Behind(to) => Slots[t] = <<>>
  PROVE  LET u == Resolve(to) IN
         /\ t \in Types /\ u.type = t /\ Separate(u)
         /\ \A k \in DOMAIN Slots[t] :
              /\ Place(u, Slots[t], k)[1] \in {"local", "global"}
              /\ InStore(Place(u, Slots[t], k))
              /\ <<Place(u, Slots[t], k), Slots[t][k]>> \in declared(locals, globals)
<1> DEFINE u == Resolve(to)
           L == Slots[t]
<1>1. t \in Types
  BY ResolvedPath DEF Settles, Typed
<1>2. /\ u.type = t
      /\ \A k \in DOMAIN L : InStore(Place(u, L, k)) /\ <<Place(u, L, k), L[k]>> \in declared(locals, globals)
      /\ \A k \in DOMAIN L : Place(u, L, k)[1] \in {"local", "global"}
  BY PathReads
<1>3. PICK i, F \in Nat : OfLocal(to, i, t, F) \/ OfGlobal(to, i, t, F)
  BY ResolvedPath DEF Settles, Typed
<1>4. Separate(u)
  <2>1. CASE OfLocal(to, i, t, F)
    <3>1. i \in DOMAIN locals /\ u = Local(locals[i].index + F - 1, t) /\ F >= 1
      BY <2>1 DEF OfLocal, Inside
    <3>2. locals[i].index \in Nat /\ F \in Nat
      BY <1>3, <3>1, StateFacts DEF Settles
    <3>3. locals[i].index + F - 1 \in Nat
      BY <3>1, <3>2
    <3> QED BY <1>1, <3>1, <3>3, SeparateLocal
  <2>2. CASE OfGlobal(to, i, t, F)
    <3>1. \E x : u = Global(x, t)
      BY <2>2 DEF OfGlobal
    <3> QED BY <1>1, <3>1, SeparateGlobal
  <2> QED BY <1>3, <2>1, <2>2
<1> HIDE DEF u, L
<1>5. \A k \in DOMAIN L :
              /\ Place(u, L, k)[1] \in {"local", "global"}
              /\ InStore(Place(u, L, k))
              /\ <<Place(u, L, k), L[k]>> \in declared(locals, globals)
  BY <1>2
<1> QED BY <1>1, <1>2, <1>4, <1>5 DEF u, L

(* What is assigned is not disturbed before it is read.                    *)
LEMMA AssignReads ==
  ASSUME Settles, MembersOfOneSlot, NEW source \in Sources, NEW t, Yields(source, t),
         source.of = "path" /\ Behind(source.path) => Slots[t] = <<>>,
         NEW to \in Paths, Typed(to, t), Behind(to) => Slots[t] = <<>>,
         NEW k \in DOMAIN Slots[t],
         <<Place(Compile(source), Slots[t], k), Slots[t][k]>> \in declared(locals, globals)
  PROVE  LET from == Place(Compile(source), Slots[t], k) IN
         \/ from = Place(Resolve(to), Slots[t], k)
         \/ \A m \in DOMAIN Slots[t] : Apart(from, Place(Resolve(to), Slots[t], m))
<1> DEFINE L == Slots[t]
           from == Place(Compile(source), L, k)
<1>0. t \in Types
  BY DEF Yields
<1>1. CASE source.of = "path"
  <2>1. source.path \in Paths /\ Compile(source) = Resolve(source.path)
    BY <1>1 DEF Sources, Compile
  <2>2. Typed(source.path, t)
    BY <1>1 DEF Yields, SourceType, Typed
  <2>3. Behind(source.path) => Slots[t] = <<>>
    BY <1>1
  <2> DEFINE p == source.path
  <2> HIDE DEF p
  <2>4. \/ \A h \in DOMAIN L : Place(Resolve(p), L, h) = Place(Resolve(to), L, h)
        \/ \A h, m \in DOMAIN L : Apart(Place(Resolve(p), L, h), Place(Resolve(to), L, m))
    BY <2>1, <2>2, <2>3, PathsOverlap DEF p
  <2> QED BY <2>1, <2>4 DEF p
<1>2. CASE source.of # "path"
  <2>1. from[1] \in {"local", "global"}
    <3> DEFINE b == L[k]
    <3> HIDE DEF from, b
    <3>1. <<from, b>>[1][1] \in {"local", "global"}
      BY DeclaredPlaces DEF from, b
    <3> QED BY <3>1
  <2>2. CASE source.of = "new"
    <3>1. source.type = t
      BY <2>2 DEF SourceType, Yields
    <3>2. CASE ViaMemory(t)
      <4>1. Compile(source) = MemoryData(0, t) /\ 0 \in Nat
        BY <2>2, <3>1, <3>2 DEF Compile
      <4>2. Place(MemoryData(0, t), L, k) \in MemoryPlaces
        BY <1>0, <4>1, MemorySlot
      <4>3. from[1] = "memory"
        BY <4>1, <4>2 DEF MemoryPlaces
      <4> QED BY <2>1, <4>3
    <3>3. CASE ~ViaMemory(t)
      <4>1. Compile(source) = Defaults(t)
        BY <2>2, <3>1, <3>3 DEF Compile
      <4>2. from[1] = "default"
        BY <1>0, <4>1, DefaultSlot
      <4> QED BY <2>1, <4>2
    <3> QED BY <3>2, <3>3
  <2>3. CASE source.of = "literal"
    <3>1. source.type = t /\ t \in Basis /\ Compile(source) = StackData(<< <<"literal", t>> >>, t)
      BY <2>3 DEF SourceType, Sources, Yields, Compile
    <3>2. L = <<t>> /\ Place(StackData(<< <<"literal", t>> >>, t), L, 1) = <<"literal", t>>
      BY <3>1, LiteralSlot
    <3>3. k = 1
      BY <3>2
    <3>4. from[1] = "literal"
      BY <3>1, <3>2, <3>3
    <3> QED BY <2>1, <3>4
  <2> QED BY <1>2, <2>2, <2>3 DEF Sources
<1> QED BY <1>1, <1>2

AssignBlocks(s) == Blocks(s.from, Resolve(s.to))
Assigns(s) == CallBefore(s.from) \o Brings(s.from, Resolve(s.to))

(* An assignment is between values of a type.                              *)
LEMMA AssignFacts ==
  ASSUME NEW s \in Statements, s.do = "assign", WellTyped(function, locals, globals, s), Calm(s)
  PROVE  LET t == SourceType(locals, globals, s.from) IN
         s.to \in Paths /\ Typed(s.to, t) /\ (Behind(s.to) => Slots[t] = <<>>)
<1>1. s.to \in Paths
  BY DEF Statements
<1>2. s.to \in PathsOf(s)
  BY DEF PathsOf
<1>3. Typed(s.to, SourceType(locals, globals, s.from))
  BY DEF WellTyped, Typed
<1> QED BY <1>1, <1>2, <1>3 DEF Calm

(* The instructions of an assignment.                                      *)
LEMMA AssignMoves ==
  ASSUME Settles, MembersOfOneSlot, NEW s \in Statements, s.do = "assign",
         WellTyped(function, locals, globals, s), Calm(s)
  PROVE  Planned(AssignBlocks(s), Assigns(s))
<1> DEFINE t == SourceType(locals, globals, s.from)
           to == s.to
           u == Resolve(to)
           source == s.from
           w == ValueNow(source)
           G == Blocks(source, u)
           c == (<<>> \o CallBefore(source)) \o Brings(source, u)
<1>1. /\ source \in Sources /\ t \in Types /\ Yields(source, t)
      /\ source.of = "path" /\ Behind(source.path) => Slots[t] = <<>>
  BY CalmSource
<1>2. to \in Paths /\ Typed(to, t) /\ (Behind(to) => Slots[t] = <<>>)
  BY AssignFacts
<1> HIDE DEF t, source, to
<1>3. /\ u.type = t /\ Separate(u)
      /\ \A k \in DOMAIN Slots[t] : Place(u, Slots[t], k)[1] \in {"local", "global"}
  BY <1>2, TargetFacts
<1> HIDE DEF w, u
<1>4. /\ Distinct(Block(u, w)) /\ Distinct(Block(MemoryData(0, t), w))
      /\ \A g \in Block(MemoryData(0, t), w) : g[1][1] = "memory"
  <2>1. 0 \in Nat
    OBVIOUS
  <2> QED BY <1>1, <1>3, <2>1, DistinctBlock, MemoryBlock
<1>5. \A g \in Block(u, w) : \E k \in DOMAIN Slots[t] :
        g[1] = Place(u, Slots[t], k) /\ g[1][1] \in {"local", "global"}
  BY <1>3, BlockPlaces
<1>6. Distinct(G)
  <2>1. CASE Via(source)
    <3>1. \A g \in Block(MemoryData(0, t), w) : \A h \in Block(u, w) : Apart(g[1], h[1])
      BY <1>4, <1>5, KindsApart
    <3>2. G = Block(MemoryData(0, t), w) \cup Block(u, w)
      BY <1>3, <2>1 DEF Blocks, w
    <3> QED BY <1>4, <3>1, <3>2, DistinctUnion
  <2>2. CASE ~Via(source)
    BY <1>4, <2>2 DEF Blocks, w
  <2> QED BY <2>1, <2>2
<1>7. \A g \in G : g \in Block(u, w) \/ g[1][1] = "memory"
  BY <1>1, <1>3, BlocksFacts DEF w
<1>8. Sound(G, c)
  <2>1. \A k \in DOMAIN Slots[t] :
           LET from == Place(Compile(source), Slots[t], k) IN
           <<from, Slots[t][k]>> \in declared(locals, globals) =>
             <<from, ValueNow(source)[k]>> \in G \/ \A g \in G : Apart(from, g[1])
    <3> TAKE k \in DOMAIN Slots[t]
    <3> DEFINE from == Place(Compile(source), Slots[t], k)
               b == Slots[t][k]
    <3>1. ASSUME <<from, b>> \in declared(locals, globals)
          PROVE  <<from, w[k]>> \in G \/ \A g \in G : Apart(from, g[1])
      <4>1. \/ from = Place(u, Slots[t], k)
            \/ \A m \in DOMAIN Slots[t] : Apart(from, Place(u, Slots[t], m))
        BY <1>1, <1>2, <3>1, AssignReads DEF u
      <4>2. from[1] \in {"local", "global"}
        <5> HIDE DEF from, b
        <5>1. <<from, b>>[1][1] \in {"local", "global"}
          BY <3>1, DeclaredPlaces
        <5> QED BY <5>1
      <4>3. <<Place(u, Slots[t], k), w[k]>> \in G
        BY <1>3 DEF Blocks, Block, w
      <4> HIDE DEF from, G
      <4>4. CASE from = Place(u, Slots[t], k)
        BY <4>3, <4>4
      <4>5. CASE \A m \in DOMAIN Slots[t] : Apart(from, Place(u, Slots[t], m))
        <5>1. ASSUME NEW g \in G
              PROVE  Apart(from, g[1])
          <6>1. CASE g \in Block(u, w)
            BY <1>5, <4>5, <6>1
          <6>2. CASE g[1][1] = "memory"
            BY <4>2, <6>2, KindsApart
          <6> QED BY <1>7, <6>1, <6>2
        <5> QED BY <5>1
      <4> QED BY <4>1, <4>4, <4>5
    <3> HIDE DEF from, b, G
    <3> QED BY <3>1 DEF from, b, w
  <2>2. \A g \in G : g[1][1] \notin {"default", "literal"}
    BY <1>5, <1>7
  <2>3. Blocks(source, u) \subseteq G
    OBVIOUS
  <2> HIDE DEF G
  <2> QED BY <1>1, <1>3, <2>1, <2>2, <2>3, NoInstructions, SoundSource
<1>9. Covers(G, c)
  <2>1. Covers({} \cup G, c)
    BY <1>1, <1>3, NoInstructions, CoversSource
  <2>2. {} \cup G = G
    OBVIOUS
  <2> HIDE DEF G
  <2> QED BY <2>1, <2>2
<1>10. Assigns(s) = c
  <2>1. <<>> \o CallBefore(source) = CallBefore(source)
    BY <1>1, CallBeforeAlone
  <2> QED BY <2>1 DEF Assigns, source, u, to
<1>11. AssignBlocks(s) = G
  BY DEF AssignBlocks, source, u, to
<1> HIDE DEF G, c
<1> QED BY <1>6, <1>8, <1>9, <1>10, <1>11 DEF Planned

(* They write the slots of the target, and memory.                         *)
LEMMA AssignPlaces ==
  ASSUME Settles, MembersOfOneSlot, NEW s \in Statements, s.do = "assign",
         WellTyped(function, locals, globals, s), Calm(s)
  PROVE  LET t == SourceType(locals, globals, s.from)
             u == Resolve(s.to)
             w == ValueNow(s.from)
         IN  /\ t \in Types /\ u.type = t /\ w = [k \in DOMAIN Slots[t] |-> w[k]]
             /\ \A k \in DOMAIN Slots[t] : <<Place(u, Slots[t], k), w[k]>> \in AssignBlocks(s)
             /\ \A g \in AssignBlocks(s) :
                  \/ g[1][1] = "memory"
                  \/ \E k \in DOMAIN Slots[t] : g[1] = Place(u, Slots[t], k)
<1> DEFINE t == SourceType(locals, globals, s.from)
           to == s.to
           u == Resolve(to)
           source == s.from
           w == ValueNow(source)
           G == Blocks(source, u)
<1>1. /\ source \in Sources /\ t \in Types /\ Yields(source, t)
      /\ source.of = "path" /\ Behind(source.path) => Slots[t] = <<>>
  BY CalmSource
<1>2. to \in Paths /\ Typed(to, t) /\ (Behind(to) => Slots[t] = <<>>)
  BY AssignFacts
<1> HIDE DEF t, source, to
<1>3. u.type = t
  BY <1>2, TargetFacts
<1> HIDE DEF w, u
<1>4. w = [k \in DOMAIN Slots[t] |-> w[k]]
  BY <1>1, SourceReads DEF w
<1>5. \A g \in G : g \in Block(u, w) \/ g[1][1] = "memory"
  BY <1>1, <1>3, BlocksFacts DEF w
<1>6. \A g \in Block(u, w) : \E k \in DOMAIN Slots[t] : g[1] = Place(u, Slots[t], k)
  BY <1>3, BlockPlaces
<1>7. \A k \in DOMAIN Slots[t] : <<Place(u, Slots[t], k), w[k]>> \in G
  BY <1>3 DEF Blocks, Block, w
<1>8. AssignBlocks(s) = G
  BY DEF AssignBlocks, source, u, to
<1> HIDE DEF G
<1> QED BY <1>1, <1>3, <1>4, <1>5, <1>6, <1>7, <1>8 DEF t, u, w, source, to

(* An assignment to a local or to a member of one.                         *)
LEMMA AssignLocal ==
  ASSUME Settles, MembersOfOneSlot, NEW s \in Statements, s.do = "assign",
         WellTyped(function, locals, globals, s), Calm(s),
         NEW i \in Nat, NEW F \in Nat, OfLocal(s.to, i, SourceType(locals, globals, s.from), F)
  PROVE  /\ LocalsEnd(AssignBlocks(s), locals, Abstract!PutNamed(localsNow, s.to, ValueNow(s.from)))
         /\ GlobalsEnd(AssignBlocks(s), globals, globalsNow)
<1> DEFINE t == SourceType(locals, globals, s.from)
           u == Resolve(s.to)
           w == ValueNow(s.from)
           G == AssignBlocks(s)
           ls == localsNow
           ws == Abstract!PutNamed(ls, s.to, w)
           n == Len(Slots[t])
           a == locals[i].index
           T == locals[i].type
           A == Len(Slots[T])
<1>1. /\ t \in Types /\ u.type = t /\ w = [k \in DOMAIN Slots[t] |-> w[k]]
      /\ \A k \in DOMAIN Slots[t] : <<Place(u, Slots[t], k), w[k]>> \in G
      /\ \A g \in G : g[1][1] = "memory" \/ \E k \in DOMAIN Slots[t] : g[1] = Place(u, Slots[t], k)
  BY AssignPlaces
<1> HIDE DEF t, w, G
<1>2. /\ i = First(locals, Head(s.to)) /\ i \in DOMAIN locals
      /\ Inside(T, t, F) /\ Abstract!PartOf(T, s.to) = [type |-> t, from |-> F]
      /\ u = Local(a + F - 1, t)
  BY DEF OfLocal, t
<1>3. /\ a \in Nat /\ A \in Nat /\ n \in Nat /\ DOMAIN Slots[t] = 1..n /\ DOMAIN Slots[T] = 1..A
      /\ T \in Types
  BY <1>1, <1>2, StateFacts, SlotsType DEF Settles
<1>4. F >= 1 /\ F - 1 + n <= A
  BY <1>2 DEF Inside
<1>5. \A k : Place(u, Slots[t], k) = <<"local", (a + F - 1) + k - 1>>
  BY <1>2, LocalSlot
<1>6. /\ ls[i].type = T /\ ls[i].value = [k \in DOMAIN Slots[T] |-> Read(<<"local", a + k - 1>>)]
      /\ DOMAIN ls = DOMAIN locals
      /\ First(ls, Head(s.to)) = i
  <2>1. DOMAIN ls = DOMAIN locals
    BY NowFacts DEF Settles, SameVariables, SameShape
  <2>2. First(ls, Head(s.to)) = i
    BY <1>2, SameNow DEF Settles
  <2> QED BY <1>2, <2>1, <2>2, LocalContents
<1>7. ls = [j \in DOMAIN ls |-> [name |-> ls[j].name, type |-> ls[j].type, value |-> ls[j].value]]
  <2>1. ls = [j \in DOMAIN locals |->
                [name |-> locals[j].name, type |-> locals[j].type, value |-> ls[j].value]]
    BY NowForm DEF Settles
  <2> HIDE DEF ls
  <2> QED BY <2>1
<1> HIDE DEF u, ls
<1>8. /\ ws = [j \in DOMAIN ls |-> [name |-> ls[j].name, type |-> ls[j].type, value |-> ws[j].value]]
      /\ \A j \in DOMAIN ls : j # i => ws[j].value = ls[j].value
      /\ ws[i].value = PutValue(ls[i].value, F, n, w)
  <2>1. i = First(ls, Head(s.to)) /\ i \in DOMAIN ls
    BY <1>2, <1>6
  <2>2. Abstract!PartOf(ls[i].type, s.to) = [type |-> t, from |-> F]
    BY <1>2, <1>6
  <2>3. t \in Types /\ FillsSlots(w, t) /\ Records(ls)
    BY <1>1, <1>7 DEF FillsSlots, Records
  <2>4. HasPut(ws, ls, i, F, n, w)
    BY <2>1, <2>2, <2>3, PutNamedFacts
  <2> QED BY <2>4 DEF HasPut
<1> HIDE DEF ws
<1>9. \A j \in DOMAIN locals : ls[j].name = locals[j].name /\ ls[j].type = locals[j].type
  BY LocalContents DEF ls
<1>10. ws = [j \in DOMAIN locals |->
               [name |-> locals[j].name, type |-> locals[j].type, value |-> ws[j].value]]
  BY <1>6, <1>8, <1>9
<1>11. ASSUME NEW j \in DOMAIN locals, j # i
       PROVE  Becomes(G, Local(locals[j].index, locals[j].type), ws[j].value)
  <2> DEFINE b == locals[j].index
             B == Len(Slots[locals[j].type])
  <2>1. b \in Nat /\ B \in Nat /\ j \in Nat /\ DOMAIN Slots[locals[j].type] = 1..B
    BY StateFacts, SlotsType DEF Settles
  <2>2. (i < j => a + A <= b) /\ (j < i => b + B <= a)
    BY <1>2 DEF Settles, LocalsDisjoint
  <2>3. ASSUME NEW k \in DOMAIN Slots[locals[j].type], NEW g \in G
        PROVE  Apart(<<"local", b + k - 1>>, g[1])
    <3>1. CASE g[1][1] = "memory"
      BY <3>1, KindsApart
    <3>2. CASE \E m \in DOMAIN Slots[t] : g[1] = Place(u, Slots[t], m)
      <4>1. PICK m \in 1..n : g[1] = <<"local", (a + F - 1) + m - 1>>
        BY <1>3, <1>5, <3>2
      <4>2. b + k - 1 # (a + F - 1) + m - 1
        <5> k \in 1..B
          BY <2>1
        <5> HIDE DEF a, A, b, B, n
        <5> QED BY <1>3, <1>4, <1>11, <2>1, <2>2
      <4> HIDE DEF b
      <4> QED BY <4>1, <4>2 DEF Apart
    <3> QED BY <1>1, <3>1, <3>2
  <2>4. ws[j].value = localsNow[j].value
    BY <1>6, <1>8, <1>11 DEF ls
  <2> QED BY <2>3, <2>4, LocalKept
<1>12. Becomes(G, Local(a, T), ws[i].value)
  <2> DEFINE v == Local(a, T)
             value == ls[i].value
             x == ws[i].value
  <2>1. v.type = T /\ \A k : Place(v, Slots[T], k) = <<"local", a + k - 1>>
    BY LocalSlot
  <2>2. x = [k \in 1..A |-> IF k \in F..(F + n - 1) THEN w[k - F + 1] ELSE value[k]]
    BY <1>3, <1>6, <1>8 DEF PutValue
  <2> HIDE DEF v, x, value
  <2>3. x = [k \in DOMAIN Slots[T] |-> x[k]]
    BY <1>3, <2>2
  <2>4. ASSUME NEW k \in 1..A
        PROVE  Finally(G, <<"local", a + k - 1>>, x[k])
    <3>1. CASE k \in F..(F + n - 1)
      <4> DEFINE m == k - F + 1
      <4>1. m \in 1..n /\ (a + F - 1) + m - 1 = a + k - 1
        BY <1>3, <1>4, <3>1
      <4>2. x[k] = w[m]
        BY <2>2, <3>1
      <4> HIDE DEF m
      <4>3. <<Place(u, Slots[t], m), w[m]>> \in G
        BY <1>1, <1>3, <4>1
      <4>4. Place(u, Slots[t], m) = <<"local", a + k - 1>>
        BY <1>5, <4>1
      <4> QED BY <4>2, <4>3, <4>4 DEF Finally
    <3>2. CASE k \notin F..(F + n - 1)
      <4> DEFINE p == <<"local", a + k - 1>>
      <4>1. x[k] = Read(p)
        BY <1>3, <1>6, <2>2, <3>2 DEF value
      <4>2. InStore(p)
        BY <1>2, <1>3, LocalInStore
      <4>3. ASSUME NEW g \in G
            PROVE  Apart(p, g[1])
        <5>1. CASE g[1][1] = "memory"
          BY <5>1, KindsApart
        <5>2. CASE \E m \in DOMAIN Slots[t] : g[1] = Place(u, Slots[t], m)
          <6>1. PICK m \in 1..n : g[1] = <<"local", (a + F - 1) + m - 1>>
            BY <1>3, <1>5, <5>2
          <6>2. a + k - 1 # (a + F - 1) + m - 1
            <7> HIDE DEF a, A, n
            <7> QED BY <1>3, <1>4, <3>2
          <6> HIDE DEF a
          <6> QED BY <6>1, <6>2 DEF Apart
        <5> QED BY <1>1, <5>1, <5>2
      <4> HIDE DEF p
      <4>4. Finally(G, p, x[k])
        BY <4>1, <4>2, <4>3 DEF Finally, Untouched, Legible, Target
      <4> QED BY <4>4 DEF p
    <3> QED BY <3>1, <3>2
  <2>5. \A k \in DOMAIN Slots[T] : Finally(G, Place(v, Slots[T], k), x[k])
    BY <1>3, <2>1, <2>4
  <2>6. Becomes(G, v, x)
    BY <2>1, <2>3, <2>5 DEF Becomes
  <2> QED BY <2>6 DEF v, x
<1>13. LocalsEnd(G, locals, ws)
  <2>1. \A j \in DOMAIN locals : Becomes(G, Local(locals[j].index, locals[j].type), ws[j].value)
    BY <1>11, <1>12
  <2> QED BY <1>10, <2>1 DEF LocalsEnd
<1>14. GlobalsEnd(G, globals, globalsNow)
  <2>1. ASSUME NEW j \in DOMAIN globals
        PROVE  Becomes(G, Global(globals[j].name, globals[j].type), globalsNow[j].value)
    <3>1. ASSUME NEW k \in DOMAIN Slots[globals[j].type], NEW g \in G
          PROVE  Apart(Place(Global(globals[j].name, globals[j].type), Slots[globals[j].type], k), g[1])
      <4> DEFINE p == Place(Global(globals[j].name, globals[j].type), Slots[globals[j].type], k)
      <4>1. p[1] = "global"
        BY GlobalInStore
      <4>2. g[1][1] \in {"memory", "local"}
        BY <1>1, <1>5
      <4> HIDE DEF p
      <4>3. Apart(p, g[1])
        BY <4>1, <4>2, KindsApart
      <4> QED BY <4>3 DEF p
    <3> QED BY <3>1, GlobalKept
  <2> QED BY <2>1, NowForm DEF GlobalsEnd, Settles
<1> QED BY <1>13, <1>14 DEF ws, G, w, ls

(* An assignment to a global.                                              *)
LEMMA AssignGlobal ==
  ASSUME Settles, MembersOfOneSlot, NEW s \in Statements, s.do = "assign",
         WellTyped(function, locals, globals, s), Calm(s),
         NEW i \in Nat, NEW F \in Nat, OfGlobal(s.to, i, SourceType(locals, globals, s.from), F)
  PROVE  /\ LocalsEnd(AssignBlocks(s), locals, localsNow)
         /\ GlobalsEnd(AssignBlocks(s), globals, Abstract!PutNamed(globalsNow, s.to, ValueNow(s.from)))
<1> DEFINE t == SourceType(locals, globals, s.from)
           u == Resolve(s.to)
           w == ValueNow(s.from)
           G == AssignBlocks(s)
           gs == globalsNow
           ws == Abstract!PutNamed(gs, s.to, w)
           n == Len(Slots[t])
           T == globals[i].type
           x == globals[i].name
<1>1. /\ t \in Types /\ u.type = t /\ w = [k \in DOMAIN Slots[t] |-> w[k]]
      /\ \A k \in DOMAIN Slots[t] : <<Place(u, Slots[t], k), w[k]>> \in G
      /\ \A g \in G : g[1][1] = "memory" \/ \E k \in DOMAIN Slots[t] : g[1] = Place(u, Slots[t], k)
  BY AssignPlaces
<1>2. Behind(s.to) => Slots[t] = <<>>
  BY AssignFacts
<1> HIDE DEF t, w, G
<1>3. /\ i = First(globals, Head(s.to)) /\ i \in DOMAIN globals
      /\ Abstract!PartOf(T, s.to) = [type |-> t, from |-> F]
      /\ \E y : u = Global(y, t)
      /\ Slots[t] # <<>> => F = 1 /\ t = T /\ u = Global(x, t)
  BY <1>2 DEF OfGlobal, t, Behind
<1>4. /\ n \in Nat /\ DOMAIN Slots[t] = 1..n /\ Slots[t] \in Seq(Basis)
  BY <1>1, SlotsType
<1>5. /\ DOMAIN gs = DOMAIN globals
      /\ \A j \in DOMAIN globals : gs[j].name = globals[j].name /\ gs[j].type = globals[j].type
      /\ First(gs, Head(s.to)) = i
  <2>1. DOMAIN gs = DOMAIN globals
    BY NowFacts DEF Settles, SameVariables, SameShape
  <2>2. First(gs, Head(s.to)) = i
    BY <1>3, SameNow DEF Settles
  <2> QED BY <2>1, <2>2, GlobalContents
<1>6. gs[i].value = [k \in DOMAIN Slots[T] |-> gs[i].value[k]]
  <2> DEFINE value == gs[i].value
             v == Global(x, T)
  <2>1. value = [k \in DOMAIN Slots[T] |-> Read(Place(v, Slots[T], k))]
    BY <1>3, GlobalContents
  <2> HIDE DEF value, v
  <2>2. value = [k \in DOMAIN Slots[T] |-> value[k]]
    BY <2>1
  <2> QED BY <2>2 DEF value
<1>7. Records(gs)
  <2>1. gs = [j \in DOMAIN globals |->
                [name |-> globals[j].name, type |-> globals[j].type, value |-> gs[j].value]]
    BY NowForm DEF Settles
  <2> HIDE DEF gs
  <2> QED BY <2>1 DEF Records
<1> HIDE DEF u, gs
<1>8. HasPut(ws, gs, i, F, n, w)
  <2>1. i = First(gs, Head(s.to)) /\ i \in DOMAIN gs
    BY <1>3, <1>5
  <2>2. Abstract!PartOf(gs[i].type, s.to) = [type |-> t, from |-> F]
    BY <1>3, <1>5
  <2>3. t \in Types /\ FillsSlots(w, t)
    BY <1>1 DEF FillsSlots
  <2> QED BY <1>7, <2>1, <2>2, <2>3, PutNamedFacts
<1> HIDE DEF ws
<1>9. ws = [j \in DOMAIN globals |->
              [name |-> globals[j].name, type |-> globals[j].type, value |-> ws[j].value]]
  BY <1>5, <1>8 DEF HasPut
<1>10. LocalsEnd(G, locals, localsNow)
  <2>1. ASSUME NEW j \in DOMAIN locals
        PROVE  Becomes(G, Local(locals[j].index, locals[j].type), localsNow[j].value)
    <3>1. ASSUME NEW k \in DOMAIN Slots[locals[j].type], NEW g \in G
          PROVE  Apart(<<"local", locals[j].index + k - 1>>, g[1])
      <4>1. g[1][1] \in {"memory", "global"}
        <5>1. ASSUME NEW m \in DOMAIN Slots[t], g[1] = Place(u, Slots[t], m)
              PROVE  g[1][1] = "global"
          <6>1. PICK y : u = Global(y, t)
            BY <1>3
          <6> QED BY <5>1, <6>1, GlobalSlot
        <5> QED BY <1>1, <5>1
      <4> DEFINE p == <<"local", locals[j].index + k - 1>>
      <4>2. p[1] = "local"
        OBVIOUS
      <4> HIDE DEF p
      <4>3. Apart(p, g[1])
        BY <4>1, <4>2, KindsApart
      <4> QED BY <4>3 DEF p
    <3> QED BY <3>1, LocalKept
  <2> QED BY <2>1, NowForm DEF LocalsEnd, Settles
<1>11. ASSUME NEW j \in DOMAIN globals, j # i \/ Slots[t] = <<>>
       PROVE  Becomes(G, Global(globals[j].name, globals[j].type), ws[j].value)
  <2>1. ASSUME NEW k \in DOMAIN Slots[globals[j].type], NEW g \in G
        PROVE  Apart(Place(Global(globals[j].name, globals[j].type), Slots[globals[j].type], k), g[1])
    <3> DEFINE p == Place(Global(globals[j].name, globals[j].type), Slots[globals[j].type], k)
    <3>1. p[1] = "global" /\ p[2] = globals[j].name
      BY GlobalSlot
    <3> HIDE DEF p
    <3>2. CASE g[1][1] = "memory"
      <4>1. Apart(p, g[1])
        BY <3>1, <3>2, KindsApart
      <4> QED BY <4>1 DEF p
    <3>3. CASE \E m \in DOMAIN Slots[t] : g[1] = Place(u, Slots[t], m)
      <4>1. Slots[t] # <<>> /\ j # i
        BY <1>4, <1>11, <3>3
      <4>2. g[1][2] = x
        BY <1>3, <3>3, <4>1, GlobalSlot
      <4>3. globals[j].name # x
        BY <1>3, <4>1 DEF Settles, Shape, GlobalsDiffer
      <4>4. g[1][1] = "global"
        BY <1>3, <3>3, <4>1, GlobalSlot
      <4> HIDE DEF x
      <4>5. Apart(p, g[1])
        BY <3>1, <4>2, <4>3, <4>4 DEF Apart
      <4> QED BY <4>5 DEF p
    <3> QED BY <1>1, <3>2, <3>3
  <2>2. ws[j].value = gs[j].value
    <3>1. CASE j # i
      BY <1>5, <1>8, <3>1 DEF HasPut
    <3>2. CASE j = i /\ Slots[t] = <<>>
      <4>1. n = 0
        BY <3>2
      <4>2. F \in Nat /\ \A k : k \notin F..(F + n - 1)
        BY <4>1
      <4>3. ws[i].value = PutValue(gs[i].value, F, n, w)
        BY <1>8 DEF HasPut
      <4> DEFINE value == gs[i].value
      <4>4. value = [k \in DOMAIN value |-> value[k]]
        BY <1>6
      <4> HIDE DEF value, n
      <4>5. PutValue(value, F, n, w) = value
        BY <4>2, <4>4 DEF PutValue
      <4> QED BY <3>2, <4>3, <4>5 DEF value
    <3> QED BY <1>11, <3>1, <3>2
  <2>3. ws[j].value = globalsNow[j].value
    BY <2>2 DEF gs
  <2> QED BY <2>1, <2>3, GlobalKept
<1>12. ASSUME Slots[t] # <<>>
       PROVE  Becomes(G, Global(x, T), ws[i].value)
  <2>1. F = 1 /\ t = T /\ u = Global(x, T)
    BY <1>3, <1>12
  <2>2. ws[i].value = w
    <3>1. ws[i].value = PutValue(gs[i].value, 1, n, w)
      BY <1>8, <2>1 DEF HasPut
    <3>2. DOMAIN gs[i].value = 1..n
      BY <1>4, <1>6, <2>1
    <3> DEFINE value == gs[i].value
    <3> HIDE DEF value
    <3>3. PutValue(value, 1, n, w) = [k \in 1..n |-> IF k \in 1..(1 + n - 1) THEN w[k - 1 + 1] ELSE value[k]]
      BY <3>2 DEF PutValue, value
    <3>4. \A k \in 1..n : k \in 1..(1 + n - 1) /\ k - 1 + 1 = k
      BY <1>4
    <3>5. w = [k \in 1..n |-> w[k]]
      BY <1>1, <1>4
    <3>6. PutValue(value, 1, n, w) = [k \in 1..n |-> w[k]]
      BY <3>3, <3>4
    <3> QED BY <3>1, <3>5, <3>6 DEF value
  <2>3. Becomes(G, u, w)
    BY <1>1 DEF Becomes, Finally
  <2> QED BY <2>1, <2>2, <2>3
<1>13. GlobalsEnd(G, globals, ws)
  <2>1. \A j \in DOMAIN globals : Becomes(G, Global(globals[j].name, globals[j].type), ws[j].value)
    BY <1>11, <1>12
  <2> QED BY <1>9, <2>1 DEF GlobalsEnd
<1> QED BY <1>10, <1>13 DEF ws, G, w, gs

(* One of the two.                                                         *)
LEMMA AssignPlan ==
  ASSUME Settles, MembersOfOneSlot, NEW s \in Statements, s.do = "assign",
         WellTyped(function, locals, globals, s), Calm(s)
  PROVE  LET w == ValueNow(s.from)
             global == IsGlobal(locals, globals, Head(s.to))
         IN  \E G :
               /\ Planned(G, Assigns(s))
               /\ LocalsEnd(G, locals, IF global THEN localsNow ELSE Abstract!PutNamed(localsNow, s.to, w))
               /\ GlobalsEnd(G, globals, IF global THEN Abstract!PutNamed(globalsNow, s.to, w) ELSE globalsNow)
<1> DEFINE t == SourceType(locals, globals, s.from)
           w == ValueNow(s.from)
           G == AssignBlocks(s)
           global == IsGlobal(locals, globals, Head(s.to))
           ls == Abstract!PutNamed(localsNow, s.to, w)
           gs == Abstract!PutNamed(globalsNow, s.to, w)
<1>1. Planned(G, Assigns(s))
  BY AssignMoves
<1>2. s.to \in Paths /\ Typed(s.to, t)
  BY AssignFacts
<1> HIDE DEF t
<1>3. PICK i, F \in Nat : OfLocal(s.to, i, t, F) \/ OfGlobal(s.to, i, t, F)
  BY <1>2, ResolvedPath DEF Settles, Typed
<1>4. CASE OfLocal(s.to, i, t, F)
  <2>1. ~global
    BY <1>4 DEF OfLocal, IsGlobal
  <2>2. LocalsEnd(G, locals, ls) /\ GlobalsEnd(G, globals, globalsNow)
    BY <1>3, <1>4, AssignLocal DEF t
  <2> HIDE DEF ls, gs, G, w, global
  <2> QED BY <1>1, <2>1, <2>2 DEF ls, gs, w, global
<1>5. CASE OfGlobal(s.to, i, t, F)
  <2>1. global
    BY <1>5 DEF OfGlobal
  <2>2. LocalsEnd(G, locals, localsNow) /\ GlobalsEnd(G, globals, gs)
    BY <1>3, <1>5, AssignGlobal DEF t
  <2> HIDE DEF ls, gs, G, w, global
  <2> QED BY <1>1, <2>1, <2>2 DEF ls, gs, w, global
<1> QED BY <1>3, <1>4, <1>5

-----------------------------------------------------------------------------
(* What is declared stays declared.                                        *)

(* One sequence more.                                                      *)
LEMMA FlattenAppend ==
  ASSUME NEW S, NEW s \in Seq(Seq(S)), NEW x \in Seq(S)
  PROVE  /\ FlattenSeq(s) \in Seq(S)
         /\ FlattenSeq(Append(s, x)) = FlattenSeq(s) \o x
<1> DEFINE n == Len(s)
           r == Append(s, x)
<1>1. /\ n \in Nat /\ r \in Seq(Seq(S)) /\ Len(r) = n + 1 /\ r # <<>>
      /\ r[n + 1] = x /\ \A k \in 1..n : r[k] = s[k]
  <2>1. n \in Nat /\ r \in Seq(Seq(S)) /\ Len(r) = n + 1
    OBVIOUS
  <2>2. r[n + 1] = x
    OBVIOUS
  <2>3. \A k \in 1..n : r[k] = s[k]
    OBVIOUS
  <2> HIDE DEF r, n
  <2>4. r # <<>>
    <3>1. n + 1 # 0
      BY <2>1
    <3> QED BY <2>1, <3>1
  <2> QED BY <2>1, <2>2, <2>3, <2>4
<1> HIDE DEF r
<1>2. PICK h \in [1..Len(r) -> Seq(S)] : Joined(r, h) /\ FlattenSeq(r) = h[Len(r)]
  BY <1>1, FlattenSteps
<1>3. CASE s = <<>>
  <2>1. n = 0 /\ FlattenSeq(s) = <<>>
    BY <1>3 DEF FlattenSeq
  <2>2. h[1] = x
    BY <1>1, <1>2, <2>1 DEF Joined
  <2>3. <<>> \o x = x /\ <<>> \in Seq(S)
    OBVIOUS
  <2> QED BY <1>1, <1>2, <2>1, <2>2, <2>3 DEF r
<1>4. CASE s # <<>>
  <2>0. n >= 1
    BY <1>4
  <2>1. PICK g \in [1..Len(s) -> Seq(S)] : Joined(s, g) /\ FlattenSeq(s) = g[Len(s)]
    BY <1>4, FlattenSteps
  <2>9. n = Len(s)
    OBVIOUS
  <2> HIDE DEF n
  <2>10. n \in 1..n /\ 1 \in 1..n /\ 1 \in 1..(n + 1) /\ n + 1 \in 1..(n + 1)
    BY <1>1, <2>0
  <2>2. \A k \in 1..n : k \in {m \in 1..n : g[m] = h[m]}
    <3> DEFINE T == {m \in 1..n : g[m] = h[m]}
    <3>1. 1 \in T
      <4>1. g[1] = s[1]
        BY <2>1, <2>9, <2>10 DEF Joined
      <4>2. h[1] = r[1]
        BY <1>1, <1>2, <2>10 DEF Joined
      <4>3. r[1] = s[1]
        BY <1>1, <2>10
      <4> QED BY <2>10, <4>1, <4>2, <4>3
    <3>2. ASSUME NEW k \in 1..n, k \in T, k < n
          PROVE  k + 1 \in T
      <4>1. k + 1 \in 1..n /\ k + 1 \in 1..(n + 1) /\ k + 1 # 1 /\ (k + 1) - 1 = k
        BY <1>1, <3>2
      <4>2. g[k + 1] = g[k] \o s[k + 1]
        BY <2>1, <4>1 DEF Joined, n
      <4>3. h[k + 1] = h[k] \o r[k + 1]
        BY <1>1, <1>2, <4>1 DEF Joined
      <4> QED BY <1>1, <3>2, <4>1, <4>2, <4>3
    <3> HIDE DEF T
    <3>3. 1 \in Nat /\ n \in Nat /\ (1 <= n => 1 \in T)
      BY <1>1, <3>1
    <3>4. \A k \in 1..n : k \in T
      BY <3>2, <3>3, CountingUp
    <3> QED BY <3>4 DEF T
  <2>3. h[n] = g[n]
    BY <1>1, <2>0, <2>2
  <2>4. h[n + 1] = h[n] \o x
    <3>1. n + 1 \in 1..Len(r) /\ n + 1 # 1 /\ (n + 1) - 1 = n
      BY <1>1, <2>0
    <3> QED BY <1>1, <1>2, <3>1 DEF Joined
  <2>5. g[n] \in Seq(S)
    BY <2>1, <2>9, <2>10
  <2> QED BY <1>1, <1>2, <2>1, <2>3, <2>4, <2>5 DEF n, r
<1> QED BY <1>3, <1>4

(* Another local leaves what is declared.                                  *)
LEMMA LocalDeclared ==
  ASSUME TypeOK, NEW new \in LocalVariable
  PROVE  declared(locals, globals) \subseteq declared(Append(locals, new), globals)
<1> DEFINE s == SlotsOf(locals)
           x == Slots[new.type]
           ws == Append(locals, new)
<1>1. /\ locals \in Seq(LocalVariable) /\ s \in Seq(Seq(Basis)) /\ x \in Seq(Basis)
      /\ Len(locals) \in Nat /\ DOMAIN locals = 1..Len(locals)
  BY StateFacts, LocalFacts, SlotsType DEF LocalVariable
<1>2. wasmLocals(locals) = FlattenSeq(s)
  BY DEF wasmLocals, SlotsOf
<1>3. wasmLocals(ws) = FlattenSeq(Append(s, x))
  <2>1. SlotsOf(ws) = Append(s, x)
    <3>1. ws \in Seq(LocalVariable) /\ Len(ws) = Len(locals) + 1 /\ DOMAIN ws = 1..(Len(locals) + 1)
      BY <1>1
    <3>2. ws[Len(locals) + 1] = new /\ \A i \in 1..Len(locals) : ws[i] = locals[i]
      BY <1>1
    <3>3. Len(s) = Len(locals)
      BY <1>1, LocalFacts
    <3> DEFINE m == Len(locals)
    <3>4. Append(s, x) = [i \in 1..(m + 1) |-> IF i = m + 1 THEN x ELSE s[i]]
      BY <1>1, <3>3
    <3>5. \A i \in 1..m : s[i] = Slots[locals[i].type]
      BY <1>1 DEF SlotsOf
    <3> HIDE DEF ws, s, m, x
    <3>6. SlotsOf(ws) = [i \in 1..(m + 1) |-> Slots[ws[i].type]]
      BY <3>1 DEF SlotsOf, m
    <3>7. m \in Nat /\ \A i \in 1..(m + 1) : i = m + 1 \/ i \in 1..m
      BY <1>1 DEF m
    <3>8. \A i \in 1..(m + 1) : Slots[ws[i].type] = IF i = m + 1 THEN x ELSE s[i]
      BY <3>2, <3>5, <3>7 DEF m, x
    <3> QED BY <3>4, <3>6, <3>8
  <2> QED BY <2>1 DEF wasmLocals, SlotsOf
<1> HIDE DEF s, x, ws
<1>4. wasmLocals(locals) \in Seq(Basis) /\ wasmLocals(ws) = wasmLocals(locals) \o x
  BY <1>1, <1>2, <1>3, FlattenAppend
<1>5. \A i \in DOMAIN wasmLocals(locals) :
        i \in DOMAIN wasmLocals(ws) /\ wasmLocals(ws)[i] = wasmLocals(locals)[i]
  BY <1>1, <1>4
<1> QED BY <1>5 DEF declared, ws

(* Another global does too, and is declared itself.                        *)
LEMMA GlobalDeclared ==
  ASSUME TypeOK, NEW new
  PROVE  /\ declared(locals, globals) \subseteq declared(locals, Append(globals, new))
         /\ slots(Global(new.name, new.type)) \subseteq declared(locals, Append(globals, new))
<1> DEFINE gs == Append(globals, new)
           n == Len(globals)
<1>1. /\ n \in Nat /\ DOMAIN globals = 1..n /\ DOMAIN gs = 1..(n + 1) /\ gs[n + 1] = new
      /\ \A i \in 1..n : gs[i] = globals[i]
  BY GlobalFacts DEF TypeOK
<1> HIDE DEF gs, n
<1>2. \A i \in DOMAIN globals : i \in DOMAIN gs /\ gs[i] = globals[i]
  BY <1>1
<1>3. n + 1 \in DOMAIN gs
  BY <1>1
<1> QED BY <1>1, <1>2, <1>3 DEF declared, gs

(* The declared globals have the names of variables.                       *)
LEMMA DeclaredNames ==
  ASSUME NEW vs, NEW gs, \A i \in DOMAIN gs : gs[i].name \in Names, NEW d \in declared(vs, gs)
  PROVE  d[1][1] = "local" \/ (d[1][1] = "global" /\ d[1][2] \in Names)
<1>1. CASE \E i \in DOMAIN wasmLocals(vs) : d = << <<"local", i - 1>>, wasmLocals(vs)[i]>>
  BY <1>1
<1>2. CASE \E i \in DOMAIN gs : d \in slots(Global(gs[i].name, gs[i].type))
  <2>1. PICK i \in DOMAIN gs : d \in slots(Global(gs[i].name, gs[i].type))
    BY <1>2
  <2> DEFINE v == Global(gs[i].name, gs[i].type)
             L == Slots[gs[i].type]
  <2>2. v.type = gs[i].type
    BY GlobalSlot
  <2>3. PICK k \in DOMAIN L : d = <<Place(v, L, k), L[k]>>
    BY <2>1, <2>2 DEF slots
  <2>4. Place(v, L, k)[1] = "global" /\ Place(v, L, k)[2] = gs[i].name
    BY GlobalSlot
  <2> HIDE DEF v, L
  <2> QED BY <2>3, <2>4
<1> QED BY <1>1, <1>2 DEF declared

(* What is declared is a place of an instruction.                          *)
LEMMA DeclaredInPlaces ==
  ASSUME Settles, NEW d \in declared(locals, globals)
  PROVE  d[1] \in Places
<1>1. CASE \E n \in Nat : d[1] = <<"local", n>>
  BY <1>1 DEF Places
<1>2. CASE \E i \in DOMAIN globals : \E k \in DOMAIN Slots[globals[i].type] :
             d[1] = Place(Global(globals[i].name, globals[i].type), Slots[globals[i].type], k)
  <2>1. PICK i \in DOMAIN globals : \E k \in DOMAIN Slots[globals[i].type] :
             d[1] = Place(Global(globals[i].name, globals[i].type), Slots[globals[i].type], k)
    BY <1>2
  <2>2. PICK k \in DOMAIN Slots[globals[i].type] :
             d[1] = Place(Global(globals[i].name, globals[i].type), Slots[globals[i].type], k)
    BY <2>1
  <2>3. globals[i].name \in Names /\ k - 1 \in Nat
    BY <2>1, <2>2, GlobalFacts, SlotsType DEF Settles
  <2>4. d[1] = <<"global", globals[i].name>> \/ d[1] = <<"global", globals[i].name, k - 1>>
    BY <2>2, GlobalSlot
  <2> DEFINE x == globals[i].name
  <2> HIDE DEF x
  <2>5. <<"global", x>> \in Places /\ <<"global", x, k - 1>> \in Places
    BY <2>3 DEF Places, x
  <2> QED BY <2>4, <2>5 DEF x
<1> QED BY <1>1, <1>2, DeclaredPlaces

-----------------------------------------------------------------------------
(* What validates.                                                         *)

ReadsValid(D, v) ==
  \A k \in DOMAIN Slots[v.type] :
    LET p == Place(v, Slots[v.type], k) IN p \in Places /\ Readable(D, p, Slots[v.type][k])
WritesValid(D, v) ==
  \A k \in DOMAIN Slots[v.type] :
    LET p == Place(v, Slots[v.type], k) IN p \in Places /\ Writable(D, p, Slots[v.type][k])

(* Nothing validates.                                                      *)
LEMMA ValidEmpty ==
  ASSUME NEW D
  PROVE  Valid(<<>>, D)
BY DEF Valid

(* Two lists validate together if each does.                               *)
LEMMA ValidConcatenated ==
  ASSUME NEW D, NEW c, NEW d, Sequence(c), Sequence(d)
  PROVE  Valid(c \o d, D) <=> Valid(c, D) /\ Valid(d, D)
<1> DEFINE e == c \o d
           Ok(i) == \E t \in Basis : Readable(D, i.from, t) /\ Writable(D, i.to, t)
<1>1. /\ Sequence(e)
      /\ \A i \in DOMAIN c : i \in DOMAIN e /\ e[i] = c[i]
      /\ Len(c) \in Nat
      /\ \A i \in DOMAIN d : Len(c) + i \in DOMAIN e /\ e[Len(c) + i] = d[i]
      /\ \A i \in DOMAIN e : i \in DOMAIN c \/ (i - Len(c) \in DOMAIN d /\ i > Len(c))
      /\ DOMAIN c = 1..Len(c)
      /\ DOMAIN e \subseteq Nat
  <2> HIDE DEF e
  <2>1. e = c \o d
    BY DEF e
  <2> QED BY <2>1, Concatenated
<1>2. \A q : Sequence(q) => (Valid(q, D) <=> \A i \in DOMAIN q : q[i] \in Instruction /\ Ok(q[i]))
  <2> TAKE q
  <2> HAVE Sequence(q)
  <2>1. q \in Seq(Instruction) <=> \A i \in DOMAIN q : q[i] \in Instruction
    <3> DEFINE S == {q[i] : i \in DOMAIN q}
    <3>1. q \in Seq(S)
      BY DEF Sequence
    <3>2. Len(q) \in Nat /\ DOMAIN q = 1..Len(q) /\ q \in [1..Len(q) -> S]
      BY <3>1, LenProperties
    <3> HIDE DEF S
    <3>3. ASSUME \A i \in DOMAIN q : q[i] \in Instruction
          PROVE  q \in Seq(Instruction)
      <4>1. q \in [1..Len(q) -> Instruction]
        BY <3>2, <3>3
      <4> QED BY <3>2, <4>1, SeqDef
    <3>4. ASSUME q \in Seq(Instruction)
          PROVE  \A i \in DOMAIN q : q[i] \in Instruction
      BY <3>4, ElementType
    <3> QED BY <3>3, <3>4
  <2> QED BY <2>1 DEF Valid
<1> HIDE DEF Ok
<1>3. ASSUME NEW i \in DOMAIN e, Valid(c, D), Valid(d, D)
      PROVE  e[i] \in Instruction /\ Ok(e[i])
  <2>1. CASE i \in DOMAIN c
    BY <1>1, <1>2, <1>3, <2>1
  <2>2. CASE i - Len(c) \in DOMAIN d
    <3>1. Len(c) + (i - Len(c)) = i
      BY <1>1
    <3>2. e[i] = d[i - Len(c)]
      BY <1>1, <2>2, <3>1
    <3> HIDE DEF e
    <3> QED BY <1>2, <1>3, <2>2, <3>2
  <2> QED BY <1>1, <2>1, <2>2
<1>4. ASSUME Valid(e, D)
      PROVE  Valid(c, D) /\ Valid(d, D)
  <2>1. \A i \in DOMAIN e : e[i] \in Instruction /\ Ok(e[i])
    BY <1>1, <1>2, <1>4
  <2>2. \A i \in DOMAIN c : c[i] \in Instruction /\ Ok(c[i])
    BY <1>1, <2>1
  <2>3. \A i \in DOMAIN d : d[i] \in Instruction /\ Ok(d[i])
    <3> TAKE i \in DOMAIN d
    <3>1. Len(c) + i \in DOMAIN e /\ e[Len(c) + i] = d[i]
      BY <1>1
    <3> HIDE DEF e
    <3> QED BY <2>1, <3>1
  <2> QED BY <1>2, <2>2, <2>3
<1> QED BY <1>1, <1>2, <1>3, <1>4

(* A move validates if its places may be read and written.                 *)
LEMMA ValidMove ==
  ASSUME NEW D, NEW v, NEW u, NEW t \in Types, v.type = t, u.type = t,
         ReadsValid(D, v), WritesValid(D, u)
  PROVE  Valid(AssignTo(v, u), D)
<1> DEFINE L == Slots[t]
           c == AssignTo(v, u)
<1>1. /\ Sequence(c) /\ DOMAIN c = DOMAIN L
      /\ c = [k \in DOMAIN L |-> [from |-> Place(v, L, k), to |-> Place(u, L, k)]]
  BY Moves DEF AssignTo
<1>2. L \in Seq(Basis) /\ Len(L) \in Nat /\ DOMAIN L = 1..Len(L)
  BY SlotsType
<1>3. \A k \in DOMAIN L : /\ Place(v, L, k) \in Places /\ Readable(D, Place(v, L, k), L[k])
                          /\ Place(u, L, k) \in Places /\ Writable(D, Place(u, L, k), L[k])
  BY DEF ReadsValid, WritesValid
<1> HIDE DEF c
<1>4. \A k \in DOMAIN L : c[k] \in Instruction /\ c[k].from = Place(v, L, k) /\ c[k].to = Place(u, L, k)
  BY <1>1, <1>3 DEF Instruction
<1>5. c \in Seq(Instruction)
  <2> DEFINE n == Len(L)
  <2>1. c = [k \in 1..n |-> c[k]] /\ \A k \in 1..n : c[k] \in Instruction
    BY <1>1, <1>2, <1>4
  <2> HIDE DEF n
  <2>2. c \in [1..n -> Instruction]
    BY <2>1
  <2> QED BY <1>2, <2>2, SeqDef DEF n
<1>6. \A k \in DOMAIN c : \E b \in Basis : Readable(D, c[k].from, b) /\ Writable(D, c[k].to, b)
  <2> TAKE k \in DOMAIN c
  <2>1. L[k] \in Basis
    BY <1>1, <1>2
  <2> QED BY <1>1, <1>3, <1>4, <2>1
<1> QED BY <1>5, <1>6 DEF Valid, c

(* And does not if one may not.                                            *)
LEMMA InvalidMove ==
  ASSUME NEW D, NEW v, NEW u, NEW t \in Types, v.type = t, u.type = t, NEW k \in DOMAIN Slots[t],
         \A b \in Basis : \/ ~Readable(D, Place(v, Slots[t], k), b)
                          \/ ~Writable(D, Place(u, Slots[t], k), b)
  PROVE  ~Valid(AssignTo(v, u), D)
<1>1. /\ k \in DOMAIN AssignTo(v, u)
      /\ AssignTo(v, u)[k].from = Place(v, Slots[t], k) /\ AssignTo(v, u)[k].to = Place(u, Slots[t], k)
  BY Moves
<1> QED BY <1>1 DEF Valid

(* The resolver gives a variant the type of its path.                      *)
LEMMA PathVariantType ==
  ASSUME Settles, MembersOfOneSlot, NEW path \in Paths, NEW t, Typed(path, t)
  PROVE  Resolve(path).type = t
<1>1. PICK i, F \in Nat : OfLocal(path, i, t, F) \/ OfGlobal(path, i, t, F)
  BY ResolvedPath DEF Settles, Typed
<1>2. (\E a : Resolve(path) = Local(a, t)) \/ (\E x : Resolve(path) = Global(x, t))
  BY <1>1 DEF OfLocal, OfGlobal
<1> QED BY <1>2, LocalSlot, GlobalSlot

(* And a source has the type of its expression.                            *)
LEMMA CompileType ==
  ASSUME Settles, MembersOfOneSlot, NEW source \in Sources, NEW t, Yields(source, t)
  PROVE  t \in Types /\ Compile(source).type = t
<1>0. t \in Types
  BY DEF Yields
<1>1. CASE source.of = "path"
  <2> DEFINE p == source.path
  <2>1. p \in Paths /\ Compile(source) = Resolve(p) /\ Typed(p, t)
    BY <1>1 DEF Sources, Compile, Yields, SourceType, Typed
  <2> HIDE DEF p
  <2>2. Resolve(p).type = t
    BY <2>1, PathVariantType
  <2> QED BY <1>0, <2>1, <2>2
<1>2. CASE source.of = "new"
  <2>1. source.type = t
    BY <1>2 DEF SourceType, Yields
  <2> QED BY <1>0, <1>2, <2>1 DEF Compile, MemoryData, Defaults, StackData
<1>3. CASE source.of = "literal"
  <2>1. source.type = t
    BY <1>3 DEF SourceType, Yields
  <2> QED BY <1>0, <1>3, <2>1 DEF Compile, StackData
<1> QED BY <1>1, <1>2, <1>3 DEF Sources

(* Memory may always be read and written.                                  *)
LEMMA MemoryValid ==
  ASSUME NEW D, NEW p \in Nat, NEW t \in Types
  PROVE  ReadsValid(D, MemoryData(p, t)) /\ WritesValid(D, MemoryData(p, t))
<1> DEFINE v == MemoryData(p, t)
<1>1. v.type = t
  BY DEF MemoryData
<1>2. ASSUME NEW k \in DOMAIN Slots[t]
      PROVE  Place(v, Slots[t], k) \in Places /\ Writable(D, Place(v, Slots[t], k), Slots[t][k])
  <2> DEFINE x == Place(v, Slots[t], k)
             n == p + SizeBefore(Slots[t], k)
             b == Slots[t][k]
  <2>1. x = <<"memory", n, b>> /\ x \in MemoryPlaces
    BY MemorySlot
  <2> HIDE DEF x, n, b
  <2>2. x[1] = "memory" /\ x[3] = b
    BY <2>1
  <2> QED BY <2>1, <2>2 DEF Writable, Places, MemoryPlaces, x, b
<1> HIDE DEF v
<1>3. ReadsValid(D, v) /\ WritesValid(D, v)
  BY <1>1, <1>2 DEF ReadsValid, WritesValid, Readable
<1> QED BY <1>3 DEF v

(* The value of a source may be read.                                      *)
LEMMA SourceValid ==
  ASSUME Settles, MembersOfOneSlot, NEW source \in Sources, NEW t, Yields(source, t),
         source.of = "path" /\ Behind(source.path) => Slots[t] = <<>>,
         NEW D, declared(locals, globals) \subseteq D
  PROVE  ReadsValid(D, Compile(source)) /\ Valid(CallBefore(source), D)
<1> DEFINE v == Compile(source)
           L == Slots[t]
<1>0. t \in Types /\ v.type = t /\ L \in Seq(Basis)
  BY CompileType, SlotsType
<1>1. CASE Via(source)
  <2>1. v = MemoryData(0, t)
    BY <1>1, SourceReads
  <2>2. ReadsValid(D, v) /\ WritesValid(D, MemoryData(0, t))
    BY <1>0, <2>1, MemoryValid
  <2>3. CallBefore(source) = AssignTo(Defaults(t), MemoryData(0, t))
    BY <1>1, NoInstructions, CallBeforeFacts
  <2>4. Defaults(t).type = t /\ MemoryData(0, t).type = t
    BY DEF Defaults, StackData, MemoryData
  <2>5. ReadsValid(D, Defaults(t))
    <3>1. ASSUME NEW k \in DOMAIN L
          PROVE  Place(Defaults(t), L, k) \in Places /\ Readable(D, Place(Defaults(t), L, k), L[k])
      <4>1. Place(Defaults(t), L, k) = <<"default", L[k]>> /\ L[k] \in Basis
        BY <1>0, DefaultSlot
      <4> QED BY <4>1 DEF Places, Readable
    <3> QED BY <2>4, <3>1 DEF ReadsValid
  <2> QED BY <1>0, <2>2, <2>3, <2>4, <2>5, ValidMove
<1>2. CASE ~Via(source)
  <2>1. CallBefore(source) = <<>>
    BY <1>2, NoInstructions, CallBeforeFacts
  <2>2. ASSUME NEW k \in DOMAIN L
        PROVE  Place(v, L, k) \in Places /\ Readable(D, Place(v, L, k), L[k])
    <3> DEFINE p == Place(v, L, k)
               b == L[k]
    <3>1. \/ <<p, b>> \in declared(locals, globals)
          \/ p \in {<<"default", b>>, <<"literal", b>>}
      BY <1>2, SourceReads
    <3>2. b \in Basis
      BY <1>0
    <3> HIDE DEF p, b
    <3>3. CASE <<p, b>> \in declared(locals, globals)
      <4>1. <<p, b>>[1] \in Places
        BY <3>3, DeclaredInPlaces
      <4>2. p \in Places /\ Readable(D, p, b)
        BY <3>3, <4>1 DEF Readable, Writable
      <4> QED BY <4>2 DEF p, b
    <3>4. CASE p \in {<<"default", b>>, <<"literal", b>>}
      <4>1. p \in Places /\ Readable(D, p, b)
        BY <3>2, <3>4 DEF Readable, Places
      <4> QED BY <4>1 DEF p, b
    <3> QED BY <3>1, <3>3, <3>4
  <2> HIDE DEF v
  <2>3. ReadsValid(D, v)
    BY <1>0, <2>2 DEF ReadsValid
  <2> QED BY <2>1, <2>3, ValidEmpty DEF v
<1> QED BY <1>1, <1>2

(* So may the receiver.                                                    *)
LEMMA WriteBackValid ==
  ASSUME Settles, NEW D, declared(locals, globals) \subseteq D
  PROVE  Valid(WriteBack, D)
<1>1. CASE function.writesBack
  <2> DEFINE n == Receiver
             t == ReceiverType
             v == Local(locals[n].index, t)
             u == ReceiverData
  <2>1. /\ n \in DOMAIN locals /\ t = locals[n].type /\ t \in Types /\ u.type = t
        /\ u = MemoryData(getSize(Slots[function.returns]), t) /\ getSize(Slots[function.returns]) \in Nat
    BY <1>1, ReceiverFacts
  <2>2. WriteBack = AssignTo(v, u)
    BY <1>1 DEF WriteBack, Receiver
  <2>3. v.type = t /\ \A k : Place(v, Slots[t], k) = <<"local", locals[n].index + k - 1>>
    BY LocalSlot
  <2> HIDE DEF t
  <2>4. WritesValid(D, u)
    BY <2>1, MemoryValid
  <2> HIDE DEF v, u
  <2>5. ReadsValid(D, v)
    <3>1. ASSUME NEW k \in DOMAIN Slots[t]
          PROVE  Place(v, Slots[t], k) \in Places /\ Readable(D, Place(v, Slots[t], k), Slots[t][k])
      <4> DEFINE p == <<"local", locals[n].index + k - 1>>
                 b == Slots[t][k]
      <4>1. <<p, b>> \in declared(locals, globals)
        BY <2>1, LocalInStore
      <4> HIDE DEF p, b
      <4>2. <<p, b>>[1] \in Places
        BY <4>1, DeclaredInPlaces
      <4>3. p \in Places /\ Readable(D, p, b)
        BY <4>1, <4>2 DEF Readable, Writable
      <4> QED BY <2>3, <4>3 DEF p, b
    <3> QED BY <2>3, <3>1 DEF ReadsValid
  <2> QED BY <2>1, <2>2, <2>3, <2>4, <2>5, ValidMove
<1>2. CASE ~function.writesBack
  BY <1>2, ValidEmpty DEF WriteBack
<1> QED BY <1>1, <1>2

(* A slot behind a member of a global is no slot of any variable.          *)
VariableNames(D) == \A d \in D : d[1][1] = "local" \/ (d[1][1] = "global" /\ d[1][2] \in Names)
(* So that the validator refuses to read it or write it.                   *)
LEMMA BehindUnreadable ==
  ASSUME Settles, Regular, NEW path \in Paths, NEW t, Typed(path, t), Behind(path),
         NEW k \in DOMAIN Slots[t], NEW D, VariableNames(D)
  PROVE  \A b : ~Readable(D, Place(Resolve(path), Slots[t], k), b)
<1>1. PICK i, F \in Nat : OfLocal(path, i, t, F) \/ OfGlobal(path, i, t, F)
  BY ResolvedPath DEF Settles, Typed, Regular
<1>2. PICK m \in FieldNames : Resolve(path) = Global(m, t)
  <2>1. Named(locals, Head(path)) = {} /\ Len(path) > 1
    BY DEF Behind, IsGlobal
  <2>2. OfGlobal(path, i, t, F)
    BY <1>1, <2>1 DEF OfLocal
  <2>3. Len(path) # 1
    <3> DEFINE n == Len(path)
    <3>1. n \in Nat /\ n > 1
      BY <2>1, PathFacts
    <3> HIDE DEF n
    <3>2. n # 1
      BY <3>1
    <3> QED BY <3>2 DEF n
  <2> QED BY <2>2, <2>3 DEF OfGlobal
<1> DEFINE p == Place(Resolve(path), Slots[t], k)
<1>3. p = <<"global", m>> \/ p = <<"global", m, k - 1>>
  BY <1>2, GlobalSlot
<1> HIDE DEF p
<1>4. p[1] = "global" /\ p[2] = m
  BY <1>3
<1>5. m \notin Names
  BY <1>2 DEF Regular
<1>6. ASSUME NEW b
      PROVE  ~Readable(D, p, b)
  <2>1. <<p, b>> \notin D
    <3>1. ASSUME <<p, b>> \in D
          PROVE  FALSE
      <4>1. <<p, b>>[1][1] = "local" \/ <<p, b>>[1][2] \in Names
        BY <3>1 DEF VariableNames
      <4> QED BY <1>4, <1>5, <4>1
    <3> QED BY <3>1
  <2>2. p # <<"result">> /\ p # <<"default", b>> /\ p # <<"literal", b>>
    BY <1>4
  <2> QED BY <1>4, <2>1, <2>2 DEF Readable, Writable
<1> QED BY <1>6 DEF p

(* And with it the statement.                                              *)
LEMMA StatementInvalid ==
  ASSUME Settles, Regular, NEW s \in Statements, WellTyped(function, locals, globals, s), ~Calm(s),
         NEW u, u.type = SourceType(locals, globals, s.from),
         s.do = "assign" => u = Resolve(s.to), NEW D, VariableNames(D)
  PROVE  ~Valid(Brings(s.from, u), D)
<1> DEFINE t == SourceType(locals, globals, s.from)
           source == s.from
           v == Compile(source)
<1>0. MembersOfOneSlot
  BY DEF Regular
<1>1. source \in Sources /\ Yields(source, t)
  BY DEF Statements, WellTyped, Yields
<1>2. PICK path \in PathsOf(s) : Behind(path) /\ Slots[t] # <<>>
  BY DEF Calm
<1>3. t \in Types /\ v.type = t
  BY <1>0, <1>1, CompileType
<1>4. 1 \in DOMAIN Slots[t]
  <2>1. Slots[t] \in Seq(Basis)
    BY <1>3, SlotsType
  <2> QED BY <1>2, <2>1
<1>5. CASE source.of = "path" /\ path = source.path
  <2>1. path \in Paths /\ Typed(path, t) /\ v = Resolve(path)
    BY <1>1, <1>5 DEF Sources, Yields, Typed, SourceType, Compile
  <2> HIDE DEF t, v
  <2>2. \A b : ~Readable(D, Place(v, Slots[t], 1), b)
    BY <1>2, <1>4, <2>1, BehindUnreadable
  <2>3. u.type = t
    BY DEF t
  <2> QED BY <1>3, <1>4, <2>2, <2>3, InvalidMove DEF Brings, v
<1>6. CASE s.do = "assign" /\ path = s.to
  <2>1. path \in Paths /\ Typed(path, t) /\ u = Resolve(path)
    BY <1>6 DEF Statements, WellTyped, Typed
  <2> HIDE DEF t, v
  <2>2. \A b : ~Readable(D, Place(u, Slots[t], 1), b)
    BY <1>2, <1>4, <2>1, BehindUnreadable
  <2>3. u.type = t
    BY DEF t
  <2>4. \A b : ~Writable(D, Place(u, Slots[t], 1), b)
    BY <2>2 DEF Readable
  <2> QED BY <1>3, <1>4, <2>3, <2>4, InvalidMove DEF Brings, v
<1> QED BY <1>2, <1>5, <1>6 DEF PathsOf

-----------------------------------------------------------------------------
(* The code of a statement validates if the statement is calm, and only    *)
(* then.                                                                   *)

(* Three lists validate together if each does.                             *)
LEMMA DoubleConjunction ==
  ASSUME NEW D, NEW a, NEW b, NEW c, Sequence(a), Sequence(b), Sequence(c)
  PROVE  /\ Valid(a \o b, D) <=> Valid(a, D) /\ Valid(b, D)
         /\ Valid((a \o b) \o c, D) <=> Valid(a, D) /\ Valid(b, D) /\ Valid(c, D)
<1>1. Sequence(a \o b)
  BY Concatenated
<1>2. Valid(a \o b, D) <=> Valid(a, D) /\ Valid(b, D)
  BY ValidConcatenated
<1>3. Valid((a \o b) \o c, D) <=> Valid(a \o b, D) /\ Valid(c, D)
  BY <1>1, ValidConcatenated
<1> QED BY <1>2, <1>3

(* In each of the three forms a statement is compiled to.                  *)
LEMMA StatementValid ==
  ASSUME Settles, Regular, NEW s \in Statements, WellTyped(function, locals, globals, s),
         NEW u, u.type = SourceType(locals, globals, s.from),
         s.do = "assign" => u = Resolve(s.to),
         NEW D, declared(locals, globals) \subseteq D, VariableNames(D),
         Calm(s) => WritesValid(D, u)
  PROVE  /\ Valid(CallBefore(s.from) \o Brings(s.from, u), D) <=> Calm(s)
         /\ Valid((CallBefore(s.from) \o Brings(s.from, u)) \o WriteBack, D) <=> Calm(s)
         /\ Valid((WriteBack \o CallBefore(s.from)) \o Brings(s.from, u), D) <=> Calm(s)
<1> DEFINE t == SourceType(locals, globals, s.from)
           source == s.from
           a == CallBefore(source)
           b == Brings(source, u)
<1>0. MembersOfOneSlot
  BY DEF Regular
<1>1. source \in Sources /\ Yields(source, t)
  BY DEF Statements, WellTyped, Yields
<1>2. t \in Types /\ Compile(source).type = t /\ u.type = t
  BY <1>0, <1>1, CompileType
<1> HIDE DEF t
<1>3. Sequence(a) /\ Sequence(b) /\ Sequence(WriteBack)
  <2>1. Sequence(a)
    BY <1>1, CallBeforeAlone
  <2>2. Sequence(b)
    BY <1>2, Moves DEF Brings
  <2> QED BY <2>1, <2>2, WriteBackAlone
<1>4. Valid(WriteBack, D)
  BY WriteBackValid
<1>5. ASSUME Calm(s)
      PROVE  Valid(a, D) /\ Valid(b, D)
  <2>1. source.of = "path" /\ Behind(source.path) => Slots[t] = <<>>
    BY <1>5, CalmSource DEF t
  <2> HIDE DEF source
  <2>2. ReadsValid(D, Compile(source)) /\ Valid(CallBefore(source), D)
    BY <1>0, <1>1, <2>1, SourceValid
  <2> QED BY <1>2, <1>5, <2>2, ValidMove DEF Brings
<1>6. ASSUME ~Calm(s)
      PROVE  ~Valid(b, D)
  BY <1>6, StatementInvalid
<1> HIDE DEF a, b
<1>7. Valid(a \o b, D) <=> Valid(a, D) /\ Valid(b, D)
  BY <1>3, DoubleConjunction
<1>8. Valid((a \o b) \o WriteBack, D) <=> Valid(a, D) /\ Valid(b, D) /\ Valid(WriteBack, D)
  BY <1>3, DoubleConjunction
<1>9. Valid((WriteBack \o a) \o b, D) <=> Valid(WriteBack, D) /\ Valid(a, D) /\ Valid(b, D)
  BY <1>3, DoubleConjunction
<1>10. /\ Valid(a \o b, D) <=> Calm(s)
       /\ Valid((a \o b) \o WriteBack, D) <=> Calm(s)
       /\ Valid((WriteBack \o a) \o b, D) <=> Calm(s)
  BY <1>4, <1>5, <1>6, <1>7, <1>8, <1>9
<1> QED BY <1>10 DEF a, b

(* Where the targets of the statements may be written.                     *)

(* What is assigned to may be written.                                     *)
LEMMA TargetValid ==
  ASSUME Settles, MembersOfOneSlot, NEW s \in Statements, s.do = "assign",
         WellTyped(function, locals, globals, s), Calm(s)
  PROVE  WritesValid(declared(locals, globals), Resolve(s.to))
<1> DEFINE t == SourceType(locals, globals, s.from)
           u == Resolve(s.to)
<1>1. s.to \in Paths /\ Typed(s.to, t) /\ (Behind(s.to) => Slots[t] = <<>>)
  BY AssignFacts
<1> HIDE DEF t
<1>2. /\ u.type = t
      /\ \A k \in DOMAIN Slots[t] : <<Place(u, Slots[t], k), Slots[t][k]>> \in declared(locals, globals)
  BY <1>1, TargetFacts
<1> HIDE DEF u
<1>3. ASSUME NEW k \in DOMAIN Slots[t]
      PROVE  /\ Place(u, Slots[t], k) \in Places
             /\ Writable(declared(locals, globals), Place(u, Slots[t], k), Slots[t][k])
  <2> DEFINE p == Place(u, Slots[t], k)
             b == Slots[t][k]
  <2>1. <<p, b>> \in declared(locals, globals)
    BY <1>2
  <2> HIDE DEF p, b
  <2>2. <<p, b>>[1] \in Places
    BY <2>1, DeclaredInPlaces
  <2>3. p \in Places /\ Writable(declared(locals, globals), p, b)
    BY <2>1, <2>2 DEF Writable
  <2> QED BY <2>3 DEF p, b
<1>4. WritesValid(declared(locals, globals), u)
  BY <1>2, <1>3 DEF WritesValid
<1> QED BY <1>4 DEF u

(* So may the result.                                                      *)
LEMMA ResultValid ==
  ASSUME TypeOK, Len(Slots[function.returns]) = 1, NEW D
  PROVE  WritesValid(D, Result) /\ Result.type = function.returns
<1>1. function.returns \in Types
  BY FunctionType DEF Function
<1>2. /\ Result.type = function.returns /\ DOMAIN Slots[function.returns] = {1}
      /\ Place(Result, Slots[function.returns], 1) = <<"result">>
  BY <1>1, ResultSlot
<1>3. Slots[function.returns] = <<Slots[function.returns][1]>>
  BY <1>1, <1>2, SlotsType
<1>4. <<"result">> \in Places
  BY DEF Places
<1> HIDE DEF Result
<1> QED BY <1>2, <1>3, <1>4 DEF WritesValid, Writable

(* So may a new local.                                                     *)
LEMMA LocalWritable ==
  ASSUME TypeOK, Shape, NEW x \in Names, NEW t \in Types
  PROVE  LET new == [name |-> x, type |-> t, index |-> localIndex] IN
         /\ new \in LocalVariable /\ Local(localIndex, t).type = t
         /\ declared(locals, globals) \subseteq declared(Append(locals, new), globals)
         /\ WritesValid(declared(Append(locals, new), globals), Local(localIndex, t))
<1> DEFINE new == [name |-> x, type |-> t, index |-> localIndex]
           vs == Append(locals, new)
           n == Len(locals)
<1>1. /\ locals \in Seq(LocalVariable) /\ localIndex \in Nat /\ n \in Nat
      /\ DOMAIN locals = 1..n
  BY StateFacts
<1>2. new \in LocalVariable /\ new.type = t /\ new.index = localIndex
  BY <1>1 DEF LocalVariable
<1>3. Packed(vs, localIndex + Len(Slots[t])) /\ vs \in Seq(LocalVariable)
  BY <1>1, PackedAppend DEF Shape
<1>4. n + 1 \in DOMAIN vs /\ vs[n + 1] = new
  BY <1>1, <1>2
<1> HIDE DEF new, vs, n
<1>5. ASSUME NEW k \in DOMAIN Slots[t]
      PROVE  LET p == Place(Local(localIndex, t), Slots[t], k) IN
             p \in Places /\ Writable(declared(vs, globals), p, Slots[t][k])
  <2> DEFINE i == n + 1
  <2>1. i \in DOMAIN vs /\ vs[i].type = t /\ vs[i].index = localIndex
    BY <1>2, <1>4
  <2> HIDE DEF i
  <2>2. /\ vs[i].index + k - 1 \in Nat
        /\ << <<"local", vs[i].index + k - 1>>, Slots[vs[i].type][k]>> \in declared(vs, globals)
    BY <1>3, <2>1, DeclaredSlots
  <2> DEFINE p == <<"local", localIndex + k - 1>>
  <2>3. p \in Places
    BY <2>1, <2>2 DEF Places
  <2>4. <<p, Slots[t][k]>> \in declared(vs, globals)
    BY <2>1, <2>2
  <2>5. Place(Local(localIndex, t), Slots[t], k) = p
    BY LocalSlot
  <2> QED BY <2>3, <2>4, <2>5 DEF Writable
<1>6. Local(localIndex, t).type = t
  BY LocalSlot
<1>7. WritesValid(declared(vs, globals), Local(localIndex, t))
  BY <1>5, <1>6 DEF WritesValid
<1>8. declared(locals, globals) \subseteq declared(vs, globals)
  BY <1>2, LocalDeclared DEF vs
<1> QED BY <1>2, <1>6, <1>7, <1>8 DEF new, vs

(* And a new global.                                                       *)
LEMMA GlobalWritable ==
  ASSUME TypeOK, NEW x \in Names, NEW t \in Types
  PROVE  LET new == [name |-> x, type |-> t] IN
         /\ new \in Variable /\ Global(x, t).type = t
         /\ declared(locals, globals) \subseteq declared(locals, Append(globals, new))
         /\ WritesValid(declared(locals, Append(globals, new)), Global(x, t))
<1> DEFINE new == [name |-> x, type |-> t]
           D == declared(locals, Append(globals, new))
<1>1. new \in Variable /\ new.name = x /\ new.type = t
  BY DEF Variable
<1>2. declared(locals, globals) \subseteq D /\ slots(Global(new.name, new.type)) \subseteq D
  BY GlobalDeclared
<1> HIDE DEF new, D
<1>3. Global(x, t).type = t
  BY GlobalSlot
<1>4. ASSUME NEW k \in DOMAIN Slots[t]
      PROVE  LET p == Place(Global(x, t), Slots[t], k) IN p \in Places /\ Writable(D, p, Slots[t][k])
  <2> DEFINE p == Place(Global(x, t), Slots[t], k)
  <2>1. <<p, Slots[t][k]>> \in slots(Global(x, t))
    BY <1>3 DEF slots
  <2>2. p = <<"global", x>> \/ p = <<"global", x, k - 1>>
    BY GlobalSlot
  <2>3. k - 1 \in Nat
    BY SlotsType
  <2>4. <<"global", x>> \in Places /\ <<"global", x, k - 1>> \in Places
    BY <2>3 DEF Places
  <2> HIDE DEF p
  <2> QED BY <1>1, <1>2, <2>1, <2>2, <2>4 DEF Writable, p
<1>5. WritesValid(D, Global(x, t))
  BY <1>3, <1>4 DEF WritesValid
<1> QED BY <1>1, <1>2, <1>3, <1>5 DEF new, D

-----------------------------------------------------------------------------
(* While a statement runs: its instructions come to what it means.         *)

Leaves(s, before, globalsBefore, after, globalsAfter) ==
  /\ s.do = "let" =>
       LET new == [name |-> s.name, type |-> Abstract!SourceType(before, globalsBefore, s.from),
                   value |-> ValueOf(before, globalsBefore, s.from)]
       IN  IF function.start THEN globalsAfter = Append(globalsBefore, new) /\ after = before
           ELSE after = Append(before, new) /\ globalsAfter = globalsBefore
  /\ s.do = "assign" =>
       LET w == ValueOf(before, globalsBefore, s.from)
       IN  IF Abstract!IsGlobal(before, globalsBefore, Head(s.to))
             THEN globalsAfter = Abstract!PutNamed(globalsBefore, s.to, w) /\ after = before
             ELSE after = Abstract!PutNamed(before, s.to, w) /\ globalsAfter = globalsBefore
  /\ s.do \in {"return", "end"} => after = before /\ globalsAfter = globalsBefore
Returned(s, before, globalsBefore) ==
  IF s.do = "return" THEN ValueOf(before, globalsBefore, s.from) ELSE <<>>
Ends(G, s, before, globalsBefore) ==
  s.do \in {"return", "end"} =>
    ResultBecomes(G, Returned(s, before, globalsBefore)) /\ ReceiverBecomes(G, ReceiverOf(before))
Promises(G, ls, gs) ==
  /\ LocalsEnd(G, locals, ls) /\ GlobalsEnd(G, globals, gs)
  /\ Leaves(statement, settled.locals, settled.globals, ls, gs)
  /\ Ends(G, statement, settled.locals, settled.globals)
Underway == \E G, ls, gs : Pending(G) /\ Promises(G, ls, gs)

(* A valid list of instructions has targets.                               *)
LEMMA ValidTargets ==
  ASSUME NEW c, NEW D, Valid(c, D), VariableNames(D), <<"result">> \in DOMAIN store',
         \A d \in D : d[1] \in DOMAIN store',
         NEW i \in DOMAIN c
  PROVE  Target(c[i].to)'
<1> DEFINE p == c[i].to
<1>1. p \in Places
  <2>1. c \in Seq(Instruction)
    BY DEF Valid
  <2>2. c[i] \in Instruction
    BY <2>1
  <2> QED BY <2>2 DEF Instruction
<1>2. PICK t \in Basis : Writable(D, p, t)
  BY DEF Valid
<1> HIDE DEF p
<1>3. CASE <<p, t>> \in D
  <2>1. <<p, t>>[1] \in DOMAIN store' /\ (<<p, t>>[1][1] = "local" \/ <<p, t>>[1][1] = "global")
    BY <1>3 DEF VariableNames
  <2> QED BY <2>1 DEF Target, InStore, p
<1>4. CASE p[1] = "memory"
  <2>1. p \in MemoryPlaces
    BY <1>1, <1>4 DEF Places, MemoryPlaces
  <2> QED BY <2>1 DEF Target, p
<1>5. CASE p = <<"result">>
  <2>1. p[1] = "result" /\ p \in DOMAIN store'
    BY <1>5
  <2> QED BY <2>1 DEF Target, InStore, p
<1> QED BY <1>2, <1>3, <1>4, <1>5 DEF Writable

(* What is kept by an extension of the store.                              *)
Grows ==
  /\ memory' = memory /\ function' = function /\ DOMAIN store \subseteq DOMAIN store'
  /\ \A p \in DOMAIN store : store'[p] = store[p]

(* A plan whose targets are there can begin.                               *)
LEMMA Begins ==
  ASSUME Grows, NEW G, NEW c, Planned(G, c), code' = c,
         \A i \in DOMAIN c : Target(c[i].to)'
  PROVE  Pending(G)' /\ \A p, e : Finally(G, p, e) => Finally(G, p, e)'
<1>1. ASSUME NEW g \in G
      PROVE  Target(g[1])'
  <2>1. PICK i \in DOMAIN c : c[i].to = g[1]
    BY DEF Planned, Covers
  <2> QED BY <2>1
<1> QED BY <1>1, PlanBegins DEF Grows, Planned

(* What will be will still be.                                             *)
LEMMA BecomesStill ==
  ASSUME NEW G, \A p, e : Finally(G, p, e) => Finally(G, p, e)',
         NEW v, NEW w, Becomes(G, v, w)
  PROVE  Becomes(G, v, w)'
<1>1. ASSUME NEW k \in DOMAIN Slots[v.type]
      PROVE  Finally(G, Place(v, Slots[v.type], k), w[k])'
  BY DEF Becomes
<1> QED BY <1>1 DEF Becomes

(* The same for all variables.                                             *)
LEMMA EndStill ==
  ASSUME NEW G, \A p, e : Finally(G, p, e) => Finally(G, p, e)',
         NEW vs, NEW ws, NEW ls, NEW gs, LocalsEnd(G, vs, ls), GlobalsEnd(G, ws, gs)
  PROVE  LocalsEnd(G, vs, ls)' /\ GlobalsEnd(G, ws, gs)'
<1>1. ASSUME NEW i \in DOMAIN vs
      PROVE  Becomes(G, Local(vs[i].index, vs[i].type), ls[i].value)'
  BY BecomesStill DEF LocalsEnd
<1>2. ASSUME NEW i \in DOMAIN ws
      PROVE  Becomes(G, Global(ws[i].name, ws[i].type), gs[i].value)'
  BY BecomesStill DEF GlobalsEnd
<1> QED BY <1>1, <1>2 DEF LocalsEnd, GlobalsEnd

(* And for what the caller gets.                                           *)
LEMMA EndsStill ==
  ASSUME NEW G, \A p, e : Finally(G, p, e) => Finally(G, p, e)', function' = function,
         NEW s, NEW ls, NEW gs, Ends(G, s, ls, gs)
  PROVE  Ends(G, s, ls, gs)'
<1>1. SUFFICES ASSUME s.do \in {"return", "end"}
               PROVE  /\ ResultBecomes(G, Returned(s, ls, gs))'
                      /\ ReceiverBecomes(G, ReceiverOf(ls))'
  BY DEF Ends
<1> DEFINE w == Returned(s, ls, gs)
           f == function
<1>2. PICK u : u = IF ViaMemory(function.returns) THEN MemoryData(0, function.returns) ELSE Result
  OBVIOUS
<1>3. Becomes(G, u, w)
  BY <1>1, <1>2 DEF Ends, ResultBecomes
<1>4. u = (IF ViaMemory(function.returns) THEN MemoryData(0, function.returns) ELSE Result)'
  BY <1>2 DEF Result
<1>5. Becomes(G, u, w)'
  BY <1>3, BecomesStill
<1>6. ResultBecomes(G, w)'
  BY <1>4, <1>5 DEF ResultBecomes
<1>7. PICK v : v = ReceiverData
  OBVIOUS
<1>8. v = ReceiverData'
  BY <1>7 DEF ReceiverData, ReceiverType
<1>9. PICK r : r = ReceiverOf(ls)
  OBVIOUS
<1>10. r = ReceiverOf(ls)'
  BY <1>9 DEF ReceiverOf, Receiver
<1>11. ReceiverBecomes(G, r)
  BY <1>1, <1>9 DEF Ends
<1>12. CASE function.writesBack
  <2>1. Becomes(G, v, r)'
    BY <1>7, <1>11, <1>12, BecomesStill DEF ReceiverBecomes
  <2> QED BY <1>6, <1>8, <1>10, <1>12, <2>1 DEF ReceiverBecomes
<1>13. CASE ~function.writesBack
  BY <1>6, <1>10, <1>11, <1>13 DEF ReceiverBecomes
<1> QED BY <1>12, <1>13

(* A statement begins: it is under way, or the module does not validate.   *)
Plan(s, c, vs, ws) ==
  \E G, ls, gs :
    /\ Planned(G, c)
    /\ LocalsEnd(G, vs, ls) /\ GlobalsEnd(G, ws, gs)
    /\ Leaves(s, localsNow, globalsNow, ls, gs)
    /\ Ends(G, s, localsNow, globalsNow)

(* What is planned is under way when its code is there.                    *)
LEMMA Planning ==
  ASSUME Grows, NEW s, NEW c, NEW vs, NEW ws, Plan(s, c, vs, ws), code' = c,
         \A i \in DOMAIN c : Target(c[i].to)',
         vs = locals', ws = globals', statement' = s,
         settled' = [known |-> TRUE, locals |-> localsNow, globals |-> globalsNow]
  PROVE  settled'.known /\ Underway'
<1>1. PICK G, ls, gs :
        /\ Planned(G, c)
        /\ LocalsEnd(G, vs, ls) /\ GlobalsEnd(G, ws, gs)
        /\ Leaves(s, localsNow, globalsNow, ls, gs)
        /\ Ends(G, s, localsNow, globalsNow)
  BY DEF Plan
<1>2. Pending(G)' /\ \A p, e : Finally(G, p, e) => Finally(G, p, e)'
  BY <1>1, Begins
<1>3. PICK b, d : b = localsNow /\ d = globalsNow
  OBVIOUS
<1>4. settled'.locals = b /\ settled'.globals = d /\ settled'.known
  BY <1>3
<1>5. LocalsEnd(G, vs, ls)' /\ GlobalsEnd(G, ws, gs)'
  BY <1>1, <1>2, EndStill
<1>6. Ends(G, s, b, d)'
  <2>1. Ends(G, s, b, d) /\ function' = function
    BY <1>1, <1>3 DEF Grows
  <2> QED BY <1>2, <2>1, EndsStill
<1>7. Leaves(s, b, d, ls, gs)'
  <2>1. Leaves(s, b, d, ls, gs) /\ function' = function
    BY <1>1, <1>3 DEF Grows
  <2> QED BY <2>1 DEF Leaves
<1>8. LocalsEnd(G, locals, ls)' /\ GlobalsEnd(G, globals, gs)'
  BY <1>5 DEF LocalsEnd, GlobalsEnd
<1>9. Leaves(statement, settled.locals, settled.globals, ls, gs)'
  BY <1>4, <1>7 DEF Leaves
<1>10. Ends(G, statement, settled.locals, settled.globals)'
  BY <1>4, <1>6 DEF Ends, Returned
<1>11. Promises(G, ls, gs)'
  BY <1>8, <1>9, <1>10 DEF Promises
<1> QED BY <1>2, <1>4, <1>11 DEF Underway

(* A statement starts if its code validates, and else the module is        *)
(* refused.                                                                *)
LEMMA Starts ==
  ASSUME Settles, NEW s, NEW c, NEW vs, NEW ws, Grows, Emit(c),
         vs = locals', ws = globals', statement' = s,
         settled' = [known |-> TRUE, locals |-> localsNow, globals |-> globalsNow],
         Holds(locals, globals)', \A i \in DOMAIN ws : ws[i].name \in Names,
         Valid(c, declared(vs, ws)) <=> Calm(s),
         Calm(s) => Plan(s, c, vs, ws)
  PROVE  /\ Calm(s) => status' = "running" /\ settled'.known /\ Underway'
         /\ ~Calm(s) => status' = "invalid"
<1> DEFINE D == declared(vs, ws)
<1>1. D = declared(locals', globals')
  OBVIOUS
<1>2. VariableNames(D)
  BY DeclaredNames DEF VariableNames
<1>3. <<"result">> \in DOMAIN store' /\ \A d \in D : d[1] \in DOMAIN store'
  BY <1>1 DEF Settles, StoreHolds, Grows, Holds
<1> HIDE DEF D
<1>4. CASE Calm(s)
  <2>1. Valid(c, D) /\ Plan(s, c, vs, ws)
    BY <1>4 DEF D
  <2>2. code' = c /\ status' = "running"
    BY <1>1, <2>1 DEF Emit, Settles
  <2>3. \A i \in DOMAIN c : Target(c[i].to)'
    BY <1>2, <1>3, <2>1, ValidTargets
  <2>4. settled'.known /\ Underway'
    BY <2>1, <2>2, <2>3, Planning
  <2> QED BY <1>4, <2>2, <2>4
<1>5. CASE ~Calm(s)
  <2>1. ~Valid(c, D)
    BY <1>5 DEF D
  <2>2. status' = "invalid"
    BY <1>1, <2>1 DEF Emit
  <2> QED BY <1>5, <2>2
<1> QED BY <1>4, <1>5

(* What is declared is there, and no other value changes.                  *)
LEMMA DeclareGrows ==
  ASSUME Declare, memory' = memory, function' = function
  PROVE  Grows /\ Holds(locals, globals)'
<1>1. DOMAIN store \subseteq DOMAIN store' /\ \A p \in DOMAIN store : store'[p] = store[p]
  BY DEF Declare
<1>2. Holds(locals, globals)'
  BY DeclareHolds
<1> QED BY <1>1, <1>2 DEF Grows

(* Nor where nothing is declared.                                          *)
LEMMA SameHolds ==
  ASSUME Settles, UNCHANGED <<locals, globals, store, memory, function>>
  PROVE  Grows /\ Holds(locals, globals)'
BY DEF Settles, StoreHolds, Grows, Holds

(* The names of the globals are names of variables.                        *)
LEMMA GlobalNames ==
  ASSUME TypeOK
  PROVE  \A i \in DOMAIN globals : globals[i].name \in Names
BY GlobalFacts

(* Another variable.                                                       *)
LEMMA Appended ==
  ASSUME NEW ls, NEW n \in Nat, ls = [i \in 1..n |-> ls[i]], NEW x
  PROVE  /\ DOMAIN Append(ls, x) = 1..(n + 1) /\ Append(ls, x)[n + 1] = x
         /\ \A i \in 1..n : Append(ls, x)[i] = ls[i]
         /\ Append(ls, x) = [i \in 1..(n + 1) |-> Append(ls, x)[i]]
<1> DEFINE S == {ls[i] : i \in 1..n} \cup {x}
<1>1. ls \in Seq(S) /\ Len(ls) = n /\ x \in S
  OBVIOUS
<1> HIDE DEF S
<1>2. Append(ls, x) \in Seq(S) /\ Len(Append(ls, x)) = n + 1
  BY <1>1
<1> QED BY <1>1, <1>2

(* The variables and a new local.                                          *)
LEMMA LocalAppended ==
  ASSUME NEW G, NEW vs, NEW n \in Nat, vs \in Seq(LocalVariable), Len(vs) = n,
         NEW ls, LocalsEnd(G, vs, ls),
         NEW new, NEW w, Becomes(G, Local(new.index, new.type), w)
  PROVE  LocalsEnd(G, Append(vs, new), Append(ls, [name |-> new.name, type |-> new.type, value |-> w]))
<1> DEFINE x == [name |-> new.name, type |-> new.type, value |-> w]
           us == Append(vs, new)
           ks == Append(ls, x)
<1>1. DOMAIN vs = 1..n /\ vs = [i \in 1..n |-> vs[i]]
  OBVIOUS
<1>2. /\ ls = [i \in 1..n |-> [name |-> vs[i].name, type |-> vs[i].type, value |-> ls[i].value]]
      /\ \A i \in 1..n : Becomes(G, Local(vs[i].index, vs[i].type), ls[i].value)
  BY <1>1 DEF LocalsEnd
<1>3. ls = [i \in 1..n |-> ls[i]]
  BY <1>2
<1>4. DOMAIN us = 1..(n + 1) /\ us[n + 1] = new /\ \A i \in 1..n : us[i] = vs[i]
  BY <1>1, Appended
<1> HIDE DEF x
<1>5. /\ DOMAIN ks = 1..(n + 1) /\ ks[n + 1] = x /\ \A i \in 1..n : ks[i] = ls[i]
      /\ ks = [i \in 1..(n + 1) |-> ks[i]]
  BY <1>3, Appended
<1>6. x = [name |-> new.name, type |-> new.type, value |-> x.value] /\ x.value = w
  BY DEF x
<1> HIDE DEF us, ks
<1>7. ASSUME NEW i \in 1..(n + 1)
      PROVE  /\ ks[i] = [name |-> us[i].name, type |-> us[i].type, value |-> ks[i].value]
             /\ Becomes(G, Local(us[i].index, us[i].type), ks[i].value)
  <2>1. CASE i = n + 1
    BY <1>4, <1>5, <1>6, <2>1
  <2>2. CASE i \in 1..n
    <3>1. us[i] = vs[i] /\ ks[i] = ls[i]
      BY <1>4, <1>5, <2>2
    <3>2. ls[i] = [name |-> vs[i].name, type |-> vs[i].type, value |-> ls[i].value]
      BY <1>2, <2>2
    <3> QED BY <1>2, <2>2, <3>1, <3>2
  <2> QED BY <2>1, <2>2
<1>8. ks = [i \in DOMAIN us |-> [name |-> us[i].name, type |-> us[i].type, value |-> ks[i].value]]
  BY <1>4, <1>5, <1>7
<1>9. LocalsEnd(G, us, ks)
  BY <1>4, <1>7, <1>8 DEF LocalsEnd
<1> QED BY <1>9 DEF us, ks, x

(* The variables and a new global.                                         *)
LEMMA GlobalAppended ==
  ASSUME NEW G, NEW vs, NEW n \in Nat, vs \in Seq(Variable), Len(vs) = n,
         NEW gs, GlobalsEnd(G, vs, gs),
         NEW new, NEW w, Becomes(G, Global(new.name, new.type), w)
  PROVE  GlobalsEnd(G, Append(vs, new), Append(gs, [name |-> new.name, type |-> new.type, value |-> w]))
<1> DEFINE x == [name |-> new.name, type |-> new.type, value |-> w]
           us == Append(vs, new)
           ks == Append(gs, x)
<1>1. DOMAIN vs = 1..n /\ vs = [i \in 1..n |-> vs[i]]
  OBVIOUS
<1>2. /\ gs = [i \in 1..n |-> [name |-> vs[i].name, type |-> vs[i].type, value |-> gs[i].value]]
      /\ \A i \in 1..n : Becomes(G, Global(vs[i].name, vs[i].type), gs[i].value)
  BY <1>1 DEF GlobalsEnd
<1>3. gs = [i \in 1..n |-> gs[i]]
  BY <1>2
<1>4. DOMAIN us = 1..(n + 1) /\ us[n + 1] = new /\ \A i \in 1..n : us[i] = vs[i]
  BY <1>1, Appended
<1> HIDE DEF x
<1>5. /\ DOMAIN ks = 1..(n + 1) /\ ks[n + 1] = x /\ \A i \in 1..n : ks[i] = gs[i]
      /\ ks = [i \in 1..(n + 1) |-> ks[i]]
  BY <1>3, Appended
<1>6. x = [name |-> new.name, type |-> new.type, value |-> x.value] /\ x.value = w
  BY DEF x
<1> HIDE DEF us, ks
<1>7. ASSUME NEW i \in 1..(n + 1)
      PROVE  /\ ks[i] = [name |-> us[i].name, type |-> us[i].type, value |-> ks[i].value]
             /\ Becomes(G, Global(us[i].name, us[i].type), ks[i].value)
  <2>1. CASE i = n + 1
    BY <1>4, <1>5, <1>6, <2>1
  <2>2. CASE i \in 1..n
    <3>1. us[i] = vs[i] /\ ks[i] = gs[i]
      BY <1>4, <1>5, <2>2
    <3>2. gs[i] = [name |-> vs[i].name, type |-> vs[i].type, value |-> gs[i].value]
      BY <1>2, <2>2
    <3> QED BY <1>2, <2>2, <3>1, <3>2
  <2> QED BY <2>1, <2>2
<1>8. ks = [i \in DOMAIN us |-> [name |-> us[i].name, type |-> us[i].type, value |-> ks[i].value]]
  BY <1>4, <1>5, <1>7
<1>9. GlobalsEnd(G, us, ks)
  BY <1>4, <1>7, <1>8 DEF GlobalsEnd
<1> QED BY <1>9 DEF us, ks, x

(* A declaration: where its plan is.                                       *)
LEMMA LetLocalPlan ==
  ASSUME Settles, MembersOfOneSlot, NEW s \in Statements, s.do = "let", ~function.start,
         WellTyped(function, locals, globals, s), Calm(s), NEW t, t = SourceType(locals, globals, s.from)
  PROVE  LET new == [name |-> s.name, type |-> t, index |-> localIndex] IN
         Plan(s, Lets(s, Local(localIndex, t)), Append(locals, new), globals)
<1> DEFINE new == [name |-> s.name, type |-> t, index |-> localIndex]
           u == Local(localIndex, t)
           w == ValueNow(s.from)
<1>1. TypeOK /\ t \in Types /\ localIndex \in Nat /\ locals \in Seq(LocalVariable) /\ Len(locals) \in Nat
  BY StateFacts DEF Settles, WellTyped
<1>2. u.type = t /\ Separate(u)
  BY <1>1, LocalSlot, SeparateLocal
<1>3. ASSUME NEW k \in DOMAIN Slots[t]
      PROVE  /\ Place(u, Slots[t], k)[1] \in {"local", "global"}
             /\ \A d \in declared(locals, globals) : Apart(d[1], Place(u, Slots[t], k))
  <2>1. Place(u, Slots[t], k) = <<"local", localIndex + k - 1>>
    BY LocalSlot
  <2>2. \A d \in declared(locals, globals) : Apart(d[1], Place(u, Slots[t], k))
    BY <1>1, FreshLocal
  <2> QED BY <2>1, <2>2
<1> HIDE DEF u
<1>4. PICK G :
        /\ Planned(G, Lets(s, u))
        /\ LocalsEnd(G, locals, localsNow) /\ GlobalsEnd(G, globals, globalsNow)
        /\ Becomes(G, u, ValueNow(s.from))
  BY <1>2, <1>3, LetPlan
<1>5. new.index = localIndex /\ new.type = t /\ new.name = s.name
  OBVIOUS
<1> DEFINE x == [name |-> new.name, type |-> new.type, value |-> w]
<1>6. LocalsEnd(G, Append(locals, new), Append(localsNow, x))
  <2>1. Becomes(G, Local(new.index, new.type), w)
    BY <1>4, <1>5 DEF u
  <2> HIDE DEF new, w
  <2> QED BY <1>1, <1>4, <2>1, LocalAppended
<1>7. x = [name |-> s.name, type |-> Abstract!SourceType(localsNow, globalsNow, s.from),
           value |-> ValueOf(localsNow, globalsNow, s.from)]
  <2>1. Abstract!SourceType(localsNow, globalsNow, s.from) = t
    BY <1>1, NowFacts, SameTypes
  <2> QED BY <1>5, <2>1 DEF ValueNow
<1>8. Leaves(s, localsNow, globalsNow, Append(localsNow, x), globalsNow)
  <2> HIDE DEF x
  <2> QED BY <1>7 DEF Leaves
<1>9. Ends(G, s, localsNow, globalsNow)
  BY DEF Ends
<1> HIDE DEF new, x
<1>10. Plan(s, Lets(s, u), Append(locals, new), globals)
  BY <1>4, <1>6, <1>8, <1>9 DEF Plan
<1> QED BY <1>10 DEF new, u

(* The same for a global.                                                  *)
LEMMA LetGlobalPlan ==
  ASSUME Settles, MembersOfOneSlot, NEW s \in Statements, s.do = "let", function.start,
         WellTyped(function, locals, globals, s), Calm(s), NEW t, t = SourceType(locals, globals, s.from)
  PROVE  LET new == [name |-> s.name, type |-> t] IN
         Plan(s, Lets(s, Global(s.name, t)), locals, Append(globals, new))
<1> DEFINE new == [name |-> s.name, type |-> t]
           u == Global(s.name, t)
           w == ValueNow(s.from)
<1>1. TypeOK /\ t \in Types /\ globals \in Seq(Variable) /\ Len(globals) \in Nat
  BY DEF Settles, WellTyped, TypeOK
<1>2. u.type = t /\ Separate(u)
  BY <1>1, GlobalSlot, SeparateGlobal
<1>3. ASSUME NEW k \in DOMAIN Slots[t]
      PROVE  /\ Place(u, Slots[t], k)[1] \in {"local", "global"}
             /\ \A d \in declared(locals, globals) : Apart(d[1], Place(u, Slots[t], k))
  <2>1. Place(u, Slots[t], k)[1] = "global"
    BY GlobalSlot
  <2>2. Named(globals, s.name) = {}
    BY DEF WellTyped
  <2>3. \A d \in declared(locals, globals) : Apart(d[1], Place(u, Slots[t], k))
    BY <1>1, <2>2, FreshGlobal
  <2> QED BY <2>1, <2>3
<1> HIDE DEF u
<1>4. PICK G :
        /\ Planned(G, Lets(s, u))
        /\ LocalsEnd(G, locals, localsNow) /\ GlobalsEnd(G, globals, globalsNow)
        /\ Becomes(G, u, ValueNow(s.from))
  BY <1>2, <1>3, LetPlan
<1>5. new.type = t /\ new.name = s.name
  OBVIOUS
<1> DEFINE x == [name |-> new.name, type |-> new.type, value |-> w]
<1>6. GlobalsEnd(G, Append(globals, new), Append(globalsNow, x))
  <2>1. Becomes(G, Global(new.name, new.type), w)
    BY <1>4, <1>5 DEF u
  <2> HIDE DEF new, w
  <2> QED BY <1>1, <1>4, <2>1, GlobalAppended
<1>7. x = [name |-> s.name, type |-> Abstract!SourceType(localsNow, globalsNow, s.from),
           value |-> ValueOf(localsNow, globalsNow, s.from)]
  <2>1. Abstract!SourceType(localsNow, globalsNow, s.from) = t
    BY <1>1, NowFacts, SameTypes
  <2> QED BY <1>5, <2>1 DEF ValueNow
<1>8. Leaves(s, localsNow, globalsNow, localsNow, Append(globalsNow, x))
  <2> HIDE DEF x
  <2> QED BY <1>7 DEF Leaves
<1>9. Ends(G, s, localsNow, globalsNow)
  BY DEF Ends
<1> HIDE DEF new, x
<1>10. Plan(s, Lets(s, u), locals, Append(globals, new))
  BY <1>4, <1>6, <1>8, <1>9 DEF Plan
<1> QED BY <1>10 DEF new, u

(* An assignment.                                                          *)
LEMMA AssignsPlan ==
  ASSUME Settles, MembersOfOneSlot, NEW s \in Statements, s.do = "assign",
         WellTyped(function, locals, globals, s), Calm(s)
  PROVE  Plan(s, Assigns(s), locals, globals)
<1> DEFINE w == ValueNow(s.from)
           global == IsGlobal(locals, globals, Head(s.to))
           ls == IF global THEN localsNow ELSE Abstract!PutNamed(localsNow, s.to, w)
           gs == IF global THEN Abstract!PutNamed(globalsNow, s.to, w) ELSE globalsNow
<1>1. PICK G : Planned(G, Assigns(s)) /\ LocalsEnd(G, locals, ls) /\ GlobalsEnd(G, globals, gs)
  BY AssignPlan
<1>2. Abstract!IsGlobal(localsNow, globalsNow, Head(s.to)) <=> global
  BY NowFacts, SameTypes DEF Settles
<1>3. Leaves(s, localsNow, globalsNow, ls, gs)
  <2> HIDE DEF global
  <2> QED BY <1>2 DEF Leaves, ValueNow
<1>4. Ends(G, s, localsNow, globalsNow)
  BY DEF Ends
<1> HIDE DEF ls, gs
<1> QED BY <1>1, <1>3, <1>4 DEF Plan

(* A return.                                                               *)
LEMMA ReturnsPlan ==
  ASSUME NEW s \in Statements, s.do = "return", NEW c, ReturnPlanned(s, c)
  PROVE  Plan(s, c, locals, globals)
<1>1. PICK G :
        /\ Planned(G, c)
        /\ LocalsEnd(G, locals, localsNow) /\ GlobalsEnd(G, globals, globalsNow)
        /\ ResultBecomes(G, ValueNow(s.from)) /\ ReceiverBecomes(G, ReceiverOf(localsNow))
  BY DEF ReturnPlanned
<1>2. Leaves(s, localsNow, globalsNow, localsNow, globalsNow)
  BY DEF Leaves
<1>3. Returned(s, localsNow, globalsNow) = ValueNow(s.from)
  BY DEF Returned, ValueNow
<1>4. Ends(G, s, localsNow, globalsNow)
  BY <1>1, <1>3 DEF Ends
<1> QED BY <1>1, <1>2, <1>4 DEF Plan

(* The end of the body.                                                    *)
LEMMA EndsPlan ==
  ASSUME Settles, MayEndWithoutReturn(function)
  PROVE  Plan(EndOfBody, WriteBack, locals, globals)
<1>0. EndOfBody.do = "end"
  BY DEF EndOfBody
<1>1. PICK G :
        /\ Planned(G, WriteBack)
        /\ LocalsEnd(G, locals, localsNow) /\ GlobalsEnd(G, globals, globalsNow)
        /\ ResultBecomes(G, <<>>) /\ ReceiverBecomes(G, ReceiverOf(localsNow))
  BY EndPlan
<1>2. Leaves(EndOfBody, localsNow, globalsNow, localsNow, globalsNow)
  BY <1>0 DEF Leaves
<1>3. Returned(EndOfBody, localsNow, globalsNow) = <<>>
  BY <1>0 DEF Returned
<1>4. Ends(G, EndOfBody, localsNow, globalsNow)
  BY <1>1, <1>3 DEF Ends
<1> QED BY <1>1, <1>2, <1>4 DEF Plan

(* What the compilation of a statement comes to.                           *)
Started(s) ==
  /\ Calm(s) => status' = "running" /\ settled'.known /\ Underway'
  /\ ~Calm(s) => status' = "invalid"

(* What the statements have in common.                                     *)
LEMMA BeginFacts ==
  ASSUME NEW s, Begin(s)
  PROVE  /\ WellTyped(function, locals, globals, s) /\ statement' = s
         /\ settled' = [known |-> TRUE, locals |-> localsNow, globals |-> globalsNow]
         /\ function' = function /\ memory' = memory
BY DEF Begin

(* The code of a statement, whichever it is.                               *)
LEMMA StartsWith ==
  ASSUME Settles, Regular, NEW s \in Statements, Begin(s), Grows, Holds(locals, globals)',
         NEW u, u.type = SourceType(locals, globals, s.from), s.do = "assign" => u = Resolve(s.to),
         NEW vs, vs = locals', NEW ws, ws = globals', \A i \in DOMAIN ws : ws[i].name \in Names,
         declared(locals, globals) \subseteq declared(vs, ws),
         Calm(s) => WritesValid(declared(vs, ws), u),
         NEW c, Emit(c),
         \/ c = CallBefore(s.from) \o Brings(s.from, u)
         \/ c = (CallBefore(s.from) \o Brings(s.from, u)) \o WriteBack
         \/ c = (WriteBack \o CallBefore(s.from)) \o Brings(s.from, u),
         Calm(s) => Plan(s, c, vs, ws)
  PROVE  Started(s)
<1> DEFINE D == declared(vs, ws)
<1>1. VariableNames(D)
  BY DeclaredNames DEF VariableNames
<1>2. WellTyped(function, locals, globals, s)
  BY BeginFacts
<1>3. declared(locals, globals) \subseteq D /\ (Calm(s) => WritesValid(D, u))
  OBVIOUS
<1> HIDE DEF D
<1>4. /\ Valid(CallBefore(s.from) \o Brings(s.from, u), D) <=> Calm(s)
      /\ Valid((CallBefore(s.from) \o Brings(s.from, u)) \o WriteBack, D) <=> Calm(s)
      /\ Valid((WriteBack \o CallBefore(s.from)) \o Brings(s.from, u), D) <=> Calm(s)
  BY <1>1, <1>2, <1>3, StatementValid
<1>5. Valid(c, declared(vs, ws)) <=> Calm(s)
  BY <1>4 DEF D
<1>6. /\ statement' = s
      /\ settled' = [known |-> TRUE, locals |-> localsNow, globals |-> globalsNow]
  BY BeginFacts
<1> QED BY <1>5, <1>6, Starts DEF Started

(* A declaration in a function.                                            *)
LEMMA LetLocalStarts ==
  ASSUME Settles, Regular, NEW s \in Statements, s.do = "let", Begin(s), Declare, ~function.start,
         NEW t, t = SourceType(locals, globals, s.from),
         addLocal(s.name, t), UNCHANGED globals,
         Emit(CallBefore(s.from) \o AssignTo(Compile(s.from), Local(localIndex, t)))
  PROVE  Started(s)
<1> DEFINE new == [name |-> s.name, type |-> t, index |-> localIndex]
<1>1. MembersOfOneSlot /\ TypeOK /\ Shape /\ s.name \in Names
  BY StatementName DEF Regular, Settles
<1>2. /\ WellTyped(function, locals, globals, s) /\ t \in Types
      /\ function' = function /\ memory' = memory
  BY BeginFacts DEF WellTyped
<1>3. Grows /\ Holds(locals, globals)'
  BY <1>2, DeclareGrows
<1>4. locals' = Append(locals, new) /\ globals' = globals
  BY DEF addLocal
<1>5. PICK u, c, vs, ws :
        /\ u = Local(localIndex, t) /\ c = Lets(s, u) /\ vs = Append(locals, new) /\ ws = globals
  OBVIOUS
<1>6. Emit(c)
  BY <1>5 DEF Lets, Brings
<1>7. /\ u.type = t /\ declared(locals, globals) \subseteq declared(vs, ws)
      /\ WritesValid(declared(vs, ws), u)
  BY <1>1, <1>2, <1>5, LocalWritable
<1>8. Calm(s) => Plan(s, c, vs, ws)
  <2>1. ASSUME Calm(s)
        PROVE  Plan(s, Lets(s, Local(localIndex, t)), Append(locals, new), globals)
    BY <1>1, <1>2, <2>1, LetLocalPlan
  <2> HIDE DEF new
  <2> QED BY <1>5, <2>1
<1>9. \A i \in DOMAIN ws : ws[i].name \in Names
  BY <1>1, <1>5, GlobalNames
<1>10. c = CallBefore(s.from) \o Brings(s.from, u)
  BY <1>5 DEF Lets
<1>11. u.type = SourceType(locals, globals, s.from) /\ (s.do = "assign" => u = Resolve(s.to))
  BY <1>7
<1>12. vs = locals' /\ ws = globals'
  BY <1>4, <1>5
<1> HIDE DEF new
<1> QED BY <1>3, <1>6, <1>7, <1>8, <1>9, <1>10, <1>11, <1>12, StartsWith

(* A declaration in a file.                                                *)
LEMMA LetGlobalStarts ==
  ASSUME Settles, Regular, NEW s \in Statements, s.do = "let", Begin(s), Declare, function.start,
         NEW t, t = SourceType(locals, globals, s.from),
         globals' = Append(globals, [name |-> s.name, type |-> t]), UNCHANGED locals,
         Emit(CallBefore(s.from) \o AssignTo(Compile(s.from), Global(s.name, t)))
  PROVE  Started(s)
<1> DEFINE new == [name |-> s.name, type |-> t]
<1>1. MembersOfOneSlot /\ TypeOK /\ Shape /\ s.name \in Names
  BY StatementName DEF Regular, Settles
<1>2. /\ WellTyped(function, locals, globals, s) /\ t \in Types
      /\ function' = function /\ memory' = memory
  BY BeginFacts DEF WellTyped
<1>3. Grows /\ Holds(locals, globals)'
  BY <1>2, DeclareGrows
<1>4. locals' = locals /\ globals' = Append(globals, new)
  OBVIOUS
<1>5. PICK u, c, vs, ws :
        /\ u = Global(s.name, t) /\ c = Lets(s, u) /\ vs = locals /\ ws = Append(globals, new)
  OBVIOUS
<1>6. Emit(c)
  BY <1>5 DEF Lets, Brings
<1>7. /\ u.type = t /\ declared(locals, globals) \subseteq declared(vs, ws)
      /\ WritesValid(declared(vs, ws), u) /\ new \in Variable
  BY <1>1, <1>2, <1>5, GlobalWritable
<1>8. Calm(s) => Plan(s, c, vs, ws)
  <2>1. ASSUME Calm(s)
        PROVE  Plan(s, Lets(s, Global(s.name, t)), locals, Append(globals, new))
    BY <1>1, <1>2, <2>1, LetGlobalPlan
  <2> HIDE DEF new
  <2> QED BY <1>5, <2>1
<1> HIDE DEF new
<1>9. \A i \in DOMAIN ws : ws[i].name \in Names
  <2>1. ws \in Seq(Variable)
    BY <1>1, <1>5, <1>7 DEF TypeOK
  <2>2. \A i \in DOMAIN ws : ws[i] \in Variable
    BY <2>1, ElementType
  <2> QED BY <2>2 DEF Variable
<1>10. c = CallBefore(s.from) \o Brings(s.from, u)
  BY <1>5 DEF Lets
<1>11. u.type = SourceType(locals, globals, s.from) /\ (s.do = "assign" => u = Resolve(s.to))
  BY <1>7
<1>12. vs = locals' /\ ws = globals'
  BY <1>4, <1>5
<1> QED BY <1>3, <1>6, <1>7, <1>8, <1>9, <1>10, <1>11, <1>12, StartsWith

(* One of the two.                                                         *)
LEMMA LetStarts ==
  ASSUME Settles, Regular, NEW s \in Statements, CompileLet(s)
  PROVE  Started(s)
<1>1. PICK t : t = SourceType(locals, globals, s.from)
  OBVIOUS
<1>2. s.do = "let" /\ Begin(s) /\ Declare
  BY DEF CompileLet
<1>3. CASE function.start
  BY <1>1, <1>2, <1>3, LetGlobalStarts DEF CompileLet
<1>4. CASE ~function.start
  BY <1>1, <1>2, <1>4, LetLocalStarts DEF CompileLet
<1> QED BY <1>3, <1>4

(* An assignment.                                                          *)
LEMMA AssignStarts ==
  ASSUME Settles, Regular, NEW s \in Statements, CompileAssign(s)
  PROVE  Started(s)
<1>1. MembersOfOneSlot /\ TypeOK
  BY DEF Regular, Settles
<1>2. s.do = "assign" /\ Begin(s) /\ UNCHANGED <<locals, globals, store>>
  BY DEF CompileAssign
<1>3. /\ WellTyped(function, locals, globals, s)
      /\ function' = function /\ memory' = memory
  BY <1>2, BeginFacts
<1>4. Grows /\ Holds(locals, globals)'
  BY <1>2, <1>3, SameHolds
<1>5. PICK u, c, vs, ws : u = Resolve(s.to) /\ c = Assigns(s) /\ vs = locals /\ ws = globals
  OBVIOUS
<1>6. Emit(c) /\ c = CallBefore(s.from) \o Brings(s.from, u)
  BY <1>5 DEF CompileAssign, Assigns, Brings
<1>7. u.type = SourceType(locals, globals, s.from)
  <2>1. s.to \in Paths /\ Typed(s.to, SourceType(locals, globals, s.from))
    BY <1>2, <1>3 DEF Statements, WellTyped, Typed
  <2> QED BY <1>1, <1>5, <2>1, PathVariantType
<1>8. Calm(s) => WritesValid(declared(vs, ws), u)
  BY <1>1, <1>2, <1>3, <1>5, TargetValid
<1>9. Calm(s) => Plan(s, c, vs, ws)
  BY <1>1, <1>2, <1>3, <1>5, AssignsPlan
<1>10. \A i \in DOMAIN ws : ws[i].name \in Names
  BY <1>1, <1>5, GlobalNames
<1>11. declared(locals, globals) \subseteq declared(vs, ws)
  BY <1>5
<1>12. vs = locals' /\ ws = globals'
  BY <1>2, <1>5
<1> QED BY <1>2, <1>4, <1>5, <1>6, <1>7, <1>8, <1>9, <1>10, <1>11, <1>12, StartsWith

(* A return, of an object or of a value.                                   *)
LEMMA ReturnStarts ==
  ASSUME Settles, Regular, NEW s \in Statements, CompileReturn(s)
  PROVE  Started(s)
<1>1. MembersOfOneSlot /\ TypeOK
  BY DEF Regular, Settles
<1>2. s.do = "return" /\ Begin(s) /\ UNCHANGED <<locals, globals, store>>
  BY DEF CompileReturn
<1>3. /\ WellTyped(function, locals, globals, s)
      /\ function' = function /\ memory' = memory
  BY <1>2, BeginFacts
<1>4. Grows /\ Holds(locals, globals)'
  BY <1>2, <1>3, SameHolds
<1>5. /\ function.returns = SourceType(locals, globals, s.from) /\ function.returns \in Types
  BY <1>2, <1>3 DEF WellTyped
<1>6. PICK vs, ws : vs = locals /\ ws = globals
  OBVIOUS
<1>7. /\ \A i \in DOMAIN ws : ws[i].name \in Names
      /\ declared(locals, globals) \subseteq declared(vs, ws)
      /\ vs = locals' /\ ws = globals'
  BY <1>1, <1>2, <1>6, GlobalNames
<1>8. CASE Len(Slots[function.returns]) # 1
  <2>1. PICK u, c : u = MemoryData(0, function.returns) /\ c = ReturnMemory(s)
    OBVIOUS
  <2>2. Emit(c) /\ c = (CallBefore(s.from) \o Brings(s.from, u)) \o WriteBack
    BY <1>8, <2>1 DEF CompileReturn, ReturnMemory, Brings
  <2>3. u.type = SourceType(locals, globals, s.from)
    BY <1>5, <2>1 DEF MemoryData
  <2>4. WritesValid(declared(vs, ws), u)
    BY <1>5, <2>1, MemoryValid
  <2>5. Calm(s) => Plan(s, c, vs, ws)
    BY <1>1, <1>2, <1>3, <1>6, <1>8, <2>1, ReturnMemoryPlan, ReturnsPlan
  <2> QED BY <1>2, <1>4, <1>7, <2>2, <2>3, <2>4, <2>5, StartsWith
<1>9. CASE Len(Slots[function.returns]) = 1
  <2>1. PICK u, c : u = Result /\ c = ReturnResult(s)
    OBVIOUS
  <2>2. Emit(c) /\ c = (WriteBack \o CallBefore(s.from)) \o Brings(s.from, u)
    BY <1>9, <2>1 DEF CompileReturn, ReturnResult, Brings
  <2>3. u.type = SourceType(locals, globals, s.from) /\ WritesValid(declared(vs, ws), u)
    BY <1>1, <1>5, <1>9, <2>1, ResultValid
  <2>4. Calm(s) => Plan(s, c, vs, ws)
    BY <1>1, <1>2, <1>3, <1>6, <1>9, <2>1, ReturnResultPlan, ReturnsPlan
  <2> QED BY <1>2, <1>4, <1>7, <2>2, <2>3, <2>4, StartsWith
<1> QED BY <1>8, <1>9

(* The end of the body, which is never refused.                            *)
LEMMA EndStarts ==
  ASSUME Settles, CompileEnd
  PROVE  status' = "running" /\ settled'.known /\ Underway'
<1>1. TypeOK /\ MayEndWithoutReturn(function)
  BY DEF CompileEnd, Settles
<1>2. /\ UNCHANGED <<function, locals, globals, store, memory>> /\ statement' = EndOfBody
      /\ settled' = [known |-> TRUE, locals |-> localsNow, globals |-> globalsNow]
  BY DEF CompileEnd, scope
<1>3. Grows /\ Holds(locals, globals)'
  BY <1>2, SameHolds
<1>4. PICK c, vs, ws : c = WriteBack /\ vs = locals /\ ws = globals
  OBVIOUS
<1>5. Plan(EndOfBody, c, vs, ws)
  BY <1>1, <1>4, EndsPlan
<1>6. vs = locals' /\ ws = globals' /\ \A i \in DOMAIN ws : ws[i].name \in Names
  BY <1>1, <1>2, <1>4, GlobalNames
<1> DEFINE D == declared(vs, ws)
<1>7. Valid(c, D)
  BY <1>4, WriteBackValid
<1>8. VariableNames(D)
  BY <1>6, DeclaredNames DEF VariableNames
<1>9. D = declared(locals', globals')
  BY <1>6
<1>10. <<"result">> \in DOMAIN store' /\ \A d \in D : d[1] \in DOMAIN store'
  BY <1>2, <1>3, <1>9 DEF Settles, StoreHolds, Holds
<1> HIDE DEF D
<1>11. code' = c /\ status' = "running"
  <2>1. Emit(c)
    BY <1>4 DEF CompileEnd
  <2> QED BY <1>7, <1>9, <2>1 DEF Emit, Settles
<1>12. \A i \in DOMAIN c : Target(c[i].to)'
  BY <1>7, <1>8, <1>10, ValidTargets
<1>13. settled'.known /\ Underway'
  BY <1>2, <1>3, <1>5, <1>6, <1>11, <1>12, Planning
<1> QED BY <1>11, <1>13

-----------------------------------------------------------------------------
(* The phases of a call.                                                   *)

InitialArguments ==
  [i \in DOMAIN function.arguments |-> Initially("argument", function.arguments[i])]
ArgumentsStored ==
  \A p \in DOMAIN store : p[1] = "local" => store[p] = ArgumentValues(function)[p[2] + 1]
Phases ==
  /\ status = "arguments" =>
       /\ statement = Idle /\ code = <<>> /\ settled.known
       /\ settled.locals = InitialArguments /\ settled.globals = globalsNow
       /\ ArgumentsStored
  /\ status = "running" /\ statement = Idle => settled = Unsettled /\ code = <<>>
  /\ status = "running" /\ statement # Idle => settled.known /\ Underway

(* What nothing writes stays.                                              *)
LEMMA SameContents ==
  ASSUME UNCHANGED <<store, memory>>, NEW v
  PROVE  Contents(v)' = Contents(v)
<1>1. ASSUME NEW p
      PROVE  Read(p)' = Read(p)
  BY DEF Read, Load
<1> QED BY <1>1 DEF Contents

(* The variables with their values stay too.                               *)
LEMMA SameNows ==
  ASSUME UNCHANGED <<locals, globals, store, memory>>
  PROVE  localsNow' = localsNow /\ globalsNow' = globalsNow
<1>1. PICK vs, ws : vs = locals /\ ws = globals
  OBVIOUS
<1> DEFINE l(us) == [i \in DOMAIN us |->
             [name |-> us[i].name, type |-> us[i].type, value |-> Contents(Local(us[i].index, us[i].type))]]
           g(us) == [i \in DOMAIN us |->
             [name |-> us[i].name, type |-> us[i].type, value |-> Contents(Global(us[i].name, us[i].type))]]
<1>2. l(vs)' = l(vs)
  BY SameContents
<1>3. g(ws)' = g(ws)
  BY SameContents
<1>4. localsNow = l(vs) /\ localsNow' = l(vs)'
  BY <1>1 DEF localsNow
<1>5. globalsNow = g(ws) /\ globalsNow' = g(ws)'
  BY <1>1 DEF globalsNow
<1> QED BY <1>2, <1>3, <1>4, <1>5

(* And the globals alone.                                                  *)
LEMMA SameGlobals ==
  ASSUME UNCHANGED <<globals, store, memory>>
  PROVE  globalsNow' = globalsNow
<1>1. PICK ws : ws = globals
  OBVIOUS
<1> DEFINE g(us) == [i \in DOMAIN us |->
             [name |-> us[i].name, type |-> us[i].type, value |-> Contents(Global(us[i].name, us[i].type))]]
<1>3. g(ws)' = g(ws)
  BY SameContents
<1>5. globalsNow = g(ws) /\ globalsNow' = g(ws)'
  BY <1>1 DEF globalsNow
<1> QED BY <1>3, <1>5

(* At first the call waits for its arguments.                              *)
LEMMA InitPhases ==
  ASSUME Init
  PROVE  Phases
<1>1. ArgumentsStored
  BY DEF Init, ArgumentsStored
<1> QED BY <1>1 DEF Init, Phases, InitialArguments

(* It still does while they are added.                                     *)
LEMMA AddArgumentPhases ==
  ASSUME Phases, AddArgument
  PROVE  Phases'
<1>1. /\ status = "arguments" /\ status' = "arguments"
      /\ UNCHANGED <<function, globals, store, memory, code, statement, settled>>
  BY DEF AddArgument
<1>2. globalsNow' = globalsNow
  BY <1>1, SameGlobals
<1>3. ArgumentsStored'
  BY <1>1 DEF Phases, ArgumentsStored, ArgumentValues, Initially
<1>4. InitialArguments' = InitialArguments
  BY <1>1 DEF InitialArguments
<1> QED BY <1>1, <1>2, <1>3, <1>4 DEF Phases

(* Then no statement is under way.                                         *)
LEMMA EnterBodyPhases ==
  ASSUME Phases, EnterBody
  PROVE  Phases'
<1>1. /\ status = "arguments" /\ status' = "running" /\ settled' = Unsettled
      /\ UNCHANGED <<code, statement>>
  BY DEF EnterBody
<1> QED BY <1>1 DEF Phases, Idle

(* A statement is none of the others.                                      *)
LEMMA StatementKinds ==
  ASSUME NEW s \in Statements
  PROVE  s # Idle /\ s # EndOfBody /\ s.do \in {"let", "assign", "return"}
<1>1. s.do \in {"let", "assign", "return"}
  BY DEF Statements
<1> QED BY <1>1 DEF Idle, EndOfBody

(* A statement is under way, or refused.                                   *)
LEMMA StatementPhases ==
  ASSUME Settles, Regular, NEW s \in Statements, CompileLet(s) \/ CompileAssign(s) \/ CompileReturn(s)
  PROVE  Phases'
<1>1. Started(s) /\ Begin(s)
  BY LetStarts, AssignStarts, ReturnStarts DEF CompileLet, CompileAssign, CompileReturn
<1>2. statement' # Idle
  BY <1>1, BeginFacts, StatementKinds
<1>3. status' # "arguments"
  BY <1>1 DEF Started
<1>4. status' = "running" => settled'.known /\ Underway'
  BY <1>1 DEF Started
<1> QED BY <1>2, <1>3, <1>4 DEF Phases, Idle

(* So is the end of the body.                                              *)
LEMMA EndPhases ==
  ASSUME Settles, CompileEnd
  PROVE  Phases'
<1>1. statement' = EndOfBody /\ statement' # Idle
  BY DEF CompileEnd, EndOfBody, Idle
<1> QED BY <1>1, EndStarts DEF Phases, Idle

(* A promise holds as long as what will be, will still be.                 *)
LEMMA PromisesStill ==
  ASSUME UNCHANGED <<scope, statement, settled>>, NEW G, NEW ls, NEW gs,
         \A p, e : Finally(G, p, e) => Finally(G, p, e)', Promises(G, ls, gs)
  PROVE  Promises(G, ls, gs)'
<1>0. UNCHANGED <<function, locals, globals, statement, settled>>
  BY DEF scope
<1>1. PICK vs, ws, s, before, globalsBefore :
        /\ vs = locals /\ ws = globals /\ s = statement
        /\ before = settled.locals /\ globalsBefore = settled.globals
  OBVIOUS
<1>2. /\ LocalsEnd(G, vs, ls) /\ GlobalsEnd(G, ws, gs)
      /\ Leaves(s, before, globalsBefore, ls, gs) /\ Ends(G, s, before, globalsBefore)
  BY <1>1 DEF Promises
<1>3. LocalsEnd(G, vs, ls)' /\ GlobalsEnd(G, ws, gs)'
  BY <1>2, EndStill
<1>4. Ends(G, s, before, globalsBefore)'
  BY <1>0, <1>2, EndsStill
<1>5. Leaves(s, before, globalsBefore, ls, gs)'
  BY <1>0, <1>2 DEF Leaves
<1>6. LocalsEnd(G, locals, ls)' /\ GlobalsEnd(G, globals, gs)'
  BY <1>0, <1>1, <1>3 DEF LocalsEnd, GlobalsEnd
<1>7. Leaves(statement, settled.locals, settled.globals, ls, gs)'
  BY <1>0, <1>1, <1>5 DEF Leaves
<1>8. Ends(G, statement, settled.locals, settled.globals)'
  BY <1>0, <1>1, <1>4 DEF Ends, Returned
<1> QED BY <1>6, <1>7, <1>8 DEF Promises

(* An instruction keeps the promise.                                       *)
LEMMA InstructionPhases ==
  ASSUME TypeOK, Phases, Set \/ Store
  PROVE  Phases'
<1>1. /\ status = "running" /\ code # <<>>
      /\ UNCHANGED <<scope, statement, settled, status>>
  BY DEF Set, Store, Running
<1>2. statement # Idle /\ settled.known /\ Underway
  BY <1>1 DEF Phases
<1>3. PICK G, ls, gs : Pending(G) /\ Promises(G, ls, gs)
  BY <1>2 DEF Underway
<1>4. Pending(G)' /\ \A p, e : Finally(G, p, e) => Finally(G, p, e)'
  BY <1>3, PendingStep
<1>5. Promises(G, ls, gs)'
  BY <1>1, <1>3, <1>4, PromisesStill
<1>6. Underway'
  BY <1>4, <1>5 DEF Underway
<1> QED BY <1>1, <1>2, <1>6 DEF Phases, Idle

(* And when all ran, no statement is under way.                            *)
LEMMA DonePhases ==
  ASSUME Done
  PROVE  Phases'
<1>1. statement' = Idle /\ settled' = Unsettled /\ status' \in {"returned", "running"} /\ code' = <<>>
  BY DEF Done
<1> QED BY <1>1 DEF Phases, Idle

(* A step that changes nothing changes nothing here.                       *)
LEMMA StutterPhases ==
  ASSUME Phases, UNCHANGED vars
  PROVE  Phases'
<1>1. UNCHANGED <<scope, function, locals, globals, store, memory, code, statement, settled, status>>
  BY DEF vars, scope
<1>2. globalsNow' = globalsNow
  BY <1>1, SameGlobals
<1>3. status = "arguments" => ArgumentsStored'
  BY <1>1 DEF Phases, ArgumentsStored, ArgumentValues, Initially
<1>4. InitialArguments' = InitialArguments
  BY <1>1 DEF InitialArguments
<1>5. ASSUME Underway
      PROVE  Underway'
  <2>1. PICK G, ls, gs : Pending(G) /\ Promises(G, ls, gs)
    BY <1>5 DEF Underway
  <2>2. ASSUME NEW p
        PROVE  Read(p)' = Read(p) /\ (Legible(p)' <=> Legible(p))
    BY <1>1 DEF Read, Load, Legible, Target, InStore
  <2>3. \A p, e : Finally(G, p, e) => Finally(G, p, e)'
    BY <2>2 DEF Finally, Untouched
  <2>4. Promises(G, ls, gs)'
    BY <1>1, <2>1, <2>3, PromisesStill
  <2>5. Pending(G)'
    BY <1>1, <2>1, <2>2 DEF Pending, Sound, Untouched, Target, InStore
  <2> QED BY <2>4, <2>5 DEF Underway
<1> QED BY <1>1, <1>2, <1>3, <1>4, <1>5 DEF Phases, Idle

-----------------------------------------------------------------------------
(* The steps of Variables.                                                 *)

VisibleLocals == IF ~settled.known THEN localsNow ELSE settled.locals
VisibleGlobals == IF ~settled.known THEN globalsNow ELSE settled.globals

(* Statements are the same in both modules.                                *)
LEMMA SameStatements ==
  /\ Abstract!Statements = Statements /\ Abstract!Idle = Idle /\ Abstract!EndOfBody = EndOfBody
  /\ \A s : Abstract!PathsOf(s) = PathsOf(s)
  /\ \A f : Abstract!MayEndWithoutReturn(f) <=> MayEndWithoutReturn(f)
BY DEF Abstract!Statements, Abstract!Sources, Statements, Sources, Abstract!Idle, Idle,
       Abstract!EndOfBody, EndOfBody, Abstract!PathsOf, PathsOf,
       Abstract!MayEndWithoutReturn, MayEndWithoutReturn

(* And so is the lookup of globals.                                        *)
LEMMA SameIsGlobal ==
  ASSUME NEW ls, NEW gs, NEW x
  PROVE  Abstract!IsGlobal(ls, gs, x) <=> IsGlobal(ls, gs, x)
BY SameNames DEF Abstract!IsGlobal, IsGlobal

(* The value of a source in Variables.                                     *)
LEMMA ValueSettled ==
  ASSUME settled.known, NEW source
  PROVE  Abstract!Value(source) = ValueOf(settled.locals, settled.globals, source)
<1> DEFINE ls == settled.locals
           gs == settled.globals
           x == Head(source.path)
<1>1. /\ Abstract!Named(ls, x) = Named(ls, x) /\ Abstract!First(ls, x) = First(ls, x)
      /\ Abstract!First(gs, x) = First(gs, x)
      /\ Abstract!IsGlobal(ls, gs, x) <=> IsGlobal(ls, gs, x)
  BY SameNames, SameIsGlobal
<1>2. VisibleLocals = ls /\ VisibleGlobals = gs
  BY DEF VisibleLocals, VisibleGlobals
<1> HIDE DEF ls, gs, x
<1>3. Abstract!Value(source) =
        CASE source.of = "path" /\ Abstract!Named(ls, x) # {} ->
               Abstract!Get(ls[Abstract!First(ls, x)], source.path)
          [] source.of = "path" /\ Abstract!IsGlobal(ls, gs, x) ->
               Abstract!Get(gs[Abstract!First(gs, x)], source.path)
          [] source.of = "new" ->
               [k \in DOMAIN Slots[source.type] |-> <<"default", Slots[source.type][k]>>]
          [] source.of = "literal" -> << <<"literal", source.type>> >>
  BY <1>2 DEF Abstract!Value, VisibleLocals, VisibleGlobals, x
<1>4. Abstract!Value(source) =
        CASE source.of = "path" /\ Named(ls, x) # {} -> Abstract!Get(ls[First(ls, x)], source.path)
          [] source.of = "path" /\ IsGlobal(ls, gs, x) -> Abstract!Get(gs[First(gs, x)], source.path)
          [] source.of = "new" ->
               [k \in DOMAIN Slots[source.type] |-> <<"default", Slots[source.type][k]>>]
          [] source.of = "literal" -> << <<"literal", source.type>> >>
  BY <1>1, <1>3
<1> QED BY <1>4 DEF ValueOf, ls, gs, x

(* Where the call is not over.                                             *)
LEMMA RunningOutcome ==
  /\ status = "running" \/ status = "arguments" => outcomeNow = Abstract!Running
  /\ status' = "running" \/ status' = "arguments" => outcomeNow' = Abstract!Running
  /\ status' = "invalid" => outcomeNow' = [Abstract!Running EXCEPT !.is = "invalid"]
BY DEF outcomeNow, Abstract!Running

(* A refused statement is on a member of a global.                         *)
LEMMA RefusedStatement ==
  ASSUME TypeOK, ~settled.known, NEW s, ~Calm(s)
  PROVE  Abstract!OnMemberOfGlobal(s)
<1>1. PICK path \in PathsOf(s) : Behind(path)
  BY DEF Calm
<1>2. Len(path) > 1 /\ IsGlobal(locals, globals, Head(path))
  BY <1>1 DEF Behind
<1>3. Abstract!IsGlobal(localsNow, globalsNow, Head(path))
  BY <1>2, NowFacts, SameTypes
<1>4. path \in Abstract!PathsOf(s)
  BY SameStatements
<1> QED BY <1>2, <1>3, <1>4 DEF Abstract!OnMemberOfGlobal

(* To compile a statement is to choose it.                                 *)
LEMMA StatementChosen ==
  ASSUME Settles, Regular, Phases, NEW s \in Statements,
         CompileLet(s) \/ CompileAssign(s) \/ CompileReturn(s)
  PROVE  Abstract!Choose
<1>1. Started(s) /\ Begin(s)
  BY LetStarts, AssignStarts, ReturnStarts DEF CompileLet, CompileAssign, CompileReturn
<1>2. /\ status = "running" /\ statement = Idle /\ length < MaxLength
      /\ WellTyped(function, locals, globals, s) /\ statement' = s
      /\ settled' = [known |-> TRUE, locals |-> localsNow, globals |-> globalsNow]
      /\ function' = function /\ length' = length
  BY <1>1 DEF Begin, Ready
<1>3. ~settled.known
  BY <1>2 DEF Phases, Unsettled
<1>4. settled'.known /\ settled'.locals = localsNow /\ settled'.globals = globalsNow
  BY <1>2
<1>5. Abstract!WellTyped(function, localsNow, globalsNow, s)
  BY <1>2, NowFacts, SameTypes DEF Settles
<1>6. outcomeNow = Abstract!Running /\ statement = Abstract!Idle /\ s \in Abstract!Statements
  BY <1>2, RunningOutcome, SameStatements
<1>7. outcomeNow' = outcomeNow \/ (Abstract!OnMemberOfGlobal(s) /\ outcomeNow' = [Abstract!Running EXCEPT !.is = "invalid"])
  <2>1. CASE Calm(s)
    BY <1>1, <1>6, <2>1, RunningOutcome DEF Started
  <2>2. CASE ~Calm(s)
    BY <1>1, <1>3, <2>2, RefusedStatement, RunningOutcome DEF Started, Settles
  <2> QED BY <2>1, <2>2
<1> QED BY <1>2, <1>3, <1>4, <1>5, <1>6, <1>7 DEF Abstract!Choose

(* And so for the end of the body.                                         *)
LEMMA EndChosen ==
  ASSUME Settles, Phases, CompileEnd
  PROVE  Abstract!Choose
<1>1. /\ status = "running" /\ statement = Idle /\ MayEndWithoutReturn(function)
      /\ statement' = EndOfBody
      /\ settled' = [known |-> TRUE, locals |-> localsNow, globals |-> globalsNow]
      /\ function' = function /\ length' = length
  BY DEF CompileEnd, Ready, scope
<1>2. ~settled.known
  BY <1>1 DEF Phases, Unsettled
<1>3. settled'.known /\ settled'.locals = localsNow /\ settled'.globals = globalsNow
  BY <1>1
<1>4. /\ outcomeNow = Abstract!Running /\ statement = Abstract!Idle /\ statement' = Abstract!EndOfBody
      /\ Abstract!MayEndWithoutReturn(function)
  BY <1>1, RunningOutcome, SameStatements
<1>5. outcomeNow' = outcomeNow
  BY <1>4, EndStarts, RunningOutcome
<1> QED BY <1>1, <1>2, <1>3, <1>4, <1>5 DEF Abstract!Choose

(* Where no instruction is left, everything is as it was to become.        *)
LEMMA PromisesKept ==
  ASSUME NEW G, NEW ls, NEW gs, Pending(G), code = <<>>, Promises(G, ls, gs)
  PROVE  /\ localsNow = ls /\ globalsNow = gs
         /\ Leaves(statement, settled.locals, settled.globals, localsNow, globalsNow)
         /\ Ends(G, statement, settled.locals, settled.globals)
<1>1. LocalsEnd(G, locals, ls) /\ GlobalsEnd(G, globals, gs)
  BY DEF Promises
<1>2. ASSUME NEW i \in DOMAIN locals
      PROVE  Contents(Local(locals[i].index, locals[i].type)) = ls[i].value
  <2>1. PICK v : v = Local(locals[i].index, locals[i].type)
    OBVIOUS
  <2>2. Becomes(G, v, ls[i].value)
    BY <1>1, <2>1 DEF LocalsEnd
  <2> QED BY <2>1, <2>2, BecomesDone
<1>3. ASSUME NEW i \in DOMAIN globals
      PROVE  Contents(Global(globals[i].name, globals[i].type)) = gs[i].value
  <2>1. PICK v : v = Global(globals[i].name, globals[i].type)
    OBVIOUS
  <2>2. Becomes(G, v, gs[i].value)
    BY <1>1, <2>1 DEF GlobalsEnd
  <2> QED BY <2>1, <2>2, BecomesDone
<1>4. localsNow = ls
  BY <1>1, <1>2 DEF localsNow, LocalsEnd
<1>5. globalsNow = gs
  BY <1>1, <1>3 DEF globalsNow, GlobalsEnd
<1> QED BY <1>4, <1>5 DEF Promises

(* The call returns what the statement returns.                            *)
LEMMA Returns ==
  ASSUME NEW G, Pending(G), code = <<>>, Ends(G, statement, settled.locals, settled.globals),
         statement.do \in {"return", "end"}, status' = "returned",
         UNCHANGED <<function, store, memory>>
  PROVE  outcomeNow' = [is |-> "returned",
                        result |-> Returned(statement, settled.locals, settled.globals),
                        receiver |-> ReceiverOf(settled.locals)]
<1> DEFINE w == Returned(statement, settled.locals, settled.globals)
           r == ReceiverOf(settled.locals)
<1>1. ResultBecomes(G, w) /\ ReceiverBecomes(G, r)
  BY DEF Ends
<1>2. PICK u : u = IF ViaMemory(function.returns) THEN MemoryData(0, function.returns) ELSE Result
  OBVIOUS
<1>3. u = (IF ViaMemory(function.returns) THEN MemoryData(0, function.returns) ELSE Result)'
  BY <1>2 DEF Result
<1>4. Contents(u) = w
  BY <1>1, <1>2, BecomesDone DEF ResultBecomes
<1>5. Contents(u)' = w
  <2>1. Contents(u)' = Contents(u)
    BY SameContents
  <2> QED BY <1>4, <2>1
<1>6. PICK v : v = ReceiverData
  OBVIOUS
<1>7. v = ReceiverData'
  BY <1>6 DEF ReceiverData, ReceiverType
<1> DEFINE z == (IF function.writesBack THEN Contents(ReceiverData) ELSE <<>>)'
<1>8. z = r
  <2>1. CASE function.writesBack
    <3>1. Contents(v) = r
      BY <1>1, <1>6, <2>1, BecomesDone DEF ReceiverBecomes
    <3>2. Contents(v)' = Contents(v)
      BY SameContents
    <3>3. function'.writesBack
      BY <2>1
    <3>4. z = Contents(v)'
      BY <1>7, <3>3 DEF Contents
    <3> QED BY <3>1, <3>2, <3>4
  <2>2. CASE ~function.writesBack
    BY <1>1, <2>2 DEF ReceiverBecomes
  <2> QED BY <2>1, <2>2
<1>9. Contents(IF ViaMemory(function.returns) THEN MemoryData(0, function.returns) ELSE Result)' = w
  BY <1>3, <1>5 DEF Contents
<1>10. outcomeNow' = [is |-> "returned", result |-> w, receiver |-> z]
  BY <1>9 DEF outcomeNow
<1> HIDE DEF w, r, z
<1>11. outcomeNow' = [is |-> "returned", result |-> w, receiver |-> r]
  BY <1>8, <1>10
<1> QED BY <1>11 DEF w, r

(* When all its instructions ran, the statement is executed at once.       *)
LEMMA StatementDone ==
  ASSUME TypeOK, Phases, Done
  PROVE  Abstract!Let \/ Abstract!Assign \/ Abstract!Return \/ Abstract!End
<1> DEFINE s == statement
           ls == settled.locals
           gs == settled.globals
<1>1. /\ status = "running" /\ code = <<>> /\ s # Idle
      /\ statement' = Idle /\ settled' = Unsettled
      /\ UNCHANGED <<function, locals, globals, store, memory>>
      /\ length' = IF s.do = "end" THEN length ELSE length + 1
      /\ status' = IF s.do \in {"return", "end"} THEN "returned" ELSE "running"
  BY DEF Done, scope
<1>2. settled.known /\ Underway
  BY <1>1 DEF Phases
<1>3. ~settled'.known
  BY <1>1 DEF Unsettled
<1>4. PICK G : /\ Pending(G) /\ Leaves(s, ls, gs, localsNow, globalsNow) /\ Ends(G, s, ls, gs)
  <2>1. PICK G, as, bs : Pending(G) /\ Promises(G, as, bs)
    BY <1>2 DEF Underway
  <2> QED BY <1>1, <2>1, PromisesKept
<1>5. Leaves(s, ls, gs, localsNow', globalsNow')
  BY <1>1, <1>4, SameNows
<1>6. VisibleLocals = ls /\ VisibleGlobals = gs
  BY <1>2 DEF VisibleLocals, VisibleGlobals
<1>7. VisibleLocals' = localsNow' /\ VisibleGlobals' = globalsNow'
  BY <1>3 DEF VisibleLocals, VisibleGlobals
<1>8. \A source : Abstract!Value(source) = ValueOf(ls, gs, source)
  BY <1>2, ValueSettled
<1>9. outcomeNow = Abstract!Running /\ statement' = Abstract!Idle
  BY <1>1, RunningOutcome, SameStatements
<1>10. s.do \in {"let", "assign", "return", "end"}
  BY <1>1, StatementKinds DEF TypeOK, EndOfBody
<1>11. ASSUME NEW kind, s.do = kind
       PROVE  Abstract!Chosen(kind)
  BY <1>1, <1>9, <1>11 DEF Abstract!Chosen
<1> HIDE DEF ls, gs
<1>12. CASE s.do = "let"
  <2> DEFINE new == [name |-> s.name, type |-> Abstract!SourceType(ls, gs, s.from),
                     value |-> ValueOf(ls, gs, s.from)]
  <2>1. IF function.start THEN globalsNow' = Append(gs, new) /\ localsNow' = ls
        ELSE localsNow' = Append(ls, new) /\ globalsNow' = gs
    BY <1>5, <1>12 DEF Leaves
  <2>2. outcomeNow' = outcomeNow
    BY <1>1, <1>9, <1>12, RunningOutcome
  <2>3. Abstract!Chosen("let")
    BY <1>11, <1>12
  <2>4. new = [name |-> s.name, type |-> Abstract!SourceType(VisibleLocals, VisibleGlobals, s.from),
               value |-> Abstract!Value(s.from)]
    BY <1>6, <1>8
  <2> HIDE DEF new
  <2>5. IF function.start THEN VisibleGlobals' = Append(VisibleGlobals, new) /\ VisibleLocals' = VisibleLocals
        ELSE VisibleLocals' = Append(VisibleLocals, new) /\ VisibleGlobals' = VisibleGlobals
    BY <1>6, <1>7, <2>1
  <2>6. Abstract!Let
    BY <2>2, <2>3, <2>4, <2>5 DEF Abstract!Let, VisibleLocals, VisibleGlobals
  <2> QED BY <2>6
<1>13. CASE s.do = "assign"
  <2> DEFINE w == ValueOf(ls, gs, s.from)
  <2>1. IF Abstract!IsGlobal(ls, gs, Head(s.to))
          THEN globalsNow' = Abstract!PutNamed(gs, s.to, w) /\ localsNow' = ls
          ELSE localsNow' = Abstract!PutNamed(ls, s.to, w) /\ globalsNow' = gs
    BY <1>5, <1>13 DEF Leaves
  <2>2. outcomeNow' = outcomeNow
    BY <1>1, <1>9, <1>13, RunningOutcome
  <2>3. Abstract!Chosen("assign")
    BY <1>11, <1>13
  <2>4. w = Abstract!Value(s.from)
    BY <1>8
  <2> HIDE DEF w
  <2>5. IF Abstract!IsGlobal(VisibleLocals, VisibleGlobals, Head(s.to))
          THEN VisibleGlobals' = Abstract!PutNamed(VisibleGlobals, s.to, w) /\ VisibleLocals' = VisibleLocals
          ELSE VisibleLocals' = Abstract!PutNamed(VisibleLocals, s.to, w) /\ VisibleGlobals' = VisibleGlobals
    BY <1>6, <1>7, <2>1
  <2>6. Abstract!Assign
    BY <2>2, <2>3, <2>4, <2>5 DEF Abstract!Assign, VisibleLocals, VisibleGlobals
  <2> QED BY <2>6
<1>14. CASE s.do \in {"return", "end"}
  <2>1. localsNow' = ls /\ globalsNow' = gs
    BY <1>5, <1>14 DEF Leaves
  <2>2. VisibleLocals' = VisibleLocals /\ VisibleGlobals' = VisibleGlobals
    BY <1>6, <1>7, <2>1
  <2>3. outcomeNow' = [is |-> "returned", result |-> Returned(s, ls, gs), receiver |-> ReceiverOf(ls)]
    BY <1>1, <1>4, <1>14, Returns DEF ls, gs
  <2>4. Abstract!Receiver = ReceiverOf(ls)
    <3>1. Abstract!Receiver = IF function.writesBack THEN VisibleLocals[Len(function.arguments)].value ELSE <<>>
      BY DEF Abstract!Receiver, VisibleLocals
    <3> QED BY <1>6, <3>1 DEF ReceiverOf, Receiver
  <2>5. CASE s.do = "return"
    <3>1. Returned(s, ls, gs) = Abstract!Value(s.from)
      BY <1>8, <2>5 DEF Returned
    <3>2. Abstract!Chosen("return")
      BY <1>11, <2>5
    <3> QED BY <2>2, <2>3, <2>4, <3>1, <3>2 DEF Abstract!Return, VisibleLocals, VisibleGlobals
  <2>6. CASE s.do = "end"
    <3>1. Returned(s, ls, gs) = <<>>
      BY <2>6 DEF Returned
    <3>2. Abstract!Chosen("end")
      BY <1>11, <2>6
    <3> QED BY <2>2, <2>3, <2>4, <3>1, <3>2 DEF Abstract!End, VisibleLocals, VisibleGlobals
  <2> QED BY <1>14, <2>5, <2>6
<1> QED BY <1>10, <1>12, <1>13, <1>14

(* The other steps are no steps of Variables.                              *)
SameVisible ==
  /\ function' = function /\ statement' = statement /\ length' = length
  /\ VisibleLocals' = VisibleLocals /\ VisibleGlobals' = VisibleGlobals
  /\ outcomeNow' = outcomeNow

(* Where Variables sees no difference.                                     *)
LEMMA SameVisibleStutters ==
  ASSUME SameVisible
  PROVE  UNCHANGED Abstract!vars
BY DEF SameVisible, VisibleLocals, VisibleGlobals, Abstract!vars

(* It sees the arguments all along.                                        *)
LEMMA AddArgumentStutters ==
  ASSUME Phases, AddArgument
  PROVE  SameVisible
<1>1. /\ status = "arguments" /\ status' = "arguments"
      /\ UNCHANGED <<function, statement, settled, length>>
  BY DEF AddArgument
<1>2. settled.known /\ settled'.known
  BY <1>1 DEF Phases
<1>3. outcomeNow' = outcomeNow
  BY <1>1, RunningOutcome
<1> QED BY <1>1, <1>2, <1>3 DEF SameVisible, VisibleLocals, VisibleGlobals

(* It does not see single instructions.                                    *)
LEMMA InstructionStutters ==
  ASSUME Phases, Set \/ Store
  PROVE  SameVisible
<1>1. /\ status = "running" /\ status' = "running" /\ code # <<>>
      /\ UNCHANGED <<function, statement, settled, length>>
  BY DEF Set, Store, Running, scope
<1>2. settled.known /\ settled'.known
  BY <1>1 DEF Phases
<1>3. outcomeNow' = outcomeNow
  BY <1>1, RunningOutcome
<1> QED BY <1>1, <1>2, <1>3 DEF SameVisible, VisibleLocals, VisibleGlobals

(* Nor where nothing changes.                                              *)
LEMMA UnchangedStutters ==
  ASSUME UNCHANGED vars
  PROVE  SameVisible
<1>1. UNCHANGED <<function, locals, globals, store, memory, statement, settled, length, status>>
  BY DEF vars, scope
<1>2. localsNow' = localsNow /\ globalsNow' = globalsNow
  BY <1>1, SameNows
<1>3. outcomeNow' = outcomeNow
  <2>1. PICK u, v : /\ u = IF ViaMemory(function.returns) THEN MemoryData(0, function.returns) ELSE Result
                    /\ v = ReceiverData
    OBVIOUS
  <2>2. /\ u = (IF ViaMemory(function.returns) THEN MemoryData(0, function.returns) ELSE Result)'
        /\ v = ReceiverData'
    BY <1>1, <2>1 DEF Result, ReceiverData, ReceiverType
  <2> DEFINE shown(a, b) ==
               CASE status = "returned" ->
                      [is |-> "returned", result |-> Contents(a),
                       receiver |-> IF function.writesBack THEN Contents(b) ELSE <<>>]
                 [] status = "invalid" -> [is |-> "invalid", result |-> <<>>, receiver |-> <<>>]
                 [] OTHER -> [is |-> "running", result |-> <<>>, receiver |-> <<>>]
  <2>3. shown(u, v)' = shown(u, v)
    BY <1>1, SameContents
  <2>4. outcomeNow = shown(u, v)
    BY <2>1 DEF outcomeNow
  <2>5. outcomeNow' = shown(u, v)'
    BY <2>2 DEF outcomeNow, Contents
  <2> QED BY <2>3, <2>4, <2>5
<1> QED BY <1>1, <1>2, <1>3 DEF SameVisible, VisibleLocals, VisibleGlobals

(* The arguments are in the first wasm locals, where the constructor of    *)
(* ir::Function puts the variables that are to hold them.                  *)
LEMMA ArgumentsInPlace ==
  ASSUME TypeOK, StoreHolds, Shape, Phases, status = "arguments", Len(locals) = Len(function.arguments)
  PROVE  localsNow = InitialArguments
<1> DEFINE as == function.arguments
           n == Len(locals)
           values == [i \in DOMAIN as |-> Initially("argument", as[i]).value]
           o == [i \in 1..(n + 1) |-> IF i = n + 1 THEN localIndex ELSE locals[i].index]
           S == {"argument"} \X Names \X Nat
<1>1. /\ as \in Seq(Variable) /\ locals \in Seq(LocalVariable) /\ n \in Nat
      /\ DOMAIN locals = 1..n /\ DOMAIN as = 1..n /\ Len(as) = n
      /\ SlotsOf(locals) \in Seq(Seq(Basis)) /\ Len(SlotsOf(locals)) = n
  BY FunctionType, StateFacts, LocalFacts
<1>2. \A i \in 1..n : /\ as[i].name \in Names /\ as[i].type \in Types
                      /\ locals[i].name = as[i].name /\ locals[i].type = as[i].type
  <2> TAKE i \in 1..n
  <2>1. as[i] \in Variable
    BY <1>1, ElementType
  <2>2. i \in DOMAIN locals /\ i <= Len(function.arguments)
    BY <1>1
  <2>3. locals[i].name = as[i].name /\ locals[i].type = as[i].type
    BY <2>2 DEF Shape
  <2> QED BY <2>1, <2>3 DEF Variable
<1>3. ASSUME NEW i \in 1..n
      PROVE  /\ values[i] = [k \in DOMAIN Slots[as[i].type] |-> <<"argument", as[i].name, k>>]
             /\ values[i] \in Seq(S) /\ Len(values[i]) = Len(SlotsOf(locals)[i])
  <2> DEFINE L == Slots[as[i].type]
             w == [k \in DOMAIN L |-> <<"argument", as[i].name, k>>]
  <2>1. values[i] = w
    BY <1>1 DEF Initially
  <2>2. L \in Seq(Basis) /\ Len(L) \in Nat /\ DOMAIN L = 1..Len(L)
    BY <1>2, SlotsType
  <2>3. SlotsOf(locals)[i] = L
    BY <1>1, <1>2 DEF SlotsOf
  <2> HIDE DEF L, values
  <2>4. w \in Seq(S) /\ Len(w) = Len(L)
    <3>1. \A k \in 1..Len(L) : <<"argument", as[i].name, k>> \in S
      BY <1>2
    <3>2. w = [k \in 1..Len(L) |-> <<"argument", as[i].name, k>>]
      BY <2>2
    <3> HIDE DEF S, w
    <3> QED BY <2>2, <3>1, <3>2
  <2> QED BY <2>1, <2>3, <2>4 DEF L
<1>4. values \in Seq(Seq(S)) /\ Len(values) = n
  <2>1. values = [i \in 1..n |-> values[i]]
    BY <1>1
  <2>2. \A i \in 1..n : values[i] \in Seq(S)
    BY <1>3
  <2>3. n \in Nat
    BY <1>1
  <2> HIDE DEF values, S, n
  <2> QED BY <2>1, <2>2, <2>3
<1>5. Offsets(SlotsOf(locals), o)
  BY <1>1 DEF Shape, Packed
<1>6. ArgumentValues(function) = FlattenSeq(values)
  BY DEF ArgumentValues
<1> HIDE DEF values, S, n
<1>7. Offsets(values, o)
  BY <1>1, <1>3, <1>4, <1>5 DEF Offsets
<1>8. \A i \in 1..n : o[i] = locals[i].index
  BY <1>1 DEF n
<1> HIDE DEF o
<1>9. ASSUME NEW i \in 1..n, NEW j \in 1..Len(values[i])
      PROVE  FlattenSeq(values)[o[i] + j] = values[i][j]
  <2>1. i \in 1..Len(values)
    BY <1>4
  <2>2. /\ FlattenSeq(values) \in Seq(S)
        /\ FlattenSeq(values)[o[i] + j] = values[i][j]
        /\ o[i] + j \in 1..Len(FlattenSeq(values))
    BY <1>4, <1>7, <2>1, Flattened
  <2> QED BY <2>2
<1>10. ASSUME NEW i \in 1..n, NEW k \in DOMAIN Slots[locals[i].type]
       PROVE  Read(<<"local", locals[i].index + k - 1>>) = <<"argument", as[i].name, k>>
  <2> DEFINE b == locals[i].index + k - 1
             p == <<"local", b>>
             L == Slots[as[i].type]
  <2>0. i \in DOMAIN locals /\ locals[i].type = as[i].type /\ as[i].type \in Types
    BY <1>1, <1>2
  <2>1. /\ locals[i].index \in Nat /\ k \in DOMAIN L /\ k \in Nat /\ k \in 1..Len(values[i])
    <3>1. locals[i].index \in Nat
      BY <1>1, <2>0, LocalFacts
    <3>2. L \in Seq(Basis) /\ Len(L) \in Nat
      BY <2>0, SlotsType
    <3>3. k \in DOMAIN L /\ k \in Nat
      BY <2>0, <3>2
    <3>4. Len(values[i]) = Len(L)
      BY <1>3, <2>0 DEF SlotsOf
    <3> QED BY <3>1, <3>2, <3>3, <3>4
  <2>2. p \in DOMAIN store
    <3>1. <<p, Slots[locals[i].type][k]>> \in declared(locals, globals)
      BY <1>1, DeclaredSlots DEF Shape
    <3>2. declared(locals, globals) = declared(as, globals)
      <4>1. [j \in DOMAIN locals |-> Slots[locals[j].type]] = [j \in DOMAIN as |-> Slots[as[j].type]]
        BY <1>1, <1>2
      <4>2. wasmLocals(locals) = wasmLocals(as)
        BY <4>1 DEF wasmLocals
      <4> QED BY <4>2 DEF declared
    <3>3. \A d \in declared(as, globals) : d[1] \in DOMAIN store
      BY DEF StoreHolds, Holds
    <3> HIDE DEF p
    <3>4. <<p, Slots[locals[i].type][k]>>[1] \in DOMAIN store
      BY <3>1, <3>2, <3>3
    <3> QED BY <3>4
  <2>3. store[p] = ArgumentValues(function)[b + 1]
    BY <2>2 DEF Phases, ArgumentsStored
  <2>4. b + 1 = o[i] + k
    BY <1>8, <2>1
  <2>5. ArgumentValues(function)[o[i] + k] = values[i][k]
    BY <1>6, <1>9, <2>1
  <2>6. values[i][k] = <<"argument", as[i].name, k>>
    BY <1>3, <2>1
  <2>7. store[p] = <<"argument", as[i].name, k>>
    <3> HIDE DEF b, p, o
    <3> QED BY <2>3, <2>4, <2>5, <2>6
  <2> QED BY <2>7 DEF Read
<1>11. ASSUME NEW i \in 1..n
       PROVE  Contents(Local(locals[i].index, locals[i].type)) = Initially("argument", as[i]).value
  <2> DEFINE v == Local(locals[i].index, locals[i].type)
             L == Slots[as[i].type]
  <2>1. v.type = locals[i].type /\ locals[i].type = as[i].type
    BY <1>2, LocalSlot
  <2>2. \A k \in DOMAIN L : Place(v, L, k) = <<"local", locals[i].index + k - 1>>
    BY LocalSlot
  <2> HIDE DEF v
  <2>3. \A k \in DOMAIN L : Read(Place(v, L, k)) = <<"argument", as[i].name, k>>
    BY <1>10, <2>1, <2>2
  <2>4. Contents(v) = [k \in DOMAIN L |-> <<"argument", as[i].name, k>>]
    BY <2>1, <2>3 DEF Contents
  <2> QED BY <2>4 DEF v, Initially
<1>12. ASSUME NEW i \in 1..n
       PROVE  [name |-> locals[i].name, type |-> locals[i].type,
               value |-> Contents(Local(locals[i].index, locals[i].type))] = Initially("argument", as[i])
  BY <1>2, <1>11 DEF Initially
<1> QED BY <1>1, <1>12 DEF localsNow, InitialArguments

(* To enter the body changes nothing: the arguments are in their places.   *)
LEMMA EnterBodyStutters ==
  ASSUME TypeOK, StoreHolds, Shape, Phases, EnterBody
  PROVE  SameVisible
<1>1. /\ status = "arguments" /\ status' = "running" /\ settled' = Unsettled
      /\ Len(locals) = Len(function.arguments)
      /\ UNCHANGED <<function, locals, globals, store, memory, statement, length>>
  BY DEF EnterBody, scope
<1>2. settled.known /\ settled.locals = InitialArguments /\ settled.globals = globalsNow
  BY <1>1 DEF Phases
<1>3. ~settled'.known
  BY <1>1 DEF Unsettled
<1>4. localsNow' = InitialArguments /\ globalsNow' = globalsNow
  BY <1>1, ArgumentsInPlace, SameNows
<1>5. outcomeNow' = outcomeNow
  BY <1>1, RunningOutcome
<1> QED BY <1>1, <1>2, <1>3, <1>4, <1>5 DEF SameVisible, VisibleLocals, VisibleGlobals

(* The globals hold what they held before the call.                        *)
LEMMA GlobalSlotAtFirst ==
  ASSUME Init, NEW i \in DOMAIN globals, NEW k \in DOMAIN Slots[globals[i].type]
  PROVE  Read(Place(Global(globals[i].name, globals[i].type), Slots[globals[i].type], k))
           = <<"global", globals[i].name, k>>
<1> DEFINE x == globals[i].name
           t == globals[i].type
           L == Slots[t]
           v == Global(x, t)
           p == Place(v, L, k)
<1>1. TypeOK /\ globals = function.globals
  BY InitHolds DEF Init
<1>2. x \in Names /\ t \in Types /\ L \in Seq(Basis) /\ k \in Nat
  <2>1. x \in Names /\ t \in Types
    BY <1>1, GlobalFacts
  <2> HIDE DEF t
  <2>2. L \in Seq(Basis) /\ Len(L) \in Nat
    BY <2>1, SlotsType
  <2>3. k \in DOMAIN L
    BY DEF t
  <2> HIDE DEF L
  <2> QED BY <2>1, <2>2, <2>3
<1>3. p = IF Len(L) = 1 THEN <<"global", x>> ELSE <<"global", x, k - 1>>
  BY GlobalSlot
<1>4. <<p, L[k]>> \in slots(v) /\ v.type = t
  <2>1. v.type = t
    BY GlobalSlot
  <2> HIDE DEF v
  <2> QED BY <2>1 DEF slots
<1> HIDE DEF p
<1>5. p \in DOMAIN store
  <2>1. <<p, L[k]>> \in declared(function.arguments, function.globals)
    BY <1>1, <1>4 DEF declared
  <2>2. <<p, L[k]>>[1] \in {d[1] : d \in declared(function.arguments, function.globals)}
    BY <2>1
  <2> QED BY <2>2 DEF Init
<1>6. p[1] = "global" /\ p[2] = x
  BY <1>3
<1>7. store[p] = <<"global", GlobalAt(function, p).name, SlotOf(p)>>
  BY <1>5, <1>6 DEF Init
<1>8. GlobalAt(function, p).name = x
  <2> DEFINE C == {function.globals[j] : j \in DOMAIN function.globals}
             P(g) == \E b \in Basis : <<p, b>> \in slots(Global(g.name, g.type))
  <2>1. globals[i] \in C /\ P(globals[i])
    <3>1. L[k] \in Basis
      BY <1>2
    <3> QED BY <1>1, <1>4, <3>1
  <2>2. GlobalAt(function, p) = CHOOSE g \in C : P(g)
    BY DEF GlobalAt
  <2>3. ASSUME NEW g \in C, P(g)
        PROVE  g.name = x
    <3> DEFINE u == Global(g.name, g.type)
    <3>1. PICK b \in Basis : <<p, b>> \in slots(u)
      BY <2>3
    <3>2. PICK j \in DOMAIN Slots[u.type] : <<p, b>> = <<Place(u, Slots[u.type], j), Slots[u.type][j]>>
      BY <3>1 DEF slots
    <3>3. p = Place(u, Slots[u.type], j)
      BY <3>2
    <3>4. p[2] = g.name
      BY <3>3, GlobalSlot
    <3> QED BY <1>6, <3>4
  <2> HIDE DEF C, P
  <2>4. P(GlobalAt(function, p)) /\ GlobalAt(function, p) \in C
    BY <2>1, <2>2
  <2> QED BY <2>3, <2>4
<1>9. SlotOf(p) = k
  <2>1. CASE Len(L) = 1
    <3>1. k = 1
      BY <1>2, <2>1
    <3>2. Len(p) = 2
      BY <1>3, <2>1
    <3> QED BY <3>1, <3>2 DEF SlotOf
  <2>2. CASE Len(L) # 1
    <3>1. Len(p) = 3 /\ p[3] = k - 1
      BY <1>3, <2>2
    <3> QED BY <1>2, <3>1 DEF SlotOf
  <2> QED BY <2>1, <2>2
<1>10. Read(p) = <<"global", x, k>>
  BY <1>6, <1>7, <1>8, <1>9 DEF Read
<1> QED BY <1>10 DEF p

(* The initial states are initial states of Variables.                     *)
LEMMA InitVariables ==
  ASSUME Init
  PROVE  Abstract!Init
<1>1. /\ settled.known /\ settled.locals = InitialArguments /\ settled.globals = globalsNow
      /\ function \in Functions /\ statement = Idle /\ length = 0 /\ status = "arguments"
      /\ globals = function.globals
  BY DEF Init, InitialArguments
<1>2. ASSUME NEW i \in DOMAIN globals
      PROVE  [name |-> globals[i].name, type |-> globals[i].type,
              value |-> Contents(Global(globals[i].name, globals[i].type))] = Initially("global", globals[i])
  <2> DEFINE v == Global(globals[i].name, globals[i].type)
             L == Slots[globals[i].type]
  <2>1. v.type = globals[i].type
    BY GlobalSlot
  <2>2. \A k \in DOMAIN L : Read(Place(v, L, k)) = <<"global", globals[i].name, k>>
    BY GlobalSlotAtFirst
  <2> HIDE DEF v
  <2>3. Contents(v) = [k \in DOMAIN L |-> <<"global", globals[i].name, k>>]
    BY <2>1, <2>2 DEF Contents
  <2> QED BY <2>3 DEF v, Initially
<1>3. globalsNow = [i \in DOMAIN function.globals |-> Initially("global", function.globals[i])]
  BY <1>1, <1>2 DEF globalsNow
<1>4. \A kind, v : Abstract!Initially(kind, v) = Initially(kind, v)
  BY DEF Abstract!Initially, Initially
<1>5. /\ settled.locals = [i \in DOMAIN function.arguments |-> Abstract!Initially("argument", function.arguments[i])]
      /\ settled.globals = [i \in DOMAIN function.globals |-> Abstract!Initially("global", function.globals[i])]
  BY <1>1, <1>3, <1>4 DEF InitialArguments
<1>6. outcomeNow = Abstract!Running /\ statement = Abstract!Idle
  BY <1>1, RunningOutcome, SameStatements
<1> QED BY <1>1, <1>5, <1>6 DEF Abstract!Init

(* Every step is a step of Variables, or none.                             *)
LEMMA VariablesStep ==
  ASSUME Regular, Inv, Shape, Phases, [Next]_vars
  PROVE  Shape' /\ Phases' /\ [Abstract!Next]_Abstract!vars
<1>1. TypeOK /\ LocalsDisjoint /\ StoreHolds
  BY DEF Inv
<1>2. Shape'
  BY <1>1, ShapeStep
<1>3. CASE AddArgument
  BY <1>2, <1>3, AddArgumentPhases, AddArgumentStutters, SameVisibleStutters
<1>4. CASE EnterBody
  BY <1>1, <1>2, <1>4, EnterBodyPhases, EnterBodyStutters, SameVisibleStutters
<1>5. ASSUME Ready, NEW s \in Statements, CompileLet(s) \/ CompileAssign(s) \/ CompileReturn(s)
      PROVE  Phases' /\ Abstract!Choose
  <2>1. Settles
    BY <1>1, <1>5 DEF Settles, Ready
  <2> QED BY <1>5, <2>1, StatementPhases, StatementChosen
<1>6. CASE CompileEnd
  <2>1. Settles
    BY <1>1, <1>6 DEF Settles, CompileEnd, Ready
  <2> QED BY <1>2, <1>6, <2>1, EndPhases, EndChosen DEF Abstract!Next
<1>7. CASE Set \/ Store
  BY <1>1, <1>2, <1>7, InstructionPhases, InstructionStutters, SameVisibleStutters
<1>8. CASE Done
  BY <1>1, <1>2, <1>8, DonePhases, StatementDone DEF Abstract!Next
<1>9. CASE UNCHANGED vars
  BY <1>2, <1>9, StutterPhases, UnchangedStutters, SameVisibleStutters
<1> QED BY <1>2, <1>3, <1>4, <1>5, <1>6, <1>7, <1>8, <1>9 DEF Next, Abstract!Next

(* What the generated code does to variables, members, memory and the      *)
(* caller is what Variables promises, for all classes and functions that   *)
(* are Regular and bodies of any length: assignTo... of all variants, the  *)
(* constructor of a class, and the postExprRefs_ that leave the receiver   *)
(* behind the result.                                                      *)
THEOREM StorageImplementsVariables ==
  ASSUME Regular
  PROVE  Spec => ImplementsVariables
<1>1. Init => Shape /\ Phases /\ Abstract!Init
  BY ShapeInit, InitPhases, InitVariables
<1>2. Inv /\ Shape /\ Phases /\ [Next]_vars => Shape' /\ Phases' /\ [Abstract!Next]_Abstract!vars
  BY VariablesStep
<1> QED BY <1>1, <1>2, Invariance, PTL DEF Spec, ImplementsVariables, Abstract!Spec
=============================================================================
