------------------------------ MODULE Storage -------------------------------
(***************************************************************************)
(* Where values live in the code the compiler makes: every variable is one *)
(* wasm local or global per slot of its type, a constructor leaves an      *)
(* object of several slots in memory at 0, and a function returns such an  *)
(* object there, with the receiver of a method behind it (src/ir/local.cpp,*)
(* global.cpp, memory_data.cpp, stack_data.cpp, function.cpp and the       *)
(* handlers in src/compiler.cpp).                                          *)
(*                                                                         *)
(* One function is compiled and run.  Compiling a statement reads nothing  *)
(* that running one writes, so that each statement is compiled when it is  *)
(* the next to run; its instructions then run one by one.                  *)
(***************************************************************************)
EXTENDS Layout

CONSTANT MaxLength   (* bounds the statements of a body                    *)
ASSUME MaxLengthAssumption == MaxLength \in Nat

VARIABLES
  function,    (* currentFunction_: its signature and flags                *)
  locals,      (* locals_: name, type, index_                              *)
  localIndex,  (* localIndex_                                              *)
  globals,     (* resolver_.globals() and the globals of the module        *)
  store,       (* wasm locals, globals and the function's result           *)
  memory,      (* the bytes written: which byte of which value             *)
  code,        (* the instructions of the statement still to run           *)
  statement,   (* the statement that runs                                  *)
  settled,     (* history: the variables when that statement began         *)
  length,      (* the statements that ran                                  *)
  status       (* "arguments" until the function has its arguments, then   *)
               (* "running", "returned", or "invalid": the module does not *)
               (* validate                                                 *)
scope == <<function, locals, localIndex, globals>>
vars == <<scope, store, memory, code, statement, settled, length, status>>

-----------------------------------------------------------------------------
(* An ir::Variant: a Local or MemoryData at an index or a position, a      *)
(* Global at a name, a StackData that is a list of expressions.  Each of   *)
(* its slots has a place, L being underlyingTypes() of the value moved:    *)
(* the assignToX functions of the four classes agree on where.             *)

Local(index, type) == [in |-> "local", at |-> index, type |-> type]
Global(name, type) == [in |-> "global", at |-> name, type |-> type]
MemoryData(position, type) == [in |-> "memory", at |-> position, type |-> type]
StackData(refs, type) == [in |-> "stack", at |-> refs, type |-> type]
Result == StackData(<< <<"result">> >>, function.returns)

(* VariantType::getSize of a tuple.                                        *)
getSize(L) ==
  LET size[k \in 0..Len(L)] == IF k = 0 THEN 0 ELSE size[k - 1] + Bytes[L[k]] IN size[Len(L)]

LocalPlace(v, L, k) == <<"local", v.at + k - 1>>
GlobalPlace(v, L, k) == IF Len(L) = 1 THEN <<"global", v.at>> ELSE <<"global", v.at, k - 1>>
MemoryPlaceBySlots(v, L, k) == <<"memory", v.at + 4 * (k - 1), L[k]>>        \* mutant
MemoryPlace(v, L, k) == <<"memory", v.at + getSize(SubSeq(L, 1, k - 1)), L[k]>>
StackPlace(v, L, k) == v.at[Len(v.at) - Len(L) + k]
Place(v, L, k) ==
  CASE v.in = "local" -> LocalPlace(v, L, k)
    [] v.in = "global" -> GlobalPlace(v, L, k)
    [] v.in = "memory" -> MemoryPlace(v, L, k)
    [] v.in = "stack" -> StackPlace(v, L, k)

(* Variant::assignTo: slot by slot, as many as the source has.             *)
AssignTo(source, target) ==
  LET L == Slots[source.type]
  IN  [k \in DOMAIN L |-> [from |-> Place(source, L, k), to |-> Place(target, L, k)]]

-----------------------------------------------------------------------------
(* Resolver: names, and members by Local::initMembers (the place of the    *)
(* member in the list of members is added to the index) and                *)
(* Global::initMembers (the global that has the member's name).            *)

LocalMember(v, m) ==
  Local(v.at + MemberIndex(v.type, m) - 1, MemberType(v.type, m))
GlobalMember(v, m) == Global(m, MemberType(v.type, m))
Member(v, m) == IF v.in = "local" THEN LocalMember(v, m) ELSE GlobalMember(v, m)
ResolveIdentifier(x) ==
  IF Named(locals, x) # {}
    THEN LET local == locals[First(locals, x)] IN Local(local.index, local.type)
    ELSE Global(x, globals[First(globals, x)].type)
Resolve(path) ==
  LET variant[k \in 1..Len(path)] ==
        IF k = 1 THEN ResolveIdentifier(path[1]) ELSE Member(variant[k - 1], path[k])
  IN  variant[Len(path)]

(* compileExpression.  A constructor of several slots stores its defaults  *)
(* at 0 and the caller loads them from there, one of one slot returns it,  *)
(* one without slots does nothing.                                         *)
Defaults(type) ==
  StackData([k \in DOMAIN Slots[type] |-> <<"default", Slots[type][k]>>], type)
ViaMemory(type) == Len(Slots[type]) > 1
Constructor(type) ==
  IF ViaMemory(type) THEN AssignTo(Defaults(type), MemoryData(0, type)) ELSE <<>>
CallBefore(source) == IF source.of = "new" THEN Constructor(source.type) ELSE <<>>
Compile(source) ==
  CASE source.of = "path" -> Resolve(source.path)
    [] source.of = "new" /\ ViaMemory(source.type) -> MemoryData(0, source.type)
    [] source.of = "new" /\ ~ViaMemory(source.type) -> Defaults(source.type)
    [] source.of = "literal" -> StackData(<< <<"literal", source.type>> >>, source.type)

(* postExprRefs_: the last argument, behind the result in memory.          *)
ReceiverType == function.arguments[Len(function.arguments)].type
ReceiverData == MemoryData(getSize(Slots[function.returns]), ReceiverType)
WriteBackLastLocal ==                                               \* mutant
  IF function.writesBack
    THEN LET local == locals[Len(locals)]
         IN  AssignTo(Local(local.index, local.type), ReceiverData)
    ELSE <<>>
WriteBack ==
  IF function.writesBack
    THEN AssignTo(Local(locals[Len(function.arguments)].index, ReceiverType), ReceiverData)
    ELSE <<>>

-----------------------------------------------------------------------------
(* The wasm machine.  A value is named for where it came from.  A load     *)
(* returns a value if it reads all the bytes of one, in their order.       *)

(* finalize(): the wasm locals the function declares.                      *)
wasmLocals(variables) == FlattenSeq([i \in DOMAIN variables |-> Slots[variables[i].type]])
slots(v) == {<<Place(v, Slots[v.type], k), Slots[v.type][k]>> : k \in DOMAIN Slots[v.type]}
declared(variables, gs) ==
  {<< <<"local", i - 1>>, wasmLocals(variables)[i]>> : i \in DOMAIN wasmLocals(variables)}
    \cup UNION {slots(Global(gs[i].name, gs[i].type)) : i \in DOMAIN gs}

(* An instruction copies one wasm value from a place to another.           *)
Places ==
  ({"local"} \X Nat) \cup ({"global"} \X (Names \cup FieldNames))
    \cup ({"global"} \X (Names \cup FieldNames) \X Nat) \cup ({"memory"} \X Nat \X Basis)
    \cup ({"default", "literal"} \X Basis) \cup {<<"result">>}
Instruction == [from: Places, to: Places]

(* What the validator lets an instruction read or write as a type, where   *)
(* these wasm locals and globals are declared.                             *)
Writable(declarations, place, type) ==
  \/ <<place, type>> \in declarations
  \/ place[1] = "memory" /\ place[3] = type
  \/ place = <<"result">> /\ Slots[function.returns] = <<type>>
Readable(declarations, place, type) ==
  \/ Writable(declarations, place, type)
  \/ place \in {<<"default", type>>, <<"literal", type>>}
Valid(instructions, declarations) ==
  /\ instructions \in Seq(Instruction)
  /\ \A i \in DOMAIN instructions : \E t \in Basis :
       /\ Readable(declarations, instructions[i].from, t)
       /\ Writable(declarations, instructions[i].to, t)

BytesOf(place) == {<<place[2] + j, j>> : j \in 0..(Bytes[place[3]] - 1)}
Load(place) ==
  LET whole(v) == \A b \in BytesOf(place) :
        b[1] \in DOMAIN memory /\ memory[b[1]] = [value |-> v, type |-> place[3], byte |-> b[2]]
  IN  IF place[2] \in DOMAIN memory /\ whole(memory[place[2]].value)
        THEN memory[place[2]].value ELSE <<"mangled">>
Stored(place, v) ==
  LET addresses == {b[1] : b \in BytesOf(place)}
  IN  [a \in DOMAIN memory \cup addresses |->
         IF a \in addresses THEN [value |-> v, type |-> place[3], byte |-> a - place[2]] ELSE memory[a]]
Read(place) ==
  CASE place[1] \in {"local", "global", "result"} -> store[place]
    [] place[1] = "memory" -> Load(place)
    [] OTHER -> place

-----------------------------------------------------------------------------
(* The variables as the abstract module has them: as they are, or as they  *)
(* were when the call or the statement that is under way began.            *)

Unsettled == [known |-> FALSE]
Initially(kind, v) ==
  [name |-> v.name, type |-> v.type,
   value |-> [k \in DOMAIN Slots[v.type] |-> <<kind, v.name, k>>]]
Contents(v) == [k \in DOMAIN Slots[v.type] |-> Read(Place(v, Slots[v.type], k))]
localsNow ==
  [i \in DOMAIN locals |->
     [name |-> locals[i].name, type |-> locals[i].type,
      value |-> Contents(Local(locals[i].index, locals[i].type))]]
globalsNow ==
  [i \in DOMAIN globals |->
     [name |-> globals[i].name, type |-> globals[i].type,
      value |-> Contents(Global(globals[i].name, globals[i].type))]]
outcomeNow ==
  CASE status = "returned" ->
         [is |-> "returned",
          result |-> Contents(IF ViaMemory(function.returns)
                                THEN MemoryData(0, function.returns) ELSE Result),
          receiver |-> IF function.writesBack THEN Contents(ReceiverData) ELSE <<>>]
    [] status = "invalid" -> [is |-> "invalid", result |-> <<>>, receiver |-> <<>>]
    [] OTHER -> [is |-> "running", result |-> <<>>, receiver |-> <<>>]

-----------------------------------------------------------------------------
(* Function::addLocal.                                                     *)
nextIndexByVariable(type) == localIndex + 1                         \* mutant
nextIndex(type) == localIndex + Len(Slots[type])
addLocal(name, type) ==
  /\ locals' = Append(locals, [name |-> name, type |-> type, index |-> localIndex])
  /\ localIndex' = nextIndex(type)

(* The constructor of ir::Function adds the arguments.                     *)
AddArgument ==
  /\ status = "arguments" /\ Len(locals) < Len(function.arguments)
  /\ LET argument == function.arguments[Len(locals) + 1] IN addLocal(argument.name, argument.type)
  /\ UNCHANGED <<function, globals, store, memory, code, statement, settled, length, status>>
EnterBody ==
  /\ status = "arguments" /\ Len(locals) = Len(function.arguments)
  /\ status' = "running"
  /\ settled' = Unsettled
  /\ UNCHANGED <<scope, store, memory, code, statement, length>>

-----------------------------------------------------------------------------
(* A statement is compiled.  The wasm locals and globals it declares start *)
(* at the default of their type.                                           *)

Ready == status = "running" /\ statement = Idle
Begin(s) ==
  /\ Ready /\ length < MaxLength
  /\ WellTyped(function, locals, globals, s)
  /\ statement' = s
  /\ settled' = [known |-> TRUE, locals |-> localsNow, globals |-> globalsNow]
  /\ UNCHANGED <<function, memory, length>>
Emit(instructions) ==
  IF Valid(instructions, declared(locals', globals'))
    THEN code' = instructions /\ UNCHANGED status
    ELSE code' = <<>> /\ status' = "invalid"
DeclareNothing == UNCHANGED store                                   \* mutant
Declare ==
  LET new == {d \in declared(locals', globals') : d[1] \notin DOMAIN store}
  IN  store' = [p \in DOMAIN store \cup {d[1] : d \in new} |->
                  IF p \in DOMAIN store THEN store[p]
                  ELSE <<"default", (CHOOSE d \in new : d[1] = p)[2]>>]

(* compileDeclareStatement.                                                *)
CompileLet(s) ==
  LET type == SourceType(locals, globals, s.from)
  IN  /\ s.do = "let"
      /\ Begin(s)
      /\ \/ /\ function.start
            /\ globals' = Append(globals, [name |-> s.name, type |-> type])
            /\ UNCHANGED <<locals, localIndex>>
            /\ Emit(CallBefore(s.from) \o AssignTo(Compile(s.from), Global(s.name, type)))
         \/ /\ ~function.start
            /\ addLocal(s.name, type)
            /\ UNCHANGED globals
            /\ Emit(CallBefore(s.from) \o AssignTo(Compile(s.from), Local(localIndex, type)))
      /\ Declare

(* compileAssignStatement.                                                 *)
CompileAssign(s) ==
  /\ s.do = "assign"
  /\ Begin(s)
  /\ UNCHANGED <<locals, localIndex, globals, store>>
  /\ Emit(CallBefore(s.from) \o AssignTo(Compile(s.from), Resolve(s.to)))

(* compileReturnStatement and finalizeReturn: an object goes to memory and *)
(* then the receiver, a single value is returned after it.                 *)
CompileReturn(s) ==
  /\ s.do = "return"
  /\ Begin(s)
  /\ UNCHANGED <<locals, localIndex, globals, store>>
  /\ \/ /\ Len(Slots[function.returns]) # 1
        /\ Emit(CallBefore(s.from)
                  \o AssignTo(Compile(s.from), MemoryData(0, function.returns)) \o WriteBack)
     \/ /\ Len(Slots[function.returns]) = 1
        /\ Emit(WriteBack \o CallBefore(s.from) \o AssignTo(Compile(s.from), Result))

(* finalize(): the body is followed by the write-back.                     *)
CompileEnd ==
  /\ Ready
  /\ MayEndWithoutReturn(function)
  /\ statement' = EndOfBody
  /\ settled' = [known |-> TRUE, locals |-> localsNow, globals |-> globalsNow]
  /\ UNCHANGED <<scope, store, memory, length>>
  /\ Emit(WriteBack)

-----------------------------------------------------------------------------
(* An instruction runs: local.set, global.set and the result, or a store.  *)

Running == status = "running" /\ code # <<>>
Set ==
  /\ Running /\ Head(code).to[1] # "memory"
  /\ store' = [store EXCEPT ![Head(code).to] = Read(Head(code).from)]
  /\ code' = Tail(code)
  /\ UNCHANGED <<scope, memory, statement, settled, length, status>>
Store ==
  /\ Running /\ Head(code).to[1] = "memory"
  /\ memory' = Stored(Head(code).to, Read(Head(code).from))
  /\ code' = Tail(code)
  /\ UNCHANGED <<scope, store, statement, settled, length, status>>

Done ==
  /\ status = "running" /\ code = <<>> /\ statement # Idle
  /\ statement' = Idle
  /\ settled' = Unsettled
  /\ status' = IF statement.do \in {"return", "end"} THEN "returned" ELSE "running"
  /\ length' = IF statement.do = "end" THEN length ELSE length + 1
  /\ UNCHANGED <<scope, store, memory, code>>

-----------------------------------------------------------------------------
(* The caller put the values of the arguments, one per slot, in the first  *)
(* wasm locals.                                                            *)
ArgumentValues(f) ==
  FlattenSeq([i \in DOMAIN f.arguments |-> Initially("argument", f.arguments[i]).value])
GlobalAt(f, place) ==
  CHOOSE g \in {f.globals[i] : i \in DOMAIN f.globals} :
    \E t \in Basis : <<place, t>> \in slots(Global(g.name, g.type))
SlotOf(place) == IF Len(place) = 2 THEN 1 ELSE place[3] + 1

Init ==
  /\ function \in Functions
  /\ locals = <<>>
  /\ localIndex = 0
  /\ globals = function.globals
  /\ store = [p \in {d[1] : d \in declared(function.arguments, function.globals)} \cup {<<"result">>} |->
       CASE p[1] = "local" -> ArgumentValues(function)[p[2] + 1]
         [] p[1] = "global" -> <<"global", GlobalAt(function, p).name, SlotOf(p)>>
         [] p[1] = "result" -> <<"none">>]
  /\ memory = <<>>
  /\ code = <<>>
  /\ statement = Idle
  /\ settled =
       [known |-> TRUE,
        locals |-> [i \in DOMAIN function.arguments |-> Initially("argument", function.arguments[i])],
        globals |-> globalsNow]
  /\ length = 0
  /\ status = "arguments"

Next ==
  \/ AddArgument \/ EnterBody
  \/ /\ Ready
     /\ \E s \in Statements : CompileLet(s) \/ CompileAssign(s) \/ CompileReturn(s)
  \/ CompileEnd \/ Set \/ Store \/ Done
Spec == Init /\ [][Next]_vars

-----------------------------------------------------------------------------
(* Every instruction writes memory or something that is declared.          *)
TypeOK ==
  /\ function \in Functions
  /\ locals \in Seq([name: Names, type: Types, index: Nat])
  /\ localIndex \in Nat
  /\ globals \in Seq(Variable)
  /\ code \in Seq(Instruction)
  /\ \A i \in DOMAIN code : code[i].to[1] = "memory" \/ code[i].to \in DOMAIN store
  /\ statement \in Statements \cup {Idle, EndOfBody}
  /\ length \in 0..MaxLength
  /\ status \in {"arguments", "running", "returned", "invalid"}

(* No two variables of a function share a wasm local, and no variable yet  *)
(* to come will share one, however many the statements declare             *)
(* (Function::addLocal).                                                   *)
LocalsDisjoint ==
  \A i \in DOMAIN locals :
    LET end == locals[i].index + Len(Slots[locals[i].type])
    IN  end <= localIndex /\ \A j \in DOMAIN locals : i < j => end <= locals[j].index

(* The generated code moves values between variables, members, memory and  *)
(* the caller as the statements say.  While a statement runs its effects   *)
(* are not visible yet.                                                    *)
Abstract == INSTANCE Variables WITH
  locals <- IF ~settled.known THEN localsNow ELSE settled.locals,
  globals <- IF ~settled.known THEN globalsNow ELSE settled.globals,
  outcome <- outcomeNow
ImplementsVariables == Abstract!Spec

(* The inputs for which that is so, whatever the classes: every member of  *)
(* a class but its last takes one wasm value (initMembers counts members,  *)
(* not wasm values); no global has the name of a member, after which       *)
(* Global::initMembers names the globals of members; and the globals of a  *)
(* file have different names, or Binaryen refuses them.                    *)
MembersOfOneSlot ==
  \A c \in Classes : \A i \in DOMAIN Members[c] :
    i < Len(Members[c]) => Len(Slots[Members[c][i].type]) = 1
GlobalsDiffer(gs) == \A i, j \in DOMAIN gs : gs[i].name = gs[j].name => i = j
Regular ==
  /\ MembersOfOneSlot
  /\ Names \cap FieldNames = {}
  /\ \A f \in Functions : GlobalsDiffer(f.globals)

(* A member has wasm locals of its own, among those of its variable: what  *)
(* is assigned to a member is not read from another, nor from another      *)
(* variable (tests/compile/class.cpp:90-93).                               *)
MembersApart ==
  \A i \in DOMAIN locals : LET v == Local(locals[i].index, locals[i].type) IN
    locals[i].type \in Classes =>
      LET member(n) == slots(Member(v, Members[v.type][n].name))
      IN  \A j \in DOMAIN Members[v.type] :
            /\ member(j) \subseteq slots(v)
            /\ \A k \in DOMAIN Members[v.type] \ {j} : member(j) \cap member(k) = {}
=============================================================================
