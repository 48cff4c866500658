------------------------- MODULE StatementCompiler -------------------------
(***************************************************************************)
(* The code generation of one file: Compiler::compileStatement and the     *)
(* handlers it calls (src/compiler.cpp:86-96, 223-410), with the state     *)
(* they share: the stack of functions being compiled, the labels and       *)
(* locals of each ir::Function (src/ir/function.cpp) and the Resolver's    *)
(* own idea of the current function (src/resolver.cpp).                    *)
(*                                                                         *)
(* The recursion over the AST is a stack of frames, one per statement that *)
(* holds statements.  The declaration passes (module Preparation) are over *)
(* and succeeded; assignments and returns bind nothing and are left out,   *)
(* every variable is an i32, and an expression is the one variable it      *)
(* reads, or none.                                                         *)
(***************************************************************************)
EXTENDS Naturals, Sequences, SequencesExt

CONSTANTS
  Names,     (* the identifiers of a program                               *)
  NoName,    (* no identifier                                              *)
  Start,     (* startFunction_                                             *)
  Programs   (* the files given to the compiler                            *)

Leaf == {"let", "expression", "break", "continue"}
Branching == {"if", "ifElse", "ifElseIf"}
Container == {"block", "while", "function", "class"} \cup Branching

(* A file is its statements in source order.  "block" says which of the    *)
(* parent's lists of statements it is in: 2 is the second block of an      *)
(* ifElse or the if behind the else of an ifElseIf.  "var" is the variable *)
(* its expression reads, or the parameter of a function.                   *)
Statement ==
  [kind: Leaf \cup Container, name: Names \cup {NoName}, var: Names \cup {NoName},
   parent: Nat, block: {1, 2}]

FunctionsOf(p) == {n \in DOMAIN p : p[n].kind = "function"}
ClassesOf(p) == {n \in DOMAIN p : p[n].kind = "class"}
OwnerOf(p, n) ==
  IF p[n].parent \in ClassesOf(p) THEN p[p[n].parent].name ELSE NoName
Key(p, n) == <<OwnerOf(p, n), p[n].name>>
TopLevel(p) == {n \in DOMAIN p : p[n].parent = 0}
Prepared(p, n) == n \in TopLevel(p) \/ p[n].parent \in ClassesOf(p) \cap TopLevel(p)

(* The file is a tree in source order, and no two of its declarations      *)
(* collide: prepareClassStatementLevel1 and addFunction saw to that.       *)
WellFormed(p) ==
  /\ \A n \in DOMAIN p :
       /\ p[n].parent < n
       /\ \A m \in (p[n].parent + 1)..n : p[m].parent >= p[n].parent
       /\ \A m \in n..Len(p) : p[m].parent = p[n].parent => p[m].block >= p[n].block
       /\ p[n].kind \in {"let", "function", "class"} => p[n].name \in Names
       /\ n \notin TopLevel(p) => p[p[n].parent].kind \in Container
       /\ p[n].block = 2 => /\ n \notin TopLevel(p)
                            /\ p[p[n].parent].kind \in {"ifElse", "ifElseIf"}
  /\ \A n \in ClassesOf(p), m \in DOMAIN p : p[m].parent = n => m \in FunctionsOf(p)
  /\ \A n, m \in {k \in FunctionsOf(p) \cup ClassesOf(p) : Prepared(p, k)} :
       Key(p, n) = Key(p, m) => n = m

(* No declaration is called as one the compiler makes up: module           *)
(* Preparation has those.                                                  *)
ASSUME NamesAssumption ==
  /\ NoName \notin Names /\ "this" \in Names
  /\ Names \cap {"constructor", "_start"} = {}
  /\ Start \notin (Names \cup {NoName}) \X (Names \cup {NoName})
ASSUME ProgramsAssumption == \A p \in Programs : p \in Seq(Statement) /\ WellFormed(p)

VARIABLES
  program,    (* file->statement()                                         *)
  frames,     (* the calls of compileStatement that are under way          *)
  current,    (* currentFunction_                                          *)
  resolving,  (* resolver_.currentFunction_                                *)
  labels,     (* the label stacks and counters of every ir::Function       *)
  locals,     (* locals_ of every ir::Function, by name                    *)
  globals,    (* resolver_.globals()                                       *)
  wasm,       (* the functions of the Binaryen module                      *)
  emitted,    (* the labelled loops, jumps and reads of the code so far    *)
  compiled,   (* the statements code was generated for                     *)
  status      (* "running", "done", or what ended the compilation, and     *)
              (* the statement whose range the error gets                  *)
state == <<current, resolving, labels, locals, globals, wasm>>
vars == <<program, frames, state, emitted, compiled, status>>

(* resolver_.functions(): nested declarations are never prepared.          *)
declaredAnywhere == {Key(program, n) : n \in FunctionsOf(program) \cup ClassesOf(program)} \* mutant
functions ==
  {Key(program, n) : n \in {k \in FunctionsOf(program) \cup ClassesOf(program) : Prepared(program, k)}}
classes == {program[n].name : n \in ClassesOf(program) \cap TopLevel(program)}
irFunctions(p) == {Start} \cup {Key(p, n) : n \in FunctionsOf(p) \cup ClassesOf(p)}

currentFunction == Last(current)
Here == Last(frames)

(* The next statement of the innermost list, if there is one.              *)
Rest(f) ==
  {n \in DOMAIN program : program[n].parent = f.node /\ program[n].block = f.block /\ f.last < n}
At(n, kinds) ==
  /\ status.is = "running"
  /\ n \in Rest(Here) /\ \A m \in Rest(Here) : n <= m
  /\ program[n].kind \in kinds
AtEndOf(kinds) ==
  /\ status.is = "running" /\ Rest(Here) = {} /\ Here.node # 0
  /\ program[Here.node].kind \in kinds

Passed(n) == [frames EXCEPT ![Len(frames)].last = n]
NewFrame(n) == [node |-> n, block |-> 1, pass |-> 1, last |-> 0, breakLabel |-> 0, continueLabel |-> 0]
Raise(what, n) ==
  /\ status' = [is |-> what, at |-> n]
  /\ UNCHANGED <<program, frames, state, emitted, compiled>>

-----------------------------------------------------------------------------
(* Resolver::resolveIdentifier: the first local of that name, a global, a  *)
(* function (which is not a value).                                        *)

LocalsNamed(x) == {i \in DOMAIN locals[resolving] : locals[resolving][i] = x}
IsVariable(x) == LocalsNamed(x) # {} \/ x \in globals
IsFunction(x) == ~IsVariable(x) /\ <<NoName, x>> \in functions
Variable(x) ==
  IF LocalsNamed(x) # {}
    THEN [owner |-> resolving, slot |-> CHOOSE i \in LocalsNamed(x) : \A j \in LocalsNamed(x) : i <= j]
    ELSE [owner |-> Start, slot |-> 0]

Reading == {"let", "expression", "while"} \cup Branching
Readable(n) == program[n].var = NoName \/ IsVariable(program[n].var)
Read(n) ==
  IF program[n].var = NoName THEN <<>>
  ELSE << [what |-> "read", node |-> n, from |-> Variable(program[n].var)] >>

(* compileIdentifier: a function has a type, but not one of a condition.   *)
Unreadable(n) ==
  LET x == program[n].var
  IN  /\ At(n, Reading) /\ ~Readable(n)
      /\ \/ ~IsFunction(x) /\ Raise("CannotResolveSymbol", n)
         \/ IsFunction(x) /\ program[n].kind \in {"let", "expression"} /\ Raise("runtime_error", n)
         \/ IsFunction(x) /\ program[n].kind \notin {"let", "expression"} /\ Raise("TypeConvertError", n)

-----------------------------------------------------------------------------
(* compileDeclareStatement: the initial value is compiled before the       *)
(* variable exists.  At the file's own level, also inside of a block, an   *)
(* if or a while of it, that is a global, and Binaryen ends the process on *)
(* a second one of the same name, before addGlobal can throw.              *)

DeclareGlobal(n) ==
  /\ currentFunction = Start
  /\ program[n].name \notin globals
  /\ globals' = globals \cup {program[n].name}
  /\ UNCHANGED <<locals, status>>
DeclareGlobalTwice(n) ==
  /\ currentFunction = Start
  /\ program[n].name \in globals
  /\ status' = [is |-> "Fatal", at |-> n]
  /\ UNCHANGED <<globals, locals>>
DeclareLocal(n) ==
  /\ currentFunction # Start
  /\ locals' = [locals EXCEPT ![currentFunction] = Append(@, program[n].name)]
  /\ UNCHANGED <<globals, status>>

CompileDeclare(n) ==
  /\ At(n, {"let"})
  /\ Readable(n)
  /\ DeclareGlobal(n) \/ DeclareGlobalTwice(n) \/ DeclareLocal(n)
  /\ frames' = Passed(n)
  /\ emitted' = emitted \o Read(n)
  /\ compiled' = compiled \cup {n}
  /\ UNCHANGED <<program, current, resolving, labels, wasm>>

CompileExpression(n) ==
  /\ At(n, {"expression"})
  /\ Readable(n)
  /\ frames' = Passed(n)
  /\ emitted' = emitted \o Read(n)
  /\ compiled' = compiled \cup {n}
  /\ UNCHANGED <<program, state, status>>

-----------------------------------------------------------------------------
(* compileBreakStatement, compileContinueStatement: the top of the current *)
(* function's label stack, whoever pushed it.                              *)

StackOf(kind) == labels[currentFunction][kind]
CompileJump(n) ==
  \E kind \in {"break", "continue"} :
    /\ At(n, {kind})
    /\ StackOf(kind) # <<>>
    /\ frames' = Passed(n)
    /\ emitted' = Append(emitted, [what |-> kind, node |-> n, label |-> Last(StackOf(kind))])
    /\ compiled' = compiled \cup {n}
    /\ UNCHANGED <<program, state, status>>
JumpOutsideLoop(n) ==
  \E kind \in {"break", "continue"} :
    /\ At(n, {kind})
    /\ StackOf(kind) = <<>>
    /\ Raise("JumpStatementError", n)

-----------------------------------------------------------------------------
(* Blocks and ifs.  An if with a block behind its else: IfStatement's      *)
(* constructor takes the first block for both branches                     *)
(* (ast/if_statement.cpp:19-21).                                           *)

Enter(n) ==
  /\ frames' = Append(Passed(n), NewFrame(n))
  /\ compiled' = compiled \cup {n}
Leave == frames' = Front(frames)

EnterBlock(n) ==
  /\ At(n, {"block"})
  /\ Enter(n)
  /\ UNCHANGED <<program, state, emitted, status>>
LeaveBlock ==
  /\ AtEndOf({"block"})
  /\ Leave
  /\ UNCHANGED <<program, state, emitted, compiled, status>>

EnterIf(n) ==
  /\ At(n, Branching)
  /\ Readable(n)
  /\ Enter(n)
  /\ emitted' = emitted \o Read(n)
  /\ UNCHANGED <<program, state, status>>

ElseBlock == IF program[Here.node].kind = "ifElse" THEN 1 ELSE 2
HasElse == program[Here.node].kind # "if"
Else ==
  /\ AtEndOf(Branching) /\ HasElse /\ Here.pass = 1
  /\ frames' = [frames EXCEPT ![Len(frames)] = [@ EXCEPT !.block = ElseBlock, !.pass = 2, !.last = 0]]
  /\ UNCHANGED <<program, state, emitted, compiled, status>>
LeaveIf ==
  /\ AtEndOf(Branching) /\ ~(HasElse /\ Here.pass = 1)
  /\ Leave
  /\ UNCHANGED <<program, state, emitted, compiled, status>>

-----------------------------------------------------------------------------
(* compileWhileStatement: both labels exist before the condition is        *)
(* compiled and are freed after the body.  Their numbers are never reused. *)

EnterWhileForContinue(n) ==                                         \* mutant
  /\ At(n, {"while"})
  /\ Readable(n)
  /\ LET l == labels[currentFunction]
     IN  /\ frames' = Append(Passed(n), [NewFrame(n) EXCEPT !.breakLabel = l.breakIndex,
                                                             !.continueLabel = l.continueIndex])
         /\ labels' = [labels EXCEPT ![currentFunction] =
              [l EXCEPT !.continue = Append(@, l.continueIndex), !.continueIndex = @ + 1]]
  /\ emitted' = emitted \o Read(n)
  /\ compiled' = compiled \cup {n}
  /\ UNCHANGED <<program, current, resolving, locals, globals, wasm, status>>
EnterWhile(n) ==
  /\ At(n, {"while"})
  /\ Readable(n)
  /\ LET l == labels[currentFunction]
     IN  /\ frames' = Append(Passed(n), [NewFrame(n) EXCEPT !.breakLabel = l.breakIndex,
                                                             !.continueLabel = l.continueIndex])
         /\ labels' = [labels EXCEPT ![currentFunction] =
              [break |-> Append(l.break, l.breakIndex), breakIndex |-> l.breakIndex + 1,
               continue |-> Append(l.continue, l.continueIndex), continueIndex |-> l.continueIndex + 1]]
  /\ emitted' = emitted \o Read(n)
  /\ compiled' = compiled \cup {n}
  /\ UNCHANGED <<program, current, resolving, locals, globals, wasm, status>>

FreedForReuse(l) ==                                                 \* mutant
  [break |-> Front(l.break), breakIndex |-> l.breakIndex - 1,
   continue |-> Front(l.continue), continueIndex |-> l.continueIndex - 1]
Unfreed(l) == l                                                     \* mutant
Freed(l) == [l EXCEPT !.break = Front(@), !.continue = Front(@)]
LeaveWhile ==
  /\ AtEndOf({"while"})
  /\ labels' = [labels EXCEPT ![currentFunction] = Freed(@)]
  /\ emitted' = Append(emitted, [what |-> "loop", node |-> Here.node, in |-> currentFunction,
                                 break |-> Here.breakLabel, continue |-> Here.continueLabel])
  /\ Leave
  /\ UNCHANGED <<program, current, resolving, locals, globals, wasm, compiled, status>>

-----------------------------------------------------------------------------
(* doCompileFunction, for functions and for the methods of a class.  The   *)
(* assert on the function's entry fails for a nested function; one that    *)
(* has the name of a prepared one is compiled into that one's ir::Function *)
(* and Binaryen ends the process when it is added a second time.           *)

EnterFunction(n) ==
  /\ At(n, {"function"})
  /\ Key(program, n) \in functions
  /\ current' = Append(current, Key(program, n))
  /\ resolving' = Key(program, n)
  /\ Enter(n)
  /\ UNCHANGED <<program, labels, locals, globals, wasm, emitted, status>>
FunctionNotPrepared(n) ==
  /\ At(n, {"function"})
  /\ Key(program, n) \notin functions
  /\ Raise("assert", n)

ResolvingStays == Last(current)                                     \* mutant
ResolvingAfter == Last(Front(current))
AddsNothing == wasm                                                 \* mutant
WithFunction == wasm \cup {currentFunction}
LeaveFunction ==
  /\ AtEndOf({"function"})
  /\ currentFunction \notin wasm
  /\ wasm' = WithFunction
  /\ current' = Front(current)
  /\ resolving' = ResolvingAfter
  /\ Leave
  /\ UNCHANGED <<program, labels, locals, globals, emitted, compiled, status>>
FunctionAddedTwice ==
  /\ AtEndOf({"function"})
  /\ currentFunction \in wasm
  /\ Raise("Fatal", Here.node)

(* compileClassStatement: nested in a function it is refused, nested in    *)
(* another statement of the file it stands for the class of that name.     *)
EnterClass(n) ==
  /\ At(n, {"class"})
  /\ currentFunction = Start
  /\ program[n].name \in classes
  /\ Enter(n)
  /\ UNCHANGED <<program, state, emitted, status>>
ClassRefused(n) ==
  /\ At(n, {"class"})
  /\ \/ currentFunction # Start /\ Raise("runtime_error", n)
     \/ currentFunction = Start /\ program[n].name \notin classes /\ Raise("UnknownSymbol", n)
LeaveClassPopping ==                                                \* mutant
  /\ AtEndOf({"class"})
  /\ Leave
  /\ current' = Front(current)
  /\ UNCHANGED <<program, resolving, labels, locals, globals, wasm, emitted, compiled, status>>
LeaveClass ==
  /\ AtEndOf({"class"})
  /\ Leave
  /\ UNCHANGED <<program, state, emitted, compiled, status>>

-----------------------------------------------------------------------------
Init ==
  /\ program \in Programs
  /\ frames = << NewFrame(0) >>
  /\ current = <<Start>>
  /\ resolving = Start
  /\ labels = [f \in irFunctions(program) |->
                 [break |-> <<>>, continue |-> <<>>, breakIndex |-> 0, continueIndex |-> 0]]
  /\ locals = [f \in irFunctions(program) |->
                 LET params == {n \in FunctionsOf(program) : Prepared(program, n) /\ Key(program, n) = f}
                     param == program[CHOOSE n \in params : TRUE].var
                 IN  (IF params = {} \/ param = NoName THEN <<>> ELSE <<param>>)
                       \o (IF f = Start \/ f[1] = NoName THEN <<>> ELSE <<"this">>)]
  /\ globals = {}
  /\ wasm = {<<NoName, c>> : c \in classes}   \* the constructors
  /\ emitted = <<>>
  /\ compiled = {}
  /\ status = [is |-> "running", at |-> 0]

Finish ==
  /\ status.is = "running" /\ Rest(Here) = {} /\ Here.node = 0
  /\ wasm' = wasm \cup {Start}
  /\ status' = [is |-> "done", at |-> 0]
  /\ UNCHANGED <<program, frames, current, resolving, labels, locals, globals, emitted, compiled>>

Compile(n) ==
  \/ Unreadable(n) \/ CompileDeclare(n) \/ CompileExpression(n)
  \/ CompileJump(n) \/ JumpOutsideLoop(n)
  \/ EnterBlock(n) \/ EnterIf(n) \/ EnterWhile(n)
  \/ EnterFunction(n) \/ FunctionNotPrepared(n) \/ EnterClass(n) \/ ClassRefused(n)
Return ==
  \/ LeaveBlock \/ Else \/ LeaveIf \/ LeaveWhile
  \/ LeaveFunction \/ FunctionAddedTwice \/ LeaveClass \/ Finish

(* compile() has returned or thrown: there is no other state to stop in.   *)
Finished == status.is # "running" /\ UNCHANGED vars
Next == Return \/ (\E n \in DOMAIN program : Compile(n)) \/ Finished
Spec == Init /\ [][Next]_vars

-----------------------------------------------------------------------------
(* w lists the elements of a set of numbers, in increasing order.          *)
Enumerates(w, S) ==
  /\ \A i, j \in DOMAIN w : i < j => w[i] < w[j]
  /\ S = {w[i] : i \in DOMAIN w}

(* The calls that compile the file itself and the functions that are open. *)
OpenFunctions == {i \in DOMAIN frames : i = 1 \/ program[frames[i].node].kind = "function"}
FunctionOf(i) == IF i = 1 THEN Start ELSE Key(program, frames[i].node)

(* The state is well typed: the frames go down the tree of the file, and   *)
(* the function stack has one entry per open function, above Start.        *)
Outcome ==
  {"running", "done", "Fatal", "assert", "runtime_error", "UnknownSymbol",
   "CannotResolveSymbol", "TypeConvertError", "JumpStatementError"}
TypeOK ==
  /\ program \in Seq(Statement) /\ WellFormed(program)
  /\ \A i \in DOMAIN frames :
       /\ frames[i].node = IF i = 1 THEN 0 ELSE frames[i - 1].last
       /\ frames[i].last \in 0..Len(program)
  /\ \E open \in [DOMAIN current -> OpenFunctions] :
       /\ Enumerates(open, OpenFunctions)
       /\ \A j \in DOMAIN current : current[j] = FunctionOf(open[j])
  /\ \A j \in DOMAIN current : current[j] \in functions \cup {Start}
  /\ globals \subseteq Names
  /\ wasm \subseteq irFunctions(program)
  /\ status.is \in Outcome

(* a is a statement around n: the file is in source order.                 *)
Inside(n, a) == a < n /\ \A m \in (a + 1)..n : program[m].parent >= a
FunctionAround(n) == {f \in FunctionsOf(program) : Inside(n, f) /\ \A g \in FunctionsOf(program) : Inside(n, g) => g <= f}
LoopAround(n) ==
  {l \in DOMAIN program :
     /\ program[l].kind = "while" /\ Inside(n, l)
     /\ FunctionAround(n) = FunctionAround(l)
     /\ \A m \in DOMAIN program : program[m].kind = "while" /\ Inside(n, m) => m <= l}
Emitted(what) == {i \in DOMAIN emitted : emitted[i].what \in what}
Home(n) == IF FunctionAround(n) = {} THEN Start
           ELSE Key(program, CHOOSE f \in FunctionAround(n) : TRUE)

(* A break leaves, and a continue repeats, the innermost while around it   *)
(* in the same function: of everything with the label it jumps to, only    *)
(* that loop is in its function.                                           *)
JumpsBindInnermost ==
  status.is = "done" =>
    \A i \in Emitted({"break", "continue"}) :
      LET jump == emitted[i]
          targets == {l \in Emitted({"loop"}) :
                        emitted[l].in = Home(jump.node) /\ emitted[l][jump.what] = jump.label}
      IN  targets # {} /\ \A l \in targets : emitted[l].node \in LoopAround(jump.node)

(* Only a jump that really has no while around it is refused.              *)
JumpErrorJustified ==
  status.is = "JumpStatementError" => LoopAround(status.at) = {}

(* No two loops of a function get the same label, also when one is         *)
(* compiled twice: Binaryen's labels are unique in a function.             *)
LabelsUnique ==
  \A i, j \in Emitted({"loop"}) :
    (i # j /\ emitted[i].in = emitted[j].in)
      => (emitted[i].break # emitted[j].break /\ emitted[i].continue # emitted[j].continue)

(* The variable an expression reads is one of the function it stands in,   *)
(* or a global; it is no global when that function declared the name       *)
(* before.                                                                 *)
ReadsInScope ==
  \A i \in Emitted({"read"}) :
    LET r == emitted[i]
    IN  /\ r.from.slot > 0 => r.from.owner = Home(r.node)
        /\ r.from.slot = 0 =>
             ~\E m \in compiled : /\ m < r.node /\ program[m].kind = "let"
                                  /\ program[m].name = program[r.node].var
                                  /\ Home(m) = Home(r.node) /\ Home(m) # Start

(* A function below another statement never makes it into a module.        *)
NestedFunctionsRefused ==
  status.is = "done" => \A n \in FunctionsOf(program) \cap compiled : Prepared(program, n)

(* ... and every function that was prepared does, so that no call of it    *)
(* is left without a target.                                               *)
EveryFunctionCompiled ==
  status.is = "done" => wasm = functions \cup {Start}

(* Code is generated for every statement of the file.                      *)
NothingDropped ==
  status.is = "done" => compiled = DOMAIN program

=============================================================================
