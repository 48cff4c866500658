# TLA+ models of the walang compiler

walang is a small compiler, written in C++, from a statically typed scripting
language to WebAssembly.  This directory holds TLA+ modules of its algorithms,
TLC configurations that check them on small instances, and TLAPS proofs of what
can be shown for every program.

    tlc -config Preparation.cfg MCPreparation.tla             # model checking
    tlapm PreparationProofs.tla                               # proofs

Sources are named relative to the repository's root; `PROJECT.json` maps every
definition to the lines it stands for.

## 1. The system

One process compiles one or more files, one after the other.  Nothing runs
concurrently, nothing is persisted and nothing calls back later.  What makes the
code hard is state that is shared by a deep recursion: stacks that must be popped
on every path, objects that are rewritten while they are walked, lists that are
swapped while they are retried, a copy of a pointer that must be kept up to date,
scratch memory that every call overwrites; and exceptions that leave all of this in
the middle.

    text --ANTLR--> parse tree --Listener--> syntax tree (ast/)
         --Compiler + Resolver--> ir::Function, ir::Class, ir::Variant
         --binaryen-c--> WebAssembly module --wat()--> text

| component | state | operations | what makes it correct |
|---|---|---|---|
| Parser, Listener (`parser.cpp`, `g4/walang.g4`) | `astNodes_`: context -> node | one `exit...` per rule, children first | every context a constructor asks for has a node; parentheses and other pass-through rules alias their child |
| Binary expression trees (`ast/binary_expression.cpp`, `ast/op.cpp`) | the nodes on the right spine | constructor, recursive `appendExpr` | the tree is the one priorities, left associativity and parentheses ask for; no operand is lost or moved |
| Other syntax tree nodes (`ast/*.cpp`) | fields set once | constructors | every part of the context becomes a part of the node (if/else, ternary chains, call and member chains) |
| Declaration passes (`compiler.cpp:41-215`) | `pendingClasses`, `currentPendingClasses`, `isResolved`, the type table, the function table | first scan, retry loop, uncaught attempts, functions, methods | any declaration order that can work works; cycles are refused; the loop ends; no class is lost or laid out twice |
| Type table (`variant_type_table.cpp`) | name -> type | `registerType`, `findVariantType` | a type is registered once; members of registered classes are registered |
| Resolver (`resolver.cpp`) | `globals_`, `functions_`, its own `currentFunction_` | `addGlobal`, `addFunction`, `resolve...` | names resolve in the function they stand in |
| Statement code generation (`compiler.cpp:217-410`) | `currentFunction_` (a stack) and the recursion | one handler per kind of statement | stacks are balanced; code exists for every statement and function; jumps bind to their loop |
| `ir::Function` (`ir/function.cpp`) | locals and the next slot, label stacks and counters, `postExprRefs_` | `addLocal`, `addTempLocal`, label operations, `finalize`, `finalizeReturn` | slots do not overlap; labels are unique; what a method changes in `this` reaches the caller |
| Variables and memory (`ir/local.cpp`, `global.cpp`, `memory_data.cpp`, `stack_data.cpp`, `class.cpp`) | slot of a local, name of a global, position in the scratch memory | `assignTo...`, `initMembers`, `makeDefinition` | moving a value moves all of its slots, and only those |
| Calls and returns (`compiler.cpp:354-374, 539-597`) | the scratch memory at position 0 | arguments, call, load of the result | a result is read before the next call overwrites it; operands and parameters agree |
| Types of expressions (`ir/variant_type.cpp`, `resolver.cpp`) | `resolvedType_` of a pending type | `tryResolveTo`, literals, operators | the type an expression is compiled for is that of every value it yields |
| Diagnostics (`helper/diagnose.*`, `helper/range.*`) | the range of an exception | `setRange`, `setRangeAndThrow` | an error points at the innermost construct that caused it |
| Text output, command line (`compiler.cpp:102-116`, `cli/main.cpp`) | a growing buffer | `wat`, `main` | the whole module is written |

Components interact by direct calls.  Three interactions are easy to break:
the Compiler's function stack and the Resolver's copy of its top
(`doCompileFunction` sets it in two places); the declaration passes and
everything after them (bodies assume that each declaration has its entry); and
the callee and the caller of a function, who agree on scratch memory by
convention only.

The hazards these parts are exposed to are listed in `PROJECT.json`, each at its
line, with the properties that would catch it.

## 2. Modules

| module | models | checked by | proved in |
|---|---|---|---|
| `Preparation` | `Compiler::compile()` up to and around the bodies | `MCPreparation` | `PreparationProofs` |
| `ClassResolution` | what the declaration passes promise (abstract) | as a property of `Preparation` | `PreparationProofs` |
| `BinaryExpression` | the constructor and `appendExpr` of `ast::BinaryExpression` | `MCBinaryExpression` | `BinaryExpressionProofs` |
| `StatementCompiler` | `compileStatement` and its handlers, label stacks, name resolution | `MCStatementCompiler` | `StatementCompilerProofs` |
| `ExpressionTypes` | types, conversions, which operator is which instruction | with `ExpressionCompiler` | |
| `ExpressionCompiler` | `compileExpression` of expressions of one wasm value: expected types, literals, operators, ternaries, calls | `MCExpression` | `ExpressionProofs` |
| `ExpressionMeaning` | what an expression means, and a machine that runs its code | `MCExpression` | |
| `Calls` | `compileCallExpression` among values of any number of wasm values, and what becomes of the value | `MCCalls` | `CallsProofs` |
| `CallsMeaning` | what a statement with calls means, and a machine with the scratch memory | `MCCalls` | |
| `Diagnostics` | the listener, the constructors of the chains, and an error's way out of the recursion | `MCDiagnostics` | `DiagnosticsProofs` |
| `CommandLine` | `main` and `wat()` | `MCCommandLine` | `CommandLineProofs` |
| `Layout` | types as slots, the statements that move values, lookup of names and members | with `Storage` | |
| `Variables` | what variables promise (abstract) | as a property of `Storage` | |
| `Storage` | `let`, assignment and `return`: slots, places, `assignTo...`, and the run of the generated code | `MCStorage` | `StorageProofs` |

Each specification is parameterised by the set of its inputs (`Programs`,
`Inputs`), which is constrained by a named `ASSUME` only; the MC modules define
small sets of inputs, and the proofs hold for all of them.  The input is a
variable that is chosen in `Init` and never changes.

### Preparation

`pc` says which loop of `compile()` is running and `cursor` is its iterator;
`method` is the inner iterator of `prepareClassStatementLevel2`.  A statement is a
record; a class in one of the pending lists is its position in the file.

| code | action |
|---|---|
| first loop over the statements, with its `try` (44-53) | `Scan`, `ScanEnds` |
| `while (!pendingClasses.empty() && isResolved)`, and the swap (56-60) | `PassBegins`, `WhileEnds` |
| the inner loop with its `try` (61-70) | `Retry`, `PassEnds` |
| the attempts outside of any `try` (72-74) | `Leftover`, `LeftoverEnds` |
| `prepareFunctionStatement` of every function (76-80) | `PrepareFunctions`, `FunctionsEnd` |
| `prepareClassStatementLevel2` (81-85) | `PrepareMethod`, `NextClass`, `MethodsEnd` |
| the bodies, `_start`, the next file (86-100) | `CompileFile` |

`PrepareClass` is all of `prepareClassStatementLevel1`, with the constructor it
generates; `ClassError` is what that throws.  The order in which the function
looks at its members decides between "unknown" and "recursive", so it is kept
(`FirstUnusable`).  A class is in the type table from `registerType` on, also
when its constructor cannot be built (`NoDefaultValue`) or its name is a function
already.  A layout is abstracted to the set of basis types it is made of; its
slots are the subject of `Storage`.

Bodies are abstracted to one step, `CompileFile`, that adds the names of the
generated functions, meets a name the Binaryen module already has (Binaryen
then ends the process), or fails with a compiler error.  Locals in `compile()`
that the next file declares anew (`pendingClasses`, ...) are reset there.

`ClassResolution` is the promise: classes may be laid out in any order in which
each comes after the ones it needs, and a program is refused for an unknown type
only if no class that is left could come next.  The refinement mapping sends the
pending lists and the part of the file the scan has not reached to one set,
`Waiting`.

### BinaryExpression

The grammar delivers `left (op right)+`.  The heap of `BinaryExpression` objects
is a sequence, an object its index, and any other expression a negative number.
`at` is `this` of the innermost `appendExpr`.  `FirstRight` is the constructor's
first operator, `AppendExpr` the call for every further one, `SelfAsLeft`,
`Descend` and `NewRight` are the three branches of `appendExpr`; the recursive
calls return at once when the innermost one does, which is `Return`.  An operand
that is a `BinaryExpression` itself (`parsed`) is one in parentheses, which
leave no node behind (`parser.cpp:83-87`), or what the parser makes of a call on
the right of an operator and what follows it.

### StatementCompiler

The recursion over the syntax tree is a stack of `frames`; a frame knows its
statement, which of its statement lists is being compiled, and the last
statement that was.  `compileBlockStatement` and the handlers that hold
statements are an `Enter...` and a `Leave...` action each; `Else` goes from the
first to the second branch of an if.  Every `ir::Function` has its label stacks,
label counters and locals from the start, because prepared functions exist before
any body is compiled.  `resolving` is the Resolver's copy of the current
function, apart from `current`, the Compiler's stack.

`emitted` records what the generated code binds: the loop a label belongs to, the
label a jump goes to, the variable a read takes.  `compiled` are the statements
code was generated for.  Statements nested where the declaration passes do not
look (a function in a block) are part of the inputs; the handler's assert, and
what happens when a prepared function has the same name, are actions.

Assignments and returns are left out here: they bind no label and introduce no
name.  Expressions are reduced to the single variable they read, and variables are
all i32; types, members and slots are the subject of `Storage`.

### ExpressionTypes, ExpressionCompiler, ExpressionMeaning

`frames` is the recursion of `compileExpression`; each frame waits for the code of
its next operand, which it compiles against a `VariantType` object.  The objects are
shared (`types`, by index): the operands of an operator and the arms of a ternary have
their parent's, and a pending one (`Auto`, `ConditionType`) is changed by whoever
accepts it.  The expression is not an input: which node comes next is chosen when
`compileExpression` is called, until `room` is used up.

| code | action |
|---|---|
| `compileIdentifier`, by what the identifier is | `CompileInteger`, `CompileFloat`, `CompileVariable`, `CompileFunctionName` |
| `compileMemberExpression` | `CompileMember` |
| `compilePrefix/Binary/TernaryExpression`, `compileCallExpression` up to their operands | `CompilePrefix`, ... |
| the same, behind them, with `handlePrefixOp` and `handleBinaryOp` | `ClosePrefix`, ... |
| the statement around it: dropped, tested, stored, or the type of a `let` | `Consume`, `use` |

A reference of Binaryen is its code, its type and whether the validator takes it; the
validator's rules are those of the instructions used.  C++ leaves it open in which
order the three parts of a ternary are compiled, since they are arguments of one call;
`leftToRight` is either for a whole run.  `causes` is a history variable: what was
compiled for another type.  A `let` without a type takes the type of the leftmost part
(`resolveTypeExpression`), which the model guesses in `use` and then holds the part to
(`Leftmost`).

`ExpressionMeaning` evaluates the expression as mathematics with the ranges of its
types, and the code as instructions on bits (`Bits` is the width: 2 and 4 in the runs,
so that the extremes are few).  What a call returns is the number of calls before
it, and it changes globals, so that the order of calls and reads shows in the values.

### Calls, CallsMeaning

The caller's side of `Storage`.  A `StackData` is a sequence of Binaryen references
and a type; an argument adds all of its references to the operands, and the
result of a call through memory is the call followed by loads.  Only a value that
is dropped has a pending type here, and inputs are otherwise well typed, because
`ExpressionCompiler` has the rest.  The condition of a ternary is a literal, whose arm
is chosen when it is compiled.

The machine runs the finished code.  Of a callee it knows what `Storage` shows: the
result is in memory or returned, and the receiver of a method that is not readonly
lies behind it.  `Clobbering` says whether the callee may have called others before,
which leaves nothing else in memory to rely on.

### Diagnostics

The parse tree is an input that unfolds: an `Exit...` action is one call of the
listener, whose context takes the youngest contexts without a parent as its children.
A context is its place in the walk, and so is a range: the text a context spans is
known by the context, and 0 is the default `Range` of a node that was given none.
`expression` and `statement` contexts span what their only child does and are
identified with it; `exitStatement` is an action of its own because it sets a range.
The grammar's ambiguities are resolved as the generated parser resolves them, by the
first alternative that fits (`isRight`, `isElse`, `signs`).

`BinaryTree`, `TernaryTree` and `LinkNodes` are the constructors that make several
nodes of one context; `appendExpr` moves contents as in `BinaryExpression`, with two
priorities, but carries the ranges.  The compiler part chooses an error: one of
the prepare passes, an operation that refuses the node it is at (`Refused`), or
the resolver, which knows the identifier (`UnknownName`); it then passes the catch
clauses of `frames` (`Catch`).  `Compiled` says which parts are compiled under a clause
of their own.

Left out: the wording of messages, line and column numbers, syntax errors, and
`std::runtime_error`, whose text never gets a range.

### CommandLine

`pc` follows `main`; the three actions that take arguments apart work on `arguments`
as the code does on its list, and `given` remembers them.  Parsing may end the
process (it is outside of the `try`), compiling may fail or end the process, and gives
a module that is valid or not, whose text has one of `Lengths`.  `Wat` is one round of
the loop in `wat()`; `Written` is what Binaryen returns, `Limit` stands for 2^32.
`files` says of each path how much of the text was written there.

### Storage

The question is whether the generated code does with values what the statements
say, so the module models both the compiler and the machine its code runs on.  One
function is compiled and run: first its arguments are added (`AddArgument`, the
constructor of `ir::Function`), then statements are compiled (`CompileLet`,
`CompileAssign`, `CompileReturn`, and `CompileEnd` for what `finalize()` puts behind
the body), and the instructions of each run one at a time (`Set`, `Store`) before
the next is compiled.  Running them in between changes nothing, because compiling
reads only names, types and indices, which running does not write.

An `ir::Variant` is a record.  The four classes have sixteen `assignTo...`
functions in all; they agree on where a slot of a value is, given the
`underlyingTypes()` of the value moved, and that place is one operator per class
(`LocalPlace`, `GlobalPlace`, `MemoryPlace`, `StackPlace`).  An instruction copies
one wasm value between two places.  Values are named for where they come from
(third slot of argument x, default of an i32, ...).  Memory is a function of
addresses to single bytes of values, so that a load that meets parts of two
values returns `<<"mangled">>`.

| code | definition |
|---|---|
| `Local::initMembers`, `Global::initMembers` | `LocalMember`, `GlobalMember` |
| `compileClassConstructor`, and a call of it | `Constructor`, `CallBefore`, `Compile` |
| `postExprRefs_` (function.cpp:28-33) | `WriteBack`, used by `CompileReturn` and `CompileEnd` |
| `underlyingReturnTypeStatus` | `ViaMemory`, and the two cases of `CompileReturn` |
| `makeDefinition`, the lists built by `finalize()` | `declared`, `Declare` |
| the module is valid (Binaryen) | `Valid`, `Emit` |

`Variables` is the promise: a variable holds a value of its type, an assignment
changes what it names and nothing else, and a call ends with the value returned and
the receiver as the body left it.  The mapping shows the variables as they were when
the statement under way began (`settled`, a history variable that no action of the
model reads); `Done` makes its effects visible all at once.  `Variables` lets the
implementation refuse a statement on a member of a global only, which it does:
see the findings.

Left out here: conversions and operators (`ExpressionCompiler`), calls of anything but
a constructor (`Calls`), branches and loops (a path through a
body is a sequence of statements).  The inputs have no global that is named like
a member.  Of Binaryen it is assumed that it takes the type of an object in
an object, a tuple in a tuple (`Class::underlyingType`).

## 3. Runs

| run | question | inputs |
|---|---|---|
| `declarations` | does the retry loop lay out every class that can be, whatever the order and the cycles, and end; do the passes behind it see what they need, and refuse only what is wrong? | every file of three classes with up to two members each, over the three classes, a basis type and a type nobody declares; every file of four classes with at most one member each; every pair of statements over classes (members of every kind, `void` included, methods), functions (known, unknown and missing types, decorators, names that clash) and others; pairs of one-statement files |
| `operator_chains` | is the tree the one the priorities ask for? | every chain of up to 4 operators of three priorities and two of equal priority, every choice of operands in parentheses, each with an operator of low or high priority inside; one or two of them (two in chains of up to 3 operators) with parentheses inside the parentheses |
| `statements` | do `break` and `continue` reach their loop, do names resolve in their function, is every function compiled once, does the compiler end? | every file of up to 4 statements over while, break, continue, block, if with else, else-if, function; every file of up to 4 over let, expression, if, function, class, with reads of a name that may be a local, a parameter, a global, a function |
| `else_block` | (violation) is code generated for every statement? | files of up to 2 statements with an if/else |
| `storage` | does the generated code move values as the statements say, do slots stay apart, does a method leave its receiver behind its result? | seven functions (a function, three methods, one that returns an empty object, two files) over classes of no, one, two and three slots, every body of up to 2 statements |
| `nested_members` | (violation) does every member have wasm locals of its own? | a function with an argument whose first member has no slots |
| `expression_types` | does what is accepted validate, and if not, why? | every expression of up to five nodes over variables of six types, members, calls, four operators of different kinds, for every use of the value |
| `evaluation` | does the code compute what the expression means, and make its calls as often and in the order the text says? | every expression of up to five nodes over two variables of each of the four types of whole numbers, two functions that change globals, and all operators, on every pair of extreme values |
| `calls` | do nested calls get their arguments and deliver their results, and does a method leave its receiver where the caller could fetch it? | every statement of up to nine nodes over seven functions and methods with arguments and results of no, one, two and three wasm values |
| `receiver_lost` | (violation) does a change of `this` reach the caller? | the same functions |
| `diagnostics` | does an error report the place of what failed, and does the listener build the tree the source asks for? | every source of up to seven contexts of expressions, with chains of up to two; of up to six contexts of statements, functions and classes; and of ternary chains of up to three bodies |
| `command_line` | is the right file read and written, as a whole, and nothing else touched? | every sequence of up to four arguments over seven paths and two options; texts of lengths around the buffer's sizes |

What the properties say, beyond types:

- `declarations`: a laid-out class only needs laid-out types (`LayoutClosed`), and no set
  of them is cyclic (`LayoutWellFounded`): `underlyingTypes()` recurses without a
  check of its own, and the only cycle that is ever looked for has length one.
  No class is lost between the lists (`NoClassLost`), which stay in source order
  (`SourceOrder`), so that the error reported is that of the first class that has
  one.  The loop gives up only when nothing pending can be laid out
  (`StuckWhenNoProgress`), and then on exactly the classes that no order could
  have built (`LeftoverIsUnbuildable`, against a declarative definition).
  `ImplementsResolution` is the refinement, `Termination` that the loop ends.
  Behind the loop, signatures see all classes of the file
  (`SignaturesSeeEveryClass`), so a forward reference is never an unknown
  symbol; "redefined" is only said of names the program does declare
  twice (`RedefinedIsDeclaredTwice`), though functions, constructors and methods
  share a table and a class may be attempted many times.
- `operator_chains`: `MatchesReference` compares the tree after every operator with
  the usual definition (split at the last of the loosest operators);
  `Precedence` says the same of each node by itself.  Both are about chains without an *endangered* operand: one in parentheses, between a
  weaker operator on its left and a tighter one on its right.
  `OnlyEndangeredBreak` shows that these are exactly the operands that lose their
  parentheses.  `InOrder`: leaves and operators keep their order in any case.
- `statements`: `JumpsBindInnermost` finds the loops with the label a jump goes to and
  asks that the one in the jump's function be the innermost while around it, also
  when a then branch is compiled twice or a nested function of a prepared name
  shares its labels; `JumpErrorJustified` is the converse for the error;
  `LabelsUnique` is what Binaryen demands of a function.
  `ReadsInScope`: the variable read belongs to the function the read
  stands in, or is a global that no earlier declaration of that function hides.
  `NestedFunctionsRefused`: nested functions never reach a module that is
  finished.  `EveryFunctionCompiled`: each prepared function has its body, once.

- `storage`: `ImplementsVariables` is the refinement.  It covers the
  offsets in memory, the number of slots moved, the name or index of each, the first
  of several declarations of a name, and that result and receiver do not meet in
  memory.  `LocalsDisjoint`: no two variables share a wasm local, though the index
  counts slots and the list counts variables.  That `finalize()`, which walks the
  variables a second time, finds the same type at each index is part of the
  refinement: the code would not validate otherwise.

- `expression_types`: `ValidUnlessExcused` lists the reasons for which accepted code
  does not validate; the run shows that there is no other.
- `evaluation`: `MatchesMeaning` is the correctness of the code.  It
  is about valid code that was made without one of the causes, and covers the
  signedness of instructions, the width of literals, the temporary locals of `&&` and
  `||` when they are nested, and that no part is evaluated twice or out of order.
- `calls`: `MatchesMeaning` again: each call gets its arguments, in the order of the
  text, and the value arrives, though all results share one memory.
  `ValidUnlessCause` lists what does not validate or fails an assertion.
  `ReceiverBehindResult`: when a method returns, `this` lies behind its result, unless
  a call under `return` wrote there after it was stored.
- `diagnostics`: `ReportsInnermost`: whatever moved the contents of
  the nodes and whatever the error passes, it reports the context (with its
  parentheses) of the node that failed; a node that `appendExpr` made has no place,
  and only an error of the prepare passes has no message.  `RangesNest`: the contents of a node were
  written inside its range.  `EachOnce`: every operand, argument, statement is in the
  tree exactly once, the else block of `else_block` excepted.  `TernaryNestsRight`
  holds up to two bodies and never from three on.
- `command_line`: `WholeText` and `Termination` are about the loop, for texts that
  fill a buffer exactly, nearly, and more than once; `FailureKeepsFiles` about an
  earlier output; `ArgumentsUsed` about the options, of which each is taken once
  wherever it stands, and `-o` takes whatever follows it.

### Bounds

*Preparation.*  Two passes that each lay out a class next to one that stays blocked
need four classes in the worst order; that is the longest interaction of the two
lists, since a pass treats each class by its members' types alone.  Two members
are needed for "recursive" before or after "unknown".  Two files are enough for
everything that outlives a file.

*BinaryExpression.*  `appendExpr` compares priorities only.  With three priorities,
one of them twice, four operators give every order of falling and rising
priorities on a spine of up to three nodes and a turn back.  The proofs cover
chains of any length.

*StatementCompiler.*  Four statements allow a loop in a loop with a jump in each, a
jump behind an inner loop, a loop in a branch that is compiled twice, a jump in a
function in a loop, and two functions of a name with a loop in one of them.  Scopes
need a declaration outside, one inside and a read, and a function around them.

*Storage.*  Two statements give every pair of a move and a move of what it wrote, a
redeclaration and its use, a constructor and a return of the object, and put a
variable between the last argument and a return.  The classes have slots of
unequal size, an object behind a single slot, a single slot and none.  A member that
is not the last takes one slot: others overlap (`nested_members`).

*Expressions.*  Five nodes are an operator between two operators, or in an arm of a
ternary: a type that is decided, decided anew, and used; and a call on either side of
a `&&` in a `||`, with temporary locals for both.  Every operator is the root of such
an expression, and its operands take every pair of extremes.

*Calls.*  Nine nodes are a call of four arguments two of which are calls themselves,
with arguments of theirs.  The types have no, one, two and three slots of unequal
size.

*Diagnostics.*  Seven contexts allow a chain in parentheses within a chain; a chain
of two operators is the least in which `appendExpr` makes a node, in either
branch.  Six contexts of statements are an `if` with both blocks, one filled, in a
statement list.  Three bodies, nine contexts with their statement, are the shortest
ternary chain in which `addBody` wraps something it has wrapped before.

*CommandLine.*  Four arguments are one more than any accepted list without a repeated
option.  With `Chunk` 4 and `Limit` 16 the lengths are one below, at and above each
size the buffer has.

`MaxLength` (statements in a body), `MaxNodes`, `MaxArguments`, and of every source
of `Diagnostics` its `contexts` and `chain`, are the bounds that appear in guards and
initial states.  The counters of the models (labels, slots, positions) are bounded by
the size of the input.

### Deadlock and fairness

`operator_chains`, `statements` and `else_block` check for deadlock: the action
`Finished` is enabled where the code has nothing left to do, and the algorithm must not
stop anywhere else.  The other runs set `CHECK_DEADLOCK FALSE`: the compiler stops when
it has finished or refused the program, a call in `Storage` when it has returned or
`MaxLength` is reached, `ExpressionCompiler` and `Calls` behind their one statement,
`Diagnostics` when the error is reported or the tree has no room for more, and
`CommandLine` when the process has ended.  Two loops are not bounded by the tree that is
walked, the retries of `compile()` and the growing buffer of `wat()`; that they end is
`Termination` of `Preparation` and of `CommandLine`.  Both assume weak fairness of the
whole next-state relation.  The code is a sequential loop that nothing suspends
and that waits for nobody, so it takes a step as long as it has one to take.

## 4. Proofs

The eight proof modules assume what the named `ASSUME`s of the modules say: the inputs
are programs (chains, functions, scopes) of the right shape, the names the compiler
makes up are identifiers, the two model values are not, the names `Calls` uses for what
is open are no types and no functions, the slots of a class are those of its members, a class is not called like a basis type, `-o` is not a path, and the
first buffer is not empty.  There is no bound on the number of files, statements,
members, operators or nodes of an expression, on the depth of a file, on the number
of arguments or the length of a text, and none on `MaxLength` and `MaxNodes`.

| module | theorem | states |
|---|---|---|
| `PreparationProofs` | `TypeCorrect` | `TypeOK` |
| | `LayoutsAreClosed`, `LayoutsAreFinite` | `LayoutClosed`, `LayoutWellFounded` |
| | `PendingInOrder` | `SourceOrder` |
| | `StopsOnlyWhenStuck` | `StuckWhenNoProgress` |
| | `OnlyUnbuildableIsLeft` | `LeftoverIsUnbuildable` |
| | `NoClassIsLost` | `NoClassLost` |
| | `SignaturesAreLate` | `SignaturesSeeEveryClass` |
| | `RedefinedIsJustified` | `RedefinedIsDeclaredTwice` |
| | `RefinesResolution` | `Preparation` implements `ClassResolution` |
| `BinaryExpressionProofs` | `TypeCorrect` | `TypeOK` |
| | `OrderKept` | `InOrder` |
| | `ReferenceMatched` | `MatchesReference` |
| | `PrecedenceHolds` | `Precedence`, and `ParenthesesKept` for chains without an endangered operand |
| | `OnlyEndangeredParenthesesBreak` | `OnlyEndangeredBreak` |
| `StatementCompilerProofs` | `TypeCorrect` | `TypeOK` |
| | `JumpsAreBound`, `JumpErrorsAreJustified` | `JumpsBindInnermost`, `JumpErrorJustified` |
| | `LabelsAreUnique` | `LabelsUnique` |
| | `ReadsAreInScope` | `ReadsInScope` |
| | `NestedFunctionsAreRefused` | `NestedFunctionsRefused` |
| | `EveryFunctionIsCompiled` | `EveryFunctionCompiled` |
| `StorageProofs` | `TypeCorrect` | `TypeOK`: also that all instructions write what is declared |
| | `NoSharedLocals` | `LocalsDisjoint` |
| | `StorageImplementsVariables` | `Storage` implements `Variables`, given `Regular` |
| `ExpressionProofs` | `ExpressionsWellFormed` | `TypeOK` of `ExpressionCompiler` |
| | `AcceptedValidatesUnlessExcused` | `ValidUnlessExcused` |
| `CallsProofs` | `SoundUnlessCause` | the invariant: every operand has the types its frame expects |
| | `ValidCode` | `ValidUnlessCause` |
| `DiagnosticsProofs` | `TreesAreWellBuilt` | the invariant: parts are nodes of the kinds the grammar asks for |
| | `ErrorsReportInnermost` | `ReportsInnermost` |
| | `OnlyShortTernariesNestRight` | `TernaryNestsRight` |
| | `NothingIsLost` | `EachOnce` |
| | `RangesAreNested` | `RangesNest` |
| `CommandLineProofs` | `ArgumentsAreUsed` | `ArgumentsUsed` |
| | `TextsAreWhole` | `WholeText` |
| | `FailuresKeepFiles` | `FailureKeepsFiles` |

*Layouts.*  A step changes the set of layouts by at most one class, whose members'
types are all known and which is not known itself (`LayoutStep`).  Known types never
go away, so `LayoutClosed` is inductive; and a set of classes with the new one in it
has a member without needs inside the set: if it has others, one of those by
induction, since no old class needs the new one (`LayoutClosed` again: that is why
the two are proved together), otherwise the new class.

*The retry loop.*  `StuckWhenNoProgress` is not inductive alone.  It needs
`SourceOrder` (no class is pending twice, so the one that was laid out is not
pending any more) and `LeftoverFirst`: the uncaught attempts begin with nothing
pending or after a pass without progress, and end at the first one, because it
throws.  The three together are `Bookkeeping`.  While `isResolved` is false the type
table has not changed since the pass began, so an error stays the error it was.

*No class is lost.*  `Waiting` is followed through every step: a step that does not
throw takes at most one class out of it, the one it lays out (`WaitingStep`).

*What is left.*  `LeftoverIsUnbuildable` compares the pending list with `Buildable`, the
union of all sets that can be built in some order.  The laid-out classes are such a set
(`LayoutWellFounded`).  If another such set had a pending class in it, then a first one,
in the order of needs, whose needs are all laid out; but nothing blocked is ready
(`StuckWhenNoProgress`).  This takes that a known type of an earlier file or this one
has its declaration (`KnownFromDeclarations`), which TLC checked on the run before.

*Redefined.*  Every signature in the function table has its declaration
(`FunctionsDeclared`).  What collides with a signature at a declaration that has not
been prepared yet therefore comes from another one, or from the same class with two
methods of a name.

*Refinement.*  Every step maps to laying out one waiting class, refusing it, being
stuck, proceeding with the next file, or nothing.  `RefusalReason` gives each
exception of `prepareClassStatementLevel1` its abstract cause, and
`LeftoverIsStuck` uses `StuckWhenNoProgress`: when the first uncaught attempt throws,
no waiting class is ready.  The mapping is also checked by TLC.

*Operator chains.*  Two invariants.  `OrderInv` holds of every chain: the heap is well
founded (a rank exists that falls from an object to its parts), every object has one
owner, operands still to come have none, and `appendExpr` stands at the end of a way
from the root along right children that nothing else leads into (`Way`).  Then a write
adds the new operator and operand at the end of what each object on the way holds
(`LeavesOnWay`) and changes nothing beside it (`LeavesBeside`).  `SpansInv` is about
intact chains: each object the constructor made stands for the operands `lo` to `hi`,
its operator is where the reference splits these, and on the way all end with the
operand taken last and bind less tightly than the operator to be placed.  `Descend`
cannot leave the constructor's own objects, since the last operand is a
`BinaryExpression` only if the operator before it already binds at least as tightly as
the new one.  `Precedence` follows from the spans: an operator below another lies
beside it in the chain.

`LeavesIn`, `TreeIn`, `Written` and `Reference` are recursive functions, so that they have
the values their definitions read is itself to be proved: a function that
satisfies the equation up to some rank or length exists for each, since there is no
least number for which it does not (`LeastNumber`), and the `CHOOSE` behind the definition
then takes one (`LeavesEquation`, `TreeEquation`, `WrittenEquation`,
`ReferenceEquation`).  Parsed operands are ranked by the number of objects in them
(`ParsedWellFounded`).

*Parentheses.*  For any chain the way of `appendExpr` down the tree is followed as
well (`Trail`): along objects of the constructor and of operands that are broken already
as far as the object that holds the operand taken last, all of whose operators bind
less tightly than that object's.  It goes on into that operand only past that object,
that is if the new operator binds tighter than the last: then the operand is
endangered, and what is written there has a new child, which no parsed object has.  So
the operands that have lost their parentheses are the endangered ones behind which the
operator has been taken, and every other one is untouched (`BrokenInv`).

*Statements.*  `TypeOK` and the six properties are parts of one inductive invariant,
`IInv`.  The frames nest along the tree of the file, and each knows where it is
(`FramesNest`); the function stack, the label stacks of each function and the
Resolver's copy are functions of the open frames (`FunctionStack`, `LabelStack`):
that is what makes the `pop`s of the handlers the right ones.  `LabelsFresh` bounds every
label in use by the counter of its function.  `InOrder` says that what an open frame has left lies behind all
that has code, but for the branch of an `if` that is compiled twice, and that nothing
else is missing; with `LocalsDeclared` a read in scope finds its own function's variable
before a global.  `JumpsBind` is about the loops that are finished as well as open,
because a jump is emitted before its loop is.  It only holds as long as no function
is below another statement (`Flat`): otherwise two functions may share a name and
with it their labels.  Such a file is refused at the end of that function at the
latest, which is `NestedFunctionsRefused`, and needs `FunctionsAdded`: a closed
function is in the module once.

*Storage.*  `LocalsDisjoint` asks that the variables so far end before `localIndex`,
which is what the next one needs.  The types need more than themselves
(`StoreHolds`): instructions are valid for what is declared, so the machine must
have a place for every declaration, and while the arguments are added one by one it
already has those of all of them; the list of locals is then a prefix of the
arguments, and equals them when the body begins.

`ImplementsVariables` says that the visible state only changes when a statement is done,
and then as the statement says.  A statement has a plan: a set of pairs of a place and
the value it is to have in the end, for the slots of its target and of what it must
leave alone.  No two of its places meet (`Distinct`), no instruction writes anything else, and
each moves the value planned, from a place that nothing writes, or from one that
has its own planned value already or got it from an earlier instruction (`Sound`);
every pair has an instruction (`Covers`) or its value already.  One instruction after
another keeps that (`Pending`), so when none is left every place holds what was planned.
`Phases` is the invariant: while a statement runs there is such a plan, and it
leaves the variables, the result and the receiver as the statement says (`Promises`).
There is a lemma for where each kind of place has its slots, one per way a value is
moved, and two per statement: its plan is right, and `Variables` may choose what `Done`
shows.  Memory is the hardest: a result and a
receiver are stored at the sums of the sizes before them, so the bytes of two slots
must be shown apart (`FlattenSeq` and sums of sizes along a sequence need inductions,
which are done with the least counterexample).  The theorem assumes `Regular`: each
member but a class's last takes one wasm value, no global has the name of a member, and
the globals of a file have different names.  Without the first it is false
(`nested_members`), and Binaryen refuses a file without the third.  The second keeps
the globals named by a member apart from the others, as the inputs of the run do:
`Global::initMembers` names a member's global by the member alone.  TLC evaluates
`Regular` for the functions of both runs (`RegularUnlessNested`).

*Expressions.*  `IInv` says that as long as no excuse was noted, every operand that is
compiled validates and has the wasm type its object has *by now* (`Sound`).  That is
not inductive without the shape of the frames: an operator has its parent's object
for both sides, the arms of a ternary too, an argument one of the signature's that
never changes (`FrameType`), and a frame returns to the frame that asked, for the
object it asked with (`Linked`).  Objects only ever get resolved to another type, and
if the wasm type changes with it, that is an excuse: so what was compiled before stays
sound (`Agrees`, `FrameStaysSound`).  What a step does to the objects is `Progress`;
one lemma each says that handing an operand up (`ReturnedToFrame`), opening a frame
(`Opened`) and stopping (`Stopped`) keep the invariant, and one per action puts
them together.  `IInv` was checked by TLC before.

*Calls.*  As long as no cause was noted, the code of an operand is any number of
expressions that give nothing, followed by one for each wasm value of its type
(`SoundAs`): a call through memory is one, its loads the others.  A frame's operands so
far are such codes for what it expects, and a frame is what the one below waits for
(`FineStack`); a function's result has the type that is expected of it, which is why
deciding an open type changes no frame (`FrameKept`).  That a call then has as many
operands as parameters, each of its type (`CallIsOk`), needs that flattening the two
lists agrees element by element (`FlattenedMatch`): the library's `FlattenSeq` is a
recursive function, whose existence and values are shown from a least counterexample.
Codes and frames have no common type, so sequences of them are only known as sequences
of what they hold (`IsSeq`).  The invariant was checked by TLC before.

*Diagnostics.*  The range of a node is the last context it was the node of, or the
default if it never was one or is a statement that `exitStatement` has not come to
(`RangeIsLast`).  An exit gives away the node of one context and keeps this
(`ExitKeeps`), whatever the constructors of chains make beside it (`Made`).  So for
`ErrorsReportInnermost` it is left to show that the node an error is about is
never a statement without a place.  For this the tree has to be well-built: what a
node is compiled through, and where the resolver ends up from it, are expressions or
placed statements (`CompiledFrames`, `ResolvedPlaces`), which needs the grammar to hold
between every node and its parts (`Fits`), also while `appendExpr` takes objects apart.
`Failed` says that an error without a message is still in the frame of the node it is
about, so that the first catch clause is the right one.  The bodies of a ternary
expression are followed up to the second (`Nesting`): from the third on that one's
condition is a body, not what was written.  That nothing is lost is counted in slots:
every node but the excepted blocks is in exactly one, a part of a node or a root of an
open context (`Book`, `HeldOnce`, `OnceInv`).  A node that is made takes roots into its
parts and becomes one (`Takes`); `appendExpr` and `addBody` move the parts of a node and
a root into two nodes, one for one (`Rewires`), and in the middle of a chain the roots are
the node made so far and the operands to come (`Left`).  `OnceCounted` turns slots into
the cardinalities of `EachOnce`.

For `RangesNest` every node has a *hull*, a set of places that contains its range and
the hulls of its parts and lies in the span of one open context (`Hull`, `Encloses`).
The spans of open contexts are apart (`Ordered`, `SpansApart`), and an exit gives new
hulls only within what its context spans (`Rehulled`, `NestKept`); that it may set the
range of its node there needs that the node of an open context is a part of no other
(`RootIsNoPart`, from `OnceInv`).  `rangesIn` is a recursion over the tree: its equation
(`RangesInEquation`) and its bound by the hull (`RangesWithin`) hold because the tree
has no cycle (`WellFounded`), which adding a node keeps (`AddedWellFounded`) and so does
taking one apart (`HungWellFounded`).  A chain of binary operators opens only operands
in parentheses (`Opened`, `BinaryNests`; `SpineIn` follows the right spine), and by
`RulesFit` their ranges are in `TakenApart`.  The recursions of the constructors and of
the resolver are written as iterations (`Iterate`), whose equation is shown by
induction on their length (`CountingUp`).

*Arguments and files.*  What is left of the argument list is given by an increasing
list of positions in the original one (`Picks`); each erasure removes the least
position with an option (`LeastNumber`, from `NaturalsInduction`), so the three
searches together use each position once, or refuse.  A file is opened only in
states that no error can follow; and a text is only taken for complete when it is
shorter than the buffer.

*Model-checked only.*  Liveness (`Termination`) is out of TLAPS' reach.  `ExpressionMeaning` and `CallsMeaning` run
code by recursion, and the first uses `Bitwise`: nothing can be proved in them.

## 5. Findings

Three runs end in a violation, each of what a comment or a test of the repository
says:

- **The else block is the then block** (`else_block`).  `IfStatement` takes
  `blockStatements.at(0)` for both branches (`ast/if_statement.cpp:18-21`).
- **Members move** (`nested_members`).  `Local::initMembers` counts one wasm local
  per member (`ir/local.cpp:11`), so that behind a member of an empty class the next
  member is where another member, or another variable, is.  Behind a member of two
  slots it is at the second of them.
- **Methods do not change their receiver** (`receiver_lost`): nothing loads it back
  (`compiler.cpp:564`), though the callee stores it for that (`ir/function.cpp:30`).

Other disagreements are in the models, and in the passing properties as exceptions
with a name:

- **Parentheses can be lost** (`OnlyEndangeredBreak`).  `a + (b + c) * d` becomes
  `a + (b + (c * d))`: `appendExpr` descends into any `BinaryExpression`
  on the right (`ast/binary_expression.cpp:47`), also into one that was written in
  parentheses.
- **Members of globals** (`OnMemberOfGlobal` in `Variables`).  `Global::initMembers`
  names a member's global by the member alone (`ir/global.cpp:22`), while
  `makeDefinition` defines `variable#slot`; what the compiler makes of such a
  statement does not validate.
- **Wide conditions**, **wide `not`**, **members of any type** (`ValidUnlessExcused`):
  accepted, and the module does not validate (`ir/variant_type.cpp:143`, `:186`,
  `compiler.cpp:602`).
- **A result that is not one wasm value is no argument** (`ValidUnlessCause`): the call
  and the loads of its result all become operands (`compiler.cpp:572`).  A ternary of
  such values fails an assertion (`ir/stack_data.cpp:33`).
- **A method that returns the result of another call** may have its receiver
  overwritten in memory (`ReceiverBehindResult`, `compiler.cpp:367`).
- **Ternary chains** (`TernaryNestsRight`): from three bodies on they do not nest to
  the right (`ast/ternary_expression.cpp:31`).
- **Errors without a place** and **without a word** (`ReportsInnermost`): the nodes
  `appendExpr` makes have no range (`ast/binary_expression.cpp:38`), and errors of the
  prepare passes never get a message (`compiler.cpp:166`).
- **Success without an output**, and **with an invalid one** (actions `Open` and
  `ValidateAndOptimize` of `CommandLine`; no property is about them): `main` reports
  neither to its caller (`cli/main.cpp:75`, `:84`).

## 6. Plan

The modules of the plan are written.  What is left:

1. The wasm blocks of `if` and `while`: a machine for the code of
   `StatementCompiler`, as `ExpressionMeaning` and `CallsMeaning` have one.

### Not modelled

Binaryen, ANTLR and fmt (external): what the modules take from them is listed in
`PROJECT.json` as external definitions.  `BinaryenModuleOptimize` may change a text's
length and nothing else.  `to_string` of the syntax tree and the wording of messages.
Parameters and results whose type is a signature (a function as a value): the
resolver knows their types, no statement can make one.  A member looked up in a
variable that is no class (`resolver.cpp:87`): undefined behaviour.  Reading a file.
