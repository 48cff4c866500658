---------------------- MODULE StatementCompilerProofs ----------------------
(***************************************************************************)
(* What holds of the code generation for every file, however many          *)
(* statements it has and however deep they are nested: the stacks are      *)
(* balanced, labels are unique, jumps bind to their loops, and every       *)
(* function gets its body.                                                 *)
(***************************************************************************)
EXTENDS StatementCompiler, WellFoundedInduction, TLAPS

Word == Names \cup {NoName}
Function == {Start} \cup Word \X Word
Frame == [node: Nat, block: {1, 2}, pass: {1, 2}, last: Nat, breakLabel: Nat, continueLabel: Nat]
LabelState == [break: Seq(Nat), continue: Seq(Nat), breakIndex: Nat, continueIndex: Nat]
Instruction ==
  [what: {"read"}, node: Nat, from: [owner: Function, slot: Nat]]
    \cup [what: {"break", "continue"}, node: Nat, label: Nat]
    \cup [what: {"loop"}, node: Nat, in: Function, break: Nat, continue: Nat]

(* The state's parts have their types.                                     *)
Typed ==
  /\ program \in Seq(Statement) /\ WellFormed(program)
  /\ frames \in Seq(Frame) /\ frames # <<>>
  /\ current \in Seq(Function) /\ current # <<>>
  /\ labels \in [irFunctions(program) -> LabelState]
  /\ locals \in [irFunctions(program) -> Seq(Word)]
  /\ globals \subseteq Names
  /\ emitted \in Seq(Instruction)
  /\ compiled \subseteq DOMAIN program
  /\ status.is \in Outcome

-----------------------------------------------------------------------------
(* The frames go down the tree: what is around the statement of a frame    *)
(* are the statements of the frames below it.                              *)

FrameRight(i) ==
  /\ i = 1 => frames[i].node = 0 /\ frames[i].block = 1 /\ frames[i].pass = 1
  /\ i # 1 =>
       /\ frames[i].node = frames[i - 1].last
       /\ frames[i].node \in compiled
       /\ program[frames[i].node].kind \in Container
  /\ frames[i].last # 0 =>
       /\ frames[i].last \in DOMAIN program
       /\ program[frames[i].last].parent = frames[i].node
       /\ program[frames[i].last].block = frames[i].block
  /\ frames[i].pass = 1 => frames[i].block = 1
  /\ frames[i].pass = 2 =>
       program[frames[i].node].kind = IF frames[i].block = 1 THEN "ifElse" ELSE "ifElseIf"
NestedIn(n, i) == \A a \in DOMAIN program : Inside(n, a) <=> \E k \in 2..i : frames[k].node = a
FramesNest ==
  \A i \in DOMAIN frames :
    /\ FrameRight(i)
    /\ NestedIn(frames[i].node, i - 1)
    /\ \A j \in DOMAIN frames : i < j => frames[i].node < frames[j].node

(* Both stacks of functions are those of the frames.                       *)
FunctionStack ==
  /\ \E open \in [DOMAIN current -> OpenFunctions] :
       /\ Enumerates(open, OpenFunctions)
       /\ \A j \in DOMAIN current : current[j] = FunctionOf(open[j])
  /\ \A j \in DOMAIN current : current[j] \in functions \cup {Start}
  /\ resolving = currentFunction

(* A function's label stacks are those of its whiles that are open.        *)
LoopFrames(f) ==
  {i \in DOMAIN frames : i # 1 /\ program[frames[i].node].kind = "while" /\ Home(frames[i].node) = f}
LabelStack ==
  \A f \in irFunctions(program) :
    \E open \in [DOMAIN labels[f].break -> LoopFrames(f)] :
      /\ Enumerates(open, LoopFrames(f))
      /\ DOMAIN labels[f].continue = DOMAIN labels[f].break
      /\ \A j \in DOMAIN open : /\ labels[f].break[j] = frames[open[j]].breakLabel
                                /\ labels[f].continue[j] = frames[open[j]].continueLabel

(* No label is given twice: of two open whiles, of two loops, of one each. *)
LabelsFresh ==
  \A f \in irFunctions(program) :
    /\ \A i \in LoopFrames(f) :
         /\ frames[i].breakLabel < labels[f].breakIndex
         /\ frames[i].continueLabel < labels[f].continueIndex
         /\ \A j \in LoopFrames(f) : i # j => /\ frames[i].breakLabel # frames[j].breakLabel
                                              /\ frames[i].continueLabel # frames[j].continueLabel
    /\ \A e \in Emitted({"loop"}) :
         emitted[e].in = f =>
           /\ emitted[e].break < labels[f].breakIndex
           /\ emitted[e].continue < labels[f].continueIndex
           /\ \A i \in LoopFrames(f) : /\ frames[i].breakLabel # emitted[e].break
                                       /\ frames[i].continueLabel # emitted[e].continue

-----------------------------------------------------------------------------
(* What is left of the statements of a frame.                              *)
Remaining(i) ==
  {n \in DOMAIN program :
     /\ program[n].parent = frames[i].node
     /\ \/ program[n].block = frames[i].block /\ frames[i].last < n
        \/ frames[i].pass = 1 /\ program[n].block = 2 /\ program[frames[i].node].kind = "ifElseIf"}
(* A statement that has code exactly if the one it is in has, or is about  *)
(* to have it.                                                             *)
Reached(n) ==
  \/ program[n].parent = 0
  \/ /\ program[n].parent \in compiled
     /\ ~(program[n].block = 2 /\ program[program[n].parent].kind = "ifElse")
InOrder ==
  /\ \A i \in DOMAIN frames : \A n \in Remaining(i) : n \in compiled \/ \A m \in compiled : m < n
  /\ \A n \in DOMAIN program :
       Reached(n) => n \in compiled \/ \E i \in DOMAIN frames : n \in Remaining(i)

(* A function whose body is complete is in the module, once.               *)
Closed == {n \in compiled \cap FunctionsOf(program) : \A i \in DOMAIN frames : frames[i].node # n}
constructors == {<<NoName, c>> : c \in classes}
FunctionsAdded ==
  /\ constructors \subseteq wasm /\ wasm \subseteq functions \cup {Start}
  /\ \A n \in compiled \cap FunctionsOf(program) : Key(program, n) \in functions
  /\ \A n \in Closed : Key(program, n) \in wasm /\ Key(program, n) \notin constructors
  /\ \A n, m \in Closed : Key(program, n) = Key(program, m) => n = m

(* Every declaration that has code has its local variable.                 *)
LocalsDeclared ==
  \A n \in compiled :
    program[n].kind = "let" /\ Home(n) # Start =>
      \E i \in DOMAIN locals[Home(n)] : locals[Home(n)][i] = program[n].name

(* As long as no function is below another, a jump goes to the innermost   *)
(* loop around it, which is finished or open.                              *)
Flat == \A n \in compiled \cap FunctionsOf(program) : Prepared(program, n)
JumpBinds(jump) ==
  \/ \E e \in Emitted({"loop"}) :
       /\ emitted[e].in = Home(jump.node)
       /\ emitted[e][jump.what] = jump.label
       /\ emitted[e].node \in LoopAround(jump.node)
  \/ \E i \in LoopFrames(Home(jump.node)) :
       /\ jump.label = IF jump.what = "break" THEN frames[i].breakLabel ELSE frames[i].continueLabel
       /\ frames[i].node \in LoopAround(jump.node)
JumpsBind == Flat => \A j \in Emitted({"break", "continue"}) : JumpBinds(emitted[j])

EmittedRight ==
  /\ \A e \in DOMAIN emitted : emitted[e].node \in compiled
  /\ \A e \in Emitted({"loop"}) : emitted[e].in = Home(emitted[e].node)

AtTheEnd == status.is = "done" => /\ Here.node = 0 /\ Rest(Here) = {} /\ Start \in wasm

IInv ==
  /\ Typed /\ FramesNest /\ FunctionStack
  /\ LabelStack /\ LabelsFresh /\ LabelsUnique
  /\ InOrder /\ FunctionsAdded
  /\ LocalsDeclared /\ EmittedRight /\ ReadsInScope
  /\ JumpsBind /\ JumpErrorJustified
  /\ AtTheEnd

-----------------------------------------------------------------------------
(* The tree of the file.                                                   *)

LEMMA StatementTypes ==
  ASSUME Typed, NEW n \in DOMAIN program
  PROVE  /\ DOMAIN program = 1..Len(program) /\ Len(program) \in Nat
         /\ n \in Nat /\ n > 0
         /\ program[n] \in Statement
         /\ program[n].parent \in Nat /\ program[n].parent < n
         /\ program[n].parent # 0 => /\ program[n].parent \in DOMAIN program
                                     /\ program[program[n].parent].kind \in Container
         /\ program[n].block \in {1, 2}
<1>1. DOMAIN program = 1..Len(program) /\ Len(program) \in Nat /\ program[n] \in Statement
  BY DEF Typed
<1>2. program[n].parent \in Nat /\ program[n].block \in {1, 2}
  BY <1>1 DEF Statement
<1>3. program[n].parent < n /\ (n \notin TopLevel(program) => program[program[n].parent].kind \in Container)
  BY DEF Typed, WellFormed
<1> QED
  BY <1>1, <1>2, <1>3 DEF TopLevel

LEMMA InsideParent ==
  ASSUME Typed, NEW n \in DOMAIN program, NEW a \in DOMAIN program
  PROVE  Inside(n, a) <=> a = program[n].parent \/ Inside(program[n].parent, a)
<1> DEFINE p == program[n].parent
<1>1. /\ n \in Nat /\ p \in Nat /\ p < n /\ a \in Nat /\ a > 0
      /\ \A m \in (p + 1)..n : program[m].parent >= p
  BY StatementTypes DEF Typed, WellFormed
<1>2. \A m \in 1..n : program[m].parent \in Nat
  BY StatementTypes, <1>1
<1>3. ASSUME a = p PROVE Inside(n, a)
  BY <1>1, <1>3 DEF Inside
<1>4. ASSUME Inside(p, a) PROVE Inside(n, a)
  <2>1. a < p /\ \A m \in (a + 1)..p : program[m].parent >= a
    BY <1>4 DEF Inside
  <2>2. ASSUME NEW m \in (a + 1)..n PROVE program[m].parent >= a
    <3>1. CASE m <= p
      BY <2>1, <2>2, <3>1, <1>1
    <3>2. CASE m > p
      BY <1>1, <1>2, <2>1, <2>2, <3>2
    <3> QED
      BY <3>1, <3>2, <2>2, <1>1
  <2> QED
    BY <1>1, <2>1, <2>2 DEF Inside
<1>5. ASSUME Inside(n, a), a # p PROVE Inside(p, a)
  <2>1. a < n /\ \A m \in (a + 1)..n : program[m].parent >= a
    BY <1>5 DEF Inside
  <2>2. p > a
    BY <1>1, <1>5, <2>1
  <2>3. \A m \in (a + 1)..p : m \in (a + 1)..n
    BY <1>1
  <2> QED
    BY <2>1, <2>2, <2>3 DEF Inside
<1> QED
  BY <1>3, <1>4, <1>5

LEMMA KeyTypes ==
  ASSUME Typed, NEW n \in DOMAIN program
  PROVE  Key(program, n) \in Word \X Word /\ Key(program, n) # Start
<1>1. program[n].name \in Word
  BY StatementTypes DEF Statement, Word
<1>2. OwnerOf(program, n) \in Word
  <2>1. CASE program[n].parent \in ClassesOf(program)
    <3>1. program[n].parent \in DOMAIN program
      BY <2>1 DEF ClassesOf
    <3> QED
      BY <2>1, <3>1, StatementTypes DEF OwnerOf, Statement, Word
  <2>2. CASE program[n].parent \notin ClassesOf(program)
    BY <2>2 DEF OwnerOf, Word
  <2> QED
    BY <2>1, <2>2
<1> QED
  BY <1>1, <1>2, NamesAssumption DEF Key, Word

(* What is said of the file alone stays true.                              *)
LEMMA Static ==
  ASSUME program' = program
  PROVE  /\ \A n, a : Inside(n, a)' = Inside(n, a)
         /\ \A n : FunctionAround(n)' = FunctionAround(n) /\ Home(n)' = Home(n)
         /\ \A n : LoopAround(n)' = LoopAround(n)
         /\ functions' = functions /\ constructors' = constructors
<1>1. \A n, a : Inside(n, a)' = Inside(n, a)
  BY DEF Inside
<1>2. \A n : FunctionAround(n)' = FunctionAround(n)
  BY <1>1 DEF FunctionAround
<1>3. ASSUME NEW n PROVE Home(n)' = Home(n)
  <2>1. FunctionAround(n)' = FunctionAround(n)
    BY <1>2
  <2>2. (CHOOSE f \in FunctionAround(n) : TRUE)' = CHOOSE f \in FunctionAround(n) : TRUE
    BY <2>1
  <2> QED
    BY <2>1, <2>2 DEF Home
<1>4. \A n : LoopAround(n)' = LoopAround(n)
  BY <1>1, <1>2 DEF LoopAround
<1>5. functions' = functions /\ constructors' = constructors
  BY DEF functions, constructors, classes
<1> QED
  BY <1>1, <1>2, <1>3, <1>4, <1>5

-----------------------------------------------------------------------------
(* Sets of numbers in increasing order.                                    *)

Lists(w, m, S) == w \in [1..m -> S] /\ Enumerates(w, S)
Longer(v, w, m, k) == v[m + 1] = k /\ \A j \in 1..m : v[j] = w[j]
Shorter(v, w, m) == \A j \in 1..(m - 1) : v[j] = w[j]

LEMMA EnumerationEnds ==
  ASSUME NEW S, S \subseteq Nat, NEW m \in Nat, NEW w, Lists(w, m, S)
  PROVE  /\ m = 0 <=> S = {}
         /\ m # 0 => w[m] \in S /\ \A s \in S : s <= w[m]
<1> USE DEF Lists
<1>1. \A s \in S : \E i \in 1..m : s = w[i]
  BY DEF Enumerates
<1>2. ASSUME m # 0 PROVE w[m] \in S /\ \A s \in S : s <= w[m]
  <2>1. m \in 1..m /\ w[m] \in S
    BY <1>2
  <2>2. \A i \in 1..m : i # m => w[i] < w[m]
    BY <2>1 DEF Enumerates
  <2>3. \A i \in 1..m : w[i] \in Nat
    OBVIOUS
  <2> QED
    BY <1>1, <2>1, <2>2, <2>3
<1>3. m = 0 => S = {}
  BY <1>1
<1> QED
  BY <1>2, <1>3

LEMMA EnumerationGrows ==
  ASSUME NEW S, S \subseteq Nat, NEW m \in Nat, NEW w, Lists(w, m, S),
         NEW k \in Nat, \A s \in S : s < k
  PROVE  \E v : Lists(v, m + 1, S \cup {k}) /\ Longer(v, w, m, k)
<1> USE DEF Lists
<1> DEFINE v == [j \in 1..(m + 1) |-> IF j = m + 1 THEN k ELSE w[j]]
<1>1. \A j \in 1..m : v[j] = w[j] /\ w[j] \in S
  OBVIOUS
<1>2. v[m + 1] = k /\ DOMAIN v = 1..(m + 1)
  OBVIOUS
<1> HIDE DEF v
<1>3. \A j \in 1..(m + 1) : j \in 1..m \/ j = m + 1
  OBVIOUS
<1>4. \A i, j \in DOMAIN v : i < j => v[i] < v[j]
  <2> SUFFICES ASSUME NEW i \in 1..(m + 1), NEW j \in 1..(m + 1), i < j PROVE v[i] < v[j]
    BY <1>2
  <2>1. i \in 1..m
    OBVIOUS
  <2>2. CASE j = m + 1
    BY <2>1, <2>2, <1>1, <1>2
  <2>3. CASE j \in 1..m
    BY <2>1, <2>3, <1>1 DEF Enumerates
  <2> QED
    BY <2>2, <2>3, <1>3
<1>5. S = {w[i] : i \in 1..m}
  BY DEF Enumerates
<1>6. S \cup {k} = {v[i] : i \in 1..(m + 1)}
  <2>1. \A s \in S \cup {k} : \E i \in 1..(m + 1) : s = v[i]
    <3>1. k = v[m + 1] /\ m + 1 \in 1..(m + 1) /\ 1..m \subseteq 1..(m + 1)
      BY <1>2
    <3>2. \A s \in S : \E i \in 1..m : s = w[i]
      BY <1>5
    <3> QED
      BY <3>1, <3>2, <1>1
  <2>2. \A i \in 1..(m + 1) : v[i] \in S \cup {k}
    BY <1>1, <1>2, <1>3
  <2> QED
    BY <2>1, <2>2
<1>7. v \in [1..(m + 1) -> S \cup {k}]
  BY <1>1, <1>2, <1>3 DEF v
<1>8. Lists(v, m + 1, S \cup {k}) /\ Longer(v, w, m, k)
  BY <1>1, <1>2, <1>4, <1>6, <1>7 DEF Enumerates, Longer
<1> QED
  BY <1>8

LEMMA EnumerationShrinks ==
  ASSUME NEW S, S \subseteq Nat, NEW m \in Nat \ {0}, NEW w, Lists(w, m, S)
  PROVE  \E v : Lists(v, m - 1, S \ {w[m]}) /\ Shorter(v, w, m)
<1> USE DEF Lists
<1> DEFINE v == [j \in 1..(m - 1) |-> w[j]]
<1>1. \A j \in 1..(m - 1) : v[j] = w[j] /\ j \in 1..m
  OBVIOUS
<1>2. DOMAIN v = 1..(m - 1) /\ m \in 1..m
  OBVIOUS
<1>3. \A i, j \in 1..m : i < j => w[i] < w[j]
  BY DEF Enumerates
<1>4. \A i \in 1..m : w[i] \in S /\ w[i] \in Nat
  OBVIOUS
<1>5. \A j \in 1..(m - 1) : w[j] # w[m]
  BY <1>1, <1>2, <1>3, <1>4
<1>6. v \in [1..(m - 1) -> S \ {w[m]}]
  BY <1>1, <1>4, <1>5
<1> HIDE DEF v
<1>7. \A i, j \in DOMAIN v : i < j => v[i] < v[j]
  BY <1>1, <1>2, <1>3
<1>8. S \ {w[m]} = {v[i] : i \in 1..(m - 1)}
  <2>1. \A s \in S : \E i \in 1..m : s = w[i]
    BY DEF Enumerates
  <2>2. \A i \in 1..m : i = m \/ i \in 1..(m - 1)
    OBVIOUS
  <2>3. \A s \in S \ {w[m]} : \E i \in 1..(m - 1) : s = v[i]
    BY <2>1, <2>2, <1>1
  <2>4. \A i \in 1..(m - 1) : v[i] \in S \ {w[m]}
    BY <1>1, <1>4, <1>5
  <2> QED
    BY <2>3, <2>4
<1>9. Lists(v, m - 1, S \ {w[m]}) /\ Shorter(v, w, m)
  BY <1>1, <1>2, <1>6, <1>7, <1>8 DEF Enumerates, Shorter
<1> QED
  BY <1>9

-----------------------------------------------------------------------------
(* What an action does to the frames.                                      *)

Below == \A i \in 1..(Len(frames) - 1) : frames'[i] = frames[i]
TopBecomes(block, pass, last) ==
  LET t == Len(frames)
  IN  /\ frames'[t].node = frames[t].node
      /\ frames'[t].block = block /\ frames'[t].pass = pass /\ frames'[t].last = last
      /\ frames'[t].breakLabel = frames[t].breakLabel
      /\ frames'[t].continueLabel = frames[t].continueLabel
Passes(n) ==
  /\ Len(frames') = Len(frames) /\ Below
  /\ TopBecomes(Here.block, Here.pass, n)
Enters(n) ==
  /\ Len(frames') = Len(frames) + 1 /\ Below
  /\ TopBecomes(Here.block, Here.pass, n)
  /\ frames'[Len(frames) + 1].node = n
  /\ frames'[Len(frames) + 1].block = 1 /\ frames'[Len(frames) + 1].pass = 1
  /\ frames'[Len(frames) + 1].last = 0
Leaves == Len(frames') = Len(frames) - 1 /\ Below
GoesToElse == Len(frames') = Len(frames) /\ Below /\ TopBecomes(ElseBlock, 2, 0)

LEMMA FrameTypes ==
  ASSUME Typed
  PROVE  /\ DOMAIN frames = 1..Len(frames) /\ Len(frames) \in Nat \ {0}
         /\ Here = frames[Len(frames)]
         /\ \A i \in DOMAIN frames :
              /\ frames[i] \in Frame
              /\ frames[i].node \in Nat /\ frames[i].last \in Nat
              /\ frames[i].block \in {1, 2} /\ frames[i].pass \in {1, 2}
              /\ frames[i].breakLabel \in Nat /\ frames[i].continueLabel \in Nat
<1>1. DOMAIN frames = 1..Len(frames) /\ Len(frames) \in Nat \ {0} /\ \A i \in DOMAIN frames : frames[i] \in Frame
  BY DEF Typed
<1>2. Here = frames[Len(frames)]
  BY DEF Here, Last
<1> QED
  BY <1>1, <1>2 DEF Frame

LEMMA PassingFrames ==
  ASSUME Typed, NEW n \in Nat
  PROVE  /\ Passed(n) \in Seq(Frame) /\ Len(Passed(n)) = Len(frames)
         /\ \A i \in 1..(Len(frames) - 1) : Passed(n)[i] = frames[i]
         /\ Passed(n)[Len(frames)] = [frames[Len(frames)] EXCEPT !.last = n]
<1>1. frames \in Seq(Frame) /\ Len(frames) \in DOMAIN frames /\ frames[Len(frames)] \in Frame
  BY FrameTypes DEF Typed
<1>2. [frames[Len(frames)] EXCEPT !.last = n] \in Frame
  BY <1>1 DEF Frame
<1>3. Passed(n) = [frames EXCEPT ![Len(frames)] = [frames[Len(frames)] EXCEPT !.last = n]]
  BY DEF Passed
<1> QED
  BY <1>1, <1>2, <1>3

LEMMA PassesFrames ==
  ASSUME Typed, NEW n \in Nat, frames' = Passed(n)
  PROVE  frames' \in Seq(Frame) /\ Passes(n)
<1>1. Len(frames') = Len(frames) /\ Below /\ frames' \in Seq(Frame)
  BY PassingFrames DEF Below
<1>2. frames'[Len(frames)] = [frames[Len(frames)] EXCEPT !.last = n]
  BY PassingFrames
<1>3. frames[Len(frames)] \in Frame /\ Here = frames[Len(frames)]
  BY FrameTypes
<1>4. TopBecomes(Here.block, Here.pass, n)
  BY <1>2, <1>3 DEF TopBecomes, Frame
<1> QED
  BY <1>1, <1>4 DEF Passes

LEMMA EntersFrames ==
  ASSUME Typed, NEW n \in Nat, NEW f \in Frame, frames' = Append(Passed(n), f),
         f.node = n, f.block = 1, f.pass = 1, f.last = 0
  PROVE  frames' \in Seq(Frame) /\ Enters(n) /\ frames'[Len(frames) + 1] = f
<1>0. /\ Passed(n) \in Seq(Frame) /\ Len(Passed(n)) = Len(frames)
      /\ \A i \in 1..(Len(frames) - 1) : Passed(n)[i] = frames[i]
      /\ Passed(n)[Len(frames)] = [frames[Len(frames)] EXCEPT !.last = n]
  BY PassingFrames
<1>4. frames[Len(frames)] \in Frame /\ Here = frames[Len(frames)] /\ Len(frames) \in Nat \ {0}
  BY FrameTypes
<1>1. /\ frames' \in Seq(Frame) /\ Len(frames') = Len(frames) + 1
      /\ frames'[Len(frames) + 1] = f
      /\ \A i \in 1..Len(frames) : frames'[i] = Passed(n)[i]
  BY <1>0, <1>4
<1>2. Below
  BY <1>0, <1>1, <1>4 DEF Below
<1>3. frames'[Len(frames)] = [frames[Len(frames)] EXCEPT !.last = n]
  BY <1>0, <1>1, <1>4
<1>5. TopBecomes(Here.block, Here.pass, n)
  BY <1>3, <1>4 DEF TopBecomes, Frame
<1> QED
  BY <1>1, <1>2, <1>5 DEF Enters

LEMMA LeavesFrames ==
  ASSUME Typed, Len(frames) > 1, Leave
  PROVE  frames' \in Seq(Frame) /\ frames' # <<>> /\ Leaves
<1>1. frames \in Seq(Frame) /\ Len(frames) \in Nat
  BY DEF Typed
<1>2. frames' = SubSeq(frames, 1, Len(frames) - 1)
  BY DEF Leave, Front
<1>3. /\ frames' \in Seq(Frame) /\ Len(frames') = Len(frames) - 1
      /\ \A i \in 1..(Len(frames) - 1) : frames'[i] = frames[i]
  BY <1>1, <1>2
<1> QED
  BY <1>3 DEF Leaves, Below

LEMMA ElseFrames ==
  ASSUME Typed, Else
  PROVE  frames' \in Seq(Frame) /\ GoesToElse
<1>1. frames \in Seq(Frame) /\ Len(frames) \in DOMAIN frames /\ frames[Len(frames)] \in Frame
  BY FrameTypes DEF Typed
<1> DEFINE f == [frames[Len(frames)] EXCEPT !.block = ElseBlock, !.pass = 2, !.last = 0]
<1>2. ElseBlock \in {1, 2}
  BY DEF ElseBlock
<1>3. /\ f \in Frame /\ f.block = ElseBlock /\ f.pass = 2 /\ f.last = 0
      /\ f.node = frames[Len(frames)].node
      /\ f.breakLabel = frames[Len(frames)].breakLabel
      /\ f.continueLabel = frames[Len(frames)].continueLabel
  BY <1>1, <1>2 DEF Frame
<1>4. frames' = [frames EXCEPT ![Len(frames)] = f]
  BY DEF Else
<1> HIDE DEF f
<1>5. /\ frames' \in Seq(Frame) /\ Len(frames') = Len(frames)
      /\ \A i \in 1..(Len(frames) - 1) : frames'[i] = frames[i]
      /\ frames'[Len(frames)] = f
  BY <1>1, <1>3, <1>4
<1> QED
  BY <1>3, <1>5 DEF GoesToElse, Below, TopBecomes

-----------------------------------------------------------------------------
(* Going down the tree and back.                                           *)

LEMMA ChildNests ==
  ASSUME Typed, FramesNest, NEW n \in DOMAIN program, program[n].parent = Here.node
  PROVE  /\ NestedIn(n, Len(frames))
         /\ \A i \in DOMAIN frames : frames[i].node <= Here.node /\ frames[i].node < n
<1>0. PICK t : t = Len(frames)
  OBVIOUS
<1>1. t = Len(frames) /\ t \in DOMAIN frames /\ t \in Nat \ {0} /\ Here = frames[t] /\ DOMAIN frames = 1..t
  BY <1>0, FrameTypes
<1>2. NestedIn(frames[t].node, t - 1) /\ FrameRight(t)
  BY <1>1 DEF FramesNest
<1>3. \A i \in DOMAIN frames : i < t => frames[i].node < frames[t].node
  BY <1>1 DEF FramesNest
<1>4. ASSUME NEW a \in DOMAIN program
      PROVE  Inside(n, a) <=> \E k \in 2..t : frames[k].node = a
  <2>1. Inside(n, a) <=> a = frames[t].node \/ Inside(frames[t].node, a)
    BY <1>1, InsideParent
  <2>2. Inside(frames[t].node, a) <=> \E k \in 2..(t - 1) : frames[k].node = a
    BY <1>2 DEF NestedIn
  <2>3. t = 1 => a # frames[t].node
    BY <1>2, StatementTypes DEF FrameRight
  <2>4. (\E k \in 2..t : frames[k].node = a) <=>
          \/ t # 1 /\ frames[t].node = a
          \/ \E k \in 2..(t - 1) : frames[k].node = a
    BY <1>1
  <2> QED
    BY <2>1, <2>2, <2>3, <2>4
<1>5. \A i \in DOMAIN frames : frames[i].node <= frames[t].node
  BY <1>1, <1>3, FrameTypes
<1>6. frames[t].node < n
  BY <1>1, StatementTypes
<1>7. \A i \in DOMAIN frames : frames[i].node < n
  BY <1>1, <1>5, <1>6, FrameTypes, StatementTypes
<1> QED
  BY <1>1, <1>4, <1>5, <1>7 DEF NestedIn

LEMMA NodesDiffer ==
  ASSUME Typed, FramesNest, NEW i \in DOMAIN frames, NEW j \in DOMAIN frames, i < j
  PROVE  frames[i].node # frames[j].node
<1>1. frames[i].node < frames[j].node
  BY DEF FramesNest
<1>2. frames[i].node \in Nat
  BY FrameTypes
<1> QED
  BY <1>1, <1>2

LEMMA NodeTypes ==
  ASSUME Typed, FramesNest, NEW i \in DOMAIN frames
  PROVE  /\ FrameRight(i) /\ NestedIn(frames[i].node, i - 1)
         /\ i # 1 => /\ frames[i].node \in DOMAIN program /\ frames[i].node \in compiled
                     /\ frames[i].node # 0 /\ program[frames[i].node].kind \in Container
         /\ i = 1 => frames[i].node = 0
<1>1. FrameRight(i) /\ NestedIn(frames[i].node, i - 1)
  BY DEF FramesNest
<1>2. \A n \in compiled : n \in DOMAIN program /\ n # 0
  BY StatementTypes DEF Typed
<1> QED
  BY <1>1, <1>2 DEF FrameRight

LEMMA NestStays ==
  ASSUME Typed, FramesNest, program' = program,
         NEW m \in Nat, m <= Len(frames),
         \A i \in 1..m : frames'[i].node = frames[i].node
  PROVE  \A i \in 1..m :
           /\ NestedIn(frames[i].node, i - 1)'
           /\ \A j \in 1..m : i < j => frames'[i].node < frames'[j].node
<1>1. 1..m \subseteq DOMAIN frames /\ DOMAIN frames = 1..Len(frames)
  BY FrameTypes
<1> SUFFICES ASSUME NEW i \in 1..m
             PROVE  /\ NestedIn(frames[i].node, i - 1)'
                    /\ \A j \in 1..m : i < j => frames'[i].node < frames'[j].node
  OBVIOUS
<1>2. NestedIn(frames[i].node, i - 1) /\ \A j \in DOMAIN frames : i < j => frames[i].node < frames[j].node
  BY <1>1 DEF FramesNest
<1>3. \A k \in 2..(i - 1) : frames'[k].node = frames[k].node
  OBVIOUS
<1>4. NestedIn(frames[i].node, i - 1)'
  <2> SUFFICES ASSUME NEW a \in DOMAIN program'
               PROVE  Inside(frames[i].node, a)' <=> \E k \in 2..(i - 1) : frames'[k].node = a
    BY DEF NestedIn
  <2>1. Inside(frames[i].node, a)' <=> Inside(frames[i].node, a)
    BY DEF Inside
  <2> QED
    BY <2>1, <1>2, <1>3 DEF NestedIn
<1> QED
  BY <1>1, <1>2, <1>4

LEMMA RightStays ==
  ASSUME program' = program, compiled \subseteq compiled', NEW i, FrameRight(i),
         frames'[i] = frames[i], i # 1 => frames'[i - 1].last = frames[i - 1].last
  PROVE  FrameRight(i)'
BY DEF FrameRight

LEMMA PassesNest ==
  ASSUME Typed, FramesNest, program' = program, compiled \subseteq compiled',
         NEW n \in Rest(Here), Passes(n), frames' \in Seq(Frame)
  PROVE  FramesNest'
<1>0. PICK t : t = Len(frames)
  OBVIOUS
<1>1. t = Len(frames) /\ t \in Nat \ {0} /\ Here = frames[t] /\ DOMAIN frames = 1..t /\ DOMAIN frames' = 1..t
  BY <1>0, FrameTypes DEF Passes
<1>2. (\A i \in 1..(t - 1) : frames'[i] = frames[i]) /\ TopBecomes(frames[t].block, frames[t].pass, n)
  BY <1>1 DEF Passes, Below
<1>3. \A i \in 1..t : frames'[i].node = frames[i].node
  BY <1>1, <1>2 DEF TopBecomes
<1>4. \A i \in 1..(t - 1) : FrameRight(i)'
  <2> SUFFICES ASSUME NEW i \in 1..(t - 1) PROVE FrameRight(i)'
    OBVIOUS
  <2>1. FrameRight(i) /\ frames'[i] = frames[i]
    BY <1>1, <1>2 DEF FramesNest
  <2>2. i # 1 => frames'[i - 1].last = frames[i - 1].last
    BY <1>1, <1>2
  <2> QED
    BY <2>1, <2>2, RightStays
<1>5. FrameRight(t)'
  <2>1. FrameRight(t)
    BY <1>1 DEF FramesNest
  <2>2. t # 1 => frames'[t - 1].last = frames[t - 1].last
    BY <1>1, <1>2
  <2>3. n \in DOMAIN program /\ program[n].parent = frames[t].node /\ program[n].block = frames[t].block
    BY <1>1 DEF Rest
  <2> QED
    BY <2>1, <2>2, <2>3, <1>1, <1>2 DEF FrameRight, TopBecomes
<1>6. \A i \in 1..t : FrameRight(i)'
  BY <1>1, <1>4, <1>5
<1>7. \A i \in 1..t : /\ NestedIn(frames[i].node, i - 1)'
                      /\ \A j \in 1..t : i < j => frames'[i].node < frames'[j].node
  BY <1>1, <1>3, NestStays
<1> QED
  BY <1>1, <1>6, <1>7 DEF FramesNest

LEMMA EntersNest ==
  ASSUME Typed, FramesNest, program' = program, compiled \subseteq compiled',
         NEW n \in Rest(Here), n \in compiled', program[n].kind \in Container,
         Enters(n), frames' \in Seq(Frame)
  PROVE  FramesNest'
<1>0. PICK t : t = Len(frames)
  OBVIOUS
<1>1. t = Len(frames) /\ t \in Nat \ {0} /\ Here = frames[t] /\ DOMAIN frames = 1..t /\ DOMAIN frames' = 1..(t + 1)
  BY <1>0, FrameTypes DEF Enters
<1>2. (\A i \in 1..(t - 1) : frames'[i] = frames[i]) /\ TopBecomes(frames[t].block, frames[t].pass, n)
  BY <1>1 DEF Enters, Below
<1>3. \A i \in 1..t : frames'[i].node = frames[i].node
  BY <1>1, <1>2 DEF TopBecomes
<1>n. n \in DOMAIN program /\ program[n].parent = frames[t].node /\ program[n].block = frames[t].block
  BY <1>1 DEF Rest
<1>4. \A i \in 1..(t - 1) : FrameRight(i)'
  <2> SUFFICES ASSUME NEW i \in 1..(t - 1) PROVE FrameRight(i)'
    OBVIOUS
  <2>1. FrameRight(i) /\ frames'[i] = frames[i]
    BY <1>1, <1>2 DEF FramesNest
  <2>2. i # 1 => frames'[i - 1].last = frames[i - 1].last
    BY <1>1, <1>2
  <2> QED
    BY <2>1, <2>2, RightStays
<1>5. FrameRight(t)'
  <2>1. FrameRight(t)
    BY <1>1 DEF FramesNest
  <2>2. t # 1 => frames'[t - 1].last = frames[t - 1].last
    BY <1>1, <1>2
  <2> QED
    BY <2>1, <2>2, <1>n, <1>1, <1>2 DEF FrameRight, TopBecomes
<1>6. FrameRight(t + 1)'
  <2>1. /\ frames'[t + 1].node = n /\ frames'[t + 1].last = 0
        /\ frames'[t + 1].block = 1 /\ frames'[t + 1].pass = 1
    BY <1>1 DEF Enters
  <2>2. frames'[(t + 1) - 1].last = n
    BY <1>1, <1>2 DEF TopBecomes
  <2> QED
    BY <1>1, <2>1, <2>2 DEF FrameRight
<1>7. \A i \in 1..(t + 1) : FrameRight(i)'
  BY <1>1, <1>4, <1>5, <1>6
<1>8. \A i \in 1..t : /\ NestedIn(frames[i].node, i - 1)'
                      /\ \A j \in 1..t : i < j => frames'[i].node < frames'[j].node
  BY <1>1, <1>3, NestStays
<1>9. NestedIn(frames[t + 1].node, (t + 1) - 1)'
  <2>1. NestedIn(n, t) /\ frames'[t + 1].node = n /\ (t + 1) - 1 = t
    BY <1>1, <1>n, ChildNests DEF Enters
  <2> SUFFICES ASSUME NEW a \in DOMAIN program
               PROVE  Inside(n, a)' <=> \E k \in 2..t : frames'[k].node = a
    BY <2>1 DEF NestedIn
  <2>2. Inside(n, a)' <=> Inside(n, a)
    BY DEF Inside
  <2>3. \A k \in 2..t : frames'[k].node = frames[k].node
    BY <1>3
  <2> QED
    BY <2>1, <2>2, <2>3 DEF NestedIn
<1>10. \A i \in 1..t : frames'[i].node < frames'[t + 1].node
  BY <1>1, <1>3, <1>n, ChildNests DEF Enters
<1>11. \A i \in 1..(t + 1), j \in 1..(t + 1) : i < j => frames'[i].node < frames'[j].node
  <2> SUFFICES ASSUME NEW i \in 1..(t + 1), NEW j \in 1..(t + 1), i < j
               PROVE  frames'[i].node < frames'[j].node
    OBVIOUS
  <2>1. i \in 1..t /\ (j \in 1..t \/ j = t + 1)
    BY <1>1
  <2> QED
    BY <2>1, <1>8, <1>10
<1>12. \A i \in 1..(t + 1) : NestedIn(frames[i].node, i - 1)'
  <2> SUFFICES ASSUME NEW i \in 1..(t + 1) PROVE NestedIn(frames[i].node, i - 1)'
    OBVIOUS
  <2>1. i \in 1..t \/ i = t + 1
    BY <1>1
  <2> QED
    BY <2>1, <1>8, <1>9
<1> QED
  BY <1>1, <1>7, <1>11, <1>12 DEF FramesNest

LEMMA LeavesNest ==
  ASSUME Typed, FramesNest, program' = program, compiled' = compiled,
         Len(frames) > 1, Leaves, frames' \in Seq(Frame)
  PROVE  FramesNest'
<1>0. PICK t : t = Len(frames)
  OBVIOUS
<1>1. t = Len(frames) /\ t \in Nat \ {0} /\ DOMAIN frames = 1..t /\ DOMAIN frames' = 1..(t - 1) /\ t - 1 \in Nat
  BY <1>0, FrameTypes DEF Leaves
<1>2. \A i \in 1..(t - 1) : frames'[i] = frames[i]
  BY <1>1 DEF Leaves, Below
<1>4. \A i \in 1..(t - 1) : FrameRight(i)'
  <2> SUFFICES ASSUME NEW i \in 1..(t - 1) PROVE FrameRight(i)'
    OBVIOUS
  <2>1. FrameRight(i) /\ frames'[i] = frames[i]
    BY <1>1, <1>2 DEF FramesNest
  <2>2. i # 1 => frames'[i - 1].last = frames[i - 1].last
    BY <1>1, <1>2
  <2> QED
    BY <2>1, <2>2, RightStays
<1>3. t - 1 <= Len(frames) /\ \A i \in 1..(t - 1) : frames'[i].node = frames[i].node
  BY <1>1, <1>2
<1>5. \A i \in 1..(t - 1) : /\ NestedIn(frames[i].node, i - 1)'
                            /\ \A j \in 1..(t - 1) : i < j => frames'[i].node < frames'[j].node
  BY <1>1, <1>3, NestStays
<1> QED
  BY <1>1, <1>4, <1>5 DEF FramesNest

LEMMA ElseNests ==
  ASSUME Typed, FramesNest, program' = program, compiled' = compiled,
         Else, GoesToElse, frames' \in Seq(Frame)
  PROVE  FramesNest'
<1>0. PICK t : t = Len(frames)
  OBVIOUS
<1>1. t = Len(frames) /\ t \in Nat \ {0} /\ Here = frames[t] /\ DOMAIN frames = 1..t /\ DOMAIN frames' = 1..t
  BY <1>0, FrameTypes DEF GoesToElse
<1>2. (\A i \in 1..(t - 1) : frames'[i] = frames[i]) /\ TopBecomes(ElseBlock, 2, 0)
  BY <1>1 DEF GoesToElse, Below
<1>3. \A i \in 1..t : frames'[i].node = frames[i].node
  BY <1>1, <1>2 DEF TopBecomes
<1>4. \A i \in 1..(t - 1) : FrameRight(i)'
  <2> SUFFICES ASSUME NEW i \in 1..(t - 1) PROVE FrameRight(i)'
    OBVIOUS
  <2>1. FrameRight(i) /\ frames'[i] = frames[i]
    BY <1>1, <1>2 DEF FramesNest
  <2>2. i # 1 => frames'[i - 1].last = frames[i - 1].last
    BY <1>1, <1>2
  <2> QED
    BY <2>1, <2>2, RightStays
<1>5. FrameRight(t)'
  <2>1. FrameRight(t)
    BY <1>1 DEF FramesNest
  <2>2. t # 1 => frames'[t - 1].last = frames[t - 1].last
    BY <1>1, <1>2
  <2>3. frames[t].node # 0 /\ program[frames[t].node].kind \in {"ifElse", "ifElseIf"}
    BY <1>1 DEF Else, AtEndOf, Branching, HasElse
  <2>4. program[frames[t].node].kind = IF ElseBlock = 1 THEN "ifElse" ELSE "ifElseIf"
    BY <1>1, <2>3 DEF ElseBlock
  <2>5. t # 1
    BY <2>1, <2>3 DEF FrameRight
  <2> QED
    BY <2>1, <2>2, <2>4, <2>5, <1>1, <1>2 DEF FrameRight, TopBecomes
<1>6. \A i \in 1..t : FrameRight(i)'
  BY <1>1, <1>4, <1>5
<1>7. \A i \in 1..t : /\ NestedIn(frames[i].node, i - 1)'
                      /\ \A j \in 1..t : i < j => frames'[i].node < frames'[j].node
  BY <1>1, <1>3, NestStays
<1> QED
  BY <1>1, <1>6, <1>7 DEF FramesNest

-----------------------------------------------------------------------------
(* The order in which statements get their code.                           *)

LEMMA SiblingBlocks ==
  ASSUME Typed, NEW n \in DOMAIN program, NEW m \in DOMAIN program,
         program[n].parent = program[m].parent, program[n].block < program[m].block
  PROVE  n < m
<1>1. n \in 1..Len(program) /\ m \in 1..Len(program) /\ Len(program) \in Nat
  BY StatementTypes
<1>2. \A k \in m..Len(program) : program[k].parent = program[m].parent => program[k].block >= program[m].block
  BY DEF Typed, WellFormed
<1>3. program[n].block \in {1, 2} /\ program[m].block \in {1, 2}
  BY StatementTypes
<1> QED
  BY <1>1, <1>2, <1>3

(* What is left in an outer frame comes after the whole inner one.         *)
LEMMA RemainingIsBehind ==
  ASSUME Typed, FramesNest, NEW n \in Rest(Here), \A m \in Rest(Here) : n <= m,
         NEW i \in DOMAIN frames, NEW m \in Remaining(i), m # n
  PROVE  n < m
<1>0. PICK t : t = Len(frames)
  OBVIOUS
<1>1. t = Len(frames) /\ t \in Nat \ {0} /\ Here = frames[t] /\ DOMAIN frames = 1..t
  BY <1>0, FrameTypes
<1>2. /\ n \in DOMAIN program /\ program[n].parent = frames[t].node
      /\ program[n].block = frames[t].block /\ frames[t].last < n
  BY <1>1 DEF Rest
<1>3. /\ m \in DOMAIN program /\ program[m].parent = frames[i].node
      /\ \/ program[m].block = frames[i].block /\ frames[i].last < m
         \/ frames[i].pass = 1 /\ program[m].block = 2
  BY DEF Remaining
<1>4. FrameRight(i) /\ FrameRight(t)
  BY <1>1 DEF FramesNest
<1>5. n \in Nat /\ m \in Nat /\ frames[i].node \in Nat /\ frames[i].last \in Nat /\ frames[t].node \in Nat
  BY <1>2, <1>3, <1>1, FrameTypes, StatementTypes
<1>6. CASE i = t
  <2>1. CASE m \in Rest(Here)
    BY <2>1, <1>5
  <2>2. CASE m \notin Rest(Here)
    <3>1. program[m].block = 2 /\ frames[t].block = 1
      BY <2>2, <1>1, <1>3, <1>4, <1>6 DEF FrameRight, Rest
    <3> QED
      BY <3>1, <1>2, <1>3, <1>6, SiblingBlocks
  <2> QED
    BY <2>1, <2>2
<1>7. CASE i # t
  <2>1. i \in 1..(t - 1) /\ i + 1 \in 2..t /\ i + 1 \in DOMAIN frames /\ (i + 1) - 1 = i
    BY <1>1, <1>7
  <2>2. FrameRight(i + 1) /\ frames[i].node < frames[i + 1].node
    BY <2>1 DEF FramesNest
  <2> DEFINE l == frames[i].last
  <2>3. frames[i + 1].node = l
    BY <2>1, <2>2 DEF FrameRight
  <2>4. l # 0 /\ l \in Nat
    BY <2>2, <2>3, <1>5
  <2>5. l \in DOMAIN program /\ program[l].parent = frames[i].node /\ program[l].block = frames[i].block
    BY <2>4, <1>4 DEF FrameRight
  <2>6. l < m
    <3>1. CASE frames[i].last < m
      BY <3>1
    <3>2. CASE frames[i].pass = 1 /\ program[m].block = 2
      <4>1. program[l].block = 1
        BY <3>2, <2>5, <1>4 DEF FrameRight
      <4> QED
        BY <4>1, <3>2, <2>5, <1>3, SiblingBlocks
    <3> QED
      BY <3>1, <3>2, <1>3
  <2>7. Inside(n, l)
    BY <1>1, <1>2, <2>1, <2>3, <2>5, ChildNests DEF NestedIn
  <2>8. \A k \in (l + 1)..n : program[k].parent >= l
    BY <2>7 DEF Inside
  <2>9. program[m].parent < l
    BY <1>3, <2>2, <2>3
  <2>10. m \notin (l + 1)..n
    BY <2>8, <2>9, <2>4, <1>5, <1>3
  <2> QED
    BY <2>6, <2>10, <2>4, <1>5
<1> QED
  BY <1>6, <1>7

LEMMA RemainingStays ==
  ASSUME program' = program, NEW i, frames'[i] = frames[i]
  PROVE  Remaining(i)' = Remaining(i)
BY DEF Remaining

(* Passing a statement takes it, and nothing else, from what is left.      *)
LEMMA RemainingPasses ==
  ASSUME Typed, FramesNest, program' = program,
         NEW n \in Rest(Here), \A m \in Rest(Here) : n <= m,
         NEW t, t = Len(frames), TopBecomes(Here.block, Here.pass, n)
  PROVE  \A m : m \in Remaining(t)' <=> m \in Remaining(t) /\ m # n
<1>1. t \in Nat \ {0} /\ Here = frames[t] /\ DOMAIN frames = 1..t /\ t \in DOMAIN frames
  BY FrameTypes
<1>2. /\ frames'[t].node = frames[t].node /\ frames'[t].block = frames[t].block
      /\ frames'[t].pass = frames[t].pass /\ frames'[t].last = n
  BY <1>1 DEF TopBecomes
<1>3. n \in DOMAIN program /\ frames[t].last < n /\ frames[t].last \in Nat /\ n \in Nat
  BY <1>1, FrameTypes, StatementTypes DEF Rest
<1>4. program[n].block = frames[t].block /\ FrameRight(t)
  BY <1>1 DEF Rest, FramesNest
<1> SUFFICES ASSUME NEW m \in DOMAIN program
             PROVE  m \in Remaining(t)' <=> m \in Remaining(t) /\ m # n
  BY DEF Remaining
<1>5. m \in Nat
  BY StatementTypes
<1>6. ASSUME m \in Remaining(t)' PROVE m \in Remaining(t) /\ m # n
  <2>1. /\ program[m].parent = frames[t].node
        /\ \/ program[m].block = frames[t].block /\ n < m
           \/ /\ frames[t].pass = 1 /\ program[m].block = 2
              /\ program[frames[t].node].kind = "ifElseIf"
    BY <1>6, <1>2 DEF Remaining
  <2>2. CASE program[m].block = frames[t].block /\ n < m
    BY <2>1, <2>2, <1>3, <1>5 DEF Remaining
  <2>3. CASE /\ frames[t].pass = 1 /\ program[m].block = 2
             /\ program[frames[t].node].kind = "ifElseIf"
    <3>1. m # n
      BY <2>3, <1>4 DEF FrameRight
    <3> QED
      BY <2>1, <2>3, <3>1 DEF Remaining
  <2> QED
    BY <2>1, <2>2, <2>3
<1>7. ASSUME m \in Remaining(t), m # n PROVE m \in Remaining(t)'
  <2>1. n < m
    BY <1>7, <1>1, RemainingIsBehind
  <2> QED
    BY <2>1, <1>7, <1>2 DEF Remaining
<1> QED
  BY <1>6, <1>7

(* Every statement that is not passed has none or all of its code; this    *)
(* holds for what remains when the next one is passed.                     *)
LEMMA OrderBehind ==
  ASSUME Typed, FramesNest, InOrder, NEW n \in Rest(Here), \A m \in Rest(Here) : n <= m,
         compiled' = compiled \cup {n},
         NEW i \in DOMAIN frames, NEW m \in Remaining(i), m # n
  PROVE  m \in compiled' \/ \A c \in compiled' : c < m
<1>1. m \in compiled \/ \A c \in compiled : c < m
  BY DEF InOrder
<1>2. n < m
  BY RemainingIsBehind
<1> QED
  BY <1>1, <1>2

LEMMA OrderPassed ==
  ASSUME Typed, FramesNest, InOrder, program' = program,
         NEW n \in Rest(Here), \A m \in Rest(Here) : n <= m,
         compiled' = compiled \cup {n},
         NEW t, t = Len(frames), Below, TopBecomes(Here.block, Here.pass, n)
  PROVE  /\ \A i \in 1..t : \A m \in Remaining(i)' : m \in compiled' \/ \A c \in compiled' : c < m
         /\ \A m \in DOMAIN program :
              Reached(m) => m \in compiled' \/ \E i \in 1..t : m \in Remaining(i)'
<1>1. t = Len(frames) /\ t \in Nat \ {0} /\ DOMAIN frames = 1..t /\ t \in DOMAIN frames
  BY FrameTypes
<1>2. \A i \in 1..(t - 1) : frames'[i] = frames[i]
  BY <1>1 DEF Below
<1>3. \A i \in 1..(t - 1) : Remaining(i)' = Remaining(i)
  BY <1>2, RemainingStays
<1>4. \A m : m \in Remaining(t)' <=> m \in Remaining(t) /\ m # n
  BY <1>1, RemainingPasses
<1>5. n \in DOMAIN program /\ program[n].parent = frames[t].node
  BY <1>1, FrameTypes DEF Rest
<1>6. \A i \in 1..(t - 1) : n \notin Remaining(i)
  <2>1. \A i \in 1..(t - 1) : frames[i].node # frames[t].node
    BY <1>1, NodesDiffer
  <2> QED
    BY <2>1, <1>5 DEF Remaining
<1>7. ASSUME NEW i \in 1..t, NEW m \in Remaining(i)'
      PROVE  m \in Remaining(i) /\ m # n
  <2>1. i = t \/ i \in 1..(t - 1)
    BY <1>1
  <2> QED
    BY <2>1, <1>3, <1>4, <1>6, <1>7
<1>8. \A i \in 1..t : \A m \in Remaining(i)' : m \in compiled' \/ \A c \in compiled' : c < m
  BY <1>1, <1>7, OrderBehind
<1>9. ASSUME NEW m \in DOMAIN program, Reached(m)
      PROVE  m \in compiled' \/ \E i \in 1..t : m \in Remaining(i)'
  <2>1. CASE m \in compiled
    BY <2>1
  <2>2. ASSUME NEW i \in DOMAIN frames, m \in Remaining(i) PROVE m \in compiled' \/ m \in Remaining(i)'
    <3>1. i = t \/ i \in 1..(t - 1)
      BY <1>1
    <3> QED
      BY <3>1, <2>2, <1>3, <1>4
  <2> QED
    BY <2>1, <2>2, <1>1, <1>9 DEF InOrder
<1> QED
  BY <1>8, <1>9

LEMMA PassesInOrder ==
  ASSUME Typed, FramesNest, InOrder, program' = program,
         NEW n \in Rest(Here), \A m \in Rest(Here) : n <= m, program[n].kind \notin Container,
         compiled' = compiled \cup {n}, Passes(n), frames' \in Seq(Frame)
  PROVE  InOrder'
<1>0. PICK t : t = Len(frames)
  OBVIOUS
<1>1. t = Len(frames) /\ DOMAIN frames' = 1..t /\ n \in DOMAIN program
  BY <1>0, FrameTypes DEF Passes, Rest
<1>2. /\ \A i \in 1..t : \A m \in Remaining(i)' : m \in compiled' \/ \A c \in compiled' : c < m
      /\ \A m \in DOMAIN program :
           Reached(m) => m \in compiled' \/ \E i \in 1..t : m \in Remaining(i)'
  BY <1>1, OrderPassed DEF Passes
<1>3. ASSUME NEW m \in DOMAIN program, Reached(m)' PROVE Reached(m)
  <2>1. program[m].parent # n
    BY <1>1, StatementTypes
  <2> QED
    BY <2>1, <1>3 DEF Reached
<1> QED
  BY <1>1, <1>2, <1>3 DEF InOrder

LEMMA EntersInOrder ==
  ASSUME Typed, FramesNest, InOrder, program' = program,
         NEW n \in Rest(Here), \A m \in Rest(Here) : n <= m,
         compiled' = compiled \cup {n}, Enters(n), frames' \in Seq(Frame)
  PROVE  InOrder'
<1>0. PICK t : t = Len(frames)
  OBVIOUS
<1>1. /\ t = Len(frames) /\ t \in Nat \ {0} /\ Here = frames[t] /\ DOMAIN frames = 1..t
      /\ DOMAIN frames' = 1..(t + 1)
  BY <1>0, FrameTypes DEF Enters
<1>2. /\ \A i \in 1..t : \A m \in Remaining(i)' : m \in compiled' \/ \A c \in compiled' : c < m
      /\ \A m \in DOMAIN program :
           Reached(m) => m \in compiled' \/ \E i \in 1..t : m \in Remaining(i)'
  BY <1>1, OrderPassed DEF Enters
<1>3. /\ frames'[t + 1].node = n /\ frames'[t + 1].block = 1
      /\ frames'[t + 1].pass = 1 /\ frames'[t + 1].last = 0
  BY <1>1 DEF Enters
<1>4. n \in DOMAIN program /\ program[n].parent = frames[t].node /\ n \in Remaining(t)
  BY <1>1 DEF Rest, Remaining
<1>5. \A i \in DOMAIN frames : frames[i].node # n
  BY <1>1, <1>4, ChildNests, FrameTypes, StatementTypes
<1>6. ASSUME NEW m \in Remaining(t + 1)' PROVE m \in compiled' \/ \A c \in compiled' : c < m
  <2>1. /\ m \in DOMAIN program /\ program[m].parent = n
        /\ program[m].block = 1 \/ program[n].kind = "ifElseIf"
    BY <1>3, <1>6 DEF Remaining
  <2>2. n < m
    BY <2>1, StatementTypes
  <2>3. CASE n \in compiled
    <3>1. Reached(m)
      BY <2>1, <2>3 DEF Reached
    <3>2. \A i \in DOMAIN frames : m \notin Remaining(i)
      BY <2>1, <1>5 DEF Remaining
    <3> QED
      BY <3>1, <3>2, <2>1 DEF InOrder
  <2>4. CASE n \notin compiled
    <3>1. \A c \in compiled : c < n
      BY <2>4, <1>1, <1>4 DEF InOrder
    <3>2. \A c \in compiled : c \in Nat /\ c < m
      BY <3>1, <2>1, <2>2, <1>4, StatementTypes DEF Typed
    <3> QED
      BY <3>2, <2>2
  <2> QED
    BY <2>3, <2>4
<1>7. ASSUME NEW i \in 1..(t + 1), NEW m \in Remaining(i)'
      PROVE  m \in compiled' \/ \A c \in compiled' : c < m
  <2>1. i \in 1..t \/ i = t + 1
    BY <1>1
  <2> QED
    BY <2>1, <1>2, <1>6, <1>7
<1>8. ASSUME NEW m \in DOMAIN program, Reached(m)'
      PROVE  m \in compiled' \/ \E i \in 1..(t + 1) : m \in Remaining(i)'
  <2>1. CASE Reached(m)
    BY <2>1, <1>1, <1>2
  <2>2. CASE ~Reached(m)
    <3>1. program[m].parent = n /\ ~(program[m].block = 2 /\ program[n].kind = "ifElse")
      BY <2>2, <1>8 DEF Reached
    <3>2. m > 0 /\ n > 0 /\ program[m].block \in {1, 2}
      BY <1>4, StatementTypes
    <3>3. program[m].block = 2 => program[n].kind \in {"ifElse", "ifElseIf"}
      BY <3>1, <3>2 DEF Typed, WellFormed, TopLevel
    <3>4. m \in Remaining(t + 1)'
      BY <1>3, <3>1, <3>2, <3>3 DEF Remaining
    <3> QED
      BY <3>4, <1>1
  <2> QED
    BY <2>1, <2>2
<1> QED
  BY <1>1, <1>7, <1>8 DEF InOrder

LEMMA LeavesInOrder ==
  ASSUME Typed, FramesNest, InOrder, program' = program, compiled' = compiled,
         Rest(Here) = {}, ~(Here.pass = 1 /\ program[Here.node].kind = "ifElseIf"),
         Len(frames) > 1, Leaves, frames' \in Seq(Frame)
  PROVE  InOrder'
<1>0. PICK t : t = Len(frames)
  OBVIOUS
<1>1. /\ t = Len(frames) /\ t \in Nat \ {0} /\ Here = frames[t] /\ DOMAIN frames = 1..t
      /\ DOMAIN frames' = 1..(t - 1)
  BY <1>0, FrameTypes DEF Leaves
<1>2. \A i \in 1..(t - 1) : Remaining(i)' = Remaining(i)
  BY <1>1, RemainingStays DEF Leaves, Below
<1>3. \A m : m \notin Remaining(t)
  BY <1>1 DEF Remaining, Rest
<1>4. \A i \in 1..t : i = t \/ i \in 1..(t - 1)
  BY <1>1
<1>5. \A m : Reached(m)' <=> Reached(m)
  BY DEF Reached
<1> QED
  BY <1>1, <1>2, <1>3, <1>4, <1>5 DEF InOrder

LEMMA ElseInOrder ==
  ASSUME Typed, FramesNest, InOrder, program' = program, compiled' = compiled,
         Else, GoesToElse, frames' \in Seq(Frame)
  PROVE  InOrder'
<1>0. PICK t : t = Len(frames)
  OBVIOUS
<1>1. /\ t = Len(frames) /\ t \in Nat \ {0} /\ Here = frames[t] /\ DOMAIN frames = 1..t
      /\ DOMAIN frames' = 1..t
  BY <1>0, FrameTypes DEF GoesToElse
<1>2. \A i \in 1..(t - 1) : Remaining(i)' = Remaining(i)
  BY <1>1, RemainingStays DEF GoesToElse, Below
<1>3. /\ Rest(frames[t]) = {} /\ frames[t].node # 0 /\ frames[t].pass = 1
      /\ program[frames[t].node].kind \in {"ifElse", "ifElseIf"}
  BY <1>1 DEF Else, AtEndOf, Branching, HasElse
<1>4. /\ frames'[t].node = frames[t].node /\ frames'[t].block = ElseBlock
      /\ frames'[t].pass = 2 /\ frames'[t].last = 0
  BY <1>1 DEF GoesToElse, TopBecomes
<1>5. ElseBlock = IF program[frames[t].node].kind = "ifElse" THEN 1 ELSE 2
  BY <1>1 DEF ElseBlock
<1>6. FrameRight(t) /\ t # 1
  <2>1. FrameRight(t)
    BY <1>1 DEF FramesNest
  <2> QED
    BY <2>1, <1>3 DEF FrameRight
<1>7. ASSUME NEW m \in Remaining(t)' PROVE m \in compiled \/ \A c \in compiled : c < m
  <2>1. m \in DOMAIN program /\ program[m].parent = frames[t].node /\ program[m].block = ElseBlock
    BY <1>7, <1>4 DEF Remaining
  <2>2. CASE program[frames[t].node].kind = "ifElse"
    <3>1. Reached(m)
      BY <2>1, <2>2, <1>5, <1>6 DEF Reached, FrameRight
    <3>2. \A i \in 1..(t - 1) : frames[i].node # frames[t].node
      BY <1>1, NodesDiffer
    <3>3. \A i \in 1..t : m \in Remaining(i) => i = t
      BY <3>2, <2>1, <1>1 DEF Remaining
    <3>4. m \notin Remaining(t)
      BY <2>1, <2>2, <1>3, <1>6 DEF Remaining, Rest
    <3> QED
      BY <3>1, <3>3, <3>4, <2>1, <1>1 DEF InOrder
  <2>3. CASE program[frames[t].node].kind = "ifElseIf"
    <3>1. m \in Remaining(t)
      BY <2>1, <2>3, <1>3, <1>5 DEF Remaining
    <3> QED
      BY <3>1, <1>1 DEF InOrder
  <2> QED
    BY <2>2, <2>3, <1>3
<1>8. \A m : m \in Remaining(t) => m \in Remaining(t)'
  <2> SUFFICES ASSUME NEW m \in Remaining(t) PROVE m \in Remaining(t)'
    OBVIOUS
  <2>1. /\ m \in DOMAIN program /\ program[m].parent = frames[t].node /\ program[m].block = 2
        /\ program[frames[t].node].kind = "ifElseIf"
    BY <1>3 DEF Remaining, Rest
  <2>2. m > 0
    BY <2>1, StatementTypes
  <2> QED
    BY <2>1, <2>2, <1>4, <1>5 DEF Remaining
<1>9. \A i \in 1..t : i = t \/ i \in 1..(t - 1)
  BY <1>1
<1>10. \A m : Reached(m)' <=> Reached(m)
  BY DEF Reached
<1>11. \A i \in 1..t : \A m \in Remaining(i)' : m \in compiled \/ \A c \in compiled : c < m
  BY <1>1, <1>2, <1>7, <1>9 DEF InOrder
<1>12. \A m \in DOMAIN program : Reached(m) => m \in compiled \/ \E i \in 1..t : m \in Remaining(i)'
  BY <1>1, <1>2, <1>8, <1>9 DEF InOrder
<1> QED
  BY <1>1, <1>10, <1>11, <1>12 DEF InOrder

-----------------------------------------------------------------------------
(* What an action does to the frames, as the stacks see it.                *)

Alike(m) ==
  \A i \in 1..m : /\ frames'[i].node = frames[i].node
                  /\ frames'[i].breakLabel = frames[i].breakLabel
                  /\ frames'[i].continueLabel = frames[i].continueLabel
Stays == Len(frames') = Len(frames) /\ Alike(Len(frames))
Pushes(n) ==
  /\ Len(frames') = Len(frames) + 1 /\ Alike(Len(frames))
  /\ frames'[Len(frames) + 1].node = n
Pops == Len(frames') = Len(frames) - 1 /\ Len(frames) > 1 /\ Alike(Len(frames) - 1)

LEMMA Shapes ==
  ASSUME Typed
  PROVE  /\ \A n : Passes(n) => Stays
         /\ \A n : Enters(n) => Pushes(n)
         /\ GoesToElse => Stays
         /\ Leaves /\ Len(frames) > 1 => Pops
<1>0. PICK t : t = Len(frames)
  OBVIOUS
<1>1. t = Len(frames) /\ t \in Nat \ {0} /\ \A i \in 1..t : i = t \/ i \in 1..(t - 1)
  BY <1>0, FrameTypes
<1>2. ASSUME NEW b, NEW p, NEW l, Below, TopBecomes(b, p, l) PROVE Alike(t)
  <2>1. \A i \in 1..(t - 1) : frames'[i] = frames[i]
    BY <1>1, <1>2 DEF Below
  <2>2. /\ frames'[t].node = frames[t].node /\ frames'[t].breakLabel = frames[t].breakLabel
        /\ frames'[t].continueLabel = frames[t].continueLabel
    BY <1>1, <1>2 DEF TopBecomes
  <2> QED
    BY <1>1, <2>1, <2>2 DEF Alike
<1>3. ASSUME NEW n, Passes(n) PROVE Stays
  BY <1>1, <1>2, <1>3 DEF Passes, Stays
<1>4. ASSUME NEW n, Enters(n) PROVE Pushes(n)
  BY <1>1, <1>2, <1>4 DEF Enters, Pushes
<1>5. ASSUME GoesToElse PROVE Stays
  BY <1>1, <1>2, <1>5 DEF GoesToElse, Stays
<1>6. ASSUME Leaves, Len(frames) > 1 PROVE Pops
  BY <1>1, <1>6 DEF Leaves, Pops, Alike, Below
<1> QED
  BY <1>3, <1>4, <1>5, <1>6

-----------------------------------------------------------------------------
(* The functions around a statement.                                       *)

LEMMA OpenFunctionTypes ==
  ASSUME Typed, FramesNest
  PROVE  /\ OpenFunctions \subseteq DOMAIN frames /\ OpenFunctions \subseteq Nat /\ 1 \in OpenFunctions
         /\ \A k \in OpenFunctions : k # 1 => frames[k].node \in FunctionsOf(program)
<1>1. DOMAIN frames = 1..Len(frames) /\ Len(frames) \in Nat \ {0}
  BY FrameTypes
<1>2. OpenFunctions \subseteq DOMAIN frames /\ 1 \in OpenFunctions /\ 1..Len(frames) \subseteq Nat
  BY <1>1 DEF OpenFunctions
<1>3. ASSUME NEW k \in OpenFunctions, k # 1 PROVE frames[k].node \in FunctionsOf(program)
  <2>1. k \in DOMAIN frames /\ program[frames[k].node].kind = "function"
    BY <1>3 DEF OpenFunctions
  <2>2. frames[k].node \in compiled
    BY <2>1, <1>3 DEF FramesNest, FrameRight
  <2> QED
    BY <2>1, <2>2 DEF FunctionsOf, Typed
<1> QED
  BY <1>1, <1>2, <1>3

LEMMA InnermostFunction ==
  ASSUME Typed, FramesNest, FunctionStack
  PROVE  \E k \in OpenFunctions : currentFunction = FunctionOf(k) /\ \A i \in OpenFunctions : i <= k
<1>1. PICK open \in [DOMAIN current -> OpenFunctions] :
        /\ Enumerates(open, OpenFunctions)
        /\ \A j \in DOMAIN current : current[j] = FunctionOf(open[j])
  BY DEF FunctionStack
<1>2. DOMAIN current = 1..Len(current) /\ Len(current) \in Nat \ {0} /\ currentFunction = current[Len(current)]
  BY DEF Typed, currentFunction, Last
<1>3. OpenFunctions \subseteq Nat
  BY OpenFunctionTypes
<1>4. open[Len(current)] \in OpenFunctions /\ \A i \in OpenFunctions : i <= open[Len(current)]
  <2>1. Lists(open, Len(current), OpenFunctions)
    BY <1>1, <1>2 DEF Lists
  <2> QED
    BY <2>1, <1>2, <1>3, EnumerationEnds
<1> QED
  BY <1>1, <1>2, <1>4

LEMMA AroundIs ==
  ASSUME Typed, FramesNest, NEW n \in DOMAIN program, NEW top \in Nat, top <= Len(frames), NestedIn(n, top),
         NEW k \in OpenFunctions, k <= top, \A i \in OpenFunctions : i <= top => i <= k
  PROVE  /\ FunctionAround(n) = IF k = 1 THEN {} ELSE {frames[k].node}
         /\ Home(n) = FunctionOf(k)
<1>1. /\ k \in DOMAIN frames /\ k \in Nat /\ DOMAIN frames = 1..Len(frames) /\ Len(frames) \in Nat
      /\ k # 1 => frames[k].node \in FunctionsOf(program)
  BY OpenFunctionTypes, FrameTypes
<1>2. ASSUME NEW g \in FunctionsOf(program), Inside(n, g)
      PROVE  \E j \in OpenFunctions : 2 <= j /\ j <= k /\ frames[j].node = g
  <2>1. g \in DOMAIN program /\ program[g].kind = "function"
    BY DEF FunctionsOf
  <2>2. PICK j \in 2..top : frames[j].node = g
    BY <1>2, <2>1 DEF NestedIn
  <2>3. j \in OpenFunctions
    BY <1>1, <2>1, <2>2 DEF OpenFunctions
  <2> QED
    BY <2>2, <2>3
<1>3. CASE k = 1
  <2>1. \A g \in FunctionsOf(program) : ~Inside(n, g)
    BY <1>2, <1>3, OpenFunctionTypes
  <2>2. FunctionAround(n) = {}
    BY <2>1 DEF FunctionAround
  <2> QED
    BY <2>2, <1>3 DEF Home, FunctionOf
<1>4. CASE k # 1
  <2> DEFINE F == frames[k].node
  <2>1. F \in FunctionsOf(program) /\ F \in DOMAIN program /\ k \in 2..top
    BY <1>1, <1>4 DEF FunctionsOf
  <2>2. Inside(n, F)
    BY <2>1 DEF NestedIn
  <2>3. ASSUME NEW g \in FunctionsOf(program), Inside(n, g) PROVE g <= F
    <3>1. PICK j \in OpenFunctions : 2 <= j /\ j <= k /\ frames[j].node = g
      BY <2>3, <1>2
    <3>2. j \in DOMAIN frames /\ j \in Nat
      BY OpenFunctionTypes
    <3>3. j < k => g < F
      BY <3>1, <3>2, <1>1 DEF FramesNest
    <3> QED
      BY <3>1, <3>2, <3>3, <1>1, FrameTypes
  <2>4. F \in FunctionAround(n)
    BY <2>1, <2>2, <2>3 DEF FunctionAround
  <2>5. ASSUME NEW g \in FunctionAround(n) PROVE g = F
    <3>1. g \in FunctionsOf(program) /\ Inside(n, g) /\ F <= g
      BY <2>1, <2>2, <2>5 DEF FunctionAround
    <3>2. g \in Nat /\ F \in Nat
      BY <2>1, <3>1, StatementTypes DEF FunctionsOf
    <3> QED
      BY <2>3, <3>1, <3>2
  <2>6. FunctionAround(n) = {F}
    BY <2>4, <2>5
  <2> HIDE DEF F
  <2>7. Home(n) = Key(program, F)
    BY <2>6 DEF Home
  <2> QED
    BY <2>6, <2>7, <1>4 DEF F, FunctionOf
<1> QED
  BY <1>3, <1>4

(* The statement that comes next, and the while that ends, are in the      *)
(* current function.                                                       *)
LEMMA ChildIsHome ==
  ASSUME Typed, FramesNest, FunctionStack, NEW n \in DOMAIN program, program[n].parent = Here.node
  PROVE  Home(n) = currentFunction
<1>1. PICK k \in OpenFunctions : currentFunction = FunctionOf(k) /\ \A i \in OpenFunctions : i <= k
  BY InnermostFunction
<1>2. NestedIn(n, Len(frames)) /\ k <= Len(frames) /\ Len(frames) \in Nat
  BY ChildNests, OpenFunctionTypes, FrameTypes
<1> QED
  BY <1>1, <1>2, AroundIs

LEMMA HereIsHome ==
  ASSUME Typed, FramesNest, FunctionStack, Len(frames) > 1, program[Here.node].kind # "function"
  PROVE  Home(Here.node) = currentFunction
<1>0. PICK t : t = Len(frames)
  OBVIOUS
<1>1. t = Len(frames) /\ t \in Nat \ {0, 1} /\ Here = frames[t] /\ DOMAIN frames = 1..t
  BY <1>0, FrameTypes
<1>2. PICK k \in OpenFunctions : currentFunction = FunctionOf(k) /\ \A i \in OpenFunctions : i <= k
  BY InnermostFunction
<1>3. NestedIn(frames[t].node, t - 1) /\ frames[t].node \in DOMAIN program
  BY <1>1, NodeTypes
<1>4. k \in 1..t /\ k # t
  BY <1>1 DEF OpenFunctions
<1>5. k <= t - 1 /\ t - 1 \in Nat /\ t - 1 <= Len(frames)
  BY <1>1, <1>4
<1> QED
  BY <1>1, <1>2, <1>3, <1>5, AroundIs

-----------------------------------------------------------------------------
(* The stack of functions.                                                 *)

LEMMA SameFunctions ==
  ASSUME Typed, FramesNest, FunctionStack, program' = program, frames' \in Seq(Frame),
         current' = current, resolving' = resolving,
         \/ Stays
         \/ \E n : Pushes(n) /\ program[n].kind # "function"
         \/ Pops /\ program[Here.node].kind # "function"
  PROVE  FunctionStack'
<1>1. DOMAIN frames = 1..Len(frames) /\ Len(frames) \in Nat \ {0} /\ Here = frames[Len(frames)]
      /\ DOMAIN frames' = 1..Len(frames') /\ Len(frames') \in Nat
  BY FrameTypes
<1>2. ASSUME NEW i \in OpenFunctions PROVE i \in OpenFunctions' /\ FunctionOf(i)' = FunctionOf(i)
  <2>1. i \in 1..Len(frames) /\ (i = 1 \/ program[frames[i].node].kind = "function")
    BY <1>1 DEF OpenFunctions
  <2>2. i \in 1..Len(frames') /\ frames'[i].node = frames[i].node
    <3>1. CASE Stays
      BY <1>1, <2>1, <3>1 DEF Stays, Alike
    <3>2. CASE \E n : Pushes(n)
      BY <1>1, <2>1, <3>2 DEF Pushes, Alike
    <3>3. CASE Pops /\ program[Here.node].kind # "function"
      <4>1. Len(frames') = Len(frames) - 1 /\ Len(frames) > 1 /\ Alike(Len(frames) - 1)
        BY <3>3 DEF Pops
      <4>2. i # Len(frames)
        <5>1. i = Len(frames) => i # 1
          BY <4>1
        <5>2. Here = frames[Len(frames)]
          BY <1>1, FrameTypes
        <5> QED
          BY <5>1, <5>2, <2>1, <3>3
      <4>3. i \in 1..(Len(frames) - 1)
        <5>1. i \in Nat /\ 1 <= i /\ i <= Len(frames) /\ Len(frames) \in Nat
          BY <1>1, <2>1
        <5> QED
          BY <5>1, <4>2
      <4> QED
        BY <4>1, <4>3 DEF Alike
    <3> QED
      BY <3>1, <3>2, <3>3
  <2> QED
    BY <1>1, <2>1, <2>2 DEF OpenFunctions, FunctionOf
<1>3. ASSUME NEW i \in OpenFunctions' PROVE i \in OpenFunctions
  <2>1. i \in 1..Len(frames') /\ (i = 1 \/ program[frames'[i].node].kind = "function")
    BY <1>1, <1>3 DEF OpenFunctions
  <2>2. i \in 1..Len(frames) /\ frames'[i].node = frames[i].node
    <3>1. CASE Stays
      BY <1>1, <2>1, <3>1 DEF Stays, Alike
    <3>2. CASE \E n : Pushes(n) /\ program[n].kind # "function"
      <4>1. PICK n : Pushes(n) /\ program[n].kind # "function"
        BY <3>2
      <4>2. i # Len(frames) + 1
        BY <1>1, <2>1, <4>1 DEF Pushes
      <4> QED
        BY <1>1, <2>1, <4>1, <4>2 DEF Pushes, Alike
    <3>3. CASE Pops
      BY <1>1, <2>1, <3>3 DEF Pops, Alike
    <3> QED
      BY <3>1, <3>2, <3>3
  <2> QED
    BY <1>1, <2>1, <2>2 DEF OpenFunctions
<1>4. OpenFunctions' = OpenFunctions
  BY <1>2, <1>3
<1>5. functions' = functions
  BY Static
<1>6. PICK open \in [DOMAIN current -> OpenFunctions] :
        /\ Enumerates(open, OpenFunctions)
        /\ \A j \in DOMAIN current : current[j] = FunctionOf(open[j])
  BY DEF FunctionStack
<1>7. \A j \in DOMAIN current : current[j] = FunctionOf(open[j])'
  BY <1>2, <1>6
<1>8. (\E w \in [DOMAIN current -> OpenFunctions] :
         /\ Enumerates(w, OpenFunctions)
         /\ \A j \in DOMAIN current : current[j] = FunctionOf(w[j]))'
  BY <1>4, <1>6, <1>7
<1>9. currentFunction' = currentFunction
  BY DEF currentFunction
<1> QED
  BY <1>5, <1>8, <1>9 DEF FunctionStack

LEMMA FunctionPushed ==
  ASSUME Typed, FramesNest, FunctionStack, program' = program, frames' \in Seq(Frame),
         NEW n \in DOMAIN program, program[n].kind = "function", Pushes(n),
         Key(program, n) \in functions,
         current' = Append(current, Key(program, n)), resolving' = Key(program, n)
  PROVE  FunctionStack' /\ current' \in Seq(Function) /\ current' # <<>>
<1>0. PICK t, c : t = Len(frames) /\ c = Len(current)
  OBVIOUS
<1>1. /\ t = Len(frames) /\ DOMAIN frames = 1..t /\ t \in Nat \ {0}
      /\ DOMAIN frames' = 1..(t + 1) /\ Len(frames') = t + 1
  BY <1>0, FrameTypes DEF Pushes
<1>2. (\A i \in 1..t : frames'[i].node = frames[i].node) /\ frames'[t + 1].node = n
  BY <1>1 DEF Pushes, Alike
<1>3. Key(program, n) \in Function
  BY KeyTypes DEF Function
<1>4. /\ DOMAIN current = 1..c /\ c \in Nat \ {0} /\ DOMAIN current' = 1..(c + 1)
      /\ Len(current') = c + 1
      /\ current' \in Seq(Function) /\ current' # <<>>
      /\ current'[c + 1] = Key(program, n) /\ \A j \in 1..c : current'[j] = current[j]
  BY <1>0, <1>3 DEF Typed
<1>5. OpenFunctions' = OpenFunctions \cup {t + 1}
  <2>1. \A i \in 1..t : i \in OpenFunctions' <=> i \in OpenFunctions
    BY <1>1, <1>2 DEF OpenFunctions
  <2>2. t + 1 \in OpenFunctions'
    BY <1>1, <1>2 DEF OpenFunctions
  <2>3. OpenFunctions' \subseteq 1..(t + 1) /\ OpenFunctions \subseteq 1..t
    BY <1>1 DEF OpenFunctions
  <2>4. \A i \in 1..(t + 1) : i \in 1..t \/ i = t + 1
    BY <1>1
  <2> QED
    BY <2>1, <2>2, <2>3, <2>4
<1>6. \A i \in OpenFunctions : FunctionOf(i)' = FunctionOf(i) /\ i < t + 1 /\ i \in Nat
  BY <1>1, <1>2 DEF OpenFunctions, FunctionOf
<1>7. FunctionOf(t + 1)' = Key(program, n)
  BY <1>1, <1>2 DEF FunctionOf
<1>8. PICK open : Lists(open, c, OpenFunctions) /\ \A j \in 1..c : current[j] = FunctionOf(open[j])
  BY <1>4 DEF FunctionStack, Lists
<1>9. PICK v : Lists(v, c + 1, OpenFunctions \cup {t + 1}) /\ Longer(v, open, c, t + 1)
  <2>1. OpenFunctions \subseteq Nat /\ c \in Nat /\ t + 1 \in Nat /\ \A i \in OpenFunctions : i < t + 1
    BY <1>1, <1>4, <1>6
  <2> QED
    BY <2>1, <1>8, EnumerationGrows, Zenon
<1>10. ASSUME NEW j \in 1..(c + 1) PROVE current'[j] = FunctionOf(v[j])'
  <2>1. CASE j = c + 1
    BY <2>1, <1>4, <1>7, <1>9 DEF Longer
  <2>2. CASE j \in 1..c
    <3>1. v[j] = open[j] /\ open[j] \in OpenFunctions
      BY <2>2, <1>8, <1>9 DEF Longer, Lists
    <3> QED
      BY <2>2, <3>1, <1>4, <1>6, <1>8
  <2> QED
    BY <2>1, <2>2, <1>4
<1>11. functions' = functions /\ currentFunction' = Key(program, n)
  BY <1>4, Static DEF currentFunction, Last
<1>12. ASSUME NEW j \in 1..(c + 1) PROVE current'[j] \in functions \cup {Start}
  <2>1. \A i \in 1..c : current[i] \in functions \cup {Start}
    BY <1>4 DEF FunctionStack
  <2>2. j = c + 1 \/ j \in 1..c
    BY <1>4
  <2> QED
    BY <2>1, <2>2, <1>4
<1> QED
  BY <1>4, <1>5, <1>9, <1>10, <1>11, <1>12 DEF FunctionStack, Lists

LEMMA FunctionPopped ==
  ASSUME Typed, FramesNest, FunctionStack, program' = program, frames' \in Seq(Frame),
         program[Here.node].kind = "function", Pops,
         current' = Front(current), resolving' = ResolvingAfter
  PROVE  /\ FunctionStack' /\ current' \in Seq(Function) /\ current' # <<>>
         /\ currentFunction = Key(program, Here.node)
<1>0. PICK t, c : t = Len(frames) /\ c = Len(current)
  OBVIOUS
<1>1. /\ t = Len(frames) /\ DOMAIN frames = 1..t /\ t \in Nat \ {0, 1} /\ Here = frames[t]
      /\ DOMAIN frames' = 1..(t - 1)
  BY <1>0, FrameTypes DEF Pops
<1>2. \A i \in 1..(t - 1) : frames'[i].node = frames[i].node
  BY <1>1 DEF Pops, Alike
<1>3. /\ DOMAIN current = 1..c /\ c \in Nat \ {0} /\ current \in Seq(Function) /\ c = Len(current)
      /\ current' = SubSeq(current, 1, c - 1) /\ currentFunction = current[c]
  BY <1>0 DEF Typed, Front, currentFunction, Last
<1>4. OpenFunctions' = OpenFunctions \ {t} /\ t \in OpenFunctions
  <2>1. \A i \in 1..(t - 1) : i \in OpenFunctions' <=> i \in OpenFunctions
    BY <1>1, <1>2 DEF OpenFunctions
  <2>2. t \in OpenFunctions
    BY <1>1 DEF OpenFunctions
  <2>3. OpenFunctions' \subseteq 1..(t - 1) /\ OpenFunctions \subseteq 1..t
    BY <1>1 DEF OpenFunctions
  <2>4. t \notin 1..(t - 1) /\ \A i \in 1..t : i \in 1..(t - 1) \/ i = t
    BY <1>1
  <2> QED
    BY <2>1, <2>2, <2>3, <2>4
<1>5. \A i \in OpenFunctions \ {t} : FunctionOf(i)' = FunctionOf(i)
  BY <1>1, <1>2 DEF OpenFunctions, FunctionOf
<1>6. PICK open : Lists(open, c, OpenFunctions) /\ \A j \in 1..c : current[j] = FunctionOf(open[j])
  BY <1>3 DEF FunctionStack, Lists
<1>7. open[c] = t
  <2>1. open[c] \in OpenFunctions /\ \A i \in OpenFunctions : i <= open[c]
    BY <1>3, <1>6, EnumerationEnds, OpenFunctionTypes
  <2>2. open[c] \in 1..t
    BY <2>1, <1>1 DEF OpenFunctions
  <2> QED
    BY <1>1, <1>4, <2>1, <2>2
<1>8. currentFunction = Key(program, Here.node)
  BY <1>1, <1>3, <1>6, <1>7 DEF FunctionOf
<1>9. PICK v : Lists(v, c - 1, OpenFunctions \ {t}) /\ Shorter(v, open, c)
  <2>1. OpenFunctions \subseteq Nat /\ c \in Nat \ {0}
    BY <1>3, OpenFunctionTypes
  <2> QED
    BY <2>1, <1>6, <1>7, EnumerationShrinks, Zenon
<1>10. c - 1 \in Nat \ {0}
  <2>1. 1 \in OpenFunctions \ {t} /\ OpenFunctions \ {t} \subseteq Nat
    BY <1>1, OpenFunctionTypes
  <2>2. c - 1 \in Nat
    BY <1>3
  <2> QED
    BY <2>1, <2>2, <1>9, EnumerationEnds
<1>11. /\ current' \in Seq(Function) /\ Len(current') = c - 1 /\ current' # <<>>
       /\ DOMAIN current' = 1..(c - 1) /\ \A j \in 1..(c - 1) : current'[j] = current[j]
  <2>1. /\ current' \in Seq(Function) /\ Len(current') = c - 1
        /\ \A j \in 1..(c - 1) : current'[j] = current[j]
    BY <1>3
  <2>2. DOMAIN current' = 1..(c - 1)
    BY <2>1
  <2>3. Len(current') # 0
    BY <2>1, <1>10
  <2>4. current' # <<>>
    BY <2>3
  <2> QED
    BY <2>1, <2>2, <2>4
<1>12. ASSUME NEW j \in 1..(c - 1) PROVE current'[j] = FunctionOf(v[j])'
  <2>1. j \in 1..c /\ v[j] \in OpenFunctions \ {t} /\ v[j] = open[j]
    <3>1. \A i \in 1..(c - 1) : i \in 1..c
      BY <1>3
    <3> QED
      BY <3>1, <1>9 DEF Lists, Shorter
  <2>2. current[j] = FunctionOf(v[j]) /\ current'[j] = current[j]
    BY <2>1, <1>6, <1>11
  <2> QED
    BY <2>1, <2>2, <1>5
<1>13. functions' = functions /\ currentFunction' = resolving'
  BY Static DEF currentFunction, ResolvingAfter
<1>14. \A j \in 1..(c - 1) : current'[j] \in functions \cup {Start}
  <2>1. \A i \in 1..c : current[i] \in functions \cup {Start}
    BY <1>3 DEF FunctionStack
  <2> QED
    BY <2>1, <1>3, <1>11
<1> QED
  BY <1>4, <1>8, <1>9, <1>11, <1>12, <1>13, <1>14 DEF FunctionStack, Lists

-----------------------------------------------------------------------------
(* The stacks of labels.                                                   *)

LEMMA FunctionsAreThere ==
  ASSUME Typed
  PROVE  /\ functions \cup {Start} \subseteq irFunctions(program)
         /\ irFunctions(program) \subseteq Function
         /\ FunctionStack => currentFunction \in irFunctions(program)
<1>1. functions \cup {Start} \subseteq irFunctions(program)
  BY DEF functions, irFunctions
<1>2. \A n \in DOMAIN program : Key(program, n) \in Function
  BY KeyTypes DEF Function
<1>3. irFunctions(program) \subseteq Function
  BY <1>2 DEF irFunctions, FunctionsOf, ClassesOf, Function
<1>4. Len(current) \in DOMAIN current
  BY DEF Typed
<1>5. FunctionStack => currentFunction \in functions \cup {Start}
  BY <1>4 DEF FunctionStack, currentFunction, Last
<1> QED
  BY <1>1, <1>3, <1>5

LEMMA LabelTypes ==
  ASSUME Typed, NEW f \in irFunctions(program)
  PROVE  /\ labels[f] \in LabelState
         /\ labels[f].break \in Seq(Nat) /\ labels[f].continue \in Seq(Nat)
         /\ labels[f].breakIndex \in Nat /\ labels[f].continueIndex \in Nat
<1>1. labels[f] \in LabelState
  BY DEF Typed
<1> QED
  BY <1>1 DEF LabelState

LEMMA LoopFrameTypes ==
  ASSUME Typed, NEW f, NEW i \in LoopFrames(f)
  PROVE  /\ i \in 1..Len(frames) /\ i \in Nat /\ i # 1
         /\ frames[i].breakLabel \in Nat /\ frames[i].continueLabel \in Nat
<1>1. i \in DOMAIN frames /\ i # 1
  BY DEF LoopFrames
<1> QED
  BY <1>1, FrameTypes

StackIs(f, w) ==
  LET m == Len(labels[f].break)
  IN  /\ Lists(w, m, LoopFrames(f))
      /\ Len(labels[f].continue) = m
      /\ \A j \in 1..m : /\ labels[f].break[j] = frames[w[j]].breakLabel
                         /\ labels[f].continue[j] = frames[w[j]].continueLabel

LEMMA SameInterval ==
  ASSUME NEW m \in Nat, NEW n \in Nat, 1..m = 1..n
  PROVE  m = n
<1>1. m < n => n \in 1..n /\ n \notin 1..m
  OBVIOUS
<1>2. n < m => m \in 1..m /\ m \notin 1..n
  OBVIOUS
<1> QED
  BY <1>1, <1>2

LEMMA StacksAre == Typed => (LabelStack <=> \A f \in irFunctions(program) : \E w : StackIs(f, w))
<1> SUFFICES ASSUME Typed, NEW f \in irFunctions(program)
             PROVE  (\E w : StackIs(f, w)) <=>
                      \E open \in [DOMAIN labels[f].break -> LoopFrames(f)] :
                        /\ Enumerates(open, LoopFrames(f))
                        /\ DOMAIN labels[f].continue = DOMAIN labels[f].break
                        /\ \A j \in DOMAIN open : /\ labels[f].break[j] = frames[open[j]].breakLabel
                                                  /\ labels[f].continue[j] = frames[open[j]].continueLabel
  BY DEF LabelStack
<1> DEFINE b == labels[f].break
           c == labels[f].continue
<1>1. /\ DOMAIN b = 1..Len(b) /\ Len(b) \in Nat /\ b \in Seq(Nat)
      /\ DOMAIN c = 1..Len(c) /\ Len(c) \in Nat /\ c \in Seq(Nat)
  BY LabelTypes
<1> HIDE DEF b, c
<1>2. DOMAIN c = DOMAIN b <=> Len(c) = Len(b)
  BY <1>1, SameInterval
<1> QED
  BY <1>1, <1>2 DEF StackIs, Lists, b, c

LEMMA StacksAreThen ==
  Typed' => (LabelStack' <=> (\A f \in irFunctions(program) : \E w : StackIs(f, w))')
BY StacksAre, PTL

LEMMA LoopFramesStay ==
  ASSUME Typed, program' = program, frames' \in Seq(Frame),
         \/ Stays
         \/ \E n : Pushes(n) /\ program[n].kind # "while"
         \/ Pops /\ program[Here.node].kind # "while",
         NEW f
  PROVE  /\ LoopFrames(f)' = LoopFrames(f)
         /\ \A i \in LoopFrames(f) : /\ frames'[i].node = frames[i].node
                                     /\ frames'[i].breakLabel = frames[i].breakLabel
                                     /\ frames'[i].continueLabel = frames[i].continueLabel
<1>0. PICK t : t = Len(frames)
  OBVIOUS
<1>1. /\ t = Len(frames) /\ DOMAIN frames = 1..t /\ t \in Nat \ {0} /\ Here = frames[t]
      /\ DOMAIN frames' = 1..Len(frames') /\ Len(frames') \in Nat
  BY <1>0, FrameTypes
<1>2. \A n : Home(n)' = Home(n)
  BY Static
<1>3. ASSUME NEW i \in 1..t, i # 1, program[frames[i].node].kind = "while"
      PROVE  /\ i \in 1..Len(frames') /\ frames'[i].node = frames[i].node
             /\ frames'[i].breakLabel = frames[i].breakLabel
             /\ frames'[i].continueLabel = frames[i].continueLabel
  <2>1. CASE Stays
    BY <1>1, <2>1 DEF Stays, Alike
  <2>2. CASE \E n : Pushes(n)
    BY <1>1, <2>2 DEF Pushes, Alike
  <2>3. CASE Pops /\ program[Here.node].kind # "while"
    <3>1. Len(frames') = t - 1 /\ Alike(t - 1)
      BY <1>1, <2>3 DEF Pops
    <3>2. i # t
      BY <1>1, <1>3, <2>3
    <3>3. i \in 1..(t - 1)
      BY <1>1, <3>2
    <3> QED
      BY <3>1, <3>3 DEF Alike
  <2> QED
    BY <2>1, <2>2, <2>3
<1>4. ASSUME NEW i \in 1..Len(frames'), i # 1, program[frames'[i].node].kind = "while"
      PROVE  i \in 1..t /\ frames'[i].node = frames[i].node
  <2>1. CASE Stays
    BY <1>1, <2>1 DEF Stays, Alike
  <2>2. CASE \E n : Pushes(n) /\ program[n].kind # "while"
    <3>1. PICK n : Pushes(n) /\ program[n].kind # "while"
      BY <2>2
    <3>2. Len(frames') = t + 1 /\ Alike(t) /\ frames'[t + 1].node = n
      BY <1>1, <3>1 DEF Pushes
    <3>3. i # t + 1
      BY <1>4, <3>1, <3>2
    <3>4. i \in 1..t
      BY <1>1, <3>2, <3>3
    <3> QED
      BY <3>2, <3>4 DEF Alike
  <2>3. CASE Pops
    BY <1>1, <2>3 DEF Pops, Alike
  <2> QED
    BY <2>1, <2>2, <2>3
<1>5. \A i \in LoopFrames(f) : i \in 1..t /\ i # 1 /\ program[frames[i].node].kind = "while"
  BY <1>1 DEF LoopFrames
<1>6. \A i \in LoopFrames(f) : i \in LoopFrames(f)'
  BY <1>1, <1>2, <1>3, <1>5 DEF LoopFrames
<1>7. \A i \in LoopFrames(f)' : i \in LoopFrames(f)
  BY <1>1, <1>2, <1>4 DEF LoopFrames
<1> QED
  BY <1>3, <1>5, <1>6, <1>7

(* emitted' has more instructions than emitted, of these kinds.            *)
Extends(kinds) ==
  /\ Len(emitted) <= Len(emitted') /\ \A e \in 1..Len(emitted) : emitted'[e] = emitted[e]
  /\ \A e \in 1..Len(emitted') : e > Len(emitted) => emitted'[e].what \in kinds

LEMMA EmittedLoopsStay ==
  ASSUME Typed, emitted' \in Seq(Instruction), Extends({"read", "break", "continue"})
  PROVE  /\ Emitted({"loop"})' = Emitted({"loop"})
         /\ \A e \in Emitted({"loop"}) : emitted'[e] = emitted[e]
<1>1. /\ DOMAIN emitted = 1..Len(emitted) /\ Len(emitted) \in Nat
      /\ DOMAIN emitted' = 1..Len(emitted') /\ Len(emitted') \in Nat
  BY DEF Typed
<1>2. \A e \in Emitted({"loop"}) : e \in Emitted({"loop"})' /\ emitted'[e] = emitted[e]
  BY <1>1 DEF Emitted, Extends
<1>3. ASSUME NEW e \in Emitted({"loop"})' PROVE e \in Emitted({"loop"})
  <2>1. e \in 1..Len(emitted') /\ emitted'[e].what = "loop"
    BY <1>1, <1>3 DEF Emitted
  <2>2. e \in 1..Len(emitted)
    BY <1>1, <2>1 DEF Extends
  <2> QED
    BY <1>1, <2>1, <2>2 DEF Emitted, Extends
<1> QED
  BY <1>2, <1>3

LEMMA SameLoops ==
  ASSUME Typed, Typed', LabelStack, LabelsFresh, LabelsUnique,
         program' = program, labels' = labels,
         Extends({"read", "break", "continue"}),
         \/ Stays
         \/ \E n : Pushes(n) /\ program[n].kind # "while"
         \/ Pops /\ program[Here.node].kind # "while"
  PROVE  LabelStack' /\ LabelsFresh' /\ LabelsUnique'
<1>1. frames' \in Seq(Frame) /\ emitted' \in Seq(Instruction)
  BY DEF Typed
<1>2. \A f : LoopFrames(f)' = LoopFrames(f)
  BY <1>1, LoopFramesStay
<1>3. \A f : \A i \in LoopFrames(f) : /\ frames'[i].breakLabel = frames[i].breakLabel
                                     /\ frames'[i].continueLabel = frames[i].continueLabel
  BY <1>1, LoopFramesStay
<1>4. Emitted({"loop"})' = Emitted({"loop"}) /\ \A e \in Emitted({"loop"}) : emitted'[e] = emitted[e]
  BY <1>1, EmittedLoopsStay
<1>5. LabelStack'
  <2>1. \A f \in irFunctions(program) : \E w : StackIs(f, w)
    BY StacksAre
  <2>2. ASSUME NEW f \in irFunctions(program), NEW w, StackIs(f, w) PROVE StackIs(f, w)'
    <3>1. Lists(w, Len(labels[f].break), LoopFrames(f))
      BY <2>2 DEF StackIs
    <3>2. \A j \in 1..Len(labels[f].break) : w[j] \in LoopFrames(f)
      BY <3>1 DEF Lists
    <3> QED
      BY <2>2, <3>1, <3>2, <1>2, <1>3 DEF StackIs
  <2>3. \A f \in irFunctions(program) : \E w : StackIs(f, w)'
    BY <2>1, <2>2
  <2> QED
    BY <2>3, StacksAreThen
<1>6. LabelsFresh'
  BY <1>2, <1>3, <1>4 DEF LabelsFresh
<1>7. LabelsUnique'
  BY <1>4 DEF LabelsUnique
<1> QED
  BY <1>5, <1>6, <1>7

(* A while that is entered has new labels, which are on top of the stacks  *)
(* of the function it is in.                                               *)
LEMMA LoopPushed ==
  ASSUME Typed, Typed', FramesNest, FunctionStack, LabelStack, LabelsFresh, LabelsUnique,
         program' = program, Extends({"read", "break", "continue"}),
         NEW n \in DOMAIN program, program[n].kind = "while", program[n].parent = Here.node, Pushes(n),
         NEW f, f = currentFunction,
         frames'[Len(frames) + 1].breakLabel = labels[f].breakIndex,
         frames'[Len(frames) + 1].continueLabel = labels[f].continueIndex,
         \A g \in irFunctions(program) : g # f => labels'[g] = labels[g],
         labels'[f].break = Append(labels[f].break, labels[f].breakIndex),
         labels'[f].continue = Append(labels[f].continue, labels[f].continueIndex),
         labels'[f].breakIndex = labels[f].breakIndex + 1,
         labels'[f].continueIndex = labels[f].continueIndex + 1
  PROVE  LabelStack' /\ LabelsFresh' /\ LabelsUnique'
<1>0. PICK t : t = Len(frames)
  OBVIOUS
<1>1. /\ t = Len(frames) /\ DOMAIN frames = 1..t /\ t \in Nat \ {0} /\ t + 1 \in Nat
      /\ DOMAIN frames' = 1..(t + 1) /\ frames'[t + 1].node = n
      /\ frames'[t + 1].breakLabel = labels[f].breakIndex
      /\ frames'[t + 1].continueLabel = labels[f].continueIndex
  BY <1>0, FrameTypes DEF Pushes, Typed
<1>2. \A i \in 1..t : /\ frames'[i].node = frames[i].node
                      /\ frames'[i].breakLabel = frames[i].breakLabel
                      /\ frames'[i].continueLabel = frames[i].continueLabel
  BY <1>1 DEF Pushes, Alike
<1>3. f \in irFunctions(program) /\ Home(n) = f
  BY FunctionsAreThere, ChildIsHome
<1>4. \A m : Home(m)' = Home(m)
  BY Static
<1>5. \A g : LoopFrames(g) \subseteq 1..t /\ LoopFrames(g) \subseteq Nat /\ \A i \in LoopFrames(g) : i < t + 1
  BY <1>1, LoopFrameTypes
<1>6. ASSUME NEW g PROVE LoopFrames(g)' = IF g = f THEN LoopFrames(g) \cup {t + 1} ELSE LoopFrames(g)
  <2>1. \A i \in 1..t : i \in LoopFrames(g)' <=> i \in LoopFrames(g)
    BY <1>1, <1>2, <1>4 DEF LoopFrames
  <2>2. t + 1 \in LoopFrames(g)' <=> g = f
    BY <1>1, <1>3, <1>4 DEF LoopFrames
  <2>3. \A i \in LoopFrames(g)' : i \in 1..t \/ i = t + 1
    <3>1. LoopFrames(g)' \subseteq 1..(t + 1)
      BY <1>1 DEF LoopFrames
    <3> QED
      BY <3>1, <1>1
  <2>4. LoopFrames(g) \subseteq 1..t
    BY <1>5
  <2>5. CASE g = f
    BY <2>1, <2>2, <2>3, <2>4, <2>5
  <2>6. CASE g # f
    <3>1. \A i \in LoopFrames(g)' : i \in LoopFrames(g)
      BY <2>1, <2>2, <2>3, <2>6
    <3>2. \A i \in LoopFrames(g) : i \in LoopFrames(g)'
      BY <2>1, <2>4
    <3> QED
      BY <3>1, <3>2, <2>6
  <2> QED
    BY <2>5, <2>6
<1>7. Emitted({"loop"})' = Emitted({"loop"}) /\ \A e \in Emitted({"loop"}) : emitted'[e] = emitted[e]
  BY EmittedLoopsStay DEF Typed
<1>8. /\ labels[f].break \in Seq(Nat) /\ labels[f].continue \in Seq(Nat)
      /\ labels[f].breakIndex \in Nat /\ labels[f].continueIndex \in Nat
  BY <1>3, LabelTypes
<1>9. \A g \in irFunctions(program) : \E w : StackIs(g, w)
  BY StacksAre
<1>10. \E w : StackIs(f, w)'
  <2>1. PICK w : StackIs(f, w)
    BY <1>3, <1>9
  <2>2. PICK m : m = Len(labels[f].break)
    OBVIOUS
  <2>3. /\ m \in Nat /\ Lists(w, m, LoopFrames(f)) /\ Len(labels[f].continue) = m
        /\ \A j \in 1..m : /\ labels[f].break[j] = frames[w[j]].breakLabel
                           /\ labels[f].continue[j] = frames[w[j]].continueLabel
    BY <2>1, <2>2, <1>8 DEF StackIs
  <2>4. PICK v : Lists(v, m + 1, LoopFrames(f) \cup {t + 1}) /\ Longer(v, w, m, t + 1)
    <3>1. LoopFrames(f) \subseteq Nat /\ m \in Nat /\ t + 1 \in Nat /\ \A i \in LoopFrames(f) : i < t + 1
      BY <1>1, <1>5, <2>3
    <3> QED
      BY <3>1, <2>3, EnumerationGrows, Zenon
  <2>5. /\ Len(labels'[f].break) = m + 1 /\ Len(labels'[f].continue) = m + 1
        /\ labels'[f].break[m + 1] = labels[f].breakIndex
        /\ labels'[f].continue[m + 1] = labels[f].continueIndex
        /\ \A j \in 1..m : /\ labels'[f].break[j] = labels[f].break[j]
                           /\ labels'[f].continue[j] = labels[f].continue[j]
    BY <1>8, <2>2, <2>3
  <2>6. ASSUME NEW j \in 1..(m + 1)
        PROVE  /\ labels'[f].break[j] = frames'[v[j]].breakLabel
               /\ labels'[f].continue[j] = frames'[v[j]].continueLabel
    <3>1. CASE j = m + 1
      BY <3>1, <2>4, <2>5, <1>1 DEF Longer
    <3>2. CASE j \in 1..m
      <4>1. v[j] = w[j] /\ w[j] \in 1..t
        BY <3>2, <2>3, <2>4, <1>5 DEF Longer, Lists
      <4>2. /\ labels'[f].break[j] = labels[f].break[j]
            /\ labels'[f].continue[j] = labels[f].continue[j]
        BY <3>2, <2>5
      <4>3. /\ labels[f].break[j] = frames[w[j]].breakLabel
            /\ labels[f].continue[j] = frames[w[j]].continueLabel
        BY <3>2, <2>3
      <4>4. /\ frames'[w[j]].breakLabel = frames[w[j]].breakLabel
            /\ frames'[w[j]].continueLabel = frames[w[j]].continueLabel
        BY <4>1, <1>2
      <4> QED
        BY <4>1, <4>2, <4>3, <4>4
    <3>3. m \in Nat
      BY <2>3
    <3>4. j = m + 1 \/ j \in 1..m
      BY <3>3
    <3> QED
      BY <3>1, <3>2, <3>4
  <2>7. LoopFrames(f)' = LoopFrames(f) \cup {t + 1}
    BY <1>6
  <2>8. Lists(v, Len(labels[f].break), LoopFrames(f))'
    BY <2>4, <2>5, <2>7 DEF Lists, Enumerates
  <2>9. Len(labels'[f].continue) = Len(labels'[f].break) /\ Len(labels'[f].break) = m + 1
    BY <2>5
  <2> QED
    BY <2>6, <2>8, <2>9 DEF StackIs
<1>11. ASSUME NEW g \in irFunctions(program), g # f PROVE \E w : StackIs(g, w)'
  <2>1. PICK w : StackIs(g, w)
    BY <1>9
  <2>2. labels'[g] = labels[g] /\ LoopFrames(g)' = LoopFrames(g)
    BY <1>6, <1>11
  <2>3. \A j \in 1..Len(labels[g].break) : w[j] \in 1..t
    BY <2>1, <1>5 DEF StackIs, Lists
  <2> QED
    BY <2>1, <2>2, <2>3, <1>2 DEF StackIs
<1>12. LabelStack'
  <2>1. \A g \in irFunctions(program) : \E w : StackIs(g, w)'
    BY <1>10, <1>11
  <2> QED
    BY <2>1, StacksAreThen
<1>13. ASSUME NEW g \in irFunctions(program)
       PROVE  /\ \A i \in LoopFrames(g) :
                   /\ frames[i].breakLabel \in Nat /\ frames[i].continueLabel \in Nat
                   /\ frames[i].breakLabel < labels[g].breakIndex
                   /\ frames[i].continueLabel < labels[g].continueIndex
                   /\ frames'[i].breakLabel = frames[i].breakLabel
                   /\ frames'[i].continueLabel = frames[i].continueLabel
              /\ \A i, j \in LoopFrames(g) : i # j => /\ frames[i].breakLabel # frames[j].breakLabel
                                                      /\ frames[i].continueLabel # frames[j].continueLabel
  BY <1>2, <1>5, LoopFrameTypes DEF LabelsFresh
<1>14. ASSUME NEW g \in irFunctions(program), NEW e \in Emitted({"loop"}), emitted[e].in = g
       PROVE  /\ emitted[e].break \in Nat /\ emitted[e].continue \in Nat
              /\ emitted[e].break < labels[g].breakIndex /\ emitted[e].continue < labels[g].continueIndex
              /\ \A i \in LoopFrames(g) : /\ frames[i].breakLabel # emitted[e].break
                                          /\ frames[i].continueLabel # emitted[e].continue
  <2>1. emitted[e] \in Instruction /\ emitted[e].what = "loop"
    BY DEF Emitted, Typed
  <2>2. emitted[e].break \in Nat /\ emitted[e].continue \in Nat
    BY <2>1 DEF Instruction
  <2> QED
    BY <2>2, <1>14 DEF LabelsFresh
<1>15. LabelsFresh'
  <2> SUFFICES ASSUME NEW g \in irFunctions(program)
               PROVE  /\ \A i \in LoopFrames(g)' :
                           /\ frames'[i].breakLabel < labels'[g].breakIndex
                           /\ frames'[i].continueLabel < labels'[g].continueIndex
                           /\ \A j \in LoopFrames(g)' :
                                i # j => /\ frames'[i].breakLabel # frames'[j].breakLabel
                                         /\ frames'[i].continueLabel # frames'[j].continueLabel
                      /\ \A e \in Emitted({"loop"}) :
                           emitted[e].in = g =>
                             /\ emitted[e].break < labels'[g].breakIndex
                             /\ emitted[e].continue < labels'[g].continueIndex
                             /\ \A i \in LoopFrames(g)' :
                                  /\ frames'[i].breakLabel # emitted[e].break
                                  /\ frames'[i].continueLabel # emitted[e].continue
    BY <1>7 DEF LabelsFresh
  <2>1. CASE g # f
    <3>1. labels'[g] = labels[g] /\ LoopFrames(g)' = LoopFrames(g)
      BY <2>1, <1>6
    <3> QED
      BY <3>1, <1>13, <1>14
  <2>2. CASE g = f
    <3>1. \A i \in LoopFrames(g)' : i \in LoopFrames(g) \/ i = t + 1
      BY <2>2, <1>6
    <3>2. /\ labels'[g].breakIndex = labels[g].breakIndex + 1
          /\ labels'[g].continueIndex = labels[g].continueIndex + 1
          /\ labels[g].breakIndex \in Nat /\ labels[g].continueIndex \in Nat
          /\ frames'[t + 1].breakLabel = labels[g].breakIndex
          /\ frames'[t + 1].continueLabel = labels[g].continueIndex
      BY <2>2, <1>1, <1>8
    <3>3. \A i \in LoopFrames(g)' : /\ frames'[i].breakLabel < labels'[g].breakIndex
                                    /\ frames'[i].continueLabel < labels'[g].continueIndex
      <4>1. \A i \in LoopFrames(g) : /\ frames'[i].breakLabel < labels'[g].breakIndex
                                     /\ frames'[i].continueLabel < labels'[g].continueIndex
        BY <3>2, <1>13
      <4>2. /\ frames'[t + 1].breakLabel < labels'[g].breakIndex
            /\ frames'[t + 1].continueLabel < labels'[g].continueIndex
        BY <3>2
      <4> QED
        BY <3>1, <4>1, <4>2
    <3>4. \A i \in LoopFrames(g) : /\ frames'[i].breakLabel # frames'[t + 1].breakLabel
                                   /\ frames'[i].continueLabel # frames'[t + 1].continueLabel
      BY <3>2, <1>13
    <3>5. \A i, j \in LoopFrames(g)' : i # j => /\ frames'[i].breakLabel # frames'[j].breakLabel
                                                /\ frames'[i].continueLabel # frames'[j].continueLabel
      BY <3>1, <3>4, <1>13
    <3>6. \A e \in Emitted({"loop"}) :
            emitted[e].in = g => /\ emitted[e].break < labels'[g].breakIndex
                                 /\ emitted[e].continue < labels'[g].continueIndex
                                 /\ frames'[t + 1].breakLabel # emitted[e].break
                                 /\ frames'[t + 1].continueLabel # emitted[e].continue
      BY <3>2, <1>14
    <3> QED
      BY <3>1, <3>3, <3>5, <3>6, <1>13, <1>14
  <2> QED
    BY <2>1, <2>2
<1>16. LabelsUnique'
  BY <1>7 DEF LabelsUnique
<1> QED
  BY <1>12, <1>15, <1>16

(* A while that ends takes its labels off the stacks: they are on top.     *)
LEMMA LoopPopped ==
  ASSUME Typed, Typed', FramesNest, FunctionStack, LabelStack, LabelsFresh, LabelsUnique,
         program' = program, program[Here.node].kind = "while", Pops,
         NEW f, f = currentFunction,
         emitted' = Append(emitted, [what |-> "loop", node |-> Here.node, in |-> f,
                                     break |-> Here.breakLabel, continue |-> Here.continueLabel]),
         \A g \in irFunctions(program) : g # f => labels'[g] = labels[g],
         labels'[f].break = Front(labels[f].break),
         labels'[f].continue = Front(labels[f].continue),
         labels'[f].breakIndex = labels[f].breakIndex,
         labels'[f].continueIndex = labels[f].continueIndex
  PROVE  /\ LabelStack' /\ LabelsFresh' /\ LabelsUnique'
         /\ Home(Here.node) = f
<1>0. PICK t, n : t = Len(frames) /\ n = Len(emitted) + 1
  OBVIOUS
<1>1. /\ t = Len(frames) /\ DOMAIN frames = 1..t /\ t \in Nat \ {0, 1} /\ t - 1 \in Nat /\ Here = frames[t]
      /\ DOMAIN frames' = 1..(t - 1)
  BY <1>0, FrameTypes DEF Pops, Typed
<1>2. \A i \in 1..(t - 1) : /\ frames'[i].node = frames[i].node
                            /\ frames'[i].breakLabel = frames[i].breakLabel
                            /\ frames'[i].continueLabel = frames[i].continueLabel
  BY <1>1 DEF Pops, Alike
<1>3. f \in irFunctions(program) /\ Home(Here.node) = f
  BY <1>1, FunctionsAreThere, HereIsHome
<1>4. \A m : Home(m)' = Home(m)
  BY Static
<1>5. \A g : LoopFrames(g) \subseteq 1..t /\ LoopFrames(g) \subseteq Nat
  BY <1>1, LoopFrameTypes
<1>6. t \in LoopFrames(f) /\ \A g : g # f => t \notin LoopFrames(g)
  BY <1>1, <1>3 DEF LoopFrames
<1>7. ASSUME NEW g PROVE LoopFrames(g)' = LoopFrames(g) \ {t}
  <2>1. \A i \in 1..(t - 1) : i \in LoopFrames(g)' <=> i \in LoopFrames(g)
    BY <1>1, <1>2, <1>4 DEF LoopFrames
  <2>2. LoopFrames(g)' \subseteq 1..(t - 1)
    BY <1>1 DEF LoopFrames
  <2>3. t \notin 1..(t - 1) /\ \A i \in 1..t : i = t \/ i \in 1..(t - 1)
    BY <1>1
  <2>4. \A i \in LoopFrames(g) : i \in 1..t
    BY <1>5
  <2> QED
    BY <2>1, <2>2, <2>3, <2>4
<1>8. \A g : \A i \in LoopFrames(g)' : i \in LoopFrames(g) /\ i \in 1..(t - 1)
  BY <1>1, <1>5, <1>7
<1>9. /\ labels[f].break \in Seq(Nat) /\ labels[f].continue \in Seq(Nat)
      /\ labels[f].breakIndex \in Nat /\ labels[f].continueIndex \in Nat
  BY <1>3, LabelTypes
<1>10. \A g \in irFunctions(program) : \E w : StackIs(g, w)
  BY StacksAre
<1>11. \E w : StackIs(f, w)'
  <2>1. PICK w : StackIs(f, w)
    BY <1>3, <1>10
  <2>2. PICK m : m = Len(labels[f].break)
    OBVIOUS
  <2>3. /\ m \in Nat /\ Lists(w, m, LoopFrames(f)) /\ Len(labels[f].continue) = m
        /\ \A j \in 1..m : /\ labels[f].break[j] = frames[w[j]].breakLabel
                           /\ labels[f].continue[j] = frames[w[j]].continueLabel
    BY <2>1, <2>2, <1>9 DEF StackIs
  <2>4. m # 0 /\ w[m] \in LoopFrames(f) /\ \A i \in LoopFrames(f) : i <= w[m]
    BY <1>5, <1>6, <2>3, EnumerationEnds
  <2>5. w[m] = t
    <3>1. w[m] \in 1..t /\ t <= w[m]
      BY <2>4, <1>5, <1>6
    <3> QED
      BY <3>1, <1>1
  <2>6. PICK v : Lists(v, m - 1, LoopFrames(f) \ {t}) /\ Shorter(v, w, m)
    <3>1. LoopFrames(f) \subseteq Nat /\ m \in Nat \ {0}
      BY <1>5, <2>3, <2>4
    <3> QED
      BY <3>1, <2>3, <2>5, EnumerationShrinks, Zenon
  <2>7. /\ Len(labels'[f].break) = m - 1 /\ Len(labels'[f].continue) = m - 1
        /\ \A j \in 1..(m - 1) : /\ labels'[f].break[j] = labels[f].break[j]
                                 /\ labels'[f].continue[j] = labels[f].continue[j]
    BY <1>9, <2>2, <2>3, <2>4 DEF Front
  <2>8. ASSUME NEW j \in 1..(m - 1)
        PROVE  /\ labels'[f].break[j] = frames'[v[j]].breakLabel
               /\ labels'[f].continue[j] = frames'[v[j]].continueLabel
    <3>1. v[j] = w[j] /\ v[j] \in LoopFrames(f) \ {t}
      BY <2>6 DEF Lists, Shorter
    <3>2. v[j] \in 1..(t - 1)
      BY <3>1, <1>7, <1>8
    <3>3. j \in 1..m
      BY <2>3
    <3>4. /\ labels[f].break[j] = frames[v[j]].breakLabel
          /\ labels[f].continue[j] = frames[v[j]].continueLabel
      BY <3>1, <3>3, <2>3
    <3> QED
      BY <3>2, <3>4, <2>7, <1>2
  <2>9. LoopFrames(f)' = LoopFrames(f) \ {t}
    BY <1>7
  <2>10. Lists(v, Len(labels[f].break), LoopFrames(f))'
    BY <2>6, <2>7, <2>9 DEF Lists, Enumerates
  <2>11. Len(labels'[f].continue) = Len(labels'[f].break) /\ Len(labels'[f].break) = m - 1
    BY <2>7
  <2> QED
    BY <2>8, <2>10, <2>11 DEF StackIs
<1>12. ASSUME NEW g \in irFunctions(program), g # f PROVE \E w : StackIs(g, w)'
  <2>1. PICK w : StackIs(g, w)
    BY <1>10
  <2>2. labels'[g] = labels[g]
    BY <1>12
  <2>3. LoopFrames(g)' = LoopFrames(g)
    BY <1>6, <1>7, <1>12
  <2>4. \A j \in 1..Len(labels[g].break) : w[j] \in 1..(t - 1)
    BY <2>1, <2>3, <1>8 DEF StackIs, Lists
  <2>5. \A j \in 1..Len(labels[g].break) :
          /\ labels[g].break[j] = frames'[w[j]].breakLabel
          /\ labels[g].continue[j] = frames'[w[j]].continueLabel
    BY <2>1, <2>4, <1>2 DEF StackIs
  <2> QED
    BY <2>1, <2>2, <2>3, <2>5 DEF StackIs
<1>13. LabelStack'
  <2>1. \A g \in irFunctions(program) : \E w : StackIs(g, w)'
    BY <1>11, <1>12
  <2> QED
    BY <2>1, StacksAreThen
<1>14. /\ DOMAIN emitted = 1..(n - 1) /\ DOMAIN emitted' = 1..n /\ n \in Nat \ {0}
       /\ \A e \in 1..(n - 1) : emitted'[e] = emitted[e]
       /\ emitted'[n] = [what |-> "loop", node |-> Here.node, in |-> f,
                         break |-> Here.breakLabel, continue |-> Here.continueLabel]
  BY <1>0 DEF Typed
<1>15. \A e : e \in Emitted({"loop"})' <=> e \in Emitted({"loop"}) \/ e = n
  <2>1. \A e \in 1..n : e = n \/ e \in 1..(n - 1)
    BY <1>14
  <2>2. \A e \in 1..(n - 1) : e \in 1..n
    BY <1>14
  <2>3. n \in 1..n
    BY <1>14
  <2> QED
    BY <2>1, <2>2, <2>3, <1>14 DEF Emitted
<1>16. \A e \in Emitted({"loop"}) : e \in 1..(n - 1) /\ emitted'[e] = emitted[e]
  BY <1>14 DEF Emitted
<1>17. /\ emitted'[n].in = f /\ emitted'[n].break = frames[t].breakLabel
       /\ emitted'[n].continue = frames[t].continueLabel
  BY <1>1, <1>14
<1>18. \A g \in irFunctions(program) : /\ labels'[g].breakIndex = labels[g].breakIndex
                                       /\ labels'[g].continueIndex = labels[g].continueIndex
  OBVIOUS
<1>19. LabelsFresh'
  <2>1. ASSUME NEW g \in irFunctions(program), NEW i \in LoopFrames(g)'
        PROVE  /\ frames'[i].breakLabel < labels'[g].breakIndex
               /\ frames'[i].continueLabel < labels'[g].continueIndex
               /\ \A j \in LoopFrames(g)' :
                    i # j => /\ frames'[i].breakLabel # frames'[j].breakLabel
                             /\ frames'[i].continueLabel # frames'[j].continueLabel
    BY <2>1, <1>2, <1>8, <1>18 DEF LabelsFresh
  <2>2. ASSUME NEW g \in irFunctions(program), NEW e \in Emitted({"loop"})', emitted'[e].in = g
        PROVE  /\ emitted'[e].break < labels'[g].breakIndex
               /\ emitted'[e].continue < labels'[g].continueIndex
               /\ \A i \in LoopFrames(g)' : /\ frames'[i].breakLabel # emitted'[e].break
                                            /\ frames'[i].continueLabel # emitted'[e].continue
    <3>1. CASE e \in Emitted({"loop"})
      <4>1. emitted[e].in = g /\ emitted'[e] = emitted[e]
        BY <2>2, <3>1, <1>16
      <4>2. /\ emitted[e].break < labels[g].breakIndex
            /\ emitted[e].continue < labels[g].continueIndex
            /\ \A i \in LoopFrames(g) : /\ frames[i].breakLabel # emitted[e].break
                                        /\ frames[i].continueLabel # emitted[e].continue
        BY <3>1, <4>1 DEF LabelsFresh
      <4> QED
        BY <4>1, <4>2, <1>2, <1>8, <1>18
    <3>2. CASE e = n
      <4>1. g = f /\ t \in LoopFrames(g)
        BY <2>2, <3>2, <1>6, <1>17
      <4>2. \A i \in LoopFrames(g)' : i \in LoopFrames(g) /\ i # t
        BY <1>7
      <4>3. /\ frames[t].breakLabel < labels[g].breakIndex
            /\ frames[t].continueLabel < labels[g].continueIndex
        BY <4>1 DEF LabelsFresh
      <4>4. \A i \in LoopFrames(g)' : /\ frames[i].breakLabel # frames[t].breakLabel
                                      /\ frames[i].continueLabel # frames[t].continueLabel
        BY <4>1, <4>2 DEF LabelsFresh
      <4> QED
        BY <3>2, <4>3, <4>4, <1>2, <1>8, <1>17, <1>18
    <3> QED
      BY <2>2, <3>1, <3>2, <1>15
  <2> QED
    BY <2>1, <2>2 DEF LabelsFresh
<1>20. LabelsUnique'
  <2> SUFFICES ASSUME NEW i \in Emitted({"loop"})', NEW j \in Emitted({"loop"})',
                      i # j, emitted'[i].in = emitted'[j].in
               PROVE  emitted'[i].break # emitted'[j].break /\ emitted'[i].continue # emitted'[j].continue
    BY DEF LabelsUnique
  <2>1. ASSUME NEW e \in Emitted({"loop"}), emitted[e].in = f
        PROVE  emitted[e].break # frames[t].breakLabel /\ emitted[e].continue # frames[t].continueLabel
    BY <2>1, <1>3, <1>6 DEF LabelsFresh
  <2>2. CASE i \in Emitted({"loop"}) /\ j \in Emitted({"loop"})
    <3>1. emitted'[i] = emitted[i] /\ emitted'[j] = emitted[j]
      BY <2>2, <1>16
    <3>2. emitted[i].in = emitted[j].in
      BY <3>1
    <3> QED
      BY <2>2, <3>1, <3>2 DEF LabelsUnique
  <2>3. CASE i = n /\ j \in Emitted({"loop"})
    <3>1. emitted'[j] = emitted[j] /\ emitted[j].in = f
      BY <2>3, <1>16, <1>17
    <3>2. emitted[j].break # frames[t].breakLabel /\ emitted[j].continue # frames[t].continueLabel
      BY <2>1, <2>3, <3>1
    <3> QED
      BY <2>3, <3>1, <3>2, <1>17
  <2>4. CASE i \in Emitted({"loop"}) /\ j = n
    <3>1. emitted'[i] = emitted[i] /\ emitted[i].in = f
      BY <2>4, <1>16, <1>17
    <3>2. emitted[i].break # frames[t].breakLabel /\ emitted[i].continue # frames[t].continueLabel
      BY <2>1, <2>4, <3>1
    <3> QED
      BY <2>4, <3>1, <3>2, <1>17
  <2> QED
    BY <2>2, <2>3, <2>4, <1>15
<1> QED
  BY <1>3, <1>13, <1>19, <1>20
-----------------------------------------------------------------------------
(* Functions that are complete.                                            *)

LEMMA ClosedStays ==
  ASSUME Typed, FramesNest, program' = program, frames' \in Seq(Frame),
         \/ Stays /\ compiled' = compiled
         \/ Stays /\ \E n \in DOMAIN program : compiled' = compiled \cup {n} /\ program[n].kind # "function"
         \/ \E n : Pushes(n) /\ compiled' = compiled \cup {n}
         \/ Pops /\ compiled' = compiled /\ program[Here.node].kind # "function"
  PROVE  Closed' \subseteq Closed
<1>0. PICK t : t = Len(frames)
  OBVIOUS
<1>1. t = Len(frames) /\ t \in Nat \ {0} /\ Here = frames[t] /\ DOMAIN frames = 1..t /\ DOMAIN frames' = 1..Len(frames')
  BY <1>0, FrameTypes
<1> SUFFICES ASSUME NEW n \in Closed' PROVE n \in Closed
  OBVIOUS
<1>2. /\ n \in compiled' /\ n \in FunctionsOf(program)
      /\ \A i \in DOMAIN frames' : frames'[i].node # n
  BY DEF Closed, FunctionsOf
<1>3. program[n].kind = "function"
  BY <1>2 DEF FunctionsOf
<1>4. CASE Stays
  <2>0. (\A m : ~Pushes(m)) /\ ~Pops
    BY <1>1, <1>4 DEF Stays, Pushes, Pops
  <2>1. n \in compiled
    <3>1. \/ compiled' = compiled
          \/ \E m \in DOMAIN program : compiled' = compiled \cup {m} /\ program[m].kind # "function"
      BY <2>0
    <3> QED
      BY <3>1, <1>2, <1>3
  <2>2. \A i \in 1..t : i \in DOMAIN frames' /\ frames'[i].node = frames[i].node
    BY <1>1, <1>4 DEF Stays, Alike
  <2> QED
    BY <2>1, <2>2, <1>1, <1>2 DEF Closed
<1>5. CASE \E m : Pushes(m) /\ compiled' = compiled \cup {m}
  <2>1. PICK m : Pushes(m) /\ compiled' = compiled \cup {m}
    BY <1>5
  <2>2. \A i \in 1..t : i \in DOMAIN frames' /\ frames'[i].node = frames[i].node
    BY <1>1, <2>1 DEF Pushes, Alike
  <2>3. t + 1 \in DOMAIN frames' /\ frames'[t + 1].node = m
    BY <1>1, <2>1 DEF Pushes
  <2>4. n \in compiled
    BY <2>1, <2>3, <1>2
  <2> QED
    BY <2>4, <2>2, <1>1, <1>2 DEF Closed
<1>6. CASE Pops /\ compiled' = compiled /\ program[Here.node].kind # "function"
  <2>1. \A i \in 1..(t - 1) : i \in DOMAIN frames' /\ frames'[i].node = frames[i].node
    BY <1>1, <1>6 DEF Pops, Alike
  <2>2. frames[t].node # n
    BY <1>1, <1>3, <1>6
  <2>3. \A i \in 1..t : i = t \/ i \in 1..(t - 1)
    BY <1>1
  <2> QED
    BY <2>1, <2>2, <2>3, <1>1, <1>2, <1>6 DEF Closed
<1> QED
  BY <1>4, <1>5, <1>6

LEMMA FunctionsStay ==
  ASSUME FunctionsAdded, program' = program, Closed' \subseteq Closed,
         wasm \subseteq wasm', wasm' \subseteq wasm \cup {Start},
         \A n \in compiled' : n \in compiled \/ (n \in FunctionsOf(program) => Key(program, n) \in functions)
  PROVE  FunctionsAdded'
<1>1. functions' = functions /\ constructors' = constructors /\ FunctionsOf(program') = FunctionsOf(program)
  BY Static
<1>2. \A n : Key(program', n) = Key(program, n)
  OBVIOUS
<1> QED
  BY <1>1, <1>2 DEF FunctionsAdded

LEMMA FunctionAdded ==
  ASSUME Typed, FramesNest, FunctionsAdded, program' = program, frames' \in Seq(Frame),
         Pops, compiled' = compiled, program[Here.node].kind = "function",
         currentFunction = Key(program, Here.node),
         currentFunction \notin wasm, wasm' = wasm \cup {currentFunction}
  PROVE  FunctionsAdded'
<1>0. PICK t : t = Len(frames)
  OBVIOUS
<1>1. t = Len(frames) /\ t \in Nat \ {0} /\ t > 1 /\ Here = frames[t] /\ DOMAIN frames = 1..t
  BY <1>0, FrameTypes DEF Pops
<1>2. DOMAIN frames' = 1..(t - 1) /\ \A i \in 1..(t - 1) : frames'[i].node = frames[i].node
  BY <1>1 DEF Pops, Alike
<1>3. Here.node \in compiled /\ Here.node \in FunctionsOf(program)
  BY <1>1, NodeTypes DEF FunctionsOf
<1>4. ASSUME NEW n \in Closed', n # Here.node PROVE n \in Closed
  <2>1. \A i \in 1..t : i = t \/ i \in 1..(t - 1)
    BY <1>1
  <2>2. n \in compiled \cap FunctionsOf(program) /\ \A i \in 1..(t - 1) : frames'[i].node # n
    BY <1>2 DEF Closed, FunctionsOf
  <2> QED
    BY <2>1, <2>2, <1>1, <1>2, <1>4 DEF Closed
<1>5. functions' = functions /\ constructors' = constructors /\ FunctionsOf(program') = FunctionsOf(program)
  BY Static
<1>6. Key(program, Here.node) \in functions
  BY <1>3 DEF FunctionsAdded
<1>7. \A n : Key(program', n) = Key(program, n)
  OBVIOUS
<1>8. \A n \in Closed' : Key(program, n) \in wasm' /\ Key(program, n) \notin constructors
  BY <1>4 DEF FunctionsAdded
<1>9. ASSUME NEW n \in Closed', NEW m \in Closed', Key(program, n) = Key(program, m)
      PROVE  n = m
  <2>1. CASE n # Here.node /\ m # Here.node
    BY <2>1, <1>4, <1>9 DEF FunctionsAdded
  <2>2. CASE n = Here.node /\ m # Here.node
    BY <2>2, <1>4, <1>9 DEF FunctionsAdded
  <2>3. CASE m = Here.node /\ n # Here.node
    BY <2>3, <1>4, <1>9 DEF FunctionsAdded
  <2> QED
    BY <2>1, <2>2, <2>3
<1>10. /\ constructors' \subseteq wasm' /\ wasm' \subseteq functions' \cup {Start}
       /\ \A n \in compiled' \cap FunctionsOf(program') : Key(program', n) \in functions'
  BY <1>5, <1>6 DEF FunctionsAdded
<1> QED
  BY <1>5, <1>7, <1>8, <1>9, <1>10 DEF FunctionsAdded

-----------------------------------------------------------------------------
(* What is in the code, and the variables that it reads.                   *)

LEMMA EmittedExtends ==
  ASSUME Typed, EmittedRight, program' = program, compiled \subseteq compiled',
         emitted' \in Seq(Instruction), NEW kinds, Extends(kinds),
         \A e \in 1..Len(emitted') : e > Len(emitted) =>
           /\ emitted'[e].node \in compiled'
           /\ emitted'[e].what = "loop" => emitted'[e].in = Home(emitted'[e].node)
  PROVE  EmittedRight'
<1>1. /\ DOMAIN emitted = 1..Len(emitted) /\ Len(emitted) \in Nat
      /\ DOMAIN emitted' = 1..Len(emitted') /\ Len(emitted') \in Nat
  BY DEF Typed
<1>2. \A n : Home(n)' = Home(n)
  BY Static
<1>3. ASSUME NEW e \in 1..Len(emitted')
      PROVE  /\ emitted'[e].node \in compiled'
             /\ emitted'[e].what = "loop" => emitted'[e].in = Home(emitted'[e].node)
  <2>1. CASE e > Len(emitted)
    BY <2>1
  <2>2. CASE e \in 1..Len(emitted)
    <3>1. emitted'[e] = emitted[e]
      BY <2>2 DEF Extends
    <3>2. emitted[e].node \in compiled /\ (emitted[e].what = "loop" => emitted[e].in = Home(emitted[e].node))
      BY <2>2, <1>1 DEF EmittedRight, Emitted
    <3> QED
      BY <3>1, <3>2
  <2>3. e > Len(emitted) \/ e \in 1..Len(emitted)
    BY <1>1
  <2> QED
    BY <2>1, <2>2, <2>3
<1> QED
  BY <1>1, <1>2, <1>3 DEF EmittedRight, Emitted

LEMMA HomeTypes ==
  ASSUME Typed, NEW n
  PROVE  Home(n) \in irFunctions(program) /\ Home(n) \in Function
<1>1. CASE FunctionAround(n) = {}
  BY <1>1 DEF Home, irFunctions, Function
<1>2. CASE FunctionAround(n) # {}
  <2>1. PICK f \in FunctionAround(n) : Home(n) = Key(program, f)
    BY <1>2 DEF Home
  <2>2. f \in FunctionsOf(program) /\ f \in DOMAIN program
    BY DEF FunctionAround, FunctionsOf
  <2> QED
    BY <2>1, <2>2, KeyTypes DEF irFunctions, Function
<1> QED
  BY <1>1, <1>2

LEMMA LocalsStay ==
  ASSUME Typed, LocalsDeclared, program' = program, locals' = locals,
         \A n \in compiled' : n \in compiled \/ program[n].kind # "let" \/ Home(n) = Start
  PROVE  LocalsDeclared'
<1>1. \A n : Home(n)' = Home(n)
  BY Static
<1> QED
  BY <1>1 DEF LocalsDeclared

LEMMA LocalDeclared ==
  ASSUME Typed, LocalsDeclared, program' = program, NEW n, compiled' = compiled \cup {n},
         Home(n) = currentFunction,
         locals' = [locals EXCEPT ![currentFunction] = Append(@, program[n].name)]
  PROVE  LocalsDeclared'
<1>1. \A m : Home(m)' = Home(m)
  BY Static
<1>2. ASSUME NEW m \in compiled', program[m].kind = "let", Home(m) # Start
      PROVE  \E i \in DOMAIN locals'[Home(m)] : locals'[Home(m)][i] = program[m].name
  <2>1. Home(m) \in irFunctions(program) /\ locals[Home(m)] \in Seq(Word)
    BY HomeTypes DEF Typed
  <2>2. CASE Home(m) = currentFunction
    <3>1. locals'[Home(m)] = Append(locals[Home(m)], program[n].name)
      BY <2>1, <2>2 DEF Typed
    <3>2. /\ DOMAIN locals[Home(m)] \subseteq DOMAIN locals'[Home(m)]
          /\ \A i \in DOMAIN locals[Home(m)] : locals'[Home(m)][i] = locals[Home(m)][i]
          /\ \E i \in DOMAIN locals'[Home(m)] : locals'[Home(m)][i] = program[n].name
      BY <2>1, <3>1
    <3>3. CASE m = n
      BY <3>2, <3>3
    <3>4. CASE m \in compiled
      BY <3>2, <3>4, <1>2 DEF LocalsDeclared
    <3> QED
      BY <3>3, <3>4
  <2>3. CASE Home(m) # currentFunction
    <3>1. locals'[Home(m)] = locals[Home(m)]
      BY <2>1, <2>3 DEF Typed
    <3>2. m \in compiled
      BY <2>3
    <3> QED
      BY <3>1, <3>2, <1>2 DEF LocalsDeclared
  <2> QED
    BY <2>2, <2>3
<1> QED
  BY <1>1, <1>2 DEF LocalsDeclared

LEMMA LeastNumber ==
  ASSUME NEW S, S \subseteq Nat, S # {}
  PROVE  \E x \in S : \A y \in S : x <= y
<1> DEFINE R == OpToRel(<, Nat)
<1>1. IsWellFoundedOn(R, Nat)
  BY NatLessThanWellFounded
<1>2. \A x \in Nat, y \in Nat : y < x => <<y, x>> \in R
  BY DEF OpToRel
<1> HIDE DEF R
<1>3. PICK x \in S : \A y \in S : ~ (<<y, x>> \in R)
  BY <1>1, WFMin
<1>4. \A y \in S : ~(y < x)
  BY <1>2, <1>3, Zenon
<1> QED
  BY <1>4

(* The variable an identifier stands for: a local if there is one.         *)
LEMMA VariableIs ==
  ASSUME Typed, FunctionStack, NEW x
  PROVE  /\ Variable(x) \in [owner: Function, slot: Nat]
         /\ LocalsNamed(x) = {} => Variable(x).slot = 0
         /\ Variable(x).slot # 0 => Variable(x).owner = currentFunction
         /\ LocalsNamed(x) # {} => Variable(x).slot # 0
<1>1. resolving = currentFunction /\ resolving \in irFunctions(program) /\ resolving \in Function
  BY FunctionsAreThere DEF FunctionStack
<1>2. LocalsNamed(x) \subseteq Nat \ {0}
  BY <1>1 DEF LocalsNamed, Typed
<1>3. CASE LocalsNamed(x) = {}
  BY <1>3 DEF Variable, Function
<1>4. CASE LocalsNamed(x) # {}
  <2> DEFINE s == CHOOSE i \in LocalsNamed(x) : \A j \in LocalsNamed(x) : i <= j
  <2>1. \E i \in LocalsNamed(x) : \A j \in LocalsNamed(x) : i <= j
    BY <1>2, <1>4, LeastNumber
  <2>2. s \in LocalsNamed(x)
    BY <2>1
  <2>3. Variable(x) = [owner |-> resolving, slot |-> s]
    BY <1>4 DEF Variable
  <2> HIDE DEF s
  <2> QED
    BY <2>2, <2>3, <1>1, <1>2, <1>4
<1> QED
  BY <1>3, <1>4

ReadRight(r) ==
  /\ r.from.slot > 0 => r.from.owner = Home(r.node)
  /\ r.from.slot = 0 =>
       ~\E m \in compiled : /\ m < r.node /\ program[m].kind = "let"
                            /\ program[m].name = program[r.node].var
                            /\ Home(m) = Home(r.node) /\ Home(m) # Start

LEMMA NewRead ==
  ASSUME Typed, FramesNest, FunctionStack, LocalsDeclared,
         NEW n \in DOMAIN program, program[n].parent = Here.node, NEW r,
         r.node = n, r.from = Variable(program[n].var)
  PROVE  ReadRight(r)
<1> DEFINE x == program[n].var
<1>1. Home(n) = currentFunction /\ resolving = currentFunction
  BY ChildIsHome DEF FunctionStack
<1>2. Variable(x).slot > 0 => Variable(x).owner = Home(n)
  BY <1>1, VariableIs
<1>3. ASSUME Variable(x).slot = 0,
             NEW m \in compiled, program[m].kind = "let", program[m].name = x,
             Home(m) = Home(n), Home(m) # Start
      PROVE  FALSE
  <2>1. \E i \in DOMAIN locals[Home(m)] : locals[Home(m)][i] = x
    BY <1>3 DEF LocalsDeclared
  <2>2. LocalsNamed(x) # {}
    BY <2>1, <1>1, <1>3 DEF LocalsNamed
  <2> QED
    BY <2>2, <1>3, VariableIs
<1> QED
  BY <1>2, <1>3 DEF ReadRight

(* n is the statement that is compiled: whatever has code is before it.    *)
LEMMA ReadsExtend ==
  ASSUME Typed, EmittedRight, ReadsInScope, program' = program,
         NEW n \in DOMAIN program, compiled' = compiled \cup {n},
         n \in compiled \/ \A c \in compiled : c < n,
         emitted' \in Seq(Instruction), NEW kinds, Extends(kinds),
         \A e \in 1..Len(emitted') :
           e > Len(emitted) /\ emitted'[e].what = "read" => emitted'[e].node = n /\ ReadRight(emitted'[e])
  PROVE  ReadsInScope'
<1>1. /\ DOMAIN emitted = 1..Len(emitted) /\ Len(emitted) \in Nat
      /\ DOMAIN emitted' = 1..Len(emitted') /\ Len(emitted') \in Nat
      /\ n \in Nat /\ \A c \in compiled : c \in Nat
  BY StatementTypes DEF Typed
<1>2. \A m : Home(m)' = Home(m)
  BY Static
<1>3. ASSUME NEW r, ReadRight(r), r.node \in compiled \cup {n}
      PROVE  /\ r.from.slot > 0 => r.from.owner = Home(r.node)
             /\ r.from.slot = 0 =>
                  ~\E m \in compiled' : /\ m < r.node /\ program[m].kind = "let"
                                        /\ program[m].name = program[r.node].var
                                        /\ Home(m) = Home(r.node) /\ Home(m) # Start
  <2>1. ASSUME NEW m \in compiled', m < r.node PROVE m \in compiled
    BY <1>1, <1>3, <2>1
  <2> QED
    BY <2>1, <1>3 DEF ReadRight
<1>4. ASSUME NEW e \in 1..Len(emitted'), emitted'[e].what = "read"
      PROVE  ReadRight(emitted'[e]) /\ emitted'[e].node \in compiled \cup {n}
  <2>1. CASE e > Len(emitted)
    BY <2>1, <1>4
  <2>2. CASE e \in 1..Len(emitted)
    <3>1. emitted'[e] = emitted[e] /\ e \in Emitted({"read"})
      BY <2>2, <1>1, <1>4 DEF Extends, Emitted
    <3>2. emitted[e].node \in compiled
      BY <2>2, <1>1 DEF EmittedRight
    <3>3. ReadRight(emitted[e])
      BY <3>1 DEF ReadsInScope, ReadRight
    <3> QED
      BY <3>1, <3>2, <3>3
  <2>3. e > Len(emitted) \/ e \in 1..Len(emitted)
    BY <1>1
  <2> QED
    BY <2>1, <2>2, <2>3
<1> QED
  BY <1>1, <1>2, <1>3, <1>4 DEF ReadsInScope, Emitted

LEMMA ReadsStay ==
  ASSUME Typed, EmittedRight, ReadsInScope, program' = program, compiled' = compiled,
         emitted' \in Seq(Instruction), NEW kinds, Extends(kinds), "read" \notin kinds
  PROVE  ReadsInScope'
<1>1. \A m : Home(m)' = Home(m)
  BY Static
<1>2. /\ DOMAIN emitted = 1..Len(emitted) /\ Len(emitted) \in Nat
      /\ DOMAIN emitted' = 1..Len(emitted') /\ Len(emitted') \in Nat
  BY DEF Typed
<1>3. \A e \in Emitted({"read"})' : e \in Emitted({"read"}) /\ emitted'[e] = emitted[e]
  <2> SUFFICES ASSUME NEW e \in Emitted({"read"})'
               PROVE  e \in Emitted({"read"}) /\ emitted'[e] = emitted[e]
    OBVIOUS
  <2>1. e \in 1..Len(emitted') /\ emitted'[e].what = "read"
    BY <1>2 DEF Emitted
  <2>2. e \in 1..Len(emitted)
    BY <2>1, <1>2 DEF Extends
  <2> QED
    BY <2>1, <2>2, <1>2 DEF Extends, Emitted
<1> QED
  BY <1>1, <1>3 DEF ReadsInScope

-----------------------------------------------------------------------------
(* Jumps and the loops around them.                                        *)

(* The innermost function around a statement is one, and has code.         *)
LEMMA OneAround ==
  ASSUME Typed, NEW n, NEW g \in FunctionAround(n)
  PROVE  /\ FunctionAround(n) = {g} /\ Home(n) = Key(program, g)
         /\ g \in FunctionsOf(program) /\ g \in DOMAIN program /\ g \in Nat /\ Inside(n, g)
<1>1. \A h \in FunctionsOf(program) : h \in DOMAIN program /\ h \in Nat
  BY StatementTypes DEF FunctionsOf
<1>2. g \in FunctionsOf(program) /\ Inside(n, g)
  BY DEF FunctionAround
<1>3. ASSUME NEW h \in FunctionAround(n) PROVE h = g
  <2>1. h \in FunctionsOf(program) /\ h <= g /\ g <= h
    BY <1>2 DEF FunctionAround
  <2> QED
    BY <2>1, <1>1, <1>2
<1>4. FunctionAround(n) = {g}
  BY <1>3
<1>5. Home(n) = Key(program, g)
  BY <1>4 DEF Home
<1> QED
  BY <1>1, <1>2, <1>4, <1>5

LEMMA AroundIsCompiled ==
  ASSUME Typed, FramesNest, NEW n, NEW top \in Nat, top <= Len(frames), NestedIn(n, top),
         NEW g \in FunctionAround(n)
  PROVE  g \in compiled \cap FunctionsOf(program) /\ \E j \in 2..top : frames[j].node = g
<1>1. g \in FunctionsOf(program) /\ g \in DOMAIN program /\ Inside(n, g)
  BY OneAround
<1>2. PICK j \in 2..top : frames[j].node = g
  BY <1>1 DEF NestedIn
<1>3. j \in DOMAIN frames /\ j # 1
  BY FrameTypes
<1> QED
  BY <1>1, <1>2, <1>3, NodeTypes

(* Functions that can be prepared are told apart by their keys.            *)
LEMMA SameHome ==
  ASSUME Typed, FramesNest, Flat, NEW n, NEW m, NEW s \in Nat, NEW t \in Nat,
         s <= Len(frames), t <= Len(frames), NestedIn(n, s), NestedIn(m, t), Home(n) = Home(m)
  PROVE  FunctionAround(n) = FunctionAround(m)
<1>1. ASSUME NEW a, NEW b, FunctionAround(a) = {}, Home(a) = Home(b) PROVE FunctionAround(b) = {}
  <2>1. Home(b) = Start
    BY <1>1 DEF Home
  <2>2. \A g \in FunctionAround(b) : FALSE
    BY <2>1, OneAround, KeyTypes
  <2> QED
    BY <2>2
<1>2. CASE FunctionAround(n) = {} \/ FunctionAround(m) = {}
  BY <1>1, <1>2
<1>3. CASE FunctionAround(n) # {} /\ FunctionAround(m) # {}
  <2>1. PICK g \in FunctionAround(n) : TRUE
    BY <1>3
  <2>2. PICK h \in FunctionAround(m) : TRUE
    BY <1>3
  <2>3. g \in compiled \cap FunctionsOf(program) /\ h \in compiled \cap FunctionsOf(program)
    BY AroundIsCompiled
  <2>4. Prepared(program, g) /\ Prepared(program, h)
    BY <2>3 DEF Flat
  <2>5. Key(program, g) = Key(program, h)
    BY OneAround
  <2>6. g = h
    BY <2>3, <2>4, <2>5 DEF Typed, WellFormed
  <2> QED
    BY <2>6, OneAround
<1> QED
  BY <1>2, <1>3

(* Between a loop and a jump in the same function is no other function.    *)
LEMMA AroundBetween ==
  ASSUME Typed, FramesNest, FunctionStack, NEW n \in DOMAIN program, program[n].parent = Here.node,
         NEW k \in DOMAIN frames, NEW j \in DOMAIN frames, k # 1, k <= j,
         FunctionAround(frames[k].node) = FunctionAround(n)
  PROVE  FunctionAround(frames[j].node) = FunctionAround(n)
<1>0. PICK t : t = Len(frames)
  OBVIOUS
<1>1. t = Len(frames) /\ t \in Nat \ {0} /\ DOMAIN frames = 1..t /\ j \in 2..t /\ k \in 2..t
  BY <1>0, FrameTypes
<1>2. NestedIn(n, t)
  BY <1>1, ChildNests
<1>3. NestedIn(frames[j].node, j - 1) /\ NestedIn(frames[k].node, k - 1)
  BY NodeTypes
<1>4. \A h \in DOMAIN program : Inside(frames[k].node, h) => Inside(frames[j].node, h)
  BY <1>1, <1>3 DEF NestedIn
<1>5. \A h \in DOMAIN program : Inside(frames[j].node, h) => Inside(n, h)
  BY <1>1, <1>2, <1>3 DEF NestedIn
<1>6. ASSUME NEW g \in FunctionAround(n) PROVE g \in FunctionAround(frames[j].node)
  <2>1. g \in FunctionsOf(program) /\ g \in DOMAIN program /\ Inside(frames[k].node, g)
    BY OneAround
  <2>2. Inside(frames[j].node, g)
    BY <2>1, <1>4
  <2>3. \A h \in FunctionsOf(program) : Inside(frames[j].node, h) => h <= g
    BY <1>5 DEF FunctionAround, FunctionsOf
  <2> QED
    BY <2>1, <2>2, <2>3 DEF FunctionAround
<1>7. CASE FunctionAround(n) = {}
  <2>1. PICK i \in OpenFunctions : currentFunction = FunctionOf(i) /\ \A m \in OpenFunctions : m <= i
    BY InnermostFunction
  <2>2. i \in Nat /\ i \in DOMAIN frames
    BY OpenFunctionTypes
  <2>3. FunctionAround(n) = IF i = 1 THEN {} ELSE {frames[i].node}
    BY <1>1, <1>2, <2>1, <2>2, AroundIs
  <2>4. i = 1
    BY <1>7, <2>3
  <2>5. ASSUME NEW g \in FunctionAround(frames[j].node) PROVE FALSE
    <3>1. g \in FunctionsOf(program) /\ g \in DOMAIN program /\ Inside(frames[j].node, g)
      BY OneAround
    <3>2. PICK q \in 2..(j - 1) : frames[q].node = g
      BY <3>1, <1>3 DEF NestedIn
    <3>3. q \in OpenFunctions
      BY <1>1, <3>1, <3>2 DEF OpenFunctions, FunctionsOf
    <3> QED
      BY <3>2, <3>3, <2>1, <2>4
  <2> QED
    BY <2>5, <1>7
<1>8. CASE FunctionAround(n) # {}
  <2>1. PICK g \in FunctionAround(n) : TRUE
    BY <1>8
  <2>2. FunctionAround(n) = {g} /\ FunctionAround(frames[j].node) = {g}
    BY <1>6, OneAround
  <2> QED
    BY <2>2
<1> QED
  BY <1>7, <1>8

LEMMA OpenLoops ==
  ASSUME Typed, FramesNest, FunctionStack, LabelStack, NEW kind \in {"break", "continue"}
  PROVE  /\ StackOf(kind) = <<>> => LoopFrames(currentFunction) = {}
         /\ StackOf(kind) # <<>> =>
              \E k \in LoopFrames(currentFunction) :
                /\ \A i \in LoopFrames(currentFunction) : i <= k
                /\ Last(StackOf(kind)) = IF kind = "break" THEN frames[k].breakLabel
                                         ELSE frames[k].continueLabel
<1> DEFINE f == currentFunction
           b == labels[f].break
           c == labels[f].continue
<1>1. f \in irFunctions(program)
  BY FunctionsAreThere
<1>2. b \in Seq(Nat) /\ c \in Seq(Nat)
  BY <1>1, LabelTypes
<1>3. PICK w : StackIs(f, w)
  BY <1>1, StacksAre
<1>4. /\ Lists(w, Len(b), LoopFrames(f)) /\ Len(c) = Len(b)
      /\ \A j \in 1..Len(b) : b[j] = frames[w[j]].breakLabel /\ c[j] = frames[w[j]].continueLabel
  BY <1>3 DEF StackIs
<1>5. LoopFrames(f) \subseteq Nat
  BY LoopFrameTypes
<1>6. StackOf(kind) = IF kind = "break" THEN b ELSE c
  BY DEF StackOf
<1> HIDE DEF f, b, c
<1>7. Len(b) \in Nat
  BY <1>2
<1>8. /\ Len(b) = 0 <=> LoopFrames(f) = {}
      /\ Len(b) # 0 => w[Len(b)] \in LoopFrames(f) /\ \A s \in LoopFrames(f) : s <= w[Len(b)]
  BY <1>4, <1>5, <1>7, EnumerationEnds
<1>9. (StackOf(kind) = <<>> => Len(b) = 0) /\ (StackOf(kind) # <<>> => Len(b) # 0)
  BY <1>2, <1>4, <1>6
<1>10. ASSUME StackOf(kind) # <<>>
       PROVE  Last(StackOf(kind)) = IF kind = "break" THEN frames[w[Len(b)]].breakLabel
                                    ELSE frames[w[Len(b)]].continueLabel
  <2>1. Len(b) \in 1..Len(b)
    BY <1>7, <1>9, <1>10
  <2>2. Last(StackOf(kind)) = IF kind = "break" THEN b[Len(b)] ELSE c[Len(b)]
    BY <1>4, <1>6 DEF Last
  <2> QED
    BY <2>1, <2>2, <1>4
<1> QED
  BY <1>8, <1>9, <1>10 DEF f

(* A jump outside of every loop of its function has none around it.        *)
LEMMA NoLoopAround ==
  ASSUME Typed, FramesNest, FunctionStack, NEW n \in DOMAIN program, program[n].parent = Here.node,
         LoopFrames(currentFunction) = {}
  PROVE  LoopAround(n) = {}
<1> SUFFICES ASSUME NEW l \in LoopAround(n) PROVE FALSE
  OBVIOUS
<1>1. /\ l \in DOMAIN program /\ program[l].kind = "while" /\ Inside(n, l)
      /\ FunctionAround(n) = FunctionAround(l)
  BY DEF LoopAround
<1>2. NestedIn(n, Len(frames))
  BY ChildNests
<1>3. PICK j \in 2..Len(frames) : frames[j].node = l
  BY <1>1, <1>2 DEF NestedIn
<1>4. Home(l) = Home(n) /\ Home(n) = currentFunction
  BY <1>1, ChildIsHome DEF Home
<1>5. j \in LoopFrames(currentFunction)
  BY <1>1, <1>3, <1>4, FrameTypes DEF LoopFrames
<1> QED
  BY <1>5

(* The innermost open loop of the function is the one around a jump.       *)
LEMMA LoopIsAround ==
  ASSUME Typed, FramesNest, FunctionStack, Flat,
         NEW n \in DOMAIN program, program[n].parent = Here.node,
         NEW k \in LoopFrames(currentFunction), \A i \in LoopFrames(currentFunction) : i <= k
  PROVE  frames[k].node \in LoopAround(n)
<1>0. PICK t : t = Len(frames)
  OBVIOUS
<1>1. t = Len(frames) /\ t \in Nat \ {0} /\ DOMAIN frames = 1..t /\ k \in 2..t /\ k \in DOMAIN frames /\ k # 1
  BY <1>0, FrameTypes DEF LoopFrames
<1>2. NestedIn(n, t) /\ NestedIn(frames[k].node, k - 1) /\ t <= Len(frames)
  BY <1>1, ChildNests, NodeTypes
<1>3. /\ frames[k].node \in DOMAIN program /\ program[frames[k].node].kind = "while"
      /\ Home(frames[k].node) = currentFunction /\ Home(n) = currentFunction
  BY <1>1, NodeTypes, ChildIsHome DEF LoopFrames
<1>4. FunctionAround(frames[k].node) = FunctionAround(n)
  BY <1>1, <1>2, <1>3, SameHome
<1>5. Inside(n, frames[k].node)
  BY <1>1, <1>2, <1>3 DEF NestedIn
<1>6. ASSUME NEW m \in DOMAIN program, program[m].kind = "while", Inside(n, m)
      PROVE  m <= frames[k].node
  <2>1. PICK j \in 2..t : frames[j].node = m
    BY <1>2, <1>6 DEF NestedIn
  <2>2. j \in DOMAIN frames /\ j \in Nat /\ k \in Nat
    BY <1>1
  <2>3. CASE j <= k
    <3>1. j < k => frames[j].node < frames[k].node
      BY <1>1, <2>2 DEF FramesNest
    <3>2. j = k \/ j < k
      BY <2>2, <2>3
    <3> QED
      BY <3>1, <3>2, <2>1, <1>1, <2>2, FrameTypes
  <2>4. CASE k < j
    <3>1. FunctionAround(m) = FunctionAround(n)
      BY <1>1, <1>4, <2>1, <2>2, <2>4, AroundBetween
    <3>2. Home(m) = currentFunction
      BY <3>1, <1>3 DEF Home
    <3>3. j \in LoopFrames(currentFunction)
      BY <1>6, <2>1, <2>2, <3>2 DEF LoopFrames
    <3> QED
      BY <3>3, <2>2, <2>4
  <2> QED
    BY <2>2, <2>3, <2>4
<1> QED
  BY <1>3, <1>4, <1>5, <1>6 DEF LoopAround

LEMMA NewJump ==
  ASSUME Typed, FramesNest, FunctionStack, LabelStack, Flat,
         NEW n \in DOMAIN program, program[n].parent = Here.node,
         NEW kind \in {"break", "continue"}, StackOf(kind) # <<>>,
         NEW r, r.what = kind, r.node = n, r.label = Last(StackOf(kind))
  PROVE  JumpBinds(r)
<1>1. PICK k \in LoopFrames(currentFunction) :
        /\ \A i \in LoopFrames(currentFunction) : i <= k
        /\ Last(StackOf(kind)) = IF kind = "break" THEN frames[k].breakLabel ELSE frames[k].continueLabel
  BY OpenLoops
<1>2. frames[k].node \in LoopAround(n)
  BY <1>1, LoopIsAround
<1>3. Home(n) = currentFunction
  BY ChildIsHome
<1> QED
  BY <1>1, <1>2, <1>3 DEF JumpBinds

(* What an open loop becomes in a step: open still, or part of the code.   *)
StillOpen(f, i) ==
  /\ i \in LoopFrames(f)' /\ frames'[i].node = frames[i].node
  /\ frames'[i].breakLabel = frames[i].breakLabel
  /\ frames'[i].continueLabel = frames[i].continueLabel
NowEmitted(f, i) ==
  \E e \in Emitted({"loop"})' :
    /\ emitted'[e].in = f /\ emitted'[e].node = frames[i].node
    /\ emitted'[e].break = frames[i].breakLabel
    /\ emitted'[e].continue = frames[i].continueLabel

LEMMA LoopsStillOpen ==
  ASSUME Typed, program' = program, frames' \in Seq(Frame),
         Stays \/ (\E n : Pushes(n)) \/ Pops,
         NEW f, NEW i \in LoopFrames(f), Pops => i # Len(frames)
  PROVE  StillOpen(f, i)
<1>0. PICK t : t = Len(frames)
  OBVIOUS
<1>1. t = Len(frames) /\ t \in Nat \ {0} /\ DOMAIN frames = 1..t /\ DOMAIN frames' = 1..Len(frames')
  BY <1>0, FrameTypes
<1>2. i \in 1..t /\ i # 1 /\ program[frames[i].node].kind = "while" /\ Home(frames[i].node) = f
  BY <1>1 DEF LoopFrames
<1>3. /\ i \in DOMAIN frames' /\ frames'[i].node = frames[i].node
      /\ frames'[i].breakLabel = frames[i].breakLabel
      /\ frames'[i].continueLabel = frames[i].continueLabel
  <2>1. CASE Stays
    BY <2>1, <1>1, <1>2 DEF Stays, Alike
  <2>2. CASE \E n : Pushes(n)
    BY <2>2, <1>1, <1>2 DEF Pushes, Alike
  <2>3. CASE Pops
    <3>1. i \in 1..(t - 1)
      BY <2>3, <1>1, <1>2
    <3> QED
      BY <2>3, <3>1, <1>1 DEF Pops, Alike
  <2> QED
    BY <2>1, <2>2, <2>3
<1>4. \A n : Home(n)' = Home(n)
  BY Static
<1> QED
  BY <1>2, <1>3, <1>4 DEF StillOpen, LoopFrames

LEMMA JumpsStay ==
  ASSUME Typed, JumpsBind, program' = program, compiled \subseteq compiled',
         emitted' \in Seq(Instruction), NEW kinds, Extends(kinds),
         \A f : \A i \in LoopFrames(f) : StillOpen(f, i) \/ NowEmitted(f, i),
         \A e \in 1..Len(emitted') :
           Flat /\ e > Len(emitted) /\ emitted'[e].what \in {"break", "continue"} => JumpBinds(emitted'[e])
  PROVE  JumpsBind'
<1>1. /\ DOMAIN emitted = 1..Len(emitted) /\ Len(emitted) \in Nat
      /\ DOMAIN emitted' = 1..Len(emitted') /\ Len(emitted') \in Nat
  BY DEF Typed
<1>2. \A n : Home(n)' = Home(n) /\ LoopAround(n)' = LoopAround(n)
  BY Static
<1>3. Flat' => Flat
  BY DEF Flat, FunctionsOf, Prepared, TopLevel, ClassesOf
<1>4. ASSUME NEW jump, jump.what \in {"break", "continue"}, JumpBinds(jump) PROVE JumpBinds(jump)'
  <2>1. CASE \E e \in Emitted({"loop"}) :
               /\ emitted[e].in = Home(jump.node)
               /\ emitted[e][jump.what] = jump.label
               /\ emitted[e].node \in LoopAround(jump.node)
    <3>1. PICK e \in Emitted({"loop"}) :
               /\ emitted[e].in = Home(jump.node)
               /\ emitted[e][jump.what] = jump.label
               /\ emitted[e].node \in LoopAround(jump.node)
      BY <2>1
    <3>2. e \in 1..Len(emitted) /\ e \in Emitted({"loop"})' /\ emitted'[e] = emitted[e]
      BY <1>1 DEF Emitted, Extends
    <3> QED
      BY <3>1, <3>2, <1>2 DEF JumpBinds
  <2>2. CASE \E i \in LoopFrames(Home(jump.node)) :
               /\ jump.label = IF jump.what = "break" THEN frames[i].breakLabel ELSE frames[i].continueLabel
               /\ frames[i].node \in LoopAround(jump.node)
    <3>1. PICK i \in LoopFrames(Home(jump.node)) :
               /\ jump.label = IF jump.what = "break" THEN frames[i].breakLabel ELSE frames[i].continueLabel
               /\ frames[i].node \in LoopAround(jump.node)
      BY <2>2
    <3>2. CASE StillOpen(Home(jump.node), i)
      BY <3>1, <3>2, <1>2 DEF StillOpen, JumpBinds
    <3>3. CASE NowEmitted(Home(jump.node), i)
      <4>1. PICK e \in Emitted({"loop"})' :
              /\ emitted'[e].in = Home(jump.node) /\ emitted'[e].node = frames[i].node
              /\ emitted'[e].break = frames[i].breakLabel
              /\ emitted'[e].continue = frames[i].continueLabel
        BY <3>3 DEF NowEmitted
      <4>2. emitted'[e][jump.what] = jump.label
        BY <4>1, <3>1, <1>4
      <4> QED
        BY <4>1, <4>2, <3>1, <1>2 DEF JumpBinds
    <3> QED
      BY <3>2, <3>3
  <2> QED
    BY <2>1, <2>2, <1>4 DEF JumpBinds
<1>5. ASSUME Flat, NEW e \in 1..Len(emitted'), emitted'[e].what \in {"break", "continue"}
      PROVE  JumpBinds(emitted'[e])
  <2>1. CASE e > Len(emitted)
    BY <2>1, <1>5
  <2>2. CASE e \in 1..Len(emitted)
    <3>1. emitted'[e] = emitted[e] /\ e \in Emitted({"break", "continue"})
      BY <2>2, <1>1, <1>5 DEF Extends, Emitted
    <3> QED
      BY <3>1, <1>5 DEF JumpsBind
  <2>3. e > Len(emitted) \/ e \in 1..Len(emitted)
    BY <1>1
  <2> QED
    BY <2>1, <2>2, <2>3
<1>6. ASSUME Flat', NEW e \in Emitted({"break", "continue"})' PROVE JumpBinds(emitted[e])'
  <2>1. PICK r : r = emitted'[e]
    OBVIOUS
  <2>2. e \in 1..Len(emitted') /\ r.what \in {"break", "continue"}
    BY <2>1, <1>1 DEF Emitted
  <2>3. JumpBinds(r)
    BY <2>1, <2>2, <1>3, <1>5, <1>6
  <2>4. JumpBinds(r)'
    BY <2>2, <2>3, <1>4
  <2> QED
    BY <2>1, <2>4 DEF JumpBinds
<1> QED
  BY <1>6 DEF JumpsBind

-----------------------------------------------------------------------------
(* The guards, and what the actions have in common.                        *)

LEMMA NextStatement ==
  ASSUME Typed, FramesNest, InOrder, NEW n, NEW kinds, At(n, kinds)
  PROVE  /\ n \in Rest(Here) /\ \A m \in Rest(Here) : n <= m
         /\ n \in DOMAIN program /\ n \in Nat /\ program[n] \in Statement
         /\ program[n].parent = Here.node /\ program[n].kind \in kinds
         /\ n \in compiled \/ \A c \in compiled : c < n
         /\ status.is = "running"
<1>1. n \in Rest(Here) /\ (\A m \in Rest(Here) : n <= m) /\ program[n].kind \in kinds /\ status.is = "running"
  BY DEF At
<1>2. n \in DOMAIN program /\ program[n].parent = Here.node /\ program[n].block = Here.block /\ Here.last < n
  BY <1>1 DEF Rest
<1>3. n \in Nat /\ program[n] \in Statement
  BY <1>2, StatementTypes
<1>4. n \in Remaining(Len(frames)) /\ Len(frames) \in DOMAIN frames
  BY <1>2, FrameTypes DEF Remaining
<1>5. n \in compiled \/ \A c \in compiled : c < n
  BY <1>4 DEF InOrder
<1> QED
  BY <1>1, <1>2, <1>3, <1>5

LEMMA EndOfStatement ==
  ASSUME Typed, FramesNest, NEW kinds, AtEndOf(kinds)
  PROVE  /\ Rest(Here) = {} /\ Len(frames) > 1 /\ program[Here.node].kind \in kinds
         /\ Here.node \in compiled /\ Here.node \in DOMAIN program
         /\ status.is = "running"
<1>1. Rest(Here) = {} /\ Here.node # 0 /\ program[Here.node].kind \in kinds /\ status.is = "running"
  BY DEF AtEndOf
<1>2. Len(frames) \in DOMAIN frames /\ Here = frames[Len(frames)] /\ Len(frames) \in Nat \ {0}
  BY FrameTypes
<1>3. Len(frames) # 1
  BY <1>1, <1>2, NodeTypes
<1> QED
  BY <1>1, <1>2, <1>3, NodeTypes

LEMMA AppendExtends ==
  ASSUME Typed, NEW r \in Instruction, emitted' = Append(emitted, r)
  PROVE  /\ emitted' \in Seq(Instruction) /\ Extends({r.what})
         /\ Len(emitted') = Len(emitted) + 1 /\ emitted'[Len(emitted) + 1] = r
         /\ \A e \in 1..Len(emitted') : e > Len(emitted) => emitted'[e] = r
<1>1. emitted \in Seq(Instruction) /\ Len(emitted) \in Nat
  BY DEF Typed
<1>2. /\ emitted' \in Seq(Instruction) /\ Len(emitted') = Len(emitted) + 1
      /\ emitted'[Len(emitted) + 1] = r /\ \A e \in 1..Len(emitted) : emitted'[e] = emitted[e]
  BY <1>1
<1>3. \A e \in 1..Len(emitted') : e > Len(emitted) => e = Len(emitted) + 1
  BY <1>1, <1>2
<1> QED
  BY <1>1, <1>2, <1>3 DEF Extends

LEMMA NothingExtends ==
  ASSUME Typed, emitted' = emitted
  PROVE  /\ emitted' \in Seq(Instruction) /\ \A kinds : Extends(kinds)
         /\ \A e \in 1..Len(emitted') : ~(e > Len(emitted))
<1>1. emitted \in Seq(Instruction) /\ Len(emitted) \in Nat
  BY DEF Typed
<1> QED
  BY <1>1 DEF Extends

LEMMA ReadExtends ==
  ASSUME Typed, FramesNest, FunctionStack, NEW n \in DOMAIN program, emitted' = emitted \o Read(n)
  PROVE  /\ emitted' \in Seq(Instruction) /\ Extends({"read"})
         /\ \A e \in 1..Len(emitted') : e > Len(emitted) =>
              emitted'[e].what = "read" /\ emitted'[e].node = n /\ emitted'[e].from = Variable(program[n].var)
<1>1. emitted \in Seq(Instruction) /\ Len(emitted) \in Nat
  BY DEF Typed
<1>2. CASE program[n].var = NoName
  <2>1. emitted' = emitted
    BY <1>1, <1>2 DEF Read
  <2> QED
    BY <2>1, NothingExtends
<1>3. CASE program[n].var # NoName
  <2> DEFINE r == [what |-> "read", node |-> n, from |-> Variable(program[n].var)]
  <2>1. r \in Instruction /\ r.what = "read" /\ r.node = n /\ r.from = Variable(program[n].var)
    <3>1. n \in Nat
      BY StatementTypes
    <3>2. Variable(program[n].var) \in [owner: Function, slot: Nat]
      BY VariableIs
    <3> QED
      BY <3>1, <3>2 DEF Instruction
  <2>2. emitted' = emitted \o <<r>>
    BY <1>3 DEF Read
  <2> HIDE DEF r
  <2>3. emitted' = Append(emitted, r)
    BY <2>1, <2>2, <1>1
  <2> QED
    BY <2>1, <2>3, AppendExtends
<1> QED
  BY <1>2, <1>3

LEMMA ExtendsMore ==
  ASSUME NEW kinds, NEW more, kinds \subseteq more, Extends(kinds)
  PROVE  Extends(more)
BY DEF Extends

(* A statement that holds no others is compiled.                           *)
LEMMA LeafKeeps ==
  ASSUME IInv, NEW n, At(n, Leaf), frames' = Passed(n), compiled' = compiled \cup {n},
         UNCHANGED <<program, current, resolving, labels, wasm>>,
         locals' \in [irFunctions(program) -> Seq(Word)], globals' \subseteq Names, LocalsDeclared',
         emitted' \in Seq(Instruction), Extends({"read", "break", "continue"}),
         \A e \in 1..Len(emitted') : e > Len(emitted) =>
           /\ emitted'[e].node = n
           /\ emitted'[e].what = "read" => ReadRight(emitted'[e])
           /\ Flat /\ emitted'[e].what \in {"break", "continue"} => JumpBinds(emitted'[e]),
         status'.is \in Outcome \ {"done", "JumpStatementError"}
  PROVE  IInv'
<1>1. /\ Typed /\ FramesNest /\ FunctionStack /\ LabelStack /\ LabelsFresh /\ LabelsUnique
      /\ InOrder /\ FunctionsAdded /\ LocalsDeclared /\ EmittedRight /\ ReadsInScope /\ JumpsBind
  BY DEF IInv
<1>2. /\ n \in Rest(Here) /\ \A m \in Rest(Here) : n <= m
      /\ n \in DOMAIN program /\ n \in Nat /\ program[n].kind \in Leaf
      /\ n \in compiled \/ \A c \in compiled : c < n
  BY <1>1, NextStatement
<1>3. frames' \in Seq(Frame) /\ Passes(n) /\ Stays
  BY <1>1, <1>2, PassesFrames, Shapes
<1>4. frames' # <<>>
  BY <1>1, <1>3 DEF Stays, Typed
<1>5. Typed'
  <2>1. current' \in Seq(Function) /\ current' # <<>> /\ labels' \in [irFunctions(program') -> LabelState]
    BY <1>1 DEF Typed, irFunctions
  <2>2. irFunctions(program') = irFunctions(program)
    OBVIOUS
  <2> QED
    BY <1>1, <1>2, <1>3, <1>4, <2>1, <2>2 DEF Typed
<1>6. FramesNest'
  BY <1>1, <1>2, <1>3, PassesNest
<1>7. FunctionStack'
  BY <1>1, <1>3, SameFunctions
<1>8. LabelStack' /\ LabelsFresh' /\ LabelsUnique'
  BY <1>1, <1>3, <1>5, SameLoops
<1>9. program[n].kind \notin Container /\ program[n].kind # "function"
  BY <1>2 DEF Leaf, Container, Branching
<1>10. InOrder'
  BY <1>1, <1>2, <1>3, <1>9, PassesInOrder
<1>11. FunctionsAdded'
  <2>1. Closed' \subseteq Closed
    BY <1>1, <1>2, <1>3, <1>9, ClosedStays
  <2> QED
    BY <2>1, <1>1, <1>9, FunctionsStay DEF FunctionsOf
<1>12. \A e \in 1..Len(emitted') : emitted'[e].what = "loop" => ~(e > Len(emitted))
  BY DEF Extends
<1>13. EmittedRight'
  BY <1>1, <1>12, EmittedExtends
<1>14. ReadsInScope'
  BY <1>1, <1>2, ReadsExtend
<1>15. JumpsBind'
  <2>1. \A f : \A i \in LoopFrames(f) : StillOpen(f, i)
    <3>1. ~Pops
      BY <1>1, <1>3 DEF Pops, Stays, Typed
    <3> QED
      BY <3>1, <1>1, <1>3, LoopsStillOpen
  <2> QED
    BY <2>1, <1>1, JumpsStay
<1>16. JumpErrorJustified' /\ AtTheEnd'
  BY DEF JumpErrorJustified, AtTheEnd
<1> QED
  BY <1>5, <1>6, <1>7, <1>8, <1>10, <1>11, <1>13, <1>14, <1>15, <1>16 DEF IInv

(* A statement that holds others is entered.                               *)
LEMMA EnteringKeeps ==
  ASSUME IInv, NEW n, At(n, Container), NEW f \in Frame, f.node = n, f.block = 1, f.pass = 1, f.last = 0,
         frames' = Append(Passed(n), f), compiled' = compiled \cup {n},
         UNCHANGED <<program, locals, globals, wasm, status>>,
         current' \in Seq(Function), current' # <<>>, FunctionStack',
         program[n].kind = "function" => Key(program, n) \in functions,
         labels' \in [irFunctions(program) -> LabelState],
         Typed' => LabelStack' /\ LabelsFresh' /\ LabelsUnique',
         emitted' \in Seq(Instruction), Extends({"read"}),
         \A e \in 1..Len(emitted') : e > Len(emitted) => emitted'[e].node = n /\ ReadRight(emitted'[e])
  PROVE  IInv'
<1>1. /\ Typed /\ FramesNest /\ FunctionStack /\ LabelStack /\ LabelsFresh /\ LabelsUnique
      /\ InOrder /\ FunctionsAdded /\ LocalsDeclared /\ EmittedRight /\ ReadsInScope /\ JumpsBind
      /\ JumpErrorJustified /\ AtTheEnd
  BY DEF IInv
<1>2. /\ n \in Rest(Here) /\ \A m \in Rest(Here) : n <= m
      /\ n \in DOMAIN program /\ n \in Nat /\ program[n].kind \in Container
      /\ n \in compiled \/ \A c \in compiled : c < n
      /\ status.is = "running"
  BY <1>1, NextStatement
<1>3. frames' \in Seq(Frame) /\ Enters(n) /\ Pushes(n)
  BY <1>1, <1>2, EntersFrames, Shapes
<1>4. Typed'
  <2>1. frames' # <<>>
    <3>1. Len(frames') = Len(frames) + 1 /\ Len(frames) \in Nat
      BY <1>1, <1>3 DEF Pushes, Typed
    <3> QED
      BY <3>1
  <2> QED
    BY <2>1, <1>1, <1>2, <1>3 DEF Typed, irFunctions
<1>5. FramesNest'
  BY <1>1, <1>2, <1>3, EntersNest
<1>6. InOrder'
  BY <1>1, <1>2, <1>3, EntersInOrder
<1>7. FunctionsAdded'
  <2>1. Closed' \subseteq Closed
    BY <1>1, <1>3, ClosedStays
  <2> QED
    BY <2>1, <1>1, FunctionsStay DEF FunctionsOf
<1>8. program[n].kind # "let"
  BY <1>2 DEF Container, Branching
<1>9. LocalsDeclared'
  BY <1>1, <1>8, LocalsStay
<1>10. \A e \in 1..Len(emitted') : e > Len(emitted) => emitted'[e].what = "read"
  BY DEF Extends
<1>11. EmittedRight'
  BY <1>1, <1>10, EmittedExtends
<1>12. ReadsInScope'
  BY <1>1, <1>2, ReadsExtend
<1>13. JumpsBind'
  <2>1. \A g : \A i \in LoopFrames(g) : StillOpen(g, i)
    <3>1. ~Pops
      BY <1>1, <1>3 DEF Pops, Pushes, Typed
    <3> QED
      BY <3>1, <1>1, <1>3, LoopsStillOpen
  <2> QED
    BY <2>1, <1>1, <1>10, JumpsStay
<1>14. JumpErrorJustified' /\ AtTheEnd'
  BY <1>2 DEF JumpErrorJustified, AtTheEnd
<1> QED
  BY <1>4, <1>5, <1>6, <1>7, <1>9, <1>11, <1>12, <1>13, <1>14 DEF IInv

(* A statement that holds others is left.                                  *)
LEMMA LeavingKeeps ==
  ASSUME IInv, NEW kinds, AtEndOf(kinds), Leave,
         ~(Here.pass = 1 /\ program[Here.node].kind = "ifElseIf"),
         UNCHANGED <<program, locals, globals, compiled, status>>,
         current' \in Seq(Function), current' # <<>>, FunctionStack', FunctionsAdded',
         labels' \in [irFunctions(program) -> LabelState],
         Typed' => LabelStack' /\ LabelsFresh' /\ LabelsUnique',
         emitted' \in Seq(Instruction), Extends({"loop"}),
         program[Here.node].kind = "while" =>
           Home(Here.node) = currentFunction /\ NowEmitted(currentFunction, Len(frames)),
         \A e \in 1..Len(emitted') : e > Len(emitted) =>
           emitted'[e].node = Here.node /\ emitted'[e].in = Home(Here.node)
  PROVE  IInv'
<1>1. /\ Typed /\ FramesNest /\ FunctionStack /\ LabelStack /\ LabelsFresh /\ LabelsUnique
      /\ InOrder /\ FunctionsAdded /\ LocalsDeclared /\ EmittedRight /\ ReadsInScope /\ JumpsBind
      /\ JumpErrorJustified /\ AtTheEnd
  BY DEF IInv
<1>2. /\ Rest(Here) = {} /\ Len(frames) > 1 /\ program[Here.node].kind \in kinds
      /\ Here.node \in compiled /\ Here.node \in DOMAIN program
      /\ status.is = "running"
  BY <1>1, EndOfStatement
<1>3. frames' \in Seq(Frame) /\ frames' # <<>> /\ Leaves /\ Pops
  BY <1>1, <1>2, LeavesFrames, Shapes
<1>4. Typed'
  BY <1>1, <1>3 DEF Typed, irFunctions
<1>5. FramesNest'
  BY <1>1, <1>2, <1>3, LeavesNest
<1>6. InOrder'
  BY <1>1, <1>2, <1>3, LeavesInOrder
<1>7. LocalsDeclared'
  BY <1>1, LocalsStay
<1>8. EmittedRight'
  BY <1>1, <1>2, EmittedExtends
<1>9. ReadsInScope'
  BY <1>1, ReadsStay
<1>10. JumpsBind'
  <2>1. ASSUME NEW f, NEW i \in LoopFrames(f) PROVE StillOpen(f, i) \/ NowEmitted(f, i)
    <3>1. CASE i # Len(frames)
      BY <3>1, <1>1, <1>3, LoopsStillOpen
    <3>2. CASE i = Len(frames)
      <4>1. program[Here.node].kind = "while" /\ Home(Here.node) = f
        BY <3>2, <1>1, FrameTypes DEF LoopFrames
      <4> QED
        BY <4>1, <3>2
    <3> QED
      BY <3>1, <3>2
  <2>2. \A e \in 1..Len(emitted') : e > Len(emitted) => emitted'[e].what \notin {"break", "continue"}
    BY DEF Extends
  <2> QED
    BY <2>1, <2>2, <1>1, JumpsStay
<1>11. JumpErrorJustified' /\ AtTheEnd'
  BY <1>2 DEF JumpErrorJustified, AtTheEnd
<1> QED
  BY <1>4, <1>5, <1>6, <1>7, <1>8, <1>9, <1>10, <1>11 DEF IInv

LEMMA ElseKeeps ==
  ASSUME IInv, Else
  PROVE  IInv'
<1>1. /\ Typed /\ FramesNest /\ FunctionStack /\ LabelStack /\ LabelsFresh /\ LabelsUnique
      /\ InOrder /\ FunctionsAdded /\ LocalsDeclared /\ EmittedRight /\ ReadsInScope /\ JumpsBind
      /\ JumpErrorJustified /\ AtTheEnd
  BY DEF IInv
<1>2. UNCHANGED <<program, current, resolving, labels, locals, globals, wasm, emitted, compiled, status>>
  BY DEF Else, state
<1>3. status.is = "running"
  BY DEF Else, AtEndOf
<1>4. frames' \in Seq(Frame) /\ GoesToElse /\ Stays
  BY <1>1, ElseFrames, Shapes
<1>5. Typed'
  <2>1. frames' # <<>>
    BY <1>1, <1>4 DEF Stays, Typed
  <2> QED
    BY <2>1, <1>1, <1>2, <1>4 DEF Typed, irFunctions
<1>6. FramesNest'
  BY <1>1, <1>2, <1>4, ElseNests
<1>7. FunctionStack'
  BY <1>1, <1>2, <1>4, SameFunctions
<1>8. emitted' \in Seq(Instruction) /\ (\A kinds : Extends(kinds)) /\ \A e \in 1..Len(emitted') : ~(e > Len(emitted))
  BY <1>1, <1>2, NothingExtends
<1>9. LabelStack' /\ LabelsFresh' /\ LabelsUnique'
  BY <1>1, <1>2, <1>4, <1>5, <1>8, SameLoops
<1>10. InOrder'
  BY <1>1, <1>2, <1>4, ElseInOrder
<1>11. FunctionsAdded'
  <2>1. Closed' \subseteq Closed
    BY <1>1, <1>2, <1>4, ClosedStays
  <2> QED
    BY <2>1, <1>1, <1>2, FunctionsStay
<1>12. LocalsDeclared'
  BY <1>1, <1>2, LocalsStay
<1>13. EmittedRight'
  BY <1>1, <1>2, <1>8, EmittedExtends
<1>14. ReadsInScope'
  <2>1. Extends({}) /\ "read" \notin {}
    BY <1>8
  <2> QED
    BY <2>1, <1>1, <1>2, <1>8, ReadsStay
<1>15. JumpsBind'
  <2>1. \A f : \A i \in LoopFrames(f) : StillOpen(f, i)
    <3>1. ~Pops
      BY <1>1, <1>4 DEF Pops, Stays, Typed
    <3> QED
      BY <3>1, <1>1, <1>2, <1>4, LoopsStillOpen
  <2> QED
    BY <2>1, <1>1, <1>2, <1>8, JumpsStay
<1>16. JumpErrorJustified' /\ AtTheEnd'
  BY <1>2, <1>3 DEF JumpErrorJustified, AtTheEnd
<1> QED
  BY <1>5, <1>6, <1>7, <1>9, <1>10, <1>11, <1>12, <1>13, <1>14, <1>15, <1>16 DEF IInv

(* Only the status changes, and the functions of the module.               *)
LEMMA StatusKeeps ==
  ASSUME IInv, UNCHANGED <<program, frames, current, resolving, labels, locals, globals, emitted, compiled>>,
         status'.is \in Outcome, FunctionsAdded', JumpErrorJustified', AtTheEnd'
  PROVE  IInv'
<1>1. /\ Typed /\ FramesNest /\ FunctionStack /\ LabelStack /\ LabelsFresh /\ LabelsUnique
      /\ InOrder /\ LocalsDeclared /\ EmittedRight /\ ReadsInScope /\ JumpsBind
  BY DEF IInv
<1>2. /\ \A n, a : Inside(n, a)' = Inside(n, a)
      /\ \A n : Home(n)' = Home(n) /\ LoopAround(n)' = LoopAround(n)
      /\ functions' = functions
  BY Static
<1>3. Typed'
  BY <1>1 DEF Typed, irFunctions
<1>4. FramesNest'
  BY <1>1, <1>2 DEF FramesNest, FrameRight, NestedIn
<1>5. FunctionStack'
  BY <1>1, <1>2 DEF FunctionStack, OpenFunctions, FunctionOf, currentFunction
<1>6. \A f : LoopFrames(f)' = LoopFrames(f)
  BY <1>2 DEF LoopFrames
<1>7. \A what : Emitted(what)' = Emitted(what)
  BY DEF Emitted
<1>8. LabelStack' /\ LabelsFresh' /\ LabelsUnique'
  BY <1>1, <1>6, <1>7 DEF LabelStack, LabelsFresh, LabelsUnique, irFunctions
<1>9. InOrder'
  BY <1>1 DEF InOrder, Remaining, Reached
<1>10. LocalsDeclared' /\ EmittedRight' /\ ReadsInScope'
  BY <1>1, <1>2, <1>7 DEF LocalsDeclared, EmittedRight, ReadsInScope
<1>11. JumpsBind'
  BY <1>1, <1>2, <1>6, <1>7 DEF JumpsBind, JumpBinds, Flat, FunctionsOf, Prepared, TopLevel, ClassesOf
<1> QED
  BY <1>3, <1>4, <1>5, <1>8, <1>9, <1>10, <1>11 DEF IInv

LEMMA RaiseKeeps ==
  ASSUME IInv, NEW what \in Outcome \ {"done"}, NEW n, Raise(what, n),
         what = "JumpStatementError" => LoopAround(n) = {}
  PROVE  IInv'
<1>1. /\ UNCHANGED <<program, frames, current, resolving, labels, locals, globals, wasm, emitted, compiled>>
      /\ status'.is = what /\ status'.at = n
  BY DEF Raise, state
<1>2. FunctionsAdded
  BY DEF IInv
<1>3. functions' = functions /\ constructors' = constructors /\ LoopAround(n)' = LoopAround(n)
  BY <1>1, Static
<1>4. FunctionsAdded'
  BY <1>1, <1>2, <1>3 DEF FunctionsAdded, Closed, FunctionsOf
<1>5. JumpErrorJustified' /\ AtTheEnd'
  <2>1. what = "JumpStatementError" => LoopAround(status.at)' = {}
    BY <1>1, <1>3 DEF LoopAround, FunctionAround, Inside
  <2> QED
    BY <2>1, <1>1 DEF JumpErrorJustified, AtTheEnd
<1> QED
  BY <1>1, <1>4, <1>5, StatusKeeps

LEMMA RaisingKeeps ==
  ASSUME IInv, NEW n \in DOMAIN program,
         \/ Unreadable(n) \/ JumpOutsideLoop(n) \/ FunctionNotPrepared(n) \/ ClassRefused(n)
  PROVE  IInv'
<1>1. Typed /\ FramesNest /\ FunctionStack /\ LabelStack /\ InOrder
  BY DEF IInv
<1>2. {"CannotResolveSymbol", "runtime_error", "TypeConvertError", "assert", "UnknownSymbol", "Fatal"}
        \subseteq Outcome \ {"done", "JumpStatementError"}
  BY DEF Outcome
<1>3. ASSUME NEW what \in Outcome \ {"done", "JumpStatementError"}, NEW m, Raise(what, m) PROVE IInv'
  BY <1>3, RaiseKeeps
<1>4. CASE Unreadable(n)
  BY <1>2, <1>3, <1>4 DEF Unreadable
<1>5. CASE JumpOutsideLoop(n)
  <2>1. PICK kind \in {"break", "continue"} :
          At(n, {kind}) /\ StackOf(kind) = <<>> /\ Raise("JumpStatementError", n)
    BY <1>5 DEF JumpOutsideLoop
  <2>2. LoopFrames(currentFunction) = {}
    BY <2>1, <1>1, OpenLoops
  <2>3. program[n].parent = Here.node
    BY <2>1, <1>1, NextStatement
  <2>4. LoopAround(n) = {}
    BY <2>2, <2>3, <1>1, NoLoopAround
  <2>5. "JumpStatementError" \in Outcome \ {"done"}
    BY DEF Outcome
  <2> QED
    BY <2>1, <2>4, <2>5, RaiseKeeps
<1>6. CASE FunctionNotPrepared(n)
  BY <1>2, <1>3, <1>6 DEF FunctionNotPrepared
<1>7. CASE ClassRefused(n)
  BY <1>2, <1>3, <1>7 DEF ClassRefused
<1> QED
  BY <1>4, <1>5, <1>6, <1>7

LEMMA FunctionAddedTwiceKeeps ==
  ASSUME IInv, FunctionAddedTwice
  PROVE  IInv'
<1>1. Raise("Fatal", Here.node) /\ "Fatal" \in Outcome \ {"done"}
  BY DEF FunctionAddedTwice, Outcome
<1> QED
  BY <1>1, RaiseKeeps

LEMMA FinishKeeps ==
  ASSUME IInv, Finish
  PROVE  IInv'
<1>1. /\ UNCHANGED <<program, frames, current, resolving, labels, locals, globals, emitted, compiled>>
      /\ wasm' = wasm \cup {Start} /\ status'.is = "done"
      /\ Rest(Here) = {} /\ Here.node = 0
  BY DEF Finish
<1>2. FunctionsAdded
  BY DEF IInv
<1>3. functions' = functions /\ constructors' = constructors
  BY <1>1, Static
<1>4. FunctionsAdded'
  BY <1>1, <1>2, <1>3 DEF FunctionsAdded, Closed, FunctionsOf
<1>5. JumpErrorJustified' /\ AtTheEnd'
  BY <1>1 DEF JumpErrorJustified, AtTheEnd, Here, Rest
<1>6. status'.is \in Outcome
  BY <1>1 DEF Outcome
<1> QED
  BY <1>1, <1>4, <1>5, <1>6, StatusKeeps

LEMMA NothingKeeps ==
  ASSUME IInv, UNCHANGED vars
  PROVE  IInv'
<1>1. UNCHANGED <<program, frames, current, resolving, labels, locals, globals, wasm, emitted, compiled, status>>
  BY DEF vars, state
<1>2. Typed /\ FunctionsAdded /\ JumpErrorJustified /\ AtTheEnd
  BY DEF IInv
<1>3. functions' = functions /\ constructors' = constructors
  BY <1>1, Static
<1>4. FunctionsAdded'
  BY <1>1, <1>2, <1>3 DEF FunctionsAdded, Closed, FunctionsOf
<1>5. JumpErrorJustified' /\ AtTheEnd'
  BY <1>1, <1>2 DEF JumpErrorJustified, LoopAround, FunctionAround, Inside, AtTheEnd, Here, Rest
<1> QED
  BY <1>1, <1>2, <1>4, <1>5, StatusKeeps DEF Typed

-----------------------------------------------------------------------------
(* The actions, one by one.                                                *)

LEMMA DeclareKeeps ==
  ASSUME IInv, NEW n \in DOMAIN program, CompileDeclare(n)
  PROVE  IInv'
<1>1. /\ Typed /\ FramesNest /\ FunctionStack /\ InOrder /\ LocalsDeclared
  BY DEF IInv
<1>2. /\ At(n, {"let"}) /\ frames' = Passed(n) /\ compiled' = compiled \cup {n}
      /\ emitted' = emitted \o Read(n)
      /\ UNCHANGED <<program, current, resolving, labels, wasm>>
      /\ DeclareGlobal(n) \/ DeclareGlobalTwice(n) \/ DeclareLocal(n)
  BY DEF CompileDeclare
<1>3. At(n, Leaf)
  BY <1>2 DEF At, Leaf
<1>4. /\ program[n].kind = "let" /\ program[n].parent = Here.node /\ program[n] \in Statement
      /\ status.is = "running"
  BY <1>1, <1>2, NextStatement
<1>5. Home(n) = currentFunction /\ currentFunction \in irFunctions(program)
  BY <1>1, <1>4, ChildIsHome, FunctionsAreThere
<1>6. program[n].name \in Names /\ program[n].name \in Word
  BY <1>1, <1>4 DEF Typed, WellFormed, Word
<1>7. /\ locals' \in [irFunctions(program) -> Seq(Word)] /\ globals' \subseteq Names /\ LocalsDeclared'
      /\ status'.is \in Outcome \ {"done", "JumpStatementError"}
  <2>1. /\ locals \in [irFunctions(program) -> Seq(Word)] /\ globals \subseteq Names
        /\ "running" \in Outcome \ {"done", "JumpStatementError"}
        /\ "Fatal" \in Outcome \ {"done", "JumpStatementError"}
    BY <1>1 DEF Typed, Outcome
  <2>2. CASE DeclareGlobal(n)
    <3>1. locals' = locals /\ globals' = globals \cup {program[n].name} /\ status' = status /\ Home(n) = Start
      BY <2>2, <1>5 DEF DeclareGlobal
    <3>2. LocalsDeclared'
      BY <3>1, <1>1, <1>2, LocalsStay
    <3> QED
      BY <3>1, <3>2, <2>1, <1>4, <1>6
  <2>3. CASE DeclareGlobalTwice(n)
    <3>1. locals' = locals /\ globals' = globals /\ status'.is = "Fatal" /\ Home(n) = Start
      BY <2>3, <1>5 DEF DeclareGlobalTwice
    <3>2. LocalsDeclared'
      BY <3>1, <1>1, <1>2, LocalsStay
    <3> QED
      BY <3>1, <3>2, <2>1
  <2>4. CASE DeclareLocal(n)
    <3>1. /\ locals' = [locals EXCEPT ![currentFunction] = Append(@, program[n].name)]
          /\ globals' = globals /\ status' = status
      BY <2>4 DEF DeclareLocal
    <3>2. LocalsDeclared'
      BY <3>1, <1>1, <1>2, <1>5, LocalDeclared
    <3>3. Append(locals[currentFunction], program[n].name) \in Seq(Word)
      BY <2>1, <1>5, <1>6
    <3> QED
      BY <3>1, <3>2, <3>3, <2>1, <1>4
  <2> QED
    BY <2>2, <2>3, <2>4, <1>2
<1>8. /\ emitted' \in Seq(Instruction) /\ Extends({"read", "break", "continue"})
      /\ \A e \in 1..Len(emitted') : e > Len(emitted) =>
           emitted'[e].what = "read" /\ emitted'[e].node = n /\ ReadRight(emitted'[e])
  BY <1>1, <1>2, <1>4, ReadExtends, ExtendsMore, NewRead
<1> QED
  BY <1>2, <1>3, <1>7, <1>8, LeafKeeps

LEMMA ExpressionKeeps ==
  ASSUME IInv, NEW n \in DOMAIN program, CompileExpression(n)
  PROVE  IInv'
<1>1. /\ Typed /\ FramesNest /\ FunctionStack /\ InOrder /\ LocalsDeclared
  BY DEF IInv
<1>2. /\ At(n, {"expression"}) /\ frames' = Passed(n) /\ compiled' = compiled \cup {n}
      /\ emitted' = emitted \o Read(n)
      /\ UNCHANGED <<program, current, resolving, labels, locals, globals, wasm, status>>
  BY DEF CompileExpression, state
<1>3. At(n, Leaf)
  BY <1>2 DEF At, Leaf
<1>4. program[n].kind = "expression" /\ program[n].parent = Here.node /\ status.is = "running"
  BY <1>1, <1>2, NextStatement
<1>5. /\ locals' \in [irFunctions(program) -> Seq(Word)] /\ globals' \subseteq Names
      /\ status'.is \in Outcome \ {"done", "JumpStatementError"}
  BY <1>1, <1>2, <1>4 DEF Typed, Outcome
<1>6. LocalsDeclared'
  BY <1>1, <1>2, <1>4, LocalsStay
<1>7. /\ emitted' \in Seq(Instruction) /\ Extends({"read", "break", "continue"})
      /\ \A e \in 1..Len(emitted') : e > Len(emitted) =>
           emitted'[e].what = "read" /\ emitted'[e].node = n /\ ReadRight(emitted'[e])
  BY <1>1, <1>2, <1>4, ReadExtends, ExtendsMore, NewRead
<1> QED
  BY <1>2, <1>3, <1>5, <1>6, <1>7, LeafKeeps

LEMMA JumpKeeps ==
  ASSUME IInv, NEW n \in DOMAIN program, CompileJump(n)
  PROVE  IInv'
<1>1. /\ Typed /\ FramesNest /\ FunctionStack /\ LabelStack /\ InOrder /\ LocalsDeclared
  BY DEF IInv
<1>2. PICK kind \in {"break", "continue"} :
        /\ At(n, {kind}) /\ StackOf(kind) # <<>> /\ frames' = Passed(n) /\ compiled' = compiled \cup {n}
        /\ emitted' = Append(emitted, [what |-> kind, node |-> n, label |-> Last(StackOf(kind))])
        /\ UNCHANGED <<program, current, resolving, labels, locals, globals, wasm, status>>
  BY DEF CompileJump, state
<1>3. At(n, Leaf)
  BY <1>2 DEF At, Leaf
<1>4. program[n].kind = kind /\ program[n].parent = Here.node /\ status.is = "running" /\ n \in Nat
  BY <1>1, <1>2, NextStatement
<1>5. /\ locals' \in [irFunctions(program) -> Seq(Word)] /\ globals' \subseteq Names
      /\ status'.is \in Outcome \ {"done", "JumpStatementError"}
  BY <1>1, <1>2, <1>4 DEF Typed, Outcome
<1>6. LocalsDeclared'
  BY <1>1, <1>2, <1>4, LocalsStay
<1> DEFINE r == [what |-> kind, node |-> n, label |-> Last(StackOf(kind))]
<1>7. Last(StackOf(kind)) \in Nat
  <2>1. currentFunction \in irFunctions(program)
    BY <1>1, FunctionsAreThere
  <2>2. labels[currentFunction].break \in Seq(Nat) /\ labels[currentFunction].continue \in Seq(Nat)
    BY <1>1, <2>1, LabelTypes
  <2>3. StackOf(kind) \in Seq(Nat)
    BY <2>2 DEF StackOf
  <2> QED
    BY <2>3, <1>2 DEF Last
<1>8. r \in Instruction /\ r.what = kind /\ r.node = n /\ r.label = Last(StackOf(kind))
  BY <1>4, <1>7 DEF Instruction
<1>9. Flat => JumpBinds(r)
  BY <1>1, <1>2, <1>4, <1>8, NewJump
<1> HIDE DEF r
<1>10. /\ emitted' \in Seq(Instruction) /\ Extends({kind})
       /\ \A e \in 1..Len(emitted') : e > Len(emitted) => emitted'[e] = r
  BY <1>1, <1>2, <1>8, AppendExtends DEF r
<1>11. Extends({"read", "break", "continue"})
  BY <1>10, ExtendsMore
<1>12. \A e \in 1..Len(emitted') : e > Len(emitted) =>
         /\ emitted'[e].node = n /\ emitted'[e].what # "read"
         /\ Flat => JumpBinds(emitted'[e])
  BY <1>8, <1>9, <1>10
<1> QED
  BY <1>2, <1>3, <1>5, <1>6, <1>10, <1>11, <1>12, LeafKeeps

LEMMA NewFrameTypes ==
  ASSUME NEW n \in Nat
  PROVE  /\ NewFrame(n) \in Frame /\ NewFrame(n).node = n
         /\ NewFrame(n).block = 1 /\ NewFrame(n).pass = 1 /\ NewFrame(n).last = 0
BY DEF NewFrame, Frame

(* Blocks, ifs and classes bind nothing.                                   *)
LEMMA EnteringPlainKeeps ==
  ASSUME IInv, NEW n, At(n, Container \ {"while", "function"}), Enter(n),
         UNCHANGED <<program, current, resolving, labels, locals, globals, wasm, status>>,
         emitted' \in Seq(Instruction), Extends({"read"}),
         \A e \in 1..Len(emitted') : e > Len(emitted) => emitted'[e].node = n /\ ReadRight(emitted'[e])
  PROVE  IInv'
<1>1. /\ Typed /\ FramesNest /\ FunctionStack /\ LabelStack /\ LabelsFresh /\ LabelsUnique /\ InOrder
  BY DEF IInv
<1>2. /\ n \in DOMAIN program /\ n \in Nat /\ program[n].kind \notin {"while", "function"}
  BY <1>1, NextStatement
<1>3. frames' = Append(Passed(n), NewFrame(n)) /\ compiled' = compiled \cup {n} /\ At(n, Container)
  BY DEF Enter, At
<1>4. /\ NewFrame(n) \in Frame /\ NewFrame(n).node = n
      /\ NewFrame(n).block = 1 /\ NewFrame(n).pass = 1 /\ NewFrame(n).last = 0
  BY <1>2, NewFrameTypes
<1>5. frames' \in Seq(Frame) /\ Enters(n) /\ Pushes(n)
  BY <1>1, <1>2, <1>3, <1>4, EntersFrames, Shapes
<1>6. FunctionStack'
  BY <1>1, <1>2, <1>5, SameFunctions
<1>7. Extends({"read", "break", "continue"})
  BY ExtendsMore
<1>8. Typed' => LabelStack' /\ LabelsFresh' /\ LabelsUnique'
  BY <1>1, <1>2, <1>5, <1>7, SameLoops
<1>9. /\ current' \in Seq(Function) /\ current' # <<>> /\ labels' \in [irFunctions(program) -> LabelState]
  BY <1>1 DEF Typed
<1> QED
  BY <1>2, <1>3, <1>4, <1>6, <1>8, <1>9, EnteringKeeps

LEMMA EnterBlockKeeps ==
  ASSUME IInv, NEW n \in DOMAIN program, EnterBlock(n) \/ EnterClass(n)
  PROVE  IInv'
<1>1. Typed
  BY DEF IInv
<1>2. /\ At(n, Container \ {"while", "function"}) /\ Enter(n)
      /\ UNCHANGED <<program, current, resolving, labels, locals, globals, wasm, emitted, status>>
  BY DEF EnterBlock, EnterClass, At, Container, Branching, state
<1>3. /\ emitted' \in Seq(Instruction) /\ Extends({"read"})
      /\ \A e \in 1..Len(emitted') : ~(e > Len(emitted))
  BY <1>1, <1>2, NothingExtends
<1> QED
  BY <1>2, <1>3, EnteringPlainKeeps

LEMMA EnterIfKeeps ==
  ASSUME IInv, NEW n \in DOMAIN program, EnterIf(n)
  PROVE  IInv'
<1>1. Typed /\ FramesNest /\ FunctionStack /\ InOrder /\ LocalsDeclared
  BY DEF IInv
<1>2. /\ At(n, Container \ {"while", "function"}) /\ Enter(n) /\ emitted' = emitted \o Read(n)
      /\ UNCHANGED <<program, current, resolving, labels, locals, globals, wasm, status>>
  BY DEF EnterIf, At, Container, Branching, state
<1>3. program[n].parent = Here.node
  BY <1>1, <1>2, NextStatement
<1>4. /\ emitted' \in Seq(Instruction) /\ Extends({"read"})
      /\ \A e \in 1..Len(emitted') : e > Len(emitted) => emitted'[e].node = n /\ ReadRight(emitted'[e])
  BY <1>1, <1>2, <1>3, ReadExtends, NewRead
<1> QED
  BY <1>2, <1>4, EnteringPlainKeeps

LEMMA EnterWhileKeeps ==
  ASSUME IInv, NEW n \in DOMAIN program, EnterWhile(n)
  PROVE  IInv'
<1> DEFINE l == labels[currentFunction]
           f == [NewFrame(n) EXCEPT !.breakLabel = l.breakIndex, !.continueLabel = l.continueIndex]
           l2 == [break |-> Append(l.break, l.breakIndex), breakIndex |-> l.breakIndex + 1,
                  continue |-> Append(l.continue, l.continueIndex), continueIndex |-> l.continueIndex + 1]
<1>1. /\ Typed /\ FramesNest /\ FunctionStack /\ LabelStack /\ LabelsFresh /\ LabelsUnique
      /\ InOrder /\ LocalsDeclared
  BY DEF IInv
<1>2. /\ At(n, {"while"}) /\ frames' = Append(Passed(n), f) /\ compiled' = compiled \cup {n}
      /\ labels' = [labels EXCEPT ![currentFunction] = l2]
      /\ emitted' = emitted \o Read(n)
      /\ UNCHANGED <<program, current, resolving, locals, globals, wasm, status>>
  BY DEF EnterWhile
<1>3. program[n].kind = "while" /\ program[n].parent = Here.node /\ n \in Nat
  BY <1>1, <1>2, NextStatement
<1>4. At(n, Container)
  BY <1>2 DEF At, Container
<1>5. /\ currentFunction \in irFunctions(program)
      /\ l.break \in Seq(Nat) /\ l.continue \in Seq(Nat) /\ l.breakIndex \in Nat /\ l.continueIndex \in Nat
  BY <1>1, FunctionsAreThere, LabelTypes
<1>6. /\ f \in Frame /\ f.node = n /\ f.block = 1 /\ f.pass = 1 /\ f.last = 0
      /\ f.breakLabel = l.breakIndex /\ f.continueLabel = l.continueIndex
  BY <1>3, <1>5, NewFrameTypes DEF Frame
<1>7. /\ l2 \in LabelState
      /\ l2.break = Append(l.break, l.breakIndex) /\ l2.continue = Append(l.continue, l.continueIndex)
      /\ l2.breakIndex = l.breakIndex + 1 /\ l2.continueIndex = l.continueIndex + 1
  <2>1. Append(l.break, l.breakIndex) \in Seq(Nat) /\ Append(l.continue, l.continueIndex) \in Seq(Nat)
    BY <1>5
  <2>2. l.breakIndex + 1 \in Nat /\ l.continueIndex + 1 \in Nat
    BY <1>5
  <2> HIDE DEF l
  <2> QED
    BY <2>1, <2>2 DEF LabelState
<1> HIDE DEF f, l2
<1>8. /\ labels' \in [irFunctions(program) -> LabelState] /\ labels'[currentFunction] = l2
      /\ \A g \in irFunctions(program) : g # currentFunction => labels'[g] = labels[g]
  BY <1>1, <1>2, <1>5, <1>7 DEF Typed
<1>9. frames' \in Seq(Frame) /\ Enters(n) /\ Pushes(n) /\ frames'[Len(frames) + 1] = f
  BY <1>1, <1>2, <1>3, <1>6, EntersFrames, Shapes
<1>10. /\ emitted' \in Seq(Instruction) /\ Extends({"read"}) /\ Extends({"read", "break", "continue"})
       /\ \A e \in 1..Len(emitted') : e > Len(emitted) => emitted'[e].node = n /\ ReadRight(emitted'[e])
  <2>1. /\ emitted' \in Seq(Instruction) /\ Extends({"read"})
        /\ \A e \in 1..Len(emitted') : e > Len(emitted) =>
             emitted'[e].node = n /\ emitted'[e].from = Variable(program[n].var)
    BY <1>1, <1>2, <1>3, ReadExtends
  <2>2. {"read"} \subseteq {"read", "break", "continue"}
    OBVIOUS
  <2>3. \A e \in 1..Len(emitted') : e > Len(emitted) => ReadRight(emitted'[e])
    BY <2>1, <1>1, <1>3, NewRead
  <2> QED
    BY <2>1, <2>2, <2>3, ExtendsMore
<1>11. Typed' => LabelStack' /\ LabelsFresh' /\ LabelsUnique'
  <2> SUFFICES ASSUME Typed' PROVE LabelStack' /\ LabelsFresh' /\ LabelsUnique'
    OBVIOUS
  <2> QED
    BY <1>1, <1>2, <1>3, <1>6, <1>7, <1>8, <1>9, <1>10, LoopPushed
<1>12. FunctionStack'
  BY <1>1, <1>2, <1>3, <1>9, SameFunctions
<1>13. current' \in Seq(Function) /\ current' # <<>>
  BY <1>1, <1>2 DEF Typed
<1>14. /\ frames' = Append(Passed(n), f) /\ compiled' = compiled \cup {n}
       /\ UNCHANGED <<program, locals, globals, wasm, status>>
       /\ program[n].kind # "function"
  BY <1>2, <1>3
<1>15. labels' \in [irFunctions(program) -> LabelState]
  BY <1>8
<1>16. /\ f \in Frame /\ f.node = n /\ f.block = 1 /\ f.pass = 1 /\ f.last = 0
  BY <1>6
<1> QED
  BY <1>4, <1>10, <1>11, <1>12, <1>13, <1>14, <1>15, <1>16, EnteringKeeps

LEMMA EnterFunctionKeeps ==
  ASSUME IInv, NEW n \in DOMAIN program, EnterFunction(n)
  PROVE  IInv'
<1>1. /\ Typed /\ FramesNest /\ FunctionStack /\ LabelStack /\ LabelsFresh /\ LabelsUnique /\ InOrder
  BY DEF IInv
<1>2. /\ At(n, {"function"}) /\ Key(program, n) \in functions
      /\ frames' = Append(Passed(n), NewFrame(n)) /\ compiled' = compiled \cup {n}
      /\ current' = Append(current, Key(program, n)) /\ resolving' = Key(program, n)
      /\ UNCHANGED <<program, labels, locals, globals, wasm, emitted, status>>
  BY DEF EnterFunction, Enter
<1>3. program[n].kind = "function" /\ n \in Nat
  BY <1>1, <1>2, NextStatement
<1>4. At(n, Container)
  BY <1>2 DEF At, Container
<1>5. /\ NewFrame(n) \in Frame /\ NewFrame(n).node = n
      /\ NewFrame(n).block = 1 /\ NewFrame(n).pass = 1 /\ NewFrame(n).last = 0
  BY <1>3, NewFrameTypes
<1>6. frames' \in Seq(Frame) /\ Enters(n) /\ Pushes(n)
  BY <1>1, <1>2, <1>3, <1>5, EntersFrames, Shapes
<1>7. FunctionStack' /\ current' \in Seq(Function) /\ current' # <<>>
  BY <1>1, <1>2, <1>3, <1>6, FunctionPushed
<1>8. /\ emitted' \in Seq(Instruction) /\ Extends({"read"}) /\ Extends({"read", "break", "continue"})
      /\ \A e \in 1..Len(emitted') : ~(e > Len(emitted))
  BY <1>1, <1>2, NothingExtends
<1>9. Typed' => LabelStack' /\ LabelsFresh' /\ LabelsUnique'
  BY <1>1, <1>2, <1>3, <1>6, <1>8, SameLoops
<1>10. labels' \in [irFunctions(program) -> LabelState]
  BY <1>1, <1>2 DEF Typed
<1> QED
  BY <1>2, <1>4, <1>5, <1>7, <1>8, <1>9, <1>10, EnteringKeeps

LEMMA LeavingPlainKeeps ==
  ASSUME IInv, LeaveBlock \/ LeaveIf \/ LeaveClass
  PROVE  IInv'
<1>1. /\ Typed /\ FramesNest /\ FunctionStack /\ LabelStack /\ LabelsFresh /\ LabelsUnique /\ FunctionsAdded
  BY DEF IInv
<1>2. /\ Leave /\ AtEndOf(Container \ {"while", "function"})
      /\ UNCHANGED <<program, current, resolving, labels, locals, globals, wasm, emitted, compiled, status>>
  BY DEF LeaveBlock, LeaveIf, LeaveClass, AtEndOf, Container, Branching, state
<1>3. ~(Here.pass = 1 /\ program[Here.node].kind = "ifElseIf")
  BY DEF LeaveBlock, LeaveIf, LeaveClass, AtEndOf, HasElse
<1>4. Len(frames) > 1 /\ program[Here.node].kind \notin {"while", "function"}
  BY <1>1, <1>2, EndOfStatement
<1>5. frames' \in Seq(Frame) /\ Pops
  BY <1>1, <1>2, <1>4, LeavesFrames, Shapes
<1>6. FunctionStack'
  BY <1>1, <1>2, <1>4, <1>5, SameFunctions
<1>7. FunctionsAdded'
  <2>1. Closed' \subseteq Closed
    BY <1>1, <1>2, <1>4, <1>5, ClosedStays
  <2> QED
    BY <2>1, <1>1, <1>2, FunctionsStay
<1>8. /\ emitted' \in Seq(Instruction) /\ Extends({"loop"}) /\ Extends({"read", "break", "continue"})
      /\ \A e \in 1..Len(emitted') : ~(e > Len(emitted))
  BY <1>1, <1>2, NothingExtends
<1>9. Typed' => LabelStack' /\ LabelsFresh' /\ LabelsUnique'
  BY <1>1, <1>2, <1>4, <1>5, <1>8, SameLoops
<1>10. /\ current' \in Seq(Function) /\ current' # <<>> /\ labels' \in [irFunctions(program) -> LabelState]
  BY <1>1, <1>2 DEF Typed
<1> QED
  BY <1>2, <1>3, <1>4, <1>6, <1>7, <1>8, <1>9, <1>10, LeavingKeeps

LEMMA LeaveFunctionKeeps ==
  ASSUME IInv, LeaveFunction
  PROVE  IInv'
<1>1. /\ Typed /\ FramesNest /\ FunctionStack /\ LabelStack /\ LabelsFresh /\ LabelsUnique /\ FunctionsAdded
  BY DEF IInv
<1>2. /\ Leave /\ AtEndOf({"function"}) /\ currentFunction \notin wasm
      /\ wasm' = wasm \cup {currentFunction} /\ current' = Front(current) /\ resolving' = ResolvingAfter
      /\ UNCHANGED <<program, labels, locals, globals, emitted, compiled, status>>
  BY DEF LeaveFunction, WithFunction
<1>3. Len(frames) > 1 /\ program[Here.node].kind = "function"
  BY <1>1, <1>2, EndOfStatement
<1>4. frames' \in Seq(Frame) /\ Pops
  BY <1>1, <1>2, <1>3, LeavesFrames, Shapes
<1>5. /\ FunctionStack' /\ current' \in Seq(Function) /\ current' # <<>>
      /\ currentFunction = Key(program, Here.node)
  BY <1>1, <1>2, <1>3, <1>4, FunctionPopped
<1>6. FunctionsAdded'
  BY <1>1, <1>2, <1>3, <1>4, <1>5, FunctionAdded
<1>7. /\ emitted' \in Seq(Instruction) /\ Extends({"loop"}) /\ Extends({"read", "break", "continue"})
      /\ \A e \in 1..Len(emitted') : ~(e > Len(emitted))
  BY <1>1, <1>2, NothingExtends
<1>8. Typed' => LabelStack' /\ LabelsFresh' /\ LabelsUnique'
  BY <1>1, <1>2, <1>3, <1>4, <1>7, SameLoops
<1>9. labels' \in [irFunctions(program) -> LabelState]
  BY <1>1, <1>2 DEF Typed
<1> QED
  BY <1>2, <1>3, <1>5, <1>6, <1>7, <1>8, <1>9, LeavingKeeps

LEMMA LeaveWhileKeeps ==
  ASSUME IInv, LeaveWhile
  PROVE  IInv'
<1> DEFINE f == currentFunction
           r == [what |-> "loop", node |-> Here.node, in |-> f,
                 break |-> Here.breakLabel, continue |-> Here.continueLabel]
           l == labels[f]
           l2 == [l EXCEPT !.break = Front(@), !.continue = Front(@)]
<1>1. /\ Typed /\ FramesNest /\ FunctionStack /\ LabelStack /\ LabelsFresh /\ LabelsUnique /\ FunctionsAdded
  BY DEF IInv
<1>2. /\ Leave /\ AtEndOf({"while"}) /\ labels' = [labels EXCEPT ![f] = l2]
      /\ emitted' = Append(emitted, r)
      /\ UNCHANGED <<program, current, resolving, locals, globals, wasm, compiled, status>>
  BY DEF LeaveWhile, Freed
<1>3. Len(frames) > 1 /\ program[Here.node].kind = "while"
  BY <1>1, <1>2, EndOfStatement
<1>4. frames' \in Seq(Frame) /\ Pops
  BY <1>1, <1>2, <1>3, LeavesFrames, Shapes
<1>5. /\ f \in irFunctions(program) /\ f \in Function /\ l \in LabelState
      /\ l.break \in Seq(Nat) /\ l.continue \in Seq(Nat) /\ l.breakIndex \in Nat /\ l.continueIndex \in Nat
  BY <1>1, FunctionsAreThere, LabelTypes
<1>6. Home(Here.node) = f
  BY <1>1, <1>3, HereIsHome
<1>7. StackOf("break") # <<>> /\ StackOf("continue") # <<>>
  <2>1. Len(frames) \in LoopFrames(f)
    BY <1>1, <1>3, <1>6, FrameTypes DEF LoopFrames
  <2> QED
    BY <2>1, <1>1, OpenLoops
<1>8. Front(l.break) \in Seq(Nat) /\ Front(l.continue) \in Seq(Nat)
  <2>1. l.break # <<>> /\ l.continue # <<>>
    BY <1>7 DEF StackOf
  <2>2. ASSUME NEW q \in Seq(Nat), q # <<>> PROVE Front(q) \in Seq(Nat)
    BY <2>2 DEF Front
  <2> QED
    BY <2>1, <2>2, <1>5
<1>9. /\ l2 \in LabelState /\ l2.break = Front(l.break) /\ l2.continue = Front(l.continue)
      /\ l2.breakIndex = l.breakIndex /\ l2.continueIndex = l.continueIndex
  BY <1>5, <1>8 DEF LabelState
<1> HIDE DEF l2
<1>10. /\ labels' \in [irFunctions(program) -> LabelState] /\ labels'[f] = l2
       /\ \A g \in irFunctions(program) : g # f => labels'[g] = labels[g]
  BY <1>1, <1>2, <1>5, <1>9 DEF Typed
<1>11. /\ r \in Instruction /\ r.what = "loop" /\ r.node = Here.node /\ r.in = f
       /\ r.break = Here.breakLabel /\ r.continue = Here.continueLabel
  <2>1. Here.node \in Nat /\ Here.breakLabel \in Nat /\ Here.continueLabel \in Nat
    BY <1>1, FrameTypes
  <2> QED
    BY <2>1, <1>5 DEF Instruction
<1>12. Typed' => LabelStack' /\ LabelsFresh' /\ LabelsUnique'
  <2> SUFFICES ASSUME Typed' PROVE LabelStack' /\ LabelsFresh' /\ LabelsUnique'
    OBVIOUS
  <2> QED
    BY <1>1, <1>2, <1>3, <1>4, <1>9, <1>10, LoopPopped
<1> HIDE DEF r
<1>13. /\ emitted' \in Seq(Instruction) /\ Extends({"loop"})
       /\ Len(emitted') = Len(emitted) + 1 /\ emitted'[Len(emitted) + 1] = r
       /\ \A e \in 1..Len(emitted') : e > Len(emitted) => emitted'[e] = r
  BY <1>1, <1>2, <1>11, AppendExtends
<1>14. FunctionStack'
  BY <1>1, <1>2, <1>3, <1>4, SameFunctions
<1>15. FunctionsAdded'
  <2>1. Closed' \subseteq Closed
    BY <1>1, <1>2, <1>3, <1>4, ClosedStays
  <2> QED
    BY <2>1, <1>1, <1>2, FunctionsStay
<1>16. current' \in Seq(Function) /\ current' # <<>>
  BY <1>1, <1>2 DEF Typed
<1>17. NowEmitted(f, Len(frames))
  <2>1. Len(emitted) \in Nat /\ Len(emitted) + 1 \in DOMAIN emitted'
    BY <1>1, <1>13 DEF Typed
  <2>2. Len(emitted) + 1 \in Emitted({"loop"})'
    BY <2>1, <1>11, <1>13 DEF Emitted
  <2>3. Here = frames[Len(frames)]
    BY <1>1, FrameTypes
  <2> QED
    BY <2>2, <2>3, <1>11, <1>13 DEF NowEmitted
<1>18. \A e \in 1..Len(emitted') : e > Len(emitted) =>
         emitted'[e].node = Here.node /\ emitted'[e].in = Home(Here.node)
  BY <1>6, <1>11, <1>13
<1> HIDE DEF f, l
<1> QED
  BY <1>2, <1>3, <1>6, <1>10, <1>12, <1>13, <1>14, <1>15, <1>16, <1>17, <1>18, LeavingKeeps DEF f

-----------------------------------------------------------------------------
(* The invariant holds, of every file the compiler is given.               *)

LEMMA InitIsTyped == Init => Typed
<1> SUFFICES ASSUME Init PROVE Typed
  OBVIOUS
<1>1. program \in Seq(Statement) /\ WellFormed(program)
  BY ProgramsAssumption DEF Init
<1>2. frames = <<NewFrame(0)>> /\ NewFrame(0) \in Frame
  BY NewFrameTypes DEF Init
<1>3. current = <<Start>> /\ Start \in Function
  BY DEF Init, Function
<1>4. labels \in [irFunctions(program) -> LabelState]
  <2>1. [break |-> <<>>, continue |-> <<>>, breakIndex |-> 0, continueIndex |-> 0] \in LabelState
    BY DEF LabelState
  <2> QED
    BY <2>1 DEF Init
<1>5. locals \in [irFunctions(program) -> Seq(Word)]
  <2> DEFINE params(f) == {n \in FunctionsOf(program) : Prepared(program, n) /\ Key(program, n) = f}
             param(f) == program[CHOOSE n \in params(f) : TRUE].var
             first(f) == IF params(f) = {} \/ param(f) = NoName THEN <<>> ELSE <<param(f)>>
             second(f) == IF f = Start \/ f[1] = NoName THEN <<>> ELSE <<"this">>
  <2>1. ASSUME NEW f PROVE first(f) \in Seq(Word)
    <3>1. CASE params(f) = {}
      BY <3>1
    <3>2. CASE params(f) # {}
      <4>1. PICK n \in params(f) : param(f) = program[n].var
        BY <3>2
      <4>2. n \in DOMAIN program
        BY DEF FunctionsOf
      <4>3. program[n] \in Statement
        BY <4>2, <1>1
      <4>4. param(f) \in Word
        BY <4>1, <4>3 DEF Statement, Word
      <4> HIDE DEF param
      <4> QED
        BY <4>4
    <3> QED
      BY <3>1, <3>2
  <2>2. ASSUME NEW f PROVE second(f) \in Seq(Word)
    <3>1. second(f) = <<>> \/ second(f) = <<"this">>
      OBVIOUS
    <3>2. "this" \in Word
      BY NamesAssumption DEF Word
    <3>3. <<"this">> \in Seq(Word)
      BY <3>2
    <3>4. <<>> \in Seq(Word)
      OBVIOUS
    <3> HIDE DEF second
    <3> QED
      BY <3>1, <3>3, <3>4
  <2>3. locals = [f \in irFunctions(program) |-> first(f) \o second(f)]
    BY DEF Init
  <2> HIDE DEF first, second
  <2>4. \A f : first(f) \o second(f) \in Seq(Word)
    BY <2>1, <2>2
  <2> QED
    BY <2>3, <2>4
<1>6. globals \subseteq Names /\ emitted \in Seq(Instruction) /\ compiled \subseteq DOMAIN program
  BY DEF Init
<1>7. status.is \in Outcome
  BY DEF Init, Outcome
<1> QED
  BY <1>1, <1>2, <1>3, <1>4, <1>5, <1>6, <1>7 DEF Typed

LEMMA InitIInv == Init => IInv
<1> SUFFICES ASSUME Init PROVE IInv
  OBVIOUS
<1>1. Typed
  BY InitIsTyped
<1>2. /\ frames = <<NewFrame(0)>> /\ DOMAIN frames = {1} /\ Here = frames[1]
      /\ frames[1].node = 0 /\ frames[1].block = 1 /\ frames[1].pass = 1 /\ frames[1].last = 0
  BY DEF Init, NewFrame, Here, Last
<1>3. /\ current = <<Start>> /\ resolving = Start /\ emitted = <<>> /\ compiled = {}
      /\ wasm = constructors /\ status.is = "running"
      /\ labels = [f \in irFunctions(program) |->
                     [break |-> <<>>, continue |-> <<>>, breakIndex |-> 0, continueIndex |-> 0]]
  BY DEF Init, constructors
<1>4. FramesNest
  <2>1. FrameRight(1)
    BY <1>2 DEF FrameRight
  <2>2. NestedIn(frames[1].node, 1 - 1)
    BY <1>1, <1>2, StatementTypes DEF NestedIn, Inside
  <2> QED
    BY <1>2, <2>1, <2>2 DEF FramesNest
<1>5. FunctionStack
  <2>1. OpenFunctions = {1} /\ FunctionOf(1) = Start
    BY <1>2 DEF OpenFunctions, FunctionOf
  <2>2. DOMAIN current = {1} /\ current[1] = Start /\ currentFunction = Start
    BY <1>3 DEF currentFunction, Last
  <2> DEFINE open == [j \in {1} |-> 1]
  <2>3. open \in [DOMAIN current -> OpenFunctions] /\ Enumerates(open, OpenFunctions)
    BY <2>1, <2>2 DEF Enumerates
  <2>4. \A j \in DOMAIN current : current[j] = FunctionOf(open[j])
    BY <2>1, <2>2
  <2> QED
    BY <2>2, <2>3, <2>4, <1>3 DEF FunctionStack
<1>6. (\A f : LoopFrames(f) = {}) /\ \A what : Emitted(what) = {}
  BY <1>2, <1>3 DEF LoopFrames, Emitted
<1>7. LabelStack
  <2> SUFFICES ASSUME NEW f \in irFunctions(program)
               PROVE  \E open \in [DOMAIN labels[f].break -> LoopFrames(f)] :
                        /\ Enumerates(open, LoopFrames(f))
                        /\ DOMAIN labels[f].continue = DOMAIN labels[f].break
                        /\ \A j \in DOMAIN open : /\ labels[f].break[j] = frames[open[j]].breakLabel
                                                  /\ labels[f].continue[j] = frames[open[j]].continueLabel
    BY DEF LabelStack
  <2>1. labels[f].break = <<>> /\ labels[f].continue = <<>>
    BY <1>3
  <2> DEFINE open == [j \in {} |-> 1]
  <2>2. open \in [DOMAIN labels[f].break -> LoopFrames(f)] /\ Enumerates(open, LoopFrames(f)) /\ DOMAIN open = {}
    BY <2>1, <1>6 DEF Enumerates
  <2> HIDE DEF open
  <2> QED
    BY <2>1, <2>2
<1>8. LabelsFresh /\ LabelsUnique
  BY <1>6 DEF LabelsFresh, LabelsUnique
<1>9. InOrder
  <2>1. \A i \in DOMAIN frames : \A n \in Remaining(i) : \A m \in compiled : m < n
    BY <1>3
  <2>2. ASSUME NEW n \in DOMAIN program, Reached(n) PROVE n \in Remaining(1)
    <3>1. program[n].parent = 0
      BY <2>2, <1>3 DEF Reached
    <3>2. program[n].block = 1
      <4>1. program[n].block \in {1, 2}
        BY <1>1, StatementTypes
      <4>2. program[n].block = 2 => n \notin TopLevel(program)
        BY <1>1 DEF Typed, WellFormed
      <4> QED
        BY <4>1, <4>2, <3>1 DEF TopLevel
    <3>3. n > 0 /\ n \in Nat
      BY <1>1, StatementTypes
    <3> QED
      BY <3>1, <3>2, <3>3, <1>2 DEF Remaining
  <2> QED
    BY <2>1, <2>2, <1>2 DEF InOrder
<1>10. FunctionsAdded
  <2>1. ASSUME NEW k \in constructors PROVE k \in functions
    <3>1. PICK n \in ClassesOf(program) \cap TopLevel(program) : k = <<NoName, program[n].name>>
      BY DEF constructors, classes
    <3>2. program[n].parent = 0 /\ Prepared(program, n)
      BY DEF TopLevel, Prepared
    <3>3. 0 \notin ClassesOf(program)
      BY <1>1, StatementTypes DEF ClassesOf
    <3>4. Key(program, n) = k
      BY <3>1, <3>2, <3>3 DEF Key, OwnerOf
    <3> QED
      BY <3>2, <3>4 DEF functions
  <2>2. Closed = {}
    BY <1>3 DEF Closed
  <2> QED
    BY <2>1, <2>2, <1>3 DEF FunctionsAdded
<1>11. LocalsDeclared /\ EmittedRight /\ ReadsInScope
  BY <1>3, <1>6 DEF LocalsDeclared, EmittedRight, ReadsInScope
<1>12. JumpsBind /\ JumpErrorJustified /\ AtTheEnd
  BY <1>3, <1>6 DEF JumpsBind, JumpErrorJustified, AtTheEnd
<1> QED
  BY <1>1, <1>4, <1>5, <1>7, <1>8, <1>9, <1>10, <1>11, <1>12 DEF IInv

LEMMA NextKeepsIInv == IInv /\ [Next]_vars => IInv'
<1> SUFFICES ASSUME IInv, [Next]_vars PROVE IInv'
  OBVIOUS
<1>1. ASSUME NEW n \in DOMAIN program, Compile(n) PROVE IInv'
  <2>1. CASE Unreadable(n) \/ JumpOutsideLoop(n) \/ FunctionNotPrepared(n) \/ ClassRefused(n)
    BY <2>1, RaisingKeeps
  <2>2. CASE CompileDeclare(n)
    BY <2>2, DeclareKeeps
  <2>3. CASE CompileExpression(n)
    BY <2>3, ExpressionKeeps
  <2>4. CASE CompileJump(n)
    BY <2>4, JumpKeeps
  <2>5. CASE EnterBlock(n) \/ EnterClass(n)
    BY <2>5, EnterBlockKeeps
  <2>6. CASE EnterIf(n)
    BY <2>6, EnterIfKeeps
  <2>7. CASE EnterWhile(n)
    BY <2>7, EnterWhileKeeps
  <2>8. CASE EnterFunction(n)
    BY <2>8, EnterFunctionKeeps
  <2> QED
    BY <1>1, <2>1, <2>2, <2>3, <2>4, <2>5, <2>6, <2>7, <2>8 DEF Compile
<1>2. CASE LeaveBlock \/ LeaveIf \/ LeaveClass
  BY <1>2, LeavingPlainKeeps
<1>3. CASE Else
  BY <1>3, ElseKeeps
<1>4. CASE LeaveWhile
  BY <1>4, LeaveWhileKeeps
<1>5. CASE LeaveFunction
  BY <1>5, LeaveFunctionKeeps
<1>6. CASE FunctionAddedTwice
  BY <1>6, FunctionAddedTwiceKeeps
<1>7. CASE Finish
  BY <1>7, FinishKeeps
<1>8. CASE UNCHANGED vars
  BY <1>8, NothingKeeps
<1> QED
  BY <1>1, <1>2, <1>3, <1>4, <1>5, <1>6, <1>7, <1>8 DEF Next, Return, Finished

LEMMA Invariant == Spec => []IInv
BY InitIInv, NextKeepsIInv, PTL DEF Spec

-----------------------------------------------------------------------------
(* What it comes to.                                                       *)

(* The types are right in every reachable state: the calls of              *)
(* compileStatement go down the tree of the file, and the stack of         *)
(* functions (src/src/compiler.cpp) has one entry per open function.       *)
THEOREM TypeCorrect == Spec => []TypeOK
<1>1. ASSUME IInv PROVE TypeOK
  <2>1. Typed /\ FramesNest /\ FunctionStack /\ FunctionsAdded
    BY <1>1 DEF IInv
  <2>2. ASSUME NEW i \in DOMAIN frames
        PROVE  /\ frames[i].node = IF i = 1 THEN 0 ELSE frames[i - 1].last
               /\ frames[i].last \in 0..Len(program)
    <3>1. FrameRight(i)
      BY <2>1 DEF FramesNest
    <3>2. frames[i].last \in Nat /\ DOMAIN program = 1..Len(program) /\ Len(program) \in Nat
      BY <2>1, FrameTypes DEF Typed
    <3> QED
      BY <3>1, <3>2 DEF FrameRight
  <2>3. wasm \subseteq irFunctions(program)
    BY <2>1, FunctionsAreThere DEF FunctionsAdded
  <2> QED
    BY <2>1, <2>2, <2>3 DEF TypeOK, Typed, FunctionStack
<1> QED
  BY <1>1, Invariant, PTL

(* Labels are unique in a function (createBreakLabel, createContinueLabel  *)
(* and their free, src/src/ir/function.cpp), for every nesting of loops.   *)
THEOREM LabelsAreUnique == Spec => []LabelsUnique
<1>1. IInv => LabelsUnique
  BY DEF IInv
<1> QED
  BY <1>1, Invariant, PTL

(* Resolver::resolveIdentifier gives the code the variables of the         *)
(* function the reading expression stands in: resolver and compiler agree  *)
(* on the current function whenever something is compiled.                 *)
THEOREM ReadsAreInScope == Spec => []ReadsInScope
<1>1. IInv => ReadsInScope
  BY DEF IInv
<1> QED
  BY <1>1, Invariant, PTL

(* A JumpStatementError (compileBreakStatement, compileContinueStatement)  *)
(* is only ever given to a jump that has no while of its function around.  *)
THEOREM JumpErrorsAreJustified == Spec => []JumpErrorJustified
<1>1. IInv => JumpErrorJustified
  BY DEF IInv
<1> QED
  BY <1>1, Invariant, PTL

(* When the file is done, every statement that is reached has code.        *)
LEMMA AllIsCompiled ==
  ASSUME IInv, status.is = "done"
  PROVE  /\ DOMAIN frames = {1}
         /\ Closed = compiled \cap FunctionsOf(program)
         /\ \A n \in FunctionsOf(program) : Prepared(program, n) => n \in Closed
         /\ \A n \in ClassesOf(program) : Prepared(program, n) => Key(program, n) \in constructors
<1>1. Typed /\ FramesNest /\ InOrder /\ Here.node = 0 /\ Rest(Here) = {}
  BY DEF IInv, AtTheEnd
<1>2. /\ DOMAIN frames = 1..Len(frames) /\ Len(frames) \in Nat \ {0}
      /\ Here = frames[Len(frames)] /\ Len(frames) \in DOMAIN frames
  BY <1>1, FrameTypes
<1>3. Len(frames) = 1
  BY <1>1, <1>2, NodeTypes
<1>4. DOMAIN frames = {1} /\ frames[1].node = 0 /\ Here = frames[1]
  BY <1>1, <1>2, <1>3
<1>5. Remaining(1) = {}
  <2> SUFFICES ASSUME NEW n \in Remaining(1) PROVE FALSE
    OBVIOUS
  <2>1. n \in DOMAIN program /\ program[n].parent = 0
    BY <1>4 DEF Remaining
  <2>2. program[n].block # 2
    BY <1>1, <2>1 DEF Typed, WellFormed, TopLevel
  <2>3. n \in Rest(Here)
    BY <1>4, <2>1, <2>2 DEF Remaining, Rest
  <2> QED
    BY <2>3, <1>1
<1>6. \A n \in DOMAIN program : Reached(n) => n \in compiled
  BY <1>1, <1>4, <1>5 DEF InOrder
<1>7. Closed = compiled \cap FunctionsOf(program)
  <2>1. \A n \in FunctionsOf(program) : n # 0
    BY <1>1, StatementTypes DEF FunctionsOf
  <2> QED
    BY <2>1, <1>4 DEF Closed
<1>8. ASSUME NEW n \in TopLevel(program) PROVE n \in compiled
  BY <1>6 DEF TopLevel, Reached
<1>9. ASSUME NEW n \in FunctionsOf(program), Prepared(program, n) PROVE n \in Closed
  <2>1. CASE n \in TopLevel(program)
    BY <2>1, <1>7, <1>8
  <2>2. CASE program[n].parent \in ClassesOf(program) \cap TopLevel(program)
    <3>1. program[n].parent \in compiled
      BY <2>2, <1>8
    <3>2. program[program[n].parent].kind = "class"
      BY <2>2 DEF ClassesOf
    <3>3. Reached(n)
      BY <3>1, <3>2 DEF Reached
    <3> QED
      BY <3>3, <1>6, <1>7 DEF FunctionsOf
  <2> QED
    BY <2>1, <2>2, <1>9 DEF Prepared
<1>10. ASSUME NEW n \in ClassesOf(program), Prepared(program, n) PROVE Key(program, n) \in constructors
  <2>1. n \in DOMAIN program /\ program[n].kind = "class"
    BY DEF ClassesOf
  <2>2. program[n].parent \notin ClassesOf(program)
    BY <1>1, <2>1 DEF Typed, WellFormed, FunctionsOf
  <2>3. n \in TopLevel(program)
    BY <1>10, <2>2 DEF Prepared
  <2>4. Key(program, n) = <<NoName, program[n].name>>
    BY <2>2 DEF Key, OwnerOf
  <2> QED
    BY <2>3, <2>4 DEF constructors, classes
<1> QED
  BY <1>4, <1>7, <1>9, <1>10

LEMMA NestedAreRefused ==
  ASSUME IInv, status.is = "done"
  PROVE  Flat
<1>1. FunctionsAdded
  BY DEF IInv
<1> SUFFICES ASSUME NEW n \in compiled \cap FunctionsOf(program) PROVE Prepared(program, n)
  BY DEF Flat
<1>2. n \in Closed
  BY AllIsCompiled
<1>3. Key(program, n) \in functions /\ Key(program, n) \notin constructors
  BY <1>1, <1>2 DEF FunctionsAdded
<1>4. PICK k \in FunctionsOf(program) \cup ClassesOf(program) :
        Prepared(program, k) /\ Key(program, k) = Key(program, n)
  BY <1>3 DEF functions
<1>5. k \in FunctionsOf(program)
  BY <1>3, <1>4, AllIsCompiled
<1>6. k \in Closed
  BY <1>4, <1>5, AllIsCompiled
<1>7. k = n
  BY <1>1, <1>2, <1>4, <1>6 DEF FunctionsAdded
<1> QED
  BY <1>4, <1>7

(* No file with a function below a block, an if, a while or a function     *)
(* gets through (the assert of doCompileFunction, and Binaryen's check     *)
(* that no function is added twice).                                       *)
THEOREM NestedFunctionsAreRefused == Spec => []NestedFunctionsRefused
<1>1. IInv => NestedFunctionsRefused
  BY NestedAreRefused DEF NestedFunctionsRefused, Flat
<1> QED
  BY <1>1, Invariant, PTL

(* A module that is done has the code of every function that was prepared, *)
(* a constructor for each class, the start function, and nothing else.     *)
THEOREM EveryFunctionIsCompiled == Spec => []EveryFunctionCompiled
<1>1. ASSUME IInv, status.is = "done" PROVE wasm = functions \cup {Start}
  <2>1. FunctionsAdded /\ Start \in wasm
    BY <1>1 DEF IInv, AtTheEnd
  <2>2. ASSUME NEW k \in FunctionsOf(program) \cup ClassesOf(program), Prepared(program, k)
        PROVE  Key(program, k) \in wasm
    <3>1. CASE k \in FunctionsOf(program)
      BY <3>1, <2>1, <2>2, <1>1, AllIsCompiled DEF FunctionsAdded
    <3>2. CASE k \in ClassesOf(program)
      BY <3>2, <2>1, <2>2, <1>1, AllIsCompiled DEF FunctionsAdded
    <3> QED
      BY <3>1, <3>2
  <2>3. functions \subseteq wasm
    BY <2>2 DEF functions
  <2> QED
    BY <2>1, <2>3 DEF FunctionsAdded
<1>2. IInv => EveryFunctionCompiled
  BY <1>1 DEF EveryFunctionCompiled
<1> QED
  BY <1>2, Invariant, PTL

(* In a module that is done a break or a continue names the innermost      *)
(* while around it in its own function, and nothing else has that label    *)
(* there, however deep loops and functions are nested.                     *)
THEOREM JumpsAreBound == Spec => []JumpsBindInnermost
<1>1. ASSUME IInv, status.is = "done", NEW i \in Emitted({"break", "continue"})
      PROVE  LET jump == emitted[i]
                 targets == {l \in Emitted({"loop"}) :
                               emitted[l].in = Home(jump.node) /\ emitted[l][jump.what] = jump.label}
             IN  targets # {} /\ \A l \in targets : emitted[l].node \in LoopAround(jump.node)
  <2> DEFINE jump == emitted[i]
             targets == {l \in Emitted({"loop"}) :
                           emitted[l].in = Home(jump.node) /\ emitted[l][jump.what] = jump.label}
  <2>1. jump.what \in {"break", "continue"}
    BY DEF Emitted
  <2>2. JumpBinds(jump)
    BY <1>1, NestedAreRefused DEF IInv, JumpsBind
  <2>3. LoopFrames(Home(jump.node)) = {}
    BY <1>1, AllIsCompiled DEF LoopFrames
  <2>4. PICK e \in Emitted({"loop"}) :
          /\ emitted[e].in = Home(jump.node)
          /\ emitted[e][jump.what] = jump.label
          /\ emitted[e].node \in LoopAround(jump.node)
    BY <2>2, <2>3 DEF JumpBinds
  <2> HIDE DEF jump
  <2>5. \A l \in targets : l = e
    BY <2>1, <2>4, <1>1 DEF IInv, LabelsUnique
  <2> QED
    BY <2>4, <2>5 DEF jump
<1>2. IInv => JumpsBindInnermost
  BY <1>1 DEF JumpsBindInnermost
<1> QED
  BY <1>2, Invariant, PTL

=============================================================================
