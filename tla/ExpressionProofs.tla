-------------------------- MODULE ExpressionProofs --------------------------
(***************************************************************************)
(* Proofs about ExpressionCompiler, for every set of variables, functions, *)
(* classes and operators and for expressions of any size.                  *)
(***************************************************************************)
EXTENDS ExpressionCompiler, SequenceTheorems, TLAPS

IsSequence(s) == Len(s) \in Nat /\ s = [k \in 1..Len(s) |-> s[k]]

(* What is known of a frame: against which objects it has its operands     *)
(* compiled.  (ts are the VariantType objects, lr is leftToRight.)         *)
FrameType(f, ts, lr) ==
  /\ f = [node |-> f.node, op |-> f.op, expected |-> f.expected,
          operands |-> f.operands, done |-> f.done]
  /\ f.node \in {"prefix", "binary", "ternary", "call"}
  /\ IsSequence(f.operands) /\ IsSequence(f.done)
  /\ Len(f.done) <= Len(f.operands)
  /\ f.expected \in DOMAIN ts
  /\ \A k \in DOMAIN f.operands : f.operands[k] \in DOMAIN ts
  /\ f.node = "prefix" => f.op \in PrefixOps /\ f.operands = <<f.expected>>
  /\ f.node = "binary" => f.op \in BinaryOps /\ f.operands = <<f.expected, f.expected>>
  /\ f.node = "ternary" =>
       /\ Len(f.operands) = 3
       /\ f.operands[2] = f.expected
       /\ f.operands[IF lr THEN 3 ELSE 1] = f.expected
  /\ f.node = "call" =>
       /\ f.op \in Callees
       /\ Len(f.operands) = Len(ArgumentTypes[f.op])
       /\ \A k \in DOMAIN f.operands : ts[f.operands[k]] = Fixed(ArgumentTypes[f.op][k])

(* Nothing was compiled though its type is another.                        *)
Clean == causes \cap Excuses = {}
(* The code of a part validates and has the type that was expected.        *)
Good(r, o, ts) ==
  r.valid /\ isResolved(ts[o]) /\ r.type = underlyingType(ts[o].resolved)
Sound(f, ts) ==
  /\ \A k \in DOMAIN f.done : Good(f.done[k], f.operands[k], ts)
  /\ f.node = "call" =>
       /\ isResolved(ts[f.expected])
       /\ underlyingType(ts[f.expected].resolved) = underlyingType(ReturnType[f.op])

Asks(i) == IF i = 0 THEN Root ELSE frames[i].operands[Len(frames[i].done) + 1]
Linked ==
  \A i \in DOMAIN frames :
    /\ frames[i].expected = Asks(i - 1)
    /\ i > 1 => Len(frames[i - 1].done) < Len(frames[i - 1].operands)
WellResolved(ts) == \A o \in DOMAIN ts : ~Pending(ts[o]) => ts[o].resolved = ts[o].kind

(* Why accepted code validates: as long as no cause was noted, every part  *)
(* that is compiled has the type its object has by now.                    *)
IInv ==
  /\ TypeOK
  /\ WellResolved(types)
  /\ use.is \in {"typed", "inferred"} => types[Root] = Fixed(use.type)
  /\ IsSequence(frames)
  /\ \A i \in DOMAIN frames : FrameType(frames[i], types, leftToRight)
  /\ Linked
  /\ IsSequence(result)
  /\ result # <<>> => frames = <<>>
  /\ Clean => /\ \A i \in DOMAIN frames : Sound(frames[i], types)
              /\ \A i \in DOMAIN result : Good(result[i], Root, types)
  /\ ValidUnlessExcused

-----------------------------------------------------------------------------
(* Sequences of anything.                                                  *)

LEMMA SequenceOf ==
  ASSUME NEW s, IsSequence(s), NEW S, \A k \in 1..Len(s) : s[k] \in S
  PROVE  s \in Seq(S)
<1>1. s \in [1..Len(s) -> S]
  BY DEF IsSequence
<1> QED
  BY <1>1, SeqDef DEF IsSequence

LEMMA SequenceIn ==
  ASSUME NEW s, IsSequence(s)
  PROVE  /\ DOMAIN s = 1..Len(s) /\ Len(s) \in Nat
         /\ s = <<>> <=> Len(s) = 0
         /\ s \in Seq({s[k] : k \in 1..Len(s)})
<1>1. s \in Seq({s[k] : k \in 1..Len(s)})
  BY SequenceOf
<1>2. DOMAIN s = 1..Len(s) /\ Len(s) \in Nat
  BY DEF IsSequence
<1>3. s = <<>> <=> Len(s) = 0
  BY <1>1
<1> QED
  BY <1>1, <1>2, <1>3

LEMMA SomeSequence ==
  ASSUME NEW S, NEW s \in Seq(S)
  PROVE  IsSequence(s)
<1>1. Len(s) \in Nat /\ s \in [1..Len(s) -> S]
  BY LenProperties
<1> QED
  BY <1>1 DEF IsSequence

LEMMA Appended ==
  ASSUME NEW s, IsSequence(s), NEW e
  PROVE  /\ IsSequence(Append(s, e)) /\ Len(Append(s, e)) = Len(s) + 1
         /\ \A k \in 1..Len(s) : Append(s, e)[k] = s[k]
         /\ Append(s, e)[Len(s) + 1] = e
<1> DEFINE S == {s[k] : k \in 1..Len(s)} \cup {e}
<1>1. s \in Seq(S)
  BY SequenceOf
<1>2. e \in S
  OBVIOUS
<1> HIDE DEF S
<1>3. Append(s, e) \in Seq(S)
  BY <1>1, <1>2
<1>4. IsSequence(Append(s, e))
  BY <1>3, SomeSequence
<1> QED
  BY <1>1, <1>2, <1>4

LEMMA FrontAndLast ==
  ASSUME NEW s, IsSequence(s), s # <<>>
  PROVE  /\ Len(s) \in Nat \ {0} /\ Last(s) = s[Len(s)]
         /\ IsSequence(Front(s)) /\ Len(Front(s)) = Len(s) - 1
         /\ \A k \in 1..(Len(s) - 1) : Front(s)[k] = s[k]
<1> DEFINE S == {s[k] : k \in 1..Len(s)}
<1>1. s \in Seq(S) /\ Len(s) \in Nat \ {0}
  BY SequenceIn
<1> HIDE DEF S
<1>2. Front(s) = SubSeq(s, 1, Len(s) - 1)
  BY DEF Front
<1> DEFINE n == Len(s) - 1
<1>3. n \in Nat /\ \A k \in 1..n : s[k] \in S
  BY <1>1
<1> HIDE DEF n
<1>4. /\ SubSeq(s, 1, n) \in Seq(S)
      /\ Len(SubSeq(s, 1, n)) = IF 1 <= n THEN n - 1 + 1 ELSE 0
      /\ \A i \in 1..(n - 1 + 1) : SubSeq(s, 1, n)[i] = s[1 + i - 1]
  BY <1>3, SubSeqProperties
<1>5. n - 1 + 1 = n /\ \A i \in 1..n : 1 + i - 1 = i
  BY <1>3
<1>6. Front(s) \in Seq(S) /\ Len(Front(s)) = n /\ \A i \in 1..n : Front(s)[i] = s[i]
  BY <1>2, <1>3, <1>4, <1>5 DEF n
<1>7. IsSequence(Front(s))
  BY <1>6, SomeSequence
<1> QED
  BY <1>1, <1>6, <1>7 DEF Last, n

-----------------------------------------------------------------------------
(* What a step may do to the VariantType objects: add some, and resolve    *)
(* those that are pending, to a type of the same wasm type if the object   *)
(* was resolved before.                                                    *)
Extends(ts, us) ==
  /\ us \in Seq(TypeObject) /\ WellResolved(us)
  /\ DOMAIN ts \subseteq DOMAIN us
  /\ \A o \in DOMAIN ts : ~Pending(ts[o]) => us[o] = ts[o]
Agrees(ts, us) ==
  \A o \in DOMAIN ts : isResolved(ts[o]) =>
    isResolved(us[o]) /\ underlyingType(us[o].resolved) = underlyingType(ts[o].resolved)

LEMMA FixedIsNotPending ==
  ASSUME NEW t \in Types
  PROVE  /\ ~Pending(Fixed(t)) /\ isResolved(Fixed(t)) /\ Fixed(t).resolved = t
         /\ Fixed(t).kind = t /\ Fixed(t) \in TypeObject
<1>1. t \notin PendingKinds \cup {"unresolved"}
  BY ObjectsAssumption DEF Types, Numbers, Narrow, Wide, Floats, PendingKinds
<1>2. Fixed(t).resolved = t /\ Fixed(t).kind = t /\ Fixed(t) \in TypeObject
  BY DEF Fixed, TypeObject
<1> QED
  BY <1>1, <1>2 DEF Pending, isResolved, Unresolved

LEMMA SignatureTypes ==
  ASSUME NEW f \in Callees
  PROVE  /\ ReturnType[f] \in Types
         /\ ArgumentTypes[f] \in Seq(ValueTypes)
         /\ \A k \in 1..Len(ArgumentTypes[f]) : ArgumentTypes[f][k] \in Types
<1>1. ReturnType[f] \in ValueTypes \cup {"None"} /\ ArgumentTypes[f] \in Seq(ValueTypes)
  BY ScopeAssumption
<1>2. ValueTypes \cup {"None"} \subseteq Types
  BY DEF ValueTypes, Types
<1>3. \A k \in 1..Len(ArgumentTypes[f]) : ArgumentTypes[f][k] \in ValueTypes
  BY <1>1, ElementOfSeq
<1> QED
  BY <1>1, <1>2, <1>3

LEMMA FrameKeepsType ==
  ASSUME NEW f, NEW ts, NEW us, NEW lr, FrameType(f, ts, lr), Extends(ts, us)
  PROVE  FrameType(f, us, lr)
<1>1. \A k \in DOMAIN f.operands : f.operands[k] \in DOMAIN us
  BY DEF FrameType, Extends
<1>2. ASSUME f.node = "call", NEW k \in DOMAIN f.operands
      PROVE  us[f.operands[k]] = Fixed(ArgumentTypes[f.op][k])
  <2>1. ts[f.operands[k]] = Fixed(ArgumentTypes[f.op][k]) /\ f.operands[k] \in DOMAIN ts
    BY <1>2 DEF FrameType
  <2>2. f.op \in Callees /\ k \in 1..Len(ArgumentTypes[f.op])
    BY <1>2, SequenceIn DEF FrameType
  <2>3. ~Pending(Fixed(ArgumentTypes[f.op][k]))
    BY <2>2, SignatureTypes, FixedIsNotPending
  <2> QED
    BY <2>1, <2>3 DEF Extends
<1>3. f.expected \in DOMAIN us
  BY DEF FrameType, Extends
<1> QED
  BY <1>1, <1>2, <1>3 DEF FrameType

LEMMA FrameStaysSound ==
  ASSUME NEW f, NEW ts, NEW us, NEW lr, FrameType(f, ts, lr), Agrees(ts, us), Sound(f, ts)
  PROVE  Sound(f, us)
<1>1. ASSUME NEW k \in DOMAIN f.done
      PROVE  Good(f.done[k], f.operands[k], us)
  <2>1. k \in DOMAIN f.operands
    BY <1>1, SequenceIn DEF FrameType
  <2>2. f.operands[k] \in DOMAIN ts
    BY <2>1 DEF FrameType
  <2>3. Good(f.done[k], f.operands[k], ts)
    BY DEF Sound
  <2> QED
    BY <2>2, <2>3 DEF Agrees, Good
<1>2. f.expected \in DOMAIN ts
  BY DEF FrameType
<1> QED
  BY <1>1, <1>2 DEF Sound, Agrees

-----------------------------------------------------------------------------
(* What every step has in common that goes on compiling.                   *)
Causes == {"reinterpreted", "revised", "class", "unchecked", "flag", "condition"}
Progress ==
  /\ input' = input /\ status = "compiling" /\ status' = status
  /\ temps' \in Seq(Types)
  /\ causes \subseteq causes' /\ causes' \subseteq Causes
  /\ room' \in 0..MaxNodes
  /\ Extends(types, types')
  /\ Clean' => Agrees(types, types')

(* What does not depend on the frames.                                     *)
LEMMA ProgressKeeps ==
  ASSUME IInv, Progress
  PROVE  /\ use' \in Uses /\ leftToRight' = leftToRight /\ leftToRight' \in BOOLEAN
         /\ types' \in Seq(TypeObject) /\ types' # <<>> /\ WellResolved(types')
         /\ use'.is \in {"typed", "inferred"} => types'[Root] = Fixed(use'.type)
         /\ Clean' => Clean
         /\ ValidUnlessExcused'
         /\ \A i \in DOMAIN frames :
              /\ FrameType(frames[i], types', leftToRight)
              /\ Clean' => Sound(frames[i], types')
<1>1. use' = use /\ leftToRight' = leftToRight /\ use \in Uses /\ leftToRight \in BOOLEAN
  BY DEF Progress, input, IInv, TypeOK
<1>2. Root \in DOMAIN types /\ types' \in Seq(TypeObject) /\ WellResolved(types') /\ types' # <<>>
  BY DEF IInv, TypeOK, Root, Progress, Extends
<1>3. use.is \in {"typed", "inferred"} => types'[Root] = Fixed(use.type)
  <2> SUFFICES ASSUME use.is \in {"typed", "inferred"} PROVE types'[Root] = types[Root]
    BY DEF IInv
  <2>1. use.type \in Types
    BY <1>1, ProgramAssumption DEF Use, ValueTypes, Types
  <2> QED
    BY <1>2, <2>1, FixedIsNotPending DEF IInv, Progress, Extends
<1>4. Clean' => Clean
  BY DEF Clean, Progress
<1>5. ValidUnlessExcused'
  BY DEF ValidUnlessExcused, Progress
<1>6. ASSUME NEW i \in DOMAIN frames
      PROVE  /\ FrameType(frames[i], types', leftToRight)
             /\ Clean' => Sound(frames[i], types')
  <2>1. FrameType(frames[i], types, leftToRight)
    BY DEF IInv
  <2>2. FrameType(frames[i], types', leftToRight)
    BY <2>1, FrameKeepsType DEF Progress
  <2>3. ASSUME Clean' PROVE Sound(frames[i], types')
    <3>1. Sound(frames[i], types) /\ Agrees(types, types')
      BY <1>4, <2>3 DEF IInv, Progress
    <3> QED
      BY <2>1, <3>1, FrameStaysSound
  <2> QED
    BY <2>2, <2>3
<1> QED
  BY <1>1, <1>2, <1>3, <1>4, <1>5, <1>6

LEMMA FramesTyped ==
  ASSUME IsSequence(frames'), types' \in Seq(TypeObject), types' # <<>>, use' \in Uses,
         leftToRight' \in BOOLEAN, Progress,
         \A i \in DOMAIN frames' : FrameType(frames'[i], types', leftToRight')
  PROVE  TypeOK'
BY DEF TypeOK, Progress, FrameType, Causes

LEMMA FunctionIsSequence ==
  ASSUME NEW s, NEW n \in Nat, s = [k \in 1..n |-> s[k]]
  PROVE  IsSequence(s) /\ Len(s) = n
<1> DEFINE S == {s[k] : k \in 1..n}
<1>1. s \in [1..n -> S]
  OBVIOUS
<1> HIDE DEF S
<1>2. s \in Seq(S) /\ Len(s) = n
  BY <1>1, SeqDef, LenProperties
<1> QED
  BY <1>2, SomeSequence

(* A part that is compiled is handed to the frame that asked for it.       *)
LEMMA ReturnedToFrame ==
  ASSUME IInv, Progress, result = <<>>,
         NEW stack, IsSequence(stack), stack # <<>>, Len(stack) <= Len(frames),
         \A i \in 1..Len(stack) : stack[i] = frames[i],
         NEW ref, Return(stack, ref),
         Len(stack[Len(stack)].done) < Len(stack[Len(stack)].operands),
         Clean' => Good(ref, Asks(Len(stack)), types')
  PROVE  IInv'
<1> DEFINE n == Len(stack)
           f == frames[n]
           g == [f EXCEPT !.done = Append(@, ref)]
<1>1. n \in Nat \ {0} /\ n \in DOMAIN frames /\ stack = [k \in 1..n |-> stack[k]]
  BY SequenceIn DEF IInv, IsSequence
<1>2. /\ frames' = [stack EXCEPT ![n] = [stack[n] EXCEPT !.done = Append(stack[n].done, ref)]]
      /\ result' = result
  BY DEF Return
<1>3. stack[n] = f /\ \A i \in 1..n : stack[i] = frames[i] /\ i \in DOMAIN frames
  BY <1>1, SequenceIn DEF IInv
<1> HIDE DEF n, f
<1>4. /\ frames' = [k \in 1..n |-> IF k = n THEN g ELSE frames[k]]
  BY <1>1, <1>2, <1>3
<1>5. IsSequence(frames') /\ Len(frames') = n /\ DOMAIN frames' = 1..n
  BY <1>1, <1>4, FunctionIsSequence
<1>6. FrameType(f, types', leftToRight) /\ (Clean' => Sound(f, types'))
  BY <1>1, ProgressKeeps DEF f
<1>7. /\ IsSequence(g.done) /\ Len(g.done) = Len(f.done) + 1
      /\ \A k \in 1..Len(f.done) : g.done[k] = f.done[k]
      /\ g.done[Len(f.done) + 1] = ref
  <2>1. IsSequence(f.done) /\ g.done = Append(f.done, ref)
    BY <1>6 DEF FrameType
  <2> QED
    BY <2>1, Appended
<1>8. /\ g = [node |-> g.node, op |-> g.op, expected |-> g.expected,
             operands |-> g.operands, done |-> g.done]
      /\ g.node = f.node /\ g.op = f.op /\ g.expected = f.expected /\ g.operands = f.operands
  <2>1. DOMAIN f = {"node", "op", "expected", "operands", "done"}
    BY <1>6 DEF FrameType
  <2>2. g = [x \in DOMAIN f |-> IF x = "done" THEN Append(f.done, ref) ELSE f[x]]
    OBVIOUS
  <2> HIDE DEF g
  <2> QED
    BY <2>1, <2>2
<1>9. Len(f.done) < Len(f.operands)
  BY <1>3 DEF n
<1> HIDE DEF g
<1>10. FrameType(g, types', leftToRight)
  <2>1. Len(f.done) \in Nat /\ Len(f.operands) \in Nat /\ Len(g.done) <= Len(g.operands)
    BY <1>6, <1>7, <1>8, <1>9 DEF FrameType, IsSequence
  <2> QED
    BY <1>6, <1>7, <1>8, <2>1 DEF FrameType
<1>11. ASSUME Clean' PROVE Sound(g, types')
  <2>1. ASSUME NEW k \in DOMAIN g.done PROVE Good(g.done[k], g.operands[k], types')
    <3>1. Len(f.done) \in Nat /\ k \in 1..(Len(f.done) + 1) /\ DOMAIN f.done = 1..Len(f.done)
      BY <1>6, <1>7, SequenceIn DEF FrameType
    <3>2. CASE k = Len(f.done) + 1
      <4>1. Asks(n) = f.operands[k]
        BY <1>1, <3>2 DEF Asks, f
      <4> QED
        BY <1>7, <1>8, <1>11, <3>2, <4>1 DEF n
    <3>3. CASE k # Len(f.done) + 1
      BY <1>6, <1>7, <1>8, <1>11, <3>1, <3>3 DEF Sound
    <3> QED
      BY <3>2, <3>3
  <2> QED
    BY <1>6, <1>8, <1>11, <2>1 DEF Sound
<1>12. \A i \in DOMAIN frames' : /\ FrameType(frames'[i], types', leftToRight')
                                 /\ Clean' => Sound(frames'[i], types')
  BY <1>3, <1>4, <1>5, <1>10, <1>11, ProgressKeeps
<1>13. Linked'
  <2> SUFFICES ASSUME NEW i \in 1..n
               PROVE  /\ frames'[i].expected = Asks(i - 1)'
                      /\ i > 1 => Len(frames'[i - 1].done) < Len(frames'[i - 1].operands)
    BY <1>5 DEF Linked
  <2>1. i \in DOMAIN frames /\ frames'[i].expected = frames[i].expected
    BY <1>3, <1>4, <1>5, <1>8 DEF f
  <2>2. i > 1 => frames'[i - 1] = frames[i - 1]
    BY <1>1, <1>4, <1>5
  <2>3. Asks(i - 1)' = Asks(i - 1)
    BY <2>2 DEF Asks
  <2> QED
    BY <2>1, <2>2, <2>3 DEF IInv, Linked
<1>14. TypeOK'
  BY <1>5, <1>12, ProgressKeeps, FramesTyped
<1>15. result' = <<>> /\ IsSequence(result')
  BY <1>2 DEF IInv
<1> QED
  BY <1>5, <1>12, <1>13, <1>14, <1>15, ProgressKeeps DEF IInv

LEMMA ReturnedAtLast ==
  ASSUME IInv, Progress, NEW ref, Return(<<>>, ref), Clean' => Good(ref, Root, types')
  PROVE  IInv'
<1>1. frames' = <<>> /\ result' = <<ref>>
  BY DEF Return
<1>2. IsSequence(frames') /\ DOMAIN frames' = {}
  BY <1>1 DEF IsSequence
<1>3. <<ref>> \in Seq({ref}) /\ DOMAIN <<ref>> = {1} /\ <<ref>>[1] = ref
  OBVIOUS
<1>4. IsSequence(result') /\ \A i \in DOMAIN result' : result'[i] = ref
  BY <1>1, <1>3, SomeSequence
<1>5. TypeOK'
  BY <1>2, ProgressKeeps, FramesTyped
<1> QED
  BY <1>1, <1>2, <1>4, <1>5, ProgressKeeps DEF IInv, Linked

(* What waits for a part, and for which object it is compiled.             *)
LEMMA Waiting ==
  ASSUME IInv, Awaiting
  PROVE  /\ result = <<>> /\ status = "compiling"
         /\ expected = Asks(Len(frames)) /\ expected \in DOMAIN types /\ Len(frames) \in Nat
         /\ frames # <<>> => /\ Len(frames) \in DOMAIN frames
                            /\ Len(frames[Len(frames)].done) < Len(frames[Len(frames)].operands)
         /\ frames = <<>> => Len(frames) = 0
<1>1. result = <<>> /\ status = "compiling"
  BY DEF IInv, Awaiting
<1>2. CASE frames = <<>>
  <2>1. expected = Root /\ Root \in DOMAIN types
    BY <1>2 DEF expected, Root, IInv, TypeOK
  <2> QED
    BY <1>1, <1>2, <2>1 DEF Asks
<1>3. CASE frames # <<>>
  <2> DEFINE n == Len(frames)
  <2>1. n \in Nat \ {0} /\ n \in DOMAIN frames /\ top = frames[n]
    BY <1>3, FrontAndLast, SequenceIn DEF IInv, top
  <2>2. Len(frames[n].done) < Len(frames[n].operands)
    BY <1>3, <2>1 DEF Awaiting
  <2>3. FrameType(frames[n], types, leftToRight)
    BY <2>1 DEF IInv
  <2>4. Len(frames[n].done) + 1 \in DOMAIN frames[n].operands
    BY <2>2, <2>3, SequenceIn DEF FrameType
  <2>5. expected = Asks(n)
    BY <1>3, <2>1 DEF expected, Asks
  <2>6. Asks(n) \in DOMAIN types
    BY <2>1, <2>3, <2>4 DEF Asks, FrameType
  <2> QED
    BY <1>1, <1>3, <2>1, <2>2, <2>5, <2>6
<1> QED
  BY <1>2, <1>3

(* An expression without parts returns at once.                            *)
LEMMA LeafReturns ==
  ASSUME IInv, Awaiting, Progress, NEW ref, Return(frames, ref),
         Clean' => Good(ref, expected, types')
  PROVE  IInv'
<1>1. CASE frames = <<>>
  <2>1. expected = Root
    BY <1>1 DEF expected
  <2> QED
    BY <1>1, <2>1, ReturnedAtLast
<1>2. CASE frames # <<>>
  <2>1. IsSequence(frames) /\ Len(frames) <= Len(frames)
    BY DEF IInv, IsSequence
  <2> QED
    BY <1>2, <2>1, Waiting, ReturnedToFrame
<1> QED
  BY <1>1, <1>2

(* The frame on top and the one below, when its operands are compiled.     *)
LEMMA CompleteFrame ==
  ASSUME IInv, NEW node, Complete(node)
  PROVE  /\ Len(frames) \in DOMAIN frames /\ top = frames[Len(frames)] /\ frames # <<>>
         /\ top.node = node /\ Len(top.done) = Len(top.operands)
         /\ FrameType(top, types, leftToRight)
         /\ Clean => Sound(top, types)
         /\ result = <<>> /\ status = "compiling"
         /\ top.expected \in DOMAIN types
<1>1. frames # <<>> /\ result = <<>> /\ status = "compiling"
  BY DEF Complete, IInv
<1>2. Len(frames) \in DOMAIN frames /\ top = frames[Len(frames)]
  BY <1>1, FrontAndLast, SequenceIn DEF IInv, top
<1>3. FrameType(top, types, leftToRight) /\ (Clean => Sound(top, types))
  BY <1>2 DEF IInv
<1> QED
  BY <1>1, <1>2, <1>3 DEF Complete, FrameType

(* A frame that is closed returns to the one below it.                     *)
LEMMA FrameReturns ==
  ASSUME IInv, NEW node, Complete(node), Progress, NEW ref, Return(Front(frames), ref),
         Clean' => Good(ref, top.expected, types')
  PROVE  IInv'
<1> DEFINE n == Len(frames) - 1
           stack == Front(frames)
<1>1. Len(frames) \in DOMAIN frames /\ top = frames[Len(frames)] /\ frames # <<>> /\ result = <<>>
  BY CompleteFrame
<1>2. /\ n \in Nat /\ n + 1 = Len(frames)
      /\ IsSequence(stack) /\ Len(stack) = n /\ \A k \in 1..n : stack[k] = frames[k]
  BY <1>1, FrontAndLast DEF IInv
<1> HIDE DEF n, stack
<1>3. top.expected = Asks(n) /\ (n + 1 > 1 => Len(frames[n].done) < Len(frames[n].operands))
  <2>1. n + 1 - 1 = n
    BY <1>2
  <2> QED
    BY <1>1, <1>2, <2>1 DEF IInv, Linked
<1>4. CASE stack = <<>>
  <2>1. n = 0 /\ Asks(n) = Root
    BY <1>2, <1>4 DEF Asks
  <2> QED
    BY <1>3, <1>4, <2>1, ReturnedAtLast DEF stack
<1>5. CASE stack # <<>>
  <2>1. n \in 1..n /\ n <= Len(frames) /\ stack[n] = frames[n] /\ n + 1 > 1
    BY <1>2, <1>5, SequenceIn
  <2>2. Return(stack, ref)
    BY DEF stack
  <2> QED
    BY <1>1, <1>2, <1>3, <1>5, <2>1, <2>2, ReturnedToFrame
<1> QED
  BY <1>4, <1>5

(* An expression with parts waits for the first of them.                   *)
LEMMA Opened ==
  ASSUME IInv, Awaiting, Progress, NEW f, frames' = Append(frames, f), result' = result,
         f.expected = expected, f.done = <<>>, FrameType(f, types', leftToRight),
         Clean' => (f.node = "call" => Good([valid |-> TRUE, type |-> underlyingType(ReturnType[f.op])],
                                            expected, types'))
  PROVE  IInv'
<1> DEFINE n == Len(frames)
<1>1. /\ IsSequence(frames') /\ Len(frames') = n + 1
      /\ \A k \in 1..n : frames'[k] = frames[k]
      /\ frames'[n + 1] = f
  BY Appended DEF IInv
<1>2. n \in Nat /\ DOMAIN frames = 1..n /\ DOMAIN frames' = 1..(n + 1)
  BY <1>1, SequenceIn DEF IInv
<1>3. expected = Asks(n) /\ (n # 0 => Len(frames[n].done) < Len(frames[n].operands)) /\ result = <<>>
  BY <1>2, Waiting, SequenceIn DEF IInv
<1> HIDE DEF n
<1>4. ASSUME Clean' PROVE Sound(f, types')
  BY <1>4 DEF Sound, Good
<1>5. ASSUME NEW i \in DOMAIN frames'
      PROVE  FrameType(frames'[i], types', leftToRight') /\ (Clean' => Sound(frames'[i], types'))
  <2>1. CASE i = n + 1
    BY <1>1, <1>4, <2>1, ProgressKeeps
  <2>2. CASE i # n + 1
    <3>1. i \in DOMAIN frames /\ frames'[i] = frames[i]
      BY <1>1, <1>2, <2>2
    <3> QED
      BY <3>1, ProgressKeeps
  <2> QED
    BY <2>1, <2>2
<1>6. Linked'
  <2> SUFFICES ASSUME NEW i \in 1..(n + 1)
               PROVE  /\ frames'[i].expected = Asks(i - 1)'
                      /\ i > 1 => Len(frames'[i - 1].done) < Len(frames'[i - 1].operands)
    BY <1>2 DEF Linked
  <2>1. i > 1 => frames'[i - 1] = frames[i - 1]
    BY <1>1, <1>2
  <2>2. Asks(i - 1)' = Asks(i - 1)
    BY <1>2, <2>1 DEF Asks
  <2>3. CASE i = n + 1
    <3>1. i - 1 = n /\ frames'[i] = f
      BY <1>1, <1>2, <2>3
    <3> QED
      BY <1>2, <1>3, <2>1, <2>2, <2>3, <3>1
  <2>4. CASE i # n + 1
    <3>1. i \in DOMAIN frames /\ frames'[i] = frames[i]
      BY <1>1, <1>2, <2>4
    <3> QED
      BY <2>1, <2>2, <3>1 DEF IInv, Linked
  <2> QED
    BY <2>3, <2>4
<1>7. TypeOK'
  BY <1>1, <1>5, ProgressKeeps, FramesTyped
<1>8. result' = <<>> /\ IsSequence(result')
  BY <1>3 DEF IInv
<1> QED
  BY <1>1, <1>5, <1>6, <1>7, <1>8, ProgressKeeps DEF IInv

(* An error, or the end: nothing else changes.                             *)
LEMMA Stopped ==
  ASSUME IInv, UNCHANGED <<input, types, frames, result, temps, room>>,
         causes \subseteq causes', causes' \subseteq Causes,
         status' \in {"compiling", "valid", "invalid"} \cup Errors,
         status' = "invalid" => ~Clean'
  PROVE  IInv'
<1>1. use' = use /\ leftToRight' = leftToRight
  BY DEF input
<1>2. Clean' => Clean
  BY DEF Clean
<1>3. TypeOK'
  BY <1>1 DEF IInv, TypeOK, Causes
<1>4. ValidUnlessExcused'
  BY DEF ValidUnlessExcused, Clean
<1>5. Linked'
  BY DEF IInv, Linked, Asks
<1> QED
  BY <1>1, <1>2, <1>3, <1>4, <1>5 DEF IInv

LEMMA Failed ==
  ASSUME IInv, NEW error \in Errors, Fail(error)
  PROVE  IInv'
<1>1. causes' = causes /\ causes \subseteq Causes /\ error # "invalid"
  BY DEF Fail, IInv, TypeOK, Causes, Errors
<1> QED
  BY <1>1, Stopped DEF Fail

-----------------------------------------------------------------------------
(* Types.                                                                  *)

(* Where nothing is noted, the object has the wasm type of the part it     *)
(* accepts, and had it before if it was resolved.                          *)
LEMMA Accepted ==
  ASSUME NEW o \in TypeObject, NEW t \in Types, Accepts(o, t), ~Pending(o) => o.resolved = o.kind
  PROVE  LET p == tryResolveTo(o, t)
         IN  /\ p \in TypeObject /\ Pending(p) = Pending(o) /\ (~Pending(o) => p = o)
             /\ Mismatch(o, t) \subseteq Causes
             /\ Mismatch(o, t) \cap Excuses = {} =>
                  /\ isResolved(p) /\ underlyingType(p.resolved) = underlyingType(t)
                  /\ isResolved(o) => underlyingType(o.resolved) = underlyingType(t)
<1> DEFINE p == tryResolveTo(o, t)
<1>0. t # "unresolved" /\ ~(t \in PendingKinds)
  BY ObjectsAssumption DEF Types, Numbers, Narrow, Wide, Floats, PendingKinds
<1>1. CASE Pending(o)
  <2>1. p = [o EXCEPT !.resolved = t]
    BY <1>1 DEF tryResolveTo
  <2>2. p \in TypeObject /\ p.kind = o.kind /\ p.resolved = t
    BY <2>1 DEF TypeObject
  <2>3. isResolved(p) /\ Pending(p) = Pending(o)
    BY <1>0, <2>2 DEF isResolved, Unresolved, Pending
  <2>4. Mismatch(o, t) = IF o.resolved \in {Unresolved, t} THEN {}
                         ELSE {IF underlyingType(o.resolved) = underlyingType(t)
                               THEN "reinterpreted" ELSE "revised"}
    BY <1>1 DEF Mismatch
  <2>5. Mismatch(o, t) \subseteq Causes
    BY <2>4 DEF Causes
  <2>6. ASSUME Mismatch(o, t) \cap Excuses = {}, isResolved(o)
        PROVE  underlyingType(o.resolved) = underlyingType(t)
    BY <2>4, <2>6 DEF Excuses, isResolved
  <2> HIDE DEF p
  <2> QED
    BY <1>1, <2>2, <2>3, <2>5, <2>6 DEF p
<1>2. CASE ~Pending(o)
  <2>1. p = o /\ o.resolved = o.kind /\ o.kind \in Types
    BY <1>2 DEF tryResolveTo, TypeObject, Pending
  <2>2. Kind(o.kind) = Kind(t)
    BY <1>2 DEF Accepts, Pending, PendingKinds
  <2>3. o.kind = t \/ (o.kind \in Objects /\ t \in Objects)
    <3>1. ASSUME NEW x \in Types, x \notin Objects PROVE x # "Class"
      BY <3>1 DEF Types, Numbers, Narrow, Wide, Floats
    <3> QED
      BY <2>1, <2>2, <3>1 DEF Kind
  <2>4. isResolved(o)
    BY <1>0, <2>1, ObjectsAssumption DEF isResolved, Unresolved, Types, Numbers, Narrow, Wide, Floats
  <2>5. Mismatch(o, t) =
          {c \in {"class"} : {o.kind, t} \subseteq Objects /\ underlyingType(o.kind) # underlyingType(t)}
    BY <1>2 DEF Mismatch
  <2>6. Mismatch(o, t) \subseteq Causes
    BY <2>5 DEF Causes
  <2>7. ASSUME Mismatch(o, t) \cap Excuses = {} PROVE underlyingType(o.kind) = underlyingType(t)
    BY <2>3, <2>5, <2>7 DEF Excuses
  <2> HIDE DEF p
  <2> QED
    BY <1>2, <2>1, <2>4, <2>6, <2>7 DEF p
<1> QED
  BY <1>1, <1>2 DEF p

(* A literal leaves an object that is resolved alone.                      *)
LEMMA Defaulted ==
  ASSUME NEW o \in TypeObject, NEW t \in Types, ~Pending(o) => o.resolved = o.kind
  PROVE  LET p == resolveByDefault(o, t)
         IN  /\ p \in TypeObject /\ Pending(p) = Pending(o) /\ (~Pending(o) => p = o)
             /\ isResolved(o) => p = o
<1>1. CASE Pending(o) /\ Accepts(o, t) /\ ~isResolved(o)
  <2>1. resolveByDefault(o, t) = [o EXCEPT !.resolved = t]
    BY <1>1 DEF resolveByDefault, tryResolveTo
  <2>2. resolveByDefault(o, t) \in TypeObject /\ resolveByDefault(o, t).kind = o.kind
    BY <2>1 DEF TypeObject
  <2> QED
    BY <1>1, <2>2 DEF Pending
<1>2. CASE ~(Pending(o) /\ Accepts(o, t) /\ ~isResolved(o))
  BY <1>2 DEF resolveByDefault, tryResolveTo
<1> QED
  BY <1>1, <1>2

(* One object is resolved.                                                 *)
LEMMA TypesUpdated ==
  ASSUME IInv, NEW us, NEW e \in DOMAIN types, NEW p \in TypeObject,
         Pending(p) = Pending(types[e]), ~Pending(types[e]) => p = types[e],
         us = [types EXCEPT ![e] = p]
  PROVE  Extends(types, us) /\ us[e] = p
<1>1. types \in Seq(TypeObject) /\ WellResolved(types)
  BY DEF IInv, TypeOK
<1>2. us \in Seq(TypeObject) /\ DOMAIN us = DOMAIN types /\ us[e] = p
  BY <1>1, ExceptSeq
<1>3. \A i \in DOMAIN types : i # e => us[i] = types[i]
  BY <1>1
<1>4. WellResolved(us)
  BY <1>1, <1>2, <1>3 DEF WellResolved
<1> QED
  BY <1>1, <1>2, <1>3, <1>4 DEF Extends

LEMMA TypesKept ==
  ASSUME IInv
  PROVE  Extends(types, types) /\ Agrees(types, types)
BY DEF IInv, TypeOK, Extends, Agrees

LEMMA UpdateAgrees ==
  ASSUME IInv, NEW us, NEW e \in DOMAIN types, NEW p,
         us = [types EXCEPT ![e] = p],
         isResolved(types[e]) =>
           isResolved(p) /\ underlyingType(p.resolved) = underlyingType(types[e].resolved)
  PROVE  Agrees(types, us)
<1>1. \A i \in DOMAIN types : us[i] = IF i = e THEN p ELSE types[i]
  BY DEF IInv, TypeOK
<1> QED
  BY <1>1 DEF Agrees

LEMMA RoomAndTemps ==
  ASSUME IInv
  PROVE  /\ temps \in Seq(Types) /\ room \in 0..MaxNodes /\ causes \subseteq Causes
         /\ types \in Seq(TypeObject) /\ WellResolved(types)
         /\ \A o \in DOMAIN types :
              types[o] \in TypeObject /\ (~Pending(types[o]) => types[o].resolved = types[o].kind)
BY DEF IInv, TypeOK, Causes, WellResolved

-----------------------------------------------------------------------------
(* One lemma for each action: first those that return at once.             *)

LEMMA CompileIntegerKeeps ==
  ASSUME IInv, CompileInteger
  PROVE  IInv'
<1> DEFINE q == types[expected]
           o == resolveByDefault(q, "I32")
<1>1. Awaiting /\ expected \in DOMAIN types /\ status = "compiling"
  BY Waiting DEF CompileInteger
<1>2. q \in TypeObject /\ (~Pending(q) => q.resolved = q.kind) /\ "I32" \in Types
  BY <1>1, RoomAndTemps DEF Types, Numbers, Narrow
<1>3. /\ o \in TypeObject /\ Pending(o) = Pending(q) /\ (~Pending(q) => o = q)
      /\ isResolved(q) => o = q
  BY <1>2, Defaulted
<1>4. isResolved(o)
  <2>1. CASE isResolved(q)
    BY <1>3, <2>1
  <2>2. CASE ~isResolved(q) /\ Pending(q)
    <3>1. Accepts(q, "I32")
      BY <2>2 DEF Accepts, Pending, PendingKinds, Narrow
    <3>2. o.resolved = "I32"
      BY <1>2, <2>2, <3>1 DEF resolveByDefault, tryResolveTo, TypeObject
    <3> QED
      BY <3>2 DEF isResolved, Unresolved
  <2>3. CASE ~isResolved(q) /\ ~Pending(q)
    <3>1. q.kind \in Types /\ q.kind = Unresolved
      BY <1>2, <2>3 DEF isResolved, TypeObject, Pending
    <3> QED
      BY <3>1, ObjectsAssumption DEF Unresolved, Types, Numbers, Narrow, Wide, Floats
  <2> QED
    BY <2>1, <2>2, <2>3
<1>5. \/ Fail("not support")
      \/ /\ types' = [types EXCEPT ![expected] = o]
         /\ \E v \in Literals :
              Return(frames,
                Ref(<<"literal", v>>, underlyingConst(o.resolved, v), underlyingType(o.resolved), TRUE))
         /\ UNCHANGED <<input, temps, causes, room, status>>
  BY DEF CompileInteger
<1> HIDE DEF q, o
<1>6. CASE Fail("not support")
  BY <1>6, Failed DEF Errors
<1>7. ASSUME types' = [types EXCEPT ![expected] = o],
             UNCHANGED <<input, temps, causes, room, status>>,
             NEW ref, Return(frames, ref), ref.valid, ref.type = underlyingType(o.resolved)
      PROVE  IInv'
  <2>1. Extends(types, types') /\ types'[expected] = o
    BY <1>1, <1>3, <1>7, TypesUpdated DEF q
  <2>2. Agrees(types, types')
    BY <1>1, <1>3, <1>4, <1>7, UpdateAgrees DEF q
  <2>3. Progress
    BY <1>1, <1>7, <2>1, <2>2, RoomAndTemps DEF Progress
  <2>4. Good(ref, expected, types')
    BY <1>4, <1>7, <2>1 DEF Good
  <2> QED
    BY <1>1, <1>7, <2>3, <2>4, LeafReturns
<1> QED
  BY <1>5, <1>6, <1>7 DEF Ref

LEMMA CompileFloatKeeps ==
  ASSUME IInv, CompileFloat
  PROVE  IInv'
<1> DEFINE q == types[expected]
           o == IF Pending(q) THEN resolveByDefault(q, "F32") ELSE q
           ref == Ref(<<"float">>, <<"const", underlyingType(o.resolved), "float">>,
                      underlyingType(o.resolved), TRUE)
<1>1. Awaiting /\ expected \in DOMAIN types /\ status = "compiling"
  BY Waiting DEF CompileFloat
<1>2. q \in TypeObject /\ (~Pending(q) => q.resolved = q.kind) /\ "F32" \in Types
  BY <1>1, RoomAndTemps DEF Types, Numbers, Floats
<1>3. /\ o \in TypeObject /\ Pending(o) = Pending(q) /\ (~Pending(q) => o = q)
      /\ isResolved(q) => o = q
  BY <1>2, Defaulted
<1>4. \/ \E error \in Errors : Fail(error)
      \/ /\ isResolved(o)
         /\ types' = [types EXCEPT ![expected] = o]
         /\ Return(frames, ref)
         /\ UNCHANGED <<input, temps, causes, room, status>>
  BY DEF CompileFloat, Errors
<1>5. ref.valid /\ ref.type = underlyingType(o.resolved)
  BY DEF Ref
<1> HIDE DEF q, o, ref
<1>6. CASE \E error \in Errors : Fail(error)
  BY <1>6, Failed
<1>7. CASE /\ isResolved(o)
           /\ types' = [types EXCEPT ![expected] = o]
           /\ Return(frames, ref)
           /\ UNCHANGED <<input, temps, causes, room, status>>
  <2>1. Extends(types, types') /\ types'[expected] = o
    BY <1>1, <1>3, <1>7, TypesUpdated DEF q
  <2>2. Agrees(types, types')
    BY <1>1, <1>3, <1>7, UpdateAgrees DEF q
  <2>3. Progress
    BY <1>1, <1>7, <2>1, <2>2, RoomAndTemps DEF Progress
  <2>4. Good(ref, expected, types')
    BY <1>5, <1>7, <2>1 DEF Good
  <2> QED
    BY <1>1, <1>7, <2>3, <2>4, LeafReturns
<1> QED
  BY <1>4, <1>6, <1>7

LEMMA CompileVariableKeeps ==
  ASSUME IInv, NEW x \in Variables, CompileVariable(x)
  PROVE  IInv'
<1> DEFINE t == VariableType[x]
           q == types[expected]
           o == tryResolveTo(q, t)
           ref == Ref(<<"variable", x>>, <<"get", x>>, underlyingType(t), TRUE)
<1>1. Awaiting /\ expected \in DOMAIN types /\ status = "compiling"
  BY Waiting DEF CompileVariable
<1>2. q \in TypeObject /\ (~Pending(q) => q.resolved = q.kind) /\ t \in Types
  BY <1>1, RoomAndTemps, ScopeAssumption DEF Types, ValueTypes
<1>3. \/ Fail("TypeConvertError")
      \/ /\ Accepts(q, t)
         /\ types' = [types EXCEPT ![expected] = o]
         /\ causes' = causes \cup Mismatch(q, t)
         /\ Return(frames, ref)
         /\ UNCHANGED <<input, temps, room, status>>
  BY <1>1, RoomAndTemps DEF CompileVariable, Accept
<1>4. ref.valid /\ ref.type = underlyingType(t)
  BY DEF Ref
<1> HIDE DEF t, q, o, ref
<1>5. CASE Fail("TypeConvertError")
  BY <1>5, Failed DEF Errors
<1>6. CASE /\ Accepts(q, t)
           /\ types' = [types EXCEPT ![expected] = o]
           /\ causes' = causes \cup Mismatch(q, t)
           /\ Return(frames, ref)
           /\ UNCHANGED <<input, temps, room, status>>
  <2>1. /\ o \in TypeObject /\ Pending(o) = Pending(q) /\ (~Pending(q) => o = q)
        /\ Mismatch(q, t) \subseteq Causes
        /\ Mismatch(q, t) \cap Excuses = {} =>
             /\ isResolved(o) /\ underlyingType(o.resolved) = underlyingType(t)
             /\ isResolved(q) => underlyingType(q.resolved) = underlyingType(t)
    BY <1>2, <1>6, Accepted DEF o
  <2>2. Clean' => Mismatch(q, t) \cap Excuses = {}
    BY <1>6 DEF Clean
  <2>3. Extends(types, types') /\ types'[expected] = o
    BY <1>1, <1>6, <2>1, TypesUpdated DEF q
  <2>4. Clean' => Agrees(types, types')
    BY <1>1, <1>6, <2>1, <2>2, UpdateAgrees DEF q
  <2>5. Progress
    BY <1>1, <1>6, <2>1, <2>3, <2>4, RoomAndTemps DEF Progress
  <2>6. Clean' => Good(ref, expected, types')
    BY <1>4, <2>1, <2>2, <2>3 DEF Good
  <2> QED
    BY <1>1, <1>6, <2>5, <2>6, LeafReturns
<1> QED
  BY <1>3, <1>5, <1>6

LEMMA CompileMemberKeeps ==
  ASSUME IInv, NEW m \in MemberPaths, CompileMember(m)
  PROVE  IInv'
<1> DEFINE t == MemberType[m]
           o == types[expected]
           ref == Ref(<<"member", m>>, <<"get", m>>, underlyingType(t), TRUE)
           fits == isResolved(o) /\ underlyingType(o.resolved) = underlyingType(t)
<1>1. Awaiting /\ status = "compiling"
  BY Waiting DEF CompileMember
<1>2. /\ causes' = causes \cup (IF fits THEN {} ELSE {"unchecked"})
      /\ Return(frames, ref)
      /\ UNCHANGED <<input, types, temps, room, status>>
  BY DEF CompileMember
<1>3. ref.valid /\ ref.type = underlyingType(t)
  BY DEF Ref
<1> HIDE DEF fits, ref
<1>4. Progress
  <2>1. causes \subseteq causes' /\ causes' \subseteq Causes
    BY <1>2, RoomAndTemps DEF Causes
  <2> QED
    BY <1>1, <1>2, <2>1, RoomAndTemps, TypesKept DEF Progress
<1>5. Clean' => fits
  BY <1>2 DEF Clean, Excuses
<1>6. Clean' => Good(ref, expected, types')
  BY <1>2, <1>3, <1>5 DEF fits, Good
<1> QED
  BY <1>1, <1>2, <1>4, <1>6, LeafReturns

-----------------------------------------------------------------------------
(* Those that wait for their parts.                                        *)

LEMMA EmptyIsSequence == IsSequence(<<>>) /\ Len(<<>>) = 0
<1>1. <<>> \in Seq({})
  OBVIOUS
<1> QED
  BY <1>1, SomeSequence

LEMMA OneIsSequence ==
  ASSUME NEW a, NEW s, s = <<a>>
  PROVE  IsSequence(s) /\ Len(s) = 1 /\ DOMAIN s = {1} /\ s[1] = a
<1>1. s \in Seq({a}) /\ Len(s) = 1 /\ DOMAIN s = {1} /\ s[1] = a
  OBVIOUS
<1> QED
  BY <1>1, SomeSequence

LEMMA TwoAreSequence ==
  ASSUME NEW a, NEW b, NEW s, s = <<a, b>>
  PROVE  IsSequence(s) /\ Len(s) = 2 /\ DOMAIN s = {1, 2} /\ s[1] = a /\ s[2] = b
<1>1. s \in Seq({a, b}) /\ Len(s) = 2 /\ DOMAIN s = {1, 2} /\ s[1] = a /\ s[2] = b
  OBVIOUS
<1> QED
  BY <1>1, SomeSequence

LEMMA ThreeAreSequence ==
  ASSUME NEW a, NEW b, NEW c, NEW s, s = <<a, b, c>>
  PROVE  IsSequence(s) /\ Len(s) = 3 /\ DOMAIN s = {1, 2, 3} /\ s[1] = a /\ s[2] = b /\ s[3] = c
<1>1. s \in Seq({a, b, c}) /\ Len(s) = 3 /\ DOMAIN s = {1, 2, 3} /\ s[1] = a /\ s[2] = b /\ s[3] = c
  OBVIOUS
<1> QED
  BY <1>1, SomeSequence

LEMMA OpenedFrame ==
  ASSUME IInv, NEW node, NEW op, NEW operands, Open(node, op, operands)
  PROVE  \E f : /\ f = [node |-> node, op |-> op, expected |-> expected,
                      operands |-> operands, done |-> <<>>]
               /\ frames' = Append(frames, f)
               /\ f.node = node /\ f.op = op /\ f.expected = expected
               /\ f.operands = operands /\ f.done = <<>>
               /\ f = [node |-> f.node, op |-> f.op, expected |-> f.expected,
                       operands |-> f.operands, done |-> f.done]
BY DEF Open

LEMMA CompilePrefixKeeps ==
  ASSUME IInv, CompilePrefix
  PROVE  IInv'
<1>1. Awaiting /\ status = "compiling" /\ expected \in DOMAIN types
  BY Waiting DEF CompilePrefix
<1>2. PICK op \in PrefixOps : Open("prefix", op, <<expected>>)
  BY DEF CompilePrefix
<1>3. PICK f : /\ frames' = Append(frames, f)
               /\ f.node = "prefix" /\ f.op = op /\ f.expected = expected
               /\ f.operands = <<expected>> /\ f.done = <<>>
               /\ f = [node |-> f.node, op |-> f.op, expected |-> f.expected,
                       operands |-> f.operands, done |-> f.done]
  BY <1>2, OpenedFrame
<1>4. /\ UNCHANGED <<input, result, temps, status, types, causes>>
      /\ room' = room - Len(<<expected>>) /\ room >= Len(<<expected>>)
  BY <1>2 DEF CompilePrefix, Open
<1>5. Len(<<expected>>) = 1 /\ room' \in 0..MaxNodes
  BY <1>4, RoomAndTemps, ProgramAssumption, OneIsSequence
<1>6. Progress
  BY <1>1, <1>4, <1>5, RoomAndTemps, TypesKept DEF Progress
<1>7. FrameType(f, types', leftToRight)
  <2>1. /\ IsSequence(f.operands) /\ IsSequence(f.done) /\ Len(f.operands) = 1 /\ Len(f.done) = 0
        /\ \A k \in DOMAIN f.operands : f.operands[k] = expected
    BY <1>3, OneIsSequence, EmptyIsSequence
  <2> QED
    BY <1>1, <1>3, <1>4, <2>1 DEF FrameType
<1> QED
  BY <1>1, <1>3, <1>4, <1>6, <1>7, Opened

LEMMA CompileBinaryKeeps ==
  ASSUME IInv, CompileBinary
  PROVE  IInv'
<1>1. Awaiting /\ status = "compiling" /\ expected \in DOMAIN types
  BY Waiting DEF CompileBinary
<1>2. PICK op \in BinaryOps : Open("binary", op, <<expected, expected>>)
  BY DEF CompileBinary
<1>3. PICK f : /\ frames' = Append(frames, f)
               /\ f.node = "binary" /\ f.op = op /\ f.expected = expected
               /\ f.operands = <<expected, expected>> /\ f.done = <<>>
               /\ f = [node |-> f.node, op |-> f.op, expected |-> f.expected,
                       operands |-> f.operands, done |-> f.done]
  BY <1>2, OpenedFrame
<1>4. /\ UNCHANGED <<input, result, temps, status, types, causes>>
      /\ room' = room - Len(<<expected, expected>>) /\ room >= Len(<<expected, expected>>)
  BY <1>2 DEF CompileBinary, Open
<1>5. Len(<<expected, expected>>) = 2 /\ room' \in 0..MaxNodes
  BY <1>4, RoomAndTemps, ProgramAssumption, TwoAreSequence
<1>6. Progress
  BY <1>1, <1>4, <1>5, RoomAndTemps, TypesKept DEF Progress
<1>7. FrameType(f, types', leftToRight)
  <2>1. /\ IsSequence(f.operands) /\ IsSequence(f.done) /\ Len(f.operands) = 2 /\ Len(f.done) = 0
        /\ \A k \in DOMAIN f.operands : f.operands[k] = expected
    BY <1>3, TwoAreSequence, EmptyIsSequence
  <2> QED
    BY <1>1, <1>3, <1>4, <2>1 DEF FrameType
<1> QED
  BY <1>1, <1>3, <1>4, <1>6, <1>7, Opened

(* New objects come after the old ones.                                    *)
LEMMA TypesAdded ==
  ASSUME NEW ts, WellResolved(ts), ts \in Seq(TypeObject),
         NEW more \in Seq(TypeObject), WellResolved(more)
  PROVE  /\ ts \o more \in Seq(TypeObject) /\ WellResolved(ts \o more)
         /\ DOMAIN ts \subseteq DOMAIN (ts \o more)
         /\ \A o \in DOMAIN ts : (ts \o more)[o] = ts[o]
         /\ \A i \in 1..Len(more) : /\ Len(ts) + i \in DOMAIN (ts \o more)
                                  /\ (ts \o more)[Len(ts) + i] = more[i]
<1> DEFINE us == ts \o more
<1>1. us \in Seq(TypeObject) /\ Len(us) = Len(ts) + Len(more) /\ Len(ts) \in Nat /\ Len(more) \in Nat
  OBVIOUS
<1>2. \A o \in 1..(Len(ts) + Len(more)) : us[o] = IF o <= Len(ts) THEN ts[o] ELSE more[o - Len(ts)]
  OBVIOUS
<1>3. DOMAIN ts = 1..Len(ts) /\ DOMAIN more = 1..Len(more) /\ DOMAIN us = 1..(Len(ts) + Len(more))
  BY <1>1
<1> HIDE DEF us
<1>4. \A o \in DOMAIN ts : o \in DOMAIN us /\ us[o] = ts[o]
  BY <1>1, <1>2, <1>3
<1>5. \A i \in 1..Len(more) : Len(ts) + i \in DOMAIN us /\ us[Len(ts) + i] = more[i]
  <2> SUFFICES ASSUME NEW i \in 1..Len(more)
               PROVE  Len(ts) + i \in DOMAIN us /\ us[Len(ts) + i] = more[i]
    OBVIOUS
  <2>1. /\ Len(ts) + i \in 1..(Len(ts) + Len(more)) /\ ~(Len(ts) + i <= Len(ts))
        /\ (Len(ts) + i) - Len(ts) = i
    BY <1>1
  <2> QED
    BY <2>1, <1>2, <1>3
<1>6. ASSUME NEW o \in DOMAIN us PROVE ~Pending(us[o]) => us[o].resolved = us[o].kind
  <2>1. CASE o <= Len(ts)
    BY <1>1, <1>3, <1>4, <2>1 DEF WellResolved
  <2>2. CASE ~(o <= Len(ts))
    <3>1. o - Len(ts) \in DOMAIN more /\ us[o] = more[o - Len(ts)]
      BY <1>1, <1>2, <1>3, <2>2
    <3> QED
      BY <3>1 DEF WellResolved
  <2> QED
    BY <2>1, <2>2
<1> QED
  BY <1>1, <1>4, <1>5, <1>6 DEF us, WellResolved

LEMMA CompileTernaryKeeps ==
  ASSUME IInv, CompileTernary
  PROVE  IInv'
<1> DEFINE condition == Len(types) + 1
           operands == IF leftToRight THEN <<condition, expected, expected>>
                                      ELSE <<expected, expected, condition>>
<1>1. Awaiting /\ status = "compiling" /\ expected \in DOMAIN types
  BY Waiting DEF CompileTernary
<1>2. /\ types' = Append(types, TypeCondition) /\ Open("ternary", "?", operands)
      /\ UNCHANGED causes
  BY DEF CompileTernary
<1>3. PICK f : /\ frames' = Append(frames, f)
               /\ f.node = "ternary" /\ f.op = "?" /\ f.expected = expected
               /\ f.operands = operands /\ f.done = <<>>
               /\ f = [node |-> f.node, op |-> f.op, expected |-> f.expected,
                       operands |-> f.operands, done |-> f.done]
  BY <1>2, OpenedFrame
<1>4. /\ UNCHANGED <<input, result, temps, status>>
      /\ room' = room - Len(operands) /\ room >= Len(operands)
  BY <1>2 DEF Open
<1>5. /\ IsSequence(operands) /\ Len(operands) = 3 /\ DOMAIN operands = {1, 2, 3}
      /\ operands[2] = expected /\ operands[IF leftToRight THEN 3 ELSE 1] = expected
      /\ \A k \in {1, 2, 3} : operands[k] \in {condition, expected}
  <2> HIDE DEF condition
  <2>1. CASE leftToRight
    BY <2>1, ThreeAreSequence
  <2>2. CASE ~leftToRight
    BY <2>2, ThreeAreSequence
  <2> QED
    BY <2>1, <2>2
<1> HIDE DEF operands
<1>6. room' \in 0..MaxNodes
  BY <1>4, <1>5, RoomAndTemps, ProgramAssumption
<1>7. /\ types' \in Seq(TypeObject) /\ Len(types') = condition /\ condition \in DOMAIN types'
      /\ \A o \in DOMAIN types : o \in DOMAIN types' /\ types'[o] = types[o]
      /\ \A o \in DOMAIN types' : o \in DOMAIN types \/ types'[o] = TypeCondition
  <2>1. TypeCondition \in TypeObject /\ types \in Seq(TypeObject)
    BY RoomAndTemps DEF TypeCondition, TypeObject, PendingKinds
  <2>2. Append(types, TypeCondition) \in Seq(TypeObject) /\ DOMAIN types' = 1..condition
        /\ DOMAIN types = 1..Len(types) /\ Len(types) \in Nat
    BY <1>2, <2>1
  <2>3. \A o \in 1..condition : types'[o] = IF o <= Len(types) THEN types[o] ELSE TypeCondition
    BY <1>2, <2>1
  <2> QED
    BY <1>2, <2>2, <2>3
<1> HIDE DEF condition
<1>8. Extends(types, types') /\ Agrees(types, types')
  <2>1. Pending(TypeCondition)
    BY DEF Pending, TypeCondition, PendingKinds
  <2>2. WellResolved(types')
    BY <1>7, <2>1, RoomAndTemps DEF WellResolved
  <2> QED
    BY <1>7, <2>2 DEF Extends, Agrees
<1>9. Progress
  BY <1>1, <1>2, <1>4, <1>6, <1>8, RoomAndTemps DEF Progress
<1>10. FrameType(f, types', leftToRight)
  <2>1. IsSequence(f.done) /\ Len(f.done) = 0
    BY <1>3, EmptyIsSequence
  <2> QED
    BY <1>1, <1>3, <1>5, <1>7, <2>1 DEF FrameType
<1> QED
  BY <1>1, <1>3, <1>4, <1>9, <1>10, Opened

LEMMA CompileCallKeeps ==
  ASSUME IInv, NEW g \in Callees, CompileCall(g)
  PROVE  IInv'
<1> DEFINE arguments == ArgumentTypes[g]
           t == ReturnType[g]
           q == types[expected]
           o == tryResolveTo(q, t)
           us == [types EXCEPT ![expected] = o]
           more == [i \in DOMAIN arguments |-> Fixed(arguments[i])]
           operands == [i \in DOMAIN arguments |-> Len(types) + i]
<1>1. Awaiting /\ expected \in DOMAIN types /\ status = "compiling"
  BY Waiting DEF CompileCall
<1>2. /\ q \in TypeObject /\ (~Pending(q) => q.resolved = q.kind) /\ t \in Types
      /\ Len(arguments) \in Nat /\ DOMAIN arguments = 1..Len(arguments)
      /\ \A i \in DOMAIN arguments : arguments[i] \in Types
  BY <1>1, RoomAndTemps, SignatureTypes
<1>3. \/ Fail("ArgumentCountError")
      \/ Fail("TypeConvertError")
      \/ /\ Accepts(q, t)
         /\ types' = us \o more
         /\ causes' = causes \cup Mismatch(q, t)
         /\ Open("call", g, operands)
  BY <1>1, RoomAndTemps DEF CompileCall
<1>4. CASE Fail("ArgumentCountError") \/ Fail("TypeConvertError")
  BY <1>4, Failed DEF Errors
<1>5. CASE /\ Accepts(q, t)
           /\ types' = us \o more
           /\ causes' = causes \cup Mismatch(q, t)
           /\ Open("call", g, operands)
  <2>1. /\ o \in TypeObject /\ Pending(o) = Pending(q) /\ (~Pending(q) => o = q)
        /\ Mismatch(q, t) \subseteq Causes
        /\ Mismatch(q, t) \cap Excuses = {} =>
             /\ isResolved(o) /\ underlyingType(o.resolved) = underlyingType(t)
             /\ isResolved(q) => underlyingType(q.resolved) = underlyingType(t)
    BY <1>2, <1>5, Accepted
  <2>2. Clean' => Mismatch(q, t) \cap Excuses = {}
    BY <1>5 DEF Clean
  <2>3. Extends(types, us) /\ us[expected] = o
    <3> HIDE DEF o
    <3> QED
      BY <1>1, <2>1, TypesUpdated
  <2>4. Clean' => Agrees(types, us)
    <3> HIDE DEF o, t
    <3> QED
      BY <1>1, <2>1, <2>2, UpdateAgrees
  <2>5. Len(us) = Len(types) /\ DOMAIN us = DOMAIN types /\ Len(types) \in Nat
    BY RoomAndTemps
  <2>6. /\ more \in Seq(TypeObject) /\ Len(more) = Len(arguments)
        /\ \A i \in DOMAIN arguments : more[i] = Fixed(arguments[i])
    BY <1>2, FixedIsNotPending
  <2>7. WellResolved(more)
    BY <1>2, <2>6, FixedIsNotPending DEF WellResolved
  <2> HIDE DEF us, more
  <2>8. /\ types' \in Seq(TypeObject) /\ WellResolved(types') /\ DOMAIN us \subseteq DOMAIN types'
        /\ \A x \in DOMAIN us : types'[x] = us[x]
        /\ \A i \in 1..Len(more) : Len(us) + i \in DOMAIN types' /\ types'[Len(us) + i] = more[i]
    BY <1>5, <2>3, <2>6, <2>7, TypesAdded DEF Extends
  <2>9. Extends(types, types') /\ (Clean' => Agrees(types, types'))
    BY <2>3, <2>4, <2>5, <2>8 DEF Extends, Agrees
  <2>10. /\ IsSequence(operands) /\ Len(operands) = Len(arguments)
         /\ DOMAIN operands = DOMAIN arguments
         /\ \A k \in DOMAIN operands : /\ operands[k] \in DOMAIN types'
                                     /\ types'[operands[k]] = Fixed(arguments[k])
    <3>1. operands = [k \in 1..Len(arguments) |-> operands[k]]
      BY <1>2
    <3>2. IsSequence(operands) /\ Len(operands) = Len(arguments)
      <4> HIDE DEF operands
      <4> QED
        BY <1>2, <3>1, FunctionIsSequence
    <3> QED
      BY <1>2, <2>5, <2>6, <2>8, <3>2
  <2> HIDE DEF operands
  <2>11. PICK f : /\ frames' = Append(frames, f)
                  /\ f.node = "call" /\ f.op = g /\ f.expected = expected
                  /\ f.operands = operands /\ f.done = <<>>
                  /\ f = [node |-> f.node, op |-> f.op, expected |-> f.expected,
                          operands |-> f.operands, done |-> f.done]
    BY <1>5, OpenedFrame
  <2>12. /\ UNCHANGED <<input, result, temps, status>>
         /\ room' = room - Len(operands) /\ room >= Len(operands)
    BY <1>5 DEF Open
  <2>13. room' \in 0..MaxNodes
    BY <1>2, <2>10, <2>12, RoomAndTemps, ProgramAssumption
  <2>14. Progress
    BY <1>1, <1>5, <2>1, <2>9, <2>12, <2>13, RoomAndTemps DEF Progress
  <2>15. FrameType(f, types', leftToRight)
    <3>1. IsSequence(f.done) /\ Len(f.done) = 0
      BY <2>11, EmptyIsSequence
    <3>2. expected \in DOMAIN types' /\ Len(operands) \in Nat
      BY <1>1, <1>2, <2>5, <2>8, <2>10
    <3> QED
      BY <2>10, <2>11, <3>1, <3>2 DEF FrameType
  <2>16. Clean' => Good([valid |-> TRUE, type |-> underlyingType(t)], expected, types')
    BY <1>1, <2>1, <2>2, <2>3, <2>5, <2>8 DEF Good
  <2> QED
    BY <1>1, <2>11, <2>12, <2>14, <2>15, <2>16, Opened
<1> QED
  BY <1>3, <1>4, <1>5

-----------------------------------------------------------------------------
(* Those whose parts are compiled.                                         *)

LEMMA ClosingProgresses ==
  ASSUME IInv, NEW node, Complete(node), NEW ref, NEW new, Close(ref, new), new \subseteq Causes,
         temps' \in Seq(Types)
  PROVE  /\ Progress /\ Return(Front(frames), ref) /\ types' = types
         /\ Clean' => new \cap Excuses = {} /\ Clean
<1>1. /\ Return(Front(frames), ref) /\ causes' = causes \cup new
      /\ UNCHANGED <<input, types, room, status>>
  BY DEF Close
<1>2. status = "compiling"
  BY CompleteFrame
<1>3. causes' \subseteq Causes
  BY <1>1, RoomAndTemps
<1> QED
  BY <1>1, <1>2, <1>3, RoomAndTemps, TypesKept DEF Progress, Clean

(* What is left to show of an action that closes a frame.                  *)
LEMMA Closed ==
  ASSUME IInv, NEW node, Complete(node), NEW ref, NEW new, Close(ref, new), new \subseteq Causes,
         temps' \in Seq(Types),
         new \cap Excuses = {} /\ Sound(top, types) => Good(ref, top.expected, types)
  PROVE  IInv'
<1>1. /\ Progress /\ Return(Front(frames), ref) /\ types' = types
      /\ Clean' => new \cap Excuses = {} /\ Clean
  BY ClosingProgresses
<1>2. Clean => Sound(top, types)
  BY CompleteFrame
<1>3. Clean' => Good(ref, top.expected, types')
  BY <1>1, <1>2
<1> QED
  BY <1>1, <1>3, FrameReturns

LEMMA FailedOperator ==
  ASSUME IInv, NEW t, Fail("unresolved type") \/ Fail(OperatorError(t))
  PROVE  IInv'
<1>1. OperatorError(t) \in Errors /\ "unresolved type" \in Errors
  BY DEF OperatorError, Errors
<1> QED
  BY <1>1, Failed

LEMMA ClosePrefixKeeps ==
  ASSUME IInv, ClosePrefix
  PROVE  IInv'
<1> DEFINE t == resolvedType
           x == top.done[1]
           code == handlePrefixOp(t, top.op, x)
           ref == Ref(<<"prefix", top.op, x.expr>>, code.code, code.type, code.valid)
           new == IF top.op = "NOT" /\ underlyingType(t) # "i32" THEN {"flag"} ELSE {}
<1>1. /\ Complete("prefix")
      /\ \/ Fail("unresolved type") \/ Fail(OperatorError(t))
         \/ t # Unresolved /\ Close(ref, new) /\ UNCHANGED temps
  BY DEF ClosePrefix
<1>2. /\ top.op \in PrefixOps /\ top.operands = <<top.expected>> /\ IsSequence(top.done)
      /\ Len(top.done) = Len(top.operands)
  BY <1>1, CompleteFrame DEF FrameType
<1>3. 1 \in DOMAIN top.done /\ top.operands[1] = top.expected
  BY <1>2, OneIsSequence, SequenceIn
<1>4. ASSUME t # Unresolved, new \cap Excuses = {}, Sound(top, types)
      PROVE  Good(ref, top.expected, types)
  <2>1. x.valid /\ x.type = underlyingType(t)
    BY <1>3, <1>4 DEF Sound, Good, resolvedType
  <2>2. top.op \in {"ADD", "SUB", "NOT"}
    BY <1>2, ProgramAssumption DEF PrefixOp
  <2>3. ref.valid = code.valid /\ ref.type = code.type
    BY DEF Ref
  <2> HIDE DEF x, ref
  <2>4. code.valid /\ code.type = underlyingType(t)
    <3>1. CASE top.op = "ADD"
      BY <2>1, <3>1 DEF handlePrefixOp
    <3>2. CASE top.op = "SUB"
      BY <2>1, <3>2 DEF handlePrefixOp, BinaryenBinary, Instruction, Zero, BinaryenConst, Comparisons
    <3>3. CASE top.op = "NOT"
      <4>1. underlyingType(t) = "i32"
        BY <1>4, <3>3 DEF Excuses
      <4> QED
        BY <2>1, <3>3, <4>1 DEF handlePrefixOp, BinaryenUnary, Instruction
    <3> QED
      BY <2>2, <3>1, <3>2, <3>3
  <2> HIDE DEF code
  <2> QED
    BY <1>4, <2>3, <2>4 DEF Good, isResolved, resolvedType
<1>5. new \subseteq Causes
  BY DEF Causes
<1> HIDE DEF t, ref, new
<1>6. CASE Fail("unresolved type") \/ Fail(OperatorError(t))
  BY <1>6, FailedOperator
<1>7. CASE t # Unresolved /\ Close(ref, new) /\ UNCHANGED temps
  BY <1>1, <1>4, <1>5, <1>7, RoomAndTemps, Closed
<1> QED
  BY <1>1, <1>6, <1>7

(* The validator accepts an instruction, and an `if`, on what was expected. *)
LEMMA BinaryCode ==
  ASSUME NEW i, NEW l, NEW r, l.valid, r.valid, l.type = i.on, r.type = i.on,
         i.do \in Comparisons => i.on = "i32"
  PROVE  BinaryenBinary(i, l, r).valid /\ BinaryenBinary(i, l, r).type = i.on
BY DEF BinaryenBinary

LEMMA IfCode ==
  ASSUME NEW c, NEW l, NEW r, c.valid, l.valid, r.valid, c.type = "i32", l.type = r.type
  PROVE  BinaryenIf(c, l, r).valid /\ BinaryenIf(c, l, r).type = l.type
BY DEF BinaryenIf

LEMMA LogicCode ==
  ASSUME NEW t, NEW op, NEW n, NEW l, NEW r, l.valid, r.valid, l.type = "i32", r.type = "i32",
         underlyingType(t) = "i32"
  PROVE  LogicValue(t, op, n, l, r).valid /\ LogicValue(t, op, n, l, r).type = "i32"
<1> DEFINE c == BinaryenLocalTee(n, l, underlyingType(t))
           left == BinaryenLocalGet(n, underlyingType(t))
<1>1. c.valid /\ c.type = "i32" /\ left.valid /\ left.type = "i32"
  BY DEF BinaryenLocalTee, BinaryenLocalGet
<1>2. LogicValue(t, op, n, l, r) =
        IF op = "LOGIC_AND" THEN BinaryenIf(c, r, left) ELSE BinaryenIf(c, left, r)
  BY DEF LogicValue
<1> HIDE DEF c, left
<1>3. /\ BinaryenIf(c, r, left).valid /\ BinaryenIf(c, r, left).type = "i32"
      /\ BinaryenIf(c, left, r).valid /\ BinaryenIf(c, left, r).type = "i32"
  BY <1>1, IfCode
<1> QED
  BY <1>2, <1>3

LEMMA CloseBinaryKeeps ==
  ASSUME IInv, CloseBinary
  PROVE  IInv'
<1> DEFINE t == resolvedType
           w == underlyingType(t)
           l == top.done[1]
           r == top.done[2]
           code == handleBinaryOp(t, top.op, Len(temps) + 1, l, r)
           ref == Ref(<<"binary", top.op, l.expr, r.expr>>, code.code, code.type, code.valid)
           new == IF w = "i32" THEN {}
                  ELSE IF top.op \in Comparisons THEN {"flag"}
                  ELSE IF top.op \in Logic THEN {"condition"} ELSE {}
<1>1. /\ Complete("binary")
      /\ \/ Fail("unresolved type") \/ Fail(OperatorError(t))
         \/ /\ t # Unresolved /\ Close(ref, new)
            /\ temps' = IF top.op \in Logic THEN Append(temps, t) ELSE temps
  BY DEF CloseBinary
<1>2. /\ top.operands = <<top.expected, top.expected>> /\ IsSequence(top.done)
      /\ Len(top.done) = Len(top.operands)
  BY <1>1, CompleteFrame DEF FrameType
<1>3. /\ {1, 2} = DOMAIN top.done
      /\ top.operands[1] = top.expected /\ top.operands[2] = top.expected
  BY <1>2, TwoAreSequence, SequenceIn
<1>4. ASSUME t # Unresolved, new \cap Excuses = {}, Sound(top, types)
      PROVE  Good(ref, top.expected, types)
  <2>1. l.valid /\ l.type = w /\ r.valid /\ r.type = w
    BY <1>3, <1>4 DEF Sound, Good, resolvedType
  <2>2. ref.valid = code.valid /\ ref.type = code.type
    BY DEF Ref
  <2> HIDE DEF l, r, ref
  <2>3. code.valid /\ code.type = w
    <3>1. CASE top.op \in Logic
      <4>1. w = "i32"
        BY <1>4, <3>1 DEF Excuses, Logic, Comparisons
      <4>2. code = LogicValue(t, top.op, Len(temps) + 1, l, r)
        BY <3>1 DEF handleBinaryOp
      <4> QED
        BY <2>1, <4>1, <4>2, LogicCode
    <3>2. CASE top.op \notin Logic
      <4>1. code = BinaryenBinary(Instruction(t, top.op), l, r)
        BY <3>2 DEF handleBinaryOp
      <4>2. top.op \in Comparisons => w = "i32"
        BY <1>4 DEF Excuses
      <4>3. Instruction(t, top.op).on = w /\ Instruction(t, top.op).do = top.op
        BY DEF Instruction
      <4> HIDE DEF w
      <4> QED
        BY <2>1, <4>1, <4>2, <4>3, BinaryCode
    <3> QED
      BY <3>1, <3>2
  <2> HIDE DEF code
  <2> QED
    BY <1>4, <2>2, <2>3 DEF Good, isResolved, resolvedType
<1>5. new \subseteq Causes
  BY DEF Causes
<1>6. t # Unresolved => t \in Types
  BY <1>1, CompleteFrame, RoomAndTemps DEF resolvedType, TypeObject
<1> HIDE DEF t, ref, new
<1>7. CASE Fail("unresolved type") \/ Fail(OperatorError(t))
  BY <1>7, FailedOperator
<1>8. CASE /\ t # Unresolved /\ Close(ref, new)
           /\ temps' = IF top.op \in Logic THEN Append(temps, t) ELSE temps
  <2>1. temps' \in Seq(Types)
    BY <1>6, <1>8, RoomAndTemps
  <2> QED
    BY <1>1, <1>4, <1>5, <1>8, <2>1, Closed
<1> QED
  BY <1>1, <1>7, <1>8

LEMMA CloseTernaryKeeps ==
  ASSUME IInv, CloseTernary
  PROVE  IInv'
<1> DEFINE parts == IF leftToRight THEN top.done ELSE Reverse(top.done)
           code == BinaryenIf(parts[1], parts[2], parts[3])
           condition == types[top.operands[IF leftToRight THEN 1 ELSE 3]].resolved
           ref == Ref(<<"ternary", condition, parts[1].expr, parts[2].expr, parts[3].expr>>,
                      code.code, code.type, code.valid)
           new == IF parts[1].type = "i32" THEN {} ELSE {"condition"}
<1>1. Complete("ternary") /\ Close(ref, new) /\ UNCHANGED temps
  BY DEF CloseTernary
<1>2. /\ Len(top.operands) = 3 /\ top.operands[2] = top.expected
      /\ top.operands[IF leftToRight THEN 3 ELSE 1] = top.expected
      /\ IsSequence(top.done) /\ Len(top.done) = 3
  BY <1>1, CompleteFrame DEF FrameType
<1>3. /\ DOMAIN top.done = {1, 2, 3}
      /\ parts[1] = top.done[IF leftToRight THEN 1 ELSE 3]
      /\ parts[2] = top.done[2]
      /\ parts[3] = top.done[IF leftToRight THEN 3 ELSE 1]
  BY <1>2, SequenceIn DEF Reverse
<1> HIDE DEF parts
<1>4. ASSUME new \cap Excuses = {}, Sound(top, types)
      PROVE  Good(ref, top.expected, types)
  <2>1. \A k \in {1, 2, 3} : Good(top.done[k], top.operands[k], types)
    BY <1>3, <1>4 DEF Sound
  <2>2. /\ parts[1].valid
        /\ Good(parts[2], top.expected, types) /\ Good(parts[3], top.expected, types)
    BY <1>2, <1>3, <2>1 DEF Good
  <2>3. parts[1].type = "i32"
    BY <1>4 DEF Excuses
  <2>4. code.valid /\ code.type = parts[2].type
    BY <2>2, <2>3, IfCode DEF Good
  <2>5. ref.valid = code.valid /\ ref.type = code.type
    BY DEF Ref
  <2> HIDE DEF code, ref
  <2> QED
    BY <2>2, <2>4, <2>5 DEF Good
<1>5. new \subseteq Causes
  BY DEF Causes
<1> HIDE DEF ref, new
<1> QED
  BY <1>1, <1>4, <1>5, RoomAndTemps, Closed

LEMMA CloseCallKeeps ==
  ASSUME IInv, CloseCall
  PROVE  IInv'
<1> DEFINE f == top.op
           operands == top.done
           exprs == [i \in DOMAIN operands |-> operands[i].expr]
           codes == [i \in DOMAIN operands |-> operands[i].code]
           valid == \A i \in DOMAIN operands :
                      operands[i].valid /\ operands[i].type = underlyingType(ArgumentTypes[f][i])
           ref == Ref(<<"call", f, exprs>>, <<"call", f, codes>>, underlyingType(ReturnType[f]), valid)
<1>1. Complete("call") /\ Close(ref, {}) /\ UNCHANGED temps
  BY DEF CloseCall
<1>2. /\ f \in Callees /\ IsSequence(top.done) /\ DOMAIN top.done = DOMAIN top.operands
      /\ Len(top.operands) = Len(ArgumentTypes[f])
      /\ \A k \in DOMAIN top.operands : types[top.operands[k]] = Fixed(ArgumentTypes[f][k])
      /\ DOMAIN top.operands = 1..Len(ArgumentTypes[f])
  BY <1>1, CompleteFrame, SequenceIn DEF FrameType
<1>3. top.node = "call"
  BY <1>1, CompleteFrame
<1>4. ASSUME Sound(top, types) PROVE Good(ref, top.expected, types)
  <2>1. ASSUME NEW k \in DOMAIN operands
        PROVE  operands[k].valid /\ operands[k].type = underlyingType(ArgumentTypes[f][k])
    <3>1. Good(operands[k], top.operands[k], types)
      BY <1>4, <2>1 DEF Sound
    <3>2. ArgumentTypes[f][k] \in Types /\ types[top.operands[k]] = Fixed(ArgumentTypes[f][k])
      BY <1>2, <2>1, SignatureTypes
    <3> QED
      BY <3>1, <3>2, FixedIsNotPending DEF Good
  <2>2. valid
    BY <2>1
  <2>3. ref.valid = valid /\ ref.type = underlyingType(ReturnType[f])
    BY DEF Ref
  <2> HIDE DEF valid, ref
  <2> QED
    BY <1>3, <1>4, <2>2, <2>3 DEF Sound, Good
<1> HIDE DEF ref
<1> QED
  BY <1>1, <1>4, RoomAndTemps, Closed

(* Only `void` has no wasm type.                                           *)
LEMMA NothingIsNone ==
  ASSUME NEW t \in Types
  PROVE  underlyingType(t) = Nothing <=> t = "None"
<1>1. CASE t \in Objects
  BY <1>1, ObjectsAssumption
     DEF underlyingType, Nothing, WasmTypes, Numbers, Narrow, Wide, Floats
<1>2. CASE t \notin Objects
  BY <1>2 DEF Types, underlyingType, Nothing, Numbers, Narrow, Wide, Floats
<1> QED
  BY <1>1, <1>2

LEMMA ConsumeKeeps ==
  ASSUME IInv, Consume
  PROVE  IInv'
<1> DEFINE ref == result[1]
           new == IF use.is = "condition" /\ ref.type # "i32" THEN {"condition"} ELSE {}
<1>1. \/ Fail("unresolved type")
      \/ /\ use.is = "statement" => isResolved(types[Root])
         /\ status' = IF ref.valid /\ Consumed(ref) THEN "valid" ELSE "invalid"
         /\ causes' = causes \cup new
         /\ UNCHANGED <<input, types, frames, result, temps, room>>
  BY DEF Consume
<1>2. result # <<>> /\ 1 \in DOMAIN result
  <2>1. result # <<>> /\ IsSequence(result)
    BY DEF Consume, IInv
  <2> QED
    BY <2>1, SequenceIn
<1>3. new \subseteq Causes /\ causes \subseteq Causes
  BY RoomAndTemps DEF Causes
<1>4. ASSUME Clean, new \cap Excuses = {}
      PROVE  ref.valid /\ Consumed(ref)
  <2>1. ref.valid /\ isResolved(types[Root]) /\ ref.type = underlyingType(types[Root].resolved)
    BY <1>2, <1>4 DEF IInv, Good
  <2>2. CASE use.is = "statement"
    <3>1. types[Root].resolved \in Types
      BY <2>1, RoomAndTemps DEF IInv, TypeOK, Root, TypeObject, isResolved
    <3> QED
      BY <2>1, <2>2, <3>1, NothingIsNone DEF Consumed
  <2>3. CASE use.is = "condition"
    BY <1>4, <2>1, <2>3 DEF Consumed, Excuses
  <2>4. CASE use.is \in {"typed", "inferred"}
    <3>1. use.type \in Types /\ types[Root] = Fixed(use.type)
      BY <2>4, ProgramAssumption DEF IInv, TypeOK, Use, ValueTypes, Types
    <3>2. ref.type = underlyingType(use.type)
      BY <2>1, <3>1, FixedIsNotPending
    <3> QED
      BY <2>1, <2>4, <3>2 DEF Consumed
  <2>5. use.is \in {"statement", "condition", "typed", "inferred"}
    BY ProgramAssumption DEF IInv, TypeOK, Use
  <2> QED
    BY <2>2, <2>3, <2>4, <2>5
<1> HIDE DEF ref, new
<1>5. CASE Fail("unresolved type")
  BY <1>5, Failed DEF Errors
<1>6. CASE /\ status' = IF ref.valid /\ Consumed(ref) THEN "valid" ELSE "invalid"
           /\ causes' = causes \cup new
           /\ UNCHANGED <<input, types, frames, result, temps, room>>
  <2>1. status' \in {"valid", "invalid"} /\ causes \subseteq causes' /\ causes' \subseteq Causes
    BY <1>3, <1>6
  <2>2. Clean' => Clean /\ new \cap Excuses = {}
    BY <1>6 DEF Clean
  <2>3. status' = "invalid" => ~Clean'
    BY <1>4, <1>6, <2>2
  <2> QED
    BY <1>6, <2>1, <2>3, Stopped
<1> QED
  BY <1>1, <1>5, <1>6

-----------------------------------------------------------------------------
LEMMA InitIInv ==
  ASSUME Init
  PROVE  IInv
<1> DEFINE o == CASE use.is = "statement" -> TypeAuto
                  [] use.is = "condition" -> TypeCondition
                  [] use.is \in {"typed", "inferred"} -> Fixed(use.type)
<1>1. /\ use \in Uses /\ leftToRight \in BOOLEAN /\ types = <<o>> /\ frames = <<>> /\ result = <<>>
      /\ temps = <<>> /\ causes = {} /\ room = MaxNodes - 1 /\ status = "compiling"
  BY DEF Init
<1>2. /\ o \in TypeObject /\ (~Pending(o) => o.resolved = o.kind)
      /\ use.is \in {"typed", "inferred"} => o = Fixed(use.type)
  <2>1. CASE use.is = "statement"
    BY <2>1 DEF TypeAuto, TypeObject, PendingKinds, Pending
  <2>2. CASE use.is = "condition"
    BY <2>2 DEF TypeCondition, TypeObject, PendingKinds, Pending
  <2>3. CASE use.is \in {"typed", "inferred"}
    <3>1. use.type \in Types /\ o = Fixed(use.type)
      BY <1>1, <2>3, ProgramAssumption DEF Use, ValueTypes, Types
    <3>2. Fixed(use.type) \in TypeObject /\ (~Pending(Fixed(use.type)) => Fixed(use.type).resolved = Fixed(use.type).kind)
      BY <3>1, FixedIsNotPending
    <3> HIDE DEF o
    <3> QED
      BY <3>1, <3>2
  <2>4. use.is \in {"statement", "condition", "typed", "inferred"}
    BY <1>1, ProgramAssumption DEF Use
  <2> QED
    BY <2>1, <2>2, <2>3, <2>4
<1> HIDE DEF o
<1>3. types \in Seq(TypeObject) /\ types # <<>> /\ DOMAIN types = {1} /\ types[1] = o
  BY <1>1, <1>2
<1>4. WellResolved(types) /\ (use.is \in {"typed", "inferred"} => types[Root] = Fixed(use.type))
  BY <1>2, <1>3 DEF WellResolved, Root
<1>5. IsSequence(frames) /\ IsSequence(result) /\ DOMAIN frames = {} /\ DOMAIN result = {}
  BY <1>1, EmptyIsSequence, SequenceIn
<1>6. TypeOK
  BY <1>1, <1>3, <1>5, ProgramAssumption DEF TypeOK
<1> QED
  BY <1>1, <1>4, <1>5, <1>6 DEF IInv, Linked, ValidUnlessExcused

LEMMA NextKeepsIInv ==
  ASSUME IInv, [Next]_vars
  PROVE  IInv'
<1>1. CASE UNCHANGED vars
  BY <1>1, Stopped, RoomAndTemps DEF vars, IInv, TypeOK, ValidUnlessExcused, Clean
<1>2. CASE CompileInteger
  BY <1>2, CompileIntegerKeeps
<1>3. CASE CompileFloat
  BY <1>3, CompileFloatKeeps
<1>4. CASE CompileFunctionName
  <2>1. \E error \in Errors : Fail(error)
    BY <1>4 DEF CompileFunctionName, Errors
  <2> QED
    BY <2>1, Failed
<1>5. CASE \E x \in Variables : CompileVariable(x)
  BY <1>5, CompileVariableKeeps
<1>6. CASE \E m \in MemberPaths : CompileMember(m)
  BY <1>6, CompileMemberKeeps
<1>7. CASE CompilePrefix
  BY <1>7, CompilePrefixKeeps
<1>8. CASE CompileBinary
  BY <1>8, CompileBinaryKeeps
<1>9. CASE CompileTernary
  BY <1>9, CompileTernaryKeeps
<1>10. CASE \E f \in Callees : CompileCall(f)
  BY <1>10, CompileCallKeeps
<1>11. CASE ClosePrefix
  BY <1>11, ClosePrefixKeeps
<1>12. CASE CloseBinary
  BY <1>12, CloseBinaryKeeps
<1>13. CASE CloseTernary
  BY <1>13, CloseTernaryKeeps
<1>14. CASE CloseCall
  BY <1>14, CloseCallKeeps
<1>15. CASE Consume
  BY <1>15, ConsumeKeeps
<1> QED
  BY <1>1, <1>2, <1>3, <1>4, <1>5, <1>6, <1>7, <1>8, <1>9, <1>10, <1>11, <1>12, <1>13, <1>14, <1>15
     DEF Next

LEMMA Invariant == Spec => []IInv
<1>1. Init => IInv
  BY InitIInv
<1>2. IInv /\ [Next]_vars => IInv'
  BY NextKeepsIInv
<1> QED
  BY <1>1, <1>2, PTL DEF Spec

(* The compilation of an expression keeps its state well-formed: a frame's *)
(* operands are compiled against objects that exist, and no frame has more *)
(* parts than it asked for (compileExpression, every program).             *)
THEOREM ExpressionsWellFormed == Spec => []TypeOK
<1>1. IInv => TypeOK
  BY DEF IInv
<1> QED
  BY <1>1, Invariant, PTL

(* An expression of any size over any scope that is accepted gives code    *)
(* that validates, unless one of the five excuses was noted on the way:    *)
(* the type decided anew with another wasm type, an i32 flag taken for     *)
(* a wider type, a wide condition, a member or an object of another class  *)
(* (tryResolveTo, handleBinaryOp, handlePrefixOp, compileMemberExpression).*)
THEOREM AcceptedValidatesUnlessExcused == Spec => []ValidUnlessExcused
<1>1. IInv => ValidUnlessExcused
  BY DEF IInv
<1> QED
  BY <1>1, Invariant, PTL
=============================================================================
