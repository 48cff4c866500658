---------------------------- MODULE CallsMeaning -----------------------------
(***************************************************************************)
(* What a statement with calls means, and what its code does on a machine  *)
(* with a stack, variables and the scratch memory.  A callee is known by   *)
(* what Storage shows of it: its result is in memory at 0 or returned, the *)
(* receiver of a method that is not readonly in memory behind it.          *)
(***************************************************************************)
EXTENDS Calls

(* Every wasm value has a name: where it was before the statement, or      *)
(* which call made it.                                                     *)
Value(x) == [k \in DOMAIN Slots[VariableType[x]] |-> <<x, k>>]
ResultOf(n, t) == [k \in DOMAIN underlyingTypes(t) |-> <<"result", n, k>>]
ChangedBy(n, t) == [k \in DOMAIN Slots[t] |-> <<"this", n, k>>]
Changes(f) == f \in Methods \ Readonly

-----------------------------------------------------------------------------
(* The meaning: values are objects, calls happen in the order of the text, *)
(* and a method changes its receiver.                                      *)

Meant(m, event) ==
  LET f == event[2]
      arity == Len(ArgumentTypes[f])
      arguments == FlattenSeq(SubSeq(m.stack, Len(m.stack) - arity + 1, Len(m.stack)))
      n == Len(m.calls) + 1
  IN  IF event[1] = "variable" THEN [m EXCEPT !.stack = Append(@, m.variables[event[2]])]
      ELSE [m EXCEPT
              !.stack = Append(SubSeq(@, 1, Len(@) - arity), ResultOf(n, ReturnType[f])),
              !.calls = Append(@, <<f, arguments>>),
              !.variables = IF Changes(f)
                THEN [@ EXCEPT ![event[3]] = ChangedBy(n, Last(ArgumentTypes[f]))] ELSE @]
Meaning ==
  FoldLeft(Meant, [stack |-> <<>>, variables |-> [x \in Variables |-> Value(x)], calls |-> <<>>],
           value[1].expr)

-----------------------------------------------------------------------------
(* The wasm machine.  A store makes what it overlaps unreadable.           *)

Write(memory, at, w, v) ==
  [p \in {p \in DOMAIN memory : p + Bytes[memory[p].type] <= at \/ p >= at + Bytes[w]} \cup {at} |->
     IF p = at THEN [type |-> w, is |-> v] ELSE memory[p]]
Read(memory, at, w) ==
  IF at \in DOMAIN memory /\ memory[at].type = w THEN memory[at].is ELSE <<"junk">>
WriteAll(memory, base, L, values) ==
  FoldLeft(LAMBDA mem, k : Write(mem, base + Offset(L, k), L[k], values[k]), memory, [k \in DOMAIN L |-> k])
ReadAll(memory, base, L) == [k \in DOMAIN L |-> Read(memory, base + Offset(L, k), L[k])]
Empty == [p \in {} |-> [type |-> "i32", is |-> <<"junk">>]]

(* What a callee leaves in memory.                                         *)
AfterCall(memory, f, n) ==
  LET t == ReturnType[f]
      before == IF Clobbering THEN Empty ELSE memory
      result == IF LoadsFromMemory(t) THEN WriteAll(before, 0, Slots[t], ResultOf(n, t)) ELSE before
      this == Last(ArgumentTypes[f])
  IN  IF Changes(f) THEN WriteAll(result, ReceiverAt(f), Slots[this], ChangedBy(n, this)) ELSE result

Executed(m, i) ==
  LET popped(n) == SubSeq(m.stack, 1, Len(m.stack) - n)
      f == i[2]
      n == Len(m.calls) + 1
  IN  CASE i[1] = "get" -> [m EXCEPT !.stack = Append(@, m.variables[i[2]][i[3]])]
        [] i[1] = "load" -> [m EXCEPT !.stack = Append(@, Read(m.memory, i[2], i[3]))]
        [] i[1] = "set" ->
             [m EXCEPT !.variables[i[2]][i[3]] = Last(m.stack), !.stack = popped(1)]
        [] i[1] = "store" ->
             [m EXCEPT !.memory = Write(@, i[2], i[3], Last(m.stack)), !.stack = popped(1)]
        [] i[1] = "drop" -> [m EXCEPT !.stack = popped(1)]
        [] i[1] = "return" -> m
        [] i[1] = "call" ->
             [m EXCEPT
                !.stack = popped(i[3]) \o
                  (IF ReturnsValue(ReturnType[f]) THEN ResultOf(n, ReturnType[f]) ELSE <<>>),
                !.calls = Append(@, <<f, SubSeq(m.stack, Len(m.stack) - i[3] + 1, Len(m.stack))>>),
                !.memory = AfterCall(@, f, n)]
Machine ==
  FoldLeft(Executed, [stack |-> <<>>, variables |-> [x \in Variables |-> Value(x)],
                      calls |-> <<>>, memory |-> Empty], body)

-----------------------------------------------------------------------------
(* The code makes the calls of the text, in its order, each with its       *)
(* arguments, and stores or returns the result: what a call left in memory *)
(* is read before the next one writes there (compileCallExpression).  What *)
(* methods do to their receivers is another matter.                        *)
Receivers == {value[1].expr[i][3] : i \in {i \in DOMAIN value[1].expr :
                value[1].expr[i][1] = "call" /\ Changes(value[1].expr[i][2])}}
Delivered ==
  CASE use.is = "drop" -> TRUE
    [] use.is = "store" -> Machine.variables[use.to] = Last(Meaning.stack)
    [] use.is = "return" ->
         Last(Meaning.stack) = IF ReturnsValue(use.type) THEN Machine.stack
                               ELSE ReadAll(Machine.memory, 0, underlyingTypes(use.type))
MatchesMeaning ==
  status = "valid" /\ Receivers = {} =>
    /\ Machine.calls = Meaning.calls
    /\ Delivered
    /\ \A x \in Variables :
         (use.is = "store" /\ x = use.to) \/ Machine.variables[x] = Value(x)

(* "any change for `this` should be assigned back"                         *)
(* (src/ir/function.cpp:30): after the statement the receiver is what the  *)
(* method made of it.                                                      *)
ReceiverAssignedBack ==
  status = "valid" =>
    \A x \in Receivers :
      (use.is = "store" /\ x = use.to) \/ Machine.variables[x] = Meaning.variables[x]

(* The same comment, of the method itself: when it returns, the receiver   *)
(* it had is in memory behind the result, where the caller could read it.  *)
(* A result that is returned by value and takes a call to compute is       *)
(* excepted: finalizeReturn stores the receiver before that call, which    *)
(* may write there (compileReturnStatement).                               *)
ReceiverBehindResult ==
  status = "valid" /\ use.is = "return" /\ use.this # "none"
    /\ (ReturnsValue(use.type) => Machine.calls = <<>>) =>
      ReadAll(Machine.memory, getSize(underlyingTypes(use.type)), Slots[VariableType[use.this]])
        = Machine.variables[use.this]
=============================================================================
