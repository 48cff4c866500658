----------------------------- MODULE Variables ------------------------------
(***************************************************************************)
(* What a walang function promises about its variables, without a word of  *)
(* wasm: a variable holds a value of its type, a value of a class is the   *)
(* values of its members one after the other, an assignment changes the    *)
(* variable or member it names and nothing else, and a call ends with the  *)
(* value returned and, for a method that is not @readonly, with the        *)
(* receiver as the body left it.                                           *)
(***************************************************************************)
EXTENDS Layout

CONSTANT MaxLength   (* bounds the statements of a body                    *)

VARIABLES
  function,   (* the function called                                       *)
  locals,     (* its arguments and local variables, with their values      *)
  globals,    (* the global variables, with theirs                         *)
  statement,  (* the statement that is next, once it is chosen             *)
  length,     (* the statements executed                                   *)
  outcome     (* "running", or how the call ended and with what            *)
vars == <<function, locals, globals, statement, length, outcome>>

Initially(kind, v) ==
  [name |-> v.name, type |-> v.type,
   value |-> [k \in DOMAIN Slots[v.type] |-> <<kind, v.name, k>>]]
Running == [is |-> "running", result |-> <<>>, receiver |-> <<>>]
Receiver ==
  IF function.writesBack THEN locals[Len(function.arguments)].value ELSE <<>>

(* Where the member m of a value starts, and which part of it it is.       *)
Part(part, m) ==
  LET before == SubSeq(Members[part.type], 1, MemberIndex(part.type, m) - 1)
  IN  [type |-> MemberType(part.type, m),
       from |-> part.from + Len(FlattenSeq([i \in DOMAIN before |-> Slots[before[i].type]]))]
PartOf(type, path) ==
  LET part[k \in 1..Len(path)] ==
        IF k = 1 THEN [type |-> type, from |-> 1] ELSE Part(part[k - 1], path[k])
  IN  part[Len(path)]
Get(v, path) ==
  LET part == PartOf(v.type, path)
  IN  SubSeq(v.value, part.from, part.from + Len(Slots[part.type]) - 1)
Put(v, path, value) ==
  LET part == PartOf(v.type, path)
  IN  [v EXCEPT !.value = [k \in DOMAIN v.value |->
         IF k \in part.from..(part.from + Len(value) - 1)
           THEN value[k - part.from + 1] ELSE v.value[k]]]
PutNamed(vs, path, value) ==
  [vs EXCEPT ![First(vs, Head(path))] = Put(@, path, value)]

Value(source) ==
  CASE source.of = "path" /\ Named(locals, Head(source.path)) # {} ->
         Get(locals[First(locals, Head(source.path))], source.path)
    [] source.of = "path" /\ IsGlobal(locals, globals, Head(source.path)) ->
         Get(globals[First(globals, Head(source.path))], source.path)
    [] source.of = "new" ->
         [k \in DOMAIN Slots[source.type] |-> <<"default", Slots[source.type][k]>>]
    [] source.of = "literal" -> <<<<"literal", source.type>>>>

-----------------------------------------------------------------------------
(* The body is read statement by statement.  The implementation may refuse *)
(* one, and with it the program, if it is on a member of a global.         *)
OnMemberOfGlobal(s) ==
  \E path \in PathsOf(s) : Len(path) > 1 /\ IsGlobal(locals, globals, Head(path))
Choose ==
  /\ outcome = Running /\ statement = Idle
  /\ \/ /\ length < MaxLength
        /\ statement' \in Statements
        /\ WellTyped(function, locals, globals, statement')
        /\ \/ UNCHANGED outcome
           \/ OnMemberOfGlobal(statement') /\ outcome' = [Running EXCEPT !.is = "invalid"]
     \/ /\ statement' = EndOfBody
        /\ MayEndWithoutReturn(function)
        /\ UNCHANGED outcome
  /\ UNCHANGED <<function, locals, globals, length>>

Chosen(kind) ==
  /\ outcome = Running /\ statement.do = kind
  /\ statement' = Idle
  /\ length' = IF kind = "end" THEN length ELSE length + 1
  /\ UNCHANGED function
Let ==
  /\ Chosen("let")
  /\ LET new == [name |-> statement.name, type |-> SourceType(locals, globals, statement.from),
                 value |-> Value(statement.from)]
     IN  IF function.start
           THEN globals' = Append(globals, new) /\ UNCHANGED locals
           ELSE locals' = Append(locals, new) /\ UNCHANGED globals
  /\ UNCHANGED outcome
Assign ==
  /\ Chosen("assign")
  /\ IF IsGlobal(locals, globals, Head(statement.to))
       THEN globals' = PutNamed(globals, statement.to, Value(statement.from)) /\ UNCHANGED locals
       ELSE locals' = PutNamed(locals, statement.to, Value(statement.from)) /\ UNCHANGED globals
  /\ UNCHANGED outcome
Return ==
  /\ Chosen("return")
  /\ outcome' = [is |-> "returned", result |-> Value(statement.from), receiver |-> Receiver]
  /\ UNCHANGED <<locals, globals>>
End ==
  /\ Chosen("end")
  /\ outcome' = [is |-> "returned", result |-> <<>>, receiver |-> Receiver]
  /\ UNCHANGED <<locals, globals>>

Init ==
  /\ function \in Functions
  /\ locals = [i \in DOMAIN function.arguments |-> Initially("argument", function.arguments[i])]
  /\ globals = [i \in DOMAIN function.globals |-> Initially("global", function.globals[i])]
  /\ statement = Idle
  /\ length = 0
  /\ outcome = Running
Next == Choose \/ Let \/ Assign \/ Return \/ End
Spec == Init /\ [][Next]_vars
=============================================================================
