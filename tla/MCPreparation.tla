--------------------------- MODULE MCPreparation ---------------------------
(* Small programs for Preparation.                                         *)
EXTENDS Preparation, SequencesExt, FiniteSetsExt

CONSTANTS MaxMembers

MCNames == Basis \cup {"constructor", "_start", "A", "B", "C", "D", "X", "f", "m", "n"}

Class(name, memberTypes, methods) ==
  [kind |-> "class", name |-> name, methods |-> methods,
   members |-> [i \in DOMAIN memberTypes |-> [name |-> <<"m", "n">>[i], type |-> memberTypes[i]]]]
Function(name, args, ret, readonly) ==
  [kind |-> "function", name |-> name, args |-> args, ret |-> ret, readonly |-> readonly]
Other == [kind |-> "other"]

(* Three classes, each with at most MaxMembers members of the classes, a   *)
(* basis type or a type nothing declares.  Their names say no more than    *)
(* their order does, so the statements are in one order of names only.     *)
MemberLists == SeqOf({"A", "B", "C", "i32", "X"}, MaxMembers)
ThreeClasses ==
  {<< <<Class("A", a, <<>>), Class("B", b, <<>>), Class("C", c, <<>>)>> >> :
     a, b, c \in MemberLists}
(* A fourth class, to have one that stays blocked next to two passes that  *)
(* each lay out a class.                                                   *)
FourClasses ==
  {<< <<Class("A", a, <<>>), Class("B", b, <<>>), Class("C", c, <<>>), Class("D", d, <<>>)>> >> :
     a, b, c, d \in SeqOf({"A", "B", "C", "D", "X"}, 1)}

(* Everything else a declaration can be refused for: two statements of     *)
(* every kind, with methods, "void" members and names that clash.          *)
Methods == {<<>>} \cup {<<f>> : f \in
  {Function("n", <<"B">>, "A", TRUE), Function("constructor", <<>>, "void", FALSE),
   Function("m", <<>>, NoType, FALSE)}}
SomeClasses ==
  {Class(name, members, methods) :
     name \in {"A", "B", "u32"}, methods \in Methods,
     members \in {<<>>, <<"i32">>, <<"B">>, <<"void">>, <<"void", "i32">>}}
SomeFunctions ==
  {Function(name, args, ret, readonly) :
     name \in {"A", "f", "_start"}, args \in {<<>>, <<"B">>, <<"X">>},
     ret \in {"A", "void", NoType}, readonly \in BOOLEAN}
SomeStatements == SomeClasses \cup SomeFunctions \cup {Other}
SignaturePrograms ==
  {<< <<s, t>> >> : s, t \in SomeStatements}

(* Two files: the type table outlives the file, the module has a "_start". *)
FilePrograms ==
  {<< <<s>>, <<t>> >> : s \in SomeFunctions \cup {Class("A", <<>>, <<>>), Class("B", <<"i32">>, <<>>)},
                        t \in {x \in SomeClasses : x.methods = <<>>} \cup {Other}}
MCPrograms == SignaturePrograms \cup ThreeClasses \cup FourClasses \cup FilePrograms
=============================================================================
