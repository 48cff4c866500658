----------------------------- MODULE MCStorage ------------------------------
(* Classes and functions for Storage.                                      *)
EXTENDS Storage

CONSTANTS Depth   (* bounds the members in a path                          *)

Of(name, type) == [name |-> name, type |-> type]
I32Is4F64Is8 == [i32 |-> 4, f64 |-> 8]

(* Classes of two slots, of an object behind a single slot, of one slot    *)
(* and of none.  The members of every class before the last take one slot. *)
FlatMembers ==
  [P |-> <<Of("a", "f64"), Of("b", "i32")>>, Q |-> <<Of("c", "i32"), Of("p", "P")>>,
   S |-> <<Of("v", "f64")>>, E |-> <<>>]
FlatSlots ==
  [i32 |-> <<"i32">>, f64 |-> <<"f64">>, void |-> <<>>, P |-> <<"f64", "i32">>,
   Q |-> <<"i32", "f64", "i32">>, S |-> <<"f64">>, E |-> <<>>]

(* A member behind an object without slots.                                *)
NestedMembers == [E |-> <<>>, N |-> <<Of("p", "E"), Of("a", "i32")>>]
NestedSlots ==
  [i32 |-> <<"i32">>, f64 |-> <<"f64">>, void |-> <<>>, E |-> <<>>, N |-> <<"i32">>]

(* The variables, their members and the members of these, as far as some   *)
(* class has them: no other path is well typed.                            *)
Tails ==
  {<<>>} \cup
  {tail \in UNION {[1..n -> FieldNames] : n \in 1..Depth} :
     \E c \in Classes : FoldLeft(MemberType, c, tail) # Void}
AllPaths == {<<x>> \o tail : x \in Names, tail \in Tails}

Plain(arguments, gs, returns) ==
  [start |-> FALSE, arguments |-> arguments, globals |-> gs, returns |-> returns,
   writesBack |-> FALSE]
Method(arguments, gs, returns) == [Plain(arguments, gs, returns) EXCEPT !.writesBack = TRUE]
Start(gs) == [Plain(<<>>, gs, Void) EXCEPT !.start = TRUE]

(* A function of an object and a global, methods of an object that return  *)
(* an object and a number, one that returns an object without slots, and   *)
(* the code of a file itself.                                              *)
MCFunctions ==
  { Plain(<<Of("x", "Q")>>, <<Of("g", "P")>>, Void),
    Method(<<Of("x", "i32"), Of("this", "Q")>>, <<>>, "P"),
    Method(<<Of("x", "S"), Of("this", "P")>>, <<Of("g", "S")>>, "f64"),
    Method(<<Of("x", "S"), Of("this", "P")>>, <<>>, "P"),
    Plain(<<Of("this", "S")>>, <<>>, "E"),
    Start(<<Of("g", "Q")>>), Start(<<>>) }
NestedFunctions == { Plain(<<Of("x", "N")>>, <<>>, Void) }

(* The classes and functions of the run storage are such that members do   *)
(* not overlap, those of nested_members are not.                           *)
ASSUME RegularUnlessNested == Regular <=> Members # NestedMembers
=============================================================================
