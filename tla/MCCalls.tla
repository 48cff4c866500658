------------------------------- MODULE MCCalls -------------------------------
(* Functions over values of no, one, two and three wasm values.            *)
EXTENDS CallsMeaning

Layouts ==
  [i32 |-> <<"i32">>, Empty |-> <<>>, One |-> <<"i64">>, Two |-> <<"i32", "f64">>,
   Three |-> <<"f64", "i32", "i64">>]
ByteSizes == [i32 |-> 4, i64 |-> 8, f32 |-> 4, f64 |-> 8]
VariablesOfEach == [i |-> "i32", e |-> "Empty", o |-> "One", p |-> "Two", q |-> "Two", r |-> "Three"]
Arguments ==
  [makeEmpty |-> <<>>, makeOne |-> <<>>, makeTwo |-> <<"i32">>, join |-> <<"Two", "Empty", "One", "Three">>,
   run |-> <<"Two">>, Two_get |-> <<"i32", "Two">>, Two_with |-> <<"One", "Two">>]
Results ==
  [makeEmpty |-> "Empty", makeOne |-> "One", makeTwo |-> "Two", join |-> "Three",
   run |-> Void, Two_get |-> "i32", Two_with |-> "Two"]
EveryUse ==
  [is: {"drop"}] \cup [is: {"store"}, to: Variables]
    \cup [is: {"return"}, type: Types, this: {"none", "p"}]
CallerUses == [is: {"store"}, to: {"i", "p"}]
=============================================================================
