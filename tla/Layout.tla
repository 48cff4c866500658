------------------------------- MODULE Layout -------------------------------
(***************************************************************************)
(* The types of values once the classes are laid out (module Preparation), *)
(* and the statements that move values: `let`, assignment and `return`.    *)
(* Module Variables says what they mean, module Storage what code the      *)
(* compiler makes of them.                                                 *)
(***************************************************************************)
EXTENDS Naturals, Sequences, SequencesExt

CONSTANTS
  Names,     (* the names of variables                                     *)
  FieldNames,(* the names of members                                       *)
  Basis,     (* the types of one wasm value                                *)
  Classes,   (* the classes of the program                                 *)
  Members,   (* Class::member()                                            *)
  Slots,     (* VariantType::underlyingTypes()                             *)
  Bytes,     (* VariantType::getSize of a basis type                       *)
  Functions, (* the functions that may be compiled                         *)
  Paths      (* the variables and members the statements name: x, x.y, ... *)

Void == "void"
Types == Basis \cup Classes \cup {Void}
Variable == [name: Names, type: Types]
Field == [name: FieldNames, type: Types \ {Void}]

(* Class::underlyingTypes: what the members take, in their order.          *)
underlyingTypes(c) == FlattenSeq([i \in DOMAIN Members[c] |-> Slots[Members[c][i].type]])

(* A function: whether it is _start, whose variables are globals; its      *)
(* arguments, the receiver of a method last; the globals declared so far;  *)
(* the type it returns; whether it is a method without @readonly.          *)
Function ==
  [start: BOOLEAN, arguments: Seq(Variable), globals: Seq(Variable), returns: Types,
   writesBack: BOOLEAN]

ASSUME LayoutAssumption ==
  /\ Void \notin Basis \cup Classes /\ Basis \cap Classes = {}
  /\ Members \in [Classes -> Seq(Field)]
  /\ \A c \in Classes : \A i, j \in DOMAIN Members[c] :
       Members[c][i].name = Members[c][j].name => i = j
  /\ Slots \in [Types -> Seq(Basis)]
  /\ Slots[Void] = <<>>
  /\ \A b \in Basis : Slots[b] = <<b>>
  /\ \A c \in Classes : Slots[c] = underlyingTypes(c)
  /\ Bytes \in [Basis -> Nat \ {0}]
ASSUME FunctionsAssumption ==
  \A f \in Functions :
    /\ f \in Function
    /\ f.writesBack => f.arguments # <<>>
    /\ f.start => f.arguments = <<>> /\ f.returns = Void /\ ~f.writesBack
ASSUME PathsAssumption ==
  \A path \in Paths :
    path \in Seq(Names \cup FieldNames) /\ path # <<>> /\ path[1] \in Names

(* What a value comes from: a variable or a member of one, a constructor   *)
(* call, a literal.  The other expressions leave one value on the stack as *)
(* a literal does.                                                         *)
Sources ==
  [of: {"path"}, path: Paths] \cup [of: {"new"}, type: Classes] \cup [of: {"literal"}, type: Basis]
Statements ==
  [do: {"let"}, name: Names, from: Sources]
    \cup [do: {"assign"}, to: Paths, from: Sources]
    \cup [do: {"return"}, from: Sources]
Idle == [do |-> "nothing"]
EndOfBody == [do |-> "end"]

-----------------------------------------------------------------------------
(* Names are looked up among the locals, oldest first, then among the      *)
(* globals (Resolver::resolveIdentifier).  `vs` is a sequence of records   *)
(* with a name and a type.                                                 *)

Named(vs, x) == {i \in DOMAIN vs : vs[i].name = x}
First(vs, x) == CHOOSE i \in Named(vs, x) : \A j \in Named(vs, x) : i <= j
IsGlobal(locals, globals, x) == Named(locals, x) = {} /\ Named(globals, x) # {}

MemberIndex(c, m) == First(Members[c], m)
MemberType(t, m) ==
  IF t \in Classes /\ Named(Members[t], m) # {} THEN Members[t][MemberIndex(t, m)].type ELSE Void
RootType(locals, globals, x) ==
  CASE Named(locals, x) # {} -> locals[First(locals, x)].type
    [] IsGlobal(locals, globals, x) -> globals[First(globals, x)].type
    [] OTHER -> Void
TypeBehind ==
  [t \in Types |-> [members \in {Tail(path) : path \in Paths} |->
     LET type[k \in 0..Len(members)] == IF k = 0 THEN t ELSE MemberType(type[k - 1], members[k])
     IN  type[Len(members)]]]
PathType(locals, globals, path) ==
  TypeBehind[RootType(locals, globals, Head(path))][Tail(path)]
SourceType(locals, globals, source) ==
  IF source.of = "path" THEN PathType(locals, globals, source.path) ELSE source.type

(* The statements that compile where these variables are declared and of   *)
(* these types: conversions are another matter, and so are the names       *)
(* Binaryen refuses to add twice.                                          *)
WellTyped(f, locals, globals, s) ==
  LET type == SourceType(locals, globals, s.from)
  IN  /\ type \in Types \ {Void}
      /\ CASE s.do = "let" -> f.start => Named(globals, s.name) = {}
           [] s.do = "assign" -> PathType(locals, globals, s.to) = type
           [] s.do = "return" -> ~f.start /\ f.returns = type
PathsOf(s) ==
  (IF s.from.of = "path" THEN {s.from.path} ELSE {}) \cup (IF s.do = "assign" THEN {s.to} ELSE {})

(* Binaryen refuses a function that promises a value and may end without   *)
(* one.                                                                    *)
MayEndWithoutReturn(f) == Slots[f.returns] = <<>>
=============================================================================
