----------------------------- MODULE CallsProofs -----------------------------
(***************************************************************************)
(* That the code of a call validates, for every set of types, functions    *)
(* and variables and calls nested to any depth: the code of each operand   *)
(* has the types of the value it stands for, as long as none of the causes *)
(* has happened that Calls keeps a history of.                             *)
(***************************************************************************)
EXTENDS Calls, WellFoundedInduction, TLAPS

-----------------------------------------------------------------------------
(* Sequences whose elements have no common type: codes, expressions and    *)
(* frames are told apart by what they hold, and no set holds them all.     *)
IsSeq(s) == s \in Seq({s[i] : i \in DOMAIN s})
IsFrame(fr) ==
  fr = [f |-> fr.f, receiver |-> fr.receiver, expects |-> fr.expects,
        expected |-> fr.expected, done |-> fr.done]

LEMMA SeqFacts ==
  ASSUME NEW s, IsSeq(s)
  PROVE  Len(s) \in Nat /\ DOMAIN s = 1..Len(s)
BY DEF IsSeq

LEMMA SeqIs == ASSUME NEW T, NEW s \in Seq(T) PROVE IsSeq(s)
BY DEF IsSeq

(* A function over 1..n is a sequence.                                     *)
LEMMA Built ==
  ASSUME NEW n \in Nat, NEW s, DOMAIN s = 1..n, s = [i \in 1..n |-> s[i]]
  PROVE  IsSeq(s) /\ Len(s) = n
<1> DEFINE T == {s[i] : i \in DOMAIN s}
<1>1. \A i \in 1..n : s[i] \in T
  OBVIOUS
<1> HIDE DEF T
<1>2. s \in Seq(T)
  BY <1>1
<1>3. Len(s) = n
  BY <1>2
<1> QED
  BY <1>2, <1>3, SeqIs

LEMMA Updated ==
  ASSUME NEW s, IsSeq(s), NEW j \in 1..Len(s), NEW x, NEW t, t = [s EXCEPT ![j] = x]
  PROVE  IsSeq(t) /\ Len(t) = Len(s) /\ \A i \in 1..Len(s) : t[i] = IF i = j THEN x ELSE s[i]
<1> DEFINE T == {s[i] : i \in DOMAIN s} \cup {x}
<1>1. s \in Seq(T) /\ Len(s) \in Nat /\ DOMAIN s = 1..Len(s)
  BY DEF IsSeq
<1>2. t \in Seq(T) /\ Len(t) = Len(s)
  BY <1>1
<1>3. \A i \in 1..Len(s) : t[i] = IF i = j THEN x ELSE s[i]
  BY <1>1
<1> HIDE DEF T
<1> QED
  BY <1>2, <1>3, SeqIs

(* What `\o`, Append and SubSeq give, element by element.                  *)
LEMMA Joined ==
  ASSUME NEW s, NEW t, IsSeq(s), IsSeq(t)
  PROVE  /\ IsSeq(s \o t) /\ Len(s \o t) = Len(s) + Len(t)
         /\ \A i \in 1..Len(s) : (s \o t)[i] = s[i]
         /\ \A i \in 1..Len(t) : (s \o t)[Len(s) + i] = t[i]
         /\ \A i \in 1..Len(s \o t) : i > Len(s) => (s \o t)[i] = t[i - Len(s)]
<1> DEFINE T == {s[i] : i \in DOMAIN s} \cup {t[i] : i \in DOMAIN t}
<1>1. s \in Seq(T) /\ t \in Seq(T) /\ Len(s) \in Nat /\ Len(t) \in Nat
  BY DEF IsSeq
<1> HIDE DEF T
<1>2. s \o t \in Seq(T) /\ Len(s \o t) = Len(s) + Len(t)
  BY <1>1
<1>3. IsSeq(s \o t)
  BY <1>2, SeqIs
<1> QED
  BY <1>1, <1>2, <1>3

LEMMA Appended ==
  ASSUME NEW s, IsSeq(s), NEW e
  PROVE  /\ IsSeq(Append(s, e)) /\ Len(Append(s, e)) = Len(s) + 1
         /\ Append(s, e)[Len(s) + 1] = e
         /\ \A i \in 1..Len(s) : Append(s, e)[i] = s[i]
<1> DEFINE T == {s[i] : i \in DOMAIN s} \cup {e}
<1>1. s \in Seq(T) /\ e \in T /\ Len(s) \in Nat
  BY DEF IsSeq
<1> HIDE DEF T
<1>2. Append(s, e) \in Seq(T) /\ Len(Append(s, e)) = Len(s) + 1
  BY <1>1
<1>3. IsSeq(Append(s, e))
  BY <1>2, SeqIs
<1> QED
  BY <1>1, <1>2, <1>3

LEMMA Shortened ==
  ASSUME NEW s, IsSeq(s), NEW n \in 0..Len(s)
  PROVE  /\ IsSeq(SubSeq(s, 1, n)) /\ Len(SubSeq(s, 1, n)) = n
         /\ \A i \in 1..n : SubSeq(s, 1, n)[i] = s[i]
<1> DEFINE T == {s[i] : i \in DOMAIN s}
<1>1. s \in Seq(T) /\ Len(s) \in Nat
  BY DEF IsSeq
<1> HIDE DEF T
<1>2. SubSeq(s, 1, n) \in Seq(T) /\ Len(SubSeq(s, 1, n)) = n
  BY <1>1
<1>3. IsSeq(SubSeq(s, 1, n))
  BY <1>2, SeqIs
<1> QED
  BY <1>1, <1>2, <1>3

-----------------------------------------------------------------------------
(* Flattening.  FlattenSeq is defined by a recursive function over the     *)
(* indices of a sequence; that there is one is shown from a least index    *)
(* for which there is none.                                                *)
LEMMA LeastNumber ==
  ASSUME NEW S, S \subseteq Nat, S # {}
  PROVE  \E x \in S : \A y \in S : x <= y
<1> DEFINE R == OpToRel(<, Nat)
<1>1. IsWellFoundedOn(R, Nat)
  BY NatLessThanWellFounded
<1>2. \A x \in Nat, y \in Nat : y < x => <<y, x>> \in R
  BY DEF OpToRel
<1> HIDE DEF R
<1>3. PICK x \in S : \A y \in S : ~ (<<y, x>> \in R)
  BY <1>1, WFMin
<1>4. \A y \in S : ~(y < x)
  BY <1>2, <1>3, Zenon
<1> QED
  BY <1>4

Joins(s, g, n) ==
  /\ g = [i \in 1..n |-> g[i]]
  /\ \A i \in 1..n : g[i] = IF i = 1 THEN s[i] ELSE g[i - 1] \o s[i]

LEMMA JoinsExist ==
  ASSUME NEW s, NEW n \in Nat
  PROVE  \E g : Joins(s, g, n)
<1> DEFINE Bad == {m \in Nat : ~ \E g : Joins(s, g, m)}
<1>1. SUFFICES ASSUME n \in Bad PROVE FALSE
  OBVIOUS
<1>2. PICK m \in Bad : \A y \in Bad : m <= y
  BY <1>1, LeastNumber
<1>3. CASE m = 0
  <2>1. Joins(s, [i \in 1..0 |-> i], 0)
    BY DEF Joins
  <2> QED
    BY <1>3, <2>1
<1>4. CASE m # 0
  <2>1. m - 1 \in Nat /\ m - 1 \notin Bad /\ m \in Nat
    BY <1>2, <1>4
  <2>2. PICK g : Joins(s, g, m - 1)
    BY <2>1
  <2> DEFINE h == [i \in 1..m |-> IF i = m THEN (IF m = 1 THEN s[m] ELSE g[m - 1] \o s[m]) ELSE g[i]]
  <2>3. \A i \in 1..m : h[i] = IF i = m THEN (IF m = 1 THEN s[m] ELSE g[m - 1] \o s[m]) ELSE g[i]
    OBVIOUS
  <2>4. h = [i \in 1..m |-> h[i]]
    OBVIOUS
  <2> HIDE DEF h
  <2>5. ASSUME NEW i \in 1..m PROVE h[i] = IF i = 1 THEN s[i] ELSE h[i - 1] \o s[i]
    <3>1. CASE i = m
      <4>1. m # 1 => h[m - 1] = g[m - 1]
        BY <2>1, <2>3
      <4> QED
        BY <2>3, <3>1, <4>1
    <3>2. CASE i # m
      <4>1. i \in 1..(m - 1) /\ h[i] = g[i] /\ (i # 1 => h[i - 1] = g[i - 1])
        BY <2>1, <2>3, <3>2
      <4> QED
        BY <4>1, <2>2 DEF Joins
    <3> QED
      BY <3>1, <3>2
  <2>6. Joins(s, h, m)
    BY <2>4, <2>5 DEF Joins
  <2> QED
    BY <2>6
<1> QED
  BY <1>3, <1>4

(* FlattenSeq(s) is the last of the joined beginnings of s.                *)
LEMMA Flattened ==
  ASSUME NEW s, IsSeq(s), s # <<>>
  PROVE  \E g : Joins(s, g, Len(s)) /\ FlattenSeq(s) = g[Len(s)]
<1>1. Len(s) \in Nat \ {0}
  BY DEF IsSeq
<1> DEFINE n == Len(s)
           Q(g) == g = [i \in 1..n |-> IF i = 1 THEN s[i] ELSE g[i - 1] \o s[i]]
           c == CHOOSE g : Q(g)
<1>2. FlattenSeq(s) = c[n]
  BY <1>1 DEF FlattenSeq
<1>3. PICK g : Joins(s, g, n)
  BY <1>1, JoinsExist
<1>4. Q(g)
  BY <1>3 DEF Joins
<1>5. Q(c)
  BY <1>4
<1> HIDE DEF c
<1>6. Joins(s, c, n)
  BY <1>5 DEF Joins
<1> QED
  BY <1>2, <1>6

-----------------------------------------------------------------------------
(* The invariant.                                                          *)

(* The type that is expected, given that of the whole expression.          *)
TypeIn(w, e) == IF e = Whole THEN w ELSE e
(* Expressions of the types L, that validate.                              *)
Matched(refs, L) ==
  /\ IsSeq(refs) /\ IsSeq(L) /\ Len(refs) = Len(L)
  /\ \A k \in 1..Len(L) : refs[k].type = L[k] /\ refs[k].ok
(* The same behind others that are only computed: a call before the loads  *)
(* of its result.                                                          *)
SoundAs(refs, U) ==
  /\ IsSeq(refs)
  /\ \E n \in 0..Len(refs) :
       /\ Len(refs) = n + Len(U)
       /\ \A i \in 1..n : refs[i].type = "none" /\ refs[i].ok
       /\ \A k \in 1..Len(U) : refs[n + k].type = U[k] /\ refs[n + k].ok
IsSound(d) == SoundAs(d.refs, underlyingTypes(d.type))
(* The code of an operand that was expected to be e.  Only a result in     *)
(* memory whose use is open is loaded as a single value of no wasm type.   *)
Compiled(e, d, w, u) ==
  /\ d.type \in Types /\ d.type = TypeIn(w, e)
  /\ IsSound(d) \/ (e = Whole /\ u.is = "drop" /\ LoadsFromMemory(d.type))

(* What frame i waits for; no frame waits for the whole expression.        *)
Awaited(fs, i) == IF i = 0 THEN Whole ELSE fs[i].expects[Len(fs[i].done) + 1]
FineFrame(fr, e, w, u) ==
  /\ IsFrame(fr)
  /\ fr.expects \in Seq(Types \cup {Whole}) /\ IsSeq(fr.done)
  /\ Len(fr.done) <= Len(fr.expects)
  /\ fr.expected = e
  /\ fr.f \in Functions =>
       fr.expects = ArgumentTypes[fr.f] /\ TypeIn(w, fr.expected) = ReturnType[fr.f]
  /\ fr.f = "?" => fr.expects = <<fr.expected, fr.expected>>
  /\ \A k \in 1..Len(fr.done) : Compiled(fr.expects[k], fr.done[k], w, u)
FineStack(fs, w, u) ==
  /\ IsSeq(fs)
  /\ \A i \in 1..Len(fs) : FineFrame(fs[i], Awaited(fs, i - 1), w, u)
  /\ \A i \in 1..(Len(fs) - 1) : Len(fs[i].done) < Len(fs[i].expects)
FineValue(v, fs, w, u) ==
  v # <<>> => fs = <<>> /\ Compiled(Whole, v[1], w, u)
FineWhole(w, u) ==
  \/ u.is = "drop" /\ w \in Types \cup {TypeAuto}
  \/ u.is = "store" /\ u.to \in Variables /\ w = VariableType[u.to]
  \/ u.is = "return" /\ u.type \in Types /\ u.this \in Variables \cup {"none"} /\ w = u.type
Sound ==
  /\ status \notin {"invalid", "assertion"}
  /\ FineWhole(whole, use)
  /\ FineStack(frames, whole, use)
  /\ FineValue(value, frames, whole, use)
SoundInv == causes = {} => Sound

-----------------------------------------------------------------------------
(* Expressions that match their types one by one still do when they are    *)
(* joined, or flattened.                                                   *)
LEMMA JoinedMatch ==
  ASSUME NEW a, NEW b, NEW c, NEW d, Matched(a, b), Matched(c, d)
  PROVE  Matched(a \o c, b \o d)
<1>1. IsSeq(a) /\ IsSeq(b) /\ IsSeq(c) /\ IsSeq(d) /\ Len(a) = Len(b) /\ Len(c) = Len(d)
  BY DEF Matched
<1>2. Len(a) \in Nat /\ Len(c) \in Nat
  BY <1>1, SeqFacts
<1>3. /\ IsSeq(a \o c) /\ Len(a \o c) = Len(a) + Len(c)
      /\ \A i \in 1..Len(a) : (a \o c)[i] = a[i]
      /\ \A i \in 1..Len(a \o c) : i > Len(a) => (a \o c)[i] = c[i - Len(a)]
  BY <1>1, Joined
<1>4. /\ IsSeq(b \o d) /\ Len(b \o d) = Len(b) + Len(d)
      /\ \A i \in 1..Len(b) : (b \o d)[i] = b[i]
      /\ \A i \in 1..Len(b \o d) : i > Len(b) => (b \o d)[i] = d[i - Len(b)]
  BY <1>1, Joined
<1>5. ASSUME NEW k \in 1..Len(b \o d)
      PROVE  (a \o c)[k].type = (b \o d)[k] /\ (a \o c)[k].ok
  <2>1. CASE k <= Len(a)
    BY <1>1, <1>2, <1>3, <1>4, <2>1 DEF Matched
  <2>2. CASE k > Len(a)
    <3>1. k - Len(a) \in 1..Len(d) /\ (a \o c)[k] = c[k - Len(a)] /\ (b \o d)[k] = d[k - Len(a)]
      BY <1>1, <1>2, <1>3, <1>4, <2>2
    <3> QED
      BY <3>1 DEF Matched
  <2>3. k \in Nat
    BY <1>1, <1>2, <1>4
  <2>4. k <= Len(a) \/ k > Len(a)
    BY <1>2, <2>3
  <2> QED
    BY <2>1, <2>2, <2>4, Zenon
<1> QED
  BY <1>1, <1>3, <1>4, <1>5 DEF Matched

-----------------------------------------------------------------------------
(* The types: those of a value are wasm types, those of none is "none".    *)
LEMMA TypesHaveSlots ==
  /\ \A t \in Values : Slots[t] \in Seq(WasmTypes) /\ underlyingTypes(t) = Slots[t]
  /\ underlyingTypes(Void) = <<"none">>
  /\ \A t \in Types : underlyingTypes(t) \in Seq(WasmTypes \cup {"none"})
  /\ Whole \notin Types /\ TypeAuto \notin Types /\ TypeAuto # Whole
<1>1. \A t \in Values : t # Void /\ t # TypeAuto /\ t # Whole /\ Slots[t] \in Seq(WasmTypes)
  BY TypesAssumption, NamesAssumption
<1>2. Whole # Void /\ TypeAuto # Void /\ TypeAuto # Whole
  BY DEF Void, TypeAuto, Whole
<1>3. \A t \in Values : underlyingTypes(t) = Slots[t]
  BY <1>1 DEF underlyingTypes
<1>4. underlyingTypes(Void) = <<"none">>
  BY DEF underlyingTypes
<1>5. ASSUME NEW t \in Types PROVE underlyingTypes(t) \in Seq(WasmTypes \cup {"none"})
  <2>0. <<"none">> \in Seq(WasmTypes \cup {"none"})
    OBVIOUS
  <2>1. CASE t = Void
    BY <1>4, <2>0, <2>1, Zenon
  <2>2. CASE t \in Values
    <3>1. Slots[t] \in Seq(WasmTypes) /\ underlyingTypes(t) = Slots[t]
      BY <1>1, <1>3, <2>2
    <3> QED
      BY <3>1
  <2> QED
    BY <2>1, <2>2 DEF Types
<1> QED
  BY <1>1, <1>2, <1>3, <1>4, <1>5 DEF Types

(* A value is in one of three forms: nothing, one wasm value, or memory.   *)
LEMMA Single ==
  ASSUME NEW t \in Types, NEW U, U = underlyingTypes(t)
  PROVE  /\ IsSeq(U)
         /\ U = <<>> => underlyingType(t) = "none" /\ ~LoadsFromMemory(t) /\ ~ReturnsValue(t)
         /\ Len(U) = 1 => underlyingType(t) = U[1] /\ ~LoadsFromMemory(t)
                            /\ (ReturnsValue(t) <=> t # Void)
         /\ ~LoadsFromMemory(t) => U = <<>> \/ Len(U) = 1
         /\ LoadsFromMemory(t) => Len(U) > 1 /\ underlyingType(t) = "tuple" /\ ~ReturnsValue(t)
<1>1. U \in Seq(WasmTypes \cup {"none"}) /\ (t # Void => U \in Seq(WasmTypes)) /\ (t = Void => U = <<"none">>)
  BY TypesHaveSlots DEF Types
<1>2. IsSeq(U) /\ Len(U) \in Nat
  BY <1>1, SeqIs
<1>3. CASE Len(U) = 0
  <2>1. U = <<>>
    BY <1>1, <1>3
  <2>2. underlyingType(t) = "none"
    BY <1>3 DEF underlyingType
  <2> QED
    BY <1>2, <1>3, <2>1, <2>2 DEF LoadsFromMemory, ReturnsValue, WasmTypes
<1>4. CASE Len(U) = 1
  <2>1. underlyingType(t) = U[1]
    BY <1>4 DEF underlyingType
  <2>2. U[1] \in WasmTypes \cup {"none"} /\ (t # Void => U[1] \in WasmTypes) /\ (t = Void => U[1] = "none")
    BY <1>1, <1>4
  <2> QED
    BY <1>2, <1>4, <2>1, <2>2 DEF LoadsFromMemory, ReturnsValue, WasmTypes
<1>5. CASE Len(U) > 1
  <2>a. \A n \in Nat : n > 1 => n # 0 /\ n # 1
    OBVIOUS
  <2>b. Len(U) # 0 /\ Len(U) # 1
    BY <2>a, <1>2, <1>5, Zenon
  <2>0. U # <<>> /\ Len(U) # 0 /\ Len(U) # 1
    BY <2>b
  <2>1. underlyingType(t) = "tuple"
    BY <2>0 DEF underlyingType
  <2> QED
    BY <1>2, <1>5, <2>0, <2>1 DEF LoadsFromMemory, ReturnsValue, WasmTypes
<1>6. Len(U) = 0 \/ Len(U) = 1 \/ Len(U) > 1
  <2>1. \A n \in Nat : n = 0 \/ n = 1 \/ n > 1
    OBVIOUS
  <2> QED
    BY <1>2, <2>1, Zenon
<1> QED
  BY <1>3, <1>4, <1>5, <1>6

(* compileCallExpression spreads the operands of the arguments, Binaryen   *)
(* the parameters of their types: both flatten lists of the same lengths.  *)
LEMMA FlattenedMatch ==
  ASSUME NEW s, NEW t, IsSeq(s), IsSeq(t), Len(s) = Len(t),
         \A i \in 1..Len(s) : Matched(s[i], t[i])
  PROVE  Matched(FlattenSeq(s), FlattenSeq(t))
<1>1. CASE Len(s) = 0
  <2>1. FlattenSeq(s) = s /\ FlattenSeq(t) = t
    BY <1>1 DEF FlattenSeq
  <2>2. Len(t) = 0 /\ \A k \in 1..Len(t) : FALSE
    BY <1>1
  <2> QED
    BY <1>1, <2>1, <2>2 DEF Matched
<1>2. CASE Len(s) # 0
  <2>1. Len(s) \in Nat \ {0} /\ s # <<>> /\ t # <<>>
    BY <1>2, SeqFacts
  <2>2. PICK g : Joins(s, g, Len(s)) /\ FlattenSeq(s) = g[Len(s)]
    BY <2>1, Flattened
  <2>3. PICK h : Joins(t, h, Len(t)) /\ FlattenSeq(t) = h[Len(t)]
    BY <2>1, Flattened
  <2> DEFINE Bad == {i \in 1..Len(s) : ~ Matched(g[i], h[i])}
  <2>4. ASSUME Bad # {} PROVE FALSE
    <3>1. Bad \subseteq Nat
      BY <2>1
    <3>2. PICK i \in Bad : \A y \in Bad : i <= y
      BY <3>1, <2>4, LeastNumber
    <3>3. i \in 1..Len(s) /\ ~Matched(g[i], h[i])
      BY <3>2
    <3>4. CASE i = 1
      BY <3>3, <3>4, <2>2, <2>3 DEF Joins
    <3>5. CASE i # 1
      <4>1. i - 1 \in 1..Len(s) /\ i - 1 \notin Bad
        BY <3>2, <3>3, <3>5, <2>1
      <4>2. Matched(g[i - 1], h[i - 1]) /\ Matched(s[i], t[i])
        BY <4>1, <3>3
      <4>3. g[i] = g[i - 1] \o s[i] /\ h[i] = h[i - 1] \o t[i]
        BY <3>3, <3>5, <2>2, <2>3 DEF Joins
      <4>4. Matched(g[i - 1] \o s[i], h[i - 1] \o t[i])
        BY <4>2, JoinedMatch
      <4> QED
        BY <4>3, <4>4, <3>3
    <3> QED
      BY <3>4, <3>5
  <2>5. Len(s) \notin Bad
    BY <2>4
  <2>6. Matched(g[Len(s)], h[Len(s)])
    BY <2>5, <2>1
  <2> QED
    BY <2>2, <2>3, <2>6
<1> QED
  BY <1>1, <1>2

-----------------------------------------------------------------------------
LEMMA One ==
  ASSUME NEW e
  PROVE  IsSeq(<<e>>) /\ Len(<<e>>) = 1 /\ <<e>>[1] = e /\ DOMAIN <<e>> = {1}
<1>1. <<e>> \in Seq({e}) /\ Len(<<e>>) = 1 /\ <<e>>[1] = e /\ DOMAIN <<e>> = {1}
  OBVIOUS
<1> QED
  BY <1>1, SeqIs

(* The code of a value, alone or behind an expression that gives nothing.  *)
LEMMA SoundAlone ==
  ASSUME NEW d, NEW U, U = underlyingTypes(d.type), Matched(d.refs, U)
  PROVE  IsSound(d)
<1>1. IsSeq(d.refs) /\ Len(d.refs) \in Nat /\ Len(U) = Len(d.refs)
  BY SeqFacts DEF Matched
<1>2. 0 \in 0..Len(d.refs) /\ Len(d.refs) = 0 + Len(U)
  BY <1>1
<1>3. \A i \in 1..0 : d.refs[i].type = "none" /\ d.refs[i].ok
  OBVIOUS
<1>4. \A k \in 1..Len(U) : 0 + k = k
  BY <1>1
<1>5. \A k \in 1..Len(U) : d.refs[k].type = U[k] /\ d.refs[k].ok
  BY DEF Matched
<1>6. \A k \in 1..Len(U) : d.refs[0 + k].type = U[k] /\ d.refs[0 + k].ok
  BY <1>4, <1>5, Zenon
<1>7. SoundAs(d.refs, U)
  BY <1>1, <1>2, <1>3, <1>6, Zenon DEF SoundAs
<1> QED
  BY <1>7 DEF IsSound

LEMMA SoundBehind ==
  ASSUME NEW d, NEW U, U = underlyingTypes(d.type), NEW c, c.type = "none", c.ok,
         NEW refs, Matched(refs, U), d.refs = <<c>> \o refs
  PROVE  IsSound(d)
<1>1. IsSeq(<<c>>) /\ Len(<<c>>) = 1 /\ <<c>>[1] = c
  BY One
<1>2. IsSeq(refs) /\ Len(refs) \in Nat /\ Len(U) = Len(refs)
  BY SeqFacts DEF Matched
<1>3. /\ IsSeq(d.refs) /\ Len(d.refs) = Len(<<c>>) + Len(refs)
      /\ \A i \in 1..Len(<<c>>) : d.refs[i] = <<c>>[i]
      /\ \A k \in 1..Len(refs) : d.refs[Len(<<c>>) + k] = refs[k]
  BY <1>1, <1>2, Joined
<1>4. Len(d.refs) = 1 + Len(U) /\ 1 \in 0..Len(d.refs)
  BY <1>1, <1>2, <1>3
<1>5. \A i \in 1..1 : d.refs[i] = c
  BY <1>1, <1>3
<1>6. \A i \in 1..1 : d.refs[i].type = "none" /\ d.refs[i].ok
  BY <1>5, Zenon
<1>7. \A k \in 1..Len(U) : d.refs[1 + k] = refs[k]
  BY <1>1, <1>2, <1>3
<1>8. \A k \in 1..Len(U) : d.refs[1 + k].type = U[k] /\ d.refs[1 + k].ok
  BY <1>7, Zenon DEF Matched
<1>9. SoundAs(d.refs, U)
  BY <1>3, <1>4, <1>6, <1>8, Zenon DEF SoundAs
<1> QED
  BY <1>9 DEF IsSound

(* The loads of a memory result have its types.                            *)
LEMMA LoadsMatch ==
  ASSUME NEW t \in Types, LoadsFromMemory(t), NEW U, U = underlyingTypes(t)
  PROVE  Matched(Loaded(U), U)
<1>1. IsSeq(U) /\ Len(U) > 1
  BY Single
<1>2. t # Void
  <2>1. underlyingTypes(Void) = <<"none">> /\ Len(<<"none">>) = 1
    BY TypesHaveSlots
  <2> QED
    BY <1>1, <2>1
<1>3. U \in Seq(WasmTypes)
  BY <1>2, TypesHaveSlots DEF Types
<1>4. Len(U) \in Nat /\ DOMAIN U = 1..Len(U) /\ \A k \in 1..Len(U) : U[k] \in WasmTypes
  BY <1>3
<1> DEFINE r == Loaded(U)
<1>5. r = [k \in 1..Len(U) |-> BinaryenLoad(Offset(U, k), U[k])]
  BY <1>4 DEF Loaded
<1>6. DOMAIN r = 1..Len(U) /\ r = [k \in 1..Len(U) |-> r[k]]
  BY <1>5
<1>7. ASSUME NEW k \in 1..Len(U) PROVE r[k].type = U[k] /\ r[k].ok
  <2>1. r[k] = BinaryenLoad(Offset(U, k), U[k])
    BY <1>5
  <2>2. r[k].type = U[k] /\ r[k].ok = (U[k] \in WasmTypes)
    BY <2>1 DEF BinaryenLoad, Ref
  <2> QED
    BY <1>4, <2>2, Zenon
<1> HIDE DEF r
<1>8. IsSeq(r) /\ Len(r) = Len(U)
  BY <1>4, <1>6, Built
<1>9. Matched(r, U)
  BY <1>1, <1>7, <1>8 DEF Matched
<1> QED
  BY <1>9 DEF r

(* A call takes its operands: there are as many as parameters, each of the *)
(* type of its parameter, whatever the arguments are made of.              *)
LEMMA CallIsOk ==
  ASSUME NEW fr, NEW e, NEW w, NEW u, FineFrame(fr, e, w, u), fr.f \in Functions,
         Len(fr.done) = Len(fr.expects), ~Spread(fr),
         NEW c, c = BinaryenCall(fr.f, Operands(fr.done))
  PROVE  /\ c.ok
         /\ c.type = IF ReturnsValue(ReturnType[fr.f]) THEN underlyingType(ReturnType[fr.f]) ELSE "none"
<1> DEFINE A == ArgumentTypes[fr.f]
           n == Len(A)
           R == [i \in DOMAIN fr.done |-> fr.done[i].refs]
           P == [i \in DOMAIN A |-> Slots[A[i]]]
<1>1. A \in Seq(Values) /\ n \in Nat /\ DOMAIN A = 1..n /\ \A i \in 1..n : A[i] \in Values
  BY ScopeAssumption
<1>2. fr.expects = A /\ IsSeq(fr.done) /\ Len(fr.done) = n /\ DOMAIN fr.done = 1..n
  BY SeqFacts DEF FineFrame
<1>3. IsSeq(R) /\ Len(R) = n /\ \A i \in 1..n : R[i] = fr.done[i].refs
  <2>1. DOMAIN R = 1..n /\ R = [i \in 1..n |-> R[i]] /\ \A i \in 1..n : R[i] = fr.done[i].refs
    BY <1>2
  <2> HIDE DEF R
  <2> QED
    BY <1>1, <2>1, Built
<1>4. IsSeq(P) /\ Len(P) = n /\ \A i \in 1..n : P[i] = Slots[A[i]]
  <2>1. DOMAIN P = 1..n /\ P = [i \in 1..n |-> P[i]] /\ \A i \in 1..n : P[i] = Slots[A[i]]
    BY <1>1
  <2> HIDE DEF P
  <2> QED
    BY <1>1, <2>1, Built
<1>5. Operands(fr.done) = FlattenSeq(R)
  BY DEF Operands
<1>6. /\ c.type = IF ReturnsValue(ReturnType[fr.f]) THEN underlyingType(ReturnType[fr.f]) ELSE "none"
      /\ c.ok = (/\ AllOk(Operands(fr.done)) /\ Len(Operands(fr.done)) = Len(FlattenSeq(P))
                 /\ \A i \in DOMAIN FlattenSeq(P) : Operands(fr.done)[i].type = FlattenSeq(P)[i])
  BY DEF BinaryenCall, Ref
<1>7. ASSUME NEW i \in 1..n PROVE Matched(R[i], P[i])
  <2>1. A[i] \in Values /\ fr.expects[i] = A[i] /\ i \in 1..Len(fr.done) /\ i \in DOMAIN fr.done
    BY <1>1, <1>2
  <2>2. Compiled(A[i], fr.done[i], w, u)
    BY <2>1 DEF FineFrame
  <2>3. A[i] # Whole /\ underlyingTypes(A[i]) = Slots[A[i]] /\ Slots[A[i]] \in Seq(WasmTypes)
    BY <2>1, TypesHaveSlots DEF Types
  <2>4. fr.done[i].type = A[i] /\ IsSound(fr.done[i])
    BY <2>2, <2>3 DEF Compiled, TypeIn
  <2>5. Len(fr.done[i].refs) = Len(Slots[A[i]])
    BY <2>1 DEF Spread
  <2> DEFINE d == fr.done[i]
             L == Slots[A[i]]
  <2>a. SoundAs(d.refs, L)
    BY <2>3, <2>4 DEF IsSound
  <2>6. IsSeq(d.refs) /\ IsSeq(L) /\ Len(L) \in Nat
    BY <2>3, <2>a, SeqIs DEF SoundAs
  <2>7. PICK m \in 0..Len(d.refs) :
          /\ Len(d.refs) = m + Len(L)
          /\ \A k \in 1..Len(L) : d.refs[m + k].type = L[k] /\ d.refs[m + k].ok
    BY <2>a, Zenon DEF SoundAs
  <2>8. m = 0
    BY <2>5, <2>6, <2>7
  <2>9. \A k \in 1..Len(L) : m + k = k
    BY <2>6, <2>8
  <2>10. \A k \in 1..Len(L) : d.refs[k].type = L[k] /\ d.refs[k].ok
    BY <2>7, <2>9, Zenon
  <2>11. Matched(d.refs, L)
    BY <2>5, <2>6, <2>10 DEF Matched
  <2> QED
    BY <1>3, <1>4, <2>11
<1> HIDE DEF R, P
<1>8. Matched(FlattenSeq(R), FlattenSeq(P))
  BY <1>3, <1>4, <1>7, FlattenedMatch
<1>9. /\ DOMAIN FlattenSeq(R) = 1..Len(FlattenSeq(P)) /\ DOMAIN FlattenSeq(P) = 1..Len(FlattenSeq(P))
      /\ Len(FlattenSeq(R)) = Len(FlattenSeq(P))
  BY <1>8, SeqFacts DEF Matched
<1>10. AllOk(FlattenSeq(R)) /\ \A i \in DOMAIN FlattenSeq(P) : FlattenSeq(R)[i].type = FlattenSeq(P)[i]
  BY <1>8, <1>9, Zenon DEF Matched, AllOk
<1> QED
  BY <1>5, <1>6, <1>9, <1>10, Zenon

-----------------------------------------------------------------------------
(* ExpressionData::combineExprRef: a value of at most one wasm value is one *)
(* expression of its type.                                                 *)
LEMMA Combined ==
  ASSUME NEW d, IsSound(d), d.type \in Types, ~LoadsFromMemory(d.type),
         NEW c, c = combineExprRef(d.refs)
  PROVE  c.ok /\ c.type = underlyingType(d.type)
<1> DEFINE refs == d.refs
           U == underlyingTypes(d.type)
<1>1. /\ IsSeq(U)
      /\ U = <<>> \/ Len(U) = 1
      /\ U = <<>> => underlyingType(d.type) = "none"
      /\ Len(U) = 1 => underlyingType(d.type) = U[1]
  BY Single
<1>2. SoundAs(refs, U)
  BY DEF IsSound
<1>3. IsSeq(refs) /\ Len(refs) \in Nat /\ DOMAIN refs = 1..Len(refs)
  BY <1>2, SeqFacts DEF SoundAs
<1>4. PICK n \in 0..Len(refs) :
        /\ Len(refs) = n + Len(U)
        /\ \A i \in 1..n : refs[i].type = "none" /\ refs[i].ok
        /\ \A k \in 1..Len(U) : refs[n + k].type = U[k] /\ refs[n + k].ok
  BY <1>2, Zenon DEF SoundAs
<1> HIDE DEF refs, U
<1>5. n \in Nat
  BY <1>3, <1>4
<1>6. CASE U = <<>>
  <2>1. Len(refs) = n
    BY <1>4, <1>5, <1>6
  <2>2. \A i \in 1..Len(refs) : refs[i].type = "none" /\ refs[i].ok
    BY <1>4, <2>1, Zenon
  <2>3. CASE Len(refs) = 1
    <3>1. c = refs[1] /\ 1 \in 1..Len(refs)
      BY <2>3 DEF combineExprRef, refs
    <3> QED
      BY <1>1, <1>6, <2>2, <3>1, Zenon
  <2>4. CASE Len(refs) # 1
    <3>1. /\ c.type = (IF refs = <<>> THEN "none" ELSE Last(refs).type)
          /\ c.ok = (AllOk(refs) /\ \A i \in 1..Len(refs) - 1 : refs[i].type = "none")
      BY <2>4 DEF combineExprRef, Ref, refs
    <3>2. refs # <<>> => Len(refs) \in 1..Len(refs)
      BY <1>3 DEF IsSeq
    <3>3. refs # <<>> => Last(refs).type = "none"
      BY <2>2, <3>2, Zenon DEF Last
    <3>4. \A i \in 1..Len(refs) - 1 : i \in 1..Len(refs)
      BY <1>3
    <3>5. AllOk(refs) /\ \A i \in 1..Len(refs) - 1 : refs[i].type = "none"
      BY <1>3, <2>2, <3>4, Zenon DEF AllOk
    <3> QED
      BY <1>1, <1>6, <3>1, <3>3, <3>5, Zenon
  <2> QED
    BY <2>3, <2>4
<1>7. CASE Len(U) = 1
  <2>1. Len(refs) = n + 1 /\ 1 \in 1..Len(U) /\ n + 1 \in 1..Len(refs)
    BY <1>4, <1>5, <1>7
  <2>2. refs[n + 1].type = U[1] /\ refs[n + 1].ok
    BY <1>4, <2>1, Zenon
  <2>3. CASE Len(refs) = 1
    <3>1. c = refs[1] /\ n + 1 = 1
      BY <1>5, <2>1, <2>3 DEF combineExprRef, refs
    <3>2. c = refs[n + 1]
      BY <3>1
    <3> QED
      BY <1>1, <1>7, <2>2, <3>2, Zenon
  <2>4. CASE Len(refs) # 1
    <3>1. /\ c.type = (IF refs = <<>> THEN "none" ELSE Last(refs).type)
          /\ c.ok = (AllOk(refs) /\ \A i \in 1..Len(refs) - 1 : refs[i].type = "none")
      BY <2>4 DEF combineExprRef, Ref, refs
    <3>2. refs # <<>>
      BY <1>5, <2>1
    <3>3. Last(refs).type = U[1]
      BY <2>1, <2>2 DEF Last
    <3>4. \A i \in 1..Len(refs) - 1 : i \in 1..n
      BY <1>5, <2>1
    <3>5. \A i \in 1..Len(refs) : i \in 1..n \/ i = n + 1
      BY <1>5, <2>1
    <3>6. AllOk(refs)
      BY <1>3, <1>4, <2>2, <3>5, Zenon DEF AllOk
    <3>7. \A i \in 1..Len(refs) - 1 : refs[i].type = "none"
      BY <1>4, <3>4, Zenon
    <3> QED
      BY <1>1, <1>7, <3>1, <3>2, <3>3, <3>6, <3>7, Zenon
  <2> QED
    BY <2>3, <2>4
<1> QED
  BY <1>1, <1>6, <1>7

LEMMA SoundSingle ==
  ASSUME NEW d, d.type \in Types, ~LoadsFromMemory(d.type), NEW c, d.refs = <<c>>,
         c.ok, c.type = underlyingType(d.type)
  PROVE  IsSound(d)
<1> DEFINE U == underlyingTypes(d.type)
<1>1. /\ IsSeq(U)
      /\ U = <<>> \/ Len(U) = 1
      /\ U = <<>> => underlyingType(d.type) = "none"
      /\ Len(U) = 1 => underlyingType(d.type) = U[1]
  BY Single
<1>2. IsSeq(d.refs) /\ Len(d.refs) = 1 /\ d.refs[1] = c
  BY One
<1>3. CASE U = <<>>
  <2>1. Matched(<<>>, <<>>)
    <3>1. <<>> \in Seq({}) /\ Len(<<>>) = 0 /\ \A k \in 1..0 : FALSE
      OBVIOUS
    <3> QED
      BY <3>1, SeqIs DEF Matched
  <2>2. d.refs = <<c>> \o <<>>
    OBVIOUS
  <2> QED
    BY <1>1, <1>3, <2>1, <2>2, SoundBehind
<1>4. CASE Len(U) = 1
  <2>1. \A k \in 1..Len(U) : k = 1
    BY <1>4
  <2>2. \A k \in 1..Len(U) : d.refs[k].type = U[k] /\ d.refs[k].ok
    BY <1>1, <1>2, <1>4, <2>1, Zenon
  <2>3. Matched(d.refs, U)
    BY <1>1, <1>2, <1>4, <2>2, Zenon DEF Matched
  <2> QED
    BY <2>3, SoundAlone
<1> QED
  BY <1>1, <1>3, <1>4

(* What a finished call hands to the frame below is the code of its result *)
(* (compileCallExpression), and so is what a ternary hands there, of which- *)
(* ever arm (compileTernaryExpression).                                    *)
LEMMA ResultIsCompiled ==
  ASSUME NEW fr, NEW e, FineFrame(fr, e, whole, use), fr.f \in Functions,
         Len(fr.done) = Len(fr.expects), ~Spread(fr),
         NEW c, c = BinaryenCall(fr.f, Operands(fr.done)),
         NEW t, t = ReturnType[fr.f], NEW x, NEW d,
         d = Data(IF LoadsFromMemory(t) THEN <<c>> \o Loaded(LoadedAs(fr.expected, t)) ELSE <<c>>, t, x)
  PROVE  Compiled(e, d, whole, use)
<1>1. /\ c.ok /\ c.type = IF ReturnsValue(t) THEN underlyingType(t) ELSE "none"
  BY CallIsOk
<1>2. t \in Types /\ t = TypeIn(whole, e) /\ fr.expected = e
  BY ScopeAssumption DEF FineFrame
<1>3. /\ d.type = t
      /\ d.refs = IF LoadsFromMemory(t) THEN <<c>> \o Loaded(LoadedAs(e, t)) ELSE <<c>>
  BY <1>2 DEF Data
<1>4. CASE LoadsFromMemory(t)
  <2>1. CASE e = Whole /\ use.is = "drop"
    BY <1>2, <1>3, <1>4, <2>1 DEF Compiled
  <2>2. CASE ~(e = Whole /\ use.is = "drop")
    <3>1. d.refs = <<c>> \o Loaded(underlyingTypes(t))
      BY <1>3, <1>4, <2>2 DEF LoadedAs
    <3>2. c.type = "none"
      BY <1>1, <1>2, <1>4, Single
    <3>3. Matched(Loaded(underlyingTypes(t)), underlyingTypes(t))
      BY <1>2, <1>4, LoadsMatch
    <3>4. IsSound(d)
      BY <1>1, <1>3, <3>1, <3>2, <3>3, SoundBehind
    <3> QED
      BY <1>2, <1>3, <3>4 DEF Compiled
  <2> QED
    BY <2>1, <2>2
<1>5. CASE ~LoadsFromMemory(t)
  <2>1. c.type = underlyingType(t)
    <3>1. CASE t = Void
      <4>1. underlyingTypes(t) = <<"none">> /\ Len(<<"none">>) = 1 /\ <<"none">>[1] = "none"
        BY <3>1, TypesHaveSlots
      <4>2. underlyingType(t) = "none"
        BY <4>1 DEF underlyingType
      <4> QED
        BY <1>1, <4>2
    <3>2. CASE t # Void
      BY <1>1, <1>2, <1>5, <3>2, Single
    <3> QED
      BY <3>1, <3>2
  <2>2. d.refs = <<c>>
    BY <1>3, <1>5
  <2>3. IsSound(d)
    BY <1>1, <1>2, <1>3, <1>5, <2>1, <2>2, SoundSingle
  <2> QED
    BY <1>2, <1>3, <2>3 DEF Compiled
<1> QED
  BY <1>4, <1>5

LEMMA ChoiceIsCompiled ==
  ASSUME NEW fr, NEW e, FineFrame(fr, e, whole, use), fr.f = "?", Len(fr.done) = 2,
         NEW t, t = fr.done[1].type, ~LoadsFromMemory(t),
         NEW arms, arms = [i \in Arms |-> combineExprRef(fr.done[i].refs)],
         NEW taken \in Arms, NEW x, NEW d, d = Data(<<BinaryenIf(arms, taken)>>, t, x)
  PROVE  Compiled(e, d, whole, use)
<1>1. fr.expected = e /\ fr.expects = <<e, e>> /\ fr.expects[1] = e /\ fr.expects[2] = e
  BY DEF FineFrame
<1>2. ASSUME NEW i \in Arms
      PROVE  /\ fr.done[i].type \in Types /\ fr.done[i].type = TypeIn(whole, e)
             /\ IsSound(fr.done[i]) \/ LoadsFromMemory(fr.done[i].type)
  <2>1. i \in 1..Len(fr.done) /\ fr.expects[i] = e
    BY <1>1 DEF Arms
  <2>2. Compiled(e, fr.done[i], whole, use)
    BY <2>1 DEF FineFrame
  <2> QED
    BY <2>2 DEF Compiled
<1>3. 1 \in Arms /\ 2 \in Arms
  BY DEF Arms
<1>4. t \in Types /\ t = TypeIn(whole, e)
  BY <1>2, <1>3
<1>5. ASSUME NEW i \in Arms PROVE arms[i].ok /\ arms[i].type = underlyingType(t)
  <2>1. fr.done[i].type = t /\ IsSound(fr.done[i])
    BY <1>2, <1>4
  <2>2. arms[i] = combineExprRef(fr.done[i].refs)
    OBVIOUS
  <2> QED
    BY <1>4, <2>1, <2>2, Combined
<1> DEFINE c == BinaryenIf(arms, taken)
<1>6. c.type = arms[1].type /\ c.ok = (arms[1].ok /\ arms[2].ok /\ arms[1].type = arms[2].type)
  BY DEF BinaryenIf, Ref
<1>7. c.ok /\ c.type = underlyingType(t)
  BY <1>3, <1>5, <1>6, Zenon
<1>8. d.type = t /\ d.refs = <<c>>
  BY DEF Data
<1> HIDE DEF c
<1>9. IsSound(d)
  BY <1>4, <1>7, <1>8, SoundSingle
<1> QED
  BY <1>4, <1>8, <1>9 DEF Compiled

(* Local::assignToStack gives the values of a variable.                    *)
LEMMA PushedMatches ==
  ASSUME NEW x \in Variables
  PROVE  /\ VariableType[x] \in Values
         /\ Matched(Pushed(x), underlyingTypes(VariableType[x]))
         /\ Pushed(x) = [k \in DOMAIN Slots[VariableType[x]] |-> Pushed(x)[k]]
<1> DEFINE L == Slots[VariableType[x]]
           r == Pushed(x)
<1>1. VariableType[x] \in Values /\ L \in Seq(WasmTypes) /\ underlyingTypes(VariableType[x]) = L
  BY ScopeAssumption, TypesHaveSlots
<1>2. Len(L) \in Nat /\ DOMAIN L = 1..Len(L) /\ IsSeq(L)
  BY <1>1, SeqIs
<1>3. r = [k \in 1..Len(L) |-> Ref(<< <<"get", x, k>> >>, L[k], TRUE)]
  BY <1>2 DEF Pushed
<1>4. DOMAIN r = 1..Len(L) /\ r = [k \in 1..Len(L) |-> r[k]]
  BY <1>3
<1>5. ASSUME NEW k \in 1..Len(L) PROVE r[k].type = L[k] /\ r[k].ok
  <2>1. r[k] = Ref(<< <<"get", x, k>> >>, L[k], TRUE)
    BY <1>3
  <2>2. r[k].type = L[k] /\ r[k].ok = TRUE
    BY <2>1 DEF Ref
  <2> QED
    BY <2>2, Zenon
<1> HIDE DEF r, L
<1>6. IsSeq(r) /\ Len(r) = Len(L)
  BY <1>2, <1>4, Built
<1>7. Matched(r, L)
  BY <1>2, <1>5, <1>6 DEF Matched
<1> QED
  BY <1>1, <1>2, <1>4, <1>7 DEF r, L

-----------------------------------------------------------------------------
(* Frames.  A type that was left open is decided by the first operand that *)
(* is compiled; no frame relies on it before.                              *)
LEMMA FrameKept ==
  ASSUME NEW fr, NEW e, NEW w, NEW u, FineFrame(fr, e, w, u), NEW w2, w = TypeAuto \/ w2 = w
  PROVE  FineFrame(fr, e, w2, u)
<1>1. TypeAuto \notin Types
  BY TypesHaveSlots
<1>2. ASSUME NEW k \in 1..Len(fr.done) PROVE Compiled(fr.expects[k], fr.done[k], w2, u)
  <2>1. Compiled(fr.expects[k], fr.done[k], w, u)
    BY DEF FineFrame
  <2> QED
    BY <1>1, <2>1 DEF Compiled, TypeIn
<1>3. fr.f \in Functions => TypeIn(w2, fr.expected) = ReturnType[fr.f]
  <2>1. fr.f \in Functions => ReturnType[fr.f] \in Types /\ TypeIn(w, fr.expected) = ReturnType[fr.f]
    BY ScopeAssumption DEF FineFrame
  <2> QED
    BY <1>1, <2>1 DEF TypeIn
<1> QED
  BY <1>2, <1>3 DEF FineFrame

LEMMA StackKept ==
  ASSUME NEW fs, NEW w, NEW u, FineStack(fs, w, u), NEW w2, w = TypeAuto \/ w2 = w
  PROVE  FineStack(fs, w2, u)
<1>1. \A i \in 1..Len(fs) : FineFrame(fs[i], Awaited(fs, i - 1), w2, u)
  BY FrameKept DEF FineStack
<1> QED
  BY <1>1 DEF FineStack

(* A frame that takes the operand it waits for.                            *)
LEMMA Grown ==
  ASSUME NEW fr, NEW e, NEW w, NEW u, FineFrame(fr, e, w, u), Len(fr.done) < Len(fr.expects),
         NEW d, Compiled(fr.expects[Len(fr.done) + 1], d, w, u),
         NEW g, g = [fr EXCEPT !.done = Append(fr.done, d)]
  PROVE  FineFrame(g, e, w, u)
<1>1. /\ IsFrame(g) /\ g.f = fr.f /\ g.expects = fr.expects /\ g.expected = fr.expected
      /\ g.done = Append(fr.done, d)
  BY DEF FineFrame, IsFrame
<1>2. IsSeq(fr.done) /\ fr.expects \in Seq(Types \cup {Whole})
  BY DEF FineFrame
<1>3. Len(fr.done) \in Nat /\ Len(fr.expects) \in Nat
  BY <1>2, SeqFacts
<1>4. /\ IsSeq(g.done) /\ Len(g.done) = Len(fr.done) + 1 /\ g.done[Len(fr.done) + 1] = d
      /\ \A i \in 1..Len(fr.done) : g.done[i] = fr.done[i]
  BY <1>1, <1>2, Appended
<1>5. ASSUME NEW k \in 1..Len(g.done) PROVE Compiled(g.expects[k], g.done[k], w, u)
  <2>1. CASE k = Len(fr.done) + 1
    BY <1>1, <1>4, <2>1
  <2>2. CASE k # Len(fr.done) + 1
    <3>1. k \in 1..Len(fr.done)
      BY <1>3, <1>4, <2>2
    <3>2. Compiled(fr.expects[k], fr.done[k], w, u)
      BY <3>1 DEF FineFrame
    <3> QED
      BY <1>1, <1>4, <3>1, <3>2
  <2> QED
    BY <2>1, <2>2
<1>6. Len(g.done) <= Len(g.expects)
  BY <1>1, <1>3, <1>4
<1>7. /\ fr.expected = e
      /\ fr.f \in Functions =>
           fr.expects = ArgumentTypes[fr.f] /\ TypeIn(w, fr.expected) = ReturnType[fr.f]
      /\ fr.f = "?" => fr.expects = <<fr.expected, fr.expected>>
  BY DEF FineFrame
<1> QED
  BY <1>1, <1>2, <1>4, <1>5, <1>6, <1>7 DEF FineFrame

IsAwaiting(fs) == fs # <<>> => Len(fs[Len(fs)].done) < Len(fs[Len(fs)].expects)

(* The code of an operand goes to the frame that waits for it, and is the  *)
(* code of the whole expression if there is none.                          *)
LEMMA Returned ==
  ASSUME NEW s, NEW w, NEW u, FineStack(s, w, u), IsAwaiting(s),
         NEW d, Compiled(Awaited(s, Len(s)), d, w, u),
         NEW fs, NEW v,
         \/ s = <<>> /\ fs = s /\ v = <<d>>
         \/ s # <<>> /\ fs = [s EXCEPT ![Len(s)].done = Append(@, d)] /\ v = <<>>
  PROVE  FineStack(fs, w, u) /\ FineValue(v, fs, w, u)
<1>1. CASE s = <<>>
  <2>1. Compiled(Whole, d, w, u)
    BY <1>1 DEF Awaited
  <2>2. fs = <<>> /\ v = <<d>> /\ v[1] = d
    BY <1>1
  <2> QED
    BY <1>1, <2>1, <2>2 DEF FineValue
<1>2. CASE s # <<>>
  <2> DEFINE n == Len(s)
             g == [s[n] EXCEPT !.done = Append(s[n].done, d)]
  <2>1. IsSeq(s) /\ n \in Nat \ {0} /\ DOMAIN s = 1..n /\ n \in 1..n
    BY <1>2 DEF FineStack, IsSeq
  <2>2. fs = [s EXCEPT ![n] = g]
    BY <1>2, <2>1
  <2> HIDE DEF g
  <2>3. IsSeq(fs) /\ Len(fs) = n /\ \A i \in 1..n : fs[i] = IF i = n THEN g ELSE s[i]
    BY <2>1, <2>2, Updated
  <2>4. FineFrame(s[n], Awaited(s, n - 1), w, u) /\ Len(s[n].done) < Len(s[n].expects)
    BY <1>2, <2>1 DEF FineStack, IsAwaiting
  <2>5. Compiled(s[n].expects[Len(s[n].done) + 1], d, w, u)
    BY <2>1 DEF Awaited
  <2>6. FineFrame(g, Awaited(s, n - 1), w, u)
    BY <2>4, <2>5, Grown DEF g
  <2>7. ASSUME NEW i \in 1..n PROVE FineFrame(fs[i], Awaited(fs, i - 1), w, u)
    <3>1. i # 1 => i - 1 \in 1..n /\ i - 1 # n
      BY <2>1
    <3>2. Awaited(fs, i - 1) = Awaited(s, i - 1)
      BY <2>1, <2>3, <3>1 DEF Awaited
    <3>3. FineFrame(s[i], Awaited(s, i - 1), w, u)
      BY DEF FineStack
    <3> QED
      BY <2>3, <2>6, <3>2, <3>3
  <2>8. ASSUME NEW i \in 1..(n - 1) PROVE Len(fs[i].done) < Len(fs[i].expects)
    <3>1. i \in 1..n /\ fs[i] = s[i]
      BY <2>1, <2>3
    <3> QED
      BY <3>1 DEF FineStack
  <2>9. FineStack(fs, w, u)
    BY <2>3, <2>7, <2>8 DEF FineStack
  <2> QED
    BY <1>2, <2>9 DEF FineValue
<1> QED
  BY <1>1, <1>2

(* A frame is put on top, which waits for what the frame below expects.    *)
LEMMA Opened ==
  ASSUME NEW s, NEW w, NEW u, FineStack(s, w, u), IsAwaiting(s),
         NEW f, NEW r, NEW A \in Seq(Types \cup {Whole}), NEW e, e = Awaited(s, Len(s)),
         f \in Functions => A = ArgumentTypes[f] /\ TypeIn(w, e) = ReturnType[f],
         f = "?" => A = <<e, e>>,
         NEW fs, fs = Append(s, [f |-> f, receiver |-> r, expects |-> A, expected |-> e, done |-> <<>>])
  PROVE  FineStack(fs, w, u)
<1> DEFINE n == Len(s)
           fr == [f |-> f, receiver |-> r, expects |-> A, expected |-> e, done |-> <<>>]
<1>1. IsSeq(s) /\ n \in Nat
  BY SeqFacts DEF FineStack
<1>2. IsFrame(fr) /\ fr.f = f /\ fr.expects = A /\ fr.expected = e /\ fr.done = <<>>
  BY DEF IsFrame
<1>3. /\ IsSeq(fs) /\ Len(fs) = n + 1 /\ fs[n + 1] = fr
      /\ \A i \in 1..n : fs[i] = s[i]
  <2>1. fs = Append(s, fr)
    OBVIOUS
  <2> HIDE DEF fr
  <2> QED
    BY <1>1, <2>1, Appended
<1> HIDE DEF fr
<1>4. FineFrame(fr, e, w, u)
  <2>1. <<>> \in Seq({}) /\ Len(<<>>) = 0 /\ \A k \in 1..0 : FALSE
    OBVIOUS
  <2>2. IsSeq(fr.done) /\ Len(fr.done) = 0 /\ \A k \in 1..Len(fr.done) : FALSE
    BY <1>2, <2>1, SeqIs
  <2>3. Len(A) \in Nat
    OBVIOUS
  <2>4. Len(fr.done) <= Len(fr.expects)
    BY <1>2, <2>2, <2>3
  <2> QED
    BY <1>2, <2>2, <2>4 DEF FineFrame
<1>5. \A i \in 1..(n + 1) : Awaited(fs, i - 1) = Awaited(s, i - 1)
  BY <1>1, <1>3 DEF Awaited
<1>6. ASSUME NEW i \in 1..(n + 1) PROVE FineFrame(fs[i], Awaited(fs, i - 1), w, u)
  <2>1. CASE i = n + 1
    <3>1. Awaited(fs, i - 1) = e
      BY <1>1, <1>5, <2>1
    <3> QED
      BY <1>3, <1>4, <2>1, <3>1
  <2>2. CASE i # n + 1
    <3>1. i \in 1..n
      BY <1>1, <2>2
    <3>2. FineFrame(s[i], Awaited(s, i - 1), w, u)
      BY <3>1 DEF FineStack
    <3> QED
      BY <1>3, <1>5, <3>1, <3>2
  <2> QED
    BY <2>1, <2>2
<1>7. ASSUME NEW i \in 1..((n + 1) - 1) PROVE Len(fs[i].done) < Len(fs[i].expects)
  <2>1. i \in 1..n /\ fs[i] = s[i] /\ n \in Nat
    BY <1>1, <1>3
  <2>2. CASE i = n
    <3>1. s # <<>>
      BY <2>1
    <3> QED
      BY <2>1, <2>2, <3>1 DEF IsAwaiting
  <2>3. CASE i # n
    <3>1. i \in 1..(n - 1)
      BY <2>1, <2>3
    <3> QED
      BY <2>1, <3>1 DEF FineStack
  <2> QED
    BY <2>2, <2>3
<1> QED
  BY <1>3, <1>6, <1>7 DEF FineStack

(* A frame is taken off the top: the one below still waits for its result. *)
LEMMA Closed ==
  ASSUME NEW fs, NEW w, NEW u, FineStack(fs, w, u), fs # <<>>, NEW s, s = Front(fs)
  PROVE  /\ FineStack(s, w, u) /\ IsAwaiting(s)
         /\ FineFrame(Last(fs), Awaited(s, Len(s)), w, u)
<1> DEFINE n == Len(fs)
<1>1. IsSeq(fs) /\ n \in Nat \ {0}
  BY DEF FineStack, IsSeq
<1>2. n - 1 \in 0..Len(fs)
  BY <1>1
<1>3. IsSeq(s) /\ Len(s) = n - 1 /\ \A i \in 1..(n - 1) : s[i] = fs[i]
  BY <1>1, <1>2, Shortened DEF Front
<1>4. ASSUME NEW i \in 1..n PROVE Awaited(s, i - 1) = Awaited(fs, i - 1)
  <2>1. i # 1 => i - 1 \in 1..(n - 1) /\ s[i - 1] = fs[i - 1]
    BY <1>1, <1>3
  <2> QED
    BY <2>1 DEF Awaited
<1>5. ASSUME NEW i \in 1..(n - 1) PROVE FineFrame(s[i], Awaited(s, i - 1), w, u)
  <2>1. i \in 1..n
    BY <1>1
  <2>2. FineFrame(fs[i], Awaited(fs, i - 1), w, u)
    BY <2>1 DEF FineStack
  <2> QED
    BY <1>3, <1>4, <2>1, <2>2
<1>6. \A i \in 1..(n - 1) : Len(s[i].done) < Len(s[i].expects)
  BY <1>3 DEF FineStack
<1>7. FineStack(s, w, u)
  <2>1. \A i \in 1..((n - 1) - 1) : i \in 1..(n - 1)
    BY <1>1
  <2> QED
    BY <1>3, <1>5, <1>6, <2>1 DEF FineStack
<1>8. IsAwaiting(s)
  <2>1. s # <<>> => Len(s) \in 1..(n - 1)
    BY <1>1, <1>3 DEF IsSeq
  <2> QED
    BY <1>6, <2>1 DEF IsAwaiting
<1>9. FineFrame(Last(fs), Awaited(s, Len(s)), w, u)
  <2>1. n \in 1..n
    BY <1>1
  <2>2. FineFrame(fs[n], Awaited(fs, n - 1), w, u)
    BY <2>1 DEF FineStack
  <2> QED
    BY <1>3, <1>4, <2>1, <2>2 DEF Last
<1> QED
  BY <1>7, <1>8, <1>9

-----------------------------------------------------------------------------
(* Expressions that give nothing, which is what a body is made of.         *)
Clean(refs) == IsSeq(refs) /\ \A i \in 1..Len(refs) : refs[i].type = "none" /\ refs[i].ok

LEMMA CleanJoin ==
  ASSUME NEW a, NEW b, Clean(a), Clean(b)
  PROVE  Clean(a \o b)
<1>1. IsSeq(a) /\ IsSeq(b) /\ Len(a) \in Nat /\ Len(b) \in Nat
  BY SeqFacts DEF Clean
<1>2. /\ IsSeq(a \o b) /\ Len(a \o b) = Len(a) + Len(b)
      /\ \A i \in 1..Len(a) : (a \o b)[i] = a[i]
      /\ \A i \in 1..Len(a \o b) : i > Len(a) => (a \o b)[i] = b[i - Len(a)]
  BY <1>1, Joined
<1>3. ASSUME NEW i \in 1..Len(a \o b) PROVE (a \o b)[i].type = "none" /\ (a \o b)[i].ok
  <2>1. \/ i \in 1..Len(a) /\ (a \o b)[i] = a[i]
        \/ i - Len(a) \in 1..Len(b) /\ (a \o b)[i] = b[i - Len(a)]
    BY <1>1, <1>2
  <2> QED
    BY <2>1, Zenon DEF Clean
<1> QED
  BY <1>2, <1>3, Zenon DEF Clean

LEMMA CleanOne ==
  ASSUME NEW c, c.type = "none", c.ok
  PROVE  Clean(<<c>>)
<1>1. IsSeq(<<c>>) /\ \A i \in 1..Len(<<c>>) : <<c>>[i] = c
  BY One
<1> QED
  BY <1>1, Zenon DEF Clean

LEMMA CleanBuilt ==
  ASSUME NEW n \in Nat, NEW s, DOMAIN s = 1..n, s = [k \in 1..n |-> s[k]],
         \A k \in 1..n : s[k].type = "none" /\ s[k].ok
  PROVE  Clean(s)
<1>1. IsSeq(s) /\ Len(s) = n
  BY Built
<1> QED
  BY <1>1, Zenon DEF Clean

LEMMA CleanAppend ==
  ASSUME NEW s, Clean(s), NEW c, c.type = "none", c.ok
  PROVE  Clean(Append(s, c))
<1>1. IsSeq(s) /\ Len(s) \in Nat
  BY SeqFacts DEF Clean
<1>2. /\ IsSeq(Append(s, c)) /\ Len(Append(s, c)) = Len(s) + 1
      /\ Append(s, c)[Len(s) + 1] = c
      /\ \A i \in 1..Len(s) : Append(s, c)[i] = s[i]
  BY <1>1, Appended
<1>3. ASSUME NEW i \in 1..Len(Append(s, c))
      PROVE  Append(s, c)[i].type = "none" /\ Append(s, c)[i].ok
  <2>1. \/ i \in 1..Len(s) /\ Append(s, c)[i] = s[i]
        \/ Append(s, c)[i] = c
    BY <1>1, <1>2
  <2> QED
    BY <2>1, Zenon DEF Clean
<1> QED
  BY <1>2, <1>3, Zenon DEF Clean

LEMMA CleanIsValid ==
  ASSUME NEW refs, Clean(refs)
  PROVE  AllOk(refs) /\ \A i \in DOMAIN refs : refs[i].type = "none"
<1>1. DOMAIN refs = 1..Len(refs)
  BY SeqFacts DEF Clean
<1> QED
  BY <1>1, Zenon DEF Clean, AllOk

(* Local::assignToLocal and assignToMemory find the values they assign     *)
(* behind the expressions that are only computed.                          *)
LEMMA Divided ==
  ASSUME NEW d, IsSound(d), NEW U, U = underlyingTypes(d.type), IsSeq(U)
  PROVE  /\ ~Missing(d) /\ Clean(Before(d)) /\ Matched(Assigned(d), U)
         /\ DOMAIN Assigned(d) = 1..Len(U)
<1>1. SoundAs(d.refs, U) /\ IsSeq(d.refs)
  BY DEF IsSound, SoundAs
<1>2. PICK n \in 0..Len(d.refs) :
        /\ Len(d.refs) = n + Len(U)
        /\ \A i \in 1..n : d.refs[i].type = "none" /\ d.refs[i].ok
        /\ \A k \in 1..Len(U) : d.refs[n + k].type = U[k] /\ d.refs[n + k].ok
  BY <1>1, Zenon DEF SoundAs
<1>3. Len(d.refs) \in Nat /\ Len(U) \in Nat /\ DOMAIN U = 1..Len(U)
  BY <1>1, SeqFacts
<1>4. n \in Nat /\ Len(d.refs) - Len(U) = n /\ ~(Len(d.refs) < Len(U))
  BY <1>2, <1>3
<1>5. Before(d) = SubSeq(d.refs, 1, n)
  BY <1>4 DEF Before
<1>6. IsSeq(Before(d)) /\ Len(Before(d)) = n /\ \A i \in 1..n : Before(d)[i] = d.refs[i]
  BY <1>1, <1>5, Shortened
<1>7. Clean(Before(d))
  BY <1>2, <1>6, Zenon DEF Clean
<1>8. ~Missing(d)
  BY <1>4 DEF Missing
<1> DEFINE a == Assigned(d)
<1>9. a = [k \in 1..Len(U) |-> d.refs[n + k]]
  BY <1>3, <1>6 DEF Assigned
<1>10. DOMAIN a = 1..Len(U) /\ a = [k \in 1..Len(U) |-> a[k]] /\ \A k \in 1..Len(U) : a[k] = d.refs[n + k]
  BY <1>9
<1> HIDE DEF a
<1>11. IsSeq(a) /\ Len(a) = Len(U)
  BY <1>3, <1>10, Built
<1>12. \A k \in 1..Len(U) : a[k].type = U[k] /\ a[k].ok
  BY <1>2, <1>10, Zenon
<1>13. Matched(a, U)
  BY <1>11, <1>12, Zenon DEF Matched
<1> QED
  BY <1>7, <1>8, <1>10, <1>13 DEF a

(* Stores of wasm values validate, and so does writing `this` back.        *)
LEMMA StoresAreClean ==
  ASSUME NEW L \in Seq(WasmTypes), NEW a, Matched(a, L), NEW base, NEW M,
         NEW s, s = [k \in 1..Len(L) |-> BinaryenStore(base + Offset(M, k), L[k], a[k])]
  PROVE  Clean(s)
<1>1. Len(L) \in Nat /\ \A k \in 1..Len(L) : L[k] \in WasmTypes
  OBVIOUS
<1>2. DOMAIN s = 1..Len(L) /\ s = [k \in 1..Len(L) |-> s[k]]
  OBVIOUS
<1>3. ASSUME NEW k \in 1..Len(L) PROVE s[k].type = "none" /\ s[k].ok
  <2>1. s[k] = BinaryenStore(base + Offset(M, k), L[k], a[k])
    OBVIOUS
  <2>2. s[k].type = "none" /\ s[k].ok = (a[k].ok /\ a[k].type = L[k] /\ L[k] \in WasmTypes)
    BY <2>1 DEF BinaryenStore, Ref
  <2> QED
    BY <1>1, <2>2, Zenon DEF Matched
<1> QED
  BY <1>1, <1>2, <1>3, CleanBuilt

LEMMA WriteBackIsClean ==
  ASSUME FineWhole(whole, use), use.is = "return"
  PROVE  Clean(WriteBack)
<1>1. use.this \in Variables \cup {"none"}
  BY DEF FineWhole
<1>2. CASE use.this = "none"
  <2>1. <<>> \in Seq({}) /\ \A i \in 1..Len(<<>>) : FALSE
    OBVIOUS
  <2>2. Clean(<<>>)
    BY <2>1, SeqIs DEF Clean
  <2> QED
    BY <1>2, <2>2 DEF WriteBack
<1>3. CASE use.this # "none"
  <2> DEFINE x == use.this
             L == Slots[VariableType[x]]
  <2>1. x \in Variables
    BY <1>1, <1>3
  <2>2. Matched(Pushed(x), L) /\ L \in Seq(WasmTypes) /\ DOMAIN L = 1..Len(L)
    BY <2>1, PushedMatches, TypesHaveSlots
  <2>3. WriteBack = [k \in DOMAIN L |-> StoreAt(getSize(underlyingTypes(use.type)), L, k, Pushed(x)[k])]
    BY <1>3 DEF WriteBack
  <2>4. WriteBack = [k \in 1..Len(L) |->
                       BinaryenStore(getSize(underlyingTypes(use.type)) + Offset(L, k), L[k], Pushed(x)[k])]
    BY <2>2, <2>3 DEF StoreAt
  <2> HIDE DEF x, L
  <2> QED
    BY <2>2, <2>4, StoresAreClean
<1> QED
  BY <1>2, <1>3

-----------------------------------------------------------------------------
(* The actions.                                                            *)
LEMMA Stays ==
  ASSUME Sound, UNCHANGED <<use, whole, frames, value>>, status' \notin {"invalid", "assertion"}
  PROVE  Sound'
BY DEF Sound

LEMMA ValueAlone ==
  ASSUME Sound, frames # <<>> \/ value = <<>>
  PROVE  value = <<>>
BY DEF Sound, FineValue

(* What the innermost frame waits for.                                     *)
LEMMA Expected ==
  ASSUME Sound, Awaiting
  PROVE  /\ value = <<>> /\ IsAwaiting(frames)
         /\ expected = Awaited(frames, Len(frames)) /\ expected \in Types \cup {Whole}
<1>1. CASE frames = <<>>
  <2>1. Len(<<>>) = 0
    OBVIOUS
  <2> QED
    BY <1>1, <2>1 DEF Awaiting, IsAwaiting, expected, Awaited
<1>2. CASE frames # <<>>
  <2>1. IsSeq(frames) /\ Len(frames) \in Nat \ {0}
    BY <1>2 DEF Sound, FineStack, IsSeq
  <2>2. top = frames[Len(frames)] /\ Len(top.done) < Len(top.expects)
    BY <1>2 DEF Awaiting, top, Last
  <2>3. expected = top.expects[Len(top.done) + 1] /\ expected = Awaited(frames, Len(frames))
    BY <1>2, <2>1, <2>2 DEF expected, Awaited
  <2>4. top.expects \in Seq(Types \cup {Whole}) /\ IsSeq(top.done)
    <3>1. FineFrame(frames[Len(frames)], Awaited(frames, Len(frames) - 1), whole, use)
      BY <2>1 DEF Sound, FineStack
    <3> QED
      BY <2>2, <3>1 DEF FineFrame
  <2>5. Len(top.done) + 1 \in 1..Len(top.expects)
    BY <2>2, <2>4, SeqFacts
  <2>a. \A A \in Seq(Types \cup {Whole}) : \A k \in 1..Len(A) : A[k] \in Types \cup {Whole}
    OBVIOUS
  <2>6. expected \in Types \cup {Whole}
    BY <2>3, <2>4, <2>5, <2>a, Zenon
  <2> QED
    BY <1>2, <2>2, <2>3, <2>6, ValueAlone DEF IsAwaiting
<1> QED
  BY <1>1, <1>2

(* tryResolveTo: what is expected is of the type that was found from then  *)
(* on, and no frame has to be looked at again.                             *)
LEMMA Resolved ==
  ASSUME Sound, Awaiting, NEW t \in Types, Fits(t), tryResolveTo(t), UNCHANGED use
  PROVE  /\ TypeIn(whole', expected) = t
         /\ whole = TypeAuto \/ whole' = whole
         /\ FineWhole(whole', use)
         /\ FineStack(frames, whole', use)
<1>1. expected \in Types \cup {Whole} /\ FineWhole(whole, use) /\ FineStack(frames, whole, use)
  BY Expected DEF Sound
<1>2. Whole \notin Types /\ TypeAuto \notin Types
  BY TypesHaveSlots
<1>3. use.is # "drop" => whole \in Types
  BY <1>1, ScopeAssumption DEF FineWhole, Types
<1>4. /\ TypeIn(whole', expected) = t
      /\ whole = TypeAuto \/ whole' = whole
      /\ whole' = whole \/ (use.is = "drop" /\ whole' = t)
  <2>1. CASE expected # Whole
    BY <1>1, <1>2, <2>1 DEF Fits, expectedType, tryResolveTo, TypeIn
  <2>2. CASE expected = Whole
    BY <1>2, <1>3, <2>2 DEF Fits, expectedType, tryResolveTo, TypeIn
  <2> QED
    BY <2>1, <2>2
<1>5. FineWhole(whole', use)
  BY <1>1, <1>4 DEF FineWhole
<1>6. FineStack(frames, whole', use)
  <2>1. PICK w : w = whole'
    OBVIOUS
  <2>2. FineStack(frames, w, use)
    BY <1>1, <1>4, <2>1, StackKept
  <2> QED
    BY <2>1, <2>2
<1> QED
  BY <1>4, <1>5, <1>6

LEMMA VariableKeeps ==
  ASSUME Sound, NEW x \in Variables, CompileVariable(x)
  PROVE  Sound'
<1>1. CASE Fail("TypeConvertError")
  BY <1>1, Stays DEF Fail
<1>2. CASE ~ Fail("TypeConvertError")
  <2> DEFINE t == VariableType[x]
             d == Data(Pushed(x), t, << <<"variable", x>> >>)
  <2>1. /\ Awaiting /\ Fits(t) /\ tryResolveTo(t) /\ Return(frames, d)
        /\ UNCHANGED <<use, body, causes, room, status>>
    BY <1>2 DEF CompileVariable
  <2>2. t \in Types /\ Matched(Pushed(x), underlyingTypes(t))
    BY PushedMatches DEF Types
  <2>3. /\ value = <<>> /\ IsAwaiting(frames)
        /\ expected = Awaited(frames, Len(frames))
    BY <2>1, Expected
  <2>4. TypeIn(whole', expected) = t /\ FineWhole(whole', use) /\ FineStack(frames, whole', use)
    BY <2>1, <2>2, Resolved
  <2>5. d.type = t /\ d.refs = Pushed(x)
    BY DEF Data
  <2>6. IsSound(d)
    BY <2>2, <2>5, SoundAlone
  <2>7. PICK w : w = whole'
    OBVIOUS
  <2>8. Compiled(Awaited(frames, Len(frames)), d, w, use)
    BY <2>2, <2>3, <2>4, <2>5, <2>6, <2>7 DEF Compiled
  <2>9. PICK fs, v : fs = frames' /\ v = value'
    OBVIOUS
  <2>10. \/ frames = <<>> /\ fs = frames /\ v = <<d>>
         \/ frames # <<>> /\ fs = [frames EXCEPT ![Len(frames)].done = Append(@, d)] /\ v = <<>>
    BY <2>1, <2>3, <2>9 DEF Return
  <2> HIDE DEF d, t
  <2>11. FineStack(fs, w, use) /\ FineValue(v, fs, w, use)
    BY <2>3, <2>4, <2>7, <2>8, <2>10, Returned
  <2> QED
    BY <2>1, <2>4, <2>7, <2>9, <2>11 DEF Sound
<1> QED
  BY <1>1, <1>2

LEMMA CallKeeps ==
  ASSUME Sound, NEW f \in Functions, NEW r, Call(f, r)
  PROVE  Sound'
<1>1. CASE Fail("ArgumentCountError") \/ Fail("TypeConvertError")
  BY <1>1, Stays DEF Fail
<1>2. CASE ~ (Fail("ArgumentCountError") \/ Fail("TypeConvertError"))
  <2> DEFINE t == ReturnType[f]
             A == ArgumentTypes[f]
  <2>1. /\ Awaiting /\ Fits(t) /\ tryResolveTo(t) /\ Open(f, r, A, expected)
        /\ UNCHANGED <<use, value, body, causes, status>>
    BY <1>2 DEF Call, Open
  <2>2. t \in Types /\ A \in Seq(Types \cup {Whole}) /\ f # "?"
    BY ScopeAssumption, NamesAssumption DEF Types
  <2>3. /\ value = <<>> /\ IsAwaiting(frames)
        /\ expected = Awaited(frames, Len(frames))
    BY <2>1, Expected
  <2>4. TypeIn(whole', expected) = t /\ FineWhole(whole', use) /\ FineStack(frames, whole', use)
    BY <2>1, <2>2, Resolved
  <2>5. PICK w, fs : w = whole' /\ fs = frames'
    OBVIOUS
  <2>6. fs = Append(frames, [f |-> f, receiver |-> r, expects |-> A, expected |-> expected, done |-> <<>>])
    BY <2>1, <2>5 DEF Open
  <2>7. FineStack(fs, w, use)
    BY <2>2, <2>3, <2>4, <2>5, <2>6, Opened
  <2>8. value' = <<>>
    BY <2>1, <2>3
  <2>9. FineValue(value', frames', whole', use)
    BY <2>8 DEF FineValue
  <2> QED
    BY <2>1, <2>4, <2>5, <2>7, <2>9 DEF Sound
<1> QED
  BY <1>1, <1>2

LEMMA TernaryKeeps ==
  ASSUME Sound, CompileTernary
  PROVE  Sound'
<1>1. /\ Awaiting /\ Open("?", "none", <<expected, expected>>, expected)
      /\ UNCHANGED <<use, whole, value, body, causes, status>>
  BY DEF CompileTernary, Open
<1>2. /\ value = <<>> /\ IsAwaiting(frames) /\ expected \in Types \cup {Whole}
      /\ expected = Awaited(frames, Len(frames))
  BY <1>1, Expected
<1>3. <<expected, expected>> \in Seq(Types \cup {Whole}) /\ "?" \notin Functions
  BY <1>2, NamesAssumption
<1>4. PICK fs : fs = frames'
  OBVIOUS
<1>5. fs = Append(frames, [f |-> "?", receiver |-> "none", expects |-> <<expected, expected>>,
                           expected |-> expected, done |-> <<>>])
  BY <1>1, <1>4 DEF Open
<1>6. FineStack(frames, whole, use)
  BY DEF Sound
<1>7. FineStack(fs, whole, use)
  BY <1>2, <1>3, <1>5, <1>6, Opened
<1>8. value' = <<>>
  BY <1>1, <1>2
<1>9. FineValue(value', frames', whole, use)
  BY <1>8 DEF FineValue
<1> QED
  BY <1>1, <1>4, <1>7, <1>9 DEF Sound

(* A frame is closed with the code of what it was opened for.              *)
LEMMA CloseKeeps ==
  ASSUME Sound, frames # <<>>, NEW s, s = Front(frames), NEW d, Return(s, d),
         FineFrame(top, Awaited(s, Len(s)), whole, use) => Compiled(Awaited(s, Len(s)), d, whole, use),
         UNCHANGED <<use, whole, status>>
  PROVE  Sound'
<1>1. FineStack(frames, whole, use) /\ value = <<>>
  BY ValueAlone DEF Sound
<1>2. /\ FineStack(s, whole, use) /\ IsAwaiting(s)
      /\ FineFrame(Last(frames), Awaited(s, Len(s)), whole, use)
  BY <1>1, Closed
<1>3. Compiled(Awaited(s, Len(s)), d, whole, use)
  BY <1>2 DEF top
<1>4. PICK fs, v : fs = frames' /\ v = value'
  OBVIOUS
<1>5. \/ s = <<>> /\ fs = s /\ v = <<d>>
      \/ s # <<>> /\ fs = [s EXCEPT ![Len(s)].done = Append(@, d)] /\ v = <<>>
  BY <1>1, <1>4 DEF Return
<1>6. FineStack(fs, whole, use) /\ FineValue(v, fs, whole, use)
  BY <1>2, <1>3, <1>5, Returned
<1> QED
  BY <1>4, <1>6 DEF Sound

LEMMA CloseCallKeeps ==
  ASSUME Sound, CloseCall, causes' = {}
  PROVE  Sound'
<1> DEFINE s == Front(frames)
           t == ReturnType[top.f]
           c == BinaryenCall(top.f, Operands(top.done))
           x == Append(FlattenSeq([i \in DOMAIN top.done |-> top.done[i].expr]),
                       <<"call", top.f, top.receiver>>)
           d == Data(IF LoadsFromMemory(t) THEN <<c>> \o Loaded(LoadedAs(top.expected, t)) ELSE <<c>>, t, x)
<1>1. /\ frames # <<>> /\ top.f \in Functions /\ Len(top.done) = Len(top.expects)
      /\ Return(s, d) /\ UNCHANGED <<use, whole, status>>
  BY DEF CloseCall
<1>2. ~Spread(top)
  <2>1. causes' = causes \cup {k \in {"spread"} : Spread(top)}
    BY DEF CloseCall
  <2> QED
    BY <2>1
<1>3. ASSUME FineFrame(top, Awaited(s, Len(s)), whole, use)
      PROVE  Compiled(Awaited(s, Len(s)), d, whole, use)
  <2> HIDE DEF s, x
  <2> QED
    BY <1>1, <1>2, <1>3, ResultIsCompiled
<1> HIDE DEF d
<1> QED
  BY <1>1, <1>3, CloseKeeps

LEMMA CloseTernaryKeeps ==
  ASSUME Sound, CloseTernary, causes' = {}
  PROVE  Sound'
<1> DEFINE s == Front(frames)
           t == top.done[1].type
           arms == [i \in Arms |-> combineExprRef(top.done[i].refs)]
<1>1. PICK taken \in Arms : Return(s, Data(<<BinaryenIf(arms, taken)>>, t, top.done[taken].expr))
  BY DEF CloseTernary
<1> DEFINE d == Data(<<BinaryenIf(arms, taken)>>, t, top.done[taken].expr)
<1>2. /\ frames # <<>> /\ top.f = "?" /\ Len(top.done) = 2
      /\ Return(s, d) /\ UNCHANGED <<use, whole, status>>
  BY <1>1 DEF CloseTernary
<1>3. ~LoadsFromMemory(t)
  <2>1. causes' = causes \cup {c \in {"chosen"} : LoadsFromMemory(t)}
    BY DEF CloseTernary
  <2> QED
    BY <2>1
<1>4. ASSUME FineFrame(top, Awaited(s, Len(s)), whole, use)
      PROVE  Compiled(Awaited(s, Len(s)), d, whole, use)
  <2> HIDE DEF s
  <2> QED
    BY <1>2, <1>3, <1>4, ChoiceIsCompiled
<1> HIDE DEF d
<1> QED
  BY <1>2, <1>4, CloseKeeps

(* The whole expression has the type it was resolved to.                   *)
LEMMA ReadyFacts ==
  ASSUME Sound, Ready
  PROVE  /\ value[1].type = whole /\ whole \in Types /\ FineWhole(whole, use)
         /\ IsSound(value[1]) \/ (use.is = "drop" /\ LoadsFromMemory(whole))
<1>1. FineWhole(whole, use) /\ Compiled(Whole, value[1], whole, use)
  BY DEF Sound, FineValue, Ready
<1>2. TypeIn(whole, Whole) = whole
  BY DEF TypeIn
<1> QED
  BY <1>1, <1>2 DEF Compiled

LEMMA FinishKeeps ==
  ASSUME Sound, NEW refs, Clean(refs), Finish(refs)
  PROVE  Sound'
<1>1. AllOk(refs) /\ \A i \in DOMAIN refs : refs[i].type = "none"
  BY CleanIsValid
<1>2. status' = "valid"
  BY <1>1, Zenon DEF Finish
<1> QED
  BY <1>2, Stays DEF Finish

LEMMA DropKeeps ==
  ASSUME Sound, DropValue, causes' = {}
  PROVE  Sound'
<1> DEFINE ref == combineExprRef(value[1].refs)
           last == IF underlyingType(whole) = "none" THEN ref ELSE BinaryenDrop(ref)
<1>1. Ready /\ Finish(<<last>>) /\ ~LoadsFromMemory(whole)
  <2>1. causes' = causes \cup {c \in {"dropped"} : LoadsFromMemory(whole)}
    BY DEF DropValue
  <2> QED
    BY <2>1 DEF DropValue
<1>2. value[1].type = whole /\ whole \in Types /\ IsSound(value[1])
  BY <1>1, ReadyFacts
<1>3. ref.ok /\ ref.type = underlyingType(whole)
  <2>1. value[1].type \in Types /\ ~LoadsFromMemory(value[1].type)
    BY <1>1, <1>2
  <2> QED
    BY <1>2, <2>1, Combined
<1>4. last.ok /\ last.type = "none"
  <2>1. CASE underlyingType(whole) = "none"
    BY <1>3, <2>1
  <2>2. CASE underlyingType(whole) # "none"
    <3>1. last.type = "none" /\ last.ok = (ref.ok /\ ref.type # "none")
      BY <2>2 DEF BinaryenDrop, Ref
    <3> QED
      BY <1>3, <2>2, <3>1, Zenon
  <2> QED
    BY <2>1, <2>2
<1> HIDE DEF last
<1>5. Clean(<<last>>)
  BY <1>4, CleanOne
<1> QED
  BY <1>1, <1>5, FinishKeeps

LEMMA StoreKeeps ==
  ASSUME Sound, StoreValue
  PROVE  Sound'
<1> DEFINE d == value[1]
           x == use.to
           L == Slots[VariableType[x]]
           a == Assigned(d)
           sets == [k \in DOMAIN a |-> BinaryenSet(x, k, a[k])]
<1>1. Ready /\ use.is = "store"
  BY DEF StoreValue
<1>2. d.type = whole /\ IsSound(d) /\ x \in Variables /\ whole = VariableType[x]
  BY <1>1, ReadyFacts DEF FineWhole
<1>3. L \in Seq(WasmTypes) /\ L = underlyingTypes(d.type)
  BY <1>2, PushedMatches, TypesHaveSlots
<1>4. Len(L) \in Nat /\ IsSeq(L)
  BY <1>3, SeqIs
<1>5. ~Missing(d) /\ Clean(Before(d)) /\ Matched(a, L) /\ DOMAIN a = 1..Len(L)
  BY <1>2, <1>3, <1>4, Divided
<1>6. Finish(Before(d) \o sets)
  BY <1>5 DEF StoreValue
<1>7. DOMAIN sets = 1..Len(L) /\ sets = [k \in 1..Len(L) |-> sets[k]]
      /\ \A k \in 1..Len(L) : sets[k] = BinaryenSet(x, k, a[k])
  BY <1>5
<1>8. ASSUME NEW k \in 1..Len(L) PROVE sets[k].type = "none" /\ sets[k].ok
  <2>1. sets[k].type = "none" /\ sets[k].ok = (a[k].ok /\ a[k].type = L[k])
    BY <1>7 DEF BinaryenSet, Ref
  <2> QED
    BY <1>5, <2>1, Zenon DEF Matched
<1> HIDE DEF sets, d
<1>9. Clean(sets)
  BY <1>4, <1>7, <1>8, CleanBuilt
<1>10. Clean(Before(d) \o sets)
  BY <1>5, <1>9, CleanJoin
<1> QED
  BY <1>6, <1>10, FinishKeeps

LEMMA ReturnKeeps ==
  ASSUME Sound, ReturnValue, causes' = {}
  PROVE  Sound'
<1> DEFINE d == value[1]
           t == use.type
<1>1. Ready /\ use.is = "return"
  BY DEF ReturnValue
<1>2. d.type = t /\ t \in Types /\ IsSound(d) /\ FineWhole(whole, use) /\ whole = t
  BY <1>1, ReadyFacts DEF FineWhole
<1>3. Clean(WriteBack)
  BY <1>1, <1>2, WriteBackIsClean
<1>4. CASE ReturnsValue(t)
  <2> DEFINE c == combineExprRef(d.refs)
             r == BinaryenReturn(<<c>>, t)
  <2>1. Finish(Append(WriteBack, r))
    BY <1>4 DEF ReturnValue
  <2>2. ~LoadsFromMemory(t)
    BY <1>2, <1>4, Single
  <2>3. c.ok /\ c.type = underlyingType(t)
    BY <1>2, <2>2, Combined
  <2>4. IsSeq(<<c>>) /\ Len(<<c>>) = 1 /\ <<c>>[1] = c /\ DOMAIN <<c>> = {1}
    BY One
  <2>5. Last(<<c>>) = c
    BY <2>4 DEF Last
  <2>6. AllOk(<<c>>)
    BY <2>3, <2>4, Zenon DEF AllOk
  <2>7. r.type = "none" /\ r.ok = (AllOk(<<c>>) /\ (ReturnsValue(t) => Last(<<c>>).type = underlyingType(t)))
    BY DEF BinaryenReturn, Ref
  <2>8. r.ok
    BY <2>3, <2>5, <2>6, <2>7, Zenon
  <2> HIDE DEF r
  <2>9. Clean(Append(WriteBack, r))
    BY <1>3, <2>7, <2>8, CleanAppend
  <2> QED
    BY <2>1, <2>9, FinishKeeps
<1>5. CASE ~ReturnsValue(t)
  <2> DEFINE U == underlyingTypes(t)
             a == Assigned(d)
             stores == [k \in DOMAIN a |-> StoreAt(0, U, k, a[k])]
             r == BinaryenReturn(<<>>, t)
  <2>1. IsSeq(U)
    BY <1>2, Single
  <2>2. ~Missing(d) /\ Clean(Before(d)) /\ Matched(a, U) /\ DOMAIN a = 1..Len(U)
    BY <1>2, <2>1, Divided
  <2>3. /\ Finish(Before(d) \o stores \o WriteBack \o <<r>>)
        /\ causes' = causes \cup {c \in {"nothing"} : t = Void}
    BY <1>5, <2>2 DEF ReturnValue
  <2>4. t # Void
    BY <2>3
  <2>5. U \in Seq(WasmTypes)
    BY <1>2, <2>4, TypesHaveSlots DEF Types
  <2>6. stores = [k \in 1..Len(U) |-> BinaryenStore(0 + Offset(U, k), U[k], a[k])]
    BY <2>2 DEF StoreAt
  <2> HIDE DEF U, a
  <2>7. Clean(stores)
    BY <2>2, <2>5, <2>6, StoresAreClean
  <2>8. r.type = "none" /\ r.ok = (AllOk(<<>>) /\ (ReturnsValue(t) => Last(<<>>).type = underlyingType(t)))
    BY DEF BinaryenReturn, Ref
  <2>9. AllOk(<<>>)
    <3>1. \A i \in DOMAIN <<>> : FALSE
      OBVIOUS
    <3> QED
      BY <3>1, Zenon DEF AllOk
  <2>10. r.ok
    BY <1>5, <2>8, <2>9, Zenon
  <2> HIDE DEF r, stores
  <2>11. Clean(<<r>>)
    BY <2>8, <2>10, CleanOne
  <2>12. Clean(Before(d) \o stores \o WriteBack \o <<r>>)
    <3>1. Clean(Before(d) \o stores)
      BY <2>2, <2>7, CleanJoin
    <3>2. Clean((Before(d) \o stores) \o WriteBack)
      BY <1>3, <3>1, CleanJoin
    <3>3. Clean(((Before(d) \o stores) \o WriteBack) \o <<r>>)
      BY <2>11, <3>2, CleanJoin
    <3> QED
      BY <3>3
  <2> QED
    BY <2>3, <2>12, FinishKeeps
<1> QED
  BY <1>4, <1>5

-----------------------------------------------------------------------------
LEMMA InitSound == Init => SoundInv
<1> SUFFICES ASSUME Init PROVE Sound
  BY DEF SoundInv
<1>1. use \in Use /\ frames = <<>> /\ value = <<>> /\ status = "compiling"
  BY ScopeAssumption DEF Init
<1>2. FineWhole(whole, use)
  <2>1. CASE use.is = "drop"
    BY <2>1 DEF Init, FineWhole
  <2>2. CASE use.is = "store"
    BY <1>1, <2>2 DEF Init, FineWhole, Use
  <2>3. CASE use.is = "return"
    BY <1>1, <2>3 DEF Init, FineWhole, Use
  <2> QED
    BY <1>1, <2>1, <2>2, <2>3 DEF Use
<1>3. IsSeq(<<>>) /\ Len(<<>>) = 0
  <2>1. <<>> \in Seq({}) /\ Len(<<>>) = 0
    OBVIOUS
  <2> QED
    BY <2>1, SeqIs
<1>4. FineStack(<<>>, whole, use)
  <2>1. \A i \in 1..0 : FALSE
    OBVIOUS
  <2>2. \A i \in 1..(0 - 1) : FALSE
    OBVIOUS
  <2> QED
    BY <1>3, <2>1, <2>2, Zenon DEF FineStack
<1> QED
  BY <1>1, <1>2, <1>4 DEF Sound, FineValue

LEMMA NextSound == SoundInv /\ [Next]_vars => SoundInv'
<1> SUFFICES ASSUME SoundInv, [Next]_vars, causes' = {} PROVE Sound'
  BY DEF SoundInv
<1>1. causes = {}
  BY DEF Next, vars, CompileVariable, CompileCall, CompileMethodCall, Call, Open, CompileMethodOfCall,
         CompileTernary, CloseCall, CloseTernary, DropValue, StoreValue, ReturnValue, Fail
<1>2. Sound
  BY <1>1 DEF SoundInv
<1>3. CASE \E x \in Variables : CompileVariable(x)
  BY <1>2, <1>3, VariableKeeps
<1>4. CASE \E f \in Functions : CompileCall(f)
  BY <1>2, <1>4, CallKeeps DEF CompileCall
<1>5. CASE \E f \in Functions, x \in Variables : CompileMethodCall(f, x)
  BY <1>2, <1>5, CallKeeps DEF CompileMethodCall
<1>6. CASE CompileMethodOfCall
  BY <1>2, <1>6, Stays DEF CompileMethodOfCall, Fail
<1>7. CASE CompileTernary
  BY <1>2, <1>7, TernaryKeeps
<1>8. CASE CloseCall
  BY <1>2, <1>8, CloseCallKeeps
<1>9. CASE CloseTernary
  BY <1>2, <1>9, CloseTernaryKeeps
<1>10. CASE DropValue
  BY <1>2, <1>10, DropKeeps
<1>11. CASE StoreValue
  BY <1>2, <1>11, StoreKeeps
<1>12. CASE ReturnValue
  BY <1>2, <1>12, ReturnKeeps
<1>13. CASE UNCHANGED vars
  BY <1>2, <1>13 DEF vars, Sound
<1> QED
  BY <1>3, <1>4, <1>5, <1>6, <1>7, <1>8, <1>9, <1>10, <1>11, <1>12, <1>13 DEF Next

(* As long as none of the causes has happened, every operand that is done  *)
(* is code of the type its frame expects, every frame is the code the      *)
(* frame below waits for, and the statement is neither rejected by the     *)
(* validator nor stopped by an assertion (compileCallExpression).          *)
THEOREM SoundUnlessCause == Spec => []SoundInv
BY InitSound, NextSound, PTL DEF Spec

(* A statement that is accepted gives code that validates, unless one of   *)
(* the causes has happened: a result of another size among the arguments,  *)
(* a ternary over a value in memory, one that is dropped, or a `return` of *)
(* nothing (compileExpressionStatement, compileReturnStatement).           *)
THEOREM ValidCode == Spec => []ValidUnlessCause
<1>1. SoundInv => ValidUnlessCause
  BY DEF SoundInv, Sound, ValidUnlessCause
<1> QED
  BY <1>1, SoundUnlessCause, PTL

=============================================================================
