-------------------------- MODULE CommandLineProofs --------------------------
(***************************************************************************)
(* What holds of the command line for every list of arguments, every size  *)
(* of the first buffer and every length of a text.                         *)
(***************************************************************************)
EXTENDS CommandLine, FiniteSetTheorems, SequenceTheorems, WellFoundedInduction, TLAPS

-----------------------------------------------------------------------------
(* Finding and erasing in a list.                                          *)

LEMMA LeastNumber ==
  ASSUME NEW S, S \subseteq Nat, S # {}
  PROVE  Min(S) \in S /\ \A y \in S : Min(S) <= y
<1> DEFINE R == OpToRel(<, Nat)
<1>1. IsWellFoundedOn(R, Nat)
  BY NatLessThanWellFounded
<1>2. \A x \in Nat, y \in Nat : y < x => <<y, x>> \in R
  BY DEF OpToRel
<1> HIDE DEF R
<1>3. PICK x \in S : \A y \in S : ~ (<<y, x>> \in R)
  BY <1>1, WFMin
<1>4. \A y \in S : ~(y < x)
  BY <1>2, <1>3, Zenon
<1>5. \A y \in S : x <= y
  BY <1>4
<1> QED
  BY <1>5 DEF Min

Place(s, e) == SelectInSeq(s, LAMBDA a : a = e)

LEMMA FirstIsFound ==
  ASSUME NEW S, NEW s \in Seq(S), NEW e, NEW at, at = Place(s, e)
  PROVE  \/ /\ at = 0 /\ RemoveFirst(s, e) = s
            /\ \A i \in DOMAIN s : s[i] # e
         \/ /\ at \in DOMAIN s /\ s[at] = e /\ at # 0
            /\ RemoveFirst(s, e) = RemoveAt(s, at)
<1> DEFINE I == {i \in 1..Len(s) : s[i] = e}
<1>1. DOMAIN s = 1..Len(s) /\ I \subseteq Nat
  OBVIOUS
<1>2. CASE I = {}
  <2>1. at = 0
    BY <1>2 DEF SelectInSeq, Place
  <2>2. ~\E i \in 1..Len(s) : s[i] = e
    BY <1>2
  <2>3. RemoveFirst(s, e) = s
    BY <2>2 DEF RemoveFirst
  <2> QED
    BY <2>1, <2>2, <2>3, <1>1
<1>3. CASE I # {}
  <2>1. at = Min(I)
    BY <1>3 DEF SelectInSeq, Place
  <2>2. Min(I) \in I
    BY <1>1, <1>3, LeastNumber
  <2>3. \E i \in 1..Len(s) : s[i] = e
    BY <1>3
  <2>4. RemoveFirst(s, e) = RemoveAt(s, SelectInSeq(s, LAMBDA a : a = e))
    BY <2>3 DEF RemoveFirst
  <2>5. RemoveFirst(s, e) = RemoveAt(s, at)
    BY <2>4 DEF Place
  <2> QED
    BY <2>1, <2>2, <2>5, <1>1
<1> QED
  BY <1>2, <1>3

LEMMA Erased ==
  ASSUME NEW S, NEW s \in Seq(S), NEW i \in DOMAIN s
  PROVE  /\ RemoveAt(s, i) \in Seq(S) /\ Len(RemoveAt(s, i)) = Len(s) - 1
         /\ \A j \in 1..(Len(s) - 1) : RemoveAt(s, i)[j] = IF j < i THEN s[j] ELSE s[j + 1]
<1> DEFINE a == SubSeq(s, 1, i - 1)
           b == SubSeq(s, i + 1, Len(s))
<1>1. i \in Nat \ {0} /\ Len(s) \in Nat /\ i <= Len(s) /\ DOMAIN s = 1..Len(s)
  OBVIOUS
<1>2. a \in Seq(S) /\ Len(a) = i - 1 /\ \A j \in 1..(i - 1) : a[j] = s[j]
  BY <1>1
<1>3. b \in Seq(S) /\ Len(b) = Len(s) - i /\ \A j \in 1..(Len(s) - i) : b[j] = s[j + i]
  BY <1>1
<1>4. RemoveAt(s, i) = a \o b
  BY DEF RemoveAt
<1> HIDE DEF a, b
<1>5. RemoveAt(s, i) \in Seq(S) /\ Len(RemoveAt(s, i)) = Len(s) - 1
  <2>1. a \o b \in Seq(S) /\ Len(a \o b) = Len(a) + Len(b)
    BY <1>2, <1>3, ConcatProperties
  <2>2. Len(a) + Len(b) = Len(s) - 1
    BY <1>1, <1>2, <1>3
  <2> QED
    BY <2>1, <2>2, <1>4
<1>6. ASSUME NEW j \in 1..(Len(s) - 1)
      PROVE  RemoveAt(s, i)[j] = IF j < i THEN s[j] ELSE s[j + 1]
  <2>1. CASE j < i
    BY <2>1, <1>1, <1>2, <1>3, <1>4
  <2>2. CASE j >= i
    <3>1. (a \o b)[j] = b[j - (i - 1)] /\ j - (i - 1) \in 1..(Len(s) - i)
      BY <2>2, <1>1, <1>2, <1>3
    <3>2. b[j - (i - 1)] = s[(j - (i - 1)) + i] /\ (j - (i - 1)) + i = j + 1
      BY <3>1, <1>1, <1>3
    <3>3. ~(j < i)
      BY <2>2, <1>1
    <3>4. RemoveAt(s, i)[j] = s[j + 1]
      BY <3>1, <3>2, <1>4
    <3> QED
      BY <3>3, <3>4
  <2> QED
    BY <2>1, <2>2, <1>1
<1> QED
  BY <1>5, <1>6

(* w tells which of the given arguments the elements of a list are.        *)
Picks(s, w, S) ==
  /\ w \in [1..Len(s) -> S]
  /\ \A i, j \in 1..Len(s) : i < j => w[i] < w[j]
  /\ \A p \in S : \E i \in 1..Len(s) : w[i] = p
  /\ \A i \in 1..Len(s) : s[i] = given[w[i]]

(* w without its element at i.                                             *)
Without(w, i, n) == [j \in 1..(n - 1) |-> IF j < i THEN w[j] ELSE w[j + 1]]

LEMMA PicksErased ==
  ASSUME NEW T, NEW s \in Seq(T), NEW S, S \subseteq Nat, NEW w, Picks(s, w, S), NEW i \in DOMAIN s
  PROVE  Picks(RemoveAt(s, i), Without(w, i, Len(s)), S \ {w[i]})
<1> DEFINE r == RemoveAt(s, i)
           v == Without(w, i, Len(s))
<1>1. i \in Nat \ {0} /\ Len(s) \in Nat /\ i <= Len(s) /\ i \in 1..Len(s)
  OBVIOUS
<1>2. Len(r) = Len(s) - 1 /\ \A j \in 1..(Len(s) - 1) : r[j] = IF j < i THEN s[j] ELSE s[j + 1]
  BY Erased
<1> HIDE DEF r
<1>3. /\ w \in [1..Len(s) -> S]
      /\ \A k, j \in 1..Len(s) : k < j => w[k] < w[j]
      /\ \A p \in S : \E k \in 1..Len(s) : w[k] = p
      /\ \A k \in 1..Len(s) : s[k] = given[w[k]]
  BY DEF Picks
<1>4. \A j \in 1..(Len(s) - 1) : j \in 1..Len(s) /\ j + 1 \in 1..Len(s)
  BY <1>1
<1>5. \A k \in 1..Len(s) : w[k] \in S /\ w[k] \in Nat
  BY <1>3
<1>6. \A j \in 1..(Len(s) - 1) : v[j] = IF j < i THEN w[j] ELSE w[j + 1]
  BY DEF Without
<1>7. \A k \in 1..Len(s) : k # i => w[k] # w[i]
  BY <1>1, <1>3, <1>5
<1>8. v \in [1..(Len(s) - 1) -> S \ {w[i]}]
  <2>1. \A j \in 1..(Len(s) - 1) : v[j] \in S \ {w[i]}
    <3> SUFFICES ASSUME NEW j \in 1..(Len(s) - 1) PROVE v[j] \in S \ {w[i]}
      OBVIOUS
    <3>1. CASE j < i
      BY <3>1, <1>1, <1>4, <1>5, <1>6, <1>7
    <3>2. CASE ~(j < i)
      <4>1. v[j] = w[j + 1] /\ j + 1 \in 1..Len(s) /\ j + 1 # i
        BY <3>2, <1>1, <1>4, <1>6
      <4> QED
        BY <4>1, <1>5, <1>7
    <3> QED
      BY <3>1, <3>2
  <2> QED
    BY <2>1 DEF Without
<1> HIDE DEF v
<1>9. ASSUME NEW k \in 1..(Len(s) - 1), NEW j \in 1..(Len(s) - 1), k < j PROVE v[k] < v[j]
  <2>1. CASE j < i
    BY <2>1, <1>1, <1>3, <1>4, <1>6, <1>9
  <2>2. CASE ~(j < i) /\ k < i
    <3>1. v[j] = w[j + 1] /\ v[k] = w[k] /\ k < j + 1
      BY <2>2, <1>6, <1>9
    <3> QED
      BY <3>1, <1>3, <1>4
  <2>3. CASE ~(k < i)
    <3>1. v[j] = w[j + 1] /\ v[k] = w[k + 1] /\ k + 1 < j + 1
      BY <2>3, <1>1, <1>6, <1>9
    <3> QED
      BY <3>1, <1>3, <1>4
  <2> QED
    BY <2>1, <2>2, <2>3
<1>10. ASSUME NEW p \in S \ {w[i]} PROVE \E k \in 1..(Len(s) - 1) : v[k] = p
  <2>1. PICK k \in 1..Len(s) : w[k] = p
    BY <1>3
  <2>2. CASE k < i
    <3>1. k \in 1..(Len(s) - 1) /\ v[k] = w[k]
      BY <2>2, <1>1, <1>6
    <3> QED
      BY <3>1, <2>1
  <2>3. CASE k > i
    <3>1. k - 1 \in 1..(Len(s) - 1) /\ ~(k - 1 < i) /\ (k - 1) + 1 = k
      BY <2>3, <1>1
    <3>2. v[k - 1] = w[k]
      BY <3>1, <1>6
    <3> QED
      BY <3>1, <3>2, <2>1
  <2>4. k # i
    BY <2>1
  <2> QED
    BY <2>2, <2>3, <2>4, <1>1
<1>11. ASSUME NEW j \in 1..(Len(s) - 1) PROVE r[j] = given[v[j]]
  <2>1. CASE j < i
    BY <2>1, <1>2, <1>3, <1>4, <1>6
  <2>2. CASE ~(j < i)
    BY <2>2, <1>2, <1>3, <1>4, <1>6
  <2> QED
    BY <2>1, <2>2
<1>12. Picks(r, v, S \ {w[i]})
  BY <1>2, <1>8, <1>9, <1>10, <1>11 DEF Picks
<1> QED
  BY <1>12 DEF r, v

-----------------------------------------------------------------------------
(* The files.                                                              *)

(* Only the target is opened, after the compilation; what is in it at the  *)
(* end is the whole text.                                                  *)
FilesInv ==
  /\ files \in [Names -> Int]
  /\ compiled \in [valid: BOOLEAN, length: Nat]
  /\ watBuf \in Nat
  /\ pc # "ended" => status = Running
  /\ \A n \in Names :
       files[n] # Kept =>
         n = outputFilePath /\ pc \in {"validate", "wat", "ended"} /\ status \notin {Failure, Abort}
  /\ status = 0 => pc = "ended" /\ WholeText

LEMMA SmallMod ==
  ASSUME NEW a \in Nat, NEW b \in Nat \ {0}
  PROVE  a % b \in Nat /\ (a < b => a % b = a)
OBVIOUS

LEMMA InitFiles == Init => FilesInv
<1> SUFFICES ASSUME Init PROVE FilesInv
  OBVIOUS
<1>1. files = [n \in Names |-> Kept] /\ Kept \in Int
  BY DEF Init, Kept
<1>2. /\ compiled = [valid |-> TRUE, length |-> 0] /\ watBuf = Chunk /\ Chunk \in Nat
      /\ pc = "output" /\ status = Running
  BY SizesAssumption DEF Init, NoModule
<1> QED
  BY <1>1, <1>2 DEF FilesInv, Running

LEMMA ExitFiles ==
  ASSUME FilesInv, pc \notin {"validate", "wat", "ended"}, NEW code \in {Failure, Abort}, Exit(code)
  PROVE  FilesInv'
<1>1. /\ pc' = "ended" /\ status' = code /\ files' = files /\ compiled' = compiled /\ watBuf' = watBuf
      /\ outputFilePath' = outputFilePath
  BY DEF Exit, options
<1>2. \A n \in Names : files'[n] = Kept
  BY <1>1 DEF FilesInv
<1>3. code # 0
  BY DEF Failure, Abort
<1> QED
  BY <1>1, <1>2, <1>3 DEF FilesInv

LEMMA BeforeOpening ==
  ASSUME FilesInv, pc \in {"output", "optimize", "input", "read", "compile"}, pc' \notin {"ended"},
         UNCHANGED <<watBuf, files, status>>, compiled' \in [valid: BOOLEAN, length: Nat]
  PROVE  FilesInv'
<1>1. status = Running /\ Running # 0
  BY DEF FilesInv, Running
<1>2. \A n \in Names : files[n] = Kept
  BY DEF FilesInv
<1> QED
  BY <1>1, <1>2 DEF FilesInv

LEMMA OpenFiles ==
  ASSUME FilesInv, Open
  PROVE  FilesInv'
<1>1. /\ pc = "open" /\ files' = IF outputFilePath \in Writable THEN Opened ELSE files
      /\ pc' \in {"validate", "wat"}
      /\ UNCHANGED <<outputFilePath, compiled, watBuf, status>>
  BY DEF Open, options
<1>2. status = Running /\ Running # 0 /\ status \notin {Failure, Abort}
  BY <1>1 DEF FilesInv, Running, Failure, Abort
<1>3. files' \in [Names -> Int] /\ \A n \in Names : n # outputFilePath => files'[n] = files[n]
  <2> DEFINE content == IF files[outputFilePath] = Kept THEN 0 ELSE files[outputFilePath]
  <2>1. files \in [Names -> Int] /\ Opened = [files EXCEPT ![outputFilePath] = content]
    BY DEF FilesInv, Opened
  <2>2. outputFilePath \in Names => content \in Int
    BY <2>1
  <2> HIDE DEF content
  <2>3. Opened \in [Names -> Int] /\ \A n \in Names : n # outputFilePath => Opened[n] = files[n]
    BY <2>1, <2>2
  <2> QED
    BY <2>1, <2>3, <1>1
<1>4. \A n \in Names : files[n] = Kept
  BY <1>1 DEF FilesInv
<1> QED
  BY <1>1, <1>2, <1>3, <1>4 DEF FilesInv

LEMMA WatFiles ==
  ASSUME FilesInv, Wat
  PROVE  FilesInv'
<1> DEFINE written == Written(watBuf)
           size == written % Limit
<1>1. /\ pc = "wat" /\ UNCHANGED <<outputFilePath, compiled>>
      /\ \/ size = watBuf /\ watBuf' = watBuf * 2 /\ UNCHANGED <<files, pc, status>>
         \/ /\ size # watBuf /\ watBuf' = size /\ pc' = "ended" /\ status' = 0
            /\ files' = IF outputFilePath \in Writable THEN [files EXCEPT ![outputFilePath] = size]
                        ELSE files
  BY DEF Wat, options
<1>2. /\ watBuf \in Nat /\ compiled.length \in Nat /\ status = Running /\ Running # 0
      /\ files \in [Names -> Int]
  BY <1>1 DEF FilesInv, Running
<1>3. written \in Nat /\ written = IF watBuf < compiled.length THEN watBuf ELSE compiled.length
  BY <1>2 DEF Written
<1> HIDE DEF written
<1>4. size \in Nat /\ (written < Limit => size = written)
  BY <1>3, SmallMod, SizesAssumption
<1> HIDE DEF size
<1>5. CASE size = watBuf
  <2>1. watBuf' \in Nat
    BY <1>1, <1>2, <1>5
  <2> QED
    BY <2>1, <1>1, <1>2, <1>5 DEF FilesInv
<1>6. CASE size # watBuf
  <2>1. files' \in [Names -> Int] /\ \A n \in Names : n # outputFilePath => files'[n] = files[n]
    BY <1>1, <1>2, <1>4, <1>6
  <2>2. 0 \notin {Failure, Abort}
    BY DEF Failure, Abort
  <2>3. ASSUME outputFilePath \in Writable, compiled.length < Limit PROVE files'[outputFilePath] = compiled.length
    <3>1. written < Limit
      BY <2>3, <1>2, <1>3, SizesAssumption
    <3>2. size = compiled.length
      BY <3>1, <1>2, <1>3, <1>4, <1>6
    <3>3. outputFilePath \in Names
      BY <2>3, PathsAssumption
    <3> QED
      BY <2>3, <3>2, <3>3, <1>1, <1>2, <1>6
  <2>4. WholeText'
    BY <2>3, <1>1 DEF WholeText
  <2>5. \A n \in Names : files'[n] # Kept => n = outputFilePath'
    BY <2>1, <1>1 DEF FilesInv
  <2> QED
    BY <2>1, <2>2, <2>4, <2>5, <1>1, <1>2, <1>4, <1>6 DEF FilesInv
<1> QED
  BY <1>5, <1>6

LEMMA NextKeepsFiles == FilesInv /\ [Next]_vars => FilesInv'
<1> SUFFICES ASSUME FilesInv, [Next]_vars PROVE FilesInv'
  OBVIOUS
<1>1. compiled \in [valid: BOOLEAN, length: Nat]
  BY DEF FilesInv
<1>2. ASSUME pc \notin {"validate", "wat", "ended"}, Exit(Failure) \/ Exit(Abort) PROVE FilesInv'
  BY <1>2, ExitFiles
<1>3. CASE TakeOutput
  <2>1. pc = "output"
    BY <1>3 DEF TakeOutput
  <2>2. CASE Exit(Failure)
    BY <2>1, <2>2, <1>2
  <2>3. CASE ~Exit(Failure)
    <3>1. pc' = "optimize" /\ UNCHANGED <<compiled, watBuf, files, status>>
      BY <1>3, <2>3 DEF TakeOutput
    <3> QED
      BY <3>1, <2>1, <1>1, BeforeOpening
  <2> QED
    BY <2>2, <2>3
<1>4. CASE TakeOptimize
  <2>1. pc = "optimize" /\ pc' = "input" /\ UNCHANGED <<compiled, watBuf, files, status>>
    BY <1>4 DEF TakeOptimize
  <2> QED
    BY <2>1, <1>1, BeforeOpening
<1>5. CASE TakeInput
  <2>1. pc = "input"
    BY <1>5 DEF TakeInput
  <2>2. CASE Exit(Failure)
    BY <2>1, <2>2, <1>2
  <2>3. CASE ~Exit(Failure)
    <3>1. pc' = "read" /\ UNCHANGED <<compiled, watBuf, files, status>>
      BY <1>5, <2>3 DEF TakeInput
    <3> QED
      BY <3>1, <2>1, <1>1, BeforeOpening
  <2> QED
    BY <2>2, <2>3
<1>6. CASE Read
  <2>1. pc = "read"
    BY <1>6 DEF Read
  <2>2. CASE Exit(Abort)
    BY <2>1, <2>2, <1>2
  <2>3. CASE ~Exit(Abort)
    <3>1. pc' = "compile" /\ UNCHANGED <<compiled, watBuf, files, status>>
      BY <1>6, <2>3 DEF Read
    <3> QED
      BY <3>1, <2>1, <1>1, BeforeOpening
  <2> QED
    BY <2>2, <2>3
<1>7. CASE Compile
  <2>1. pc = "compile"
    BY <1>7 DEF Compile
  <2>2. CASE Exit(Failure) \/ Exit(Abort)
    BY <2>1, <2>2, <1>2
  <2>3. CASE ~(Exit(Failure) \/ Exit(Abort))
    <3>1. PICK valid \in BOOLEAN, length \in Lengths :
            /\ compiled' = [valid |-> valid, length |-> length]
            /\ pc' = "open" /\ UNCHANGED <<watBuf, files, status>>
      BY <1>7, <2>3 DEF Compile
    <3>2. compiled' \in [valid: BOOLEAN, length: Nat]
      BY <3>1, SizesAssumption
    <3> QED
      BY <3>1, <3>2, <2>1, BeforeOpening
  <2> QED
    BY <2>2, <2>3
<1>8. CASE Open
  BY <1>8, OpenFiles
<1>9. CASE ValidateAndOptimize
  <2>1. PICK length \in Lengths :
          /\ pc = "validate" /\ compiled' = [compiled EXCEPT !.length = length]
          /\ pc' = "wat" /\ UNCHANGED <<outputFilePath, watBuf, files, status>>
    BY <1>9 DEF ValidateAndOptimize, options
  <2>2. length \in Nat
    BY SizesAssumption
  <2>3. compiled' \in [valid: BOOLEAN, length: Nat]
    BY <2>1, <2>2, <1>1
  <2>4. status = Running /\ Running # 0
    BY <2>1 DEF FilesInv, Running
  <2> QED
    BY <2>1, <2>3, <2>4 DEF FilesInv
<1>10. CASE Wat
  BY <1>10, WatFiles
<1>11. CASE UNCHANGED vars
  BY <1>11 DEF vars, options, FilesInv, WholeText
<1> QED
  BY <1>3, <1>4, <1>5, <1>6, <1>7, <1>8, <1>9, <1>10, <1>11 DEF Next

(* The loop in Compiler::wat (src/src/compiler.cpp) gives the whole text   *)
(* of every module whose length a uint32_t holds, whatever the buffer's    *)
(* first size: a text that just fills the buffer is written again.         *)
THEOREM TextsAreWhole == Spec => []WholeText
<1>1. FilesInv => WholeText
  BY DEF FilesInv, WholeText
<1> QED
  BY <1>1, InitFiles, NextKeepsFiles, PTL DEF Spec

(* The target is opened when nothing can go wrong any more: an error of    *)
(* the arguments, of a file or of the compilation loses no earlier output  *)
(* (the order of the steps in main, src/src/cli/main.cpp).                 *)
THEOREM FailuresKeepFiles == Spec => []FailureKeepsFiles
<1>1. FilesInv => FailureKeepsFiles
  BY DEF FilesInv, FailureKeepsFiles
<1> QED
  BY <1>1, InitFiles, NextKeepsFiles, PTL DEF Spec

-----------------------------------------------------------------------------
(* The arguments.                                                          *)

Argument == Names \cup {"-o"}
Outputs == {i \in DOMAIN given : given[i] = "-o"}
Targets == {i \in DOMAIN given : i - 1 \in Outputs}
Others == DOMAIN given \ (Outputs \cup Targets)

(* What has been taken so far, and that all the rest is left.              *)
OutputTaken ==
  \/ Outputs = {} /\ Targets = {} /\ outputFilePath = NoPath
  \/ \E o \in DOMAIN given : Outputs = {o} /\ Targets = {o + 1} /\ outputFilePath = given[o + 1]
FlagTaken(F) ==
  /\ optimize => \E f \in Others : given[f] = "-O2" /\ F = {f}
  /\ ~optimize => F = {}
ArgumentsInv ==
  /\ given \in Seq(Argument) /\ arguments \in Seq(Argument)
  /\ pc = "output" => arguments = given /\ outputFilePath = NoPath /\ ~optimize
  /\ pc = "optimize" => OutputTaken /\ ~optimize /\ \E w : Picks(arguments, w, Others)
  /\ pc = "input" => OutputTaken /\ \E F, w : FlagTaken(F) /\ Picks(arguments, w, Others \ F)
  /\ ArgumentsUsed

LEMMA InitArguments == Init => ArgumentsInv
<1> SUFFICES ASSUME Init PROVE ArgumentsInv
  OBVIOUS
<1>1. /\ arguments = given /\ outputFilePath = NoPath /\ ~optimize /\ pc = "output"
      /\ given \in UNION {[1..n -> Names \cup {"-o"}] : n \in 0..MaxArguments}
  BY DEF Init
<1>2. PICK n \in 0..MaxArguments : given \in [1..n -> Argument]
  BY <1>1 DEF Argument
<1>3. n \in Nat
  BY SizesAssumption
<1>4. given \in Seq(Argument)
  BY <1>2, <1>3
<1> QED
  BY <1>1, <1>4 DEF ArgumentsInv, ArgumentsUsed

LEMMA OutputIsTaken ==
  ASSUME ArgumentsInv, TakeOutput, ~Exit(Failure)
  PROVE  ArgumentsInv'
<1> DEFINE at == SelectInSeq(arguments, LAMBDA a : a = "-o")
           rest == RemoveFirst(arguments, "-o")
<1>1. /\ given \in Seq(Argument) /\ arguments = given /\ outputFilePath = NoPath /\ ~optimize
  BY DEF ArgumentsInv, TakeOutput
<1>2. /\ pc' = "optimize" /\ given' = given /\ optimize' = optimize
      /\ \/ /\ at # 0 /\ at <= Len(rest) /\ ~Contains(rest, "-o")
            /\ outputFilePath' = rest[at] /\ arguments' = RemoveAt(rest, at)
         \/ at = 0 /\ outputFilePath' = outputFilePath /\ arguments' = arguments
  BY DEF TakeOutput, options
<1>0. arguments \in Seq(Argument)
  BY <1>1
<1>a. at = Place(arguments, "-o")
  BY DEF Place
<1>b. rest = RemoveFirst(arguments, "-o")
  OBVIOUS
<1> HIDE DEF at, rest
<1>c. \/ /\ at = 0 /\ RemoveFirst(arguments, "-o") = arguments
         /\ \A i \in DOMAIN arguments : arguments[i] # "-o"
      \/ /\ at \in DOMAIN arguments /\ arguments[at] = "-o" /\ at # 0
         /\ RemoveFirst(arguments, "-o") = RemoveAt(arguments, at)
  BY <1>0, <1>a, FirstIsFound
<1>3. \/ at = 0 /\ rest = given /\ \A i \in DOMAIN given : given[i] # "-o"
      \/ at \in DOMAIN given /\ given[at] = "-o" /\ at # 0 /\ rest = RemoveAt(given, at)
  BY <1>1, <1>b, <1>c
<1>4. PICK n \in Nat : DOMAIN given = 1..n /\ n = Len(given)
  BY <1>1
<1>d. PICK w0 : w0 = [i \in 1..n |-> i]
  OBVIOUS
<1>5. Picks(given, w0, DOMAIN given) /\ \A i \in 1..n : w0[i] = i
  BY <1>4, <1>d DEF Picks
<1>6. Outputs' = Outputs /\ Targets' = Targets /\ Others' = Others
  BY <1>2 DEF Outputs, Targets, Others
<1>7. ArgumentsUsed'
  BY <1>2 DEF ArgumentsUsed
<1>8. CASE at = 0
  <2>1. \A i \in DOMAIN given : given[i] # "-o"
    BY <1>3, <1>8, <1>4
  <2>2. Outputs = {} /\ Targets = {} /\ Others = DOMAIN given
    BY <2>1 DEF Outputs, Targets, Others
  <2>3. arguments' = given /\ outputFilePath' = NoPath
    BY <1>1, <1>2, <1>8
  <2>a. OutputTaken'
    BY <2>2, <2>3, <1>6 DEF OutputTaken
  <2>b. \E w : Picks(arguments, w, Others)'
    <3>1. Picks(given, w0, Others) /\ given' = given
      BY <2>2, <1>2, <1>5
    <3>2. Picks(arguments, w0, Others)'
      BY <3>1, <2>3, <1>6 DEF Picks
    <3> QED
      BY <3>2
  <2>4. OutputTaken' /\ \E w : Picks(arguments, w, Others)'
    BY <2>a, <2>b
  <2> QED
    BY <2>3, <2>4, <1>1, <1>2, <1>7 DEF ArgumentsInv
<1>9. CASE at # 0
  <2>1. at \in 1..n /\ at \in Nat /\ given[at] = "-o" /\ rest = RemoveAt(given, at)
    BY <1>3, <1>4, <1>9
  <2>2. PICK v : /\ Picks(rest, v, DOMAIN given \ {at})
                 /\ \A j \in 1..(n - 1) : v[j] = IF j < at THEN j ELSE j + 1
    <3>1. PICK v : v = Without(w0, at, Len(given))
      OBVIOUS
    <3>2. Picks(RemoveAt(given, at), Without(w0, at, Len(given)), DOMAIN given \ {w0[at]})
      <4>1. DOMAIN given \subseteq Nat /\ at \in DOMAIN given /\ given \in Seq(Argument)
        BY <2>1, <1>1, <1>4
      <4>2. Picks(given, w0, DOMAIN given)
        BY <1>5
      <4> QED
        BY <4>1, <4>2, PicksErased
    <3>3. \A j \in 1..(n - 1) : w0[j] = j /\ w0[j + 1] = j + 1
      BY <1>4, <1>5
    <3>4. \A j \in 1..(n - 1) : v[j] = IF j < at THEN j ELSE j + 1
      BY <3>1, <3>3, <1>4 DEF Without
    <3>5. w0[at] = at
      BY <2>1, <1>5
    <3>6. Picks(rest, v, DOMAIN given \ {at})
      BY <3>1, <3>2, <3>5, <2>1
    <3> QED
      BY <3>4, <3>6
  <2>3. rest \in Seq(Argument) /\ Len(rest) = n - 1
    BY <2>1, <1>1, <1>4, Erased
  <2>4. at \in 1..(n - 1) /\ at \in DOMAIN rest
    BY <2>1, <2>3, <1>2, <1>4, <1>9
  <2>5. v[at] = at + 1 /\ at + 1 \in DOMAIN given
    BY <2>1, <2>2, <2>4, <1>4
  <2>6. PICK u : Picks(RemoveAt(rest, at), u, (DOMAIN given \ {at}) \ {at + 1})
    <3>1. DOMAIN given \ {at} \subseteq Nat
      BY <1>4
    <3>2. Picks(rest, v, DOMAIN given \ {at}) /\ rest \in Seq(Argument) /\ at \in DOMAIN rest
      BY <2>2, <2>3, <2>4
    <3>3. \E u : Picks(RemoveAt(rest, at), u, (DOMAIN given \ {at}) \ {v[at]})
      BY <3>1, <3>2, PicksErased
    <3> QED
      BY <3>3, <2>5
  <2>7. RemoveAt(rest, at) \in Seq(Argument)
    BY <2>3, <2>4, Erased
  <2>8. rest[at] = given[at + 1]
    BY <2>2, <2>3, <2>4, <2>5 DEF Picks
  <2>9. Outputs = {at}
    <3>1. ASSUME NEW i \in DOMAIN given, i # at PROVE given[i] # "-o"
      <4>1. PICK k \in 1..Len(rest) : v[k] = i
        BY <2>2, <3>1 DEF Picks
      <4>2. rest[k] = given[i]
        BY <2>2, <4>1 DEF Picks
      <4>3. rest[k] # "-o"
        BY <1>2, <1>9, <4>1 DEF Contains
      <4> QED
        BY <4>2, <4>3
    <3> QED
      BY <3>1, <2>1, <1>4 DEF Outputs
  <2>10. Targets = {at + 1}
    BY <2>1, <2>5, <2>9, <1>4 DEF Targets
  <2>11. Others = (DOMAIN given \ {at}) \ {at + 1}
    BY <2>9, <2>10 DEF Others
  <2>12. arguments' = RemoveAt(rest, at) /\ outputFilePath' = given[at + 1]
    BY <1>2, <1>9, <2>8
  <2>13. OutputTaken'
    BY <2>1, <2>9, <2>10, <2>12, <1>2, <1>4, <1>6 DEF OutputTaken
  <2>14. Picks(arguments, u, Others)'
    BY <2>6, <2>11, <2>12, <1>2, <1>6 DEF Picks
  <2> QED
    BY <2>7, <2>12, <2>13, <2>14, <1>1, <1>2, <1>7 DEF ArgumentsInv
<1> QED
  BY <1>8, <1>9

LEMMA FlagIsTaken ==
  ASSUME ArgumentsInv, TakeOptimize
  PROVE  ArgumentsInv'
<1>1. /\ given \in Seq(Argument) /\ arguments \in Seq(Argument) /\ OutputTaken /\ ~optimize
      /\ \E w : Picks(arguments, w, Others)
  BY DEF ArgumentsInv, TakeOptimize
<1>2. PICK w : Picks(arguments, w, Others)
  BY <1>1
<1>3. /\ pc' = "input" /\ given' = given /\ outputFilePath' = outputFilePath
      /\ optimize' = Has("-O2") /\ arguments' = RemoveFirst(arguments, "-O2")
  BY DEF TakeOptimize
<1>4. PICK at : at = Place(arguments, "-O2")
  OBVIOUS
<1>5. \/ /\ at = 0 /\ RemoveFirst(arguments, "-O2") = arguments
         /\ \A i \in DOMAIN arguments : arguments[i] # "-O2"
      \/ /\ at \in DOMAIN arguments /\ arguments[at] = "-O2" /\ at # 0
         /\ RemoveFirst(arguments, "-O2") = RemoveAt(arguments, at)
  BY <1>1, <1>4, FirstIsFound
<1>6. Outputs' = Outputs /\ Targets' = Targets /\ Others' = Others
  BY <1>3 DEF Outputs, Targets, Others
<1>7. OutputTaken' /\ ArgumentsUsed'
  BY <1>1, <1>3, <1>6 DEF OutputTaken, ArgumentsUsed
<1>8. arguments' \in Seq(Argument) /\ \E F, u : FlagTaken(F)' /\ Picks(arguments, u, Others \ F)'
  <2>1. CASE at = 0
    <3>1. ~Has("-O2")
      BY <1>1, <1>5, <2>1 DEF Has
    <3>2. ~optimize' /\ arguments' = arguments
      BY <1>3, <1>5, <2>1, <3>1
    <3>3. FlagTaken({})'
      BY <3>2 DEF FlagTaken
    <3>4. Picks(arguments, w, Others)'
      BY <1>2, <1>3, <1>6, <3>2 DEF Picks
    <3>5. Picks(arguments, w, Others \ {})'
      <4>1. Others \ {} = Others
        OBVIOUS
      <4>2. (Others \ {})' = Others'
        OBVIOUS
      <4> QED
        BY <3>4, <4>2 DEF Picks
    <3> QED
      BY <1>1, <3>2, <3>3, <3>5
  <2>2. CASE at # 0
    <3>1. /\ at \in DOMAIN arguments /\ arguments[at] = "-O2"
          /\ arguments' = RemoveAt(arguments, at)
      BY <1>3, <1>5, <2>2
    <3>2. Has("-O2")
      BY <3>1 DEF Has
    <3>3. PICK f : f = w[at]
      OBVIOUS
    <3>4. f \in Others /\ given[f] = "-O2"
      <4>1. at \in 1..Len(arguments)
        BY <1>1, <3>1
      <4> QED
        BY <1>2, <3>1, <3>3, <4>1 DEF Picks
    <3>5. FlagTaken({f})'
      BY <1>3, <1>6, <3>2, <3>4 DEF FlagTaken
    <3>6. PICK u : u = Without(w, at, Len(arguments))
      OBVIOUS
    <3>7. Picks(RemoveAt(arguments, at), Without(w, at, Len(arguments)), Others \ {w[at]})
      <4>1. Others \subseteq Nat
        BY <1>1 DEF Others
      <4> QED
        BY <1>1, <1>2, <3>1, <4>1, PicksErased
    <3>8. Picks(RemoveAt(arguments, at), u, Others \ {f})
      BY <3>3, <3>6, <3>7
    <3>9. Picks(arguments, u, Others \ {f})'
      BY <1>3, <1>6, <3>1, <3>8 DEF Picks
    <3>10. arguments' \in Seq(Argument)
      BY <1>1, <3>1, Erased
    <3> QED
      BY <3>5, <3>9, <3>10
  <2> QED
    BY <2>1, <2>2
<1>9. pc' # "output" /\ pc' # "optimize"
  BY <1>3
<1>10. given' \in Seq(Argument)
  BY <1>1, <1>3
<1> QED
  BY <1>7, <1>8, <1>9, <1>10 DEF ArgumentsInv

LEMMA InputIsTaken ==
  ASSUME ArgumentsInv, TakeInput, ~Exit(Failure)
  PROVE  ArgumentsInv'
<1>1. /\ given \in Seq(Argument) /\ arguments \in Seq(Argument) /\ OutputTaken
      /\ \E F, w : FlagTaken(F) /\ Picks(arguments, w, Others \ F)
  BY DEF ArgumentsInv, TakeInput
<1>2. PICK F, w : FlagTaken(F) /\ Picks(arguments, w, Others \ F)
  BY <1>1
<1>3. /\ Len(arguments) = 1 /\ inputFilePath' = arguments[1]
      /\ outputFilePath' = IF outputFilePath = NoPath THEN WithWat[arguments[1]] ELSE outputFilePath
      /\ pc' = "read" /\ given' = given /\ arguments' = arguments /\ optimize' = optimize
  BY DEF TakeInput
<1>4. PICK source : source = w[1]
  OBVIOUS
<1>5. source \in Others \ F /\ arguments[1] = given[source] /\ \A p \in Others \ F : p = source
  <2>1. 1..Len(arguments) = {1}
    BY <1>3
  <2> QED
    BY <1>2, <1>4, <2>1 DEF Picks
<1>6. F \subseteq Others /\ \A f \in F : given[f] = "-O2"
  BY <1>2 DEF FlagTaken
<1>7. Others \ {source} = F
  BY <1>5, <1>6
<1>8. Cardinality(F) <= 1
  <2>1. F = {} \/ \E f : F = {f}
    BY <1>2 DEF FlagTaken
  <2>2. CASE F = {}
    BY <2>2, FS_EmptySet
  <2>3. CASE \E f : F = {f}
    BY <2>3, FS_Singleton
  <2> QED
    BY <2>1, <2>2, <2>3
<1>9. optimize <=> F # {}
  BY <1>2, Zenon DEF FlagTaken
<1>10. \A i \in Targets : outputFilePath' \in {given[i], WithWat[given[source]]}
  BY <1>1, <1>3, <1>5 DEF OutputTaken
<1>11. Targets = {} => outputFilePath' = WithWat[given[source]]
  BY <1>1, <1>3, <1>5 DEF OutputTaken
<1>12. F \subseteq {i \in DOMAIN given : given[i] = "-O2"} \ Targets
  BY <1>6 DEF Others
<1>13. ArgumentsUsed'
  <2> DEFINE outputs == {i \in DOMAIN given : given[i] = "-o"}
             paths == {i \in DOMAIN given : i - 1 \in outputs}
             flags == {i \in DOMAIN given : given[i] = "-O2"} \ paths
             rest == DOMAIN given \ (outputs \cup paths)
  <2>1. outputs = Outputs /\ paths = Targets /\ rest = Others
    BY DEF Outputs, Targets, Others
  <2>2. /\ source \in DOMAIN given /\ inputFilePath' = given[source] /\ source \in rest
        /\ rest \ {source} \subseteq flags /\ Cardinality(rest \ {source}) <= 1
    BY <1>3, <1>5, <1>7, <1>8, <1>12, <2>1
  <2>3. optimize' <=> rest \ {source} # {}
    BY <1>3, <1>7, <1>9, <2>1
  <2>4. /\ \A i \in paths : outputFilePath' \in {given[i], WithWat[given[source]]}
        /\ paths = {} => outputFilePath' = WithWat[given[source]]
    BY <1>10, <1>11, <2>1
  <2>5. given' = given
    BY <1>3
  <2> QED
    BY <2>2, <2>3, <2>4, <2>5 DEF ArgumentsUsed
<1>14. pc' # "output" /\ pc' # "optimize" /\ pc' # "input"
  BY <1>3
<1> QED
  BY <1>1, <1>3, <1>13, <1>14 DEF ArgumentsInv

LEMMA OptionsKept ==
  ASSUME ArgumentsInv, UNCHANGED options,
         pc' = pc \/ pc' = "ended" \/ /\ pc \in {"read", "compile", "open", "validate", "wat"}
                                      /\ pc' \in {"compile", "open", "validate", "wat"}
  PROVE  ArgumentsInv'
<1>1. /\ given' = given /\ arguments' = arguments /\ outputFilePath' = outputFilePath
      /\ inputFilePath' = inputFilePath /\ optimize' = optimize
  BY DEF options
<1>2. ArgumentsUsed'
  BY <1>1, ZenonT(60) DEF ArgumentsInv, ArgumentsUsed
<1>3. CASE pc' = pc
  <2>1. Outputs' = Outputs /\ Targets' = Targets /\ Others' = Others
    BY <1>1 DEF Outputs, Targets, Others
  <2>2. OutputTaken' <=> OutputTaken
    BY <1>1, <2>1 DEF OutputTaken
  <2>3. \A F : FlagTaken(F)' <=> FlagTaken(F)
    BY <1>1, <2>1, Zenon DEF FlagTaken
  <2>4. \A F, w : Picks(arguments, w, Others \ F)' <=> Picks(arguments, w, Others \ F)
    BY <1>1, <2>1, Zenon DEF Picks
  <2>5. \A w : Picks(arguments, w, Others)' <=> Picks(arguments, w, Others)
    BY <1>1, <2>1, Zenon DEF Picks
  <2> QED
    BY <1>1, <1>2, <1>3, <2>2, <2>3, <2>4, <2>5, Zenon DEF ArgumentsInv
<1>4. CASE pc' # pc
  <2>1. pc' # "output" /\ pc' # "optimize" /\ pc' # "input"
    BY <1>4
  <2> QED
    BY <2>1, <1>1, <1>2 DEF ArgumentsInv
<1> QED
  BY <1>3, <1>4

LEMMA NextKeepsArguments ==
  ASSUME ArgumentsInv, [Next]_vars
  PROVE  ArgumentsInv'
<1>1. ASSUME NEW code, Exit(code) PROVE ArgumentsInv'
  BY <1>1, OptionsKept DEF Exit
<1>2. CASE TakeOutput
  BY <1>1, <1>2, OutputIsTaken
<1>3. CASE TakeOptimize
  BY <1>3, FlagIsTaken
<1>4. CASE TakeInput
  BY <1>1, <1>4, InputIsTaken
<1>5. CASE Read
  <2>1. CASE Exit(Abort)
    BY <1>1, <2>1
  <2>2. CASE ~Exit(Abort)
    BY <1>5, <2>2, OptionsKept DEF Read
  <2> QED
    BY <2>1, <2>2
<1>6. CASE Compile
  <2>1. CASE Exit(Failure) \/ Exit(Abort)
    BY <1>1, <2>1
  <2>2. CASE ~(Exit(Failure) \/ Exit(Abort))
    BY <1>6, <2>2, OptionsKept DEF Compile
  <2> QED
    BY <2>1, <2>2
<1>7. CASE Open
  BY <1>7, OptionsKept DEF Open
<1>8. CASE ValidateAndOptimize
  BY <1>8, OptionsKept DEF ValidateAndOptimize
<1>9. CASE Wat
  BY <1>9, OptionsKept DEF Wat
<1>10. CASE UNCHANGED vars
  BY <1>10, OptionsKept DEF vars
<1> QED
  BY <1>2, <1>3, <1>4, <1>5, <1>6, <1>7, <1>8, <1>9, <1>10 DEF Next

(* Whatever the order of the arguments: the source that is read is the one *)
(* that is no option and does not follow `-o`, and none is left over or    *)
(* used twice (the erasures in main, src/src/cli/main.cpp).                *)
THEOREM ArgumentsAreUsed == Spec => []ArgumentsUsed
<1>1. ArgumentsInv => ArgumentsUsed
  BY DEF ArgumentsInv
<1> QED
  BY <1>1, InitArguments, NextKeepsArguments, PTL DEF Spec

=============================================================================
