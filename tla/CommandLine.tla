----------------------------- MODULE CommandLine -----------------------------
(***************************************************************************)
(* The command line (src/cli/main.cpp) and the text it writes              *)
(* (Compiler::wat in src/compiler.cpp): which file is read, which one is   *)
(* written, with how much of the module, and what the caller is told.      *)
(* Parsing, compiling, optimizing and the length of a text are inputs.     *)
(***************************************************************************)
EXTENDS Integers, SequencesExt

CONSTANTS
  Names,         (* paths; "-O2" is one, since `-o` takes what follows it  *)
  WithWat,       (* path.replace_extension("wat")                          *)
  Readable,      (* the files there are                                    *)
  Writable,      (* the paths at which a file can be opened for output     *)
  MaxArguments,  (* bounds the arguments                                   *)
  Lengths,       (* of the texts of modules                                *)
  Chunk,         (* the buffer's first size: 1024 * 1024                   *)
  Limit          (* 2^32: the length is kept in a uint32_t                 *)
ASSUME PathsAssumption ==
  /\ "-O2" \in Names /\ "-o" \notin Names
  /\ WithWat \in [Names -> Names]
  /\ Readable \subseteq Names /\ Writable \subseteq Names
ASSUME SizesAssumption ==
  /\ MaxArguments \in Nat /\ Lengths \subseteq Nat
  /\ Chunk \in Nat \ {0} /\ Limit \in Nat \ {0}

VARIABLES
  given,           (* the arguments                                        *)
  arguments,       (* those that are left                                  *)
  outputFilePath,  (* NoPath while there is none                           *)
  inputFilePath,
  optimize,
  compiled,        (* the module                                           *)
  watBuf,          (* the size of the buffer                               *)
  files,           (* how much of the text a file has, or Kept             *)
  pc,
  status           (* the exit status                                      *)
options == <<given, arguments, outputFilePath, inputFilePath, optimize>>
vars == <<options, compiled, watBuf, files, pc, status>>

NoPath == ""
Kept == -1       (* a file that was not opened                             *)
Failure == -1    (* std::exit(-1)                                          *)
Abort == -2      (* an exception that nobody catches                       *)
Running == 1
NoModule == [valid |-> TRUE, length |-> 0]

Exit(code) ==
  /\ pc' = "ended" /\ status' = code
  /\ UNCHANGED <<options, compiled, watBuf, files>>

-----------------------------------------------------------------------------
Has(option) == \E i \in DOMAIN arguments : arguments[i] = option

(* `-o` and what follows it.                                               *)
TakeOutput ==
  /\ pc = "output"
  /\ LET at == SelectInSeq(arguments, LAMBDA a : a = "-o")
         rest == RemoveFirst(arguments, "-o")
     IN  \/ Cardinality({i \in DOMAIN arguments : arguments[i] = "-o"}) > 1 /\ Exit(Failure)
         \/ at # 0 /\ at > Len(rest) /\ Exit(Failure)
         \/ /\ at # 0 /\ at <= Len(rest) /\ ~Contains(rest, "-o")
            /\ outputFilePath' = rest[at]
            /\ arguments' = RemoveAt(rest, at)
            /\ pc' = "optimize"
            /\ UNCHANGED <<given, inputFilePath, optimize, compiled, watBuf, files, status>>
         \/ /\ at = 0
            /\ pc' = "optimize"
            /\ UNCHANGED <<options, compiled, watBuf, files, status>>

TakeEveryOptimize ==                                                \* mutant
  /\ pc = "optimize"
  /\ optimize' = Has("-O2")
  /\ arguments' = Remove(arguments, "-O2")
  /\ pc' = "input"
  /\ UNCHANGED <<given, outputFilePath, inputFilePath, compiled, watBuf, files, status>>
TakeOptimize ==
  /\ pc = "optimize"
  /\ optimize' = Has("-O2")
  /\ arguments' = RemoveFirst(arguments, "-O2")
  /\ pc' = "input"
  /\ UNCHANGED <<given, outputFilePath, inputFilePath, compiled, watBuf, files, status>>

(* What is left is the source.                                             *)
TakeInput ==
  /\ pc = "input"
  /\ \/ Len(arguments) # 1 /\ Exit(Failure)
     \/ /\ Len(arguments) = 1
        /\ inputFilePath' = arguments[1]
        /\ outputFilePath' = IF outputFilePath = NoPath THEN WithWat[arguments[1]] ELSE outputFilePath
        /\ pc' = "read"
        /\ UNCHANGED <<given, arguments, optimize, compiled, watBuf, files, status>>

(* readFile, and the parser: both before the try block.                    *)
Read ==
  /\ pc = "read"
  /\ \/ Exit(Abort)
     \/ /\ inputFilePath \in Readable
        /\ pc' = "compile"
        /\ UNCHANGED <<options, compiled, watBuf, files, status>>

(* The file that is opened is empty.                                       *)
Opened == [files EXCEPT ![outputFilePath] = IF @ = Kept THEN 0 ELSE @]
OpenBeforeCompiling ==                                              \* mutant
  /\ pc = "compile"
  /\ files' = IF outputFilePath \in Writable THEN Opened ELSE files
  /\ \/ pc' = "ended" /\ status' = Failure /\ UNCHANGED compiled
     \/ /\ \E valid \in BOOLEAN, length \in Lengths : compiled' = [valid |-> valid, length |-> length]
        /\ pc' = "open"
        /\ UNCHANGED status
  /\ UNCHANGED <<options, watBuf>>

(* An exception of the compiler is reported; an assertion that fails and   *)
(* an error of Binaryen end the process.                                   *)
Compile ==
  /\ pc = "compile"
  /\ \/ Exit(Failure) \/ Exit(Abort)
     \/ /\ \E valid \in BOOLEAN, length \in Lengths : compiled' = [valid |-> valid, length |-> length]
        /\ pc' = "open"
        /\ UNCHANGED <<options, watBuf, files, status>>

(* A path that cannot be opened is reported, and the program goes on.      *)
Open ==
  /\ pc = "open"
  /\ files' = IF outputFilePath \in Writable THEN Opened ELSE files
  /\ pc' = IF optimize THEN "validate" ELSE "wat"
  /\ UNCHANGED <<options, compiled, watBuf, status>>

(* Whether the module is valid is told on stderr; nobody asks the result.  *)
ValidateAndOptimize ==
  /\ pc = "validate"
  /\ \E length \in Lengths : compiled' = [compiled EXCEPT !.length = length]
  /\ pc' = "wat"
  /\ UNCHANGED <<options, watBuf, files, status>>

(* BinaryenModuleWriteText fills the buffer and returns how much it wrote.*)
Written(buffer) == IF buffer < compiled.length THEN buffer ELSE compiled.length

(* One buffer only, and a buffer that does not grow.                       *)
WatOnce ==                                                          \* mutant
  /\ pc = "wat"
  /\ files' = IF outputFilePath \in Writable
                THEN [files EXCEPT ![outputFilePath] = Written(watBuf)] ELSE files
  /\ pc' = "ended" /\ status' = 0
  /\ UNCHANGED <<options, compiled, watBuf>>
WatSameSize ==                                                      \* mutant
  /\ pc = "wat"
  /\ LET size == Written(watBuf)
     IN  \/ size = watBuf /\ UNCHANGED <<files, pc, status>>
         \/ size # watBuf /\ pc' = "ended" /\ status' = 0 /\ UNCHANGED files
  /\ UNCHANGED <<options, compiled, watBuf>>

(* One round of the loop in wat().                                         *)
Wat ==
  /\ pc = "wat"
  /\ LET size == Written(watBuf) % Limit
     IN  \/ /\ size = watBuf
            /\ watBuf' = watBuf * 2
            /\ UNCHANGED <<files, pc, status>>
         \/ /\ size # watBuf
            /\ watBuf' = size
            /\ files' = IF outputFilePath \in Writable THEN [files EXCEPT ![outputFilePath] = size]
                        ELSE files
            /\ pc' = "ended" /\ status' = 0
  /\ UNCHANGED <<options, compiled>>

Init ==
  /\ given \in UNION {[1..n -> Names \cup {"-o"}] : n \in 0..MaxArguments}
  /\ arguments = given
  /\ outputFilePath = NoPath /\ inputFilePath = NoPath
  /\ optimize = FALSE
  /\ compiled = NoModule
  /\ watBuf = Chunk
  /\ files = [n \in Names |-> Kept]
  /\ pc = "output"
  /\ status = Running
Next ==
  \/ TakeOutput \/ TakeOptimize \/ TakeInput \/ Read \/ Compile \/ Open \/ ValidateAndOptimize \/ Wat
Spec == Init /\ [][Next]_vars /\ WF_vars(Next)

-----------------------------------------------------------------------------

(* No argument is left over or used twice: the source is the one that is   *)
(* no option and does not follow `-o` (the erasures in main).              *)
ArgumentsUsed ==
  pc \in {"read", "compile", "open", "validate", "wat"} =>
    \E source \in DOMAIN given :
      LET outputs == {i \in DOMAIN given : given[i] = "-o"}
          paths == {i \in DOMAIN given : i - 1 \in outputs}
          flags == {i \in DOMAIN given : given[i] = "-O2"} \ paths
          rest == DOMAIN given \ (outputs \cup paths)
      IN  /\ inputFilePath = given[source] /\ source \in rest
          /\ \A i \in paths : outputFilePath \in {given[i], WithWat[given[source]]}
          /\ paths = {} => outputFilePath = WithWat[given[source]]
          /\ rest \ {source} \subseteq flags /\ Cardinality(rest \ {source}) <= 1
          /\ optimize <=> rest \ {source} # {}

(* A text of any length below that of a uint32_t is written whole, and not *)
(* taken for complete when it fills the buffer (the loop in wat()).        *)
WholeText ==
  status = 0 /\ outputFilePath \in Writable /\ compiled.length < Limit =>
    files[outputFilePath] = compiled.length

(* A run that fails leaves every file as it was, one that succeeds all but *)
(* its target: what an earlier run wrote is not lost to an error.          *)
FailureKeepsFiles ==
  \A n \in Names : files[n] # Kept => n = outputFilePath /\ status \notin {Failure, Abort}

(* The buffer grows until the text is in it.                               *)
Termination == <>(pc = "ended")
=============================================================================
