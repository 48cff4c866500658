---------------------------- MODULE MCCommandLine ----------------------------
(***************************************************************************)
(* Paths for CommandLine: a source, a text that has the name of its module *)
(* already, a path that cannot be opened, and the empty one.               *)
(***************************************************************************)
EXTENDS CommandLine

Paths == {"", "a.wa", "a.wat", "dir/b.wat", "-O2"}
ReplaceExtension ==
  [n \in Paths |-> CASE n = "" -> ".wat" [] n = "a.wa" -> "a.wat" [] n = "-O2" -> "-O2.wat" [] OTHER -> n]
AllPaths == Paths \cup {".wat", "-O2.wat"}
WithExtension == [n \in AllPaths |-> IF n \in Paths THEN ReplaceExtension[n] ELSE n]
AllButDir == AllPaths \ {"", "dir/b.wat"}
AroundTheBuffer == {3, 4, 5, 8, 9, 15, 16, 17}
=============================================================================
