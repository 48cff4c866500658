SPECIFICATION Spec
CONSTANTS
  Names <- AllPaths
  WithWat <- WithExtension
  Readable = {"a.wa", "a.wat", "-O2"}
  Writable <- AllButDir
  MaxArguments = 4
  Lengths <- AroundTheBuffer
  Chunk = 4
  Limit = 16
INVARIANTS ArgumentsUsed WholeText FailureKeepsFiles
PROPERTIES Termination
CHECK_DEADLOCK FALSE
