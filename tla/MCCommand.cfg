CONSTANTS
  Tools = {"codex", "claude"}
  Paths = {"default", "file"}
  Lines <- AnyLines
  FilesFor <- FilesMet
SPECIFICATION Spec
CHECK_DEADLOCK FALSE
INVARIANTS
  CollectsAsTold FlagsAnywhere WholeOrDefault
