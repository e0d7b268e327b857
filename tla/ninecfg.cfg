SPECIFICATION Spec
CONSTANTS
  Procs = {"user"}
  Archs = {"win32", "win64"}
  Failures = {"registry", "rename", "remove", "symlink", "load", "process"}
INVARIANTS
  TypeOK
  OriginalKept
  Settled
PROPERTIES
  CallWorks
  ClickToggles
