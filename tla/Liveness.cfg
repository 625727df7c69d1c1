\* Every component once; the bounds are in the module.
CONSTANTS
  Scenes = {"desktop", "push", "accounts", "shell", "daemon", "codex", "exec"}
SPECIFICATION Spec
 
PROPERTIES   EndsJustified
CHECK_DEADLOCK FALSE
