\* Every component once; the bounds are in the module.
CONSTANTS
  Scenes = {"factor", "passkey", "oidc", "sessions", "desktop", "boxes", "jobs", "nonces", "terminals", "teams", "context", "projection", "merge", "workspace", "appschedule", "daemonruns", "tools", "skills", "crew", "runtime", "audit", "library", "database", "processes", "shells", "memory", "secrets", "files", "sandbox", "neighbour", "child"}
  NoToken = NoToken
  Unset = Unset
SPECIFICATION Spec
INVARIANTS SignInsSound   ChangesKept   
 
CHECK_DEADLOCK FALSE
