\* Expected violation: a file saved while the copy is made, or while the changes are applied, is lost.
CONSTANTS
  Scenes = {"sandbox"}
  NoToken = NoToken
  Unset = Unset
SPECIFICATION Spec
PROPERTY UserEditKept
CHECK_DEADLOCK FALSE
