\* Two files of five possible contents, three changes from outside (the start of the
\* program is one), three scans of one run of it.
CONSTANTS
  Empty = Empty
  BuiltIn <- MCBuiltIn
  Files = {1, 2}
  Contents = {"a1", "a2", "any", "bad", "broken"}
  Code <- MCCode
  Identities <- MCIdentities
  MaxChanges = 3
  MaxScans = 3
SPECIFICATION Spec
INVARIANTS
  LoadedIsOffered
  ChoiceIsDefinite
PROPERTIES
  ImportsAreApproved
CHECK_DEADLOCK FALSE
