SPECIFICATION Spec
CONSTANTS
  e1 = e1
  e2 = e2
  e3 = e3
  b1 = b1
  Events = {e1, e2, e3}
  Blocks = {b1}
  BlockRefs <- CreateCopyRename
  Nothing = Nothing
PROPERTIES
  NoticedEventIsProjected
CHECK_DEADLOCK FALSE
