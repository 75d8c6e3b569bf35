SPECIFICATION Spec
CONSTANTS
  c1 = c1
  c2 = c2
  c3 = c3
  Clients = {c1, c2}
  Hosts <- TwoReadersHosts
  MaxEvents = 2
  NoRef = NoRef
  OwnContent = OwnContent
  NoTime = NoTime
  NoTail = NoTail
INVARIANTS
  StaleMarkHonoured
SYMMETRY ClientSymmetry
