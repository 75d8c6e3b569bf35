SPECIFICATION Spec
CONSTANTS
  c1 = c1
  c2 = c2
  c3 = c3
  Clients = {c1, c2}
  Hosts <- OrderlyHosts
  MaxEvents = 3
  NoRef = NoRef
  OwnContent = OwnContent
  NoTime = NoTime
  NoTail = NoTail
INVARIANTS
  TypeOK
  ReadYourWrites
  WritesReplayInOrder
  StaleMarkHonoured
  InboundSeen
  QuietViewIsReplay
SYMMETRY ClientSymmetry
