SPECIFICATION Spec
CONSTANTS
  c1 = c1
  c2 = c2
  c3 = c3
  Clients = {c1}
  Hosts <- InboundHosts
  MaxEvents = 2
  NoRef = NoRef
  OwnContent = OwnContent
  NoTime = NoTime
  NoTail = NoTail
INVARIANTS
  InboundSeen
SYMMETRY ClientSymmetry
