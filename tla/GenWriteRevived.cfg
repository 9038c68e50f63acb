SPECIFICATION Spec
CONSTANTS
  p1 = p1
  p2 = p2
  c1 = c1
  c2 = c2
  hand = hand
  NoFile = NoFile
  NoDir = NoDir
  NoLock = NoLock
  Torn = Torn
  Path <- MCPath
  Content <- MCContent
  Hand <- MCHand
  Generations <- MCGenerations
  MaxCrash = 0
  MaxFault = 1
  MaxEdit = 1
INVARIANT
  CleanRegenerationProceeds
