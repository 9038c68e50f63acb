SPECIFICATION FairSpec
CONSTANTS
  e1 = e1
  e2 = e2
  e3 = e3
  r1 = r1
  r2 = r2
  r3 = r3
  UUID = uuid
  Enum = enum
  NoPK = NoPK
  Unnamed = Unnamed
  Unknown = Unknown
  NoName = NoName
  Entity <- MCEntity
  Rel <- MCRel
  Owner <- MCOwner
  Scalar <- MCScalar
CHECK_DEADLOCK FALSE
INVARIANTS
  TypeOK
  NoPlaceholderCopied
  OnlyStuckReported
  GroundedResolved
PROPERTY
  Terminates
