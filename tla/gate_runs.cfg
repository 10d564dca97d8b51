CONSTANTS
  Streams <- MCStreams
  Commitments <- MCCommitments
  NoCommitment = NoCommitment
  Prefix <- MCPrefix
  CommitLength = 6
  UnaryMax = 47
  NoAtom = NoAtom
  MaxTail = 4
SPECIFICATION Spec
CHECK_DEADLOCK FALSE
INVARIANTS TypeOK PhaseInv GatesAgree EmitsAsDeclared
