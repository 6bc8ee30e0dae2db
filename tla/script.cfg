SPECIFICATION Spec
CONSTANTS
  VMPrograms <- Bytecode
  Generators <- Bodies
  MaxRequests = 3
  MaxResumes = 2
  Classes <- Shapes
  MaxInitializers = 1
  Sources <- Texts
  Moves <- Targets
  MaxElements = 3
  MaxTaken = 2
  Block = 64
  Word = 4
  Radix = 100
  Chunks <- Pieces
  MaxBytes = 140
  ListLimit = 1
  RecentLimit = 1
  Dropped = 1
  MoveGap = 1
  UnitTime = 1
  UnitAmount = 1
  Spots = {0, 1}
  MaxTime = 2
  MaxEvents = 3
  MaxLoads = 2
CHECK_DEADLOCK FALSE
INVARIANTS TypeOK QueueInOrder DecoratorContract IteratorClosed DigestIsPadded QuotaKept
PROPERTIES HandlersAreLexical GeneratorIsLexical EveryRequestAnswered
