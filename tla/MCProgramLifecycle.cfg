SPECIFICATION Spec
INVARIANTS
  TypeOK
  LoopOnlyWhenReady
  NoFaultAtEnd
  NothingHeldAfterRun
  ShutdownPublished
PROPERTY
  InterruptEndsProgram
