SPECIFICATION Spec
CONSTANTS
  Threads = {t1, t2}
  Main = main
  MaxCount = 15
  None = None
INVARIANTS
  TypeOK
  NoUseAfterDestroy
  InitialisedBeforeReturn
  NoLostWakeup
PROPERTY MainUnblocks
CHECK_DEADLOCK FALSE
