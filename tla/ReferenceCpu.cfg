CONSTANTS
  Machines <- MCMachines
  Disturbed <- MCDisturbed
  Programs <- MCPrograms
  Scratch <- MCScratch
  INTA = 32
  NoInta = NoInta
  MaxIrqs = 2
SPECIFICATION FairSpec
INVARIANTS
  InterruptsAreTransparent StringsAreBlocks QueueHoldsTheCode TestsAreIndependent
PROPERTIES
  ArithmeticIsExact PairsFit LengthsAgree
  ReportsTellOfOneMoment RequestsAreServed
CHECK_DEADLOCK FALSE
