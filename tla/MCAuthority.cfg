SPECIFICATION Spec
CONSTANTS
  Member = {m1, m2}
  Kid = {k1, k2}
  NoKid = NoKid
  NoSeat = NoSeat
  DormantFor = 1
  MaxTime = 2
  Patches <- SomePatches
SYMMETRY Symmetry
CONSTRAINT FewPetitions
VIEW View
INVARIANTS
  RosterIsSound
  SilenceIsJudgedRight
PROPERTIES
  GavelPassesByRule
  SeatsStayHeld
  SuccessionEarned
CHECK_DEADLOCK FALSE
