SPECIFICATION Spec
CONSTANTS
  ch1 = ch1
  alice = alice
  Channels <- MCChannels
  Users <- MCUsers
  Kinds <- MCKinds
  Yamls <- MCYamls
  NotLoaded = NotLoaded
  Window = 2
  MaxTime = 6
INVARIANTS
  WindowRespected
  RefusesExactlyWhenFull
