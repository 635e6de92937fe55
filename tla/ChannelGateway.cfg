SPECIFICATION Spec
CONSTANTS
  ch1 = ch1
  ch2 = ch2
  alice = alice
  Channels <- MCChannels
  Users <- MCUsers
  Adapters <- MCAdapters
  Conns = {w1}
  Hooks = {h1}
  ChannelYamls <- MCYamls
  NotLoaded = NotLoaded
  Closed = Closed
  NoReply = NoReply
  Window = 1
  MaxTime = 2
  MaxMessages = 3
  MaxUnaudited = 1
  MaxChanges = 1
INVARIANTS
  
  AuditExplains
PROPERTIES
  LimiterSpec
  JudgedOnFreshOwners
