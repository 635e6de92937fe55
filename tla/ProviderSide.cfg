SPECIFICATION Spec
CONSTANTS
  MaxTime = 4
  embed1 = embed1
  embed2 = embed2
  task1 = task1
  task2 = task2
  EmbedOrder <- MCEmbedOrder
  EmbedRpm <- MCEmbedRpm
  EmbedCooldown <- MCEmbedCooldown
  EmbedSteps <- MCEmbedSteps
  EmbedMinute = 2
  EmbedTasks = {task1, task2}
  EmbedMaxCalls = 4
  NoEmbedder = NoEmbedder
  box1 = box1
  box2 = box2
  box3 = box3
  kind1 = kind1
  BoxProviders = {item1, item2}
  SharedKinds = {kind1}
  Boxes = {box1, box2, box3}
  NoBox = NoBox
  BrokerTasks = {task1, task2}
  CapabilityTtl = 1
  BrokerMaxCalls = 3
  item1 = item1
  item2 = item2
  name1 = name1
  name2 = name2
  Prompts = {item1, item2}
  CacheTasks = {task1, task2}
  CacheNames = {name1, name2}
  CacheTtl = 3
  CacheMargin = 1
  NoName = NoName
  CommitInterval = 1
  MaxWrites = 4
  VendorAsks <- MCVendorAsks
  Vendors <- MCVendors
  ToolNames = {item1, item2}
  NoToolName = NoToolName
  MaxDialogue = 5
  TierOrder <- MCTierOrder
  TierRpm <- MCTierRpm
  TierMinute = 1
  TierTasks = {task1, task2}
  TierMaxPosts = 4
  NoRouter = NoRouter
  Hosts = {item1, item2}
  MaxImages = 2
  MaxRedirects = 1
  MaxDnsChanges = 1
SYMMETRY Symmetric
INVARIANTS
  EmbedOverrunBounded
  BrokerSound
  CacheSound
  
  ResultsFindTheirCalls
  TierHonest
  FetchOnlyValidated
  FailureTold
PROPERTIES
  EmbedCallsWhenDue
  LossBounded
CHECK_DEADLOCK FALSE
