SPECIFICATION Spec
CONSTANTS
  MaxTime = 4
  user1 = user1
  user2 = user2
  user3 = user3
  task1 = task1
  task2 = task2
  item1 = item1
  item2 = item2
  NoTime = NoTime
  MaxMails = 4
  MailPage = 2
  MaxUpdates = 4
  MaxRuns = 2
  UpdatePage = 2
  WaUsers = {user1, user2, user3}
  WaTasks = {task1, task2}
  WaCacheMax = 2
  VoiceStreamIds = {task1, task2}
  Phones = {item1, item2}
  MaxChunks = 3
  MaxBufferChunks = 2
  Blobs = {item1, item2}
  ShelfMaxAge = 1
  Deliveries = {item1, item2}
  HookTasks = {task1, task2}
  LineBatch = 2
  MaxAttempts = 2
  GateUsers = {gateuser1}
  MaxGateChanges = 2
  Mails = {item1, item2}
  MaxAsked = 2
  MaxEnds = 2
  LineUsers = {user1}
  LineTtl = 1
  MaxLineEvents = 3
  TeamsTasks = {task1, task2}
  TeamsMargin = 2
  TeamsTimeout = 1
  Lifetimes = {2, 4}
  MaxTeamsPosts = 2
SYMMETRY Symmetric
INVARIANTS
  RouteIsLatest
  VoiceAttributed
  
  MentionRuleKept
  
  
PROPERTIES
  MailPromiseKept
  ImapPromiseKept
  TelegramPromiseKept
  WebhookPromiseKept
CHECK_DEADLOCK FALSE
