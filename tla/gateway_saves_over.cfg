\* The constants of services.cfg.
SPECIFICATION ServicesSpec
CONSTANTS
  m1 = m1
  m3 = m3
  ch1 = ch1
  ch2 = ch2
  ch3 = ch3
  chat1 = chat1
  chat2 = chat2
  shell = shell
  all_tools = all_tools
  UserMessage = {m1, m3}
  Command = {ch1, ch2, ch3}
  Scope = {chat1, chat2}
  ScopeOf <- ChatOf
  Approver = {chat1}
  Tool = {shell}
  AllTools = all_tools
  MaxRequests = 2
  None = None
  call1 = call1
  call2 = call2
  Call = {call1, call2}
  NoProcess = NoProcess
  MaxSpawns = 3
  MaxProcesses = 1
  MaxOutput = 2
  Slip = 1
  MaxBytes = 3
  Talkative = {1}
  pair1 = pair1
  dash1 = dash1
  Pairer = {pair1}
  Dashboard = {dash1}
  MaxStarts = 3
  MaxSaves = 3
  phone = phone
  laptop = laptop
  try1 = try1
  try2 = try2
  Applicant = {phone, laptop}
  Attempt = {try1, try2}
  MaxPairAttempts = 2
  LockoutSecs = 1
  RetentionSecs = 2
  MaxTrackedClients = 2
  MaxInstant = 2
  hook1 = hook1
  hook2 = hook2
  hook3 = hook3
  key1 = key1
  key2 = key2
  Webhook = {hook1, hook2, hook3}
  Client = {phone, laptop}
  ClientOf <- Callers
  Key = {key1, key2}
  KeyOf <- Keys
  Limit = 1
  Window = 2
  MaxClients = 1
  Ttl = 2
  MaxKeys = 1
  MaxClock = 2
  Never = Never
  turn1 = turn1
  turn2 = turn2
  login1 = login1
  service = service
  cli = cli
  work = work
  spare = spare
  TurnCall = {turn1, turn2}
  AuthCommand = {login1}
  Home = {service, cli}
  HomeOf <- Homes
  Profile = {work, spare}
  FirstProfile = work
  MaxTokens = 3
  MaxBreaks = 1
  Nobody = Nobody
CHECK_DEADLOCK FALSE
INVARIANT ApprovalsLast
