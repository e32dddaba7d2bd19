CONSTANTS
  None = None
  c1 = c1  c2 = c2  t1 = t1  t2 = t2  t3 = t3  v = v  w = w
  Ids <- MCIds
  Callers <- MCCallers
  GrantOf <- MCGrantOf
  Requests <- MCRequests
  MaxVersion = 1
  MaxIssues = 2
  GrantTime = 1
  Plugins = {"p", "q"}
  Scopes = {"s", "t"}
  Allowed <- MCAllowed
  Tokens <- MCTokens
  Ttl = 1
  MaxIssued = 2
  Every = 2
  MaxTime = 2
  Workers <- MCWorkers
  Contents = {"x", "y", "partial"}
  SizeOf <- MCSizeOf
  Attachments <- MCAttachments
  Unsafe <- MCUnsafe
  MimeOf <- MCMimeOf
  MaxCalls = 2
  Senders <- MCWorkers
  MaxTokens = 3
  MaxSends = 3
  Nodes <- MCNodes
  LinkSets <- MCLinkSets
  Asked <- MCAsked
  Workspace <- MCWorkspace
  DenyRoots <- MCDenyRoots
  Hidden = {"git"}
  Cas <- MCCas
  Temp <- MCTemp
  Input <- MCInput
  MaxLinks = 3
  Habits = {"deaf", "mute", "parent"}
SPECIFICATION Spec
INVARIANTS GrantBound RevokedStaysRevoked CleanIsWhole DeliveredOnce StaysInside SandboxSettles
CHECK_DEADLOCK FALSE
