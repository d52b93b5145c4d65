SPECIFICATION Spec
CONSTANTS
  PRs = {1, 2, 3, 4, 5}
  Paths = {11, 12, 13, 14}
  Issues = {21}
  Mechanical = {13}
  FlagTierA = 3
  FlagMax = 4
  IssueTierA = 3
  IssueMax = 4
  NameMax = 3
  MigrationMax = 3
  AdoptersMax = 2
  SpanMax = 3
  MinSimilarity = 62
  MaxCandidates = 1
  MinPair = 500
  SplitThreshold = 2
  HardMax = 3
  MaxSweeps = 20
  MaxPasses = 12
  LongSpan = 3
  LargeArc = 3
  WindowEnd = 6
  ProximityDays = 2
  SurvivalDays = 3
  author <- MCauthor
  NoAuthor = NoAuthor
  component <- MCcomponent
  FanInCut = 2
  SourceWeight <- MCSourceWeight
  MaxPaths = 2
  MaxAdoptions = 3
  MaxFrontier = 1
  MaxRecorded = 2
  directory <- MCdirectory
  NoComponent = 0
  Products = {11, 12, 14}
  GraphNodes = {11, 12, 13, 14}
  Unparsed = {13}
  SharedSurface = {11}
  HubFanIn = 2
  ReachDepth = 3
  PlatformProducts = 3
  FlagPRs = 5
  IssuePRs = 4
  Accounts <- MCAccounts
  Signatures <- MCSignatures
  LoginIn <- MCLoginIn
  Addresses <- MCAddresses
  Nobody = Nobody
  BotRules <- MCBotRules
  BotProbability = 90
  AssistantMails = {"model@lab"}
  AssistantLogins = {"claude"}
  MaxDepth = 3
  Recent = 4
  MinPersistence = 2
  MechanicalShare = 80
  ReviewBelow = 55
  HealthyDays = 1
  MaxSignals = 2
  Penalty <- MCPenalty
  Unknown = Unknown
  Band3Classes = 2
  Band4Classes = 3
  BroadSpan = 3
  ReusedFiles = 2
  ReusedComponents = 2
  Adopted <- MCAdopted
  Foundational <- MCFoundational
  Helped <- MCHelped
  HelpedWidely <- MCHelpedWidely
  CoreShare = 60
  IntegratorPRs = 2
  IntegratorComponents = 2
  Relevance <- MCRelevance
  ShareFactor <- MCShareFactor
  MaxTotal = 20000
  MinFactor = 1000
  Discount <- MCDiscount
  HalfWidth <- MCHalfWidth
  Coefficients <- MCCoefficients
  Headroom = 10000
  ScaleMax = 40000
  SevereBand = 3
  MinEpisodes = 1
  MinKnown = 2
  MaxUnknown = 4
  MinDiscount = 45
  Repositories <- MCRepositories
  ReviewSets <- MCReviewSets
  Casts <- MCCasts
  Facts <- MCFacts
  Decays = {50, 100}
  OtherEntries <- MCOtherEntries
  OtherKnown <- MCOtherKnown
  Engineers = {a, b, c}
  Criteria = {"product", "reliability"}
  weight <- MCWeight
  indifference <- MCq
  preference <- MCp
  veto <- MCv
  Values = {0, 1, 3}
  Scale = 1000
  Alpha = 300
  Beta = 150
  MaxIterations = 2
  Width = 150
SYMMETRY Symmetry
CHECK_DEADLOCK FALSE
INVARIANTS
  EpisodesPartition
  EveryMemberIsHeld
  AdoptionIsAChain
  RevertsAgree
  HighBandsAreEarned
  MoreEvidenceNeverHurts
  DominanceIsKept
  BetterIsNotBehind
  CrossChecksKeepDominance
PROPERTIES
  MovesNeverLoseModularity
  CreditIsShared
