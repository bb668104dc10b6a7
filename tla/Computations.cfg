SPECIFICATION AllSpec
CONSTANTS
  Directories <- MCDirectories
  NamedVersions <- MCNamedVersions
  MaxNum = 4
  Names = {1, 2, 3}
  Versions <- MCVersions
  SpecVersions <- MCSpecVersions
  Modulus = 8
  None = None
  Engines <- MCEngines
  Models <- MCModels
  Other = "other"
  RowUnits = 2
  MaxBatchSize = 3
  MaxRows = 2
  Sizes = {1, 2, 4}
  MaxTasks = 2
  LdEngines <- MCLdEngines
  LdConfigs <- MCLdConfigs
  LdPlans <- MCLdPlans
  LdGarbage = {0, 9}
  LdMaxRows = 3
  AllowedSizes <- MCAllowedSizes
  MaxBatch = 4
  Shapes <- MCShapes
  TfClients = {c1, c2}
  TfThreads = {b1}
  TfModels <- MCTfModels
  TfCalls <- MCTfCalls
  DefaultKey = "serving_default"
  TfNoModel = TfNoModel
  TfMaxNow = 1
  TfMillis = 1
  TfForever = 9
  LiteModels <- MCLiteModels
  LiteRequests <- MCLiteRequests
  LiteMaxBatch = 3
  CsvDialects <- MCCsvDialects
  CsvRows <- MCCsvRows
  CsvMaxRows = 1
  Pieces <- MCPieces
  Alphas = {"a", "b", "h"}
  Digits = {"1"}
  MaxPieces = 3
  NumTexts <- MCNumTexts
  NumDelims = {",", "x"}
  NumModulus = 16
  CliArgs <- MCCliArgs
  CliMaxArgs = 3
  CfNames = {"a"}
  CfConfigs <- MCCfConfigs
  CfPolicies = {"latest2"}
  CfDevices <- MCCfDevices
  FtUsers = {u1, u2}
  FtSources <- MCFtSources
  FtVersions <- MCFtVersions
  NoRoot = NoRoot
  RaUris <- MCRaUris
  RaBodies <- MCRaBodies
  RaModels <- MCRaModels
  RaStatuses <- MCRaStatuses
  RaContents <- MCRaContents
  RaNumber <- MCRaNumber
  Lower <- MCLower
  TooLarge = TooLarge
  Unset = Unset
  CmJobs <- MCCmJobs
  CmInitial <- MCCmInitial
  CmNumber <- MCCmNumber
  CmText <- MCCmText
  MaxVersion = 2
  Handlers = {h1}
  Ops = {"addModel", "deleteModel", "addVersion", "deleteVersion", "activate"}
  Unanswered = Unanswered
  Lists = {l1, l2}
  Elems = {e1, e2, e3}
  SizeModulus = 3
  Optionals = {o1, o2, o3}
  Values = {1, 2}
INVARIANTS
  SelectionIsExact
  IndexIsExact
  BatchesKeepRows
  PlansAnswer
  InstancesHold
  TextExact
  OrderlyMain
  
  CompiledHold
  RestAnswers
  PolicyIsServed
  AnswersAreTrue
  ContainersHold
PROPERTIES
  WalksAreExact
  ListsAreSequences
