CONSTANTS
  Null = Null
  Variables <- MCVariables
  NumericVariables <- MCNumericVariables
  Datasets <- MCDatasets
  Indeterminates <- MCIndeterminates
  RuleLists <- MCRuleLists
  Orders <- MCOrders
  ScoredValues <- MCScoredValues
  TrainPercent = 70
  TestPercent = 16
  Treatments <- MCTreatments
  BinningParams <- MCBinningParams
  SelectionParams <- MCSelectionParams
  OverrideLists <- MCOverrideLists
  WoeParams <- MCWoeParams
SPECIFICATION Spec
CHECK_DEADLOCK FALSE
INVARIANTS
  TypeOK
  NothingLeaks
  WoeAccountsForTraining
  ScorersAgree
  SelectionIsSound
  FrozenIsApplied
  ManifestListsAll
