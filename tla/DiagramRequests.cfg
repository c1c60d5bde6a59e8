SPECIFICATION Spec
CONSTANTS
  Null = Null
  Unknown = Unknown
  Nowhere = Nowhere
  Foreign = Foreign
  Absent = Absent
  NotRegular = NotRegular
  NoDigest = NoDigest
  NotConfigured = NotConfigured
  NoState = NoState
  NoPlan = NoPlan
  NoAnswer = NoAnswer
  Tree <- MCTree
  WorkDir <- MCWorkDir
  XalNames <- MCXalNames
  XaligoTypes = {"xaligo_diagram", "xaligo_items"}
  IntLimit = 32
  GoodFrameIDs = {"main", "other", "late"}
  KnownTypes <- MCKnownTypes
  RequiredHeight = 720
  Starts <- MCStarts
  Learned <- MCLearned
  SourcePlace <- MCSourcePlace
  SourceNames <- MCSourceNames
  Edits <- MCEdits
  MaxChanges <- MCMaxChanges
INVARIANTS
  AnswersAreHonest
  AcceptedConfigurationPlans
  ApplyKeepsThePlan
  RefreshFindsTheOutput
