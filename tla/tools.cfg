SPECIFICATION ToolsSpec
CONSTANTS
  Inputs = {"unit1", "unit2"}
  Covers <- MCCovers
  Hanging = {"unit1"}
  Vocabularies = {{"func1"}, {"func1", "func2"}}
  MaxNew = 1
  TopK = 1
  MinIndexed = 1
  Weight = 2
  Changes = 3
  Hypotheses = {"lead1"}
  Streams = {"stream1"}
  Revisions = {1, 2}
  Policies = {"policy1", "policy2"}
  Votes <- MCVotes
  Rationales = {"because"}
  Recorders = {"session1", "session2"}
  MaxStored = 2
  PatchedFiles = {"file1"}
  Absent = Absent
  Patches = {"patch1"}
  NoPatch = NoPatch
  Preparers = {"session1", "session2"}
  MaxEdits = 1
  Leader = "leader"
  Kids = {"child1", "child2", "child3"}
  Deaf = {"leader", "child2"}
  Escapes = {"child3"}
  KleeRuns = {"run1", "run2"}
  MaxTests = 1
  Slack = 0
  MadeBound = 2
  TimeBound = 1
  DepFiles = {"file1", "file2"}
  Uncopied = Uncopied
  VariantBuilders = {"build1", "build2"}
  DepEdits = 1
  Corpora <- MCCorpora
  Signatures = {"sig1"}
  Repetitions = 2
  MaxExemplars = 1
  Sweeps = {"sweep1", "sweep2"}
  CodecSamples = {"sample1", "sample2"}
  MaxSamples = 1
  MaxPaths = 1
  Versions = {"script1", "script2"}
  Parses <- MCParses
  RoundTrips <- MCRoundTrips
  Encodes = {"script1"}
  Reaches = {"script1"}
  MinRate = 90
  Strict = TRUE
  Validators = {"codec1"}
  Decoders = {"codec2"}
  Implementations = {"left", "right"}
  Paths = {"path1", "path2"}
  Contents = {"same", "differs", "crashes"}
  Gone = "gone"
  Behaves <- MCBehaves
  ByOutput = TRUE
  Size <- MCSize
  MaxHits = 2
  MaxHitBytes = 2
  TopCap = 1
  CorpusEdits = 1
  Harnesses = {"harness1"}
  BuildCalls = {"build1", "build2"}
  Repeats = 2
  SourceEdits = 1
  Packs = {"target1", "target2"}
  PackCalls = {"pack1", "pack2"}
  PacksOf <- MCPacksOf
  HarnessEdits = 1
  SinkRows = {"row1", "row2"}
  SourceFiles <- MCSourceFiles
  Recognised <- MCRecognised
  ScanCalls <- MCScanCalls
  MergeCalls <- MCMergeCalls
  MaxListed = 1
  MaxMerged = 2
  SourceChanges = 2
  Tracked = {"sink1", "sink2"}
  Seeds = {"seed1", "seed2"}
  Executes <- MCExecutes
  Frontiers = {"campaign1", "campaign2"}
  SampleSize = 1
  CloseSample = 1
  TrackedLimit = 1
  FrontierCalls = 3
VIEW ToolsView
INVARIANTS
  IndexIsCurrent
  OneJudgment
  NothingOutlivesTheCall
  ReportedIsHarvested
  ReportIsWhatWasSeen
  DivergencesReplay
PROPERTIES
  ReadyIsPatchedSource
  PublishedStays
  DecodedByValidated
  FoundOnOwnBuild
  TogetherOrNotAtAll
  CurationSurvives
  NeverDemoted
CHECK_DEADLOCK FALSE
