SPECIFICATION FairResolveSpec
CONSTANTS
  N = 4
  Repositories <- SoundRepositories
  Name <- MCName
  ScoreTables <- MCScores
  RootLists <- MCRoots
  Requests <- MCRequests
  PageSize = 2
  MaxFaults = 1
  MaxChanges = 1
INVARIANTS
  ResolveTypeOK
  ScopeIsJudged
  CandidatesOnce
  ResolvedIsUnique
PROPERTIES
  ResolveEnds
CHECK_DEADLOCK FALSE
