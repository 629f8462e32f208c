CONSTANTS
  p1 = p1
  p2 = p2
  p3 = p3
  Unknown = Unknown
  NoName = NoName
  Registry <- MCRegistry
  Names <- MCNames
  PluginSuffixes <- MCPluginSuffixes
  InitResults <- MCInitResults
  Configs <- MCConfigs
  Queries <- MCQueries
  MaxCycles = 2

SPECIFICATION Spec

INVARIANT TypeOK
INVARIANT TableOnlyEnabled
INVARIANT ResolutionContract
INVARIANT TableFollowsConfig

\* The process ends after a fatal Init() failure or after shutdown.
CHECK_DEADLOCK FALSE
