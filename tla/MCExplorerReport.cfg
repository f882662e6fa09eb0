\* Two contracts; a chain with two explorers and an entry in each kind of file,
\* one with one explorer and two entries; three runs of the workflow.
CONSTANTS
  avalanche = avalanche
  okx = okx
  Chains = {avalanche, okx}
  Okx = okx
  ExplorersOf <- MCExplorersOf
  Addresses = {a1, a2}
  Names = {"unknown", "silo"}
  MaxEntriesOf <- MCMaxEntriesOf
  KeysOf <- MCKeysOf
  ErrorKey <- MCErrorKey
  SectionOrder <- MCSectionOrder
  ParsedKey <- MCParsedKey
  MaxRuns = 3
  Idle = Idle
SPECIFICATION FairSpec
CHECK_DEADLOCK FALSE
INVARIANTS
  SectionsAreComplete
  ResultsAreTrue
  ArtifactsFitReport
  ClearMeansVerified
  CommentIsCurrent
PROPERTIES
  Ends
