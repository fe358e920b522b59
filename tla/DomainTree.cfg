\* Construction of every well-formed database of up to three domains.
CONSTANTS
  DbSet <- MCDbSet
  HierId = 1
  None = None
SPECIFICATION Spec
INVARIANTS
  TypeOK
  ChildCountMatchesChain
  LookupFindsEveryDomain
  StateKeysDistinct
\* Construction ends after the last record.
CHECK_DEADLOCK FALSE
