SPECIFICATION Spec
CONSTANTS
  MAX_PREDICATE_EXPANSION_DEPTH = 3
  Numerals = {0, 1, 7}
  Addresses <- MCAddresses
  Lower <- MCLower
  Collation <- MCCollation
  Regexes <- MCLower
  StateCapacity = 1
  Baselines <- MCLower
  MAX_EVENT_TS_LAG_MS = 4
  MAX_EVENT_TS_LEAD_MS = 5
  NsPerUs = 1
  DefaultRateMs = 1
  RareThreshold = 3
  Feeds <- MCFeeds
  FeedType <- MCFeedType
  MaxPollFails = 1
  Workers <- MCWorkers
  Streams <- MCStreams
  EarlyStreams <- MCEarlyStreams
  Programs <- MCPrograms
  DefaultWindowMs = 2
  MAX_EVENTS_PER_BUCKET = 2
  MaxBuckets = 3
  AlertCapacity = 2
  MaxNow = 1
  MaxFlushFails = 1
INVARIANTS NoMatchMissed AlertsJustified IdsFollowEvents StateBounded
PROPERTY IntelConverges
CHECK_DEADLOCK FALSE
