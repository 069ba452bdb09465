SPECIFICATION Spec
CONSTANTS
  MAX_PREDICATE_EXPANSION_DEPTH = 4
  max_entries = 2
  checkpoint_every = 2
  Schema <- MCSchema
  Signatures <- MCSignatures
  Prelude <- MCPrelude
  World <- MCWorld
  Projects <- MCProjects
  Older <- MCOlder
  Events <- MCEvents
  MaxEvents = 2
  Budgets <- MCBudgets
INVARIANTS
  MeansWhatItSays
  ShipsWhatCompiled
  TrackedKeysExact
  QuietMeansSaved
PROPERTY
  DeployTakesEffect
CHECK_DEADLOCK FALSE
