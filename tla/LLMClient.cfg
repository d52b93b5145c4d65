SPECIFICATION FairSpec
CONSTANTS
  Asks <- MCThreeTasks
  Preference <- MCPreference
  OpenAIShape = {"openrouter"}
  Settings <- MCAll
  Poison = {"t2"}
  MAX_RETRIES = 1
  MAX_CALLS_PER_RUN = 4
  MaxKills = 1
INVARIANTS
  QueueIsExact
  CallsOvershootByRetries
PROPERTIES
  BoughtOnce
  AffordableTasksDrain
