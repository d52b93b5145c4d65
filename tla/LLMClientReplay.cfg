SPECIFICATION Spec
CONSTANTS
  Asks <- MCThreeTasks
  Preference <- MCPreference
  OpenAIShape = {"openrouter"}
  Settings <- MCGeminiThenReplay
  Poison = {}
  MAX_RETRIES = 1
  MAX_CALLS_PER_RUN = 100
  MaxKills = 0
INVARIANTS
  ReplayReproduces
