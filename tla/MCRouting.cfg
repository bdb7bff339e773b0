SPECIFICATION Spec
CONSTANTS
  Builtins <- MCBuiltins
  Presets <- MCPresets
  LegacyKeys <- MCLegacyKeys
  AgentKeys <- MCAgentKeys
  AgentConfig <- MCAgentConfig
  DefaultModel <- MCDefaultModel
  DefaultUpstreamModel <- MCDefaultUpstreamModel
  Entries <- MCEntries
  MaxListed = 2
  Asked <- MCAsked
  Clients = {c1}
  None = None
INVARIANTS
  RegistryInv
  RoutedRight
PROPERTIES
  NamesKeepResolving
CHECK_DEADLOCK FALSE
