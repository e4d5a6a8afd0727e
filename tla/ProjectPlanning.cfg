CONSTANTS
  None = None
  Every = Every
  Taxonomy <- MCTaxonomy
  Generated = {}
  Packs <- MCPacks
  PackOrder <- MCPackOrder
  Plural <- MCPlural
  Sources <- MCSources
  Catalogue <- MCCatalogue
  LeadQuery <- MCLeadQuery
  CodeGraph = 99
  Defaults <- MCDefaults
  Capabilities <- MCCapabilities
  Disks <- MCDisks
  Blueprints <- MCBlueprints
  Worlds <- MCWorlds
  Repository <- MCRepository
  Manifests = 1
  Overrides <- MCOverrides
  Weathers <- MCWeathers
  Supplies <- MCSupplies
  Asks <- MCAsks
  Breakable <- MCBreakable
  MaxCalls = 2
  MaxEdits = 1
SPECIFICATION PlanningSpec
INVARIANT NothingVanishes TruthfulReport OfferedIsAllowed BoundAsScanned RepeatIsStable
PROPERTY ReadyIsEarned
CHECK_DEADLOCK FALSE
