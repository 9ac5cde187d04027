CONSTANTS
  Numerals <- MCNumerals
  Families <- MCFamilies
  NoBody = NoBody
  NoTool = NoTool
  NoOverride = NoOverride
  ReservedHeaders <- MCReservedHeaders
  ExtensionWords <- MCExtensionWords
SPECIFICATION Spec
INVARIANTS
  TypeOK
  DistinctUnlessSuffixed
  NamesAreStable
  ToolsReachable
  SchemasKeepMeaning
  RoundTrip
CHECK_DEADLOCK FALSE
