CONSTANTS
  Numerals <- MCNumerals
  Families <- MCFamilies
  NoBody = NoBody
  NoTool = NoTool
  NoOverride = NoOverride
  ReservedHeaders <- MCReservedHeaders
  ExtensionWords <- MCExtensionWords
SPECIFICATION Spec
INVARIANT NamesDistinct
CHECK_DEADLOCK FALSE
