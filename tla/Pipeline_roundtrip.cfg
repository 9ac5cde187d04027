CONSTANTS
  Numerals <- MCNumerals
  Families <- PlainFamilies
  NoBody = NoBody
  NoTool = NoTool
  NoOverride = NoOverride
  ReservedHeaders <- MCReservedHeaders
  ExtensionWords <- MCExtensionWords
SPECIFICATION Spec
INVARIANT AcceptedCallsDispatch
CHECK_DEADLOCK FALSE
