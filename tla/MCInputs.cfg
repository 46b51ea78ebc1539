\* A file that was read or rejected, a number, and a format of full length end a behaviour.
SPECIFICATION MCSpec
CONSTANTS
  Sections = {"fritzboxfon", "event", "lookup:script", "notify:script", "notify:irc", "other"}
  Keys = {"port", "script", "call"}
  Values = {"0", "x"}
  Atoi <- MCAtoi
  Unset = Unset
  Built <- MCBuilt
  MaxLines = 5
  BufSize = 8
  NoNumberText <- MCNoNumber
  PrefixCity <- MCPrefixCity
  PrefixState <- MCPrefixState
  Characters = {"0", "1", "4", "9", "+", "-"}
  FormatCharacters <- MCFormatCharacters
  MaxLength = 5
  MaxFormat = 6
INVARIANTS
  TypeOK
  LastSectionFirst
  AsWritten
  Idempotent
  OneSubscriber
  NoDigitLost
  ParametersInPlace
  FormatsMeant
CHECK_DEADLOCK FALSE
