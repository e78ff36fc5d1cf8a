SPECIFICATION FairSpec
CONSTANTS
  lobby = lobby
  battle = battle
  Conn = {lobby, battle}
  MaxSent = 3
  Begin <- Streams
  MAX_PACKET = 4
  MAX_BUFFER = 5
  SharedBuffer = FALSE
CHECK_DEADLOCK FALSE
INVARIANTS
  PacketsIntact
  SavedFits
PROPERTY
  AllHandedOver
