CONSTANTS
  MaxClients = 1
  NumPieces = 2
  RequestFrames = 1
  FileInfoFrames = 1
  StartSendFrames = 1
  BootExtraFrames = 1
  BootFrames = 1
  SessionEndFrames = 1
  SilentFrames = 1
  CompleteFrames = 1
  IdleFrames = 1
  Kinds = {"program", "station", "app"}
  Calls = {"boot", "switch", "gather", "lock", "send", "stop"}
  KickBits = 2
  Lossy = TRUE
  Departures = {"leave", "off"}
  InStep = FALSE
  RingSize = 2
SPECIFICATION Spec
INVARIANT BootOnlyComplete
PROPERTIES Gathered
