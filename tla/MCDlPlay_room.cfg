CONSTANTS
  MaxClients = 2
  NumPieces = 1
  RequestFrames = 1
  FileInfoFrames = 1
  StartSendFrames = 1
  BootExtraFrames = 1
  BootFrames = 1
  SessionEndFrames = 1
  SilentFrames = 1
  CompleteFrames = 1
  IdleFrames = 2
  Kinds = {"program", "app"}
  Calls = {"manual", "send"}
  KickBits = 2
  Lossy = FALSE
  Departures = {"off"}
  InStep = TRUE
  RingSize = 1
SPECIFICATION FairSpec
INVARIANTS BootOnlyComplete
PROPERTIES HealthyKept SeatsComeBack AppServed
