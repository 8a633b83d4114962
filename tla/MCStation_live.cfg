CONSTANTS
  AP = {a}
  NoAP = NoAP
  WFC = {a}
  SharedKey = {}
  Libraries = {"INTERNET", "HOST"}
  MaxRetry = 1
  MaxCalls = 2
  MaxAid = 1
  MaxRx = 1
  Paced = TRUE
SPECIFICATION FairSpec
PROPERTIES ModeConverges SilenceIsReported
