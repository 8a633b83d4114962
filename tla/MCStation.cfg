CONSTANTS
  AP = {a, b}
  NoAP = NoAP
  WFC = {a}
  SharedKey = {b}
  Libraries = {"INTERNET"}
  MaxRetry = 1
  MaxCalls = 2
  MaxAid = 2
  MaxRx = 1
  Paced = TRUE
SPECIFICATION Spec
INVARIANTS TypeOK OutcomeIsOfThisAttempt OneAccessPoint AidAgrees
