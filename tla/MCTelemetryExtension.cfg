SPECIFICATION Spec
CONSTANTS
  Arguments <- MCArguments
  Text <- MCText
  ScrapeInterval = 2
  MinInterval = 5
  RequestTimeout = 1
INVARIANTS ArgumentsParsed ConfigArrives ScrapesOnTime
PROPERTIES LoopQuits
CHECK_DEADLOCK FALSE
