SPECIFICATION Spec
CONSTANTS
  Threads = {t1, t2}
  Nobody = nobody
  MaxHops = 1
  Calls <- MCCalls
  Answers <- MCAnswers
  AddressLists <- MCAddressLists
  PerThread = 1
  MaxStops = 1
INVARIANTS
  TypeOK
  DescriptorHeld
  NoLeak
  AnswerIsOwn
  ResultTrue
  StopObeyed
PROPERTIES
  CallsReturn
CHECK_DEADLOCK FALSE
