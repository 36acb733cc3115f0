\* Each part ends with its file.  Functions: five lines, with triggers that they can reach.
SPECIFICATION ChecksSpec
CONSTANTS
  MaxHeader = 4
  GuardLines <- MCGuardLines
  Headers <- MCHeaders
  HeaderType <- MCHeaderType
  Canon <- MCCanon
  ThirdParty = {"Third.h"}
  ForeignCC = {"x.cc"}
  NoDirectory = {"my.h"}
  OwnHeaders = {"my.h"}
  StlHeaders = {"vector"}
  MaxLines = 5
  MaxCode = 5
  MaxVerbose = 2
  NormalTrigger = 1
  TestTrigger = 2
INVARIANTS SilentMeansNamed CleanBlockIsOrdered MissingIsExact GuardIsProjectPath OwnHeaderIsOpened
           LongFunctionShown
CHECK_DEADLOCK FALSE
