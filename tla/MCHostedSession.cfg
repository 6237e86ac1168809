SPECIFICATION HostedSpec
CONSTANTS
  a = a
  u1 = u1
  u2 = u2
  Named = u1
  Driven = u1
  Unit <- MCUnits
  SlowClients <- MCSlow
  RealTimeClients = {}
  AutoCalls = {"init", "start"}
INVARIANTS
  TypeOK
  ServesAll
  InitialisedHasDriver
  OnlyRealTimeFaults
  UnitLeft
PROPERTY
  HonoursSession
