SPECIFICATION Spec
CONSTANTS
  t1 = t1
  t2 = t2
  r1 = r1
  r2 = r2
  s1 = s1
  NoTool = NoTool
  Req = {r1, r2}
  Session = {s1}
  Tool = {t1, t2}
  Content <- Offers
  Streamed <- Events
  Settings <- AllSettings
  Verdicts = {"Allow", "Deny"}
  Ttl = 2
  Cooldown = 1
  MaxFaults = 1
INVARIANTS PermitsAccounted MemoryQuarantineLasts IdleIsForgotten 
 
