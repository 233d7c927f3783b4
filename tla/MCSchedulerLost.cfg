CONSTANTS
  s1 = s1  s2 = s2  s3 = s3  s4 = s4  u1 = u1  x = x  y = y
  System <- MCSystem
  Phase <- MCPhase
  Reads <- MCReads
  Writes <- MCWrites
  HasCallback = {s4}
  Consumer = {u1}
  Settings <- MCReliable
  MaxTick = 2
  MaxCommands = 1
SPECIFICATION Spec
INVARIANT NoCommandLost
