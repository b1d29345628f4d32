CONSTANTS
  c1 = c1
  c2 = c2
  d1 = d1
  d2 = d2
  a = a
  b = b
  Client = {c1, c2}
  Does <- Kinds
  Locking = {c1, c2}
  Dir = {d1, d2}
  Name = {a, b}
  Path <- Paths
  Value = {0, 1}
  Default = 0
  Alien = Alien
  NoFile = NoFile
  None = None
  Attempts = 1
SPECIFICATION FairSpec
PROPERTIES  CallsReturn
