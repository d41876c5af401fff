CONSTANTS
  u1 = u1
  u2 = u2
  u3 = u3
  k1 = k1
  k2 = k2
  k3 = k3
  kx = kx
  s1 = s1
  x = x
  Places <- MCPlaces
  MaxDest = 2
  Urls = {u1, u2, u3}
  Keys = {k1, k2, k3, kx}
  AsciiKeys = {k1, k2, k3}
  Streams = {s1, x}
  DefaultStream <- MCDefaultStream
  Null = Null
  NoPlace = NoPlace
  FirstFiles <- MCFirstFiles
  MaxRuns = 2
  Threads = {t1, t2}
  NoThread = NoThread
  Requests = {a1}
SYMMETRY Symmetric
SPECIFICATION PSpec
INVARIANTS
  PTypeOK
  RefusedOnlyIfOverfull
  OriginalRecoverable
  ExitZeroMeansReady
  RevokedKeyIsRefused
  IssuedKeyIsConfigured
  ShownUrlIsAdmitted
PROPERTIES
  ImplementsGate
