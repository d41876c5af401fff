CONSTANTS
  place = place
  other = other
  Places <- MCPlaces
  Settings <- MCSettings
  Workers = {w1, w2}
  Threads = {t1, t2}
  Nobody = Nobody
  MediaMTX = MediaMTX
  NoThread = NoThread
SPECIFICATION MFairSpec
INVARIANTS
  MTypeOK
  AnswerAgrees
PROPERTIES
  LiveIsShown
  EndedIsForgotten
