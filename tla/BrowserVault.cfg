SPECIFICATION Spec
CONSTANTS
  t1 = t1 t2 = t2
  i1 = i1
  Nonces <- Draws
  Marker = marker
  None = None
  Tabs = {t1, t2}
  Starts <- TheStarts
  Items = {i1}
  ITEM_MAX_OBJECTS = 2
  MAX_ITEM_ATTACHMENTS = 2
  MaxDraws = 6
  MaxVersion = 3
  MaxRevision = 3
  MaxChunks = 1
SYMMETRY Symmetry
INVARIANTS BrowserInv
PROPERTIES SavesBuildOnStored ResumeIsNewest
