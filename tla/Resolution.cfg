CONSTANTS
  c1 = c1
  c2 = c2
  Nothing = Nothing
  Partial = Partial
  Asker <- MCAsker
  Bundle = {"pages", "electron", "terminal"}
  Layouts <- MCLayouts
  Verbs <- MCVerbs
  Releases <- MCReleases
  Registered = {"T1", "T2", "T3", "T4", "T5"}
  MaxUpsets = 1
SPECIFICATION FairSpec
INVARIANTS ProfileInv VisibleIsFound
PROPERTIES EveryCallEnds
