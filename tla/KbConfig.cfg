SPECIFICATION FairSpec
CONSTANTS
  Cells = {1, 2, 3}
  Sections = {"general", "magkey"}
  SectionOf <- MCSectionOf
  ChunkOf <- MCChunkOf
  Value = {0, 1, 2}
  Fits <- MCFits
  Zero = 0
  Default <- MCDefault
  Display = 2
  BadModes = {2}
  Info = 0
  Delay = 2
INVARIANTS
  TypeOK
  UnsavedIsCovered
  StoredWasCurrent
PROPERTIES
  Implements
  PersistsWhenQuiet
