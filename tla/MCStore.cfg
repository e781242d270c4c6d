CONSTANTS
  t1 = t1
  t2 = t2
  Tenants = {t1, t2}
  DeleteLinked = FALSE
  Rooms <- MCRooms
SPECIFICATION Spec
VIEW View
SYMMETRY MCSymmetry
INVARIANTS TypeOK SameReads ReferencesLive
PROPERTIES Implements
