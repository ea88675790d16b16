CONSTANT MaxRun = 3
SPECIFICATION Spec
INVARIANTS IndexSealsRun IndexVouchesForWire
PROPERTY SavedStaysSaved
