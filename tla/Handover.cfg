SPECIFICATION Spec
INVARIANT HandedOnKept
INVARIANT HandedOnOnce
PROPERTY HandoverSettles
INVARIANT CleanClose
CHECK_DEADLOCK FALSE
