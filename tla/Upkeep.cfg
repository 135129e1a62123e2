SPECIFICATION Spec
INVARIANT IndexSound
INVARIANT SkillsDecided
INVARIANT SensorsTrue
PROPERTY UpkeepSettles
CHECK_DEADLOCK FALSE
