SPECIFICATION Spec
INVARIANT DoorKept
INVARIANT GatesHold
INVARIANT ConfigTrue
INVARIANT BoardSound
INVARIANT NothingUncounted
INVARIANT CrashKeepsFiles
INVARIANT StallSeen
INVARIANT ScrubHolds
INVARIANT CallsTrue
PROPERTY EscalatesOnStall
CHECK_DEADLOCK FALSE
