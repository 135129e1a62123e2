SPECIFICATION Spec
INVARIANT NothingLost
INVARIANT NothingTwice
INVARIANT LifeOnRecord
PROPERTY DeliverySettles
CHECK_DEADLOCK FALSE
