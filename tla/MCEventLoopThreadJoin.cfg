SPECIFICATION TimedSpec
CONSTANT Functors = {}
PROPERTY DestructorReturns
CHECK_DEADLOCK FALSE
