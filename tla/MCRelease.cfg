CONSTANTS
    Tasks = {t1, t2}
    MaxLoops = 3
SPECIFICATION LifecycleSpec
INVARIANT ReleasedByCli
CHECK_DEADLOCK FALSE
