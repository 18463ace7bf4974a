CONSTANTS
    Tasks = {t1, t2}
    MaxLoops = 3
SPECIFICATION LifecycleSpec
INVARIANTS LifecycleTypeOK PoolOnOwnLoop OnlyVeteransRefuse SingletonWithinALife ReleasedButForgotten
CHECK_DEADLOCK FALSE
