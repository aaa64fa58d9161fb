SPECIFICATION Spec
CONSTANTS
    Threads = {main, t1, t2}
    Main = main
    NULL = NULL
    SystemTick = 2
    UserTick = 1
    Delays = {1, 3}
    TimerDelays = {2, 4}
INVARIANTS MachineSound HaltsWhenDone
PROPERTIES ThreadsGoOn
