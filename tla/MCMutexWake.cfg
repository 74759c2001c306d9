CONSTANTS
    Threads = {t1, t2, t3}
    Mutexes = {m1}
SPECIFICATION FairSpec
PROPERTIES SleepersAreWoken
