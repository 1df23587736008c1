\* Three events of one thread in commands of up to two; two faults.
SPECIFICATION Spec
CONSTANTS
    MaxEvents = 3
    MaxBatch = 2
    MaxFaults = 2
INVARIANTS
    OneSeam
    LossIsTheGap
    SessionsSettle
PROPERTIES
    SidebarNeverGoesBack
\* The thread's events come to an end.
CHECK_DEADLOCK FALSE
