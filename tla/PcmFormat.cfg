CONSTANTS
    Width = 16
    ChannelValues = {1, 2, 3, 6, 8, 2048, 2049}
SPECIFICATION Spec
\* The process ends at a division by zero in device_open: no step follows.
CHECK_DEADLOCK FALSE
INVARIANTS
    PeriodWithinBudget
