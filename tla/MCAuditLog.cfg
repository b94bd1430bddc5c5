SPECIFICATION FairSpec
CONSTANTS
    c1 = c1
    c2 = c2
    read = read
    write = write
    Callers = {c1, c2}
    Categories = {read, write}
    Days <- MCDays
    BackupDays = 0
    PlanSize = 2
    TrimPart = 2
    MaxDay = 1
    MaxToggles = 1
INVARIANTS ChainInOrder AlterationReported 
PROPERTY WritersReturn
CHECK_DEADLOCK FALSE
