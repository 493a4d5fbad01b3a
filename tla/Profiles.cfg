\* Two runs at a time, five in a behaviour: enough for a snapshot beside a
\* job and a restore, and for a backup above the cap of two generations.
SPECIFICATION Spec
CONSTANTS
    Runs = {j1, j2}
    Wirings <- BothWirings
    MaxGenerations = 2
    MaxStarts = 5
    MaxDays = 1
SYMMETRY Symmetry
CHECK_DEADLOCK FALSE
 
PROPERTY WholeBackupKept
