\* Two prompt jobs as the containers wire them.
SPECIFICATION Spec
CONSTANTS
    Runs = {j1, j2}
    Wirings <- Direct
    MaxGenerations = 2
    MaxStarts = 2
    MaxDays = 0
CHECK_DEADLOCK FALSE
INVARIANT ProfileHasOneBrowser
