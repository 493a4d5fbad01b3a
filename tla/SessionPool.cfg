SPECIFICATION FairSpec
CONSTANTS
    server = server
    cli = cli
    a = a
    b = b
    Procs = {server, cli}
    Admins = {cli}
    Own = {a}
    Brave = {b}
    NameOf <- DisplayName
    Damaged = Damaged
    MaxVerbs = 3
    MaxDamage = 1
PROPERTIES
    ImplementsRegistry
    DeleteDropsOnlyItsTarget
    VerbsEnd
CHECK_DEADLOCK FALSE
