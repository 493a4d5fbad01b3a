-------------------------------- MODULE Tui --------------------------------
(***************************************************************************)
(* The terminal interface: its worker slots (TuiSlots), the swarm screen,  *)
(* the sessions screen and the settings screen.  They share one stack of   *)
(* confirmation dialogs and the interface's thread; a behaviour is about   *)
(* the one screen `screen' names, the others being left alone by its user. *)
(***************************************************************************)
EXTENDS TuiSlots, FiniteSets

CONSTANTS
    Screens,     \* the screens whose use is described
    MaxStarts,   \* swarms started in a behaviour
    MaxEdits,    \* changes to the session pool or to a setting
    MaxDialogs,  \* dialogs open at a time
    MaxWorkers   \* list workers, and delete workers, a user has at a time

VARIABLES
    screen,      \* the screen in use
    shown,       \* _swarm_id: the swarm that is watched, or none
    pending,     \* _swarm_pending_input
    swarm,       \* the worker threads of started swarms
    entries,     \* the session pool on disk: name and id of each entry
    cache,       \* _sessions_cache, in the order of the rows
    loads,       \* _refresh_sessions_table workers: the pool as each read it
    deletes,     \* _run_delete_session workers: the name each was given
    verdict,     \* _last_session_state
    setting,     \* one variable: shell export, environment, file and field
    edits        \* changes so far

swarmVars == <<shown, pending, swarm>>
poolVars == <<entries, cache, loads, deletes>>
tuiVars == <<slotVars, screen, swarmVars, poolVars, verdict, setting, edits>>

NoSwarm == 0
NoInput == "none"
Swarms == 1 .. MaxStarts

SwarmInit ==
    /\ shown = NoSwarm /\ pending = NoInput
    /\ swarm = [k \in Swarms |-> [at |-> "none", input |-> NoInput, ends |-> FALSE]]

-----------------------------------------------------------------------------
\* The swarm screen.

Started == {k \in Swarms : swarm[k].at # "none"}
StartSwarm(input) ==
    LET k == CHOOSE j \in Swarms \ Started : \A i \in Swarms \ Started : j <= i
    IN  swarm' = [swarm EXCEPT ![k] = [at |-> "starting", input |-> input, ends |-> FALSE]]

\* _run_swarm: nothing happens while a swarm is watched.  Starts that may open
\* many browsers are confirmed first.
RunSwarm(input, asks) ==
    /\ open /\ shown = NoSwarm /\ Started # Swarms
    /\ IF asks
       THEN /\ Len(modals) < MaxDialogs
            /\ Push([asks |-> "swarm", input |-> input])
            /\ pending' = input
            /\ UNCHANGED swarm
       ELSE StartSwarm(input) /\ pending' = NoInput /\ UNCHANGED modals
    /\ UNCHANGED <<open, shown>>

\* The dialog does not remember its input: the held one is started.
ConfirmSwarm ==
    /\ open /\ Top("swarm") /\ Close
    /\ pending' = NoInput
    /\ IF pending # NoInput /\ Started # Swarms THEN StartSwarm(pending) ELSE UNCHANGED swarm
    /\ UNCHANGED <<open, shown>>

DismissSwarm ==
    /\ open /\ Top("swarm") /\ Close
    /\ pending' = NoInput
    /\ UNCHANGED <<open, shown, swarm>>

\* The finally clause of the worker: whatever swarm is watched is forgotten.
Leave(k, shows) ==
    /\ shown' = NoSwarm
    /\ swarm' = [swarm EXCEPT ![k].at = "over"]

\* _swarm_worker: the start returns a snapshot, or none, or raises.
SwarmStarts(k) ==
    /\ open /\ swarm[k].at = "starting"
    /\ shown' = k
    /\ swarm' = [swarm EXCEPT ![k].at = "polling"]
    /\ UNCHANGED <<pending, dialogs>>

SwarmFails(k) ==
    /\ open /\ swarm[k].at \in {"starting", "polling"}
    /\ Leave(k, shown)
    /\ UNCHANGED <<pending, dialogs>>

\* The run settles by itself or by a cancel, and a later poll sees it.
SwarmSettles(k) ==
    /\ swarm[k].at = "polling" /\ ~swarm[k].ends
    /\ swarm' = [swarm EXCEPT ![k].ends = TRUE]
    /\ UNCHANGED <<shown, pending, dialogs>>

SwarmPolls(k) ==
    /\ open /\ swarm[k].at = "polling" /\ swarm[k].ends
    /\ Leave(k, shown)
    /\ UNCHANGED <<pending, dialogs>>

CancelSwarm ==
    /\ open /\ shown # NoSwarm
    /\ swarm' = [swarm EXCEPT ![shown].ends = TRUE]
    /\ UNCHANGED <<shown, pending, dialogs>>

SwarmThread(k) == SwarmStarts(k) \/ SwarmSettles(k) \/ SwarmPolls(k)

notSwarm == <<screen, started, threads, stopped, index, slots, poolVars, verdict, setting, edits>>

SwarmNext ==
    /\ \/ \E input \in {"file", "folder"}, asks \in BOOLEAN : RunSwarm(input, asks)
       \/ ConfirmSwarm \/ DismissSwarm \/ CancelSwarm
       \/ \E k \in Swarms : SwarmThread(k) \/ SwarmFails(k)
    /\ UNCHANGED notSwarm

-----------------------------------------------------------------------------
\* The sessions screen.  As in SessionPool, a new entry's id is the successor of
\* the highest one in use, so a removed entry's id may be given again.
Names == {"a", "b"}
NewId == 1 + Cardinality({i \in 1 .. MaxEdits + 1 : \E e \in entries : e.id >= i})
RowsOf(pool) ==
    CHOOSE rows \in [1 .. Cardinality(pool) -> pool] :
        \A i, j \in DOMAIN rows : i < j => rows[i].id < rows[j].id

SessionsInit ==
    /\ entries = {[name |-> "a", id |-> 1]}
    /\ cache = <<>> /\ loads = <<>> /\ deletes = <<>>

\* A login of this interface, or any verb of another process.
OthersEdit ==
    /\ edits < MaxEdits /\ edits' = edits + 1
    /\ \/ \E n \in Names \ {e.name : e \in entries} : entries' = entries \cup {[name |-> n, id |-> NewId]}
       \/ \E e \in entries : entries' = entries \ {e}
    /\ UNCHANGED <<cache, loads, deletes, dialogs>>

\* _refresh_sessions_table: a worker lists the pool, then the rows are replaced
\* on the interface's thread.  A newer worker does not stop an older one.
Unread == [read |-> FALSE, rows |-> <<>>]
Without(seq, i) == SubSeq(seq, 1, i - 1) \o SubSeq(seq, i + 1, Len(seq))

Refresh ==
    /\ open /\ Len(loads) < MaxWorkers
    /\ loads' = Append(loads, Unread)
    /\ UNCHANGED <<entries, cache, deletes, edits, dialogs>>

ListSessions(i) ==
    /\ ~loads[i].read
    /\ loads' = [loads EXCEPT ![i] = [read |-> TRUE, rows |-> RowsOf(entries)]]
    /\ UNCHANGED <<entries, cache, deletes, edits, dialogs>>

\* An empty list is shown as a hint, and the cached rows stay.
ShowRows(i) ==
    /\ open /\ loads[i].read
    /\ cache' = IF loads[i].rows = <<>> THEN cache ELSE loads[i].rows
    /\ loads' = Without(loads, i)
    /\ UNCHANGED <<entries, deletes, edits, dialogs>>

\* The delete button and key of a row (and the row's test button).
AskDelete(row) ==
    /\ open /\ Len(modals) < MaxDialogs /\ Len(deletes) < MaxWorkers
    /\ Push([asks |-> "delete", name |-> cache[row].name, row |-> row])
    /\ UNCHANGED <<open, entries, cache, loads, deletes, edits>>

\* Mutant: the confirmation deletes what its row shows by then.
NameAskedByRow(m) == IF m.row \in DOMAIN cache THEN cache[m.row].name ELSE m.name

\* The name is the dialog's own.
NameAsked(m) == m.name

ConfirmDelete ==
    /\ open /\ Top("delete") /\ Close
    /\ deletes' = Append(deletes, NameAsked(modals[1]))
    /\ UNCHANGED <<open, entries, cache, loads, edits>>

DismissDelete ==
    /\ open /\ Top("delete") /\ Close
    /\ UNCHANGED <<open, entries, cache, loads, deletes, edits>>

\* _run_delete_session looks the name up in the rows, removes the row's id from
\* the pool and has the rows loaded again.
DeleteSession(i) ==
    /\ open
    /\ deletes' = Without(deletes, i)
    /\ LET found == {row \in DOMAIN cache : cache[row].name = deletes[i]}
           id == cache[CHOOSE row \in found : TRUE].id
           hit == IF found = {} THEN {} ELSE {e \in entries : e.id = id}
       IN  /\ entries' = entries \ hit
           /\ loads' = IF hit = {} THEN loads ELSE Append(loads, Unread)
    /\ UNCHANGED <<cache, edits, dialogs>>

SessionsNext ==
    /\ \/ OthersEdit \/ Refresh \/ ConfirmDelete
       \/ DismissDelete
       \/ \E i \in DOMAIN loads : ListSessions(i) \/ ShowRows(i)
       \/ \E i \in DOMAIN deletes : DeleteSession(i)
       \/ \E row \in DOMAIN cache : AskDelete(row)
    /\ UNCHANGED <<started, threads, stopped, index, slots, swarmVars, verdict, setting>>

-----------------------------------------------------------------------------
\* The session check at the start: the validation's answer stops the watchdog,
\* and an answer after the watchdog's verdict replaces it.
notCheck == <<screen, slotVars, swarmVars, poolVars, setting, edits>>

CheckTimesOut ==
    /\ open /\ verdict = "none"
    /\ verdict' = "TIMEOUT"

CheckAnswers ==
    /\ open /\ verdict \in {"none", "TIMEOUT"}
    /\ \E answer \in {"VALID", "EXPIRED", "N/A"} : verdict' = answer

CheckNext ==
    /\ CheckTimesOut \/ CheckAnswers
    /\ UNCHANGED notCheck

-----------------------------------------------------------------------------
\* The settings screen, for one variable.
Values == {"v1", "quoted v1", "refused", "***"}
Unset == ""
Default == "default"

\* validate_env refuses some values of most variables.
Refused(value) == value = "refused"

SettingInit ==
    \E secret \in BOOLEAN, exported \in {Unset, "v1"} :
        /\ screen # "settings" => ~secret /\ exported = Unset
        /\ setting = [secret |-> secret, exported |-> exported, env |-> exported, file |-> Unset,
                      field |-> IF exported = Unset THEN Default ELSE IF secret THEN "***" ELSE exported]

\* _refresh_override_row: the field shows the value in force, a secret masked,
\* or the registry's default.
Shown(env) == CASE env = Unset -> Default
                [] env # Unset /\ setting.secret -> "***"
                [] OTHER -> env
Sets(env, file) ==
    setting' = [setting EXCEPT !.env = env, !.file = file, !.field = Shown(env)]

Edit == open /\ edits < MaxEdits /\ edits' = edits + 1

TypeValue ==
    /\ Edit
    /\ \E value \in Values \cup {Unset} : setting' = [setting EXCEPT !.field = value]

\* Without an override in force there is nothing to clear.
ResetOverride ==
    /\ Edit
    /\ Sets(Unset, IF setting.env = Unset THEN setting.file ELSE Unset)

\* Mutant: the value is stored without asking the registry; the file drops it.
StoredUnchecked(value) == Sets(value, IF Refused(value) THEN setting.file ELSE value)

\* The environment of the process and the file get the value, unless refused.
Stored(value) == IF Refused(value) THEN Sets(setting.env, setting.file) ELSE Sets(value, value)

ApplyOverride ==
    /\ Edit
    /\ setting.field # Unset
    /\ Stored(setting.field)

\* parse_settings takes the quotes off a value.
Parsed(value) == IF value = "quoted v1" THEN "v1" ELSE value

\* install_settings of the next start: an export wins over the file.
Restart ==
    /\ setting' = LET env == IF setting.exported = Unset THEN Parsed(setting.file) ELSE setting.exported
                  IN  [setting EXCEPT !.env = env, !.field = Shown(env)]
    /\ UNCHANGED edits

SettingsNext ==
    /\ TypeValue \/ ResetOverride \/ ApplyOverride \/ Restart
    /\ UNCHANGED <<slotVars, swarmVars, poolVars, verdict>>

-----------------------------------------------------------------------------
TuiInit ==
    /\ screen \in Screens
    /\ SlotInit /\ SwarmInit /\ SessionsInit /\ SettingInit
    /\ verdict = "none" /\ edits = 0

DismissSlot ==
    /\ open /\ (Top("cancel") \/ Top("quit")) /\ Close
    /\ UNCHANGED <<started, threads, stopped, index, slots, open>>

notSlots == <<screen, swarmVars, poolVars, verdict, setting, edits>>

SlotsScreen ==
    /\ SlotNext \/ DismissSlot
    /\ Len(modals') <= MaxDialogs
    /\ UNCHANGED notSlots

TuiNext ==
    /\ UNCHANGED screen
    /\ \/ screen = "slots" /\ SlotsScreen
       \/ screen = "swarm" /\ SwarmNext
       \/ screen = "sessions" /\ SessionsNext
       \/ screen = "start" /\ CheckNext
       \/ screen = "settings" /\ SettingsNext

TuiSpec == TuiInit /\ [][TuiNext]_tuiVars

\* Started threads run on; pipelines, swarms and the session check end.
TuiFairness ==
    /\ \A r \in Runs : WF_tuiVars(r \in DOMAIN run /\ RunThread(r) /\ UNCHANGED notSlots)
    /\ \A k \in Swarms : WF_tuiVars(SwarmThread(k) /\ UNCHANGED notSwarm)
    /\ WF_tuiVars(screen = "start" /\ CheckAnswers /\ UNCHANGED notCheck)

FairTuiSpec == TuiSpec /\ TuiFairness

-----------------------------------------------------------------------------
\* An answered dialog acts on what it asked about: a confirmed cancel sets no
\* event but that of the run it named and frees no slot but that run's, and a
\* confirmed deletion passes on the name in the dialog, whatever runs ended and
\* started in the slot, and whatever rows were loaded, while it was open.
ConfirmedAsAsked ==
    [][Len(modals') < Len(modals) /\ open' =>
           LET m == modals[1]
           IN  /\ m.asks = "cancel" =>
                      /\ stopped' \ stopped \subseteq {m.run}
                      /\ \A s \in Slots : worker'[s] # worker[s] => worker[s] = m.run
               /\ m.asks = "delete" =>
                      \A i \in DOMAIN deletes' \ DOMAIN deletes : deletes'[i] = m.name]_tuiVars

\* What was started is given back, unless the application is left before: a
\* slot stops being held by its run, a swarm stops being watched, and the
\* session check has a verdict of the validation.
EverythingComesBack ==
    /\ \A s \in Slots : []<>(worker[s] = NoRun \/ ~open)
    /\ []<>(shown = NoSwarm)
    /\ <>(screen = "start" => verdict \in {"VALID", "EXPIRED", "N/A"})

\* A restart finds the value the session ran with, without the quotes it may
\* have been typed with, unless the shell exports another: what the interface
\* accepts and what it reverts the override file gives back.
RestartAgrees ==
    [][Restart /\ setting.exported = Unset => setting'.env = Parsed(setting.env)]_tuiVars
=============================================================================
