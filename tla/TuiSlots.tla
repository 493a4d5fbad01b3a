------------------------------ MODULE TuiSlots ------------------------------
(***************************************************************************)
(* The worker slots of the terminal interface.  Handlers run one at a time *)
(* on the interface's own thread, so each is one action; a run has a       *)
(* worker thread, which reads the slot's generation and cancel event some  *)
(* time after it was started, waits for the interface whenever it writes   *)
(* to it, and hands its result to _finalize_slot.                          *)
(***************************************************************************)
EXTENDS Naturals, Sequences

CONSTANTS
    Slots,      \* the worker slots
    MaxRuns     \* runs started in a behaviour

ASSUME TuiSlotsAssumption == Slots # {} /\ MaxRuns \in Nat \ {0}

Runs == 1 .. MaxRuns
NoRun == 0
Kinds == {"file", "document", "direct", "picked"}

VARIABLES
    started,     \* runs started so far: the last one's number
    run,         \* slot and kind of each started run, what its thread has read
    at,          \* where a run's thread is
    aged,        \* runs of more than thirty seconds
    stopped,     \* runs whose cancel event is set
    worker,      \* _slot_workers
    generation,  \* _slot_generation
    token,       \* _slot_cancel_events: the run the slot's event was made for
    badge,       \* the slot's status
    index,       \* the cancel registry: the run at work under a run's event
    modals,      \* open confirmations, the latest first
    open         \* the application runs

threads == <<run, at, aged>>
slots == <<worker, generation, token, badge>>
dialogs == <<modals, open>>
slotVars == <<started, threads, stopped, index, slots, dialogs>>

SlotInit ==
    /\ started = 0
    /\ run = [r \in {} |-> {}]
    /\ at = [r \in Runs |-> "none"]
    /\ aged = {} /\ stopped = {}
    /\ worker = [s \in Slots |-> NoRun]
    /\ generation = [s \in Slots |-> 0]
    /\ token = [s \in Slots |-> NoRun]
    /\ badge = [s \in Slots |-> "IDLE"]
    /\ index = [r \in Runs |-> NoRun]
    /\ modals = <<>>
    /\ open = TRUE

SlotTypes ==
    /\ started \in 0 .. MaxRuns
    /\ DOMAIN run = 1 .. started
    /\ \A r \in DOMAIN run :
           run[r] \in [slot : Slots, kind : Kinds, generation : 0 .. MaxRuns, token : 0 .. MaxRuns]
    /\ at \in [Runs -> {"none", "new", "half", "ready", "working", "returned", "over"}]
    /\ aged \subseteq DOMAIN run /\ stopped \subseteq DOMAIN run
    /\ worker \in [Slots -> 0 .. MaxRuns] /\ token \in [Slots -> 0 .. MaxRuns]
    /\ generation \in [Slots -> 0 .. MaxRuns]
    /\ badge \in [Slots -> {"IDLE", "RUNNING", "CANCELLED", "SUCCESS", "FAILED"}]
    /\ index \in [Runs -> 0 .. MaxRuns]
    /\ open \in BOOLEAN

-----------------------------------------------------------------------------
\* What a slot holds when the user runs it: the composer's text and the two
\* pickers' files, of which each forgets the other's.
Inputs == [text : {"empty", "task", "path"}, attached : {"none", "there", "gone"},
           picked : {"none", "there", "gone"}]
Held == {in \in Inputs : in.attached = "none" \/ in.picked = "none"}

\* _dispatch_prompt_file_composer_slot: a picked file runs alone.
PickedRuns(in) == in.picked = "there" /\ in.attached = "none" /\ in.text = "empty"

\* The kind of run a slot's Run button or key starts; "none" for a refusal.
RunKind(in) ==
    IF in.picked # "none" THEN IF PickedRuns(in) THEN "picked" ELSE "none"
    ELSE IF in.attached # "none" THEN IF in.text # "empty" THEN "document" ELSE "none"
    ELSE IF in.text = "path" THEN "file" ELSE "none"

\* The kind of run the Send button or Enter in the composer starts.
SendKind(in) ==
    IF in.text = "empty" /\ in.picked = "none" THEN "none"
    ELSE IF in.picked # "none" THEN IF PickedRuns(in) THEN "picked" ELSE "none"
    ELSE CASE in.attached = "none" -> "direct"
           [] in.attached = "there" -> "document"
           [] in.attached = "gone" -> "none"

\* A slot with a worker refuses; so does a document run whose prompt cannot be
\* written to its temporary file.
BeginRun(s, kind) ==
    /\ open /\ worker[s] = NoRun /\ started < MaxRuns
    /\ kind # "none"
    /\ started' = started + 1
    /\ run' = [r \in 1 .. started + 1 |->
                   IF r = started + 1
                   THEN [slot |-> s, kind |-> kind, generation |-> 0, token |-> NoRun]
                   ELSE run[r]]
    /\ at' = [at EXCEPT ![started + 1] = "new"]
    /\ token' = [token EXCEPT ![s] = started + 1]
    /\ worker' = [worker EXCEPT ![s] = started + 1]
    /\ badge' = [badge EXCEPT ![s] = "RUNNING"]
    /\ UNCHANGED <<aged, stopped, index, generation, dialogs>>

RunSlot(s) == \E in \in Held : BeginRun(s, RunKind(in))
SendComposer(s) == \E in \in Held : BeginRun(s, SendKind(in))

-----------------------------------------------------------------------------
\* The worker threads.

Thread(r, from, to) == at[r] = from /\ at' = [at EXCEPT ![r] = to]

\* A run from a prompt file takes its event, logs its start, and then reads the
\* generation; the other kinds read the generation first, and direct runs have
\* no event.
ReadsToken(r) == run' = [run EXCEPT ![r].token = token[run[r].slot]]
ReadsGeneration(r) == run' = [run EXCEPT ![r].generation = generation[run[r].slot]]

FirstRead(r) ==
    /\ open
    /\ Thread(r, "new", "half")
    /\ IF run[r].kind = "file" THEN ReadsToken(r) ELSE ReadsGeneration(r)
    /\ UNCHANGED <<started, aged, stopped, index, slots, dialogs>>

SecondRead(r) ==
    /\ open
    /\ Thread(r, "half", "ready")
    /\ CASE run[r].kind = "file" -> ReadsGeneration(r)
         [] run[r].kind = "direct" -> UNCHANGED run
         [] OTHER -> ReadsToken(r)
    /\ UNCHANGED <<started, aged, stopped, index, slots, dialogs>>

\* The pipeline is entered, and its adapter registers the event; it makes one
\* of its own for a run that was given none.
Execute(r) ==
    /\ Thread(r, "ready", "working")
    /\ index' = IF run[r].token = NoRun THEN index ELSE [index EXCEPT ![run[r].token] = r]
    /\ UNCHANGED <<started, run, aged, stopped, slots, dialogs>>

\* The adapter releases the run and its response, or an error, comes back.
Return(r) ==
    /\ Thread(r, "working", "returned")
    /\ index' = [k \in Runs |-> IF index[k] = r THEN NoRun ELSE index[k]]
    /\ UNCHANGED <<started, run, aged, stopped, slots, dialogs>>

Age(r) ==
    /\ worker[run[r].slot] = r /\ r \notin aged
    /\ aged' = aged \cup {r}
    /\ UNCHANGED <<started, run, at, stopped, index, slots, dialogs>>

\* Mutant: a result is matched by the event its run was given, and direct runs
\* are given none.
CurrentByToken(r) == run[r].token = token[run[r].slot]

\* The generation guard of _finalize_slot.
Current(r) == run[r].generation = generation[run[r].slot]

Finalize(r) ==
    /\ open
    /\ Thread(r, "returned", "over")
    /\ LET s == run[r].slot
       IN  IF Current(r)
           THEN /\ worker' = [worker EXCEPT ![s] = NoRun]
                /\ token' = [token EXCEPT ![s] = NoRun]
                /\ \E status \in {"SUCCESS", "FAILED"} : badge' = [badge EXCEPT ![s] = status]
           ELSE UNCHANGED <<worker, token, badge>>
    /\ UNCHANGED <<started, run, aged, stopped, index, generation, dialogs>>

-----------------------------------------------------------------------------
\* Cancelling a slot.

\* request_cancel sets the slot's event when a run at work was given it.
Reached(s) == {k \in {token[s]} \ {NoRun} : index[k] # NoRun}

\* _do_cancel_slot for every slot of S that has a worker.  worker.cancel()
\* prevents a thread only that has not started yet.
DoCancel(S) ==
    LET hit == {s \in S : worker[s] # NoRun}
    IN  /\ generation' = [s \in Slots |-> IF s \in hit THEN generation[s] + 1 ELSE generation[s]]
        /\ stopped' = stopped \cup UNION {Reached(s) : s \in hit}
        /\ worker' = [s \in Slots |-> IF s \in hit THEN NoRun ELSE worker[s]]
        /\ token' = [s \in Slots |-> IF s \in hit THEN NoRun ELSE token[s]]
        /\ badge' = [s \in Slots |-> IF s \in hit THEN "CANCELLED" ELSE badge[s]]
        /\ \E never \in SUBSET {worker[s] : s \in hit} :
               /\ \A r \in never : at[r] = "new"
               /\ at' = [r \in Runs |-> IF r \in never THEN "over" ELSE at[r]]

Push(m) == modals' = <<m>> \o modals

\* A run of more than thirty seconds is cancelled after a confirmation only.
CancelSlot(s) ==
    /\ open /\ worker[s] # NoRun
    /\ IF worker[s] \in aged
       THEN /\ Push([asks |-> "cancel", slot |-> s, run |-> worker[s]])
            /\ UNCHANGED <<at, stopped, slots>>
       ELSE DoCancel({s}) /\ UNCHANGED modals
    /\ UNCHANGED <<started, run, aged, index, open>>

\* The slot still belongs to the worker the confirmation was opened for.
StillMeant(m) == worker[m.slot] = m.run

Top(asks) == Len(modals) > 0 /\ modals[1].asks = asks
Close == modals' = Tail(modals)

ConfirmCancel ==
    /\ open /\ Top("cancel") /\ Close
    /\ IF StillMeant(modals[1])
       THEN DoCancel({modals[1].slot})
       ELSE UNCHANGED <<at, stopped, slots>>
    /\ UNCHANGED <<started, run, aged, index, open>>

-----------------------------------------------------------------------------
\* Quitting: at once (two presses of Escape) when no slot is at work, else
\* after a confirmation for the slots that are.
AtWork == {s \in Slots : worker[s] # NoRun}

RequestQuit ==
    /\ open
    /\ IF AtWork = {} THEN open' = FALSE /\ UNCHANGED modals
       ELSE Push([asks |-> "quit", slots |-> AtWork]) /\ UNCHANGED open
    /\ UNCHANGED <<started, threads, stopped, index, slots>>

\* _cancel_slot for each slot asks again for the older runs, whose dialogs the
\* exit closes unanswered.
ConfirmQuit ==
    /\ open /\ Top("quit")
    /\ DoCancel({s \in modals[1].slots : worker[s] \notin aged})
    /\ modals' = <<>>
    /\ open' = FALSE
    /\ UNCHANGED <<started, run, aged, index>>

RunThread(r) == FirstRead(r) \/ SecondRead(r) \/ Execute(r) \/ Return(r) \/ Finalize(r)

SlotNext ==
    \/ \E s \in Slots : RunSlot(s) \/ SendComposer(s) \/ CancelSlot(s)
    \/ \E r \in DOMAIN run : RunThread(r) \/ Age(r)
    \/ ConfirmCancel \/ RequestQuit \/ ConfirmQuit
=============================================================================
