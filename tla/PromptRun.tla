----------------------------- MODULE PromptRun -----------------------------
(***************************************************************************)
(* Prompt runs and the cancels aimed at them.  A run is one call of the    *)
(* direct, file or attachment adapter on its own thread: it opens a        *)
(* browser context, brings the chat page up, uploads the attachment,       *)
(* dispatches the prompt (a bounded number of times), waits for the answer *)
(* and saves it.  RunCancelRegistry maps cancel events to the runs in      *)
(* flight; a canceller looks its event up, sets it and closes the run's    *)
(* browser context, one lock at a time.                                    *)
(***************************************************************************)
EXTENDS LifecycleGate, FiniteSets

CONSTANTS
    Runs,           \* calls of the adapters
    Tokens,         \* cancel events (threading.Event)
    Cancellers,     \* calls of cancel_by_event
    NoRun,          \* no run: the index has no entry
    Plans           \* the situations considered; a behaviour is one of them:
                    \*   kind[r]   the adapter run r calls, or "none"
                    \*   token[r]  the cancel event run r is given
                    \*   attempts  MAX_ATTEMPTS of the dispatch loop
                    \*   budget    the dispatch retry budget for stalls
                    \*   faults    the session may expire, and writing the response or
                    \*             its sidecar may fail

ASSUME PromptRunAssumption ==
    /\ NoRun \notin Runs
    /\ Plans \subseteq [kind : [Runs -> {"direct", "file", "attachment", "none"}],
                        token : [Runs -> Tokens], attempts : Nat \ {0},
                        budget : Nat, faults : BOOLEAN]

VARIABLES
    plan,       \* the situation this behaviour is of
    pc,         \* pc[r]: where the thread of run r stands
    completed,  \* completed[r]: the events the run's gate has accepted
    attempt,    \* attempt[r]: the dispatch loop's attempt number
    stalls,     \* stalls[r]: stall retries used
    err,        \* err[r]: the exception in flight, or the last one
    open,       \* open[r]: the run's browser context works
    file,       \* file[r]: what the output file holds
    verdict,    \* verdict[r]: extraction_verdict of the response
    said,       \* said[r]: what the response says of the partial text
    event,      \* event[t]: the cancel event is set
    states,     \* the runs the registry tracks
    index,      \* index[t]: the run registered last with cancel event t
    active,     \* active[r]: run_state.active_bctx is not None
    stage,      \* stage[c]: where canceller c stands
    target,     \* target[c]: the run id canceller c has resolved
    holds,      \* holds[c]: c has read a browser context to close
    reply       \* reply[c]: the answer of cancel_by_event

work == <<completed, attempt, stalls>>
outcome == <<file, verdict, said>>
registry == <<states, index, active>>
cancels == <<stage, target, holds, reply>>
vars == <<plan, pc, work, err, open, outcome, event, registry, cancels>>

Cancellable(r) == plan.kind[r] # "direct"    \* a direct prompt registers nothing
Cancelled(r) == Cancellable(r) /\ event[plan.token[r]]
Sequence(r) == IF plan.kind[r] = "attachment" THEN PIPELINE_EVENT_SEQUENCE ELSE STANDARD_PROMPT_EVENTS
Expiry == IF plan.faults THEN {<<>>, <<"SESSION_EXPIRED">>} ELSE {<<>>}
Emitted(r, e) == e \in ToSet(completed[r])

Dispatching == {"dispatch", "inject", "send", "ack", "enter", "wait", "raised", "sleep"}
OnPage == {"check", "load", "login", "model", "upload", "parse", "failing", "cut"} \cup Dispatching
Labels == {"new", "preflight", "launch", "attach", "clear", "close", "save", "release", "ended"} \cup OnPage

TypeOK ==
    /\ plan \in Plans
    /\ pc \in [Runs -> Labels]
    /\ completed \in [Runs -> Seq(Events)]
    /\ attempt \in [Runs -> 0 .. plan.attempts]
    /\ stalls \in [Runs -> 0 .. plan.attempts]
    /\ err \in [Runs -> {"none", "cancelled", "stuck", "timeout", "rate", "failed", "gate"}]
    /\ open \in [Runs -> BOOLEAN]
    /\ file \in [Runs -> {"none", "partial", "full"}]
    /\ verdict \in [Runs -> {"none", "complete", "stalled", "incomplete"}]
    /\ said \in [Runs -> {"nothing", "saved", "unwritten"}]
    /\ event \in [Tokens -> BOOLEAN]
    /\ states \subseteq Runs
    /\ index \in [Tokens -> Runs \cup {NoRun}]
    /\ active \in [Runs -> BOOLEAN]
    /\ stage \in [Cancellers -> {"idle", "found", "confirmed", "set", "read", "answered"}]
    /\ target \in [Cancellers -> Runs \cup {NoRun}]
    /\ holds \in [Cancellers -> BOOLEAN]
    /\ reply \in [Cancellers -> {"none", "nothing", "stopped"}]

Init ==
    /\ plan \in Plans
    /\ pc = [r \in Runs |-> "new"]
    /\ completed = [r \in Runs |-> <<>>]
    /\ attempt = [r \in Runs |-> 0]
    /\ stalls = [r \in Runs |-> 0]
    /\ err = [r \in Runs |-> "none"]
    /\ open = [r \in Runs |-> FALSE]
    /\ file = [r \in Runs |-> "none"]
    /\ verdict = [r \in Runs |-> "none"]
    /\ said = [r \in Runs |-> "nothing"]
    /\ event = [t \in Tokens |-> FALSE]
    /\ states = {}
    /\ index = [t \in Tokens |-> NoRun]
    /\ active = [r \in Runs |-> FALSE]
    /\ stage = [c \in Cancellers |-> "idle"]
    /\ target = [c \in Cancellers |-> NoRun]
    /\ holds = [c \in Cancellers |-> FALSE]
    /\ reply = [c \in Cancellers |-> "none"]

-----------------------------------------------------------------------------
Go(r, from, to) == pc[r] = from /\ pc' = [pc EXCEPT ![r] = to]
Raise(r, e) == err' = [err EXCEPT ![r] = e]

\* emit(e): the run goes on at label to, or the gate raises RuntimeError and
\* the run goes to label otherwise.
Emit(r, e, to, otherwise) ==
    IF Accepts(Sequence(r), completed[r], e)
    THEN /\ completed' = [completed EXCEPT ![r] = Append(@, e)]
         /\ pc' = [pc EXCEPT ![r] = to]
         /\ UNCHANGED err
    ELSE /\ pc' = [pc EXCEPT ![r] = otherwise]
         /\ Raise(r, "gate")
         /\ UNCHANGED completed

-----------------------------------------------------------------------------
\* The adapter, up to the page.

\* A worker gives one cancel event to its runs one after the other.
Register(r) ==
    /\ plan.kind[r] # "none"
    /\ \A s \in Runs : plan.token[s] = plan.token[r] => pc[s] \in {"new", "ended"}
    /\ Go(r, "new", "preflight")
    /\ IF Cancellable(r)
       THEN /\ states' = states \cup {r}
            /\ index' = [index EXCEPT ![plan.token[r]] = r]
       ELSE UNCHANGED <<states, index>>
    /\ UNCHANGED <<plan, work, err, open, outcome, event, active, cancels>>

\* The prompt file or the attachment is refused, or no browser starts.
NotStarted(r) ==
    /\ pc[r] \in {"preflight", "launch"}
    /\ pc' = [pc EXCEPT ![r] = "release"]
    /\ Raise(r, "failed")
    /\ UNCHANGED <<work, open, outcome, event, registry, cancels>>

Preflight(r) ==
    /\ Go(r, "preflight", "launch")
    /\ UNCHANGED <<work, err, open, outcome, event, registry, cancels>>

\* browser_session yields its context.
Launch(r) ==
    /\ Go(r, "launch", IF Cancellable(r) THEN "attach" ELSE "load")
    /\ open' = [open EXCEPT ![r] = TRUE]
    /\ UNCHANGED <<work, err, outcome, event, registry, cancels>>

SetActiveContext(r) ==
    /\ Go(r, "attach", "check")
    /\ active' = [active EXCEPT ![r] = r \in states]
    /\ UNCHANGED <<work, err, open, outcome, event, states, index, cancels>>

CheckLaunch(r) ==
    /\ pc[r] = "check"
    /\ IF Cancelled(r)
       THEN Raise(r, "cancelled") /\ pc' = [pc EXCEPT ![r] = "clear"]
       ELSE UNCHANGED err /\ pc' = [pc EXCEPT ![r] = "load"]
    /\ UNCHANGED <<work, open, outcome, event, registry, cancels>>

\* navigate_to_chat and upload_attachment: one event each, on a live page.
Page(r, from, e, to) ==
    /\ pc[r] = from /\ open[r]
    /\ Emit(r, e, to, "clear")
    /\ UNCHANGED <<attempt, stalls, open, outcome, event, registry, cancels>>

LoadWeb(r) == Page(r, "load", "WEB_LOADED", "login")
VerifyLogin(r) == Page(r, "login", "LOGIN_VERIFIED", "model")
VerifyModel(r) ==
    Page(r, "model", "MODEL_VERIFIED", IF plan.kind[r] = "attachment" THEN "upload" ELSE "dispatch")
UploadFile(r) == Page(r, "upload", "FILE_UPLOADED", "parse")
ParseDocument(r) == Page(r, "parse", "DOCUMENT_PARSED", "dispatch")

\* Any of these steps raises; an expiry banner is announced before the login.
PageFails(r) ==
    /\ pc[r] \in {"load", "login", "model", "upload", "parse"}
    /\ pc' = [pc EXCEPT ![r] = "clear"]
    /\ Raise(r, "failed")
    /\ \E es \in IF pc[r] = "login" /\ open[r] THEN Expiry ELSE {<<>>} :
           completed' = [completed EXCEPT ![r] = @ \o es]
    /\ UNCHANGED <<attempt, stalls, open, outcome, event, registry, cancels>>

-----------------------------------------------------------------------------
\* PromptFlowDispatcher.

\* dispatch_and_wait_for_response looks at the cancel event once, at its start.
StartDispatch(r) ==
    /\ pc[r] = "dispatch"
    /\ IF Cancelled(r)
       THEN /\ Raise(r, "cancelled")
            /\ pc' = [pc EXCEPT ![r] = "failing"]
            /\ UNCHANGED attempt
       ELSE /\ attempt' = [attempt EXCEPT ![r] = 1]
            /\ pc' = [pc EXCEPT ![r] = "inject"]
            /\ UNCHANGED err
    /\ UNCHANGED <<completed, stalls, open, outcome, event, registry, cancels>>

Attempt(r, from, e, to) ==
    /\ pc[r] = from /\ open[r]
    /\ Emit(r, e, to, "failing")
    /\ UNCHANGED <<attempt, stalls, open, outcome, event, registry, cancels>>

Inject(r) == Attempt(r, "inject", "PROMPT_INJECTED", "send")
ClickSend(r) == Attempt(r, "send", "SEND_CLICKED", "ack")
Acknowledge(r) == \E from \in {"ack", "enter"} : Attempt(r, from, "DISPATCH_ACKNOWLEDGED", "wait")

\* No new user turn within the click timeout and no parse toast: press Enter.
PressEnter(r) ==
    /\ Go(r, "ack", "enter")
    /\ UNCHANGED <<work, err, open, outcome, event, registry, cancels>>

\* No input element, no send control, the dispatch deadline (a parse toast
\* after an acknowledgment wait is past it), or an error of the browser.
DispatchFails(r) ==
    /\ pc[r] \in {"inject", "send", "ack", "enter"}
    /\ pc' = [pc EXCEPT ![r] = "failing"]
    /\ Raise(r, "failed")
    /\ UNCHANGED <<work, open, outcome, event, registry, cancels>>

\* wait_for_response: every poll starts by looking at the cancel event.
Poll(r) == pc[r] = "wait" /\ ~Cancelled(r) /\ open[r]

Progress(r, e, to) ==
    /\ Poll(r)
    /\ Emit(r, e, to, "raised")
    /\ UNCHANGED <<attempt, stalls, open, outcome, event, registry, cancels>>

Think(r) == ~Emitted(r, "THINKING_STARTED") /\ Progress(r, "THINKING_STARTED", "wait")
Stream(r) ==
    /\ Emitted(r, "THINKING_STARTED") /\ ~Emitted(r, "STREAMING_GENERATION")
    /\ Progress(r, "STREAMING_GENERATION", "wait")
Finish(r) == Emitted(r, "STREAMING_GENERATION") /\ Progress(r, "GENERATION_FINISHED", "clear")

\* The stall detector, the response ceiling, a response refused by
\* validate_response_content, or any other error of the page.
MonitorRaises(r) ==
    /\ pc[r] = "wait" /\ ~Cancelled(r)
    /\ \E e \in {"stuck", "timeout", "failed"} \cup
                (IF Emitted(r, "STREAMING_GENERATION") THEN {"rate"} ELSE {}) : Raise(r, e)
    /\ pc' = [pc EXCEPT ![r] = "raised"]
    /\ UNCHANGED <<work, open, outcome, event, registry, cancels>>

\* The cancel event is set: before a poll, or by the time an error is handled.
SeeCancel(r) ==
    /\ pc[r] \in {"wait", "raised"} /\ Cancelled(r)
    /\ Raise(r, "cancelled")
    /\ pc' = [pc EXCEPT ![r] = "failing"]
    /\ UNCHANGED <<work, open, outcome, event, registry, cancels>>

Retryable(r) ==
    \/ err[r] = "stuck" /\ stalls[r] < plan.budget
    \/ err[r] \in {"rate", "timeout"} /\ attempt[r] < plan.attempts

GiveUp(r) ==
    /\ ~Cancelled(r) /\ ~Retryable(r)
    /\ Go(r, "raised", "failing")
    /\ UNCHANGED <<work, err, open, outcome, event, registry, cancels>>

\* The gate is rolled back and the thread sleeps until the delay or the cancel.
Retry(r) ==
    /\ ~Cancelled(r) /\ Retryable(r)
    /\ Go(r, "raised", "sleep")
    /\ stalls' = [stalls EXCEPT ![r] = IF err[r] = "stuck" THEN @ + 1 ELSE @]
    /\ completed' = [completed EXCEPT ![r] = RolledBack(Sequence(r), @)]
    /\ UNCHANGED <<attempt, err, open, outcome, event, registry, cancels>>

\* Mutant: attempts after the first are not counted.
WakeUncounted(r) ==
    /\ Go(r, "sleep", "inject")
    /\ Raise(r, "none")
    /\ UNCHANGED <<work, open, outcome, event, registry, cancels>>

\* The next attempt; after the last one (a stall within the budget gets here)
\* the loop ends and the last error is raised, or the cancel.
Wake(r) ==
    /\ pc[r] = "sleep"
    /\ IF attempt[r] < plan.attempts
       THEN /\ attempt' = [attempt EXCEPT ![r] = @ + 1]
            /\ pc' = [pc EXCEPT ![r] = "inject"]
            /\ Raise(r, "none")
       ELSE /\ pc' = [pc EXCEPT ![r] = "failing"]
            /\ Raise(r, IF Cancelled(r) THEN "cancelled" ELSE err[r])
            /\ UNCHANGED attempt
    /\ UNCHANGED <<completed, stalls, open, outcome, event, registry, cancels>>

-----------------------------------------------------------------------------
\* The adapter, from the outcome of the dispatch to the response.

\* Mutant: the handler of a cut catches a cancel too.
FailsIntoCut(r) ==
    /\ pc[r] = "failing"
    /\ pc' = [pc EXCEPT ![r] = IF err[r] \in {"stuck", "timeout", "cancelled"} THEN "cut" ELSE "clear"]
    /\ \E es \in Expiry : completed' = [completed EXCEPT ![r] = @ \o es]
    /\ UNCHANGED <<attempt, stalls, err, open, outcome, event, registry, cancels>>

\* detect_session_expired on the way out; then the handler of the error.
Fails(r) ==
    /\ pc[r] = "failing"
    /\ pc' = [pc EXCEPT ![r] = IF err[r] \in {"stuck", "timeout"} THEN "cut" ELSE "clear"]
    /\ \E es \in Expiry : completed' = [completed EXCEPT ![r] = @ \o es]
    /\ UNCHANGED <<attempt, stalls, err, open, outcome, event, registry, cancels>>

\* mid_stream_cut_outcome.
Cut(r) ==
    /\ Go(r, "cut", "clear")
    /\ verdict' = [verdict EXCEPT ![r] = IF err[r] = "stuck" THEN "stalled" ELSE "incomplete"]
    /\ UNCHANGED <<attempt, stalls, err, open, event, registry, cancels>>

CutWithoutText(r) == Cut(r) /\ UNCHANGED <<completed, file, said>>

\* The partial text is written; then OUTPUT_COPIED goes through the gate.
CutSaves(r) ==
    /\ Cut(r)
    /\ file' = [file EXCEPT ![r] = "partial"]
    /\ IF Accepts(Sequence(r), completed[r], "OUTPUT_COPIED")
       THEN /\ completed' = [completed EXCEPT ![r] = Append(@, "OUTPUT_COPIED")]
            /\ said' = [said EXCEPT ![r] = "saved"]
       ELSE /\ said' = [said EXCEPT ![r] = "unwritten"]
            /\ UNCHANGED completed

\* The response file or its sidecar cannot be written.
CutSaveFails(r) ==
    /\ plan.faults
    /\ Cut(r)
    /\ \E f \in {"none", "partial"} : file' = [file EXCEPT ![r] = f]
    /\ said' = [said EXCEPT ![r] = "unwritten"]
    /\ UNCHANGED completed

\* set_active_bctx(None), in a finally clause.
ClearContext(r) ==
    /\ Go(r, "clear", "close")
    /\ active' = [active EXCEPT ![r] = FALSE]
    /\ UNCHANGED <<work, err, open, outcome, event, states, index, cancels>>

\* browser_session closes its context; its errors are logged.
CloseSession(r) ==
    /\ Go(r, "close", IF err[r] = "none" THEN "save" ELSE "release")
    /\ open' = [open EXCEPT ![r] = FALSE]
    /\ UNCHANGED <<work, err, outcome, event, registry, cancels>>

\* save_orchestrator_output: the terminal event comes after the file.
Save(r) ==
    /\ pc[r] = "save"
    /\ file' = [file EXCEPT ![r] = "full"]
    /\ Emit(r, "OUTPUT_COPIED", "release", "release")
    /\ verdict' = [verdict EXCEPT ![r] = IF err'[r] = "none" THEN "complete" ELSE @]
    /\ UNCHANGED <<attempt, stalls, open, said, event, registry, cancels>>

SaveFails(r) ==
    /\ plan.faults
    /\ Go(r, "save", "release")
    /\ \E f \in {"none", "full"} : file' = [file EXCEPT ![r] = f]
    /\ Raise(r, "failed")
    /\ UNCHANGED <<work, open, verdict, said, event, registry, cancels>>

\* The call returns: its gate and its counters are gone.
Return(r) ==
    /\ Go(r, "release", "ended")
    /\ completed' = [completed EXCEPT ![r] = <<>>]
    /\ attempt' = [attempt EXCEPT ![r] = 0]
    /\ stalls' = [stalls EXCEPT ![r] = 0]
    /\ UNCHANGED <<err, open, outcome, event, active, cancels>>

\* Mutant: the index keeps the finished run.
ReleaseState(r) == Return(r) /\ states' = states \ {r} /\ UNCHANGED index

\* The index entry goes only if it is still this run's.
Release(r) ==
    /\ Return(r)
    /\ states' = states \ {r}
    /\ index' = [t \in Tokens |-> IF t = plan.token[r] /\ index[t] = r THEN NoRun ELSE index[t]]

-----------------------------------------------------------------------------
\* RunCancelRegistry.cancel_by_event and cancel_run: one lock at a time.
Steps(c, from, to) == stage[c] = from /\ stage' = [stage EXCEPT ![c] = to]
Answer(c, from, a) == Steps(c, from, "answered") /\ reply' = [reply EXCEPT ![c] = a]

ResolveEvent(c) ==
    \E t \in Tokens :
        /\ IF index[t] = NoRun
           THEN Answer(c, "idle", "nothing")
           ELSE Steps(c, "idle", "found") /\ UNCHANGED reply
        /\ target' = [target EXCEPT ![c] = index[t]]
        /\ UNCHANGED <<pc, work, err, open, outcome, event, registry, holds>>

FindState(c) ==
    /\ IF target[c] \in states
       THEN Steps(c, "found", "confirmed") /\ UNCHANGED reply
       ELSE Answer(c, "found", "nothing")
    /\ UNCHANGED <<pc, work, err, open, outcome, event, registry, target, holds>>

\* Mutant: only a run whose context is attached gets its event set.
SetEventAttached(c) ==
    /\ Steps(c, "confirmed", "set")
    /\ event' = [event EXCEPT ![plan.token[target[c]]] = @ \/ active[target[c]]]
    /\ UNCHANGED <<pc, work, err, open, outcome, registry, target, holds, reply>>

SetEvent(c) ==
    /\ Steps(c, "confirmed", "set")
    /\ event' = [event EXCEPT ![plan.token[target[c]]] = TRUE]
    /\ UNCHANGED <<pc, work, err, open, outcome, registry, target, holds, reply>>

ReadContext(c) ==
    /\ Steps(c, "set", "read")
    /\ holds' = [holds EXCEPT ![c] = target[c] \in states /\ active[target[c]]]
    /\ UNCHANGED <<pc, work, err, open, outcome, event, registry, target, reply>>

\* close() from this thread may raise, which is suppressed: the context lives on.
CloseContext(c) ==
    /\ Answer(c, "read", "stopped")
    /\ \E closed \in IF holds[c] THEN BOOLEAN ELSE {FALSE} :
           open' = IF closed THEN [open EXCEPT ![target[c]] = FALSE] ELSE open
    /\ UNCHANGED <<pc, work, err, outcome, event, registry, target, holds>>

-----------------------------------------------------------------------------
Prepare(r) == NotStarted(r) \/ Preflight(r) \/ Launch(r) \/ SetActiveContext(r) \/ CheckLaunch(r)
Open(r) == LoadWeb(r) \/ VerifyLogin(r) \/ VerifyModel(r) \/ UploadFile(r) \/ ParseDocument(r) \/ PageFails(r)
Dispatch(r) ==
    \/ StartDispatch(r) \/ Inject(r) \/ ClickSend(r) \/ Acknowledge(r) \/ PressEnter(r)
    \/ DispatchFails(r) \/ Think(r) \/ Stream(r) \/ Finish(r) \/ MonitorRaises(r)
    \/ SeeCancel(r) \/ GiveUp(r) \/ Retry(r) \/ Wake(r)
Conclude(r) ==
    \/ Fails(r) \/ CutWithoutText(r) \/ CutSaves(r) \/ CutSaveFails(r) \/ ClearContext(r)
    \/ CloseSession(r) \/ Save(r) \/ SaveFails(r) \/ Release(r)
Proceed(r) == UNCHANGED plan /\ (Prepare(r) \/ Open(r) \/ Dispatch(r) \/ Conclude(r))
CancelStep(c) ==
    /\ UNCHANGED plan
    /\ ResolveEvent(c) \/ FindState(c) \/ SetEvent(c) \/ ReadContext(c) \/ CloseContext(c)

Next ==
    \/ \E r \in Runs : Register(r) \/ Proceed(r)
    \/ \E c \in Cancellers : CancelStep(c)

Spec == Init /\ [][Next]_vars

\* A run's thread goes on: each of its waits has a timeout of its own.
FairSpec == Spec /\ \A r \in Runs : WF_vars(Proceed(r))

-----------------------------------------------------------------------------
\* The gate's record is the events the run's sequence starts with, whatever
\* was retried, but for an expiry at its end; and no event the pipeline emits
\* while it works is refused (LifecycleGate.reset in the dispatch loop).
Milestones(r) == IF Emitted(r, "SESSION_EXPIRED") THEN SubSeq(completed[r], 1, Len(completed[r]) - 1) ELSE completed[r]
GateOrder ==
    \A r \in Runs :
        /\ IsPrefix(Milestones(r), Sequence(r))
        /\ err[r] # "gate"

\* The verdict agrees with the file, the events and the retries: "complete" has
\* the whole answer and every event; a cut one never has the whole answer or its
\* terminal event, and comes only when what the configuration grants is spent (a
\* stall when the stall budget or the attempts are, a ceiling when the attempts
\* are); a cancelled run has written nothing.
VerdictHonest ==
    \A r \in Runs :
        /\ verdict[r] = "complete" => file[r] = "full" /\ (pc[r] = "release" => completed[r] = Sequence(r))
        /\ verdict[r] \in {"stalled", "incomplete"} =>
               file[r] # "full" /\ ~Emitted(r, "GENERATION_FINISHED")
        /\ err[r] = "cancelled" => file[r] = "none" /\ verdict[r] = "none"
        /\ pc[r] # "ended" =>
               /\ stalls[r] <= plan.budget
               /\ verdict[r] = "stalled" => stalls[r] = plan.budget \/ attempt[r] = plan.attempts
               /\ verdict[r] = "incomplete" => attempt[r] = plan.attempts

\* The registry finds a cancellable run from its registration to its release
\* by the event it was given, and no other run by it.
RegistryExact ==
    /\ states = {r \in Runs : Cancellable(r) /\ pc[r] \notin {"new", "ended"}}
    /\ \A r \in states : index[plan.token[r]] = r
    /\ \A t \in Tokens : index[t] # NoRun => index[t] \in states
    /\ \A r \in Runs : active[r] => pc[r] \in OnPage \cup {"clear"}

\* A run at work on its page loses its browser context only after its own
\* cancel event was set, and a cancel answered True has set the event of the
\* run it resolved (cancel_run sets the event before it closes).
CancelReachesItsRun ==
    /\ \A r \in Runs : pc[r] \in OnPage /\ ~open[r] => Cancelled(r)
    /\ \A c \in Cancellers : reply[c] = "stopped" => event[plan.token[target[c]]]

\* Every run that was started is released with an answer, whatever the page,
\* the retries and the cancels do.
EveryRunEnds == \A r \in Runs : pc[r] = "preflight" ~> pc[r] = "ended"

=============================================================================
