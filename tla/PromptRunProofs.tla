-------------------------- MODULE PromptRunProofs --------------------------
(***************************************************************************)
(* Proofs about PromptRun for any runs, cancel events, cancellers and any  *)
(* number of attempts and stall retries.                                   *)
(***************************************************************************)
EXTENDS PromptRun, TLAPS

\* What occurs in the sequences and on the gate.
LEMMA EventNames ==
  /\ ToSet(PIPELINE_EVENT_SEQUENCE) =
        {"WEB_LOADED", "LOGIN_VERIFIED", "MODEL_VERIFIED", "FILE_UPLOADED", "DOCUMENT_PARSED",
         "PROMPT_INJECTED", "SEND_CLICKED", "DISPATCH_ACKNOWLEDGED", "THINKING_STARTED",
         "STREAMING_GENERATION", "GENERATION_FINISHED", "OUTPUT_COPIED"}
  /\ ToSet(STANDARD_PROMPT_EVENTS) =
        {"WEB_LOADED", "LOGIN_VERIFIED", "MODEL_VERIFIED",
         "PROMPT_INJECTED", "SEND_CLICKED", "DISPATCH_ACKNOWLEDGED", "THINKING_STARTED",
         "STREAMING_GENERATION", "GENERATION_FINISHED", "OUTPUT_COPIED"}
  /\ Len(STANDARD_PROMPT_EVENTS) = 10 /\ DOMAIN STANDARD_PROMPT_EVENTS = 1 .. 10
  /\ Len(PIPELINE_EVENT_SEQUENCE) = 12 /\ DOMAIN PIPELINE_EVENT_SEQUENCE = 1 .. 12
<1>1. Len(STANDARD_PROMPT_EVENTS) = 10 /\ DOMAIN STANDARD_PROMPT_EVENTS = 1 .. 10
  BY DEF STANDARD_PROMPT_EVENTS
<1>2. Len(PIPELINE_EVENT_SEQUENCE) = 12 /\ DOMAIN PIPELINE_EVENT_SEQUENCE = 1 .. 12
  BY DEF PIPELINE_EVENT_SEQUENCE
<1> QED
  BY <1>1, <1>2 DEF ToSet, STANDARD_PROMPT_EVENTS, PIPELINE_EVENT_SEQUENCE

\* Both sequences are sequences of events.
LEMMA EventSequences ==
  STANDARD_PROMPT_EVENTS \in Seq(Events) /\ PIPELINE_EVENT_SEQUENCE \in Seq(Events)
<1> DEFINE Names == {"WEB_LOADED", "LOGIN_VERIFIED", "MODEL_VERIFIED", "FILE_UPLOADED", "DOCUMENT_PARSED",
         "PROMPT_INJECTED", "SEND_CLICKED", "DISPATCH_ACKNOWLEDGED", "THINKING_STARTED",
         "STREAMING_GENERATION", "GENERATION_FINISHED", "OUTPUT_COPIED", "SESSION_EXPIRED"}
<1>1. Events = Names
  BY EventNames DEF Events
<1>2. STANDARD_PROMPT_EVENTS \in Seq(Names)
  BY DEF STANDARD_PROMPT_EVENTS
<1>3. PIPELINE_EVENT_SEQUENCE \in Seq(Names)
  BY DEF PIPELINE_EVENT_SEQUENCE
<1> QED
  BY <1>1, <1>2, <1>3

\* Where the attempts of the two sequences begin.
LEMMA Boundaries ==
  /\ AttemptBoundary(STANDARD_PROMPT_EVENTS) = 3
  /\ AttemptBoundary(PIPELINE_EVENT_SEQUENCE) = 5
<1>1. Position(STANDARD_PROMPT_EVENTS, "PROMPT_INJECTED") = 4
  BY EventNames DEF Position, STANDARD_PROMPT_EVENTS
<1>2. Position(PIPELINE_EVENT_SEQUENCE, "DOCUMENT_PARSED") = 5
  BY EventNames DEF Position, PIPELINE_EVENT_SEQUENCE
<1> QED
  BY <1>1, <1>2, EventNames DEF AttemptBoundary

-----------------------------------------------------------------------------
(* Types *)

Errors == {"none", "cancelled", "stuck", "timeout", "rate", "failed", "gate"}
BeforeDispatch == {"new", "preflight", "launch", "attach", "check", "load", "login", "model",
                   "upload", "parse", "dispatch"}
InAttempt == {"inject", "send", "ack", "enter", "wait", "raised"}

\* Of the stall retries at most one belongs to each attempt that is over.
Counted(r) ==
    /\ pc[r] \in BeforeDispatch => stalls[r] = 0
    /\ pc[r] \in InAttempt => stalls[r] < attempt[r]
    /\ pc[r] = "sleep" => stalls[r] <= attempt[r]

CountInv == \A r \in Runs : Counted(r)

\* What a step of run r leaves alone: everything of other runs, all of cancels.
Frame(r) ==
    /\ pc' = [pc EXCEPT ![r] = pc'[r]]
    /\ completed' = [completed EXCEPT ![r] = completed'[r]]
    /\ attempt' = [attempt EXCEPT ![r] = attempt'[r]]
    /\ stalls' = [stalls EXCEPT ![r] = stalls'[r]]
    /\ err' = [err EXCEPT ![r] = err'[r]]
    /\ open' = [open EXCEPT ![r] = open'[r]]
    /\ file' = [file EXCEPT ![r] = file'[r]]
    /\ verdict' = [verdict EXCEPT ![r] = verdict'[r]]
    /\ said' = [said EXCEPT ![r] = said'[r]]
    /\ plan' = plan /\ event' = event /\ UNCHANGED cancels

\* The types of run r's variables.
Typed(r) ==
    /\ pc[r] \in Labels /\ completed[r] \in Seq(Events)
    /\ attempt[r] \in 0 .. plan.attempts /\ stalls[r] \in 0 .. plan.attempts
    /\ err[r] \in Errors /\ open[r] \in BOOLEAN
    /\ file[r] \in {"none", "partial", "full"}
    /\ verdict[r] \in {"none", "complete", "stalled", "incomplete"}
    /\ said[r] \in {"nothing", "saved", "unwritten"}

\* What the gate's verdict changes.
LEMMA EmitStep ==
  ASSUME TypeOK, NEW r \in Runs, NEW e \in Events, NEW to, NEW otherwise, Emit(r, e, to, otherwise)
  PROVE  /\ pc' = [pc EXCEPT ![r] = pc'[r]] /\ pc'[r] \in {to, otherwise}
         /\ completed' = [completed EXCEPT ![r] = completed'[r]] /\ completed'[r] \in Seq(Events)
         /\ err' = [err EXCEPT ![r] = err'[r]] /\ err'[r] \in {err[r], "gate"}
<1>1. /\ pc \in [Runs -> Labels] /\ completed \in [Runs -> Seq(Events)]
      /\ err \in [Runs -> Errors] /\ completed[r] \in Seq(Events)
  BY DEF TypeOK, Errors
<1>2. Append(completed[r], e) \in Seq(Events)
  BY <1>1
<1>3. CASE Accepts(Sequence(r), completed[r], e)
  <2>1. pc' = [pc EXCEPT ![r] = to] /\ err' = err
        /\ completed' = [completed EXCEPT ![r] = Append(completed[r], e)]
    BY <1>3 DEF Emit
  <2> QED
    BY <2>1, <1>1, <1>2
<1>4. CASE ~Accepts(Sequence(r), completed[r], e)
  <2>1. pc' = [pc EXCEPT ![r] = otherwise] /\ err' = [err EXCEPT ![r] = "gate"]
        /\ completed' = completed
    BY <1>4 DEF Emit, Raise
  <2> QED
    BY <2>1, <1>1
<1> QED
  BY <1>3, <1>4

\* A rolled back gate has events.
LEMMA RollBackType ==
  ASSUME NEW s \in {STANDARD_PROMPT_EVENTS, PIPELINE_EVENT_SEQUENCE}, NEW done \in Seq(Events)
  PROVE  RolledBack(s, done) \in Seq(Events)
BY Boundaries DEF RolledBack

\* The events the steps emit are events of the gate.
LEMMA KnownEvents ==
  /\ \A e \in {"WEB_LOADED", "LOGIN_VERIFIED", "MODEL_VERIFIED", "FILE_UPLOADED", "DOCUMENT_PARSED",
         "PROMPT_INJECTED", "SEND_CLICKED", "DISPATCH_ACKNOWLEDGED", "THINKING_STARTED",
         "STREAMING_GENERATION", "GENERATION_FINISHED", "OUTPUT_COPIED", "SESSION_EXPIRED"} : e \in Events
  /\ <<>> \in Seq(Events) /\ <<"SESSION_EXPIRED">> \in Seq(Events)
BY EventNames DEF Events

(* Steps of a run by what they do to the registry and to the browser *)

Stays(r) ==
    /\ UNCHANGED <<registry, open>>
    /\ pc[r] \in OnPage /\ pc'[r] \in OnPage \cup {"clear"}

Elsewhere(r) ==
    /\ UNCHANGED registry
    /\ pc[r] \in {"preflight", "launch", "close", "save"}
    /\ pc'[r] \in {"launch", "save", "release"}

Launched(r) ==
    /\ UNCHANGED registry
    /\ pc[r] = "launch" /\ pc'[r] \in {"attach", "load"} /\ open'[r]

Attached(r) ==
    /\ UNCHANGED <<open, states, index>>
    /\ pc[r] = "attach" /\ pc'[r] = "check"
    /\ active' = [active EXCEPT ![r] = r \in states]

Cleared(r) ==
    /\ UNCHANGED <<open, states, index>>
    /\ pc[r] = "clear" /\ pc'[r] = "close"
    /\ active' = [active EXCEPT ![r] = FALSE]

Released(r) ==
    /\ UNCHANGED <<open, active>>
    /\ pc[r] = "release" /\ pc'[r] = "ended"
    /\ states' = states \ {r}
    /\ index' = [t \in Tokens |-> IF t = plan.token[r] /\ index[t] = r THEN NoRun ELSE index[t]]

Moves(r) == Stays(r) \/ Elsewhere(r) \/ Launched(r) \/ Attached(r) \/ Cleared(r) \/ Released(r)

\* Every step of a run's thread is of one of these kinds, in types, within its counts.
LEMMA RunStep ==
  ASSUME TypeOK, CountInv, NEW r \in Runs, Proceed(r)
  PROVE  Frame(r) /\ Typed(r)' /\ Counted(r)' /\ Moves(r)
<1> USE DEF Go, Raise, Frame, Typed, Counted, Moves, Stays, Elsewhere, Launched, Attached, Cleared, Released,
            Labels, OnPage, Dispatching, BeforeDispatch, InAttempt, Errors, work, outcome, registry, cancels
<1> plan' = plan
  BY DEF Proceed
<1> /\ plan.attempts \in Nat \ {0}
    /\ pc \in [Runs -> Labels] /\ completed \in [Runs -> Seq(Events)]
    /\ attempt \in [Runs -> 0 .. plan.attempts] /\ stalls \in [Runs -> 0 .. plan.attempts]
    /\ err \in [Runs -> Errors] /\ open \in [Runs -> BOOLEAN]
    /\ file \in [Runs -> {"none", "partial", "full"}]
    /\ verdict \in [Runs -> {"none", "complete", "stalled", "incomplete"}]
    /\ said \in [Runs -> {"nothing", "saved", "unwritten"}]
  BY PromptRunAssumption DEF TypeOK
<1> Counted(r)
  BY DEF CountInv
<1>1. CASE NotStarted(r)
  BY <1>1 DEF NotStarted
<1>2. CASE Preflight(r)
  BY <1>2 DEF Preflight
<1>3. CASE Launch(r)
  BY <1>3 DEF Launch
<1>4. CASE SetActiveContext(r)
  BY <1>4 DEF SetActiveContext
<1>5. CASE CheckLaunch(r)
  BY <1>5 DEF CheckLaunch
<1>6. CASE LoadWeb(r)
  BY <1>6, EmitStep, KnownEvents DEF LoadWeb, Page
<1>7. CASE VerifyLogin(r)
  BY <1>7, EmitStep, KnownEvents DEF VerifyLogin, Page
<1>8. CASE VerifyModel(r)
  BY <1>8, EmitStep, KnownEvents DEF VerifyModel, Page
<1>9. CASE UploadFile(r)
  BY <1>9, EmitStep, KnownEvents DEF UploadFile, Page
<1>10. CASE ParseDocument(r)
  BY <1>10, EmitStep, KnownEvents DEF ParseDocument, Page
<1>11. CASE PageFails(r)
  <2>1. PICK es \in {<<>>, <<"SESSION_EXPIRED">>} : completed' = [completed EXCEPT ![r] = @ \o es]
    BY <1>11 DEF PageFails, Expiry
  <2>2. es \in Seq(Events)
    BY <2>1, KnownEvents
  <2>3. completed[r] \o es \in Seq(Events)
    BY <2>2
  <2>4. completed'[r] \in Seq(Events) /\ completed' = [completed EXCEPT ![r] = completed'[r]]
    BY <2>1, <2>3
  <2> QED
    BY <1>11, <2>4 DEF PageFails
<1>12. CASE StartDispatch(r)
  BY <1>12 DEF StartDispatch
<1>13. CASE Inject(r)
  BY <1>13, EmitStep, KnownEvents DEF Inject, Attempt
<1>14. CASE ClickSend(r)
  BY <1>14, EmitStep, KnownEvents DEF ClickSend, Attempt
<1>15. CASE Acknowledge(r)
  BY <1>15, EmitStep, KnownEvents DEF Acknowledge, Attempt
<1>16. CASE PressEnter(r)
  BY <1>16 DEF PressEnter
<1>17. CASE DispatchFails(r)
  BY <1>17 DEF DispatchFails
<1>18. CASE Think(r)
  BY <1>18, EmitStep, KnownEvents DEF Think, Progress, Poll
<1>19. CASE Stream(r)
  BY <1>19, EmitStep, KnownEvents DEF Stream, Progress, Poll
<1>20. CASE Finish(r)
  BY <1>20, EmitStep, KnownEvents DEF Finish, Progress, Poll
<1>21. CASE MonitorRaises(r)
  BY <1>21 DEF MonitorRaises
<1>22. CASE SeeCancel(r)
  BY <1>22 DEF SeeCancel
<1>23. CASE GiveUp(r)
  BY <1>23 DEF GiveUp
<1>24. CASE Retry(r)
  BY <1>24, RollBackType DEF Retry, Sequence
<1>25. CASE Wake(r)
  BY <1>25 DEF Wake
<1>26. CASE Fails(r)
  <2>1. PICK es \in {<<>>, <<"SESSION_EXPIRED">>} : completed' = [completed EXCEPT ![r] = @ \o es]
    BY <1>26 DEF Fails, Expiry
  <2>2. es \in Seq(Events)
    BY <2>1, KnownEvents
  <2>3. completed[r] \o es \in Seq(Events)
    BY <2>2
  <2>4. completed'[r] \in Seq(Events) /\ completed' = [completed EXCEPT ![r] = completed'[r]]
    BY <2>1, <2>3
  <2> QED
    BY <1>26, <2>4 DEF Fails
<1>27. CASE CutWithoutText(r)
  BY <1>27 DEF CutWithoutText, Cut
<1>28. CASE CutSaves(r)
  <2>1. Append(completed[r], "OUTPUT_COPIED") \in Seq(Events)
    BY KnownEvents
  <2>2. completed'[r] \in Seq(Events) /\ completed' = [completed EXCEPT ![r] = completed'[r]]
    BY ZenonT(40), <1>28, <2>1 DEF CutSaves
  <2>3. said' = [said EXCEPT ![r] = said'[r]] /\ said'[r] \in {"nothing", "saved", "unwritten"}
    BY <1>28 DEF CutSaves
  <2> QED
    BY <1>28, <2>2, <2>3 DEF CutSaves, Cut
<1>29. CASE CutSaveFails(r)
  BY <1>29 DEF CutSaveFails, Cut
<1>30. CASE ClearContext(r)
  BY <1>30 DEF ClearContext
<1>31. CASE CloseSession(r)
  BY <1>31 DEF CloseSession
<1>32. CASE Save(r)
  BY <1>32, EmitStep, KnownEvents DEF Save
<1>33. CASE SaveFails(r)
  BY <1>33 DEF SaveFails
<1>34. CASE Release(r)
  BY <1>34 DEF Release, Return
<1> QED
  BY <1>1, <1>2, <1>3, <1>4, <1>5, <1>6, <1>7, <1>8, <1>9, <1>10, <1>11, <1>12, <1>13, <1>14, <1>15,
     <1>16, <1>17, <1>18, <1>19, <1>20, <1>21, <1>22, <1>23, <1>24, <1>25, <1>26, <1>27, <1>28,
     <1>29, <1>30, <1>31, <1>32, <1>33, <1>34 DEF Proceed, Prepare, Open, Dispatch, Conclude

\* The plan's parts are of their types.
LEMMA PlanType ==
  ASSUME TypeOK
  PROVE  /\ plan.token \in [Runs -> Tokens] /\ plan.attempts \in Nat \ {0}
         /\ plan.budget \in Nat
BY PromptRunAssumption DEF TypeOK

\* The registry keeps its types, whichever step of a run is taken.
LEMMA RegistryTypes ==
  ASSUME TypeOK, NEW r \in Runs, Moves(r)
  PROVE  /\ states' \subseteq Runs /\ index' \in [Tokens -> Runs \cup {NoRun}]
         /\ active' \in [Runs -> BOOLEAN]
<1>1. /\ states \subseteq Runs /\ index \in [Tokens -> Runs \cup {NoRun}]
      /\ active \in [Runs -> BOOLEAN]
  BY DEF TypeOK
<1>2. CASE Stays(r) \/ Elsewhere(r) \/ Launched(r)
  BY <1>1, <1>2 DEF Stays, Elsewhere, Launched, registry
<1>3. CASE Attached(r)
  BY <1>1, <1>3 DEF Attached
<1>4. CASE Cleared(r)
  BY <1>1, <1>4 DEF Cleared
<1>5. CASE Released(r)
  BY <1>1, <1>5 DEF Released
<1> QED
  BY <1>2, <1>3, <1>4, <1>5 DEF Moves

\* Types and attempt counts at the start.
LEMMA InitTypes == Init => TypeOK /\ CountInv
<1> SUFFICES ASSUME Init PROVE TypeOK /\ CountInv
  OBVIOUS
<1>1. plan.attempts \in Nat \ {0}
  BY PromptRunAssumption DEF Init
<1>2. TypeOK
  BY <1>1 DEF Init, TypeOK, Labels
<1>3. CountInv
  BY DEF Init, CountInv, Counted, BeforeDispatch, InAttempt
<1> QED
  BY <1>2, <1>3

\* Every step keeps the types and the attempt counts.
LEMMA NextTypes == TypeOK /\ CountInv /\ [Next]_vars => TypeOK' /\ CountInv'
<1> SUFFICES ASSUME TypeOK, CountInv, [Next]_vars PROVE TypeOK' /\ CountInv'
  OBVIOUS
<1>1. ASSUME NEW r \in Runs, Register(r) PROVE TypeOK' /\ CountInv'
  <2>1. TypeOK'
    <3>1. pc' \in [Runs -> Labels]
      BY <1>1 DEF TypeOK, Register, Go, Labels
    <3>2. states' \subseteq Runs
      BY <1>1 DEF TypeOK, Register
    <3>3. index' \in [Tokens -> Runs \cup {NoRun}]
      BY <1>1 DEF TypeOK, Register
    <3> QED
      BY <1>1, <3>1, <3>2, <3>3 DEF TypeOK, Register, work, outcome, cancels
  <2>2. CountInv'
    BY <1>1 DEF TypeOK, CountInv, Counted, Register, Go, BeforeDispatch, InAttempt, work
  <2> QED
    BY <2>1, <2>2
<1>2. ASSUME NEW r \in Runs, Proceed(r) PROVE TypeOK' /\ CountInv'
  <2>1. Frame(r) /\ Typed(r)' /\ Counted(r)' /\ Moves(r)
    BY <1>2, RunStep
  <2>2. states' \subseteq Runs /\ index' \in [Tokens -> Runs \cup {NoRun}] /\ active' \in [Runs -> BOOLEAN]
    BY <2>1, RegistryTypes
  <2>3. TypeOK'
    <3>1. plan' = plan /\ event' = event /\ UNCHANGED cancels
      BY <2>1 DEF Frame
    <3>2. /\ pc' \in [Runs -> Labels] /\ completed' \in [Runs -> Seq(Events)]
          /\ attempt' \in [Runs -> 0 .. plan.attempts] /\ stalls' \in [Runs -> 0 .. plan.attempts]
      BY ZenonT(40), <2>1, <3>1 DEF TypeOK, Frame, Typed
    <3>3. /\ err' \in [Runs -> Errors] /\ open' \in [Runs -> BOOLEAN]
          /\ file' \in [Runs -> {"none", "partial", "full"}]
          /\ verdict' \in [Runs -> {"none", "complete", "stalled", "incomplete"}]
          /\ said' \in [Runs -> {"nothing", "saved", "unwritten"}]
      BY ZenonT(40), <2>1 DEF TypeOK, Frame, Typed, Errors
    <3> QED
      BY <2>2, <3>1, <3>2, <3>3 DEF TypeOK, Errors, cancels
  <2>4. ASSUME NEW q \in Runs PROVE Counted(q)'
    <3>1. CASE q = r  BY <2>1, <3>1
    <3>2. CASE q # r  BY <2>1, <3>2 DEF Frame, TypeOK, CountInv, Counted
    <3> QED
      BY <3>1, <3>2
  <2> QED
    BY <2>3, <2>4 DEF CountInv
<1>3. ASSUME NEW c \in Cancellers, CancelStep(c) PROVE TypeOK' /\ CountInv'
  <2> USE DEF TypeOK, Steps, Answer, work, outcome, registry
  <2> plan' = plan /\ plan.token \in [Runs -> Tokens]
    BY <1>3, PlanType DEF CancelStep
  <2>1. CASE ResolveEvent(c)
    <3>1. PICK t \in Tokens :
             /\ target' = [target EXCEPT ![c] = index[t]]
             /\ IF index[t] = NoRun
                THEN stage' = [stage EXCEPT ![c] = "answered"] /\ reply' = [reply EXCEPT ![c] = "nothing"]
                ELSE stage' = [stage EXCEPT ![c] = "found"] /\ reply' = reply
      BY <2>1 DEF ResolveEvent
    <3>2. target' \in [Cancellers -> Runs \cup {NoRun}]
      BY <3>1
    <3>3. /\ stage' \in [Cancellers -> {"idle", "found", "confirmed", "set", "read", "answered"}]
          /\ reply' \in [Cancellers -> {"none", "nothing", "stopped"}]
      BY ZenonT(40), <3>1
    <3> QED
      BY <2>1, <3>2, <3>3 DEF ResolveEvent, CountInv, Counted
  <2>2. CASE FindState(c)  BY ZenonT(40), <2>2 DEF FindState, CountInv, Counted
  <2>3. CASE SetEvent(c)  BY <2>3 DEF SetEvent, CountInv, Counted
  <2>4. CASE ReadContext(c)  BY <2>4 DEF ReadContext, CountInv, Counted
  <2>5. CASE CloseContext(c)  BY ZenonT(40), <2>5 DEF CloseContext, CountInv, Counted
  <2> QED
    BY <1>3, <2>1, <2>2, <2>3, <2>4, <2>5 DEF CancelStep
<1>4. CASE UNCHANGED vars
  BY <1>4 DEF vars, work, outcome, registry, cancels, TypeOK, CountInv, Counted
<1> QED
  BY <1>1, <1>2, <1>3, <1>4 DEF Next

\* Every variable keeps its type; in particular neither attempts nor stall
\* retries exceed the attempts of the dispatch loop.
THEOREM PromptTypes == Spec => []TypeOK
<1>1. Spec => [](TypeOK /\ CountInv)
  BY InitTypes, NextTypes, PTL DEF Spec
<1> QED
  BY <1>1, PTL

-----------------------------------------------------------------------------
(* The registry *)

\* RegistryExact holds by induction with this: an entry of the index is that of
\* a run given the event, so a release cannot leave another event's entry behind.
IndexOwn == \A t \in Tokens : index[t] # NoRun => plan.token[index[t]] = t

RegistryInv == RegistryExact /\ IndexOwn

\* The registry at the start.
LEMMA InitRegistry == Init => RegistryInv
BY PromptRunAssumption DEF Init, RegistryInv, RegistryExact, IndexOwn

\* A registration enters the run under its own event only.
LEMMA RegisterRegistry ==
  ASSUME TypeOK, RegistryInv, NEW r \in Runs, Register(r)
  PROVE  RegistryInv'
<1> USE DEF TypeOK, RegistryInv, RegistryExact, IndexOwn
<1>1. /\ plan' = plan /\ pc[r] = "new" /\ pc' = [pc EXCEPT ![r] = "preflight"] /\ active' = active
      /\ plan.token \in [Runs -> Tokens]
      /\ \A s \in Runs : plan.token[s] = plan.token[r] => pc[s] \in {"new", "ended"}
  BY PlanType DEF Register, Go
<1>2. states' = {s \in Runs : Cancellable(s)' /\ pc'[s] \notin {"new", "ended"}}
  <2>1. CASE Cancellable(r)
    BY <1>1, <2>1 DEF Register, Cancellable
  <2>2. CASE ~Cancellable(r)
    BY <1>1, <2>2 DEF Register, Cancellable
  <2> QED
    BY <2>1, <2>2
<1>a. \A q \in Runs : active'[q] => pc'[q] \in OnPage \cup {"clear"}
  <2>1. ~active[r]
    BY <1>1 DEF OnPage, Dispatching
  <2> QED
    BY <1>1, <2>1
<1>3. CASE Cancellable(r)
  <2>1. states' = states \cup {r} /\ index' = [index EXCEPT ![plan.token[r]] = r]
    BY <1>3 DEF Register
  <2>2. \A s \in states : plan.token[s] # plan.token[r]
    BY <1>1
  <2>3. \A s \in states' : index'[plan.token[s]] = s
    BY <1>1, <2>1, <2>2
  <2>4. \A t \in Tokens : index'[t] # NoRun => index'[t] \in states' /\ plan.token[index'[t]] = t
    BY <1>1, <2>1
  <2> QED
    BY <1>1, <1>2, <1>a, <2>3, <2>4
<1>4. CASE ~Cancellable(r)
  <2>1. states' = states /\ index' = index
    BY <1>4 DEF Register
  <2> QED
    BY <1>1, <1>2, <1>a, <2>1
<1> QED
  BY <1>3, <1>4

\* A run's own steps leave the registry alone, but for its release.
LEMMA ProceedRegistry ==
  ASSUME TypeOK, CountInv, RegistryInv, NEW r \in Runs, Proceed(r)
  PROVE  RegistryInv'
<1> USE DEF TypeOK, RegistryInv, RegistryExact, IndexOwn, OnPage, Dispatching
<1>1. Moves(r) /\ plan' = plan /\ pc' = [pc EXCEPT ![r] = pc'[r]] /\ plan.token \in [Runs -> Tokens]
  BY RunStep, PlanType DEF Frame
<1>2. \A q \in Runs : Cancellable(q)' = Cancellable(q)
  BY <1>1 DEF Cancellable
<1>3. CASE Stays(r) \/ Elsewhere(r) \/ Launched(r)
  <2>1. states' = states /\ index' = index /\ active' = active
    BY <1>3 DEF Stays, Elsewhere, Launched, registry
  <2>2. pc[r] \notin {"new", "ended"} /\ pc'[r] \notin {"new", "ended"}
    BY <1>3 DEF Stays, Elsewhere, Launched
  <2>3. pc[r] \in OnPage => pc'[r] \in OnPage \cup {"clear"}
    BY <1>3 DEF Stays, Elsewhere, Launched
  <2>4. pc[r] = "clear" => FALSE
    BY <1>3 DEF Stays, Elsewhere, Launched
  <2>5. \A q \in Runs : q # r => pc'[q] = pc[q]
    BY <1>1
  <2>6. states' = {q \in Runs : Cancellable(q)' /\ pc'[q] \notin {"new", "ended"}}
    BY <1>2, <2>1, <2>2, <2>5
  <2>7. \A q \in Runs : active'[q] => pc'[q] \in OnPage \cup {"clear"}
    BY <2>1, <2>3, <2>4, <2>5
  <2> QED
    BY <1>1, <2>1, <2>6, <2>7
<1>4. CASE Attached(r)
  BY <1>1, <1>2, <1>4 DEF Attached
<1>5. CASE Cleared(r)
  BY <1>1, <1>2, <1>5 DEF Cleared
<1>6. CASE Released(r)
  <2>1. states' = {q \in Runs : Cancellable(q)' /\ pc'[q] \notin {"new", "ended"}}
    BY <1>1, <1>2, <1>6 DEF Released
  <2>2. \A s \in states' : index'[plan.token[s]] = s
    BY <1>1, <1>6 DEF Released
  <2>3. \A t \in Tokens : index'[t] # NoRun => index'[t] = index[t] /\ index[t] # r
    BY <1>6 DEF Released
  <2>4. \A q \in Runs : active'[q] => pc'[q] \in OnPage \cup {"clear"}
    <3>1. active' = active /\ pc[r] = "release"
      BY <1>6 DEF Released
    <3>2. ~active[r]
      BY <3>1
    <3>3. \A q \in Runs : q # r => pc'[q] = pc[q]
      BY <1>1
    <3> QED
      BY <3>1, <3>2, <3>3
  <2> QED
    BY <1>1, <1>6, <2>1, <2>2, <2>3, <2>4 DEF Released
<1> QED
  BY <1>1, <1>3, <1>4, <1>5, <1>6 DEF Moves

\* Every step keeps the registry exact.
LEMMA NextRegistry == TypeOK /\ CountInv /\ RegistryInv /\ [Next]_vars => RegistryInv'
<1> SUFFICES ASSUME TypeOK, CountInv, RegistryInv, [Next]_vars PROVE RegistryInv'
  OBVIOUS
<1>1. ASSUME NEW r \in Runs, Register(r) PROVE RegistryInv'
  BY <1>1, RegisterRegistry
<1>2. ASSUME NEW r \in Runs, Proceed(r) PROVE RegistryInv'
  BY <1>2, ProceedRegistry
<1>3. ASSUME NEW c \in Cancellers, CancelStep(c) PROVE RegistryInv'
  <2>1. UNCHANGED <<plan, pc, registry>>
    BY <1>3 DEF CancelStep, ResolveEvent, FindState, SetEvent, ReadContext, CloseContext
  <2> QED
    BY <2>1 DEF registry, RegistryInv, RegistryExact, IndexOwn, Cancellable
<1>4. CASE UNCHANGED vars
  BY <1>4 DEF vars, registry, RegistryInv, RegistryExact, IndexOwn, Cancellable
<1> QED
  BY <1>1, <1>2, <1>3, <1>4 DEF Next

\* From its registration to its release a cancellable run, and no other, is
\* found by its id and by the event it was given, whatever runs follow each
\* other on one event (register, release and set_active_bctx).
THEOREM RegistryFindsRuns == Spec => []RegistryExact
<1>1. Spec => [](TypeOK /\ CountInv /\ RegistryInv)
  BY InitTypes, NextTypes, InitRegistry, NextRegistry, PTL DEF Spec
<1> QED
  BY <1>1, PTL DEF RegistryInv

-----------------------------------------------------------------------------
(* Cancels *)

\* A canceller on its way to the run it has resolved: once it has confirmed the
\* run it is a cancellable one, and once it has set the event it stays set.
Resolved(c) ==
    /\ stage[c] = "idle" => reply[c] = "none"
    /\ stage[c] = "found" => target[c] \in Runs
    /\ stage[c] \in {"confirmed", "set", "read"} => target[c] \in Runs /\ Cancellable(target[c])
    /\ stage[c] \in {"set", "read"} => event[plan.token[target[c]]]
    /\ reply[c] = "stopped" => target[c] \in Runs /\ event[plan.token[target[c]]]

\* An attached or working run whose context is gone has been cancelled.
ClosedByCancel(r) == pc[r] \in OnPage \cup {"attach"} /\ ~open[r] => Cancelled(r)

CancelInv == (\A c \in Cancellers : Resolved(c)) /\ (\A r \in Runs : ClosedByCancel(r))

\* No canceller has resolved anything at the start.
LEMMA InitCancel == Init => CancelInv
BY DEF Init, CancelInv, Resolved, ClosedByCancel, OnPage, Dispatching

\* A run's own steps close no context it works with.
LEMMA ProceedCancel ==
  ASSUME TypeOK, CountInv, CancelInv, NEW r \in Runs, Proceed(r)
  PROVE  CancelInv'
<1> USE DEF TypeOK, CancelInv
<1>1. /\ Moves(r) /\ plan' = plan /\ event' = event /\ UNCHANGED cancels
      /\ pc' = [pc EXCEPT ![r] = pc'[r]] /\ open' = [open EXCEPT ![r] = open'[r]]
  BY RunStep DEF Frame
<1>2. ASSUME NEW c \in Cancellers PROVE Resolved(c)'
  BY <1>1 DEF Resolved, Cancellable, cancels
<1>3. ASSUME NEW q \in Runs PROVE ClosedByCancel(q)'
  <2>1. Cancelled(q)' = Cancelled(q)
    BY <1>1 DEF Cancelled, Cancellable
  <2>2. CASE q # r
    BY <1>1, <2>1, <2>2 DEF ClosedByCancel
  <2>3. CASE q = r
    <3>1. pc'[r] \in OnPage \cup {"attach"} =>
            open'[r] \/ (pc[r] \in OnPage \cup {"attach"} /\ open'[r] = open[r])
      BY <1>1 DEF Moves, Stays, Elsewhere, Launched, Attached, Cleared, Released, OnPage, Dispatching
    <3> QED
      BY <2>1, <2>3, <3>1 DEF ClosedByCancel
  <2> QED
    BY <2>2, <2>3
<1> QED
  BY <1>2, <1>3

\* Other cancellers do not move, and events are never reset.
LEMMA CancelStepCancel ==
  ASSUME TypeOK, RegistryInv, CancelInv, NEW c \in Cancellers, CancelStep(c)
  PROVE  CancelInv'
<1> USE DEF TypeOK, CancelInv, Steps, Answer
<1>1. /\ plan' = plan /\ pc' = pc /\ plan.token \in [Runs -> Tokens]
      /\ \A t \in Tokens : event[t] => event'[t]
  BY ZenonT(40), PlanType DEF CancelStep, ResolveEvent, FindState, SetEvent, ReadContext, CloseContext
<1>2. \A q \in Runs : Cancelled(q) => Cancelled(q)'
  BY <1>1 DEF Cancelled, Cancellable
<1>3. \A q \in Runs : Cancellable(q)' = Cancellable(q)
  BY <1>1 DEF Cancellable
<1>4. ASSUME NEW d \in Cancellers, d # c PROVE Resolved(d)'
  <2>1. stage'[d] = stage[d] /\ target'[d] = target[d] /\ reply'[d] = reply[d]
    <3>1. CASE ResolveEvent(c)  BY <1>4, <3>1 DEF ResolveEvent
    <3>2. CASE FindState(c)  BY <1>4, <3>2 DEF FindState
    <3>3. CASE SetEvent(c)  BY <1>4, <3>3 DEF SetEvent
    <3>4. CASE ReadContext(c)  BY <1>4, <3>4 DEF ReadContext
    <3>5. CASE CloseContext(c)  BY <1>4, <3>5 DEF CloseContext
    <3> QED
      BY <3>1, <3>2, <3>3, <3>4, <3>5 DEF CancelStep
  <2> QED
    BY <1>1, <1>3, <2>1 DEF Resolved
<1>5. CASE ResolveEvent(c)
  <2>1. PICK t \in Tokens :
           /\ target'[c] = index[t]
           /\ IF index[t] = NoRun
              THEN stage'[c] = "answered" /\ reply'[c] = "nothing"
              ELSE stage'[c] = "found" /\ reply' = reply
    BY <1>5 DEF ResolveEvent
  <2>2. stage[c] = "idle" /\ reply[c] = "none"
    BY <1>5 DEF ResolveEvent, Resolved
  <2>3. Resolved(c)'
    BY <2>1, <2>2 DEF Resolved
  <2> QED
    BY <1>1, <1>2, <1>4, <1>5, <2>3 DEF ResolveEvent, ClosedByCancel
<1>6. CASE FindState(c)
  <2>1. target' = target /\ open' = open /\ stage[c] = "found" /\ target[c] \in Runs
    BY <1>6 DEF FindState, Resolved
  <2>2. CASE target[c] \in states
    <3>1. Cancellable(target[c])
      BY <2>2 DEF RegistryInv, RegistryExact
    <3>2. stage'[c] = "confirmed" /\ reply' = reply
      BY <1>6, <2>2 DEF FindState
    <3> QED
      BY <1>1, <1>2, <1>3, <1>4, <2>1, <3>1, <3>2 DEF Resolved, ClosedByCancel
  <2>3. CASE target[c] \notin states
    <3>1. stage'[c] = "answered" /\ reply'[c] = "nothing"
      BY <1>6, <2>3 DEF FindState
    <3> QED
      BY <1>1, <1>2, <1>4, <2>1, <3>1 DEF Resolved, ClosedByCancel
  <2> QED
    BY <2>2, <2>3
<1>7. CASE SetEvent(c)
  <2>1. /\ target' = target /\ open' = open /\ reply' = reply
        /\ stage[c] = "confirmed" /\ stage'[c] = "set"
        /\ target[c] \in Runs /\ Cancellable(target[c])
        /\ event' = [event EXCEPT ![plan.token[target[c]]] = TRUE]
    BY <1>7 DEF SetEvent, Resolved
  <2>2. event'[plan.token[target[c]]]
    BY <1>1, <2>1
  <2> QED
    BY <1>1, <1>2, <1>3, <1>4, <2>1, <2>2 DEF Resolved, ClosedByCancel
<1>8. CASE ReadContext(c)
  <2>1. /\ target' = target /\ open' = open /\ reply' = reply /\ event' = event
        /\ stage[c] = "set" /\ stage'[c] = "read"
    BY <1>8 DEF ReadContext
  <2> QED
    BY <1>1, <1>2, <1>3, <1>4, <2>1 DEF Resolved, ClosedByCancel
<1>9. CASE CloseContext(c)
  <2>1. /\ target' = target /\ event' = event /\ stage'[c] = "answered"
        /\ target[c] \in Runs /\ Cancelled(target[c]) /\ event[plan.token[target[c]]]
    BY <1>9 DEF CloseContext, Resolved, Cancelled
  <2>2. open' = open \/ open' = [open EXCEPT ![target[c]] = FALSE]
    BY <1>9 DEF CloseContext
  <2>3. ASSUME NEW q \in Runs PROVE ClosedByCancel(q)'
    <3>1. q = target[c] \/ open'[q] = open[q]
      BY <2>2
    <3> QED
      BY <1>1, <1>2, <2>1, <3>1 DEF ClosedByCancel
  <2> QED
    BY <1>1, <1>4, <2>1, <2>3 DEF Resolved
<1> QED
  BY <1>5, <1>6, <1>7, <1>8, <1>9 DEF CancelStep

\* Every step keeps what the cancellers resolved.
LEMMA NextCancel == TypeOK /\ CountInv /\ RegistryInv /\ CancelInv /\ [Next]_vars => CancelInv'
<1> SUFFICES ASSUME TypeOK, CountInv, RegistryInv, CancelInv, [Next]_vars PROVE CancelInv'
  OBVIOUS
<1>1. ASSUME NEW r \in Runs, Register(r) PROVE CancelInv'
  <2>1. /\ plan' = plan /\ event' = event /\ open' = open /\ UNCHANGED cancels
        /\ pc' = [pc EXCEPT ![r] = "preflight"]
    BY <1>1 DEF Register, Go
  <2> QED
    BY <2>1 DEF TypeOK, CancelInv, Resolved, ClosedByCancel, Cancelled, Cancellable, cancels,
       OnPage, Dispatching
<1>2. ASSUME NEW r \in Runs, Proceed(r) PROVE CancelInv'
  BY <1>2, ProceedCancel
<1>3. ASSUME NEW c \in Cancellers, CancelStep(c) PROVE CancelInv'
  BY <1>3, CancelStepCancel
<1>4. CASE UNCHANGED vars
  BY <1>4 DEF vars, cancels, CancelInv, Resolved, ClosedByCancel, Cancelled, Cancellable
<1> QED
  BY <1>1, <1>2, <1>3, <1>4 DEF Next

\* A run at work loses its browser context only to a cancel of its own event,
\* and a cancel answered True has set the event of the run it resolved, for any
\* interleaving of runs and cancellers (cancel_by_event, cancel_run).
THEOREM CancelsReach == Spec => []CancelReachesItsRun
<1>1. Spec => [](TypeOK /\ CountInv /\ RegistryInv /\ CancelInv)
  BY InitTypes, NextTypes, InitRegistry, NextRegistry, InitCancel, NextCancel, PTL DEF Spec
<1>2. CancelInv => CancelReachesItsRun
  BY DEF CancelInv, Resolved, ClosedByCancel, CancelReachesItsRun
<1> QED
  BY <1>1, <1>2, PTL

-----------------------------------------------------------------------------
(* The gate *)

Sequences == {STANDARD_PROMPT_EVENTS, PIPELINE_EVENT_SEQUENCE}
First(s, n) == SubSeq(s, 1, n)

\* Where each event stands, k events preceding the first attempt.
LEMMA Positions ==
  ASSUME NEW s \in Sequences, NEW k, k = AttemptBoundary(s)
  PROVE  /\ k \in {3, 5} /\ Len(s) = k + 7 /\ DOMAIN s = 1 .. k + 7 /\ s \in Seq(Events)
         /\ s[1] = "WEB_LOADED" /\ s[2] = "LOGIN_VERIFIED" /\ s[3] = "MODEL_VERIFIED"
         /\ s = PIPELINE_EVENT_SEQUENCE => k = 5 /\ s[4] = "FILE_UPLOADED" /\ s[5] = "DOCUMENT_PARSED"
         /\ s = STANDARD_PROMPT_EVENTS => k = 3
         /\ s[k + 1] = "PROMPT_INJECTED" /\ s[k + 2] = "SEND_CLICKED"
         /\ s[k + 3] = "DISPATCH_ACKNOWLEDGED" /\ s[k + 4] = "THINKING_STARTED"
         /\ s[k + 5] = "STREAMING_GENERATION" /\ s[k + 6] = "GENERATION_FINISHED"
         /\ s[k + 7] = "OUTPUT_COPIED"
<1>1. CASE s = STANDARD_PROMPT_EVENTS
  <2>1. k = 3
    BY <1>1, Boundaries
  <2>2. STANDARD_PROMPT_EVENTS # PIPELINE_EVENT_SEQUENCE
    BY EventNames
  <2> QED
    BY SMTT(20), <1>1, <2>1, <2>2, EventNames, EventSequences DEF STANDARD_PROMPT_EVENTS
<1>2. CASE s = PIPELINE_EVENT_SEQUENCE
  <2>1. k = 5
    BY <1>2, Boundaries
  <2>2. STANDARD_PROMPT_EVENTS # PIPELINE_EVENT_SEQUENCE
    BY EventNames
  <2> QED
    BY <1>2, <2>1, <2>2, EventNames, EventSequences DEF PIPELINE_EVENT_SEQUENCE
<1> QED
  BY <1>1, <1>2 DEF Sequences

\* No event occurs twice, and an expiry not at all.
LEMMA EventsDiffer ==
  ASSUME NEW s \in Sequences
  PROVE  /\ \A i, j \in DOMAIN s : s[i] = s[j] => i = j
         /\ \A i \in DOMAIN s : s[i] # "SESSION_EXPIRED"
<1>1. CASE s = STANDARD_PROMPT_EVENTS
  BY <1>1, EventNames DEF STANDARD_PROMPT_EVENTS
<1>2. CASE s = PIPELINE_EVENT_SEQUENCE
  BY <1>2, EventNames DEF PIPELINE_EVENT_SEQUENCE
<1> QED
  BY <1>1, <1>2 DEF Sequences

\* The first n events of a sequence.
LEMMA FirstEvents ==
  ASSUME NEW s \in Sequences, NEW n \in 0 .. Len(s)
  PROVE  /\ First(s, n) \in Seq(Events) /\ Len(First(s, n)) = n /\ DOMAIN First(s, n) = 1 .. n
         /\ \A i \in 1 .. n : First(s, n)[i] = s[i]
         /\ IsPrefix(First(s, n), s)
<1>1. s \in Seq(Events) /\ Len(s) \in Nat
  BY Positions
<1>2. First(s, n) \in Seq(Events) /\ Len(First(s, n)) = n /\ DOMAIN First(s, n) = 1 .. n
  BY <1>1 DEF First
<1>3. \A i \in 1 .. n : First(s, n)[i] = s[i]
  BY <1>1 DEF First
<1>4. SubSeq(First(s, n), 1, n) = First(s, n)
  BY <1>2, <1>3
<1> QED
  BY <1>1, <1>2, <1>3, <1>4 DEF First, IsPrefix

\* What has been emitted after n events.
LEMMA FirstEmitted ==
  ASSUME NEW s \in Sequences, NEW n \in 0 .. Len(s), NEW m \in DOMAIN s
  PROVE  /\ s[m] \in ToSet(First(s, n)) <=> m <= n
         /\ "SESSION_EXPIRED" \notin ToSet(First(s, n))
<1>1. s \in Seq(Events) /\ DOMAIN s = 1 .. Len(s) /\ Len(s) \in Nat
  BY Positions
<1>2. ToSet(First(s, n)) = {s[i] : i \in 1 .. n}
  BY FirstEvents DEF ToSet
<1> QED
  BY <1>1, <1>2, EventsDiffer

\* The gate accepts the events of a sequence one after the other.
LEMMA FirstNext ==
  ASSUME NEW s \in Sequences, NEW n \in Nat, n < Len(s)
  PROVE  /\ Accepts(s, First(s, n), s[n + 1])
         /\ Append(First(s, n), s[n + 1]) = First(s, n + 1)
<1>1. s \in Seq(Events) /\ DOMAIN s = 1 .. Len(s) /\ Len(s) \in Nat
  BY Positions
<1>2. n \in 0 .. Len(s) /\ n + 1 \in DOMAIN s /\ n + 1 \in 0 .. Len(s)
  BY <1>1
<1>3. s[n + 1] \notin ToSet(First(s, n))
  BY <1>1, <1>2, FirstEmitted
<1>4. Follows(s, First(s, n), s[n + 1])
  <2> SUFFICES ASSUME NEW i \in DOMAIN s, s[i] = s[n + 1], i > 1
               PROVE  First(s, n) # <<>> /\ First(s, n)[Len(First(s, n))] = s[i - 1]
    BY DEF Follows
  <2>1. i = n + 1 /\ n \in 1 .. n
    BY <1>1, <1>2, EventsDiffer
  <2> QED
    BY <1>2, <2>1, FirstEvents
<1>5. Append(First(s, n), s[n + 1]) = First(s, n + 1)
  <2>1. /\ First(s, n) \in Seq(Events) /\ Len(First(s, n)) = n
        /\ First(s, n + 1) \in Seq(Events) /\ Len(First(s, n + 1)) = n + 1
        /\ \A i \in 1 .. n : First(s, n)[i] = s[i]
        /\ \A i \in 1 .. n + 1 : First(s, n + 1)[i] = s[i]
    BY <1>2, FirstEvents
  <2> QED
    BY <2>1
<1> QED
  BY <1>3, <1>4, <1>5 DEF Accepts

\* A retry leaves exactly what precedes the first attempt.
LEMMA FirstRolledBack ==
  ASSUME NEW s \in Sequences, NEW n \in 0 .. Len(s), AttemptBoundary(s) <= n
  PROVE  RolledBack(s, First(s, n)) = First(s, AttemptBoundary(s))
<1> DEFINE k == AttemptBoundary(s)
<1>1. k \in {3, 5} /\ Len(s) = k + 7 /\ s \in Seq(Events)
  BY Positions
<1>2. RolledBack(s, First(s, n)) = SubSeq(First(s, n), 1, k)
  BY <1>1, FirstEvents DEF RolledBack
<1>3. SubSeq(First(s, n), 1, k) = First(s, k)
  <2>1. /\ First(s, n) \in Seq(Events) /\ Len(First(s, n)) = n /\ k \in 0 .. n /\ n \in Nat
        /\ \A i \in 1 .. n : First(s, n)[i] = s[i]
    BY <1>1, FirstEvents
  <2>2. /\ First(s, k) \in Seq(Events) /\ Len(First(s, k)) = k
        /\ \A i \in 1 .. k : First(s, k)[i] = s[i]
    BY SMTT(20), <1>1, FirstEvents
  <2>3. /\ SubSeq(First(s, n), 1, k) \in Seq(Events) /\ Len(SubSeq(First(s, n), 1, k)) = k
        /\ \A i \in 1 .. k : SubSeq(First(s, n), 1, k)[i] = First(s, n)[i]
    BY <2>1
  <2> HIDE DEF k
  <2> QED
    BY <2>1, <2>2, <2>3
<1> QED
  BY <1>2, <1>3

\* Unless the answer is complete, the terminal event is refused.
LEMMA TerminalRefused ==
  ASSUME NEW s \in Sequences, NEW n \in 0 .. Len(s) - 2, NEW done,
         done = First(s, n) \/ done = Append(First(s, n), "SESSION_EXPIRED")
  PROVE  ~Accepts(s, done, "OUTPUT_COPIED")
<1> DEFINE k == AttemptBoundary(s)
<1>1. /\ k \in {3, 5} /\ Len(s) = k + 7 /\ DOMAIN s = 1 .. k + 7 /\ s \in Seq(Events)
      /\ s[k + 7] = "OUTPUT_COPIED" /\ s[k + 6] = "GENERATION_FINISHED"
  BY Positions
<1>2. SUFFICES ASSUME Accepts(s, done, "OUTPUT_COPIED") PROVE FALSE
  OBVIOUS
<1>3. done # <<>> /\ done[Len(done)] = "GENERATION_FINISHED"
  <2>1. k + 7 \in DOMAIN s /\ k + 7 > 1 /\ (k + 7) - 1 = k + 6
    BY <1>1
  <2> QED
    BY <1>1, <1>2, <2>1 DEF Accepts, Follows
<1>4. /\ First(s, n) \in Seq(Events) /\ Len(First(s, n)) = n
      /\ \A i \in 1 .. n : First(s, n)[i] = s[i]
  BY SMTT(20), <1>1, FirstEvents
<1>5. CASE done = First(s, n)
  <2>1. n \in 1 .. n /\ s[n] = s[k + 6]
    BY <1>1, <1>3, <1>4, <1>5
  <2> QED
    BY SMTT(20), <1>1, <2>1, EventsDiffer
<1>6. CASE done = Append(First(s, n), "SESSION_EXPIRED")
  BY <1>3, <1>4, <1>6, KnownEvents
<1> QED
  BY <1>5, <1>6

\* How many events run r has emitted where it stands, k preceding its attempts.
Emits(r, n, k) ==
    /\ pc[r] \in {"new", "preflight", "launch", "attach", "check", "load", "ended"} => n = 0
    /\ pc[r] = "login" => n = 1
    /\ pc[r] = "model" => n = 2
    /\ pc[r] = "upload" => n = 3
    /\ pc[r] = "parse" => n = 4
    /\ pc[r] \in {"dispatch", "inject", "sleep"} => n = k
    /\ pc[r] = "send" => n = k + 1
    /\ pc[r] \in {"ack", "enter"} => n = k + 2
    /\ pc[r] \in {"wait", "raised"} => n \in k + 3 .. k + 5
    /\ pc[r] \in {"failing", "cut"} => n \in 0 .. k + 5
    /\ pc[r] \in {"clear", "close", "save"} /\ err[r] = "none" => n = k + 6

\* Where an exception is in flight; the gate raises none.
Raised(r) ==
    /\ err[r] # "gate"
    /\ pc[r] \in BeforeDispatch \cup {"inject", "send", "ack", "enter", "wait", "save"} => err[r] = "none"
    /\ pc[r] \in {"raised", "sleep", "failing", "cut"} => err[r] # "none"
    /\ pc[r] \in {"upload", "parse"} => plan.kind[r] = "attachment"

\* The gate's record is the first events of the sequence, and perhaps an expiry.
GateAt(r, n) ==
    /\ Emits(r, n, AttemptBoundary(Sequence(r)))
    /\ \/ completed[r] = First(Sequence(r), n)
       \/ /\ completed[r] = Append(First(Sequence(r), n), "SESSION_EXPIRED")
          /\ pc[r] \in {"cut", "clear", "close", "release"} /\ err[r] # "none"

GateInv == \A r \in Runs : Raised(r) /\ \E n \in 0 .. Len(Sequence(r)) : GateAt(r, n)

\* A run's sequence is one of the gate's two.
LEMMA SequenceType == \A r : Sequence(r) \in Sequences
BY DEF Sequence, Sequences

\* The gate at the start: nothing completed.
LEMMA InitGate == Init => GateInv
<1> SUFFICES ASSUME Init, NEW r \in Runs
             PROVE  Raised(r) /\ \E n \in 0 .. Len(Sequence(r)) : GateAt(r, n)
  BY DEF GateInv
<1>1. 0 \in 0 .. Len(Sequence(r)) /\ First(Sequence(r), 0) = <<>>
  BY SequenceType, Positions, FirstEvents
<1>2. GateAt(r, 0)
  BY <1>1 DEF Init, GateAt, Emits
<1> QED
  BY <1>1, <1>2 DEF Init, Raised, BeforeDispatch

\* The next event of the sequence is accepted.
LEMMA EmitNext ==
  ASSUME TypeOK, NEW r \in Runs, NEW s \in Sequences, s = Sequence(r), NEW n \in Nat, n < Len(s),
         completed[r] = First(s, n), NEW to, NEW otherwise, Emit(r, s[n + 1], to, otherwise)
  PROVE  pc'[r] = to /\ err' = err /\ completed'[r] = First(s, n + 1)
<1>1. Accepts(s, completed[r], s[n + 1]) /\ Append(completed[r], s[n + 1]) = First(s, n + 1)
  BY FirstNext
<1> QED
  BY <1>1 DEF TypeOK, Emit

\* Every step of a run's thread emits the next event of its sequence, keeps the
\* record, adds an expiry at its end or starts it again.
LEMMA ProceedGate ==
  ASSUME TypeOK, CountInv, GateInv, NEW r \in Runs, Proceed(r)
  PROVE  Raised(r)' /\ \E n \in 0 .. Len(Sequence(r)') : GateAt(r, n)'
<1> PICK s \in Sequences : s = Sequence(r) /\ s = Sequence(r)'
  BY SequenceType DEF Proceed, Sequence
<1> PICK k : k = AttemptBoundary(s)
  OBVIOUS
<1> /\ pc \in [Runs -> Labels] /\ completed \in [Runs -> Seq(Events)] /\ err \in [Runs -> Errors]
  BY DEF TypeOK, Errors
<1>k. /\ k \in {3, 5} /\ Len(s) = k + 7 /\ s \in Seq(Events) /\ DOMAIN s = 1 .. k + 7
      /\ s[k + 1] = "PROMPT_INJECTED" /\ s[k + 2] = "SEND_CLICKED"
      /\ s[k + 3] = "DISPATCH_ACKNOWLEDGED" /\ s[k + 4] = "THINKING_STARTED"
      /\ s[k + 5] = "STREAMING_GENERATION" /\ s[k + 6] = "GENERATION_FINISHED"
      /\ s[k + 7] = "OUTPUT_COPIED"
  BY Positions
<1>page. /\ s[1] = "WEB_LOADED" /\ s[2] = "LOGIN_VERIFIED" /\ s[3] = "MODEL_VERIFIED"
         /\ plan.kind[r] = "attachment" => k = 5 /\ s[4] = "FILE_UPLOADED" /\ s[5] = "DOCUMENT_PARSED"
         /\ plan.kind[r] # "attachment" => k = 3
  <2>1. s[1] = "WEB_LOADED" /\ s[2] = "LOGIN_VERIFIED" /\ s[3] = "MODEL_VERIFIED"
    BY Positions
  <2>2. CASE plan.kind[r] = "attachment"
    <3>1. s = PIPELINE_EVENT_SEQUENCE
      BY <2>2 DEF Sequence
    <3>2. k = 5 /\ s[4] = "FILE_UPLOADED" /\ s[5] = "DOCUMENT_PARSED"
      BY <3>1, Positions
    <3> QED
      BY <2>1, <2>2, <3>2
  <2>3. CASE plan.kind[r] # "attachment"
    <3>1. s = STANDARD_PROMPT_EVENTS
      BY <2>3 DEF Sequence
    <3>2. k = 3
      BY <3>1, Positions
    <3> QED
      BY <2>1, <2>3, <3>2
  <2> QED
    BY <2>2, <2>3
<1> PICK n \in 0 .. Len(s) :
        /\ Emits(r, n, k)
        /\ \/ completed[r] = First(s, n)
           \/ /\ completed[r] = Append(First(s, n), "SESSION_EXPIRED")
              /\ pc[r] \in {"cut", "clear", "close", "release"} /\ err[r] # "none"
  BY DEF GateInv, GateAt
<1> Raised(r)
  BY DEF GateInv
<1> USE DEF Emits, Raised, BeforeDispatch, Go, Raise, work
<1>first. ASSUME NEW m \in 0 .. Len(s), Emits(r, m, k)', Raised(r)',
                 \/ completed'[r] = First(s, m)
                 \/ /\ completed'[r] = Append(First(s, m), "SESSION_EXPIRED")
                    /\ pc'[r] \in {"cut", "clear", "close", "release"} /\ err'[r] # "none"
          PROVE  Raised(r)' /\ \E i \in 0 .. Len(Sequence(r)') : GateAt(r, i)'
  BY <1>first DEF GateAt
<1>same. ASSUME completed' = completed, Raised(r)', Emits(r, n, k)',
                pc[r] \in {"cut", "clear", "close", "release"} /\ err[r] # "none" =>
                    pc'[r] \in {"cut", "clear", "close", "release"} /\ err'[r] # "none"
         PROVE  Raised(r)' /\ \E i \in 0 .. Len(Sequence(r)') : GateAt(r, i)'
  BY <1>same, <1>first
<1>emitted. ASSUME pc[r] = "wait"
            PROVE  /\ completed[r] = First(s, n)
                   /\ Emitted(r, "THINKING_STARTED") <=> k + 4 <= n
                   /\ Emitted(r, "STREAMING_GENERATION") <=> k + 5 <= n
  <2>1. k + 4 \in DOMAIN s /\ k + 5 \in DOMAIN s
    BY <1>k
  <2>2. completed[r] = First(s, n)
    BY <1>emitted
  <2>3. (s[k + 4] \in ToSet(First(s, n)) <=> k + 4 <= n) /\ (s[k + 5] \in ToSet(First(s, n)) <=> k + 5 <= n)
    BY <2>1, FirstEmitted
  <2> QED
    BY <1>k, <2>2, <2>3 DEF Emitted
<1>1. CASE NotStarted(r)
  <2>1. completed' = completed
    BY <1>1 DEF NotStarted
  <2> QED
    BY <1>1, <2>1, <1>same DEF NotStarted
<1>2. CASE Preflight(r)
  <2>1. completed' = completed
    BY <1>2 DEF Preflight
  <2> QED
    BY <1>2, <2>1, <1>same DEF Preflight
<1>3. CASE Launch(r)
  <2>1. completed' = completed
    BY <1>3 DEF Launch
  <2> QED
    BY <1>3, <2>1, <1>same DEF Launch
<1>4. CASE SetActiveContext(r)
  <2>1. completed' = completed
    BY <1>4 DEF SetActiveContext
  <2> QED
    BY <1>4, <2>1, <1>same DEF SetActiveContext
<1>5. CASE CheckLaunch(r)
  <2>1. completed' = completed
    BY <1>5 DEF CheckLaunch
  <2> QED
    BY <1>5, <2>1, <1>same DEF CheckLaunch
<1>6. CASE LoadWeb(r)
  <2>1. pc[r] = "load" /\ Emit(r, "WEB_LOADED", "login", "clear")
    BY <1>6 DEF LoadWeb, Page
  <2>2. n + 1 \in 0 .. Len(s) /\ s[n + 1] = "WEB_LOADED"
    BY <2>1, <1>k, <1>page
  <2>3. pc'[r] = "login" /\ err' = err /\ completed'[r] = First(s, n + 1)
    <3>1. completed[r] = First(s, n) /\ n < Len(s) /\ n \in Nat
      BY <2>1, <2>2, <1>k
    <3>2. Emit(r, s[n + 1], "login", "clear")
      BY <2>1, <2>2
    <3> QED
      BY ZenonT(40), <3>1, <3>2, EmitNext
  <2>4. Emits(r, n + 1, k)' /\ Raised(r)'
    BY <2>1, <2>2, <2>3, <1>k, <1>page DEF Proceed
  <2> QED
    BY <2>2, <2>3, <2>4, <1>first
<1>7. CASE VerifyLogin(r)
  <2>1. pc[r] = "login" /\ Emit(r, "LOGIN_VERIFIED", "model", "clear")
    BY <1>7 DEF VerifyLogin, Page
  <2>2. n + 1 \in 0 .. Len(s) /\ s[n + 1] = "LOGIN_VERIFIED"
    BY <2>1, <1>k, <1>page
  <2>3. pc'[r] = "model" /\ err' = err /\ completed'[r] = First(s, n + 1)
    <3>1. completed[r] = First(s, n) /\ n < Len(s) /\ n \in Nat
      BY <2>1, <2>2, <1>k
    <3>2. Emit(r, s[n + 1], "model", "clear")
      BY <2>1, <2>2
    <3> QED
      BY ZenonT(40), <3>1, <3>2, EmitNext
  <2>4. Emits(r, n + 1, k)' /\ Raised(r)'
    BY <2>1, <2>2, <2>3, <1>k, <1>page DEF Proceed
  <2> QED
    BY <2>2, <2>3, <2>4, <1>first
<1>8. CASE VerifyModel(r)
  <2>0. PICK to : to = IF plan.kind[r] = "attachment" THEN "upload" ELSE "dispatch"
    OBVIOUS
  <2>1. pc[r] = "model" /\ Emit(r, "MODEL_VERIFIED", to, "clear")
    BY <1>8, <2>0 DEF VerifyModel, Page
  <2>2. n + 1 \in 0 .. Len(s) /\ s[n + 1] = "MODEL_VERIFIED"
    BY <2>1, <1>k, <1>page
  <2>3. pc'[r] = to /\ err' = err /\ completed'[r] = First(s, n + 1)
    <3>1. completed[r] = First(s, n) /\ n < Len(s) /\ n \in Nat
      BY <2>1, <2>2, <1>k
    <3>2. Emit(r, s[n + 1], to, "clear")
      BY <2>1, <2>2
    <3> QED
      BY ZenonT(40), <3>1, <3>2, EmitNext
  <2>4. Emits(r, n + 1, k)' /\ Raised(r)'
    BY <2>0, <2>1, <2>2, <2>3, <1>k, <1>page DEF Proceed
  <2> QED
    BY <2>2, <2>3, <2>4, <1>first
<1>9. CASE UploadFile(r)
  <2>1. pc[r] = "upload" /\ Emit(r, "FILE_UPLOADED", "parse", "clear")
    BY <1>9 DEF UploadFile, Page
  <2>2. n + 1 \in 0 .. Len(s) /\ s[n + 1] = "FILE_UPLOADED"
    BY <2>1, <1>k, <1>page
  <2>3. pc'[r] = "parse" /\ err' = err /\ completed'[r] = First(s, n + 1)
    <3>1. completed[r] = First(s, n) /\ n < Len(s) /\ n \in Nat
      BY <2>1, <2>2, <1>k
    <3>2. Emit(r, s[n + 1], "parse", "clear")
      BY <2>1, <2>2
    <3> QED
      BY ZenonT(40), <3>1, <3>2, EmitNext
  <2>4. Emits(r, n + 1, k)' /\ Raised(r)'
    BY <2>1, <2>2, <2>3, <1>k, <1>page DEF Proceed
  <2> QED
    BY <2>2, <2>3, <2>4, <1>first
<1>10. CASE ParseDocument(r)
  <2>1. pc[r] = "parse" /\ Emit(r, "DOCUMENT_PARSED", "dispatch", "clear")
    BY <1>10 DEF ParseDocument, Page
  <2>2. n + 1 \in 0 .. Len(s) /\ s[n + 1] = "DOCUMENT_PARSED"
    BY <2>1, <1>k, <1>page
  <2>3. pc'[r] = "dispatch" /\ err' = err /\ completed'[r] = First(s, n + 1)
    <3>1. completed[r] = First(s, n) /\ n < Len(s) /\ n \in Nat
      BY <2>1, <2>2, <1>k
    <3>2. Emit(r, s[n + 1], "dispatch", "clear")
      BY <2>1, <2>2
    <3> QED
      BY ZenonT(40), <3>1, <3>2, EmitNext
  <2>4. Emits(r, n + 1, k)' /\ Raised(r)'
    BY <2>1, <2>2, <2>3, <1>k, <1>page DEF Proceed
  <2> QED
    BY <2>2, <2>3, <2>4, <1>first
<1>11. CASE PageFails(r)
  <2>1. PICK es \in {<<>>, <<"SESSION_EXPIRED">>} : completed' = [completed EXCEPT ![r] = @ \o es]
    BY <1>11 DEF PageFails, Expiry
  <2>2. /\ pc[r] \in {"load", "login", "model", "upload", "parse"}
        /\ pc'[r] \in {"cut", "clear"} /\ err'[r] # "none" /\ err'[r] # "gate"
    BY <1>11 DEF PageFails
  <2>3. completed[r] = First(s, n) /\ completed'[r] = First(s, n) \o es
    BY <2>1, <2>2
  <2>4. First(s, n) \o <<>> = First(s, n)
        /\ First(s, n) \o <<"SESSION_EXPIRED">> = Append(First(s, n), "SESSION_EXPIRED")
    BY FirstEvents
  <2>5. completed'[r] = First(s, n) \/ completed'[r] = Append(First(s, n), "SESSION_EXPIRED")
    BY <2>3, <2>4
  <2>6. n \in 0 .. k + 5
    BY <2>2, <1>k, <1>page
  <2>7. Emits(r, n, k)' /\ Raised(r)'
    BY <2>2, <2>6
  <2> QED
    BY <2>2, <2>5, <2>7, <1>first
<1>12. CASE StartDispatch(r)
  <2>1. completed' = completed
    BY <1>12 DEF StartDispatch
  <2> QED
    BY <1>12, <2>1, <1>same DEF StartDispatch
<1>13. CASE Inject(r)
  <2>1. pc[r] \in {"inject"} /\ Emit(r, "PROMPT_INJECTED", "send", "failing")
    BY <1>13 DEF Inject, Attempt
  <2>2. n + 1 \in 0 .. Len(s) /\ s[n + 1] = "PROMPT_INJECTED"
    BY <2>1, <1>k
  <2>3. pc'[r] = "send" /\ err' = err /\ completed'[r] = First(s, n + 1)
    <3>1. completed[r] = First(s, n) /\ n < Len(s) /\ n \in Nat
      BY <2>1, <2>2, <1>k
    <3>2. Emit(r, s[n + 1], "send", "failing")
      BY <2>1, <2>2
    <3> QED
      BY ZenonT(40), <3>1, <3>2, EmitNext
  <2>4. Emits(r, n + 1, k)' /\ Raised(r)'
    BY <2>1, <2>2, <2>3, <1>k
  <2> QED
    BY <2>2, <2>3, <2>4, <1>first
<1>14. CASE ClickSend(r)
  <2>1. pc[r] \in {"send"} /\ Emit(r, "SEND_CLICKED", "ack", "failing")
    BY <1>14 DEF ClickSend, Attempt
  <2>2. n + 1 \in 0 .. Len(s) /\ s[n + 1] = "SEND_CLICKED"
    BY <2>1, <1>k
  <2>3. pc'[r] = "ack" /\ err' = err /\ completed'[r] = First(s, n + 1)
    <3>1. completed[r] = First(s, n) /\ n < Len(s) /\ n \in Nat
      BY <2>1, <2>2, <1>k
    <3>2. Emit(r, s[n + 1], "ack", "failing")
      BY <2>1, <2>2
    <3> QED
      BY ZenonT(40), <3>1, <3>2, EmitNext
  <2>4. Emits(r, n + 1, k)' /\ Raised(r)'
    BY <2>1, <2>2, <2>3, <1>k
  <2> QED
    BY <2>2, <2>3, <2>4, <1>first
<1>15. CASE Acknowledge(r)
  <2>1. pc[r] \in {"ack", "enter"} /\ Emit(r, "DISPATCH_ACKNOWLEDGED", "wait", "failing")
    BY <1>15 DEF Acknowledge, Attempt
  <2>2. n + 1 \in 0 .. Len(s) /\ s[n + 1] = "DISPATCH_ACKNOWLEDGED"
    BY <2>1, <1>k
  <2>3. pc'[r] = "wait" /\ err' = err /\ completed'[r] = First(s, n + 1)
    <3>1. completed[r] = First(s, n) /\ n < Len(s) /\ n \in Nat
      BY <2>1, <2>2, <1>k
    <3>2. Emit(r, s[n + 1], "wait", "failing")
      BY <2>1, <2>2
    <3> QED
      BY ZenonT(40), <3>1, <3>2, EmitNext
  <2>4. Emits(r, n + 1, k)' /\ Raised(r)'
    BY SMTT(20), <2>1, <2>2, <2>3, <1>k
  <2> QED
    BY <2>2, <2>3, <2>4, <1>first
<1>16. CASE PressEnter(r)
  <2>1. completed' = completed
    BY <1>16 DEF PressEnter
  <2> QED
    BY <1>16, <2>1, <1>same DEF PressEnter
<1>17. CASE DispatchFails(r)
  <2>1. completed' = completed
    BY <1>17 DEF DispatchFails
  <2> QED
    BY <1>17, <2>1, <1>same, <1>k DEF DispatchFails
<1>18. CASE Think(r)
  <2>1. pc[r] = "wait" /\ Emit(r, "THINKING_STARTED", "wait", "raised")
    BY <1>18 DEF Think, Progress, Poll
  <2>2. n = k + 3
    BY <1>18, <2>1, <1>emitted, <1>k DEF Think
  <2>3. n + 1 \in 0 .. Len(s) /\ s[n + 1] = "THINKING_STARTED"
    BY SMTT(20), <2>2, <1>k
  <2>4. pc'[r] = "wait" /\ err' = err /\ completed'[r] = First(s, n + 1)
    <3>1. completed[r] = First(s, n) /\ n < Len(s) /\ n \in Nat
      BY <2>1, <2>2, <1>k, <1>emitted
    <3>2. Emit(r, s[n + 1], "wait", "raised")
      BY <2>1, <2>3
    <3> QED
      BY ZenonT(40), <3>1, <3>2, EmitNext
  <2>5. Emits(r, n + 1, k)' /\ Raised(r)'
    BY <2>1, <2>2, <2>3, <2>4, <1>k
  <2> QED
    BY <2>3, <2>4, <2>5, <1>first
<1>19. CASE Stream(r)
  <2>1. pc[r] = "wait" /\ Emit(r, "STREAMING_GENERATION", "wait", "raised")
    BY <1>19 DEF Stream, Progress, Poll
  <2>2. n = k + 4
    BY <1>19, <2>1, <1>emitted, <1>k DEF Stream
  <2>3. n + 1 \in 0 .. Len(s) /\ s[n + 1] = "STREAMING_GENERATION"
    BY <2>2, <1>k
  <2>4. pc'[r] = "wait" /\ err' = err /\ completed'[r] = First(s, n + 1)
    <3>1. completed[r] = First(s, n) /\ n < Len(s) /\ n \in Nat
      BY <2>1, <2>2, <1>k, <1>emitted
    <3>2. Emit(r, s[n + 1], "wait", "raised")
      BY <2>1, <2>3
    <3> QED
      BY ZenonT(40), <3>1, <3>2, EmitNext
  <2>5. Emits(r, n + 1, k)' /\ Raised(r)'
    BY <2>1, <2>2, <2>3, <2>4, <1>k
  <2> QED
    BY <2>3, <2>4, <2>5, <1>first
<1>20. CASE Finish(r)
  <2>1. pc[r] = "wait" /\ Emit(r, "GENERATION_FINISHED", "clear", "raised")
    BY <1>20 DEF Finish, Progress, Poll
  <2>2. n = k + 5
    BY <1>20, <2>1, <1>emitted, <1>k DEF Finish
  <2>3. n + 1 \in 0 .. Len(s) /\ s[n + 1] = "GENERATION_FINISHED"
    BY <2>2, <1>k
  <2>4. pc'[r] = "clear" /\ err' = err /\ completed'[r] = First(s, n + 1)
    <3>1. completed[r] = First(s, n) /\ n < Len(s) /\ n \in Nat
      BY <2>1, <2>2, <1>k, <1>emitted
    <3>2. Emit(r, s[n + 1], "clear", "raised")
      BY <2>1, <2>3
    <3> QED
      BY ZenonT(40), <3>1, <3>2, EmitNext
  <2>5. Emits(r, n + 1, k)' /\ Raised(r)'
    BY <2>1, <2>2, <2>3, <2>4, <1>k
  <2> QED
    BY <2>3, <2>4, <2>5, <1>first
<1>21. CASE MonitorRaises(r)
  <2>1. completed' = completed
    BY <1>21 DEF MonitorRaises
  <2> QED
    BY <1>21, <2>1, <1>same DEF MonitorRaises
<1>22. CASE SeeCancel(r)
  <2>1. completed' = completed
    BY <1>22 DEF SeeCancel
  <2> QED
    BY <1>22, <2>1, <1>same DEF SeeCancel
<1>23. CASE GiveUp(r)
  <2>1. completed' = completed
    BY <1>23 DEF GiveUp
  <2> QED
    BY <1>23, <2>1, <1>same DEF GiveUp
<1>24. CASE Retry(r)
  <2>1. pc[r] = "raised" /\ pc'[r] = "sleep" /\ err' = err
        /\ completed' = [completed EXCEPT ![r] = RolledBack(s, completed[r])]
    BY <1>24 DEF Retry
  <2>2. completed[r] = First(s, n) /\ k <= n
    BY <2>1, <1>k
  <2>3. completed'[r] = First(s, k) /\ k \in 0 .. Len(s)
    BY SMTT(20), <2>1, <2>2, <1>k, FirstRolledBack
  <2>4. Emits(r, k, k)' /\ Raised(r)'
    BY <2>1
  <2> QED
    BY <2>3, <2>4, <1>first
<1>25. CASE Wake(r)
  <2>1. completed' = completed
    BY <1>25 DEF Wake
  <2> QED
    BY <1>25, <2>1, <1>same DEF Wake
<1>26. CASE Fails(r)
  <2>1. PICK es \in {<<>>, <<"SESSION_EXPIRED">>} : completed' = [completed EXCEPT ![r] = @ \o es]
    BY <1>26 DEF Fails, Expiry
  <2>2. /\ pc[r] \in {"failing"}
        /\ pc'[r] \in {"cut", "clear"} /\ err'[r] # "none" /\ err'[r] # "gate"
    BY <1>26 DEF Fails
  <2>3. completed[r] = First(s, n) /\ completed'[r] = First(s, n) \o es
    BY <2>1, <2>2
  <2>4. First(s, n) \o <<>> = First(s, n)
        /\ First(s, n) \o <<"SESSION_EXPIRED">> = Append(First(s, n), "SESSION_EXPIRED")
    BY FirstEvents
  <2>5. completed'[r] = First(s, n) \/ completed'[r] = Append(First(s, n), "SESSION_EXPIRED")
    BY <2>3, <2>4
  <2>6. n \in 0 .. k + 5
    BY <2>2, <1>k, <1>page
  <2>7. Emits(r, n, k)' /\ Raised(r)'
    BY <2>2, <2>6
  <2> QED
    BY <2>2, <2>5, <2>7, <1>first
<1>27. CASE CutWithoutText(r)
  <2>1. pc[r] = "cut" /\ pc'[r] = "clear" /\ err' = err
    BY <1>27 DEF CutWithoutText, Cut
  <2>2. completed' = completed
    BY <1>27 DEF CutWithoutText
  <2> QED
    BY <2>1, <2>2, <1>same
<1>28. CASE CutSaves(r)
  <2>1. pc[r] = "cut" /\ pc'[r] = "clear" /\ err' = err
    BY <1>28 DEF CutSaves, Cut
  <2>2. n \in 0 .. Len(s) - 2
    BY <2>1, <1>k
  <2>3. ~Accepts(s, completed[r], "OUTPUT_COPIED")
    BY <2>2, TerminalRefused
  <2>4. completed' = completed
    BY <1>28, <2>3 DEF CutSaves
  <2> QED
    BY <2>1, <2>4, <1>same
<1>29. CASE CutSaveFails(r)
  <2>1. pc[r] = "cut" /\ pc'[r] = "clear" /\ err' = err
    BY <1>29 DEF CutSaveFails, Cut
  <2>2. completed' = completed
    BY <1>29 DEF CutSaveFails
  <2> QED
    BY <2>1, <2>2, <1>same
<1>30. CASE ClearContext(r)
  <2>1. completed' = completed /\ err' = err
    BY <1>30 DEF ClearContext
  <2> QED
    BY <1>30, <2>1, <1>same DEF ClearContext
<1>31. CASE CloseSession(r)
  <2>1. completed' = completed /\ err' = err
    BY <1>31 DEF CloseSession
  <2> QED
    BY <1>31, <2>1, <1>same DEF CloseSession
<1>32. CASE Save(r)
  <2>1. pc[r] = "save" /\ Emit(r, "OUTPUT_COPIED", "release", "release")
    BY <1>32 DEF Save
  <2>2. n = k + 6 /\ n + 1 \in 0 .. Len(s) /\ s[n + 1] = "OUTPUT_COPIED"
    BY <2>1, <1>k
  <2>3. pc'[r] = "release" /\ err' = err /\ completed'[r] = First(s, n + 1)
    <3>1. completed[r] = First(s, n) /\ n < Len(s) /\ n \in Nat
      BY <2>1, <2>2, <1>k
    <3>2. Emit(r, s[n + 1], "release", "release")
      BY <2>1, <2>2
    <3> QED
      BY ZenonT(40), <3>1, <3>2, EmitNext
  <2>4. Emits(r, n + 1, k)' /\ Raised(r)'
    BY <2>1, <2>2, <2>3, <1>k
  <2> QED
    BY <2>2, <2>3, <2>4, <1>first
<1>33. CASE SaveFails(r)
  <2>1. completed' = completed
    BY <1>33 DEF SaveFails
  <2> QED
    BY <1>33, <2>1, <1>same DEF SaveFails
<1>34. CASE Release(r)
  <2>1. pc'[r] = "ended" /\ completed'[r] = <<>> /\ err' = err
    BY <1>34 DEF Release, Return
  <2>2. First(s, 0) = <<>> /\ 0 \in 0 .. Len(s)
    BY <1>k, FirstEvents
  <2>3. Emits(r, 0, k)' /\ Raised(r)'
    BY <2>1
  <2> QED
    BY <2>1, <2>2, <2>3, <1>first
<1> QED
  BY <1>1, <1>2, <1>3, <1>4, <1>5, <1>6, <1>7, <1>8, <1>9, <1>10, <1>11, <1>12, <1>13, <1>14, <1>15,
     <1>16, <1>17, <1>18, <1>19, <1>20, <1>21, <1>22, <1>23, <1>24, <1>25, <1>26, <1>27, <1>28,
     <1>29, <1>30, <1>31, <1>32, <1>33, <1>34 DEF Proceed, Prepare, Open, Dispatch, Conclude

\* What the gate's invariant says of a run that did not move.
LEMMA GateKept ==
  ASSUME GateInv, NEW r \in Runs, plan' = plan, pc'[r] = pc[r], completed'[r] = completed[r], err'[r] = err[r]
  PROVE  Raised(r)' /\ \E n \in 0 .. Len(Sequence(r)') : GateAt(r, n)'
<1>1. Sequence(r)' = Sequence(r)
  BY DEF Sequence
<1>2. PICK n \in 0 .. Len(Sequence(r)) : GateAt(r, n)
  BY DEF GateInv
<1>3. GateAt(r, n)'
  BY <1>1, <1>2 DEF GateAt, Emits
<1>4. Raised(r)'
  BY DEF GateInv, Raised
<1> QED
  BY <1>1, <1>2, <1>3, <1>4

\* Every step keeps the completed events an initial part of the sequence.
LEMMA NextGate == TypeOK /\ CountInv /\ GateInv /\ [Next]_vars => GateInv'
<1> SUFFICES ASSUME TypeOK, CountInv, GateInv, [Next]_vars, NEW q \in Runs
             PROVE  (Raised(q) /\ \E n \in 0 .. Len(Sequence(q)) : GateAt(q, n))'
  BY DEF GateInv
<1>1. ASSUME NEW r \in Runs, Register(r)
      PROVE  (Raised(q) /\ \E n \in 0 .. Len(Sequence(q)) : GateAt(q, n))'
  <2>1. /\ plan' = plan /\ completed' = completed /\ err' = err
        /\ pc[r] = "new" /\ pc' = [pc EXCEPT ![r] = "preflight"]
    BY <1>1 DEF Register, Go, work
  <2>2. CASE q = r
    <3>1. Sequence(r)' = Sequence(r) /\ pc'[r] = "preflight"
      BY <2>1 DEF Sequence, TypeOK
    <3>2. PICK n \in 0 .. Len(Sequence(r)) : GateAt(r, n)
      BY DEF GateInv
    <3>3. GateAt(r, n)'
      BY <2>1, <3>1, <3>2 DEF GateAt, Emits
    <3>4. Raised(r)'
      BY <2>1, <3>1 DEF GateInv, Raised, BeforeDispatch
    <3> QED
      BY <2>2, <3>1, <3>2, <3>3, <3>4
  <2>3. CASE q # r
    BY <2>1, <2>3, GateKept DEF TypeOK
  <2> QED
    BY <2>2, <2>3
<1>2. ASSUME NEW r \in Runs, Proceed(r)
      PROVE  (Raised(q) /\ \E n \in 0 .. Len(Sequence(q)) : GateAt(q, n))'
  <2>1. CASE q = r
    BY <1>2, <2>1, ProceedGate
  <2>2. CASE q # r
    <3>1. Frame(r)
      BY <1>2, RunStep
    <3>2. plan' = plan /\ pc'[q] = pc[q] /\ completed'[q] = completed[q] /\ err'[q] = err[q]
      BY <2>2, <3>1 DEF Frame, TypeOK
    <3> QED
      BY <3>2, GateKept
  <2> QED
    BY <2>1, <2>2
<1>3. ASSUME NEW c \in Cancellers, CancelStep(c)
      PROVE  (Raised(q) /\ \E n \in 0 .. Len(Sequence(q)) : GateAt(q, n))'
  <2>1. UNCHANGED <<plan, pc, completed, err>>
    BY <1>3 DEF CancelStep, ResolveEvent, FindState, SetEvent, ReadContext, CloseContext, work
  <2> QED
    BY <2>1, GateKept
<1>4. CASE UNCHANGED vars
  BY <1>4, GateKept DEF vars, work
<1> QED
  BY <1>1, <1>2, <1>3, <1>4 DEF Next

\* So what is completed is completed in order.
LEMMA GateInOrder == GateInv => GateOrder
<1> SUFFICES ASSUME GateInv, NEW r \in Runs
             PROVE  IsPrefix(Milestones(r), Sequence(r)) /\ err[r] # "gate"
  BY DEF GateOrder
<1>1. PICK s \in Sequences : s = Sequence(r)
  BY SequenceType
<1>2. PICK n \in 0 .. Len(s) :
        completed[r] = First(s, n) \/ completed[r] = Append(First(s, n), "SESSION_EXPIRED")
  BY <1>1 DEF GateInv, GateAt
<1>3. /\ 1 \in DOMAIN s /\ First(s, n) \in Seq(Events) /\ Len(First(s, n)) = n /\ n \in Nat
      /\ IsPrefix(First(s, n), s)
  BY FirstEvents, Positions
<1>0. err[r] # "gate"
  BY DEF GateInv, Raised
<1>4. CASE completed[r] = First(s, n)
  BY <1>0, <1>1, <1>3, <1>4, FirstEmitted DEF Milestones, Emitted
<1>5. CASE completed[r] = Append(First(s, n), "SESSION_EXPIRED")
  <2>1. /\ Len(completed[r]) = n + 1 /\ completed[r][n + 1] = "SESSION_EXPIRED"
        /\ DOMAIN completed[r] = 1 .. n + 1 /\ SubSeq(completed[r], 1, n) = First(s, n)
    BY <1>3, <1>5, KnownEvents
  <2>2. Emitted(r, "SESSION_EXPIRED")
    BY <1>3, <2>1 DEF Emitted, ToSet
  <2>3. Milestones(r) = First(s, n)
    BY <1>3, <2>1, <2>2 DEF Milestones
  <2> QED
    BY <1>0, <1>1, <1>3, <2>3
<1> QED
  BY <1>2, <1>4, <1>5

\* Whatever is retried, the gate's record is the beginning of the run's event
\* sequence, but for an expiry at its end, and it refuses no event the run
\* emits while it works (LifecycleGate.emit and reset).
THEOREM EventsInOrder == Spec => []GateOrder
<1>1. Spec => [](TypeOK /\ CountInv /\ GateInv)
  BY InitTypes, NextTypes, InitGate, NextGate, PTL DEF Spec
<1> QED
  BY <1>1, GateInOrder, PTL

-----------------------------------------------------------------------------
(* The verdict *)

Early == Labels \ {"clear", "close", "save", "release", "ended"}
Late == {"clear", "close", "release", "ended"}

\* What the configuration grants to the error that ended the dispatch is used up.
Spent(r) ==
    /\ err[r] = "stuck" => stalls[r] = plan.budget \/ attempt[r] = plan.attempts
    /\ err[r] = "timeout" => attempt[r] = plan.attempts

\* What a run has written and concluded, where it stands.
Concluded(r) ==
    /\ pc[r] \in Early \cup {"save"} => file[r] = "none" /\ verdict[r] = "none"
    /\ pc[r] \in {"clear", "close"} /\ err[r] = "none" => file[r] = "none" /\ verdict[r] = "none"
    /\ err[r] = "cancelled" => file[r] = "none" /\ verdict[r] = "none"
    /\ verdict[r] = "complete" =>
         /\ pc[r] \in {"release", "ended"} /\ err[r] = "none" /\ file[r] = "full"
         /\ pc[r] = "release" => completed[r] = Sequence(r)
    /\ verdict[r] \in {"stalled", "incomplete"} =>
         /\ pc[r] \in Late /\ err[r] = (IF verdict[r] = "stalled" THEN "stuck" ELSE "timeout")
         /\ file[r] # "full" /\ ~Emitted(r, "GENERATION_FINISHED")
         /\ pc[r] # "ended" => Spent(r)
    /\ pc[r] \in {"failing", "cut"} => Spent(r)
    /\ pc[r] = "cut" => err[r] \in {"stuck", "timeout"}
    /\ stalls[r] <= plan.budget

ConcludedInv == \A r \in Runs : Concluded(r)

\* No run is concluded at the start.
LEMMA InitConcluded == Init => ConcludedInv
BY PromptRunAssumption DEF Init, ConcludedInv, Concluded

\* Before its dispatch is over a run writes nothing; it fails with what it was
\* granted used up.
LEMMA EarlyStep ==
  ASSUME TypeOK, NEW r \in Runs, Concluded(r), plan' = plan, pc[r] \in Early,
         pc'[r] \in Early \cup {"clear", "release"}, pc'[r] # "cut",
         file'[r] = file[r], verdict'[r] = verdict[r],
         stalls'[r] <= plan.budget, pc'[r] = "failing" => Spent(r)'
  PROVE  Concluded(r)'
BY DEF Concluded, Early, Late, Labels

\* A run that has been cut or has ended otherwise goes on to its release with
\* what it has concluded.
LEMMA LateStep ==
  ASSUME TypeOK, NEW r \in Runs, Concluded(r), plan' = plan,
         pc[r] \in {"clear", "close"}, pc'[r] \in {"close", "save", "release"},
         pc'[r] = "save" => err[r] = "none",
         UNCHANGED <<work, err, outcome>>
  PROVE  Concluded(r)'
BY DEF Concluded, Early, Late, Labels, work, outcome, Emitted, Spent

\* A cut run has not seen the end of its answer.
LEMMA CutStep ==
  ASSUME TypeOK, GateInv, NEW r \in Runs, Concluded(r), plan' = plan, Cut(r),
         CutWithoutText(r) \/ CutSaves(r) \/ CutSaveFails(r)
  PROVE  Concluded(r)'
<1> PICK s \in Sequences : s = Sequence(r)
  BY SequenceType
<1> PICK k : k = AttemptBoundary(s)
  OBVIOUS
<1>k. k \in {3, 5} /\ Len(s) = k + 7 /\ DOMAIN s = 1 .. k + 7 /\ s[k + 6] = "GENERATION_FINISHED"
  BY Positions
<1>1. PICK n \in 0 .. Len(s) :
         /\ Emits(r, n, k)
         /\ completed[r] = First(s, n) \/ completed[r] = Append(First(s, n), "SESSION_EXPIRED")
  BY DEF GateInv, GateAt
<1>2. pc[r] = "cut" /\ pc'[r] = "clear" /\ err' = err /\ attempt' = attempt /\ stalls' = stalls
  BY DEF Cut, Go, TypeOK
<1>3. n \in 0 .. k + 5 /\ n \in 0 .. Len(s) - 2
  BY <1>1, <1>2, <1>k DEF Emits
<1>4. ~Emitted(r, "GENERATION_FINISHED")
  <2>1. k + 6 \in DOMAIN s /\ ~(k + 6 <= n)
    BY <1>3, <1>k
  <2>2. "GENERATION_FINISHED" \notin ToSet(First(s, n))
    BY <2>1, <1>k, FirstEmitted
  <2>3. First(s, n) \in Seq(Events) /\ "SESSION_EXPIRED" \in Events
    BY FirstEvents, KnownEvents
  <2>4. ToSet(Append(First(s, n), "SESSION_EXPIRED")) \subseteq ToSet(First(s, n)) \cup {"SESSION_EXPIRED"}
    BY <2>3 DEF ToSet
  <2>5. "GENERATION_FINISHED" \notin ToSet(Append(First(s, n), "SESSION_EXPIRED"))
    BY <2>2, <2>4
  <2> QED
    BY <1>1, <2>2, <2>5 DEF Emitted
<1>5. completed' = completed
  <2>1. ~Accepts(s, completed[r], "OUTPUT_COPIED")
    BY <1>1, <1>3, TerminalRefused
  <2> QED
    BY <2>1 DEF CutWithoutText, CutSaves, CutSaveFails
<1>6. file[r] = "none" /\ file'[r] \in {"none", "partial"}
  BY <1>2 DEF Concluded, Early, Labels, OnPage, CutWithoutText, CutSaves, CutSaveFails, TypeOK
<1>7. verdict'[r] = IF err[r] = "stuck" THEN "stalled" ELSE "incomplete"
  BY DEF Cut, TypeOK
<1>8. Spent(r)' /\ err[r] \in {"stuck", "timeout"} /\ ~Emitted(r, "GENERATION_FINISHED")'
  BY <1>2, <1>4, <1>5 DEF Concluded, Spent, Emitted
<1> QED
  BY <1>2, <1>6, <1>7, <1>8 DEF Concluded, Early, Late

\* A run's own steps conclude it as its work and its events say.
LEMMA ProceedConcluded ==
  ASSUME TypeOK, CountInv, GateInv, NEW r \in Runs, Concluded(r), Proceed(r)
  PROVE  Concluded(r)'
<1>p. plan' = plan /\ Frame(r) /\ Typed(r)'
  BY RunStep DEF Proceed
<1>r. Raised(r) /\ plan.attempts \in Nat \ {0} /\ plan.budget \in Nat
  BY PlanType DEF GateInv
<1>b. stalls[r] <= plan.budget /\ stalls[r] \in 0 .. plan.attempts /\ attempt[r] \in 0 .. plan.attempts
  BY DEF Concluded, TypeOK
<1> DEFINE Quiet == /\ pc[r] \in Early /\ pc'[r] \in Early \cup {"clear", "release"}
                    /\ file' = file /\ verdict' = verdict /\ stalls' = stalls
                    /\ pc'[r] \notin {"failing", "cut"}
<1>q. Quiet => Concluded(r)'
  BY <1>p, <1>b, EarlyStep
<1> USE DEF Go, Raise, outcome, work, Labels, OnPage, Dispatching, Early
<1>t. /\ pc \in [Runs -> Labels] /\ err \in [Runs -> Errors]
      /\ attempt \in [Runs -> 0 .. plan.attempts] /\ stalls \in [Runs -> 0 .. plan.attempts]
  BY DEF TypeOK, Errors
<1>1. CASE Prepare(r)
  <2>1. Quiet
    BY <1>1, <1>t DEF Prepare, NotStarted, Preflight, Launch, SetActiveContext, CheckLaunch
  <2> QED
    BY <2>1, <1>q
<1>2. CASE Open(r)
  <2>1. ASSUME NEW from \in {"load", "login", "model", "upload", "parse"},
               NEW to \in {"login", "model", "upload", "parse", "dispatch"},
               NEW e \in Events, Page(r, from, e, to)
        PROVE  Quiet
    BY <2>1, EmitStep DEF Page
  <2>2. CASE PageFails(r)
    BY <2>2, <1>t, <1>q DEF PageFails
  <2>3. CASE LoadWeb(r)
    BY <2>1, <2>3, KnownEvents, <1>q DEF LoadWeb
  <2>4. CASE VerifyLogin(r)
    BY <2>1, <2>4, KnownEvents, <1>q DEF VerifyLogin
  <2>5. CASE VerifyModel(r)
    BY <2>1, <2>5, KnownEvents, <1>q DEF VerifyModel
  <2>6. CASE UploadFile(r)
    BY <2>1, <2>6, KnownEvents, <1>q DEF UploadFile
  <2>7. CASE ParseDocument(r)
    BY <2>1, <2>7, KnownEvents, <1>q DEF ParseDocument
  <2> QED
    BY <1>2, <2>2, <2>3, <2>4, <2>5, <2>6, <2>7 DEF Open
<1>3. CASE Dispatch(r)
  <2> DEFINE Failed == err'[r] \notin {"stuck", "timeout"}
  <2>0. ASSUME pc[r] \in Early, pc'[r] \in Early \cup {"clear", "release"}, pc'[r] # "cut",
               file' = file, verdict' = verdict, stalls' = stalls, pc'[r] = "failing" => Failed
        PROVE  Concluded(r)'
    BY <2>0, <1>p, <1>b, EarlyStep DEF Spent
  <2>1. CASE StartDispatch(r)
    BY <2>1, <2>0, <1>t DEF StartDispatch
  <2>2. ASSUME NEW from \in {"inject", "send", "ack", "enter"}, NEW to \in {"send", "ack", "wait"},
               NEW e \in Events, Attempt(r, from, e, to)
        PROVE  Concluded(r)'
    <3>1. pc[r] = from /\ Emit(r, e, to, "failing") /\ stalls' = stalls /\ UNCHANGED outcome
      BY <2>2 DEF Attempt
    <3>2. pc'[r] \in {to, "failing"} /\ err'[r] \in {err[r], "gate"}
      BY <3>1, EmitStep
    <3>3. err[r] = "none"
      BY <3>1, <1>r DEF Raised
    <3> QED
      BY <3>1, <3>2, <3>3, <2>0
  <2>3. CASE Inject(r) \/ ClickSend(r) \/ Acknowledge(r)
    BY <2>2, <2>3, KnownEvents DEF Inject, ClickSend, Acknowledge
  <2>4. CASE PressEnter(r)
    BY <2>4, <2>0, <1>t DEF PressEnter
  <2>5. CASE DispatchFails(r)
    BY <2>5, <2>0, <1>t DEF DispatchFails
  <2>6. ASSUME NEW to \in {"wait", "clear"}, NEW e \in Events, Progress(r, e, to)
        PROVE  Concluded(r)'
    <3>1. pc[r] = "wait" /\ Emit(r, e, to, "raised") /\ stalls' = stalls /\ UNCHANGED outcome
      BY <2>6 DEF Progress, Poll
    <3>2. pc'[r] \in {to, "raised"}
      BY <3>1, EmitStep
    <3> QED
      BY <3>1, <3>2, <2>0
  <2>7. CASE Think(r) \/ Stream(r) \/ Finish(r)
    BY <2>6, <2>7, KnownEvents DEF Think, Stream, Finish
  <2>8. CASE MonitorRaises(r)
    BY <2>8, <2>0, <1>t DEF MonitorRaises
  <2>9. CASE SeeCancel(r)
    BY <2>9, <2>0, <1>t DEF SeeCancel
  <2>10. CASE GiveUp(r)
    <3>1. /\ pc[r] = "raised" /\ pc'[r] = "failing" /\ ~Retryable(r)
          /\ UNCHANGED <<err, stalls, attempt, file, verdict>>
      BY <2>10, <1>t DEF GiveUp
    <3>2. Spent(r)'
      BY <3>1, <1>p, <1>r, <1>b DEF Retryable, Spent
    <3> QED
      BY <3>1, <3>2, <1>p, <1>b, EarlyStep
  <2>11. CASE Retry(r)
    <3>1. /\ pc[r] = "raised" /\ pc'[r] = "sleep" /\ Retryable(r) /\ file' = file /\ verdict' = verdict
          /\ stalls'[r] = IF err[r] = "stuck" THEN stalls[r] + 1 ELSE stalls[r]
      BY <2>11, <1>t DEF Retry
    <3>2. stalls'[r] <= plan.budget
      BY <3>1, <1>r, <1>b DEF Retryable
    <3> QED
      BY <3>1, <3>2, <1>p, EarlyStep
  <2>12. CASE Wake(r)
    <3>1. pc[r] = "sleep" /\ stalls' = stalls /\ file' = file /\ verdict' = verdict
      BY <2>12 DEF Wake
    <3>2. CASE attempt[r] < plan.attempts
      BY <2>12, <3>1, <3>2, <2>0, <1>t DEF Wake
    <3>3. CASE ~(attempt[r] < plan.attempts)
      <4>1. pc'[r] = "failing" /\ attempt' = attempt
        BY <2>12, <3>3, <1>t DEF Wake
      <4>2. Spent(r)'
        BY <3>3, <4>1, <1>p, <1>r, <1>b DEF Spent
      <4> QED
        BY <3>1, <4>1, <4>2, <1>p, <1>b, EarlyStep
    <3> QED
      BY <3>2, <3>3
  <2> QED
    BY <1>3, <2>1, <2>3, <2>4, <2>5, <2>7, <2>8, <2>9, <2>10, <2>11, <2>12 DEF Dispatch
<1>4. CASE Conclude(r)
  <2>1. CASE Fails(r)
    <3>1. /\ pc[r] = "failing" /\ err' = err /\ UNCHANGED <<attempt, stalls, file, verdict>>
          /\ pc'[r] = IF err[r] \in {"stuck", "timeout"} THEN "cut" ELSE "clear"
      BY <2>1, <1>t DEF Fails
    <3>2. Spent(r)'
      BY <3>1, <1>p DEF Concluded, Spent
    <3> QED
      BY <3>1, <3>2, <1>p, <1>b DEF Concluded, Late
  <2>2. CASE CutWithoutText(r) \/ CutSaves(r) \/ CutSaveFails(r)
    BY <2>2, <1>p, CutStep DEF CutWithoutText, CutSaves, CutSaveFails
  <2>3. CASE ClearContext(r)
    BY <2>3, <1>p, <1>t, LateStep DEF ClearContext
  <2>4. CASE CloseSession(r)
    BY <2>4, <1>p, <1>t, LateStep DEF CloseSession
  <2>5. CASE Save(r)
    <3>1. /\ pc[r] = "save" /\ Emit(r, "OUTPUT_COPIED", "release", "release") /\ stalls' = stalls
          /\ file' = [file EXCEPT ![r] = "full"]
          /\ verdict' = [verdict EXCEPT ![r] = IF err'[r] = "none" THEN "complete" ELSE verdict[r]]
      BY <2>5 DEF Save
    <3>2. err[r] = "none" /\ verdict[r] = "none"
      BY <3>1, <1>r DEF Raised, Concluded
    <3> PICK s \in Sequences : s = Sequence(r) /\ s = Sequence(r)'
      BY <1>p, SequenceType DEF Sequence
    <3> PICK k : k = AttemptBoundary(s)
      OBVIOUS
    <3>k. /\ k \in {3, 5} /\ Len(s) = k + 7 /\ s \in Seq(Events) /\ s[k + 7] = "OUTPUT_COPIED"
      BY Positions
    <3>3. PICK n \in 0 .. Len(s) : Emits(r, n, k) /\ completed[r] = First(s, n)
      BY <3>1 DEF GateInv, GateAt
    <3>4. n = k + 6 /\ n \in Nat /\ n < Len(s) /\ n + 1 = k + 7
      BY <3>1, <3>2, <3>3, <3>k DEF Emits
    <3>5. Emit(r, s[n + 1], "release", "release")
      BY <3>1, <3>4, <3>k
    <3>6. pc'[r] = "release" /\ err' = err /\ completed'[r] = First(s, n + 1)
      <4>1. completed[r] = First(s, n) /\ n < Len(s) /\ n \in Nat
        BY <3>3, <3>4
      <4> QED
        BY ZenonT(40), <4>1, <3>5, EmitNext
    <3>7. First(s, n + 1) = s
      BY <3>4, <3>k DEF First
    <3>8. file'[r] = "full" /\ verdict'[r] = "complete"
      BY <3>1, <3>2, <3>6 DEF TypeOK
    <3> QED
      BY <3>1, <3>2, <3>6, <3>7, <3>8, <1>p, <1>b DEF Concluded, Late
  <2>6. CASE SaveFails(r)
    <3>1. /\ pc[r] = "save" /\ pc'[r] = "release" /\ err'[r] = "failed"
          /\ verdict' = verdict /\ stalls' = stalls
      BY <2>6, <1>t DEF SaveFails
    <3>2. verdict[r] = "none"
      BY <3>1 DEF Concluded
    <3> QED
      BY <3>1, <3>2, <1>p, <1>b DEF Concluded
  <2>7. CASE Release(r)
    <3>1. /\ pc[r] = "release" /\ pc'[r] = "ended" /\ UNCHANGED <<err, file, verdict>>
          /\ completed'[r] = <<>> /\ stalls'[r] = 0
      BY <2>7, <1>t DEF Release, Return, TypeOK
    <3>2. ~Emitted(r, "GENERATION_FINISHED")'
      BY <3>1 DEF Emitted, ToSet
    <3> QED
      BY <3>1, <3>2, <1>p, <1>r DEF Concluded, Late
  <2> QED
    BY <1>4, <2>1, <2>2, <2>3, <2>4, <2>5, <2>6, <2>7 DEF Conclude
<1> QED
  BY <1>1, <1>2, <1>3, <1>4 DEF Proceed

\* What is concluded stays so when nothing of the run changes.
LEMMA ConcludedKept ==
  ASSUME NEW r \in Runs, Concluded(r), plan' = plan, pc'[r] = pc[r], completed'[r] = completed[r],
         err'[r] = err[r], attempt'[r] = attempt[r], stalls'[r] = stalls[r],
         file'[r] = file[r], verdict'[r] = verdict[r]
  PROVE  Concluded(r)'
BY DEF Concluded, Emitted, Spent, Sequence

\* Every step keeps the verdicts of the runs in line with their work.
LEMMA NextConcluded == TypeOK /\ CountInv /\ GateInv /\ ConcludedInv /\ [Next]_vars => ConcludedInv'
<1> SUFFICES ASSUME TypeOK, CountInv, GateInv, ConcludedInv, [Next]_vars, NEW q \in Runs
             PROVE  Concluded(q)'
  BY DEF ConcludedInv
<1>0. Concluded(q)
  BY DEF ConcludedInv
<1>1. ASSUME NEW r \in Runs, Register(r) PROVE Concluded(q)'
  <2>1. /\ plan' = plan /\ pc[r] = "new" /\ pc' = [pc EXCEPT ![r] = "preflight"]
        /\ UNCHANGED <<completed, attempt, stalls, err, file, verdict>>
    BY <1>1 DEF Register, Go, work, outcome
  <2>2. CASE q = r
    <3>1. pc[q] = "new" /\ pc'[q] = "preflight"
      BY <2>1, <2>2 DEF TypeOK
    <3> QED
      BY <1>0, <2>1, <3>1 DEF Concluded, Early, Labels, OnPage, Late
  <2>3. CASE q # r
    BY <1>0, <2>1, <2>3, ConcludedKept DEF TypeOK
  <2> QED
    BY <2>2, <2>3
<1>2. ASSUME NEW r \in Runs, Proceed(r) PROVE Concluded(q)'
  <2>1. CASE q = r
    BY <1>0, <1>2, <2>1, ProceedConcluded
  <2>2. CASE q # r
    <3>1. Frame(r)
      BY <1>2, RunStep
    <3>2. /\ plan' = plan /\ pc'[q] = pc[q] /\ completed'[q] = completed[q] /\ err'[q] = err[q]
          /\ attempt'[q] = attempt[q] /\ stalls'[q] = stalls[q]
          /\ file'[q] = file[q] /\ verdict'[q] = verdict[q]
      BY <2>2, <3>1 DEF Frame, TypeOK
    <3> QED
      BY <1>0, <3>2, ConcludedKept
  <2> QED
    BY <2>1, <2>2
<1>3. ASSUME NEW c \in Cancellers, CancelStep(c) PROVE Concluded(q)'
  <2>1. UNCHANGED <<plan, pc, completed, attempt, stalls, err, file, verdict>>
    BY <1>3 DEF CancelStep, ResolveEvent, FindState, SetEvent, ReadContext, CloseContext, work, outcome
  <2> QED
    BY <1>0, <2>1, ConcludedKept
<1>4. CASE UNCHANGED vars
  BY <1>0, <1>4, ConcludedKept DEF vars, work, outcome
<1> QED
  BY <1>1, <1>2, <1>3, <1>4 DEF Next

\* A run that says "complete" has written the whole answer and every event; one
\* that was cut has not, and is cut only when the stall budget or the attempts are
\* used up; a cancelled run has written nothing (dispatch_and_wait_for_response,
\* mid_stream_cut_outcome).
THEOREM VerdictsHonest == Spec => []VerdictHonest
<1>1. Spec => [](TypeOK /\ CountInv /\ GateInv /\ ConcludedInv)
  BY InitTypes, NextTypes, InitGate, NextGate, InitConcluded, NextConcluded, PTL DEF Spec
<1>2. ConcludedInv => VerdictHonest
  BY DEF ConcludedInv, Concluded, VerdictHonest, Spent
<1> QED
  BY <1>1, <1>2, PTL

=============================================================================
