--------------------------- MODULE LifecycleGate ---------------------------
(***************************************************************************)
(* The gate that keeps the lifecycle events of one prompt run in order: an *)
(* event is accepted once, right after the event before it in the run's    *)
(* sequence.  A retry of the dispatch rolls the gate back to the events    *)
(* that the page and the attachment have already given.                    *)
(***************************************************************************)
EXTENDS Integers, Sequences, SequencesExt

STANDARD_PROMPT_EVENTS ==
    <<"WEB_LOADED", "LOGIN_VERIFIED", "MODEL_VERIFIED", "PROMPT_INJECTED",
      "SEND_CLICKED", "DISPATCH_ACKNOWLEDGED", "THINKING_STARTED",
      "STREAMING_GENERATION", "GENERATION_FINISHED", "OUTPUT_COPIED">>

PIPELINE_EVENT_SEQUENCE ==
    <<"WEB_LOADED", "LOGIN_VERIFIED", "MODEL_VERIFIED", "FILE_UPLOADED",
      "DOCUMENT_PARSED", "PROMPT_INJECTED", "SEND_CLICKED",
      "DISPATCH_ACKNOWLEDGED", "THINKING_STARTED", "STREAMING_GENERATION",
      "GENERATION_FINISHED", "OUTPUT_COPIED">>

Events == ToSet(PIPELINE_EVENT_SEQUENCE) \cup {"SESSION_EXPIRED"}

Position(sequence, event) == CHOOSE i \in DOMAIN sequence : sequence[i] = event

\* Is event the first of the sequence, outside it, or just after the last of done?
Follows(sequence, done, event) ==
    \A i \in DOMAIN sequence :
        sequence[i] = event /\ i > 1 => done # <<>> /\ done[Len(done)] = sequence[i - 1]

\* validate: the gate's verdict on an event after those in done.
Accepts(sequence, done, event) ==
    /\ event \notin ToSet(done)
    /\ Follows(sequence, done, event)

\* How many events of the sequence precede the first attempt.
AttemptBoundary(sequence) ==
    IF "DOCUMENT_PARSED" \in ToSet(sequence)
    THEN Position(sequence, "DOCUMENT_PARSED")
    ELSE Position(sequence, "PROMPT_INJECTED") - 1

\* Mutant: a retry starts with the events of the attempt before.
RolledBackNot(sequence, done) == done

\* What a retry keeps of the events accepted so far: completed[:boundary].
RolledBack(sequence, done) ==
    SubSeq(done, 1, IF Len(done) < AttemptBoundary(sequence) THEN Len(done) ELSE AttemptBoundary(sequence))
============================================================================
