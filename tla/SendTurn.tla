------------------------------ MODULE SendTurn ------------------------------
(* One run's conversation with the chat page (modules/browser navigation and *)
(* model policy, modules/prompt_runtime): reach a clean chat with the right  *)
(* model, attach a document, put the prompt into the composer, send it, and  *)
(* poll the page until the answer is whole.  The page moves on its own: it   *)
(* renders cards, parses, commits turns and streams answers when it likes.   *)
(* A deadline of the code is a step that may come at any time.               *)
EXTENDS Integers, Sequences

CONSTANTS
    Whole,          \* how many pieces an answer has
    StabilityChecks,\* unchanged polls before an answer is taken (stability_checks)
    MaxAttempts,    \* attempts of the dispatch loop around inject, send and wait
    MaxUploads,     \* max_retries + 1 of the uploader
    MaxGoto,        \* navigation attempts of _goto_chat
    MaxVerify,      \* readings of the model label in verify_default_model
    MaxLost         \* bound: turns the page accepts and then loses

ASSUME SendTurnAssumption ==
    /\ Whole \in Nat \ {0} /\ StabilityChecks \in Nat \ {0}
    /\ MaxAttempts \in Nat \ {0} /\ MaxUploads \in Nat \ {0}
    /\ MaxGoto \in Nat \ {0} /\ MaxVerify \in Nat \ {0} /\ MaxLost \in Nat

VARIABLES
    pc,        \* where the run stands
    tries,     \* attempts made in the current phase
    attempt,   \* attempts of the dispatch loop
    attach,    \* whether the run has a document
    base,      \* what the page showed before the prompt was sent: [turns, text]
    seen,      \* the monitor: last text, unchanged polls, thinking announced
    page,      \* the page: see Blank
    sentBare,  \* history: a turn was committed before the document was ready
    verdict    \* what the run returned: [kind, text]

vars == <<pc, tries, attempt, attach, base, seen, page, sentBare, verdict>>

NoText == <<0, 0>>

\* at: the document shown; model: the label the picker shows; composer: it holds
\* the prompt; files: documents handed to the page; cards: those it has rendered;
\* parsed: those it has parsed; toast: the parse warning; accepted: a turn taken
\* from the composer and not yet shown; turns: user turns shown; len, old: pieces
\* of the last and of the previous answer; active: the last answer is being
\* generated; visible: its thinking card or stop button is on the screen.
Blank == [at |-> "blank", model |-> "unread", composer |-> FALSE,
          files |-> 0, cards |-> 0, parsed |-> 0, toast |-> FALSE,
          accepted |-> FALSE, lost |-> 0, turns |-> 0, len |-> 0, old |-> 0,
          active |-> FALSE, visible |-> FALSE]

Nothing == [text |-> NoText, stable |-> 0, thought |-> FALSE]

Init ==
    /\ pc = "goto"
    /\ tries = 0
    /\ attempt = 1
    /\ attach \in BOOLEAN
    /\ base = [turns |-> 0, text |-> NoText]
    /\ seen = Nothing
    \* The launch navigated the first page eagerly, or failed to.
    /\ page \in {Blank, [Blank EXCEPT !.at = "chat"], [Blank EXCEPT !.at = "thread"]}
    /\ sentBare = FALSE
    /\ verdict = [kind |-> "none", text |-> NoText]

\* The run goes on to another phase; its counter of attempts starts again.
Go(next) == pc' = next /\ tries' = 0
Again == pc' = pc /\ tries' = tries + 1
Stop(kind, text) == Go("done") /\ verdict' = [kind |-> kind, text |-> text]
Fail(kind) == Stop(kind, NoText)

-----------------------------------------------------------------------------
(* What the code reads off the page.                                         *)

Shown == IF page.len > 0 THEN <<page.turns, page.len>>
         ELSE IF page.old > 0 THEN <<page.turns - 1, page.old>> ELSE NoText
Parsing == page.cards > page.parsed
ToastVisible == page.toast
SendEnabled == page.composer /\ ~page.visible
Complete == ~page.visible

-----------------------------------------------------------------------------
(* Reaching a clean chat (navigate_to_chat).                                 *)

Goto ==
    /\ pc = "goto"
    /\ \/ /\ page.at # "blank"
          /\ Go("newchat") /\ UNCHANGED <<page, verdict>>
       \/ /\ page.at = "blank"
          /\ \E at \in {"chat", "login"} : page' = [page EXCEPT !.at = at]
          /\ Go("newchat") /\ UNCHANGED verdict
       \/ /\ page.at = "blank"
          /\ IF tries + 1 < MaxGoto THEN Again /\ UNCHANGED verdict ELSE Fail("failed")
          /\ UNCHANGED page
    /\ UNCHANGED <<attempt, attach, base, seen, sentBare>>

\* An old conversation is left behind, unless the page resists.
StartNewChat ==
    /\ pc = "newchat"
    /\ page' \in {page, [page EXCEPT !.at = IF @ = "thread" THEN "chat" ELSE @]}
    /\ Go("auth")
    /\ UNCHANGED <<attempt, attach, base, seen, sentBare, verdict>>

\* A login page, a login form or an expiry banner ends the run.
AssertOnChatPage ==
    /\ pc = "auth"
    /\ \/ page.at # "login" /\ Go("model") /\ UNCHANGED verdict
       \/ Fail("auth")
    /\ UNCHANGED <<attempt, attach, base, seen, page, sentBare>>

\* The picker is opened and the default clicked, if it is there in time.
EnsureModel ==
    /\ pc = "model"
    /\ page' \in {page, [page EXCEPT !.model = "target"]}
    /\ Go("verify")
    /\ UNCHANGED <<attempt, attach, base, seen, sentBare, verdict>>

NextPhase == IF attach THEN "upload" ELSE "inject"

\* The label is read, and the selection tried again, until it is the target.
VerifyModel ==
    /\ pc = "verify"
    /\ \/ page.model = "target" /\ Go(NextPhase) /\ UNCHANGED page
       \/ /\ page.model # "target" /\ tries + 1 < MaxVerify
          /\ page' \in {page, [page EXCEPT !.model = "target"]}
          /\ Again
       \/ /\ page.model # "target" /\ tries + 1 >= MaxVerify
          /\ Go("fallback") /\ UNCHANGED page
    /\ UNCHANGED <<attempt, attach, base, seen, sentBare, verdict>>

\* The first model offered, else whatever label can be read, else an error.
SelectFirstAvailable ==
    /\ pc = "fallback"
    /\ \/ page' = [page EXCEPT !.model = "first"] /\ Go(NextPhase) /\ UNCHANGED verdict
       \/ page' = page /\ page.model # "unread" /\ Go(NextPhase) /\ UNCHANGED verdict
       \/ page' = page /\ page.model = "unread" /\ Fail("model")
    /\ UNCHANGED <<attempt, attach, base, seen, sentBare>>

-----------------------------------------------------------------------------
(* Attaching the document (upload_attachment).                               *)

\* A file that is missing, empty, too large or of another type is refused.
ValidateFile ==
    /\ pc = "upload"
    /\ \/ Go("attach") /\ UNCHANGED verdict
       \/ Fail("upload")
    /\ UNCHANGED <<attempt, attach, base, seen, page, sentBare>>

\* base.turns holds the number of cards before this try.
TryUpload ==
    /\ pc = "attach"
    /\ page' = [page EXCEPT !.files = @ + 1]
    /\ base' = [base EXCEPT !.turns = page.cards]
    /\ pc' = "card" /\ UNCHANGED tries
    /\ UNCHANGED <<attempt, attach, seen, sentBare, verdict>>

\* Mutant: handing the file to the chooser counts as attached.
SeeChooser ==
    /\ pc = "card"
    /\ Go("parse")
    /\ UNCHANGED <<attempt, attach, base, seen, page, sentBare, verdict>>

\* One more card with the file's name than before.
SeeCard ==
    /\ pc = "card"
    /\ page.cards > base.turns
    /\ Go("parse")
    /\ UNCHANGED <<attempt, attach, base, seen, page, sentBare, verdict>>

\* No upload option, no chooser, or no card in time: escape and try again.
UploadFails ==
    /\ pc \in {"attach", "card"}
    /\ IF tries + 1 < MaxUploads
       THEN pc' = "attach" /\ tries' = tries + 1 /\ UNCHANGED verdict
       ELSE Fail("upload")
    /\ UNCHANGED <<attempt, attach, base, seen, page, sentBare>>

\* The last card of the name shows no spinner, no pending mark, and no toast.
ParseReady ==
    /\ pc = "parse"
    /\ ~Parsing /\ ~ToastVisible
    /\ Go("inject")
    /\ UNCHANGED <<attempt, attach, base, seen, page, sentBare, verdict>>

ParseTimesOut ==
    /\ pc = "parse"
    /\ Fail("upload")
    /\ UNCHANGED <<attempt, attach, base, seen, page, sentBare>>

-----------------------------------------------------------------------------
(* One attempt: inject, send, wait.                                          *)

\* The text the page shows before the attempt is no answer to it; then one of
\* three strategies fills the composer, and reading it back verifies that.
Inject ==
    /\ pc = "inject"
    /\ base' = [base EXCEPT !.text = Shown]
    /\ seen' = Nothing
    /\ \/ page' = [page EXCEPT !.composer = TRUE] /\ Go("hold") /\ UNCHANGED verdict
       \/ page' = page /\ Fail("failed")
    /\ UNCHANGED <<attempt, attach, sentBare>>

\* Held while a card parses, a toast shows or the button is off, but not longer
\* than the click timeout: the click then comes regardless.  The turns counted
\* now are the baseline of the acknowledgment.
WaitForSendEnabled ==
    /\ pc = "hold"
    /\ pc' = "click" /\ UNCHANGED tries
    /\ base' = [turns |-> page.turns, text |-> Shown]
    /\ UNCHANGED <<attempt, attach, seen, page, sentBare, verdict>>

\* What the page makes of a click or of Enter: nothing without a prompt or while
\* it answers, a toast while a card parses; else the composer is emptied and the
\* turn taken, to be shown later or lost.
Pressed ==
    IF ~SendEnabled THEN page
    ELSE IF Parsing THEN [page EXCEPT !.toast = TRUE]
    ELSE [page EXCEPT !.composer = FALSE, !.accepted = TRUE]

Click ==
    /\ pc = "click"
    /\ \/ page' = Pressed /\ pc' = "clicked" /\ UNCHANGED <<tries, verdict>>
       \/ page' = page /\ Fail("failed")
    /\ UNCHANGED <<attempt, attach, base, seen, sentBare>>

\* A parse toast: two seconds, and the whole of it again before the deadline.
AfterClick ==
    /\ pc = "clicked"
    /\ pc' = IF ToastVisible THEN "hold" ELSE "ack"
    /\ UNCHANGED <<tries, attempt, attach, base, seen, page, sentBare, verdict>>

\* Mutant: an emptied composer acknowledges the dispatch.
NewTurnByComposer == ~page.composer

\* A new turn, or a message surface that has changed.
NewTurn ==
    \/ page.turns > base.turns
    \/ Shown # NoText /\ Shown # base.text

Acknowledge ==
    /\ pc \in {"ack", "enter"}
    /\ NewTurn
    /\ Go("poll")
    /\ UNCHANGED <<attempt, attach, base, seen, page, sentBare, verdict>>

\* No acknowledgment in time: the toast explains it, or Enter is pressed.
PressEnter ==
    /\ pc = "ack"
    /\ IF ToastVisible
       THEN pc' = "hold" /\ page' = page
       ELSE pc' = "enter" /\ page' = Pressed
    /\ UNCHANGED <<tries, attempt, attach, base, seen, sentBare, verdict>>

DispatchFails ==
    /\ pc \in {"hold", "clicked", "enter"}
    /\ \/ pc = "enter" /\ ToastVisible /\ pc' = "hold" /\ UNCHANGED <<tries, verdict>>
       \/ Fail("failed")
    /\ UNCHANGED <<attempt, attach, base, seen, page, sentBare>>

New == Shown # NoText /\ Shown # base.text

\* Mutant: a text that has stopped changing is an answer.
StableAlone == seen.stable + 1 >= StabilityChecks

\* Stability alone is no terminal event: the page must have finished as well.
Stable == seen.stable + 1 >= StabilityChecks /\ Complete

\* One poll: thinking, completion and text are read in a single evaluation.
Poll ==
    /\ pc = "poll"
    /\ \/ /\ New /\ Shown = seen.text /\ Stable
          /\ Stop("complete", Shown) /\ UNCHANGED seen
       \/ /\ New /\ Shown = seen.text /\ ~Stable
          /\ seen' = [seen EXCEPT !.stable = IF @ < StabilityChecks THEN @ + 1 ELSE @]
          /\ UNCHANGED <<pc, tries, verdict>>
       \/ /\ New /\ Shown # seen.text
          /\ seen' = [text |-> Shown, stable |-> 0, thought |-> TRUE]
          /\ UNCHANGED <<pc, tries, verdict>>
       \/ /\ ~New /\ page.visible /\ ~seen.thought
          /\ seen' = [seen EXCEPT !.thought = TRUE]
          /\ UNCHANGED <<pc, tries, verdict>>
    /\ UNCHANGED <<attempt, attach, base, page, sentBare>>

\* The stall detector or a ceiling cuts the wait; the dispatch loop may begin
\* again on the same page, else the text seen so far goes with the error.
Cut ==
    /\ pc = "poll"
    /\ \/ attempt < MaxAttempts /\ attempt' = attempt + 1 /\ Go("inject") /\ UNCHANGED verdict
       \/ Stop("cut", seen.text) /\ UNCHANGED attempt
    /\ UNCHANGED <<attach, base, seen, page, sentBare>>

\* The page is loaded again after half a minute without any text, or when the
\* browser reports an error; what is not in the conversation is gone from it.
Reload ==
    /\ pc = "poll"
    /\ page.composer \/ page.toast
    /\ page' = [page EXCEPT !.composer = FALSE, !.toast = FALSE]
    /\ UNCHANGED <<pc, tries, attempt, attach, base, seen, sentBare, verdict>>

-----------------------------------------------------------------------------
(* The page.                                                                 *)

CardRenders ==
    /\ page.files > page.cards
    /\ page' = [page EXCEPT !.cards = @ + 1]
    /\ UNCHANGED <<pc, tries, attempt, attach, base, seen, sentBare, verdict>>

CardParses ==
    /\ Parsing
    /\ page' = [page EXCEPT !.parsed = page.cards]
    /\ UNCHANGED <<pc, tries, attempt, attach, base, seen, sentBare, verdict>>

ToastHides ==
    /\ page.toast
    /\ page' = [page EXCEPT !.toast = FALSE]
    /\ UNCHANGED <<pc, tries, attempt, attach, base, seen, sentBare, verdict>>

TurnCommits ==
    /\ page.accepted
    /\ page' = [page EXCEPT !.accepted = FALSE, !.turns = @ + 1, !.active = TRUE,
                            !.len = 0, !.old = IF page.len > 0 THEN page.len ELSE @]
    /\ sentBare' = (sentBare \/ (attach /\ page.parsed = 0))
    /\ UNCHANGED <<pc, tries, attempt, attach, base, seen, verdict>>

TurnIsLost ==
    /\ page.accepted /\ page.lost < MaxLost
    /\ page' = [page EXCEPT !.accepted = FALSE, !.lost = @ + 1]
    /\ UNCHANGED <<pc, tries, attempt, attach, base, seen, sentBare, verdict>>

\* Thinking shows before the first piece and stays visible until the answer ends.
AnswerShows ==
    /\ page.active /\ ~page.visible
    /\ page' = [page EXCEPT !.visible = TRUE]
    /\ UNCHANGED <<pc, tries, attempt, attach, base, seen, sentBare, verdict>>

AnswerGrows ==
    /\ page.active /\ page.visible /\ page.len < Whole
    /\ page' = [page EXCEPT !.len = @ + 1]
    /\ UNCHANGED <<pc, tries, attempt, attach, base, seen, sentBare, verdict>>

AnswerEnds ==
    /\ page.active /\ page.len = Whole
    /\ page' = [page EXCEPT !.active = FALSE, !.visible = FALSE]
    /\ UNCHANGED <<pc, tries, attempt, attach, base, seen, sentBare, verdict>>

Run ==
    \/ Goto \/ StartNewChat \/ AssertOnChatPage \/ EnsureModel \/ VerifyModel
    \/ SelectFirstAvailable \/ ValidateFile \/ TryUpload \/ SeeCard \/ UploadFails
    \/ ParseReady \/ ParseTimesOut \/ Inject \/ WaitForSendEnabled \/ Click \/ AfterClick
    \/ Acknowledge \/ PressEnter \/ DispatchFails \/ Poll \/ Cut \/ Reload

Page ==
    \/ CardRenders \/ CardParses \/ ToastHides \/ TurnCommits \/ TurnIsLost
    \/ AnswerShows \/ AnswerGrows \/ AnswerEnds

Next == Run \/ Page

Spec == Init /\ [][Next]_vars

-----------------------------------------------------------------------------
(* Properties.                                                               *)

\* A complete verdict carries the whole answer to a turn of this run, however
\* the text paused and however many attempts were made on the page, as long as
\* the page shows its thinking card or stop button while it answers
\* (wait_for_response, is_stability_satisfied).
CompleteMeansWhole ==
    verdict.kind = "complete" => verdict.text[1] \in 1..page.turns /\ verdict.text[2] = Whole

\* On a fresh page the monitor never waits on a false dispatch: the first
\* attempt's acknowledgment is a turn that was committed, though the composer
\* empties earlier and a turn may be lost (_wait_for_dispatch_ack).
AckIsReal == pc = "poll" /\ attempt = 1 => page.turns > 0

\* A turn of a run with a document is committed only with its card rendered and
\* parsed, whatever uploads timed out and were repeated (upload_attachment,
\* click_send).
SentWithDocument == ~sentBare
=============================================================================
