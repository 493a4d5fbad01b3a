--------------------------- MODULE SendTurnProofs ---------------------------
(* Proofs about SendTurn: an acknowledged dispatch is a turn of the page, a  *)
(* document is parsed before its turn is committed, and a complete verdict   *)
(* carries a whole answer, for answers of any length, any number of checks,  *)
(* attempts, uploads and lost turns.                                         *)
EXTENDS SendTurn, TLAPS

USE DEF NoText

-----------------------------------------------------------------------------
(* Types.                                                                    *)

Pages ==
    [at : {"blank", "chat", "login", "thread"}, model : {"unread", "target", "first"},
     composer : BOOLEAN, files : Nat, cards : Nat, parsed : Nat, toast : BOOLEAN,
     accepted : BOOLEAN, lost : Nat, turns : Nat, len : Nat, old : Nat,
     active : BOOLEAN, visible : BOOLEAN]

Texts == Int \X Nat

\* The phases in which a run with a document has seen its card.
Sending == {"inject", "hold", "click", "clicked", "ack", "enter", "poll"}
Phases == Sending \cup {"goto", "newchat", "auth", "model", "verify", "fallback",
                        "upload", "attach", "card", "parse", "done"}

Typed ==
    /\ pc \in Phases /\ tries \in Nat /\ attempt \in Nat
    /\ attach \in BOOLEAN
    /\ base \in [turns : Nat, text : Texts]
    /\ seen \in [text : Texts, stable : Nat, thought : BOOLEAN]
    /\ page \in Pages
    /\ sentBare \in BOOLEAN
    /\ verdict \in [kind : {"none", "failed", "auth", "model", "upload", "complete", "cut"},
                    text : Texts]

-----------------------------------------------------------------------------
(* The invariant, in the parts the three properties need.                    *)

\* Cards parse after they render; the prompt is in the composer, and leaves it,
\* only with the card on the page, and leaves it only with a parsed one.
DocumentInv ==
    /\ page.parsed <= page.cards
    /\ attach /\ (pc \in Sending \cup {"parse"} \/ page.composer \/ page.accepted)
         => page.cards > 0
    /\ attach /\ page.accepted => page.parsed > 0
    /\ ~sentBare

\* Every answer belongs to a turn of the page, and a run that polls has seen one.
TurnInv ==
    /\ page.len > 0 => page.turns >= 1
    /\ page.old > 0 => page.turns >= 2
    /\ page.active => page.turns >= 1
    /\ pc = "poll" => page.turns >= 1

\* With neither thinking card nor stop button on the screen, what the page shows
\* is nothing or a whole answer; a partial one is shown beside them only.
AnswerInv ==
    /\ page.len <= Whole
    /\ ~page.visible => page.len \in {0, Whole}
    /\ ~page.visible /\ page.len = 0 => page.old \in {0, Whole}
    /\ CompleteMeansWhole

SendInv == Typed /\ DocumentInv /\ TurnInv /\ AnswerInv

-----------------------------------------------------------------------------
(* The steps, by what they change.                                           *)

\* The text read off the page is a text.
LEMMA ShownType == Typed => Shown \in Texts
  BY SMT DEF Typed, Pages, Texts, Shown

\* What Complete reads is a whole answer to a turn of the page.
LEMMA ShownIsWhole ==
  ASSUME Typed, TurnInv, AnswerInv, ~page.visible, Shown # NoText
  PROVE  Shown[1] \in 1..page.turns /\ Shown[2] = Whole
  BY SendTurnAssumption, SMT DEF Typed, Pages, TurnInv, AnswerInv, Shown

\* A new turn, or a new text, is there only once the page has a turn.
LEMMA NewTurnIsTurn ==
  ASSUME Typed, TurnInv, NewTurn
  PROVE  page.turns >= 1
  BY SMT DEF Typed, Pages, TurnInv, NewTurn, Shown

\* The invariant holds at the start.
LEMMA SendInit == Init => SendInv
<1> SUFFICES ASSUME Init PROVE SendInv
  OBVIOUS
<1>1. page \in Pages /\ page.composer = FALSE /\ page.accepted = FALSE /\ page.active = FALSE
      /\ page.parsed = 0 /\ page.cards = 0 /\ page.len = 0 /\ page.old = 0
  <2>1. Blank \in Pages
    BY SMT DEF Blank, Pages
  <2>2. /\ [Blank EXCEPT !.at = "chat"] \in Pages
        /\ [Blank EXCEPT !.at = "thread"] \in Pages
    BY <2>1, Zenon DEF Pages
  <2>3. page \in Pages
    BY <2>1, <2>2 DEF Init
  <2> QED
    BY <2>3, SMT DEF Init, Blank, Pages
<1>2. Typed
  <2>1. base \in [turns : Nat, text : Texts] /\ seen \in [text : Texts, stable : Nat, thought : BOOLEAN]
    BY SMT DEF Init, Nothing, Texts
  <2>2. verdict \in [kind : {"none", "failed", "auth", "model", "upload", "complete", "cut"},
                     text : Texts]
    BY SMT DEF Init, Texts
  <2> QED
    BY <1>1, <2>1, <2>2 DEF Init, Typed, Phases, Sending
<1> QED
  BY <1>1, <1>2, SendTurnAssumption, SMT
  DEF Init, SendInv, Sending, DocumentInv, TurnInv, AnswerInv, CompleteMeansWhole

\* Reaching a clean chat with the right model.
LEMMA ReachStep ==
  ASSUME SendInv, Goto \/ StartNewChat \/ AssertOnChatPage \/ EnsureModel
                  \/ VerifyModel \/ SelectFirstAvailable
  PROVE  SendInv'
  BY SMTT(30)
  DEF SendInv, Typed, Phases, Sending, Pages, Texts, DocumentInv, TurnInv, AnswerInv,
      CompleteMeansWhole, Goto, StartNewChat, AssertOnChatPage, EnsureModel, VerifyModel,
      SelectFirstAvailable, NextPhase, Go, Again, Stop, Fail

\* Attaching the document.
LEMMA AttachStep ==
  ASSUME SendInv, ValidateFile \/ TryUpload \/ SeeCard \/ UploadFails
                  \/ ParseReady \/ ParseTimesOut
  PROVE  SendInv'
  BY SMTT(30)
  DEF SendInv, Typed, Phases, Sending, Pages, Texts, DocumentInv, TurnInv, AnswerInv,
      CompleteMeansWhole, ValidateFile, TryUpload, SeeCard, UploadFails, ParseReady,
      ParseTimesOut, Go, Stop, Fail

\* A step that leaves the turns and the answers of the page alone, hands the
\* composer a prompt or takes one from it only where a document allows it, and
\* returns no complete answer.
Quiet ==
    /\ Typed'
    /\ UNCHANGED <<attach, sentBare, page.turns, page.len, page.old, page.active, page.visible>>
    /\ page'.cards >= page.cards /\ page'.parsed >= page.parsed /\ page'.parsed <= page'.cards
    /\ pc' \in Sending \cup {"parse"} => pc \in Sending \cup {"parse"}
    /\ pc' = "poll" => pc = "poll"
    /\ page'.composer = page.composer \/ page'.composer = FALSE \/ pc \in Sending
    /\ \/ page'.accepted = page.accepted \/ page'.accepted = FALSE
       \/ page.composer = TRUE /\ page.parsed >= page.cards
    /\ verdict' = verdict \/ verdict'.kind # "complete"

\* So such a step keeps the invariant.
LEMMA QuietStep == SendInv /\ Quiet => SendInv'
  BY SMTT(30)
  DEF Quiet, SendInv, Typed, Pages, Texts, DocumentInv, TurnInv, AnswerInv, CompleteMeansWhole

\* What the page makes of a click, in types and in what it leaves alone.
LEMMA PressedPage ==
  ASSUME Typed
  PROVE  /\ Pressed \in Pages
         /\ Pressed.turns = page.turns /\ Pressed.len = page.len /\ Pressed.old = page.old
         /\ Pressed.active = page.active /\ Pressed.visible = page.visible
         /\ Pressed.cards = page.cards /\ Pressed.parsed = page.parsed
         /\ Pressed.composer = page.composer \/ Pressed.composer = FALSE
         /\ \/ Pressed.accepted = page.accepted
            \/ page.composer = TRUE /\ page.parsed >= page.cards
<1>0. page \in Pages
  BY DEF Typed
<1>1. CASE ~SendEnabled
  <2>1. Pressed = page
    BY <1>1 DEF Pressed
  <2> QED
    BY <1>0, <2>1, Zenon
<1>2. CASE SendEnabled /\ Parsing
  <2>1. Pressed = [page EXCEPT !.toast = TRUE]
    BY <1>2 DEF Pressed
  <2>2. Pressed \in Pages
    BY <1>0, <2>1, Zenon DEF Pages
  <2> QED
    BY <1>0, <2>1, <2>2, Zenon DEF Pages
<1>3. CASE SendEnabled /\ ~Parsing
  <2>1. Pressed = [page EXCEPT !.composer = FALSE, !.accepted = TRUE]
    BY <1>3 DEF Pressed
  <2>2. Pressed \in Pages
    BY <1>0, <2>1, Zenon DEF Pages
  <2> QED
    <3>1. page.composer = TRUE /\ page.parsed >= page.cards
      BY <1>0, <1>3, SMT DEF Pages, SendEnabled, Parsing
    <3>2. /\ Pressed.turns = page.turns /\ Pressed.len = page.len /\ Pressed.old = page.old
          /\ Pressed.active = page.active /\ Pressed.visible = page.visible
          /\ Pressed.cards = page.cards /\ Pressed.parsed = page.parsed
          /\ Pressed.composer = FALSE
      BY <1>0, <2>1, Zenon DEF Pages
    <3> QED
      BY <2>2, <3>1, <3>2
<1> QED
  BY <1>1, <1>2, <1>3

\* Injecting the prompt, sending it and waiting for the acknowledgment.
LEMMA DispatchStep ==
  ASSUME SendInv, Inject \/ WaitForSendEnabled \/ Click \/ AfterClick \/ Acknowledge
                  \/ PressEnter \/ DispatchFails
  PROVE  SendInv'
<1>1. Typed /\ Shown \in Texts /\ NoText \in Texts
  BY ShownType, SMT DEF SendInv, Texts
<1>0. page \in Pages
  BY DEF SendInv, Typed
<1>2. page.parsed <= page.cards
  BY DEF SendInv, DocumentInv
<1>3. CASE Inject
  <2>0. page' \in Pages
    BY <1>1, <1>3, Zenon DEF Inject, Typed, Pages
  <2>1. UNCHANGED <<page.turns, page.len, page.old, page.active, page.visible,
                    page.cards, page.parsed, page.accepted>>
    BY <1>1, <1>3, SMTT(30) DEF Inject, Typed, Pages
  <2>2. seen' \in [text : Texts, stable : Nat, thought : BOOLEAN]
    BY <1>1, <1>3, SMT DEF Inject, Nothing
  <2>3. base' \in [turns : Nat, text : Texts]
    BY <1>1, <1>3, SMT DEF Inject, Typed
  <2> HIDE DEF NoText
  <2>4. Typed'
    BY <1>1, <1>3, <2>0, <2>2, <2>3, SMTT(30) DEF Inject, Typed, Phases, Sending, Go, Stop, Fail
  <2>5. page'.cards >= page.cards /\ page'.parsed >= page.parsed
    <3>1. page.cards \in Nat /\ page.parsed \in Nat
      BY <1>0, SMT DEF Pages
    <3> QED
      BY <2>1, <3>1, SMT
  <2>6. /\ pc \in Sending
        /\ pc' # "poll"
        /\ verdict' = verdict \/ verdict'.kind # "complete"
        /\ UNCHANGED <<attach, sentBare>>
    BY <1>1, <1>3, SMT DEF Inject, Sending, Go, Stop, Fail, Typed
  <2>7. Quiet
    BY <1>2, <2>1, <2>4, <2>5, <2>6, SMT DEF Quiet
  <2> QED
    BY <2>7, QuietStep
<1>4. CASE WaitForSendEnabled
  BY <1>1, <1>4, SMTT(30)
  DEF WaitForSendEnabled, SendInv, Typed, Phases, Sending, Pages, DocumentInv, TurnInv, AnswerInv,
      CompleteMeansWhole
<1>5. CASE Click
  <2>1. /\ page' \in Pages
        /\ UNCHANGED <<page.turns, page.len, page.old, page.active, page.visible,
                       page.cards, page.parsed>>
        /\ page'.composer = page.composer \/ page'.composer = FALSE
        /\ \/ page'.accepted = page.accepted
           \/ page.composer = TRUE /\ page.parsed >= page.cards
    <3>1. CASE page' = Pressed
      BY <1>1, <3>1, PressedPage, Zenon
    <3>2. CASE page' = page
      BY <1>0, <3>2, Zenon
    <3> QED
      BY <1>5, <3>1, <3>2 DEF Click
  <2> HIDE DEF NoText
  <2>2. Typed'
    BY <1>1, <1>5, <2>1, SMTT(30) DEF Click, Typed, Phases, Sending, Go, Stop, Fail
  <2>3. Quiet
    BY <1>1, <1>2, <1>5, <2>1, <2>2, SMTT(30) DEF Quiet, Click, Sending, Go, Stop, Fail, Typed, Pages
  <2> QED
    BY <2>3, QuietStep
<1>6. CASE AfterClick
  BY <1>6, SMTT(30)
  DEF AfterClick, SendInv, Typed, Phases, Sending, Pages, DocumentInv, TurnInv, AnswerInv,
      CompleteMeansWhole
<1>7. CASE Acknowledge
  <2>1. page.turns >= 1
    BY <1>7, NewTurnIsTurn DEF Acknowledge, SendInv
  <2> QED
    BY <1>7, <2>1, SMTT(30)
    DEF Acknowledge, Go, SendInv, Typed, Phases, Sending, Pages, DocumentInv, TurnInv, AnswerInv,
        CompleteMeansWhole
<1>8. CASE PressEnter
  <2>1. /\ page' \in Pages
        /\ UNCHANGED <<page.turns, page.len, page.old, page.active, page.visible,
                       page.cards, page.parsed>>
        /\ page'.composer = page.composer \/ page'.composer = FALSE
        /\ \/ page'.accepted = page.accepted
           \/ page.composer = TRUE /\ page.parsed >= page.cards
    <3>1. CASE page' = Pressed
      BY <1>1, <3>1, PressedPage, Zenon
    <3>2. CASE page' = page
      BY <1>0, <3>2, Zenon
    <3> QED
      BY <1>8, <3>1, <3>2 DEF PressEnter
  <2>2. Typed'
    BY <1>1, <1>8, <2>1, SMTT(30) DEF PressEnter, Typed, Phases, Sending
  <2>3. Quiet
    BY <1>1, <1>2, <1>8, <2>1, <2>2, SMTT(30) DEF Quiet, PressEnter, Sending, Typed, Pages
  <2> QED
    BY <2>3, QuietStep
<1>9. CASE DispatchFails
  BY <1>1, <1>9, SMTT(30)
  DEF DispatchFails, Go, Stop, Fail, SendInv, Typed, Phases, Sending, Pages, DocumentInv, TurnInv,
      AnswerInv, CompleteMeansWhole
<1> QED
  BY <1>3, <1>4, <1>5, <1>6, <1>7, <1>8, <1>9

\* Polling for the answer, beginning again, and loading the page anew.
LEMMA WaitStep ==
  ASSUME SendInv, Poll \/ Cut \/ Reload
  PROVE  SendInv'
<1> USE DEF SendInv, Typed, Phases, Sending, Pages, DocumentInv, TurnInv, AnswerInv,
            CompleteMeansWhole, Go, Stop
<1>1. Shown \in Texts /\ NoText \in Texts
  BY ShownType, SMT DEF Texts
<1>2. CASE Poll
  <2>1. CASE New /\ Stable /\ Stop("complete", Shown) /\ UNCHANGED seen
    <3>1. Shown[1] \in 1..page.turns /\ Shown[2] = Whole
      BY <2>1, ShownIsWhole DEF New, Stable, Complete
    <3> QED
      BY <1>1, <1>2, <2>1, <3>1, SMTT(30) DEF Poll
  <2>2. CASE UNCHANGED <<pc, tries, verdict>>
    <3>1. seen' \in [text : Texts, stable : Nat, thought : BOOLEAN]
      <4> HIDE DEF NoText
      <4>1. CASE seen' = [text |-> Shown, stable |-> 0, thought |-> TRUE]
        BY <1>1, <4>1, SMT
      <4>2. CASE seen' = [seen EXCEPT !.stable = IF @ < StabilityChecks THEN @ + 1 ELSE @]
        BY <4>2, SendTurnAssumption, SMT
      <4>3. CASE seen' = [seen EXCEPT !.thought = TRUE]
        BY <4>3, Zenon
      <4> QED
        BY <1>2, <2>2, <2>1, <4>1, <4>2, <4>3 DEF Poll
    <3> QED
      BY <1>2, <2>2, <3>1, SMTT(30) DEF Poll
  <2> QED
    BY <1>2, <2>1, <2>2 DEF Poll
<1>3. CASE Cut
  BY <1>3, SMTT(30) DEF Cut
<1>4. CASE Reload
  <2>1. page' \in Pages
    BY <1>4, Zenon DEF Reload
  <2>2. /\ page'.composer = FALSE
        /\ UNCHANGED <<page.turns, page.len, page.old, page.active, page.visible,
                       page.cards, page.parsed, page.accepted>>
    BY <1>4, SMT DEF Reload
  <2>3. UNCHANGED <<pc, tries, attempt, attach, base, seen, sentBare, verdict>>
    BY <1>4 DEF Reload
  <2>4. Typed'
    BY <2>1, <2>3
  <2>5. /\ page'.parsed <= page'.cards
        /\ page'.cards >= page.cards /\ page'.parsed >= page.parsed
    <3>1. page.cards \in Nat /\ page.parsed \in Nat /\ page.parsed <= page.cards
      BY SMT
    <3> QED
      BY <2>2, <3>1, SMT
  <2> HIDE DEF Typed, SendInv, Pages
  <2>6. Quiet
    BY <2>2, <2>3, <2>4, <2>5, SMT DEF Quiet
  <2> QED
    BY <2>6, QuietStep
<1> QED
  BY <1>2, <1>3, <1>4

\* What the page does of its own accord.
LEMMA PageStep ==
  ASSUME SendInv, Page
  PROVE  SendInv'
<1> USE SendTurnAssumption
    DEF SendInv, Typed, Phases, Sending, Pages, DocumentInv, TurnInv, AnswerInv,
        CompleteMeansWhole
<1>1. CASE CardRenders \/ CardParses \/ ToastHides \/ TurnIsLost
  <2>1. /\ page' \in Pages
        /\ UNCHANGED <<page.turns, page.len, page.old, page.active, page.visible, page.composer>>
        /\ page'.accepted = page.accepted \/ page'.accepted = FALSE
        /\ page'.cards >= page.cards /\ page'.parsed >= page.parsed /\ page'.parsed <= page'.cards
    <3>1. CASE CardRenders
      BY <3>1, SMT DEF CardRenders
    <3>2. CASE CardParses
      BY <3>2, SMT DEF CardParses, Parsing
    <3>3. CASE ToastHides
      <4>1. page' \in Pages
        BY <3>3, Zenon DEF ToastHides
      <4> QED
        BY <3>3, <4>1, SMT DEF ToastHides
    <3>4. CASE TurnIsLost
      <4>1. page.lost + 1 \in Nat
        BY SMT
      <4>2. page' \in Pages
        BY <3>4, <4>1, Zenon DEF TurnIsLost
      <4> QED
        BY <3>4, <4>2, SMT DEF TurnIsLost
    <3> QED
      BY <1>1, <3>1, <3>2, <3>3, <3>4
  <2>2. UNCHANGED <<pc, tries, attempt, attach, base, seen, sentBare, verdict>>
    BY <1>1 DEF CardRenders, CardParses, ToastHides, TurnIsLost
  <2>3. Typed'
    BY <2>1, <2>2
  <2> HIDE DEF Typed, SendInv, Pages
  <2>4. Quiet
    BY <2>1, <2>2, <2>3 DEF Quiet
  <2> QED
    BY <2>4, QuietStep
<1>2. CASE TurnCommits
  <2>0. page' \in Pages
    <3>1. page.turns + 1 \in Nat /\ (IF page.len > 0 THEN page.len ELSE page.old) \in Nat /\ 0 \in Nat
      BY SMT
    <3> QED
      BY <1>2, <3>1, ZenonT(30) DEF TurnCommits
  <2>1. /\ UNCHANGED <<page.visible, page.composer, page.cards, page.parsed>>
        /\ page'.accepted = FALSE /\ page'.turns = page.turns + 1 /\ page'.active = TRUE
        /\ page'.len = 0 /\ page'.old = IF page.len > 0 THEN page.len ELSE page.old
    BY <1>2, SMTT(30) DEF TurnCommits
  <2>2. attach => page.parsed > 0
    BY <1>2 DEF TurnCommits
  <2>3. sentBare' = FALSE
    BY <1>2, <2>2, SMT DEF TurnCommits
  <2>4. UNCHANGED <<pc, tries, attempt, attach, base, seen, verdict>>
    BY <1>2 DEF TurnCommits
  <2>5. Typed' /\ DocumentInv'
    <3>1. Typed'
      BY <2>0, <2>3, <2>4
    <3> QED
      BY <3>1, <2>1, <2>3, <2>4, SMTT(30)
  <2>6. TurnInv'
    BY <2>1, <2>4, SMTT(30)
  <2>7. AnswerInv'
    BY <2>1, <2>4, SMTT(30) DEF Texts
  <2> QED
    BY <2>5, <2>6, <2>7
<1>3. CASE AnswerShows \/ AnswerGrows \/ AnswerEnds
  <2>1. UNCHANGED <<pc, tries, attempt, attach, base, seen, sentBare, verdict>>
    BY <1>3 DEF AnswerShows, AnswerGrows, AnswerEnds
  <2>2. /\ page' \in Pages
        /\ UNCHANGED <<page.composer, page.cards, page.parsed, page.accepted, page.turns, page.old>>
        /\ page'.active => page.active
        /\ page.turns >= 1 /\ page'.len <= Whole
        /\ ~page'.visible => page'.len = Whole
    <3>1. CASE AnswerShows
      <4>1. page' \in Pages
        BY <3>1, Zenon DEF AnswerShows
      <4> QED
        BY <3>1, <4>1, SMTT(30) DEF AnswerShows
    <3>2. CASE AnswerGrows
      BY <3>2, SMTT(30) DEF AnswerGrows
    <3>3. CASE AnswerEnds
      <4>1. page' \in Pages
        BY <3>3, Zenon DEF AnswerEnds
      <4> QED
        BY <3>3, <4>1, SMTT(30) DEF AnswerEnds
    <3> QED
      BY <1>3, <3>1, <3>2, <3>3
  <2>3. Typed' /\ DocumentInv' /\ TurnInv'
    BY <2>1, <2>2, SMTT(30)
  <2>4. AnswerInv'
    BY <2>1, <2>2, SMTT(30)
  <2> QED
    BY <2>3, <2>4
<1> QED
  BY <1>1, <1>2, <1>3 DEF Page

\* A stuttering step changes nothing.
LEMMA SendStutter == SendInv /\ UNCHANGED vars => SendInv'
  BY DEF SendInv, Typed, DocumentInv, TurnInv, AnswerInv, CompleteMeansWhole, vars

-----------------------------------------------------------------------------
(* The theorems.                                                             *)

\* The whole invariant: types, documents, turns and answers.
THEOREM SendInvariant == Spec => []SendInv
<1>1. SendInv /\ [Next]_vars => SendInv'
  BY ReachStep, AttachStep, DispatchStep, WaitStep, PageStep, SendStutter DEF Next, Run
<1> QED
  BY SendInit, <1>1, PTL DEF Spec

\* A complete verdict carries the whole answer to a turn of the page, however the
\* text paused and whichever attempt it answers (wait_for_response).
THEOREM CompleteIsWhole == Spec => []CompleteMeansWhole
<1>1. SendInv => CompleteMeansWhole
  BY DEF SendInv, AnswerInv
<1> QED
  BY SendInvariant, <1>1, PTL

\* No run polls for an answer before the page has a turn, though the composer
\* empties earlier and turns are lost (_wait_for_dispatch_ack).
THEOREM AcknowledgedIsReal == Spec => []AckIsReal
<1>1. SendInv => AckIsReal
  BY SMT DEF SendInv, Typed, Pages, TurnInv, AckIsReal
<1> QED
  BY SendInvariant, <1>1, PTL

\* A run with a document commits no turn before a card of it is parsed, however
\* many uploads timed out and were repeated (upload_attachment, click_send).
THEOREM DocumentFirst == Spec => []SentWithDocument
<1>1. SendInv => SentWithDocument
  BY DEF SendInv, DocumentInv, SentWithDocument
<1> QED
  BY SendInvariant, <1>1, PTL
=============================================================================
