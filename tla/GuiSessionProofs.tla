--------------------------- MODULE GuiSessionProofs ---------------------------
(***************************************************************************)
(* What GuiSession promises, for every set of incidents and every number   *)
(* of stagings.                                                            *)
(***************************************************************************)
EXTENDS GuiSession, TLAPS

(* An open dialog displays the staged payload, never an earlier one, until *)
(* a Cancel drops that one.                                                *)
DialogInv == dialog # None /\ busy # "dropped" => dialog \in Rendered(modal)

(* The dialog's buttons are clicked in an open dialog and all else beside  *)
(* a closed one, and so it stays until the click is served.                *)
ClickInv == pending # "no" => (dialog # None <=> pending \in {"approve", "cancel"})

(* The form matches the workspace, but for a chat turn whose answer a      *)
(* stopped run had already appended.                                       *)
FormInv == busy # "chat" => (form = None <=> WorkspaceIncident = None)

(* The staged payload is the latest one.  Once settled it is still staged  *)
(* only between the two writes of its run, or by one stopped there; after  *)
(* an approval it is gone only when settled.                               *)
StagingInv ==
  /\ modal # None => modal.no = stagings
  /\ busy = "answered" => modal.no \in settled
  /\ PayloadLeavesWithItsOutcome

(* A request is one of a payload that was staged.                          *)
SentInv == sent # None => sent.no \in 1..stagings

IInv ==
  TypeOK /\ DialogInv /\ ClickInv /\ FormInv /\ StagingInv /\ SentInv
    /\ WhatWasShownIsSent /\ FailedTurnShowsBanner

-----------------------------------------------------------------------------
(* Merging a staged payload fills in the text an operator deleted, so the  *)
(* request always has one.                                                 *)
LEMMA MergeType ==
  ASSUME NEW staged \in Staged
  PROVE  MergeDraft(staged) \in Merged /\ BuildDraft(MergeDraft(staged)) \in Shown
<1>1. MergeDraft(staged) \in Merged
  BY SessionAssumption DEF MergeDraft, Staged, Merged, Texts
<1> QED
  BY <1>1 DEF BuildDraft, Merged, Shown

(* The dialog opens over a staged payload and only over one.               *)
LEMMA RenderedType ==
  ASSUME NEW staged \in Staged \cup {None}, NEW shown \in Rendered(staged)
  PROVE  /\ shown \in Shown \cup {None, Unprojected}
         /\ staged = None => shown = None
BY MergeType DEF Rendered

(* After a full run the form is there exactly when there is an incident.   *)
LEMMA FullRunType ==
  ASSUME TypeOK, NEW i \in Incidents \cup {None}, FullRun(i)
  PROVE  /\ form' \in Texts \cup {None}
         /\ form' = None <=> i = None
         /\ dialog' \in Shown \cup {None, Unprojected}
         /\ modal = None => dialog' = None
         /\ dialog' \in Rendered(modal)
<1>1. modal \in Staged \cup {None} /\ dialog' \in Rendered(modal)
  BY DEF TypeOK, FullRun
<1>2. /\ dialog' \in Shown \cup {None, Unprojected}
      /\ modal = None => dialog' = None
  BY <1>1, RenderedType
<1>3. form' \in Texts \cup {None} /\ (form' = None <=> i = None)
  BY SessionAssumption DEF TypeOK, FullRun, Texts
<1> QED
  BY <1>1, <1>2, <1>3

LEMMA WorkspaceType ==
  ASSUME TypeOK
  PROVE  WorkspaceIncident \in Incidents \cup {None}
BY DEF TypeOK, WorkspaceIncident, IncidentOf, Message

(* The run after a stopped one either blocks in the chat or is a full run. *)
LEMMA NextRunType ==
  ASSUME TypeOK, ClickInv, pending # "no",
         NEW i \in Incidents \cup {None}, NextRun(i)
  PROVE  /\ busy' \in {"no", "chat"}
         /\ form' \in Texts \cup {None}
         /\ busy' = "no" => (form' = None <=> i = None)
         /\ dialog' \in Shown \cup {None, Unprojected}
         /\ modal = None => dialog' = None
         /\ dialog' # None => dialog' \in Rendered(modal)
<1>1. CASE pending = "prompt"
  BY <1>1 DEF NextRun, TypeOK, ClickInv
<1>2. CASE pending # "prompt"
  BY <1>2, FullRunType DEF NextRun
<1> QED
  BY <1>1, <1>2

-----------------------------------------------------------------------------
LEMMA InitIInv == Init => IInv
<1> SUFFICES ASSUME Init PROVE IInv
  OBVIOUS
<1>1. TypeOK
  <2>1. WorkspaceIncident = None
    BY DEF Init, WorkspaceIncident, IncidentOf
  <2>2. stagings \in 0..MaxStagings /\ settled \subseteq 1..stagings /\ cut \subseteq settled
    BY SessionAssumption DEF Init
  <2> QED
    BY <2>1, <2>2 DEF Init, TypeOK, Clicks
<1>2. DialogInv /\ ClickInv /\ FormInv /\ StagingInv /\ SentInv
  BY DEF Init, DialogInv, ClickInv, FormInv, StagingInv, SentInv, PayloadLeavesWithItsOutcome,
      WorkspaceIncident, IncidentOf
<1>3. WhatWasShownIsSent /\ FailedTurnShowsBanner
  BY DEF Init, WhatWasShownIsSent, FailedTurnShowsBanner
<1> QED
  BY <1>1, <1>2, <1>3 DEF IInv

(* What the steps that leave the approval alone preserve of it.            *)
ApprovalInv ==
  /\ StagingInv /\ SentInv /\ WhatWasShownIsSent
  /\ modal \in Staged \cup {None}
  /\ result = None \/ result.no \in settled
  /\ sent \in Request \cup {None}
  /\ stagings \in 0..MaxStagings
  /\ settled \subseteq 1..stagings
  /\ cut \subseteq settled

LEMMA ApprovalKept ==
  ASSUME IInv, UNCHANGED <<modal, result, sent, stagings, settled, cut>>,
         busy = "answered" <=> busy' = "answered"
  PROVE  ApprovalInv'
BY DEF IInv, TypeOK, ApprovalInv, StagingInv, SentInv, WhatWasShownIsSent,
       PayloadLeavesWithItsOutcome

(* The chat turns: they write the latest message, the banner, the form and *)
(* the dialog, never what is staged.                                       *)
LEMMA ChatStep ==
  ASSUME IInv,
         \/ SendMessage
         \/ \E i \in Incidents \cup {None} : ChatAnswers(i)
         \/ ChatFails
         \/ ChatStopped
  PROVE  IInv'
<1> DEFINE Same == UNCHANGED <<modal, result, sent, stagings, settled, cut>>
<1>0. TypeOK /\ DialogInv /\ ClickInv /\ FormInv /\ FailedTurnShowsBanner
  BY DEF IInv
<1>1. ASSUME Same, busy # "answered", busy' # "answered" PROVE ApprovalInv'
  BY <1>1, ApprovalKept
<1>2. CASE SendMessage
  <2>1. /\ UNCHANGED <<latest, banner, form, pending, dialog>> /\ Same
        /\ busy = "no" /\ busy' = "chat" /\ dialog = None
    BY <1>2 DEF SendMessage, AtRest, approval
  <2>2. ApprovalInv'
    BY <1>1, <2>1
  <2>3. TypeOK'
    BY <1>0, <2>1, <2>2 DEF TypeOK, ApprovalInv
  <2> QED
    BY <1>0, <2>1, <2>2, <2>3
    DEF IInv, ApprovalInv, DialogInv, ClickInv, FormInv, FailedTurnShowsBanner, TypeOK
<1>3. ASSUME NEW i \in Incidents \cup {None}, NEW failed \in BOOLEAN, NEW up \in BOOLEAN,
             latest' = [incident |-> i, failed |-> failed], banner' = up,
             failed => up,
             pending' = "no", Same, busy = "chat", busy' \in {"no", "chat"},
             form' \in Texts \cup {None},
             busy' = "no" => (form' = None <=> i = None),
             dialog' \in Shown \cup {None, Unprojected},
             modal = None => dialog' = None,
             dialog' # None => dialog' \in Rendered(modal)
      PROVE  IInv'
  <2>1. latest' \in Message /\ latest' # None
    BY <1>3, SessionAssumption DEF Message
  <2>2. WorkspaceIncident' = i
    BY <1>3, <2>1 DEF WorkspaceIncident, IncidentOf
  <2>3. ApprovalInv'
    BY <1>1, <1>3
  <2>4. TypeOK'
    BY <1>3, <2>1, <2>2, <2>3 DEF TypeOK, ApprovalInv
  <2>5. DialogInv' /\ ClickInv'
    BY <1>3 DEF DialogInv, ClickInv, Rendered
  <2>6. FailedTurnShowsBanner'
    BY <1>3 DEF FailedTurnShowsBanner
  <2>7. FormInv'
    BY <1>3, <2>2 DEF FormInv
  <2> QED
    BY <2>3, <2>4, <2>5, <2>6, <2>7 DEF IInv, ApprovalInv
<1>4. ASSUME NEW i \in Incidents \cup {None}, ChatAnswers(i) PROVE IInv'
  <2>1. /\ latest' = [incident |-> i, failed |-> FALSE] /\ banner' = FALSE
        /\ pending' = "no" /\ Same /\ busy = "chat" /\ busy' = "no" /\ FullRun(i)
    BY <1>4 DEF ChatAnswers
  <2> QED
    BY <1>0, <2>1, <1>3, FullRunType
<1>5. CASE ChatFails
  <2>1. /\ latest' = [incident |-> None, failed |-> TRUE] /\ banner' = TRUE
        /\ pending' = "no" /\ Same /\ busy = "chat" /\ busy' = "no" /\ FullRun(None)
    BY <1>5 DEF ChatFails
  <2> QED
    BY <1>0, <2>1, <1>3, FullRunType
<1>6. CASE ChatStopped
  <2>1. /\ pending # "no" /\ pending' = "no" /\ Same /\ banner' = banner
        /\ busy = "chat" /\ NextRun(IncidentOf(latest'))
    BY <1>6 DEF ChatStopped
  <2>2. CASE latest' = latest
    <3>1. IncidentOf(latest') = WorkspaceIncident
          /\ WorkspaceIncident' = WorkspaceIncident
          /\ WorkspaceIncident \in Incidents \cup {None}
      BY <1>0, <2>2, WorkspaceType DEF WorkspaceIncident
    <3>2. /\ busy' \in {"no", "chat"}
          /\ form' \in Texts \cup {None}
          /\ busy' = "no" => (form' = None <=> WorkspaceIncident = None)
          /\ dialog' \in Shown \cup {None, Unprojected}
          /\ modal = None => dialog' = None
          /\ dialog' # None => dialog' \in Rendered(modal)
      BY <1>0, <2>1, <3>1, NextRunType
    <3>3. ApprovalInv'
      BY <1>1, <2>1, <3>2
    <3>4. TypeOK'
      BY <1>0, <2>1, <2>2, <3>1, <3>2, <3>3 DEF TypeOK, ApprovalInv
    <3>5. DialogInv' /\ ClickInv'
      BY <2>1, <3>2 DEF DialogInv, ClickInv, Rendered
    <3>6. FailedTurnShowsBanner'
      BY <1>0, <2>1, <2>2 DEF FailedTurnShowsBanner
    <3>7. FormInv'
      BY <3>1, <3>2 DEF FormInv
    <3> QED
      BY <3>3, <3>4, <3>5, <3>6, <3>7 DEF IInv, ApprovalInv
  <2>3. ASSUME NEW i \in Incidents \cup {None},
               latest' = [incident |-> i, failed |-> FALSE]
        PROVE  IInv'
    <3>0. latest' \in Message
      BY <2>3 DEF Message
    <3>1. IncidentOf(latest') = i
      BY <2>3, <3>0, SessionAssumption DEF IncidentOf, Message
    <3>2. NextRun(i)
      BY <2>1, <3>1 DEF NextRun, FullRun
    <3>3. banner' \in BOOLEAN
      BY <1>0, <2>1 DEF TypeOK
    <3>4. /\ busy' \in {"no", "chat"}
          /\ form' \in Texts \cup {None}
          /\ busy' = "no" => (form' = None <=> i = None)
          /\ dialog' \in Shown \cup {None, Unprojected}
          /\ modal = None => dialog' = None
          /\ dialog' # None => dialog' \in Rendered(modal)
      BY <1>0, <2>1, <3>2, NextRunType
    <3> QED
      BY <2>1, <2>3, <3>3, <3>4, <1>3
  <2> QED
    BY <1>6, <2>2, <2>3 DEF ChatStopped
<1> QED
  BY <1>2, <1>4, <1>5, <1>6

(* The form and the staging of its content.                                *)
LEMMA FormStep ==
  ASSUME IInv, (\E text \in {Edited, Empty} : Edit(text)) \/ CreateTicket
  PROVE  IInv'
<1>0. TypeOK /\ FailedTurnShowsBanner /\ StagingInv /\ SentInv /\ WhatWasShownIsSent
  BY DEF IInv
<1>1. ASSUME NEW text \in {Edited, Empty}, Edit(text) PROVE IInv'
  <2>1. /\ UNCHANGED <<latest, banner, modal, result, busy, pending, sent, stagings,
                       settled, cut>>
        /\ busy = "no" /\ WorkspaceIncident # None /\ form' = text
        /\ dialog' \in Rendered(modal)
    BY <1>1 DEF Edit, AtRest
  <2>2. /\ dialog' \in Shown \cup {None, Unprojected}
        /\ modal = None => dialog' = None
    BY <1>0, <2>1, RenderedType DEF TypeOK
  <2>3. WorkspaceIncident' = WorkspaceIncident
    BY <2>1 DEF WorkspaceIncident, IncidentOf
  <2>4. ApprovalInv'
    BY <2>1, ApprovalKept
  <2>5. TypeOK'
    BY <1>0, <2>1, <2>2, <2>3, <2>4, SessionAssumption DEF TypeOK, Texts, ApprovalInv
  <2>6. DialogInv' /\ ClickInv' /\ FormInv' /\ FailedTurnShowsBanner'
    BY <1>0, <2>1, <2>5 DEF DialogInv, ClickInv, FormInv, FailedTurnShowsBanner, TypeOK
  <2> QED
    BY <2>4, <2>5, <2>6 DEF IInv, ApprovalInv
<1>2. CASE CreateTicket
  <2>1. /\ UNCHANGED <<latest, banner, form, result, busy, pending, sent, settled, cut>>
        /\ busy = "no" /\ WorkspaceIncident # None
        /\ stagings < MaxStagings /\ stagings' = stagings + 1
        /\ modal' = [no |-> stagings', incident |-> WorkspaceIncident, text |-> form]
        /\ dialog' \in Rendered(modal')
    BY <1>2 DEF CreateTicket, AtRest
  <2>2. WorkspaceIncident' = WorkspaceIncident /\ WorkspaceIncident \in Incidents
    BY <1>0, <2>1, WorkspaceType DEF WorkspaceIncident, IncidentOf
  <2>3. modal' \in Staged /\ modal'.no = stagings + 1
    <3>1. stagings + 1 \in 1..MaxStagings /\ form \in Texts
      BY <1>0, <2>1, SessionAssumption DEF TypeOK
    <3>2. modal' \in Staged /\ modal'.no = stagings + 1
      BY <2>1, <2>2, <3>1 DEF Staged
    <3> QED
      BY <3>2
  <2>4. dialog' \in Shown \cup {None, Unprojected} /\ (modal' = None => dialog' = None)
    BY <2>1, <2>3, RenderedType
  <2>5. /\ stagings' \in 0..MaxStagings
        /\ (settled \subseteq 1..stagings)' /\ (cut \subseteq settled)'
    BY <1>0, <2>1, SessionAssumption DEF TypeOK
  <2>6. TypeOK'
    BY <1>0, <2>1, <2>2, <2>3, <2>4, <2>5 DEF TypeOK
  <2>7. SentInv' /\ (sent' # None => sent'.no # stagings')
    BY <1>0, <2>1 DEF SentInv, TypeOK
  <2>8. StagingInv'
    <3>1. modal'.no \notin settled'
      BY <1>0, <2>1, <2>3 DEF TypeOK
    <3> QED
      BY <2>1, <2>3, <2>7, <3>1 DEF StagingInv, PayloadLeavesWithItsOutcome
  <2>9. DialogInv' /\ ClickInv' /\ FormInv'
    BY <1>0, <2>1, <2>6 DEF DialogInv, ClickInv, FormInv, TypeOK
  <2> QED
    BY <1>0, <2>1, <2>6, <2>7, <2>8, <2>9
    DEF IInv, WhatWasShownIsSent, FailedTurnShowsBanner
<1> QED
  BY <1>1, <1>2

-----------------------------------------------------------------------------
(* What every run of the dialog leaves alone.                              *)
LEMMA Workspace ==
  ASSUME IInv, UNCHANGED <<latest, banner, form>>, busy # "chat"
  PROVE  /\ latest' \in Message \cup {None} /\ banner' \in BOOLEAN
         /\ form' \in Texts \cup {None}
         /\ (form = None <=> WorkspaceIncident = None)'
         /\ FailedTurnShowsBanner'
BY DEF IInv, TypeOK, FormInv, FailedTurnShowsBanner, WorkspaceIncident, IncidentOf

(* A request sent from an open dialog carries what the dialog displayed.   *)
LEMMA SendStep ==
  ASSUME IInv, Approve \/ StoppedByApprove
  PROVE  IInv'
<1>0. TypeOK /\ DialogInv /\ ClickInv /\ StagingInv
  BY DEF IInv
<1>1. /\ UNCHANGED <<latest, banner, form, modal, result, stagings, settled>>
      /\ busy # "chat" /\ busy' = "create" /\ pending' = "no"
      /\ dialog # None /\ modal # None
      /\ dialog' = dialog \/ dialog' \in Rendered(modal)
      /\ sent' = [no |-> modal.no, seen |-> dialog, incident |-> MergeDraft(modal)]
      /\ cut' = IF busy = "answered" THEN cut \cup {modal.no} ELSE cut
  BY <1>0 DEF Approve, StoppedByApprove, DialogStopped, ClickInv, TypeOK
<1>2. modal \in Staged /\ dialog \in Rendered(modal)
  BY <1>0, <1>1 DEF TypeOK, DialogInv
<1>3. dialog' \in Rendered(modal)
  BY <1>1, <1>2
<1>4. dialog' \in Shown \cup {None, Unprojected}
  BY <1>2, <1>3, RenderedType
<1>5. MergeDraft(modal) \in Merged
  BY <1>2, MergeType
<1>6. modal.no \in 1..MaxStagings /\ dialog \in Shown \cup {Unprojected}
  BY <1>0, <1>1, <1>2 DEF TypeOK, Staged
<1>7. sent' \in Request /\ sent'.no = modal.no
  BY <1>1, <1>5, <1>6 DEF Request
<1>8. cut' \subseteq settled'
  BY <1>0, <1>1 DEF TypeOK, StagingInv
<1>9. TypeOK'
  BY <1>0, <1>1, <1>2, <1>4, <1>7, <1>8, Workspace DEF TypeOK
<1>10. WhatWasShownIsSent'
  BY <1>1, <1>2 DEF WhatWasShownIsSent, Rendered
<1>11. StagingInv'
  BY <1>0, <1>1 DEF StagingInv, PayloadLeavesWithItsOutcome
<1>12. SentInv'
  <2>1. modal.no = stagings /\ stagings \in Nat
    BY <1>0, <1>1 DEF StagingInv, TypeOK
  <2> QED
    BY <1>1, <1>6, <1>7, <2>1 DEF SentInv
<1> QED
  BY <1>1, <1>3, <1>9, <1>10, <1>11, <1>12, Workspace
  DEF IInv, DialogInv, ClickInv, FormInv

(* The two writes at the end of a run, in their order: a create settles    *)
(* its payload and then drops it, a Cancel drops it and is settled.        *)
LEMMA WriteStep ==
  ASSUME IInv, CancelDrops \/ CancelClears \/ CreateReturns \/ AnswerDrops
  PROVE  IInv'
<1>0. /\ TypeOK /\ DialogInv /\ ClickInv /\ StagingInv /\ SentInv /\ WhatWasShownIsSent
      /\ FailedTurnShowsBanner
  BY DEF IInv
<1>1. /\ UNCHANGED <<latest, banner, form, pending, sent, stagings, cut>>
      /\ pending = "no" /\ busy \notin {"no", "chat"} /\ busy' # "chat"
      /\ dialog' = dialog \/ dialog' = None
  BY DEF CancelDrops, CancelClears, CreateReturns, AnswerDrops
<1>2. modal # None => modal \in Staged /\ modal.no = stagings /\ stagings \in 1..MaxStagings
  BY <1>0 DEF TypeOK, StagingInv, Staged
<1>3. /\ settled' \subseteq 1..stagings /\ settled \subseteq settled'
      /\ modal # None /\ modal' = None => modal.no \in settled'
  <2>1. settled \subseteq 1..stagings
    BY <1>0 DEF TypeOK
  <2>2. CASE CancelDrops \/ CreateReturns
    <3>1. modal # None /\ settled' = settled \cup {modal.no}
      BY <1>0, <2>2 DEF CancelDrops, CreateReturns, TypeOK
    <3>2. modal.no \in 1..stagings
      BY <1>2, <3>1
    <3> QED
      BY <2>1, <3>1, <3>2
  <2>3. CASE CancelClears
    BY <2>1, <2>3 DEF CancelClears
  <2>4. CASE AnswerDrops
    BY <1>0, <2>1, <2>4 DEF AnswerDrops, StagingInv
  <2> QED
    BY <2>2, <2>3, <2>4
<1>4. result' = None \/ result'.no \in settled'
  <2>1. CASE CreateReturns
    <3>1. PICK outcome \in {"created", "no id", "error"} :
            result' = [no |-> modal.no, outcome |-> outcome]
      BY <2>1 DEF CreateReturns
    <3> QED
      BY <2>1, <3>1 DEF CreateReturns
  <2>2. CASE ~CreateReturns
    BY <1>0, <1>3, <2>2 DEF CancelDrops, CancelClears, AnswerDrops, TypeOK
  <2> QED
    BY <2>1, <2>2
<1>5. /\ busy' \in {"no", "dropped", "answered"}
      /\ modal' = modal \/ modal' = None
      /\ busy' = "answered" => modal' # None /\ modal'.no \in settled' /\ dialog' = dialog
      /\ busy' = "dropped" => modal' = None
      /\ busy' = "no" => dialog' = None /\ modal' = None
  BY <1>0 DEF CancelDrops, CancelClears, CreateReturns, AnswerDrops, TypeOK
<1>6. TypeOK'
  BY <1>0, <1>1, <1>3, <1>4, <1>5, Workspace DEF TypeOK
<1>7. StagingInv'
  BY <1>0, <1>1, <1>2, <1>3, <1>5 DEF StagingInv, PayloadLeavesWithItsOutcome
<1>8. DialogInv'
  <2>1. busy' = "answered" => busy = "create" /\ modal' = modal
    BY DEF CancelDrops, CancelClears, CreateReturns, AnswerDrops
  <2> QED
    BY <1>0, <1>5, <2>1 DEF DialogInv
<1> QED
  BY <1>0, <1>1, <1>5, <1>6, <1>7, <1>8, Workspace
  DEF IInv, ClickInv, FormInv, SentInv, WhatWasShownIsSent

(* The other runs that follow a stopped run of the dialog: of Cancel, of   *)
(* the dialog without a payload, and of the script.                        *)
LEMMA StopStep ==
  ASSUME IInv, StoppedByCancel \/ StoppedAfterDrop \/ StoppedByRun
  PROVE  IInv'
<1>0. /\ TypeOK /\ ClickInv /\ StagingInv /\ SentInv /\ WhatWasShownIsSent
      /\ FailedTurnShowsBanner
  BY DEF IInv
<1>1. /\ UNCHANGED <<latest, banner, modal, result, stagings, settled, sent>>
      /\ pending # "no" /\ pending' = "no" /\ busy \notin {"no", "chat"}
      /\ cut' = IF busy = "answered" THEN cut \cup {modal.no} ELSE cut
  BY DEF StoppedByCancel, StoppedAfterDrop, StoppedByRun, DialogStopped
<1>2. /\ WorkspaceIncident' = WorkspaceIncident
      /\ WorkspaceIncident \in Incidents \cup {None}
  BY <1>0, <1>1, WorkspaceType DEF WorkspaceIncident, IncidentOf
<1>3. form = None <=> WorkspaceIncident = None
  BY <1>1 DEF IInv, FormInv
<1>4. /\ busy' \in {"no", "chat", "cancel"}
      /\ form' \in Texts \cup {None}
      /\ busy' # "chat" => (form' = None <=> WorkspaceIncident = None)
      /\ dialog' \in Shown \cup {None, Unprojected}
      /\ modal = None => dialog' = None
      /\ dialog' # None => dialog' \in Rendered(modal)
      /\ busy' = "cancel" => modal # None
  <2>1. CASE StoppedByCancel
    <3>1. /\ busy' = "cancel" /\ modal # None /\ form' = form
          /\ dialog' \in Rendered(modal)
      BY <2>1 DEF StoppedByCancel
    <3>2. dialog' \in Shown \cup {None, Unprojected}
      BY <1>0, <3>1, RenderedType DEF TypeOK
    <3> QED
      BY <1>0, <1>3, <3>1, <3>2 DEF TypeOK
  <2>2. CASE StoppedAfterDrop
    <3>1. busy' = "no" /\ FullRun(WorkspaceIncident)
      BY <2>2 DEF StoppedAfterDrop
    <3> QED
      BY <1>0, <1>2, <3>1, FullRunType
  <2>3. CASE StoppedByRun
    <3>1. NextRun(WorkspaceIncident)
      BY <2>3 DEF StoppedByRun
    <3>2. /\ busy' \in {"no", "chat"}
          /\ form' \in Texts \cup {None}
          /\ busy' = "no" => (form' = None <=> WorkspaceIncident = None)
          /\ dialog' \in Shown \cup {None, Unprojected}
          /\ modal = None => dialog' = None
          /\ dialog' # None => dialog' \in Rendered(modal)
      BY <1>0, <1>1, <1>2, <3>1, NextRunType
    <3> QED
      BY <3>2
  <2> QED
    BY <2>1, <2>2, <2>3
<1>5. cut' \subseteq settled'
  BY <1>0, <1>1 DEF TypeOK, StagingInv
<1>6. TypeOK'
  BY <1>0, <1>1, <1>2, <1>4, <1>5 DEF TypeOK
<1>7. StagingInv'
  BY <1>0, <1>1, <1>4 DEF StagingInv, PayloadLeavesWithItsOutcome
<1>8. DialogInv' /\ ClickInv' /\ FormInv'
  BY <1>1, <1>2, <1>4 DEF DialogInv, ClickInv, FormInv
<1> QED
  BY <1>0, <1>1, <1>6, <1>7, <1>8
  DEF IInv, SentInv, WhatWasShownIsSent, FailedTurnShowsBanner

(* The steps of the operator that leave what is staged alone.              *)
LEMMA WaitStep ==
  ASSUME IInv,
         \/ Dismiss
         \/ Cancel
         \/ \E what \in Clicks : Interact(what)
         \/ UNCHANGED vars
  PROVE  IInv'
<1>0. TypeOK /\ DialogInv /\ ClickInv /\ FormInv /\ FailedTurnShowsBanner
  BY DEF IInv
<1>1. /\ UNCHANGED <<latest, banner, form, modal, result, sent, stagings, settled, cut>>
      /\ busy' = busy \/ (busy = "no" /\ dialog # None /\ busy' = "cancel")
      /\ dialog' = dialog \/ (dialog' = None /\ pending = "no")
      /\ \/ pending' = pending
         \/ /\ busy # "no" /\ pending = "no" /\ pending' \in Clicks /\ dialog' = dialog
            /\ dialog # None <=> pending' \in {"approve", "cancel"}
  BY DEF Dismiss, Cancel, Interact, approval, vars, Clicks
<1>2. ApprovalInv'
  BY <1>1, ApprovalKept
<1>3. WorkspaceIncident' = WorkspaceIncident
  BY <1>1 DEF WorkspaceIncident, IncidentOf
<1>4. TypeOK'
  BY <1>0, <1>1, <1>2, <1>3 DEF TypeOK, ApprovalInv
<1>5. DialogInv'
  BY <1>0, <1>1 DEF DialogInv
<1>6. ClickInv'
  BY <1>0, <1>1 DEF ClickInv
<1>7. FormInv' /\ FailedTurnShowsBanner'
  BY <1>0, <1>1, <1>3 DEF FormInv, FailedTurnShowsBanner
<1> QED
  BY <1>2, <1>4, <1>5, <1>6, <1>7 DEF IInv, ApprovalInv

-----------------------------------------------------------------------------
(* The inductive invariant holds in every reachable state.                 *)
THEOREM Inductive == Spec => []IInv
<1>1. IInv /\ [Next]_vars => IInv'
  BY ChatStep, FormStep, SendStep, WriteStep, StopStep, WaitStep DEF Next
<1> QED
  BY InitIInv, <1>1, PTL DEF Spec

(* Every variable keeps its type; a dialog is open and runs over a staged  *)
(* payload only, but for a Cancel that has just dropped it.                *)
THEOREM TypeCorrect == Spec => []TypeOK
<1>1. IInv => TypeOK
  BY DEF IInv
<1> QED
  BY Inductive, <1>1, PTL

(* The request the backend gets is the draft the dialog displayed at the   *)
(* click on Approve.                                                       *)
THEOREM OperatorApprovesWhatIsSent == Spec => []WhatWasShownIsSent
<1>1. IInv => WhatWasShownIsSent
  BY DEF IInv
<1> QED
  BY Inductive, <1>1, PTL

(* While the latest turn is one that failed, the banner is up.             *)
THEOREM FailureIsVisible == Spec => []FailedTurnShowsBanner
<1>1. IInv => FailedTurnShowsBanner
  BY DEF IInv
<1> QED
  BY Inductive, <1>1, PTL

(* An approved payload is gone only when its outcome is on the panel or it *)
(* was cancelled, and a settled one stays staged only if its run was       *)
(* stopped between the two writes.                                         *)
THEOREM PayloadsLeaveSettled == Spec => []PayloadLeavesWithItsOutcome
<1>1. IInv => PayloadLeavesWithItsOutcome
  BY DEF IInv, StagingInv
<1> QED
  BY Inductive, <1>1, PTL
=============================================================================
