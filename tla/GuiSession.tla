----------------------------- MODULE GuiSession -----------------------------
(***************************************************************************)
(* One operator's session of the Streamlit GUI, apps/frontend/ui.py: the   *)
(* latest chat answer, the editable draft, the payload staged for          *)
(* approval, the dialog over it and the panel with its result.             *)
(*                                                                         *)
(* Streamlit runs the whole script at every interaction and only the       *)
(* dialog's function at one inside the dialog.  A run blocks in its HTTP   *)
(* call; an interaction meanwhile is pending, and stops the run at its     *)
(* next use of st or of the session state.  The dialog's own close button  *)
(* runs nothing.                                                           *)
(*                                                                         *)
(* `text` stands for title, severity and body together; the text of an     *)
(* incident is the incident itself.  Labels typed by the operator are left *)
(* out: build_draft reads none of them.                                    *)
(***************************************************************************)
EXTENDS Naturals

CONSTANTS Incidents,    \* incidents the backend's answers carry
          None,         \* Python's None
          Edited,       \* a text typed by the operator
          Empty,        \* a text the operator has deleted
          Unprojected,  \* what the dialog shows when /tickets/preview fails
          MaxStagings   \* bound: clicks on "Create ticket"

ASSUME SessionAssumption ==
  /\ None \notin Incidents \cup {Edited, Empty}
  /\ Edited \notin Incidents
  /\ Empty \notin Incidents \cup {Edited}
  /\ None \notin [incident : Incidents \cup {None}, failed : BOOLEAN]
  /\ MaxStagings \in Nat

VARIABLES
  latest,    \* the latest assistant message: its incident, and if it failed
  banner,    \* st.session_state["last_error"] is set
  form,      \* the text of the draft widgets (None: not rendered)
  modal,     \* st.session_state["ticket_modal"], the staged payload
  dialog,    \* what the open dialog displays (None: closed)
  result,    \* st.session_state["ticket_result"]
  busy,      \* where the script thread is
  pending,   \* what the operator has clicked meanwhile
  sent,      \* the last create request, with the dialog it came from
  stagings,  \* how many payloads were staged
  settled,   \* the stagings whose outcome was written or that Cancel dropped
  cut        \* those settled by a run that was stopped before it dropped them
             \* (settled and cut are history)

approval == <<modal, dialog, result, sent, stagings, settled, cut>>
vars == <<latest, banner, form, busy, pending, approval>>

-----------------------------------------------------------------------------
Texts   == Incidents \cup {Edited, Empty}
Message == [incident : Incidents \cup {None}, failed : BOOLEAN]
Staged  == [no : 1..MaxStagings, incident : Incidents, text : Texts]
Merged  == [incident : Incidents, text : Texts \ {Empty}]
Shown   == [text : Texts \ {Empty}, labels : Incidents]
Request == [no : 1..MaxStagings, incident : Merged, seen : Shown \cup {Unprojected}]

(* _merge_draft_into_incident: an empty field leaves the incident's own.   *)
MergeDraft(staged) ==
  [incident |-> staged.incident,
   text     |-> IF staged.text = Empty THEN staged.incident ELSE staged.text]

(* build_draft of the merged incident, as /tickets/preview returns it: the *)
(* labels come from its severity and its similar tickets.                  *)
BuildDraft(merged) == [text |-> merged.text, labels |-> merged.incident]

(* What a run of the dialog displays over a staged payload.                *)
Rendered(staged) ==
  IF staged = None THEN {None} ELSE {BuildDraft(MergeDraft(staged)), Unprojected}

Clicks  == {"prompt", "widget", "approve", "cancel"}

IncidentOf(message) == IF message = None THEN None ELSE message.incident
WorkspaceIncident   == IncidentOf(latest)

(* A full run of the script renders the form from the latest message, and  *)
(* opens the dialog over whatever is staged.  The keyed widgets restart    *)
(* from the new incident's defaults or keep what they hold: this depends   *)
(* on the Streamlit version, of which pyproject.toml admits all >= 1.39.   *)
FullRun(incident) ==
  /\ form' \in IF incident = None THEN {None}
               ELSE IF form = None THEN {incident}
               ELSE {incident, form}
  /\ dialog' \in Rendered(modal)

(* The run that follows a stopped one.  It sends the new prompt before it  *)
(* renders a workspace; for any other widget it is a full run.             *)
NextRun(incident) ==
  IF pending = "prompt"
    THEN busy' = "chat" /\ UNCHANGED <<form, dialog>>
    ELSE busy' = "no" /\ FullRun(incident)

-----------------------------------------------------------------------------
Init ==
  /\ latest = None
  /\ banner = FALSE
  /\ form = None
  /\ modal = None
  /\ dialog = None
  /\ result = None
  /\ busy = "no"
  /\ pending = "no"
  /\ sent = None
  /\ stagings = 0
  /\ settled = {}
  /\ cut = {}

-----------------------------------------------------------------------------
(* The open dialog covers everything behind it.                            *)
AtRest == busy = "no" /\ dialog = None

(* A chat prompt, typed or suggested: the run blocks in ChatClient.send.   *)
SendMessage ==
  /\ AtRest
  /\ busy' = "chat"
  /\ UNCHANGED <<latest, banner, form, pending, approval>>

ChatAnswers(i) ==
  /\ busy = "chat" /\ pending = "no"
  /\ busy' = "no"
  /\ latest' = [incident |-> i, failed |-> FALSE]
  /\ banner' = FALSE
  /\ FullRun(i)
  /\ UNCHANGED <<pending, modal, result, sent, stagings, settled, cut>>

(* ChatError: an error turn without an incident, and the banner.           *)
ChatFails ==
  /\ busy = "chat" /\ pending = "no"
  /\ busy' = "no"
  /\ latest' = [incident |-> None, failed |-> TRUE]
  /\ banner' = TRUE
  /\ FullRun(None)
  /\ UNCHANGED <<pending, modal, result, sent, stagings, settled, cut>>

(* Mutant: the error turn is appended before last_error is set.            *)
ChatStoppedMidError ==
  /\ busy = "chat" /\ pending # "no"
  /\ pending' = "no"
  /\ latest' = [incident |-> None, failed |-> TRUE]
  /\ NextRun(None)
  /\ UNCHANGED <<banner, modal, result, sent, stagings, settled, cut>>

(* The stopped run wrote nothing, or had appended its answer and not yet   *)
(* cleared last_error.                                                     *)
ChatStopped ==
  /\ busy = "chat" /\ pending # "no"
  /\ pending' = "no"
  /\ \/ latest' = latest
     \/ \E i \in Incidents \cup {None} : latest' = [incident |-> i, failed |-> FALSE]
  /\ NextRun(IncidentOf(latest'))
  /\ UNCHANGED <<banner, modal, result, sent, stagings, settled, cut>>

(* Any change of a widget is a full run.                                   *)
Edit(text) ==
  /\ AtRest
  /\ WorkspaceIncident # None
  /\ form' = text
  /\ dialog' \in Rendered(modal)
  /\ UNCHANGED <<latest, banner, modal, result, busy, pending, sent, stagings, settled, cut>>

-----------------------------------------------------------------------------
(* "Create ticket": stages a snapshot of the incident and the widgets.     *)
CreateTicket ==
  /\ AtRest
  /\ WorkspaceIncident # None
  /\ stagings < MaxStagings
  /\ stagings' = stagings + 1
  /\ modal' = [no |-> stagings', incident |-> WorkspaceIncident, text |-> form]
  /\ dialog' \in Rendered(modal')
  /\ UNCHANGED <<latest, banner, form, result, busy, pending, sent, settled, cut>>

(* The dialog's own close button: the payload stays staged, and the run    *)
(* that blocks goes on.                                                    *)
Dismiss ==
  /\ dialog # None
  /\ pending = "no"
  /\ dialog' = None
  /\ UNCHANGED <<latest, banner, form, busy, pending, modal, result, sent,
                 stagings, settled, cut>>

(* "Cancel": the run of the dialog blocks in TicketClient.preview,         *)
Cancel ==
  /\ busy = "no"
  /\ dialog # None
  /\ busy' = "cancel"
  /\ UNCHANGED <<latest, banner, form, pending, approval>>

(* drops the payload,                                                      *)
CancelDrops ==
  /\ busy = "cancel" /\ pending = "no"
  /\ busy' = "dropped"
  /\ modal' = None
  /\ settled' = settled \cup {modal.no}
  /\ UNCHANGED <<latest, banner, form, pending, dialog, result, sent, stagings, cut>>

(* Mutant: no rerun after Cancel.                                          *)
CancelWithoutRerun ==
  /\ busy = "dropped" /\ pending = "no"
  /\ busy' = "no"
  /\ result' = None
  /\ UNCHANGED <<latest, banner, form, pending, modal, dialog, sent, stagings,
                 settled, cut>>

(* and clears the panel: two writes, then the rerun closes the dialog.     *)
CancelClears ==
  /\ busy = "dropped" /\ pending = "no"
  /\ busy' = "no"
  /\ result' = None
  /\ dialog' = None
  /\ UNCHANGED <<latest, banner, form, pending, modal, sent, stagings, settled, cut>>

(* Mutant: Approve rebuilds the request from the workspace.                *)
ApproveWorkspace ==
  /\ busy = "no"
  /\ dialog # None
  /\ WorkspaceIncident # None
  /\ busy' = "create"
  /\ sent' = [no |-> modal.no, seen |-> dialog,
              incident |-> MergeDraft([incident |-> WorkspaceIncident, text |-> form])]
  /\ UNCHANGED <<latest, banner, form, pending, modal, dialog, result, stagings,
                 settled, cut>>

(* "Approve & create": the run of the dialog merges the staged payload and *)
(* blocks in TicketClient.create.                                          *)
Approve ==
  /\ busy = "no"
  /\ dialog # None
  /\ busy' = "create"
  /\ sent' = [no |-> modal.no, seen |-> dialog, incident |-> MergeDraft(modal)]
  /\ UNCHANGED <<latest, banner, form, pending, modal, dialog, result, stagings,
                 settled, cut>>

(* create returned a ticket id or none, or raised TicketError: the panel   *)
(* is written,                                                             *)
CreateReturns ==
  /\ busy = "create" /\ pending = "no"
  /\ busy' = "answered"
  /\ \E outcome \in {"created", "no id", "error"} :
       result' = [no |-> modal.no, outcome |-> outcome]
  /\ settled' = settled \cup {modal.no}
  /\ UNCHANGED <<latest, banner, form, pending, modal, dialog, sent, stagings, cut>>

(* Mutant: the dialog is left staged after an error, for another try.      *)
AnswerKeepsFailed ==
  /\ busy = "answered" /\ pending = "no"
  /\ busy' = "no"
  /\ modal' = IF result.outcome = "error" THEN modal ELSE None
  /\ dialog' = None
  /\ UNCHANGED <<latest, banner, form, pending, result, sent, stagings, settled, cut>>

(* then the payload is dropped, and the rerun closes the dialog.           *)
AnswerDrops ==
  /\ busy = "answered" /\ pending = "no"
  /\ busy' = "no"
  /\ modal' = None
  /\ dialog' = None
  /\ UNCHANGED <<latest, banner, form, pending, result, sent, stagings, settled, cut>>

(* An interaction before a run has ended: another prompt or another widget *)
(* if no dialog is in the way, or one of the dialog's two buttons.         *)
Interact(what) ==
  /\ busy # "no" /\ pending = "no"
  /\ IF dialog = None THEN what \in {"prompt", "widget"}
                      ELSE what \in {"approve", "cancel"}
  /\ pending' = what
  /\ UNCHANGED <<latest, banner, form, busy, approval>>

(* A run of the dialog stops at its next write: before its first one, or   *)
(* between the two.  A create that ends up here may have filed its ticket. *)
DialogStopped ==
  /\ busy \in {"cancel", "dropped", "create", "answered"} /\ pending # "no"
  /\ pending' = "no"
  /\ cut' = IF busy = "answered" THEN cut \cup {modal.no} ELSE cut
  /\ UNCHANGED <<latest, banner, modal, result, stagings, settled>>

(* The dialog runs again with Approve pressed, and sends the same request; *)
StoppedByApprove ==
  /\ DialogStopped
  /\ pending = "approve" /\ modal # None
  /\ busy' = "create"
  /\ dialog' \in Rendered(modal)
  /\ sent' = [no |-> modal.no, seen |-> dialog, incident |-> MergeDraft(modal)]
  /\ UNCHANGED form

(* or with Cancel pressed;                                                 *)
StoppedByCancel ==
  /\ DialogStopped
  /\ pending = "cancel" /\ modal # None
  /\ busy' = "cancel"
  /\ dialog' \in Rendered(modal)
  /\ UNCHANGED <<form, sent>>

(* or finds no payload staged any more, and reruns the whole script;       *)
StoppedAfterDrop ==
  /\ DialogStopped
  /\ pending \in {"approve", "cancel"} /\ modal = None
  /\ busy' = "no"
  /\ FullRun(WorkspaceIncident)
  /\ UNCHANGED sent

(* or, the dialog dismissed, the whole script runs at once.                *)
StoppedByRun ==
  /\ DialogStopped
  /\ pending \in {"prompt", "widget"}
  /\ NextRun(WorkspaceIncident)
  /\ UNCHANGED sent

-----------------------------------------------------------------------------
Next ==
  \/ SendMessage
  \/ \E i \in Incidents \cup {None} : ChatAnswers(i)
  \/ ChatFails
  \/ ChatStopped
  \/ \E text \in {Edited, Empty} : Edit(text)
  \/ CreateTicket
  \/ Dismiss
  \/ Cancel
  \/ CancelDrops
  \/ CancelClears
  \/ Approve
  \/ CreateReturns
  \/ AnswerDrops
  \/ \E what \in Clicks : Interact(what)
  \/ StoppedByApprove
  \/ StoppedByCancel
  \/ StoppedAfterDrop
  \/ StoppedByRun

Spec == Init /\ [][Next]_vars

-----------------------------------------------------------------------------
(* Properties.                                                             *)

(* Every variable has its type; a dialog is open and runs only over a      *)
(* staged payload, but for a Cancel that has just dropped it.              *)
TypeOK ==
  /\ latest \in Message \cup {None}
  /\ banner \in BOOLEAN
  /\ form \in Texts \cup {None}
  /\ busy = "no" => (form = None <=> WorkspaceIncident = None)
  /\ modal \in Staged \cup {None}
  /\ dialog \in Shown \cup {None, Unprojected}
  /\ modal = None => dialog = None \/ busy = "dropped"
  /\ result = None \/ result.no \in settled
  /\ busy \in {"no", "chat", "cancel", "dropped", "create", "answered"}
  /\ busy \in {"cancel", "create", "answered"} => modal # None
  /\ busy = "dropped" => modal = None
  /\ pending \in Clicks \cup {"no"}
  /\ busy = "no" => pending = "no"
  /\ sent \in Request \cup {None}
  /\ stagings \in 0..MaxStagings
  /\ settled \subseteq 1..stagings
  /\ cut \subseteq settled

(* The operator sends what the dialog showed at the click: the workspace   *)
(* behind it may have moved on to another incident, the form may hold the  *)
(* text of a third, the dialog may be a dismissed one that came back.      *)
WhatWasShownIsSent ==
  sent # None /\ sent.seen # Unprojected =>
    BuildDraft(sent.incident) = sent.seen

(* A turn that failed never passes for an answer: while it is the latest   *)
(* one the banner is up, though runs are stopped between two writes.       *)
FailedTurnShowsBanner ==
  latest # None /\ latest.failed => banner

(* A payload leaves the session with its outcome and not before: an        *)
(* approved one is not gone until the panel has its result or it was       *)
(* cancelled, and once settled it is not staged any more, so that no       *)
(* dialog comes back over it for a second ticket.  The exception is a run  *)
(* that a click stopped after ui.py:816/820 and before 826: the panel then *)
(* names the outcome of a payload that is still staged.                    *)
PayloadLeavesWithItsOutcome ==
  /\ sent # None /\ sent.no = stagings /\ modal = None => sent.no \in settled
  /\ modal # None /\ modal.no \in settled => busy = "answered" \/ modal.no \in cut
=============================================================================
