----------------------------- MODULE TopicWizard -----------------------------
(***************************************************************************)
(* The wizard that gives a topic its window: a text in an unbound topic    *)
(* opens a window picker or a directory browser, then come the worktree,   *)
(* workspace, provider and mode screens and the launch; a text in a topic  *)
(* whose window died opens the recovery banner (text_handler.py,           *)
(* directory_callbacks.py, window_callbacks.py, workspace_callbacks.py,    *)
(* provider_mode_callbacks.py, window_launch_service.py,                   *)
(* recovery_banner.py, restore_command.py).                                *)
(*                                                                         *)
(* All topics of a user share one dictionary, user_data, and every message *)
(* with a keyboard stays in its topic until it is edited: the keys of one  *)
(* flow meet the keyboards of another.  Handlers run one after another, so *)
(* a handler is one action; what happens to windows while a launch waits   *)
(* is TopicLifecycle's subject.                                            *)
(*                                                                         *)
(* WzHazards lets happen what the code does not exclude:                   *)
(*   "olderCard"  a keyboard of an earlier flow of the same topic is used  *)
(*   "restored"   /restore while user_data holds the text of another topic *)
(*   "keptSpace"  a new flow while a chosen workspace is still in user_data*)
(*   "elsewhere"  the topic of an open wizard is bound by another command  *)
(*   "residue"    a launch after a reset that left the browsed directory   *)
(***************************************************************************)
EXTENDS Naturals, Sequences, FiniteSets

CONSTANTS
  WzTopics, NoTopic,
  MaxCards,      \* bound on messages with a keyboard
  MaxTexts,      \* bound on texts typed
  MaxBranches,   \* bound on worktree branches
  WzHazards

ASSUME WizardAssumption ==
  /\ NoTopic \notin WzTopics /\ {MaxCards, MaxTexts, MaxBranches} \subseteq Nat
  /\ WzHazards \subseteq {"olderCard", "restored", "keptSpace", "elsewhere",
                      "residue"}

Branches == 1..MaxBranches
(* A directory, or the checkout of a branch of it. *)
Places == [dir : {"cwd", "repo", "none"}, branch : 0..MaxBranches]
Place(dir, b) == [dir |-> dir, branch |-> b]
NoPlace == Place("none", 0)

VARIABLES
  mux,       \* the backend: workspaces on agterm and herdr, worktrees on herdr
  draft,     \* user_data
  wizards,   \* the messages that carry a keyboard
  attached,  \* what each topic is bound to
  typings,   \* the topic of every text typed in an unbound or dead topic
  spare,     \* there is a window no topic is bound to
  branches,  \* branches that exist in the repository
  served     \* the window the last step gave, and the keyboard it was asked on
wzVars == <<mux, draft, wizards, attached, typings, spare, branches, served>>

NoDraft == [state |-> "none", topic |-> NoTopic, text |-> 0, path |-> NoPlace,
            listed |-> FALSE, repo |-> FALSE, branch |-> 0, creating |-> FALSE,
            naming |-> FALSE, space |-> FALSE, recovering |-> NoTopic]
NoKeyboard == [topic |-> NoTopic, screen |-> "none", path |-> NoPlace, space |-> FALSE]
NotServed == [topic |-> NoTopic, path |-> NoPlace, space |-> FALSE, text |-> 0,
              card |-> NoKeyboard]

PicksWorkspace == mux # "tmux"
NativeWorktrees == mux = "herdr"

ClearBrowse(d) == [d EXCEPT !.state = "none", !.path = NoPlace]
ClearPicker(d) == [d EXCEPT !.state = "none", !.listed = FALSE]
ClearWorktree(d) ==
  [d EXCEPT !.repo = FALSE, !.branch = 0, !.creating = FALSE, !.naming = FALSE]
ClearWorkspace(d) == [d EXCEPT !.space = FALSE]
ClearPendingTopic(d) == [d EXCEPT !.topic = NoTopic]
ClearPending(d) == [d EXCEPT !.topic = NoTopic, !.text = 0]
ClearRecovery(d) == [ClearPending(d) EXCEPT !.recovering = NoTopic]

(* A message with a keyboard is sent to t. *)
Post(t, screen, path) ==
  /\ Len(wizards) < MaxCards
  /\ wizards' = Append(wizards, [topic |-> t, screen |-> screen, path |-> path,
                                 space |-> FALSE])
Redraw(i, screen, path) ==
  wizards' = [wizards EXCEPT ![i].screen = screen, ![i].path = path]
ShowSpace(i, path, space) ==
  wizards' = [wizards EXCEPT ![i].screen = "provider", ![i].path = path,
                             ![i].space = space]
Closed(i) == Redraw(i, "none", NoPlace)

(* A tap on the keyboard of message i while it shows the screen. *)
Tapped(i, screen) ==
  /\ i \in DOMAIN wizards /\ wizards[i].screen = screen
  /\ "olderCard" \notin WzHazards =>
       \A j \in (i + 1)..Len(wizards) :
          wizards[j].topic = wizards[i].topic => draft.topic # wizards[i].topic
FlowReset == draft.topic = NoTopic
Mismatch(i) == draft.topic \notin {NoTopic, wizards[i].topic}
BrowserFlowStale(i) == FlowReset \/ Mismatch(i)
Forgets == served' = NotServed
Stays == UNCHANGED <<mux, attached, typings, spare, branches>> /\ Forgets
Refuse == UNCHANGED wzVars
-----------------------------------------------------------------------------
(* Text *)

(* A branch name typed where the wizard asked for one. *)
WorktreeNameReply(t, b) ==
  /\ draft.naming /\ draft.topic = t
  /\ draft' = [draft EXCEPT !.naming = FALSE, !.branch = IF draft.repo THEN b ELSE @]
  /\ IF draft.repo THEN Post(t, "confirm", Place("repo", b)) ELSE UNCHANGED wizards
  /\ Stays

(* What is left of user_data for a text that an open wizard does not block. *)
Guarded ==
  CASE draft.state = "picking" -> ClearPending(ClearWorktree(ClearPicker(draft)))
    [] draft.state = "browsing" -> ClearPending(ClearWorktree(ClearBrowse(draft)))
    [] OTHER -> draft
Passes(t) ==
  /\ ~(draft.naming /\ draft.topic = t)
  /\ ~(draft.state # "none" /\ draft.topic = t)
  /\ Len(typings) < MaxTexts /\ typings' = Append(typings, t)
  /\ UNCHANGED <<mux, spare, branches>> /\ Forgets
Opens(t, d) == [d EXCEPT !.topic = t, !.text = Len(typings) + 1]
Browsing(d) == [d EXCEPT !.state = "browsing", !.path = Place("cwd", 0)]

UnboundTopic(t) ==
  /\ attached[t] = "free" /\ Passes(t)
  /\ "keptSpace" \notin WzHazards => ~draft.space
  /\ IF spare
     THEN /\ draft' = [Opens(t, Guarded) EXCEPT !.state = "picking", !.listed = TRUE]
          /\ Post(t, "picker", NoPlace)
     ELSE /\ draft' = Browsing(Opens(t, Guarded))
          /\ Post(t, "browser", Place("cwd", 0))
  /\ UNCHANGED attached

(* The window is gone: the recovery banner, or the browser when the recorded
   directory is gone too. *)
DeadWindow(t) ==
  /\ attached[t] = "dead" /\ Passes(t)
  /\ \/ /\ draft' = [Opens(t, Guarded) EXCEPT !.recovering = t]
        /\ Post(t, "recovery", NoPlace) /\ UNCHANGED attached
     \/ /\ "keptSpace" \notin WzHazards => ~draft.space
        /\ draft' = Browsing(Opens(t, Guarded)) /\ Post(t, "browser", Place("cwd", 0))
        /\ attached' = [attached EXCEPT ![t] = "free"]

StartCommand ==
  /\ draft' = ClearPending(ClearWorkspace(ClearWorktree(ClearPicker(ClearBrowse(draft)))))
  /\ UNCHANGED wizards /\ Stays
-----------------------------------------------------------------------------
(* The window picker *)

Serve(i, topic, path, space) ==
  served' = [topic |-> topic, path |-> path, space |-> space,
             text |-> draft.text, card |-> wizards[i]]

BindPicked(i) ==
  LET t == wizards[i].topic IN
  /\ Tapped(i, "picker")
  /\ IF Mismatch(i) \/ ~draft.listed \/ ~spare THEN Refuse ELSE
     /\ draft' = ClearPending(ClearPicker(draft)) /\ Closed(i)
     /\ attached' = [attached EXCEPT ![t] = "live"] /\ spare' = FALSE
     /\ Serve(i, wizards[i].topic, NoPlace, FALSE)
     /\ UNCHANGED <<mux, typings, branches>>

PickNew(i) ==
  /\ Tapped(i, "picker")
  /\ IF BrowserFlowStale(i) THEN Refuse ELSE
     /\ draft' = Browsing(ClearPicker(draft)) /\ Redraw(i, "browser", Place("cwd", 0)) /\ Stays

PickCancel(i) ==
  /\ Tapped(i, "picker")
  /\ IF Mismatch(i) THEN Refuse ELSE
     /\ draft' = ClearPending(ClearPicker(draft)) /\ Closed(i) /\ Stays
-----------------------------------------------------------------------------
(* The directory browser, the worktree and the workspace *)

(* Subdirectory, parent, home, page, favourite, star: another directory. *)
Navigate(i, dir) ==
  /\ Tapped(i, "browser")
  /\ IF BrowserFlowStale(i) THEN Refuse ELSE
     /\ draft' = [draft EXCEPT !.path = Place(dir, 0)] /\ Redraw(i, "browser", Place(dir, 0)) /\ Stays

(* The backend may list no workspace to choose from. *)
WorkspacePickerOrProvider(i, path) ==
  \/ PicksWorkspace /\ Redraw(i, "spaces", path)
  \/ Redraw(i, "provider", path)

Confirm(i) ==
  /\ Tapped(i, "browser")
  /\ IF draft.path = NoPlace \/ BrowserFlowStale(i)
     THEN /\ draft' = ClearPending(ClearWorktree(ClearBrowse(draft)))
          /\ UNCHANGED wizards
     ELSE IF attached[wizards[i].topic] # "free"
     THEN draft' = ClearBrowse(draft) /\ Closed(i)
     ELSE IF draft.path = Place("repo", 0)
     THEN draft' = [draft EXCEPT !.repo = TRUE] /\ Redraw(i, "worktree", draft.path)
     ELSE UNCHANGED draft /\ WorkspacePickerOrProvider(i, draft.path)
  /\ Stays

UseCurrent(i) ==
  /\ Tapped(i, "worktree")
  /\ IF BrowserFlowStale(i) THEN Refuse ELSE
     /\ IF ~draft.repo \/ draft.path = NoPlace THEN UNCHANGED draft /\ Closed(i)
        ELSE draft' = ClearWorktree(draft) /\ WorkspacePickerOrProvider(i, draft.path)
     /\ Stays

Suggested == CHOOSE b \in Branches \ branches : \A c \in Branches \ branches : b <= c
NewWorktree(i) ==
  /\ Tapped(i, "worktree") /\ Branches \ branches # {}
  /\ IF BrowserFlowStale(i) THEN Refuse ELSE
     /\ IF ~draft.repo THEN UNCHANGED draft /\ Closed(i)
        ELSE draft' = [draft EXCEPT !.branch = Suggested] /\ Redraw(i, "confirm", Place("repo", Suggested))
     /\ Stays

EditName(i) ==
  /\ Tapped(i, "confirm")
  /\ IF BrowserFlowStale(i) THEN Refuse ELSE
     /\ IF ~draft.repo THEN UNCHANGED draft /\ Closed(i)
        ELSE draft' = [draft EXCEPT !.naming = TRUE] /\ Redraw(i, "naming", NoPlace)
     /\ Stays

(* herdr makes the worktree at the launch; elsewhere `git worktree add` runs
   now, behind the flag that stops a second tap, and fails when the branch
   exists. *)
ConfirmWorktree(i) ==
  LET place == Place("repo", draft.branch) IN
  /\ Tapped(i, "confirm")
  /\ IF BrowserFlowStale(i) \/ (~NativeWorktrees /\ draft.creating) THEN Refuse ELSE
     /\ IF ~draft.repo \/ draft.branch = 0
        THEN /\ draft' = [draft EXCEPT !.creating = FALSE] /\ Closed(i)
             /\ UNCHANGED branches
        ELSE IF NativeWorktrees
        THEN /\ draft' = [draft EXCEPT !.path = place] /\ Redraw(i, "provider", place)
             /\ UNCHANGED branches
        ELSE IF draft.branch \in branches
        THEN /\ draft' = [draft EXCEPT !.creating = FALSE] /\ Redraw(i, "naming", NoPlace)
             /\ UNCHANGED branches
        ELSE /\ draft' = [draft EXCEPT !.creating = TRUE, !.path = place]
             /\ branches' = branches \union {draft.branch}
             /\ WorkspacePickerOrProvider(i, place)
     /\ UNCHANGED <<mux, attached, typings, spare>> /\ Forgets

ChooseSpace(i, space) ==
  /\ Tapped(i, "spaces")
  /\ IF BrowserFlowStale(i) \/ draft.path = NoPlace THEN Refuse ELSE
     /\ draft' = [draft EXCEPT !.space = space] /\ ShowSpace(i, draft.path, space) /\ Stays

BrowserCancel(i) ==
  /\ \E s \in {"browser", "worktree", "confirm", "naming", "spaces", "provider", "mode"} : Tapped(i, s)
  /\ IF Mismatch(i) THEN Refuse ELSE
     /\ draft' = ClearPending(ClearWorkspace(ClearWorktree(ClearBrowse(draft))))
     /\ Closed(i) /\ Stays
-----------------------------------------------------------------------------
(* The launch *)

(* launch_window with the keys d of user_data, for message i: the window is
   created and bound and takes the text, or nothing is left of the flow. *)
Launch(i, d) ==
  LET native == NativeWorktrees /\ d.repo /\ d.branch # 0
      place == IF native THEN Place("repo", d.branch) ELSE draft.path IN
  /\ \/ /\ ~(native /\ d.space)
        /\ draft' = ClearPending(ClearWorktree(d))
        /\ attached' = IF d.topic = NoTopic THEN attached
                       ELSE [attached EXCEPT ![d.topic] = "live"]
        /\ branches' = IF native THEN branches \union {d.branch} ELSE branches
     \/ /\ draft' = ClearPending(ClearWorkspace(ClearWorktree(d)))
        /\ UNCHANGED <<attached, branches>>
  /\ Serve(i, d.topic, place, d.space) /\ Closed(i)
  /\ UNCHANGED <<mux, typings, spare>>

Expired(i) == UNCHANGED draft /\ Closed(i) /\ Stays

ValidatedAnywhere(i, d, goes) ==
  IF ~FlowReset /\ attached[wizards[i].topic] # "free"
  THEN draft' = d /\ Closed(i) /\ Stays ELSE goes
(* _validate_provider_select, which leaves d of user_data: a tap in another
   topic ends the pending flow, a topic that has a window needs no other. *)
Validated(i, d, goes) ==
  CASE Mismatch(i) -> draft' = ClearPending(ClearWorktree(d)) /\ UNCHANGED wizards /\ Stays
    [] ~FlowReset /\ ~Mismatch(i) /\ attached[wizards[i].topic] # "free" ->
         draft' = d /\ Closed(i) /\ Stays
    [] OTHER -> goes
Chosen(i, screen) ==
  /\ Tapped(i, screen)
  /\ "residue" \notin WzHazards => ~(FlowReset /\ draft.path # NoPlace)

(* A provider without modes is launched at once. *)
SelectProvider(i, moded) ==
  /\ Chosen(i, "provider")
  /\ IF draft.path = NoPlace THEN Expired(i)
     ELSE Validated(i, draft,
            IF moded THEN UNCHANGED draft /\ Redraw(i, "mode", draft.path) /\ Stays
            ELSE Launch(i, ClearBrowse(draft)))

SelectMode(i) ==
  /\ Chosen(i, "mode")
  /\ IF draft.path = NoPlace THEN Expired(i)
     ELSE Validated(i, ClearBrowse(draft), Launch(i, ClearBrowse(draft)))
-----------------------------------------------------------------------------
(* Recovery *)

RestoreCommand(t) ==
  /\ attached[t] = "dead"
  /\ "restored" \notin WzHazards => draft.topic \in {NoTopic, t}
  /\ draft' = [draft EXCEPT !.topic = t, !.recovering = t]
  /\ Post(t, "recovery", NoPlace) /\ Stays

ValidRecovery(i) ==
  IF FlowReset THEN attached[wizards[i].topic] = "dead"
  ELSE ~Mismatch(i) /\ draft.recovering = wizards[i].topic

(* Fresh, Continue or a picked session: the topic leaves its dead window and
   gets the new one, or none when the creation fails. *)
CreateAndBind(i) ==
  LET t == wizards[i].topic IN
  /\ Tapped(i, "recovery")
  /\ IF ~ValidRecovery(i) THEN Refuse ELSE
     /\ Closed(i) /\ UNCHANGED <<mux, typings, spare, branches>>
     /\ IF attached[t] = "live" THEN UNCHANGED <<draft, attached>> /\ Forgets ELSE
        /\ draft' = ClearRecovery(draft)
        /\ \/ attached' = [attached EXCEPT ![t] = "live"] /\ Serve(i, wizards[i].topic, NoPlace, FALSE)
           \/ attached' = [attached EXCEPT ![t] = "free"] /\ Forgets

RecoveryCancel(i) ==
  /\ Tapped(i, "recovery")
  /\ IF Mismatch(i) THEN Refuse ELSE draft' = ClearRecovery(draft) /\ Closed(i) /\ Stays
-----------------------------------------------------------------------------
(* What happens beside the wizard *)

WindowDies(t) ==
  /\ attached[t] = "live" /\ attached' = [attached EXCEPT ![t] = "dead"]
  /\ Post(t, "recovery", NoPlace)
  /\ UNCHANGED <<mux, draft, typings, spare, branches>> /\ Forgets

SpareWindow ==
  /\ spare' = ~spare
  /\ UNCHANGED <<mux, draft, wizards, attached, typings, branches>> /\ Forgets

(* /resume, /sync or an Open button binds the topic. *)
BoundElsewhere(t) ==
  /\ attached[t] = "free" /\ ("elsewhere" \notin WzHazards => draft.topic # t)
  /\ attached' = [attached EXCEPT ![t] = "live"]
  /\ UNCHANGED <<mux, draft, wizards, typings, spare, branches>> /\ Forgets

WizardInit ==
  /\ mux \in {"tmux", "agterm", "herdr"} /\ draft = NoDraft /\ wizards = <<>>
  /\ attached \in [WzTopics -> {"free", "dead"}] /\ typings = <<>>
  /\ spare \in BOOLEAN /\ branches = {} /\ served = NotServed

WizardNext ==
  \/ \E t \in WzTopics :
       \/ UnboundTopic(t) \/ DeadWindow(t) \/ RestoreCommand(t)
       \/ WindowDies(t) \/ BoundElsewhere(t)
       \/ \E b \in Branches : WorktreeNameReply(t, b)
  \/ \E i \in DOMAIN wizards :
       \/ BindPicked(i) \/ PickNew(i) \/ PickCancel(i)
       \/ \E dir \in {"cwd", "repo"} : Navigate(i, dir)
       \/ Confirm(i) \/ UseCurrent(i) \/ NewWorktree(i) \/ EditName(i) \/ ConfirmWorktree(i)
       \/ BrowserCancel(i) \/ CreateAndBind(i) \/ RecoveryCancel(i)
       \/ \E choice \in BOOLEAN : ChooseSpace(i, choice) \/ SelectProvider(i, choice)
       \/ SelectMode(i)
  \/ StartCommand \/ SpareWindow

WizardSpec == WizardInit /\ [][WizardNext]_wzVars
-----------------------------------------------------------------------------
(* Properties *)

(* Every key of user_data, every keyboard and every topic is of its kind
   (text_handler.py, user_state.py). *)
WizardTypeOK ==
  /\ draft \in [state : {"none", "picking", "browsing"}, topic : WzTopics \union {NoTopic},
                text : 0..MaxTexts, path : Places, listed : BOOLEAN, repo : BOOLEAN,
                branch : 0..MaxBranches, creating : BOOLEAN, naming : BOOLEAN,
                space : BOOLEAN, recovering : WzTopics \union {NoTopic}]
  /\ Len(wizards) <= MaxCards /\ typings \in Seq(WzTopics) /\ branches \subseteq Branches
  /\ attached \in [WzTopics -> {"free", "live", "dead"}]

(* A launch serves the topic of the keyboard that was tapped, in the directory
   and the workspace that keyboard showed, whatever the other topics of the
   user did to the shared user_data in between (topic_creation_draft.py). *)
LaunchedAsShown ==
  /\ served.topic = served.card.topic
  /\ served.path = served.card.path /\ served.space = served.card.space

(* "Will deliver once the agent starts": a text is typed into a window of the
   topic it was sent to, never of another (text_handler.py,
   window_launch_service.py, recovery_banner.py). *)
TextKeptInTopic == served.text # 0 => typings[served.text] = served.topic

(* The flag that stops a second tap on "Use this" belongs to the flow that
   created a worktree: a confirm screen that answers taps finds it clear
   (directory_callbacks.py, provider_mode_callbacks.py). *)
ConfirmAnswers ==
  \A i \in DOMAIN wizards :
     (wizards[i].screen = "confirm" /\ draft.topic = wizards[i].topic
        /\ \A j \in (i + 1)..Len(wizards) : wizards[j].topic # wizards[i].topic)
     => ~draft.creating

(* The flows of two topics share one user_data and do not disturb each other:
   the parts above, with the types (user_state.py, text_handler.py). *)
WizardInv == WizardTypeOK /\ TextKeptInTopic /\ ConfirmAnswers
=============================================================================
