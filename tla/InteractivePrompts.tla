-------------------------- MODULE InteractivePrompts --------------------------
(***************************************************************************)
(* How a prompt that the agent draws in its terminal reaches the topic as  *)
(* one message with a keyboard, and how a tap on that keyboard is typed    *)
(* into the terminal (interactive_ui.py, interactive_callbacks.py, and     *)
(* their callers in hook_events.py, message_routing.py, text_handler.py    *)
(* and apply.py), for one topic bound to one window.                       *)
(*                                                                         *)
(* Three tasks render the same prompt: the polling loop, the monitor (hook *)
(* notifications and transcript messages, one at a time) and the update    *)
(* handler.  Each suspends in the capture and in the call to Telegram,     *)
(* and they share the dictionaries keyed by the topic.                     *)
(*                                                                         *)
(* IpHazards lets happen what the code does not exclude:                   *)
(*   "unseen"    a prompt follows the last one before any task looked      *)
(*   "overlap"   the monitor or a clearing acts while another task renders *)
(*   "slowSend"  a message is still being sent when its cooldown ends      *)
(*   "editLost"  an edit of the prompt message fails                       *)
(***************************************************************************)
EXTENDS Naturals, Sequences, FiniteSets

CONSTANTS IpTexts, PlainTexts, MaxAsks, MaxTaps, MaxNotices, MaxIpFaults, IpHazards, NoText

ASSUME PromptAssumption ==
  /\ NoText \notin IpTexts /\ PlainTexts \subseteq IpTexts
  /\ MaxAsks \in Nat /\ MaxTaps \in Nat /\ MaxNotices \in Nat /\ MaxIpFaults \in Nat
  /\ IpHazards \subseteq {"unseen", "overlap", "slowSend", "editLost"}

Renderers == {"poll", "monitor", "handler"}
Resting == [at |-> "idle", why |-> "none", saw |-> NoText, seq |-> 0, msg |-> 0]
NoEntry == [msg |-> 0, context |-> 0, seq |-> 0, content |-> NoText]

VARIABLES
  screen,    \* the prompt in the terminal
  mode,      \* _interactive_mode holds the window
  entry,     \* the topic's other entries: message, context, sequence, content
  cooling,   \* _send_cooldowns holds a time less than 5 s ago
  chat,      \* prompt messages: what each shows, the sequence of its buttons
  busy,     \* what each renderer is doing
  taps,      \* callbacks Telegram has not delivered yet
  typed,     \* <<the prompt a button was drawn for, the prompt it answered>>
  asked, tapped, notices, ipFaults   \* counters of the bounds
ipTerminal == <<screen, typed, asked>>
ipBounds == <<tapped, notices, ipFaults>>
ipVars == <<ipTerminal, mode, entry, cooling, chat, busy, taps, ipBounds>>

Prompted == screen # NoText
AllRest == \A r \in Renderers : busy[r] = Resting
\* A renderer that may clear the mode when it is done runs alone
Alone == AllRest \/ "overlap" \in IpHazards
Free(r) ==
  /\ busy[r] = Resting
  /\ \/ "overlap" \in IpHazards
     \/ \A o \in Renderers : busy[o].why \notin {"only", "hook", "tool"}
Start(r, at, why) == busy' = [busy EXCEPT ![r] = [Resting EXCEPT !.at = at, !.why = why]]
Deleting(m) == IF m = 0 THEN Resting
               ELSE [Resting EXCEPT !.at = "delete", !.msg = m]
Fault == ipFaults < MaxIpFaults /\ ipFaults' = ipFaults + 1

(* clear_interactive_msg: forget the topic, then delete what it showed *)
ClearMessage(r, e) ==
  /\ mode' = FALSE /\ entry' = NoEntry /\ cooling' = FALSE
  /\ busy' = [busy EXCEPT ![r] = Deleting(e.msg)]

UnhandledKeepsMode(r, e) ==
  /\ busy' = [busy EXCEPT ![r] = Resting] /\ UNCHANGED <<cooling, mode>> /\ entry' = e
(* What a caller does when nothing was rendered, e being the entry by then. *)
(* The message stays tracked when only the mode is cleared.                 *)
Unhandled(r, e) ==
  LET why == busy[r].why IN
  IF why = "tool" /\ e.msg # 0 THEN ClearMessage(r, e)
  ELSE /\ busy' = [busy EXCEPT ![r] = Resting] /\ UNCHANGED cooling
       /\ IF why \in {"hook", "only", "tool"}
          THEN mode' = FALSE /\ entry' = [NoEntry EXCEPT !.msg = e.msg]
          ELSE UNCHANGED mode /\ entry' = e

----------------------------------------------------------------------------
(* The agent and its terminal *)

\* The next prompt comes once no keyboard of the last one can be accepted
Noticed ==
  /\ ~mode \/ busy["handler"] = [Resting EXCEPT !.at = "capture", !.why = "key"]
  /\ \A r \in Renderers : busy[r].at \notin {"edit", "send", "choice"}
Ask(t) ==
  /\ ~Prompted /\ asked < MaxAsks /\ (Noticed \/ "unseen" \in IpHazards)
  /\ asked' = asked + 1 /\ screen' = t
  /\ UNCHANGED <<typed, mode, entry, cooling, chat, busy, taps, ipBounds>>

AnswerAtTerminal ==
  /\ Prompted /\ screen' = NoText
  /\ UNCHANGED <<typed, asked, mode, entry, cooling, chat, busy, taps, ipBounds>>

----------------------------------------------------------------------------
(* What starts a rendering *)

PollTick ==
  /\ Free("poll")
  /\ \/ /\ mode /\ ~Prompted /\ Alone /\ ClearMessage("poll", entry)
     \/ /\ ~mode /\ Prompted /\ Start("poll", "capture", "poll")
        /\ UNCHANGED <<mode, entry, cooling>>
  /\ UNCHANGED <<ipTerminal, chat, taps, ipBounds>>

\* A tick of a topic whose queue is not empty looks for prompts only
CheckInteractiveOnly ==
  /\ Free("poll") /\ Alone /\ ~mode /\ Prompted
  /\ mode' = TRUE /\ Start("poll", "capture", "only")
  /\ UNCHANGED <<ipTerminal, entry, cooling, chat, taps, ipBounds>>

HandleNotification ==
  /\ Free("monitor") /\ Alone /\ ~mode /\ notices < MaxNotices /\ notices' = notices + 1
  /\ mode' = TRUE /\ Start("monitor", "capture", "hook")
  /\ UNCHANGED <<ipTerminal, entry, cooling, chat, taps, tapped, ipFaults>>

HandleNewMessage ==
  /\ Free("monitor") /\ Alone /\ notices < MaxNotices /\ notices' = notices + 1
  /\ \/ /\ mode' = TRUE /\ Start("monitor", "capture", "tool")
        /\ UNCHANGED <<entry, cooling>>
     \/ entry.msg # 0 /\ ClearMessage("monitor", entry)
  /\ UNCHANGED <<ipTerminal, chat, taps, tapped, ipFaults>>

----------------------------------------------------------------------------
(* handle_interactive_ui *)

NextSequenceKept ==
  [entry EXCEPT !.content = screen, !.seq = IF @ = 0 THEN 1 ELSE @]
NextSequence ==
  IF entry.content # screen
  THEN [entry EXCEPT !.content = screen, !.seq = @ + 1]
  ELSE entry

Capture(r) ==
  /\ busy[r].at = "capture"
  /\ IF ~Prompted THEN Unhandled(r, entry)
     ELSE LET e == NextSequence
              next(at) == [busy[r] EXCEPT !.at = at, !.saw = screen,
                                           !.seq = e.seq, !.msg = e.msg] IN
          IF e.msg = 0 /\ cooling THEN Unhandled(r, e)
          ELSE /\ entry' = e /\ UNCHANGED mode
               /\ IF e.msg # 0
                  THEN busy' = [busy EXCEPT ![r] = next("edit")] /\ UNCHANGED cooling
                  ELSE busy' = [busy EXCEPT ![r] = next("send")] /\ cooling' = TRUE
  /\ UNCHANGED <<ipTerminal, chat, taps, ipBounds>>

Drawn(j) == [text |-> j.saw, seq |-> j.seq, there |-> TRUE]

EditInteractiveMsg(r) ==
  LET j == busy[r] IN
  /\ j.at = "edit"
  /\ \/ /\ chat[j.msg].there
        /\ chat' = [chat EXCEPT ![j.msg] = Drawn(j)]
        /\ mode' = (mode \/ <<chat[j.msg].text, chat[j.msg].seq>> # <<j.saw, j.seq>>)
        /\ entry' = [entry EXCEPT !.context = j.msg]
        /\ busy' = [busy EXCEPT ![r] = Resting]
        /\ UNCHANGED <<cooling, ipFaults>>
     \/ ~chat[j.msg].there /\ Unhandled(r, entry) /\ UNCHANGED <<chat, ipFaults>>
     \/ "editLost" \in IpHazards /\ Fault /\ Unhandled(r, entry) /\ UNCHANGED chat
  /\ UNCHANGED <<ipTerminal, taps, tapped, notices>>

SendInteractive(r) ==
  LET j == busy[r] new == Len(chat) + 1 IN
  /\ j.at = "send"
  /\ \/ /\ chat' = Append(chat, Drawn(j)) /\ mode' = TRUE /\ cooling' = FALSE
        /\ entry' = [entry EXCEPT !.msg = new, !.context = new]
        /\ busy' = [busy EXCEPT ![r] = Resting] /\ UNCHANGED ipFaults
     \/ Fault /\ Unhandled(r, entry) /\ UNCHANGED chat
  /\ UNCHANGED <<ipTerminal, taps, tapped, notices>>

CooldownEnds ==
  /\ cooling /\ cooling' = FALSE
  /\ "slowSend" \in IpHazards \/ \A r \in Renderers : busy[r].at # "send"
  /\ UNCHANGED <<ipTerminal, mode, entry, chat, busy, taps, ipBounds>>

DeleteMessage(r) ==
  /\ busy[r].at = "delete"
  /\ chat' = [chat EXCEPT ![busy[r].msg].there = FALSE]
  /\ busy' = [busy EXCEPT ![r] = Resting]
  /\ UNCHANGED <<ipTerminal, mode, entry, cooling, taps, ipBounds>>

----------------------------------------------------------------------------
(* Taps.  A callback carries what its button was drawn with, and Telegram  *)
(* may deliver it after the message has changed.                           *)

\* Only a prompt read as one single-select menu gets direct choices
DirectChoices(t) == IF t \in PlainTexts THEN {} ELSE {"choice"}

Tap(m, key) ==
  /\ tapped < MaxTaps /\ tapped' = tapped + 1 /\ chat[m].there
  /\ key \in {"key", "esc"} \cup DirectChoices(chat[m].text)
  /\ taps' = Append(taps, [msg |-> m, text |-> chat[m].text, seq |-> chat[m].seq, key |-> key])
  /\ UNCHANGED <<ipTerminal, mode, entry, cooling, chat, busy, notices, ipFaults>>

IsCurrentPrompt(t) ==
  mode /\ entry.msg = t.msg /\ entry.context = t.msg /\ entry.seq = t.seq

\* The button's token has expired, was evicted, or the window has changed hands
TokenGone ==
  /\ taps # <<>> /\ Free("handler") /\ taps' = Tail(taps)
  /\ UNCHANGED <<ipTerminal, mode, entry, cooling, chat, busy, ipBounds>>

HandleTap ==
  /\ taps # <<>> /\ Free("handler") /\ taps' = Tail(taps)
  /\ LET t == Head(taps) IN
     \/ /\ t.key = "choice"
        /\ busy' = [busy EXCEPT !["handler"] =
             IF IsCurrentPrompt(t)
             THEN [Resting EXCEPT !.at = "choice", !.why = "choice",
                                  !.saw = t.text]
             ELSE Resting]
        /\ UNCHANGED <<screen, mode, entry, cooling>>
     \/ /\ t.key = "key" /\ Start("handler", "capture", "key")
        /\ screen' \in {screen, NoText}
        /\ UNCHANGED <<mode, entry, cooling>>
     \/ /\ t.key = "esc" /\ Alone /\ ClearMessage("handler", entry)
        /\ screen' = NoText
  /\ UNCHANGED <<typed, asked, chat, ipBounds>>

\* The choice reaches whatever prompt the terminal shows by now
HandleDirectChoice ==
  /\ busy["handler"].at = "choice"
  /\ busy' = [busy EXCEPT !["handler"] = Resting]
  /\ \/ /\ typed' = typed \cup {<<busy["handler"].saw, screen>>}
        /\ screen' = NoText
        /\ entry' = [entry EXCEPT !.seq = IF @ = 0 THEN 0 ELSE @ + 1]
        /\ UNCHANGED ipFaults
     \/ Fault /\ UNCHANGED <<typed, screen, entry>>
  /\ UNCHANGED <<asked, mode, cooling, chat, taps, tapped, notices>>

----------------------------------------------------------------------------
PromptInit ==
  /\ screen = NoText /\ mode = FALSE /\ entry = NoEntry /\ cooling = FALSE
  /\ chat = <<>> /\ busy = [r \in Renderers |-> Resting] /\ taps = <<>>
  /\ typed = {}
  /\ asked = 0 /\ tapped = 0 /\ notices = 0 /\ ipFaults = 0

PromptNext ==
  \/ \E t \in IpTexts : Ask(t)
  \/ AnswerAtTerminal \/ PollTick \/ CheckInteractiveOnly
  \/ HandleNotification \/ HandleNewMessage \/ CooldownEnds
  \/ \E r \in Renderers : \/ Capture(r) \/ EditInteractiveMsg(r)
                          \/ SendInteractive(r) \/ DeleteMessage(r)
  \/ \E m \in DOMAIN chat, k \in {"choice", "key", "esc"} : Tap(m, k)
  \/ TokenGone \/ HandleTap \/ HandleDirectChoice

PromptSpec == PromptInit /\ [][PromptNext]_ipVars

----------------------------------------------------------------------------
PromptTypeOK ==
  /\ screen \in IpTexts \cup {NoText}
  /\ mode \in BOOLEAN /\ cooling \in BOOLEAN
  /\ entry.msg \in 0..Len(chat) /\ entry.context \in 0..Len(chat)
  /\ entry.content \in IpTexts \cup {NoText} /\ entry.seq \in Nat
  /\ \A r \in Renderers : busy[r].at \in {"idle", "capture", "edit", "send", "delete", "choice"}

(* A direct choice never answers another prompt than the one its button     *)
(* was drawn for (_handle_direct_choice; interactive_ui.py:78-86).          *)
ChoiceAnswersItsPrompt == \A c \in typed : c[2] \in {NoText, c[1]}

(* When nothing is rendering, the only prompt message left in the topic is  *)
(* the tracked one: no keyboard is orphaned by two tasks that both send.    *)
OneKeyboard == AllRest => \A m \in DOMAIN chat : chat[m].there => m = entry.msg

(* In interactive mode the polling loop leaves the topic alone, so the      *)
(* tracked message shows the prompt that is in the terminal (_update_status,*)
(* apply.py:587-594; a prompt nobody rendered would never reach the topic). *)
PromptShown ==
  AllRest /\ Prompted /\ mode
    => entry.msg # 0 /\ chat[entry.msg].there /\ chat[entry.msg].text = screen

(* A keyboard answers the prompt it was drawn for, and there is one at most *)
(* (interactive_ui.py, interactive_callbacks.py); with the types.           *)
PromptInv == PromptTypeOK /\ ChoiceAnswersItsPrompt /\ OneKeyboard
=============================================================================
