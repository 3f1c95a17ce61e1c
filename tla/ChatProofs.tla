----------------------------- MODULE ChatProofs -----------------------------
(***************************************************************************)
(* What holds of the four parts of a topic that the user meets, for every  *)
(* number of messages, keyboards, taps and commands, when none of the      *)
(* hazards of the part happens.                                            *)
(*                                                                         *)
(* InteractivePrompts: whoever holds the mode has a message, whoever       *)
(* renders a prompt has the terminal to itself, and a message's sequence   *)
(* only goes up, so that an old button is never taken for one of the       *)
(* prompt now shown.                                                       *)
(* TerminalInput: one send owns the prompt line from the first half of the *)
(* text to Enter, so that the agent takes a message whole or not at all,   *)
(* and every line the agent took is injected until its echo is read.       *)
(* TopicWizard: the last keyboard of the pending topic shows what          *)
(* user_data holds, step by step of the flow; a button of any other        *)
(* keyboard finds a flow that is not its own.                              *)
(* ShellTopics: the monitor of the relay is about the command on the       *)
(* screen or an older one, and whatever a message says of a command is     *)
(* the screen's own text of it.                                            *)
(***************************************************************************)
EXTENDS InteractivePrompts, TerminalInput, TopicWizard, ShellTopics,
        FiniteSetTheorems, SequenceTheorems, WellFoundedInduction, TLAPS

----------------------------------------------------------------------------
(* The prompts and their keyboards.                                        *)

Texts == IpTexts \cup {NoText}
Jobs == [at : {"idle", "capture", "edit", "send", "delete", "choice"},
         why : {"none", "poll", "only", "hook", "tool", "key", "choice"},
         saw : Texts, seq : Nat, msg : Nat]
Drawings == [text : Texts, seq : Nat, there : BOOLEAN]
Buttons == [msg : Nat \ {0}, text : Texts, seq : Nat, key : {"key", "esc", "choice"}]

(* The types, with those of what a renderer does and what a button carries *)
PromptTypes ==
  /\ screen \in Texts /\ mode \in BOOLEAN /\ cooling \in BOOLEAN
  /\ entry \in [msg : Nat, context : Nat, seq : Nat, content : Texts]
  /\ chat \in Seq(Drawings) /\ busy \in [Renderers -> Jobs] /\ taps \in Seq(Buttons)
  /\ ipFaults \in Nat

(* A renderer takes up another job *)
LEMMA JobTaken ==
  ASSUME busy \in [Renderers -> Jobs], NEW r \in Renderers, NEW j \in Jobs,
         busy' = [busy EXCEPT ![r] = j]
  PROVE  /\ busy' \in [Renderers -> Jobs] /\ busy'[r] = j
         /\ \A o \in Renderers : o # r => busy'[o] = busy[o]
  OBVIOUS

LEMMA RestIsAJob == Resting \in Jobs
  BY DEF Resting, Jobs, Texts

LEMMA StartTyped ==
  ASSUME busy \in [Renderers -> Jobs], NEW r \in Renderers,
         NEW why \in {"none", "poll", "only", "hook", "tool", "key", "choice"},
         Start(r, "capture", why)
  PROVE  /\ busy' \in [Renderers -> Jobs]
         /\ busy'[r].at = "capture" /\ busy'[r].why = why
         /\ \A o \in Renderers : o # r => busy'[o] = busy[o]
<1> DEFINE j == [Resting EXCEPT !.at = "capture", !.why = why]
<1>1. j \in Jobs /\ j.at = "capture" /\ j.why = why
  BY DEF Resting, Jobs, Texts
<1> HIDE DEF j
<1>2. busy' = [busy EXCEPT ![r] = j]
  BY DEF Start, j
<1> QED
  BY <1>1, <1>2, JobTaken

(* To clear a message is to forget it and to go on to delete it *)
LEMMA Cleared ==
  ASSUME PromptTypes, NEW r \in Renderers, ClearMessage(r, entry)
  PROVE  /\ ~mode' /\ mode' \in BOOLEAN /\ ~cooling' /\ cooling' \in BOOLEAN
         /\ entry' = NoEntry
         /\ busy' \in [Renderers -> Jobs]
         /\ busy'[r] = Deleting(entry.msg)
         /\ \A o \in Renderers : o # r => busy'[o] = busy[o]
<1>1. Deleting(entry.msg) \in Jobs
  BY DEF PromptTypes, Deleting, Resting, Jobs, Texts
<1> QED
  BY <1>1, JobTaken DEF ClearMessage, PromptTypes

----------------------------------------------------------------------------
(* A renderer that clears the mode when it fails runs alone *)
Solo(r) == busy[r].why \in {"only", "hook", "tool"}
SoloIsAlone == \A r, o \in Renderers : Solo(r) /\ o # r => busy[o] = Resting

(* Outside such a rendering, the mode is held exactly while a message is   *)
(* tracked; the two that only look for prompts start without one           *)
ModeFollowsMessage ==
  /\ entry.msg # 0 => mode
  /\ mode => entry.msg # 0 \/ \E r \in Renderers : Solo(r)
  /\ \A r \in Renderers : Solo(r) => mode /\ busy[r].at \in {"capture", "edit", "send"}
  /\ \A r \in Renderers : busy[r].why \in {"only", "hook"} => entry.msg = 0

(* One sender: the others find its cooldown (_send_cooldowns) *)
SoleSender ==
  \A r \in Renderers : busy[r].at = "send" =>
    /\ entry.msg = 0 /\ cooling
    /\ \A o \in Renderers : busy[o].at = "send" => o = r

(* What is being rendered is the newest prompt, still shown or gone *)
Rendering ==
  \A r \in Renderers :
    /\ busy[r].at = "edit" => busy[r].msg = entry.msg /\ entry.msg # 0
    /\ busy[r].at \in {"edit", "send"} =>
         /\ entry.content = busy[r].saw /\ screen \in {NoText, busy[r].saw}
         /\ busy[r].seq <= entry.seq

(* No button of the tracked message is ahead of the topic's sequence, and  *)
(* one that is level with it was drawn for the topic's content             *)
Behind(seq, text) == seq <= entry.seq /\ (seq = entry.seq => text = entry.content)
ButtonsFollow ==
  /\ entry.msg <= Len(chat)
  /\ entry.msg # 0 => Behind(chat[entry.msg].seq, chat[entry.msg].text)
  /\ \A i \in 1..Len(taps) :
       /\ taps[i].msg <= Len(chat)
       /\ taps[i].msg = entry.msg => Behind(taps[i].seq, taps[i].text)

(* A prompt that follows a tracked one is met by the tap that made it come *)
ScreenIsRendered ==
  entry.msg # 0 /\ <<busy["handler"].at, busy["handler"].why>> # <<"capture", "key">>
    => screen \in {NoText, entry.content}
ChoiceIsFresh ==
  busy["handler"].at = "choice" => screen \in {NoText, busy["handler"].saw}

(* The tracked message is there and shows the content, or soon will; any   *)
(* other message is being deleted                                          *)
TrackedShows ==
  entry.msg # 0 =>
    /\ chat[entry.msg].there
    /\ \/ chat[entry.msg].text = entry.content
       \/ \E r \in Renderers : busy[r].at = "edit"
OthersGo ==
  /\ \A m \in 1..Len(chat) : chat[m].there /\ m # entry.msg =>
       \E r \in Renderers : busy[r].at = "delete" /\ busy[r].msg = m
  /\ \A r \in Renderers : busy[r].at = "delete" =>
       busy[r].msg \in 1..Len(chat) /\ busy[r].msg # entry.msg

PromptsInOrder ==
  /\ PromptTypes /\ SoloIsAlone /\ ModeFollowsMessage /\ SoleSender /\ Rendering
  /\ ButtonsFollow /\ ScreenIsRendered /\ ChoiceIsFresh /\ TrackedShows /\ OthersGo
  /\ ChoiceAnswersItsPrompt

LEMMA PromptsBegin == PromptInit => PromptsInOrder
<1> SUFFICES ASSUME PromptInit PROVE PromptsInOrder
  OBVIOUS
<1>1. /\ entry.msg = 0 /\ entry.context = 0 /\ entry.seq = 0 /\ entry.content = NoText
      /\ entry \in [msg : Nat, context : Nat, seq : Nat, content : Texts]
  BY DEF PromptInit, NoEntry, Texts
<1>2. \A r \in Renderers : busy[r] = Resting /\ busy[r].at = "idle" /\ busy[r].why = "none"
  BY DEF PromptInit, Resting
<1>3. PromptTypes
  <2>1. busy \in [Renderers -> Jobs]
    BY RestIsAJob DEF PromptInit
  <2>2. chat \in Seq(Drawings) /\ taps \in Seq(Buttons)
    BY DEF PromptInit
  <2> QED
    BY <1>1, <2>1, <2>2 DEF PromptInit, PromptTypes, Texts
<1>4. "handler" \in Renderers
  BY DEF Renderers
<1> QED
  BY <1>1, <1>2, <1>3, <1>4 DEF PromptInit, PromptsInOrder, SoloIsAlone, Solo,
     ModeFollowsMessage, SoleSender, Rendering, ButtonsFollow, Behind, ScreenIsRendered,
     ChoiceIsFresh, TrackedShows, OthersGo, ChoiceAnswersItsPrompt

(* A step that neither renders nor clears: what the terminal, Telegram and *)
(* the clock do                                                            *)
LEMMA AskKeeps ==
  ASSUME IpHazards = {}, PromptsInOrder, NEW t \in IpTexts, Ask(t)
  PROVE  PromptsInOrder'
<1> USE DEF PromptsInOrder
<1>1. PromptTypes'
  BY DEF Ask, PromptTypes, ipBounds, Texts
<1>2. /\ busy' = busy /\ entry' = entry /\ mode' = mode /\ cooling' = cooling
      /\ chat' = chat /\ taps' = taps /\ typed' = typed
      /\ entry.msg # 0 => busy["handler"].at = "capture" /\ busy["handler"].why = "key"
      /\ \A r \in Renderers : busy[r].at \notin {"edit", "send", "choice"}
  BY DEF Ask, Noticed, ModeFollowsMessage, ipBounds, Resting
<1> QED
  BY <1>1, <1>2 DEF Renderers, SoloIsAlone, Solo, ModeFollowsMessage,
     SoleSender, Rendering, ButtonsFollow, Behind, ScreenIsRendered,
     ChoiceIsFresh, TrackedShows, OthersGo, ChoiceAnswersItsPrompt
LEMMA AnswerKeeps ==
  ASSUME PromptsInOrder, AnswerAtTerminal
  PROVE  PromptsInOrder'
<1>1. PromptTypes'
  BY DEF AnswerAtTerminal, PromptsInOrder, PromptTypes, ipBounds, Texts
<1> QED
  BY <1>1 DEF PromptsInOrder, AnswerAtTerminal, ipBounds, SoloIsAlone, Solo,
     ModeFollowsMessage, SoleSender, Rendering, ButtonsFollow, Behind,
     ScreenIsRendered, ChoiceIsFresh, TrackedShows, OthersGo,
     ChoiceAnswersItsPrompt
LEMMA CooldownKeeps ==
  ASSUME IpHazards = {}, PromptsInOrder, CooldownEnds
  PROVE  PromptsInOrder'
<1>1. PromptTypes'
  BY DEF CooldownEnds, PromptsInOrder, PromptTypes, ipBounds, ipTerminal
<1> QED
  BY <1>1 DEF PromptsInOrder, CooldownEnds, ipTerminal, ipBounds, SoloIsAlone,
     Solo, ModeFollowsMessage, SoleSender, Rendering, ButtonsFollow, Behind,
     ScreenIsRendered, ChoiceIsFresh, TrackedShows, OthersGo,
     ChoiceAnswersItsPrompt
LEMMA TapKeeps ==
  ASSUME PromptsInOrder, NEW m \in DOMAIN chat, NEW k \in {"choice", "key",
       "esc"}, Tap(m, k)
  PROVE  PromptsInOrder'
<1> DEFINE b == [msg |-> m, text |-> chat[m].text, seq |-> chat[m].seq, key |->
     k]
<1> USE DEF PromptsInOrder
<1>1. m \in 1..Len(chat) /\ chat[m] \in Drawings /\ b \in Buttons
  <2>1. m \in 1..Len(chat) /\ chat[m] \in Drawings
    BY DEF PromptTypes
  <2> QED
    BY <2>1 DEF Drawings, Buttons
<1>2. PromptTypes'
  <2>1. taps' \in Seq(Buttons)
    BY <1>1 DEF Tap, PromptTypes
  <2> QED
    BY <2>1 DEF Tap, PromptTypes, ipTerminal
<1>3. /\ taps' = Append(taps, b) /\ taps \in Seq(Buttons)
      /\ UNCHANGED <<screen, mode, entry, cooling, chat, busy, typed>>
  BY DEF Tap, ipTerminal, PromptTypes
<1>4. \A i \in 1..Len(taps') :
        \/ i \in 1..Len(taps) /\ taps'[i] = taps[i]
        \/ taps'[i].msg = m /\ taps'[i].text = chat[m].text /\ taps'[i].seq =
             chat[m].seq
  BY <1>1, <1>3
<1>5. ButtonsFollow'
  BY <1>1, <1>3, <1>4 DEF ButtonsFollow, Behind
<1> QED
  BY <1>2, <1>3, <1>5 DEF SoloIsAlone, Solo, ModeFollowsMessage, SoleSender,
     Rendering, ButtonsFollow, Behind, ScreenIsRendered, ChoiceIsFresh,
     TrackedShows, OthersGo, ChoiceAnswersItsPrompt
LEMMA TokenKeeps ==
  ASSUME PromptsInOrder, TokenGone
  PROVE  PromptsInOrder'
<1> USE DEF PromptsInOrder
<1>1. /\ taps' = Tail(taps) /\ taps # <<>> /\ taps \in Seq(Buttons)
      /\ UNCHANGED <<screen, mode, entry, cooling, chat, busy, typed,
           ipFaults>>
  BY DEF TokenGone, ipTerminal, PromptTypes, ipBounds
<1>2. taps' \in Seq(Buttons) /\ \A i \in 1..Len(taps') : i + 1 \in 1..Len(taps)
     /\ taps'[i] = taps[i + 1]
  BY <1>1
<1>3. ButtonsFollow'
  BY <1>1, <1>2 DEF ButtonsFollow, Behind
<1>4. PromptTypes'
  BY <1>1, <1>2 DEF PromptTypes
<1> QED
  BY <1>1, <1>3, <1>4 DEF SoloIsAlone, Solo, ModeFollowsMessage, SoleSender,
     Rendering, ButtonsFollow, Behind, ScreenIsRendered, ChoiceIsFresh,
     TrackedShows, OthersGo, ChoiceAnswersItsPrompt

----------------------------------------------------------------------------
(* The taps that are left are some of those there were *)
TapsLeft == taps' = taps \/ (taps # <<>> /\ taps' = Tail(taps))
LEMMA FewerTaps ==
  ASSUME taps \in Seq(Buttons), TapsLeft
  PROVE  /\ taps' \in Seq(Buttons)
         /\ \A i \in 1..Len(taps') : \E j \in 1..Len(taps) : taps'[i] = taps[j]
<1>1. CASE taps' = taps
  BY <1>1
<1>2. CASE taps # <<>> /\ taps' = Tail(taps)
  <2>1. \A i \in 1..Len(taps') : i + 1 \in 1..Len(taps) /\ taps'[i] = taps[i + 1]
    BY <1>2
  <2> QED
    BY <1>2, <2>1
<1> QED
  BY <1>1, <1>2 DEF TapsLeft

LEMMA ButtonMessages ==
  ASSUME PromptTypes
  PROVE  \A i \in 1..Len(taps) : taps[i].msg # 0
<1>1. \A i \in 1..Len(taps) : taps[i] \in Buttons
  BY DEF PromptTypes
<1> QED
  BY <1>1 DEF Buttons

(* A renderer begins to look at the terminal; one that may clear the mode  *)
(* takes it and finds nobody else at work                                  *)
LEMMA StartKeeps ==
  ASSUME PromptsInOrder, NEW r \in Renderers,
         NEW why \in {"poll", "only", "hook", "tool", "key"},
         busy[r] = Resting, Start(r, "capture", why),
         \A o \in Renderers : ~Solo(o), why = "key" => r = "handler",
         mode' = (mode \/ why \in {"only", "hook", "tool"}),
         why \in {"only", "hook", "tool"} => AllRest,
         why \in {"only", "hook"} => ~mode,
         why = "poll" => ~mode \/ r # "handler",
         screen' \in {screen, NoText}, TapsLeft, UNCHANGED <<entry, cooling, chat, typed>>,
         ipFaults' \in Nat
  PROVE  PromptsInOrder'
<1> USE DEF PromptsInOrder
<1>1. /\ busy' \in [Renderers -> Jobs]
      /\ \A o \in Renderers : o # r => busy'[o] = busy[o]
      /\ busy'[r].at = "capture" /\ busy'[r].why = why
  <2>1. busy \in [Renderers -> Jobs]
    BY DEF PromptTypes
  <2> QED
    BY <2>1, StartTyped
<1>2. busy[r].at = "idle" /\ busy[r].why = "none"
  BY DEF Resting
<1>3. /\ taps' \in Seq(Buttons)
      /\ \A i \in 1..Len(taps') : \E j \in 1..Len(taps) : taps'[i] = taps[j]
  BY FewerTaps DEF PromptTypes
<1>4. PromptTypes'
  BY <1>1, <1>3 DEF PromptTypes, Texts
<1>5. SoloIsAlone' /\ ModeFollowsMessage'
  BY <1>1, <1>2 DEF SoloIsAlone, Solo, ModeFollowsMessage, AllRest
<1>6. SoleSender' /\ Rendering' /\ ChoiceIsFresh' /\ OthersGo'
  BY <1>1, <1>2 DEF SoleSender, Rendering, ChoiceIsFresh, OthersGo, Renderers
<1>7. ButtonsFollow'
  BY <1>3 DEF ButtonsFollow, Behind
<1>8. TrackedShows'
  BY <1>1, <1>2 DEF TrackedShows
<1>9. ScreenIsRendered'
  BY <1>1, <1>2 DEF ScreenIsRendered, Renderers
<1> QED
  BY <1>4, <1>5, <1>6, <1>7, <1>8, <1>9 DEF ChoiceAnswersItsPrompt

(* A renderer that alone is at work clears the topic *)
LEMMA ClearKeeps ==
  ASSUME PromptsInOrder, NEW r \in Renderers, busy[r].at # "delete",
         \A o \in Renderers : o # r => busy[o] = Resting,
         ClearMessage(r, entry), screen' \in {screen, NoText}, TapsLeft,
         UNCHANGED <<chat, typed>>, ipFaults' \in Nat
  PROVE  PromptsInOrder'
<1> USE DEF PromptsInOrder
<1>1. /\ busy' \in [Renderers -> Jobs] /\ ~mode' /\ mode' \in BOOLEAN /\ cooling' \in BOOLEAN
      /\ \A o \in Renderers : o # r => busy'[o] = busy[o]
      /\ busy'[r] = Deleting(entry.msg) /\ entry' = NoEntry
  BY Cleared
<1>2. /\ \A o \in Renderers : o # r => busy'[o].at = "idle" /\ busy'[o].why = "none"
      /\ busy'[r].why = "none"
      /\ entry.msg = 0 => busy'[r].at = "idle"
      /\ entry.msg # 0 => busy'[r].at = "delete" /\ busy'[r].msg = entry.msg
  BY <1>1 DEF Resting, Deleting
<1>3. /\ entry'.msg = 0 /\ entry'.seq = 0
      /\ entry' \in [msg : Nat, context : Nat, seq : Nat, content : Texts]
  BY <1>1 DEF NoEntry, Texts
<1>4. /\ taps' \in Seq(Buttons)
      /\ \A i \in 1..Len(taps') : \E j \in 1..Len(taps) : taps'[i] = taps[j]
  BY FewerTaps DEF PromptTypes
<1>5. PromptTypes'
  BY <1>1, <1>3, <1>4 DEF PromptTypes, Texts
<1>6. SoloIsAlone' /\ ModeFollowsMessage' /\ SoleSender' /\ Rendering' /\ ChoiceIsFresh'
  BY <1>1, <1>2, <1>3 DEF SoloIsAlone, Solo, ModeFollowsMessage, SoleSender, Rendering,
     ChoiceIsFresh, Renderers
<1>7. ButtonsFollow'
  <2>1. \A i \in 1..Len(taps') : taps'[i].msg # 0 /\ taps'[i].msg <= Len(chat')
    BY <1>4, ButtonMessages DEF ButtonsFollow
  <2> QED
    BY <1>3, <2>1 DEF ButtonsFollow
<1>8. ScreenIsRendered' /\ TrackedShows'
  BY <1>3 DEF ScreenIsRendered, TrackedShows
<1>9. OthersGo'
  <2>1. \A o \in Renderers : busy[o].at # "delete"
    BY DEF Resting
  <2>2. \A m \in 1..Len(chat) : chat[m].there => m = entry.msg
    BY <2>1 DEF OthersGo
  <2>3. entry.msg # 0 => entry.msg \in 1..Len(chat)
    BY DEF ButtonsFollow, PromptTypes
  <2>4. \A o \in Renderers : busy'[o].at = "delete" => o = r /\ entry.msg # 0
    BY <1>2
  <2> QED
    BY <1>2, <1>3, <2>2, <2>3, <2>4 DEF OthersGo
<1> QED
  BY <1>5, <1>6, <1>7, <1>8, <1>9 DEF ChoiceAnswersItsPrompt

(* A renderer gives up: either it had nothing to show or its call failed. *)
(* e is the entry by then, with the sequence of the prompt it saw.        *)
LEMMA UnhandledKeeps ==
  ASSUME PromptsInOrder, NEW r \in Renderers, busy[r].at \in {"capture", "send"},
         NEW e \in [msg : Nat, context : Nat, seq : Nat, content : Texts],
         e = entry \/ (e.msg = 0 /\ Prompted /\ e.content = screen /\ e.seq >= entry.seq),
         e.msg = entry.msg, busy[r].at = "capture" => ~Prompted \/ entry.msg = 0,
         Unhandled(r, e), UNCHANGED <<screen, chat, taps, typed>>, ipFaults' \in Nat
  PROVE  PromptsInOrder'
<1> USE DEF PromptsInOrder
<1>s. TapsLeft
  BY DEF TapsLeft
<1>0. Resting.at = "idle" /\ Resting.why = "none"
  BY DEF Resting
<1>1. CASE busy[r].why = "tool" /\ e.msg # 0
  <2>1. \A o \in Renderers : o # r => busy[o] = Resting
    BY <1>1 DEF SoloIsAlone, Solo
  <2> QED
    BY <1>1, <1>s, <2>1, ClearKeeps DEF Unhandled
<1>2. ASSUME ~(busy[r].why = "tool" /\ e.msg # 0)
      PROVE  /\ busy' \in [Renderers -> Jobs] /\ busy'[r] = Resting
             /\ \A o \in Renderers : o # r => busy'[o] = busy[o]
             /\ cooling' = cooling
  <2>1. busy' = [busy EXCEPT ![r] = Resting] /\ cooling' = cooling
    BY <1>2 DEF Unhandled
  <2> QED
    BY <2>1, JobTaken, RestIsAJob DEF PromptTypes
<1>3. CASE Solo(r) /\ ~(busy[r].why = "tool" /\ e.msg # 0)
  <2>1. /\ ~mode' /\ mode' \in BOOLEAN
        /\ entry' = [NoEntry EXCEPT !.msg = e.msg]
    BY <1>3 DEF Unhandled, Solo
  <2>2. e.msg = 0
    BY <1>3 DEF Solo, ModeFollowsMessage
  <2>3. /\ entry'.msg = 0 /\ entry'.seq = 0
        /\ entry' \in [msg : Nat, context : Nat, seq : Nat, content : Texts]
    BY <2>1, <2>2 DEF NoEntry, Texts
  <2>4. \A o \in Renderers : busy'[o] = Resting
    BY <1>2, <1>3 DEF SoloIsAlone
  <2>5. PromptTypes'
    BY <1>2, <1>3, <2>1, <2>3 DEF PromptTypes
  <2>6. OthersGo'
    BY <1>0, <1>3, <2>2, <2>3, <2>4 DEF OthersGo, SoloIsAlone
  <2>7. ButtonsFollow'
    <3>1. \A i \in 1..Len(taps) : taps[i].msg # 0
      BY ButtonMessages
    <3> QED
      BY <2>3, <3>1 DEF ButtonsFollow
  <2> QED
    BY <1>0, <2>1, <2>3, <2>4, <2>5, <2>6, <2>7 DEF SoloIsAlone, Solo, ModeFollowsMessage,
       SoleSender, Rendering, ScreenIsRendered, ChoiceIsFresh, TrackedShows,
       ChoiceAnswersItsPrompt, Renderers
<1>4. CASE ~Solo(r)
  <2>1. mode' = mode /\ entry' = e
    BY <1>4 DEF Unhandled, Solo
  <2>2. PromptTypes'
    BY <1>2, <1>4, <2>1 DEF PromptTypes, Solo
  <2>3. SoloIsAlone' /\ ModeFollowsMessage'
    BY <1>0, <1>2, <1>4, <2>1 DEF SoloIsAlone, Solo, ModeFollowsMessage
  <2>4. SoleSender'
    BY <1>0, <1>2, <1>4, <2>1 DEF SoleSender, Solo
  <2>5. Rendering'
    <3>1. CASE e = entry
      BY <1>0, <1>2, <1>4, <2>1, <3>1 DEF Rendering, Solo
    <3>2. CASE e.msg = 0 /\ Prompted /\ e.content = screen /\ e.seq >= entry.seq
      <4>1. \A o \in Renderers : busy'[o].at \in {"edit", "send"} =>
              /\ busy'[o] = busy[o] /\ busy[o].at = "send" /\ busy[o].saw = screen
              /\ busy[o].seq \in Nat /\ busy[o].seq <= entry.seq
        BY <1>0, <1>2, <1>4, <3>2 DEF Rendering, Prompted, PromptTypes, Jobs, Solo
      <4> QED
        BY <2>1, <3>2, <4>1 DEF Rendering, PromptTypes
    <3> QED
      BY <3>1, <3>2
  <2>6. ButtonsFollow'
    <3>1. \A i \in 1..Len(taps) : taps[i].msg # 0
      BY ButtonMessages
    <3> QED
      BY <2>1, <3>1 DEF ButtonsFollow, Behind
  <2>7. ScreenIsRendered' /\ ChoiceIsFresh'
    BY <1>0, <1>2, <1>4, <2>1 DEF ScreenIsRendered, ChoiceIsFresh, Solo, Prompted, Renderers,
       SoleSender
  <2>8. TrackedShows' /\ OthersGo'
    BY <1>0, <1>2, <1>4, <2>1 DEF TrackedShows, OthersGo, Solo
  <2> QED
    BY <2>2, <2>3, <2>4, <2>5, <2>6, <2>7, <2>8 DEF ChoiceAnswersItsPrompt
<1> QED
  BY <1>1, <1>3, <1>4 DEF Solo

----------------------------------------------------------------------------
(* The entry after a look at a prompt *)
LEMMA SequenceTaken ==
  ASSUME PromptTypes, Prompted
  PROVE  /\ NextSequence \in [msg : Nat, context : Nat, seq : Nat, content : Texts]
         /\ NextSequence.msg = entry.msg /\ NextSequence.content = screen
         /\ \/ NextSequence = entry /\ entry.content = screen
            \/ NextSequence.seq = entry.seq + 1 /\ entry.content # screen
<1> DEFINE n == [entry EXCEPT !.content = screen, !.seq = entry.seq + 1]
<1>1. CASE entry.content = screen
  BY <1>1 DEF NextSequence, PromptTypes
<1>2. CASE entry.content # screen
  <2>1. /\ n \in [msg : Nat, context : Nat, seq : Nat, content : Texts]
        /\ n.msg = entry.msg /\ n.content = screen /\ n.seq = entry.seq + 1
    <3>1. /\ entry \in [msg : Nat, context : Nat, seq : Nat, content : Texts]
          /\ screen \in Texts /\ entry.seq + 1 \in Nat
      BY DEF PromptTypes
    <3> QED
      BY <3>1
  <2> QED
    BY <1>2, <2>1 DEF NextSequence
<1> QED
  BY <1>1, <1>2

(* A capture that goes on to edit or to send *)
LEMMA CaptureShows ==
  ASSUME PromptsInOrder, NEW r \in Renderers, busy[r].at = "capture", Prompted,
         NEW at \in {"edit", "send"}, (at = "edit") <=> (entry.msg # 0),
         at = "send" => ~cooling, cooling' = (cooling \/ at = "send"),
         entry' = NextSequence,
         busy' = [busy EXCEPT ![r] =
           [busy[r] EXCEPT !.at = at, !.saw = screen, !.seq = NextSequence.seq,
                           !.msg = NextSequence.msg]],
         UNCHANGED <<ipTerminal, mode, chat, taps, ipBounds>>
  PROVE  PromptsInOrder'
<1> USE DEF PromptsInOrder, ipTerminal, ipBounds
<1> DEFINE j == [busy[r] EXCEPT !.at = at, !.saw = screen, !.seq = NextSequence.seq,
                                !.msg = NextSequence.msg]
<1>1. /\ entry' \in [msg : Nat, context : Nat, seq : Nat, content : Texts]
      /\ entry'.msg = entry.msg /\ entry'.content = screen
      /\ \/ entry.content = screen /\ entry' = entry
         \/ entry'.seq = entry.seq + 1 /\ entry.content # screen
  BY SequenceTaken
<1>2. /\ j \in Jobs /\ j.at = at /\ j.saw = screen /\ j.why = busy[r].why
      /\ j.seq = entry'.seq /\ j.msg = entry'.msg
  BY <1>1 DEF PromptTypes, Jobs
<1> HIDE DEF j
<1>3. /\ busy' \in [Renderers -> Jobs] /\ busy'[r] = j
      /\ \A o \in Renderers : o # r => busy'[o] = busy[o]
  BY <1>2, JobTaken DEF PromptTypes, j
<1>4. PromptTypes'
  <2>1. cooling' \in BOOLEAN
    BY Zenon
  <2>2. UNCHANGED <<screen, mode, chat, taps, ipFaults>>
    OBVIOUS
  <2> QED
    BY <1>1, <1>3, <2>1, <2>2 DEF PromptTypes
<1>5. SoloIsAlone' /\ ModeFollowsMessage'
  <2>1. Resting.at = "idle"
    BY DEF Resting
  <2> QED
    BY <1>1, <1>2, <1>3, <2>1 DEF SoloIsAlone, Solo, ModeFollowsMessage
<1>6. SoleSender'
  BY <1>1, <1>2, <1>3 DEF SoleSender, PromptTypes
<1>7. Rendering'
  <2>1. \A o \in Renderers : o # r /\ busy[o].at \in {"edit", "send"} =>
          entry.content = screen /\ entry' = entry
    BY <1>1 DEF Rendering, Prompted
  <2> QED
    BY <1>1, <1>2, <1>3, <2>1 DEF Rendering, PromptTypes
<1>8. ButtonsFollow'
  <2>1. /\ entry.msg # 0 => chat[entry.msg].seq \in Nat
        /\ \A i \in 1..Len(taps) : taps[i].seq \in Nat
    <3>1. entry.msg # 0 => chat[entry.msg] \in Drawings
      BY DEF PromptTypes, ButtonsFollow
    <3>2. \A i \in 1..Len(taps) : taps[i] \in Buttons
      BY DEF PromptTypes
    <3> QED
      BY <3>1, <3>2 DEF Drawings, Buttons
  <2> QED
    BY <1>1, <2>1 DEF ButtonsFollow, Behind, PromptTypes
<1>9. ScreenIsRendered' /\ ChoiceIsFresh' /\ TrackedShows'
  BY <1>1, <1>2, <1>3 DEF ScreenIsRendered, ChoiceIsFresh, TrackedShows, Renderers
<1>10. OthersGo'
  BY <1>1, <1>2, <1>3 DEF OthersGo
<1> QED
  BY <1>4, <1>5, <1>6, <1>7, <1>8, <1>9, <1>10 DEF ChoiceAnswersItsPrompt

LEMMA CaptureKeeps ==
  ASSUME PromptsInOrder, NEW r \in Renderers, Capture(r)
  PROVE  PromptsInOrder'
<1> USE DEF ipBounds, ipTerminal
<1>1. busy[r].at = "capture" /\ UNCHANGED <<screen, chat, taps, typed>> /\ ipFaults' \in Nat
  BY DEF Capture, PromptsInOrder, PromptTypes
<1>2. entry \in [msg : Nat, context : Nat, seq : Nat, content : Texts]
  BY DEF PromptsInOrder, PromptTypes
<1>3. CASE ~Prompted
  <2>1. Unhandled(r, entry)
    BY <1>3 DEF Capture
  <2> QED
    BY <1>1, <1>2, <1>3, <2>1, UnhandledKeeps
<1>4. CASE Prompted /\ NextSequence.msg = 0 /\ cooling
  <2>1. Unhandled(r, NextSequence)
    BY <1>4 DEF Capture
  <2>2. /\ NextSequence \in [msg : Nat, context : Nat, seq : Nat, content : Texts]
        /\ NextSequence.msg = entry.msg /\ NextSequence.content = screen
        /\ NextSequence.seq >= entry.seq
    BY <1>2, <1>4, SequenceTaken DEF PromptsInOrder
  <2> QED
    BY <1>1, <1>4, <2>1, <2>2, UnhandledKeeps
<1>5. CASE Prompted /\ ~(NextSequence.msg = 0 /\ cooling)
  <2>0. NextSequence.msg = entry.msg /\ cooling \in BOOLEAN
    BY <1>5, SequenceTaken DEF PromptsInOrder, PromptTypes
  <2>1. CASE entry.msg # 0
    <3>1. /\ entry' = NextSequence /\ UNCHANGED <<mode, cooling>>
          /\ busy' = [busy EXCEPT ![r] =
               [busy[r] EXCEPT !.at = "edit", !.saw = screen, !.seq = NextSequence.seq,
                               !.msg = NextSequence.msg]]
      BY <1>5, <2>0, <2>1 DEF Capture
    <3>2. cooling' = (cooling \/ "edit" = "send")
      BY <2>0, <3>1
    <3> QED
      BY <1>1, <1>5, <2>1, <3>1, <3>2, CaptureShows DEF Capture
  <2>2. CASE entry.msg = 0
    <3>1. /\ entry' = NextSequence /\ UNCHANGED mode /\ cooling' = TRUE
          /\ busy' = [busy EXCEPT ![r] =
               [busy[r] EXCEPT !.at = "send", !.saw = screen, !.seq = NextSequence.seq,
                               !.msg = NextSequence.msg]]
      BY <1>5, <2>0, <2>2 DEF Capture
    <3> QED
      BY <1>1, <1>5, <2>0, <2>2, <3>1, CaptureShows DEF Capture
  <2> QED
    BY <2>1, <2>2
<1> QED
  BY <1>3, <1>4, <1>5

(* The tracked message shows what the renderer saw *)
LEMMA EditKeeps ==
  ASSUME IpHazards = {}, PromptsInOrder, NEW r \in Renderers, EditInteractiveMsg(r)
  PROVE  PromptsInOrder'
<1> USE DEF PromptsInOrder
<1>1. /\ busy[r].at = "edit" /\ busy[r].msg = entry.msg /\ entry.msg \in 1..Len(chat)
      /\ chat[entry.msg].there /\ mode
  BY DEF EditInteractiveMsg, Rendering, ButtonsFollow, TrackedShows, PromptTypes,
     ModeFollowsMessage
<1> DEFINE d == [text |-> busy[r].saw, seq |-> busy[r].seq, there |-> TRUE]
<1>2. /\ chat' = [chat EXCEPT ![entry.msg] = d]
      /\ mode' = (mode \/ <<chat[entry.msg].text, chat[entry.msg].seq>>
                             # <<busy[r].saw, busy[r].seq>>)
      /\ entry' = [entry EXCEPT !.context = entry.msg]
      /\ busy' = [busy EXCEPT ![r] = Resting]
      /\ UNCHANGED <<cooling, ipFaults, ipTerminal, taps>>
  BY <1>1 DEF EditInteractiveMsg, Drawn
<1>3. d \in Drawings /\ d.text = busy[r].saw /\ d.seq = busy[r].seq /\ d.there
  BY DEF PromptTypes, Jobs, Drawings
<1> HIDE DEF d
<1>4. /\ chat' \in Seq(Drawings) /\ Len(chat') = Len(chat) /\ chat'[entry.msg] = d
      /\ \A m \in 1..Len(chat) : m # entry.msg => chat'[m] = chat[m]
  BY <1>1, <1>2, <1>3 DEF PromptTypes
<1>5. /\ entry' \in [msg : Nat, context : Nat, seq : Nat, content : Texts]
      /\ entry'.msg = entry.msg /\ entry'.seq = entry.seq /\ entry'.content = entry.content
  BY <1>2 DEF PromptTypes
<1>6. /\ busy' \in [Renderers -> Jobs] /\ busy'[r] = Resting
      /\ \A o \in Renderers : o # r => busy'[o] = busy[o]
      /\ busy'[r].at = "idle" /\ busy'[r].why = "none"
  <2>1. busy' \in [Renderers -> Jobs] /\ busy'[r] = Resting
        /\ \A o \in Renderers : o # r => busy'[o] = busy[o]
    BY <1>2, JobTaken, RestIsAJob DEF PromptTypes
  <2> QED
    BY <2>1 DEF Resting
<1>7. mode' /\ mode' \in BOOLEAN
  BY <1>1, <1>2
<1>8. PromptTypes'
  BY <1>2, <1>4, <1>5, <1>6, <1>7 DEF PromptTypes, ipTerminal
<1>9. SoloIsAlone' /\ ModeFollowsMessage'
  BY <1>1, <1>5, <1>6, <1>7 DEF SoloIsAlone, Solo, ModeFollowsMessage
<1>10. SoleSender' /\ Rendering' /\ ChoiceIsFresh'
  BY <1>1, <1>2, <1>5, <1>6 DEF SoleSender, Rendering, ChoiceIsFresh, ipTerminal, Renderers
<1>11. ButtonsFollow' /\ TrackedShows'
  BY <1>1, <1>2, <1>3, <1>4, <1>5 DEF ButtonsFollow, Behind, TrackedShows, Rendering
<1>12. ScreenIsRendered'
  BY <1>1, <1>2, <1>5 DEF ScreenIsRendered, Rendering, ipTerminal
<1>13. OthersGo'
  BY <1>1, <1>4, <1>5, <1>6 DEF OthersGo
<1> QED
  BY <1>2, <1>8, <1>9, <1>10, <1>11, <1>12, <1>13 DEF ChoiceAnswersItsPrompt, ipTerminal

(* A new message is sent, or the call fails *)
LEMMA SendKeeps ==
  ASSUME PromptsInOrder, NEW r \in Renderers, SendInteractive(r)
  PROVE  PromptsInOrder'
<1> USE DEF ipTerminal
<1>0. /\ busy[r].at = "send" /\ entry.msg = 0
      /\ entry \in [msg : Nat, context : Nat, seq : Nat, content : Texts]
      /\ UNCHANGED <<screen, taps, typed>>
  BY DEF SendInteractive, PromptsInOrder, SoleSender, PromptTypes
<1>1. CASE Fault /\ Unhandled(r, entry) /\ UNCHANGED chat
  <2>1. ipFaults' \in Nat
    BY <1>1 DEF Fault, PromptsInOrder, PromptTypes
  <2> QED
    BY <1>0, <1>1, <2>1, UnhandledKeeps
<1> DEFINE d == [text |-> busy[r].saw, seq |-> busy[r].seq, there |-> TRUE]
           new == Len(chat) + 1
<1>2. CASE /\ chat' = Append(chat, d) /\ mode' = TRUE /\ cooling' = FALSE
           /\ entry' = [entry EXCEPT !.msg = new, !.context = new]
           /\ busy' = [busy EXCEPT ![r] = Resting] /\ UNCHANGED ipFaults
  <2> USE DEF PromptsInOrder
  <2>1. d \in Drawings /\ d.text = busy[r].saw /\ d.seq = busy[r].seq /\ d.there
    BY DEF PromptTypes, Jobs, Drawings
  <2> HIDE DEF d
  <2>2. /\ chat' \in Seq(Drawings) /\ Len(chat') = new /\ chat'[new] = d
        /\ \A m \in 1..Len(chat) : chat'[m] = chat[m]
        /\ new \in Nat /\ new # 0 /\ Len(chat) \in Nat
    BY <1>2, <2>1 DEF PromptTypes
  <2>3. /\ entry' \in [msg : Nat, context : Nat, seq : Nat, content : Texts]
        /\ entry'.msg = new /\ entry'.seq = entry.seq /\ entry'.content = entry.content
    BY <1>2, <2>2 DEF PromptTypes
  <2>4. /\ busy' \in [Renderers -> Jobs] /\ busy'[r] = Resting
        /\ \A o \in Renderers : o # r => busy'[o] = busy[o]
        /\ busy'[r].at = "idle" /\ busy'[r].why = "none"
    <3>1. busy' \in [Renderers -> Jobs] /\ busy'[r] = Resting
          /\ \A o \in Renderers : o # r => busy'[o] = busy[o]
      BY <1>2, JobTaken, RestIsAJob DEF PromptTypes
    <3> QED
      BY <3>1 DEF Resting
  <2> HIDE DEF new
  <2>5. \A o \in Renderers : busy'[o].at \notin {"edit", "send"}
    BY <1>0, <2>4 DEF SoleSender, Rendering
  <2>6. entry.content = busy[r].saw /\ screen \in {NoText, busy[r].saw}
        /\ busy[r].seq <= entry.seq
    BY <1>0 DEF Rendering
  <2>7. PromptTypes'
    BY <1>0, <1>2, <2>2, <2>3, <2>4 DEF PromptTypes
  <2>8. SoloIsAlone' /\ ModeFollowsMessage'
    BY <1>0, <1>2, <2>2, <2>3, <2>4 DEF SoloIsAlone, Solo, ModeFollowsMessage
  <2>9. SoleSender' /\ Rendering'
    BY <2>5 DEF SoleSender, Rendering
  <2>10. ChoiceIsFresh'
    BY <1>0, <2>4 DEF ChoiceIsFresh, Renderers
  <2>11. ButtonsFollow'
    <3>1. \A i \in 1..Len(taps) : taps[i].msg <= Len(chat) /\ taps[i].msg \in Nat
      <4>1. \A i \in 1..Len(taps) : taps[i] \in Buttons
        BY DEF PromptTypes
      <4> QED
        BY <4>1 DEF Buttons, ButtonsFollow
    <3>2. \A i \in 1..Len(taps) : taps[i].msg # new /\ taps[i].msg <= new
      BY <2>2, <3>1 DEF new
    <3> QED
      BY <1>0, <2>1, <2>2, <2>3, <2>6, <3>2 DEF ButtonsFollow, Behind
  <2>12. ScreenIsRendered' /\ TrackedShows'
    BY <1>0, <2>1, <2>2, <2>3, <2>6 DEF ScreenIsRendered, TrackedShows
  <2>13. OthersGo'
    <3>1. \A m \in 1..Len(chat') : m # new => m \in 1..Len(chat)
      BY <2>2 DEF new
    <3>2. \A m \in 1..Len(chat) : m # new /\ m \in 1..Len(chat')
      BY <2>2 DEF new
    <3>3. \A o \in Renderers : busy'[o].at = "delete" => o # r
      BY <2>4
    <3>4. \A o \in Renderers : busy[o].at = "delete" => o # r
      BY <1>0
    <3>5. \A m \in 1..Len(chat') : chat'[m].there /\ m # entry'.msg =>
             \E o \in Renderers : busy'[o].at = "delete" /\ busy'[o].msg = m
      <4> SUFFICES ASSUME NEW m \in 1..Len(chat'), chat'[m].there, m # entry'.msg
                   PROVE  \E o \in Renderers : busy'[o].at = "delete" /\ busy'[o].msg = m
        OBVIOUS
      <4>1. m \in 1..Len(chat) /\ chat[m].there
        BY <2>2, <2>3, <3>1
      <4>2. m # entry.msg
        BY <1>0, <2>2, <4>1
      <4>3. PICK o \in Renderers : busy[o].at = "delete" /\ busy[o].msg = m
        BY <4>1, <4>2 DEF OthersGo
      <4>4. busy'[o] = busy[o]
        BY <2>4, <3>4, <4>3
      <4> QED
        BY <4>3, <4>4
    <3>6. ASSUME NEW o \in Renderers, busy'[o].at = "delete"
          PROVE  busy'[o].msg \in 1..Len(chat') /\ busy'[o].msg # entry'.msg
      <4>1. busy'[o] = busy[o]
        BY <2>4, <3>3, <3>6
      <4>2. busy[o].msg \in 1..Len(chat)
        BY <3>6, <4>1 DEF OthersGo
      <4> QED
        BY <2>3, <3>2, <4>1, <4>2
    <3> QED
      BY <3>5, <3>6 DEF OthersGo
  <2> QED
    BY <1>0, <2>7, <2>8, <2>9, <2>10, <2>11, <2>12, <2>13 DEF ChoiceAnswersItsPrompt
<1> QED
  BY <1>1, <1>2 DEF SendInteractive, Drawn


(* A cleared message leaves the chat *)
LEMMA DeleteKeeps ==
  ASSUME PromptsInOrder, NEW r \in Renderers, DeleteMessage(r)
  PROVE  PromptsInOrder'
<1> USE DEF PromptsInOrder
<1> DEFINE m == busy[r].msg
           gone == [chat[m] EXCEPT !.there = FALSE]
<1>1. /\ busy[r].at = "delete" /\ m \in 1..Len(chat) /\ m # entry.msg
      /\ UNCHANGED <<screen, typed, mode, entry, cooling, taps, ipFaults>>
  BY DEF DeleteMessage, OthersGo, ipTerminal, ipBounds
<1>2. chat[m] \in Drawings
  BY <1>1 DEF PromptTypes
<1>3. gone \in Drawings /\ ~gone.there
  BY <1>2 DEF Drawings
<1>4. /\ chat' \in Seq(Drawings) /\ Len(chat') = Len(chat) /\ ~chat'[m].there
      /\ \A n \in 1..Len(chat) : n # m => chat'[n] = chat[n]
  <2>1. chat' = [chat EXCEPT ![m] = gone]
    BY DEF DeleteMessage
  <2> QED
    BY <1>1, <1>3, <2>1 DEF PromptTypes
<1>5. /\ busy' \in [Renderers -> Jobs] /\ busy'[r] = Resting
      /\ \A o \in Renderers : o # r => busy'[o] = busy[o]
  BY JobTaken, RestIsAJob DEF PromptTypes, DeleteMessage
<1>6. Resting.at = "idle" /\ Resting.why = "none"
  BY DEF Resting
<1> HIDE DEF m, gone
<1>7. PromptTypes'
  BY <1>1, <1>4, <1>5 DEF PromptTypes
<1>8. SoloIsAlone' /\ ModeFollowsMessage'
  BY <1>1, <1>5, <1>6 DEF SoloIsAlone, Solo, ModeFollowsMessage
<1>9. SoleSender' /\ Rendering' /\ ChoiceIsFresh'
  BY <1>1, <1>5, <1>6 DEF SoleSender, Rendering, ChoiceIsFresh, Renderers
<1>10. entry.msg # 0 => chat'[entry.msg] = chat[entry.msg]
  BY <1>1, <1>4 DEF ButtonsFollow, PromptTypes
<1>11. ButtonsFollow' /\ ScreenIsRendered' /\ TrackedShows'
  BY <1>1, <1>4, <1>5, <1>6, <1>10 DEF ButtonsFollow, Behind, ScreenIsRendered, TrackedShows,
     Renderers
<1>12. OthersGo'
  BY <1>1, <1>4, <1>5, <1>6 DEF OthersGo, m
<1> QED
  BY <1>1, <1>7, <1>8, <1>9, <1>11, <1>12 DEF ChoiceAnswersItsPrompt

----------------------------------------------------------------------------
(* The taps *)
LEMMA HandleTapKeeps ==
  ASSUME IpHazards = {}, PromptsInOrder, HandleTap
  PROVE  PromptsInOrder'
<1> DEFINE t == Head(taps)
<1>1. /\ busy["handler"] = Resting /\ \A o \in Renderers : ~Solo(o)
      /\ TapsLeft /\ "handler" \in Renderers /\ busy["handler"].at = "idle"
      /\ UNCHANGED <<typed, chat>> /\ ipFaults' = ipFaults /\ ipFaults \in Nat
  BY DEF HandleTap, Free, Solo, TapsLeft, Renderers, Resting, ipBounds, PromptsInOrder,
     PromptTypes
<1>2. 1 \in 1..Len(taps) /\ t = taps[1] /\ t \in Buttons
  BY DEF HandleTap, PromptsInOrder, PromptTypes
<1>3. CASE t.key = "key" /\ Start("handler", "capture", "key")
           /\ screen' \in {screen, NoText} /\ UNCHANGED <<mode, entry, cooling>>
  <2>1. mode' = (mode \/ "key" \in {"only", "hook", "tool"})
    BY <1>3 DEF PromptsInOrder, PromptTypes
  <2> QED
    BY <1>1, <1>3, <2>1, StartKeeps
<1>4. CASE t.key = "esc" /\ Alone /\ ClearMessage("handler", entry) /\ screen' = NoText
  <2>1. \A o \in Renderers : busy[o] = Resting
    BY <1>4 DEF Alone, AllRest
  <2> QED
    BY <1>1, <1>4, <2>1, ClearKeeps
<1>5. CASE /\ t.key = "choice" /\ UNCHANGED <<screen, mode, entry, cooling>>
           /\ busy' = [busy EXCEPT !["handler"] =
                IF IsCurrentPrompt(t)
                THEN [Resting EXCEPT !.at = "choice", !.why = "choice", !.saw = t.text]
                ELSE Resting]
  <2> USE DEF PromptsInOrder
  <2> DEFINE j == IF IsCurrentPrompt(t)
                  THEN [Resting EXCEPT !.at = "choice", !.why = "choice", !.saw = t.text]
                  ELSE Resting
  <2>1. /\ j \in Jobs /\ j.at \in {"idle", "choice"} /\ j.why \in {"none", "choice"}
        /\ j.at = "choice" => IsCurrentPrompt(t) /\ j.saw = t.text
    <3>1. CASE IsCurrentPrompt(t)
      <4>1. t.text \in Texts
        BY <1>2 DEF Buttons
      <4>2. j = [at |-> "choice", why |-> "choice", saw |-> t.text, seq |-> 0, msg |-> 0]
        BY <3>1 DEF Resting
      <4> HIDE DEF j
      <4> QED
        BY <3>1, <4>1, <4>2 DEF Jobs
    <3>2. CASE ~IsCurrentPrompt(t)
      <4>1. j = Resting
        BY <3>2
      <4> HIDE DEF j
      <4> QED
        BY <4>1, RestIsAJob DEF Resting
    <3> QED
      BY <3>1, <3>2
  <2>2. busy' = [busy EXCEPT !["handler"] = j]
    BY <1>5
  <2> HIDE DEF j
  <2>3. /\ busy' \in [Renderers -> Jobs] /\ busy'["handler"] = j
        /\ \A o \in Renderers : o # "handler" => busy'[o] = busy[o]
    BY <1>1, <2>1, <2>2, JobTaken DEF PromptTypes
  <2>4. /\ taps' \in Seq(Buttons)
        /\ \A i \in 1..Len(taps') : \E k \in 1..Len(taps) : taps'[i] = taps[k]
    BY <1>1, FewerTaps DEF PromptTypes
  <2>5. PromptTypes'
    BY <1>1, <1>5, <2>3, <2>4 DEF PromptTypes
  <2>6. ChoiceIsFresh'
    <3>1. IsCurrentPrompt(t) => t.msg = entry.msg /\ t.msg # 0 /\ t.seq = entry.seq
      BY <1>2 DEF IsCurrentPrompt, Buttons
    <3>2. IsCurrentPrompt(t) => t.text = entry.content
      BY <1>2, <3>1 DEF ButtonsFollow, Behind
    <3> QED
      BY <1>1, <1>5, <2>1, <2>3, <3>1, <3>2 DEF ChoiceIsFresh, ScreenIsRendered
  <2>7. SoloIsAlone' /\ ModeFollowsMessage'
    BY <1>1, <1>5, <2>1, <2>3 DEF SoloIsAlone, Solo, ModeFollowsMessage
  <2>8. SoleSender' /\ Rendering' /\ OthersGo' /\ TrackedShows'
    BY <1>1, <1>5, <2>1, <2>3 DEF SoleSender, Rendering, OthersGo, TrackedShows
  <2>9. ButtonsFollow'
    BY <1>1, <1>5, <2>4 DEF ButtonsFollow, Behind
  <2>10. ScreenIsRendered'
    BY <1>1, <1>5, <2>3 DEF ScreenIsRendered
  <2> QED
    BY <1>1, <2>5, <2>6, <2>7, <2>8, <2>9, <2>10 DEF ChoiceAnswersItsPrompt
<1> QED
  BY <1>3, <1>4, <1>5 DEF HandleTap

LEMMA ChoiceKeeps ==
  ASSUME PromptsInOrder, HandleDirectChoice
  PROVE  PromptsInOrder'
<1> USE DEF PromptsInOrder
<1>1. /\ busy["handler"].at = "choice" /\ "handler" \in Renderers
      /\ busy' = [busy EXCEPT !["handler"] = Resting]
      /\ UNCHANGED <<mode, cooling, chat, taps>>
  BY DEF HandleDirectChoice, Renderers
<1>2. /\ busy' \in [Renderers -> Jobs] /\ busy'["handler"] = Resting
      /\ \A o \in Renderers : o # "handler" => busy'[o] = busy[o]
  BY <1>1, JobTaken, RestIsAJob DEF PromptTypes
<1>3. Resting.at = "idle" /\ Resting.why = "none"
  BY DEF Resting
<1>4. /\ entry' \in [msg : Nat, context : Nat, seq : Nat, content : Texts]
      /\ entry'.msg = entry.msg /\ entry'.content = entry.content
      /\ entry'.seq = entry.seq \/ entry'.seq = entry.seq + 1
  <2>1. CASE entry' = entry
    BY <2>1 DEF PromptTypes
  <2>2. CASE entry' = [entry EXCEPT !.seq = IF entry.seq = 0 THEN 0 ELSE entry.seq + 1]
    BY <2>2 DEF PromptTypes
  <2> QED
    BY <2>1, <2>2 DEF HandleDirectChoice
<1>5. /\ screen' \in {screen, NoText} /\ ipFaults' \in Nat
      /\ ChoiceAnswersItsPrompt'
  <2>1. CASE /\ typed' = typed \cup {<<busy["handler"].saw, screen>>}
             /\ screen' = NoText /\ UNCHANGED ipFaults
    BY <1>1, <2>1 DEF ChoiceIsFresh, ChoiceAnswersItsPrompt, PromptTypes
  <2>2. CASE Fault /\ UNCHANGED <<typed, screen, entry>>
    BY <2>2 DEF Fault, ChoiceAnswersItsPrompt, PromptTypes
  <2> QED
    BY <2>1, <2>2 DEF HandleDirectChoice
<1>6. PromptTypes'
  BY <1>1, <1>2, <1>4, <1>5 DEF PromptTypes, Texts
<1>7. SoloIsAlone' /\ ModeFollowsMessage'
  BY <1>1, <1>2, <1>3, <1>4 DEF SoloIsAlone, Solo, ModeFollowsMessage
<1>8. SoleSender' /\ TrackedShows' /\ OthersGo'
  BY <1>1, <1>2, <1>3, <1>4 DEF SoleSender, TrackedShows, OthersGo
<1>9. Rendering'
  BY <1>1, <1>2, <1>3, <1>4, <1>5 DEF Rendering, PromptTypes, Jobs
<1>10. ButtonsFollow'
  <2>1. /\ entry.msg # 0 => chat[entry.msg].seq \in Nat
        /\ \A i \in 1..Len(taps) : taps[i].seq \in Nat
    <3>1. entry.msg # 0 => chat[entry.msg] \in Drawings
      BY DEF PromptTypes, ButtonsFollow
    <3>2. \A i \in 1..Len(taps) : taps[i] \in Buttons
      BY DEF PromptTypes
    <3> QED
      BY <3>1, <3>2 DEF Drawings, Buttons
  <2> QED
    BY <1>1, <1>4, <2>1 DEF ButtonsFollow, Behind, PromptTypes
<1>11. ScreenIsRendered' /\ ChoiceIsFresh'
  BY <1>1, <1>2, <1>3, <1>4, <1>5 DEF ScreenIsRendered, ChoiceIsFresh
<1> QED
  BY <1>5, <1>6, <1>7, <1>8, <1>9, <1>10, <1>11

----------------------------------------------------------------------------
LEMMA PromptStep ==
  ASSUME IpHazards = {}, PromptsInOrder, [PromptNext]_ipVars
  PROVE  PromptsInOrder'
<1> USE DEF ipBounds, ipTerminal
<1>0. ipFaults \in Nat /\ mode \in BOOLEAN
  BY DEF PromptsInOrder, PromptTypes
<1>s. UNCHANGED taps => TapsLeft
  BY DEF TapsLeft
<1>f. \A r \in Renderers : Free(r) => busy[r] = Resting /\ \A o \in Renderers : ~Solo(o)
  BY DEF Free, Solo
<1>a. Alone => AllRest
  BY DEF Alone
<1>d. \A r \in Renderers : busy[r] = Resting => busy[r].at # "delete"
  BY DEF Resting
<1>r. "poll" \in Renderers /\ "monitor" \in Renderers /\ "handler" \in Renderers
  BY DEF Renderers
<1>1. CASE PollTick
  <2>1. CASE Alone /\ ClearMessage("poll", entry)
    BY <1>1, <1>0, <1>s, <1>a, <1>d, <1>r, <2>1, ClearKeeps DEF PollTick, AllRest
  <2>2. CASE ~mode /\ Start("poll", "capture", "poll") /\ UNCHANGED <<mode, entry, cooling>>
    <3>1. mode' = (mode \/ "poll" \in {"only", "hook", "tool"})
      BY <1>0, <2>2
    <3> QED
      BY <1>1, <1>0, <1>s, <1>f, <1>r, <2>2, <3>1, StartKeeps DEF PollTick
  <2> QED
    BY <1>1, <2>1, <2>2 DEF PollTick
<1>2. CASE CheckInteractiveOnly
  <2>1. mode' = (mode \/ "only" \in {"only", "hook", "tool"})
    BY <1>2 DEF CheckInteractiveOnly
  <2> QED
    BY <1>2, <1>0, <1>s, <1>f, <1>a, <1>r, <2>1, StartKeeps DEF CheckInteractiveOnly
<1>3. CASE HandleNotification
  <2>1. mode' = (mode \/ "hook" \in {"only", "hook", "tool"})
    BY <1>3 DEF HandleNotification
  <2> QED
    BY <1>3, <1>0, <1>s, <1>f, <1>a, <1>r, <2>1, StartKeeps DEF HandleNotification
<1>4. CASE HandleNewMessage
  <2>1. CASE Alone /\ ClearMessage("monitor", entry)
    BY <1>4, <1>0, <1>s, <1>a, <1>d, <1>r, <2>1, ClearKeeps DEF HandleNewMessage, AllRest
  <2>2. CASE Alone /\ mode' = TRUE /\ Start("monitor", "capture", "tool")
             /\ UNCHANGED <<entry, cooling>>
    <3>1. mode' = (mode \/ "tool" \in {"only", "hook", "tool"})
      BY <2>2
    <3> QED
      BY <1>4, <1>0, <1>s, <1>f, <1>a, <1>r, <2>2, <3>1, StartKeeps DEF HandleNewMessage
  <2> QED
    BY <1>4, <2>1, <2>2 DEF HandleNewMessage
<1>5. CASE UNCHANGED ipVars
  BY <1>5 DEF ipVars, PromptsInOrder, PromptTypes, SoloIsAlone, Solo, ModeFollowsMessage,
     SoleSender, Rendering, ButtonsFollow, Behind, ScreenIsRendered, ChoiceIsFresh,
     TrackedShows, OthersGo, ChoiceAnswersItsPrompt
<1> QED
  BY <1>1, <1>2, <1>3, <1>4, <1>5, AskKeeps, AnswerKeeps, CooldownKeeps, CaptureKeeps,
     EditKeeps, SendKeeps, DeleteKeeps, TapKeeps, TokenKeeps, HandleTapKeeps, ChoiceKeeps
     DEF PromptNext

(* The context is the number of a message that was sent *)
ContextKnown == entry.context <= Len(chat)
LEMMA ContextStep ==
  ASSUME IpHazards = {}, PromptsInOrder, ContextKnown, [PromptNext]_ipVars
  PROVE  ContextKnown'
<1> USE DEF ContextKnown
<1>0. /\ entry \in [msg : Nat, context : Nat, seq : Nat, content : Texts]
      /\ chat \in Seq(Drawings) /\ Len(chat) \in Nat
      /\ \A r \in Renderers : busy[r].at = "edit" => busy[r].msg = entry.msg
      /\ entry.msg <= Len(chat)
  BY DEF PromptsInOrder, PromptTypes, Rendering, ButtonsFollow
<1>1. ASSUME NEW e, e.context <= Len(chat), NEW r, Unhandled(r, e) \/ ClearMessage(r, e)
      PROVE  entry'.context <= Len(chat)
  BY <1>0, <1>1 DEF Unhandled, ClearMessage, NoEntry
<1>2. ASSUME NEW r \in Renderers, Capture(r)
      PROVE  ContextKnown'
  <2>1. Prompted => NextSequence.context = entry.context
    BY <1>0 DEF NextSequence
  <2>2. \/ Unhandled(r, entry)
        \/ Prompted /\ (Unhandled(r, NextSequence) \/ entry' = NextSequence)
    BY <1>2 DEF Capture
  <2> QED
    BY <1>1, <1>2, <2>1, <2>2 DEF Capture
<1>3. ASSUME NEW r \in Renderers, EditInteractiveMsg(r)
      PROVE  ContextKnown'
  <2>1. CASE chat[busy[r].msg].there /\ chat' = [chat EXCEPT ![busy[r].msg] = Drawn(busy[r])]
             /\ entry' = [entry EXCEPT !.context = busy[r].msg]
    <3>1. entry'.context = entry.msg /\ Len(chat') = Len(chat)
      BY <1>0, <1>3, <2>1 DEF EditInteractiveMsg
    <3> QED
      BY <1>0, <3>1
  <2> QED
    BY <1>0, <1>1, <1>3, <2>1 DEF EditInteractiveMsg
<1>4. ASSUME NEW r \in Renderers, SendInteractive(r)
      PROVE  ContextKnown'
  <2>1. CASE chat' = Append(chat, Drawn(busy[r]))
             /\ entry' = [entry EXCEPT !.msg = Len(chat) + 1, !.context = Len(chat) + 1]
    <3>1. entry'.context = Len(chat) + 1 /\ Len(chat') = Len(chat) + 1
      BY <1>0, <2>1
    <3> QED
      BY <1>0, <3>1
  <2> QED
    BY <1>0, <1>1, <1>4, <2>1 DEF SendInteractive
<1>5. ASSUME NEW r \in Renderers, DeleteMessage(r)
      PROVE  ContextKnown'
  <2>1. Len(chat') = Len(chat)
    BY <1>0, <1>5 DEF DeleteMessage
  <2> QED
    BY <1>5, <2>1 DEF DeleteMessage
<1>6. CASE HandleDirectChoice
  <2>1. entry'.context = entry.context
    BY <1>0, <1>6 DEF HandleDirectChoice
  <2> QED
    BY <1>6, <2>1 DEF HandleDirectChoice
<1>7. CASE PollTick \/ HandleNewMessage \/ HandleTap
  <2>1. chat' = chat /\ (entry' = entry \/ \E r \in Renderers : ClearMessage(r, entry))
    BY <1>7 DEF PollTick, HandleNewMessage, HandleTap, Renderers
  <2> QED
    BY <1>1, <2>1
<1>8. CASE \/ \E t \in IpTexts : Ask(t)
           \/ AnswerAtTerminal \/ CheckInteractiveOnly \/ HandleNotification
           \/ CooldownEnds \/ TokenGone \/ UNCHANGED ipVars
           \/ \E m \in DOMAIN chat, k \in {"choice", "key", "esc"} : Tap(m, k)
  BY <1>8 DEF Ask, AnswerAtTerminal, CheckInteractiveOnly, HandleNotification, CooldownEnds,
     TokenGone, Tap, ipVars
<1> QED
  BY <1>2, <1>3, <1>4, <1>5, <1>6, <1>7, <1>8 DEF PromptNext

(* What the invariant is for.  At rest, the tracked message is the only one *)
(* and shows the prompt that the terminal shows.                            *)
LEMMA OrderShows == PromptsInOrder /\ ContextKnown => PromptInv /\ PromptShown
<1> SUFFICES ASSUME PromptsInOrder, ContextKnown PROVE PromptInv /\ PromptShown
  OBVIOUS
<1> USE DEF PromptsInOrder
<1>1. AllRest => \A r \in Renderers : busy[r].at = "idle" /\ busy[r].why = "none"
  BY DEF AllRest, Resting
<1>2. OneKeyboard
  BY <1>1 DEF OneKeyboard, OthersGo, PromptTypes
<1>3. PromptTypeOK
  <2>1. \A r \in Renderers : busy[r] \in Jobs
    BY DEF PromptTypes
  <2>2. entry.msg \in 0..Len(chat) /\ entry.context \in 0..Len(chat)
    BY DEF PromptTypes, ButtonsFollow, ContextKnown
  <2> QED
    BY <2>1, <2>2 DEF PromptTypeOK, PromptTypes, Jobs, Texts
<1>4. PromptShown
  BY <1>1 DEF PromptShown, Prompted, ModeFollowsMessage, Solo, TrackedShows, ScreenIsRendered,
     Renderers
<1> QED
  BY <1>2, <1>3, <1>4 DEF PromptInv

LEMMA OrderInvariant ==
  ASSUME IpHazards = {}
  PROVE  PromptSpec => [](PromptInv /\ PromptShown)
<1>1. PromptInit => PromptsInOrder /\ ContextKnown
  BY PromptsBegin DEF PromptInit, NoEntry, ContextKnown
<1>2. PromptsInOrder /\ ContextKnown /\ [PromptNext]_ipVars => (PromptsInOrder /\ ContextKnown)'
  BY PromptStep, ContextStep
<1>3. PromptsInOrder /\ ContextKnown => PromptInv /\ PromptShown
  BY OrderShows
<1> HIDE DEF PromptsInOrder, ContextKnown
<1> QED
  BY <1>1, <1>2, <1>3, PTL DEF PromptSpec

(* With no hazard of IpHazards, for every number of prompts, taps, notices *)
(* and failed calls: a direct choice answers only the prompt its button    *)
(* was drawn for, and at rest a topic has at most one keyboard             *)
(* (interactive_ui.py, interactive_callbacks.py).                          *)
THEOREM KeyboardsAnswerTheirPrompts ==
  ASSUME IpHazards = {}
  PROVE  PromptSpec => []PromptInv
  BY OrderInvariant, PTL

(* Under the same assumption, in interactive mode, when no task renders, the *)
(* tracked message is in the chat and shows the prompt of the terminal       *)
(* (apply.py: the polling loop leaves such a topic alone).                   *)
THEOREM PromptsAreShown ==
  ASSUME IpHazards = {}
  PROVE  PromptSpec => []PromptShown
  BY OrderInvariant, PTL

----------------------------------------------------------------------------
(* What is typed in a topic, and its echo.                                 *)

(* The messages and lines, and the types of the state.                     *)
Named == TiMessages \cup {NoMsg}
Lines == Seq(Named \X {"text", "!", "rest", "i"})
Stages == {"idle", "check", "find", "probe", "text", "rest", "enter", "told"}
InputTypes ==
  /\ backend \in {"tmux", "cli"} /\ prog \in {"agent", "shell"}
  /\ vim \in {"off", "insert", "normal"} /\ vimSeen \in BOOLEAN
  /\ prompt \in Lines /\ taken \in Seq({"agent", "shell"} \X Lines) /\ late = {}
  /\ job \in [pc : Stages, m : Named, kind : Kinds]
  /\ injected \subseteq TiMessages /\ mirrored = {} /\ cards \subseteq TiMessages
  /\ echoes \in Seq(Lines)
  /\ told \in [TiMessages -> {"new", "sent", "failed"}]
  /\ inTopic \in BOOLEAN /\ capture \in BOOLEAN

(* A line has a piece of message m; the agent took m whole, and once.      *)
Carries(line, m) == \E k \in DOMAIN line : line[k][1] = m
TakenOnce(m) ==
  \E i \in DOMAIN taken :
    /\ taken[i][1] = "agent" /\ WholeOf(taken[i][2], m)
    /\ \A j \in DOMAIN taken : Carries(taken[j][2], m) => j = i
NotTaken(m) == \A i \in DOMAIN taken : ~Carries(taken[i][2], m)

(* The prompt line holds what the send in progress has typed, and nothing  *)
(* else.                                                                   *)
PromptIsOurs ==
  /\ job.pc \notin {"rest", "enter"} => prompt = <<>>
  /\ job.pc = "rest" => prompt = <<<<job.m, "!">>>>
  /\ job.pc = "enter" => WholeOf(prompt, job.m)
(* No text is typed into an editor in normal mode: it was put into insert  *)
(* mode, or is known not to have modes.                                    *)
VimReady ==
  /\ vim = "normal" => backend = "tmux" /\ vimSeen
  /\ vimSeen => vim # "off"
  /\ job.pc \notin {"idle", "told"} /\ job.kind = "followup" => vim = "off"
  /\ job.pc \in {"text", "rest", "enter"} => vim # "normal"
(* A send is of a message whose topic is there and whose fate is open;     *)
(* from the moment its window is found it is registered as injected.       *)
SendStands ==
  /\ job.pc # "idle" =>
       job.m \in TiMessages /\ inTopic /\ job.m \notin cards /\ told[job.m] # "sent"
  /\ job.pc = "idle" => job = NoJob
  /\ job.pc \in {"find", "probe", "text", "rest", "enter"} =>
       prog = "agent" /\ job.m \in injected
  /\ job.pc = "told" => TakenOnce(job.m)
(* What the user is told agrees with what the agent took.                  *)
Outcomes ==
  \A m \in TiMessages :
    /\ told[m] = "sent" => TakenOnce(m) /\ m \notin cards
    /\ told[m] # "sent" /\ ~(At("told") /\ job.m = m) => NotTaken(m)
(* The transcript will show a line of the bot once, and it is still        *)
(* registered.                                                             *)
EchoesKnown ==
  \A m \in TiMessages : \A i \in DOMAIN echoes : WholeOf(echoes[i], m) =>
    /\ m \in injected /\ (told[m] = "sent" \/ (At("told") /\ job.m = m))
    /\ \A j \in DOMAIN echoes : WholeOf(echoes[j], m) => j = i

(* The inductive invariant of TerminalInput.                               *)
InputInOrder ==
  /\ InputTypes /\ PromptIsOurs /\ VimReady /\ SendStands /\ Outcomes /\ EchoesKnown
  /\ CaptureHasTopic

----------------------------------------------------------------------------
(* The lines.                                                               *)

(* A whole message is a line of one piece or of the two halves of a bang   *)
(* command.                                                                *)
LEMMA WholeIs ==
  ASSUME NEW line, NEW m
  PROVE  WholeOf(line, m) <=> line \in {<<<<m, "!">>, <<m, "rest">>>>, <<<<m, "text">>>>}
  BY DEF WholeOf, Pieces, Kinds

(* A line that is one message whole carries that message and no other.     *)
LEMMA WholeCarries ==
  ASSUME NEW line, NEW m, WholeOf(line, m)
  PROVE  /\ line # <<>> /\ Carries(line, m)
         /\ \A n : Carries(line, n) => n = m
         /\ \A n : WholeOf(line, n) => n = m
<1>1. CASE line = <<<<m, "!">>, <<m, "rest">>>>
  <2>1. DOMAIN line = 1..2 /\ line[1] = <<m, "!">> /\ line[2] = <<m, "rest">>
    BY <1>1
  <2>2. \A k \in DOMAIN line : line[k][1] = m
    BY <2>1
  <2>3. \A n : WholeOf(line, n) => line[1][1] = n
    BY WholeIs
  <2> QED
    BY <1>1, <2>1, <2>2, <2>3 DEF Carries
<1>2. CASE line = <<<<m, "text">>>>
  <2>1. DOMAIN line = 1..1 /\ line[1] = <<m, "text">>
    BY <1>2
  <2>2. \A k \in DOMAIN line : line[k][1] = m
    BY <2>1
  <2>3. \A n : WholeOf(line, n) => line[1][1] = n
    BY WholeIs
  <2> QED
    BY <1>2, <2>1, <2>2, <2>3 DEF Carries
<1> QED
  BY <1>1, <1>2, WholeIs

(* Lines a send can type.                                                  *)
LEMMA LinesOf ==
  /\ <<>> \in Lines
  /\ \A m \in Named : <<<<m, "!">>>> \in Lines /\ <<<<m, "text">>>> \in Lines
                      /\ <<<<m, "!">>, <<m, "rest">>>> \in Lines
  BY DEF Lines

(* A line of the keyboard is no message *)
LEMMA KeyedIsNoMessage ==
  ASSUME NEW m \in TiMessages
  PROVE  ~Carries(<<<<NoMsg, "text">>>>, m) /\ ~WholeOf(<<<<NoMsg, "text">>>>, m)
<1>1. ~Carries(<<<<NoMsg, "text">>>>, m)
  BY InputAssumption DEF Carries
<1> QED
  BY <1>1, WholeCarries

(* What happens elsewhere changes nothing that was taken.                  *)
LEMMA TakenKept ==
  ASSUME taken' = taken
  PROVE  \A m : (TakenOnce(m)' <=> TakenOnce(m)) /\ (NotTaken(m)' <=> NotTaken(m))
  BY DEF TakenOnce, NotTaken

(* A line handed over takes the message it carries whole, and no other     *)
(* one.                                                                    *)
LEMMA LineTaken ==
  ASSUME InputTypes, NEW p \in {"agent", "shell"}, NEW line \in Lines,
         taken' = Append(taken, <<p, line>>)
  PROVE  /\ taken' \in Seq({"agent", "shell"} \X Lines)
         /\ \A m : ~Carries(line, m) => /\ TakenOnce(m) => TakenOnce(m)'
                                        /\ NotTaken(m) => NotTaken(m)'
         /\ \A m : p = "agent" /\ WholeOf(line, m) /\ NotTaken(m) => TakenOnce(m)'
<1> DEFINE n == Len(taken)
<1>1. /\ taken' \in Seq({"agent", "shell"} \X Lines) /\ n \in Nat
      /\ DOMAIN taken = 1..n /\ DOMAIN taken' = 1..(n + 1)
      /\ taken'[n + 1] = <<p, line>> /\ \A i \in 1..n : taken'[i] = taken[i]
  BY DEF InputTypes
<1> HIDE DEF n
<1>2. taken'[n + 1][1] = p /\ taken'[n + 1][2] = line
  BY <1>1
<1>3. \A i \in DOMAIN taken' : i \in DOMAIN taken \/ i = n + 1
  BY <1>1
<1>4. n + 1 \in DOMAIN taken' /\ n + 1 \notin DOMAIN taken
  BY <1>1
<1>5. \A i \in DOMAIN taken : i \in DOMAIN taken' /\ taken'[i] = taken[i]
  BY <1>1
<1>6. ASSUME NEW m, ~Carries(line, m), TakenOnce(m) PROVE TakenOnce(m)'
  <2>1. PICK i \in DOMAIN taken :
          /\ taken[i][1] = "agent" /\ WholeOf(taken[i][2], m)
          /\ \A j \in DOMAIN taken : Carries(taken[j][2], m) => j = i
    BY <1>6 DEF TakenOnce
  <2>2. \A j \in DOMAIN taken' : Carries(taken'[j][2], m) => j = i
    BY <1>2, <1>3, <1>5, <1>6, <2>1
  <2> QED
    BY <1>5, <2>1, <2>2 DEF TakenOnce
<1>7. ASSUME NEW m, ~Carries(line, m), NotTaken(m) PROVE NotTaken(m)'
  BY <1>2, <1>3, <1>5, <1>7 DEF NotTaken
<1>8. ASSUME NEW m, p = "agent", WholeOf(line, m), NotTaken(m) PROVE TakenOnce(m)'
  <2>1. \A j \in DOMAIN taken' : Carries(taken'[j][2], m) => j = n + 1
    BY <1>2, <1>3, <1>5, <1>8 DEF NotTaken
  <2> QED
    BY <1>2, <1>4, <1>8, <2>1 DEF TakenOnce
<1> QED
  BY <1>1, <1>6, <1>7, <1>8

(* A step that leaves the echoes and what they rest on keeps EchoesKnown.  *)
LEMMA EchoesKept ==
  ASSUME EchoesKnown, echoes' = echoes,
         \A m \in TiMessages : m \in injected => m \in injected'
            \/ \A i \in DOMAIN echoes : ~WholeOf(echoes[i], m),
         \A m \in TiMessages : told[m] = "sent" \/ (At("told") /\ job.m = m)
            => told'[m] = "sent" \/ (At("told")' /\ job'.m = m)
  PROVE  EchoesKnown'
  BY DEF EchoesKnown
----------------------------------------------------------------------------
(* The actions.                                                             *)

(* A voice note is transcribed and waits to be sent.                       *)
LEMMA TranscribeKeeps ==
  ASSUME InputInOrder, NEW m \in TiMessages, Transcribe(m)
  PROVE  InputInOrder'
<1>1. InputTypes'
  BY LinesOf DEF InputInOrder, Transcribe, Idle, At, NoJob, InputTypes, tiPane, tiBot, tiBounds
<1>2. PromptIsOurs'
  BY DEF InputInOrder, Transcribe, Idle, At, NoJob, PromptIsOurs, InputTypes, tiPane, tiBot, tiBounds
<1>3. VimReady'
  BY DEF InputInOrder, Transcribe, Idle, At, NoJob, VimReady, InputTypes, tiPane, tiBot, tiBounds
<1>4. SendStands'
  BY TakenKept DEF InputInOrder, Transcribe, Idle, At, NoJob, SendStands, InputTypes, tiPane, tiBot, tiBounds
<1>5. Outcomes'
  BY TakenKept DEF InputInOrder, Transcribe, Idle, At, NoJob, Outcomes, SendStands, InputTypes, tiPane, tiBot, tiBounds
<1>6. EchoesKnown'
  BY EchoesKept DEF InputInOrder, Transcribe, Idle, At, NoJob, SendStands, InputTypes, tiPane, tiBot, tiBounds
<1>7. CaptureHasTopic'
  BY DEF InputInOrder, Transcribe, Idle, At, NoJob, CaptureHasTopic, SendStands, tiPane, tiBot, tiBounds
<1> QED
  BY <1>1, <1>2, <1>3, <1>4, <1>5, <1>6, <1>7 DEF InputInOrder

(* A remembered injection is forgotten; its echo has been read.            *)
LEMMA ExpiresKeeps ==
  ASSUME InputInOrder, TiHazards = {}, NEW m \in TiMessages, InjectionExpires(m)
  PROVE  InputInOrder'
<1>1. InputTypes'
  BY LinesOf DEF InputInOrder, InjectionExpires, At, InputTypes, tiPane, tiBot, tiBounds
<1>2. PromptIsOurs'
  BY DEF InputInOrder, InjectionExpires, At, PromptIsOurs, InputTypes, tiPane, tiBot, tiBounds
<1>3. VimReady'
  BY DEF InputInOrder, InjectionExpires, At, VimReady, InputTypes, tiPane, tiBot, tiBounds
<1>4. SendStands'
  BY TakenKept DEF InputInOrder, InjectionExpires, At, SendStands, InputTypes, tiPane, tiBot, tiBounds
<1>5. Outcomes'
  BY TakenKept DEF InputInOrder, InjectionExpires, At, Outcomes, SendStands, InputTypes, tiPane, tiBot, tiBounds
<1>6. EchoesKnown'
  BY EchoesKept DEF InputInOrder, InjectionExpires, At, SendStands, InputTypes, tiPane, tiBot, tiBounds
<1>7. CaptureHasTopic'
  BY DEF InputInOrder, InjectionExpires, At, CaptureHasTopic, SendStands, tiPane, tiBot, tiBounds
<1> QED
  BY <1>1, <1>2, <1>3, <1>4, <1>5, <1>6, <1>7 DEF InputInOrder

(* The user's text reaches its handler.                                    *)
LEMMA ReceiveKeeps ==
  ASSUME InputInOrder, NEW m \in TiMessages, NEW kind \in Kinds, Receive(m, kind)
  PROVE  InputInOrder'
<1>1. InputTypes'
  BY DEF InputInOrder, Receive, Idle, At, Stages, InputTypes, tiPane, tiBounds, Named
<1>2. PromptIsOurs'
  BY DEF InputInOrder, Receive, Idle, At, Stages, PromptIsOurs, InputTypes, tiPane, tiBot, tiBounds
<1>3. VimReady'
  BY DEF InputInOrder, Receive, Idle, At, Stages, VimReady, InputTypes, tiPane, tiBot, tiBounds
<1>4. SendStands'
  BY TakenKept DEF InputInOrder, Receive, Idle, At, SendStands, Outcomes, InputTypes, tiPane, tiBounds
<1>5. Outcomes'
  BY TakenKept DEF InputInOrder, Receive, Idle, At, Stages, Outcomes, SendStands, InputTypes, tiPane, tiBot, tiBounds
<1>6. EchoesKnown'
  BY EchoesKept DEF InputInOrder, Receive, Idle, At, Stages, SendStands, InputTypes, tiPane, tiBot, tiBounds
<1>7. CaptureHasTopic'
  BY DEF InputInOrder, Receive, Idle, At, Stages, CaptureHasTopic, SendStands, tiPane, tiBot, tiBounds
<1> QED
  BY <1>1, <1>2, <1>3, <1>4, <1>5, <1>6, <1>7 DEF InputInOrder

(* A send that gives up has typed nothing, so it may say so.               *)
LEMMA FailsKeeps ==
  ASSUME InputInOrder, Fails, UNCHANGED tiPane, job.pc \in {"check", "find", "probe", "text"}
  PROVE  InputInOrder'
<1>1. /\ job.m \in TiMessages /\ told[job.m] # "sent" /\ prompt = <<>>
      /\ inTopic' = inTopic /\ capture' = capture /\ mirrored' = mirrored
      /\ backend' = backend /\ prog' = prog /\ vim' = vim /\ vimSeen' = vimSeen /\ prompt' = prompt
      /\ taken' = taken /\ late' = late /\ echoes' = echoes
      /\ injected' = injected \ {job.m} /\ cards' \in {cards \cup {job.m}, cards}
      /\ job' = NoJob
  BY DEF InputInOrder, Fails, SendStands, PromptIsOurs, tiPane
<1>2. /\ told' \in [TiMessages -> {"new", "sent", "failed"}] /\ told'[job.m] = "failed"
      /\ \A m \in TiMessages : m # job.m => told'[m] = told[m]
  BY <1>1 DEF InputInOrder, InputTypes, Fails
<1>3. NotTaken(job.m) /\ \A i \in DOMAIN echoes : ~WholeOf(echoes[i], job.m)
  BY <1>1 DEF InputInOrder, Outcomes, EchoesKnown, At
<1>4. NoJob \in [pc : Stages, m : Named, kind : Kinds] /\ NoJob.pc = "idle"
  BY DEF NoJob, Stages, Named, Kinds
<1>5. InputTypes'
  BY <1>1, <1>2, <1>4 DEF InputInOrder, InputTypes
<1>6. PromptIsOurs' /\ VimReady' /\ SendStands' /\ CaptureHasTopic'
  BY <1>1, <1>4 DEF InputInOrder, PromptIsOurs, VimReady, SendStands, CaptureHasTopic
<1>7. Outcomes'
  <2> SUFFICES ASSUME NEW m \in TiMessages
               PROVE  /\ told'[m] = "sent" => TakenOnce(m)' /\ m \notin cards'
                      /\ told'[m] # "sent" => NotTaken(m)'
    BY DEF Outcomes
  <2>1. CASE m = job.m
    BY <1>1, <1>2, <1>3, <2>1, TakenKept
  <2>2. CASE m # job.m
    BY <1>1, <1>2, <2>2, TakenKept DEF InputInOrder, Outcomes, At
  <2> QED
    BY <2>1, <2>2
<1>8. EchoesKnown'
  <2> SUFFICES ASSUME NEW m \in TiMessages, NEW i \in DOMAIN echoes, WholeOf(echoes[i], m)
               PROVE  /\ m \in injected' /\ told'[m] = "sent"
                      /\ \A k \in DOMAIN echoes : WholeOf(echoes[k], m) => k = i
    BY <1>1 DEF EchoesKnown
  <2>1. m # job.m
    BY <1>3
  <2> QED
    BY <1>1, <1>2, <2>1 DEF InputInOrder, EchoesKnown, At
<1> QED
  BY <1>5, <1>6, <1>7, <1>8 DEF InputInOrder

(* The origin of the send is checked before anything is typed.             *)
LEMMA CheckKeeps ==
  ASSUME InputInOrder, CheckOrigin
  PROVE  InputInOrder'
<1>0. CASE prog = "shell"
  BY <1>0, FailsKeeps DEF CheckOrigin, At
<1> SUFFICES ASSUME prog # "shell"
             PROVE  InputInOrder'
  BY <1>0
<1>a. /\ job.pc = "check" /\ job' = [job EXCEPT !.pc = "find"] /\ injected' = injected \cup {job.m}
      /\ UNCHANGED <<mirrored, told, cards, inTopic, capture>> /\ UNCHANGED tiPane
      /\ job.m \in TiMessages /\ prog = "agent"
  BY DEF CheckOrigin, At, Goto, InputInOrder, SendStands, InputTypes
<1>1. InputTypes'
  BY <1>a DEF InputInOrder, InputTypes, tiPane, Stages
<1>2. PromptIsOurs'
  BY <1>a DEF InputInOrder, PromptIsOurs, InputTypes, tiPane
<1>3. VimReady'
  BY <1>a DEF InputInOrder, VimReady, InputTypes, tiPane
<1>4. SendStands'
  BY <1>a, TakenKept DEF InputInOrder, SendStands, InputTypes, tiPane
<1>5. Outcomes'
  BY <1>a, TakenKept DEF InputInOrder, Outcomes, InputTypes, tiPane, At
<1>6. EchoesKnown'
  BY <1>a, EchoesKept DEF InputInOrder, InputTypes, tiPane, At
<1>7. CaptureHasTopic'
  BY <1>a DEF InputInOrder, CaptureHasTopic
<1> QED
  BY <1>1, <1>2, <1>3, <1>4, <1>5, <1>6, <1>7 DEF InputInOrder

(* The window of the topic is found and the text registered.               *)
LEMMA FindKeeps ==
  ASSUME InputInOrder, FindWindow
  PROVE  InputInOrder'
<1>1. InputTypes'
  BY LinesOf DEF InputInOrder, FindWindow, Goto, At, Stages, InputTypes, tiPane, tiBot, tiBounds
<1>2. PromptIsOurs'
  BY DEF InputInOrder, FindWindow, Goto, At, Stages, PromptIsOurs, InputTypes, tiPane, tiBot, tiBounds
<1>3. VimReady'
  BY DEF InputInOrder, FindWindow, Goto, At, Stages, VimReady, InputTypes, tiPane, tiBot, tiBounds
<1>4. SendStands'
  BY TakenKept DEF InputInOrder, FindWindow, Goto, At, Stages, SendStands, InputTypes, tiPane, tiBot, tiBounds
<1>5. Outcomes'
  BY TakenKept DEF InputInOrder, FindWindow, Goto, At, Stages, Outcomes, SendStands, InputTypes, tiPane, tiBot, tiBounds
<1>6. EchoesKnown'
  BY EchoesKept DEF InputInOrder, FindWindow, Goto, At, Stages, SendStands, InputTypes, tiPane, tiBot, tiBounds
<1>7. CaptureHasTopic'
  BY DEF InputInOrder, FindWindow, Goto, At, Stages, CaptureHasTopic, SendStands, tiPane, tiBot, tiBounds
<1> QED
  BY <1>1, <1>2, <1>3, <1>4, <1>5, <1>6, <1>7 DEF InputInOrder

(* The window is gone before the first key: nothing was typed.             *)
LEMMA RefusedKeeps ==
  ASSUME InputInOrder, TiHazards = {}, SendRefused
  PROVE  InputInOrder'
  BY FailsKeeps DEF SendRefused

(* The editor is probed, and put into insert mode.                         *)
LEMMA ProbeKeeps ==
  ASSUME InputInOrder, TiHazards = {}, EnsureInsert
  PROVE  InputInOrder'
<1>0. prompt' = prompt /\ vim' \in {"off", "insert"}
  BY DEF InputInOrder, EnsureInsert, VimReady, InputTypes, tiPane
<1>1. InputTypes'
  BY <1>0 DEF InputInOrder, EnsureInsert, Goto, At, Stages, InputTypes, tiPane
<1>2. PromptIsOurs'
  BY <1>0 DEF InputInOrder, EnsureInsert, Goto, At, PromptIsOurs, InputTypes
<1>3. VimReady'
  BY DEF InputInOrder, EnsureInsert, Goto, At, Stages, VimReady, InputTypes, tiPane, tiBot, tiBounds
<1>4. SendStands'
  BY TakenKept DEF InputInOrder, EnsureInsert, Goto, At, Stages, SendStands, InputTypes, tiPane, tiBot, tiBounds
<1>5. Outcomes'
  BY TakenKept DEF InputInOrder, EnsureInsert, Goto, At, Stages, Outcomes, SendStands, InputTypes, tiPane, tiBot, tiBounds
<1>6. EchoesKnown'
  BY EchoesKept DEF InputInOrder, EnsureInsert, Goto, At, Stages, SendStands, InputTypes, tiPane, tiBot, tiBounds
<1>7. CaptureHasTopic'
  BY DEF InputInOrder, EnsureInsert, Goto, At, Stages, CaptureHasTopic, SendStands, tiPane, tiBot, tiBounds
<1> QED
  BY <1>1, <1>2, <1>3, <1>4, <1>5, <1>6, <1>7 DEF InputInOrder

(* The capture of a command's output ends.                                 *)
LEMMA CaptureEndsKeeps ==
  ASSUME InputInOrder, CaptureEnds
  PROVE  InputInOrder'
<1>1. InputTypes'
  BY LinesOf DEF InputInOrder, CaptureEnds, At, InputTypes, tiPane, tiBot, tiBounds
<1>2. PromptIsOurs'
  BY DEF InputInOrder, CaptureEnds, At, PromptIsOurs, InputTypes, tiPane, tiBot, tiBounds
<1>3. VimReady'
  BY DEF InputInOrder, CaptureEnds, At, VimReady, InputTypes, tiPane, tiBot, tiBounds
<1>4. SendStands'
  BY TakenKept DEF InputInOrder, CaptureEnds, At, SendStands, InputTypes, tiPane, tiBot, tiBounds
<1>5. Outcomes'
  BY TakenKept DEF InputInOrder, CaptureEnds, At, Outcomes, SendStands, InputTypes, tiPane, tiBot, tiBounds
<1>6. EchoesKnown'
  BY EchoesKept DEF InputInOrder, CaptureEnds, At, SendStands, InputTypes, tiPane, tiBot, tiBounds
<1>7. CaptureHasTopic'
  BY DEF InputInOrder, CaptureEnds, At, CaptureHasTopic, SendStands, tiPane, tiBot, tiBounds
<1> QED
  BY <1>1, <1>2, <1>3, <1>4, <1>5, <1>6, <1>7 DEF InputInOrder

(* The topic loses its window between two sends.                           *)
LEMMA UnbindKeeps ==
  ASSUME InputInOrder, TiHazards = {}, Unbind
  PROVE  InputInOrder'
<1>1. InputTypes'
  BY LinesOf DEF InputInOrder, Unbind, During, Idle, At, InputTypes, tiPane, tiBot, tiBounds
<1>2. PromptIsOurs'
  BY DEF InputInOrder, Unbind, During, Idle, At, PromptIsOurs, InputTypes, tiPane, tiBot, tiBounds
<1>3. VimReady'
  BY DEF InputInOrder, Unbind, During, Idle, At, VimReady, InputTypes, tiPane, tiBot, tiBounds
<1>4. SendStands'
  BY TakenKept DEF InputInOrder, Unbind, During, Idle, At, SendStands, InputTypes, tiPane, tiBot, tiBounds
<1>5. Outcomes'
  BY TakenKept DEF InputInOrder, Unbind, During, Idle, At, Outcomes, SendStands, InputTypes, tiPane, tiBot, tiBounds
<1>6. EchoesKnown'
  BY EchoesKept DEF InputInOrder, Unbind, During, Idle, At, SendStands, InputTypes, tiPane, tiBot, tiBounds
<1>7. CaptureHasTopic'
  BY DEF InputInOrder, Unbind, During, Idle, At, CaptureHasTopic, SendStands, tiPane, tiBot, tiBounds
<1> QED
  BY <1>1, <1>2, <1>3, <1>4, <1>5, <1>6, <1>7 DEF InputInOrder

(* The screen shows an editor in insert mode.                              *)
LEMMA SeeInsertKeeps ==
  ASSUME InputInOrder, SeeInsert
  PROVE  InputInOrder'
<1>1. InputTypes'
  BY LinesOf DEF InputInOrder, SeeInsert, At, InputTypes, tiPane, tiBot, tiBounds
<1>2. PromptIsOurs'
  BY DEF InputInOrder, SeeInsert, At, PromptIsOurs, InputTypes, tiPane, tiBot, tiBounds
<1>3. VimReady'
  BY DEF InputInOrder, SeeInsert, At, VimReady, InputTypes, tiPane, tiBot, tiBounds
<1>4. SendStands'
  BY TakenKept DEF InputInOrder, SeeInsert, At, SendStands, InputTypes, tiPane, tiBot, tiBounds
<1>5. Outcomes'
  BY TakenKept DEF InputInOrder, SeeInsert, At, Outcomes, SendStands, InputTypes, tiPane, tiBot, tiBounds
<1>6. EchoesKnown'
  BY EchoesKept DEF InputInOrder, SeeInsert, At, SendStands, InputTypes, tiPane, tiBot, tiBounds
<1>7. CaptureHasTopic'
  BY DEF InputInOrder, SeeInsert, At, CaptureHasTopic, SendStands, tiPane, tiBot, tiBounds
<1> QED
  BY <1>1, <1>2, <1>3, <1>4, <1>5, <1>6, <1>7 DEF InputInOrder

(* The agent starts or exits, or its editor changes mode, between two      *)
(* sends.                                                                  *)
LEMMA AgentMovesKeeps ==
  ASSUME InputInOrder, TiHazards = {}, AgentMoves
  PROVE  InputInOrder'
<1>1. InputTypes'
  BY LinesOf DEF InputInOrder, AgentMoves, During, Idle, At, InputTypes, tiPane, tiBot, tiBounds
<1>2. PromptIsOurs'
  BY DEF InputInOrder, AgentMoves, During, Idle, At, PromptIsOurs, InputTypes, tiPane, tiBot, tiBounds
<1>3. VimReady'
  <2>1. job' = job /\ backend' = backend /\ VimReady
    BY DEF InputInOrder, AgentMoves, tiBot
  <2>2. job.pc \in {"idle", "told"}
    BY DEF AgentMoves, During, Idle
  <2>3. CASE vim' = "off" /\ vimSeen' = (vimSeen /\ "leftVim" \in TiHazards)
    <3>1. ~vimSeen'
      BY <2>3
    <3> QED
      BY <2>1, <2>2, <2>3, <3>1 DEF VimReady
  <2>4. CASE /\ vimSeen' = vimSeen
             /\ \/ vim = "normal" /\ vim' = "insert"
                \/ vim = "off" /\ vim' = "insert"
                \/ vim = "insert" /\ vim' = "normal" /\ backend = "tmux" /\ vimSeen
    BY <2>1, <2>2, <2>4 DEF VimReady
  <2> QED
    BY <2>3, <2>4 DEF AgentMoves
<1>4. SendStands'
  BY TakenKept DEF InputInOrder, AgentMoves, During, Idle, At, SendStands, InputTypes, tiPane, tiBot, tiBounds
<1>5. Outcomes'
  BY TakenKept DEF InputInOrder, AgentMoves, During, Idle, At, Outcomes, SendStands, InputTypes, tiPane, tiBot, tiBounds
<1>6. EchoesKnown'
  BY EchoesKept DEF InputInOrder, AgentMoves, During, Idle, At, SendStands, InputTypes, tiPane, tiBot, tiBounds
<1>7. CaptureHasTopic'
  BY DEF InputInOrder, AgentMoves, During, Idle, At, CaptureHasTopic, SendStands, tiPane, tiBot, tiBounds
<1> QED
  BY <1>1, <1>2, <1>3, <1>4, <1>5, <1>6, <1>7 DEF InputInOrder

(* The user is told; a failed send is not taken for a sent one.            *)
LEMMA TellSentKeeps ==
  ASSUME InputInOrder, TellSent
  PROVE  InputInOrder'
<1>1. InputTypes'
  BY LinesOf DEF InputInOrder, TellSent, At, Stages, NoJob, Named, Kinds, InputTypes, tiPane, tiBot, tiBounds
<1>2. PromptIsOurs'
  BY DEF InputInOrder, TellSent, At, Stages, NoJob, Named, Kinds, PromptIsOurs, InputTypes, tiPane, tiBot, tiBounds
<1>3. VimReady'
  BY DEF InputInOrder, TellSent, At, Stages, NoJob, Named, Kinds, VimReady, InputTypes, tiPane, tiBot, tiBounds
<1>4. SendStands'
  BY TakenKept DEF InputInOrder, TellSent, At, Stages, NoJob, Named, Kinds, SendStands, InputTypes, tiPane, tiBot, tiBounds
<1>5. Outcomes'
  BY TakenKept DEF InputInOrder, TellSent, At, Stages, NoJob, Named, Kinds, Outcomes, SendStands, InputTypes, tiPane, tiBot, tiBounds
<1>6. EchoesKnown'
  BY EchoesKept DEF InputInOrder, TellSent, At, Stages, NoJob, Named, Kinds, SendStands, InputTypes, tiPane, tiBot, tiBounds
<1>7. CaptureHasTopic'
  BY DEF InputInOrder, TellSent, At, Stages, NoJob, Named, Kinds, CaptureHasTopic, SendStands, tiPane, tiBot, tiBounds
<1> QED
  BY <1>1, <1>2, <1>3, <1>4, <1>5, <1>6, <1>7 DEF InputInOrder

(* The first piece of the text is typed.                                   *)
LEMMA TypeTextKeeps ==
  ASSUME InputInOrder, TypeText
  PROVE  InputInOrder'
<1> DEFINE ps == IF backend = "tmux" THEN Pieces(job.m, job.kind) ELSE Pieces(job.m, "text")
<1>1. /\ job.pc = "text" /\ job.m \in TiMessages /\ prompt = <<>> /\ vim # "normal"
      /\ job \in [pc : Stages, m : Named, kind : Kinds]
  BY DEF InputInOrder, TypeText, At, SendStands, PromptIsOurs, VimReady, InputTypes
<1>2. \/ ps = <<<<job.m, "!">>, <<job.m, "rest">>>>
      \/ ps = <<<<job.m, "text">>>>
  BY DEF Pieces
<1>3. \/ prompt' = <<<<job.m, "!">>>> /\ job' = [job EXCEPT !.pc = "rest"]
      \/ prompt' = <<<<job.m, "text">>>> /\ job' = [job EXCEPT !.pc = "enter"]
  <2>1. prompt' = Append(prompt, Head(ps)) /\ job' = [job EXCEPT !.pc = IF Len(ps) > 1 THEN "rest" ELSE "enter"]
    BY <1>1 DEF TypeText, Typed, Goto
  <2> HIDE DEF ps
  <2>2. CASE ps = <<<<job.m, "!">>, <<job.m, "rest">>>>
    <3>1. Head(ps) = <<job.m, "!">> /\ Len(ps) > 1
      BY <2>2
    <3> QED
      BY <1>1, <2>1, <3>1
  <2>3. CASE ps = <<<<job.m, "text">>>>
    <3>1. Head(ps) = <<job.m, "text">> /\ ~(Len(ps) > 1)
      BY <2>3
    <3> QED
      BY <1>1, <2>1, <3>1
  <2> QED
    BY <1>2, <2>2, <2>3
<1>4. /\ job'.m = job.m /\ job'.kind = job.kind /\ job'.pc \in {"rest", "enter"}
      /\ job' \in [pc : Stages, m : Named, kind : Kinds]
      /\ job'.pc = "rest" => prompt' = <<<<job.m, "!">>>>
      /\ job'.pc = "enter" => prompt' = <<<<job.m, "text">>>>
  BY <1>1, <1>3 DEF Stages
<1>5. /\ UNCHANGED <<backend, prog, vim, vimSeen, taken, late, echoes>>
      /\ UNCHANGED <<injected, mirrored, told, cards, inTopic, capture>>
  BY DEF TypeText, Typed
<1>6. InputTypes'
  BY <1>1, <1>3, <1>4, <1>5, LinesOf DEF InputInOrder, InputTypes, Named
<1>7. PromptIsOurs'
  BY <1>4, WholeIs DEF PromptIsOurs
<1>8. VimReady' /\ SendStands'
  BY <1>1, <1>4, <1>5 DEF InputInOrder, VimReady, SendStands
<1>9. Outcomes' /\ EchoesKnown' /\ CaptureHasTopic'
  <2>1. EchoesKnown'
    BY <1>1, <1>4, <1>5, EchoesKept DEF InputInOrder, At
  <2> QED
    BY <1>1, <1>4, <1>5, <2>1, TakenKept DEF InputInOrder, Outcomes, At, CaptureHasTopic
<1> QED
  BY <1>6, <1>7, <1>8, <1>9 DEF InputInOrder

(* A line of one piece and a second.                                       *)
LEMMA Appended ==
  ASSUME NEW S, NEW a \in S, NEW b \in S
  PROVE  Append(<<a>>, b) = <<a, b>>
<1>1. <<a>> \in Seq(S) /\ <<a, b>> \in Seq(S) /\ Len(<<a>>) = 1
  OBVIOUS
<1> DEFINE s == Append(<<a>>, b)
<1>2. s \in Seq(S) /\ Len(s) = 2 /\ s[1] = a /\ s[2] = b
  BY <1>1
<1>3. Len(<<a, b>>) = 2 /\ \A i \in 1..Len(s) : s[i] = <<a, b>>[i]
  <2> HIDE DEF s
  <2>1. \A i \in 1..Len(s) : i = 1 \/ i = 2
    BY <1>2
  <2> QED
    BY <1>2, <2>1
<1> HIDE DEF s
<1>4. s = <<a, b>>
  BY <1>1, <1>2, <1>3, SeqEqual
<1> QED
  BY <1>4 DEF s

(* The rest of a bang command follows.                                     *)
LEMMA TypeRestKeeps ==
  ASSUME InputInOrder, TypeRest
  PROVE  InputInOrder'
<1>1. /\ job.pc = "rest" /\ job.m \in TiMessages /\ prompt = <<<<job.m, "!">>>> /\ vim # "normal"
      /\ job \in [pc : Stages, m : Named, kind : Kinds]
  BY DEF InputInOrder, TypeRest, At, SendStands, PromptIsOurs, VimReady, InputTypes
<1>2. prompt' = <<<<job.m, "!">>, <<job.m, "rest">>>>
  <2>1. prompt' = Append(prompt, <<job.m, "rest">>)
    BY <1>1 DEF TypeRest, Typed
  <2> QED
    <3>1. /\ <<job.m, "!">> \in Named \X {"text", "!", "rest", "i"}
          /\ <<job.m, "rest">> \in Named \X {"text", "!", "rest", "i"}
      BY <1>1 DEF Named
    <3> QED
      BY <1>1, <2>1, <3>1, Appended
<1>3. /\ job'.m = job.m /\ job'.kind = job.kind /\ job'.pc = "enter"
      /\ job' \in [pc : Stages, m : Named, kind : Kinds]
  BY <1>1 DEF TypeRest, Goto, Stages
<1>4. /\ UNCHANGED <<backend, prog, vim, vimSeen, taken, late, echoes>>
      /\ UNCHANGED <<injected, mirrored, told, cards, inTopic, capture>>
  BY DEF TypeRest, Typed
<1>5. InputTypes'
  BY <1>1, <1>2, <1>3, <1>4, LinesOf DEF InputInOrder, InputTypes, Named
<1>6. PromptIsOurs'
  BY <1>2, <1>3, WholeIs DEF PromptIsOurs
<1>7. VimReady' /\ SendStands'
  BY <1>1, <1>3, <1>4 DEF InputInOrder, VimReady, SendStands
<1>8. EchoesKnown'
  BY <1>1, <1>3, <1>4, EchoesKept DEF InputInOrder, At
<1>9. Outcomes' /\ CaptureHasTopic'
  BY <1>1, <1>3, <1>4, TakenKept DEF InputInOrder, Outcomes, At, CaptureHasTopic
<1> QED
  BY <1>5, <1>6, <1>7, <1>8, <1>9 DEF InputInOrder

(* Enter: the agent takes the line, and its transcript will show it *)
LEMMA PressEnterKeeps ==
  ASSUME InputInOrder, PressEnter
  PROVE  InputInOrder'
<1>1. /\ At("enter") /\ Submitted /\ Goto("told")
      /\ UNCHANGED <<injected, mirrored, told, cards, inTopic, capture>>
  BY DEF InputInOrder, InputTypes, PressEnter
<1>2. /\ job.pc = "enter" /\ job.m \in TiMessages /\ prog = "agent" /\ job.m \in injected
      /\ told[job.m] # "sent" /\ inTopic /\ job.m \notin cards
      /\ WholeOf(prompt, job.m) /\ prompt \in Lines /\ prompt # <<>>
      /\ job \in [pc : Stages, m : Named, kind : Kinds]
  BY <1>1, WholeCarries DEF InputInOrder, At, SendStands, PromptIsOurs, InputTypes
<1>3. /\ job'.m = job.m /\ job'.pc = "told" /\ job' \in [pc : Stages, m : Named, kind : Kinds]
  BY <1>1, <1>2 DEF Goto, Stages
<1>4. /\ prompt' = <<>> /\ taken' = Append(taken, <<"agent", prompt>>)
      /\ echoes' = Append(echoes, prompt) /\ UNCHANGED <<backend, prog, vimSeen, late>>
      /\ vim' = IF vim = "off" THEN "off" ELSE "insert"
  BY <1>1, <1>2 DEF Submitted
<1>5. NotTaken(job.m)
  BY <1>2 DEF InputInOrder, Outcomes, At
<1>6. /\ taken' \in Seq({"agent", "shell"} \X Lines) /\ TakenOnce(job.m)'
      /\ \A m \in TiMessages : m # job.m => /\ TakenOnce(m) => TakenOnce(m)'
                                            /\ NotTaken(m) => NotTaken(m)'
  <2>1. \A m \in TiMessages : m # job.m => ~Carries(prompt, m)
    BY <1>2, WholeCarries
  <2>2. /\ taken' \in Seq({"agent", "shell"} \X Lines)
        /\ \A m : ~Carries(prompt, m) => /\ TakenOnce(m) => TakenOnce(m)'
                                         /\ NotTaken(m) => NotTaken(m)'
        /\ \A m : WholeOf(prompt, m) /\ NotTaken(m) => TakenOnce(m)'
    <3>1. InputTypes /\ "agent" \in {"agent", "shell"} /\ prompt \in Lines
      BY <1>2 DEF InputInOrder
    <3> HIDE DEF Carries, WholeOf, TakenOnce, NotTaken, Lines
    <3> QED
      BY <3>1, <1>4, LineTaken
  <2> QED
    BY <1>2, <1>3, <1>5, <2>1, <2>2
<1>7. InputTypes'
  BY <1>1, <1>2, <1>3, <1>4, <1>6, LinesOf DEF InputInOrder, InputTypes
<1>8. PromptIsOurs' /\ VimReady' /\ SendStands' /\ CaptureHasTopic'
  BY <1>1, <1>2, <1>3, <1>4, <1>6
     DEF InputInOrder, PromptIsOurs, VimReady, SendStands, CaptureHasTopic, InputTypes
<1>9. Outcomes'
  <2> SUFFICES ASSUME NEW m \in TiMessages
               PROVE  /\ told[m] = "sent" => TakenOnce(m)' /\ m \notin cards
                      /\ told[m] # "sent" /\ job.m # m => NotTaken(m)'
    BY <1>1, <1>3 DEF Outcomes, At
  <2> QED
    BY <1>2, <1>6 DEF InputInOrder, Outcomes, At
<1>10. EchoesKnown'
  <2>1. /\ Len(echoes) \in Nat /\ DOMAIN echoes = 1..Len(echoes)
        /\ DOMAIN echoes' = 1..(Len(echoes) + 1) /\ echoes'[Len(echoes) + 1] = prompt
        /\ \A i \in DOMAIN echoes : echoes'[i] = echoes[i]
    BY <1>2, <1>4 DEF InputInOrder, InputTypes
  <2>2. \A i \in DOMAIN echoes : ~WholeOf(echoes[i], job.m)
    BY <1>2 DEF InputInOrder, EchoesKnown, At
  <2>3. \A m \in TiMessages : WholeOf(prompt, m) => m = job.m
    BY <1>2, WholeCarries
  <2> SUFFICES ASSUME NEW m \in TiMessages, NEW i \in DOMAIN echoes', WholeOf(echoes'[i], m)
               PROVE  /\ m \in injected /\ (told[m] = "sent" \/ job.m = m)
                      /\ \A j \in DOMAIN echoes' : WholeOf(echoes'[j], m) => j = i
    BY <1>1, <1>3 DEF EchoesKnown, At
  <2>4. CASE i = Len(echoes) + 1
    BY <1>2, <2>1, <2>2, <2>3, <2>4
  <2>5. CASE i \in DOMAIN echoes
    BY <1>2, <2>1, <2>2, <2>3, <2>5 DEF InputInOrder, EchoesKnown, At
  <2> QED
    BY <2>1, <2>4, <2>5
<1> QED
  BY <1>7, <1>8, <1>9, <1>10 DEF InputInOrder

(* The user types in the terminal itself; the line is no message.          *)
LEMMA KeyedLineKeeps ==
  ASSUME InputInOrder, TiHazards = {}, KeyedLine
  PROVE  InputInOrder'
<1> DEFINE line == <<<<NoMsg, "text">>>>
<1>1. /\ job.pc = "idle" /\ prompt = <<>> /\ line \in Lines
      /\ \A m \in TiMessages : ~Carries(line, m) /\ ~WholeOf(line, m)
  BY LinesOf, KeyedIsNoMessage DEF KeyedLine, During, Idle, InputInOrder, PromptIsOurs, Named
<1>2. /\ taken' = Append(taken, <<"agent", line>>) /\ prompt' = <<>>
      /\ UNCHANGED <<backend, prog, vim, vimSeen, late, job, injected, mirrored, told, cards, inTopic, capture>>
  BY DEF KeyedLine, tiBot
<1>3. echoes' = Append(echoes, line)
  <2>1. Append(prompt, <<NoMsg, "text">>) = line
    BY <1>1
  <2> QED
    BY <2>1 DEF KeyedLine
<1> HIDE DEF line
<1>4. /\ taken' \in Seq({"agent", "shell"} \X Lines)
      /\ \A m \in TiMessages : /\ TakenOnce(m) => TakenOnce(m)'
                               /\ NotTaken(m) => NotTaken(m)'
  BY <1>1, <1>2, LineTaken DEF InputInOrder
<1>5. /\ echoes' \in Seq(Lines)
      /\ DOMAIN echoes' = 1..(Len(echoes) + 1) /\ echoes'[Len(echoes) + 1] = line
      /\ DOMAIN echoes = 1..Len(echoes) /\ \A i \in DOMAIN echoes : echoes'[i] = echoes[i]
  BY <1>1, <1>3 DEF InputInOrder, InputTypes
<1>6. InputTypes' /\ PromptIsOurs' /\ VimReady' /\ CaptureHasTopic'
  BY <1>1, <1>2, <1>4, <1>5, LinesOf
     DEF InputInOrder, InputTypes, PromptIsOurs, VimReady, CaptureHasTopic
<1>7. SendStands' /\ Outcomes'
  BY <1>1, <1>2, <1>4 DEF InputInOrder, SendStands, Outcomes, At
<1>8. EchoesKnown'
  <2>1. \A i \in DOMAIN echoes', m \in TiMessages : WholeOf(echoes'[i], m) =>
          i \in DOMAIN echoes /\ WholeOf(echoes[i], m)
    BY <1>1, <1>5
  <2> QED
    BY <1>2, <2>1, <1>5 DEF InputInOrder, EchoesKnown, At
<1> QED
  BY <1>6, <1>7, <1>8 DEF InputInOrder

(* The monitor takes the bot's own line for what it is *)
LEMMA ReadEchoKeeps ==
  ASSUME InputInOrder, ReadEcho
  PROVE  InputInOrder'
<1> DEFINE own == {m \in TiMessages : WholeOf(Head(echoes), m)}
<1>1. /\ echoes # <<>> /\ echoes' = Tail(echoes) /\ injected' = injected \ own
      /\ mirrored' = IF inTopic THEN mirrored \cup (own \ injected) ELSE mirrored
      /\ UNCHANGED <<backend, prog, vim, vimSeen, prompt, taken, late, job, told, cards, inTopic, capture>>
  BY DEF ReadEcho
<1>2. /\ echoes \in Seq(Lines) /\ Len(echoes) \in Nat /\ 1 \in DOMAIN echoes /\ Head(echoes) = echoes[1]
      /\ echoes' \in Seq(Lines) /\ DOMAIN echoes = 1..Len(echoes) /\ DOMAIN echoes' = 1..(Len(echoes) - 1)
      /\ \A i \in DOMAIN echoes' : i + 1 \in DOMAIN echoes /\ echoes'[i] = echoes[i + 1]
  BY <1>1 DEF InputInOrder, InputTypes
<1>3. \A m \in own : /\ m \in injected /\ (told[m] = "sent" \/ (job.pc = "told" /\ job.m = m))
                     /\ \A i \in DOMAIN echoes' : ~WholeOf(echoes'[i], m)
  <2> SUFFICES ASSUME NEW m \in TiMessages, WholeOf(echoes[1], m)
               PROVE  /\ m \in injected /\ (told[m] = "sent" \/ (job.pc = "told" /\ job.m = m))
                      /\ \A i \in DOMAIN echoes' : ~WholeOf(echoes'[i], m)
    BY <1>2
  <2>1. /\ m \in injected /\ (told[m] = "sent" \/ (job.pc = "told" /\ job.m = m))
        /\ \A j \in DOMAIN echoes : WholeOf(echoes[j], m) => j = 1
    BY <1>2 DEF InputInOrder, EchoesKnown, At
  <2> QED
    BY <1>2, <2>1
<1> HIDE DEF own
<1>4. mirrored' = {} /\ injected' \subseteq TiMessages
  BY <1>1, <1>3 DEF InputInOrder, InputTypes
<1>5. InputTypes' /\ PromptIsOurs' /\ VimReady' /\ CaptureHasTopic'
  BY <1>1, <1>2, <1>4 DEF InputInOrder, InputTypes, PromptIsOurs, VimReady, CaptureHasTopic
<1>6. SendStands' /\ Outcomes'
  BY <1>1, <1>3, TakenKept DEF InputInOrder, SendStands, Outcomes, At
<1>7. EchoesKnown'
  <2> SUFFICES ASSUME NEW m \in TiMessages, NEW i \in DOMAIN echoes', WholeOf(echoes'[i], m)
               PROVE  /\ m \in injected' /\ (told[m] = "sent" \/ (job.pc = "told" /\ job.m = m))
                      /\ \A j \in DOMAIN echoes' : WholeOf(echoes'[j], m) => j = i
    BY <1>1 DEF EchoesKnown, At
  <2>1. m \notin own
    BY <1>3
  <2>2. /\ m \in injected /\ (told[m] = "sent" \/ (job.pc = "told" /\ job.m = m))
        /\ \A j \in DOMAIN echoes : WholeOf(echoes[j], m) => j = i + 1
    BY <1>2 DEF InputInOrder, EchoesKnown, At
  <2> QED
    BY <1>1, <1>2, <2>1, <2>2
<1> QED
  BY <1>5, <1>6, <1>7 DEF InputInOrder

(* The start.                                                              *)
LEMMA InputStarts == InputInit => InputInOrder
<1> SUFFICES ASSUME InputInit PROVE InputInOrder
  OBVIOUS
<1>1. InputTypes
  <2>1. NoJob \in [pc : Stages, m : Named, kind : Kinds]
    BY DEF NoJob, Stages, Named, Kinds
  <2>2. <<>> \in Seq(Lines) /\ <<>> \in Seq({"agent", "shell"} \X Lines)
    OBVIOUS
  <2>3. [m \in TiMessages |-> "new"] \in [TiMessages -> {"new", "sent", "failed"}]
    OBVIOUS
  <2> QED
    BY <2>1, <2>2, <2>3, LinesOf DEF InputInit, InputTypes
<1> QED
  BY <1>1 DEF InputInit, InputInOrder, PromptIsOurs, VimReady, SendStands, Outcomes, EchoesKnown,
              CaptureHasTopic, NoJob, At, NotTaken

(* Every step keeps the invariant.                                         *)
LEMMA InputStep ==
  ASSUME TiHazards = {}, InputInOrder, [InputNext]_tiVars
  PROVE  InputInOrder'
<1>1. CASE UNCHANGED tiVars
  <2>1. UNCHANGED <<backend, prog, vim, vimSeen, prompt, taken, late, echoes, job, injected, mirrored,
                    told, cards, inTopic, capture>>
    BY <1>1 DEF tiVars, tiPane, tiBot
  <2> QED
    BY <2>1, TakenKept DEF InputInOrder, InputTypes, PromptIsOurs, VimReady, SendStands, Outcomes,
                           EchoesKnown, CaptureHasTopic, At
<1> QED
  BY <1>1, TranscribeKeeps, ExpiresKeeps, ReceiveKeeps, CheckKeeps, FindKeeps, RefusedKeeps, ProbeKeeps,
     TypeTextKeeps, TypeRestKeeps, PressEnterKeeps, TellSentKeeps, KeyedLineKeeps, AgentMovesKeeps,
     SeeInsertKeeps, ReadEchoKeeps, CaptureEndsKeeps, UnbindKeeps DEF InputNext

(* What the invariant is for.                                              *)
LEMMA InputImplies == InputInOrder => InputInv /\ EchoSuppressed
<1> SUFFICES ASSUME InputInOrder PROVE InputInv /\ EchoSuppressed
  OBVIOUS
<1>1. InputTypeOK /\ EchoSuppressed /\ CaptureHasTopic
  BY DEF InputInOrder, InputTypes, InputTypeOK, EchoSuppressed, Named
<1>2. DeliveredAsTold
  <2> SUFFICES ASSUME NEW m \in TiMessages,
                      NEW with, with = {i \in DOMAIN taken : Carries(taken[i][2], m)}
               PROVE  /\ told[m] = "sent" =>
                           /\ Cardinality(with) = 1
                           /\ \A i \in with : taken[i][1] = "agent" /\ WholeOf(taken[i][2], m)
                      /\ told[m] = "failed" /\ job.m # m => with = {}
    BY DEF DeliveredAsTold, Carries
  <2>1. ASSUME told[m] = "sent"
        PROVE  /\ Cardinality(with) = 1
               /\ \A i \in with : taken[i][1] = "agent" /\ WholeOf(taken[i][2], m)
    <3>1. PICK i \in DOMAIN taken :
            /\ taken[i][1] = "agent" /\ WholeOf(taken[i][2], m)
            /\ \A j \in DOMAIN taken : Carries(taken[j][2], m) => j = i
      BY <2>1 DEF InputInOrder, Outcomes, TakenOnce
    <3>2. with = {i}
      BY <3>1, WholeCarries
    <3> QED
      BY <3>1, <3>2, FS_Singleton
  <2>2. told[m] = "failed" /\ job.m # m => with = {}
    BY DEF InputInOrder, Outcomes, NotTaken
  <2> QED
    BY <2>1, <2>2
<1> QED
  BY <1>1, <1>2 DEF InputInv

(* With no hazard of TiHazards, the send in progress, the prompt line,     *)
(* what was taken and what the user was told agree in every reachable      *)
(* state (text_handler.py, window_ops.py, tmux.py).                        *)
THEOREM InputAlways == ASSUME TiHazards = {} PROVE InputSpec => []InputInOrder
<1>1. InputInOrder /\ [InputNext]_tiVars => InputInOrder'
  BY InputStep
<1> QED
  BY <1>1, InputStarts, PTL DEF InputSpec

(* With no hazard of TiHazards, for every number of messages and keys: a   *)
(* message reported as sent was taken once and whole by the agent, of one  *)
(* reported as failed nothing was taken, and no capture outlives the       *)
(* binding of its topic (text_handler.py, window_ops.py).                  *)
THEOREM InputKept == ASSUME TiHazards = {} PROVE InputSpec => []InputInv
<1> QED
  BY InputAlways, InputImplies, PTL

(* With no hazard of TiHazards, a message that was sent is never mirrored  *)
(* back to its topic as if it had been typed at the keyboard               *)
(* (monitor_events.py).                                                    *)
THEOREM EchoesStaySuppressed == ASSUME TiHazards = {} PROVE InputSpec => []EchoSuppressed
<1> QED
  BY InputAlways, InputImplies, PTL

----------------------------------------------------------------------------
(* The wizard that gives a topic its window.                               *)

(* The screens of a keyboard, and the types of the state.                  *)
Screens == {"picker", "browser", "worktree", "confirm", "naming", "spaces",
            "provider", "mode", "recovery", "none"}
Keyboards == [topic : WzTopics, screen : Screens, path : Places, space : BOOLEAN]
Drafts == [state : {"none", "picking", "browsing"}, topic : WzTopics \union {NoTopic},
           text : 0..MaxTexts, path : Places, listed : BOOLEAN, repo : BOOLEAN,
           branch : 0..MaxBranches, creating : BOOLEAN, naming : BOOLEAN,
           space : BOOLEAN, recovering : WzTopics \union {NoTopic}]

WizardTypes ==
  /\ draft \in Drafts /\ wizards \in Seq(Keyboards) /\ Len(wizards) <= MaxCards
  /\ typings \in Seq(WzTopics) /\ Len(typings) <= MaxTexts /\ branches \subseteq Branches
  /\ attached \in [WzTopics -> {"free", "live", "dead"}]

(* The keyboard that the flow in user_data is about: the last of its topic *)
Newest(i) ==
  /\ i \in DOMAIN wizards /\ wizards[i].topic = draft.topic
  /\ \A j \in DOMAIN wizards : j > i => wizards[j].topic # draft.topic

(* Nothing is left of a worktree *)
Plain(d) == ~d.repo /\ d.branch = 0 /\ ~d.creating /\ ~d.naming

(* A keyboard k shows what user_data d holds, for a topic bound to a       *)
Forks == {"worktree", "confirm", "naming"}
LastScreens == {"spaces", "provider", "mode"}
Suits(k, d, a) ==
  /\ a # "live"
  /\ d.naming => k.screen = "naming"
  /\ k.screen \notin Forks \cup LastScreens => Plain(d)
  /\ k.screen \in {"picker", "browser"} \cup Forks \cup LastScreens => a = "free"
  /\ k.screen \in {"browser"} \cup Forks \cup LastScreens => d.state = "browsing" /\ d.path # NoPlace
  /\ k.screen \in {"picker", "browser", "spaces"} \cup Forks => ~d.space
  /\ k.screen \in Forks => d.repo /\ ~d.creating
  /\ k.screen \in {"confirm"} => d.branch # 0
  /\ k.screen \in {"spaces"} /\ NativeWorktrees => d.branch = 0
  /\ k.screen \in {"provider", "mode"} =>
       /\ k.path = d.path /\ k.space = d.space
       /\ NativeWorktrees => d.branch = 0 \/ d.path = Place("repo", d.branch)
(* A pending flow has its keyboard: the newest of the topic, which shows   *)
(* what user_data holds.                                                   *)
FlowShown ==
  \/ draft.topic = NoTopic /\ Plain(draft)
  \/ draft.topic # NoTopic /\
     \E i \in DOMAIN wizards : Newest(i) /\ Suits(wizards[i], draft, attached[draft.topic])

(* What is typed belongs to the pending topic *)
OwnText ==
  draft.text # 0 => draft.text \in 1..Len(typings) /\ typings[draft.text] = draft.topic

(* Only a provider or mode screen was reached through a workspace or shows *)
(* the directory of a launch; the keyboards that launch nothing show none  *)
KeyboardsShow ==
  \A i \in DOMAIN wizards :
    /\ wizards[i].screen \in {"picker", "recovery"} => wizards[i].path = NoPlace
    /\ wizards[i].space => wizards[i].screen \in {"provider", "mode", "none"}

(* The inductive invariant of TopicWizard.                                 *)
WizardInOrder ==
  /\ WizardTypes /\ FlowShown /\ OwnText /\ KeyboardsShow
  /\ LaunchedAsShown /\ TextKeptInTopic
(* What every step keeps, whatever it gives a window to *)
WizardCore == WizardTypes /\ FlowShown /\ OwnText /\ KeyboardsShow

----------------------------------------------------------------------------
(* Keyboards redrawn and posted.                                            *)

(* One keyboard is redrawn; one is posted.                                 *)
Changed(i, k) ==
  /\ wizards' \in Seq(Keyboards) /\ Len(wizards') = Len(wizards)
  /\ DOMAIN wizards' = DOMAIN wizards /\ wizards'[i] = k
  /\ \A j \in DOMAIN wizards : j # i => wizards'[j] = wizards[j]
Added(k) ==
  /\ wizards' \in Seq(Keyboards) /\ Len(wizards') <= MaxCards
  /\ DOMAIN wizards' = 1..(Len(wizards) + 1) /\ DOMAIN wizards = 1..Len(wizards)
  /\ wizards'[Len(wizards) + 1] = k
  /\ \A j \in DOMAIN wizards : wizards'[j] = wizards[j]
Keyboard(t, s, p, b) == [topic |-> t, screen |-> s, path |-> p, space |-> b]

(* The bounds are numbers.                                                 *)
LEMMA Bounds == MaxCards \in Nat /\ MaxTexts \in Nat /\ MaxBranches \in Nat /\ NoTopic \notin WzTopics
  BY WizardAssumption

(* A sequence changed at one place.                                        *)
LEMMA ChangesOne ==
  ASSUME wizards \in Seq(Keyboards), NEW i \in DOMAIN wizards, NEW k \in Keyboards,
         wizards' = [wizards EXCEPT ![i] = k]
  PROVE  Changed(i, k)
<1>1. i \in 1..Len(wizards) /\ DOMAIN wizards = 1..Len(wizards)
  OBVIOUS
<1>2. /\ wizards' \in Seq(Keyboards) /\ Len(wizards') = Len(wizards)
      /\ \A j \in 1..Len(wizards) : wizards'[j] = IF j = i THEN k ELSE wizards[j]
  BY <1>1, ExceptSeq
<1>3. DOMAIN wizards' = 1..Len(wizards)
  BY <1>2
<1> QED
  BY <1>1, <1>2, <1>3 DEF Changed

(* A keyboard with another screen, path or workspace.                      *)
LEMMA ScreenSet ==
  ASSUME NEW k \in Keyboards, NEW s \in Screens
  PROVE  LET r == [k EXCEPT !.screen = s] IN
         r \in Keyboards /\ r.topic = k.topic /\ r.screen = s /\ r.path = k.path /\ r.space = k.space
  BY DEF Keyboards
LEMMA PathSet ==
  ASSUME NEW k \in Keyboards, NEW p \in Places
  PROVE  LET r == [k EXCEPT !.path = p] IN
         /\ r \in Keyboards /\ r.topic = k.topic /\ r.screen = k.screen /\ r.path = p /\ r.space = k.space
         /\ r = Keyboard(k.topic, k.screen, p, k.space)
  BY DEF Keyboards, Keyboard
LEMMA SpaceSet ==
  ASSUME NEW k \in Keyboards, NEW b \in BOOLEAN
  PROVE  [k EXCEPT !.space = b] = Keyboard(k.topic, k.screen, k.path, b)
  BY DEF Keyboards, Keyboard

(* An edit of a message redraws its keyboard.                              *)
LEMMA Redraws ==
  ASSUME wizards \in Seq(Keyboards), NEW i \in DOMAIN wizards, NEW s \in Screens, NEW p \in Places,
         Redraw(i, s, p)
  PROVE  Changed(i, Keyboard(wizards[i].topic, s, p, wizards[i].space))
<1>1. wizards[i] \in Keyboards /\ i \in 1..Len(wizards)
  OBVIOUS
<1>2. wizards' = [wizards EXCEPT ![i] = Keyboard(wizards[i].topic, s, p, wizards[i].space)]
  <2>1. [[wizards[i] EXCEPT !.screen = s] EXCEPT !.path = p]
          = Keyboard(wizards[i].topic, s, p, wizards[i].space)
    <3> DEFINE a == [wizards[i] EXCEPT !.screen = s]
    <3>1. a \in Keyboards /\ a.topic = wizards[i].topic /\ a.screen = s /\ a.space = wizards[i].space
      BY <1>1, ScreenSet
    <3> HIDE DEF a
    <3>2. [a EXCEPT !.path = p] = Keyboard(wizards[i].topic, s, p, wizards[i].space)
      BY <3>1, PathSet
    <3> QED
      BY <3>2 DEF a
  <2>2. wizards' = [wizards EXCEPT ![i] = [[wizards[i] EXCEPT !.screen = s] EXCEPT !.path = p]]
    BY <1>1 DEF Redraw
  <2> QED
    BY <2>1, <2>2
<1>3. Keyboard(wizards[i].topic, s, p, wizards[i].space) \in Keyboards
  BY <1>1 DEF Keyboard, Keyboards
<1> QED
  BY <1>2, <1>3, ChangesOne

(* The provider picker after the workspace picker.                         *)
LEMMA ShowsSpace ==
  ASSUME wizards \in Seq(Keyboards), NEW i \in DOMAIN wizards, NEW p \in Places,
         NEW b \in BOOLEAN, ShowSpace(i, p, b)
  PROVE  Changed(i, Keyboard(wizards[i].topic, "provider", p, b))
<1>1. wizards[i] \in Keyboards /\ i \in 1..Len(wizards)
  OBVIOUS
<1>2. wizards' = [wizards EXCEPT ![i] = Keyboard(wizards[i].topic, "provider", p, b)]
  <2>1. [[[wizards[i] EXCEPT !.screen = "provider"] EXCEPT !.path = p] EXCEPT !.space = b]
          = Keyboard(wizards[i].topic, "provider", p, b)
    <3> DEFINE a == [wizards[i] EXCEPT !.screen = "provider"]
               c == [a EXCEPT !.path = p]
    <3>1. a \in Keyboards /\ a.topic = wizards[i].topic /\ a.screen = "provider"
      BY <1>1, ScreenSet DEF Screens
    <3> HIDE DEF a
    <3>2. c \in Keyboards /\ c.topic = wizards[i].topic /\ c.screen = "provider" /\ c.path = p
      BY <3>1, PathSet
    <3> HIDE DEF c
    <3>3. [c EXCEPT !.space = b] = Keyboard(wizards[i].topic, "provider", p, b)
      BY <3>2, SpaceSet
    <3> QED
      BY <3>3 DEF a, c
  <2>2. wizards' = [wizards EXCEPT ![i] =
          [[[wizards[i] EXCEPT !.screen = "provider"] EXCEPT !.path = p] EXCEPT !.space = b]]
    BY <1>1 DEF ShowSpace
  <2> QED
    BY <2>1, <2>2
<1>3. Keyboard(wizards[i].topic, "provider", p, b) \in Keyboards
  BY <1>1 DEF Keyboard, Keyboards, Screens
<1> QED
  BY <1>2, <1>3, ChangesOne

(* A new message is the newest keyboard.                                   *)
LEMMA Posts ==
  ASSUME wizards \in Seq(Keyboards), NEW t \in WzTopics, NEW s \in Screens, NEW p \in Places,
         Post(t, s, p)
  PROVE  Added(Keyboard(t, s, p, FALSE))
<1>1. Keyboard(t, s, p, FALSE) \in Keyboards
  BY DEF Keyboard, Keyboards
<1>2. wizards' = Append(wizards, Keyboard(t, s, p, FALSE)) /\ Len(wizards) < MaxCards
  BY DEF Post, Keyboard
<1> DEFINE k == Keyboard(t, s, p, FALSE)
<1> HIDE DEF k
<1>3. wizards' = Append(wizards, k) /\ k \in Keyboards
  BY <1>1, <1>2 DEF k
<1>4. /\ wizards' \in Seq(Keyboards) /\ Len(wizards') = Len(wizards) + 1
      /\ wizards'[Len(wizards) + 1] = k /\ Len(wizards) \in Nat
      /\ \A j \in 1..Len(wizards) : wizards'[j] = wizards[j]
  BY <1>3, AppendProperties
<1>5. DOMAIN wizards' = 1..(Len(wizards) + 1) /\ DOMAIN wizards = 1..Len(wizards)
  BY <1>4
<1>6. Len(wizards') <= MaxCards
  BY <1>2, <1>4, Bounds
<1>7. \A j \in DOMAIN wizards : wizards'[j] = wizards[j]
  BY <1>4, <1>5
<1>8. Added(k)
  BY <1>4, <1>5, <1>6, <1>7 DEF Added
<1> QED
  BY <1>8 DEF k

(* The places the browser can reach.                                       *)
LEMMA PlacesOf ==
  /\ NoPlace \in Places
  /\ \A dir \in {"cwd", "repo"} : Place(dir, 0) \in Places /\ Place(dir, 0) # NoPlace
  /\ \A b \in 0..MaxBranches : Place("repo", b) \in Places /\ Place("repo", b) # NoPlace
  BY WizardAssumption DEF NoPlace, Place, Places

(* What a keyboard shows by itself *)
Fits(k) ==
  /\ k.screen \in {"picker", "recovery"} => k.path = NoPlace
  /\ k.space => k.screen \in {"provider", "mode", "none"}

(* A keyboard that shows what it may, redrawn or posted.                   *)
LEMMA ShownByChange ==
  ASSUME KeyboardsShow, NEW i \in DOMAIN wizards, NEW k, Changed(i, k), Fits(k)
  PROVE  KeyboardsShow'
  BY DEF KeyboardsShow, Changed, Fits
LEMMA ShownByPost ==
  ASSUME KeyboardsShow, wizards \in Seq(Keyboards), NEW k, Added(k), Fits(k)
  PROVE  KeyboardsShow'
<1> SUFFICES ASSUME NEW i \in DOMAIN wizards'
             PROVE  Fits(wizards'[i])
  BY DEF KeyboardsShow, Fits
<1>1. i \in DOMAIN wizards \/ i = Len(wizards) + 1
  BY DEF Added
<1> QED
  BY <1>1 DEF Added, KeyboardsShow, Fits

----------------------------------------------------------------------------
(* The flow and its keyboard.                                               *)

(* There is one newest keyboard.                                           *)
LEMMA NewestIsOne ==
  ASSUME wizards \in Seq(Keyboards), NEW i, NEW j, Newest(i), Newest(j)
  PROVE  i = j
<1>1. i \in Nat /\ j \in Nat /\ i \in DOMAIN wizards /\ j \in DOMAIN wizards
  BY DEF Newest
<1> QED
  BY <1>1 DEF Newest

(* A tap on a keyboard of the pending topic is on the newest one: the      *)
(* older ones were closed, or name another topic.                          *)
LEMMA TappedIsNewest ==
  ASSUME WzHazards = {}, WizardTypes, FlowShown, NEW i, NEW s, Tapped(i, s),
         draft.topic = wizards[i].topic
  PROVE  /\ Newest(i) /\ Suits(wizards[i], draft, attached[draft.topic])
         /\ draft.topic \in WzTopics /\ draft.topic # NoTopic
<1>1. i \in DOMAIN wizards /\ DOMAIN wizards = 1..Len(wizards)
  BY DEF Tapped, WizardTypes
<1>2. wizards[i] \in Keyboards
  BY <1>1 DEF WizardTypes
<1>3. draft.topic \in WzTopics /\ draft.topic # NoTopic
  BY <1>2, WizardAssumption DEF Keyboards
<1>4. Newest(i)
  BY <1>1 DEF Tapped, Newest
<1>5. PICK j \in DOMAIN wizards : Newest(j) /\ Suits(wizards[j], draft, attached[draft.topic])
  BY <1>3 DEF FlowShown
<1> QED
  BY <1>3, <1>4, <1>5, NewestIsOne DEF WizardTypes

(* A flow that has ended needs no keyboard.                                *)
Ended(d) == d \in Drafts /\ d.topic = NoTopic /\ d.text = 0 /\ Plain(d)
LEMMA FlowEnds ==
  ASSUME Ended(draft')
  PROVE  draft' \in Drafts /\ FlowShown' /\ OwnText'
  BY DEF Ended, FlowShown, OwnText, Plain

(* The keyboard of the flow is redrawn with what user_data then holds.     *)
LEMMA FlowRedrawn ==
  ASSUME WizardTypes, NEW i, Newest(i), NEW k, Changed(i, k), k.topic = wizards[i].topic,
         draft'.topic = draft.topic, mux' = mux, Suits(k, draft', attached'[draft.topic])
  PROVE  FlowShown'
<1>1. i \in DOMAIN wizards' /\ wizards'[i] = k /\ Newest(i)'
  BY DEF Newest, Changed
<1>2. draft.topic # NoTopic
  <2>1. wizards[i] \in Keyboards
    BY DEF Newest, WizardTypes
  <2> QED
    BY <2>1, WizardAssumption DEF Newest, Keyboards
<1>3. Suits(wizards[i], draft, attached[draft.topic])'
  BY <1>1 DEF Suits, NativeWorktrees
<1> QED
  BY <1>1, <1>2, <1>3 DEF FlowShown

(* A keyboard is posted for a new flow.                                    *)
LEMMA FlowOpened ==
  ASSUME WizardTypes, NEW k, Added(k), k.topic = draft'.topic, k.topic # NoTopic, mux' = mux,
         Suits(k, draft', attached'[draft'.topic])
  PROVE  FlowShown'
<1> SUFFICES ASSUME NEW i, i = Len(wizards) + 1
             PROVE  FlowShown'
  OBVIOUS
<1>1. i \in DOMAIN wizards' /\ wizards'[i] = k /\ \A j \in DOMAIN wizards' : ~(j > i)
  BY DEF Added, WizardTypes
<1>2. Newest(i)'
  BY <1>1 DEF Newest
<1>3. Suits(wizards[i], draft, attached[draft.topic])'
  BY <1>1 DEF Suits, NativeWorktrees
<1> QED
  BY <1>1, <1>2, <1>3 DEF FlowShown

(* What happens to keyboards of other topics leaves the flow alone.        *)
LEMMA FlowKept ==
  ASSUME WizardTypes, FlowShown, draft' = draft, mux' = mux,
         draft.topic # NoTopic => attached'[draft.topic] = attached[draft.topic],
         \/ wizards' = wizards
         \/ \E k : Added(k) /\ k.topic # draft.topic
         \/ \E i \in DOMAIN wizards : \E k :
               Changed(i, k) /\ k.topic = wizards[i].topic /\ k.topic # draft.topic
  PROVE  FlowShown'
<1>1. CASE draft.topic = NoTopic
  BY <1>1 DEF FlowShown, Plain
<1>2. CASE draft.topic # NoTopic
  <2>1. PICK i \in DOMAIN wizards : Newest(i) /\ Suits(wizards[i], draft, attached[draft.topic])
    BY <1>2 DEF FlowShown
  <2>2. i \in DOMAIN wizards' /\ wizards'[i] = wizards[i] /\ Newest(i)'
    <3>1. CASE wizards' = wizards
      BY <2>1, <3>1 DEF Newest
    <3>2. ASSUME NEW k, Added(k), k.topic # draft.topic
          PROVE  i \in DOMAIN wizards' /\ wizards'[i] = wizards[i] /\ Newest(i)'
      <4>1. \A j \in DOMAIN wizards' : j \in DOMAIN wizards \/ j = Len(wizards) + 1
        BY <3>2 DEF Added
      <4> QED
        BY <2>1, <3>2, <4>1 DEF Newest, Added
    <3>3. ASSUME NEW m \in DOMAIN wizards, NEW k, Changed(m, k), k.topic = wizards[m].topic,
                 k.topic # draft.topic
          PROVE  i \in DOMAIN wizards' /\ wizards'[i] = wizards[i] /\ Newest(i)'
      <4>1. i # m
        BY <2>1, <3>3 DEF Newest
      <4> QED
        BY <2>1, <3>3, <4>1 DEF Newest, Changed
    <3> QED
      BY <3>1, <3>2, <3>3
  <2>3. Suits(wizards[i], draft, attached[draft.topic])'
    BY <1>2, <2>1, <2>2 DEF Suits, NativeWorktrees
  <2> QED
    BY <1>2, <2>2, <2>3 DEF FlowShown
<1> QED
  BY <1>1, <1>2

(* Nothing typed, no branch.                                               *)
LEMMA Zeroes == 0 \in 0..MaxTexts /\ 0 \in 0..MaxBranches
  BY Bounds

(* What clear_worktree_state leaves (worktree_flow.py).                    *)
LEMMA ClearsWorktree ==
  ASSUME NEW d \in Drafts
  PROVE  /\ ClearWorktree(d) \in Drafts /\ Plain(ClearWorktree(d))
         /\ ClearWorktree(d).topic = d.topic /\ ClearWorktree(d).text = d.text
         /\ ClearWorktree(d).space = d.space /\ ClearWorktree(d).path = d.path
         /\ ClearWorktree(d).state = d.state
<1> DEFINE a == [d EXCEPT !.repo = FALSE]
           b == [a EXCEPT !.branch = 0]
           c == [b EXCEPT !.creating = FALSE]
           e == [c EXCEPT !.naming = FALSE]
<1>1. a \in Drafts /\ ~a.repo /\ a.topic = d.topic /\ a.text = d.text /\ a.space = d.space
      /\ a.path = d.path /\ a.state = d.state
  BY DEF Drafts
<1> HIDE DEF a
<1>2. b \in Drafts /\ ~b.repo /\ b.branch = 0 /\ b.topic = d.topic /\ b.text = d.text /\ b.space = d.space
      /\ b.path = d.path /\ b.state = d.state
  BY <1>1, Zeroes DEF Drafts
<1> HIDE DEF b
<1>3. c \in Drafts /\ ~c.repo /\ c.branch = 0 /\ ~c.creating /\ c.topic = d.topic /\ c.text = d.text
      /\ c.space = d.space /\ c.path = d.path /\ c.state = d.state
  BY <1>2 DEF Drafts
<1> HIDE DEF c
<1>4. e \in Drafts /\ ~e.repo /\ e.branch = 0 /\ ~e.creating /\ ~e.naming /\ e.topic = d.topic
      /\ e.text = d.text /\ e.space = d.space /\ e.path = d.path /\ e.state = d.state
  BY <1>3 DEF Drafts
<1> HIDE DEF e
<1>5. ClearWorktree(d) = e
  BY DEF ClearWorktree, a, b, c, e
<1> QED
  BY <1>4, <1>5 DEF Plain

(* What the other clear functions leave (topic_creation.py).               *)
LEMMA ClearsOne ==
  ASSUME NEW d \in Drafts
  PROVE  /\ ClearBrowse(d) \in Drafts /\ (Plain(d) => Plain(ClearBrowse(d)))
         /\ ClearBrowse(d).topic = d.topic /\ ClearBrowse(d).text = d.text /\ ClearBrowse(d).space = d.space
         /\ ClearBrowse(d).repo = d.repo /\ ClearBrowse(d).branch = d.branch
         /\ ClearPicker(d) \in Drafts /\ (Plain(d) => Plain(ClearPicker(d)))
         /\ ClearPicker(d).topic = d.topic /\ ClearPicker(d).text = d.text /\ ClearPicker(d).space = d.space
         /\ ClearWorkspace(d) \in Drafts /\ (Plain(d) => Plain(ClearWorkspace(d)))
         /\ ClearWorkspace(d).topic = d.topic /\ ClearWorkspace(d).text = d.text
<1>1. /\ ClearBrowse(d) \in Drafts /\ (Plain(d) => Plain(ClearBrowse(d)))
      /\ ClearBrowse(d).topic = d.topic /\ ClearBrowse(d).text = d.text /\ ClearBrowse(d).space = d.space
      /\ ClearBrowse(d).repo = d.repo /\ ClearBrowse(d).branch = d.branch
  BY PlacesOf DEF ClearBrowse, Drafts, Plain
<1>2. /\ ClearPicker(d) \in Drafts /\ (Plain(d) => Plain(ClearPicker(d)))
      /\ ClearPicker(d).topic = d.topic /\ ClearPicker(d).text = d.text /\ ClearPicker(d).space = d.space
  BY DEF ClearPicker, Drafts, Plain
<1>3. /\ ClearWorkspace(d) \in Drafts /\ (Plain(d) => Plain(ClearWorkspace(d)))
      /\ ClearWorkspace(d).topic = d.topic /\ ClearWorkspace(d).text = d.text
  BY DEF ClearWorkspace, Drafts, Plain
<1> QED
  BY <1>1, <1>2, <1>3

(* Clearing the pending topic ends the flow.                               *)
LEMMA ClearsPending ==
  ASSUME NEW d \in Drafts, Plain(d)
  PROVE  Ended(ClearPending(d)) /\ Ended(ClearRecovery(d)) /\ ClearPending(d).space = d.space
<1>1. Ended(ClearPending(d)) /\ ClearPending(d).space = d.space
  BY Zeroes DEF ClearPending, Drafts, Plain, Ended
<1>2. ASSUME NEW e \in Drafts, Ended(e) PROVE Ended([e EXCEPT !.recovering = NoTopic])
  BY <1>2 DEF Ended, Drafts, Plain
<1> QED
  BY <1>1, <1>2 DEF ClearRecovery, Ended

(* Every way the handlers clear user_data ends the flow.                   *)
LEMMA FlowsEnd ==
  ASSUME NEW d \in Drafts
  PROVE  /\ Ended(ClearPending(ClearWorktree(d)))
         /\ Ended(ClearPending(ClearWorktree(ClearBrowse(d))))
         /\ Ended(ClearPending(ClearWorkspace(ClearWorktree(d))))
         /\ Ended(ClearPending(ClearWorkspace(ClearWorktree(ClearBrowse(d)))))
         /\ Ended(ClearPending(ClearWorkspace(ClearWorktree(ClearPicker(ClearBrowse(d))))))
         /\ Plain(d) => Ended(ClearPending(ClearPicker(d))) /\ Ended(ClearRecovery(d))
<1>1. /\ ClearBrowse(d) \in Drafts /\ ClearPicker(ClearBrowse(d)) \in Drafts /\ ClearPicker(d) \in Drafts
      /\ Plain(d) => Plain(ClearPicker(d))
  BY ClearsOne
<1>2. ASSUME NEW e \in Drafts
      PROVE  /\ Ended(ClearPending(ClearWorktree(e))) /\ Ended(ClearPending(ClearWorkspace(ClearWorktree(e))))
  <2>1. ClearWorktree(e) \in Drafts /\ Plain(ClearWorktree(e))
    BY <1>2, ClearsWorktree
  <2>2. ClearWorkspace(ClearWorktree(e)) \in Drafts /\ Plain(ClearWorkspace(ClearWorktree(e)))
    BY <2>1, ClearsOne
  <2> QED
    BY <2>1, <2>2, ClearsPending
<1> QED
  BY <1>1, <1>2, ClearsPending

----------------------------------------------------------------------------
(* What a handler may do to the flow: move it on, end it, open another, or  *)
(* leave it alone.                                                          *)

(* The flow goes on to another screen of its keyboard.                     *)
LEMMA FlowMoves ==
  ASSUME WizardCore, NEW i, Newest(i), NEW k, Changed(i, k), k.topic = wizards[i].topic, Fits(k),
         mux' = mux, typings' = typings, branches' \subseteq Branches, attached' = attached,
         draft' \in Drafts, draft'.topic = draft.topic, draft'.text = draft.text,
         Suits(k, draft', attached[draft.topic])
  PROVE  WizardCore'
<1>1. WizardTypes'
  BY DEF WizardCore, WizardTypes, Changed
<1>2. FlowShown'
  BY FlowRedrawn DEF WizardCore
<1>3. OwnText'
  BY DEF WizardCore, OwnText
<1>4. KeyboardsShow'
  BY ShownByChange DEF WizardCore, Newest
<1> QED
  BY <1>1, <1>2, <1>3, <1>4 DEF WizardCore

(* The flow ends, and its keyboard may close.                              *)
LEMMA FlowLeaves ==
  ASSUME WizardCore, Ended(draft'), typings' = typings, branches' \subseteq Branches,
         attached' \in [WzTopics -> {"free", "live", "dead"}],
         wizards' = wizards \/ \E i \in DOMAIN wizards : Closed(i)
  PROVE  WizardCore'
<1>1. /\ wizards' \in Seq(Keyboards) /\ Len(wizards') = Len(wizards) /\ KeyboardsShow'
  <2>1. CASE wizards' = wizards
    BY <2>1 DEF WizardCore, WizardTypes, KeyboardsShow
  <2>2. ASSUME NEW i \in DOMAIN wizards, Closed(i)
        PROVE  wizards' \in Seq(Keyboards) /\ Len(wizards') = Len(wizards) /\ KeyboardsShow'
    <3> DEFINE k == Keyboard(wizards[i].topic, "none", NoPlace, wizards[i].space)
    <3>1. Changed(i, k)
      BY <2>2, Redraws, PlacesOf DEF WizardCore, WizardTypes, Closed, Screens
    <3>2. Fits(k)
      BY DEF Fits, Keyboard
    <3> HIDE DEF k
    <3>3. KeyboardsShow'
      BY <3>1, <3>2, ShownByChange DEF WizardCore
    <3> QED
      BY <3>1, <3>3 DEF Changed
  <2> QED
    BY <2>1, <2>2
<1>2. WizardTypes'
  BY <1>1, FlowEnds DEF WizardCore, WizardTypes
<1> QED
  BY <1>1, <1>2, FlowEnds DEF WizardCore

(* A text opens a flow.                                                    *)
LEMMA FlowOpens ==
  ASSUME WizardCore, NEW t \in WzTopics, NEW s \in Screens, NEW p \in Places, Post(t, s, p),
         draft' \in Drafts, draft'.topic = t, Suits(Keyboard(t, s, p, FALSE), draft', attached'[t]),
         Fits(Keyboard(t, s, p, FALSE)), mux' = mux, branches' = branches, OwnText',
         attached' \in [WzTopics -> {"free", "live", "dead"}],
         typings' \in Seq(WzTopics), Len(typings') <= MaxTexts
  PROVE  WizardCore'
<1> DEFINE k == Keyboard(t, s, p, FALSE)
<1>1. Added(k) /\ k.topic = t /\ t # NoTopic
  BY Posts, Bounds DEF WizardCore, WizardTypes, Keyboard
<1>2. Suits(k, draft', attached'[t]) /\ Fits(k)
  OBVIOUS
<1> HIDE DEF k
<1>3. WizardTypes'
  BY <1>1 DEF WizardCore, WizardTypes, Added
<1>4. FlowShown'
  BY <1>1, <1>2, FlowOpened DEF WizardCore
<1>5. KeyboardsShow'
  BY <1>1, <1>2, ShownByPost DEF WizardCore, WizardTypes
<1> QED
  BY <1>3, <1>4, <1>5 DEF WizardCore

(* Stuttering.                                                             *)
LEMMA SameCore ==
  ASSUME UNCHANGED wzVars
  PROVE  /\ WizardCore => WizardCore'
         /\ LaunchedAsShown => LaunchedAsShown'
         /\ TextKeptInTopic => TextKeptInTopic'
<1>1. UNCHANGED <<mux, draft, wizards, attached, typings, spare, branches, served>>
  BY DEF wzVars
<1> QED
  BY <1>1 DEF WizardCore, WizardTypes, FlowShown, OwnText, KeyboardsShow, Suits, Newest, NativeWorktrees,
              LaunchedAsShown, TextKeptInTopic

(* user_data after the browser has opened.                                 *)
LEMMA BrowsingIs ==
  ASSUME NEW d \in Drafts
  PROVE  /\ Browsing(d) \in Drafts /\ Browsing(d).topic = d.topic /\ Browsing(d).text = d.text
         /\ Browsing(d).state = "browsing" /\ Browsing(d).path = Place("cwd", 0)
         /\ Browsing(d).space = d.space /\ (Plain(d) => Plain(Browsing(d)))
  BY PlacesOf DEF Browsing, Drafts, Plain

(* A step that serves no keyboard and drops no text.                       *)
LEMMA ForgetsGood ==
  ASSUME Forgets
  PROVE  LaunchedAsShown' /\ TextKeptInTopic'
  BY DEF Forgets, NotServed, NoKeyboard, LaunchedAsShown, TextKeptInTopic

(* A flow that no fork or choice is shown for has nothing of a worktree *)
LEMMA PlainUnlessBrowsing ==
  ASSUME WizardCore, draft.topic = NoTopic \/ draft.state # "browsing"
  PROVE  Plain(draft)
  BY DEF WizardCore, FlowShown, Suits

(* No text is pending without a topic *)
LEMMA TextHasTopic ==
  ASSUME WizardCore, draft.topic = NoTopic
  PROVE  draft.text = 0
<1> SUFFICES ASSUME draft.text # 0 PROVE FALSE
  OBVIOUS
<1>1. draft.text \in 1..Len(typings) /\ typings[draft.text] = NoTopic
  BY DEF WizardCore, OwnText
<1>2. typings[draft.text] \in WzTopics
  BY <1>1 DEF WizardCore, WizardTypes
<1> QED
  BY <1>1, <1>2, Bounds

(* A tap that passes the stale check is on the keyboard of the flow.       *)
LEMMA FlowOfTap ==
  ASSUME WzHazards = {}, WizardCore, NEW i, NEW s, Tapped(i, s), ~BrowserFlowStale(i)
  PROVE  /\ i \in DOMAIN wizards /\ wizards[i] \in Keyboards /\ wizards[i].screen = s
         /\ draft.topic = wizards[i].topic /\ draft.topic \in WzTopics /\ draft \in Drafts
         /\ Newest(i) /\ Suits(wizards[i], draft, attached[draft.topic])
         /\ wizards[i].space => s \in {"provider", "mode", "none"}
<1>1. i \in DOMAIN wizards /\ wizards[i] \in Keyboards /\ wizards[i].screen = s /\ draft \in Drafts
  BY DEF Tapped, WizardCore, WizardTypes
<1>2. draft.topic = wizards[i].topic
  BY DEF BrowserFlowStale, FlowReset, Mismatch
<1>3. Newest(i) /\ Suits(wizards[i], draft, attached[draft.topic]) /\ draft.topic \in WzTopics
  BY <1>2, TappedIsNewest DEF WizardCore
<1>4. wizards[i].space => s \in {"provider", "mode", "none"}
  BY <1>1 DEF WizardCore, KeyboardsShow
<1> QED
  BY <1>1, <1>2, <1>3, <1>4

(* The same for keyboards that also answer when no flow is pending *)
LEMMA MatchOfTap ==
  ASSUME WzHazards = {}, WizardCore, NEW i, NEW s, Tapped(i, s), ~Mismatch(i)
  PROVE  /\ i \in DOMAIN wizards /\ wizards[i] \in Keyboards /\ wizards[i].screen = s
         /\ draft \in Drafts
         /\ \/ draft.topic = NoTopic /\ Plain(draft) /\ draft.text = 0
            \/ draft.topic = wizards[i].topic /\ Suits(wizards[i], draft, attached[draft.topic])
<1>1. i \in DOMAIN wizards /\ wizards[i] \in Keyboards /\ wizards[i].screen = s /\ draft \in Drafts
  BY DEF Tapped, WizardCore, WizardTypes
<1>2. CASE draft.topic = NoTopic
  BY <1>1, <1>2, PlainUnlessBrowsing, TextHasTopic
<1>3. CASE draft.topic # NoTopic
  BY <1>1, <1>3, FlowOfTap DEF BrowserFlowStale, FlowReset
<1> QED
  BY <1>2, <1>3

----------------------------------------------------------------------------
(* The handlers.                                                            *)

(* /start drops the flow.                                                  *)
LEMMA StartCore ==
  ASSUME WizardCore, StartCommand
  PROVE  WizardCore'
<1>1. Ended(draft')
  BY FlowsEnd DEF StartCommand, WizardCore, WizardTypes
<1> QED
  BY <1>1, FlowLeaves DEF StartCommand, Stays, WizardCore, WizardTypes

(* A live window is picked for the topic.                                  *)
LEMMA BindPickedCore ==
  ASSUME WzHazards = {}, WizardCore, LaunchedAsShown, TextKeptInTopic,
         NEW i \in DOMAIN wizards, BindPicked(i)
  PROVE  WizardCore' /\ LaunchedAsShown' /\ TextKeptInTopic'
<1>1. CASE Refuse
  BY <1>1, SameCore DEF Refuse
<1> SUFFICES ASSUME ~Refuse
             PROVE  WizardCore' /\ LaunchedAsShown' /\ TextKeptInTopic'
  BY <1>1
<1>2. /\ Tapped(i, "picker") /\ ~Mismatch(i) /\ draft' = ClearPending(ClearPicker(draft)) /\ Closed(i)
      /\ attached' = [attached EXCEPT ![wizards[i].topic] = "live"]
      /\ Serve(i, wizards[i].topic, NoPlace, FALSE) /\ UNCHANGED <<mux, typings, branches>>
  BY DEF BindPicked
<1>3. /\ wizards[i] \in Keyboards /\ wizards[i].screen = "picker" /\ draft \in Drafts /\ Plain(draft)
      /\ (draft.topic = NoTopic /\ draft.text = 0) \/ draft.topic = wizards[i].topic
  BY <1>2, MatchOfTap DEF Suits, Forks, LastScreens
<1>4. Ended(draft')
  BY <1>2, <1>3, FlowsEnd
<1>5. WizardCore'
  BY <1>2, <1>4, FlowLeaves DEF WizardCore, WizardTypes
<1>6. wizards[i].path = NoPlace /\ wizards[i].space = FALSE
  BY <1>3 DEF WizardCore, KeyboardsShow, Keyboards
<1>7. LaunchedAsShown' /\ TextKeptInTopic'
  BY <1>2, <1>3, <1>6 DEF Serve, LaunchedAsShown, TextKeptInTopic, WizardCore, OwnText
<1> QED
  BY <1>5, <1>7

(* The picker gives way to the browser.                                    *)
LEMMA PickNewCore ==
  ASSUME WzHazards = {}, WizardCore, NEW i \in DOMAIN wizards, PickNew(i), ~Refuse
  PROVE  WizardCore'
<1>1. /\ Tapped(i, "picker") /\ ~BrowserFlowStale(i)
      /\ draft' = Browsing(ClearPicker(draft)) /\ Redraw(i, "browser", Place("cwd", 0)) /\ Stays
  BY DEF PickNew
<1> DEFINE k == Keyboard(wizards[i].topic, "browser", Place("cwd", 0), wizards[i].space)
<1>2. /\ wizards[i] \in Keyboards /\ draft.topic = wizards[i].topic /\ draft \in Drafts /\ Newest(i)
      /\ Suits(wizards[i], draft, attached[draft.topic]) /\ wizards[i].screen = "picker" /\ ~wizards[i].space
  BY <1>1, FlowOfTap
<1>3. Changed(i, k)
  BY <1>1, <1>2, Redraws, PlacesOf DEF WizardCore, WizardTypes, Screens
<1>4. /\ draft' \in Drafts /\ draft'.topic = draft.topic /\ draft'.text = draft.text
      /\ draft'.state = "browsing" /\ draft'.path = Place("cwd", 0) /\ draft'.space = draft.space
      /\ Plain(draft) => Plain(draft')
  BY <1>1, <1>2, BrowsingIs, ClearsOne
<1>5. Suits(k, draft', attached[draft.topic]) /\ Fits(k) /\ k.topic = wizards[i].topic
  BY <1>2, <1>4, PlacesOf DEF Suits, Keyboard, Fits, Forks, LastScreens, Plain
<1> HIDE DEF k
<1> QED
  BY <1>1, <1>2, <1>3, <1>4, <1>5, FlowMoves DEF Stays, WizardCore, WizardTypes

(* The picker is cancelled.                                                *)
LEMMA PickCancelCore ==
  ASSUME WzHazards = {}, WizardCore, NEW i \in DOMAIN wizards, PickCancel(i), ~Refuse
  PROVE  WizardCore'
<1>1. /\ Tapped(i, "picker") /\ ~Mismatch(i) /\ draft' = ClearPending(ClearPicker(draft)) /\ Closed(i) /\ Stays
  BY DEF PickCancel
<1>2. draft \in Drafts /\ Plain(draft)
  BY <1>1, MatchOfTap DEF Suits, Forks, LastScreens
<1>3. Ended(draft')
  BY <1>1, <1>2, FlowsEnd
<1> QED
  BY <1>1, <1>3, FlowLeaves DEF Stays, WizardCore, WizardTypes

(* Another directory is shown.                                             *)
LEMMA NavigateCore ==
  ASSUME WzHazards = {}, WizardCore, NEW i \in DOMAIN wizards, NEW dir \in {"cwd", "repo"},
         Navigate(i, dir), ~Refuse
  PROVE  WizardCore'
<1>1. /\ Tapped(i, "browser") /\ ~BrowserFlowStale(i)
      /\ draft' = [draft EXCEPT !.path = Place(dir, 0)] /\ Redraw(i, "browser", Place(dir, 0)) /\ Stays
  BY DEF Navigate
<1> DEFINE k == Keyboard(wizards[i].topic, "browser", Place(dir, 0), wizards[i].space)
<1>2. /\ wizards[i] \in Keyboards /\ draft.topic = wizards[i].topic /\ draft \in Drafts /\ Newest(i)
      /\ Suits(wizards[i], draft, attached[draft.topic]) /\ wizards[i].screen = "browser" /\ ~wizards[i].space
  BY <1>1, FlowOfTap
<1>3. Changed(i, k)
  BY <1>1, <1>2, Redraws, PlacesOf DEF WizardCore, WizardTypes, Screens
<1>4. /\ draft' \in Drafts /\ draft'.topic = draft.topic /\ draft'.text = draft.text
      /\ draft'.state = draft.state /\ draft'.path = Place(dir, 0) /\ draft'.space = draft.space
      /\ Plain(draft) => Plain(draft')
  BY <1>1, <1>2, PlacesOf DEF Drafts, Plain
<1>5. Suits(k, draft', attached[draft.topic]) /\ Fits(k) /\ k.topic = wizards[i].topic
  BY <1>2, <1>4, PlacesOf DEF Suits, Keyboard, Fits, Forks, LastScreens, Plain
<1> HIDE DEF k
<1> QED
  BY <1>1, <1>2, <1>3, <1>4, <1>5, FlowMoves DEF Stays, WizardCore, WizardTypes

(* The browser is cancelled.                                               *)
LEMMA BrowserCancelCore ==
  ASSUME WzHazards = {}, WizardCore, NEW i \in DOMAIN wizards, BrowserCancel(i), ~Refuse
  PROVE  WizardCore'
<1>1. Ended(draft') /\ Closed(i) /\ Stays
  BY FlowsEnd DEF BrowserCancel, WizardCore, WizardTypes
<1> QED
  BY <1>1, FlowLeaves DEF Stays, WizardCore, WizardTypes

(* The recovery of a dead window is cancelled.                             *)
LEMMA RecoveryCancelCore ==
  ASSUME WzHazards = {}, WizardCore, NEW i \in DOMAIN wizards, RecoveryCancel(i), ~Refuse
  PROVE  WizardCore'
<1>1. /\ Tapped(i, "recovery") /\ ~Mismatch(i) /\ draft' = ClearRecovery(draft) /\ Closed(i) /\ Stays
  BY DEF RecoveryCancel
<1>2. draft \in Drafts /\ Plain(draft)
  BY <1>1, MatchOfTap DEF Suits, Forks, LastScreens
<1>3. Ended(draft')
  BY <1>1, <1>2, FlowsEnd
<1> QED
  BY <1>1, <1>3, FlowLeaves DEF Stays, WizardCore, WizardTypes

(* The screen before the launch shows what is in user_data *)
LEMMA ChoiceMoves ==
  ASSUME WizardCore, NEW i, Newest(i), ~wizards[i].space, WorkspacePickerOrProvider(i, draft'.path),
         mux' = mux, typings' = typings, branches' \subseteq Branches, attached' = attached,
         attached[draft.topic] = "free", draft' \in Drafts, draft'.topic = draft.topic,
         draft'.text = draft.text, draft'.state = "browsing", draft'.path # NoPlace, ~draft'.space,
         ~draft'.naming, NativeWorktrees => draft'.branch = 0
  PROVE  WizardCore'
<1>1. i \in DOMAIN wizards /\ wizards[i] \in Keyboards /\ draft'.path \in Places /\ wizards \in Seq(Keyboards)
  BY DEF Newest, WizardCore, WizardTypes, Drafts
<1>2. PICK s \in {"spaces", "provider"} : Redraw(i, s, draft'.path)
  BY DEF WorkspacePickerOrProvider
<1> DEFINE k == Keyboard(wizards[i].topic, s, draft'.path, wizards[i].space)
<1>3. Changed(i, k)
  BY <1>1, <1>2, Redraws DEF Screens
<1>4. Fits(k) /\ k.topic = wizards[i].topic
  BY <1>1 DEF Fits, Keyboard
<1>5. Suits(k, draft', attached[draft.topic])
  BY <1>1 DEF Suits, Keyboard, Keyboards, Drafts, Forks, LastScreens
<1> HIDE DEF k
<1> QED
  BY <1>3, <1>4, <1>5, FlowMoves

(* The directory is confirmed.                                             *)
LEMMA ConfirmCore ==
  ASSUME WzHazards = {}, WizardCore, NEW i \in DOMAIN wizards, Confirm(i)
  PROVE  WizardCore'
<1>1. Stays /\ Tapped(i, "browser")
  BY DEF Confirm
<1>2. CASE draft.path = NoPlace \/ BrowserFlowStale(i)
  <2>1. Ended(draft') /\ wizards' = wizards
    BY <1>2, FlowsEnd DEF Confirm, WizardCore, WizardTypes
  <2> QED
    BY <1>1, <2>1, FlowLeaves DEF Stays, WizardCore, WizardTypes
<1>3. CASE ~(draft.path = NoPlace \/ BrowserFlowStale(i))
  <2>1. /\ wizards[i] \in Keyboards /\ draft.topic = wizards[i].topic /\ draft \in Drafts /\ Newest(i)
        /\ Suits(wizards[i], draft, attached[draft.topic]) /\ wizards[i].screen = "browser" /\ ~wizards[i].space
    BY <1>1, <1>3, FlowOfTap
  <2>2. /\ attached[draft.topic] = "free" /\ Plain(draft) /\ ~draft.space /\ draft.state = "browsing"
    BY <2>1 DEF Suits, Forks, LastScreens
  <2>3. CASE draft.path = Place("repo", 0)
    <3> DEFINE k == Keyboard(wizards[i].topic, "worktree", draft.path, wizards[i].space)
    <3>1. draft' = [draft EXCEPT !.repo = TRUE] /\ Redraw(i, "worktree", draft.path)
      BY <1>3, <2>1, <2>2, <2>3 DEF Confirm
    <3>2. /\ draft' \in Drafts /\ draft'.topic = draft.topic /\ draft'.text = draft.text /\ draft'.repo
          /\ ~draft'.creating /\ ~draft'.naming /\ ~draft'.space /\ draft'.state = "browsing"
          /\ draft'.path # NoPlace
      BY <1>3, <2>1, <2>2, <3>1 DEF Drafts, Plain
    <3>3. Changed(i, k)
      BY <2>1, <3>1, Redraws DEF WizardCore, WizardTypes, Screens, Drafts
    <3>4. Fits(k) /\ k.topic = wizards[i].topic /\ Suits(k, draft', attached[draft.topic])
      BY <2>1, <2>2, <3>2 DEF Fits, Keyboard, Suits, Forks, LastScreens
    <3> HIDE DEF k
    <3> QED
      BY <1>1, <2>1, <3>2, <3>3, <3>4, FlowMoves DEF Stays, WizardCore, WizardTypes
  <2>4. CASE draft.path # Place("repo", 0)
    <3>1. draft' = draft /\ WorkspacePickerOrProvider(i, draft.path)
      BY <1>3, <2>1, <2>2, <2>4 DEF Confirm
    <3> QED
      BY <1>1, <1>3, <2>1, <2>2, <3>1, ChoiceMoves DEF Stays, Plain, WizardCore, WizardTypes
  <2> QED
    BY <2>3, <2>4
<1> QED
  BY <1>2, <1>3

(* The session goes to the current branch.                                 *)
LEMMA UseCurrentCore ==
  ASSUME WzHazards = {}, WizardCore, NEW i \in DOMAIN wizards, UseCurrent(i), ~Refuse
  PROVE  WizardCore'
<1>1. Stays /\ Tapped(i, "worktree") /\ ~BrowserFlowStale(i)
  BY DEF UseCurrent
<1>2. /\ wizards[i] \in Keyboards /\ draft.topic = wizards[i].topic /\ draft \in Drafts /\ Newest(i)
      /\ Suits(wizards[i], draft, attached[draft.topic]) /\ wizards[i].screen = "worktree" /\ ~wizards[i].space
  BY <1>1, FlowOfTap
<1>3. /\ attached[draft.topic] = "free" /\ draft.repo /\ ~draft.space /\ draft.state = "browsing"
      /\ draft.path # NoPlace
  BY <1>2 DEF Suits, Forks, LastScreens
<1>4. draft' = ClearWorktree(draft) /\ WorkspacePickerOrProvider(i, draft.path)
  BY <1>1, <1>3 DEF UseCurrent
<1>5. /\ draft' \in Drafts /\ Plain(draft') /\ draft'.topic = draft.topic /\ draft'.text = draft.text
      /\ draft'.path = draft.path /\ ~draft'.space /\ draft'.state = "browsing"
  BY <1>2, <1>3, <1>4, ClearsWorktree
<1> QED
  BY <1>1, <1>2, <1>3, <1>4, <1>5, ChoiceMoves DEF Stays, Plain, WizardCore, WizardTypes

(* The name of the branch is asked for.                                    *)
LEMMA EditNameCore ==
  ASSUME WzHazards = {}, WizardCore, NEW i \in DOMAIN wizards, EditName(i), ~Refuse
  PROVE  WizardCore'
<1>1. Stays /\ Tapped(i, "confirm") /\ ~BrowserFlowStale(i)
  BY DEF EditName
<1>2. /\ wizards[i] \in Keyboards /\ draft.topic = wizards[i].topic /\ draft \in Drafts /\ Newest(i)
      /\ Suits(wizards[i], draft, attached[draft.topic]) /\ wizards[i].screen = "confirm" /\ ~wizards[i].space
  BY <1>1, FlowOfTap
<1>3. /\ attached[draft.topic] = "free" /\ draft.repo /\ ~draft.space /\ draft.state = "browsing"
      /\ draft.path # NoPlace /\ ~draft.creating
  BY <1>2 DEF Suits, Forks, LastScreens
<1> DEFINE k == Keyboard(wizards[i].topic, "naming", NoPlace, wizards[i].space)
<1>4. draft' = [draft EXCEPT !.naming = TRUE] /\ Redraw(i, "naming", NoPlace)
  BY <1>1, <1>3 DEF EditName
<1>5. /\ draft' \in Drafts /\ draft'.topic = draft.topic /\ draft'.text = draft.text /\ draft'.repo
      /\ ~draft'.creating /\ ~draft'.space /\ draft'.state = "browsing" /\ draft'.path # NoPlace
  BY <1>2, <1>3, <1>4 DEF Drafts
<1>6. Changed(i, k)
  BY <1>2, <1>4, Redraws, PlacesOf DEF WizardCore, WizardTypes, Screens
<1>7. Fits(k) /\ k.topic = wizards[i].topic /\ Suits(k, draft', attached[draft.topic])
  BY <1>2, <1>3, <1>5 DEF Fits, Keyboard, Suits, Forks, LastScreens
<1> HIDE DEF k
<1> QED
  BY <1>1, <1>2, <1>5, <1>6, <1>7, FlowMoves DEF Stays, WizardCore, WizardTypes

(* The workspace is chosen.                                                *)
LEMMA ChooseSpaceCore ==
  ASSUME WzHazards = {}, WizardCore, NEW i \in DOMAIN wizards, NEW space \in BOOLEAN,
         ChooseSpace(i, space), ~Refuse
  PROVE  WizardCore'
<1>1. /\ Stays /\ Tapped(i, "spaces") /\ ~BrowserFlowStale(i)
      /\ draft' = [draft EXCEPT !.space = space] /\ ShowSpace(i, draft.path, space)
  BY DEF ChooseSpace
<1>2. /\ wizards[i] \in Keyboards /\ draft.topic = wizards[i].topic /\ draft \in Drafts /\ Newest(i)
      /\ Suits(wizards[i], draft, attached[draft.topic]) /\ wizards[i].screen = "spaces"
  BY <1>1, FlowOfTap
<1> DEFINE k == Keyboard(wizards[i].topic, "provider", draft.path, space)
<1>3. /\ draft' \in Drafts /\ draft'.topic = draft.topic /\ draft'.text = draft.text /\ draft'.space = space
      /\ draft'.naming = draft.naming /\ draft'.state = draft.state /\ draft'.path = draft.path
      /\ draft'.branch = draft.branch
  BY <1>1, <1>2 DEF Drafts
<1>4. Changed(i, k)
  BY <1>1, <1>2, ShowsSpace DEF WizardCore, WizardTypes, Drafts
<1>5. Fits(k) /\ k.topic = wizards[i].topic /\ Suits(k, draft', attached[draft.topic])
  BY <1>2, <1>3 DEF Fits, Keyboard, Suits, Forks, LastScreens
<1> HIDE DEF k
<1> QED
  BY <1>1, <1>2, <1>3, <1>4, <1>5, FlowMoves DEF Stays, WizardCore, WizardTypes

(* The worktree is created, or created with the launch.                    *)
LEMMA ConfirmWorktreeCore ==
  ASSUME WzHazards = {}, WizardCore, NEW i \in DOMAIN wizards, ConfirmWorktree(i), ~Refuse
  PROVE  WizardCore'
<1> DEFINE place == Place("repo", draft.branch)
<1>1. /\ UNCHANGED <<mux, attached, typings, spare>> /\ Tapped(i, "confirm") /\ ~BrowserFlowStale(i)
  BY DEF ConfirmWorktree
<1>2. /\ wizards[i] \in Keyboards /\ draft.topic = wizards[i].topic /\ draft \in Drafts /\ Newest(i)
      /\ Suits(wizards[i], draft, attached[draft.topic]) /\ wizards[i].screen = "confirm" /\ ~wizards[i].space
      /\ wizards \in Seq(Keyboards) /\ branches \subseteq Branches
  BY <1>1, FlowOfTap DEF WizardCore, WizardTypes
<1>3. /\ attached[draft.topic] = "free" /\ draft.repo /\ ~draft.space /\ draft.state = "browsing"
      /\ draft.path # NoPlace /\ ~draft.creating /\ draft.branch # 0 /\ ~draft.naming
      /\ draft.branch \in 1..MaxBranches /\ place \in Places /\ place # NoPlace
  <2>1. /\ attached[draft.topic] = "free" /\ draft.repo /\ ~draft.space /\ draft.state = "browsing"
        /\ draft.path # NoPlace /\ ~draft.creating /\ draft.branch # 0 /\ ~draft.naming
    BY <1>2 DEF Suits, Forks, LastScreens
  <2>2. draft.branch \in 0..MaxBranches
    BY <1>2 DEF Drafts
  <2> QED
    BY <2>1, <2>2, Bounds, PlacesOf
<1> HIDE DEF place
<1>4. CASE NativeWorktrees
  <2> DEFINE k == Keyboard(wizards[i].topic, "provider", place, wizards[i].space)
  <2>1. draft' = [draft EXCEPT !.path = place] /\ Redraw(i, "provider", place) /\ branches' = branches
    BY <1>1, <1>3, <1>4 DEF ConfirmWorktree, place
  <2>2. /\ draft' \in Drafts /\ draft'.topic = draft.topic /\ draft'.text = draft.text /\ ~draft'.naming
        /\ draft'.state = "browsing" /\ draft'.path = place /\ ~draft'.space /\ draft'.branch = draft.branch
    BY <1>2, <1>3, <2>1 DEF Drafts
  <2>3. Changed(i, k)
    BY <1>2, <1>3, <2>1, Redraws DEF Screens
  <2>a. wizards[i].space = FALSE /\ draft'.space = FALSE
    BY <1>2, <2>2 DEF Keyboards, Drafts
  <2>4. Fits(k) /\ k.topic = wizards[i].topic /\ Suits(k, draft', attached[draft.topic])
    BY <1>2, <1>3, <2>2, <2>a DEF Fits, Keyboard, Suits, Forks, LastScreens, place
  <2> HIDE DEF k
  <2> QED
    BY <1>1, <1>2, <2>1, <2>2, <2>3, <2>4, FlowMoves
<1>5. CASE ~NativeWorktrees /\ draft.branch \in branches
  <2> DEFINE k == Keyboard(wizards[i].topic, "naming", NoPlace, wizards[i].space)
  <2>1. draft' = [draft EXCEPT !.creating = FALSE] /\ Redraw(i, "naming", NoPlace) /\ branches' = branches
    BY <1>1, <1>3, <1>5 DEF ConfirmWorktree
  <2>2. /\ draft' \in Drafts /\ draft'.topic = draft.topic /\ draft'.text = draft.text /\ ~draft'.creating
        /\ draft'.state = "browsing" /\ draft'.path # NoPlace /\ ~draft'.space /\ draft'.repo
    BY <1>2, <1>3, <2>1 DEF Drafts
  <2>3. Changed(i, k)
    BY <1>2, <2>1, Redraws, PlacesOf DEF Screens
  <2>4. Fits(k) /\ k.topic = wizards[i].topic /\ Suits(k, draft', attached[draft.topic])
    BY <1>2, <1>3, <2>2 DEF Fits, Keyboard, Suits, Forks, LastScreens
  <2> HIDE DEF k
  <2> QED
    BY <1>1, <1>2, <2>1, <2>2, <2>3, <2>4, FlowMoves
<1>6. CASE ~NativeWorktrees /\ draft.branch \notin branches
  <2>1. /\ draft' = [draft EXCEPT !.creating = TRUE, !.path = place]
        /\ branches' = branches \union {draft.branch} /\ WorkspacePickerOrProvider(i, place)
    BY <1>1, <1>3, <1>6 DEF ConfirmWorktree, place
  <2>2. /\ draft' \in Drafts /\ draft'.topic = draft.topic /\ draft'.text = draft.text /\ ~draft'.naming
        /\ draft'.state = "browsing" /\ draft'.path = place /\ ~draft'.space
    <3> DEFINE d == [draft EXCEPT !.creating = TRUE]
    <3>1. /\ d \in Drafts /\ d.topic = draft.topic /\ d.text = draft.text /\ ~d.naming
          /\ d.state = "browsing" /\ ~d.space
      BY <1>2, <1>3 DEF Drafts
    <3>2. draft' = [d EXCEPT !.path = place]
      BY <2>1
    <3> HIDE DEF d
    <3> QED
      BY <1>3, <3>1, <3>2 DEF Drafts
  <2>3. branches' \subseteq Branches
    BY <1>2, <1>3, <2>1 DEF Branches
  <2> QED
    BY <1>1, <1>2, <1>3, <1>6, <2>1, <2>2, <2>3, ChoiceMoves
<1> QED
  BY <1>4, <1>5, <1>6

(* A non-empty set of numbers has a least one *)
LEMMA LeastNumber ==
  ASSUME NEW S \in SUBSET Nat, S # {}
  PROVE  \E m \in S : \A k \in S : m <= k
<1> DEFINE Below == {p \in Nat \X Nat : p[1] < p[2]}
<1>1. IsWellFoundedOn(Below, Nat)
  BY NatLessThanWellFounded DEF OpToRel
<1>2. PICK m \in S : \A k \in S : ~(<<k, m>> \in Below)
  BY <1>1, WFMin
<1>3. \A k \in S : <<k, m>> \in Nat \X Nat /\ <<k, m>>[1] = k /\ <<k, m>>[2] = m
  OBVIOUS
<1>4. \A k \in S : ~(k < m)
  BY <1>2, <1>3
<1> QED
  BY <1>4

(* A name for the branch is suggested: the first free one.                 *)
LEMMA NewWorktreeCore ==
  ASSUME WzHazards = {}, WizardCore, NEW i \in DOMAIN wizards, NewWorktree(i), ~Refuse
  PROVE  WizardCore'
<1>1. Stays /\ Tapped(i, "worktree") /\ ~BrowserFlowStale(i) /\ Branches \ branches # {}
  BY DEF NewWorktree
<1>2. /\ wizards[i] \in Keyboards /\ draft.topic = wizards[i].topic /\ draft \in Drafts /\ Newest(i)
      /\ Suits(wizards[i], draft, attached[draft.topic]) /\ wizards[i].screen = "worktree" /\ ~wizards[i].space
  BY <1>1, FlowOfTap
<1>3. /\ attached[draft.topic] = "free" /\ draft.repo /\ ~draft.space /\ draft.state = "browsing"
      /\ draft.path # NoPlace /\ ~draft.creating /\ ~draft.naming
  BY <1>2 DEF Suits, Forks, LastScreens
<1>4. Suggested \in 1..MaxBranches
  <2>1. Branches \ branches \in SUBSET Nat
    BY Bounds DEF Branches
  <2>2. PICK b \in Branches \ branches : \A c \in Branches \ branches : b <= c
    BY <1>1, <2>1, LeastNumber
  <2>3. Suggested \in Branches \ branches
    BY <2>2 DEF Suggested
  <2> QED
    BY <2>3 DEF Branches
<1> DEFINE place == Place("repo", Suggested)
           k == Keyboard(wizards[i].topic, "confirm", place, wizards[i].space)
<1>5. draft' = [draft EXCEPT !.branch = Suggested] /\ Redraw(i, "confirm", place)
  BY <1>1, <1>3 DEF NewWorktree
<1>6. Suggested \in 0..MaxBranches /\ Suggested # 0 /\ place \in Places
  BY <1>4, Bounds, PlacesOf
<1> HIDE DEF place
<1>7. /\ draft' \in Drafts /\ draft'.topic = draft.topic /\ draft'.text = draft.text /\ draft'.repo
      /\ ~draft'.creating /\ ~draft'.naming /\ ~draft'.space /\ draft'.state = "browsing"
      /\ draft'.path # NoPlace /\ draft'.branch # 0
  BY <1>2, <1>3, <1>5, <1>6 DEF Drafts
<1>8. Changed(i, k)
  BY <1>2, <1>5, <1>6, Redraws DEF WizardCore, WizardTypes, Screens
<1>9. Fits(k) /\ k.topic = wizards[i].topic /\ Suits(k, draft', attached[draft.topic])
  BY <1>2, <1>3, <1>7 DEF Fits, Keyboard, Suits, Forks, LastScreens
<1> HIDE DEF k
<1> QED
  BY <1>1, <1>2, <1>7, <1>8, <1>9, FlowMoves DEF Stays, WizardCore, WizardTypes

----------------------------------------------------------------------------
(* Texts open flows.                                                        *)

(* user_data after the guards of the text handler.                         *)
LEMMA GuardedIsPlain ==
  ASSUME WizardCore
  PROVE  Guarded \in Drafts /\ Plain(Guarded) /\ (~draft.space => ~Guarded.space)
<1>1. draft \in Drafts
  BY DEF WizardCore, WizardTypes
<1>2. ASSUME NEW d \in Drafts, d.space = draft.space
      PROVE  LET e == ClearPending(ClearWorktree(d)) IN
             e \in Drafts /\ Plain(e) /\ (~draft.space => ~e.space)
  <2>1. ClearWorktree(d) \in Drafts /\ Plain(ClearWorktree(d)) /\ ClearWorktree(d).space = d.space
    BY <1>2, ClearsWorktree
  <2> QED
    BY <1>2, <2>1, ClearsPending DEF Ended
<1>3. /\ ClearPicker(draft) \in Drafts /\ ClearPicker(draft).space = draft.space
      /\ ClearBrowse(draft) \in Drafts /\ ClearBrowse(draft).space = draft.space
  BY <1>1, ClearsOne
<1>4. CASE draft.state = "picking"
  BY <1>2, <1>3, <1>4 DEF Guarded
<1>5. CASE draft.state = "browsing"
  BY <1>2, <1>3, <1>5 DEF Guarded
<1>6. CASE draft.state \notin {"picking", "browsing"}
  BY <1>1, <1>6, PlainUnlessBrowsing DEF Guarded
<1> QED
  BY <1>4, <1>5, <1>6

(* user_data with the text pending.                                        *)
LEMMA OpensIs ==
  ASSUME WizardCore, NEW t \in WzTopics, Passes(t)
  PROVE  LET d == Opens(t, Guarded) IN
         /\ d \in Drafts /\ Plain(d) /\ d.topic = t /\ d.text = Len(typings')
         /\ (~draft.space => ~d.space)
         /\ typings' \in Seq(WzTopics) /\ Len(typings') <= MaxTexts
         /\ Len(typings') \in 1..Len(typings') /\ typings'[Len(typings')] = t
<1>1. typings \in Seq(WzTopics) /\ Len(typings) < MaxTexts /\ typings' = Append(typings, t) /\ Len(typings) \in Nat
  BY DEF WizardCore, WizardTypes, Passes
<1>2. /\ typings' \in Seq(WzTopics) /\ Len(typings') = Len(typings) + 1 /\ typings'[Len(typings) + 1] = t
  BY <1>1
<1>3. Len(typings') \in 0..MaxTexts /\ Len(typings') \in 1..Len(typings') /\ typings'[Len(typings')] = t
  BY <1>1, <1>2, Bounds
<1> DEFINE a == [Guarded EXCEPT !.topic = t]
           n == Len(typings) + 1
<1>4. a \in Drafts /\ Plain(a) /\ a.topic = t /\ (~draft.space => ~a.space)
  BY GuardedIsPlain DEF Drafts, Plain
<1>5. n \in 0..MaxTexts /\ n = Len(typings')
  BY <1>2, <1>3
<1>6. Opens(t, Guarded) = [a EXCEPT !.text = n]
  BY DEF Opens
<1> HIDE DEF a, n
<1>7. /\ [a EXCEPT !.text = n] \in Drafts /\ Plain([a EXCEPT !.text = n]) /\ [a EXCEPT !.text = n].topic = t
      /\ [a EXCEPT !.text = n].text = n /\ (~draft.space => ~[a EXCEPT !.text = n].space)
  BY <1>4, <1>5 DEF Drafts, Plain
<1> QED
  BY <1>2, <1>3, <1>5, <1>6, <1>7

(* A text opens the directory browser.                                     *)
LEMMA BrowserOpens ==
  ASSUME WizardCore, NEW t \in WzTopics, Passes(t), ~draft.space,
         draft' = Browsing(Opens(t, Guarded)), Post(t, "browser", Place("cwd", 0)),
         attached' \in [WzTopics -> {"free", "live", "dead"}], attached'[t] = "free"
  PROVE  WizardCore'
<1> DEFINE d == Opens(t, Guarded)
<1>1. /\ d \in Drafts /\ Plain(d) /\ d.topic = t /\ d.text = Len(typings') /\ ~d.space
      /\ typings' \in Seq(WzTopics) /\ Len(typings') <= MaxTexts
      /\ Len(typings') \in 1..Len(typings') /\ typings'[Len(typings')] = t
  BY OpensIs
<1> HIDE DEF d
<1>2. /\ draft' \in Drafts /\ Plain(draft') /\ draft'.topic = t /\ draft'.text = Len(typings') /\ ~draft'.space
      /\ draft'.state = "browsing" /\ draft'.path # NoPlace
  BY <1>1, BrowsingIs, PlacesOf DEF d
<1>3. OwnText'
  BY <1>1, <1>2 DEF OwnText
<1> DEFINE k == Keyboard(t, "browser", Place("cwd", 0), FALSE)
<1>4. Suits(k, draft', attached'[t]) /\ Fits(k)
  BY <1>2 DEF Suits, Fits, Keyboard, Forks, LastScreens, Plain
<1> QED
  BY <1>1, <1>2, <1>3, <1>4, FlowOpens, PlacesOf DEF Passes, Screens

(* A text in a topic without a window.                                     *)
LEMMA UnboundTopicCore ==
  ASSUME WzHazards = {}, WizardCore, NEW t \in WzTopics, UnboundTopic(t)
  PROVE  WizardCore'
<1>1. Passes(t) /\ ~draft.space /\ attached' = attached /\ attached[t] = "free"
      /\ attached \in [WzTopics -> {"free", "live", "dead"}]
  BY DEF UnboundTopic, WizardCore, WizardTypes
<1>2. CASE ~spare
  BY <1>1, <1>2, BrowserOpens DEF UnboundTopic
<1>3. CASE spare
  <2> DEFINE d == Opens(t, Guarded)
  <2>1. /\ d \in Drafts /\ Plain(d) /\ d.topic = t /\ d.text = Len(typings') /\ ~d.space
        /\ typings' \in Seq(WzTopics) /\ Len(typings') <= MaxTexts
        /\ Len(typings') \in 1..Len(typings') /\ typings'[Len(typings')] = t
    BY <1>1, OpensIs
  <2>2. draft' = [d EXCEPT !.state = "picking", !.listed = TRUE] /\ Post(t, "picker", NoPlace)
    BY <1>3 DEF UnboundTopic
  <2> HIDE DEF d
  <2> DEFINE e == [d EXCEPT !.state = "picking"]
  <2>3. e \in Drafts /\ Plain(e) /\ e.topic = t /\ e.text = d.text /\ ~e.space
    BY <2>1 DEF Drafts, Plain
  <2>4. draft' = [e EXCEPT !.listed = TRUE]
    BY <2>2
  <2> HIDE DEF e
  <2>5. draft' \in Drafts /\ Plain(draft') /\ draft'.topic = t /\ draft'.text = Len(typings') /\ ~draft'.space
    BY <2>1, <2>3, <2>4 DEF Drafts, Plain
  <2>6. OwnText'
    BY <2>1, <2>5 DEF OwnText
  <2> DEFINE k == Keyboard(t, "picker", NoPlace, FALSE)
  <2>7. Suits(k, draft', attached'[t]) /\ Fits(k)
    BY <1>1, <2>5 DEF Suits, Fits, Keyboard, Forks, LastScreens, Plain
  <2> QED
    BY <1>1, <2>1, <2>2, <2>5, <2>6, <2>7, FlowOpens, PlacesOf DEF Passes, Screens
<1> QED
  BY <1>2, <1>3

(* A text in a topic whose window is gone.                                 *)
LEMMA DeadWindowCore ==
  ASSUME WzHazards = {}, WizardCore, NEW t \in WzTopics, DeadWindow(t)
  PROVE  WizardCore'
<1>1. Passes(t) /\ attached[t] = "dead" /\ attached \in [WzTopics -> {"free", "live", "dead"}]
  BY DEF DeadWindow, WizardCore, WizardTypes
<1>2. CASE /\ ~draft.space /\ draft' = Browsing(Opens(t, Guarded)) /\ Post(t, "browser", Place("cwd", 0))
           /\ attached' = [attached EXCEPT ![t] = "free"]
  BY <1>1, <1>2, BrowserOpens
<1>3. CASE /\ draft' = [Opens(t, Guarded) EXCEPT !.recovering = t]
           /\ Post(t, "recovery", NoPlace) /\ attached' = attached
  <2> DEFINE d == Opens(t, Guarded)
  <2>1. /\ d \in Drafts /\ Plain(d) /\ d.topic = t /\ d.text = Len(typings')
        /\ typings' \in Seq(WzTopics) /\ Len(typings') <= MaxTexts
        /\ Len(typings') \in 1..Len(typings') /\ typings'[Len(typings')] = t
    BY <1>1, OpensIs
  <2>2. draft' = [d EXCEPT !.recovering = t]
    BY <1>3
  <2> HIDE DEF d
  <2>3. draft' \in Drafts /\ Plain(draft') /\ draft'.topic = t /\ draft'.text = Len(typings')
    BY <2>1, <2>2 DEF Drafts, Plain
  <2>4. OwnText'
    BY <2>1, <2>3 DEF OwnText
  <2> DEFINE k == Keyboard(t, "recovery", NoPlace, FALSE)
  <2>5. Suits(k, draft', attached'[t]) /\ Fits(k)
    BY <1>1, <1>3, <2>3 DEF Suits, Fits, Keyboard, Forks, LastScreens, Plain
  <2> QED
    BY <1>1, <1>3, <2>1, <2>3, <2>4, <2>5, FlowOpens, PlacesOf DEF Passes, Screens
<1> QED
  BY <1>2, <1>3 DEF DeadWindow

(* The name of a branch is typed.                                          *)
LEMMA WorktreeNameCore ==
  ASSUME WizardCore, NEW t \in WzTopics, NEW b \in Branches, WorktreeNameReply(t, b)
  PROVE  WizardCore'
<1>1. draft.naming /\ draft.topic = t /\ Stays /\ draft \in Drafts
  BY DEF WorktreeNameReply, WizardCore, WizardTypes
<1>2. t # NoTopic /\ b \in 0..MaxBranches /\ b # 0
  BY Bounds DEF Branches
<1>3. /\ draft.repo /\ ~draft.creating /\ draft.state = "browsing" /\ draft.path # NoPlace /\ ~draft.space
      /\ attached[t] = "free"
  BY <1>1, <1>2 DEF WizardCore, FlowShown, Suits, Forks, LastScreens
<1>4. draft' = [draft EXCEPT !.naming = FALSE, !.branch = b] /\ Post(t, "confirm", Place("repo", b))
  BY <1>1, <1>3 DEF WorktreeNameReply
<1> DEFINE d == [draft EXCEPT !.naming = FALSE]
<1>5. /\ d \in Drafts /\ d.topic = t /\ d.text = draft.text /\ ~d.naming /\ d.repo /\ ~d.creating
      /\ d.state = "browsing" /\ d.path # NoPlace /\ ~d.space
  BY <1>1, <1>3 DEF Drafts
<1>6. draft' = [d EXCEPT !.branch = b]
  BY <1>4
<1> HIDE DEF d
<1>7. /\ draft' \in Drafts /\ draft'.topic = t /\ draft'.text = draft.text /\ ~draft'.naming /\ draft'.repo
      /\ ~draft'.creating /\ draft'.state = "browsing" /\ draft'.path # NoPlace /\ ~draft'.space
      /\ draft'.branch # 0
  BY <1>2, <1>5, <1>6 DEF Drafts
<1>8. OwnText'
  BY <1>1, <1>7 DEF Stays, OwnText, WizardCore
<1> DEFINE k == Keyboard(t, "confirm", Place("repo", b), FALSE)
<1>9. Suits(k, draft', attached'[t]) /\ Fits(k)
  BY <1>1, <1>3, <1>7 DEF Stays, Suits, Fits, Keyboard, Forks, LastScreens
<1> QED
  BY <1>1, <1>2, <1>4, <1>7, <1>8, <1>9, FlowOpens, PlacesOf DEF Stays, Screens, WizardCore, WizardTypes

(* /restore.                                                               *)
LEMMA RestoreCore ==
  ASSUME WzHazards = {}, WizardCore, NEW t \in WzTopics, RestoreCommand(t)
  PROVE  WizardCore'
<1>1. /\ attached[t] = "dead" /\ draft.topic \in {NoTopic, t} /\ Post(t, "recovery", NoPlace) /\ Stays
      /\ draft' = [draft EXCEPT !.topic = t, !.recovering = t] /\ draft \in Drafts
  BY DEF RestoreCommand, WizardCore, WizardTypes
<1>2. Plain(draft)
  BY <1>1, PlainUnlessBrowsing DEF WizardCore, FlowShown, Suits, Forks, LastScreens
<1>3. draft.text # 0 => draft.topic = t
  BY <1>1, TextHasTopic
<1> DEFINE d == [draft EXCEPT !.topic = t]
<1>4. d \in Drafts /\ Plain(d) /\ d.topic = t /\ d.text = draft.text
  BY <1>1, <1>2 DEF Drafts, Plain
<1>5. draft' = [d EXCEPT !.recovering = t]
  BY <1>1
<1> HIDE DEF d
<1>6. draft' \in Drafts /\ Plain(draft') /\ draft'.topic = t /\ draft'.text = draft.text
  BY <1>4, <1>5 DEF Drafts, Plain
<1>7. OwnText'
  BY <1>1, <1>3, <1>6 DEF Stays, OwnText, WizardCore
<1> DEFINE k == Keyboard(t, "recovery", NoPlace, FALSE)
<1>8. Suits(k, draft', attached'[t]) /\ Fits(k)
  BY <1>1, <1>6 DEF Stays, Suits, Fits, Keyboard, Forks, LastScreens, Plain
<1> QED
  BY <1>1, <1>6, <1>7, <1>8, FlowOpens, PlacesOf DEF Stays, Screens, WizardCore, WizardTypes

----------------------------------------------------------------------------
(* What happens beside the wizard leaves the flow alone.                    *)

(* A window dies; the flow of a topic that is free does not see it.        *)
LEMMA WindowDiesCore ==
  ASSUME WizardCore, NEW t \in WzTopics, WindowDies(t)
  PROVE  WizardCore'
<1>1. /\ attached[t] = "live" /\ attached' = [attached EXCEPT ![t] = "dead"] /\ Post(t, "recovery", NoPlace)
      /\ UNCHANGED <<mux, draft, typings, spare, branches>>
      /\ attached \in [WzTopics -> {"free", "live", "dead"}] /\ wizards \in Seq(Keyboards)
  BY DEF WindowDies, WizardCore, WizardTypes
<1>2. draft.topic # t
  BY <1>1, Bounds DEF WizardCore, FlowShown, Suits
<1> DEFINE k == Keyboard(t, "recovery", NoPlace, FALSE)
<1>3. Added(k) /\ k.topic = t /\ Fits(k)
  BY <1>1, Posts, PlacesOf DEF Screens, Keyboard, Fits
<1> HIDE DEF k
<1>4. attached' \in [WzTopics -> {"free", "live", "dead"}] /\ \A u \in WzTopics \ {t} : attached'[u] = attached[u]
  BY <1>1
<1>5. draft.topic \in WzTopics \cup {NoTopic}
  BY DEF WizardCore, WizardTypes, Drafts
<1>6. FlowShown'
  BY <1>1, <1>2, <1>3, <1>4, <1>5, FlowKept DEF WizardCore
<1>7. WizardTypes' /\ OwnText'
  BY <1>1, <1>3, <1>4 DEF WizardCore, WizardTypes, OwnText, Added
<1>8. KeyboardsShow'
  BY <1>1, <1>3, ShownByPost DEF WizardCore
<1> QED
  BY <1>6, <1>7, <1>8 DEF WizardCore

(* A topic is bound by a command outside the wizard.                       *)
LEMMA BoundElsewhereCore ==
  ASSUME WzHazards = {}, WizardCore, NEW t \in WzTopics, BoundElsewhere(t)
  PROVE  WizardCore'
<1>1. /\ draft.topic # t /\ attached' = [attached EXCEPT ![t] = "live"]
      /\ UNCHANGED <<mux, draft, wizards, typings, spare, branches>>
      /\ attached \in [WzTopics -> {"free", "live", "dead"}]
  BY DEF BoundElsewhere, WizardCore, WizardTypes
<1>2. attached' \in [WzTopics -> {"free", "live", "dead"}] /\ \A u \in WzTopics \ {t} : attached'[u] = attached[u]
  BY <1>1
<1>3. draft.topic \in WzTopics \cup {NoTopic}
  BY DEF WizardCore, WizardTypes, Drafts
<1>4. FlowShown'
  BY <1>1, <1>2, <1>3, FlowKept DEF WizardCore
<1> QED
  BY <1>1, <1>2, <1>4 DEF WizardCore, WizardTypes, OwnText, KeyboardsShow

(* A window appears that no topic has.                                     *)
LEMMA SpareCore ==
  ASSUME WizardCore, SpareWindow
  PROVE  WizardCore'
  BY DEF SpareWindow, WizardCore, WizardTypes, FlowShown, OwnText, KeyboardsShow, Suits, Newest, NativeWorktrees

(* A keyboard that expired is closed; its topic has no flow *)
LEMMA ExpiredCore ==
  ASSUME WizardCore, NEW i \in DOMAIN wizards, draft.topic # wizards[i].topic, Expired(i)
  PROVE  WizardCore'
<1> DEFINE k == Keyboard(wizards[i].topic, "none", NoPlace, wizards[i].space)
<1>1. /\ draft' = draft /\ Stays /\ wizards \in Seq(Keyboards)
      /\ Changed(i, k)
  BY Redraws, PlacesOf DEF Expired, Closed, WizardCore, WizardTypes, Screens
<1>2. Fits(k) /\ k.topic = wizards[i].topic
  BY DEF Fits, Keyboard
<1> HIDE DEF k
<1>3. FlowShown'
  BY <1>1, <1>2, FlowKept DEF WizardCore, Stays
<1>4. KeyboardsShow'
  BY <1>1, <1>2, ShownByChange DEF WizardCore
<1> QED
  BY <1>1, <1>3, <1>4 DEF WizardCore, WizardTypes, OwnText, Stays, Changed

----------------------------------------------------------------------------
(* The launch serves the keyboard it was asked on.                          *)

(* A launch from the newest keyboard serves what it shows.                 *)
LEMMA LaunchServes ==
  ASSUME WizardCore, NEW i, Newest(i), Suits(wizards[i], draft, attached[draft.topic]),
         wizards[i].screen \in {"provider", "mode"}, Launch(i, ClearBrowse(draft))
  PROVE  WizardCore' /\ LaunchedAsShown' /\ TextKeptInTopic'
<1> DEFINE d == ClearBrowse(draft)
           native == NativeWorktrees /\ d.repo /\ d.branch # 0
           place == IF native THEN Place("repo", d.branch) ELSE draft.path
<1>1. /\ draft \in Drafts /\ d \in Drafts /\ d.topic = draft.topic /\ d.space = draft.space
      /\ d.repo = draft.repo /\ d.branch = draft.branch
  BY ClearsOne DEF WizardCore, WizardTypes
<1>2. /\ i \in DOMAIN wizards /\ wizards[i] \in Keyboards /\ draft.topic = wizards[i].topic
      /\ wizards[i].path = draft.path /\ wizards[i].space = draft.space
      /\ NativeWorktrees => draft.branch = 0 \/ draft.path = Place("repo", draft.branch)
  BY DEF Newest, WizardCore, WizardTypes, Suits, Forks, LastScreens
<1>3. place = draft.path
  BY <1>1, <1>2
<1>4. /\ Ended(ClearPending(ClearWorktree(d))) /\ Ended(ClearPending(ClearWorkspace(ClearWorktree(d))))
  BY <1>1, FlowsEnd
<1>5. /\ Ended(draft') /\ Serve(i, d.topic, place, d.space) /\ Closed(i) /\ UNCHANGED <<mux, typings, spare>>
      /\ \/ attached' = attached \/ attached' = [attached EXCEPT ![d.topic] = "live"]
      /\ \/ branches' = branches
         \/ (branches' = branches \union {d.branch} /\ native)
  <2>1. /\ \/ /\ ~(native /\ d.space)
              /\ draft' = ClearPending(ClearWorktree(d))
              /\ attached' = IF d.topic = NoTopic THEN attached
                             ELSE [attached EXCEPT ![d.topic] = "live"]
              /\ branches' = IF native THEN branches \union {d.branch} ELSE branches
           \/ /\ draft' = ClearPending(ClearWorkspace(ClearWorktree(d)))
              /\ UNCHANGED <<attached, branches>>
        /\ Serve(i, d.topic, place, d.space) /\ Closed(i) /\ UNCHANGED <<mux, typings, spare>>
    BY DEF Launch
  <2>2. Ended(draft')
    BY <1>4, <2>1
  <2> HIDE DEF d, native, place
  <2>3. /\ \/ attached' = attached \/ attached' = [attached EXCEPT ![d.topic] = "live"]
        /\ \/ branches' = branches
           \/ (branches' = branches \union {d.branch} /\ native)
    BY <2>1
  <2> QED
    BY <2>1, <2>2, <2>3
<1>6. branches' \subseteq Branches
  <2>1. d.branch # 0 => d.branch \in Branches
    BY <1>1, Bounds DEF Drafts, Branches
  <2> QED
    BY <1>5, <2>1 DEF WizardCore, WizardTypes
<1> HIDE DEF d, native, place
<1>7. attached' \in [WzTopics -> {"free", "live", "dead"}]
  BY <1>5 DEF WizardCore, WizardTypes
<1>8. WizardCore'
  BY <1>2, <1>5, <1>6, <1>7, FlowLeaves
<1>9. LaunchedAsShown' /\ TextKeptInTopic'
  BY <1>1, <1>2, <1>3, <1>5 DEF Serve, LaunchedAsShown, TextKeptInTopic, WizardCore, OwnText
<1> QED
  BY <1>8, <1>9

(* What the guards of the provider and mode buttons establish.             *)
LEMMA ChoiceOfTap ==
  ASSUME WzHazards = {}, WizardCore, NEW i, NEW s \in {"provider", "mode"}, Chosen(i, s)
  PROVE  /\ draft.path = NoPlace => draft.topic # wizards[i].topic
         /\ draft.path # NoPlace => draft.topic # NoTopic
         /\ draft.path # NoPlace /\ ~Mismatch(i) =>
              /\ Newest(i) /\ Suits(wizards[i], draft, attached[draft.topic])
              /\ draft.topic = wizards[i].topic /\ attached[draft.topic] = "free"
<1>1. Tapped(i, s) /\ (draft.path # NoPlace => draft.topic # NoTopic)
  BY DEF Chosen, FlowReset
<1>2. ASSUME draft.topic = wizards[i].topic
      PROVE  /\ draft.path # NoPlace /\ attached[draft.topic] = "free" /\ Newest(i)
             /\ Suits(wizards[i], draft, attached[draft.topic])
  <2>1. Newest(i) /\ Suits(wizards[i], draft, attached[draft.topic])
    BY <1>1, <1>2, TappedIsNewest DEF WizardCore
  <2>2. wizards[i].screen = s
    BY <1>1 DEF Tapped
  <2> QED
    BY <2>1, <2>2 DEF Suits, LastScreens
<1> QED
  BY <1>1, <1>2 DEF Mismatch

(* A provider is chosen.                                                   *)
LEMMA SelectProviderCore ==
  ASSUME WzHazards = {}, WizardCore, NEW i \in DOMAIN wizards, NEW moded \in BOOLEAN,
         SelectProvider(i, moded)
  PROVE  WizardCore' /\ LaunchedAsShown' /\ TextKeptInTopic'
<1>1. Chosen(i, "provider") /\ wizards[i].screen = "provider" /\ draft \in Drafts
  BY DEF SelectProvider, Chosen, Tapped, WizardCore, WizardTypes
<1>2. CASE draft.path = NoPlace
  <2>1. Expired(i) /\ draft.topic # wizards[i].topic
    BY <1>1, <1>2, ChoiceOfTap DEF SelectProvider
  <2> QED
    BY <2>1, ExpiredCore, ForgetsGood DEF Expired, Stays
<1>3. CASE draft.path # NoPlace /\ Mismatch(i)
  <2>1. draft' = ClearPending(ClearWorktree(draft)) /\ UNCHANGED wizards /\ Stays
    BY <1>3 DEF SelectProvider, Validated
  <2>2. Ended(draft')
    BY <1>1, <2>1, FlowsEnd
  <2> QED
    BY <2>1, <2>2, FlowLeaves, ForgetsGood DEF Stays, WizardCore, WizardTypes
<1>4. CASE draft.path # NoPlace /\ ~Mismatch(i)
  <2>1. /\ Newest(i) /\ Suits(wizards[i], draft, attached[draft.topic])
        /\ draft.topic = wizards[i].topic /\ attached[wizards[i].topic] = "free"
    BY <1>1, <1>4, ChoiceOfTap
  <2>2. IF moded THEN UNCHANGED draft /\ Redraw(i, "mode", draft.path) /\ Stays
        ELSE Launch(i, ClearBrowse(draft))
    BY <1>4, <2>1 DEF SelectProvider, Validated
  <2>3. CASE ~moded
    BY <1>1, <2>1, <2>2, <2>3, LaunchServes
  <2>4. CASE moded
    <3> DEFINE k == Keyboard(wizards[i].topic, "mode", draft.path, wizards[i].space)
    <3>1. draft' = draft /\ Stays /\ Changed(i, k)
      BY <1>1, <2>2, <2>4, Redraws DEF WizardCore, WizardTypes, Screens, Drafts
    <3>2. Fits(k) /\ k.topic = wizards[i].topic /\ Suits(k, draft', attached[draft.topic])
      BY <1>1, <2>1, <3>1 DEF Fits, Keyboard, Suits, Forks, LastScreens
    <3> HIDE DEF k
    <3> QED
      BY <1>1, <2>1, <3>1, <3>2, FlowMoves, ForgetsGood DEF Stays, WizardCore, WizardTypes
  <2> QED
    BY <2>3, <2>4
<1> QED
  BY <1>2, <1>3, <1>4

(* A mode is chosen.                                                       *)
LEMMA SelectModeCore ==
  ASSUME WzHazards = {}, WizardCore, NEW i \in DOMAIN wizards, SelectMode(i)
  PROVE  WizardCore' /\ LaunchedAsShown' /\ TextKeptInTopic'
<1>1. Chosen(i, "mode") /\ wizards[i].screen = "mode" /\ draft \in Drafts
  BY DEF SelectMode, Chosen, Tapped, WizardCore, WizardTypes
<1>2. CASE draft.path = NoPlace
  <2>1. Expired(i) /\ draft.topic # wizards[i].topic
    BY <1>1, <1>2, ChoiceOfTap DEF SelectMode
  <2> QED
    BY <2>1, ExpiredCore, ForgetsGood DEF Expired, Stays
<1>3. CASE draft.path # NoPlace /\ Mismatch(i)
  <2>1. draft' = ClearPending(ClearWorktree(ClearBrowse(draft))) /\ UNCHANGED wizards /\ Stays
    BY <1>3 DEF SelectMode, Validated
  <2>2. Ended(draft')
    BY <1>1, <2>1, FlowsEnd
  <2> QED
    BY <2>1, <2>2, FlowLeaves, ForgetsGood DEF Stays, WizardCore, WizardTypes
<1>4. CASE draft.path # NoPlace /\ ~Mismatch(i)
  <2>1. /\ Newest(i) /\ Suits(wizards[i], draft, attached[draft.topic])
        /\ draft.topic = wizards[i].topic /\ attached[wizards[i].topic] = "free"
    BY <1>1, <1>4, ChoiceOfTap
  <2>2. Launch(i, ClearBrowse(draft))
    BY <1>4, <2>1 DEF SelectMode, Validated
  <2> QED
    BY <1>1, <2>1, <2>2, LaunchServes
<1> QED
  BY <1>2, <1>3, <1>4

(* The window is created and bound.                                        *)
LEMMA CreateAndBindCore ==
  ASSUME WzHazards = {}, WizardCore, LaunchedAsShown, TextKeptInTopic,
         NEW i \in DOMAIN wizards, CreateAndBind(i)
  PROVE  WizardCore' /\ LaunchedAsShown' /\ TextKeptInTopic'
<1> DEFINE t == wizards[i].topic
<1>1. CASE Refuse
  BY <1>1, SameCore DEF Refuse
<1> SUFFICES ASSUME ~Refuse
             PROVE  WizardCore' /\ LaunchedAsShown' /\ TextKeptInTopic'
  BY <1>1
<1>2. Tapped(i, "recovery") /\ ValidRecovery(i) /\ Closed(i) /\ UNCHANGED <<mux, typings, spare, branches>>
  BY DEF CreateAndBind
<1>3. ~Mismatch(i)
  BY <1>2 DEF ValidRecovery, Mismatch, FlowReset
<1>4. /\ wizards[i] \in Keyboards /\ wizards[i].screen = "recovery" /\ draft \in Drafts /\ Plain(draft)
      /\ (draft.topic = NoTopic /\ draft.text = 0) \/ draft.topic = wizards[i].topic
  BY <1>2, <1>3, MatchOfTap DEF Suits, Forks, LastScreens
<1>5. attached[t] # "live"
  <2>1. CASE FlowReset
    BY <1>2, <2>1 DEF ValidRecovery
  <2>2. CASE ~FlowReset
    BY <1>2, <1>3, <2>2, MatchOfTap DEF Suits, FlowReset
  <2> QED
    BY <2>1, <2>2
<1>6. /\ draft' = ClearRecovery(draft)
      /\ \/ attached' = [attached EXCEPT ![t] = "live"] /\ Serve(i, wizards[i].topic, NoPlace, FALSE)
         \/ attached' = [attached EXCEPT ![t] = "free"] /\ Forgets
  BY <1>5 DEF CreateAndBind
<1>7. Ended(draft')
  BY <1>4, <1>6, FlowsEnd
<1>8. attached' \in [WzTopics -> {"free", "live", "dead"}]
  BY <1>6 DEF WizardCore, WizardTypes
<1>9. WizardCore'
  BY <1>2, <1>7, <1>8, FlowLeaves DEF WizardCore, WizardTypes
<1>10. wizards[i].path = NoPlace /\ wizards[i].space = FALSE
  BY <1>4 DEF WizardCore, KeyboardsShow, Keyboards
<1>11. LaunchedAsShown' /\ TextKeptInTopic'
  <2>1. CASE Serve(i, wizards[i].topic, NoPlace, FALSE)
    BY <1>2, <1>4, <1>10, <2>1 DEF Serve, LaunchedAsShown, TextKeptInTopic, WizardCore, OwnText
  <2> QED
    BY <1>6, <2>1, ForgetsGood
<1> QED
  BY <1>9, <1>11

----------------------------------------------------------------------------
(* The invariant.                                                           *)

(* The start.                                                              *)
LEMMA WizardStarts == WizardInit => WizardInOrder
<1> SUFFICES ASSUME WizardInit PROVE WizardInOrder
  OBVIOUS
<1>1. draft \in Drafts
  BY Zeroes, PlacesOf DEF WizardInit, NoDraft, Drafts
<1>2. wizards \in Seq(Keyboards) /\ Len(wizards) <= MaxCards /\ typings \in Seq(WzTopics) /\ Len(typings) <= MaxTexts
  BY Bounds DEF WizardInit
<1>3. branches \subseteq Branches /\ attached \in [WzTopics -> {"free", "live", "dead"}]
  BY DEF WizardInit
<1>4. FlowShown /\ OwnText /\ KeyboardsShow
  BY DEF WizardInit, FlowShown, OwnText, KeyboardsShow, NoDraft, Plain
<1>5. LaunchedAsShown /\ TextKeptInTopic
  BY DEF WizardInit, NotServed, NoKeyboard, LaunchedAsShown, TextKeptInTopic
<1> QED
  BY <1>1, <1>2, <1>3, <1>4, <1>5 DEF WizardInOrder, WizardTypes

(* Every button keeps the invariant.                                       *)
LEMMA TapStep ==
  ASSUME WzHazards = {}, WizardCore, LaunchedAsShown, TextKeptInTopic, NEW i \in DOMAIN wizards,
         \/ BindPicked(i) \/ PickNew(i) \/ PickCancel(i)
         \/ \E dir \in {"cwd", "repo"} : Navigate(i, dir)
         \/ Confirm(i) \/ UseCurrent(i) \/ NewWorktree(i) \/ EditName(i) \/ ConfirmWorktree(i)
         \/ BrowserCancel(i) \/ CreateAndBind(i) \/ RecoveryCancel(i)
         \/ \E choice \in BOOLEAN : ChooseSpace(i, choice) \/ SelectProvider(i, choice)
         \/ SelectMode(i)
  PROVE  WizardCore' /\ LaunchedAsShown' /\ TextKeptInTopic'
<1>1. CASE Refuse
  BY <1>1, SameCore DEF Refuse
<1>2. CASE BindPicked(i) \/ CreateAndBind(i) \/ SelectMode(i)
           \/ \E choice \in BOOLEAN : SelectProvider(i, choice)
  BY <1>2, BindPickedCore, CreateAndBindCore, SelectModeCore, SelectProviderCore
<1>3. CASE Confirm(i)
  BY <1>3, ConfirmCore, ForgetsGood DEF Confirm, Stays
<1>4. CASE ~Refuse /\ (PickNew(i) \/ PickCancel(i) \/ UseCurrent(i) \/ NewWorktree(i) \/ EditName(i))
  BY <1>4, PickNewCore, PickCancelCore, UseCurrentCore, NewWorktreeCore, EditNameCore, ForgetsGood
     DEF PickNew, PickCancel, UseCurrent, NewWorktree, EditName, Stays
<1>5. CASE ~Refuse /\ (ConfirmWorktree(i) \/ BrowserCancel(i) \/ RecoveryCancel(i))
  BY <1>5, ConfirmWorktreeCore, BrowserCancelCore, RecoveryCancelCore, ForgetsGood
     DEF ConfirmWorktree, BrowserCancel, RecoveryCancel, Stays
<1>6. ASSUME NEW dir \in {"cwd", "repo"}, Navigate(i, dir), ~Refuse
      PROVE  WizardCore' /\ LaunchedAsShown' /\ TextKeptInTopic'
  BY <1>6, NavigateCore, ForgetsGood DEF Navigate, Stays
<1>7. ASSUME NEW choice \in BOOLEAN, ChooseSpace(i, choice), ~Refuse
      PROVE  WizardCore' /\ LaunchedAsShown' /\ TextKeptInTopic'
  BY <1>7, ChooseSpaceCore, ForgetsGood DEF ChooseSpace, Stays
<1> QED
  BY <1>1, <1>2, <1>3, <1>4, <1>5, <1>6, <1>7

(* So does what happens in a topic.                                        *)
LEMMA TopicStep ==
  ASSUME WzHazards = {}, WizardCore, NEW t \in WzTopics,
         \/ UnboundTopic(t) \/ DeadWindow(t) \/ RestoreCommand(t)
         \/ WindowDies(t) \/ BoundElsewhere(t)
         \/ \E b \in Branches : WorktreeNameReply(t, b)
  PROVE  WizardCore' /\ LaunchedAsShown' /\ TextKeptInTopic'
<1>1. CASE UnboundTopic(t) \/ DeadWindow(t)
  BY <1>1, UnboundTopicCore, DeadWindowCore, ForgetsGood DEF UnboundTopic, DeadWindow, Passes
<1>2. CASE RestoreCommand(t) \/ WindowDies(t) \/ BoundElsewhere(t)
  BY <1>2, RestoreCore, WindowDiesCore, BoundElsewhereCore, ForgetsGood
     DEF RestoreCommand, WindowDies, BoundElsewhere, Stays
<1>3. ASSUME NEW b \in Branches, WorktreeNameReply(t, b)
      PROVE  WizardCore' /\ LaunchedAsShown' /\ TextKeptInTopic'
  BY <1>3, WorktreeNameCore, ForgetsGood DEF WorktreeNameReply, Stays
<1> QED
  BY <1>1, <1>2, <1>3

(* So does every step.                                                     *)
LEMMA WizardStep ==
  ASSUME WzHazards = {}, WizardInOrder, [WizardNext]_wzVars
  PROVE  WizardInOrder'
<1>1. WizardCore /\ LaunchedAsShown /\ TextKeptInTopic
  BY DEF WizardInOrder, WizardCore
<1>2. CASE UNCHANGED wzVars
  BY <1>1, <1>2, SameCore DEF WizardInOrder, WizardCore
<1>3. CASE StartCommand \/ SpareWindow
  BY <1>1, <1>3, StartCore, SpareCore, ForgetsGood
     DEF StartCommand, SpareWindow, Stays, WizardInOrder, WizardCore
<1> QED
  BY <1>1, <1>2, <1>3, TapStep, TopicStep DEF WizardNext, WizardInOrder, WizardCore

(* What the invariant is for.                                              *)
LEMMA WizardImplies == WizardInOrder => WizardInv /\ LaunchedAsShown
<1> SUFFICES ASSUME WizardInOrder PROVE WizardInv
  BY DEF WizardInOrder
<1>1. WizardTypeOK /\ TextKeptInTopic
  BY DEF WizardInOrder, WizardTypes, WizardTypeOK, Drafts
<1>2. ConfirmAnswers
  <2> SUFFICES ASSUME NEW i \in DOMAIN wizards, wizards[i].screen = "confirm",
                      draft.topic = wizards[i].topic,
                      \A j \in (i + 1)..Len(wizards) : wizards[j].topic # wizards[i].topic
               PROVE  ~draft.creating
    BY DEF ConfirmAnswers
  <2>1. wizards[i] \in Keyboards /\ DOMAIN wizards = 1..Len(wizards) /\ Len(wizards) \in Nat
    BY DEF WizardInOrder, WizardTypes
  <2>2. \A j \in DOMAIN wizards : j > i => j \in (i + 1)..Len(wizards)
    BY <2>1
  <2>3. Newest(i) /\ draft.topic # NoTopic
    BY <2>1, <2>2, Bounds DEF Newest, Keyboards
  <2>4. PICK j \in DOMAIN wizards : Newest(j) /\ Suits(wizards[j], draft, attached[draft.topic])
    BY <2>3 DEF WizardInOrder, FlowShown
  <2> QED
    BY <2>3, <2>4, NewestIsOne DEF Suits, Forks, WizardInOrder, WizardTypes
<1> QED
  BY <1>1, <1>2 DEF WizardInv

(* With no hazard of WzHazards, user_data and the keyboards agree in       *)
(* every reachable state (topic_creation.py, directory_callbacks.py,       *)
(* user_state.py).                                                         *)
THEOREM WizardAlways == ASSUME WzHazards = {} PROVE WizardSpec => []WizardInOrder
<1>1. WizardInOrder /\ [WizardNext]_wzVars => WizardInOrder'
  BY WizardStep
<1> QED
  BY <1>1, WizardStarts, PTL DEF WizardSpec

(* With no hazard of WzHazards, for every number of topics, keyboards and  *)
(* texts: a text is typed into a window of the topic it was sent to, and   *)
(* a confirm screen that answers taps finds the flag of a second tap       *)
(* clear (text_handler.py, directory_callbacks.py,                         *)
(* window_launch_service.py).                                              *)
THEOREM WizardKept == ASSUME WzHazards = {} PROVE WizardSpec => []WizardInv
<1> QED
  BY WizardAlways, WizardImplies, PTL

(* With no hazard of WzHazards, a launch serves the topic of the tapped    *)
(* keyboard, in the directory and the workspace that keyboard showed,      *)
(* whatever the other topics did to user_data in between                   *)
(* (topic_creation_draft.py).                                              *)
THEOREM LaunchesAsShown == ASSUME WzHazards = {} PROVE WizardSpec => []LaunchedAsShown
<1> QED
  BY WizardAlways, WizardImplies, PTL

----------------------------------------------------------------------------
(* The relay of a shell.                                                   *)

Requests == ShMessages \union {NoRequest}
ScreenEcho(n) == <<"echo", n * 100>>
Exits == {"run", "ok", "fail"}
Targets == [m : Requests, src : Sources, react : BOOLEAN, gen : Nat]
Monitors == [seen : BOOLEAN, echo : {NoEcho} \union {ScreenEcho(n) : n \in Nat},
             msg : Nat \X Nat, out : {<<>>} \union (Nat \X Nat), err : BOOLEAN, done : BOOLEAN, tg : Targets]
Relayed == [out : 0..MaxOut, err : BOOLEAN]

ShellTypes ==
  /\ {marker, capped, skip, generation, bound} \subseteq BOOLEAN
  /\ now \in [n : Nat, m : Requests, src : Sources, out : 0..MaxOut, exit : Exits]
  /\ base \in 0..now.n /\ shift = 0 /\ ~capped
  /\ mon \in Monitors /\ fix \in Targets
  /\ poll \in [pc : {"idle", "capture", "exit"}, m : Exits \union {NoRequest}, src : Sources]
  /\ poll.pc = "exit" => poll.m \in Exits
  /\ poll.pc = "idle" => poll = IdleJob
  /\ posts \in Seq(Relayed)
  /\ pending \in Suggestion \union {NoCard} /\ offers \subseteq Suggestion /\ answered \subseteq ShMessages
  /\ reacts \in [ShMessages -> {"none", "running", "ok", "fail"}]
  /\ routing \in [pc : {"idle", "llm", "run", "mark"}, m : Requests, src : Sources]
  /\ routing.pc = "idle" <=> routing = IdleJob
  /\ routing.pc # "idle" => routing.m \in ShMessages
  /\ fix # NoTg => fix.m \in ShMessages
  /\ fixGen \in Nat

(* Either nothing of the tracked command was relayed or one message was,   *)
(* with what the monitor remembers of it                                   *)
Unsaid == mon.out = <<>> /\ mon.msg = NoPost /\ posts = <<>> /\ ~mon.err
Said ==
  /\ mon.msg = <<now.n, 1>> /\ (mon.err => now.exit = "fail")
  /\ \E k \in 1..now.out : mon.out = <<now.n, k>> /\ posts = <<[out |-> k, err |-> mon.err]>>
RelayInOrder ==
  IF ~bound THEN poll.pc = "idle" /\ mon.msg = NoPost
  ELSE IF mon.echo = ScreenEcho(now.n) THEN now.n > 0 /\ (Unsaid \/ Said)
  ELSE /\ posts = <<>>
       /\ mon.echo = NoEcho \/ \E n \in 1..now.n : mon.echo = ScreenEcho(n)
       /\ mon.msg # NoPost => mon.msg[1] < now.n /\ mon.echo = ScreenEcho(mon.msg[1])
SeenIsShown ==
  bound /\ mon.seen /\ poll.pc # "capture" /\ marker /\ now.n > base /\ AtPrompt =>
    mon.echo = ScreenEcho(now.n) /\ mon.out = Text /\ (now.out > 0 /\ now.exit = "fail" => mon.err)

(* Whose the tracked command is, and how it ended                          *)
Ours(tg) == tg.m # NoRequest
VerdictOf(tg, exit) == <<tg.m, tg.src, exit>> \in ended
OwnersKnown ==
  /\ mon.tg.react => Ours(mon.tg) /\ mon.tg.src # "fix"
  /\ Ours(mon.tg) => mon.tg.m \in answered
  /\ now.m # NoRequest /\ AtPrompt => <<now.m, now.src, now.exit>> \in ended
  /\ IF routing.pc = "mark"
     THEN poll = IdleJob /\ now.m = routing.m /\ now.src = routing.src /\ routing.m \in answered
     ELSE /\ Ours(mon.tg) /\ now.m # NoRequest => now.m = mon.tg.m /\ now.src = mon.tg.src
          /\ Ours(mon.tg) /\ now.m = NoRequest => ~mon.tg.react /\ now.exit # "fail"
  /\ poll.pc = "exit" /\ Ours(mon.tg) =>
       /\ poll.m = "fail" => VerdictOf(mon.tg, "fail")
       /\ mon.tg.react /\ poll.m # "run" => VerdictOf(mon.tg, poll.m)

(* The card shown is the one that is pending                               *)
CardsInOrder ==
  /\ bound => offers \subseteq {pending}
  /\ routing.pc = "llm" => pending = NoCard
  /\ pending # NoCard /\ pending[2] = "fix" => EndedSo(pending[1], Sources, "fail")

ShellInOrder ==
  /\ ShellTypes /\ RelayInOrder /\ SeenIsShown /\ OwnersKnown /\ CardsInOrder
  /\ VerdictsMatch /\ CardsTellTruth /\ RequestsAnswered

----------------------------------------------------------------------------
(* What a step does to the monitor, and what it leaves alone.               *)

Remembers ==
  /\ mon' \in Monitors /\ mon'.echo = mon.echo /\ mon'.msg = mon.msg /\ mon'.out = mon.out
  /\ mon'.err = mon.err /\ mon'.done = mon.done /\ mon'.tg = mon.tg
Scrolled == Remembers /\ mon'.seen = FALSE

LEMMA ShellConstants ==
  MaxOut \in Nat \ {0} /\ NoRequest \notin ShMessages /\ (ShHazards = {} => \A h : h \notin ShHazards)
  BY ShellAssumption

LEMMA EchoesDiffer ==
  /\ \A n \in Nat : ScreenEcho(n) # NoEcho
  /\ \A n, k \in Nat : ScreenEcho(n) = ScreenEcho(k) => n = k
<1>1. ASSUME NEW n \in Nat, NEW k \in Nat, ScreenEcho(n) = ScreenEcho(k)
      PROVE  n = k
  <2>1. ScreenEcho(n)[2] = n * 100 /\ ScreenEcho(k)[2] = k * 100
    BY DEF ScreenEcho
  <2> QED
    BY <1>1, <2>1
<1>2. ASSUME NEW n \in Nat
      PROVE  ScreenEcho(n) # NoEcho
  <2>1. ScreenEcho(n)[1] = "echo" /\ NoEcho[1] = "none"
    BY DEF ScreenEcho, NoEcho
  <2> QED
    BY <2>1
<1> QED
  BY <1>1, <1>2

LEMMA FreshIsMonitor ==
  /\ NoTg \in Targets /\ FreshMonitor \in Monitors /\ FreshMonitor.tg = NoTg /\ FreshMonitor.msg = NoPost
  /\ FreshMonitor.echo = NoEcho /\ FreshMonitor.out = <<>> /\ FreshMonitor.err = FALSE
  /\ FreshMonitor.seen = TRUE /\ NoTg.m = NoRequest /\ NoTg.react = FALSE
  BY DEF NoTg, Targets, Requests, Sources, FreshMonitor, Monitors, NoPost

LEMMA ScreenMoves ==
  ASSUME mon \in Monitors, ScreenChanges
  PROVE  Scrolled
  BY DEF Monitors, ScreenChanges, Scrolled, Remembers

LEMMA ResetForgets ==
  ASSUME mon \in Monitors
  PROVE  /\ ResetMonitor \in Monitors /\ ResetMonitor.echo = NoEcho /\ ResetMonitor.msg = NoPost
         /\ ResetMonitor.out = <<>> /\ ResetMonitor.err = FALSE /\ ResetMonitor.done = FALSE
         /\ ResetMonitor.tg = mon.tg /\ ResetMonitor.seen = mon.seen
<1> DEFINE a == [mon EXCEPT !.echo = NoEcho]
           b == [a EXCEPT !.msg = NoPost]
           c == [b EXCEPT !.out = <<>>]
           d == [c EXCEPT !.err = FALSE]
           e == [d EXCEPT !.done = FALSE]
<1>1. a \in Monitors /\ a.echo = NoEcho /\ a.tg = mon.tg /\ a.seen = mon.seen
  BY DEF Monitors
<1> HIDE DEF a
<1>2. b \in Monitors /\ b.echo = NoEcho /\ b.tg = mon.tg /\ b.seen = mon.seen /\ b.msg = NoPost
  BY <1>1 DEF Monitors, NoPost
<1> HIDE DEF b
<1>3. c \in Monitors /\ c.echo = NoEcho /\ c.tg = mon.tg /\ c.seen = mon.seen /\ c.msg = NoPost /\ c.out = <<>>
  BY <1>2 DEF Monitors
<1> HIDE DEF c
<1>4. d \in Monitors /\ d.echo = NoEcho /\ d.tg = mon.tg /\ d.seen = mon.seen /\ d.msg = NoPost /\ d.out = <<>>
      /\ d.err = FALSE
  BY <1>3 DEF Monitors
<1> HIDE DEF d
<1>5. e \in Monitors /\ e.echo = NoEcho /\ e.tg = mon.tg /\ e.seen = mon.seen /\ e.msg = NoPost /\ e.out = <<>>
      /\ e.err = FALSE /\ e.done = FALSE
  BY <1>4 DEF Monitors
<1>6. ResetMonitor = e
  BY DEF a, b, c, d, ResetMonitor
<1> QED
  BY <1>5, <1>6

LEMMA VerdictsKept ==
  ASSUME VerdictsMatch, ended \subseteq ended', reacts' = reacts, fix' = fix, offers' \subseteq offers
  PROVE  VerdictsMatch'
  BY DEF VerdictsMatch, EndedSo
LEMMA AnswersKept ==
  ASSUME RequestsAnswered, reacts' = reacts, routing' = routing, answered \subseteq answered'
  PROVE  RequestsAnswered'
  BY DEF RequestsAnswered
LEMMA CardsKept ==
  ASSUME CardsInOrder, bound' = bound, offers' = offers, pending' = pending, routing' = routing,
         ended \subseteq ended'
  PROVE  CardsInOrder'
  BY DEF CardsInOrder, EndedSo
LEMMA RelayKept ==
  ASSUME RelayInOrder, Remembers, bound' = bound, poll' = poll, posts' = posts, now' = now
  PROVE  RelayInOrder'
  BY DEF RelayInOrder, Remembers, Unsaid, Said
LEMMA OwnersKept ==
  ASSUME OwnersKnown, Remembers, poll' = poll, now' = now, answered \subseteq answered',
         routing' = routing \/ (routing.pc # "mark" /\ routing'.pc # "mark"), ended' = ended
  PROVE  OwnersKnown'
  BY DEF OwnersKnown, Remembers, Ours, VerdictOf, AtPrompt
LEMMA SeenKept ==
  ASSUME SeenIsShown, mon' = mon, bound' = bound, poll' = poll, now' = now, marker' = marker, base' = base
  PROVE  SeenIsShown'
  BY DEF SeenIsShown, Text, AtPrompt
LEMMA UnseenShown == ASSUME Scrolled PROVE SeenIsShown'
  BY DEF SeenIsShown, Scrolled
LEMMA RemembersAll ==
  ASSUME mon \in Monitors, mon' = mon
  PROVE  Remembers
  BY DEF Remembers
LEMMA CardTruthKept == ASSUME CardsTellTruth, presses' = presses PROVE CardsTellTruth'
  BY DEF CardsTellTruth

----------------------------------------------------------------------------
(* The terminal.                                                            *)

LEMMA ShellIdle == IdleJob.pc = "idle" /\ IdleJob.m = NoRequest /\ IdleJob.src = "raw"
  BY DEF IdleJob

LEMMA NowMoves ==
  ASSUME ShellTypes
  PROVE  /\ \A k \in 0..MaxOut : LET r == [now EXCEPT !.out = k] IN
              /\ r \in [n : Nat, m : Requests, src : Sources, out : 0..MaxOut, exit : Exits]
              /\ r.n = now.n /\ r.m = now.m /\ r.src = now.src /\ r.out = k /\ r.exit = now.exit
         /\ \A e \in Exits : LET r == [now EXCEPT !.exit = e] IN
              /\ r \in [n : Nat, m : Requests, src : Sources, out : 0..MaxOut, exit : Exits]
              /\ r.n = now.n /\ r.m = now.m /\ r.src = now.src /\ r.out = now.out /\ r.exit = e
  BY DEF ShellTypes

(* A command starts                                                         *)
LEMMA CommandStarts ==
  ASSUME ShellInOrder, NEW m \in Requests, NEW src \in Sources, Runs(m, src), ScreenChanges
  PROVE  /\ now'.n = now.n + 1 /\ now'.m = m /\ now'.src = src /\ now'.out = 0 /\ now'.exit = "run"
         /\ now' \in [n : Nat, m : Requests, src : Sources, out : 0..MaxOut, exit : Exits]
         /\ posts' \in Seq(Relayed) /\ base' \in 0..now'.n /\ Scrolled
         /\ UNCHANGED <<ended, marker, base, capped, shift, poll, fix>>
         /\ bound' = bound => RelayInOrder' /\ SeenIsShown'
<1>1. /\ now'.n = now.n + 1 /\ now'.m = m /\ now'.src = src /\ now'.out = 0 /\ now'.exit = "run"
      /\ now' \in [n : Nat, m : Requests, src : Sources, out : 0..MaxOut, exit : Exits]
  BY ShellConstants DEF Runs, ShellInOrder, ShellTypes, Exits
<1>2. posts' = <<>> /\ posts' \in Seq(Relayed) /\ UNCHANGED <<ended, marker, base, capped, shift, poll, fix>>
  BY DEF Runs
<1>3. base' \in 0..now'.n
  BY <1>1, <1>2 DEF ShellInOrder, ShellTypes
<1>4. Scrolled
  BY ScreenMoves DEF ShellInOrder, ShellTypes
<1>5. ASSUME bound' = bound PROVE RelayInOrder'
  <2>1. CASE ~bound
    BY <1>2, <1>4, <1>5, <2>1 DEF ShellInOrder, RelayInOrder, Scrolled, Remembers
  <2>2. CASE bound
    <3>1. mon.echo = NoEcho \/ \E n \in 1..now.n : mon.echo = ScreenEcho(n)
      BY <2>2 DEF ShellInOrder, ShellTypes, RelayInOrder
    <3>2. mon'.echo # ScreenEcho(now'.n)
      BY <1>1, <1>4, <3>1, EchoesDiffer DEF Scrolled, Remembers, ShellInOrder, ShellTypes
    <3>3. mon'.echo = NoEcho \/ \E n \in 1..now'.n : mon'.echo = ScreenEcho(n)
      BY <1>1, <1>4, <3>1 DEF Scrolled, Remembers, ShellInOrder, ShellTypes
    <3>4. mon.msg # NoPost => mon.msg[1] < now.n + 1 /\ mon.echo = ScreenEcho(mon.msg[1])
      <4>1. now.n \in Nat
        BY DEF ShellInOrder, ShellTypes
      <4>2. CASE mon.echo = ScreenEcho(now.n)
        <5>1. mon.msg = NoPost \/ mon.msg = <<now.n, 1>>
          BY <2>2, <4>2 DEF ShellInOrder, RelayInOrder, Unsaid, Said
        <5> QED
          BY <4>1, <4>2, <5>1
      <4>3. CASE mon.echo # ScreenEcho(now.n)
        <5>1. mon.msg \in Nat \X Nat
          BY DEF ShellInOrder, ShellTypes, Monitors
        <5> QED
          BY <2>2, <4>1, <4>3, <5>1 DEF ShellInOrder, RelayInOrder
      <4> QED
        BY <4>2, <4>3
    <3> QED
      BY <1>1, <1>2, <1>4, <1>5, <2>2, <3>2, <3>3, <3>4 DEF RelayInOrder, Scrolled, Remembers
  <2> QED
    BY <2>1, <2>2 DEF ShellInOrder, ShellTypes
<1>6. SeenIsShown'
  BY <1>4, UnseenShown
<1> QED
  BY <1>1, <1>2, <1>3, <1>4, <1>5, <1>6

LEMMA TypeCommandKeeps ==
  ASSUME ShHazards = {}, ShellInOrder, TypeCommand
  PROVE  ShellInOrder'
<1>1. /\ AtPrompt /\ Runs(NoRequest, "raw") /\ ScreenChanges /\ UNCHANGED <<shTopic, reacts, fixGen>>
      /\ ~mon.tg.react /\ routing.pc # "mark"
  BY ShellConstants DEF TypeCommand
<1>2. /\ now'.n = now.n + 1 /\ now'.m = NoRequest /\ now'.src = "raw" /\ now'.out = 0 /\ now'.exit = "run"
      /\ now' \in [n : Nat, m : Requests, src : Sources, out : 0..MaxOut, exit : Exits]
      /\ posts' \in Seq(Relayed) /\ base' \in 0..now'.n /\ Scrolled
      /\ UNCHANGED <<ended, marker, base, capped, shift, poll, fix>>
      /\ bound' = bound => RelayInOrder' /\ SeenIsShown'
  <2>1. NoRequest \in Requests /\ "raw" \in Sources
    BY DEF Requests, Sources
  <2> QED
    BY <1>1, <2>1, CommandStarts
<1>3. ShellTypes'
  BY <1>1, <1>2 DEF ShellInOrder, ShellTypes, Scrolled, Remembers, shTopic
<1>4. OwnersKnown'
  BY <1>1, <1>2 DEF ShellInOrder, OwnersKnown, Scrolled, Remembers, shTopic, Ours, VerdictOf, AtPrompt
<1>5. CardsInOrder' /\ VerdictsMatch' /\ CardsTellTruth' /\ RequestsAnswered' /\ bound' = bound
  BY <1>1, <1>2, CardsKept, VerdictsKept, CardTruthKept, AnswersKept DEF ShellInOrder, shTopic
<1> QED
  BY <1>2, <1>3, <1>4, <1>5 DEF ShellInOrder

LEMMA OutputKeeps ==
  ASSUME ShHazards = {}, ShellInOrder, Output
  PROVE  ShellInOrder'
<1>1. /\ now.exit = "run" /\ now.out < MaxOut /\ now' = [now EXCEPT !.out = now.out + 1]
      /\ ScreenChanges /\ UNCHANGED <<poll, posts, fix, ended, marker, base, capped, shift, shTopic, reacts, fixGen>>
  BY ShellConstants DEF Output, AtPrompt, Changes
<1>2. /\ now' \in [n : Nat, m : Requests, src : Sources, out : 0..MaxOut, exit : Exits]
      /\ now'.n = now.n /\ now'.m = now.m /\ now'.src = now.src /\ now'.out = now.out + 1 /\ now'.exit = now.exit
  <2>1. now.out + 1 \in 0..MaxOut
    BY <1>1, ShellConstants DEF ShellInOrder, ShellTypes
  <2> QED
    BY <1>1, <2>1, NowMoves DEF ShellInOrder
<1>3. Scrolled /\ SeenIsShown'
  BY <1>1, ScreenMoves, UnseenShown DEF ShellInOrder, ShellTypes
<1>4. ShellTypes'
  BY <1>1, <1>2, <1>3 DEF ShellInOrder, ShellTypes, Scrolled, Remembers, shTopic
<1>5. OwnersKnown'
  BY <1>1, <1>2, <1>3 DEF ShellInOrder, OwnersKnown, Scrolled, Remembers, shTopic, Ours, VerdictOf, AtPrompt
<1>6. RelayInOrder'
  <2>1. Said => Said'
    <3> SUFFICES ASSUME Said PROVE Said'
      OBVIOUS
    <3>1. PICK k \in 1..now.out : mon.out = <<now.n, k>> /\ posts = <<[out |-> k, err |-> mon.err]>>
      BY DEF Said
    <3>2. k \in 1..now'.out
      BY <1>2 DEF ShellInOrder, ShellTypes
    <3> QED
      BY <1>1, <1>2, <1>3, <3>1, <3>2 DEF Said, Scrolled, Remembers
  <2>2. Unsaid => Unsaid'
    BY <1>1, <1>3 DEF Unsaid, Scrolled, Remembers
  <2> QED
    BY <1>1, <1>2, <1>3, <2>1, <2>2 DEF ShellInOrder, RelayInOrder, Scrolled, Remembers, shTopic
<1>7. CardsInOrder' /\ VerdictsMatch' /\ CardsTellTruth' /\ RequestsAnswered'
  BY <1>1, CardsKept, VerdictsKept, CardTruthKept, AnswersKept DEF ShellInOrder, shTopic
<1> QED
  BY <1>3, <1>4, <1>5, <1>6, <1>7 DEF ShellInOrder

LEMMA FinishKeeps ==
  ASSUME ShHazards = {}, ShellInOrder, NEW exit \in {"ok", "fail"}, Finish(exit)
  PROVE  ShellInOrder'
<1>1. /\ now.exit = "run" /\ now' = [now EXCEPT !.exit = exit] /\ ScreenChanges
      /\ now.m = NoRequest /\ exit = "fail" => mon.tg.m = NoRequest
      /\ ended' = IF now.m = NoRequest THEN ended ELSE ended \union {<<now.m, now.src, exit>>}
      /\ UNCHANGED <<poll, posts, fix, marker, base, capped, shift, shTopic, reacts, fixGen>>
  BY ShellConstants DEF Finish, AtPrompt, Changes
<1>2. /\ now' \in [n : Nat, m : Requests, src : Sources, out : 0..MaxOut, exit : Exits]
      /\ now'.n = now.n /\ now'.m = now.m /\ now'.src = now.src /\ now'.out = now.out /\ now'.exit = exit
  BY <1>1, NowMoves DEF ShellInOrder, Exits
<1>3. Scrolled /\ SeenIsShown'
  BY <1>1, ScreenMoves, UnseenShown DEF ShellInOrder, ShellTypes
<1>4. ShellTypes'
  BY <1>1, <1>2, <1>3 DEF ShellInOrder, ShellTypes, Scrolled, Remembers, shTopic
<1>5. ended \subseteq ended' /\ (now.m # NoRequest => <<now.m, now.src, exit>> \in ended')
  BY <1>1
<1>6. OwnersKnown'
  BY <1>1, <1>2, <1>3, <1>5 DEF ShellInOrder, OwnersKnown, Scrolled, Remembers, shTopic, Ours, VerdictOf, AtPrompt
<1>7. RelayInOrder'
  <2>1. (Said => Said') /\ (Unsaid => Unsaid')
    BY <1>1, <1>2, <1>3 DEF Said, Unsaid, Scrolled, Remembers
  <2> QED
    BY <1>1, <1>2, <1>3, <2>1 DEF ShellInOrder, RelayInOrder, Scrolled, Remembers, shTopic
<1>8. CardsInOrder' /\ VerdictsMatch' /\ CardsTellTruth' /\ RequestsAnswered'
  BY <1>1, <1>5, CardsKept, VerdictsKept, CardTruthKept, AnswersKept DEF ShellInOrder, shTopic
<1> QED
  BY <1>3, <1>4, <1>6, <1>7, <1>8 DEF ShellInOrder

LEMMA LoseMarkerKeeps ==
  ASSUME ShHazards = {}, ShellInOrder, LoseMarker
  PROVE  ShellInOrder'
<1>1. /\ marker' = FALSE /\ ScreenChanges
      /\ UNCHANGED <<poll, posts, fix, now, ended, base, capped, shift, shTopic, reacts, fixGen>>
  BY DEF LoseMarker, Changes
<1>2. Scrolled /\ SeenIsShown' /\ Remembers
  BY <1>1, ScreenMoves, UnseenShown DEF ShellInOrder, ShellTypes, Scrolled
<1>3. ShellTypes'
  BY <1>1, <1>2 DEF ShellInOrder, ShellTypes, Remembers, shTopic
<1>4. OwnersKnown' /\ RelayInOrder'
  BY <1>1, <1>2, OwnersKept, RelayKept DEF ShellInOrder, shTopic
<1>5. CardsInOrder' /\ VerdictsMatch' /\ CardsTellTruth' /\ RequestsAnswered'
  BY <1>1, CardsKept, VerdictsKept, CardTruthKept, AnswersKept DEF ShellInOrder, shTopic
<1> QED
  BY <1>2, <1>3, <1>4, <1>5 DEF ShellInOrder

----------------------------------------------------------------------------
(* The poll.                                                                *)

(* What is not tracked is forgotten without harm                            *)
LEMMA ForgettingKeeps ==
  ASSUME ShellInOrder, bound, ~Tracked, mon' = ResetMonitor \/ mon' = [ResetMonitor EXCEPT !.seen = TRUE],
         UNCHANGED <<now, posts, bound>>
  PROVE  RelayInOrder' /\ mon' \in Monitors /\ mon'.tg = mon.tg
<1>1. /\ mon' \in Monitors /\ mon'.echo = NoEcho /\ mon'.msg = NoPost /\ mon'.tg = mon.tg
  <2>1. ResetMonitor \in Monitors /\ ResetMonitor.echo = NoEcho /\ ResetMonitor.msg = NoPost
        /\ ResetMonitor.tg = mon.tg
    BY ResetForgets DEF ShellInOrder, ShellTypes
  <2> DEFINE r == ResetMonitor
  <2> HIDE DEF r
  <2>2. LET s == [r EXCEPT !.seen = TRUE] IN
        r \in Monitors => s \in Monitors /\ s.echo = r.echo /\ s.msg = r.msg /\ s.tg = r.tg
    BY DEF Monitors
  <2> QED
    BY <2>1, <2>2 DEF r
<1>2. posts = <<>>
  <2>1. now.n \in Nat
    BY DEF ShellInOrder, ShellTypes
  <2>2. CASE mon.echo = ScreenEcho(now.n)
    <3>1. mon.msg = NoPost
      BY <2>1, <2>2, EchoesDiffer DEF Tracked
    <3>2. now.n > 0 /\ <<now.n, 1>> # NoPost
      BY <2>1, <2>2 DEF ShellInOrder, RelayInOrder, NoPost
    <3> QED
      BY <2>2, <3>1, <3>2 DEF ShellInOrder, RelayInOrder, Unsaid, Said
  <2>3. CASE mon.echo # ScreenEcho(now.n)
    BY <2>3 DEF ShellInOrder, RelayInOrder
  <2> QED
    BY <2>2, <2>3
<1>3. now.n \in Nat /\ NoEcho # ScreenEcho(now.n)
  BY EchoesDiffer DEF ShellInOrder, ShellTypes
<1> QED
  BY <1>1, <1>2, <1>3 DEF RelayInOrder

LEMMA PollRenderKeeps ==
  ASSUME ShHazards = {}, ShellInOrder, PollRender
  PROVE  ShellInOrder'
<1>1. /\ poll = IdleJob /\ bound /\ routing.pc # "mark"
      /\ mon' = [(IF MarkersInTail \/ Tracked THEN mon ELSE ResetMonitor) EXCEPT !.seen = TRUE]
      /\ poll' = IF MarkersInTail THEN [IdleJob EXCEPT !.pc = "capture"] ELSE poll
      /\ UNCHANGED <<shPane, posts, fix, shTopic, reacts, fixGen>>
  BY ShellConstants DEF PollRender
<1>2. bound' = bound /\ UNCHANGED <<now, ended, marker, base, capped, shift>>
  BY <1>1 DEF shTopic, shPane
<1>3. /\ poll' \in [pc : {"idle", "capture", "exit"}, m : Exits \union {NoRequest}, src : Sources]
      /\ poll'.pc # "exit" /\ (MarkersInTail => poll'.pc = "capture") /\ (poll'.pc = "idle" => poll' = IdleJob)
      /\ poll.pc = "idle"
  BY <1>1 DEF IdleJob, ShellInOrder, ShellTypes, Sources
<1>4. RelayInOrder' /\ mon' \in Monitors /\ mon'.tg = mon.tg
  <2>1. CASE MarkersInTail \/ Tracked
    <3>1. mon' = [mon EXCEPT !.seen = TRUE]
      BY <1>1, <2>1
    <3>2. Remembers
      BY <3>1 DEF ShellInOrder, ShellTypes, Monitors, Remembers
    <3>3. posts' = posts
      BY <1>1
    <3> QED
      BY <1>1, <1>2, <3>2, <3>3 DEF ShellInOrder, RelayInOrder, Remembers, Unsaid, Said
  <2>2. CASE ~(MarkersInTail \/ Tracked)
    <3>1. mon' = [ResetMonitor EXCEPT !.seen = TRUE]
      BY <1>1, <2>2
    <3> QED
      BY <1>1, <1>2, <2>2, <3>1, ForgettingKeeps
  <2> QED
    BY <2>1, <2>2
<1>5. SeenIsShown'
  BY <1>1, <1>2, <1>3 DEF SeenIsShown, MarkersInTail, AtPrompt
<1>6. ShellTypes'
  BY <1>1, <1>2, <1>3, <1>4 DEF ShellInOrder, ShellTypes, shTopic
<1>7. OwnersKnown'
  BY <1>1, <1>2, <1>3, <1>4 DEF ShellInOrder, OwnersKnown, shTopic, Ours, VerdictOf, AtPrompt
<1>8. CardsInOrder' /\ VerdictsMatch' /\ CardsTellTruth' /\ RequestsAnswered'
  BY <1>1, <1>2, CardsKept, VerdictsKept, CardTruthKept, AnswersKept DEF ShellInOrder, shTopic
<1> QED
  BY <1>4, <1>5, <1>6, <1>7, <1>8 DEF ShellInOrder

(* What a poll that finds a command relays of it                            *)
Fields(m, echo, msg, out, err, tg, seen) ==
  /\ m \in Monitors /\ m.echo = echo /\ m.msg = msg /\ m.out = out /\ m.err = err
  /\ m.tg = tg /\ m.seen = seen

LEMMA EchoSet ==
  ASSUME NEW r \in Monitors, NEW n \in Nat
  PROVE  Fields([r EXCEPT !.echo = ScreenEcho(n)], ScreenEcho(n), r.msg, r.out, r.err, r.tg, r.seen)
  BY DEF Monitors, Fields

LEMMA RelaySet ==
  ASSUME NEW r \in Monitors, NEW text \in {<<>>} \union (Nat \X Nat), NEW msg \in Nat \X Nat, NEW e \in BOOLEAN
  PROVE  Fields([r EXCEPT !.out = text, !.msg = msg, !.err = e], r.echo, msg, text, e, r.tg, r.seen)
<1> DEFINE a == [r EXCEPT !.out = text]
           b == [a EXCEPT !.msg = msg]
           c == [b EXCEPT !.err = e]
<1>1. Fields(a, r.echo, r.msg, text, r.err, r.tg, r.seen)
  BY DEF Monitors, Fields
<1> HIDE DEF a
<1>2. Fields(b, r.echo, msg, text, r.err, r.tg, r.seen)
  BY <1>1 DEF Monitors, Fields
<1> HIDE DEF b
<1>3. Fields(c, r.echo, msg, text, e, r.tg, r.seen)
  BY <1>2 DEF Monitors, Fields
<1>4. [r EXCEPT !.out = text, !.msg = msg, !.err = e] = c
  BY DEF a, b, c
<1> QED
  BY <1>3, <1>4

(* The message a command has in the topic is its own, and the only one      *)
Says(k) == Text # k.out
MessageOf(k) == IF ~Says(k) \/ k.msg # NoPost THEN k.msg ELSE <<now.n, Len(posts) + 1>>
EndsBadly(k) == now.exit = "fail" /\ ~k.err /\ MessageOf(k) # NoPost
Shown == [out |-> now.out, err |-> now.exit = "fail"]
Relays(k) ==
  /\ mon' = [k EXCEPT !.out = Text, !.msg = MessageOf(k), !.err = k.err \/ EndsBadly(k)]
  /\ posts' = IF MessageOf(k)[1] # now.n \/ ~(Says(k) \/ EndsBadly(k)) THEN posts
              ELSE IF MessageOf(k)[2] > Len(posts) THEN Append(posts, Shown)
              ELSE [posts EXCEPT ![MessageOf(k)[2]] = Shown]
LEMMA RelayedOnce ==
  ASSUME ShellInOrder, bound, bound' = bound, UNCHANGED <<now, marker, base>>, now.n > 0,
         poll'.pc # "idle",
         NEW known \in Monitors, known.echo = ScreenEcho(now.n),
         \/ known.out = <<>> /\ known.msg = NoPost /\ posts = <<>> /\ ~known.err
         \/ /\ known.msg = <<now.n, 1>> /\ (known.err => now.exit = "fail")
            /\ \E k \in 1..now.out : known.out = <<now.n, k>> /\ posts = <<[out |-> k, err |-> known.err]>>,
         Relays(known)
  PROVE  /\ RelayInOrder' /\ SeenIsShown' /\ mon' \in Monitors /\ mon'.tg = known.tg
         /\ posts' \in Seq(Relayed)
<1> DEFINE says == Says(known)
           msg == MessageOf(known)
           fails == EndsBadly(known)
           shown == Shown
<1>0. /\ says <=> Text # known.out
      /\ msg = IF ~says \/ known.msg # NoPost THEN known.msg ELSE <<now.n, Len(posts) + 1>>
      /\ fails <=> (now.exit = "fail" /\ ~known.err /\ msg # NoPost)
      /\ shown = [out |-> now.out, err |-> now.exit = "fail"]
      /\ mon' = [known EXCEPT !.out = Text, !.msg = msg, !.err = known.err \/ fails]
      /\ posts' = IF msg[1] # now.n \/ ~(says \/ fails) THEN posts
                  ELSE IF msg[2] > Len(posts) THEN Append(posts, shown)
                  ELSE [posts EXCEPT ![msg[2]] = shown]
  BY DEF Says, MessageOf, EndsBadly, Shown, Relays
<1> HIDE DEF says, msg, fails, shown
<1> USE <1>0
<1>1. /\ now.n \in Nat /\ now.out \in 0..MaxOut /\ now.exit \in Exits /\ MaxOut \in Nat
      /\ known.err \in BOOLEAN /\ known.msg \in Nat \X Nat
  BY ShellConstants DEF ShellInOrder, ShellTypes, Monitors
<1>2. Text = (IF now.out = 0 THEN <<>> ELSE <<now.n, now.out>>) /\ Text \in {<<>>} \union (Nat \X Nat)
  BY <1>1 DEF Text
<1>3. shown \in Relayed /\ shown.out = now.out /\ shown.err = (now.exit = "fail")
  BY <1>1 DEF Relayed
<1>4. NoPost[1] = 0 /\ NoPost[2] = 0 /\ <<now.n, 1>> # NoPost /\ NoPost \in Nat \X Nat
  BY <1>1 DEF NoPost
<1>5. CASE now.out = 0
  <2>1. known.out = <<>> /\ known.msg = NoPost /\ posts = <<>> /\ ~known.err
    BY <1>1, <1>5
  <2>2. ~says /\ msg = NoPost /\ ~fails /\ Text = <<>>
    BY <1>2, <1>5, <2>1
  <2>3. posts' = <<>>
    BY <1>1, <1>4, <2>1, <2>2
  <2>4. (known.err \/ fails) = FALSE
    BY <2>1, <2>2
  <2>5. Fields(mon', known.echo, NoPost, <<>>, FALSE, known.tg, known.seen)
    <3>1. mon' = [known EXCEPT !.out = <<>>, !.msg = NoPost, !.err = FALSE]
      BY <2>2, <2>4
    <3>2. <<>> \in {<<>>} \union (Nat \X Nat) /\ FALSE \in BOOLEAN
      OBVIOUS
    <3>3. Fields([known EXCEPT !.out = <<>>, !.msg = NoPost, !.err = FALSE],
                 known.echo, NoPost, <<>>, FALSE, known.tg, known.seen)
      BY <1>4, <3>2, RelaySet
    <3> QED
      BY <3>1, <3>3
  <2>6. RelayInOrder'
    BY <2>3, <2>5 DEF Fields, RelayInOrder, Unsaid
  <2>7. SeenIsShown'
    BY <1>1, <1>5, <2>2, <2>5 DEF Fields, SeenIsShown, AtPrompt, Text
  <2>8. posts' \in Seq(Relayed) /\ mon' \in Monitors /\ mon'.tg = known.tg
    <3>1. <<>> \in Seq(Relayed)
      OBVIOUS
    <3> QED
      BY <2>3, <2>5, <3>1 DEF Fields
  <2> QED
    BY <2>6, <2>7, <2>8
<1>6. CASE now.out # 0
  <2>1. Text = <<now.n, now.out>> /\ now.out \in 1..now.out /\ Text # <<>>
    BY <1>1, <1>2, <1>6
  <2>2. msg = <<now.n, 1>> /\ msg \in Nat \X Nat /\ msg # NoPost /\ msg[1] = now.n /\ msg[2] = 1
    <3>1. CASE known.out = <<>> /\ known.msg = NoPost /\ posts = <<>> /\ ~known.err
      <4>1. says /\ msg = <<now.n, Len(posts) + 1>> /\ Len(posts) = 0
        BY <2>1, <3>1
      <4> QED
        BY <1>1, <1>4, <4>1
    <3>2. CASE known.msg = <<now.n, 1>>
      BY <1>1, <1>4, <3>2
    <3> QED
      BY <3>1, <3>2
  <2>3. (known.err \/ fails) = (now.exit = "fail") /\ (now.exit = "fail") \in BOOLEAN
    BY <2>2, <1>1, <1>4
  <2>4. Fields(mon', known.echo, <<now.n, 1>>, <<now.n, now.out>>, now.exit = "fail", known.tg, known.seen)
    <3> DEFINE e == now.exit = "fail"
    <3>1. e \in BOOLEAN
      BY <1>1
    <3>2. mon' = [known EXCEPT !.out = Text, !.msg = msg, !.err = e]
      BY <2>3
    <3> HIDE DEF e
    <3>3. Fields([known EXCEPT !.out = Text, !.msg = msg, !.err = e],
                 known.echo, msg, Text, e, known.tg, known.seen)
      BY <1>2, <2>2, <3>1, RelaySet
    <3>4. Fields(mon', known.echo, msg, Text, e, known.tg, known.seen)
      BY <3>2, <3>3
    <3> QED
      BY <2>1, <2>2, <3>4 DEF e
  <2>5. posts' = <<[out |-> now.out, err |-> now.exit = "fail"]>>
    <3>1. CASE known.out = <<>> /\ known.msg = NoPost /\ posts = <<>> /\ ~known.err
      <4>1. says /\ Len(posts) = 0
        BY <2>1, <3>1
      <4>2. posts' = Append(posts, shown)
        BY <2>2, <4>1
      <4>3. Append(<<>>, shown) = <<shown>>
        OBVIOUS
      <4> QED
        BY <3>1, <4>2, <4>3
    <3>2. ASSUME NEW k \in 1..now.out, known.out = <<now.n, k>>, posts = <<[out |-> k, err |-> known.err]>>
          PROVE  posts' = <<[out |-> now.out, err |-> now.exit = "fail"]>>
      <4>1. CASE says \/ fails
        <5>1. Len(posts) = 1 /\ ~(msg[2] > Len(posts))
          BY <2>2, <3>2
        <5>3. ~(msg[1] # now.n \/ ~(says \/ fails))
          BY <2>2, <4>1
        <5>4. posts' = [posts EXCEPT ![1] = shown]
          BY <2>2, <5>1, <5>3
        <5>2. posts' = <<shown>>
          BY <5>1, <5>4, <3>2
        <5> QED
          BY <5>2
      <4>2. CASE ~(says \/ fails)
        <5>1. posts' = posts
          BY <4>2
        <5>3. <<now.n, now.out>> = <<now.n, k>>
          BY <2>1, <3>2, <4>2
        <5>4. k = now.out
          BY <5>3
        <5>2. known.err = (now.exit = "fail")
          <6>1. known.err => now.exit = "fail"
            BY <1>1, <2>1, <3>2, <1>6
          <6>2. now.exit = "fail" => known.err
            BY <2>2, <4>2
          <6> QED
            BY <1>1, <6>1, <6>2
        <5> QED
          BY <3>2, <5>1, <5>2, <5>4
      <4> QED
        BY <4>1, <4>2
    <3> QED
      BY <3>1, <3>2
  <2>6. Said'
    BY <2>1, <2>4, <2>5 DEF Fields, Said
  <2>7. RelayInOrder'
    BY <2>4, <2>6 DEF Fields, RelayInOrder
  <2>8. Text' = <<now.n, now.out>>
    BY <2>1 DEF Text
  <2>9. SeenIsShown'
    BY <2>4, <2>8 DEF Fields, SeenIsShown, AtPrompt
  <2>10. posts' \in Seq(Relayed)
    <3>1. <<shown>> \in Seq(Relayed)
      BY <1>3
    <3> QED
      BY <2>5, <3>1
  <2> QED
    BY <2>4, <2>7, <2>9, <2>10 DEF Fields
<1> QED
  BY <1>5, <1>6

LEMMA PollRelayKeeps ==
  ASSUME ShHazards = {}, ShellInOrder, NEW ok \in BOOLEAN, PollRelay(ok)
  PROVE  ShellInOrder'
<1> DEFINE known == IF Identity = mon.echo THEN mon ELSE [ResetMonitor EXCEPT !.echo = Identity]
           says == Text # known.out
           msg == IF ~says \/ known.msg # NoPost THEN known.msg
                  ELSE IF ok THEN <<now.n, Len(posts) + 1>> ELSE NoPost
           fails == now.exit = "fail" /\ ~known.err /\ msg # NoPost
           shown == [out |-> now.out, err |-> now.exit = "fail"]
<1>1. /\ poll.pc = "capture" /\ ok = TRUE
      /\ UNCHANGED <<shPane, fix, shTopic, reacts, fixGen>>
  BY ShellConstants DEF PollRelay
<1>2. bound' = bound /\ UNCHANGED <<now, ended, marker, base, capped, shift>> /\ bound
  BY <1>1 DEF shTopic, shPane, ShellInOrder, RelayInOrder
<1>3. \/ /\ Nothing /\ mon' = (IF Tracked THEN mon ELSE ResetMonitor) /\ poll' = IdleJob /\ UNCHANGED posts
      \/ /\ ~Nothing
         /\ mon' = [known EXCEPT !.out = Text, !.msg = msg, !.err = known.err \/ fails]
         /\ posts' = IF msg[1] # now.n \/ ~(says \/ fails) \/ ~ok THEN posts
                     ELSE IF msg[2] > Len(posts) THEN Append(posts, shown)
                     ELSE [posts EXCEPT ![msg[2]] = shown]
         /\ poll' = [pc |-> "exit", m |-> now.exit, src |-> "raw"]
  BY DEF PollRelay
<1>4. ~Echoless /\ routing.pc # "mark"
  BY <1>1, ShellIdle DEF ShellInOrder, ShellTypes, Echoless, OwnersKnown
<1> DEFINE Kept == /\ RelayInOrder' /\ SeenIsShown' /\ mon' \in Monitors /\ mon'.tg = mon.tg
                   /\ posts' \in Seq(Relayed)
                   /\ poll' = IdleJob \/ poll' = [pc |-> "exit", m |-> now.exit, src |-> "raw"]
<1>5. ASSUME Nothing, mon' = (IF Tracked THEN mon ELSE ResetMonitor), poll' = IdleJob, UNCHANGED posts
      PROVE  Kept
  <2>1. SeenIsShown'
    <3>1. ~(marker /\ now.n > base /\ AtPrompt)
      BY <1>4, <1>5 DEF Nothing, MarkersInTail, ShellInOrder, ShellTypes
    <3> QED
      BY <1>2, <3>1 DEF SeenIsShown, AtPrompt
  <2>2. CASE Tracked
    <3>1. mon' = mon /\ Remembers
      BY <1>5, <2>2, RemembersAll DEF ShellInOrder, ShellTypes
    <3>2. RelayInOrder'
      BY <1>2, <1>5, <3>1 DEF ShellInOrder, RelayInOrder, Unsaid, Said
    <3>3. mon' \in Monitors /\ mon'.tg = mon.tg /\ posts' \in Seq(Relayed)
      BY <1>5, <3>1 DEF ShellInOrder, ShellTypes
    <3> QED
      BY <1>5, <2>1, <3>2, <3>3
  <2>3. CASE ~Tracked
    <3>1. mon' = ResetMonitor /\ UNCHANGED <<now, posts, bound>>
      BY <1>2, <1>5, <2>3
    <3>2. RelayInOrder' /\ mon' \in Monitors /\ mon'.tg = mon.tg
      BY <1>2, <2>3, <3>1, ForgettingKeeps
    <3>3. posts' \in Seq(Relayed)
      BY <1>5 DEF ShellInOrder, ShellTypes
    <3> QED
      BY <1>5, <2>1, <3>2, <3>3
  <2> QED
    BY <2>2, <2>3
<1>6. ASSUME ~Nothing,
             mon' = [known EXCEPT !.out = Text, !.msg = msg, !.err = known.err \/ fails],
             posts' = IF msg[1] # now.n \/ ~(says \/ fails) \/ ~ok THEN posts
                      ELSE IF msg[2] > Len(posts) THEN Append(posts, shown)
                      ELSE [posts EXCEPT ![msg[2]] = shown],
             poll' = [pc |-> "exit", m |-> now.exit, src |-> "raw"]
      PROVE  Kept
  <2>1. now.n \in Nat /\ now.n > 0 /\ mon \in Monitors
    BY <1>6 DEF Nothing, ShellInOrder, ShellTypes
  <2>2. Identity = ScreenEcho(now.n)
    <3>1. now.n * 100 - shift = now.n * 100
      BY <2>1 DEF ShellInOrder, ShellTypes
    <3> QED
      BY <1>4, <3>1 DEF Identity, ScreenEcho
  <2>3. /\ known \in Monitors /\ known.echo = ScreenEcho(now.n) /\ known.tg = mon.tg
        /\ \/ known.out = <<>> /\ known.msg = NoPost /\ posts = <<>> /\ ~known.err
           \/ /\ known.msg = <<now.n, 1>> /\ (known.err => now.exit = "fail")
              /\ \E k \in 1..now.out : known.out = <<now.n, k>> /\ posts = <<[out |-> k, err |-> known.err]>>
    <3>1. CASE mon.echo = ScreenEcho(now.n)
      <4>1. known = mon
        BY <2>2, <3>1
      <4> QED
        BY <1>2, <2>1, <3>1, <4>1 DEF ShellInOrder, RelayInOrder, Unsaid, Said
    <3>2. CASE mon.echo # ScreenEcho(now.n)
      <4>1. known = [ResetMonitor EXCEPT !.echo = ScreenEcho(now.n)]
        BY <2>2, <3>2
      <4>2. /\ ResetMonitor \in Monitors /\ ResetMonitor.out = <<>> /\ ResetMonitor.msg = NoPost
            /\ ResetMonitor.err = FALSE /\ ResetMonitor.tg = mon.tg
        BY <2>1, ResetForgets
      <4>3. Fields([ResetMonitor EXCEPT !.echo = ScreenEcho(now.n)], ScreenEcho(now.n), ResetMonitor.msg,
                   ResetMonitor.out, ResetMonitor.err, ResetMonitor.tg, ResetMonitor.seen)
        BY <2>1, <4>2, EchoSet
      <4>4. posts = <<>>
        BY <1>2, <3>2 DEF ShellInOrder, RelayInOrder
      <4> HIDE DEF known
      <4> QED
        BY <4>1, <4>2, <4>3, <4>4 DEF Fields
    <3> QED
      BY <3>1, <3>2
  <2>4. poll'.pc = "exit"
    BY <1>6
  <2>5. msg = MessageOf(known)
    BY <1>1 DEF MessageOf, Says
  <2>6. Relays(known)
    <3>1. says = Says(known) /\ fails = EndsBadly(known) /\ shown = Shown
      BY <2>5 DEF Says, EndsBadly, Shown
    <3>2. /\ mon' = [known EXCEPT !.out = Text, !.msg = msg, !.err = known.err \/ fails]
          /\ posts' = IF msg[1] # now.n \/ ~(says \/ fails) THEN posts
                      ELSE IF msg[2] > Len(posts) THEN Append(posts, shown)
                      ELSE [posts EXCEPT ![msg[2]] = shown]
      BY <1>1, <1>6
    <3> HIDE DEF known, says, msg, fails, shown
    <3> QED
      BY <2>5, <3>1, <3>2 DEF Relays
  <2>7. bound /\ bound' = bound /\ UNCHANGED <<now, marker, base>> /\ poll'.pc # "idle"
    BY <1>2, <1>6, <2>4
  <2> HIDE DEF known, says, msg, fails, shown
  <2>9. /\ RelayInOrder' /\ SeenIsShown' /\ mon' \in Monitors /\ mon'.tg = known.tg
        /\ posts' \in Seq(Relayed)
    BY <2>1, <2>3, <2>6, <2>7, RelayedOnce
  <2> QED
    BY <1>6, <2>3, <2>9
<1>7. Kept
  BY <1>3, <1>5, <1>6
<1> HIDE DEF known, says, msg, fails, shown
<1>8. /\ poll' \in [pc : {"idle", "capture", "exit"}, m : Exits \union {NoRequest}, src : Sources]
      /\ poll'.pc = "exit" => poll'.m = now.exit
      /\ poll'.pc = "idle" => poll' = IdleJob
      /\ now.exit \in Exits
  BY <1>7 DEF IdleJob, ShellInOrder, ShellTypes, Sources
<1>9. ShellTypes'
  BY <1>1, <1>2, <1>7, <1>8 DEF ShellInOrder, ShellTypes, shTopic
<1>10. OwnersKnown'
  <2>1. poll'.pc = "exit" /\ Ours(mon.tg) =>
          /\ now.exit = "fail" => VerdictOf(mon.tg, "fail")
          /\ mon.tg.react /\ now.exit # "run" => VerdictOf(mon.tg, now.exit)
    BY <1>4 DEF ShellInOrder, OwnersKnown, Ours, VerdictOf, AtPrompt
  <2>2. UNCHANGED <<now, ended, routing, answered>> /\ mon'.tg = mon.tg
    BY <1>1, <1>2, <1>7 DEF shTopic
  <2> QED
    BY <1>4, <1>8, <2>1, <2>2 DEF ShellInOrder, OwnersKnown, Ours, VerdictOf, AtPrompt
<1>11. CardsInOrder' /\ VerdictsMatch' /\ CardsTellTruth' /\ RequestsAnswered'
  BY <1>1, <1>2, CardsKept, VerdictsKept, CardTruthKept, AnswersKept DEF ShellInOrder, shTopic
<1> QED
  BY <1>7, <1>9, <1>10, <1>11 DEF ShellInOrder

LEMMA PollExitKeeps ==
  ASSUME ShHazards = {}, ShellInOrder, PollExit
  PROVE  ShellInOrder'
<1> DEFINE tg == mon.tg
           over == poll.m # "run"
           failed == poll.m = "fail" /\ tg.m # NoRequest
           kept == [mon.tg EXCEPT !.react = mon.tg.react /\ poll.m # "ok"]
<1>1. /\ poll.pc = "exit" /\ poll' = IdleJob
      /\ reacts' = IF over /\ tg.react THEN [reacts EXCEPT ![tg.m] = poll.m] ELSE reacts
      /\ mon' = [mon EXCEPT !.done = mon.done \/ over, !.tg = IF failed THEN NoTg ELSE kept]
      /\ fix' = IF failed THEN tg ELSE fix
      /\ UNCHANGED <<shPane, posts, shTopic, fixGen>>
  <2>1. mon' = [mon EXCEPT !.done = mon.done \/ over, !.tg = IF failed THEN NoTg ELSE kept]
    BY DEF PollExit
  <2>2. /\ poll.pc = "exit" /\ poll' = IdleJob
        /\ reacts' = IF over /\ tg.react THEN [reacts EXCEPT ![tg.m] = poll.m] ELSE reacts
        /\ fix' = IF failed THEN tg ELSE fix
        /\ UNCHANGED <<shPane, posts, shTopic, fixGen>>
    BY DEF PollExit
  <2> QED
    BY <2>1, <2>2
<1>2. /\ UNCHANGED <<now, ended, marker, base, capped, shift, bound, routing, answered, pending, offers, presses>>
      /\ mon \in Monitors /\ tg \in Targets /\ poll.m \in Exits /\ routing.pc # "mark"
  BY <1>1, ShellIdle DEF shTopic, shPane, ShellInOrder, ShellTypes, Monitors, OwnersKnown
<1>3. kept \in Targets /\ kept.m = tg.m /\ kept.src = tg.src /\ (kept.react => tg.react)
  BY <1>2 DEF Targets
<1>4. /\ mon' \in Monitors /\ mon'.tg = (IF failed THEN NoTg ELSE kept) /\ mon'.seen = mon.seen
      /\ mon'.echo = mon.echo /\ mon'.msg = mon.msg /\ mon'.out = mon.out /\ mon'.err = mon.err
  <2> DEFINE t == IF failed THEN NoTg ELSE kept
             a == [mon EXCEPT !.done = mon.done \/ over]
  <2>1. t \in Targets /\ (mon.done \/ over) \in BOOLEAN
    BY <1>2, <1>3, FreshIsMonitor DEF Monitors
  <2>2. a \in Monitors /\ a.seen = mon.seen /\ a.echo = mon.echo /\ a.msg = mon.msg /\ a.out = mon.out
        /\ a.err = mon.err
    BY <1>2, <2>1 DEF Monitors
  <2>3. mon' = [a EXCEPT !.tg = t]
    BY <1>1
  <2> HIDE DEF a, t
  <2>4. mon' \in Monitors /\ mon'.tg = t /\ mon'.seen = a.seen /\ mon'.echo = a.echo /\ mon'.msg = a.msg
        /\ mon'.out = a.out /\ mon'.err = a.err
    BY <2>1, <2>2, <2>3 DEF Monitors
  <2> QED
    BY <2>2, <2>4 DEF t
<1>5. tg.react => tg.m \in ShMessages /\ tg.src \in {"raw", "suggested"}
  BY <1>2 DEF ShellInOrder, OwnersKnown, Ours, Targets, Requests, Sources
<1>6. /\ failed => VerdictOf(tg, "fail") /\ tg.m \in ShMessages
      /\ over /\ tg.react => VerdictOf(tg, poll.m)
  BY <1>1, <1>2, <1>5 DEF ShellInOrder, OwnersKnown, Ours, Targets, Requests
<1>7. fix' \in Targets /\ (fix' # NoTg => fix'.m \in ShMessages)
  BY <1>1, <1>2, <1>6 DEF ShellInOrder, ShellTypes
<1>8. /\ reacts' \in [ShMessages -> {"none", "running", "ok", "fail"}]
      /\ \A m \in ShMessages : reacts'[m] = reacts[m]
             \/ (m = tg.m /\ reacts'[m] = poll.m /\ over /\ tg.react)
  <2>1. CASE over /\ tg.react
    <3>1. poll.m \in {"none", "running", "ok", "fail"}
      BY <1>2, <2>1 DEF Exits
    <3> QED
      BY <1>1, <2>1, <3>1 DEF ShellInOrder, ShellTypes
  <2>2. CASE ~(over /\ tg.react)
    BY <1>1, <2>2 DEF ShellInOrder, ShellTypes
  <2> QED
    BY <2>1, <2>2
<1>9. poll' = IdleJob /\ poll'.pc = "idle" /\ IdleJob \in [pc : {"idle", "capture", "exit"}, m : Exits \union {NoRequest}, src : Sources]
  BY <1>1 DEF IdleJob, Sources
<1> HIDE DEF kept, failed, over
<1>10. ShellTypes'
  BY <1>1, <1>2, <1>4, <1>7, <1>8, <1>9 DEF ShellInOrder, ShellTypes, shTopic
<1>11. RelayInOrder' /\ SeenIsShown'
  BY <1>1, <1>2, <1>4, <1>9 DEF ShellInOrder, RelayInOrder, SeenIsShown, Unsaid, Said, AtPrompt, Text
<1>12. OwnersKnown'
  <2>1. mon'.tg = NoTg \/ mon'.tg = kept
    BY <1>4
  <2> QED
    BY <1>2, <1>3, <1>9, <2>1, FreshIsMonitor DEF ShellInOrder, OwnersKnown, Ours, VerdictOf, AtPrompt
<1>13. VerdictsMatch'
  <2>1. \A m \in ShMessages : reacts'[m] \in {"ok", "fail"} => EndedSo(m, {"raw", "suggested"}, reacts'[m])
    BY <1>2, <1>5, <1>6, <1>8 DEF ShellInOrder, VerdictsMatch, EndedSo, VerdictOf
  <2>2. fix' # NoTg => EndedSo(fix'.m, {fix'.src}, "fail")
    BY <1>1, <1>2, <1>6 DEF ShellInOrder, VerdictsMatch, EndedSo, VerdictOf
  <2> QED
    BY <1>2, <2>1, <2>2 DEF ShellInOrder, VerdictsMatch, EndedSo
<1>14. RequestsAnswered'
  <2>1. tg.react => tg.m \in answered
    BY DEF ShellInOrder, OwnersKnown
  <2> QED
    BY <1>2, <1>8, <2>1 DEF ShellInOrder, RequestsAnswered
<1>15. CardsInOrder' /\ CardsTellTruth'
  BY <1>2, CardsKept, CardTruthKept DEF ShellInOrder
<1> QED
  BY <1>10, <1>11, <1>12, <1>13, <1>14, <1>15 DEF ShellInOrder

LEMMA FixArrivesKeeps ==
  ASSUME ShHazards = {}, ShellInOrder, NEW found \in BOOLEAN, FixArrives(found)
  PROVE  ShellInOrder'
<1>1. /\ fix # NoTg /\ fix' = NoTg /\ routing.pc # "llm"
      /\ Show(<<fix.m, "fix">>) \/ UNCHANGED <<pending, offers>>
      /\ UNCHANGED <<shPane, mon, poll, posts, skip, presses, generation, routing, answered,
                     bound, reacts, fixGen>>
  BY ShellConstants DEF FixArrives
<1>2. UNCHANGED <<now, ended, marker, base, capped, shift>>
  BY <1>1 DEF shPane
<1>3. fix.m \in ShMessages /\ fix \in Targets /\ <<fix.m, "fix">> \in Suggestion /\ EndedSo(fix.m, Sources, "fail")
  BY <1>1 DEF ShellInOrder, ShellTypes, Suggestion, VerdictsMatch, EndedSo, Targets
<1>4. \/ pending' = pending /\ offers' = offers
      \/ pending = NoCard /\ pending' = <<fix.m, "fix">> /\ offers' = offers \union {<<fix.m, "fix">>}
  BY <1>1 DEF Show
<1>5. ShellTypes'
  BY <1>1, <1>2, <1>3, <1>4, FreshIsMonitor DEF ShellInOrder, ShellTypes
<1>6. Remembers /\ RelayInOrder' /\ SeenIsShown' /\ OwnersKnown'
  BY <1>1, <1>2, RemembersAll, RelayKept, SeenKept, OwnersKept DEF ShellInOrder, ShellTypes
<1>7. CardsInOrder'
  <2>1. <<fix.m, "fix">>[1] = fix.m /\ <<fix.m, "fix">> # NoCard /\ NoCard \notin Suggestion
    BY <1>3, ShellConstants DEF NoCard, Suggestion
  <2> QED
    BY <1>1, <1>2, <1>3, <1>4, <2>1 DEF ShellInOrder, ShellTypes, CardsInOrder, EndedSo
<1>8. VerdictsMatch'
  BY <1>1, <1>2, <1>3, <1>4 DEF ShellInOrder, VerdictsMatch, EndedSo
<1>9. CardsTellTruth' /\ RequestsAnswered'
  BY <1>1, CardTruthKept, AnswersKept DEF ShellInOrder
<1> QED
  BY <1>5, <1>6, <1>7, <1>8, <1>9 DEF ShellInOrder

----------------------------------------------------------------------------
(* The handlers.                                                            *)

(* The marker is set up, or the screen is left alone                        *)
LEMMA SetsUp ==
  ASSUME ShellInOrder, SetUp \/ UNCHANGED <<shPane, shMonitor>>, bound' = bound
  PROVE  /\ marker' \in BOOLEAN /\ base' \in 0..now.n /\ UNCHANGED <<now, ended, capped, shift, poll, posts, fix>>
         /\ Remembers /\ RelayInOrder' /\ SeenIsShown'
<1>1. CASE SetUp
  <2>1. UNCHANGED <<now, ended, capped, shift, poll, posts, fix>> /\ ScreenChanges /\ marker' = (marker \/ AtPrompt)
        /\ base' = IF marker' /\ ~marker THEN now.n ELSE base
    BY <1>1 DEF SetUp, Changes
  <2>2. marker' \in BOOLEAN
    BY <2>1 DEF ShellInOrder, ShellTypes, AtPrompt
  <2>3. base' \in 0..now.n
    BY <2>1 DEF ShellInOrder, ShellTypes
  <2>4. Scrolled /\ Remembers /\ SeenIsShown'
    BY <2>1, ScreenMoves, UnseenShown DEF ShellInOrder, ShellTypes, Scrolled
  <2> QED
    BY <2>1, <2>2, <2>3, <2>4, RelayKept DEF ShellInOrder
<1>2. CASE UNCHANGED <<shPane, shMonitor>>
  <2>1. UNCHANGED <<now, ended, marker, base, capped, shift, mon, poll, posts, fix>>
    BY <1>2 DEF shPane, shMonitor
  <2> QED
    BY <2>1, RemembersAll, RelayKept, SeenKept DEF ShellInOrder, ShellTypes
<1> QED
  BY <1>1, <1>2

LEMMA RequestKeeps ==
  ASSUME ShHazards = {}, ShellInOrder, NEW m \in ShMessages, NEW src \in Sources, Request(m, src)
  PROVE  ShellInOrder'
<1>1. /\ routing.pc = "idle" /\ bound /\ src \in {"raw", "suggested"} /\ m \notin answered /\ pending' = NoCard
      /\ generation' = (src = "suggested") /\ offers' = {} /\ reacts' = [reacts EXCEPT ![m] = "running"]
      /\ routing' = [pc |-> IF src = "raw" THEN "run" ELSE "llm", m |-> m, src |-> src]
      /\ UNCHANGED <<skip, presses, answered, bound, fixGen>>
      /\ SetUp \/ UNCHANGED <<shPane, shMonitor>>
  BY ShellConstants DEF Request
<1>2. /\ marker' \in BOOLEAN /\ base' \in 0..now.n /\ UNCHANGED <<now, ended, capped, shift, poll, posts, fix>>
      /\ Remembers /\ RelayInOrder' /\ SeenIsShown'
  BY <1>1, SetsUp
<1>3. /\ routing' \in [pc : {"idle", "llm", "run", "mark"}, m : Requests, src : Sources]
      /\ routing'.pc \in {"run", "llm"} /\ routing'.m = m /\ routing' # IdleJob
      /\ routing = IdleJob /\ routing.m = NoRequest
  BY <1>1, ShellIdle DEF Requests, Sources, ShellInOrder, ShellTypes
<1>4. /\ reacts' \in [ShMessages -> {"none", "running", "ok", "fail"}]
      /\ reacts'[m] = "running" /\ \A n \in ShMessages : n # m => reacts'[n] = reacts[n]
  BY <1>1 DEF ShellInOrder, ShellTypes
<1>5. ShellTypes'
  BY <1>1, <1>2, <1>3, <1>4 DEF ShellInOrder, ShellTypes, Remembers
<1>6. OwnersKnown'
  BY <1>1, <1>2, <1>3, OwnersKept DEF ShellInOrder
<1>7. CardsInOrder'
  BY <1>1 DEF CardsInOrder
<1>8. VerdictsMatch'
  BY <1>1, <1>2, <1>4 DEF ShellInOrder, VerdictsMatch, EndedSo
<1>9. CardsTellTruth' /\ RequestsAnswered'
  BY <1>1, <1>3, <1>4, CardTruthKept, ShellConstants DEF ShellInOrder, RequestsAnswered
<1> QED
  BY <1>2, <1>5, <1>6, <1>7, <1>8, <1>9 DEF ShellInOrder

LEMMA LlmAnswersKeeps ==
  ASSUME ShHazards = {}, ShellInOrder, NEW ok \in BOOLEAN, LlmAnswers(ok)
  PROVE  ShellInOrder'
<1>1. /\ routing.pc = "llm" /\ routing' = IdleJob /\ pending = NoCard
      /\ Show(<<routing.m, "suggested">>) \/ UNCHANGED <<pending, offers>>
      /\ answered' = answered \union {routing.m}
      /\ UNCHANGED <<shPane, shMonitor, skip, presses, generation, bound, reacts, fixGen>>
  <2>1. routing.pc = "llm" /\ pending = NoCard
    BY DEF LlmAnswers, ShellInOrder, CardsInOrder
  <2> QED
    BY <2>1 DEF LlmAnswers
<1>2. UNCHANGED <<now, ended, marker, base, capped, shift, mon, poll, posts, fix>>
  BY <1>1 DEF shPane, shMonitor
<1>3. routing.m \in ShMessages /\ <<routing.m, "suggested">> \in Suggestion
      /\ \A n \in ShMessages : <<n, "fix">> # <<routing.m, "suggested">>
  BY <1>1 DEF ShellInOrder, ShellTypes, Suggestion
<1>4. \/ pending' = pending /\ offers' = offers
      \/ pending' = <<routing.m, "suggested">> /\ offers' = offers \union {<<routing.m, "suggested">>}
  BY <1>1 DEF Show
<1>5. routing'.pc = "idle" /\ IdleJob \in [pc : {"idle", "llm", "run", "mark"}, m : Requests, src : Sources]
  BY <1>1 DEF IdleJob, Requests, Sources
<1>6. ShellTypes'
  BY <1>1, <1>2, <1>3, <1>4, <1>5 DEF ShellInOrder, ShellTypes
<1>7. Remembers /\ RelayInOrder' /\ SeenIsShown' /\ OwnersKnown'
  BY <1>1, <1>2, <1>5, RemembersAll, RelayKept, SeenKept, OwnersKept DEF ShellInOrder, ShellTypes
<1>8. CardsInOrder'
  <2>1. <<routing.m, "suggested">>[2] # "fix" /\ NoCard \notin Suggestion
    BY ShellConstants DEF NoCard, Suggestion
  <2> QED
    BY <1>1, <1>2, <1>3, <1>4, <1>5, <2>1 DEF ShellInOrder, ShellTypes, CardsInOrder, EndedSo
<1>9. VerdictsMatch'
  BY <1>1, <1>2, <1>3, <1>4 DEF ShellInOrder, VerdictsMatch, EndedSo
<1>10. CardsTellTruth' /\ RequestsAnswered'
  BY <1>1, CardTruthKept DEF ShellInOrder, RequestsAnswered
<1> QED
  BY <1>6, <1>7, <1>8, <1>9, <1>10 DEF ShellInOrder

LEMMA PressKeeps ==
  ASSUME ShHazards = {}, ShellInOrder, NEW card \in Suggestion, PressRun(card) \/ PressDrop(card)
  PROVE  ShellInOrder'
<1>1. /\ routing.pc = "idle" /\ card \in offers /\ pending' = NoCard /\ generation' = FALSE
      /\ offers' = offers \ {card} /\ UNCHANGED <<shPane, shMonitor, skip, answered, bound, reacts, fixGen>>
      /\ \/ UNCHANGED <<presses, routing>>
         \/ /\ bound /\ pending # NoCard /\ presses' = presses \union {<<card, pending>>}
            /\ routing' = [pc |-> "run", m |-> pending[1], src |-> pending[2]]
  BY DEF PressRun, PressDrop
<1>2. UNCHANGED <<now, ended, marker, base, capped, shift, mon, poll, posts, fix>>
  BY <1>1 DEF shPane, shMonitor
<1>3. /\ routing'.pc \in {"idle", "run"} /\ routing = IdleJob
      /\ \/ routing' = routing
         \/ /\ routing' \in [pc : {"idle", "llm", "run", "mark"}, m : Requests, src : Sources]
            /\ routing'.pc = "run" /\ routing'.m \in ShMessages /\ routing' # IdleJob
  <2>1. pending # NoCard => pending[1] \in ShMessages /\ pending[2] \in Sources
    BY DEF ShellInOrder, ShellTypes, Suggestion, Sources
  <2> QED
    BY <1>1, <2>1, ShellIdle DEF ShellInOrder, ShellTypes, Requests
<1>4. ShellTypes'
  BY <1>1, <1>2, <1>3 DEF ShellInOrder, ShellTypes
<1>5. Remembers /\ RelayInOrder' /\ SeenIsShown' /\ OwnersKnown'
  BY <1>1, <1>2, <1>3, RemembersAll, RelayKept, SeenKept, OwnersKept DEF ShellInOrder, ShellTypes
<1>6. CardsInOrder' /\ CardsTellTruth'
  BY <1>1, <1>3 DEF ShellInOrder, CardsInOrder, CardsTellTruth
<1>7. VerdictsMatch'
  BY <1>1, <1>2, VerdictsKept DEF ShellInOrder
<1>8. RequestsAnswered'
  BY <1>1, <1>3, ShellIdle, ShellConstants DEF ShellInOrder, RequestsAnswered
<1> QED
  BY <1>4, <1>5, <1>6, <1>7, <1>8 DEF ShellInOrder

LEMMA SendCommandKeeps ==
  ASSUME ShHazards = {}, ShellInOrder, NEW ok \in BOOLEAN, SendCommand(ok)
  PROVE  ShellInOrder'
<1>1. /\ routing.pc = "run" /\ AtPrompt /\ poll = IdleJob /\ answered' = answered \union {routing.m}
      /\ UNCHANGED <<skip, pending, offers, presses, generation, bound, reacts, fixGen>>
      /\ \/ /\ Runs(routing.m, routing.src) /\ ScreenChanges /\ routing' = [routing EXCEPT !.pc = "mark"]
         \/ UNCHANGED <<shPane, shMonitor>> /\ routing' = IdleJob
  BY ShellConstants DEF SendCommand, MaySend
<1>2. routing.m \in ShMessages /\ routing.m \in Requests /\ routing.src \in Sources
  BY <1>1 DEF ShellInOrder, ShellTypes
<1>3. CASE Runs(routing.m, routing.src) /\ ScreenChanges /\ routing' = [routing EXCEPT !.pc = "mark"]
  <2>1. /\ now'.n = now.n + 1 /\ now'.m = routing.m /\ now'.src = routing.src /\ now'.out = 0 /\ now'.exit = "run"
        /\ now' \in [n : Nat, m : Requests, src : Sources, out : 0..MaxOut, exit : Exits]
        /\ posts' \in Seq(Relayed) /\ base' \in 0..now'.n /\ Scrolled
        /\ UNCHANGED <<ended, marker, base, capped, shift, poll, fix>>
        /\ RelayInOrder' /\ SeenIsShown'
    BY <1>1, <1>2, <1>3, CommandStarts
  <2>2. /\ routing' \in [pc : {"idle", "llm", "run", "mark"}, m : Requests, src : Sources]
        /\ routing'.pc = "mark" /\ routing'.m = routing.m /\ routing'.src = routing.src /\ routing' # IdleJob
    BY <1>3, ShellIdle DEF ShellInOrder, ShellTypes
  <2>3. ShellTypes'
    BY <1>1, <1>2, <2>1, <2>2 DEF ShellInOrder, ShellTypes, Scrolled, Remembers
  <2>4. OwnersKnown'
    BY <1>1, <2>1, <2>2, ShellIdle DEF ShellInOrder, OwnersKnown, Scrolled, Remembers, Ours, VerdictOf, AtPrompt
  <2>5. CardsInOrder' /\ CardsTellTruth' /\ VerdictsMatch'
    BY <1>1, <2>1, <2>2, VerdictsKept DEF ShellInOrder, CardsInOrder, CardsTellTruth, EndedSo
  <2>6. RequestsAnswered'
    BY <1>1, <2>2 DEF ShellInOrder, RequestsAnswered
  <2> QED
    BY <2>1, <2>3, <2>4, <2>5, <2>6 DEF ShellInOrder
<1>4. CASE UNCHANGED <<shPane, shMonitor>> /\ routing' = IdleJob
  <2>1. UNCHANGED <<now, ended, marker, base, capped, shift, mon, poll, posts, fix>>
    BY <1>4 DEF shPane, shMonitor
  <2>2. routing'.pc = "idle" /\ IdleJob \in [pc : {"idle", "llm", "run", "mark"}, m : Requests, src : Sources]
    BY <1>4 DEF IdleJob, Requests, Sources
  <2>3. ShellTypes'
    BY <1>1, <1>2, <1>4, <2>1, <2>2 DEF ShellInOrder, ShellTypes
  <2>4. Remembers /\ RelayInOrder' /\ SeenIsShown' /\ OwnersKnown'
    BY <1>1, <2>1, <2>2, RemembersAll, RelayKept, SeenKept, OwnersKept DEF ShellInOrder, ShellTypes
  <2>5. CardsInOrder' /\ CardsTellTruth' /\ VerdictsMatch' /\ RequestsAnswered'
    BY <1>1, <2>1, <2>2, VerdictsKept DEF ShellInOrder, CardsInOrder, CardsTellTruth, EndedSo, RequestsAnswered
  <2> QED
    BY <2>3, <2>4, <2>5 DEF ShellInOrder
<1> QED
  BY <1>1, <1>3, <1>4

LEMMA MarkKeeps ==
  ASSUME ShHazards = {}, ShellInOrder, MarkTelegramCommand
  PROVE  ShellInOrder'
<1> DEFINE tg == [m |-> routing.m, src |-> routing.src, react |-> routing.src # "fix", gen |-> fixGen + 1]
<1>1. /\ routing.pc = "mark" /\ routing' = IdleJob /\ fixGen' = fixGen + 1 /\ mon' = [mon EXCEPT !.tg = tg]
      /\ UNCHANGED <<shPane, poll, posts, fix, skip, pending, offers, presses, generation,
                     answered, bound, reacts>>
  BY DEF MarkTelegramCommand
<1>2. UNCHANGED <<now, ended, marker, base, capped, shift>>
  BY <1>1 DEF shPane
<1>3. /\ tg \in Targets /\ tg.m = routing.m /\ tg.src = routing.src /\ (tg.react <=> routing.src # "fix")
      /\ routing.m \in ShMessages /\ routing.m # NoRequest
  <2>1. routing.m \in ShMessages /\ routing.m # NoRequest /\ routing.m \in Requests /\ routing.src \in Sources
        /\ fixGen + 1 \in Nat
    BY <1>1, ShellConstants DEF ShellInOrder, ShellTypes, Requests
  <2>2. (routing.src # "fix") \in BOOLEAN
    OBVIOUS
  <2>3. tg \in Targets
    BY <2>1, <2>2 DEF Targets
  <2> QED
    BY <2>1, <2>3
<1> HIDE DEF tg
<1>4. /\ mon' \in Monitors /\ mon'.tg = tg /\ mon'.seen = mon.seen /\ mon'.echo = mon.echo
      /\ mon'.msg = mon.msg /\ mon'.out = mon.out /\ mon'.err = mon.err
  BY <1>1, <1>3 DEF ShellInOrder, ShellTypes, Monitors
<1>5. routing'.pc = "idle" /\ IdleJob \in [pc : {"idle", "llm", "run", "mark"}, m : Requests, src : Sources]
      /\ fixGen' \in Nat
  BY <1>1 DEF IdleJob, Requests, Sources, ShellInOrder, ShellTypes
<1>6. ShellTypes'
  BY <1>1, <1>2, <1>4, <1>5 DEF ShellInOrder, ShellTypes
<1>7. RelayInOrder' /\ SeenIsShown'
  BY <1>1, <1>2, <1>4 DEF ShellInOrder, RelayInOrder, SeenIsShown, Unsaid, Said, AtPrompt, Text
<1>8. OwnersKnown'
  BY <1>1, <1>2, <1>3, <1>4, <1>5, ShellIdle DEF ShellInOrder, OwnersKnown, Ours, VerdictOf, AtPrompt
<1>9. CardsInOrder' /\ CardsTellTruth' /\ VerdictsMatch' /\ RequestsAnswered'
  <2>1. routing.m \in answered
    BY <1>1 DEF ShellInOrder, OwnersKnown
  <2> QED
    BY <1>1, <1>2, <1>5, <2>1, VerdictsKept DEF ShellInOrder, CardsInOrder, CardsTellTruth, EndedSo, RequestsAnswered
<1> QED
  BY <1>6, <1>7, <1>8, <1>9 DEF ShellInOrder

LEMMA AnswerOfferKeeps ==
  ASSUME ShHazards = {}, ShellInOrder, NEW accept \in BOOLEAN, AnswerOffer(accept)
  PROVE  ShellInOrder'
<1>1. /\ SetUp \/ UNCHANGED <<shPane, shMonitor>>
      /\ skip' = (skip \/ ~accept)
      /\ UNCHANGED <<pending, offers, presses, generation, routing, answered, bound, reacts, fixGen>>
  BY DEF AnswerOffer
<1>2. /\ marker' \in BOOLEAN /\ base' \in 0..now.n /\ UNCHANGED <<now, ended, capped, shift, poll, posts, fix>>
      /\ Remembers /\ RelayInOrder' /\ SeenIsShown'
  BY <1>1, SetsUp
<1>3. skip' \in BOOLEAN
  BY <1>1 DEF ShellInOrder, ShellTypes
<1>4. ShellTypes'
  BY <1>1, <1>2, <1>3 DEF ShellInOrder, ShellTypes, Remembers
<1>5. OwnersKnown' /\ CardsInOrder' /\ CardsTellTruth' /\ VerdictsMatch' /\ RequestsAnswered'
  BY <1>1, <1>2, OwnersKept, CardsKept, CardTruthKept, VerdictsKept, AnswersKept DEF ShellInOrder
<1> QED
  BY <1>2, <1>4, <1>5 DEF ShellInOrder

LEMMA LoseWindowKeeps ==
  ASSUME ShHazards = {}, ShellInOrder, LoseWindow
  PROVE  ShellInOrder'
<1>1. /\ bound' = FALSE /\ poll = IdleJob /\ routing.pc # "mark" /\ pending' = NoCard /\ generation' = FALSE
      /\ mon' = FreshMonitor
      /\ UNCHANGED <<shPane, poll, posts, fix, skip, offers, presses, routing, answered, reacts, fixGen>>
  BY DEF LoseWindow
<1>2. UNCHANGED <<now, ended, marker, base, capped, shift>>
  BY <1>1 DEF shPane
<1>3. ShellTypes'
  BY <1>1, <1>2, FreshIsMonitor DEF ShellInOrder, ShellTypes
<1>4. RelayInOrder' /\ SeenIsShown'
  BY <1>1, ShellIdle, FreshIsMonitor DEF RelayInOrder, SeenIsShown
<1>5. OwnersKnown'
  BY <1>1, <1>2, ShellIdle, FreshIsMonitor DEF ShellInOrder, OwnersKnown, Ours, VerdictOf, AtPrompt
<1>6. CardsInOrder' /\ CardsTellTruth' /\ VerdictsMatch' /\ RequestsAnswered'
  BY <1>1, <1>2, CardTruthKept, VerdictsKept, AnswersKept DEF ShellInOrder, CardsInOrder
<1> QED
  BY <1>3, <1>4, <1>5, <1>6 DEF ShellInOrder

----------------------------------------------------------------------------
(* The invariant.                                                           *)

LEMMA ShellStarts == ShHazards = {} /\ ShellInit => ShellInOrder
<1> SUFFICES ASSUME ShHazards = {}, ShellInit PROVE ShellInOrder
  OBVIOUS
<1>1. /\ now = [n |-> 0, m |-> NoRequest, src |-> "raw", out |-> 0, exit |-> "ok"] /\ ~capped
      /\ mon = FreshMonitor /\ poll = IdleJob /\ routing = IdleJob /\ fix = NoTg /\ posts = <<>> /\ base = 0
      /\ offers = {} /\ pending = NoCard /\ presses = {} /\ reacts = [m \in ShMessages |-> "none"]
  BY ShellConstants DEF ShellInit
<1>2. /\ now \in [n : Nat, m : Requests, src : Sources, out : 0..MaxOut, exit : Exits]
      /\ now.n = 0 /\ now.m = NoRequest /\ now.exit = "ok"
  BY <1>1, ShellConstants DEF Requests, Sources, Exits
<1>3. /\ IdleJob \in [pc : {"idle", "capture", "exit"}, m : Exits \union {NoRequest}, src : Sources]
      /\ IdleJob \in [pc : {"idle", "llm", "run", "mark"}, m : Requests, src : Sources]
  BY DEF IdleJob, Sources, Requests
<1>4. ShellTypes
  <2>1. posts \in Seq(Relayed)
    BY <1>1
  <2>2. /\ {marker, capped, skip, generation, bound} \subseteq BOOLEAN /\ base \in 0..now.n /\ shift = 0
        /\ fixGen \in Nat /\ answered \subseteq ShMessages
    <3>1. marker \in BOOLEAN
      BY DEF ShellInit
    <3>3. capped = FALSE
      <4>1. capped \in {FALSE, "echoless" \in ShHazards}
        BY Zenon DEF ShellInit
      <4>2. ("echoless" \in ShHazards) = FALSE
        BY ShellConstants
      <4> QED
        BY <4>1, <4>2, Zenon
    <3>2. skip = FALSE /\ generation = FALSE /\ bound = TRUE /\ base = 0 /\ shift = 0 /\ fixGen = 0 /\ answered = {}
      BY DEF ShellInit
    <3> QED
      <4>1. marker \in BOOLEAN /\ capped \in BOOLEAN /\ skip \in BOOLEAN /\ generation \in BOOLEAN /\ bound \in BOOLEAN
        BY <3>1, <3>2, <3>3
      <4>2. {marker, capped, skip, generation, bound} \subseteq BOOLEAN
        BY <4>1, Zenon
      <4>3. base \in 0..now.n /\ shift = 0 /\ fixGen \in Nat /\ answered \subseteq ShMessages
        BY <1>2, <3>2
      <4> QED
        BY <4>2, <4>3
  <2>3. /\ reacts \in [ShMessages -> {"none", "running", "ok", "fail"}] /\ poll.pc = "idle" /\ routing.pc = "idle"
        /\ mon \in Monitors /\ fix \in Targets
    BY <1>1, ShellIdle, FreshIsMonitor
  <2> QED
    BY <1>1, <1>2, <1>3, <2>1, <2>2, <2>3 DEF ShellTypes
<1>5. RelayInOrder /\ SeenIsShown /\ OwnersKnown
  BY <1>1, <1>2, ShellIdle, FreshIsMonitor, EchoesDiffer DEF RelayInOrder, SeenIsShown, OwnersKnown, Ours
<1>6. CardsInOrder /\ VerdictsMatch /\ CardsTellTruth /\ RequestsAnswered
  BY <1>1, ShellIdle DEF CardsInOrder, VerdictsMatch, CardsTellTruth, RequestsAnswered
<1> QED
  BY <1>4, <1>5, <1>6 DEF ShellInOrder

LEMMA ShellStutters == ASSUME ShellInOrder, UNCHANGED shVars PROVE ShellInOrder'
<1>1. UNCHANGED <<now, ended, marker, base, capped, shift, mon, poll, posts, fix, skip, pending, offers,
                  presses, generation, routing, answered, bound, reacts, fixGen>>
  BY DEF shVars, shPane, shMonitor, shTopic
<1>2. ShellTypes' /\ Remembers
  BY <1>1, RemembersAll DEF ShellInOrder, ShellTypes
<1>3. RelayInOrder' /\ SeenIsShown' /\ OwnersKnown'
  BY <1>1, <1>2, RelayKept, SeenKept, OwnersKept DEF ShellInOrder
<1>4. CardsInOrder' /\ VerdictsMatch' /\ CardsTellTruth' /\ RequestsAnswered'
  BY <1>1, CardsKept, VerdictsKept, CardTruthKept, AnswersKept DEF ShellInOrder
<1> QED
  BY <1>2, <1>3, <1>4 DEF ShellInOrder

LEMMA ShellStep == ASSUME ShHazards = {}, ShellInOrder, [ShellNext]_shVars PROVE ShellInOrder'
<1>1. CASE UNCHANGED shVars
  BY <1>1, ShellStutters
<1>2. CASE TypeCommand \/ Output \/ LoseMarker \/ (\E exit \in {"ok", "fail"} : Finish(exit))
  BY <1>2, TypeCommandKeeps, OutputKeeps, LoseMarkerKeeps, FinishKeeps
<1>3. CASE PollRender \/ PollExit \/ MarkTelegramCommand \/ LoseWindow
  BY <1>3, PollRenderKeeps, PollExitKeeps, MarkKeeps, LoseWindowKeeps
<1>4. CASE \E b \in BOOLEAN : \/ PollRelay(b) \/ FixArrives(b) \/ LlmAnswers(b)
                              \/ SendCommand(b) \/ AnswerOffer(b)
  BY <1>4, PollRelayKeeps, FixArrivesKeeps, LlmAnswersKeeps, SendCommandKeeps, AnswerOfferKeeps
<1>5. CASE \E m \in ShMessages, src \in Sources : Request(m, src)
  BY <1>5, RequestKeeps
<1>6. CASE \E card \in Suggestion : PressRun(card) \/ PressDrop(card)
  BY <1>6, PressKeeps
<1> QED
  BY <1>1, <1>2, <1>3, <1>4, <1>5, <1>6 DEF ShellNext

LEMMA ShellImplies == ShellInOrder => ShellInv /\ LastOutputShown
<1> SUFFICES ASSUME ShellInOrder PROVE ShellInv /\ LastOutputShown
  OBVIOUS
<1>1. mon.msg[1] = now.n => mon.msg[2] \in 1..Len(posts) \union {0}
  <2> SUFFICES ASSUME mon.msg[1] = now.n PROVE mon.msg[2] \in 1..Len(posts) \union {0}
    OBVIOUS
  <2>1. NoPost[2] = 0 /\ now.n \in Nat
    BY DEF NoPost, ShellInOrder, ShellTypes
  <2>2. CASE Said
    <3>1. Len(posts) = 1 /\ mon.msg[2] = 1
      BY <2>2 DEF Said
    <3> QED
      BY <3>1
  <2> QED
    BY <2>1, <2>2 DEF ShellInOrder, RelayInOrder, Unsaid
<1>2. ShellTypeOK
  <2>1. now.out \in 0..MaxOut /\ now.exit \in {"run", "ok", "fail"}
    BY DEF ShellInOrder, ShellTypes, Exits
  <2> QED
    BY <1>1, <2>1 DEF ShellInOrder, ShellTypes, ShellTypeOK
<1>3. LastOutputShown
  <2> SUFFICES ASSUME bound, poll = IdleJob, mon.seen, marker, now.n > base, AtPrompt, now.out > 0
               PROVE  posts = <<[out |-> now.out, err |-> now.exit = "fail"]>>
    BY DEF LastOutputShown
  <2>1. mon.echo = ScreenEcho(now.n) /\ mon.out = Text /\ (now.exit = "fail" => mon.err)
    BY ShellIdle DEF ShellInOrder, SeenIsShown
  <2>2. Text = <<now.n, now.out>> /\ now.n \in Nat /\ now.out \in Nat /\ mon.err \in BOOLEAN
    BY DEF Text, ShellInOrder, ShellTypes, Monitors
  <2>3. Said
    BY <2>1, <2>2 DEF ShellInOrder, RelayInOrder, Unsaid
  <2>4. PICK k \in 1..now.out : mon.out = <<now.n, k>> /\ posts = <<[out |-> k, err |-> mon.err]>>
    BY <2>3 DEF Said
  <2>5. <<now.n, k>> = <<now.n, now.out>>
    BY <2>1, <2>2, <2>4
  <2>6. k = now.out
    BY <2>5
  <2>7. mon.err = (now.exit = "fail")
    BY <2>1, <2>2, <2>3 DEF Said
  <2> QED
    BY <2>4, <2>6, <2>7
<1> QED
  BY <1>2, <1>3 DEF ShellInOrder, ShellInv

(* What orders the relay, the verdicts and the cards of a shell topic holds   *)
(* in every reachable state (shell_capture.py, shell_commands.py).            *)
THEOREM ShellAlways == ASSUME ShHazards = {} PROVE ShellSpec => []ShellInOrder
<1>1. ShellInOrder /\ [ShellNext]_shVars => ShellInOrder'
  BY ShellStep
<1>2. ShellInit => ShellInOrder
  BY ShellStarts
<1> QED
  BY <1>1, <1>2, PTL DEF ShellSpec

(* Every verdict, suggestion and answer in a shell topic is about the command  *)
(* it is shown on, and no request ends in silence (shell_capture.py,           *)
(* shell_commands.py).                                                         *)
THEOREM ShellKept == ASSUME ShHazards = {} PROVE ShellSpec => []ShellInv
<1>1. ShellInOrder => ShellInv
  BY ShellImplies
<1> QED
  BY <1>1, ShellAlways, PTL

(* A finished command that printed something has one message with all of its  *)
(* output and the right verdict once the poll has seen the screen             *)
(* (shell_capture.py).                                                        *)
THEOREM LastOutputAlwaysShown == ASSUME ShHazards = {} PROVE ShellSpec => []LastOutputShown
<1>1. ShellInOrder => LastOutputShown
  BY ShellImplies
<1> QED
  BY <1>1, ShellAlways, PTL
============================================================================
