---------------------------- MODULE TerminalInput ----------------------------
(***************************************************************************)
(* How what a user sends to a topic is typed into the bound window, and    *)
(* what the user is told about it: text, commands, follow-ups, uploads and *)
(* confirmed voice notes (text_handler.py, forward.py, file_handler.py,    *)
(* voice_callbacks.py, toolbar_callbacks.py, status_bar_actions.py) all    *)
(* go through telegram_origin.py and window_ops.py to the backend, which   *)
(* types the text and, after a pause, presses Enter.  The transcript later *)
(* shows the line, and the monitor tells the bot's own lines from those    *)
(* typed at the keyboard.                                                  *)
(*                                                                         *)
(* Handlers of updates run one after another; the agent, the keyboard, the *)
(* polling loop and the monitor run beside them.                           *)
(*                                                                         *)
(* TiHazards lets happen during a send what the code does not exclude:     *)
(*   "keyboard"   somebody types at the keyboard, or moves vim             *)
(*   "agentExits" the agent exits between the check and the text           *)
(*   "abandoned"  the send is given up while the backend still types       *)
(*   "enterLost"  keys are typed and a later one fails                     *)
(*   "vimUnseen"  vim is in NORMAL mode before the bot ever saw INSERT, on *)
(*                a backend that does not probe, or the probe fails        *)
(*   "leftVim"    the agent leaves vim mode                                *)
(*   "slowEcho"   the transcript shows the line after the 30 s             *)
(*   "unbound"    the topic is unbound while the send waits                *)
(***************************************************************************)
EXTENDS Naturals, Sequences, FiniteSets, SequencesExt

CONSTANTS
  TiMessages,   \* what the users send
  MaxKeyed,     \* bound on lines typed at the keyboard
  MaxAgentMoves,\* bound on what the agent and vim do
  TiHazards, NoMsg

ASSUME InputAssumption ==
  /\ NoMsg \notin TiMessages /\ MaxKeyed \in Nat /\ MaxAgentMoves \in Nat
  /\ TiHazards \subseteq {"keyboard", "agentExits", "abandoned", "enterLost",
       "vimUnseen", "leftVim", "slowEcho", "unbound"}

Kinds == {"text", "bang", "followup", "voice"}
NoJob == [pc |-> "idle", m |-> NoMsg, kind |-> "text"]

VARIABLES
  backend,   \* "tmux" types under a lock and knows vim; "cli": herdr, agterm
  prog,      \* what reads the keys: "agent" or "shell"
  vim, vimSeen,     \* the mode of the prompt; _vim_state
  prompt,    \* what has been typed and not submitted
  taken,     \* submitted lines, with the program that took them
  job,       \* the send of the running handler
  late,      \* keys of an abandoned send that are still to be typed
  injected,  \* _pending_injections
  echoes,    \* lines of the transcript the monitor has not read
  mirrored,  \* sent messages that were echoed back to the topic
  told,      \* what the user knows of a message
  cards,     \* transcriptions that wait for their button
  inTopic,     \* the topic is bound to the window
  capture,   \* a `!` output capture runs for the topic
  keyed, agentMoves
tiPane == <<backend, prog, vim, vimSeen, prompt, taken, late, echoes>>
tiBot == <<job, injected, mirrored, told, cards, inTopic, capture>>
tiBounds == <<keyed, agentMoves>>
tiVars == <<tiPane, tiBot, tiBounds>>

Idle == job.pc = "idle"
During(h) == Idle \/ h \in TiHazards

(* Keys reach the prompt as literal text; in NORMAL mode they are commands *)
Typed(piece) ==
  /\ prompt' = IF vim = "normal" THEN prompt ELSE Append(prompt, piece)
  /\ UNCHANGED <<backend, prog, vim, vimSeen, taken, late, echoes>>

(* Enter submits the prompt.  An agent records the line as a user message. *)
Submitted ==
  /\ prompt' = <<>> /\ vim' = IF vim = "off" THEN "off" ELSE "insert"
  /\ taken' = IF prompt = <<>> THEN taken ELSE Append(taken, <<prog, prompt>>)
  /\ echoes' = IF prompt = <<>> \/ prog # "agent" THEN echoes
               ELSE Append(echoes, prompt)
  /\ UNCHANGED <<backend, prog, vimSeen, late>>

(* The pieces a message is typed in *)
Pieces(m, kind) == IF kind = "bang" THEN <<<<m, "!">>, <<m, "rest">>>>
                   ELSE <<<<m, "text">>>>
WholeOf(line, m) == \E kind \in Kinds : line = Pieces(m, kind)

(***************************************************************************)
(* The send: telegram_origin, window_ops, and the backend.                 *)
(***************************************************************************)
At(pc) == job.pc = pc
Goto(pc) == job' = [job EXCEPT !.pc = pc]

(* A handler takes a message for a bound topic and cancels the capture of  *)
(* the last one; Send under a transcription takes it out of the store      *)
Receive(m, kind) ==
  /\ Idle /\ inTopic
  /\ told[m] = "new" \/ m \in cards
  /\ kind = "voice" <=> m \in cards
  /\ kind = "followup" => vim = "off"      \* Pi has no vim mode
  /\ cards' = cards \ {m} /\ capture' = FALSE
  /\ job' = [pc |-> "check", m |-> m, kind |-> kind]
  /\ UNCHANGED <<tiPane, injected, mirrored, told, inTopic, tiBounds>>

(* A voice note is transcribed and shown with its buttons *)
Transcribe(m) ==
  /\ Idle /\ inTopic /\ told[m] = "new" /\ m \notin cards
  /\ cards' = cards \cup {m}
  /\ UNCHANGED <<tiPane, job, injected, mirrored, told, inTopic, capture, tiBounds>>

Fails ==
  /\ told' = [told EXCEPT ![job.m] = "failed"]
  /\ injected' = injected \ {job.m}
  /\ cards' = IF job.kind = "voice" THEN cards \cup {job.m} ELSE cards
  /\ job' = NoJob /\ UNCHANGED <<mirrored, inTopic, capture>>

(* [mutant] remembered when the send has succeeded *)
CheckThenSend ==
  /\ At("check")
  /\ IF prog = "shell" THEN Fails
     ELSE Goto("find") /\ UNCHANGED <<injected, mirrored, told, cards, inTopic, capture>>
  /\ UNCHANGED <<tiPane, tiBounds>>
(* An agent that returned to its shell gets no input.  The injection is    *)
(* remembered before anything is typed.                                    *)
CheckOrigin ==
  /\ At("check")
  /\ IF prog = "shell" THEN Fails
     ELSE /\ Goto("find") /\ injected' = injected \cup {job.m}
          /\ UNCHANGED <<mirrored, told, cards, inTopic, capture>>
  /\ UNCHANGED <<tiPane, tiBounds>>

FindWindow ==
  /\ At("find")
  /\ IF backend = "tmux" /\ job.kind # "followup" THEN Goto("probe") ELSE Goto("text")
  /\ UNCHANGED <<tiPane, injected, mirrored, told, cards, inTopic, capture, tiBounds>>
(* The window or its target is gone, the lookup fails, or five seconds are *)
(* over before the first key.  What the code does not exclude: a later key *)
(* fails with the text typed, or the wait is given up and the thread that  *)
(* types goes on.                                                          *)
SendRefused ==
  /\ \/ job.pc \in {"find", "probe", "text"} /\ prompt = <<>> /\ UNCHANGED tiPane
     \/ job.pc \in {"rest", "enter"} /\ "enterLost" \in TiHazards /\ UNCHANGED tiPane
     \/ /\ job.pc \in {"rest", "enter"} /\ "abandoned" \in TiHazards
        /\ late' = late \cup {job.pc}
        /\ UNCHANGED <<backend, prog, vim, vimSeen, prompt, taken, echoes>>
  /\ Fails /\ UNCHANGED tiBounds

(* [mutant] the probe does not ask whether vim was ever seen *)
ProbeBlindly ==
  /\ At("probe") /\ Goto("text")
  /\ IF vim = "insert" THEN UNCHANGED tiPane
     ELSE /\ vim' = IF vim = "normal" THEN "insert" ELSE vim
          /\ prompt' = IF vim = "off" THEN Append(prompt, <<NoMsg, "i">>) ELSE prompt
          /\ UNCHANGED <<backend, prog, vimSeen, taken, late, echoes>>
  /\ UNCHANGED <<injected, mirrored, told, cards, inTopic, capture, tiBounds>>
(* _ensure_vim_insert_mode: a window that vim was seen in, and that shows  *)
(* no INSERT, is sent an i                                                 *)
EnsureInsert ==
  /\ At("probe") /\ Goto("text")
  /\ IF ~vimSeen \/ vim = "insert" THEN UNCHANGED tiPane
     ELSE \/ /\ vim' = IF vim = "normal" THEN "insert" ELSE vim
             /\ prompt' = IF vim = "off" THEN Append(prompt, <<NoMsg, "i">>) ELSE prompt
             /\ UNCHANGED <<backend, prog, vimSeen, taken, late, echoes>>
          \/ "vimUnseen" \in TiHazards /\ UNCHANGED tiPane
  /\ UNCHANGED <<injected, mirrored, told, cards, inTopic, capture, tiBounds>>

(* The text; of a ! command first the !, which switches the prompt (tmux)  *)
TypeText ==
  /\ At("text")
  /\ LET ps == IF backend = "tmux" THEN Pieces(job.m, job.kind)
               ELSE Pieces(job.m, "text") IN
     Typed(Head(ps)) /\ Goto(IF Len(ps) > 1 THEN "rest" ELSE "enter")
  /\ UNCHANGED <<injected, mirrored, told, cards, inTopic, capture, tiBounds>>
TypeRest ==
  /\ At("rest") /\ Typed(<<job.m, "rest">>) /\ Goto("enter")
  /\ UNCHANGED <<injected, mirrored, told, cards, inTopic, capture, tiBounds>>

(* Enter (M-Enter queues a follow-up), also that of an abandoned send; then *)
(* an acknowledgement, and for a ! command the capture of its output        *)
PressEnter ==
  /\ UNCHANGED <<injected, mirrored, told, cards, inTopic, capture, tiBounds>>
  /\ \/ At("enter") /\ Submitted /\ Goto("told")
     \/ /\ "enter" \in late /\ prompt # <<>>
        /\ prompt' = <<>> /\ taken' = Append(taken, <<prog, prompt>>)
        /\ echoes' = Append(echoes, prompt) /\ late' = late \ {"enter"}
        /\ UNCHANGED <<backend, prog, vim, vimSeen, job>>
TellSent ==
  /\ At("told") /\ job' = NoJob /\ told' = [told EXCEPT ![job.m] = "sent"]
  /\ capture' = (job.kind = "bang")
  /\ UNCHANGED <<injected, mirrored, cards, inTopic, tiPane, tiBounds>>
(***************************************************************************)
(* Beside the handlers.                                                    *)
(***************************************************************************)
(* Somebody types a line at the keyboard; nothing of it stays in the prompt*)
KeyedLine ==
  /\ keyed < MaxKeyed /\ keyed' = keyed + 1
  /\ During("keyboard") /\ prog = "agent"
  /\ taken' = Append(taken, <<prog, <<<<NoMsg, "text">>>>>>)
  /\ echoes' = Append(echoes, Append(prompt, <<NoMsg, "text">>)) /\ prompt' = <<>>
  /\ UNCHANGED <<backend, prog, vim, vimSeen, late, tiBot, agentMoves>>
(* The agent starts or exits; vim changes its mode, is set or left         *)
AgentMoves ==
  /\ agentMoves < MaxAgentMoves /\ agentMoves' = agentMoves + 1
  /\ \/ /\ During("agentExits") \/ job.pc \in {"told"}
        /\ prog' = IF prog = "agent" THEN "shell" ELSE "agent"
        /\ vim' = "off" /\ vimSeen' = (vimSeen /\ "leftVim" \in TiHazards)
     \/ /\ During("keyboard") /\ prog = "agent" /\ UNCHANGED <<prog, vimSeen>>
        /\ \/ vim = "normal" /\ vim' = "insert"
           \/ vim = "off" /\ vim' = "insert"
           \/ /\ vim = "insert" /\ vim' = "normal"
              /\ \/ "vimUnseen" \in TiHazards
                 \/ backend = "tmux" /\ vimSeen
           \/ vim # "off" /\ "leftVim" \in TiHazards /\ vim' = "off"
  /\ UNCHANGED <<backend, prompt, taken, late, echoes, tiBot, keyed>>
(* Status polling renders -- INSERT -- *)
SeeInsert ==
  /\ vim = "insert" /\ ~vimSeen /\ vimSeen' = TRUE
  /\ UNCHANGED <<backend, prog, vim, prompt, taken, late, echoes, tiBot, tiBounds>>

(* The monitor reads a user line: one of the bot's own is suppressed       *)
ReadEcho ==
  /\ echoes # <<>> /\ echoes' = Tail(echoes)
  /\ LET own == {m \in TiMessages : WholeOf(Head(echoes), m)} IN
       /\ injected' = injected \ own
       /\ mirrored' = IF inTopic THEN mirrored \cup (own \ injected) ELSE mirrored
  /\ UNCHANGED <<backend, prog, vim, vimSeen, prompt, taken, late, job, told, cards,
                 inTopic, capture, tiBounds>>
(* Thirty seconds pass over a remembered injection *)
InjectionExpires(m) ==
  /\ m \in injected /\ job.m # m
  /\ "slowEcho" \in TiHazards \/ ~\E i \in DOMAIN echoes : WholeOf(echoes[i], m)
  /\ injected' = injected \ {m}
  /\ UNCHANGED <<tiPane, job, mirrored, told, cards, inTopic, capture, tiBounds>>

CaptureEnds ==
  /\ capture /\ capture' = FALSE
  /\ UNCHANGED <<tiPane, job, injected, mirrored, told, cards, inTopic, tiBounds>>
(* The topic loses its window: its capture is cancelled *)
Unbind ==
  /\ inTopic /\ During("unbound")
  /\ inTopic' = FALSE /\ capture' = FALSE
  /\ UNCHANGED <<tiPane, job, injected, mirrored, told, cards, tiBounds>>

InputInit ==
  /\ backend \in {"tmux", "cli"} /\ prog = "agent" /\ vim \in {"off", "insert"}
  /\ vimSeen = FALSE /\ prompt = <<>> /\ taken = <<>> /\ late = {}
  /\ job = NoJob /\ injected = {} /\ echoes = <<>> /\ mirrored = {}
  /\ told = [m \in TiMessages |-> "new"] /\ cards = {}
  /\ inTopic = TRUE /\ capture = FALSE /\ keyed = 0 /\ agentMoves = 0

InputNext ==
  \/ \E m \in TiMessages : Transcribe(m) \/ InjectionExpires(m)
                           \/ \E kind \in Kinds : Receive(m, kind)
  \/ CheckOrigin \/ FindWindow \/ SendRefused \/ EnsureInsert
  \/ TypeText \/ TypeRest \/ PressEnter \/ TellSent
  \/ KeyedLine \/ AgentMoves \/ SeeInsert \/ ReadEcho \/ CaptureEnds \/ Unbind

InputSpec == InputInit /\ [][InputNext]_tiVars

(*************************************************************************)
(* Properties.                                                           *)
(*************************************************************************)
(* Every variable of the input model has a value of its kind             *)
InputTypeOK ==
  /\ backend \in {"tmux", "cli"} /\ prog \in {"agent", "shell"}
  /\ vim \in {"off", "insert", "normal"} /\ vimSeen \in BOOLEAN
  /\ job.m \in TiMessages \cup {NoMsg} /\ job.kind \in Kinds
  /\ injected \cup mirrored \cup cards \subseteq TiMessages
  /\ told \in [TiMessages -> {"new", "sent", "failed"}]
  /\ inTopic \in BOOLEAN /\ capture \in BOOLEAN

(* What the user is told is what happened: a message reported as sent was  *)
(* submitted to the agent as one line of its own, once; one reported as    *)
(* failed was not submitted, alone or inside another, and a transcription  *)
(* that failed can be sent again.                                          *)
DeliveredAsTold ==
  \A m \in TiMessages :
    LET with == {i \in DOMAIN taken : \E k \in DOMAIN taken[i][2] : taken[i][2][k][1] = m} IN
    /\ told[m] = "sent" =>
         /\ Cardinality(with) = 1
         /\ \A i \in with : taken[i][1] = "agent" /\ WholeOf(taken[i][2], m)
    /\ told[m] = "failed" /\ job.m # m => with = {}

(* A message that was sent is never mirrored back to its topic as if it    *)
(* had been typed at the keyboard, however early the transcript shows it.  *)
EchoSuppressed == mirrored = {}

(* No output capture outlives the binding of its topic: it would post to   *)
(* wherever the topic's chat resolves to without a binding.                *)
CaptureHasTopic == capture => inTopic

(* What the user is told of a message is so, and a capture has its topic:  *)
(* the parts above, with the types (text_handler.py, window_ops.py).       *)
InputInv == InputTypeOK /\ DeliveredAsTold /\ CaptureHasTopic
=============================================================================
