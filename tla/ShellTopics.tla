----------------------------- MODULE ShellTopics -----------------------------
(***************************************************************************)
(* A topic bound to a shell: what a user sends is run raw or turned into a *)
(* suggestion that a button runs (handlers/shell/shell_commands.py), the   *)
(* prompt is given a marker (shell_prompt_orchestrator.py, shell_infra.py) *)
(* and every poll relays the output of the last command by that marker,    *)
(* with the verdict of its exit code and a suggested fix                   *)
(* (shell_capture.py).  Commands are also entered at the terminal.         *)
(*                                                                         *)
(* Handlers of updates run one after another; the polling loop, which also *)
(* waits for the fix, runs beside them.                                    *)
(*                                                                         *)
(* ShHazards lets happen what the code does not exclude:                   *)
(*   "echoless"     the backend caps its scrollback and loses the echo     *)
(*   "sendFails"    Telegram refuses a message or an edit of the relay     *)
(*   "shifted"      output moves the echo in a full scrollback             *)
(*   "typedAfter"   commands are entered before the verdict on the topic's *)
(*                  last one, or fail after it succeeded                   *)
(*   "duringRelay"  a command is sent while the relay waits for Telegram   *)
(*   "earlyPoll"    a poll between a command's Enter and the mark of it    *)
(*   "staleCard"    the button of an older suggestion is pressed           *)
(*   "fixFirst"     a fix is suggested while a request is with the LLM     *)
(***************************************************************************)
EXTENDS Naturals, Sequences, FiniteSets, SequencesExt

CONSTANTS
  ShMessages,   \* what the user sends to the topic
  MaxTyped,     \* bound on the commands entered at the terminal
  MaxFixed,     \* bound on the commands a fix is found for, the first ones
  MaxOut,       \* the longest output, which scrolls the echo off the screen
  ShHazards, NoRequest

ASSUME ShellAssumption ==
  /\ {MaxTyped, MaxFixed} \subseteq Nat /\ MaxOut \in Nat \ {0} /\ NoRequest \notin ShMessages
  /\ ShHazards \subseteq {"sendFails", "shifted", "typedAfter", "duringRelay",
                          "staleCard", "fixFirst",
                          "earlyPoll", "echoless"}

(* What is run for a message: the message, its suggestion, or a fix of it *)
Sources == {"raw", "suggested", "fix"}
Suggestion == ShMessages \X {"suggested", "fix"}
NoCard == <<NoRequest, "none">>
NoTg == [m |-> NoRequest, src |-> "raw", react |-> FALSE, gen |-> 0]
NoEcho == <<"none", 0>>
NoPost == <<0, 0>>
FreshMonitor == [seen |-> TRUE, echo |-> NoEcho, msg |-> NoPost, out |-> <<>>,
                 err |-> FALSE, done |-> FALSE, tg |-> NoTg]
IdleJob == [pc |-> "idle", m |-> NoRequest, src |-> "raw"]

VARIABLES
  now,       \* the last command that was run
  ended,     \* how the commands of the topic ended
  marker,    \* the prompt carries the marker
  base,      \* commands that ran before the marker was set up
  capped,    \* the backend caps its scrollback and may lose the echo
  shift,     \* lines that left the captured scrollback
  skip,      \* the user skipped the set-up
  mon,       \* _shell_monitor_state of the window
  poll,      \* where the poll is, with what it extracted
  posts,     \* the relayed messages
  reacts,    \* the reaction on a user's message
  pending,   \* _shell_pending of the topic
  offers,     \* suggestions shown with their buttons
  presses,   \* <<the suggestion on the card, the one that was run>>
  generation,\* the topic has a generation of its own
  routing,       \* the running handler
  fix,       \* the fix the LLM is asked for, as tg
  fixGen,    \* _fix_generation
  answered,  \* messages that got a suggestion, a run or an error
  bound, entered
shPane == <<now, ended, marker, base, capped, shift>>
shMonitor == <<mon, poll, posts, fix>>
shTopic == <<skip, pending, offers, presses, generation, routing, answered, bound>>
shVars == <<shPane, shMonitor, shTopic, reacts, fixGen, entered>>

Runs(m, src) ==
  /\ now' = [n |-> now.n + 1, m |-> m, src |-> src, out |-> 0, exit |-> "run"]
  /\ posts' = <<>> /\ UNCHANGED <<ended, marker, base, capped, shift, poll, fix>>
ScreenChanges == mon' = [mon EXCEPT !.seen = FALSE]
Changes == ScreenChanges /\ UNCHANGED <<poll, posts, fix>>
AtPrompt == now.exit # "run"

(*************************************************************************)
(* The terminal.                                                         *)
(*************************************************************************)
(* A command entered at the terminal                                     *)
TypeCommand ==
  /\ entered < MaxTyped /\ AtPrompt /\ entered' = entered + 1
  /\ mon.tg.react \/ routing.pc = "mark" => "typedAfter" \in ShHazards
  /\ Runs(NoRequest, "raw") /\ ScreenChanges /\ UNCHANGED <<shTopic, reacts, fixGen>>
Output ==
  /\ ~AtPrompt /\ now.out < MaxOut /\ now' = [now EXCEPT !.out = @ + 1]
  /\ shift' = IF "shifted" \in ShHazards THEN shift + 1 ELSE shift
  /\ Changes /\ UNCHANGED <<ended, marker, base, capped, shTopic, reacts, fixGen, entered>>
Finish(exit) ==
  /\ ~AtPrompt
  /\ now.m = NoRequest /\ exit = "fail" => mon.tg.m = NoRequest \/ "typedAfter" \in ShHazards
  /\ now' = [now EXCEPT !.exit = exit]
  /\ ended' = IF now.m = NoRequest THEN ended ELSE ended \cup {<<now.m, now.src, exit>>}
  /\ Changes /\ UNCHANGED <<marker, base, capped, shift, shTopic, reacts, fixGen, entered>>
(* `exec bash`, a reloaded profile: the marker is gone until it is set up  *)
LoseMarker ==
  /\ marker /\ AtPrompt /\ routing.pc = "idle" /\ marker' = FALSE
  /\ entered < MaxTyped /\ entered' = entered + 1
  /\ Changes /\ UNCHANGED <<now, ended, base, capped, shift, shTopic, reacts, fixGen>>

(***************************************************************************)
(* The poll: shell_capture.                                                *)
(***************************************************************************)
(* A prompt in the last ten lines: the bare one of a finished command or   *)
(* the echo of one that has printed little                                 *)
MarkersInTail == marker /\ (AtPrompt \/ now.out < MaxOut)
(* A long output pushes the echo beyond what a capped backend reads        *)
Echoless == capped /\ now.out = MaxOut
Tracked == mon.echo # NoEcho /\ mon.msg # NoPost
InFlight == mon.echo # NoEcho \/ mon.msg # NoPost \/ mon.tg.m # NoRequest
ResetMonitor == [mon EXCEPT !.echo = NoEcho, !.msg = NoPost, !.out = <<>>,
                            !.err = FALSE, !.done = FALSE]
Nothing == now.n = base \/ ~MarkersInTail
           \/ (Echoless /\ ~(AtPrompt /\ InFlight))
(* [mutant] the text of the echo alone *)
IdentityByText ==
  IF ~Echoless THEN <<"echo", 0>>
  ELSE IF ~mon.done /\ (mon.echo # NoEcho \/ mon.msg # NoPost) THEN mon.echo
  ELSE <<"none", mon.tg.gen>>
(* The echo line and its index tell one run of a command from the next; a   *)
(* tail without its echo is the tracked command's or a new one of the topic *)
Identity ==
  IF ~Echoless THEN <<"echo", (now.n * 100) - shift>>
  ELSE IF ~mon.done /\ (mon.echo # NoEcho \/ mon.msg # NoPost) THEN mon.echo
  ELSE <<"none", mon.tg.gen>>
Text == IF now.out = 0 THEN <<>> ELSE <<now.n, now.out>>

(* Unchanged screens are skipped; without a prompt in sight a command that *)
(* is tracked stays tracked                                                *)
PollRender ==
  /\ poll = IdleJob /\ fix = NoTg /\ bound /\ ~mon.seen
  /\ routing.pc = "mark" => "earlyPoll" \in ShHazards
  /\ mon' = [(IF MarkersInTail \/ Tracked THEN mon ELSE ResetMonitor) EXCEPT !.seen = TRUE]
  /\ poll' = IF MarkersInTail THEN [IdleJob EXCEPT !.pc = "capture"] ELSE poll
  /\ UNCHANGED <<shPane, posts, fix, shTopic, reacts, fixGen, entered>>

(* One message per command, sent once and then edited, with an error mark  *)
(* when the command failed                                                 *)
PollRelay(ok) ==
  /\ poll.pc = "capture" /\ (ok \/ "sendFails" \in ShHazards)
  /\ IF Nothing
     THEN /\ mon' = IF Tracked THEN mon ELSE ResetMonitor
          /\ poll' = IdleJob /\ UNCHANGED posts
     ELSE
     LET known == IF Identity = mon.echo THEN mon
                  ELSE [ResetMonitor EXCEPT !.echo = Identity]
         says == Text # known.out
         msg == IF ~says \/ known.msg # NoPost THEN known.msg
                ELSE IF ok THEN <<now.n, Len(posts) + 1>> ELSE NoPost
         fails == now.exit = "fail" /\ ~known.err /\ msg # NoPost
         shown == [out |-> now.out, err |-> now.exit = "fail"]
     IN /\ mon' = [known EXCEPT !.out = Text, !.msg = msg, !.err = @ \/ fails]
        /\ posts' = IF msg[1] # now.n \/ ~(says \/ fails) \/ ~ok THEN posts
                    ELSE IF msg[2] > Len(posts) THEN Append(posts, shown)
                    ELSE [posts EXCEPT ![msg[2]] = shown]
        /\ poll' = [pc |-> "exit", m |-> now.exit, src |-> "raw"]
  /\ UNCHANGED <<shPane, fix, shTopic, reacts, fixGen, entered>>

(* [mutant] no exit code yet is taken for a success *)
PollExitAny ==
  /\ poll.pc = "exit" /\ poll' = IdleJob
  /\ reacts' = IF mon.tg.react /\ poll.m # "fail" THEN [reacts EXCEPT ![mon.tg.m] = "ok"]
               ELSE reacts
  /\ mon' = [mon EXCEPT !.done = TRUE, !.tg.react = FALSE]
  /\ UNCHANGED <<shPane, posts, fix, shTopic, fixGen, entered>>
(* The exit code: the reaction on the command's message, and a fix when it *)
(* failed                                                                  *)
PollExit ==
  /\ poll.pc = "exit" /\ poll' = IdleJob
  /\ LET tg == mon.tg
         over == poll.m # "run"
         failed == poll.m = "fail" /\ tg.m # NoRequest IN
       /\ reacts' = IF over /\ tg.react THEN [reacts EXCEPT ![tg.m] = poll.m] ELSE reacts
       /\ mon' = [mon EXCEPT !.done = @ \/ over,
                  !.tg = IF failed THEN NoTg
                         ELSE [tg EXCEPT !.react = tg.react /\ poll.m # "ok"]]
       /\ fix' = IF failed THEN tg ELSE fix
  /\ UNCHANGED <<shPane, posts, shTopic, fixGen, entered>>

(* A suggestion takes the topic's slot before its card is sent             *)
Show(card) ==
  /\ pending' = IF pending = NoCard THEN card ELSE pending
  /\ offers' = IF pending = NoCard THEN offers \cup {card} ELSE offers

(* The fix arrives, or the LLM fails or repeats the command; one for a     *)
(* command that is not the latest any more is discarded                    *)
FixArrives(found) ==
  /\ fix # NoTg /\ fix' = NoTg
  /\ routing.pc = "llm" => "fixFirst" \in ShHazards
  /\ IF found /\ fixGen <= MaxFixed /\ fixGen = fix.gen THEN Show(<<fix.m, "fix">>)
     ELSE UNCHANGED <<pending, offers>>
  /\ UNCHANGED <<shPane, mon, poll, posts, skip, presses, generation, routing, answered,
                 bound, reacts, fixGen, entered>>

(*************************************************************************)
(* The handlers: shell_commands and shell_prompt_orchestrator.           *)
(*************************************************************************)
(* Bound: a command is sent when no other one runs                       *)
MaySend == AtPrompt /\ (poll = IdleJob \/ "duringRelay" \in ShHazards)
(* Set up when nothing runs: an interrupt, the prompt, perhaps a clear     *)
SetUp == /\ marker' = (marker \/ AtPrompt)
         /\ base' = IF marker' /\ ~marker THEN now.n ELSE base
         /\ Changes /\ UNCHANGED <<now, ended, capped, shift>>

(* A message drops what is pending, restores the marker, and is run as it  *)
(* is (a !, or no LLM) or given to the LLM                                 *)
Request(m, src) ==
  /\ routing.pc = "idle" /\ bound /\ reacts[m] = "none" /\ src \in {"raw", "suggested"}
  /\ m \notin answered
  /\ pending' = NoCard /\ generation' = (src = "suggested")
  /\ IF skip THEN UNCHANGED <<shPane, shMonitor>> ELSE SetUp
  /\ offers' = IF "staleCard" \in ShHazards THEN offers ELSE {}
  /\ reacts' = [reacts EXCEPT ![m] = "running"]
  /\ routing' = [pc |-> IF src = "raw" THEN "run" ELSE "llm", m |-> m, src |-> src]
  /\ UNCHANGED <<skip, presses, answered, bound, fixGen, entered>>

(* The suggestion is shown, unless the topic was cleaned up meanwhile      *)
LlmAnswers(ok) ==
  /\ routing.pc = "llm" /\ routing' = IdleJob
  /\ IF ok /\ generation THEN Show(<<routing.m, "suggested">>) ELSE UNCHANGED <<pending, offers>>
  /\ answered' = IF ok /\ generation /\ pending # NoCard THEN answered
                 ELSE answered \cup {routing.m}
  /\ UNCHANGED <<shPane, shMonitor, skip, presses, generation, bound, reacts, fixGen, entered>>

(* Run: what is pending for the topic, in the window bound now, once.  An  *)
(* old card finds the newest suggestion.                                   *)
PressRun(card) ==
  /\ routing.pc = "idle" /\ card \in offers /\ pending # NoCard
  /\ pending' = NoCard /\ generation' = FALSE
  /\ presses' = IF bound THEN presses \cup {<<card, pending>>} ELSE presses
  /\ routing' = IF bound THEN [pc |-> "run", m |-> pending[1], src |-> pending[2]] ELSE routing
  /\ offers' = offers \ {card}
  /\ UNCHANGED <<shPane, shMonitor, skip, answered, bound, reacts, fixGen, entered>>
(* Edit and Cancel *)
PressDrop(card) ==
  /\ routing.pc = "idle" /\ card \in offers
  /\ pending' = NoCard /\ generation' = FALSE /\ offers' = offers \ {card}
  /\ UNCHANGED <<shPane, shMonitor, skip, presses, routing, answered, bound, reacts, fixGen, entered>>

(* The command is entered after what was left at the prompt is cancelled     *)
SendCommand(ok) ==
  /\ routing.pc = "run" /\ MaySend
  /\ IF ok THEN Runs(routing.m, routing.src) /\ ScreenChanges ELSE UNCHANGED <<shPane, shMonitor>>
  /\ routing' = IF ok THEN [routing EXCEPT !.pc = "mark"] ELSE IdleJob
  /\ answered' = answered \cup {routing.m}
  /\ UNCHANGED <<skip, pending, offers, presses, generation, bound, reacts, fixGen, entered>>
(* ... and the monitor is told whose it is                                 *)
MarkTelegramCommand ==
  /\ routing.pc = "mark" /\ routing' = IdleJob /\ fixGen' = fixGen + 1
  /\ mon' = [mon EXCEPT !.tg = [m |-> routing.m, src |-> routing.src, react |-> routing.src # "fix",
                                gen |-> fixGen + 1]]
  /\ UNCHANGED <<shPane, poll, posts, fix, skip, pending, offers, presses, generation,
                 answered, bound, reacts, entered>>

(* The offer of a window that is bound or switched: set up or skip         *)
AnswerOffer(accept) ==
  /\ routing.pc = "idle" /\ bound /\ ~marker /\ AtPrompt
  /\ IF accept THEN SetUp ELSE UNCHANGED <<shPane, shMonitor>>
  /\ skip' = (skip \/ ~accept)
  /\ UNCHANGED <<pending, offers, presses, generation, routing, answered, bound,
                 reacts, fixGen, entered>>
(* The topic loses its window                                              *)
LoseWindow ==
  /\ bound /\ bound' = FALSE /\ poll = IdleJob /\ routing.pc # "mark"
  /\ pending' = NoCard /\ generation' = FALSE /\ mon' = FreshMonitor
  /\ UNCHANGED <<shPane, poll, posts, fix, skip, offers, presses, routing, answered, reacts,
                 fixGen, entered>>

ShellInit ==
  /\ now = [n |-> 0, m |-> NoRequest, src |-> "raw", out |-> 0, exit |-> "ok"]
  /\ ended = {} /\ base = 0 /\ marker \in BOOLEAN /\ shift = 0
  /\ capped \in {FALSE, "echoless" \in ShHazards} /\ skip = FALSE
  /\ mon = FreshMonitor /\ poll = IdleJob /\ posts = <<>> /\ fix = NoTg
  /\ reacts = [m \in ShMessages |-> "none"] /\ pending = NoCard /\ offers = {}
  /\ presses = {} /\ generation = FALSE /\ routing = IdleJob /\ fixGen = 0
  /\ answered = {} /\ bound = TRUE /\ entered = 0

ShellNext ==
  \/ TypeCommand \/ Output \/ LoseMarker \/ (\E exit \in {"ok", "fail"} : Finish(exit))
  \/ PollRender \/ PollExit \/ MarkTelegramCommand \/ LoseWindow
  \/ \E b \in BOOLEAN : \/ PollRelay(b) \/ FixArrives(b) \/ LlmAnswers(b)
                        \/ SendCommand(b) \/ AnswerOffer(b)
  \/ \E m \in ShMessages, src \in Sources : Request(m, src)
  \/ \E card \in Suggestion : PressRun(card) \/ PressDrop(card)

ShellSpec == ShellInit /\ [][ShellNext]_shVars

(*************************************************************************)
(* Properties.                                                           *)
(*************************************************************************)
(* Every variable of the shell model has a value of its kind             *)
ShellTypeOK ==
  /\ {marker, capped, skip, generation, bound} \subseteq BOOLEAN
  /\ now.out \in 0..MaxOut /\ now.exit \in {"run", "ok", "fail"}
  /\ mon.msg[1] = now.n => mon.msg[2] \in 1..Len(posts) \cup {0}
  /\ pending \in Suggestion \cup {NoCard}
  /\ offers \subseteq Suggestion /\ answered \subseteq ShMessages
  /\ reacts \in [ShMessages -> {"none", "running", "ok", "fail"}]

(* Once the poll has seen the screen, the last command of a marked shell,  *)
(* when it has finished and printed something, has one message in the      *)
(* topic: all of its output, and an error exactly when it failed.          *)
LastOutputShown ==
  (bound /\ poll = IdleJob /\ mon.seen /\ marker /\ now.n > base /\ AtPrompt
     /\ now.out > 0 /\ ~(Echoless /\ now.m = NoRequest))
  => posts = <<[out |-> now.out, err |-> now.exit = "fail"]>>

(* A verdict is about the command it is shown on: a message's reaction is  *)
(* how a command run for it ended, and a fix is asked for, or suggested,   *)
(* only for a command that failed.                                         *)
EndedSo(m, srcs, exit) == \E src \in srcs : <<m, src, exit>> \in ended
VerdictsMatch ==
  /\ \A m \in ShMessages : reacts[m] \in {"ok", "fail"} =>
       EndedSo(m, {"raw", "suggested"}, reacts[m])
  /\ fix # NoTg => EndedSo(fix.m, {fix.src}, "fail")
  /\ \A m \in ShMessages : <<m, "fix">> \in offers => EndedSo(m, Sources, "fail")

(* Run runs the suggestion its card shows. *)
CardsTellTruth == \A p \in presses : p[1] = p[2]

(* A request is never dropped in silence: once its handler is done it got  *)
(* a suggestion, was run, or was answered with an error.                   *)
RequestsAnswered ==
  \A m \in ShMessages : reacts[m] # "none" /\ routing.m # m =>
    m \in answered

(* Verdicts, suggestions and answers are about the commands they are shown    *)
(* on: the parts above, with the types (shell_capture.py, shell_commands.py). *)
ShellInv == ShellTypeOK /\ VerdictsMatch /\ CardsTellTruth /\ RequestsAnswered
=============================================================================
