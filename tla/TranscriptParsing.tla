-------------------------- MODULE TranscriptParsing --------------------------
(*****************************************************************************)
(* What the reader makes of the lines the agent CLIs write.  Every provider  *)
(* records a conversation in its own way: Claude writes blocks and local     *)
(* commands in two lines, Codex repeats an assistant text as an event, an    *)
(* item and a completion, Gemini re-appends a whole message on every update, *)
(* Antigravity and Pi name calls by id or by tool.  The monitor parses what  *)
(* is new at each poll and carries only the pending tools to the next one.   *)
(*****************************************************************************)
EXTENDS Integers, Sequences, FiniteSets, SequencesExt

CONSTANTS Providers,  \* the providers whose transcripts are read
          MaxTurns,   \* bound: things the agent says
          TpHazards   \* real behaviours admitted, see the README

ASSUME TpAssumption == /\ Providers \subseteq {"claude", "codex", "gemini", "antigravity", "pi"}
                       /\ MaxTurns \in Nat
                       /\ TpHazards \subseteq {"split", "phaseless", "sameText", "updates", "restart"}

VARIABLES provider, said, unwritten, lines, read, open, current, pending, seenIds, relayed

tpVars == <<provider, said, unwritten, lines, read, open, current, pending, seenIds, relayed>>

Message(k, i, txt) == [kind |-> k, of |-> i, text |-> txt, named |-> TRUE, complete |-> TRUE, final |-> FALSE]
Plain(k, i)  == Message(k, i, i)
NoMessage    == [id |-> 0, calls |-> {}, over |-> {}]
Line(f, i)   == [form |-> f, of |-> i]
Blocks(r, b) == [form |-> r, blocks |-> b]
Block(k, i)  == [kind |-> k, of |-> i, text |-> i]

TpInit == /\ provider \in Providers
          /\ said = <<>> /\ unwritten = <<>> /\ lines = <<>> /\ read = 0
          /\ open = {} /\ current = NoMessage
          /\ pending = {} /\ seenIds = {} /\ relayed = <<>>

(* --- The agents (external): what is said and the lines that record it --- *)

Next1 == Len(said) + 1
Results == IF "sameText" \in TpHazards THEN {0} ELSE {Next1}

ClaudeTurns ==
    { [items |-> <<Plain("text", Next1)>>, lines |-> <<Blocks("assistant", <<Block("text", Next1)>>)>>],
      [items |-> <<Plain("user", Next1)>>, lines |-> <<Blocks("user", <<Block("text", Next1), Block("system", 0)>>)>>],
      [items |-> <<Plain("text", Next1), Plain("call", Next1 + 1)>>,
       lines |-> <<Blocks("assistant", <<Block("text", Next1), Block("call", Next1 + 1)>>)>>],
      [items |-> <<Plain("command", Next1)>>, lines |-> <<Line("invoke", Next1), Line("stdout", Next1)>>] }
    \cup { [items |-> <<Plain("result", c)>>, lines |-> <<Blocks("user", <<Block(k, c)>>)>>] :
              c \in open, k \in {"result", "silent"} }

CodexTexts == LET item(ph) == [form |-> "message", of |-> Next1, phase |-> ph]
              IN { <<item(TRUE)>>, <<Line("agent_message", Next1), item(TRUE)>>,
                   <<Line("agent_message", Next1), Line("task_complete", Next1)>>,
                   <<Line("agent_message", Next1), item(TRUE), Line("token_count", 0), Line("task_complete", Next1)>> }
                 \cup IF "phaseless" \in TpHazards THEN {<<Line("agent_message", Next1), item(FALSE)>>} ELSE {}

CodexTurns ==
    { [items |-> <<Plain("text", Next1)>>, lines |-> ls] : ls \in CodexTexts }
    \cup { [items |-> <<Plain("user", Next1)>>, lines |-> <<Line("input_item", Next1)>>],
           [items |-> <<Plain("call", Next1)>>, lines |-> <<Line("function_call", Next1)>>] }
    \cup { [items |-> <<Message("result", c, x)>>,
            lines |-> <<[form |-> "function_call_output", of |-> c, text |-> x]>>] : c \in open, x \in Results }

GeminiLine(i, calls, over, txt) == [form |-> "gemini", of |-> i, calls |-> calls, over |-> over, text |-> txt]

GeminiTurns ==
    { [items |-> <<Plain("user", Next1)>>, lines |-> <<[form |-> "user", of |-> Next1, calls |-> {}, over |-> {}, text |-> Next1]>>] }
    \cup { [items |-> <<Plain("text", Next1)>>, lines |-> <<GeminiLine(Next1, {}, {}, Next1)>>] }
    \cup { [items |-> <<Plain("call", Next1), Plain("call", Next1 + 1), Plain("text", Next1 + 2)>>,
            lines |-> <<GeminiLine(Next1 + 2, {Next1, Next1 + 1}, {}, Next1 + 2)>>] }
    \cup { [items |-> SetToSeq({Plain("result", c) : c \in done \ current.over}),
            lines |-> <<GeminiLine(current.id, current.calls, done, current.id)>>] :
              done \in { d \in SUBSET current.calls :
                           /\ current.over \subseteq d /\ current.calls # {}
                           /\ "updates" \in TpHazards \/ (d = current.calls /\ current.over = {}) } }

AntigravityTurns ==
    { [items |-> <<Plain("call", Next1), Plain("text", Next1 + 1)>>,
       lines |-> <<[form |-> "planner", calls |-> <<Next1>>, of |-> Next1 + 1]>>],
      [items |-> <<Plain("user", Next1)>>, lines |-> <<[form |-> "user_input", calls |-> <<>>, of |-> Next1]>>] }
    \cup { [items |-> IF x = "" THEN <<>> ELSE <<Plain("result", c)>>,
            lines |-> <<[form |-> "run_command", of |-> c, text |-> x]>>] : c \in open, x \in {"", "out"} }

PiTurns ==
    { [items |-> <<Plain("text", Next1), Plain("call", Next1 + 1), Plain("error", Next1 + 2)>>,
       lines |-> <<Blocks("assistant", <<Block("text", Next1), Block("call", Next1 + 1), Block("error", Next1 + 2)>>)>>],
      [items |-> <<Plain("user", Next1)>>, lines |-> <<Blocks("user", <<Block("text", Next1)>>)>>],
      [items |-> <<Plain("bash", Next1)>>, lines |-> <<Line("bashExecution", Next1)>>],
      [items |-> <<>>, lines |-> <<Line("compactionSummary", 0)>>] }
    \cup { [items |-> <<Plain("result", c)>>, lines |-> <<Line("toolResult", c)>>] : c \in open }

Turns == CASE provider = "claude" -> ClaudeTurns [] provider = "codex" -> CodexTurns
           [] provider = "gemini" -> GeminiTurns [] provider = "antigravity" -> AntigravityTurns
           [] OTHER -> PiTurns

Said(ms, k) == { ms[i].of : i \in {j \in DOMAIN ms : ms[j].kind = k} }
Ended(ls)   == { ls[i].of : i \in {j \in DOMAIN ls : ls[j].form = "run_command"} }

(* The agent says something; its lines follow one by one. *)
Speak == /\ unwritten = <<>> /\ Len(lines) < MaxTurns
         /\ \E t \in Turns :
              /\ said' = said \o t.items
              /\ unwritten' = t.lines
              /\ open' = (open \cup Said(t.items, "call")) \ (Said(t.items, "result") \cup Ended(t.lines))
              /\ current' = IF provider = "gemini" /\ t.lines[1].calls # {}
                            THEN [id |-> t.lines[1].of, calls |-> t.lines[1].calls, over |-> t.lines[1].over]
                            ELSE NoMessage
         /\ UNCHANGED <<provider, lines, read, pending, seenIds, relayed>>

(* The CLI writes the lines of one utterance at once, or ("split") a poll   *)
(* may fall between two of them.                                            *)
Write == /\ unwritten # <<>>
         /\ \E k \in 1..Len(unwritten) :
              /\ "split" \in TpHazards \/ k = Len(unwritten)
              /\ lines' = lines \o SubSeq(unwritten, 1, k)
              /\ unwritten' = SubSeq(unwritten, k + 1, Len(unwritten))
         /\ UNCHANGED <<provider, said, read, open, current, pending, seenIds, relayed>>

(* --- The parsers: acc is what one call carries from line to line --- *)

Emit(acc, ms) == [acc EXCEPT !.out = @ \o ms]

(* A result pairs with its pending call, whose name it takes. *)
Resolve(acc, m) == [Emit(acc, <<[m EXCEPT !.named = m.of \in acc.pending]>>) EXCEPT !.pending = @ \ {m.of}]
Announce(acc, i) == [Emit(acc, <<Plain("call", i)>>) EXCEPT !.pending = @ \cup {i}]

ClaudeBlock(role, acc, b) ==
    CASE b.kind = "text"   -> Emit(acc, <<Plain(IF role = "user" THEN "user" ELSE "text", b.of)>>)
      [] b.kind = "call"   -> Announce(acc, b.of)
      [] b.kind = "result" -> Resolve(acc, Plain("result", b.of))
      [] b.kind = "silent" -> IF b.of \in acc.pending THEN Resolve(acc, Plain("result", b.of)) ELSE acc
      [] OTHER             -> acc

(* A local command's name comes from the invocation line before its output. *)
ClaudeCommand(acc, l) ==
    IF l.form = "invoke" THEN [acc EXCEPT !.command = l.of]
    ELSE [Emit(acc, <<[Plain("command", l.of) EXCEPT !.named = acc.command = l.of]>>) EXCEPT !.command = 0]

ParseClaude(acc, l) ==
    IF l.form \in {"invoke", "stdout"} THEN ClaudeCommand(acc, l)
    ELSE FoldLeft(LAMBDA a, b : ClaudeBlock(l.form, a, b), [acc EXCEPT !.command = 0], l.blocks)

(* Codex: an exact adjacent duplicate is dropped, or takes the place of the *)
(* copy that carries less.                                                  *)
Signature(m) == <<m.kind, m.text>>
Unique(acc, m) ==
    IF acc.last # Signature(m) THEN [Emit(acc, <<m>>) EXCEPT !.last = Signature(m)]
    ELSE IF acc.out # <<>> /\ m.final /\ ~Last(acc.out).final
         THEN [acc EXCEPT !.out = Front(@) \o <<m>>]
         ELSE acc

CodexEvent(acc, l) ==
    CASE l.form = "agent_message" -> Unique(acc, [Plain("text", l.of) EXCEPT !.complete = FALSE])
      [] l.form = "task_complete" -> Unique(acc, [Plain("text", l.of) EXCEPT !.final = TRUE])
      [] OTHER                    -> acc

CodexOutput(acc, l) ==
    [Unique(acc, [Message("result", l.of, l.text) EXCEPT !.named = l.of \in acc.pending])
       EXCEPT !.pending = @ \ {l.of}]

CodexItem(acc, l) ==
    CASE l.form = "message"       -> Unique(acc, [Plain("text", l.of) EXCEPT !.final = l.phase])
      [] l.form = "function_call" -> [Unique(acc, Plain("call", l.of)) EXCEPT !.pending = @ \cup {l.of}]
      [] OTHER                    -> CodexOutput(acc, l)

ParseCodex(acc, l) ==
    CASE l.form \in {"agent_message", "task_complete", "token_count"} -> CodexEvent(acc, l)
      [] l.form = "input_item" -> Unique(acc, Plain("user", l.of))
      [] OTHER                 -> CodexItem(acc, l)

GeminiCall(l, acc, c) ==
    LET told == IF c \in acc.pending THEN acc ELSE Announce(acc, c)
    IN IF c \in l.over THEN Resolve(told, Plain("result", c)) ELSE told

ParseGemini(acc, l) ==
    LET called == FoldLeft(LAMBDA a, c : GeminiCall(l, a, c), acc, SetToSortSeq(l.calls, <))
        text   == IF l.of \in acc.seen THEN <<>>
                  ELSE <<Plain(IF l.form = "user" THEN "user" ELSE "text", l.text)>>
    IN [Emit(called, text) EXCEPT !.seen = @ \cup {l.of}]

AntigravityRole(l) == IF l.form = "user_input" THEN "user" ELSE "text"
ParseAntigravity(acc, l) ==
    IF l.form = "run_command"
    THEN IF l.text = "" THEN [acc EXCEPT !.pending = @ \ {l.of}] ELSE Resolve(acc, Plain("result", l.of))
    ELSE Emit(FoldLeft(Announce, acc, l.calls), <<Plain(AntigravityRole(l), l.of)>>)

PiBlock(acc, b) == IF b.kind = "call" THEN Announce(acc, b.of) ELSE Emit(acc, <<Plain(b.kind, b.of)>>)
PiResult(acc, l) == Resolve(acc, Plain("result", l.of))
PiBash(acc, l)   == Emit(acc, <<Plain("bash", l.of)>>)
ParsePi(acc, l) ==
    CASE l.form = "user"          -> Emit(acc, <<Plain("user", l.blocks[1].of)>>)
      [] l.form = "assistant"     -> FoldLeft(PiBlock, acc, l.blocks)
      [] l.form = "toolResult"    -> PiResult(acc, l)
      [] l.form = "bashExecution" -> PiBash(acc, l)
      [] OTHER                    -> acc

ParseLine(acc, l) ==
    CASE provider = "claude" -> ParseClaude(acc, l) [] provider = "codex" -> ParseCodex(acc, l)
      [] provider = "gemini" -> ParseGemini(acc, l) [] provider = "antigravity" -> ParseAntigravity(acc, l)
      [] OTHER -> ParsePi(acc, l)

CarriedNothing == {[out |-> <<>>, pending |-> {}, seen |-> seenIds, command |-> 0, last |-> <<>>]}
(* What one parse starts from: the tools carried over and everything else   *)
(* new, or ("restart") nothing, the offset alone having been saved.         *)
Carried == LET start(p, s) == [out |-> <<>>, pending |-> p, seen |-> s, command |-> 0, last |-> <<>>]
           IN {start(pending, seenIds)} \cup IF "restart" \in TpHazards THEN {start({}, {})} ELSE {}

(* One poll parses every line written since the last. *)
PollTranscript ==
    /\ read < Len(lines)
    /\ \E start \in Carried : LET end == FoldLeft(ParseLine, start, SubSeq(lines, read + 1, Len(lines)))
       IN relayed' = relayed \o end.out /\ pending' = end.pending /\ seenIds' = end.seen
    /\ read' = Len(lines)
    /\ UNCHANGED <<provider, said, unwritten, lines, open, current>>

ParsingNext == Speak \/ Write \/ PollTranscript
ParsingSpec == TpInit /\ [][ParsingNext]_tpVars

ParsingTypeOK == /\ provider \in Providers /\ read \in 0..Len(lines)
                 /\ \A i \in DOMAIN relayed : relayed[i].kind \in {"text", "user", "call", "result", "command", "bash", "error"}
                 /\ pending \subseteq 1..Len(said) /\ seenIds \subseteq 1..Len(said)

CaughtUp == read = Len(lines) /\ unwritten = <<>>
Shown    == SelectSeq(relayed, LAMBDA m : m.complete)
Copies(s, m) == Cardinality({ i \in DOMAIN s : <<s[i].kind, s[i].of>> = <<m.kind, m.of>> })

(* However the polls fall between the agent's writes, the topic is told each *)
(* text, call, result and command exactly once, a result under the name of   *)
(* its call, and nothing else: parse_transcript_entries of the five          *)
(* providers with the pending tools _append_provider_messages carries.       *)
ToldAsSaid == CaughtUp =>
    /\ Len(Shown) = Len(said)
    /\ \A i \in DOMAIN said : Copies(Shown, said[i]) = 1
    /\ \A i \in DOMAIN Shown : Shown[i].named

(* The tools carried between polls are exactly the calls whose result has  *)
(* not been written, so no call is paired twice and none is kept for ever. *)
PendingIsOpen == CaughtUp => pending = open

(* What the parsers told is what the agent said, and what they carry over is *)
(* what is still open (transcript_parser.py, providers/).                    *)
ParsingInv == ParsingTypeOK /\ ToldAsSaid /\ PendingIsOpen
===============================================================================
