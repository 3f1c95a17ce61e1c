------------------------ MODULE MCTranscriptDelivery ------------------------
(***************************************************************************)
(* TranscriptDelivery on small instances: the transcripts agents write and *)
(* the environment events allowed in each run.                             *)
(***************************************************************************)
EXTENDS TranscriptInvariant

E(kind) == [kind |-> kind, of |-> 0]
Result(of) == [kind |-> "result", of |-> of]
AllWrite(entries) == [s \in Sessions |-> [i \in Item |-> entries[i]]]

TextOnly == AllWrite([i \in Item |-> E("text")])
ToolCall == AllWrite(<<E("text"), E("use"), Result(2)>>)
ToolCallThenText == AllWrite(<<E("text"), E("use"), Result(2), E("text")>>)
PromptOnly == AllWrite(<<E("prompt"), E("silent"), Result(1)>>)

Allow(events) == [e \in Events |-> IF e \in events THEN 1 ELSE 0]

SkipOnce == Allow({"skip"})
SkipRebind == Allow({"skip", "rebind"})
ReadFault == Allow({"read"})
SendFaults == Allow({"crash", "stop", "send", "flood", "route"})
SkipFaults == Allow({"skip", "crash", "stop", "save", "send"})
TopicFaults == Allow({"skip", "rebind", "gap", "read", "flood"})
FairFaults == Allow({"skip", "stop", "crash", "save"})
=============================================================================
