---------------------------- MODULE AnthropicStream ----------------------------
(***************************************************************************)
(* One streamed POST /v1/messages response: the adapters that turn Claude  *)
(* Code records, an OpenAI-compatible stream or a buffered Gemini envelope *)
(* into Anthropic events (src/src/translation/anthropic_sse.py), and the   *)
(* generator that carries them (src/src/routes/anthropic_messages.py).     *)
(*                                                                         *)
(* A step reads one record of the backend, which updates the translation   *)
(* state and makes a list of events, or gives the client the next event of *)
(* that list. The state runs ahead of the wire by the events not yet given.*)
(* Text is only present or absent; token counts and ids are left out.      *)
(***************************************************************************)
EXTENDS Integers, FiniteSets, Sequences

CONSTANTS
    ToolIndexes,    \* OpenAI tool_calls[].index values
    MaxRecords      \* bound: records or chunks of one backend stream

ASSUME StreamAssumption ==
    ToolIndexes \subseteq Nat /\ IsFiniteSet(ToolIndexes) /\ MaxRecords \in Nat

VARIABLES
    upstream,
    phase,         \* "reading" the backend, "finishing", or how the stream ended
    records,    \* how many records were read
    state,      \* AnthropicStreamState
    events,     \* events made and not yet yielded
    wire        \* events the client has received

streamVars == <<upstream, phase, records, state, events, wire>>

None == -1
StopReasons == {"end_turn", "max_tokens", "tool_use"}
Calls == {"absent", "nameless", "named"}

StreamTypeOK ==
    /\ upstream \in {"claude", "openai", "gemini"}
    /\ phase \in {"begin", "reading", "finishing", "ended", "failed", "gone"}
    /\ records \in 0..MaxRecords
    /\ state \in [started : BOOLEAN, stopped : BOOLEAN, next : Nat, open : Nat \cup {None},
                  text : Nat \cup {None}, said : BOOLEAN,
                  calls : [ToolIndexes -> Calls], stop : StopReasons]
    /\ state.open < state.next /\ state.text < state.next

StreamInit ==
    /\ upstream \in {"claude", "openai", "gemini"} /\ phase = "begin" /\ records = 0
    /\ state = [started |-> FALSE, stopped |-> FALSE, next |-> 0, open |-> None, text |-> None,
                said |-> FALSE, calls |-> [i \in ToolIndexes |-> "absent"], stop |-> "end_turn"]
    /\ events = <<>> /\ wire = <<>>

(***************************************************************************)
(* The adapters' helpers, on a pair of the state and the events made.      *)
(***************************************************************************)
Opened(index, block) == [type |-> "content_block_start", index |-> index, block |-> block]
Part(index) == [type |-> "content_block_delta", index |-> index]
Closed(index) == [type |-> "content_block_stop", index |-> index]

Start(x) ==
    IF x.state.started THEN x
    ELSE [state |-> [x.state EXCEPT !.started = TRUE],
          events |-> Append(x.events, [type |-> "message_start"])]

CloseOpenBlock(x) ==
    IF x.state.open = None THEN x
    ELSE [state |-> [x.state EXCEPT !.open = None],
          events |-> Append(x.events, Closed(x.state.open))]

(* Any block opens at the next index, after whichever is open is closed. *)
OpenBlock(x, block) ==
    LET c == CloseOpenBlock(x)
    IN  [state |-> [c.state EXCEPT !.next = @ + 1, !.open = c.state.next],
         events |-> Append(c.events, Opened(c.state.next, block))]

StartTextBlock(x) ==
    LET s == Start(x)
        b == OpenBlock(s, "text")
    IN  IF s.state.text # None /\ s.state.open = s.state.text THEN s
        ELSE [b EXCEPT !.state.text = b.state.open]

TextDelta(x) ==
    LET b == StartTextBlock(x)
    IN  [state |-> [b.state EXCEPT !.said = TRUE],
         events |-> Append(b.events, Part(b.state.text))]

(* Tool calls are replayed at the end, in the order of their indexes; one  *)
(* that never got a name is dropped. Each is a block of three events, and  *)
(* the last is left open.                                                  *)
ToolEvent(first, k) ==
    LET index == first + (k \div 3)
    IN  CASE k % 3 = 0 -> Opened(index, "tool_use")
          [] k % 3 = 1 -> Part(index)
          [] OTHER -> Closed(index)

ToolBlocks(x) ==
    LET n == Cardinality({i \in ToolIndexes : x.state.calls[i] = "named"})
        c == CloseOpenBlock(x)
    IN  IF n = 0 THEN x
        ELSE [state |-> [c.state EXCEPT !.next = @ + n, !.open = c.state.next + n - 1],
              events |-> c.events \o [k \in 1..(3 * n - 1) |-> ToolEvent(c.state.next, k - 1)]]

(* Mutant of EmitToolBlocks: the stop reason is left as it came. *)
EmitToolBlocksOnly(x) == ToolBlocks(x)

EmitToolBlocks(x) ==
    LET b == ToolBlocks(x)
    IN  IF \E i \in ToolIndexes : x.state.calls[i] = "named"
        THEN [b EXCEPT !.state.stop = "tool_use"]
        ELSE [b EXCEPT !.state.stop = IF @ = "tool_use" THEN "end_turn" ELSE @]

(* Mutant of FinishStream: an empty message gets no empty text block. *)
FinishStreamBare(x) ==
    LET b == CloseOpenBlock(EmitToolBlocks(Start(x)))
    IN  IF x.state.stopped THEN x
        ELSE [state |-> [b.state EXCEPT !.stopped = TRUE],
              events |-> b.events \o <<[type |-> "message_delta", stop |-> b.state.stop],
                                       [type |-> "message_stop"]>>]

FinishStream(x) ==
    LET noCalls == \A i \in ToolIndexes : x.state.calls[i] = "absent"
        s == IF x.state.next = 0 /\ noCalls THEN StartTextBlock(x) ELSE Start(x)
        b == CloseOpenBlock(EmitToolBlocks(s))
    IN  IF x.state.stopped THEN x
        ELSE [state |-> [b.state EXCEPT !.stopped = TRUE],
              events |-> b.events \o <<[type |-> "message_delta", stop |-> b.state.stop],
                                       [type |-> "message_stop"]>>]

(***************************************************************************)
(* The generator's steps.                                                  *)
(***************************************************************************)
Now == [state |-> state, events |-> <<>>]
Translate(x) == state' = x.state /\ events' = x.events
Reads == events = <<>> /\ phase = "reading" /\ records < MaxRecords /\ records' = records + 1

(* iter_openai_anthropic_sse starts the message before the backend says    *)
(* anything; the others start it with their first record.                  *)
Begin ==
    /\ phase = "begin" /\ phase' = "reading"
    /\ Translate(IF upstream = "openai" THEN Start(Now) ELSE Now)
    /\ UNCHANGED <<upstream, records, wire>>

(* A record of the Claude CLI. The result record closes nothing by itself, *)
(* and its text counts only when none was streamed.                        *)
ClaudeRecord ==
    /\ upstream = "claude" /\ Reads
    /\ \/ Translate(Start(Now)) /\ UNCHANGED phase                     \* message_start
       \/ Translate(TextDelta(Now)) /\ UNCHANGED phase                 \* text_delta
       \/ \E stop \in StopReasons :                                 \* message_delta
            Translate([Now EXCEPT !.state.stop = stop]) /\ UNCHANGED phase
       \/ UNCHANGED <<phase, state, events>>                           \* message_stop, others
       \/ Translate(IF state.said THEN Now ELSE TextDelta(Now)) /\ UNCHANGED phase  \* result
       \/ phase' = "failed" /\ events' = <<[type |-> "error"]>> /\ UNCHANGED state  \* is_error
    /\ UNCHANGED <<upstream, wire>>

(* A chunk: text, then a fragment of a tool call, then a finish reason.    *)
OpenAIChunk ==
    /\ upstream = "openai" /\ Reads
    /\ \E content \in BOOLEAN, i \in ToolIndexes, call \in Calls, finish \in StopReasons \cup {"none"} :
         LET said == IF content THEN TextDelta(Now) ELSE Now
             named == call = "named" \/ said.state.calls[i] = "named"
             folded == IF call = "absent" THEN said
                       ELSE [said EXCEPT !.state.calls[i] = IF named THEN "named" ELSE "nameless"]
         IN  Translate([folded EXCEPT !.state.stop = IF finish = "none" THEN @ ELSE finish])
    /\ UNCHANGED <<upstream, phase, wire>>

(* The one envelope of a buffered backend, with text or without. *)
Envelope ==
    /\ upstream = "gemini" /\ Reads /\ records = 0
    /\ \E stop \in StopReasons, said \in BOOLEAN :
         LET s == Start([Now EXCEPT !.state.stop = stop])
         IN  Translate(IF said THEN TextDelta(s) ELSE s)
    /\ UNCHANGED <<upstream, phase, wire>>

BackendEnds ==
    /\ events = <<>> /\ phase = "reading" /\ phase' = "finishing"
    /\ upstream = "gemini" => records > 0
    /\ Translate(FinishStream(Now))
    /\ UNCHANGED <<upstream, records, wire>>

(* The backend call fails: what the client gets in-band is one error event.*)
BackendFails ==
    /\ events = <<>> /\ phase = "reading" /\ phase' = "failed"
    /\ upstream = "gemini" => records = 0
    /\ events' = <<[type |-> "error"]>>
    /\ UNCHANGED <<upstream, records, state, wire>>

Yield ==
    /\ events # <<>> /\ phase # "gone"
    /\ wire' = Append(wire, Head(events)) /\ events' = Tail(events)
    /\ phase' = IF phase = "finishing" /\ Tail(events) = <<>> THEN "ended" ELSE phase
    /\ UNCHANGED <<upstream, records, state>>

(* GeneratorExit: the client left, nothing more is yielded. *)
Disconnect ==
    /\ phase \notin {"ended", "gone"} /\ phase' = "gone" /\ events' = <<>>
    /\ UNCHANGED <<upstream, records, state, wire>>

StreamNext ==
    \/ Begin \/ ClaudeRecord \/ OpenAIChunk \/ Envelope \/ BackendEnds \/ BackendFails
    \/ Yield \/ Disconnect
StreamSpec == StreamInit /\ [][StreamNext]_streamVars

(***************************************************************************)
(* Properties.                                                             *)
(***************************************************************************)
Message == INSTANCE MessageStream WITH sent <- wire

(* The wire follows the Anthropic event protocol, whatever the backend     *)
(* sends and in whatever order: text after tool calls, fragments of        *)
(* several calls interleaved, an error at any point, a finish reason that  *)
(* does not match what was sent.                                           *)
ImplementsMessageStream == Message!MessageSpec

(* A message that was stopped carries a content block, with one exception  *)
(* the code has: every tool call of it was dropped for want of a name.     *)
ContentUnlessDropped ==
    Message!Has(wire, "message_stop") =>
        \/ Message!Has(wire, "content_block_start")
        \/ \E i \in ToolIndexes : state.calls[i] = "nameless"
=============================================================================
