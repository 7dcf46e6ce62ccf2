----------------------------- MODULE MessageStream -----------------------------
(***************************************************************************)
(* What a client of POST /v1/messages may see on the wire: the Anthropic   *)
(* event sequence, one content block open at a time, blocks numbered in    *)
(* the order they open (src/src/translation/anthropic_sse.py:25-29), and   *)
(* an error only while the message is not stopped (lines 279-282). Says    *)
(* nothing of where the events come from.                                  *)
(***************************************************************************)
EXTENDS Integers, FiniteSets, Sequences

VARIABLE sent   \* the events the client has received

Of(s, type) == {i \in 1..Len(s) : s[i].type = type}
Has(s, type) == Of(s, type) # {}
IsOpen(s, index) ==
    /\ \E i \in Of(s, "content_block_start") : s[i].index = index
    /\ \A i \in Of(s, "content_block_stop") : s[i].index # index
NoneOpen(s) == \A i \in Of(s, "content_block_start") : ~IsOpen(s, s[i].index)
UsesTool(s) == \E i \in Of(s, "content_block_start") : s[i].block = "tool_use"

InMessage(s) == Has(s, "message_start") /\ ~Has(s, "message_delta") /\ ~Has(s, "error")

CanFollow(s, e) ==
    \/ e.type = "message_start" /\ s = <<>>
    \/ /\ e.type = "content_block_start" /\ InMessage(s) /\ NoneOpen(s)
       /\ e.index = Cardinality(Of(s, "content_block_start"))
    \/ e.type \in {"content_block_delta", "content_block_stop"} /\ InMessage(s) /\ IsOpen(s, e.index)
    \/ /\ e.type = "message_delta" /\ InMessage(s) /\ NoneOpen(s)
       /\ (e.stop = "tool_use") <=> UsesTool(s)
    \/ e.type = "message_stop" /\ Has(s, "message_delta") /\ ~Has(s, "error") /\ ~Has(s, "message_stop")
    \/ e.type = "error" /\ ~Has(s, "message_stop") /\ ~Has(s, "error")

MessageInit == sent = <<>>
MessageNext ==
    /\ Len(sent') = Len(sent) + 1
    /\ LET e == sent'[Len(sent')] IN CanFollow(sent, e) /\ sent' = Append(sent, e)
MessageSpec == MessageInit /\ [][MessageNext]_sent
=============================================================================
