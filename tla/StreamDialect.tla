----------------------------- MODULE StreamDialect -----------------------------
(***************************************************************************)
(* The incremental SSE parser of the OpenAI client, one piece of a stream   *)
(* at a time, and what its metrics make of a finished request.  A piece is  *)
(* an event with its blank line, a keepalive comment, a line nothing        *)
(* admits ("malformed"), or text the server never ends ("cut").             *)
(***************************************************************************)
EXTENDS Integers, Sequences, FiniteSets, SequencesExt

CONSTANTS
    Required,      \* the scenario's required_output_tokens
    MaxResponse    \* max_response_bytes, in pieces

ASSUME BoundsAssumption == Required \in Nat \ {0} /\ MaxResponse \in Nat

None == "absent"
NoCount == -1    \* a token count that was not reported

\* "drift" is content under another model id; "length_role" a terminal chunk
\* that repeats the assistant role; "usage_short" a usage chunk with too few
\* output tokens, "usage_input" one with another number of input tokens than
\* the Benchmark's tokenizer finds in the prompt.
Outputs  == {"role", "content", "reasoning", "empty", "drift"}
Finishes == {"length", "stop", "filtered", "length_role"}
Usages   == {"usage", "usage_short", "usage_input"}
Pieces   == Outputs \cup Finishes \cup Usages \cup {"done", "comment", "malformed", "cut"}

FinishReason(k) == IF k = "length_role" THEN "length" ELSE k
UsageTokens(k)  == IF k = "usage_short" THEN Required - 1 ELSE Required
ModelId(k)      == IF k = "drift" THEN "other" ELSE "declared"

NewParser == [text |-> FALSE, terminal |-> None, ended |-> 0, usage |-> NoCount,
              prompt |-> FALSE, done |-> FALSE, role |-> FALSE, identity |-> None, visible |-> 0,
              reasoning |-> 0, stamps |-> <<>>, refused |-> FALSE]

-----------------------------------------------------------------------------
(* SSEParser *)

\* Mutation: a usage chunk is taken wherever it comes.
Refuses_AnyUsage(p, k, dialect) ==
    \/ p.done \/ p.text \/ k = "malformed"
    \/ k = "comment" /\ (dialect # "mlx_lm_0_31" \/ p.terminal # None)
    \/ k = "done" /\ (p.terminal = None \/ p.usage = NoCount)
    \/ k \in Outputs \cup Finishes \cup Usages /\ p.identity \notin {None, ModelId(k)}
    \/ k \in Outputs \cup Finishes /\ p.terminal # None
    \/ k = "length_role" /\ dialect = "strict_v1"
    \/ k = "role" /\ dialect = "strict_v1" /\ (p.role \/ p.visible > 0 \/ p.reasoning > 0)

\* _accept_line, _accept_event and _validate_chunk_identity: what they refuse.
Refuses(p, k, dialect) ==
    \/ p.done \/ p.text
    \/ k = "malformed"
    \/ k = "comment" /\ (dialect # "mlx_lm_0_31" \/ p.terminal # None)
    \/ k = "done" /\ (p.terminal = None \/ p.usage = NoCount)
    \/ k \in Outputs \cup Finishes \cup Usages /\ p.identity \notin {None, ModelId(k)}
    \/ k \in Usages /\ (p.terminal = None \/ p.usage # NoCount)
    \/ k \in Outputs \cup Finishes /\ p.terminal # None
    \/ k = "length_role" /\ dialect = "strict_v1"
    \/ /\ k = "role" /\ dialect = "strict_v1"
       /\ (p.role \/ p.visible > 0 \/ p.reasoning > 0)

\* What an accepted piece leaves; content and terminal events are time-stamped.
Takes(p, k, now) ==
    LET q == IF k \in Outputs \cup Finishes \cup Usages
             THEN [p EXCEPT !.identity = ModelId(k)] ELSE p
    IN  CASE k \in Finishes  -> [q EXCEPT !.terminal = FinishReason(k), !.ended = now]
          [] k \in Usages    -> [q EXCEPT !.usage = UsageTokens(k), !.prompt = k # "usage_input"]
          [] k = "done"      -> [q EXCEPT !.done = TRUE]
          [] k = "cut"       -> [q EXCEPT !.text = TRUE]
          [] k = "role"      -> [q EXCEPT !.role = TRUE]
          [] k = "reasoning" -> [q EXCEPT !.reasoning = @ + 1]
          [] k \in {"content", "drift"} -> [q EXCEPT !.visible = @ + 1,
                                                     !.stamps = Append(@, now)]
          [] OTHER -> q

accept_piece(p, k, dialect, now) ==
    IF p.refused THEN p
    ELSE IF Refuses(p, k, dialect) THEN [p EXCEPT !.refused = TRUE]
    ELSE Takes(p, k, now)

\* The bytes of a read are counted before any of them is looked at.
feed(p, chunk, total, dialect, now) ==
    IF total > MaxResponse THEN [p EXCEPT !.refused = TRUE]
    ELSE FoldLeft(LAMBDA q, k : accept_piece(q, k, dialect, now), p, chunk)

finish(p) == ~p.refused /\ ~p.text /\ p.terminal # None /\ p.usage # NoCount /\ p.done

-----------------------------------------------------------------------------
(* The metrics of one request *)

\* An observation: wire_complete, the server's and the Benchmark's own counts
\* of output tokens (each content piece is one token of the tokenizer), and
\* whether their counts of input tokens agree.
completed(p) ==
    [wire |-> TRUE, error |-> None, server |-> p.usage, tokens |-> p.visible,
     prompt |-> p.prompt, stamps |-> p.stamps, ended |-> p.ended,
     finish_ok |-> \/ p.terminal = "length"
                   \/ p.terminal = "stop" /\ p.usage = Required]

failed_observation(error) ==
    [wire |-> FALSE, error |-> error, server |-> NoCount, tokens |-> NoCount,
     prompt |-> FALSE, stamps |-> <<>>, ended |-> 0, finish_ok |-> FALSE]

\* Mutation: the input tokens are not compared.
counts_raise_OutputOnly(o, authority) ==
    \/ authority = "server_usage" /\ o.server = NoCount
    \/ authority = "both" /\ o.wire /\ o.server # o.tokens

\* _canonical_token_counts raises; in a failed request the server has no count.
counts_raise(o, authority) ==
    \/ authority = "server_usage" /\ o.server = NoCount
    \/ authority = "both" /\ o.wire /\ (o.server # o.tokens \/ ~o.prompt)

canonical_output(o, authority) == IF authority = "server_usage" THEN o.server ELSE o.tokens

error_classes(o, authority) ==
    (IF o.error # None THEN {o.error} ELSE {})
    \cup (IF canonical_output(o, authority) # Required \/ o.stamps = <<>>
          THEN {"output_contract"} ELSE {})
    \cup (IF o.finish_ok THEN {} ELSE {"output_obligation"})

completion_valid(o, authority) == o.wire /\ error_classes(o, authority) = {}

slo_satisfied(o, authority, slo) ==
    completion_valid(o, authority) /\ o.ended <= slo.e2e /\ Head(o.stamps) <= slo.ttft

-----------------------------------------------------------------------------
(* The dialect as a grammar, for comparison *)

\* What may come before the terminal chunk: output events of the declared model
\* and, in one of the dialects, comments.
Heads(dialect) ==
    (Outputs \ {"drift"}) \cup IF dialect = "mlx_lm_0_31" THEN {"comment"} ELSE {}
Terminals(dialect) == Finishes \ IF dialect = "strict_v1" THEN {"length_role"} ELSE {}

\* One response: heads, a terminal chunk, one usage chunk and [DONE]; in the
\* strict dialect nothing but empty deltas comes before the role.
Grammar(s, dialect) ==
    LET n == Len(s)
    IN  /\ n \in 3..MaxResponse
        /\ \A i \in 1..(n - 3) : s[i] \in Heads(dialect)
        /\ s[n - 2] \in Terminals(dialect)
        /\ s[n - 1] \in Usages
        /\ s[n] = "done"
        /\ dialect = "strict_v1" => \A i, j \in 1..n :
              i < j /\ s[j] = "role" => s[i] = "empty"

\* Some response of the dialect begins with s.
Viable(s, dialect) ==
    \E rest \in {<<>>, <<"done">>, <<"usage", "done">>, <<"length", "usage", "done">>} :
        Grammar(s \o rest, dialect)

=============================================================================
