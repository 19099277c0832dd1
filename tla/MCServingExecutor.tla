--------------------------- MODULE MCServingExecutor ---------------------------
(***************************************************************************)
(* One request against a server that may send nearly anything, in both      *)
(* dialects and under each token authority; and several at once, in each    *)
(* arrival mode, against a server that answers well or badly.               *)
(***************************************************************************)
EXTENDS ServingExecutor

Strict == {"role", "content", "reasoning", "drift", "length", "usage", "usage_input", "done", "comment",
           "malformed"}
Mlx    == {"role", "content", "comment", "length", "length_role", "usage", "done", "cut"}
Counts == {"content", "empty", "length", "stop", "filtered", "usage", "usage_short", "usage_input",
           "done"}
Freely(pieces) == [i \in 1..(MaxResponse + 1) |-> pieces]
Plain  == <<{"content"}, {"length", "stop"}, {"usage", "usage_short"}, {"done"}>>

Cell(mode, count, concurrency, warmups, authority, dialect, script, fails) ==
    [mode |-> mode, count |-> count, concurrency |-> concurrency, warmups |-> warmups,
     authority |-> authority, dialect |-> dialect, script |-> script,
     prompt_fails |-> fails, slo |-> [e2e |-> 4, ttft |-> 2]]
One(authority, dialect, pieces) ==
    Cell("sequential", 1, 1, 0, authority, dialect, Freely(pieces), FALSE)

MCPlans ==
    {One("both", "strict_v1", Strict), One("both", "mlx_lm_0_31", Mlx),
     One("server_usage", "strict_v1", Counts), One("benchmark_tokenizer", "strict_v1", Counts),
     Cell("closed_loop", 3, 2, 0, "both", "strict_v1", <<{"content"}>>, TRUE),
     Cell("closed_loop", 2, 3, 0, "benchmark_tokenizer", "strict_v1", Plain, FALSE),
     Cell("open_loop", 2, 1, 0, "server_usage", "strict_v1", Plain, FALSE),
     Cell("sequential", 1, 1, 1, "both", "strict_v1", Plain, TRUE),
     Cell("sequential", 2, 1, 1, "server_usage", "strict_v1", <<{"content"}>>, TRUE)}
=============================================================================
