-------------------------- MODULE MCBenchmarkRunner --------------------------
(***************************************************************************)
(* A small instance of BenchmarkRunner: two contracts, hours of two        *)
(* minutes, days of two hours.                                             *)
(***************************************************************************)
EXTENDS BenchmarkRunner

CONSTANTS btc, eth

MCNames == <<btc, eth>>

Tilted(x, y) == [s \in Symbols |-> IF s = btc THEN x ELSE y]

MCUsual == Tilted(1, -1)
MCTilts == {MCUsual, Tilted(-1, 1), Tilted(1, 0)}

\* The checkpoint alone, without a set that is walked in an order of its own.
MCClaude == {{"CLAUDE"}}

MCRosters == {{"CHATGPT"}, {"CLAUDE"}, {"KIMI", "GROK"}}
=============================================================================
