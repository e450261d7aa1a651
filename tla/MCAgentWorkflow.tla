-------------------------- MODULE MCAgentWorkflow --------------------------
(* Instances of AgentWorkflow: a formal backtest and a factor diagnosis,    *)
(* two published Matrix runs and one that is not.                          *)
EXTENDS AgentWorkflow, TLC

CONSTANTS r1, r2, unpublished

MCPublished == {r1, r2}
MCRuns == MCPublished \cup {unpublished}

Formal ==
  [objective |-> "formal_backtest", ambiguous |-> FALSE, drag |-> "excessive",
   pathDependent |-> TRUE, network |-> FALSE, references |-> {}]

FormalOnly == {Formal}
Symmetric == Permutations(Callers)

MCPapers ==
  {[data_prepare |-> "sound", quick_research |-> "sound",
    fast_matrix |-> runs, manual_selection |-> r1, event_formal |-> run,
    evidence_summary |-> {<<"quick_research", "sound">>}] :
     runs \in {{r1}}, run \in {r1, r2}}

MCRewritings ==
  {<<"fast_matrix", {r2, unpublished}>>, <<"manual_selection", r2>>}

All == {"SEMANTIC", "COST_DRAG"}

MCGrantChoices ==
  {[action |-> a, acknowledged |-> All, hours |-> 1] : a \in {"data_write"}}
  \cup {[action |-> a, acknowledged |-> {}, hours |-> 2] :
     a \in {"research", "formal_event"}}

=============================================================================
