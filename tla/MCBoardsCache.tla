---------------------------- MODULE MCBoardsCache ----------------------------
(* Small instances of BoardsCache for TLC.                                  *)
EXTENDS BoardsCache, TLC

\* Agents and tasks are only compared.
Symmetry == Permutations(Agent) \cup Permutations(Task)

\* No action reads the result of the last call, and the properties that do are
\* properties of the step that ended it.
WithoutResult == <<clock, cache, loads, task, fence>>
==============================================================================
