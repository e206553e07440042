\* Four pids: init, a chain of three below it or any branching of them,
\* enough for a leaf two levels down, a reparenting to init, and ties of
\* weight along a chain.  Weights: a rejected one, and two valid ones.
CONSTANTS
  Pids = {1, 2, 3, 4}
  Weights <- MC_Weights
SPECIFICATION Spec
INVARIANT TypeOK
INVARIANT LeafSumIsReference
INVARIANT HeaviestIsReference
