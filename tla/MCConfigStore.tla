---------------------------- MODULE MCConfigStore ----------------------------
(* ConfigStore with a window, a launcher and two threads of a text service.   *)
EXTENDS ConfigStore, FiniteSets, TLC

Symmetry == Permutations(Callers)

\* Bound: no more than two of them are at work at a time.
Pairs ==
  Cardinality({p \in Writers : writer[p].at # "idle"}) +
  Cardinality({c \in Callers : caller[c].at # "idle"}) <= 2
=============================================================================
