----------------------------- MODULE MCExecutor -----------------------------
(***************************************************************************)
(* Instances of Executor for TLC: names and budgets the configurations     *)
(* choose from.                                                            *)
(***************************************************************************)
EXTENDS Executor, TLC

CONSTANTS MaxRequests, MaxDiscoveries, MaxFaults, MaxPhantoms, MaxStale

MCBudget == [request   |-> MaxRequests,
             discovery |-> MaxDiscoveries,
             fault     |-> MaxFaults,
             phantom   |-> MaxPhantoms,
             stale     |-> MaxStale]

\* Discovery may return any selection of the projects ...
AnySelection == SUBSET Projects

\* ... or always finds all of them.
Everything == {Projects}

Symmetry == Permutations(Projects)
=============================================================================
