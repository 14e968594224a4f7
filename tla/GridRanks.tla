----------------------------- MODULE GridRanks -----------------------------
(***************************************************************************)
(* What the two ways of making patterns for a structured grid share: the   *)
(* ranks with their domains, and MPI between them.                         *)
(***************************************************************************)
EXTENDS StructuredGrids

CONSTANT MaxRanks   \* bound: ranks of a grid

VARIABLES
  grid,    \* the domains of each rank (d_range) and the halo generator
  eager,   \* MPI buffers messages and broadcasts, or it waits for receivers
  pc,
  chan     \* messages in the network

Ranks   == RanksOf(grid)
domains == grid.domains

(* The elements of a set of numbers, as an ordered container has them.     *)
Ascending(S) ==
  [n \in 1 .. Cardinality(S) |-> CHOOSE x \in S : Cardinality({y \in S : y < x}) = n - 1]

(* Broadcasts, blocking sends and receives in turns, or sends and posted   *)
(* receives stage by stage, never wait for each other: make_pattern and    *)
(* make_staged_pattern return on every rank, whatever MPI buffers.         *)
ConstructionReturns == <>(\A r \in Ranks : pc[r] \in {"made", "staged"})
=============================================================================
