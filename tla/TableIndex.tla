----------------------------- MODULE TableIndex -----------------------------
(***************************************************************************)
(* The interface -> table index map of the event dispatcher                *)
(* (EventDispatcher.interface_indices, src/engine/dispatcher.rs).  The map *)
(* is a function whose domain is the set of interfaces that have an index. *)
(* An index is a u8, IndexMod = 2^8 in the program.                        *)
(* A HashMap is iterated in an arbitrary order, so numbering interfaces    *)
(* yields a set of possible maps.                                          *)
(***************************************************************************)
EXTENDS Naturals, FiniteSets, Functions

CONSTANT IndexMod
ASSUME IndexModAssumption == IndexMod \in Nat \ {0}

\* u8::MAX: new() and update_config() number interfaces below it only.
IndexMax == IndexMod - 1

NoIndices == [i \in {} |-> 0]

\* The ways to number S consecutively from n.
Numberings(S, n) == Injection(S, n .. n + Cardinality(S) - 1)

-----------------------------------------------------------------------------
(* Mutants of the definitions below. *)

\* new() numbers from one, without the limit.
new_indices_from_one(S) == Numberings(S, 1)

\* The first free index is one too high.
assign_index_off_by_one(indices, i) ==
  IF i \in DOMAIN indices THEN indices
  ELSE [j \in DOMAIN indices \cup {i} |->
          IF j = i THEN (Cardinality(DOMAIN indices) + 1) % IndexMod
                   ELSE indices[j]]

-----------------------------------------------------------------------------
\* update_config(): an interface that has an index keeps it, the others of the
\* new configuration are numbered from the size of the old map while the next
\* index is below u8::MAX, and interfaces outside the configuration lose theirs.
rebuild_indices(indices, S) ==
  LET kept == S \cap DOMAIN indices
      next == Cardinality(DOMAIN indices) % IndexMod
  IN { [i \in kept \cup {j \in S \ kept : g[j] < IndexMax} |->
          IF i \in kept THEN indices[i] ELSE g[i]] :
         g \in Numberings(S \ kept, next) }

\* EventDispatcher::new(): the configured interfaces, enumerated from zero.
new_indices(S) == rebuild_indices(NoIndices, S)

\* get_table_id_for_interface(): an interface without an index gets the size of
\* the map, truncated to u8.
assign_index(indices, i) ==
  IF i \in DOMAIN indices THEN indices
  ELSE [j \in DOMAIN indices \cup {i} |->
          IF j = i THEN Cardinality(DOMAIN indices) % IndexMod
                   ELSE indices[j]]
=============================================================================
