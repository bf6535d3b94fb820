------------------------------- MODULE Tables -------------------------------
(***************************************************************************)
(* The bridge's maps (src/lib/src/server/client_connector.rs).  A HashMap  *)
(* is a function from every possible key to its value or to None, the      *)
(* Option::None of a lookup that misses.  The operators below are the ones *)
(* its critical sections are made of: the capped insert of the three       *)
(* handoff tables, and the oldest-first eviction of the replay cache.      *)
(***************************************************************************)
EXTENDS Naturals, FiniteSets

CONSTANT None

\* The keys a map holds, and how many they are (HashMap::keys, len).
Keys(map) == {k \in DOMAIN map : map[k] # None}
Size(map) == Cardinality(Keys(map))

Without(map, k) == [map EXCEPT ![k] = None]

\* retain(|_, pid| is_process_alive(pid)).
Retain(map, alive) ==
  [k \in DOMAIN map |-> IF map[k] \in alive THEN map[k] ELSE None]

\* Faulty: nothing is evicted.
UnboundedInserts(map, k, pid, alive, cap) ==
  {[(IF Size(map) >= cap THEN Retain(map, alive) ELSE map) EXCEPT ![k] = pid]}

\* Faulty: the dead are not purged before a live entry is evicted.
UnpurgedInserts(map, k, pid, alive, cap) ==
  LET full == [map EXCEPT ![k] = pid]
  IN  IF Size(full) > cap
        THEN {Without(full, victim) : victim \in Keys(full)}
        ELSE {full}

\* What a table may be after `pid` is inserted at `k`: at the cap the dead are
\* purged first, then, still above it, one key is evicted, whichever the map
\* iterates first (the one just inserted included).
BoundedInserts(map, k, pid, alive, cap) ==
  LET purged == IF Size(map) >= cap THEN Retain(map, alive) ELSE map
      full   == [purged EXCEPT ![k] = pid]
  IN  IF Size(full) > cap
        THEN {Without(full, victim) : victim \in Keys(full)}
        ELSE {full}

(***************************************************************************)
(* The replay cache keeps a sequence number per entry; only the order of   *)
(* the numbers matters, so it is kept as a relation: <<s, t>> \in older    *)
(* when s was published before t.                                          *)
(***************************************************************************)
Touched(older, map, s) ==
  {e \in older : s \notin {e[1], e[2]}} \cup {<<t, s>> : t \in Keys(map) \ {s}}

Forgotten(older, s) == {e \in older : s \notin {e[1], e[2]}}

\* min_by_key(|(_, (_, seq))| seq): the least recently published entries.
Oldest(map, older) ==
  {s \in Keys(map) : \A t \in Keys(map) : <<t, s>> \notin older}
=============================================================================
