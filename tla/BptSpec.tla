------------------------------ MODULE BptSpec ------------------------------
(***************************************************************************)
(* What the B+tree operations promise (spec.md 4.3 and 8, test-bpt.c's    *)
(* round-trip tests): an ordered map from 64-bit keys to entries.  After   *)
(* ed_bpt_find, ed_bpt_set puts an entry in under its key (inserting it,   *)
(* or overwriting the match when replace is set) and ed_bpt_del removes    *)
(* the entry the cursor matched.  Every mutation is committed as one      *)
(* transaction, so the map changes one key at a time.                     *)
(***************************************************************************)
CONSTANTS
  Key,    \* the keys the model uses
  Val,    \* entry contents, as model values
  NoVal   \* no entry under a key

ASSUME NoVal \notin Val

VARIABLE map

TypeOK == map \in [Key -> Val \cup {NoVal}]

Init == map = [k \in Key |-> NoVal]

\* ed_bpt_set: insert the entry, or replace the one with the same key.
Set(k, v) == map' = [map EXCEPT ![k] = v]

\* ed_bpt_del after a successful ed_bpt_find.
Del(k) ==
  /\ map[k] /= NoVal
  /\ map' = [map EXCEPT ![k] = NoVal]

Next == \E k \in Key : Del(k) \/ \E v \in Val : Set(k, v)

Spec == Init /\ [][Next]_map
=============================================================================
