----------------------------- MODULE DurableMap -----------------------------
(***************************************************************************)
(* What the registry promises: a map from keys to values in which every    *)
(* change is atomic and concerns one key, or clears the whole map.  Only a *)
(* clear that is cut short spoils it, until the next one ends.             *)
(***************************************************************************)
CONSTANTS Keys, Values, Content, NoContent, Lost

VARIABLE map              \* key -> the content of its value, NoContent or Lost

Init == map = [k \in Keys |-> NoContent]

Put(k, v) == /\ map[k] = NoContent
             /\ map' = [map EXCEPT ![k] = Content[v]]

Remove(k) == /\ map[k] \notin {NoContent, Lost}
             /\ map' = [map EXCEPT ![k] = NoContent]

BeginClear == map' = [k \in Keys |-> Lost]

Clear == /\ \A k \in Keys : map[k] = Lost
         /\ map' = [k \in Keys |-> NoContent]

Next == \/ \E k \in Keys : Remove(k) \/ \E v \in Values : Put(k, v)
        \/ BeginClear
        \/ Clear

Spec == Init /\ [][Next]_map
=============================================================================
