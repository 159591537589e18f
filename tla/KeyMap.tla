------------------------------- MODULE KeyMap -------------------------------
(***************************************************************************)
(* What cstr_hash_map promises: maps from keys to values, one value per    *)
(* key, that can be moved from one object to another.  Each operation is   *)
(* what it makes of f, the maps of all objects.                            *)
(***************************************************************************)
CONSTANTS Map, Key, Value, Default

VARIABLE map    \* object -> partial function from keys to values

Nothing == [k \in {} |-> Default]

Put(f, m, k, v) ==
    [f EXCEPT ![m] = [j \in DOMAIN @ \cup {k} |-> IF j = k THEN v ELSE @[j]]]

(* operator[]: a key that is not there gets the default value. *)
Touch(f, m, k) == IF k \in DOMAIN f[m] THEN f ELSE Put(f, m, k, Default)

Remove(f, m, k) == [f EXCEPT ![m] = [j \in DOMAIN @ \ {k} |-> @[j]]]

Empty(f, m) == [f EXCEPT ![m] = Nothing]

Move(f, a, b) == IF a = b THEN f ELSE [f EXCEPT ![a] = f[b], ![b] = Nothing]

After(f) ==
    {Put(f, m, k, v) : m \in Map, k \in Key, v \in Value}
    \cup {Touch(f, m, k) : m \in Map, k \in Key}
    \cup {Remove(f, m, k) : m \in Map, k \in Key}
    \cup {Empty(f, m) : m \in Map}
    \cup {Move(f, a, b) : a, b \in Map}

MapInit == map = [m \in Map |-> Nothing]

MapNext == map' \in After(map)

MapSpec == MapInit /\ [][MapNext]_map
=============================================================================
