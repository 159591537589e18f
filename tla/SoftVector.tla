----------------------------- MODULE SoftVector -----------------------------
(***************************************************************************)
(* What sds::malloc_vector promises: vectors are sequences, each with room *)
(* for so many elements.  There is no error path: a step that finds no     *)
(* memory leaves the vector as it was, which is a stuttering step here.    *)
(***************************************************************************)
EXTENDS Integers, Sequences, SequencesExt

CONSTANTS Vec, Elem           \* the vectors and the values put in them

VARIABLES seqs, room

soft_vars == <<seqs, room>>

SoftInit == seqs = [v \in Vec |-> << >>] /\ room = [v \in Vec |-> 0]

(* A vector begins, or ends, empty, with whatever room there was for it. *)
Renewed(v) == /\ seqs' = [seqs EXCEPT ![v] = << >>]
              /\ room' = [room EXCEPT ![v] = room'[v]]

(* The vector holds s, in room that has not shrunk. *)
Holds(v, s) == /\ seqs' = [seqs EXCEPT ![v] = s]
               /\ room' = [room EXCEPT ![v] = room'[v]]
               /\ room'[v] >= room[v] /\ room'[v] >= Len(s)

(* The elements past the old size are whatever the memory holds. *)
Resized(v) ==
    /\ Holds(v, seqs'[v])
    /\ \A i \in DOMAIN seqs[v] \cap DOMAIN seqs'[v] : seqs'[v][i] = seqs[v][i]

(* The elements and the room change hands. *)
Moved(v, w) ==
    /\ v # w
    /\ seqs' = [seqs EXCEPT ![v] = seqs[w], ![w] = << >>]
    /\ room' = [room EXCEPT ![v] = room[w], ![w] = 0]

SoftNext ==
    \E v \in Vec :
      \/ Renewed(v)
      \/ Resized(v)
      \/ \E x \in Elem, i \in 1..(Len(seqs[v]) + 1) : Holds(v, InsertAt(seqs[v], i, x))
      \/ \E i \in DOMAIN seqs[v] : Holds(v, RemoveAt(seqs[v], i))
      \/ \E w \in Vec : Moved(v, w)

SoftSpec == SoftInit /\ [][SoftNext]_soft_vars
=============================================================================
