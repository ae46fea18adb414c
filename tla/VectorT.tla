------------------------------ MODULE VectorT ------------------------------
(***************************************************************************)
(* The growable vector template of iptv_shared, as the file transfer uses  *)
(* it: packet sequence numbers, none of them zero, appended at the end,    *)
(* searched, removed by index with the tail moved down, and read through   *)
(* the one cursor "pos" that every reader of the vector shares.            *)
(* A vector is a sequence; zero stands for objNull.                        *)
(***************************************************************************)
EXTENDS Naturals, Sequences

(* The items of the vector. *)
Items(v) == {v[i] : i \in 1..Len(v)}

(* No item occurs twice: what search() takes for granted. *)
Distinct(v) == \A i, j \in 1..Len(v) : v[i] = v[j] => i = j

(* insert(): always at index nelem+1; allocation is assumed to succeed. *)
Insert(v, x) == Append(v, x)

(* The callers' loops "for (i=a; i<=b; i++) insert(i)". *)
InsertRun(v, a, b) ==
  IF a > b THEN v
  ELSE [j \in 1..(Len(v) + (b + 1 - a)) |->
          IF j <= Len(v) THEN v[j] ELSE a + (j - Len(v)) - 1]

(* search(): the first index that holds x, 0 when none does. *)
Search(v, x) ==
  IF \E i \in 1..Len(v) : v[i] = x
    THEN CHOOSE i \in 1..Len(v) : v[i] = x /\ \A j \in 1..(i-1) : v[j] # x
    ELSE 0

(* remove(ind): the items behind ind move down by one. *)
Remove(v, ind) ==
  [j \in 1..(Len(v) - 1) |-> IF j < ind THEN v[j] ELSE v[j + 1]]

(* next(): the item under the cursor, 0 past the end. *)
ItemAt(v, pos) == IF pos <= Len(v) THEN v[pos] ELSE 0

(* Where the cursor stands after next(). *)
Advance(v, pos) == IF pos <= Len(v) THEN pos + 1 ELSE pos
=============================================================================
