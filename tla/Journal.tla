------------------------------- MODULE Journal -------------------------------
(***************************************************************************)
(* What every operation store of this system promises to its readers: an   *)
(* append-only sequence of distinct operations.  Nothing is reordered,     *)
(* replaced or removed, and no operation identity appears twice.           *)
(***************************************************************************)
EXTENDS Sequences, Integers

CONSTANT Entry      \* operation values; Entry records have an id field

VARIABLE entries

Init == entries = <<>>

(* One operation is added at the end.                                      *)
Extend(e) ==
    /\ \A i \in DOMAIN entries : entries[i].id # e.id
    /\ entries' = Append(entries, e)

Next == \E e \in Entry : Extend(e)

Spec == Init /\ [][Next]_entries
=============================================================================
