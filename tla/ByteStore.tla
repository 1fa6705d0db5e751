----------------------------- MODULE ByteStore -----------------------------
(***************************************************************************)
(* What the memory manager promises its clients: byte strings are kept     *)
(* under distinct handles, unchanged until they are freed.  FutureLz uses  *)
(* the memory manager in this form (its variable mm).                      *)
(***************************************************************************)
CONSTANT Bytes      \* the byte strings

VARIABLE store      \* handle -> byte string

Init == store = [h \in {} |-> <<>>]

Save == \E h \in DOMAIN store' \ DOMAIN store :
            /\ store'[h] \in Bytes
            /\ store' = [g \in DOMAIN store \cup {h} |-> IF g = h THEN store'[h] ELSE store[g]]

Free == \E h \in DOMAIN store : store' = [g \in DOMAIN store \ {h} |-> store[g]]

Next == Save \/ Free

Spec == Init /\ [][Next]_store
=============================================================================
