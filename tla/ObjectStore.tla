---------------------------- MODULE ObjectStore ----------------------------
(***************************************************************************)
(* What the content-addressed cache of ctsteg.runtime promises its users:  *)
(* an object appears whole, stays as it is until storage damages it, and   *)
(* only a damaged object is ever taken away to be produced again.          *)
(***************************************************************************)
CONSTANT Objects

VARIABLE status   \* per object: "absent", "valid" or "damaged"

Set(o, from, to) ==
    /\ status[o] = from
    /\ status' = [status EXCEPT ![o] = to]

Publish(o) == Set(o, "absent", "valid")
Decay(o)   == Set(o, "valid", "damaged")
Evict(o)   == Set(o, "damaged", "absent")

Init == status = [o \in Objects |-> "absent"]

Next == \E o \in Objects : Publish(o) \/ Decay(o) \/ Evict(o)

Spec == Init /\ [][Next]_status

=============================================================================
