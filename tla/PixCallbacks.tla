----------------------------- MODULE PixCallbacks -----------------------------
(***************************************************************************)
(* What the sandbox promises of the callbacks it is given: each is taken   *)
(* until the door closes and refused from then on, each one taken ends in  *)
(* exactly one way, "delivered" is only said of a callback the payee       *)
(* accepted, and the close returns when nothing is owed any more.          *)
(***************************************************************************)
CONSTANT Job

VARIABLES
    open,       \* callbacks are still taken
    fate,       \* fate[j]: "none", "owed", "refused", "delivered", "failed" or "unrecorded"
    accepted,   \* the callbacks the payee answered with success
    returned    \* the close is over

vars == <<open, fate, accepted, returned>>

Init ==
    /\ open = TRUE
    /\ fate = [j \in Job |-> "none"]
    /\ accepted = {}
    /\ returned = FALSE

Take(j) ==
    /\ fate[j] = "none"
    /\ fate' = [fate EXCEPT ![j] = IF open THEN "owed" ELSE "refused"]
    /\ UNCHANGED <<open, accepted, returned>>

Accept(j) ==
    /\ fate[j] = "owed"
    /\ accepted' = accepted \cup {j}
    /\ UNCHANGED <<open, fate, returned>>

Conclude(j, end) ==
    /\ fate[j] = "owed"
    /\ end = "delivered" => j \in accepted
    /\ fate' = [fate EXCEPT ![j] = end]
    /\ UNCHANGED <<open, accepted, returned>>

Shut ==
    /\ open' = FALSE
    /\ UNCHANGED <<fate, accepted, returned>>

Return ==
    /\ ~open
    /\ \A j \in Job : fate[j] # "owed"
    /\ returned' = TRUE
    /\ UNCHANGED <<open, fate, accepted>>

Next ==
    \/ \E j \in Job :
          \/ Take(j)
          \/ Accept(j)
          \/ \E end \in {"delivered", "failed", "unrecorded"} : Conclude(j, end)
    \/ Shut
    \/ Return

Spec == Init /\ [][Next]_vars
=============================================================================
