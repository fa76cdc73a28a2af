------------------------------- MODULE MCPixApi -------------------------------
(* Requests for TLC: which arrive together, and on which database.             *)
EXTENDS PixApi

CONSTANTS t1, t2, t3, r1, r2, r3

\* Databases an earlier run may have left.
NoCharge == <<>>
OneCharge == <<t1>>

\* The seeded source: the same txids after every boot.
ThreeTxIds == <<t1, t2, t3>>

-----------------------------------------------------------------------------
(* Two crowds in one run: two requests about the life of charges while the     *)
(* clock moves, or three about a payment, its refunds and its callbacks.       *)
VARIABLE crowd

Crowds == {"charges", "callbacks"}

Invited(r) ==
    IF crowd = "charges"
    THEN r \in {r1, r2} /\ req'[r].kind \in {"create", "mint", "get", "pay"}
    ELSE /\ req'[r].kind \in {"pay", "refund", "hook"}
         /\ req'[r].kind = "pay" => req'[r].txid = t1
         /\ req'[r].kind = "refund" => req'[r].cents = 1

InCrowd ==
    /\ \A r \in Req : req[r] # req'[r] /\ req[r].pc = "idle" => Invited(r)
    /\ crowd = "callbacks" => clock' = 0

MCNext == ApiNext /\ InCrowd /\ UNCHANGED crowd

mcVars == <<allVars, crowd>>

MCInit == ApiInit /\ crowd \in Crowds

MCSpec ==
    /\ MCInit
    /\ [][MCNext]_mcVars
    /\ \A r \in Req : WF_mcVars(Handle(r) /\ UNCHANGED crowd)
=============================================================================
