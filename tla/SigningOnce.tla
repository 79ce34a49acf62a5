------------------------------ MODULE SigningOnce ------------------------------
(***************************************************************************)
(* What the isolated signer promises of an approval whose scope is "once": *)
(* it is burned for good before it is signed against, and a burned one is  *)
(* signed against at most once.                                            *)
(***************************************************************************)
EXTENDS Naturals

CONSTANT Approvals

VARIABLES
    burned,  \* approvals that no crash can bring back
    signed   \* signatures made against each approval

Init ==
    /\ burned = {}
    /\ signed = [a \in Approvals |-> 0]

Burn ==
    /\ burned \subseteq burned'
    /\ burned' \subseteq Approvals
    /\ UNCHANGED signed

Sign(a) ==
    /\ a \in burned /\ signed[a] = 0
    /\ signed' = [signed EXCEPT ![a] = 1]
    /\ UNCHANGED burned

Next == Burn \/ \E a \in Approvals : Sign(a)

Spec == Init /\ [][Next]_<<burned, signed>>
================================================================================
