---------------------------- MODULE PageRegister ---------------------------
(* What store.rs promises of a page's file, whoever looks and whenever: it *)
(* is some save's page, whole, and changes from one to another at once.    *)
(***************************************************************************)
CONSTANTS Pages, Values, None

VARIABLES current,  \* what each page says, None where there is no page yet
          saving    \* the saves of each page that are under way

Init == /\ current = [p \in Pages |-> None]
        /\ saving = [p \in Pages |-> {}]

Ask(p, v) == /\ saving' = [saving EXCEPT ![p] = @ \cup {v}]
             /\ UNCHANGED current

Replace(p, v) == /\ v \in saving[p]
                 /\ current' = [current EXCEPT ![p] = v]
                 /\ saving' = [saving EXCEPT ![p] = @ \ {v}]

GiveUp(p, v) == /\ v \in saving[p]
                /\ saving' = [saving EXCEPT ![p] = @ \ {v}]
                /\ UNCHANGED current

Crash == /\ saving' = [p \in Pages |-> {}]
         /\ UNCHANGED current

Next == \/ \E p \in Pages, v \in Values : Ask(p, v) \/ Replace(p, v) \/ GiveUp(p, v)
        \/ Crash

Spec == Init /\ [][Next]_<<current, saving>>
=============================================================================
