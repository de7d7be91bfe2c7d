----------------------------- MODULE WebhookOrder -----------------------------
(***************************************************************************)
(* What the webhook endpoints promise: every policy has a list of webhooks *)
(* that are called in sequence. PUT replaces the list, PATCH moves one     *)
(* webhook to another position, DELETE takes one out of the list.          *)
(***************************************************************************)
EXTENDS Naturals, SequencesExt

CONSTANTS Policies, Keys

VARIABLES
    hooks,      \* the list of each policy
    last        \* the last call that succeeded, with its arguments

Lists == UNION {Injection(1 .. n, Keys) : n \in 0 .. Cardinality(Keys)}

Init ==
    /\ hooks = [p \in Policies |-> << >>]
    /\ last = [op |-> "none"]

Put(p, list) ==
    /\ hooks' = [hooks EXCEPT ![p] = list]
    /\ last' = [op |-> "put", policy |-> p, list |-> list]

\* The webhook at position i goes to position j, the others keep their sequence.
Moved(list, i, j) == InsertAt(RemoveAt(list, i), j, list[i])

\* Clients count from 0.
Patch(p, i, j) ==
    /\ hooks' = [hooks EXCEPT ![p] = Moved(@, i, j)]
    /\ last' = [op |-> "patch", key |-> hooks[p][i], to |-> j - 1]

Delete(p, i) ==
    /\ hooks' = [hooks EXCEPT ![p] = RemoveAt(@, i)]
    /\ last' = [op |-> "delete", key |-> hooks[p][i]]

Next ==
    \E p \in Policies :
        \/ \E list \in Lists : Put(p, list)
        \/ \E i \in DOMAIN hooks[p] :
              \/ Delete(p, i)
              \/ \E j \in DOMAIN hooks[p] : Patch(p, i, j)

Spec == Init /\ [][Next]_<<hooks, last>>
===============================================================================
