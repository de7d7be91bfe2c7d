---------------------------- MODULE PolicyWebhooks ----------------------------
(***************************************************************************)
(* The webhooks of policies as rows with an "order" column, and the        *)
(* endpoints that keep the order. One table is modelled: pre-execution and *)
(* post-execution webhooks are two tables with the same code.              *)
(*                                                                         *)
(* A step ends at a commit. A created webhook is only staged until then,   *)
(* while an updated one is committed at once, with all that was staged     *)
(* before it: save() calls persist_obj of the base class, which commits.   *)
(***************************************************************************)
EXTENDS Naturals, SequencesExt

CONSTANTS
    Policies,
    Keys,               \* keys of webhooks, unique over all policies
    Handlers,           \* threads of the API server
    RefusedAt           \* the places of a PUT's list at which an item may be
                        \* refused: an unknown connection, or a name that
                        \* another webhook has

ASSUME RefusedAssumption == RefusedAt \subseteq Nat

VARIABLES
    owner, order,       \* the columns policy_id and order of each webhook
    handler,            \* what each thread is doing
    last                \* history: the last call that succeeded

vars == <<owner, order, handler, last>>

None == "none"

ASSUME TablesAssumption == IsFiniteSet(Keys) /\ None \notin Policies

Lists == UNION {Injection(1 .. n, Keys) : n \in 0 .. Cardinality(Keys)}

Exists(k) == owner[k] # None
HooksOf(p) == {k \in Keys : owner[k] = p}

\* The results of a query "order by order", ties in any sequence.
Listings(p) ==
    {s \in SetToSeqs(HooksOf(p)) :
        \A i, j \in DOMAIN s : i < j => order[s[i]] <= order[s[j]]}

\* A thread works for policy p towards the list "body" of webhooks, with "left"
\* to be written. "staged" are created and not committed; "key" is the
\* webhook of a PATCH or DELETE and "to" the index a PATCH asks for. "was" is the
\* list at the start of the call; it and "to" are for the properties only.
Call(pc, p, body, left, k, to, was) ==
    [pc |-> pc, policy |-> p, body |-> body, left |-> left, staged |-> {},
     key |-> k, to |-> to, was |-> was]

Idle == Call("idle", None, << >>, << >>, None, 0, << >>)

Init ==
    /\ owner = [k \in Keys |-> None]
    /\ order = [k \in Keys |-> 0]
    /\ handler = [h \in Handlers |-> Idle]
    /\ last = [op |-> "none"]

\* The order a webhook gets: its index in the list.
IndexIn(list, k) == (CHOOSE i \in DOMAIN list : list[i] = k) - 1

Returns(h) == handler' = [handler EXCEPT ![h] = Idle]

-----------------------------------------------------------------------------
\* PUT /policy/{policy_key}/webhook/pre_execution: put_webhooks

\* Keys and names are distinct, or the call is refused before any effect.
PutBegins(h, p, list) ==
    /\ handler[h].pc = "idle"
    /\ \E was \in Listings(p) :
          handler' = [handler EXCEPT
              ![h] = Call("put", p, list, list, None, 0, was)]
    /\ UNCHANGED <<owner, order, last>>

\* create_or_update of a webhook that is not in the table.
PutCreates(h) ==
    LET c == handler[h] IN
    /\ c.pc = "put"
    /\ c.left # << >>
    /\ ~Exists(Head(c.left))
    /\ handler' = [handler EXCEPT ![h].left = Tail(c.left),
                                  ![h].staged = @ \union {Head(c.left)}]
    /\ UNCHANGED <<owner, order, last>>

\* A commit of thread h: what it staged and the webhooks of "updated" are
\* written, those of "removed" deleted. "done" is the last successful call then.
\* If a staged key exists by now, the commit fails, the transaction is rolled
\* back and the call ends.
Commits(h, updated, removed, goesOn, done) ==
    LET c == handler[h]
        written == c.staged \union updated
    IN
    IF \E k \in c.staged : Exists(k)
    THEN Returns(h) /\ UNCHANGED <<owner, order, last>>
    ELSE /\ owner' = [k \in Keys |-> IF k \in written THEN c.policy
                                     ELSE IF k \in removed THEN None
                                     ELSE owner[k]]
         /\ order' = [k \in Keys |-> IF k \in written THEN IndexIn(c.body, k)
                                     ELSE IF k \in removed THEN 0
                                     ELSE order[k]]
         /\ handler' = [handler EXCEPT ![h] = goesOn]
         /\ last' = done

\* create_or_update of a webhook that is in the table, of whatever policy.
PutUpdates(h) ==
    LET c == handler[h] IN
    /\ c.pc = "put"
    /\ c.left # << >>
    /\ Exists(Head(c.left))
    /\ Commits(h, {Head(c.left)}, {},
               [c EXCEPT !.left = Tail(c.left), !.staged = {}], last)

\* An item is refused with an HTTPException: what is staged is lost.
PutRefuses(h) ==
    LET c == handler[h] IN
    /\ c.pc = "put"
    /\ c.left # << >>
    /\ Len(c.body) - Len(c.left) + 1 \in RefusedAt
    /\ Returns(h)
    /\ UNCHANGED <<owner, order, last>>

\* The policy's webhooks that are not in the list are removed.
PutEnds(h) ==
    LET c == handler[h] IN
    /\ c.pc = "put"
    /\ c.left = << >>
    /\ Commits(h, {}, HooksOf(c.policy) \ Range(c.body), Idle,
               [op |-> "put", policy |-> c.policy, list |-> c.body])

-----------------------------------------------------------------------------
\* reorder_related_webhooks

\* Mutant of PopInsert: the two webhooks change places.
Exchange(list, i, j) ==
    [list EXCEPT ![i + 1] = list[j + 1], ![j + 1] = list[i + 1]]

\* pop(i) and insert(j) on a list, counted from 0 as in the code.
PopInsert(list, i, j) == InsertAt(RemoveAt(list, i + 1), j + 1, list[i + 1])

\* The webhook k of list s is to get index j: whatever webhook is at position
\* order[k] of the list is taken out and put in at j. A list too short for
\* order[k] is an IndexError before any effect.
ReorderBegins(h, pc, p, k, j, s) ==
    /\ order[k] < Len(s)
    /\ handler' = [handler EXCEPT
           ![h] = Call(pc, p, PopInsert(s, order[k], j), s, k, j, s)]
    /\ UNCHANGED <<owner, order, last>>

\* Each webhook of the list is updated, and committed, in turn. One that was
\* deleted meanwhile ends the call with an error.
ReorderWrites(h) ==
    LET c == handler[h]
        k == Head(c.left)
    IN
    /\ c.pc \in {"patch", "delete"}
    /\ c.left # << >>
    /\ IF Exists(k)
       THEN /\ order' = [order EXCEPT ![k] = IndexIn(c.body, k)]
            /\ IF c.pc = "patch" /\ Len(c.left) = 1
               THEN /\ Returns(h)
                    /\ last' = [op |-> "patch", key |-> c.key, to |-> c.to]
               ELSE /\ handler' = [handler EXCEPT ![h].left = Tail(c.left)]
                    /\ UNCHANGED last
       ELSE Returns(h) /\ UNCHANGED <<order, last>>
    /\ UNCHANGED owner

-----------------------------------------------------------------------------
\* PATCH /policy/{policy_key}/webhook/pre_execution/{key}: _patch_webhook

\* An index outside of the list is refused; the index the webhook has already
\* needs no reordering. Neither changes an order.
PatchBegins(h, k, j) ==
    LET p == owner[k] IN
    /\ handler[h].pc = "idle"
    /\ Exists(k)
    /\ j # order[k]
    /\ j < Cardinality(HooksOf(p))
    /\ \E s \in Listings(p) : ReorderBegins(h, "patch", p, k, j, s)

\* Mutant of DeleteBegins: deletes without moving the webhook to the end.
DeleteBeginsInPlace(h, k) ==
    /\ handler[h].pc = "idle"
    /\ Exists(k)
    /\ \E s \in Listings(owner[k]) :
          handler' = [handler EXCEPT
              ![h] = Call("delete", owner[k], s, << >>, k, 0, s)]
    /\ UNCHANGED <<owner, order, last>>

\* DELETE .../{key}: delete_webhook moves the webhook to the end of the list,
\* unless it is there, and deletes it then.
DeleteBegins(h, k) ==
    LET p == owner[k]
        final == Cardinality(HooksOf(p)) - 1
    IN
    /\ handler[h].pc = "idle"
    /\ Exists(k)
    /\ \E s \in Listings(p) :
          IF final # order[k]
          THEN ReorderBegins(h, "delete", p, k, final, s)
          ELSE /\ handler' = [handler EXCEPT
                      ![h] = Call("delete", p, s, << >>, k, 0, s)]
               /\ UNCHANGED <<owner, order, last>>

\* Deleting a row that another call has deleted is an error without effect.
DeleteEnds(h) ==
    LET c == handler[h] IN
    /\ c.pc = "delete"
    /\ c.left = << >>
    /\ owner' = [owner EXCEPT ![c.key] = None]
    /\ order' = [order EXCEPT ![c.key] = 0]
    /\ last' = [op |-> "delete", key |-> c.key]
    /\ Returns(h)

-----------------------------------------------------------------------------
Next ==
    \E h \in Handlers :
        \/ \E p \in Policies, list \in Lists : PutBegins(h, p, list)
        \/ PutCreates(h) \/ PutUpdates(h) \/ PutRefuses(h) \/ PutEnds(h)
        \/ \E k \in Keys, j \in 0 .. Cardinality(Keys) - 1 : PatchBegins(h, k, j)
        \/ ReorderWrites(h)
        \/ \E k \in Keys : DeleteBegins(h, k)
        \/ DeleteEnds(h)

Spec == Init /\ [][Next]_vars

-----------------------------------------------------------------------------
\* Properties

Resting == \A h \in Handlers : handler[h] = Idle

\* Between calls the orders of a policy's webhooks are 0, 1, 2... without gap or
\* duplicate, which reorder_related_webhooks and delete_webhook rely on: they
\* use a webhook's order as its position in the list. It holds when calls are
\* served one at a time, a PUT is refused at its first item if at all, and no PUT
\* names another policy's webhook.
OrdersArePositions ==
    Resting => \A p \in Policies :
        {order[k] : k \in HooksOf(p)} = 0 .. Cardinality(HooksOf(p)) - 1

\* The list a client sees once the calls in progress are over: until a call has
\* made its last commit, the list is the one it found.
SettledList(p) ==
    IF \E h \in Handlers : handler[h].policy = p
    THEN (CHOOSE c \in Range(handler) : c.policy = p).was
    ELSE CHOOSE s \in Listings(p) : TRUE

Promise ==
    INSTANCE WebhookOrder
    WITH hooks <- [p \in Policies |-> SettledList(p)]

\* Served one at a time, the endpoints do what they promise: a PUT replaces
\* the list, a PATCH moves its webhook to the index it names, a DELETE removes
\* its webhook, and neither changes the sequence of the others.
KeepsPromise == Promise!Spec
===============================================================================
