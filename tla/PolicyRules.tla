---------------------------- MODULE PolicyRules -----------------------------
(***************************************************************************)
(* The endpoints that maintain policies, their rules and the targets of    *)
(* rules. A PATCH handles its items one by one in one database session;    *)
(* an item looks its row up and checks itself, then commits. A commit      *)
(* writes everything the session holds that was changed, so also the row   *)
(* of an earlier item that was refused after it had been changed.          *)
(*                                                                         *)
(* Names follow keys: an item whose name belongs to another key is not     *)
(* among the inputs. The reads of one item happen at one instant.          *)
(***************************************************************************)
EXTENDS Naturals, FiniteSets

CONSTANTS
    Threads,     \* threads of the API server
    Policies, RuleKeys, TargetKeys, Storages,   \* keys
    Categories,  \* data categories,
    ParentOf,    \* and the parent of each in the taxonomy
    NoParent, NoStorage, Absent,
    MaxItems,    \* bound: items of one PATCH
    MaxCalls     \* bound: calls served

ASSUME ConstantsAssumption ==
    /\ NoStorage \notin Storages
    /\ MaxItems \in Nat /\ MaxCalls \in Nat
    /\ ParentOf \in [Categories -> Categories \union {NoParent}]
    /\ NoParent \notin Categories

\* "consent" stands for update too: both are refused by _validate_rule.
Actions == {"access", "erasure", "consent"}

RuleRow == [policy : Policies, action : Actions, masked : BOOLEAN,
            stored : Storages \union {NoStorage}]

TargetRow == [rule : RuleKeys, category : Categories]

ASSUME AbsentAssumption == Absent \notin RuleRow /\ Absent \notin TargetRow

VARIABLES
    policies,  \* keys of the rows of Policy
    rules,     \* rows of Rule
    targets,   \* rows of RuleTarget
    storages,  \* keys of the rows of StorageConfig
    sess,      \* the call each thread serves, with its session
    calls      \* calls served so far

vars == <<policies, rules, targets, storages, sess, calls>>

NoOp == [do |-> "none"]
Unread == [action |-> "unread", cats |-> {}]
NoRows == [k \in {} |-> Absent]

\* kind: what is served; left: items to come; op: the insert or update of the
\* item being committed; dirty: changed rules, as loaded and as in memory;
\* failed: dirty rules whose item was reported as failed; saw: what the check
\* of targets has loaded since the last commit; todo: targets to delete.
Idle == [kind |-> "idle", policy |-> Absent, rule |-> Absent, left |-> 0,
         committing |-> FALSE, op |-> NoOp, dirty |-> NoRows, failed |-> {},
         saw |-> Unread, todo |-> {}]

-----------------------------------------------------------------------------
\* Validation

\* Mutant of ValidateRule: the masking strategy is not asked for.
ValidateRuleUnmasked(row) ==
    /\ row.action = "erasure" => row.stored = NoStorage
    /\ row.action = "access" => row.stored # NoStorage
    /\ row.action # "consent"

\* _validate_rule raises nothing.
ValidateRule(row) ==
    /\ row.action = "erasure" => row.stored = NoStorage /\ row.masked
    /\ row.action = "access" => row.stored # NoStorage
    /\ row.action # "consent"

Ancestors ==
    LET above[i \in 0 .. Cardinality(Categories)] ==
            [c \in Categories |->
                IF i = 0 \/ ParentOf[c] = NoParent THEN {}
                ELSE {ParentOf[c]} \union above[i - 1][ParentOf[c]]]
    IN above[Cardinality(Categories)]

\* Mutant of ValidateTargets: only the ancestors of the new category count.
ValidateNewTarget(new, cats) == Ancestors[new] \cap cats = {}

\* _validate_rule_target_collection: no category has an ancestor among them.
\* The same category twice passes.
ValidateTargets(new, cats) ==
    \A c \in cats \union {new} : Ancestors[c] \cap (cats \union {new}) = {}

\* The targets of the erasure rules of a policy.
ErasureTargets(p) ==
    {g \in TargetKeys : /\ targets[g] # Absent
                        /\ rules[targets[g].rule] # Absent
                        /\ rules[targets[g].rule].policy = p
                        /\ rules[targets[g].rule].action = "erasure"}

\* get_erasure_target_categories
ErasureCategories(p) == {targets[g].category : g \in ErasureTargets(p)}

\* Two erasure targets mask one category twice, or one masks a part of what the
\* other masks: the two things that _validate_rule_target_collection is said to
\* keep out.
Conflicting(p) ==
    \E g, h \in ErasureTargets(p) :
        /\ g # h
        /\ \/ targets[g].category = targets[h].category
           \/ targets[g].category \in Ancestors[targets[h].category]

\* A database that calls served one at a time, all of them successful, can have
\* left. Its policies may be in conflict already.
Consistent ==
    /\ \A k \in RuleKeys : rules[k] # Absent =>
          /\ rules[k].policy \in policies
          /\ ValidateRule(rules[k])
          /\ rules[k].stored \in storages \union {NoStorage}
    /\ \A g \in TargetKeys : targets[g] # Absent =>
          /\ rules[targets[g].rule] # Absent
          /\ \A h \in TargetKeys \ {g} : targets[h] # targets[g]

Init ==
    /\ policies \in SUBSET Policies
    /\ storages \in SUBSET Storages
    /\ rules \in [RuleKeys -> RuleRow \union {Absent}]
    /\ targets \in [TargetKeys -> TargetRow \union {Absent}]
    /\ Consistent
    /\ sess = [t \in Threads |-> Idle]
    /\ calls = 0

-----------------------------------------------------------------------------
\* The items of a call

\* The loop goes on to the next item; after the last one the session is closed.
NextItem(s) == IF s.left <= 1 THEN Idle ELSE [s EXCEPT !.left = @ - 1]

Serves(t, kind) == sess[t].kind = kind /\ ~sess[t].committing

\* A request arrives for an idle thread.
Call(t) == sess[t] = Idle /\ calls < MaxCalls /\ calls' = calls + 1

Begin(t, s) ==
    /\ Call(t)
    /\ sess' = [sess EXCEPT ![t] = s]
    /\ UNCHANGED <<policies, rules, targets, storages>>

Continue(t, s) ==
    /\ sess' = [sess EXCEPT ![t] = s]
    /\ UNCHANGED <<policies, rules, targets, storages, calls>>

PatchPolicies(t) ==
    \E n \in 1 .. MaxItems :
        Begin(t, [Idle EXCEPT !.kind = "policies", !.left = n])

PatchRules(t, p) ==
    /\ p \in policies
    /\ \E n \in 1 .. MaxItems :
          Begin(t, [Idle EXCEPT !.kind = "rules", !.policy = p, !.left = n])

\* The condition on the rule is "key and policy" with Python's and: only the
\* key reaches the query.
FindRule(p, k) == p \in policies /\ rules[k] # Absent

PatchTargets(t, p, k) ==
    /\ FindRule(p, k)
    /\ \E n \in 1 .. MaxItems :
          Begin(t, [Idle EXCEPT !.kind = "targets", !.rule = k, !.left = n])

DeleteRule(t, p, k) ==
    /\ FindRule(p, k)
    /\ Begin(t, [Idle EXCEPT !.kind = "delete", !.policy = p, !.rule = k,
                    !.todo = {g \in TargetKeys : /\ targets[g] # Absent
                                                 /\ targets[g].rule = k}])

\* A policy with a key that exists is updated, which leaves it as it is. Without
\* a key a new one is made, and refused if its key exists.
PolicyItem(t, p) ==
    /\ Serves(t, "policies")
    /\ IF p \in policies
       THEN Continue(t, NextItem(sess[t]))
       ELSE Continue(t, [sess[t] EXCEPT !.committing = TRUE,
                            !.op = [do |-> "policy", key |-> p]])

\* The row of the item's key as this session sees it.
Loaded(t, k) == IF k \in DOMAIN sess[t].dirty THEN sess[t].dirty[k].row ELSE rules[k]

\* update: the attributes are set, then save validates.
Dirtied(s, k, row) ==
    [s EXCEPT
        !.dirty = [j \in DOMAIN @ \union {k} |->
                      IF j # k THEN @[j]
                      ELSE [base |-> IF k \in DOMAIN @ THEN @[k].base ELSE rules[k],
                            row |-> row]]]

\* Mutant of BelongsElsewhere: a rule may move to the policy of the call.
BelongsNowhere(t, k) == FALSE

\* "Rule with identifier ... belongs to another policy."
BelongsElsewhere(t, k) == Loaded(t, k).policy # sess[t].policy

\* An item that changes nothing, not even in the session: an access rule names a
\* storage that does not exist, a key that exists was not given or is another
\* policy's, or a new rule is invalid.
RuleRefused(t) == Serves(t, "rules") /\ Continue(t, NextItem(sess[t]))

RuleCreated(t, k, row) ==
    /\ Serves(t, "rules")
    /\ Loaded(t, k) = Absent
    /\ ValidateRule(row)
    /\ Continue(t, [sess[t] EXCEPT !.committing = TRUE,
                       !.op = [do |-> "rule", key |-> k, row |-> row]])

RuleUpdated(t, k, row) ==
    /\ Serves(t, "rules")
    /\ Loaded(t, k) # Absent
    /\ ~BelongsElsewhere(t, k)
    /\ ValidateRule(row)
    /\ Continue(t, [Dirtied(sess[t], k, row) EXCEPT !.committing = TRUE,
                                                    !.failed = @ \ {k}])

\* The item is reported as failed, and its rule stays changed in the session.
RuleUpdateInvalid(t, k, row) ==
    /\ Serves(t, "rules")
    /\ Loaded(t, k) # Absent
    /\ ~BelongsElsewhere(t, k)
    /\ ~ValidateRule(row)
    /\ Continue(t, NextItem([Dirtied(sess[t], k, row) EXCEPT
                                !.failed = @ \union {k}]))

\* An item that passes the check of its storage: only access rules have one.
RuleItem(t, k) ==
    \E action \in Actions, masked \in BOOLEAN, s \in storages \union {NoStorage} :
        LET row == [policy |-> sess[t].policy, action |-> action,
                    masked |-> masked, stored |-> s]
        IN
        /\ (action = "access") <=> (s # NoStorage)
        /\ RuleCreated(t, k, row) \/ RuleUpdated(t, k, row) \/ RuleUpdateInvalid(t, k, row)

\* The rule and the erasure targets of its policy, loaded once per commit.
Saw(t) ==
    IF sess[t].saw # Unread THEN sess[t].saw
    ELSE LET rule == rules[sess[t].rule] IN
         [action |-> rule.action, cats |-> ErasureCategories(rule.policy)]

\* No check against other targets: update only validates the category itself.
TargetUpdated(t, g, c) ==
    /\ Serves(t, "targets")
    /\ targets[g] # Absent
    /\ targets[g].rule = sess[t].rule
    /\ Continue(t, [sess[t] EXCEPT !.committing = TRUE,
                       !.op = [do |-> "retarget", key |-> g,
                               row |-> [targets[g] EXCEPT !.category = c]]])

\* The key exists and was not given, or is another rule's.
TargetKeyRefused(t, g) ==
    /\ Serves(t, "targets")
    /\ targets[g] # Absent
    /\ Continue(t, NextItem(sess[t]))

TargetConflicts(t, g, c) ==
    /\ Serves(t, "targets")
    /\ targets[g] = Absent
    /\ Saw(t).action = "erasure"
    /\ ~ValidateTargets(c, Saw(t).cats)
    /\ Continue(t, NextItem([sess[t] EXCEPT !.saw = Saw(t)]))

TargetCreated(t, g, c) ==
    /\ Serves(t, "targets")
    /\ targets[g] = Absent
    /\ Saw(t).action = "erasure" => ValidateTargets(c, Saw(t).cats)
    /\ Continue(t, [sess[t] EXCEPT !.committing = TRUE, !.saw = Saw(t),
                       !.op = [do |-> "target", key |-> g,
                               row |-> [rule |-> sess[t].rule, category |-> c]]])

-----------------------------------------------------------------------------
\* Commits

\* A flush writes the columns that differ from what was loaded.
Merged(row, d) ==
    [c \in DOMAIN row |-> IF d.base[c] # d.row[c] THEN d.row[c] ELSE row[c]]

Flushed(s) ==
    [k \in RuleKeys |->
        IF k \in DOMAIN s.dirty THEN Merged(rules[k], s.dirty[k])
        ELSE IF s.op.do = "rule" /\ s.op.key = k THEN s.op.row
        ELSE rules[k]]

\* Unique keys, the unique pair of rule and category, and foreign keys.
Integrity(s) ==
    /\ \A k \in RuleKeys :
          /\ k \in DOMAIN s.dirty => s.dirty[k].base.stored = s.dirty[k].row.stored
                                     \/ s.dirty[k].row.stored \in storages \union {NoStorage}
          /\ s.op.do = "rule" /\ s.op.key = k =>
                rules[k] = Absent /\ s.op.row.stored \in storages \union {NoStorage}
    /\ s.op.do = "policy" => s.op.key \notin policies
    /\ s.op.do = "target" => targets[s.op.key] = Absent
    /\ s.op.do \in {"target", "retarget"} =>
          \A g \in TargetKeys \ {s.op.key} : targets[g] # s.op.row

Committed(s) == NextItem([s EXCEPT !.committing = FALSE, !.op = NoOp,
                             !.dirty = NoRows, !.failed = {}, !.saw = Unread])

Commit(t) ==
    LET s == sess[t] IN
    /\ s.committing
    /\ Integrity(s)
    /\ policies' = IF s.op.do = "policy" THEN policies \union {s.op.key} ELSE policies
    /\ rules' = Flushed(s)
    /\ targets' = IF s.op.do \in {"target", "retarget"}
                  THEN [targets EXCEPT ![s.op.key] = s.op.row]
                  ELSE targets
    /\ sess' = [sess EXCEPT ![t] = Committed(s)]
    /\ UNCHANGED <<storages, calls>>

\* The session rolls back. PATCH of targets reports the item as failed and goes
\* on; the others answer with an error.
CommitFails(t) ==
    LET s == sess[t] IN
    /\ s.committing
    /\ ~Integrity(s)
    /\ Continue(t, IF s.kind = "targets" THEN Committed(s) ELSE Idle)

\* A call whose session holds a row that is deleted fails at its next statement,
\* without effect.
WithoutTarget(t, g, s) ==
    [u \in Threads |->
        IF u = t THEN s
        ELSE IF sess[u].op.do = "retarget" /\ sess[u].op.key = g THEN Idle
        ELSE [sess[u] EXCEPT !.todo = @ \ {g}]]

\* The query is for the target's key alone, as in FindRule.
DeleteTarget(t, p, k, g) ==
    /\ Call(t)
    /\ FindRule(p, k)
    /\ targets[g] # Absent
    /\ targets' = [targets EXCEPT ![g] = Absent]
    /\ sess' = WithoutTarget(t, g, Idle)
    /\ UNCHANGED <<policies, rules, storages>>

\* Rule.delete: one commit for each target loaded at first...
DeleteRuleTarget(t, g) ==
    /\ sess[t].kind = "delete"
    /\ g \in sess[t].todo
    /\ targets' = [targets EXCEPT ![g] = Absent]
    /\ sess' = WithoutTarget(t, g, [sess[t] EXCEPT !.todo = @ \ {g}])
    /\ UNCHANGED <<policies, rules, storages, calls>>

WithoutRule(t, k) ==
    [u \in Threads |->
        IF u = t \/ sess[u].rule = k \/ k \in DOMAIN sess[u].dirty THEN Idle
        ELSE sess[u]]

\* Mutant of HasTargets: the targets loaded at first are taken for all.
HasNoTargets(k) == FALSE

HasTargets(k) == \E g \in TargetKeys : targets[g] # Absent /\ targets[g].rule = k

\* ... then the rule. A target that has come since makes it fail: its rule may
\* not become null.
DeleteRuleRow(t) ==
    /\ sess[t].kind = "delete"
    /\ sess[t].todo = {}
    /\ IF HasTargets(sess[t].rule) THEN Continue(t, Idle)
       ELSE /\ rules' = [rules EXCEPT ![sess[t].rule] = Absent]
            /\ sess' = WithoutRule(t, sess[t].rule)
            /\ UNCHANGED <<policies, targets, storages, calls>>

\* patch_config of storage, for a new key.
CreateStorage(t, s) ==
    /\ Call(t)
    /\ s \notin storages
    /\ storages' = storages \union {s}
    /\ UNCHANGED <<policies, rules, targets, sess>>

\* delete_config_by_key of storage: the ORM empties the column of the rules that
\* name it.
DeleteStorage(t, s) ==
    /\ Call(t)
    /\ s \in storages
    /\ storages' = storages \ {s}
    /\ rules' = [k \in RuleKeys |->
                    IF rules[k] # Absent /\ rules[k].stored = s
                    THEN [rules[k] EXCEPT !.stored = NoStorage] ELSE rules[k]]
    /\ UNCHANGED <<policies, targets, sess>>

Serve(t) ==
    \/ PatchPolicies(t)
    \/ \E p \in Policies : PatchRules(t, p) \/ PolicyItem(t, p)
    \/ \E p \in Policies, k \in RuleKeys : PatchTargets(t, p, k) \/ DeleteRule(t, p, k)
    \/ \E p \in Policies, k \in RuleKeys, g \in TargetKeys : DeleteTarget(t, p, k, g)
    \/ RuleRefused(t)
    \/ \E k \in RuleKeys : RuleItem(t, k)
    \/ \E g \in TargetKeys : TargetKeyRefused(t, g)
    \/ \E g \in TargetKeys, c \in Categories :
          TargetConflicts(t, g, c) \/ TargetCreated(t, g, c) \/ TargetUpdated(t, g, c)
    \/ \E g \in TargetKeys : DeleteRuleTarget(t, g)
    \/ DeleteRuleRow(t)
    \/ \E s \in Storages : CreateStorage(t, s) \/ DeleteStorage(t, s)
    \/ Commit(t)
    \/ CommitFails(t)

Next == \E t \in Threads : Serve(t)

Spec == Init /\ [][Next]_vars

-----------------------------------------------------------------------------
\* Properties

\* Rows have their types, and no target is left without its rule, although a rule
\* and its targets are deleted by one commit each (Rule.delete).
TypeOK ==
    /\ policies \subseteq Policies
    /\ rules \in [RuleKeys -> RuleRow \union {Absent}]
    /\ targets \in [TargetKeys -> TargetRow \union {Absent}]
    /\ storages \subseteq Storages
    /\ \A g \in TargetKeys : targets[g] # Absent => rules[targets[g].rule] # Absent

\* A rule stays with its policy and a target with its rule for as long as they
\* exist, whoever updates them meanwhile (create_or_update of Rule, RuleTarget).
OwnersStay ==
    [][/\ \A k \in RuleKeys : rules[k] # Absent /\ rules'[k] # Absent =>
             rules'[k].policy = rules[k].policy
       /\ \A g \in TargetKeys : targets[g] # Absent /\ targets'[g] # Absent =>
             targets'[g].rule = targets[g].rule]_vars

\* A rule that cannot be carried out: data to upload and nowhere to put it, an
\* erasure that does not say how, an action that is not supported.
Invalid(row) ==
    /\ row # Absent
    /\ \/ row.action = "access" /\ row.stored = NoStorage
       \/ row.action = "erasure" /\ (row.stored # NoStorage \/ ~row.masked)
       \/ row.action = "consent"

\* The ways in which an invalid rule gets into the database: a later item of the
\* call commits what was reported as failed; two calls update one rule and each
\* writes its own columns; or the storage of the rule is deleted. Calls that
\* succeed and do not overlap never write one (Rule.save, Rule.create).
InvalidHasCause ==
    [][\A k \in RuleKeys : Invalid(rules'[k]) /\ ~Invalid(rules[k]) =>
          \/ \E t \in Threads : /\ Commit(t)
                                /\ k \in DOMAIN sess[t].dirty
                                /\ \/ k \in sess[t].failed
                                   \/ sess[t].dirty[k].base # rules[k]
          \/ storages' # storages]_vars

\* Erasure targets of a policy come to overlap only where nothing is checked (a
\* target gets another category, a rule another action), where the check lets a
\* category through that the policy masks already, or where it has seen other
\* targets than the commit meets. Nothing else makes them overlap, and of two
\* calls that do not, a new target never masks a part of what is masked already
\* (RuleTarget.create).
ConflictHasCause ==
    [][\A p \in Policies : Conflicting(p)' /\ ~Conflicting(p) =>
          \E t \in Threads :
             /\ Commit(t)
             /\ \/ sess[t].op.do = "retarget"
                \/ sess[t].dirty # NoRows
                \/ /\ sess[t].op.do = "target"
                   /\ sess[t].op.row.category \in ErasureCategories(p)
                \/ sess[t].saw.action # rules[sess[t].rule].action
                \/ sess[t].saw.cats # ErasureCategories(p)]_vars
===============================================================================
