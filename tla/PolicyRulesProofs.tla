--------------------------- MODULE PolicyRulesProofs --------------------------
(***************************************************************************)
(* Proofs about PolicyRules, for any number of threads, calls and items    *)
(* and any taxonomy of categories.                                         *)
(***************************************************************************)
EXTENDS PolicyRules, TLAPS

Change == [base : RuleRow, row : RuleRow]

Dirties == UNION {[D -> Change] : D \in SUBSET RuleKeys}

Ops ==
    {NoOp} \union [do : {"policy"}, key : Policies]
           \union [do : {"rule"}, key : RuleKeys, row : RuleRow]
           \union [do : {"target", "retarget"}, key : TargetKeys, row : TargetRow]

Session ==
    [kind : {"idle", "policies", "rules", "targets", "delete"},
     policy : Policies \union {Absent}, rule : RuleKeys \union {Absent}, left : Nat,
     committing : BOOLEAN, op : Ops, dirty : Dirties, failed : SUBSET RuleKeys,
     saw : [action : Actions \union {"unread"}, cats : SUBSET Categories],
     todo : SUBSET TargetKeys]

\* The rules that a session has changed exist, stay with their policy, and are valid
\* but for those that were reported as failed.
DirtyOK(s, R) ==
    \A k \in DOMAIN s.dirty :
        /\ R[k] # Absent
        /\ s.dirty[k].base.policy = s.dirty[k].row.policy
        /\ k \notin s.failed => ValidateRule(s.dirty[k].row)

\* What a session is about to commit has passed the checks on what it had seen, and
\* an update of a target finds the target with its rule.
OpOK(s, T) ==
    /\ s.op.do \in {"target", "retarget"} => s.kind = "targets" /\ s.op.row.rule = s.rule
    /\ s.op.do = "retarget" => T[s.op.key] # Absent /\ T[s.op.key].rule = s.rule
    /\ s.op.do = "rule" => ValidateRule(s.op.row)
    /\ s.op.do = "target" /\ s.saw.action = "erasure" =>
          ValidateTargets(s.op.row.category, s.saw.cats)
    /\ s.op # NoOp => s.committing
    /\ s.kind = "delete" => s.op = NoOp

\* The rule whose targets are patched, or which is deleted, exists.
OwnerOK(s, R) ==
    /\ s.kind = "rules" => s.policy \in Policies
    /\ s.kind \in {"targets", "delete"} => s.rule \in RuleKeys /\ R[s.rule] # Absent

\* A session over rules R and targets T.
SessOK(s, R, T) == s \in Session /\ DirtyOK(s, R) /\ OpOK(s, T) /\ OwnerOK(s, R)

RulesInv ==
    /\ TypeOK
    /\ sess \in [Threads -> Session]
    /\ \A t \in Threads : SessOK(sess[t], rules, targets)

-----------------------------------------------------------------------------
\* Sessions

\* An idle thread holds nothing.
LEMMA IdleOK ==
    ASSUME NEW R, NEW T
    PROVE  SessOK(Idle, R, T)
<1>1. NoRows \in [{} -> Change] /\ DOMAIN NoRows = {}
  BY DEF NoRows
<1>2. NoRows \in Dirties
  BY <1>1 DEF Dirties
<1>3. Idle \in Session
  BY <1>2 DEF Idle, Session, Ops, NoOp, Unread, Actions
<1> QED
  BY <1>1, <1>3 DEF SessOK, DirtyOK, OpOK, OwnerOK, Idle, NoOp

\* Going on to the next item leaves the session as it is, or closes it.
LEMMA NextItemOK ==
    ASSUME NEW R, NEW T, NEW s, SessOK(s, R, T)
    PROVE  SessOK(NextItem(s), R, T)
<1>1. CASE s.left <= 1
  BY <1>1, IdleOK DEF NextItem
<1>2. CASE ~(s.left <= 1)
  <2> DEFINE n == [s EXCEPT !.left = @ - 1]
  <2>1. s \in Session /\ s.left - 1 \in Nat
    BY <1>2 DEF SessOK, Session
  <2>2. /\ n \in Session
        /\ n.dirty = s.dirty /\ n.failed = s.failed /\ n.op = s.op /\ n.kind = s.kind
        /\ n.rule = s.rule /\ n.saw = s.saw /\ n.policy = s.policy
        /\ n.committing = s.committing
    BY <2>1 DEF Session
  <2>3. NextItem(s) = n
    BY <1>2 DEF NextItem
  <2> HIDE DEF n
  <2> QED
    BY <2>2, <2>3 DEF SessOK, DirtyOK, OpOK, OwnerOK
<1> QED
  BY <1>1, <1>2

\* A commit or a rollback leaves a session that holds nothing but its owner.
LEMMA CommittedOK ==
    ASSUME NEW R, NEW T, NEW s \in Session, OwnerOK(s, R)
    PROVE  SessOK(Committed(s), R, T)
<1> DEFINE n == [s EXCEPT !.committing = FALSE, !.op = NoOp, !.dirty = NoRows,
                          !.failed = {}, !.saw = Unread]
<1>1. NoRows \in Dirties /\ DOMAIN NoRows = {} /\ NoOp \in Ops /\ Unread \in [action : Actions \union {"unread"}, cats : SUBSET Categories]
  <2>1. NoRows \in [{} -> Change] /\ DOMAIN NoRows = {}
    BY DEF NoRows
  <2> QED
    BY <2>1 DEF Dirties, Ops, Unread
<1>2. /\ n \in Session
      /\ n.dirty = NoRows /\ n.op = NoOp /\ n.kind = s.kind /\ n.rule = s.rule
      /\ n.policy = s.policy
  BY <1>1 DEF Session
<1>3. SessOK(n, R, T)
  BY <1>1, <1>2 DEF SessOK, DirtyOK, OpOK, OwnerOK, NoOp
<1> QED
  BY <1>3, NextItemOK DEF Committed

\* What a session rests on: rules and targets that it holds are still there.
LEMMA SessionStays ==
    ASSUME NEW R, NEW T, NEW R1, NEW T1, NEW s, SessOK(s, R, T),
           \A k \in RuleKeys : R[k] # Absent /\ (k = s.rule \/ k \in DOMAIN s.dirty) =>
               R1[k] # Absent,
           \A g \in TargetKeys : s.op.do = "retarget" /\ s.op.key = g =>
               T1[g] # Absent /\ T1[g].rule = T[g].rule
    PROVE  SessOK(s, R1, T1)
<1>1. DOMAIN s.dirty \subseteq RuleKeys
  <2>1. s.dirty \in Dirties
    BY DEF SessOK, Session
  <2> QED
    BY <2>1 DEF Dirties
<1>2. DirtyOK(s, R1)
  BY <1>1 DEF SessOK, DirtyOK
<1>3. s.op.do = "retarget" => s.op.key \in TargetKeys
  <2>1. s.op \in Ops
    BY DEF SessOK, Session
  <2> QED
    BY <2>1 DEF Ops, NoOp
<1>4. OpOK(s, T1)
  BY <1>3 DEF SessOK, OpOK
<1>5. OwnerOK(s, R1)
  BY DEF SessOK, OwnerOK
<1> QED
  BY <1>2, <1>4, <1>5 DEF SessOK

\* A step of which only thread t knows keeps the invariant.
LEMMA OwnStep ==
    ASSUME RulesInv, NEW t \in Threads, NEW s, SessOK(s, rules, targets),
           sess' = [sess EXCEPT ![t] = s],
           UNCHANGED <<policies, rules, targets, storages>>
    PROVE  RulesInv'
<1>1. s \in Session
  BY DEF SessOK
<1>2. sess' \in [Threads -> Session]
  BY <1>1 DEF RulesInv
<1>3. ASSUME NEW u \in Threads PROVE SessOK(sess'[u], rules, targets)
  BY DEF RulesInv
<1>4. TypeOK'
  BY DEF RulesInv, TypeOK
<1> QED
  BY <1>2, <1>3, <1>4 DEF RulesInv

\* The sessions that calls begin with.
LEMMA BeginsOK ==
    ASSUME RulesInv, NEW t \in Threads, NEW p, NEW k,
           \/ PatchPolicies(t)
           \/ p \in Policies /\ PatchRules(t, p)
           \/ p \in Policies /\ k \in RuleKeys /\ PatchTargets(t, p, k)
           \/ p \in Policies /\ k \in RuleKeys /\ DeleteRule(t, p, k)
    PROVE  RulesInv'
<1>1. \A n \in 1 .. MaxItems : n \in Nat
  BY ConstantsAssumption
<1>2. SessOK(Idle, rules, targets) /\ Idle \in Session
  BY IdleOK DEF SessOK
<1>3. Idle.op = NoOp /\ Idle.dirty = NoRows
  BY DEF Idle
<1>4. ASSUME NEW s \in Session, s.op = NoOp, s.dirty = NoRows, OwnerOK(s, rules),
             Begin(t, s)
      PROVE  RulesInv'
  <2>1. SessOK(s, rules, targets)
    BY <1>4 DEF SessOK, DirtyOK, OpOK, NoOp, NoRows
  <2> QED
    BY <1>4, <2>1, OwnStep DEF Begin
<1>5. CASE PatchPolicies(t)
  <2>1. PICK n \in 1 .. MaxItems : Begin(t, [Idle EXCEPT !.kind = "policies", !.left = n])
    BY <1>5 DEF PatchPolicies
  <2> DEFINE s == [Idle EXCEPT !.kind = "policies", !.left = n]
  <2>2. s \in Session /\ s.op = NoOp /\ s.dirty = NoRows /\ s.kind = "policies"
    BY <1>1, <1>2, <1>3 DEF Session
  <2> HIDE DEF s
  <2> QED
    BY <1>4, <2>1, <2>2 DEF OwnerOK, s
<1>6. CASE p \in Policies /\ PatchRules(t, p)
  <2>1. PICK n \in 1 .. MaxItems :
           Begin(t, [Idle EXCEPT !.kind = "rules", !.policy = p, !.left = n])
    BY <1>6 DEF PatchRules
  <2> DEFINE s == [Idle EXCEPT !.kind = "rules", !.policy = p, !.left = n]
  <2>2. s \in Session /\ s.op = NoOp /\ s.dirty = NoRows /\ s.kind = "rules" /\ s.policy = p
    BY <1>1, <1>2, <1>3, <1>6 DEF Session
  <2>3. OwnerOK(s, rules)
    BY <1>6, <2>2 DEF OwnerOK
  <2> HIDE DEF s
  <2> QED
    BY <1>4, <2>1, <2>2, <2>3 DEF s
<1>7. CASE k \in RuleKeys /\ PatchTargets(t, p, k)
  <2>1. PICK n \in 1 .. MaxItems :
           Begin(t, [Idle EXCEPT !.kind = "targets", !.rule = k, !.left = n])
    BY <1>7 DEF PatchTargets
  <2> DEFINE s == [Idle EXCEPT !.kind = "targets", !.rule = k, !.left = n]
  <2>2. s \in Session /\ s.op = NoOp /\ s.dirty = NoRows /\ s.kind = "targets" /\ s.rule = k
    BY <1>1, <1>2, <1>3, <1>7 DEF Session
  <2>3. OwnerOK(s, rules)
    BY <1>7, <2>2 DEF OwnerOK, PatchTargets, FindRule
  <2> HIDE DEF s
  <2> QED
    BY <1>4, <2>1, <2>2, <2>3 DEF s
<1>8. CASE p \in Policies /\ k \in RuleKeys /\ DeleteRule(t, p, k)
  <2> DEFINE gs == {g \in TargetKeys : targets[g] # Absent /\ targets[g].rule = k}
             s == [Idle EXCEPT !.kind = "delete", !.policy = p, !.rule = k, !.todo = gs]
  <2>1. Begin(t, s)
    BY <1>8 DEF DeleteRule
  <2>2. s \in Session /\ s.op = NoOp /\ s.dirty = NoRows /\ s.kind = "delete" /\ s.rule = k
    BY <1>2, <1>3, <1>8 DEF Session
  <2>3. OwnerOK(s, rules)
    BY <1>8, <2>2 DEF OwnerOK, DeleteRule, FindRule
  <2> HIDE DEF s
  <2> QED
    BY <1>4, <2>1, <2>2, <2>3
<1> QED
  BY <1>5, <1>6, <1>7, <1>8

\* A session that stages an insert or an update that passed its checks.
LEMMA StageOK ==
    ASSUME NEW R, NEW T, NEW s, SessOK(s, R, T), s.kind # "delete",
           NEW op \in Ops,
           NEW saw \in [action : Actions \union {"unread"}, cats : SUBSET Categories],
           op.do \in {"target", "retarget"} => s.kind = "targets" /\ op.row.rule = s.rule,
           op.do = "retarget" => T[op.key] # Absent /\ T[op.key].rule = s.rule,
           op.do = "rule" => ValidateRule(op.row),
           op.do = "target" /\ saw.action = "erasure" => ValidateTargets(op.row.category, saw.cats)
    PROVE  SessOK([s EXCEPT !.committing = TRUE, !.saw = saw, !.op = op], R, T)
<1> DEFINE n == [s EXCEPT !.committing = TRUE, !.saw = saw, !.op = op]
<1>1. /\ n \in Session
      /\ n.dirty = s.dirty /\ n.failed = s.failed /\ n.op = op /\ n.kind = s.kind
      /\ n.rule = s.rule /\ n.saw = saw /\ n.policy = s.policy
      /\ n.committing = TRUE
  BY DEF SessOK, Session
<1> HIDE DEF n
<1>2. SessOK(n, R, T)
  BY <1>1 DEF SessOK, DirtyOK, OpOK, OwnerOK
<1> QED
  BY <1>2 DEF n

\* What update leaves in the session: the rule with its new columns.
LEMMA DirtiedOK ==
    ASSUME NEW T, NEW s, SessOK(s, rules, T), NEW k \in RuleKeys, NEW row \in RuleRow,
           rules[k] \in RuleRow,
           (IF k \in DOMAIN s.dirty THEN s.dirty[k].row ELSE rules[k]).policy = row.policy,
           NEW committing \in BOOLEAN, s.committing => committing, NEW failed \in SUBSET RuleKeys,
           failed \in {s.failed \ {k}, s.failed \union {k}},
           k \notin failed => ValidateRule(row)
    PROVE  SessOK([Dirtied(s, k, row) EXCEPT !.committing = committing, !.failed = failed],
                  rules, T)
<1> DEFINE was == s.dirty
           new == [j \in DOMAIN was \union {k} |->
                      IF j # k THEN was[j]
                      ELSE [base |-> IF k \in DOMAIN was THEN was[k].base ELSE rules[k],
                            row |-> row]]
           n == [s EXCEPT !.dirty = new, !.committing = committing, !.failed = failed]
<1>1. PICK D \in SUBSET RuleKeys : was \in [D -> Change]
  BY DEF SessOK, Session, Dirties
<1>2. DOMAIN was = D
  BY <1>1
<1>3. rules[k] # Absent
  BY AbsentAssumption
<1>4. new \in [D \union {k} -> Change] /\ D \union {k} \in SUBSET RuleKeys
  BY <1>1, <1>2 DEF Change
<1>5. new \in Dirties
  BY <1>4 DEF Dirties
<1>6. [Dirtied(s, k, row) EXCEPT !.committing = committing, !.failed = failed] = n
  BY DEF SessOK, Session, Dirtied
<1>7. /\ n \in Session
      /\ n.dirty = new /\ n.failed = failed /\ n.op = s.op /\ n.kind = s.kind
      /\ n.rule = s.rule /\ n.saw = s.saw /\ n.policy = s.policy
      /\ n.committing = committing
  BY <1>5 DEF SessOK, Session
<1> HIDE DEF n
<1>8. ASSUME NEW j \in DOMAIN new
      PROVE  /\ rules[j] # Absent
             /\ new[j].base.policy = new[j].row.policy
             /\ j \notin failed => ValidateRule(new[j].row)
  <2>1. CASE j = k
    BY <1>2, <1>3, <2>1 DEF SessOK, DirtyOK
  <2>2. CASE j # k
    BY <1>2, <2>2 DEF SessOK, DirtyOK
  <2> QED
    BY <2>1, <2>2
<1>9. SessOK(n, rules, T)
  BY <1>7, <1>8, ZenonT(60) DEF SessOK, DirtyOK, OpOK, OwnerOK
<1> QED
  BY <1>6, <1>9

\* The same, when nothing new was seen.
LEMMA StageUnseenOK ==
    ASSUME NEW R, NEW T, NEW s, SessOK(s, R, T), s.kind # "delete",
           NEW op \in Ops, op.do # "target",
           op.do = "retarget" => /\ s.kind = "targets" /\ op.row.rule = s.rule
                                 /\ T[op.key] # Absent /\ T[op.key].rule = s.rule,
           op.do = "rule" => ValidateRule(op.row)
    PROVE  SessOK([s EXCEPT !.committing = TRUE, !.op = op], R, T)
<1>1. s \in Session /\ s.saw \in [action : Actions \union {"unread"}, cats : SUBSET Categories]
  BY DEF SessOK, Session
<1>2. [s EXCEPT !.committing = TRUE, !.op = op] =
      [s EXCEPT !.committing = TRUE, !.saw = s.saw, !.op = op]
  BY <1>1 DEF Session
<1>3. SessOK([s EXCEPT !.committing = TRUE, !.saw = s.saw, !.op = op], R, T)
  BY <1>1, StageOK
<1> QED
  BY <1>2, <1>3

\* The items of a PATCH of policies.
LEMMA PolicyItemsOK ==
    ASSUME RulesInv, NEW t \in Threads, NEW p \in Policies, PolicyItem(t, p)
    PROVE  RulesInv'
<1>1. SessOK(sess[t], rules, targets) /\ sess[t].kind = "policies"
  BY DEF RulesInv, PolicyItem, Serves
<1>2. CASE p \in policies
  BY <1>1, <1>2, NextItemOK, OwnStep DEF PolicyItem, Continue
<1>3. CASE p \notin policies
  <2> DEFINE op == [do |-> "policy", key |-> p]
  <2>1. op \in Ops /\ op.do = "policy"
    BY DEF Ops
  <2> HIDE DEF op
  <2>2. SessOK([sess[t] EXCEPT !.committing = TRUE, !.op = op], rules, targets)
    BY <1>1, <2>1, StageUnseenOK
  <2> QED
    BY <1>3, <2>2, OwnStep DEF PolicyItem, Continue, op
<1> QED
  BY <1>2, <1>3

\* The items of a PATCH of rules.
LEMMA RuleItemsOK ==
    ASSUME RulesInv, NEW t \in Threads, NEW k \in RuleKeys, RuleItem(t, k)
    PROVE  RulesInv'
<1> DEFINE s == sess[t]
<1>1. PICK action \in Actions, masked \in BOOLEAN, st \in storages \union {NoStorage} :
         LET row == [policy |-> sess[t].policy, action |-> action,
                     masked |-> masked, stored |-> st]
         IN RuleCreated(t, k, row) \/ RuleUpdated(t, k, row) \/ RuleUpdateInvalid(t, k, row)
  BY DEF RuleItem
<1> DEFINE row == [policy |-> sess[t].policy, action |-> action,
                   masked |-> masked, stored |-> st]
<1>2. SessOK(s, rules, targets) /\ s.kind = "rules" /\ s.policy \in Policies /\ s \in Session
  BY <1>1 DEF RulesInv, RuleCreated, RuleUpdated, RuleUpdateInvalid, Serves, SessOK, OwnerOK
<1>3. row \in RuleRow /\ row.policy = s.policy
  BY <1>2 DEF RuleRow, RulesInv, TypeOK
<1>4. s.failed \in SUBSET RuleKeys /\ s.dirty \in Dirties
  BY <1>2 DEF Session
<1> HIDE DEF row
<1>5. CASE RuleCreated(t, k, row)
  <2> DEFINE op == [do |-> "rule", key |-> k, row |-> row]
  <2>1. op \in Ops /\ op.do = "rule" /\ op.row = row
    BY <1>3 DEF Ops
  <2>2. ValidateRule(row)
    BY <1>5 DEF RuleCreated
  <2> HIDE DEF op
  <2>3. SessOK([s EXCEPT !.committing = TRUE, !.op = op], rules, targets)
    BY <1>2, <2>1, <2>2, StageUnseenOK
  <2> QED
    BY <1>5, <2>3, OwnStep DEF RuleCreated, Continue, op
<1>6. CASE RuleUpdated(t, k, row) \/ RuleUpdateInvalid(t, k, row)
  <2>1. Loaded(t, k) # Absent /\ Loaded(t, k).policy = row.policy
    BY <1>3, <1>6 DEF RuleUpdated, RuleUpdateInvalid, BelongsElsewhere
  <2>2. rules[k] \in RuleRow
    <3>1. rules[k] # Absent
      BY <1>2, <2>1 DEF Loaded, SessOK, DirtyOK
    <3> QED
      BY <3>1 DEF RulesInv, TypeOK
  <2>3. (IF k \in DOMAIN s.dirty THEN s.dirty[k].row ELSE rules[k]).policy = row.policy
    BY <2>1 DEF Loaded
  <2>4. s.failed \ {k} \in SUBSET RuleKeys /\ s.failed \union {k} \in SUBSET RuleKeys
    BY <1>4
  <2>5. CASE RuleUpdated(t, k, row)
    <3> DEFINE n == [Dirtied(s, k, row) EXCEPT !.committing = TRUE, !.failed = s.failed \ {k}]
    <3>1. SessOK(n, rules, targets)
      <4>1. ValidateRule(row)
        BY <2>5 DEF RuleUpdated
      <4> QED
        BY <1>2, <1>3, <2>2, <2>3, <2>4, <4>1, DirtiedOK
    <3>2. n = [Dirtied(s, k, row) EXCEPT !.committing = TRUE, !.failed = @ \ {k}]
      BY <1>2 DEF Dirtied, Session
    <3> QED
      BY <2>5, <3>1, <3>2, OwnStep DEF RuleUpdated, Continue
  <2>6. CASE RuleUpdateInvalid(t, k, row)
    <3> DEFINE n == [Dirtied(s, k, row) EXCEPT !.committing = FALSE, !.failed = s.failed \union {k}]
    <3>2. s.committing = FALSE
      BY <1>2, <2>6 DEF RuleUpdateInvalid, Serves, Session
    <3>1. SessOK(n, rules, targets)
      BY <1>2, <1>3, <2>2, <2>3, <2>4, <3>2, DirtiedOK
    <3>3. n = [Dirtied(s, k, row) EXCEPT !.failed = @ \union {k}]
      BY <1>2, <3>2 DEF Dirtied, Session
    <3> HIDE DEF n
    <3>4. SessOK(NextItem(n), rules, targets)
      BY <3>1, NextItemOK
    <3> QED
      BY <2>6, <3>3, <3>4, OwnStep DEF RuleUpdateInvalid, Continue
  <2> QED
    BY <1>6, <2>5, <2>6
<1> QED
  BY <1>1, <1>5, <1>6 DEF row

\* What the check of targets sees has its type.
LEMMA SawTyped ==
    ASSUME RulesInv, NEW t \in Threads, sess[t].kind = "targets"
    PROVE  Saw(t) \in [action : Actions \union {"unread"}, cats : SUBSET Categories]
<1>1. /\ sess[t].saw \in [action : Actions \union {"unread"}, cats : SUBSET Categories]
      /\ sess[t].rule \in RuleKeys /\ rules[sess[t].rule] # Absent
  BY DEF RulesInv, SessOK, Session, OwnerOK
<1>2. rules[sess[t].rule] \in RuleRow
  BY <1>1 DEF RulesInv, TypeOK
<1>3. rules[sess[t].rule].action \in Actions
  BY <1>2 DEF RuleRow
<1>4. \A p : ErasureCategories(p) \subseteq Categories
  BY DEF ErasureCategories, ErasureTargets, RulesInv, TypeOK, TargetRow
<1> QED
  BY <1>1, <1>3, <1>4 DEF Saw

\* The items of a PATCH of targets.
LEMMA TargetItemsOK ==
    ASSUME RulesInv, NEW t \in Threads, NEW g \in TargetKeys, NEW c,
           \/ TargetKeyRefused(t, g)
           \/ /\ c \in Categories
              /\ TargetConflicts(t, g, c) \/ TargetCreated(t, g, c) \/ TargetUpdated(t, g, c)
    PROVE  RulesInv'
<1> DEFINE s == sess[t]
<1>1. /\ SessOK(s, rules, targets) /\ s \in Session /\ s.kind = "targets"
      /\ s.rule \in RuleKeys
  BY DEF RulesInv, TargetKeyRefused, TargetConflicts, TargetCreated, TargetUpdated, Serves,
         SessOK, OwnerOK
<1>2. Saw(t) \in [action : Actions \union {"unread"}, cats : SUBSET Categories]
  BY <1>1, SawTyped
<1>3. CASE TargetKeyRefused(t, g)
  BY <1>1, <1>3, NextItemOK, OwnStep DEF TargetKeyRefused, Continue
<1>4. CASE TargetConflicts(t, g, c)
  <2> DEFINE n == [s EXCEPT !.saw = Saw(t)]
  <2>1. /\ n \in Session
        /\ n.dirty = s.dirty /\ n.failed = s.failed /\ n.op = s.op /\ n.kind = s.kind
        /\ n.rule = s.rule /\ n.policy = s.policy /\ n.committing = s.committing
    BY <1>1, <1>2 DEF Session
  <2>2. s.op.do # "target"
    BY <1>1, <1>4 DEF TargetConflicts, Serves, SessOK, OpOK, NoOp
  <2>3. SessOK(n, rules, targets)
    BY <1>1, <2>1, <2>2 DEF SessOK, DirtyOK, OpOK, OwnerOK
  <2> HIDE DEF n
  <2> QED
    BY <1>4, <2>3, NextItemOK, OwnStep DEF TargetConflicts, Continue, n
<1>5. CASE c \in Categories /\ TargetCreated(t, g, c)
  <2> DEFINE op == [do |-> "target", key |-> g, row |-> [rule |-> s.rule, category |-> c]]
  <2>1. op \in Ops /\ op.do = "target" /\ op.row.rule = s.rule /\ op.row.category = c
    BY <1>1, <1>5 DEF Ops, TargetRow
  <2>2. Saw(t).action = "erasure" => ValidateTargets(c, Saw(t).cats)
    BY <1>5 DEF TargetCreated
  <2> HIDE DEF op
  <2>3. SessOK([s EXCEPT !.committing = TRUE, !.saw = Saw(t), !.op = op], rules, targets)
    BY <1>1, <1>2, <2>1, <2>2, StageOK
  <2> QED
    BY <1>5, <2>3, OwnStep DEF TargetCreated, Continue, op
<1>6. CASE c \in Categories /\ TargetUpdated(t, g, c)
  <2> DEFINE row == [targets[g] EXCEPT !.category = c]
             op == [do |-> "retarget", key |-> g, row |-> row]
  <2>1. targets[g] \in TargetRow /\ targets[g].rule = s.rule /\ targets[g] # Absent
    BY <1>6 DEF TargetUpdated, RulesInv, TypeOK
  <2>2. row \in TargetRow /\ row.rule = s.rule
    BY <1>6, <2>1 DEF TargetRow
  <2> HIDE DEF row
  <2>3. op \in Ops /\ op.do = "retarget" /\ op.row = row /\ op.key = g
    BY <2>2 DEF Ops
  <2> HIDE DEF op
  <2>4. SessOK([s EXCEPT !.committing = TRUE, !.op = op], rules, targets)
    BY <1>1, <2>1, <2>2, <2>3, StageUnseenOK
  <2> QED
    BY <1>6, <2>4, OwnStep DEF TargetUpdated, Continue, op, row
<1> QED
  BY <1>3, <1>4, <1>5, <1>6

\* What a commit writes: existing rules stay and keep their policy, a new one comes
\* under a key that had none; targets likewise.
LEMMA CommitWrites ==
    ASSUME RulesInv, NEW t \in Threads, Commit(t)
    PROVE  /\ rules' \in [RuleKeys -> RuleRow \union {Absent}]
           /\ targets' \in [TargetKeys -> TargetRow \union {Absent}]
           /\ \A k \in RuleKeys : rules[k] # Absent =>
                 rules'[k] # Absent /\ rules'[k].policy = rules[k].policy
           /\ \A g \in TargetKeys : targets[g] # Absent =>
                 targets'[g] # Absent /\ targets'[g].rule = targets[g].rule
           /\ \A g \in TargetKeys : targets[g] = Absent /\ targets'[g] # Absent =>
                 targets'[g].rule = sess[t].rule /\ sess[t].kind = "targets"
<1> DEFINE s == sess[t]
<1>1. /\ SessOK(s, rules, targets) /\ s \in Session /\ s.op \in Ops
      /\ s.committing /\ Integrity(s) /\ rules' = Flushed(s)
      /\ targets' = IF s.op.do \in {"target", "retarget"}
                    THEN [targets EXCEPT ![s.op.key] = s.op.row]
                    ELSE targets
  BY DEF RulesInv, Commit, SessOK, Session
<1>2. PICK D \in SUBSET RuleKeys : s.dirty \in [D -> Change]
  BY <1>1 DEF Session, Dirties
<1>3. DOMAIN s.dirty = D
  BY <1>2
<1>4. ASSUME NEW k \in RuleKeys
      PROVE  /\ rules'[k] = IF k \in D THEN Merged(rules[k], s.dirty[k])
                            ELSE IF s.op.do = "rule" /\ s.op.key = k THEN s.op.row
                            ELSE rules[k]
             /\ rules'[k] \in RuleRow \union {Absent}
             /\ rules[k] # Absent => rules'[k] # Absent /\ rules'[k].policy = rules[k].policy
  <2>1. rules'[k] = IF k \in D THEN Merged(rules[k], s.dirty[k])
                    ELSE IF s.op.do = "rule" /\ s.op.key = k THEN s.op.row
                    ELSE rules[k]
    BY <1>1, <1>3 DEF Flushed
  <2>2. rules[k] \in RuleRow \union {Absent}
    BY DEF RulesInv, TypeOK
  <2>3. CASE k \in D
    <3>1. /\ rules[k] \in RuleRow /\ s.dirty[k] \in Change
          /\ s.dirty[k].base.policy = s.dirty[k].row.policy
      BY <1>1, <1>2, <1>3, <2>2, <2>3 DEF SessOK, DirtyOK
    <3>2. Merged(rules[k], s.dirty[k]) \in RuleRow
          /\ Merged(rules[k], s.dirty[k]).policy = rules[k].policy
      <4>1. s.dirty[k].base \in RuleRow /\ s.dirty[k].row \in RuleRow
        BY <3>1 DEF Change
      <4> QED
        BY <3>1, <4>1 DEF Merged, RuleRow
    <3> QED
      BY <2>1, <2>3, <3>1, <3>2, AbsentAssumption
  <2>4. CASE k \notin D /\ s.op.do = "rule" /\ s.op.key = k
    <3>1. rules[k] = Absent
      BY <1>1, <2>4 DEF Integrity
    <3>2. s.op.row \in RuleRow
      BY <1>1, <2>4 DEF Ops, NoOp
    <3> QED
      BY <2>1, <2>4, <3>1, <3>2
  <2>5. CASE k \notin D /\ ~(s.op.do = "rule" /\ s.op.key = k)
    BY <2>1, <2>2, <2>5
  <2> QED
    BY <2>1, <2>3, <2>4, <2>5
<1>5. rules' \in [RuleKeys -> RuleRow \union {Absent}]
  <2>1. rules' = [k \in RuleKeys |-> rules'[k]]
    BY <1>1 DEF Flushed
  <2> QED
    BY <1>4, <2>1
<1>6. CASE s.op.do \in {"target", "retarget"}
  <2>1. s.op.key \in TargetKeys /\ s.op.row \in TargetRow /\ s.op.row # Absent
    BY <1>1, <1>6, AbsentAssumption DEF Ops, NoOp
  <2>2. s.kind = "targets" /\ s.op.row.rule = s.rule
    BY <1>1, <1>6 DEF SessOK, OpOK
  <2>3. /\ s.op.do = "target" => targets[s.op.key] = Absent
        /\ s.op.do = "retarget" => targets[s.op.key] # Absent /\ targets[s.op.key].rule = s.rule
    BY <1>1 DEF SessOK, OpOK, Integrity
  <2>4. targets \in [TargetKeys -> TargetRow \union {Absent}]
    BY DEF RulesInv, TypeOK
  <2> QED
    BY <1>1, <1>4, <1>5, <1>6, <2>1, <2>2, <2>3, <2>4
<1>7. CASE s.op.do \notin {"target", "retarget"}
  BY <1>1, <1>4, <1>5, <1>7 DEF RulesInv, TypeOK
<1> QED
  BY <1>6, <1>7

\* A commit keeps the invariant.
LEMMA CommitOK ==
    ASSUME RulesInv, NEW t \in Threads, Commit(t)
    PROVE  RulesInv'
<1> DEFINE s == sess[t]
<1>1. /\ SessOK(s, rules, targets) /\ s \in Session /\ s.op \in Ops
      /\ sess' = [sess EXCEPT ![t] = Committed(s)]
      /\ policies' = IF s.op.do = "policy" THEN policies \union {s.op.key} ELSE policies
      /\ storages' = storages
  BY DEF RulesInv, Commit, SessOK, Session
<1>2. /\ rules' \in [RuleKeys -> RuleRow \union {Absent}]
      /\ targets' \in [TargetKeys -> TargetRow \union {Absent}]
      /\ \A k \in RuleKeys : rules[k] # Absent =>
            rules'[k] # Absent /\ rules'[k].policy = rules[k].policy
      /\ \A g \in TargetKeys : targets[g] # Absent =>
            targets'[g] # Absent /\ targets'[g].rule = targets[g].rule
      /\ \A g \in TargetKeys : targets[g] = Absent /\ targets'[g] # Absent =>
            targets'[g].rule = sess[t].rule /\ sess[t].kind = "targets"
  BY CommitWrites
<1>3. SessOK(Committed(s), rules', targets')
  <2>1. OwnerOK(s, rules')
    BY <1>1, <1>2 DEF SessOK, OwnerOK
  <2> QED
    BY <1>1, <2>1, CommittedOK
<1>4. ASSUME NEW u \in Threads PROVE SessOK(sess'[u], rules', targets')
  <2>1. CASE u = t
    BY <1>1, <1>3, <2>1 DEF RulesInv
  <2>2. CASE u # t
    <3>1. sess'[u] = sess[u] /\ SessOK(sess[u], rules, targets)
      BY <1>1, <2>2 DEF RulesInv
    <3>2. \A g \in TargetKeys : sess[u].op.do = "retarget" /\ sess[u].op.key = g =>
             targets'[g] # Absent /\ targets'[g].rule = targets[g].rule
      BY <1>2, <3>1 DEF SessOK, OpOK
    <3>3. SessOK(sess[u], rules', targets')
      BY <1>2, <3>1, <3>2, SessionStays
    <3> QED
      BY <3>1, <3>3
  <2> QED
    BY <2>1, <2>2
<1>5. policies' \subseteq Policies
  <2>1. s.op.do = "policy" => s.op.key \in Policies
    BY <1>1 DEF Ops, NoOp
  <2> QED
    BY <1>1, <2>1 DEF RulesInv, TypeOK
<1>6. \A g \in TargetKeys : targets'[g] # Absent => rules'[targets'[g].rule] # Absent
  <2> SUFFICES ASSUME NEW g \in TargetKeys, targets'[g] # Absent
               PROVE  rules'[targets'[g].rule] # Absent
    OBVIOUS
  <2>1. CASE targets[g] = Absent
    BY <1>1, <1>2, <2>1 DEF SessOK, OwnerOK
  <2>2. CASE targets[g] # Absent
    <3>1. targets[g] \in TargetRow /\ rules[targets[g].rule] # Absent
      BY <2>2 DEF RulesInv, TypeOK
    <3>2. targets[g].rule \in RuleKeys
      BY <3>1 DEF TargetRow
    <3> QED
      BY <1>2, <2>2, <3>1, <3>2
  <2> QED
    BY <2>1, <2>2
<1>7. TypeOK'
  BY <1>1, <1>2, <1>5, <1>6 DEF TypeOK, RulesInv
<1>8. sess' \in [Threads -> Session]
  BY <1>1, <1>3 DEF RulesInv, SessOK
<1> QED
  BY <1>4, <1>7, <1>8 DEF RulesInv

\* A rollback, and an item that is refused.
LEMMA RollbackOK ==
    ASSUME RulesInv, NEW t \in Threads, CommitFails(t) \/ RuleRefused(t)
    PROVE  RulesInv'
<1>1. SessOK(sess[t], rules, targets) /\ sess[t] \in Session /\ OwnerOK(sess[t], rules)
  BY DEF RulesInv, SessOK
<1>2. /\ SessOK(Committed(sess[t]), rules, targets)
      /\ SessOK(Idle, rules, targets)
      /\ SessOK(NextItem(sess[t]), rules, targets)
  BY <1>1, CommittedOK, IdleOK, NextItemOK
<1>3. CASE CommitFails(t)
  BY <1>2, <1>3, OwnStep DEF CommitFails, Continue
<1>4. CASE RuleRefused(t)
  BY <1>2, <1>4, OwnStep DEF RuleRefused, Continue
<1> QED
  BY <1>3, <1>4

\* The deletion of a target takes it from every session that holds it.
LEMMA TargetDeletedOK ==
    ASSUME RulesInv, NEW t \in Threads, NEW g \in TargetKeys, NEW n,
           SessOK(n, rules, targets), n.op = NoOp,
           targets' = [targets EXCEPT ![g] = Absent],
           sess' = WithoutTarget(t, g, n),
           UNCHANGED <<policies, rules, storages>>
    PROVE  RulesInv'
<1>1. /\ targets' \in [TargetKeys -> TargetRow \union {Absent}]
      /\ targets'[g] = Absent
      /\ \A h \in TargetKeys : h # g => targets'[h] = targets[h]
  BY DEF RulesInv, TypeOK
<1>2. TypeOK'
  BY <1>1 DEF RulesInv, TypeOK
<1>3. ASSUME NEW u \in Threads PROVE SessOK(sess'[u], rules, targets')
  <2>1. CASE u = t
    <3>1. sess'[u] = n
      BY <2>1 DEF WithoutTarget
    <3> QED
      BY <3>1 DEF SessOK, OpOK, NoOp
  <2>2. CASE u # t /\ sess[u].op.do = "retarget" /\ sess[u].op.key = g
    <3>1. sess'[u] = Idle
      BY <2>2 DEF WithoutTarget
    <3> QED
      BY <3>1, IdleOK
  <2>3. CASE u # t /\ ~(sess[u].op.do = "retarget" /\ sess[u].op.key = g)
    <3> DEFINE m == [sess[u] EXCEPT !.todo = @ \ {g}]
    <3>1. sess'[u] = m
      BY <2>3 DEF WithoutTarget
    <3>2. SessOK(sess[u], rules, targets)
      BY DEF RulesInv
    <3>3. SessOK(sess[u], rules, targets')
      BY <1>1, <2>3, <3>2, SessionStays DEF SessOK, OpOK
    <3>4. /\ m \in Session
          /\ m.dirty = sess[u].dirty /\ m.failed = sess[u].failed /\ m.op = sess[u].op
          /\ m.kind = sess[u].kind /\ m.rule = sess[u].rule /\ m.policy = sess[u].policy
          /\ m.saw = sess[u].saw /\ m.committing = sess[u].committing
      BY <3>2 DEF SessOK, Session
    <3> HIDE DEF m
    <3> QED
      BY <3>1, <3>3, <3>4 DEF SessOK, DirtyOK, OpOK, OwnerOK
  <2> QED
    BY <2>1, <2>2, <2>3
<1>4. sess' \in [Threads -> Session]
  <2>1. sess' = [u \in Threads |-> sess'[u]]
    BY DEF WithoutTarget
  <2> QED
    BY <1>3, <2>1 DEF SessOK
<1> QED
  BY <1>2, <1>3, <1>4 DEF RulesInv

\* Deletions keep the invariant: a rule goes only when it has no targets.
LEMMA DeletionsOK ==
    ASSUME RulesInv, NEW t \in Threads, NEW p, NEW k, NEW g,
           \/ g \in TargetKeys /\ DeleteTarget(t, p, k, g)
           \/ g \in TargetKeys /\ DeleteRuleTarget(t, g)
           \/ DeleteRuleRow(t)
    PROVE  RulesInv'
<1>1. CASE g \in TargetKeys /\ DeleteTarget(t, p, k, g)
  <2>1. SessOK(Idle, rules, targets) /\ Idle.op = NoOp
    BY IdleOK DEF Idle
  <2> QED
    BY <1>1, <2>1, TargetDeletedOK DEF DeleteTarget
<1>2. CASE g \in TargetKeys /\ DeleteRuleTarget(t, g)
  <2> DEFINE n == [sess[t] EXCEPT !.todo = @ \ {g}]
  <2>1. SessOK(sess[t], rules, targets) /\ sess[t].kind = "delete"
    BY <1>2 DEF RulesInv, DeleteRuleTarget
  <2>2. sess[t].op = NoOp
    BY <2>1 DEF SessOK, OpOK
  <2>3. /\ n \in Session
        /\ n.dirty = sess[t].dirty /\ n.failed = sess[t].failed /\ n.op = NoOp
        /\ n.kind = sess[t].kind /\ n.rule = sess[t].rule /\ n.policy = sess[t].policy
    BY <2>1, <2>2 DEF SessOK, Session
  <2> HIDE DEF n
  <2>4. SessOK(n, rules, targets)
    BY <2>1, <2>3 DEF SessOK, DirtyOK, OpOK, OwnerOK, NoOp
  <2> QED
    BY <1>2, <2>3, <2>4, TargetDeletedOK DEF DeleteRuleTarget, n
<1>3. CASE DeleteRuleRow(t)
  <2>1. SessOK(Idle, rules, targets)
    BY IdleOK
  <2>2. CASE Continue(t, Idle)
    BY <2>1, <2>2, OwnStep DEF Continue
  <2>3. CASE ~Continue(t, Idle)
    <3> DEFINE r == sess[t].rule
    <3>1. /\ ~HasTargets(r)
          /\ rules' = [rules EXCEPT ![r] = Absent]
          /\ sess' = WithoutRule(t, r)
          /\ UNCHANGED <<policies, targets, storages>>
          /\ r \in RuleKeys
      BY <1>3, <2>3 DEF DeleteRuleRow, RulesInv, SessOK, OwnerOK
    <3> HIDE DEF r
    <3>2. /\ rules' \in [RuleKeys -> RuleRow \union {Absent}]
          /\ \A j \in RuleKeys : j # r => rules'[j] = rules[j]
      BY <3>1 DEF RulesInv, TypeOK
    <3>3. TypeOK'
      <4>1. ASSUME NEW h \in TargetKeys, targets[h] # Absent
            PROVE  rules'[targets[h].rule] # Absent
        <5>1. targets[h].rule # r
          BY <3>1, <4>1 DEF HasTargets
        <5>2. targets[h].rule \in RuleKeys /\ rules[targets[h].rule] # Absent
          BY <4>1 DEF RulesInv, TypeOK, TargetRow
        <5> QED
          BY <3>2, <5>1, <5>2
      <4> QED
        BY <3>1, <3>2, <4>1 DEF RulesInv, TypeOK
    <3>4. ASSUME NEW u \in Threads PROVE SessOK(sess'[u], rules', targets)
      <4>1. CASE u = t \/ sess[u].rule = r \/ r \in DOMAIN sess[u].dirty
        <5>1. sess'[u] = Idle
          BY <3>1, <4>1 DEF WithoutRule
        <5> QED
          BY <5>1, IdleOK
      <4>2. CASE ~(u = t \/ sess[u].rule = r \/ r \in DOMAIN sess[u].dirty)
        <5>1. sess'[u] = sess[u] /\ SessOK(sess[u], rules, targets)
          BY <3>1, <4>2 DEF WithoutRule, RulesInv
        <5>2. \A h \in TargetKeys : sess[u].op.do = "retarget" /\ sess[u].op.key = h =>
                 targets[h] # Absent /\ targets[h].rule = targets[h].rule
          BY <5>1 DEF SessOK, OpOK
        <5>3. \A j \in RuleKeys :
                 rules[j] # Absent /\ (j = sess[u].rule \/ j \in DOMAIN sess[u].dirty) =>
                     rules'[j] # Absent
          BY <3>2, <4>2
        <5>4. SessOK(sess[u], rules', targets)
          BY <5>1, <5>2, <5>3, SessionStays
        <5> QED
          BY <5>1, <5>4
      <4> QED
        BY <4>1, <4>2
    <3>5. sess' \in [Threads -> Session]
      <4>1. sess' = [u \in Threads |-> sess'[u]]
        BY <3>1 DEF WithoutRule
      <4> QED
        BY <3>4, <4>1 DEF SessOK
    <3> QED
      BY <3>1, <3>3, <3>4, <3>5 DEF RulesInv
  <2> QED
    BY <2>2, <2>3
<1> QED
  BY <1>1, <1>2, <1>3

\* What the deletion of a storage does to rules: it empties a column.
LEMMA StorageEffect ==
    ASSUME RulesInv, NEW t \in Threads, NEW st \in Storages,
           CreateStorage(t, st) \/ DeleteStorage(t, st)
    PROVE  /\ rules' \in [RuleKeys -> RuleRow \union {Absent}]
           /\ \A k \in RuleKeys : rules[k] = Absent => rules'[k] = Absent
           /\ \A k \in RuleKeys : rules[k] # Absent =>
                 /\ rules'[k] # Absent
                 /\ rules'[k].policy = rules[k].policy
                 /\ rules'[k].action = rules[k].action
           /\ targets' = targets /\ policies' = policies /\ sess' = sess
           /\ storages' \subseteq Storages /\ storages' # storages
<1>1. CASE CreateStorage(t, st)
  BY <1>1 DEF CreateStorage, RulesInv, TypeOK
<1>2. CASE DeleteStorage(t, st)
  <2>1. ASSUME NEW k \in RuleKeys
        PROVE  /\ rules'[k] \in RuleRow \union {Absent}
               /\ rules[k] = Absent => rules'[k] = Absent
               /\ rules[k] # Absent =>
                     /\ rules'[k] # Absent
                     /\ rules'[k].policy = rules[k].policy
                     /\ rules'[k].action = rules[k].action
    <3>1. rules[k] \in RuleRow \union {Absent}
      BY DEF RulesInv, TypeOK
    <3>2. rules'[k] = IF rules[k] # Absent /\ rules[k].stored = st
                      THEN [rules[k] EXCEPT !.stored = NoStorage] ELSE rules[k]
      BY <1>2 DEF DeleteStorage
    <3>3. rules[k] # Absent =>
             /\ [rules[k] EXCEPT !.stored = NoStorage] \in RuleRow
             /\ [rules[k] EXCEPT !.stored = NoStorage].policy = rules[k].policy
             /\ [rules[k] EXCEPT !.stored = NoStorage].action = rules[k].action
      BY <3>1 DEF RuleRow
    <3> QED
      BY <3>1, <3>2, <3>3, AbsentAssumption
  <2>2. rules' = [k \in RuleKeys |-> rules'[k]]
    BY <1>2 DEF DeleteStorage
  <2>3. rules' \in [RuleKeys -> RuleRow \union {Absent}]
    BY <2>1, <2>2
  <2> QED
    BY <1>2, <2>1, <2>3 DEF DeleteStorage, RulesInv, TypeOK
<1> QED
  BY <1>1, <1>2

\* Storages come and go under the sessions.
LEMMA StoragesOK ==
    ASSUME RulesInv, NEW t \in Threads, NEW st \in Storages,
           CreateStorage(t, st) \/ DeleteStorage(t, st)
    PROVE  RulesInv'
<1>1. /\ rules' \in [RuleKeys -> RuleRow \union {Absent}]
      /\ \A k \in RuleKeys : rules[k] # Absent => rules'[k] # Absent
      /\ targets' = targets /\ policies' = policies /\ sess' = sess
      /\ storages' \subseteq Storages
  BY StorageEffect
<1>2. ASSUME NEW u \in Threads PROVE SessOK(sess[u], rules', targets)
  <2>1. SessOK(sess[u], rules, targets)
    BY DEF RulesInv
  <2>2. \A g \in TargetKeys : sess[u].op.do = "retarget" /\ sess[u].op.key = g =>
           targets[g] # Absent /\ targets[g].rule = targets[g].rule
    BY <2>1 DEF SessOK, OpOK
  <2> QED
    BY <1>1, <2>1, <2>2, SessionStays
<1>3. TypeOK'
  BY <1>1 DEF RulesInv, TypeOK, TargetRow
<1> QED
  BY <1>1, <1>2, <1>3 DEF RulesInv

-----------------------------------------------------------------------------
\* The invariant

LEMMA InitRulesInv == Init => RulesInv
<1> SUFFICES ASSUME Init PROVE RulesInv
  OBVIOUS
<1>1. TypeOK
  BY DEF Init, Consistent, TypeOK
<1>2. \A t \in Threads : sess[t] = Idle
  BY DEF Init
<1>3. \A t \in Threads : SessOK(sess[t], rules, targets)
  BY <1>2, IdleOK
<1>4. sess \in [Threads -> Session]
  BY <1>2, <1>3 DEF SessOK, Init
<1> QED
  BY <1>1, <1>3, <1>4 DEF RulesInv

\* Every step of a thread is one of these.
LEMMA ServeCases ==
    ASSUME NEW t \in Threads, Serve(t)
    PROVE  \/ PatchPolicies(t)
           \/ \E p \in Policies : PatchRules(t, p)
           \/ \E p \in Policies : PolicyItem(t, p)
           \/ \E p \in Policies, k \in RuleKeys : PatchTargets(t, p, k) \/ DeleteRule(t, p, k)
           \/ \E p \in Policies, k \in RuleKeys, g \in TargetKeys : DeleteTarget(t, p, k, g)
           \/ RuleRefused(t) \/ CommitFails(t)
           \/ \E k \in RuleKeys : RuleItem(t, k)
           \/ \E g \in TargetKeys : TargetKeyRefused(t, g)
           \/ \E g \in TargetKeys, c \in Categories :
                 TargetConflicts(t, g, c) \/ TargetCreated(t, g, c) \/ TargetUpdated(t, g, c)
           \/ \E g \in TargetKeys : DeleteRuleTarget(t, g)
           \/ DeleteRuleRow(t)
           \/ \E s \in Storages : CreateStorage(t, s) \/ DeleteStorage(t, s)
           \/ Commit(t)
BY DEF Serve

LEMMA NextRulesInv == RulesInv /\ [Next]_vars => RulesInv'
<1> SUFFICES ASSUME RulesInv, [Next]_vars PROVE RulesInv'
  OBVIOUS
<1>1. CASE UNCHANGED vars
  BY <1>1 DEF vars, RulesInv, TypeOK
<1>2. ASSUME NEW t \in Threads, Serve(t) PROVE RulesInv'
  <2>1. CASE \/ PatchPolicies(t) \/ \E p \in Policies : PatchRules(t, p)
             \/ \E p \in Policies, k \in RuleKeys : PatchTargets(t, p, k) \/ DeleteRule(t, p, k)
    BY <2>1, BeginsOK
  <2>2. CASE \E p \in Policies : PolicyItem(t, p)
    BY <2>2, PolicyItemsOK
  <2>3. CASE \/ \E p \in Policies, k \in RuleKeys, g \in TargetKeys : DeleteTarget(t, p, k, g)
             \/ \E g \in TargetKeys : DeleteRuleTarget(t, g)
             \/ DeleteRuleRow(t)
    BY <2>3, DeletionsOK
  <2>4. CASE RuleRefused(t) \/ CommitFails(t)
    BY <2>4, RollbackOK
  <2>5. CASE \E k \in RuleKeys : RuleItem(t, k)
    BY <2>5, RuleItemsOK
  <2>6. CASE \/ \E g \in TargetKeys : TargetKeyRefused(t, g)
             \/ \E g \in TargetKeys, c \in Categories :
                   TargetConflicts(t, g, c) \/ TargetCreated(t, g, c) \/ TargetUpdated(t, g, c)
    BY <2>6, TargetItemsOK
  <2>7. CASE \E st \in Storages : CreateStorage(t, st) \/ DeleteStorage(t, st)
    BY <2>7, StoragesOK
  <2>8. CASE Commit(t)
    BY <2>8, CommitOK
  <2> QED
    BY <1>2, <2>1, <2>2, <2>3, <2>4, <2>5, <2>6, <2>7, <2>8, ServeCases
<1> QED
  BY <1>1, <1>2 DEF Next

LEMMA RulesInvAlways == Spec => []RulesInv
BY InitRulesInv, NextRulesInv, PTL DEF Spec

\* No target is ever left without its rule, although Rule.delete commits the deletion
\* of each target on its own and other calls add targets in between: TypeOK holds for
\* any number of calls that overlap in any way.
THEOREM TargetsKeepTheirRule == Spec => []TypeOK
<1>1. RulesInv => TypeOK
  BY DEF RulesInv
<1> QED
  BY <1>1, RulesInvAlways, PTL

-----------------------------------------------------------------------------
\* What steps do to the database

\* The steps that write rules or targets.
LEMMA Writers ==
    ASSUME RulesInv, NEW t \in Threads, Serve(t)
    PROVE  \/ UNCHANGED <<rules, targets, storages>>
           \/ \E g \in TargetKeys : targets' = [targets EXCEPT ![g] = Absent] /\ rules' = rules
           \/ \E k \in RuleKeys : rules' = [rules EXCEPT ![k] = Absent] /\ targets' = targets
           \/ \E st \in Storages : CreateStorage(t, st) \/ DeleteStorage(t, st)
           \/ Commit(t)
<1>1. CASE \/ PatchPolicies(t) \/ \E p \in Policies : PatchRules(t, p)
           \/ \E p \in Policies, k \in RuleKeys : PatchTargets(t, p, k) \/ DeleteRule(t, p, k)
  BY <1>1 DEF PatchPolicies, PatchRules, PatchTargets, DeleteRule, Begin
<1>2. CASE \/ \E p \in Policies : PolicyItem(t, p)
           \/ RuleRefused(t) \/ CommitFails(t)
  BY <1>2 DEF PolicyItem, RuleRefused, CommitFails, Continue
<1>3. CASE \E k \in RuleKeys : RuleItem(t, k)
  BY <1>3 DEF RuleItem, RuleCreated, RuleUpdated, RuleUpdateInvalid, Continue
<1>4. CASE \/ \E g \in TargetKeys : TargetKeyRefused(t, g)
           \/ \E g \in TargetKeys, c \in Categories :
                 TargetConflicts(t, g, c) \/ TargetCreated(t, g, c) \/ TargetUpdated(t, g, c)
  BY <1>4 DEF TargetKeyRefused, TargetConflicts, TargetCreated, TargetUpdated, Continue
<1>5. CASE \/ \E p \in Policies, k \in RuleKeys, g \in TargetKeys : DeleteTarget(t, p, k, g)
           \/ \E g \in TargetKeys : DeleteRuleTarget(t, g)
  BY <1>5 DEF DeleteTarget, DeleteRuleTarget
<1>6. CASE DeleteRuleRow(t)
  <2>1. sess[t].rule \in RuleKeys
    BY <1>6 DEF DeleteRuleRow, RulesInv, SessOK, OwnerOK
  <2> QED
    BY <1>6, <2>1 DEF DeleteRuleRow, Continue
<1>7. CASE Commit(t) \/ \E st \in Storages : CreateStorage(t, st) \/ DeleteStorage(t, st)
  BY <1>7
<1> QED
  BY <1>1, <1>2, <1>3, <1>4, <1>5, <1>6, <1>7, ServeCases

\* A rule stays with its policy and a target with its rule, whatever calls do at the
\* same time: no commit moves a row, because an update carries the owner it has loaded
\* and no other call can have changed that (OwnersStay).
THEOREM OwnersAlwaysStay == Spec => OwnersStay
<1> DEFINE Stays == /\ \A k \in RuleKeys : rules[k] # Absent /\ rules'[k] # Absent =>
                          rules'[k].policy = rules[k].policy
                    /\ \A g \in TargetKeys : targets[g] # Absent /\ targets'[g] # Absent =>
                          targets'[g].rule = targets[g].rule
<1>1. RulesInv /\ [Next]_vars => [Stays]_vars
  <2> SUFFICES ASSUME RulesInv, NEW t \in Threads, Serve(t) PROVE Stays
    BY DEF Next
  <2>0. /\ rules \in [RuleKeys -> RuleRow \union {Absent}]
        /\ targets \in [TargetKeys -> TargetRow \union {Absent}]
    BY DEF RulesInv, TypeOK
  <2>1. CASE UNCHANGED <<rules, targets, storages>>
    BY <2>1
  <2>2. CASE \E g \in TargetKeys : targets' = [targets EXCEPT ![g] = Absent] /\ rules' = rules
    BY <2>0, <2>2
  <2>3. CASE \E k \in RuleKeys : rules' = [rules EXCEPT ![k] = Absent] /\ targets' = targets
    BY <2>0, <2>3
  <2>4. CASE \E st \in Storages : CreateStorage(t, st) \/ DeleteStorage(t, st)
    BY <2>4, StorageEffect
  <2>5. CASE Commit(t)
    BY <2>5, CommitWrites
  <2> QED
    BY <2>1, <2>2, <2>3, <2>4, <2>5, Writers
<1>2. Spec => [][Stays]_vars
  BY <1>1, RulesInvAlways, PTL DEF Spec
<1> QED
  BY <1>2 DEF OwnersStay

\* A commit makes a rule invalid only with a row that was reported as failed, or that
\* another call has changed since it was loaded.
LEMMA CommitInvalid ==
    ASSUME RulesInv, NEW t \in Threads, Commit(t), NEW k \in RuleKeys,
           Invalid(rules'[k]), ~Invalid(rules[k])
    PROVE  k \in DOMAIN sess[t].dirty /\ (k \in sess[t].failed \/ sess[t].dirty[k].base # rules[k])
<1> DEFINE s == sess[t]
<1>1. /\ SessOK(s, rules, targets) /\ s \in Session /\ s.op \in Ops
      /\ Integrity(s) /\ rules' = Flushed(s)
  BY DEF RulesInv, Commit, SessOK, Session
<1>2. PICK D \in SUBSET RuleKeys : s.dirty \in [D -> Change]
  BY <1>1 DEF Session, Dirties
<1>3. rules'[k] = IF k \in DOMAIN s.dirty THEN Merged(rules[k], s.dirty[k])
                  ELSE IF s.op.do = "rule" /\ s.op.key = k THEN s.op.row
                  ELSE rules[k]
  BY <1>1 DEF Flushed
<1>4. CASE k \notin DOMAIN s.dirty
  <2>1. rules'[k] = s.op.row /\ s.op.do = "rule"
    BY <1>3, <1>4
  <2>2. ValidateRule(s.op.row)
    BY <1>1, <2>1 DEF SessOK, OpOK
  <2> QED
    BY <2>1, <2>2 DEF ValidateRule, Invalid
<1>5. CASE k \in DOMAIN s.dirty /\ k \notin s.failed /\ s.dirty[k].base = rules[k]
  <2> DEFINE d == s.dirty[k]
  <2>1. d \in Change /\ ValidateRule(d.row)
    BY <1>1, <1>2, <1>5 DEF SessOK, DirtyOK
  <2>2. d.base = rules[k] /\ d.base \in RuleRow /\ d.row \in RuleRow
    BY <1>5, <2>1 DEF Change
  <2> HIDE DEF d
  <2>3. /\ Merged(rules[k], d).action = d.row.action
        /\ Merged(rules[k], d).stored = d.row.stored
        /\ Merged(rules[k], d).masked = d.row.masked
    BY <2>2 DEF Merged, RuleRow
  <2>4. rules'[k] = Merged(rules[k], d)
    BY <1>3, <1>5 DEF d
  <2> QED
    BY <2>1, <2>3, <2>4 DEF ValidateRule, Invalid
<1> QED
  BY <1>4, <1>5

\* An invalid rule gets into the database only in the ways that InvalidHasCause names:
\* Rule.save and Rule.create keep every other path closed, for any calls.
THEOREM InvalidAlwaysHasCause == Spec => InvalidHasCause
<1> DEFINE Cause(k) == \/ \E t \in Threads : /\ Commit(t)
                                             /\ k \in DOMAIN sess[t].dirty
                                             /\ \/ k \in sess[t].failed
                                                \/ sess[t].dirty[k].base # rules[k]
                       \/ storages' # storages
           Caused == \A k \in RuleKeys : Invalid(rules'[k]) /\ ~Invalid(rules[k]) => Cause(k)
<1>1. RulesInv /\ [Next]_vars => [Caused]_vars
  <2> SUFFICES ASSUME RulesInv, NEW t \in Threads, Serve(t), NEW k \in RuleKeys,
                      Invalid(rules'[k]), ~Invalid(rules[k])
               PROVE  Cause(k)
    BY DEF Next
  <2>1. CASE rules' = rules
    BY <2>1
  <2>2. CASE \E j \in RuleKeys : rules' = [rules EXCEPT ![j] = Absent] /\ targets' = targets
    <3>1. rules'[k] \in {rules[k], Absent}
      BY <2>2 DEF RulesInv, TypeOK
    <3> QED
      BY <3>1 DEF Invalid
  <2>3. CASE \E st \in Storages : CreateStorage(t, st) \/ DeleteStorage(t, st)
    BY <2>3, StorageEffect
  <2>4. CASE Commit(t)
    BY <2>4, CommitInvalid
  <2> QED
    BY <2>1, <2>2, <2>3, <2>4, Writers
<1>2. Spec => [][Caused]_vars
  BY <1>1, RulesInvAlways, PTL DEF Spec
<1> QED
  BY <1>2 DEF InvalidHasCause

-----------------------------------------------------------------------------
\* Erasure targets that overlap

\* Target h is an erasure target of policy p, over rules R and targets T.
Erases(h, p, R, T) ==
    /\ T[h] # Absent
    /\ R[T[h].rule] # Absent
    /\ R[T[h].rule].policy = p
    /\ R[T[h].rule].action = "erasure"

\* Where no erasure target comes in, none comes to overlap another.
LEMMA NoNewConflict ==
    ASSUME NEW p, ~Conflicting(p),
           \A h \in TargetKeys : Erases(h, p, rules', targets') =>
               Erases(h, p, rules, targets) /\ targets'[h] = targets[h]
    PROVE  ~Conflicting(p)'
<1>1. \A h \in ErasureTargets(p)' : h \in ErasureTargets(p) /\ targets'[h] = targets[h]
  BY DEF ErasureTargets, Erases
<1> QED
  BY <1>1 DEF Conflicting

\* A commit of a new target makes no conflict when the check saw what is there and
\* the policy does not mask the category already.
LEMMA CheckedTarget ==
    ASSUME RulesInv, NEW t \in Threads, Commit(t), sess[t].op.do = "target",
           sess[t].dirty = NoRows, NEW p \in Policies, ~Conflicting(p),
           sess[t].op.row.category \notin ErasureCategories(p),
           sess[t].saw.action = rules[sess[t].rule].action,
           sess[t].saw.cats = ErasureCategories(p)
    PROVE  ~Conflicting(p)'
<1> DEFINE s == sess[t]
           c == s.op.row.category
<1>1. SessOK(s, rules, targets) /\ s.op \in Ops
  BY DEF RulesInv, SessOK, Session
<1>2. s.op.key \in TargetKeys /\ s.op.row \in TargetRow /\ s.op.row.rule = s.rule
  BY <1>1 DEF Ops, NoOp, SessOK, OpOK
<1>3. targets' = [targets EXCEPT ![s.op.key] = s.op.row]
  BY DEF Commit
<1>4. rules' = rules
  <2>1. rules' = [k \in RuleKeys |-> rules[k]]
    BY DEF Commit, Flushed, NoRows
  <2> QED
    BY <2>1 DEF RulesInv, TypeOK
<1>5. /\ targets'[s.op.key] = s.op.row
      /\ \A h \in TargetKeys \ {s.op.key} : targets'[h] = targets[h]
  BY <1>2, <1>3 DEF RulesInv, TypeOK
<1>6. \A h \in ErasureTargets(p)' \ {s.op.key} :
          h \in ErasureTargets(p) /\ targets[h].category \in ErasureCategories(p)
  <2> SUFFICES ASSUME NEW h \in ErasureTargets(p)', h # s.op.key
               PROVE  h \in ErasureTargets(p) /\ targets[h].category \in ErasureCategories(p)
    OBVIOUS
  <2>1. h \in TargetKeys /\ targets'[h] = targets[h]
    BY <1>5 DEF ErasureTargets
  <2>2. h \in ErasureTargets(p)
    BY <1>4, <2>1 DEF ErasureTargets
  <2> QED
    BY <2>2 DEF ErasureCategories
<1>7. CASE s.saw.action = "erasure"
  <2>1. ValidateTargets(c, ErasureCategories(p))
    BY <1>1, <1>7 DEF SessOK, OpOK
  <2> SUFFICES ASSUME NEW g \in ErasureTargets(p)', NEW h \in ErasureTargets(p)', g # h,
                      \/ targets'[g].category = targets'[h].category
                      \/ targets'[g].category \in Ancestors[targets'[h].category]
               PROVE  FALSE
    BY DEF Conflicting
  <2>2. CASE g # s.op.key /\ h # s.op.key
    <3>1. /\ g \in ErasureTargets(p) /\ h \in ErasureTargets(p)
          /\ targets'[g] = targets[g] /\ targets'[h] = targets[h]
      BY <1>5, <1>6, <2>2 DEF ErasureTargets
    <3> QED
      BY <3>1 DEF Conflicting
  <2>3. CASE g = s.op.key
    <3>1. targets'[g].category = c /\ targets'[h].category \in ErasureCategories(p)
      BY <1>5, <1>6, <2>3 DEF ErasureTargets
    <3> QED
      BY <2>1, <3>1 DEF ValidateTargets
  <2>4. CASE h = s.op.key
    <3>1. targets'[h].category = c /\ targets'[g].category \in ErasureCategories(p)
      BY <1>5, <1>6, <2>4 DEF ErasureTargets
    <3> QED
      BY <2>1, <3>1 DEF ValidateTargets
  <2> QED
    BY <2>2, <2>3, <2>4
<1>8. CASE s.saw.action # "erasure"
  <2>1. ASSUME NEW h \in TargetKeys, Erases(h, p, rules', targets')
        PROVE  Erases(h, p, rules, targets) /\ targets'[h] = targets[h]
    <3>1. h # s.op.key
      BY <1>2, <1>4, <1>5, <1>8, <2>1 DEF Erases, RulesInv, TypeOK
    <3>2. targets'[h] = targets[h]
      BY <1>5, <3>1
    <3> QED
      BY <1>4, <2>1, <3>2 DEF Erases
  <2> QED
    BY <2>1, NoNewConflict
<1> QED
  BY <1>7, <1>8

\* Neither does a commit that writes no target and updates no rule: a rule that is
\* new has no targets.
LEMMA OtherCommit ==
    ASSUME RulesInv, NEW t \in Threads, Commit(t),
           sess[t].op.do \notin {"target", "retarget"}, sess[t].dirty = NoRows,
           NEW p \in Policies, ~Conflicting(p)
    PROVE  ~Conflicting(p)'
<1> DEFINE s == sess[t]
<1>1. targets' = targets
  BY DEF Commit
<1>2. ASSUME NEW k \in RuleKeys, rules[k] # Absent PROVE rules'[k] = rules[k]
  <2>1. rules'[k] = IF s.op.do = "rule" /\ s.op.key = k THEN s.op.row ELSE rules[k]
    BY DEF Commit, Flushed, NoRows
  <2>2. s.op.do = "rule" /\ s.op.key = k => rules[k] = Absent
    BY DEF Commit, Integrity
  <2> QED
    BY <1>2, <2>1, <2>2
<1>3. ASSUME NEW h \in TargetKeys, Erases(h, p, rules', targets')
      PROVE  Erases(h, p, rules, targets) /\ targets'[h] = targets[h]
  <2>1. targets[h] # Absent /\ targets[h] \in TargetRow /\ rules[targets[h].rule] # Absent
    BY <1>1, <1>3 DEF Erases, RulesInv, TypeOK
  <2>2. targets[h].rule \in RuleKeys
    BY <2>1 DEF TargetRow
  <2> QED
    BY <1>1, <1>2, <1>3, <2>1, <2>2 DEF Erases
<1> QED
  BY <1>3, NoNewConflict

\* The erasure targets of a policy come to overlap only in the ways that
\* ConflictHasCause names: a deletion of rules, targets or storages, a new rule, and a
\* target of a category that the policy does not mask yet, checked against what its
\* commit meets, never make them overlap.
THEOREM ConflictAlwaysHasCause == Spec => ConflictHasCause
<1> DEFINE Cause(p) == \E t \in Threads :
                          /\ Commit(t)
                          /\ \/ sess[t].op.do = "retarget"
                             \/ sess[t].dirty # NoRows
                             \/ /\ sess[t].op.do = "target"
                                /\ sess[t].op.row.category \in ErasureCategories(p)
                             \/ sess[t].saw.action # rules[sess[t].rule].action
                             \/ sess[t].saw.cats # ErasureCategories(p)
           Caused == \A p \in Policies : Conflicting(p)' /\ ~Conflicting(p) => Cause(p)
<1>1. RulesInv /\ [Next]_vars => [Caused]_vars
  <2> SUFFICES ASSUME RulesInv, NEW t \in Threads, Serve(t), NEW p \in Policies,
                      ~Conflicting(p), Conflicting(p)'
               PROVE  Cause(p)
    BY DEF Next
  <2>0. /\ rules \in [RuleKeys -> RuleRow \union {Absent}]
        /\ targets \in [TargetKeys -> TargetRow \union {Absent}]
        /\ \A h \in TargetKeys : targets[h] # Absent => targets[h].rule \in RuleKeys
    BY DEF RulesInv, TypeOK, TargetRow
  <2>1. CASE UNCHANGED <<rules, targets, storages>>
    BY <2>1, NoNewConflict DEF Erases
  <2>2. CASE \E g \in TargetKeys : targets' = [targets EXCEPT ![g] = Absent] /\ rules' = rules
    <3>1. \A h \in TargetKeys : targets'[h] # Absent => targets'[h] = targets[h]
      BY <2>0, <2>2
    <3> QED
      BY <2>2, <3>1, NoNewConflict DEF Erases
  <2>3. CASE \E k \in RuleKeys : rules' = [rules EXCEPT ![k] = Absent] /\ targets' = targets
    <3>1. \A k \in RuleKeys : rules'[k] # Absent => rules'[k] = rules[k]
      BY <2>0, <2>3
    <3> QED
      BY <2>0, <2>3, <3>1, NoNewConflict DEF Erases
  <2>4. CASE \E st \in Storages : CreateStorage(t, st) \/ DeleteStorage(t, st)
    <3>1. /\ targets' = targets
          /\ \A k \in RuleKeys : rules[k] = Absent => rules'[k] = Absent
          /\ \A k \in RuleKeys : rules[k] # Absent =>
                rules'[k].policy = rules[k].policy /\ rules'[k].action = rules[k].action
      BY <2>4, StorageEffect
    <3> QED
      BY <2>0, <3>1, NoNewConflict DEF Erases
  <2>5. CASE Commit(t)
    <3> SUFFICES ASSUME ~Cause(p) PROVE FALSE
      OBVIOUS
    <3>1. /\ sess[t].op.do # "retarget" /\ sess[t].dirty = NoRows
          /\ sess[t].op.do = "target" => sess[t].op.row.category \notin ErasureCategories(p)
          /\ sess[t].saw.action = rules[sess[t].rule].action
          /\ sess[t].saw.cats = ErasureCategories(p)
      BY <2>5
    <3> QED
      BY <2>5, <3>1, CheckedTarget, OtherCommit
  <2> QED
    BY <2>1, <2>2, <2>3, <2>4, <2>5, Writers
<1>2. Spec => [][Caused]_vars
  BY <1>1, RulesInvAlways, PTL DEF Spec
<1> QED
  BY <1>2 DEF ConflictHasCause
===============================================================================
