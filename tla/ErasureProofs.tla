----------------------------- MODULE ErasureProofs -----------------------------
(***************************************************************************)
(* Proofs about Erasure, for every set of rows, every case and every       *)
(* number of attempts: an erasure changes only what was found and targeted *)
(* (OnlyFoundErased), and when it is done all of that is masked            *)
(* (AllFoundErased).                                                       *)
(*                                                                         *)
(* The two need each other's ground: that the statement for a row with a   *)
(* key of its own meets no other row has to hold after keys have been      *)
(* masked as well, so the invariant says what a changed value can be       *)
(* (Traces); and a row that an update for another one has met must either  *)
(* be masked already or still have the key that its own update looks for   *)
(* (Reached).                                                              *)
(***************************************************************************)
EXTENDS Erasure, TLAPS

-----------------------------------------------------------------------------
\* The invariant

\* Where an erasure is, and what it keeps of its access.
Course ==
    /\ case \in Cases
    /\ phase \in {"access", "erasure", "done", "failed"}
    /\ attempts \in Nat
    /\ DOMAIN rows = Ids
    /\ \A i \in Ids : DOMAIN rows[i] = DOMAIN case.rows[i]
    /\ DOMAIN cached \subseteq Ids
    /\ DOMAIN plan = DOMAIN cached
    /\ todo \subseteq DOMAIN cached
    /\ todo # {} => phase = "erasure" /\ attempts > 0
    /\ attempts > 0 => case.keys # {}
    /\ phase = "access" => rows = case.rows /\ cached = Nothing /\ attempts = 0

\* The copies and the plans are those of the rows as they were before anything was
\* erased.
Kept ==
    /\ \A i \in DOMAIN cached : IsCopy(case.rows[i], cached[i]) /\ IsPlan(cached[i], plan[i])
    /\ case.store # "mongo" =>
          \A i, j \in DOMAIN cached : Places(plan[i]) = Places(plan[j])

\* Every value is as it was, null or masked.
Traces ==
    \A i \in Ids : \A p \in DOMAIN case.rows[i] :
        rows[i][p] = case.rows[i][p] \/ rows[i][p] \in {Null, Masked}

\* Rows that were not found are as they were, and of those found all but the
\* positions of their plans.
OnlyPlanned ==
    (\A i \in DOMAIN cached : KeyTells(i)) =>
        \A i \in Ids :
            /\ i \notin DOMAIN cached => rows[i] = case.rows[i]
            /\ i \in DOMAIN cached => \A p \in DOMAIN case.rows[i] :
                  rows[i][p] # case.rows[i][p] => p \in Places(plan[i])

\* The statement for this row still meets it.
Intact(i) == \A k \in case.keys : rows[i][k] = case.rows[i][k]

\* What is planned for this row is done.
Erased(i) ==
    \A u \in plan[i] : \/ rows[i][u.at] \in {Null, Masked}
                       \/ case.store = "sql" /\ u.at \in case.keys

\* The row is met or masked, and masked once this attempt is past it.
Reached(i) ==
    /\ Intact(i) \/ Erased(i)
    /\ attempts > 0 /\ phase # "failed" /\ i \notin todo => Erased(i)

AllReached ==
    KeysApart => \A i \in DOMAIN cached : KeyTells(i) => Reached(i)

EraseInv == Course /\ Kept /\ Traces /\ OnlyPlanned /\ AllReached

-----------------------------------------------------------------------------
\* What does not depend on the course of an erasure

\* Keys tell rows apart, or do not, once and for all.
LEMMA KeysStay ==
    ASSUME case' = case, NEW i
    PROVE  /\ KeyTells(i)' <=> KeyTells(i)
           /\ KeysApart' <=> KeysApart
           /\ IsCopy(case.rows[i], cached[i])' <=> IsCopy(case.rows[i], cached'[i])
           /\ IsPlan(cached[i], plan[i])' <=> IsPlan(cached'[i], plan'[i])
  <1>1. KeyTells(i)' <=> KeyTells(i)
    BY DEF KeyTells, Where
  <1>2. KeysApart' <=> KeysApart
    BY DEF KeysApart, Targets, TargetPaths
  <1>3. IsCopy(case.rows[i], cached[i])' <=> IsCopy(case.rows[i], cached'[i])
    BY DEF IsCopy
  <1>4. IsPlan(cached[i], plan[i])' <=> IsPlan(cached'[i], plan'[i])
    BY DEF IsPlan, TargetPaths, Supported
  <1> QED BY <1>1, <1>2, <1>3, <1>4

\* What an update assigns is a mask or null, at the positions of the plan.
LEMMA UpdateMasks ==
    ASSUME Course, Kept, NEW i \in DOMAIN cached, ~MaskRaises(i), NEW target
    PROVE  /\ DOMAIN Update(target, i) = DOMAIN target
           /\ \A p \in DOMAIN target :
                 /\ p \in Places(Assigned(i)) => Update(target, i)[p] \in {Null, Masked}
                 /\ p \notin Places(Assigned(i)) => Update(target, i)[p] = target[p]
  <1>1. ASSUME NEW u \in plan[i]
        PROVE  MaskedValue(i, u) \in {Null, Masked}
    <2>1. u.rule \in case.rules /\ Supported(u.path, u.rule)
      BY <1>1 DEF Kept, IsPlan
    <2>2. u.rule.strategy \in {"null", "rewrite", "random", "hash", "hmac", "aes"}
      BY <2>1, CasesAssumption DEF Course, Supported
    <2>3. MaskedValue(i, u) # Raised
      BY <1>1 DEF MaskRaises
    <2>4. Strategy(u.rule.strategy, cached[i][u.at]) \in {Null, Masked, Raised}
      BY <2>2 DEF Strategy, NullRewrite, StringRewrite, RandomStringRewrite, Hash, Hmac, AesEncrypt
    <2> QED BY <2>3, <2>4 DEF MaskedValue
  <1>2. ASSUME NEW p \in DOMAIN target, p \in Places(Assigned(i))
        PROVE  Update(target, i)[p] \in {Null, Masked}
    <2> DEFINE u == CHOOSE w \in Assigned(i) : w.at = p
    <2>1. u \in Assigned(i)
      BY <1>2 DEF Places
    <2>2. u \in plan[i]
      BY <2>1 DEF Assigned
    <2>3. Update(target, i)[p] = MaskedValue(i, u)
      BY <1>2 DEF Update
    <2> QED BY <1>1, <2>2, <2>3
  <1> QED BY <1>2 DEF Update

\* The positions that are assigned to are planned, all of them but parts of keys.
LEMMA AssignedIsPlanned ==
    ASSUME NEW i
    PROVE  /\ Places(Assigned(i)) \subseteq Places(plan[i])
           /\ \A u \in plan[i] : \/ u.at \in Places(Assigned(i))
                                 \/ case.store = "sql" /\ u.at \in case.keys
  BY DEF Places, Assigned, Where

\* What is planned for a row is at positions of the row, targeted, and without a
\* placeholder.
LEMMA PlannedIsTargeted ==
    ASSUME Course, Kept, NEW i \in DOMAIN cached, NEW u \in plan[i]
    PROVE  /\ u.at \in DOMAIN case.rows[i]
           /\ cached[i][u.at] # DoNotMask
           /\ \E path \in Targets : LeadsTo(path, u.at)
  <1>1. /\ u.rule \in case.rules
        /\ u.path \in TargetPaths(u.rule)
        /\ Supported(u.path, u.rule)
        /\ LeadsTo(u.path, u.at)
        /\ u.at \in DOMAIN cached[i]
        /\ cached[i][u.at] # DoNotMask
    BY DEF Kept, IsPlan
  <1>2. u.at \in DOMAIN case.rows[i]
    BY <1>1 DEF Kept, IsCopy
  <1>3. u.rule.strategy # "absent"
    BY <1>1 DEF Supported
  <1>4. u.path \in Targets
    BY <1>1, <1>3 DEF Targets
  <1> QED BY <1>1, <1>2, <1>4

\* The conditions of a statement are the parts of the key that are not empty, as the
\* store had them.
LEMMA Conditions ==
    ASSUME Course, Kept, NEW i \in DOMAIN cached
    PROVE  /\ Where(cached[i]) = Where(case.rows[i])
           /\ Where(cached[i]) \subseteq case.keys
           /\ \A k \in case.keys : cached[i][k] = case.rows[i][k]
  <1>1. \A k \in case.keys : cached[i][k] = case.rows[i][k]
    BY DEF Kept, IsCopy
  <1> QED BY <1>1 DEF Where

\* The statement for a row whose key tells it apart meets no other row, before and
\* after rows have been masked: no key is a mask, and empty keys tell nothing.
LEMMA MeetsNoOther ==
    ASSUME Course, Kept, Traces, NEW i \in DOMAIN cached, KeyTells(i)
    PROVE  Hit(cached[i]) \subseteq {i}
  <1> SUFFICES ASSUME NEW j \in Hit(cached[i]), j # i
               PROVE  FALSE
    OBVIOUS
  <1>1. j \in Ids /\ i \in Ids /\ case \in Cases
    BY DEF Hit, Course
  <1>2. PICK k \in case.keys : case.rows[i][k] # case.rows[j][k]
    BY <1>1 DEF KeyTells
  <1>3. k \in Where(case.rows[i]) /\ case.rows[i][k] \notin {Null, 0}
    BY DEF KeyTells, Where
  <1>4. rows[j][k] = case.rows[i][k]
    BY <1>3, Conditions DEF Hit
  <1>5. k \in DOMAIN case.rows[j] /\ case.rows[i][k] # Masked
    BY <1>1, CasesAssumption
  <1>6. rows[j][k] \in {Null, Masked}
    BY <1>1, <1>2, <1>4, <1>5 DEF Traces
  <1> QED BY <1>3, <1>4, <1>5, <1>6

-----------------------------------------------------------------------------
\* One row is masked

\* What mask_data does for a row: the update of some of the rows that its statement
\* meets; of all of them in tables, of one if there is one in document stores.
Masking(i, met) ==
    /\ met \subseteq Hit(cached[i])
    /\ DOMAIN rows' = Ids
    /\ \A j \in Ids : /\ j \in met => rows'[j] = Update(rows[j], i)
                      /\ j \notin met => rows'[j] = rows[j]
    /\ met # {} => Where(cached[i]) # {}
    /\ Where(cached[i]) # {} /\ plan[i] # {} /\ Hit(cached[i]) # {} => met # {}

LEMMA MaskRowMasks ==
    ASSUME Course, NEW i \in Ids, MaskRow(i)
    PROVE  \E met : Masking(i, met)
  <1>1. Hit(cached[i]) \subseteq Ids /\ DOMAIN rows = Ids
    BY DEF Hit, Course
  <1>2. CASE ~Statement(i) \/ Hit(cached[i]) = {}
    <2>1. rows' = rows
      BY <1>2 DEF MaskRow
    <2>2. case.store \in {"sql", "bigquery", "mongo"}
      BY CasesAssumption DEF Course
    <2>3. ~Statement(i) => Where(cached[i]) = {} \/ plan[i] = {}
      BY <2>2 DEF Statement, SqlStatement, MongoStatement, BigQueryStatement
    <2>4. Masking(i, {})
      BY <1>1, <1>2, <2>1, <2>3 DEF Masking
    <2> QED BY <2>4
  <1>3. CASE Statement(i) /\ Hit(cached[i]) # {}
    <2>1. Where(cached[i]) # {}
      <3>1. case.store \in {"sql", "bigquery", "mongo"}
        BY CasesAssumption DEF Course
      <3> QED BY <1>3, <3>1 DEF Statement, SqlStatement, MongoStatement, BigQueryStatement
    <2>2. CASE case.store = "mongo"
      <3>1. PICK j \in Hit(cached[i]) : rows' = [rows EXCEPT ![j] = Update(rows[j], i)]
        BY <1>3, <2>2 DEF MaskRow, MongoMask
      <3>2. Masking(i, {j})
        BY <1>1, <2>1, <3>1 DEF Masking
      <3> QED BY <3>2
    <2>3. CASE case.store # "mongo"
      <3>1. rows' = [j \in Ids |-> IF j \in Hit(cached[i]) THEN Update(rows[j], i) ELSE rows[j]]
        BY <1>3, <2>3 DEF MaskRow, SqlMask
      <3>2. Masking(i, Hit(cached[i]))
        BY <1>1, <2>1, <3>1 DEF Masking
      <3> QED BY <3>2
    <2> QED BY <2>2, <2>3
  <1> QED BY <1>2, <1>3

\* A row is masked, in a state of the invariant.
MaskingStep(i, met) ==
    /\ Course /\ Kept /\ Traces
    /\ i \in todo
    /\ ~MaskRaises(i)
    /\ Masking(i, met)
    /\ UNCHANGED <<case, cached, plan>>

\* A value is as before, unless its row is met and it is assigned to; then it is a
\* mask or null.
LEMMA MaskingValues ==
    ASSUME NEW i, NEW met, MaskingStep(i, met), NEW j \in Ids
    PROVE  /\ DOMAIN rows'[j] = DOMAIN case.rows[j]
           /\ j \notin met => rows'[j] = rows[j]
           /\ \A p \in DOMAIN case.rows[j] :
                 /\ j \in met /\ p \in Places(Assigned(i)) => rows'[j][p] \in {Null, Masked}
                 /\ j \notin met \/ p \notin Places(Assigned(i)) => rows'[j][p] = rows[j][p]
  <1>1. Course /\ Kept /\ ~MaskRaises(i) /\ i \in DOMAIN cached
    BY DEF MaskingStep, Course
  <1>2. DOMAIN rows[j] = DOMAIN case.rows[j]
    BY <1>1 DEF Course
  <1>3. /\ j \in met => rows'[j] = Update(rows[j], i)
        /\ j \notin met => rows'[j] = rows[j]
    BY DEF MaskingStep, Masking
  <1>4. /\ DOMAIN Update(rows[j], i) = DOMAIN rows[j]
        /\ \A p \in DOMAIN rows[j] :
              /\ p \in Places(Assigned(i)) => Update(rows[j], i)[p] \in {Null, Masked}
              /\ p \notin Places(Assigned(i)) => Update(rows[j], i)[p] = rows[j][p]
    BY <1>1, UpdateMasks
  <1> QED BY <1>2, <1>3, <1>4

LEMMA MaskingTraces ==
    ASSUME NEW i, NEW met, MaskingStep(i, met)
    PROVE  Traces'
  <1>1. case' = case /\ Traces
    BY DEF MaskingStep
  <1> SUFFICES ASSUME NEW j \in Ids, NEW p \in DOMAIN case.rows[j]
               PROVE  rows'[j][p] = case.rows[j][p] \/ rows'[j][p] \in {Null, Masked}
    BY <1>1 DEF Traces
  <1>2. rows[j][p] = case.rows[j][p] \/ rows[j][p] \in {Null, Masked}
    BY <1>1 DEF Traces
  <1> QED BY <1>2, MaskingValues

LEMMA MaskingOnlyPlanned ==
    ASSUME NEW i, NEW met, MaskingStep(i, met), OnlyPlanned
    PROVE  OnlyPlanned'
  <1>1. /\ case' = case /\ cached' = cached /\ plan' = plan
        /\ Course /\ Kept /\ Traces /\ i \in DOMAIN cached
    BY DEF MaskingStep, Course
  <1> SUFFICES ASSUME \A j \in DOMAIN cached : KeyTells(j), NEW j \in Ids
               PROVE  /\ j \notin DOMAIN cached => rows'[j] = case.rows[j]
                      /\ j \in DOMAIN cached => \A p \in DOMAIN case.rows[j] :
                            rows'[j][p] # case.rows[j][p] => p \in Places(plan[j])
    BY <1>1, KeysStay DEF OnlyPlanned, Places
  <1>2. met \subseteq {i}
    BY <1>1, MeetsNoOther DEF MaskingStep, Masking
  <1>3. Places(Assigned(i)) \subseteq Places(plan[i])
    BY AssignedIsPlanned
  <1>4. /\ j \notin DOMAIN cached => rows[j] = case.rows[j]
        /\ j \in DOMAIN cached => \A p \in DOMAIN case.rows[j] :
              rows[j][p] # case.rows[j][p] => p \in Places(plan[j])
    BY DEF OnlyPlanned
  <1>5. CASE j \notin met
    BY <1>4, <1>5, MaskingValues
  <1>6. CASE j \in met
    <2>1. j = i
      BY <1>2, <1>6
    <2>2. \A p \in DOMAIN case.rows[j] : p \notin Places(plan[j]) => rows'[j][p] = rows[j][p]
      BY <1>3, <2>1, MaskingValues
    <2> QED BY <1>1, <1>4, <2>1, <2>2
  <1> QED BY <1>5, <1>6

\* What is masked stays masked.
LEMMA ErasedStays ==
    ASSUME NEW i, NEW met, MaskingStep(i, met), NEW j \in DOMAIN cached, Erased(j)
    PROVE  Erased(j)'
  <1>1. /\ case' = case /\ plan' = plan
        /\ Course /\ Kept /\ j \in Ids
    BY DEF MaskingStep, Course
  <1> SUFFICES ASSUME NEW u \in plan[j]
               PROVE  \/ rows'[j][u.at] \in {Null, Masked}
                      \/ case.store = "sql" /\ u.at \in case.keys
    BY <1>1 DEF Erased
  <1>2. u.at \in DOMAIN case.rows[j]
    BY <1>1, PlannedIsTargeted
  <1>3. \/ rows[j][u.at] \in {Null, Masked}
        \/ case.store = "sql" /\ u.at \in case.keys
    BY DEF Erased
  <1> QED BY <1>1, <1>2, <1>3, MaskingValues

\* The update for another row that meets this one either masks all that is planned
\* here too (tables), or leaves the key alone.
LEMMA OtherUpdates ==
    ASSUME NEW i, NEW met, MaskingStep(i, met),
           NEW j \in DOMAIN cached, KeyTells(j), KeysApart, Intact(j)
    PROVE  Intact(j)' \/ Erased(j)'
  <1>1. /\ case' = case /\ plan' = plan /\ case \in Cases
        /\ Course /\ Kept /\ j \in Ids /\ i \in DOMAIN cached /\ i \in Ids
    BY DEF MaskingStep, Course
  <1>2. case.keys \subseteq DOMAIN case.rows[j]
    BY <1>1, CasesAssumption
  <1>3. CASE j \notin met
    <2>1. rows'[j] = rows[j]
      BY <1>1, <1>3, MaskingValues
    <2> QED BY <1>1, <2>1 DEF Intact
  <1>4. CASE j \in met /\ case.store # "mongo"
    <2> SUFFICES ASSUME NEW u \in plan[j]
                 PROVE  \/ rows'[j][u.at] \in {Null, Masked}
                        \/ case.store = "sql" /\ u.at \in case.keys
      BY <1>1 DEF Erased
    <2>1. u.at \in DOMAIN case.rows[j]
      BY <1>1, PlannedIsTargeted
    <2>2. u.at \in Places(plan[i])
      BY <1>1, <1>4 DEF Kept, Places
    <2>3. PICK v \in plan[i] : v.at = u.at
      BY <2>2 DEF Places
    <2>4. u.at \in Places(Assigned(i)) \/ (case.store = "sql" /\ u.at \in case.keys)
      BY <2>3, AssignedIsPlanned
    <2> QED BY <1>1, <1>4, <2>1, <2>4, MaskingValues
  <1>5. CASE j \in met /\ \E k \in case.keys : case.keys = {k}
    <2>1. PICK k \in case.keys : case.keys = {k}
      BY <1>5
    <2>2. Where(cached[i]) # {} /\ j \in Hit(cached[i])
      BY <1>5 DEF MaskingStep, Masking
    <2>3. Where(cached[i]) = {k} /\ cached[i][k] = case.rows[i][k]
      BY <1>1, <2>1, <2>2, Conditions
    <2>4. rows[j][k] = case.rows[i][k]
      BY <2>2, <2>3 DEF Hit
    <2>5. case.rows[j][k] = case.rows[i][k]
      BY <2>4 DEF Intact
    <2>6. j = i
      BY <1>1, <2>1, <2>5 DEF KeyTells
    <2> QED
      <3>1. Erased(i)'
        <4> SUFFICES ASSUME NEW u \in plan[i]
                     PROVE  \/ rows'[i][u.at] \in {Null, Masked}
                            \/ case.store = "sql" /\ u.at \in case.keys
          BY <1>1 DEF Erased
        <4>1. u.at \in DOMAIN case.rows[i]
          BY <1>1, PlannedIsTargeted
        <4> QED BY <1>1, <1>5, <2>6, <4>1, AssignedIsPlanned, MaskingValues
      <3> QED BY <2>6, <3>1
  <1>6. CASE \A k \in case.keys, path \in Targets : ~LeadsTo(path, k)
    <2>1. ASSUME NEW k \in case.keys
          PROVE  k \notin Places(Assigned(i))
      <3> SUFFICES ASSUME k \in Places(plan[i]) PROVE FALSE
        BY AssignedIsPlanned
      <3>1. PICK u \in plan[i] : u.at = k
        BY DEF Places
      <3> QED BY <1>1, <1>6, <3>1, PlannedIsTargeted
    <2>2. \A k \in case.keys : rows'[j][k] = rows[j][k]
      BY <1>1, <1>2, <2>1, MaskingValues
    <2> QED BY <1>1, <2>2 DEF Intact
  <1> QED BY <1>3, <1>4, <1>5, <1>6 DEF KeysApart

\* The update for a row masks what is planned for it, unless that is masked already.
LEMMA OwnUpdate ==
    ASSUME NEW i, NEW met, MaskingStep(i, met), KeyTells(i), Intact(i) \/ Erased(i)
    PROVE  Erased(i)'
  <1>1. /\ case' = case /\ plan' = plan /\ case \in Cases
        /\ Course /\ Kept /\ Traces /\ i \in DOMAIN cached /\ i \in Ids
        /\ case.keys # {}
    BY DEF MaskingStep, Course
  <1>2. CASE Erased(i)
    BY <1>1, <1>2, ErasedStays
  <1>3. CASE plan[i] = {}
    BY <1>1, <1>3 DEF Erased
  <1>4. CASE Intact(i) /\ plan[i] # {}
    <2>1. /\ Where(cached[i]) = case.keys
          /\ \A k \in case.keys : cached[i][k] = case.rows[i][k]
      BY <1>1, Conditions DEF KeyTells
    <2>2. i \in Hit(cached[i])
      BY <1>1, <1>4, <2>1 DEF Hit, Intact
    <2>3. Hit(cached[i]) \subseteq {i}
      BY <1>1, MeetsNoOther
    <2>4. i \in met
      BY <1>1, <1>4, <2>1, <2>2, <2>3 DEF MaskingStep, Masking
    <2> SUFFICES ASSUME NEW u \in plan[i]
                 PROVE  \/ rows'[i][u.at] \in {Null, Masked}
                        \/ case.store = "sql" /\ u.at \in case.keys
      BY <1>1 DEF Erased
    <2>5. u.at \in DOMAIN case.rows[i]
      BY <1>1, PlannedIsTargeted
    <2> QED BY <1>1, <2>4, <2>5, AssignedIsPlanned, MaskingValues
  <1> QED BY <1>2, <1>3, <1>4

-----------------------------------------------------------------------------
\* The invariant holds

LEMMA InitEraseInv ==
    ASSUME Init
    PROVE  EraseInv
  <1>1. DOMAIN Nothing = {}
    BY DEF Nothing
  <1>2. Course
    <2>1. DOMAIN case.rows = Ids
      BY CasesAssumption DEF Init
    <2> QED BY <1>1, <2>1 DEF Init, Course
  <1>3. Kept
    BY <1>1 DEF Init, Kept
  <1>4. Traces
    BY DEF Init, Traces
  <1>5. OnlyPlanned
    BY <1>1 DEF Init, OnlyPlanned
  <1>6. AllReached
    BY <1>1 DEF Init, AllReached
  <1> QED BY <1>2, <1>3, <1>4, <1>5, <1>6 DEF EraseInv

\* An access changes no row.
LEMMA AccessEraseInv ==
    ASSUME EraseInv, Access
    PROVE  EraseInv'
  <1>1. /\ phase = "access" /\ phase' = "erasure"
        /\ UNCHANGED <<case, rows, todo, attempts, secrets>>
        /\ DOMAIN cached' \subseteq Ids /\ DOMAIN plan' = DOMAIN cached'
    BY DEF Access
  <1>2. rows = case.rows /\ attempts = 0 /\ todo = {} /\ case \in Cases /\ Course
    BY <1>1 DEF EraseInv, Course
  <1>3. Course'
    BY <1>1, <1>2 DEF Course
  <1>4. Kept'
    <2>1. \A i \in DOMAIN cached' : IsCopy(case.rows[i], cached'[i]) /\ IsPlan(cached'[i], plan'[i])
      BY <1>2 DEF Access
    <2>2. \A i \in DOMAIN cached' : (IsCopy(case.rows[i], cached[i]) /\ IsPlan(cached[i], plan[i]))'
      BY <1>1, <2>1, KeysStay
    <2>3. case.store # "mongo" =>
             \A i, j \in DOMAIN cached' : Places(plan'[i]) = Places(plan'[j])
      BY DEF Access
    <2> QED BY <1>1, <2>2, <2>3 DEF Kept, Places
  <1>5. Traces'
    BY <1>1, <1>2 DEF Traces
  <1>6. OnlyPlanned'
    BY <1>1, <1>2 DEF OnlyPlanned
  <1>7. AllReached'
    BY <1>1, <1>2 DEF AllReached, Reached, Intact
  <1> QED BY <1>3, <1>4, <1>5, <1>6, <1>7 DEF EraseInv

\* Steps that touch neither the rows nor what is kept of the access.
LEMMA OtherSteps ==
    ASSUME EraseInv, UNCHANGED <<case, rows, cached, plan>>, Course',
           \A i \in DOMAIN cached : Reached(i) => Reached(i)'
    PROVE  EraseInv'
  <1>1. Kept'
    <2>1. \A i \in DOMAIN cached : (IsCopy(case.rows[i], cached[i]) /\ IsPlan(cached[i], plan[i]))'
      BY KeysStay DEF EraseInv, Kept
    <2> QED BY <2>1 DEF EraseInv, Kept, Places
  <1>2. Traces'
    BY DEF EraseInv, Traces
  <1>3. OnlyPlanned'
    BY KeysStay DEF EraseInv, OnlyPlanned, Places
  <1>4. AllReached'
    BY KeysStay DEF EraseInv, AllReached
  <1> QED BY <1>1, <1>2, <1>3, <1>4 DEF EraseInv

LEMMA MaskRowEraseInv ==
    ASSUME EraseInv, NEW i \in Ids, MaskRow(i)
    PROVE  EraseInv'
  <1>1. /\ Course /\ Kept /\ Traces /\ OnlyPlanned /\ AllReached
        /\ i \in todo /\ ~MaskRaises(i) /\ todo' = todo \ {i}
        /\ UNCHANGED <<case, phase, cached, plan, attempts, secrets>>
    BY DEF EraseInv, MaskRow
  <1>2. PICK met : Masking(i, met)
    BY <1>1, MaskRowMasks
  <1>3. MaskingStep(i, met)
    BY <1>1, <1>2 DEF MaskingStep
  <1>4. Course'
    <2>1. DOMAIN rows' = Ids
      BY <1>2 DEF Masking
    <2>2. \A j \in Ids : DOMAIN rows'[j] = DOMAIN case.rows[j]
      BY <1>3, MaskingValues
    <2>3. phase = "erasure"
      BY <1>1 DEF Course
    <2> QED BY <1>1, <2>1, <2>2, <2>3 DEF Course
  <1>5. Kept'
    <2>1. \A j \in DOMAIN cached : (IsCopy(case.rows[j], cached[j]) /\ IsPlan(cached[j], plan[j]))'
      BY <1>1, KeysStay DEF Kept
    <2> QED BY <1>1, <2>1 DEF Kept, Places
  <1>6. Traces'
    BY <1>3, MaskingTraces
  <1>7. OnlyPlanned'
    BY <1>1, <1>3, MaskingOnlyPlanned
  <1>8. AllReached'
    <2> SUFFICES ASSUME KeysApart, NEW j \in DOMAIN cached, KeyTells(j)
                 PROVE  Reached(j)'
      BY <1>1, KeysStay DEF AllReached
    <2>1. Reached(j)
      BY <1>1 DEF AllReached
    <2>2. (Intact(j) \/ Erased(j))'
      BY <1>3, <2>1, ErasedStays, OtherUpdates DEF Reached
    <2>3. CASE j = i
      BY <1>3, <2>1, <2>2, <2>3, OwnUpdate DEF Reached
    <2>4. CASE j # i
      <3>1. attempts > 0 /\ phase # "failed" /\ j \notin todo' => Erased(j)
        BY <1>1, <2>1, <2>4 DEF Reached
      <3> QED BY <1>1, <1>3, <2>2, <3>1, ErasedStays DEF Reached
    <2> QED BY <2>3, <2>4
  <1> QED BY <1>4, <1>5, <1>6, <1>7, <1>8 DEF EraseInv

LEMMA NextEraseInv ==
    ASSUME EraseInv, [Next]_vars
    PROVE  EraseInv'
  <1>0. Course
    BY DEF EraseInv
  <1>1. CASE Access
    BY <1>1, AccessEraseInv
  <1>2. CASE EraseNothing
    <2>1. Course'
      BY <1>0, <1>2 DEF Course, EraseNothing
    <2>2. \A i \in DOMAIN cached : Reached(i) => Reached(i)'
      BY <1>2 DEF EraseNothing, Reached, Intact, Erased
    <2> QED BY <1>2, <2>1, <2>2, OtherSteps DEF EraseNothing
  <1>3. CASE BeginErasure
    <2>1. Course'
      BY <1>0, <1>3 DEF Course, BeginErasure
    <2>2. \A i \in DOMAIN cached : Reached(i) => Reached(i)'
      BY <1>3 DEF BeginErasure, Reached, Intact, Erased
    <2> QED BY <1>3, <2>1, <2>2, OtherSteps DEF BeginErasure
  <1>4. ASSUME NEW i \in Ids, MaskRow(i)
        PROVE  EraseInv'
    BY <1>4, MaskRowEraseInv
  <1>5. ASSUME NEW i \in Ids, AttemptRaises(i)
        PROVE  EraseInv'
    <2>1. Course'
      BY <1>0, <1>5 DEF Course, AttemptRaises
    <2>2. \A j \in DOMAIN cached : Reached(j) => Reached(j)'
      BY <1>5 DEF AttemptRaises, Reached, Intact, Erased
    <2> QED BY <1>5, <2>1, <2>2, OtherSteps DEF AttemptRaises
  <1>6. CASE EndErasure
    <2>1. Course'
      BY <1>0, <1>6 DEF Course, EndErasure
    <2>2. \A i \in DOMAIN cached : Reached(i) => Reached(i)'
      BY <1>6 DEF EndErasure, Reached, Intact, Erased
    <2> QED BY <1>6, <2>1, <2>2, OtherSteps DEF EndErasure
  <1>7. CASE SecretsExpire
    <2>1. Course'
      BY <1>0, <1>7 DEF Course, SecretsExpire
    <2>2. \A i \in DOMAIN cached : Reached(i) => Reached(i)'
      BY <1>7 DEF SecretsExpire, Reached, Intact, Erased
    <2> QED BY <1>7, <2>1, <2>2, OtherSteps DEF SecretsExpire
  <1>8. CASE UNCHANGED vars
    <2>1. Course'
      BY <1>0, <1>8 DEF Course, vars
    <2>2. \A i \in DOMAIN cached : Reached(i) => Reached(i)'
      BY <1>8 DEF vars, Reached, Intact, Erased
    <2> QED BY <1>8, <2>1, <2>2, OtherSteps DEF vars
  <1> QED BY <1>1, <1>2, <1>3, <1>4, <1>5, <1>6, <1>7, <1>8 DEF Next, Erase

\* The invariant of an erasure, for all rows, policies and failures.
THEOREM EraseInvariant == Spec => []EraseInv
  <1>1. Init => EraseInv
    BY InitEraseInv
  <1>2. EraseInv /\ [Next]_vars => EraseInv'
    BY NextEraseInv
  <1> QED BY <1>1, <1>2, PTL DEF Spec

-----------------------------------------------------------------------------
\* What follows

LEMMA InvOnlyFound ==
    ASSUME EraseInv
    PROVE  ErasesOnlyFound
  <1> SUFFICES ASSUME \A i \in DOMAIN cached : KeyTells(i), NEW i \in Ids, rows[i] # case.rows[i]
               PROVE  /\ i \in DOMAIN cached
                      /\ \A p \in DOMAIN case.rows[i] :
                            rows[i][p] # case.rows[i][p] =>
                                /\ \E path \in Targets : LeadsTo(path, p)
                                /\ cached[i][p] # DoNotMask
    BY DEF ErasesOnlyFound
  <1>1. Course /\ Kept
    BY DEF EraseInv
  <1>2. /\ i \in DOMAIN cached
        /\ \A p \in DOMAIN case.rows[i] : rows[i][p] # case.rows[i][p] => p \in Places(plan[i])
    BY DEF EraseInv, OnlyPlanned
  <1>3. ASSUME NEW p \in DOMAIN case.rows[i], rows[i][p] # case.rows[i][p]
        PROVE  /\ \E path \in Targets : LeadsTo(path, p)
               /\ cached[i][p] # DoNotMask
    <2>1. PICK u \in plan[i] : u.at = p
      BY <1>2, <1>3 DEF Places
    <2> QED BY <1>1, <1>2, <2>1, PlannedIsTargeted
  <1> QED BY <1>2, <1>3

\* An erasure (GraphTask.erasure_request, repeated by the retry decorator) changes
\* nothing but the targeted values of rows that the access found, and nothing that
\* filter_element_match has replaced by a placeholder.
THEOREM OnlyFoundErased == Spec => []ErasesOnlyFound
  <1>1. EraseInv => ErasesOnlyFound
    BY InvOnlyFound
  <1> QED BY <1>1, EraseInvariant, PTL

LEMMA InvFoundErased ==
    ASSUME EraseInv
    PROVE  FoundIsErased
  <1> SUFFICES ASSUME phase = "done", attempts > 0, KeysApart,
                      NEW i \in DOMAIN cached, KeyTells(i), NEW u \in plan[i]
               PROVE  \/ rows[i][u.at] \in {Null, Masked}
                      \/ case.store = "sql" /\ u.at \in case.keys
    BY DEF FoundIsErased
  <1>1. Reached(i)
    BY DEF EraseInv, AllReached
  <1>2. i \notin todo
    BY DEF EraseInv, Course
  <1> QED BY <1>1, <1>2 DEF Reached, Erased

\* An erasure that ends has masked everything it was to mask, in whatever order rows
\* were updated and however many attempts raised half way: the next attempt begins
\* with the first row again, and updates what is masked already to no effect.
THEOREM AllFoundErased == Spec => []FoundIsErased
  <1>1. EraseInv => FoundIsErased
    BY InvFoundErased
  <1> QED BY <1>1, EraseInvariant, PTL

\* A step of an erasure that leaves no masked value unmasked.
NothingRestored ==
    \A i \in Ids : \A p \in DOMAIN case.rows[i] :
        rows[i][p] \in {Null, Masked} => rows'[i][p] \in {Null, Masked}

\* No step brings a value back: neither a repeated attempt, which works on the copies
\* of before the first one (MaskRow), nor the update for another row.
THEOREM MaskedStaysMasked == Spec => [][NothingRestored]_vars
  <1>1. EraseInv /\ [Next]_vars => [NothingRestored]_vars
    <2> SUFFICES ASSUME EraseInv, Next
                 PROVE  NothingRestored
      OBVIOUS
    <2>1. ASSUME NEW i \in Ids, MaskRow(i)
          PROVE  NothingRestored
      <3>1. /\ Course /\ Kept /\ Traces
            /\ i \in todo /\ ~MaskRaises(i) /\ UNCHANGED <<case, cached, plan>>
        BY <2>1 DEF EraseInv, MaskRow
      <3>2. PICK met : Masking(i, met)
        BY <2>1, <3>1, MaskRowMasks
      <3>3. MaskingStep(i, met)
        BY <3>1, <3>2 DEF MaskingStep
      <3> QED BY <3>3, MaskingValues DEF NothingRestored
    <2>2. CASE UNCHANGED rows
      BY <2>2 DEF NothingRestored
    <2> QED BY <2>1, <2>2 DEF Next, Erase, Access, EraseNothing, BeginErasure, AttemptRaises,
                              EndErasure, SecretsExpire
  <1> QED BY <1>1, EraseInvariant, PTL DEF Spec
===============================================================================
