------------------------------- MODULE Erasure --------------------------------
(***************************************************************************)
(* The erasure of one collection: one update per row that was found,       *)
(* repeated from the first row when an update raises. Rows are functions   *)
(* from the positions of their scalars to the scalars: an update assigns   *)
(* to positions, "a.0.b" in a document store, columns in SQL.              *)
(*                                                                         *)
(* How rows are found and walked is left open: Access is any access that   *)
(* keeps the promises of filter_element_match and update_value_map. The    *)
(* text of statements, the drivers and the masks themselves are left out:  *)
(* a mask is one value.                                                    *)
(***************************************************************************)
EXTENDS Positions

CONSTANTS
    Ids,         \* the rows of the collection, whatever their keys
    Cases,       \* the collections, rows and policies considered
    MaxAttempts  \* attempts of the erasure (TASK_RETRY_COUNT + 1)

\* A case is a record of
\*   store     "sql", "bigquery" or "mongo"
\*   rows      the rows of the collection, by id
\*   keys      the positions of the primary key fields
\*   strings   the paths with data type string
\*   limited   those of them with a length
\*   category  the data category of each annotated path: a sequence of names
\*   rules     the erasure rules: the categories they target and a strategy,
\*             "absent", "null", "rewrite", "random", "hash", "hmac" or "aes"
\*   writable  the connection has write access
\* Every row has the fields of the key; what a strategy makes of a value is the key
\* of no row.
ASSUME CasesAssumption ==
    \A c \in Cases :
        /\ c.store \in {"sql", "bigquery", "mongo"}
        /\ c.rows \in [Ids -> Range(c.rows)]
        /\ \A i \in Ids : /\ c.rows[i] \in [DOMAIN c.rows[i] -> Int]
                          /\ c.keys \subseteq DOMAIN c.rows[i]
                          /\ \A k \in c.keys : c.rows[i][k] # Masked
        /\ \A rule \in c.rules : rule.strategy \in
              {"absent", "null", "rewrite", "random", "hash", "hmac", "aes"}

VARIABLES
    case,       \* what is considered; never changes
    rows,       \* the rows of the collection now
    phase,      \* "access", "erasure", "done" or "failed"
    cached,     \* the rows found, unmatched elements replaced
    plan,       \* the updates of each of them: positions, with the path and rule
                \* that lead there
    todo,       \* rows this attempt has still to mask
    attempts,   \* attempts begun
    secrets     \* the masking secrets are in the cache

vars == <<case, rows, phase, cached, plan, todo, attempts, secrets>>

Nothing == [i \in {} |-> Null]

Init ==
    /\ case \in Cases
    /\ rows = case.rows
    /\ phase = "access"
    /\ cached = Nothing
    /\ plan = Nothing
    /\ todo = {}
    /\ attempts = 0
    /\ secrets = TRUE

-----------------------------------------------------------------------------
\* What is erased

\* build_rule_target_field_paths: the paths whose category starts with a target. The
\* code compares strings: no name of a category is the beginning of another here.
TargetPaths(rule) ==
    {path \in DOMAIN case.category :
        \E target \in rule.targets : IsPrefix(target, case.category[path])}

\* _supported_data_type: all but the null strategy are for strings.
Supported(path, rule) ==
    \/ rule.strategy = "null"
    \/ rule.strategy # "absent" /\ path \in case.strings

\* What every access keeps to. In a copy, an element is what the store has at the
\* same position, or a placeholder; the key is as it is in the store.
IsCopy(row, copy) ==
    /\ \A p \in DOMAIN copy : copy[p] = DoNotMask \/ (p \in DOMAIN row /\ copy[p] = row[p])
    /\ \A k \in case.keys : k \in DOMAIN copy /\ copy[k] = row[k]

\* Updates are of targeted positions without a placeholder.
IsPlan(copy, updates) ==
    \A u \in updates :
        /\ u.rule \in case.rules
        /\ u.path \in TargetPaths(u.rule) /\ Supported(u.path, u.rule)
        /\ LeadsTo(u.path, u.at)
        /\ u.at \in DOMAIN copy /\ copy[u.at] # DoNotMask

Places(updates) == {u.at : u \in updates}

\* The rows of a table have the same columns.
Access ==
    /\ phase = "access"
    /\ DOMAIN cached' \subseteq Ids
    /\ DOMAIN plan' = DOMAIN cached'
    /\ \A i \in DOMAIN cached' : /\ IsCopy(rows[i], cached'[i])
                                 /\ IsPlan(cached'[i], plan'[i])
    /\ case.store # "mongo" =>
          \A i, j \in DOMAIN cached' : Places(plan'[i]) = Places(plan'[j])
    /\ phase' = "erasure"
    /\ UNCHANGED <<case, rows, todo, attempts, secrets>>

-----------------------------------------------------------------------------
\* The masks

\* The strategies: what mask returns for a value. Without its secret the value
\* cannot be hashed or encrypted; AES cannot encrypt a null.
NullRewrite(n) == Null
StringRewrite(n) == IF n = Null THEN Null ELSE Masked
RandomStringRewrite(n) == IF n = Null THEN Null ELSE Masked
Hash(n) == IF n = Null THEN Null ELSE IF secrets THEN Masked ELSE Raised
Hmac(n) == IF n = Null THEN Null ELSE IF secrets THEN Masked ELSE Raised
AesEncrypt(n) == IF n # Null /\ secrets THEN Masked ELSE Raised

\* get_strategy
Strategy(name, n) ==
    CASE name = "null" -> NullRewrite(n)
      [] name = "rewrite" -> StringRewrite(n)
      [] name = "random" -> RandomStringRewrite(n)
      [] name = "hash" -> Hash(n)
      [] name = "hmac" -> Hmac(n)
      [] name = "aes" -> AesEncrypt(n)

\* _generate_masked_value: a null cannot be truncated to a length.
MaskedValue(i, u) ==
    LET masked == Strategy(u.rule.strategy, cached[i][u.at]) IN
    IF masked = Null /\ u.rule.strategy # "null" /\ u.path \in case.limited
    THEN Raised ELSE masked

MaskRaises(i) == \E u \in plan[i] : MaskedValue(i, u) = Raised

-----------------------------------------------------------------------------
\* The updates

\* filter_nonempty_values: parts of the key that are empty are left out.
Where(row) == {k \in case.keys : row[k] \notin {Null, 0}}

\* Mutant of Hit: a statement with one field of the key for a condition.
HitAny(row) == {i \in Ids : \E k \in Where(row) : rows[i][k] = row[k]}

\* The rows an update statement for this row meets.
Hit(row) == {i \in Ids : \A k \in Where(row) : rows[i][k] = row[k]}

\* Generic SQL uses one parameter for a column in SET and in WHERE: the value of
\* the key wins.
Assigned(i) ==
    {u \in plan[i] : ~(case.store = "sql" /\ u.at \in Where(cached[i]))}

\* Of several rules for a position one has the last word.
Update(target, i) ==
    [p \in DOMAIN target |->
        IF p \in Places(Assigned(i)) THEN MaskedValue(i, CHOOSE u \in Assigned(i) : u.at = p)
        ELSE target[p]]

\* "No values were erased": no primary key, or no write access.
EraseNothing ==
    /\ phase = "erasure"
    /\ attempts = 0
    /\ case.keys = {} \/ ~case.writable
    /\ phase' = "done"
    /\ UNCHANGED <<case, rows, cached, plan, todo, attempts, secrets>>

BeginErasure ==
    /\ phase = "erasure"
    /\ case.keys # {} /\ case.writable
    /\ todo = {}
    /\ attempts = 0
    /\ attempts' = 1
    /\ todo' = DOMAIN cached
    /\ UNCHANGED <<case, rows, phase, cached, plan, secrets>>

\* A statement is generated: BigQuery's does not ask whether anything is updated.
SqlStatement(i) == Where(cached[i]) # {} /\ plan[i] # {}
MongoStatement(i) == Where(cached[i]) # {} /\ plan[i] # {}
BigQueryStatement(i) == Where(cached[i]) # {}

Statement(i) == CASE case.store = "sql" -> SqlStatement(i)
                  [] case.store = "mongo" -> MongoStatement(i)
                  [] case.store = "bigquery" -> BigQueryStatement(i)

\* mask_data for one row: SQL updates every row that the statement meets, Mongo
\* one of them.
SqlMask(i) == {[j \in Ids |-> IF j \in Hit(cached[i]) THEN Update(rows[j], i) ELSE rows[j]]}
MongoMask(i) == {[rows EXCEPT ![j] = Update(@, i)] : j \in Hit(cached[i])}

MaskRow(i) ==
    /\ i \in todo
    /\ ~MaskRaises(i)
    /\ Statement(i) => plan[i] # {}   \* BigQuery refuses an UPDATE of nothing
    /\ IF ~Statement(i) \/ Hit(cached[i]) = {} THEN rows' = rows
       ELSE rows' \in IF case.store = "mongo" THEN MongoMask(i) ELSE SqlMask(i)
    /\ todo' = todo \ {i}
    /\ UNCHANGED <<case, phase, cached, plan, attempts, secrets>>

EndErasure ==
    /\ phase = "erasure"
    /\ attempts > 0
    /\ todo = {}
    /\ phase' = "done"
    /\ UNCHANGED <<case, rows, cached, plan, todo, attempts, secrets>>

\* Mutant of AttemptRaises: the next attempt goes on behind the row that failed.
AttemptSkips(i) ==
    /\ i \in todo
    /\ IF attempts < MaxAttempts
       THEN attempts' = attempts + 1 /\ todo' = todo \ {i} /\ phase' = phase
       ELSE attempts' = attempts /\ todo' = {} /\ phase' = "failed"
    /\ UNCHANGED <<case, rows, cached, plan, secrets>>

\* The mask of a row, or its update, raises: everything again, up to a limit.
AttemptRaises(i) ==
    /\ i \in todo
    /\ IF attempts < MaxAttempts
       THEN attempts' = attempts + 1 /\ todo' = DOMAIN cached /\ phase' = phase
       ELSE attempts' = attempts /\ todo' = {} /\ phase' = "failed"
    /\ UNCHANGED <<case, rows, cached, plan, secrets>>

\* The environment: the time to live of the cached secrets passes.
SecretsExpire ==
    /\ phase = "erasure"
    /\ secrets
    /\ secrets' = FALSE
    /\ UNCHANGED <<case, rows, phase, cached, plan, todo, attempts>>

Erase ==
    \/ EraseNothing
    \/ BeginErasure
    \/ \E i \in Ids : MaskRow(i) \/ AttemptRaises(i)
    \/ EndErasure
    \/ SecretsExpire

Next == Access \/ Erase

Spec == Init /\ [][Next]_vars

-----------------------------------------------------------------------------
\* Properties

Targets == UNION {TargetPaths(rule) : rule \in {r \in case.rules : r.strategy # "absent"}}

\* The key of a row says which row it is.
KeyTells(i) ==
    /\ Where(case.rows[i]) = case.keys
    /\ \A j \in Ids \ {i} : \E k \in case.keys : case.rows[i][k] # case.rows[j][k]

\* An erasure changes nothing but targeted values of rows that were found, and of
\* their arrays only what is not a placeholder, whichever rows fail and however
\* often (update_value_map and generate_update_stmt work on rows as they were
\* read); provided that no part of a key is empty.
ErasesOnlyFound ==
    (\A i \in DOMAIN cached : KeyTells(i)) =>
        \A i \in Ids : rows[i] # case.rows[i] =>
            /\ i \in DOMAIN cached
            /\ \A p \in DOMAIN case.rows[i] :
                  rows[i][p] # case.rows[i][p] =>
                      /\ \E path \in Targets : LeadsTo(path, p)
                      /\ cached[i][p] # DoNotMask

\* The update of one document leaves the keys of the others alone: the key is one
\* field, or no field of it is masked.
KeysApart ==
    \/ case.store # "mongo"
    \/ \E k \in case.keys : case.keys = {k}
    \/ \A k \in case.keys, path \in Targets : ~LeadsTo(path, k)

\* When an erasure is done, every value it was to mask is masked, whatever
\* attempts failed before: all but parts of keys in generic SQL, rows without a
\* key, and fields whose type the strategy does not support. Where KeysApart does not
\* hold, a document is missed after the update for another one, whose key is in part
\* empty, has changed its key.
FoundIsErased ==
    /\ phase = "done"
    /\ attempts > 0
    /\ KeysApart
    => \A i \in {j \in DOMAIN cached : KeyTells(j)} : \A u \in plan[i] :
          \/ rows[i][u.at] \in {Null, Masked}
          \/ case.store = "sql" /\ u.at \in case.keys
===============================================================================
