-------------------------- MODULE PolicyWebhooksProofs ------------------------
(***************************************************************************)
(* Proofs about PolicyWebhooks, for any number of webhooks. The endpoints  *)
(* keep the order only when calls are served one at a time, a PUT fails    *)
(* at its first item or not at all, and webhooks stay with their policy:   *)
(* the theorems have this as their hypothesis, Serial.                     *)
(***************************************************************************)
EXTENDS PolicyWebhooks, FiniteSetTheorems, SequenceTheorems, TLAPS

Serial ==
    /\ \A g, h \in Handlers : g = h
    /\ \A p, q \in Policies : p = q
    /\ RefusedAt \subseteq {1}

\* A list without duplicates, of the webhooks in S.
Distinct(s) == \A i, j \in 1 .. Len(s) : s[i] = s[j] => i = j

ListsSet(s, S) == Distinct(s) /\ \A k : k \in S <=> \E i \in 1 .. Len(s) : s[i] = k

\* From here on, O and N stand for the columns policy_id and order of the webhooks.

Owned(p, O) == {k \in Keys : O[k] = p}

\* The order column says where in the list a webhook is.
IsListOf(s, p, O, N) ==
    /\ s \in Seq(Keys) /\ ListsSet(s, Owned(p, O))
    /\ \A i \in 1 .. Len(s) : N[s[i]] = i - 1

\* What is left of a list after the first Len(s) - Len(left) items.
IsRest(left, s) ==
    /\ Len(left) <= Len(s)
    /\ \A i \in 1 .. Len(left) : left[i] = s[Len(s) - Len(left) + i]

Done(left, s) == 1 .. Len(s) - Len(left)

\* A PUT: the items it has done are staged or written, with their index.
PutInv(c, O, N) ==
    /\ Distinct(c.body) /\ c.body \in Lists /\ IsRest(c.left, c.body)
    /\ \A k \in c.staged : O[k] = None /\ \E i \in Done(c.left, c.body) : c.body[i] = k
    /\ \A i \in Done(c.left, c.body) :
          \/ c.body[i] \in c.staged
          \/ O[c.body[i]] = c.policy /\ N[c.body[i]] = i - 1
    /\ Len(c.left) = Len(c.body) => IsListOf(c.was, c.policy, O, N)

\* A reordering: the webhooks it has done have their index in the new list, which
\* has the webhook of the call where it should be and the others as they were.
ReorderInv(c, O, N) ==
    /\ ListsSet(c.was, Owned(c.policy, O)) /\ ListsSet(c.body, Owned(c.policy, O))
    /\ IsRest(c.left, c.was)
    /\ \A i \in Done(c.left, c.was) : N[c.was[i]] = IndexIn(c.body, c.was[i])
    /\ \E i \in 1 .. Len(c.was) :
          /\ c.was[i] = c.key
          /\ c.pc = "patch" => /\ c.left # << >> /\ c.to + 1 \in 1 .. Len(c.was)
                               /\ c.body = PopInsert(c.was, i - 1, c.to)
          /\ c.pc = "delete" => /\ Len(c.body) = Len(c.was) /\ c.body[Len(c.body)] = c.key
                                /\ SubSeq(c.body, 1, Len(c.body) - 1) = RemoveAt(c.was, i)

Calls ==
    [pc : {"idle", "put", "patch", "delete"}, policy : Policies \union {None},
     body : Seq(Keys), left : Seq(Keys), staged : SUBSET Keys,
     key : Keys \union {None}, to : Nat, was : Seq(Keys)]

CallInv(c, O, N) ==
    /\ c.pc = "idle" => c = Idle
    /\ c.pc # "idle" => c.policy \in Policies
    /\ c.pc = "put" => PutInv(c, O, N)
    /\ c.pc \in {"patch", "delete"} => ReorderInv(c, O, N)

OrderInv ==
    /\ owner \in [Keys -> Policies \union {None}]
    /\ order \in [Keys -> Nat]
    /\ handler \in [Handlers -> Calls]
    /\ \A h \in Handlers : CallInv(handler[h], owner, order)
    /\ Resting => \A p \in Policies : \E s : IsListOf(s, p, owner, order)

-----------------------------------------------------------------------------
\* Lists

\* In a list without duplicates, IndexIn is one less than the position.
LEMMA IndexOfItem ==
    ASSUME NEW S, NEW s \in Seq(S), Distinct(s), NEW i \in 1 .. Len(s)
    PROVE  IndexIn(s, s[i]) = i - 1
<1>1. DOMAIN s = 1 .. Len(s)
  OBVIOUS
<1> DEFINE x == CHOOSE j \in DOMAIN s : s[j] = s[i]
<1>2. x \in DOMAIN s /\ s[x] = s[i]
  BY <1>1
<1> HIDE DEF x
<1>3. x = i
  BY <1>1, <1>2 DEF Distinct
<1> QED
  BY <1>3 DEF IndexIn, x

\* A list without duplicates is as long as the set it lists.
LEMMA ListLength ==
    ASSUME NEW s, NEW T, s \in Seq(T), NEW S, ListsSet(s, S)
    PROVE  IsFiniteSet(S) /\ Cardinality(S) = Len(s) /\ s \in SetToSeqs(S)
<1>1. Len(s) \in Nat /\ DOMAIN s = 1 .. Len(s) /\ s \in [1 .. Len(s) -> T]
  OBVIOUS
<1>2. s \in [1 .. Len(s) -> S]
  BY <1>1 DEF ListsSet
<1>3. s \in Bijection(1 .. Len(s), S)
  BY <1>1, <1>2 DEF Bijection, Injection, Surjection, IsInjective, ListsSet, Distinct
<1>4. ExistsBijection(1 .. Len(s), S)
  BY <1>3 DEF ExistsBijection
<1>5. IsFiniteSet(1 .. Len(s)) /\ Cardinality(1 .. Len(s)) = Len(s)
  BY <1>1, FS_Interval
<1>6. IsFiniteSet(S) /\ Cardinality(S) = Len(s)
  BY <1>4, <1>5, FS_Bijection
<1>7. s \in SetToSeqs(S)
  BY <1>1, <1>2, <1>6 DEF SetToSeqs, ListsSet, Distinct
<1> QED
  BY <1>6, <1>7

\* An increasing sequence of n different numbers below n is 0, 1, 2...
LEMMA IncreasingIsIdentity ==
    ASSUME NEW n \in Nat, NEW g \in [1 .. n -> 0 .. n - 1],
           \A i, j \in 1 .. n : i < j => g[i] < g[j],
           NEW i \in 1 .. n
    PROVE  g[i] = i - 1
<1>1. g[i] \in Nat /\ g[i] <= n - 1 /\ n - 1 \in Int
  OBVIOUS
<1>2. i <= g[i] + 1
  <2> DEFINE f == [x \in 1 .. i |-> g[x]]
  <2>1. ASSUME NEW x \in 1 .. i PROVE g[x] \in 0 .. g[i]
    BY <1>1, SMTT(30)
  <2>2. ASSUME NEW x \in 1 .. i, NEW y \in 1 .. i, g[x] = g[y] PROVE x = y
    <3>1. x \in 1 .. n /\ y \in 1 .. n
      OBVIOUS
    <3>2. g[x] \in Int /\ g[y] \in Int
      BY <3>1
    <3> QED
      BY <2>2, <3>1, <3>2
  <2>3. f \in Injection(1 .. i, 0 .. g[i])
    BY <2>1, <2>2 DEF Injection, IsInjective
  <2>4. /\ IsFiniteSet(0 .. g[i]) /\ Cardinality(0 .. g[i]) = g[i] + 1
        /\ Cardinality(1 .. i) = i
    BY <1>1, FS_Interval
  <2> QED
    BY <2>3, <2>4, FS_Injection
<1>3. n - i + 1 <= n - g[i]
  <2> DEFINE f == [x \in i .. n |-> g[x]]
  <2>1. ASSUME NEW x \in i .. n PROVE g[x] \in g[i] .. n - 1
    <3>1. x \in 1 .. n
      OBVIOUS
    <3>2. g[x] \in 0 .. n - 1
      BY <3>1
    <3>3. i = x \/ i < x
      OBVIOUS
    <3> QED
      BY <1>1, <3>1, <3>2, <3>3
  <2>2. ASSUME NEW x \in i .. n, NEW y \in i .. n, g[x] = g[y] PROVE x = y
    <3>1. x \in 1 .. n /\ y \in 1 .. n
      OBVIOUS
    <3>2. g[x] \in Int /\ g[y] \in Int
      BY <3>1
    <3> QED
      BY <2>2, <3>1, <3>2
  <2>3. f \in Injection(i .. n, g[i] .. n - 1)
    BY <2>1, <2>2 DEF Injection, IsInjective
  <2>4. /\ IsFiniteSet(g[i] .. n - 1) /\ Cardinality(g[i] .. n - 1) = n - g[i]
        /\ Cardinality(i .. n) = n - i + 1
    <3>1. g[i] \in Int /\ ~(g[i] > n - 1) /\ i \in Int /\ n \in Int /\ ~(i > n)
      BY <1>1
    <3>2. n - 1 - g[i] + 1 = n - g[i]
      BY <1>1
    <3> QED
      BY <1>1, <3>1, <3>2, FS_Interval
  <2> QED
    BY <2>3, <2>4, FS_Injection
<1>4. \A a, b, m \in Int : a <= b + 1 /\ m - a + 1 <= m - b => b = a - 1
  OBVIOUS
<1>5. i \in Int /\ g[i] \in Int /\ n \in Int
  BY <1>1
<1> QED
  BY <1>2, <1>3, <1>4, <1>5

\* The results of a query "order by order".
Queried(p, O, N) ==
    {s \in SetToSeqs(Owned(p, O)) : \A i, j \in DOMAIN s : i < j => N[s[i]] <= N[s[j]]}

\* When the order column says where each webhook is, a query gives that list.
LEMMA ListingIsList ==
    ASSUME NEW O, NEW N \in [Keys -> Nat], NEW p, NEW s, IsListOf(s, p, O, N)
    PROVE  Queried(p, O, N) = {s}
<1> DEFINE n == Len(s)
<1>1. s \in Seq(Keys) /\ n \in Nat /\ DOMAIN s = 1 .. n /\ ListsSet(s, Owned(p, O))
  BY DEF IsListOf
<1>2. Cardinality(Owned(p, O)) = n /\ s \in SetToSeqs(Owned(p, O))
  BY <1>1, ListLength
<1>3. s \in Queried(p, O, N)
  BY <1>1, <1>2 DEF Queried, IsListOf
<1>4. ASSUME NEW r \in Queried(p, O, N) PROVE r = s
  <2>1. /\ r \in [1 .. n -> Owned(p, O)]
        /\ \A i, j \in 1 .. n : i # j => r[i] # r[j]
        /\ \A i, j \in 1 .. n : i < j => N[r[i]] <= N[r[j]]
    BY <1>2 DEF Queried, SetToSeqs
  <2>2. ASSUME NEW i \in 1 .. n PROVE N[r[i]] \in 0 .. n - 1 /\ r[i] = s[N[r[i]] + 1]
    <3>1. PICK j \in 1 .. n : s[j] = r[i]
      BY <1>1, <2>1 DEF ListsSet
    <3>2. N[r[i]] = j - 1
      BY <3>1 DEF IsListOf
    <3> QED
      BY <3>1, <3>2
  <2> DEFINE g == [i \in 1 .. n |-> N[r[i]]]
  <2>3. g \in [1 .. n -> 0 .. n - 1]
    BY <2>2
  <2>4. ASSUME NEW i \in 1 .. n, NEW j \in 1 .. n, i < j PROVE g[i] < g[j]
    <3>1. g[i] <= g[j] /\ g[i] \in Int /\ g[j] \in Int
      BY <2>1, <2>2, <2>4
    <3>2. g[i] # g[j]
      BY <2>1, <2>2, <2>4
    <3> QED
      BY <3>1, <3>2
  <2> HIDE DEF g
  <2>5. ASSUME NEW i \in 1 .. n PROVE g[i] = i - 1
    BY <1>1, <2>3, <2>4, IncreasingIsIdentity
  <2>6. ASSUME NEW i \in 1 .. n PROVE r[i] = s[i]
    BY <2>2, <2>5 DEF g
  <2>7. s \in [1 .. n -> Keys]
    BY <1>1
  <2>8. DOMAIN r = 1 .. n /\ DOMAIN s = 1 .. n
    BY <2>1, <1>1
  <2> QED
    BY <2>1, <2>6, <2>7, <2>8
<1> QED
  BY <1>3, <1>4

\* pop(i) leaves the others in sequence.
LEMMA RemoveAtItems ==
    ASSUME NEW S, NEW s \in Seq(S), NEW i \in 1 .. Len(s)
    PROVE  LET r == RemoveAt(s, i) IN
           /\ r \in Seq(S) /\ Len(r) = Len(s) - 1
           /\ \A x \in 1 .. Len(s) - 1 : r[x] = IF x < i THEN s[x] ELSE s[x + 1]
<1> DEFINE a == SubSeq(s, 1, i - 1)
           b == SubSeq(s, i + 1, Len(s))
<1>1. Len(s) \in Nat /\ i \in Nat /\ 1 <= i /\ i <= Len(s) /\ \A x \in 1 .. Len(s) : s[x] \in S
  OBVIOUS
<1>2. a \in Seq(S) /\ Len(a) = i - 1 /\ \A x \in 1 .. i - 1 : a[x] = s[x]
  <2>1. 1 \in Int /\ i - 1 \in Int /\ \A x \in 1 .. i - 1 : s[x] \in S
    BY <1>1
  <2>2. /\ a \in Seq(S) /\ Len(a) = IF 1 <= i - 1 THEN (i - 1) - 1 + 1 ELSE 0
        /\ \A x \in 1 .. (i - 1) - 1 + 1 : a[x] = s[1 + x - 1]
    BY <2>1, SubSeqProperties
  <2> QED
    BY <1>1, <2>2
<1>3. b \in Seq(S) /\ Len(b) = Len(s) - i /\ \A x \in 1 .. Len(s) - i : b[x] = s[i + x]
  <2>1. i + 1 \in Int /\ Len(s) \in Int /\ \A x \in i + 1 .. Len(s) : s[x] \in S
    BY <1>1
  <2>2. /\ b \in Seq(S) /\ Len(b) = IF i + 1 <= Len(s) THEN Len(s) - (i + 1) + 1 ELSE 0
        /\ \A x \in 1 .. Len(s) - (i + 1) + 1 : b[x] = s[(i + 1) + x - 1]
    BY <2>1, SubSeqProperties
  <2> QED
    BY <1>1, <2>2
<1> HIDE DEF a, b
<1>4. /\ a \o b \in Seq(S) /\ Len(a \o b) = Len(a) + Len(b)
      /\ \A x \in 1 .. Len(a) + Len(b) : (a \o b)[x] = IF x <= Len(a) THEN a[x] ELSE b[x - Len(a)]
  BY <1>2, <1>3, ConcatProperties
<1>5. Len(a \o b) = Len(s) - 1
  BY <1>1, <1>2, <1>3, <1>4
<1>6. ASSUME NEW x \in 1 .. Len(s) - 1 PROVE (a \o b)[x] = IF x < i THEN s[x] ELSE s[x + 1]
  <2>1. CASE x < i
    BY <1>1, <1>2, <1>3, <1>4, <2>1
  <2>2. CASE ~(x < i)
    <3>1. x - (i - 1) \in 1 .. Len(s) - i /\ ~(x <= i - 1) /\ i + (x - (i - 1)) = x + 1
      BY <1>1, <2>2
    <3>2. (a \o b)[x] = b[x - (i - 1)]
      BY <1>1, <1>2, <1>3, <1>4, <3>1
    <3> QED
      BY <1>3, <2>2, <3>1, <3>2
  <2> QED
    BY <2>1, <2>2
<1> QED
  BY <1>4, <1>5, <1>6 DEF RemoveAt, a, b

\* insert(j) moves those from j on by one.
LEMMA InsertAtItems ==
    ASSUME NEW S, NEW r \in Seq(S), NEW j \in 1 .. Len(r) + 1, NEW e \in S
    PROVE  LET m == InsertAt(r, j, e) IN
           /\ m \in Seq(S) /\ Len(m) = Len(r) + 1
           /\ \A x \in 1 .. Len(r) + 1 :
                 m[x] = IF x < j THEN r[x] ELSE IF x = j THEN e ELSE r[x - 1]
<1> DEFINE a == SubSeq(r, 1, j - 1)
           b == SubSeq(r, j, Len(r))
           o == <<e>>
<1>1. Len(r) \in Nat /\ j \in Nat /\ 1 <= j /\ j <= Len(r) + 1 /\ \A x \in 1 .. Len(r) : r[x] \in S
  OBVIOUS
<1>2. a \in Seq(S) /\ Len(a) = j - 1 /\ \A x \in 1 .. j - 1 : a[x] = r[x]
  <2>1. 1 \in Int /\ j - 1 \in Int /\ \A x \in 1 .. j - 1 : r[x] \in S
    BY <1>1
  <2>2. /\ a \in Seq(S) /\ Len(a) = IF 1 <= j - 1 THEN (j - 1) - 1 + 1 ELSE 0
        /\ \A x \in 1 .. (j - 1) - 1 + 1 : a[x] = r[1 + x - 1]
    BY <2>1, SubSeqProperties
  <2> QED
    BY <1>1, <2>2
<1>3. /\ b \in Seq(S) /\ Len(b) = Len(r) - j + 1
      /\ \A x \in 1 .. Len(r) - j + 1 : b[x] = r[j + x - 1]
  <2>1. j \in Int /\ Len(r) \in Int /\ \A x \in j .. Len(r) : r[x] \in S
    BY <1>1
  <2>2. /\ b \in Seq(S) /\ Len(b) = IF j <= Len(r) THEN Len(r) - j + 1 ELSE 0
        /\ \A x \in 1 .. Len(r) - j + 1 : b[x] = r[j + x - 1]
    BY <2>1, SubSeqProperties
  <2> QED
    BY <1>1, <2>2
<1>4. o \in Seq(S) /\ Len(o) = 1 /\ o[1] = e
  OBVIOUS
<1> HIDE DEF a, b, o
<1>5. /\ a \o o \in Seq(S) /\ Len(a \o o) = j
      /\ \A x \in 1 .. j : (a \o o)[x] = IF x < j THEN r[x] ELSE e
  <2>1. /\ a \o o \in Seq(S) /\ Len(a \o o) = Len(a) + Len(o)
        /\ \A x \in 1 .. Len(a) + Len(o) :
              (a \o o)[x] = IF x <= Len(a) THEN a[x] ELSE o[x - Len(a)]
    BY <1>2, <1>4, ConcatProperties
  <2>2. Len(a) + Len(o) = j
    BY <1>1, <1>2, <1>4
  <2>3. ASSUME NEW x \in 1 .. j PROVE (a \o o)[x] = IF x < j THEN r[x] ELSE e
    <3>1. CASE x < j
      BY <1>1, <1>2, <2>1, <2>2, <3>1
    <3>2. CASE x = j
      <4>1. ~(j <= Len(a)) /\ j - Len(a) = 1
        BY <1>1, <1>2
      <4> QED
        BY <1>4, <2>1, <2>2, <3>2, <4>1
    <3>3. x < j \/ x = j
      BY <1>1
    <3> QED
      BY <3>1, <3>2, <3>3
  <2> QED
    BY <2>1, <2>2, <2>3
<1> DEFINE q == a \o o
<1>6. /\ q \in Seq(S) /\ Len(q) = j
      /\ \A x \in 1 .. j : q[x] = IF x < j THEN r[x] ELSE e
  BY <1>5
<1> HIDE DEF q
<1>7. /\ q \o b \in Seq(S) /\ Len(q \o b) = Len(q) + Len(b)
      /\ \A x \in 1 .. Len(q) + Len(b) : (q \o b)[x] = IF x <= Len(q) THEN q[x] ELSE b[x - Len(q)]
  BY <1>3, <1>6, ConcatProperties
<1>8. Len(q \o b) = Len(r) + 1
  BY <1>1, <1>3, <1>6, <1>7
<1>9. ASSUME NEW x \in 1 .. Len(r) + 1
      PROVE  (q \o b)[x] = IF x < j THEN r[x] ELSE IF x = j THEN e ELSE r[x - 1]
  <2>1. CASE x <= j
    BY <1>1, <1>3, <1>6, <1>7, <2>1
  <2>2. CASE ~(x <= j)
    <3>1. x - j \in 1 .. Len(r) - j + 1 /\ j + (x - j) - 1 = x - 1
      BY <1>1, <2>2
    <3>2. (q \o b)[x] = b[x - j]
      BY <1>1, <1>3, <1>6, <1>7, <2>2
    <3> QED
      BY <1>3, <2>2, <3>1, <3>2
  <2> QED
    BY <2>1, <2>2
<1> QED
  BY <1>7, <1>8, <1>9 DEF InsertAt, a, b, o, q

\* The list after a webhook was moved from position i to position j.
LEMMA PopInsertItems ==
    ASSUME NEW S, NEW s \in Seq(S), NEW i \in 1 .. Len(s), NEW j \in 1 .. Len(s)
    PROVE  LET m == PopInsert(s, i - 1, j - 1) IN
           /\ m = InsertAt(RemoveAt(s, i), j, s[i])
           /\ m \in Seq(S) /\ Len(m) = Len(s)
           /\ \A x \in 1 .. Len(s) :
                 m[x] = IF x < j THEN RemoveAt(s, i)[x]
                        ELSE IF x = j THEN s[i] ELSE RemoveAt(s, i)[x - 1]
<1> DEFINE r == RemoveAt(s, i)
<1>1. Len(s) \in Nat /\ i - 1 + 1 = i /\ j - 1 + 1 = j /\ s[i] \in S
  OBVIOUS
<1>2. PopInsert(s, i - 1, j - 1) = InsertAt(r, j, s[i])
  BY <1>1 DEF PopInsert
<1>3. r \in Seq(S) /\ Len(r) = Len(s) - 1
  BY RemoveAtItems
<1>4. Len(r) + 1 = Len(s)
  BY <1>1, <1>3
<1> HIDE DEF r
<1>5. j \in 1 .. Len(r) + 1
  BY <1>4
<1> DEFINE e == s[i]
           m == InsertAt(r, j, e)
<1> HIDE DEF e
<1>6. /\ m \in Seq(S) /\ Len(m) = Len(r) + 1
      /\ \A x \in 1 .. Len(r) + 1 :
            m[x] = IF x < j THEN r[x] ELSE IF x = j THEN e ELSE r[x - 1]
  <2>1. e \in S /\ r \in Seq(S)
    BY <1>1, <1>3 DEF e
  <2> QED
    BY <1>5, <2>1, InsertAtItems
<1> QED
  BY <1>2, <1>4, <1>6 DEF r, e

\* Moving a webhook keeps the webhooks of the list.
LEMMA PopInsertLists ==
    ASSUME NEW S, NEW s \in Seq(S), NEW i \in 1 .. Len(s), NEW j \in 1 .. Len(s),
           NEW T, ListsSet(s, T)
    PROVE  ListsSet(PopInsert(s, i - 1, j - 1), T)
<1> DEFINE m == PopInsert(s, i - 1, j - 1)
           n == Len(s)
           gap(x) == IF x < i THEN x ELSE x + 1
           from(x) == IF x < j THEN gap(x) ELSE IF x = j THEN i ELSE gap(x - 1)
           to(y) == IF y = i THEN j
                    ELSE IF y < i THEN (IF y < j THEN y ELSE y + 1)
                    ELSE (IF y - 1 < j THEN y - 1 ELSE y)
<1>1. n \in Nat /\ i \in Nat /\ j \in Nat /\ 1 <= i /\ i <= n /\ 1 <= j /\ j <= n
  OBVIOUS
<1>2. /\ Len(m) = n
      /\ \A x \in 1 .. n : m[x] = IF x < j THEN RemoveAt(s, i)[x]
                                  ELSE IF x = j THEN s[i] ELSE RemoveAt(s, i)[x - 1]
  BY PopInsertItems
<1>3. \A x \in 1 .. n - 1 : RemoveAt(s, i)[x] = s[gap(x)]
  BY RemoveAtItems
<1> HIDE DEF m
<1>4. ASSUME NEW x \in 1 .. n PROVE from(x) \in 1 .. n /\ m[x] = s[from(x)]
  <2>1. CASE x < j
    <3>1. x \in 1 .. n - 1
      BY <1>1, <2>1
    <3> QED
      BY <1>1, <1>2, <1>3, <2>1, <3>1
  <2>2. CASE x = j
    BY <1>1, <1>2, <2>2
  <2>3. CASE x > j
    <3>1. x - 1 \in 1 .. n - 1
      BY <1>1, <2>3
    <3>2. m[x] = RemoveAt(s, i)[x - 1]
      BY <1>1, <1>2, <2>3
    <3> QED
      BY <1>1, <1>3, <2>3, <3>1, <3>2
  <2> QED
    BY <1>1, <2>1, <2>2, <2>3
<1>5. \A x, y \in 1 .. n : from(x) = from(y) => x = y
  BY <1>1
<1>6. \A y \in 1 .. n : to(y) \in 1 .. n /\ from(to(y)) = y
  BY <1>1
<1> HIDE DEF from, to
<1>7. Distinct(m)
  <2> SUFFICES ASSUME NEW x \in 1 .. n, NEW y \in 1 .. n, m[x] = m[y] PROVE x = y
    BY <1>2 DEF Distinct
  <2>1. /\ from(x) \in 1 .. n /\ from(y) \in 1 .. n
        /\ s[from(x)] = s[from(y)]
    BY <1>4
  <2>2. from(x) = from(y)
    BY <2>1 DEF ListsSet, Distinct
  <2> QED
    BY <1>5, <2>2
<1>8. ASSUME NEW k PROVE k \in T <=> \E x \in 1 .. n : m[x] = k
  <2>1. k \in T <=> \E y \in 1 .. n : s[y] = k
    BY DEF ListsSet
  <2>2. ASSUME NEW y \in 1 .. n, s[y] = k PROVE \E x \in 1 .. n : m[x] = k
    <3>1. to(y) \in 1 .. n /\ m[to(y)] = s[from(to(y))] /\ from(to(y)) = y
      BY <1>4, <1>6
    <3> QED
      BY <2>2, <3>1
  <2>3. ASSUME NEW x \in 1 .. n, m[x] = k PROVE \E y \in 1 .. n : s[y] = k
    BY <1>4, <2>3
  <2> QED
    BY <2>1, <2>2, <2>3
<1> QED
  BY <1>2, <1>7, <1>8 DEF ListsSet, m

\* A webhook that was moved to the end is behind all others.
LEMMA MovedToEnd ==
    ASSUME NEW S, NEW s \in Seq(S), NEW i \in 1 .. Len(s)
    PROVE  LET m == PopInsert(s, i - 1, Len(s) - 1) IN
           m[Len(s)] = s[i] /\ SubSeq(m, 1, Len(s) - 1) = RemoveAt(s, i)
<1> DEFINE n == Len(s)
           m == PopInsert(s, i - 1, n - 1)
           r == RemoveAt(s, i)
           q == SubSeq(m, 1, n - 1)
<1>1. n \in Nat /\ n \in 1 .. n /\ n - 1 \in Int
  OBVIOUS
<1>2. /\ m \in Seq(S) /\ Len(m) = n
      /\ \A x \in 1 .. n : m[x] = IF x < n THEN r[x] ELSE IF x = n THEN s[i] ELSE r[x - 1]
  <2>1. ASSUME NEW j \in 1 .. n
        PROVE  LET v == PopInsert(s, i - 1, j - 1) IN
               /\ v \in Seq(S) /\ Len(v) = n
               /\ \A x \in 1 .. n :
                     v[x] = IF x < j THEN r[x] ELSE IF x = j THEN s[i] ELSE r[x - 1]
    BY PopInsertItems
  <2> QED
    BY <1>1, <2>1
<1>3. r \in Seq(S) /\ Len(r) = n - 1
  BY RemoveAtItems
<1> HIDE DEF m, r, n
<1>4. \A x \in 1 .. n - 1 : m[x] \in S
  BY <1>1, <1>2
<1>5. /\ q \in Seq(S) /\ Len(q) = IF 1 <= n - 1 THEN (n - 1) - 1 + 1 ELSE 0
      /\ \A x \in 1 .. (n - 1) - 1 + 1 : q[x] = m[1 + x - 1]
  BY <1>1, <1>4, SubSeqProperties
<1>6. Len(q) = n - 1 /\ \A x \in 1 .. n - 1 : q[x] = r[x]
  BY <1>1, <1>2, <1>5
<1> HIDE DEF q
<1>7. q = r
  BY <1>3, <1>5, <1>6, SeqEqual
<1>8. m[n] = s[i]
  BY <1>1, <1>2
<1> QED
  BY <1>7, <1>8 DEF m, r, n, q

\* The first item of what is left, and what is left after it.
LEMMA RestOfList ==
    ASSUME NEW S, NEW s \in Seq(S), NEW left \in Seq(S), IsRest(left, s), left # << >>
    PROVE  LET n == Len(s) - Len(left) + 1 IN
           /\ n \in 1 .. Len(s) /\ Head(left) = s[n] /\ Head(left) \in S
           /\ Tail(left) \in Seq(S) /\ Len(Tail(left)) = Len(left) - 1
           /\ IsRest(Tail(left), s)
           /\ Done(Tail(left), s) = Done(left, s) \union {n}
<1> DEFINE n == Len(s) - Len(left) + 1
           t == Tail(left)
<1>1. /\ Len(s) \in Nat /\ Len(left) \in Nat \ {0} /\ Len(left) <= Len(s)
  BY EmptySeq DEF IsRest
<1>2. /\ t \in Seq(S) /\ Len(t) = Len(left) - 1 /\ Head(left) \in S
      /\ \A i \in 1 .. Len(t) : t[i] = left[i + 1]
  BY HeadTailProperties
<1>3. n \in 1 .. Len(s)
  BY <1>1
<1>4. Head(left) = s[n]
  <2>1. Head(left) = left[1] /\ 1 \in 1 .. Len(left)
    BY <1>1
  <2> QED
    BY <2>1 DEF IsRest
<1> HIDE DEF t
<1>5. IsRest(t, s)
  <2>1. ASSUME NEW i \in 1 .. Len(t) PROVE t[i] = s[Len(s) - Len(t) + i]
    <3>1. i + 1 \in 1 .. Len(left) /\ Len(s) - Len(left) + (i + 1) = Len(s) - Len(t) + i
      BY <1>1, <1>2
    <3> QED
      BY <1>2, <3>1 DEF IsRest
  <2> QED
    BY <1>1, <1>2, <2>1 DEF IsRest
<1>6. Done(t, s) = Done(left, s) \union {n}
  BY <1>1, <1>2 DEF Done
<1> QED
  BY <1>2, <1>3, <1>4, <1>5, <1>6 DEF t

-----------------------------------------------------------------------------
\* Calls

LEMMA IdleOK ==
    /\ Idle \in Calls /\ Idle.pc = "idle" /\ Idle.policy = None
    /\ \A O, N : CallInv(Idle, O, N)
<1>1. << >> \in Seq(Keys)
  OBVIOUS
<1>2. Idle \in Calls /\ Idle.pc = "idle" /\ Idle.policy = None
  BY <1>1 DEF Idle, Call, Calls
<1> HIDE DEF Idle
<1> QED
  BY <1>2 DEF CallInv

\* There is one thread: its step decides what is known afterwards.
LEMMA StepOK ==
    ASSUME Serial, OrderInv, NEW h \in Handlers, NEW c \in Calls,
           handler' = [handler EXCEPT ![h] = c],
           owner' \in [Keys -> Policies \union {None}], order' \in [Keys -> Nat],
           CallInv(c, owner', order'),
           c = Idle => \A p \in Policies : \E s : IsListOf(s, p, owner', order')
    PROVE  OrderInv'
<1>1. handler' \in [Handlers -> Calls]
  BY DEF OrderInv
<1>2. \A g \in Handlers : handler'[g] = c
  BY DEF OrderInv, Serial
<1> QED
  BY <1>1, <1>2 DEF OrderInv, Resting

\* A thread that is idle finds the list of its policy in order.
LEMMA IdleFinds ==
    ASSUME Serial, OrderInv, NEW h \in Handlers, handler[h].pc = "idle", NEW p \in Policies
    PROVE  \E s : IsListOf(s, p, owner, order) /\ Listings(p) = {s}
<1>1. handler[h] = Idle
  BY DEF OrderInv, CallInv
<1>2. Resting
  BY <1>1 DEF Resting, Serial
<1>3. PICK s : IsListOf(s, p, owner, order)
  BY <1>2 DEF OrderInv
<1>4. Queried(p, owner, order) = {s}
  BY <1>3, ListingIsList DEF OrderInv
<1>5. Listings(p) = Queried(p, owner, order)
  BY DEF Listings, Queried, HooksOf, Owned
<1> QED
  BY <1>3, <1>4, <1>5

\* The lists that clients send.
LEMMA SentList ==
    ASSUME NEW list \in Lists
    PROVE  list \in Seq(Keys) /\ Distinct(list)
<1>1. Cardinality(Keys) \in Nat
  BY TablesAssumption, FS_CardinalityType
<1>2. PICK n \in 0 .. Cardinality(Keys) : list \in Injection(1 .. n, Keys)
  BY DEF Lists
<1>3. n \in Nat /\ list \in [1 .. n -> Keys] /\ IsInjective(list)
  BY <1>1, <1>2 DEF Injection
<1>4. list \in Seq(Keys) /\ Len(list) = n /\ DOMAIN list = 1 .. n
  BY <1>3
<1> QED
  BY <1>3, <1>4 DEF Distinct, IsInjective

LEMMA PutBeginsOK ==
    ASSUME Serial, OrderInv, NEW h \in Handlers, NEW p \in Policies, NEW list \in Lists,
           PutBegins(h, p, list)
    PROVE  OrderInv'
<1>1. PICK s : IsListOf(s, p, owner, order) /\ Listings(p) = {s}
  BY IdleFinds DEF PutBegins
<1> DEFINE c == Call("put", p, list, list, None, 0, s)
<1>2. handler' = [handler EXCEPT ![h] = c] /\ UNCHANGED <<owner, order>>
  BY <1>1 DEF PutBegins
<1>3. list \in Seq(Keys) /\ Distinct(list)
  BY SentList
<1>4. /\ c \in Calls
      /\ c.pc = "put" /\ c.policy = p /\ c.body = list /\ c.left = list /\ c.staged = {}
      /\ c.was = s
  BY <1>1, <1>3 DEF Calls, Call, IsListOf
<1> HIDE DEF c
<1>5. IsRest(list, list) /\ Done(list, list) = {}
  <2>1. Len(list) \in Nat
    BY <1>3
  <2> QED
    BY <2>1 DEF IsRest, Done
<1>6. PutInv(c, owner, order)
  BY <1>1, <1>3, <1>4, <1>5 DEF PutInv
<1>7. CallInv(c, owner, order)
  BY <1>4, <1>6 DEF CallInv
<1>8. c # Idle
  BY <1>4, IdleOK
<1> QED
  BY <1>2, <1>4, <1>7, <1>8, StepOK DEF OrderInv

\* What a PUT is known to hold.
LEMMA PutKnown ==
    ASSUME OrderInv, NEW h \in Handlers, handler[h].pc = "put"
    PROVE  /\ handler[h] \in Calls /\ handler[h].policy \in Policies
           /\ PutInv(handler[h], owner, order)
           /\ handler[h].body \in Seq(Keys) /\ handler[h].left \in Seq(Keys)
           /\ handler[h].staged \in SUBSET Keys /\ IsRest(handler[h].left, handler[h].body)
           /\ ~\E k \in handler[h].staged : Exists(k)
<1>1. handler[h] \in Calls /\ handler[h].policy \in Policies /\ PutInv(handler[h], owner, order)
  BY DEF OrderInv, CallInv
<1>2. /\ handler[h].body \in Seq(Keys) /\ handler[h].left \in Seq(Keys)
      /\ handler[h].staged \in SUBSET Keys
  BY <1>1 DEF Calls
<1> QED
  BY <1>1, <1>2 DEF PutInv, Exists

\* The item of a PUT that is next.
LEMMA PutHead ==
    ASSUME OrderInv, NEW h \in Handlers, handler[h].pc = "put", handler[h].left # << >>
    PROVE  LET c == handler[h]
               n == Len(c.body) - Len(c.left) + 1
           IN /\ n \in 1 .. Len(c.body) /\ Head(c.left) = c.body[n] /\ Head(c.left) \in Keys
              /\ Tail(c.left) \in Seq(Keys) /\ Len(Tail(c.left)) = Len(c.left) - 1
              /\ IsRest(Tail(c.left), c.body)
              /\ Done(Tail(c.left), c.body) = Done(c.left, c.body) \union {n}
<1> DEFINE body == handler[h].body
           left == handler[h].left
<1>1. body \in Seq(Keys) /\ left \in Seq(Keys) /\ IsRest(left, body) /\ left # << >>
  BY PutKnown
<1> HIDE DEF body, left
<1>2. LET m == Len(body) - Len(left) + 1 IN
      /\ m \in 1 .. Len(body) /\ Head(left) = body[m] /\ Head(left) \in Keys
      /\ Tail(left) \in Seq(Keys) /\ Len(Tail(left)) = Len(left) - 1
      /\ IsRest(Tail(left), body)
      /\ Done(Tail(left), body) = Done(left, body) \union {m}
  BY <1>1, RestOfList
<1> QED
  BY <1>2 DEF body, left

LEMMA PutCreatesOK ==
    ASSUME Serial, OrderInv, NEW h \in Handlers, PutCreates(h)
    PROVE  OrderInv'
<1> DEFINE c == handler[h]
           k == Head(c.left)
           n == Len(c.body) - Len(c.left) + 1
           d == [c EXCEPT !.left = Tail(c.left), !.staged = @ \union {k}]
<1>1. c.pc = "put" /\ c.left # << >> /\ owner[k] = None /\ UNCHANGED <<owner, order>>
  BY DEF PutCreates, Exists
<1>2. /\ c \in Calls /\ c.policy \in Policies /\ PutInv(c, owner, order)
      /\ c.body \in Seq(Keys) /\ c.left \in Seq(Keys) /\ c.staged \in SUBSET Keys
      /\ IsRest(c.left, c.body)
  BY <1>1, PutKnown
<1>3. /\ n \in 1 .. Len(c.body) /\ k = c.body[n] /\ k \in Keys
      /\ Tail(c.left) \in Seq(Keys) /\ Len(Tail(c.left)) = Len(c.left) - 1
      /\ IsRest(Tail(c.left), c.body)
      /\ Done(Tail(c.left), c.body) = Done(c.left, c.body) \union {n}
  BY <1>1, PutHead
<1>4. handler' = [handler EXCEPT ![h] = d]
  BY <1>2 DEF PutCreates, Calls, OrderInv
<1>5. /\ d \in Calls
      /\ d.pc = "put" /\ d.policy = c.policy /\ d.body = c.body /\ d.left = Tail(c.left)
      /\ d.staged = c.staged \union {k} /\ d.was = c.was
  BY <1>1, <1>2, <1>3 DEF Calls
<1>6. Len(Tail(c.left)) # Len(c.body)
  <2>1. Len(c.left) \in Nat /\ Len(c.body) \in Nat /\ Len(c.left) <= Len(c.body)
    BY <1>2 DEF IsRest
  <2> QED
    BY <1>3, <2>1
<1> HIDE DEF d, n, k
<1>7. PutInv(d, owner, order)
  <2>1. \A x \in d.staged : owner[x] = None /\ \E i \in Done(d.left, d.body) : d.body[i] = x
    BY <1>1, <1>2, <1>3, <1>5 DEF PutInv
  <2>2. ASSUME NEW i \in Done(d.left, d.body)
        PROVE  \/ d.body[i] \in d.staged
               \/ owner[d.body[i]] = d.policy /\ order[d.body[i]] = i - 1
    BY <1>2, <1>3, <1>5 DEF PutInv
  <2> QED
    BY <1>2, <1>3, <1>5, <1>6, <2>1, <2>2 DEF PutInv
<1>8. CallInv(d, owner, order)
  BY <1>2, <1>5, <1>7 DEF CallInv
<1>9. d # Idle
  BY <1>5, IdleOK
<1> QED
  BY <1>1, <1>4, <1>5, <1>8, <1>9, StepOK DEF OrderInv

\* The index that a commit of a PUT writes.
LEMMA PutIndex ==
    ASSUME OrderInv, NEW h \in Handlers, handler[h].pc = "put",
           NEW i \in 1 .. Len(handler[h].body)
    PROVE  IndexIn(handler[h].body, handler[h].body[i]) = i - 1
<1>1. handler[h].body \in Seq(Keys) /\ Distinct(handler[h].body)
  BY PutKnown DEF PutInv
<1> QED
  BY <1>1, IndexOfItem

LEMMA PutUpdatesOK ==
    ASSUME Serial, OrderInv, NEW h \in Handlers, PutUpdates(h)
    PROVE  OrderInv'
<1> DEFINE c == handler[h]
           k == Head(c.left)
           n == Len(c.body) - Len(c.left) + 1
           d == [c EXCEPT !.left = Tail(c.left), !.staged = {}]
           written == c.staged \union {k}
<1>1. c.pc = "put" /\ c.left # << >>
  BY DEF PutUpdates
<1>2. /\ c \in Calls /\ c.policy \in Policies /\ PutInv(c, owner, order)
      /\ c.body \in Seq(Keys) /\ c.left \in Seq(Keys) /\ c.staged \in SUBSET Keys
      /\ IsRest(c.left, c.body) /\ ~\E x \in c.staged : Exists(x)
  BY <1>1, PutKnown
<1>3. /\ n \in 1 .. Len(c.body) /\ k = c.body[n] /\ k \in Keys
      /\ Tail(c.left) \in Seq(Keys) /\ Len(Tail(c.left)) = Len(c.left) - 1
      /\ IsRest(Tail(c.left), c.body)
      /\ Done(Tail(c.left), c.body) = Done(c.left, c.body) \union {n}
  BY <1>1, PutHead
<1>4. /\ owner' = [x \in Keys |-> IF x \in written THEN c.policy ELSE owner[x]]
      /\ order' = [x \in Keys |-> IF x \in written THEN IndexIn(c.body, x) ELSE order[x]]
      /\ handler' = [handler EXCEPT ![h] = d]
  BY <1>2 DEF PutUpdates, Commits
<1>5. /\ d \in Calls
      /\ d.pc = "put" /\ d.policy = c.policy /\ d.body = c.body /\ d.left = Tail(c.left)
      /\ d.staged = {} /\ d.was = c.was
  BY <1>1, <1>2, <1>3 DEF Calls
<1>6. Len(Tail(c.left)) # Len(c.body)
  <2>1. Len(c.left) \in Nat /\ Len(c.body) \in Nat /\ Len(c.left) <= Len(c.body)
    BY <1>2 DEF IsRest
  <2> QED
    BY <1>3, <2>1
<1>7. Done(c.left, c.body) \subseteq 1 .. Len(c.body)
  <2>1. Len(c.left) \in Nat /\ Len(c.body) \in Nat
    BY <1>2
  <2>2. \A a, b \in Nat : 1 .. b - a \subseteq 1 .. b
    OBVIOUS
  <2> QED
    BY <2>1, <2>2 DEF Done
<1> HIDE DEF d, n, k
<1>8. ASSUME NEW i \in Done(d.left, d.body)
      PROVE  /\ i \in 1 .. Len(c.body) /\ c.body[i] \in Keys
             /\ owner'[c.body[i]] = c.policy /\ order'[c.body[i]] = i - 1
  <2>1. i \in 1 .. Len(c.body) /\ c.body[i] \in Keys
    BY <1>2, <1>3, <1>5, <1>7
  <2>2. IndexIn(c.body, c.body[i]) = i - 1
    BY <1>1, <2>1, PutIndex
  <2>3. c.body[i] \in written \/ (owner[c.body[i]] = c.policy /\ order[c.body[i]] = i - 1)
    BY <1>2, <1>3, <1>5 DEF PutInv
  <2> QED
    BY <1>4, <2>1, <2>2, <2>3
<1>9. \A x \in written : \E i \in 1 .. Len(c.body) : c.body[i] = x
  BY <1>2, <1>3, <1>7 DEF PutInv
<1>10. owner' \in [Keys -> Policies \union {None}] /\ order' \in [Keys -> Nat]
  <2>1. ASSUME NEW x \in Keys
        PROVE  /\ (IF x \in written THEN c.policy ELSE owner[x]) \in Policies \union {None}
               /\ (IF x \in written THEN IndexIn(c.body, x) ELSE order[x]) \in Nat
    <3>1. CASE x \notin written
      BY <3>1 DEF OrderInv
    <3>2. CASE x \in written
      <4>1. PICK i \in 1 .. Len(c.body) : c.body[i] = x
        BY <1>9, <3>2
      <4>2. IndexIn(c.body, x) = i - 1
        BY <1>1, <4>1, PutIndex
      <4>3. i - 1 \in Nat
        OBVIOUS
      <4> QED
        BY <1>2, <3>2, <4>2, <4>3
    <3> QED
      BY <3>1, <3>2
  <2> QED
    BY <1>4, <2>1
<1>11. PutInv(d, owner', order')
  BY <1>2, <1>3, <1>5, <1>6, <1>8 DEF PutInv
<1>12. CallInv(d, owner', order')
  BY <1>2, <1>5, <1>11 DEF CallInv
<1>13. d # Idle
  BY <1>5, IdleOK
<1> QED
  BY <1>4, <1>5, <1>10, <1>12, <1>13, StepOK

\* A PUT is refused at its first item: the list is as it was.
LEMMA PutRefusesOK ==
    ASSUME Serial, OrderInv, NEW h \in Handlers, PutRefuses(h)
    PROVE  /\ IsListOf(handler[h].was, handler[h].policy, owner, order)
           /\ OrderInv'
<1> DEFINE c == handler[h]
<1>1. /\ c.pc = "put" /\ Len(c.body) - Len(c.left) + 1 = 1
      /\ handler' = [handler EXCEPT ![h] = Idle] /\ UNCHANGED <<owner, order>>
  BY DEF PutRefuses, Serial, Returns
<1>2. c.policy \in Policies /\ PutInv(c, owner, order) /\ c.body \in Seq(Keys) /\ c.left \in Seq(Keys)
  BY <1>1, PutKnown
<1>3. Len(c.left) = Len(c.body)
  <2>1. Len(c.left) \in Nat /\ Len(c.body) \in Nat
    BY <1>2
  <2> QED
    BY <1>1, <2>1
<1>4. IsListOf(c.was, c.policy, owner, order)
  BY <1>2, <1>3 DEF PutInv
<1>5. \A p \in Policies : \E s : IsListOf(s, p, owner', order')
  BY <1>1, <1>2, <1>4 DEF Serial
<1> QED
  BY <1>1, <1>4, <1>5, IdleOK, StepOK DEF OrderInv

\* A PUT that ends has made its list the policy's.
LEMMA PutEndsOK ==
    ASSUME Serial, OrderInv, NEW h \in Handlers, PutEnds(h)
    PROVE  /\ handler[h].body \in Lists /\ handler[h].policy \in Policies
           /\ IsListOf(handler[h].body, handler[h].policy, owner', order')
           /\ handler' = [handler EXCEPT ![h] = Idle]
           /\ last' = [op |-> "put", policy |-> handler[h].policy, list |-> handler[h].body]
           /\ OrderInv'
<1> DEFINE c == handler[h]
           p == c.policy
           removed == HooksOf(p) \ Range(c.body)
<1>1. c.pc = "put" /\ c.left = << >>
  BY DEF PutEnds
<1>2. /\ c \in Calls /\ p \in Policies /\ PutInv(c, owner, order)
      /\ c.body \in Seq(Keys) /\ c.staged \in SUBSET Keys
      /\ ~\E x \in c.staged : Exists(x)
  BY <1>1, PutKnown
<1>3. /\ owner' = [x \in Keys |-> IF x \in c.staged THEN p ELSE IF x \in removed THEN None ELSE owner[x]]
      /\ order' = [x \in Keys |-> IF x \in c.staged THEN IndexIn(c.body, x)
                                  ELSE IF x \in removed THEN 0 ELSE order[x]]
      /\ handler' = [handler EXCEPT ![h] = Idle]
      /\ last' = [op |-> "put", policy |-> p, list |-> c.body]
  BY <1>2 DEF PutEnds, Commits
<1>4. /\ Done(c.left, c.body) = 1 .. Len(c.body)
  <2>1. Len(c.left) = 0 /\ Len(c.body) \in Nat
    BY <1>1, <1>2
  <2> QED
    BY <2>1 DEF Done
<1>5. \A x : x \in Range(c.body) <=> \E i \in 1 .. Len(c.body) : c.body[i] = x
  <2>1. DOMAIN c.body = 1 .. Len(c.body)
    BY <1>2
  <2> QED
    BY <2>1 DEF Range
<1>6. ASSUME NEW i \in 1 .. Len(c.body)
      PROVE  owner'[c.body[i]] = p /\ order'[c.body[i]] = i - 1
  <2>1. c.body[i] \in Keys /\ c.body[i] \notin removed
    BY <1>2, <1>5
  <2>2. IndexIn(c.body, c.body[i]) = i - 1
    BY <1>1, PutIndex
  <2>3. c.body[i] \in c.staged \/ (owner[c.body[i]] = p /\ order[c.body[i]] = i - 1)
    BY <1>2, <1>4 DEF PutInv
  <2> HIDE DEF removed
  <2> QED
    BY <1>3, <2>1, <2>2, <2>3
<1>7. ASSUME NEW x \in Keys, owner'[x] = p PROVE \E i \in 1 .. Len(c.body) : c.body[i] = x
  <2>1. p # None
    BY <1>2, TablesAssumption
  <2>2. CASE x \in c.staged
    BY <1>2, <1>4, <2>2 DEF PutInv
  <2>3. CASE x \notin c.staged
    BY <1>3, <1>5, <1>7, <2>1, <2>3 DEF HooksOf
  <2> QED
    BY <2>2, <2>3
<1>8. IsListOf(c.body, p, owner', order')
  <2>1. \A x : x \in Owned(p, owner') <=> \E i \in 1 .. Len(c.body) : c.body[i] = x
    <3>1. \A i \in 1 .. Len(c.body) : c.body[i] \in Keys
      BY <1>2
    <3> QED
      BY <1>6, <1>7, <3>1 DEF Owned
  <2> QED
    BY <1>2, <1>6, <2>1 DEF IsListOf, ListsSet, PutInv
<1>9. owner' \in [Keys -> Policies \union {None}] /\ order' \in [Keys -> Nat]
  <2>1. ASSUME NEW x \in c.staged PROVE IndexIn(c.body, x) \in Nat
    <3>1. PICK i \in 1 .. Len(c.body) : c.body[i] = x
      BY <1>2, <1>4 DEF PutInv
    <3>2. IndexIn(c.body, x) = i - 1
      BY <1>1, <3>1, PutIndex
    <3> QED
      BY <3>2
  <2> HIDE DEF removed
  <2> QED
    BY <1>2, <1>3, <2>1 DEF OrderInv
<1>10. \A q \in Policies : \E s : IsListOf(s, q, owner', order')
  BY <1>2, <1>8 DEF Serial
<1>11. OrderInv'
  BY <1>3, <1>9, <1>10, IdleOK, StepOK
<1> QED
  BY <1>2, <1>3, <1>8, <1>11 DEF PutInv

\* A webhook of a policy is in its list, where its order says.
LEMMA HookInList ==
    ASSUME Serial, OrderInv, NEW h \in Handlers, handler[h].pc = "idle",
           NEW k \in Keys, Exists(k)
    PROVE  /\ owner[k] \in Policies
           /\ \E s \in Seq(Keys) :
                 /\ IsListOf(s, owner[k], owner, order) /\ Listings(owner[k]) = {s}
                 /\ Len(s) = Cardinality(HooksOf(owner[k]))
                 /\ order[k] + 1 \in 1 .. Len(s) /\ s[order[k] + 1] = k
<1> DEFINE p == owner[k]
<1>1. p \in Policies /\ order[k] \in Nat
  BY DEF OrderInv, Exists
<1>2. PICK s : IsListOf(s, p, owner, order) /\ Listings(p) = {s}
  BY <1>1, IdleFinds
<1>3. s \in Seq(Keys) /\ ListsSet(s, Owned(p, owner)) /\ k \in Owned(p, owner)
  BY <1>2 DEF IsListOf, Owned
<1>4. PICK i \in 1 .. Len(s) : s[i] = k
  BY <1>3 DEF ListsSet
<1>5. order[k] = i - 1
  BY <1>2, <1>4 DEF IsListOf
<1>6. order[k] + 1 = i
  BY <1>5
<1>7. Cardinality(Owned(p, owner)) = Len(s) /\ HooksOf(p) = Owned(p, owner)
  BY <1>3, ListLength DEF HooksOf, Owned
<1> QED
  BY <1>1, <1>2, <1>3, <1>4, <1>6, <1>7

\* The call that moves webhook k of list s to index j.
LEMMA ReorderBeginsOK ==
    ASSUME Serial, OrderInv, NEW h \in Handlers, NEW pc \in {"patch", "delete"},
           NEW p \in Policies, NEW k \in Keys, NEW s \in Seq(Keys),
           IsListOf(s, p, owner, order), order[k] + 1 \in 1 .. Len(s), s[order[k] + 1] = k,
           NEW j \in Nat, j + 1 \in 1 .. Len(s), pc = "delete" => j = Len(s) - 1,
           ReorderBegins(h, pc, p, k, j, s)
    PROVE  OrderInv'
<1> DEFINE i == order[k] + 1
           y == j + 1
           m == PopInsert(s, order[k], j)
           c == Call(pc, p, m, s, k, j, s)
<1>1. handler' = [handler EXCEPT ![h] = c] /\ UNCHANGED <<owner, order>>
  BY DEF ReorderBegins
<1>2. order[k] \in Nat /\ order[k] = i - 1 /\ j = y - 1 /\ i \in 1 .. Len(s) /\ y \in 1 .. Len(s)
  BY DEF OrderInv
<1>3. m = PopInsert(s, i - 1, y - 1)
  BY <1>2
<1>4. Len(s) \in Nat
  OBVIOUS
<1> HIDE DEF i, y, m
<1>5. m \in Seq(Keys) /\ Len(m) = Len(s)
  BY <1>2, <1>3, PopInsertItems
<1>6. ListsSet(s, Owned(p, owner))
  BY DEF IsListOf
<1>7. ListsSet(m, Owned(p, owner))
  BY <1>2, <1>3, <1>6, PopInsertLists
<1>8. pc = "delete" => m[Len(m)] = s[i] /\ SubSeq(m, 1, Len(m) - 1) = RemoveAt(s, i)
  <2>1. pc = "delete" => m = PopInsert(s, i - 1, Len(s) - 1)
    BY <1>2, <1>3
  <2> QED
    BY <1>2, <1>5, <2>1, MovedToEnd
<1>9. /\ c \in Calls
      /\ c.pc = pc /\ c.policy = p /\ c.body = m /\ c.left = s /\ c.was = s
      /\ c.key = k /\ c.to = j
  BY <1>5 DEF Calls, Call
<1> HIDE DEF c
<1>10. IsRest(s, s) /\ Done(s, s) = {}
  BY <1>4 DEF IsRest, Done
<1>11. s # << >>
  BY <1>2
<1>12. s[i] = k /\ m = PopInsert(s, i - 1, j)
  BY <1>2 DEF i, m
<1>13. ReorderInv(c, owner, order)
  BY <1>2, <1>5, <1>6, <1>7, <1>8, <1>9, <1>10, <1>11, <1>12 DEF ReorderInv
<1>14. CallInv(c, owner, order)
  BY <1>9, <1>13 DEF CallInv
<1>15. c # Idle
  BY <1>9, IdleOK
<1> QED
  BY <1>1, <1>9, <1>14, <1>15, StepOK DEF OrderInv

LEMMA PatchBeginsOK ==
    ASSUME Serial, OrderInv, NEW h \in Handlers, NEW k \in Keys,
           NEW j \in 0 .. Cardinality(Keys) - 1, PatchBegins(h, k, j)
    PROVE  OrderInv'
<1>1. handler[h].pc = "idle" /\ Exists(k) /\ j < Cardinality(HooksOf(owner[k])) /\ j \in Nat
  <2>1. Cardinality(Keys) \in Nat
    BY TablesAssumption, FS_CardinalityType
  <2> QED
    BY <2>1 DEF PatchBegins
<1>2. PICK s \in Seq(Keys) :
         /\ IsListOf(s, owner[k], owner, order) /\ Listings(owner[k]) = {s}
         /\ Len(s) = Cardinality(HooksOf(owner[k]))
         /\ order[k] + 1 \in 1 .. Len(s) /\ s[order[k] + 1] = k
  BY <1>1, HookInList
<1>3. owner[k] \in Policies
  BY <1>1, HookInList
<1>4. ReorderBegins(h, "patch", owner[k], k, j, s)
  BY <1>2 DEF PatchBegins
<1>5. j + 1 \in 1 .. Len(s)
  <2>1. Len(s) \in Nat
    OBVIOUS
  <2> QED
    BY <1>1, <1>2, <2>1
<1> QED
  BY <1>1, <1>2, <1>3, <1>4, <1>5, ReorderBeginsOK

\* Removing the last item of a list.
LEMMA RemoveLast ==
    ASSUME NEW S, NEW s \in Seq(S), Len(s) >= 1
    PROVE  RemoveAt(s, Len(s)) = SubSeq(s, 1, Len(s) - 1)
<1> DEFINE a == SubSeq(s, 1, Len(s) - 1)
<1>1. Len(s) \in Nat /\ \A x \in 1 .. Len(s) - 1 : s[x] \in S
  OBVIOUS
<1>2. a \in Seq(S)
  BY <1>1, SubSeqProperties
<1>3. SubSeq(s, Len(s) + 1, Len(s)) = << >>
  BY <1>1, SubSeqEmpty
<1> HIDE DEF a
<1>4. a \o << >> = a
  BY <1>2, ConcatEmptySeq
<1> QED
  BY <1>3, <1>4 DEF RemoveAt, a

LEMMA DeleteBeginsOK ==
    ASSUME Serial, OrderInv, NEW h \in Handlers, NEW k \in Keys, DeleteBegins(h, k)
    PROVE  OrderInv'
<1> DEFINE p == owner[k]
           final == Cardinality(HooksOf(p)) - 1
<1>1. handler[h].pc = "idle" /\ Exists(k)
  BY DEF DeleteBegins
<1>2. PICK s \in Seq(Keys) :
         /\ IsListOf(s, p, owner, order) /\ Listings(p) = {s}
         /\ Len(s) = Cardinality(HooksOf(p))
         /\ order[k] + 1 \in 1 .. Len(s) /\ s[order[k] + 1] = k
  BY <1>1, HookInList
<1>3. p \in Policies
  BY <1>1, HookInList
<1>4. /\ Len(s) \in Nat /\ order[k] \in Nat /\ final = Len(s) - 1 /\ final \in Nat
      /\ final + 1 \in 1 .. Len(s)
  <2>1. Len(s) \in Nat /\ order[k] \in Nat
    BY DEF OrderInv
  <2> QED
    BY <1>2, <2>1
<1>5. CASE final # order[k]
  <2>1. ReorderBegins(h, "delete", p, k, final, s)
    BY <1>2, <1>5 DEF DeleteBegins
  <2> HIDE DEF p, final
  <2>2. order[k] + 1 \in 1 .. Len(s) /\ s[order[k] + 1] = k /\ IsListOf(s, p, owner, order)
    BY <1>2
  <2> QED
    BY <1>3, <1>4, <2>1, <2>2, ReorderBeginsOK
<1>6. CASE final = order[k]
  <2> DEFINE c == Call("delete", p, s, << >>, k, 0, s)
  <2>1. handler' = [handler EXCEPT ![h] = c] /\ UNCHANGED <<owner, order>>
    BY <1>2, <1>6 DEF DeleteBegins
  <2>2. s[Len(s)] = k /\ Len(s) >= 1 /\ Len(s) \in 1 .. Len(s)
    BY <1>2, <1>4, <1>6
  <2>3. SubSeq(s, 1, Len(s) - 1) = RemoveAt(s, Len(s))
    BY <2>2, RemoveLast
  <2>4. /\ c \in Calls
        /\ c.pc = "delete" /\ c.policy = p /\ c.body = s /\ c.left = << >> /\ c.was = s
        /\ c.key = k
    <3>1. << >> \in Seq(Keys)
      OBVIOUS
    <3> QED
      BY <1>3, <3>1 DEF Calls, Call
  <2> HIDE DEF c, p, final
  <2>5. IsRest(<< >>, s) /\ Done(<< >>, s) = 1 .. Len(s)
    BY <1>4 DEF IsRest, Done
  <2>6. ListsSet(s, Owned(p, owner)) /\ \A i \in 1 .. Len(s) : order[s[i]] = i - 1
    BY <1>2 DEF IsListOf
  <2>7. ASSUME NEW i \in 1 .. Len(s) PROVE order[s[i]] = IndexIn(s, s[i])
    <3>1. IndexIn(s, s[i]) = i - 1
      BY <2>6, IndexOfItem DEF ListsSet
    <3> QED
      BY <2>6, <3>1
  <2>8. ReorderInv(c, owner, order)
    BY <2>2, <2>3, <2>4, <2>5, <2>6, <2>7 DEF ReorderInv
  <2>9. CallInv(c, owner, order)
    BY <1>3, <2>4, <2>8 DEF CallInv
  <2>10. c # Idle
    BY <2>4, IdleOK
  <2> QED
    BY <2>1, <2>4, <2>9, <2>10, StepOK DEF OrderInv
<1> QED
  BY <1>5, <1>6

\* What a reordering is known to hold.
LEMMA ReorderKnown ==
    ASSUME OrderInv, NEW h \in Handlers, handler[h].pc \in {"patch", "delete"}
    PROVE  /\ handler[h] \in Calls /\ handler[h].policy \in Policies
           /\ ReorderInv(handler[h], owner, order)
           /\ handler[h].body \in Seq(Keys) /\ handler[h].left \in Seq(Keys)
           /\ handler[h].was \in Seq(Keys) /\ IsRest(handler[h].left, handler[h].was)
<1>1. /\ handler[h] \in Calls /\ handler[h].policy \in Policies
      /\ ReorderInv(handler[h], owner, order)
  BY DEF OrderInv, CallInv
<1> QED
  BY <1>1 DEF Calls, ReorderInv

\* The webhook of a reordering that is next.
LEMMA ReorderHead ==
    ASSUME OrderInv, NEW h \in Handlers, handler[h].pc \in {"patch", "delete"},
           handler[h].left # << >>
    PROVE  LET c == handler[h]
               n == Len(c.was) - Len(c.left) + 1
           IN /\ n \in 1 .. Len(c.was) /\ Head(c.left) = c.was[n] /\ Head(c.left) \in Keys
              /\ Tail(c.left) \in Seq(Keys) /\ Len(Tail(c.left)) = Len(c.left) - 1
              /\ IsRest(Tail(c.left), c.was)
              /\ Done(Tail(c.left), c.was) = Done(c.left, c.was) \union {n}
              /\ owner[Head(c.left)] = c.policy
<1> DEFINE was == handler[h].was
           left == handler[h].left
           p == handler[h].policy
<1>1. /\ was \in Seq(Keys) /\ left \in Seq(Keys) /\ IsRest(left, was) /\ left # << >>
      /\ ListsSet(was, Owned(p, owner))
  BY ReorderKnown DEF ReorderInv
<1> HIDE DEF was, left, p
<1>2. LET m == Len(was) - Len(left) + 1 IN
      /\ m \in 1 .. Len(was) /\ Head(left) = was[m] /\ Head(left) \in Keys
      /\ Tail(left) \in Seq(Keys) /\ Len(Tail(left)) = Len(left) - 1
      /\ IsRest(Tail(left), was)
      /\ Done(Tail(left), was) = Done(left, was) \union {m}
  BY <1>1, RestOfList
<1>3. owner[Head(left)] = p
  BY <1>1, <1>2 DEF ListsSet, Owned
<1> QED
  BY <1>2, <1>3 DEF was, left, p

\* When all are done, the new list is the policy's.
LEMMA ReorderedList ==
    ASSUME NEW body \in Seq(Keys), NEW was \in Seq(Keys), NEW p, NEW O, NEW N,
           ListsSet(was, Owned(p, O)), ListsSet(body, Owned(p, O)),
           \A i \in 1 .. Len(was) : N[was[i]] = IndexIn(body, was[i])
    PROVE  IsListOf(body, p, O, N)
<1>1. ASSUME NEW i \in 1 .. Len(body) PROVE N[body[i]] = i - 1
  <2>1. PICK x \in 1 .. Len(was) : was[x] = body[i]
    BY DEF ListsSet
  <2>2. IndexIn(body, body[i]) = i - 1
    BY IndexOfItem DEF ListsSet
  <2> QED
    BY <2>1, <2>2
<1> QED
  BY <1>1 DEF IsListOf

\* A webhook is written: the call goes on, or it was the last of a PATCH, whose list
\* is the policy's then.
LEMMA ReorderWritesOK ==
    ASSUME Serial, OrderInv, NEW h \in Handlers, ReorderWrites(h)
    PROVE  LET c == handler[h] IN
           /\ OrderInv'
           /\ c.pc # "idle" /\ c.policy \in Policies
           /\ \/ /\ c.pc = "patch" /\ IsListOf(c.body, c.policy, owner', order')
                 /\ handler' = [handler EXCEPT ![h] = Idle]
                 /\ last' = [op |-> "patch", key |-> c.key, to |-> c.to]
              \/ /\ handler' = [handler EXCEPT ![h] = [c EXCEPT !.left = Tail(c.left)]]
                 /\ UNCHANGED last
<1> DEFINE c == handler[h]
           p == c.policy
           k == Head(c.left)
           n == Len(c.was) - Len(c.left) + 1
           d == [c EXCEPT !.left = Tail(c.left)]
<1>1. c.pc \in {"patch", "delete"} /\ c.left # << >>
  BY DEF ReorderWrites
<1>2. /\ c \in Calls /\ p \in Policies /\ ReorderInv(c, owner, order)
      /\ c.body \in Seq(Keys) /\ c.left \in Seq(Keys) /\ c.was \in Seq(Keys)
      /\ IsRest(c.left, c.was)
  BY <1>1, ReorderKnown
<1>3. /\ n \in 1 .. Len(c.was) /\ k = c.was[n] /\ k \in Keys
      /\ Tail(c.left) \in Seq(Keys) /\ Len(Tail(c.left)) = Len(c.left) - 1
      /\ IsRest(Tail(c.left), c.was)
      /\ Done(Tail(c.left), c.was) = Done(c.left, c.was) \union {n}
      /\ owner[k] = p
  BY <1>1, ReorderHead
<1>4. Exists(k)
  BY <1>2, <1>3, TablesAssumption DEF Exists
<1>5. UNCHANGED owner /\ order' = [order EXCEPT ![k] = IndexIn(c.body, k)]
  BY <1>4 DEF ReorderWrites
<1>6. /\ ListsSet(c.was, Owned(p, owner)) /\ ListsSet(c.body, Owned(p, owner))
      /\ \A i \in Done(c.left, c.was) : order[c.was[i]] = IndexIn(c.body, c.was[i])
  BY <1>2 DEF ReorderInv
<1>7. IndexIn(c.body, k) \in Nat
  <2>1. PICK i \in 1 .. Len(c.body) : c.body[i] = k
    BY <1>3, <1>6 DEF ListsSet, Owned
  <2>2. IndexIn(c.body, k) = i - 1
    <3> DEFINE body == c.body
    <3>1. body \in Seq(Keys) /\ Distinct(body) /\ i \in 1 .. Len(body) /\ body[i] = k
      BY <1>2, <1>6, <2>1 DEF ListsSet
    <3> HIDE DEF body
    <3>2. IndexIn(body, k) = i - 1
      BY <3>1, IndexOfItem
    <3> QED
      BY <3>2 DEF body
  <2> QED
    BY <2>2
<1>8. order' \in [Keys -> Nat] /\ owner' \in [Keys -> Policies \union {None}]
  BY <1>5, <1>7 DEF OrderInv
<1>9. Len(c.left) \in Nat \ {0} /\ Len(c.was) \in Nat
  BY <1>1, <1>2, EmptySeq
<1>10. ASSUME NEW i \in Done(Tail(c.left), c.was)
       PROVE  order'[c.was[i]] = IndexIn(c.body, c.was[i])
  <2>1. i \in 1 .. Len(c.was)
    <3>1. i \in Done(c.left, c.was) \union {n}
      BY <1>3
    <3>2. \A a, b \in Nat : 1 .. b - a \subseteq 1 .. b
      OBVIOUS
    <3>3. Done(c.left, c.was) \subseteq 1 .. Len(c.was)
      BY <1>9, <3>2 DEF Done
    <3> QED
      BY <1>3, <3>1, <3>3
  <2>2. c.was[i] \in Keys
    BY <1>2, <2>1
  <2>3. CASE i = n
    BY <1>3, <1>5, <2>2, <2>3 DEF OrderInv
  <2>4. CASE i # n
    <3>1. c.was[i] # k
      BY <1>3, <1>6, <2>1, <2>4 DEF ListsSet, Distinct
    <3>2. order[c.was[i]] = IndexIn(c.body, c.was[i])
      BY <1>3, <1>6, <2>4
    <3> QED
      BY <1>5, <2>2, <3>1, <3>2 DEF OrderInv
  <2> QED
    BY <2>3, <2>4
<1>11. CASE c.pc = "patch" /\ Len(c.left) = 1
  <2>1. /\ handler' = [handler EXCEPT ![h] = Idle]
        /\ last' = [op |-> "patch", key |-> c.key, to |-> c.to]
    BY <1>4, <1>11 DEF ReorderWrites, Returns
  <2>2. Done(Tail(c.left), c.was) = 1 .. Len(c.was)
    <3>1. Len(Tail(c.left)) = 0
      BY <1>3, <1>11
    <3>2. \A b \in Nat : 1 .. b - 0 = 1 .. b
      OBVIOUS
    <3> QED
      BY <1>9, <3>1, <3>2 DEF Done
  <2>3. \A i \in 1 .. Len(c.was) : order'[c.was[i]] = IndexIn(c.body, c.was[i])
    BY <1>10, <2>2
  <2>4. IsListOf(c.body, p, owner', order')
    <3> DEFINE body == c.body
               was == c.was
               q == c.policy
    <3>1. /\ body \in Seq(Keys) /\ was \in Seq(Keys)
          /\ ListsSet(was, Owned(q, owner')) /\ ListsSet(body, Owned(q, owner'))
          /\ \A i \in 1 .. Len(was) : order'[was[i]] = IndexIn(body, was[i])
      BY <1>2, <1>5, <1>6, <2>3
    <3> HIDE DEF body, was, q
    <3>2. IsListOf(body, q, owner', order')
      BY <3>1, ReorderedList
    <3> QED
      BY <3>2 DEF body, was, q
  <2>5. \A q \in Policies : \E s : IsListOf(s, q, owner', order')
    BY <1>2, <2>4 DEF Serial
  <2>6. OrderInv'
    BY <1>8, <2>1, <2>5, IdleOK, StepOK
  <2> QED
    BY <1>1, <1>2, <1>11, <2>1, <2>4, <2>6
<1>12. CASE ~(c.pc = "patch" /\ Len(c.left) = 1)
  <2>1. handler' = [handler EXCEPT ![h] = d] /\ UNCHANGED last
    BY <1>2, <1>4, <1>12 DEF ReorderWrites, OrderInv, Calls
  <2>2. /\ d \in Calls
        /\ d.pc = c.pc /\ d.policy = p /\ d.body = c.body /\ d.left = Tail(c.left)
        /\ d.was = c.was /\ d.key = c.key /\ d.to = c.to
    BY <1>2, <1>3 DEF Calls
  <2>3. c.pc = "patch" => Tail(c.left) # << >>
    <3>1. c.pc = "patch" => Len(Tail(c.left)) # 0
      BY <1>3, <1>9, <1>12
    <3> QED
      BY <3>1
  <2> HIDE DEF d
  <2>4. ReorderInv(d, owner', order')
    <3>1. PICK i \in 1 .. Len(c.was) :
             /\ c.was[i] = c.key
             /\ c.pc = "patch" => /\ c.left # << >> /\ c.to + 1 \in 1 .. Len(c.was)
                                  /\ c.body = PopInsert(c.was, i - 1, c.to)
             /\ c.pc = "delete" => /\ Len(c.body) = Len(c.was) /\ c.body[Len(c.body)] = c.key
                                   /\ SubSeq(c.body, 1, Len(c.body) - 1) = RemoveAt(c.was, i)
      BY <1>2 DEF ReorderInv
    <3> HIDE DEF c
    <3> QED
      BY <1>3, <1>5, <1>6, <1>10, <2>2, <2>3, <3>1 DEF ReorderInv
  <2>5. CallInv(d, owner', order')
    BY <1>1, <1>2, <2>2, <2>4 DEF CallInv
  <2>6. d # Idle
    BY <1>1, <2>2, IdleOK
  <2>7. OrderInv'
    BY <1>8, <2>1, <2>2, <2>5, <2>6, StepOK
  <2> QED
    BY <1>1, <1>2, <2>1, <2>7 DEF d
<1> QED
  BY <1>11, <1>12

\* Without its last webhook, a list is in order as well.
LEMMA DropLast ==
    ASSUME NEW s \in Seq(Keys), NEW p, p # None, NEW O \in [Keys -> Policies \union {None}],
           NEW N \in [Keys -> Nat], IsListOf(s, p, O, N), Len(s) >= 1,
           NEW k, k = s[Len(s)]
    PROVE  IsListOf(SubSeq(s, 1, Len(s) - 1), p, [O EXCEPT ![k] = None], [N EXCEPT ![k] = 0])
<1> DEFINE n == Len(s)
           q == SubSeq(s, 1, n - 1)
           P == [O EXCEPT ![k] = None]
           M == [N EXCEPT ![k] = 0]
<1>1. n \in Nat /\ n \in 1 .. n /\ \A x \in 1 .. n : s[x] \in Keys
  OBVIOUS
<1>2. q \in Seq(Keys) /\ Len(q) = n - 1 /\ \A x \in 1 .. n - 1 : q[x] = s[x]
  <2>1. 1 \in Int /\ n - 1 \in Int /\ \A x \in 1 .. n - 1 : s[x] \in Keys
    BY <1>1
  <2>2. /\ q \in Seq(Keys) /\ Len(q) = IF 1 <= n - 1 THEN (n - 1) - 1 + 1 ELSE 0
        /\ \A x \in 1 .. (n - 1) - 1 + 1 : q[x] = s[1 + x - 1]
    BY <2>1, SubSeqProperties
  <2> HIDE DEF n, q
  <2> QED
    BY <1>1, <2>2
<1> HIDE DEF n, q
<1>3. /\ \A i, j \in 1 .. n : s[i] = s[j] => i = j
      /\ \A x : x \in Owned(p, O) <=> \E i \in 1 .. n : s[i] = x
      /\ \A i \in 1 .. n : N[s[i]] = i - 1
  BY DEF IsListOf, ListsSet, Distinct, n
<1>4. s[n] = k /\ k \in Keys
  BY <1>1 DEF n
<1>5. \A x \in Keys : P[x] = (IF x = k THEN None ELSE O[x]) /\ M[x] = IF x = k THEN 0 ELSE N[x]
  OBVIOUS
<1> HIDE DEF P, M
<1>6. ASSUME NEW i \in 1 .. n - 1 PROVE i \in 1 .. n /\ q[i] = s[i] /\ s[i] # k /\ s[i] \in Keys
  <2>1. i \in 1 .. n /\ i # n
    BY <1>1
  <2> QED
    BY <1>1, <1>2, <1>3, <1>4, <2>1
<1>7. Distinct(q)
  <2>1. ASSUME NEW i \in 1 .. n - 1, NEW j \in 1 .. n - 1, q[i] = q[j] PROVE i = j
    <3>1. /\ i \in 1 .. n /\ q[i] = s[i]
          /\ j \in 1 .. n /\ q[j] = s[j]
      BY <1>6
    <3>2. s[i] = s[j]
      BY <2>1, <3>1
    <3> QED
      BY <1>3, <3>1, <3>2
  <2>2. Len(q) = n - 1
    BY <1>2
  <2> QED
    BY <2>1, <2>2 DEF Distinct
<1>8. ASSUME NEW x, x \in Owned(p, P) PROVE \E i \in 1 .. n - 1 : q[i] = x
  <2>1. x \in Owned(p, O) /\ x # k
    BY <1>5, <1>8 DEF Owned
  <2>2. PICK i \in 1 .. n : s[i] = x
    BY <1>3, <2>1
  <2>3. i \in 1 .. n - 1
    BY <1>1, <1>4, <2>1, <2>2
  <2> QED
    BY <1>2, <2>2, <2>3
<1>9. ASSUME NEW i \in 1 .. n - 1 PROVE q[i] \in Owned(p, P) /\ M[q[i]] = i - 1
  <2>1. s[i] \in Owned(p, O) /\ N[s[i]] = i - 1
    BY <1>3, <1>6
  <2> QED
    BY <1>5, <1>6, <2>1 DEF Owned
<1>10. ListsSet(q, Owned(p, P))
  BY <1>2, <1>7, <1>8, <1>9 DEF ListsSet
<1>11. IsListOf(q, p, P, M)
  BY <1>2, <1>9, <1>10 DEF IsListOf
<1> QED
  BY <1>11 DEF n, q, P, M

\* A webhook is deleted when it is the last of the list in order.
LEMMA DeleteEndsOK ==
    ASSUME Serial, OrderInv, NEW h \in Handlers, DeleteEnds(h)
    PROVE  LET c == handler[h] IN
           /\ OrderInv'
           /\ c.policy \in Policies
           /\ \E i \in 1 .. Len(c.was) :
                 /\ c.was[i] = c.key
                 /\ IsListOf(RemoveAt(c.was, i), c.policy, owner', order')
<1> DEFINE body == handler[h].body
           was == handler[h].was
           left == handler[h].left
           p == handler[h].policy
           k == handler[h].key
<1>1. /\ handler[h].pc = "delete" /\ left = << >>
      /\ owner' = [owner EXCEPT ![k] = None] /\ order' = [order EXCEPT ![k] = 0]
      /\ handler' = [handler EXCEPT ![h] = Idle]
  BY DEF DeleteEnds, Returns
<1>2. /\ p \in Policies /\ body \in Seq(Keys) /\ was \in Seq(Keys)
      /\ ReorderInv(handler[h], owner, order)
  BY <1>1, ReorderKnown
<1>3. /\ ListsSet(was, Owned(p, owner)) /\ ListsSet(body, Owned(p, owner))
      /\ \A i \in Done(left, was) : order[was[i]] = IndexIn(body, was[i])
  BY <1>2 DEF ReorderInv
<1>4. PICK i \in 1 .. Len(was) :
         /\ was[i] = k /\ Len(body) = Len(was) /\ body[Len(body)] = k
         /\ SubSeq(body, 1, Len(body) - 1) = RemoveAt(was, i)
  BY <1>1, <1>2 DEF ReorderInv
<1> HIDE DEF body, was, left, p, k
<1>5. Done(left, was) = 1 .. Len(was)
  <2>1. Len(left) = 0 /\ Len(was) \in Nat
    BY <1>1, <1>2
  <2> QED
    BY <2>1 DEF Done
<1>6. IsListOf(body, p, owner, order)
  BY <1>2, <1>3, <1>5, ReorderedList
<1>7. owner \in [Keys -> Policies \union {None}] /\ order \in [Keys -> Nat]
  BY DEF OrderInv
<1>8. Len(body) >= 1 /\ p # None
  BY <1>2, <1>4, TablesAssumption
<1>9. IsListOf(RemoveAt(was, i), p, owner', order')
  <2>1. IsListOf(SubSeq(body, 1, Len(body) - 1), p, [owner EXCEPT ![k] = None],
                 [order EXCEPT ![k] = 0])
    BY <1>2, <1>4, <1>6, <1>7, <1>8, DropLast
  <2> QED
    BY <1>1, <1>4, <2>1
<1>10. \A q \in Policies : \E s : IsListOf(s, q, owner', order')
  BY <1>2, <1>9 DEF Serial
<1>11. OrderInv'
  <2>1. owner' \in [Keys -> Policies \union {None}] /\ order' \in [Keys -> Nat]
    BY <1>1, <1>7
  <2> QED
    BY <1>1, <1>10, <2>1, IdleOK, StepOK
<1> QED
  BY <1>2, <1>4, <1>9, <1>11 DEF was, p, k

-----------------------------------------------------------------------------
\* The specification

LEMMA InitOK == ASSUME Init PROVE OrderInv
<1>1. ASSUME NEW p \in Policies PROVE IsListOf(<< >>, p, owner, order)
  <2>1. Owned(p, owner) = {}
    BY TablesAssumption DEF Init, Owned
  <2> QED
    BY <2>1 DEF IsListOf, ListsSet, Distinct
<1>2. /\ owner \in [Keys -> Policies \union {None}] /\ order \in [Keys -> Nat]
      /\ handler \in [Handlers -> Calls]
  BY IdleOK DEF Init
<1>3. \A h \in Handlers : CallInv(handler[h], owner, order)
  BY IdleOK DEF Init
<1> QED
  BY <1>1, <1>2, <1>3 DEF OrderInv

LEMMA OrderInvKept == ASSUME Serial, OrderInv, [Next]_vars PROVE OrderInv'
<1>1. CASE UNCHANGED vars
  <2>1. Resting' <=> Resting
    BY <1>1 DEF vars, Resting
  <2> QED
    BY <1>1, <2>1 DEF vars, OrderInv
<1>2. ASSUME NEW h \in Handlers, NEW p \in Policies, NEW list \in Lists, PutBegins(h, p, list)
      PROVE  OrderInv'
  BY <1>2, PutBeginsOK
<1>3. ASSUME NEW h \in Handlers, PutCreates(h) PROVE OrderInv'
  BY <1>3, PutCreatesOK
<1>4. ASSUME NEW h \in Handlers, PutUpdates(h) PROVE OrderInv'
  BY <1>4, PutUpdatesOK
<1>5. ASSUME NEW h \in Handlers, PutRefuses(h) PROVE OrderInv'
  BY <1>5, PutRefusesOK
<1>6. ASSUME NEW h \in Handlers, PutEnds(h) PROVE OrderInv'
  BY <1>6, PutEndsOK
<1>7. ASSUME NEW h \in Handlers, NEW k \in Keys, NEW j \in 0 .. Cardinality(Keys) - 1,
             PatchBegins(h, k, j)
      PROVE  OrderInv'
  BY <1>7, PatchBeginsOK
<1>8. ASSUME NEW h \in Handlers, ReorderWrites(h) PROVE OrderInv'
  BY <1>8, ReorderWritesOK
<1>9. ASSUME NEW h \in Handlers, NEW k \in Keys, DeleteBegins(h, k) PROVE OrderInv'
  BY <1>9, DeleteBeginsOK
<1>10. ASSUME NEW h \in Handlers, DeleteEnds(h) PROVE OrderInv'
  BY <1>10, DeleteEndsOK
<1> QED
  BY <1>1, <1>2, <1>3, <1>4, <1>5, <1>6, <1>7, <1>8, <1>9, <1>10 DEF Next

\* Served one at a time, PUT, PATCH and DELETE leave the orders of a policy's
\* webhooks at 0, 1, 2... without gap or duplicate: reorder_related_webhooks may use
\* an order as a position.
THEOREM OrdersCorrect == ASSUME Serial PROVE Spec => []OrdersArePositions
<1>1. Init => OrderInv
  BY InitOK
<1>2. OrderInv /\ [Next]_vars => OrderInv'
  BY OrderInvKept
<1>3. ASSUME OrderInv, Resting, NEW p \in Policies
      PROVE  {order[k] : k \in HooksOf(p)} = 0 .. Cardinality(HooksOf(p)) - 1
  <2>1. PICK s : IsListOf(s, p, owner, order)
    BY <1>3 DEF OrderInv
  <2>2. s \in Seq(Keys) /\ Len(s) \in Nat /\ ListsSet(s, HooksOf(p))
    BY <2>1 DEF IsListOf, Owned, HooksOf
  <2>3. Cardinality(HooksOf(p)) = Len(s)
    BY <2>2, ListLength
  <2>4. ASSUME NEW k \in HooksOf(p) PROVE order[k] \in 0 .. Len(s) - 1
    <3>1. PICK i \in 1 .. Len(s) : s[i] = k
      BY <2>2 DEF ListsSet
    <3>2. order[k] = i - 1
      BY <2>1, <3>1 DEF IsListOf
    <3> QED
      BY <2>2, <3>2
  <2>5. ASSUME NEW x \in 0 .. Len(s) - 1 PROVE \E k \in HooksOf(p) : order[k] = x
    <3>1. x + 1 \in 1 .. Len(s) /\ x + 1 - 1 = x
      BY <2>2
    <3>2. s[x + 1] \in HooksOf(p)
      BY <2>2, <3>1 DEF ListsSet
    <3>3. order[s[x + 1]] = x + 1 - 1
      BY <2>1, <3>1 DEF IsListOf
    <3> QED
      BY <3>1, <3>2, <3>3
  <2> QED
    BY <2>3, <2>4, <2>5
<1>4. OrderInv => OrdersArePositions
  BY <1>3 DEF OrdersArePositions
<1> QED
  BY <1>1, <1>2, <1>4, PTL DEF Spec

-----------------------------------------------------------------------------
\* The promise of the endpoints

\* SettledList, with H for what the threads are doing.
Settled(p, H, O, N) ==
    IF \E h \in Handlers : H[h].policy = p
    THEN (CHOOSE c \in Range(H) : c.policy = p).was
    ELSE CHOOSE s \in Queried(p, O, N) : TRUE

LEMMA SettledNow ==
    /\ \A p \in Policies : SettledList(p) = Settled(p, handler, owner, order)
    /\ \A p \in Policies : SettledList(p)' = Settled(p, handler', owner', order')
BY DEF SettledList, Settled, Listings, Queried, HooksOf, Owned

\* During a call the settled list is the one the call found.
LEMMA SettledInCall ==
    ASSUME Serial, NEW h \in Handlers, NEW H, DOMAIN H = Handlers, NEW O, NEW N,
           H[h].policy \in Policies
    PROVE  \A p \in Policies : Settled(p, H, O, N) = H[h].was
<1>1. \A c : c \in Range(H) <=> c = H[h]
  BY DEF Serial, Range
<1>2. (CHOOSE c \in Range(H) : c.policy = H[h].policy) = H[h]
  BY <1>1
<1>3. ASSUME NEW p \in Policies PROVE Settled(p, H, O, N) = H[h].was
  BY <1>2 DEF Settled, Serial
<1> QED
  BY <1>3

\* Between calls it is the one in the table.
LEMMA SettledAtRest ==
    ASSUME Serial, NEW h \in Handlers, NEW H, H[h] = Idle, NEW O, NEW N \in [Keys -> Nat],
           NEW p \in Policies, NEW s, IsListOf(s, p, O, N)
    PROVE  \A q \in Policies : Settled(q, H, O, N) = s
<1>1. \A g \in Handlers : H[g].policy = None
  BY IdleOK DEF Serial
<1>2. Queried(p, O, N) = {s}
  BY ListingIsList
<1>3. ASSUME NEW q \in Policies PROVE Settled(q, H, O, N) = s
  <2>1. q = p /\ q # None
    BY TablesAssumption DEF Serial
  <2> QED
    BY <1>1, <1>2, <2>1 DEF Settled
<1> QED
  BY <1>3

\* The abstract list of the policy, before and after a step.
Shown == [p \in Policies |-> SettledList(p)]

\* A call that begins does not change it.
LEMMA BeginHidden ==
    ASSUME Serial, OrderInv, NEW h \in Handlers, handler[h].pc = "idle",
           NEW p \in Policies, NEW s \in Listings(p), NEW c, c.policy = p, c.was = s,
           handler' = [handler EXCEPT ![h] = c]
    PROVE  Shown' = Shown
<1>1. PICK r : IsListOf(r, p, owner, order) /\ Listings(p) = {r}
  BY IdleFinds
<1>2. handler[h] = Idle /\ order \in [Keys -> Nat] /\ DOMAIN handler' = Handlers /\ handler'[h] = c
  BY DEF OrderInv, CallInv
<1>3. \A q \in Policies : Settled(q, handler, owner, order) = s
  BY <1>1, <1>2, SettledAtRest
<1>4. \A q \in Policies : Settled(q, handler', owner', order') = s
  <2>1. ASSUME NEW H, NEW O, NEW N, DOMAIN H = Handlers, H[h] = c
        PROVE  \A q \in Policies : Settled(q, H, O, N) = s
    BY <2>1, SettledInCall
  <2> QED
    BY <1>2, <2>1
<1> QED
  BY <1>3, <1>4, SettledNow DEF Shown

\* Nor does a step within a call.
LEMMA StepHidden ==
    ASSUME Serial, OrderInv, NEW h \in Handlers, handler[h].policy \in Policies,
           NEW c, c.policy = handler[h].policy, c.was = handler[h].was,
           handler' = [handler EXCEPT ![h] = c]
    PROVE  Shown' = Shown
<1>1. DOMAIN handler = Handlers /\ DOMAIN handler' = Handlers /\ handler'[h] = c
  BY DEF OrderInv
<1>2. \A q \in Policies : Settled(q, handler, owner, order) = handler[h].was
  BY <1>1, SettledInCall
<1>3. \A q \in Policies : Settled(q, handler', owner', order') = c.was
  <2>1. ASSUME NEW H, NEW O, NEW N, DOMAIN H = Handlers, H[h] = c
        PROVE  \A q \in Policies : Settled(q, H, O, N) = c.was
    BY <2>1, SettledInCall
  <2> QED
    BY <1>1, <2>1
<1> QED
  BY <1>2, <1>3, SettledNow DEF Shown

\* A call that ends shows the list it has written.
LEMMA EndShown ==
    ASSUME Serial, OrderInv, OrderInv', NEW h \in Handlers, handler[h].policy \in Policies,
           handler' = [handler EXCEPT ![h] = Idle],
           NEW s, IsListOf(s, handler[h].policy, owner', order')
    PROVE  Shown = [q \in Policies |-> handler[h].was] /\ Shown' = [q \in Policies |-> s]
<1>1. DOMAIN handler = Handlers /\ handler'[h] = Idle /\ order' \in [Keys -> Nat]
  BY DEF OrderInv
<1>2. \A q \in Policies : Settled(q, handler, owner, order) = handler[h].was
  BY <1>1, SettledInCall
<1>3. \A q \in Policies : Settled(q, handler', owner', order') = s
  <2>1. ASSUME NEW H, NEW O, NEW N \in [Keys -> Nat], H[h] = Idle,
               IsListOf(s, handler[h].policy, O, N)
        PROVE  \A q \in Policies : Settled(q, H, O, N) = s
    BY <2>1, SettledAtRest
  <2> QED
    BY <1>1, <2>1
<1> QED
  BY <1>2, <1>3, SettledNow DEF Shown

LEMMA PutBeginsHidden ==
    ASSUME Serial, OrderInv, NEW h \in Handlers, NEW p \in Policies, NEW list \in Lists,
           PutBegins(h, p, list)
    PROVE  UNCHANGED <<Shown, last>>
<1>1. PICK s \in Listings(p) :
         handler' = [handler EXCEPT ![h] = Call("put", p, list, list, None, 0, s)]
  BY DEF PutBegins
<1> DEFINE c == Call("put", p, list, list, None, 0, s)
<1>2. c.policy = p /\ c.was = s
  BY DEF Call
<1> HIDE DEF c
<1>3. handler[h].pc = "idle" /\ UNCHANGED last /\ handler' = [handler EXCEPT ![h] = c]
  BY <1>1 DEF PutBegins, c
<1> QED
  BY <1>2, <1>3, BeginHidden

LEMMA ReorderBeginsHidden ==
    ASSUME Serial, OrderInv, NEW h \in Handlers, handler[h].pc = "idle",
           NEW pc, NEW p \in Policies, NEW k, NEW j, NEW s \in Listings(p),
           ReorderBegins(h, pc, p, k, j, s)
    PROVE  UNCHANGED <<Shown, last>>
<1> DEFINE c == Call(pc, p, PopInsert(s, order[k], j), s, k, j, s)
<1>1. c.policy = p /\ c.was = s
  BY DEF Call
<1> HIDE DEF c
<1>2. UNCHANGED last /\ handler' = [handler EXCEPT ![h] = c]
  BY DEF ReorderBegins, c
<1> QED
  BY <1>1, <1>2, BeginHidden

LEMMA DeleteBeginsHidden ==
    ASSUME Serial, OrderInv, NEW h \in Handlers, NEW k \in Keys, DeleteBegins(h, k)
    PROVE  UNCHANGED <<Shown, last>>
<1> DEFINE p == owner[k]
           final == Cardinality(HooksOf(p)) - 1
<1>1. handler[h].pc = "idle" /\ p \in Policies
  BY HookInList DEF DeleteBegins
<1>2. PICK s \in Listings(p) :
         IF final # order[k]
         THEN ReorderBegins(h, "delete", p, k, final, s)
         ELSE /\ handler' = [handler EXCEPT ![h] = Call("delete", p, s, << >>, k, 0, s)]
              /\ UNCHANGED <<owner, order, last>>
  BY DEF DeleteBegins
<1> HIDE DEF p, final
<1>3. CASE final # order[k]
  BY <1>1, <1>2, <1>3, ReorderBeginsHidden
<1>4. CASE final = order[k]
  <2> DEFINE c == Call("delete", p, s, << >>, k, 0, s)
  <2>1. c.policy = p /\ c.was = s
    BY DEF Call
  <2>2. UNCHANGED last /\ handler' = [handler EXCEPT ![h] = c]
    BY <1>2, <1>4
  <2> HIDE DEF c
  <2> QED
    BY <1>1, <2>1, <2>2, BeginHidden
<1> QED
  BY <1>3, <1>4

LEMMA PutCreatesHidden ==
    ASSUME Serial, OrderInv, NEW h \in Handlers, PutCreates(h)
    PROVE  UNCHANGED <<Shown, last>>
<1>1. handler[h] \in Calls /\ handler[h].policy \in Policies /\ handler \in [Handlers -> Calls]
  BY PutKnown DEF PutCreates, OrderInv
<1> DEFINE k == Head(handler[h].left)
           c == [handler[h] EXCEPT !.left = Tail(handler[h].left), !.staged = @ \union {k}]
<1>2. c.policy = handler[h].policy /\ c.was = handler[h].was
  BY <1>1 DEF Calls
<1>3. UNCHANGED last /\ handler' = [handler EXCEPT ![h] = c]
  BY <1>1 DEF PutCreates, Calls
<1> HIDE DEF c
<1> QED
  BY <1>1, <1>2, <1>3, StepHidden

LEMMA PutUpdatesHidden ==
    ASSUME Serial, OrderInv, NEW h \in Handlers, PutUpdates(h)
    PROVE  UNCHANGED <<Shown, last>>
<1>1. /\ handler[h] \in Calls /\ handler[h].policy \in Policies
      /\ ~\E k \in handler[h].staged : Exists(k)
  BY PutKnown DEF PutUpdates
<1> DEFINE c == [handler[h] EXCEPT !.left = Tail(handler[h].left), !.staged = {}]
<1>2. c.policy = handler[h].policy /\ c.was = handler[h].was
  BY <1>1 DEF Calls
<1>3. UNCHANGED last /\ handler' = [handler EXCEPT ![h] = c]
  BY <1>1 DEF PutUpdates, Commits
<1> HIDE DEF c
<1> QED
  BY <1>1, <1>2, <1>3, StepHidden

LEMMA PutRefusesHidden ==
    ASSUME Serial, OrderInv, NEW h \in Handlers, PutRefuses(h)
    PROVE  UNCHANGED <<Shown, last>>
<1> DEFINE c == handler[h]
<1>1. /\ IsListOf(c.was, c.policy, owner', order') /\ OrderInv'
      /\ handler' = [handler EXCEPT ![h] = Idle] /\ UNCHANGED last
  BY PutRefusesOK DEF PutRefuses, Returns
<1>2. c.policy \in Policies
  BY PutKnown DEF PutRefuses
<1> QED
  BY <1>1, <1>2, EndShown

\* The abstract specification has the operators on lists from the same library.
LEMMA SameOperators ==
    /\ \A l, i : Promise!RemoveAt(l, i) = RemoveAt(l, i)
    /\ \A l, i, e : Promise!InsertAt(l, i, e) = InsertAt(l, i, e)
    /\ Promise!Lists = Lists
<1>1. \A l, i : Promise!RemoveAt(l, i) = RemoveAt(l, i)
  BY Zenon DEF Promise!RemoveAt, RemoveAt
<1>2. \A l, i, e : Promise!InsertAt(l, i, e) = InsertAt(l, i, e)
  BY Zenon DEF Promise!InsertAt, InsertAt
<1>3. Promise!Cardinality(Keys) = Cardinality(Keys)
  BY Zenon DEF Promise!Cardinality, Cardinality
<1>4. \A S, T : Promise!Injection(S, T) = Injection(S, T)
  BY Zenon DEF Promise!Injection, Injection, Promise!IsInjective, IsInjective
<1>5. Promise!Lists = Lists
  BY <1>3, <1>4 DEF Promise!Lists, Lists
<1> QED
  BY <1>1, <1>2, <1>5

\* The effects that clients are promised.
LEMMA PutEndsShown ==
    ASSUME Serial, OrderInv, NEW h \in Handlers, PutEnds(h)
    PROVE  Promise!Next
<1> DEFINE p == handler[h].policy
           body == handler[h].body
<1>1. /\ body \in Lists /\ p \in Policies /\ IsListOf(body, p, owner', order')
      /\ handler' = [handler EXCEPT ![h] = Idle]
      /\ last' = [op |-> "put", policy |-> p, list |-> body] /\ OrderInv'
  BY PutEndsOK
<1>2. Shown = [q \in Policies |-> handler[h].was] /\ Shown' = [q \in Policies |-> body]
  BY <1>1, EndShown
<1> HIDE DEF p, body
<1>3. Shown' = [Shown EXCEPT ![p] = body]
  BY <1>1, <1>2 DEF Serial
<1>4. Promise!Put(p, body)
  BY <1>1, <1>3 DEF Promise!Put, Shown
<1>5. body \in Promise!Lists
  BY <1>1, SameOperators
<1> QED
  BY <1>1, <1>4, <1>5 DEF Promise!Next

LEMMA ReorderWritesShown ==
    ASSUME Serial, OrderInv, NEW h \in Handlers, ReorderWrites(h)
    PROVE  [Promise!Next]_<<Shown, last>>
<1> DEFINE p == handler[h].policy
           body == handler[h].body
           was == handler[h].was
           k == handler[h].key
           j == handler[h].to + 1
<1>1. OrderInv' /\ p \in Policies
  BY ReorderWritesOK
<1>2. CASE /\ handler[h].pc = "patch" /\ IsListOf(body, p, owner', order')
           /\ handler' = [handler EXCEPT ![h] = Idle]
           /\ last' = [op |-> "patch", key |-> k, to |-> handler[h].to]
  <2>1. Shown = [q \in Policies |-> was] /\ Shown' = [q \in Policies |-> body]
    BY <1>1, <1>2, EndShown
  <2>2. was \in Seq(Keys) /\ handler[h].to \in Nat /\ ReorderInv(handler[h], owner, order)
    BY <1>2, ReorderKnown DEF Calls
  <2>3. PICK i \in 1 .. Len(was) :
           was[i] = k /\ j \in 1 .. Len(was) /\ body = PopInsert(was, i - 1, handler[h].to)
    BY <1>2, <2>2 DEF ReorderInv
  <2>4. j - 1 = handler[h].to /\ i - 1 + 1 = i
    BY <2>2
  <2>5. body = InsertAt(RemoveAt(was, i), j, was[i])
    BY <2>3, <2>4 DEF PopInsert
  <2>6. last' = [op |-> "patch", key |-> was[i], to |-> j - 1]
    BY <1>2, <2>3, <2>4
  <2>7. DOMAIN was = 1 .. Len(was)
    BY <2>2
  <2> HIDE DEF p, body, was, k, j
  <2>8. Shown[p] = was /\ Shown' = [Shown EXCEPT ![p] = Promise!Moved(@, i, j)]
    BY <1>1, <2>1, <2>5, SameOperators DEF Serial, Promise!Moved
  <2>9. Promise!Patch(p, i, j)
    BY <1>1, <2>6, <2>8 DEF Promise!Patch, Shown
  <2> QED
    BY <1>1, <2>3, <2>7, <2>8, <2>9 DEF Promise!Next, Shown
<1>3. CASE /\ handler' = [handler EXCEPT ![h] = [handler[h] EXCEPT !.left = Tail(handler[h].left)]]
           /\ UNCHANGED last
  <2> DEFINE c == [handler[h] EXCEPT !.left = Tail(handler[h].left)]
  <2>1. handler[h] \in Calls
    BY DEF OrderInv
  <2>2. c.policy = p /\ c.was = was
    BY <2>1 DEF Calls
  <2> HIDE DEF c
  <2> QED
    BY <1>1, <1>3, <2>2, StepHidden DEF c
<1> QED
  BY <1>2, <1>3, ReorderWritesOK

LEMMA DeleteEndsShown ==
    ASSUME Serial, OrderInv, NEW h \in Handlers, DeleteEnds(h)
    PROVE  Promise!Next
<1> DEFINE p == handler[h].policy
           was == handler[h].was
           k == handler[h].key
<1>1. OrderInv' /\ p \in Policies
  BY DeleteEndsOK
<1>2. PICK i \in 1 .. Len(was) : was[i] = k /\ IsListOf(RemoveAt(was, i), p, owner', order')
  BY DeleteEndsOK
<1>3. handler' = [handler EXCEPT ![h] = Idle] /\ last' = [op |-> "delete", key |-> was[i]]
  BY <1>2 DEF DeleteEnds, Returns
<1>4. Shown = [q \in Policies |-> was] /\ Shown' = [q \in Policies |-> RemoveAt(was, i)]
  BY <1>1, <1>2, <1>3, EndShown
<1>5. DOMAIN was = 1 .. Len(was)
  <2>1. was \in Seq(Keys)
    BY ReorderKnown DEF DeleteEnds
  <2> QED
    BY <2>1
<1> HIDE DEF p, was, k
<1>6. Shown[p] = was /\ Shown' = [Shown EXCEPT ![p] = RemoveAt(@, i)]
  BY <1>1, <1>4 DEF Serial
<1>7. Promise!Delete(p, i)
  BY <1>1, <1>3, <1>6, SameOperators DEF Promise!Delete, Shown
<1> QED
  BY <1>1, <1>2, <1>5, <1>6, <1>7 DEF Promise!Next, Shown

LEMMA StepKeepsPromise ==
    ASSUME Serial, OrderInv, [Next]_vars
    PROVE  [Promise!Next]_<<Shown, last>>
<1>1. CASE UNCHANGED vars
  BY <1>1, SettledNow DEF vars, Shown
<1>2. ASSUME NEW h \in Handlers, NEW p \in Policies, NEW list \in Lists, PutBegins(h, p, list)
      PROVE  UNCHANGED <<Shown, last>>
  BY <1>2, PutBeginsHidden
<1>3. ASSUME NEW h \in Handlers, PutCreates(h) PROVE UNCHANGED <<Shown, last>>
  BY <1>3, PutCreatesHidden
<1>4. ASSUME NEW h \in Handlers, PutUpdates(h) PROVE UNCHANGED <<Shown, last>>
  BY <1>4, PutUpdatesHidden
<1>5. ASSUME NEW h \in Handlers, PutRefuses(h) PROVE UNCHANGED <<Shown, last>>
  BY <1>5, PutRefusesHidden
<1>6. ASSUME NEW h \in Handlers, PutEnds(h) PROVE Promise!Next
  BY <1>6, PutEndsShown
<1>7. ASSUME NEW h \in Handlers, NEW k \in Keys, NEW j \in 0 .. Cardinality(Keys) - 1,
             PatchBegins(h, k, j)
      PROVE  UNCHANGED <<Shown, last>>
  <2>1. handler[h].pc = "idle" /\ owner[k] \in Policies
    BY <1>7, HookInList DEF PatchBegins
  <2> QED
    BY <1>7, <2>1, ReorderBeginsHidden DEF PatchBegins
<1>8. ASSUME NEW h \in Handlers, ReorderWrites(h) PROVE [Promise!Next]_<<Shown, last>>
  BY <1>8, ReorderWritesShown
<1>9. ASSUME NEW h \in Handlers, NEW k \in Keys, DeleteBegins(h, k)
      PROVE  UNCHANGED <<Shown, last>>
  BY <1>9, DeleteBeginsHidden
<1>10. ASSUME NEW h \in Handlers, DeleteEnds(h) PROVE Promise!Next
  BY <1>10, DeleteEndsShown
<1> QED
  BY <1>1, <1>2, <1>3, <1>4, <1>5, <1>6, <1>7, <1>8, <1>9, <1>10 DEF Next

LEMMA InitKeepsPromise == ASSUME Serial, Init PROVE Promise!Init
<1>1. ASSUME NEW p \in Policies PROVE SettledList(p) = << >>
  <2>1. \A h \in Handlers : handler[h] = Idle
    BY DEF Init
  <2>2. IsListOf(<< >>, p, owner, order)
    <3>1. Owned(p, owner) = {}
      BY TablesAssumption DEF Init, Owned
    <3> QED
      BY <3>1 DEF IsListOf, ListsSet, Distinct
  <2>3. order \in [Keys -> Nat]
    BY DEF Init
  <2>4. Queried(p, owner, order) = {<< >>}
    BY <2>2, <2>3, ListingIsList
  <2>5. Settled(p, handler, owner, order) = << >>
    BY <2>1, <2>4, IdleOK, TablesAssumption DEF Settled
  <2> QED
    BY <2>5, SettledNow
<1> QED
  BY <1>1 DEF Promise!Init, Init

\* Served one at a time, the endpoints do what WebhookOrder promises, with the list
\* that is settled as the abstract one: put_webhooks replaces it, _patch_webhook
\* moves its webhook to the index it names, delete_webhook removes its webhook, and
\* no other step of any of them changes it.
THEOREM PromiseKept == ASSUME Serial PROVE Spec => KeepsPromise
<1>1. Init => OrderInv /\ Promise!Init
  BY InitOK, InitKeepsPromise
<1>2. OrderInv /\ [Next]_vars => OrderInv'
  BY OrderInvKept
<1>3. OrderInv /\ [Next]_vars => [Promise!Next]_<<[p \in Policies |-> SettledList(p)], last>>
  BY StepKeepsPromise DEF Shown
<1> QED
  BY <1>1, <1>2, <1>3, PTL DEF Spec, KeepsPromise, Promise!Spec
===============================================================================
