-------------------------- MODULE SaasConnectorProofs -------------------------
(***************************************************************************)
(* Proofs about the reads and the masking of SaasConnector, for any        *)
(* collections, services, configurations and number of attempts.           *)
(***************************************************************************)
EXTENDS SaasConnector, FiniteSetTheorems, SequenceTheorems, WellFoundedInduction, TLAPS

\* SetToSeq leaves nothing out.
LEMMA SetToSeqAll ==
    ASSUME NEW S, IsFiniteSet(S)
    PROVE  /\ SetToSeq(S) \in Seq(S)
           /\ \A x \in S : \E i \in 1 .. Len(SetToSeq(S)) : SetToSeq(S)[i] = x
<1> DEFINE n == Cardinality(S)
           Good(f) == f \in [1 .. n -> S] /\ IsInjective(f)
<1>1. n \in Nat /\ ExistsBijection(1 .. n, S)
  BY FS_CardinalityType
<1>2. \E f \in [1 .. n -> S] : IsInjective(f)
  BY <1>1 DEF ExistsBijection, Bijection, Injection
<1>3. SetToSeq(S) \in [1 .. n -> S] /\ IsInjective(SetToSeq(S))
  BY <1>2 DEF SetToSeq
<1>4. SetToSeq(S) \in Injection(1 .. n, S)
  BY <1>3 DEF Injection
<1>5. Cardinality(1 .. n) = n
  BY <1>1, FS_Interval
<1>6. SetToSeq(S) \in Surjection(1 .. n, S)
  BY <1>4, <1>5, FS_Injection
<1>7. SetToSeq(S) \in Seq(S) /\ Len(SetToSeq(S)) = n
  BY <1>1, <1>3
<1>8. \A x \in S : \E i \in 1 .. n : SetToSeq(S)[i] = x
  BY <1>6 DEF Surjection
<1> QED
  BY <1>7, <1>8

-----------------------------------------------------------------------------
\* Masking. What is still to be done by an attempt covers every row that was not
\* masked yet, by this attempt or by an earlier one.

Found == UNION {UNION {x.of[c].found : c \in Collections} : x \in Cases}

Task == [pc : {"begin", "config", "uri", "send", "done", "failed"}, todo : Seq(Found),
         rows : {<< >>}, attempts : Nat, host : Collections \union {"base"},
         read : Collections, stray : BOOLEAN]

MaskTyped ==
    /\ task \in [Collections -> Task]
    /\ clientConfig \in Collections \union {"base"}
    /\ store \in [Collections -> UNION {[D -> {"kept", "masked", "deleted"}] : D \in SUBSET Found}]
    /\ \A c \in Collections : store[c] \in [Config(c).found -> {"kept", "masked", "deleted"}]

\* An attempt under way has a request to make, and its rows are rows of the collection.
UnderWay(c) ==
    /\ task[c].pc \in {"config", "uri", "send"} =>
          /\ MaskingRequest(c) # "none"
          /\ \A i \in 1 .. Len(task[c].todo) : task[c].todo[i] \in Config(c).found
    /\ task[c].pc = "send" => task[c].todo # << >>

KeptIsToDo(c) ==
    c \notin ignored /\ ~task[c].stray =>
        /\ task[c].pc \in {"config", "uri", "send"} =>
              \A row \in Config(c).found : store[c][row] = "kept" =>
                  \E i \in 1 .. Len(task[c].todo) : task[c].todo[i] = row
        /\ task[c].pc = "done" => \A row \in Config(c).found : store[c][row] # "kept"

NotDeleted(c) ==
    case.strict \/ "update" \in Config(c).masks =>
        \A row \in Config(c).found : store[c][row] # "deleted"

MaskInv ==
    /\ case \in Cases
    /\ case.mode # "mask" => \A c \in Collections : NotDeleted(c)
    /\ case.mode = "mask" =>
          /\ MaskTyped
          /\ \A c \in Collections : UnderWay(c) /\ KeptIsToDo(c) /\ NotDeleted(c)

LEMMA InitMaskInv == Init => MaskInv
<1> SUFFICES ASSUME Init PROVE MaskInv
  OBVIOUS
<1>1. case \in Cases
  BY DEF Init
<1>2. task \in [Collections -> Task]
  <2>1. << >> \in Seq(Found)
    OBVIOUS
  <2> QED
    BY <2>1 DEF Init, Task, Attempt
<1>3. \A c \in Collections : /\ task[c].pc = "begin"
                             /\ store[c] = [r \in Config(c).found |-> "kept"]
                             /\ Config(c).found \in SUBSET Found
  BY <1>1 DEF Init, Attempt, Config, Found
<1>4. \A c \in Collections : store[c] \in [Config(c).found -> {"kept", "masked", "deleted"}]
  BY <1>3
<1>5. store \in [Collections -> UNION {[D -> {"kept", "masked", "deleted"}] : D \in SUBSET Found}]
  BY <1>3, <1>4 DEF Init
<1>6. MaskTyped
  BY <1>2, <1>4, <1>5 DEF MaskTyped, Init
<1>7. \A c \in Collections : UnderWay(c) /\ KeptIsToDo(c) /\ NotDeleted(c)
  BY <1>3 DEF UnderWay, KeptIsToDo, NotDeleted
<1> QED
  BY <1>1, <1>6, <1>7 DEF MaskInv

\* A step of one task leaves the others, and their rows, as they are.
LEMMA OthersStay ==
    ASSUME MaskTyped, NEW b \in Collections,
           UnderWay(b), KeptIsToDo(b), NotDeleted(b),
           case' = case, task'[b] = task[b], store'[b] = store[b],
           b \in ignored' <=> b \in ignored
    PROVE  UnderWay(b)' /\ KeptIsToDo(b)' /\ NotDeleted(b)'
<1>1. Config(b)' = Config(b) /\ MaskingRequest(b)' = MaskingRequest(b)
  BY DEF Config, MaskingRequest, Preferred
<1> QED
  BY <1>1 DEF UnderWay, KeptIsToDo, NotDeleted

\* The rest of a sequence without its first element.
LEMMA Rest ==
    ASSUME NEW S, NEW q \in Seq(S), q # << >>
    PROVE  /\ Head(q) = q[1] /\ 1 \in 1 .. Len(q)
           /\ Tail(q) \in Seq(S)
           /\ Len(Tail(q)) = Len(q) - 1
           /\ \A i \in 1 .. Len(Tail(q)) : i + 1 \in 1 .. Len(q) /\ Tail(q)[i] = q[i + 1]
           /\ \A i \in 1 .. Len(q) : i = 1 \/ (i - 1 \in 1 .. Len(Tail(q)) /\ Tail(q)[i - 1] = q[i])
OBVIOUS

\* With MASKING_STRICT, or with an update request, nothing else is sent.
LEMMA UpdatePreferred ==
    ASSUME NEW c, MaskingRequest(c) # "none", case.strict \/ "update" \in Config(c).masks
    PROVE  MaskingRequest(c) = "update"
BY DEF MaskingRequest, Preferred

LEMMA NextMaskInv == MaskInv /\ [Next]_vars => MaskInv'
<1> SUFFICES ASSUME MaskInv, [Next]_vars PROVE MaskInv'
  OBVIOUS
<1> USE DEF MaskInv
<1>1. case' = case
  BY DEF Next, TaskStep, NameCollection, Begin, BeginMasking, BuildClient, BuildUri, Fetch,
         FetchAstray, Apply, ApplyAstray, Refused,
         SendRaises, IdentityExpires, vars
<1>2. \A c \in Collections : Config(c)' = Config(c) /\ MaskingRequest(c)' = MaskingRequest(c)
  BY <1>1 DEF Config, MaskingRequest, Preferred
<1>3. CASE case.mode # "mask"
  <2>1. store' = store
    BY <1>3 DEF Next, TaskStep, NameCollection, Begin, BeginMasking, BuildClient, BuildUri, Fetch,
         FetchAstray, Apply, ApplyAstray, Refused,
           SendRaises, IdentityExpires, vars
  <2> QED
    BY <1>1, <1>2, <1>3, <2>1 DEF NotDeleted
<1>4. CASE case.mode = "mask" /\ UNCHANGED <<task, ignored, store, clientConfig>>
  BY <1>1, <1>2, <1>4 DEF MaskTyped, UnderWay, KeptIsToDo, NotDeleted
<1>5. ASSUME case.mode = "mask", NEW c \in Collections, TaskStep(c) PROVE MaskInv'
  <2>1. /\ MaskTyped /\ UnderWay(c) /\ KeptIsToDo(c) /\ NotDeleted(c)
        /\ task \in [Collections -> Task] /\ task[c] \in Task
        /\ store[c] \in [Config(c).found -> {"kept", "masked", "deleted"}]
        /\ store \in [Collections -> UNION {[D -> {"kept", "masked", "deleted"}] : D \in SUBSET Found}]
        /\ task[c].todo \in Seq(Found) /\ task[c].host \in Collections \union {"base"}
    BY <1>5 DEF MaskTyped, Task
  <2>2. ASSUME task' \in [Collections -> Task],
               clientConfig' \in Collections \union {"base"},
               store'[c] \in [Config(c).found -> {"kept", "masked", "deleted"}],
               store' \in [Collections -> UNION {[D -> {"kept", "masked", "deleted"}] : D \in SUBSET Found}],
               \A b \in Collections : b # c => /\ task'[b] = task[b] /\ store'[b] = store[b]
                                               /\ b \in ignored' <=> b \in ignored,
               UnderWay(c)' /\ KeptIsToDo(c)' /\ NotDeleted(c)'
        PROVE  MaskInv'
    <3>1. \A b \in Collections : UnderWay(b)' /\ KeptIsToDo(b)' /\ NotDeleted(b)'
      BY <1>1, <1>5, <2>2, OthersStay
    <3>2. MaskTyped'
      BY <1>2, <2>1, <2>2 DEF MaskTyped
    <3> QED
      BY <1>1, <1>5, <3>1, <3>2
  <2>3. ASSUME Raises(c), UNCHANGED <<store, clientConfig>>,
               \A b \in Collections : b \in ignored' <=> b \in ignored
        PROVE  MaskInv'
    <3>1. /\ task' \in [Collections -> Task] /\ task'[c].pc \in {"begin", "failed"}
          /\ \A b \in Collections : b # c => task'[b] = task[b]
      <4> DEFINE n == task[c].attempts
                 r == IF n < MaxAttempts THEN Attempt(c, "begin", n + 1) ELSE Attempt(c, "failed", n)
      <4>1. task' = [task EXCEPT ![c] = r]
        BY <2>3 DEF Raises
      <4>2. << >> \in Seq(Found) /\ n \in Nat
        BY <2>1 DEF Task
      <4>3. r \in Task /\ r.pc \in {"begin", "failed"}
        BY <4>2 DEF Task, Attempt
      <4> HIDE DEF r
      <4> QED
        BY <2>1, <4>1, <4>3
    <3>2. UnderWay(c)' /\ KeptIsToDo(c)' /\ NotDeleted(c)'
      BY <1>1, <1>2, <2>1, <2>3, <3>1 DEF UnderWay, KeptIsToDo, NotDeleted
    <3> QED
      BY <2>1, <2>2, <2>3, <3>1, <3>2 DEF MaskTyped
  <2>4. CASE BeginMasking(c)
    <3>1. CASE MaskingRequest(c) = "none" \/ Config(c).lacks
      BY <2>3, <2>4, <3>1 DEF BeginMasking
    <3>2. CASE ~(MaskingRequest(c) = "none" \/ Config(c).lacks)
      <4> DEFINE q == SetToSeq(Config(c).found)
      <4>1. IsFiniteSet(Config(c).found) /\ Config(c).found \subseteq Found
        BY CasesAssumption DEF Config, Found
      <4>2. /\ q \in Seq(Config(c).found)
            /\ \A x \in Config(c).found : \E i \in 1 .. Len(q) : q[i] = x
        BY <4>1, SetToSeqAll
      <4>3. q \in Seq(Found) /\ \A i \in 1 .. Len(q) : q[i] \in Config(c).found
        BY <4>1, <4>2
      <4> HIDE DEF q
      <4>4. /\ task' = [task EXCEPT ![c].pc = "config", ![c].todo = q]
            /\ UNCHANGED <<clientConfig, ignored, store>>
        BY <2>4, <3>2 DEF BeginMasking, q
      <4>5. /\ task' \in [Collections -> Task] /\ task'[c].pc = "config" /\ task'[c].todo = q
            /\ \A b \in Collections : b # c => task'[b] = task[b]
        BY <2>1, <4>3, <4>4 DEF Task
      <4>6. UnderWay(c)'
        BY <1>2, <3>2, <4>3, <4>5 DEF UnderWay
      <4>7. KeptIsToDo(c)'
        BY <1>2, <4>2, <4>5 DEF KeptIsToDo
      <4>8. NotDeleted(c)'
        BY <1>1, <1>2, <2>1, <4>4 DEF NotDeleted
      <4> QED
        BY <2>1, <2>2, <4>4, <4>5, <4>6, <4>7, <4>8 DEF MaskTyped
    <3> QED
      BY <3>1, <3>2
  <2>5. CASE BuildClient(c) \/ BuildUri(c)
    <3>1. /\ UNCHANGED <<ignored, store>> /\ task[c].pc \in {"config", "uri"}
          /\ clientConfig' \in Collections \union {"base"}
          /\ clientConfig \in Collections \union {"base"}
      BY <2>1, <2>5 DEF BuildClient, BuildUri, MaskTyped, ClientOf, Task
    <3>2. PICK pc \in {"uri", "send", "done"}, host \in Collections \union {"base"} :
             /\ task' = [task EXCEPT ![c].pc = pc, ![c].host = host]
             /\ pc = "done" => task[c].todo = << >>
             /\ pc = "send" => task[c].todo # << >>
      <4>1. CASE BuildClient(c)
        <5>1. task' = [task EXCEPT ![c].pc = "uri", ![c].host = task[c].host]
          BY <2>1, <4>1 DEF BuildClient, Task
        <5> QED
          BY <2>1, <5>1
      <4>2. CASE BuildUri(c)
        <5> DEFINE pc == IF task[c].todo = << >> THEN "done" ELSE "send"
        <5>1. task' = [task EXCEPT ![c].pc = pc, ![c].host = clientConfig]
          BY <4>2 DEF BuildUri
        <5>2. /\ pc \in {"uri", "send", "done"}
              /\ pc = "done" => task[c].todo = << >>
              /\ pc = "send" => task[c].todo # << >>
          OBVIOUS
        <5> HIDE DEF pc
        <5> QED
          BY <3>1, <5>1, <5>2
      <4> QED
        BY <2>5, <4>1, <4>2
    <3> DEFINE r == [task[c] EXCEPT !.pc = pc, !.host = host]
    <3>3. task' = [task EXCEPT ![c] = r]
      BY <2>1, <3>2
    <3>4. r \in Task /\ r.pc = pc /\ r.todo = task[c].todo /\ r.stray = task[c].stray
      BY <2>1 DEF Task
    <3> HIDE DEF r
    <3>5. /\ task'[c].todo = task[c].todo /\ task'[c].pc = pc /\ task'[c].stray = task[c].stray
          /\ task' \in [Collections -> Task]
          /\ \A b \in Collections : b # c => task'[b] = task[b]
      BY <2>1, <3>3, <3>4
    <3>6. UnderWay(c)' /\ KeptIsToDo(c)' /\ NotDeleted(c)'
      BY <1>1, <1>2, <2>1, <3>1, <3>2, <3>5 DEF UnderWay, KeptIsToDo, NotDeleted
    <3> QED
      BY <2>1, <2>2, <3>1, <3>5, <3>6
  <2>6. CASE SendRaises(c)
    BY <2>3, <2>6 DEF SendRaises
  <2>7. ASSUME task[c].pc = "send", task[c].todo # << >>, UNCHANGED clientConfig,
               NEW stray \in BOOLEAN, RowDone(c, stray),
               \A b \in Collections : b # c => (b \in ignored' <=> b \in ignored),
               store'[c] \in [Config(c).found -> {"kept", "masked", "deleted"}],
               store' \in [Collections -> UNION {[D -> {"kept", "masked", "deleted"}] : D \in SUBSET Found}],
               \A b \in Collections : b # c => store'[b] = store[b],
               NotDeleted(c)',
               stray \/ c \in ignored' \/
                                 /\ c \notin ignored /\ ~task[c].stray
                                 /\ \A row \in Config(c).found : store'[c][row] = "kept" =>
                                       store[c][row] = "kept" /\ row # Head(task[c].todo)
        PROVE  MaskInv'
    <3> DEFINE q == task[c].todo
               pc == IF Len(q) = 1 THEN "done" ELSE "send"
               r == [task[c] EXCEPT !.todo = Tail(q), !.stray = stray, !.pc = pc]
    <3>1. /\ Head(q) = q[1] /\ 1 \in 1 .. Len(q)
          /\ Tail(q) \in Seq(Found)
          /\ Len(Tail(q)) = Len(q) - 1
          /\ \A i \in 1 .. Len(Tail(q)) : i + 1 \in 1 .. Len(q) /\ Tail(q)[i] = q[i + 1]
          /\ \A i \in 1 .. Len(q) : i = 1 \/ (i - 1 \in 1 .. Len(Tail(q)) /\ Tail(q)[i - 1] = q[i])
      BY <2>1, <2>7, Rest
    <3>2. task' = [task EXCEPT ![c] = r]
      BY <2>1, <2>7 DEF Task, RowDone
    <3>3. r \in Task /\ r.pc = pc /\ r.todo = Tail(q) /\ r.stray = stray
      BY <2>1, <2>7, <3>1 DEF Task
    <3> HIDE DEF r
    <3>4. /\ task' \in [Collections -> Task] /\ task'[c].pc = pc /\ task'[c].todo = Tail(q)
          /\ task'[c].stray = stray
          /\ \A b \in Collections : b # c => task'[b] = task[b]
      BY <2>1, <3>2, <3>3
    <3>5. UnderWay(c)'
      <4>1. Len(q) # 1 => Tail(q) # << >>
        <5>1. Len(q) \in Nat /\ Len(q) >= 1
          BY <2>1, <3>1
        <5>2. Len(q) # 1 => Len(Tail(q)) # 0
          BY <3>1, <5>1
        <5> QED
          BY <5>2
      <4> QED
        BY <1>1, <1>2, <2>1, <2>7, <3>1, <3>4, <4>1 DEF UnderWay
    <3>6. KeptIsToDo(c)'
      <4> SUFFICES ASSUME c \notin ignored', ~stray, NEW row \in Config(c).found,
                          store'[c][row] = "kept"
                   PROVE  pc = "send" /\ \E i \in 1 .. Len(Tail(q)) : Tail(q)[i] = row
        BY <1>1, <1>2, <3>4 DEF KeptIsToDo
      <4>1. store[c][row] = "kept" /\ row # q[1] /\ c \notin ignored /\ ~task[c].stray
        BY <2>7, <3>1
      <4>2. PICK i \in 1 .. Len(q) : q[i] = row
        BY <2>1, <2>7, <4>1 DEF KeptIsToDo
      <4>3. i # 1
        BY <4>1, <4>2
      <4>4. i - 1 \in 1 .. Len(Tail(q)) /\ Tail(q)[i - 1] = row
        BY <3>1, <4>2, <4>3
      <4>5. Len(q) # 1
        BY <3>1, <4>4
      <4> QED
        BY <4>4, <4>5
    <3> QED
      BY <2>1, <2>2, <2>7, <3>4, <3>5, <3>6 DEF MaskTyped
  <2>8. CASE Apply(c)
    <3> DEFINE row == Head(task[c].todo)
               v == IF MaskingRequest(c) = "update" THEN "masked" ELSE "deleted"
    <3>1. row \in Config(c).found
      <4>1. /\ task[c].pc = "send" /\ task[c].todo # << >>
            /\ \A i \in 1 .. Len(task[c].todo) : task[c].todo[i] \in Config(c).found
        BY <2>1, <2>8 DEF UnderWay, Apply
      <4>2. 1 \in 1 .. Len(task[c].todo) /\ Head(task[c].todo) = task[c].todo[1]
        BY <2>1, <4>1, Rest
      <4> QED
        BY <4>1, <4>2
    <3>2. /\ store' = [store EXCEPT ![c][row] = v] /\ task[c].pc = "send"
          /\ UNCHANGED <<clientConfig, ignored>>
          /\ RowDone(c, task[c].stray) /\ task[c].stray \in BOOLEAN
      BY <2>1, <2>8 DEF Apply, Task
    <3>3. v \in {"masked", "deleted"}
      OBVIOUS
    <3>4. case.strict \/ "update" \in Config(c).masks => v = "masked"
      BY <2>1, <3>2, UpdatePreferred DEF UnderWay
    <3> HIDE DEF row, v
    <3>5. store'[c] = [store[c] EXCEPT ![row] = v] /\ \A b \in Collections : b # c => store'[b] = store[b]
      BY <2>1, <3>2
    <3>6. store'[c] \in [Config(c).found -> {"kept", "masked", "deleted"}]
      BY <2>1, <3>3, <3>5
    <3>7. store' \in [Collections -> UNION {[D -> {"kept", "masked", "deleted"}] : D \in SUBSET Found}]
      <4>1. Config(c).found \in SUBSET Found
        BY DEF Config, Found
      <4>2. store'[c] \in UNION {[D -> {"kept", "masked", "deleted"}] : D \in SUBSET Found}
        BY <3>6, <4>1
      <4>3. store' = [store EXCEPT ![c] = store'[c]]
        BY <2>1, <3>2, <3>5
      <4> QED
        BY <2>1, <4>2, <4>3
    <3>8. NotDeleted(c)'
      BY <1>1, <1>2, <2>1, <3>1, <3>3, <3>4, <3>5 DEF NotDeleted
    <3>9. \A x \in Config(c).found : store'[c][x] = "kept" => store[c][x] = "kept" /\ x # row
      BY <2>1, <3>1, <3>3, <3>5
    <3>10. c \in ignored' \/ c \notin ignored
      BY <3>2
    <3>11. task[c].todo # << >>
      BY <2>1, <3>2 DEF UnderWay
    <3> QED
      BY <2>7, <3>2, <3>5, <3>6, <3>7, <3>8, <3>9, <3>10, <3>11 DEF row
  <2>9. CASE Refused(c)
    <3>1. task[c].pc = "send" /\ UNCHANGED <<clientConfig, store>>
      BY <2>9 DEF Refused
    <3>2. CASE ~Config(task[c].read).ignore
      <4>1. Raises(c) /\ ignored' = ignored
        BY <2>9, <3>2 DEF Refused
      <4> QED
        BY <2>3, <3>1, <4>1
    <3>3. CASE Config(task[c].read).ignore
      <4>1. /\ ignored' = ignored \union {c}
            /\ RowDone(c, task[c].stray) /\ task[c].stray \in BOOLEAN
        BY <1>5, <2>1, <2>9, <3>3 DEF Refused, Task
      <4>2. NotDeleted(c)'
        BY <1>1, <1>2, <2>1, <3>1 DEF NotDeleted
      <4>3. task[c].todo # << >>
        BY <2>1, <3>1 DEF UnderWay
      <4>4. /\ \A b \in Collections : b # c => (b \in ignored' <=> b \in ignored)
            /\ c \in ignored' /\ store' = store
        BY <3>1, <4>1
      <4> QED
        BY <2>1, <2>7, <3>1, <4>1, <4>2, <4>3, <4>4
    <3> QED
      BY <3>2, <3>3
  <2>10. CASE ApplyAstray(c)
    <3>1. /\ task[c].pc = "send" /\ UNCHANGED <<clientConfig, ignored, store>>
          /\ RowDone(c, TRUE) /\ task[c].todo # << >>
      BY <2>1, <2>10 DEF ApplyAstray, UnderWay
    <3>2. NotDeleted(c)'
      BY <1>1, <1>2, <2>1, <3>1 DEF NotDeleted
    <3> QED
      BY <2>1, <2>7, <3>1, <3>2
  <2>11. ~Begin(c)
    BY <2>1 DEF Begin, Task
  <2> QED
    BY <1>5, <2>4, <2>5, <2>6, <2>8, <2>9, <2>10, <2>11 DEF TaskStep, NameCollection, Fetch, FetchAstray
<1>6. CASE IdentityExpires \/ UNCHANGED vars
  <2>1. UNCHANGED <<task, ignored, store, clientConfig>>
    BY <1>6 DEF IdentityExpires, vars
  <2> QED
    BY <1>3, <1>4, <2>1
<1> QED
  BY <1>3, <1>5, <1>6 DEF Next

\* When the masking of a collection has ended, no row that was found is left as it
\* was, whatever attempts failed on the way and whatever the other collections of the
\* connector did, unless a refusal was ignored or their client_config took the last
\* attempt to another host; and nothing is deleted where MASKING_STRICT or an update
\* request rules it out (mask_data).
THEOREM MaskingCorrect == Spec => []MaskedAll
<1>1. MaskInv => MaskedAll
  BY DEF MaskInv, MaskedAll, KeptIsToDo, NotDeleted
<1> QED
  BY <1>1, InitMaskInv, NextMaskInv, PTL DEF Spec

-----------------------------------------------------------------------------
\* Induction over natural numbers, said with sets.

\* A set of natural numbers has a least one.
LEMMA LeastNat ==
    ASSUME NEW T, T \subseteq Nat, T # {}
    PROVE  \E x \in T : \A y \in T : x <= y
<1> DEFINE R == {pair \in Nat \X Nat : pair[1] < pair[2]}
<1>1. IsWellFoundedOn(R, Nat)
  BY NatLessThanWellFounded DEF OpToRel
<1>2. PICK x \in T : \A y \in T : ~(<<y, x>> \in R)
  BY <1>1, WFMin
<1>3. ASSUME NEW y \in T, y < x PROVE FALSE
  <2>1. <<y, x>> \in Nat \X Nat /\ <<y, x>>[1] < <<y, x>>[2]
    BY <1>3
  <2>2. <<y, x>> \in R
    BY <2>1
  <2> QED
    BY <1>2, <2>2
<1>4. \A y \in T : x <= y
  BY <1>3
<1> QED
  BY <1>4

\* A set with 0 and, with a number, the next one, has them all.
LEMMA NatInductive ==
    ASSUME NEW S, 0 \in S, \A n \in Nat : n \in S => n + 1 \in S
    PROVE  \A n \in Nat : n \in S
<1> DEFINE T == Nat \ S
<1> SUFFICES ASSUME T # {} PROVE FALSE
  OBVIOUS
<1>1. PICK x \in T : \A y \in T : x <= y
  BY LeastNat
<1>2. x # 0 /\ x \in Nat
  OBVIOUS
<1>3. x - 1 \in Nat /\ x - 1 \notin T
  BY <1>1, <1>2
<1> QED
  BY <1>2, <1>3

-----------------------------------------------------------------------------
\* FlattenSeq, which is defined by recursion over the sequence.

\* A function like the one in FlattenSeq exists.
LEMMA FlattenExists ==
    ASSUME NEW q, NEW n \in Nat
    PROVE  \E g : g = [i \in 1 .. n |-> IF i = 1 THEN q[i] ELSE g[i - 1] \o q[i]]
<1> DEFINE Is(g, m) == g = [i \in 1 .. m |-> IF i = 1 THEN q[i] ELSE g[i - 1] \o q[i]]
           S == {m \in Nat : \E g : Is(g, m)}
<1>1. 0 \in S
  <2>1. Is(<< >>, 0)
    OBVIOUS
  <2> HIDE DEF Is
  <2> QED
    BY <2>1
<1>2. ASSUME NEW m \in Nat, m \in S PROVE m + 1 \in S
  <2>1. PICK g : Is(g, m)
    BY <1>2
  <2>2. DOMAIN g = 1 .. m /\ \A i \in 1 .. m : g[i] = IF i = 1 THEN q[i] ELSE g[i - 1] \o q[i]
    BY <2>1
  <2> DEFINE last == IF m = 0 THEN q[1] ELSE g[m] \o q[m + 1]
             h == [i \in 1 .. m + 1 |-> IF i = m + 1 THEN last ELSE g[i]]
  <2>3. ASSUME NEW i \in 1 .. m + 1 PROVE h[i] = IF i = 1 THEN q[i] ELSE h[i - 1] \o q[i]
    <3>1. CASE i = m + 1
      <4>1. h[i] = last
        BY <3>1
      <4>2. m # 0 => h[i - 1] = g[m]
        BY <3>1
      <4> QED
        BY <3>1, <4>1, <4>2
    <3>2. CASE i # m + 1
      <4>1. i \in 1 .. m /\ h[i] = g[i]
        BY <3>2
      <4>2. i # 1 => i - 1 \in 1 .. m + 1 /\ i - 1 # m + 1
        OBVIOUS
      <4>3. i # 1 => h[i - 1] = g[i - 1]
        BY <4>2
      <4> HIDE DEF h
      <4> QED
        BY <2>2, <4>1, <4>3
    <3> QED
      BY <3>1, <3>2
  <2>4. h = [i \in 1 .. m + 1 |-> h[i]]
    OBVIOUS
  <2> HIDE DEF h
  <2>5. Is(h, m + 1)
    BY <2>3, <2>4
  <2> HIDE DEF Is
  <2> QED
    BY <2>5
<1> HIDE DEF S
<1>3. n \in S
  BY <1>1, <1>2, NatInductive
<1> QED
  BY <1>3 DEF S

\* A sequence of sequences is flattened to a sequence of their elements.
LEMMA FlattenIsSeq ==
    ASSUME NEW S, NEW q \in Seq(Seq(S))
    PROVE  FlattenSeq(q) \in Seq(S)
<1>1. CASE Len(q) = 0
  BY <1>1 DEF FlattenSeq
<1>2. CASE Len(q) # 0
  <2> DEFINE n == Len(q)
             f == CHOOSE g : g = [i \in 1 .. n |-> IF i = 1 THEN q[i] ELSE g[i - 1] \o q[i]]
  <2>1. n \in Nat /\ n >= 1 /\ \A i \in 1 .. n : q[i] \in Seq(S)
    BY <1>2
  <2>2. f = [i \in 1 .. n |-> IF i = 1 THEN q[i] ELSE f[i - 1] \o q[i]]
    BY <2>1, FlattenExists
  <2>3. FlattenSeq(q) = f[n]
    BY <1>2 DEF FlattenSeq
  <2> HIDE DEF f, n
  <2>4. \A i \in 1 .. n : f[i] = IF i = 1 THEN q[i] ELSE f[i - 1] \o q[i]
    BY <2>2
  <2> DEFINE T == {m \in Nat : m \in 1 .. n => f[m] \in Seq(S)}
  <2>5. 0 \in T
    OBVIOUS
  <2>6. ASSUME NEW m \in Nat, m \in T PROVE m + 1 \in T
    <3> SUFFICES ASSUME m + 1 \in 1 .. n PROVE f[m + 1] \in Seq(S)
      OBVIOUS
    <3>1. CASE m = 0
      BY <2>1, <2>4, <3>1
    <3>2. CASE m # 0
      <4>1. m \in 1 .. n /\ f[m] \in Seq(S) /\ q[m + 1] \in Seq(S)
        BY <2>1, <2>6, <3>2
      <4>2. f[m + 1] = f[m] \o q[m + 1]
        <5>1. m + 1 # 1 /\ (m + 1) - 1 = m
          BY <3>2
        <5>2. f[m + 1] = IF m + 1 = 1 THEN q[m + 1] ELSE f[(m + 1) - 1] \o q[m + 1]
          BY <2>4
        <5> QED
          BY <5>1, <5>2
      <4> QED
        BY <4>1, <4>2, ConcatProperties
    <3> QED
      BY <3>1, <3>2
  <2> HIDE DEF T
  <2>7. n \in T
    BY <2>1, <2>5, <2>6, NatInductive
  <2> QED
    BY <2>1, <2>3, <2>7 DEF T
<1> QED
  BY <1>1, <1>2

-----------------------------------------------------------------------------
\* The requests of a collection

\* What makes a function a sequence.
LEMMA IsSequence ==
    ASSUME NEW n \in Nat, NEW S, NEW f \in [1 .. n -> S]
    PROVE  f \in Seq(S) /\ Len(f) = n
OBVIOUS

\* SetToSeq has as many elements as the set, and no others.
LEMMA SetToSeqIs ==
    ASSUME NEW S, IsFiniteSet(S)
    PROVE  /\ SetToSeq(S) \in Seq(S)
           /\ Len(SetToSeq(S)) = Cardinality(S)
<1> DEFINE n == Cardinality(S)
<1>1. n \in Nat /\ ExistsBijection(1 .. n, S)
  BY FS_CardinalityType
<1>2. \E f \in [1 .. n -> S] : IsInjective(f)
  BY <1>1 DEF ExistsBijection, Bijection, Injection
<1>3. SetToSeq(S) \in [1 .. n -> S]
  BY <1>2 DEF SetToSeq
<1> QED
  BY <1>1, <1>3

\* What CasesAssumption says of the configuration of a collection.
Configured(c) ==
    /\ Config(c).inputs \in Seq(Range(Config(c).inputs))
    /\ \A i \in DOMAIN Config(c).inputs : IsFiniteSet(DOMAIN Config(c).inputs[i])
    /\ Config(c).paging \in {"none", "offset", "cursor", "link"}
    /\ Config(c).first \in Int /\ Config(c).step \in Nat \ {0} /\ Config(c).limit \in Int
    /\ Config(c).pages \in Seq(Seq(Seq(ServiceRows)))
    /\ \A i \in DOMAIN Config(c).pages : Config(c).pages[i] # << >>
    /\ Config(c).endless => Config(c).paging = "offset"

LEMMA CasesAreConfigured ==
    ASSUME case \in Cases, NEW c \in Collections
    PROVE  Configured(c)
BY CasesAssumption DEF Configured, Config

\* There are finitely many values to ask for.
LEMMA FiniteValues ==
    ASSUME NEW c, Configured(c)
    PROVE  IsFiniteSet(Values(c))
<1> DEFINE inputs == Config(c).inputs
           n == Len(inputs)
           f == [i \in 1 .. n |-> DOMAIN inputs[i]]
           names == UNION {DOMAIN row : row \in Range(inputs)}
<1>1. n \in Nat /\ DOMAIN inputs = 1 .. n /\ Range(inputs) = {inputs[i] : i \in 1 .. n}
  BY DEF Configured, Range
<1>2. IsFiniteSet(1 .. n)
  BY <1>1, FS_Interval
<1>3. f \in Surjection(1 .. n, {DOMAIN row : row \in Range(inputs)})
  BY <1>1 DEF Surjection
<1>4. IsFiniteSet({DOMAIN row : row \in Range(inputs)})
  BY <1>2, <1>3, FS_Surjection
<1>5. \A T \in {DOMAIN row : row \in Range(inputs)} : IsFiniteSet(T)
  BY <1>1 DEF Configured
<1>6. IsFiniteSet(names)
  BY <1>4, <1>5, FS_UNION
<1>7. IsFiniteSet((1 .. n) \X names)
  BY <1>2, <1>6, FS_Product
<1>8. Values(c) \in SUBSET ((1 .. n) \X names)
  BY <1>1 DEF Values
<1> QED
  BY <1>7, <1>8, FS_Subset

\* The parameters put into a request are those of one upstream row.
OfOneRow(c, params) ==
    \E row \in Range(Config(c).inputs) : \A p \in DOMAIN params : params[p] = row[p]

LEMMA ParamsOfRow ==
    ASSUME NEW c, NEW row \in Range(Config(c).inputs), NEW S
    PROVE  OfOneRow(c, Params(Restrict(row, S)))
BY DEF OfOneRow, Params, RestrictValues, Restrict

\* generate_requests makes one request for every value and every group of values.
LEMMA PreparedIs ==
    ASSUME NEW c, Configured(c)
    PROVE  /\ Prepared(c) \in Seq(Range(Prepared(c)))
           /\ Len(Prepared(c)) = Cardinality(Values(c))
                 + IF Config(c).grouped = {} THEN 0 ELSE Len(Config(c).inputs)
           /\ \A i \in 1 .. Len(Prepared(c)) : OfOneRow(c, Prepared(c)[i])
<1> DEFINE inputs == Config(c).inputs
           n == Len(inputs)
           q == SetToSeq(Values(c))
           m == Cardinality(Values(c))
           u == Independent(c)
           v == Grouped(c)
           S == {Params(Restrict(row, T)) : row \in Range(inputs),
                                            T \in {{p} : p \in UNION {DOMAIN row : row \in Range(inputs)}} \union {Config(c).grouped}}
<1>1. n \in Nat /\ DOMAIN inputs = 1 .. n /\ \A i \in 1 .. n : inputs[i] \in Range(inputs)
  BY DEF Configured, Range
<1>2. m \in Nat /\ q \in Seq(Values(c)) /\ Len(q) = m
  BY FiniteValues, SetToSeqIs, FS_CardinalityType
<1>3. \A i \in 1 .. m : q[i] \in Values(c)
  BY <1>2
<1>4. \A w \in Values(c) : /\ inputs[w[1]] \in Range(inputs)
                           /\ w[2] \in UNION {DOMAIN row : row \in Range(inputs)}
  BY <1>1 DEF Values
<1>5. u = [i \in 1 .. m |-> Params(Restrict(inputs[q[i][1]], {q[i][2]}))]
  BY <1>2 DEF Independent
<1>6. \A i \in 1 .. m : u[i] \in S
  BY <1>3, <1>4, <1>5
<1>7. u \in Seq(S) /\ Len(u) = m
  <2> HIDE DEF u, S
  <2>1. u \in [1 .. m -> S]
    BY <1>5, <1>6
  <2> QED
    BY <1>2, <2>1, IsSequence
<1>8. v \in Seq(S) /\ Len(v) = IF Config(c).grouped = {} THEN 0 ELSE n
  <2>1. CASE Config(c).grouped = {}
    BY <2>1 DEF Grouped
  <2>2. CASE Config(c).grouped # {}
    <3>1. v = [i \in 1 .. n |-> Params(Restrict(inputs[i], Config(c).grouped))]
      BY <1>1, <2>2 DEF Grouped
    <3>2. \A i \in 1 .. n : v[i] \in S
      BY <1>1, <3>1
    <3> HIDE DEF v, S
    <3>3. v \in [1 .. n -> S]
      BY <3>1, <3>2
    <3> QED
      BY <1>1, <2>2, <3>3, IsSequence
  <2> QED
    BY <2>1, <2>2
<1>9. \A params \in S : OfOneRow(c, params)
  BY ParamsOfRow
<1> HIDE DEF u, v, S, m, n
<1>10. u \o v \in Seq(S) /\ Len(u \o v) = Len(u) + Len(v)
  BY <1>7, <1>8, ConcatProperties
<1>11. Prepared(c) = u \o v
  BY DEF Prepared, u, v
<1>12. /\ Prepared(c) \in Seq(S)
       /\ Len(Prepared(c)) = m + IF Config(c).grouped = {} THEN 0 ELSE n
  BY <1>7, <1>8, <1>10, <1>11
<1>13. \A i \in 1 .. Len(Prepared(c)) : Prepared(c)[i] \in S
  BY <1>12
<1>14. Prepared(c) \in Seq(Range(Prepared(c)))
  BY <1>12, SeqOfRange
<1> QED
  BY <1>9, <1>12, <1>13, <1>14 DEF m, n

-----------------------------------------------------------------------------
\* Pages

LEMMA PageIs ==
    ASSUME NEW c, Configured(c), NEW at
    PROVE  PageAt(c, at) \in Seq(Seq(ServiceRows))
<1> DEFINE pages == Config(c).pages
<1>1. pages \in Seq(Seq(Seq(ServiceRows))) /\ DOMAIN pages = 1 .. Len(pages)
  BY DEF Configured
<1>2. pages # << >> => Last(pages) \in Seq(Seq(ServiceRows))
  BY <1>1 DEF Last
<1>3. << >> \in Seq(Seq(ServiceRows))
  OBVIOUS
<1> HIDE DEF pages
<1>4. \A n \in DOMAIN pages : pages[n] \in Seq(Seq(ServiceRows))
  BY <1>1
<1> QED
  BY <1>2, <1>3, <1>4 DEF PageAt, pages

LEMMA ProcessIs ==
    ASSUME NEW c, NEW page \in Seq(Seq(ServiceRows))
    PROVE  /\ Process(c, page) \in Seq(ServiceRows)
           /\ page = << >> => Process(c, page) = << >>
<1> DEFINE rows == FlattenSeq(page)
           kept == [i \in DOMAIN rows |-> IF rows[i][2] = "me" THEN <<rows[i]>> ELSE << >>]
<1>1. rows \in Seq(ServiceRows)
  BY FlattenIsSeq
<1>2. page = << >> => rows = << >>
  BY DEF FlattenSeq
<1> HIDE DEF rows
<1>3. Len(rows) \in Nat /\ DOMAIN rows = 1 .. Len(rows) /\ \A i \in 1 .. Len(rows) : rows[i] \in ServiceRows
  BY <1>1
<1>4. kept \in [1 .. Len(rows) -> Seq(ServiceRows)]
  <2>1. ASSUME NEW i \in 1 .. Len(rows) PROVE <<rows[i]>> \in Seq(ServiceRows) /\ << >> \in Seq(ServiceRows)
    BY <1>3
  <2> QED
    BY <1>3, <2>1
<1>5. kept \in Seq(Seq(ServiceRows)) /\ Len(kept) = Len(rows)
  <2> HIDE DEF kept
  <2> QED
    BY <1>3, <1>4, IsSequence
<1>6. FlattenSeq(kept) \in Seq(ServiceRows)
  BY <1>5, FlattenIsSeq
<1>7. rows = << >> => FlattenSeq(kept) = << >>
  <2> SUFFICES ASSUME rows = << >> PROVE FlattenSeq(kept) = << >>
    OBVIOUS
  <2>1. Len(kept) = 0
    BY <1>5
  <2> HIDE DEF kept
  <2>2. kept = << >>
    BY <1>5, <2>1
  <2> QED
    BY <2>2 DEF FlattenSeq
<1>8. FilterByIdentity(rows) \in Seq(ServiceRows) /\ (rows = << >> => FilterByIdentity(rows) = << >>)
  <2>1. FilterByIdentity(rows) = << >> \/ FilterByIdentity(rows) = FlattenSeq(kept)
    BY DEF FilterByIdentity
  <2>2. << >> \in Seq(ServiceRows)
    OBVIOUS
  <2> DEFINE g == FilterByIdentity(rows)
  <2> HIDE DEF kept, g
  <2>3. g = << >> \/ g = FlattenSeq(kept)
    BY <2>1 DEF g
  <2>4. g \in Seq(ServiceRows) /\ (rows = << >> => g = << >>)
    BY <1>6, <1>7, <2>2, <2>3
  <2> QED
    BY <2>4 DEF g
<1>9. Process(c, page) = IF Config(c).filter THEN FilterByIdentity(rows) ELSE rows
  BY DEF Process, Unwrap, rows
<1> QED
  BY <1>1, <1>2, <1>8, <1>9

\* The rows at a place of a read are in a sequence; none are behind the last page.
LEMMA RowsOfPage ==
    ASSUME NEW c, Configured(c), NEW at
    PROVE  /\ Process(c, PageAt(c, at)) \in Seq(ServiceRows)
           /\ PageAt(c, at) = << >> => Process(c, PageAt(c, at)) = << >>
BY PageIs, ProcessIs

\* Multiples of a step.
LEMMA Multiples ==
    ASSUME NEW s \in Nat \ {0}, NEW x \in Int, x % s = 0
    PROVE  /\ (x + s) % s = 0 /\ (x + s) \div s = x \div s + 1 /\ x \div s \in Int
           /\ \A y \in Int : y % s = 0 /\ x < y => x + s <= y /\ x \div s < y \div s
<1>1. (x + s) % s = 0 /\ (x + s) \div s = x \div s + 1 /\ x \div s \in Int
  <2> DEFINE j == x \div s
  <2>1. x = s * j /\ j \in Int
    OBVIOUS
  <2> HIDE DEF j
  <2>2. x + s = s * (j + 1)
    BY <2>1
  <2>3. (s * (j + 1)) % s = 0
    BY <2>1
  <2>4. (s * (j + 1)) \div s = j + 1
    BY <2>1
  <2> QED
    BY <2>1, <2>2, <2>3, <2>4 DEF j
<1>2. ASSUME NEW y \in Int, y % s = 0, x < y PROVE x + s <= y /\ x \div s < y \div s
  <2> DEFINE j == x \div s
             k == y \div s
  <2>1. x = s * j /\ j \in Int
    OBVIOUS
  <2>2. y = s * k /\ k \in Int
    BY <1>2
  <2> HIDE DEF j, k
  <2>3. j < k
    BY <1>2, <2>1, <2>2
  <2>4. s * (j + 1) <= s * k
    BY <2>1, <2>2, <2>3
  <2>5. s * (j + 1) = s * j + s
    BY <2>1
  <2> QED
    BY <2>1, <2>2, <2>3, <2>4, <2>5 DEF j, k
<1> QED
  BY <1>1, <1>2

-----------------------------------------------------------------------------
\* Pagination

\* Where a read of one request may be: at a place of a complete read, or at the
\* link that a service sends with its last page.
GoodAt(c, at) ==
    \/ at \in Reached(c)
    \/ Config(c).paging = "link" /\ at = Len(Config(c).pages) + 1

\* A read begins at the first of its places, which are finitely many.
LEMMA FirstPlace ==
    ASSUME NEW c, Configured(c)
    PROVE  /\ GoodAt(c, FirstAt(c)) /\ FirstAt(c) \in Int
           /\ Len(Config(c).pages) \in Nat /\ DOMAIN Config(c).pages = 1 .. Len(Config(c).pages)
           /\ \A at : GoodAt(c, at) => at \in Int
           /\ \A at \in Reached(c) : at \in Int /\ FirstAt(c) <= at
           /\ IsFiniteSet(Reached(c))
<1> DEFINE n == Len(Config(c).pages)
           first == Config(c).first
           limit == Config(c).limit
<1>1. n \in Nat /\ DOMAIN Config(c).pages = 1 .. n
  BY DEF Configured
<1>2. first \in Int /\ limit \in Int /\ Config(c).step \in Nat \ {0}
  BY DEF Configured
<1> SUFFICES /\ GoodAt(c, FirstAt(c)) /\ FirstAt(c) \in Int
             /\ \A at \in Reached(c) : at \in Int /\ FirstAt(c) <= at
             /\ IsFiniteSet(Reached(c))
  BY <1>1 DEF GoodAt
<1>3. IsFiniteSet({1}) /\ IsFiniteSet(first .. limit) /\ IsFiniteSet(0 .. n) /\ IsFiniteSet(1 .. n)
  <2>1. IsFiniteSet({1})
    BY FS_Singleton
  <2>2. IsFiniteSet(first .. limit)
    BY <1>2, FS_Interval
  <2>3. IsFiniteSet(0 .. n) /\ IsFiniteSet(1 .. n)
    BY <1>1, FS_Interval
  <2> QED
    BY <2>1, <2>2, <2>3
<1>4. CASE Config(c).paging = "none"
  <2>1. Reached(c) = {1} /\ FirstAt(c) = 1
    BY <1>4 DEF Reached, FirstAt
  <2> QED
    BY <1>3, <2>1 DEF GoodAt
<1>5. CASE Config(c).paging = "offset"
  <2> DEFINE A == {at \in first .. limit : (at - first) % Config(c).step = 0}
  <2>1. Reached(c) = A \union {first} /\ FirstAt(c) = first
    BY <1>5 DEF Reached, FirstAt
  <2>2. IsFiniteSet(A)
    BY <1>3, FS_Subset
  <2>3. IsFiniteSet(A \union {first})
    BY <2>2, FS_AddElement
  <2>4. \A at \in A : at \in Int /\ first <= at
    BY <1>2
  <2> QED
    BY <1>2, <2>1, <2>3, <2>4 DEF GoodAt
<1>6. CASE Config(c).paging = "cursor"
  <2> DEFINE A == {at \in 0 .. n : Config(c).noCursor \in 1 .. n => at < Config(c).noCursor}
  <2>1. Reached(c) = A /\ FirstAt(c) = 0
    BY <1>6 DEF Reached, FirstAt
  <2>2. IsFiniteSet(A)
    BY <1>3, FS_Subset
  <2>3. 0 \in A /\ \A at \in A : at \in Int /\ 0 <= at
    BY <1>1
  <2> QED
    BY <2>1, <2>2, <2>3 DEF GoodAt
<1>7. CASE Config(c).paging = "link"
  <2>1. Reached(c) = 1 .. n /\ FirstAt(c) = 1
    BY <1>7 DEF Reached, FirstAt
  <2>2. 1 \in 1 .. n \/ 1 = n + 1
    BY <1>1
  <2> QED
    BY <1>1, <1>3, <1>7, <2>1, <2>2 DEF GoodAt
<1> QED
  BY <1>4, <1>5, <1>6, <1>7 DEF Configured

\* The page at a place, by its number.
LEMMA EmptyPage ==
    ASSUME NEW c, Configured(c), NEW at \in Int, NEW n \in Int, n >= 1,
           n = CASE Config(c).paging = "offset" -> (at - Config(c).first) \div Config(c).step + 1
                 [] Config(c).paging = "cursor" -> at + 1
                 [] OTHER -> at
    PROVE  PageAt(c, at) = << >> <=> /\ n > Len(Config(c).pages)
                                     /\ ~Config(c).endless \/ Config(c).pages = << >>
<1> DEFINE pages == Config(c).pages
<1>1. Len(pages) \in Nat /\ DOMAIN pages = 1 .. Len(pages) /\ \A i \in 1 .. Len(pages) : pages[i] # << >>
  BY DEF Configured
<1>2. pages # << >> => Last(pages) # << >>
  <2>1. pages # << >> => Len(pages) \in 1 .. Len(pages)
    BY <1>1 DEF Configured
  <2> QED
    BY <1>1, <2>1 DEF Last
<1>3. PageAt(c, at) = IF n \in DOMAIN pages THEN pages[n]
                     ELSE IF Config(c).endless /\ pages # << >> THEN Last(pages) ELSE << >>
  BY DEF PageAt
<1> HIDE DEF pages
<1>4. CASE n \in 1 .. Len(pages)
  BY <1>1, <1>3, <1>4 DEF pages
<1>5. CASE n > Len(pages)
  BY <1>1, <1>2, <1>3, <1>5 DEF pages
<1> QED
  BY <1>1, <1>4, <1>5

\* get_next_request goes on with the next of the places, and ends where the places
\* that are left have no rows.
LEMMA Advance ==
    ASSUME NEW c, Configured(c), NEW request, GoodAt(c, request.at),
           NEW next, next = GetNextRequest(c, request, PageAt(c, request.at))
    PROVE  \/ /\ next = << >>
              /\ \A a \in Reached(c) : a > request.at => PageAt(c, a) = << >>
           \/ /\ request.at \in Reached(c)
              /\ \E b : /\ next = Next1(request, b)
                        /\ GoodAt(c, b)
                        /\ \A a \in Reached(c) : a < b <=> a <= request.at
<1> DEFINE at == request.at
           page == PageAt(c, at)
           n == Len(Config(c).pages)
<1>1. n \in Nat /\ at \in Int /\ \A a \in Reached(c) : a \in Int /\ FirstAt(c) <= a
  BY FirstPlace
<1>2. CASE Config(c).paging = "none"
  <2>1. next = << >> /\ Reached(c) = {1} /\ at = 1
    BY <1>2 DEF GetNextRequest, Reached, GoodAt
  <2> QED
    BY <2>1
<1>3. CASE Config(c).paging = "offset"
  <2> DEFINE first == Config(c).first
             step == Config(c).step
             limit == Config(c).limit
             x == at - first
  <2>1. first \in Int /\ step \in Nat \ {0} /\ limit \in Int
    BY DEF Configured
  <2>2. \A a : a \in Reached(c) <=> \/ a \in first .. limit /\ (a - first) % step = 0
                                   \/ a = first
    BY <1>3 DEF Reached
  <2>3. at \in Reached(c)
    BY <1>3 DEF GoodAt
  <2>4. 0 % step = 0 /\ first - first = 0
    BY <2>1
  <2>5. \A a \in Reached(c) : a \in Int /\ first <= a /\ (a - first) % step = 0
    BY <2>1, <2>2, <2>4
  <2> HIDE DEF first, step, limit
  <2>6. x \in Int /\ x >= 0 /\ x % step = 0
    BY <1>1, <2>1, <2>3, <2>5
  <2>7. ASSUME NEW a \in Reached(c), a > at
        PROVE  a >= at + step /\ (a - first) \div step > x \div step /\ (a - first) \div step \in Int /\ a <= limit
    <3> DEFINE y == a - first
    <3>1. y \in Int /\ y % step = 0 /\ x < y
      BY <1>1, <2>1, <2>5, <2>7
    <3>2. x + step <= y /\ x \div step < y \div step /\ y \div step \in Int
      BY <2>1, <2>6, <3>1, Multiples
    <3>3. a <= limit
      <4>1. first <= at /\ a # first /\ at \in Int
        BY <1>1, <2>1, <2>3, <2>5, <2>7
      <4> QED
        BY <1>1, <2>1, <2>2, <4>1
    <3> QED
      BY <1>1, <2>1, <2>5, <3>2, <3>3
  <2>8. next = OffsetNext(c, request, page)
    BY <1>3 DEF GetNextRequest
  <2>9. CASE page # << >> /\ at + step <= limit
    <3>1. next = Next1(request, at + step)
      BY <2>8, <2>9 DEF OffsetNext, step, limit
    <3>2. (x + step) % step = 0
      BY <2>1, <2>6, Multiples
    <3>3. (at + step) - first = x + step
      BY <1>1, <2>1
    <3>4. at + step \in first .. limit
      BY <1>1, <2>1, <2>6, <2>9
    <3>5. at + step \in Reached(c)
      BY <2>2, <3>2, <3>3, <3>4
    <3>6. \A a \in Reached(c) : a < at + step <=> a <= at
      BY <1>1, <2>1, <2>7
    <3> QED
      BY <2>3, <3>1, <3>5, <3>6 DEF GoodAt
  <2>10. CASE page = << >>
    <3>1. next = << >>
      BY <2>8, <2>10 DEF OffsetNext
    <3>2. ASSUME NEW a \in Reached(c), a > at PROVE PageAt(c, a) = << >>
      <4> DEFINE j == x \div step
                 k == (a - first) \div step
      <4>1. j \in Int /\ j >= 0
        BY <2>1, <2>6
      <4>2. k \in Int /\ k > j
        BY <2>7, <3>2
      <4> HIDE DEF j, k
      <4>3. j + 1 > n /\ (~Config(c).endless \/ Config(c).pages = << >>)
        BY <1>1, <1>3, <2>10, <4>1, EmptyPage DEF j, first, step
      <4>4. k + 1 > n /\ k + 1 >= 1 /\ k + 1 \in Int
        BY <1>1, <4>1, <4>2, <4>3
      <4> QED
        BY <1>1, <1>3, <4>3, <4>4, EmptyPage DEF k, first, step
    <3> QED
      BY <3>1, <3>2
  <2>11. CASE ~(at + step <= limit)
    <3>1. next = << >>
      BY <2>8, <2>11 DEF OffsetNext, step, limit
    <3>2. \A a \in Reached(c) : ~(a > at)
      BY <1>1, <2>1, <2>7, <2>11
    <3> QED
      BY <3>1, <3>2
  <2> QED
    BY <2>9, <2>10, <2>11
<1>4. CASE Config(c).paging = "cursor"
  <2> DEFINE none == Config(c).noCursor
  <2>1. \A a : a \in Reached(c) <=> a \in 0 .. n /\ (none \in 1 .. n => a < none)
    BY <1>4 DEF Reached
  <2>2. at \in Reached(c) /\ at \in 0 .. n
    BY <1>4, <2>1 DEF GoodAt
  <2>3. next = CursorNext(c, request, page)
    BY <1>4 DEF GetNextRequest
  <2>4. ~Config(c).endless
    BY <1>4 DEF Configured
  <2>5. \A a \in 0 .. n : PageAt(c, a) = << >> <=> a = n
    <3> SUFFICES ASSUME NEW a \in 0 .. n PROVE PageAt(c, a) = << >> <=> a + 1 > n
      BY <1>1
    <3> QED
      BY <1>1, <1>4, <2>4, EmptyPage
  <2> HIDE DEF none, n
  <2>6. CASE page # << >> /\ at + 1 # none
    <3>1. next = Next1(request, at + 1)
      BY <2>3, <2>6 DEF CursorNext, none
    <3>2. at + 1 \in 0 .. n
      BY <1>1, <2>2, <2>5, <2>6
    <3>3. none \in 1 .. n => at + 1 < none
      BY <1>1, <2>1, <2>2, <2>6
    <3>4. at + 1 \in Reached(c)
      BY <2>1, <3>2, <3>3
    <3>5. \A a \in Reached(c) : a < at + 1 <=> a <= at
      BY <1>1
    <3> QED
      BY <2>2, <3>1, <3>4, <3>5 DEF GoodAt
  <2>7. CASE page = << >> \/ at + 1 = none
    <3>1. next = << >>
      BY <2>3, <2>7 DEF CursorNext, none
    <3>2. \A a \in Reached(c) : ~(a > at)
      <4>1. CASE page = << >>
        BY <1>1, <2>1, <2>2, <2>5, <4>1
      <4>2. CASE page # << >> /\ at + 1 = none
        <5>1. at + 1 \in 1 .. n
          BY <1>1, <2>2, <2>5, <4>2
        <5> QED
          BY <1>1, <2>1, <4>2, <5>1
      <4> QED
        BY <2>7, <4>1, <4>2
    <3> QED
      BY <3>1, <3>2
  <2> QED
    BY <2>6, <2>7
<1>5. CASE Config(c).paging = "link"
  <2>1. Reached(c) = 1 .. n
    BY <1>5 DEF Reached
  <2>2. at \in 1 .. n + 1
    BY <1>1, <2>1 DEF GoodAt
  <2>3. next = LinkNext(c, request, page)
    BY <1>5 DEF GetNextRequest
  <2>4. ~Config(c).endless
    BY <1>5 DEF Configured
  <2>5. page = << >> <=> at > n
    BY <1>1, <1>5, <2>2, <2>4, EmptyPage
  <2>6. CASE page # << >> /\ (at < n \/ Config(c).linksOn)
    <3>1. next = Next1(request, at + 1)
      BY <2>3, <2>6 DEF LinkNext
    <3>2. at \in Reached(c)
      BY <1>1, <2>1, <2>2, <2>5, <2>6
    <3>3. GoodAt(c, at + 1)
      BY <1>1, <1>5, <2>1, <2>2, <2>5, <2>6 DEF GoodAt
    <3>4. \A a \in Reached(c) : a < at + 1 <=> a <= at
      BY <1>1
    <3> QED
      BY <3>1, <3>2, <3>3, <3>4
  <2>7. CASE ~(page # << >> /\ (at < n \/ Config(c).linksOn))
    <3>1. next = << >>
      BY <2>3, <2>7 DEF LinkNext
    <3>2. \A a \in Reached(c) : ~(a > at)
      BY <1>1, <2>1, <2>2, <2>5, <2>7
    <3> QED
      BY <3>1, <3>2
  <2> QED
    BY <2>6, <2>7
<1> QED
  BY <1>2, <1>3, <1>4, <1>5 DEF Configured

-----------------------------------------------------------------------------
\* What has been read

\* The places up to a place of the read.
Before(c, at) == {a \in Reached(c) : a < at}

\* There are finitely many rows to read.
LEMMA WantedFinite ==
    ASSUME NEW c, Configured(c), NEW A \in SUBSET Reached(c)
    PROVE  IsFiniteSet(Wanted(c, A)) /\ Cardinality(Wanted(c, A)) \in Nat
<1> DEFINE Places(at) == {<<at, i>> : i \in DOMAIN Process(c, PageAt(c, at))}
           f == [at \in A |-> Places(at)]
<1>1. IsFiniteSet(A)
  BY FirstPlace, FS_Subset
<1>2. f \in Surjection(A, {Places(at) : at \in A})
  BY DEF Surjection
<1>3. IsFiniteSet({Places(at) : at \in A})
  BY <1>1, <1>2, FS_Surjection
<1>4. ASSUME NEW at \in A PROVE IsFiniteSet(Places(at))
  <2> DEFINE p == Process(c, PageAt(c, at))
             g == [i \in 1 .. Len(p) |-> <<at, i>>]
  <2>1. p \in Seq(ServiceRows)
    BY RowsOfPage
  <2> HIDE DEF p
  <2>2. Len(p) \in Nat /\ DOMAIN p = 1 .. Len(p)
    BY <2>1
  <2>3. IsFiniteSet(1 .. Len(p))
    BY <2>2, FS_Interval
  <2>4. Places(at) = {<<at, i>> : i \in 1 .. Len(p)}
    BY <2>2 DEF p
  <2>5. g \in Surjection(1 .. Len(p), {<<at, i>> : i \in 1 .. Len(p)})
    BY DEF Surjection
  <2>6. IsFiniteSet({<<at, i>> : i \in 1 .. Len(p)})
    BY <2>3, <2>5, FS_Surjection
  <2> QED
    BY <2>4, <2>6
<1>5. \A T \in {Places(at) : at \in A} : IsFiniteSet(T)
  BY <1>4
<1>6. IsFiniteSet(UNION {Places(at) : at \in A})
  BY <1>3, <1>5, FS_UNION
<1> QED
  BY <1>6, FS_CardinalityType DEF Wanted

\* The rows of one page.
RowsOn(p) == {p[i] : i \in 1 .. Len(p)}

\* The rows of one more place come on top of those of the places before it.
LEMMA OneMorePlace ==
    ASSUME NEW c, Configured(c), NEW at, GoodAt(c, at), NEW A \in SUBSET Reached(c),
           at \notin A, NEW p, p = Process(c, PageAt(c, at))
    PROVE  /\ Cardinality(Wanted(c, A \union {at})) = Cardinality(Wanted(c, A)) + Len(p)
           /\ Len(p) \in Nat
           /\ RowsAt(c, Wanted(c, A \union {at})) = RowsAt(c, Wanted(c, A)) \union RowsOn(p)
<1> DEFINE W == Wanted(c, A)
           V == {<<at, i>> : i \in 1 .. Len(p)}
           g == [i \in 1 .. Len(p) |-> <<at, i>>]
<1>1. p \in Seq(ServiceRows)
  BY RowsOfPage
<1>2. Len(p) \in Nat /\ DOMAIN p = 1 .. Len(p)
  BY <1>1
<1>3. Wanted(c, A \union {at}) = W \union V
  BY <1>2 DEF Wanted
<1>4. W \cap V = {}
  BY DEF Wanted
<1>5. IsFiniteSet(W) /\ Cardinality(W) \in Nat
  BY WantedFinite
<1>6. IsFiniteSet(V) /\ Cardinality(V) = Len(p)
  <2>1. IsFiniteSet(1 .. Len(p)) /\ Cardinality(1 .. Len(p)) = Len(p)
    <3> DEFINE m == Len(p)
    <3>1. m \in Nat
      BY <1>2
    <3> HIDE DEF m
    <3>2. IsFiniteSet(1 .. m) /\ Cardinality(1 .. m) = IF 1 > m THEN 0 ELSE m - 1 + 1
      BY <3>1, FS_Interval
    <3>3. IsFiniteSet(1 .. m) /\ Cardinality(1 .. m) = m
      BY <3>1, <3>2
    <3> QED
      BY <3>3 DEF m
  <2>2. g \in Surjection(1 .. Len(p), V) /\ g \in Injection(1 .. Len(p), V)
    BY DEF Surjection, Injection, IsInjective
  <2>3. IsFiniteSet(V)
    BY <2>1, <2>2, FS_Surjection
  <2> QED
    BY <2>1, <2>2, <2>3, FS_Surjection
<1> HIDE DEF W, V
<1>7. Cardinality(W \union V) = Cardinality(W) + Len(p)
  <2>1. Cardinality(W \union V) = Cardinality(W) + Cardinality(V) - Cardinality(W \cap V)
    BY <1>5, <1>6, FS_Union
  <2>2. Cardinality(W \cap V) = 0
    BY <1>4, FS_EmptySet
  <2> QED
    BY <1>2, <1>5, <1>6, <2>1, <2>2
<1>8. RowsAt(c, V) = {p[i] : i \in 1 .. Len(p)}
  <2> DEFINE Row(w) == Process(c, PageAt(c, w[1]))[w[2]]
  <2>1. \A i \in 1 .. Len(p) : Row(<<at, i>>) = p[i]
    OBVIOUS
  <2>2. RowsAt(c, V) = {Row(w) : w \in V}
    BY DEF RowsAt
  <2> HIDE DEF Row
  <2>3. ASSUME NEW x \in RowsAt(c, V) PROVE x \in {p[i] : i \in 1 .. Len(p)}
    <3>1. PICK w \in V : x = Row(w)
      BY <2>2
    <3>2. PICK i \in 1 .. Len(p) : w = <<at, i>>
      BY DEF V
    <3> QED
      BY <2>1, <3>1, <3>2
  <2>4. ASSUME NEW i \in 1 .. Len(p) PROVE p[i] \in RowsAt(c, V)
    <3>1. <<at, i>> \in V
      BY DEF V
    <3> QED
      BY <2>1, <2>2, <3>1
  <2> QED
    BY <2>3, <2>4
<1>9. RowsAt(c, W \union V) = RowsAt(c, W) \union RowsAt(c, V)
  BY DEF RowsAt
<1> QED
  BY <1>2, <1>3, <1>7, <1>8, <1>9 DEF W, RowsOn

\* Places without rows add nothing.
LEMMA EmptyPlaces ==
    ASSUME NEW c, Configured(c), NEW A, NEW B, A \subseteq B,
           \A at \in B : at \in A \/ PageAt(c, at) = << >>
    PROVE  Wanted(c, A) = Wanted(c, B)
<1>1. \A at \in B : at \in A \/ DOMAIN Process(c, PageAt(c, at)) = {}
  <2> SUFFICES ASSUME NEW at \in B, PageAt(c, at) = << >> PROVE DOMAIN Process(c, PageAt(c, at)) = {}
    OBVIOUS
  <2>1. Process(c, PageAt(c, at)) = << >>
    BY RowsOfPage
  <2> QED
    BY <2>1
<1> QED
  BY <1>1 DEF Wanted

\* A read under way: todo begins with the request in progress, the requests that
\* came before it have given all of their rows, it has given those of the places
\* before its own.
Requests(c) == [params : Range(Prepared(c)), at : Int, headers : BOOLEAN]
Pairs(c) == Range(Prepared(c)) \X ServiceRows
RowsIn(rows) == {rows[i][2] : i \in DOMAIN rows}

Reading(c, todo, rows) ==
    LET n == Len(Prepared(c))
        all == Wanted(c, Reached(c))
        before == Wanted(c, Before(c, todo[1].at))
    IN /\ todo \in Seq(Requests(c)) /\ Len(todo) \in 1 .. n
       /\ GoodAt(c, todo[1].at)
       /\ \A j \in 2 .. Len(todo) : todo[j].at = FirstAt(c)
       /\ rows \in Seq(Pairs(c))
       /\ Len(rows) = (n - Len(todo)) * Cardinality(all) + Cardinality(before)
       /\ RowsIn(rows) = RowsAt(c, before) \union IF Len(todo) = n THEN {} ELSE RowsAt(c, all)

HasRead(c, rows) ==
    LET n == Len(Prepared(c))
        all == Wanted(c, Reached(c))
    IN /\ rows \in Seq(Pairs(c))
       /\ Len(rows) = n * Cardinality(all)
       /\ RowsIn(rows) = IF n = 0 THEN {} ELSE RowsAt(c, all)

\* Nothing is before the first place.
LEMMA NothingBefore ==
    ASSUME NEW c, Configured(c)
    PROVE  /\ Cardinality(Wanted(c, Before(c, FirstAt(c)))) = 0
           /\ RowsAt(c, Wanted(c, Before(c, FirstAt(c)))) = {}
<1>1. Before(c, FirstAt(c)) = {}
  BY FirstPlace DEF Before
<1>2. Wanted(c, {}) = {}
  BY DEF Wanted
<1>3. RowsAt(c, {}) = {}
  BY DEF RowsAt
<1> QED
  BY <1>1, <1>2, <1>3, FS_EmptySet

\* A read begins with the first request at its first place.
LEMMA ReadBegins ==
    ASSUME NEW c, Configured(c)
    PROVE  IF Prepared(c) = << >> THEN HasRead(c, << >>)
           ELSE Reading(c, FirstRequests(c), << >>)
<1> DEFINE P == Prepared(c)
           n == Len(P)
           all == Wanted(c, Reached(c))
           q == FirstRequests(c)
           before == Wanted(c, Before(c, FirstAt(c)))
<1>1. P \in Seq(Range(P)) /\ n \in Nat /\ DOMAIN P = 1 .. n /\ \A i \in 1 .. n : P[i] \in Range(P)
  <2>1. P \in Seq(Range(P))
    BY PreparedIs
  <2> HIDE DEF P
  <2> QED
    BY <2>1
<1>2. Cardinality(all) \in Nat
  BY WantedFinite
<1>3. << >> \in Seq(Pairs(c)) /\ Len(<< >>) = 0 /\ RowsIn(<< >>) = {}
  BY DEF RowsIn
<1>4. Cardinality(before) = 0 /\ RowsAt(c, before) = {}
  BY NothingBefore
<1>5. CASE P = << >>
  <2>1. n = 0
    BY <1>5
  <2>2. 0 = n * Cardinality(all)
    BY <1>2, <2>1
  <2> QED
    BY <1>3, <1>5, <2>1, <2>2 DEF HasRead
<1>6. CASE P # << >>
  <2>1. n >= 1
    <3> HIDE DEF P
    <3> QED
      BY <1>1, <1>6
  <2>2. q = [i \in 1 .. n |-> [params |-> P[i], at |-> FirstAt(c), headers |-> TRUE]]
    BY <1>1 DEF FirstRequests
  <2> HIDE DEF q, P, n, all, before
  <2>3. q \in [1 .. n -> [params : Range(P), at : Int, headers : BOOLEAN]]
    BY <1>1, <2>2, FirstPlace
  <2>4. q \in Seq(Requests(c)) /\ Len(q) = n
    BY <1>1, <2>3, IsSequence DEF Requests, P
  <2>5. \A i \in 1 .. n : q[i].at = FirstAt(c)
    BY <2>2
  <2>6. q[1].at = FirstAt(c) /\ Len(q) \in 1 .. n /\ \A j \in 2 .. Len(q) : q[j].at = FirstAt(c)
    BY <1>1, <2>1, <2>4, <2>5
  <2>7. 0 = (n - Len(q)) * Cardinality(all) + Cardinality(before)
    BY <1>1, <1>2, <1>4, <2>4
  <2>8. GoodAt(c, q[1].at)
    BY <2>6, FirstPlace
  <2> QED
    BY <1>3, <1>4, <1>6, <2>4, <2>6, <2>7, <2>8 DEF Reading, q, P, n, all, before
<1> QED
  BY <1>5, <1>6

\* The rows of a page are added under the parameters of the request.
With(params, p) == [i \in DOMAIN p |-> <<params, p[i]>>]

Added(c, rows, p, more) ==
    /\ more \in Seq(Pairs(c))
    /\ Len(more) = Len(rows) + Len(p)
    /\ RowsIn(more) = RowsIn(rows) \union RowsOn(p)

LEMMA AddRows ==
    ASSUME NEW c, NEW params \in Range(Prepared(c)), NEW rows \in Seq(Pairs(c)), NEW p \in Seq(ServiceRows),
           NEW more, more = rows \o With(params, p)
    PROVE  Added(c, rows, p, more)
<1> DEFINE n == Len(rows)
           m == Len(p)
           q == [i \in DOMAIN p |-> <<params, p[i]>>]
<1>1. n \in Nat /\ m \in Nat /\ DOMAIN p = 1 .. m /\ DOMAIN rows = 1 .. n /\ \A i \in 1 .. m : p[i] \in ServiceRows
  OBVIOUS
<1>2. q \in [1 .. m -> Pairs(c)] /\ \A i \in 1 .. m : q[i][2] = p[i]
  BY <1>1 DEF Pairs
<1> HIDE DEF q
<1>3. q \in Seq(Pairs(c)) /\ Len(q) = m
  BY <1>1, <1>2, IsSequence
<1>4. /\ more \in Seq(Pairs(c)) /\ Len(more) = n + m
      /\ \A i \in 1 .. n + m : more[i] = IF i <= n THEN rows[i] ELSE q[i - n]
  <2>1. more = rows \o q
    BY DEF q, With
  <2>2. /\ rows \o q \in Seq(Pairs(c))
        /\ Len(rows \o q) = Len(rows) + Len(q)
        /\ \A i \in 1 .. Len(rows) + Len(q) :
              (rows \o q)[i] = IF i <= Len(rows) THEN rows[i] ELSE q[i - Len(rows)]
    BY <1>3, ConcatProperties
  <2> QED
    BY <1>3, <2>1, <2>2
<1>5. DOMAIN more = 1 .. n + m
  BY <1>1, <1>4
<1> HIDE DEF n, m
<1>6. ASSUME NEW x \in RowsIn(more) PROVE x \in RowsIn(rows) \union {p[i] : i \in 1 .. m}
  <2>1. PICK i \in 1 .. n + m : x = more[i][2]
    BY <1>5 DEF RowsIn
  <2>2. CASE i <= n
    <3>1. i \in 1 .. n /\ x = rows[i][2]
      BY <1>1, <1>4, <2>1, <2>2
    <3> QED
      BY <1>1, <3>1 DEF RowsIn
  <2>3. CASE i > n
    <3>1. i - n \in 1 .. m
      BY <1>1, <2>3
    <3>2. ~(i <= n)
      BY <1>1, <2>3
    <3>3. more[i] = q[i - n]
      BY <1>4, <3>2
    <3> QED
      BY <1>2, <2>1, <3>1, <3>3
  <2> QED
    BY <1>1, <2>2, <2>3
<1>7. ASSUME NEW i \in 1 .. n PROVE rows[i][2] \in RowsIn(more)
  <2>1. i \in 1 .. n + m /\ more[i] = rows[i]
    BY <1>1, <1>4
  <2> QED
    BY <1>5, <2>1 DEF RowsIn
<1>8. ASSUME NEW i \in 1 .. m PROVE p[i] \in RowsIn(more)
  <2>1. i + n \in 1 .. n + m /\ more[i + n] = q[i]
    <3>1. i + n \in 1 .. n + m /\ ~(i + n <= n) /\ (i + n) - n = i
      BY <1>1
    <3> QED
      BY <1>4, <3>1
  <2>2. more[i + n][2] = p[i]
    BY <1>2, <2>1
  <2> QED
    BY <1>5, <2>1, <2>2 DEF RowsIn
<1>9. RowsIn(more) = RowsIn(rows) \union {p[i] : i \in 1 .. m}
  <2>1. RowsIn(rows) = {rows[i][2] : i \in 1 .. n}
    BY <1>1 DEF RowsIn
  <2> QED
    BY <1>6, <1>7, <1>8, <2>1
<1> QED
  BY <1>4, <1>9 DEF n, m, RowsOn, Added

\* A request put before others.
LEMMA PutFirst ==
    ASSUME NEW S, NEW r \in S, NEW rest \in Seq(S)
    PROVE  /\ <<r>> \o rest \in Seq(S) /\ Len(<<r>> \o rest) = Len(rest) + 1
           /\ (<<r>> \o rest)[1] = r
           /\ \A j \in 1 .. Len(rest) : (<<r>> \o rest)[j + 1] = rest[j]
<1>1. <<r>> \in Seq(S) /\ Len(<<r>>) = 1 /\ <<r>>[1] = r
  OBVIOUS
<1>2. /\ <<r>> \o rest \in Seq(S) /\ Len(<<r>> \o rest) = 1 + Len(rest) /\ Len(rest) \in Nat
      /\ \A i \in 1 .. 1 + Len(rest) : (<<r>> \o rest)[i] = IF i <= 1 THEN <<r>>[i] ELSE rest[i - 1]
  BY <1>1, ConcatProperties
<1> DEFINE q == <<r>> \o rest
           m == Len(rest)
<1> HIDE DEF q, m
<1>3. 1 \in 1 .. 1 + m /\ \A j \in 1 .. m : j + 1 \in 1 .. 1 + m /\ ~(j + 1 <= 1) /\ (j + 1) - 1 = j
  BY <1>2 DEF m
<1>4. q[1] = r
  BY <1>1, <1>2, <1>3 DEF q, m
<1>5. ASSUME NEW j \in 1 .. m PROVE q[j + 1] = rest[j]
  BY <1>2, <1>3 DEF q, m
<1> QED
  BY <1>2, <1>4, <1>5 DEF q, m

\* When no place with rows is left behind the place at, its rows are the last ones.
LEMMA LastPlace ==
    ASSUME NEW c, Configured(c), NEW at, GoodAt(c, at),
           \A a \in Reached(c) : a > at => PageAt(c, a) = << >>
    PROVE  Wanted(c, Before(c, at) \union {at}) = Wanted(c, Reached(c))
<1> DEFINE A == Before(c, at) \union {at}
           B == Reached(c) \union {at}
<1>1. at \in Int /\ \A a \in Reached(c) : a \in Int
  BY FirstPlace
<1>2. A \subseteq B /\ Reached(c) \subseteq B
  BY DEF Before
<1>3. \A a \in B : a \in A \/ PageAt(c, a) = << >>
  BY <1>1 DEF Before
<1>4. Wanted(c, A) = Wanted(c, B)
  <2> HIDE DEF A, B
  <2> QED
    BY <1>2, <1>3, EmptyPlaces
<1>5. at \in Reached(c) \/ PageAt(c, at) = << >>
  <2> SUFFICES ASSUME Config(c).paging = "link", at = Len(Config(c).pages) + 1
               PROVE  PageAt(c, at) = << >>
    BY DEF GoodAt
  <2>1. Len(Config(c).pages) \in Nat /\ at >= 1 /\ at > Len(Config(c).pages)
    BY FirstPlace
  <2>2. ~Config(c).endless
    BY DEF Configured
  <2>3. at = CASE Config(c).paging = "offset" -> (at - Config(c).first) \div Config(c).step + 1
               [] Config(c).paging = "cursor" -> at + 1
               [] OTHER -> at
    OBVIOUS
  <2> QED
    BY <1>1, <2>1, <2>2, <2>3, EmptyPage
<1>6. \A a \in B : a \in Reached(c) \/ PageAt(c, a) = << >>
  BY <1>5
<1>7. Wanted(c, Reached(c)) = Wanted(c, B)
  <2> HIDE DEF B
  <2> QED
    BY <1>2, <1>6, EmptyPlaces
<1> QED
  BY <1>4, <1>7

\* Continue, for the page at the place of the request in progress.
OnePage(c, todo, rows, request, p, todo2, rows2) ==
    /\ request = Head(todo)
    /\ p = Process(c, PageAt(c, request.at))
    /\ todo2 = GetNextRequest(c, request, PageAt(c, request.at)) \o Tail(todo)
    /\ rows2 = rows \o With(request.params, p)

\* One page more: the read goes on with the next place of the request, or with the
\* next request at its first place, or has ended.
LEMMA ReadOn ==
    ASSUME NEW c, Configured(c), NEW todo, NEW rows, Reading(c, todo, rows),
           NEW request, NEW p, NEW todo2, NEW rows2,
           OnePage(c, todo, rows, request, p, todo2, rows2)
    PROVE  IF todo2 = << >> THEN HasRead(c, rows2) ELSE Reading(c, todo2, rows2)
<1> DEFINE n == Len(Prepared(c))
           m == Len(todo)
           all == Wanted(c, Reached(c))
           K == Cardinality(all)
           at == request.at
           A == Before(c, at)
           B == Cardinality(Wanted(c, A))
           next == GetNextRequest(c, request, PageAt(c, at))
           new == RowsOn(p)
           P == Range(Prepared(c))
<1>0. /\ request = Head(todo) /\ p = Process(c, PageAt(c, at))
      /\ todo2 = next \o Tail(todo) /\ rows2 = rows \o With(request.params, p)
  BY DEF OnePage
<1>1. todo \in Seq(Requests(c)) /\ m \in 1 .. n /\ n \in Nat
  <2>1. Prepared(c) \in Seq(Range(Prepared(c)))
    BY PreparedIs
  <2>2. n \in Nat
    BY <2>1
  <2> QED
    BY <2>2 DEF Reading
<1>2. /\ request = todo[1] /\ request \in Requests(c) /\ todo # << >>
      /\ Tail(todo) \in Seq(Requests(c)) /\ Len(Tail(todo)) = m - 1
      /\ \A j \in 1 .. m - 1 : Tail(todo)[j] = todo[j + 1]
  <2> HIDE DEF n
  <2>1. todo # << >>
    BY <1>1
  <2> QED
    BY <1>0, <1>1, <2>1, HeadTailProperties
<1>3. /\ request.params \in P /\ at \in Int /\ request.headers \in BOOLEAN
      /\ request = [params |-> request.params, at |-> at, headers |-> request.headers]
  BY <1>2 DEF Requests
<1>4. GoodAt(c, at) /\ \A j \in 2 .. m : todo[j].at = FirstAt(c)
  BY <1>2 DEF Reading
<1>5. /\ rows \in Seq(Pairs(c)) /\ Len(rows) = (n - m) * K + B
      /\ RowsIn(rows) = RowsAt(c, Wanted(c, A)) \union IF m = n THEN {} ELSE RowsAt(c, all)
  BY <1>2 DEF Reading
<1>6. p \in Seq(ServiceRows) /\ Len(p) \in Nat
  <2>1. p \in Seq(ServiceRows)
    BY <1>0, RowsOfPage
  <2> QED
    BY <2>1
<1>7. /\ rows2 \in Seq(Pairs(c)) /\ Len(rows2) = Len(rows) + Len(p)
      /\ RowsIn(rows2) = RowsIn(rows) \union new
  <2> DEFINE params == request.params
  <2>1. params \in Range(Prepared(c)) /\ rows \in Seq(Pairs(c)) /\ p \in Seq(ServiceRows)
    BY <1>3, <1>5, <1>6
  <2>2. rows2 = rows \o With(params, p)
    BY <1>0
  <2> HIDE DEF params
  <2>3. Added(c, rows, p, rows2)
    BY <2>1, <2>2, AddRows
  <2> QED
    BY <2>3 DEF Added
<1>8. A \in SUBSET Reached(c) /\ at \notin A
  BY <1>3 DEF Before
<1>9. K \in Nat /\ B \in Nat
  BY <1>8, WantedFinite
<1>10. /\ Cardinality(Wanted(c, A \union {at})) = B + Len(p)
       /\ RowsAt(c, Wanted(c, A \union {at})) = RowsAt(c, Wanted(c, A)) \union new
  <2>1. p = Process(c, PageAt(c, at))
    BY <1>0
  <2> HIDE DEF A, at
  <2> QED
    BY <1>4, <1>8, <2>1, OneMorePlace
<1>11. \/ /\ next = << >>
          /\ \A a \in Reached(c) : a > at => PageAt(c, a) = << >>
       \/ /\ at \in Reached(c)
          /\ \E b : /\ next = Next1(request, b)
                    /\ GoodAt(c, b)
                    /\ \A a \in Reached(c) : a < b <=> a <= at
  <2> HIDE DEF next
  <2> QED
    BY <1>4, Advance DEF next
<1>12. ASSUME NEW b, next = Next1(request, b), GoodAt(c, b), at \in Reached(c),
              \A a \in Reached(c) : a < b <=> a <= at
       PROVE  todo2 # << >> /\ Reading(c, todo2, rows2)
  <2>1. b \in Int /\ \A a \in Reached(c) : a \in Int
    BY <1>12, FirstPlace
  <2>2. Before(c, b) = A \union {at}
    BY <1>3, <1>12, <2>1 DEF Before
  <2> DEFINE r == [request EXCEPT !.at = b, !.headers = FALSE]
  <2>3. r \in Requests(c) /\ r.at = b
    BY <1>3, <2>1 DEF Requests
  <2>4. next = <<r>>
    BY <1>12 DEF Next1
  <2>5. todo2 = <<r>> \o Tail(todo)
    BY <1>0, <2>4
  <2> HIDE DEF r, next, n
  <2>6. /\ todo2 \in Seq(Requests(c)) /\ Len(todo2) = Len(Tail(todo)) + 1 /\ todo2[1] = r
        /\ \A j \in 1 .. Len(Tail(todo)) : todo2[j + 1] = Tail(todo)[j]
    BY <1>2, <2>3, <2>5, PutFirst
  <2>7. Len(todo2) = m
    BY <1>1, <1>2, <2>6
  <2>8. \A j \in 2 .. m : todo2[j].at = FirstAt(c)
    <3> SUFFICES ASSUME NEW j \in 2 .. m PROVE todo2[j].at = FirstAt(c)
      OBVIOUS
    <3>1. j - 1 \in 1 .. m - 1 /\ (j - 1) + 1 = j
      BY <1>1
    <3>2. todo2[j] = todo[j]
      BY <1>2, <2>6, <3>1
    <3> QED
      BY <1>4, <3>2
  <2>9. Len(rows2) = (n - m) * K + (B + Len(p))
    <3> DEFINE N == (n - m) * K
    <3>1. N \in Int
      BY <1>1, <1>9
    <3> HIDE DEF N, m, K, B
    <3> QED
      BY <1>5, <1>6, <1>7, <1>9, <3>1 DEF N
  <2>10. RowsIn(rows2) = RowsAt(c, Wanted(c, Before(c, b))) \union IF m = n THEN {} ELSE RowsAt(c, all)
    <3> HIDE DEF new, all, m
    <3> QED
      BY <1>5, <1>7, <1>10, <2>2
  <2>11. todo2 # << >>
    BY <2>5, <2>6
  <2> QED
    BY <1>1, <1>7, <1>10, <1>12, <2>2, <2>3, <2>6, <2>7, <2>8, <2>9, <2>10, <2>11 DEF Reading, n
<1>13. ASSUME next = << >>, \A a \in Reached(c) : a > at => PageAt(c, a) = << >>
       PROVE  IF todo2 = << >> THEN HasRead(c, rows2) ELSE Reading(c, todo2, rows2)
  <2>1. Wanted(c, A \union {at}) = all
    BY <1>4, <1>13, LastPlace
  <2>2. todo2 = Tail(todo) /\ Len(todo2) = m - 1 /\ todo2 \in Seq(Requests(c))
    <3>1. << >> \o Tail(todo) = Tail(todo)
      BY <1>2, ConcatEmptySeq
    <3> QED
      BY <1>0, <1>2, <1>13, <3>1
  <2>3. K = B + Len(p)
    BY <1>10, <2>1
  <2>4. Len(rows2) = (n - (m - 1)) * K
    <3>1. (n - (m - 1)) * K = (n - m) * K + K
      <4> HIDE DEF n, m, K
      <4> QED
        BY <1>1, <1>9
    <3> DEFINE N == (n - m) * K
    <3>2. N \in Int
      BY <1>1, <1>9
    <3> HIDE DEF N, K, B
    <3>3. Len(rows2) = N + K
      BY <1>5, <1>6, <1>7, <1>9, <2>3, <3>2 DEF N
    <3> QED
      BY <3>1, <3>3 DEF N
  <2>5. RowsIn(rows2) = RowsAt(c, all)
    <3>1. RowsAt(c, all) = RowsAt(c, Wanted(c, A)) \union new
      BY <1>10, <2>1
    <3> HIDE DEF new, all
    <3> QED
      BY <1>5, <1>7, <3>1
  <2>6. CASE todo2 = << >>
    <3>1. m = 1 /\ n # 0
      <4>1. m - 1 = 0
        BY <2>2, <2>6
      <4> HIDE DEF n, m
      <4> QED
        BY <1>1, <4>1
    <3>2. Len(rows2) = n * K
      <4> HIDE DEF n, K, m
      <4> QED
        BY <1>1, <1>9, <2>4, <3>1
    <3> QED
      BY <1>7, <2>5, <2>6, <3>1, <3>2 DEF HasRead
  <2>7. CASE todo2 # << >>
    <3>1. m - 1 \in 1 .. n /\ m - 1 # n
      <4>1. m - 1 # 0
        BY <1>1, <2>2, <2>7
      <4> HIDE DEF n, m
      <4> QED
        BY <1>1, <4>1
    <3>2. \A j \in 1 .. m - 1 : todo2[j].at = FirstAt(c)
      <4> SUFFICES ASSUME NEW j \in 1 .. m - 1 PROVE todo2[j].at = FirstAt(c)
        OBVIOUS
      <4>1. j + 1 \in 2 .. m
        BY <1>1
      <4> QED
        BY <1>2, <1>4, <2>2, <4>1
    <3>3. todo2[1].at = FirstAt(c) /\ \A j \in 2 .. m - 1 : todo2[j].at = FirstAt(c)
      <4>1. 1 \in 1 .. m - 1 /\ \A j \in 2 .. m - 1 : j \in 1 .. m - 1
        <5> HIDE DEF n, m
        <5> QED
          BY <1>1, <3>1
      <4> QED
        BY <3>2, <4>1
    <3> DEFINE none == Wanted(c, Before(c, FirstAt(c)))
    <3>4. Cardinality(none) = 0 /\ RowsAt(c, none) = {}
      BY NothingBefore
    <3>5. Len(rows2) = (n - (m - 1)) * K + Cardinality(none)
      <4> DEFINE N == (n - (m - 1)) * K
      <4>1. N \in Int
        BY <1>1, <1>9
      <4> HIDE DEF N, none
      <4> QED
        BY <2>4, <3>4, <4>1 DEF N
    <3>6. RowsIn(rows2) = RowsAt(c, none) \union IF m - 1 = n THEN {} ELSE RowsAt(c, all)
      <4> HIDE DEF none, all, m, n
      <4> QED
        BY <2>5, <3>1, <3>4
    <3>7. GoodAt(c, FirstAt(c))
      BY FirstPlace
    <3> QED
      BY <1>7, <2>2, <2>7, <3>1, <3>3, <3>5, <3>6, <3>7 DEF Reading
  <2> QED
    BY <2>6, <2>7
<1> QED
  BY <1>11, <1>12, <1>13

-----------------------------------------------------------------------------
\* What a read means depends on the case, and on the identity where rows are
\* filtered by it: no step of a task changes either.
LEMMA SameReading ==
    ASSUME NEW c, NEW todo, NEW rows, case' = case, Config(c).filter => identity /\ identity'
    PROVE  /\ Reading(c, todo, rows)' <=> Reading(c, todo, rows)
           /\ HasRead(c, rows)' <=> HasRead(c, rows)
<1>1. Config(c)' = Config(c)
  BY DEF Config
<1>2. Prepared(c)' = Prepared(c)
  BY <1>1 DEF Prepared, Independent, Grouped, Values
<1>3. FirstAt(c)' = FirstAt(c) /\ Reached(c)' = Reached(c)
  BY <1>1 DEF FirstAt, Reached
<1>4. \A at : PageAt(c, at)' = PageAt(c, at)
  BY <1>1 DEF PageAt
<1>5. \A at : Process(c, PageAt(c, at))' = Process(c, PageAt(c, at))
  BY <1>1, <1>4 DEF Process, FilterByIdentity, Unwrap
<1>6. \A ats : Wanted(c, ats)' = Wanted(c, ats) /\ RowsAt(c, ats)' = RowsAt(c, ats)
  BY <1>5 DEF Wanted, RowsAt
<1> QED
  BY <1>1, <1>2, <1>3, <1>6 DEF Reading, HasRead, GoodAt, Before, Requests, Pairs

\* Nothing has happened that lets a read end without all of its rows.
Faultless(c) == c \notin ignored /\ (Config(c).filter => identity)

\* The locals of a task, and of all tasks.
Local(pc, todo, rows, attempts, host, read, stray) ==
    [pc |-> pc, todo |-> todo, rows |-> rows, attempts |-> attempts,
     host |-> host, read |-> read, stray |-> stray]

Whole(t) == t = Local(t.pc, t.todo, t.rows, t.attempts, t.host, t.read, t.stray)

Shaped == task = [c \in Collections |-> task[c]] /\ \A c \in Collections : Whole(task[c])

\* What a task has read so far, before it reads, while it does and when it is done.
ReadSoFar(c, t) ==
    /\ t.pc \in {"begin", "named"} => t.rows = << >>
    /\ ~t.stray =>
          /\ t.pc \in {"config", "uri", "send"} => Reading(c, t.todo, t.rows)
          /\ t.pc = "done" => HasRead(c, t.rows)

ReadInv ==
    /\ case \in Cases
    /\ case.mode = "read" =>
          Shaped /\ \A c \in Collections : Faultless(c) => ReadSoFar(c, task[c])

LEMMA InitReadInv == Init => ReadInv
<1> SUFFICES ASSUME Init PROVE ReadInv
  OBVIOUS
<1>1. Shaped
  BY DEF Init, Shaped, Whole, Local, Attempt
<1>2. \A c \in Collections : task[c].pc = "begin" /\ task[c].rows = << >>
  BY DEF Init, Attempt
<1> QED
  BY <1>1, <1>2 DEF Init, ReadInv, ReadSoFar

LEMMA LocalIsWhole ==
    ASSUME NEW pc, NEW todo, NEW rows, NEW attempts, NEW host, NEW read, NEW stray
    PROVE  LET t == Local(pc, todo, rows, attempts, host, read, stray) IN
           Whole(t) /\ t.pc = pc /\ t.todo = todo /\ t.rows = rows /\ t.stray = stray
BY DEF Whole, Local

\* The locals of one task are replaced.
Becomes(c, t) ==
    /\ task' = [b \in Collections |-> task'[b]]
    /\ task'[c] = t
    /\ \A b \in Collections : b # c => task'[b] = task[b]

LEMMA Updated ==
    ASSUME NEW c \in Collections, Shaped, NEW t, Whole(t), Becomes(c, t)
    PROVE  Shaped' /\ task'[c] = t /\ \A b \in Collections : b # c => task'[b] = task[b]
<1>1. /\ task' = [b \in Collections |-> task'[b]] /\ task'[c] = t
      /\ \A b \in Collections : b # c => task'[b] = task[b]
  BY DEF Becomes
<1>2. \A b \in Collections : Whole(task'[b])
  BY <1>1 DEF Shaped
<1> QED
  BY <1>1, <1>2 DEF Shaped, Whole

\* What a step of a task in a read leaves to it.
ReadStep(c) ==
    /\ Shaped' /\ case' = case /\ identity' = identity /\ ignored \subseteq ignored'
    /\ \A b \in Collections : b # c => task'[b] = task[b]
    /\ c \notin ignored' /\ (Config(c).filter => identity) => ReadSoFar(c, task'[c])

\* An attempt that raises leaves nothing to show.
LEMMA RaisedRead ==
    ASSUME NEW c \in Collections, Shaped, Raises(c)
    PROVE  /\ Shaped' /\ task'[c].pc \in {"begin", "failed"} /\ task'[c].rows = << >>
           /\ \A b \in Collections : b # c => task'[b] = task[b]
<1> DEFINE n == task[c].attempts
           t == IF n < MaxAttempts THEN Attempt(c, "begin", n + 1) ELSE Attempt(c, "failed", n)
<1>1. Becomes(c, t)
  BY DEF Raises, Becomes, Shaped
<1>2. Whole(t) /\ t.pc \in {"begin", "failed"} /\ t.rows = << >>
  BY DEF Whole, Local, Attempt
<1> HIDE DEF t
<1> QED
  BY <1>1, <1>2, Updated

\* The rest of a request, for whatever page.
LEMMA ContinuedRead ==
    ASSUME NEW c \in Collections, Shaped, NEW page, Continue(c, page),
           NEW todo, todo = GetNextRequest(c, Head(task[c].todo), page) \o Tail(task[c].todo),
           NEW rows, rows = task[c].rows \o With(Head(task[c].todo).params, Process(c, page))
    PROVE  /\ Shaped' /\ task'[c].todo = todo /\ task'[c].rows = rows
           /\ task'[c].pc = IF todo = << >> THEN "done" ELSE "config"
           /\ task'[c].stray = task[c].stray
           /\ \A b \in Collections : b # c => task'[b] = task[b]
<1> DEFINE pc == IF todo = << >> THEN "done" ELSE "config"
           t == Local(pc, todo, rows, task[c].attempts, task[c].host, task[c].read, task[c].stray)
<1>1. Whole(task[c]) /\ task = [b \in Collections |-> task[b]]
  BY DEF Shaped
<1>2. Becomes(c, t)
  <2>1. task' = [task EXCEPT ![c].todo = todo, ![c].rows = rows, ![c].pc = pc]
    BY DEF Continue, With
  <2> QED
    BY <1>1, <2>1 DEF Becomes, Whole, Local
<1> HIDE DEF pc
<1>3. Whole(t) /\ t.pc = pc /\ t.todo = todo /\ t.rows = rows /\ t.stray = task[c].stray
  BY ONLY LocalIsWhole
<1> HIDE DEF t
<1>4. Shaped' /\ task'[c] = t /\ \A b \in Collections : b # c => task'[b] = task[b]
  BY <1>2, <1>3, Updated
<1> QED
  BY <1>3, <1>4 DEF pc

LEMMA StepReads ==
    ASSUME ReadInv, case.mode = "read", NEW c \in Collections, TaskStep(c)
    PROVE  ReadStep(c)
<1>1. /\ Shaped /\ Configured(c) /\ Whole(task[c]) /\ task = [b \in Collections |-> task[b]]
      /\ Faultless(c) => ReadSoFar(c, task[c])
  BY CasesAreConfigured DEF ReadInv, Shaped
<1>2. ASSUME NEW t, Whole(t), Becomes(c, t),
             case' = case, identity' = identity, ignored' = ignored,
             Faultless(c) => ReadSoFar(c, t)
      PROVE  ReadStep(c)
  <2>1. Shaped' /\ task'[c] = t /\ \A b \in Collections : b # c => task'[b] = task[b]
    BY <1>1, <1>2, Updated
  <2> QED
    BY <1>2, <2>1 DEF ReadStep, Faultless
<1>3. ASSUME Raises(c), case' = case, identity' = identity, ignored' = ignored
      PROVE  ReadStep(c)
  <2>1. /\ Shaped' /\ task'[c].pc \in {"begin", "failed"} /\ task'[c].rows = << >>
        /\ \A b \in Collections : b # c => task'[b] = task[b]
    BY <1>1, <1>3, RaisedRead
  <2> QED
    BY <1>3, <2>1 DEF ReadStep, ReadSoFar
<1>4. CASE NameCollection(c)
  <2> DEFINE t == Local("named", task[c].todo, task[c].rows, task[c].attempts, task[c].host,
                        task[c].read, task[c].stray)
  <2>1. Becomes(c, t)
    BY <1>1, <1>4 DEF NameCollection, Becomes, Whole, Local
  <2>2. Whole(t) /\ t.pc = "named" /\ t.rows = task[c].rows
    BY ONLY LocalIsWhole
  <2> HIDE DEF t
  <2> QED
    BY <1>1, <1>2, <1>4, <2>1, <2>2 DEF NameCollection, ReadSoFar
<1>5. CASE Begin(c)
  <2>1. case' = case /\ identity' = identity /\ ignored' = ignored /\ task[c].pc = "named"
    BY <1>5 DEF Begin
  <2>2. CASE PrepareRaises(c)
    BY <1>3, <1>5, <2>1, <2>2 DEF Begin
  <2>3. CASE ~PrepareRaises(c)
    <3> DEFINE pc == IF Prepared(c) = << >> THEN "done" ELSE "config"
               t == Local(pc, FirstRequests(c), task[c].rows, task[c].attempts, task[c].host,
                          collectionName, task[c].stray)
    <3>1. Becomes(c, t)
      <4>1. task' = [task EXCEPT ![c].pc = pc, ![c].todo = FirstRequests(c), ![c].read = collectionName]
        BY <1>5, <2>3 DEF Begin
      <4> HIDE DEF pc
      <4> QED
        BY <1>1, <4>1 DEF Becomes, Whole, Local
    <3> HIDE DEF pc
    <3>2. Whole(t) /\ t.pc = pc /\ t.todo = FirstRequests(c) /\ t.rows = task[c].rows
      BY ONLY LocalIsWhole
    <3> HIDE DEF t
    <3>3. Faultless(c) => t.rows = << >>
      BY <1>1, <2>1, <3>2 DEF ReadSoFar
    <3>4. Faultless(c) => ReadSoFar(c, t)
      BY <1>1, <3>2, <3>3, ReadBegins DEF ReadSoFar, pc
    <3> QED
      BY <1>2, <2>1, <3>1, <3>2, <3>4
  <2> QED
    BY <2>2, <2>3
<1>6. CASE BuildClient(c)
  <2> DEFINE t == Local("uri", task[c].todo, task[c].rows, task[c].attempts, task[c].host,
                        task[c].read, task[c].stray)
  <2>1. Becomes(c, t)
    BY <1>1, <1>6 DEF BuildClient, Becomes, Whole, Local
  <2>2. /\ Whole(t) /\ t.pc = "uri" /\ t.todo = task[c].todo /\ t.rows = task[c].rows
        /\ t.stray = task[c].stray
    BY ONLY LocalIsWhole
  <2> HIDE DEF t
  <2> QED
    BY <1>1, <1>2, <1>6, <2>1, <2>2 DEF BuildClient, ReadSoFar
<1>7. CASE BuildUri(c)
  <2> DEFINE pc == IF task[c].todo = << >> THEN "done" ELSE "send"
             t == Local(pc, task[c].todo, task[c].rows, task[c].attempts, clientConfig,
                        task[c].read, task[c].stray)
  <2>1. Becomes(c, t)
    BY <1>1, <1>7 DEF BuildUri, Becomes, Whole, Local
  <2> HIDE DEF pc
  <2>2. /\ Whole(t) /\ t.pc = pc /\ t.todo = task[c].todo /\ t.rows = task[c].rows
        /\ t.stray = task[c].stray
    BY ONLY LocalIsWhole
  <2> HIDE DEF t
  <2>3. Faultless(c) /\ ~t.stray => Reading(c, t.todo, t.rows)
    BY <1>1, <1>7, <2>2 DEF BuildUri, ReadSoFar
  <2>4. Faultless(c) /\ ~t.stray => t.pc = "send"
    <3>1. ASSUME Reading(c, << >>, t.rows) PROVE FALSE
      BY <3>1 DEF Reading
    <3> QED
      BY <2>2, <2>3, <3>1 DEF pc
  <2>5. t.pc \in {"done", "send"}
    BY <2>2 DEF pc
  <2>6. Faultless(c) => ReadSoFar(c, t)
    BY <2>3, <2>4, <2>5 DEF ReadSoFar
  <2> QED
    BY <1>2, <1>7, <2>1, <2>2, <2>6 DEF BuildUri
<1>8. CASE Fetch(c)
  <2> DEFINE q == task[c].todo
             at == Head(q).at
             p == Process(c, PageAt(c, at))
             todo == GetNextRequest(c, Head(q), PageAt(c, at)) \o Tail(q)
             rows == task[c].rows \o With(Head(q).params, p)
  <2>1. /\ task[c].pc = "send" /\ Continue(c, PageAt(c, at))
        /\ case' = case /\ identity' = identity /\ ignored' = ignored
    BY <1>8 DEF Fetch
  <2>2. OnePage(c, q, task[c].rows, Head(q), p, todo, rows)
    BY DEF OnePage
  <2>3. /\ Shaped' /\ task'[c].todo = todo /\ task'[c].rows = rows
        /\ task'[c].pc = IF todo = << >> THEN "done" ELSE "config"
        /\ task'[c].stray = task[c].stray
        /\ \A b \in Collections : b # c => task'[b] = task[b]
    BY <1>1, <2>1, ContinuedRead
  <2>4. Faultless(c) /\ ~task[c].stray => Reading(c, q, task[c].rows)
    BY <1>1, <2>1 DEF ReadSoFar
  <2> HIDE DEF q, p, todo, rows
  <2>5. Faultless(c) /\ ~task[c].stray =>
            IF todo = << >> THEN HasRead(c, rows) ELSE Reading(c, todo, rows)
    BY <1>1, <2>2, <2>4, ReadOn
  <2>6. Faultless(c) => ReadSoFar(c, task'[c])
    BY <2>3, <2>5 DEF ReadSoFar
  <2> QED
    BY <2>1, <2>3, <2>6 DEF ReadStep, Faultless
<1>9. CASE FetchAstray(c)
  <2>1. PICK next :
           LET todo == next \o Tail(task[c].todo) IN
           task' = [task EXCEPT ![c].todo = todo,
                                ![c].stray = TRUE,
                                ![c].pc = IF todo = << >> THEN "done" ELSE "config"]
    BY <1>9 DEF FetchAstray
  <2> DEFINE todo == next \o Tail(task[c].todo)
             pc == IF todo = << >> THEN "done" ELSE "config"
             t == Local(pc, todo, task[c].rows, task[c].attempts, task[c].host, task[c].read, TRUE)
  <2>2. Becomes(c, t)
    BY <1>1, <2>1 DEF Becomes, Whole, Local
  <2> HIDE DEF pc, todo
  <2>3. Whole(t) /\ t.stray /\ t.pc = pc
    BY DEF Whole, Local
  <2> HIDE DEF t
  <2>4. ReadSoFar(c, t)
    BY <2>3 DEF ReadSoFar, pc
  <2> QED
    BY <1>2, <1>9, <2>2, <2>3, <2>4 DEF FetchAstray
<1>10. CASE Refused(c)
  <2>1. case' = case /\ identity' = identity
    BY <1>10 DEF Refused
  <2>2. CASE ~Config(task[c].read).ignore
    BY <1>3, <1>10, <2>1, <2>2 DEF Refused
  <2>3. CASE Config(task[c].read).ignore
    <3>1. ignored' = ignored \union {c} /\ Continue(c, << >>)
      BY <1>10, <2>3 DEF Refused
    <3>2. Shaped' /\ \A b \in Collections : b # c => task'[b] = task[b]
      BY <1>1, <3>1, ContinuedRead
    <3> QED
      BY <2>1, <3>1, <3>2 DEF ReadStep
  <2> QED
    BY <2>2, <2>3
<1>11. CASE SendRaises(c)
  BY <1>3, <1>11 DEF SendRaises
<1> QED
  BY <1>4, <1>5, <1>6, <1>7, <1>8, <1>9, <1>10, <1>11 DEF TaskStep, BeginMasking, Apply, ApplyAstray

LEMMA NextReadInv == ReadInv /\ [Next]_vars => ReadInv'
<1> SUFFICES ASSUME ReadInv, [Next]_vars PROVE ReadInv'
  OBVIOUS
<1>1. case' = case
  BY DEF Next, TaskStep, NameCollection, Begin, BeginMasking, BuildClient, BuildUri, Fetch,
         FetchAstray, Apply, ApplyAstray, Refused,
         SendRaises, IdentityExpires, vars
<1>2. case.mode # "read" => ReadInv'
  BY <1>1 DEF ReadInv
<1>3. ASSUME case.mode = "read", Shaped',
             \A c \in Collections : Faultless(c)' => Faultless(c) /\ ReadSoFar(c, task'[c])
      PROVE  ReadInv'
  <2>1. ASSUME NEW c \in Collections, Faultless(c)' PROVE ReadSoFar(c, task[c])'
    <3>1. Faultless(c) /\ ReadSoFar(c, task'[c])
      BY <1>3, <2>1
    <3>2. Config(c)' = Config(c)
      BY <1>1 DEF Config
    <3>3. Config(c).filter => identity /\ identity'
      BY <2>1, <3>1, <3>2 DEF Faultless
    <3>4. \A todo, rows : /\ Reading(c, todo, rows) => Reading(c, todo, rows)'
                          /\ HasRead(c, rows) => HasRead(c, rows)'
      BY <1>1, <3>3, SameReading
    <3> QED
      BY <3>1, <3>4 DEF ReadSoFar
  <2> QED
    BY <1>1, <1>3, <2>1 DEF ReadInv
<1>4. ASSUME case.mode = "read", NEW c \in Collections, TaskStep(c) PROVE ReadInv'
  <2>1. ReadStep(c)
    BY <1>4, StepReads
  <2>2. ASSUME NEW b \in Collections, Faultless(b)' PROVE Faultless(b) /\ ReadSoFar(b, task'[b])
    <3>1. Faultless(b) /\ b \notin ignored' /\ (Config(b).filter => identity)
      BY <1>1, <2>1, <2>2 DEF ReadStep, Faultless, Config
    <3>2. CASE b = c
      BY <2>1, <3>1, <3>2 DEF ReadStep
    <3>3. CASE b # c
      BY <1>4, <2>1, <3>1, <3>3 DEF ReadStep, ReadInv
    <3> QED
      BY <3>2, <3>3
  <2> QED
    BY <1>3, <1>4, <2>1, <2>2 DEF ReadStep
<1>5. ASSUME case.mode = "read", task' = task, ignored' = ignored, identity' => identity PROVE ReadInv'
  <2>1. Shaped'
    BY <1>5 DEF ReadInv, Shaped
  <2>2. ASSUME NEW b \in Collections, Faultless(b)' PROVE Faultless(b) /\ ReadSoFar(b, task'[b])
    <3>1. Faultless(b)
      BY <1>1, <1>5, <2>2 DEF Faultless, Config
    <3> QED
      BY <1>5, <3>1 DEF ReadInv
  <2> QED
    BY <1>3, <1>5, <2>1, <2>2
<1>6. CASE IdentityExpires
  BY <1>2, <1>5, <1>6 DEF IdentityExpires
<1>7. CASE UNCHANGED vars
  BY <1>2, <1>5, <1>7 DEF vars
<1> QED
  BY <1>2, <1>4, <1>6, <1>7 DEF Next

\* A read that has ended has the rows of every page of every request, each once and
\* under the parameters of one upstream row, whatever the kind of pagination, the pages
\* of the service, the attempts that failed or went astray before and the interleaving
\* with the tasks of other collections; unless an error was ignored, the identity has
\* expired, or what the other tasks wrote to collection_name and client_config led this
\* attempt astray (generate_requests, retrieve_data, get_next_request,
\* process_response_data).
THEOREM ReadingCorrect == Spec => []RowsComplete
<1>1. ReadInv => RowsComplete
  <2> DEFINE asked(c) == Cardinality(Values(c))
                         + IF Config(c).grouped = {} THEN 0 ELSE Len(Config(c).inputs)
             Complete(c, rows) ==
                /\ Len(rows) = asked(c) * Cardinality(Wanted(c, Reached(c)))
                /\ \A i \in DOMAIN rows : \E row \in Range(Config(c).inputs) :
                      \A p \in DOMAIN rows[i][1] : rows[i][1][p] = row[p]
                /\ {rows[i][2] : i \in DOMAIN rows} =
                      IF asked(c) = 0 THEN {} ELSE RowsAt(c, Wanted(c, Reached(c)))
  <2> SUFFICES ASSUME ReadInv, NEW c \in Collections, case.mode = "read", task[c].pc = "done",
                      c \notin ignored, ~task[c].stray, Config(c).filter => identity
               PROVE  Complete(c, task[c].rows)
    BY DEF RowsComplete
  <2> DEFINE rows == task[c].rows
  <2> HIDE DEF rows, asked
  <2>1. Configured(c) /\ HasRead(c, rows)
    BY CasesAreConfigured DEF ReadInv, Faultless, ReadSoFar, rows
  <2>2. /\ Prepared(c) \in Seq(Range(Prepared(c))) /\ asked(c) = Len(Prepared(c))
        /\ \A i \in 1 .. Len(Prepared(c)) : OfOneRow(c, Prepared(c)[i])
    BY <2>1, PreparedIs DEF asked
  <2>3. /\ rows \in Seq(Pairs(c)) /\ Len(rows) = asked(c) * Cardinality(Wanted(c, Reached(c)))
        /\ RowsIn(rows) = IF asked(c) = 0 THEN {} ELSE RowsAt(c, Wanted(c, Reached(c)))
    BY <2>1, <2>2 DEF HasRead
  <2>4. ASSUME NEW i \in DOMAIN rows PROVE OfOneRow(c, rows[i][1])
    <3>1. rows[i] \in Pairs(c)
      BY <2>3
    <3>2. rows[i][1] \in Range(Prepared(c))
      BY <3>1 DEF Pairs
    <3>3. PICK j \in DOMAIN Prepared(c) : rows[i][1] = Prepared(c)[j]
      BY <3>2 DEF Range
    <3>4. j \in 1 .. Len(Prepared(c))
      BY <2>2
    <3> QED
      BY <2>2, <3>3, <3>4
  <2> QED
    BY <2>3, <2>4 DEF RowsIn, OfOneRow, rows
<1> QED
  BY <1>1, InitReadInv, NextReadInv, PTL DEF Spec
===============================================================================
