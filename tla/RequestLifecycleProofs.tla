----------------------- MODULE RequestLifecycleProofs -----------------------
(***************************************************************************)
(* Proofs about RequestLifecycle, for any number of requests, handlers,    *)
(* executor threads and webhooks.                                          *)
(***************************************************************************)
EXTENDS RequestLifecycle, FiniteSetTheorems, TLAPS

\* What the threads hold refers to rows that exist.
Refs ==
    /\ \A h \in Handlers :
          handler[h].pc # "idle" =>
              handler[h].req \in Requests /\ status[handler[h].req] # "absent"
    /\ \A i \in 1 .. Len(queue) : status[queue[i][1]] # "absent"
    /\ \A w \in Workers :
          Busy(w) => /\ run[w].req \in Requests
                     /\ status[run[w].req] # "absent"
                     /\ run[w].pc = "waiting" => run[w].next <= PreHooks

Typed == TypeOK /\ Refs

\* The threads of the API take any step but a database write by a run.
LEMMA HandlerTyped ==
    ASSUME Typed, NEW h \in Handlers,
           \/ HandlerStep(h)
           \/ \E r \in Requests :
                \/ CreateRow(h, r)
                \/ ReviewRead(h, r)
                \/ \E k \in 1 .. PreHooks : ResumeRead(h, r, k)
    PROVE  Typed'
<1> USE HookAssumption, PolicyAssumption
        DEF Typed, TypeOK, Refs, db, memory, bounds, history, HookIds, None,
            PrivacyRequestStatus, IdleHandler, HandlerGoes, HandlerReturns, Busy
<1>1. CASE CreateCaches(h)
  <2> DEFINE r == handler[h].req
  <2>1. PICK ids \in SUBSET IdKeys : CacheIdentity(r, ids)
    BY <1>1 DEF CreateCaches
  <2>2. identity' \in [Requests -> SUBSET IdKeys]
    BY <1>1, <2>1 DEF CreateCaches, CacheIdentity
  <2>3. /\ handler[h].pc = "caching"
        /\ HandlerReturns(h) \/ HandlerGoes(h, "submit", r, None)
        /\ UNCHANGED <<db, tokens, queue, run, jobs, firing, bounds, history>>
    BY <1>1 DEF CreateCaches
  <2>4. CASE HandlerReturns(h)
    BY <2>2, <2>3, <2>4
  <2>5. CASE HandlerGoes(h, "submit", r, None)
    BY <2>2, <2>3, <2>5
  <2> QED
    BY <2>3, <2>4, <2>5
<1>2. CASE CreateFails(h)
  BY <1>2 DEF CreateFails, CacheIdentity
<1>3. CASE Approve(h)
  BY <1>3 DEF Approve, WriteStatus, Stamp
<1>4. CASE Deny(h)
  BY <1>4 DEF Deny, WriteStatus, Stamp
<1>5. CASE ResumeWrite(h)
  BY <1>5 DEF ResumeWrite, WriteStatus
<1>6. CASE Submit(h)
  BY <1>6 DEF Submit
<1>7. ASSUME NEW r \in Requests, CreateRow(h, r) PROVE Typed'
  BY <1>7 DEF CreateRow
<1>8. ASSUME NEW r \in Requests, ReviewRead(h, r) PROVE Typed'
  BY <1>8 DEF ReviewRead, ClientCall
<1>9. ASSUME NEW r \in Requests, NEW k \in 1 .. PreHooks, ResumeRead(h, r, k)
      PROVE  Typed'
  <2>1. PICK ids \in SUBSET IdKeys : CacheIdentity(r, ids)
    BY <1>9 DEF ResumeRead
  <2>2. identity' \in [Requests -> SUBSET IdKeys]
    BY <2>1 DEF CacheIdentity
  <2>3. calls' \in 0 .. MaxCalls
    BY <1>9 DEF ResumeRead, ClientCall
  <2>4. /\ \/ /\ status[r] = "paused"
              /\ HandlerGoes(h, "resume", r, k)
              /\ released' = [released EXCEPT ![r] = @ \union {k}]
           \/ UNCHANGED <<handler, released>>
        /\ UNCHANGED <<db, tokens, queue, run, jobs, firing, crashes, did, approvals>>
    BY <1>9 DEF ResumeRead
  <2>5. CASE UNCHANGED <<handler, released>>
    BY <2>2, <2>3, <2>4, <2>5
  <2>6. CASE /\ status[r] = "paused"
             /\ HandlerGoes(h, "resume", r, k)
             /\ released' = [released EXCEPT ![r] = @ \union {k}]
    BY <2>2, <2>3, <2>4, <2>6
  <2> QED
    BY <2>4, <2>5, <2>6
<1> QED
  BY <1>1, <1>2, <1>3, <1>4, <1>5, <1>6, <1>7, <1>8, <1>9 DEF HandlerStep

\* The threads of the executor keep types and references.
LEMMA WorkerTyped ==
    ASSUME Typed, NEW w \in Workers, WorkerStep(w)
    PROVE  Typed'
<1> USE HookAssumption, PolicyAssumption
        DEF Typed, TypeOK, Refs, db, memory, bounds, history, HookIds, None,
            PrivacyRequestStatus, IdleRun, RunGoes, Enter, Return, Busy
<1>1. CASE Start(w)
  <2> DEFINE r == Head(queue)[1]
             k == Head(queue)[2]
  <2>1. /\ queue # << >>
        /\ queue[1] \in Requests \X HookIds
        /\ Head(queue) = queue[1]
        /\ status[queue[1][1]] # "absent"
    BY <1>1 DEF Start
  <2>2. r \in Requests /\ k \in Nat /\ status[r] \in PrivacyRequestStatus
    BY <2>1
  <2>3. /\ queue' \in Seq(Requests \X HookIds)
        /\ Len(queue') = Len(queue) - 1
        /\ \A i \in 1 .. Len(queue') : queue'[i] = queue[i + 1]
    BY <1>1, <2>1 DEF Start
  <2>4. stamps' \in [Requests -> SUBSET {"started", "finished", "reviewed"}]
    BY <1>1, <2>2 DEF Start, Stamp
  <2>5. TypeOK'
    BY <1>1, <2>2, <2>3, <2>4 DEF Start
  <2>6. Refs'
    BY <1>1, <2>2, <2>3 DEF Start
  <2> QED
    BY <2>5, <2>6
<1>2. CASE CallPreHook(w)
  BY <1>2 DEF CallPreHook
<1>3. CASE PreHookProceeds(w)
  <2>1. PICK ids \in SUBSET IdKeys : CacheIdentity(run[w].req, ids)
    BY <1>3 DEF PreHookProceeds, Derived
  <2>2. identity' \in [Requests -> SUBSET IdKeys]
    BY <1>3, <2>1 DEF PreHookProceeds, CacheIdentity
  <2>3. /\ run[w].pc = "waiting"
        /\ RunGoes(w, "pre", run[w].next + 1, run[w].mem)
        /\ released' = [released EXCEPT ![run[w].req] = @ \union {run[w].next}]
        /\ UNCHANGED <<db, tokens, handler, queue, jobs, firing, bounds, did, approvals>>
    BY <1>3 DEF PreHookProceeds
  <2> QED
    BY <2>2, <2>3
<1>4. CASE PreHookHalts(w)
  BY <1>4 DEF PreHookHalts, CacheIdentity, WriteStatus
<1>5. CASE InitiateFollowup(w)
  BY <1>5 DEF InitiateFollowup
<1>6. ASSUME run[w].pc # "idle", ErrorProcessing(w) PROVE Typed'
  BY <1>6 DEF ErrorProcessing, WriteStatus, Stamp
<1>7. CASE HookRaises(w)
  BY <1>7 DEF HookRaises
<1>8. CASE Misconfigured(w)
  BY <1>8 DEF Misconfigured
<1>9. CASE BeginExecution(w)
  BY <1>9 DEF BeginExecution
<1>10. CASE Access(w)
  BY <1>10 DEF Access, Effect
<1>11. CASE Upload(w)
  BY <1>11 DEF Upload, Effect, AfterUpload
<1>12. CASE UploadFails(w)
  BY <1>12 DEF UploadFails, AfterUpload
<1>13. CASE Erase(w)
  BY <1>13 DEF Erase, Effect
<1>14. CASE ExecutionFails(w)
  BY <1>14 DEF ExecutionFails
<1>15. CASE PostHookProceeds(w)
  BY <1>15 DEF PostHookProceeds, CacheIdentity, Derived
<1>16. CASE Finish(w)
  BY <1>16 DEF Finish, WriteStatus, Stamp
<1> QED
  BY <1>1, <1>2, <1>3, <1>4, <1>5, <1>6, <1>7, <1>8, <1>9, <1>10, <1>11, <1>12,
     <1>13, <1>14, <1>15, <1>16
  DEF WorkerStep, PreHookFails, PostHookFails

\* So do the scheduler, the passing of time and restarts.
LEMMA EnvironmentTyped ==
    ASSUME Typed,
           \/ \E r \in Requests :
                \/ FireJob(r)
                \/ Expire(r)
                \/ \E i \in IdKeys : IdentityExpires(r, i)
                \/ \E k \in 1 .. PreHooks : TokenExpires(r, k)
           \/ Crash
           \/ UNCHANGED vars
    PROVE  Typed'
<1> USE HookAssumption, PolicyAssumption
        DEF Typed, TypeOK, Refs, db, memory, bounds, history, HookIds, None,
            PrivacyRequestStatus, Busy
<1>1. ASSUME NEW r \in Requests, FireJob(r) PROVE Typed'
  BY <1>1 DEF FireJob
<1>2. ASSUME NEW r \in Requests, Expire(r) PROVE Typed'
  BY <1>2 DEF Expire, WriteStatus, Stamp
<1>3. ASSUME NEW r \in Requests, NEW i \in IdKeys, IdentityExpires(r, i)
      PROVE  Typed'
  BY <1>3 DEF IdentityExpires
<1>4. ASSUME NEW r \in Requests, NEW k \in 1 .. PreHooks, TokenExpires(r, k)
      PROVE  Typed'
  BY <1>4 DEF TokenExpires
<1>5. CASE Crash
  BY <1>5 DEF Crash, IdleHandler, IdleRun
<1>6. CASE UNCHANGED vars
  BY <1>6 DEF vars
<1> QED
  BY <1>1, <1>2, <1>3, <1>4, <1>5, <1>6

\* Types and references hold throughout.
LEMMA TypedAlways == Spec => []Typed
<1>1. Init => Typed
  BY HookAssumption, PolicyAssumption
  DEF Init, Typed, TypeOK, Refs, IdleHandler, IdleRun, HookIds, None, Busy,
      PrivacyRequestStatus
<1>2. Typed /\ [Next]_vars => Typed'
  BY HandlerTyped, WorkerTyped, EnvironmentTyped DEF Next
<1> QED
  BY <1>1, <1>2, PTL DEF Spec

\* Type correctness of the whole system: in particular no run ever loads, and no
\* handler ever writes, a row that was not created.
THEOREM TypeCorrect == Spec => [](TypeOK /\ Refs)
BY TypedAlways, PTL DEF Typed

-----------------------------------------------------------------------------
\* What the executor's queue is after a thread took its head.
LEMMA Dequeued ==
    ASSUME NEW S, NEW q \in Seq(S), q # << >>
    PROVE  /\ 1 \in 1 .. Len(q)
           /\ Head(q) = q[1]
           /\ q[1] \in S
           /\ Len(Tail(q)) = Len(q) - 1
           /\ \A i \in 1 .. Len(Tail(q)) :
                 i + 1 \in 1 .. Len(q) /\ Tail(q)[i] = q[i + 1]
OBVIOUS

\* What it is after a handler added to it.
LEMMA Enqueued ==
    ASSUME NEW S, NEW q \in Seq(S), NEW x
    PROVE  /\ Len(Append(q, x)) = Len(q) + 1
           /\ Append(q, x)[Len(q) + 1] = x
           /\ \A i \in 1 .. Len(q) : Append(q, x)[i] = q[i]
           /\ \A i \in 1 .. Len(q) + 1 : i \in 1 .. Len(q) \/ i = Len(q) + 1
OBVIOUS

-----------------------------------------------------------------------------
\* Webhooks release the execution. The strengthening follows the number of the
\* last released hook from the token a client holds, through the handler and
\* the executor's queue, to the run.

Released(r, k) == 1 .. k \subseteq released[r]

ReleaseInv ==
    /\ \A h \in Handlers :
          handler[h].pc # "idle" => Released(handler[h].req, handler[h].hook)
    /\ \A i \in 1 .. Len(queue) : Released(queue[i][1], queue[i][2])
    /\ \A r \in Requests, k \in 1 .. PreHooks :
          <<r, k>> \in tokens => Released(r, k - 1)
    /\ \A w \in Workers :
          /\ run[w].pc \in {"pre", "waiting"} =>
                Released(run[w].req, run[w].next - 1)
          /\ Executing(w) => Released(run[w].req, PreHooks)

\* A handler that returns, or goes on for a hook whose predecessors agreed.
LEMMA ReleaseByHandler ==
    ASSUME Typed, ReleaseInv, NEW h \in Handlers,
           UNCHANGED <<tokens, queue, run, released>>,
           \/ HandlerReturns(h)
           \/ \E pc : \E r \in Requests, k \in HookIds :
                 HandlerGoes(h, pc, r, k) /\ Released(r, k)
    PROVE  ReleaseInv'
<1> USE DEF Typed, TypeOK, ReleaseInv, Released, Executing
<1>1. CASE HandlerReturns(h)
  BY <1>1 DEF HandlerReturns, IdleHandler
<1>2. ASSUME NEW pc, NEW r \in Requests, NEW k \in HookIds,
             HandlerGoes(h, pc, r, k), Released(r, k)
      PROVE  ReleaseInv'
  BY <1>2 DEF HandlerGoes
<1> QED
  BY <1>1, <1>2

\* A run returns, pauses, or goes on with an execution it had begun.
LEMMA ReleaseByRun ==
    ASSUME Typed, ReleaseInv, NEW w \in Workers,
           UNCHANGED <<tokens, handler, queue, released>>,
           \/ Return(w)
           \/ \E pc, n, mem : /\ RunGoes(w, pc, n, mem)
                              /\ pc = "followup" \/ Executing(w)
                              /\ pc \notin {"pre", "waiting"}
    PROVE  ReleaseInv'
<1> USE DEF Typed, TypeOK, ReleaseInv, Released, Executing
<1>1. CASE Return(w)
  BY <1>1 DEF Return, IdleRun
<1>2. ASSUME NEW pc, NEW n, NEW mem, RunGoes(w, pc, n, mem),
             pc = "followup" \/ Executing(w), pc \notin {"pre", "waiting"}
      PROVE  ReleaseInv'
  BY <1>2 DEF RunGoes
<1> QED
  BY <1>1, <1>2

\* Every step of a handler keeps the hooks of its request in order.
LEMMA ReleaseHandlerStep ==
    ASSUME Typed, ReleaseInv, NEW h \in Handlers,
           \/ HandlerStep(h)
           \/ \E r \in Requests :
                \/ CreateRow(h, r)
                \/ ReviewRead(h, r)
                \/ \E k \in 1 .. PreHooks : ResumeRead(h, r, k)
    PROVE  ReleaseInv'
<1> USE HookAssumption DEF HookIds, None, history
<1>1. CASE CreateCaches(h) \/ CreateFails(h) \/ Approve(h) \/ Deny(h)
  <2>1. /\ handler[h].req \in Requests
        /\ \/ HandlerReturns(h)
           \/ HandlerGoes(h, "submit", handler[h].req, None)
        /\ UNCHANGED <<tokens, queue, run, released>>
    BY <1>1 DEF CreateCaches, CreateFails, Approve, Deny, Typed, Refs
  <2>2. Released(handler[h].req, None)
    BY DEF Released
  <2> QED
    BY <2>1, <2>2, ReleaseByHandler
<1>2. CASE ResumeWrite(h)
  <2>1. /\ handler[h].pc # "idle"
        /\ HandlerGoes(h, "submit", handler[h].req, handler[h].hook)
        /\ UNCHANGED <<tokens, queue, run, released>>
    BY <1>2 DEF ResumeWrite
  <2>2. /\ handler[h].req \in Requests /\ handler[h].hook \in HookIds
        /\ Released(handler[h].req, handler[h].hook)
    BY <2>1 DEF Typed, TypeOK, Refs, ReleaseInv
  <2> QED
    BY <2>1, <2>2, ReleaseByHandler
<1>3. CASE Submit(h)
  <2>1. /\ handler[h].pc # "idle"
        /\ queue' = Append(queue, <<handler[h].req, handler[h].hook>>)
        /\ HandlerReturns(h)
        /\ UNCHANGED <<tokens, run, released>>
    BY <1>3 DEF Submit
  <2>2. queue \in Seq(Requests \X HookIds)
    BY DEF Typed, TypeOK
  <2>3. \A i \in 1 .. Len(queue') :
           1 .. queue'[i][2] \subseteq released[queue'[i][1]]
    <3> SUFFICES ASSUME NEW i \in 1 .. Len(queue')
                 PROVE  1 .. queue'[i][2] \subseteq released[queue'[i][1]]
      OBVIOUS
    <3>1. \/ i \in 1 .. Len(queue) /\ queue'[i] = queue[i]
          \/ queue'[i] = <<handler[h].req, handler[h].hook>>
      BY <2>1, <2>2, Enqueued
    <3> QED
      BY <2>1, <3>1 DEF ReleaseInv, Released
  <2>4. \A g \in Handlers :
           handler'[g].pc # "idle" =>
               handler'[g] = handler[g] /\ handler[g].pc # "idle"
    BY <2>1 DEF Typed, TypeOK, HandlerReturns, IdleHandler
  <2>5. \A g \in Handlers :
           handler'[g].pc # "idle" =>
               1 .. handler'[g].hook \subseteq released[handler'[g].req]
    BY <2>4 DEF ReleaseInv, Released
  <2> QED
    BY <2>1, <2>3, <2>5 DEF ReleaseInv, Released, Executing
<1>4. ASSUME NEW r \in Requests, CreateRow(h, r) \/ ReviewRead(h, r)
      PROVE  ReleaseInv'
  <2>1. /\ \E pc \in {"caching", "approve", "deny"} : HandlerGoes(h, pc, r, None)
        /\ UNCHANGED <<tokens, queue, run, released>>
    BY <1>4 DEF CreateRow, ReviewRead
  <2>2. Released(r, None)
    BY DEF Released
  <2> QED
    BY <2>1, <2>2, ReleaseByHandler
<1>5. ASSUME NEW r \in Requests, NEW k \in 1 .. PreHooks, ResumeRead(h, r, k)
      PROVE  ReleaseInv'
  <2>1. /\ <<r, k>> \in tokens
        /\ \/ /\ HandlerGoes(h, "resume", r, k)
              /\ released' = [released EXCEPT ![r] = @ \union {k}]
           \/ UNCHANGED <<handler, released>>
        /\ UNCHANGED <<tokens, queue, run>>
    BY <1>5 DEF ResumeRead
  <2>2. CASE UNCHANGED <<handler, released>>
    BY <2>1, <2>2 DEF ReleaseInv, Released, Executing
  <2>3. CASE /\ HandlerGoes(h, "resume", r, k)
             /\ released' = [released EXCEPT ![r] = @ \union {k}]
    <3>1. \A q \in Requests : released[q] \subseteq released'[q]
      BY <2>3 DEF Typed, TypeOK
    <3>2. 1 .. k \subseteq released'[r]
      BY <2>1, <2>3 DEF Typed, TypeOK, ReleaseInv, Released
    <3>3. \A g \in Handlers :
             handler'[g].pc # "idle" =>
                 1 .. handler'[g].hook \subseteq released'[handler'[g].req]
      <4>1. \A g \in Handlers :
               handler'[g] = IF g = h THEN [pc |-> "resume", req |-> r, hook |-> k]
                                      ELSE handler[g]
        BY <2>3 DEF Typed, TypeOK, HandlerGoes
      <4> QED
        BY <3>1, <3>2, <4>1 DEF Typed, Refs, ReleaseInv, Released
    <3>4. \A i \in 1 .. Len(queue) :
             1 .. queue[i][2] \subseteq released'[queue[i][1]]
      <4>1. \A i \in 1 .. Len(queue) : queue[i][1] \in Requests
        BY DEF Typed, TypeOK
      <4> QED
        BY <3>1, <4>1 DEF ReleaseInv, Released
    <3>5. \A v \in Workers :
             /\ run[v].pc \in {"pre", "waiting"}
                => 1 .. run[v].next - 1 \subseteq released'[run[v].req]
             /\ run[v].pc \in {"access", "upload", "erase", "post"}
                => 1 .. PreHooks \subseteq released'[run[v].req]
      BY <3>1 DEF Typed, Refs, Busy, ReleaseInv, Released, Executing
    <3>6. \A q \in Requests, j \in 1 .. PreHooks :
             <<q, j>> \in tokens => 1 .. j - 1 \subseteq released'[q]
      BY <3>1 DEF ReleaseInv, Released
    <3> QED
      BY <2>1, <3>3, <3>4, <3>5, <3>6 DEF ReleaseInv, Released, Executing
  <2> QED
    BY <2>1, <2>2, <2>3
<1> QED
  BY <1>1, <1>2, <1>3, <1>4, <1>5 DEF HandlerStep

\* Every step of a run does.
LEMMA ReleaseWorkerStep ==
    ASSUME Typed, ReleaseInv, NEW w \in Workers, WorkerStep(w)
    PROVE  ReleaseInv'
<1> USE HookAssumption DEF HookIds, history
<1>1. CASE Start(w)
  <2>1. /\ queue \in Seq(Requests \X HookIds)
        /\ queue # << >>
        /\ queue' = Tail(queue)
        /\ UNCHANGED <<tokens, handler, released>>
    BY <1>1 DEF Start, Typed, TypeOK
  <2>2. /\ Head(queue) = queue[1]
        /\ queue[1] \in Requests \X HookIds
        /\ Released(queue[1][1], queue[1][2])
        /\ \A i \in 1 .. Len(queue') :
              1 .. queue'[i][2] \subseteq released[queue'[i][1]]
    BY <2>1, Dequeued DEF ReleaseInv, Released
  <2>3. \A v \in Workers :
          run'[v] = IF v = w
                    THEN [pc |-> "pre", req |-> queue[1][1],
                          next |-> queue[1][2] + 1,
                          seen |-> status[queue[1][1]],
                          mem |-> status[queue[1][1]]]
                    ELSE run[v]
    BY <1>1, <2>1, <2>2 DEF Start, Typed, TypeOK
  <2>4. ASSUME NEW v \in Workers
        PROVE  /\ run'[v].pc \in {"pre", "waiting"}
                  => 1 .. run'[v].next - 1 \subseteq released[run'[v].req]
               /\ run'[v].pc \in {"access", "upload", "erase", "post"}
                  => 1 .. PreHooks \subseteq released[run'[v].req]
    <3>1. CASE v = w
      <4>1. 1 .. (queue[1][2] + 1) - 1 \subseteq released[queue[1][1]]
        BY <2>2 DEF Released
      <4> QED
        BY <2>3, <3>1, <4>1
    <3>2. CASE v # w
      BY <2>3, <3>2 DEF ReleaseInv, Released, Executing
    <3> QED
      BY <3>1, <3>2
  <2> QED
    BY <2>1, <2>2, <2>4 DEF ReleaseInv, Released, Executing
<1>2. CASE CallPreHook(w)
  <2>1. /\ run[w].pc = "pre"
        /\ RunGoes(w, "waiting", run[w].next, run[w].mem)
        /\ tokens' \subseteq tokens \union {<<run[w].req, run[w].next>>}
        /\ UNCHANGED <<handler, queue, released>>
    BY <1>2 DEF CallPreHook
  <2>2. \A r \in Requests, k \in 1 .. PreHooks :
          <<r, k>> \in tokens' => 1 .. k - 1 \subseteq released[r]
    BY <2>1 DEF Typed, TypeOK, ReleaseInv, Released
  <2> QED
    BY <2>1, <2>2 DEF RunGoes, Typed, TypeOK, ReleaseInv, Released, Executing
<1>3. CASE PreHookProceeds(w)
  <2> DEFINE r == run[w].req
             k == run[w].next
  <2>1. /\ run[w].pc = "waiting"
        /\ RunGoes(w, "pre", k + 1, run[w].mem)
        /\ released' = [released EXCEPT ![r] = @ \union {k}]
        /\ UNCHANGED <<tokens, handler, queue>>
    BY <1>3 DEF PreHookProceeds
  <2>2. \A q \in Requests : released[q] \subseteq released'[q]
    BY <2>1 DEF Typed, TypeOK
  <2>3. 1 .. k \subseteq released'[r]
    BY <2>1 DEF Typed, TypeOK, Refs, Busy, ReleaseInv, Released
  <2>4. \A v \in Workers :
          run'[v] = IF v = w THEN [pc |-> "pre", req |-> r, next |-> k + 1,
                                   seen |-> run[w].seen, mem |-> run[w].mem]
                             ELSE run[v]
    BY <2>1 DEF RunGoes, Typed, TypeOK
  <2>5. ASSUME NEW v \in Workers
        PROVE  /\ run'[v].pc \in {"pre", "waiting"}
                  => 1 .. run'[v].next - 1 \subseteq released'[run'[v].req]
               /\ run'[v].pc \in {"access", "upload", "erase", "post"}
                  => 1 .. PreHooks \subseteq released'[run'[v].req]
    <3>1. CASE v = w
      <4>1. (k + 1) - 1 = k
        BY DEF Typed, TypeOK
      <4> QED
        BY <2>3, <2>4, <3>1, <4>1
    <3>2. CASE v # w
      BY <2>2, <2>4, <3>2 DEF Typed, Refs, Busy, ReleaseInv, Released, Executing
    <3> QED
      BY <3>1, <3>2
  <2>6. \A g \in Handlers :
           handler[g].pc # "idle" =>
               1 .. handler[g].hook \subseteq released'[handler[g].req]
    BY <2>2 DEF Typed, Refs, ReleaseInv, Released
  <2>7. \A i \in 1 .. Len(queue) :
           1 .. queue[i][2] \subseteq released'[queue[i][1]]
    <3>1. \A i \in 1 .. Len(queue) : queue[i][1] \in Requests
      BY DEF Typed, TypeOK
    <3> QED
      BY <2>2, <3>1 DEF ReleaseInv, Released
  <2> QED
    BY <2>1, <2>2, <2>5, <2>6, <2>7 DEF ReleaseInv, Released, Executing
<1>4. CASE \/ InitiateFollowup(w) \/ PreHookFails(w) \/ HookRaises(w)
           \/ Misconfigured(w) \/ PostHookFails(w) \/ Finish(w)
  <2>1. Return(w) /\ UNCHANGED <<tokens, handler, queue, released>>
    BY <1>4 DEF InitiateFollowup, PreHookFails, HookRaises, Misconfigured,
                PostHookFails, Finish, ErrorProcessing
  <2> QED
    BY <2>1, ReleaseByRun
<1>5. CASE PreHookHalts(w)
  <2>1. /\ RunGoes(w, "followup", run[w].next, run[w].mem)
        /\ UNCHANGED <<tokens, handler, queue, released>>
    BY <1>5 DEF PreHookHalts
  <2> QED
    BY <2>1, ReleaseByRun
<1>6. CASE BeginExecution(w)
  BY <1>6
  DEF BeginExecution, Enter, RunGoes, Typed, TypeOK, ReleaseInv, Released, Executing
<1>7. CASE \/ Access(w) \/ Upload(w) \/ UploadFails(w) \/ Erase(w)
           \/ ExecutionFails(w) \/ PostHookProceeds(w)
  <2>1. \E pc \in {"upload", "erase", "post"} : \E n, mem : RunGoes(w, pc, n, mem)
    BY <1>7, Zenon DEF Access, Upload, UploadFails, Erase, ExecutionFails,
                PostHookProceeds, AfterUpload, Enter
  <2>2. Executing(w) /\ UNCHANGED <<tokens, handler, queue, released>>
    BY <1>7 DEF Access, Upload, UploadFails, Erase, ExecutionFails,
                PostHookProceeds, Executing
  <2> QED
    BY <2>1, <2>2, ReleaseByRun
<1> QED
  BY <1>1, <1>2, <1>3, <1>4, <1>5, <1>6, <1>7 DEF WorkerStep

\* The invariant is inductive.
LEMMA ReleaseStep ==
    ASSUME Typed, ReleaseInv, [Next]_vars
    PROVE  ReleaseInv'
<1> USE DEF memory, history, ReleaseInv, Released, Executing
<1>1. ASSUME NEW r \in Requests,
             \/ FireJob(r) \/ Expire(r)
             \/ \E i \in IdKeys : IdentityExpires(r, i)
             \/ \E k \in 1 .. PreHooks : TokenExpires(r, k)
      PROVE  ReleaseInv'
  BY <1>1 DEF FireJob, Expire, IdentityExpires, TokenExpires
<1>2. CASE Crash
  BY <1>2 DEF Crash, IdleHandler, IdleRun
<1>3. CASE UNCHANGED vars
  BY <1>3 DEF vars
<1> QED
  BY <1>1, <1>2, <1>3, ReleaseHandlerStep, ReleaseWorkerStep DEF Next

\* No personal data is read, uploaded or erased before every pre-execution
\* webhook of the policy has let the request go on.
THEOREM ReleaseCorrect == Spec => []HooksReleaseExecution
<1>1. Init => ReleaseInv
  BY HookAssumption
  DEF Init, ReleaseInv, Released, Executing, IdleHandler, IdleRun, None
<1>2. Typed /\ ReleaseInv /\ [Next]_vars => ReleaseInv'
  BY ReleaseStep
<1>3. Typed /\ ReleaseInv => HooksReleaseExecution
  BY DEF Typed, TypeOK, Refs, ReleaseInv, Released, HooksReleaseExecution,
         Executing, Busy
<1> QED
  BY <1>1, <1>2, <1>3, TypedAlways, PTL DEF Spec

-----------------------------------------------------------------------------
\* A completed request is a done one. The strengthening says what a run that has
\* met no error has done at each phase; a run that loaded the status "error"
\* promises nothing, because it will never write "complete".

DoneInv ==
    \A w \in Workers :
        LET r == run[w].req IN
        Executing(w) /\ run[w].mem # "error" =>
            /\ run[w].pc # "access" => "access" \in did[r]
            /\ run[w].pc \in {"erase", "post"} /\ "access" \in rules[r] =>
                  "upload" \in did[r]
            /\ run[w].pc = "post" /\ "erasure" \in rules[r] =>
                  "erasure" \in did[r]

DoneOrNot == DoneInv /\ CompleteMeansDone

\* A handler neither undoes an effect nor completes a request.
LEMMA DoneHandlerStep ==
    ASSUME Typed, DoneOrNot, NEW h \in Handlers,
           \/ HandlerStep(h)
           \/ \E r \in Requests :
                \/ CreateRow(h, r)
                \/ ReviewRead(h, r)
                \/ \E k \in 1 .. PreHooks : ResumeRead(h, r, k)
    PROVE  DoneOrNot'
<1> USE DEF Typed, TypeOK, Refs, Busy, db, history, DoneOrNot, DoneInv,
            CompleteMeansDone, Executing
<1>1. CASE \/ CreateCaches(h) \/ CreateFails(h) \/ Submit(h)
           \/ \E r \in Requests :
                \/ ReviewRead(h, r)
                \/ \E k \in 1 .. PreHooks : ResumeRead(h, r, k)
  <2>1. UNCHANGED <<status, rules, run, did>>
    BY <1>1 DEF CreateCaches, CreateFails, Submit, ReviewRead, ResumeRead
  <2> QED
    BY <2>1
<1>2. CASE Approve(h) \/ Deny(h) \/ ResumeWrite(h)
  <2>1. /\ \A r \in Requests : status'[r] = "complete" => status[r] = "complete"
        /\ UNCHANGED <<rules, run, did>>
    BY <1>2 DEF Approve, Deny, ResumeWrite, WriteStatus
  <2> QED
    BY <2>1
<1>3. ASSUME NEW r \in Requests, CreateRow(h, r) PROVE DoneOrNot'
  BY <1>3 DEF CreateRow
<1> QED
  BY <1>1, <1>2, <1>3 DEF HandlerStep

\* A run completes a request only after its effects.
LEMMA DoneWorkerStep ==
    ASSUME Typed, DoneOrNot, NEW w \in Workers, WorkerStep(w)
    PROVE  DoneOrNot'
<1> USE DEF Typed, TypeOK, Refs, Busy, db, history, DoneOrNot, DoneInv,
            CompleteMeansDone, Executing, RunGoes, Enter, Return, IdleRun
<1>1. CASE Start(w)
  BY <1>1 DEF Start
<1>2. CASE CallPreHook(w)
  BY <1>2 DEF CallPreHook
<1>3. CASE PreHookProceeds(w)
  BY <1>3 DEF PreHookProceeds
<1>4. CASE PreHookHalts(w)
  BY <1>4 DEF PreHookHalts, WriteStatus
<1>5. CASE InitiateFollowup(w)
  BY <1>5 DEF InitiateFollowup
<1>6. CASE ErrorProcessing(w)
  BY <1>6 DEF ErrorProcessing, WriteStatus
<1>7. CASE HookRaises(w)
  BY <1>7 DEF HookRaises
<1>8. CASE Misconfigured(w)
  BY <1>8 DEF Misconfigured
<1>9. CASE BeginExecution(w)
  BY <1>9 DEF BeginExecution
<1>10. CASE Access(w)
  BY <1>10 DEF Access, Effect
<1>11. CASE Upload(w)
  BY <1>11 DEF Upload, Effect, AfterUpload
<1>12. CASE UploadFails(w)
  BY <1>12 DEF UploadFails, AfterUpload
<1>13. CASE Erase(w)
  BY <1>13 DEF Erase, Effect
<1>14. CASE ExecutionFails(w)
  BY <1>14 DEF ExecutionFails
<1>15. CASE PostHookProceeds(w)
  BY <1>15 DEF PostHookProceeds
<1>16. CASE Finish(w)
  BY <1>16 DEF Finish, WriteStatus
<1> QED
  BY <1>1, <1>2, <1>3, <1>4, <1>5, <1>6, <1>7, <1>8, <1>9, <1>10, <1>11, <1>12,
     <1>13, <1>14, <1>15, <1>16
  DEF WorkerStep, PreHookFails, PostHookFails

\* The invariant is inductive.
LEMMA DoneStep ==
    ASSUME Typed, DoneOrNot, [Next]_vars
    PROVE  DoneOrNot'
<1> USE DEF db, memory, history, DoneOrNot, DoneInv, CompleteMeansDone, Executing
<1>1. ASSUME NEW r \in Requests,
             \/ FireJob(r)
             \/ \E i \in IdKeys : IdentityExpires(r, i)
             \/ \E k \in 1 .. PreHooks : TokenExpires(r, k)
      PROVE  DoneOrNot'
  BY <1>1 DEF FireJob, IdentityExpires, TokenExpires
<1>2. ASSUME NEW r \in Requests, Expire(r) PROVE DoneOrNot'
  BY <1>2 DEF Expire, WriteStatus, Typed, TypeOK
<1>3. CASE Crash
  BY <1>3 DEF Crash, IdleRun
<1>4. CASE UNCHANGED vars
  BY <1>4 DEF vars
<1> QED
  BY <1>1, <1>2, <1>3, <1>4, DoneHandlerStep, DoneWorkerStep DEF Next

\* A request that reads "complete" has had everything done that its policy asks
\* for, whatever runs of it overlapped, failed or were cut off.
THEOREM CompleteCorrect == Spec => []CompleteMeansDone
<1>1. Init => DoneOrNot
  BY DEF Init, DoneOrNot, DoneInv, CompleteMeansDone, Executing, IdleRun
<1>2. Typed /\ DoneOrNot /\ [Next]_vars => DoneOrNot'
  BY DoneStep
<1>3. DoneOrNot => CompleteMeansDone
  BY DEF DoneOrNot
<1> QED
  BY <1>1, <1>2, <1>3, TypedAlways, PTL DEF Spec

-----------------------------------------------------------------------------
\* The expiry of paused requests and the time stamp of ended ones. Both
\* invariants are inductive as they stand.

Tidy == PausedHasFollowup /\ EndedMeansFinished

\* A handler pauses nothing and ends nothing without a time.
LEMMA TidyHandlerStep ==
    ASSUME Typed, Tidy, NEW h \in Handlers,
           \/ HandlerStep(h)
           \/ \E r \in Requests :
                \/ CreateRow(h, r)
                \/ ReviewRead(h, r)
                \/ \E k \in 1 .. PreHooks : ResumeRead(h, r, k)
    PROVE  Tidy'
<1> USE DEF Typed, TypeOK, Refs, db, history, bounds, Tidy, PausedHasFollowup,
            EndedMeansFinished
<1>1. CASE \/ CreateCaches(h) \/ CreateFails(h) \/ Submit(h)
           \/ \E r \in Requests :
                \/ ReviewRead(h, r)
                \/ \E k \in 1 .. PreHooks : ResumeRead(h, r, k)
  <2>1. UNCHANGED <<status, stamps, run, jobs, firing, crashes>>
    BY <1>1 DEF CreateCaches, CreateFails, Submit, ReviewRead, ResumeRead
  <2> QED
    BY <2>1
<1>2. CASE Approve(h)
  BY <1>2 DEF Approve, WriteStatus, Stamp
<1>3. CASE Deny(h)
  BY <1>3 DEF Deny, WriteStatus, Stamp
<1>4. CASE ResumeWrite(h)
  BY <1>4 DEF ResumeWrite, WriteStatus
<1>5. ASSUME NEW r \in Requests, CreateRow(h, r) PROVE Tidy'
  BY <1>5 DEF CreateRow
<1> QED
  BY <1>1, <1>2, <1>3, <1>4, <1>5 DEF HandlerStep

\* A run pauses with a job and ends with a time.
LEMMA TidyWorkerStep ==
    ASSUME Typed, Tidy, NEW w \in Workers, WorkerStep(w)
    PROVE  Tidy'
<1> USE DEF Typed, TypeOK, Refs, Busy, db, history, bounds, Tidy,
            PausedHasFollowup, EndedMeansFinished
<1>1. CASE PreHookHalts(w)
  BY <1>1 DEF PreHookHalts, WriteStatus, RunGoes
<1>2. CASE InitiateFollowup(w)
  BY <1>2 DEF InitiateFollowup, Return, IdleRun
<1>3. ASSUME run[w].pc \notin {"idle", "followup"}, ErrorProcessing(w)
      PROVE  Tidy'
  BY <1>3 DEF ErrorProcessing, WriteStatus, Stamp, Return, IdleRun
<1>4. CASE Finish(w)
  BY <1>4 DEF Finish, WriteStatus, Stamp, Return, IdleRun
<1>5. CASE Start(w)
  <2>1. Head(queue)[1] \in Requests
    BY <1>5 DEF Start, HookIds
  <2> QED
    BY <1>5, <2>1 DEF Start, Stamp
<1>6. CASE \/ CallPreHook(w) \/ PreHookProceeds(w) \/ BeginExecution(w)
           \/ Access(w) \/ Upload(w) \/ UploadFails(w) \/ Erase(w)
           \/ ExecutionFails(w) \/ PostHookProceeds(w)
           \/ HookRaises(w) \/ Misconfigured(w)
  <2>1. /\ run[w].pc # "followup"
        /\ UNCHANGED <<status, stamps, jobs, firing, crashes>>
    BY <1>6 DEF CallPreHook, PreHookProceeds, BeginExecution, Access, Upload,
                UploadFails, Erase, ExecutionFails, PostHookProceeds, HookRaises,
                Misconfigured
  <2>2. \A v \in Workers \ {w} : run'[v] = run[v]
    BY <1>6 DEF CallPreHook, PreHookProceeds, BeginExecution, Access, Upload,
                UploadFails, Erase, ExecutionFails, PostHookProceeds, HookRaises,
                Misconfigured, RunGoes, Enter, Return
  <2>3. \A v \in Workers : run[v].pc = "followup" => run'[v] = run[v]
    BY <2>1, <2>2
  <2>4. EndedMeansFinished'
    BY <2>1
  <2>5. PausedHasFollowup'
    BY <2>1, <2>3
  <2> QED
    BY <2>4, <2>5
<1> QED
  BY <1>1, <1>2, <1>3, <1>4, <1>5, <1>6 DEF WorkerStep, PreHookFails, PostHookFails

\* The invariant is inductive.
LEMMA TidyStep ==
    ASSUME Typed, Tidy, [Next]_vars
    PROVE  Tidy'
<1> USE DEF db, memory, history, bounds, Tidy, PausedHasFollowup, EndedMeansFinished
<1>1. ASSUME NEW r \in Requests,
             \/ \E i \in IdKeys : IdentityExpires(r, i)
             \/ \E k \in 1 .. PreHooks : TokenExpires(r, k)
      PROVE  Tidy'
  BY <1>1 DEF IdentityExpires, TokenExpires
<1>2. ASSUME NEW r \in Requests, FireJob(r) PROVE Tidy'
  BY <1>2 DEF FireJob, Typed, TypeOK
<1>3. ASSUME NEW r \in Requests, Expire(r) PROVE Tidy'
  BY <1>3 DEF Expire, WriteStatus, Stamp, Typed, TypeOK
<1>4. CASE Crash
  BY <1>4 DEF Crash, Typed, TypeOK
<1>5. CASE UNCHANGED vars
  BY <1>5 DEF vars
<1> QED
  BY <1>1, <1>2, <1>3, <1>4, <1>5, TidyHandlerStep, TidyWorkerStep DEF Next

\* It holds throughout.
LEMMA TidyAlways == Spec => []Tidy
<1>1. Init => Tidy
  BY DEF Init, Tidy, PausedHasFollowup, EndedMeansFinished
<1>2. Typed /\ Tidy /\ [Next]_vars => Tidy'
  BY TidyStep
<1> QED
  BY <1>1, <1>2, TypedAlways, PTL DEF Spec

\* Until the server restarts, every paused request has its expiry coming.
THEOREM FollowupCorrect == Spec => []PausedHasFollowup
BY TidyAlways, PTL DEF Tidy

\* An ended request says when its processing finished.
THEOREM FinishedCorrect == Spec => []EndedMeansFinished
BY TidyAlways, PTL DEF Tidy

-----------------------------------------------------------------------------
\* Manual approval. The approval travels like the released hooks: from the
\* handler that committed it to the queue, the run, the tokens the run issues
\* and the handlers those tokens start.

Cleared(r) == RequireManualApproval => r \in approvals

ApprovalInv ==
    /\ \A h \in Handlers :
          handler[h].pc \in {"submit", "resume"} => Cleared(handler[h].req)
    /\ \A i \in 1 .. Len(queue) : Cleared(queue[i][1])
    /\ \A r \in Requests, k \in 1 .. PreHooks : <<r, k>> \in tokens => Cleared(r)
    /\ \A w \in Workers : Busy(w) => Cleared(run[w].req)

\* A handler queues only what was approved or paused.
LEMMA ApprovalHandlerStep ==
    ASSUME Typed, ApprovalInv, NEW h \in Handlers,
           \/ HandlerStep(h)
           \/ \E r \in Requests :
                \/ CreateRow(h, r)
                \/ ReviewRead(h, r)
                \/ \E k \in 1 .. PreHooks : ResumeRead(h, r, k)
    PROVE  ApprovalInv'
<1> USE PolicyAssumption
        DEF Typed, TypeOK, db, history, ApprovalInv, Cleared, Busy, HandlerGoes,
            HandlerReturns, IdleHandler
<1>1. CASE CreateCaches(h)
  <2>1. /\ \/ HandlerReturns(h)
           \/ /\ ~RequireManualApproval
              /\ HandlerGoes(h, "submit", handler[h].req, None)
        /\ UNCHANGED <<tokens, queue, run, approvals>>
    BY <1>1 DEF CreateCaches
  <2>2. CASE HandlerReturns(h)
    BY <2>1, <2>2
  <2>3. CASE /\ ~RequireManualApproval
             /\ HandlerGoes(h, "submit", handler[h].req, None)
    BY <2>1, <2>3
  <2> QED
    BY <2>1, <2>2, <2>3
<1>2. CASE CreateFails(h)
  BY <1>2 DEF CreateFails
<1>3. CASE Approve(h)
  BY <1>3 DEF Approve
<1>4. CASE Deny(h)
  BY <1>4 DEF Deny
<1>5. CASE ResumeWrite(h)
  BY <1>5 DEF ResumeWrite
<1>6. CASE Submit(h)
  <2>1. /\ Len(queue') = Len(queue) + 1
        /\ queue'[Len(queue) + 1][1] = handler[h].req
        /\ \A i \in 1 .. Len(queue) : queue'[i] = queue[i]
    <3>1. /\ queue \in Seq(Requests \X HookIds)
          /\ queue' = Append(queue, <<handler[h].req, handler[h].hook>>)
      BY <1>6 DEF Submit
    <3> QED
      BY <3>1, Enqueued
  <2>2. \A i \in 1 .. Len(queue') : Cleared(queue'[i][1])
    BY <1>6, <2>1 DEF Submit
  <2> QED
    BY <1>6, <2>2 DEF Submit
<1>7. ASSUME NEW r \in Requests, CreateRow(h, r) PROVE ApprovalInv'
  BY <1>7 DEF CreateRow
<1>8. ASSUME NEW r \in Requests, ReviewRead(h, r) PROVE ApprovalInv'
  BY <1>8 DEF ReviewRead
<1>9. ASSUME NEW r \in Requests, NEW k \in 1 .. PreHooks, ResumeRead(h, r, k)
      PROVE  ApprovalInv'
  <2>1. /\ <<r, k>> \in tokens
        /\ HandlerGoes(h, "resume", r, k) \/ UNCHANGED handler
        /\ UNCHANGED <<tokens, queue, run, approvals>>
    BY <1>9 DEF ResumeRead
  <2> QED
    BY <2>1
<1> QED
  BY <1>1, <1>2, <1>3, <1>4, <1>5, <1>6, <1>7, <1>8, <1>9 DEF HandlerStep

\* A run leaves paused only what was approved.
LEMMA ApprovalWorkerStep ==
    ASSUME Typed, ApprovalInv, NEW w \in Workers, WorkerStep(w)
    PROVE  ApprovalInv'
<1> USE DEF Typed, TypeOK, history, ApprovalInv, Cleared, Busy
<1>1. CASE Start(w)
  <2>1. /\ Head(queue) = queue[1]
        /\ 1 \in 1 .. Len(queue)
        /\ Len(queue') = Len(queue) - 1
        /\ \A i \in 1 .. Len(queue') :
              i + 1 \in 1 .. Len(queue) /\ queue'[i] = queue[i + 1]
        /\ UNCHANGED <<tokens, handler, approvals>>
    <3>1. /\ queue \in Seq(Requests \X HookIds) /\ queue # << >>
          /\ queue' = Tail(queue) /\ UNCHANGED <<tokens, handler, approvals>>
      BY <1>1 DEF Start
    <3> QED
      BY <3>1, Dequeued
  <2> QED
    BY <1>1, <2>1 DEF Start
<1>2. CASE CallPreHook(w)
  <2>1. /\ run[w].pc = "pre"
        /\ RunGoes(w, "waiting", run[w].next, run[w].mem)
        /\ tokens' \subseteq tokens \union {<<run[w].req, run[w].next>>}
        /\ UNCHANGED <<handler, queue, approvals>>
    BY <1>2 DEF CallPreHook
  <2>2. \A r \in Requests, k \in 1 .. PreHooks : <<r, k>> \in tokens' => Cleared(r)
    BY <2>1
  <2> QED
    BY <2>1, <2>2 DEF RunGoes
<1>3. CASE WorkerStep(w) /\ ~Start(w) /\ ~CallPreHook(w)
  <2>1. run[w].pc # "idle" /\ UNCHANGED <<tokens, handler, queue, approvals>>
    BY <1>3 DEF WorkerStep, PreHookProceeds, PreHookHalts, InitiateFollowup,
       PreHookFails, HookRaises, Misconfigured, BeginExecution, Access, Upload,
       UploadFails, Erase, ExecutionFails, PostHookProceeds, PostHookFails,
       Finish, ErrorProcessing
  <2>2. \/ Return(w)
        \/ \E pc, n, mem : RunGoes(w, pc, n, mem)
    BY <1>3, Zenon DEF WorkerStep, PreHookProceeds, PreHookHalts, InitiateFollowup,
       PreHookFails, HookRaises, Misconfigured, BeginExecution, Access, Upload,
       UploadFails, Erase, ExecutionFails, PostHookProceeds, PostHookFails,
       Finish, ErrorProcessing, Enter
  <2>3. CASE Return(w)
    BY <2>1, <2>3 DEF Return, IdleRun
  <2>4. ASSUME NEW pc, NEW n, NEW mem, RunGoes(w, pc, n, mem) PROVE ApprovalInv'
    BY <2>1, <2>4 DEF RunGoes
  <2> QED
    BY <2>2, <2>3, <2>4
<1> QED
  BY <1>1, <1>2, <1>3

\* The invariant is inductive.
LEMMA ApprovalStep ==
    ASSUME Typed, ApprovalInv, [Next]_vars
    PROVE  ApprovalInv'
<1> USE DEF memory, history, ApprovalInv, Cleared, Busy
<1>1. ASSUME NEW r \in Requests,
             \/ FireJob(r) \/ Expire(r)
             \/ \E i \in IdKeys : IdentityExpires(r, i)
             \/ \E k \in 1 .. PreHooks : TokenExpires(r, k)
      PROVE  ApprovalInv'
  BY <1>1 DEF FireJob, Expire, IdentityExpires, TokenExpires
<1>2. CASE Crash
  BY <1>2 DEF Crash, IdleHandler, IdleRun
<1>3. CASE UNCHANGED vars
  BY <1>3 DEF vars
<1> QED
  BY <1>1, <1>2, <1>3, ApprovalHandlerStep, ApprovalWorkerStep DEF Next

\* Where approval is required, nothing runs for a request nobody approved.
THEOREM ApprovalCorrect == Spec => []ApprovedBeforeRun
<1>1. Init => ApprovalInv
  BY DEF Init, ApprovalInv, Cleared, Busy, IdleHandler, IdleRun
<1>2. Typed /\ ApprovalInv /\ [Next]_vars => ApprovalInv'
  BY ApprovalStep
<1>3. ApprovalInv => ApprovedBeforeRun
  BY DEF ApprovalInv, ApprovedBeforeRun, Cleared
<1> QED
  BY <1>1, <1>2, <1>3, TypedAlways, PTL DEF Spec
-----------------------------------------------------------------------------
\* Requests served one at a time

\* Approvals are required, and the API serves one call at a time.
Serial == RequireManualApproval /\ \A g, h \in Handlers : g = h

\* Who works on request r: a run of thread w, an entry of the queue, or a call that
\* is about to submit it.
Working(w, r) == Busy(w) /\ run[w].pc # "followup" /\ run[w].req = r
Queued(i, r) == queue[i][1] = r
Submitting(h, r) == handler[h].pc = "submit" /\ handler[h].req = r

NobodyOn(r) ==
    /\ \A w \in Workers : ~Working(w, r)
    /\ \A i \in 1 .. Len(queue) : ~Queued(i, r)
    /\ \A h \in Handlers : ~Submitting(h, r)

OneOn(r) ==
    /\ \A v, w \in Workers : Working(v, r) /\ Working(w, r) => v = w
    /\ \A i, j \in 1 .. Len(queue) : Queued(i, r) /\ Queued(j, r) => i = j
    /\ \A w \in Workers, i \in 1 .. Len(queue) : ~(Working(w, r) /\ Queued(i, r))
    /\ \A h \in Handlers : Submitting(h, r) =>
          /\ \A w \in Workers : ~Working(w, r)
          /\ \A i \in 1 .. Len(queue) : ~Queued(i, r)

\* What the status of a request says about the work on it.
StatusTells(r) ==
    /\ status[r] \in {"absent", "pending", "denied", "paused", "complete"} => NobodyOn(r)
    /\ status[r] \in {"absent", "pending", "denied"} => r \notin jobs \union firing
    /\ status[r] \in {"absent", "pending", "denied"} =>
          \A w \in Workers : Busy(w) => run[w].req # r

\* What a call has read still holds when it writes, but for an expiry.
ReadsHold ==
    /\ \A h \in Handlers : handler[h].pc \in {"approve", "deny"} => status[handler[h].req] = "pending"
    /\ \A h \in Handlers : handler[h].pc = "resume" =>
          status[handler[h].req] \in {"paused", "error"} /\ NobodyOn(handler[h].req)
    /\ \A w \in Workers : Busy(w) /\ run[w].pc # "followup" =>
          run[w].seen \in {"approved", "in_processing", "error"}

SerialInv ==
    /\ \A r \in Requests : OneOn(r) /\ StatusTells(r)
    /\ ReadsHold

\* The one thread of the API: it reads before it writes, and submits what nobody
\* works on.
LEMMA SerialHandlerStep ==
    ASSUME Serial, Typed, SerialInv, NEW h \in Handlers,
           \/ HandlerStep(h)
           \/ \E r \in Requests :
                \/ CreateRow(h, r)
                \/ ReviewRead(h, r)
                \/ \E k \in 1 .. PreHooks : ResumeRead(h, r, k)
    PROVE  SerialInv'
<1> USE DEF Typed, TypeOK, Refs, db, history, bounds, Serial, HandlerGoes, HandlerReturns,
            IdleHandler, Busy
<1>1. \A g \in Handlers : g = h
  OBVIOUS
<1>2. CASE CreateCaches(h) \/ CreateFails(h)
  <2>1. UNCHANGED <<status, queue, run, jobs, firing>> /\ handler'[h].pc = "idle"
    BY <1>2 DEF CreateCaches, CreateFails
  <2> QED
    BY <1>1, <2>1 DEF SerialInv, OneOn, StatusTells, ReadsHold, NobodyOn, Working, Queued,
                      Submitting
<1>3. ASSUME NEW r \in Requests, CreateRow(h, r) PROVE SerialInv'
  BY <1>1, <1>3 DEF CreateRow, SerialInv, OneOn, StatusTells, ReadsHold, NobodyOn, Working,
                    Queued, Submitting
<1>4. ASSUME NEW r \in Requests, ReviewRead(h, r) PROVE SerialInv'
  BY <1>1, <1>4 DEF ReviewRead, SerialInv, OneOn, StatusTells, ReadsHold, NobodyOn, Working,
                    Queued, Submitting
<1>5. ASSUME NEW r \in Requests, NEW k \in 1 .. PreHooks, ResumeRead(h, r, k) PROVE SerialInv'
  BY <1>1, <1>5 DEF ResumeRead, SerialInv, OneOn, StatusTells, ReadsHold, NobodyOn, Working,
                    Queued, Submitting
<1>6. CASE Approve(h)
  BY <1>1, <1>6 DEF Approve, WriteStatus, SerialInv, OneOn, StatusTells, ReadsHold, NobodyOn,
                    Working, Queued, Submitting
<1>7. CASE Deny(h)
  BY <1>1, <1>7 DEF Deny, WriteStatus, SerialInv, OneOn, StatusTells, ReadsHold, NobodyOn,
                    Working, Queued, Submitting
<1>8. CASE ResumeWrite(h)
  BY <1>1, <1>8 DEF ResumeWrite, WriteStatus, SerialInv, OneOn, StatusTells, ReadsHold,
                    NobodyOn, Working, Queued, Submitting
<1>9. CASE Submit(h)
  <2> DEFINE r == handler[h].req
             x == <<r, handler[h].hook>>
  <2>1. /\ queue' = Append(queue, x) /\ UNCHANGED <<status, run, jobs, firing>>
        /\ handler'[h].pc = "idle" /\ handler[h].pc = "submit"
    BY <1>9 DEF Submit
  <2>2. /\ Len(queue') = Len(queue) + 1
        /\ queue'[Len(queue) + 1] = x
        /\ \A i \in 1 .. Len(queue) : queue'[i] = queue[i]
        /\ \A i \in 1 .. Len(queue) + 1 : i \in 1 .. Len(queue) \/ i = Len(queue) + 1
    BY <2>1, Enqueued
  <2>3. x[1] = r /\ Submitting(h, r) /\ r \in Requests
    BY <2>1 DEF Submitting
  <2> QED
    BY <1>1, <2>1, <2>2, <2>3
    DEF SerialInv, OneOn, StatusTells, ReadsHold, NobodyOn, Working, Queued, Submitting
<1> QED
  BY <1>2, <1>3, <1>4, <1>5, <1>6, <1>7, <1>8, <1>9 DEF HandlerStep

\* A run is the only work on its request until it pauses or ends, and says so then.
LEMMA SerialWorkerStep ==
    ASSUME Serial, Typed, SerialInv, NEW w \in Workers, WorkerStep(w)
    PROVE  SerialInv'
<1> USE DEF Typed, TypeOK, Refs, db, history, bounds, Busy
<1> DEFINE r == run[w].req
<1>1. CASE Start(w)
  <2> DEFINE q == Head(queue)[1]
  <2>1. /\ queue # << >> /\ queue' = Tail(queue) /\ ~Busy(w)
        /\ run' = [run EXCEPT ![w] = [pc |-> "pre", req |-> q, next |-> Head(queue)[2] + 1,
                                      seen |-> status[q], mem |-> status[q]]]
        /\ UNCHANGED <<status, handler, jobs, firing>>
    BY <1>1 DEF Start
  <2>2. /\ 1 \in 1 .. Len(queue)
        /\ Head(queue) = queue[1]
        /\ queue[1] \in Requests \X HookIds
        /\ Len(queue') = Len(queue) - 1
        /\ \A i \in 1 .. Len(queue') : i + 1 \in 1 .. Len(queue) /\ queue'[i] = queue[i + 1]
    BY <2>1, Dequeued
  <2>3. q \in Requests /\ Queued(1, q)
    BY <2>2 DEF Queued
  <2>4. /\ run'[w].pc = "pre" /\ run'[w].req = q /\ run'[w].seen = status[q]
        /\ \A v \in Workers \ {w} : run'[v] = run[v]
    BY <2>1
  <2>5. status[q] \in {"approved", "in_processing", "error"}
    <3>1. ~NobodyOn(q)
      BY <2>2, <2>3 DEF NobodyOn
    <3> QED
      BY <2>3, <3>1 DEF SerialInv, StatusTells, PrivacyRequestStatus
  <2>6. ASSUME NEW p \in Requests PROVE OneOn(p)'
    <3>1. \A i \in 1 .. Len(queue') : Queued(i, p)' => Queued(i + 1, p)
      BY <2>2 DEF Queued
    <3>2. \A i \in 1 .. Len(queue') : p = q => ~Queued(i, p)'
      BY <2>2, <2>3, <3>1 DEF SerialInv, OneOn
    <3>3. \A v \in Workers : Working(v, p)' => (v = w /\ p = q) \/ Working(v, p)
      BY <2>4 DEF Working
    <3>4. \A v \in Workers : p = q => ~Working(v, p)
      BY <2>2, <2>3 DEF SerialInv, OneOn
    <3>5. \A g \in Handlers : Submitting(g, p)' => Submitting(g, p) /\ p # q
      BY <2>1, <2>2, <2>3 DEF SerialInv, OneOn, Submitting
    <3>6. OneOn(p)
      BY DEF SerialInv
    <3> QED
      BY <2>2, <3>1, <3>2, <3>3, <3>4, <3>5, <3>6 DEF OneOn
  <2>7. ASSUME NEW p \in Requests, NobodyOn(p) PROVE NobodyOn(p)'
    <3>1. p # q
      BY <2>2, <2>3, <2>7 DEF NobodyOn
    <3> QED
      BY <2>1, <2>2, <2>4, <2>7, <3>1 DEF NobodyOn, Working, Queued, Submitting
  <2>8. ASSUME NEW p \in Requests PROVE StatusTells(p)'
    BY <2>1, <2>4, <2>5, <2>7 DEF SerialInv, StatusTells
  <2>9. ReadsHold'
    BY <2>1, <2>4, <2>5, <2>7 DEF SerialInv, ReadsHold
  <2> QED
    BY <2>6, <2>8, <2>9 DEF SerialInv
<1>2. CASE \/ CallPreHook(w) \/ PreHookProceeds(w) \/ BeginExecution(w)
           \/ Access(w) \/ Upload(w) \/ UploadFails(w) \/ Erase(w)
           \/ ExecutionFails(w) \/ PostHookProceeds(w)
  <2>1. /\ UNCHANGED <<status, queue, handler, jobs, firing>>
        /\ run[w].pc \notin {"idle", "followup"}
    BY <1>2 DEF CallPreHook, PreHookProceeds, BeginExecution, Access, Upload, UploadFails,
                Erase, ExecutionFails, PostHookProceeds
  <2>2. \E pc \in {"pre", "waiting", "access", "upload", "erase", "post"} :
           \E n, mem : RunGoes(w, pc, n, mem)
    BY <1>2, Zenon DEF CallPreHook, PreHookProceeds, BeginExecution, Access, Upload,
                UploadFails, Erase, ExecutionFails, PostHookProceeds, Enter, AfterUpload
  <2>3. /\ run'[w].pc \notin {"idle", "followup"} /\ run'[w].req = run[w].req
        /\ run'[w].seen = run[w].seen
        /\ \A v \in Workers \ {w} : run'[v] = run[v]
    BY <2>2 DEF RunGoes
  <2>4. \A v \in Workers : /\ run'[v].pc \in {"idle", "followup"} <=> run[v].pc \in {"idle", "followup"}
                           /\ run'[v].pc = "idle" <=> run[v].pc = "idle"
                           /\ run'[v].req = run[v].req /\ run'[v].seen = run[v].seen
    BY <2>1, <2>3
  <2> QED
    BY <2>1, <2>4 DEF SerialInv, OneOn, StatusTells, ReadsHold, NobodyOn, Working, Queued,
                      Submitting
<1>3. CASE \/ HookRaises(w) \/ Misconfigured(w) \/ PreHookFails(w) \/ PostHookFails(w)
           \/ Finish(w)
  <2>1. /\ UNCHANGED <<queue, handler, jobs, firing>>
        /\ Working(w, r) /\ r \in Requests
        /\ Return(w)
        /\ status' = status \/ \E s \in {"error", "complete"} : status' = [status EXCEPT ![r] = s]
    BY <1>3 DEF HookRaises, Misconfigured, PreHookFails, PostHookFails, Finish,
                ErrorProcessing, WriteStatus, Working
  <2>2. /\ run'[w].pc = "idle"
        /\ \A v \in Workers \ {w} : run'[v] = run[v]
    BY <2>1 DEF Return, IdleRun
  <2>3. \A p \in Requests, v \in Workers : Working(v, p)' => Working(v, p) /\ v # w
    BY <2>2 DEF Working
  <2>4. \A p \in Requests : NobodyOn(p) => NobodyOn(p)'
    BY <2>1, <2>3 DEF NobodyOn, Queued, Submitting
  <2>5. \A p \in Requests : OneOn(p)'
    BY <2>1, <2>3 DEF SerialInv, OneOn, Queued, Submitting
  <2>6. ASSUME NEW p \in Requests, p = r PROVE NobodyOn(p)'
    <3>1. OneOn(p) /\ Working(w, p)
      BY <2>1, <2>6 DEF SerialInv
    <3> QED
      BY <2>1, <2>3, <3>1 DEF OneOn, NobodyOn, Queued, Submitting
  <2>7. /\ status[r] \in {"approved", "in_processing", "error"}
        /\ \A p \in Requests : p # r => status'[p] = status[p]
        /\ status'[r] \in {status[r], "error", "complete"}
    BY <2>1 DEF SerialInv, StatusTells, NobodyOn, PrivacyRequestStatus
  <2>8. ASSUME NEW p \in Requests PROVE StatusTells(p)'
    <3>1. StatusTells(p)
      BY DEF SerialInv
    <3>2. \A v \in Workers : Busy(v)' => Busy(v) /\ run'[v] = run[v]
      BY <2>2
    <3> QED
      BY <2>1, <2>4, <2>6, <2>7, <3>1, <3>2 DEF StatusTells
  <2>9. ReadsHold'
    <3>1. \A g \in Handlers : handler[g].pc = "resume" => handler[g].req # r
      BY <2>1 DEF SerialInv, ReadsHold, NobodyOn
    <3>2. \A g \in Handlers : handler[g].pc \in {"approve", "deny"} => handler[g].req # r
      BY <2>7 DEF SerialInv, ReadsHold
    <3>3. \A g \in Handlers : handler[g].pc # "idle" => handler[g].req \in Requests
      OBVIOUS
    <3>4. \A v \in Workers : Busy(v)' => run'[v] = run[v]
      BY <2>2
    <3>5. ReadsHold
      BY DEF SerialInv
    <3> HIDE DEF r
    <3> QED
      BY <2>1, <2>4, <2>7, <3>1, <3>2, <3>3, <3>4, <3>5 DEF ReadsHold
  <2> QED
    BY <2>5, <2>8, <2>9 DEF SerialInv
<1>4. CASE PreHookHalts(w)
  <2>1. /\ UNCHANGED <<queue, handler, jobs, firing>>
        /\ Working(w, r) /\ r \in Requests
        /\ RunGoes(w, "followup", run[w].next, run[w].mem)
        /\ run[w].seen # "paused"
    BY <1>4 DEF PreHookHalts, Working, SerialInv, ReadsHold
  <2>2. status' = [status EXCEPT ![r] = "paused"]
    BY <1>4, <2>1 DEF PreHookHalts, WriteStatus
  <2>3. /\ run'[w].pc = "followup" /\ run'[w].req = r
        /\ \A v \in Workers \ {w} : run'[v] = run[v]
    BY <2>1 DEF RunGoes
  <2>4. \A p \in Requests, v \in Workers : Working(v, p)' => Working(v, p) /\ v # w
    BY <2>3 DEF Working
  <2>5. \A p \in Requests : NobodyOn(p) => NobodyOn(p)'
    BY <2>1, <2>4 DEF NobodyOn, Queued, Submitting
  <2>6. \A p \in Requests : OneOn(p)'
    BY <2>1, <2>4 DEF SerialInv, OneOn, Queued, Submitting
  <2>7. ASSUME NEW p \in Requests, p = r PROVE NobodyOn(p)'
    <3>1. OneOn(p) /\ Working(w, p)
      BY <2>1, <2>7 DEF SerialInv
    <3> QED
      BY <2>1, <2>4, <3>1 DEF OneOn, NobodyOn, Queued, Submitting
  <2>8. /\ status[r] \in {"approved", "in_processing", "error"}
        /\ \A p \in Requests : p # r => status'[p] = status[p]
        /\ status'[r] = "paused"
    BY <2>1, <2>2, ZenonT(60) DEF SerialInv, StatusTells, NobodyOn, PrivacyRequestStatus
  <2>9. ASSUME NEW p \in Requests PROVE StatusTells(p)'
    <3>1. StatusTells(p)
      BY DEF SerialInv
    <3>2. \A v \in Workers : Busy(v)' => Busy(v) /\ run'[v].req = run[v].req
      BY <2>1, <2>3 DEF Working
    <3> QED
      BY <2>1, <2>5, <2>7, <2>8, <3>1, <3>2 DEF StatusTells
  <2>10. ReadsHold'
    <3>1. \A g \in Handlers : handler[g].pc = "resume" => handler[g].req # r
      BY <2>1 DEF SerialInv, ReadsHold, NobodyOn
    <3>2. \A g \in Handlers : handler[g].pc \in {"approve", "deny"} => handler[g].req # r
      BY <2>8 DEF SerialInv, ReadsHold
    <3>3. \A g \in Handlers : handler[g].pc # "idle" => handler[g].req \in Requests
      OBVIOUS
    <3>4. \A v \in Workers : run'[v].pc # "followup" => run'[v] = run[v]
      BY <2>3
    <3>5. ReadsHold
      BY DEF SerialInv
    <3> HIDE DEF r
    <3> QED
      BY <2>1, <2>5, <2>8, <3>1, <3>2, <3>3, <3>4, <3>5 DEF ReadsHold
  <2> QED
    BY <2>6, <2>9, <2>10 DEF SerialInv
<1>5. CASE InitiateFollowup(w)
  <2>1. /\ UNCHANGED <<status, queue, handler, firing>>
        /\ run[w].pc = "followup" /\ run'[w].pc = "idle"
        /\ \A v \in Workers \ {w} : run'[v] = run[v]
        /\ jobs' = jobs \union {r}
        /\ r \in Requests
    BY <1>5 DEF InitiateFollowup, Return, IdleRun
  <2>2. \A p \in Requests, v \in Workers : Working(v, p)' <=> Working(v, p)
    BY <2>1 DEF Working
  <2>3. \A p \in Requests : (NobodyOn(p) => NobodyOn(p)') /\ OneOn(p)'
    BY <2>1, <2>2 DEF SerialInv, OneOn, NobodyOn, Queued, Submitting
  <2>4. ASSUME NEW p \in Requests PROVE StatusTells(p)'
    <3>1. StatusTells(p)
      BY DEF SerialInv
    <3>2. \A v \in Workers : Busy(v)' => Busy(v) /\ run'[v].req = run[v].req
      BY <2>1
    <3>3. p = r => status[p] \notin {"absent", "pending", "denied"}
      BY <2>1, <3>1 DEF StatusTells
    <3> QED
      BY <2>1, <2>3, <3>1, <3>2, <3>3 DEF StatusTells
  <2>5. ReadsHold'
    BY <2>1, <2>3 DEF SerialInv, ReadsHold
  <2> QED
    BY <2>3, <2>4, <2>5 DEF SerialInv
<1> QED
  BY <1>1, <1>2, <1>3, <1>4, <1>5 DEF WorkerStep

\* The invariant is inductive.
LEMMA SerialStep ==
    ASSUME Serial, Typed, SerialInv, [Next]_vars
    PROVE  SerialInv'
<1> USE DEF db, memory, SerialInv, OneOn, StatusTells, ReadsHold, NobodyOn, Working, Queued,
            Submitting, Busy
<1>1. ASSUME NEW r \in Requests,
             \/ \E i \in IdKeys : IdentityExpires(r, i)
             \/ \E k \in 1 .. PreHooks : TokenExpires(r, k)
      PROVE  SerialInv'
  <2>1. UNCHANGED <<status, handler, queue, run, jobs, firing>>
    BY <1>1 DEF IdentityExpires, TokenExpires
  <2> QED
    BY <2>1
<1>2. ASSUME NEW r \in Requests, FireJob(r) PROVE SerialInv'
  BY <1>2 DEF FireJob, Typed, TypeOK
<1>3. ASSUME NEW r \in Requests, Expire(r) PROVE SerialInv'
  <2>1. /\ UNCHANGED <<handler, queue, run, jobs>> /\ firing' = firing \ {r} /\ r \in firing
        /\ status'[r] = "error" /\ \A p \in Requests : p # r => status'[p] = status[p]
    BY <1>3 DEF Expire, WriteStatus, Typed, TypeOK
  <2>2. \A h \in Handlers : handler[h].pc # "idle" => handler[h].req \in Requests
    BY DEF Typed, Refs
  <2> QED
    BY <2>1, <2>2
<1>4. CASE Crash
  BY <1>4 DEF Crash, IdleHandler, IdleRun
<1>5. CASE UNCHANGED vars
  BY <1>5 DEF vars
<1> QED
  BY <1>1, <1>2, <1>3, <1>4, <1>5, SerialHandlerStep, SerialWorkerStep DEF Next

\* It holds throughout, when calls are served one at a time.
LEMMA SerialAlways == ASSUME Serial PROVE Spec => []SerialInv
<1>1. Init => SerialInv
  BY DEF Init, SerialInv, OneOn, StatusTells, ReadsHold, NobodyOn, Working, Queued,
         Submitting, Busy, IdleHandler, IdleRun
<1>2. Typed /\ SerialInv /\ [Next]_vars => SerialInv'
  BY SerialStep
<1> QED
  BY <1>1, <1>2, TypedAlways, PTL DEF Spec

\* A request has one run in progress or queued, however hooks, expiries and restarts
\* fall, when approvals are required and calls are served one at a time: every way to
\* the executor asks the row first, and the row tells who is on it (SingleFlight).
THEOREM SingleFlightCorrect == ASSUME Serial PROVE Spec => []SingleFlight
<1>1. SerialInv => SingleFlight
  <2> SUFFICES ASSUME SerialInv, NEW r \in Requests PROVE InFlight(r) <= 1
    BY DEF SingleFlight
  <2> DEFINE ws == {w \in Workers : Working(w, r)}
             is == {i \in 1 .. Len(queue) : Queued(i, r)}
  <2>1. InFlight(r) = Cardinality(ws) + Cardinality(is)
    BY DEF InFlight, Working, Queued
  <2>2. OneOn(r)
    BY DEF SerialInv
  <2>3. ws = {} \/ is = {}
    BY <2>2 DEF OneOn
  <2>4. (ws = {} \/ \E w : ws = {w}) /\ (is = {} \/ \E i : is = {i})
    <3>1. (\A v, w \in ws : v = w) /\ (\A i, j \in is : i = j)
      BY <2>2 DEF OneOn
    <3>2. ASSUME NEW S, \A x, y \in S : x = y PROVE S = {} \/ \E x : S = {x}
      <4>1. ASSUME NEW x \in S PROVE S = {x}
        BY <3>2
      <4> QED
        BY <4>1
    <3> HIDE DEF ws, is
    <3> QED
      BY <3>1, <3>2
  <2>5. Cardinality({}) = 0 /\ \A x : Cardinality({x}) = 1
    BY FS_EmptySet, FS_Singleton
  <2> HIDE DEF ws, is
  <2>6. Cardinality(ws) \in {0, 1} /\ Cardinality(is) \in {0, 1}
    BY <2>4, <2>5
  <2>7. Cardinality(ws) = 0 \/ Cardinality(is) = 0
    BY <2>3, <2>5
  <2> QED
    BY <2>1, <2>6, <2>7
<1> QED
  BY <1>1, SerialAlways, PTL

\* Which rows a step of the served-one-at-a-time system can write a status to.
LEMMA StatusMoves ==
    ASSUME Serial, Typed, SerialInv, [Next]_vars, NEW r \in Requests, status'[r] # status[r]
    PROVE  status[r] # "denied" /\ (status[r] = "complete" => r \in firing)
<1> USE DEF Typed, TypeOK, Refs, db, Busy
<1>1. ASSUME NEW w \in Workers, WorkerStep(w)
      PROVE  status[r] \notin {"denied", "complete"}
  <2>1. /\ run[w].pc \notin {"idle", "followup"}
        /\ \E s : status' = [status EXCEPT ![run[w].req] = s]
    <3>1. \/ PreHookHalts(w) \/ PreHookFails(w) \/ PostHookFails(w) \/ Finish(w)
      BY <1>1 DEF WorkerStep, Start, CallPreHook, PreHookProceeds, InitiateFollowup, HookRaises,
                  Misconfigured, BeginExecution, Access, Upload, UploadFails, Erase,
                  ExecutionFails, PostHookProceeds
    <3>2. run[w].pc \in {"waiting", "post"}
      BY <3>1 DEF PreHookHalts, PreHookFails, PostHookFails, Finish
    <3>3. \E s : WriteStatus(run[w].req, run[w].seen, s)
      BY <3>1, Zenon DEF PreHookHalts, PreHookFails, PostHookFails, Finish, ErrorProcessing
    <3> QED
      BY <3>2, <3>3 DEF WriteStatus
  <2>2. run[w].req = r
    BY <2>1
  <2>3. ~NobodyOn(r)
    BY <2>1, <2>2 DEF NobodyOn, Working
  <2> QED
    BY <2>3 DEF SerialInv, StatusTells
<1>2. ASSUME NEW h \in Handlers,
             \/ HandlerStep(h)
             \/ \E p \in Requests :
                   \/ CreateRow(h, p)
                   \/ ReviewRead(h, p)
                   \/ \E k \in 1 .. PreHooks : ResumeRead(h, p, k)
      PROVE  status[r] \in {"absent", "pending", "paused", "error"}
  <2>1. CASE \E p \in Requests : CreateRow(h, p)
    BY <2>1 DEF CreateRow
  <2>2. CASE Approve(h) \/ Deny(h) \/ ResumeWrite(h)
    <3>1. /\ handler[h].pc \in {"approve", "deny", "resume"}
          /\ \E s : status' = [status EXCEPT ![handler[h].req] = s]
      BY <2>2 DEF Approve, Deny, ResumeWrite, WriteStatus
    <3>2. handler[h].req = r
      BY <3>1
    <3> QED
      BY <3>1, <3>2 DEF SerialInv, ReadsHold
  <2> QED
    BY <1>2, <2>1, <2>2 DEF HandlerStep, CreateCaches, CreateFails, Submit, ReviewRead,
                            ResumeRead
<1>3. ASSUME NEW p \in Requests,
             \/ FireJob(p) \/ Expire(p)
             \/ \E i \in IdKeys : IdentityExpires(p, i)
             \/ \E k \in 1 .. PreHooks : TokenExpires(p, k)
      PROVE  r \in firing
  BY <1>3 DEF FireJob, Expire, WriteStatus, IdentityExpires, TokenExpires
<1>4. r \in firing => status[r] # "denied"
  BY DEF SerialInv, StatusTells
<1>5. ~Crash /\ ~(UNCHANGED vars)
  BY DEF Crash, vars
<1> QED
  BY <1>1, <1>2, <1>3, <1>4, <1>5 DEF Next

\* A denied request stays denied when calls are served one at a time: what breaks it
\* otherwise is an approval, or a submission at creation, that overlaps the denial.
THEOREM DenialCorrect == ASSUME Serial PROVE Spec => DeniedIsFinal
<1> DEFINE Stays == \A r \in Requests : status[r] = "denied" => status'[r] = "denied"
<1>1. Typed /\ SerialInv /\ [Next]_vars => [Stays]_vars
  BY StatusMoves
<1>2. Spec => [][Stays]_vars
  BY <1>1, SerialAlways, TypedAlways, PTL DEF Spec
<1> QED
  BY <1>2 DEF DeniedIsFinal

\* A completed request stays complete, but for an expiry that had read "paused", when
\* calls are served one at a time (CompleteUndoneOnlyByExpiry).
THEOREM CompletionCorrect == ASSUME Serial PROVE Spec => CompleteUndoneOnlyByExpiry
<1> DEFINE Stays == \A r \in Requests :
                       status[r] = "complete" /\ status'[r] # "complete" => r \in firing
<1>1. Typed /\ SerialInv /\ [Next]_vars => [Stays]_vars
  BY StatusMoves
<1>2. Spec => [][Stays]_vars
  BY <1>1, SerialAlways, TypedAlways, PTL DEF Spec
<1> QED
  BY <1>2 DEF CompleteUndoneOnlyByExpiry
=============================================================================
