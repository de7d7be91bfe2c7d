-------------------------- MODULE RequestLifecycle --------------------------
(***************************************************************************)
(* The life of a privacy request: the API handlers that create, review and *)
(* resume it, the thread pool that runs it, the webhooks that pause it,    *)
(* the in-memory scheduler that expires it, and a restart of the server.   *)
(*                                                                         *)
(* Three stores are kept apart because they fail apart: the database row   *)
(* (status, stamps), the redis cache (identity), and the process memory    *)
(* (handler, queue, run, jobs, firing), which a restart loses.             *)
(*                                                                         *)
(* A database write is the ORM's: an UPDATE names the status column only   *)
(* when the in-memory value differs from the one that was loaded, so every *)
(* actor remembers the status it loaded ("seen").                          *)
(***************************************************************************)
EXTENDS Naturals, Sequences, FiniteSets

CONSTANTS
    Requests,               \* privacy requests
    Handlers,               \* threads of the API server
    Workers,                \* threads of the executor (two in the code)
    IdKeys,                 \* kinds of identity: email, phone number...
    PreHooks, PostHooks,    \* the policy has hooks 1..PreHooks and 1..PostHooks
    TwoWayPre, TwoWayPost,  \* the hooks whose response is read
    RuleSets,               \* the sets of rule actions a policy may have
    ClientStamps,           \* the timestamps a client may supply on creation
    RequireManualApproval,  \* config.execution.REQUIRE_MANUAL_REQUEST_APPROVAL
    UncaughtFaults,         \* may a hook raise what its caller does not catch
    MaxCrashes,             \* bound on restarts of the server
    MaxCalls                \* bound on the review and resume calls of clients

ASSUME HookAssumption ==
    /\ PreHooks \in Nat
    /\ PostHooks \in Nat
    /\ TwoWayPre \subseteq 1 .. PreHooks
    /\ TwoWayPost \subseteq 1 .. PostHooks

ASSUME PolicyAssumption ==
    /\ RuleSets \subseteq SUBSET {"access", "erasure"}
    /\ ClientStamps \subseteq SUBSET {"started", "finished"}
    /\ RequireManualApproval \in BOOLEAN
    /\ UncaughtFaults \in BOOLEAN
    /\ MaxCrashes \in Nat
    /\ MaxCalls \in Nat

VARIABLES
    status, stamps, rules,      \* the row of the privacyrequest table
    identity,                   \* identity keys in redis
    tokens,                     \* <<r, k>>: the reply-to URL of r and webhook k's
                                \* unexpired token for it, in a client's hands
    handler,                    \* what each API thread is doing
    queue,                      \* work the executor has not started
    run,                        \* what each executor thread is doing
    jobs, firing,               \* scheduled and executing expiry jobs
    crashes, calls,             \* restarts, client calls so far
    released, did, approvals    \* history: hooks that let the request go on,
                                \* effects on data, committed approvals

db == <<status, stamps, rules>>
memory == <<handler, queue, run, jobs, firing>>
bounds == <<crashes, calls>>
history == <<released, did, approvals>>
vars == <<db, identity, tokens, memory, bounds, history>>

PrivacyRequestStatus ==
    {"pending", "approved", "denied", "in_processing", "complete", "paused",
     "error"}

None == 0                       \* "no webhook": run from the first one
HookIds == 0 .. PreHooks

IdleHandler == [pc |-> "idle", req |-> None, hook |-> None]

IdleRun ==
    [pc |-> "idle", req |-> None, next |-> 1, seen |-> "pending",
     mem |-> "pending"]

Busy(w) == run[w].pc # "idle"

TypeOK ==
    /\ status \in [Requests -> PrivacyRequestStatus \union {"absent"}]
    /\ stamps \in [Requests -> SUBSET {"started", "finished", "reviewed"}]
    /\ rules \in [Requests -> SUBSET {"access", "erasure"}]
    /\ identity \in [Requests -> SUBSET IdKeys]
    /\ tokens \subseteq Requests \X (1 .. PreHooks)
    /\ handler \in [Handlers ->
           [pc : {"idle", "caching", "submit", "approve", "deny", "resume"},
            req : Requests \union {None}, hook : HookIds]]
    /\ queue \in Seq(Requests \X HookIds)
    /\ run \in [Workers ->
           [pc : {"idle", "pre", "waiting", "followup", "access", "upload",
                  "erase", "post"},
            req : Requests \union {None},
            next : Nat \ {0},
            seen : PrivacyRequestStatus, mem : PrivacyRequestStatus]]
    /\ jobs \subseteq Requests
    /\ firing \subseteq Requests
    /\ crashes \in 0 .. MaxCrashes
    /\ calls \in 0 .. MaxCalls
    /\ released \in [Requests -> SUBSET (1 .. PreHooks)]
    /\ did \in [Requests -> SUBSET {"access", "upload", "erasure"}]
    /\ approvals \subseteq Requests

Init ==
    /\ status = [r \in Requests |-> "absent"]
    /\ stamps = [r \in Requests |-> {}]
    /\ rules = [r \in Requests |-> {}]
    /\ identity = [r \in Requests |-> {}]
    /\ tokens = {}
    /\ handler = [h \in Handlers |-> IdleHandler]
    /\ queue = << >>
    /\ run = [w \in Workers |-> IdleRun]
    /\ jobs = {}
    /\ firing = {}
    /\ crashes = 0
    /\ calls = 0
    /\ released = [r \in Requests |-> {}]
    /\ did = [r \in Requests |-> {}]
    /\ approvals = {}

-----------------------------------------------------------------------------
\* The stores

\* base_class.save: the status column is in the UPDATE only when it changed
\* since it was loaded.
WriteStatus(r, seen, new) ==
    status' = IF new = seen THEN status ELSE [status EXCEPT ![r] = new]

Stamp(r, s) == stamps' = [stamps EXCEPT ![r] = @ \union {s}]

CacheIdentity(r, ids) == identity' = [identity EXCEPT ![r] = @ \union ids]

\* The API thread h goes on with request r, from webhook k.
HandlerGoes(h, pc, r, k) ==
    handler' = [handler EXCEPT ![h] = [pc |-> pc, req |-> r, hook |-> k]]

HandlerReturns(h) == handler' = [handler EXCEPT ![h] = IdleHandler]

\* A client calls the API once more.
ClientCall == calls < MaxCalls /\ calls' = calls + 1

-----------------------------------------------------------------------------
\* POST /privacy-request

\* The row is committed before anything is cached.
CreateRow(h, r) ==
    /\ handler[h].pc = "idle"
    /\ status[r] = "absent"
    /\ \E rs \in RuleSets, ts \in ClientStamps :
          /\ rules' = [rules EXCEPT ![r] = rs]
          /\ stamps' = [stamps EXCEPT ![r] = ts]
    /\ status' = [status EXCEPT ![r] = "pending"]
    /\ HandlerGoes(h, "caching", r, None)
    /\ UNCHANGED <<identity, tokens, queue, run, jobs, firing, bounds, history>>

\* Mutant of CreateCaches: submits whether or not approval is required.
CreateCachesAndSubmits(h) ==
    LET r == handler[h].req IN
    /\ handler[h].pc = "caching"
    /\ \E ids \in SUBSET IdKeys \ {{}} : CacheIdentity(r, ids)
    /\ HandlerGoes(h, "submit", r, None)
    /\ UNCHANGED <<db, tokens, queue, run, jobs, firing, bounds, history>>

\* The identity, the encryption key and the masking secrets go to redis. The
\* request is submitted at once unless approvals are required.
CreateCaches(h) ==
    LET r == handler[h].req IN
    /\ handler[h].pc = "caching"
    /\ \E ids \in SUBSET IdKeys \ {{}} : CacheIdentity(r, ids)
    /\ IF RequireManualApproval
       THEN HandlerReturns(h)
       ELSE HandlerGoes(h, "submit", r, None)
    /\ UNCHANGED <<db, tokens, queue, run, jobs, firing, bounds, history>>

\* Redis is unreachable or a masking strategy is invalid: the client is told
\* that the record could not be added, the committed row stays.
CreateFails(h) ==
    LET r == handler[h].req IN
    /\ handler[h].pc = "caching"
    /\ \E ids \in SUBSET IdKeys : CacheIdentity(r, ids)
    /\ HandlerReturns(h)
    /\ UNCHANGED <<db, tokens, queue, run, jobs, firing, bounds, history>>

-----------------------------------------------------------------------------
\* PATCH /privacy-request/administrate/approve and .../deny

\* Mutant of ReviewRead: reviews requests that are not pending too.
ReviewReadAnyStatus(h, r) ==
    /\ handler[h].pc = "idle"
    /\ ClientCall
    /\ status[r] # "absent"
    /\ \E verdict \in {"approve", "deny"} : HandlerGoes(h, verdict, r, None)
    /\ UNCHANGED <<db, identity, tokens, queue, run, jobs, firing, crashes, history>>

\* Only a pending request is reviewed; the row is not locked.
ReviewRead(h, r) ==
    /\ handler[h].pc = "idle"
    /\ ClientCall
    /\ status[r] = "pending"
    /\ \E verdict \in {"approve", "deny"} : HandlerGoes(h, verdict, r, None)
    /\ UNCHANGED <<db, identity, tokens, queue, run, jobs, firing, crashes, history>>

Approve(h) ==
    LET r == handler[h].req IN
    /\ handler[h].pc = "approve"
    /\ WriteStatus(r, "pending", "approved")
    /\ Stamp(r, "reviewed")
    /\ HandlerGoes(h, "submit", r, None)
    /\ approvals' = approvals \union {r}
    /\ UNCHANGED <<rules, identity, tokens, queue, run, jobs, firing, bounds,
                   released, did>>

Deny(h) ==
    LET r == handler[h].req IN
    /\ handler[h].pc = "deny"
    /\ WriteStatus(r, "pending", "denied")
    /\ Stamp(r, "reviewed")
    /\ HandlerReturns(h)
    /\ UNCHANGED <<rules, identity, tokens, queue, run, jobs, firing, bounds, history>>

-----------------------------------------------------------------------------
\* POST /privacy-request/{id}/resume, with the token of webhook k

\* Mutant of ResumeRead: resumes requests that are not paused too.
ResumeReadUnchecked(h, r, k) ==
    /\ handler[h].pc = "idle"
    /\ ClientCall
    /\ <<r, k>> \in tokens
    /\ \E ids \in SUBSET IdKeys : CacheIdentity(r, ids)
    /\ HandlerGoes(h, "resume", r, k)
    /\ released' = [released EXCEPT ![r] = @ \union {k}]
    /\ UNCHANGED <<db, tokens, queue, run, jobs, firing, crashes, did, approvals>>

\* The derived identity is cached before the status is checked, so a refused
\* call has this effect too. A call counts as webhook k's consent to go on only
\* when it is accepted.
ResumeRead(h, r, k) ==
    /\ handler[h].pc = "idle"
    /\ ClientCall
    /\ <<r, k>> \in tokens
    /\ \E ids \in SUBSET IdKeys : CacheIdentity(r, ids)
    /\ IF status[r] = "paused"
       THEN /\ HandlerGoes(h, "resume", r, k)
            /\ released' = [released EXCEPT ![r] = @ \union {k}]
       ELSE UNCHANGED <<handler, released>>
    /\ UNCHANGED <<db, tokens, queue, run, jobs, firing, crashes, did, approvals>>

ResumeWrite(h) ==
    LET r == handler[h].req IN
    /\ handler[h].pc = "resume"
    /\ WriteStatus(r, "paused", "in_processing")
    /\ HandlerGoes(h, "submit", r, handler[h].hook)
    /\ UNCHANGED <<stamps, rules, identity, tokens, queue, run, jobs, firing,
                   bounds, history>>

\* PrivacyRequestRunner.submit hands the request to the executor.
Submit(h) ==
    /\ handler[h].pc = "submit"
    /\ queue' = Append(queue, <<handler[h].req, handler[h].hook>>)
    /\ HandlerReturns(h)
    /\ UNCHANGED <<db, identity, tokens, run, jobs, firing, bounds, history>>

-----------------------------------------------------------------------------
\* PrivacyRequestRunner.run, on an executor thread

\* Mutant of Start: resumes one webhook too far.
StartSkipsOne(w) ==
    LET r == Head(queue)[1]
        k == Head(queue)[2]
    IN
    /\ ~Busy(w)
    /\ queue # << >>
    /\ queue' = Tail(queue)
    /\ Stamp(r, "started")
    /\ run' = [run EXCEPT ![w] = [pc |-> "pre", req |-> r,
                                  next |-> IF k = None THEN 1 ELSE k + 2,
                                  seen |-> status[r], mem |-> status[r]]]
    /\ UNCHANGED <<status, rules, identity, tokens, handler, jobs, firing,
                   bounds, history>>

\* A free thread takes the oldest work, loads the row and stamps the start. The
\* status stays what it was: nothing marks the request as being processed.
Start(w) ==
    LET r == Head(queue)[1]
        k == Head(queue)[2]
    IN
    /\ ~Busy(w)
    /\ queue # << >>
    /\ queue' = Tail(queue)
    /\ Stamp(r, "started")
    /\ run' = [run EXCEPT ![w] = [pc |-> "pre", req |-> r, next |-> k + 1,
                                  seen |-> status[r], mem |-> status[r]]]
    /\ UNCHANGED <<status, rules, identity, tokens, handler, jobs, firing,
                   bounds, history>>

\* The run of thread w goes on, with the request's status in memory now mem.
RunGoes(w, pc, next, mem) ==
    run' = [run EXCEPT ![w] = [pc |-> pc, req |-> run[w].req, next |-> next,
                               seen |-> run[w].seen, mem |-> mem]]

\* Enter a phase; post-execution hooks are numbered from 1 again.
Enter(w, phase) == RunGoes(w, phase, 1, run[w].mem)

\* The thread is free again, whether run returned or an exception escaped.
Return(w) == run' = [run EXCEPT ![w] = IdleRun]

\* Mutant of CallPreHook: goes past the last webhook.
CallPreHookPastEnd(w) ==
    /\ run[w].pc = "pre"
    /\ run[w].next <= PreHooks + 1
    /\ RunGoes(w, "waiting", run[w].next, run[w].mem)
    /\ tokens' = IF run[w].next \in TwoWayPre
                 THEN tokens \union {<<run[w].req, run[w].next>>}
                 ELSE tokens
    /\ UNCHANGED <<db, identity, handler, queue, jobs, firing, bounds, history>>

\* trigger_policy_webhook sends the request. A two-way pre-execution hook is
\* sent a token that works from this moment on.
CallPreHook(w) ==
    /\ run[w].pc = "pre"
    /\ run[w].next <= PreHooks
    /\ RunGoes(w, "waiting", run[w].next, run[w].mem)
    /\ tokens' = IF run[w].next \in TwoWayPre
                 THEN tokens \union {<<run[w].req, run[w].next>>}
                 ELSE tokens
    /\ UNCHANGED <<db, identity, handler, queue, jobs, firing, bounds, history>>

\* The identities a hook's answer may add: a one-way hook's answer is not read.
Derived(k, twoWay) == IF k \in twoWay THEN SUBSET IdKeys ELSE {{}}

PreHookProceeds(w) ==
    LET r == run[w].req
        k == run[w].next
    IN
    /\ run[w].pc = "waiting"
    /\ \E ids \in Derived(k, TwoWayPre) : CacheIdentity(r, ids)
    /\ RunGoes(w, "pre", k + 1, run[w].mem)
    /\ released' = [released EXCEPT ![r] = @ \union {k}]
    /\ UNCHANGED <<db, tokens, handler, queue, jobs, firing, bounds, did, approvals>>

\* Mutant of PreHookHalts: pauses without scheduling the expiry.
PreHookHaltsForGood(w) ==
    LET r == run[w].req IN
    /\ run[w].pc = "waiting"
    /\ run[w].next \in TwoWayPre
    /\ \E ids \in SUBSET IdKeys : CacheIdentity(r, ids)
    /\ WriteStatus(r, run[w].seen, "paused")
    /\ Return(w)
    /\ UNCHANGED <<stamps, rules, tokens, handler, queue, jobs, firing, bounds,
                   history>>

\* The hook answers "halt": the paused status is committed first...
PreHookHalts(w) ==
    LET r == run[w].req IN
    /\ run[w].pc = "waiting"
    /\ run[w].next \in TwoWayPre
    /\ \E ids \in SUBSET IdKeys : CacheIdentity(r, ids)
    /\ WriteStatus(r, run[w].seen, "paused")
    /\ RunGoes(w, "followup", run[w].next, run[w].mem)
    /\ UNCHANGED <<stamps, rules, tokens, handler, queue, jobs, firing, bounds,
                   history>>

\* ... and the expiry job is scheduled next, replacing one with the same id.
InitiateFollowup(w) ==
    /\ run[w].pc = "followup"
    /\ jobs' = jobs \union {run[w].req}
    /\ Return(w)
    /\ UNCHANGED <<db, identity, tokens, handler, queue, firing, bounds, history>>

\* A hook refuses, cannot be reached or answers nonsense.
ErrorProcessing(w) ==
    /\ WriteStatus(run[w].req, run[w].seen, "error")
    /\ Stamp(run[w].req, "finished")
    /\ Return(w)
    /\ UNCHANGED <<rules, identity, tokens, handler, queue, jobs, firing,
                   bounds, history>>

\* Mutant of PreHookFails: stops without writing the error.
PreHookFailsSilently(w) ==
    /\ run[w].pc = "waiting"
    /\ Return(w)
    /\ UNCHANGED <<db, identity, tokens, handler, queue, jobs, firing, bounds, history>>

PreHookFails(w) == run[w].pc = "waiting" /\ ErrorProcessing(w)

\* An exception the runner does not catch (a timeout of the HTTP call, a body
\* that is not JSON) ends the run and leaves the row as it is.
HookRaises(w) ==
    /\ UncaughtFaults
    /\ \/ run[w].pc = "waiting"
       \/ run[w].pc = "post" /\ run[w].next <= PostHooks
    /\ Return(w)
    /\ UNCHANGED <<db, identity, tokens, handler, queue, jobs, firing, bounds, history>>

\* A policy without rules: MisconfiguredPolicyException, not caught either.
Misconfigured(w) ==
    /\ run[w].pc = "pre"
    /\ run[w].next > PreHooks
    /\ rules[run[w].req] = {}
    /\ Return(w)
    /\ UNCHANGED <<db, identity, tokens, handler, queue, jobs, firing, bounds, history>>

Effect(r, e) == did' = [did EXCEPT ![r] = @ \union {e}]

BeginExecution(w) ==
    /\ run[w].pc = "pre"
    /\ run[w].next > PreHooks
    /\ rules[run[w].req] # {}
    /\ Enter(w, "access")
    /\ UNCHANGED <<db, identity, tokens, handler, queue, jobs, firing, bounds, history>>

\* run_access_request needs an identity to seed the traversal with.
Access(w) ==
    LET r == run[w].req IN
    /\ run[w].pc = "access"
    /\ identity[r] # {}
    /\ Effect(r, "access")
    /\ Enter(w, IF "access" \in rules[r] THEN "upload" ELSE "erase")
    /\ UNCHANGED <<db, identity, tokens, handler, queue, jobs, firing, bounds,
                   released, approvals>>

AfterUpload(r) == IF "erasure" \in rules[r] THEN "erase" ELSE "post"

Upload(w) ==
    LET r == run[w].req IN
    /\ run[w].pc = "upload"
    /\ Effect(r, "upload")
    /\ Enter(w, AfterUpload(r))
    /\ UNCHANGED <<db, identity, tokens, handler, queue, jobs, firing, bounds,
                   released, approvals>>

\* Mutant of UploadFails: logs the error and forgets it.
UploadFailsQuietly(w) ==
    /\ run[w].pc = "upload"
    /\ RunGoes(w, AfterUpload(run[w].req), 1, run[w].mem)
    /\ UNCHANGED <<db, identity, tokens, handler, queue, jobs, firing, bounds, history>>

\* A failed upload marks the object in memory and the erasure still runs.
UploadFails(w) ==
    /\ run[w].pc = "upload"
    /\ RunGoes(w, AfterUpload(run[w].req), 1, "error")
    /\ UNCHANGED <<db, identity, tokens, handler, queue, jobs, firing, bounds, history>>

Erase(w) ==
    LET r == run[w].req IN
    /\ run[w].pc = "erase"
    /\ Effect(r, "erasure")
    /\ Enter(w, "post")
    /\ UNCHANGED <<db, identity, tokens, handler, queue, jobs, firing, bounds,
                   released, approvals>>

\* Any other exception of the execution: the error is only in memory so far,
\* and the post-execution hooks are called all the same.
ExecutionFails(w) ==
    /\ run[w].pc \in {"access", "upload", "erase"}
    /\ RunGoes(w, "post", 1, "error")
    /\ UNCHANGED <<db, identity, tokens, handler, queue, jobs, firing, bounds, history>>

PostHookProceeds(w) ==
    LET k == run[w].next IN
    /\ run[w].pc = "post"
    /\ k <= PostHooks
    /\ \E ids \in Derived(k, TwoWayPost) : CacheIdentity(run[w].req, ids)
    /\ RunGoes(w, "post", k + 1, run[w].mem)
    /\ UNCHANGED <<db, tokens, handler, queue, jobs, firing, bounds, history>>

PostHookFails(w) ==
    /\ run[w].pc = "post"
    /\ run[w].next <= PostHooks
    /\ ErrorProcessing(w)

Finish(w) ==
    LET r == run[w].req IN
    /\ run[w].pc = "post"
    /\ run[w].next > PostHooks
    /\ Stamp(r, "finished")
    /\ WriteStatus(r, run[w].seen,
                   IF run[w].mem = "error" THEN "error" ELSE "complete")
    /\ Return(w)
    /\ UNCHANGED <<rules, identity, tokens, handler, queue, jobs, firing,
                   bounds, history>>

-----------------------------------------------------------------------------
\* mark_paused_privacy_request_as_expired, on a thread of the scheduler

\* Mutant of FireJob: looks for the wrong status.
FireJobOnPending(r) ==
    /\ r \in jobs
    /\ jobs' = jobs \ {r}
    /\ firing' = IF status[r] = "pending" THEN firing \union {r} ELSE firing
    /\ UNCHANGED <<db, identity, tokens, handler, queue, run, bounds, history>>

FireJob(r) ==
    /\ r \in jobs
    /\ jobs' = jobs \ {r}
    /\ firing' = IF status[r] = "paused" THEN firing \union {r} ELSE firing
    /\ UNCHANGED <<db, identity, tokens, handler, queue, run, bounds, history>>

Expire(r) ==
    /\ r \in firing
    /\ firing' = firing \ {r}
    /\ WriteStatus(r, "paused", "error")
    /\ Stamp(r, "finished")
    /\ UNCHANGED <<rules, identity, tokens, handler, queue, run, jobs, bounds,
                   history>>

-----------------------------------------------------------------------------
\* Time and the environment

IdentityExpires(r, i) ==
    /\ i \in identity[r]
    /\ identity' = [identity EXCEPT ![r] = @ \ {i}]
    /\ UNCHANGED <<db, tokens, memory, bounds, history>>

TokenExpires(r, k) ==
    /\ <<r, k>> \in tokens
    /\ tokens' = tokens \ {<<r, k>>}
    /\ UNCHANGED <<db, identity, memory, bounds, history>>

\* The server restarts. Threads, the executor's queue and the scheduler's jobs
\* are in memory only; the database and redis stay.
Crash ==
    /\ crashes < MaxCrashes
    /\ crashes' = crashes + 1
    /\ handler' = [h \in Handlers |-> IdleHandler]
    /\ queue' = << >>
    /\ run' = [w \in Workers |-> IdleRun]
    /\ jobs' = {}
    /\ firing' = {}
    /\ UNCHANGED <<db, identity, tokens, calls, history>>

-----------------------------------------------------------------------------
HandlerStep(h) ==
    \/ CreateCaches(h) \/ CreateFails(h)
    \/ Approve(h) \/ Deny(h) \/ ResumeWrite(h) \/ Submit(h)

WorkerStep(w) ==
    \/ Start(w)
    \/ CallPreHook(w) \/ PreHookProceeds(w) \/ PreHookHalts(w)
    \/ InitiateFollowup(w) \/ PreHookFails(w) \/ HookRaises(w)
    \/ Misconfigured(w) \/ BeginExecution(w)
    \/ Access(w) \/ Upload(w) \/ UploadFails(w) \/ Erase(w) \/ ExecutionFails(w)
    \/ PostHookProceeds(w) \/ PostHookFails(w) \/ Finish(w)

Next ==
    \/ \E h \in Handlers :
          \/ HandlerStep(h)
          \/ \E r \in Requests :
                \/ CreateRow(h, r)
                \/ ReviewRead(h, r)
                \/ \E k \in 1 .. PreHooks : ResumeRead(h, r, k)
    \/ \E w \in Workers : WorkerStep(w)
    \/ \E r \in Requests :
          \/ FireJob(r)
          \/ Expire(r)
          \/ \E i \in IdKeys : IdentityExpires(r, i)
          \/ \E k \in 1 .. PreHooks : TokenExpires(r, k)
    \/ Crash

Spec == Init /\ [][Next]_vars

\* A thread that has something to do goes on doing it: the operating system
\* schedules handlers, executor threads and the scheduler, and a date trigger
\* fires. Clients, hooks' choices and restarts are not fair.
Fairness ==
    /\ \A h \in Handlers : WF_vars(HandlerStep(h))
    /\ \A w \in Workers : WF_vars(WorkerStep(w))
    /\ \A r \in Requests : WF_vars(FireJob(r)) /\ WF_vars(Expire(r))

FairSpec == Spec /\ Fairness
-----------------------------------------------------------------------------
\* Properties

Executing(w) == run[w].pc \in {"access", "upload", "erase", "post"}

\* Personal data is read, uploaded or erased only after every pre-execution
\* webhook has let the request go on, by answering without "halt" or by calling
\* back with its own token: whatever mixture of resumes, stale tokens, second
\* runs and restarts led there (run_webhooks_and_report_status).
HooksReleaseExecution ==
    \A w \in Workers :
        Executing(w) => released[run[w].req] = 1 .. PreHooks

\* A request that reads "complete" had its data accessed, its access package
\* uploaded if a rule asks for it, and its data erased if a rule asks for it,
\* even when several runs of it overlapped and some of them failed (run).
CompleteMeansDone ==
    \A r \in Requests :
        status[r] = "complete" =>
            /\ "access" \in did[r]
            /\ "access" \in rules[r] => "upload" \in did[r]
            /\ "erasure" \in rules[r] => "erasure" \in did[r]

\* A status that ends the request comes with the time processing finished, in
\* the same commit (error_processing, run).
EndedMeansFinished ==
    \A r \in Requests :
        status[r] \in {"complete", "error"} => "finished" \in stamps[r]

\* With manual approval required, no data is touched, and no webhook called,
\* for a request whose approval was not committed before
\* (approve_privacy_request, create_privacy_request).
ApprovedBeforeRun ==
    RequireManualApproval =>
        \A w \in Workers : Busy(w) => run[w].req \in approvals

\* A paused request has an expiry job coming, unless a restart forgot it: the
\* job is scheduled, executing, or about to be scheduled by the run that paused
\* the request (initiate_paused_privacy_request_followup).
PausedHasFollowup ==
    crashes = 0 =>
        \A r \in Requests :
            status[r] = "paused" =>
                \/ r \in jobs \union firing
                \/ \E w \in Workers : run[w].pc = "followup" /\ run[w].req = r

\* Work on one request: runs in progress and queued. A run that only has its
\* expiry job left to schedule does no more work.
InFlight(r) ==
    Cardinality({w \in Workers : /\ Busy(w)
                                 /\ run[w].pc # "followup"
                                 /\ run[w].req = r})
    + Cardinality({i \in 1 .. Len(queue) : queue[i][1] = r})

\* At most one run of a request is in progress or queued: the hooks, uploads
\* and erasures of one request never overlap. It holds when approvals are
\* required and API calls are served one at a time.
SingleFlight == \A r \in Requests : InFlight(r) <= 1

\* A denied request stays denied (deny_privacy_request).
DeniedIsFinal ==
    [][\A r \in Requests : status[r] = "denied" => status'[r] = "denied"]_vars

\* Nothing but an expiry job that read "paused" before the request was resumed
\* takes a completed request out of "complete".
CompleteUndoneOnlyByExpiry ==
    [][\A r \in Requests :
          status[r] = "complete" /\ status'[r] # "complete" => r \in firing]_vars

\* A paused request is resumed or expires.
PausedResolves ==
    \A r \in Requests : status[r] = "paused" ~> status[r] # "paused"

Dispatched(r) ==
    \/ \E w \in Workers : Busy(w) /\ run[w].req = r
    \/ \E i \in 1 .. Len(queue) : queue[i][1] = r

\* A request handed to the executor is not left "pending", "approved" or
\* "in_processing": in the end its row says that it is paused, ended or denied
\* (run_webhooks_and_report_status, run).
DispatchedSettles ==
    \A r \in Requests :
        Dispatched(r) ~> status[r] \in {"paused", "complete", "error", "denied"}
=============================================================================
