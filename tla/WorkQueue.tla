----------------------------- MODULE WorkQueue ------------------------------
(***************************************************************************)
(* The durable work queue: `work_items`, `worker_jobs`, the outbox rows    *)
(* they produce, and everyone who writes them.                             *)
(*                                                                         *)
(*   - the server creates items and their jobs, cancels items, completes   *)
(*     chat items and records delivery decisions;                          *)
(*   - each executor process is a serial loop: boot recovery, claim a job, *)
(*     run it in a sandbox container, map its exit onto the job bus;       *)
(*   - the sandbox child runs the job body through store RPC calls, every  *)
(*     one of which is a separate step here.                               *)
(*                                                                         *)
(* Supervisor and child of one executor share a program counter: the       *)
(* supervisor awaits the child, and its timers (renewal, kill) are actions *)
(* of their own.  Clock comparisons are abstracted to flags: lease_until   *)
(* is NULL, in the future or in the past; updated_at is or is not older    *)
(* than the TTL that is compared with it.  An item's job has the item's    *)
(* id, as in the code.                                                     *)
(***************************************************************************)
EXTENDS WorkItemRules, Naturals, Sequences

CONSTANTS PlainJobs,    \* kb, scheduled and ingest_poll jobs: no work item
          Executors,    \* executor processes (one container in the compose file)
          NoJob,        \* "no job in hand"
          MaxAttempts,  \* cfg.maxJobAttempts
          MaxCrashes,   \* bound on process crashes
          Hazards       \* which failures the environment may inject

HazardKinds == {"executor_dies", "server_dies", "sandbox_dies",
                "store_faults", "lease_lapses", "queue_ages",
                "items_idle", "token_missing", "empty_summary"}

WorkerItems == GitItems \cup ExtItems
Jobs == WorkerItems \cup PlainJobs

ASSUME QueueAssumption ==
    /\ PlainJobs \cap Items = {}
    /\ NoJob \notin Jobs
    /\ MaxAttempts \in Nat \ {0}
    /\ MaxCrashes \in Nat
    /\ Hazards \subseteq HazardKinds

VARIABLES
    state,      \* work_items.state, "none" when there is no row
    evidence,   \* items whose evidence column holds an entry
    approvals,  \* items whose approvals column holds an entry
    result,     \* the non-blank fields of work_items.result
    idle,       \* items whose updated_at is older than the stale window
    status,     \* worker_jobs.status, "none" when there is no row
    attempts,   \* worker_jobs.attempts, saturating at MaxAttempts
    lease,      \* worker_jobs.lease_until: "null", "future" or "past"
    aged,       \* queued jobs whose updated_at is older than the unclaimed TTL
    created,    \* worker_jobs in created_at order
    outbox,     \* ids of the outbox rows written
    audit,      \* the audit facts the properties speak of
    decision,   \* the first delivery.resolved row of a git item
    pc,         \* per executor: where the loop, or the sandbox child, stands
    at,         \* per executor: the claimed job
    tries,      \* per executor: attempts on the claimed envelope
    exit,       \* per executor: exit code of the sandbox child
    lost,       \* per executor: lease renewal failed, the child is being killed
    loud,       \* per executor: unstickWorkItem runs for the supervisor
    post,       \* per executor: outbox rows of the write in progress
    cancelling, \* per item: the state work_item_cancel read, or "none"
    chat,       \* per chat item: where complete_work_item stands, or "none"
    crashes,    \* process crashes so far
    faulted     \* rejected store calls that leave an item without its repair,
                \* its start or its notification (history)

rowVars  == <<state, evidence, approvals, result, idle>>
jobVars  == <<status, attempts, lease, aged, created>>
execVars == <<at, tries, exit, lost, loud>>
toolVars == <<cancelling, chat>>
faultVars == <<crashes, faulted>>
vars == <<rowVars, jobVars, execVars, toolVars,
          outbox, audit, decision, pc, post, faultVars>>

RowIds == ({"job"} \X Jobs) \cup ({"blocked", "review"} \X Items)
AuditFacts == {"job_failed", "sandbox_crash", "job_unclaimed",
               "delivery_pending", "item_failed"} \X (Items \cup Jobs)
FaultFacts == {"start", "repair", "notice"} \X Items

(* pcs of the sandbox child's body, in the order of the code *)
WorkPcs  == {"got", "working", "awaiting", "approved", "reviewed", "blocking"}
UnstickPcs == {"unstickRead", "unstickStart", "unstickBlock"}
BodyPcs  == {"start", "completing", "reporting", "failSelf"} \cup WorkPcs
BootPcs  == {"recoverClaimed", "markClaimed", "recoverWorking", "markWorking",
             "bootSweep"}
Pcs == BodyPcs \cup UnstickPcs \cup BootPcs
       \cup {"down", "idle", "launch", "exited", "retry", "failLoud"}

TypeOK ==
    /\ state \in [Items -> States]
    /\ evidence \subseteq Items
    /\ approvals \subseteq Items
    /\ result \in [Items -> SUBSET ResultFields]
    /\ idle \subseteq Items
    /\ status \in [Jobs -> {"none", "queued", "running", "completed", "failed"}]
    /\ attempts \in [Jobs -> 0..MaxAttempts]
    /\ lease \in [Jobs -> {"null", "future", "past"}]
    /\ aged \subseteq Jobs
    /\ created \in Seq(Jobs)
    /\ outbox \subseteq RowIds
    /\ audit \subseteq AuditFacts
    /\ decision \in [GitItems -> {"none", "approved", "denied"}]
    /\ pc \in [Executors -> Pcs]
    /\ at \in [Executors -> Jobs \cup {NoJob}]
    /\ tries \in [Executors -> 0..MaxAttempts]
    /\ exit \in [Executors -> {0, 2, 3}]
    /\ lost \in [Executors -> BOOLEAN]
    /\ loud \in [Executors -> BOOLEAN]
    /\ post \in [Executors -> SUBSET RowIds]
    /\ cancelling \in [Items -> States]
    /\ chat \in [ChatItems -> {"none", "open", "claimed", "working"}]
    /\ crashes \in 0..MaxCrashes
    /\ faulted \subseteq FaultFacts

Init ==
    /\ state = [i \in Items |-> "none"]
    /\ evidence = {} /\ approvals = {} /\ idle = {}
    /\ result = [i \in Items |-> {}]
    /\ status = [j \in Jobs |-> "none"]
    /\ attempts = [j \in Jobs |-> 0]
    /\ lease = [j \in Jobs |-> "null"]
    /\ aged = {} /\ created = <<>>
    /\ outbox = {} /\ audit = {}
    /\ decision = [i \in GitItems |-> "none"]
    /\ pc = [e \in Executors |-> "down"]
    /\ at = [e \in Executors |-> NoJob]
    /\ tries = [e \in Executors |-> 0]
    /\ exit = [e \in Executors |-> 0]
    /\ lost = [e \in Executors |-> FALSE]
    /\ loud = [e \in Executors |-> FALSE]
    /\ post = [e \in Executors |-> {}]
    /\ cancelling = [i \in Items |-> "none"]
    /\ chat = [i \in ChatItems |-> "none"]
    /\ crashes = 0 /\ faulted = {}
-----------------------------------------------------------------------------
(* Rows of work_items *)

NoOpts       == [evidence |-> FALSE, approval |-> FALSE, result |-> {}]
WithEvidence == [NoOpts EXCEPT !.evidence = TRUE]
WithResult(fields) == [NoOpts EXCEPT !.result = fields]
WithApproval(fields) == [evidence |-> TRUE, approval |-> TRUE, result |-> fields]

(* MUTANT: the UPDATE of transitionWorkItem without "AND state = ?". *)
CanTransitionUnguarded(i, from, to, opts) ==
    state[i] # "none" /\ Legal(i, from, to, opts)

(* transitionWorkItem's guarded UPDATE matches, or the call throws:        *)
(* legality is judged on the caller's `from`, the row's state by the       *)
(* UPDATE.  The audit row and the notification come after the UPDATE and   *)
(* outside its transaction; when the store rejects one of them the call    *)
(* throws with the row written (NoticeRejected, StartTorn, DoneTorn and    *)
(* UnstickFails below).                                                    *)
CanTransition(i, from, to, opts) ==
    state[i] = from /\ Legal(i, from, to, opts)

(* The columns transitionWorkItem writes. *)
WriteItem(i, to, opts) ==
    /\ state' = [state EXCEPT ![i] = to]
    /\ idle' = idle \ {i}
    /\ evidence' = IF opts.evidence THEN evidence \cup {i} ELSE evidence
    /\ approvals' = IF opts.approval THEN approvals \cup {i} ELSE approvals
    /\ result' = IF opts.result = {} THEN result
                 ELSE [result EXCEPT ![i] = opts.result]

(* The outbox row of a blocked or review landing, written right after the  *)
(* UPDATE by the same process.                                             *)
Notification(i, to) == IF to \in {"blocked", "review"} THEN {<<to, i>>} ELSE {}
-----------------------------------------------------------------------------
(* The server *)

(* createWorkItem: the item and, for git and extension deliveries, the job *)
(* with the same id.                                                       *)
CreateWorkItem(i) ==
    /\ state[i] = "none"
    /\ state' = [state EXCEPT ![i] = "open"]
    /\ IF i \in WorkerItems
       THEN /\ status' = [status EXCEPT ![i] = "queued"]
            /\ created' = Append(created, i)
       ELSE UNCHANGED <<status, created>>
    /\ UNCHANGED <<evidence, approvals, result, idle, attempts, lease, aged,
                   execVars, toolVars, outbox, audit, decision, pc, post,
                   faultVars>>

(* The server dies between the INSERT of the item and enqueueJob. *)
CreateWorkItemTorn(i) ==
    /\ "server_dies" \in Hazards /\ crashes < MaxCrashes
    /\ i \in WorkerItems /\ state[i] = "none"
    /\ state' = [state EXCEPT ![i] = "open"]
    /\ crashes' = crashes + 1
    /\ cancelling' = [k \in Items |-> "none"]
    /\ chat' = [k \in ChatItems |-> "none"]
    /\ UNCHANGED <<evidence, approvals, result, idle, jobVars, execVars,
                   outbox, audit, decision, pc, post, faulted>>

(* enqueueJob for a kb, scheduled or ingest_poll envelope: a duplicate id  *)
(* is a no-op (ON CONFLICT DO NOTHING).                                    *)
EnqueueJob(j) ==
    /\ j \in PlainJobs /\ status[j] = "none"
    /\ status' = [status EXCEPT ![j] = "queued"]
    /\ created' = Append(created, j)
    /\ UNCHANGED <<rowVars, attempts, lease, aged, execVars, toolVars, outbox,
                   audit, decision, pc, post, faultVars>>

(* work_item_cancel: the item is read, the policy loaded, and only then is *)
(* the transition from the state that was read attempted.                  *)
CancelRead(i) ==
    /\ cancelling[i] = "none" /\ state[i] \notin Settled \cup {"none"}
    /\ cancelling' = [cancelling EXCEPT ![i] = state[i]]
    /\ UNCHANGED <<rowVars, jobVars, execVars, chat, outbox, audit, decision,
                   pc, post, faultVars>>

CancelApply(i) ==
    /\ cancelling[i] # "none"
    /\ cancelling' = [cancelling EXCEPT ![i] = "none"]
    /\ \/ /\ CanTransition(i, cancelling[i], "aborted", NoOpts)
          /\ WriteItem(i, "aborted", NoOpts)
       \/ /\ \/ ~CanTransition(i, cancelling[i], "aborted", NoOpts)
             \/ "store_faults" \in Hazards
          /\ UNCHANGED rowVars
    /\ UNCHANGED <<jobVars, execVars, chat, outbox, audit, decision, pc, post,
                   faultVars>>

(* complete_work_item on a chat item: read, then up to three transitions.  *)
(* A rejected store call ends it, before a transition's UPDATE or after.   *)
ChatRead(i) ==
    /\ chat[i] = "none" /\ state[i] \in {"open", "claimed", "working"}
    /\ chat' = [chat EXCEPT ![i] = state[i]]
    /\ UNCHANGED <<rowVars, jobVars, execVars, cancelling, outbox, audit,
                   decision, pc, post, faultVars>>

ChatNext(from) == CASE from = "open"    -> "claimed"
                    [] from = "claimed" -> "working"
                    [] from = "working" -> "done"

ChatStep(i) ==
    LET from == chat[i]
        to   == ChatNext(from)
        opts == IF to = "done" THEN WithResult({"summary"}) ELSE NoOpts
    IN  /\ from # "none"
        /\ \/ /\ CanTransition(i, from, to, opts)
              /\ WriteItem(i, to, opts)
              /\ \E rest \in {to} \cup (IF "store_faults" \in Hazards
                                      THEN {"none"} ELSE {}) :
                    chat' = [chat EXCEPT ![i] =
                                IF to = "done" THEN "none" ELSE rest]
           \/ /\ \/ ~CanTransition(i, from, to, opts)
                 \/ "store_faults" \in Hazards
              /\ chat' = [chat EXCEPT ![i] = "none"] /\ UNCHANGED rowVars
        /\ UNCHANGED <<jobVars, execVars, cancelling, outbox, audit, decision,
                       pc, post, faultVars>>

(* The delivery router records the first decision of the space on a        *)
(* delivery that has been announced.                                       *)
ResolveDelivery(i, d) ==
    /\ <<"delivery_pending", i>> \in audit /\ decision[i] = "none"
    /\ decision' = [decision EXCEPT ![i] = d]
    /\ UNCHANGED <<rowVars, jobVars, execVars, toolVars, outbox, audit, pc,
                   post, faultVars>>

(* The server restarts: tool calls in flight are gone. *)
ServerCrash ==
    /\ "server_dies" \in Hazards /\ crashes < MaxCrashes
    /\ crashes' = crashes + 1
    /\ cancelling' = [i \in Items |-> "none"]
    /\ chat' = [i \in ChatItems |-> "none"]
    /\ UNCHANGED <<rowVars, jobVars, execVars, outbox, audit, decision, pc,
                   post, faulted>>

ServerNext ==
    \/ \E i \in Items : CreateWorkItem(i) \/ CreateWorkItemTorn(i)
                        \/ CancelRead(i) \/ CancelApply(i)
    \/ \E j \in Jobs : EnqueueJob(j)
    \/ \E i \in ChatItems : ChatRead(i) \/ ChatStep(i)
    \/ \E i \in GitItems, d \in {"approved", "denied"} : ResolveDelivery(i, d)
    \/ ServerCrash
-----------------------------------------------------------------------------
(* worker_jobs: the guarded UPDATEs of the job bus *)

(* claimNextJob's WHERE clause: queued and past its backoff gate, or       *)
(* running under an expired lease.                                         *)
Claimable(j) ==
    \/ status[j] = "queued" /\ lease[j] # "future"
    \/ status[j] = "running" /\ lease[j] = "past"

(* The oldest claimable job. *)
NextJob(j) ==
    \E n \in 1..Len(created) :
        /\ created[n] = j /\ Claimable(j)
        /\ \A m \in 1..(n - 1) : ~Claimable(created[m])

(* claimNextJob: the lease, one more attempt, a fresh updated_at. *)
ClaimRow(j) ==
    /\ status' = [status EXCEPT ![j] = "running"]
    /\ lease' = [lease EXCEPT ![j] = "future"]
    /\ attempts' = [attempts EXCEPT ![j] =
                       IF attempts[j] < MaxAttempts THEN attempts[j] + 1
                                                    ELSE MaxAttempts]
    /\ aged' = aged \ {j}
    /\ UNCHANGED created

(* requeueJob: only a running job, behind its backoff gate. *)
RequeueRow(j) ==
    IF status[j] = "running"
    THEN /\ status' = [status EXCEPT ![j] = "queued"]
         /\ lease' = [lease EXCEPT ![j] = "future"]
         /\ aged' = aged \ {j}
         /\ UNCHANGED <<attempts, created>>
    ELSE UNCHANGED jobVars

(* completeJob: only a running job; the caller ignores the outcome. *)
CompleteRow(j) ==
    IF status[j] = "running"
    THEN /\ status' = [status EXCEPT ![j] = "completed"]
         /\ lease' = [lease EXCEPT ![j] = "null"]
         /\ UNCHANGED <<attempts, aged, created>>
    ELSE UNCHANGED jobVars

(* failJob: a queued or running job; terminal jobs stay terminal. *)
FailRow(j) ==
    IF status[j] \in {"queued", "running"}
    THEN /\ status' = [status EXCEPT ![j] = "failed"]
         /\ lease' = [lease EXCEPT ![j] = "null"]
         /\ UNCHANGED <<attempts, aged, created>>
    ELSE UNCHANGED jobVars

(* markUnclaimedJobs, with the job.unclaimed audit row of                  *)
(* sweepUnclaimedJobs: every job queued past the TTL fails.                *)
Sweepable == {j \in aged : status[j] = "queued" /\ lease[j] # "future"}

SweepRows ==
    /\ status' = [j \in Jobs |-> IF j \in Sweepable THEN "failed" ELSE status[j]]
    /\ lease' = [j \in Jobs |-> IF j \in Sweepable THEN "null" ELSE lease[j]]
    /\ aged' = aged \ Sweepable
    /\ audit' = audit \cup ({"job_unclaimed"} \X Sweepable)
    /\ UNCHANGED <<attempts, created>>
-----------------------------------------------------------------------------
(* An executor process: boot and claim loop *)

(* The process is between two synchronous store writes of one call. *)
Writing(e) == post[e] # {}

Goto(e, label) == pc' = [pc EXCEPT ![e] = label]

(* The job is out of the process's hands: its locals are gone. *)
Release(e) ==
    /\ at' = [at EXCEPT ![e] = NoJob]
    /\ tries' = [tries EXCEPT ![e] = 0]
    /\ exit' = [exit EXCEPT ![e] = 0]
    /\ lost' = [lost EXCEPT ![e] = FALSE]
    /\ loud' = [loud EXCEPT ![e] = FALSE]

(* The items that unstickWorkItem is for. *)
Unsettled == {i \in Items : state[i] \in {"claimed", "working"}}

(* The store may reject the next call of the process. *)
Faulty(e) == "store_faults" \in Hazards /\ ~Writing(e)

(* The outbox row that follows a landing's UPDATE is written.  That it may *)
(* be rejected instead is NoticeRejected, below.                           *)
FinishWrite(e) ==
    /\ Writing(e) /\ pc[e] \notin {"markClaimed", "markWorking"}
    /\ \E row \in post[e] :
          /\ outbox' = outbox \cup {row}
          /\ post' = [post EXCEPT ![e] = @ \ {row}]
    /\ UNCHANGED <<rowVars, jobVars, execVars, toolVars, audit, decision, pc,
                   faultVars>>

(* The container (re)starts; prepareExecutor begins with the stale-run     *)
(* recovery.                                                               *)
Boot(e) ==
    /\ pc[e] = "down" /\ Goto(e, "recoverClaimed")
    /\ UNCHANGED <<rowVars, jobVars, execVars, toolVars, outbox, audit,
                   decision, post, faultVars>>

(* markStaleWorkItems, the SELECT: the stale rows of one state. *)
StaleIn(from) == {i \in idle : state[i] = from}

RecoverSelect(e, label, from, mark) ==
    /\ pc[e] = label /\ ~Writing(e) /\ Goto(e, mark)
    /\ post' = [post EXCEPT ![e] = {"blocked"} \X StaleIn(from)]
    /\ UNCHANGED <<rowVars, jobVars, execVars, toolVars, outbox, audit,
                   decision, faultVars>>

(* MUTANT: the UPDATE computes its cutoff afresh, so that it may take a row *)
(* the SELECT missed.                                                      *)
RecoverMarkAll(e, label, from, next) ==
    LET marked == StaleIn(from)
    IN
    /\ pc[e] = label /\ Goto(e, next)
    /\ state' = [i \in Items |-> IF i \in marked THEN "blocked" ELSE state[i]]
    /\ evidence' = evidence \cup marked
    /\ idle' = idle \ marked
    /\ UNCHANGED <<approvals, result, jobVars, execVars, toolVars, outbox,
                   audit, decision, post, faultVars>>

(* markStaleWorkItems, the UPDATE: guarded by state and the same cutoff    *)
(* again (a row it takes was stale at the SELECT), but the notifications   *)
(* that follow are the ones of the SELECT.                                 *)
RecoverMark(e, label, from, next) ==
    LET marked == {i \in StaleIn(from) : <<"blocked", i>> \in post[e]}
    IN
    /\ pc[e] = label /\ Goto(e, next)
    /\ state' = [i \in Items |-> IF i \in marked THEN "blocked" ELSE state[i]]
    /\ evidence' = evidence \cup marked
    /\ idle' = idle \ marked
    /\ UNCHANGED <<approvals, result, jobVars, execVars, toolVars, outbox,
                   audit, decision, post, faultVars>>

BootSweep(e) ==
    /\ pc[e] = "bootSweep" /\ ~Writing(e) /\ Goto(e, "idle")
    /\ SweepRows
    /\ UNCHANGED <<rowVars, execVars, toolVars, outbox, decision, post, faultVars>>

(* The periodic sweep of the claim loop, between two jobs. *)
SweepUnclaimedJobs(e) ==
    /\ pc[e] = "idle" /\ ~Writing(e) /\ Sweepable # {}
    /\ SweepRows
    /\ UNCHANGED <<rowVars, execVars, toolVars, outbox, decision, pc, post,
                   faultVars>>

ClaimNextJob(e) ==
    /\ pc[e] = "idle" /\ ~Writing(e)
    /\ \E j \in Jobs :
          /\ NextJob(j) /\ ClaimRow(j)
          /\ at' = [at EXCEPT ![e] = j]
          /\ tries' = [tries EXCEPT ![e] = attempts'[j]]
    /\ Goto(e, "launch")
    /\ UNCHANGED <<rowVars, exit, lost, loud, toolVars, outbox, audit, decision, post,
                   faultVars>>

(* runJob and the launch of the container. *)
Launch(e) ==
    /\ pc[e] = "launch" /\ Goto(e, "start")
    /\ UNCHANGED <<rowVars, jobVars, execVars, toolVars, outbox, audit,
                   decision, post, faultVars>>

(* runJob throws before the sandbox: a git job without its token file. *)
LaunchRefused(e) ==
    /\ "token_missing" \in Hazards
    /\ pc[e] = "launch" /\ at[e] \in GitItems /\ Goto(e, "retry")
    /\ UNCHANGED <<rowVars, jobVars, execVars, toolVars, outbox, audit,
                   decision, post, faultVars>>

(* MUTANT: a requeue without the bound. *)
RetryForever(e) ==
    /\ pc[e] = "retry" /\ Goto(e, "idle") /\ RequeueRow(at[e])
    /\ audit' = audit \cup {<<"job_failed", at[e]>>}
    /\ Release(e)
    /\ UNCHANGED <<rowVars, toolVars, outbox, decision, post, faultVars>>

(* processJob's catch: bounded requeue with backoff, then job.failed.  The *)
(* work item is left as it is.                                             *)
Retry(e) ==
    /\ pc[e] = "retry" /\ Goto(e, "idle")
    /\ IF tries[e] >= MaxAttempts THEN FailRow(at[e]) ELSE RequeueRow(at[e])
    /\ audit' = audit \cup {<<"job_failed", at[e]>>}
    /\ Release(e)
    /\ UNCHANGED <<rowVars, toolVars, outbox, decision, post, faultVars>>

(* runJobInSandbox reads the exit contract: 0 and 2 are self-reported, 3   *)
(* asks for a requeue.                                                     *)
Reap(e) ==
    /\ pc[e] = "exited" /\ ~Writing(e)
    /\ IF exit[e] = 3
       THEN Goto(e, "retry") /\ UNCHANGED execVars
       ELSE Goto(e, "idle") /\ Release(e)
    /\ UNCHANGED <<rowVars, jobVars, toolVars, outbox, audit, decision, post,
                   faultVars>>

(* ... but a fired timeout or a bad IPC response discards a clean exit.    *)
ReapTorn(e) ==
    /\ "sandbox_dies" \in Hazards
    /\ pc[e] = "exited" /\ ~Writing(e) /\ Goto(e, "failLoud")
    /\ UNCHANGED <<rowVars, jobVars, execVars, toolVars, outbox, audit,
                   decision, post, faultVars>>

ChildRuns(e) == \/ pc[e] \in BodyPcs
                \/ pc[e] \in UnstickPcs /\ ~loud[e]

(* The renewal timer.  renewJobLease looks at the status only. *)
RenewLease(e) ==
    /\ ChildRuns(e) /\ ~Writing(e) /\ ~lost[e]
    /\ IF status[at[e]] = "running"
       THEN lease' = [lease EXCEPT ![at[e]] = "future"] /\ UNCHANGED lost
       ELSE lost' = [lost EXCEPT ![e] = TRUE] /\ UNCHANGED lease
    /\ UNCHANGED <<rowVars, status, attempts, aged, created, at, tries, exit,
                   loud, toolVars, outbox, audit, decision, pc, post, faultVars>>

(* The container is killed (timeout, lease loss) or crashes. *)
SandboxDies(e) ==
    /\ ChildRuns(e) /\ ~Writing(e)
    /\ "sandbox_dies" \in Hazards \/ lost[e]
    /\ Goto(e, "failLoud")
    /\ UNCHANGED <<rowVars, jobVars, execVars, toolVars, outbox, audit,
                   decision, post, faultVars>>

(* failLoud: fail the job, audit, then unstick the item. *)
FailLoud(e) ==
    /\ pc[e] = "failLoud"
    /\ FailRow(at[e])
    /\ audit' = audit \cup {<<"job_failed", at[e]>>, <<"sandbox_crash", at[e]>>}
    /\ \/ /\ at[e] \in Items /\ Goto(e, "unstickRead")
          /\ loud' = [loud EXCEPT ![e] = TRUE]
          /\ UNCHANGED <<at, tries, exit, lost>>
       \/ at[e] \notin Items /\ Goto(e, "idle") /\ Release(e)
    /\ UNCHANGED <<rowVars, toolVars, outbox, decision, post, faultVars>>

(* The executor process dies; its container loses the store RPC host.  A   *)
(* store call rejected in boot, in the claim's audit or in processJob's    *)
(* catch ends the process as well.                                         *)
ExecutorCrash(e) ==
    /\ "executor_dies" \in Hazards /\ crashes < MaxCrashes
    /\ pc[e] # "down" /\ Goto(e, "down")
    /\ crashes' = crashes + 1 /\ Release(e)
    /\ post' = [post EXCEPT ![e] = {}]
    /\ UNCHANGED <<rowVars, jobVars, toolVars, outbox, audit, decision, faulted>>
-----------------------------------------------------------------------------
(* The sandbox child: runJobSandboxBody, processItem, deliver *)

(* MUTANT: the claim that forgets "AND state = 'open'". *)
CanClaimItemAny(i) == state[i] \notin Settled

(* claimWorkItemById: the atomic open -> claimed UPDATE. *)
CanClaimItem(i) == state[i] = "open"

Exit(e, code) ==
    /\ Goto(e, "exited")
    /\ exit' = [exit EXCEPT ![e] = code]

(* MUTANT: every item that is not open counts as over. *)
AlreadySettledLoose(i) == state[i] # "open"

AlreadySettled(i) == state[i] \in Settled

(* The claim, or what the body does when the item is not open: a settled   *)
(* item completes the job as a no-op, any other asks for a requeue.        *)
ClaimItem(e) ==
    LET i == at[e]
    IN  /\ pc[e] = "start" /\ i \in Items /\ ~Writing(e)
        /\ \/ /\ CanClaimItem(i) /\ WriteItem(i, "claimed", NoOpts)
              /\ Goto(e, "got") /\ UNCHANGED exit
           \/ /\ ~CanClaimItem(i) /\ AlreadySettled(i)
              /\ Goto(e, "completing") /\ UNCHANGED <<rowVars, exit>>
           \/ /\ ~CanClaimItem(i) /\ ~AlreadySettled(i)
              /\ Exit(e, 3) /\ UNCHANGED rowVars
        /\ UNCHANGED <<jobVars, at, tries, lost, loud, toolVars, outbox, audit,
                       decision, post, faultVars>>

(* The body of a kb, scheduled or ingest_poll job. *)
RunPlainJob(e) ==
    /\ pc[e] = "start" /\ at[e] \in PlainJobs
    /\ Goto(e, "completing") \/ Goto(e, "failSelf")
    /\ UNCHANGED <<rowVars, jobVars, execVars, toolVars, outbox, audit,
                   decision, post, faultVars>>

(* processItem's start: claimed -> working, or the item has moved on. *)
StartItem(e) ==
    /\ pc[e] = "got" /\ ~Writing(e)
    /\ IF CanTransition(at[e], "claimed", "working", NoOpts)
       THEN WriteItem(at[e], "working", NoOpts) /\ Goto(e, "working")
       ELSE UNCHANGED rowVars /\ Goto(e, "completing")
    /\ UNCHANGED <<jobVars, execVars, toolVars, outbox, audit, decision, post,
                   faultVars>>

(* The repo gates, the workspace, the agent session or its envelope fail:  *)
(* everything processItem's catch sees while the item is being worked on.  *)
WorkFails(e) ==
    /\ pc[e] \in {"working", "approved"} /\ Goto(e, "blocking")
    /\ UNCHANGED <<rowVars, jobVars, execVars, toolVars, outbox, audit,
                   decision, post, faultVars>>

(* extensionWorkerPath: the session's envelope becomes the result; a       *)
(* result the store refuses is a work failure.                             *)
FinishExtension(e) ==
    /\ pc[e] = "working" /\ at[e] \in ExtItems /\ ~Writing(e)
    /\ \E fields \in {{"summary"}, {"url", "summary"}} :
          IF CanTransition(at[e], "working", "done", WithResult(fields))
          THEN WriteItem(at[e], "done", WithResult(fields)) /\ Goto(e, "completing")
          ELSE UNCHANGED rowVars /\ Goto(e, "blocking")
    /\ UNCHANGED <<jobVars, execVars, toolVars, outbox, audit, decision, post,
                   faultVars>>

(* deliver: branch pushed, pull request opened, approval requested. *)
RequestDelivery(e) ==
    /\ pc[e] = "working" /\ at[e] \in GitItems /\ Goto(e, "awaiting")
    /\ audit' = audit \cup {<<"delivery_pending", at[e]>>}
    /\ UNCHANGED <<rowVars, jobVars, execVars, toolVars, outbox, decision, post,
                   faultVars>>

(* MUTANT: a wait that reads its timeout as consent. *)
DeliveryApprovedByTimeout(i) == decision[i] # "denied"

DeliveryApproved(i) == decision[i] = "approved"

(* waitForDeliveryApproval: the recorded decision, or the timeout, which   *)
(* denies.  The step is the wait's last read of the trail; a decision      *)
(* recorded after it comes too late (module Delivery has the two apart).   *)
AwaitDecision(e) ==
    /\ pc[e] = "awaiting"
    /\ \/ DeliveryApproved(at[e]) /\ Goto(e, "approved")
       \/ ~DeliveryApproved(at[e]) /\ Goto(e, "blocking")
    /\ UNCHANGED <<rowVars, jobVars, execVars, toolVars, outbox, audit,
                   decision, post, faultVars>>

(* working -> review, carrying the approval and the result.  The summary   *)
(* is the agent's last message and may be empty.                           *)
ToReview(e) ==
    LET i == at[e] IN
    /\ pc[e] = "approved" /\ ~Writing(e)
    /\ \E fields \in {{"pr_url", "summary"}}
                      \cup (IF "empty_summary" \in Hazards THEN {{"pr_url"}} ELSE {}) :
          IF CanTransition(i, "working", "review", WithApproval(fields))
          THEN /\ WriteItem(i, "review", WithApproval(fields))
               /\ post' = [post EXCEPT ![e] = Notification(i, "review")]
               /\ Goto(e, "reviewed")
          ELSE UNCHANGED <<rowVars, post>> /\ Goto(e, "blocking")
    /\ UNCHANGED <<jobVars, execVars, toolVars, outbox, audit, decision, faultVars>>

(* review -> done with the same result. *)
ToDone(e) ==
    LET i == at[e] IN
    /\ pc[e] = "reviewed" /\ ~Writing(e)
    /\ \/ /\ CanTransition(i, "review", "done", WithResult(result[i]))
          /\ WriteItem(i, "done", WithResult(result[i])) /\ Goto(e, "completing")
       \/ /\ \/ ~CanTransition(i, "review", "done", WithResult(result[i]))
             \/ "store_faults" \in Hazards
          /\ UNCHANGED rowVars /\ Goto(e, "blocking")
    /\ UNCHANGED <<jobVars, execVars, toolVars, outbox, audit, decision, post,
                   faultVars>>

(* claimed -> working is written and its audit row rejected: processItem   *)
(* re-reads the item, finds that it has left `claimed`, takes it for moved *)
(* by someone else and returns, so that the job completes (unless the      *)
(* re-read is rejected as well).                                           *)
StartTorn(e) ==
    /\ Faulty(e) /\ pc[e] = "got"
    /\ CanTransition(at[e], "claimed", "working", NoOpts)
    /\ WriteItem(at[e], "working", NoOpts)
    /\ \/ /\ Goto(e, "completing")
          /\ faulted' = faulted \cup {<<"start", at[e]>>}
       \/ Goto(e, "failSelf") /\ UNCHANGED faulted
    /\ UNCHANGED <<jobVars, execVars, toolVars, outbox, audit, decision, post,
                   crashes>>

(* The move to `done` is written and the audit row after it, or the read   *)
(* that follows, rejected: a work failure of an item that is done.         *)
DoneTorn(e) ==
    /\ Faulty(e) /\ Goto(e, "blocking")
    /\ \/ /\ pc[e] = "working" /\ at[e] \in ExtItems
          /\ \E fields \in {{"summary"}, {"url", "summary"}} :
                /\ CanTransition(at[e], "working", "done", WithResult(fields))
                /\ WriteItem(at[e], "done", WithResult(fields))
       \/ /\ pc[e] = "reviewed"
          /\ CanTransition(at[e], "review", "done", WithResult(result[at[e]]))
          /\ WriteItem(at[e], "done", WithResult(result[at[e]]))
    /\ UNCHANGED <<jobVars, execVars, toolVars, outbox, audit, decision, post,
                   faultVars>>

(* processItem's failure landing (and deliver's denial): working ->        *)
(* blocked with evidence, or work_item.failed when that is refused.        *)
BlockItem(e) ==
    LET i == at[e] IN
    /\ pc[e] = "blocking" /\ ~Writing(e) /\ Goto(e, "completing")
    /\ \/ /\ CanTransition(i, "working", "blocked", WithEvidence)
          /\ WriteItem(i, "blocked", WithEvidence)
          /\ post' = [post EXCEPT ![e] = Notification(i, "blocked")]
          /\ UNCHANGED audit
       \/ /\ \/ ~CanTransition(i, "working", "blocked", WithEvidence)
             \/ "store_faults" \in Hazards
          /\ audit' = audit \cup {<<"item_failed", i>>}
          /\ UNCHANGED <<rowVars, post>>
    /\ UNCHANGED <<jobVars, execVars, toolVars, outbox, decision, faultVars>>

(* completeSelf, first write: completeJob. *)
CompleteSelf(e) ==
    /\ pc[e] = "completing" /\ ~Writing(e) /\ Goto(e, "reporting")
    /\ CompleteRow(at[e])
    /\ UNCHANGED <<rowVars, execVars, toolVars, outbox, audit, decision, post,
                   faultVars>>

(* completeSelf, second write: the outbox row under the job's id.  The     *)
(* audit row that follows may still be refused.                            *)
ReportSelf(e) ==
    /\ pc[e] = "reporting" /\ ~Writing(e)
    /\ \/ Exit(e, 0)
       \/ "store_faults" \in Hazards /\ Goto(e, "failSelf") /\ UNCHANGED exit
    /\ outbox' = outbox \cup {<<"job", at[e]>>}
    /\ UNCHANGED <<rowVars, jobVars, at, tries, lost, loud, toolVars, audit,
                   decision, post, faultVars>>

(* A store call of the body outside processItem's try is rejected, or the  *)
(* audit row of its catch is.                                              *)
StoreFault(e) ==
    /\ Faulty(e) /\ Goto(e, "failSelf")
    /\ pc[e] \in {"start", "got", "blocking", "completing", "reporting"}
    /\ UNCHANGED <<rowVars, jobVars, execVars, toolVars, outbox, audit,
                   decision, post, faultVars>>

(* MUTANT: job.failed is audited only when failJob matched the row. *)
FailSelfQuiet(e) ==
    /\ pc[e] = "failSelf" /\ ~Writing(e)
    /\ FailRow(at[e])
    /\ audit' = IF status[at[e]] \in {"queued", "running"}
                THEN audit \cup {<<"job_failed", at[e]>>} ELSE audit
    /\ IF at[e] \in Items THEN Goto(e, "unstickRead") /\ UNCHANGED exit
                           ELSE Exit(e, 2)
    /\ UNCHANGED <<rowVars, at, tries, lost, loud, toolVars, outbox, decision,
                   post, faultVars>>

(* failSelf / failJobSelf: fail the job, audit, unstick the item. *)
FailSelf(e) ==
    /\ pc[e] = "failSelf" /\ ~Writing(e)
    /\ FailRow(at[e])
    /\ audit' = audit \cup {<<"job_failed", at[e]>>}
    /\ IF at[e] \in Items THEN Goto(e, "unstickRead") /\ UNCHANGED exit
                           ELSE Exit(e, 2)
    /\ UNCHANGED <<rowVars, at, tries, lost, loud, toolVars, outbox, decision,
                   post, faultVars>>

(* A store call of failSelf or failLoud is rejected, before failJob or     *)
(* after it.  The child exits without a lifecycle, which its supervisor    *)
(* takes for a crash; the supervisor's own throw goes to processJob's      *)
(* catch, which never comes back to the item.                              *)
FailFails(e) ==
    /\ Faulty(e) /\ pc[e] \in {"failSelf", "failLoud"}
    /\ UNCHANGED jobVars \/ FailRow(at[e])
    /\ \/ pc[e] = "failSelf" /\ Goto(e, "failLoud") /\ UNCHANGED faulted
       \/ /\ pc[e] = "failLoud" /\ Goto(e, "retry")
          /\ faulted' = faulted \cup ({"repair"} \X ({at[e]} \cap Unsettled))
    /\ UNCHANGED <<rowVars, execVars, toolVars, outbox, audit, decision, post,
                   crashes>>
-----------------------------------------------------------------------------
(* unstickWorkItem, for the child (failSelf) and for the supervisor        *)
(* (failLoud)                                                              *)

Unstuck(e) ==
    IF loud[e]
    THEN Goto(e, "idle") /\ Release(e)
    ELSE Exit(e, 2) /\ UNCHANGED <<at, tries, lost, loud>>

(* MUTANT: a claimed item goes straight to blocked, which no item may. *)
UnstickReadDirect(e) ==
    /\ pc[e] = "unstickRead" /\ ~Writing(e)
    /\ \/ state[at[e]] \in Settled /\ Unstuck(e)
       \/ /\ state[at[e]] \notin Settled
          /\ Goto(e, "unstickBlock") /\ UNCHANGED execVars
    /\ UNCHANGED <<rowVars, jobVars, toolVars, outbox, audit,
                   decision, post, faultVars>>

(* The state is read; a settled item needs nothing, a claimed one must     *)
(* first be started.                                                       *)
UnstickRead(e) ==
    /\ pc[e] = "unstickRead" /\ ~Writing(e)
    /\ \/ state[at[e]] \in Settled /\ Unstuck(e)
       \/ /\ state[at[e]] = "claimed" /\ Goto(e, "unstickStart")
          /\ UNCHANGED execVars
       \/ /\ state[at[e]] \notin Settled \cup {"claimed"}
          /\ Goto(e, "unstickBlock") /\ UNCHANGED execVars
    /\ UNCHANGED <<rowVars, jobVars, toolVars, outbox, audit,
                   decision, post, faultVars>>

UnstickStart(e) ==
    /\ pc[e] = "unstickStart" /\ ~Writing(e)
    /\ IF CanTransition(at[e], "claimed", "working", NoOpts)
       THEN /\ WriteItem(at[e], "working", NoOpts)
            /\ Goto(e, "unstickBlock") /\ UNCHANGED execVars
       ELSE UNCHANGED rowVars /\ Unstuck(e)
    /\ UNCHANGED <<jobVars, toolVars, outbox, audit,
                   decision, post, faultVars>>

(* A refused transition is logged and the item stays where it is. *)
UnstickBlock(e) ==
    /\ pc[e] = "unstickBlock" /\ ~Writing(e)
    /\ IF CanTransition(at[e], "working", "blocked", WithEvidence)
       THEN /\ WriteItem(at[e], "blocked", WithEvidence)
            /\ post' = [post EXCEPT ![e] = Notification(at[e], "blocked")]
       ELSE UNCHANGED <<rowVars, post>>
    /\ Unstuck(e)
    /\ UNCHANGED <<jobVars, toolVars, outbox, audit,
                   decision, faultVars>>

(* getWorkItem is outside unstickWorkItem's try: its rejection leaves      *)
(* failSelf or failLoud as in FailFails.                                   *)
UnstickReadFails(e) ==
    /\ Faulty(e) /\ pc[e] = "unstickRead"
    /\ \/ ~loud[e] /\ Goto(e, "failLoud") /\ UNCHANGED faulted
       \/ /\ loud[e] /\ Goto(e, "retry")
          /\ faulted' = faulted \cup ({"repair"} \X ({at[e]} \cap Unsettled))
    /\ UNCHANGED <<rowVars, jobVars, execVars, toolVars, outbox, audit, decision,
                   post, crashes>>

(* A transition of the repair is rejected, or its audit row is: the catch  *)
(* logs it and the item stays where it then is.                            *)
UnstickFails(e) ==
    /\ Faulty(e) /\ pc[e] \in {"unstickStart", "unstickBlock"}
    /\ Unstuck(e)
    /\ \/ UNCHANGED rowVars
       \/ /\ pc[e] = "unstickStart"
          /\ CanTransition(at[e], "claimed", "working", NoOpts)
          /\ WriteItem(at[e], "working", NoOpts)
    /\ faulted' = faulted \cup ({"repair"} \X ({at[e]} \cap Unsettled))
    /\ UNCHANGED <<jobVars, toolVars, outbox, audit, decision,
                   post, crashes>>

(* The UPDATE to `blocked` or `review` is committed and the audit or the   *)
(* outbox row after it rejected: the notification is never written.  The   *)
(* caller sees a failed transition: deliver's is a work failure,           *)
(* processItem's catch audits work_item.failed (or throws as well),        *)
(* unstickWorkItem logs it, and in prepareExecutor, whose loop is at the   *)
(* rows of markStaleWorkItems, it ends the process.                        *)
NoticeRejected(e) ==
    /\ "store_faults" \in Hazards
    /\ Writing(e) /\ pc[e] \notin {"markClaimed", "markWorking"}
    /\ post' = [post EXCEPT ![e] = {}]
    /\ faulted' = faulted \cup
          {<<"notice", i>> : i \in {k \in Items : /\ state[k] = "blocked"
                                                /\ <<"blocked", k>> \in post[e]}}
    /\ \/ pc[e] = "reviewed" /\ Goto(e, "blocking") /\ UNCHANGED audit
       \/ /\ pc[e] = "completing" /\ UNCHANGED pc
          /\ audit' = audit \cup {<<"item_failed", at[e]>>}
       \/ pc[e] = "completing" /\ Goto(e, "failSelf") /\ UNCHANGED audit
       \/ pc[e] \in {"idle", "exited"} /\ UNCHANGED <<pc, audit>>
       \/ pc[e] \in BootPcs /\ Goto(e, "down") /\ UNCHANGED audit
    /\ UNCHANGED <<rowVars, jobVars, execVars, toolVars, outbox, decision,
                   crashes>>
-----------------------------------------------------------------------------
(* The clock *)

Held(j) == \E e \in Executors : at[e] = j

(* A backoff gate or a lease runs out.  A live supervisor renews twice per *)
(* lease, so only a stalled process loses one.                             *)
LeaseElapses(j) ==
    /\ lease[j] = "future"
    /\ \/ status[j] = "queued"
       \/ status[j] = "running" /\ ("lease_lapses" \in Hazards \/ ~Held(j))
    /\ lease' = [lease EXCEPT ![j] = "past"]
    /\ UNCHANGED <<rowVars, status, attempts, aged, created, execVars, toolVars,
                   outbox, audit, decision, pc, post, faultVars>>

(* A queued job waits longer than the unclaimed TTL (longer than any gate).*)
JobAges(j) ==
    /\ "queue_ages" \in Hazards
    /\ status[j] = "queued" /\ lease[j] # "future" /\ j \notin aged
    /\ aged' = aged \cup {j}
    /\ UNCHANGED <<rowVars, status, attempts, lease, created, execVars, toolVars,
                   outbox, audit, decision, pc, post, faultVars>>

(* An item is not written for longer than the stale window (longer than a  *)
(* lease that nobody renews).                                              *)
ItemIdles(i) ==
    /\ "items_idle" \in Hazards
    /\ state[i] \in {"claimed", "working"} /\ i \notin idle
    /\ i \in Jobs => ~(status[i] = "running" /\ lease[i] = "future" /\ ~Held(i))
    /\ idle' = idle \cup {i}
    /\ UNCHANGED <<state, evidence, approvals, result, jobVars, execVars,
                   toolVars, outbox, audit, decision, pc, post, faultVars>>
-----------------------------------------------------------------------------
BootNext(e) ==
    \/ Boot(e)
    \/ RecoverSelect(e, "recoverClaimed", "claimed", "markClaimed")
    \/ RecoverMark(e, "markClaimed", "claimed", "recoverWorking")
    \/ RecoverSelect(e, "recoverWorking", "working", "markWorking")
    \/ RecoverMark(e, "markWorking", "working", "bootSweep")
    \/ BootSweep(e)

BodyNext(e) ==
    \/ ClaimItem(e) \/ RunPlainJob(e) \/ StartItem(e) \/ WorkFails(e)
    \/ FinishExtension(e) \/ RequestDelivery(e) \/ AwaitDecision(e)
    \/ ToReview(e) \/ ToDone(e) \/ BlockItem(e) \/ CompleteSelf(e)
    \/ ReportSelf(e) \/ FailSelf(e)

UnstickNext(e) == UnstickRead(e) \/ UnstickStart(e) \/ UnstickBlock(e)

(* What a running process does next by itself. *)
ExecutorStep(e) ==
    \/ FinishWrite(e) \/ BootNext(e) \/ ClaimNextJob(e) \/ Launch(e)
    \/ Retry(e) \/ Reap(e) \/ FailLoud(e) \/ BodyNext(e) \/ UnstickNext(e)

(* The store rejects one of its calls. *)
StoreRejects(e) ==
    \/ StoreFault(e) \/ StartTorn(e) \/ DoneTorn(e) \/ FailFails(e)
    \/ UnstickReadFails(e) \/ UnstickFails(e) \/ NoticeRejected(e)

(* Timers, and what the environment does to it. *)
ExecutorEvent(e) ==
    \/ SweepUnclaimedJobs(e) \/ LaunchRefused(e) \/ RenewLease(e)
    \/ SandboxDies(e) \/ ReapTorn(e) \/ ExecutorCrash(e) \/ StoreRejects(e)

ClockNext ==
    \/ \E j \in Jobs : LeaseElapses(j) \/ JobAges(j)
    \/ \E i \in Items : ItemIdles(i)

Next ==
    \/ ServerNext
    \/ \E e \in Executors : ExecutorStep(e) \/ ExecutorEvent(e)
    \/ ClockNext

Spec == Init /\ [][Next]_vars

(* Scheduling: a live process keeps running its loop (a crashed container  *)
(* is restarted: `restart: on-failure` in docker-compose.yml), the         *)
(* approval wait times out, and a lease or a backoff gate runs out.        *)
Fairness ==
    /\ \A e \in Executors : WF_vars(ExecutorStep(e))
    /\ \A j \in Jobs : WF_vars(LeaseElapses(j))

FairSpec == Spec /\ Fairness
-----------------------------------------------------------------------------
(* Safety *)

(* No double execution: two executors, or two incarnations of one, never   *)
(* work on the same item at once, whatever leases were lost and reclaimed  *)
(* (the job can be claimed twice; the item's own claim decides).           *)
OneRunner ==
    \A e1, e2 \in Executors :
        at[e1] = at[e2] /\ pc[e1] \in WorkPcs /\ pc[e2] \in WorkPcs => e1 = e2

(* The obligations of assertLegalTransition survive every interleaving of  *)
(* crash, cancel, late decision and retry: a git item in review or done    *)
(* was approved by a human first, a done item carries its delivery's       *)
(* result, a blocked item carries evidence.                                *)
Obligations ==
    \A i \in Items :
        /\ i \in GitItems /\ state[i] \in {"review", "done"}
              => decision[i] = "approved" /\ i \in approvals
        /\ state[i] = "done" => DoneResult(i, result[i])
        /\ state[i] = "blocked" => i \in evidence

(* A completed job never hides unfinished work: its item is settled, or    *)
(* the trail holds work_item.failed for it; except where the store         *)
(* rejected the audit row of the item's very start, which processItem      *)
(* takes for a start by someone else (StartTorn).                          *)
CompletedIsAccountedFor ==
    \A i \in WorkerItems :
        status[i] = "completed"
            => \/ state[i] \in Settled
               \/ <<"item_failed", i>> \in audit
               \/ <<"start", i>> \in faulted

(* A completed job reaches the server: its outbox row is written, or will  *)
(* be by the child that completed it, or job.failed says otherwise.  Holds *)
(* while no executor process dies between the two writes of completeSelf.  *)
ReportedOrLoud ==
    \A j \in Jobs :
        status[j] = "completed" =>
            \/ <<"job", j>> \in outbox
            \/ <<"job_failed", j>> \in audit
            \/ \E e \in Executors :
                  at[e] = j /\ pc[e] \in {"reporting", "failSelf", "failLoud",
                                         "retry"}

(* Every blocked landing, whichever of the executor, the child's repair,   *)
(* the supervisor's and the boot recovery it came from, has its            *)
(* notification row, or its writer is about to write it, or the store      *)
(* rejected that very write after the landing (no executor crash).         *)
BlockedIsAnnounced ==
    \A i \in Items :
        state[i] = "blocked" =>
            \/ <<"blocked", i>> \in outbox
            \/ \E e \in Executors : <<"blocked", i>> \in post[e]
            \/ <<"notice", i>> \in faulted

(* completeJob, failJob, requeueJob and the sweep never revive a finished  *)
(* job, although their callers ignore whether the UPDATE matched.          *)
JobsStayTerminal ==
    [][\A j \in Jobs : status[j] \in {"completed", "failed"}
                          => status'[j] = status[j]]_vars

(* The queue implements the item lifecycle it promises. *)
Lifecycle == INSTANCE WorkItems
LifecycleSpec == Lifecycle!Spec
-----------------------------------------------------------------------------
(* Liveness, under FairSpec *)

(* The job bus absorbs every failure: a job that exists ends completed or  *)
(* failed.                                                                 *)
JobsTerminate ==
    \A j \in Jobs :
        status[j] # "none" ~> status[j] \in {"completed", "failed"}

(* "The item never hangs at working": once an executor has claimed a       *)
(* worker item, it leaves claimed and working again, even when its sandbox *)
(* dies or the store rejects calls of the work itself, unless a process    *)
(* dies, work_item.failed is on record, or the store also rejected the     *)
(* repair (unstickWorkItem, and failLoud before it) or the audit row of    *)
(* the item's start: those two leave it there without a word in the trail. *)
NeverHangsAtWorking ==
    \A i \in WorkerItems :
        state[i] \in {"claimed", "working"}
            ~> \/ state[i] \notin {"claimed", "working"}
               \/ crashes > 0
               \/ <<"item_failed", i>> \in audit
               \/ <<"repair", i>> \in faulted
               \/ <<"start", i>> \in faulted
=============================================================================
