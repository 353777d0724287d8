--------------------------- MODULE WorkQueueProofs --------------------------
(***************************************************************************)
(* Theorems about WorkQueue, for every set of items, jobs and executors    *)
(* and every choice of injected failures.                                  *)
(***************************************************************************)
EXTENDS WorkQueue, TLAPS

(* Which job a program counter speaks of. *)
PcJob ==
    \A e \in Executors :
        /\ pc[e] \in WorkPcs \cup UnstickPcs => at[e] \in WorkerItems
        /\ pc[e] \in {"awaiting", "approved", "reviewed"} => at[e] \in GitItems
        /\ pc[e] \in {"launch", "start", "completing", "reporting", "failSelf",
                      "failLoud", "retry", "exited"} => at[e] \in Jobs

TypeInv == TypeOK /\ PcJob

LEMMA TypeInit == Init => TypeInv
  BY QueueAssumption DEF Init, TypeInv, TypeOK, PcJob, States, RowIds, AuditFacts,
     FaultFacts, Pcs, BodyPcs, WorkPcs, UnstickPcs, BootPcs, Jobs, WorkerItems, Items

LEMMA AppendType ==
  ASSUME NEW S, NEW s \in Seq(S), NEW x \in S
  PROVE  Append(s, x) \in Seq(S)
  OBVIOUS

LEMMA Sets ==
  /\ GitItems \subseteq WorkerItems /\ ExtItems \subseteq WorkerItems
  /\ WorkerItems \subseteq Items /\ ChatItems \subseteq Items
  /\ WorkerItems \subseteq Jobs /\ PlainJobs \subseteq Jobs
  /\ \A j \in Jobs : j \in Items => j \in WorkerItems
  /\ \A j \in Jobs : j \notin Items => j \in PlainJobs
  /\ NoJob \notin Jobs
  BY QueueAssumption DEF Items, WorkerItems, Jobs

(* What a write of transitionWorkItem leaves in the row. *)
RowsOK ==
    /\ state \in [Items -> States]
    /\ evidence \subseteq Items
    /\ approvals \subseteq Items
    /\ result \in [Items -> SUBSET ResultFields]
    /\ idle \subseteq Items

LEMMA WriteItemType ==
  ASSUME RowsOK, NEW i \in Items, NEW to \in States, NEW opts,
         opts.result \in SUBSET ResultFields, WriteItem(i, to, opts)
  PROVE  RowsOK'
  BY DEF RowsOK, WriteItem

LEMMA TypeServer == TypeInv /\ ServerNext => TypeInv'
  <1> SUFFICES ASSUME TypeInv, ServerNext PROVE TypeInv'
    OBVIOUS
  <1> USE Sets DEF TypeInv, TypeOK, PcJob, States, rowVars, jobVars, execVars,
                   toolVars, faultVars
  <1>1. ASSUME NEW i \in Items, CreateWorkItem(i) PROVE TypeInv'
    <2>1. CASE i \in WorkerItems
      <3>1. created' = Append(created, i) /\ i \in Jobs /\ created \in Seq(Jobs)
        BY <1>1, <2>1 DEF CreateWorkItem
      <3>2. created' \in Seq(Jobs)
        BY <3>1, AppendType
      <3>3. QED
        BY <1>1, <2>1, <3>2 DEF CreateWorkItem
    <2>2. CASE i \notin WorkerItems
      BY <1>1, <2>2 DEF CreateWorkItem
    <2>3. QED
      BY <2>1, <2>2
  <1>2. ASSUME NEW i \in Items, CreateWorkItemTorn(i) PROVE TypeInv'
    BY <1>2, QueueAssumption DEF CreateWorkItemTorn
  <1>3. ASSUME NEW i \in Items, CancelRead(i) PROVE TypeInv'
    BY <1>3 DEF CancelRead
  <1>4. ASSUME NEW i \in Items, CancelApply(i) PROVE TypeInv'
    BY <1>4 DEF CancelApply, WriteItem, NoOpts
  <1>5. ASSUME NEW j \in Jobs, EnqueueJob(j) PROVE TypeInv'
    <2>1. created' \in Seq(Jobs)
      BY <1>5, AppendType DEF EnqueueJob
    <2>2. QED
      BY <1>5, <2>1 DEF EnqueueJob
  <1>6. ASSUME NEW i \in ChatItems, ChatRead(i) PROVE TypeInv'
    BY <1>6 DEF ChatRead
  <1>7. ASSUME NEW i \in ChatItems, ChatStep(i) PROVE TypeInv'
    <2> DEFINE to == ChatNext(chat[i])
               opts == IF to = "done" THEN WithResult({"summary"}) ELSE NoOpts
    <2>1. to \in {"claimed", "working", "done"}
      BY <1>7 DEF ChatStep, ChatNext
    <2>2. opts.result \in SUBSET ResultFields
      BY DEF WithResult, NoOpts, ResultFields
    <2>3. \/ /\ WriteItem(i, to, opts)
             /\ \E rest \in {to, "none"} :
                   chat' = [chat EXCEPT ![i] = IF to = "done" THEN "none" ELSE rest]
          \/ chat' = [chat EXCEPT ![i] = "none"] /\ UNCHANGED rowVars
      BY <1>7 DEF ChatStep
    <2>4. UNCHANGED <<jobVars, execVars, cancelling, outbox, audit, decision, pc,
                      post, faultVars>>
      BY <1>7 DEF ChatStep
    <2> HIDE DEF opts, to
    <2>5. RowsOK'
      <3>1. CASE WriteItem(i, to, opts)
        <4>1. RowsOK /\ i \in Items /\ to \in States
          BY <2>1 DEF RowsOK
        <4>2. QED
          BY <4>1, <2>2, <3>1, WriteItemType
      <3>2. CASE UNCHANGED rowVars
        BY <3>2 DEF RowsOK
      <3>3. QED
        BY <2>3, <3>1, <3>2
    <2>6. chat' \in [ChatItems -> {"none", "open", "claimed", "working"}]
      BY <2>1, <2>3
    <2>7. QED
      BY <2>4, <2>5, <2>6 DEF RowsOK
  <1>8. ASSUME NEW i \in GitItems, NEW d \in {"approved", "denied"},
               ResolveDelivery(i, d) PROVE TypeInv'
    BY <1>8 DEF ResolveDelivery
  <1>9. ASSUME ServerCrash PROVE TypeInv'
    BY <1>9, QueueAssumption DEF ServerCrash
  <1> QED
    BY <1>1, <1>2, <1>3, <1>4, <1>5, <1>6, <1>7, <1>8, <1>9 DEF ServerNext

LEMMA TypeBoot ==
  ASSUME TypeInv, NEW e \in Executors,
         FinishWrite(e) \/ BootNext(e) \/ SweepUnclaimedJobs(e)
  PROVE  TypeInv'
  <1> USE Sets DEF TypeInv, TypeOK, PcJob, States, rowVars, jobVars, execVars,
                   toolVars, faultVars, Goto, Writing
  <1>1. CASE FinishWrite(e)
    BY <1>1 DEF FinishWrite
  <1>2. CASE Boot(e)
    BY <1>2 DEF Boot, Pcs, BootPcs, BodyPcs, WorkPcs, UnstickPcs
  <1>3. ASSUME NEW from \in {"claimed", "working"},
               NEW label \in {"recoverClaimed", "recoverWorking"},
               NEW mark \in {"markClaimed", "markWorking"},
               RecoverSelect(e, label, from, mark)
        PROVE  TypeInv'
    <2>1. {"blocked"} \X StaleIn(from) \subseteq RowIds
      BY DEF StaleIn, RowIds
    <2>2. QED
      BY <1>3, <2>1 DEF RecoverSelect, Pcs, BootPcs, BodyPcs, WorkPcs, UnstickPcs
  <1>4. ASSUME NEW from \in {"claimed", "working"},
               NEW label \in {"markClaimed", "markWorking"},
               NEW next \in {"recoverWorking", "bootSweep"},
               RecoverMark(e, label, from, next)
        PROVE  TypeInv'
    BY <1>4 DEF RecoverMark, StaleIn, Pcs, BootPcs, BodyPcs, WorkPcs, UnstickPcs
  <1>5. ASSUME SweepRows
        PROVE  /\ status' \in [Jobs -> {"none", "queued", "running",
                                        "completed", "failed"}]
               /\ lease' \in [Jobs -> {"null", "future", "past"}]
               /\ aged' \subseteq Jobs
               /\ audit' \subseteq AuditFacts
               /\ UNCHANGED <<attempts, created>>
    BY <1>5 DEF SweepRows, Sweepable, AuditFacts
  <1>6. CASE BootSweep(e)
    BY <1>5, <1>6 DEF BootSweep, Pcs, BootPcs, BodyPcs, WorkPcs, UnstickPcs
  <1>7. CASE SweepUnclaimedJobs(e)
    BY <1>5, <1>7 DEF SweepUnclaimedJobs
  <1> QED
    BY <1>1, <1>2, <1>3, <1>4, <1>6, <1>7 DEF BootNext

(* The guarded UPDATEs of the job bus keep its rows well typed. *)
LEMMA JobRowType ==
  ASSUME TypeInv, NEW j \in Jobs,
         ClaimRow(j) \/ RequeueRow(j) \/ CompleteRow(j) \/ FailRow(j)
  PROVE  /\ status' \in [Jobs -> {"none", "queued", "running", "completed",
                                  "failed"}]
         /\ attempts' \in [Jobs -> 0..MaxAttempts]
         /\ lease' \in [Jobs -> {"null", "future", "past"}]
         /\ aged' \subseteq Jobs
         /\ created' \in Seq(Jobs)
  <1>1. /\ status \in [Jobs -> {"none", "queued", "running", "completed", "failed"}]
        /\ attempts \in [Jobs -> 0..MaxAttempts]
        /\ lease \in [Jobs -> {"null", "future", "past"}]
        /\ aged \subseteq Jobs
        /\ created \in Seq(Jobs)
    BY DEF TypeInv, TypeOK
  <1>2. CASE ClaimRow(j)
    BY <1>1, <1>2, QueueAssumption DEF ClaimRow
  <1>3. CASE UNCHANGED jobVars
    BY <1>1, <1>3 DEF jobVars
  <1>4. CASE RequeueRow(j) /\ ~UNCHANGED jobVars
    BY <1>1, <1>4 DEF RequeueRow
  <1>5. CASE CompleteRow(j) /\ ~UNCHANGED jobVars
    BY <1>1, <1>5 DEF CompleteRow
  <1>6. CASE FailRow(j) /\ ~UNCHANGED jobVars
    BY <1>1, <1>6 DEF FailRow
  <1> QED
    BY <1>2, <1>3, <1>4, <1>5, <1>6

(* A jump of the program counter that keeps the job in hand. *)
LEMMA GotoType ==
  ASSUME TypeInv, NEW e \in Executors, NEW label \in Pcs, Goto(e, label),
         UNCHANGED at,
         label \in WorkPcs \cup UnstickPcs => at[e] \in WorkerItems,
         label \in {"awaiting", "approved", "reviewed"} => at[e] \in GitItems,
         label \in {"launch", "start", "completing", "reporting", "failSelf",
                    "failLoud", "retry", "exited"} => at[e] \in Jobs
  PROVE  PcJob' /\ pc' \in [Executors -> Pcs]
  BY DEF TypeInv, TypeOK, PcJob, Goto

(* The return to the claim loop. *)
LEMMA IdleType ==
  ASSUME TypeInv, NEW e \in Executors, Goto(e, "idle"),
         Release(e)
  PROVE  /\ PcJob' /\ pc' \in [Executors -> Pcs]
         /\ at' \in [Executors -> Jobs \cup {NoJob}]
         /\ tries' \in [Executors -> 0..MaxAttempts]
         /\ exit' \in [Executors -> {0, 2, 3}]
         /\ lost' \in [Executors -> BOOLEAN]
         /\ loud' \in [Executors -> BOOLEAN]
  BY QueueAssumption DEF TypeInv, TypeOK, PcJob, Goto, Release, Pcs, BodyPcs,
     WorkPcs, UnstickPcs, BootPcs

LEMMA TypeLoop ==
  ASSUME TypeInv, NEW e \in Executors,
         \/ ClaimNextJob(e) \/ Launch(e) \/ LaunchRefused(e) \/ Retry(e)
         \/ Reap(e) \/ ReapTorn(e) \/ RenewLease(e) \/ SandboxDies(e)
         \/ FailLoud(e) \/ ExecutorCrash(e)
  PROVE  TypeInv'
  <1> USE Sets DEF TypeInv, TypeOK, PcJob, rowVars, execVars, toolVars, faultVars, Goto,
                   Pcs, BootPcs, BodyPcs, WorkPcs, UnstickPcs
  <1>1. CASE ClaimNextJob(e)
    <2>1. PICK j \in Jobs : /\ ClaimRow(j)
                            /\ at' = [at EXCEPT ![e] = j]
                            /\ tries' = [tries EXCEPT ![e] = attempts'[j]]
      BY <1>1 DEF ClaimNextJob
    <2>2. QED
      BY <1>1, <2>1, JobRowType DEF ClaimNextJob
  <1>2. CASE Launch(e)
    BY <1>2 DEF Launch, jobVars
  <1>3. CASE LaunchRefused(e)
    BY <1>3 DEF LaunchRefused, jobVars
  <1>4. CASE Retry(e)
    <2>1. at[e] \in Jobs /\ (FailRow(at[e]) \/ RequeueRow(at[e]))
      BY <1>4 DEF Retry
    <2>2. {<<"job_failed", at[e]>>} \subseteq AuditFacts
      BY <2>1 DEF AuditFacts
    <2>3. Goto(e, "idle") /\ Release(e)
      BY <1>4 DEF Retry
    <2>4. /\ UNCHANGED <<rowVars, toolVars, outbox, decision, post, faultVars>>
          /\ audit' \subseteq AuditFacts
      BY <1>4, <2>2 DEF Retry
    <2> HIDE DEF PcJob, Goto
    <2>5. QED
      BY <2>1, <2>3, <2>4, JobRowType, IdleType
  <1>5. CASE Reap(e)
    <2>1. UNCHANGED <<rowVars, jobVars, toolVars, outbox, audit, decision, post,
                      faultVars>>
      BY <1>5 DEF Reap
    <2>2. CASE Goto(e, "retry") /\ UNCHANGED execVars
      BY <1>5, <2>1, <2>2 DEF Reap, jobVars
    <2>3. CASE Goto(e, "idle") /\ Release(e)
      <3> HIDE DEF PcJob, Goto
      <3>1. QED
        BY <2>1, <2>3, IdleType DEF jobVars
    <2>4. QED
      BY <1>5, <2>2, <2>3 DEF Reap
  <1>6. CASE ReapTorn(e)
    BY <1>6 DEF ReapTorn, jobVars
  <1>7. CASE RenewLease(e)
    <2>1. at[e] \in Jobs
      BY <1>7 DEF RenewLease, ChildRuns
    <2>2. lease' \in [Jobs -> {"null", "future", "past"}]
      BY <1>7, <2>1 DEF RenewLease
    <2>3. lost' \in [Executors -> BOOLEAN]
      BY <1>7 DEF RenewLease
    <2>4. QED
      BY <1>7, <2>2, <2>3 DEF RenewLease
  <1>8. CASE SandboxDies(e)
    BY <1>8 DEF SandboxDies, ChildRuns, jobVars
  <1>9. CASE FailLoud(e)
    <2>1. at[e] \in Jobs /\ FailRow(at[e])
      BY <1>9 DEF FailLoud
    <2>2. {<<"job_failed", at[e]>>, <<"sandbox_crash", at[e]>>} \subseteq AuditFacts
      BY <2>1 DEF AuditFacts
    <2>3. /\ PcJob' /\ pc' \in [Executors -> Pcs]
          /\ at' \in [Executors -> Jobs \cup {NoJob}]
          /\ tries' \in [Executors -> 0..MaxAttempts]
          /\ exit' \in [Executors -> {0, 2, 3}]
          /\ lost' \in [Executors -> BOOLEAN]
          /\ loud' \in [Executors -> BOOLEAN]
      <3>1. CASE /\ at[e] \in Items /\ Goto(e, "unstickRead")
                 /\ loud' = [loud EXCEPT ![e] = TRUE]
                 /\ UNCHANGED <<at, tries, exit, lost>>
        BY <1>9, <2>1, <3>1 DEF FailLoud
      <3>2. CASE Goto(e, "idle") /\ Release(e)
        BY <3>2, IdleType
      <3>3. QED
        BY <1>9, <3>1, <3>2 DEF FailLoud
    <2>5. audit' \subseteq AuditFacts
      BY <1>9, <2>2 DEF FailLoud
    <2>6. /\ status' \in [Jobs -> {"none", "queued", "running", "completed",
                                    "failed"}]
          /\ attempts' \in [Jobs -> 0..MaxAttempts]
          /\ lease' \in [Jobs -> {"null", "future", "past"}]
          /\ aged' \subseteq Jobs
          /\ created' \in Seq(Jobs)
      BY <2>1, JobRowType
    <2>7. UNCHANGED <<rowVars, toolVars, outbox, decision, post, faultVars>>
      BY <1>9 DEF FailLoud
    <2> HIDE DEF PcJob
    <2>8. QED
      BY <2>3, <2>5, <2>6, <2>7
  <1>10. CASE ExecutorCrash(e)
    BY <1>10, QueueAssumption DEF ExecutorCrash, Release, jobVars
  <1> QED
    BY <1>1, <1>2, <1>3, <1>4, <1>5, <1>6, <1>7, <1>8, <1>9, <1>10

(* The notification rows of a landing. *)
LEMMA NotificationType ==
  ASSUME NEW i \in Items, NEW to
  PROVE  Notification(i, to) \subseteq RowIds
  BY DEF Notification, RowIds

(* Steps of the sandbox child that write no row. *)
LEMMA TypeBodyGoto ==
  ASSUME TypeInv, NEW e \in Executors,
         \/ RunPlainJob(e) \/ WorkFails(e) \/ RequestDelivery(e)
         \/ AwaitDecision(e) \/ StoreFault(e) \/ ReportSelf(e)
  PROVE  TypeInv'
  <1> USE Sets DEF TypeInv, TypeOK, PcJob, rowVars, jobVars, execVars, toolVars, faultVars,
                   Goto, Exit, Pcs, BootPcs, BodyPcs, WorkPcs, UnstickPcs
  <1>1. CASE RunPlainJob(e)
    <2>1. PICK label \in {"completing", "failSelf"} : Goto(e, label)
      BY <1>1 DEF RunPlainJob
    <2>2. at[e] \in Jobs /\ UNCHANGED at
      BY <1>1 DEF RunPlainJob
    <2>3. PcJob' /\ pc' \in [Executors -> Pcs]
      BY <2>1, <2>2, GotoType
    <2> HIDE DEF PcJob
    <2>4. QED
      BY <1>1, <2>3 DEF RunPlainJob
  <1>2. CASE WorkFails(e)
    BY <1>2 DEF WorkFails
  <1>3. CASE RequestDelivery(e)
    BY <1>3 DEF RequestDelivery, AuditFacts
  <1>4. CASE AwaitDecision(e)
    BY <1>4 DEF AwaitDecision
  <1>5. CASE StoreFault(e)
    BY <1>5 DEF StoreFault, Faulty
  <1>6. CASE ReportSelf(e)
    <2>1. outbox' \subseteq RowIds
      BY <1>6 DEF ReportSelf, RowIds
    <2>2. PICK label \in {"exited", "failSelf"} : Goto(e, label)
      BY <1>6 DEF ReportSelf
    <2>3. at[e] \in Jobs /\ UNCHANGED at /\ exit' \in [Executors -> {0, 2, 3}]
      BY <1>6 DEF ReportSelf
    <2>4. PcJob' /\ pc' \in [Executors -> Pcs]
      BY <2>2, <2>3, GotoType
    <2> HIDE DEF PcJob
    <2>5. QED
      BY <1>6, <2>1, <2>3, <2>4 DEF ReportSelf
  <1> QED
    BY <1>1, <1>2, <1>3, <1>4, <1>5, <1>6

LEMMA OptsResult ==
  ASSUME NEW fields \in SUBSET ResultFields,
         NEW opts \in {NoOpts, WithEvidence, WithResult(fields),
                       WithApproval(fields)}
  PROVE  opts.result \in SUBSET ResultFields
  BY DEF NoOpts, WithEvidence, WithResult, WithApproval

(* Steps of the sandbox child that write the item's row. *)
LEMMA TypeBodyItem ==
  ASSUME TypeInv, NEW e \in Executors,
         \/ ClaimItem(e) \/ StartItem(e) \/ FinishExtension(e) \/ ToReview(e)
         \/ ToDone(e) \/ BlockItem(e)
  PROVE  TypeInv'
  <1> USE Sets DEF TypeInv, TypeOK, PcJob, jobVars, execVars, toolVars, faultVars,
                   Goto, Exit, Pcs, BootPcs, BodyPcs, WorkPcs, UnstickPcs
  <1>1. ASSUME NEW i \in Items,
               \/ UNCHANGED rowVars
               \/ \E to \in States, fields \in SUBSET ResultFields :
                     \/ WriteItem(i, to, NoOpts)
                     \/ WriteItem(i, to, WithEvidence)
                     \/ WriteItem(i, to, WithResult(fields))
                     \/ WriteItem(i, to, WithApproval(fields))
        PROVE  RowsOK'
    <2>1. RowsOK
      BY DEF RowsOK
    <2>2. CASE UNCHANGED rowVars
      BY <2>1, <2>2 DEF RowsOK, rowVars
    <2>3. ASSUME NEW to \in States, NEW fields \in SUBSET ResultFields,
                 NEW opts \in {NoOpts, WithEvidence, WithResult(fields),
                               WithApproval(fields)},
                 WriteItem(i, to, opts)
          PROVE  RowsOK'
      <3>1. QED
        BY <2>1, <2>3, OptsResult, WriteItemType
    <2>4. QED
      BY <1>1, <2>2, <2>3
  <1>2. CASE ClaimItem(e)
    <2>1. at[e] \in Items /\ at[e] \in WorkerItems
      BY <1>2 DEF ClaimItem
    <2>2. RowsOK'
      BY <1>1, <1>2, <2>1 DEF ClaimItem, States
    <2>3. PICK label \in {"got", "completing", "exited"} : Goto(e, label)
      BY <1>2 DEF ClaimItem
    <2>4. exit' \in [Executors -> {0, 2, 3}] /\ UNCHANGED at
      BY <1>2 DEF ClaimItem
    <2>5. PcJob' /\ pc' \in [Executors -> Pcs]
      BY <2>1, <2>3, <2>4, GotoType
    <2>6. UNCHANGED <<jobVars, tries, lost, loud, toolVars, outbox, audit,
                      decision, post, faultVars>>
      BY <1>2 DEF ClaimItem
    <2> HIDE DEF PcJob
    <2>7. QED
      BY <2>2, <2>4, <2>5, <2>6 DEF RowsOK
  <1>3. CASE StartItem(e)
    <2>1. at[e] \in Items
      BY <1>3 DEF StartItem
    <2>2. RowsOK'
      BY <1>1, <1>3, <2>1 DEF StartItem, States
    <2>3. PICK label \in {"working", "completing"} : Goto(e, label)
      BY <1>3 DEF StartItem
    <2>4. PcJob' /\ pc' \in [Executors -> Pcs]
      BY <1>3, <2>3, GotoType DEF StartItem
    <2> HIDE DEF PcJob
    <2>5. QED
      BY <1>3, <2>2, <2>4 DEF StartItem, RowsOK
  <1>4. CASE FinishExtension(e)
    <2>1. PICK fields \in {{"summary"}, {"url", "summary"}} :
             \/ WriteItem(at[e], "done", WithResult(fields)) /\ Goto(e, "completing")
             \/ UNCHANGED rowVars /\ Goto(e, "blocking")
      BY <1>4 DEF FinishExtension
    <2>2. RowsOK'
      BY <1>1, <1>4, <2>1 DEF FinishExtension, States, ResultFields
    <2>3. PICK label \in {"completing", "blocking"} : Goto(e, label)
      BY <1>4 DEF FinishExtension
    <2>4. PcJob' /\ pc' \in [Executors -> Pcs]
      BY <1>4, <2>3, GotoType DEF FinishExtension
    <2> HIDE DEF PcJob
    <2>5. QED
      BY <1>4, <2>2, <2>4 DEF FinishExtension, RowsOK
  <1>5. CASE ToReview(e)
    <2>1. at[e] \in GitItems
      BY <1>5 DEF ToReview
    <2>2. PICK fields \in {{"pr_url", "summary"}, {"pr_url"}} :
             \/ /\ WriteItem(at[e], "review", WithApproval(fields))
                /\ post' = [post EXCEPT ![e] = Notification(at[e], "review")]
                /\ Goto(e, "reviewed")
             \/ UNCHANGED <<rowVars, post>> /\ Goto(e, "blocking")
      BY <1>5 DEF ToReview
    <2>3. RowsOK'
      BY <1>1, <2>1, <2>2 DEF States, ResultFields
    <2>4. post' \in [Executors -> SUBSET RowIds]
      <3>1. Notification(at[e], "review") \subseteq RowIds
        BY <2>1, NotificationType
      <3>2. \/ post' = [post EXCEPT ![e] = Notification(at[e], "review")]
            \/ UNCHANGED post
        BY <2>2
      <3> HIDE DEF PcJob
      <3>3. QED
        BY <3>1, <3>2
    <2>5. UNCHANGED <<jobVars, execVars, toolVars, outbox, audit, decision, faultVars>>
      BY <1>5 DEF ToReview
    <2>6. PcJob' /\ pc' \in [Executors -> Pcs]
      <3>1. PICK label \in {"reviewed", "blocking"} : Goto(e, label)
        BY <2>2
      <3>2. QED
        BY <2>1, <2>5, <3>1, GotoType
    <2> HIDE DEF PcJob
    <2>7. QED
      BY <2>3, <2>4, <2>5, <2>6 DEF RowsOK
  <1>6. CASE ToDone(e)
    <2>1. at[e] \in GitItems /\ result[at[e]] \in SUBSET ResultFields
      BY <1>6 DEF ToDone
    <2>2. \/ WriteItem(at[e], "done", WithResult(result[at[e]])) /\ Goto(e, "completing")
          \/ UNCHANGED rowVars /\ Goto(e, "blocking")
      BY <1>6 DEF ToDone
    <2>3. RowsOK'
      BY <1>1, <2>1, <2>2 DEF States
    <2>4. PICK label \in {"completing", "blocking"} : Goto(e, label)
      BY <2>2
    <2>5. UNCHANGED <<jobVars, execVars, toolVars, outbox, audit, decision, post,
                      faultVars>>
      BY <1>6 DEF ToDone
    <2>6. PcJob' /\ pc' \in [Executors -> Pcs]
      BY <2>1, <2>4, <2>5, GotoType
    <2> HIDE DEF PcJob
    <2>7. QED
      BY <2>3, <2>5, <2>6 DEF RowsOK
  <1>7. CASE BlockItem(e)
    <2>1. at[e] \in WorkerItems
      BY <1>7 DEF BlockItem
    <2>2. \/ /\ WriteItem(at[e], "blocked", WithEvidence)
             /\ post' = [post EXCEPT ![e] = Notification(at[e], "blocked")]
             /\ UNCHANGED audit
          \/ /\ audit' = audit \cup {<<"item_failed", at[e]>>}
             /\ UNCHANGED <<rowVars, post>>
      BY <1>7 DEF BlockItem
    <2>3. RowsOK'
      BY <1>1, <2>1, <2>2 DEF States
    <2>4. post' \in [Executors -> SUBSET RowIds]
      <3>1. Notification(at[e], "blocked") \subseteq RowIds
        BY <2>1, NotificationType
      <3>2. QED
        BY <2>2, <3>1
    <2>5. audit' \subseteq AuditFacts
      BY <2>1, <2>2 DEF AuditFacts
    <2>6. PcJob' /\ pc' \in [Executors -> Pcs]
      BY <1>7 DEF BlockItem
    <2>7. UNCHANGED <<jobVars, execVars, toolVars, outbox, decision, faultVars>>
      BY <1>7 DEF BlockItem
    <2> HIDE DEF PcJob
    <2>8. QED
      BY <2>3, <2>4, <2>5, <2>6, <2>7 DEF RowsOK
  <1> QED
    BY <1>2, <1>3, <1>4, <1>5, <1>6, <1>7

LEMMA TypeBodyJob ==
  ASSUME TypeInv, NEW e \in Executors, CompleteSelf(e) \/ FailSelf(e)
  PROVE  TypeInv'
  <1> USE Sets DEF TypeInv, TypeOK, PcJob, rowVars, execVars, toolVars, faultVars, Goto,
                   Exit, Pcs, BootPcs, BodyPcs, WorkPcs, UnstickPcs
  <1>1. CASE CompleteSelf(e)
    <2>1. at[e] \in Jobs /\ CompleteRow(at[e])
      BY <1>1 DEF CompleteSelf
    <2>2. PcJob' /\ pc' \in [Executors -> Pcs]
      BY <1>1 DEF CompleteSelf
    <2> HIDE DEF PcJob
    <2>3. QED
      BY <1>1, <2>1, <2>2, JobRowType DEF CompleteSelf
  <1>2. CASE FailSelf(e)
    <2>1. at[e] \in Jobs /\ FailRow(at[e])
      BY <1>2 DEF FailSelf
    <2>2. \/ at[e] \in WorkerItems /\ Goto(e, "unstickRead") /\ UNCHANGED exit
          \/ Goto(e, "exited") /\ exit' = [exit EXCEPT ![e] = 2]
      BY <1>2, <2>1 DEF FailSelf
    <2>3. UNCHANGED <<rowVars, at, tries, lost, loud, toolVars, outbox, decision,
                      post, faultVars>>
      BY <1>2 DEF FailSelf
    <2>4. PcJob' /\ pc' \in [Executors -> Pcs]
      BY <2>1, <2>2, <2>3, GotoType
    <2>5. audit' \subseteq AuditFacts
      <3>1. audit' = audit \cup {<<"job_failed", at[e]>>}
        BY <1>2 DEF FailSelf
      <3>2. QED
        BY <2>1, <3>1 DEF AuditFacts
    <2>6. /\ status' \in [Jobs -> {"none", "queued", "running", "completed",
                                    "failed"}]
          /\ attempts' \in [Jobs -> 0..MaxAttempts]
          /\ lease' \in [Jobs -> {"null", "future", "past"}]
          /\ aged' \subseteq Jobs
          /\ created' \in Seq(Jobs)
      BY <2>1, JobRowType
    <2> HIDE DEF PcJob
    <2>7. exit' \in [Executors -> {0, 2, 3}]
      BY <2>2
    <2>8. QED
      BY <2>3, <2>4, <2>5, <2>6, <2>7
  <1> QED
    BY <1>1, <1>2

(* The end of unstickWorkItem. *)
LEMMA UnstuckType ==
  ASSUME TypeInv, NEW e \in Executors, at[e] \in WorkerItems, Unstuck(e)
  PROVE  /\ PcJob' /\ pc' \in [Executors -> Pcs]
         /\ at' \in [Executors -> Jobs \cup {NoJob}]
         /\ tries' \in [Executors -> 0..MaxAttempts]
         /\ exit' \in [Executors -> {0, 2, 3}]
         /\ lost' \in [Executors -> BOOLEAN]
         /\ loud' \in [Executors -> BOOLEAN]
  <1>1. CASE Goto(e, "idle") /\ Release(e)
    BY <1>1, IdleType
  <1>2. CASE /\ Goto(e, "exited") /\ exit' = [exit EXCEPT ![e] = 2]
             /\ UNCHANGED <<at, tries, lost, loud>>
    <2>1. "exited" \in Pcs
      BY DEF Pcs
    <2>2. PcJob' /\ pc' \in [Executors -> Pcs]
      BY <1>2, <2>1, Sets, GotoType DEF WorkPcs, UnstickPcs
    <2>3. QED
      BY <1>2, <2>2 DEF TypeInv, TypeOK
  <1> QED
    BY <1>1, <1>2 DEF Unstuck, Exit

(* A jump of the program counter that leaves the locals alone. *)
LEMMA StayType ==
  ASSUME TypeInv, NEW e \in Executors, UNCHANGED execVars,
         at[e] \in WorkerItems,
         NEW label \in Pcs \ {"awaiting", "approved", "reviewed"},
         Goto(e, label)
  PROVE  /\ PcJob' /\ pc' \in [Executors -> Pcs]
         /\ at' \in [Executors -> Jobs \cup {NoJob}]
         /\ tries' \in [Executors -> 0..MaxAttempts]
         /\ exit' \in [Executors -> {0, 2, 3}]
         /\ lost' \in [Executors -> BOOLEAN]
         /\ loud' \in [Executors -> BOOLEAN]
  <1>1. PcJob' /\ pc' \in [Executors -> Pcs]
    BY Sets, GotoType DEF execVars
  <1> QED
    BY <1>1 DEF TypeInv, TypeOK, execVars

(* A row written by the child or by unstickWorkItem. *)
LEMMA RowType ==
  ASSUME TypeInv, NEW i \in Items,
         \/ UNCHANGED rowVars
         \/ \E to \in States, opts \in {NoOpts, WithEvidence} :
               WriteItem(i, to, opts)
         \/ \E fields \in SUBSET ResultFields :
               WriteItem(i, "done", WithResult(fields))
  PROVE  RowsOK'
  <1>1. RowsOK
    BY DEF RowsOK, TypeInv, TypeOK
  <1>2. CASE UNCHANGED rowVars
    BY <1>1, <1>2 DEF RowsOK, rowVars
  <1>3. ASSUME NEW to \in States, NEW opts \in {NoOpts, WithEvidence},
               WriteItem(i, to, opts)
        PROVE  RowsOK'
    <2>1. opts.result \in SUBSET ResultFields
      BY <1>3, OptsResult
    <2>2. QED
      BY <1>1, <1>3, <2>1, WriteItemType
  <1>4. ASSUME NEW fields \in SUBSET ResultFields,
               WriteItem(i, "done", WithResult(fields))
        PROVE  RowsOK'
    <2>1. WithResult(fields).result \in SUBSET ResultFields
      BY <1>4, OptsResult
    <2>2. QED
      BY <1>1, <1>4, <2>1, WriteItemType DEF States
  <1> QED
    BY <1>2, <1>3, <1>4

LEMMA TypeUnstick ==
  ASSUME TypeInv, NEW e \in Executors, UnstickNext(e)
  PROVE  TypeInv'
  <1> USE Sets DEF TypeInv, TypeOK, toolVars, faultVars, Pcs, BootPcs, BodyPcs, WorkPcs,
                   UnstickPcs
  <1>1. at[e] \in WorkerItems /\ at[e] \in Items
    BY DEF UnstickNext, UnstickRead, UnstickStart, UnstickBlock, PcJob
  <1> DEFINE Locals == /\ PcJob' /\ pc' \in [Executors -> Pcs]
                       /\ at' \in [Executors -> Jobs \cup {NoJob}]
                       /\ tries' \in [Executors -> 0..MaxAttempts]
                       /\ exit' \in [Executors -> {0, 2, 3}]
                       /\ lost' \in [Executors -> BOOLEAN]
                       /\ loud' \in [Executors -> BOOLEAN]
  <1>2. ASSUME \/ Unstuck(e)
               \/ \E label \in UnstickPcs : Goto(e, label) /\ UNCHANGED execVars
        PROVE  Locals
    <2>1. CASE Unstuck(e)
      BY <1>1, <2>1, UnstuckType
    <2>2. ASSUME NEW label \in UnstickPcs, Goto(e, label), UNCHANGED execVars
          PROVE  Locals
      <3>1. label \in Pcs \ {"awaiting", "approved", "reviewed"}
        BY <2>2
      <3>2. QED
        BY <1>1, <2>2, <3>1, StayType
    <2>3. QED
      BY <1>2, <2>1, <2>2
  <1>5. CASE UnstickRead(e)
    <2>1. \/ Unstuck(e)
          \/ \E label \in UnstickPcs : Goto(e, label) /\ UNCHANGED execVars
      BY <1>5 DEF UnstickRead
    <2>2. UNCHANGED <<rowVars, jobVars, toolVars, outbox, audit, decision, post,
                      faultVars>>
      BY <1>5 DEF UnstickRead
    <2>3. Locals
      BY <2>1, <1>2
    <2>4. QED
      BY <2>2, <2>3 DEF rowVars, jobVars
  <1>6. CASE UnstickStart(e)
    <2>1. \/ Unstuck(e)
          \/ \E label \in UnstickPcs : Goto(e, label) /\ UNCHANGED execVars
      BY <1>6 DEF UnstickStart
    <2>2. RowsOK'
      BY <1>1, <1>6, RowType DEF UnstickStart, States
    <2>3. UNCHANGED <<jobVars, toolVars, outbox, audit, decision, post, faultVars>>
      BY <1>6 DEF UnstickStart
    <2>4. Locals
      BY <2>1, <1>2
    <2>5. QED
      BY <2>2, <2>3, <2>4 DEF RowsOK, jobVars
  <1>7. CASE UnstickBlock(e)
    <2>1. \/ /\ WriteItem(at[e], "blocked", WithEvidence)
             /\ post' = [post EXCEPT ![e] = Notification(at[e], "blocked")]
          \/ UNCHANGED <<rowVars, post>>
      BY <1>7 DEF UnstickBlock
    <2>2. RowsOK'
      BY <1>1, <2>1, RowType DEF States
    <2>3. post' \in [Executors -> SUBSET RowIds]
      <3>1. Notification(at[e], "blocked") \subseteq RowIds
        BY <1>1, NotificationType
      <3>2. QED
        BY <2>1, <3>1
    <2>4. /\ Unstuck(e)
          /\ UNCHANGED <<jobVars, toolVars, outbox, audit, decision, faultVars>>
      BY <1>7 DEF UnstickBlock
    <2>5. Locals
      BY <2>4, <1>2
    <2>6. QED
      BY <2>2, <2>3, <2>4, <2>5 DEF RowsOK, jobVars
  <1> QED
    BY <1>5, <1>6, <1>7 DEF UnstickNext

(* What a rejected store call adds to the history. *)
LEMMA FaultedType ==
  ASSUME TypeInv, NEW e \in Executors,
         \/ UNCHANGED faulted
         \/ faulted' = faulted \cup ({"repair"} \X ({at[e]} \cap Unsettled))
         \/ at[e] \in Items /\ faulted' = faulted \cup {<<"start", at[e]>>}
  PROVE  faulted' \subseteq FaultFacts
  BY DEF TypeInv, TypeOK, FaultFacts, Unsettled

LEMMA TypeRejects ==
  ASSUME TypeInv, NEW e \in Executors, StoreRejects(e)
  PROVE  TypeInv'
  <1> USE Sets DEF TypeInv, TypeOK, toolVars, Pcs, BootPcs, BodyPcs, WorkPcs,
                   UnstickPcs
  <1> DEFINE Locals == /\ PcJob' /\ pc' \in [Executors -> Pcs]
                       /\ at' \in [Executors -> Jobs \cup {NoJob}]
                       /\ tries' \in [Executors -> 0..MaxAttempts]
                       /\ exit' \in [Executors -> {0, 2, 3}]
                       /\ lost' \in [Executors -> BOOLEAN]
                       /\ loud' \in [Executors -> BOOLEAN]
  <1>1. CASE StoreFault(e)
    BY <1>1, TypeBodyGoto
  <1>2. CASE StartTorn(e)
    <2>1. at[e] \in WorkerItems /\ at[e] \in Items
      BY <1>2 DEF StartTorn, PcJob
    <2>2. Locals
      <3>1. PICK label \in {"completing", "failSelf"} : Goto(e, label)
        BY <1>2 DEF StartTorn
      <3>2. UNCHANGED execVars
        BY <1>2 DEF StartTorn
      <3>3. QED
        BY <2>1, <3>1, <3>2, StayType
    <2>3. RowsOK'
      BY <1>2, <2>1, RowType DEF StartTorn, States
    <2>4. faulted' \subseteq FaultFacts
      BY <1>2, <2>1, FaultedType DEF StartTorn
    <2>5. UNCHANGED <<jobVars, toolVars, outbox, audit, decision, post, crashes>>
      BY <1>2 DEF StartTorn
    <2>6. QED
      BY <2>2, <2>3, <2>4, <2>5 DEF RowsOK, jobVars
  <1>3. CASE DoneTorn(e)
    <2>1. at[e] \in WorkerItems /\ at[e] \in Items
      BY <1>3 DEF DoneTorn, PcJob
    <2>2. Locals
      BY <1>3, <2>1, StayType DEF DoneTorn
    <2>3. \E fields \in SUBSET ResultFields :
             WriteItem(at[e], "done", WithResult(fields))
      <3>1. result[at[e]] \in SUBSET ResultFields
        BY <2>1
      <3>2. QED
        BY <1>3, <3>1 DEF DoneTorn, ResultFields
    <2>4. RowsOK'
      BY <2>1, <2>3, RowType
    <2>5. UNCHANGED <<jobVars, toolVars, outbox, audit, decision, post, faultVars>>
      BY <1>3 DEF DoneTorn
    <2>6. QED
      BY <2>2, <2>4, <2>5 DEF RowsOK, jobVars, faultVars
  <1>4. CASE FailFails(e)
    <2>1. at[e] \in Jobs
      BY <1>4 DEF FailFails, PcJob
    <2>2. PICK label \in {"failLoud", "retry"} : Goto(e, label)
      BY <1>4 DEF FailFails
    <2>3. PcJob' /\ pc' \in [Executors -> Pcs]
      BY <1>4, <2>1, <2>2, GotoType DEF FailFails, execVars
    <2>4. /\ status' \in [Jobs -> {"none", "queued", "running", "completed",
                                    "failed"}]
          /\ attempts' \in [Jobs -> 0..MaxAttempts]
          /\ lease' \in [Jobs -> {"null", "future", "past"}]
          /\ aged' \subseteq Jobs
          /\ created' \in Seq(Jobs)
      <3>1. CASE FailRow(at[e])
        BY <2>1, <3>1, JobRowType
      <3>2. CASE UNCHANGED jobVars
        BY <3>2 DEF jobVars
      <3>3. QED
        BY <1>4, <3>1, <3>2 DEF FailFails
    <2>5. faulted' \subseteq FaultFacts
      BY <1>4, FaultedType DEF FailFails
    <2>6. UNCHANGED <<rowVars, execVars, toolVars, outbox, audit, decision, post,
                      crashes>>
      BY <1>4 DEF FailFails
    <2> HIDE DEF PcJob
    <2>7. QED
      BY <2>3, <2>4, <2>5, <2>6 DEF rowVars, execVars
  <1>5. CASE UnstickReadFails(e)
    <2>1. at[e] \in WorkerItems
      BY <1>5 DEF UnstickReadFails, PcJob
    <2>2. Locals
      BY <1>5, <2>1, StayType DEF UnstickReadFails
    <2>3. faulted' \subseteq FaultFacts
      BY <1>5, FaultedType DEF UnstickReadFails
    <2>4. UNCHANGED <<rowVars, jobVars, toolVars, outbox, audit, decision, post,
                      crashes>>
      BY <1>5 DEF UnstickReadFails
    <2>5. QED
      BY <2>2, <2>3, <2>4 DEF rowVars, jobVars
  <1>6. CASE UnstickFails(e)
    <2>1. at[e] \in WorkerItems /\ at[e] \in Items
      BY <1>6 DEF UnstickFails, PcJob
    <2>2. Locals
      BY <1>6, <2>1, UnstuckType DEF UnstickFails
    <2>3. RowsOK'
      BY <1>6, <2>1, RowType DEF UnstickFails, States
    <2>4. faulted' \subseteq FaultFacts
      BY <1>6, FaultedType DEF UnstickFails
    <2>5. UNCHANGED <<jobVars, toolVars, outbox, audit, decision, post, crashes>>
      BY <1>6 DEF UnstickFails
    <2>6. QED
      BY <2>2, <2>3, <2>4, <2>5 DEF RowsOK, jobVars
  <1>7. CASE NoticeRejected(e)
    <2>1. /\ post' = [post EXCEPT ![e] = {}]
          /\ UNCHANGED <<rowVars, jobVars, execVars, toolVars, outbox, decision,
                         crashes>>
      BY <1>7 DEF NoticeRejected
    <2>2. faulted' \subseteq FaultFacts
      <3>1. PICK S \in SUBSET Items :
               faulted' = faulted \cup {<<"notice", i>> : i \in S}
        BY <1>7, Zenon DEF NoticeRejected
      <3>2. faulted \subseteq FaultFacts
        OBVIOUS
      <3>3. {<<"notice", i>> : i \in S} \subseteq FaultFacts
        BY DEF FaultFacts
      <3>4. QED
        BY <3>1, <3>2, <3>3
    <2>3. audit' \subseteq AuditFacts
      <3>1. CASE UNCHANGED audit
        BY <3>1
      <3>2. CASE pc[e] = "completing" /\ audit' = audit \cup {<<"item_failed", at[e]>>}
        BY <3>2 DEF PcJob, AuditFacts
      <3>3. QED
        BY <1>7, <3>1, <3>2 DEF NoticeRejected
    <2>4. PcJob' /\ pc' \in [Executors -> Pcs]
      <3>1. UNCHANGED at
        BY <2>1 DEF execVars
      <3>2. CASE pc[e] = "reviewed" /\ Goto(e, "blocking")
        BY <3>1, <3>2, GotoType DEF PcJob
      <3>3. CASE pc[e] = "completing" /\ Goto(e, "failSelf")
        BY <3>1, <3>3, GotoType DEF PcJob
      <3>4. CASE Goto(e, "down")
        BY <3>1, <3>4, GotoType
      <3>5. CASE UNCHANGED pc
        BY <3>1, <3>5 DEF PcJob
      <3>6. QED
        BY <1>7, <3>2, <3>3, <3>4, <3>5 DEF NoticeRejected
    <2> HIDE DEF PcJob
    <2>5. QED
      BY <2>1, <2>2, <2>3, <2>4 DEF rowVars, jobVars, execVars
  <1> QED
    BY <1>1, <1>2, <1>3, <1>4, <1>5, <1>6, <1>7 DEF StoreRejects

LEMMA TypeClock ==
  ASSUME TypeInv, ClockNext
  PROVE  TypeInv'
  <1> USE Sets DEF TypeInv, TypeOK, PcJob, rowVars, jobVars, execVars, toolVars, faultVars
  <1>1. ASSUME NEW j \in Jobs, LeaseElapses(j) PROVE TypeInv'
    BY <1>1 DEF LeaseElapses
  <1>2. ASSUME NEW j \in Jobs, JobAges(j) PROVE TypeInv'
    BY <1>2 DEF JobAges
  <1>3. ASSUME NEW i \in Items, ItemIdles(i) PROVE TypeInv'
    BY <1>3 DEF ItemIdles
  <1> QED
    BY <1>1, <1>2, <1>3 DEF ClockNext

LEMMA TypeStep == TypeInv /\ [Next]_vars => TypeInv'
  <1> SUFFICES ASSUME TypeInv, [Next]_vars PROVE TypeInv'
    OBVIOUS
  <1>1. CASE ServerNext
    BY <1>1, TypeServer
  <1>2. ASSUME NEW e \in Executors, ExecutorStep(e) PROVE TypeInv'
    BY <1>2, TypeBoot, TypeLoop, TypeBodyGoto, TypeBodyItem, TypeBodyJob,
       TypeUnstick DEF ExecutorStep, BodyNext
  <1>3. ASSUME NEW e \in Executors, ExecutorEvent(e) PROVE TypeInv'
    BY <1>3, TypeBoot, TypeLoop, TypeRejects DEF ExecutorEvent
  <1>4. CASE ClockNext
    BY <1>4, TypeClock
  <1>5. CASE UNCHANGED vars
    BY <1>5 DEF vars, TypeInv, TypeOK, PcJob, rowVars, jobVars, execVars, toolVars, faultVars
  <1> QED
    BY <1>1, <1>2, <1>3, <1>4, <1>5 DEF Next

(* Every reachable state is well typed, and the job in an executor's hand  *)
(* is one its program counter allows.                                      *)
THEOREM TypeCorrect == Spec => []TypeOK
  <1>1. Spec => []TypeInv
    BY TypeInit, TypeStep, PTL DEF Spec
  <1> QED
    BY <1>1, PTL DEF TypeInv
-----------------------------------------------------------------------------
(* The queue implements the lifecycle of WorkItems: every step creates one *)
(* row, moves one row along the legal map, recovers stale rows, or leaves  *)
(* `state` alone.                                                          *)

LEMMA MoveRefines ==
  ASSUME NEW i \in Items, NEW from, NEW to \in States \ {"open"}, NEW opts,
         CanTransition(i, from, to, opts), WriteItem(i, to, opts)
  PROVE  Lifecycle!Next
  <1>1. LegalMove(i, state[i], to)
    BY DEF CanTransition, Legal
  <1>2. i \in Lifecycle!Items /\ to \in Lifecycle!States \ {"open"}
    BY DEF Lifecycle!Items, Items, Lifecycle!States, States
  <1>3. Lifecycle!LegalMove(i, state[i], to)
    BY <1>1 DEF LegalMove, Lifecycle!LegalMove, Allowed, Lifecycle!Allowed
  <1>4. Lifecycle!Move(i)
    BY <1>2, <1>3 DEF WriteItem, Lifecycle!Move
  <1> QED
    BY <1>2, <1>4 DEF Lifecycle!Next

LEMMA ServerRefines == TypeInv /\ ServerNext => [Lifecycle!Next]_state
  <1> SUFFICES ASSUME TypeInv, ServerNext PROVE [Lifecycle!Next]_state
    OBVIOUS
  <1>1. ASSUME NEW i \in Items, CreateWorkItem(i) \/ CreateWorkItemTorn(i)
        PROVE  Lifecycle!Next
    <2>1. i \in Lifecycle!Items /\ Lifecycle!Create(i)
      BY <1>1 DEF CreateWorkItem, CreateWorkItemTorn, Lifecycle!Create,
         Lifecycle!Items, Items
    <2>2. QED
      BY <2>1 DEF Lifecycle!Next
  <1>2. ASSUME NEW i \in Items, CancelApply(i) PROVE [Lifecycle!Next]_state
    <2>1. CASE /\ CanTransition(i, cancelling[i], "aborted", NoOpts)
               /\ WriteItem(i, "aborted", NoOpts)
      BY <1>2, <2>1, MoveRefines DEF States
    <2>2. CASE UNCHANGED rowVars
      BY <2>2 DEF rowVars
    <2>3. QED
      BY <1>2, <2>1, <2>2 DEF CancelApply
  <1>3. ASSUME NEW i \in ChatItems, ChatStep(i) PROVE [Lifecycle!Next]_state
    <2> DEFINE to == ChatNext(chat[i])
               opts == IF to = "done" THEN WithResult({"summary"}) ELSE NoOpts
    <2>1. i \in Items
      BY DEF Items
    <2>2. CASE CanTransition(i, chat[i], to, opts) /\ WriteItem(i, to, opts)
      <3>1. to \in {"claimed", "working", "done"}
        BY <1>3 DEF ChatStep, ChatNext, TypeInv, TypeOK
      <3>2. QED
        BY <2>1, <2>2, <3>1, MoveRefines DEF States
    <2>3. CASE UNCHANGED rowVars
      BY <2>3 DEF rowVars
    <2>4. QED
      BY <1>3, <2>2, <2>3 DEF ChatStep
  <1>4. ASSUME \/ \E i \in Items : CancelRead(i)
               \/ \E j \in Jobs : EnqueueJob(j)
               \/ \E i \in ChatItems : ChatRead(i)
               \/ \E i \in GitItems, d \in {"approved", "denied"} :
                     ResolveDelivery(i, d)
               \/ ServerCrash
        PROVE  UNCHANGED state
    BY <1>4 DEF CancelRead, EnqueueJob, ChatRead, ResolveDelivery, ServerCrash,
       rowVars
  <1> QED
    BY <1>1, <1>2, <1>3, <1>4 DEF ServerNext

(* The steps of an executor that leave every row of work_items alone. *)
KeepsItems(e) ==
    \/ FinishWrite(e) \/ Boot(e) \/ BootSweep(e) \/ SweepUnclaimedJobs(e)
    \/ RecoverSelect(e, "recoverClaimed", "claimed", "markClaimed")
    \/ RecoverSelect(e, "recoverWorking", "working", "markWorking")
    \/ ClaimNextJob(e) \/ Launch(e) \/ LaunchRefused(e) \/ Retry(e) \/ Reap(e)
    \/ ReapTorn(e) \/ RenewLease(e) \/ SandboxDies(e) \/ FailLoud(e)
    \/ ExecutorCrash(e) \/ RunPlainJob(e) \/ WorkFails(e)
    \/ RequestDelivery(e) \/ AwaitDecision(e) \/ StoreFault(e)
    \/ ReportSelf(e) \/ CompleteSelf(e) \/ FailSelf(e) \/ UnstickRead(e)
    \/ FailFails(e) \/ UnstickReadFails(e) \/ NoticeRejected(e)

LEMMA KeepsItemsRows ==
  ASSUME NEW e \in Executors, KeepsItems(e)
  PROVE  UNCHANGED rowVars
  BY DEF KeepsItems, FinishWrite, Boot, BootSweep, SweepUnclaimedJobs,
     RecoverSelect, ClaimNextJob, Launch, LaunchRefused, Retry, Reap, ReapTorn,
     RenewLease, SandboxDies, FailLoud, ExecutorCrash, RunPlainJob, WorkFails,
     RequestDelivery, AwaitDecision, StoreFault, ReportSelf, CompleteSelf,
     FailSelf, UnstickRead, FailFails, UnstickReadFails, NoticeRejected

LEMMA RecoverRefines ==
  ASSUME TypeInv, NEW e \in Executors, NEW from \in {"claimed", "working"},
         NEW label, NEW next, RecoverMark(e, label, from, next)
  PROVE  Lifecycle!Next
  <1> DEFINE S == {i \in StaleIn(from) : <<"blocked", i>> \in post[e]}
  <1>1. S \in SUBSET Items /\ \A i \in S : state[i] \in {"claimed", "working"}
    BY DEF StaleIn, TypeInv, TypeOK
  <1>2. state' = [i \in Items |-> IF i \in S THEN "blocked" ELSE state[i]]
    BY DEF RecoverMark
  <1> HIDE DEF S
  <1>3. Lifecycle!RecoverStale(S) /\ S \in SUBSET Lifecycle!Items
    BY <1>1, <1>2 DEF Lifecycle!RecoverStale, Lifecycle!Items, Items
  <1> QED
    BY <1>3 DEF Lifecycle!Next

LEMMA ExecutorRefines ==
  ASSUME TypeInv, NEW e \in Executors, ExecutorStep(e) \/ ExecutorEvent(e)
  PROVE  [Lifecycle!Next]_state
  <1> USE DEF States
  <1>1. CASE KeepsItems(e)
    BY <1>1, KeepsItemsRows DEF rowVars
  <1>2. ASSUME \/ RecoverMark(e, "markClaimed", "claimed", "recoverWorking")
               \/ RecoverMark(e, "markWorking", "working", "bootSweep")
        PROVE  Lifecycle!Next
    BY <1>2, RecoverRefines
  <1>3. ASSUME \/ ClaimItem(e) \/ StartItem(e) \/ FinishExtension(e)
               \/ ToReview(e) \/ ToDone(e) \/ BlockItem(e) \/ UnstickStart(e)
               \/ UnstickBlock(e) \/ StartTorn(e) \/ DoneTorn(e) \/ UnstickFails(e)
        PROVE  at[e] \in Items
    BY <1>3, Sets DEF ClaimItem, StartItem, FinishExtension, ToReview, ToDone,
       BlockItem, UnstickStart, UnstickBlock, StartTorn, DoneTorn, UnstickFails,
       TypeInv, PcJob, WorkPcs, UnstickPcs
  <1>4. CASE ClaimItem(e)
    <2>1. CASE WriteItem(at[e], "claimed", NoOpts) /\ CanClaimItem(at[e])
      <3>1. CanTransition(at[e], "open", "claimed", NoOpts)
        BY <2>1 DEF CanClaimItem, CanTransition, Legal, LegalMove, Allowed
      <3>2. QED
        BY <1>3, <1>4, <2>1, <3>1, MoveRefines
    <2>2. CASE UNCHANGED rowVars
      BY <2>2 DEF rowVars
    <2>3. QED
      BY <1>4, <2>1, <2>2 DEF ClaimItem
  <1>5. CASE StartItem(e)
    BY <1>3, <1>5, MoveRefines DEF StartItem, rowVars
  <1>6. CASE FinishExtension(e)
    BY <1>3, <1>6, MoveRefines DEF FinishExtension, rowVars
  <1>7. CASE ToReview(e)
    BY <1>3, <1>7, MoveRefines DEF ToReview, rowVars
  <1>8. CASE ToDone(e)
    BY <1>3, <1>8, MoveRefines DEF ToDone, rowVars
  <1>9. CASE BlockItem(e)
    BY <1>3, <1>9, MoveRefines DEF BlockItem, rowVars
  <1>10. CASE UnstickStart(e)
    BY <1>3, <1>10, MoveRefines DEF UnstickStart, rowVars
  <1>11. CASE UnstickBlock(e)
    BY <1>3, <1>11, MoveRefines DEF UnstickBlock, rowVars
  <1>12. CASE StartTorn(e)
    BY <1>3, <1>12, MoveRefines DEF StartTorn
  <1>13. CASE DoneTorn(e)
    <2>1. PICK from, fields :
             /\ CanTransition(at[e], from, "done", WithResult(fields))
             /\ WriteItem(at[e], "done", WithResult(fields))
      BY <1>13 DEF DoneTorn
    <2>2. QED
      BY <1>3, <1>13, <2>1, MoveRefines
  <1>14. CASE UnstickFails(e)
    BY <1>3, <1>14, MoveRefines DEF UnstickFails, rowVars
  <1> QED
    BY <1>1, <1>2, <1>4, <1>5, <1>6, <1>7, <1>8, <1>9, <1>10, <1>11, <1>12,
       <1>13, <1>14
       DEF ExecutorStep, ExecutorEvent, BootNext, BodyNext, UnstickNext,
       KeepsItems, StoreRejects

LEMMA StepRefines == TypeInv /\ [Next]_vars => [Lifecycle!Next]_state
  <1> SUFFICES ASSUME TypeInv, [Next]_vars PROVE [Lifecycle!Next]_state
    OBVIOUS
  <1>1. CASE ServerNext
    BY <1>1, ServerRefines
  <1>2. ASSUME NEW e \in Executors, ExecutorStep(e) \/ ExecutorEvent(e)
        PROVE  [Lifecycle!Next]_state
    BY <1>2, ExecutorRefines
  <1>3. CASE ClockNext
    BY <1>3 DEF ClockNext, LeaseElapses, JobAges, ItemIdles, rowVars
  <1>4. CASE UNCHANGED vars
    BY <1>4 DEF vars, rowVars
  <1> QED
    BY <1>1, <1>2, <1>3, <1>4 DEF Next

(* The queue implements the item lifecycle: whatever processes race, crash *)
(* or retry, a row of work_items is created once, moves only along         *)
(* ALLOWED_TRANSITIONS or the boot-time recovery, and never leaves a       *)
(* settled state.                                                          *)
THEOREM ImplementsLifecycle == Spec => LifecycleSpec
  <1>1. Init => Lifecycle!Init
    BY DEF Init, Lifecycle!Init, Lifecycle!Items, Items
  <1>2. Spec => []TypeInv
    BY TypeInit, TypeStep, PTL DEF Spec
  <1>3. LifecycleSpec <=> Lifecycle!Init /\ [][Lifecycle!Next]_state
    BY DEF LifecycleSpec, Lifecycle!Spec
  <1> QED
    BY <1>1, <1>2, <1>3, StepRefines, PTL DEF Spec
-----------------------------------------------------------------------------
(***************************************************************************)
(* The safety invariants. The inductive invariant adds to the properties   *)
(* what they rest on: which rows exist, and what each program counter of   *)
(* the executor knows of the item and the job it holds.                    *)
(***************************************************************************)
Terminal == {"completed", "failed"}

(* A worker item's row is inserted before its job's row. *)
ItemFirst ==
    \A i \in WorkerItems : state[i] = "none" => status[i] = "none"

(* An executor holds only jobs that exist. *)
HeldExists ==
    \A e \in Executors : at[e] \in Jobs => status[at[e]] # "none"

(* An item is worked on only after it was claimed. *)
WorkClaimed ==
    \A e \in Executors : pc[e] \in WorkPcs => state[at[e]] \notin {"none", "open"}

(* An item whose child has just claimed it is still claimed, or has been   *)
(* settled behind the child's back, or its job is over.                    *)
GotClaimed ==
    \A e \in Executors :
        pc[e] = "got" => \/ state[at[e]] \in Settled \cup {"claimed"}
                         \/ status[at[e]] \in Terminal

(* unstickWorkItem runs after the job has been failed. *)
UnstickAfterFail ==
    \A e \in Executors : pc[e] \in UnstickPcs => status[at[e]] \in Terminal

(* What lets the child complete the job of a worker item. *)
Accounted(i) ==
    \/ state[i] \in Settled
    \/ <<"item_failed", i>> \in audit
    \/ <<"start", i>> \in faulted

CompletingAccounted ==
    \A e \in Executors :
        pc[e] = "completing" /\ at[e] \in WorkerItems
            => Accounted(at[e]) \/ status[at[e]] \in Terminal

(* The child goes on to review only with the human's decision. *)
ApprovedFirst ==
    \A e \in Executors :
        pc[e] = "approved" => decision[at[e]] = "approved"

ExecInv == ItemFirst /\ HeldExists /\ WorkClaimed /\ OneRunner

AccountInv == GotClaimed /\ UnstickAfterFail /\ CompletingAccounted
              /\ CompletedIsAccountedFor

ConsentInv == ApprovedFirst /\ Obligations

SafetyInv == TypeInv /\ ExecInv /\ AccountInv /\ ConsentInv

LEMMA SafetyInit == Init => SafetyInv
  <1> SUFFICES ASSUME Init PROVE SafetyInv
    OBVIOUS
  <1>1. TypeInv
    BY TypeInit
  <1>2. ExecInv
    BY Sets DEF Init, ExecInv, ItemFirst, HeldExists, WorkClaimed, OneRunner,
       WorkPcs
  <1>3. AccountInv
    BY Sets DEF Init, AccountInv, GotClaimed, UnstickAfterFail,
       CompletingAccounted, CompletedIsAccountedFor, UnstickPcs
  <1>4. ConsentInv
    BY Sets DEF Init, ConsentInv, ApprovedFirst, Obligations
  <1> QED
    BY <1>1, <1>2, <1>3, <1>4 DEF SafetyInv
-----------------------------------------------------------------------------
(* What every step leaves alone. *)

(* A row is never deleted, an item never returns to `open`, a settled item *)
(* stays settled: read off the refinement of WorkItems.                    *)
LEMMA ItemsAdvance ==
  ASSUME TypeInv, [Next]_vars, NEW i \in Items
  PROVE  /\ state[i] # "none" => state'[i] # "none"
         /\ state[i] \notin {"none", "open"} => state'[i] \notin {"none", "open"}
         /\ state[i] \in Settled => state'[i] = state[i]
         /\ state[i] = "claimed"
               => state'[i] \in Settled \cup {"claimed", "working"}
  <1> USE DEF Settled
  <1>1. i \in Lifecycle!Items /\ state \in [Lifecycle!Items -> States]
    BY DEF Lifecycle!Items, Items, TypeInv, TypeOK
  <1>2. [Lifecycle!Next]_state
    BY StepRefines
  <1>3. CASE UNCHANGED state
    BY <1>3
  <1>4. CASE \E k \in Lifecycle!Items : Lifecycle!Create(k)
    BY <1>1, <1>4 DEF Lifecycle!Create
  <1>5. CASE \E k \in Lifecycle!Items : Lifecycle!Move(k)
    <2>1. PICK k \in Lifecycle!Items, to \in Lifecycle!States \ {"open"} :
             /\ Lifecycle!LegalMove(k, state[k], to)
             /\ state' = [state EXCEPT ![k] = to]
      BY <1>5 DEF Lifecycle!Move
    <2>2. CASE k = i
      BY <1>1, <2>1, <2>2 DEF Lifecycle!LegalMove, Lifecycle!Allowed,
         Lifecycle!States, States
    <2>3. CASE k # i
      BY <1>1, <2>1, <2>3
    <2>4. QED
      BY <2>2, <2>3
  <1>6. CASE \E S \in SUBSET Lifecycle!Items : Lifecycle!RecoverStale(S)
    BY <1>1, <1>6 DEF Lifecycle!RecoverStale
  <1> QED
    BY <1>2, <1>3, <1>4, <1>5, <1>6 DEF Lifecycle!Next

(* The steps that touch no row of worker_jobs. *)
LEMMA KeepsJobs ==
  ASSUME TypeInv, [Next]_vars
  PROVE  \/ UNCHANGED status
         \/ \E i \in WorkerItems : CreateWorkItem(i)
         \/ \E j \in Jobs : EnqueueJob(j)
         \/ \E e \in Executors :
               \/ BootSweep(e) \/ SweepUnclaimedJobs(e) \/ ClaimNextJob(e)
               \/ Retry(e) \/ FailLoud(e) \/ CompleteSelf(e) \/ FailSelf(e)
               \/ FailFails(e)
  <1> USE DEF rowVars, jobVars
  <1>1. CASE ServerNext
    <2>1. ASSUME NEW i \in Items, CreateWorkItem(i)
          PROVE  UNCHANGED status \/ i \in WorkerItems
      BY <2>1 DEF CreateWorkItem
    <2>2. QED
      BY <1>1, <2>1 DEF ServerNext, CreateWorkItemTorn, CancelRead, CancelApply,
         ChatRead, ChatStep, ResolveDelivery, ServerCrash
  <1>2. ASSUME NEW e \in Executors, ExecutorStep(e) \/ ExecutorEvent(e)
        PROVE  \/ UNCHANGED status
               \/ BootSweep(e) \/ SweepUnclaimedJobs(e) \/ ClaimNextJob(e)
               \/ Retry(e) \/ FailLoud(e) \/ CompleteSelf(e) \/ FailSelf(e)
               \/ FailFails(e)
    BY <1>2 DEF ExecutorStep, ExecutorEvent, BootNext, BodyNext, UnstickNext,
       FinishWrite, Boot, RecoverSelect, RecoverMark, Launch, LaunchRefused,
       Reap, ReapTorn, RenewLease, SandboxDies, ExecutorCrash, ClaimItem,
       RunPlainJob, StartItem, WorkFails, FinishExtension, RequestDelivery,
       AwaitDecision, ToReview, ToDone, BlockItem, ReportSelf, StoreFault,
       UnstickRead, UnstickStart, UnstickBlock, StoreRejects, StartTorn,
       DoneTorn, UnstickReadFails, UnstickFails, NoticeRejected
  <1>3. CASE ClockNext
    BY <1>3 DEF ClockNext, LeaseElapses, JobAges, ItemIdles
  <1>4. CASE UNCHANGED vars
    BY <1>4 DEF vars
  <1> QED
    BY <1>1, <1>2, <1>3, <1>4 DEF Next

(* The job bus: jobs are not deleted, a finished job keeps its status, and *)
(* only the child that holds a running job completes it.                   *)
LEMMA JobsAdvance ==
  ASSUME TypeInv, ItemFirst, [Next]_vars, NEW j \in Jobs
  PROVE  /\ status[j] # "none" => status'[j] # "none"
         /\ status[j] \in Terminal => status'[j] = status[j]
         /\ status[j] # "completed" /\ status'[j] = "completed"
               => \E e \in Executors : /\ CompleteSelf(e) /\ at[e] = j
                                       /\ status[j] = "running"
  <1> USE DEF Terminal
  <1>1. /\ status \in [Jobs -> {"none", "queued", "running", "completed", "failed"}]
        /\ aged \subseteq Jobs
        /\ \A e \in Executors :
              pc[e] \in {"retry", "failLoud", "completing", "failSelf"}
                 => at[e] \in Jobs
    BY DEF TypeInv, TypeOK, PcJob
  <1>2. CASE UNCHANGED status
    BY <1>1, <1>2
  <1>3. ASSUME NEW i \in WorkerItems, CreateWorkItem(i)
        PROVE  /\ status[j] # "none" => status'[j] # "none"
               /\ status[j] \in Terminal => status'[j] = status[j]
               /\ status'[j] = "completed" => status[j] = "completed"
    BY <1>1, <1>3, Sets DEF ItemFirst, CreateWorkItem
  <1>4. ASSUME NEW k \in Jobs, EnqueueJob(k)
        PROVE  /\ status[j] # "none" => status'[j] # "none"
               /\ status[j] \in Terminal => status'[j] = status[j]
               /\ status'[j] = "completed" => status[j] = "completed"
    BY <1>1, <1>4 DEF EnqueueJob
  <1>5. ASSUME NEW e \in Executors, BootSweep(e) \/ SweepUnclaimedJobs(e)
        PROVE  /\ status[j] # "none" => status'[j] # "none"
               /\ status[j] \in Terminal => status'[j] = status[j]
               /\ status'[j] = "completed" => status[j] = "completed"
    BY <1>1, <1>5 DEF BootSweep, SweepUnclaimedJobs, SweepRows, Sweepable
  <1>6. ASSUME NEW e \in Executors, ClaimNextJob(e)
        PROVE  /\ status[j] # "none" => status'[j] # "none"
               /\ status[j] \in Terminal => status'[j] = status[j]
               /\ status'[j] = "completed" => status[j] = "completed"
    <2>1. PICK k \in Jobs : NextJob(k) /\ ClaimRow(k)
      BY <1>6 DEF ClaimNextJob
    <2>2. status[k] \in {"queued", "running"}
      BY <2>1 DEF NextJob, Claimable
    <2>3. QED
      BY <1>1, <2>1, <2>2 DEF ClaimRow
  <1>7. ASSUME NEW e \in Executors,
               Retry(e) \/ FailLoud(e) \/ FailSelf(e) \/ FailFails(e)
        PROVE  /\ status[j] # "none" => status'[j] # "none"
               /\ status[j] \in Terminal => status'[j] = status[j]
               /\ status'[j] = "completed" => status[j] = "completed"
    <2>1. /\ at[e] \in Jobs
          /\ RequeueRow(at[e]) \/ FailRow(at[e]) \/ UNCHANGED jobVars
      BY <1>1, <1>7 DEF Retry, FailLoud, FailSelf, FailFails
    <2>2. QED
      BY <1>1, <2>1 DEF RequeueRow, FailRow, jobVars
  <1>8. ASSUME NEW e \in Executors, CompleteSelf(e)
        PROVE  /\ status[j] # "none" => status'[j] # "none"
               /\ status[j] \in Terminal => status'[j] = status[j]
               /\ status'[j] = "completed" /\ status[j] # "completed"
                     => at[e] = j /\ status[j] = "running"
    <2>1. at[e] \in Jobs /\ CompleteRow(at[e])
      BY <1>1, <1>8 DEF CompleteSelf
    <2>2. QED
      BY <1>1, <2>1 DEF CompleteRow, jobVars
  <1> QED
    BY <1>2, <1>3, <1>4, <1>5, <1>6, <1>7, <1>8, KeepsJobs

(* The audit trail and the history are append-only, and a decision is      *)
(* recorded once.                                                          *)
LEMMA TrailGrows ==
  ASSUME TypeInv, [Next]_vars
  PROVE  /\ audit \subseteq audit' /\ faulted \subseteq faulted'
         /\ \A i \in GitItems : decision[i] = "approved" => decision'[i] = "approved"
  <1> USE DEF faultVars
  <1>1. CASE ServerNext
    BY <1>1 DEF ServerNext, CreateWorkItem, CreateWorkItemTorn, CancelRead,
       CancelApply, EnqueueJob, ChatRead, ChatStep, ResolveDelivery, ServerCrash,
       TypeInv, TypeOK
  <1>2. ASSUME NEW e \in Executors, ExecutorStep(e) \/ ExecutorEvent(e)
        PROVE  /\ audit \subseteq audit' /\ faulted \subseteq faulted'
               /\ UNCHANGED decision
    BY <1>2 DEF ExecutorStep, ExecutorEvent, BootNext, BodyNext, UnstickNext,
       FinishWrite, Boot, RecoverSelect, RecoverMark, Launch, LaunchRefused,
       Reap, ReapTorn, RenewLease, SandboxDies, ExecutorCrash, ClaimItem,
       RunPlainJob, StartItem, WorkFails, FinishExtension, RequestDelivery,
       AwaitDecision, ToReview, ToDone, BlockItem, ReportSelf, StoreFault,
       UnstickRead, UnstickStart, UnstickBlock, BootSweep, SweepUnclaimedJobs,
       SweepRows, ClaimNextJob, Retry, FailLoud, CompleteSelf, FailSelf,
       StoreRejects, StartTorn, DoneTorn, FailFails, UnstickReadFails,
       UnstickFails, NoticeRejected
  <1>3. CASE ClockNext \/ UNCHANGED vars
    BY <1>3 DEF ClockNext, LeaseElapses, JobAges, ItemIdles, vars
  <1> QED
    BY <1>1, <1>2, <1>3 DEF Next
-----------------------------------------------------------------------------
(* What one executor's step does to its own program counter. *)

(* The server and the clock move no executor, an executor moves only       *)
(* itself.                                                                 *)
LEMMA OthersStay ==
  ASSUME TypeInv, [Next]_vars, NEW f \in Executors
  PROVE  \/ pc'[f] = pc[f] /\ at'[f] = at[f]
         \/ ExecutorStep(f) \/ ExecutorEvent(f)
  <1> USE DEF execVars
  <1>1. CASE ServerNext
    BY <1>1 DEF ServerNext, CreateWorkItem, CreateWorkItemTorn, CancelRead,
       CancelApply, EnqueueJob, ChatRead, ChatStep, ResolveDelivery, ServerCrash
  <1>2. ASSUME NEW e \in Executors, ExecutorStep(e) \/ ExecutorEvent(e), e # f
        PROVE  pc'[f] = pc[f] /\ at'[f] = at[f]
    <2>1. \/ UNCHANGED pc
          \/ \E label : Goto(e, label)
      BY <1>2 DEF ExecutorStep, ExecutorEvent, BootNext, BodyNext, UnstickNext,
         FinishWrite, Boot, RecoverSelect, RecoverMark, Launch, LaunchRefused,
         Reap, ReapTorn, RenewLease, SandboxDies, ExecutorCrash, ClaimItem,
         RunPlainJob, StartItem, WorkFails, FinishExtension, RequestDelivery,
         AwaitDecision, ToReview, ToDone, BlockItem, ReportSelf, StoreFault,
         UnstickRead, UnstickStart, UnstickBlock, BootSweep, SweepUnclaimedJobs,
         ClaimNextJob, Retry, FailLoud, CompleteSelf, FailSelf, Exit, Unstuck,
         StoreRejects, StartTorn, DoneTorn, FailFails, UnstickReadFails,
         UnstickFails, NoticeRejected, Release
    <2>2. \/ UNCHANGED at
          \/ \E j : at' = [at EXCEPT ![e] = j]
      BY <1>2 DEF ExecutorStep, ExecutorEvent, BootNext, BodyNext, UnstickNext,
         FinishWrite, Boot, RecoverSelect, RecoverMark, Launch, LaunchRefused,
         Reap, ReapTorn, RenewLease, SandboxDies, ExecutorCrash, ClaimItem,
         RunPlainJob, StartItem, WorkFails, FinishExtension, RequestDelivery,
         AwaitDecision, ToReview, ToDone, BlockItem, ReportSelf, StoreFault,
         UnstickRead, UnstickStart, UnstickBlock, BootSweep, SweepUnclaimedJobs,
         ClaimNextJob, Retry, FailLoud, CompleteSelf, FailSelf, Exit, Unstuck,
         StoreRejects, StartTorn, DoneTorn, FailFails, UnstickReadFails,
         UnstickFails, NoticeRejected, Release
    <2>3. QED
      BY <1>2, <2>1, <2>2 DEF Goto, TypeInv, TypeOK
  <1>3. CASE ClockNext \/ UNCHANGED vars
    BY <1>3 DEF ClockNext, LeaseElapses, JobAges, ItemIdles, vars
  <1> QED
    BY <1>1, <1>2, <1>3 DEF Next

(* Where a step of e can lead, and what it must have seen to get there. *)
OwnMove(e) ==
    /\ at'[e] \in Jobs => at'[e] = at[e] \/ status'[at'[e]] = "running"
    /\ pc'[e] \in WorkPcs \cup UnstickPcs \cup {"completing"} => at'[e] = at[e]
    /\ pc'[e] \in WorkPcs =>
          \/ pc[e] \in WorkPcs
          \/ ClaimItem(e) /\ pc'[e] = "got" /\ state[at[e]] = "open"
             /\ state'[at[e]] = "claimed"
    /\ pc'[e] = "got" /\ pc[e] \in WorkPcs => pc[e] = "got"
    /\ pc'[e] = "approved" /\ pc[e] # "approved"
          => at[e] \in GitItems /\ decision[at[e]] = "approved"
    /\ pc'[e] \in UnstickPcs /\ pc[e] \notin UnstickPcs => FailRow(at[e])
    /\ pc'[e] = "completing" /\ pc[e] # "completing"
          => \/ at[e] \in PlainJobs
             \/ state'[at[e]] \in Settled
             \/ <<"item_failed", at[e]>> \in audit'
             \/ <<"start", at[e]>> \in faulted'
             \/ pc[e] = "got" /\ state[at[e]] # "claimed"

LEMMA OwnMoves ==
  ASSUME TypeInv, NEW e \in Executors, ExecutorStep(e) \/ ExecutorEvent(e)
  PROVE  OwnMove(e)
  <1> USE DEF OwnMove, WorkPcs, UnstickPcs
  <1>1. /\ pc \in [Executors -> Pcs]
        /\ at \in [Executors -> Jobs \cup {NoJob}]
        /\ status \in [Jobs -> {"none", "queued", "running", "completed", "failed"}]
        /\ state \in [Items -> States]
        /\ NoJob \notin Jobs
    BY Sets DEF TypeInv, TypeOK
  <1>2. ASSUME pc'[e] = pc[e], at'[e] = at[e] PROVE OwnMove(e)
    BY <1>2
  <1>3. ASSUME NEW label, Goto(e, label), UNCHANGED at,
               label \notin WorkPcs \cup UnstickPcs \cup {"completing"}
        PROVE  OwnMove(e)
    BY <1>1, <1>3 DEF Goto
  <1>4. ASSUME NEW label, Goto(e, label), Release(e),
               label \notin WorkPcs \cup UnstickPcs \cup {"completing"}
        PROVE  OwnMove(e)
    BY <1>1, <1>4 DEF Goto, Release
  <1>5. CASE \/ FinishWrite(e) \/ SweepUnclaimedJobs(e) \/ RenewLease(e)
    BY <1>2, <1>5 DEF FinishWrite, SweepUnclaimedJobs, RenewLease, execVars
  <1>6. CASE BootNext(e)
    BY <1>3, <1>6 DEF BootNext, Boot, RecoverSelect, RecoverMark, BootSweep, execVars
  <1>7. CASE ClaimNextJob(e)
    <2>1. PICK j \in Jobs : ClaimRow(j) /\ at' = [at EXCEPT ![e] = j]
      BY <1>7 DEF ClaimNextJob
    <2>2. QED
      BY <1>1, <1>7, <2>1 DEF ClaimNextJob, ClaimRow, Goto
  <1>8. CASE Launch(e) \/ LaunchRefused(e) \/ ReapTorn(e) \/ SandboxDies(e)
             \/ StoreFault(e)
    BY <1>3, <1>8 DEF Launch, LaunchRefused, ReapTorn, SandboxDies, StoreFault,
       execVars
  <1>9. CASE Retry(e) \/ ExecutorCrash(e)
    BY <1>4, <1>9 DEF Retry, ExecutorCrash
  <1>10. CASE Reap(e)
    BY <1>3, <1>4, <1>10 DEF Reap, execVars
  <1>11. CASE FailLoud(e)
    <2>1. CASE Goto(e, "unstickRead") /\ UNCHANGED at
      BY <1>1, <1>11, <2>1 DEF FailLoud, Goto
    <2>2. CASE Goto(e, "idle") /\ Release(e)
      BY <1>4, <2>2
    <2>3. QED
      BY <1>11, <2>1, <2>2 DEF FailLoud
  <1>12. CASE ClaimItem(e)
    <2>1. at[e] \in Items /\ UNCHANGED at
      BY <1>12 DEF ClaimItem
    <2>2. CASE CanClaimItem(at[e]) /\ WriteItem(at[e], "claimed", NoOpts)
               /\ Goto(e, "got")
      <3>1. pc'[e] = "got" /\ at'[e] = at[e] /\ pc[e] = "start"
        BY <1>1, <1>12, <2>1, <2>2 DEF Goto, ClaimItem
      <3>2. state[at[e]] = "open" /\ state'[at[e]] = "claimed"
        BY <1>1, <2>1, <2>2 DEF CanClaimItem, WriteItem
      <3>3. QED
        BY <1>12, <3>1, <3>2
    <2>3. CASE state[at[e]] \in Settled /\ Goto(e, "completing") /\ UNCHANGED rowVars
      BY <1>1, <2>1, <2>3 DEF Goto, rowVars
    <2>4. CASE Exit(e, 3)
      BY <1>3, <2>1, <2>4 DEF Exit
    <2>5. QED
      BY <1>12, <2>2, <2>3, <2>4 DEF ClaimItem, AlreadySettled
  <1>13. CASE RunPlainJob(e)
    BY <1>1, <1>13 DEF RunPlainJob, Goto, execVars
  <1>14. CASE StartItem(e)
    <2>1. UNCHANGED at /\ pc[e] = "got"
      BY <1>14 DEF StartItem, execVars
    <2>2. CASE Goto(e, "working")
      BY <1>1, <2>1, <2>2 DEF Goto
    <2>3. CASE /\ ~CanTransition(at[e], "claimed", "working", NoOpts)
               /\ Goto(e, "completing")
      <3>1. state[at[e]] # "claimed"
        BY <2>3 DEF CanTransition, Legal, LegalMove, Allowed
      <3>2. QED
        BY <1>1, <2>1, <2>3, <3>1 DEF Goto
    <2>4. QED
      BY <1>14, <2>2, <2>3 DEF StartItem
  <1>15. CASE WorkFails(e) \/ RequestDelivery(e)
    BY <1>1, <1>15 DEF WorkFails, RequestDelivery, Goto, execVars
  <1>16. CASE FinishExtension(e)
    <2>1. /\ pc[e] = "working" /\ at[e] \in Items /\ UNCHANGED at
      BY <1>16, Sets DEF FinishExtension, execVars
    <2>2. PICK fields : \/ /\ WriteItem(at[e], "done", WithResult(fields))
                           /\ Goto(e, "completing")
                        \/ Goto(e, "blocking")
      BY <1>16 DEF FinishExtension
    <2>3. QED
      BY <1>1, <2>1, <2>2 DEF WriteItem, Goto, Settled
  <1>17. CASE AwaitDecision(e)
    <2>1. /\ pc[e] = "awaiting" /\ at[e] \in GitItems /\ UNCHANGED at
      BY <1>17 DEF AwaitDecision, execVars, TypeInv, PcJob
    <2>2. \/ decision[at[e]] = "approved" /\ Goto(e, "approved")
          \/ Goto(e, "blocking")
      BY <1>17 DEF AwaitDecision, DeliveryApproved
    <2>3. QED
      BY <1>1, <2>1, <2>2 DEF Goto
  <1>18. CASE ToReview(e)
    <2>1. pc[e] = "approved" /\ UNCHANGED at
      BY <1>18 DEF ToReview, execVars
    <2>2. Goto(e, "reviewed") \/ Goto(e, "blocking")
      BY <1>18 DEF ToReview
    <2>3. QED
      BY <1>1, <2>1, <2>2 DEF Goto
  <1>19. CASE ToDone(e)
    <2>1. pc[e] = "reviewed" /\ UNCHANGED at /\ at[e] \in Items
      BY <1>19, Sets DEF ToDone, execVars, TypeInv, PcJob
    <2>2. \/ /\ WriteItem(at[e], "done", WithResult(result[at[e]]))
             /\ Goto(e, "completing")
          \/ Goto(e, "blocking")
      BY <1>19 DEF ToDone
    <2>3. QED
      BY <1>1, <2>1, <2>2 DEF Goto, WriteItem, Settled
  <1>20. CASE BlockItem(e)
    <2>1. /\ pc[e] = "blocking" /\ UNCHANGED at /\ at[e] \in Items
          /\ Goto(e, "completing")
      BY <1>20, Sets DEF BlockItem, execVars, TypeInv, PcJob
    <2>2. \/ WriteItem(at[e], "blocked", WithEvidence)
          \/ <<"item_failed", at[e]>> \in audit'
      BY <1>20 DEF BlockItem
    <2>3. QED
      BY <1>1, <2>1, <2>2 DEF Goto, WriteItem, Settled
  <1>21. CASE CompleteSelf(e) \/ ReportSelf(e)
    BY <1>3, <1>21 DEF CompleteSelf, ReportSelf, Exit, execVars
  <1>22. CASE FailSelf(e)
    <2>1. UNCHANGED at /\ FailRow(at[e]) /\ (Goto(e, "unstickRead") \/ Exit(e, 2))
      BY <1>22 DEF FailSelf
    <2>2. QED
      BY <1>1, <2>1 DEF Exit, Goto
  <1>23. CASE UnstickNext(e)
    <2>1. pc[e] \in UnstickPcs
      BY <1>23 DEF UnstickNext, UnstickRead, UnstickStart, UnstickBlock
    <2>2. CASE Unstuck(e)
      BY <1>3, <1>4, <2>2 DEF Unstuck, Exit
    <2>3. CASE UNCHANGED at /\ \E label \in UnstickPcs : Goto(e, label)
      BY <1>1, <2>1, <2>3 DEF Goto
    <2>4. QED
      BY <1>23, <2>2, <2>3 DEF UnstickNext, UnstickRead, UnstickStart, UnstickBlock,
         execVars
  <1>24. CASE StartTorn(e)
    <2>1. UNCHANGED at /\ pc[e] = "got"
      BY <1>24 DEF StartTorn, execVars
    <2>2. CASE Goto(e, "completing") /\ <<"start", at[e]>> \in faulted'
      BY <1>1, <2>1, <2>2 DEF Goto
    <2>3. CASE Goto(e, "failSelf")
      BY <1>3, <2>1, <2>3
    <2>4. QED
      BY <1>24, <2>2, <2>3 DEF StartTorn
  <1>25. CASE DoneTorn(e)
    <2>1. pc'[e] = "blocking" /\ at'[e] = at[e] /\ pc[e] \in {"working", "reviewed"}
      BY <1>1, <1>25 DEF DoneTorn, Goto, execVars
    <2>2. QED
      BY <2>1
  <1>26. CASE FailFails(e) \/ UnstickReadFails(e)
    BY <1>3, <1>26 DEF FailFails, UnstickReadFails, execVars
  <1>27. CASE UnstickFails(e)
    <2>1. Unstuck(e)
      BY <1>27 DEF UnstickFails
    <2>2. QED
      BY <1>3, <1>4, <2>1 DEF Unstuck, Exit
  <1>28. CASE NoticeRejected(e)
    <2>1. at'[e] = at[e] /\ UNCHANGED at
      BY <1>28 DEF NoticeRejected, execVars
    <2>2. CASE UNCHANGED pc
      BY <1>2, <2>1, <2>2
    <2>3. CASE pc[e] = "reviewed" /\ Goto(e, "blocking")
      BY <1>1, <2>1, <2>3 DEF Goto
    <2>4. CASE Goto(e, "failSelf") \/ Goto(e, "down")
      BY <1>3, <2>1, <2>4
    <2>5. QED
      BY <1>28, <2>2, <2>3, <2>4 DEF NoticeRejected
  <1> QED
    BY <1>5, <1>6, <1>7, <1>8, <1>9, <1>10, <1>11, <1>12, <1>13, <1>14, <1>15,
       <1>16, <1>17, <1>18, <1>19, <1>20, <1>21, <1>22, <1>23, <1>24, <1>25,
       <1>26, <1>27, <1>28
       DEF ExecutorStep, ExecutorEvent, BodyNext, StoreRejects
-----------------------------------------------------------------------------
(* The inductive step, one part of the invariant at a time. *)

LEMMA ExecStep == SafetyInv /\ [Next]_vars => ExecInv'
  <1> SUFFICES ASSUME SafetyInv, [Next]_vars PROVE ExecInv'
    OBVIOUS
  <1> USE DEF SafetyInv, ExecInv
  <1>1. ItemFirst'
    <2> SUFFICES ASSUME NEW i \in WorkerItems, state'[i] = "none"
                 PROVE  status'[i] = "none"
      BY DEF ItemFirst
    <2>1. i \in Items /\ i \in Jobs
      BY Sets
    <2>2. state[i] = "none" /\ status[i] = "none"
      BY <2>1, ItemsAdvance DEF ItemFirst
    <2>3. CASE UNCHANGED status
      BY <2>2, <2>3
    <2>4. ASSUME NEW k \in WorkerItems, CreateWorkItem(k)
          PROVE  status'[i] = "none"
      <3>1. i # k
        BY <2>1, <2>4 DEF CreateWorkItem, TypeInv, TypeOK
      <3>2. QED
        BY <2>1, <2>2, <2>4, <3>1 DEF CreateWorkItem, TypeInv, TypeOK
    <2>5. ASSUME NEW j \in Jobs, EnqueueJob(j) PROVE status'[i] = "none"
      BY <2>1, <2>2, <2>5, QueueAssumption DEF EnqueueJob, TypeInv, TypeOK
    <2>6. ASSUME NEW e \in Executors,
                 \/ BootSweep(e) \/ SweepUnclaimedJobs(e) \/ ClaimNextJob(e)
                 \/ Retry(e) \/ FailLoud(e) \/ CompleteSelf(e) \/ FailSelf(e)
                 \/ FailFails(e)
          PROVE  status'[i] = "none"
      <3> USE DEF TypeInv, TypeOK
      <3>1. CASE BootSweep(e) \/ SweepUnclaimedJobs(e)
        BY <2>1, <2>2, <3>1 DEF BootSweep, SweepUnclaimedJobs, SweepRows, Sweepable
      <3>2. CASE ClaimNextJob(e)
        BY <2>1, <2>2, <3>2 DEF ClaimNextJob, NextJob, Claimable, ClaimRow
      <3>3. CASE \/ Retry(e) \/ FailLoud(e) \/ CompleteSelf(e) \/ FailSelf(e)
                 \/ FailFails(e)
        <4>1. \/ RequeueRow(at[e]) \/ FailRow(at[e]) \/ CompleteRow(at[e])
              \/ UNCHANGED jobVars
          BY <3>3 DEF Retry, FailLoud, CompleteSelf, FailSelf, FailFails
        <4>2. QED
          BY <2>1, <2>2, <4>1 DEF RequeueRow, FailRow, CompleteRow, jobVars
      <3>4. QED
        BY <2>6, <3>1, <3>2, <3>3
    <2>7. QED
      BY <2>3, <2>4, <2>5, <2>6, KeepsJobs
  <1>2. HeldExists'
    <2> SUFFICES ASSUME NEW e \in Executors, at'[e] \in Jobs
                 PROVE  status'[at'[e]] # "none"
      BY DEF HeldExists
    <2>1. at'[e] = at[e] \/ status'[at'[e]] = "running"
      BY OthersStay, OwnMoves DEF OwnMove
    <2>2. CASE at'[e] = at[e]
      BY <2>2, JobsAdvance DEF HeldExists
    <2>3. QED
      BY <2>1, <2>2
  <1>3. ASSUME NEW e \in Executors, pc'[e] \in WorkPcs
        PROVE  /\ at'[e] = at[e] /\ at[e] \in Items
               /\ \/ pc[e] \in WorkPcs
                  \/ ClaimItem(e) /\ state[at[e]] = "open"
                     /\ state'[at[e]] = "claimed"
    <2>1. \/ pc'[e] = pc[e] /\ at'[e] = at[e]
          \/ OwnMove(e)
      BY OthersStay, OwnMoves
    <2>2. CASE pc'[e] = pc[e] /\ at'[e] = at[e]
      BY <1>3, <2>2, Sets DEF TypeInv, PcJob
    <2>3. CASE OwnMove(e)
      BY <1>3, <2>3, Sets DEF OwnMove, TypeInv, PcJob, ClaimItem
    <2>4. QED
      BY <2>1, <2>2, <2>3
  <1>4. WorkClaimed'
    <2> SUFFICES ASSUME NEW e \in Executors, pc'[e] \in WorkPcs
                 PROVE  state'[at'[e]] \notin {"none", "open"}
      BY DEF WorkClaimed
    <2>1. CASE pc[e] \in WorkPcs
      BY <1>3, <2>1, ItemsAdvance DEF WorkClaimed
    <2>2. CASE pc[e] \notin WorkPcs
      BY <1>3, <2>2
    <2>3. QED
      BY <2>1, <2>2
  <1>5. OneRunner'
    <2> SUFFICES ASSUME NEW e1 \in Executors, NEW e2 \in Executors, e1 # e2,
                        at'[e1] = at'[e2], pc'[e1] \in WorkPcs, pc'[e2] \in WorkPcs
                 PROVE  FALSE
      BY DEF OneRunner
    <2>1. at[e1] = at[e2] /\ at[e1] \in Items
      BY <1>3
    <2>2. CASE pc[e1] \in WorkPcs /\ pc[e2] \in WorkPcs
      BY <2>1, <2>2 DEF OneRunner
    <2>3. CASE pc[e1] \notin WorkPcs /\ pc[e2] \in WorkPcs
      BY <1>3, <2>1, <2>3 DEF WorkClaimed
    <2>4. CASE pc[e1] \in WorkPcs /\ pc[e2] \notin WorkPcs
      BY <1>3, <2>1, <2>4 DEF WorkClaimed
    <2>5. CASE pc[e1] \notin WorkPcs /\ pc[e2] \notin WorkPcs
      <3>1. ClaimItem(e1) /\ ClaimItem(e2)
        BY <1>3, <2>5
      <3>2. pc'[e2] = pc[e2]
        BY <3>1 DEF ClaimItem, Goto, Exit, TypeInv, TypeOK
      <3>3. QED
        BY <2>5, <3>2
    <2>6. QED
      BY <2>2, <2>3, <2>4, <2>5
  <1> QED
    BY <1>1, <1>2, <1>4, <1>5

(* Only a child that holds a claimed item, or unstickWorkItem, puts a      *)
(* worker item in `working`.                                               *)
LEMMA WorkingWriters ==
  ASSUME TypeInv, [Next]_vars, NEW i \in WorkerItems,
         state[i] = "claimed", state'[i] = "working"
  PROVE  \E e \in Executors :
            /\ at[e] = i
            /\ \/ pc[e] = "got" /\ pc'[e] # "got"
               \/ pc[e] \in UnstickPcs
  <1> USE DEF TypeInv, TypeOK
  <1>1. i \in Items /\ i \notin ChatItems
    BY Sets, DeliveryKindsDisjoint DEF WorkerItems
  <1>2. ASSUME NEW k \in Items, NEW to, NEW opts, WriteItem(k, to, opts)
        PROVE  k = i /\ to = "working"
    BY <1>1, <1>2 DEF WriteItem
  <1>3. ~UNCHANGED rowVars
    BY DEF rowVars
  <1>4. CASE ServerNext
    <2>1. ASSUME NEW k \in Items, CreateWorkItem(k) \/ CreateWorkItemTorn(k)
          PROVE  FALSE
      BY <1>1, <2>1 DEF CreateWorkItem, CreateWorkItemTorn
    <2>2. ASSUME NEW k \in Items, CancelApply(k) PROVE FALSE
      BY <1>2, <1>3, <2>2 DEF CancelApply
    <2>3. ASSUME NEW k \in ChatItems, ChatStep(k) PROVE FALSE
      <3>1. k \in Items
        BY Sets
      <3>2. PICK to, opts : WriteItem(k, to, opts)
        BY <1>3, <2>3 DEF ChatStep
      <3>3. QED
        BY <1>1, <1>2, <3>1, <3>2
    <2>4. QED
      BY <1>3, <1>4, <2>1, <2>2, <2>3 DEF ServerNext, CancelRead, EnqueueJob,
         ChatRead, ResolveDelivery, ServerCrash
  <1>5. ASSUME NEW e \in Executors, ExecutorStep(e) \/ ExecutorEvent(e)
        PROVE  /\ at[e] = i
               /\ \/ pc[e] = "got" /\ pc'[e] # "got"
                  \/ pc[e] \in UnstickPcs
    <2>1. ASSUME \/ ClaimItem(e) \/ StartItem(e) \/ FinishExtension(e)
                 \/ ToReview(e) \/ ToDone(e) \/ BlockItem(e) \/ UnstickStart(e)
                 \/ UnstickBlock(e) \/ StartTorn(e) \/ DoneTorn(e)
                 \/ UnstickFails(e)
          PROVE  at[e] \in Items
      BY <2>1, Sets DEF ClaimItem, StartItem, FinishExtension, ToReview, ToDone,
         BlockItem, UnstickStart, UnstickBlock, StartTorn, DoneTorn, UnstickFails,
         PcJob, WorkPcs, UnstickPcs
    <2>2. ~KeepsItems(e)
      BY <1>3, KeepsItemsRows
    <2>3. ASSUME \/ RecoverMark(e, "markClaimed", "claimed", "recoverWorking")
                 \/ RecoverMark(e, "markWorking", "working", "bootSweep")
          PROVE  FALSE
      BY <1>1, <2>3 DEF RecoverMark
    <2>4. CASE StartItem(e)
      <3>1. WriteItem(at[e], "working", NoOpts) /\ Goto(e, "working")
        BY <1>3, <2>4 DEF StartItem, rowVars
      <3>2. QED
        BY <1>2, <2>1, <2>4, <3>1 DEF StartItem, Goto
    <2>5. CASE UnstickStart(e) \/ UnstickBlock(e)
      <3>1. PICK to, opts : WriteItem(at[e], to, opts)
        BY <1>3, <2>5 DEF UnstickStart, UnstickBlock, rowVars
      <3>2. QED
        BY <1>2, <2>1, <2>5, <3>1 DEF UnstickStart, UnstickBlock, UnstickPcs
    <2>6. CASE \/ ClaimItem(e) \/ FinishExtension(e) \/ ToReview(e) \/ ToDone(e)
               \/ BlockItem(e)
      <3>1. PICK to, opts : /\ to \in {"claimed", "done", "review", "blocked"}
                            /\ WriteItem(at[e], to, opts)
        BY <1>3, <2>6 DEF ClaimItem, FinishExtension, ToReview, ToDone,
           BlockItem, rowVars
      <3>2. QED
        BY <1>2, <2>1, <2>6, <3>1
    <2>7. CASE StartTorn(e)
      <3>1. /\ WriteItem(at[e], "working", NoOpts)
            /\ Goto(e, "completing") \/ Goto(e, "failSelf")
        BY <2>7 DEF StartTorn
      <3>2. QED
        BY <1>2, <2>1, <2>7, <3>1 DEF StartTorn, Goto
    <2>8. CASE DoneTorn(e)
      <3>1. PICK opts : WriteItem(at[e], "done", opts)
        BY <2>8 DEF DoneTorn
      <3>2. QED
        BY <1>2, <2>1, <2>8, <3>1
    <2>9. CASE UnstickFails(e)
      <3>1. pc[e] \in UnstickPcs /\ WriteItem(at[e], "working", NoOpts)
        BY <1>3, <2>9 DEF UnstickFails, UnstickPcs
      <3>2. QED
        BY <1>2, <2>1, <2>9, <3>1
    <2>10. QED
      BY <1>5, <2>2, <2>3, <2>4, <2>5, <2>6, <2>7, <2>8, <2>9 DEF ExecutorStep,
         ExecutorEvent, BootNext, BodyNext, UnstickNext, KeepsItems, StoreRejects
  <1>6. CASE ClockNext \/ UNCHANGED vars
    BY <1>3, <1>6 DEF ClockNext, LeaseElapses, JobAges, ItemIdles, vars, rowVars
  <1> QED
    BY <1>4, <1>5, <1>6 DEF Next

LEMMA AccountStep == SafetyInv /\ [Next]_vars => AccountInv'
  <1> SUFFICES ASSUME SafetyInv, [Next]_vars PROVE AccountInv'
    OBVIOUS
  <1> USE DEF SafetyInv, ExecInv, AccountInv
  <1>1. ASSUME NEW j \in Jobs, status[j] \in Terminal PROVE status'[j] \in Terminal
    BY <1>1, JobsAdvance
  <1>2. ASSUME NEW i \in Items, Accounted(i) PROVE Accounted(i)'
    BY <1>2, ItemsAdvance, TrailGrows DEF Accounted
  <1>3. ASSUME NEW e \in Executors
        PROVE  (pc'[e] = pc[e] /\ at'[e] = at[e]) \/ OwnMove(e)
    BY OthersStay, OwnMoves
  <1>4. GotClaimed'
    <2> SUFFICES ASSUME NEW e \in Executors, pc'[e] = "got"
                 PROVE  \/ state'[at'[e]] \in Settled \cup {"claimed"}
                        \/ status'[at'[e]] \in Terminal
      BY DEF GotClaimed
    <2>1. \/ pc[e] = "got" /\ at'[e] = at[e]
          \/ at'[e] = at[e] /\ state'[at[e]] = "claimed"
      BY <1>3 DEF OwnMove, WorkPcs
    <2>2. CASE pc[e] = "got" /\ at'[e] = at[e]
      <3>1. at[e] \in WorkerItems /\ at[e] \in Items /\ at[e] \in Jobs
        BY <2>2, Sets DEF TypeInv, PcJob, WorkPcs
      <3>2. CASE status[at[e]] \in Terminal
        BY <1>1, <2>2, <3>1, <3>2
      <3>3. CASE state[at[e]] \in Settled
        BY <2>2, <3>1, <3>3, ItemsAdvance
      <3>4. CASE state[at[e]] = "claimed" /\ state'[at[e]] = "working"
        <4>1. PICK f \in Executors :
                 /\ at[f] = at[e]
                 /\ \/ pc[f] = "got" /\ pc'[f] # "got"
                    \/ pc[f] \in UnstickPcs
          BY <3>1, <3>4, WorkingWriters
        <4>2. CASE pc[f] = "got" /\ pc'[f] # "got"
          BY <2>2, <4>1, <4>2 DEF OneRunner, WorkPcs
        <4>3. CASE pc[f] \in UnstickPcs
          BY <1>1, <2>2, <3>1, <4>1, <4>3 DEF UnstickAfterFail
        <4>4. QED
          BY <4>1, <4>2, <4>3
      <3>5. CASE state[at[e]] = "claimed" /\ state'[at[e]] # "working"
        BY <2>2, <3>1, <3>5, ItemsAdvance
      <3>6. QED
        BY <2>2, <3>2, <3>3, <3>4, <3>5 DEF GotClaimed
    <2>3. QED
      BY <2>1, <2>2
  <1>5. UnstickAfterFail'
    <2> SUFFICES ASSUME NEW e \in Executors, pc'[e] \in UnstickPcs
                 PROVE  status'[at'[e]] \in Terminal
      BY DEF UnstickAfterFail
    <2>1. /\ at'[e] = at[e]
          /\ pc[e] \in UnstickPcs \/ FailRow(at[e])
      BY <1>3 DEF OwnMove
    <2>2. TypeInv'
      BY TypeStep
    <2>3. at[e] \in Jobs
      BY <2>1, <2>2, Sets DEF TypeInv, PcJob
    <2>4. CASE pc[e] \in UnstickPcs
      BY <1>1, <2>1, <2>3, <2>4 DEF UnstickAfterFail
    <2>5. CASE FailRow(at[e])
      BY <2>1, <2>3, <2>5 DEF FailRow, HeldExists, Terminal, jobVars, TypeInv, TypeOK
    <2>6. QED
      BY <2>1, <2>4, <2>5
  <1>6. CompletingAccounted'
    <2> SUFFICES ASSUME NEW e \in Executors, pc'[e] = "completing",
                        at'[e] \in WorkerItems
                 PROVE  \/ state'[at'[e]] \in Settled
                        \/ <<"item_failed", at'[e]>> \in audit'
                        \/ <<"start", at'[e]>> \in faulted'
                        \/ status'[at'[e]] \in Terminal
      BY DEF CompletingAccounted, Accounted
    <2>1. /\ at'[e] = at[e] /\ at[e] \in Items /\ at[e] \in Jobs
          /\ at[e] \notin PlainJobs
      BY <1>3, Sets, QueueAssumption DEF OwnMove
    <2>2. CASE pc[e] = "completing"
      BY <1>1, <1>2, <2>1, <2>2 DEF CompletingAccounted, Accounted
    <2>3. CASE pc[e] # "completing"
      <3>1. \/ state'[at[e]] \in Settled
            \/ <<"item_failed", at[e]>> \in audit'
            \/ <<"start", at[e]>> \in faulted'
            \/ pc[e] = "got" /\ state[at[e]] # "claimed"
        BY <1>3, <2>1, <2>3 DEF OwnMove
      <3>2. CASE pc[e] = "got" /\ state[at[e]] # "claimed"
        BY <1>1, <1>2, <2>1, <3>2 DEF GotClaimed, Accounted
      <3>3. QED
        BY <2>1, <3>1, <3>2 DEF Accounted
    <2>4. QED
      BY <2>2, <2>3
  <1>7. CompletedIsAccountedFor'
    <2> SUFFICES ASSUME NEW i \in WorkerItems, status'[i] = "completed"
                 PROVE  Accounted(i)'
      BY DEF CompletedIsAccountedFor, Accounted
    <2>1. i \in Items /\ i \in Jobs
      BY Sets
    <2>2. CASE status[i] = "completed"
      BY <1>2, <2>1, <2>2 DEF CompletedIsAccountedFor, Accounted
    <2>3. CASE status[i] # "completed"
      <3>1. PICK e \in Executors : /\ CompleteSelf(e) /\ at[e] = i
                                   /\ status[i] = "running"
        BY <2>1, <2>3, JobsAdvance
      <3>2. Accounted(i)
        BY <3>1 DEF CompleteSelf, CompletingAccounted, Terminal
      <3>3. QED
        BY <1>2, <2>1, <3>2
    <2>4. QED
      BY <2>2, <2>3
  <1> QED
    BY <1>4, <1>5, <1>6, <1>7

(* The obligations of one row, and what a guarded write makes of them. *)
Obliged(i) ==
    /\ i \in GitItems /\ state[i] \in {"review", "done"}
          => decision[i] = "approved" /\ i \in approvals
    /\ state[i] = "done" => DoneResult(i, result[i])
    /\ state[i] = "blocked" => i \in evidence

LEMMA WriteObliges ==
  ASSUME TypeInv, NEW k \in Items, NEW from, NEW to, NEW opts,
         CanTransition(k, from, to, opts), WriteItem(k, to, opts),
         UNCHANGED decision, NEW i \in Items, Obliged(i),
         k \in GitItems /\ to = "review" => decision[k] = "approved"
  PROVE  Obliged(i)'
  <1> USE DEF TypeInv, TypeOK
  <1>1. CASE i # k
    <2>1. state'[i] = state[i] /\ result'[i] = result[i]
      BY <1>1 DEF WriteItem
    <2>2. (i \in approvals => i \in approvals') /\ (i \in evidence => i \in evidence')
      BY DEF WriteItem
    <2>3. QED
      BY <2>1, <2>2 DEF Obliged, DoneResult
  <1>2. CASE i = k
    <2>1. state'[i] = to /\ state[i] = from /\ Legal(i, from, to, opts)
      BY <1>2 DEF WriteItem, CanTransition
    <2>2. to = "blocked" => i \in evidence'
      BY <1>2, <2>1 DEF WriteItem, Legal
    <2>3. to = "done" => DoneResult(i, result'[i])
      <3>1. to = "done" => DoneResult(i, opts.result) /\ opts.result # {}
        BY <2>1 DEF Legal, DoneResult
      <3>2. to = "done" => result'[i] = opts.result
        BY <1>2, <3>1 DEF WriteItem
      <3>3. QED
        BY <3>1, <3>2
    <2>4. i \in GitItems /\ to = "review" => decision'[i] = "approved" /\ i \in approvals'
      BY <1>2, <2>1 DEF WriteItem, Legal
    <2>5. i \in GitItems /\ to = "done" => decision'[i] = "approved" /\ i \in approvals'
      <3>1. i \in GitItems /\ to = "done" => from = "review"
        BY <2>1, DeliveryKindsDisjoint DEF Legal, LegalMove, Allowed
      <3>2. i \in approvals => i \in approvals'
        BY DEF WriteItem
      <3>3. QED
        BY <2>1, <3>1, <3>2 DEF Obliged
    <2>6. QED
      BY <2>1, <2>2, <2>3, <2>4, <2>5 DEF Obliged, DoneResult
  <1> QED
    BY <1>1, <1>2

(* A step that rewrites no row keeps the obligations. *)
LEMMA KeepObliges ==
  ASSUME TypeInv, [Next]_vars, UNCHANGED rowVars, NEW i \in Items, Obliged(i)
  PROVE  Obliged(i)'
  BY TrailGrows DEF Obliged, DoneResult, rowVars

LEMMA ServerObliges ==
  ASSUME TypeInv, [Next]_vars, ServerNext, NEW i \in Items, Obliged(i)
  PROVE  Obliged(i)'
  <1>1. CASE UNCHANGED rowVars
    BY <1>1, KeepObliges
  <1>2. ASSUME NEW k \in Items, CreateWorkItem(k) \/ CreateWorkItemTorn(k)
        PROVE  Obliged(i)'
    BY <1>2 DEF CreateWorkItem, CreateWorkItemTorn, Obliged, DoneResult, TypeInv,
       TypeOK
  <1>3. ASSUME NEW k \in Items, CancelApply(k), ~UNCHANGED rowVars
        PROVE  Obliged(i)'
    <2>1. /\ CanTransition(k, cancelling[k], "aborted", NoOpts)
          /\ WriteItem(k, "aborted", NoOpts) /\ UNCHANGED decision
      BY <1>3 DEF CancelApply
    <2>2. QED
      BY <2>1, WriteObliges
  <1>4. ASSUME NEW k \in ChatItems, ChatStep(k), ~UNCHANGED rowVars
        PROVE  Obliged(i)'
    <2>1. k \in Items /\ k \notin GitItems
      BY Sets, DeliveryKindsDisjoint
    <2>2. PICK from, to, opts : /\ CanTransition(k, from, to, opts)
                                /\ WriteItem(k, to, opts) /\ UNCHANGED decision
      BY <1>4 DEF ChatStep
    <2>3. QED
      BY <2>1, <2>2, WriteObliges
  <1> QED
    BY <1>1, <1>2, <1>3, <1>4 DEF ServerNext, CancelRead, EnqueueJob, ChatRead,
       ResolveDelivery, ServerCrash, rowVars

LEMMA ExecutorObliges ==
  ASSUME SafetyInv, [Next]_vars, NEW e \in Executors,
         ExecutorStep(e) \/ ExecutorEvent(e), NEW i \in Items, Obliged(i)
  PROVE  Obliged(i)'
  <1> USE DEF SafetyInv
  <1>1. CASE UNCHANGED rowVars
    BY <1>1, KeepObliges
  <1>2. ASSUME NEW from \in {"claimed", "working"}, NEW label, NEW next,
               RecoverMark(e, label, from, next)
        PROVE  Obliged(i)'
    BY <1>2 DEF RecoverMark, StaleIn, Obliged, DoneResult, TypeInv, TypeOK
  <1>3. ASSUME \/ ClaimItem(e) \/ StartItem(e) \/ FinishExtension(e)
               \/ ToReview(e) \/ ToDone(e) \/ BlockItem(e) \/ UnstickStart(e)
               \/ UnstickBlock(e) \/ StartTorn(e) \/ DoneTorn(e) \/ UnstickFails(e)
        PROVE  at[e] \in Items /\ UNCHANGED decision
    BY <1>3, Sets DEF ClaimItem, StartItem, FinishExtension, ToReview, ToDone,
       BlockItem, UnstickStart, UnstickBlock, StartTorn, DoneTorn, UnstickFails,
       TypeInv, PcJob, WorkPcs, UnstickPcs
  <1>4. CASE ClaimItem(e) /\ ~UNCHANGED rowVars
    <2>1. CanClaimItem(at[e]) /\ WriteItem(at[e], "claimed", NoOpts)
      BY <1>4 DEF ClaimItem
    <2>2. CanTransition(at[e], "open", "claimed", NoOpts)
      BY <2>1 DEF CanClaimItem, CanTransition, Legal, LegalMove, Allowed
    <2>3. QED
      BY <1>3, <1>4, <2>1, <2>2, WriteObliges
  <1>5. CASE /\ ~UNCHANGED rowVars
             /\ \/ StartItem(e) \/ FinishExtension(e) \/ ToDone(e) \/ BlockItem(e)
                \/ UnstickStart(e) \/ UnstickBlock(e) \/ StartTorn(e)
                \/ DoneTorn(e) \/ UnstickFails(e)
    <2>1. \E from, to, opts : /\ to \in {"working", "done", "blocked"}
                              /\ CanTransition(at[e], from, to, opts)
                              /\ WriteItem(at[e], to, opts)
      <3>1. CASE \/ StartItem(e) \/ UnstickStart(e) \/ StartTorn(e)
                 \/ UnstickFails(e)
        BY <1>5, <3>1 DEF StartItem, UnstickStart, StartTorn, UnstickFails
      <3>2. CASE FinishExtension(e) \/ ToDone(e) \/ DoneTorn(e)
        BY <1>5, <3>2 DEF FinishExtension, ToDone, DoneTorn
      <3>3. CASE BlockItem(e) \/ UnstickBlock(e)
        BY <1>5, <3>3 DEF BlockItem, UnstickBlock
      <3>4. QED
        BY <1>5, <3>1, <3>2, <3>3
    <2>2. PICK from, to, opts : /\ to \in {"working", "done", "blocked"}
                                /\ CanTransition(at[e], from, to, opts)
                                /\ WriteItem(at[e], to, opts)
      BY <2>1
    <2>3. QED
      BY <1>3, <1>5, <2>2, WriteObliges
  <1>6. CASE ToReview(e) /\ ~UNCHANGED rowVars
    <2>1. PICK opts : /\ CanTransition(at[e], "working", "review", opts)
                      /\ WriteItem(at[e], "review", opts)
      BY <1>6 DEF ToReview, rowVars
    <2>2. decision[at[e]] = "approved"
      BY <1>6 DEF ToReview, ConsentInv, ApprovedFirst
    <2>3. QED
      BY <1>3, <1>6, <2>1, <2>2, WriteObliges
  <1>7. CASE KeepsItems(e)
    BY <1>1, <1>7, KeepsItemsRows
  <1> QED
    BY <1>1, <1>2, <1>4, <1>5, <1>6, <1>7 DEF ExecutorStep, ExecutorEvent,
       BootNext, BodyNext, UnstickNext, KeepsItems, StoreRejects

LEMMA ConsentStep == SafetyInv /\ [Next]_vars => ConsentInv'
  <1> SUFFICES ASSUME SafetyInv, [Next]_vars PROVE ConsentInv'
    OBVIOUS
  <1> USE DEF SafetyInv, ConsentInv
  <1>1. ApprovedFirst'
    <2> SUFFICES ASSUME NEW e \in Executors, pc'[e] = "approved"
                 PROVE  decision'[at'[e]] = "approved"
      BY DEF ApprovedFirst
    <2>1. (pc'[e] = pc[e] /\ at'[e] = at[e]) \/ OwnMove(e)
      BY OthersStay, OwnMoves
    <2>2. at'[e] = at[e] /\ at[e] \in GitItems /\ decision[at[e]] = "approved"
      BY <2>1 DEF OwnMove, ApprovedFirst, WorkPcs, TypeInv, PcJob
    <2>3. QED
      BY <2>2, TrailGrows
  <1>2. Obligations'
    <2> SUFFICES ASSUME NEW i \in Items PROVE Obliged(i)'
      BY DEF Obligations, Obliged
    <2>1. Obliged(i)
      BY DEF Obligations, Obliged
    <2>2. CASE ServerNext
      BY <2>1, <2>2, ServerObliges
    <2>3. ASSUME NEW e \in Executors, ExecutorStep(e) \/ ExecutorEvent(e)
          PROVE  Obliged(i)'
      BY <2>1, <2>3, ExecutorObliges
    <2>4. CASE ClockNext
      <3>1. ASSUME NEW k \in Items, ItemIdles(k) PROVE Obliged(i)'
        BY <2>1, <3>1 DEF ItemIdles, Obliged, DoneResult
      <3>2. QED
        BY <2>1, <2>4, <3>1, KeepObliges DEF ClockNext, LeaseElapses, JobAges
    <2>5. CASE UNCHANGED vars
      BY <2>1, <2>5, KeepObliges DEF vars
    <2>6. QED
      BY <2>2, <2>3, <2>4, <2>5 DEF Next
  <1> QED
    BY <1>1, <1>2

LEMMA Safety == Spec => []SafetyInv
  <1>1. SafetyInv /\ [Next]_vars => SafetyInv'
    BY TypeStep, ExecStep, AccountStep, ConsentStep DEF SafetyInv
  <1> QED
    BY <1>1, SafetyInit, PTL DEF Spec
-----------------------------------------------------------------------------
(* No two executors, and no two incarnations of one, ever work on the same *)
(* item, however many leases lapse and jobs are claimed twice: what makes  *)
(* the double claim harmless is claimWorkItemById.                         *)
THEOREM OneRunnerHolds == Spec => []OneRunner
  BY Safety, PTL DEF SafetyInv, ExecInv

(* No interleaving of crash, cancel, late decision and retry brings a git  *)
(* item to review or done without a recorded human approval, an item to    *)
(* done without its delivery's result, or one to blocked without evidence. *)
THEOREM ObligationsHold == Spec => []Obligations
  BY Safety, PTL DEF SafetyInv, ConsentInv

(* The job bus never calls a worker item's job completed while the item is *)
(* unsettled and the trail is silent about it, except where the store took *)
(* the item's start and rejected its audit row.                            *)
THEOREM CompletedIsAccountedForHolds == Spec => []CompletedIsAccountedFor
  BY Safety, PTL DEF SafetyInv, AccountInv

(* completeJob, failJob, requeueJob, the claim and the sweeps never revive *)
(* a finished job.                                                         *)
THEOREM JobsStayTerminalHolds == Spec => JobsStayTerminal
  <1>1. SafetyInv /\ [Next]_vars
           => [\A j \in Jobs : status[j] \in {"completed", "failed"}
                                  => status'[j] = status[j]]_vars
    BY JobsAdvance DEF SafetyInv, ExecInv, Terminal
  <1> QED
    BY <1>1, Safety, PTL DEF Spec, JobsStayTerminal
-----------------------------------------------------------------------------
(* What reaches people: the outbox rows of completed jobs and blocked      *)
(* items. Both are written by the process that made the change, right      *)
(* after it, so they can only go missing when an executor process dies, or *)
(* when the store takes the change and then rejects the row.               *)
NoExecutorDied == crashes = 0 \/ "executor_dies" \notin Hazards

LEMMA DeathCounts ==
  ASSUME TypeInv, [Next]_vars, NoExecutorDied'
  PROVE  NoExecutorDied /\ \A e \in Executors : ~ExecutorCrash(e)
  <1> USE DEF faultVars
  <1>1. crashes \in Nat /\ crashes <= crashes'
    <2>1. crashes \in 0..MaxCrashes /\ MaxCrashes \in Nat
      BY QueueAssumption DEF TypeInv, TypeOK
    <2>2. UNCHANGED crashes \/ crashes' = crashes + 1
      <3>1. CASE ServerNext
        BY <3>1 DEF ServerNext, CreateWorkItem, CreateWorkItemTorn, CancelRead,
           CancelApply, EnqueueJob, ChatRead, ChatStep, ResolveDelivery, ServerCrash
      <3>2. ASSUME NEW e \in Executors, ExecutorStep(e) \/ ExecutorEvent(e)
            PROVE  UNCHANGED crashes \/ crashes' = crashes + 1
        BY <3>2 DEF ExecutorStep, ExecutorEvent, BootNext, BodyNext,
           UnstickNext, FinishWrite, Boot, RecoverSelect, RecoverMark, Launch,
           LaunchRefused, Reap, ReapTorn, RenewLease, SandboxDies,
           ExecutorCrash, ClaimItem, RunPlainJob, StartItem, WorkFails,
           FinishExtension, RequestDelivery, AwaitDecision, ToReview, ToDone,
           BlockItem, ReportSelf, StoreFault, UnstickRead, UnstickStart,
           UnstickBlock, BootSweep, SweepUnclaimedJobs, ClaimNextJob, Retry,
           FailLoud, CompleteSelf, FailSelf, StoreRejects, StartTorn, DoneTorn,
           FailFails, UnstickReadFails, UnstickFails, NoticeRejected
      <3>3. CASE ClockNext \/ UNCHANGED vars
        BY <3>3 DEF ClockNext, LeaseElapses, JobAges, ItemIdles, vars
      <3>4. QED
        BY <3>1, <3>2, <3>3 DEF Next
    <2>3. QED
      BY <2>1, <2>2
  <1>2. ASSUME NEW e \in Executors, ExecutorCrash(e) PROVE FALSE
    BY <1>1, <1>2 DEF ExecutorCrash, NoExecutorDied
  <1> QED
    BY <1>1, <1>2 DEF NoExecutorDied

LEMMA OutboxGrows ==
  ASSUME [Next]_vars
  PROVE  outbox \subseteq outbox'
  <1>1. CASE ServerNext
    BY <1>1 DEF ServerNext, CreateWorkItem, CreateWorkItemTorn, CancelRead,
       CancelApply, EnqueueJob, ChatRead, ChatStep, ResolveDelivery, ServerCrash
  <1>2. ASSUME NEW e \in Executors, ExecutorStep(e) \/ ExecutorEvent(e)
        PROVE  outbox \subseteq outbox'
    BY <1>2 DEF ExecutorStep, ExecutorEvent, BootNext, BodyNext, UnstickNext,
       FinishWrite, Boot, RecoverSelect, RecoverMark, Launch, LaunchRefused,
       Reap, ReapTorn, RenewLease, SandboxDies, ExecutorCrash, ClaimItem,
       RunPlainJob, StartItem, WorkFails, FinishExtension, RequestDelivery,
       AwaitDecision, ToReview, ToDone, BlockItem, ReportSelf, StoreFault,
       UnstickRead, UnstickStart, UnstickBlock, BootSweep, SweepUnclaimedJobs,
       ClaimNextJob, Retry, FailLoud, CompleteSelf, FailSelf, StoreRejects,
       StartTorn, DoneTorn, FailFails, UnstickReadFails, UnstickFails,
       NoticeRejected
  <1>3. CASE ClockNext \/ UNCHANGED vars
    BY <1>3 DEF ClockNext, LeaseElapses, JobAges, ItemIdles, vars
  <1> QED
    BY <1>1, <1>2, <1>3 DEF Next

(* Whoever is about to report a job reports it, or says that it failed. *)
Reporters == {"reporting", "failSelf", "failLoud", "retry"}

LEMMA ReporterReports ==
  ASSUME TypeInv, NEW e \in Executors, ExecutorStep(e) \/ ExecutorEvent(e),
         ~ExecutorCrash(e), pc[e] \in Reporters
  PROVE  \/ pc'[e] \in Reporters /\ at'[e] = at[e]
         \/ <<"job", at[e]>> \in outbox'
         \/ <<"job_failed", at[e]>> \in audit'
  <1> USE DEF Reporters
  <1>1. pc \in [Executors -> Pcs] /\ at \in [Executors -> Jobs \cup {NoJob}]
    BY DEF TypeInv, TypeOK
  <1>2. CASE FinishWrite(e) \/ RenewLease(e) \/ SweepUnclaimedJobs(e)
    BY <1>2 DEF FinishWrite, RenewLease, SweepUnclaimedJobs, execVars
  <1>3. CASE StoreFault(e) \/ SandboxDies(e)
    BY <1>1, <1>3 DEF StoreFault, SandboxDies, Goto, execVars
  <1>4. CASE ReportSelf(e)
    BY <1>4 DEF ReportSelf
  <1>5. CASE FailSelf(e) \/ FailLoud(e) \/ Retry(e)
    BY <1>5 DEF FailSelf, FailLoud, Retry
  <1>6. CASE FailFails(e)
    BY <1>1, <1>6 DEF FailFails, Goto, execVars
  <1>7. CASE NoticeRejected(e)
    BY <1>7 DEF NoticeRejected, BootPcs
  <1> QED
    BY <1>2, <1>3, <1>4, <1>5, <1>6, <1>7 DEF ExecutorStep, ExecutorEvent, BootNext,
       BodyNext, UnstickNext, Boot, RecoverSelect, RecoverMark, Launch,
       LaunchRefused, Reap, ReapTorn, ClaimItem, RunPlainJob, StartItem,
       WorkFails, FinishExtension, RequestDelivery, AwaitDecision, ToReview,
       ToDone, BlockItem, UnstickRead, UnstickStart, UnstickBlock, BootSweep,
       ClaimNextJob, CompleteSelf, StoreRejects, StartTorn,
       DoneTorn, UnstickReadFails, UnstickFails

LEMMA ReportStep ==
  ASSUME SafetyInv, [Next]_vars, NoExecutorDied', ReportedOrLoud
  PROVE  ReportedOrLoud'
  <1> SUFFICES ASSUME NEW j \in Jobs, status'[j] = "completed"
               PROVE  \/ <<"job", j>> \in outbox'
                      \/ <<"job_failed", j>> \in audit'
                      \/ \E e \in Executors : at'[e] = j /\ pc'[e] \in Reporters
    BY DEF ReportedOrLoud, Reporters
  <1> USE DEF SafetyInv, ExecInv
  <1>1. CASE status[j] # "completed"
    <2>1. PICK e \in Executors : CompleteSelf(e) /\ at[e] = j
      BY <1>1, JobsAdvance
    <2>2. pc'[e] = "reporting" /\ at'[e] = j
      BY <2>1 DEF CompleteSelf, Goto, execVars, TypeInv, TypeOK
    <2> QED
      BY <2>2 DEF Reporters
  <1>2. CASE status[j] = "completed" /\ (<<"job", j>> \in outbox \/ <<"job_failed", j>> \in audit)
    BY <1>2, OutboxGrows, TrailGrows
  <1>3. ASSUME NEW e \in Executors, at[e] = j, pc[e] \in Reporters
        PROVE  \/ <<"job", j>> \in outbox'
               \/ <<"job_failed", j>> \in audit'
               \/ at'[e] = j /\ pc'[e] \in Reporters
    BY <1>3, DeathCounts, OthersStay, ReporterReports
  <1> QED
    BY <1>1, <1>2, <1>3 DEF ReportedOrLoud, Reporters
-----------------------------------------------------------------------------
(* A row that a process is about to write stays due until it is written. *)
LEMMA DueIsWritten ==
  ASSUME TypeInv, [Next]_vars, NoExecutorDied',
         NEW f \in Executors, NEW row \in post[f]
  PROVE  row \in post'[f] \/ row \in outbox' \/ NoticeRejected(f)
  <1> USE DEF Writing
  <1>1. post \in [Executors -> SUBSET RowIds]
    BY DEF TypeInv, TypeOK
  <1>2. CASE UNCHANGED post
    BY <1>2
  <1>3. ASSUME NEW e \in Executors, FinishWrite(e)
        PROVE  row \in post'[f] \/ row \in outbox'
    BY <1>1, <1>3 DEF FinishWrite
  <1>4. ASSUME NEW e \in Executors, ~Writing(e), NEW rows, post' = [post EXCEPT ![e] = rows]
        PROVE  row \in post'[f]
    BY <1>1, <1>4
  <1>5. ASSUME NEW e \in Executors, ToReview(e) \/ BlockItem(e) \/ UnstickBlock(e)
        PROVE  row \in post'[f]
    BY <1>2, <1>4, <1>5 DEF ToReview, BlockItem, UnstickBlock
  <1>6. ASSUME NEW e \in Executors, BootNext(e) PROVE row \in post'[f]
    BY <1>2, <1>4, <1>6 DEF BootNext, Boot, RecoverSelect, RecoverMark, BootSweep
  <1>7. CASE ServerNext
    BY <1>2, <1>7 DEF ServerNext, CreateWorkItem, CreateWorkItemTorn, CancelRead,
       CancelApply, EnqueueJob, ChatRead, ChatStep, ResolveDelivery, ServerCrash
  <1>8. ASSUME NEW e \in Executors, ExecutorStep(e) \/ ExecutorEvent(e)
        PROVE  row \in post'[f] \/ row \in outbox' \/ NoticeRejected(f)
    <2>1. ~ExecutorCrash(e)
      BY DeathCounts
    <2>2. ASSUME NoticeRejected(e) PROVE row \in post'[f] \/ NoticeRejected(f)
      BY <1>1, <2>2 DEF NoticeRejected
    <2> QED
      BY <1>2, <1>3, <1>5, <1>6, <1>8, <2>1, <2>2 DEF ExecutorStep, ExecutorEvent,
         BodyNext, UnstickNext, Launch, LaunchRefused, Reap, ReapTorn,
         RenewLease, SandboxDies, ClaimItem, RunPlainJob, StartItem, WorkFails,
         FinishExtension, RequestDelivery, AwaitDecision, ToDone, ReportSelf,
         StoreFault, UnstickRead, UnstickStart, SweepUnclaimedJobs,
         ClaimNextJob, Retry, FailLoud, CompleteSelf, FailSelf, StoreRejects,
         StartTorn, DoneTorn, FailFails, UnstickReadFails, UnstickFails
  <1>9. CASE ClockNext \/ UNCHANGED vars
    BY <1>2, <1>9 DEF ClockNext, LeaseElapses, JobAges, ItemIdles, vars
  <1> QED
    BY <1>7, <1>8, <1>9 DEF Next

(* Who blocks an item owes its row. *)
LEMMA BlockersAnnounce ==
  ASSUME TypeInv, [Next]_vars, NEW i \in Items,
         state[i] # "blocked", state'[i] = "blocked"
  PROVE  \E e \in Executors : <<"blocked", i>> \in post'[e]
  <1> USE DEF TypeInv, TypeOK
  <1>1. ASSUME NEW k \in Items, NEW to, NEW opts, WriteItem(k, to, opts)
        PROVE  k = i /\ to = "blocked"
    BY <1>1 DEF WriteItem
  <1>2. ~UNCHANGED rowVars
    BY DEF rowVars
  <1>3. CASE ServerNext
    <2>1. ASSUME NEW k \in Items, CreateWorkItem(k) \/ CreateWorkItemTorn(k)
          PROVE  FALSE
      BY <2>1 DEF CreateWorkItem, CreateWorkItemTorn
    <2>2. ASSUME NEW k \in Items, CancelApply(k) PROVE FALSE
      BY <1>1, <1>2, <2>2 DEF CancelApply
    <2>3. ASSUME NEW k \in ChatItems, ChatStep(k) PROVE FALSE
      <3>1. k \in Items
        BY Sets
      <3>2. PICK to, opts : WriteItem(k, to, opts) /\ to = ChatNext(chat[k])
        BY <1>2, <2>3 DEF ChatStep
      <3>3. ChatNext(chat[k]) \in {"claimed", "working", "done"}
        BY <2>3 DEF ChatStep, ChatNext
      <3>4. QED
        BY <1>1, <3>1, <3>2, <3>3
    <2>4. QED
      BY <1>2, <1>3, <2>1, <2>2, <2>3 DEF ServerNext, CancelRead, EnqueueJob,
         ChatRead, ResolveDelivery, ServerCrash
  <1>4. ASSUME NEW e \in Executors, ExecutorStep(e) \/ ExecutorEvent(e)
        PROVE  <<"blocked", i>> \in post'[e]
    <2>1. ASSUME \/ ClaimItem(e) \/ StartItem(e) \/ FinishExtension(e)
                 \/ ToReview(e) \/ ToDone(e) \/ BlockItem(e) \/ UnstickStart(e)
                 \/ UnstickBlock(e) \/ StartTorn(e) \/ DoneTorn(e)
                 \/ UnstickFails(e)
          PROVE  at[e] \in Items
      BY <2>1, Sets DEF ClaimItem, StartItem, FinishExtension, ToReview, ToDone,
         BlockItem, UnstickStart, UnstickBlock, StartTorn, DoneTorn, UnstickFails,
         PcJob, WorkPcs, UnstickPcs
    <2>2. ~KeepsItems(e)
      BY <1>2, KeepsItemsRows
    <2>3. ASSUME \/ RecoverMark(e, "markClaimed", "claimed", "recoverWorking")
                 \/ RecoverMark(e, "markWorking", "working", "bootSweep")
          PROVE  <<"blocked", i>> \in post'[e]
      BY <2>3 DEF RecoverMark
    <2>4. CASE BlockItem(e) \/ UnstickBlock(e)
      <3>1. /\ WriteItem(at[e], "blocked", WithEvidence)
            /\ post' = [post EXCEPT ![e] = Notification(at[e], "blocked")]
        BY <1>2, <2>4 DEF BlockItem, UnstickBlock, rowVars
      <3>2. QED
        BY <1>1, <2>1, <2>4, <3>1 DEF Notification
    <2>5. CASE \/ ClaimItem(e) \/ StartItem(e) \/ FinishExtension(e) \/ ToReview(e)
               \/ ToDone(e) \/ UnstickStart(e) \/ StartTorn(e) \/ DoneTorn(e)
               \/ UnstickFails(e)
      <3>1. PICK to, opts : /\ to \in {"claimed", "working", "done", "review"}
                            /\ WriteItem(at[e], to, opts)
        BY <1>2, <2>5 DEF ClaimItem, StartItem, FinishExtension, ToReview, ToDone,
           UnstickStart, StartTorn, DoneTorn, UnstickFails, rowVars
      <3>2. QED
        BY <1>1, <2>1, <2>5, <3>1
    <2>6. QED
      BY <1>4, <2>2, <2>3, <2>4, <2>5 DEF ExecutorStep, ExecutorEvent, BootNext,
         BodyNext, UnstickNext, KeepsItems, StoreRejects
  <1>5. CASE ClockNext \/ UNCHANGED vars
    BY <1>2, <1>5 DEF ClockNext, LeaseElapses, JobAges, ItemIdles, vars, rowVars
  <1> QED
    BY <1>3, <1>4, <1>5 DEF Next

LEMMA AnnounceStep ==
  ASSUME SafetyInv, [Next]_vars, NoExecutorDied', BlockedIsAnnounced
  PROVE  BlockedIsAnnounced'
  <1> USE DEF SafetyInv
  <1> SUFFICES ASSUME NEW i \in Items, state'[i] = "blocked"
               PROVE  \/ <<"blocked", i>> \in outbox'
                      \/ \E e \in Executors : <<"blocked", i>> \in post'[e]
                      \/ <<"notice", i>> \in faulted'
    BY DEF BlockedIsAnnounced
  <1>1. CASE state[i] # "blocked"
    BY <1>1, BlockersAnnounce
  <1>2. CASE <<"blocked", i>> \in outbox \/ <<"notice", i>> \in faulted
    BY <1>2, OutboxGrows, TrailGrows
  <1>3. ASSUME NEW e \in Executors, <<"blocked", i>> \in post[e],
               state[i] = "blocked"
        PROVE  \/ <<"blocked", i>> \in post'[e]
               \/ <<"blocked", i>> \in outbox'
               \/ <<"notice", i>> \in faulted'
    <2>1. ASSUME NoticeRejected(e) PROVE <<"notice", i>> \in faulted'
      BY <1>3, <2>1 DEF NoticeRejected
    <2>2. QED
      BY <1>3, <2>1, DueIsWritten
  <1> QED
    BY <1>1, <1>2, <1>3 DEF BlockedIsAnnounced

LEMMA Reaches == Spec => [](NoExecutorDied => ReportedOrLoud /\ BlockedIsAnnounced)
  <1> DEFINE Told == NoExecutorDied => ReportedOrLoud /\ BlockedIsAnnounced
  <1>1. Init => Told
    BY Sets DEF Init, ReportedOrLoud, BlockedIsAnnounced
  <1>2. SafetyInv /\ Told /\ [Next]_vars => Told'
    <2> SUFFICES ASSUME SafetyInv, Told, [Next]_vars, NoExecutorDied'
                 PROVE  ReportedOrLoud' /\ BlockedIsAnnounced'
      OBVIOUS
    <2>1. NoExecutorDied
      BY DeathCounts DEF SafetyInv
    <2> QED
      BY <2>1, ReportStep, AnnounceStep
  <1> QED
    BY <1>1, <1>2, Safety, PTL DEF Spec

(* A job that ended as completed has told the server so, or is just about  *)
(* to, or its failure is on record, whatever faults the store and the      *)
(* sandbox have, as long as no executor process died between two writes.   *)
THEOREM ReportedOrLoudHolds == Spec => [](NoExecutorDied => ReportedOrLoud)
  BY Reaches, PTL

(* An item that is blocked has its notification, or the process that       *)
(* blocked it is about to write it, or the store rejected that one row     *)
(* after taking the landing, as long as no executor died.                  *)
THEOREM BlockedIsAnnouncedHolds == Spec => [](NoExecutorDied => BlockedIsAnnounced)
  BY Reaches, PTL
=============================================================================
