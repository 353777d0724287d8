------------------------------- MODULE Scheduler -------------------------------
(***************************************************************************)
(* The durable scheduler: the runner (src/src/scheduler/runner.ts), the    *)
(* tables scheduler_jobs and scheduler_invocations (src/src/store/db.ts)   *)
(* and the people's edits through the scheduler tools                      *)
(* (src/src/scheduler/scheduler-tools.ts) and the Slack controls           *)
(* (src/src/server/adapters/scheduler-router.ts).                          *)
(*                                                                         *)
(* Time is counted in minutes, which is what a cron can tell apart. A      *)
(* scheduled invocation is identified by its job and the occurrence it is  *)
(* for, <<j, t>>, as in the code; manual ones by the id they were asked    *)
(* with. One step is one statement or transaction of the store; tool calls *)
(* await between theirs, in this process or another (src/src/mcp).         *)
(***************************************************************************)
EXTENDS Naturals, FiniteSets

CONSTANTS
  Jobs,        \* ids of scheduler jobs
  Crons,       \* schedules
  NextFire,    \* NextFire[c][t]: nextCronFire, the first occurrence after t
  Manuals,     \* ids of run-now requests
  Editors,     \* tool calls that may be under way at once
  MaxTime,     \* bound: the last minute
  MaxRevision, \* bound: revisions of a job
  MaxFaults,   \* bound: process deaths and storage faults together
  Hazards      \* which of AllHazards may happen

AllHazards == {"crash", "store_fault", "old_rows"}

Minutes == 0..MaxTime

ASSUME TimeAssumption == MaxTime \in Nat
ASSUME RevisionAssumption == MaxRevision \in Nat \ {0}
ASSUME FaultsAssumption == MaxFaults \in Nat
\* no request is asked for with an id spelled like an occurrence's
ASSUME ManualsAssumption == Manuals \cap (Jobs \X Nat) = {}
ASSUME NextFireAssumption ==
  /\ Crons # {}
  /\ NextFire \in [Crons -> [Minutes -> Nat]]
  /\ \A c \in Crons, t \in Minutes : NextFire[c][t] > t

VARIABLES
  now,        \* Date.now()
  life,       \* life[j]: none | kept | deleted
  enabled,    \* columns of scheduler_jobs ...
  cron,
  next,       \* ... next_fire_at
  revision,
  status,     \* of an invocation: none | pending | running | completed
  pc,         \* of the runner
  booted,     \* when the runner's process started
  first,      \* firstTick: no pass has succeeded since
  fireTime,   \* fireTime of the pass
  listing,    \* the enabled rows as listed, less those dealt with
  hand,       \* the invocation, or missed occurrence, in hand
  draft,      \* draft[e]: what a tool call has read and is about to write
  overtaken,  \* jobs into whose row an edit wrote a time gone stale
  runs,       \* how often an invocation's action was started
  fired,      \* invocations with a scheduler.fire audit row
  missed,     \* occurrences with a scheduler.missed audit row
  faults      \* deaths and faults so far

jobs   == <<life, enabled, cron, next, revision>>
locals == <<fireTime, listing, hand>>
runner == <<pc, booted, first, locals>>
ledger == <<fired, missed>>
edits  == <<draft, overtaken>>
vars == <<now, jobs, status, runner, edits, runs, ledger, faults>>

\* An occurrence is claimed or missed at the earliest when it is due.
Ids == (Jobs \X Minutes) \cup Manuals
Nothing == <<>>

Phases == {"down", "idle", "enqueue", "noting", "claim", "fire", "acting",
           "acted", "audited"}

Rows == [cron : Crons, next : Nat]
DraftRecords == [job : Jobs, kind : {"params", "cron", "resume"},
                 revision : 1..MaxRevision, read : Nat, cron : Crons, next : Nat]

TypeOK ==
  /\ now \in Minutes
  /\ life \in [Jobs -> {"none", "kept", "deleted"}]
  /\ enabled \subseteq {j \in Jobs : life[j] = "kept"}
  /\ cron \in [Jobs -> Crons]
  /\ next \in [Jobs -> Nat]
  /\ revision \in [Jobs -> 1..MaxRevision]
  /\ status \in [Ids -> {"none", "pending", "running", "completed"}]
  /\ pc \in Phases
  /\ booted \in 0..now
  /\ first \in BOOLEAN
  /\ fireTime \in 0..now
  /\ DOMAIN listing \subseteq Jobs
  /\ \A j \in DOMAIN listing : listing[j] \in Rows
  /\ hand \in Ids \cup {Nothing}
  /\ pc \in {"noting", "fire", "acting", "acted", "audited"} => hand \in Ids
  /\ draft \in [Editors -> DraftRecords \cup {Nothing}]
  /\ overtaken \subseteq Jobs
  /\ runs \in [Ids -> Nat]
  /\ fired \subseteq Ids
  /\ missed \subseteq Ids
  /\ faults \in 0..MaxFaults

NoListing == [j \in {} |-> Nothing]

Init ==
  /\ now = 0
  /\ life = [j \in Jobs |-> "none"]
  /\ enabled = {}
  /\ cron = [j \in Jobs |-> CHOOSE c \in Crons : TRUE]
  /\ next = [j \in Jobs |-> 0]
  /\ revision = [j \in Jobs |-> 1]
  /\ status = [i \in Ids |-> "none"]
  /\ pc = "down"
  /\ booted = 0
  /\ first = TRUE
  /\ fireTime = 0
  /\ listing = NoListing
  /\ hand = Nothing
  /\ draft = [e \in Editors |-> Nothing]
  /\ overtaken = {}
  /\ runs = [i \in Ids |-> 0]
  /\ fired = {}
  /\ missed = {}
  /\ faults = 0

-----------------------------------------------------------------------------
(* The runner: one pass after another.                                     *)

\* a pass is over or given up: its locals are gone
ForgetPass ==
  /\ fireTime' = 0
  /\ listing' = NoListing
  /\ hand' = Nothing

\* startScheduler
Boot ==
  /\ pc = "down"
  /\ pc' = "idle"
  /\ booted' = now
  /\ first' = TRUE
  /\ UNCHANGED <<now, jobs, status, locals, edits, runs, ledger, faults>>

\* tickScheduler reads the clock and lists the jobs
BeginPass ==
  /\ pc = "idle"
  /\ pc' = "enqueue"
  /\ fireTime' = now
  /\ listing' = [j \in enabled |-> [cron |-> cron[j], next |-> next[j]]]
  /\ UNCHANGED <<now, jobs, status, booted, first, hand, edits, runs,
                 ledger, faults>>

\* the row of j is next, and dealt with
Listed(j) ==
  /\ pc = "enqueue"
  /\ j \in DOMAIN listing
  /\ listing' = [k \in DOMAIN listing \ {j} |-> listing[k]]

\* an action the registry does not know (which it knew when the row was
\* written, in an older release): audited, and the job disabled; if it was
\* deleted meanwhile that throws, and the pass is given up
DisableUnknown(j) ==
  /\ "old_rows" \in Hazards
  /\ pc = "enqueue" /\ j \in DOMAIN listing
  /\ \/ /\ life[j] = "kept"
        /\ Listed(j)
        /\ enabled' = enabled \ {j}
        /\ UNCHANGED <<pc, fireTime, hand>>
     \/ /\ life[j] # "kept"
        /\ pc' = "idle"
        /\ ForgetPass
        /\ UNCHANGED enabled
  /\ UNCHANGED <<now, life, cron, next, revision, status, booted, first, edits,
                 runs, ledger, faults>>

\* the row still stands as it was listed
Unmoved(j) == j \in enabled /\ next[j] = listing[j].next

\* the first pass skips what came due before it (in the minute of the pass:
\* before or after, as the milliseconds fall)
SkipMissed(j) ==
  /\ Listed(j)
  /\ first /\ listing[j].next <= fireTime
  /\ \/ /\ Unmoved(j)
        /\ next' = [next EXCEPT ![j] = NextFire[listing[j].cron][fireTime]]
        /\ pc' = "noting"
        /\ hand' = <<j, listing[j].next>>
     \/ ~Unmoved(j) /\ UNCHANGED <<next, pc, hand>>
  /\ UNCHANGED <<now, life, enabled, cron, revision, status, booted,
                 first, fireTime, edits, runs, ledger, faults>>

\* the audit row of a skipped occurrence
NoteMissed ==
  /\ pc = "noting"
  /\ missed' = missed \cup {hand}
  /\ pc' = "enqueue"
  /\ hand' = Nothing
  /\ UNCHANGED <<now, jobs, status, booted, first, fireTime, listing, edits, runs, fired, faults>>

\* what throws while an occurrence is skipped or its audit row written, the
\* storage for one, is caught: the job is disabled
SkipFails(j) ==
  /\ "store_fault" \in Hazards /\ faults < MaxFaults
  /\ \/ /\ Listed(j)
        /\ first /\ listing[j].next <= fireTime
     \/ /\ pc = "noting" /\ hand[1] = j
        /\ UNCHANGED listing
  /\ life[j] = "kept" \* else disabling it throws too: PassFails
  /\ pc' = "enqueue"
  /\ enabled' = enabled \ {j}
  /\ hand' = Nothing
  /\ faults' = faults + 1
  /\ UNCHANGED <<now, life, cron, next, revision, status, booted,
                 first, fireTime, edits, runs, ledger>>

\* mutant: the claim does not advance the job
ClaimWithoutAdvance(j) ==
  LET i == <<j, next[j]>>
  IN /\ Listed(j)
     /\ listing[j].next <= fireTime
     /\ first => listing[j].next = fireTime
     /\ \/ /\ Unmoved(j) /\ status[i] = "none"
           /\ status' = [status EXCEPT ![i] = "pending"]
        \/ ~(Unmoved(j) /\ status[i] = "none") /\ UNCHANGED status
     /\ UNCHANGED <<now, jobs, pc, booted, first, fireTime, hand, edits,
                    runs, ledger, faults>>

\* mutant: every pass, the first one too, fires what is due
ClaimOnFirst(j) ==
  LET i == <<j, next[j]>>
  IN /\ Listed(j)
     /\ listing[j].next <= fireTime
     /\ \/ /\ Unmoved(j) /\ status[i] = "none"
           /\ status' = [status EXCEPT ![i] = "pending"]
           /\ next' = [next EXCEPT ![j] = NextFire[cron[j]][fireTime]]
        \/ ~(Unmoved(j) /\ status[i] = "none") /\ UNCHANGED <<status, next>>
     /\ UNCHANGED <<now, life, enabled, cron, revision, pc, booted,
                    first, fireTime, hand, edits, runs, ledger, faults>>

\* claimScheduledSchedulerInvocation: if the row still stands and there is no
\* invocation for the occurrence yet, there is one now and the job moves on
ClaimDue(j) ==
  LET i == <<j, next[j]>>
  IN /\ Listed(j)
     /\ listing[j].next <= fireTime
     /\ first => listing[j].next = fireTime
     /\ \/ /\ Unmoved(j) /\ status[i] = "none"
           /\ status' = [status EXCEPT ![i] = "pending"]
           /\ next' = [next EXCEPT ![j] = NextFire[cron[j]][fireTime]]
        \/ ~(Unmoved(j) /\ status[i] = "none") /\ UNCHANGED <<status, next>>
     /\ UNCHANGED <<now, life, enabled, cron, revision, pc, booted,
                    first, fireTime, hand, edits, runs, ledger, faults>>

\* mutant: nor is a job claimed while an invocation of it is running
NotWhileRunning(j) ==
  /\ Listed(j)
  /\ \/ listing[j].next > fireTime
     \/ ~first /\ \E t \in Minutes : status[<<j, t>>] = "running"
  /\ UNCHANGED <<now, jobs, status, pc, booted, first, fireTime, hand, edits, runs, ledger, faults>>

NotDue(j) ==
  /\ Listed(j)
  /\ listing[j].next > fireTime
  /\ UNCHANGED <<now, jobs, status, pc, booted, first, fireTime, hand, edits, runs, ledger, faults>>

EndListing ==
  /\ pc = "enqueue"
  /\ DOMAIN listing = {}
  /\ pc' = "claim"
  /\ UNCHANGED <<now, jobs, status, booted, first, locals, edits, runs,
                 ledger, faults>>

\* mutant: a claim also takes up what a dead process left running
ClaimAbandoned(i) ==
  /\ pc = "claim"
  /\ status[i] \in {"pending", "running"}
  /\ status' = [status EXCEPT ![i] = "running"]
  /\ pc' = "fire"
  /\ hand' = i
  /\ UNCHANGED <<now, jobs, booted, first, fireTime, listing, edits, runs, ledger, faults>>

\* claimNextSchedulerInvocation; which of the pending ones is left open
ClaimNext(i) ==
  /\ pc = "claim"
  /\ status[i] = "pending"
  /\ status' = [status EXCEPT ![i] = "running"]
  /\ pc' = "fire"
  /\ hand' = i
  /\ UNCHANGED <<now, jobs, booted, first, fireTime, listing, edits, runs, ledger, faults>>

\* the action is started; one the registry does not know is only audited
Fire ==
  /\ pc = "fire"
  /\ \/ /\ pc' = "acting"
        /\ runs' = [runs EXCEPT ![hand] = @ + 1]
     \/ /\ "old_rows" \in Hazards
        /\ pc' = "acted"
        /\ UNCHANGED runs
  /\ UNCHANGED <<now, jobs, status, booted, first, locals, edits, ledger,
                 faults>>

\* the action returned, threw or timed out (it then runs on by itself)
ActionOver ==
  /\ pc = "acting"
  /\ pc' = "acted"
  /\ UNCHANGED <<now, jobs, status, booted, first, locals, edits, runs, ledger,
                 faults>>

AuditFire ==
  /\ pc = "acted"
  /\ pc' = "audited"
  /\ fired' = fired \cup {hand}
  /\ UNCHANGED <<now, jobs, status, booted, first, locals, edits, runs,
                 missed, faults>>

\* completeSchedulerInvocation
Complete ==
  /\ pc = "audited"
  /\ pc' = "claim"
  /\ status' = [status EXCEPT ![hand] = "completed"]
  /\ hand' = Nothing
  /\ UNCHANGED <<now, jobs, booted, first, fireTime, listing, edits, runs, ledger, faults>>

\* nothing is pending any more: the pass has succeeded
EndPass ==
  /\ pc = "claim"
  /\ \A i \in Ids : status[i] # "pending"
  /\ pc' = "idle"
  /\ first' = FALSE
  /\ ForgetPass
  /\ UNCHANGED <<now, jobs, status, booted, edits, runs, ledger, faults>>

\* a storage call throws: the pass is given up, the next one is scheduled
PassFails ==
  /\ "store_fault" \in Hazards /\ faults < MaxFaults
  /\ pc \notin {"down", "idle"}
  /\ pc' = "idle"
  /\ ForgetPass
  /\ faults' = faults + 1
  /\ UNCHANGED <<now, jobs, status, booted, first, edits, runs, ledger>>

\* the server dies: the pass is gone
Crash ==
  /\ "crash" \in Hazards /\ faults < MaxFaults
  /\ pc # "down"
  /\ pc' = "down"
  /\ ForgetPass
  /\ faults' = faults + 1
  /\ UNCHANGED <<now, jobs, status, booted, first, edits, runs, ledger>>

-----------------------------------------------------------------------------
(* People, through the tools and the Slack controls.                       *)

\* What an edit of j has read, and what it will write: an update with a cron
\* or without one (params stands for that), or a resume.
Draft(j, kind, c, time) ==
  [job |-> j, kind |-> kind, revision |-> revision[j], read |-> next[j],
   cron |-> c, next |-> time]

\* the UPDATE: its predicate is the revision (and that a resumed job is off)
Write(d) ==
  LET j == d.job
      applies == /\ life[j] = "kept" /\ revision[j] = d.revision
                 /\ d.kind = "resume" => j \notin enabled
      stale == next[j] # d.read \/ (d.kind # "params" /\ d.next <= now)
  IN /\ \/ /\ applies
           /\ next' = [next EXCEPT ![j] = d.next]
           /\ revision' = [revision EXCEPT ![j] = @ + 1]
           /\ enabled' = IF d.kind = "resume" THEN enabled \cup {j} ELSE enabled
           /\ cron' = [cron EXCEPT ![j] = d.cron]
           /\ overtaken' = IF stale THEN overtaken \cup {j} ELSE overtaken
        \/ ~applies /\ UNCHANGED <<jobs, overtaken>>
     /\ UNCHANGED <<now, life, status, runner, runs, ledger, faults>>

\* a tool call reads the row ...
BeginEdit(e, j) ==
  /\ draft[e] = Nothing
  /\ life[j] = "kept" /\ revision[j] < MaxRevision
  /\ \/ draft' = [draft EXCEPT ![e] = Draft(j, "params", cron[j], next[j])]
     \/ \E c \in Crons :
          draft' = [draft EXCEPT ![e] = Draft(j, "cron", c, NextFire[c][now])]
     \/ /\ j \notin enabled
        /\ draft' = [draft EXCEPT ![e] =
                        Draft(j, "resume", cron[j], NextFire[cron[j]][now])]
  /\ UNCHANGED <<now, jobs, status, runner, overtaken, runs, ledger, faults>>

\* ... and the write
FinishEdit(e) ==
  /\ draft[e] # Nothing
  /\ Write(draft[e])
  /\ draft' = [draft EXCEPT ![e] = Nothing]

Create(j, c) ==
  /\ life[j] = "none"
  /\ life' = [life EXCEPT ![j] = "kept"]
  /\ enabled' = enabled \cup {j}
  /\ cron' = [cron EXCEPT ![j] = c]
  /\ next' = [next EXCEPT ![j] = NextFire[c][now]]
  /\ UNCHANGED <<now, revision, status, runner, edits, runs, ledger,
                 faults>>

Pause(j) ==
  /\ j \in enabled /\ revision[j] < MaxRevision
  /\ enabled' = enabled \ {j}
  /\ revision' = [revision EXCEPT ![j] = @ + 1]
  /\ UNCHANGED <<now, life, cron, next, status, runner, edits, runs, ledger, faults>>

Delete(j) ==
  /\ life[j] = "kept"
  /\ life' = [life EXCEPT ![j] = "deleted"]
  /\ enabled' = enabled \ {j}
  /\ UNCHANGED <<now, cron, next, revision, status, runner, edits, runs, ledger, faults>>

\* enqueueSchedulerRunNow; a repeated request finds its row and adds none
RunNow(k, j) ==
  /\ life[j] = "kept"
  /\ status[k] = "none"
  /\ status' = [status EXCEPT ![k] = "pending"]
  /\ UNCHANGED <<now, jobs, runner, edits, runs, ledger, faults>>

PassTime ==
  /\ now < MaxTime
  /\ now' = now + 1
  /\ UNCHANGED <<jobs, status, runner, edits, runs, ledger, faults>>

RunnerStep ==
  \/ Boot \/ BeginPass \/ NoteMissed \/ EndListing \/ Fire \/ ActionOver
  \/ AuditFire \/ Complete \/ EndPass
  \/ \E j \in Jobs : DisableUnknown(j) \/ SkipMissed(j) \/ SkipFails(j)
                       \/ ClaimDue(j) \/ NotDue(j)
  \/ \E i \in Ids : ClaimNext(i)

Edits ==
  \/ \E j \in Jobs : Pause(j) \/ Delete(j)
  \/ \E j \in Jobs, c \in Crons : Create(j, c)
  \/ \E k \in Manuals, j \in Jobs : RunNow(k, j)
  \/ \E e \in Editors : FinishEdit(e) \/ \E j \in Jobs : BeginEdit(e, j)

Next ==
  RunnerStep \/ Edits \/ PassTime \/ PassFails \/ Crash

Spec == Init /\ [][Next]_vars

\* compose restarts the server and passes follow each other.
FairSpec == Spec /\ WF_vars(RunnerStep)

-----------------------------------------------------------------------------
(* Properties.                                                             *)

\* The action of an invocation, scheduled or asked for, is started at most
\* once, over all passes, faults and restarts; what is completed was audited
\* first; and an occurrence audited as missed is never run, unless an edit
\* wrote back a time that a claim, a skip or the clock had overtaken.
RunsOnce ==
  /\ \A i \in Ids : /\ runs[i] <= 1
                    /\ runs[i] = 1 => status[i] \in {"running", "completed"}
                    /\ status[i] = "completed" => i \in fired
  /\ \A j \in Jobs \ overtaken, t \in Minutes :
       <<j, t>> \in missed => status[<<j, t>>] = "none"

\* A job never points at an occurrence that has its invocation, which the
\* claim would ignore and leave as it is, under the same condition.
Fresh(j) == <<j, next[j]>> \in Ids => status[<<j, next[j]>>] = "none"
NeverWedged == \A j \in enabled \ overtaken : Fresh(j)

\* No invocation is created for an occurrence from before the server's start:
\* what downtime passed over is skipped.  An invocation that was claimed in
\* time and left pending by a death or a failed pass is not of this kind: the
\* next pass runs it, however old (section 12 of the README).
ClaimsNoBacklog ==
  [][\A j \in Jobs \ overtaken, t \in Minutes :
       t < booted => (status[<<j, t>>] = "none") = (status[<<j, t>>] = "none")']_vars

\* The invocation the runner works on.
Working == {"fire", "acting", "acted", "audited"}
InHand == IF pc \in Working THEN {hand} ELSE {}

Promise == INSTANCE Invocations WITH Invocations <- Ids, held <- InHand

\* Passes, jobs, edits, clock and deaths leave of an invocation what Invocations
\* promises: asked for once, taken once, started, audited and completed in order.
InvocationsSpec == Promise!Spec

\* What a pass left running when it was cut short stays as it is: no later pass
\* and no restart takes it up, starts it, audits it or completes it.
DroppedForGood ==
  [][\A i \in Ids \ InHand : status[i] = "running" =>
       /\ i \notin InHand'
       /\ status'[i] = "running" /\ runs'[i] = runs[i]
       /\ i \in fired' <=> i \in fired]_vars

\* An enabled job whose time has come does not stay with it: it moves on, by a
\* claim or as missed, unless somebody takes it away or it was overtaken.
Due(j) == j \in enabled \ overtaken /\ next[j] <= now
DueMovesOn == \A j \in Jobs : []<>~Due(j)

\* "The revision predicate is the write authority. Another connection that
\* wins after the read makes this UPDATE return no row, never a lost write"
\* (db.ts:2043-2044): so no edit undoes the advance of a claim.
NeverALostWrite == \A j \in enabled : Fresh(j)

=============================================================================
