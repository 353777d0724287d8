------------------------------ MODULE OutboxSeam ------------------------------
(***************************************************************************)
(* The way of a result to Slack: the outbox table (src/src/store/outbox.ts)*)
(* and the server's post seam (src/src/server/services/outbox-post-seam.ts)*)
(* with the dispatch of polled ingest events (src/src/ingest/dispatch.ts). *)
(* A pass consumes a batch (marking its rows posted before it posts them), *)
(* posts row by row, requeues or fails what Slack refused, then nudges for *)
(* rows no consumer took in time. A pass that throws is caught by the      *)
(* reactive core and dropped; the next one starts from a fresh cursor.     *)
(*                                                                         *)
(* created_at is a logical clock: two rows never share a stamp. How much   *)
(* of it the unclaimed TTL covers is left open: the oldest pending rows,   *)
(* any number of them, may be stale.                                       *)
(***************************************************************************)
EXTENDS Naturals, FiniteSets

CONSTANTS
  Rows,             \* outbox rows: one per completed job or notification
  Servers,          \* server processes on this database
  BatchLimit,       \* DEFAULT_OUTBOX_BATCH_SIZE
  MaxPostAttempts,  \* maxPostAttempts
  MaxFaults,        \* bound: passes cut short
  Hazards           \* which of AllHazards the environment may inflict

AllHazards == {"post_refused", "answer_lost", "dispatch_fails", "store_fault",
               "crash"}

\* What a row asks for: a message; nothing, as its notification says it; an
\* ingest_poll outcome to dispatch; malformed; without a space.
Kinds == {"plain", "silent", "ingest", "bad", "no_space"}

ASSUME NoneAssumption == "none" \notin Rows
ASSUME LimitAssumption == BatchLimit \in Nat \ {0}
ASSUME PostAttemptsAssumption == MaxPostAttempts \in Nat \ {0}
ASSUME FaultsAssumption == MaxFaults \in Nat

VARIABLES
  kind,      \* what the row asks for, once written
  status,    \* none (no row yet) | pending | posted | failed
  tries,     \* the attempts column
  created,   \* created_at
  now,       \* the logical clock of created_at
  delivered, \* rows with an outbox.posted audit row
  unclaimed, \* rows with a job.unclaimed audit row
  lost,      \* history: rows of a batch whose pass was cut short before them
  told,      \* how often people were told of a row: its message or its nudge
  unsure,    \* rows whose post threw although Slack had taken it
  pc,        \* where the pass of a server is
  batch,     \* rows consumed and not yet dealt with by this pass
  row,       \* the row between two steps
  stale,     \* rows the nudge selected
  nudging,   \* rows surfaced, their nudge not yet posted
  faults     \* passes cut short

table  == <<kind, status, tries, created, now>>
trail  == <<delivered, unclaimed, lost>>
passOf == <<batch, row, stale, nudging>>
people == <<told, unsure>>
vars   == <<table, trail, people, pc, passOf, faults>>

Labels == {"idle", "rows", "posted", "refused", "nudge", "surface"}

TypeOK ==
  /\ kind \in [Rows -> Kinds]
  /\ status \in [Rows -> {"none", "pending", "posted", "failed"}]
  /\ tries \in [Rows -> 0..MaxPostAttempts]
  /\ created \in [Rows -> Nat]
  /\ now \in Nat
  /\ delivered \subseteq Rows
  /\ unclaimed \subseteq Rows
  /\ lost \subseteq Rows
  /\ told \in [Rows -> 0..MaxPostAttempts]
  /\ unsure \subseteq Rows
  /\ pc \in [Servers -> Labels]
  /\ batch \in [Servers -> SUBSET Rows]
  /\ row \in [Servers -> Rows \cup {"none"}]
  /\ stale \in [Servers -> SUBSET Rows]
  /\ nudging \in [Servers -> SUBSET Rows]
  /\ faults \in 0..MaxFaults

Init ==
  /\ kind = [r \in Rows |-> "plain"]
  /\ status = [r \in Rows |-> "none"]
  /\ tries = [r \in Rows |-> 0]
  /\ created = [r \in Rows |-> 0]
  /\ now = 0
  /\ delivered = {}
  /\ unclaimed = {}
  /\ lost = {}
  /\ told = [r \in Rows |-> 0]
  /\ unsure = {}
  /\ pc = [s \in Servers |-> "idle"]
  /\ batch = [s \in Servers |-> {}]
  /\ row = [s \in Servers |-> "none"]
  /\ stale = [s \in Servers |-> {}]
  /\ nudging = [s \in Servers |-> {}]
  /\ faults = 0

Goto(s, label) == pc' = [pc EXCEPT ![s] = label]

-------------------------------------------------------------------------------
(* The world.                                                              *)

\* postOutboxRow: INSERT OR IGNORE, so a second write of an id does nothing.
PostOutboxRow(r) ==
  /\ status[r] = "none"
  /\ \E k \in Kinds : kind' = [kind EXCEPT ![r] = k]
  /\ status' = [status EXCEPT ![r] = "pending"]
  /\ created' = [created EXCEPT ![r] = now + 1]
  /\ now' = now + 1
  /\ UNCHANGED <<tries, trail, people, pc, passOf, faults>>

-------------------------------------------------------------------------------
(* A pass: the consume leg.                                                *)

Pending == {r \in Rows : status[r] = "pending"}

\* WHERE status = 'pending' ORDER BY created_at LIMIT limit.
Oldest(limit) ==
  {r \in Pending : Cardinality({q \in Pending : created[q] < created[r]}) < limit}

\* MUTANT: the cursor of the last pass skips what was put back.
ConsumeBeyondCursor(s) ==
  LET ahead == {r \in Oldest(BatchLimit) : tries[r] = 0}
  IN /\ pc[s] = "idle"
     /\ batch' = [batch EXCEPT ![s] = ahead]
     /\ status' = [r \in Rows |-> IF r \in ahead THEN "posted" ELSE status[r]]
     /\ Goto(s, "rows")
     /\ UNCHANGED <<kind, tries, created, now, trail, people, row, stale, nudging, faults>>

\* consumeOutboxWatermarked: SELECT and mark in one BEGIN IMMEDIATE.
ConsumeBatch(s) ==
  /\ pc[s] = "idle"
  /\ batch' = [batch EXCEPT ![s] = Oldest(BatchLimit)]
  /\ status' = [r \in Rows |-> IF r \in Oldest(BatchLimit) THEN "posted" ELSE status[r]]
  /\ Goto(s, "rows")
  /\ UNCHANGED <<kind, tries, created, now, trail, people, row, stale, nudging, faults>>

\* The loop of postPendingOutboxRows is at row r.
At(s, r) ==
  /\ pc[s] = "rows"
  /\ r \in batch[s]
  /\ \A q \in batch[s] : created[r] <= created[q]

Tell(r) == told' = [told EXCEPT ![r] = @ + 1]

Take(s, r, label) == Goto(s, label) /\ row' = [row EXCEPT ![s] = r]

\* The row is dealt with; on to the next.
Drop(s, r) ==
  /\ batch' = [batch EXCEPT ![s] = @ \ {r}]
  /\ row' = [row EXCEPT ![s] = "none"]
  /\ Goto(s, "rows")

FailClosed(s, r) ==
  /\ At(s, r)
  /\ kind[r] \in {"bad", "no_space"}
  /\ Take(s, r, "refused")
  /\ UNCHANGED <<table, trail, people, batch, stale, nudging, faults>>

Superseded(s, r) ==
  /\ At(s, r)
  /\ kind[r] = "silent"
  /\ Drop(s, r)
  /\ UNCHANGED <<table, trail, people, stale, nudging, faults>>

\* adapter.postMessage succeeds.
PostMessage(s, r) ==
  /\ At(s, r)
  /\ kind[r] = "plain"
  /\ Tell(r)
  /\ unsure' = unsure
  /\ Take(s, r, "posted")
  /\ UNCHANGED <<table, trail, batch, stale, nudging, faults>>

\* adapter.postMessage throws: Slack refused it, or took it and the answer
\* was lost.
PostMessageThrows(s, r) ==
  /\ At(s, r)
  /\ kind[r] = "plain"
  /\ \/ "post_refused" \in Hazards /\ UNCHANGED people
     \/ "answer_lost" \in Hazards /\ Tell(r) /\ unsure' = unsure \cup {r}
  /\ Take(s, r, "refused")
  /\ UNCHANGED <<table, trail, batch, stale, nudging, faults>>

\* postIngestPollRow: the events are dispatched, or rejected by validation.
DispatchEvents(s, r) ==
  /\ At(s, r)
  /\ kind[r] = "ingest"
  /\ Tell(r) \/ told' = told
  /\ unsure' = unsure
  /\ Take(s, r, "posted")
  /\ UNCHANGED <<table, trail, batch, stale, nudging, faults>>

\* The outbox.posted audit row.
AuditPosted(s) ==
  /\ pc[s] = "posted"
  /\ delivered' = delivered \cup {row[s]}
  /\ Drop(s, row[s])
  /\ UNCHANGED <<table, unclaimed, lost, people, stale, nudging, faults>>

FailOutboxRow(r) ==
  IF status[r] # "failed"
    THEN /\ status' = [status EXCEPT ![r] = "failed"]
         /\ tries' = [tries EXCEPT ![r] = @ + 1]
         /\ UNCHANGED <<kind, created, now>>
    ELSE UNCHANGED table

\* Only a row still posted goes back, to the end of the queue.
RequeueOutboxRow(r) ==
  IF status[r] = "posted"
    THEN /\ status' = [status EXCEPT ![r] = "pending"]
         /\ tries' = [tries EXCEPT ![r] = @ + 1]
         /\ created' = [created EXCEPT ![r] = now + 1]
         /\ now' = now + 1
         /\ kind' = kind
    ELSE UNCHANGED table

\* MUTANT: the last failure is audited and the row left as it is.
SettleRequeueOnly(s) ==
  /\ pc[s] = "refused"
  /\ IF tries[row[s]] + 1 < MaxPostAttempts
       THEN RequeueOutboxRow(row[s])
       ELSE UNCHANGED table
  /\ Drop(s, row[s])
  /\ UNCHANGED <<trail, people, stale, nudging, faults>>

\* After a refusal: the outbox.failed audit row, then another attempt, or the
\* end where none can help or the bounded retries are used up.
SettleFailure(s) ==
  /\ pc[s] = "refused"
  /\ IF kind[row[s]] \in {"bad", "no_space"} \/ tries[row[s]] + 1 >= MaxPostAttempts
       THEN FailOutboxRow(row[s])
       ELSE RequeueOutboxRow(row[s])
  /\ Drop(s, row[s])
  /\ UNCHANGED <<trail, people, stale, nudging, faults>>

-------------------------------------------------------------------------------
(* A pass: the nudge leg.                                                  *)

\* The SELECT of nudgeUnclaimedOutboxRows: the rows older than the TTL.
SelectStale(s) ==
  /\ pc[s] = "rows"
  /\ batch[s] = {}
  /\ \E n \in 0..BatchLimit : stale' = [stale EXCEPT ![s] = Oldest(n)]
  /\ Goto(s, "nudge")
  /\ UNCHANGED <<table, trail, people, batch, row, nudging, faults>>

\* MUTANT: the UPDATE does not check the status.
MarkUnguarded(s, r) ==
  /\ pc[s] = "nudge"
  /\ r \in stale[s]
  /\ stale' = [stale EXCEPT ![s] = @ \ {r}]
  /\ status' = [status EXCEPT ![r] = "failed"]
  /\ Take(s, r, "surface")
  /\ UNCHANGED <<kind, tries, created, now, trail, people, batch, nudging, faults>>

\* The guarded UPDATE: a consumer that took the row in between wins.
MarkUnclaimed(s, r) ==
  /\ pc[s] = "nudge"
  /\ r \in stale[s]
  /\ stale' = [stale EXCEPT ![s] = @ \ {r}]
  /\ IF status[r] = "pending"
       THEN /\ status' = [status EXCEPT ![r] = "failed"]
            /\ Take(s, r, "surface")
       ELSE UNCHANGED <<status, pc, row>>
  /\ UNCHANGED <<kind, tries, created, now, trail, people, batch, nudging, faults>>

\* The job.unclaimed audit row.
AuditUnclaimed(s) ==
  /\ pc[s] = "surface"
  /\ unclaimed' = unclaimed \cup {row[s]}
  /\ nudging' = [nudging EXCEPT ![s] = @ \cup {row[s]}]
  /\ Take(s, "none", "nudge")
  /\ UNCHANGED <<table, delivered, lost, people, batch, stale, faults>>

\* One nudge; a refused one is only logged, a row without a space has none.
PostNudge(s, r) ==
  /\ pc[s] = "nudge"
  /\ stale[s] = {}
  /\ r \in nudging[s]
  /\ nudging' = [nudging EXCEPT ![s] = @ \ {r}]
  /\ \/ kind[r] # "no_space" /\ Tell(r)
     \/ kind[r] = "no_space" /\ told' = told
     \/ "post_refused" \in Hazards /\ told' = told
  /\ unsure' = unsure
  /\ UNCHANGED <<table, trail, pc, batch, row, stale, faults>>

EndPass(s) ==
  /\ pc[s] = "nudge"
  /\ stale[s] = {}
  /\ nudging[s] = {}
  /\ Goto(s, "idle")
  /\ UNCHANGED <<table, trail, people, passOf, faults>>

-------------------------------------------------------------------------------
(* A pass cut short: what it had consumed is not given back.               *)

LosePass(s) ==
  /\ faults < MaxFaults
  /\ faults' = faults + 1
  /\ lost' = lost \cup batch[s]
  /\ Goto(s, "idle")
  /\ batch' = [batch EXCEPT ![s] = {}]
  /\ row' = [row EXCEPT ![s] = "none"]
  /\ stale' = [stale EXCEPT ![s] = {}]
  /\ nudging' = [nudging EXCEPT ![s] = {}]
  /\ UNCHANGED <<table, delivered, unclaimed>>

Crash(s) ==
  /\ "crash" \in Hazards
  /\ pc[s] # "idle"
  /\ LosePass(s)
  /\ UNCHANGED people

\* A store call throws: nothing between it and the sweep catches.
StoreFault(s) ==
  /\ "store_fault" \in Hazards
  /\ \/ pc[s] \in {"posted", "refused", "surface"}
     \/ pc[s] = "rows" /\ batch[s] = {}
     \/ pc[s] = "nudge" /\ stale[s] # {}
  /\ LosePass(s)
  /\ UNCHANGED people

\* dispatchIngestEvent lets store and post errors through, and so do
\* postIngestPollRow and postPendingOutboxRows.
DispatchThrows(s) ==
  /\ "dispatch_fails" \in Hazards
  /\ \E r \in Rows :
       /\ At(s, r)
       /\ kind[r] = "ingest"
       /\ Tell(r) \/ told' = told
  /\ unsure' = unsure
  /\ LosePass(s)

-------------------------------------------------------------------------------

RowStep(s, r) ==
  \/ FailClosed(s, r)
  \/ Superseded(s, r)
  \/ PostMessage(s, r)
  \/ PostMessageThrows(s, r)
  \/ DispatchEvents(s, r)
  \/ MarkUnclaimed(s, r)
  \/ PostNudge(s, r)

ServerStep(s) ==
  \/ ConsumeBatch(s)
  \/ \E r \in Rows : RowStep(s, r)
  \/ AuditPosted(s)
  \/ SettleFailure(s)
  \/ SelectStale(s)
  \/ AuditUnclaimed(s)
  \/ EndPass(s)

PassFails(s) == Crash(s) \/ StoreFault(s) \/ DispatchThrows(s)

Next ==
  \/ \E r \in Rows : PostOutboxRow(r)
  \/ \E s \in Servers : ServerStep(s) \/ PassFails(s)

Spec == Init /\ [][Next]_vars

\* The loop chains pass after pass in every living server.
FairSpec == Spec /\ \A s \in Servers : WF_vars(ServerStep(s))

-------------------------------------------------------------------------------
(* Properties.                                                             *)

\* At most once: whatever retries, second servers, nudges and deaths come
\* between, people are told of a row at most once, by its message or by the
\* nudge that it was not delivered, never by both. A post that throws after
\* Slack took it is retried, so there only the bound on the retries holds.
ToldAtMostOnce ==
  \A r \in Rows : told[r] <= IF r \in unsure THEN MaxPostAttempts ELSE 1

\* A row that the table says is posted is being posted, was posted, or has
\* nothing to post: refused rows go back or fail, through retries, second
\* servers and nudges.  The one exception is what a pass cut short by a death
\* or an exception still had of its batch, and it costs those rows alone: what
\* that pass had dealt with, the other batches and the rows still pending
\* stay accounted for.
NothingForgotten ==
  \A r \in Rows : status[r] = "posted" =>
    \/ \E s \in Servers : r \in batch[s]
    \/ r \in delivered
    \/ kind[r] = "silent"
    \/ r \in lost

\* Server s has row r between two steps of its consume leg.
AtHand(s, r) == pc[s] \in {"posted", "refused"} /\ row[s] = r

\* Server s has failed row r as unclaimed and is going to nudge for it.
Surfaced(s, r) == r \in nudging[s] \/ (pc[s] = "surface" /\ row[s] = r)

\* Where a row is, whoever has it.
Life(r) ==
  IF status[r] # "posted" /\ status[r] # "failed" THEN status[r]
  ELSE IF \E s \in Servers : r \in batch[s] /\ ~AtHand(s, r) THEN "taken"
  ELSE IF \E s \in Servers : pc[s] = "refused" /\ row[s] = r THEN "refused"
  ELSE IF \E s \in Servers : Surfaced(s, r) THEN "surfaced"
  ELSE "over"

Promise == INSTANCE Outbox WITH life <- [r \in Rows |-> Life(r)]

\* Any number of servers, with their batches, deaths and second passes, treat each
\* row as one would: the seam implements the life of a row of Outbox.
OutboxSpec == Promise!Spec

\* A row that is told, superseded, failed or lost is never touched again, whatever
\* a pass still holds of it: not posted, not nudged for, not put back.
OverIsFinal ==
  [][\A r \in Rows : Life(r) = "over" =>
       Life(r)' = "over" /\ told'[r] = told[r] /\ tries'[r] = tries[r]]_vars

\* Every row that is written is in the end delivered, superseded or failed,
\* also after a pass was cut short, unless it was in what that pass dropped.
EveryRowSettles ==
  \A r \in Rows : status[r] = "pending" ~>
    (r \in delivered \/ status[r] = "failed" \/ kind[r] = "silent" \/ r \in lost)
===============================================================================
