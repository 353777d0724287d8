--------------------------- MODULE SchedulerProofs ---------------------------
(***************************************************************************)
(* Theorems about Scheduler, for any set of jobs, schedules, requests and  *)
(* tool calls, any time, number of faults and any hazards. The inductive   *)
(* invariant says that whatever has been claimed, is being skipped or was  *)
(* skipped lies before next_fire_at and not in the future, and that no     *)
(* enabled job is behind the start of the process once its first pass has  *)
(* dealt with it.                                                          *)
(***************************************************************************)
EXTENDS Scheduler, TLAPS

\* A tool call that leaves the cron alone writes back the time it read, and
\* there is a revision left for it.
DraftsInv ==
  \A e \in Editors : draft[e] # Nothing =>
    /\ draft[e].revision < MaxRevision
    /\ draft[e].kind = "params" => draft[e].next = draft[e].read

\* The invocation in hand is running and, until it is fired, was not started.
HandInv ==
  /\ pc \in Working => status[hand] = "running"
  /\ pc = "fire" => runs[hand] = 0
  /\ pc = "audited" => hand \in fired

RunsInv ==
  \A i \in Ids : /\ runs[i] <= 1
                 /\ runs[i] = 1 => status[i] \in {"running", "completed"}
                 /\ status[i] = "completed" => i \in fired

\* The occurrence of j at t was claimed, was skipped, or is being skipped.
Dealt(j, t) == \/ status[<<j, t>>] # "none"
               \/ <<j, t>> \in missed
               \/ pc = "noting" /\ hand = <<j, t>>

DealtInv ==
  \A j \in Jobs \ overtaken, t \in Minutes :
    Dealt(j, t) => t < next[j] /\ t <= now

\* What is skipped has no invocation.
MissedInv ==
  \A j \in Jobs \ overtaken, t \in Minutes :
    <<j, t>> \in missed \/ (pc = "noting" /\ hand = <<j, t>>) => status[<<j, t>>] = "none"

\* After the first pass, and in it once its row is dealt with, no enabled job
\* is due since before the start.
SinceBoot ==
  /\ pc \notin {"down", "idle"} => booted <= fireTime
  /\ \A j \in enabled \ overtaken :
       /\ pc \in Working \cup {"claim"} => booted <= next[j]
       /\ ~first /\ pc # "down" => booted <= next[j]
       /\ pc \in {"enqueue", "noting"} =>
            \/ booted <= next[j]
            \/ j \in DOMAIN listing /\ listing[j].next = next[j]

\* A skipped occurrence in hand is one of a job.
NotingInv == pc = "noting" => hand \in Jobs \X Minutes

Inv ==
  /\ TypeOK
  /\ DraftsInv
  /\ HandInv
  /\ RunsInv
  /\ DealtInv
  /\ MissedInv
  /\ SinceBoot
  /\ NotingInv

USE DEF jobs, locals, runner, ledger, edits

LEMMA InvInit == Init => Inv
  <1> SUFFICES ASSUME Init PROVE Inv
    OBVIOUS
  <1> USE TimeAssumption, RevisionAssumption, FaultsAssumption, NextFireAssumption
  <1>1. TypeOK
    <2>1. (CHOOSE c \in Crons : TRUE) \in Crons
      OBVIOUS
    <2>2. cron \in [Jobs -> Crons]
      BY <2>1 DEF Init
    <2>3. revision \in [Jobs -> 1..MaxRevision] /\ next \in [Jobs -> Nat]
      BY DEF Init
    <2>4. /\ now \in Minutes /\ booted \in 0..now /\ fireTime \in 0..now
          /\ faults \in 0..MaxFaults
      BY DEF Init, Minutes
    <2>5. draft \in [Editors -> DraftRecords \cup {Nothing}]
      BY DEF Init
    <2>6. /\ DOMAIN listing = {}
          /\ pc \in Phases
          /\ hand = Nothing
          /\ pc \notin {"noting", "fire", "acting", "acted", "audited"}
      BY DEF Init, NoListing, Phases
    <2>7. /\ life \in [Jobs -> {"none", "kept", "deleted"}]
          /\ status \in [Ids -> {"none", "pending", "running", "completed"}]
          /\ runs \in [Ids -> Nat]
      BY DEF Init
    <2>8. /\ enabled = {} /\ overtaken = {}
          /\ fired = {} /\ missed = {} /\ first \in BOOLEAN
      BY DEF Init
    <2> QED BY <2>2, <2>3, <2>4, <2>5, <2>6, <2>7, <2>8 DEF TypeOK
  <1>2. DraftsInv /\ HandInv /\ RunsInv
    BY DEF Init, DraftsInv, HandInv, RunsInv, Working
  <1>3. DealtInv /\ MissedInv /\ SinceBoot /\ NotingInv
    BY DEF Init, DealtInv, Dealt, MissedInv, SinceBoot, NotingInv, Ids, Working
  <1> QED BY <1>1, <1>2, <1>3 DEF Inv

-----------------------------------------------------------------------------
(* The schedules, and what the minutes are.                                *)

LEMMA Fires ==
  ASSUME NEW c \in Crons, NEW t \in Minutes
  PROVE  NextFire[c][t] \in Nat /\ NextFire[c][t] > t
  BY NextFireAssumption

LEMMA MinutesAre == Minutes \subseteq Nat /\ \A t \in Minutes : 0..t \subseteq Minutes
  BY TimeAssumption DEF Minutes

-----------------------------------------------------------------------------
(* Every step keeps the invariant, part by part.                           *)

LEMMA TypeStep == Inv /\ [Next]_vars => TypeOK'
  <1> SUFFICES ASSUME Inv, [Next]_vars PROVE TypeOK'
    OBVIOUS
  <1> USE TimeAssumption, RevisionAssumption, FaultsAssumption
  <1> USE DEF Inv, TypeOK
  <1>1. CASE Boot
    BY <1>1 DEF Boot, Listed, ForgetPass, NoListing, Phases, Minutes
  <1>2. CASE BeginPass
    <2>1. /\ DOMAIN listing' \subseteq Jobs
          /\ \A j \in DOMAIN listing' : listing'[j] \in Rows
      BY <1>2 DEF BeginPass, Rows
    <2>2. fireTime' \in 0..now'
      BY <1>2 DEF BeginPass, Minutes
    <2> QED BY <1>2, <2>1, <2>2 DEF BeginPass, Phases
  <1>3. CASE NoteMissed
    BY <1>3 DEF NoteMissed, Listed, ForgetPass, NoListing, Phases, Minutes
  <1>4. CASE EndListing
    BY <1>4 DEF EndListing, Listed, ForgetPass, NoListing, Phases, Minutes
  <1>5. CASE Fire
    BY <1>5 DEF Fire, Listed, ForgetPass, NoListing, Phases, Minutes
  <1>6. CASE ActionOver
    BY <1>6 DEF ActionOver, Listed, ForgetPass, NoListing, Phases, Minutes
  <1>7. CASE AuditFire
    BY <1>7 DEF AuditFire, Listed, ForgetPass, NoListing, Phases, Minutes
  <1>8. CASE Complete
    BY <1>8 DEF Complete, Listed, ForgetPass, NoListing, Phases, Minutes
  <1>9. CASE EndPass
    <2>1. /\ UNCHANGED <<now, jobs, status, booted, edits, runs, ledger, faults>>
          /\ pc' = "idle" /\ first' \in BOOLEAN
          /\ fireTime' = 0 /\ hand' = Nothing /\ DOMAIN listing' = {}
      BY <1>9 DEF EndPass, ForgetPass, NoListing
    <2>2. fireTime' \in 0..now'
      BY <2>1 DEF Minutes
    <2> QED BY <2>1, <2>2 DEF Phases
  <1>10. ASSUME NEW j \in Jobs, DisableUnknown(j) PROVE TypeOK'
    BY <1>10 DEF DisableUnknown, Listed, ForgetPass, NoListing, Phases, Minutes
  <1>11. ASSUME NEW j \in Jobs, SkipMissed(j) PROVE TypeOK'
    <2>1. CASE Unmoved(j)
      <3>1. /\ listing[j] \in Rows /\ fireTime \in Minutes
            /\ listing[j].next \in Minutes
        BY <1>11 DEF SkipMissed, Listed, Rows, Minutes
      <3>2. <<j, listing[j].next>> \in Ids
        BY <3>1 DEF Ids
      <3>3. NextFire[listing[j].cron][fireTime] \in Nat
        BY <3>1, Fires DEF Rows
      <3>4. next' \in [Jobs -> Nat] /\ hand' \in Ids /\ pc' \in Phases
        BY <1>11, <2>1, <3>2, <3>3 DEF SkipMissed, Phases
      <3>5. /\ DOMAIN listing' \subseteq Jobs
            /\ \A k \in DOMAIN listing' : listing'[k] \in Rows
        BY <1>11 DEF SkipMissed, Listed
      <3> QED BY <1>11, <3>4, <3>5 DEF SkipMissed
    <2>2. CASE ~Unmoved(j)
      BY <1>11, <2>2 DEF SkipMissed, Listed
    <2> QED BY <2>1, <2>2
  <1>12. ASSUME NEW j \in Jobs, SkipFails(j) PROVE TypeOK'
    BY <1>12 DEF SkipFails, Listed, ForgetPass, NoListing, Phases, Minutes
  <1>13. ASSUME NEW j \in Jobs, ClaimDue(j) PROVE TypeOK'
    <2>1. CASE Unmoved(j) /\ status[<<j, next[j]>>] = "none"
      <3>1. /\ listing[j] \in Rows /\ fireTime \in Minutes
            /\ next[j] = listing[j].next /\ next[j] \in Minutes
        BY <1>13, <2>1 DEF ClaimDue, Listed, Unmoved, Rows, Minutes
      <3>2. <<j, next[j]>> \in Ids
        BY <3>1 DEF Ids
      <3>3. NextFire[cron[j]][fireTime] \in Nat
        BY <3>1, Fires
      <3>4. /\ next' \in [Jobs -> Nat]
            /\ status' \in [Ids -> {"none", "pending", "running", "completed"}]
        BY <1>13, <2>1, <3>2, <3>3 DEF ClaimDue
      <3> QED BY <1>13, <3>4 DEF ClaimDue, Listed
    <2>2. CASE ~(Unmoved(j) /\ status[<<j, next[j]>>] = "none")
      BY <1>13, <2>2 DEF ClaimDue, Listed
    <2> QED BY <2>1, <2>2
  <1>14. ASSUME NEW j \in Jobs, NotDue(j) PROVE TypeOK'
    BY <1>14 DEF NotDue, Listed, ForgetPass, NoListing, Phases, Minutes
  <1>15. ASSUME NEW i \in Ids, ClaimNext(i) PROVE TypeOK'
    BY <1>15 DEF ClaimNext, Listed, ForgetPass, NoListing, Phases, Minutes
  <1>16. ASSUME NEW j \in Jobs, Pause(j) PROVE TypeOK'
    BY <1>16 DEF Pause, Listed, ForgetPass, NoListing, Phases, Minutes
  <1>17. ASSUME NEW j \in Jobs, Delete(j) PROVE TypeOK'
    BY <1>17 DEF Delete, Listed, ForgetPass, NoListing, Phases, Minutes
  <1>18. ASSUME NEW j \in Jobs, NEW c \in Crons, Create(j, c) PROVE TypeOK'
    <2>1. NextFire[c][now] \in Nat
      BY Fires
    <2> QED BY <1>18, <2>1 DEF Create
  <1>19. ASSUME NEW k \in Manuals, NEW j \in Jobs, RunNow(k, j) PROVE TypeOK'
    <2>1. k \in Ids
      BY DEF Ids
    <2> QED BY <1>19, <2>1 DEF RunNow
  <1>20. ASSUME NEW e \in Editors, FinishEdit(e) PROVE TypeOK'
    <2> DEFINE d == draft[e]
    <2>1. /\ d \in DraftRecords /\ d.revision < MaxRevision
          /\ Write(d)
          /\ draft' = [draft EXCEPT ![e] = Nothing]
      BY <1>20 DEF FinishEdit, DraftsInv
    <2>2. /\ UNCHANGED <<now, life, status, runner, runs, ledger, faults>>
          /\ draft' \in [Editors -> DraftRecords \cup {Nothing}]
      BY <2>1 DEF Write
    <2>3. /\ enabled' \subseteq {j \in Jobs : life[j] = "kept"}
          /\ cron' \in [Jobs -> Crons] /\ next' \in [Jobs -> Nat]
          /\ revision' \in [Jobs -> 1..MaxRevision]
          /\ overtaken' \subseteq Jobs
      BY <2>1 DEF Write, DraftRecords
    <2> QED BY <2>2, <2>3
  <1>21. ASSUME NEW e \in Editors, NEW j \in Jobs, BeginEdit(e, j) PROVE TypeOK'
    <2>1. \A c \in Crons : NextFire[c][now] \in Nat
      BY Fires
    <2>2. /\ revision[j] \in 1..MaxRevision /\ next[j] \in Nat /\ cron[j] \in Crons
          /\ NextFire[cron[j]][now] \in Nat
      BY <2>1
    <2>3. \A kind \in {"params", "cron", "resume"}, c \in Crons, t \in Nat :
            Draft(j, kind, c, t) \in DraftRecords
      BY <2>2 DEF Draft, DraftRecords
    <2>4. \E d \in DraftRecords : draft' = [draft EXCEPT ![e] = d]
      BY <1>21, <2>1, <2>2, <2>3 DEF BeginEdit
    <2> QED BY <1>21, <2>4 DEF BeginEdit
  <1>22. CASE PassTime
    BY <1>22 DEF PassTime, Listed, ForgetPass, NoListing, Phases, Minutes
  <1>23. CASE PassFails
    BY <1>23 DEF PassFails, Listed, ForgetPass, NoListing, Phases, Minutes
  <1>24. CASE Crash
    BY <1>24 DEF Crash, Listed, ForgetPass, NoListing, Phases, Minutes
  <1>25. CASE UNCHANGED vars
    BY <1>25 DEF vars
  <1> QED
    BY <1>1, <1>2, <1>3, <1>4, <1>5, <1>6, <1>7, <1>8, <1>9, <1>10, <1>11, <1>12, <1>13, <1>14, <1>15, <1>16, <1>17, <1>18, <1>19, <1>20, <1>21, <1>22, <1>23, <1>24, <1>25 DEF Next, RunnerStep, Edits

LEMMA DraftsStep == Inv /\ [Next]_vars => DraftsInv'
  <1> SUFFICES ASSUME Inv, [Next]_vars PROVE DraftsInv'
    OBVIOUS
  <1> USE DEF Inv, DraftsInv
  <1>1. CASE Boot
    BY <1>1 DEF Boot
  <1>2. CASE BeginPass
    BY <1>2 DEF BeginPass
  <1>3. CASE NoteMissed
    BY <1>3 DEF NoteMissed
  <1>4. CASE EndListing
    BY <1>4 DEF EndListing
  <1>5. CASE Fire
    BY <1>5 DEF Fire
  <1>6. CASE ActionOver
    BY <1>6 DEF ActionOver
  <1>7. CASE AuditFire
    BY <1>7 DEF AuditFire
  <1>8. CASE Complete
    BY <1>8 DEF Complete
  <1>9. CASE EndPass
    BY <1>9 DEF EndPass
  <1>10. ASSUME NEW j \in Jobs, DisableUnknown(j) PROVE DraftsInv'
    BY <1>10 DEF DisableUnknown
  <1>11. ASSUME NEW j \in Jobs, SkipMissed(j) PROVE DraftsInv'
    BY <1>11 DEF SkipMissed
  <1>12. ASSUME NEW j \in Jobs, SkipFails(j) PROVE DraftsInv'
    BY <1>12 DEF SkipFails
  <1>13. ASSUME NEW j \in Jobs, ClaimDue(j) PROVE DraftsInv'
    BY <1>13 DEF ClaimDue
  <1>14. ASSUME NEW j \in Jobs, NotDue(j) PROVE DraftsInv'
    BY <1>14 DEF NotDue
  <1>15. ASSUME NEW i \in Ids, ClaimNext(i) PROVE DraftsInv'
    BY <1>15 DEF ClaimNext
  <1>16. ASSUME NEW j \in Jobs, Pause(j) PROVE DraftsInv'
    BY <1>16 DEF Pause
  <1>17. ASSUME NEW j \in Jobs, Delete(j) PROVE DraftsInv'
    BY <1>17 DEF Delete
  <1>18. ASSUME NEW j \in Jobs, NEW c \in Crons, Create(j, c) PROVE DraftsInv'
    BY <1>18 DEF Create
  <1>19. ASSUME NEW k \in Manuals, NEW j \in Jobs, RunNow(k, j) PROVE DraftsInv'
    BY <1>19 DEF RunNow
  <1>20. ASSUME NEW e \in Editors, FinishEdit(e) PROVE DraftsInv'
    BY <1>20 DEF FinishEdit, Write, TypeOK
  <1>21. ASSUME NEW e \in Editors, NEW j \in Jobs, BeginEdit(e, j) PROVE DraftsInv'
    <2>1. \E d : /\ draft' = [draft EXCEPT ![e] = d]
                 /\ d.revision < MaxRevision
                 /\ d.kind = "params" => d.next = d.read
      BY <1>21 DEF BeginEdit, Draft
    <2> QED BY <1>21, <2>1 DEF BeginEdit, TypeOK
  <1>22. CASE PassTime
    BY <1>22 DEF PassTime
  <1>23. CASE PassFails
    BY <1>23 DEF PassFails
  <1>24. CASE Crash
    BY <1>24 DEF Crash
  <1>25. CASE UNCHANGED vars
    BY <1>25 DEF vars
  <1> QED
    BY <1>1, <1>2, <1>3, <1>4, <1>5, <1>6, <1>7, <1>8, <1>9, <1>10, <1>11, <1>12, <1>13, <1>14, <1>15, <1>16, <1>17, <1>18, <1>19, <1>20, <1>21, <1>22, <1>23, <1>24, <1>25 DEF Next, RunnerStep, Edits

LEMMA RunsStep == Inv /\ [Next]_vars => (HandInv /\ RunsInv)'
  <1> SUFFICES ASSUME Inv, [Next]_vars PROVE (HandInv /\ RunsInv)'
    OBVIOUS
  <1> USE DEF Inv, HandInv, RunsInv, TypeOK, Working
  <1>1. CASE Boot
    BY <1>1 DEF Boot, Listed, ForgetPass
  <1>2. CASE BeginPass
    BY <1>2 DEF BeginPass, Listed, ForgetPass
  <1>3. CASE NoteMissed
    BY <1>3 DEF NoteMissed, Listed, ForgetPass
  <1>4. CASE EndListing
    BY <1>4 DEF EndListing, Listed, ForgetPass
  <1>5. CASE Fire
    BY <1>5 DEF Fire, Listed, ForgetPass
  <1>6. CASE ActionOver
    BY <1>6 DEF ActionOver, Listed, ForgetPass
  <1>7. CASE AuditFire
    BY <1>7 DEF AuditFire, Listed, ForgetPass
  <1>8. CASE Complete
    BY <1>8 DEF Complete, Listed, ForgetPass
  <1>9. CASE EndPass
    BY <1>9 DEF EndPass, Listed, ForgetPass
  <1>10. ASSUME NEW j \in Jobs, DisableUnknown(j) PROVE (HandInv /\ RunsInv)'
    BY <1>10 DEF DisableUnknown, Listed, ForgetPass
  <1>11. ASSUME NEW j \in Jobs, SkipMissed(j) PROVE (HandInv /\ RunsInv)'
    BY <1>11 DEF SkipMissed, Listed, ForgetPass
  <1>12. ASSUME NEW j \in Jobs, SkipFails(j) PROVE (HandInv /\ RunsInv)'
    BY <1>12 DEF SkipFails, Listed, ForgetPass
  <1>13. ASSUME NEW j \in Jobs, ClaimDue(j) PROVE (HandInv /\ RunsInv)'
    BY <1>13 DEF ClaimDue, Listed, ForgetPass
  <1>14. ASSUME NEW j \in Jobs, NotDue(j) PROVE (HandInv /\ RunsInv)'
    BY <1>14 DEF NotDue, Listed, ForgetPass
  <1>15. ASSUME NEW i \in Ids, ClaimNext(i) PROVE (HandInv /\ RunsInv)'
    BY <1>15 DEF ClaimNext, Listed, ForgetPass
  <1>16. ASSUME NEW j \in Jobs, Pause(j) PROVE (HandInv /\ RunsInv)'
    BY <1>16 DEF Pause, Listed, ForgetPass
  <1>17. ASSUME NEW j \in Jobs, Delete(j) PROVE (HandInv /\ RunsInv)'
    BY <1>17 DEF Delete, Listed, ForgetPass
  <1>18. ASSUME NEW j \in Jobs, NEW c \in Crons, Create(j, c) PROVE (HandInv /\ RunsInv)'
    BY <1>18 DEF Create, Listed, ForgetPass
  <1>19. ASSUME NEW k \in Manuals, NEW j \in Jobs, RunNow(k, j) PROVE (HandInv /\ RunsInv)'
    BY <1>19 DEF RunNow, Listed, ForgetPass
  <1>20. ASSUME NEW e \in Editors, FinishEdit(e) PROVE (HandInv /\ RunsInv)'
    BY <1>20 DEF FinishEdit, Write
  <1>21. ASSUME NEW e \in Editors, NEW j \in Jobs, BeginEdit(e, j) PROVE (HandInv /\ RunsInv)'
    BY <1>21 DEF BeginEdit, Listed, ForgetPass
  <1>22. CASE PassTime
    BY <1>22 DEF PassTime, Listed, ForgetPass
  <1>23. CASE PassFails
    BY <1>23 DEF PassFails, Listed, ForgetPass
  <1>24. CASE Crash
    BY <1>24 DEF Crash, Listed, ForgetPass
  <1>25. CASE UNCHANGED vars
    BY <1>25 DEF vars
  <1> QED
    BY <1>1, <1>2, <1>3, <1>4, <1>5, <1>6, <1>7, <1>8, <1>9, <1>10, <1>11, <1>12, <1>13, <1>14, <1>15, <1>16, <1>17, <1>18, <1>19, <1>20, <1>21, <1>22, <1>23, <1>24, <1>25 DEF Next, RunnerStep, Edits

LEMMA DealtStep == Inv /\ [Next]_vars => (DealtInv /\ MissedInv /\ NotingInv)'
  <1> SUFFICES ASSUME Inv, [Next]_vars PROVE (DealtInv /\ MissedInv /\ NotingInv)'
    OBVIOUS
  <1> USE DEF Inv, DealtInv, MissedInv, NotingInv, Dealt, TypeOK
  <1>1. CASE Boot
    BY <1>1 DEF Boot, Listed, ForgetPass
  <1>2. CASE BeginPass
    BY <1>2 DEF BeginPass, Listed, ForgetPass
  <1>3. CASE NoteMissed
    BY <1>3 DEF NoteMissed, Listed, ForgetPass
  <1>4. CASE EndListing
    BY <1>4 DEF EndListing, Listed, ForgetPass
  <1>5. CASE Fire
    BY <1>5 DEF Fire, Listed, ForgetPass
  <1>6. CASE ActionOver
    BY <1>6 DEF ActionOver, Listed, ForgetPass
  <1>7. CASE AuditFire
    BY <1>7 DEF AuditFire, Listed, ForgetPass
  <1>8. CASE Complete
    BY <1>8 DEF Complete, HandInv, Working
  <1>9. CASE EndPass
    BY <1>9 DEF EndPass, Listed, ForgetPass
  <1>10. ASSUME NEW j \in Jobs, DisableUnknown(j) PROVE (DealtInv /\ MissedInv /\ NotingInv)'
    BY <1>10 DEF DisableUnknown, Listed, ForgetPass
  <1>11. ASSUME NEW j \in Jobs, SkipMissed(j) PROVE (DealtInv /\ MissedInv /\ NotingInv)'
    <2>1. CASE Unmoved(j)
      <3>1. /\ listing[j] \in Rows /\ fireTime \in Minutes /\ fireTime <= now /\ now \in Nat
            /\ next[j] = listing[j].next /\ next[j] \in Minutes /\ next[j] <= fireTime
        BY <1>11, <2>1, TimeAssumption DEF SkipMissed, Listed, Unmoved, Rows, Minutes
      <3> DEFINE n == NextFire[listing[j].cron][fireTime]
      <3>2. n \in Nat /\ n > fireTime
        BY <3>1, Fires DEF Rows
      <3>3. /\ next' = [next EXCEPT ![j] = n]
            /\ pc = "enqueue" /\ pc' = "noting" /\ hand' = <<j, next[j]>>
            /\ UNCHANGED <<status, missed, overtaken, now>>
        BY <1>11, <2>1, <3>1 DEF SkipMissed, Listed
      <3> HIDE DEF n
      <3>4. j \notin overtaken => status[<<j, next[j]>>] = "none"
        BY <3>1
      <3> QED BY <3>1, <3>2, <3>3, <3>4, MinutesAre
    <2>2. CASE ~Unmoved(j)
      BY <1>11, <2>2 DEF SkipMissed, Listed
    <2> QED BY <2>1, <2>2
  <1>12. ASSUME NEW j \in Jobs, SkipFails(j) PROVE (DealtInv /\ MissedInv /\ NotingInv)'
    BY <1>12 DEF SkipFails, Listed, ForgetPass
  <1>13. ASSUME NEW j \in Jobs, ClaimDue(j) PROVE (DealtInv /\ MissedInv /\ NotingInv)'
    <2>1. CASE Unmoved(j) /\ status[<<j, next[j]>>] = "none"
      <3>1. /\ listing[j] \in Rows /\ fireTime \in Minutes /\ fireTime <= now /\ now \in Nat
            /\ next[j] = listing[j].next /\ next[j] \in Minutes /\ next[j] <= fireTime
        BY <1>13, <2>1, TimeAssumption DEF ClaimDue, Listed, Unmoved, Rows, Minutes
      <3> DEFINE n == NextFire[cron[j]][fireTime]
      <3>2. n \in Nat /\ n > fireTime
        BY <3>1, Fires
      <3>3. /\ next' = [next EXCEPT ![j] = n]
            /\ status' = [status EXCEPT ![<<j, next[j]>>] = "pending"]
            /\ pc = "enqueue"
            /\ UNCHANGED <<pc, hand, missed, overtaken, now>>
        BY <1>13, <2>1 DEF ClaimDue, Listed
      <3> HIDE DEF n
      <3>4. j \notin overtaken => <<j, next[j]>> \notin missed
        BY <3>1
      <3> QED BY <3>1, <3>2, <3>3, <3>4, MinutesAre
    <2>2. CASE ~(Unmoved(j) /\ status[<<j, next[j]>>] = "none")
      BY <1>13, <2>2 DEF ClaimDue, Listed
    <2> QED BY <2>1, <2>2
  <1>14. ASSUME NEW j \in Jobs, NotDue(j) PROVE (DealtInv /\ MissedInv /\ NotingInv)'
    BY <1>14 DEF NotDue, Listed, ForgetPass
  <1>15. ASSUME NEW i \in Ids, ClaimNext(i) PROVE (DealtInv /\ MissedInv /\ NotingInv)'
    BY <1>15 DEF ClaimNext, Listed, ForgetPass
  <1>16. ASSUME NEW j \in Jobs, Pause(j) PROVE (DealtInv /\ MissedInv /\ NotingInv)'
    BY <1>16 DEF Pause, Listed, ForgetPass
  <1>17. ASSUME NEW j \in Jobs, Delete(j) PROVE (DealtInv /\ MissedInv /\ NotingInv)'
    BY <1>17 DEF Delete, Listed, ForgetPass
  <1>18. ASSUME NEW j \in Jobs, NEW c \in Crons, Create(j, c) PROVE (DealtInv /\ MissedInv /\ NotingInv)'
    <2>1. NextFire[c][now] \in Nat /\ NextFire[c][now] > now /\ now \in Nat
      BY Fires, MinutesAre
    <2> QED BY <1>18, <2>1, MinutesAre DEF Create
  <1>19. ASSUME NEW k \in Manuals, NEW j \in Jobs, RunNow(k, j) PROVE (DealtInv /\ MissedInv /\ NotingInv)'
    <2>1. \A l \in Jobs, t \in Minutes : k \notin {<<l, t>>}
      BY ManualsAssumption, MinutesAre
    <2> QED BY <1>19, <2>1 DEF RunNow
  <1>20. ASSUME NEW e \in Editors, FinishEdit(e) PROVE (DealtInv /\ MissedInv /\ NotingInv)'
    <2> DEFINE d == draft[e]
    <2>1. /\ d \in DraftRecords
          /\ d.kind = "params" => d.next = d.read
          /\ Write(d)
      BY <1>20 DEF FinishEdit, DraftsInv
    <2>2. UNCHANGED <<status, missed, pc, hand, now>>
      BY <2>1 DEF Write
    <2>3. /\ overtaken \subseteq overtaken'
          /\ \A j \in Jobs \ overtaken' : next'[j] = next[j] \/ next'[j] > now
      BY <2>1, MinutesAre DEF Write, DraftRecords
    <2>4. next' \in [Jobs -> Nat]
      BY <2>1 DEF Write, DraftRecords
    <2> QED BY <2>2, <2>3, <2>4, MinutesAre
  <1>21. ASSUME NEW e \in Editors, NEW j \in Jobs, BeginEdit(e, j) PROVE (DealtInv /\ MissedInv /\ NotingInv)'
    BY <1>21 DEF BeginEdit, Listed, ForgetPass
  <1>22. CASE PassTime
    BY <1>22, TimeAssumption DEF PassTime, Minutes
  <1>23. CASE PassFails
    BY <1>23 DEF PassFails, Listed, ForgetPass
  <1>24. CASE Crash
    BY <1>24 DEF Crash, Listed, ForgetPass
  <1>25. CASE UNCHANGED vars
    BY <1>25 DEF vars
  <1> QED
    BY <1>1, <1>2, <1>3, <1>4, <1>5, <1>6, <1>7, <1>8, <1>9, <1>10, <1>11, <1>12, <1>13, <1>14, <1>15, <1>16, <1>17, <1>18, <1>19, <1>20, <1>21, <1>22, <1>23, <1>24, <1>25 DEF Next, RunnerStep, Edits

LEMMA SinceBootStep == Inv /\ [Next]_vars => SinceBoot'
  <1> SUFFICES ASSUME Inv, [Next]_vars PROVE SinceBoot'
    OBVIOUS
  <1> USE DEF Inv, SinceBoot, TypeOK, Working
  <1>1. CASE Boot
    BY <1>1 DEF Boot, Listed, ForgetPass
  <1>2. CASE BeginPass
    BY <1>2 DEF BeginPass, Listed, ForgetPass
  <1>3. CASE NoteMissed
    BY <1>3 DEF NoteMissed, Listed, ForgetPass
  <1>4. CASE EndListing
    BY <1>4 DEF EndListing, Listed, ForgetPass
  <1>5. CASE Fire
    BY <1>5 DEF Fire, Listed, ForgetPass
  <1>6. CASE ActionOver
    BY <1>6 DEF ActionOver, Listed, ForgetPass
  <1>7. CASE AuditFire
    BY <1>7 DEF AuditFire, Listed, ForgetPass
  <1>8. CASE Complete
    BY <1>8 DEF Complete, Listed, ForgetPass
  <1>9. CASE EndPass
    BY <1>9 DEF EndPass, Listed, ForgetPass
  <1>10. ASSUME NEW j \in Jobs, DisableUnknown(j) PROVE SinceBoot'
    BY <1>10 DEF DisableUnknown, Listed, ForgetPass
  <1>11. ASSUME NEW j \in Jobs, SkipMissed(j) PROVE SinceBoot'
    <2>1. /\ pc = "enqueue" /\ booted <= fireTime /\ booted \in Nat
          /\ fireTime \in Minutes /\ fireTime \in Nat
          /\ UNCHANGED <<enabled, overtaken, booted, first, fireTime>>
          /\ listing' = [k \in DOMAIN listing \ {j} |-> listing[k]]
      BY <1>11, MinutesAre, TimeAssumption DEF SkipMissed, Listed, Minutes
    <2>2. CASE Unmoved(j)
      <3> DEFINE n == NextFire[listing[j].cron][fireTime]
      <3>1. n \in Nat /\ n > fireTime
        BY <1>11, <2>1, Fires DEF SkipMissed, Listed, Rows
      <3>2. next' = [next EXCEPT ![j] = n] /\ pc' = "noting" /\ first
        BY <1>11, <2>2 DEF SkipMissed
      <3> HIDE DEF n
      <3> QED BY <2>1, <3>1, <3>2
    <2>3. CASE ~Unmoved(j)
      BY <1>11, <2>1, <2>3 DEF SkipMissed, Unmoved
    <2> QED BY <2>2, <2>3
  <1>12. ASSUME NEW j \in Jobs, SkipFails(j) PROVE SinceBoot'
    BY <1>12 DEF SkipFails, Listed, ForgetPass
  <1>13. ASSUME NEW j \in Jobs, ClaimDue(j) PROVE SinceBoot'
    <2>1. /\ pc = "enqueue" /\ booted <= fireTime /\ booted \in Nat
          /\ fireTime \in Minutes /\ fireTime \in Nat
          /\ UNCHANGED <<pc, enabled, overtaken, booted, first, fireTime>>
          /\ listing' = [k \in DOMAIN listing \ {j} |-> listing[k]]
      BY <1>13, MinutesAre, TimeAssumption DEF ClaimDue, Listed, Minutes
    <2>2. CASE Unmoved(j) /\ status[<<j, next[j]>>] = "none"
      <3> DEFINE n == NextFire[cron[j]][fireTime]
      <3>1. n \in Nat /\ n > fireTime
        BY <1>13, <2>1, Fires DEF ClaimDue
      <3>2. next' = [next EXCEPT ![j] = n]
        BY <1>13, <2>2 DEF ClaimDue
      <3> HIDE DEF n
      <3> QED BY <2>1, <3>1, <3>2
    <2>3. CASE ~(Unmoved(j) /\ status[<<j, next[j]>>] = "none")
      <3>1. next' = next
        BY <1>13, <2>3 DEF ClaimDue
      <3>2. Unmoved(j) /\ j \notin overtaken => status[<<j, next[j]>>] = "none"
        <4>1. Unmoved(j) => next[j] \in Minutes /\ next[j] \in Nat
          BY <1>13, MinutesAre, TimeAssumption DEF ClaimDue, Listed, Unmoved, Rows, Minutes
        <4> QED BY <4>1 DEF DealtInv, Dealt
      <3>3. ~Unmoved(j) \/ j \in overtaken
        BY <2>3, <3>2
      <3> QED BY <2>1, <3>1, <3>3 DEF Unmoved
    <2> QED BY <2>2, <2>3
  <1>14. ASSUME NEW j \in Jobs, NotDue(j) PROVE SinceBoot'
    BY <1>14 DEF NotDue, Listed, ForgetPass
  <1>15. ASSUME NEW i \in Ids, ClaimNext(i) PROVE SinceBoot'
    BY <1>15 DEF ClaimNext, Listed, ForgetPass
  <1>16. ASSUME NEW j \in Jobs, Pause(j) PROVE SinceBoot'
    BY <1>16 DEF Pause, Listed, ForgetPass
  <1>17. ASSUME NEW j \in Jobs, Delete(j) PROVE SinceBoot'
    BY <1>17 DEF Delete, Listed, ForgetPass
  <1>18. ASSUME NEW j \in Jobs, NEW c \in Crons, Create(j, c) PROVE SinceBoot'
    <2>1. NextFire[c][now] \in Nat /\ NextFire[c][now] > now /\ now \in Nat /\ booted <= now
      BY Fires, MinutesAre
    <2>2. booted \in Nat
      BY MinutesAre
    <2> QED BY <1>18, <2>1, <2>2 DEF Create
  <1>19. ASSUME NEW k \in Manuals, NEW j \in Jobs, RunNow(k, j) PROVE SinceBoot'
    BY <1>19 DEF RunNow, Listed, ForgetPass
  <1>20. ASSUME NEW e \in Editors, FinishEdit(e) PROVE SinceBoot'
    <2> DEFINE d == draft[e]
    <2>1. /\ d \in DraftRecords
          /\ d.kind = "params" => d.next = d.read
          /\ Write(d)
      BY <1>20 DEF FinishEdit, DraftsInv
    <2>2. UNCHANGED runner /\ now \in Nat /\ booted \in Nat /\ booted <= now
      BY <2>1, MinutesAre DEF Write
    <2>3. \A j \in enabled' \ overtaken' :
            /\ j \notin overtaken
            /\ next'[j] > now \/ (j \in enabled /\ next'[j] = next[j])
      BY <2>1, MinutesAre DEF Write, DraftRecords
    <2>4. next' \in [Jobs -> Nat] /\ enabled' \subseteq Jobs
      BY <2>1 DEF Write, DraftRecords
    <2> QED BY <2>2, <2>3, <2>4
  <1>21. ASSUME NEW e \in Editors, NEW j \in Jobs, BeginEdit(e, j) PROVE SinceBoot'
    BY <1>21 DEF BeginEdit, Listed, ForgetPass
  <1>22. CASE PassTime
    BY <1>22 DEF PassTime, Listed, ForgetPass
  <1>23. CASE PassFails
    BY <1>23 DEF PassFails, Listed, ForgetPass
  <1>24. CASE Crash
    BY <1>24 DEF Crash, Listed, ForgetPass
  <1>25. CASE UNCHANGED vars
    BY <1>25 DEF vars
  <1> QED
    BY <1>1, <1>2, <1>3, <1>4, <1>5, <1>6, <1>7, <1>8, <1>9, <1>10, <1>11, <1>12, <1>13, <1>14, <1>15, <1>16, <1>17, <1>18, <1>19, <1>20, <1>21, <1>22, <1>23, <1>24, <1>25 DEF Next, RunnerStep, Edits

\* What ClaimsNoBacklog says of a step.
KeepsOld ==
  \A j \in Jobs \ overtaken, t \in Minutes :
    t < booted => (status[<<j, t>>] = "none") = (status[<<j, t>>] = "none")'

LEMMA KeepsOldStep == Inv /\ [Next]_vars => KeepsOld
  <1> SUFFICES ASSUME Inv, [Next]_vars PROVE KeepsOld
    OBVIOUS
  <1> USE DEF Inv, TypeOK
  <1>1. CASE Boot
    BY <1>1 DEF Boot, Listed, KeepsOld
  <1>2. CASE BeginPass
    BY <1>2 DEF BeginPass, Listed, KeepsOld
  <1>3. CASE NoteMissed
    BY <1>3 DEF NoteMissed, Listed, KeepsOld
  <1>4. CASE EndListing
    BY <1>4 DEF EndListing, Listed, KeepsOld
  <1>5. CASE Fire
    BY <1>5 DEF Fire, Listed, KeepsOld
  <1>6. CASE ActionOver
    BY <1>6 DEF ActionOver, Listed, KeepsOld
  <1>7. CASE AuditFire
    BY <1>7 DEF AuditFire, Listed, KeepsOld
  <1>8. CASE Complete
    BY <1>8 DEF Complete, HandInv, Working, KeepsOld
  <1>9. CASE EndPass
    BY <1>9 DEF EndPass, Listed, KeepsOld
  <1>10. ASSUME NEW j \in Jobs, DisableUnknown(j) PROVE KeepsOld
    BY <1>10 DEF DisableUnknown, Listed, KeepsOld
  <1>11. ASSUME NEW j \in Jobs, SkipMissed(j) PROVE KeepsOld
    BY <1>11 DEF SkipMissed, Listed, KeepsOld
  <1>12. ASSUME NEW j \in Jobs, SkipFails(j) PROVE KeepsOld
    BY <1>12 DEF SkipFails, Listed, KeepsOld
  <1>13. ASSUME NEW j \in Jobs, ClaimDue(j) PROVE KeepsOld
    <2>1. CASE Unmoved(j) /\ status[<<j, next[j]>>] = "none"
      <3>1. /\ pc = "enqueue" /\ booted \in Nat /\ fireTime \in Nat /\ next[j] \in Nat
            /\ booted <= fireTime /\ j \in enabled /\ listing[j].next = next[j]
        BY <1>13, <2>1, MinutesAre DEF ClaimDue, Listed, Unmoved, SinceBoot
      <3>2. j \notin overtaken => booted <= next[j]
        BY <1>13, <3>1 DEF ClaimDue, SinceBoot
      <3>3. status' = [status EXCEPT ![<<j, next[j]>>] = "pending"]
        BY <1>13, <2>1 DEF ClaimDue
      <3> QED BY <3>1, <3>2, <3>3, MinutesAre DEF KeepsOld
    <2>2. CASE ~(Unmoved(j) /\ status[<<j, next[j]>>] = "none")
      BY <1>13, <2>2 DEF ClaimDue, KeepsOld
    <2> QED BY <2>1, <2>2
  <1>14. ASSUME NEW j \in Jobs, NotDue(j) PROVE KeepsOld
    BY <1>14 DEF NotDue, Listed, KeepsOld
  <1>15. ASSUME NEW i \in Ids, ClaimNext(i) PROVE KeepsOld
    BY <1>15 DEF ClaimNext, Listed, KeepsOld
  <1>16. ASSUME NEW j \in Jobs, Pause(j) PROVE KeepsOld
    BY <1>16 DEF Pause, Listed, KeepsOld
  <1>17. ASSUME NEW j \in Jobs, Delete(j) PROVE KeepsOld
    BY <1>17 DEF Delete, Listed, KeepsOld
  <1>18. ASSUME NEW j \in Jobs, NEW c \in Crons, Create(j, c) PROVE KeepsOld
    BY <1>18 DEF Create, Listed, KeepsOld
  <1>19. ASSUME NEW k \in Manuals, NEW j \in Jobs, RunNow(k, j) PROVE KeepsOld
    <2>1. \A l \in Jobs, t \in Minutes : k \notin {<<l, t>>}
      BY ManualsAssumption, MinutesAre
    <2> QED BY <1>19, <2>1 DEF RunNow, KeepsOld
  <1>20. ASSUME NEW e \in Editors, FinishEdit(e) PROVE KeepsOld
    BY <1>20 DEF FinishEdit, Write, KeepsOld
  <1>21. ASSUME NEW e \in Editors, NEW j \in Jobs, BeginEdit(e, j) PROVE KeepsOld
    BY <1>21 DEF BeginEdit, Listed, KeepsOld
  <1>22. CASE PassTime
    BY <1>22 DEF PassTime, Listed, KeepsOld
  <1>23. CASE PassFails
    BY <1>23 DEF PassFails, Listed, KeepsOld
  <1>24. CASE Crash
    BY <1>24 DEF Crash, Listed, KeepsOld
  <1>25. CASE UNCHANGED vars
    BY <1>25 DEF vars, KeepsOld
  <1> QED
    BY <1>1, <1>2, <1>3, <1>4, <1>5, <1>6, <1>7, <1>8, <1>9, <1>10, <1>11, <1>12, <1>13, <1>14, <1>15, <1>16, <1>17, <1>18, <1>19, <1>20, <1>21, <1>22, <1>23, <1>24, <1>25 DEF Next, RunnerStep, Edits

-----------------------------------------------------------------------------
(* The theorems.                                                           *)

\* The invariant holds in every state the scheduler can reach.
THEOREM Invariant == Spec => []Inv
  <1>1. Inv /\ [Next]_vars => Inv'
    BY TypeStep, DraftsStep, RunsStep, DealtStep, SinceBootStep DEF Inv
  <1> QED BY <1>1, InvInit, PTL DEF Spec

\* Every variable keeps its type, whoever edits and whatever fails.
THEOREM TypeCorrect == Spec => []TypeOK
  <1>1. Inv => TypeOK
    BY DEF Inv
  <1> QED BY <1>1, Invariant, PTL

\* No invocation is started twice, over passes, faults and restarts, and no
\* occurrence audited as missed is run (claimScheduledSchedulerInvocation,
\* claimNextSchedulerInvocation, skipSchedulerOccurrence).
THEOREM RunsOnceHolds == Spec => []RunsOnce
  <1>1. Inv => RunsOnce
    BY DEF Inv, RunsInv, MissedInv, RunsOnce
  <1> QED BY <1>1, Invariant, PTL

\* No job points at an occurrence that already has its invocation, unless an
\* overtaken edit wrote to it: the only way a job can stop firing.
THEOREM NeverWedgedHolds == Spec => []NeverWedged
  <1>1. Inv => NeverWedged
    <2> SUFFICES ASSUME Inv, NEW j \in enabled \ overtaken, <<j, next[j]>> \in Ids
                 PROVE  status[<<j, next[j]>>] = "none"
      BY DEF NeverWedged, Fresh
    <2>1. j \in Jobs /\ next[j] \in Nat
      BY DEF Inv, TypeOK
    <2>2. <<j, next[j]>> \notin Manuals
      BY <2>1, ManualsAssumption
    <2>3. next[j] \in Minutes
      BY <2>2 DEF Ids
    <2>4. ~(next[j] < next[j])
      BY <2>1
    <2> QED BY <2>1, <2>3, <2>4 DEF Inv, DealtInv, Dealt
  <1> QED BY <1>1, Invariant, PTL

\* No pass claims an occurrence from before the start of its process, across
\* any crashes and failed first passes.  What an earlier pass has claimed and
\* left pending is not covered: a later pass runs it.
THEOREM ClaimsNoBacklogHolds == Spec => ClaimsNoBacklog
  <1>1. Inv /\ [Next]_vars => [KeepsOld]_vars
    BY KeepsOldStep
  <1>2. Spec => [][KeepsOld]_vars
    BY <1>1, Invariant, PTL DEF Spec
  <1> QED BY <1>2 DEF ClaimsNoBacklog, KeepsOld

-----------------------------------------------------------------------------
(* The refinement: Scheduler implements Invocations.                       *)

\* What is audited was taken, and what is taken is not audited before its action
\* is over.
FiredInv ==
  /\ \A i \in fired : status[i] \in {"running", "completed"}
  /\ pc \in {"fire", "acting", "acted"} => hand \notin fired

LEMMA FiredStep == Inv /\ FiredInv /\ [Next]_vars => FiredInv'
  <1> SUFFICES ASSUME Inv, FiredInv, [Next]_vars PROVE FiredInv'
    OBVIOUS
  <1> USE DEF Inv, TypeOK, HandInv, FiredInv, Working, ForgetPass
  <1>1. CASE Boot
    BY <1>1 DEF Boot, Listed
  <1>2. CASE BeginPass
    BY <1>2 DEF BeginPass, Listed
  <1>3. CASE NoteMissed
    BY <1>3 DEF NoteMissed, Listed
  <1>4. CASE EndListing
    BY <1>4 DEF EndListing, Listed
  <1>5. CASE Fire
    BY <1>5 DEF Fire, Listed
  <1>6. CASE ActionOver
    BY <1>6 DEF ActionOver, Listed
  <1>7. CASE AuditFire
    BY <1>7 DEF AuditFire, Listed
  <1>8. CASE Complete
    BY <1>8 DEF Complete, Listed
  <1>9. CASE EndPass
    BY <1>9 DEF EndPass, Listed
  <1>10. ASSUME NEW j \in Jobs, DisableUnknown(j) PROVE FiredInv'
    BY <1>10 DEF DisableUnknown, Listed
  <1>11. ASSUME NEW j \in Jobs, SkipMissed(j) PROVE FiredInv'
    BY <1>11 DEF SkipMissed, Listed
  <1>12. ASSUME NEW j \in Jobs, SkipFails(j) PROVE FiredInv'
    BY <1>12 DEF SkipFails, Listed
  <1>13. ASSUME NEW j \in Jobs, ClaimDue(j) PROVE FiredInv'
    BY <1>13 DEF ClaimDue, Listed
  <1>14. ASSUME NEW j \in Jobs, NotDue(j) PROVE FiredInv'
    BY <1>14 DEF NotDue, Listed
  <1>15. ASSUME NEW i \in Ids, ClaimNext(i) PROVE FiredInv'
    BY <1>15 DEF ClaimNext, Listed
  <1>16. ASSUME NEW j \in Jobs, Pause(j) PROVE FiredInv'
    BY <1>16 DEF Pause, Listed
  <1>17. ASSUME NEW j \in Jobs, Delete(j) PROVE FiredInv'
    BY <1>17 DEF Delete, Listed
  <1>18. ASSUME NEW j \in Jobs, NEW c \in Crons, Create(j, c) PROVE FiredInv'
    BY <1>18 DEF Create, Listed
  <1>19. ASSUME NEW k \in Manuals, NEW j \in Jobs, RunNow(k, j) PROVE FiredInv'
    BY <1>19 DEF RunNow, Listed
  <1>20. ASSUME NEW e \in Editors, FinishEdit(e) PROVE FiredInv'
    BY <1>20 DEF FinishEdit, Write, Listed
  <1>21. ASSUME NEW e \in Editors, NEW j \in Jobs, BeginEdit(e, j) PROVE FiredInv'
    BY <1>21 DEF BeginEdit, Listed
  <1>22. CASE PassTime
    BY <1>22 DEF PassTime, Listed
  <1>23. CASE PassFails
    BY <1>23 DEF PassFails, Listed
  <1>24. CASE Crash
    BY <1>24 DEF Crash, Listed
  <1>25. CASE UNCHANGED vars
    BY <1>25 DEF vars, Listed
  <1> QED
    BY <1>1, <1>2, <1>3, <1>4, <1>5, <1>6, <1>7, <1>8, <1>9, <1>10, <1>11, <1>12, <1>13, <1>14, <1>15, <1>16, <1>17, <1>18, <1>19, <1>20, <1>21, <1>22, <1>23, <1>24, <1>25 DEF Next, RunnerStep, Edits

\* An invocation has its audit row only once it was taken, and its action is over
\* (tickScheduler writes scheduler.fire after the action).
THEOREM FiredInvariant == Spec => []FiredInv
  <1>1. Init => FiredInv
    BY DEF Init, FiredInv
  <1> QED BY <1>1, FiredStep, Invariant, PTL DEF Spec

\* A step of the scheduler that shows of no invocation.
Unseen == UNCHANGED <<status, InHand, runs, fired>>

LEMMA StepMaps == Inv /\ FiredInv /\ [Next]_vars => [Promise!Next]_(Promise!vars)
  <1> DEFINE Mapped == [Promise!Next]_(Promise!vars)
  <1> SUFFICES ASSUME Inv, FiredInv, [Next]_vars PROVE Mapped
    OBVIOUS
  <1>0. /\ Unseen => Mapped
        /\ InHand' = {} /\ UNCHANGED <<status, runs, fired>> => Mapped
        /\ \A i \in Ids : \/ Promise!Ask(i) \/ Promise!Take(i) \/ Promise!Start(i)
                            \/ Promise!Audit(i) \/ Promise!Complete(i)
                          => Mapped
    BY DEF Unseen, Promise!vars, Promise!Next, Promise!Drop
  <1> HIDE DEF Mapped
  <1> USE DEF Inv, TypeOK, InHand, Working, Unseen
  <1>1. CASE Boot
    BY <1>1, <1>0 DEF Boot, Listed, ForgetPass
  <1>2. CASE BeginPass
    BY <1>2, <1>0 DEF BeginPass, Listed, ForgetPass
  <1>3. CASE NoteMissed
    BY <1>3, <1>0 DEF NoteMissed, Listed, ForgetPass
  <1>4. CASE EndListing
    BY <1>4, <1>0 DEF EndListing, Listed, ForgetPass
  <1>5. CASE Fire
    <2>1. CASE pc' = "acting" /\ runs' = [runs EXCEPT ![hand] = @ + 1]
      <3>1. hand \in Ids /\ runs[hand] = 0 /\ hand \notin fired
        BY <1>5 DEF Fire, HandInv, FiredInv
      <3>2. InHand = {hand} /\ InHand' = {hand} /\ runs' = [runs EXCEPT ![hand] = 1]
        BY <1>5, <2>1, <3>1 DEF Fire
      <3>3. UNCHANGED <<status, fired>>
        BY <1>5 DEF Fire
      <3> HIDE DEF InHand
      <3>4. Promise!Start(hand)
        BY <3>1, <3>2, <3>3 DEF Promise!Start
      <3> QED BY <3>1, <3>4, <1>0
    <2>2. CASE pc' = "acted" /\ UNCHANGED runs
      BY <1>5, <2>2, <1>0 DEF Fire
    <2> QED BY <1>5, <2>1, <2>2 DEF Fire
  <1>6. CASE ActionOver
    BY <1>6, <1>0 DEF ActionOver, Listed, ForgetPass
  <1>7. CASE AuditFire
    <2>1. /\ hand \in Ids /\ hand \notin fired
          /\ InHand = {hand} /\ InHand' = {hand}
          /\ fired' = fired \cup {hand} /\ UNCHANGED <<status, runs>>
      BY <1>7 DEF AuditFire, FiredInv
    <2> HIDE DEF InHand
    <2>2. Promise!Audit(hand)
      BY <2>1 DEF Promise!Audit
    <2> QED BY <2>1, <2>2, <1>0
  <1>8. CASE Complete
    <2>1. /\ hand \in Ids /\ hand \in fired /\ status[hand] = "running"
          /\ InHand = {hand} /\ InHand' = {}
          /\ status' = [status EXCEPT ![hand] = "completed"] /\ UNCHANGED <<runs, fired>>
      BY <1>8 DEF Complete, HandInv
    <2> HIDE DEF InHand
    <2>2. Promise!Complete(hand)
      BY <2>1 DEF Promise!Complete, Promise!Moves
    <2> QED BY <2>1, <2>2, <1>0
  <1>9. CASE EndPass
    BY <1>9, <1>0 DEF EndPass, Listed, ForgetPass
  <1>10. ASSUME NEW j \in Jobs, DisableUnknown(j) PROVE Mapped
    BY <1>10, <1>0 DEF DisableUnknown, Listed, ForgetPass
  <1>11. ASSUME NEW j \in Jobs, SkipMissed(j) PROVE Mapped
    BY <1>11, <1>0 DEF SkipMissed, Listed, ForgetPass
  <1>12. ASSUME NEW j \in Jobs, SkipFails(j) PROVE Mapped
    BY <1>12, <1>0 DEF SkipFails, Listed, ForgetPass
  <1>13. ASSUME NEW j \in Jobs, ClaimDue(j) PROVE Mapped
    <2>1. UNCHANGED <<InHand, runs, fired>>
      BY <1>13 DEF ClaimDue, Listed
    <2>2. CASE Unmoved(j) /\ status[<<j, next[j]>>] = "none"
      <3> DEFINE i == <<j, next[j]>>
      <3>1. /\ fireTime \in Minutes /\ next[j] \in Nat
            /\ next[j] = listing[j].next /\ listing[j].next <= fireTime
        BY <1>13, <2>2, TimeAssumption DEF ClaimDue, Listed, Unmoved, Minutes
      <3>2. next[j] \in Minutes
        BY <3>1, TimeAssumption DEF Minutes
      <3>3. i \in Ids
        BY <3>2 DEF Ids
      <3>4. status[i] = "none" /\ status' = [status EXCEPT ![i] = "pending"]
        BY <1>13, <2>2 DEF ClaimDue
      <3> HIDE DEF i, InHand
      <3>5. Promise!Ask(i)
        BY <2>1, <3>4 DEF Promise!Ask, Promise!Moves
      <3> QED BY <3>3, <3>5, <1>0
    <2>3. CASE ~(Unmoved(j) /\ status[<<j, next[j]>>] = "none")
      BY <1>13, <2>1, <2>3, <1>0 DEF ClaimDue
    <2> QED BY <2>2, <2>3
  <1>14. ASSUME NEW j \in Jobs, NotDue(j) PROVE Mapped
    BY <1>14, <1>0 DEF NotDue, Listed, ForgetPass
  <1>15. ASSUME NEW i \in Ids, ClaimNext(i) PROVE Mapped
    <2>1. /\ InHand = {} /\ InHand' = {i} /\ status[i] = "pending"
          /\ status' = [status EXCEPT ![i] = "running"] /\ UNCHANGED <<runs, fired>>
      BY <1>15 DEF ClaimNext
    <2> HIDE DEF InHand
    <2>2. Promise!Take(i)
      BY <2>1 DEF Promise!Take, Promise!Moves
    <2> QED BY <1>15, <2>2, <1>0
  <1>16. ASSUME NEW j \in Jobs, Pause(j) PROVE Mapped
    BY <1>16, <1>0 DEF Pause, Listed, ForgetPass
  <1>17. ASSUME NEW j \in Jobs, Delete(j) PROVE Mapped
    BY <1>17, <1>0 DEF Delete, Listed, ForgetPass
  <1>18. ASSUME NEW j \in Jobs, NEW c \in Crons, Create(j, c) PROVE Mapped
    BY <1>18, <1>0 DEF Create, Listed, ForgetPass
  <1>19. ASSUME NEW k \in Manuals, NEW j \in Jobs, RunNow(k, j) PROVE Mapped
    <2>1. /\ k \in Ids /\ status[k] = "none"
          /\ status' = [status EXCEPT ![k] = "pending"]
          /\ UNCHANGED <<InHand, runs, fired>>
      BY <1>19 DEF RunNow, Ids
    <2> HIDE DEF InHand
    <2>2. Promise!Ask(k)
      BY <2>1 DEF Promise!Ask, Promise!Moves
    <2> QED BY <2>1, <2>2, <1>0
  <1>20. ASSUME NEW e \in Editors, FinishEdit(e) PROVE Mapped
    BY <1>20, <1>0 DEF FinishEdit, Write, Listed, ForgetPass
  <1>21. ASSUME NEW e \in Editors, NEW j \in Jobs, BeginEdit(e, j) PROVE Mapped
    BY <1>21, <1>0 DEF BeginEdit, Listed, ForgetPass
  <1>22. CASE PassTime
    BY <1>22, <1>0 DEF PassTime, Listed, ForgetPass
  <1>23. CASE PassFails
    BY <1>23, <1>0 DEF PassFails, Listed, ForgetPass
  <1>24. CASE Crash
    BY <1>24, <1>0 DEF Crash, Listed, ForgetPass
  <1>25. CASE UNCHANGED vars
    BY <1>25, <1>0 DEF vars, Listed, ForgetPass
  <1> QED
    BY <1>1, <1>2, <1>3, <1>4, <1>5, <1>6, <1>7, <1>8, <1>9, <1>10, <1>11, <1>12, <1>13, <1>14, <1>15, <1>16, <1>17, <1>18, <1>19, <1>20, <1>21, <1>22, <1>23, <1>24, <1>25 DEF Next, RunnerStep, Edits

\* Whatever passes, edits, faults and deaths do, every step of the scheduler is, of
\* the invocations, one that Invocations allows or none (tickScheduler,
\* claimNextSchedulerInvocation, completeSchedulerInvocation).
THEOREM ImplementsInvocations == Spec => InvocationsSpec
  <1>1. Init => Promise!Init
    BY DEF Init, InHand, Working, Promise!Init
  <1> QED BY <1>1, StepMaps, Invariant, FiredInvariant, PTL
          DEF Spec, InvocationsSpec, Promise!Spec

\* What DroppedForGood says of a step.
KeepsDropped ==
  \A i \in Ids \ InHand : status[i] = "running" =>
    /\ i \notin InHand'
    /\ status'[i] = "running" /\ runs'[i] = runs[i]
    /\ i \in fired' <=> i \in fired

\* A running invocation that is not in hand stays as it is, for Invocations has
\* no step that would touch it: what a crash or a fault interrupts is never
\* started a second time, and never completed.
THEOREM DroppedForGoodHolds == Spec => DroppedForGood
  <1>1. ASSUME Inv, FiredInv, [Next]_vars PROVE KeepsDropped
    <2>1. [Promise!Next]_(Promise!vars)
      BY <1>1, StepMaps
    <2>2. status \in [Ids -> {"none", "pending", "running", "completed"}] /\ runs \in [Ids -> Nat]
      BY <1>1 DEF Inv, TypeOK
    <2> HIDE DEF InHand
    <2> QED BY <2>1, <2>2 DEF KeepsDropped, Promise!Next, Promise!vars, Promise!Moves,
              Promise!Ask, Promise!Take, Promise!Start, Promise!Audit, Promise!Complete,
              Promise!Drop
  <1>2. Inv /\ FiredInv /\ [Next]_vars => [KeepsDropped]_vars
    BY <1>1
  <1>3. Spec => [][KeepsDropped]_vars
    BY <1>2, Invariant, FiredInvariant, PTL DEF Spec
  <1> QED BY <1>3 DEF DroppedForGood, KeepsDropped
=============================================================================
