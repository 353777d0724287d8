--------------------------- MODULE OutboxSeamProofs ---------------------------
(***************************************************************************)
(* Proofs about OutboxSeam, for any number of rows, servers, attempts and  *)
(* faults: type correctness, and that people are told of a row at most     *)
(* once. What carries them is who may speak for a row: the one server      *)
(* whose batch holds it, or the one that failed it as unclaimed.           *)
(***************************************************************************)
EXTENDS OutboxSeam, TLAPS

LEMMA AssumptionsHold == /\ "none" \notin Rows
                         /\ BatchLimit \in Nat \ {0}
                         /\ MaxPostAttempts \in Nat \ {0}
                         /\ MaxFaults \in Nat
  BY NoneAssumption, LimitAssumption, PostAttemptsAssumption, FaultsAssumption

-------------------------------------------------------------------------------
(* The inductive invariant.                                                *)

\* A server between two steps of a row has the row in its batch, or has just
\* failed it as unclaimed.
AtWork ==
  \A s \in Servers :
    /\ pc[s] \in {"posted", "refused"} => row[s] \in batch[s]
    /\ pc[s] = "surface" => row[s] \in Rows

\* A consumed row is posted in the table and in one batch only.
Owned ==
  \A s \in Servers : \A r \in batch[s] :
    /\ status[r] = "posted"
    /\ \A t \in Servers : r \in batch[t] => t = s

\* The rows a server is going to nudge for are failed, and no other server nudges
\* for them.
NudgedOnce ==
  \A s \in Servers : \A r \in Rows : Surfaced(s, r) =>
    /\ status[r] = "failed"
    /\ tries[r] < MaxPostAttempts
    /\ \A t \in Servers : Surfaced(t, r) => t = s

\* A row that still goes round has an attempt left.
AttemptsLeft ==
  \A r \in Rows : status[r] # "failed" => tries[r] < MaxPostAttempts

\* Nobody was told of r, unless Slack took it in an attempt that threw.
Untold(r) == told[r] <= IF r \in unsure THEN tries[r] ELSE 0

\* The message of a row at hand may just have gone out.
JustTold(s, r) ==
  told[r] <= IF r \in unsure THEN tries[r] + 1 ELSE IF pc[s] = "posted" THEN 1 ELSE 0

Silence ==
  /\ \A r \in Rows : status[r] \in {"none", "pending"} => Untold(r)
  /\ \A s \in Servers : \A r \in batch[s] :
       IF AtHand(s, r) THEN JustTold(s, r) ELSE Untold(r)
  /\ \A s \in Servers : \A r \in Rows : Surfaced(s, r) => Untold(r)

IInv == /\ TypeOK
        /\ AtWork
        /\ Owned
        /\ NudgedOnce
        /\ AttemptsLeft
        /\ Silence
        /\ ToldAtMostOnce

LEMMA IInit == Init => IInv
  BY AssumptionsHold DEF Init, IInv, TypeOK, AtWork, Owned, NudgedOnce, Surfaced,
     AttemptsLeft, Untold, JustTold, AtHand, Silence, ToldAtMostOnce, Kinds, Labels

-------------------------------------------------------------------------------
(* The steps.                                                              *)

LEMMA OldestPending == ASSUME NEW n \in Nat PROVE Oldest(n) \subseteq Pending
  BY DEF Oldest

LEMMA Restamped ==
  ASSUME NEW q \in Rows, created \in [Rows -> Nat], now \in Nat
  PROVE  now + 1 \in Nat /\ [created EXCEPT ![q] = now + 1] \in [Rows -> Nat]
  OBVIOUS

LEMMA LosePassStep ==
  ASSUME IInv, NEW s \in Servers, LosePass(s), UNCHANGED people
  PROVE  IInv'
  BY AssumptionsHold DEF LosePass, Goto, table, trail, people, IInv, TypeOK, AtWork,
     Owned, NudgedOnce, Surfaced, AttemptsLeft, Untold, JustTold, AtHand, Silence,
     ToldAtMostOnce, Labels

LEMMA IStep == IInv /\ [Next]_vars => IInv'
  <1> SUFFICES ASSUME IInv, [Next]_vars PROVE IInv'
    OBVIOUS
  <1> USE AssumptionsHold
  <1> USE DEF IInv, TypeOK, AtWork, Owned, NudgedOnce, Surfaced, AttemptsLeft, Untold,
              JustTold, AtHand, Silence, ToldAtMostOnce, Kinds, Labels,
              table, trail, people, passOf
  <1>1. ASSUME NEW r \in Rows, PostOutboxRow(r) PROVE IInv'
    BY <1>1 DEF PostOutboxRow
  <1>2. ASSUME NEW s \in Servers, ConsumeBatch(s) PROVE IInv'
    BY <1>2, OldestPending DEF ConsumeBatch, Pending, Goto
  <1>3. ASSUME NEW s \in Servers, NEW r \in Rows, FailClosed(s, r) PROVE IInv'
    BY <1>3 DEF FailClosed, At, Take, Goto
  <1>4. ASSUME NEW s \in Servers, NEW r \in Rows, Superseded(s, r) PROVE IInv'
    BY <1>4 DEF Superseded, At, Drop, Goto
  <1>5. ASSUME NEW s \in Servers, NEW r \in Rows, PostMessage(s, r) PROVE IInv'
    <2>1. TypeOK'
      BY <1>5 DEF PostMessage, At, Take, Tell, Goto
    <2>2. AtWork'
      BY <1>5 DEF PostMessage, At, Take, Tell, Goto
    <2>3. Owned'
      BY <1>5 DEF PostMessage, At, Take, Tell, Goto
    <2>4. NudgedOnce'
      BY <1>5 DEF PostMessage, At, Take, Tell, Goto
    <2>5. AttemptsLeft'
      BY <1>5 DEF PostMessage, At, Take, Tell, Goto
    <2>6. Silence'
      BY <1>5 DEF PostMessage, At, Take, Tell, Goto
    <2>7. ToldAtMostOnce'
      BY <1>5 DEF PostMessage, At, Take, Tell, Goto
    <2>8. QED
      BY <2>1, <2>2, <2>3, <2>4, <2>5, <2>6, <2>7
  <1>6. ASSUME NEW s \in Servers, NEW r \in Rows, PostMessageThrows(s, r) PROVE IInv'
    <2>1. TypeOK'
      BY <1>6 DEF PostMessageThrows, At, Take, Tell, Goto
    <2>2. AtWork'
      BY <1>6 DEF PostMessageThrows, At, Take, Tell, Goto
    <2>3. Owned'
      BY <1>6 DEF PostMessageThrows, At, Take, Tell, Goto
    <2>4. NudgedOnce'
      BY <1>6 DEF PostMessageThrows, At, Take, Tell, Goto
    <2>5. AttemptsLeft'
      BY <1>6 DEF PostMessageThrows, At, Take, Tell, Goto
    <2>6. Silence'
      BY <1>6 DEF PostMessageThrows, At, Take, Tell, Goto
    <2>7. ToldAtMostOnce'
      BY <1>6 DEF PostMessageThrows, At, Take, Tell, Goto
    <2>8. QED
      BY <2>1, <2>2, <2>3, <2>4, <2>5, <2>6, <2>7
  <1>7. ASSUME NEW s \in Servers, NEW r \in Rows, DispatchEvents(s, r) PROVE IInv'
    <2>1. TypeOK'
      BY <1>7 DEF DispatchEvents, At, Take, Tell, Goto
    <2>2. AtWork'
      BY <1>7 DEF DispatchEvents, At, Take, Tell, Goto
    <2>3. Owned'
      BY <1>7 DEF DispatchEvents, At, Take, Tell, Goto
    <2>4. NudgedOnce'
      BY <1>7 DEF DispatchEvents, At, Take, Tell, Goto
    <2>5. AttemptsLeft'
      BY <1>7 DEF DispatchEvents, At, Take, Tell, Goto
    <2>6. Silence'
      <3>1. /\ UNCHANGED <<status, tries, unsure, batch, nudging>>
            /\ pc' = [pc EXCEPT ![s] = "posted"] /\ row' = [row EXCEPT ![s] = r]
            /\ pc[s] = "rows" /\ r \in batch[s]
        BY <1>7 DEF DispatchEvents, At, Take, Goto
      <3>2. \A q \in Rows : q # r => told'[q] = told[q]
        BY <1>7 DEF DispatchEvents, Tell
      <3>3. told'[r] = told[r] \/ told'[r] = told[r] + 1
        BY <1>7 DEF DispatchEvents, Tell
      <3>4. \A t \in Servers : r \in batch[t] => t = s
        BY <3>1
      <3>5. \A t \in Servers, q \in Rows : q # r /\ Untold(q) => Untold(q)'
        BY <3>1, <3>2
      <3>6. \A q \in Rows : status'[q] \in {"none", "pending"} => Untold(q)'
        BY <3>1, <3>5
      <3>7. \A t \in Servers : \A q \in batch'[t] :
              IF AtHand(t, q)' THEN JustTold(t, q)' ELSE Untold(q)'
        BY <3>1, <3>2, <3>3, <3>4
      <3>8. \A t \in Servers, q \in Rows : Surfaced(t, q)' => Untold(q)'
        BY <3>1, <3>5
      <3>9. QED
        BY <3>6, <3>7, <3>8
    <2>7. ToldAtMostOnce'
      BY <1>7 DEF DispatchEvents, At, Take, Tell, Goto
    <2>8. QED
      BY <2>1, <2>2, <2>3, <2>4, <2>5, <2>6, <2>7
  <1>8. ASSUME NEW s \in Servers, AuditPosted(s) PROVE IInv'
    BY <1>8 DEF AuditPosted, Drop, Goto
  <1>9. ASSUME NEW s \in Servers, SettleFailure(s) PROVE IInv'
    <2>1. TypeOK'
      <3>1. row[s] \in Rows /\ tries[row[s]] + 1 \in 0..MaxPostAttempts
        BY <1>9 DEF SettleFailure
      <3>2. /\ status' \in [Rows -> {"none", "pending", "posted", "failed"}]
            /\ tries' \in [Rows -> 0..MaxPostAttempts]
        BY <1>9, <3>1 DEF SettleFailure, FailOutboxRow, RequeueOutboxRow
      <3>3. created' \in [Rows -> Nat] /\ now' \in Nat /\ kind' = kind
        <4>1. FailOutboxRow(row[s]) \/ RequeueOutboxRow(row[s])
          BY <1>9 DEF SettleFailure
        <4>2. now + 1 \in Nat /\ [created EXCEPT ![row[s]] = now + 1] \in [Rows -> Nat]
          BY <3>1, Restamped
        <4>3. CASE FailOutboxRow(row[s])
          BY <4>3 DEF FailOutboxRow
        <4>4. CASE RequeueOutboxRow(row[s])
          BY <4>2, <4>4 DEF RequeueOutboxRow
        <4>5. QED
          BY <4>1, <4>3, <4>4
      <3>4. /\ batch' \in [Servers -> SUBSET Rows]
            /\ row' \in [Servers -> Rows \cup {"none"}]
            /\ pc' \in [Servers -> Labels]
        BY <1>9 DEF SettleFailure, Drop, Goto
      <3>5. UNCHANGED <<trail, people, stale, nudging, faults>>
        BY <1>9 DEF SettleFailure
      <3>6. QED
        BY <3>2, <3>3, <3>4, <3>5
    <2>2. AtWork'
      BY <1>9 DEF SettleFailure, FailOutboxRow, RequeueOutboxRow, Drop, Goto
    <2>3. Owned'
      BY <1>9 DEF SettleFailure, FailOutboxRow, RequeueOutboxRow, Drop, Goto
    <2>4. NudgedOnce'
      BY <1>9 DEF SettleFailure, FailOutboxRow, RequeueOutboxRow, Drop, Goto
    <2>5. AttemptsLeft'
      BY <1>9 DEF SettleFailure, FailOutboxRow, RequeueOutboxRow, Drop, Goto
    <2>6. Silence'
      BY <1>9 DEF SettleFailure, FailOutboxRow, RequeueOutboxRow, Drop, Goto
    <2>7. ToldAtMostOnce'
      BY <1>9 DEF SettleFailure, FailOutboxRow, RequeueOutboxRow, Drop, Goto
    <2>8. QED
      BY <2>1, <2>2, <2>3, <2>4, <2>5, <2>6, <2>7
  <1>10. ASSUME NEW s \in Servers, SelectStale(s) PROVE IInv'
    BY <1>10, OldestPending DEF SelectStale, Pending, Goto
  <1>11. ASSUME NEW s \in Servers, NEW r \in Rows, MarkUnclaimed(s, r) PROVE IInv'
    <2>1. TypeOK'
      <3>1. /\ status' \in [Rows -> {"none", "pending", "posted", "failed"}]
            /\ pc' \in [Servers -> Labels]
            /\ row' \in [Servers -> Rows \cup {"none"}]
        <4>1. CASE status[r] = "pending"
          <5>1. /\ status' = [status EXCEPT ![r] = "failed"]
                /\ pc' = [pc EXCEPT ![s] = "surface"]
                /\ row' = [row EXCEPT ![s] = r]
            BY <1>11, <4>1 DEF MarkUnclaimed, Take, Goto
          <5>2. QED
            BY <5>1
        <4>2. CASE status[r] # "pending"
          BY <1>11, <4>2 DEF MarkUnclaimed
        <4>3. QED
          BY <4>1, <4>2
      <3>2. stale' \in [Servers -> SUBSET Rows]
        BY <1>11 DEF MarkUnclaimed
      <3>3. QED
        BY <1>11, <3>1, <3>2 DEF MarkUnclaimed
    <2>2. AtWork'
      BY <1>11 DEF MarkUnclaimed, Take, Goto
    <2>3. Owned'
      BY <1>11 DEF MarkUnclaimed, Take, Goto
    <2>4. NudgedOnce'
      BY <1>11 DEF MarkUnclaimed, Take, Goto
    <2>5. AttemptsLeft'
      BY <1>11 DEF MarkUnclaimed, Take, Goto
    <2>6. Silence'
      BY <1>11 DEF MarkUnclaimed, Take, Goto
    <2>7. ToldAtMostOnce'
      BY <1>11 DEF MarkUnclaimed, Take, Goto
    <2>8. QED
      BY <2>1, <2>2, <2>3, <2>4, <2>5, <2>6, <2>7
  <1>12. ASSUME NEW s \in Servers, AuditUnclaimed(s) PROVE IInv'
    BY <1>12 DEF AuditUnclaimed, Take, Goto
  <1>13. ASSUME NEW s \in Servers, NEW r \in Rows, PostNudge(s, r) PROVE IInv'
    <2>1. TypeOK'
      BY <1>13 DEF PostNudge, Tell
    <2>2. AtWork'
      BY <1>13 DEF PostNudge, Tell
    <2>3. Owned'
      BY <1>13 DEF PostNudge, Tell
    <2>4. NudgedOnce'
      BY <1>13 DEF PostNudge, Tell
    <2>5. AttemptsLeft'
      BY <1>13 DEF PostNudge, Tell
    <2>6. Silence'
      <3>1. /\ status[r] = "failed"
            /\ \A t \in Servers : r \notin batch[t] /\ ~Surfaced(t, r)'
        BY <1>13 DEF PostNudge
      <3>2. \A q \in Rows : q # r => told'[q] = told[q]
        BY <1>13 DEF PostNudge, Tell
      <3>3. \A t \in Servers : \A q \in Rows : Surfaced(t, q)' => Surfaced(t, q)
        BY <1>13 DEF PostNudge
      <3>4. UNCHANGED <<status, tries, unsure, pc, batch, row>>
        BY <1>13 DEF PostNudge
      <3>5. \A q \in Rows : q # r /\ Untold(q) => Untold(q)'
        BY <3>2, <3>4
      <3>6. \A t \in Servers : \A q \in batch[t] :
              IF AtHand(t, q) THEN JustTold(t, q)' ELSE Untold(q)'
        BY <3>1, <3>2, <3>4, <3>5
      <3>7. QED
        BY <3>1, <3>3, <3>4, <3>5, <3>6
    <2>7. ToldAtMostOnce'
      BY <1>13 DEF PostNudge, Tell
    <2>8. QED
      BY <2>1, <2>2, <2>3, <2>4, <2>5, <2>6, <2>7
  <1>14. ASSUME NEW s \in Servers, EndPass(s) PROVE IInv'
    BY <1>14 DEF EndPass, Goto
  <1>15. ASSUME NEW s \in Servers, PassFails(s) PROVE IInv'
    <2>1. CASE Crash(s) \/ StoreFault(s)
      BY <2>1, LosePassStep DEF Crash, StoreFault
    <2>2. CASE DispatchThrows(s)
      <3>1. TypeOK'
        <4>1. told' \in [Rows -> 0..MaxPostAttempts]
          <5>1. PICK r \in Rows : At(s, r) /\ (Tell(r) \/ told' = told)
            BY <2>2 DEF DispatchThrows
          <5>2. told[r] + 1 \in 0..MaxPostAttempts
            BY <5>1 DEF At
          <5>3. QED
            BY <5>1, <5>2 DEF Tell
        <4>2. QED
          BY <2>2, <4>1 DEF DispatchThrows, LosePass, Goto
      <3>2. AtWork'
        BY <2>2 DEF DispatchThrows, At, Tell, LosePass, Goto
      <3>3. Owned'
        BY <2>2 DEF DispatchThrows, At, Tell, LosePass, Goto
      <3>4. NudgedOnce'
        BY <2>2 DEF DispatchThrows, At, Tell, LosePass, Goto
      <3>5. AttemptsLeft'
        BY <2>2 DEF DispatchThrows, At, Tell, LosePass, Goto
      <3>6. Silence'
        <4>1. PICK r \in Rows : At(s, r) /\ (Tell(r) \/ told' = told)
          BY <2>2 DEF DispatchThrows
        <4>2. \A q \in Rows : q # r => told'[q] = told[q]
          BY <4>1 DEF Tell
        <4>3. /\ UNCHANGED <<status, tries, unsure>>
              /\ \A t \in Servers : t # s => /\ pc'[t] = pc[t] /\ batch'[t] = batch[t]
                                            /\ row'[t] = row[t] /\ nudging'[t] = nudging[t]
              /\ pc'[s] = "idle" /\ batch'[s] = {} /\ nudging'[s] = {}
          BY <2>2 DEF DispatchThrows, LosePass, Goto
        <4>4. /\ status[r] = "posted"
              /\ \A t \in Servers : t # s => r \notin batch[t]
              /\ \A t \in Servers : ~Surfaced(t, r)
          BY <4>1 DEF At
        <4>5. \A q \in Rows : q # r /\ Untold(q) => Untold(q)'
          BY <4>2, <4>3
        <4>6. \A t \in Servers : t # s =>
                \A q \in batch[t] : IF AtHand(t, q) THEN JustTold(t, q)' ELSE Untold(q)'
          BY <4>2, <4>3, <4>4, <4>5
        <4>7. QED
          BY <4>3, <4>4, <4>5, <4>6
      <3>7. ToldAtMostOnce'
        BY <2>2 DEF DispatchThrows, At, Tell, LosePass, Goto
      <3>8. QED
        BY <3>1, <3>2, <3>3, <3>4, <3>5, <3>6, <3>7
    <2>3. QED
      BY <1>15, <2>1, <2>2 DEF PassFails
  <1>16. CASE UNCHANGED vars
    BY <1>16 DEF vars
  <1>17. QED
    BY <1>1, <1>2, <1>3, <1>4, <1>5, <1>6, <1>7, <1>8, <1>9, <1>10, <1>11, <1>12,
       <1>13, <1>14, <1>15, <1>16 DEF Next, ServerStep, RowStep

-------------------------------------------------------------------------------
(* No row is forgotten.                                                    *)

\* A server that does not consume has nothing consumed left.
Emptied == \A s \in Servers : pc[s] \in {"idle", "nudge", "surface"} => batch[s] = {}

LEMMA EmptiedStep == IInv /\ Emptied /\ [Next]_vars => Emptied'
  <1> SUFFICES ASSUME IInv, Emptied, [Next]_vars PROVE Emptied'
    OBVIOUS
  <1> USE DEF IInv, TypeOK, Emptied, Goto, Take, Drop, passOf
  <1>1. ASSUME NEW r \in Rows, PostOutboxRow(r) PROVE Emptied'
    BY <1>1 DEF PostOutboxRow
  <1>2. ASSUME NEW s \in Servers, ServerStep(s) PROVE Emptied'
    BY <1>2 DEF ServerStep, RowStep, ConsumeBatch, At, FailClosed, Superseded, PostMessage,
       PostMessageThrows, DispatchEvents, AuditPosted, SettleFailure, SelectStale,
       MarkUnclaimed, AuditUnclaimed, PostNudge, EndPass
  <1>3. ASSUME NEW s \in Servers, PassFails(s) PROVE Emptied'
    BY <1>3 DEF PassFails, Crash, StoreFault, DispatchThrows, LosePass
  <1>4. CASE UNCHANGED vars
    BY <1>4 DEF vars
  <1>5. QED
    BY <1>1, <1>2, <1>3, <1>4 DEF Next

\* A row leaves the batch of a pass that goes on delivered, silent, or no
\* longer posted: the refused row at hand is in the batch and still posted
\* (AtWork, Owned), so it is put back or failed.
LEMMA ServerForgetsNothing ==
  ASSUME IInv, Emptied, NothingForgotten, NEW s \in Servers, ServerStep(s)
  PROVE  NothingForgotten'
  <1> USE AssumptionsHold
  <1> USE DEF NothingForgotten, IInv, TypeOK, Goto, Take, Drop, table, trail
  <1>1. ASSUME ConsumeBatch(s) PROVE NothingForgotten'
    <2>1. batch[s] = {} /\ batch'[s] = Oldest(BatchLimit)
      BY <1>1, OldestPending DEF ConsumeBatch, Emptied, Pending
    <2>2. \A t \in Servers : t # s => batch'[t] = batch[t]
      BY <1>1 DEF ConsumeBatch
    <2>3. \A r \in Rows : status'[r] = "posted" => status[r] = "posted" \/ r \in batch'[s]
      BY <1>1, <2>1 DEF ConsumeBatch
    <2>4. UNCHANGED <<delivered, kind, lost>>
      BY <1>1 DEF ConsumeBatch
    <2>5. QED
      BY <2>1, <2>2, <2>3, <2>4
  <1>2. ASSUME NEW r \in Rows,
               FailClosed(s, r) \/ PostMessage(s, r) \/ PostMessageThrows(s, r)
                 \/ DispatchEvents(s, r) \/ PostNudge(s, r)
        PROVE  NothingForgotten'
    BY <1>2 DEF FailClosed, PostMessage, PostMessageThrows, DispatchEvents, PostNudge
  <1>3. ASSUME NEW r \in Rows, Superseded(s, r) PROVE NothingForgotten'
    BY <1>3 DEF Superseded, At
  <1>4. ASSUME NEW r \in Rows, MarkUnclaimed(s, r) PROVE NothingForgotten'
    BY <1>4 DEF MarkUnclaimed
  <1>5. ASSUME AuditPosted(s) PROVE NothingForgotten'
    BY <1>5 DEF AuditPosted
  <1>6. ASSUME SettleFailure(s) PROVE NothingForgotten'
    <2>1. row[s] \in Rows /\ status[row[s]] = "posted"
      BY <1>6 DEF SettleFailure, AtWork, Owned
    <2>2. status'[row[s]] # "posted"
      BY <1>6, <2>1 DEF SettleFailure, FailOutboxRow, RequeueOutboxRow
    <2>3. \A r \in Rows : r # row[s] => status'[r] = status[r]
      BY <1>6, <2>1 DEF SettleFailure, FailOutboxRow, RequeueOutboxRow
    <2>4. UNCHANGED <<delivered, kind, lost>>
      BY <1>6 DEF SettleFailure, FailOutboxRow, RequeueOutboxRow
    <2>5. \A t \in Servers : \A r \in batch[t] : r # row[s] => r \in batch'[t]
      BY <1>6 DEF SettleFailure
    <2>6. QED
      BY <2>2, <2>3, <2>4, <2>5
  <1>7. ASSUME SelectStale(s) \/ AuditUnclaimed(s) \/ EndPass(s) PROVE NothingForgotten'
    BY <1>7 DEF SelectStale, AuditUnclaimed, EndPass, passOf
  <1>8. QED
    BY <1>1, <1>2, <1>3, <1>4, <1>5, <1>6, <1>7 DEF ServerStep, RowStep

\* What a pass cut short drops is recorded, and nothing else changes for a row.
LEMMA LossIsRecorded ==
  ASSUME IInv, NothingForgotten, NEW s \in Servers, PassFails(s)
  PROVE  NothingForgotten'
  <1>1. LosePass(s)
    BY DEF PassFails, Crash, StoreFault, DispatchThrows
  <1>2. UNCHANGED <<status, kind, delivered>> /\ lost' = lost \cup batch[s]
    BY <1>1 DEF LosePass, table
  <1>3. \A t \in Servers : t # s => batch'[t] = batch[t]
    BY <1>1 DEF LosePass, IInv, TypeOK
  <1>4. QED
    BY <1>2, <1>3 DEF NothingForgotten

LEMMA NothingForgottenStep ==
  IInv /\ Emptied /\ NothingForgotten /\ [Next]_vars => NothingForgotten'
  <1> SUFFICES ASSUME IInv, Emptied, NothingForgotten, [Next]_vars PROVE NothingForgotten'
    OBVIOUS
  <1> USE DEF NothingForgotten
  <1>1. ASSUME NEW r \in Rows, PostOutboxRow(r) PROVE NothingForgotten'
    BY <1>1 DEF PostOutboxRow, IInv, TypeOK, trail, passOf
  <1>2. ASSUME NEW s \in Servers, ServerStep(s) PROVE NothingForgotten'
    BY <1>2, ServerForgetsNothing
  <1>3. ASSUME NEW s \in Servers, PassFails(s) PROVE NothingForgotten'
    BY <1>3, LossIsRecorded
  <1>4. CASE UNCHANGED vars
    BY <1>4 DEF vars, table, trail, passOf
  <1>5. QED
    BY <1>1, <1>2, <1>3, <1>4 DEF Next

-------------------------------------------------------------------------------

LEMMA IInvHolds == Spec => []IInv
  BY IInit, IStep, PTL DEF Spec

\* Every variable keeps its type: a row is never tried more than
\* MaxPostAttempts times.
THEOREM TypeCorrect == Spec => []TypeOK
  BY IInvHolds, PTL DEF IInv

\* The at-most-once contract of the seam, across servers, retries, nudges and
\* deaths, with the one exception of an answer of Slack that was lost.
THEOREM ToldAtMostOnceHolds == Spec => []ToldAtMostOnce
  BY IInvHolds, PTL DEF IInv

\* Refused rows go back or fail, over any faults: every posted row is in a
\* batch, delivered, had nothing to post, or was in the batch of a pass that
\* was cut short before it was done with the row.
THEOREM NothingForgottenHolds == Spec => []NothingForgotten
  <1>1. Init => Emptied /\ NothingForgotten
    BY DEF Init, Emptied, NothingForgotten
  <1>2. QED
    BY <1>1, EmptiedStep, NothingForgottenStep, IInvHolds, PTL DEF Spec
-------------------------------------------------------------------------------
(* The seam implements Outbox: each step is one of the life of a row, or   *)
(* takes or loses a batch, or does not show.                               *)

Refused(s, r) == pc[s] = "refused" /\ row[s] = r

\* What places a row.
LEMMA LifeKept ==
  ASSUME NEW r \in Rows, status'[r] = status[r],
         \A s \in Servers : /\ r \in batch'[s] <=> r \in batch[s]
                            /\ AtHand(s, r)' <=> AtHand(s, r)
                            /\ Refused(s, r)' <=> Refused(s, r)
                            /\ Surfaced(s, r)' <=> Surfaced(s, r)
  PROVE  Life(r)' = Life(r)
  BY DEF Life, Refused

LEMMA OneRowMoves ==
  ASSUME NEW r \in Rows, NEW from, NEW to, Life(r) = from, Life(r)' = to,
         \A q \in Rows \ {r} : Life(q)' = Life(q)
  PROVE  Promise!Moves(r, from, to)
  BY DEF Promise!Moves

LEMMA NoRowMoves ==
  ASSUME \A q \in Rows : Life(q)' = Life(q), UNCHANGED <<tries, told, unsure>>
  PROVE  UNCHANGED Promise!vars
  BY DEF Promise!vars

LEMMA PromiseInit == Init => Promise!Init
  BY DEF Init, Promise!Init, Life

\* The steps of a row at hand.
LEMMA RowStepShows ==
  ASSUME IInv, NEW s \in Servers, NEW r \in Rows,
         \/ FailClosed(s, r) \/ Superseded(s, r) \/ PostMessage(s, r)
         \/ PostMessageThrows(s, r) \/ DispatchEvents(s, r)
  PROVE  Promise!Settle(r) \/ Promise!Refuse(r)
  <1> USE DEF IInv, TypeOK, AtWork, Owned, NudgedOnce, table, people, Goto, At, Take, Tell,
              Surfaced, AtHand
  <1>1. Life(r) = "taken" /\ status[r] = "posted"
    BY DEF FailClosed, Superseded, PostMessage, PostMessageThrows, DispatchEvents, Life
  <1>2. \A q \in Rows \ {r} : Life(q)' = Life(q)
    <2> SUFFICES ASSUME NEW q \in Rows \ {r} PROVE Life(q)' = Life(q)
      OBVIOUS
    <2>1. status' = status
      BY DEF FailClosed, Superseded, PostMessage, PostMessageThrows, DispatchEvents
    <2>2. \A t \in Servers : /\ q \in batch'[t] <=> q \in batch[t]
                             /\ AtHand(t, q)' <=> AtHand(t, q)
                             /\ Refused(t, q)' <=> Refused(t, q)
                             /\ Surfaced(t, q)' <=> Surfaced(t, q)
      BY AssumptionsHold DEF FailClosed, Superseded, PostMessage, PostMessageThrows,
         DispatchEvents, Drop, Refused
    <2> QED BY <2>1, <2>2, LifeKept
  <1>3. CASE FailClosed(s, r) \/ PostMessageThrows(s, r)
    <2>1. Life(r)' = "refused"
      BY <1>1, <1>3 DEF FailClosed, PostMessageThrows, Life
    <2>2. Promise!Moves(r, "taken", "refused")
      BY <1>1, <1>2, <2>1, OneRowMoves
    <2> QED BY <1>3, <2>2 DEF FailClosed, PostMessageThrows, Promise!Refuse, Promise!Tell
  <1>4. CASE Superseded(s, r) \/ PostMessage(s, r) \/ DispatchEvents(s, r)
    <2>1. Life(r)' = "over"
      <3>1. /\ status' = status /\ status[r] = "posted"
            /\ \A t \in Servers : r \in batch[t] => t = s
        BY <1>1, <1>4 DEF Superseded, PostMessage, DispatchEvents, At, table
      <3>2. \A t \in Servers : ~(r \in batch'[t] /\ ~AtHand(t, r)')
        BY <1>1, <1>4, <3>1 DEF Superseded, Drop, PostMessage, DispatchEvents, Take, Goto
      <3>3. \A t \in Servers : ~(pc'[t] = "refused" /\ row'[t] = r)
        BY <1>1, <1>4, <3>1 DEF Superseded, Drop, PostMessage, DispatchEvents, At, Take, Goto
      <3>4. \A t \in Servers : ~Surfaced(t, r)'
        BY <1>1, <1>4, <3>1 DEF Superseded, Drop, PostMessage, DispatchEvents, Take, Goto
      <3> QED BY <3>1, <3>2, <3>3, <3>4 DEF Life
    <2>2. Promise!Moves(r, "taken", "over")
      BY <1>1, <1>2, <2>1, OneRowMoves
    <2> QED BY <1>4, <2>2 DEF Superseded, PostMessage, DispatchEvents, Promise!Settle,
                              Promise!Tell
  <1> QED BY <1>3, <1>4

\* Taking a batch.
LEMMA ConsumeShows ==
  ASSUME IInv, NEW s \in Servers, ConsumeBatch(s), batch[s] = {}
  PROVE  Promise!Take(Oldest(BatchLimit))
  <1> USE DEF IInv, TypeOK, AtWork, Owned, NudgedOnce, Goto, Surfaced, AtHand
  <1>1. Oldest(BatchLimit) \subseteq Pending
    BY OldestPending, AssumptionsHold
  <1>2. /\ batch' = [batch EXCEPT ![s] = Oldest(BatchLimit)]
        /\ pc' = [pc EXCEPT ![s] = "rows"] /\ pc[s] = "idle"
        /\ UNCHANGED <<row, nudging, tries, told, unsure>>
        /\ status' = [r \in Rows |-> IF r \in Oldest(BatchLimit) THEN "posted" ELSE status[r]]
    BY DEF ConsumeBatch, people
  <1>3. ASSUME NEW r \in Oldest(BatchLimit)
        PROVE  Life(r) = "pending" /\ Life(r)' = "taken"
    BY <1>1, <1>2 DEF Life, Pending
  <1>4. ASSUME NEW r \in Rows \ Oldest(BatchLimit)
        PROVE  Life(r)' = Life(r)
    <2>1. \A t \in Servers : /\ r \in batch'[t] <=> r \in batch[t]
                             /\ AtHand(t, r)' <=> AtHand(t, r)
                             /\ Refused(t, r)' <=> Refused(t, r)
                             /\ Surfaced(t, r)' <=> Surfaced(t, r)
      BY <1>2 DEF Refused
    <2>2. status'[r] = status[r]
      BY <1>2
    <2> QED BY <2>1, <2>2, LifeKept
  <1> QED BY <1>1, <1>2, <1>3, <1>4 DEF Promise!Take, Pending

\* After a refusal.
LEMMA SettleFailureShows ==
  ASSUME IInv, NEW s \in Servers, SettleFailure(s)
  PROVE  Promise!PutBack(row[s]) \/ Promise!Fail(row[s])
  <1> USE DEF IInv, TypeOK, AtWork, Owned, NudgedOnce, Goto, Surfaced, AtHand
  <1>0. PICK r \in Rows : r = row[s]
    BY DEF SettleFailure
  <1>1. pc[s] = "refused" /\ status[r] = "posted" /\ r \in batch[s]
    BY <1>0 DEF SettleFailure
  <1>2. /\ \A t \in Servers : t # s => r \notin batch[t]
        /\ \A t \in Servers : ~Surfaced(t, r)
    BY <1>1
  <1>3. /\ batch' = [batch EXCEPT ![s] = @ \ {r}]
        /\ pc' = [pc EXCEPT ![s] = "rows"]
        /\ row' = [row EXCEPT ![s] = "none"]
        /\ UNCHANGED <<nudging, told, unsure>>
    BY <1>0 DEF SettleFailure, Drop, people
  <1>4. Life(r) = "refused"
    BY <1>0, <1>1, <1>2 DEF Life
  <1>5. ASSUME NEW q \in Rows \ {r}, status'[q] = status[q]
        PROVE  Life(q)' = Life(q)
    <2>1. \A t \in Servers : /\ q \in batch'[t] <=> q \in batch[t]
                             /\ AtHand(t, q)' <=> AtHand(t, q)
                             /\ Refused(t, q)' <=> Refused(t, q)
                             /\ Surfaced(t, q)' <=> Surfaced(t, q)
      BY <1>0, <1>1, <1>3, AssumptionsHold DEF Refused
    <2> QED BY <1>5, <2>1, LifeKept
  <1>6. CASE RequeueOutboxRow(r) /\ tries[r] + 1 < MaxPostAttempts
    <2>1. /\ status' = [status EXCEPT ![r] = "pending"]
          /\ tries' = [tries EXCEPT ![r] = @ + 1]
      BY <1>1, <1>6 DEF RequeueOutboxRow
    <2>2. Life(r)' = "pending"
      BY <1>1, <2>1 DEF Life
    <2>3. Promise!Moves(r, "refused", "pending")
      BY <1>1, <1>4, <1>5, <2>1, <2>2, OneRowMoves
    <2> QED BY <1>0, <1>3, <1>6, <2>1, <2>3 DEF Promise!PutBack
  <1>7. CASE FailOutboxRow(r)
    <2>1. /\ status' = [status EXCEPT ![r] = "failed"]
          /\ tries' = [tries EXCEPT ![r] = @ + 1]
      BY <1>1, <1>7 DEF FailOutboxRow
    <2>2. Life(r)' = "over"
      BY <1>1, <1>2, <1>3, <2>1 DEF Life
    <2>3. Promise!Moves(r, "refused", "over")
      BY <1>1, <1>4, <1>5, <2>1, <2>2, OneRowMoves
    <2> QED BY <1>0, <1>3, <2>1, <2>3 DEF Promise!Fail
  <1>8. FailOutboxRow(r) \/ (RequeueOutboxRow(r) /\ ~(tries[r] + 1 >= MaxPostAttempts))
    BY <1>0 DEF SettleFailure
  <1>9. tries[r] \in Nat /\ MaxPostAttempts \in Nat
    BY AssumptionsHold
  <1> QED BY <1>6, <1>7, <1>8, <1>9

\* The nudge leg.
LEMMA MarkUnclaimedShows ==
  ASSUME IInv, NEW s \in Servers, NEW r \in Rows, MarkUnclaimed(s, r)
  PROVE  Promise!Lapse(r) \/ UNCHANGED Promise!vars
  <1> USE DEF IInv, TypeOK, AtWork, Owned, NudgedOnce, Goto, Surfaced, AtHand, people
  <1>1. CASE status[r] = "pending"
    <2>1. /\ status' = [status EXCEPT ![r] = "failed"]
          /\ pc' = [pc EXCEPT ![s] = "surface"] /\ pc[s] = "nudge"
          /\ row' = [row EXCEPT ![s] = r]
          /\ UNCHANGED <<batch, nudging, tries, told, unsure>>
      BY <1>1 DEF MarkUnclaimed, Take
    <2>2. Life(r) = "pending"
      BY <1>1 DEF Life
    <2>3. \A t \in Servers : r \notin batch'[t] /\ ~Refused(t, r)'
      BY <1>1, <2>1 DEF Refused
    <2>4. Life(r)' = "surfaced"
      BY <2>1, <2>3 DEF Life, Refused
    <2>5. ASSUME NEW q \in Rows \ {r} PROVE Life(q)' = Life(q)
      <3>1. \A t \in Servers : /\ q \in batch'[t] <=> q \in batch[t]
                               /\ AtHand(t, q)' <=> AtHand(t, q)
                               /\ Refused(t, q)' <=> Refused(t, q)
                               /\ Surfaced(t, q)' <=> Surfaced(t, q)
        BY <2>1 DEF Refused
      <3> QED BY <2>1, <3>1, LifeKept
    <2>6. Promise!Moves(r, "pending", "surfaced")
      BY <2>2, <2>4, <2>5, OneRowMoves
    <2> QED BY <2>1, <2>6 DEF Promise!Lapse
  <1>2. CASE status[r] # "pending"
    <2>1. UNCHANGED <<status, pc, row, batch, nudging, tries, told, unsure>>
      BY <1>2 DEF MarkUnclaimed
    <2>2. \A q \in Rows : Life(q)' = Life(q)
      BY <2>1 DEF Life
    <2> QED BY <2>1, <2>2, NoRowMoves
  <1> QED BY <1>1, <1>2

LEMMA PostNudgeShows ==
  ASSUME IInv, NEW s \in Servers, NEW r \in Rows, PostNudge(s, r)
  PROVE  Promise!Nudge(r)
  <1> USE DEF IInv, TypeOK, AtWork, Owned, NudgedOnce, Goto, Surfaced, AtHand
  <1>1. /\ nudging' = [nudging EXCEPT ![s] = @ \ {r}] /\ r \in nudging[s] /\ pc[s] = "nudge"
        /\ UNCHANGED <<status, pc, row, batch, tries, unsure>>
    BY DEF PostNudge, table
  <1>2. /\ status[r] = "failed" /\ \A t \in Servers : r \notin batch[t]
        /\ \A t \in Servers : ~Refused(t, r)
        /\ \A t \in Servers : ~Surfaced(t, r)'
    BY <1>1 DEF Refused
  <1>3. Life(r) = "surfaced"
    BY <1>1, <1>2 DEF Life, Refused
  <1>4. Life(r)' = "over"
    BY <1>1, <1>2 DEF Life, Refused
  <1>5. ASSUME NEW q \in Rows \ {r} PROVE Life(q)' = Life(q)
    BY <1>1 DEF Life
  <1>6. Promise!Moves(r, "surfaced", "over")
    BY <1>3, <1>4, <1>5, OneRowMoves
  <1> QED BY <1>1, <1>6 DEF PostNudge, Tell, Promise!Nudge, Promise!Tell

\* What does not show.
LEMMA QuietSteps ==
  ASSUME IInv, NEW s \in Servers,
         AuditPosted(s) \/ SelectStale(s) \/ AuditUnclaimed(s) \/ EndPass(s)
  PROVE  UNCHANGED Promise!vars
  <1> USE DEF IInv, TypeOK, AtWork, Owned, NudgedOnce, Goto, Take, Drop, AtHand, Surfaced,
              table, people, passOf
  <1>1. UNCHANGED <<status, tries, told, unsure>>
    BY DEF AuditPosted, SelectStale, AuditUnclaimed, EndPass
  <1>2. CASE AuditPosted(s)
    <2>1. PICK r \in Rows : r = row[s]
      BY <1>2 DEF AuditPosted
    <2>2. /\ batch' = [batch EXCEPT ![s] = @ \ {r}] /\ pc' = [pc EXCEPT ![s] = "rows"]
          /\ row' = [row EXCEPT ![s] = "none"] /\ nudging' = nudging
          /\ pc[s] = "posted" /\ r \in batch[s] /\ status[r] = "posted"
      BY <1>2, <2>1 DEF AuditPosted
    <2>3. \A t \in Servers : /\ t # s => r \notin batch[t]
                             /\ ~Refused(t, r) /\ ~Refused(t, r)'
                             /\ ~Surfaced(t, r) /\ ~Surfaced(t, r)'
      BY <1>1, <2>1, <2>2 DEF Refused
    <2>4. Life(r) = "over" /\ Life(r)' = "over"
      BY <1>1, <2>1, <2>2, <2>3 DEF Life, Refused
    <2>5. ASSUME NEW q \in Rows \ {r} PROVE Life(q)' = Life(q)
      <3>1. \A t \in Servers : /\ q \in batch'[t] <=> q \in batch[t]
                               /\ AtHand(t, q)' <=> AtHand(t, q)
                               /\ Refused(t, q)' <=> Refused(t, q)
                               /\ Surfaced(t, q)' <=> Surfaced(t, q)
        BY <2>1, <2>2, AssumptionsHold DEF Refused
      <3> QED BY <1>1, <3>1, LifeKept
    <2> QED BY <1>1, <2>4, <2>5, NoRowMoves
  <1>3. CASE SelectStale(s) \/ EndPass(s)
    <2>1. /\ UNCHANGED <<batch, row, nudging>>
          /\ pc[s] \in {"rows", "nudge"} /\ pc'[s] \in {"nudge", "idle"}
          /\ \A t \in Servers : t # s => pc'[t] = pc[t]
      BY <1>3 DEF SelectStale, EndPass
    <2>2. ASSUME NEW q \in Rows PROVE Life(q)' = Life(q)
      BY <1>1, <2>1 DEF Life
    <2> QED BY <1>1, <2>2, NoRowMoves
  <1>4. CASE AuditUnclaimed(s)
    <2>1. /\ pc' = [pc EXCEPT ![s] = "nudge"] /\ row' = [row EXCEPT ![s] = "none"]
          /\ nudging' = [nudging EXCEPT ![s] = @ \cup {row[s]}]
          /\ batch' = batch /\ pc[s] = "surface" /\ row[s] \in Rows
      BY <1>4 DEF AuditUnclaimed
    <2>2. ASSUME NEW q \in Rows PROVE Life(q)' = Life(q)
      <3>1. \A t \in Servers : /\ AtHand(t, q)' <=> AtHand(t, q)
                               /\ Refused(t, q)' <=> Refused(t, q)
                               /\ Surfaced(t, q)' <=> Surfaced(t, q)
        BY <2>1, AssumptionsHold DEF Refused
      <3> QED BY <1>1, <2>1, <3>1, LifeKept
    <2> QED BY <1>1, <2>2, NoRowMoves
  <1> QED BY <1>2, <1>3, <1>4

\* A pass cut short loses the rows of its batch that are not told yet, and those it
\* was to nudge for.
LEMMA LossShows ==
  ASSUME IInv, NEW s \in Servers, PassFails(s)
  PROVE  \E held \in SUBSET Rows : Promise!Lose(held)
  <1> DEFINE posted == {r \in Rows : pc[s] = "posted" /\ row[s] = r}
             held == {r \in Rows : r \in batch[s] \/ Surfaced(s, r)} \ posted
  <1> USE DEF IInv, TypeOK, AtWork, Owned, NudgedOnce, Goto, AtHand, Surfaced, people
  <1>1. /\ pc' = [pc EXCEPT ![s] = "idle"] /\ batch' = [batch EXCEPT ![s] = {}]
        /\ row' = [row EXCEPT ![s] = "none"] /\ nudging' = [nudging EXCEPT ![s] = {}]
        /\ UNCHANGED <<status, tries, unsure>>
    BY DEF PassFails, Crash, StoreFault, DispatchThrows, LosePass, table
  <1>2. ASSUME NEW r \in held
        PROVE  Life(r) \in {"taken", "refused", "surfaced"} /\ Life(r)' = "over"
    <2>1. CASE r \in batch[s] /\ r \notin posted
      <3>1. status[r] = "posted" /\ \A t \in Servers : t # s => r \notin batch[t]
        BY <2>1
      <3>2. \A t \in Servers : r \notin batch'[t] /\ ~Refused(t, r)' /\ ~Surfaced(t, r)'
        BY <1>1, <3>1 DEF Refused
      <3> QED BY <1>1, <2>1, <3>1, <3>2 DEF Life, Refused
    <2>2. CASE Surfaced(s, r)
      <3>1. /\ status[r] = "failed" /\ \A t \in Servers : r \notin batch[t]
            /\ \A t \in Servers : t # s => ~Surfaced(t, r)
        BY <2>2
      <3>2. \A t \in Servers : ~Refused(t, r) /\ ~Refused(t, r)' /\ ~Surfaced(t, r)'
        BY <1>1, <3>1 DEF Refused
      <3>3. \A t \in Servers : r \notin batch'[t]
        BY <1>1, <3>1
      <3> QED BY <1>1, <2>2, <3>1, <3>2, <3>3 DEF Life, Refused
    <2> QED BY <2>1, <2>2
  <1>3. ASSUME NEW r \in Rows \ held PROVE Life(r)' = Life(r)
    <2>1. CASE r \in posted
      <3>1. status[r] = "posted" /\ r \in batch[s] /\ \A t \in Servers : t # s => r \notin batch[t]
        BY <2>1
      <3>2. \A t \in Servers : /\ ~Refused(t, r) /\ ~Surfaced(t, r)
                               /\ ~Refused(t, r)' /\ ~Surfaced(t, r)'
        BY <1>1, <2>1, <3>1 DEF Refused
      <3> QED BY <1>1, <2>1, <3>1, <3>2 DEF Life, Refused
    <2>2. CASE r \notin batch[s] /\ ~Surfaced(s, r)
      <3>1. \A t \in Servers : /\ r \in batch'[t] <=> r \in batch[t]
                               /\ Refused(t, r)' <=> Refused(t, r)
                               /\ Surfaced(t, r)' <=> Surfaced(t, r)
                               /\ AtHand(t, r)' <=> AtHand(t, r)
        BY <1>1, <2>2, AssumptionsHold DEF Refused
      <3> QED BY <1>1, <3>1, LifeKept
    <2> QED BY <2>1, <2>2
  <1>4. told' = told \/ \E r \in held : Life(r) = "taken" /\ Promise!Tell(r)
    <2>1. CASE Crash(s) \/ StoreFault(s)
      BY <2>1 DEF Crash, StoreFault
    <2>2. CASE DispatchThrows(s)
      <3>1. PICK r \in Rows : At(s, r) /\ (Tell(r) \/ told' = told)
        BY <2>2 DEF DispatchThrows
      <3>2. r \in held /\ Life(r) = "taken"
        BY <3>1 DEF At, Life
      <3> QED BY <3>1, <3>2 DEF Tell, Promise!Tell
    <2> QED BY <2>1, <2>2 DEF PassFails
  <1> HIDE DEF held, IInv
  <1>5. held \in SUBSET Rows
    BY DEF held
  <1>6. Promise!Lose(held)
    BY <1>1, <1>2, <1>3, <1>4, <1>5 DEF Promise!Lose
  <1> QED BY <1>5, <1>6

LEMMA PromiseStep == IInv /\ Emptied /\ [Next]_vars => [Promise!Next]_(Promise!vars)
  <1> SUFFICES ASSUME IInv, Emptied, [Next]_vars
               PROVE  Promise!Next \/ UNCHANGED Promise!vars
    OBVIOUS
  <1>1. ASSUME NEW r \in Rows, PostOutboxRow(r) PROVE Promise!Next
    <2>1. /\ status[r] = "none" /\ status' = [status EXCEPT ![r] = "pending"]
          /\ UNCHANGED <<pc, batch, row, nudging, tries, told, unsure>>
      BY <1>1 DEF PostOutboxRow, passOf, people
    <2>2. Life(r) = "none" /\ Life(r)' = "pending"
      BY <2>1 DEF Life, IInv, TypeOK
    <2>3. ASSUME NEW q \in Rows \ {r} PROVE Life(q)' = Life(q)
      <3>1. status'[q] = status[q]
        BY <2>1 DEF IInv, TypeOK
      <3> QED BY <2>1, <3>1, LifeKept DEF AtHand, Refused, Surfaced
    <2>4. Promise!Write(r)
      BY <2>1, <2>2, <2>3, OneRowMoves DEF Promise!Write
    <2> QED BY <2>4 DEF Promise!Next, Promise!RowNext
  <1>2. ASSUME NEW s \in Servers, ConsumeBatch(s) PROVE Promise!Next
    <2>1. batch[s] = {} /\ Oldest(BatchLimit) \in SUBSET Rows
      BY <1>2 DEF ConsumeBatch, Emptied, Oldest, Pending
    <2> QED BY <1>2, <2>1, ConsumeShows DEF Promise!Next
  <1>3. ASSUME NEW s \in Servers, NEW r \in Rows, RowStep(s, r)
        PROVE  Promise!Next \/ UNCHANGED Promise!vars
    BY <1>3, RowStepShows, MarkUnclaimedShows, PostNudgeShows
       DEF RowStep, Promise!Next, Promise!RowNext
  <1>4. ASSUME NEW s \in Servers, SettleFailure(s) PROVE Promise!Next
    <2>1. row[s] \in Rows
      BY <1>4 DEF SettleFailure, IInv, AtWork, TypeOK
    <2> QED BY <1>4, <2>1, SettleFailureShows DEF Promise!Next, Promise!RowNext
  <1>5. ASSUME NEW s \in Servers, PassFails(s) PROVE Promise!Next
    BY <1>5, LossShows DEF Promise!Next
  <1>6. CASE UNCHANGED vars
    <2>1. UNCHANGED <<status, pc, batch, row, nudging, tries, told, unsure>>
      BY <1>6 DEF vars, table, people, passOf
    <2>2. \A q \in Rows : Life(q)' = Life(q)
      BY <2>1, LifeKept DEF AtHand, Refused, Surfaced
    <2> QED BY <2>1, <2>2, NoRowMoves
  <1> QED BY <1>1, <1>2, <1>3, <1>4, <1>5, <1>6, QuietSteps DEF Next, ServerStep

\* Any number of servers treat each row as one would, whatever is refused, put
\* back, lost or cut short: the seam implements the life of a row of Outbox.
THEOREM ImplementsOutbox == Spec => OutboxSpec
  <1>1. Init => Emptied
    BY DEF Init, Emptied
  <1> QED BY <1>1, PromiseInit, PromiseStep, EmptiedStep, IInvHolds, PTL
             DEF Spec, OutboxSpec, Promise!Spec

\* In the life of Outbox no action starts where a row is over, so neither does any
\* step of the seam that touches it.
THEOREM OverIsFinalHolds == Spec => OverIsFinal
  <1>1. IInv /\ Emptied /\ [Next]_vars =>
          [\A r \in Rows : Life(r) = "over" =>
             Life(r)' = "over" /\ told'[r] = told[r] /\ tries'[r] = tries[r]]_vars
    <2> SUFFICES ASSUME Promise!Next \/ UNCHANGED Promise!vars, NEW r \in Rows,
                        Life(r) = "over", told \in [Rows -> Nat], tries \in [Rows -> Nat]
                 PROVE  Life(r)' = "over" /\ told'[r] = told[r] /\ tries'[r] = tries[r]
      BY PromiseStep DEF IInv, TypeOK
    <2> DEFINE life == [q \in Rows |-> Life(q)]
    <2>1. life[r] = "over" /\ life'[r] = Life(r)'
      OBVIOUS
    <2> HIDE DEF life
    <2>2. CASE UNCHANGED Promise!vars
      BY <2>1, <2>2 DEF Promise!vars, life
    <2>3. ASSUME NEW q \in Rows, Promise!RowNext(q)
          PROVE  life'[r] = "over" /\ told'[r] = told[r] /\ tries'[r] = tries[r]
      <3>1. life[q] # "over" /\ \E to : life' = [life EXCEPT ![q] = to]
        BY <2>3 DEF Promise!RowNext, Promise!Moves, Promise!Write, Promise!Settle,
           Promise!Refuse, Promise!PutBack, Promise!Fail, Promise!Lapse, Promise!Nudge, life
      <3>2. q # r /\ life'[r] = life[r]
        BY <2>1, <3>1
      <3> QED
        BY <2>1, <2>3, <3>2
           DEF Promise!RowNext, Promise!Write, Promise!Settle, Promise!Refuse, Promise!PutBack,
               Promise!Fail, Promise!Lapse, Promise!Nudge, Promise!Tell
    <2>4. ASSUME NEW some \in SUBSET Rows, Promise!Take(some) \/ Promise!Lose(some)
          PROVE  life'[r] = "over" /\ told'[r] = told[r] /\ tries'[r] = tries[r]
      BY <2>1, <2>4 DEF Promise!Take, Promise!Lose, Promise!Tell, life
    <2> QED BY <2>1, <2>2, <2>3, <2>4 DEF Promise!Next
  <1>2. Init => Emptied
    BY DEF Init, Emptied
  <1> QED BY <1>1, <1>2, EmptiedStep, IInvHolds, PTL DEF Spec, OverIsFinal
===============================================================================
