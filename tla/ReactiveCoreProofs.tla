-------------------------- MODULE ReactiveCoreProofs --------------------------
(***************************************************************************)
(* Proofs about ReactiveCore. Type correctness holds for every value of    *)
(* the constants. The frontier and the refinement are theorems about the   *)
(* setting every boot uses: one reaction in flight, one event type (two in *)
(* flight break them: a later row's consume passes one that waits).        *)
(***************************************************************************)
EXTENDS ReactiveCore, FiniteSetTheorems, TLAPS

Ordered == MaxInFlight = 1 /\ \E event : Events = {event}

Assumptions == /\ OtherEvent \notin Events
               /\ MaxRows \in Nat
               /\ MaxInFlight \in Nat \ {0}
               /\ MaxAttempts \in Nat \ {0}
               /\ MaxFaults \in Nat

LEMMA AssumptionsHold == Assumptions
  BY OtherAssumption, RowsAssumption, InFlightAssumption, AttemptsAssumption,
     FaultsAssumption DEF Assumptions

-------------------------------------------------------------------------------
(* Type correctness.                                                       *)

\* A row with no attempt left is on its way to the dead letters.
AttemptsLeft ==
  \A n \in Rows : attempts[n] = MaxAttempts => stage[n] \in {"givingUp", "buried"}

TypeInv == TypeOK /\ AttemptsLeft

LEMMA TypeInit == Init => TypeInv
  BY AssumptionsHold DEF Init, TypeInv, TypeOK, AttemptsLeft, Size, Rows, Stages,
     Assumptions

LEMMA LoseMemoryTypes ==
  ASSUME TypeInv, LoseMemory, UNCHANGED durable, faults' \in 0..MaxFaults
  PROVE  TypeInv'
  BY AssumptionsHold DEF TypeInv, TypeOK, AttemptsLeft, LoseMemory, durable, Size,
     Rows, Stages, Assumptions

LEMMA FailedTypes ==
  ASSUME TypeInv, NEW n \in Rows, Failed(n), stage[n] \in {"ready", "acted"}
  PROVE  /\ stage' \in [Rows -> Stages]
         /\ attempts' \in [Rows -> 0..MaxAttempts]
         /\ gated' \subseteq Rows
         /\ AttemptsLeft'
  BY AssumptionsHold DEF TypeInv, TypeOK, AttemptsLeft, Failed, Stages, Assumptions

LEMMA SettleTypes ==
  ASSUME TypeInv, NEW n \in Rows, Settle(n)
  PROVE  TypeInv'
  BY AssumptionsHold DEF TypeInv, TypeOK, AttemptsLeft, Settle, Consume, Size,
     Rows, Stages, Assumptions

LEMMA TypeStep == TypeInv /\ [Next]_vars => TypeInv'
  <1> SUFFICES ASSUME TypeInv, [Next]_vars PROVE TypeInv'
    OBVIOUS
  <1> USE AssumptionsHold DEF Assumptions
  <1>1. CASE Boot
    BY <1>1 DEF Boot, TypeInv, TypeOK, AttemptsLeft, Size, durable, pass, gates
  <1>2. CASE BeginPass
    BY <1>2 DEF BeginPass, TypeInv, TypeOK, AttemptsLeft, Size, durable, gates
  <1>3. ASSUME NEW event \in Events, Query(event) PROVE TypeInv'
    BY <1>3 DEF Query, TypeInv, TypeOK, AttemptsLeft, Size, durable, gates
  <1>4. CASE NextBatch
    <2>1. AttemptsLeft'
      BY <1>4 DEF NextBatch, TypeInv, TypeOK, AttemptsLeft, gates, InHand
    <2>2. QED
      BY <1>4, <2>1 DEF NextBatch, TypeInv, TypeOK, Size, durable, gates, Stages
  <1>5. CASE EndBatch
    <2>1. AttemptsLeft'
      BY <1>5 DEF EndBatch, TypeInv, TypeOK, AttemptsLeft, gates, InHand
    <2>2. QED
      BY <1>5, <2>1 DEF EndBatch, TypeInv, TypeOK, Size, durable, gates, Stages
  <1>6. CASE EndPass
    BY <1>6 DEF EndPass, TypeInv, TypeOK, AttemptsLeft, Size, pass, gates
  <1>7. ASSUME NEW n \in Rows, RowStep(n) PROVE TypeInv'
    <2>1. CASE SkipForeign(n)
      BY <2>1 DEF SkipForeign, Consume, TypeInv, TypeOK, AttemptsLeft, Size, gates,
         Rows, Stages
    <2>2. CASE StillBackingOff(n)
      BY <2>2 DEF StillBackingOff, TypeInv, TypeOK, AttemptsLeft, Size, durable,
         pass, gates, Stages
    <2>3. CASE React(n)
      BY <2>3 DEF React, Due, TypeInv, TypeOK, AttemptsLeft, Size, pass, gates,
         Stages
    <2>4. CASE ReactFails(n)
      <3>1. Failed(n) /\ stage[n] = "ready"
        BY <2>4 DEF ReactFails, Due
      <3>2. QED
        BY <2>4, <3>1, FailedTypes DEF ReactFails, TypeInv, TypeOK, Size, pass
    <2>5. CASE ConsumeFails(n)
      <3>1. Failed(n) /\ stage[n] = "acted" /\ faults' \in 0..MaxFaults
        BY <2>5 DEF ConsumeFails, TypeInv, TypeOK
      <3>2. QED
        BY <2>5, <3>1, FailedTypes DEF ConsumeFails, TypeInv, TypeOK, Size, pass,
           durable
    <2>6. CASE ConsumeReacted(n) \/ ConsumeDead(n)
      BY <2>6, SettleTypes DEF ConsumeReacted, ConsumeDead
    <2>7. CASE RecordDeadLetter(n)
      BY <2>7 DEF RecordDeadLetter, TypeInv, TypeOK, AttemptsLeft, Size, pass,
         gates, Stages
    <2>8. QED
      BY <1>7, <2>1, <2>2, <2>3, <2>4, <2>5, <2>6, <2>7 DEF RowStep
  <1>8. CASE AppendAudit
    <2>1. PICK event \in Events \cup {OtherEvent}, foreign \in BOOLEAN :
            ledger' = Append(ledger, [event |-> event, foreign |-> foreign])
      BY <1>8 DEF AppendAudit
    <2>2. /\ ledger' \in Seq([event : Events \cup {OtherEvent}, foreign : BOOLEAN])
          /\ Size' <= MaxRows
      BY <1>8, <2>1 DEF AppendAudit, TypeInv, TypeOK, Size
    <2>3. QED
      BY <1>8, <2>2 DEF AppendAudit, TypeInv, TypeOK, AttemptsLeft, pass, gates
  <1>9. CASE BackoffElapses
    BY <1>9 DEF BackoffElapses, TypeInv, TypeOK, AttemptsLeft, Size, durable, pass
  <1>10. CASE Crash \/ PassThrows
    <2>1. faults' \in 0..MaxFaults
      BY <1>10 DEF Crash, PassThrows, TypeInv, TypeOK
    <2>2. QED
      BY <1>10, <2>1, LoseMemoryTypes DEF Crash, PassThrows
  <1>11. CASE UNCHANGED vars
    BY <1>11 DEF vars, TypeInv, TypeOK, AttemptsLeft, Size, durable, pass, gates
  <1>12. QED
    BY <1>1, <1>2, <1>3, <1>4, <1>5, <1>6, <1>7, <1>8, <1>9, <1>10, <1>11
       DEF Next, LoopStep, PassStep

\* The variables keep their types, for any number of rows, reactions in
\* flight, attempts and faults; in particular attempts never exceed their bound
\* (the retry budget of consumeOne).
THEOREM TypeCorrect == Spec => []TypeOK
  <1>1. TypeInv => TypeOK
    BY DEF TypeInv
  <1>2. QED
    BY TypeInit, TypeStep, <1>1, PTL DEF Spec

-------------------------------------------------------------------------------
(* The frontier, with one reaction in flight and one event type.           *)

\* Nothing of a pass survives it.
Quiet ==
  /\ pc # "tail" => (toQuery = {} /\ pending = {} /\ InHand = {})
  /\ toQuery # {} => (pending = {} /\ InHand = {})

\* In a pass lastConsumed is the durable watermark.
InStep == pc = "tail" => last = watermark /\ high <= last

\* The rows of a pass are rows of the ledger the behaviour reacts to, one in
\* hand, the others behind it, all of them past the frontier.
RowsOfPass ==
  /\ watermark <= Size
  /\ \A n \in pending \cup InHand : Matches(n, Events)
  /\ \A n \in pending : n > watermark
  /\ \A n \in InHand : IF stage[n] = "done" THEN n = watermark ELSE n > watermark
  /\ \A m, n \in InHand : m = n
  /\ \A n \in InHand, m \in pending : n < m

\* No row between the frontier and a row of the pass is missing from it.
NoGap ==
  \A n \in pending \cup InHand, m \in Rows :
     Matches(m, Events) /\ watermark < m /\ m < n => m \in pending \cup InHand

PassInv == Quiet /\ InStep /\ RowsOfPass /\ NoGap

\* What the frontier has passed was consumed, and only that.
Passed ==
  /\ \A n \in 1..watermark : Matches(n, Events) => n \in delivered
  /\ \A n \in delivered : n <= watermark

\* What was consumed, or is about to be, has its reaction or its dead letter.
Evidence ==
  /\ \A n \in delivered : Wanted(n) => n \in reacted \cup dead
  /\ \A n \in Rows : /\ stage[n] = "acted" => n \in reacted
                     /\ stage[n] = "buried" => n \in dead
                     /\ stage[n] \in {"acted", "givingUp", "buried"} => ~Foreign(n)

FrontierInv == TypeInv /\ PassInv /\ Passed /\ Evidence

\* Rows are only appended: those that are there keep what they are.
LEMMA LedgerGrows ==
  ASSUME TypeInv, [Next]_vars
  PROVE  /\ Size' >= Size
         /\ \A n \in 1..Size : ledger'[n] = ledger[n]
         /\ ledger' = ledger \/ AppendAudit
  <1>1. CASE AppendAudit
    <2>1. PICK row \in [event : Events \cup {OtherEvent}, foreign : BOOLEAN] :
            ledger' = Append(ledger, row)
      BY <1>1 DEF AppendAudit
    <2>2. QED
      BY <1>1, <2>1 DEF TypeInv, TypeOK, Size
  <1>2. CASE ~AppendAudit
    <2>1. ledger' = ledger
      BY <1>2 DEF Next, LoopStep, PassStep, RowStep, Boot, BeginPass, Query, NextBatch,
         EndBatch, EndPass, SkipForeign, StillBackingOff, React, ReactFails,
         ConsumeReacted, ConsumeFails, RecordDeadLetter, ConsumeDead, Settle,
         BackoffElapses, Crash, PassThrows, durable, vars
    <2>2. QED
      BY <2>1 DEF TypeInv, TypeOK, Size
  <1>3. QED
    BY <1>1, <1>2

\* With one in flight a batch is the first pending row.
LEMMA BatchIsFirst ==
  ASSUME TypeInv, MaxInFlight = 1
  PROVE  Batch = {n \in pending : \A m \in pending : n <= m}
  <1>1. \A n \in pending : (Cardinality({m \in pending : m < n}) < 1)
                              <=> ({m \in pending : m < n} = {})
    <2> SUFFICES ASSUME NEW n \in pending
                 PROVE  (Cardinality({m \in pending : m < n}) < 1)
                          <=> ({m \in pending : m < n} = {})
      OBVIOUS
    <2>1. IsFiniteSet(Rows)
      BY AssumptionsHold, FS_Interval DEF Rows, Assumptions
    <2>2. IsFiniteSet({m \in pending : m < n})
      BY <2>1, FS_Subset DEF TypeInv, TypeOK
    <2>3. QED
      BY <2>2, FS_EmptySet, FS_CardinalityType
  <1>2. Batch = {n \in pending : {m \in pending : m < n} = {}}
    BY <1>1 DEF Batch
  <1>3. \A m, n \in pending : (m < n) <=> ~(n <= m)
    BY AssumptionsHold DEF TypeInv, TypeOK, Rows, Assumptions
  <1>4. QED
    BY <1>2, <1>3

LEMMA FrontierInit == Init => FrontierInv
  <1>1. Init => TypeInv
    BY TypeInit
  <1>2. Init => PassInv /\ Passed /\ Evidence
    BY DEF Init, PassInv, Quiet, InStep, RowsOfPass, NoGap, Passed, Evidence, InHand,
       Size
  <1>3. QED
    BY <1>1, <1>2 DEF FrontierInv

\* consumeOne is with row n, and n stays in hand.
LEMMA StageMoves ==
  ASSUME TypeInv, NEW n \in Rows, stage[n] # "none", NEW s \in Stages \ {"none"},
         stage' = [stage EXCEPT ![n] = s]
  PROVE  /\ InHand' = InHand
         /\ stage'[n] = s
         /\ \A m \in Rows : m # n => stage'[m] = stage[m]
  BY DEF TypeInv, TypeOK, InHand

\* Work on the row in hand that consumes nothing keeps the pass as it is.
LEMMA WorkKeepsPass ==
  ASSUME FrontierInv, NEW n \in Rows, stage[n] \notin {"none", "done"},
         NEW s \in Stages \ {"none", "done"}, stage' = [stage EXCEPT ![n] = s],
         UNCHANGED <<ledger, watermark, delivered, pc, pass>>
  PROVE  PassInv' /\ Passed'
  <1>1. /\ InHand' = InHand
        /\ stage'[n] = s
        /\ \A m \in Rows : m # n => stage'[m] = stage[m]
    BY StageMoves DEF FrontierInv
  <1>2. \A m : Matches(m, Events)' = Matches(m, Events)
    BY DEF Matches, Size
  <1>3. Quiet' /\ InStep'
    BY <1>1 DEF FrontierInv, PassInv, Quiet, InStep, pass
  <1>4. RowsOfPass'
    BY <1>1, <1>2 DEF FrontierInv, PassInv, RowsOfPass, pass, Size, InHand
  <1>5. NoGap'
    BY <1>1, <1>2 DEF FrontierInv, PassInv, NoGap, pass
  <1>6. Passed'
    BY <1>2 DEF FrontierInv, Passed
  <1>7. QED
    BY <1>3, <1>4, <1>5, <1>6 DEF PassInv

\* Consuming the row in hand moves the frontier to it: no row is left behind.
LEMMA ConsumeKeepsPass ==
  ASSUME FrontierInv, NEW n \in Rows, stage[n] \notin {"none", "done"}, Consume(n),
         stage' = [stage EXCEPT ![n] = "done"], last' = n,
         UNCHANGED <<ledger, pc, toQuery, pending, high>>
  PROVE  /\ PassInv' /\ Passed'
         /\ watermark' = n /\ n > watermark
         /\ \A m \in Rows : Matches(m, Events) /\ watermark < m /\ m < n => FALSE
  <1> USE AssumptionsHold DEF Assumptions
  <1>1. /\ InHand' = InHand
        /\ stage'[n] = "done"
        /\ n \in InHand
    BY StageMoves DEF FrontierInv, Stages, InHand
  <1>2. InHand = {n}
    BY <1>1 DEF FrontierInv, PassInv, RowsOfPass
  <1>3. n > watermark /\ watermark' = n
    BY <1>1 DEF FrontierInv, PassInv, RowsOfPass, Consume
  <1>4. \A m : Matches(m, Events)' = Matches(m, Events)
    BY DEF Matches, Size
  <1>5. watermark \in Nat /\ pending \subseteq Rows /\ high \in Nat /\ last \in Nat
    BY DEF FrontierInv, TypeInv, TypeOK
  <1>6. \A m \in Rows : Matches(m, Events) /\ watermark < m /\ m < n => FALSE
    <2> SUFFICES ASSUME NEW m \in Rows, Matches(m, Events), watermark < m, m < n
                 PROVE  FALSE
      OBVIOUS
    <2>1. m \in pending \cup InHand
      BY <1>1 DEF FrontierInv, PassInv, NoGap
    <2>2. m \in pending
      BY <1>2, <2>1 DEF Rows
    <2>3. n < m
      BY <1>1, <2>2 DEF FrontierInv, PassInv, RowsOfPass
    <2>4. QED
      BY <2>3 DEF Rows
  <1>7. pc = "tail" /\ toQuery = {}
    BY <1>1 DEF FrontierInv, PassInv, Quiet
  <1>8. Quiet' /\ InStep'
    BY <1>1, <1>3, <1>5, <1>7 DEF FrontierInv, PassInv, Quiet, InStep, Rows
  <1>9. RowsOfPass'
    BY <1>1, <1>2, <1>3, <1>4 DEF FrontierInv, PassInv, RowsOfPass, Size, Matches,
       Rows
  <1>10. NoGap'
    BY <1>1, <1>2, <1>3, <1>4, <1>5 DEF FrontierInv, PassInv, NoGap, Rows
  <1>11. Passed'
    <2>1. \A m \in 1..watermark' : Matches(m, Events) => m \in delivered'
      <3> SUFFICES ASSUME NEW m \in 1..n, Matches(m, Events) PROVE m \in delivered'
        BY <1>3
      <3>1. m \in Rows
        BY DEF Rows
      <3>2. m \in 1..watermark \/ m = n
        BY <1>5, <1>6, <3>1 DEF Rows
      <3>3. QED
        BY <3>2 DEF FrontierInv, Passed, Consume
    <2>2. \A m \in delivered' : m <= watermark'
      BY <1>3, <1>5 DEF FrontierInv, Passed, Consume, TypeInv, TypeOK, Rows
    <2>3. QED
      BY <1>4, <2>1, <2>2 DEF Passed
  <1>12. QED
    BY <1>3, <1>6, <1>8, <1>9, <1>10, <1>11 DEF PassInv

\* A process that loses its memory leaves the durable state consistent.
LEMMA LossKeepsFrontier ==
  ASSUME FrontierInv, LoseMemory, UNCHANGED durable
  PROVE  PassInv' /\ Passed' /\ Evidence'
  <1>1. InHand' = {}
    BY DEF LoseMemory, InHand
  <1>2. \A m : /\ Matches(m, Events)' = Matches(m, Events)
              /\ Foreign(m)' = Foreign(m)
              /\ Wanted(m)' = Wanted(m)
    BY DEF Matches, Foreign, Wanted, Size, durable
  <1>3. PassInv'
    BY <1>1 DEF FrontierInv, PassInv, Quiet, InStep, RowsOfPass, NoGap, LoseMemory,
       durable, Size
  <1>4. Passed'
    BY <1>2 DEF FrontierInv, Passed, durable
  <1>5. Evidence'
    BY <1>2 DEF FrontierInv, Evidence, durable, LoseMemory
  <1>6. QED
    BY <1>3, <1>4, <1>5

\* The steps of a pass that touch no single row.
LEMMA PassStepKeepsFrontier ==
  ASSUME Ordered, FrontierInv, TypeInv', PassStep
  PROVE  PassInv' /\ Passed' /\ Evidence'
  <1> USE AssumptionsHold DEF Assumptions
  <1>1. /\ ledger' = ledger /\ delivered' = delivered /\ dead' = dead
        /\ reacted' = reacted
    BY DEF PassStep, Boot, BeginPass, Query, NextBatch, EndBatch, EndPass, durable
  <1>2. watermark' = watermark
    <2>1. CASE EndPass
      BY <2>1 DEF EndPass, FrontierInv, PassInv, InStep, TypeInv, TypeOK
    <2>2. QED
      BY <2>1 DEF PassStep, Boot, BeginPass, Query, NextBatch, EndBatch, durable
  <1>3. \A m : /\ Matches(m, Events)' = Matches(m, Events)
              /\ Foreign(m)' = Foreign(m)
              /\ Wanted(m)' = Wanted(m)
    BY <1>1 DEF Matches, Foreign, Wanted, Size
  <1>4. Passed'
    BY <1>1, <1>2, <1>3 DEF FrontierInv, Passed
  <1>5. \A n \in Rows : stage'[n] \in {"acted", "givingUp", "buried"}
                          => stage'[n] = stage[n]
    BY DEF PassStep, Boot, BeginPass, Query, NextBatch, EndBatch, EndPass
  <1>6. Evidence'
    BY <1>1, <1>3, <1>5 DEF FrontierInv, Evidence
  <1>7. Size' = Size /\ Size \in Nat
    BY <1>1 DEF Size, FrontierInv, TypeInv, TypeOK
  <1>8. CASE Boot \/ BeginPass \/ EndPass
    <2>1. InHand' = {} /\ pending' = {} /\ InHand = {} /\ (pc' = "tail" => BeginPass)
      BY <1>8 DEF Boot, BeginPass, EndPass, FrontierInv, PassInv, Quiet, InHand, pass
    <2>2. Quiet'
      BY <1>8, <2>1 DEF Quiet, Boot, BeginPass, EndPass, FrontierInv, PassInv, pass
    <2>3. InStep'
      BY <1>2, <1>8, <2>1 DEF InStep, BeginPass, FrontierInv, TypeInv, TypeOK
    <2>4. RowsOfPass' /\ NoGap'
      BY <1>2, <1>7, <2>1 DEF RowsOfPass, NoGap, FrontierInv, PassInv
    <2>5. QED
      BY <1>4, <1>6, <2>2, <2>3, <2>4 DEF PassInv
  <1>9. ASSUME NEW event \in Events, Query(event)
        PROVE  PassInv'
    <2>1. Events = {event} /\ toQuery' = {}
      BY <1>9 DEF Ordered, Query, FrontierInv, TypeInv, TypeOK
    <2>2. InHand' = {} /\ pending = {} /\ InHand = {} /\ last = watermark
      BY <1>9 DEF Query, FrontierInv, PassInv, Quiet, InStep, InHand
    <2>3. pending' = {n \in Rows : Matches(n, Events) /\ n > watermark}
      BY <1>9, <2>1, <2>2 DEF Query
    <2>4. Quiet' /\ InStep'
      BY <1>2, <1>9, <2>1, <2>2 DEF Query, FrontierInv, PassInv, Quiet, InStep
    <2>5. RowsOfPass' /\ NoGap'
      BY <1>2, <1>3, <1>7, <2>2, <2>3 DEF RowsOfPass, NoGap, FrontierInv, PassInv
    <2>6. QED
      BY <2>4, <2>5 DEF PassInv
  <1>10. CASE NextBatch
    <2>1. \A m, n \in Batch : m = n
      <3>1. \A m, n \in Batch : m <= n /\ n <= m
        BY BatchIsFirst DEF Ordered, FrontierInv
      <3>2. \A n \in Batch : n \in Nat
        BY DEF Batch, FrontierInv, TypeInv, TypeOK, Rows
      <3>3. QED
        BY <3>1, <3>2
    <2>2. InHand' = Batch /\ InHand = {} /\ pending' = pending \ Batch
      BY <1>10 DEF NextBatch, InHand, Batch, FrontierInv, TypeInv, TypeOK
    <2>3. \A n \in Batch, m \in pending : n <= m
      BY BatchIsFirst DEF Ordered, FrontierInv
    <2>4. \A n \in Batch : stage'[n] = "ready"
      BY <1>10 DEF Batch, NextBatch, FrontierInv, TypeInv, TypeOK
    <2>5. pending' \cup InHand' = pending
      BY <2>2 DEF Batch
    <2>6. Quiet' /\ InStep'
      BY <1>2, <1>10 DEF NextBatch, FrontierInv, PassInv, Quiet, InStep
    <2>7. RowsOfPass'
      <3>1. \A n \in Batch, m \in pending \ Batch : n < m
        <4> SUFFICES ASSUME NEW n \in Batch, NEW m \in pending \ Batch PROVE n < m
          OBVIOUS
        <4>1. n \in pending /\ m \in pending /\ n # m
          BY DEF Batch
        <4>2. n <= m
          BY <2>3, <4>1
        <4>3. n \in Nat /\ m \in Nat
          BY <4>1 DEF FrontierInv, TypeInv, TypeOK, Rows
        <4>4. QED
          BY <4>1, <4>2, <4>3
      <3>2. Batch \subseteq pending
        BY DEF Batch
      <3>3. QED
        BY <1>2, <1>3, <1>7, <2>1, <2>2, <2>4, <3>1, <3>2
           DEF RowsOfPass, FrontierInv, PassInv
    <2>8. NoGap'
      BY <1>2, <1>3, <2>2, <2>5 DEF NoGap, FrontierInv, PassInv
    <2>9. QED
      BY <1>4, <1>6, <2>6, <2>7, <2>8 DEF PassInv
  <1>11. CASE EndBatch
    <2>1. InHand' = {} /\ (pending' = pending \/ pending' = {})
      BY <1>11 DEF EndBatch, InHand
    <2>2. pending' # {} => \A n \in InHand : stage[n] = "done" /\ n = watermark
      BY <1>11 DEF EndBatch, FrontierInv, PassInv, RowsOfPass
    <2>3. Quiet' /\ InStep'
      BY <1>2, <1>11, <2>1 DEF EndBatch, FrontierInv, PassInv, Quiet, InStep, TypeInv,
         TypeOK
    <2>4. RowsOfPass'
      BY <1>2, <1>3, <1>7, <2>1 DEF RowsOfPass, FrontierInv, PassInv
    <2>5. NoGap'
      BY <1>2, <1>3, <2>1, <2>2 DEF NoGap, FrontierInv, PassInv, TypeInv, TypeOK, Rows
    <2>6. QED
      BY <1>4, <1>6, <2>3, <2>4, <2>5 DEF PassInv
  <1>12. QED
    BY <1>4, <1>6, <1>8, <1>9, <1>10, <1>11 DEF PassStep

\* The steps of consumeOne.
LEMMA RowStepKeepsFrontier ==
  ASSUME FrontierInv, TypeInv', NEW n \in Rows, RowStep(n)
  PROVE  PassInv' /\ Passed' /\ Evidence'
  <1>1. ledger' = ledger
    BY DEF RowStep, SkipForeign, StillBackingOff, React, ReactFails, ConsumeReacted,
       ConsumeFails, RecordDeadLetter, ConsumeDead, Settle, durable
  <1>2. \A m : /\ Foreign(m)' = Foreign(m)
              /\ Wanted(m)' = Wanted(m)
    BY <1>1 DEF Foreign, Wanted, Matches, Size
  <1>3. stage \in [Rows -> Stages]
    BY DEF FrontierInv, TypeInv, TypeOK
  <1>4. CASE StillBackingOff(n)
    <2>1. PassInv' /\ Passed'
      BY <1>4, WorkKeepsPass DEF StillBackingOff, durable, Stages
    <2>2. Evidence'
      BY <1>2, <1>3, <1>4 DEF StillBackingOff, FrontierInv, Evidence, durable
    <2>3. QED
      BY <2>1, <2>2
  <1>5. CASE React(n)
    <2>1. PassInv' /\ Passed'
      BY <1>5, WorkKeepsPass DEF React, Due, Stages
    <2>2. Evidence'
      BY <1>2, <1>3, <1>5 DEF React, Due, FrontierInv, Evidence
    <2>3. QED
      BY <2>1, <2>2
  <1>6. CASE ReactFails(n) \/ ConsumeFails(n)
    <2>1. PICK s \in {"givingUp", "held"} : stage' = [stage EXCEPT ![n] = s]
      BY <1>6 DEF ReactFails, ConsumeFails, Failed
    <2>2. /\ stage[n] \in {"ready", "acted"} /\ ~Foreign(n)
          /\ UNCHANGED <<watermark, delivered, dead, pc, pass>>
          /\ reacted \subseteq reacted'
      BY <1>6 DEF ReactFails, Due, ConsumeFails, durable, FrontierInv, Evidence
    <2>3. PassInv' /\ Passed'
      BY <1>1, <2>1, <2>2, WorkKeepsPass DEF Stages
    <2>4. Evidence'
      BY <1>2, <1>3, <2>1, <2>2 DEF FrontierInv, Evidence
    <2>5. QED
      BY <2>3, <2>4
  <1>7. CASE RecordDeadLetter(n)
    <2>1. PassInv' /\ Passed'
      BY <1>7, WorkKeepsPass DEF RecordDeadLetter, Stages
    <2>2. Evidence'
      BY <1>2, <1>3, <1>7 DEF RecordDeadLetter, FrontierInv, Evidence
    <2>3. QED
      BY <2>1, <2>2
  <1>8. CASE SkipForeign(n) \/ ConsumeReacted(n) \/ ConsumeDead(n)
    <2>1. /\ stage[n] \notin {"none", "done"} /\ Consume(n) /\ last' = n
          /\ stage' = [stage EXCEPT ![n] = "done"]
          /\ UNCHANGED <<pc, toQuery, pending, high, dead, reacted>>
          /\ Wanted(n) => n \in reacted \cup dead
      BY <1>8 DEF SkipForeign, ConsumeReacted, ConsumeDead, Settle, Wanted,
         FrontierInv, Evidence
    <2>2. PassInv' /\ Passed'
      BY <1>1, <2>1, ConsumeKeepsPass
    <2>3. Evidence'
      BY <1>2, <1>3, <2>1 DEF Consume, FrontierInv, Evidence
    <2>4. QED
      BY <2>2, <2>3
  <1>9. QED
    BY <1>4, <1>5, <1>6, <1>7, <1>8 DEF RowStep

\* A row appended by somebody is past every row of the pass.
LEMMA AppendKeepsFrontier ==
  ASSUME FrontierInv, TypeInv', AppendAudit, [Next]_vars
  PROVE  PassInv' /\ Passed' /\ Evidence'
  <1>1. /\ Size \in Nat /\ Size' \in Nat /\ Size' >= Size
        /\ \A m \in 1..Size : ledger'[m] = ledger[m]
    BY LedgerGrows DEF FrontierInv, TypeInv, TypeOK, Size
  <1>2. UNCHANGED <<watermark, delivered, dead, reacted, pc, pass, stage>>
    BY DEF AppendAudit
  <1>3. \A m \in 1..Size : /\ Matches(m, Events)' = Matches(m, Events)
                           /\ Foreign(m)' = Foreign(m)
                           /\ Wanted(m)' = Wanted(m)
    BY <1>1 DEF Matches, Foreign, Wanted
  <1>4. /\ pending \subseteq 1..Size /\ InHand \subseteq 1..Size
        /\ InHand' = InHand /\ watermark \in 0..Size
        /\ delivered \subseteq 1..Size
    <2>1. pending \subseteq 1..Size /\ InHand \subseteq 1..Size
      BY DEF FrontierInv, PassInv, RowsOfPass, Matches
    <2>2. InHand' = InHand
      BY <1>2 DEF InHand
    <2>3. watermark \in 0..Size
      BY <1>1 DEF FrontierInv, PassInv, RowsOfPass, TypeInv, TypeOK
    <2>4. delivered \subseteq 1..Size
      BY <1>1, <2>3 DEF FrontierInv, Passed, TypeInv, TypeOK, Rows
    <2>5. QED
      BY <2>1, <2>2, <2>3, <2>4
  <1>5. Quiet' /\ InStep'
    BY <1>2, <1>4 DEF FrontierInv, PassInv, Quiet, InStep, pass
  <1>6. RowsOfPass'
    <2>1. watermark <= Size'
      BY <1>1, <1>4
    <2>2. \A m \in pending \cup InHand : Matches(m, Events)'
      BY <1>3, <1>4 DEF FrontierInv, PassInv, RowsOfPass
    <2>3. QED
      BY <1>2, <1>4, <2>1, <2>2 DEF FrontierInv, PassInv, RowsOfPass, pass
  <1>7. NoGap'
    <2> SUFFICES ASSUME NEW k \in pending \cup InHand, NEW m \in Rows,
                        Matches(m, Events)', watermark < m, m < k
                 PROVE  m \in pending \cup InHand
      BY <1>2, <1>4 DEF NoGap, pass
    <2>1. m \in 1..Size
      BY <1>1, <1>4 DEF Rows
    <2>2. QED
      BY <1>3, <2>1 DEF FrontierInv, PassInv, NoGap
  <1>8. Passed'
    BY <1>1, <1>2, <1>3, <1>4 DEF FrontierInv, Passed
  <1>9. Evidence'
    <2>1. \A m \in Rows : stage[m] # "none" => m \in 1..Size
      BY <1>4 DEF InHand
    <2>2. QED
      BY <1>2, <1>3, <1>4, <2>1 DEF FrontierInv, Evidence
  <1>10. QED
    BY <1>5, <1>6, <1>7, <1>8, <1>9 DEF PassInv

LEMMA FrontierStep ==
  ASSUME Ordered, FrontierInv, [Next]_vars
  PROVE  FrontierInv'
  <1>1. TypeInv'
    BY TypeStep DEF FrontierInv
  <1>2. CASE PassStep
    BY <1>1, <1>2, PassStepKeepsFrontier DEF FrontierInv
  <1>3. ASSUME NEW n \in Rows, RowStep(n) PROVE FrontierInv'
    BY <1>1, <1>3, RowStepKeepsFrontier DEF FrontierInv
  <1>4. CASE AppendAudit
    BY <1>1, <1>4, AppendKeepsFrontier DEF FrontierInv
  <1>5. CASE Crash \/ PassThrows
    BY <1>1, <1>5, LossKeepsFrontier DEF Crash, PassThrows, FrontierInv
  <1>6. CASE BackoffElapses \/ UNCHANGED vars
    <2>1. UNCHANGED <<durable, pc, pass, stage>>
      BY <1>6 DEF BackoffElapses, vars
    <2>2. \A m : /\ Matches(m, Events)' = Matches(m, Events)
                /\ Foreign(m)' = Foreign(m)
                /\ Wanted(m)' = Wanted(m)
      BY <2>1 DEF Matches, Foreign, Wanted, Size, durable
    <2>3. InHand' = InHand
      BY <2>1 DEF InHand
    <2>4. PassInv'
      BY <2>1, <2>2, <2>3 DEF FrontierInv, PassInv, Quiet, InStep, RowsOfPass, NoGap,
         durable, pass, Size
    <2>5. Passed' /\ Evidence'
      BY <2>1, <2>2 DEF FrontierInv, Passed, Evidence, durable
    <2>6. QED
      BY <1>1, <2>4, <2>5 DEF FrontierInv
  <1>7. QED
    BY <1>2, <1>3, <1>4, <1>5, <1>6 DEF Next, LoopStep

\* With one reaction in flight and one event type the frontier passes no row
\* that was neither reacted to nor dead-lettered, for any number of rows,
\* attempts, crashes and storage faults (reactive.ts: "never dropped").
THEOREM NothingSkippedHolds == Ordered /\ Spec => []NothingSkipped
  <1>1. FrontierInv => NothingSkipped
    BY DEF FrontierInv, Passed, Evidence, NothingSkipped
  <1>2. Ordered /\ FrontierInv /\ [Next]_vars => FrontierInv'
    BY FrontierStep
  <1>3. Ordered => []Ordered
    <2>1. Ordered => Ordered'
      BY DEF Ordered
    <2>2. QED
      BY <2>1, PTL
  <1>4. QED
    BY FrontierInit, <1>1, <1>2, <1>3, PTL DEF Spec

\* A consumed row is never reacted to again, with one in flight (the
\* idempotency key and the watermark move together).
THEOREM DeliveredNeverAgainHolds == Ordered /\ Spec => DeliveredNeverAgain
  <1>1. FrontierInv => \A n \in Rows : ~(n \in delivered /\ stage[n] = "ready")
    BY DEF FrontierInv, Passed, PassInv, RowsOfPass, InHand, TypeInv, TypeOK, Rows
  <1>2. FrontierInv /\ [Next]_vars
          => [\A n \in Rows : n \in delivered /\ stage[n] = "ready"
                               => stage'[n] # "acted"]_vars
    BY <1>1
  <1>3. Ordered /\ FrontierInv /\ [Next]_vars => FrontierInv'
    BY FrontierStep
  <1>4. Ordered => []Ordered
    <2>1. Ordered => Ordered'
      BY DEF Ordered
    <2>2. QED
      BY <2>1, PTL
  <1>5. QED
    BY FrontierInit, <1>2, <1>3, <1>4, PTL DEF Spec, DeliveredNeverAgain

-------------------------------------------------------------------------------
(* The refinement.                                                         *)

WantedRows == {n \in 1..Size : Wanted(n)}

\* The row in hand, if it is wanted, is the first one past the frontier.
LEMMA InHandIsFirst ==
  ASSUME FrontierInv, NEW n \in Rows, stage[n] \notin {"none", "done"}
  PROVE  /\ n \in 1..Size /\ n > watermark
         /\ \A m \in WantedRows : m > watermark => n <= m
         /\ Wanted(n) => Ledger!First(n)
  <1>1. n \in InHand /\ InHand = {n}
    BY DEF InHand, FrontierInv, PassInv, RowsOfPass
  <1>2. n \in 1..Size /\ n > watermark
    BY <1>1 DEF FrontierInv, PassInv, RowsOfPass, Matches
  <1>3. ASSUME NEW m \in WantedRows, m > watermark, m < n PROVE FALSE
    <2>1. m \in Rows /\ Matches(m, Events)
      BY AssumptionsHold DEF WantedRows, Wanted, FrontierInv, TypeInv, TypeOK, Rows,
         Size, Matches, Assumptions
    <2>2. m \in pending
      <3>1. m \in pending \cup InHand
        BY <1>1, <1>3, <2>1 DEF FrontierInv, PassInv, NoGap
      <3>2. QED
        BY <1>1, <1>3, <2>1, <3>1 DEF Rows
    <2>3. n < m
      BY <1>1, <2>2 DEF FrontierInv, PassInv, RowsOfPass
    <2>4. QED
      BY <1>3, <2>1, <2>3 DEF Rows
  <1>4. \A m \in WantedRows : m > watermark => n <= m
    BY <1>3 DEF WantedRows, Rows
  <1>5. Wanted(n) => Ledger!First(n)
    BY <1>2, <1>4 DEF Ledger!First, WantedRows
  <1>6. QED
    BY <1>2, <1>4, <1>5

LEMMA LedgerInit == Init => Ledger!Init
  BY DEF Init, Ledger!Init, Size

LEMMA LedgerStep ==
  ASSUME Ordered, FrontierInv, [Next]_vars
  PROVE  [Ledger!Next]_(Ledger!vars)
  <1> USE DEF Ledger!Next, Ledger!vars
  <1>1. CASE AppendAudit
    <2>1. PICK row \in [event : Events \cup {OtherEvent}, foreign : BOOLEAN] :
            ledger' = Append(ledger, row)
      BY <1>1 DEF AppendAudit
    <2>2. Size' = Size + 1 /\ Size \in Nat
      BY <2>1 DEF Size, FrontierInv, TypeInv, TypeOK
    <2>3. \A m \in 1..Size : Wanted(m)' = Wanted(m)
      BY <2>2, LedgerGrows DEF FrontierInv, Wanted, Matches, Foreign
    <2>4. WantedRows' = WantedRows \/ WantedRows' = WantedRows \cup {Size'}
      BY <2>2, <2>3 DEF WantedRows
    <2>5. Ledger!Append
      BY <1>1, <2>2, <2>4 DEF Ledger!Append, AppendAudit, WantedRows
    <2>6. QED
      BY <2>5
  <1>2. CASE ~AppendAudit
    <2>1. ledger' = ledger
      BY <1>2, LedgerGrows DEF FrontierInv
    <2>2. Size' = Size /\ WantedRows' = WantedRows
      BY <2>1 DEF Size, WantedRows, Wanted, Matches, Foreign
    <2>3. ASSUME NEW n \in Rows, RowStep(n)
          PROVE  [Ledger!Next]_(Ledger!vars)
      <3>1. CASE StillBackingOff(n) \/ ConsumeFails(n)
        BY <2>2, <3>1 DEF StillBackingOff, ConsumeFails, durable, WantedRows
      <3>2. CASE React(n) \/ ReactFails(n)
        <4>1. /\ stage[n] = "ready" /\ ~Foreign(n)
              /\ reacted' \in {reacted, reacted \cup {n}}
              /\ UNCHANGED <<watermark, dead>>
          BY <3>2 DEF React, ReactFails, Due
        <4>2. n \in 1..Size /\ Wanted(n)
          BY <4>1, InHandIsFirst DEF Wanted, InHand, FrontierInv, PassInv, RowsOfPass
        <4>3. Ledger!React(n) \/ reacted' = reacted
          BY <2>2, <4>1, <4>2, InHandIsFirst DEF Ledger!React, WantedRows
        <4>4. QED
          BY <2>2, <4>1, <4>2, <4>3 DEF WantedRows
      <3>3. CASE RecordDeadLetter(n)
        <4>1. /\ stage[n] = "givingUp" /\ ~Foreign(n)
              /\ dead' = dead \cup {n}
              /\ UNCHANGED <<watermark, reacted>>
          BY <3>3 DEF RecordDeadLetter, FrontierInv, Evidence
        <4>2. n \in 1..Size /\ Wanted(n)
          BY <4>1, InHandIsFirst DEF Wanted, InHand, FrontierInv, PassInv, RowsOfPass
        <4>3. Ledger!GiveUp(n)
          BY <2>2, <4>1, <4>2, InHandIsFirst DEF Ledger!GiveUp, WantedRows
        <4>4. QED
          BY <4>2, <4>3
      <3>4. CASE SkipForeign(n) \/ ConsumeReacted(n) \/ ConsumeDead(n)
        <4>1. /\ stage[n] \notin {"none", "done"} /\ Consume(n)
              /\ UNCHANGED <<dead, reacted>>
              /\ Wanted(n) => n \in reacted \cup dead
          BY <3>4 DEF SkipForeign, ConsumeReacted, ConsumeDead, Settle, Wanted,
             FrontierInv, Evidence
        <4>2. n \in 1..Size /\ n > watermark
              /\ \A m \in WantedRows : m > watermark => n <= m
          BY <4>1, InHandIsFirst
        <4>3. watermark' = n
          BY <4>1, <4>2 DEF Consume
        <4>4. \A m \in WantedRows : m > watermark /\ m <= n => m \in reacted \cup dead
          BY <4>1, <4>2 DEF WantedRows
        <4>5. Ledger!Advance(n)
          BY <2>2, <4>1, <4>2, <4>3, <4>4 DEF Ledger!Advance, WantedRows
        <4>6. QED
          BY <4>2, <4>5
      <3>5. QED
        BY <2>3, <3>1, <3>2, <3>3, <3>4 DEF RowStep
    <2>4. CASE PassStep \/ BackoffElapses \/ Crash \/ PassThrows \/ UNCHANGED vars
      <3>1. UNCHANGED <<reacted, dead>>
        BY <2>4 DEF PassStep, Boot, BeginPass, Query, NextBatch, EndBatch, EndPass,
           BackoffElapses, Crash, PassThrows, durable, vars
      <3>2. watermark' = watermark
        <4>1. CASE EndPass
          BY <4>1 DEF EndPass, FrontierInv, PassInv, InStep, TypeInv, TypeOK
        <4>2. QED
          BY <2>4, <4>1 DEF PassStep, Boot, BeginPass, Query, NextBatch, EndBatch,
             BackoffElapses, Crash, PassThrows, durable, vars
      <3>3. QED
        BY <2>2, <3>1, <3>2 DEF WantedRows
    <2>5. QED
      BY <1>2, <2>3, <2>4 DEF Next, LoopStep
  <1>3. QED
    BY <1>1, <1>2

\* With one in flight and one event type the core implements the ordered,
\* at-least-once ledger.
THEOREM ImplementsLedger == Ordered /\ Spec => LedgerSpec
  <1>1. Ordered /\ FrontierInv /\ [Next]_vars => [Ledger!Next]_(Ledger!vars)
    BY LedgerStep
  <1>2. Ordered /\ FrontierInv /\ [Next]_vars => FrontierInv'
    BY FrontierStep
  <1>3. Ordered => []Ordered
    <2>1. Ordered => Ordered'
      BY DEF Ordered
    <2>2. QED
      BY <2>1, PTL
  <1>4. QED
    BY FrontierInit, LedgerInit, <1>1, <1>2, <1>3, PTL
       DEF Spec, LedgerSpec, Ledger!Spec
===============================================================================
