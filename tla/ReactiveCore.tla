----------------------------- MODULE ReactiveCore -----------------------------
(***************************************************************************)
(* The reactive core (src/src/events/reactive.ts) with its cadence         *)
(* (single-flight-loop.ts): a loop that tails the audit ledger for one     *)
(* behaviour, reacts to each new row, retries with backoff, dead-letters,  *)
(* and keeps its place in a durable watermark.                             *)
(*                                                                         *)
(* Durable: the ledger, reactive_watermarks, reactive_deliveries and       *)
(* reactive_dead_letter. Everything else is the memory of one process and  *)
(* is lost with it. The ledger has other writers (the executor, the tools) *)
(* that append between any two steps.                                      *)
(***************************************************************************)
EXTENDS Naturals, Sequences, FiniteSets

CONSTANTS
  Events,        \* the event types the behaviour reacts to
  OtherEvent,    \* an event type it does not react to
  MaxRows,       \* bound: rows of the ledger
  MaxInFlight,   \* opts.maxInFlight
  MaxAttempts,   \* opts.maxAttempts
  MaxFaults,     \* bound: process deaths and storage faults together
  Hazards        \* which of AllHazards the environment may inflict

AllHazards == {"foreign", "react_fails", "crash", "store_fault"}

ASSUME OtherAssumption == OtherEvent \notin Events
ASSUME RowsAssumption == MaxRows \in Nat
ASSUME InFlightAssumption == MaxInFlight \in Nat \ {0}
ASSUME AttemptsAssumption == MaxAttempts \in Nat \ {0}
ASSUME FaultsAssumption == MaxFaults \in Nat

Rows == 1..MaxRows

VARIABLES
  ledger,        \* the audit table: Seq([event, foreign])
  watermark,     \* reactive_watermarks.last_id
  delivered,     \* reactive_deliveries
  dead,          \* reactive_dead_letter
  reacted,       \* history: rows whose reaction had its effect
  pc,            \* down | idle (between passes) | tail (in a pass)
  toQuery,       \* the listAudit calls of this pass not yet answered
  pending,       \* the rows of this pass not yet in a batch
  stage,         \* where consumeOne is with each row of the batch
  last,          \* lastConsumed
  high,          \* the local watermark
  attempts,      \* retryGates: attempts
  gated,         \* retryGates: rows whose nextAttemptAt is in the future
  faults         \* deaths and faults so far

durable == <<ledger, watermark, delivered, dead, reacted>>
pass    == <<toQuery, pending, last, high>>
gates   == <<attempts, gated>>
vars    == <<durable, pc, pass, stage, gates, faults>>

Stages == {"none", "ready", "acted", "givingUp", "buried", "done", "held"}

Size == Len(ledger)
Matches(n, events) == n \in 1..Size /\ ledger[n].event \in events
Foreign(n) == ledger[n].foreign
Wanted(n) == Matches(n, Events) /\ ~Foreign(n)
InHand == {n \in Rows : stage[n] # "none"}

TypeOK ==
  /\ ledger \in Seq([event : Events \cup {OtherEvent}, foreign : BOOLEAN])
  /\ Size <= MaxRows
  /\ watermark \in 0..MaxRows
  /\ delivered \subseteq Rows
  /\ dead \subseteq Rows
  /\ reacted \subseteq Rows
  /\ pc \in {"down", "idle", "tail"}
  /\ toQuery \subseteq Events
  /\ pending \subseteq Rows
  /\ stage \in [Rows -> Stages]
  /\ last \in 0..MaxRows
  /\ high \in 0..MaxRows
  /\ attempts \in [Rows -> 0..MaxAttempts]
  /\ gated \subseteq Rows
  /\ faults \in 0..MaxFaults

Init ==
  /\ ledger = <<>>
  /\ watermark = 0
  /\ delivered = {}
  /\ dead = {}
  /\ reacted = {}
  /\ pc = "down"
  /\ toQuery = {}
  /\ pending = {}
  /\ stage = [n \in Rows |-> "none"]
  /\ last = 0
  /\ high = 0
  /\ attempts = [n \in Rows |-> 0]
  /\ gated = {}
  /\ faults = 0

-------------------------------------------------------------------------------
(* The world.                                                              *)

\* appendAudit of any process.
AppendAudit ==
  /\ Size < MaxRows
  /\ \E event \in Events \cup {OtherEvent}, foreign \in BOOLEAN :
       /\ foreign => "foreign" \in Hazards
       /\ ledger' = Append(ledger, [event |-> event, foreign |-> foreign])
  /\ UNCHANGED <<watermark, delivered, dead, reacted, pc, pass, stage, gates, faults>>

\* The clock passes a row's nextAttemptAt.
BackoffElapses ==
  /\ \E n \in gated : gated' = gated \ {n}
  /\ UNCHANGED <<durable, pc, pass, stage, attempts, faults>>

LoseMemory ==
  /\ pc' = "down"
  /\ toQuery' = {}
  /\ pending' = {}
  /\ stage' = [n \in Rows |-> "none"]
  /\ last' = 0
  /\ high' = 0
  /\ attempts' = [n \in Rows |-> 0]
  /\ gated' = {}

Crash ==
  /\ "crash" \in Hazards
  /\ pc # "down"
  /\ faults < MaxFaults
  /\ faults' = faults + 1
  /\ LoseMemory
  /\ UNCHANGED durable

-------------------------------------------------------------------------------
(* One pass of the loop.                                                   *)

\* startReactiveCore and loop.start.
Boot ==
  /\ pc = "down"
  /\ pc' = "idle"
  /\ UNCHANGED <<durable, pass, stage, gates, faults>>

\* getWatermark at the head of tail.
BeginPass ==
  /\ pc = "idle"
  /\ pc' = "tail"
  /\ last' = watermark
  /\ high' = watermark
  /\ toQuery' = Events
  /\ pending' = {}
  /\ UNCHANGED <<durable, stage, gates, faults>>

\* One listAudit({event_type, after_id}): each event type is its own SELECT.
Query(event) ==
  /\ pc = "tail"
  /\ event \in toQuery
  /\ toQuery' = toQuery \ {event}
  /\ pending' = pending \cup {n \in Rows : Matches(n, {event}) /\ n > last}
  /\ UNCHANGED <<durable, pc, last, high, stage, gates, faults>>

\* MUTANT: newest first.
BatchNewest == {n \in pending : Cardinality({m \in pending : m > n}) < MaxInFlight}

\* The first MaxInFlight pending rows in id order.
Batch == {n \in pending : Cardinality({m \in pending : m < n}) < MaxInFlight}

NextBatch ==
  /\ pc = "tail"
  /\ toQuery = {}
  /\ InHand = {}
  /\ pending # {}
  /\ stage' = [n \in Rows |-> IF n \in Batch THEN "ready" ELSE "none"]
  /\ pending' = pending \ Batch
  /\ UNCHANGED <<durable, pc, toQuery, last, high, gates, faults>>

\* storage.consume: key and watermark in one transaction, never backwards.
Consume(n) ==
  /\ delivered' = delivered \cup {n}
  /\ watermark' = IF n > watermark THEN n ELSE watermark

\* A row outside the space filter is consumed unseen.
SkipForeign(n) ==
  /\ stage[n] = "ready"
  /\ Foreign(n)
  /\ Consume(n)
  /\ stage' = [stage EXCEPT ![n] = "done"]
  /\ last' = n
  /\ UNCHANGED <<ledger, dead, reacted, pc, toQuery, pending, high, gates, faults>>

Due(n) == stage[n] = "ready" /\ ~Foreign(n) /\ n \notin gated

StillBackingOff(n) ==
  /\ stage[n] = "ready"
  /\ ~Foreign(n)
  /\ n \in gated
  /\ stage' = [stage EXCEPT ![n] = "held"]
  /\ UNCHANGED <<durable, pc, pass, gates, faults>>

React(n) ==
  /\ Due(n)
  /\ reacted' = reacted \cup {n}
  /\ stage' = [stage EXCEPT ![n] = "acted"]
  /\ UNCHANGED <<ledger, watermark, delivered, dead, pc, pass, gates, faults>>

\* MUTANT: no dead letter, retries for ever.
FailedForever(n) ==
  /\ stage' = [stage EXCEPT ![n] = "held"]
  /\ gated' = gated \cup {n}
  /\ UNCHANGED attempts

\* The catch of consumeOne up to its first storage call.
Failed(n) ==
  /\ attempts' = [attempts EXCEPT ![n] = @ + 1]
  /\ IF attempts[n] + 1 >= MaxAttempts
       THEN /\ stage' = [stage EXCEPT ![n] = "givingUp"]
            /\ gated' = gated
       ELSE /\ stage' = [stage EXCEPT ![n] = "held"]
            /\ gated' = gated \cup {n}

\* The reaction throws, before or after its effect.
ReactFails(n) ==
  /\ "react_fails" \in Hazards
  /\ Due(n)
  /\ Failed(n)
  /\ reacted' \in {reacted, reacted \cup {n}}
  /\ UNCHANGED <<ledger, watermark, delivered, dead, pc, pass, faults>>

\* consume throws inside the try: the reaction will run again.
ConsumeFails(n) ==
  /\ "store_fault" \in Hazards
  /\ faults < MaxFaults
  /\ faults' = faults + 1
  /\ stage[n] = "acted"
  /\ Failed(n)
  /\ UNCHANGED <<durable, pc, pass>>

\* consume, retryGates.delete, lastConsumed.
Settle(n) ==
  /\ Consume(n)
  /\ stage' = [stage EXCEPT ![n] = "done"]
  /\ attempts' = [attempts EXCEPT ![n] = 0]
  /\ gated' = gated \ {n}
  /\ last' = n
  /\ UNCHANGED <<ledger, dead, reacted, pc, toQuery, pending, high, faults>>

ConsumeReacted(n) == stage[n] = "acted" /\ Settle(n)

RecordDeadLetter(n) ==
  /\ stage[n] = "givingUp"
  /\ dead' = dead \cup {n}
  /\ stage' = [stage EXCEPT ![n] = "buried"]
  /\ UNCHANGED <<ledger, watermark, delivered, reacted, pc, pass, gates, faults>>

ConsumeDead(n) == stage[n] = "buried" /\ Settle(n)

\* Promise.all of the batch: a row that was held ends the pass.
EndBatch ==
  /\ InHand # {}
  /\ \A n \in InHand : stage[n] \in {"done", "held"}
  /\ high' = IF last > high THEN last ELSE high
  /\ stage' = [n \in Rows |-> "none"]
  /\ pending' = IF \E n \in InHand : stage[n] = "held" THEN {} ELSE pending
  /\ UNCHANGED <<durable, pc, toQuery, last, gates, faults>>

\* advanceWatermark writes what it is given, not a maximum.
EndPass ==
  /\ pc = "tail"
  /\ toQuery = {}
  /\ InHand = {}
  /\ pending = {}
  /\ watermark' = IF high > last THEN high ELSE watermark
  /\ pc' = "idle"
  /\ UNCHANGED <<ledger, delivered, dead, reacted, pass, stage, gates, faults>>

\* A storage call outside the try throws: tick rejects, nothing chains the
\* next pass, and the rejection nobody handles ends the process.
PassThrows ==
  /\ "store_fault" \in Hazards
  /\ faults < MaxFaults
  /\ faults' = faults + 1
  /\ \/ pc = "idle"
     \/ pc = "tail" /\ toQuery # {}
     \/ \E n \in Rows : \/ stage[n] \in {"givingUp", "buried"}
                        \/ stage[n] = "ready" /\ Foreign(n)
  /\ LoseMemory
  /\ UNCHANGED durable

RowStep(n) ==
  \/ SkipForeign(n)
  \/ StillBackingOff(n)
  \/ React(n)
  \/ ReactFails(n)
  \/ ConsumeReacted(n)
  \/ ConsumeFails(n)
  \/ RecordDeadLetter(n)
  \/ ConsumeDead(n)

PassStep ==
  \/ Boot
  \/ BeginPass
  \/ \E event \in Events : Query(event)
  \/ NextBatch
  \/ EndBatch
  \/ EndPass

LoopStep == PassStep \/ \E n \in Rows : RowStep(n)

Next ==
  \/ LoopStep
  \/ AppendAudit
  \/ BackoffElapses
  \/ Crash
  \/ PassThrows

Spec == Init /\ [][Next]_vars

\* A process that can step does, compose restarts a dead one, time passes.
FairSpec == Spec /\ WF_vars(LoopStep) /\ WF_vars(BackoffElapses)

-------------------------------------------------------------------------------
(* Properties.                                                             *)

\* The frontier passes no row: every row of a wanted event at or below the
\* watermark was consumed or is being worked on, and what was consumed was
\* reacted to, dead-lettered, or outside the space filter.
NothingSkipped ==
  /\ \A n \in 1..watermark :
       Matches(n, Events) => n \in delivered \/ stage[n] # "none"
  /\ \A n \in delivered : Wanted(n) => n \in reacted \cup dead

\* The idempotency key is final: a consumed row is never reacted to again,
\* whatever crashes, retries and replays come between.
DeliveredNeverAgain ==
  [][\A n \in Rows : n \in delivered /\ stage[n] = "ready" => stage'[n] # "acted"]_vars

\* The core implements the ordered, at-least-once ledger.
Ledger == INSTANCE ReactiveLedger
  WITH size <- Size, wanted <- {n \in 1..Size : Wanted(n)}, frontier <- watermark

LedgerSpec == Ledger!Spec

\* Every wanted row is in the end consumed, and so reacted to or visible as
\* a dead letter, even when its reaction always throws.
EveryRowSettles == \A n \in Rows : n <= Size /\ Wanted(n) ~> n \in delivered
===============================================================================
