------------------------------ MODULE SpaceTurns ------------------------------
(***************************************************************************)
(* The live turns of one space: SpaceService                               *)
(* (src/src/server/services/space-service.ts) with the turn rules of its   *)
(* session driver (server/drivers/agent-driver.ts), the request flag of    *)
(* its presenter (server/services/slack-turn-presenter.ts) and the durable *)
(* pending_turns table (src/src/store/db.ts).                              *)
(*                                                                         *)
(* A message opens a turn of its own, steers the running one, or queues    *)
(* until that turn ends. Queued messages are also written to the table; a  *)
(* cold start of the session recovers what no turn finished. Sessions are  *)
(* numbered: whatever a handler captured is a session's number.            *)
(*                                                                         *)
(* A step runs from one await that leaves the process (a download, session *)
(* creation, a model switch, a prompt, a disposal) to the next; awaits on  *)
(* the in-process database or on a settled promise do not end a step. The  *)
(* agent SDK is external: a run that ends emits turn_end on a session that *)
(* no longer streams, then settles its opening prompt; a session being     *)
(* disposed emits nothing, and its prompts fail whenever they like.        *)
(***************************************************************************)
EXTENDS Naturals, Sequences, FiniteSets

CONSTANTS
  Msgs,      \* inbound messages of the space
  MaxEnds,   \* bound: disposals and crashes together
  Hazards    \* which of AllHazards the environment may inflict

AllHazards == {"dispose", "crash", "rejects", "no_session", "store_fault"}

ASSUME MsgsAssumption == IsFiniteSet(Msgs)
ASSUME EndsAssumption == MaxEnds \in Nat

VARIABLES
  dm,            \* is the space a direct message (its turns are requests)
  pc,            \* where handleInboundMessage is with a message
  deferred,      \* messages that arrived during a turn: not activated yet
  orphans,       \* messages whose handler holds a presenter that is gone
  mode,          \* of the session: none | creating | live | disposing
  gen,           \* the number of the latest session
  turn,          \* turn[g][m]: the turn of its own that m has on session g
  heir,          \* heir[g][m]: the drained turn whose end m's turn awaits
  requestActive, \* #requestActive of the presenter
  queue,         \* #queues: messages waiting for their own turn
  row,           \* status column of pending_turns (lapsed: claim expired)
  rank,          \* the order in which messages were queued: the row's id
  queued,        \* how many were queued so far
  missed,        \* messages a failed write or recovery left to chance
  stalled,       \* a refused prompt left a queue and no turn to drain it
  ends           \* disposals and crashes so far

acked    == <<deferred, orphans>>
handlers == <<pc, acked>>
session  == <<mode, gen>>
table    == <<row, missed>>
order    == <<rank, queued>>
vars == <<dm, handlers, session, turn, heir, requestActive, queue, table,
          order, stalled, ends>>

Gens == 1..(MaxEnds + 1)
None == <<0, 0>>

Places == {"new", "dropped", "ingest", "unvoiced", "waiting", "unreachable",
           "failed", "queued", "turned", "steering", "steered", "cut"}
\* none | hot-swapping the model | prompted | settled and draining the next |
\* over | settled, its row left open by a crash | cut short by a crash
Stages == {"none", "reapply", "prompt", "settle", "over", "unmarked", "cut"}

TypeOK ==
  /\ dm \in BOOLEAN
  /\ pc \in [Msgs -> Places]
  /\ deferred \subseteq Msgs
  /\ orphans \subseteq Msgs
  /\ mode \in {"none", "creating", "live", "disposing"}
  /\ gen \in 0..(MaxEnds + 1)
  /\ mode \in {"live", "disposing"} => gen >= 1
  /\ mode # "live" => gen <= ends
  /\ gen <= ends + 1
  /\ turn \in [Gens -> [Msgs -> Stages]]
  /\ heir \in [Gens -> [Msgs -> (Gens \X Msgs) \cup {None}]]
  /\ requestActive \in BOOLEAN
  /\ requestActive => dm
  /\ queue \in Seq(Msgs)
  /\ mode # "live" /\ mode # "disposing" => queue = <<>>
  /\ row \in [Msgs -> {"none", "pending", "claimed", "lapsed", "done"}]
  /\ rank \in [Msgs -> Nat]
  /\ queued \in Nat
  /\ missed \subseteq Msgs
  /\ stalled \in BOOLEAN
  /\ ends \in 0..MaxEnds

Init ==
  /\ dm \in BOOLEAN
  /\ pc = [m \in Msgs |-> "new"]
  /\ deferred = {}
  /\ orphans = {}
  /\ mode = "none"
  /\ gen = 0
  /\ turn = [g \in Gens |-> [m \in Msgs |-> "none"]]
  /\ heir = [g \in Gens |-> [m \in Msgs |-> None]]
  /\ requestActive = FALSE
  /\ queue = <<>>
  /\ row = [m \in Msgs |-> "none"]
  /\ rank = [m \in Msgs |-> 0]
  /\ queued = 0
  /\ missed = {}
  /\ stalled = FALSE
  /\ ends = 0

-----------------------------------------------------------------------------
(* What the service reads of the session, the queue and the presenter.     *)

InFlight == {"reapply", "prompt"}

\* mutant: the hot-swap does not count as streaming
StreamsOncePrompted == \E m \in Msgs : turn[gen][m] = "prompt"

\* isStreaming(): a run streams, or the model hot-swap before it is under way
IsStreaming == \E m \in Msgs : turn[gen][m] \in InFlight

\* isDmRequestPending(): an opening prompt of a direct message has not settled
RequestPending == dm /\ requestActive

\* #drainQueue finds a message to take, once the turns are as in t
Drains(t) ==
  /\ mode = "live"
  /\ queue # <<>>
  /\ \A m \in Msgs : t[gen][m] \notin InFlight

\* mutant: the latest message is drained first
DrainLatest(t) ==
  /\ queue' = SubSeq(queue, 1, Len(queue) - 1)
  /\ turn' = [t EXCEPT ![gen][queue[Len(queue)]] = "reapply"]

\* #drainQueue: ONE queued message starts a turn of its own
Drain(t) ==
  /\ queue' = Tail(queue)
  /\ turn' = [t EXCEPT ![gen][Head(queue)] = "reapply"]

StoreFaults == "store_fault" \in Hazards

\* completePendingTurn, for a message that has a row
Complete(m) ==
  \/ /\ row' = IF row[m] = "none" THEN row ELSE [row EXCEPT ![m] = "done"]
     /\ UNCHANGED missed
  \/ /\ StoreFaults /\ row[m] \notin {"none", "done"}
     /\ missed' = missed \cup {m}
     /\ UNCHANGED row

-----------------------------------------------------------------------------
(* handleInboundMessage.                                                   *)

\* a fresh turn: activation if it was deferred, then the hot-swap starts
OpenTurn(m, active) ==
  /\ pc' = [pc EXCEPT ![m] = "turned"]
  /\ turn' = [turn EXCEPT ![gen][m] = "reapply"]
  /\ requestActive' = IF m \in deferred \ orphans THEN dm ELSE active
  /\ stalled' = FALSE
  /\ UNCHANGED <<queue, table, order>>

\* a correction inside the safe window: it joins the running turn
Steer(m, active) ==
  /\ pc' = [pc EXCEPT ![m] = "steering"]
  /\ requestActive' = IF m \in orphans THEN active ELSE dm
  /\ UNCHANGED <<turn, queue, table, order, stalled>>

\* anything else waits, in memory and (unless the write fails) in the table
Enqueue(m, active) ==
  /\ pc' = [pc EXCEPT ![m] = "queued"]
  /\ queue' = Append(queue, m)
  /\ rank' = [rank EXCEPT ![m] = queued + 1]
  /\ queued' = queued + 1
  /\ requestActive' = active
  /\ \/ row' = [row EXCEPT ![m] = "pending"] /\ UNCHANGED missed
     \/ StoreFaults /\ missed' = missed \cup {m} /\ UNCHANGED row
  /\ UNCHANGED <<turn, stalled>>

\* the session is at hand: steer, queue or open
Take(m, active) ==
  \/ IsStreaming /\ (Steer(m, active) \/ Enqueue(m, active))
  \/ ~IsStreaming /\ OpenTurn(m, active)

\* await #sessionFor: shared creation, null while the session is disposed
ToSession(m, active) ==
  \/ /\ mode = "live"
     /\ Take(m, active)
     /\ UNCHANGED mode
  \/ /\ mode \in {"none", "creating"}
     /\ mode' = "creating"
     /\ pc' = [pc EXCEPT ![m] = "waiting"]
     /\ requestActive' = active
     /\ UNCHANGED <<turn, queue, table, order, stalled>>
  \/ /\ mode = "disposing"
     /\ pc' = [pc EXCEPT ![m] = "unreachable"]
     /\ requestActive' = active
     /\ UNCHANGED <<mode, turn, queue, table, order, stalled>>

\* the receipt: a message for a session being disposed is dropped, audited
DropDisposing(m) ==
  /\ pc[m] = "new"
  /\ mode = "disposing"
  /\ pc' = [pc EXCEPT ![m] = "dropped"]
  /\ UNCHANGED <<dm, acked, session, turn, heir, requestActive, queue,
                 table, order, stalled, ends>>

\* the receipt of any other: activated now unless a turn is running; a
\* message without files goes on to the session at once
Receive(m) ==
  LET midTurn == mode = "live" /\ IsStreaming
      active  == IF midTurn THEN requestActive ELSE dm
  IN /\ pc[m] = "new"
     /\ mode # "disposing"
     /\ deferred' = IF midTurn THEN deferred \cup {m} ELSE deferred
     /\ \/ /\ pc' = [pc EXCEPT ![m] = "ingest"]
           /\ requestActive' = active
           /\ UNCHANGED <<mode, turn, queue, table, order, stalled>>
        \/ ToSession(m, active)
     /\ UNCHANGED <<dm, orphans, gen, heir, ends>>

\* attachments stored, or the voice note transcribed
Ingested(m) ==
  /\ pc[m] = "ingest"
  /\ ToSession(m, requestActive)
  /\ UNCHANGED <<dm, acked, gen, heir, ends>>

\* a voice note nobody can use: the failure is told, no turn runs
VoiceFails(m) ==
  /\ pc[m] = "ingest"
  /\ pc' = [pc EXCEPT ![m] = "unvoiced"]
  /\ UNCHANGED <<dm, acked, session, turn, heir, requestActive, queue,
                 table, order, stalled, ends>>

\* a handler that awaited the creation of the session
Resume(m) ==
  /\ pc[m] = "waiting"
  /\ mode = "live"
  /\ Take(m, requestActive)
  /\ UNCHANGED <<dm, acked, session, heir, ends>>

\* the steering prompt settled; its settlement may drain a queued message
SteerSettles(m) ==
  /\ pc[m] = "steering"
  /\ pc' = [pc EXCEPT ![m] = "steered"]
  /\ requestActive' = (RequestPending /\ Drains(turn))
  /\ \/ RequestPending /\ Drains(turn) /\ Drain(turn)
     \/ ~(RequestPending /\ Drains(turn)) /\ UNCHANGED <<turn, queue>>
  /\ UNCHANGED <<dm, acked, session, heir, table, order, stalled, ends>>

-----------------------------------------------------------------------------
(* A turn of its own: of an inbound message or of a drained one.           *)

\* the hot-swap is over: the prompt opens a run on the session it captured
Prompt(g, m) ==
  /\ turn[g][m] = "reapply"
  /\ g = gen /\ mode = "live"
  /\ turn' = [turn EXCEPT ![g][m] = "prompt"]
  /\ UNCHANGED <<dm, handlers, session, heir, requestActive, queue, table,
                 order, stalled, ends>>

\* the prompt of m settled; #settleAndDrain finds nothing to settle or to
\* drain, unless a turn_end just before drained already
SettleTurn(g, m, t) ==
  /\ turn' = t
  /\ requestActive' = FALSE
  /\ Complete(m)
  /\ UNCHANGED <<queue, heir>>

\* #settleAndDrain drains: m's row stays open until that turn is over
SettleInto(g, m) ==
  /\ Drain([turn EXCEPT ![g][m] = "settle"])
  /\ requestActive' = TRUE
  /\ heir' = [heir EXCEPT ![g][m] = <<gen, Head(queue)>>]
  /\ UNCHANGED table

\* mutant: nothing drains at turn_end, only at settlement
RunEndsUndrained(g, m) ==
  LET t == [turn EXCEPT ![g][m] = "over"]
  IN /\ turn[g][m] = "prompt"
     /\ g = gen /\ mode = "live"
     /\ \/ ~(Drains(t) /\ RequestPending) /\ SettleTurn(g, m, t)
        \/ Drains(t) /\ RequestPending /\ SettleInto(g, m)
     /\ UNCHANGED <<dm, handlers, session, order, stalled, ends>>

\* the run ends (by itself or by the Stop control's abort): turn_end drains,
\* unless a request is pending; then the prompt settles, which drains if one
\* was pending. A request opened by the first drain is settled by the second.
RunEnds(g, m) ==
  LET t == [turn EXCEPT ![g][m] = "over"]
  IN /\ turn[g][m] = "prompt"
     /\ g = gen /\ mode = "live"
     /\ \/ ~Drains(t) /\ SettleTurn(g, m, t)
        \/ Drains(t) /\ RequestPending /\ SettleInto(g, m)
        \/ /\ Drains(t) /\ ~RequestPending
           /\ Drain(t)
           /\ requestActive' = FALSE
           /\ Complete(m)
           /\ UNCHANGED heir
     /\ UNCHANGED <<dm, handlers, session, order, stalled, ends>>

\* the prompt rejects, with no turn_end: its session is being disposed or
\* gone, or the driver refuses it
PromptFails(g, m) ==
  LET t == [turn EXCEPT ![g][m] = "over"]
      ofLive == g = gen /\ mode = "live"
      drains == RequestPending /\ Drains(t)
  IN /\ turn[g][m] \in InFlight
     /\ ofLive => "rejects" \in Hazards
     /\ \/ drains /\ SettleInto(g, m)
        \/ ~drains /\ SettleTurn(g, m, t)
     /\ stalled' = IF ofLive THEN ~drains /\ queue # <<>> ELSE stalled
     /\ UNCHANGED <<dm, handlers, session, order, ends>>

\* the drained turn that m's settlement awaits is over
SettlementEnds(g, m) ==
  /\ turn[g][m] = "settle"
  /\ turn[heir[g][m][1]][heir[g][m][2]] = "over"
  /\ turn' = [turn EXCEPT ![g][m] = "over"]
  /\ Complete(m)
  /\ UNCHANGED <<dm, handlers, session, heir, requestActive, queue, order,
                 stalled, ends>>

-----------------------------------------------------------------------------
(* The session's life.                                                     *)

\* mutant: a recovery takes up expired claims only
RecoverableLapsed == {m \in Msgs : row[m] = "lapsed"}

\* rows recoverPendingTurns claims: pending ones and those whose lease ran out
Recoverable == {m \in Msgs : row[m] \in {"pending", "lapsed"}}

\* the claims of a recovery, in the order of their row ids
InIdOrder(claims) ==
  {q \in [1..Cardinality(claims) -> claims] :
     \A i, j \in 1..Cardinality(claims) : i < j => rank[q[i]] < rank[q[j]]}

\* #createLive: the session is there and the open rows are queued again
CreateLive ==
  /\ mode = "creating"
  /\ mode' = "live"
  /\ gen' = gen + 1
  /\ stalled' = FALSE
  /\ \/ /\ \E q \in InIdOrder(Recoverable) : queue' = queue \o q
        /\ row' = [m \in Msgs |-> IF m \in Recoverable THEN "claimed"
                                  ELSE row[m]]
        /\ UNCHANGED missed
     \/ /\ StoreFaults
        /\ missed' = missed \cup Recoverable
        /\ UNCHANGED <<queue, row>>
  /\ UNCHANGED <<dm, handlers, turn, heir, requestActive, order, ends>>

\* createSession throws: every handler waiting for it logs that and is done
CreateFails ==
  /\ "no_session" \in Hazards
  /\ mode = "creating"
  /\ mode' = "none"
  /\ pc' = [m \in Msgs |-> IF pc[m] = "waiting" THEN "failed" ELSE pc[m]]
  /\ UNCHANGED <<dm, acked, gen, turn, heir, requestActive, queue, table,
                 order, stalled, ends>>

\* the idle timer (armed once, when the session is created) or a connect
\* refresh; handlers that were waiting for the session run before timers do
BeginDispose ==
  /\ "dispose" \in Hazards /\ ends < MaxEnds
  /\ mode = "live"
  /\ \A m \in Msgs : pc[m] # "waiting"
  /\ mode' = "disposing"
  /\ ends' = ends + 1
  /\ UNCHANGED <<dm, handlers, gen, turn, heir, requestActive, queue, table,
                 order, stalled>>

\* digest and dispose are over: presenter, session and queue are deleted
EndDispose ==
  /\ mode = "disposing"
  /\ mode' = "none"
  /\ requestActive' = FALSE
  /\ queue' = <<>>
  /\ orphans' = orphans \cup {m \in Msgs : pc[m] = "ingest"}
  /\ UNCHANGED <<dm, pc, deferred, gen, turn, heir, table, order, stalled,
                 ends>>

\* the server dies and comes back: every handler, turn and queue is gone
Crash ==
  /\ "crash" \in Hazards /\ ends < MaxEnds
  /\ ends' = ends + 1
  /\ mode' = "none"
  /\ requestActive' = FALSE
  /\ queue' = <<>>
  /\ pc' = [m \in Msgs |-> IF pc[m] \in {"ingest", "waiting", "steering"}
                           THEN "cut" ELSE pc[m]]
  /\ turn' = [g \in Gens |-> [m \in Msgs |->
                CASE turn[g][m] \in InFlight -> "cut"
                  [] turn[g][m] = "settle"   -> "unmarked"
                  [] OTHER                   -> turn[g][m]]]
  /\ UNCHANGED <<dm, acked, gen, heir, table, order, stalled>>

\* RECOVERY_LEASE_MS passed since a recovery claimed the row
LeaseExpires(m) ==
  /\ row[m] = "claimed"
  /\ row' = [row EXCEPT ![m] = "lapsed"]
  /\ UNCHANGED <<dm, handlers, session, turn, heir, requestActive, queue,
                 missed, order, stalled, ends>>

HandlerStep(m) ==
  DropDisposing(m) \/ Receive(m) \/ Ingested(m) \/ VoiceFails(m) \/ Resume(m)
    \/ SteerSettles(m)

TurnStep(g, m) ==
  Prompt(g, m) \/ RunEnds(g, m) \/ PromptFails(g, m) \/ SettlementEnds(g, m)

Next ==
  \/ \E m \in Msgs : HandlerStep(m) \/ LeaseExpires(m)
  \/ \E g \in Gens, m \in Msgs : TurnStep(g, m)
  \/ CreateLive \/ CreateFails \/ BeginDispose \/ EndDispose \/ Crash

Spec == Init /\ [][Next]_vars

\* Handlers that have what they wait for go on; sessions get created and
\* disposed; prompts are made and the runs of a live session end. A message
\* need not arrive, nor a prompt settle on a session that is gone.
FairSpec ==
  /\ Spec
  /\ \A m \in Msgs : WF_vars(Ingested(m) \/ VoiceFails(m))
                   /\ WF_vars(Resume(m)) /\ WF_vars(SteerSettles(m))
  /\ \A g \in Gens, m \in Msgs : WF_vars(Prompt(g, m)) /\ WF_vars(RunEnds(g, m))
  /\ WF_vars(CreateLive \/ CreateFails) /\ WF_vars(EndDispose)

-----------------------------------------------------------------------------
(* Properties.                                                             *)

Queued == {queue[i] : i \in DOMAIN queue}

\* The session never runs two turns of its own at once: whatever opens one,
\* an inbound message or a drained one, makes everything else steer or wait,
\* from the hot-swap before the prompt on (issues #152, #189).
OneTurnAtATime ==
  mode = "live" =>
    \A m, n \in Msgs :
      turn[gen][m] \in InFlight /\ turn[gen][n] \in InFlight => m = n

\* Queued messages get their turns in the order they were queued, over
\* restarts too: nobody in the queue is overtaken by a later one, recovered
\* or not, and nobody waits a second time on the session that took him.
ArrivalOrder ==
  /\ \A i, j \in DOMAIN queue : i < j => rank[queue[i]] < rank[queue[j]]
  /\ \A n \in Msgs, m \in Queued :
       gen > 0 /\ pc[n] = "queued" /\ turn[gen][n] # "none" => rank[n] < rank[m]

\* A turn of m was prompted and settled on session g.
Settled(g, m) == turn[g][m] \in {"settle", "over", "unmarked"}

\* A queued message is forgotten neither by the table before a turn of it
\* settled, nor by a live session that has its row: unless the write, the
\* claim or the mark of the row failed, it waits or has its turn.
NothingForgotten ==
  /\ \A m \in Msgs : row[m] = "done" => \E g \in Gens : Settled(g, m)
  /\ mode = "live" =>
       \A m \in Msgs : row[m] = "pending" /\ m \notin missed =>
         m \in Queued \/ turn[gen][m] \in InFlight \cup {"settle"}

\* A message whose row is done is never put back into the queue, by whatever
\* restart, disposal or recovery.
MarkedIsFinal ==
  [][\A m \in Msgs :
       row[m] = "done" /\ m \notin Queued => m \notin Queued']_vars

\* No lost wakeup: whoever waits in the queue gets out of it, even if no
\* other message ever arrives; a refused prompt, which has no turn_end and
\* perhaps no request to settle, is the one thing that can leave him there.
QueueMovesOn ==
  \A m \in Msgs : m \in Queued ~> m \notin Queued \/ stalled
=============================================================================
