------------------------------- MODULE TurnReply -------------------------------
(***************************************************************************)
(* What people see of the turns of one space: SlackTurnPresenter turns the *)
(* events of a session into Slack messages. A turn opens with a phrase,    *)
(* rewrites it with its progress and ends with its answer, an edit of that *)
(* phrase or a new message. A top-level direct message is one request: its *)
(* card keeps its phrase through every round and takes the answer when the *)
(* prompt settles.                                                         *)
(*                                                                         *)
(* No turn awaits Slack: a handler sends its calls and goes on, so calls   *)
(* are under way while the next events come in, and they land in any order *)
(* or are refused. s is the presenter with its calls under way; a handler  *)
(* is a function from one such record to the next, made of the functions   *)
(* of the methods that it calls.                                           *)
(*                                                                         *)
(* No name of this module is one of SpaceTurns, the turns themselves: one  *)
(* module holds the theorems about both.                                   *)
(***************************************************************************)
EXTENDS Naturals, Sequences, FiniteSets

CONSTANTS
  MaxTurns,    \* bound: messages that open or steer a turn
  MaxRounds,   \* bound: rounds of the agent
  MaxTexts,    \* bound: texts the agent says
  MaxFlights,  \* bound: flushes under way at once when a new line is scheduled
  MaxTroubles, \* bound: empty completions, errors, stops and refused calls, prompts
               \* or sessions
  RetryLimit,  \* STREAM_FINAL_RETRY_LIMIT
  EmptyLimit   \* EMPTY_TURN_LIMIT

ASSUME BoundsAssumption ==
  /\ {MaxTurns, MaxRounds, MaxTexts, MaxTroubles, MaxFlights} \subseteq Nat
  /\ {RetryLimit, EmptyLimit} \subseteq Nat

VARIABLES
  direct,   \* the space is a direct message
  run,      \* of the session: idle | opened | running | between two rounds
  owed,     \* prompts of a direct message still to settle besides that of the turn
  s,        \* the presenter
  shown,    \* what the messages of the space say, in the order they were posted
  said,     \* texts that the agent has said
  landed,   \* history: texts that some message has said
  let_go,   \* history: texts Slack refused for good, or that a newer text, an
            \* error or a newer message of the person has replaced
  raced,    \* history: messages with a closing text and a flush to them under way at
            \* the same time, other than a card's answer and the newest flush
  left,     \* history: messages that a newer turn or steer took the presenter from,
            \* without a closing text and with a line of progress on its way
  spent     \* turns, rounds and troubles so far

replyVars == <<direct, run, owed, s, shown, said, landed, let_go, raced, left, spent>>

\* What a message can say: an answer, a line of progress, or another closing
\* line (a fallback, an error, an outcome summary, "Done.").
Nothing  == 0
Answers  == 1..MaxTexts
Progress == MaxTexts + 1
Note     == MaxTexts + 2

NoUpdate == [ts |-> 0, text |-> Nothing, progress |-> FALSE, final |-> FALSE,
             retries |-> 0, armed |-> FALSE]

ReplyInit ==
  /\ direct \in BOOLEAN
  /\ run = "idle"
  /\ owed = 0
  /\ s = [threaded  |-> FALSE,    \* the turn answers in a thread: no phrase
          delivered |-> FALSE,    \* #turnDelivered
          streaming |-> FALSE,    \* streamingTurns: the turn was steered
          pending   |-> 0,        \* pendingTs
          opening   |-> "none",   \* #phrasePosting: none | phrase | steer
          ticking   |-> FALSE,    \* #progressTimer
          update    |-> NoUpdate, \* #streamUpdate
          orphans   |-> 0,        \* timers of updates that a kept one replaced
          active    |-> FALSE,    \* #requestActive
          reply     |-> Nothing,  \* #bufferedDMReply
          answered  |-> Nothing,  \* #streamedAnswer
          fallback  |-> FALSE,    \* #emptyResponseText
          failed    |-> FALSE,    \* #sawError
          empties   |-> 0,        \* #emptyTurnCount
          churn     |-> FALSE,    \* #churnActive
          flights   |-> {},       \* flushes under way
          edits     |-> {}]       \* other texts under way, or held until a flush lands
  /\ shown = <<>>
  /\ said = 0
  /\ landed = {}
  /\ let_go = {}
  /\ raced = {}
  /\ left = {}
  /\ spent = [turns |-> 0, rounds |-> 0, troubles |-> 0]

-----------------------------------------------------------------------------
(* The methods of the presenter. *)

CancelUpdate(p) == [p EXCEPT !.update = NoUpdate]

Send(p, ts, text) ==
  [p EXCEPT !.edits =
     @ \cup {[ts |-> ts, text |-> text, card |-> FALSE, held |-> FALSE]}]

\* The pending message takes the text; without one it is posted.
ReplaceOrPost(p, text) ==
  Send([CancelUpdate(p) EXCEPT !.ticking = FALSE, !.pending = 0], p.pending, text)

Entry(ts, text, progress) ==
  [NoUpdate EXCEPT !.ts = ts, !.text = text, !.progress = progress, !.armed = TRUE]

\* A line of progress joins the update that waits, and yields to an answer.
ScheduleProgress(p) ==
  IF p.pending # 0 /\ p.update = NoUpdate
  THEN [p EXCEPT !.update = Entry(p.pending, Progress, TRUE)]
  ELSE p

\* MUTANT of ScheduleText: a text that comes before its phrase has landed waits
\* for it.
ScheduleTextOnPhrase(p, text) ==
  IF p.update = NoUpdate
  THEN IF p.pending = 0 THEN p ELSE [p EXCEPT !.update = Entry(p.pending, text, FALSE)]
  ELSE [p EXCEPT !.update.text = text, !.update.progress = FALSE]

\* Streamed text: the latest replaces the one that waits; without a message to
\* rewrite it is posted at once.
ScheduleText(p, text) ==
  IF p.pending = 0 THEN ReplaceOrPost(p, text)
  ELSE IF p.update = NoUpdate THEN [p EXCEPT !.update = Entry(p.pending, text, FALSE)]
  ELSE [p EXCEPT !.update.text = text, !.update.progress = FALSE]

\* The update goes out; a settlement waits for the newest of those under way.
Flush(p) ==
  IF p.update = NoUpdate THEN p
  ELSE [CancelUpdate(p) EXCEPT
          !.flights = {[f EXCEPT !.newest = FALSE] : f \in @}
            \cup {[entry |-> [p.update EXCEPT !.armed = FALSE], newest |-> TRUE,
                   holds |-> {}]}]

\* #postThinkingPhrase: one phrase, taken over by the next turn if it still waits.
PostPhrase(p) ==
  LET armed == [p EXCEPT !.delivered = FALSE]
  IN IF p.threaded THEN p
     ELSE IF p.churn THEN armed
     ELSE IF p.pending # 0 THEN ScheduleProgress(CancelUpdate(armed))
     ELSE IF p.opening = "none" THEN [armed EXCEPT !.opening = "phrase"]
     ELSE armed

\* activateInbound and onQueueDrain
Activate(p, threaded) ==
  LET fresh == [p EXCEPT !.threaded = threaded, !.answered = Nothing, !.fallback = FALSE,
                         !.failed = FALSE, !.active = direct /\ ~threaded, !.reply = Nothing]
  IN IF threaded THEN [fresh EXCEPT !.delivered = FALSE, !.pending = 0]
     ELSE PostPhrase(fresh)

\* A steer has a phrase of its own, the target of the reply from now on.
PostSteerPhrase(p) ==
  IF p.churn \/ p.threaded \/ p.opening # "none" THEN p
  ELSE [CancelUpdate(p) EXCEPT !.pending = 0, !.opening = "steer"]

\* setSteered(true): a request keeps its card.
SetSteered(p) ==
  LET steered == [p EXCEPT !.streaming = TRUE]
  IN IF p.active THEN steered ELSE PostSteerPhrase(steered)

\* A request buffers what it is told until it settles.
Buffer(p) == [CancelUpdate(p) EXCEPT !.ticking = FALSE]

OnMessage(p, text) ==
  LET heard == [p EXCEPT !.delivered = TRUE, !.failed = FALSE, !.empties = 0,
                         !.churn = FALSE]
  IN IF p.active THEN [Buffer(heard) EXCEPT !.reply = text]
     ELSE IF p.streaming THEN ScheduleText([heard EXCEPT !.answered = text], text)
     ELSE ReplaceOrPost(heard, text)

Churns(p) == p.empties >= EmptyLimit /\ ~p.churn

Counted(p) == IF p.empties > EmptyLimit THEN p ELSE [p EXCEPT !.empties = @ + 1]

CountEmptyTurn(p) ==
  IF Churns(p) THEN ReplaceOrPost([Counted(p) EXCEPT !.churn = TRUE], Note)
  ELSE Counted(p)

OnEmpty(p) ==
  LET heard   == [p EXCEPT !.delivered = TRUE]
      counted == CountEmptyTurn([heard EXCEPT !.fallback = TRUE])
  IN IF p.active THEN [Buffer(Counted(heard)) EXCEPT !.churn = @ \/ Churns(p)]
     ELSE IF counted.churn THEN counted
     ELSE IF p.pending = 0 THEN Buffer(counted)
     ELSE Send(Buffer(counted), p.pending, Note)

OnError(p) ==
  LET heard == [p EXCEPT !.delivered = TRUE, !.failed = TRUE]
  IN IF p.active THEN Buffer(heard)
     ELSE ReplaceOrPost([heard EXCEPT !.streaming = FALSE, !.empties = 0,
                                      !.churn = FALSE], Note)

FinalizeStreamUpdate(p) ==
  IF p.update = NoUpdate THEN p
  ELSE Flush([p EXCEPT !.update.final = TRUE, !.update.retries = 0])

\* The pending message takes the closing text; if one of the two is missing, the
\* update that waits goes out as it is.
FinalizeTurn(p, text) ==
  IF text = Nothing \/ p.pending = 0 THEN FinalizeStreamUpdate(p)
  ELSE LET quiet == [p EXCEPT !.ticking = FALSE]
       IN IF p.update = NoUpdate THEN Send(quiet, p.pending, text)
          ELSE FinalizeStreamUpdate(
                 [quiet EXCEPT !.update.text = text, !.update.progress = FALSE])

\* What the turn ends with, if with anything: its streamed answer, its fallback,
\* the text or line that waits, with or without a summary of its outcome, or that
\* summary.
ClosingText(p, how) ==
  IF p.answered # Nothing THEN p.answered
  ELSE IF p.fallback \/ (~p.delivered /\ how = "failed") THEN Note
  ELSE IF p.update.text \in Answers THEN p.update.text
  ELSE IF p.failed \/ how # "plain" THEN Note
  ELSE IF p.update # NoUpdate THEN p.update.text
  ELSE Nothing

OnTurnEnd(p, how) ==
  LET counted == IF p.delivered THEN p ELSE CountEmptyTurn(p)
      ended   == [counted EXCEPT !.failed = @ \/ how = "failed"]
      text    == ClosingText(ended, how)
      told    == IF ~p.streaming /\ how = "stopped" /\ ~p.delivered /\ text # Nothing
                 THEN ReplaceOrPost(ended, text) ELSE ended
  IN IF p.active THEN p
     ELSE [FinalizeTurn(told, text) EXCEPT !.streaming = FALSE]

\* MUTANT of OnRequestSettled: the answer goes out beside the flush.
OnRequestSettledAtOnce(p) ==
  LET text == IF p.reply # Nothing THEN p.reply ELSE Note
  IN IF ~p.active THEN p
     ELSE [Send(CancelUpdate(p), p.pending, text) EXCEPT
             !.edits = {[e EXCEPT !.card = @ \/ e.ts = p.pending] : e \in @},
             !.active = FALSE, !.ticking = FALSE, !.pending = 0, !.reply = Nothing]

\* onRequestSettled: the card takes the answer, behind the newest flush.
OnRequestSettled(p) ==
  LET text    == IF p.reply # Nothing THEN p.reply ELSE Note
      waits   == p.pending # 0 /\ \E f \in p.flights : f.newest
      held    == IF waits THEN {f \in p.flights : f.newest} ELSE {}
  IN IF ~p.active THEN p
     ELSE [CancelUpdate(p) EXCEPT
             !.active = FALSE, !.ticking = FALSE, !.pending = 0, !.reply = Nothing,
             !.edits = @ \cup {[ts |-> p.pending, text |-> text, card |-> TRUE,
                                held |-> waits]},
             !.flights = (@ \ held)
                         \cup {[f EXCEPT !.holds = @ \cup {p.pending}] : f \in held}]

-----------------------------------------------------------------------------
(* History. *)

InHand(p) == {p.reply, p.answered, p.update.text} \ ({Nothing, Progress, Note} \cup landed)

\* Messages with a closing text and a flush to them under way; the answer on a
\* request's card ought to wait for the newest flush.
Crossing(p) ==
  {m \in DOMAIN shown :
     \E f \in p.flights :
       /\ f.entry.ts = m /\ m \notin f.holds
       /\ \/ \E e \in p.edits : e.ts = m /\ (e.card => ~f.newest)
          \/ \E g \in p.flights : g # f /\ g.entry.ts = m /\ g.entry.text # Progress}

Handle(q) == s' = q /\ raced' = raced \cup Crossing(q)

\* The message that the presenter no longer works on, if a line of progress for it
\* still waits or is under way.
Abandoned(q) ==
  {m \in {s.pending} \ {0, q.pending} :
     \E e \in {q.update} \cup {f.entry : f \in q.flights} : e.ts = m /\ e.text = Progress}

\* The turn of a newer message.
Takes(q) == Handle(q) /\ left' = left \cup Abandoned(q)

Replaced(texts) == let_go' = let_go \cup texts

-----------------------------------------------------------------------------
(* The session and the people. *)

Spend(what, bound) == spent[what] < bound /\ spent' = [spent EXCEPT ![what] = @ + 1]

\* A message opens a turn, at once or when the turn before it has ended.
Begin(threaded) ==
  /\ run = "idle" \/ (run = "between" /\ ~s.active)
  /\ Spend("turns", MaxTurns)
  /\ Takes(Activate(IF run = "idle" THEN [s EXCEPT !.streaming = FALSE] ELSE s, threaded))
  /\ Replaced(InHand(s))
  /\ run' = "opened"
  /\ owed' = IF run = "between" /\ direct THEN owed + 1 ELSE owed
  /\ UNCHANGED <<direct, shown, said, landed>>

\* A correction joins the turn; its own prompt settles early.
Corrects(threaded) ==
  /\ run \in {"running", "between"}
  /\ Spend("turns", MaxTurns)
  /\ Takes(SetSteered(Activate(s, threaded)))
  /\ Replaced(InHand(s))
  /\ owed' = IF direct THEN owed + 1 ELSE owed
  /\ UNCHANGED <<direct, run, shown, said, landed>>

\* The session could not be made: the turn is over before it began.
SessionFails ==
  /\ run = "opened" /\ owed = 0
  /\ Spend("troubles", MaxTroubles)
  /\ run' = "idle"
  /\ UNCHANGED <<direct, owed, s, shown, said, landed, let_go, raced, left>>

TurnStart ==
  /\ run \in {"opened", "between"}
  /\ Spend("rounds", MaxRounds)
  /\ run' = "running"
  /\ Handle(PostPhrase(ScheduleProgress(s)))
  /\ UNCHANGED <<direct, owed, shown, said, landed, let_go, left>>

Message ==
  /\ run = "running" /\ said < MaxTexts
  /\ said' = said + 1
  /\ Handle(OnMessage(s, said + 1))
  /\ Replaced(InHand(s))
  /\ UNCHANGED <<direct, run, owed, shown, landed, spent, left>>

Empty ==
  /\ run = "running"
  /\ Spend("troubles", MaxTroubles)
  /\ Handle(OnEmpty(s))
  /\ IF ~s.active /\ Churns(s) THEN Replaced(InHand(s)) ELSE UNCHANGED let_go
  /\ UNCHANGED <<direct, run, owed, shown, said, landed, left>>

SessionError ==
  /\ run = "running"
  /\ Spend("troubles", MaxTroubles)
  /\ Handle(OnError(s))
  /\ IF s.active THEN UNCHANGED let_go ELSE Replaced(InHand(s))
  /\ UNCHANGED <<direct, run, owed, shown, said, landed, left>>

\* A tool step, a plan or a change of the queue, and the tick of the clock.
ProgressMade ==
  /\ run = "running" \/ s.ticking
  /\ Cardinality(s.flights) < MaxFlights
  /\ Handle(ScheduleProgress(s))
  /\ UNCHANGED <<direct, run, owed, shown, said, landed, let_go, spent, left>>

TurnEnd(how) ==
  /\ run = "running"
  /\ run' = "between"
  /\ Handle(OnTurnEnd(s, how))
  /\ IF how = "plain" THEN UNCHANGED spent ELSE Spend("troubles", MaxTroubles)
  /\ IF ~s.active /\ ~s.delivered /\ Churns(s)
     THEN Replaced(InHand(s)) ELSE UNCHANGED let_go
  /\ UNCHANGED <<direct, owed, shown, said, landed, left>>

\* The prompt resolves after a round, or is refused before the first.
PromptSettles ==
  /\ \/ run = "between" /\ UNCHANGED spent
     \/ run = "opened" /\ Spend("troubles", MaxTroubles)
  /\ run' = "idle"
  /\ Handle(OnRequestSettled(s))
  /\ UNCHANGED <<direct, owed, shown, said, landed, let_go, left>>

\* A steer's prompt, or that of a turn that ended before this one began.
OwedSettles ==
  /\ owed > 0
  /\ owed' = owed - 1
  /\ Handle(OnRequestSettled(s))
  /\ UNCHANGED <<direct, run, shown, said, landed, let_go, spent, left>>

-----------------------------------------------------------------------------
(* Timers, and Slack. *)

UpdateDue ==
  /\ s.update.armed
  /\ Handle(Flush(s))
  /\ UNCHANGED <<direct, run, owed, shown, said, landed, let_go, spent, left>>

\* The timer of an update that a kept one has replaced flushes that one.
OrphanDue ==
  /\ s.orphans > 0
  /\ Handle(Flush([s EXCEPT !.orphans = @ - 1]))
  /\ UNCHANGED <<direct, run, owed, shown, said, landed, let_go, spent, left>>

Show(ts, text) ==
  /\ shown' = IF ts = 0 THEN Append(shown, text) ELSE [shown EXCEPT ![ts] = text]
  /\ landed' = landed \cup ({text} \cap Answers)

PhraseLands ==
  /\ s.opening # "none"
  /\ Show(0, Progress)
  /\ LET posted == [s EXCEPT !.opening = "none", !.pending = Len(shown) + 1]
     IN Handle(IF s.opening = "steer" THEN posted
               ELSE IF s.delivered THEN [s EXCEPT !.opening = "none"]
               ELSE ScheduleProgress([posted EXCEPT !.ticking = TRUE]))
  /\ UNCHANGED <<direct, run, owed, said, let_go, spent, left>>

PhraseFails ==
  /\ s.opening # "none"
  /\ Spend("troubles", MaxTroubles)
  /\ Handle([s EXCEPT !.opening = "none"])
  /\ UNCHANGED <<direct, run, owed, shown, said, landed, let_go, left>>

EditLands ==
  \E e \in s.edits :
    /\ ~e.held
    /\ Show(e.ts, e.text)
    /\ Handle([s EXCEPT !.edits = @ \ {e}])
    /\ UNCHANGED <<direct, run, owed, said, let_go, spent, left>>

EditFails ==
  \E e \in s.edits :
    /\ ~e.held
    /\ Spend("troubles", MaxTroubles)
    /\ Handle([s EXCEPT !.edits = @ \ {e}])
    /\ Replaced({e.text} \cap Answers)
    /\ UNCHANGED <<direct, run, owed, shown, said, landed, left>>

\* A flush is over: the settlements that waited for it go out.
Over(p, f) ==
  [p EXCEPT !.flights = @ \ {f},
            !.edits =
              {IF e.ts \in f.holds THEN [e EXCEPT !.held = FALSE] ELSE e : e \in @}]

FlushLands(awaited) ==
  \E f \in s.flights :
    /\ awaited = (f.holds # {} \/ f.entry.text \in Answers)
    /\ Show(f.entry.ts, f.entry.text)
    /\ Handle(Over(s, f))
    /\ UNCHANGED <<direct, run, owed, said, let_go, spent, left>>

\* A refused update is kept, over a newer one too; only a final one tries again
\* by itself, within its limit.
Kept(p, entry) ==
  IF entry.final /\ entry.retries >= RetryLimit THEN p
  ELSE [p EXCEPT !.update = [entry EXCEPT !.retries = IF entry.final THEN @ + 1 ELSE @,
                                          !.armed = entry.final],
                 !.orphans = IF p.update.armed THEN @ + 1 ELSE @]

FlushFails ==
  \E f \in s.flights :
    /\ Spend("troubles", MaxTroubles)
    /\ s' = Over(Kept(s, f.entry), f)
    /\ Replaced(IF f.entry.final /\ f.entry.retries >= RetryLimit
                THEN {f.entry.text} \cap Answers ELSE {})
    /\ raced' = raced \cup f.holds
    /\ UNCHANGED <<direct, run, owed, shown, said, landed, left>>

ReplyNext ==
  \/ \E threaded \in BOOLEAN : Begin(threaded) \/ Corrects(threaded)
  \/ SessionFails \/ TurnStart \/ Message \/ Empty \/ SessionError \/ ProgressMade
  \/ \E how \in {"plain", "failed", "partial", "stopped"} : TurnEnd(how)
  \/ PromptSettles \/ OwedSettles
  \/ UpdateDue \/ OrphanDue
  \/ PhraseLands \/ PhraseFails \/ EditLands \/ EditFails \/ FlushFails
  \/ \E awaited \in BOOLEAN : FlushLands(awaited)

ReplySpec == ReplyInit /\ [][ReplyNext]_replyVars

\* Turns end, prompts settle, timers fire and Slack answers the calls, those
\* that carry an answer or that an answer waits for at the latest.
Progresses ==
  \/ TurnEnd("plain") \/ PromptSettles \/ OwedSettles
  \/ OrphanDue
  \/ PhraseLands \/ EditLands \/ FlushLands(TRUE)

ReplyFairSpec == ReplySpec /\ WF_replyVars(Progresses) /\ WF_replyVars(UpdateDue)

-----------------------------------------------------------------------------
(* Properties. *)

\* Messages whose answer waits for a flush to be over.
Awaited == UNION {f.holds : f \in s.flights}

\* No line of progress covers an answer ("a stale progress line or a late tick
\* must never overwrite what actually landed"), except on the message that the
\* presenter works on, or ahead of the answer that is to close it; on one that a
\* newer turn took it from with such a line on its way; and where a flush and a
\* closing text were under way together: a channel's reply does not wait for that
\* flush, a request's answer waits for the newest one.
AnswerStays ==
  [][\A m \in DOMAIN shown :
       shown[m] \in Answers /\ shown'[m] = Progress
         => m \in raced \cup left \cup Awaited \cup {s.pending}]_replyVars

\* Whatever the agent says is shown in the end, even if it comes before its
\* phrase, during a steer or after a refused flush, unless Slack refuses its
\* last carrier or something newer has replaced it.
AnswerShown ==
  \A a \in Answers : said >= a ~> a \in landed \cup let_go
=============================================================================
