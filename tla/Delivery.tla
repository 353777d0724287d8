------------------------------- MODULE Delivery -------------------------------
(***************************************************************************)
(* The approval of a finished git item. The job body opens the pull        *)
(* request, appends the pending marker and polls the audit trail for a     *)
(* decision (deliver and waitForDeliveryApproval of                        *)
(* src/src/worker/job-bodies.ts); the server announces each marker with a  *)
(* prompt and records that it did (src/src/server/services/                *)
(* delivery-poller.ts); a click records who decided what and rewrites the  *)
(* prompt (src/src/server/adapters/delivery-router.ts). The two processes  *)
(* meet in the item's row and in the append-only audit trail only.         *)
(*                                                                         *)
(* The reactive core that runs the announcement is ReactiveCore; here it   *)
(* is a row that is reacted to until a reaction returns, at most           *)
(* MaxAttempts times, and again after a restart. Every await between a     *)
(* read and a write is a point where other steps may come in.              *)
(***************************************************************************)
EXTENDS Naturals, Sequences, FiniteSets

CONSTANTS
  Items,        \* git work items
  People,       \* members of the space who can click
  MaxAttempts,  \* reactions to a row before it is dead-lettered
  MaxClicks,    \* bound: clicks past their guard at the same time
  MaxFaults     \* bound: refused posts, storage faults and server deaths

ASSUME AttemptsAssumption == MaxAttempts \in Nat \ {0}
ASSUME FaultsAssumption == MaxFaults \in Nat
ASSUME ClicksAssumption == MaxClicks \in Nat
ASSUME NobodyAssumption == "none" \notin People

Decision == [approved : BOOLEAN, by : People]

\* What a prompt tells before anyone decided: its buttons are there.
Open == [approved |-> FALSE, by |-> "none"]

VARIABLES
  state,     \* state of the item's row
  approval,  \* the approver the row records, or "none"
  runner,    \* where the item's job body is
  verdict,   \* what the wait returned: an approver, or "none" for no
  row,       \* the pending marker's way through the reactive core
  tries,     \* failed reactions to it since the server started
  requested, \* items with a delivery.requested row
  resolved,  \* the delivery.resolved rows of an item, oldest first
  prompts,   \* the prompts posted for an item: Open, or what they tell
  clicks,    \* clicks that passed their guard
  rewrites,  \* rewrites on their way to Slack
  again,     \* history: posts that may have landed without being recorded
  broken,    \* history: items whose job body died or threw
  faults

itemVars   == <<state, approval, runner, verdict>>
askVars    == <<row, tries, requested, again>>
answerVars == <<resolved, clicks, rewrites>>
vars == <<itemVars, askVars, answerVars, prompts, broken, faults>>

Click == [item : Items, prompt : Nat, decision : Decision]

TypeOK ==
  /\ state \in [Items -> {"working", "review", "done", "blocked", "aborted"}]
  /\ approval \in [Items -> People \cup {"none"}]
  /\ runner \in [Items -> {"pushed", "waiting", "unanswered", "decided",
                         "reviewing", "over"}]
  /\ verdict \in [Items -> People \cup {"none"}]
  /\ row \in [Items -> {"none", "due", "checked", "posted", "recorded", "consumed", "dead"}]
  /\ tries \in [Items -> 0..MaxAttempts]
  /\ requested \subseteq Items
  /\ resolved \in [Items -> Seq(Decision)]
  /\ prompts \in [Items -> Seq({Open} \cup Decision)]
  /\ clicks \subseteq Click
  /\ rewrites \subseteq Click
  /\ again \in [Items -> Nat]
  /\ broken \subseteq Items
  /\ faults \in 0..MaxFaults

\* The pull request of each item has just been opened.
Init ==
  /\ state = [i \in Items |-> "working"]
  /\ approval = [i \in Items |-> "none"]
  /\ runner = [i \in Items |-> "pushed"]
  /\ verdict = [i \in Items |-> "none"]
  /\ row = [i \in Items |-> "none"]
  /\ tries = [i \in Items |-> 0]
  /\ requested = {}
  /\ resolved = [i \in Items |-> <<>>]
  /\ prompts = [i \in Items |-> <<>>]
  /\ clicks = {}
  /\ rewrites = {}
  /\ again = [i \in Items |-> 0]
  /\ broken = {}
  /\ faults = 0
-----------------------------------------------------------------------------
(* The job body, in the executor's sandbox *)

\* deliver: the pending marker, which the server reads.
RequestApproval(i) ==
  /\ runner[i] = "pushed"
  /\ runner' = [runner EXCEPT ![i] = "waiting"]
  /\ row' = [row EXCEPT ![i] = "due"]
  /\ UNCHANGED <<state, approval, verdict, tries, requested, again, answerVars,
                 prompts, broken, faults>>

\* MUTANT of Recorded: the newest row wins.
RecordedLast(i) == resolved[i][Len(resolved[i])]

\* The pages come newest first and the last match is kept: the oldest row.
Recorded(i) == Head(resolved[i])

PollDecision(i) ==
  /\ runner[i] = "waiting"
  /\ resolved[i] # <<>>
  /\ runner' = [runner EXCEPT ![i] = "decided"]
  /\ verdict' = [verdict EXCEPT ![i] =
                   IF Recorded(i).approved THEN Recorded(i).by ELSE "none"]
  /\ UNCHANGED <<state, approval, askVars, answerVars, prompts, broken, faults>>

\* MUTANT of EmptyRead: the deadline is looked at before the trail is read.
EmptyReadUnread(i) ==
  /\ runner[i] = "waiting"
  /\ runner' = [runner EXCEPT ![i] = "unanswered"]
  /\ UNCHANGED <<state, approval, verdict, askVars, answerVars, prompts, broken,
                 faults>>

\* The pages are awaited one by one: this read has no decision in it, and
\* will not have one that is recorded from now on.
EmptyRead(i) ==
  /\ runner[i] = "waiting"
  /\ resolved[i] = <<>>
  /\ runner' = [runner EXCEPT ![i] = "unanswered"]
  /\ UNCHANGED <<state, approval, verdict, askVars, answerVars, prompts, broken,
                 faults>>

\* The deadline is looked at after the read, whatever came in meanwhile.
WaitExpires(i) ==
  /\ runner[i] = "unanswered"
  /\ runner' = [runner EXCEPT ![i] = "decided"]
  /\ UNCHANGED <<state, approval, verdict, askVars, answerVars, prompts, broken,
                 faults>>

\* There is time left: sleep and read again.
PollAgain(i) ==
  /\ runner[i] = "unanswered"
  /\ runner' = [runner EXCEPT ![i] = "waiting"]
  /\ UNCHANGED <<state, approval, verdict, askVars, answerVars, prompts, broken,
                 faults>>

\* transitionWorkItem throws when the row is not where the caller says.
Moved(i, from, to) ==
  IF state[i] = from
    THEN /\ state' = [state EXCEPT ![i] = to]
         /\ broken' = broken
    ELSE /\ broken' = broken \cup {i}
         /\ state' = state

LandBlocked(i) ==
  /\ runner[i] = "decided"
  /\ verdict[i] = "none"
  /\ Moved(i, "working", "blocked")
  /\ runner' = [runner EXCEPT ![i] = "over"]
  /\ UNCHANGED <<approval, verdict, askVars, answerVars, prompts, faults>>

EnterReview(i) ==
  /\ runner[i] = "decided"
  /\ verdict[i] # "none"
  /\ Moved(i, "working", "review")
  /\ runner' = [runner EXCEPT ![i] = IF state[i] = "working" THEN "reviewing"
                                                            ELSE "over"]
  /\ approval' = [approval EXCEPT ![i] = IF state[i] = "working" THEN verdict[i] ELSE @]
  /\ UNCHANGED <<verdict, askVars, answerVars, prompts, faults>>

Finish(i) ==
  /\ runner[i] = "reviewing"
  /\ Moved(i, "review", "done")
  /\ runner' = [runner EXCEPT ![i] = "over"]
  /\ UNCHANGED <<approval, verdict, askVars, answerVars, prompts, faults>>

\* The push, the cleanup, the RPC to the store or the sandbox itself fails.
JobBreaks(i) ==
  /\ runner[i] # "over"
  /\ runner' = [runner EXCEPT ![i] = "over"]
  /\ broken' = broken \cup {i}
  /\ UNCHANGED <<state, approval, verdict, askVars, answerVars, prompts, faults>>

\* The supervisor's repair, which moves only an item that is at working.
Unstick(i) ==
  /\ runner[i] = "over"
  /\ state[i] = "working"
  /\ state' = [state EXCEPT ![i] = "blocked"]
  /\ UNCHANGED <<approval, runner, verdict, askVars, answerVars, prompts, broken,
                 faults>>

\* A person cancels the item meanwhile.
Cancel(i) ==
  /\ state[i] \in {"working", "review"}
  /\ state' = [state EXCEPT ![i] = "aborted"]
  /\ UNCHANGED <<approval, runner, verdict, askVars, answerVars, prompts, broken,
                 faults>>
-----------------------------------------------------------------------------
(* The server announces the marker *)

\* MUTANT of CheckRequested: every reaction posts.
CheckNothing(i) ==
  /\ row[i] = "due"
  /\ row' = [row EXCEPT ![i] = "checked"]
  /\ UNCHANGED <<itemVars, tries, requested, again, answerVars, prompts, broken,
                 faults>>

\* announcePendingDelivery: nothing to do for an item that has its row.
CheckRequested(i) ==
  /\ row[i] = "due"
  /\ row' = [row EXCEPT ![i] = IF i \in requested THEN "recorded" ELSE "checked"]
  /\ UNCHANGED <<itemVars, tries, requested, again, answerVars, prompts, broken,
                 faults>>

PostPrompt(i) ==
  /\ row[i] = "checked"
  /\ row' = [row EXCEPT ![i] = "posted"]
  /\ prompts' = [prompts EXCEPT ![i] = Append(@, Open)]
  /\ UNCHANGED <<itemVars, tries, requested, again, answerVars, broken, faults>>

RecordRequest(i) ==
  /\ row[i] = "posted"
  /\ row' = [row EXCEPT ![i] = "recorded"]
  /\ requested' = requested \cup {i}
  /\ UNCHANGED <<itemVars, tries, again, answerVars, prompts, broken, faults>>

Consume(i) ==
  /\ row[i] = "recorded"
  /\ row' = [row EXCEPT ![i] = "consumed"]
  /\ UNCHANGED <<itemVars, tries, requested, again, answerVars, prompts, broken,
                 faults>>

\* MUTANT of Retried: the row is passed although nobody was asked.
RetriedNever(i) ==
  /\ tries' = [tries EXCEPT ![i] = @ + 1]
  /\ row' = [row EXCEPT ![i] = "consumed"]
  /\ faults' = faults + 1

\* A reaction that throws is retried, and dead-lettered at the limit.
Retried(i) ==
  /\ tries' = [tries EXCEPT ![i] = @ + 1]
  /\ row' = [row EXCEPT ![i] = IF tries[i] + 1 >= MaxAttempts THEN "dead" ELSE "due"]
  /\ faults' = faults + 1

\* Slack refuses the post, or takes it and its answer is lost.
PostThrows(i) ==
  /\ row[i] = "checked"
  /\ faults < MaxFaults
  /\ Retried(i)
  /\ \/ UNCHANGED <<prompts, again>>
     \/ /\ prompts' = [prompts EXCEPT ![i] = Append(@, Open)]
        /\ again' = [again EXCEPT ![i] = @ + 1]
  /\ UNCHANGED <<itemVars, requested, answerVars, broken>>

\* The audit trail is read before the post and written after it.
RecordThrows(i) ==
  /\ row[i] \in {"due", "posted"}
  /\ faults < MaxFaults
  /\ Retried(i)
  /\ again' = [again EXCEPT ![i] = IF row[i] = "posted" THEN @ + 1 ELSE @]
  /\ UNCHANGED <<itemVars, requested, answerVars, prompts, broken>>
-----------------------------------------------------------------------------
(* People click *)

\* resolveDeliveryAction's guard. A click on a prompt that is not recorded
\* yet, or whose item has a decision, changes nothing.
ClickDelivery(c) ==
  /\ c.prompt \in DOMAIN prompts[c.item]
  /\ prompts[c.item][c.prompt] = Open
  /\ c.item \in requested
  /\ resolved[c.item] = <<>>
  /\ Cardinality(clicks) < MaxClicks
  /\ clicks' = clicks \cup {c}
  /\ UNCHANGED <<itemVars, askVars, resolved, rewrites, prompts, broken, faults>>

SettleClick(c) ==
  /\ c \in clicks
  /\ clicks' = clicks \ {c}
  /\ resolved' = [resolved EXCEPT ![c.item] = Append(@, c.decision)]
  /\ rewrites' = rewrites \cup {c}
  /\ UNCHANGED <<itemVars, askVars, prompts, broken, faults>>

\* The row cannot be written: the decision is lost, its buttons stay.
SettleThrows(c) ==
  /\ c \in clicks
  /\ faults < MaxFaults
  /\ clicks' = clicks \ {c}
  /\ faults' = faults + 1
  /\ UNCHANGED <<itemVars, askVars, resolved, rewrites, prompts, broken>>

\* Best effort: the prompt that was clicked, and no other, is rewritten.
RewritePrompt(c) ==
  /\ c \in rewrites
  /\ rewrites' = rewrites \ {c}
  /\ \/ prompts' = [prompts EXCEPT ![c.item][c.prompt] = c.decision]
     \/ UNCHANGED prompts
  /\ UNCHANGED <<itemVars, askVars, resolved, clicks, broken, faults>>
-----------------------------------------------------------------------------
\* The server dies: unconsumed markers are replayed, their tries forgotten.
ServerDies ==
  /\ faults < MaxFaults
  /\ faults' = faults + 1
  /\ row' = [i \in Items |-> IF row[i] \in {"checked", "posted", "recorded"}
                               THEN "due" ELSE row[i]]
  /\ again' = [i \in Items |-> IF row[i] = "posted" THEN again[i] + 1 ELSE again[i]]
  /\ tries' = [i \in Items |-> 0]
  /\ clicks' = {}
  /\ rewrites' = {}
  /\ UNCHANGED <<itemVars, requested, resolved, prompts, broken>>

ClicksOn(i) == [item : {i}, prompt : DOMAIN prompts[i], decision : Decision]

RunnerStep(i) ==
  \/ RequestApproval(i) \/ PollDecision(i)
  \/ EmptyRead(i) \/ WaitExpires(i) \/ PollAgain(i)
  \/ LandBlocked(i) \/ EnterReview(i) \/ Finish(i)

AnnounceStep(i) ==
  CheckRequested(i) \/ PostPrompt(i) \/ RecordRequest(i) \/ Consume(i)

Next ==
  \/ \E i \in Items :
       \/ RunnerStep(i) \/ JobBreaks(i) \/ Unstick(i) \/ Cancel(i)
       \/ AnnounceStep(i) \/ PostThrows(i) \/ RecordThrows(i)
       \/ \E c \in ClicksOn(i) : ClickDelivery(c)
  \/ \E c \in clicks : SettleClick(c) \/ SettleThrows(c)
  \/ \E c \in rewrites : RewritePrompt(c)
  \/ ServerDies

Spec == Init /\ [][Next]_vars

\* The executor and the server take the steps they can; time passes for a
\* wait that nobody ends. Nobody has to click or to cancel.
Fairness ==
  \A i \in Items :
    WF_vars(RunnerStep(i)) /\ WF_vars(Unstick(i)) /\ WF_vars(AnnounceStep(i))

FairSpec == Spec /\ Fairness
-----------------------------------------------------------------------------
(* Properties *)

\* An item is delivered on the first decision its space recorded, and names
\* who took it: not on a later one of two people who clicked at the same
\* time, not on the word of a wait that expired, and not without any.
DeliveredOnFirstDecision ==
  \A i \in Items :
    /\ state[i] \in {"review", "done"} => approval[i] # "none"
    /\ approval[i] # "none" =>
         /\ resolved[i] # <<>>
         /\ Head(resolved[i]) = [approved |-> TRUE, by |-> approval[i]]

\* The space is asked once, and once more for each time that a post was not
\* recorded: its answer or the row after it was lost, or the server died in
\* between. Only a marker whose request is on record is replayed without
\* asking. (delivery-poller.ts 10-11 and 110-112 promise "exactly once per
\* item", also over a restart, which is more than the code does.)
AskedOnce == \A i \in Items : Len(prompts[i]) <= 1 + again[i]

\* An approval on record while the job sleeps between two reads of the trail,
\* or before its first one, delivers the item, unless the item is cancelled
\* or its job breaks. One that is recorded during a read may be missed by it,
\* and is denied when the deadline passes before that read ends.
ApprovalDelivers ==
  \A i \in Items :
    (runner[i] = "waiting" /\ resolved[i] # <<>> /\ Head(resolved[i]).approved)
      ~> (state[i] \in {"done", "aborted"} \/ i \in broken)

\* Every marker leads to a recorded prompt or to a dead letter an operator
\* can see, whatever dies in between.
EveryMarkerIsAnnounced ==
  \A i \in Items : row[i] # "none" ~> (i \in requested \/ row[i] = "dead")
=============================================================================
