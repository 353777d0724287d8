----------------------------- MODULE DeliveryProofs -----------------------------
(***************************************************************************)
(* Theorems about the two places where people decide on a work item. About *)
(* Delivery, for any items and people, any number of clicks at the same    *)
(* time, of reactions and of faults: three invariants, each inductive next *)
(* to the types: what a marker may still try, what a job body knows of the *)
(* decision it goes by, and how many prompts there are for what is on      *)
(* record. And, at the end, about WorkReview, the continuation of an item  *)
(* that ended blocked, whose names do not meet those of Delivery.          *)
(***************************************************************************)
EXTENDS Delivery, WorkReview, TLAPS, SequenceTheorems

\* A marker that is not settled may be reacted to again; one that the job body
\* has not appended has no row.
RowInv ==
  \A i \in Items :
    /\ row[i] \notin {"consumed", "dead"} => tries[i] < MaxAttempts
    /\ runner[i] = "pushed" => row[i] = "none"

TypeInv == TypeOK /\ RowInv

\* Nobody's decision is known before the wait is over; a verdict is the first
\* decision in the trail, an approval the verdict, a delivery approved.
DecisionInv ==
  \A i \in Items :
    /\ runner[i] \in {"pushed", "waiting", "unanswered"} => verdict[i] = "none" /\ approval[i] = "none"
    /\ verdict[i] # "none" =>
         resolved[i] # <<>> /\ Head(resolved[i]) = [approved |-> TRUE, by |-> verdict[i]]
    /\ approval[i] # "none" => approval[i] = verdict[i]
    /\ state[i] \in {"review", "done"} => approval[i] # "none"

\* A prompt is posted for an item without a recorded one only; until it is
\* recorded, each earlier prompt is one whose record was lost.
AskInv ==
  \A i \in Items :
    /\ row[i] \in {"checked", "posted"} => i \notin requested
    /\ i \notin requested /\ row[i] # "posted" => Len(prompts[i]) <= again[i]
    /\ Len(prompts[i]) <= 1 + again[i]
-----------------------------------------------------------------------------
(* Sequences *)

LEMMA AppendFacts ==
  ASSUME NEW S, NEW s \in Seq(S), NEW x \in S
  PROVE  /\ Append(s, x) \in Seq(S)
         /\ Append(s, x) # <<>>
         /\ Len(Append(s, x)) = Len(s) + 1
         /\ s # <<>> => Head(Append(s, x)) = Head(s)
  OBVIOUS

\* Rewriting an element neither adds nor removes one.
LEMMA RewriteFacts ==
  ASSUME NEW S, NEW s \in Seq(S), NEW n, NEW x \in S
  PROVE  /\ [s EXCEPT ![n] = x] \in Seq(S)
         /\ Len([s EXCEPT ![n] = x]) = Len(s)
<1> DEFINE t == [s EXCEPT ![n] = x]
<1>1. s \in [1..Len(s) -> S] /\ Len(s) \in Nat OBVIOUS
<1>2. t \in [1..Len(s) -> S] BY <1>1
<1> QED BY <1>1, <1>2

LEMMA HeadDecision ==
  ASSUME NEW s \in Seq(Decision), s # <<>>
  PROVE  /\ Head(s) \in Decision
         /\ Head(s).by \in People
         /\ Head(s).approved => Head(s) = [approved |-> TRUE, by |-> Head(s).by]
<1>1. Head(s) \in Decision OBVIOUS
<1> QED BY <1>1 DEF Decision
-----------------------------------------------------------------------------
(* Types *)

LEMMA InitInv == Init => TypeInv /\ DecisionInv /\ AskInv
  BY AttemptsAssumption, FaultsAssumption
  DEF Init, TypeInv, TypeOK, RowInv, DecisionInv, AskInv

\* What RowInv needs of the types.
RowTypes ==
  /\ row \in [Items -> {"none", "due", "checked", "posted", "recorded", "consumed", "dead"}]
  /\ runner \in [Items -> {"pushed", "waiting", "unanswered", "decided", "reviewing", "over"}]
  /\ tries \in [Items -> Nat]

LEMMA RowStep ==
  ASSUME RowTypes, RowInv, MaxAttempts \in Nat \ {0}, [Next]_vars
  PROVE  RowInv'
<1> USE DEF RowTypes, RowInv
<1>1. ASSUME NEW i \in Items, RequestApproval(i) PROVE RowInv'
  BY <1>1 DEF RequestApproval
<1>2. ASSUME NEW i \in Items,
             \/ PollDecision(i) \/ EmptyRead(i) \/ WaitExpires(i) \/ PollAgain(i) \/ LandBlocked(i) \/ EnterReview(i)
             \/ Finish(i) \/ JobBreaks(i)
      PROVE RowInv'
  <2>1. row' = row /\ tries' = tries
    BY <1>2 DEF PollDecision, EmptyRead, WaitExpires, PollAgain, LandBlocked, EnterReview, Finish, JobBreaks, askVars
  <2>2. \A j \in Items : runner'[j] = "pushed" => runner[j] = "pushed"
    BY <1>2 DEF PollDecision, EmptyRead, WaitExpires, PollAgain, LandBlocked, EnterReview, Finish, JobBreaks
  <2> QED BY <2>1, <2>2
<1>3. ASSUME NEW i \in Items, AnnounceStep(i) PROVE RowInv'
  <2>1. /\ row[i] \notin {"none", "consumed", "dead"}
        /\ \A j \in Items \ {i} : row'[j] = row[j]
        /\ tries' = tries /\ runner' = runner
    BY <1>3 DEF AnnounceStep, CheckRequested, PostPrompt, RecordRequest, Consume, itemVars
  <2> QED BY <2>1
<1>4. ASSUME NEW i \in Items, PostThrows(i) \/ RecordThrows(i) PROVE RowInv'
  <2>1. row[i] \notin {"none", "consumed", "dead"} /\ Retried(i) /\ runner' = runner
    BY <1>4 DEF PostThrows, RecordThrows, itemVars
  <2>2. /\ \A j \in Items \ {i} : row'[j] = row[j] /\ tries'[j] = tries[j]
        /\ tries'[i] = tries[i] + 1
        /\ row'[i] = IF tries[i] + 1 >= MaxAttempts THEN "dead" ELSE "due"
    BY <2>1 DEF Retried
  <2> QED BY <2>1, <2>2
<1>5. CASE ServerDies BY <1>5 DEF ServerDies, itemVars
<1>6. CASE UNCHANGED <<row, runner, tries>> BY <1>6
<1>7. ASSUME \/ \E i \in Items : \/ Unstick(i) \/ Cancel(i)
                                 \/ \E c \in ClicksOn(i) : ClickDelivery(c)
             \/ \E c \in clicks : SettleClick(c) \/ SettleThrows(c)
             \/ \E c \in rewrites : RewritePrompt(c)
             \/ UNCHANGED vars
      PROVE UNCHANGED <<row, runner, tries>>
  BY <1>7 DEF Unstick, Cancel, ClickDelivery, SettleClick, SettleThrows, RewritePrompt, vars,
       itemVars, askVars
<1> QED BY <1>1, <1>2, <1>3, <1>4, <1>5, <1>6, <1>7 DEF Next, RunnerStep

LEMMA TypeOKStep ==
  ASSUME TypeInv, [Next]_vars
  PROVE  TypeOK'
<1> USE AttemptsAssumption, FaultsAssumption DEF TypeInv
<1>1. ASSUME NEW i \in Items, RequestApproval(i) \/ EmptyRead(i) \/ WaitExpires(i) \/ PollAgain(i) \/ JobBreaks(i)
      PROVE TypeOK'
  BY <1>1 DEF TypeOK, RequestApproval, EmptyRead, WaitExpires, PollAgain, JobBreaks, askVars, answerVars
<1>2. ASSUME NEW i \in Items, LandBlocked(i) \/ EnterReview(i) \/ Finish(i) PROVE TypeOK'
  <2>1. /\ state' \in [Items -> {"working", "review", "done", "blocked", "aborted"}]
        /\ broken' \subseteq Items
    <3>1. PICK to \in {"review", "done", "blocked"} :
            \/ state' = [state EXCEPT ![i] = to] /\ broken' = broken
            \/ state' = state /\ broken' = broken \cup {i}
      BY <1>2 DEF LandBlocked, EnterReview, Finish, Moved
    <3>2. /\ state \in [Items -> {"working", "review", "done", "blocked", "aborted"}]
          /\ broken \subseteq Items
      BY DEF TypeOK
    <3> QED BY <3>1, <3>2
  <2>2. approval' \in [Items -> People \cup {"none"}]
    BY <1>2 DEF TypeOK, LandBlocked, EnterReview, Finish
  <2>3. runner' \in [Items -> {"pushed", "waiting", "unanswered", "decided", "reviewing", "over"}]
    BY <1>2 DEF TypeOK, LandBlocked, EnterReview, Finish
  <2>4. UNCHANGED <<verdict, askVars, answerVars, prompts, faults>>
    BY <1>2 DEF LandBlocked, EnterReview, Finish
  <2> QED BY <2>1, <2>2, <2>3, <2>4 DEF TypeOK, askVars, answerVars
<1>3. ASSUME NEW i \in Items, Unstick(i) \/ Cancel(i) PROVE TypeOK'
  BY <1>3 DEF TypeOK, Unstick, Cancel, askVars, answerVars
<1>4. ASSUME NEW i \in Items, PollDecision(i) PROVE TypeOK'
  <2>1. Head(resolved[i]).by \in People BY <1>4, HeadDecision DEF TypeOK, PollDecision
  <2> QED BY <1>4, <2>1 DEF TypeOK, PollDecision, Recorded, askVars, answerVars
<1>5. ASSUME NEW i \in Items, CheckRequested(i) \/ RecordRequest(i) \/ Consume(i)
      PROVE TypeOK'
  BY <1>5 DEF TypeOK, CheckRequested, RecordRequest, Consume, itemVars, answerVars
<1>6. ASSUME NEW i \in Items, Append(prompts[i], Open) \in Seq({Open} \cup Decision),
             PostPrompt(i)
      PROVE TypeOK'
  BY <1>6 DEF TypeOK, PostPrompt, itemVars, answerVars
<1>7. ASSUME NEW i \in Items, Append(prompts[i], Open) \in Seq({Open} \cup Decision),
             PostThrows(i) \/ RecordThrows(i)
      PROVE TypeOK'
  <2>1. /\ row[i] \notin {"consumed", "dead"} /\ Retried(i) /\ faults < MaxFaults
        /\ UNCHANGED <<itemVars, requested, answerVars, broken>>
        /\ prompts' = prompts \/ prompts' = [prompts EXCEPT ![i] = Append(@, Open)]
        /\ again' = again \/ again' = [again EXCEPT ![i] = @ + 1]
    BY <1>7 DEF TypeOK, PostThrows, RecordThrows
  <2>2. tries[i] + 1 \in 0..MaxAttempts /\ faults + 1 \in 0..MaxFaults
    BY <2>1 DEF TypeOK, RowInv
  <2>3. /\ tries' \in [Items -> 0..MaxAttempts]
        /\ row' \in [Items -> {"none", "due", "checked", "posted", "recorded", "consumed", "dead"}]
        /\ faults' \in 0..MaxFaults
    BY <2>1, <2>2 DEF TypeOK, Retried
  <2>4. again' \in [Items -> Nat]
    <3>1. again \in [Items -> Nat] /\ again[i] + 1 \in Nat BY DEF TypeOK
    <3> QED BY <2>1, <3>1
  <2>5. prompts' \in [Items -> Seq({Open} \cup Decision)] BY <1>7, <2>1 DEF TypeOK
  <2> QED BY <2>1, <2>3, <2>4, <2>5 DEF TypeOK, itemVars, answerVars
<1>8. ASSUME NEW i \in Items PROVE Append(prompts[i], Open) \in Seq({Open} \cup Decision)
  BY AppendFacts DEF TypeOK
<1>9. ASSUME NEW i \in Items, NEW c \in ClicksOn(i), ClickDelivery(c) PROVE TypeOK'
  <2>1. c \in Click BY DEF ClicksOn, Click, TypeOK
  <2> QED BY <1>9, <2>1 DEF TypeOK, ClickDelivery, itemVars, askVars
<1>10. ASSUME NEW c \in clicks, SettleClick(c) PROVE TypeOK'
  <2>1. c \in Click /\ c.item \in Items /\ c.decision \in Decision BY DEF TypeOK, Click
  <2>2. Append(resolved[c.item], c.decision) \in Seq(Decision)
    BY <2>1, AppendFacts DEF TypeOK
  <2>3. resolved' \in [Items -> Seq(Decision)] BY <1>10, <2>1, <2>2 DEF TypeOK, SettleClick
  <2> QED BY <1>10, <2>1, <2>3 DEF TypeOK, SettleClick, itemVars, askVars
<1>11. ASSUME NEW c \in clicks, SettleThrows(c) PROVE TypeOK'
  BY <1>11 DEF TypeOK, SettleThrows, itemVars, askVars
<1>12. ASSUME NEW c \in rewrites, RewritePrompt(c) PROVE TypeOK'
  <2>1. c \in Click /\ c.item \in Items /\ c.decision \in Decision BY DEF TypeOK, Click
  <2>2. [prompts[c.item] EXCEPT ![c.prompt] = c.decision] \in Seq({Open} \cup Decision)
    BY <2>1, RewriteFacts DEF TypeOK
  <2> QED BY <1>12, <2>1, <2>2 DEF TypeOK, RewritePrompt, itemVars, askVars
<1>13. CASE ServerDies
  BY <1>13 DEF TypeOK, ServerDies, itemVars
<1>14. CASE UNCHANGED vars
  BY <1>14 DEF TypeOK, vars, itemVars, askVars, answerVars
<1> QED BY <1>1, <1>2, <1>3, <1>4, <1>5, <1>6, <1>7, <1>8, <1>9, <1>10, <1>11, <1>12, <1>13,
           <1>14
        DEF Next, RunnerStep, AnnounceStep

LEMMA TypeStep == TypeInv /\ [Next]_vars => TypeInv'
<1> SUFFICES ASSUME TypeInv, [Next]_vars PROVE RowInv'
  BY TypeOKStep DEF TypeInv
<1>1. tries \in [Items -> 0..MaxAttempts] /\ MaxAttempts \in Nat \ {0}
  BY AttemptsAssumption DEF TypeInv, TypeOK
<1>2. tries \in [Items -> Nat] BY <1>1
<1>3. RowTypes BY <1>2 DEF TypeInv, TypeOK, RowTypes
<1> QED BY <1>1, <1>3, RowStep DEF TypeInv

\* The variables have their types, and a marker is never tried beyond its limit.
THEOREM TypeCorrect == Spec => []TypeOK
<1>1. Init => TypeInv BY InitInv
<1>2. TypeInv => TypeOK BY DEF TypeInv
<1> QED BY <1>1, <1>2, TypeStep, PTL DEF Spec
-----------------------------------------------------------------------------
(* The decision *)

LEMMA DecisionStep == TypeOK /\ DecisionInv /\ [Next]_vars => DecisionInv'
<1> SUFFICES ASSUME TypeOK, DecisionInv, [Next]_vars PROVE DecisionInv'
  OBVIOUS
<1> USE NobodyAssumption
<1>1. ASSUME NEW i \in Items,
             RequestApproval(i) \/ EmptyRead(i) \/ WaitExpires(i) \/ PollAgain(i) \/ LandBlocked(i) \/ EnterReview(i)
             \/ Finish(i) \/ JobBreaks(i) \/ Unstick(i) \/ Cancel(i)
      PROVE DecisionInv'
  BY <1>1 DEF TypeOK, DecisionInv, RequestApproval, EmptyRead, WaitExpires, PollAgain, LandBlocked, EnterReview,
       Finish, JobBreaks, Unstick, Cancel, Moved, askVars, answerVars
<1>2. ASSUME NEW i \in Items, PollDecision(i) PROVE DecisionInv'
  <2>1. /\ resolved[i] # <<>> /\ resolved' = resolved
        /\ state' = state /\ approval' = approval
        /\ runner' = [runner EXCEPT ![i] = "decided"]
        /\ approval[i] = "none"
        /\ \A j \in Items \ {i} : verdict'[j] = verdict[j]
        /\ verdict'[i] # "none" => Head(resolved[i]).approved /\ verdict'[i] = Head(resolved[i]).by
    BY <1>2 DEF TypeOK, DecisionInv, PollDecision, Recorded, answerVars
  <2>2. verdict'[i] # "none" =>
          Head(resolved[i]) = [approved |-> TRUE, by |-> verdict'[i]]
    BY <2>1, HeadDecision DEF TypeOK
  <2> QED BY <2>1, <2>2 DEF TypeOK, DecisionInv
<1>3. ASSUME NEW c \in clicks, SettleClick(c) PROVE DecisionInv'
  <2>1. /\ c.item \in Items /\ c.decision \in Decision
        /\ resolved[c.item] \in Seq(Decision)
        /\ resolved \in [Items -> Seq(Decision)]
    BY DEF TypeOK, Click
  <2>2. \A i \in Items : resolved[i] # <<>> =>
          resolved'[i] # <<>> /\ Head(resolved'[i]) = Head(resolved[i])
    <3>1. resolved' = [resolved EXCEPT ![c.item] = Append(resolved[c.item], c.decision)]
      BY <1>3 DEF SettleClick
    <3> QED BY <2>1, <3>1, AppendFacts
  <2>3. UNCHANGED itemVars BY <1>3 DEF SettleClick
  <2> QED BY <2>2, <2>3 DEF DecisionInv, itemVars
<1>4. CASE UNCHANGED <<itemVars, resolved>>
  BY <1>4 DEF DecisionInv, itemVars
<1>5. ASSUME NEW i \in Items,
             \/ AnnounceStep(i) \/ PostThrows(i) \/ RecordThrows(i)
             \/ \E c \in ClicksOn(i) : ClickDelivery(c)
      PROVE UNCHANGED <<itemVars, resolved>>
  BY <1>5 DEF AnnounceStep, CheckRequested, PostPrompt, RecordRequest, Consume, PostThrows,
       RecordThrows, ClickDelivery, answerVars
<1>6. ASSUME \/ \E c \in clicks : SettleThrows(c)
             \/ \E c \in rewrites : RewritePrompt(c)
             \/ ServerDies \/ UNCHANGED vars
      PROVE UNCHANGED <<itemVars, resolved>>
  BY <1>6 DEF SettleThrows, RewritePrompt, ServerDies, vars, answerVars
<1> QED BY <1>1, <1>2, <1>3, <1>4, <1>5, <1>6 DEF Next, RunnerStep

\* A delivered item was approved by the first decision of its space, and its row
\* names who took it, however many decide at once and whatever fails.
THEOREM DeliveredOnFirstDecisionHolds == Spec => []DeliveredOnFirstDecision
<1>1. Init => TypeInv /\ DecisionInv BY InitInv
<1>2. TypeInv /\ DecisionInv /\ [Next]_vars => (TypeInv /\ DecisionInv)'
  BY TypeStep, DecisionStep DEF TypeInv
<1>3. DecisionInv => DeliveredOnFirstDecision
  BY DEF DecisionInv, DeliveredOnFirstDecision
<1> QED BY <1>1, <1>2, <1>3, PTL DEF Spec
-----------------------------------------------------------------------------
(* The prompts *)

LEMMA AskStep == TypeInv /\ AskInv /\ [Next]_vars => AskInv'
<1> SUFFICES ASSUME TypeOK, RowInv, AskInv, [Next]_vars PROVE AskInv'
  BY DEF TypeInv
<1>1. \A i \in Items : /\ prompts[i] \in Seq({Open} \cup Decision)
                       /\ Len(prompts[i]) \in Nat /\ again[i] \in Nat
  BY DEF TypeOK
<1>2. ASSUME NEW i \in Items, RequestApproval(i) \/ CheckRequested(i) \/ RecordRequest(i)
                              \/ Consume(i)
      PROVE AskInv'
  <2>1. /\ row \in [Items -> {"none", "due", "checked", "posted", "recorded", "consumed", "dead"}]
        /\ prompts' = prompts /\ again' = again
        /\ \A j \in Items \ {i} : row'[j] = row[j] /\ (j \in requested <=> j \in requested')
    BY <1>2 DEF TypeOK, RequestApproval, CheckRequested, RecordRequest, Consume, askVars
  <2>2. /\ row'[i] # "posted"
        /\ row'[i] = "checked" => i \notin requested'
        /\ i \notin requested' => i \notin requested /\ row[i] # "posted"
    <3>1. CASE RequestApproval(i) BY <2>1, <3>1 DEF RequestApproval, RowInv
    <3>2. CASE CheckRequested(i) BY <2>1, <3>2 DEF CheckRequested
    <3>3. CASE RecordRequest(i) BY <2>1, <3>3 DEF RecordRequest
    <3>4. CASE Consume(i) BY <2>1, <3>4 DEF Consume
    <3> QED BY <1>2, <3>1, <3>2, <3>3, <3>4
  <2> QED BY <1>1, <2>1, <2>2 DEF AskInv
<1>3. ASSUME NEW i \in Items, PostPrompt(i) \/ PostThrows(i) PROVE AskInv'
  <2>1. Len(Append(prompts[i], Open)) = Len(prompts[i]) + 1 BY <1>1, AppendFacts
  <2>2. /\ row[i] = "checked" /\ row'[i] # "checked" /\ requested' = requested
        /\ \A j \in Items \ {i} :
             row'[j] = row[j] /\ prompts'[j] = prompts[j] /\ again'[j] = again[j]
    BY <1>3 DEF TypeOK, PostPrompt, PostThrows, Retried
  <2>3. \/ /\ row'[i] = "posted"
           /\ again'[i] = again[i] /\ Len(prompts'[i]) = Len(prompts[i]) + 1
        \/ /\ row'[i] # "posted"
           /\ \/ again'[i] = again[i] /\ prompts'[i] = prompts[i]
              \/ again'[i] = again[i] + 1 /\ Len(prompts'[i]) = Len(prompts[i]) + 1
    BY <1>3, <2>1 DEF TypeOK, PostPrompt, PostThrows, Retried
  <2> QED BY <1>1, <2>2, <2>3 DEF AskInv
<1>4. ASSUME NEW i \in Items, RecordThrows(i) PROVE AskInv'
  BY <1>1, <1>4 DEF TypeOK, AskInv, RecordThrows, Retried
<1>5. ASSUME NEW c \in rewrites, RewritePrompt(c) PROVE AskInv'
  <2>1. c.item \in Items /\ c.decision \in Decision BY DEF TypeOK, Click
  <2>2. Len([prompts[c.item] EXCEPT ![c.prompt] = c.decision]) = Len(prompts[c.item])
    BY <1>1, <2>1, RewriteFacts
  <2>3. UNCHANGED <<row, requested, again>> BY <1>5 DEF RewritePrompt, askVars
  <2>4. \A i \in Items : Len(prompts'[i]) = Len(prompts[i])
    BY <1>5, <2>1, <2>2 DEF TypeOK, RewritePrompt
  <2> QED BY <2>3, <2>4 DEF AskInv
<1>6. CASE ServerDies
  BY <1>1, <1>6 DEF TypeOK, AskInv, ServerDies
<1>7. CASE UNCHANGED <<row, requested, again, prompts>>
  BY <1>7 DEF AskInv
<1>8. ASSUME NEW i \in Items,
             \/ PollDecision(i) \/ EmptyRead(i) \/ WaitExpires(i) \/ PollAgain(i) \/ LandBlocked(i) \/ EnterReview(i)
             \/ Finish(i) \/ JobBreaks(i) \/ Unstick(i) \/ Cancel(i)
             \/ \E c \in ClicksOn(i) : ClickDelivery(c)
      PROVE UNCHANGED <<row, requested, again, prompts>>
  BY <1>8 DEF PollDecision, EmptyRead, WaitExpires, PollAgain, LandBlocked, EnterReview, Finish, JobBreaks, Unstick,
       Cancel, ClickDelivery, askVars
<1>9. ASSUME \/ \E c \in clicks : SettleClick(c) \/ SettleThrows(c)
             \/ UNCHANGED vars
      PROVE UNCHANGED <<row, requested, again, prompts>>
  BY <1>9 DEF SettleClick, SettleThrows, vars, askVars
<1> QED BY <1>2, <1>3, <1>4, <1>5, <1>6, <1>7, <1>8, <1>9 DEF Next, RunnerStep, AnnounceStep

\* Nobody is asked twice without a prompt whose record was lost, however often
\* the marker is replayed.
THEOREM AskedOnceHolds == Spec => []AskedOnce
<1>1. Init => TypeInv /\ AskInv BY InitInv
<1>2. TypeInv /\ AskInv /\ [Next]_vars => (TypeInv /\ AskInv)'
  BY TypeStep, AskStep
<1>3. AskInv => AskedOnce BY DEF AskInv, AskedOnce
<1> QED BY <1>1, <1>2, <1>3, PTL DEF Spec
-----------------------------------------------------------------------------
(***************************************************************************)
(* The continuation of blocked work: theorems about WorkReview, for any    *)
(* works, visitors, tokens, requests, forks, readings and troubles.        *)
(***************************************************************************)
LEMMA ReviewAssumption ==
  /\ "none" \notin Visitors \cup Works \cup Forks
  /\ MaxTroubles \in Nat /\ MaxReads \in Nat
  BY NoVisitorAssumption, NoForkAssumption, TroublesAssumption, ReadsAssumption

Request ==
  [op : {"none", "open", "redeem", "read", "continue", "api"}, pc : Pcs,
   who : Visitors \cup {"none"}, item : Works \cup {"none"},
   token : Tokens \cup {"none"}, form : Nat, snap : Nat,
   fork : Forks \cup {"none"}, seen : BOOLEAN]

Token == [status : {"none", "live", "used", "gone"}, who : Visitors \cup {"none"},
          item : Works \cup {"none"}]

Fork == [of : Works \cup {"none"}, intent : {"none", "continuation"},
         stage : {"none", "row", "edge", "job"}]

Typed ==
  /\ member \subseteq Visitors
  /\ token \in [Tokens -> Token]
  /\ csrf \in [Tokens -> Nat]
  /\ cookies \subseteq Tokens
  /\ req \in [Requests -> Request]
  /\ lock \in [Works -> Seq(Requests)]
  /\ fork \in [Forks -> Fork]

Human   == {"open", "redeem", "read", "continue"}
Working == {"asked", "row", "edge", "told"}
InHand  == {"row", "edge"}

\* Where a request stands tells what kind it is, and what it carries is known.
ReqInv ==
  /\ \A t \in Tokens : token[t].status # "none" => token[t].item \in Works
  /\ \A t \in cookies : token[t].status # "none"
  /\ \A r \in Requests :
       /\ req[r].pc = "member" => req[r].op \in Human
       /\ req[r].pc \in {"form", "lock"} => req[r].op = "continue"
       /\ req[r].pc \in {"asked", "row", "edge"} => req[r].op \in Forking
       /\ req[r].op \in {"open"} \cup Forking => req[r].item \in Works
       /\ req[r].op = "redeem" =>
            req[r].token \in Tokens /\ token[req[r].token].status # "none"
       /\ req[r].op = "read" => req[r].token \in Tokens

LEMMA IdleType == Idle \in Request
  BY ReviewAssumption DEF Idle, Request, Pcs

LEMMA GoesFacts ==
  ASSUME Typed, NEW r \in Requests, NEW pc \in Pcs, Goes(r, pc)
  PROVE  /\ req' \in [Requests -> Request]
         /\ \A q \in Requests \ {r} : req'[q] = req[q]
         /\ req'[r].pc = pc /\ req'[r].op = req[r].op /\ req'[r].who = req[r].who
         /\ req'[r].item = req[r].item /\ req'[r].token = req[r].token
         /\ req'[r].fork = req[r].fork /\ req'[r].seen = req[r].seen
<1> DEFINE x == [req[r] EXCEPT !.pc = pc]
<1>1. req[r] \in Request BY DEF Typed
<1>2. x \in Request /\ x.pc = pc /\ x.op = req[r].op /\ x.who = req[r].who
      /\ x.item = req[r].item /\ x.token = req[r].token /\ x.fork = req[r].fork
      /\ x.seen = req[r].seen
  BY <1>1 DEF Request
<1>3. req' = [req EXCEPT ![r] = x] BY DEF Goes
<1> HIDE DEF x
<1> QED BY <1>2, <1>3 DEF Typed

LEMMA EndsFacts ==
  ASSUME Typed, NEW r \in Requests, Ends(r)
  PROVE  /\ req' \in [Requests -> Request]
         /\ \A q \in Requests \ {r} : req'[q] = req[q]
         /\ req'[r] = Idle /\ req'[r].op = "none" /\ req'[r].pc = "idle"
<1>1. Idle.op = "none" /\ Idle.pc = "idle" BY DEF Idle
<1> QED BY <1>1, IdleType DEF Ends, Typed

LEMMA ArrivesFacts ==
  ASSUME Typed, NEW r \in Requests, NEW x \in Request, Arrives(r, x)
  PROVE  /\ req' \in [Requests -> Request]
         /\ \A q \in Requests \ {r} : req'[q] = req[q]
         /\ req[r].op = "none" /\ req[r].pc = "idle"
         /\ req'[r].pc = x.pc /\ req'[r].op = x.op /\ req'[r].who = x.who
         /\ req'[r].item = x.item /\ req'[r].token = x.token
         /\ x.who \in member => req'[r].seen
<1> DEFINE was == x.who \in member
           y == [x EXCEPT !.seen = was]
<1>0. was \in BOOLEAN OBVIOUS
<1> HIDE DEF was
<1>1. y \in Request /\ y.pc = x.pc /\ y.op = x.op /\ y.who = x.who /\ y.item = x.item
      /\ y.token = x.token /\ y.seen = was
  BY <1>0 DEF Request
<1>2. req' = [req EXCEPT ![r] = y] /\ req[r] = Idle BY DEF Arrives, was
<1>3. Idle.op = "none" /\ Idle.pc = "idle" BY DEF Idle
<1> HIDE DEF y
<1> QED BY <1>1, <1>2, <1>3 DEF Typed, was

\* Whoever was asked about is a member, or has been found to be one.
SeenInv ==
  \A r \in Requests :
    req[r].op \in Human /\ (req[r].who \in member \/ req[r].pc # "member") => req[r].seen

Queued(r) == req[r].op = "continue" /\ req[r].pc \in {"lock"} \cup Working

\* The line before an item's lock: those who wait or work, once each, and only
\* the first one works.
LineInv ==
  /\ \A i \in Works : \A n \in 1..Len(lock[i]) :
       /\ Queued(lock[i][n]) /\ req[lock[i][n]].item = i
       /\ n > 1 => req[lock[i][n]].pc = "lock"
  /\ \A i \in Works : \A m, n \in 1..Len(lock[i]) : lock[i][m] = lock[i][n] => m = n
  /\ \A r \in Requests : Queued(r) =>
       \E n \in 1..Len(lock[req[r].item]) : lock[req[r].item][n] = r

Intent(r) == IF req[r].op = "continue" THEN "continuation" ELSE "none"

\* A fork that is being written is in one request's hand and as far as that
\* request; a continuation is written only while there is none.
ForkInv ==
  /\ \A r \in Requests : req[r].pc \in InHand =>
       /\ req[r].fork \in Forks
       /\ fork[req[r].fork] = [of |-> req[r].item, intent |-> Intent(r), stage |-> req[r].pc]
  /\ \A r, q \in Requests :
       req[r].pc \in InHand /\ req[q].pc \in InHand /\ req[r].fork = req[q].fork => r = q
  /\ \A r \in Requests : req[r].op = "continue" /\ req[r].pc \in {"asked", "row"} =>
       Continuations(req[r].item) = {}
  /\ \A i \in Works : \A f, g \in Continuations(i) : f = g

ReviewInv == Typed /\ ReqInv /\ SeenInv /\ LineInv /\ ForkInv

LEMMA ReviewInvInit == ReviewInit => ReviewInv
<1> SUFFICES ASSUME ReviewInit PROVE ReviewInv OBVIOUS
<1>1. \A r \in Requests : req[r] = Idle /\ req[r].op = "none" /\ req[r].pc = "idle"
  BY DEF ReviewInit, Idle
<1>2. Typed
  BY IdleType, ReviewAssumption DEF ReviewInit, Typed, Token, Fork
<1>3. ReqInv BY <1>1 DEF ReviewInit, ReqInv, Forking
<1>4. SeenInv BY <1>1 DEF SeenInv, Human
<1>5. LineInv
  <2>1. \A i \in Works : lock[i] = <<>> BY DEF ReviewInit
  <2>2. \A r \in Requests : ~Queued(r) BY <1>1 DEF Queued
  <2> QED BY <2>1, <2>2 DEF LineInv
<1>6. ForkInv
  <2>1. \A i \in Works : Continuations(i) = {}
    BY DEF ReviewInit, Continuations
  <2> QED BY <1>1, <2>1 DEF ForkInv, InHand
<1> QED BY <1>2, <1>3, <1>4, <1>5, <1>6 DEF ReviewInv
-----------------------------------------------------------------------------
(* Lines and forks when one request moves *)

\* Queued and continued in the next state, of what this or the next state names.
WillQueue(q) == req'[q].op = "continue" /\ req'[q].pc \in {"lock"} \cup Working
WillContinue(i) ==
  {f \in Forks : /\ fork'[f].of = i
                 /\ fork'[f].intent = "continuation"
                 /\ fork'[f].stage \in {"edge", "job"}}

Only(r) == \A q \in Requests \ {r} : req'[q] = req[q]

\* Who works on an item is the first in its line.
LEMMA WorkerIsFirst ==
  ASSUME Typed, ReqInv, LineInv, NEW r \in Requests, Queued(r),
         req[r].pc \in Working \/ Holds(r)
  PROVE  LET q == lock[req[r].item]
         IN  /\ req[r].item \in Works
             /\ q \in Seq(Requests) /\ q # <<>> /\ q[1] = r /\ Head(q) = r
<1> DEFINE q == lock[req[r].item]
<1>1. req[r].item \in Works BY DEF ReqInv, Queued, Forking
<1>2. q \in Seq(Requests) BY <1>1 DEF Typed
<1>3. q # <<>> /\ q[1] = r
  <2>1. CASE Holds(r) BY <1>2, <2>1 DEF Holds
  <2>2. CASE req[r].pc \in Working
    <3>1. PICK n \in 1..Len(q) : q[n] = r BY DEF LineInv
    <3>2. n > 1 => req[r].pc = "lock" BY <1>1, <3>1 DEF LineInv
    <3>3. n = 1 BY <1>2, <2>2, <3>2 DEF Working
    <3> QED BY <1>2, <3>1, <3>3
  <2> QED BY <2>1, <2>2
<1> QED BY <1>1, <1>2, <1>3

LEMMA LineStays ==
  ASSUME Typed, ReqInv, LineInv, NEW r \in Requests, Only(r), UNCHANGED lock,
         Queued(r)' <=> Queued(r),
         Queued(r) => req'[r].item = req[r].item /\ (req[r].pc \in Working \/ Holds(r))
  PROVE  LineInv'
<1>1. \A i \in Works : lock[i] \in Seq(Requests) /\ \A n \in 1..Len(lock[i]) : lock[i][n] \in Requests
  BY DEF Typed
<1>2. \A q \in Requests : (Queued(q)' <=> Queued(q)) /\ (Queued(q) => req'[q].item = req[q].item)
  BY DEF Only, Queued
<1>3. ASSUME NEW i \in Works, NEW n \in 1..Len(lock[i])
      PROVE  /\ Queued(lock[i][n])' /\ req'[lock[i][n]].item = i
             /\ n > 1 => req'[lock[i][n]].pc = "lock"
  <2>1. Queued(lock[i][n]) /\ req[lock[i][n]].item = i /\ (n > 1 => req[lock[i][n]].pc = "lock")
    BY DEF LineInv
  <2>2. CASE lock[i][n] # r BY <1>1, <1>2, <2>1, <2>2 DEF Only, Queued
  <2>3. CASE lock[i][n] = r
    <3>1. lock[i][1] = r /\ lock[i] # <<>> BY <2>1, <2>3, WorkerIsFirst
    <3>2. n = 1 BY <1>1, <2>3, <3>1 DEF LineInv
    <3> QED BY <1>2, <2>1, <2>3, <3>2
  <2> QED BY <2>2, <2>3
<1>4. ASSUME NEW q \in Requests, Queued(q)'
      PROVE  \E n \in 1..Len(lock[req'[q].item]) : lock[req'[q].item][n] = q
  BY <1>2, <1>4 DEF LineInv
<1>5. \A i \in Works : \A m, n \in 1..Len(lock[i]) : lock[i][m] = lock[i][n] => m = n
  BY DEF LineInv
<1> QED BY <1>3, <1>4, <1>5 DEF LineInv, Queued

LEMMA LineJoins ==
  ASSUME Typed, ReqInv, LineInv, NEW r \in Requests, Only(r), ~Queued(r), WillQueue(r),
         req'[r].pc = "lock", NEW i \in Works, req'[r].item = i,
         lock' = [lock EXCEPT ![i] = Append(@, r)]
  PROVE  LineInv'
<1>1. \A j \in Works : lock[j] \in Seq(Requests) /\ Len(lock[j]) \in Nat
                       /\ \A n \in 1..Len(lock[j]) : lock[j][n] \in Requests \ {r}
  <2>1. \A j \in Works : lock[j] \in Seq(Requests) BY DEF Typed
  <2>2. \A j \in Works : \A n \in 1..Len(lock[j]) : lock[j][n] # r BY DEF LineInv
  <2> QED BY <2>1, <2>2
<1>2. \A j \in Works : j # i => lock'[j] = lock[j] BY DEF Typed
<1>3. /\ Len(lock'[i]) = Len(lock[i]) + 1 /\ lock'[i][Len(lock[i]) + 1] = r
      /\ \A n \in 1..Len(lock[i]) : lock'[i][n] = lock[i][n]
  <2>1. lock'[i] = Append(lock[i], r) BY DEF Typed
  <2> QED BY <1>1, <2>1
<1>4. \A q \in Requests \ {r} : (WillQueue(q) <=> Queued(q)) /\ req'[q] = req[q]
  BY DEF Only, Queued, WillQueue
<1>5. ASSUME NEW j \in Works, NEW n \in 1..Len(lock'[j])
      PROVE  /\ WillQueue(lock'[j][n]) /\ req'[lock'[j][n]].item = j
             /\ n > 1 => req'[lock'[j][n]].pc = "lock"
  <2>1. CASE j = i /\ n = Len(lock[i]) + 1 BY <1>3, <2>1
  <2>2. CASE j # i \/ n # Len(lock[i]) + 1
    <3>1. n \in 1..Len(lock[j]) /\ lock'[j][n] = lock[j][n] BY <1>1, <1>2, <1>3, <2>2
    <3>2. Queued(lock[j][n]) /\ req[lock[j][n]].item = j /\ (n > 1 => req[lock[j][n]].pc = "lock")
      BY <3>1 DEF LineInv
    <3> QED BY <1>1, <1>4, <3>1, <3>2
  <2> QED BY <2>1, <2>2
<1>6. ASSUME NEW j \in Works, NEW m \in 1..Len(lock'[j]), NEW n \in 1..Len(lock'[j]),
             lock'[j][m] = lock'[j][n]
      PROVE  m = n
  <2>1. CASE j # i BY <1>2, <1>6, <2>1 DEF LineInv
  <2>2. CASE j = i
    <3>1. m \in 1..Len(lock[i]) /\ n \in 1..Len(lock[i]) => m = n
      BY <1>3, <1>6, <2>2 DEF LineInv
    <3> QED BY <1>1, <1>3, <1>6, <2>2, <3>1
  <2> QED BY <2>1, <2>2
<1>7. ASSUME NEW q \in Requests, WillQueue(q)
      PROVE  \E n \in 1..Len(lock'[req'[q].item]) : lock'[req'[q].item][n] = q
  <2>1. CASE q = r BY <1>1, <1>3, <2>1
  <2>2. CASE q # r
    <3>1. req[q].item \in Works /\ Queued(q) /\ req'[q] = req[q]
      BY <1>4, <1>7, <2>2 DEF ReqInv, Queued, Forking
    <3>2. PICK n \in 1..Len(lock[req[q].item]) : lock[req[q].item][n] = q
      BY <3>1 DEF LineInv
    <3>3. n \in 1..Len(lock'[req[q].item]) /\ lock'[req[q].item][n] = q
      BY <1>1, <1>2, <1>3, <3>1, <3>2
    <3> QED BY <3>1, <3>3
  <2> QED BY <2>1, <2>2
<1> QED BY <1>5, <1>6, <1>7 DEF LineInv, Queued, WillQueue

LEMMA LineLeaves ==
  ASSUME Typed, ReqInv, LineInv, NEW r \in Requests, Only(r), Queued(r), ~WillQueue(r),
         req[r].pc \in Working \/ Holds(r), lock' = Released(r)
  PROVE  LineInv'
<1> DEFINE i == req[r].item
<1>1. i \in Works /\ lock[i] # <<>> /\ lock[i][1] = r BY WorkerIsFirst
<1> HIDE DEF i
<1>2. \A j \in Works : lock[j] \in Seq(Requests) /\ Len(lock[j]) \in Nat
                       /\ \A n \in 1..Len(lock[j]) : lock[j][n] \in Requests
  BY DEF Typed
<1>3. \A j \in Works : j # i => lock'[j] = lock[j] BY DEF Released, i
<1>4. /\ Len(lock'[i]) = Len(lock[i]) - 1 /\ Len(lock[i]) >= 1
      /\ \A n \in 1..Len(lock'[i]) : n + 1 \in 2..Len(lock[i]) /\ lock'[i][n] = lock[i][n + 1]
  <2>1. lock'[i] = Tail(lock[i]) BY <1>1 DEF Released, i, Queued
  <2> QED BY <1>1, <1>2, <2>1
<1>5. \A q \in Requests \ {r} : (WillQueue(q) <=> Queued(q)) /\ req'[q] = req[q]
  BY DEF Only, Queued, WillQueue
<1>6. \A j \in Works : j # i => \A n \in 1..Len(lock[j]) : lock[j][n] # r
  BY <1>1 DEF LineInv, i
<1>7. \A n \in 2..Len(lock[i]) : lock[i][n] # r BY <1>1, <1>2, <1>4 DEF LineInv
<1>8. ASSUME NEW j \in Works, NEW n \in 1..Len(lock'[j])
      PROVE  \E k \in 1..Len(lock[j]) : /\ lock'[j][n] = lock[j][k] /\ lock[j][k] # r
                                        /\ k = IF j = i THEN n + 1 ELSE n
  BY <1>2, <1>3, <1>4, <1>6, <1>7
<1>9. ASSUME NEW j \in Works, NEW n \in 1..Len(lock'[j])
      PROVE  /\ WillQueue(lock'[j][n]) /\ req'[lock'[j][n]].item = j
             /\ n > 1 => req'[lock'[j][n]].pc = "lock"
  <2>1. PICK k \in 1..Len(lock[j]) : /\ lock'[j][n] = lock[j][k] /\ lock[j][k] # r
                                    /\ k = IF j = i THEN n + 1 ELSE n
    BY <1>8
  <2>2. n > 1 => k > 1 BY <1>2, <2>1
  <2>3. Queued(lock[j][k]) /\ req[lock[j][k]].item = j /\ (k > 1 => req[lock[j][k]].pc = "lock")
    BY DEF LineInv
  <2> QED BY <1>2, <1>5, <2>1, <2>2, <2>3
<1>10. ASSUME NEW j \in Works, NEW m \in 1..Len(lock'[j]), NEW n \in 1..Len(lock'[j]),
              lock'[j][m] = lock'[j][n]
       PROVE  m = n
  <2>1. CASE j # i BY <1>3, <1>10, <2>1 DEF LineInv
  <2>2. CASE j = i
    <3>1. m + 1 \in 1..Len(lock[i]) /\ n + 1 \in 1..Len(lock[i]) BY <1>2, <1>4, <2>2
    <3>2. m + 1 = n + 1 BY <1>1, <1>4, <1>10, <2>2, <3>1 DEF LineInv
    <3> QED BY <1>2, <1>4, <2>2, <3>2
  <2> QED BY <2>1, <2>2
<1>11. ASSUME NEW q \in Requests, WillQueue(q)
       PROVE  \E n \in 1..Len(lock'[req'[q].item]) : lock'[req'[q].item][n] = q
  <2>1. q # r /\ Queued(q) /\ req'[q] = req[q] /\ req[q].item \in Works
    BY <1>5, <1>11 DEF ReqInv, Queued, Forking
  <2>2. PICK k \in 1..Len(lock[req[q].item]) : lock[req[q].item][k] = q BY <2>1 DEF LineInv
  <2>3. CASE req[q].item # i BY <1>3, <2>1, <2>2, <2>3
  <2>4. CASE req[q].item = i
    <3>1. k # 1 BY <1>1, <2>1, <2>2, <2>4
    <3>2. k - 1 \in 1..Len(lock'[i]) BY <1>2, <1>4, <1>1, <2>2, <2>4, <3>1
    <3>3. lock'[i][k - 1] = q BY <1>2, <1>1, <1>4, <2>2, <2>4, <3>2
    <3> QED BY <2>1, <2>4, <3>2, <3>3
  <2> QED BY <2>3, <2>4
<1> QED BY <1>9, <1>10, <1>11 DEF LineInv, Queued, WillQueue

LEMMA InHandFacts ==
  ASSUME ForkInv, NEW r \in Requests, req[r].pc \in InHand
  PROVE  /\ req[r].fork \in Forks /\ fork[req[r].fork].of = req[r].item
         /\ fork[req[r].fork].intent = Intent(r) /\ fork[req[r].fork].stage = req[r].pc
<1>1. /\ req[r].fork \in Forks
      /\ fork[req[r].fork] = [of |-> req[r].item, intent |-> Intent(r), stage |-> req[r].pc]
  BY DEF ForkInv
<1> QED BY <1>1

LEMMA ForksStay ==
  ASSUME ForkInv, NEW r \in Requests, Only(r), UNCHANGED fork, req'[r].pc \notin InHand,
         req'[r].op = "continue" /\ req'[r].pc = "asked" => Continuations(req'[r].item) = {}
  PROVE  ForkInv'
<1>1. \A i : Continuations(i)' = Continuations(i)
  BY DEF Continuations
<1>2. \A q \in Requests : q = r \/ (req'[q] = req[q] /\ Intent(q)' = Intent(q)) BY DEF Only, Intent
<1> QED BY <1>1, <1>2 DEF ForkInv, InHand
-----------------------------------------------------------------------------
(* The steps of a request *)

\* A step outside the lines and the forks.
LEMMA QuietKeeps ==
  ASSUME Typed, ReqInv, LineInv, ForkInv, NEW r \in Requests, Only(r),
         UNCHANGED <<lock, fork>>, ~Queued(r), ~Queued(r)', req'[r].pc \notin InHand
  PROVE  LineInv' /\ ForkInv'
<1>1. LineInv' BY LineStays
<1>2. ForkInv' BY ForksStay DEF Queued, Working
<1> QED BY <1>1, <1>2

\* Tokens stay what they are, used or not, and new ones are for an item.
TokensKept ==
  /\ token' \in [Tokens -> Token]
  /\ \A t \in Tokens : token[t].status # "none" => token'[t].status # "none"
  /\ \A t \in Tokens : token'[t].status # "none" => token'[t].item \in Works

LEMMA TokensStay ==
  ASSUME Typed, ReqInv, UNCHANGED token
  PROVE  TokensKept
BY DEF Typed, ReqInv, TokensKept

\* A request arrives with what its session's token, or the click, says.
LEMMA ArrivalKeeps ==
  ASSUME ReviewInv, NEW r \in Requests, NEW x \in Request,
         Arrives(r, x), x.op \in Human, x.pc = "member",
         x.op \in {"open"} \cup Forking => x.item \in Works,
         x.op = "redeem" => x.token \in Tokens /\ token'[x.token].status # "none",
         x.op = "read" => x.token \in Tokens,
         UNCHANGED <<member, csrf, cookies, lock, fork>>, TokensKept
  PROVE  ReviewInv'
<1> USE DEF ReviewInv, TokensKept
<1>1. /\ req' \in [Requests -> Request] /\ Only(r)
      /\ req[r].op = "none" /\ req[r].pc = "idle"
      /\ req'[r].pc = x.pc /\ req'[r].op = x.op /\ req'[r].who = x.who
      /\ req'[r].item = x.item /\ req'[r].token = x.token
      /\ x.who \in member => req'[r].seen
  BY ArrivesFacts DEF Only
<1>2. Typed' BY <1>1 DEF Typed
<1>3. ReqInv' BY <1>1 DEF ReqInv, Only, Typed
<1>4. SeenInv' BY <1>1 DEF SeenInv, Only
<1>5. LineInv' /\ ForkInv' BY <1>1, QuietKeeps DEF Queued, Working, InHand
<1> QED BY <1>2, <1>3, <1>4, <1>5

\* A request that is in no line ends.
LEMMA EndKeeps ==
  ASSUME ReviewInv, NEW r \in Requests, Ends(r),
         ~Queued(r), UNCHANGED <<member, lock, fork>>, TokensKept,
         csrf' \in [Tokens -> Nat], cookies' \subseteq Tokens,
         \A t \in cookies' : token[t].status # "none"
  PROVE  ReviewInv'
<1> USE DEF ReviewInv, TokensKept
<1>1. /\ req' \in [Requests -> Request] /\ Only(r)
      /\ req'[r].op = "none" /\ req'[r].pc = "idle"
  BY EndsFacts DEF Only
<1>2. Typed' BY <1>1 DEF Typed
<1>3. ReqInv' BY <1>1 DEF ReqInv, Only, Forking
<1>4. SeenInv' BY <1>1 DEF SeenInv, Only, Human
<1>5. LineInv' /\ ForkInv' BY <1>1, QuietKeeps DEF Queued, InHand
<1> QED BY <1>2, <1>3, <1>4, <1>5

\* A request goes on to another place, of those for its kind.
LEMMA GoKeeps ==
  ASSUME ReviewInv, NEW r \in Requests, NEW pc \in Pcs, Goes(r, pc),
         pc # "member", pc \in {"form", "lock"} => req[r].op = "continue",
         pc \in {"asked", "row", "edge"} => req[r].op \in Forking,
         req[r].op \in Human => req[r].seen,
         UNCHANGED <<member, token, csrf, cookies>>,
         lock' \in [Works -> Seq(Requests)],
         fork' \in [Forks -> Fork]
  PROVE  Typed' /\ ReqInv' /\ SeenInv'
<1> USE DEF ReviewInv
<1>1. /\ req' \in [Requests -> Request] /\ Only(r)
      /\ req'[r].pc = pc /\ req'[r].op = req[r].op /\ req'[r].who = req[r].who
      /\ req'[r].item = req[r].item /\ req'[r].token = req[r].token
      /\ req'[r].seen = req[r].seen
  BY GoesFacts DEF Only
<1>2. Typed' BY <1>1 DEF Typed
<1>3. ReqInv' BY <1>1 DEF ReqInv, Only
<1>4. SeenInv' BY <1>1 DEF SeenInv, Only
<1> QED BY <1>2, <1>3, <1>4

\* No request moves; people may leave.
LEMMA RestKeeps ==
  ASSUME ReviewInv, UNCHANGED <<csrf, cookies, req, lock, fork>>, member' \subseteq member,
         TokensKept
  PROVE  ReviewInv'
<1> USE DEF ReviewInv, TokensKept
<1>1. Typed' BY DEF Typed
<1>2. ReqInv' BY DEF ReqInv, Typed
<1>3. SeenInv' BY DEF SeenInv
<1>4. LineInv' BY DEF LineInv, Queued
<1>5. ForkInv'
  <2>1. \A i : Continuations(i)' = Continuations(i) BY DEF Continuations
  <2>2. \A r : Intent(r)' = Intent(r) BY DEF Intent
  <2> QED BY <2>1, <2>2 DEF ForkInv
<1> QED BY <1>1, <1>2, <1>3, <1>4, <1>5

LEMMA PressKeeps ==
  ASSUME ReviewInv, NEW r \in Requests, NEW i \in Works, NEW p \in Visitors,
         PressOpenReview(r, i, p) \/ PressRetry(r, i, p)
  PROVE  ReviewInv'
<1>1. CASE PressOpenReview(r, i, p)
  <2> DEFINE x == [Idle EXCEPT !.op = "open", !.pc = "member", !.who = p, !.item = i]
  <2>1. x \in Request /\ x.op = "open" /\ x.pc = "member" /\ x.item = i
    BY IdleType DEF Request, Pcs, Idle
  <2>2. /\ Arrives(r, x)
        /\ UNCHANGED <<member, token, session, csrf, cookies, lock, fork>>
    BY <1>1 DEF PressOpenReview
  <2> HIDE DEF x
  <2> QED BY <2>1, <2>2, ArrivalKeeps, TokensStay DEF Human, Forking, ReviewInv
<1>2. CASE PressRetry(r, i, p)
  <2>1. UNCHANGED <<member, token, csrf, cookies, req, lock, fork>>
    BY <1>2 DEF PressRetry, Routed
  <2> QED BY <2>1, RestKeeps, TokensStay DEF ReviewInv
<1> QED BY <1>1, <1>2

LEMMA PageKeeps ==
  ASSUME ReviewInv, NEW r \in Requests, NEW t \in Tokens,
         \/ Redeem(r, t) \/ ReadPage(r, t)
         \/ \E form \in 1..MaxReads : PostForm(r, t, form)
  PROVE  ReviewInv'
<1>1. /\ token[t].who \in Visitors \cup {"none"}
      /\ t \in cookies => token[t].item \in Works
      /\ token[t].status # "none" => token[t].item \in Works
  BY DEF ReviewInv, Typed, Token, ReqInv
<1>2. CASE Redeem(r, t)
  <2>1. UNCHANGED <<member, csrf, cookies, lock, fork>> BY <1>2 DEF Redeem
  <2>2. PICK status \in {"used", "gone"} : token' = [token EXCEPT ![t].status = status]
    BY <1>2 DEF Redeem
  <2>3. token[t].status # "none" BY <1>2 DEF Redeem
  <2>4. TokensKept
    <3>1. \A u \in Tokens : /\ token'[u].status # "none" <=> token[u].status # "none"
                           /\ token'[u].item = token[u].item
      BY <2>2, <2>3 DEF ReviewInv, Typed, Token
    <3>2. token' \in [Tokens -> Token] BY <2>2 DEF ReviewInv, Typed, Token
    <3> QED BY <3>1, <3>2 DEF TokensKept, ReviewInv, ReqInv
  <2>5. CASE UNCHANGED req BY <2>1, <2>4, <2>5, RestKeeps
  <2>6. CASE Arrives(r, [Idle EXCEPT !.op = "redeem", !.pc = "member",
                                           !.who = token[t].who, !.token = t])
    <3> DEFINE x == [Idle EXCEPT !.op = "redeem", !.pc = "member",
                                        !.who = token[t].who, !.token = t]
    <3>1. x \in Request /\ x.op = "redeem" /\ x.pc = "member" /\ x.token = t
      BY <1>1, IdleType DEF Request, Pcs, Idle
    <3>2. Arrives(r, x) BY <2>6
    <3> HIDE DEF x
    <3> QED BY <2>1, <2>3, <2>4, <3>1, <3>2, ArrivalKeeps DEF Human, Forking, TokensKept
  <2> QED BY <1>2, <2>5, <2>6 DEF Redeem
<1>3. CASE ReadPage(r, t)
  <2> DEFINE x == [Idle EXCEPT !.op = "read", !.pc = "member", !.who = token[t].who,
                                      !.token = t, !.item = token[t].item]
  <2>1. /\ t \in cookies /\ Arrives(r, x)
        /\ UNCHANGED <<member, token, csrf, cookies, lock, fork>>
    BY <1>3 DEF ReadPage
  <2>2. x \in Request /\ x.op = "read" /\ x.pc = "member" /\ x.token = t
    BY <1>1, <2>1, IdleType DEF Request, Pcs, Idle
  <2> HIDE DEF x
  <2> QED BY <2>1, <2>2, ArrivalKeeps, TokensStay DEF Human, Forking, ReviewInv
<1>4. ASSUME NEW form \in 1..MaxReads, PostForm(r, t, form) PROVE ReviewInv'
  <2> DEFINE x == [Idle EXCEPT !.op = "continue", !.pc = "member", !.who = token[t].who,
                                      !.token = t, !.item = token[t].item,
                                      !.form = form, !.snap = csrf[t]]
  <2>1. /\ t \in cookies /\ Arrives(r, x)
        /\ UNCHANGED <<member, token, csrf, cookies, lock, fork>>
    BY <1>4 DEF PostForm
  <2>2. /\ x \in Request /\ x.op = "continue" /\ x.pc = "member"
        /\ x.item = token[t].item
    <3>1. csrf[t] \in Nat /\ form \in Nat BY DEF ReviewInv, Typed
    <3> QED BY <1>1, <2>1, <3>1, IdleType DEF Request, Pcs, Idle
  <2> HIDE DEF x
  <2> QED BY <1>1, <2>1, <2>2, ArrivalKeeps, TokensStay DEF Human, Forking, ReviewInv
<1> QED BY <1>2, <1>3, <1>4

LEMMA MintKeeps ==
  ASSUME ReviewInv, NEW r \in Requests, NEW t \in Tokens,
         MintToken(r, t)
  PROVE  ReviewInv'
<1> USE DEF ReviewInv
<1>1. /\ req[r].op = "open" /\ Ends(r) /\ token[t].status = "none"
      /\ UNCHANGED <<member, csrf, cookies, lock, fork>>
  BY DEF MintToken
<1>2. PICK status \in {"live", "gone"} :
        token' = [token EXCEPT ![t] = [status |-> status, who |-> req[r].who,
                                       item |-> req[r].item]]
  BY DEF MintToken
<1>3. req[r].who \in Visitors \cup {"none"} /\ req[r].item \in Works
  BY <1>1 DEF Typed, Request, ReqInv
<1>4. TokensKept BY <1>2, <1>3 DEF TokensKept, Typed, Token, ReqInv
<1> QED BY <1>1, <1>4, EndKeeps DEF Queued, Typed, ReqInv

LEMMA AnswersKeep ==
  ASSUME ReviewInv, NEW r \in Requests,
         MemberAnswers(r) \/ GiveCookie(r) \/ ShowPage(r)
  PROVE  ReviewInv'
<1> USE DEF ReviewInv
<1>1. CASE MemberAnswers(r)
  <2>1. /\ req[r].pc = "member" /\ req[r].op \in Human
        /\ UNCHANGED <<member, token, csrf, cookies, lock, fork>>
    BY <1>1 DEF MemberAnswers, ReqInv
  <2>2. CASE Ends(r) BY <2>1, <2>2, EndKeeps, TokensStay DEF Queued, Working, Typed, ReqInv
  <2>3. CASE req[r].who \in member /\ Goes(r, NextOf[req[r].op])
    <3> DEFINE pc == NextOf[req[r].op]
    <3>1. pc \in {"project", "told", "form"} /\ (pc = "form" <=> req[r].op = "continue")
      BY <2>1 DEF NextOf, Human
    <3>2. pc \in Pcs BY <3>1 DEF Pcs
    <3>3. Goes(r, pc) /\ req[r].seen BY <2>1, <2>3 DEF SeenInv
    <3> HIDE DEF pc
    <3>4. Typed' /\ ReqInv' /\ SeenInv' BY <2>1, <3>1, <3>2, <3>3, GoKeeps DEF Typed
    <3>5. Only(r) /\ req'[r].pc = pc /\ req'[r].op = req[r].op
      BY <3>2, <3>3, GoesFacts DEF Only
    <3>6. LineInv' /\ ForkInv'
      BY <2>1, <3>1, <3>5, QuietKeeps DEF Queued, Working, InHand
    <3> QED BY <3>4, <3>6
  <2> QED BY <1>1, <2>2, <2>3 DEF MemberAnswers
<1>2. CASE GiveCookie(r)
  <2>1. /\ req[r].op = "redeem" /\ Ends(r) /\ cookies' = cookies \cup {req[r].token}
        /\ UNCHANGED <<member, token, csrf, lock, fork>>
    BY <1>2 DEF GiveCookie
  <2> QED BY <2>1, EndKeeps, TokensStay DEF Queued, Typed, ReqInv
<1>3. CASE ShowPage(r)
  <2>1. /\ req[r].op = "read" /\ Ends(r)
        /\ UNCHANGED <<member, token, cookies, lock, fork>>
        /\ csrf' = csrf \/ csrf' = [csrf EXCEPT ![req[r].token] = @ + 1]
    BY <1>3 DEF ShowPage
  <2>2. csrf' \in [Tokens -> Nat] BY <2>1 DEF Typed, ReqInv
  <2> QED BY <2>1, <2>2, EndKeeps, TokensStay DEF Queued, Typed, ReqInv
<1> QED BY <1>1, <1>2, <1>3

LEMMA ApiKeeps ==
  ASSUME ReviewInv, NEW r \in Requests, NEW i \in Works, ApiFork(r, i)
  PROVE  ReviewInv'
<1> USE DEF ReviewInv
<1> DEFINE x == [Idle EXCEPT !.op = "api", !.pc = "asked", !.item = i]
<1>1. x \in Request /\ x.op = "api" /\ x.pc = "asked" /\ x.item = i
  BY IdleType DEF Request, Pcs, Idle
<1>2. /\ req' = [req EXCEPT ![r] = x] /\ req[r] = Idle
      /\ UNCHANGED <<member, token, csrf, cookies, lock, fork>>
  BY DEF ApiFork
<1> HIDE DEF x
<1>3. req' \in [Requests -> Request] /\ Only(r) /\ req'[r] = x BY <1>1, <1>2 DEF Typed, Only
<1>4. req[r].op = "none" BY <1>2 DEF Idle
<1>5. Typed' BY <1>2, <1>3 DEF Typed
<1>6. ReqInv' BY <1>1, <1>2, <1>3 DEF ReqInv, Only, Forking
<1>7. SeenInv' BY <1>1, <1>2, <1>3 DEF SeenInv, Only, Human
<1>8. LineInv' /\ ForkInv' BY <1>1, <1>2, <1>3, <1>4, QuietKeeps DEF Queued, InHand
<1> QED BY <1>5, <1>6, <1>7, <1>8
-----------------------------------------------------------------------------
(* The steps of a continuation, and of a fork *)

LEMMA CheckFormKeeps ==
  ASSUME ReviewInv, NEW r \in Requests, CheckForm(r)
  PROVE  ReviewInv'
<1> USE DEF ReviewInv
<1>1. /\ req[r].pc = "form" /\ req[r].op = "continue" /\ req[r].item \in Works
      /\ UNCHANGED <<member, token, csrf, cookies, fork>>
  BY DEF CheckForm, ReqInv, Forking
<1>2. ~Queued(r) BY <1>1 DEF Queued, Working
<1>3. CASE Ends(r) /\ UNCHANGED lock
  BY <1>1, <1>2, <1>3, EndKeeps, TokensStay DEF Typed, ReqInv
<1>4. CASE /\ Goes(r, "lock")
           /\ lock' = [lock EXCEPT ![req[r].item] = Append(@, r)]
  <2>0. "lock" \in Pcs BY DEF Pcs
  <2>1. /\ Only(r) /\ req'[r].pc = "lock" /\ req'[r].op = "continue"
        /\ req'[r].item = req[r].item
    BY <1>1, <1>4, <2>0, GoesFacts DEF Only
  <2>2. lock' \in [Works -> Seq(Requests)]
    <3>1. Append(lock[req[r].item], r) \in Seq(Requests) BY <1>1, AppendFacts DEF Typed
    <3> QED BY <1>4, <3>1 DEF Typed
  <2>3. req[r].seen BY <1>1 DEF SeenInv, Human
  <2>4. Typed' /\ ReqInv' /\ SeenInv'
    <3>1. fork' \in [Forks -> Fork]
      BY <1>1 DEF Typed
    <3> QED BY <1>1, <1>4, <2>0, <2>2, <2>3, <3>1, GoKeeps
  <2>5. WillQueue(r) BY <2>1 DEF WillQueue
  <2>6. LineInv' BY <1>1, <1>2, <1>4, <2>1, <2>5, LineJoins
  <2>7. ForkInv' BY <1>1, <2>1, ForksStay DEF InHand
  <2> QED BY <2>4, <2>6, <2>7
<1> QED BY <1>3, <1>4 DEF CheckForm

\* A request that works goes on, and keeps its place in the line.
LEMMA WorkKeeps ==
  ASSUME ReviewInv, NEW r \in Requests, NEW pc \in Working,
         req[r].op \in Forking, req[r].pc \in Working \/ (Holds(r) /\ Queued(r)),
         Only(r), req' \in [Requests -> Request], req'[r].pc = pc,
         req'[r].op = req[r].op, req'[r].item = req[r].item, req'[r].who = req[r].who,
         req'[r].seen = req[r].seen,
         UNCHANGED <<member, token, csrf, cookies, lock>>,
         fork' \in [Forks -> Fork]
  PROVE  Typed' /\ ReqInv' /\ SeenInv' /\ LineInv'
<1> USE DEF ReviewInv
<1>1. req[r].op \in {"continue", "api"} /\ pc # "member" /\ req[r].pc # "member"
  BY DEF Forking, Working, Queued
<1>2. Typed' BY DEF Typed
<1>3. ReqInv' BY <1>1 DEF ReqInv, Only, Working, Forking
<1>4. SeenInv' BY <1>1 DEF SeenInv, Only, Human
<1>5. Queued(r)' <=> Queued(r) BY DEF Queued, Working
<1>6. LineInv' BY <1>5, LineStays DEF Queued
<1> QED BY <1>2, <1>3, <1>4, <1>6

LEMMA AskKeeps ==
  ASSUME ReviewInv, NEW r \in Requests, AskContinuation(r)
  PROVE  ReviewInv'
<1> USE DEF ReviewInv
<1>1. /\ req[r].pc = "lock" /\ req[r].op = "continue" /\ Holds(r)
      /\ UNCHANGED <<member, token, csrf, cookies, lock, fork>>
  BY DEF AskContinuation, ReqInv
<1>2. PICK pc \in {"told", "asked"} :
        /\ Goes(r, pc)
        /\ pc = "asked" => Continuations(req[r].item) = {}
  BY DEF AskContinuation
<1>3. pc \in Pcs /\ pc \in Working /\ pc \notin InHand
  BY DEF Pcs, Working, InHand
<1>4. /\ req' \in [Requests -> Request] /\ Only(r)
      /\ req'[r].pc = pc /\ req'[r].op = req[r].op /\ req'[r].who = req[r].who
      /\ req'[r].item = req[r].item /\ req'[r].seen = req[r].seen
  BY <1>2, <1>3, GoesFacts DEF Only
<1>5. Queued(r) /\ req[r].op \in Forking BY <1>1 DEF Queued, Forking
<1>6. Typed' /\ ReqInv' /\ SeenInv' /\ LineInv'
  BY <1>1, <1>3, <1>4, <1>5, WorkKeeps DEF Typed
<1>7. ForkInv' BY <1>1, <1>2, <1>3, <1>4, ForksStay
<1> QED BY <1>6, <1>7

LEMMA InsertKeeps ==
  ASSUME ReviewInv, NEW r \in Requests, InsertFork(r)
  PROVE  ReviewInv'
<1> USE DEF ReviewInv
<1> DEFINE f == CHOOSE free \in FreeForks : TRUE
           x == [req[r] EXCEPT !.pc = "row", !.fork = f]
<1>1. /\ req[r].pc = "asked" /\ req[r].op \in Forking /\ req[r].item \in Works
      /\ UNCHANGED <<member, token, csrf, cookies, lock>>
  BY DEF InsertFork, ReqInv
<1>2. f \in Forks /\ fork[f].stage = "none"
  BY DEF InsertFork, FreeForks
<1>3. /\ fork' = [fork EXCEPT ![f] = [of |-> req[r].item, stage |-> "row", intent |-> Intent(r)]]
      /\ req' = [req EXCEPT ![r].pc = "row", ![r].fork = f]
  BY DEF InsertFork, Intent
<1> HIDE DEF f
<1>4. req[r] \in Request BY DEF Typed
<1>5. /\ x \in Request /\ x.pc = "row" /\ x.fork = f /\ x.op = req[r].op
      /\ x.who = req[r].who /\ x.item = req[r].item /\ x.seen = req[r].seen
  BY <1>2, <1>4 DEF Request, Pcs
<1>6. req' = [req EXCEPT ![r] = x] BY <1>3, <1>4 DEF Typed, Request
<1> HIDE DEF x
<1>7. req' \in [Requests -> Request] /\ Only(r) /\ req'[r] = x
  BY <1>5, <1>6 DEF Typed, Only
<1>8. /\ fork' \in [Forks -> Fork]
      /\ \A g \in Forks \ {f} : fork'[g] = fork[g]
      /\ fork'[f] = [of |-> req[r].item, stage |-> "row", intent |-> Intent(r)]
  BY <1>1, <1>2, <1>3 DEF Typed, Intent, Fork
<1>9. Typed' /\ ReqInv' /\ SeenInv' /\ LineInv'
  <2>1. PICK pc \in Working : pc = "row" BY DEF Working
  <2>5. req[r].pc \in Working BY <1>1 DEF Working
  <2>2. /\ req'[r].pc = pc /\ req'[r].op = req[r].op /\ req'[r].item = req[r].item
        /\ req'[r].who = req[r].who /\ req'[r].seen = req[r].seen
    BY <1>5, <1>7, <2>1
  <2>3. fork' \in [Forks -> Fork]
    BY <1>8
  <2>4. UNCHANGED <<member, token, csrf, cookies, lock>> /\ req[r].op \in Forking
    BY <1>1
  <2>6. req[r].pc \in Working \/ (Holds(r) /\ Queued(r)) BY <2>5
  <2>7. Only(r) /\ req' \in [Requests -> Request] BY <1>7
  <2> QED BY <2>2, <2>3, <2>4, <2>6, <2>7, WorkKeeps
<1>10. \A i : WillContinue(i) = Continuations(i)
  BY <1>2, <1>8 DEF Continuations, WillContinue
<1>11. \A q \in Requests \ {r} : req'[q] = req[q] /\ Intent(q)' = Intent(q)
  BY <1>7 DEF Only, Intent
<1>12. Intent(r)' = Intent(r) /\ req'[r].pc = "row" /\ req'[r].fork = f
       /\ req'[r].item = req[r].item /\ req'[r].op = req[r].op
  BY <1>5, <1>7 DEF Intent
<1>13. \A q \in Requests : req[q].pc \in InHand => req[q].fork \in Forks \ {f}
  <2> SUFFICES ASSUME NEW q \in Requests, req[q].pc \in InHand
               PROVE  req[q].fork \in Forks \ {f}
    OBVIOUS
  <2>1. req[q].fork \in Forks /\ fork[req[q].fork].stage = req[q].pc BY InHandFacts
  <2> QED BY <1>2, <2>1 DEF InHand
<1>14. ForkInv'
  <2>1. ASSUME NEW q \in Requests, req'[q].pc \in InHand
        PROVE  /\ req'[q].fork \in Forks
               /\ fork'[req'[q].fork] = [of |-> req'[q].item, intent |-> Intent(q)',
                                         stage |-> req'[q].pc]
    <3>1. CASE q = r BY <1>2, <1>8, <1>12, <3>1
    <3>2. CASE q # r BY <1>8, <1>11, <1>13, <2>1, <3>2 DEF ForkInv
    <3> QED BY <3>1, <3>2
  <2>2. \A q, p \in Requests :
          req'[q].pc \in InHand /\ req'[p].pc \in InHand /\ req'[q].fork = req'[p].fork => q = p
    BY <1>11, <1>12, <1>13 DEF ForkInv
  <2>3. \A q \in Requests : req'[q].op = "continue" /\ req'[q].pc \in {"asked", "row"} =>
          WillContinue(req'[q].item) = {}
    BY <1>1, <1>10, <1>11, <1>12 DEF ForkInv
  <2>4. \A i \in Works : \A g, h \in WillContinue(i) : g = h
    BY <1>10 DEF ForkInv
  <2> QED BY <2>1, <2>2, <2>3, <2>4 DEF ForkInv, WillContinue, Continuations
<1> QED BY <1>9, <1>14

\* The fork in hand goes one stage on: a continuation that appears in the trail
\* was looked for under the lock, by the only one who works on the item.
LEMMA HandKeeps ==
  ASSUME ReviewInv, NEW r \in Requests, AuditEdge(r) \/ EnqueueFork(r)
  PROVE  ReviewInv'
<1> USE DEF ReviewInv
<1> DEFINE f == req[r].fork
           i == req[r].item
<1>1. PICK pc \in {"edge", "told"}, stage \in {"edge", "job"} :
        /\ req[r].pc \in InHand /\ Goes(r, pc)
        /\ fork' = [fork EXCEPT ![f].stage = stage]
        /\ pc = "edge" => stage = "edge"
        /\ req[r].pc = "row" \/ (stage = "job" /\ req[r].pc = "edge")
        /\ UNCHANGED <<member, token, csrf, cookies, lock>>
  BY DEF AuditEdge, EnqueueFork, InHand
<1>2. /\ f \in Forks /\ fork[f].of = i /\ fork[f].intent = Intent(r)
      /\ fork[f].stage = req[r].pc
  BY <1>1, InHandFacts
<1>3. req[r].op \in Forking /\ i \in Works /\ req[r].pc \in Working
  BY <1>1 DEF ReqInv, InHand, Working, Forking
<1>4. pc \in Pcs /\ pc \in Working BY DEF Pcs, Working
<1>5. /\ req' \in [Requests -> Request] /\ Only(r)
      /\ req'[r].pc = pc /\ req'[r].op = req[r].op /\ req'[r].who = req[r].who
      /\ req'[r].item = i /\ req'[r].fork = f /\ req'[r].seen = req[r].seen
  BY <1>1, <1>4, GoesFacts DEF Only
<1>6. /\ fork' \in [Forks -> Fork]
      /\ \A g \in Forks \ {f} : fork'[g] = fork[g]
      /\ fork'[f] = [of |-> i, intent |-> Intent(r), stage |-> stage]
  <2> DEFINE x == [of |-> i, intent |-> Intent(r), stage |-> stage]
  <2>1. fork[f] \in Fork BY <1>2 DEF Typed
  <2>2. [fork[f] EXCEPT !.stage = stage] = x /\ x \in Fork BY <1>2, <2>1 DEF Fork
  <2>3. fork' = [fork EXCEPT ![f] = x] BY <1>1, <2>2
  <2> HIDE DEF x, f
  <2>4. fork' \in [Forks -> Fork] /\ \A g \in Forks \ {f} : fork'[g] = fork[g]
    BY <1>2, <2>2, <2>3 DEF Typed
  <2>5. fork'[f] = x BY <1>2, <2>3 DEF Typed
  <2> QED BY <2>4, <2>5 DEF x
<1> HIDE DEF f, i
<1>7. Typed' /\ ReqInv' /\ SeenInv' /\ LineInv'
  <2>1. UNCHANGED <<member, token, csrf, cookies, lock>> BY <1>1
  <2>2. req[r].pc \in Working \/ (Holds(r) /\ Queued(r)) BY <1>3
  <2>3. req'[r].item = req[r].item BY <1>5 DEF i
  <2> QED BY <1>3, <1>4, <1>5, <1>6, <2>1, <2>2, <2>3, WorkKeeps
<1>8. \A j : j # i \/ req[r].op # "continue" => WillContinue(j) = Continuations(j)
  BY <1>2, <1>6 DEF Continuations, WillContinue, Intent
<1>9. \A g \in WillContinue(i) : g = f \/ g \in Continuations(i)
  BY <1>6 DEF Continuations, WillContinue
<1>10. req[r].op = "continue" /\ req[r].pc = "edge" => f \in Continuations(i)
  BY <1>2 DEF Continuations, Intent
<1>11. req[r].op = "continue" /\ req[r].pc = "row" => Continuations(i) = {}
  BY DEF ForkInv, i
<1>12. \A q \in Requests \ {r} : req'[q] = req[q] /\ Intent(q)' = Intent(q)
  BY <1>5 DEF Only, Intent
<1>13. Intent(r)' = Intent(r) BY <1>5 DEF Intent
<1>14. \A q \in Requests \ {r} : req[q].pc \in InHand => req[q].fork \in Forks \ {f}
  BY <1>1, InHandFacts DEF ForkInv, f
<1>15. ForkInv'
  <2>1. ASSUME NEW q \in Requests, req'[q].pc \in InHand
        PROVE  /\ req'[q].fork \in Forks
               /\ fork'[req'[q].fork] = [of |-> req'[q].item, intent |-> Intent(q)',
                                         stage |-> req'[q].pc]
    <3>1. CASE q = r BY <1>1, <1>2, <1>5, <1>6, <1>13, <2>1, <3>1 DEF InHand
    <3>2. CASE q # r
      <4>1. req[q].fork \in Forks \ {f} /\ req'[q] = req[q] BY <1>12, <1>14, <2>1, <3>2
      <4> QED BY <1>6, <1>12, <2>1, <3>2, <4>1 DEF ForkInv
    <3> QED BY <3>1, <3>2
  <2>2. \A q, p \in Requests :
          req'[q].pc \in InHand /\ req'[p].pc \in InHand /\ req'[q].fork = req'[p].fork => q = p
    BY <1>5, <1>12, <1>14 DEF ForkInv
  <2>3. ASSUME NEW q \in Requests, req'[q].op = "continue", req'[q].pc \in {"asked", "row"}
        PROVE  WillContinue(req'[q].item) = {}
    <3>1. q # r /\ req'[q] = req[q] BY <1>5, <1>12, <2>3
    <3>2. Continuations(req[q].item) = {} BY <2>3, <3>1 DEF ForkInv
    <3>3. CASE req[q].item = i /\ req[r].op = "continue"
      <4>1. Queued(q) /\ Queued(r) /\ req[q].pc \in Working
        BY <1>3, <2>3, <3>1, <3>3 DEF Queued, Working
      <4>2. lock[i][1] = q BY <3>3, <4>1, WorkerIsFirst
      <4>3. lock[i][1] = r BY <1>3, <4>1, WorkerIsFirst DEF i
      <4> QED BY <3>1, <4>2, <4>3
    <3> QED BY <1>8, <3>1, <3>2, <3>3
  <2>4. ASSUME NEW j \in Works, NEW g \in WillContinue(j), NEW h \in WillContinue(j)
        PROVE  g = h
    <3>1. \A k, l \in Continuations(j) : k = l BY DEF ForkInv
    <3>2. CASE j # i \/ req[r].op # "continue" BY <1>8, <2>4, <3>1, <3>2
    <3>3. CASE j = i /\ req[r].op = "continue" /\ req[r].pc = "row"
      BY <1>9, <1>11, <2>4, <3>3
    <3>4. CASE j = i /\ req[r].op = "continue" /\ req[r].pc = "edge"
      BY <1>9, <1>10, <2>4, <3>1, <3>4
    <3> QED BY <1>1, <3>2, <3>3, <3>4 DEF InHand
  <2> QED BY <2>1, <2>2, <2>3, <2>4 DEF ForkInv, WillContinue, Continuations
<1> QED BY <1>7, <1>15

\* Who has the lock gives it up when its work is done, or throws.
LEMMA LeaveKeeps ==
  ASSUME ReviewInv, NEW r \in Requests,
         Answer(r) \/ RequestThrows(r)
  PROVE  ReviewInv'
<1> USE DEF ReviewInv
<1>1. /\ req[r].op \in Forking
      /\ req[r].pc \in Working \/ Holds(r)
      /\ req[r].pc \in {"lock"} \cup Working
      /\ Ends(r) /\ lock' = Released(r)
      /\ UNCHANGED <<member, token, csrf, cookies, fork>>
  BY DEF Answer, RequestThrows, Working
<1>2. /\ req' \in [Requests -> Request] /\ Only(r)
      /\ req'[r].op = "none" /\ req'[r].pc = "idle"
  BY <1>1, EndsFacts DEF Only
<1>3. CASE req[r].op = "continue"
  <2>1. Queued(r) /\ ~WillQueue(r) BY <1>1, <1>2, <1>3 DEF Queued, WillQueue
  <2>2. req[r].item \in Works /\ lock[req[r].item] \in Seq(Requests) /\ lock[req[r].item] # <<>>
    BY <1>1, <2>1, WorkerIsFirst
  <2>3. lock' \in [Works -> Seq(Requests)]
    <3>1. \A j \in Works : lock[j] \in Seq(Requests) BY DEF Typed
    <3>2. Tail(lock[req[r].item]) \in Seq(Requests) BY <2>2, HeadTailProperties
    <3> QED BY <1>1, <3>1, <3>2 DEF Released
  <2>4. Typed' BY <1>1, <1>2, <2>3 DEF Typed
  <2>5. ReqInv' BY <1>1, <1>2 DEF ReqInv, Only, Forking
  <2>6. SeenInv' BY <1>1, <1>2 DEF SeenInv, Only, Human
  <2>7. LineInv' BY <1>1, <1>2, <2>1, LineLeaves
  <2>8. ForkInv' BY <1>1, <1>2, ForksStay DEF InHand
  <2> QED BY <2>4, <2>5, <2>6, <2>7, <2>8
<1>4. CASE req[r].op # "continue"
  <2>1. lock' = lock BY <1>1, <1>4 DEF Released, Typed
  <2> QED BY <1>1, <1>4, <2>1, EndKeeps, TokensStay DEF Queued, Typed, ReqInv
<1> QED BY <1>3, <1>4

LEMMA DeathKeeps ==
  ASSUME ReviewInv, ReviewServerDies
  PROVE  ReviewInv'
<1> USE DEF ReviewInv
<1>1. /\ req' = [r \in Requests |-> Idle] /\ lock' = [i \in Works |-> <<>>]
      /\ UNCHANGED <<member, token, csrf, cookies, fork>>
  BY DEF ReviewServerDies
<1>2. \A r \in Requests : req'[r] = Idle /\ req'[r].op = "none" /\ req'[r].pc = "idle"
  BY <1>1 DEF Idle
<1>3. Typed' BY <1>1, IdleType DEF Typed
<1>4. ReqInv' BY <1>1, <1>2 DEF ReqInv, Forking
<1>5. SeenInv' BY <1>2 DEF SeenInv, Human
<1>6. LineInv'
  <2>1. \A i \in Works : lock'[i] = <<>> BY <1>1
  <2>2. \A r \in Requests : ~WillQueue(r) BY <1>2 DEF WillQueue
  <2> QED BY <2>1, <2>2 DEF LineInv, Queued, WillQueue
<1>7. ForkInv'
  <2>1. \A i : Continuations(i)' = Continuations(i)
    BY <1>1 DEF Continuations
  <2> QED BY <1>2, <2>1 DEF ForkInv, InHand
<1> QED BY <1>3, <1>4, <1>5, <1>6, <1>7

LEMMA ReviewStep ==
  ASSUME ReviewInv, [ReviewNext]_reviewVars
  PROVE  ReviewInv'
<1>1. ASSUME NEW r \in Requests, RequestStep(r) PROVE ReviewInv'
  <2>1. CASE \E t \in Tokens : MintToken(r, t) BY <2>1, MintKeeps
  <2>2. CASE MemberAnswers(r) \/ GiveCookie(r) \/ ShowPage(r)
    BY <2>2, AnswersKeep
  <2>3. CASE ForkStep(r)
    <3>1. CASE AuditEdge(r) \/ EnqueueFork(r) BY <3>1, HandKeeps
    <3>2. CASE Answer(r) BY <3>2, LeaveKeeps
    <3> QED BY <2>3, <3>1, <3>2, CheckFormKeeps, AskKeeps, InsertKeeps DEF ForkStep
  <2> QED BY <1>1, <2>1, <2>2, <2>3 DEF RequestStep
<1>2. ASSUME NEW r \in Requests, NEW i \in Works,
             \/ ApiFork(r, i)
             \/ \E p \in Visitors : PressOpenReview(r, i, p) \/ PressRetry(r, i, p)
      PROVE  ReviewInv'
  BY <1>2, ApiKeeps, PressKeeps
<1>3. ASSUME NEW r \in Requests, NEW t \in Tokens,
             \/ Redeem(r, t) \/ ReadPage(r, t)
             \/ \E form \in 1..MaxReads : PostForm(r, t, form)
      PROVE  ReviewInv'
  BY <1>3, PageKeeps
<1>4. ASSUME NEW r \in Requests, RequestThrows(r) PROVE ReviewInv'
  BY <1>4, LeaveKeeps
<1>5. CASE \/ \E i \in Works : ItemBlocks(i)
           \/ \E p \in Visitors : Leave(p)
           \/ \E t \in Tokens : SessionExpires(t)
           \/ UNCHANGED reviewVars
  <2>1. UNCHANGED <<token, csrf, cookies, req, lock, fork>> /\ member' \subseteq member
    BY <1>5 DEF ItemBlocks, Leave, SessionExpires, reviewVars
  <2> QED BY <2>1, RestKeeps, TokensStay DEF ReviewInv
<1>6. CASE ReviewServerDies BY <1>6, DeathKeeps
<1> QED BY <1>1, <1>2, <1>3, <1>4, <1>5, <1>6 DEF ReviewNext

LEMMA ReviewInvHolds == ReviewSpec => []ReviewInv
<1>1. ReviewInit => ReviewInv BY ReviewInvInit
<1>2. ReviewInv /\ [ReviewNext]_reviewVars => ReviewInv' BY ReviewStep
<1> QED BY <1>1, <1>2, PTL DEF ReviewSpec

\* A blocked item is continued once, whatever is pressed, posted, thrown or
\* restarted: the lock of continueReview and the look for a continuation under it
\* leave at most one that has a job.
THEOREM OneContinuationHolds == ReviewSpec => []OneContinuation
<1>1. ReviewInv => OneContinuation
  BY DEF ReviewInv, ForkInv, Continuations, OneContinuation
<1> QED BY <1>1, ReviewInvHolds, PTL

\* Nobody sees or continues the work of a channel they had left before they
\* asked: every page, link and form asks the membership when it is used.
THEOREM MembersOnlyHolds == ReviewSpec => []MembersOnly
<1>1. ReviewInv => MembersOnly BY DEF ReviewInv, SeenInv, Human, MembersOnly
<1> QED BY <1>1, ReviewInvHolds, PTL
=============================================================================
