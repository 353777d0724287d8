-------------------------- MODULE SpaceTurnsProofs --------------------------
(***************************************************************************)
(* Theorems about SpaceTurns, for every finite set of messages, any number *)
(* of disposals and crashes and any hazards. One inductive invariant       *)
(* carries them all: besides the properties themselves it says where a     *)
(* message with a turn, a row or a place in the queue has got to, that     *)
(* ranks are given out upwards, and that a session not yet created has no  *)
(* turns. The last section proves what people see of the turns, of         *)
(* TurnReply, whose names are other than those of SpaceTurns.              *)
(***************************************************************************)
EXTENDS SpaceTurns, TurnReply, FiniteSetTheorems, SequenceTheorems, TLAPS

\* Sessions to come have no turns.
FreshSessions ==
  \A g \in Gens, m \in Msgs : g > gen => turn[g][m] = "none"

\* Only a message that opened its own turn or was queued has turns; only one
\* that was queued has a row or a place in the queue.
TurnsOwned ==
  \A g \in Gens, m \in Msgs :
    turn[g][m] # "none" => pc[m] \in {"queued", "turned"}
RowsOwned == \A m \in Msgs : row[m] # "none" => pc[m] = "queued"
QueueOwned == \A i \in DOMAIN queue : pc[queue[i]] = "queued"

\* The next rank is higher than all before.
RanksBounded == \A m \in Msgs : rank[m] <= queued

Inv ==
  /\ TypeOK
  /\ FreshSessions
  /\ TurnsOwned
  /\ RowsOwned
  /\ QueueOwned
  /\ RanksBounded
  /\ OneTurnAtATime
  /\ ArrivalOrder
  /\ NothingForgotten

LEMMA InvInit == Init => Inv
  <1> SUFFICES ASSUME Init PROVE Inv
    OBVIOUS
  <1>1. TypeOK
    <2>1. heir \in [Gens -> [Msgs -> (Gens \X Msgs) \cup {None}]]
      BY DEF Init, None
    <2>2. turn \in [Gens -> [Msgs -> Stages]] /\ pc \in [Msgs -> Places]
      BY DEF Init, Stages, Places
    <2>3. /\ gen \in 0..(MaxEnds + 1)
          /\ ends \in 0..MaxEnds
          /\ mode = "none"
          /\ mode # "live" => gen <= ends
          /\ gen <= ends + 1
      BY EndsAssumption DEF Init
    <2>4. /\ row \in [Msgs -> {"none", "pending", "claimed", "lapsed", "done"}]
          /\ rank \in [Msgs -> Nat]
          /\ queued \in Nat
          /\ queue \in Seq(Msgs)
          /\ queue = <<>>
      BY DEF Init
    <2>5. /\ dm \in BOOLEAN
          /\ requestActive \in BOOLEAN
          /\ requestActive => dm
          /\ stalled \in BOOLEAN
      BY DEF Init
    <2>6. deferred \subseteq Msgs /\ orphans \subseteq Msgs /\ missed \subseteq Msgs
      BY DEF Init
    <2> QED BY <2>1, <2>2, <2>3, <2>4, <2>5, <2>6 DEF TypeOK
  <1>2. FreshSessions /\ TurnsOwned /\ RowsOwned /\ QueueOwned /\ RanksBounded
    BY DEF Init, FreshSessions, TurnsOwned, RowsOwned, QueueOwned, RanksBounded
  <1>3. OneTurnAtATime /\ ArrivalOrder /\ NothingForgotten
    BY DEF Init, OneTurnAtATime, ArrivalOrder, NothingForgotten, Queued
  <1> QED BY <1>1, <1>2, <1>3 DEF Inv

-----------------------------------------------------------------------------
(* Facts about the state that several steps need.                          *)

LEMMA LiveSession ==
  ASSUME TypeOK, mode \in {"live", "disposing"}
  PROVE  gen \in Gens /\ gen \in Nat /\ gen > 0
  BY EndsAssumption DEF TypeOK, Gens

LEMMA NextIsFree ==
  ASSUME Inv, mode = "live", queue # <<>>
  PROVE  /\ Head(queue) \in Msgs
         /\ Head(queue) \in Queued
         /\ pc[Head(queue)] = "queued"
         /\ turn[gen][Head(queue)] = "none"
         /\ Tail(queue) \in Seq(Msgs)
         /\ \A i \in DOMAIN Tail(queue) :
              /\ i \in Nat
              /\ i + 1 \in DOMAIN queue
              /\ Tail(queue)[i] = queue[i + 1]
              /\ rank[Head(queue)] < rank[Tail(queue)[i]]
         /\ \A n \in Queued :
              n = Head(queue) \/ \E i \in DOMAIN Tail(queue) : n = Tail(queue)[i]
  <1>1. /\ queue \in Seq(Msgs)
        /\ Head(queue) = queue[1]
        /\ 1 \in DOMAIN queue
        /\ Head(queue) \in Msgs
        /\ Tail(queue) \in Seq(Msgs)
        /\ \A i \in DOMAIN queue : i \in Nat /\ i >= 1
    BY DEF Inv, TypeOK
  <1>2. \A i \in DOMAIN Tail(queue) :
          i \in Nat /\ i >= 1 /\ i + 1 \in DOMAIN queue /\ Tail(queue)[i] = queue[i + 1]
    BY <1>1
  <1>3. \A i \in DOMAIN queue : i # 1 => i - 1 \in DOMAIN Tail(queue)
                                        /\ queue[i] = Tail(queue)[i - 1]
    BY <1>1
  <1>4. Head(queue) \in Queued /\ pc[Head(queue)] = "queued"
    BY <1>1 DEF Inv, QueueOwned, Queued
  <1>5. turn[gen][Head(queue)] = "none"
    BY <1>1, <1>4, LiveSession DEF Inv, ArrivalOrder, TypeOK
  <1>6. \A i \in DOMAIN Tail(queue) : rank[Head(queue)] < rank[Tail(queue)[i]]
    BY <1>1, <1>2 DEF Inv, ArrivalOrder
  <1>7. \A n \in Queued :
          n = Head(queue) \/ \E i \in DOMAIN Tail(queue) : n = Tail(queue)[i]
    BY <1>1, <1>3 DEF Queued
  <1> QED BY <1>1, <1>2, <1>4, <1>5, <1>6, <1>7

-----------------------------------------------------------------------------
(* A handler at its session.                                               *)

\* What the steps of a handler assume of it and leave alone.
Arriving(m, active) ==
  /\ pc[m] \in {"new", "ingest", "waiting"}
  /\ active \in BOOLEAN
  /\ active => dm
  /\ deferred' \subseteq Msgs
  /\ UNCHANGED <<dm, orphans, gen, heir, ends>>

LEMMA OpenTurnKeeps ==
  ASSUME Inv, NEW m \in Msgs, NEW active, Arriving(m, active),
         mode = "live", ~IsStreaming, OpenTurn(m, active), UNCHANGED mode
  PROVE  Inv'
  <1> USE DEF OpenTurn, Arriving, Inv, table, order
  <1>0. gen \in Gens /\ gen > 0 /\ gen \in Nat
    BY LiveSession
  <1>1. /\ turn' \in [Gens -> [Msgs -> Stages]]
        /\ turn'[gen][m] = "reapply"
        /\ \A g \in Gens, n \in Msgs : g # gen \/ n # m => turn'[g][n] = turn[g][n]
    BY <1>0 DEF TypeOK, Stages
  <1>2. /\ pc' \in [Msgs -> Places]
        /\ pc'[m] = "turned"
        /\ \A n \in Msgs : n # m => pc'[n] = pc[n]
    BY DEF TypeOK, Places
  <1>3. /\ turn[gen][m] = "none"
        /\ row[m] = "none"
        /\ \A i \in DOMAIN queue : queue[i] # m
    BY <1>0 DEF TurnsOwned, RowsOwned, QueueOwned
  <1>4. TypeOK'
    BY <1>1, <1>2 DEF TypeOK
  <1>5. FreshSessions'
    BY <1>0, <1>1 DEF FreshSessions
  <1>6. TurnsOwned' /\ RowsOwned' /\ QueueOwned'
    BY <1>1, <1>2, <1>3 DEF TurnsOwned, RowsOwned, QueueOwned, TypeOK
  <1>7. RanksBounded'
    BY DEF RanksBounded
  <1>8. OneTurnAtATime'
    BY <1>1 DEF OneTurnAtATime, IsStreaming
  <1>9. ArrivalOrder'
    BY <1>0, <1>1, <1>2, <1>3 DEF ArrivalOrder, Queued
  <1>10. NothingForgotten'
    <2>1. \A g \in Gens, n \in Msgs : Settled(g, n) => Settled(g, n)'
      BY <1>1, <1>3 DEF Settled
    <2>2. \A n \in Msgs : row[n] = "pending" => n # m
      BY <1>3
    <2> QED BY <1>0, <1>1, <2>1, <2>2 DEF NothingForgotten, Queued
  <1> QED BY <1>4, <1>5, <1>6, <1>7, <1>8, <1>9, <1>10

LEMMA EnqueueKeeps ==
  ASSUME Inv, NEW m \in Msgs, NEW active, Arriving(m, active),
         mode = "live", Enqueue(m, active), UNCHANGED mode
  PROVE  Inv'
  <1> USE DEF Enqueue, Arriving, Inv
  <1>0. gen \in Gens /\ gen > 0 /\ gen \in Nat
    BY LiveSession
  <1>1. /\ pc' \in [Msgs -> Places]
        /\ pc'[m] = "queued"
        /\ \A n \in Msgs : n # m => pc'[n] = pc[n]
    BY DEF TypeOK, Places
  <1>2. /\ queue' \in Seq(Msgs)
        /\ Len(queue) \in Nat
        /\ DOMAIN queue = 1..Len(queue)
        /\ DOMAIN queue' = 1..(Len(queue) + 1)
        /\ queue'[Len(queue) + 1] = m
        /\ \A i \in DOMAIN queue : queue'[i] = queue[i] /\ queue[i] \in Msgs
    BY DEF TypeOK
  <1>3. /\ rank' \in [Msgs -> Nat]
        /\ queued \in Nat
        /\ queued' = queued + 1
        /\ rank'[m] = queued + 1
        /\ \A n \in Msgs : n # m => rank'[n] = rank[n] /\ rank[n] \in Nat
    BY DEF TypeOK
  <1>4. /\ row[m] = "none"
        /\ \A g \in Gens : turn[g][m] = "none"
        /\ \A i \in DOMAIN queue : queue[i] # m
    BY DEF TurnsOwned, RowsOwned, QueueOwned
  <1>5. Queued' = Queued \cup {m}
    BY <1>2 DEF Queued
  <1>6. /\ row' \in [Msgs -> {"none", "pending", "claimed", "lapsed", "done"}]
        /\ row'[m] \in {"none", "pending"}
        /\ \A n \in Msgs : n # m => row'[n] = row[n]
        /\ missed' \subseteq Msgs
        /\ missed \subseteq missed'
    BY <1>4 DEF TypeOK
  <1>7. TypeOK'
    BY <1>1, <1>2, <1>3, <1>6 DEF TypeOK
  <1>8. FreshSessions' /\ OneTurnAtATime'
    BY DEF FreshSessions, OneTurnAtATime
  <1>9. TurnsOwned' /\ RowsOwned'
    BY <1>1, <1>6 DEF TurnsOwned, RowsOwned
  <1>10. QueueOwned'
    BY <1>1, <1>2, <1>4 DEF QueueOwned
  <1>11. RanksBounded'
    BY <1>3 DEF RanksBounded
  <1>12. ArrivalOrder'
    <2>1. ASSUME NEW i \in DOMAIN queue', NEW j \in DOMAIN queue', i < j
          PROVE  rank'[queue'[i]] < rank'[queue'[j]]
      <3>1. i \in DOMAIN queue /\ rank'[queue'[i]] = rank[queue[i]]
        BY <1>2, <1>3, <1>4, <2>1
      <3>2. CASE j = Len(queue) + 1
        BY <1>2, <1>3, <3>1, <3>2 DEF RanksBounded
      <3>3. CASE j # Len(queue) + 1
        <4>1. j \in DOMAIN queue
          BY <1>2, <3>3
        <4> QED BY <1>2, <1>3, <1>4, <2>1, <3>1, <4>1 DEF ArrivalOrder
      <3> QED BY <3>2, <3>3
    <2>2. ASSUME NEW n \in Msgs, NEW k \in Queued',
                 pc'[n] = "queued", turn'[gen'][n] # "none"
          PROVE  rank'[n] < rank'[k]
      <3>1. n # m /\ rank'[n] = rank[n]
        BY <1>0, <1>3, <1>4, <2>2
      <3>2. CASE k = m
        BY <1>3, <3>1, <3>2 DEF RanksBounded
      <3>3. CASE k # m
        <4>1. k \in Queued /\ k \in Msgs
          BY <1>2, <1>5, <3>3 DEF Queued
        <4> QED BY <1>0, <1>1, <1>3, <2>2, <3>1, <3>3, <4>1 DEF ArrivalOrder
      <3> QED BY <3>2, <3>3
    <2> QED BY <2>1, <2>2 DEF ArrivalOrder
  <1>13. NothingForgotten'
    BY <1>5, <1>6 DEF NothingForgotten, Settled
  <1> QED BY <1>7, <1>8, <1>9, <1>10, <1>11, <1>12, <1>13

\* A handler that steers, waits for the session or gives up touches no turn,
\* no row and no queue.
LEMMA MovingOnKeeps ==
  ASSUME Inv, NEW m \in Msgs, pc[m] \notin {"queued", "turned"},
         NEW p \in Places, pc' = [pc EXCEPT ![m] = p],
         requestActive' \in BOOLEAN, requestActive' => dm,
         deferred' \subseteq Msgs,
         \/ UNCHANGED mode
         \/ mode \in {"none", "creating"} /\ mode' = "creating",
         UNCHANGED <<dm, orphans, gen, turn, heir, queue, table, order, stalled,
                     ends>>
  PROVE  Inv'
  <1> USE DEF Inv, table, order
  <1>1. /\ pc' \in [Msgs -> Places]
        /\ \A n \in Msgs : pc[n] \in {"queued", "turned"} => pc'[n] = pc[n]
        /\ \A n \in Msgs : n # m => pc'[n] = pc[n]
    BY DEF TypeOK
  <1>2. /\ \A g \in Gens : turn[g][m] = "none"
        /\ row[m] = "none"
        /\ \A i \in DOMAIN queue : queue[i] # m /\ queue[i] \in Msgs
    BY DEF TurnsOwned, RowsOwned, QueueOwned, TypeOK
  <1>3. TypeOK'
    BY <1>1 DEF TypeOK
  <1>4. FreshSessions' /\ RanksBounded' /\ OneTurnAtATime' /\ NothingForgotten'
    BY DEF FreshSessions, RanksBounded, OneTurnAtATime, NothingForgotten, Settled, Queued
  <1>5. TurnsOwned' /\ RowsOwned' /\ QueueOwned'
    BY <1>1, <1>2 DEF TurnsOwned, RowsOwned, QueueOwned
  <1>6. ArrivalOrder'
    <2>1. gen > 0 => gen \in Gens
      BY EndsAssumption DEF TypeOK, Gens
    <2> QED BY <1>1, <1>2, <2>1 DEF ArrivalOrder, Queued
  <1> QED BY <1>3, <1>4, <1>5, <1>6

LEMMA ToSessionKeeps ==
  ASSUME Inv, NEW m \in Msgs, NEW active, Arriving(m, active), ToSession(m, active)
  PROVE  Inv'
  <1>1. CASE mode = "live" /\ Take(m, active) /\ UNCHANGED mode
    <2>1. CASE Enqueue(m, active)
      BY <1>1, <2>1, EnqueueKeeps
    <2>2. CASE ~IsStreaming /\ OpenTurn(m, active)
      BY <1>1, <2>2, OpenTurnKeeps
    <2>3. CASE Steer(m, active)
      <3>1. /\ requestActive' \in BOOLEAN
            /\ requestActive' => dm
        BY <2>3 DEF Steer, Arriving, Inv, TypeOK
      <3> QED BY <1>1, <2>3, <3>1, MovingOnKeeps DEF Steer, Arriving, Places
    <2> QED BY <1>1, <2>1, <2>2, <2>3 DEF Take
  <1>2. CASE mode \in {"none", "creating"}
    BY <1>2, MovingOnKeeps DEF ToSession, Arriving, Places
  <1>3. CASE mode = "disposing"
    BY <1>3, MovingOnKeeps DEF ToSession, Arriving, Places
  <1> QED BY <1>1, <1>2, <1>3 DEF ToSession

LEMMA ReceiveKeeps ==
  ASSUME Inv, NEW m \in Msgs, Receive(m)
  PROVE  Inv'
  <1> DEFINE active == IF mode = "live" /\ IsStreaming THEN requestActive ELSE dm
  <1>1. Arriving(m, active)
    BY DEF Arriving, Receive, Inv, TypeOK
  <1>2. CASE ToSession(m, active)
    BY <1>1, <1>2, ToSessionKeeps
  <1>3. CASE /\ pc' = [pc EXCEPT ![m] = "ingest"]
             /\ requestActive' = active
             /\ UNCHANGED <<mode, turn, queue, table, order, stalled>>
    BY <1>1, <1>3, MovingOnKeeps DEF Arriving, Places
  <1> QED BY <1>2, <1>3 DEF Receive

-----------------------------------------------------------------------------
(* The turns.                                                              *)

\* A turn that moves on stays out of the way: the turns are as in t, which
\* has ended or settled some of those in flight and started none.
WindsDown(t) ==
  /\ t \in [Gens -> [Msgs -> Stages]]
  /\ \A g \in Gens, n \in Msgs :
       /\ turn[g][n] = "none" <=> t[g][n] = "none"
       /\ t[g][n] \in InFlight => turn[g][n] \in InFlight
       /\ Settled(g, n) => t[g][n] \in {"settle", "over", "unmarked"}

\* The rows after a turn moved on: at most some are done, and only of
\* messages whose turn, as in t, settled; a row that stays pending although
\* its message left the queue for good is one that was missed.
RowsFollow(t) ==
  /\ row' \in [Msgs -> {"none", "pending", "claimed", "lapsed", "done"}]
  /\ missed \subseteq missed' /\ missed' \subseteq Msgs
  /\ \A n \in Msgs :
       /\ row[n] = "none" => row'[n] = "none"
       /\ row'[n] # row[n] =>
            /\ row'[n] = "done"
            /\ \E g \in Gens : t[g][n] \in {"settle", "over", "unmarked"}
       /\ /\ mode = "live" /\ row'[n] = "pending" /\ n \notin missed'
          /\ turn[gen][n] \in InFlight \cup {"settle"}
          => t[gen][n] \in InFlight \cup {"settle"}

LEMMA TurnsMoveOn ==
  ASSUME Inv, NEW t, WindsDown(t), RowsFollow(t),
         \/ turn' = t /\ UNCHANGED queue
         \/ Drains(t) /\ Drain(t),
         requestActive' \in BOOLEAN, requestActive' => dm,
         stalled' \in BOOLEAN,
         heir' \in [Gens -> [Msgs -> (Gens \X Msgs) \cup {None}]],
         pc' \in [Msgs -> Places],
         \A n \in Msgs : (pc[n] \in {"queued", "turned"} \/ pc'[n] \in {"queued", "turned"})
                           => pc'[n] = pc[n],
         UNCHANGED <<dm, acked, session, order, ends>>
  PROVE  Inv'
  <1> USE DEF Inv, acked, session, order, WindsDown
  <1>0. mode = "live" => gen \in Gens /\ gen > 0 /\ gen \in Nat
    BY LiveSession
  <1>a. gen > 0 => gen \in Gens
    BY EndsAssumption DEF TypeOK, Gens
  <1>1. CASE turn' = t /\ UNCHANGED queue
    <2>1. TypeOK'
      BY <1>1 DEF TypeOK, RowsFollow
    <2>2. FreshSessions' /\ TurnsOwned' /\ RanksBounded'
      BY <1>1 DEF FreshSessions, TurnsOwned, RanksBounded
    <2>3. RowsOwned' /\ QueueOwned'
      BY <1>1 DEF RowsOwned, QueueOwned, RowsFollow, TypeOK
    <2>4. OneTurnAtATime'
      BY <1>0, <1>1 DEF OneTurnAtATime
    <2>5. ArrivalOrder'
      BY <1>a, <1>1 DEF ArrivalOrder, Queued
    <2>6. NothingForgotten'
      <3>1. \A g \in Gens, n \in Msgs :
              Settled(g, n) \/ t[g][n] \in {"settle", "over", "unmarked"} => Settled(g, n)'
        BY <1>1 DEF Settled
      <3>2. \A n \in Msgs : row'[n] = "done" => \E g \in Gens : Settled(g, n)'
        BY <3>1 DEF NothingForgotten, RowsFollow
      <3>3. ASSUME mode' = "live", NEW n \in Msgs, row'[n] = "pending", n \notin missed'
            PROVE  n \in Queued' \/ turn'[gen'][n] \in InFlight \cup {"settle"}
        <4>1. row[n] = "pending" /\ n \notin missed /\ mode = "live"
          BY <3>3 DEF RowsFollow
        <4>2. n \in Queued \/ turn[gen][n] \in InFlight \cup {"settle"}
          BY <4>1 DEF NothingForgotten
        <4> QED BY <1>1, <3>3, <4>1, <4>2 DEF RowsFollow, Queued
      <3> QED BY <3>2, <3>3 DEF NothingForgotten
    <2> QED BY <2>1, <2>2, <2>3, <2>4, <2>5, <2>6
  <1>2. CASE Drains(t) /\ Drain(t)
    <2> DEFINE h == Head(queue)
    <2>0. mode = "live" /\ queue # <<>> /\ \A n \in Msgs : t[gen][n] \notin InFlight
      BY <1>2 DEF Drains
    <2>1. /\ h \in Msgs /\ h \in Queued /\ pc[h] = "queued"
          /\ turn[gen][h] = "none"
          /\ Tail(queue) \in Seq(Msgs)
          /\ \A i \in DOMAIN Tail(queue) :
               /\ i \in Nat
               /\ i + 1 \in DOMAIN queue
               /\ Tail(queue)[i] = queue[i + 1]
               /\ rank[h] < rank[Tail(queue)[i]]
          /\ \A n \in Queued :
               n = h \/ \E i \in DOMAIN Tail(queue) : n = Tail(queue)[i]
      BY <2>0, NextIsFree
    <2>2. queue' = Tail(queue)
      BY <1>2 DEF Drain
    <2>3. /\ turn' \in [Gens -> [Msgs -> Stages]]
          /\ turn'[gen][h] = "reapply"
          /\ \A g \in Gens, n \in Msgs : g # gen \/ n # h => turn'[g][n] = t[g][n]
      BY <1>0, <1>2, <2>0, <2>1 DEF Drain, Stages
    <2> HIDE DEF h
    <2>4. /\ Queued' \subseteq Queued
          /\ \A n \in Queued : n = h \/ n \in Queued'
      BY <2>1, <2>2 DEF Queued
    <2>5. TypeOK'
      BY <2>0, <2>1, <2>2, <2>3 DEF TypeOK, RowsFollow
    <2>6. FreshSessions'
      BY <1>0, <2>0, <2>3 DEF FreshSessions
    <2>7. TurnsOwned' /\ RanksBounded'
      <3>1. ASSUME NEW g \in Gens, NEW n \in Msgs, turn'[g][n] # "none"
            PROVE  pc'[n] \in {"queued", "turned"}
        <4>1. CASE g = gen /\ n = h
          BY <2>1, <4>1
        <4>2. CASE g # gen \/ n # h
          <5>1. turn'[g][n] = t[g][n]
            BY <2>3, <4>2
          <5>2. turn[g][n] # "none"
            BY <3>1, <5>1
          <5> QED BY <5>2 DEF TurnsOwned
        <4> QED BY <4>1, <4>2
      <3> QED BY <3>1 DEF TurnsOwned, RanksBounded
    <2>8. RowsOwned'
      BY DEF RowsOwned, RowsFollow
    <2>9. QueueOwned'
      BY <2>1, <2>2 DEF QueueOwned, TypeOK
    <2>10. OneTurnAtATime'
      BY <1>0, <2>0, <2>1, <2>3 DEF OneTurnAtATime
    <2>11. ArrivalOrder'
      <3>1. \A i, j \in DOMAIN queue' : i < j => rank'[queue'[i]] < rank'[queue'[j]]
        BY <2>1, <2>2 DEF ArrivalOrder
      <3>2. ASSUME NEW n \in Msgs, NEW k \in Queued',
                   pc'[n] = "queued", turn'[gen'][n] # "none"
            PROVE  rank'[n] < rank'[k]
        <4>1. CASE n = h
          BY <2>1, <2>2, <4>1 DEF Queued
        <4>2. CASE n # h
          BY <1>0, <2>0, <2>3, <2>4, <3>2, <4>2 DEF ArrivalOrder
        <4> QED BY <4>1, <4>2
      <3> QED BY <3>1, <3>2 DEF ArrivalOrder
    <2>12. NothingForgotten'
      <3>1. \A g \in Gens, n \in Msgs :
              Settled(g, n) \/ t[g][n] \in {"settle", "over", "unmarked"} => Settled(g, n)'
        BY <1>0, <2>0, <2>1, <2>3 DEF Settled
      <3>2. \A n \in Msgs : row'[n] = "done" => \E g \in Gens : Settled(g, n)'
        BY <3>1 DEF NothingForgotten, RowsFollow
      <3>3. ASSUME NEW n \in Msgs, row'[n] = "pending", n \notin missed'
            PROVE  n \in Queued' \/ turn'[gen][n] \in InFlight \cup {"settle"}
        <4>1. CASE n = h
          BY <2>3, <4>1 DEF InFlight
        <4>2. CASE n # h
          <5>1. row[n] = "pending" /\ n \notin missed
            BY <3>3 DEF RowsFollow
          <5> QED BY <1>0, <2>0, <2>3, <2>4, <3>3, <4>2, <5>1 DEF NothingForgotten, RowsFollow
        <4> QED BY <4>1, <4>2
      <3> QED BY <3>2, <3>3 DEF NothingForgotten
    <2> QED BY <2>5, <2>6, <2>7, <2>8, <2>9, <2>10, <2>11, <2>12
  <1> QED BY <1>1, <1>2

\* One turn, of m on session g, moves on to stage st.
LEMMA OneWindsDown ==
  ASSUME Inv, NEW g \in Gens, NEW m \in Msgs, NEW st \in Stages,
         \/ turn[g][m] \in InFlight /\ st \in {"prompt", "settle", "over"}
         \/ turn[g][m] = "settle" /\ st = "over"
  PROVE  /\ WindsDown([turn EXCEPT ![g][m] = st])
         /\ [turn EXCEPT ![g][m] = st][g][m] = st
         /\ \A k \in Gens, n \in Msgs :
              k # g \/ n # m => [turn EXCEPT ![g][m] = st][k][n] = turn[k][n]
  BY DEF Inv, TypeOK, WindsDown, InFlight, Settled

LEMMA CompleteFollows ==
  ASSUME Inv, NEW g \in Gens, NEW m \in Msgs, Complete(m),
         turn[g][m] \in InFlight \cup {"settle"}
  PROVE  RowsFollow([turn EXCEPT ![g][m] = "over"])
  <1> DEFINE t == [turn EXCEPT ![g][m] = "over"]
  <1>1. /\ t[g][m] = "over"
        /\ \A k \in Gens, n \in Msgs : k # g \/ n # m => t[k][n] = turn[k][n]
    BY DEF Inv, TypeOK
  <1>2. /\ row' \in [Msgs -> {"none", "pending", "claimed", "lapsed", "done"}]
        /\ missed \subseteq missed' /\ missed' \subseteq Msgs
        /\ \A n \in Msgs : n # m => row'[n] = row[n]
        /\ row'[m] = row[m] \/ row'[m] = "done"
        /\ row[m] = "none" => row'[m] = "none"
        /\ row'[m] = "pending" => m \in missed'
    BY DEF Complete, Inv, TypeOK
  <1>3. mode = "live" => gen \in Gens
    BY LiveSession DEF Inv
  <1> HIDE DEF t
  <1>4. RowsFollow(t)
    BY <1>1, <1>2, <1>3 DEF RowsFollow
  <1> QED BY <1>4 DEF t

LEMMA SameRowsFollow ==
  ASSUME Inv, NEW g \in Gens, NEW m \in Msgs, NEW st \in {"prompt", "settle"},
         turn[g][m] \in InFlight, UNCHANGED table
  PROVE  RowsFollow([turn EXCEPT ![g][m] = st])
  <1>1. mode = "live" => gen \in Gens
    BY LiveSession DEF Inv
  <1> QED BY <1>1 DEF RowsFollow, Inv, TypeOK, table, InFlight

LEMMA PromptKeeps ==
  ASSUME Inv, NEW g \in Gens, NEW m \in Msgs, Prompt(g, m)
  PROVE  Inv'
  <1>1. /\ turn[g][m] \in InFlight
        /\ WindsDown([turn EXCEPT ![g][m] = "prompt"])
        /\ RowsFollow([turn EXCEPT ![g][m] = "prompt"])
    BY OneWindsDown, SameRowsFollow DEF Prompt, InFlight, Stages
  <1>2. /\ requestActive' \in BOOLEAN
        /\ requestActive' => dm
        /\ stalled' \in BOOLEAN
        /\ heir' \in [Gens -> [Msgs -> (Gens \X Msgs) \cup {None}]]
        /\ pc' \in [Msgs -> Places]
    BY DEF Prompt, Inv, TypeOK, handlers
  <1> QED BY <1>1, <1>2, TurnsMoveOn DEF Prompt, handlers

LEMMA SettleKeeps ==
  ASSUME Inv, NEW g \in Gens, NEW m \in Msgs, turn[g][m] \in InFlight,
         \/ SettleTurn(g, m, [turn EXCEPT ![g][m] = "over"])
         \/ /\ Drains([turn EXCEPT ![g][m] = "over"])
            /\ RequestPending /\ SettleInto(g, m)
         \/ /\ Drains([turn EXCEPT ![g][m] = "over"])
            /\ Drain([turn EXCEPT ![g][m] = "over"])
            /\ requestActive' = FALSE
            /\ Complete(m)
            /\ UNCHANGED heir,
         stalled' \in BOOLEAN,
         UNCHANGED <<dm, handlers, session, order, ends>>
  PROVE  Inv'
  <1> DEFINE over == [turn EXCEPT ![g][m] = "over"]
             settle == [turn EXCEPT ![g][m] = "settle"]
  <1>1. WindsDown(over) /\ WindsDown(settle)
    BY OneWindsDown DEF Stages
  <1>2. pc' \in [Msgs -> Places]
    BY DEF Inv, TypeOK, handlers
  <1>3. CASE SettleTurn(g, m, over)
    <2>1. RowsFollow(over)
      BY <1>3, CompleteFollows DEF SettleTurn
    <2>2. heir' \in [Gens -> [Msgs -> (Gens \X Msgs) \cup {None}]]
      BY <1>3 DEF SettleTurn, Inv, TypeOK
    <2> HIDE DEF over
    <2> QED BY <1>1, <1>2, <1>3, <2>1, <2>2, TurnsMoveOn DEF SettleTurn, handlers
  <1>4. CASE Drains(over) /\ RequestPending /\ SettleInto(g, m)
    <2>1. RowsFollow(settle)
      BY <1>4, SameRowsFollow DEF SettleInto
    <2>2. mode = "live" /\ queue # <<>>
      BY <1>4 DEF Drains
    <2>3. heir' \in [Gens -> [Msgs -> (Gens \X Msgs) \cup {None}]]
      <3>1. gen \in Gens /\ Head(queue) \in Msgs
        BY <2>2, LiveSession, NextIsFree DEF Inv
      <3> QED BY <1>4, <3>1 DEF SettleInto, Inv, TypeOK
    <2>4. requestActive' \in BOOLEAN /\ (requestActive' => dm)
      BY <1>4 DEF SettleInto, RequestPending, Inv, TypeOK
    <2>5. Drains(settle)
      <3>1. gen \in Gens
        BY <2>2, LiveSession DEF Inv
      <3>2. \A n \in Msgs : over[gen][n] \notin InFlight
        BY <1>4 DEF Drains
      <3>3. \A n \in Msgs : settle[gen][n] \notin InFlight
        BY <3>1, <3>2 DEF InFlight, Inv, TypeOK
      <3> QED BY <2>2, <3>3 DEF Drains
    <2>6. Drain(settle)
      BY <1>4 DEF SettleInto
    <2> HIDE DEF settle, over
    <2> QED BY <1>1, <1>2, <2>1, <2>3, <2>4, <2>5, <2>6, TurnsMoveOn DEF handlers
  <1>5. CASE /\ Drains(over)
             /\ Drain(over)
             /\ requestActive' = FALSE
             /\ Complete(m)
             /\ UNCHANGED heir
    <2>1. RowsFollow(over)
      BY <1>5, CompleteFollows
    <2>2. heir' \in [Gens -> [Msgs -> (Gens \X Msgs) \cup {None}]]
      BY <1>5 DEF Inv, TypeOK
    <2> HIDE DEF over
    <2> QED BY <1>1, <1>2, <1>5, <2>1, <2>2, TurnsMoveOn DEF handlers
  <1> QED BY <1>3, <1>4, <1>5

LEMMA RunEndsKeeps ==
  ASSUME Inv, NEW g \in Gens, NEW m \in Msgs, RunEnds(g, m)
  PROVE  Inv'
  <1>1. turn[g][m] \in InFlight /\ stalled' \in BOOLEAN
    BY DEF RunEnds, InFlight, Inv, TypeOK
  <1> QED BY <1>1, SettleKeeps DEF RunEnds

LEMMA PromptFailsKeeps ==
  ASSUME Inv, NEW g \in Gens, NEW m \in Msgs, PromptFails(g, m)
  PROVE  Inv'
  <1>1. turn[g][m] \in InFlight /\ stalled' \in BOOLEAN
    BY DEF PromptFails, Inv, TypeOK
  <1>2. CASE SettleTurn(g, m, [turn EXCEPT ![g][m] = "over"])
    BY <1>1, <1>2, SettleKeeps DEF PromptFails
  <1>3. CASE /\ RequestPending
             /\ Drains([turn EXCEPT ![g][m] = "over"])
             /\ SettleInto(g, m)
    BY <1>1, <1>3, SettleKeeps DEF PromptFails
  <1> QED BY <1>2, <1>3 DEF PromptFails

LEMMA SettlementEndsKeeps ==
  ASSUME Inv, NEW g \in Gens, NEW m \in Msgs, SettlementEnds(g, m)
  PROVE  Inv'
  <1> DEFINE over == [turn EXCEPT ![g][m] = "over"]
  <1>1. WindsDown(over) /\ RowsFollow(over)
    BY OneWindsDown, CompleteFollows DEF SettlementEnds, Stages
  <1>2. /\ requestActive' \in BOOLEAN
        /\ requestActive' => dm
        /\ stalled' \in BOOLEAN
        /\ heir' \in [Gens -> [Msgs -> (Gens \X Msgs) \cup {None}]]
        /\ pc' \in [Msgs -> Places]
        /\ turn' = over
    BY DEF SettlementEnds, Inv, TypeOK, handlers
  <1> HIDE DEF over
  <1> QED BY <1>1, <1>2, TurnsMoveOn DEF SettlementEnds, handlers

LEMMA SteerSettlesKeeps ==
  ASSUME Inv, NEW m \in Msgs, SteerSettles(m)
  PROVE  Inv'
  <1>1. WindsDown(turn) /\ RowsFollow(turn)
    BY DEF WindsDown, RowsFollow, SteerSettles, table, Inv, TypeOK, Settled
  <1>2. /\ requestActive' \in BOOLEAN
        /\ requestActive' => dm
        /\ stalled' \in BOOLEAN
        /\ heir' \in [Gens -> [Msgs -> (Gens \X Msgs) \cup {None}]]
        /\ pc' \in [Msgs -> Places]
    BY DEF SteerSettles, Inv, TypeOK, Places, RequestPending, Drains
  <1>3. \A n \in Msgs :
          pc[n] \in {"queued", "turned"} \/ pc'[n] \in {"queued", "turned"}
            => pc'[n] = pc[n]
    BY DEF SteerSettles, Inv, TypeOK
  <1> QED BY <1>1, <1>2, <1>3, TurnsMoveOn DEF SteerSettles

-----------------------------------------------------------------------------
(* The session's life.                                                     *)

LEMMA ClaimsInOrder ==
  ASSUME TypeOK, NEW q \in InIdOrder(Recoverable)
  PROVE  /\ q \in Seq(Msgs)
         /\ \A i \in DOMAIN q : q[i] \in Recoverable
         /\ \A i, j \in DOMAIN q : i < j => rank[q[i]] < rank[q[j]]
  <1>1. Cardinality(Recoverable) \in Nat
    BY MsgsAssumption, FS_Subset, FS_CardinalityType DEF Recoverable
  <1>2. q \in [1..Cardinality(Recoverable) -> Recoverable]
    BY DEF InIdOrder
  <1>3. q \in Seq(Recoverable)
    BY <1>1, <1>2
  <1>4. q \in Seq(Msgs) /\ \A i \in DOMAIN q : q[i] \in Recoverable
    BY <1>2, <1>3 DEF Recoverable
  <1> QED BY <1>2, <1>4 DEF InIdOrder

LEMMA CreateLiveKeeps ==
  ASSUME Inv, CreateLive
  PROVE  Inv'
  <1> USE DEF Inv, CreateLive, handlers, acked, order
  <1>1. /\ gen \in Nat
        /\ gen' = gen + 1
        /\ gen' \in 0..(MaxEnds + 1)
        /\ gen' \in Gens
        /\ gen' <= ends + 1
        /\ mode' = "live"
        /\ queue = <<>>
    BY EndsAssumption DEF TypeOK, Gens
  <1>2. \A n \in Msgs : turn[gen'][n] = "none"
    BY <1>1 DEF FreshSessions
  <1>3. /\ queue' \in Seq(Msgs)
        /\ \A i \in DOMAIN queue' : pc[queue'[i]] = "queued"
        /\ \A i, j \in DOMAIN queue' : i < j => rank[queue'[i]] < rank[queue'[j]]
    <2>1. CASE \E q \in InIdOrder(Recoverable) : queue' = queue \o q
      <3>1. PICK q \in InIdOrder(Recoverable) : queue' = queue \o q
        BY <2>1
      <3>2. /\ q \in Seq(Msgs)
            /\ \A i \in DOMAIN q : q[i] \in Recoverable
            /\ \A i, j \in DOMAIN q : i < j => rank[q[i]] < rank[q[j]]
        BY ClaimsInOrder
      <3>3. queue' = q
        BY <1>1, <3>1, <3>2
      <3>4. \A n \in Recoverable : pc[n] = "queued"
        BY DEF Recoverable, RowsOwned
      <3> QED BY <3>2, <3>3, <3>4
    <2>2. CASE UNCHANGED queue
      BY <1>1, <2>2
    <2> QED BY <2>1, <2>2
  <1>4. /\ row' \in [Msgs -> {"none", "pending", "claimed", "lapsed", "done"}]
        /\ missed' \subseteq Msgs
        /\ \A n \in Msgs : row[n] = "none" => row'[n] = "none"
        /\ \A n \in Msgs : row'[n] = "done" => row[n] = "done"
        /\ \A n \in Msgs : row'[n] = "pending" => n \in missed'
    BY DEF TypeOK, Recoverable
  <1>5. TypeOK'
    <2>1. /\ dm' \in BOOLEAN
          /\ pc' \in [Msgs -> Places]
          /\ deferred' \subseteq Msgs
          /\ orphans' \subseteq Msgs
          /\ turn' \in [Gens -> [Msgs -> Stages]]
          /\ heir' \in [Gens -> [Msgs -> (Gens \X Msgs) \cup {None}]]
          /\ requestActive' \in BOOLEAN
          /\ (requestActive => dm)'
          /\ rank' \in [Msgs -> Nat]
          /\ queued' \in Nat
          /\ ends' \in 0..MaxEnds
          /\ stalled' \in BOOLEAN
      BY DEF TypeOK
    <2>2. gen' >= 1 /\ gen' <= ends' + 1
      BY <1>1
    <2> QED BY <1>1, <1>3, <1>4, <2>1, <2>2 DEF TypeOK
  <1>6. FreshSessions'
    BY <1>1 DEF FreshSessions, Gens
  <1>7. TurnsOwned' /\ RanksBounded' /\ QueueOwned'
    BY <1>3 DEF TurnsOwned, RanksBounded, QueueOwned
  <1>8. RowsOwned'
    BY <1>4 DEF RowsOwned
  <1>9. OneTurnAtATime'
    BY <1>2 DEF OneTurnAtATime, InFlight
  <1>10. ArrivalOrder'
    BY <1>2, <1>3 DEF ArrivalOrder
  <1>11. NothingForgotten'
    BY <1>4 DEF NothingForgotten, Settled
  <1> QED BY <1>5, <1>6, <1>7, <1>8, <1>9, <1>10, <1>11

LEMMA CreateFailsKeeps ==
  ASSUME Inv, CreateFails
  PROVE  Inv'
  <1> USE DEF Inv, CreateFails, acked, table, order
  <1>1. /\ pc' \in [Msgs -> Places]
        /\ \A n \in Msgs : /\ pc[n] \in {"queued", "turned"} => pc'[n] = pc[n]
                           /\ pc'[n] \in {"queued", "turned"} => pc'[n] = pc[n]
    BY DEF TypeOK, Places
  <1>2. TypeOK'
    BY <1>1 DEF TypeOK
  <1>3. FreshSessions' /\ RanksBounded' /\ OneTurnAtATime' /\ NothingForgotten'
    BY DEF FreshSessions, RanksBounded, OneTurnAtATime, NothingForgotten, Settled
  <1>4. TurnsOwned' /\ RowsOwned'
    BY <1>1 DEF TurnsOwned, RowsOwned
  <1>5. queue = <<>> /\ QueueOwned'
    BY <1>1 DEF QueueOwned, TypeOK
  <1>6. ArrivalOrder'
    BY <1>1, <1>5 DEF ArrivalOrder, Queued
  <1> QED BY <1>2, <1>3, <1>4, <1>5, <1>6

LEMMA BeginDisposeKeeps ==
  ASSUME Inv, BeginDispose
  PROVE  Inv'
  <1> USE DEF Inv, BeginDispose, handlers, acked, table, order
  <1>1. TypeOK'
    BY EndsAssumption DEF TypeOK
  <1>2. /\ FreshSessions' /\ RanksBounded' /\ OneTurnAtATime' /\ NothingForgotten'
        /\ TurnsOwned' /\ RowsOwned' /\ QueueOwned' /\ ArrivalOrder'
    BY DEF FreshSessions, RanksBounded, OneTurnAtATime, NothingForgotten, Settled,
       TurnsOwned, RowsOwned, QueueOwned, ArrivalOrder, Queued
  <1> QED BY <1>1, <1>2

LEMMA EndDisposeKeeps ==
  ASSUME Inv, EndDispose
  PROVE  Inv'
  <1> USE DEF Inv, EndDispose, table, order
  <1>1. TypeOK'
    <2>1. /\ orphans' \subseteq Msgs
          /\ requestActive' = FALSE
          /\ queue' = <<>>
          /\ queue' \in Seq(Msgs)
      BY DEF TypeOK
    <2>2. (gen <= ends)' /\ (gen <= ends + 1)'
      BY DEF TypeOK
    <2> QED BY <2>1, <2>2 DEF TypeOK
  <1>2. /\ FreshSessions' /\ RanksBounded' /\ OneTurnAtATime' /\ NothingForgotten'
        /\ TurnsOwned' /\ RowsOwned' /\ QueueOwned' /\ ArrivalOrder'
    BY DEF FreshSessions, RanksBounded, OneTurnAtATime, NothingForgotten, Settled,
       TurnsOwned, RowsOwned, QueueOwned, ArrivalOrder, Queued
  <1> QED BY <1>1, <1>2

LEMMA CrashKeeps ==
  ASSUME Inv, Crash
  PROVE  Inv'
  <1> USE DEF Inv, Crash, acked, table, order
  <1>1. /\ pc' \in [Msgs -> Places]
        /\ \A n \in Msgs : /\ pc[n] \in {"queued", "turned"} => pc'[n] = pc[n]
                           /\ pc'[n] \in {"queued", "turned"} => pc'[n] = pc[n]
    BY DEF TypeOK, Places
  <1>2. /\ turn' \in [Gens -> [Msgs -> Stages]]
        /\ \A g \in Gens, n \in Msgs :
             /\ turn[g][n] = "none" <=> turn'[g][n] = "none"
             /\ turn'[g][n] \notin InFlight
             /\ Settled(g, n) => Settled(g, n)'
    BY DEF TypeOK, Stages, InFlight, Settled
  <1>3. TypeOK'
    <2>1. /\ requestActive' = FALSE
          /\ queue' = <<>>
          /\ queue' \in Seq(Msgs)
          /\ mode' = "none"
      OBVIOUS
    <2>2. ends' \in 0..MaxEnds /\ (gen <= ends)' /\ (gen <= ends + 1)'
      BY EndsAssumption DEF TypeOK
    <2> QED BY <1>1, <1>2, <2>1, <2>2 DEF TypeOK
  <1>4. FreshSessions' /\ RanksBounded' /\ OneTurnAtATime' /\ NothingForgotten'
    BY <1>2 DEF FreshSessions, RanksBounded, OneTurnAtATime, NothingForgotten
  <1>5. TurnsOwned' /\ RowsOwned' /\ QueueOwned'
    BY <1>1, <1>2 DEF TurnsOwned, RowsOwned, QueueOwned
  <1>6. ArrivalOrder'
    BY DEF ArrivalOrder, Queued
  <1> QED BY <1>3, <1>4, <1>5, <1>6

LEMMA LeaseExpiresKeeps ==
  ASSUME Inv, NEW m \in Msgs, LeaseExpires(m)
  PROVE  Inv'
  <1> USE DEF Inv, LeaseExpires, handlers, acked, session, order
  <1>1. /\ row' \in [Msgs -> {"none", "pending", "claimed", "lapsed", "done"}]
        /\ row'[m] = "lapsed"
        /\ \A n \in Msgs : n # m => row'[n] = row[n]
    BY DEF TypeOK
  <1>2. TypeOK'
    BY <1>1 DEF TypeOK
  <1>3. RowsOwned' /\ NothingForgotten'
    BY <1>1 DEF RowsOwned, NothingForgotten, Settled, Queued
  <1>4. /\ FreshSessions' /\ RanksBounded' /\ OneTurnAtATime'
        /\ TurnsOwned' /\ QueueOwned' /\ ArrivalOrder'
    BY DEF FreshSessions, RanksBounded, OneTurnAtATime, TurnsOwned, QueueOwned,
       ArrivalOrder, Queued
  <1> QED BY <1>2, <1>3, <1>4

-----------------------------------------------------------------------------
(* Every step.                                                             *)

LEMMA HandlerKeeps ==
  ASSUME Inv, NEW m \in Msgs, HandlerStep(m)
  PROVE  Inv'
  <1>1. CASE DropDisposing(m)
    BY <1>1, MovingOnKeeps DEF DropDisposing, acked, session, Places, Inv, TypeOK
  <1>2. CASE Receive(m)
    BY <1>2, ReceiveKeeps
  <1>3. CASE Ingested(m)
    <2>1. Arriving(m, requestActive) /\ ToSession(m, requestActive)
      BY <1>3 DEF Ingested, Arriving, acked, Inv, TypeOK
    <2> QED BY <2>1, ToSessionKeeps
  <1>4. CASE VoiceFails(m)
    BY <1>4, MovingOnKeeps DEF VoiceFails, acked, session, Places, Inv, TypeOK
  <1>5. CASE Resume(m)
    <2>1. Arriving(m, requestActive) /\ ToSession(m, requestActive)
      BY <1>5 DEF Resume, Arriving, ToSession, acked, session, Inv, TypeOK
    <2> QED BY <2>1, ToSessionKeeps
  <1>6. CASE SteerSettles(m)
    BY <1>6, SteerSettlesKeeps
  <1> QED BY <1>1, <1>2, <1>3, <1>4, <1>5, <1>6 DEF HandlerStep

LEMMA StutterKeeps ==
  ASSUME Inv, UNCHANGED vars
  PROVE  Inv'
  <1> USE DEF Inv, vars, handlers, acked, session, table, order
  <1>1. TypeOK'
    BY DEF TypeOK
  <1>2. /\ FreshSessions' /\ RanksBounded' /\ OneTurnAtATime' /\ NothingForgotten'
        /\ TurnsOwned' /\ RowsOwned' /\ QueueOwned' /\ ArrivalOrder'
    BY DEF FreshSessions, RanksBounded, OneTurnAtATime, NothingForgotten, Settled,
       TurnsOwned, RowsOwned, QueueOwned, ArrivalOrder, Queued
  <1> QED BY <1>1, <1>2

LEMMA InvStep == Inv /\ [Next]_vars => Inv'
  <1> SUFFICES ASSUME Inv, [Next]_vars PROVE Inv'
    OBVIOUS
  <1>1. ASSUME NEW m \in Msgs, HandlerStep(m) \/ LeaseExpires(m) PROVE Inv'
    BY <1>1, HandlerKeeps, LeaseExpiresKeeps
  <1>2. ASSUME NEW g \in Gens, NEW m \in Msgs, TurnStep(g, m) PROVE Inv'
    BY <1>2, PromptKeeps, RunEndsKeeps, PromptFailsKeeps, SettlementEndsKeeps DEF TurnStep
  <1>3. CASE CreateLive \/ CreateFails \/ BeginDispose \/ EndDispose \/ Crash
    BY <1>3, CreateLiveKeeps, CreateFailsKeeps, BeginDisposeKeeps, EndDisposeKeeps,
       CrashKeeps
  <1>4. CASE UNCHANGED vars
    BY <1>4, StutterKeeps
  <1> QED BY <1>1, <1>2, <1>3, <1>4 DEF Next

THEOREM Invariant == Spec => []Inv
  BY InvInit, InvStep, PTL DEF Spec

\* Type correctness, whatever the messages, the bound and the hazards.
THEOREM TypeCorrect == Spec => []TypeOK
  <1>1. Inv => TypeOK
    BY DEF Inv
  <1> QED BY <1>1, Invariant, PTL

\* The session never runs two turns of its own at once.
THEOREM OneTurnAtATimeHolds == Spec => []OneTurnAtATime
  <1>1. Inv => OneTurnAtATime
    BY DEF Inv
  <1> QED BY <1>1, Invariant, PTL

\* Queued messages get their turns in the order they were queued, over
\* restarts too.
THEOREM ArrivalOrderHolds == Spec => []ArrivalOrder
  <1>1. Inv => ArrivalOrder
    BY DEF Inv
  <1> QED BY <1>1, Invariant, PTL

\* A queued message is forgotten neither by the table nor by a live session.
THEOREM NothingForgottenHolds == Spec => []NothingForgotten
  <1>1. Inv => NothingForgotten
    BY DEF Inv
  <1> QED BY <1>1, Invariant, PTL

-----------------------------------------------------------------------------
(* Nobody is put back.                                                     *)

\* Whoever is new in the queue has a row that is not done.
NewcomersOpen == \A n \in Queued' : n \in Queued \/ row[n] # "done"

LEMMA DrainTakesNobody ==
  ASSUME Inv, NEW t, Drains(t), Drain(t)
  PROVE  NewcomersOpen
  <1>1. mode = "live" /\ queue # <<>> /\ queue' = Tail(queue)
    BY DEF Drains, Drain
  <1>2. \A i \in DOMAIN Tail(queue) : i + 1 \in DOMAIN queue
                                     /\ Tail(queue)[i] = queue[i + 1]
    BY <1>1, NextIsFree
  <1> QED BY <1>1, <1>2 DEF NewcomersOpen, Queued

LEMMA SameQueueTakesNobody ==
  ASSUME UNCHANGED queue \/ queue' = <<>>
  PROVE  NewcomersOpen
  BY DEF NewcomersOpen, Queued

LEMMA ToSessionTakesNew ==
  ASSUME Inv, NEW m \in Msgs, pc[m] \in {"new", "ingest", "waiting"},
         NEW active, ToSession(m, active)
  PROVE  NewcomersOpen
  <1>1. CASE mode = "live" /\ Take(m, active)
    <2>1. CASE Enqueue(m, active)
      <3>1. row[m] # "done"
        BY DEF Inv, RowsOwned
      <3>2. ASSUME NEW i \in DOMAIN queue', i \notin DOMAIN queue
            PROVE  queue'[i] = m
        <4>1. queue \in Seq(Msgs) /\ queue' = Append(queue, m)
          BY <2>1 DEF Enqueue, Inv, TypeOK
        <4>2. i = Len(queue) + 1
          BY <3>2, <4>1
        <4> QED BY <4>1, <4>2
      <3>3. \A i \in DOMAIN queue : queue'[i] = queue[i]
        BY <2>1 DEF Enqueue, Inv, TypeOK
      <3> QED BY <3>1, <3>2, <3>3 DEF NewcomersOpen, Queued
    <2>2. CASE OpenTurn(m, active) \/ Steer(m, active)
      BY <2>2, SameQueueTakesNobody DEF OpenTurn, Steer
    <2> QED BY <1>1, <2>1, <2>2 DEF Take
  <1>2. CASE mode # "live"
    BY <1>2, SameQueueTakesNobody DEF ToSession
  <1> QED BY <1>1, <1>2 DEF ToSession

LEMMA StepsTakeOpen ==
  ASSUME Inv, [Next]_vars
  PROVE  NewcomersOpen
  <1>1. ASSUME NEW m \in Msgs, HandlerStep(m) \/ LeaseExpires(m)
        PROVE  NewcomersOpen
    <2>1. CASE DropDisposing(m) \/ VoiceFails(m) \/ LeaseExpires(m)
      BY <2>1, SameQueueTakesNobody DEF DropDisposing, VoiceFails, LeaseExpires
    <2>2. CASE Receive(m) \/ Ingested(m)
      <3>1. pc[m] \in {"new", "ingest", "waiting"}
        BY <2>2 DEF Receive, Ingested
      <3>2. UNCHANGED queue \/ \E active : ToSession(m, active)
        BY <2>2 DEF Receive, Ingested
      <3> QED BY <3>1, <3>2, ToSessionTakesNew, SameQueueTakesNobody
    <2>3. CASE Resume(m)
      BY <2>3, ToSessionTakesNew DEF Resume, ToSession, session
    <2>4. CASE SteerSettles(m)
      BY <2>4, DrainTakesNobody, SameQueueTakesNobody DEF SteerSettles
    <2> QED BY <1>1, <2>1, <2>2, <2>3, <2>4 DEF HandlerStep
  <1>2. ASSUME NEW g \in Gens, NEW m \in Msgs, TurnStep(g, m)
        PROVE  NewcomersOpen
    <2> DEFINE over == [turn EXCEPT ![g][m] = "over"]
               settle == [turn EXCEPT ![g][m] = "settle"]
    <2>1. CASE Prompt(g, m) \/ SettlementEnds(g, m)
      BY <2>1, SameQueueTakesNobody DEF Prompt, SettlementEnds
    <2>2. CASE RunEnds(g, m) \/ PromptFails(g, m)
      <3>1. CASE UNCHANGED queue
        BY <3>1, SameQueueTakesNobody
      <3>2. CASE Drains(over) /\ (Drain(over) \/ Drain(settle))
        <4>1. mode = "live" /\ queue # <<>> /\ queue' = Tail(queue)
          BY <3>2 DEF Drains, Drain
        <4>2. \A i \in DOMAIN Tail(queue) : i + 1 \in DOMAIN queue
                                           /\ Tail(queue)[i] = queue[i + 1]
          BY <4>1, NextIsFree
        <4> QED BY <4>1, <4>2 DEF NewcomersOpen, Queued
      <3> QED BY <2>2, <3>1, <3>2 DEF RunEnds, PromptFails, SettleTurn, SettleInto
    <2> QED BY <1>2, <2>1, <2>2 DEF TurnStep
  <1>3. CASE CreateLive
    <2>1. CASE \E q \in InIdOrder(Recoverable) : queue' = queue \o q
      <3>1. PICK q \in InIdOrder(Recoverable) : queue' = queue \o q
        BY <2>1
      <3>2. q \in Seq(Msgs) /\ queue = <<>> /\ \A i \in DOMAIN q : q[i] \in Recoverable
        BY <1>3, ClaimsInOrder DEF Inv, TypeOK, CreateLive
      <3>3. queue' = q
        BY <3>1, <3>2
      <3> QED BY <3>2, <3>3 DEF NewcomersOpen, Queued, Recoverable
    <2>2. CASE UNCHANGED queue
      BY <2>2, SameQueueTakesNobody
    <2> QED BY <1>3, <2>1, <2>2 DEF CreateLive
  <1>4. CASE CreateFails \/ BeginDispose \/ EndDispose \/ Crash \/ UNCHANGED vars
    BY <1>4, SameQueueTakesNobody DEF CreateFails, BeginDispose, EndDispose, Crash, vars
  <1> QED BY <1>1, <1>2, <1>3, <1>4 DEF Next

\* A message whose row is done is never put back into the queue.
THEOREM MarkedIsFinalHolds == Spec => MarkedIsFinal
  <1>1. Inv /\ [Next]_vars =>
          [\A m \in Msgs :
             row[m] = "done" /\ m \notin Queued => m \notin Queued']_vars
    BY StepsTakeOpen DEF NewcomersOpen
  <1> QED BY <1>1, Invariant, PTL DEF Spec, MarkedIsFinal
-----------------------------------------------------------------------------
(***************************************************************************)
(* What people see of the turns: a theorem about TurnReply, of the same    *)
(* space, for any number of turns, rounds, texts, flights and troubles.    *)
(***************************************************************************)
\* Closing texts: no line of progress among them.
Text == Nat \ {Progress}

Line == [ts : Nat, text : Nat, progress : BOOLEAN, final : BOOLEAN, retries : Nat,
         armed : BOOLEAN]

Flight == [entry : Line, newest : BOOLEAN, holds : SUBSET Nat]

Edit == [ts : Nat, text : Text, card : BOOLEAN, held : BOOLEAN]

Presenter ==
  [threaded : BOOLEAN, delivered : BOOLEAN, streaming : BOOLEAN, pending : Nat,
   opening : {"none", "phrase", "steer"}, ticking : BOOLEAN, update : Line,
   orphans : Nat, active : BOOLEAN, reply : Text, answered : Text,
   fallback : BOOLEAN, failed : BOOLEAN, empties : Nat, churn : BOOLEAN,
   flights : SUBSET Flight, edits : SUBSET Edit]

\* Whether a line of progress for message m waits, or is under way with nothing
\* that waits for it.
Waits(p, m) == p.update.ts = m /\ p.update.text = Progress
Flies(p, m) ==
  \E f \in p.flights : f.entry.ts = m /\ f.entry.text = Progress /\ m \notin f.holds

\* The presenter writes to messages that exist.
Within(p, n) ==
  p.pending <= n /\ p.update.ts <= n /\ \A f \in p.flights : f.entry.ts <= n

\* A phrase is posted only when no message is worked on.
OnePhrase(p) == p.opening # "none" => p.pending = 0

\* A handler sends lines of progress to the pending message only, and keeps that
\* message or turns away from it.
Moves(p, q) ==
  /\ p \in Presenter /\ q \in Presenter
  /\ q.pending \in {p.pending, 0}
  /\ \A n \in Nat : Within(p, n) => Within(q, n)
  /\ \A m \in Nat \ {0, p.pending} :
       ~Waits(p, m) => /\ ~Waits(q, m)
                       /\ ~Flies(p, m) => ~Flies(q, m)
  /\ OnePhrase(p) => OnePhrase(q)
  /\ p.edits \subseteq q.edits

\* Besides, it turns away with a closing text only.
Follows(p, q) ==
  /\ Moves(p, q)
  /\ q.pending # p.pending =>
       /\ ~Waits(q, p.pending)
       /\ \E e \in q.edits : e.ts = p.pending /\ ~e.card

LEMMA TextTypes ==
  /\ MaxTexts \in Nat /\ EmptyLimit \in Nat /\ RetryLimit \in Nat
         /\ Nothing \in Text /\ Note \in Text /\ Answers \subseteq Text
         /\ Progress \in Nat
         /\ NoUpdate \in Line /\ NoUpdate.ts = 0 /\ NoUpdate.text = Nothing
BY BoundsAssumption DEF Text, Line, Nothing, Note, Answers, Progress,
       NoUpdate

LEMMA FollowsTransitive ==
  ASSUME NEW p, NEW q, NEW r, Follows(p, q), Follows(q, r)
  PROVE  Follows(p, r)
<1>1. Moves(p, r)
  <2>1. q.pending \in {p.pending, 0} /\ r.pending \in {q.pending, 0} BY DEF Follows, Moves
  <2>2. \A m \in Nat \ {0, p.pending} : m \in Nat \ {0, q.pending} BY <2>1
  <2> QED BY <2>1, <2>2 DEF Follows, Moves
<1>2. ASSUME r.pending # p.pending
      PROVE  ~Waits(r, p.pending) /\ \E e \in r.edits : e.ts = p.pending /\ ~e.card
  <2>1. CASE q.pending = p.pending BY <1>2, <2>1 DEF Follows
  <2>2. CASE q.pending # p.pending
    <3>1. q.pending = 0 /\ p.pending \in Nat \ {0, q.pending}
      BY <2>2 DEF Follows, Moves, Presenter
    <3>2. ~Waits(q, p.pending) /\ \E e \in q.edits : e.ts = p.pending /\ ~e.card
      BY <2>2 DEF Follows
    <3> QED BY <3>1, <3>2 DEF Follows, Moves
  <2> QED BY <2>1, <2>2
<1> QED BY <1>1, <1>2 DEF Follows

LEMMA MovesTransitive ==
  ASSUME NEW p, NEW q, NEW r, Moves(p, q), Moves(q, r)
  PROVE  Moves(p, r)
<1>1. q.pending \in {p.pending, 0} /\ r.pending \in {q.pending, 0} BY DEF Moves
<1>2. \A m \in Nat \ {0, p.pending} : m \in Nat \ {0, q.pending} BY <1>1
<1> QED BY <1>1, <1>2 DEF Moves

\* A step that changes flags, buffers and counts only.
LEMMA FlagsFollow ==
  ASSUME NEW p \in Presenter, NEW q \in Presenter,
         q.pending = p.pending, q.update = p.update, q.flights = p.flights,
         q.opening = p.opening, q.edits = p.edits
  PROVE  Follows(p, q)
BY DEF Follows, Moves, Within, Waits, Flies, OnePhrase

\* A step that drops the update, besides.
LEMMA DropFollows ==
  ASSUME NEW p \in Presenter, NEW q \in Presenter,
         q.pending = p.pending, q.update = NoUpdate, q.flights = p.flights,
         q.opening = p.opening, p.edits \subseteq q.edits
  PROVE  Follows(p, q)
<1>1. ~(NoUpdate.text = Progress) /\ NoUpdate.ts = 0
  BY TextTypes DEF Text
<1> QED BY <1>1 DEF Follows, Moves, Within, Waits, Flies, OnePhrase, Presenter

\* A step that closes the pending message, if there is one, with a text.
LEMMA CloseFollows ==
  ASSUME NEW p \in Presenter, NEW q \in Presenter,
         q.pending = 0, q.update = NoUpdate, q.flights = p.flights,
         q.opening = p.opening, p.edits \subseteq q.edits,
         \E e \in q.edits : e.ts = p.pending /\ ~e.card
  PROVE  Follows(p, q)
<1>1. ~(NoUpdate.text = Progress) /\ NoUpdate.ts = 0
  BY TextTypes DEF Text
<1> QED BY <1>1 DEF Follows, Moves, Within, Waits, Flies, OnePhrase, Presenter

\* A step that schedules an update for the pending message, or a closing text.
LEMMA ScheduleFollows ==
  ASSUME NEW p \in Presenter, NEW q \in Presenter,
         q.pending = p.pending, q.flights = p.flights, q.opening = p.opening,
         q.edits = p.edits,
         q.update.ts \in {p.pending, p.update.ts},
         q.update.ts = p.pending \/ q.update.text \in Text
           \/ q.update.text = p.update.text
  PROVE  Follows(p, q)
<1>1. \A m \in Nat \ {0, p.pending} : ~Waits(p, m) => ~Waits(q, m)
  BY DEF Waits, Text
<1>2. \A m : Flies(q, m) <=> Flies(p, m) BY DEF Flies
<1>3. \A n \in Nat : Within(p, n) => Within(q, n) BY DEF Within
<1> QED BY <1>1, <1>2, <1>3 DEF Follows, Moves, OnePhrase
-----------------------------------------------------------------------------
(* The methods *)

LEMMA CancelFollows ==
  ASSUME NEW p \in Presenter
  PROVE  /\ Follows(p, CancelUpdate(p))
         /\ CancelUpdate(p) \in Presenter
         /\ CancelUpdate(p).pending = p.pending
         /\ CancelUpdate(p).opening = p.opening
         /\ CancelUpdate(p).churn = p.churn
<1> DEFINE q == CancelUpdate(p)
<1>1. /\ q \in Presenter /\ q.pending = p.pending /\ q.update = NoUpdate
      /\ q.flights = p.flights /\ q.opening = p.opening /\ q.edits = p.edits
      /\ q.churn = p.churn
  BY TextTypes DEF CancelUpdate, Presenter
<1> HIDE DEF q
<1>2. Follows(p, q) BY <1>1, DropFollows
<1> QED BY <1>1, <1>2 DEF q

LEMMA BufferFollows ==
  ASSUME NEW p \in Presenter
  PROVE  Buffer(p) \in Presenter /\ Follows(p, Buffer(p))
         /\ Buffer(p).pending = p.pending
<1> DEFINE q == Buffer(p)
<1>1. /\ q \in Presenter /\ q.pending = p.pending /\ q.update = NoUpdate
      /\ q.flights = p.flights /\ q.opening = p.opening /\ q.edits = p.edits
  BY TextTypes DEF CancelUpdate, Buffer, Presenter
<1> HIDE DEF q
<1>2. Follows(p, q) BY <1>1, DropFollows
<1> QED BY <1>1, <1>2 DEF q

LEMMA SendFollows ==
  ASSUME NEW p \in Presenter, NEW ts \in Nat, NEW text \in Text
  PROVE  LET q == Send(p, ts, text)
         IN  /\ q \in Presenter /\ Follows(p, q) /\ q.pending = p.pending /\ q.update = p.update
             /\ p.edits \subseteq q.edits /\ \E e \in q.edits : e.ts = ts /\ ~e.card
<1> DEFINE q == Send(p, ts, text)
           e == [ts |-> ts, text |-> text, card |-> FALSE, held |-> FALSE]
<1>1. e \in Edit /\ e.ts = ts /\ ~e.card BY DEF Edit
<1>2. q = [p EXCEPT !.edits = @ \cup {e}] BY DEF Send
<1> HIDE DEF e, q
<1>3. /\ q \in Presenter /\ q.pending = p.pending /\ q.update = p.update
      /\ q.flights = p.flights /\ q.opening = p.opening /\ q.edits = p.edits \cup {e}
  BY <1>1, <1>2 DEF Presenter
<1>4. Follows(p, q)
  BY <1>3 DEF Follows, Moves, Within, Waits, Flies, OnePhrase
<1> QED BY <1>1, <1>3, <1>4 DEF q

LEMMA ReplaceFollows ==
  ASSUME NEW p \in Presenter, NEW text \in Text
  PROVE  LET q == ReplaceOrPost(p, text)
         IN q \in Presenter /\ Follows(p, q) /\ q.pending = 0
<1> DEFINE q == ReplaceOrPost(p, text)
           e == [ts |-> p.pending, text |-> text, card |-> FALSE, held |-> FALSE]
           x == [[p EXCEPT !.update = NoUpdate] EXCEPT !.ticking = FALSE, !.pending = 0]
<1>1. e \in Edit /\ e.ts = p.pending /\ ~e.card BY DEF Edit, Presenter
<1>2. q = [x EXCEPT !.edits = @ \cup {e}]
  BY DEF Send, ReplaceOrPost, CancelUpdate
<1>3. /\ x \in Presenter /\ x.pending = 0 /\ x.update = NoUpdate
      /\ x.flights = p.flights /\ x.opening = p.opening /\ x.edits = p.edits
  BY TextTypes DEF Presenter
<1> HIDE DEF e, q, x
<1>4. /\ q \in Presenter /\ q.pending = 0 /\ q.update = NoUpdate
      /\ q.flights = p.flights /\ q.opening = p.opening /\ q.edits = p.edits \cup {e}
  BY <1>1, <1>2, <1>3 DEF Presenter
<1>5. Follows(p, q) BY <1>1, <1>4, CloseFollows
<1> QED BY <1>4, <1>5 DEF q

LEMMA ProgressFollows ==
  ASSUME NEW p \in Presenter
  PROVE  LET q == ScheduleProgress(p)
         IN q \in Presenter /\ Follows(p, q) /\ q.pending = p.pending
<1> DEFINE q == ScheduleProgress(p)
           x == Entry(p.pending, Progress, TRUE)
<1>1. x \in Line /\ x.ts = p.pending
  BY TextTypes DEF Entry, NoUpdate, Line, Presenter
<1>2. q = p \/ q = [p EXCEPT !.update = x] BY DEF ScheduleProgress
<1> HIDE DEF q, x
<1>3. CASE q = p BY <1>3, FlagsFollow DEF q
<1>4. CASE q = [p EXCEPT !.update = x]
  <2>1. /\ q \in Presenter /\ q.pending = p.pending /\ q.update = x
        /\ q.flights = p.flights /\ q.opening = p.opening /\ q.edits = p.edits
    BY <1>1, <1>4 DEF Presenter
  <2>2. Follows(p, q) BY <1>1, <2>1, ScheduleFollows
  <2> QED BY <2>1, <2>2 DEF q
<1> QED BY <1>2, <1>3, <1>4

LEMMA TextFollows ==
  ASSUME NEW p \in Presenter, NEW text \in Text
  PROVE  LET q == ScheduleText(p, text)
         IN q \in Presenter /\ Follows(p, q)
<1> DEFINE q == ScheduleText(p, text)
           x == Entry(p.pending, text, FALSE)
           y == [p.update EXCEPT !.text = text, !.progress = FALSE]
<1>1. x \in Line /\ x.ts = p.pending
  BY TextTypes DEF Entry, NoUpdate, Line, Presenter, Text
<1>2. y \in Line /\ y.ts = p.update.ts /\ y.text = text
  BY DEF Line, Presenter, Text
<1>3. q = ReplaceOrPost(p, text) \/ q = [p EXCEPT !.update = x] \/ q = [p EXCEPT !.update = y]
  BY DEF ScheduleText, Presenter, Line
<1> HIDE DEF q, x, y
<1>4. CASE q = ReplaceOrPost(p, text) BY <1>4, ReplaceFollows DEF q
<1>5. ASSUME NEW z \in {x, y}, q = [p EXCEPT !.update = z] PROVE q \in Presenter /\ Follows(p, q)
  <2>1. /\ q \in Presenter /\ q.pending = p.pending /\ q.update = z
        /\ q.flights = p.flights /\ q.opening = p.opening /\ q.edits = p.edits
    BY <1>1, <1>2, <1>5 DEF Presenter
  <2>2. z.ts = p.pending \/ (z.ts = p.update.ts /\ z.text \in Text) BY <1>1, <1>2, <1>5
  <2>3. Follows(p, q) BY <2>1, <2>2, ScheduleFollows
  <2> QED BY <2>1, <2>3
<1> QED BY <1>3, <1>4, <1>5 DEF q

LEMMA FlushFollows ==
  ASSUME NEW p \in Presenter
  PROVE  LET q == Flush(p)
         IN q \in Presenter /\ Follows(p, q)
<1> DEFINE q == Flush(p)
           line == [p.update EXCEPT !.armed = FALSE]
           new == [entry |-> line, newest |-> TRUE, holds |-> {}]
           old == {[f EXCEPT !.newest = FALSE] : f \in p.flights}
           x == CancelUpdate(p)
<1>1. CASE q = p BY <1>1, FlagsFollow
<1>2. CASE q # p
  <2>1. line \in Line /\ line.ts = p.update.ts /\ line.text = p.update.text
    BY DEF Line, Presenter
  <2>2. new \in Flight /\ new.entry = line /\ new.holds = {}
    BY <2>1 DEF Flight
  <2>3. /\ old \in SUBSET Flight
        /\ \A g \in old : \E f \in p.flights : g.entry = f.entry /\ g.holds = f.holds
    <3>1. ASSUME NEW f \in p.flights
          PROVE  LET g == [f EXCEPT !.newest = FALSE]
                 IN g \in Flight /\ g.entry = f.entry /\ g.holds = f.holds
      <4>1. f \in Flight BY DEF Presenter
      <4> QED BY <4>1 DEF Flight
    <3> QED BY <3>1
  <2>4. /\ x \in Presenter /\ x.pending = p.pending /\ x.update = NoUpdate
        /\ x.flights = p.flights /\ x.opening = p.opening /\ x.edits = p.edits
    BY TextTypes DEF CancelUpdate, Presenter
  <2>5. q = [x EXCEPT !.flights = old \cup {new}]
    BY <1>2, <2>4 DEF Flush
  <2> HIDE DEF q, x, old, new, line
  <2>6. /\ q \in Presenter /\ q.pending = p.pending /\ q.update = NoUpdate
        /\ q.flights = old \cup {new} /\ q.opening = p.opening /\ q.edits = p.edits
    BY <2>2, <2>3, <2>4, <2>5 DEF Presenter
  <2>7. \A m \in Nat \ {0} : ~Waits(q, m)
    BY <2>6, TextTypes DEF Waits, Text
  <2>8. \A m \in Nat : ~Waits(p, m) /\ ~Flies(p, m) => ~Flies(q, m)
    BY <2>1, <2>2, <2>3, <2>6 DEF Waits, Flies
  <2>9. \A n \in Nat : Within(p, n) => Within(q, n)
    BY <2>1, <2>2, <2>3, <2>6, TextTypes DEF Within
  <2>10. Follows(p, q) BY <2>6, <2>7, <2>8, <2>9 DEF Follows, Moves, OnePhrase
  <2> QED BY <2>6, <2>10 DEF q
<1> QED BY <1>1, <1>2

LEMMA PhraseFollows ==
  ASSUME NEW p \in Presenter
  PROVE  LET q == PostPhrase(p)
         IN q \in Presenter /\ Follows(p, q)
<1> DEFINE q == PostPhrase(p)
           x == [p EXCEPT !.delivered = FALSE]
           y == [x EXCEPT !.opening = "phrase"]
<1>1. /\ x \in Presenter /\ x.pending = p.pending /\ x.update = p.update
      /\ x.flights = p.flights /\ x.opening = p.opening /\ x.edits = p.edits
  BY DEF Presenter
<1>2. Follows(p, x) BY <1>1, FlagsFollow
<1>3. \/ q = p \/ q = x \/ q = ScheduleProgress(CancelUpdate(x))
      \/ p.pending = 0 /\ q = y
  BY DEF PostPhrase
<1> HIDE DEF q, x
<1>4. CASE q = p BY <1>4, FlagsFollow DEF q
<1>5. CASE q = ScheduleProgress(CancelUpdate(x))
  <2> DEFINE c == CancelUpdate(x)
  <2>1. c \in Presenter /\ Follows(x, c) BY <1>1, CancelFollows
  <2> HIDE DEF c
  <2>2. q \in Presenter /\ Follows(c, q) BY <1>5, <2>1, ProgressFollows DEF c
  <2>3. Follows(p, q) BY <1>2, <2>1, <2>2, FollowsTransitive
  <2> QED BY <2>2, <2>3 DEF q
<1>6. CASE p.pending = 0 /\ q = y
  <2>1. /\ q \in Presenter /\ q.pending = 0 /\ q.update = p.update
        /\ q.flights = p.flights /\ q.edits = p.edits
    BY <1>1, <1>6 DEF Presenter
  <2>2. Follows(p, q)
    BY <1>6, <2>1 DEF Follows, Moves, Within, Waits, Flies, OnePhrase
  <2> QED BY <2>1, <2>2 DEF q
<1> QED BY <1>1, <1>2, <1>3, <1>4, <1>5, <1>6 DEF q

LEMMA CountedFollows ==
  ASSUME NEW p \in Presenter
  PROVE  LET q == Counted(p)
         IN q \in Presenter /\ Follows(p, q)
<1> DEFINE q == Counted(p)
           x == [p EXCEPT !.empties = @ + 1]
<1>1. q = p \/ q = x BY DEF Counted
<1>2. /\ x \in Presenter /\ x.pending = p.pending /\ x.update = p.update
      /\ x.flights = p.flights /\ x.opening = p.opening /\ x.edits = p.edits
  BY DEF Presenter
<1> HIDE DEF q, x
<1> QED BY <1>1, <1>2, FlagsFollow DEF q

LEMMA CountEmptyFollows ==
  ASSUME NEW p \in Presenter
  PROVE  LET q == CountEmptyTurn(p)
         IN q \in Presenter /\ Follows(p, q)
<1> DEFINE q == CountEmptyTurn(p)
           c == Counted(p)
           x == [c EXCEPT !.churn = TRUE]
<1>1. c \in Presenter /\ Follows(p, c) BY CountedFollows
<1>2. q = c \/ q = ReplaceOrPost(x, Note) BY DEF CountEmptyTurn
<1> HIDE DEF c, q
<1>3. /\ x \in Presenter /\ x.pending = c.pending /\ x.update = c.update
      /\ x.flights = c.flights /\ x.opening = c.opening /\ x.edits = c.edits
  BY <1>1 DEF Presenter
<1> HIDE DEF x
<1>4. Follows(p, x) BY <1>1, <1>3, FlagsFollow, FollowsTransitive
<1>5. CASE q = ReplaceOrPost(x, Note)
  <2>1. q \in Presenter /\ Follows(x, q) BY <1>3, <1>5, ReplaceFollows, TextTypes
  <2> QED BY <1>4, <2>1, FollowsTransitive DEF q
<1> QED BY <1>1, <1>2, <1>5 DEF q
-----------------------------------------------------------------------------
(* The handlers of the session's events *)

LEMMA MessageFollows ==
  ASSUME NEW p \in Presenter, NEW text \in Text
  PROVE  LET q == OnMessage(p, text)
         IN q \in Presenter /\ Follows(p, q)
<1> DEFINE q == OnMessage(p, text)
           h == [p EXCEPT !.delivered = TRUE, !.failed = FALSE, !.empties = 0, !.churn = FALSE]
           b == Buffer(h)
           x == [b EXCEPT !.reply = text]
           y == [h EXCEPT !.answered = text]
<1>1. /\ h \in Presenter /\ h.pending = p.pending /\ h.update = p.update
      /\ h.flights = p.flights /\ h.opening = p.opening /\ h.edits = p.edits
  BY DEF Presenter
<1>2. q = x \/ q = ScheduleText(y, text) \/ q = ReplaceOrPost(h, text)
  BY DEF OnMessage
<1> HIDE DEF h, q
<1>3. Follows(p, h) BY <1>1, FlagsFollow
<1>4. CASE q = x
  <2>1. b \in Presenter /\ Follows(h, b) BY <1>1, BufferFollows
  <2> HIDE DEF b
  <2>2. /\ x \in Presenter /\ x.pending = b.pending /\ x.update = b.update
        /\ x.flights = b.flights /\ x.opening = b.opening /\ x.edits = b.edits
    BY <2>1 DEF Presenter
  <2> HIDE DEF x
  <2>3. Follows(p, x) BY <1>3, <2>1, <2>2, FlagsFollow, FollowsTransitive
  <2> QED BY <1>4, <2>2, <2>3 DEF q
<1>5. CASE q = ScheduleText(y, text)
  <2>1. /\ y \in Presenter /\ y.pending = h.pending /\ y.update = h.update
        /\ y.flights = h.flights /\ y.opening = h.opening /\ y.edits = h.edits
    BY <1>1 DEF Presenter
  <2> HIDE DEF y
  <2>2. Follows(h, y) BY <1>1, <2>1, FlagsFollow
  <2>3. q \in Presenter /\ Follows(y, q) BY <1>5, <2>1, TextFollows
  <2> QED BY <1>3, <2>2, <2>3, FollowsTransitive DEF q
<1>6. CASE q = ReplaceOrPost(h, text)
  <2>1. q \in Presenter /\ Follows(h, q) BY <1>1, <1>6, ReplaceFollows
  <2> QED BY <1>3, <2>1, FollowsTransitive DEF q
<1> QED BY <1>2, <1>4, <1>5, <1>6

LEMMA EmptyFollows ==
  ASSUME NEW p \in Presenter
  PROVE  LET q == OnEmpty(p)
         IN q \in Presenter /\ Follows(p, q)
<1> DEFINE q == OnEmpty(p)
           h == [p EXCEPT !.delivered = TRUE]
           k == Counted(h)
           b == Buffer(k)
           churns == b.churn \/ Churns(p)
           x == [b EXCEPT !.churn = churns]
           g == [h EXCEPT !.fallback = TRUE]
           c == CountEmptyTurn(g)
           d == Buffer(c)
<1>1. /\ h \in Presenter /\ h.pending = p.pending /\ h.update = p.update
      /\ h.flights = p.flights /\ h.opening = p.opening /\ h.edits = p.edits
  BY DEF Presenter
<1>2. q = x \/ q = c \/ q = d \/ q = Send(d, p.pending, Note)
  BY DEF OnEmpty
<1> HIDE DEF h, q
<1>3. Follows(p, h) BY <1>1, FlagsFollow
<1>4. CASE q = x
  <2>1. k \in Presenter /\ Follows(h, k) BY <1>1, CountedFollows
  <2> HIDE DEF k
  <2>2. b \in Presenter /\ Follows(k, b) BY <2>1, BufferFollows
  <2> HIDE DEF b
  <2>3. churns \in BOOLEAN BY <2>2 DEF Presenter, Churns
  <2> HIDE DEF churns
  <2>4. /\ x \in Presenter /\ x.pending = b.pending /\ x.update = b.update
        /\ x.flights = b.flights /\ x.opening = b.opening /\ x.edits = b.edits
    BY <2>2, <2>3 DEF Presenter
  <2> HIDE DEF x
  <2>5. Follows(b, x) BY <2>2, <2>4, FlagsFollow
  <2>6. Follows(p, x) BY <1>3, <2>1, <2>2, <2>5, FollowsTransitive
  <2> QED BY <1>4, <2>4, <2>6 DEF q
<1>5. c \in Presenter /\ Follows(p, c)
  <2>1. /\ g \in Presenter /\ g.pending = h.pending /\ g.update = h.update
        /\ g.flights = h.flights /\ g.opening = h.opening /\ g.edits = h.edits
    BY <1>1 DEF Presenter
  <2> HIDE DEF g
  <2>2. Follows(h, g) BY <1>1, <2>1, FlagsFollow
  <2>3. c \in Presenter /\ Follows(g, c) BY <2>1, CountEmptyFollows
  <2> QED BY <1>3, <2>2, <2>3, FollowsTransitive
<1> HIDE DEF c
<1>6. d \in Presenter /\ Follows(p, d)
  <2>1. d \in Presenter /\ Follows(c, d) BY <1>5, BufferFollows
  <2> QED BY <1>5, <2>1, FollowsTransitive
<1> HIDE DEF d
<1>7. CASE q = Send(d, p.pending, Note)
  <2>1. p.pending \in Nat BY DEF Presenter
  <2>2. q \in Presenter /\ Follows(d, q) BY <1>6, <1>7, <2>1, SendFollows, TextTypes
  <2> QED BY <1>6, <2>2, FollowsTransitive DEF q
<1> QED BY <1>2, <1>4, <1>5, <1>6, <1>7 DEF q

LEMMA ErrorFollows ==
  ASSUME NEW p \in Presenter
  PROVE  LET q == OnError(p)
         IN q \in Presenter /\ Follows(p, q)
<1> DEFINE q == OnError(p)
           h == [p EXCEPT !.delivered = TRUE, !.failed = TRUE]
           x == [h EXCEPT !.streaming = FALSE, !.empties = 0, !.churn = FALSE]
<1>1. /\ h \in Presenter /\ h.pending = p.pending /\ h.update = p.update
      /\ h.flights = p.flights /\ h.opening = p.opening /\ h.edits = p.edits
  BY DEF Presenter
<1>2. q = Buffer(h) \/ q = ReplaceOrPost(x, Note)
  BY DEF OnError
<1> HIDE DEF h, q
<1>3. Follows(p, h) BY <1>1, FlagsFollow
<1>4. CASE q = Buffer(h)
  <2>1. q \in Presenter /\ Follows(h, q) BY <1>1, <1>4, BufferFollows
  <2> QED BY <1>3, <2>1, FollowsTransitive DEF q
<1>5. CASE q = ReplaceOrPost(x, Note)
  <2>1. /\ x \in Presenter /\ x.pending = h.pending /\ x.update = h.update
        /\ x.flights = h.flights /\ x.opening = h.opening /\ x.edits = h.edits
    BY <1>1 DEF Presenter
  <2> HIDE DEF x
  <2>2. Follows(h, x) BY <1>1, <2>1, FlagsFollow
  <2>3. q \in Presenter /\ Follows(x, q) BY <1>5, <2>1, ReplaceFollows, TextTypes
  <2> QED BY <1>3, <2>2, <2>3, FollowsTransitive DEF q
<1> QED BY <1>2, <1>4, <1>5

LEMMA FinalFlushFollows ==
  ASSUME NEW p \in Presenter
  PROVE  LET q == FinalizeStreamUpdate(p)
         IN q \in Presenter /\ Follows(p, q)
<1> DEFINE q == FinalizeStreamUpdate(p)
           y == [p.update EXCEPT !.final = TRUE, !.retries = 0]
           x == [p EXCEPT !.update = y]
<1>1. y \in Line /\ y.ts = p.update.ts /\ y.text = p.update.text BY DEF Line, Presenter
<1>2. q = p \/ q = Flush(x) BY DEF FinalizeStreamUpdate, Presenter, Line
<1> HIDE DEF q, y
<1>3. CASE q = p BY <1>3, FlagsFollow DEF q
<1>4. CASE q = Flush(x)
  <2>1. /\ x \in Presenter /\ x.pending = p.pending /\ x.update = y
        /\ x.flights = p.flights /\ x.opening = p.opening /\ x.edits = p.edits
    BY <1>1 DEF Presenter
  <2> HIDE DEF x
  <2>2. Follows(p, x) BY <1>1, <2>1, ScheduleFollows
  <2>3. q \in Presenter /\ Follows(x, q) BY <1>4, <2>1, FlushFollows
  <2> QED BY <2>2, <2>3, FollowsTransitive DEF q
<1> QED BY <1>2, <1>3, <1>4

\* The closing text of a turn is a line of progress only if it is the line that
\* waits.
LEMMA FinalizeFollows ==
  ASSUME NEW p \in Presenter, NEW text,
         \/ text \in Text \/ p.pending = 0
         \/ text = p.update.text /\ p.update # NoUpdate
  PROVE  LET q == FinalizeTurn(p, text)
         IN q \in Presenter /\ Follows(p, q)
<1> DEFINE q == FinalizeTurn(p, text)
           h == [p EXCEPT !.ticking = FALSE]
           y == [h.update EXCEPT !.text = text, !.progress = FALSE]
           x == [h EXCEPT !.update = y]
<1>1. /\ h \in Presenter /\ h.pending = p.pending /\ h.update = p.update
      /\ h.flights = p.flights /\ h.opening = p.opening /\ h.edits = p.edits
  BY DEF Presenter
<1>2. Follows(p, h) BY <1>1, FlagsFollow
<1>3. \/ q = FinalizeStreamUpdate(p)
      \/ p.pending # 0 /\ p.update = NoUpdate /\ q = Send(h, p.pending, text)
      \/ p.pending # 0 /\ q = FinalizeStreamUpdate(x)
  BY <1>1 DEF FinalizeTurn, Presenter, Line
<1> HIDE DEF q, h
<1>4. CASE q = FinalizeStreamUpdate(p) BY <1>4, FinalFlushFollows DEF q
<1>5. CASE p.pending # 0 /\ p.update = NoUpdate /\ q = Send(h, p.pending, text)
  <2>1. p.pending \in Nat /\ text \in Text BY <1>5 DEF Presenter
  <2>2. q \in Presenter /\ Follows(h, q) BY <1>1, <1>5, <2>1, SendFollows
  <2> QED BY <1>2, <2>2, FollowsTransitive DEF q
<1>6. CASE p.pending # 0 /\ q = FinalizeStreamUpdate(x)
  <2>0. text \in Nat BY <1>6 DEF Presenter, Line, Text
  <2>1. y \in Line /\ y.ts = h.update.ts /\ y.text = text
    BY <1>1, <2>0 DEF Presenter, Line
  <2> HIDE DEF y
  <2>2. /\ x \in Presenter /\ x.pending = h.pending /\ x.update = y
        /\ x.flights = h.flights /\ x.opening = h.opening /\ x.edits = h.edits
    BY <1>1, <2>1 DEF Presenter
  <2> HIDE DEF x
  <2>3. text \in Text \/ text = h.update.text BY <1>1, <1>6
  <2>4. Follows(h, x) BY <1>1, <2>1, <2>2, <2>3, ScheduleFollows
  <2>5. q \in Presenter /\ Follows(x, q) BY <1>6, <2>2, FinalFlushFollows
  <2> QED BY <1>2, <2>4, <2>5, FollowsTransitive DEF q
<1> QED BY <1>3, <1>4, <1>5, <1>6

LEMMA TurnEndFollows ==
  ASSUME NEW p \in Presenter, NEW how
  PROVE  LET q == OnTurnEnd(p, how)
         IN q \in Presenter /\ Follows(p, q)
<1> DEFINE q == OnTurnEnd(p, how)
           c == IF p.delivered THEN p ELSE CountEmptyTurn(p)
           failed == c.failed \/ how = "failed"
           e == [c EXCEPT !.failed = failed]
           text == ClosingText(e, how)
           told == IF ~p.streaming /\ how = "stopped" /\ ~p.delivered /\ text # Nothing
                   THEN ReplaceOrPost(e, text) ELSE e
           f == FinalizeTurn(told, text)
           x == [f EXCEPT !.streaming = FALSE]
<1>1. q = p \/ q = x BY DEF OnTurnEnd
<1> HIDE DEF q
<1>2. CASE q = p BY <1>2, FlagsFollow DEF q
<1>3. CASE q = x
  <2>1. c \in Presenter /\ Follows(p, c) BY CountEmptyFollows, FlagsFollow
  <2> HIDE DEF c
  <2>2. failed \in BOOLEAN BY <2>1 DEF Presenter
  <2> HIDE DEF failed
  <2>3. /\ e \in Presenter /\ e.pending = c.pending /\ e.update = c.update
        /\ e.flights = c.flights /\ e.opening = c.opening /\ e.edits = c.edits
    BY <2>1, <2>2 DEF Presenter
  <2> HIDE DEF e
  <2>4. Follows(p, e) BY <2>1, <2>3, FlagsFollow, FollowsTransitive
  <2>5. \/ text \in Text
        \/ text = e.update.text /\ e.update # NoUpdate /\ how # "stopped"
    <3>1. e.answered \in Text /\ Nothing \in Text /\ Note \in Text /\ Answers \subseteq Text
      BY <2>3, TextTypes DEF Presenter
    <3>2. text \in {e.answered, Note, Nothing} \cup Answers
          \/ (text = e.update.text /\ e.update # NoUpdate /\ how = "plain")
      BY DEF ClosingText
    <3> QED BY <3>1, <3>2
  <2> HIDE DEF text
  <2>6. /\ told \in Presenter /\ Follows(e, told)
        /\ told.pending = 0 \/ told = e
    BY <2>3, <2>5, ReplaceFollows, FlagsFollow
  <2> HIDE DEF told
  <2>7. f \in Presenter /\ Follows(told, f) BY <2>5, <2>6, FinalizeFollows
  <2> HIDE DEF f
  <2>8. /\ x \in Presenter /\ x.pending = f.pending /\ x.update = f.update
        /\ x.flights = f.flights /\ x.opening = f.opening /\ x.edits = f.edits
    BY <2>7 DEF Presenter
  <2> HIDE DEF x
  <2>9. Follows(f, x) BY <2>7, <2>8, FlagsFollow
  <2>10. Follows(p, x) BY <2>4, <2>6, <2>7, <2>9, FollowsTransitive
  <2> QED BY <1>3, <2>8, <2>10 DEF q
<1> QED BY <1>1, <1>2, <1>3

\* A newer turn or a steer may turn away without a closing text.
LEMMA ActivateMoves ==
  ASSUME NEW p \in Presenter, NEW threaded \in BOOLEAN
  PROVE  LET q == Activate(p, threaded)
         IN q \in Presenter /\ Moves(p, q)
<1> DEFINE q == Activate(p, threaded)
           active == direct /\ ~threaded
           h == [p EXCEPT !.threaded = threaded, !.answered = Nothing, !.fallback = FALSE,
                          !.failed = FALSE, !.active = active, !.reply = Nothing]
           x == [h EXCEPT !.delivered = FALSE, !.pending = 0]
<1>1. q = x \/ q = PostPhrase(h) BY DEF Activate
<1>2. active \in BOOLEAN /\ threaded \in BOOLEAN /\ Nothing \in Text BY TextTypes
<1> HIDE DEF active, q
<1>3. /\ h \in Presenter /\ h.pending = p.pending /\ h.update = p.update
      /\ h.flights = p.flights /\ h.opening = p.opening /\ h.edits = p.edits
  BY <1>2 DEF Presenter
<1> HIDE DEF h
<1>4. Moves(p, h) BY <1>3, FlagsFollow DEF Follows
<1>5. CASE q = x
  <2>1. /\ x \in Presenter /\ x.pending = 0 /\ x.update = h.update
        /\ x.flights = h.flights /\ x.opening = h.opening /\ x.edits = h.edits
    BY <1>3 DEF Presenter
  <2> HIDE DEF x
  <2>2. Moves(h, x) BY <1>3, <2>1 DEF Moves, Within, Waits, Flies, OnePhrase, Presenter
  <2> QED BY <1>4, <1>5, <2>1, <2>2, MovesTransitive DEF q
<1>6. CASE q = PostPhrase(h)
  <2>1. q \in Presenter /\ Moves(h, q) BY <1>3, <1>6, PhraseFollows DEF Follows
  <2> QED BY <1>4, <2>1, MovesTransitive DEF q
<1> QED BY <1>1, <1>5, <1>6

LEMMA SteerMoves ==
  ASSUME NEW p \in Presenter
  PROVE  LET q == SetSteered(p)
         IN q \in Presenter /\ Moves(p, q)
<1> DEFINE q == SetSteered(p)
           h == [p EXCEPT !.streaming = TRUE]
           c == CancelUpdate(h)
           x == [c EXCEPT !.pending = 0, !.opening = "steer"]
<1>1. q = h \/ q = x BY DEF SetSteered, PostSteerPhrase
<1> HIDE DEF q
<1>2. /\ h \in Presenter /\ h.pending = p.pending /\ h.update = p.update
      /\ h.flights = p.flights /\ h.opening = p.opening /\ h.edits = p.edits
  BY DEF Presenter
<1> HIDE DEF h
<1>3. Moves(p, h) BY <1>2, FlagsFollow DEF Follows
<1>4. c \in Presenter /\ Moves(h, c) BY <1>2, CancelFollows DEF Follows
<1> HIDE DEF c
<1>5. /\ x \in Presenter /\ x.pending = 0 /\ x.update = c.update
      /\ x.flights = c.flights /\ x.edits = c.edits
  BY <1>4 DEF Presenter
<1> HIDE DEF x
<1>6. Moves(c, x) BY <1>4, <1>5 DEF Moves, Within, Waits, Flies, OnePhrase, Presenter
<1> QED BY <1>1, <1>2, <1>3, <1>4, <1>5, <1>6, MovesTransitive DEF q
-----------------------------------------------------------------------------
(* The steps *)

\* No line of progress is on its way to a message that is closed, but one that the
\* answer waits for.
ReplyInv ==
  /\ s \in Presenter
  /\ said \in Nat
  /\ shown \in Seq(Nat)
  /\ Within(s, Len(shown))
  /\ OnePhrase(s)
  /\ \A m \in DOMAIN shown \ (raced \cup left \cup {s.pending}) : ~Waits(s, m) /\ ~Flies(s, m)

LEMMA ReplyInvInit == ReplyInit => ReplyInv
<1> SUFFICES ASSUME ReplyInit PROVE ReplyInv OBVIOUS
<1>1. s \in Presenter BY TextTypes DEF ReplyInit, Presenter
<1>2. shown = <<>> /\ said = 0 BY DEF ReplyInit
<1>3. s.pending = 0 /\ s.update.ts = 0 /\ s.flights = {} /\ s.opening = "none"
  BY TextTypes DEF ReplyInit
<1> QED BY <1>1, <1>2, <1>3 DEF ReplyInv, Within, OnePhrase

LEMMA HandleKeeps ==
  ASSUME ReplyInv, NEW q, Follows(s, q), Handle(q), UNCHANGED <<shown, left>>,
         said' \in Nat
  PROVE  ReplyInv'
<1> USE DEF ReplyInv
<1>1. s' = q /\ raced' = raced \cup Crossing(q) BY DEF Handle
<1>2. q \in Presenter /\ Within(q, Len(shown)) /\ OnePhrase(q) BY DEF Follows, Moves
<1>3. ASSUME NEW m \in DOMAIN shown \ (raced' \cup left \cup {q.pending})
      PROVE  ~Waits(q, m) /\ ~Flies(q, m)
  <2>1. m \in Nat \ {0} BY <1>3
  <2>2. CASE m # s.pending
    <3>1. ~Waits(s, m) /\ ~Flies(s, m) BY <1>1, <1>3, <2>2
    <3> QED BY <2>1, <2>2, <3>1 DEF Follows, Moves
  <2>3. CASE m = s.pending
    <3>1. ~Waits(q, m) BY <1>3, <2>3 DEF Follows
    <3>2. PICK e \in q.edits : e.ts = m /\ ~e.card BY <1>3, <2>3 DEF Follows
    <3>3. m \notin Crossing(q) BY <1>1, <1>3
    <3>4. ~Flies(q, m) BY <1>3, <3>2, <3>3 DEF Flies, Crossing
    <3> QED BY <3>1, <3>4
  <2> QED BY <2>2, <2>3
<1> QED BY <1>1, <1>2, <1>3 DEF Within, OnePhrase, Waits, Flies

LEMMA TakeKeeps ==
  ASSUME ReplyInv, NEW q, Moves(s, q), Takes(q), UNCHANGED shown, said' \in Nat
  PROVE  ReplyInv'
<1> USE DEF ReplyInv
<1>1. /\ s' = q /\ raced' = raced \cup Crossing(q)
      /\ left' = left \cup Abandoned(q)
  BY DEF Handle, Takes
<1>2. q \in Presenter /\ Within(q, Len(shown)) /\ OnePhrase(q) BY DEF Moves
<1>3. ASSUME NEW m \in DOMAIN shown \ (raced' \cup left' \cup {q.pending})
      PROVE  ~Waits(q, m) /\ ~Flies(q, m)
  <2>1. m \in Nat \ {0} BY <1>3
  <2>2. CASE m # s.pending
    <3>1. ~Waits(s, m) /\ ~Flies(s, m) BY <1>1, <1>3, <2>2
    <3> QED BY <2>1, <2>2, <3>1 DEF Moves
  <2>3. CASE m = s.pending
    <3>1. m \notin Abandoned(q) /\ m \in {s.pending} \ {0, q.pending}
      BY <1>1, <1>3, <2>1, <2>3
    <3> QED BY <3>1 DEF Abandoned, Waits, Flies
  <2> QED BY <2>2, <2>3
<1> QED BY <1>1, <1>2, <1>3 DEF Within, OnePhrase, Waits, Flies

\* The answer of a request waits for the newest flush, and has crossed any other.
LEMMA SettlementKeeps ==
  ASSUME ReplyInv, NEW q, q = OnRequestSettled(s), Handle(q),
         UNCHANGED <<shown, left, said>>
  PROVE  ReplyInv'
<1> DEFINE m == s.pending
           text == IF s.reply # Nothing THEN s.reply ELSE Note
           waits == m # 0 /\ \E f \in s.flights : f.newest
           held == IF waits THEN {f \in s.flights : f.newest} ELSE {}
           e == [ts |-> m, text |-> text, card |-> TRUE, held |-> waits]
           holding == {[f EXCEPT !.holds = @ \cup {m}] : f \in held}
           c == CancelUpdate(s)
           edits == s.edits \cup {e}
           flights == (s.flights \ held) \cup holding
           x == [c EXCEPT !.active = FALSE, !.ticking = FALSE, !.pending = 0,
                          !.reply = Nothing, !.edits = edits, !.flights = flights]
<1>0. s \in Presenter /\ m \in Nat /\ said' \in Nat BY DEF ReplyInv, Presenter
<1>1. c \in Presenter /\ c.edits = s.edits /\ c.flights = s.flights
      /\ c.update = NoUpdate /\ c.opening = s.opening
  BY <1>0, TextTypes DEF CancelUpdate, Presenter
<1>2. q = s \/ q = x BY <1>1 DEF OnRequestSettled
<1>3. CASE q = s
  <2>1. Follows(s, q) BY <1>0, <1>3, FlagsFollow
  <2> QED BY <1>0, <2>1, HandleKeeps
<1>4. CASE q = x
  <2>1. text \in Text /\ waits \in BOOLEAN
    BY <1>0, TextTypes DEF Presenter
  <2>2. \A f \in s.flights : f.newest /\ m # 0 => f \in held OBVIOUS
  <2>3. held \subseteq s.flights /\ (m = 0 => held = {}) OBVIOUS
  <2> HIDE DEF text, waits, held
  <2>4. e \in Edit /\ e.ts = m /\ e.card BY <1>0, <2>1 DEF Edit
  <2>5. \A g \in holding : \E f \in held : /\ g \in Flight /\ g.entry = f.entry
                                           /\ g.holds = f.holds \cup {m}
    <3> SUFFICES ASSUME NEW f \in held
                 PROVE  LET g == [f EXCEPT !.holds = @ \cup {m}]
                        IN g \in Flight /\ g.entry = f.entry /\ g.holds = f.holds \cup {m}
      OBVIOUS
    <3>1. f \in Flight BY <1>0, <2>3 DEF Presenter
    <3> QED BY <1>0, <3>1 DEF Flight
  <2>6. edits \in SUBSET Edit /\ flights \in SUBSET Flight
    BY <1>0, <2>4, <2>5 DEF Presenter
  <2> HIDE DEF e, c, holding, edits, flights
  <2>7. /\ x \in Presenter /\ x.pending = 0 /\ x.update = NoUpdate
        /\ x.edits = edits /\ x.flights = flights /\ x.opening = s.opening
    BY <1>1, <2>6, TextTypes DEF Presenter
  <2> HIDE DEF x, m
  <2>8. s' = q /\ raced' = raced \cup Crossing(q) BY DEF Handle
  <2>9. \A g \in q.flights : \/ g \in s.flights /\ g \notin held
                             \/ \E f \in held : g.entry = f.entry /\ g.holds = f.holds \cup {m}
    BY <1>4, <2>5, <2>7 DEF flights
  <2>10. Within(q, Len(shown)) /\ OnePhrase(q)
    <3>1. Within(s, Len(shown)) /\ Len(shown) \in Nat /\ OnePhrase(s) BY DEF ReplyInv
    <3>2. q.pending = 0 /\ q.update.ts = 0 BY <1>4, <2>7, TextTypes
    <3>3. \A f \in q.flights : f.entry.ts <= Len(shown) BY <2>3, <2>9, <3>1 DEF Within
    <3> QED BY <3>1, <3>2, <3>3 DEF Within, OnePhrase
  <2>11. ASSUME NEW k \in DOMAIN shown \ (raced' \cup left \cup {0})
         PROVE  ~Waits(q, k) /\ ~Flies(q, k)
    <3>1. ~Waits(q, k)
      <4>1. q.update = NoUpdate BY <1>4, <2>7
      <4> QED BY <4>1, TextTypes DEF Waits, Text
    <3>2. CASE k # m
      <4>1. ~Flies(s, k) BY <2>8, <2>11, <3>2 DEF ReplyInv, m
      <4>2. ~Flies(q, k) BY <2>3, <2>9, <3>2, <4>1 DEF Flies
      <4> QED BY <3>1, <4>2
    <3>3. CASE k = m
      <4>1. k \notin Crossing(q) BY <2>8, <2>11
      <4>2. e \in q.edits BY <1>4, <2>7 DEF edits
      <4> SUFFICES ASSUME NEW f \in q.flights, f.entry.ts = m, m \notin f.holds PROVE FALSE
        BY <3>1, <3>3 DEF Flies
      <4>3. f \in s.flights /\ f \notin held BY <2>9
      <4>4. ~f.newest BY <2>2, <2>11, <3>3, <4>3
      <4>5. k \in Crossing(q)
        BY <2>4, <2>11, <3>3, <4>2, <4>4 DEF Crossing
      <4> QED BY <4>1, <4>5
    <3> QED BY <3>2, <3>3
  <2>12. q \in Presenter /\ q.pending = 0 BY <1>4, <2>7
  <2>13. shown \in Seq(Nat) BY DEF ReplyInv
  <2> QED BY <1>0, <2>8, <2>10, <2>11, <2>12, <2>13 DEF ReplyInv, Within, OnePhrase, Waits, Flies
<1> QED BY <1>2, <1>3, <1>4

\* What a call that lands does to the messages.
LEMMA ShowFacts ==
  ASSUME shown \in Seq(Nat), NEW ts \in Nat, NEW text \in Nat, Show(ts, text)
  PROVE  /\ shown' \in Seq(Nat)
         /\ Len(shown') = IF ts = 0 THEN Len(shown) + 1 ELSE Len(shown)
         /\ \A m \in DOMAIN shown : shown'[m] = IF m = ts THEN text ELSE shown[m]
<1>1. CASE ts = 0
  <2>1. shown' = Append(shown, text) BY <1>1 DEF Show
  <2> QED BY <1>1, <2>1
<1>2. CASE ts # 0
  <2>1. shown' = [shown EXCEPT ![ts] = text] BY <1>2 DEF Show
  <2>2. CASE ts \in 1..Len(shown) BY <1>2, <2>1, <2>2, ExceptSeq
  <2>3. CASE ts \notin 1..Len(shown)
    <3>1. DOMAIN shown = 1..Len(shown) OBVIOUS
    <3>2. shown' = shown BY <2>1, <2>3, <3>1
    <3> QED BY <1>2, <2>3, <3>1, <3>2
  <2> QED BY <2>2, <2>3
<1> QED BY <1>1, <1>2

\* A step that moves nothing but the messages and takes calls away.
LEMMA LandKeeps ==
  ASSUME ReplyInv, NEW q \in Presenter, s' = q, raced \subseteq raced', UNCHANGED <<left, said>>,
         q.pending = s.pending, q.opening = s.opening,
         q.update.ts <= Len(shown),
         \A m \in DOMAIN shown \ raced' : Waits(q, m) => Waits(s, m) \/ Flies(s, m),
         q.flights \subseteq s.flights, shown' \in Seq(Nat),
         Len(shown') \in {Len(shown), Len(shown) + 1}
  PROVE  ReplyInv'
<1> USE DEF ReplyInv
<1>1. Len(shown) \in Nat /\ q.update.ts \in Nat /\ q.pending \in Nat
      /\ \A f \in q.flights : f.entry.ts \in Nat
  BY DEF Presenter, Line, Flight
<1>2. Within(q, Len(shown)) BY DEF Within
<1>3. Within(q, Len(shown')) BY <1>1, <1>2 DEF Within
<1>4. OnePhrase(q) BY DEF OnePhrase
<1>5. ASSUME NEW m \in DOMAIN shown' \ (raced' \cup left \cup {q.pending})
      PROVE  ~Waits(q, m) /\ ~Flies(q, m)
  <2>1. CASE m \in DOMAIN shown
    <3>1. ~Waits(s, m) /\ ~Flies(s, m) BY <1>5, <2>1
    <3> QED BY <1>5, <2>1, <3>1 DEF Flies
  <2>2. CASE m \notin DOMAIN shown
    <3>1. m = Len(shown) + 1 BY <1>1, <1>5, <2>2
    <3> QED BY <1>1, <1>2, <3>1 DEF Within, Waits, Flies
  <2> QED BY <2>1, <2>2
<1> QED BY <1>3, <1>4, <1>5 DEF Within, OnePhrase, Waits, Flies

LEMMA BeginKeeps ==
  ASSUME ReplyInv, NEW threaded \in BOOLEAN,
         Begin(threaded) \/ Corrects(threaded)
  PROVE  ReplyInv'
<1>0. s \in Presenter /\ said' \in Nat /\ shown' = shown
  BY DEF ReplyInv, Begin, Corrects
<1>1. CASE Begin(threaded)
  <2> DEFINE h == IF run = "idle" THEN [s EXCEPT !.streaming = FALSE] ELSE s
             q == Activate(h, threaded)
  <2>1. Takes(q) BY <1>1 DEF Begin
  <2>2. /\ h \in Presenter /\ h.pending = s.pending /\ h.update = s.update
        /\ h.flights = s.flights /\ h.opening = s.opening /\ h.edits = s.edits
    BY <1>0 DEF Presenter
  <2> HIDE DEF h
  <2>3. Moves(s, h) BY <1>0, <2>2, FlagsFollow DEF Follows
  <2>4. Moves(h, q) BY <2>2, ActivateMoves
  <2> HIDE DEF q
  <2>5. Moves(s, q) BY <2>3, <2>4, MovesTransitive
  <2> QED BY <1>0, <2>1, <2>5, TakeKeeps
<1>2. CASE Corrects(threaded)
  <2> DEFINE h == Activate(s, threaded)
             q == SetSteered(h)
  <2>1. Takes(q) BY <1>2 DEF Corrects
  <2>2. h \in Presenter /\ Moves(s, h) BY <1>0, ActivateMoves
  <2> HIDE DEF h
  <2>3. Moves(h, q) BY <2>2, SteerMoves
  <2> HIDE DEF q
  <2>4. Moves(s, q) BY <2>2, <2>3, MovesTransitive
  <2> QED BY <1>0, <2>1, <2>4, TakeKeeps
<1> QED BY <1>1, <1>2

\* The events of the session and the timers.
LEMMA EventKeeps ==
  ASSUME ReplyInv,
         \/ TurnStart \/ Message \/ Empty \/ SessionError
         \/ ProgressMade \/ UpdateDue \/ OrphanDue \/ PhraseFails
         \/ \E how \in {"plain", "failed", "partial", "stopped"} : TurnEnd(how)
  PROVE  ReplyInv'
<1>0. s \in Presenter /\ said \in Nat BY DEF ReplyInv
<1>1. ASSUME NEW q, Follows(s, q), Handle(q), UNCHANGED <<shown, left>>,
             said' \in {said, said + 1}
      PROVE  ReplyInv'
  BY <1>0, <1>1, HandleKeeps
<1>2. CASE TurnStart
  <2> DEFINE h == ScheduleProgress(s)
             q == PostPhrase(h)
  <2>1. Handle(q) BY <1>2 DEF TurnStart
  <2>2. h \in Presenter /\ Follows(s, h) BY <1>0, ProgressFollows
  <2> HIDE DEF h
  <2>3. Follows(h, q) BY <2>2, PhraseFollows
  <2> HIDE DEF q
  <2>4. Follows(s, q) BY <2>2, <2>3, FollowsTransitive
  <2> QED BY <1>1, <1>2, <2>1, <2>4 DEF TurnStart
<1>3. CASE Message
  <2>1. said + 1 \in Text
    <3>1. said + 1 \in Answers
      BY <1>0, <1>3, TextTypes DEF Message, Answers
    <3> QED BY <3>1, TextTypes
  <2>2. Follows(s, OnMessage(s, said + 1)) BY <1>0, <2>1, MessageFollows
  <2> QED BY <1>1, <1>3, <2>2 DEF Message
<1>4. CASE Empty
  <2>1. Follows(s, OnEmpty(s)) BY <1>0, EmptyFollows
  <2> QED BY <1>1, <1>4, <2>1 DEF Empty
<1>5. CASE SessionError
  <2>1. Follows(s, OnError(s)) BY <1>0, ErrorFollows
  <2> QED BY <1>1, <1>5, <2>1 DEF SessionError
<1>6. CASE ProgressMade
  <2>1. Follows(s, ScheduleProgress(s)) BY <1>0, ProgressFollows
  <2> QED BY <1>1, <1>6, <2>1 DEF ProgressMade
<1>7. CASE UpdateDue
  <2>1. Follows(s, Flush(s)) BY <1>0, FlushFollows
  <2> QED BY <1>1, <1>7, <2>1 DEF UpdateDue
<1>8. CASE OrphanDue
  <2> DEFINE h == [s EXCEPT !.orphans = @ - 1]
             q == Flush(h)
  <2>1. Handle(q) /\ s.orphans > 0 BY <1>8 DEF OrphanDue
  <2>2. /\ h \in Presenter /\ h.pending = s.pending /\ h.update = s.update
        /\ h.flights = s.flights /\ h.opening = s.opening /\ h.edits = s.edits
    BY <1>0, <2>1 DEF Presenter
  <2> HIDE DEF h
  <2>3. Follows(s, h) BY <1>0, <2>2, FlagsFollow
  <2>4. Follows(h, q) BY <2>2, FlushFollows
  <2> HIDE DEF q
  <2>5. Follows(s, q) BY <2>3, <2>4, FollowsTransitive
  <2> QED BY <1>1, <1>8, <2>1, <2>5 DEF OrphanDue
<1>9. CASE PhraseFails
  <2> DEFINE q == [s EXCEPT !.opening = "none"]
  <2>1. Handle(q) BY <1>9 DEF PhraseFails
  <2>2. /\ q \in Presenter /\ q.pending = s.pending /\ q.update = s.update
        /\ q.flights = s.flights /\ q.opening = "none" /\ q.edits = s.edits
    BY <1>0 DEF Presenter
  <2> HIDE DEF q
  <2>3. Follows(s, q)
    BY <1>0, <2>2 DEF Follows, Moves, Within, Waits, Flies, OnePhrase
  <2> QED BY <1>1, <1>9, <2>1, <2>3 DEF PhraseFails
<1>10. ASSUME NEW how \in {"plain", "failed", "partial", "stopped"}, TurnEnd(how)
       PROVE  ReplyInv'
  <2>1. Follows(s, OnTurnEnd(s, how)) BY <1>0, TurnEndFollows
  <2> QED BY <1>1, <1>10, <2>1 DEF TurnEnd
<1> QED BY <1>2, <1>3, <1>4, <1>5, <1>6, <1>7, <1>8, <1>9, <1>10

LEMMA PhraseKeeps ==
  ASSUME ReplyInv, PhraseLands
  PROVE  ReplyInv'
<1> DEFINE n == Len(shown)
           k == n + 1
           a == [s EXCEPT !.opening = "none", !.pending = k]
           b == [s EXCEPT !.opening = "none"]
           t == [a EXCEPT !.ticking = TRUE]
           c == ScheduleProgress(t)
           x == Entry(t.pending, Progress, TRUE)
<1>0. /\ s \in Presenter /\ said' \in Nat /\ shown \in Seq(Nat) /\ n \in Nat
      /\ Within(s, n) /\ s.pending = 0 /\ left' = left
  BY DEF ReplyInv, OnePhrase, PhraseLands
<1>1. PICK q \in {a, b, c} : Handle(q) BY DEF PhraseLands
<1>2. shown' \in Seq(Nat) /\ Len(shown') = n + 1 /\ DOMAIN shown' = 1..(n + 1)
  <2>1. Show(0, Progress) /\ Progress \in Nat /\ shown \in Seq(Nat)
    BY <1>0, TextTypes DEF PhraseLands
  <2>2. shown' \in Seq(Nat) /\ Len(shown') = IF 0 = 0 THEN n + 1 ELSE n
    BY <2>1, ShowFacts, Zenon
  <2>3. DOMAIN shown' = 1..Len(shown') BY <2>2
  <2> QED BY <2>2, <2>3
<1> HIDE DEF n
<1>k. k \in Nat BY <1>0
<1> HIDE DEF k
<1>3. /\ t \in Presenter /\ t.pending = k /\ t.update = s.update
      /\ t.flights = s.flights /\ t.opening = "none"
  BY <1>0, <1>k DEF Presenter
<1>4. /\ a \in Presenter /\ a.pending = k /\ a.update = s.update
      /\ a.flights = s.flights /\ a.opening = "none"
  BY <1>0, <1>k DEF Presenter
<1>5. /\ b \in Presenter /\ b.pending = 0 /\ b.update = s.update
      /\ b.flights = s.flights /\ b.opening = "none"
  BY <1>0, <1>k DEF Presenter
<1>6. x \in Line /\ x.ts = t.pending
  BY <1>3, TextTypes DEF Entry, NoUpdate, Line, Presenter
<1>7. c = t \/ c = [t EXCEPT !.update = x] BY DEF ScheduleProgress
<1> HIDE DEF a, b, c, t, x
<1>8. /\ c \in Presenter /\ c.pending = k /\ c.flights = s.flights /\ c.opening = "none"
      /\ c.update = s.update \/ c.update.ts = k
  BY <1>3, <1>6, <1>7 DEF Presenter
<1>9. /\ q \in Presenter /\ q.pending \in {0, n + 1}
      /\ q.flights = s.flights /\ q.opening = "none"
  BY <1>1, <1>4, <1>5, <1>8 DEF k
<1>10. q.update = s.update \/ (q.update.ts = n + 1 /\ q.pending = n + 1)
  BY <1>1, <1>4, <1>5, <1>8 DEF k
<1>11. s' = q /\ raced \subseteq raced' BY <1>1 DEF Handle
<1>12. q.update.ts \in Nat /\ \A f \in q.flights : f.entry.ts \in Nat /\ f.entry.ts <= n
  BY <1>0, <1>9 DEF Presenter, Line, Flight, Within
<1>13. Within(q, n + 1) BY <1>0, <1>9, <1>10, <1>12 DEF Within
<1>14. ASSUME NEW m \in (1..(n + 1)) \ (raced' \cup left \cup {q.pending})
       PROVE  ~Waits(q, m) /\ ~Flies(q, m)
  <2>1. CASE m = n + 1
    <3>1. q.update.ts # m BY <1>0, <1>10, <1>12, <1>14, <2>1 DEF Within
    <3>2. \A f \in q.flights : f.entry.ts # m BY <1>0, <1>12, <2>1
    <3> QED BY <3>1, <3>2 DEF Waits, Flies
  <2>2. CASE m # n + 1
    <3>1. m \in 1..n /\ DOMAIN shown = 1..n BY <1>0, <1>14, <2>2 DEF n
    <3>2. ~Waits(s, m) /\ ~Flies(s, m) BY <1>0, <1>11, <1>14, <3>1 DEF ReplyInv
    <3>3. ~Waits(q, m) BY <1>10, <2>2, <3>2 DEF Waits
    <3> QED BY <1>9, <3>2, <3>3 DEF Flies
  <2> QED BY <2>1, <2>2
<1> QED BY <1>0, <1>2, <1>9, <1>11, <1>13, <1>14
        DEF ReplyInv, Within, OnePhrase, Waits, Flies

LEMMA OverFacts ==
  ASSUME NEW p \in Presenter, NEW f
  PROVE  LET q == Over(p, f)
         IN /\ q \in Presenter /\ q.pending = p.pending /\ q.opening = p.opening
            /\ q.update = p.update /\ q.flights \subseteq p.flights
<1> DEFINE edits == {IF e.ts \in f.holds THEN [e EXCEPT !.held = FALSE] ELSE e : e \in p.edits}
           flights == p.flights \ {f}
           q == Over(p, f)
<1>1. q = [p EXCEPT !.flights = flights, !.edits = edits] BY DEF Over
<1>2. edits \subseteq Edit
  <2> SUFFICES ASSUME NEW e \in p.edits PROVE [e EXCEPT !.held = FALSE] \in Edit /\ e \in Edit
    OBVIOUS
  <2> QED BY DEF Presenter, Edit
<1>3. flights \subseteq Flight /\ flights \subseteq p.flights BY DEF Presenter
<1> HIDE DEF edits, flights, q
<1> QED BY <1>1, <1>2, <1>3 DEF Presenter, q

LEMMA KeptFacts ==
  ASSUME NEW p \in Presenter, NEW f \in p.flights
  PROVE  LET q == Kept(p, f.entry)
         IN /\ q \in Presenter /\ q.pending = p.pending /\ q.opening = p.opening
            /\ q.flights = p.flights
            /\ \/ q.update = p.update
               \/ q.update.ts = f.entry.ts /\ q.update.text = f.entry.text
<1> DEFINE entry == f.entry
           retries == IF entry.final THEN entry.retries + 1 ELSE entry.retries
           final == entry.final
           kept == [entry EXCEPT !.retries = retries, !.armed = final]
           timers == IF p.update.armed THEN p.orphans + 1 ELSE p.orphans
           q == Kept(p, entry)
<1>1. q = p \/ q = [p EXCEPT !.update = kept, !.orphans = timers] BY DEF Kept
<1>2. entry \in Line BY DEF Presenter, Flight
<1>3. retries \in Nat /\ timers \in Nat /\ final \in BOOLEAN BY <1>2 DEF Line, Presenter
<1> HIDE DEF entry, retries, final, timers
<1>4. kept \in Line /\ kept.ts = entry.ts /\ kept.text = entry.text BY <1>2, <1>3 DEF Line
<1> HIDE DEF kept, q
<1> QED BY <1>1, <1>3, <1>4 DEF Presenter, q, entry

\* The calls that land or fail, but for phrases.
LEMMA CallKeeps ==
  ASSUME ReplyInv,
         \/ EditLands \/ EditFails \/ FlushFails
         \/ \E awaited \in BOOLEAN : FlushLands(awaited)
  PROVE  ReplyInv'
<1>a. left' = left /\ said' = said
  BY DEF EditLands, EditFails, FlushFails, FlushLands
<1>0. /\ s \in Presenter /\ said \in Nat /\ shown \in Seq(Nat) /\ Len(shown) \in Nat
      /\ Within(s, Len(shown)) /\ left' = left /\ said' = said
  BY <1>a DEF ReplyInv
<1>1. ASSUME NEW ts \in Nat, NEW text \in Nat, Show(ts, text)
      PROVE  shown' \in Seq(Nat) /\ Len(shown') \in {Len(shown), Len(shown) + 1}
  BY <1>0, <1>1, ShowFacts
<1>2. \A e \in s.edits : e.ts \in Nat /\ e.text \in Nat BY <1>0 DEF Presenter, Edit, Text
<1>3. \A f \in s.flights : f.entry.ts \in Nat /\ f.entry.text \in Nat /\ f.entry.ts <= Len(shown)
  BY <1>0 DEF Presenter, Flight, Line, Within
<1>4. s.update.ts <= Len(shown) BY <1>0 DEF Within
<1>5. CASE EditLands \/ EditFails
  <2>1. PICK e \in s.edits :
          /\ Handle([s EXCEPT !.edits = @ \ {e}])
          /\ Show(e.ts, e.text) \/ shown' = shown
    BY <1>5 DEF EditLands, EditFails
  <2> DEFINE q == [s EXCEPT !.edits = @ \ {e}]
  <2>2. /\ q \in Presenter /\ q.pending = s.pending /\ q.opening = s.opening
        /\ q.update = s.update /\ q.flights = s.flights
    BY <1>0 DEF Presenter
  <2>3. s' = q /\ raced \subseteq raced' BY <2>1 DEF Handle
  <2> HIDE DEF q
  <2>4. shown' \in Seq(Nat) /\ Len(shown') \in {Len(shown), Len(shown) + 1}
    BY <1>0, <1>1, <1>2, <2>1
  <2>5. \A m : Waits(q, m) => Waits(s, m) BY <2>2 DEF Waits
  <2> QED BY <1>0, <1>4, <2>2, <2>3, <2>4, <2>5, LandKeeps
<1>6. CASE \E awaited \in BOOLEAN : FlushLands(awaited)
  <2>1. PICK f \in s.flights :
          Handle(Over(s, f)) /\ Show(f.entry.ts, f.entry.text)
    BY <1>6 DEF FlushLands
  <2> DEFINE q == Over(s, f)
  <2>2. /\ q \in Presenter /\ q.pending = s.pending /\ q.opening = s.opening
        /\ q.update = s.update /\ q.flights \subseteq s.flights
    BY <1>0, OverFacts
  <2>3. s' = q /\ raced \subseteq raced' BY <2>1 DEF Handle
  <2> HIDE DEF q
  <2>4. shown' \in Seq(Nat) /\ Len(shown') \in {Len(shown), Len(shown) + 1}
    BY <1>1, <1>3, <2>1
  <2>5. \A m : Waits(q, m) => Waits(s, m) BY <2>2 DEF Waits
  <2> QED BY <1>0, <1>4, <2>2, <2>3, <2>4, <2>5, LandKeeps
<1>7. CASE FlushFails
  <2>1. PICK f \in s.flights :
          s' = Over(Kept(s, f.entry), f) /\ raced' = raced \cup f.holds
    BY <1>7 DEF FlushFails
  <2> DEFINE h == Kept(s, f.entry)
             q == Over(h, f)
  <2>2. /\ h \in Presenter /\ h.pending = s.pending /\ h.opening = s.opening
        /\ h.flights = s.flights
        /\ \/ h.update = s.update
           \/ h.update.ts = f.entry.ts /\ h.update.text = f.entry.text
    BY <1>0, KeptFacts
  <2> HIDE DEF h
  <2>3. /\ q \in Presenter /\ q.pending = h.pending /\ q.opening = h.opening
        /\ q.update = h.update /\ q.flights \subseteq h.flights
    BY <2>2, OverFacts
  <2>4. s' = q /\ raced \subseteq raced' BY <2>1 DEF h
  <2> HIDE DEF q
  <2>5. shown' = shown BY <1>7 DEF FlushFails
  <2>6. q.update.ts <= Len(shown) BY <1>3, <1>4, <2>2, <2>3
  <2>7. \A m \in DOMAIN shown \ raced' : Waits(q, m) => Waits(s, m) \/ Flies(s, m)
    BY <2>1, <2>2, <2>3 DEF Waits, Flies
  <2> QED BY <1>0, <2>2, <2>3, <2>4, <2>5, <2>6, <2>7, LandKeeps
<1> QED BY <1>5, <1>6, <1>7

LEMMA ReplyStep == ReplyInv /\ [ReplyNext]_replyVars => ReplyInv'
<1> SUFFICES ASSUME ReplyInv, [ReplyNext]_replyVars PROVE ReplyInv'
  OBVIOUS
<1>1. CASE \E threaded \in BOOLEAN : Begin(threaded) \/ Corrects(threaded)
  BY <1>1, BeginKeeps
<1>2. CASE \/ TurnStart \/ Message \/ Empty \/ SessionError
           \/ ProgressMade \/ UpdateDue \/ OrphanDue \/ PhraseFails
           \/ \E how \in {"plain", "failed", "partial", "stopped"} : TurnEnd(how)
  BY <1>2, EventKeeps
<1>3. CASE SessionFails \/ UNCHANGED replyVars
  <2>1. UNCHANGED <<s, shown, said, raced, left>>
    BY <1>3 DEF SessionFails, replyVars
  <2> QED BY <2>1 DEF ReplyInv, Within, OnePhrase, Waits, Flies
<1>4. CASE PromptSettles \/ OwedSettles
  <2>1. Handle(OnRequestSettled(s)) /\ UNCHANGED <<shown, left, said>>
    BY <1>4 DEF PromptSettles, OwedSettles
  <2> QED BY <2>1, SettlementKeeps
<1>5. CASE PhraseLands BY <1>5, PhraseKeeps
<1>6. CASE \/ EditLands \/ EditFails \/ FlushFails
           \/ \E awaited \in BOOLEAN : FlushLands(awaited)
  BY <1>6, CallKeeps
<1> QED BY <1>1, <1>2, <1>3, <1>4, <1>5, <1>6 DEF ReplyNext

LEMMA ReplyInvHolds == ReplySpec => []ReplyInv
<1>1. ReplyInit => ReplyInv BY ReplyInvInit
<1>2. ReplyInv /\ [ReplyNext]_replyVars => ReplyInv' BY ReplyStep
<1> QED BY <1>1, <1>2, PTL DEF ReplySpec

\* AnswerStays: whatever lands, no line of progress covers an answer but where
\* AnswerStays says. Only calls that land change what a message says; a closing
\* text is no line of progress, and a flush with one is on its way to the message
\* that the presenter works on, or to one that the exceptions name.
THEOREM AnswerStaysHolds == ReplySpec => AnswerStays
<1> DEFINE Stays ==
      \A m \in DOMAIN shown :
        shown[m] \in Answers /\ shown'[m] = Progress
          => m \in raced \cup left \cup Awaited \cup {s.pending}
<1>1. ReplyInv /\ [ReplyNext]_replyVars => [Stays]_replyVars
  <2> SUFFICES ASSUME ReplyInv, ReplyNext, NEW m \in DOMAIN shown,
                      shown[m] \in Answers, shown'[m] = Progress,
                      m \notin raced \cup left \cup {s.pending}
               PROVE  m \in Awaited
    OBVIOUS
  <2>0. /\ s \in Presenter /\ shown \in Seq(Nat) /\ m \in Nat /\ m # 0 /\ ~Flies(s, m)
        /\ shown[m] # Progress /\ Progress \in Nat
    BY TextTypes DEF ReplyInv, Answers, Progress
  <2>1. ASSUME NEW ts \in Nat, NEW text \in Nat, Show(ts, text)
        PROVE  m = ts /\ text = Progress
    BY <2>0, <2>1, ShowFacts
  <2>2. CASE PhraseLands
    BY <2>0, <2>1, <2>2 DEF PhraseLands
  <2>3. CASE EditLands
    <3>1. PICK e \in s.edits : Show(e.ts, e.text) BY <2>3 DEF EditLands
    <3>2. e.ts \in Nat /\ e.text \in Text BY <2>0 DEF Presenter, Edit
    <3> QED BY <2>1, <3>1, <3>2 DEF Text
  <2>4. CASE \E awaited \in BOOLEAN : FlushLands(awaited)
    <3>1. PICK f \in s.flights : Show(f.entry.ts, f.entry.text)
      BY <2>4 DEF FlushLands
    <3>2. f.entry.ts \in Nat /\ f.entry.text \in Nat BY <2>0 DEF Presenter, Flight, Line
    <3>3. m \in f.holds BY <2>0, <2>1, <3>1, <3>2 DEF Flies
    <3> QED BY <3>3 DEF Awaited
  <2>5. CASE shown' = shown BY <2>0, <2>5
  <2> QED
    BY <2>2, <2>3, <2>4, <2>5
       DEF ReplyNext, Begin, Corrects, SessionFails, TurnStart,
           Message, Empty, SessionError, ProgressMade,
           TurnEnd, PromptSettles, OwedSettles, UpdateDue,
           OrphanDue, PhraseFails, EditFails, FlushFails
<1>2. AnswerStays <=> [][Stays]_replyVars BY DEF AnswerStays
<1> HIDE DEF Stays
<1> QED BY <1>1, <1>2, ReplyInvHolds, PTL DEF ReplySpec
=============================================================================
