------------------------------ MODULE WorkReview ------------------------------
(***************************************************************************)
(* The continuation of blocked work: the private review link behind a      *)
(* button of the blocked item's card (src/src/server/adapters/             *)
(* work-review-router.ts), its session and pages (src/src/server/          *)
(* work-review/routes.ts), the continuation they lead to (continuation.ts  *)
(* beside it) and the fork by the API (src/src/server/api.ts). A           *)
(* continuation is a new work item, made by forkWorkItem                   *)
(* (src/src/work-items/fork.ts) and createWorkItem (src/src/store/db.ts)   *)
(* in three writes; a fork that has its job runs.                          *)
(*                                                                         *)
(* A link is one redeemable token and a session the row its redemption     *)
(* leaves; both are named by the token. A page carries the csrf value of   *)
(* its reading, which is named by its number. Requests are steps of one    *)
(* server process, and whatever they await lets the others go on.          *)
(*                                                                         *)
(* No name of this module is one of Delivery's, the other place where      *)
(* people decide on an item: one module holds the theorems about both.     *)
(***************************************************************************)
EXTENDS Naturals, Sequences, FiniteSets

CONSTANTS
  Works,       \* work items that can end blocked
  Visitors,    \* people with the link of the channel
  Tokens,      \* review tokens that can be minted
  Requests,    \* HTTP requests and clicks under way at the same time
  Forks,       \* work items that can be forked off
  MaxReads,    \* bound: pages read in one session
  MaxTroubles  \* bound: storage faults and server deaths

ASSUME NoVisitorAssumption == "none" \notin Visitors \cup Works
ASSUME TroublesAssumption == MaxTroubles \in Nat
ASSUME NoForkAssumption == "none" \notin Forks
ASSUME ReadsAssumption == MaxReads \in Nat

VARIABLES
  blocked,  \* items whose row is at blocked, for good
  member,   \* current members of the channel
  token,    \* the token's row: its actor, item and status
  session,  \* the session a token was redeemed for: none | live | expired
  csrf,     \* csrf value of a session: its digest's place among the readings
  cookies,  \* sessions whose cookie reached its browser
  req,      \* what each request is doing; seen is a history variable: its
            \* actor was a member at some time since it arrived
  lock,     \* requests that continue an item, in the order of its lock
  fork,     \* the forks: source, intent and how much of them is written
  pressed,  \* history: blocked items whose retry button was pressed
  troubles

reviewVars == <<blocked, member, token, session, csrf, cookies, req, lock, fork, pressed,
                troubles>>

Idle == [op |-> "none", pc |-> "idle", who |-> "none", item |-> "none",
         token |-> "none", form |-> 0, snap |-> 0, fork |-> "none", seen |-> FALSE]

Pcs == {"idle", "member", "project", "form", "lock", "asked", "row", "edge",
        "job", "told"}

ReviewTypeOK ==
  /\ blocked \subseteq Works
  /\ member \subseteq Visitors
  /\ token \in [Tokens -> [status : {"none", "live", "used", "gone"},
                           who : Visitors \cup {"none"}, item : Works \cup {"none"}]]
  /\ session \in [Tokens -> {"none", "live", "expired"}]
  /\ csrf \in [Tokens -> 0..MaxReads]
  /\ cookies \subseteq Tokens
  /\ req \in [Requests ->
       [op : {"none", "open", "redeem", "read", "continue", "api"}, pc : Pcs,
        who : Visitors \cup {"none"}, item : Works \cup {"none"},
        token : Tokens \cup {"none"}, form : 0..MaxReads, snap : 0..MaxReads,
        fork : Forks \cup {"none"}, seen : BOOLEAN]]
  /\ lock \in [Works -> Seq(Requests)]
  /\ fork \in [Forks -> [of : Works \cup {"none"}, intent : {"none", "continuation"},
                         stage : {"none", "row", "edge", "job"}]]
  /\ pressed \subseteq Works
  /\ troubles \in 0..MaxTroubles

ReviewInit ==
  /\ blocked = {}
  /\ member = Visitors
  /\ token = [t \in Tokens |-> [status |-> "none", who |-> "none", item |-> "none"]]
  /\ session = [t \in Tokens |-> "none"]
  /\ csrf = [t \in Tokens |-> 0]
  /\ cookies = {}
  /\ req = [r \in Requests |-> Idle]
  /\ lock = [i \in Works |-> <<>>]
  /\ fork = [f \in Forks |-> [of |-> "none", intent |-> "none", stage |-> "none"]]
  /\ pressed = {}
  /\ troubles = 0

\* Bound: the names still free outnumber the requests that may take one.
Spare(free, ops) ==
  Cardinality({r \in Requests : req[r].op \in ops}) < Cardinality(free)

FreeForks == {f \in Forks : fork[f].stage = "none"}
Forking == {"continue", "api"}

\* The request moves on, or ends.
Goes(r, pc) == req' = [req EXCEPT ![r].pc = pc]
Ends(r) == req' = [req EXCEPT ![r] = Idle]
-----------------------------------------------------------------------------
(* Buttons of the card that a blocked landing posts *)

\* The action ids the Slack adapter listens to, of the card's two.
Routed == {"open_work_review"}

\* A request arrives; from here on its actor may leave the channel.
Arrives(r, q) ==
  /\ req[r] = Idle
  /\ req' = [req EXCEPT ![r] = [q EXCEPT !.seen = q.who \in member]]

\* A click of the retry button continues the item, if anybody hears of it.
PressRetry(r, i, p) ==
  /\ i \in blocked \ pressed
  /\ p \in member
  /\ pressed' = pressed \cup {i}
  /\ IF "retry_with_context" \in Routed
       THEN /\ Spare(FreeForks, Forking)
            /\ Arrives(r, [Idle EXCEPT !.op = "continue", !.pc = "lock", !.who = p,
                                       !.item = i])
            /\ lock' = [lock EXCEPT ![i] = Append(@, r)]
       ELSE req[r] = Idle /\ UNCHANGED <<req, lock>>
  /\ UNCHANGED <<blocked, member, token, session, csrf, cookies, fork, troubles>>

PressOpenReview(r, i, p) ==
  /\ i \in blocked
  /\ Spare({t \in Tokens : token[t].status = "none"}, {"open"})
  /\ "open_work_review" \in Routed
  /\ Arrives(r, [Idle EXCEPT !.op = "open", !.pc = "member", !.who = p, !.item = i])
  /\ UNCHANGED <<blocked, member, token, session, csrf, cookies, lock, fork, pressed, troubles>>

\* The token is minted; its link is posted for its actor's eyes, or is lost.
MintToken(r, t) ==
  /\ req[r].op = "open"
  /\ req[r].pc = "project"
  /\ token[t].status = "none"
  /\ \E status \in {"live", "gone"} :
       token' = [token EXCEPT ![t] = [status |-> status, who |-> req[r].who,
                                      item |-> req[r].item]]
  /\ Ends(r)
  /\ UNCHANGED <<blocked, member, session, csrf, cookies, lock, fork, pressed, troubles>>
-----------------------------------------------------------------------------
(* The review pages *)

\* redeemWorkReviewToken, one transaction: the first of two redemptions gets
\* the session, and a token that was used, or expired, is deleted.
Redeem(r, t) ==
  /\ token[t].status \in {"live", "used"}
  /\ \/ /\ token[t].status = "live"
        /\ token' = [token EXCEPT ![t].status = "used"]
        /\ session' = [session EXCEPT ![t] = "live"]
        /\ Arrives(r, [Idle EXCEPT !.op = "redeem", !.pc = "member",
                                   !.who = token[t].who, !.token = t])
     \/ /\ req[r] = Idle
        /\ token' = [token EXCEPT ![t].status = "gone"]
        /\ UNCHANGED <<session, req>>
  /\ UNCHANGED <<blocked, member, csrf, cookies, lock, fork, pressed, troubles>>

\* liveSession: the session's row, its csrf value among it, is read here.
ReadPage(r, t) ==
  /\ t \in cookies
  /\ session[t] = "live"
  /\ csrf[t] + Cardinality({x \in Requests : req[x].op = "read"}) < MaxReads
  /\ Arrives(r, [Idle EXCEPT !.op = "read", !.pc = "member", !.who = token[t].who,
                             !.token = t, !.item = token[t].item])
  /\ UNCHANGED <<blocked, member, token, session, csrf, cookies, lock, fork, pressed, troubles>>

\* The form may be that of an earlier page of the session.
PostForm(r, t, form) ==
  /\ t \in cookies
  /\ session[t] = "live"
  /\ Spare(FreeForks, Forking)
  /\ form \in 1..csrf[t]
  /\ Arrives(r, [Idle EXCEPT !.op = "continue", !.pc = "member", !.who = token[t].who,
                             !.token = t, !.item = token[t].item,
                             !.form = form, !.snap = csrf[t]])
  /\ UNCHANGED <<blocked, member, token, session, csrf, cookies, lock, fork, pressed, troubles>>

\* Slack says whether the actor is a member now; a failed lookup says no.
NextOf == [open |-> "project", redeem |-> "told", read |-> "project", continue |-> "form"]

\* MUTANT of MemberAnswers: whoever holds a session is taken for a member.
MemberAssumed(r) ==
  /\ req[r].pc = "member"
  /\ Goes(r, NextOf[req[r].op])
  /\ UNCHANGED <<blocked, member, token, session, csrf, cookies, lock, fork, pressed, troubles>>

MemberAnswers(r) ==
  /\ req[r].pc = "member"
  /\ \/ req[r].who \in member /\ Goes(r, NextOf[req[r].op])
     \/ Ends(r)
  /\ UNCHANGED <<blocked, member, token, session, csrf, cookies, lock, fork, pressed, troubles>>

GiveCookie(r) ==
  /\ req[r].op = "redeem"
  /\ req[r].pc = "told"
  /\ cookies' = cookies \cup {req[r].token}
  /\ Ends(r)
  /\ UNCHANGED <<blocked, member, token, session, csrf, lock, fork, pressed, troubles>>

\* rotateWorkReviewCsrf: the page shows a form unless the session is over.
ShowPage(r) ==
  /\ req[r].op = "read"
  /\ req[r].pc = "project"
  /\ LET t == req[r].token
     IN csrf' = IF session[t] = "live" THEN [csrf EXCEPT ![t] = @ + 1] ELSE csrf
  /\ Ends(r)
  /\ UNCHANGED <<blocked, member, token, session, cookies, lock, fork, pressed, troubles>>

\* continueReview compares with the csrf value it read on arrival, then waits
\* for the lock of the item.
CheckForm(r) ==
  /\ req[r].pc = "form"
  /\ IF req[r].form = req[r].snap
       THEN /\ Goes(r, "lock")
            /\ lock' = [lock EXCEPT ![req[r].item] = Append(@, r)]
       ELSE Ends(r) /\ UNCHANGED lock
  /\ UNCHANGED <<blocked, member, token, session, csrf, cookies, fork, pressed, troubles>>
-----------------------------------------------------------------------------
(* continueWork and the making of a fork *)

Holds(r) == LET q == lock[req[r].item] IN q # <<>> /\ Head(q) = r

\* existingFork: the fork rows of the audit trail that are continuations.
Continuations(i) ==
  {f \in Forks : /\ fork[f].of = i
                 /\ fork[f].intent = "continuation"
                 /\ fork[f].stage \in {"edge", "job"}}

\* MUTANT of AskContinuation: nobody waits for the lock.
AskContinuationUnlocked(r) ==
  /\ req[r].pc = "lock"
  /\ Goes(r, IF Continuations(req[r].item) # {} THEN "told" ELSE "asked")
  /\ UNCHANGED <<blocked, member, token, session, csrf, cookies, lock, fork, pressed, troubles>>

AskContinuation(r) ==
  /\ req[r].pc = "lock"
  /\ Holds(r)
  /\ Goes(r, IF Continuations(req[r].item) # {} THEN "told" ELSE "asked")
  /\ UNCHANGED <<blocked, member, token, session, csrf, cookies, lock, fork, pressed, troubles>>

\* POST /work-items/:id/fork: any item, any number of times.
ApiFork(r, i) ==
  /\ req[r] = Idle
  /\ Spare(FreeForks, Forking)
  /\ req' = [req EXCEPT ![r] = [Idle EXCEPT !.op = "api", !.pc = "asked", !.item = i]]
  /\ UNCHANGED <<blocked, member, token, session, csrf, cookies, lock, fork, pressed, troubles>>

\* createWorkItem: the row, under a new id, the edge of the fork in the trail,
\* the job.
InsertFork(r) ==
  /\ req[r].pc = "asked"
  /\ FreeForks # {}
  /\ LET f == CHOOSE free \in FreeForks : TRUE
     IN /\ fork' = [fork EXCEPT ![f] =
             [of |-> req[r].item, stage |-> "row",
              intent |-> IF req[r].op = "continue" THEN "continuation" ELSE "none"]]
        /\ req' = [req EXCEPT ![r].pc = "row", ![r].fork = f]
  /\ UNCHANGED <<blocked, member, token, session, csrf, cookies, lock, pressed, troubles>>

AuditEdge(r) ==
  /\ req[r].pc = "row"
  /\ fork' = [fork EXCEPT ![req[r].fork].stage = "edge"]
  /\ Goes(r, "edge")
  /\ UNCHANGED <<blocked, member, token, session, csrf, cookies, lock, pressed, troubles>>

EnqueueFork(r) ==
  /\ req[r].pc = "edge"
  /\ fork' = [fork EXCEPT ![req[r].fork].stage = "job"]
  /\ Goes(r, "told")
  /\ UNCHANGED <<blocked, member, token, session, csrf, cookies, lock, pressed, troubles>>

\* The lock goes to the next in line, whether the work was done or threw.
Released(r) ==
  [i \in Works |-> IF req[r].op = "continue" /\ req[r].item = i THEN Tail(lock[i])
                                                               ELSE lock[i]]

Answer(r) ==
  /\ req[r].op \in Forking
  /\ req[r].pc = "told"
  /\ lock' = Released(r)
  /\ Ends(r)
  /\ UNCHANGED <<blocked, member, token, session, csrf, cookies, fork, pressed, troubles>>

\* MUTANT of RequestThrows: the lock is released on success only.
RequestThrowsHolding(r) ==
  /\ req[r].op \in Forking
  /\ \/ req[r].pc \in {"asked", "row", "edge", "told"}
     \/ req[r].pc = "lock" /\ Holds(r)
  /\ troubles < MaxTroubles
  /\ troubles' = troubles + 1
  /\ Ends(r)
  /\ UNCHANGED <<blocked, member, token, session,
                 csrf, cookies, lock, fork, pressed>>
-----------------------------------------------------------------------------
(* The environment, and the whole *)

\* A write of the store throws: what is written stays, and the request is
\* told to try again.
RequestThrows(r) ==
  /\ req[r].op \in Forking
  /\ \/ req[r].pc \in {"asked", "row", "edge", "told"}
     \/ req[r].pc = "lock" /\ Holds(r)
  /\ troubles < MaxTroubles
  /\ troubles' = troubles + 1
  /\ lock' = Released(r)
  /\ Ends(r)
  /\ UNCHANGED <<blocked, member, token, session,
                 csrf, cookies, fork, pressed>>

ItemBlocks(i) ==
  /\ i \notin blocked
  /\ blocked' = blocked \cup {i}
  /\ UNCHANGED <<member, token, session, csrf, cookies, req, lock, fork, pressed, troubles>>

Leave(p) ==
  /\ p \in member
  /\ member' = member \ {p}
  /\ UNCHANGED <<blocked, token, session, csrf, cookies, req, lock, fork, pressed, troubles>>

SessionExpires(t) ==
  /\ session[t] = "live"
  /\ session' = [session EXCEPT ![t] = "expired"]
  /\ UNCHANGED <<blocked, member, token, csrf, cookies, req, lock, fork, pressed, troubles>>

\* The server dies: requests and locks are gone, rows and cookies are not.
ReviewServerDies ==
  /\ troubles < MaxTroubles
  /\ troubles' = troubles + 1
  /\ req' = [r \in Requests |-> Idle]
  /\ lock' = [i \in Works |-> <<>>]
  /\ UNCHANGED <<blocked, member, token, session, csrf, cookies, fork, pressed>>

ForkStep(r) ==
  \/ CheckForm(r) \/ AskContinuation(r) \/ InsertFork(r) \/ AuditEdge(r)
  \/ EnqueueFork(r) \/ Answer(r)

RequestStep(r) ==
  \/ MemberAnswers(r) \/ GiveCookie(r) \/ ShowPage(r) \/ ForkStep(r)
  \/ \E t \in Tokens : MintToken(r, t)

ReviewNext ==
  \/ \E r \in Requests :
       \/ RequestStep(r) \/ RequestThrows(r)
       \/ \E i \in Works :
            \/ ApiFork(r, i)
            \/ \E p \in Visitors : PressOpenReview(r, i, p) \/ PressRetry(r, i, p)
       \/ \E t \in Tokens :
            \/ Redeem(r, t) \/ ReadPage(r, t)
            \/ \E form \in 1..MaxReads : PostForm(r, t, form)
  \/ \E i \in Works : ItemBlocks(i)
  \/ \E p \in Visitors : Leave(p)
  \/ \E t \in Tokens : SessionExpires(t)
  \/ ReviewServerDies

ReviewSpec == ReviewInit /\ [][ReviewNext]_reviewVars

\* The server takes the steps it can; nobody has to click, redeem or leave.
ReviewFairness == \A r \in Requests : WF_reviewVars(RequestStep(r))

ReviewFairSpec == ReviewSpec /\ ReviewFairness
-----------------------------------------------------------------------------
(* Properties *)

\* A blocked item is continued once: of all the continuations that requests,
\* faults and restarts leave behind, at most one has a job and can ever run.
OneContinuation ==
  \A i \in Works :
    \A f, g \in {x \in Continuations(i) : fork[x].stage = "job"} : f = g

\* Nobody sees or continues the work of a channel that they had left before
\* they asked: neither a link that was minted nor a session that is open
\* outlives the membership.
MembersOnly ==
  \A r \in Requests :
    (req[r].op \in {"open", "redeem", "read", "continue"} /\ req[r].pc # "member")
      => req[r].seen

\* Every request is answered: no continuation waits for a lock that the one
\* before it took with it.
EveryRequestIsAnswered ==
  \A r \in Requests : req[r] # Idle ~> req[r] = Idle
=============================================================================
