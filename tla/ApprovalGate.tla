------------------------------ MODULE ApprovalGate --------------------------
(***************************************************************************)
(* The policy gate of every tool call (src/src/policy/gate.ts, with the    *)
(* wrapper withPolicyGate of src/src/server/drivers/agent-driver.ts) and   *)
(* the Slack approval router that answers it                               *)
(* (src/src/server/adapters/approval-router.ts).                           *)
(*                                                                         *)
(* Two parties wait on one prompt: the gate, which has a timer of its own  *)
(* (requestWithTimeout), and the router's registry entry with its timer.   *)
(* Either may be settled first; request() hands the outcome to the gate    *)
(* only when the post of its prompt is over.  JavaScript interleaves at awaits that     *)
(* leave the process: the post of the prompt, its rewrite, timers, clicks. *)
(* The in-process awaits from a call's start to its posted request are one *)
(* step; a storage fault among them denies the call.                       *)
(***************************************************************************)
EXTENDS Policy, Naturals, Sequences, FiniteSets

CONSTANTS
    Calls,        \* tool calls
    Call,         \* Call[c]: what the call is
    Registered,   \* ids of extensions in the registry
    File,         \* the policy of config.yml
    AllSettings,  \* rows that org_settings may hold
    AllOverlays,  \* texts that spaces.policy_json may hold
    MaxPending,   \* maxPending, the bound of the registry
    MaxFailures,  \* maxFailures, the bound of the failure memory
    NudgeFirst,   \* the nudge deadline lies before the timeout
    MaxRestarts,  \* bound: restarts of the server
    Hazards       \* which of AllHazards may happen

AllHazards == {"store_fault", "slack_fault"}

ASSUME CallAssumption == Call \in [Calls -> GateCalls]
ASSUME PolicyAssumption ==
    /\ File \in Policies
    /\ AllSettings \subseteq Settings
    /\ AllOverlays \subseteq Overlays
ASSUME CallsAssumption == IsFiniteSet(Calls)
ASSUME BoundsAssumption ==
    MaxPending \in Nat \ {0} /\ MaxFailures \in Nat \ {0} /\ MaxRestarts \in Nat
ASSUME NudgeAssumption == NudgeFirst \in BOOLEAN

VARIABLES
    settings, overlay,  \* columns org_settings and spaces.policy_json
    org,       \* the org policy of this boot
    pc,        \* where a call is
    decision,  \* what its policy said, "none" before
    lifted,    \* calls whose policy lost its allowlist to a merge
    prompt,    \* its prompt: none | flying (being posted) | lost (no message) | open
               \* | approved | denied (rewritten) | stale (open for good)
    pending,   \* the registry: requests that are not settled
    ticket,    \* insertion order of the registry
    outcome,   \* of the entry: none | approved | denied | dropped (by a restart)
    timedOut,  \* calls the gate's timer has answered
    rewriting, \* calls whose prompt is being rewritten
    nudged,    \* calls that were nudged
    pressed,   \* history: calls approved by a click in their own space
    audit,     \* rows <<c, event>>
    faulted,   \* history: calls denied by a storage fault
    failures,  \* failure memory: tools, oldest first
    restarts

vars == <<settings, overlay, org, pc, decision, lifted, prompt, pending, ticket,
          outcome, timedOut, rewriting, nudged, pressed, audit, faulted,
          failures, restarts>>

policyVars == <<settings, overlay, org, restarts>>
entryVars == <<pending, outcome, timedOut, rewriting, nudged, prompt>>

Events == {"decision", "auto", "requested", "approved", "denied"}

Ended == {"denied", "succeeded", "failed", "gone"}
Ran == {"running", "succeeded", "failed"}

Init ==
    /\ settings \in AllSettings /\ overlay \in AllOverlays
    /\ org = LoadOrgPolicy(File, settings)
    /\ pc = [c \in Calls |-> "idle"]
    /\ decision = [c \in Calls |-> "none"]
    /\ prompt = [c \in Calls |-> "none"]
    /\ outcome = [c \in Calls |-> "none"]
    /\ ticket = [c \in Calls |-> 0]
    /\ pending = {} /\ timedOut = {} /\ rewriting = {} /\ nudged = {}
    /\ lifted = {} /\ pressed = {} /\ audit = {} /\ faulted = {}
    /\ failures = <<>>
    /\ restarts = 0

-----------------------------------------------------------------------------
(* A call crosses the gate. *)

SpacePolicy == ApplySpaceOverlay(org, overlay)
GatePolicy == WithKnownIds(SpacePolicy, Registered)
DecisionOn(c) == DecidePolicyCall(GatePolicy, Call[c])

\* The policy is loaded, the decision made and audited.
Decides(c) ==
    /\ pc[c] = "idle"
    /\ decision' = [decision EXCEPT ![c] = DecisionOn(c)]
    /\ lifted' = IF Lifts(File, SpacePolicy) THEN lifted \cup {c} ELSE lifted

CallAllowed(c) ==
    /\ Decides(c)
    /\ DecisionOn(c) = "allow"
    /\ audit' = audit \cup {<<c, "decision">>}
         \cup (IF ApprovedByPolicy(GatePolicy, Call[c]) THEN {<<c, "auto">>} ELSE {})
    /\ pc' = [pc EXCEPT ![c] = "running"]
    /\ UNCHANGED <<policyVars, entryVars, ticket, pressed, faulted, failures>>

CallDenied(c) ==
    /\ Decides(c)
    /\ DecisionOn(c) = "deny"
    /\ audit' = audit \cup {<<c, "decision">>}
    /\ pc' = [pc EXCEPT ![c] = "denied"]
    /\ UNCHANGED <<policyVars, entryVars, ticket, pressed, faulted, failures>>

\* The entry of the registry that was inserted first.
Oldest == CHOOSE c \in pending : \A d \in pending : ticket[c] <= ticket[d]

\* MUTANT: a full registry grows.
EvictsNobody == {}

\* request() at capacity: the oldest entry is settled as denied.
Evicted == IF Cardinality(pending) >= MaxPending THEN {Oldest} ELSE {}

\* Settling entries: they leave the registry with an outcome, and a prompt
\* that exists is rewritten.
SettledAs(S, v) == [c \in Calls |-> IF c \in S THEN v ELSE outcome[c]]
Rewritten(S) == rewriting \cup {c \in S : prompt[c] \notin {"none", "flying", "lost"}}

\* ask-human: the request is audited, the gate's timer armed, the entry
\* reserved and the prompt on its way.
CallAsks(c) ==
    /\ Decides(c)
    /\ DecisionOn(c) = "ask-human"
    /\ audit' = audit \cup {<<c, "decision">>, <<c, "requested">>}
    /\ outcome' = SettledAs(Evicted, "denied")
    /\ rewriting' = Rewritten(Evicted)
    /\ pending' = (pending \ Evicted) \cup {c}
    /\ ticket' = [ticket EXCEPT ![c] = Cardinality({d \in Calls : ticket[d] > 0}) + 1]
    /\ prompt' = [prompt EXCEPT ![c] = "flying"]
    /\ pc' = [pc EXCEPT ![c] = "asking"]
    /\ UNCHANGED <<policyVars, timedOut, nudged, pressed, faulted, failures>>

\* The policy or an audit write throws before anything was asked.
CallFaults(c) ==
    /\ "store_fault" \in Hazards
    /\ Decides(c)
    /\ audit' \in {audit, audit \cup {<<c, "decision">>}}
    /\ pc' = [pc EXCEPT ![c] = "denied"]
    /\ faulted' = faulted \cup {c}
    /\ UNCHANGED <<policyVars, entryVars, ticket, pressed, failures>>

-----------------------------------------------------------------------------
(* The prompt and its registry entry. *)

\* settle: once, and only while the entry is in the registry.
Settle(c, v) ==
    /\ c \in pending
    /\ pending' = pending \ {c}
    /\ outcome' = SettledAs({c}, v)

UnchangedByEntry == <<policyVars, pc, decision, lifted, ticket, audit, faulted, failures>>

\* MUTANT: an outcome that came while the post was on its way is not replayed.
PostReturnsLate(c) ==
    /\ prompt[c] = "flying"
    /\ prompt' = [prompt EXCEPT ![c] = "open"]
    /\ UNCHANGED <<UnchangedByEntry, pending, outcome, timedOut, rewriting, nudged, pressed>>

\* The post returns a ts: an outcome that came first is replayed.
PostReturns(c) ==
    /\ prompt[c] = "flying"
    /\ prompt' = [prompt EXCEPT ![c] = "open"]
    /\ rewriting' = IF outcome[c] # "none" THEN rewriting \cup {c} ELSE rewriting
    /\ UNCHANGED <<UnchangedByEntry, pending, outcome, timedOut, nudged, pressed>>

\* The post throws or returns no ts: an unroutable prompt denies.
PostFails(c) ==
    /\ "slack_fault" \in Hazards
    /\ prompt[c] = "flying"
    /\ prompt' = [prompt EXCEPT ![c] = "lost"]
    /\ \/ Settle(c, "denied")
       \/ c \notin pending /\ UNCHANGED <<pending, outcome>>
    /\ UNCHANGED <<UnchangedByEntry, timedOut, rewriting, nudged, pressed>>

\* MUTANT: the space of the click is not compared.
ClickFromAnywhere(c, own) == c \in pending

\* A click on a button, from the prompt's own space or not: one without an
\* entry, and one from another space, is ignored.
ClickCounts(c, own) == c \in pending /\ own

\* MUTANT: a second click on a prompt that is not rewritten yet counts.
ClickAgain(c, v, own) ==
    /\ prompt[c] \in {"flying", "open"} /\ own /\ ticket[c] > 0
    /\ pending' = pending \ {c}
    /\ outcome' = SettledAs({c}, v)
    /\ rewriting' = Rewritten({c})
    /\ pressed' = IF v = "approved" THEN pressed \cup {c} ELSE pressed
    /\ UNCHANGED <<UnchangedByEntry, prompt, timedOut, nudged>>

\* The message may be seen before its post has returned.
Click(c, v, own) ==
    /\ prompt[c] \in {"flying", "open"}
    /\ ClickCounts(c, own)
    /\ Settle(c, v)
    /\ rewriting' = Rewritten({c})
    /\ pressed' = IF v = "approved" /\ own THEN pressed \cup {c} ELSE pressed
    /\ UNCHANGED <<UnchangedByEntry, prompt, timedOut, nudged>>

RouterTimeout(c) ==
    /\ c \in timedOut   \* the gate's timer was armed first, with the same delay
    /\ Settle(c, "denied")
    /\ rewriting' = Rewritten({c})
    /\ UNCHANGED <<UnchangedByEntry, prompt, timedOut, nudged, pressed>>

\* What the gate's promise has resolved to: its timer's denial, or the
\* outcome of the entry, which request() returns when the post is over.
Answer(c) ==
    IF c \in timedOut THEN "denied"
    ELSE IF prompt[c] = "flying" THEN "none"
    ELSE outcome[c]

\* MUTANT: the timer is armed when the prompt has been posted.
GateTimeoutOnceOpen(c) ==
    /\ pc[c] = "asking" /\ Answer(c) = "none" /\ prompt[c] # "flying"
    /\ timedOut' = timedOut \cup {c}
    /\ UNCHANGED <<UnchangedByEntry, prompt, pending, outcome, rewriting, nudged, pressed>>

\* requestWithTimeout denies by itself.
GateTimeout(c) ==
    /\ pc[c] = "asking" /\ Answer(c) = "none"
    /\ timedOut' = timedOut \cup {c}
    /\ UNCHANGED <<UnchangedByEntry, prompt, pending, outcome, rewriting, nudged, pressed>>

\* One reminder for a request that is still pending.
Nudge(c) ==
    /\ NudgeFirst /\ c \notin timedOut
    /\ c \in pending \ nudged
    /\ nudged' = nudged \cup {c}
    /\ UNCHANGED <<UnchangedByEntry, prompt, pending, outcome, timedOut, rewriting, pressed>>

\* updateMessage, best effort.
RewriteLands(c) ==
    /\ c \in rewriting
    /\ rewriting' = rewriting \ {c}
    /\ \/ prompt' = [prompt EXCEPT ![c] = outcome[c]]
       \/ "slack_fault" \in Hazards /\ prompt' = [prompt EXCEPT ![c] = "stale"]
    /\ UNCHANGED <<UnchangedByEntry, pending, outcome, timedOut, nudged, pressed>>

-----------------------------------------------------------------------------
(* The gate goes on with its answer, the tool runs. *)

UnchangedByGate == <<policyVars, entryVars, decision, lifted, ticket, pressed>>

\* approval.resolved is audited before the call may run.
Resume(c) ==
    /\ pc[c] = "asking" /\ Answer(c) # "none"
    /\ audit' = audit \cup {<<c, Answer(c)>>}
    /\ pc' = [pc EXCEPT ![c] = IF Answer(c) = "approved" THEN "running" ELSE "denied"]
    /\ UNCHANGED <<UnchangedByGate, faulted, failures>>

\* That write throws: the gate's error denies the call.
ResumeFaults(c) ==
    /\ "store_fault" \in Hazards
    /\ pc[c] = "asking" /\ Answer(c) # "none"
    /\ pc' = [pc EXCEPT ![c] = "denied"]
    /\ faulted' = faulted \cup {c}
    /\ UNCHANGED <<UnchangedByGate, audit, failures>>

Succeed(c) ==
    /\ pc[c] = "running"
    /\ pc' = [pc EXCEPT ![c] = "succeeded"]
    /\ UNCHANGED <<UnchangedByGate, audit, faulted, failures>>

\* The memory without tool t, which it holds at most once.
Without(t) ==
    LET i == CHOOSE j \in DOMAIN failures : failures[j] = t
    IN IF \E j \in DOMAIN failures : failures[j] = t
       THEN SubSeq(failures, 1, i - 1) \o SubSeq(failures, i + 1, Len(failures))
       ELSE failures

\* A confirmed write that fails is remembered for the next prompt of its
\* tool: moved to the end, the oldest dropped beyond the bound.
Remember(t) ==
    LET all == Append(Without(t), t)
    IN IF Len(all) > MaxFailures THEN Tail(all) ELSE all

Fail(c) ==
    /\ pc[c] = "running"
    /\ pc' = [pc EXCEPT ![c] = "failed"]
    /\ failures' = IF decision[c] = "ask-human" THEN Remember(Call[c].tool) ELSE failures
    /\ UNCHANGED <<UnchangedByGate, audit, faulted>>

-----------------------------------------------------------------------------
(* Around the gate. *)

\* A tool or an admin writes a policy column; the overlay is read by every
\* call, the settings at boot.  Bound: only while a call is to come.
WritePolicy ==
    /\ \E c \in Calls : pc[c] = "idle"
    /\ \/ settings' \in AllSettings /\ UNCHANGED overlay
       \/ overlay' \in AllOverlays /\ UNCHANGED settings
    /\ UNCHANGED <<org, restarts, entryVars, pc, decision, lifted, ticket, pressed,
                   audit, faulted, failures>>

\* The process dies and boots: what it held in memory is gone, calls and
\* registry included.  A post on its way has reached Slack or not.
Restart ==
    /\ restarts < MaxRestarts
    /\ restarts' = restarts + 1
    /\ org' = LoadOrgPolicy(File, settings)
    /\ pc' = [c \in Calls |-> IF pc[c] \in {"asking", "running"} THEN "gone" ELSE pc[c]]
    /\ \E lost \in SUBSET {c \in Calls : prompt[c] = "flying"} :
         prompt' = [c \in Calls |-> IF c \in lost THEN "lost"
                                    ELSE IF prompt[c] \in {"flying", "open"} THEN "stale"
                                    ELSE prompt[c]]
    /\ outcome' = [c \in Calls |-> IF c \in pending THEN "dropped" ELSE outcome[c]]
    /\ pending' = {} /\ rewriting' = {}
    /\ failures' = <<>>
    /\ UNCHANGED <<settings, overlay, decision, lifted, ticket, timedOut, nudged,
                   pressed, audit, faulted>>

Next ==
    \/ \E c \in Calls :
         \/ CallAllowed(c) \/ CallDenied(c) \/ CallAsks(c) \/ CallFaults(c)
         \/ PostReturns(c) \/ PostFails(c)
         \/ \E v \in {"approved", "denied"}, own \in BOOLEAN : Click(c, v, own)
         \/ RouterTimeout(c) \/ GateTimeout(c) \/ Nudge(c) \/ RewriteLands(c)
         \/ Resume(c) \/ ResumeFaults(c) \/ Succeed(c) \/ Fail(c)
    \/ WritePolicy
    \/ Restart

Spec == Init /\ [][Next]_vars

\* Timers run out, promises are continued, a rewrite is answered.  People need
\* not click, the post of a prompt need not return, and tools need not.
Fairness ==
    \A c \in Calls :
        /\ WF_vars(GateTimeout(c)) /\ WF_vars(RouterTimeout(c))
        /\ WF_vars(RewriteLands(c))
        /\ WF_vars(Resume(c) \/ ResumeFaults(c))

FairSpec == Spec /\ Fairness

-----------------------------------------------------------------------------
(* Properties. *)

\* Types of the variables, the bounds of the two in-memory stores included.
TypeOK ==
    /\ settings \in Settings /\ overlay \in Overlays /\ org \in Policies
    /\ pc \in [Calls -> {"idle", "asking", "running"} \cup Ended]
    /\ decision \in [Calls -> Decisions \cup {"none"}]
    /\ prompt \in [Calls -> {"none", "flying", "lost", "open", "stale", "approved", "denied"}]
    /\ outcome \in [Calls -> {"none", "approved", "denied", "dropped"}]
    /\ ticket \in [Calls -> Nat]
    /\ pending \subseteq Calls /\ timedOut \subseteq Calls /\ rewriting \subseteq Calls
    /\ nudged \subseteq Calls /\ lifted \subseteq Calls /\ pressed \subseteq Calls
    /\ faulted \subseteq Calls /\ audit \subseteq Calls \X Events
    /\ failures \in Seq(Tools) /\ Len(failures) <= MaxFailures
    /\ restarts \in Nat

\* A call that ran was allowed by its policy, or a person of its own space
\* approved it while it was asked; and its audit rows were written before it
\* ran.  No timeout, eviction, failed post, foreign click, storage fault or
\* restart lets a call run.
RunsOnlyWithConsent ==
    \A c \in Calls : pc[c] \in Ran =>
        /\ <<c, "decision">> \in audit
        /\ \/ decision[c] = "allow"
           \/ decision[c] = "ask-human" /\ c \in pressed
              /\ {<<c, "requested">>, <<c, "approved">>} \subseteq audit

\* What runs unasked is allowed unasked by config.yml: neither the settings
\* of the database nor the overlay of the space, whenever they are written,
\* loosen a decision, with one exception: a merge that takes the last id out
\* of the floor's allowlist leaves "no restriction" (section 12 of the README).
NeverLooserThanFloor ==
    \A c \in Calls \ lifted :
        decision[c] # "none" => AsStrict(decision[c], DecidePolicyCall(File, Call[c]))

\* What the prompt says is what happened: one that says denied never had its
\* call run, one that says approved had it run, unless a fault denied it, it
\* died, or the gate's own timer was first.
PromptTellsTheTruth ==
    \A c \in Calls :
        /\ prompt[c] = "denied" => pc[c] \notin Ran
        /\ prompt[c] = "approved" /\ pc[c] = "denied" => c \in faulted \cup timedOut

\* The registry is bounded and exact: it holds the requests of this process
\* that nobody has settled, so that a waiting gate always has an entry whose
\* timer will free it, and a settled request is never offered again.
RegistryIsExact ==
    /\ Cardinality(pending) <= MaxPending
    /\ \A c \in Calls :
        c \in pending <=> ticket[c] > 0 /\ outcome[c] = "none"

\* A prompt that shows an outcome keeps it: no late timer, second click or
\* replay writes another one over it.
OutcomeStays ==
    [][\A c \in Calls : prompt[c] \in {"approved", "denied"} => prompt'[c] = prompt[c]]_vars

\* A call that asks gets its answer, although nobody may click and Slack may
\* never answer the post of its prompt.
EveryCallIsAnswered == \A c \in Calls : pc[c] = "asking" ~> pc[c] # "asking"

\* No posted prompt is left with its buttons: nobody's click, the timer, an
\* eviction or a click that came before the post returned, it is rewritten,
\* unless Slack refuses the rewrite or the process dies before it.
PromptsCloseUp == \A c \in Calls : prompt[c] = "open" ~> prompt[c] # "open"
=============================================================================
