-------------------------- MODULE ApprovalGateProofs -------------------------
(***************************************************************************)
(* Theorems about Policy and ApprovalGate, for any set of calls, tools and *)
(* extensions, any policy file, settings and overlays, any bounds and any  *)
(* hazards.  The policy part is about pure functions; the gate part rests  *)
(* on an invariant that ties the registry, the outcome and the prompt of a *)
(* request to where its call is.                                           *)
(***************************************************************************)
EXTENDS ApprovalGate, FiniteSetTheorems, TLAPS

-----------------------------------------------------------------------------
(* The policy of a space is at least as strict as the file. *)

\* A policy that p may become without deciding a call more loosely; the
\* allowlist apart.
KnobsTighten(p, q) ==
  p.ok => /\ q.ok
          /\ \A t \in Tools : ~Looser(ToolAction(p, t), ToolAction(q, t))
          /\ p.alwaysApprove \subseteq q.alwaysApprove
          /\ q.extensionsDeny \subseteq p.extensionsDeny

\* A restricted allowlist stays one and does not grow.
ListShrinks(p, q) ==
  p.ok /\ q.extensionsAllow # {} =>
    p.extensionsAllow \subseteq q.extensionsAllow /\ p.extensionsAllow # {}

\* The merges keep policies policies.
LEMMA SettingsType ==
  ASSUME NEW f \in Policies, NEW s \in Settings
  PROVE  LoadOrgPolicy(f, s) \in Policies
  BY DEF Policies, Settings, LoadOrgPolicy, ApplyOrgSettings, SettingsAllow

LEMMA StricterType ==
  ASSUME NEW a \in Actions, NEW b \in Actions
  PROVE  /\ Stricter(a, b) \in Actions
         /\ ~Looser(Stricter(a, b), a)
  BY DEF Actions, Stricter, Looser

LEMMA UnknownType ==
  ASSUME NEW p \in Policies, NEW o \in Overlays
  PROVE  /\ OverlayUnknown(p, o) \in Actions
         /\ ~Looser(OverlayUnknown(p, o), p.unknownAction)
  <1>1. p.unknownAction \in Actions /\ o.unknown \in Actions \cup {"none"}
    BY DEF Policies, Overlays
  <1> QED BY <1>1, StricterType DEF OverlayUnknown, Looser, Actions

LEMMA ToolType ==
  ASSUME NEW p \in Policies, NEW o \in Overlays, NEW t \in Tools
  PROVE  /\ OverlayTool(p, o, t) \in Actions \cup {"none"}
         /\ OverlayTool(p, o, t) = "none" => p.tools[t] = "none"
         /\ OverlayTool(p, o, t) # "none" => ~Looser(OverlayTool(p, o, t), ToolAction(p, t))
  <1>1. /\ p.unknownAction \in Actions /\ p.tools[t] \in Actions \cup {"none"}
        /\ o.tools[t] \in Actions \cup {"none", "invalid"} /\ o.unknownFirst \in BOOLEAN
    BY DEF Policies, Overlays
  <1>2. /\ OverlayUnknown(p, o) \in Actions
        /\ ~Looser(OverlayUnknown(p, o), p.unknownAction)
    BY UnknownType
  <1>3. \A a, b \in Actions : /\ Stricter(a, b) \in Actions
                              /\ ~Looser(Stricter(a, b), a)
    BY StricterType
  <1> QED BY <1>1, <1>2, <1>3 DEF OverlayTool, ToolAction, Looser, Actions

LEMMA OverlayType ==
  ASSUME NEW p \in Policies, NEW o \in Overlays
  PROVE  ApplySpaceOverlay(p, o) \in Policies
  <1>1. StructuralError \in Policies
    BY DEF StructuralError, Policies, Actions
  <1>2. OverlayUnknown(p, o) \in Actions
    BY UnknownType
  <1>3. [t \in Tools |-> OverlayTool(p, o, t)] \in [Tools -> Actions \cup {"none"}]
    BY ToolType
  <1>4. o.removeAllow \subseteq Extensions /\ o.addDeny \subseteq Extensions
    BY DEF Overlays
  <1> QED BY <1>1, <1>2, <1>3, <1>4 DEF ApplySpaceOverlay, Policies

\* The settings of the database restrict the file; an allowlist may come to
\* exist, one that exists shrinks.
LEMMA SettingsTighten ==
  ASSUME NEW f \in Policies, NEW s \in Settings
  PROVE  /\ KnobsTighten(LoadOrgPolicy(f, s), f)
         /\ f.extensionsAllow # {} => LoadOrgPolicy(f, s).extensionsAllow \subseteq f.extensionsAllow
  <1>1. \A t \in Tools : ToolAction(LoadOrgPolicy(f, s), t) = ToolAction(f, t)
    BY DEF ToolAction, LoadOrgPolicy, ApplyOrgSettings, Policies
  <1>2. \A t \in Tools : ~Looser(ToolAction(f, t), ToolAction(f, t))
    BY DEF Looser
  <1> QED BY <1>1, <1>2 DEF KnobsTighten, LoadOrgPolicy, ApplyOrgSettings, SettingsAllow, Policies, Settings

\* The overlay of a space tightens what it is laid over; it may empty an
\* allowlist.
LEMMA OverlayTightens ==
  ASSUME NEW p \in Policies, NEW o \in Overlays
  PROVE  LET q == ApplySpaceOverlay(p, o)
         IN  /\ KnobsTighten(q, p)
             /\ q.ok => q.extensionsAllow \subseteq p.extensionsAllow
  <1>1. CASE o.kind = "empty" \/ ~p.ok
    BY <1>1 DEF ApplySpaceOverlay, KnobsTighten, Looser
  <1>2. CASE ~(o.kind = "empty" \/ ~p.ok) /\ o.kind = "malformed"
    BY <1>2 DEF ApplySpaceOverlay, KnobsTighten, StructuralError
  <1>3. CASE ~(o.kind = "empty" \/ ~p.ok) /\ o.kind # "malformed"
    <2> DEFINE q == ApplySpaceOverlay(p, o)
    <2>1. /\ q.tools = [t \in Tools |-> OverlayTool(p, o, t)]
          /\ q.unknownAction = OverlayUnknown(p, o)
          /\ q.alwaysApprove = p.alwaysApprove \ o.removeApprove
          /\ q.extensionsAllow = p.extensionsAllow \ o.removeAllow
          /\ q.extensionsDeny = p.extensionsDeny \cup o.addDeny
          /\ q.ok = p.ok
      BY <1>3 DEF ApplySpaceOverlay, Policies
    <2>2. ASSUME NEW t \in Tools PROVE ~Looser(ToolAction(q, t), ToolAction(p, t))
      <3>1. q.tools[t] = OverlayTool(p, o, t)
        BY <2>1
      <3> QED BY <3>1, <2>1, ToolType, UnknownType DEF ToolAction
    <2> QED BY <2>1, <2>2 DEF KnobsTighten
  <1> QED BY <1>1, <1>2, <1>3

LEMMA LooserTransitive ==
  ASSUME NEW a \in Actions, NEW b \in Actions, NEW c \in Actions,
         ~Looser(a, b), ~Looser(b, c)
  PROVE  ~Looser(a, c)
  BY DEF Looser, Actions

\* A policy that is tightened knob by knob decides as strictly.
LEMMA TightenedDecides ==
  ASSUME NEW p \in Policies, NEW q \in Policies, NEW c \in GateCalls,
         KnobsTighten(p, q), ListShrinks(p, q)
  PROVE  AsStrict(DecidePolicyCall(p, c), DecidePolicyCall(q, c))
  <1> DEFINE a == ToolAction(p, c.tool)
             b == ToolAction(q, c.tool)
  <1>1. /\ c.tool \in Tools /\ c.ext \in Extensions \cup {NoExt} /\ c.tier \in Tiers
        /\ c.manifestTier \in Tiers \cup {"none"}
        /\ c.known \in BOOLEAN /\ c.preApproved \in BOOLEAN
    BY DEF GateCalls
  <1>2. CASE ~p.ok \/ (c.ext # NoExt /\ ~ExtensionUsable(p, c.ext))
    BY <1>2 DEF DecidePolicyCall, AsStrict
  <1>3. CASE p.ok /\ (c.ext # NoExt => ExtensionUsable(p, c.ext))
    <2>1. q.ok /\ (c.ext # NoExt => ExtensionUsable(q, c.ext))
      BY <1>3 DEF KnobsTighten, ListShrinks, ExtensionUsable
    <2>2. a \in Actions /\ b \in Actions /\ ~Looser(a, b)
      BY <1>1, <1>3 DEF KnobsTighten, ToolAction, Policies
    <2>3. /\ PickupCovers(p, c) => PickupCovers(q, c)
          /\ AutoApproved(p, c) => AutoApproved(q, c)
      BY <1>3, <2>2 DEF PickupCovers, AutoApproved, KnobsTighten, Looser, Actions
    <2>4. \A tier, k : AsStrict(DecideToolCall(tier, a, k), DecideToolCall(tier, b, k))
      BY <2>2 DEF DecideToolCall, AsStrict, Looser, Actions
    <2>5. \A tier, k : AsStrict(DecideToolCall(tier, a, k), "allow")
      BY DEF DecideToolCall, AsStrict
    <2> QED BY <1>3, <2>1, <2>3, <2>4, <2>5 DEF DecidePolicyCall, AsStrict
  <1> QED BY <1>2, <1>3

\* Settings and overlay together never loosen a decision of the file, for any
\* file, settings, overlay, registry and call, unless they lift its allowlist.
THEOREM MergesTighten ==
  ASSUME NEW f \in Policies, NEW s \in Settings, NEW o \in Overlays, NEW c \in GateCalls,
         NEW known,
         ~Lifts(f, ApplySpaceOverlay(LoadOrgPolicy(f, s), o))
  PROVE  AsStrict(DecidePolicyCall(WithKnownIds(ApplySpaceOverlay(LoadOrgPolicy(f, s), o), known), c),
                  DecidePolicyCall(f, c))
  <1> DEFINE g == LoadOrgPolicy(f, s)
             p == ApplySpaceOverlay(g, o)
             k == WithKnownIds(p, known)
  <1>1. g \in Policies /\ p \in Policies
    BY SettingsType, OverlayType
  <1>2. /\ KnobsTighten(g, f) /\ KnobsTighten(p, g)
        /\ f.extensionsAllow # {} => g.extensionsAllow \subseteq f.extensionsAllow
        /\ p.ok => p.extensionsAllow \subseteq g.extensionsAllow
    BY <1>1, SettingsTighten, OverlayTightens
  <1>3. KnobsTighten(p, f)
    <2>1. ASSUME p.ok, NEW t \in Tools PROVE ~Looser(ToolAction(p, t), ToolAction(f, t))
      <3>1. /\ ToolAction(p, t) \in Actions /\ ToolAction(g, t) \in Actions
            /\ ToolAction(f, t) \in Actions
        BY <1>1 DEF ToolAction, Policies
      <3>2. ~Looser(ToolAction(p, t), ToolAction(g, t)) /\ ~Looser(ToolAction(g, t), ToolAction(f, t))
        BY <1>2, <2>1 DEF KnobsTighten
      <3> QED BY <3>1, <3>2, LooserTransitive
    <2>2. p.ok => f.ok /\ p.alwaysApprove \subseteq f.alwaysApprove /\ f.extensionsDeny \subseteq p.extensionsDeny
      BY <1>2 DEF KnobsTighten
    <2> QED BY <2>1, <2>2 DEF KnobsTighten
  <1>4. ListShrinks(p, f)
    BY <1>2 DEF Lifts, ListShrinks
  <1>5. CASE k = p
    BY <1>1, <1>3, <1>4, <1>5, TightenedDecides
  <1>6. CASE k # p
    <2>1. k.ok = FALSE
      BY <1>1, <1>6 DEF WithKnownIds, Policies
    <2> QED BY <2>1 DEF DecidePolicyCall, AsStrict
  <1> QED BY <1>5, <1>6

-----------------------------------------------------------------------------
(* The invariant of the gate. *)

\* The org policy of the process is the file under some settings.
OrgInv == \E s \in Settings : org = LoadOrgPolicy(File, s)

\* A call without a ticket never reached the router; one with a ticket was
\* audited as asked.
TicketOf(c) ==
  /\ pc[c] = "idle" => ticket[c] = 0 /\ decision[c] = "none"
  /\ ticket[c] = 0 =>
       /\ prompt[c] = "none" /\ outcome[c] = "none" /\ pc[c] # "asking"
       /\ c \notin pending \cup timedOut \cup rewriting \cup pressed
  /\ ticket[c] > 0 =>
       decision[c] = "ask-human" /\ {<<c, "decision">>, <<c, "requested">>} \subseteq audit

TicketInv == \A c \in Calls : TicketOf(c)

\* An entry is in the registry until it has an outcome, and its prompt is on
\* its way or open; only an open prompt is being rewritten.
EntryOf(c) ==
  /\ c \in pending <=> ticket[c] > 0 /\ outcome[c] = "none"
  /\ c \in pending => prompt[c] \in {"flying", "open"}
  /\ c \in rewriting => prompt[c] = "open" /\ outcome[c] \in {"approved", "denied"}
  /\ prompt[c] \in {"approved", "denied"} => outcome[c] = prompt[c]
  /\ prompt[c] = "flying" => outcome[c] # "dropped"
  /\ outcome[c] = "approved" => c \in pressed

EntryInv == \A c \in Calls : EntryOf(c)

\* What became of a call agrees with the outcome of its entry.
CallOf(c) ==
  /\ pc[c] = "asking" => outcome[c] # "dropped"
  /\ pc[c] \in Ran /\ ticket[c] = 0 => decision[c] = "allow" /\ <<c, "decision">> \in audit
  /\ pc[c] \in Ran /\ ticket[c] > 0 =>
       c \notin timedOut /\ outcome[c] = "approved" /\ <<c, "approved">> \in audit
  /\ pc[c] = "denied" /\ ticket[c] > 0 => c \in faulted \cup timedOut \/ outcome[c] = "denied"

CallInv == \A c \in Calls : CallOf(c)

Inv == TypeOK /\ OrgInv /\ TicketInv /\ EntryInv /\ CallInv

LEMMA InvInit == Init => Inv
  <1> SUFFICES ASSUME Init PROVE Inv
    OBVIOUS
  <1> USE CallAssumption, PolicyAssumption, BoundsAssumption
  <1>1. settings \in Settings /\ overlay \in Overlays /\ org = LoadOrgPolicy(File, settings)
    BY DEF Init
  <1>2. TypeOK
    <2>1. org \in Policies
      BY <1>1, SettingsType
    <2> QED BY <1>1, <2>1 DEF Init, TypeOK, Ended
  <1>3. OrgInv
    BY <1>1 DEF OrgInv
  <1>4. TicketInv /\ EntryInv /\ CallInv
    BY DEF Init, TicketInv, TicketOf, EntryInv, EntryOf, CallInv, CallOf, Ran
  <1> QED BY <1>2, <1>3, <1>4 DEF Inv

\* The policy decides with one of three words.
LEMMA DecisionType ==
  ASSUME TypeOK, NEW c \in Calls
  PROVE  DecisionOn(c) \in Decisions
  BY DEF DecisionOn, DecidePolicyCall, DecideToolCall, Decisions

\* The failure memory keeps its bound.
LEMMA RememberType ==
  ASSUME TypeOK, NEW t \in Tools
  PROVE  Remember(t) \in Seq(Tools) /\ Len(Remember(t)) <= MaxFailures
  <1> DEFINE i == CHOOSE j \in DOMAIN failures : failures[j] = t
  <1>1. failures \in Seq(Tools) /\ Len(failures) <= MaxFailures /\ MaxFailures \in Nat \ {0}
    BY BoundsAssumption DEF TypeOK
  <1>2. Without(t) \in Seq(Tools) /\ Len(Without(t)) <= Len(failures)
    <2>1. CASE \E j \in DOMAIN failures : failures[j] = t
      <3>1. i \in 1 .. Len(failures)
        BY <2>1, <1>1
      <3> HIDE DEF i
      <3>2. /\ SubSeq(failures, 1, i - 1) \in Seq(Tools)
            /\ Len(SubSeq(failures, 1, i - 1)) = i - 1
        BY <3>1, <1>1
      <3>3. /\ SubSeq(failures, i + 1, Len(failures)) \in Seq(Tools)
            /\ Len(SubSeq(failures, i + 1, Len(failures))) = Len(failures) - i
        BY <3>1, <1>1
      <3>4. Without(t) = SubSeq(failures, 1, i - 1) \o SubSeq(failures, i + 1, Len(failures))
        BY <2>1 DEF Without, i
      <3>5. \A a, b \in Seq(Tools) : a \o b \in Seq(Tools) /\ Len(a \o b) = Len(a) + Len(b)
        OBVIOUS
      <3>6. /\ Without(t) \in Seq(Tools)
            /\ Len(Without(t)) = (i - 1) + (Len(failures) - i)
        BY <3>2, <3>3, <3>4, <3>5
      <3> QED BY <3>1, <3>6, <1>1
    <2>2. CASE ~\E j \in DOMAIN failures : failures[j] = t
      BY <2>2, <1>1 DEF Without
    <2> QED BY <2>1, <2>2
  <1> QED BY <1>1, <1>2 DEF Remember

\* The entry that a full registry evicts is one of it: tickets are numbers and
\* the registry is finite, so that one of them is the smallest.
LEMMA OldestIsPending ==
  ASSUME TypeOK, pending # {}
  PROVE  Oldest \in pending
  <1> DEFINE Before(c) == {d \in pending : ticket[d] < ticket[c]}
             T == {Before(c) : c \in pending}
  <1>1. IsFiniteSet(pending)
    BY CallsAssumption, FS_Subset DEF TypeOK
  <1>2. IsWellFoundedOn(StrictSubsetOrdering(pending), SUBSET pending)
    BY <1>1, FS_StrictSubsetOrderingWellFounded, FS_FiniteSubsetsOfFinite
  <1>3. T \subseteq SUBSET pending /\ T # {}
    OBVIOUS
  <1>4. PICK x \in T : \A y \in T : <<y, x>> \notin StrictSubsetOrdering(pending)
    <2> HIDE DEF T
    <2> QED BY <1>2, <1>3, WFMin
  <1>5. PICK c \in pending : x = Before(c)
    OBVIOUS
  <1>6. ASSUME NEW d \in pending PROVE ticket[c] <= ticket[d]
    <2>1. ticket[c] \in Nat /\ ticket[d] \in Nat /\ \A e \in pending : ticket[e] \in Nat
      BY DEF TypeOK
    <2>2. SUFFICES ASSUME ticket[d] < ticket[c] PROVE FALSE
      BY <2>1
    <2>3. Before(d) \subseteq Before(c)
      BY <2>1, <2>2
    <2>4. d \in Before(c) /\ d \notin Before(d)
      BY <2>1, <2>2
    <2>5. Before(d) \in T
      OBVIOUS
    <2> QED BY <2>3, <2>4, <2>5, <1>3, <1>4, <1>5 DEF StrictSubsetOrdering
  <1> QED BY <1>6 DEF Oldest

-----------------------------------------------------------------------------
(* Every step keeps it. *)

\* The next ticket is a number beyond zero.
LEMMA TicketsGrow ==
  ASSUME TypeOK
  PROVE  Cardinality({d \in Calls : ticket[d] > 0}) + 1 \in Nat \ {0}
  <1>1. IsFiniteSet({d \in Calls : ticket[d] > 0})
    BY CallsAssumption, FS_Subset
  <1> QED BY <1>1, FS_CardinalityType

\* Only entries of the registry are evicted.
LEMMA EvictedPending ==
  ASSUME TypeOK
  PROVE  Evicted \subseteq pending
  <1>1. CASE pending = {}
    BY <1>1, FS_EmptySet, BoundsAssumption DEF Evicted
  <1>2. CASE pending # {}
    BY <1>2, OldestIsPending DEF Evicted
  <1> QED BY <1>1, <1>2

\* Types.
LEMMA TypeStep == Inv /\ [Next]_vars => TypeOK'
  <1> SUFFICES ASSUME Inv, [Next]_vars PROVE TypeOK'
    OBVIOUS
  <1>a. /\ TypeOK
        /\ \A d \in Calls : Call[d].tool \in Tools
        /\ \A d \in Calls : pc[d] = "asking" /\ Answer(d) # "none" => Answer(d) \in {"approved", "denied"}
        /\ \A d \in Calls : d \in rewriting => outcome[d] \in {"approved", "denied"}
    <2>1. TypeOK /\ \A d \in Calls : EntryOf(d) /\ CallOf(d)
      BY DEF Inv, EntryInv, CallInv
    <2>2. \A d \in Calls : outcome[d] \in {"none", "approved", "denied", "dropped"}
      BY <2>1 DEF TypeOK
    <2>3. \A d \in Calls : Call[d].tool \in Tools
      BY CallAssumption DEF GateCalls
    <2> QED BY <2>1, <2>2, <2>3 DEF Answer, EntryOf, CallOf
  <1>1. ASSUME NEW c \in Calls, CallAllowed(c) PROVE TypeOK'
    BY <1>1, <1>a, DecisionType DEF CallAllowed, Decides, policyVars, entryVars, UnchangedByEntry, UnchangedByGate, TypeOK, Ended, Events
  <1>2. ASSUME NEW c \in Calls, CallDenied(c) PROVE TypeOK'
    BY <1>2, <1>a, DecisionType DEF CallDenied, Decides, policyVars, entryVars, UnchangedByEntry, UnchangedByGate, TypeOK, Ended, Events
  <1>3. ASSUME NEW c \in Calls, CallAsks(c) PROVE TypeOK'
    BY <1>3, <1>a, DecisionType, TicketsGrow, EvictedPending DEF CallAsks, Decides, SettledAs, Rewritten, Evicted, policyVars, entryVars, UnchangedByEntry, UnchangedByGate, TypeOK, Ended, Events
  <1>4. ASSUME NEW c \in Calls, CallFaults(c) PROVE TypeOK'
    BY <1>4, <1>a, DecisionType DEF CallFaults, Decides, policyVars, entryVars, UnchangedByEntry, UnchangedByGate, TypeOK, Ended, Events
  <1>5. ASSUME NEW c \in Calls, PostReturns(c) PROVE TypeOK'
    BY <1>5, <1>a DEF PostReturns, policyVars, entryVars, UnchangedByEntry, UnchangedByGate, TypeOK, Ended, Events
  <1>6. ASSUME NEW c \in Calls, PostFails(c) PROVE TypeOK'
    BY <1>6, <1>a DEF PostFails, Settle, SettledAs, policyVars, entryVars, UnchangedByEntry, UnchangedByGate, TypeOK, Ended, Events
  <1>7. ASSUME NEW c \in Calls, NEW v \in {"approved", "denied"}, NEW own \in BOOLEAN, Click(c, v, own)
       PROVE  TypeOK'
    BY <1>7, <1>a DEF Click, ClickCounts, Settle, SettledAs, Rewritten, policyVars, entryVars, UnchangedByEntry, UnchangedByGate, TypeOK, Ended, Events
  <1>8. ASSUME NEW c \in Calls, RouterTimeout(c) PROVE TypeOK'
    BY <1>8, <1>a DEF RouterTimeout, Settle, SettledAs, Rewritten, policyVars, entryVars, UnchangedByEntry, UnchangedByGate, TypeOK, Ended, Events
  <1>9. ASSUME NEW c \in Calls, GateTimeout(c) PROVE TypeOK'
    BY <1>9, <1>a DEF GateTimeout, Answer, policyVars, entryVars, UnchangedByEntry, UnchangedByGate, TypeOK, Ended, Events
  <1>10. ASSUME NEW c \in Calls, Nudge(c) PROVE TypeOK'
    BY <1>10, <1>a DEF Nudge, policyVars, entryVars, UnchangedByEntry, UnchangedByGate, TypeOK, Ended, Events
  <1>11. ASSUME NEW c \in Calls, RewriteLands(c) PROVE TypeOK'
    BY <1>11, <1>a DEF RewriteLands, policyVars, entryVars, UnchangedByEntry, UnchangedByGate, TypeOK, Ended, Events
  <1>12. ASSUME NEW c \in Calls, Resume(c) PROVE TypeOK'
    BY <1>12, <1>a DEF Resume, Answer, policyVars, entryVars, UnchangedByEntry, UnchangedByGate, TypeOK, Ended, Events
  <1>13. ASSUME NEW c \in Calls, ResumeFaults(c) PROVE TypeOK'
    BY <1>13, <1>a DEF ResumeFaults, Answer, policyVars, entryVars, UnchangedByEntry, UnchangedByGate, TypeOK, Ended, Events
  <1>14. ASSUME NEW c \in Calls, Succeed(c) PROVE TypeOK'
    BY <1>14, <1>a DEF Succeed, policyVars, entryVars, UnchangedByEntry, UnchangedByGate, TypeOK, Ended, Events
  <1>15. ASSUME NEW c \in Calls, Fail(c) PROVE TypeOK'
    BY <1>15, <1>a, RememberType DEF Fail, policyVars, entryVars, UnchangedByEntry, UnchangedByGate, TypeOK, Ended, Events
  <1>16. CASE WritePolicy
    BY <1>16, <1>a, PolicyAssumption DEF WritePolicy, policyVars, entryVars, UnchangedByEntry, UnchangedByGate, TypeOK, Ended, Events
  <1>17. CASE Restart
    <2>1. org' \in Policies
      BY <1>17, <1>a, SettingsType, PolicyAssumption DEF Restart, TypeOK
    <2>2. failures' \in Seq(Tools) /\ Len(failures') <= MaxFailures
      BY <1>17, BoundsAssumption DEF Restart
    <2>3. restarts' \in Nat
      BY <1>17, <1>a DEF Restart, TypeOK
    <2> QED BY <1>17, <1>a, <2>1, <2>2, <2>3 DEF Restart, TypeOK, Ended
  <1>18. CASE UNCHANGED vars
    BY <1>18, <1>a DEF vars, TypeOK
  <1> QED BY <1>1, <1>2, <1>3, <1>4, <1>5, <1>6, <1>7, <1>8, <1>9, <1>10, <1>11, <1>12, <1>13, <1>14, <1>15, <1>16, <1>17, <1>18 DEF Next

\* The org policy.
LEMMA OrgStep == Inv /\ [Next]_vars => OrgInv'
  <1> SUFFICES ASSUME Inv, [Next]_vars PROVE OrgInv'
    OBVIOUS
  <1>1. CASE Restart
    BY <1>1, PolicyAssumption DEF Restart, OrgInv, Inv, TypeOK
  <1>2. CASE org' = org
    BY <1>2 DEF OrgInv, Inv
  <1> QED BY <1>1, <1>2 DEF Next, vars, CallAllowed, CallAsks, CallDenied, CallFaults, Click, Fail, GateTimeout, Nudge, PostFails, PostReturns, Resume, ResumeFaults, RewriteLands, RouterTimeout, Succeed, WritePolicy, Restart, policyVars, UnchangedByEntry, UnchangedByGate

\* Tickets.
LEMMA TicketStep == Inv /\ [Next]_vars => TicketInv'
  <1> SUFFICES ASSUME Inv, [Next]_vars, NEW d \in Calls PROVE TicketOf(d)'
    BY DEF TicketInv
  <1> USE DEF TicketOf, EntryOf, CallOf
  <1>a. TypeOK /\ TicketOf(d) /\ EntryOf(d) /\ CallOf(d)
    BY DEF Inv, TicketInv, EntryInv, CallInv
  <1>b. /\ DOMAIN pc = Calls /\ DOMAIN decision = Calls /\ DOMAIN prompt = Calls
        /\ DOMAIN outcome = Calls /\ DOMAIN ticket = Calls
        /\ pc[d] \in {"idle", "asking", "running"} \cup Ended /\ ticket[d] \in Nat
        /\ outcome[d] \in {"none", "approved", "denied", "dropped"}
    BY <1>a DEF TypeOK
  <1>1. ASSUME NEW c \in Calls, CallAllowed(c) PROVE TicketOf(d)'
    BY <1>1, <1>a, <1>b DEF CallAllowed, Decides, policyVars, entryVars, UnchangedByEntry, UnchangedByGate
  <1>2. ASSUME NEW c \in Calls, CallDenied(c) PROVE TicketOf(d)'
    BY <1>2, <1>a, <1>b DEF CallDenied, Decides, policyVars, entryVars, UnchangedByEntry, UnchangedByGate
  <1>3. ASSUME NEW c \in Calls, CallAsks(c) PROVE TicketOf(d)'
    BY <1>3, <1>a, <1>b, TicketsGrow, EvictedPending DEF CallAsks, Decides, SettledAs, Rewritten, Evicted, policyVars, entryVars, UnchangedByEntry, UnchangedByGate
  <1>4. ASSUME NEW c \in Calls, CallFaults(c) PROVE TicketOf(d)'
    BY <1>4, <1>a, <1>b DEF CallFaults, Decides, policyVars, entryVars, UnchangedByEntry, UnchangedByGate
  <1>5. ASSUME NEW c \in Calls, PostReturns(c) PROVE TicketOf(d)'
    BY <1>5, <1>a, <1>b DEF PostReturns, policyVars, entryVars, UnchangedByEntry, UnchangedByGate
  <1>6. ASSUME NEW c \in Calls, PostFails(c) PROVE TicketOf(d)'
    BY <1>6, <1>a, <1>b DEF PostFails, Settle, SettledAs, policyVars, entryVars, UnchangedByEntry, UnchangedByGate
  <1>7. ASSUME NEW c \in Calls, NEW v \in {"approved", "denied"}, NEW own \in BOOLEAN, Click(c, v, own)
       PROVE  TicketOf(d)'
    BY <1>7, <1>a, <1>b DEF Click, ClickCounts, Settle, SettledAs, Rewritten, policyVars, entryVars, UnchangedByEntry, UnchangedByGate
  <1>8. ASSUME NEW c \in Calls, RouterTimeout(c) PROVE TicketOf(d)'
    BY <1>8, <1>a, <1>b DEF RouterTimeout, Settle, SettledAs, Rewritten, policyVars, entryVars, UnchangedByEntry, UnchangedByGate
  <1>9. ASSUME NEW c \in Calls, GateTimeout(c) PROVE TicketOf(d)'
    BY <1>9, <1>a, <1>b DEF GateTimeout, Answer, policyVars, entryVars, UnchangedByEntry, UnchangedByGate
  <1>10. ASSUME NEW c \in Calls, Nudge(c) PROVE TicketOf(d)'
    BY <1>10, <1>a, <1>b DEF Nudge, policyVars, entryVars, UnchangedByEntry, UnchangedByGate
  <1>11. ASSUME NEW c \in Calls, RewriteLands(c) PROVE TicketOf(d)'
    BY <1>11, <1>a, <1>b DEF RewriteLands, policyVars, entryVars, UnchangedByEntry, UnchangedByGate
  <1>12. ASSUME NEW c \in Calls, Resume(c) PROVE TicketOf(d)'
    BY <1>12, <1>a, <1>b DEF Resume, Answer, policyVars, entryVars, UnchangedByEntry, UnchangedByGate
  <1>13. ASSUME NEW c \in Calls, ResumeFaults(c) PROVE TicketOf(d)'
    BY <1>13, <1>a, <1>b DEF ResumeFaults, Answer, policyVars, entryVars, UnchangedByEntry, UnchangedByGate
  <1>14. ASSUME NEW c \in Calls, Succeed(c) PROVE TicketOf(d)'
    BY <1>14, <1>a, <1>b DEF Succeed, policyVars, entryVars, UnchangedByEntry, UnchangedByGate
  <1>15. ASSUME NEW c \in Calls, Fail(c) PROVE TicketOf(d)'
    BY <1>15, <1>a, <1>b DEF Fail, policyVars, entryVars, UnchangedByEntry, UnchangedByGate
  <1>16. CASE WritePolicy
    BY <1>16, <1>a, <1>b DEF WritePolicy, policyVars, entryVars, UnchangedByEntry, UnchangedByGate
  <1>17. CASE Restart
    BY <1>17, <1>a, <1>b DEF Restart, policyVars, entryVars, UnchangedByEntry, UnchangedByGate
  <1>18. CASE UNCHANGED vars
    BY <1>18, <1>a DEF vars
  <1> QED BY <1>1, <1>2, <1>3, <1>4, <1>5, <1>6, <1>7, <1>8, <1>9, <1>10, <1>11, <1>12, <1>13, <1>14, <1>15, <1>16, <1>17, <1>18 DEF Next

\* Entries and prompts.
LEMMA EntryStep == Inv /\ [Next]_vars => EntryInv'
  <1> SUFFICES ASSUME Inv, [Next]_vars, NEW d \in Calls PROVE EntryOf(d)'
    BY DEF EntryInv
  <1> USE DEF TicketOf, EntryOf, CallOf
  <1>a. TypeOK /\ TicketOf(d) /\ EntryOf(d) /\ CallOf(d)
    BY DEF Inv, TicketInv, EntryInv, CallInv
  <1>b. /\ DOMAIN pc = Calls /\ DOMAIN decision = Calls /\ DOMAIN prompt = Calls
        /\ DOMAIN outcome = Calls /\ DOMAIN ticket = Calls
        /\ pc[d] \in {"idle", "asking", "running"} \cup Ended /\ ticket[d] \in Nat
        /\ outcome[d] \in {"none", "approved", "denied", "dropped"}
    BY <1>a DEF TypeOK
  <1>1. ASSUME NEW c \in Calls, CallAllowed(c) PROVE EntryOf(d)'
    BY <1>1, <1>a, <1>b DEF CallAllowed, Decides, policyVars, entryVars, UnchangedByEntry, UnchangedByGate
  <1>2. ASSUME NEW c \in Calls, CallDenied(c) PROVE EntryOf(d)'
    BY <1>2, <1>a, <1>b DEF CallDenied, Decides, policyVars, entryVars, UnchangedByEntry, UnchangedByGate
  <1>3. ASSUME NEW c \in Calls, CallAsks(c) PROVE EntryOf(d)'
    BY <1>3, <1>a, <1>b, TicketsGrow, EvictedPending DEF CallAsks, Decides, SettledAs, Rewritten, Evicted, policyVars, entryVars, UnchangedByEntry, UnchangedByGate
  <1>4. ASSUME NEW c \in Calls, CallFaults(c) PROVE EntryOf(d)'
    BY <1>4, <1>a, <1>b DEF CallFaults, Decides, policyVars, entryVars, UnchangedByEntry, UnchangedByGate
  <1>5. ASSUME NEW c \in Calls, PostReturns(c) PROVE EntryOf(d)'
    BY <1>5, <1>a, <1>b DEF PostReturns, policyVars, entryVars, UnchangedByEntry, UnchangedByGate
  <1>6. ASSUME NEW c \in Calls, PostFails(c) PROVE EntryOf(d)'
    BY <1>6, <1>a, <1>b DEF PostFails, Settle, SettledAs, policyVars, entryVars, UnchangedByEntry, UnchangedByGate
  <1>7. ASSUME NEW c \in Calls, NEW v \in {"approved", "denied"}, NEW own \in BOOLEAN, Click(c, v, own)
       PROVE  EntryOf(d)'
    BY <1>7, <1>a, <1>b DEF Click, ClickCounts, Settle, SettledAs, Rewritten, policyVars, entryVars, UnchangedByEntry, UnchangedByGate
  <1>8. ASSUME NEW c \in Calls, RouterTimeout(c) PROVE EntryOf(d)'
    BY <1>8, <1>a, <1>b DEF RouterTimeout, Settle, SettledAs, Rewritten, policyVars, entryVars, UnchangedByEntry, UnchangedByGate
  <1>9. ASSUME NEW c \in Calls, GateTimeout(c) PROVE EntryOf(d)'
    BY <1>9, <1>a, <1>b DEF GateTimeout, Answer, policyVars, entryVars, UnchangedByEntry, UnchangedByGate
  <1>10. ASSUME NEW c \in Calls, Nudge(c) PROVE EntryOf(d)'
    BY <1>10, <1>a, <1>b DEF Nudge, policyVars, entryVars, UnchangedByEntry, UnchangedByGate
  <1>11. ASSUME NEW c \in Calls, RewriteLands(c) PROVE EntryOf(d)'
    BY <1>11, <1>a, <1>b DEF RewriteLands, policyVars, entryVars, UnchangedByEntry, UnchangedByGate
  <1>12. ASSUME NEW c \in Calls, Resume(c) PROVE EntryOf(d)'
    BY <1>12, <1>a, <1>b DEF Resume, Answer, policyVars, entryVars, UnchangedByEntry, UnchangedByGate
  <1>13. ASSUME NEW c \in Calls, ResumeFaults(c) PROVE EntryOf(d)'
    BY <1>13, <1>a, <1>b DEF ResumeFaults, Answer, policyVars, entryVars, UnchangedByEntry, UnchangedByGate
  <1>14. ASSUME NEW c \in Calls, Succeed(c) PROVE EntryOf(d)'
    BY <1>14, <1>a, <1>b DEF Succeed, policyVars, entryVars, UnchangedByEntry, UnchangedByGate
  <1>15. ASSUME NEW c \in Calls, Fail(c) PROVE EntryOf(d)'
    BY <1>15, <1>a, <1>b DEF Fail, policyVars, entryVars, UnchangedByEntry, UnchangedByGate
  <1>16. CASE WritePolicy
    BY <1>16, <1>a, <1>b DEF WritePolicy, policyVars, entryVars, UnchangedByEntry, UnchangedByGate
  <1>17. CASE Restart
    BY <1>17, <1>a, <1>b DEF Restart, policyVars, entryVars, UnchangedByEntry, UnchangedByGate
  <1>18. CASE UNCHANGED vars
    BY <1>18, <1>a DEF vars
  <1> QED BY <1>1, <1>2, <1>3, <1>4, <1>5, <1>6, <1>7, <1>8, <1>9, <1>10, <1>11, <1>12, <1>13, <1>14, <1>15, <1>16, <1>17, <1>18 DEF Next

\* Calls.
LEMMA CallStep == Inv /\ [Next]_vars => CallInv'
  <1> SUFFICES ASSUME Inv, [Next]_vars, NEW d \in Calls PROVE CallOf(d)'
    BY DEF CallInv
  <1> USE DEF TicketOf, EntryOf, CallOf
  <1>a. TypeOK /\ TicketOf(d) /\ EntryOf(d) /\ CallOf(d)
    BY DEF Inv, TicketInv, EntryInv, CallInv
  <1>b. /\ DOMAIN pc = Calls /\ DOMAIN decision = Calls /\ DOMAIN prompt = Calls
        /\ DOMAIN outcome = Calls /\ DOMAIN ticket = Calls
        /\ pc[d] \in {"idle", "asking", "running"} \cup Ended /\ ticket[d] \in Nat
        /\ outcome[d] \in {"none", "approved", "denied", "dropped"}
    BY <1>a DEF TypeOK
  <1>1. ASSUME NEW c \in Calls, CallAllowed(c) PROVE CallOf(d)'
    BY <1>1, <1>a, <1>b DEF CallAllowed, Decides, policyVars, entryVars, UnchangedByEntry, UnchangedByGate, Ran, Ended
  <1>2. ASSUME NEW c \in Calls, CallDenied(c) PROVE CallOf(d)'
    BY <1>2, <1>a, <1>b DEF CallDenied, Decides, policyVars, entryVars, UnchangedByEntry, UnchangedByGate, Ran, Ended
  <1>3. ASSUME NEW c \in Calls, CallAsks(c) PROVE CallOf(d)'
    BY <1>3, <1>a, <1>b, TicketsGrow, EvictedPending DEF CallAsks, Decides, SettledAs, Rewritten, Evicted, policyVars, entryVars, UnchangedByEntry, UnchangedByGate, Ran, Ended
  <1>4. ASSUME NEW c \in Calls, CallFaults(c) PROVE CallOf(d)'
    BY <1>4, <1>a, <1>b DEF CallFaults, Decides, policyVars, entryVars, UnchangedByEntry, UnchangedByGate, Ran, Ended
  <1>5. ASSUME NEW c \in Calls, PostReturns(c) PROVE CallOf(d)'
    BY <1>5, <1>a, <1>b DEF PostReturns, policyVars, entryVars, UnchangedByEntry, UnchangedByGate, Ran, Ended
  <1>6. ASSUME NEW c \in Calls, PostFails(c) PROVE CallOf(d)'
    BY <1>6, <1>a, <1>b DEF PostFails, Settle, SettledAs, policyVars, entryVars, UnchangedByEntry, UnchangedByGate, Ran, Ended
  <1>7. ASSUME NEW c \in Calls, NEW v \in {"approved", "denied"}, NEW own \in BOOLEAN, Click(c, v, own)
       PROVE  CallOf(d)'
    BY <1>7, <1>a, <1>b DEF Click, ClickCounts, Settle, SettledAs, Rewritten, policyVars, entryVars, UnchangedByEntry, UnchangedByGate, Ran, Ended
  <1>8. ASSUME NEW c \in Calls, RouterTimeout(c) PROVE CallOf(d)'
    BY <1>8, <1>a, <1>b DEF RouterTimeout, Settle, SettledAs, Rewritten, policyVars, entryVars, UnchangedByEntry, UnchangedByGate, Ran, Ended
  <1>9. ASSUME NEW c \in Calls, GateTimeout(c) PROVE CallOf(d)'
    BY <1>9, <1>a, <1>b DEF GateTimeout, Answer, policyVars, entryVars, UnchangedByEntry, UnchangedByGate, Ran, Ended
  <1>10. ASSUME NEW c \in Calls, Nudge(c) PROVE CallOf(d)'
    BY <1>10, <1>a, <1>b DEF Nudge, policyVars, entryVars, UnchangedByEntry, UnchangedByGate, Ran, Ended
  <1>11. ASSUME NEW c \in Calls, RewriteLands(c) PROVE CallOf(d)'
    BY <1>11, <1>a, <1>b DEF RewriteLands, policyVars, entryVars, UnchangedByEntry, UnchangedByGate, Ran, Ended
  <1>12. ASSUME NEW c \in Calls, Resume(c) PROVE CallOf(d)'
    BY <1>12, <1>a, <1>b DEF Resume, Answer, policyVars, entryVars, UnchangedByEntry, UnchangedByGate, Ran, Ended
  <1>13. ASSUME NEW c \in Calls, ResumeFaults(c) PROVE CallOf(d)'
    BY <1>13, <1>a, <1>b DEF ResumeFaults, Answer, policyVars, entryVars, UnchangedByEntry, UnchangedByGate, Ran, Ended
  <1>14. ASSUME NEW c \in Calls, Succeed(c) PROVE CallOf(d)'
    BY <1>14, <1>a, <1>b DEF Succeed, policyVars, entryVars, UnchangedByEntry, UnchangedByGate, Ran, Ended
  <1>15. ASSUME NEW c \in Calls, Fail(c) PROVE CallOf(d)'
    BY <1>15, <1>a, <1>b DEF Fail, policyVars, entryVars, UnchangedByEntry, UnchangedByGate, Ran, Ended
  <1>16. CASE WritePolicy
    BY <1>16, <1>a, <1>b DEF WritePolicy, policyVars, entryVars, UnchangedByEntry, UnchangedByGate, Ran, Ended
  <1>17. CASE Restart
    BY <1>17, <1>a, <1>b DEF Restart, policyVars, entryVars, UnchangedByEntry, UnchangedByGate, Ran, Ended
  <1>18. CASE UNCHANGED vars
    BY <1>18, <1>a DEF vars, Ran, Ended
  <1> QED BY <1>1, <1>2, <1>3, <1>4, <1>5, <1>6, <1>7, <1>8, <1>9, <1>10, <1>11, <1>12, <1>13, <1>14, <1>15, <1>16, <1>17, <1>18 DEF Next

-----------------------------------------------------------------------------
(* The theorems about the gate. *)

\* A finite set grows by one at most.
LEMMA OneMore ==
  ASSUME NEW S, NEW x, IsFiniteSet(S)
  PROVE  Cardinality(S \cup {x}) <= Cardinality(S) + 1 /\ Cardinality(S \cup {x}) \in Nat
  <1>1. Cardinality(S) \in Nat
    BY FS_CardinalityType
  <1>2. Cardinality(S \cup {x}) = IF x \in S THEN Cardinality(S) ELSE Cardinality(S) + 1
    BY FS_AddElement
  <1> QED BY <1>1, <1>2

\* The invariant holds in every state the gate can reach.
THEOREM Invariant == Spec => []Inv
  <1>1. Inv /\ [Next]_vars => Inv'
    BY TypeStep, OrgStep, TicketStep, EntryStep, CallStep DEF Inv
  <1> QED BY <1>1, InvInit, PTL DEF Spec

\* Every variable keeps its type, and the failure memory its bound.
THEOREM TypeCorrect == Spec => []TypeOK
  <1>1. Inv => TypeOK
    BY DEF Inv
  <1> QED BY <1>1, Invariant, PTL

\* Nothing but the policy or a click in the prompt's own space lets a call run,
\* and its audit rows come first (evaluatePolicyGate, handleAction).
THEOREM RunsOnlyWithConsentHolds == Spec => []RunsOnlyWithConsent
  <1>1. Inv => RunsOnlyWithConsent
    <2> SUFFICES ASSUME Inv, NEW c \in Calls, pc[c] \in Ran
                 PROVE  /\ <<c, "decision">> \in audit
                        /\ \/ decision[c] = "allow"
                           \/ decision[c] = "ask-human" /\ c \in pressed
                              /\ {<<c, "requested">>, <<c, "approved">>} \subseteq audit
      BY DEF RunsOnlyWithConsent
    <2>1. TicketOf(c) /\ EntryOf(c) /\ CallOf(c) /\ ticket[c] \in Nat
      BY DEF Inv, TicketInv, EntryInv, CallInv, TypeOK
    <2>2. CASE ticket[c] = 0
      BY <2>1, <2>2 DEF CallOf
    <2>3. CASE ticket[c] > 0
      BY <2>1, <2>3 DEF CallOf, TicketOf, EntryOf
    <2> QED BY <2>1, <2>2, <2>3
  <1> QED BY <1>1, Invariant, PTL

\* A prompt that says denied never had its call run, one that says approved is
\* belied only by a fault or the gate's own timer (rewriteIfSettled).
THEOREM PromptTellsTheTruthHolds == Spec => []PromptTellsTheTruth
  <1>1. Inv => PromptTellsTheTruth
    <2> SUFFICES ASSUME Inv, NEW c \in Calls
                 PROVE  /\ prompt[c] = "denied" => pc[c] \notin Ran
                        /\ prompt[c] = "approved" /\ pc[c] = "denied" => c \in faulted \cup timedOut
      BY DEF PromptTellsTheTruth
    <2>1. TicketOf(c) /\ EntryOf(c) /\ CallOf(c) /\ ticket[c] \in Nat
      BY DEF Inv, TicketInv, EntryInv, CallInv, TypeOK
    <2> QED BY <2>1 DEF TicketOf, EntryOf, CallOf
  <1> QED BY <1>1, Invariant, PTL

\* The registry holds exactly the requests nobody has settled, and never more
\* than its bound (request, settle).
THEOREM RegistryIsExactHolds == Spec => []RegistryIsExact
  <1> DEFINE Bounded == Cardinality(pending) <= MaxPending
  <1>1. Init => Bounded
    BY FS_EmptySet, BoundsAssumption DEF Init
  <1>2. Inv /\ Bounded /\ [Next]_vars => Bounded'
    <2> SUFFICES ASSUME Inv, Bounded, [Next]_vars PROVE Bounded'
      OBVIOUS
    <2>1. IsFiniteSet(pending) /\ Cardinality(pending) \in Nat /\ MaxPending \in Nat \ {0}
      BY CallsAssumption, BoundsAssumption, FS_Subset, FS_CardinalityType DEF Inv, TypeOK
    <2>2. CASE pending' \subseteq pending
      BY <2>1, <2>2, FS_Subset, FS_CardinalityType
    <2>3. ASSUME NEW c \in Calls, CallAsks(c) PROVE Bounded'
      <3>1. pending' = (pending \ Evicted) \cup {c}
        BY <2>3 DEF CallAsks
      <3>2. CASE Cardinality(pending) < MaxPending
        <4>1. Evicted = {}
          BY <2>1, <3>2 DEF Evicted
        <4>2. pending' = pending \cup {c}
          BY <3>1, <4>1
        <4>3. Cardinality(pending') <= Cardinality(pending) + 1 /\ Cardinality(pending') \in Nat
          BY <4>2, <2>1, OneMore
        <4> QED BY <4>3, <3>2, <2>1
      <3>3. CASE Cardinality(pending) >= MaxPending
        <4>1. pending # {}
          BY <2>1, <3>3, FS_EmptySet
        <4>2. Oldest \in pending /\ Evicted = {Oldest}
          BY <4>1, <3>3, OldestIsPending DEF Evicted, Inv
        <4>3. /\ IsFiniteSet(pending \ {Oldest})
              /\ Cardinality(pending \ {Oldest}) = Cardinality(pending) - 1
          BY <4>2, <2>1, FS_RemoveElement
        <4>4. pending' = (pending \ {Oldest}) \cup {c}
          BY <3>1, <4>2
        <4>6. Cardinality(pending') <= Cardinality(pending \ {Oldest}) + 1 /\ Cardinality(pending') \in Nat
          BY <4>3, <4>4, OneMore
        <4> QED BY <4>3, <4>6, <2>1
      <3> QED BY <2>1, <3>2, <3>3
    <2>4. CASE UNCHANGED vars
      BY <2>4 DEF vars
    <2> QED BY <2>2, <2>3, <2>4
         DEF Next, CallAllowed, CallDenied, CallFaults, PostReturns, PostFails, Click, RouterTimeout,
             GateTimeout, Nudge, RewriteLands, Resume, ResumeFaults, Succeed, Fail, WritePolicy,
             Restart, Settle, policyVars, entryVars, UnchangedByEntry, UnchangedByGate
  <1>3. Inv /\ Bounded => RegistryIsExact
    BY DEF Inv, EntryInv, EntryOf, RegistryIsExact
  <1> QED BY <1>1, <1>2, <1>3, Invariant, PTL DEF Spec

\* Neither settings nor overlays, whenever they are written, loosen what a call
\* is decided to be, unless they lift the allowlist of the file.
THEOREM NeverLooserThanFloorHolds == Spec => []NeverLooserThanFloor
  <1>1. Init => NeverLooserThanFloor
    BY DEF Init, NeverLooserThanFloor
  <1>2. Inv /\ NeverLooserThanFloor /\ [Next]_vars => NeverLooserThanFloor'
    <2> SUFFICES ASSUME Inv, NeverLooserThanFloor, [Next]_vars, NEW d \in Calls,
                        d \notin lifted', decision'[d] # "none"
                 PROVE  AsStrict(decision'[d], DecidePolicyCall(File, Call[d]))
      BY DEF NeverLooserThanFloor
    <2>1. CASE UNCHANGED <<decision, lifted>>
      BY <2>1 DEF NeverLooserThanFloor
    <2>2. ASSUME NEW c \in Calls, Decides(c)
          PROVE  AsStrict(decision'[d], DecidePolicyCall(File, Call[d]))
      <3>1. lifted \subseteq lifted' /\ decision' = [decision EXCEPT ![c] = DecisionOn(c)]
        BY <2>2 DEF Decides
      <3>2. DOMAIN decision = Calls
        BY DEF Inv, TypeOK
      <3>3. CASE d # c
        BY <3>1, <3>2, <3>3 DEF NeverLooserThanFloor
      <3>4. CASE d = c
        <4>1. ~Lifts(File, SpacePolicy)
          BY <3>4, <2>2 DEF Decides
        <4>2. PICK s \in Settings : org = LoadOrgPolicy(File, s)
          BY DEF Inv, OrgInv
        <4>3. overlay \in Overlays /\ Call[c] \in GateCalls /\ File \in Policies
          BY CallAssumption, PolicyAssumption DEF Inv, TypeOK
        <4>4. AsStrict(DecisionOn(c), DecidePolicyCall(File, Call[c]))
          BY <4>1, <4>2, <4>3, MergesTighten DEF DecisionOn, GatePolicy, SpacePolicy
        <4> QED BY <4>4, <3>1, <3>2, <3>4
      <3> QED BY <3>3, <3>4
    <2> QED BY <2>1, <2>2
         DEF Next, vars, CallAllowed, CallDenied, CallAsks, CallFaults, PostReturns, PostFails, Click,
             RouterTimeout, GateTimeout, Nudge, RewriteLands, Resume, ResumeFaults, Succeed, Fail,
             WritePolicy, Restart, UnchangedByEntry, UnchangedByGate
  <1> QED BY <1>1, <1>2, Invariant, PTL DEF Spec

\* A prompt that shows an outcome keeps it: only open prompts are rewritten,
\* and restarts touch only prompts that show none.
THEOREM OutcomeStaysHolds == Spec => OutcomeStays
  <1> DEFINE Stays == \A c \in Calls : prompt[c] \in {"approved", "denied"} => prompt'[c] = prompt[c]
  <1>1. Inv /\ [Next]_vars => [Stays]_vars
    <2> SUFFICES ASSUME Inv, [Next]_vars, NEW d \in Calls, prompt[d] \in {"approved", "denied"}
                 PROVE  prompt'[d] = prompt[d]
      OBVIOUS
    <2>1. TicketOf(d) /\ EntryOf(d) /\ DOMAIN prompt = Calls
      BY DEF Inv, TicketInv, EntryInv, TypeOK
    <2>2. CASE prompt' = prompt
      BY <2>2
    <2>3. ASSUME NEW c \in Calls, CallAsks(c) PROVE prompt'[d] = prompt[d]
      BY <2>1, <2>3 DEF CallAsks, Decides, TicketOf
    <2>4. ASSUME NEW c \in Calls, PostReturns(c) \/ PostFails(c) PROVE prompt'[d] = prompt[d]
      BY <2>1, <2>4 DEF PostReturns, PostFails
    <2>5. ASSUME NEW c \in Calls, RewriteLands(c) PROVE prompt'[d] = prompt[d]
      BY <2>1, <2>5 DEF RewriteLands, EntryOf
    <2>6. CASE Restart
      BY <2>6 DEF Restart
    <2> QED BY <2>2, <2>3, <2>4, <2>5, <2>6
         DEF Next, vars, CallAllowed, CallDenied, CallFaults, Click, RouterTimeout, GateTimeout, Nudge,
             Resume, ResumeFaults, Succeed, Fail, WritePolicy, entryVars, UnchangedByGate
  <1>2. Spec => [][Stays]_vars
    BY <1>1, Invariant, PTL DEF Spec
  <1> QED BY <1>2 DEF OutcomeStays
=============================================================================
