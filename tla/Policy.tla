-------------------------------- MODULE Policy ------------------------------
(***************************************************************************)
(* How the policy of a space comes about and what it decides               *)
(* (src/policy/config.ts): the floor of config.yml, the org settings of    *)
(* the database on top of it, the overlay of a space on top of both, and   *)
(* the decision for one tool call.  Pure: every operator is a function of  *)
(* its arguments.  A policy keeps the knobs that decide a call; response   *)
(* mode, memory, learning and the timeout decide nothing here.             *)
(***************************************************************************)

CONSTANTS
    Tools,       \* names of tools
    Extensions,  \* ids of extensions
    NoExt        \* "extensionId is undefined"

Actions == {"allow", "prompt", "deny"}
Tiers == {"read", "write", "exec"}
Decisions == {"allow", "ask-human", "deny"}

\* tools[t] = "none": no explicit entry, the unknown action applies.
Policies ==
    [ok : BOOLEAN, tools : [Tools -> Actions \cup {"none"}],
     unknownAction : Actions, alwaysApprove : SUBSET Tools,
     extensionsAllow : SUBSET Extensions, extensionsDeny : SUBSET Extensions]

\* A tool call at the gate.  known: the tool is in TIER_BY_TOOL; manifestTier:
\* the tier its extension declares, "none" for built-ins.
GateCalls ==
    [tool : Tools, known : BOOLEAN, tier : Tiers, preApproved : BOOLEAN,
     ext : Extensions \cup {NoExt}, manifestTier : Tiers \cup {"none"}]

\* A policy that failed to parse: everything is denied.
StructuralError ==
    [ok |-> FALSE, tools |-> [t \in Tools |-> "none"], unknownAction |-> "deny",
     alwaysApprove |-> {}, extensionsAllow |-> {}, extensionsDeny |-> {}]

Looser(a, b) ==
    \/ a = "allow" /\ b # "allow"
    \/ a = "prompt" /\ b = "deny"

Stricter(a, b) == IF Looser(a, b) THEN b ELSE a

-----------------------------------------------------------------------------
(* The decision for one call. *)

ToolAction(p, t) == IF p.tools[t] = "none" THEN p.unknownAction ELSE p.tools[t]

DecideToolCall(tier, action, known) ==
    IF action = "deny" \/ ~known THEN "deny"
    ELSE IF action = "prompt" \/ tier = "exec" THEN "ask-human"
    ELSE "allow"

\* Empty: no restriction, the registry is the base allowlist.
ExtensionUsable(p, x) ==
    /\ x \notin p.extensionsDeny
    /\ p.extensionsAllow = {} \/ x \in p.extensionsAllow

\* The executor's pickup approval covers known exec tools that are allowed.
PickupCovers(p, c) ==
    c.preApproved /\ c.known /\ c.tier = "exec" /\ ToolAction(p, c.tool) = "allow"

AutoApproved(p, c) == ToolAction(p, c.tool) = "allow" /\ c.tool \in p.alwaysApprove

\* A tool of an extension is known with the tier of its manifest.
ByManifest(c) == c.ext # NoExt /\ c.manifestTier # "none"

DecidePolicyCall(p, c) ==
    IF ~p.ok \/ (c.ext # NoExt /\ ~ExtensionUsable(p, c.ext)) THEN "deny"
    ELSE IF ByManifest(c)
         THEN DecideToolCall(c.manifestTier, ToolAction(p, c.tool), TRUE)
    ELSE IF PickupCovers(p, c) \/ AutoApproved(p, c) THEN "allow"
    ELSE DecideToolCall(c.tier, ToolAction(p, c.tool), c.known)

\* The autoApproved of an allowed call.
ApprovedByPolicy(p, c) == ~ByManifest(c) /\ ~PickupCovers(p, c) /\ AutoApproved(p, c)

\* An id that is not registered fails the whole policy closed.
WithKnownIds(p, known) ==
    IF p.extensionsAllow \cup p.extensionsDeny \subseteq known THEN p
    ELSE [p EXCEPT !.ok = FALSE]

-----------------------------------------------------------------------------
(* The overlay of a space, spaces.policy_json. *)

\* A document, or the empty text (NoOverlay), or a text that is no valid
\* document.  "invalid" is an entry that is no action; unknownFirst says
\* whether the key `unknown` precedes the names of tools.
Overlays ==
    [kind : {"document", "empty", "malformed"},
     tools : [Tools -> Actions \cup {"none", "invalid"}],
     unknown : Actions \cup {"none"}, unknownFirst : BOOLEAN,
     removeApprove : SUBSET Tools,
     removeAllow : SUBSET Extensions, addDeny : SUBSET Extensions]

OverlayUnknown(org, o) ==
    IF o.unknown = "none" THEN org.unknownAction ELSE Stricter(org.unknownAction, o.unknown)

\* A tool without an entry of its own starts from the unknown action as it
\* stands when its key is reached.
OverlayTool(org, o, t) ==
    LET base == IF org.tools[t] # "none" THEN org.tools[t]
                ELSE IF o.unknownFirst THEN OverlayUnknown(org, o)
                ELSE org.unknownAction
    IN IF o.tools[t] = "none" THEN org.tools[t]
       ELSE IF o.tools[t] = "invalid" THEN "deny"
       ELSE Stricter(base, o.tools[t])

ApplySpaceOverlay(org, o) ==
    IF o.kind = "empty" \/ ~org.ok THEN org
    ELSE IF o.kind = "malformed" THEN StructuralError
    ELSE [org EXCEPT !.tools = [t \in Tools |-> OverlayTool(org, o, t)],
                     !.unknownAction = OverlayUnknown(org, o),
                     !.alwaysApprove = @ \ o.removeApprove,
                     !.extensionsAllow = @ \ o.removeAllow,
                     !.extensionsDeny = @ \cup o.addDeny]

-----------------------------------------------------------------------------
(* The org settings, a row of the database merged onto the file at boot. *)

\* A knob the blob does not set is absent; a blob may be malformed.
Settings ==
    [wellFormed : BOOLEAN, setsApprove : BOOLEAN, alwaysApprove : SUBSET Tools,
     setsAllow : BOOLEAN, extensionsAllow : SUBSET Extensions,
     extensionsDeny : SUBSET Extensions]

\* MUTANT: the row's list takes the place of the file's.
SettingsReplace(file, s) ==
    IF s.setsAllow THEN s.extensionsAllow ELSE file.extensionsAllow

\* From an unrestricted floor the list is taken; a restricted one can only
\* shrink, and is not lifted by an empty list.
SettingsAllow(file, s) ==
    IF ~s.setsAllow THEN file.extensionsAllow
    ELSE IF file.extensionsAllow = {} THEN s.extensionsAllow
    ELSE IF s.extensionsAllow = {} THEN file.extensionsAllow
    ELSE s.extensionsAllow \cap file.extensionsAllow

ApplyOrgSettings(file, s) ==
    [file EXCEPT !.alwaysApprove = IF s.setsApprove THEN @ \cap s.alwaysApprove ELSE @,
                 !.extensionsAllow = SettingsAllow(file, s),
                 !.extensionsDeny = @ \cup s.extensionsDeny]

LoadOrgPolicy(file, s) ==
    IF ~file.ok THEN file
    ELSE IF ~s.wellFormed THEN [file EXCEPT !.ok = FALSE]
    ELSE ApplyOrgSettings(file, s)

-----------------------------------------------------------------------------
(* What "tighten" means. *)

\* Decision d is at least as strict as decision e.
AsStrict(d, e) ==
    \/ d = "deny"
    \/ d = "ask-human" /\ e # "deny"
    \/ d = "allow" /\ e = "allow"

\* An allowlist that had entries and lost the last one: the empty list means
\* "no restriction".
Lifts(before, after) ==
    after.ok /\ before.extensionsAllow # {} /\ after.extensionsAllow = {}

NoOverlay ==
    [kind |-> "empty", tools |-> [t \in Tools |-> "none"], unknown |-> "none",
     unknownFirst |-> FALSE, removeApprove |-> {}, removeAllow |-> {}, addDeny |-> {}]

NoSettings ==
    [wellFormed |-> TRUE, setsApprove |-> FALSE, alwaysApprove |-> {}, setsAllow |-> FALSE,
     extensionsAllow |-> {}, extensionsDeny |-> {}]
=============================================================================
