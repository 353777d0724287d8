--------------------------- MODULE MCApprovalGate ---------------------------
(* ApprovalGate on a small instance: an exec tool that config.yml asks for, *)
(* although it is on its list of automatic approvals, and a reading tool of *)
(* an extension that is not on the file's allowlist.                        *)
EXTENDS ApprovalGate, TLC

CONSTANTS bash, list, github, linear, c1, c2

NoTools == [t \in Tools |-> "none"]

Bash == [tool |-> bash, known |-> TRUE, tier |-> "exec", preApproved |-> FALSE,
         ext |-> NoExt, manifestTier |-> "none"]
LinearList == [tool |-> list, known |-> FALSE, tier |-> "exec", preApproved |-> FALSE,
               ext |-> linear, manifestTier |-> "read"]

SmallCall == [c \in Calls |-> IF c = c1 THEN Bash ELSE LinearList]

SmallFile ==
    [ok |-> TRUE, tools |-> [NoTools EXCEPT ![bash] = "prompt"], unknownAction |-> "allow",
     alwaysApprove |-> {bash}, extensionsAllow |-> {github}, extensionsDeny |-> {}]

\* A document that loosens one tool, which must not count, and tightens
\* another; no document; the empty text.
SmallOverlays ==
    {[NoOverlay EXCEPT !.kind = "document", !.tools[bash] = "allow", !.tools[list] = "prompt"],
     [NoOverlay EXCEPT !.kind = "malformed"],
     NoOverlay}

\* A row whose allowlist adds to the file's, which must not count; one that
\* shares nothing with it and empties it.
SmallSettings ==
    {[NoSettings EXCEPT !.setsAllow = TRUE, !.extensionsAllow = {github, linear}],
     [NoSettings EXCEPT !.setsAllow = TRUE, !.extensionsAllow = {linear}]}
=============================================================================
