--------------------------- MODULE WorkItemRules ----------------------------
(***************************************************************************)
(* The rules of one row of `work_items`: its states, the moves between     *)
(* them (ALLOWED_TRANSITIONS of src/src/store/db.ts) and the check every   *)
(* writer passes through (assertLegalTransition).                          *)
(***************************************************************************)
CONSTANTS GitItems,    \* work items delivered as a pull request
          ExtItems,    \* work items delivered through an extension
          ChatItems,   \* work items answered in the channel
          SchedulerItems \* extension items whose requester is "scheduler"

Items == GitItems \cup ExtItems \cup ChatItems

ASSUME DeliveryKindsDisjoint ==
    /\ GitItems \cap ExtItems = {}
    /\ GitItems \cap ChatItems = {}
    /\ ExtItems \cap ChatItems = {}
    /\ SchedulerItems \subseteq ExtItems

(* "none" is the absence of the row. *)
States == {"none", "open", "claimed", "working", "review",
           "done", "blocked", "aborted"}

Settled == {"done", "blocked", "aborted"}

(* ALLOWED_TRANSITIONS *)
Allowed(from) ==
    CASE from = "open"    -> {"claimed", "aborted"}
      [] from = "claimed" -> {"working", "open", "aborted"}
      [] from = "working" -> {"review", "blocked", "aborted"}
      [] from = "review"  -> {"done", "blocked", "aborted"}
      [] OTHER            -> {}

(* The move itself, before the obligations on its payload. *)
LegalMove(i, from, to) ==
    \/ to \in Allowed(from)
    \/ i \in ExtItems \cup ChatItems /\ from = "working" /\ to = "done"

(* The fields of the result JSON that can be present and non-blank. *)
ResultFields == {"pr_url", "url", "summary"}

(* assertDoneResult: the delivery-specific contract of a finished item. *)
DoneResult(i, result) ==
    /\ i \in GitItems => "pr_url" \in result
    /\ i \in ExtItems \ SchedulerItems => "url" \in result
    /\ "summary" \in result

(* assertLegalTransition: `opts` holds the payload's evidence, approval    *)
(* and result.                                                             *)
Legal(i, from, to, opts) ==
    /\ LegalMove(i, from, to)
    /\ to = "done" => DoneResult(i, opts.result)
    /\ to = "blocked" => opts.evidence
    /\ to = "review" => opts.approval
=============================================================================
