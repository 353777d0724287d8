------------------------------ MODULE Connections ------------------------------
(***************************************************************************)
(* One connection of an extension: its row in extension_credentials, the   *)
(* credentials in the broker's vault, the secret file at the egress        *)
(* boundary, and the calls that connect, replace and disconnect it         *)
(* (src/src/extensions/lifecycle.ts, connect.ts, mcp-oauth.ts, boundary.ts *)
(* and the row's queries in src/src/store/db.ts).                          *)
(*                                                                         *)
(* A call reads the row once, waits for a person's approval, and then goes *)
(* by what it read. Every store call and every request to the vault or the *)
(* proxy is a step: the server and the MCP process share the row, and      *)
(* nothing is held over an await. A credential is named by the id of its   *)
(* row in the vault: a new one, counted upwards, or one that the vault has *)
(* of the same account or namespace already. Zero stands for none.         *)
(***************************************************************************)
EXTENDS Naturals

CONSTANTS
  Calls,     \* lifecycle calls that can be in hand at the same time
  MaxCreds,  \* bound: times the vault stores a credential
  MaxFaults  \* bound: failed revokes and clearings, lost answers, dead credentials, deaths

ASSUME BoundsAssumption == MaxCreds \in Nat /\ MaxFaults \in Nat

Creds == 1..MaxCreds

Slots == {0} \cup Creds

Status == {"none", "active", "replacing", "replace_cleanup_pending",
           "disconnecting_boundary", "disconnecting_authority", "disconnected"}

Row == [status : Status, rev : Nat, cred : Slots,
        pending : Slots, retiring : Slots]

\* Before the step of the same name; those with a question mark wait for approval.
Places == {"idle", "replace?", "disconnect?", "provision", "begin", "unstage", "activate",
           "reload", "reload_bare", "undo", "rollback", "commit", "retire", "settle",
           "clear", "advance", "revoke", "finish", "reauth", "store", "upsert"}

NoRow == [status |-> "none", rev |-> 0, cred |-> 0, pending |-> 0, retiring |-> 0]

VARIABLES
  hosted,    \* whether the extension is a hosted OAuth server
  row,       \* the connection's row
  vault,     \* what the vault says of a credential
  file,      \* whose secret the boundary's file holds
  backup,    \* whose secret the backup beside it holds
  pc,        \* where a call is
  seen,      \* the row it goes by
  staged,    \* the credential it has stored or taken up
  lost,      \* history: credentials the program let go of unrevoked
  contested, \* history: staged credentials that more than one call took up
  restored,  \* history: a working credential of the row's that a replacement put back when the row had left it
  stores,    \* how often the vault has stored one
  again,     \* history: credentials the vault stored again while somebody had them
  faults

callVars  == <<pc, seen, staged>>
edgeVars  == <<file, backup>>
crossVars == <<contested, restored, again>>
histVars  == <<lost, crossVars>>
vars == <<hosted, row, vault, edgeVars, callVars, histVars, stores, faults>>

TypeOK ==
  /\ hosted \in BOOLEAN
  /\ row \in Row
  /\ vault \in [Creds -> {"unused", "enabled", "disabled", "dead"}]
  /\ file \in Slots /\ backup \in Slots
  /\ pc \in [Calls -> Places]
  /\ seen \in [Calls -> Row]
  /\ staged \in [Calls -> Slots]
  /\ lost \subseteq Slots /\ contested \subseteq Slots /\ restored \subseteq Slots
  /\ again \subseteq Creds /\ stores \in 0..MaxCreds
  /\ faults \in 0..MaxFaults

Init ==
  /\ hosted \in BOOLEAN
  /\ row = NoRow
  /\ vault = [c \in Creds |-> "unused"]
  /\ file = 0 /\ backup = 0
  /\ pc = [o \in Calls |-> "idle"]
  /\ seen = [o \in Calls |-> NoRow]
  /\ staged = [o \in Calls |-> 0]
  /\ lost = {} /\ contested = {} /\ restored = {} /\ again = {} /\ stores = 0
  /\ faults = 0
-----------------------------------------------------------------------------
(* The store, the vault and the hand-over between the steps of a call *)

Enabled(c) == c \in Creds /\ vault[c] = "enabled"

\* Credentials a row still has something to do with.
Names(r) ==
  {r.pending, r.retiring} \cup
  (IF r.status \in {"none", "disconnected"} THEN {} ELSE {r.cred})

Referenced == Names(row)

\* What a row, a call or the boundary goes by.
InHand ==
  Referenced \cup {file, backup} \cup {staged[o] : o \in Calls}
    \cup UNION {Names(seen[o]) : o \in Calls}

Working(S) == {c \in S : Enabled(c)}

\* A history takes up what is not on record as stored again.
Record(history, S) == history \cup (S \ again)

GoTo(o, place) ==
  /\ pc' = [pc EXCEPT ![o] = place]
  /\ UNCHANGED <<seen, staged>>

\* The rest of the call goes by the row as it has just written it.
GoOnWith(o, place, r, c) ==
  /\ pc' = [pc EXCEPT ![o] = place]
  /\ seen' = [seen EXCEPT ![o] = r]
  /\ staged' = [staged EXCEPT ![o] = c]

\* The call answers, with or without success, and forgets what it read.
Answer(o) ==
  /\ pc' = [pc EXCEPT ![o] = "idle"]
  /\ seen' = [seen EXCEPT ![o] = NoRow]
  /\ staged' = [staged EXCEPT ![o] = 0]

Fault == faults < MaxFaults /\ faults' = faults + 1

\* The vault stores into a new row, or into one it has: of the same account,
\* or of the same namespace, which replacements of one revision share. That
\* enables the row for everybody who has it in hand.
Stored(c) ==
  /\ c \in Creds /\ stores < MaxCreds /\ stores' = stores + 1
  /\ vault[c] = "unused" => \A d \in Creds : vault[d] = "unused" => c <= d
  /\ vault' = [vault EXCEPT ![c] = "enabled"]
  /\ again' = again \cup ({c} \cap InHand)

\* The vault refuses, or stores it and the answer is lost.
Unanswered ==
  \/ UNCHANGED <<vault, lost, again, stores, faults>>
  \/ \E c \in Creds : Stored(c) /\ lost' = Record(lost, {c}) /\ Fault

Revoked(c) == vault' = [vault EXCEPT ![c] = "disabled"]

Moved(from, to) ==
  /\ row.status = from
  /\ row' = [row EXCEPT !.status = to]

\* The row's compare-and-swap: the revision the caller expects, in that state.
Holds(o, status) == row.status = status /\ row.rev = seen[o].rev
-----------------------------------------------------------------------------
(* connectExtension *)

\* An active row refuses; a hosted one is connected by its browser flow, which
\* comes back whatever the row is by then.
Connect(o) ==
  /\ pc[o] = "idle"
  /\ hosted \/ row.status # "active"
  /\ GoTo(o, "store")
  /\ UNCHANGED <<hosted, row, vault, edgeVars, histVars, faults, stores>>

\* A hosted row whose credential no longer works makes way for a new flow.
Reconnect(o) ==
  /\ pc[o] = "idle" /\ hosted /\ row.status = "active" /\ ~Enabled(row.cred)
  /\ GoTo(o, "reauth")
  /\ UNCHANGED <<hosted, row, vault, edgeVars, histVars, faults, stores>>

\* The transition asks for the status alone.
Reauthorize(o) ==
  /\ pc[o] = "reauth"
  /\ IF row.status = "active"
     THEN /\ Moved("active", "disconnected")
          /\ lost' = Record(lost, Working({row.cred}))
     ELSE UNCHANGED <<row, lost>>
  /\ Answer(o)
  /\ UNCHANGED <<hosted, vault, edgeVars, crossVars, faults, stores>>

Store(o) ==
  /\ pc[o] = "store"
  /\ \E c \in Creds : Stored(c) /\ GoOnWith(o, "upsert", seen[o], c)
  /\ UNCHANGED <<hosted, row, edgeVars, lost, contested, restored, faults>>

StoreFails(o) ==
  /\ pc[o] = "store"
  /\ Answer(o)
  /\ Unanswered
  /\ UNCHANGED <<hosted, row, edgeVars, contested, restored>>

\* Whatever state the row was in, it is active with the new credential.
Upsert(o) ==
  /\ pc[o] = "upsert"
  /\ row' = [status |-> "active", rev |-> row.rev + 1, cred |-> staged[o],
             pending |-> 0, retiring |-> 0]
  /\ lost' = Record(lost, Working(Referenced))
  /\ Answer(o)
  /\ UNCHANGED <<hosted, vault, edgeVars, crossVars, faults, stores>>
-----------------------------------------------------------------------------
(* replaceConnection *)

\* In the other states of the row such a call only answers.
Changeable(what) ==
  {"active"} \cup (IF what = "replace?" THEN {"replacing", "replace_cleanup_pending"}
                   ELSE {"disconnecting_boundary", "disconnecting_authority"})

\* A call names the revision it was shown; one that is stale is refused.
Ask(o, what) ==
  /\ pc[o] = "idle" /\ row.status \in Changeable(what)
  /\ GoOnWith(o, what, row, 0)
  /\ UNCHANGED <<hosted, row, vault, edgeVars, histVars, faults, stores>>

Refused(o) ==
  /\ pc[o] \in {"replace?", "disconnect?"}
  /\ Answer(o)
  /\ UNCHANGED <<hosted, row, vault, edgeVars, histVars, faults, stores>>

\* The row is not in the replacement by this credential, or no longer.
MovedOn(c) == row.status # "replacing" \/ row.pending # c

\* Another call has the credential in hand, or the row has moved on from it.
TakenElsewhere(o, c) ==
  \/ MovedOn(c)
  \/ \E p \in Calls \ {o} : staged[p] = c

\* MUTANT of Replace: a replacement that was begun is not taken up again.
ReplaceOnce(o) ==
  /\ pc[o] = "replace?"
  /\ \/ seen[o].status = "active" /\ GoTo(o, "provision")
     \/ seen[o].status = "replace_cleanup_pending" /\ GoTo(o, "retire")
  /\ UNCHANGED <<hosted, row, vault, edgeVars, histVars, faults, stores>>

Replace(o) ==
  /\ pc[o] = "replace?"
  /\ \/ seen[o].status = "active" /\ GoTo(o, "provision") /\ UNCHANGED contested
     \/ /\ seen[o].status = "replacing"
        /\ GoOnWith(o, "activate", seen[o], seen[o].pending)
        /\ contested' = Record(contested, {c \in {seen[o].pending} : TakenElsewhere(o, c)})
     \/ seen[o].status = "replace_cleanup_pending" /\ GoTo(o, "retire") /\ UNCHANGED contested
  /\ UNCHANGED <<hosted, row, vault, edgeVars, lost, restored, again, faults, stores>>

\* The broker stores the new key or login; it knows no hosted extension.
Provision(o) ==
  /\ pc[o] = "provision" /\ ~hosted
  /\ \E c \in Creds : Stored(c) /\ GoOnWith(o, "begin", seen[o], c)
  /\ UNCHANGED <<hosted, row, edgeVars, lost, contested, restored, faults>>

\* No key was given, or the broker threw, perhaps after it had stored it.
ProvisionFails(o) ==
  /\ pc[o] = "provision"
  /\ Answer(o)
  /\ Unanswered
  /\ UNCHANGED <<hosted, row, edgeVars, contested, restored>>

Begin(o) ==
  /\ pc[o] = "begin"
  /\ IF Holds(o, "active")
     THEN /\ row' = [row EXCEPT !.status = "replacing", !.pending = staged[o]]
          /\ GoOnWith(o, "activate", row', staged[o])
     ELSE GoTo(o, "unstage") /\ UNCHANGED row
  /\ UNCHANGED <<hosted, vault, edgeVars, histVars, faults, stores>>

Unstage(o) ==
  /\ pc[o] = "unstage"
  /\ Answer(o)
  /\ \/ Revoked(staged[o]) /\ UNCHANGED <<lost, faults>>
     \/ lost' = Record(lost, {staged[o]}) /\ Fault /\ UNCHANGED vault
  /\ UNCHANGED <<hosted, row, edgeVars, crossVars, stores>>

\* The secret is resolved and moved into place, the old one kept beside it.
Activate(o) ==
  /\ pc[o] = "activate" /\ Enabled(staged[o])
  /\ backup' = IF file # 0 THEN file ELSE backup
  /\ file' = staged[o]
  /\ GoTo(o, IF file # 0 THEN "reload" ELSE "reload_bare")
  /\ UNCHANGED <<hosted, row, vault, histVars, faults, stores>>

CannotResolve(o) ==
  /\ pc[o] = "activate"
  /\ GoTo(o, "undo")
  /\ UNCHANGED <<hosted, row, vault, edgeVars, histVars, faults, stores>>

Reload(o) ==
  /\ pc[o] \in {"reload", "reload_bare"}
  /\ backup' = 0
  /\ GoTo(o, "commit")
  /\ UNCHANGED <<hosted, row, vault, file, histVars, faults, stores>>

\* The proxy refuses: what was in place, and is still in the backup, goes back.
ReloadFails(o) ==
  /\ \/ /\ pc[o] = "reload"
        /\ file' = backup /\ backup' = 0
        /\ restored' = Record(restored, {c \in {backup} \cap {row.cred} : Enabled(c) /\ MovedOn(staged[o])})
     \/ pc[o] = "reload_bare" /\ file' = 0 /\ UNCHANGED <<backup, restored>>
  /\ GoTo(o, "undo")
  /\ UNCHANGED <<hosted, row, vault, lost, contested, again, faults, stores>>

\* MUTANT of Undo: the row is rolled back although the vault did not answer.
UndoRegardless(o) ==
  /\ pc[o] = "undo"
  /\ \/ Revoked(staged[o]) /\ GoTo(o, "rollback") /\ UNCHANGED faults
     \/ Fault /\ GoTo(o, "rollback") /\ UNCHANGED vault
  /\ UNCHANGED <<hosted, row, edgeVars, histVars, stores>>

\* The staged credential is revoked first: a failure here leaves the row to a retry.
Undo(o) ==
  /\ pc[o] = "undo"
  /\ \/ Revoked(staged[o]) /\ GoTo(o, "rollback") /\ UNCHANGED faults
     \/ Fault /\ Answer(o) /\ UNCHANGED vault
  /\ UNCHANGED <<hosted, row, edgeVars, histVars, stores>>

\* The revision is still that of before: it may be another call's replacement.
Rollback(o) ==
  /\ pc[o] = "rollback"
  /\ IF Holds(o, "replacing")
     THEN /\ row' = [row EXCEPT !.status = "active", !.pending = 0]
          /\ lost' = Record(lost, Working({row.pending}) \ {staged[o]})
     ELSE UNCHANGED <<row, lost>>
  /\ Answer(o)
  /\ UNCHANGED <<hosted, vault, edgeVars, crossVars, faults, stores>>

\* What is pending is what is switched to, be it another call's.
Commit(o) ==
  /\ pc[o] = "commit"
  /\ IF Holds(o, "replacing") /\ row.pending # 0
     THEN /\ row' = [status |-> "replace_cleanup_pending", rev |-> row.rev + 1,
                     cred |-> row.pending, pending |-> 0, retiring |-> row.cred]
          /\ GoOnWith(o, "retire", row', 0)
          /\ contested' = Record(contested, {row.pending} \ {staged[o]})
     ELSE Answer(o) /\ UNCHANGED <<row, contested>>
  /\ UNCHANGED <<hosted, vault, edgeVars, lost, restored, again, faults, stores>>

Retire(o) ==
  /\ pc[o] = "retire"
  /\ \/ Revoked(seen[o].retiring) /\ GoTo(o, "settle") /\ UNCHANGED faults
     \/ Fault /\ Answer(o) /\ UNCHANGED vault
  /\ UNCHANGED <<hosted, row, edgeVars, histVars, stores>>

\* The transition asks for the status alone, whatever the row retires by now.
Settle(o) ==
  /\ pc[o] = "settle"
  /\ IF row.status = "replace_cleanup_pending"
     THEN /\ row' = [row EXCEPT !.status = "active", !.retiring = 0]
          /\ lost' = Record(lost, Working({row.retiring}) \ {seen[o].retiring})
     ELSE UNCHANGED <<row, lost>>
  /\ Answer(o)
  /\ UNCHANGED <<hosted, vault, edgeVars, crossVars, faults, stores>>
-----------------------------------------------------------------------------
(* disconnectConnection *)

\* MUTANT of Disconnect: the authority is revoked while the row is still active.
DisconnectRevokesFirst(o) ==
  /\ pc[o] = "disconnect?"
  /\ GoTo(o, IF seen[o].status = "disconnecting_boundary" THEN "clear" ELSE "revoke")
  /\ UNCHANGED <<hosted, row, vault, edgeVars, histVars, faults, stores>>

\* The first write denies the connection to the runtime.
Disconnect(o) ==
  /\ pc[o] = "disconnect?"
  /\ \/ seen[o].status = "active" /\ Holds(o, "active")
        /\ row' = [row EXCEPT !.status = "disconnecting_boundary", !.rev = @ + 1]
        /\ GoOnWith(o, "clear", row', 0)
     \/ seen[o].status = "active" /\ ~Holds(o, "active") /\ Answer(o) /\ UNCHANGED row
     \/ seen[o].status = "disconnecting_boundary" /\ GoTo(o, "clear") /\ UNCHANGED row
     \/ seen[o].status = "disconnecting_authority" /\ GoTo(o, "revoke") /\ UNCHANGED row
  /\ UNCHANGED <<hosted, vault, edgeVars, histVars, faults, stores>>

\* MUTANT of ClearBoundary: clearing is best effort.
ClearIfPossible(o) ==
  /\ pc[o] = "clear"
  /\ \/ file' = 0 /\ UNCHANGED faults
     \/ Fault /\ UNCHANGED file
  /\ GoTo(o, "advance")
  /\ UNCHANGED <<hosted, row, vault, backup, histVars, stores>>

\* The file goes first; the proxy may still refuse to reload.
ClearBoundary(o) ==
  /\ pc[o] = "clear"
  /\ file' = 0
  /\ \/ GoTo(o, "advance") /\ UNCHANGED faults
     \/ Fault /\ Answer(o)
  /\ UNCHANGED <<hosted, row, vault, backup, histVars, stores>>

\* The transition asks for the status alone: it may be another, later disconnect.
Advance(o) ==
  /\ pc[o] = "advance"
  /\ IF row.status = "disconnecting_boundary"
     THEN /\ Moved("disconnecting_boundary", "disconnecting_authority")
          /\ GoOnWith(o, "revoke", row', 0)
          /\ lost' = Record(lost, {c \in {file} \ {0} : row.rev # seen[o].rev})
     ELSE Answer(o) /\ UNCHANGED <<row, lost>>
  /\ UNCHANGED <<hosted, vault, edgeVars, crossVars, faults, stores>>

RevokeAuthority(o) ==
  /\ pc[o] = "revoke"
  /\ \/ Revoked(seen[o].cred) /\ GoTo(o, "finish") /\ UNCHANGED faults
     \/ Fault /\ Answer(o) /\ UNCHANGED vault
  /\ UNCHANGED <<hosted, row, edgeVars, histVars, stores>>

Finish(o) ==
  /\ pc[o] = "finish"
  /\ IF row.status = "disconnecting_authority"
     THEN /\ Moved("disconnecting_authority", "disconnected")
          /\ lost' = Record(lost, Working({row.cred}) \ {seen[o].cred})
     ELSE UNCHANGED <<row, lost>>
  /\ Answer(o)
  /\ UNCHANGED <<hosted, vault, edgeVars, crossVars, faults, stores>>
-----------------------------------------------------------------------------
(* Events *)

\* The provider withdraws a credential that the vault still had.
CredentialDies ==
  /\ hosted
  /\ \E c \in Creds : Enabled(c) /\ vault' = [vault EXCEPT ![c] = "dead"]
  /\ Fault
  /\ UNCHANGED <<hosted, row, edgeVars, callVars, histVars, stores>>

\* A process dies with its calls, or an audit row that cannot be written ends one.
\* Between the vault's answer and the row that leaves a credential behind.
Crash ==
  /\ Fault
  /\ \E ended \in SUBSET {o \in Calls : pc[o] # "idle"} :
       /\ ended # {}
       /\ pc' = [o \in Calls |-> IF o \in ended THEN "idle" ELSE pc[o]]
       /\ seen' = [o \in Calls |-> IF o \in ended THEN NoRow ELSE seen[o]]
       /\ staged' = [o \in Calls |-> IF o \in ended THEN 0 ELSE staged[o]]
       /\ lost' = Record(lost, {staged[o] : o \in {p \in ended : pc[p] \in {"begin", "unstage", "upsert"}}})
  /\ UNCHANGED <<hosted, row, vault, edgeVars, crossVars, stores>>
-----------------------------------------------------------------------------
CallStep(o) ==
  \/ Store(o) \/ StoreFails(o) \/ Upsert(o) \/ Reauthorize(o)
  \/ Provision(o) \/ ProvisionFails(o) \/ Begin(o) \/ Unstage(o)
  \/ Activate(o) \/ CannotResolve(o) \/ Reload(o) \/ ReloadFails(o)
  \/ Undo(o) \/ Rollback(o) \/ Commit(o) \/ Retire(o) \/ Settle(o)
  \/ ClearBoundary(o) \/ Advance(o) \/ RevokeAuthority(o) \/ Finish(o)

Next ==
  \/ \E o \in Calls :
       \/ CallStep(o) \/ Connect(o) \/ Reconnect(o)
       \/ Ask(o, "replace?") \/ Ask(o, "disconnect?")
       \/ Refused(o) \/ Replace(o) \/ Disconnect(o)
  \/ CredentialDies \/ Crash

\* The call that takes an unfinished change up again.
Retry(o) ==
  \/ row.status \in {"replacing", "replace_cleanup_pending"} /\ Ask(o, "replace?")
  \/ row.status \in {"disconnecting_boundary", "disconnecting_authority"} /\ Ask(o, "disconnect?")

Approved(o) == Replace(o) \/ Disconnect(o)

\* Somebody asks again until the change is done, and is not refused for ever.
Fairness ==
  /\ \A o \in Calls : WF_vars(CallStep(o))
  /\ SF_vars(\E o \in Calls : Retry(o)) /\ SF_vars(\E o \in Calls : Approved(o))

Spec == Init /\ [][Next]_vars /\ Fairness
-----------------------------------------------------------------------------
\* While the runtime may use the connection, or a replacement that fails would
\* give it back, its credential has not been revoked: a disconnect denies before
\* it revokes, and a replacement revokes only what the row has left behind. The
\* exception are credentials that two calls had in hand at once: the one that
\* fails revokes what the other has switched to.
NeverRevokedUnderfoot ==
  row.status \in {"active", "replacing", "replace_cleanup_pending"} =>
    vault[row.cred] # "disabled" \/ row.cred \in contested \cup again

\* Every credential that still works is named by the row or in the hands of a
\* call, so that someone can still revoke it: whatever a call takes out of the
\* row, or gives up, it has revoked first, through every failure and death. The
\* exceptions, in lost, are those a call cannot know of: of an answer that never
\* came, and of a row that another call has written since.
NoStrayAuthority ==
  \A c \in Creds : Enabled(c) =>
    c \in Referenced \cup lost \cup again \cup {staged[o] : o \in Calls}

\* Once a disconnect has taken the secret from the boundary, none that works
\* comes back: no late activation, no backup restored after a refused reload.
\* The exceptions are credentials nobody can know of, those two calls had in
\* hand at once, and the one a replacement put back when the row had moved on.
DisconnectedIsClear ==
  row.status \in {"disconnecting_authority", "disconnected"} /\ Enabled(file) =>
    file \in lost \cup contested \cup restored \cup again

Unfinished == row.status \notin {"none", "active", "disconnected"}

\* Each phase can be retried: a change that stopped half way is brought to its
\* end by asking again, from whichever phase it stopped in.
PhasesAreRetryable == Unfinished ~> ~Unfinished
=============================================================================
