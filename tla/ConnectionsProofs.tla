--------------------------- MODULE ConnectionsProofs ---------------------------
(***************************************************************************)
(* Theorems about Connections, for any set of calls and any number of      *)
(* credentials and faults. The inductive invariant says of each call that  *)
(* what it has taken from the row is still known to the row, or was let go *)
(* of on record, and that a call which is about to write a credential out  *)
(* of the row has had that credential revoked. Three more rest on it: who  *)
(* has which credential (Apart), that none in use is revoked (Unharmed)    *)
(* and what is at the boundary (Boundary).                                 *)
(***************************************************************************)
EXTENDS Connections, TLAPS

USE DEF Record, Working, Names

Known(c) == c \in Referenced \cup lost \cup again

\* Revoked or dead, and so never to work again unless it is stored again.
Gone(c) == c \in again \/ c = 0 \/ (c \in Creds /\ vault[c] \in {"disabled", "dead"})

Used(c) == c = 0 \/ (c \in Creds /\ vault[c] # "unused")

\* Between the vault's answer and the row's write only the call has it.
Carrying == {"begin", "unstage", "upsert"}

\* A pending credential belongs to a replacement, a retiring one to its cleanup.
RowInv ==
  /\ Used(row.pending)
  /\ row.pending # 0 => row.status = "replacing"
  /\ row.retiring # 0 => row.status = "replace_cleanup_pending"

CallInv(o) ==
  /\ Used(staged[o]) /\ Used(seen[o].pending)
  /\ Enabled(seen[o].pending) => Known(seen[o].pending)
  /\ pc[o] \notin Carrying => (Enabled(staged[o]) => Known(staged[o]))
  /\ pc[o] = "rollback" => Gone(staged[o])
  /\ pc[o] = "settle" => Gone(seen[o].retiring)
  /\ pc[o] = "finish" => Gone(seen[o].cred)
  /\ pc[o] \in {"revoke", "finish"} => seen[o].status = "disconnecting_authority"

Inv == TypeOK /\ RowInv /\ (\A o \in Calls : CallInv(o)) /\ NoStrayAuthority

\* The vault enables what nobody has, or it is on record.
Fresh(c) == c \in again' \/ c \notin InHand

\* What a step does to credentials: none that somebody has is enabled but on
\* record, and one that works and was known stays known.
Lives ==
  /\ again \subseteq again'
  /\ \A c \in Creds :
       /\ vault'[c] = "enabled" => vault[c] = "enabled" \/ Fresh(c)
       /\ vault[c] # "unused" => vault'[c] # "unused"
       /\ vault[c] \in {"disabled", "dead"} => vault'[c] \in {"disabled", "dead"} \/ Fresh(c)
       /\ vault[c] = "enabled" /\ vault'[c] = "enabled" /\ Known(c) => Known(c)'

\* What a step of the call o does to the calls.
StepOf(o) ==
  /\ \A p \in Calls \ {o} : pc'[p] = pc[p] /\ seen'[p] = seen[p] /\ staged'[p] = staged[p]
  /\ \A c \in Creds : vault'[c] = "enabled" /\ (vault[c] # "enabled" \/ staged[o] = c)
       => Known(c)' \/ staged'[o] = c

Kept(o) == Lives /\ StepOf(o) /\ RowInv' /\ CallInv(o)'
-----------------------------------------------------------------------------
LEMMA SlotFacts == 0 \in Slots /\ 0 \notin Creds /\ Creds \subseteq Slots
  BY BoundsAssumption DEF Slots, Creds

LEMMA InitInv == Init => Inv
  BY BoundsAssumption DEF Init, Inv, TypeOK, RowInv, CallInv, NoStrayAuthority, Row, NoRow,
       Status,
     Known, Gone, Used, Carrying, Referenced, Names, Enabled, Creds, Slots, Places

\* What a step of one call owes is enough for the whole invariant.
LEMMA KeptIsEnough ==
  ASSUME Inv, TypeOK', NEW o \in Calls, Kept(o)
  PROVE Inv'
<1>1. ASSUME NEW p \in Calls \ {o} PROVE CallInv(p)'
  <2>0. /\ pc'[p] = pc[p] /\ seen'[p] = seen[p] /\ staged'[p] = staged[p]
        /\ staged[p] \in Slots /\ seen[p] \in Row /\ CallInv(p)
    BY DEF Kept, StepOf, Inv, TypeOK
  <2>1. \A c \in Slots :
          /\ Used(c) => Used(c)'
          /\ Gone(c) /\ c \in InHand => Gone(c)'
          /\ Used(c) /\ c \in InHand /\ (Enabled(c) => Known(c)) => (Enabled(c)' => Known(c)')
    BY DEF Kept, Lives, Fresh, Used, Gone, Enabled, Known, Slots, Creds
  <2>2. staged[p] \in InHand /\ seen[p].pending \in InHand /\ seen[p].retiring \in InHand
    BY DEF InHand, Names
  <2>3. pc[p] = "finish" => seen[p].cred \in InHand
    BY <2>0 DEF CallInv, InHand, Names
  <2> QED BY <2>0, <2>1, <2>2, <2>3 DEF CallInv, Row
<1>2. NoStrayAuthority'
  BY DEF Inv, TypeOK, Kept, Lives, StepOf, NoStrayAuthority, Enabled, Known
<1> QED BY <1>1, <1>2 DEF Inv, Kept
-----------------------------------------------------------------------------
CallsType == pc \in [Calls -> Places] /\ seen \in [Calls -> Row] /\ staged \in [Calls -> Slots]

\* What the actions do with a call keeps its types.
LEMMA PartsTyped ==
  ASSUME TypeOK, NEW o \in Calls
  PROVE /\ row \in Row /\ \A s \in Status : [row EXCEPT !.status = s] \in Row
        /\ seen[o] \in Row /\ staged[o] \in Slots
        /\ Answer(o) => CallsType'
        /\ \A place \in Places : GoTo(o, place) => CallsType'
        /\ \A place \in Places, r \in Row, c \in Slots :
             GoOnWith(o, place, r, c) => CallsType'
<1>1. NoRow \in Row /\ row \in Row /\ seen[o] \in Row /\ staged[o] \in Slots
  BY SlotFacts DEF TypeOK, NoRow, Row, Status
<1>2. \A s \in Status : [row EXCEPT !.status = s] \in Row
  BY <1>1 DEF Row
<1>3. Answer(o) => CallsType'
  BY <1>1, SlotFacts DEF TypeOK, CallsType, Answer, Places
<1>4. \A place \in Places : GoTo(o, place) => CallsType'
  BY DEF TypeOK, CallsType, GoTo
<1>5. \A place \in Places, r \in Row, c \in Slots : GoOnWith(o, place, r, c) => CallsType'
  BY DEF TypeOK, CallsType, GoOnWith
<1> QED BY <1>1, <1>2, <1>3, <1>4, <1>5

LEMMA RowTyped ==
  ASSUME TypeOK, NEW o \in Calls, CallStep(o) \/ Disconnect(o)
  PROVE row' \in Row
<1>0. /\ row \in Row /\ staged[o] \in Slots /\ 0 \in Slots
      /\ \A s \in Status : [row EXCEPT !.status = s] \in Row
  BY PartsTyped, SlotFacts
<1> USE <1>0
<1>1. CASE Reauthorize(o) BY <1>1 DEF Reauthorize, Moved, Status
<1>2. CASE Upsert(o)
  <2>1. row' = [status |-> "active", rev |-> row.rev + 1, cred |-> staged[o], pending |-> 0,
       retiring |-> 0]
    BY <1>2 DEF Upsert
  <2> QED BY <2>1 DEF Row, Status
<1>3. CASE Begin(o)
  <2>1. row' \in {row, [row EXCEPT !.status = "replacing", !.pending = staged[o]]}
    BY <1>3 DEF Begin
  <2> QED BY <2>1 DEF Row, Status
<1>4. CASE Rollback(o)
  <2>1. row' \in {row, [row EXCEPT !.status = "active", !.pending = 0]} BY <1>4 DEF Rollback
  <2> QED BY <2>1 DEF Row, Status
<1>5. CASE Commit(o)
  <2>1. row' \in {row, [status |-> "replace_cleanup_pending", rev |-> row.rev + 1,
                        cred |-> row.pending, pending |-> 0, retiring |-> row.cred]}
    BY <1>5 DEF Commit
  <2> QED BY <2>1 DEF Row, Status
<1>6. CASE Settle(o)
  <2>1. row' \in {row, [row EXCEPT !.status = "active", !.retiring = 0]} BY <1>6 DEF Settle
  <2> QED BY <2>1 DEF Row, Status
<1>7. CASE Disconnect(o)
  <2>1. \/ row' = row
        \/ row' = [row EXCEPT !.status = "disconnecting_boundary", !.rev = row.rev + 1]
    BY <1>7 DEF Disconnect
  <2>2. row.rev + 1 \in Nat BY DEF Row
  <2> QED BY <2>1, <2>2 DEF Row, Status
<1>8. CASE Advance(o) BY <1>8 DEF Advance, Moved, Status
<1>9. CASE Finish(o) BY <1>9 DEF Finish, Moved, Status
<1>10. CASE UNCHANGED row BY <1>10
<1> QED BY <1>1, <1>2, <1>3, <1>4, <1>5, <1>6, <1>7, <1>8, <1>9, <1>10
   DEF CallStep, Store, StoreFails, Provision, ProvisionFails, Unstage, Activate, CannotResolve,
        Reload, ReloadFails, Undo, Retire, ClearBoundary, RevokeAuthority

LEMMA CallsTyped ==
  ASSUME TypeOK, NEW o \in Calls, CallStep(o)
  PROVE CallsType'
<1> USE PartsTyped, RowTyped, SlotFacts DEF Places
<1>1. CASE Reauthorize(o) BY <1>1 DEF Reauthorize
<1>2. CASE Store(o) BY <1>2 DEF Store, Stored
<1>3. CASE StoreFails(o) BY <1>3 DEF StoreFails, Stored
<1>4. CASE Upsert(o) BY <1>4 DEF Upsert
<1>5. CASE Provision(o) BY <1>5 DEF Provision, Stored
<1>6. CASE ProvisionFails(o) BY <1>6 DEF ProvisionFails, Stored
<1>7. CASE Begin(o) BY <1>7 DEF Begin
<1>8. CASE Unstage(o) BY <1>8 DEF Unstage
<1>9. CASE Activate(o) BY <1>9 DEF Activate
<1>10. CASE CannotResolve(o) BY <1>10 DEF CannotResolve
<1>11. CASE Reload(o) BY <1>11 DEF Reload
<1>12. CASE ReloadFails(o) BY <1>12 DEF ReloadFails
<1>13. CASE Undo(o) BY <1>13 DEF Undo
<1>14. CASE Rollback(o) BY <1>14 DEF Rollback
<1>15. CASE Commit(o) BY <1>15 DEF Commit
<1>16. CASE Retire(o) BY <1>16 DEF Retire
<1>17. CASE Settle(o) BY <1>17 DEF Settle
<1>18. CASE ClearBoundary(o) BY <1>18 DEF ClearBoundary
<1>19. CASE Advance(o) BY <1>19 DEF Advance
<1>20. CASE RevokeAuthority(o) BY <1>20 DEF RevokeAuthority
<1>21. CASE Finish(o) BY <1>21 DEF Finish
<1> QED BY <1>1, <1>2, <1>3, <1>4, <1>5, <1>6, <1>7, <1>8, <1>9, <1>10, <1>11, <1>12, <1>13,
     <1>14, <1>15, <1>16, <1>17, <1>18, <1>19, <1>20, <1>21 DEF CallStep

LEMMA TypeStep ==
  ASSUME TypeOK, [Next]_vars
  PROVE TypeOK'
<1> USE BoundsAssumption, SlotFacts DEF TypeOK, edgeVars, histVars, crossVars
<1>1. ASSUME NEW o \in Calls, CallStep(o) PROVE TypeOK'
  <2> USE <1>1, CallsTyped, RowTyped DEF CallsType
  <2>1. CASE Reauthorize(o) BY <2>1 DEF Reauthorize, Enabled
  <2>2. CASE Store(o) BY <2>2 DEF Store, Stored
  <2>3. CASE StoreFails(o) BY <2>3 DEF StoreFails, Unanswered, Stored, Fault
  <2>4. CASE Upsert(o) BY <2>4 DEF Upsert, Enabled, Referenced
  <2>5. CASE Provision(o) BY <2>5 DEF Provision, Stored
  <2>6. CASE ProvisionFails(o) BY <2>6 DEF ProvisionFails, Unanswered, Stored, Fault
  <2>7. CASE Begin(o) BY <2>7 DEF Begin
  <2>8. CASE Unstage(o) BY <2>8 DEF Unstage, Revoked, Fault
  <2>9. CASE Activate(o) BY <2>9 DEF Activate, Enabled, Creds
  <2>10. CASE CannotResolve(o) BY <2>10 DEF CannotResolve
  <2>11. CASE Reload(o) BY <2>11 DEF Reload
  <2>12. CASE ReloadFails(o) BY <2>12 DEF ReloadFails
  <2>13. CASE Undo(o) BY <2>13 DEF Undo, Revoked, Fault
  <2>14. CASE Rollback(o) BY <2>14 DEF Rollback, Enabled
  <2>15. CASE Commit(o) BY <2>15 DEF Commit, Row
  <2>16. CASE Retire(o) BY <2>16 DEF Retire, Revoked, Fault
  <2>17. CASE Settle(o) BY <2>17 DEF Settle, Enabled
  <2>18. CASE ClearBoundary(o) BY <2>18 DEF ClearBoundary, Fault
  <2>19. CASE Advance(o) BY <2>19 DEF Advance
  <2>20. CASE RevokeAuthority(o) BY <2>20 DEF RevokeAuthority, Revoked, Fault
  <2>21. CASE Finish(o) BY <2>21 DEF Finish, Enabled
  <2> QED BY <2>1, <2>2, <2>3, <2>4, <2>5, <2>6, <2>7, <2>8, <2>9, <2>10, <2>11, <2>12, <2>13,
       <2>14, <2>15, <2>16, <2>17, <2>18, <2>19, <2>20, <2>21 DEF CallStep
<1>2. ASSUME NEW o \in Calls, Connect(o) PROVE TypeOK'
  <2>1. CallsType' BY <1>2, PartsTyped DEF Connect, Places
  <2> QED BY <1>2, <2>1 DEF Connect, CallsType
<1>3. ASSUME NEW o \in Calls, Reconnect(o) PROVE TypeOK'
  <2>1. CallsType' BY <1>3, PartsTyped DEF Reconnect, Places
  <2> QED BY <1>3, <2>1 DEF Reconnect, CallsType
<1>4. ASSUME NEW o \in Calls, NEW what \in {"replace?", "disconnect?"}, Ask(o, what) PROVE TypeOK'
  <2>1. CallsType' BY <1>4, PartsTyped DEF Ask, Places
  <2> QED BY <1>4, <2>1 DEF Ask, CallsType
<1>5. ASSUME NEW o \in Calls, Refused(o) PROVE TypeOK'
  <2>1. CallsType' BY <1>5, PartsTyped DEF Refused, Places
  <2> QED BY <1>5, <2>1 DEF Refused, CallsType
<1>6. ASSUME NEW o \in Calls, Replace(o) PROVE TypeOK'
  <2>1. CallsType' BY <1>6, PartsTyped DEF Replace, Places, Row
  <2> QED BY <1>6, <2>1 DEF Replace, CallsType, Row
<1>7. ASSUME NEW o \in Calls, Disconnect(o) PROVE TypeOK'
  <2>1. CallsType' BY <1>7, PartsTyped, RowTyped DEF Disconnect, Places
  <2> QED BY <1>7, <2>1, RowTyped DEF Disconnect, CallsType
<1>8. CASE CredentialDies BY <1>8 DEF CredentialDies, Enabled, Fault, callVars
<1>9. CASE Crash
  <2>1. CallsType' BY <1>9 DEF Crash, CallsType, Places, NoRow, Row, Status
  <2> QED BY <1>9, <2>1 DEF Crash, Fault, CallsType
<1>10. CASE UNCHANGED vars BY <1>10 DEF vars, callVars
<1> QED BY <1>1, <1>2, <1>3, <1>4, <1>5, <1>6, <1>7, <1>8, <1>9, <1>10 DEF Next
-----------------------------------------------------------------------------
Others(o) == \A p \in Calls \ {o} : pc'[p] = pc[p] /\ seen'[p] = seen[p] /\ staged'[p] = staged[p]

LEMMA PartsMove ==
  ASSUME TypeOK, NEW o \in Calls
  PROVE /\ Answer(o) => pc'[o] = "idle" /\ seen'[o] = NoRow /\ staged'[o] = 0 /\ Others(o)
        /\ \A place \in Places : GoTo(o, place) =>
             pc'[o] = place /\ seen'[o] = seen[o] /\ staged'[o] = staged[o] /\ Others(o)
        /\ \A place \in Places, r \in Row, c \in Slots : GoOnWith(o, place, r, c) =>
             pc'[o] = place /\ seen'[o] = r /\ staged'[o] = c /\ Others(o)
  BY DEF TypeOK, Answer, GoTo, GoOnWith, Others

\* A step that leaves the row, the vault and the record alone.
LEMMA Quiet ==
  ASSUME Inv, UNCHANGED <<row, vault, lost, again>>
  PROVE /\ Lives /\ RowInv'
        /\ \A c \in Slots : /\ Used(c)' <=> Used(c)
                            /\ Gone(c)' <=> Gone(c)
                            /\ Enabled(c)' <=> Enabled(c)
                            /\ Known(c)' <=> Known(c)
  BY DEF Inv, Lives, RowInv, Used, Gone, Enabled, Known, Referenced

\* A credential that nobody has now works, or it is on record.
StoredOne(c) ==
  /\ vault'[c] = "enabled" /\ again \subseteq again' /\ Fresh(c)
  /\ \A d \in Creds \ {c} : vault'[d] = vault[d]

LEMMA StoredKeeps == ASSUME TypeOK, NEW c \in Creds, Stored(c) PROVE StoredOne(c)
  BY DEF TypeOK, Stored, StoredOne, Fresh

LEMMA ConnectKeeps == ASSUME Inv, TypeOK', NEW o \in Calls, Connect(o) PROVE Kept(o)
<1>1. UNCHANGED <<row, vault, lost, again>> BY DEF Connect, histVars, crossVars
<1>2. StepOf(o) /\ CallInv(o)'
  BY <1>1, Quiet, PartsMove, PartsTyped, SlotFacts DEF Connect, Inv, StepOf, CallInv, Others,
       Places, Carrying, NoRow, Known, Enabled, Used, Gone
<1> QED BY <1>1, <1>2, Quiet DEF Kept

LEMMA ReconnectKeeps == ASSUME Inv, TypeOK', NEW o \in Calls, Reconnect(o) PROVE Kept(o)
<1>1. UNCHANGED <<row, vault, lost, again>> BY DEF Reconnect, histVars, crossVars
<1>2. StepOf(o) /\ CallInv(o)'
  BY <1>1, Quiet, PartsMove, PartsTyped, SlotFacts DEF Reconnect, Inv, StepOf, CallInv, Others,
       Places, Carrying, NoRow, Known, Enabled, Used, Gone
<1> QED BY <1>1, <1>2, Quiet DEF Kept

LEMMA RefusedKeeps == ASSUME Inv, TypeOK', NEW o \in Calls, Refused(o) PROVE Kept(o)
<1>1. UNCHANGED <<row, vault, lost, again>> BY DEF Refused, histVars, crossVars
<1>2. StepOf(o) /\ CallInv(o)'
  BY <1>1, Quiet, PartsMove, PartsTyped, SlotFacts DEF Refused, Inv, StepOf, CallInv, Others,
       Places, Carrying, NoRow, Known, Enabled, Used, Gone
<1> QED BY <1>1, <1>2, Quiet DEF Kept

LEMMA ReplaceKeeps == ASSUME Inv, TypeOK', NEW o \in Calls, Replace(o) PROVE Kept(o)
<1>1. UNCHANGED <<row, vault, lost, again>> BY DEF Replace, histVars, crossVars
<1>2. StepOf(o) /\ CallInv(o)'
  BY <1>1, Quiet, PartsMove, PartsTyped, SlotFacts DEF Replace, Inv, StepOf, CallInv, Others,
       Places, Carrying, NoRow, Known, Enabled, Used, Gone
<1> QED BY <1>1, <1>2, Quiet DEF Kept

LEMMA ActivateKeeps == ASSUME Inv, TypeOK', NEW o \in Calls, Activate(o) PROVE Kept(o)
<1>1. UNCHANGED <<row, vault, lost, again>> BY DEF Activate, histVars, crossVars
<1>2. StepOf(o) /\ CallInv(o)'
  BY <1>1, Quiet, PartsMove, PartsTyped, SlotFacts DEF Activate, Inv, StepOf, CallInv, Others,
       Places, Carrying, NoRow, Known, Enabled, Used, Gone
<1> QED BY <1>1, <1>2, Quiet DEF Kept

LEMMA CannotResolveKeeps == ASSUME Inv, TypeOK', NEW o \in Calls, CannotResolve(o) PROVE Kept(o)
<1>1. UNCHANGED <<row, vault, lost, again>> BY DEF CannotResolve, histVars, crossVars
<1>2. StepOf(o) /\ CallInv(o)'
  BY <1>1, Quiet, PartsMove, PartsTyped, SlotFacts DEF CannotResolve, Inv, StepOf, CallInv,
       Others, Places, Carrying, NoRow, Known, Enabled, Used, Gone
<1> QED BY <1>1, <1>2, Quiet DEF Kept

LEMMA ReloadKeeps == ASSUME Inv, TypeOK', NEW o \in Calls, Reload(o) PROVE Kept(o)
<1>1. UNCHANGED <<row, vault, lost, again>> BY DEF Reload, histVars, crossVars
<1>2. StepOf(o) /\ CallInv(o)'
  BY <1>1, Quiet, PartsMove, PartsTyped, SlotFacts DEF Reload, Inv, StepOf, CallInv, Others,
       Places, Carrying, NoRow, Known, Enabled, Used, Gone
<1> QED BY <1>1, <1>2, Quiet DEF Kept

LEMMA ReloadFailsKeeps == ASSUME Inv, TypeOK', NEW o \in Calls, ReloadFails(o) PROVE Kept(o)
<1>1. UNCHANGED <<row, vault, lost, again>> BY DEF ReloadFails, histVars, crossVars
<1>2. StepOf(o) /\ CallInv(o)'
  BY <1>1, Quiet, PartsMove, PartsTyped, SlotFacts DEF ReloadFails, Inv, StepOf, CallInv, Others,
       Places, Carrying, NoRow, Known, Enabled, Used, Gone
<1> QED BY <1>1, <1>2, Quiet DEF Kept

LEMMA ClearBoundaryKeeps == ASSUME Inv, TypeOK', NEW o \in Calls, ClearBoundary(o) PROVE Kept(o)
<1>1. UNCHANGED <<row, vault, lost, again>> BY DEF ClearBoundary, histVars, crossVars
<1>2. StepOf(o) /\ CallInv(o)'
  BY <1>1, Quiet, PartsMove, PartsTyped, SlotFacts DEF ClearBoundary, Inv, StepOf, CallInv,
       Others, Places, Carrying, NoRow, Known, Enabled, Used, Gone
<1> QED BY <1>1, <1>2, Quiet DEF Kept

LEMMA AskKeeps ==
  ASSUME Inv, TypeOK', NEW o \in Calls, NEW what \in {"replace?", "disconnect?"}, Ask(o, what)
  PROVE Kept(o)
<1>1. UNCHANGED <<row, vault, lost, again>> BY DEF Ask, histVars, crossVars
<1>2. StepOf(o) /\ CallInv(o)'
  BY <1>1, Quiet, PartsMove, PartsTyped, SlotFacts DEF Ask, Inv, RowInv, StepOf, CallInv, Others,
       Places, Carrying, Known, Enabled, Used, Gone, Referenced
<1> QED BY <1>1, <1>2, Quiet DEF Kept

LEMMA UpsertKeeps == ASSUME Inv, TypeOK', NEW o \in Calls, Upsert(o) PROVE Kept(o)
<1> USE PartsTyped, PartsMove, SlotFacts DEF Inv, histVars, crossVars
<1>1. Lives BY DEF Upsert, TypeOK, CallInv, RowInv, Lives, Known, Referenced, Enabled, Gone, Row
<1>2. RowInv' BY DEF Upsert, TypeOK, CallInv, RowInv, Used, Row
<1>3. StepOf(o)
  BY DEF Upsert, TypeOK, CallInv, RowInv, StepOf, Known, Referenced, Enabled, Gone, Others,
     Places, Carrying, Row
<1>4. CallInv(o)'
  BY DEF Upsert, TypeOK, CallInv, RowInv, Known, Referenced, Enabled, Gone, Used, Others, Places,
     Carrying, NoRow, Row
<1> QED BY <1>1, <1>2, <1>3, <1>4 DEF Kept

LEMMA UnstageKeeps == ASSUME Inv, TypeOK', NEW o \in Calls, Unstage(o) PROVE Kept(o)
<1> USE PartsTyped, PartsMove, SlotFacts DEF Inv, histVars, crossVars
<1>1. Lives
  BY DEF Unstage, Revoked, TypeOK, CallInv, RowInv, Lives, Known, Referenced, Enabled, Gone, Row
<1>2. RowInv' BY DEF Unstage, Revoked, TypeOK, CallInv, RowInv, Used, Row
<1>3. StepOf(o)
  BY DEF Unstage, Revoked, TypeOK, CallInv, RowInv, StepOf, Known, Referenced, Enabled, Gone,
     Others, Places, Carrying, Row
<1>4. CallInv(o)'
  BY DEF Unstage, Revoked, TypeOK, CallInv, RowInv, Known, Referenced, Enabled, Gone, Used,
     Others, Places, Carrying, NoRow, Row
<1> QED BY <1>1, <1>2, <1>3, <1>4 DEF Kept

LEMMA UndoKeeps == ASSUME Inv, TypeOK', NEW o \in Calls, Undo(o) PROVE Kept(o)
<1> USE PartsTyped, PartsMove, SlotFacts DEF Inv, histVars, crossVars
<1>1. Lives
  BY DEF Undo, Revoked, TypeOK, CallInv, RowInv, Lives, Known, Referenced, Enabled, Gone, Row
<1>2. RowInv' BY DEF Undo, Revoked, TypeOK, CallInv, RowInv, Used, Row
<1>3. StepOf(o)
  <2>1. Others(o) /\ pc[o] \notin Carrying BY DEF Undo, Places, Carrying
  <2>2. \A c \in Creds : vault'[c] = "enabled" => vault[c] = "enabled"
    BY DEF Undo, Revoked, TypeOK
  <2> QED BY <1>1, <2>1, <2>2 DEF Lives, StepOf, Others, CallInv, Enabled
<1>4. CallInv(o)'
  BY DEF Undo, Revoked, TypeOK, CallInv, RowInv, Known, Referenced, Enabled, Gone, Used, Others,
     Places, Carrying, NoRow, Row
<1> QED BY <1>1, <1>2, <1>3, <1>4 DEF Kept

LEMMA CommitKeeps == ASSUME Inv, TypeOK', NEW o \in Calls, Commit(o) PROVE Kept(o)
<1> USE PartsTyped, PartsMove, SlotFacts DEF Inv, histVars, crossVars
<1>1. Lives BY DEF Commit, TypeOK, CallInv, RowInv, Lives, Known, Referenced, Enabled, Gone, Row
<1>2. RowInv' BY DEF Commit, TypeOK, CallInv, RowInv, Used, Row
<1>3. StepOf(o)
  <2>1. UNCHANGED <<vault, again>> /\ Others(o) /\ pc[o] \notin Carrying
    BY DEF Commit, Places, Carrying, TypeOK
  <2> QED BY <1>1, <2>1 DEF Lives, StepOf, Others, CallInv, Enabled
<1>4. CallInv(o)'
  BY DEF Commit, TypeOK, CallInv, RowInv, Known, Referenced, Enabled, Gone, Used, Others, Places,
     Carrying, NoRow, Row
<1> QED BY <1>1, <1>2, <1>3, <1>4 DEF Kept

LEMMA RetireKeeps == ASSUME Inv, TypeOK', NEW o \in Calls, Retire(o) PROVE Kept(o)
<1> USE PartsTyped, PartsMove, SlotFacts DEF Inv, histVars, crossVars
<1>1. Lives
  BY DEF Retire, Revoked, TypeOK, CallInv, RowInv, Lives, Known, Referenced, Enabled, Gone, Row
<1>2. RowInv' BY DEF Retire, Revoked, TypeOK, CallInv, RowInv, Used, Row
<1>3. StepOf(o)
  <2>1. Others(o) /\ pc[o] \notin Carrying BY DEF Retire, Places, Carrying
  <2>2. \A c \in Creds : vault'[c] = "enabled" => vault[c] = "enabled"
    BY DEF Retire, Revoked, TypeOK
  <2> QED BY <1>1, <2>1, <2>2 DEF Lives, StepOf, Others, CallInv, Enabled
<1>4. CallInv(o)'
  <2>1. UNCHANGED <<row, lost, again>> /\ seen'[o] \in {seen[o], NoRow} /\ staged'[o] \in {staged[o], 0}
    BY DEF Retire, Places
  <2>2. pc'[o] \in {"idle", "settle"} /\ pc[o] \notin Carrying
    BY DEF Retire, Places, Carrying
  <2>3. pc'[o] = "settle" => seen'[o] = seen[o] /\ Gone(seen[o].retiring)'
    BY DEF Retire, Revoked, TypeOK, Gone, Slots, Row, Places
  <2>4. \A c \in Slots : (Used(c) => Used(c)') /\ (Enabled(c)' => Enabled(c)) /\ (Known(c) => Known(c)')
    BY <2>1 DEF Retire, Revoked, TypeOK, Used, Enabled, Known, Referenced
  <2> QED BY <2>1, <2>2, <2>3, <2>4 DEF CallInv, Carrying, NoRow, Row, Used, Gone, Enabled, Known
<1> QED BY <1>1, <1>2, <1>3, <1>4 DEF Kept

LEMMA RevokeAuthorityKeeps == ASSUME Inv, TypeOK', NEW o \in Calls,
     RevokeAuthority(o) PROVE Kept(o)
<1> USE PartsTyped, PartsMove, SlotFacts DEF Inv, histVars, crossVars
<1>1. Lives
  BY DEF RevokeAuthority, Revoked, TypeOK, CallInv, RowInv, Lives, Known, Referenced, Enabled,
     Gone, Row
<1>2. RowInv' BY DEF RevokeAuthority, Revoked, TypeOK, CallInv, RowInv, Used, Row
<1>3. StepOf(o)
  <2>1. Others(o) /\ pc[o] \notin Carrying BY DEF RevokeAuthority, Places, Carrying
  <2>2. \A c \in Creds : vault'[c] = "enabled" => vault[c] = "enabled"
    BY DEF RevokeAuthority, Revoked, TypeOK
  <2> QED BY <1>1, <2>1, <2>2 DEF Lives, StepOf, Others, CallInv, Enabled
<1>4. CallInv(o)'
  <2>1. UNCHANGED <<row, lost, again>> /\ seen'[o] \in {seen[o], NoRow} /\ staged'[o] \in {staged[o], 0}
    BY DEF RevokeAuthority, Places
  <2>2. pc'[o] \in {"idle", "finish"} /\ pc[o] = "revoke" /\ pc[o] \notin Carrying
    BY DEF RevokeAuthority, Places, Carrying
  <2>3. pc'[o] = "finish" => seen'[o] = seen[o] /\ Gone(seen[o].cred)'
    BY DEF RevokeAuthority, Revoked, TypeOK, Gone, Slots, Row, Places
  <2>4. \A c \in Slots : (Used(c) => Used(c)') /\ (Enabled(c)' => Enabled(c)) /\ (Known(c) => Known(c)')
    BY <2>1 DEF RevokeAuthority, Revoked, TypeOK, Used, Enabled, Known, Referenced
  <2> QED BY <2>1, <2>2, <2>3, <2>4 DEF CallInv, Carrying, NoRow, Row, Used, Gone, Enabled, Known
<1> QED BY <1>1, <1>2, <1>3, <1>4 DEF Kept

LEMMA StoreKeeps == ASSUME Inv, TypeOK', NEW o \in Calls, Store(o) PROVE Kept(o)
<1> USE DEF Inv, histVars, crossVars
<1>1. PICK c \in Creds : Stored(c) /\ GoOnWith(o, "upsert", seen[o], c)
  BY DEF Store
<1>2. /\ UNCHANGED <<row, lost>> /\ pc[o] \notin Carrying
      /\ pc'[o] = "upsert" /\ seen'[o] = seen[o] /\ staged'[o] = c /\ Others(o)
  BY <1>1, PartsTyped, PartsMove, SlotFacts DEF Store, Carrying, Places
<1>3. StoredOne(c)
  BY <1>1, StoredKeeps
<1>4. Lives /\ RowInv' BY <1>2, <1>3 DEF StoredOne, Lives, RowInv, Used, Known, Referenced
<1>5. StepOf(o) BY <1>2, <1>3 DEF StoredOne, StepOf, Others, CallInv, Enabled, Known, Referenced
<1>6. CallInv(o)'
  <2>1. seen[o].pending \in InHand /\ pc[o] \notin {"revoke", "finish"}
    BY DEF InHand, Store
  <2> QED BY <1>2, <1>3, <2>1, PartsTyped, SlotFacts DEF StoredOne, Fresh, CallInv, Carrying, Row,
       Used, Enabled, Known, Referenced
<1> QED BY <1>4, <1>5, <1>6 DEF Kept

LEMMA ProvisionKeeps == ASSUME Inv, TypeOK', NEW o \in Calls, Provision(o) PROVE Kept(o)
<1> USE DEF Inv, histVars, crossVars
<1>1. PICK c \in Creds : Stored(c) /\ GoOnWith(o, "begin", seen[o], c)
  BY DEF Provision
<1>2. /\ UNCHANGED <<row, lost>> /\ pc[o] \notin Carrying
      /\ pc'[o] = "begin" /\ seen'[o] = seen[o] /\ staged'[o] = c /\ Others(o)
  BY <1>1, PartsTyped, PartsMove, SlotFacts DEF Provision, Carrying, Places
<1>3. StoredOne(c)
  BY <1>1, StoredKeeps
<1>4. Lives /\ RowInv' BY <1>2, <1>3 DEF StoredOne, Lives, RowInv, Used, Known, Referenced
<1>5. StepOf(o) BY <1>2, <1>3 DEF StoredOne, StepOf, Others, CallInv, Enabled, Known, Referenced
<1>6. CallInv(o)'
  <2>1. seen[o].pending \in InHand /\ pc[o] \notin {"revoke", "finish"}
    BY DEF InHand, Provision
  <2> QED BY <1>2, <1>3, <2>1, PartsTyped, SlotFacts DEF StoredOne, Fresh, CallInv, Carrying, Row,
       Used, Enabled, Known, Referenced
<1> QED BY <1>4, <1>5, <1>6 DEF Kept

LEMMA StoreFailsKeeps == ASSUME Inv, TypeOK', NEW o \in Calls, StoreFails(o) PROVE Kept(o)
<1> USE DEF Inv
<1>1. /\ UNCHANGED row /\ pc[o] \notin Carrying
      /\ pc'[o] = "idle" /\ seen'[o] = NoRow /\ staged'[o] = 0 /\ Others(o)
  BY PartsMove DEF StoreFails, Carrying
<1>2. CASE UNCHANGED <<vault, lost, again>>
  <2>1. Lives /\ RowInv' BY <1>1, <1>2, Quiet
  <2>2. StepOf(o) BY <1>1, <1>2 DEF StepOf, Others, CallInv, Enabled, Known, Referenced
  <2>3. CallInv(o)' BY <1>1, SlotFacts DEF CallInv, NoRow, Used, Enabled
  <2> QED BY <2>1, <2>2, <2>3 DEF Kept
<1>3. ASSUME NEW c \in Creds, Stored(c), lost' = Record(lost, {c}) PROVE Kept(o)
  <2>1. StoredOne(c) BY <1>3, StoredKeeps
  <2>2. Lives /\ RowInv' BY <1>1, <1>3, <2>1 DEF StoredOne, Lives, RowInv, Used, Known, Referenced
  <2>3. StepOf(o)
    BY <1>1, <1>3, <2>1 DEF StoredOne, StepOf, Others, CallInv, Enabled, Known, Referenced
  <2>4. CallInv(o)' BY <1>1, SlotFacts DEF CallInv, NoRow, Used, Enabled
  <2> QED BY <2>2, <2>3, <2>4 DEF Kept
<1> QED BY <1>2, <1>3 DEF StoreFails, Unanswered

LEMMA ProvisionFailsKeeps == ASSUME Inv, TypeOK', NEW o \in Calls, ProvisionFails(o) PROVE Kept(o)
<1> USE DEF Inv
<1>1. /\ UNCHANGED row /\ pc[o] \notin Carrying
      /\ pc'[o] = "idle" /\ seen'[o] = NoRow /\ staged'[o] = 0 /\ Others(o)
  BY PartsMove DEF ProvisionFails, Carrying
<1>2. CASE UNCHANGED <<vault, lost, again>>
  <2>1. Lives /\ RowInv' BY <1>1, <1>2, Quiet
  <2>2. StepOf(o) BY <1>1, <1>2 DEF StepOf, Others, CallInv, Enabled, Known, Referenced
  <2>3. CallInv(o)' BY <1>1, SlotFacts DEF CallInv, NoRow, Used, Enabled
  <2> QED BY <2>1, <2>2, <2>3 DEF Kept
<1>3. ASSUME NEW c \in Creds, Stored(c), lost' = Record(lost, {c}) PROVE Kept(o)
  <2>1. StoredOne(c) BY <1>3, StoredKeeps
  <2>2. Lives /\ RowInv' BY <1>1, <1>3, <2>1 DEF StoredOne, Lives, RowInv, Used, Known, Referenced
  <2>3. StepOf(o)
    BY <1>1, <1>3, <2>1 DEF StoredOne, StepOf, Others, CallInv, Enabled, Known, Referenced
  <2>4. CallInv(o)' BY <1>1, SlotFacts DEF CallInv, NoRow, Used, Enabled
  <2> QED BY <2>2, <2>3, <2>4 DEF Kept
<1> QED BY <1>2, <1>3 DEF ProvisionFails, Unanswered

LEMMA ReauthorizeKeeps == ASSUME Inv, TypeOK', NEW o \in Calls, Reauthorize(o) PROVE Kept(o)
<1> USE DEF Inv
<1>1. /\ UNCHANGED <<vault, again>> /\ pc[o] \notin Carrying
      /\ pc'[o] = "idle" /\ seen'[o] = NoRow /\ staged'[o] = 0 /\ Others(o)
  BY PartsMove DEF Reauthorize, Carrying, crossVars
<1>2. CallInv(o)' BY <1>1, SlotFacts DEF CallInv, NoRow, Used, Enabled
<1>3. CASE UNCHANGED <<row, lost, again>>
  <2>1. Lives /\ RowInv' BY <1>1, <1>3, Quiet
  <2>2. StepOf(o) BY <1>1, <1>3 DEF StepOf, Others, CallInv, Enabled, Known, Referenced
  <2> QED BY <1>2, <2>1, <2>2 DEF Kept
<1>4. CASE row.status = "active"
  <2>1. row' = [row EXCEPT !.status = "disconnected"] BY <1>4 DEF Reauthorize, Moved
  <2>2. /\ row.status = "active" /\ row'.status = "disconnected"
        /\ row'.cred = row.cred /\ row'.pending = row.pending /\ row'.retiring = row.retiring
    BY <1>4, <2>1 DEF TypeOK, Row
  <2>3. lost \subseteq lost' /\ (Enabled(row.cred) => row.cred \in lost' \cup again)
    BY <1>4 DEF Reauthorize
  <2>4. \A c \in Creds : vault[c] = "enabled" /\ Known(c) => Known(c)'
    BY <1>1, <2>2, <2>3 DEF Known, Referenced, Enabled, RowInv
  <2>5. Lives BY <1>1, <2>4 DEF Lives
  <2>6. RowInv' BY <1>1, <2>2 DEF RowInv, Used
  <2>7. StepOf(o) BY <1>1, <2>4 DEF StepOf, Others, CallInv, Enabled, Known
  <2> QED BY <1>2, <2>5, <2>6, <2>7 DEF Kept
<1> QED BY <1>3, <1>4 DEF Reauthorize, crossVars

LEMMA RollbackKeeps == ASSUME Inv, TypeOK', NEW o \in Calls, Rollback(o) PROVE Kept(o)
<1> USE DEF Inv
<1>1. /\ UNCHANGED <<vault, again>> /\ pc[o] \notin Carrying
      /\ pc'[o] = "idle" /\ seen'[o] = NoRow /\ staged'[o] = 0 /\ Others(o)
  BY PartsMove DEF Rollback, Carrying, crossVars
<1>2. CallInv(o)' BY <1>1, SlotFacts DEF CallInv, NoRow, Used, Enabled
<1>3. CASE UNCHANGED <<row, lost, again>>
  <2>1. Lives /\ RowInv' BY <1>1, <1>3, Quiet
  <2>2. StepOf(o) BY <1>1, <1>3 DEF StepOf, Others, CallInv, Enabled, Known, Referenced
  <2> QED BY <1>2, <2>1, <2>2 DEF Kept
<1>4. CASE Holds(o, "replacing")
  <2>1. row' = [row EXCEPT !.status = "active", !.pending = 0] BY <1>4 DEF Rollback
  <2>2. /\ row.status = "replacing" /\ row'.status = "active"
        /\ row'.cred = row.cred /\ row'.pending = 0 /\ row'.retiring = row.retiring
    BY <1>4, <2>1 DEF TypeOK, Row, Holds
  <2>3. lost \subseteq lost' /\ (Enabled(row.pending) => row.pending \in lost' \cup again)
    BY <1>4, SlotFacts DEF Rollback, CallInv, Gone, Enabled
  <2>4. \A c \in Creds : vault[c] = "enabled" /\ Known(c) => Known(c)'
    BY <1>1, <2>2, <2>3 DEF Known, Referenced, Enabled, RowInv
  <2>5. Lives BY <1>1, <2>4 DEF Lives
  <2>6. RowInv' BY <1>1, <2>2 DEF RowInv, Used
  <2>7. StepOf(o) BY <1>1, <2>4 DEF StepOf, Others, CallInv, Enabled, Known
  <2> QED BY <1>2, <2>5, <2>6, <2>7 DEF Kept
<1> QED BY <1>3, <1>4 DEF Rollback, crossVars

LEMMA SettleKeeps == ASSUME Inv, TypeOK', NEW o \in Calls, Settle(o) PROVE Kept(o)
<1> USE DEF Inv
<1>1. /\ UNCHANGED <<vault, again>> /\ pc[o] \notin Carrying
      /\ pc'[o] = "idle" /\ seen'[o] = NoRow /\ staged'[o] = 0 /\ Others(o)
  BY PartsMove DEF Settle, Carrying, crossVars
<1>2. CallInv(o)' BY <1>1, SlotFacts DEF CallInv, NoRow, Used, Enabled
<1>3. CASE UNCHANGED <<row, lost, again>>
  <2>1. Lives /\ RowInv' BY <1>1, <1>3, Quiet
  <2>2. StepOf(o) BY <1>1, <1>3 DEF StepOf, Others, CallInv, Enabled, Known, Referenced
  <2> QED BY <1>2, <2>1, <2>2 DEF Kept
<1>4. CASE row.status = "replace_cleanup_pending"
  <2>1. row' = [row EXCEPT !.status = "active", !.retiring = 0] BY <1>4 DEF Settle
  <2>2. /\ row.status = "replace_cleanup_pending" /\ row'.status = "active"
        /\ row'.cred = row.cred /\ row'.pending = row.pending /\ row'.retiring = 0
    BY <1>4, <2>1 DEF TypeOK, Row
  <2>3. lost \subseteq lost' /\ (Enabled(row.retiring) => row.retiring \in lost' \cup again)
    BY <1>4, SlotFacts DEF Settle, CallInv, Gone, Enabled
  <2>4. \A c \in Creds : vault[c] = "enabled" /\ Known(c) => Known(c)'
    BY <1>1, <2>2, <2>3 DEF Known, Referenced, Enabled, RowInv
  <2>5. Lives BY <1>1, <2>4 DEF Lives
  <2>6. RowInv' BY <1>1, <2>2 DEF RowInv, Used
  <2>7. StepOf(o) BY <1>1, <2>4 DEF StepOf, Others, CallInv, Enabled, Known
  <2> QED BY <1>2, <2>5, <2>6, <2>7 DEF Kept
<1> QED BY <1>3, <1>4 DEF Settle, crossVars

LEMMA FinishKeeps == ASSUME Inv, TypeOK', NEW o \in Calls, Finish(o) PROVE Kept(o)
<1> USE DEF Inv
<1>1. /\ UNCHANGED <<vault, again>> /\ pc[o] \notin Carrying
      /\ pc'[o] = "idle" /\ seen'[o] = NoRow /\ staged'[o] = 0 /\ Others(o)
  BY PartsMove DEF Finish, Carrying, crossVars
<1>2. CallInv(o)' BY <1>1, SlotFacts DEF CallInv, NoRow, Used, Enabled
<1>3. CASE UNCHANGED <<row, lost, again>>
  <2>1. Lives /\ RowInv' BY <1>1, <1>3, Quiet
  <2>2. StepOf(o) BY <1>1, <1>3 DEF StepOf, Others, CallInv, Enabled, Known, Referenced
  <2> QED BY <1>2, <2>1, <2>2 DEF Kept
<1>4. CASE row.status = "disconnecting_authority"
  <2>1. row' = [row EXCEPT !.status = "disconnected"] BY <1>4 DEF Finish, Moved
  <2>2. /\ row.status = "disconnecting_authority" /\ row'.status = "disconnected"
        /\ row'.cred = row.cred /\ row'.pending = row.pending /\ row'.retiring = row.retiring
    BY <1>4, <2>1 DEF TypeOK, Row
  <2>3. lost \subseteq lost' /\ (Enabled(row.cred) => row.cred \in lost' \cup again)
    BY <1>4, SlotFacts DEF Finish, CallInv, Gone, Enabled
  <2>4. \A c \in Creds : vault[c] = "enabled" /\ Known(c) => Known(c)'
    BY <1>1, <2>2, <2>3 DEF Known, Referenced, Enabled, RowInv
  <2>5. Lives BY <1>1, <2>4 DEF Lives
  <2>6. RowInv' BY <1>1, <2>2 DEF RowInv, Used
  <2>7. StepOf(o) BY <1>1, <2>4 DEF StepOf, Others, CallInv, Enabled, Known
  <2> QED BY <1>2, <2>5, <2>6, <2>7 DEF Kept
<1> QED BY <1>3, <1>4 DEF Finish, crossVars

LEMMA BeginKeeps == ASSUME Inv, TypeOK', NEW o \in Calls, Begin(o) PROVE Kept(o)
<1> USE DEF Inv
<1>1. UNCHANGED <<vault, lost, again>> BY DEF Begin, histVars, crossVars
<1>2. CASE UNCHANGED row /\ GoTo(o, "unstage")
  <2>1. pc[o] = "begin" /\ pc'[o] = "unstage" /\ seen'[o] = seen[o] /\ staged'[o] = staged[o] /\ Others(o)
    BY <1>2, PartsMove DEF Begin, Places
  <2>2. Lives /\ RowInv' BY <1>1, <1>2, Quiet
  <2>3. StepOf(o) BY <1>1, <1>2, <2>1 DEF StepOf, Others
  <2>4. CallInv(o)' BY <1>1, <1>2, <2>1 DEF CallInv, Carrying, Used, Enabled, Known, Referenced
  <2> QED BY <2>2, <2>3, <2>4 DEF Kept
<1>3. CASE Holds(o, "active") /\ row' = [row EXCEPT !.status = "replacing", !.pending = staged[o]]
           /\ GoOnWith(o, "activate", row', staged[o])
  <2>1. pc[o] = "begin" /\ pc'[o] = "activate" /\ seen'[o] = row' /\ staged'[o] = staged[o] /\ Others(o)
    BY <1>3, PartsMove, PartsTyped DEF Begin, Places, TypeOK
  <2>2. /\ row.status = "active" /\ row'.status = "replacing"
        /\ row'.cred = row.cred /\ row'.pending = staged[o] /\ row'.retiring = row.retiring
    BY <1>3 DEF Holds, TypeOK, Row
  <2>3. \A c \in Creds : Known(c) => Known(c)'
    BY <1>1, <2>2, SlotFacts DEF Known, Referenced, RowInv
  <2>4. Lives BY <1>1, <2>3 DEF Lives
  <2>5. RowInv' BY <1>1, <2>2, SlotFacts DEF RowInv, CallInv, Used
  <2>6. StepOf(o) BY <1>1, <2>1 DEF StepOf, Others
  <2>7. Known(staged[o])' BY <2>1, <2>2 DEF Known, Referenced
  <2>8. CallInv(o)' BY <1>1, <2>1, <2>2, <2>7 DEF CallInv, Used, Enabled, Known, Referenced
  <2> QED BY <2>4, <2>5, <2>6, <2>8 DEF Kept
<1> QED BY <1>2, <1>3 DEF Begin

LEMMA AdvanceKeeps == ASSUME Inv, TypeOK', NEW o \in Calls, Advance(o) PROVE Kept(o)
<1> USE DEF Inv
<1>1. UNCHANGED <<vault, again>> /\ pc[o] = "advance" /\ pc[o] \notin Carrying
  BY DEF Advance, Carrying, crossVars
<1>2. CASE UNCHANGED <<row, lost, again>> /\ Answer(o)
  <2>1. pc'[o] = "idle" /\ seen'[o] = NoRow /\ staged'[o] = 0 /\ Others(o) BY <1>2, PartsMove
  <2>2. Lives /\ RowInv' BY <1>1, <1>2, Quiet
  <2>3. StepOf(o) BY <1>1, <1>2, <2>1 DEF StepOf, Others, CallInv, Enabled, Known, Referenced
  <2>4. CallInv(o)' BY <2>1, SlotFacts DEF CallInv, NoRow, Used, Enabled
  <2> QED BY <2>2, <2>3, <2>4 DEF Kept
<1>3. CASE /\ row.status = "disconnecting_boundary" /\ row' = [row EXCEPT !.status = "disconnecting_authority"]
           /\ GoOnWith(o, "revoke", row', 0) /\ lost \subseteq lost'
  <2>1. pc'[o] = "revoke" /\ seen'[o] = row' /\ staged'[o] = 0 /\ Others(o)
    BY <1>3, PartsMove, SlotFacts DEF Places, TypeOK
  <2>2. /\ row'.status = "disconnecting_authority"
        /\ row'.cred = row.cred /\ row'.pending = row.pending /\ row'.retiring = row.retiring
    BY <1>3 DEF TypeOK, Row
  <2>3. \A c \in Creds : Known(c) => Known(c)'
    BY <1>1, <1>3, <2>2 DEF Known, Referenced
  <2>4. Lives BY <1>1, <2>3 DEF Lives
  <2>5. RowInv' BY <1>1, <1>3, <2>2 DEF RowInv, Used
  <2>6. StepOf(o) BY <1>1, <2>1, <2>3 DEF StepOf, Others, CallInv, Enabled
  <2>7. CallInv(o)'
    BY <1>1, <2>1, <2>2, <2>5, SlotFacts DEF CallInv, RowInv, Used, Enabled, Known, Referenced
  <2> QED BY <2>4, <2>5, <2>6, <2>7 DEF Kept
<1> QED BY <1>2, <1>3 DEF Advance, Moved, crossVars

LEMMA DisconnectKeeps == ASSUME Inv, TypeOK', NEW o \in Calls, Disconnect(o) PROVE Kept(o)
<1> USE DEF Inv
<1>1. UNCHANGED <<vault, lost, again>> /\ pc[o] = "disconnect?" /\ pc[o] \notin Carrying
  BY DEF Disconnect, histVars, crossVars, Carrying
<1>2. CASE /\ UNCHANGED row
           /\ \/ Answer(o) \/ GoTo(o, "clear")
              \/ GoTo(o, "revoke") /\ seen[o].status = "disconnecting_authority"
  <2>1. /\ pc'[o] \in {"idle", "clear", "revoke"} /\ Others(o)
        /\ pc'[o] = "revoke" => seen'[o].status = "disconnecting_authority"
        /\ (seen'[o] = seen[o] /\ staged'[o] = staged[o]) \/ (seen'[o] = NoRow /\ staged'[o] = 0)
    BY <1>2, PartsMove DEF Places
  <2>2. Lives /\ RowInv' BY <1>1, <1>2, Quiet
  <2>3. StepOf(o) BY <1>1, <1>2, <2>1 DEF StepOf, Others, CallInv, Enabled, Known, Referenced
  <2>4. CallInv(o)'
    BY <1>1, <1>2, <2>1, SlotFacts DEF CallInv, NoRow, Used, Enabled, Known, Referenced
  <2> QED BY <2>2, <2>3, <2>4 DEF Kept
<1>3. CASE /\ row.status = "active"
           /\ row' = [row EXCEPT !.status = "disconnecting_boundary", !.rev = row.rev + 1]
           /\ GoOnWith(o, "clear", row', 0)
  <2>1. pc'[o] = "clear" /\ seen'[o] = row' /\ staged'[o] = 0 /\ Others(o)
    BY <1>3, PartsMove, SlotFacts DEF Places, TypeOK
  <2>2. /\ row'.status = "disconnecting_boundary"
        /\ row'.cred = row.cred /\ row'.pending = row.pending /\ row'.retiring = row.retiring
    BY <1>3 DEF TypeOK, Row
  <2>3. \A c \in Creds : Known(c) => Known(c)'
    BY <1>1, <1>3, <2>2 DEF Known, Referenced
  <2>4. Lives BY <1>1, <2>3 DEF Lives
  <2>5. RowInv' BY <1>1, <1>3, <2>2 DEF RowInv, Used
  <2>6. StepOf(o) BY <1>1, <2>1, <2>3 DEF StepOf, Others, CallInv, Enabled
  <2>7. CallInv(o)'
    BY <1>1, <2>1, <2>2, <2>5, SlotFacts DEF CallInv, RowInv, Used, Enabled, Known, Referenced
  <2> QED BY <2>4, <2>5, <2>6, <2>7 DEF Kept
<1> QED BY <1>2, <1>3 DEF Disconnect, Holds

LEMMA DiesKeeps == ASSUME Inv, TypeOK', CredentialDies PROVE Inv'
<1> USE DEF Inv
<1>1. PICK c \in Creds : vault[c] = "enabled" /\ vault' = [vault EXCEPT ![c] = "dead"]
  BY DEF CredentialDies, Enabled
<1>2. UNCHANGED <<row, pc, seen, staged, lost, again>>
  BY DEF CredentialDies, callVars, histVars, crossVars
<1>3. \A d \in Slots : /\ Used(d) => Used(d)'
                       /\ Gone(d) => Gone(d)'
                       /\ Enabled(d)' => Enabled(d)
                       /\ Known(d) <=> Known(d)'
  BY <1>1, <1>2 DEF TypeOK, Used, Gone, Enabled, Known, Referenced
<1>4. RowInv' BY <1>2, <1>3 DEF RowInv, Used, TypeOK, Row
<1>5. ASSUME NEW o \in Calls PROVE CallInv(o)'
  BY <1>2, <1>3, PartsTyped DEF CallInv, Row, Used, Gone, Enabled, Known
<1>6. NoStrayAuthority' BY <1>2, <1>3, SlotFacts DEF NoStrayAuthority, Enabled, Known, Referenced
<1> QED BY <1>4, <1>5, <1>6

LEMMA CrashKeeps == ASSUME Inv, TypeOK', Crash PROVE Inv'
<1> USE DEF Inv
<1>1. PICK ended \in SUBSET Calls :
        /\ pc' = [o \in Calls |-> IF o \in ended THEN "idle" ELSE pc[o]]
        /\ seen' = [o \in Calls |-> IF o \in ended THEN NoRow ELSE seen[o]]
        /\ staged' = [o \in Calls |-> IF o \in ended THEN 0 ELSE staged[o]]
        /\ lost' = Record(lost, {staged[o] : o \in {p \in ended : pc[p] \in Carrying}})
  BY DEF Crash, Carrying
<1>2. UNCHANGED <<row, vault, again>> BY DEF Crash, crossVars
<1>3. ASSUME NEW o \in ended, NEW c \in Creds, staged[o] = c, Enabled(c) PROVE Known(c)'
  <2>1. CASE pc[o] \in Carrying
    <3>1. c \in lost' \cup again BY <1>1, <1>3, <2>1
    <3> QED BY <1>2, <3>1 DEF Known
  <2>2. CASE pc[o] \notin Carrying BY <1>1, <1>2, <1>3, <2>2 DEF CallInv, Known, Referenced
  <2> QED BY <2>1, <2>2
<1>4. RowInv' BY <1>2 DEF RowInv, Used
<1>5. \A c \in Slots : (Used(c) => Used(c)') /\ (Gone(c) => Gone(c)')
                       /\ (Enabled(c) <=> Enabled(c)') /\ (Known(c) => Known(c)')
  BY <1>1, <1>2 DEF Used, Gone, Enabled, Known, Referenced
<1>6. ASSUME NEW o \in Calls PROVE CallInv(o)'
  <2>1. CASE o \in ended BY <1>1, <2>1, SlotFacts DEF CallInv, NoRow, Used, Enabled
  <2>2. CASE o \notin ended
    <3>1. pc'[o] = pc[o] /\ seen'[o] = seen[o] /\ staged'[o] = staged[o] BY <1>1, <2>2
    <3> QED BY <1>5, <3>1, PartsTyped DEF CallInv, Row, Used, Gone, Enabled, Known
  <2> QED BY <2>1, <2>2
<1>7. ASSUME NEW c \in Creds, Enabled(c)' PROVE c \in (Referenced \cup lost \cup again \cup {staged[o] : o \in Calls})'
  <2>1. Enabled(c) BY <1>2, <1>7 DEF Enabled
  <2>2. CASE Known(c) BY <1>5, <2>2, SlotFacts DEF Known
  <2>3. ASSUME NEW o \in Calls, staged[o] = c PROVE c \in (Referenced \cup lost \cup again \cup {staged[p] : p \in Calls})'
    BY <1>1, <1>3, <2>1, <2>3 DEF Known
  <2> QED BY <2>1, <2>2, <2>3 DEF NoStrayAuthority, Known
<1> QED BY <1>4, <1>6, <1>7 DEF NoStrayAuthority
-----------------------------------------------------------------------------
LEMMA InvStep == ASSUME Inv, [Next]_vars PROVE Inv'
<1>1. TypeOK' BY TypeStep DEF Inv
<1>2. ASSUME NEW o \in Calls, CallStep(o) PROVE Kept(o)
  BY <1>1, <1>2, ReauthorizeKeeps, StoreKeeps, StoreFailsKeeps, UpsertKeeps, ProvisionKeeps,
       ProvisionFailsKeeps, BeginKeeps, UnstageKeeps, ActivateKeeps, CannotResolveKeeps,
       ReloadKeeps, ReloadFailsKeeps, UndoKeeps, RollbackKeeps, CommitKeeps, RetireKeeps,
       SettleKeeps, ClearBoundaryKeeps, AdvanceKeeps, RevokeAuthorityKeeps, FinishKeeps
       DEF CallStep
<1>3. ASSUME NEW o \in Calls,
             \/ Connect(o) \/ Reconnect(o) \/ Refused(o) \/ Replace(o) \/ Disconnect(o)
             \/ Ask(o, "replace?") \/ Ask(o, "disconnect?")
      PROVE Kept(o)
  BY <1>1, <1>3, ConnectKeeps, ReconnectKeeps, RefusedKeeps, ReplaceKeeps, DisconnectKeeps,
       AskKeeps
<1>4. CASE CredentialDies BY <1>1, <1>4, DiesKeeps
<1>5. CASE Crash BY <1>1, <1>5, CrashKeeps
<1>6. CASE UNCHANGED vars
  <2>1. UNCHANGED <<row, vault, lost, again, pc, seen, staged>> BY <1>6 DEF vars, callVars, histVars, crossVars
  <2> QED BY <1>1, <2>1 DEF Inv, RowInv, CallInv, NoStrayAuthority, Used, Gone, Enabled, Known,
       Referenced
<1>7. ASSUME NEW o \in Calls, Kept(o) PROVE Inv' BY <1>1, <1>7, KeptIsEnough
<1> QED BY <1>2, <1>3, <1>4, <1>5, <1>6, <1>7 DEF Next

-----------------------------------------------------------------------------
(* Which credential is whose. What is or was the connection's credential   *)
(* is staged again only on record, so a call that goes by an old row       *)
(* revokes nothing else that is in use; what a call has staged is its own, *)
(* or on record as contested or stored again.                              *)

AtSwitch == {"activate", "reload", "reload_bare", "undo", "rollback", "commit"}

Down == {"disconnecting_boundary", "disconnecting_authority", "disconnected"}

\* A row's credentials but the one it is to switch to.
ServedBy(r) ==
  {r.retiring} \cup (IF r.status \in {"none", "disconnected"} THEN {} ELSE {r.cred})

\* The connection's credential, now or in what some call goes by.
Served(c) == c \in ServedBy(row) \/ \E p \in Calls : c \in ServedBy(seen[p])

\* On record: more than one may have it.
Crossed == contested \cup again

RowApart ==
  /\ row.status = "none" <=> row.cred = 0
  /\ row.status = "replacing" => row.pending # 0
  /\ Used(row.cred) /\ Used(row.retiring)
  /\ row.pending # 0 => row.pending \in again \/ ~Served(row.pending)
  /\ row.retiring # 0 => row.retiring \in again \/ row.retiring # row.cred

\* A row that was going down has not come up again with the same credential.
SeenApart(o) ==
  /\ Used(seen[o].cred) /\ Used(seen[o].retiring)
  /\ seen[o].status = "replacing" => seen[o].pending # 0
  /\ seen[o].retiring # 0 => seen[o].retiring \in again \/ seen[o].retiring # row.cred
  /\ seen[o].rev <= row.rev
  /\ seen[o].status \in {"disconnecting_boundary", "disconnecting_authority"}
       /\ seen[o].cred = row.cred => row.status \in Down \/ seen[o].cred \in again

Alone(o) == \A p \in Calls \ {o} : staged[p] # staged[o]

CallApart(o) ==
  /\ pc[o] \in Carrying =>
       /\ staged[o] # 0
       /\ \/ staged[o] \in again
          \/ /\ ~Served(staged[o]) /\ Alone(o)
             /\ row.pending # staged[o] /\ \A p \in Calls : seen[p].pending # staged[o]
  /\ pc[o] \in AtSwitch =>
       staged[o] \in Crossed \/ (staged[o] # 0 /\ ~Served(staged[o]) /\ Alone(o))

Apart == RowApart /\ \A o \in Calls : SeenApart(o) /\ CallApart(o)

\* A step that brings no credential into play: the row keeps the one it has,
\* and may forget the others ...
Calm ==
  /\ row'.cred = row.cred
  /\ row'.retiring \in {row.retiring, 0} /\ row'.pending \in {row.pending, 0}
  /\ row.status = "none" <=> row'.status = "none"
  /\ row.status = "disconnected" => row'.status = "disconnected"
  /\ row'.status = "replacing" => row.status = "replacing" /\ row'.pending = row.pending
  /\ row.status \in Down => row'.status \in Down
  /\ row.rev <= row'.rev
  /\ contested \subseteq contested' /\ again \subseteq again'
  /\ \A c \in Creds : vault[c] # "unused" => vault'[c] # "unused"

\* ... and a call goes on with what it has, or has read the row.
CalmCall(p) ==
  /\ seen'[p] \in {seen[p], NoRow, row, row'}
  /\ staged'[p] \in {staged[p], 0}
  /\ pc'[p] \in Carrying => pc[p] \in Carrying /\ staged'[p] = staged[p]
  /\ pc'[p] \in AtSwitch => pc[p] \in AtSwitch /\ staged'[p] = staged[p]

LEMMA ApartInit == Init => Apart
  BY SlotFacts DEF Init, Apart, RowApart, SeenApart, CallApart, Served, ServedBy, NoRow, Used,
     Carrying, AtSwitch

LEMMA CalmKeeps ==
  ASSUME Inv, Apart, Inv', Calm, \A p \in Calls : CalmCall(p)
  PROVE  Apart'
<1>0. /\ row \in Row /\ row' \in Row
      /\ \A p \in Calls : /\ seen[p] \in Row /\ seen'[p] \in Row
                          /\ staged[p] \in Slots /\ staged'[p] \in Slots
  BY DEF Inv, TypeOK
<1>1. \A c \in Slots : Used(c) => Used(c)'
  BY DEF Calm, Used
<1>2. ASSUME NEW c \in Slots, c # 0, Served(c)' PROVE Served(c)
  BY <1>2 DEF Served, ServedBy, Calm, CalmCall, NoRow
<1>3. RowApart'
  <2>1. (row.status = "none" <=> row.cred = 0)'
    BY DEF Apart, RowApart, Calm
  <2>2. (row.status = "replacing" => row.pending # 0)'
    BY DEF Apart, RowApart, Calm
  <2>3. (Used(row.cred) /\ Used(row.retiring))'
    BY <1>0, <1>1 DEF Apart, RowApart, Calm, Used, Row
  <2>4. (row.pending # 0 => row.pending \in again \/ ~Served(row.pending))'
    BY <1>0, <1>2 DEF Apart, RowApart, Calm, Row
  <2>5. (row.retiring # 0 => row.retiring \in again \/ row.retiring # row.cred)'
    BY DEF Apart, RowApart, Calm
  <2> QED BY <2>1, <2>2, <2>3, <2>4, <2>5 DEF RowApart
<1>4. ASSUME NEW p \in Calls PROVE SeenApart(p)'
  <2>0. SeenApart(p) /\ RowApart BY DEF Apart
  <2>1. CASE seen'[p] = seen[p]
    BY <1>0, <1>1, <2>0, <2>1 DEF SeenApart, Calm, Row
  <2>2. CASE seen'[p] = NoRow
    BY <1>0, <2>2 DEF SeenApart, NoRow, Row, Used
  <2>3. CASE seen'[p] = row
    BY <1>0, <1>1, <2>0, <2>3 DEF SeenApart, RowApart, Calm, Row, Down
  <2>4. CASE seen'[p] = row'
    BY <1>0, <1>3, <2>4 DEF SeenApart, RowApart, Row, Down
  <2> QED BY <2>1, <2>2, <2>3, <2>4 DEF CalmCall
<1>5. ASSUME NEW p \in Calls PROVE CallApart(p)'
  <2>0. CallApart(p) /\ CalmCall(p) BY DEF Apart
  <2>1. CASE staged'[p] = staged[p] /\ pc[p] \in Carrying \cup AtSwitch
    <3>1. staged[p] # 0 /\ Alone(p) => Alone(p)'
      BY <2>1 DEF Alone, CalmCall
    <3>2. \A q \in Calls : seen'[q].pending \in {seen[q].pending, 0, row.pending}
      BY DEF CalmCall, Calm, NoRow
    <3> QED
      BY <1>0, <1>2, <2>0, <2>1, <3>1, <3>2 DEF CallApart, CalmCall, Calm, Crossed, Carrying,
         AtSwitch
  <2>2. CASE ~(staged'[p] = staged[p] /\ pc[p] \in Carrying \cup AtSwitch)
    BY <2>0, <2>2 DEF CallApart, CalmCall
  <2> QED BY <2>1, <2>2
<1> QED BY <1>3, <1>4, <1>5 DEF Apart

\* The same for a step of one call.
LEMMA CalmStep ==
  ASSUME Inv, Apart, Inv', NEW o \in Calls, Others(o), Calm, CalmCall(o)
  PROVE  Apart'
<1>1. ASSUME NEW p \in Calls \ {o} PROVE CalmCall(p)
  BY DEF Apart, CallApart, Others, CalmCall
<1> QED BY <1>1, CalmKeeps

LEMMA CalmVault ==
  ASSUME TypeOK, NEW d \in Slots, Revoked(d)
  PROVE  \A c \in Creds : vault[c] # "unused" => vault'[c] # "unused"
  BY DEF TypeOK, Revoked

\* Steps that leave the row alone.
LEMMA RestApart ==
  ASSUME Inv, Apart, Inv', NEW o \in Calls,
         \/ Connect(o) \/ Reconnect(o) \/ Refused(o)
         \/ Ask(o, "replace?") \/ Ask(o, "disconnect?")
         \/ StoreFails(o) \/ ProvisionFails(o) \/ Unstage(o) \/ Activate(o) \/ CannotResolve(o)
         \/ Reload(o) \/ ReloadFails(o) \/ Undo(o) \/ Retire(o) \/ ClearBoundary(o)
         \/ RevokeAuthority(o)
  PROVE  Apart'
<1> USE DEF histVars, crossVars
<1>0. TypeOK /\ RowInv /\ CallApart(o) /\ seen[o] \in Row /\ staged[o] \in Slots /\ row \in Row
  BY DEF Inv, Apart, TypeOK
<1>1. UNCHANGED <<row, contested>> /\ again \subseteq again'
  BY DEF Connect, Reconnect, Refused, Ask, StoreFails, ProvisionFails, Unanswered, Stored, Unstage,
     Activate, CannotResolve, Reload, ReloadFails, Undo, Retire, ClearBoundary, RevokeAuthority
<1>2. \A c \in Creds : vault[c] # "unused" => vault'[c] # "unused"
  <2>1. CASE Unstage(o) \/ Undo(o) \/ Retire(o) \/ RevokeAuthority(o)
    BY <1>0, <2>1, CalmVault DEF Unstage, Undo, Retire, RevokeAuthority, Row
  <2>2. CASE StoreFails(o) \/ ProvisionFails(o)
    BY <1>0, <2>2, StoredKeeps DEF StoreFails, ProvisionFails, Unanswered, StoredOne
  <2>3. CASE UNCHANGED vault
    BY <2>3
  <2> QED
    BY <2>1, <2>2, <2>3 DEF Connect, Reconnect, Refused, Ask, Activate, CannotResolve, Reload,
       ReloadFails, ClearBoundary
<1>3. Calm
  BY <1>0, <1>1, <1>2 DEF Calm, Row, RowInv
<1>4. Others(o) /\ CalmCall(o)
  <2> USE <1>0, PartsMove, SlotFacts DEF CalmCall, CallApart, Carrying, AtSwitch, Places
  <2>1. CASE Connect(o) BY <2>1 DEF Connect
  <2>2. CASE Reconnect(o) BY <2>2 DEF Reconnect
  <2>3. CASE Refused(o) BY <2>3 DEF Refused
  <2>4. CASE Ask(o, "replace?") BY <2>4 DEF Ask
  <2>5. CASE Ask(o, "disconnect?") BY <2>5 DEF Ask
  <2>6. CASE StoreFails(o) BY <2>6 DEF StoreFails
  <2>7. CASE ProvisionFails(o) BY <2>7 DEF ProvisionFails
  <2>8. CASE Unstage(o) BY <2>8 DEF Unstage
  <2>9. CASE Activate(o) BY <2>9 DEF Activate
  <2>10. CASE CannotResolve(o) BY <2>10 DEF CannotResolve
  <2>11. CASE Reload(o) BY <2>11 DEF Reload
  <2>12. CASE ReloadFails(o) BY <2>12 DEF ReloadFails
  <2>13. CASE Undo(o) BY <2>13 DEF Undo
  <2>14. CASE Retire(o) BY <2>14 DEF Retire
  <2>15. CASE ClearBoundary(o) BY <2>15 DEF ClearBoundary
  <2>16. CASE RevokeAuthority(o) BY <2>16 DEF RevokeAuthority
  <2> QED BY <2>1, <2>2, <2>3, <2>4, <2>5, <2>6, <2>7, <2>8, <2>9, <2>10, <2>11, <2>12, <2>13,
       <2>14, <2>15, <2>16
<1> QED BY <1>3, <1>4, CalmStep

\* Steps that move the row on with the credential it has.
LEMMA MoveApart ==
  ASSUME Inv, Apart, Inv', NEW o \in Calls,
         \/ Reauthorize(o) \/ Rollback(o) \/ Settle(o) \/ Disconnect(o) \/ Advance(o) \/ Finish(o)
  PROVE  Apart'
<1> USE DEF histVars, crossVars
<1>0. /\ TypeOK /\ RowInv /\ CallApart(o) /\ seen[o] \in Row /\ staged[o] \in Slots
      /\ row \in Row /\ row' \in Row
  BY DEF Inv, Apart, TypeOK
<1>1. UNCHANGED <<vault, contested, again>>
  BY DEF Reauthorize, Rollback, Settle, Disconnect, Advance, Finish
<1>2. Calm
  <2>0. CASE UNCHANGED row BY <1>0, <1>1, <2>0 DEF Calm, Row, RowInv
  <2> USE <1>0, <1>1 DEF Calm, Row, RowInv, Down
  <2>1. CASE Reauthorize(o) BY <2>0, <2>1 DEF Reauthorize, Moved
  <2>2. CASE Rollback(o)
    <3>1. CASE /\ row.status = "replacing"
               /\ row' = [row EXCEPT !.status = "active", !.pending = 0]
      <4>1. /\ row'.status = "active" /\ row'.pending = 0
            /\ row'.cred = row.cred /\ row'.retiring = row.retiring /\ row'.rev = row.rev
        BY <3>1 DEF Row
      <4> QED BY <3>1, <4>1
    <3> QED BY <2>0, <2>2, <3>1 DEF Rollback, Holds
  <2>3. CASE Settle(o)
    <3>1. CASE /\ row.status = "replace_cleanup_pending"
               /\ row' = [row EXCEPT !.status = "active", !.retiring = 0]
      <4>1. /\ row'.status = "active" /\ row'.retiring = 0
            /\ row'.cred = row.cred /\ row'.pending = row.pending /\ row'.rev = row.rev
        BY <3>1 DEF Row
      <4> QED BY <3>1, <4>1
    <3> QED BY <2>0, <2>3, <3>1 DEF Settle
  <2>4. CASE Disconnect(o)
    <3>1. CASE /\ row.status = "active"
               /\ row' = [row EXCEPT !.status = "disconnecting_boundary", !.rev = row.rev + 1]
      <4>1. /\ row'.status = "disconnecting_boundary" /\ row'.rev = row.rev + 1
            /\ row'.cred = row.cred /\ row'.pending = row.pending /\ row'.retiring = row.retiring
        BY <3>1 DEF Row
      <4> QED BY <3>1, <4>1
    <3> QED BY <2>0, <2>4, <3>1 DEF Disconnect, Holds
  <2>5. CASE Advance(o) BY <2>0, <2>5 DEF Advance, Moved
  <2>6. CASE Finish(o) BY <2>0, <2>6 DEF Finish, Moved
  <2> QED BY <2>1, <2>2, <2>3, <2>4, <2>5, <2>6
<1>3. Others(o) /\ CalmCall(o)
  <2> USE <1>0, PartsMove, SlotFacts DEF CalmCall, CallApart, Carrying, AtSwitch, Places
  <2>1. CASE Reauthorize(o) BY <2>1 DEF Reauthorize
  <2>2. CASE Rollback(o) BY <2>2 DEF Rollback
  <2>3. CASE Settle(o) BY <2>3 DEF Settle
  <2>4. CASE Disconnect(o) BY <2>4 DEF Disconnect
  <2>5. CASE Advance(o)
    <3>1. row' = [row EXCEPT !.status = "disconnecting_authority"] => row'.status = "disconnecting_authority"
      BY DEF Row
    <3> QED BY <2>5, <3>1 DEF Advance, Moved
  <2>6. CASE Finish(o) BY <2>6 DEF Finish
  <2> QED BY <2>1, <2>2, <2>3, <2>4, <2>5, <2>6
<1> QED BY <1>2, <1>3, CalmStep

\* Deaths, of a credential or of calls.
LEMMA DeathApart == ASSUME Inv, Apart, Inv', CredentialDies \/ Crash PROVE Apart'
<1> USE DEF histVars, crossVars
<1>0. TypeOK /\ RowInv /\ row \in Row
  BY DEF Inv, TypeOK
<1>1. CASE CredentialDies
  <2>1. /\ UNCHANGED <<row, contested, again, pc, seen, staged>>
        /\ \A c \in Creds : vault[c] # "unused" => vault'[c] # "unused"
    BY <1>0, <1>1 DEF CredentialDies, callVars, Enabled, TypeOK
  <2>2. Calm BY <1>0, <2>1 DEF Calm, Row, RowInv
  <2>3. \A p \in Calls : CalmCall(p) BY <2>1 DEF CalmCall, Apart, CallApart
  <2> QED BY <2>2, <2>3, CalmKeeps
<1>2. CASE Crash
  <2>1. UNCHANGED <<row, contested, again, vault>>
    BY <1>2 DEF Crash
  <2>2. Calm BY <1>0, <2>1 DEF Calm, Row, RowInv
  <2>3. \A p \in Calls :
          \/ pc'[p] = pc[p] /\ seen'[p] = seen[p] /\ staged'[p] = staged[p]
          \/ pc'[p] = "idle" /\ seen'[p] = NoRow /\ staged'[p] = 0
    BY <1>2 DEF Crash
  <2>4. \A p \in Calls : CalmCall(p) BY <2>3 DEF CalmCall, Apart, CallApart, Carrying, AtSwitch
  <2> QED BY <2>2, <2>4, CalmKeeps
<1> QED BY <1>1, <1>2

\* A credential the vault has just stored is nobody's yet, or on record.
LEMMA StoredApart ==
  ASSUME Inv, Apart, Inv', NEW o \in Calls, Store(o) \/ Provision(o)
  PROVE  Apart'
<1> USE DEF histVars, crossVars
<1>0. TypeOK /\ row \in Row /\ \A p \in Calls : seen[p] \in Row /\ staged[p] \in Slots
  BY DEF Inv, TypeOK
<1>1. PICK c \in Creds : /\ Stored(c)
                         /\ GoOnWith(o, "upsert", seen[o], c) \/ GoOnWith(o, "begin", seen[o], c)
  BY DEF Store, Provision
<1>2. StoredOne(c) BY <1>0, <1>1, StoredKeeps
<1>3. /\ UNCHANGED <<row, contested>> /\ Others(o)
      /\ seen'[o] = seen[o] /\ staged'[o] = c /\ pc'[o] \in Carrying
  BY <1>0, <1>1, PartsMove, SlotFacts DEF Store, Provision, Places, Carrying
<1>4. again \subseteq again' /\ \A d \in Slots : Used(d) => Used(d)'
  BY <1>2, SlotFacts DEF Used, StoredOne
<1>5. \A d \in Slots : Served(d)' <=> Served(d)
  BY <1>3 DEF Served, Others
<1>6. /\ c # 0 /\ c \in Slots
      /\ \/ c \in again'
         \/ /\ ~Served(c) /\ row.pending # c
            /\ \A p \in Calls : staged[p] # c /\ seen[p].pending # c
  BY <1>2, SlotFacts DEF StoredOne, Fresh, InHand, Referenced, Served, ServedBy
<1>7. RowApart'
  BY <1>0, <1>3, <1>4, <1>5 DEF Apart, RowApart, Row, Used
<1>8. ASSUME NEW p \in Calls PROVE SeenApart(p)'
  <2>1. seen'[p] = seen[p] BY <1>3 DEF Others
  <2> QED BY <1>0, <1>3, <1>4, <2>1 DEF Apart, SeenApart, Row, Used
<1>9. ASSUME NEW p \in Calls PROVE CallApart(p)'
  <2>0. \A q \in Calls : seen'[q] = seen[q] BY <1>3 DEF Others
  <2>1. CASE p = o
    <3>1. staged'[p] = c /\ pc'[p] \in Carrying /\ pc'[p] \notin AtSwitch
      BY <1>3, <2>1 DEF Carrying, AtSwitch
    <3>2. c \in again' \/ Alone(p)' BY <1>3, <1>6, <2>1, <3>1 DEF Alone, Others
    <3> QED BY <1>3, <1>5, <1>6, <2>0, <3>1, <3>2 DEF CallApart
  <2>2. CASE p # o
    <3>1. pc'[p] = pc[p] /\ staged'[p] = staged[p] /\ CallApart(p) BY <1>3, <2>2 DEF Others, Apart
    <3>2. staged[p] \in again' \/ (Alone(p) => Alone(p)') BY <1>3, <1>6, <3>1 DEF Alone, Others
    <3> QED BY <1>0, <1>3, <1>4, <1>5, <2>0, <3>1, <3>2 DEF CallApart, Crossed
  <2> QED BY <2>1, <2>2
<1> QED BY <1>7, <1>8, <1>9 DEF Apart

\* A credential that comes to be served was a call's own: no other call has it.
LEMMA ReplaceApart == ASSUME Inv, Apart, Inv', NEW o \in Calls, Replace(o) PROVE Apart'
<1> USE DEF histVars, crossVars
<1>0. /\ TypeOK /\ RowInv /\ row \in Row
      /\ \A p \in Calls : seen[p] \in Row /\ staged[p] \in Slots
      /\ UNCHANGED <<row, vault, again>> /\ contested \subseteq contested'
  BY DEF Inv, TypeOK, Replace
<1>1. CASE GoTo(o, "provision") \/ GoTo(o, "retire")
  <2>1. Calm BY <1>0 DEF Calm, Row, RowInv
  <2>2. Others(o) /\ CalmCall(o)
    BY <1>0, <1>1, PartsMove DEF CalmCall, Carrying, AtSwitch, Places
  <2> QED BY <2>1, <2>2, CalmStep
<1>2. CASE /\ seen[o].status = "replacing"
           /\ GoOnWith(o, "activate", seen[o], seen[o].pending)
           /\ contested' = Record(contested, {c \in {seen[o].pending} : TakenElsewhere(o, c)})
  <2> DEFINE c == seen[o].pending
  <2>1. c \in Slots /\ c # 0
    BY <1>0, <1>2 DEF Row, Apart, SeenApart
  <2>2. pc'[o] = "activate" /\ seen'[o] = seen[o] /\ staged'[o] = c /\ Others(o)
    BY <1>0, <1>2, <2>1, PartsMove DEF Places
  <2>3. \A q \in Calls : seen'[q] = seen[q] BY <2>2 DEF Others
  <2>4. \A d \in Slots : Served(d)' <=> Served(d) BY <1>0, <2>3 DEF Served
  <2>5. c \notin contested' \cup again => /\ row.pending = c /\ ~Served(c)
                                         /\ \A p \in Calls \ {o} : staged[p] # c
    BY <1>2, <2>1 DEF TakenElsewhere, MovedOn, Apart, RowApart
  <2>6. RowApart'
    BY <1>0, <2>4 DEF Apart, RowApart, Row, Used
  <2>7. ASSUME NEW p \in Calls PROVE SeenApart(p)'
    BY <1>0, <2>3 DEF Apart, SeenApart, Used
  <2>8. ASSUME NEW p \in Calls PROVE CallApart(p)'
    <3>1. CASE p = o
      <4>1. c \notin contested' \cup again => Alone(o)' BY <2>2, <2>5 DEF Alone, Others
      <4> QED
        BY <1>0, <2>1, <2>2, <2>4, <2>5, <3>1, <4>1 DEF CallApart, Crossed, Carrying, AtSwitch
    <3>2. CASE p # o
      <4>1. pc'[p] = pc[p] /\ staged'[p] = staged[p] /\ CallApart(p) BY <2>2, <3>2 DEF Others, Apart
      <4>2. staged[p] # c /\ Alone(p) => Alone(p)' BY <2>2, <3>2, <4>1 DEF Alone, Others
      <4>3. pc[p] \in Carrying => staged[p] # c \/ c \in again BY <4>1 DEF CallApart
      <4>4. staged[p] = c => c \in contested' \cup again BY <2>5, <3>2
      <4> QED BY <1>0, <2>3, <2>4, <4>1, <4>2, <4>3, <4>4 DEF CallApart, Crossed
    <3> QED BY <3>1, <3>2
  <2> QED BY <2>6, <2>7, <2>8 DEF Apart
<1> QED BY <1>1, <1>2 DEF Replace

LEMMA BeginApart == ASSUME Inv, Apart, Inv', NEW o \in Calls, Begin(o) PROVE Apart'
<1> USE DEF histVars, crossVars
<1>0. /\ TypeOK /\ RowInv /\ row \in Row /\ row' \in Row
      /\ \A p \in Calls : seen[p] \in Row /\ staged[p] \in Slots
      /\ UNCHANGED <<vault, contested, again>> /\ pc[o] = "begin"
  BY DEF Inv, TypeOK, Begin
<1>1. CASE UNCHANGED row /\ GoTo(o, "unstage")
  <2>1. Calm BY <1>0, <1>1 DEF Calm, Row, RowInv
  <2>2. Others(o) /\ CalmCall(o)
    BY <1>0, <1>1, PartsMove DEF CalmCall, Carrying, AtSwitch, Places
  <2> QED BY <2>1, <2>2, CalmStep
<1>2. CASE /\ row.status = "active"
           /\ row' = [row EXCEPT !.status = "replacing", !.pending = staged[o]]
           /\ GoOnWith(o, "activate", row', staged[o])
  <2> DEFINE c == staged[o]
  <2>1. /\ c \in Slots /\ c # 0
        /\ \/ c \in again
           \/ /\ ~Served(c) /\ Alone(o)
              /\ row.pending # c /\ \A p \in Calls : seen[p].pending # c
    BY <1>0 DEF Apart, CallApart, Carrying
  <2>2. pc'[o] = "activate" /\ seen'[o] = row' /\ staged'[o] = c /\ Others(o)
    BY <1>0, <1>2, PartsMove DEF Places
  <2>3. /\ row'.status = "replacing" /\ row'.pending = c
        /\ row'.cred = row.cred /\ row'.retiring = row.retiring /\ row'.rev = row.rev
    BY <1>0, <1>2 DEF Row
  <2>4. \A d \in Slots : Served(d)' => Served(d)
    <3>1. ServedBy(row') = ServedBy(row) BY <1>2, <2>3 DEF ServedBy
    <3>2. \A p \in Calls : seen'[p] \in {seen[p], row'} BY <2>2 DEF Others
    <3> HIDE <1>2
    <3> QED BY <3>1, <3>2 DEF Served
  <2>5. RowApart'
    BY <1>0, <1>2, <2>1, <2>3, <2>4 DEF Apart, RowApart, Row, Used
  <2>6. ASSUME NEW p \in Calls PROVE SeenApart(p)'
    <3>1. CASE p = o
      BY <1>0, <2>1, <2>2, <2>3, <2>5, <3>1 DEF SeenApart, RowApart, Used, Row
    <3>2. CASE p # o
      <4>1. seen'[p] = seen[p] /\ SeenApart(p) BY <2>2, <3>2 DEF Others, Apart
      <4> QED BY <1>0, <1>2, <2>3, <4>1 DEF SeenApart, Used, Down
    <3> QED BY <3>1, <3>2
  <2>7. ASSUME NEW p \in Calls PROVE CallApart(p)'
    <3>0. Alone(p) => Alone(p)'
      <4>1. \A q \in Calls : staged'[q] = staged[q] BY <2>2 DEF Others
      <4> QED BY <4>1 DEF Alone
    <3>1. CASE p = o
      BY <1>0, <2>1, <2>2, <2>4, <3>0, <3>1 DEF CallApart, Crossed, Carrying, AtSwitch
    <3>2. CASE p # o
      <4>1. /\ pc'[p] = pc[p] /\ staged'[p] = staged[p] /\ seen'[p] = seen[p]
            /\ CallApart(p) /\ (staged[p] = c => c \in again)
        BY <2>1, <2>2, <3>2 DEF Others, Apart, Alone
      <4>2. \A q \in Calls : seen'[q].pending \in {seen[q].pending, c}
        BY <2>2, <2>3 DEF Others
      <4> QED BY <1>0, <2>3, <2>4, <3>0, <4>1, <4>2 DEF CallApart, Crossed
    <3> QED BY <3>1, <3>2
  <2> QED BY <2>5, <2>6, <2>7 DEF Apart
<1> QED BY <1>1, <1>2 DEF Begin, Holds

LEMMA UpsertApart == ASSUME Inv, Apart, Inv', NEW o \in Calls, Upsert(o) PROVE Apart'
<1> USE DEF histVars, crossVars
<1>0. /\ TypeOK /\ RowInv /\ row \in Row /\ row' \in Row
      /\ \A p \in Calls : seen[p] \in Row /\ staged[p] \in Slots
      /\ UNCHANGED <<vault, contested, again>> /\ pc[o] = "upsert" /\ CallInv(o)
  BY DEF Inv, TypeOK, Upsert
<1> DEFINE c == staged[o]
<1>1. /\ c \in Slots /\ c # 0 /\ Used(c)
      /\ \/ c \in again
         \/ /\ ~Served(c) /\ Alone(o)
            /\ row.pending # c /\ \A p \in Calls : seen[p].pending # c
  BY <1>0 DEF Apart, CallApart, Carrying, CallInv
<1>2. pc'[o] = "idle" /\ seen'[o] = NoRow /\ staged'[o] = 0 /\ Others(o)
  BY <1>0, PartsMove DEF Upsert
<1>3. /\ row'.status = "active" /\ row'.rev = row.rev + 1 /\ row'.cred = c
      /\ row'.pending = 0 /\ row'.retiring = 0
  BY DEF Upsert
<1>4. \A d \in Slots : Served(d)' => Served(d) \/ d = c \/ d = 0
  BY <1>2, <1>3 DEF Served, ServedBy, Others, NoRow
<1>5. RowApart'
  BY <1>0, <1>1, <1>3 DEF RowApart, Used
<1>6. ASSUME NEW p \in Calls PROVE SeenApart(p)'
  <2>1. CASE p = o
    BY <1>0, <1>1, <1>2, <1>3, <2>1 DEF SeenApart, NoRow, Used, Row
  <2>2. CASE p # o
    <3>1. seen'[p] = seen[p] /\ SeenApart(p) BY <1>2, <2>2 DEF Others, Apart
    <3>2. c \in ServedBy(seen[p]) => c \in again BY <1>1 DEF Served
    <3> QED BY <1>0, <1>3, <3>1, <3>2 DEF SeenApart, ServedBy, Used, Row
  <2> QED BY <2>1, <2>2
<1>7. ASSUME NEW p \in Calls PROVE CallApart(p)'
  <2>1. CASE p = o BY <1>2, <2>1 DEF CallApart, Carrying, AtSwitch
  <2>2. CASE p # o
    <3>1. /\ pc'[p] = pc[p] /\ staged'[p] = staged[p] /\ seen'[p] = seen[p]
          /\ CallApart(p) /\ (staged[p] = c => c \in again)
      BY <1>1, <1>2, <2>2 DEF Others, Apart, Alone
    <3>2. staged[p] # 0 /\ Alone(p) => Alone(p)' BY <1>2, <3>1 DEF Alone, Others
    <3>3. \A q \in Calls : seen'[q].pending \in {seen[q].pending, 0} BY <1>2 DEF Others, NoRow
    <3> QED BY <1>0, <1>3, <1>4, <3>1, <3>2, <3>3 DEF CallApart, Crossed
  <2> QED BY <2>1, <2>2
<1> QED BY <1>5, <1>6, <1>7 DEF Apart

LEMMA CommitApart == ASSUME Inv, Apart, Inv', NEW o \in Calls, Commit(o) PROVE Apart'
<1> USE DEF histVars, crossVars
<1>0. /\ TypeOK /\ RowInv /\ row \in Row /\ row' \in Row
      /\ \A p \in Calls : seen[p] \in Row /\ staged[p] \in Slots
      /\ UNCHANGED <<vault, again>> /\ contested \subseteq contested' /\ pc[o] = "commit"
  BY DEF Inv, TypeOK, Commit
<1>1. CASE UNCHANGED <<row, contested>> /\ Answer(o)
  <2>1. Calm BY <1>0, <1>1 DEF Calm, Row, RowInv
  <2>2. Others(o) /\ CalmCall(o)
    BY <1>0, <1>1, PartsMove DEF CalmCall, Carrying, AtSwitch
  <2> QED BY <2>1, <2>2, CalmStep
<1>2. CASE /\ row.status = "replacing" /\ row.pending # 0
           /\ row' = [status |-> "replace_cleanup_pending", rev |-> row.rev + 1,
                      cred |-> row.pending, pending |-> 0, retiring |-> row.cred]
           /\ GoOnWith(o, "retire", row', 0)
           /\ contested' = Record(contested, {row.pending} \ {staged[o]})
  <2> DEFINE c == row.pending
  <2>1. /\ c \in Slots /\ c # 0 /\ Used(c) /\ row.cred # 0
        /\ c \in again \/ (~Served(c) /\ row.cred # c)
    BY <1>0, <1>2 DEF Apart, RowApart, RowInv, Row, Served, ServedBy
  <2>2. pc'[o] = "retire" /\ seen'[o] = row' /\ staged'[o] = 0 /\ Others(o)
    BY <1>0, <1>2, PartsMove, SlotFacts DEF Places
  <2>3. /\ row'.status = "replace_cleanup_pending" /\ row'.rev = row.rev + 1
        /\ row'.cred = c /\ row'.pending = 0 /\ row'.retiring = row.cred
    BY <1>2
  <2>4. \A d \in Slots : Served(d)' => Served(d) \/ d = c
    BY <1>2, <2>2, <2>3 DEF Served, ServedBy, Others
  <2>5. RowApart'
    BY <1>0, <2>1, <2>3 DEF Apart, RowApart, Used, Row
  <2>6. ASSUME NEW p \in Calls PROVE SeenApart(p)'
    <3>1. CASE p = o
      BY <1>0, <2>2, <2>3, <2>5, <3>1 DEF SeenApart, RowApart, Row, Used
    <3>2. CASE p # o
      <4>1. seen'[p] = seen[p] /\ SeenApart(p) BY <2>2, <3>2 DEF Others, Apart
      <4>2. c \in ServedBy(seen[p]) => c \in again BY <2>1 DEF Served
      <4> QED BY <1>0, <2>3, <4>1, <4>2 DEF SeenApart, ServedBy, Used, Row
    <3> QED BY <3>1, <3>2
  <2>7. ASSUME NEW p \in Calls PROVE CallApart(p)'
    <3>1. CASE p = o BY <2>2, <3>1 DEF CallApart, Carrying, AtSwitch
    <3>2. CASE p # o
      <4>1. pc'[p] = pc[p] /\ staged'[p] = staged[p] /\ seen'[p] = seen[p] /\ CallApart(p)
        BY <2>2, <3>2 DEF Others, Apart
      <4>2. staged[p] # 0 /\ Alone(p) => Alone(p)' BY <2>2, <4>1 DEF Alone, Others
      <4>3. \A q \in Calls : seen'[q].pending \in {seen[q].pending, 0} BY <2>2, <2>3 DEF Others
      <4>4. CASE pc[p] \in AtSwitch /\ staged[p] = c
        <5>1. staged[p] \in contested' \cup again \/ staged[o] = staged[p]
          BY <1>2, <4>4
        <5>2. staged[o] = staged[p] => staged[o] \in Crossed
          BY <1>0, <3>2, <4>1, <4>4 DEF CallApart, Alone
        <5> QED BY <1>0, <1>2, <4>1, <4>4, <5>1, <5>2 DEF CallApart, Crossed, AtSwitch, Carrying
      <4>5. CASE ~(pc[p] \in AtSwitch /\ staged[p] = c)
        <5>1. pc[p] \in Carrying /\ staged[p] = c => c \in again BY <4>1 DEF CallApart
        <5> QED
          BY <1>0, <1>2, <2>3, <2>4, <4>1, <4>2, <4>3, <4>5, <5>1 DEF CallApart, Crossed
      <4> QED BY <4>4, <4>5
    <3> QED BY <3>1, <3>2
  <2> QED BY <2>5, <2>6, <2>7 DEF Apart
<1> QED BY <1>1, <1>2 DEF Commit, Holds

LEMMA ApartStep == ASSUME Inv, Apart, [Next]_vars PROVE Apart'
<1>1. Inv' BY InvStep
<1>2. ASSUME NEW o \in Calls, CallStep(o) PROVE Apart'
  BY <1>1, <1>2, RestApart, MoveApart, StoredApart, BeginApart, UpsertApart, CommitApart DEF CallStep
<1>3. ASSUME NEW o \in Calls,
             \/ Connect(o) \/ Reconnect(o) \/ Refused(o) \/ Replace(o) \/ Disconnect(o)
             \/ Ask(o, "replace?") \/ Ask(o, "disconnect?")
      PROVE Apart'
  BY <1>1, <1>3, RestApart, MoveApart, ReplaceApart
<1>4. CASE CredentialDies \/ Crash BY <1>1, <1>4, DeathApart
<1>5. CASE UNCHANGED vars
  <2>1. UNCHANGED <<row, vault, contested, again, pc, seen, staged>>
    BY <1>5 DEF vars, callVars, histVars, crossVars
  <2>2. Calm BY <2>1 DEF Calm, Inv, TypeOK, Row, RowInv
  <2>3. \A p \in Calls : CalmCall(p) BY <2>1 DEF CalmCall, Apart, CallApart
  <2> QED BY <1>1, <2>2, <2>3, CalmKeeps
<1> QED BY <1>2, <1>3, <1>4, <1>5 DEF Next
-----------------------------------------------------------------------------
(* What is in use is not revoked.                                          *)

Committing == {"reload", "reload_bare", "commit"}

\* What a call is about to put in the row has not been revoked.
Intact(o) ==
  /\ pc[o] \in Carrying => staged[o] \in again \/ vault[staged[o]] # "disabled"
  /\ pc[o] \in Committing => staged[o] \in Crossed \/ vault[staged[o]] # "disabled"

Unharmed == NeverRevokedUnderfoot /\ \A o \in Calls : Intact(o)

InService(s) == s \in {"active", "replacing", "replace_cleanup_pending"}

\* A step of the vault that revokes nothing.
NoneRevoked == \A c \in Creds : vault'[c] = "disabled" => vault[c] = "disabled"

\* A call that has its credential still, or has one that is not revoked.
SoundCall(p) ==
  /\ pc'[p] \in Carrying =>
       vault'[staged'[p]] # "disabled" \/ (pc[p] \in Carrying /\ staged'[p] = staged[p])
  /\ pc'[p] \in Committing =>
       vault'[staged'[p]] # "disabled" \/ (pc[p] \in Committing /\ staged'[p] = staged[p])

LEMMA SoundKeeps ==
  ASSUME Inv, Apart, Unharmed, NoneRevoked, contested \subseteq contested', again \subseteq again',
         row'.cred = row.cred, InService(row'.status) => InService(row.status),
         \A p \in Calls : SoundCall(p)
  PROVE  Unharmed'
<1>0. /\ row.cred \in Slots /\ \A p \in Calls : staged[p] \in Slots
      /\ \A c \in Slots : c # 0 => c \in Creds
  BY DEF Inv, TypeOK, Row, Slots
<1>1. NeverRevokedUnderfoot'
  <2>1. InService(row.status) => row.cred # 0
    BY DEF Apart, RowApart, InService
  <2> QED BY <1>0, <2>1 DEF NeverRevokedUnderfoot, Unharmed, NoneRevoked, InService
<1>2. ASSUME NEW p \in Calls PROVE Intact(p)'
  <2>1. /\ pc[p] \in Carrying => staged[p] \in Creds
        /\ pc[p] \in Committing => staged[p] \in Creds \/ staged[p] \in Crossed
    BY <1>0 DEF Apart, CallApart, AtSwitch, Committing
  <2>2. SoundCall(p) /\ Intact(p) BY DEF Unharmed
  <2> QED BY <2>1, <2>2 DEF Intact, SoundCall, NoneRevoked, Crossed
<1> QED BY <1>1, <1>2 DEF Unharmed

\* A call revokes a credential that is not in use and that no other call is
\* about to put in use, but for those on record.
LEMMA RevokedKeeps ==
  ASSUME Inv, Apart, Unharmed, NEW o \in Calls, NEW d \in Slots, Revoked(d), Others(o),
         UNCHANGED <<row, contested, again>>, pc'[o] \notin Carrying \cup Committing,
         InService(row.status) => d # row.cred \/ d \in Crossed,
         \A p \in Calls \ {o} : /\ pc[p] \in Carrying => staged[p] # d \/ d \in again
                                /\ pc[p] \in AtSwitch => staged[p] # d \/ d \in Crossed
  PROVE  Unharmed'
<1>0. /\ row.cred \in Slots /\ \A p \in Calls : staged[p] \in Slots
      /\ \A c \in Slots : c # d => vault'[c] = vault[c]
  <2>1. vault' = [vault EXCEPT ![d] = "disabled"] BY DEF Revoked
  <2>2. vault \in [Creds -> {"unused", "enabled", "disabled", "dead"}] BY DEF Inv, TypeOK
  <2> QED BY <2>1, <2>2 DEF Inv, TypeOK, Row
<1>1. NeverRevokedUnderfoot'
  BY <1>0 DEF NeverRevokedUnderfoot, Unharmed, InService, Crossed
<1>2. ASSUME NEW p \in Calls PROVE Intact(p)'
  <2>1. CASE p = o BY <2>1 DEF Intact
  <2>2. CASE p # o
    BY <1>0, <2>2 DEF Intact, Unharmed, Others, AtSwitch, Committing, Crossed
  <2> QED BY <2>1, <2>2
<1> QED BY <1>1, <1>2 DEF Unharmed

LEMMA UnharmedInit == Init => Unharmed
  BY DEF Init, Unharmed, NeverRevokedUnderfoot, Intact, NoRow, Carrying, Committing

\* The four steps that revoke.
LEMMA RevokersUnharmed ==
  ASSUME Inv, Apart, Unharmed, NEW o \in Calls,
         Unstage(o) \/ Undo(o) \/ Retire(o) \/ RevokeAuthority(o)
  PROVE  Unharmed'
<1> USE DEF histVars, crossVars
<1>0. /\ TypeOK /\ row \in Row /\ staged[o] \in Slots /\ seen[o] \in Row
      /\ CallApart(o) /\ SeenApart(o) /\ CallInv(o) /\ \A p \in Calls : CallApart(p)
      /\ 0 \notin Creds
  BY SlotFacts DEF Inv, Apart, TypeOK
<1>1. /\ UNCHANGED <<row, contested, again>> /\ Others(o)
      /\ pc'[o] \in {"idle", "rollback", "settle", "finish"}
      /\ pc'[o] \notin Carrying \cup Committing
  BY <1>0, PartsMove DEF Unstage, Undo, Retire, RevokeAuthority, Places, Carrying, Committing
<1>2. CASE UNCHANGED vault
  <2>1. \A p \in Calls : SoundCall(p) BY <1>1, <1>2 DEF SoundCall, Others
  <2> QED BY <1>1, <1>2, <2>1, SoundKeeps DEF NoneRevoked
<1>3. CASE Unstage(o) /\ Revoked(staged[o])
  <2>1. pc[o] \in Carrying BY <1>3 DEF Unstage, Carrying
  <2>2. \/ staged[o] \in again
        \/ /\ InService(row.status) => staged[o] # row.cred
           /\ \A p \in Calls \ {o} : staged[p] # staged[o]
    BY <1>0, <2>1 DEF CallApart, Alone, Served, ServedBy, InService
  <2> QED BY <1>0, <1>1, <1>3, <2>2, RevokedKeeps DEF Crossed
<1>4. CASE Undo(o) /\ Revoked(staged[o])
  <2>1. pc[o] \in AtSwitch BY <1>4 DEF Undo, AtSwitch
  <2>2. \/ staged[o] \in Crossed
        \/ /\ InService(row.status) => staged[o] # row.cred
           /\ \A p \in Calls \ {o} : staged[p] # staged[o]
    BY <1>0, <2>1 DEF CallApart, Alone, Served, ServedBy, InService
  <2>3. \A p \in Calls \ {o} : pc[p] \in Carrying => staged[p] # staged[o] \/ staged[o] \in again
    BY <1>0 DEF CallApart, Alone
  <2> QED BY <1>0, <1>1, <1>4, <2>2, <2>3, RevokedKeeps
<1>5. CASE Retire(o) /\ Revoked(seen[o].retiring)
  <2> DEFINE d == seen[o].retiring
  <2>1. d \in Slots /\ Served(d) /\ (d # 0 => d \in again \/ d # row.cred)
    BY <1>0 DEF Served, ServedBy, SeenApart, Row
  <2>2. \A p \in Calls : /\ pc[p] \in Carrying => staged[p] # d \/ d \in again
                         /\ pc[p] \in AtSwitch => staged[p] # d \/ d \in Crossed
    BY <1>0, <2>1 DEF CallApart
  <2>3. InService(row.status) => d # row.cred \/ d \in Crossed
    BY <1>0, <2>1 DEF Apart, RowApart, InService, Crossed
  <2> QED BY <1>1, <1>5, <2>1, <2>2, <2>3, RevokedKeeps
<1>6. CASE RevokeAuthority(o) /\ Revoked(seen[o].cred)
  <2> DEFINE d == seen[o].cred
  <2>0. seen[o].status = "disconnecting_authority" BY <1>0, <1>6 DEF RevokeAuthority, CallInv
  <2>1. d \in Slots /\ Served(d) BY <1>0, <2>0 DEF Served, ServedBy, Row
  <2>2. \A p \in Calls : /\ pc[p] \in Carrying => staged[p] # d \/ d \in again
                         /\ pc[p] \in AtSwitch => staged[p] # d \/ d \in Crossed
    BY <1>0, <2>1 DEF CallApart
  <2>3. InService(row.status) => d # row.cred \/ d \in Crossed
    BY <1>0, <2>0 DEF SeenApart, InService, Down, Crossed
  <2> QED BY <1>1, <1>6, <2>1, <2>2, <2>3, RevokedKeeps
<1> QED BY <1>2, <1>3, <1>4, <1>5, <1>6 DEF Unstage, Undo, Retire, RevokeAuthority

\* The two steps that bring a credential into use: one of its own, and the
\* pending one, which is its own unless it is contested.
LEMMA SwitchUnharmed ==
  ASSUME Inv, Apart, Unharmed, NEW o \in Calls, Upsert(o) \/ Commit(o)
  PROVE  Unharmed'
<1> USE DEF histVars, crossVars
<1>0. TypeOK /\ row \in Row /\ staged[o] \in Slots /\ UNCHANGED vault
  BY DEF Inv, TypeOK, Upsert, Commit
<1>1. Others(o) /\ pc'[o] \in {"idle", "retire"} /\ pc'[o] \notin Carrying \cup Committing
  <2>1. CASE Upsert(o) BY <1>0, <2>1, PartsMove DEF Upsert, Carrying, Committing
  <2>2. CASE Commit(o) 
    <3>1. \/ Answer(o)
          \/ row' \in Row /\ GoOnWith(o, "retire", row', 0)
      <4>1. row.rev + 1 \in Nat /\ row.pending \in Slots /\ row.cred \in Slots BY <1>0 DEF Row
      <4> QED BY <1>0, <2>2, <4>1, SlotFacts DEF Commit, Row, Status
    <3> QED BY <1>0, <3>1, PartsMove, SlotFacts DEF Carrying, Committing, Places
  <2> QED BY <2>1, <2>2
<1>2. contested \subseteq contested' /\ UNCHANGED again BY DEF Upsert, Commit
<1>3. ASSUME NEW p \in Calls PROVE Intact(p)'
  BY <1>0, <1>1, <1>2 DEF Unharmed, Intact, Others, Crossed
<1>4. NeverRevokedUnderfoot'
  <2>1. CASE Upsert(o)
    <3>1. row'.cred = staged[o] /\ (staged[o] \in again \/ vault[staged[o]] # "disabled")
      BY <2>1 DEF Upsert, Unharmed, Intact, Carrying
    <3> QED BY <1>0, <1>2, <3>1 DEF NeverRevokedUnderfoot
  <2>2. CASE Commit(o) /\ row' = row
    BY <1>0, <1>2, <2>2 DEF NeverRevokedUnderfoot, Unharmed
  <2>3. CASE Commit(o) /\ row'.cred = row.pending /\ row.pending \in contested' \cup again \cup {staged[o]}
    BY <1>0, <1>2, <2>3 DEF Commit, NeverRevokedUnderfoot, Unharmed, Intact, Committing, Crossed
  <2> QED BY <2>1, <2>2, <2>3 DEF Commit
<1> QED BY <1>3, <1>4 DEF Unharmed

\* No other step revokes or brings into use.
LEMMA OthersUnharmed ==
  ASSUME Inv, Apart, Unharmed, Inv', NEW o \in Calls,
         \/ Connect(o) \/ Reconnect(o) \/ Refused(o) \/ Replace(o) \/ Disconnect(o)
         \/ Ask(o, "replace?") \/ Ask(o, "disconnect?")
         \/ Store(o) \/ StoreFails(o) \/ Reauthorize(o) \/ Provision(o) \/ ProvisionFails(o)
         \/ Begin(o) \/ Activate(o) \/ CannotResolve(o) \/ Reload(o) \/ ReloadFails(o)
         \/ Rollback(o) \/ Settle(o) \/ ClearBoundary(o) \/ Advance(o) \/ Finish(o)
  PROVE  Unharmed'
<1> USE DEF histVars, crossVars
<1>0. /\ TypeOK /\ row \in Row /\ seen[o] \in Row /\ staged[o] \in Slots
      /\ row' \in Row /\ pc' \in [Calls -> Places]
      /\ CallApart(o) /\ SeenApart(o)
  BY DEF Inv, TypeOK, Apart
<1>1. contested \subseteq contested' /\ again \subseteq again'
  BY DEF Connect, Reconnect, Refused, Replace, Disconnect, Ask, Store, StoreFails, Reauthorize,
     Provision, ProvisionFails, Unanswered, Stored, Begin, Activate, CannotResolve, Reload, ReloadFails, Rollback,
     Settle, ClearBoundary, Advance, Finish
<1>2. NoneRevoked
  <2>1. CASE Store(o) \/ StoreFails(o) \/ Provision(o) \/ ProvisionFails(o)
    BY <1>0, <2>1 DEF Store, StoreFails, Provision, ProvisionFails, Unanswered, Stored,
       NoneRevoked, TypeOK
  <2>2. CASE UNCHANGED vault BY <2>2 DEF NoneRevoked
  <2> QED
    BY <2>1, <2>2 DEF Connect, Reconnect, Refused, Replace, Disconnect, Ask, Reauthorize,
       Begin, Activate, CannotResolve, Reload, ReloadFails, Rollback, Settle, ClearBoundary,
       Advance, Finish
<1>3. row'.cred = row.cred /\ (InService(row'.status) => InService(row.status))
  <2>1. CASE UNCHANGED row BY <2>1
  <2>2. CASE Reauthorize(o) BY <1>0, <2>1, <2>2 DEF Reauthorize, Moved, InService, Row
  <2>3. CASE Begin(o) BY <1>0, <2>1, <2>3 DEF Begin, Holds, InService, Row
  <2>4. CASE Rollback(o) BY <1>0, <2>1, <2>4 DEF Rollback, Holds, InService, Row
  <2>5. CASE Settle(o) BY <1>0, <2>1, <2>5 DEF Settle, InService, Row
  <2>6. CASE Disconnect(o) BY <1>0, <2>1, <2>6 DEF Disconnect, Holds, InService, Row
  <2>7. CASE Advance(o) BY <1>0, <2>1, <2>7 DEF Advance, Moved, InService, Row
  <2>8. CASE Finish(o) BY <1>0, <2>1, <2>8 DEF Finish, Moved, InService, Row
  <2> QED
    BY <2>1, <2>2, <2>3, <2>4, <2>5, <2>6, <2>7, <2>8 DEF Connect, Reconnect, Refused, Replace,
       Ask, Store, StoreFails, Provision, ProvisionFails, Activate, CannotResolve, Reload,
       ReloadFails, ClearBoundary
<1>4. Others(o) /\ SoundCall(o)
  <2> USE <1>0, PartsMove, SlotFacts DEF SoundCall, Carrying, Committing, Places
  <2>1. CASE Connect(o) BY <2>1 DEF Connect
  <2>2. CASE Reconnect(o) BY <2>2 DEF Reconnect
  <2>3. CASE Refused(o) BY <2>3 DEF Refused
  <2>4. CASE Replace(o) BY <2>4 DEF Replace, Row
  <2>5. CASE Disconnect(o) BY <2>5 DEF Disconnect
  <2>6. CASE Ask(o, "replace?") \/ Ask(o, "disconnect?") BY <2>6 DEF Ask
  <2>7. CASE Store(o) BY <2>7, StoredKeeps DEF Store, StoredOne
  <2>8. CASE Provision(o) BY <2>8, StoredKeeps DEF Provision, StoredOne
  <2>9. CASE StoreFails(o) \/ ProvisionFails(o) BY <2>9 DEF StoreFails, ProvisionFails
  <2>10. CASE Reauthorize(o) BY <2>10 DEF Reauthorize
  <2>11. CASE Begin(o) BY <2>11 DEF Begin
  <2>12. CASE Activate(o)
    <3>1. Others(o) /\ staged'[o] = staged[o] /\ pc'[o] \notin Carrying /\ UNCHANGED vault
      BY <2>12 DEF Activate
    <3>2. vault[staged[o]] = "enabled" BY <2>12 DEF Activate, Enabled
    <3> QED BY <3>1, <3>2
  <2>13. CASE CannotResolve(o) BY <2>13 DEF CannotResolve
  <2>14. CASE Reload(o) BY <2>14 DEF Reload
  <2>15. CASE ReloadFails(o) BY <2>15 DEF ReloadFails
  <2>16. CASE Rollback(o) BY <2>16 DEF Rollback
  <2>17. CASE Settle(o) BY <2>17 DEF Settle
  <2>18. CASE ClearBoundary(o) BY <2>18 DEF ClearBoundary
  <2>19. CASE Advance(o) BY <2>19 DEF Advance
  <2>20. CASE Finish(o) BY <2>20 DEF Finish
  <2> QED BY <2>1, <2>2, <2>3, <2>4, <2>5, <2>6, <2>7, <2>8, <2>9, <2>10, <2>11, <2>12, <2>13,
       <2>14, <2>15, <2>16, <2>17, <2>18, <2>19, <2>20
<1>5. ASSUME NEW p \in Calls \ {o} PROVE SoundCall(p)
  BY <1>4 DEF SoundCall, Others
<1> QED BY <1>1, <1>2, <1>3, <1>4, <1>5, SoundKeeps

LEMMA UnharmedStep == ASSUME Inv, Apart, Unharmed, [Next]_vars PROVE Unharmed'
<1> USE DEF histVars, crossVars
<1>1. Inv' BY InvStep
<1>2. ASSUME NEW o \in Calls, CallStep(o) PROVE Unharmed'
  BY <1>1, <1>2, RevokersUnharmed, SwitchUnharmed, OthersUnharmed DEF CallStep
<1>3. ASSUME NEW o \in Calls,
             \/ Connect(o) \/ Reconnect(o) \/ Refused(o) \/ Replace(o) \/ Disconnect(o)
             \/ Ask(o, "replace?") \/ Ask(o, "disconnect?")
      PROVE Unharmed'
  BY <1>1, <1>3, OthersUnharmed
<1>4. CASE CredentialDies
  <2>1. UNCHANGED <<row, contested, again, pc, staged>> BY <1>4 DEF CredentialDies, callVars
  <2>2. NoneRevoked BY <1>4 DEF CredentialDies, NoneRevoked, Enabled, Inv, TypeOK
  <2>3. \A p \in Calls : SoundCall(p) BY <2>1 DEF SoundCall
  <2> QED BY <2>1, <2>2, <2>3, SoundKeeps
<1>5. CASE Crash
  <2>1. UNCHANGED <<row, contested, again, vault>> BY <1>5 DEF Crash
  <2>2. \A p \in Calls : (pc'[p] = pc[p] /\ staged'[p] = staged[p]) \/ pc'[p] = "idle"
    BY <1>5 DEF Crash
  <2>3. \A p \in Calls : SoundCall(p) BY <2>2 DEF SoundCall, Carrying, Committing
  <2> QED BY <2>1, <2>3, SoundKeeps DEF NoneRevoked
<1>6. CASE UNCHANGED vars
  <2>1. UNCHANGED <<row, contested, again, vault, pc, staged>> BY <1>6 DEF vars, callVars
  <2>2. \A p \in Calls : SoundCall(p) BY <2>1 DEF SoundCall
  <2> QED BY <2>1, <2>2, SoundKeeps DEF NoneRevoked
<1> QED BY <1>2, <1>3, <1>4, <1>5, <1>6 DEF Next
-----------------------------------------------------------------------------
(* What is at the boundary.                                                *)

\* The file does not hold the connection's credential, unless it was put there
\* by calls that crossed.
FileClear ==
  Enabled(file) /\ file = row.cred => file \in lost \cup contested \cup restored \cup again

\* The boundary has nothing of a credential that only a call knows, and stays
\* clear from the step of a disconnect that cleared it.
Boundary ==
  /\ Used(file) /\ Used(backup)
  /\ \A o \in Calls :
       pc[o] \in Carrying => staged[o] \in again \/ staged[o] \notin {file, backup}
  /\ \A o \in Calls :
       pc[o] = "advance" /\ row.status = "disconnecting_boundary" /\ row.rev = seen[o].rev
         => FileClear
  /\ row.status = "disconnecting_authority" => FileClear

LEMMA BoundaryInit == Init => Boundary
  BY DEF Init, Boundary, NoRow, Used, Carrying

\* A step that brings nothing to the boundary.
Passive ==
  /\ file' \in {file, 0, backup} /\ backup' \in {file, backup, 0}
  /\ again \subseteq again'
  /\ \A c \in Creds : vault[c] # "unused" => vault'[c] # "unused"
  /\ \A p \in Calls : pc'[p] \in Carrying =>
       \/ pc[p] \in Carrying /\ staged'[p] = staged[p]
       \/ staged'[p] \in again' \/ staged'[p] \notin {file', backup'}

\* The file stays as it is, and so does what it must not hold.
Steady ==
  /\ UNCHANGED file /\ row'.cred = row.cred
  /\ \A c \in Creds : vault'[c] = "enabled" => vault[c] = "enabled" \/ Fresh(c)
  /\ lost \subseteq lost' /\ contested \subseteq contested' /\ restored \subseteq restored'
  /\ again \subseteq again'

LEMMA SteadyClear ==
  ASSUME Inv, Boundary, Steady, FileClear
  PROVE  FileClear'
<1> SUFFICES ASSUME Enabled(file)', file = row.cred
             PROVE  file \in lost \cup contested \cup restored \cup again'
  BY DEF Steady, FileClear
<1>1. file \in Creds /\ vault'[file] = "enabled" BY DEF Steady, Enabled
<1>2. Enabled(file) \/ file \in again' BY <1>1 DEF Steady, Enabled, Fresh, InHand
<1> QED BY <1>2 DEF FileClear, Steady

\* The calls that are past clearing.
Cleared(p) == pc[p] = "advance" /\ row.status = "disconnecting_boundary" /\ row.rev = seen[p].rev

LEMMA PassiveKeeps ==
  ASSUME Inv, Apart, Boundary, Inv', Passive,
         (\E p \in Calls : Cleared(p)') \/ row'.status = "disconnecting_authority" => FileClear'
  PROVE  Boundary'
<1>1. Used(file)' /\ Used(backup)'
  BY SlotFacts DEF Boundary, Passive, Used
<1>2. ASSUME NEW p \in Calls, pc'[p] \in Carrying
      PROVE  staged'[p] \in again' \/ staged'[p] \notin {file', backup'}
  <2>1. CASE pc[p] \in Carrying /\ staged'[p] = staged[p]
    <3>1. staged[p] # 0 BY <2>1 DEF Apart, CallApart
    <3> QED BY <2>1, <3>1 DEF Boundary, Passive
  <2> QED BY <1>2, <2>1 DEF Passive
<1> QED BY <1>1, <1>2 DEF Boundary, Cleared

\* Steps that leave the row and the file: what was clear is clear.
LEMMA RestBoundary ==
  ASSUME Inv, Apart, Boundary, Inv', Passive, Steady, UNCHANGED row,
         \A p \in Calls : pc'[p] = "advance" => pc[p] = "advance" /\ seen'[p] = seen[p]
  PROVE  Boundary'
<1>1. \A p \in Calls : Cleared(p)' => Cleared(p)
  BY DEF Cleared
<1>2. (\E p \in Calls : Cleared(p)') \/ row'.status = "disconnecting_authority" => FileClear'
  BY <1>1, SteadyClear DEF Boundary, Cleared
<1> QED BY <1>2, PassiveKeeps

\* The steps at the boundary itself.
LEMMA ActivateBoundary ==
  ASSUME Inv, Apart, Boundary, Inv', NEW o \in Calls, Activate(o)
  PROVE  Boundary'
<1> USE DEF histVars, crossVars
<1>0. /\ TypeOK /\ staged[o] \in Slots /\ pc[o] = "activate" /\ Used(staged[o])
      /\ UNCHANGED <<row, vault, lost, contested, restored, again>>
      /\ file' = staged[o] /\ backup' \in {file, backup}
  BY DEF Inv, TypeOK, Activate, CallInv
<1>1. Others(o) /\ pc'[o] \in {"reload", "reload_bare"} /\ seen'[o] = seen[o] /\ staged'[o] = staged[o]
  BY <1>0, PartsMove DEF Activate, Places
<1>2. Used(file)' /\ Used(backup)' BY <1>0 DEF Boundary, Used
<1>3. ASSUME NEW p \in Calls, pc'[p] \in Carrying
      PROVE  staged'[p] \in again' \/ staged'[p] \notin {file', backup'}
  <2>1. p # o /\ pc[p] \in Carrying /\ staged'[p] = staged[p]
    BY <1>1, <1>3 DEF Others, Carrying
  <2>2. staged[p] \in again \/ staged[p] # staged[o] BY <2>1 DEF Apart, CallApart, Alone
  <2> QED BY <1>0, <2>1, <2>2 DEF Boundary
<1>4. row.status \in {"disconnecting_boundary", "disconnecting_authority"} => FileClear'
  BY <1>0 DEF FileClear, Apart, CallApart, AtSwitch, Served, ServedBy, Crossed
<1> QED BY <1>0, <1>2, <1>3, <1>4 DEF Boundary

LEMMA ReloadFailsBoundary ==
  ASSUME Inv, Apart, Boundary, Inv', NEW o \in Calls, ReloadFails(o)
  PROVE  Boundary'
<1>0. TypeOK /\ UNCHANGED <<row, vault, lost, contested, again>> BY DEF Inv, ReloadFails
<1>1. Others(o) /\ pc'[o] = "undo" /\ seen'[o] = seen[o] /\ staged'[o] = staged[o]
  BY <1>0, PartsMove DEF ReloadFails, Places
<1>2. Passive BY <1>0, <1>1 DEF ReloadFails, Passive, Others, Carrying
<1>3. row.status # "replacing" => FileClear'
  <2>1. CASE pc[o] = "reload" /\ file' = backup
    <3>1. ASSUME Enabled(file)', file' = row'.cred, row.status # "replacing"
          PROVE  backup \in restored' \cup again
      BY <1>0, <2>1, <3>1 DEF ReloadFails, MovedOn, Enabled
    <3> QED BY <1>0, <2>1, <3>1 DEF FileClear
  <2>2. CASE file' = 0 BY <2>2, SlotFacts DEF FileClear, Enabled
  <2> QED BY <2>1, <2>2 DEF ReloadFails
<1> QED BY <1>0, <1>2, <1>3, PassiveKeeps DEF Cleared

LEMMA ClearBoundaryBoundary ==
  ASSUME Inv, Apart, Boundary, Inv', NEW o \in Calls, ClearBoundary(o)
  PROVE  Boundary'
<1>0. TypeOK /\ UNCHANGED <<vault, backup, again>> /\ file' = 0
  BY DEF Inv, ClearBoundary, histVars, crossVars
<1>1. Others(o) /\ pc'[o] \in {"idle", "advance"}
  BY <1>0, PartsMove DEF ClearBoundary, Places
<1>2. Passive BY <1>0, <1>1 DEF Passive, Others, Carrying
<1>3. FileClear' BY <1>0, SlotFacts DEF FileClear, Enabled
<1> QED BY <1>2, <1>3, PassiveKeeps

\* Steps that neither touch the boundary nor move the row.
LEMMA IdleBoundary ==
  ASSUME Inv, Apart, Boundary, Inv', NEW o \in Calls, UNCHANGED <<row, file>>,
         \/ Connect(o) \/ Reconnect(o) \/ Refused(o) \/ Replace(o) \/ Disconnect(o)
         \/ Ask(o, "replace?") \/ Ask(o, "disconnect?")
         \/ Store(o) \/ StoreFails(o) \/ Reauthorize(o) \/ Provision(o) \/ ProvisionFails(o)
         \/ Begin(o) \/ Unstage(o) \/ CannotResolve(o) \/ Reload(o) \/ Undo(o) \/ Rollback(o)
         \/ Retire(o) \/ Settle(o) \/ RevokeAuthority(o) \/ Finish(o)
  PROVE  Boundary'
<1> USE DEF histVars, crossVars, edgeVars
<1>0. /\ TypeOK /\ row \in Row /\ seen[o] \in Row /\ staged[o] \in Slots
      /\ row' \in Row /\ pc' \in [Calls -> Places]
  BY DEF Inv, TypeOK
<1>1. /\ lost \subseteq lost' /\ contested \subseteq contested' /\ restored' = restored
      /\ again \subseteq again' /\ backup' \in {backup, 0}
  BY DEF Connect, Reconnect, Refused, Replace, Disconnect, Ask, Store, StoreFails, Reauthorize,
     Provision, ProvisionFails, Begin, Unstage, CannotResolve, Reload, Undo, Rollback, Retire,
     Settle, RevokeAuthority, Finish, Unanswered, Stored
<1>2. \A c \in Creds : /\ vault[c] # "unused" => vault'[c] # "unused"
                       /\ vault'[c] = "enabled" => vault[c] = "enabled" \/ Fresh(c)
  <2>1. CASE Unstage(o) \/ Undo(o) \/ Retire(o) \/ RevokeAuthority(o)
    BY <1>0, <2>1 DEF Unstage, Undo, Retire, RevokeAuthority, Revoked, TypeOK
  <2>2. CASE Store(o) \/ StoreFails(o) \/ Provision(o) \/ ProvisionFails(o)
    BY <1>0, <2>2, StoredKeeps DEF Store, Provision, StoreFails, ProvisionFails, Unanswered,
       StoredOne
  <2>3. CASE UNCHANGED vault BY <2>3
  <2> QED
    BY <2>1, <2>2, <2>3 DEF Connect, Reconnect, Refused, Replace, Disconnect, Ask, Reauthorize,
       Begin, CannotResolve, Reload, Rollback, Settle, Finish
<1>3. /\ Others(o) /\ pc'[o] # "advance"
      /\ pc'[o] \in Carrying =>
           \/ pc[o] \in Carrying /\ staged'[o] = staged[o]
           \/ staged'[o] \in Creds /\ Fresh(staged'[o])
  <2> USE <1>0, PartsMove, SlotFacts DEF Carrying, Places
  <2>1. CASE Connect(o) \/ Reconnect(o) \/ Refused(o) BY <2>1 DEF Connect, Reconnect, Refused
  <2>2. CASE Replace(o) BY <2>2 DEF Replace, Row
  <2>3. CASE Disconnect(o) BY <2>3 DEF Disconnect
  <2>4. CASE Ask(o, "replace?") \/ Ask(o, "disconnect?") BY <2>4 DEF Ask
  <2>5. CASE Store(o) BY <2>5, StoredKeeps DEF Store, StoredOne
  <2>6. CASE Provision(o) BY <2>6, StoredKeeps DEF Provision, StoredOne
  <2>7. CASE StoreFails(o) \/ ProvisionFails(o) BY <2>7 DEF StoreFails, ProvisionFails
  <2>8. CASE Reauthorize(o) BY <2>8 DEF Reauthorize
  <2>9. CASE Begin(o) BY <2>9 DEF Begin
  <2>10. CASE Unstage(o) \/ CannotResolve(o) \/ Reload(o)
    BY <2>10 DEF Unstage, CannotResolve, Reload
  <2>11. CASE Undo(o) \/ Rollback(o) BY <2>11 DEF Undo, Rollback
  <2>12. CASE Retire(o) \/ Settle(o) BY <2>12 DEF Retire, Settle
  <2>13. CASE RevokeAuthority(o) \/ Finish(o) BY <2>13 DEF RevokeAuthority, Finish
  <2> QED BY <2>1, <2>2, <2>3, <2>4, <2>5, <2>6, <2>7, <2>8, <2>9, <2>10, <2>11, <2>12, <2>13
<1>4. Passive
  <2>1. \A c \in Creds : Fresh(c) => c \in again' \/ c \notin {file', backup'}
    BY <1>1, SlotFacts DEF Fresh, InHand
  <2> QED BY <1>1, <1>2, <1>3, <2>1 DEF Passive, Others
<1>5. Steady BY <1>1, <1>2 DEF Steady
<1> QED BY <1>3, <1>4, <1>5, RestBoundary DEF Others

\* Steps that move the row, other than Advance: none leaves it where the
\* boundary has to be clear already.
LEMMA MovedBoundary ==
  ASSUME Inv, Apart, Boundary, Inv', NEW o \in Calls, row' # row,
         \/ Reauthorize(o) \/ Begin(o) \/ Rollback(o) \/ Settle(o) \/ Disconnect(o)
         \/ Finish(o) \/ Upsert(o) \/ Commit(o)
  PROVE  Boundary'
<1> USE DEF edgeVars
<1>0. /\ TypeOK /\ row \in Row /\ seen[o] \in Row /\ staged[o] \in Slots /\ row' \in Row
      /\ \A p \in Calls : seen[p] \in Row
      /\ UNCHANGED <<file, backup, vault, again>>
  BY DEF Inv, TypeOK, crossVars, histVars, Reauthorize, Begin, Rollback, Settle, Disconnect, Finish, Upsert, Commit
<1>1. Others(o) /\ pc'[o] \notin Carrying /\ pc'[o] # "advance"
  <2> USE <1>0, PartsMove, SlotFacts DEF Carrying, Places
  <2>1. CASE Reauthorize(o) BY <2>1 DEF Reauthorize
  <2>2. CASE Begin(o) BY <2>2 DEF Begin
  <2>3. CASE Rollback(o) \/ Settle(o) BY <2>3 DEF Rollback, Settle
  <2>4. CASE Disconnect(o) BY <2>4 DEF Disconnect
  <2>5. CASE Finish(o) \/ Upsert(o) BY <2>5 DEF Finish, Upsert
  <2>6. CASE Commit(o) BY <2>6 DEF Commit
  <2> QED BY <2>1, <2>2, <2>3, <2>4, <2>5, <2>6
<1>2. Passive BY <1>0, <1>1 DEF Passive, Others
<1>3. \/ row'.status \notin {"disconnecting_boundary", "disconnecting_authority"}
      \/ row'.status = "disconnecting_boundary" /\ row'.rev = row.rev + 1
  <2> USE <1>0 DEF Row
  <2>1. CASE Reauthorize(o) BY <2>1 DEF Reauthorize, Moved
  <2>2. CASE Begin(o) BY <2>2 DEF Begin
  <2>3. CASE Rollback(o) \/ Settle(o) BY <2>3 DEF Rollback, Settle
  <2>4. CASE Disconnect(o) BY <2>4 DEF Disconnect
  <2>5. CASE Finish(o) BY <2>5 DEF Finish, Moved
  <2>6. CASE Upsert(o) \/ Commit(o) BY <2>6 DEF Upsert, Commit
  <2> QED BY <2>1, <2>2, <2>3, <2>4, <2>5, <2>6
<1>4. ASSUME NEW p \in Calls PROVE ~Cleared(p)'
  <2>1. CASE p = o BY <1>1, <2>1 DEF Cleared
  <2>2. CASE p # o
    <3>1. seen'[p] = seen[p] /\ seen[p].rev <= row.rev /\ seen[p].rev \in Nat /\ row.rev \in Nat
      BY <1>0, <1>1, <2>2 DEF Others, Apart, SeenApart, Row
    <3> QED BY <1>3, <3>1 DEF Cleared
  <2> QED BY <2>1, <2>2
<1> QED BY <1>2, <1>3, <1>4, PassiveKeeps

\* The one that does: it was cleared for this disconnect, or the record has it.
LEMMA AdvanceBoundary ==
  ASSUME Inv, Apart, Boundary, Inv', NEW o \in Calls, Advance(o)
  PROVE  Boundary'
<1> USE DEF edgeVars, histVars, crossVars
<1>0. /\ TypeOK /\ row \in Row /\ row' \in Row /\ pc[o] = "advance"
      /\ UNCHANGED <<file, backup, vault, contested, restored, again>> /\ lost \subseteq lost'
  BY DEF Inv, TypeOK, Advance
<1>1. Others(o) /\ pc'[o] \in {"idle", "revoke"}
  BY <1>0, PartsMove, SlotFacts DEF Advance, Places
<1>2. Passive BY <1>0, <1>1 DEF Passive, Others, Carrying
<1>3. CASE UNCHANGED row
  <2>1. Steady BY <1>0, <1>3 DEF Steady
  <2> QED BY <1>1, <1>2, <1>3, <2>1, RestBoundary DEF Others
<1>4. CASE row.status = "disconnecting_boundary" /\ Moved("disconnecting_boundary", "disconnecting_authority")
  <2>1. row'.status = "disconnecting_authority" /\ row'.cred = row.cred
    BY <1>0, <1>4 DEF Moved, Row
  <2>2. Steady BY <1>0, <2>1 DEF Steady
  <2>3. CASE row.rev = seen[o].rev
    BY <1>0, <1>2, <1>4, <2>2, <2>1, <2>3, SteadyClear, PassiveKeeps DEF Boundary
  <2>4. CASE row.rev # seen[o].rev
    <3>1. file # 0 => file \in lost' \cup again BY <1>4, <2>4 DEF Advance
    <3>2. FileClear' BY <1>0, <3>1, SlotFacts DEF FileClear, Enabled
    <3> QED BY <1>2, <3>2, PassiveKeeps
  <2> QED BY <2>3, <2>4
<1> QED BY <1>3, <1>4 DEF Advance

LEMMA BoundaryStep == ASSUME Inv, Apart, Boundary, [Next]_vars PROVE Boundary'
<1> USE DEF edgeVars, histVars, crossVars
<1>1. Inv' BY InvStep
<1>2. ASSUME NEW o \in Calls, CallStep(o) PROVE Boundary'
  <2>1. CASE Activate(o) \/ ReloadFails(o) \/ ClearBoundary(o) \/ Advance(o)
    BY <1>1, <2>1, ActivateBoundary, ReloadFailsBoundary, ClearBoundaryBoundary, AdvanceBoundary
  <2>2. CASE \/ Store(o) \/ StoreFails(o) \/ Reauthorize(o) \/ Provision(o) \/ ProvisionFails(o)
             \/ Begin(o) \/ Unstage(o) \/ CannotResolve(o) \/ Reload(o) \/ Undo(o) \/ Rollback(o)
             \/ Retire(o) \/ Settle(o) \/ RevokeAuthority(o) \/ Finish(o)
    <3>1. UNCHANGED file
      BY <2>2 DEF Store, StoreFails, Reauthorize, Provision, ProvisionFails, Begin, Unstage,
         CannotResolve, Reload, Undo, Rollback, Retire, Settle, RevokeAuthority, Finish
    <3>2. CASE UNCHANGED row BY <1>1, <2>2, <3>1, <3>2, IdleBoundary
    <3>3. CASE row' # row
      <4>1. Reauthorize(o) \/ Begin(o) \/ Rollback(o) \/ Settle(o) \/ Finish(o)
        BY <2>2, <3>3 DEF Store, StoreFails, Provision, ProvisionFails, Unstage, CannotResolve,
           Reload, Undo, Retire, RevokeAuthority
      <4> QED BY <1>1, <3>3, <4>1, MovedBoundary
    <3> QED BY <3>2, <3>3
  <2>3. CASE Upsert(o)
    <3>1. row' # row BY <2>3 DEF Upsert, Inv, TypeOK, Row
    <3> QED BY <1>1, <2>3, <3>1, MovedBoundary
  <2>4. CASE Commit(o)
    <3>1. CASE row' # row BY <1>1, <2>4, <3>1, MovedBoundary
    <3>2. CASE row' = row
      <4>1. Answer(o) /\ UNCHANGED <<vault, file, backup, lost, contested, restored, again>>
        BY <2>4, <3>2 DEF Commit, Inv, TypeOK, Row
      <4>2. Others(o) /\ pc'[o] = "idle" BY <4>1, PartsMove DEF Inv
      <4>3. Passive BY <4>1, <4>2 DEF Passive, Others, Carrying
      <4>4. Steady BY <3>2, <4>1 DEF Steady
      <4> QED BY <1>1, <3>2, <4>2, <4>3, <4>4, RestBoundary DEF Others
    <3> QED BY <3>1, <3>2
  <2> QED BY <1>2, <2>1, <2>2, <2>3, <2>4 DEF CallStep
<1>3. ASSUME NEW o \in Calls,
             \/ Connect(o) \/ Reconnect(o) \/ Refused(o) \/ Replace(o) \/ Disconnect(o)
             \/ Ask(o, "replace?") \/ Ask(o, "disconnect?")
      PROVE Boundary'
  <2>1. UNCHANGED file
    BY <1>3 DEF Connect, Reconnect, Refused, Replace, Disconnect, Ask
  <2>2. CASE UNCHANGED row BY <1>1, <1>3, <2>1, <2>2, IdleBoundary
  <2>3. CASE row' # row
    <3>1. Disconnect(o) BY <1>3, <2>3 DEF Connect, Reconnect, Refused, Replace, Ask
    <3> QED BY <1>1, <2>3, <3>1, MovedBoundary
  <2> QED BY <2>2, <2>3
<1>4. CASE CredentialDies
  <2>1. UNCHANGED <<row, file, backup, lost, contested, restored, again, pc, seen, staged>>
    BY <1>4 DEF CredentialDies, callVars
  <2>2. \A c \in Creds : /\ vault[c] # "unused" => vault'[c] # "unused"
                         /\ vault'[c] = "enabled" => vault[c] = "enabled"
    BY <1>4 DEF CredentialDies, Enabled, Inv, TypeOK
  <2>3. Passive /\ Steady BY <2>1, <2>2 DEF Passive, Steady
  <2> QED BY <1>1, <2>1, <2>3, RestBoundary
<1>5. CASE Crash
  <2>1. UNCHANGED <<row, file, backup, vault, contested, restored, again>> /\ lost \subseteq lost'
    BY <1>5 DEF Crash
  <2>2. \A p \in Calls :
          \/ pc'[p] = pc[p] /\ seen'[p] = seen[p] /\ staged'[p] = staged[p]
          \/ pc'[p] = "idle"
    BY <1>5 DEF Crash
  <2>3. Passive /\ Steady BY <2>1, <2>2 DEF Passive, Steady, Carrying
  <2> QED BY <1>1, <2>1, <2>2, <2>3, RestBoundary
<1>6. CASE UNCHANGED vars
  <2>1. UNCHANGED <<row, file, backup, vault, lost, contested, restored, again, pc, seen, staged>>
    BY <1>6 DEF vars, callVars
  <2>2. Passive /\ Steady BY <2>1 DEF Passive, Steady
  <2> QED BY <1>1, <2>1, <2>2, RestBoundary
<1> QED BY <1>2, <1>3, <1>4, <1>5, <1>6 DEF Next

\* A secret that works belongs to a credential someone knows of: the row does,
\* unless it is on record, and then it is not the one at the boundary.
LEMMA BoundaryIsClear == Inv /\ Boundary => DisconnectedIsClear
<1> SUFFICES ASSUME Inv, Boundary, Enabled(file),
                    file \notin lost \cup contested \cup restored \cup again,
                    row.status \in {"disconnecting_authority", "disconnected"}
             PROVE  FALSE
  BY DEF DisconnectedIsClear
<1>1. file \in Creds /\ 0 \notin Creds BY SlotFacts DEF Enabled
<1>2. file \in Referenced
  <2>1. CASE file \in Referenced \cup lost BY <2>1
  <2>2. ASSUME NEW p \in Calls, staged[p] = file PROVE file \in Referenced
    <3>1. pc[p] \notin Carrying BY <2>2 DEF Boundary
    <3> QED BY <2>2, <3>1 DEF Inv, CallInv, Known
  <2> QED BY <1>1, <2>1, <2>2 DEF Inv, NoStrayAuthority
<1>3. row.pending = 0 /\ row.retiring = 0 BY DEF Inv, RowInv
<1>4. row.status = "disconnecting_authority" /\ file = row.cred
  BY <1>1, <1>2, <1>3 DEF Referenced
<1> QED BY <1>4 DEF Boundary, FileClear
-----------------------------------------------------------------------------
\* The variables have their types, whatever the calls, credentials and faults.
THEOREM TypeCorrect == Spec => []TypeOK
<1>1. Init => TypeOK BY InitInv DEF Inv
<1>2. TypeOK /\ [Next]_vars => TypeOK' BY TypeStep
<1> QED BY <1>1, <1>2, PTL DEF Spec

\* What every call, the row, and the record of lost credentials have in common.
THEOREM Invariant == Spec => []Inv
<1> QED BY InitInv, InvStep, PTL DEF Spec

\* Every credential that works can still be revoked: the row or a call names it,
\* or it was let go of where no call can know of it.
THEOREM NoStrayAuthorityHolds == Spec => []NoStrayAuthority
<1>1. Inv => NoStrayAuthority BY DEF Inv
<1> QED BY <1>1, Invariant, PTL

\* Who has which credential, that none in use is revoked, and what is at the
\* boundary: each invariant rests on those before it.
THEOREM CredentialsApart == Spec => [](Apart /\ Unharmed /\ Boundary)
<1>1. Init => Apart /\ Unharmed /\ Boundary BY ApartInit, UnharmedInit, BoundaryInit
<1>2. Inv /\ Apart /\ Unharmed /\ Boundary /\ [Next]_vars => (Apart /\ Unharmed /\ Boundary)'
  BY ApartStep, UnharmedStep, BoundaryStep
<1> QED BY <1>1, <1>2, Invariant, PTL DEF Spec

\* The credential the runtime may use, or would be given back, has not been
\* revoked, unless two calls had it in hand at once, or the vault stored it again
\* while somebody had it.
THEOREM NeverRevokedUnderfootHolds == Spec => []NeverRevokedUnderfoot
<1>1. Unharmed => NeverRevokedUnderfoot BY DEF Unharmed
<1> QED BY <1>1, CredentialsApart, PTL

\* After a disconnect has cleared the boundary no working secret is put back,
\* but for calls that crossed and secrets the vault stored again meanwhile.
THEOREM DisconnectedIsClearHolds == Spec => []DisconnectedIsClear
<1> QED BY BoundaryIsClear, CredentialsApart, Invariant, PTL
=============================================================================
