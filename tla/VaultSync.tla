----------------------------- MODULE VaultSync -----------------------------
(***************************************************************************)
(* One account's vault: the row of vault_blobs and PUT /vault of the relay *)
(* (server/api/handlers/vault.py), the copies the service workers of       *)
(* several extensions keep between unlock and lock                         *)
(* (extension/background/service-worker.js), and the copies their popups   *)
(* edit and save (extension/popup/popup.js).                               *)
(*                                                                         *)
(* A vault is the set of edits that made it: adding, changing or deleting  *)
(* an entry is one edit, and encryption keeps the set.  Every click on     *)
(* Save is a new edit (after a failed save the form adds the entry again). *)
(* A JavaScript function is one action up to its next await; messages and  *)
(* HTTP calls take time, fail, and are answered late.                      *)
(***************************************************************************)
EXTENDS Naturals, Sequences, FiniteSets

CONSTANTS Exts,      \* the extensions unlocked with this account
          Edits,     \* the edits their users make, one SAVE_VAULT each
          Initial,   \* the edits in the vault a phone registers: none on a new account,
                     \* all of the old account's when it restores from a phrase
          MaxUnlocking, \* bound: how many extensions unlock at the same time
          Mishaps,   \* which of the events below may happen
          None       \* no copy

\* unread: retrieve_session cannot read the vault row.  undecrypted: the blob does not
\* decrypt with the key the phone sent.  reload: the popup reloads the vault while it
\* waits for a save.  stop: Chrome stops the idle service worker.
AllMishaps == {"unread", "undecrypted", "reload", "stop"}

ASSUME MishapsAssumption == Mishaps \subseteq AllMishaps
ASSUME UnlockingAssumption == MaxUnlocking \in Nat
ASSUME EditsAreNew == Initial \cap Edits = {}
ASSUME NoneIsNoVault == \A v \in SUBSET (Initial \cup Edits) : v # None

VARIABLES
    log,      \* the vaults the row has held: version v was log[v]
    worker,   \* per extension: is the key set, and _vaultCache
    alarm,    \* per extension: is the auto-lock alarm set
    unlock,   \* per extension: where _retrieveAndDecrypt stands, the row it was sent
    popup,    \* per extension: the view, _vault and _vaultVersion
    save      \* per edit: its SAVE_VAULT request, from the click to the popup's answer

vars == <<log, worker, alarm, unlock, popup, save>>

\* -------------------------------------------------------------------------
\* Types

Vaults == SUBSET (Initial \cup Edits)

Copy == [vault : Vaults, version : Nat]

EmptyVault == [vault |-> {}, version |-> 1]

NotUnlocking == [pc |-> "idle", row |-> EmptyVault]

\* Version 0 stands for undefined, which no PUT can carry.
Popup == [view : {"closed", "locked", "unlocked"}, vault : {None} \cup Vaults, version : Nat]

\* "asked": on its way to the worker.  "sent": past the locked check, being encrypted or on
\* its way to the relay.  "decided": the relay's answer is under way.  "answered": the
\* worker's answer is.  for: who still waits for the outcome.
Results == {"none", "saved", "conflict", "failed", "locked"}

Save == [pc : {"idle", "asked", "sent", "decided", "answered", "done"},
         ext : Exts \cup {None}, vault : Vaults, version : Nat,
         for : {"popup", "worker", "nobody"}, result : Results]

Working == {"asked", "sent", "decided", "answered"}

TypeOK ==
    /\ log \in Seq(Vaults) /\ Len(log) > 0
    /\ worker \in [Exts -> [open : BOOLEAN, cache : {None} \cup Copy]]
    /\ alarm \in [Exts -> BOOLEAN]
    /\ unlock \in [Exts -> [pc : {"idle", "fetched", "unread", "decrypting", "cached"},
                            row : Copy]]
    /\ popup \in [Exts -> Popup]
    /\ save \in [Edits -> Save]

Closed == [open |-> FALSE, cache |-> None]

NoPopup == [view |-> "closed", vault |-> None, version |-> 1]

Init ==
    /\ log = <<Initial>>
    /\ worker = [e \in Exts |-> Closed]
    /\ alarm = [e \in Exts |-> FALSE]
    /\ unlock = [e \in Exts |-> NotUnlocking]
    /\ popup = [e \in Exts |-> NoPopup]
    /\ save = [d \in Edits |-> [pc |-> "idle", ext |-> None, vault |-> {}, version |-> 0,
                                for |-> "popup", result |-> "none"]]

\* -------------------------------------------------------------------------
\* Unlocking: _retrieveAndDecrypt of the worker, retrieve_session of the relay

CurrentCopy == [vault |-> log[Len(log)], version |-> Len(log)]

MayUnlock(e) ==
    /\ unlock[e].pc = "idle"
    /\ Cardinality({x \in Exts : unlock[x].pc # "idle"}) < MaxUnlocking

\* The relay consumed the session and read the row.
RetrieveRow(e) ==
    /\ MayUnlock(e)
    /\ unlock' = [unlock EXCEPT ![e] = [pc |-> "fetched", row |-> CurrentCopy]]
    /\ UNCHANGED <<log, worker, alarm, popup, save>>

\* It failed to read the row, and went on without.
RetrieveNothing(e) ==
    /\ "unread" \in Mishaps
    /\ MayUnlock(e)
    /\ unlock' = [unlock EXCEPT ![e] = [pc |-> "unread", row |-> EmptyVault]]
    /\ UNCHANGED <<log, worker, alarm, popup, save>>

\* setVaultKey, then the blob goes to be decrypted.
SetVaultKey(e) ==
    /\ unlock[e].pc = "fetched"
    /\ worker' = [worker EXCEPT ![e].open = TRUE]
    /\ unlock' = [unlock EXCEPT ![e].pc = "decrypting"]
    /\ UNCHANGED <<log, alarm, popup, save>>

\* setVaultKey; without a blob the cache is an empty vault of version 1 at once.
SetKeyAndEmptyVault(e) ==
    /\ unlock[e].pc = "unread"
    /\ worker' = [worker EXCEPT ![e] = [open |-> TRUE, cache |-> unlock[e].row]]
    /\ unlock' = [unlock EXCEPT ![e].pc = "cached"]
    /\ UNCHANGED <<log, alarm, popup, save>>

\* The blob is decrypted, or fails to be: an empty vault of the row's version.
CachedVaults(row) ==
    {row.vault} \cup (IF "undecrypted" \in Mishaps THEN {{}} ELSE {})

CacheVault(e) ==
    /\ unlock[e].pc = "decrypting"
    /\ \E v \in CachedVaults(unlock[e].row) :
           worker' = [worker EXCEPT ![e].cache = [unlock[e].row EXCEPT !.vault = v]]
    /\ unlock' = [unlock EXCEPT ![e].pc = "cached"]
    /\ UNCHANGED <<log, alarm, popup, save>>

\* GET_STATUS and GET_VAULT as the popup asks for them: locked, or the cached vault;
\* with a key but no cache the error is ignored.
Loaded(e) ==
    IF ~worker[e].open THEN [popup[e] EXCEPT !.view = "locked"]
    ELSE IF worker[e].cache = None THEN [popup[e] EXCEPT !.view = "unlocked"]
    ELSE [view |-> "unlocked", vault |-> worker[e].cache.vault,
          version |-> worker[e].cache.version]

AwaitsAnswer(e) ==
    \E d \in Edits : save[d].ext = e /\ save[d].pc \in Working /\ save[d].for = "popup"

MayReload(e) == "reload" \in Mishaps \/ ~AwaitsAnswer(e)

\* The auto-lock alarm is set, and UNLOCK_COMPLETE makes an open popup load the vault.
UnlockComplete(e) ==
    /\ unlock[e].pc = "cached"
    /\ popup[e].view # "closed" => MayReload(e)
    /\ unlock' = [unlock EXCEPT ![e] = NotUnlocking]
    /\ alarm' = [alarm EXCEPT ![e] = TRUE]
    /\ popup' = [popup EXCEPT ![e] = IF @.view = "closed" THEN @ ELSE Loaded(e)]
    /\ UNCHANGED <<log, worker, save>>

\* -------------------------------------------------------------------------
\* Locking: lockVault clears key and cache, and tells the popup if a key was set.

LockVault(e) ==
    /\ worker' = [worker EXCEPT ![e] = Closed]
    /\ alarm' = [alarm EXCEPT ![e] = FALSE]
    /\ UNCHANGED <<log, unlock, save>>

AutoLock(e) ==
    /\ alarm[e]
    /\ LockVault(e)
    /\ popup' = IF worker[e].open /\ popup[e].view # "closed"
                THEN [popup EXCEPT ![e].view = "locked"] ELSE popup

PressLock(e) ==
    /\ popup[e].view = "unlocked"
    /\ LockVault(e)
    /\ popup' = [popup EXCEPT ![e].view = "locked"]

\* Chrome stops a worker that serves no event: its memory is lost, the alarm stays, and
\* nobody tells the popup.
WorkerStops(e) ==
    /\ "stop" \in Mishaps
    /\ worker[e].open /\ unlock[e].pc = "idle"
    /\ ~\E d \in Edits : save[d].ext = e /\ save[d].pc \in {"sent", "decided"}
    /\ worker' = [worker EXCEPT ![e] = Closed]
    /\ UNCHANGED <<log, alarm, unlock, popup, save>>

\* -------------------------------------------------------------------------
\* The popup

OpenPopup(e) ==
    /\ popup[e].view = "closed"
    /\ popup' = [popup EXCEPT ![e] = Loaded(e)]
    /\ UNCHANGED <<log, worker, alarm, unlock, save>>

\* The retry button of an error view runs init again.
Retry(e) ==
    /\ popup[e].view # "closed" /\ MayReload(e)
    /\ popup' = [popup EXCEPT ![e] = Loaded(e)]
    /\ UNCHANGED <<log, worker, alarm, unlock, save>>

Finished(d, result) ==
    [pc |-> "done", ext |-> save[d].ext, vault |-> {}, for |-> "nobody", result |-> result,
     version |-> IF result = "conflict" THEN save[d].version ELSE 0]

\* The outcome of the saves of e that were waited for is waited for less, or by nobody.
Abandon(e, left, for) ==
    [d \in Edits |->
        IF save[d].ext # e \/ save[d].pc \notin Working \/ save[d].for \notin left THEN save[d]
        ELSE IF save[d].pc = "answered" \/ (save[d].pc # "sent" /\ for = "nobody")
        THEN Finished(d, "failed")
        ELSE [save[d] EXCEPT !.for = for]]

\* The popup closes: what it held is gone, its requests go on in the worker.
ClosePopup(e) ==
    /\ popup[e].view # "closed"
    /\ popup' = [popup EXCEPT ![e] = NoPopup]
    /\ save' = Abandon(e, {"popup"}, "worker")
    /\ UNCHANGED <<log, worker, alarm, unlock>>

\* The browser closes or crashes: a PUT under way may still reach the relay.
CloseBrowser(e) ==
    /\ worker' = [worker EXCEPT ![e] = Closed]
    /\ alarm' = [alarm EXCEPT ![e] = FALSE]
    /\ unlock' = [unlock EXCEPT ![e] = NotUnlocking]
    /\ popup' = [popup EXCEPT ![e] = NoPopup]
    /\ save' = Abandon(e, {"popup", "worker"}, "nobody")
    /\ UNCHANGED log

\* -------------------------------------------------------------------------
\* Saving

\* The popup changes _vault and asks the worker to save it as _vaultVersion's successor.
EditAndSave(e, d) ==
    /\ popup[e].view = "unlocked" /\ popup[e].vault # None
    /\ save[d].pc = "idle"
    /\ popup' = [popup EXCEPT ![e].vault = @ \cup {d}]
    /\ save' = [save EXCEPT ![d] =
           [pc |-> "asked", ext |-> e, vault |-> popup[e].vault \cup {d},
            version |-> popup[e].version, for |-> "popup", result |-> "none"]]
    /\ UNCHANGED <<log, worker, alarm, unlock>>

\* After 5 s the popup stops waiting and says that the save failed.
PopupGivesUp(d) ==
    /\ save[d].pc \in Working /\ save[d].for = "popup"
    /\ save' = [save EXCEPT ![d] = IF @.pc = "answered" THEN Finished(d, "failed")
                                   ELSE [@ EXCEPT !.for = "worker"]]
    /\ UNCHANGED <<log, worker, alarm, unlock, popup>>

\* sendResponse: to the popup, if it still waits.
Answered(d, result) ==
    IF save[d].for = "popup" THEN [save[d] EXCEPT !.pc = "answered", !.result = result]
    ELSE Finished(d, "failed")

\* SAVE_VAULT: locked, or on to the relay's URL, the encryption and the PUT.
WorkerTakes(d) ==
    /\ save[d].pc = "asked"
    /\ save' = [save EXCEPT ![d] = IF worker[save[d].ext].open THEN [@ EXCEPT !.pc = "sent"]
                                   ELSE Answered(d, "locked")]
    /\ UNCHANGED <<log, worker, alarm, unlock, popup>>

\* Faulty variant: WHERE version <= expected.
NoConflict(d) == save[d].version <= Len(log)

\* pg.update_vault: one UPDATE whose WHERE clause compares the version.
NextOfRow(d) == save[d].version = Len(log)

Decided(d, result) ==
    IF save[d].for = "nobody" THEN Finished(d, "failed")
    ELSE [save[d] EXCEPT !.pc = "decided", !.result = result]

UpdateVault(d) ==
    /\ save[d].pc = "sent" /\ save[d].version # 0
    /\ log' = IF NextOfRow(d) THEN Append(log, save[d].vault) ELSE log
    /\ save' = [save EXCEPT ![d] = Decided(d, IF NextOfRow(d) THEN "saved" ELSE "conflict")]
    /\ UNCHANGED <<worker, alarm, unlock, popup>>

\* No PUT is sent, because a lock took key and token since; or it or its answer is lost; or
\* the relay refuses it (token expired, rate limit, size).
PutFails(d) ==
    /\ save[d].pc \in {"sent", "decided"}
    /\ save' = [save EXCEPT ![d] = Answered(d, "failed")]
    /\ UNCHANGED <<log, worker, alarm, unlock, popup>>

\* The worker has the relay's answer; it caches what it saved, locked or not.
WorkerHears(d) ==
    /\ save[d].pc = "decided"
    /\ worker' = IF save[d].result = "saved"
                 THEN [worker EXCEPT ![save[d].ext].cache =
                           [vault |-> save[d].vault, version |-> save[d].version + 1]]
                 ELSE worker
    /\ save' = [save EXCEPT ![d] = Answered(d, save[d].result)]
    /\ UNCHANGED <<log, alarm, unlock, popup>>

\* Faulty variant: a conflict advances the version, too.
VersionAfterConflict(d, old) ==
    CASE save[d].result \in {"saved", "conflict"} -> save[d].version + 1
      [] save[d].result = "locked" -> 0
      [] OTHER -> old

\* The popup has the worker's answer.  A locked answer is no error: _vaultVersion becomes
\* undefined and the entry is shown as saved.
VersionAfter(d, old) ==
    CASE save[d].result = "saved" -> save[d].version + 1
      [] save[d].result = "locked" -> 0
      [] OTHER -> old

PopupHears(d) ==
    /\ save[d].pc = "answered" /\ save[d].for = "popup"
    /\ popup' = [popup EXCEPT ![save[d].ext].version = VersionAfter(d, @)]
    /\ save' = [save EXCEPT ![d] = Finished(d, save[d].result)]
    /\ UNCHANGED <<log, worker, alarm, unlock>>

\* -------------------------------------------------------------------------

ExtensionStep(e) ==
    \/ RetrieveRow(e) \/ RetrieveNothing(e) \/ SetVaultKey(e) \/ SetKeyAndEmptyVault(e)
    \/ CacheVault(e) \/ UnlockComplete(e)
    \/ AutoLock(e) \/ PressLock(e) \/ WorkerStops(e)
    \/ OpenPopup(e) \/ Retry(e) \/ ClosePopup(e) \/ CloseBrowser(e)
    \/ \E d \in Edits : EditAndSave(e, d)

SaveStep(d) ==
    \/ PopupGivesUp(d) \/ WorkerTakes(d) \/ UpdateVault(d) \/ PutFails(d)
    \/ WorkerHears(d) \/ PopupHears(d)

Next == (\E e \in Exts : ExtensionStep(e)) \/ (\E d \in Edits : SaveStep(d))

Spec == Init /\ [][Next]_vars

\* -------------------------------------------------------------------------
\* Properties

\* saveVault returned true: the view shows the edit as saved.  It does so after a locked
\* answer, too, which carries no error (popup.js:853-855).
Confirmed == {d \in Edits : save[d].pc = "done" /\ save[d].result = "saved"}
Misled == {d \in Edits : save[d].pc = "done" /\ save[d].result = "locked"}
Acknowledged == Confirmed \cup Misled

\* The edits that a locked worker refused, as far as their popups may still hear of it.
Refused == {d \in Edits : save[d].pc \in {"answered", "done"} /\ save[d].result = "locked"}

\* Optimistic locking of update_vault and the popups' version bookkeeping: whatever was
\* in the vault at one version is in it at every later version, although the relay never
\* looks into a blob and each save replaces the whole vault.
CommittedEditsSurvive ==
    \A v, w \in DOMAIN log : v <= w => log[v] \subseteq log[w]

\* The worker's cache is a vault the relay held, under the version it had there: the
\* worker pairs vault and version correctly however late an answer comes.
Committed(copy) == copy.version \in DOMAIN log /\ copy.vault = log[copy.version]

CacheIsCommitted ==
    \A e \in Exts : worker[e].cache # None => Committed(worker[e].cache)

\* A popup that would save over version v holds all that version v held.
PopupHoldsItsBase ==
    \A e \in Exts : popup[e].vault # None /\ popup[e].version # 0 =>
        /\ popup[e].version \in DOMAIN log
        /\ log[popup[e].version] \subseteq popup[e].vault

\* The vault as its users see it: what was stored stays, and an edit that a popup takes as
\* saved is stored, unless it is one that a locked worker refused.
Store == INSTANCE EditStore WITH
    stored <- log[Len(log)], refused <- Refused, acknowledged <- Acknowledged

ImplementsEditStore == Store!StoreSpec

\* The inductive invariant behind the three above: what is on its way between relay,
\* worker and popup is a committed vault or grew from one, and a popup that waits for a
\* save still holds all it sent.
RowsAreCommitted ==
    \A e \in Exts :
        unlock[e].pc \in {"fetched", "unread", "decrypting"} => Committed(unlock[e].row)

SaveIsSound(d) ==
    /\ save[d].ext \in Exts /\ d \in save[d].vault
    /\ save[d].pc \in {"asked", "sent"} /\ save[d].version # 0 =>
           save[d].version \in DOMAIN log /\ log[save[d].version] \subseteq save[d].vault
    /\ save[d].pc \in {"decided", "answered"} /\ save[d].result = "saved" =>
           Committed([vault |-> save[d].vault, version |-> save[d].version + 1])
    /\ save[d].for = "popup" =>
           /\ popup[save[d].ext].vault # None
           /\ save[d].vault \subseteq popup[save[d].ext].vault

VaultInv ==
    /\ log[1] = Initial
    /\ CommittedEditsSurvive
    /\ CacheIsCommitted
    /\ RowsAreCommitted
    /\ \A e \in Exts : popup[e].view = "closed" => popup[e].vault = None
    /\ PopupHoldsItsBase
    /\ \A d \in Edits : save[d].pc \in Working => SaveIsSound(d)
    /\ Confirmed \subseteq log[Len(log)]
=============================================================================
