-------------------------- MODULE VaultSyncProofs --------------------------
(***************************************************************************)
(* Proofs about VaultSync for any number of extensions and edits: types,   *)
(* that only a locked worker's answer makes a popup take an edit as saved  *)
(* that the relay never stored, whatever goes wrong,                       *)
(* and that optimistic locking loses no edit as long as the popup does not *)
(* reload while it waits for a save, blobs decrypt, and the empty vault a  *)
(* worker falls back to is what the account began with.                    *)
(***************************************************************************)
EXTENDS VaultSync, TLAPS

\* -------------------------------------------------------------------------
\* Types

\* The initial values have the types of TypeOK.
LEMMA InitTyped == Init => TypeOK
<1>1. EmptyVault \in Copy /\ NoPopup \in Popup
  BY DEF EmptyVault, Copy, Vaults, NoPopup, Popup
<1>2. Init => log \in Seq(Vaults) /\ Len(log) > 0
  BY DEF Init, Vaults
<1>3. Init => save \in [Edits -> Save]
  BY DEF Init, Save, Results, Vaults
<1>4. Init => unlock \in [Exts -> [pc : {"idle", "fetched", "unread", "decrypting", "cached"},
                                   row : Copy]]
  BY <1>1 DEF Init, NotUnlocking
<1>5. Init => worker \in [Exts -> [open : BOOLEAN, cache : {None} \cup Copy]]
  BY DEF Init, Closed
<1> QED
  BY <1>1, <1>2, <1>3, <1>4, <1>5 DEF Init, TypeOK

\* A finished save is a save.
LEMMA FinishedTyped ==
  ASSUME TypeOK, NEW d \in Edits, NEW r \in Results
  PROVE  Finished(d, r) \in Save
  BY DEF TypeOK, Finished, Save, Vaults

\* An answered save is a save.
LEMMA AnsweredTyped ==
  ASSUME TypeOK, NEW d \in Edits, NEW r \in Results
  PROVE  Answered(d, r) \in Save
<1>1. save[d] \in Save /\ "failed" \in Results
  BY DEF TypeOK, Results
<1> QED
  BY <1>1, FinishedTyped DEF Answered, Save

\* A save the relay has decided is a save.
LEMMA DecidedTyped ==
  ASSUME TypeOK, NEW d \in Edits, NEW r \in Results
  PROVE  Decided(d, r) \in Save
<1>1. save[d] \in Save /\ "failed" \in Results
  BY DEF TypeOK, Results
<1>2. [save[d] EXCEPT !.pc = "decided", !.result = r] \in Save
  BY <1>1 DEF Save
<1> QED
  BY <1>1, <1>2, FinishedTyped DEF Decided

\* Giving up on answers leaves saves.
LEMMA AbandonTyped ==
  ASSUME TypeOK, NEW e, NEW left, NEW for \in {"worker", "nobody"}
  PROVE  Abandon(e, left, for) \in [Edits -> Save]
<1>1. ASSUME NEW d \in Edits
      PROVE  /\ save[d] \in Save /\ Finished(d, "failed") \in Save
             /\ [save[d] EXCEPT !.for = for] \in Save
  <2>1. save[d] \in Save /\ "failed" \in Results
    BY DEF TypeOK, Results
  <2> QED
    BY <2>1, FinishedTyped DEF Save
<1> QED
  BY <1>1 DEF Abandon

\* The row is a vault with its version.
LEMMA CurrentTyped == TypeOK => CurrentCopy \in Copy
  BY DEF TypeOK, CurrentCopy, Copy

\* What the popup loads is a state of the popup.
LEMMA LoadedTyped ==
  ASSUME TypeOK, NEW e \in Exts
  PROVE  Loaded(e) \in Popup
<1>1. popup[e] \in Popup /\ worker[e].cache \in {None} \cup Copy
  BY DEF TypeOK
<1> QED
  BY <1>1 DEF Loaded, Popup, Copy

\* The steps of unlocking, locking and of the popup keep the types.
LEMMA ExtensionTyped ==
  ASSUME TypeOK, NEW e \in Exts, ExtensionStep(e)
  PROVE  TypeOK'
<1> USE DEF TypeOK
<1>a. NotUnlocking \in [pc : {"idle", "fetched", "unread", "decrypting", "cached"}, row : Copy]
  BY DEF NotUnlocking, EmptyVault, Copy, Vaults
<1>b. NoPopup \in Popup
  BY DEF NoPopup, Popup
<1>1. CASE RetrieveRow(e)
  BY <1>1, CurrentTyped DEF RetrieveRow
<1>2. CASE RetrieveNothing(e)
  <2>1. EmptyVault \in Copy
    BY DEF EmptyVault, Copy, Vaults
  <2> QED
    BY <1>2, <2>1 DEF RetrieveNothing
<1>3. CASE SetVaultKey(e)
  BY <1>3 DEF SetVaultKey
<1>4. CASE SetKeyAndEmptyVault(e)
  BY <1>4 DEF SetKeyAndEmptyVault
<1>5. CASE CacheVault(e)
  <2>1. \A v \in CachedVaults(unlock[e].row) : [unlock[e].row EXCEPT !.vault = v] \in Copy
    BY DEF CachedVaults, Copy, Vaults
  <2> QED
    BY <1>5, <2>1 DEF CacheVault
<1>6. CASE UnlockComplete(e)
  BY <1>6, <1>a, LoadedTyped DEF UnlockComplete
<1>7. CASE AutoLock(e) \/ PressLock(e)
  <2>1. [popup[e] EXCEPT !.view = "locked"] \in Popup
    BY DEF Popup
  <2>2. [popup EXCEPT ![e].view = "locked"] \in [Exts -> Popup]
    BY <2>1
  <2>3. popup' = [popup EXCEPT ![e].view = "locked"] \/ popup' = popup
    BY <1>7, Zenon DEF AutoLock, PressLock
  <2>4. popup' \in [Exts -> Popup]
    BY <2>2, <2>3
  <2>5. LockVault(e)
    BY <1>7 DEF AutoLock, PressLock
  <2> QED
    BY <2>4, <2>5 DEF LockVault, Closed
<1>8. CASE WorkerStops(e)
  BY <1>8 DEF WorkerStops, Closed
<1>9. CASE OpenPopup(e) \/ Retry(e)
  BY <1>9, LoadedTyped DEF OpenPopup, Retry
<1>10. CASE ClosePopup(e)
  BY <1>10, <1>b, AbandonTyped DEF ClosePopup
<1>11. CASE CloseBrowser(e)
  BY <1>11, <1>a, <1>b, AbandonTyped DEF CloseBrowser, Closed
<1>12. ASSUME NEW d \in Edits, EditAndSave(e, d)
       PROVE  TypeOK'
  <2>1. popup[e] \in Popup /\ save[d] \in Save
    OBVIOUS
  <2>2. popup[e].vault \cup {d} \in Vaults /\ popup[e].version \in Nat
    BY <1>12, <2>1 DEF EditAndSave, Popup, Vaults
  <2>3. [popup[e] EXCEPT !.vault = @ \cup {d}] \in Popup
    BY <2>1, <2>2 DEF Popup
  <2>4. [pc |-> "asked", ext |-> e, vault |-> popup[e].vault \cup {d},
         version |-> popup[e].version, for |-> "popup", result |-> "none"] \in Save
    BY <2>2 DEF Save, Results
  <2> QED
    BY <1>12, <2>3, <2>4 DEF EditAndSave
<1> QED
  BY <1>1, <1>2, <1>3, <1>4, <1>5, <1>6, <1>7, <1>8, <1>9, <1>10, <1>11, <1>12
     DEF ExtensionStep

\* The steps of a save keep the types.
LEMMA SaveTyped ==
  ASSUME TypeOK, NEW d \in Edits, SaveStep(d)
  PROVE  TypeOK'
<1>a. /\ save[d] \in Save /\ save \in [Edits -> Save]
      /\ \A r \in Results : Finished(d, r) \in Save /\ Answered(d, r) \in Save
                           /\ Decided(d, r) \in Save
  BY FinishedTyped, AnsweredTyped, DecidedTyped DEF TypeOK
<1>b. /\ save[d].vault \in Vaults /\ save[d].version \in Nat /\ save[d].result \in Results
      /\ save[d].ext \in Exts \cup {None}
  BY <1>a DEF Save
<1>c. {"saved", "conflict", "failed", "locked"} \subseteq Results
  BY DEF Results
<1>1. CASE PopupGivesUp(d)
  <2>1. [save[d] EXCEPT !.for = "worker"] \in Save
    BY <1>a DEF Save
  <2>2. save' \in [Edits -> Save]
    BY <1>1, <1>a, <1>c, <2>1 DEF PopupGivesUp
  <2> QED
    BY <1>1, <2>2 DEF TypeOK, PopupGivesUp
<1>2. CASE WorkerTakes(d)
  <2>1. [save[d] EXCEPT !.pc = "sent"] \in Save
    BY <1>a DEF Save
  <2>2. save' \in [Edits -> Save]
    BY <1>2, <1>a, <1>c, <2>1 DEF WorkerTakes
  <2> QED
    BY <1>2, <2>2 DEF TypeOK, WorkerTakes
<1>3. CASE UpdateVault(d)
  <2>1. save' \in [Edits -> Save]
    BY <1>3, <1>a, <1>c DEF UpdateVault
  <2>2. log' \in Seq(Vaults) /\ Len(log') > 0
    BY <1>3, <1>b DEF TypeOK, UpdateVault
  <2> QED
    BY <1>3, <2>1, <2>2 DEF TypeOK, UpdateVault
<1>4. CASE PutFails(d)
  <2>1. save' \in [Edits -> Save]
    BY <1>4, <1>a, <1>c DEF PutFails
  <2> QED
    BY <1>4, <2>1 DEF TypeOK, PutFails
<1>5. CASE WorkerHears(d)
  <2>1. [vault |-> save[d].vault, version |-> save[d].version + 1] \in Copy
    BY <1>b DEF Copy
  <2>2. save' \in [Edits -> Save]
    BY <1>5, <1>a, <1>b DEF WorkerHears
  <2>3. worker' \in [Exts -> [open : BOOLEAN, cache : {None} \cup Copy]]
    BY <1>5, <2>1 DEF TypeOK, WorkerHears
  <2> QED
    BY <1>5, <2>2, <2>3 DEF TypeOK, WorkerHears
<1>6. CASE PopupHears(d)
  <2>1. \A n \in Nat : VersionAfter(d, n) \in Nat
    BY <1>b DEF VersionAfter
  <2>2. \A x \in Exts : [popup[x] EXCEPT !.version = VersionAfter(d, @)] \in Popup
    BY <2>1 DEF TypeOK, Popup
  <2>3. popup' \in [Exts -> Popup]
    BY <1>6, <2>2 DEF TypeOK, PopupHears
  <2>4. save' \in [Edits -> Save]
    BY <1>6, <1>a, <1>b DEF PopupHears
  <2> QED
    BY <1>6, <2>3, <2>4 DEF TypeOK, PopupHears
<1> QED
  BY <1>1, <1>2, <1>3, <1>4, <1>5, <1>6 DEF SaveStep

\* Every variable keeps its type: in particular every version stays a number, also after
\* answers that carry none.
THEOREM TypeCorrect == Spec => []TypeOK
<1>1. TypeOK /\ [Next]_vars => TypeOK'
  BY ExtensionTyped, SaveTyped DEF Next, vars, TypeOK
<1> QED
  BY <1>1, InitTyped, PTL DEF Spec

\* -------------------------------------------------------------------------
\* No edit is lost

\* The mishaps that lose edits do not happen; a row that cannot be read is harmless on an
\* account that began empty.
LossFree ==
    /\ "reload" \notin Mishaps /\ "undecrypted" \notin Mishaps
    /\ "unread" \notin Mishaps \/ Initial = {}

\* Initially only the row holds a vault.
LEMMA InitInv == Init => VaultInv
  BY NoneIsNoVault DEF Init, VaultInv, CommittedEditsSurvive, CacheIsCommitted,
     RowsAreCommitted, PopupHoldsItsBase, Confirmed, NotUnlocking, NoPopup, Closed, Working

\* A popup reloads only while no save waits for its answer.
LEMMA ReloadsAreFree ==
  ASSUME TypeOK, VaultInv, LossFree, NEW e \in Exts,
         popup[e].view = "closed" \/ MayReload(e),
         NEW d \in Edits, save[d].pc \in Working, save[d].for = "popup"
  PROVE  save[d].ext # e
<1>1. CASE popup[e].view = "closed"
  BY <1>1 DEF VaultInv, SaveIsSound
<1>2. CASE MayReload(e)
  BY <1>2 DEF LossFree, MayReload, AwaitsAnswer
<1> QED
  BY <1>1, <1>2

\* What the popup loads is what the worker cached, or it keeps what it has.
LEMMA LoadedIsCommitted ==
  ASSUME TypeOK, VaultInv, NEW e \in Exts
  PROVE  /\ Loaded(e).view # "closed"
         /\ Loaded(e).vault # None /\ Loaded(e).version # 0 =>
                /\ Loaded(e).version \in DOMAIN log
                /\ log[Loaded(e).version] \subseteq Loaded(e).vault
<1>1. popup[e] \in [view : {"closed", "locked", "unlocked"}, vault : {None} \cup Vaults,
                   version : Nat]
  BY DEF TypeOK, Popup
<1>2. popup[e].vault # None /\ popup[e].version # 0 =>
          popup[e].version \in DOMAIN log /\ log[popup[e].version] \subseteq popup[e].vault
  BY DEF VaultInv, PopupHoldsItsBase
<1>3. worker[e].cache # None => Committed(worker[e].cache)
  BY DEF VaultInv, CacheIsCommitted
<1> QED
  BY <1>1, <1>2, <1>3 DEF Loaded, Committed

\* Loading the cached vault gives the popup a base it holds.
LEMMA ReloadKeepsInv ==
  ASSUME TypeOK, VaultInv, LossFree, NEW e \in Exts,
         popup[e].view = "closed" \/ MayReload(e),
         popup' = [popup EXCEPT ![e] = Loaded(e)], UNCHANGED <<log, worker, save>>,
         \A x \in Exts : unlock'[x] = unlock[x] \/ unlock'[x].pc = "idle"
  PROVE  VaultInv'
<1>1. PopupHoldsItsBase'
  BY LoadedIsCommitted DEF VaultInv, PopupHoldsItsBase, TypeOK
<1>2. \A x \in Exts : popup'[x].view = "closed" => popup'[x].vault = None
  BY LoadedIsCommitted DEF VaultInv, TypeOK
<1>3. ASSUME NEW d \in Edits, save[d].pc \in Working
      PROVE  SaveIsSound(d)'
  <2>1. SaveIsSound(d)
    BY <1>3 DEF VaultInv
  <2>2. save[d].for = "popup" => popup'[save[d].ext] = popup[save[d].ext]
    BY <1>3, <2>1, ReloadsAreFree DEF TypeOK, SaveIsSound
  <2> QED
    BY <2>1, <2>2 DEF SaveIsSound, Committed
<1>4. RowsAreCommitted'
  BY DEF VaultInv, RowsAreCommitted, Committed
<1> QED
  BY <1>1, <1>2, <1>3, <1>4
     DEF VaultInv, CommittedEditsSurvive, CacheIsCommitted, Committed, Confirmed, Working

\* Unlocking and locking touch the worker and at most the popup's view.
LEMMA WorkerKeepsInv ==
  ASSUME TypeOK, VaultInv, UNCHANGED <<log, save>>, CacheIsCommitted', RowsAreCommitted',
         \A x \in Exts : \/ popup'[x] = popup[x]
                         \/ popup'[x] = [popup[x] EXCEPT !.view = "locked"]
  PROVE  VaultInv'
<1>1. \A x \in Exts : /\ popup'[x].vault = popup[x].vault
                      /\ popup'[x].version = popup[x].version
                      /\ popup'[x].view = "closed" => popup[x].view = "closed"
  <2>1. ASSUME NEW x \in Exts
        PROVE  /\ popup'[x].vault = popup[x].vault
               /\ popup'[x].version = popup[x].version
               /\ popup'[x].view = "closed" => popup[x].view = "closed"
    <3>1. popup[x] \in Popup
      BY DEF TypeOK
    <3>2. popup'[x] = popup[x] \/ popup'[x] = [popup[x] EXCEPT !.view = "locked"]
      OBVIOUS
    <3> QED
      BY <3>1, <3>2 DEF Popup
  <2> QED
    BY <2>1, Zenon
<1>2. ASSUME NEW d \in Edits, save[d].pc \in Working
      PROVE  SaveIsSound(d)'
  <2>1. SaveIsSound(d)
    BY <1>2 DEF VaultInv
  <2>2. save[d].ext \in Exts
    BY <2>1 DEF SaveIsSound
  <2>3. popup'[save[d].ext].vault = popup[save[d].ext].vault
    BY <1>1, <2>2, Zenon
  <2> QED
    BY <2>1, <2>3 DEF SaveIsSound, Committed
<1>3. PopupHoldsItsBase' /\ (\A x \in Exts : popup'[x].view = "closed" => popup'[x].vault = None)
  <2>1. \A x \in Exts : popup[x].view = "closed" => popup[x].vault = None
    BY DEF VaultInv
  <2>2. PopupHoldsItsBase
    BY DEF VaultInv
  <2>3. \A x \in Exts : popup'[x].view = "closed" => popup'[x].vault = None
    BY <1>1, <2>1, Zenon
  <2>4. ASSUME NEW x \in Exts, popup'[x].vault # None, popup'[x].version # 0
        PROVE  popup'[x].version \in DOMAIN log /\ log[popup'[x].version] \subseteq popup'[x].vault
    <3>1. popup'[x].vault = popup[x].vault /\ popup'[x].version = popup[x].version
      BY <1>1, Zenon
    <3> QED
      BY <2>2, <2>4, <3>1 DEF PopupHoldsItsBase
  <2> QED
    BY <2>3, <2>4 DEF PopupHoldsItsBase
<1>4. \A d \in Edits : save'[d].pc \in Working => SaveIsSound(d)'
  BY <1>2
<1>5. Confirmed' = Confirmed /\ CommittedEditsSurvive'
  BY DEF Confirmed, CommittedEditsSurvive, VaultInv
<1> QED
  BY <1>3, <1>4, <1>5 DEF VaultInv, Working

\* The steps of an unlock up to the cache, which becomes the row that was read.
LEMMA UnlockKeepsInv ==
  ASSUME TypeOK, VaultInv, LossFree, NEW e \in Exts,
         \/ RetrieveRow(e) \/ RetrieveNothing(e) \/ SetVaultKey(e)
         \/ SetKeyAndEmptyVault(e) \/ CacheVault(e)
  PROVE  VaultInv'
<1>1. UNCHANGED <<log, save, popup>>
  BY DEF RetrieveRow, RetrieveNothing, SetVaultKey, SetKeyAndEmptyVault, CacheVault
<1>2. /\ \A x \in Exts : worker[x].cache # None => Committed(worker[x].cache)
      /\ \A x \in Exts : unlock[x].pc \in {"fetched", "unread", "decrypting"}
                             => Committed(unlock[x].row)
      /\ log[1] = Initial /\ Len(log) \in DOMAIN log /\ 1 \in DOMAIN log
  BY DEF VaultInv, CacheIsCommitted, RowsAreCommitted, TypeOK
<1>3. \A c \in Copy : Committed(c)' <=> Committed(c)
  BY <1>1 DEF Committed
<1>4. \A x \in Exts : worker'[x].cache # None => Committed(worker'[x].cache)
  <2>1. CASE RetrieveRow(e) \/ RetrieveNothing(e)
    BY <1>2, <2>1 DEF RetrieveRow, RetrieveNothing
  <2>2. CASE SetVaultKey(e)
    BY <1>2, <2>2 DEF SetVaultKey, TypeOK
  <2>3. CASE SetKeyAndEmptyVault(e)
    BY <1>2, <2>3 DEF SetKeyAndEmptyVault, TypeOK
  <2>4. CASE CacheVault(e)
    <3>1. CachedVaults(unlock[e].row) = {unlock[e].row.vault}
      BY DEF CachedVaults, LossFree
    <3>2. unlock[e].row \in Copy
      BY DEF TypeOK
    <3>3. [unlock[e].row EXCEPT !.vault = unlock[e].row.vault] = unlock[e].row
      BY <3>2 DEF Copy
    <3>4. worker' = [worker EXCEPT ![e].cache = unlock[e].row]
      BY <2>4, <3>1, <3>3 DEF CacheVault
    <3>5. Committed(unlock[e].row)
      BY <1>2, <2>4 DEF CacheVault
    <3>6. \A x \in Exts : worker'[x].cache = worker[x].cache \/ worker'[x].cache = unlock[e].row
      BY <3>4 DEF TypeOK
    <3> QED
      BY <1>2, <3>5, <3>6
  <2> QED
    BY <2>1, <2>2, <2>3, <2>4
<1>5. \A x \in Exts : unlock'[x].pc \in {"fetched", "unread", "decrypting"}
                         => Committed(unlock'[x].row)
  <2>1. CASE RetrieveRow(e)
    <3>1. Committed(CurrentCopy)
      BY <1>2 DEF CurrentCopy, Committed
    <3>2. unlock' = [unlock EXCEPT ![e] = [pc |-> "fetched", row |-> CurrentCopy]]
      BY <2>1 DEF RetrieveRow
    <3> QED
      BY <1>2, <3>1, <3>2 DEF TypeOK
  <2>2. CASE RetrieveNothing(e)
    <3>1. Committed(EmptyVault)
      BY <1>2, <2>2 DEF RetrieveNothing, LossFree, EmptyVault, Committed
    <3> QED
      BY <1>2, <2>2, <3>1 DEF RetrieveNothing, TypeOK
  <2>3. CASE SetVaultKey(e)
    BY <1>2, <2>3 DEF SetVaultKey, TypeOK
  <2>4. CASE SetKeyAndEmptyVault(e) \/ CacheVault(e)
    BY <1>2, <2>4 DEF SetKeyAndEmptyVault, CacheVault, TypeOK
  <2> QED
    BY <2>1, <2>2, <2>3, <2>4
<1>6. CacheIsCommitted' /\ RowsAreCommitted'
  BY <1>1, <1>4, <1>5 DEF CacheIsCommitted, RowsAreCommitted, Committed
<1> QED
  BY <1>1, <1>6, WorkerKeepsInv

\* Locks and stops only clear what the worker holds.
LEMMA LockKeepsInv ==
  ASSUME TypeOK, VaultInv, NEW e \in Exts, AutoLock(e) \/ PressLock(e) \/ WorkerStops(e)
  PROVE  VaultInv'
<1>1. UNCHANGED <<log, save, unlock>> /\ worker' = [worker EXCEPT ![e] = Closed]
  BY DEF AutoLock, PressLock, WorkerStops, LockVault
<1>2. popup' = [popup EXCEPT ![e].view = "locked"] \/ popup' = popup
  BY Zenon DEF AutoLock, PressLock, WorkerStops
<1>3. \A x \in Exts : \/ popup'[x] = popup[x]
                      \/ popup'[x] = [popup[x] EXCEPT !.view = "locked"]
  BY <1>2 DEF TypeOK
<1>4. CacheIsCommitted' /\ RowsAreCommitted'
  BY <1>1 DEF VaultInv, CacheIsCommitted, RowsAreCommitted, Committed, Closed, TypeOK
<1> QED
  BY <1>1, <1>3, <1>4, WorkerKeepsInv

\* Giving up on an answer only shortens what a save has to be sound for.
LEMMA AbandonIsSound ==
  ASSUME TypeOK, NEW e \in Exts, NEW left, NEW for \in {"worker", "nobody"},
         NEW d \in Edits
  PROVE  LET a == Abandon(e, left, for)[d] IN
         /\ a.pc = "done" /\ a.result = "saved" <=> save[d].pc = "done" /\ save[d].result = "saved"
         /\ a.pc \in Working => /\ save[d].pc = a.pc /\ save[d].ext = a.ext
                                /\ save[d].vault = a.vault /\ save[d].version = a.version
                                /\ save[d].result = a.result /\ a.for \in {save[d].for, for}
         /\ "popup" \in left /\ a.pc \in Working /\ a.ext = e => a.for # "popup"
<1>1. save[d] \in Save
  BY DEF TypeOK
<1> QED
  BY <1>1 DEF Abandon, Finished, Working, Save

\* Closing popup or browser only shortens what is waited for.
LEMMA CloseKeepsInv ==
  ASSUME TypeOK, VaultInv, NEW e \in Exts, ClosePopup(e) \/ CloseBrowser(e)
  PROVE  VaultInv'
<1>1. /\ UNCHANGED log /\ popup' = [popup EXCEPT ![e] = NoPopup]
      /\ worker' = worker \/ worker' = [worker EXCEPT ![e] = Closed]
      /\ unlock' = unlock \/ unlock' = [unlock EXCEPT ![e] = NotUnlocking]
  BY DEF ClosePopup, CloseBrowser
<1>2. PICK left \in SUBSET {"popup", "worker"}, for \in {"worker", "nobody"} :
          "popup" \in left /\ save' = Abandon(e, left, for)
  <2>1. CASE ClosePopup(e)
    BY <2>1, Zenon DEF ClosePopup
  <2>2. CASE CloseBrowser(e)
    BY <2>2, Zenon DEF CloseBrowser
  <2> QED
    BY <2>1, <2>2
<1>3. CacheIsCommitted' /\ RowsAreCommitted'
  <2>1. CacheIsCommitted'
    BY <1>1 DEF VaultInv, CacheIsCommitted, Committed, Closed, TypeOK
  <2>2. RowsAreCommitted'
    <3>1. RowsAreCommitted
      BY DEF VaultInv
    <3>2. \A x \in Exts : unlock'[x] = unlock[x] \/ unlock'[x].pc = "idle"
      BY <1>1 DEF NotUnlocking, TypeOK
    <3> QED
      BY <1>1, <3>1, <3>2 DEF RowsAreCommitted, Committed
  <2> QED
    BY <2>1, <2>2
<1>4. /\ PopupHoldsItsBase'
      /\ \A x \in Exts : popup'[x].view = "closed" => popup'[x].vault = None
  BY <1>1 DEF VaultInv, PopupHoldsItsBase, NoPopup, TypeOK
<1>5. ASSUME NEW d \in Edits, save'[d].pc \in Working
      PROVE  SaveIsSound(d)'
  <2>1. /\ save[d].pc = save'[d].pc /\ save[d].ext = save'[d].ext
        /\ save[d].vault = save'[d].vault /\ save[d].version = save'[d].version
        /\ save[d].result = save'[d].result /\ save'[d].for \in {save[d].for, "worker", "nobody"}
        /\ save'[d].ext = e => save'[d].for # "popup"
    BY <1>2, <1>5, AbandonIsSound
  <2>2. SaveIsSound(d)
    BY <1>5, <2>1 DEF VaultInv
  <2> QED
    BY <1>1, <2>1, <2>2 DEF SaveIsSound, Committed, TypeOK
<1>6. Confirmed' = Confirmed
  BY <1>2, AbandonIsSound DEF Confirmed
<1> QED
  BY <1>1, <1>3, <1>4, <1>5, <1>6 DEF VaultInv, CommittedEditsSurvive, Working

\* A new save holds all the popup held, which held its base.
LEMMA EditKeepsInv ==
  ASSUME TypeOK, VaultInv, NEW e \in Exts, NEW d \in Edits, EditAndSave(e, d)
  PROVE  VaultInv'
<1>1. /\ UNCHANGED <<log, worker, unlock>>
      /\ popup[e].view = "unlocked" /\ popup[e].vault # None /\ save[d].pc = "idle"
      /\ popup' = [popup EXCEPT ![e].vault = popup[e].vault \cup {d}]
      /\ save' = [save EXCEPT ![d] =
            [pc |-> "asked", ext |-> e, vault |-> popup[e].vault \cup {d},
             version |-> popup[e].version, for |-> "popup", result |-> "none"]]
  BY DEF EditAndSave
<1>2. /\ popup[e] \in Popup /\ popup[e].vault \in Vaults
      /\ popup[e].vault \cup {d} \in SUBSET (Initial \cup Edits)
      /\ popup[e].vault \cup {d} # None
  BY <1>1, NoneIsNoVault DEF TypeOK, Popup, Vaults
<1>3. /\ popup'[e].vault = popup[e].vault \cup {d} /\ popup'[e].version = popup[e].version
      /\ popup'[e].view = "unlocked"
      /\ \A x \in Exts \ {e} : popup'[x] = popup[x]
  BY <1>1, <1>2 DEF TypeOK, Popup
<1>4. popup[e].version # 0 =>
          popup[e].version \in DOMAIN log /\ log[popup[e].version] \subseteq popup[e].vault
  BY <1>1 DEF VaultInv, PopupHoldsItsBase
<1>5. /\ PopupHoldsItsBase'
      /\ \A x \in Exts : popup'[x].view = "closed" => popup'[x].vault = None
  BY <1>1, <1>3, <1>4 DEF VaultInv, PopupHoldsItsBase
<1>6. SaveIsSound(d)'
  BY <1>1, <1>2, <1>3, <1>4 DEF SaveIsSound, TypeOK
<1>7. ASSUME NEW c \in Edits \ {d}, save'[c].pc \in Working
      PROVE  SaveIsSound(c)'
  <2>1. save'[c] = save[c] /\ SaveIsSound(c)
    BY <1>1, <1>7 DEF VaultInv, TypeOK
  <2> QED
    BY <1>1, <1>2, <1>3, <2>1 DEF SaveIsSound, Committed
<1>8. Confirmed' = Confirmed
  BY <1>1 DEF Confirmed, TypeOK
<1> QED
  BY <1>1, <1>5, <1>6, <1>7, <1>8
     DEF VaultInv, CommittedEditsSurvive, CacheIsCommitted, RowsAreCommitted, Committed, Working

\* A save that moves on, where popup and log stay: only its own soundness is at stake.
LEMMA SaveMovesOn ==
  ASSUME TypeOK, VaultInv, NEW d \in Edits, save[d].pc \in Working, NEW s,
         save' = [save EXCEPT ![d] = s], UNCHANGED <<log, unlock, popup>>,
         s.pc = "done" => s.result # "saved",
         s.pc \in Working => SaveIsSound(d)',
         CacheIsCommitted'
  PROVE  VaultInv'
<1>1. ASSUME NEW c \in Edits, save'[c].pc \in Working
      PROVE  SaveIsSound(c)'
  <2>1. CASE c = d
    BY <1>1, <2>1 DEF TypeOK
  <2>2. CASE c # d
    <3>1. save'[c] = save[c] /\ SaveIsSound(c)
      BY <1>1, <2>2 DEF VaultInv, TypeOK
    <3> QED
      BY <3>1 DEF SaveIsSound, Committed
  <2> QED
    BY <2>1, <2>2
<1>2. Confirmed' = Confirmed
  BY DEF Confirmed, Working, TypeOK
<1>3. RowsAreCommitted' /\ CommittedEditsSurvive' /\ PopupHoldsItsBase'
  BY DEF VaultInv, RowsAreCommitted, Committed, CommittedEditsSurvive, PopupHoldsItsBase
<1> QED
  BY <1>1, <1>2, <1>3 DEF VaultInv, Working

\* Between the click and the popup's answer a save changes its place, who waits for it or
\* its result, and nothing else.
LEMMA AnswerMoves ==
  ASSUME TypeOK, NEW d \in Edits,
         PopupGivesUp(d) \/ WorkerTakes(d) \/ PutFails(d) \/ WorkerHears(d)
  PROVE  /\ save[d].pc \in Working /\ UNCHANGED <<log, unlock, popup>>
         /\ save' = [save EXCEPT ![d] = save'[d]]
         /\ \/ save'[d].pc = "done" /\ save'[d].result = "failed"
            \/ /\ save'[d].ext = save[d].ext /\ save'[d].vault = save[d].vault
               /\ save'[d].version = save[d].version /\ save'[d].for \in {save[d].for, "worker"}
               /\ \/ save'[d].pc = save[d].pc /\ save'[d].result = save[d].result
                  \/ save'[d].pc = "sent" /\ save[d].pc = "asked"
                  \/ save'[d].pc = "answered" /\ save'[d].result \in {"locked", "failed"}
                  \/ /\ save'[d].pc = "answered" /\ save'[d].result = save[d].result
                     /\ save[d].pc = "decided"
<1> DEFINE s == save'[d]
<1>1. save[d] \in Save /\ save[d].pc \in Working
  BY DEF TypeOK, Working, PopupGivesUp, WorkerTakes, PutFails, WorkerHears
<1>2. UNCHANGED <<log, unlock, popup>>
  BY DEF PopupGivesUp, WorkerTakes, PutFails, WorkerHears
<1>a. save' = [save EXCEPT ![d] = s]
  BY DEF PopupGivesUp, WorkerTakes, PutFails, WorkerHears, TypeOK
<1>3. \/ s = Finished(d, "failed")
      \/ s = [save[d] EXCEPT !.for = "worker"]
      \/ save[d].pc = "asked" /\ s = [save[d] EXCEPT !.pc = "sent"]
      \/ \E r \in {"locked", "failed"} :
             s = [save[d] EXCEPT !.pc = "answered", !.result = r]
      \/ /\ save[d].pc = "decided"
         /\ s = [save[d] EXCEPT !.pc = "answered", !.result = save[d].result]
  <2>1. CASE PopupGivesUp(d)
    BY <2>1 DEF PopupGivesUp, TypeOK
  <2>2. CASE WorkerTakes(d)
    BY <2>2 DEF WorkerTakes, Answered, TypeOK
  <2>3. CASE PutFails(d)
    BY <2>3 DEF PutFails, Answered, TypeOK
  <2>4. CASE WorkerHears(d)
    BY <2>4 DEF WorkerHears, Answered, TypeOK
  <2> QED
    BY <2>1, <2>2, <2>3, <2>4
<1> HIDE DEF s
<1>b. \/ s.pc = "done" /\ s.result = "failed"
      \/ /\ s.ext = save[d].ext /\ s.vault = save[d].vault /\ s.version = save[d].version
         /\ s.for \in {save[d].for, "worker"}
         /\ \/ s.pc = save[d].pc /\ s.result = save[d].result
            \/ s.pc = "sent" /\ save[d].pc = "asked"
            \/ s.pc = "answered" /\ s.result \in {"locked", "failed"}
            \/ s.pc = "answered" /\ s.result = save[d].result /\ save[d].pc = "decided"
  <2>1. CASE s = Finished(d, "failed")
    BY <2>1 DEF Finished
  <2>2. CASE s = [save[d] EXCEPT !.for = "worker"]
    BY <1>1, <2>2 DEF Save
  <2>3. CASE save[d].pc = "asked" /\ s = [save[d] EXCEPT !.pc = "sent"]
    BY <1>1, <2>3 DEF Save
  <2>4. ASSUME NEW r \in {"locked", "failed"},
               s = [save[d] EXCEPT !.pc = "answered", !.result = r]
        PROVE  /\ s.ext = save[d].ext /\ s.vault = save[d].vault /\ s.version = save[d].version
               /\ s.for = save[d].for /\ s.pc = "answered" /\ s.result = r
    BY <1>1, <2>4 DEF Save
  <2>5. CASE /\ save[d].pc = "decided"
             /\ s = [save[d] EXCEPT !.pc = "answered", !.result = save[d].result]
    BY <1>1, <2>5 DEF Save
  <2> QED
    BY <1>3, <2>1, <2>2, <2>3, <2>4, <2>5
<1> QED
  BY <1>1, <1>2, <1>a, <1>b DEF s

\* The worker's steps of a save: what it caches is what the relay committed.
LEMMA AnswerKeepsInv ==
  ASSUME TypeOK, VaultInv, NEW d \in Edits,
         PopupGivesUp(d) \/ WorkerTakes(d) \/ PutFails(d) \/ WorkerHears(d)
  PROVE  VaultInv'
<1> DEFINE s == save'[d]
<1>1. save[d] \in Save /\ save[d].pc \in Working /\ SaveIsSound(d)
  BY DEF TypeOK, VaultInv, Working, PopupGivesUp, WorkerTakes, PutFails, WorkerHears
<1>2. UNCHANGED <<log, unlock, popup>>
  BY DEF PopupGivesUp, WorkerTakes, PutFails, WorkerHears
<1>a. save' = [save EXCEPT ![d] = s]
  BY AnswerMoves
<1>b. \/ s.pc = "done" /\ s.result = "failed"
      \/ /\ s.ext = save[d].ext /\ s.vault = save[d].vault /\ s.version = save[d].version
         /\ s.for \in {save[d].for, "worker"}
         /\ \/ s.pc = save[d].pc /\ s.result = save[d].result
            \/ s.pc = "sent" /\ save[d].pc = "asked"
            \/ s.pc = "answered" /\ s.result \in {"locked", "failed"}
            \/ s.pc = "answered" /\ s.result = save[d].result /\ save[d].pc = "decided"
  BY AnswerMoves
<1> HIDE DEF s
<1>4. s.pc = "done" => s.result # "saved"
  BY <1>1, <1>b DEF Working
<1>5. s.pc \in Working => SaveIsSound(d)'
  <2>1. s.pc \in Working =>
          /\ s.ext = save[d].ext /\ s.vault = save[d].vault /\ s.version = save[d].version
          /\ s.for = "popup" => save[d].for = "popup"
          /\ s.pc \in {"asked", "sent"} => save[d].pc \in {"asked", "sent"}
          /\ s.pc \in {"decided", "answered"} /\ s.result = "saved" =>
                 save[d].pc \in {"decided", "answered"} /\ save[d].result = "saved"
    BY <1>b DEF Working
  <2> QED
    BY <1>1, <1>2, <2>1 DEF SaveIsSound, Committed, s
<1>6. CacheIsCommitted'
  <2>1. CASE UNCHANGED worker
    BY <1>2, <2>1 DEF VaultInv, CacheIsCommitted, Committed
  <2>2. CASE /\ save[d].pc = "decided" /\ save[d].result = "saved"
             /\ worker' = [worker EXCEPT ![save[d].ext].cache =
                              [vault |-> save[d].vault, version |-> save[d].version + 1]]
    <3>1. Committed([vault |-> save[d].vault, version |-> save[d].version + 1])
      BY <1>1, <2>2 DEF SaveIsSound
    <3> QED
      BY <1>2, <2>2, <3>1 DEF VaultInv, CacheIsCommitted, Committed, TypeOK
  <2> QED
    BY <2>1, <2>2 DEF PopupGivesUp, WorkerTakes, PutFails, WorkerHears
<1> QED
  BY <1>a, <1>1, <1>2, <1>4, <1>5, <1>6, SaveMovesOn

\* The one step that changes the row: the blob replaced was a part of the new one.
LEMMA UpdateKeepsInv ==
  ASSUME TypeOK, VaultInv, NEW d \in Edits, UpdateVault(d)
  PROVE  VaultInv'
<1>1. /\ save[d] \in Save /\ save[d].pc = "sent" /\ save[d].version # 0 /\ SaveIsSound(d)
      /\ UNCHANGED <<worker, unlock, popup>>
      /\ log \in Seq(Vaults) /\ Len(log) > 0
  BY DEF TypeOK, VaultInv, Working, UpdateVault
<1>2. CASE ~NextOfRow(d)
  <2> DEFINE s == Decided(d, "conflict")
  <2>1. save' = [save EXCEPT ![d] = s] /\ UNCHANGED log
    BY <1>2 DEF UpdateVault
  <2>2. /\ s.pc = "done" => s.result # "saved"
        /\ s.pc \in Working => s = [save[d] EXCEPT !.pc = "decided", !.result = "conflict"]
    BY DEF Decided, Finished, Working
  <2>3. s.pc \in Working => SaveIsSound(d)'
    BY <1>1, <2>1, <2>2 DEF SaveIsSound, Save, TypeOK
  <2>4. CacheIsCommitted'
    BY <1>1, <2>1 DEF VaultInv, CacheIsCommitted, Committed
  <2> HIDE DEF s
  <2>5. save[d].pc \in Working
    BY <1>1 DEF Working
  <2> QED
    BY <1>1, <2>1, <2>2, <2>3, <2>4, <2>5, SaveMovesOn
<1>3. CASE NextOfRow(d)
  <2> DEFINE s == Decided(d, "saved")
  <2>1. /\ save' = [save EXCEPT ![d] = s] /\ log' = Append(log, save[d].vault)
        /\ save[d].version = Len(log) /\ save[d].vault \in Vaults
    BY <1>1, <1>3 DEF UpdateVault, NextOfRow, Save
  <2>2. /\ log[Len(log)] \subseteq save[d].vault
        /\ \A v \in DOMAIN log : log[v] \subseteq log[Len(log)]
    BY <1>1, <2>1 DEF SaveIsSound, VaultInv, CommittedEditsSurvive
  <2>3. /\ DOMAIN log' = DOMAIN log \cup {Len(log) + 1}
        /\ Len(log') = Len(log) + 1 /\ log'[Len(log) + 1] = save[d].vault
        /\ \A v \in DOMAIN log : log'[v] = log[v]
        /\ DOMAIN log = 1 .. Len(log) /\ 1 \in DOMAIN log /\ Len(log) \in Nat
    BY <1>1, <2>1
  <2>4. log'[1] = Initial
    BY <2>3 DEF VaultInv
  <2>5. CommittedEditsSurvive'
    <3>1. CommittedEditsSurvive
      BY DEF VaultInv
    <3> QED
      BY <2>2, <2>3, <3>1 DEF CommittedEditsSurvive
  <2>6. \A c : Committed(c) => Committed(c)'
    BY <2>3 DEF Committed
  <2>7. CacheIsCommitted' /\ RowsAreCommitted'
    BY <1>1, <2>6 DEF VaultInv, CacheIsCommitted, RowsAreCommitted
  <2>8. PopupHoldsItsBase'
    BY <1>1, <2>3 DEF VaultInv, PopupHoldsItsBase
  <2>9. ASSUME NEW c \in Edits, save'[c].pc \in Working
        PROVE  SaveIsSound(c)'
    <3>1. CASE c # d
      <4>1. save'[c] = save[c] /\ SaveIsSound(c)
        BY <2>1, <2>9, <3>1 DEF VaultInv, TypeOK
      <4> QED
        BY <1>1, <2>3, <2>6, <4>1 DEF SaveIsSound
    <3>2. CASE c = d
      <4>1. save'[d] = [save[d] EXCEPT !.pc = "decided", !.result = "saved"]
        <5>1. save'[d] = s /\ s.pc \in Working
          BY <2>1, <2>9, <3>2 DEF TypeOK
        <5> QED
          BY <5>1 DEF Decided, Finished, Working
      <4>2. /\ save'[d].ext = save[d].ext /\ save'[d].vault = save[d].vault
            /\ save'[d].version = save[d].version /\ save'[d].pc = "decided"
            /\ save'[d].for = save[d].for
        BY <1>1, <4>1 DEF Save
      <4>3. Committed([vault |-> save[d].vault, version |-> save[d].version + 1])'
        BY <2>1, <2>3, <4>2 DEF Committed
      <4> QED
        BY <1>1, <3>2, <4>2, <4>3 DEF SaveIsSound
    <3> QED
      BY <3>1, <3>2
  <2>10. Confirmed' \subseteq log'[Len(log')]
    <3>1. Confirmed' = Confirmed
      BY <1>1, <2>1 DEF Confirmed, Decided, Finished, TypeOK
    <3>2. Confirmed \subseteq log[Len(log)]
      BY DEF VaultInv
    <3> QED
      BY <2>2, <2>3, <3>1, <3>2
  <2> QED
    BY <1>1, <2>4, <2>5, <2>7, <2>8, <2>9, <2>10 DEF VaultInv, Working
<1> QED
  BY <1>2, <1>3

\* The popup moves its base to the version that its own save made.
LEMMA PopupHearsKeepsInv ==
  ASSUME TypeOK, VaultInv, NEW d \in Edits, PopupHears(d)
  PROVE  VaultInv'
<1> DEFINE e == save[d].ext
<1>1. /\ save[d] \in Save /\ save[d].pc = "answered" /\ save[d].for = "popup"
      /\ SaveIsSound(d) /\ e \in Exts
      /\ UNCHANGED <<log, worker, unlock>>
      /\ save' = [save EXCEPT ![d] = Finished(d, save[d].result)]
      /\ popup' = [popup EXCEPT ![e].version = VersionAfter(d, popup[e].version)]
  BY DEF TypeOK, VaultInv, Working, PopupHears, SaveIsSound
<1>2. /\ \A x \in Exts : popup'[x].view = popup[x].view /\ popup'[x].vault = popup[x].vault
      /\ \A x \in Exts \ {e} : popup'[x] = popup[x]
      /\ popup'[e].version = VersionAfter(d, popup[e].version)
  BY <1>1 DEF TypeOK, Popup
<1>3. save[d].result = "saved" =>
          /\ save[d].version + 1 \in DOMAIN log
          /\ log[save[d].version + 1] \subseteq popup[e].vault /\ d \in log[save[d].version + 1]
  BY <1>1 DEF SaveIsSound, Committed
<1> HIDE DEF e
<1>4. PopupHoldsItsBase'
  <2>1. PopupHoldsItsBase
    BY DEF VaultInv
  <2>2. ASSUME NEW x \in Exts, popup'[x].vault # None, popup'[x].version # 0
        PROVE  popup'[x].version \in DOMAIN log /\ log[popup'[x].version] \subseteq popup'[x].vault
    <3>1. CASE x # e
      BY <1>2, <2>1, <2>2, <3>1 DEF PopupHoldsItsBase
    <3>2. CASE x = e
      BY <1>2, <1>3, <2>1, <2>2, <3>2 DEF PopupHoldsItsBase, VersionAfter
    <3> QED
      BY <3>1, <3>2
  <2> QED
    BY <1>1, <2>2 DEF PopupHoldsItsBase
<1>5. ASSUME NEW c \in Edits, save'[c].pc \in Working
      PROVE  SaveIsSound(c)'
  <2>1. save'[c] = save[c] /\ SaveIsSound(c)
    BY <1>1, <1>5 DEF VaultInv, TypeOK, Finished, Working
  <2> QED
    BY <1>1, <1>2, <2>1 DEF SaveIsSound, Committed
<1>6. Confirmed' \subseteq log[Len(log)]
  <2>1. Confirmed \subseteq log[Len(log)]
    BY DEF VaultInv
  <2>2. \A c \in Confirmed' : c \in Confirmed \/ (c = d /\ save[d].result = "saved")
    BY <1>1 DEF Confirmed, Finished, TypeOK
  <2>3. save[d].result = "saved" => d \in log[Len(log)]
    BY <1>3 DEF VaultInv, CommittedEditsSurvive, TypeOK
  <2> QED
    BY <2>1, <2>2, <2>3
<1> QED
  BY <1>1, <1>2, <1>4, <1>5, <1>6
     DEF VaultInv, CommittedEditsSurvive, CacheIsCommitted, RowsAreCommitted, Committed, Working

\* Every step keeps the invariant.
LEMMA StepKeepsInv ==
  TypeOK /\ VaultInv /\ LossFree /\ [Next]_vars => VaultInv'
<1> SUFFICES ASSUME TypeOK, VaultInv, LossFree, [Next]_vars PROVE VaultInv'
  OBVIOUS
<1>1. CASE UNCHANGED vars
  BY <1>1 DEF vars, VaultInv, CommittedEditsSurvive, CacheIsCommitted, RowsAreCommitted,
              PopupHoldsItsBase, SaveIsSound, Committed, Confirmed, Working
<1>2. ASSUME NEW e \in Exts, ExtensionStep(e)
      PROVE  VaultInv'
  <2>1. CASE UnlockComplete(e) \/ OpenPopup(e) \/ Retry(e)
    <3>1. CASE popup' = popup
      <4>a. /\ UNCHANGED <<log, worker, save>>
            /\ unlock' = unlock \/ unlock' = [unlock EXCEPT ![e] = NotUnlocking]
        BY <2>1 DEF UnlockComplete, OpenPopup, Retry
      <4>1. CacheIsCommitted' /\ RowsAreCommitted'
        <5>1. CacheIsCommitted /\ RowsAreCommitted
          BY DEF VaultInv
        <5>2. \A x \in Exts : unlock'[x] = unlock[x] \/ unlock'[x].pc = "idle"
          BY <4>a DEF NotUnlocking, TypeOK
        <5> QED
          BY <4>a, <5>1, <5>2 DEF CacheIsCommitted, RowsAreCommitted, Committed
      <4> QED
        BY <2>1, <3>1, <4>1, WorkerKeepsInv DEF UnlockComplete, OpenPopup, Retry
    <3>2. CASE popup' # popup
      <4>1. /\ popup[e].view = "closed" \/ MayReload(e)
            /\ popup' = [popup EXCEPT ![e] = Loaded(e)] /\ UNCHANGED <<log, worker, save>>
            /\ \A x \in Exts : unlock'[x] = unlock[x] \/ unlock'[x].pc = "idle"
        BY <2>1, <3>2 DEF UnlockComplete, OpenPopup, Retry, NotUnlocking, TypeOK
      <4> QED
        BY <4>1, ReloadKeepsInv
    <3> QED
      BY <3>1, <3>2
  <2>2. CASE ~(UnlockComplete(e) \/ OpenPopup(e) \/ Retry(e))
    BY <1>2, <2>2, UnlockKeepsInv, LockKeepsInv, CloseKeepsInv, EditKeepsInv
       DEF ExtensionStep
  <2> QED
    BY <2>1, <2>2
<1>3. ASSUME NEW d \in Edits, SaveStep(d)
      PROVE  VaultInv'
  BY <1>3, AnswerKeepsInv, UpdateKeepsInv, PopupHearsKeepsInv DEF SaveStep
<1> QED
  BY <1>1, <1>2, <1>3 DEF Next

\* The inductive invariant: caches, rows, popups and saves on their way all go back to a
\* committed vault.
THEOREM VaultInvariant == ASSUME LossFree PROVE Spec => []VaultInv
<1>1. TypeOK /\ VaultInv /\ LossFree /\ [Next]_vars => VaultInv'
  BY StepKeepsInv
<1> QED
  BY <1>1, InitInv, TypeCorrect, PTL DEF Spec

\* Optimistic locking works for any number of browsers and edits: nothing that was in the
\* vault at one version is missing at a later one.
THEOREM NoCommittedEditIsLost == ASSUME LossFree PROVE Spec => []CommittedEditsSurvive
<1>1. VaultInv => CommittedEditsSurvive
  BY DEF VaultInv
<1> QED
  BY <1>1, VaultInvariant, PTL

\* A worker never shows a vault that the relay did not hold under the version shown.
THEOREM CachesAreCommitted == ASSUME LossFree PROVE Spec => []CacheIsCommitted
<1>1. VaultInv => CacheIsCommitted
  BY DEF VaultInv
<1> QED
  BY <1>1, VaultInvariant, PTL

\* A popup's next save contains all of the vault it replaces.
THEOREM PopupsHoldTheirBase == ASSUME LossFree PROVE Spec => []PopupHoldsItsBase
<1>1. VaultInv => PopupHoldsItsBase
  BY DEF VaultInv
<1> QED
  BY <1>1, VaultInvariant, PTL

\* -------------------------------------------------------------------------
\* The abstract store

\* Who was answered stays answered, and only hearing from the worker tells a popup
\* anything but a failure.
LEMMA AnsweredByPopup ==
  ASSUME TypeOK, [Next]_vars, ~\E d \in Edits : PopupHears(d), NEW c \in Edits
  PROVE  /\ save[c].pc = "done" => save'[c] = save[c]
         /\ save'[c].pc = "done" => save[c].pc = "done" \/ save'[c].result = "failed"
<1> DEFINE Kept == /\ save[c].pc = "done" => save'[c] = save[c]
                   /\ save'[c].pc = "done" => save[c].pc = "done" \/ save'[c].result = "failed"
<1>1. ASSUME NEW e \in Exts, ExtensionStep(e)
      PROVE  Kept
  <2>1. CASE UNCHANGED save
    BY <2>1
  <2>2. CASE ClosePopup(e) \/ CloseBrowser(e)
    <3>1. PICK left \in SUBSET {"popup", "worker"}, for \in {"worker", "nobody"} :
              save' = Abandon(e, left, for)
      <4>1. CASE ClosePopup(e)
        BY <4>1, Zenon DEF ClosePopup
      <4>2. CASE CloseBrowser(e)
        BY <4>2, Zenon DEF CloseBrowser
      <4> QED
        BY <2>2, <4>1, <4>2
    <3>2. \/ save'[c] = save[c]
          \/ save[c].pc \in Working /\ save'[c] = Finished(c, "failed")
          \/ save[c].pc \in Working /\ save'[c] = [save[c] EXCEPT !.for = for]
      BY <3>1 DEF Abandon
    <3>3. save[c] \in Save
      BY DEF TypeOK
    <3> QED
      BY <3>2, <3>3 DEF Finished, Working, Save
  <2>3. ASSUME NEW d \in Edits, EditAndSave(e, d)
        PROVE  Kept
    BY <2>3 DEF EditAndSave, TypeOK
  <2> QED
    BY <1>1, <2>1, <2>2, <2>3
       DEF ExtensionStep, RetrieveRow, RetrieveNothing, SetVaultKey, SetKeyAndEmptyVault,
           CacheVault, UnlockComplete, AutoLock, PressLock, LockVault, WorkerStops, OpenPopup,
           Retry
<1>2. ASSUME NEW d \in Edits, SaveStep(d)
      PROVE  Kept
  <2>1. save[d].pc # "done" /\ save' = [save EXCEPT ![d] = save'[d]]
    BY <1>2 DEF SaveStep, PopupGivesUp, WorkerTakes, UpdateVault, PutFails, WorkerHears,
                Working, TypeOK
  <2>2. save'[d].pc = "done" => save'[d].result = "failed"
    <3>1. save[d] \in Save
      BY DEF TypeOK
    <3>2. \/ save'[d] = Finished(d, "failed")
          \/ save'[d] = [save[d] EXCEPT !.for = "worker"]
          \/ save'[d] = [save[d] EXCEPT !.pc = "sent"]
          \/ \E r \in Results : save'[d] = [save[d] EXCEPT !.pc = "answered", !.result = r]
          \/ \E r \in Results : save'[d] = [save[d] EXCEPT !.pc = "decided", !.result = r]
      <4>1. CASE PopupGivesUp(d)
        BY <4>1 DEF PopupGivesUp, TypeOK
      <4>2. CASE WorkerTakes(d)
        BY <4>2 DEF WorkerTakes, Answered, Results, TypeOK
      <4>3. CASE PutFails(d) \/ WorkerHears(d)
        BY <3>1, <4>3 DEF PutFails, WorkerHears, Answered, Save, Results, TypeOK
      <4>4. CASE UpdateVault(d)
        BY <4>4 DEF UpdateVault, Decided, Results, TypeOK
      <4> QED
        BY <1>2, <4>1, <4>2, <4>3, <4>4 DEF SaveStep
    <3>3. CASE save'[d] = Finished(d, "failed")
      BY <3>3 DEF Finished
    <3>4. CASE save'[d] = [save[d] EXCEPT !.for = "worker"]
      BY <2>1, <3>1, <3>4 DEF Save
    <3>5. CASE save'[d] = [save[d] EXCEPT !.pc = "sent"]
      BY <3>1, <3>5 DEF Save
    <3>6. ASSUME NEW r \in Results, NEW p \in {"answered", "decided"},
                 save'[d] = [save[d] EXCEPT !.pc = p, !.result = r]
          PROVE  save'[d].pc = p
      BY <3>1, <3>6 DEF Save
    <3> QED
      BY <3>2, <3>3, <3>4, <3>5, <3>6
  <2> QED
    BY <2>1, <2>2 DEF TypeOK
<1> QED
  BY <1>1, <1>2 DEF Next, vars

\* So whom the popup misled or told the truth changes only then, and who was misled stays
\* among those the worker refused.
LEMMA AcknowledgedByPopup ==
  ASSUME TypeOK, [Next]_vars, ~\E d \in Edits : PopupHears(d)
  PROVE  /\ Acknowledged' = Acknowledged
         /\ Refused \cap Acknowledged \subseteq Refused' /\ Refused' \subseteq Edits
<1>1. \A c \in Edits :
          /\ save[c].pc = "done" => save'[c] = save[c]
          /\ save'[c].pc = "done" => save[c].pc = "done" \/ save'[c].result = "failed"
  BY AnsweredByPopup
<1> QED
  BY <1>1 DEF Acknowledged, Confirmed, Misled, Refused

\* Every step stores edits, acknowledges one, or is none of the store's.
LEMMA StoreSteps ==
  ASSUME TypeOK, VaultInv, [Next]_vars, Confirmed' \subseteq log'[Len(log')]
  PROVE  [Store!StoreNext]_(Store!storeVars)
<1>1. CASE UNCHANGED log
  <2>1. CASE \E d \in Edits : PopupHears(d)
    <3>1. PICK d \in Edits : PopupHears(d)
      BY <2>1
    <3>2. /\ save[d].pc = "answered" /\ save'[d].pc = "done"
          /\ save'[d].result = save[d].result
          /\ \A c \in Edits \ {d} : save'[c] = save[c]
      BY <3>1 DEF PopupHears, Finished, TypeOK
    <3>3. Refused' = Refused
      BY <3>2 DEF Refused
    <3>4. CASE save[d].result \in {"saved", "locked"}
      <4>1. Acknowledged' = Acknowledged \cup {d}
        BY <3>2, <3>4 DEF Acknowledged, Confirmed, Misled
      <4>2. d \in log[Len(log)] \cup Refused
        BY <1>1, <3>2, <3>4 DEF Confirmed, Refused
      <4> QED
        BY <1>1, <3>3, <4>1, <4>2 DEF Store!StoreNext, Store!Acknowledge
    <3>5. CASE save[d].result \notin {"saved", "locked"}
      BY <1>1, <3>2, <3>3, <3>5 DEF Acknowledged, Confirmed, Misled, Store!storeVars
    <3> QED
      BY <3>4, <3>5
  <2>2. CASE ~\E d \in Edits : PopupHears(d)
    BY <1>1, <2>2, AcknowledgedByPopup DEF Store!StoreNext, Store!Refuse
  <2> QED
    BY <2>1, <2>2
<1>2. CASE ~UNCHANGED log
  <2>1. PICK d \in Edits : UpdateVault(d)
    BY <1>2 DEF Next, vars, ExtensionStep, SaveStep, RetrieveRow, RetrieveNothing, SetVaultKey,
                SetKeyAndEmptyVault, CacheVault, UnlockComplete, AutoLock, PressLock, LockVault,
                WorkerStops, OpenPopup, Retry, ClosePopup, CloseBrowser, EditAndSave,
                PopupGivesUp, WorkerTakes, PutFails, WorkerHears, PopupHears
  <2>2. /\ log' = Append(log, save[d].vault) /\ save[d].version = Len(log)
        /\ log \in Seq(Vaults) /\ Len(log) > 0 /\ save[d].vault \in SUBSET (Initial \cup Edits)
        /\ log[Len(log)] \subseteq save[d].vault
        /\ \A v \in DOMAIN log : log[v] \subseteq log[Len(log)]
        /\ log[1] = Initial
    <3>1. save[d] \in Save /\ SaveIsSound(d) /\ save[d].version # 0 /\ save[d].pc = "sent"
      BY <2>1 DEF UpdateVault, TypeOK, VaultInv, Working
    <3>2. log' = Append(log, save[d].vault) /\ save[d].version = Len(log)
      BY <1>2, <2>1 DEF UpdateVault, NextOfRow
    <3> QED
      BY <3>1, <3>2 DEF Save, Vaults, SaveIsSound, VaultInv, CommittedEditsSurvive, TypeOK
  <2>3. log'[Len(log')] = save[d].vault /\ Initial \subseteq log[Len(log)]
    BY <2>2
  <2>4. log'[Len(log')] = log[Len(log)] \cup (save[d].vault \cap Edits)
    BY <2>2, <2>3
  <2>5. ~\E c \in Edits : PopupHears(c)
    BY <1>2 DEF PopupHears
  <2>6. Acknowledged' = Acknowledged
    BY <2>5, AcknowledgedByPopup
  <2>7. Refused' = Refused
    <3>1. \A c \in Edits \ {d} : save'[c] = save[c]
      BY <2>1 DEF UpdateVault, TypeOK
    <3>2. save[d].pc = "sent"
      BY <2>1 DEF UpdateVault
    <3>3. ~(save'[d].pc \in {"answered", "done"} /\ save'[d].result = "locked")
      BY <2>1 DEF UpdateVault, Decided, Finished, TypeOK, Save
    <3> QED
      BY <3>1, <3>2, <3>3 DEF Refused
  <2> QED
    BY <2>4, <2>6, <2>7 DEF Store!StoreNext, Store!StoreEdits
<1> QED
  BY <1>1, <1>2

\* Relay, workers and popups together are a store that only grows, and whose users believe
\* only of a refused edit that it is stored when it is not.
THEOREM VaultImplementsEditStore == ASSUME LossFree PROVE Spec => ImplementsEditStore
<1>1. Init => Store!StoreInit
  BY DEF Init, Store!StoreInit, Acknowledged, Confirmed, Misled, Refused
<1>2. VaultInv => Confirmed \subseteq log[Len(log)]
  BY DEF VaultInv
<1>3. TypeOK /\ VaultInv /\ [Next]_vars /\ (Confirmed \subseteq log[Len(log)])'
        => [Store!StoreNext]_(Store!storeVars)
  BY StoreSteps
<1> QED
  BY <1>1, <1>2, <1>3, TypeCorrect, VaultInvariant, PTL
     DEF Spec, ImplementsEditStore, Store!StoreSpec

\* -------------------------------------------------------------------------
\* Whatever mishaps happen

\* A save holds its edit; and one that the relay or the worker calls saved is what the row
\* held as the next version.
Honest(d) ==
    /\ save[d].pc \in Working => d \in save[d].vault
    /\ save[d].pc \in {"decided", "answered"} /\ save[d].result = "saved" =>
           save[d].version + 1 \in DOMAIN log /\ log[save[d].version + 1] = save[d].vault

\* What a user takes as saved was once in the row, or a locked worker refused it.
ToldWasStored ==
    \A d \in Acknowledged : (\E v \in DOMAIN log : d \in log[v]) \/ save[d].result = "locked"

\* The row keeps the versions it had.
LEMMA LogGrows ==
  ASSUME TypeOK, [Next]_vars
  PROVE  \A v \in DOMAIN log : v \in DOMAIN log' /\ log'[v] = log[v]
<1>1. CASE UNCHANGED log
  BY <1>1
<1>2. CASE \E d \in Edits : UpdateVault(d)
  <2>1. PICK d \in Edits : UpdateVault(d)
    BY <1>2
  <2>2. log \in Seq(Vaults) /\ save[d].vault \in Vaults
    BY DEF TypeOK, Save
  <2> QED
    BY <2>1, <2>2 DEF UpdateVault
<1> QED
  BY <1>1, <1>2 DEF Next, vars, ExtensionStep, SaveStep, RetrieveRow, RetrieveNothing,
     SetVaultKey, SetKeyAndEmptyVault, CacheVault, UnlockComplete, AutoLock, PressLock,
     LockVault, WorkerStops, OpenPopup, Retry, ClosePopup, CloseBrowser, EditAndSave,
     PopupGivesUp, WorkerTakes, PutFails, WorkerHears, PopupHears

\* The steps of an extension give saves up or begin one.
LEMMA ExtensionIsHonest ==
  ASSUME TypeOK, NEW e \in Exts, ExtensionStep(e), NEW d \in Edits, Honest(d)
  PROVE  Honest(d)'
<1>1. UNCHANGED log
  BY DEF ExtensionStep, RetrieveRow, RetrieveNothing, SetVaultKey, SetKeyAndEmptyVault,
         CacheVault, UnlockComplete, AutoLock, PressLock, LockVault, WorkerStops, OpenPopup,
         Retry, ClosePopup, CloseBrowser, EditAndSave
<1>2. CASE UNCHANGED save
  BY <1>1, <1>2 DEF Honest
<1>3. CASE ClosePopup(e) \/ CloseBrowser(e)
  <2>1. PICK left \in SUBSET {"popup", "worker"}, for \in {"worker", "nobody"} :
            save' = Abandon(e, left, for)
    <3>1. CASE ClosePopup(e)
      BY <3>1, Zenon DEF ClosePopup
    <3>2. CASE CloseBrowser(e)
      BY <3>2, Zenon DEF CloseBrowser
    <3> QED
      BY <1>3, <3>1, <3>2
  <2>2. save'[d].pc \in Working => /\ save[d].pc = save'[d].pc /\ save[d].vault = save'[d].vault
                                   /\ save[d].version = save'[d].version
                                   /\ save[d].result = save'[d].result
    BY <2>1, AbandonIsSound
  <2> QED
    BY <1>1, <2>2 DEF Honest, Working
<1>4. ASSUME NEW c \in Edits, EditAndSave(e, c)
      PROVE  Honest(d)'
  BY <1>1, <1>4 DEF EditAndSave, Honest, Working, TypeOK
<1> QED
  BY <1>2, <1>3, <1>4
     DEF ExtensionStep, RetrieveRow, RetrieveNothing, SetVaultKey, SetKeyAndEmptyVault,
         CacheVault, UnlockComplete, AutoLock, PressLock, LockVault, WorkerStops, OpenPopup,
         Retry

\* The steps of a save: the relay calls saved what it appended, and the worker what the
\* relay calls so.
LEMMA SaveIsHonest ==
  ASSUME TypeOK, NEW c \in Edits, SaveStep(c), NEW d \in Edits, Honest(d)
  PROVE  Honest(d)'
<1>1. \A v \in DOMAIN log : v \in DOMAIN log' /\ log'[v] = log[v]
  BY LogGrows DEF Next
<1>2. CASE save'[d] = save[d]
  BY <1>1, <1>2 DEF Honest
<1>3. CASE d = c /\ (PopupGivesUp(c) \/ WorkerTakes(c) \/ PutFails(c) \/ WorkerHears(c))
  BY <1>1, <1>3, AnswerMoves DEF Honest, Working
<1>4. CASE d = c /\ UpdateVault(c)
  <2>1. /\ save[d] \in Save /\ save[d].pc = "sent" /\ d \in save[d].vault
        /\ log \in Seq(Vaults) /\ save[d].vault \in Vaults
    BY <1>4 DEF UpdateVault, TypeOK, Save, Honest, Working
  <2>2. PICK r \in {"saved", "conflict"} :
            /\ save'[d] = Decided(d, r)
            /\ r = "saved" => log' = Append(log, save[d].vault) /\ save[d].version = Len(log)
    BY <1>4 DEF UpdateVault, NextOfRow, TypeOK
  <2>3. CASE save[d].for = "nobody"
    BY <2>2, <2>3 DEF Decided, Finished, Honest, Working
  <2>4. CASE save[d].for # "nobody"
    <3>1. /\ save'[d].vault = save[d].vault /\ save'[d].version = save[d].version
          /\ save'[d].result = r
      BY <2>1, <2>2, <2>4 DEF Decided, Save
    <3>2. r = "saved" => /\ save[d].version + 1 \in DOMAIN log'
                         /\ log'[save[d].version + 1] = save[d].vault
      BY <2>1, <2>2
    <3> QED
      BY <2>1, <3>1, <3>2 DEF Honest
  <2> QED
    BY <2>3, <2>4
<1>5. CASE d = c /\ PopupHears(c)
  BY <1>5 DEF PopupHears, Finished, Honest, Working, TypeOK
<1>6. d # c => save'[d] = save[d]
  BY DEF SaveStep, PopupGivesUp, WorkerTakes, UpdateVault, PutFails, WorkerHears, PopupHears,
         TypeOK
<1> QED
  BY <1>2, <1>3, <1>4, <1>5, <1>6 DEF SaveStep

\* Who is told is told of a save that is honest.
LEMMA ToldStored ==
  ASSUME TypeOK, \A d \in Edits : Honest(d), ToldWasStored, [Next]_vars
  PROVE  ToldWasStored'
<1>1. \A v \in DOMAIN log : v \in DOMAIN log' /\ log'[v] = log[v]
  BY LogGrows
<1>2. CASE ~\E d \in Edits : PopupHears(d)
  <2>1. ASSUME NEW c \in Acknowledged'
        PROVE  c \in Acknowledged /\ save'[c] = save[c]
    <3>1. /\ c \in Edits /\ save'[c].pc = "done" /\ save'[c].result \in {"saved", "locked"}
      BY DEF Acknowledged, Confirmed, Misled
    <3>2. save[c].pc = "done" /\ save'[c] = save[c]
      BY <1>2, <3>1, AnsweredByPopup
    <3> QED
      BY <3>1, <3>2 DEF Acknowledged, Confirmed, Misled
  <2> QED
    BY <1>1, <2>1 DEF ToldWasStored
<1>3. ASSUME NEW d \in Edits, PopupHears(d)
      PROVE  ToldWasStored'
  <2>1. /\ UNCHANGED log /\ save[d].pc = "answered" /\ save'[d].result = save[d].result
        /\ \A c \in Edits \ {d} : save'[c] = save[c]
    BY <1>3 DEF PopupHears, Finished, TypeOK
  <2>2. save[d].result = "saved" => \E v \in DOMAIN log : d \in log[v]
    BY <2>1 DEF Honest, Working
  <2>3. \A c \in Acknowledged' :
            \/ c \in Acknowledged /\ save'[c] = save[c]
            \/ c = d /\ save[d].result \in {"saved", "locked"}
    BY <2>1 DEF Acknowledged, Confirmed, Misled
  <2>4. ASSUME NEW c \in Acknowledged'
        PROVE  (\E v \in DOMAIN log : c \in log[v]) \/ save'[c].result = "locked"
    <3>1. CASE c \in Acknowledged /\ save'[c] = save[c]
      BY <3>1 DEF ToldWasStored
    <3>2. CASE c = d /\ save[d].result = "saved"
      BY <2>2, <3>2
    <3>3. CASE c = d /\ save[d].result = "locked"
      BY <2>1, <3>3
    <3> QED
      BY <2>3, <3>1, <3>2, <3>3
  <2> QED
    BY <2>1, <2>4 DEF ToldWasStored
<1> QED
  BY <1>2, <1>3

\* Under every mishap, also those that lose edits, only a locked worker's answer makes a
\* popup take an edit as saved that the relay never stored: late, lost and refused answers
\* of the relay are never taken for a success.
THEOREM OnlyLockedAnswersMislead == Spec => []ToldWasStored
<1> DEFINE Inv == ToldWasStored /\ \A d \in Edits : Honest(d)
<1>1. Init => Inv
  BY DEF Init, Honest, Working, ToldWasStored, Acknowledged, Confirmed, Misled
<1>2. TypeOK /\ Inv /\ [Next]_vars => Inv'
  <2> SUFFICES ASSUME TypeOK, Inv, [Next]_vars PROVE Inv'
    OBVIOUS
  <2>1. ASSUME NEW d \in Edits PROVE Honest(d)'
    <3>1. CASE UNCHANGED vars
      BY <3>1 DEF vars, Honest
    <3> QED
      BY <3>1, ExtensionIsHonest, SaveIsHonest DEF Next
  <2> QED
    BY <2>1, ToldStored
<1>3. Inv => ToldWasStored
  OBVIOUS
<1> HIDE DEF Inv
<1> QED
  BY <1>1, <1>2, <1>3, TypeCorrect, PTL DEF Spec
=============================================================================
