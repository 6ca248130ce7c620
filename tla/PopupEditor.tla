---------------------------- MODULE PopupEditor ----------------------------
(***************************************************************************)
(* The vault page of the popup (extension/popup/popup.js): the lists of    *)
(* passwords and of one-time codes, their forms, their Delete buttons and  *)
(* one-second timers, all working on one copy _vault that is changed first *)
(* and saved afterwards.                                                   *)
(*                                                                         *)
(* A click handler is one action up to its next await.  The service worker *)
(* and the relay are one place that answers the popup's requests some time *)
(* later (what happens in between is the matter of VaultSync), and the QR  *)
(* and biometric views count as "locked" (see UnlockWorker).  A vault is a *)
(* set of entries; the text of an entry is the number of the request that  *)
(* wrote it, so that a later text is a greater number.                     *)
(***************************************************************************)
EXTENDS Naturals, Sequences, FiniteSets

CONSTANTS Initial,   \* the vault at the relay when the story begins
          MaxCalls,  \* bound: GET_VAULT and SAVE_VAULT requests
          MaxOpen,   \* bound: how many of them are open at the same time
          None       \* no vault, no copy

Kinds == {"credentials", "totps"}

\* uid() gives the entry that request n adds the id n.  0 is no id: the form of a new entry.
Entries == [kind : Kinds, id : Nat, text : Nat]

ASSUME MaxCallsAssumption == MaxCalls \in Nat /\ MaxOpen \in Nat
ASSUME InitialAssumption ==
    \A x \in Initial : x \in Entries /\ x.id > MaxCalls /\ x.text = 0

VARIABLES
    log,       \* the vaults the relay has held: version v was log[v]
    cache,     \* the worker's _vaultCache while it is unlocked, None while it is locked
    view,      \* what the popup shows
    vault,     \* _vault
    version,   \* _vaultVersion; 0 is undefined
    rows,      \* the entries on the page, as they were when it was drawn
    ticking,   \* the ids in _totpTimers: rows whose code is kept current
    form,      \* the form on the page: its kind, and the id being edited
    calls,     \* the requests made so far
    deleted,   \* history: the ids whose deletion the user confirmed
    overtaken  \* history: the ids that a load changed back while a save was awaited

vars == <<log, cache, view, vault, version, rows, ticking, form, calls, deleted, overtaken>>

page == <<view, vault, version, rows, ticking, form>>

\* -------------------------------------------------------------------------
\* Types

NoForm == [kind |-> "none", id |-> 0]

Forms == [kind : Kinds, id : Nat] \cup {NoForm}

\* op, kind and id: what the save is for.  waits: the popup still waits for the answer.
\* "shut" is the answer of a locked worker.
Call == [op : {"load", "add", "edit", "delete"}, kind : Kinds \cup {"none"}, id : Nat,
         vault : SUBSET Entries, version : Nat,
         pc : {"asked", "answered", "done"}, waits : BOOLEAN,
         result : {"none", "ok", "shut", "failed"}]

TypeOK ==
    /\ log \in Seq(SUBSET Entries) /\ Len(log) > 0
    /\ cache \in [vault : SUBSET Entries, version : 1..Len(log)] \cup {None}
    /\ view \in {"closed", "locked", "unlocked"}
    /\ vault \in (SUBSET Entries) \cup {None}
    /\ version \in 0..Len(log)
    /\ rows \in SUBSET Entries
    /\ ticking \in SUBSET Nat
    /\ form \in Forms
    /\ calls \in Seq(Call) /\ Len(calls) <= MaxCalls
    /\ deleted \in SUBSET Nat
    /\ overtaken \in SUBSET Nat

Latest == [vault |-> log[Len(log)], version |-> Len(log)]

Init ==
    /\ log = <<Initial>>
    /\ cache = None
    /\ view = "closed"
    /\ vault = None /\ version = 1
    /\ rows = {} /\ ticking = {} /\ form = NoForm
    /\ calls = <<>>
    /\ deleted = {} /\ overtaken = {}

\* -------------------------------------------------------------------------
\* Requests

MayAsk ==
    /\ Len(calls) < MaxCalls
    /\ Cardinality({n \in DOMAIN calls : calls[n].pc # "done"}) < MaxOpen

Asking(op, kind, id, v) ==
    Append(calls, [op |-> op, kind |-> kind, id |-> id, vault |-> v, version |-> version,
                   pc |-> "asked", waits |-> TRUE, result |-> "none"])

\* loadVault, up to its await.
AskLoad == MayAsk /\ calls' = Asking("load", "none", 0, {})

Finished(call, result, n) ==
    [call EXCEPT !.pc = "done", !.waits = FALSE, !.vault = {}, !.version = n, !.result = result]

Answered(n, result, copy) ==
    [calls EXCEPT ![n] = IF ~@.waits THEN Finished(@, "failed", 0)
                         ELSE [@ EXCEPT !.pc = "answered", !.result = result,
                                        !.vault = copy.vault, !.version = copy.version]]

NoCopy == [vault |-> {}, version |-> 0]

\* GET_VAULT: the worker's cache, or that it is locked.
ServeLoad(n) ==
    /\ calls[n].op = "load" /\ calls[n].pc = "asked"
    /\ calls' = IF cache = None THEN Answered(n, "shut", NoCopy) ELSE Answered(n, "ok", cache)
    /\ UNCHANGED <<log, cache, page, deleted, overtaken>>

\* Faulty variant: the relay takes an older version, too.
NoNewer(n) == calls[n].version <= Len(log)

NextVersion(n) == calls[n].version = Len(log)

\* Faulty variant: the worker advances the version of the vault it has.
NextOfCached(n) == [vault |-> cache.vault, version |-> Len(log) + 1]

\* Faulty variant: the worker adds one to the version that the relay answered.
CountedTwice(n) == [vault |-> calls[n].vault, version |-> Len(log) + 2]

SavedCopy(n) == [vault |-> calls[n].vault, version |-> Len(log) + 1]

\* SAVE_VAULT: the relay takes the next version only, and the worker caches what it saved.
\* heard: the relay's answer reaches the worker.
ServeSave(n, heard) ==
    /\ calls[n].op # "load" /\ calls[n].pc = "asked"
    /\ cache # None /\ NextVersion(n)
    /\ log' = Append(log, calls[n].vault)
    /\ cache' = IF heard THEN SavedCopy(n) ELSE cache
    /\ calls' = IF heard THEN Answered(n, "ok", [NoCopy EXCEPT !.version = Len(log')])
                ELSE Answered(n, "failed", NoCopy)
    /\ UNCHANGED <<page, deleted, overtaken>>

\* The worker is locked, or the PUT is refused or lost.
RefuseSave(n) ==
    /\ calls[n].op # "load" /\ calls[n].pc = "asked"
    /\ calls' = Answered(n, IF cache = None THEN "shut" ELSE "failed", NoCopy)
    /\ UNCHANGED <<log, cache, page, deleted, overtaken>>

\* The popup waits no longer: the request goes on, its answer is dropped.
Unheard(call) ==
    IF call.pc = "answered" THEN Finished(call, "failed", 0) ELSE [call EXCEPT !.waits = FALSE]

\* sw()'s timer.
GiveUp(n) ==
    /\ calls[n].waits
    /\ calls' = [calls EXCEPT ![n] = Unheard(@)]
    /\ UNCHANGED <<log, cache, page, deleted, overtaken>>

\* -------------------------------------------------------------------------
\* Drawing

OfKind(k, entries) == {x \in entries : x.kind = k}

IdsOf(entries) == {x.id : x \in entries}

\* Faulty variant: only rows that are not there yet are drawn.
NewRowsDrawn(k, old, entries) ==
    old \cup {x \in OfKind(k, entries) : x.id \notin IdsOf(old)}

\* renderCredentials, renderTotps: every row of the kind is made anew.
Drawn(k, old, entries) == (old \ OfKind(k, old)) \cup OfKind(k, entries)

\* Faulty variant: the timers of the rows that were there go on.
TimersAdded(old, entries) == old \cup IdsOf(OfKind("totps", entries))

\* renderTotps clears all timers it knows and starts one per row.
Timers(old, entries) == IdsOf(OfKind("totps", entries))

\* -------------------------------------------------------------------------
\* Opening and closing

\* init and its GET_STATUS.
OpenPopup ==
    /\ view = "closed"
    /\ IF cache = None THEN view' = "locked" /\ UNCHANGED calls
       ELSE view' = "unlocked" /\ AskLoad
    /\ UNCHANGED <<log, cache, vault, version, rows, ticking, form, deleted, overtaken>>

ClosePopup ==
    /\ view # "closed"
    /\ view' = "closed"
    /\ vault' = None /\ version' = 1
    /\ rows' = {} /\ ticking' = {} /\ form' = NoForm
    /\ calls' = [n \in DOMAIN calls |-> Unheard(calls[n])]
    /\ UNCHANGED <<log, cache, deleted, overtaken>>

\* UNLOCK_COMPLETE: the worker holds the vault it retrieved, an open popup loads it.  An
\* unlock begins in the locked view.
UnlockComplete ==
    /\ cache = None /\ view # "unlocked"
    /\ cache' = Latest
    /\ IF view = "closed" THEN UNCHANGED <<view, calls>>
       ELSE view' = "unlocked" /\ AskLoad
    /\ UNCHANGED <<log, vault, version, rows, ticking, form, deleted, overtaken>>

\* The auto-lock alarm and its VAULT_LOCKED, or the lock button: the page behind the locked
\* view stays as it is, its form, its timers and _vault included.
VaultLocked ==
    /\ cache # None
    /\ cache' = None
    /\ view' = IF view = "closed" THEN view ELSE "locked"
    /\ UNCHANGED <<log, vault, version, rows, ticking, form, calls, deleted, overtaken>>

\* Chrome stops the idle worker: its memory is lost and nobody tells the popup, which goes
\* on showing the vault.
WorkerStops ==
    /\ cache # None
    /\ cache' = None
    /\ UNCHANGED <<log, page, calls, deleted, overtaken>>

\* The locked view over an unlocked worker: LOCK was lost, or a stale QR_EXPIRED came.
ShowLocked ==
    /\ view = "unlocked"
    /\ view' = "locked"
    /\ UNCHANGED <<log, cache, vault, version, rows, ticking, form, calls, deleted,
                   overtaken>>

\* -------------------------------------------------------------------------
\* Editing

Usable == view = "unlocked" /\ vault # None

\* The add buttons, with id 0, and the edit button of a row.  The other form is hidden.
OpenForm(k, id) ==
    /\ view = "unlocked"
    /\ id = 0 \/ id \in IdsOf(OfKind(k, rows))
    /\ form' = [kind |-> k, id |-> id]
    /\ UNCHANGED <<log, cache, view, vault, version, rows, ticking, calls, deleted,
                   overtaken>>

\* Cancel, or another tab.
HideForms ==
    /\ view = "unlocked" /\ form # NoForm
    /\ form' = NoForm
    /\ UNCHANGED <<log, cache, view, vault, version, rows, ticking, calls, deleted,
                   overtaken>>

\* push, or Object.assign to the entry that find returns, if it does.
Edited(k, id, n) ==
    IF id = 0 THEN vault \cup {[kind |-> k, id |-> n, text |-> n]}
    ELSE {IF x.kind = k /\ x.id = id THEN [x EXCEPT !.text = n] ELSE x : x \in vault}

\* cf-save, tf-save: _vault changes at once, and saveVault sends all of it.
PressSave ==
    /\ Usable /\ form # NoForm /\ MayAsk
    /\ LET n == Len(calls) + 1
           op == IF form.id = 0 THEN "add" ELSE "edit"
           id == IF form.id = 0 THEN n ELSE form.id IN
       /\ vault' = Edited(form.kind, form.id, n)
       /\ calls' = Asking(op, form.kind, id, vault')
    /\ UNCHANGED <<log, cache, view, version, rows, ticking, form, deleted, overtaken>>

Without(k, id) == {x \in vault : x.kind # k \/ x.id # id}

\* The delete button of a row, confirmed.
Delete(row) ==
    /\ Usable /\ MayAsk
    /\ vault' = Without(row.kind, row.id)
    /\ ticking' = IF row.kind = "totps" THEN ticking \ {row.id} ELSE ticking
    /\ calls' = Asking("delete", row.kind, row.id, vault')
    /\ deleted' = deleted \cup {row.id}
    /\ UNCHANGED <<log, cache, view, version, rows, form, overtaken>>

\* -------------------------------------------------------------------------
\* Answers

Awaited == {n \in DOMAIN calls : calls[n].waits /\ calls[n].op # "load"}

\* The entries of _vault that a loaded copy has not, or differently, and the other way round.
Undone(copy) == IdsOf((vault \ copy) \cup (copy \ vault))

\* loadVault: the answer replaces _vault, whatever was done to it since the request.
HearLoad(n) ==
    /\ calls[n].op = "load" /\ calls[n].pc = "answered"
    /\ calls' = [calls EXCEPT ![n] = Finished(@, @.result, @.version)]
    /\ IF calls[n].result = "ok"
       THEN /\ vault' = calls[n].vault /\ version' = calls[n].version
            /\ rows' = Drawn("totps", Drawn("credentials", rows, vault'), vault')
            /\ ticking' = Timers(ticking, vault')
            /\ overtaken' = overtaken \cup (IF Awaited = {} THEN {} ELSE Undone(vault'))
            /\ UNCHANGED view
       ELSE /\ view' = IF calls[n].result = "shut" THEN "locked" ELSE view
            /\ UNCHANGED <<vault, version, rows, ticking, overtaken>>
    /\ UNCHANGED <<log, cache, form, deleted>>

\* saveVault: an error is shown and nothing is drawn; _vault keeps what was done to it.
\* "shut" is no error to the popup: the version becomes undefined.
HearSave(n) ==
    /\ calls[n].op # "load" /\ calls[n].pc = "answered"
    /\ calls' = [calls EXCEPT ![n] = Finished(@, @.result, @.version)]
    /\ IF calls[n].result # "failed"
       THEN /\ version' = IF calls[n].result = "shut" THEN 0 ELSE calls[n].version
            /\ rows' = Drawn(calls[n].kind, rows, vault)
            /\ ticking' = IF calls[n].kind = "totps" THEN Timers(ticking, vault) ELSE ticking
            /\ form' = IF calls[n].op # "delete" /\ form.kind = calls[n].kind THEN NoForm
                       ELSE form
       ELSE UNCHANGED <<version, rows, ticking, form>>
    /\ UNCHANGED <<log, cache, view, vault, deleted, overtaken>>

\* -------------------------------------------------------------------------

PageStep ==
    \/ OpenPopup \/ ClosePopup \/ UnlockComplete \/ VaultLocked \/ WorkerStops \/ ShowLocked
    \/ \E k \in Kinds : \E id \in {0} \cup IdsOf(rows) : OpenForm(k, id)
    \/ HideForms \/ PressSave
    \/ \E row \in rows : Delete(row)

CallStep(n) ==
    \/ ServeLoad(n) \/ RefuseSave(n) \/ GiveUp(n) \/ HearLoad(n) \/ HearSave(n)
    \/ \E heard \in BOOLEAN : ServeSave(n, heard)

Next == PageStep \/ \E n \in DOMAIN calls : CallStep(n)

Spec == Init /\ [][Next]_vars

\* -------------------------------------------------------------------------
\* Properties

\* The relay's row loses no entry and no later text of one, however saves fail and cross,
\* except what the user deleted and what a reload undid while a save was awaited: the popup
\* changes its copy before the save, and keeps the change when the save fails.
Keeps(old, new) ==
    \A x \in old :
        \/ x.id \in deleted \cup overtaken
        \/ \E y \in new : y.kind = x.kind /\ y.id = x.id /\ y.text >= x.text

StoredEntriesSurvive == \A v, w \in DOMAIN log : v <= w => Keeps(log[v], log[w])

\* Was the popup told that request n is done?
Told(n) == n \in DOMAIN calls /\ calls[n].pc = "done" /\ calls[n].result \in {"ok", "shut"}

Holds(entries, k, id) == \E y \in entries : y.kind = k /\ y.id = id

\* A deletion the popup took as saved has reached the relay's row, but for the locked
\* worker's answer, which the popup takes as saved although nothing was stored.  And
\* whatever the popup was told, an entry that has left the row does not come back, although
\* every save sends the whole vault and several may cross; but for what a reload undid
\* while a save was awaited.
DeletionIsFinal ==
    /\ \A n \in DOMAIN calls :
           Told(n) /\ calls[n].op = "delete" /\ calls[n].id \notin overtaken =>
               \/ calls[n].result = "shut"
               \/ /\ calls[n].version \in DOMAIN log
                  /\ ~Holds(log[calls[n].version], calls[n].kind, calls[n].id)
    /\ \A u, v, w \in DOMAIN log : u < v /\ v < w =>
           \A x \in log[u] :
               x.id \in overtaken \/ ~Holds(log[w], x.kind, x.id) \/ Holds(log[v], x.kind, x.id)

\* The page shows _vault but for what is under way or failed: an entry that is not shown
\* as it is has a save that the popup was not told is done, and a row without its entry
\* one that the user deleted.
RowsMatchVault ==
    vault # None =>
        /\ \A x \in vault : x \in rows \/ (x.text # 0 /\ ~Told(x.text))
        /\ \A r \in rows : r.id \in IdsOf(vault) \cup deleted

\* The code of every one-time-code row is kept current until the user deletes the row (a
\* deletion that fails leaves the row with a code that no longer changes), and no timer
\* runs for a row that is not there.
CodesAreCurrent ==
    LET shown == IdsOf(OfKind("totps", rows)) IN
    shown \ deleted \subseteq ticking /\ ticking \subseteq shown
=============================================================================
