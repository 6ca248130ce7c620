------------------------------ MODULE Settings ------------------------------
(***************************************************************************)
(* The settings that are kept in chrome.storage.local: settings pages in   *)
(* several tabs that load and write them (extension/settings/settings.js), *)
(* a popup that follows them (extension/popup/popup.js), and the service   *)
(* worker that reads them (extension/background/service-worker.js).        *)
(*                                                                         *)
(* A click writes to the storage at once (the next click is slower than    *)
(* the write), but a page reads the storage when it asks for it, uses what *)
(* it read in a later callback, and there writes every slider back; it     *)
(* writes a slider back, too, when its number field is left; and the popup *)
(* hears of a change some time after it.                                   *)
(***************************************************************************)
EXTENDS Naturals, Sequences

CONSTANTS Tabs,        \* settings pages
          Sliders,     \* the sliders that are moved, see Limits
          Typed,       \* what a slider's number field may hold
          NotANumber,  \* what parseInt makes of an empty field
          Picked,      \* the languages that are picked
          MaxClicks,   \* bound: changes made by the user
          MaxChanges,  \* bound: events on their way to the popup
          Unset        \* no value in the storage

Limits == [autoLockMinutes |-> [least |-> 1,  most |-> 60, standard |-> 15],
           qrExpirySecs    |-> [least |-> 20, most |-> 50, standard |-> 45],
           fontSize        |-> [least |-> 12, most |-> 20, standard |-> 15]]

\* The languages of settings.html's picker.
Languages == {"en", "es", "de", "hr", "it", "zh", "ru", "ja", "fr", "ar", "hi", "ko"}

Keys == Sliders \cup {"language", "animationsEnabled"}

ASSUME SlidersAssumption == Sliders \subseteq DOMAIN Limits /\ "fontSize" \in Sliders
ASSUME TypedAssumption == Typed \subseteq Nat \cup {NotANumber} /\ NotANumber \notin Nat
ASSUME PickedAssumption == Picked \subseteq Languages
ASSUME ClicksAssumption == MaxClicks \in Nat /\ MaxChanges \in Nat
ASSUME UnsetAssumption == Unset \notin Nat \cup Languages \cup BOOLEAN

VARIABLES
    store,    \* chrome.storage.local: key by key
    tab,      \* per tab: how far it has loaded, what it read, what it shows
    popup,    \* is it open, and what it shows
    changes,  \* the onChanged events on their way to the popup
    clicks,   \* how many changes the user made
    chosen,   \* history: per slider, what the user chose last
    wished,   \* history: per slider, all that the user ever chose
    crossed,  \* history: the sliders that a page may write or wrote an older value of
    wasReset  \* history: were the settings reset since the popup opened

vars == <<store, tab, popup, changes, clicks, chosen, wished, crossed, wasReset>>

\* -------------------------------------------------------------------------
\* Types

Or(value, default) == IF value = Unset THEN default ELSE value

ValuesOf(k) ==
    CASE k \in Sliders -> Limits[k].least .. Limits[k].most
      [] k = "language" -> Languages
      [] k = "animationsEnabled" -> BOOLEAN

Standard(k) ==
    CASE k \in Sliders -> Limits[k].standard
      [] k = "language" -> "en"
      [] k = "animationsEnabled" -> TRUE

Empty == [k \in Keys |-> Unset]

Standards == [k \in Keys |-> Standard(k)]

IsValues(f, unset) == DOMAIN f = Keys /\ \A k \in Keys : f[k] \in ValuesOf(k) \cup unset

\* "asked": storage.get is on its way.  "read": its callback is due.
TypeOK ==
    /\ IsValues(store, {Unset})
    /\ \A t \in Tabs :
           /\ tab[t].pc \in {"closed", "asked", "read", "ready"}
           /\ IsValues(tab[t].got, {Unset}) /\ IsValues(tab[t].shows, {})
    /\ popup.open \in BOOLEAN /\ popup.fontSize \in ValuesOf("fontSize")
    /\ popup.language \in Languages /\ popup.animations \in BOOLEAN
    /\ \A n \in DOMAIN changes : DOMAIN changes[n] \subseteq Keys
    /\ clicks \in 0..MaxClicks
    /\ \A k \in Sliders : chosen[k] \in ValuesOf(k) /\ wished[k] \subseteq ValuesOf(k)
    /\ crossed \subseteq Sliders /\ wasReset \in BOOLEAN

ClosedTab == [pc |-> "closed", got |-> Empty, shows |-> Standards]

ClosedPopup == [open |-> FALSE, language |-> "en", fontSize |-> 15, animations |-> TRUE]

Init ==
    /\ store = Empty
    /\ tab = [t \in Tabs |-> ClosedTab]
    /\ popup = ClosedPopup /\ changes = <<>>
    /\ clicks = 0
    /\ chosen = [k \in Sliders |-> Standard(k)]
    /\ wished = [k \in Sliders |-> {Standard(k)}]
    /\ crossed = {} /\ wasReset = FALSE

\* -------------------------------------------------------------------------
\* Reading

\* Faulty variant: a number field of 0 counts as empty.
OrStandard(k, v) ==
    LET n == IF v \in {NotANumber, 0} THEN Limits[k].standard ELSE v IN
    IF n < Limits[k].least THEN Limits[k].least
    ELSE IF n > Limits[k].most THEN Limits[k].most ELSE n

\* Faulty variant: nothing is raised to the least value.
ClampedAbove(k, v) ==
    LET n == IF v = NotANumber THEN Limits[k].standard ELSE v IN
    IF n > Limits[k].most THEN Limits[k].most ELSE n

\* setAutoLock, setQrExpiry, setFontSize.
Clamped(k, v) ==
    LET n == IF v = NotANumber THEN Limits[k].standard ELSE v IN
    IF n < Limits[k].least THEN Limits[k].least
    ELSE IF n > Limits[k].most THEN Limits[k].most ELSE n

\* createUnlockSession and the auto-lock alarm read the storage themselves, each with a
\* default and limits of its own.
WorkerUses(k) ==
    LET n == Or(store[k], IF k = "qrExpirySecs" THEN 45 ELSE 15) IN
    CASE k = "qrExpirySecs" -> IF n < 20 THEN 20 ELSE IF n > 50 THEN 50 ELSE n
      [] k = "autoLockMinutes" -> IF n < 1 THEN 1 ELSE n
      [] OTHER -> n

\* -------------------------------------------------------------------------
\* The storage

\* set: the popup hears of the keys whose values changed.
Put(values) ==
    LET changed == {k \in DOMAIN values : store[k] # values[k]} IN
    /\ Len(changes) < MaxChanges
    /\ store' = [k \in Keys |-> IF k \in DOMAIN values THEN values[k] ELSE store[k]]
    /\ changes' = IF popup.open /\ changed # {}
                  THEN Append(changes, [k \in changed |-> values[k]]) ELSE changes

\* -------------------------------------------------------------------------
\* A settings page

OpenTab(t) ==
    /\ tab[t].pc = "closed"
    /\ tab' = [tab EXCEPT ![t].pc = "asked"]
    /\ UNCHANGED <<store, popup, changes, clicks, chosen, wished, crossed, wasReset>>

ReadStore(t) ==
    /\ tab[t].pc = "asked"
    /\ tab' = [tab EXCEPT ![t].pc = "read", ![t].got = store]
    /\ UNCHANGED <<store, popup, changes, clicks, chosen, wished, crossed, wasReset>>

\* What the callback makes of the sliders: the standards where nothing is stored.
SliderValues(got) == [k \in Sliders |-> Clamped(k, Or(got[k], Limits[k].standard))]

\* The callback: it shows what was read, and setAutoLock, setQrExpiry and setFontSize store
\* the sliders.
Load(t) ==
    /\ tab[t].pc = "read"
    /\ LET values == SliderValues(tab[t].got) IN
       /\ tab' = [tab EXCEPT ![t] =
              [pc |-> "ready", got |-> Empty,
               shows |-> [k \in Keys |-> IF k \in DOMAIN values THEN values[k]
                                         ELSE Or(tab[t].got[k], Standard(k))]]]
       /\ Put(values)
    /\ UNCHANGED <<popup, clicks, chosen, wished, crossed, wasReset>>

\* The sliders whose change by tab t a loading page is about to undo.
LoadingElsewhere(t) == \E u \in Tabs \ {t} : tab[u].pc = "read"

Click(t) ==
    /\ tab[t].pc = "ready" /\ clicks < MaxClicks
    /\ clicks' = clicks + 1

\* What the user means by a number: the nearest that is allowed.
Nearest(k, v) ==
    IF v = NotANumber THEN Limits[k].standard
    ELSE CHOOSE n \in ValuesOf(k) :
             \A m \in ValuesOf(k) : (n <= v => m <= n \/ m > v) /\ (n > v => m >= n)

\* A slider is moved, or its number field typed into.
MoveSlider(t, k, v) ==
    /\ Click(t)
    /\ tab' = [tab EXCEPT ![t].shows[k] = Clamped(k, v)]
    /\ Put([key \in {k} |-> Clamped(k, v)])
    /\ chosen' = [chosen EXCEPT ![k] = Nearest(k, v)]
    /\ wished' = [wished EXCEPT ![k] = @ \cup {Nearest(k, v)}]
    /\ crossed' = IF LoadingElsewhere(t) THEN crossed \cup {k} ELSE crossed \ {k}
    /\ UNCHANGED <<popup, wasReset>>

\* Does page t show another number than the one stored, which another page has changed?
Outdated(t, k) == Or(store[k], Limits[k].standard) # tab[t].shows[k]

\* A slider's number field loses the focus: its blur handler stores what the page shows,
\* although the user chose nothing.
LeaveField(t, k) ==
    /\ tab[t].pc = "ready"
    /\ tab' = [tab EXCEPT ![t].shows[k] = Clamped(k, @)]
    /\ Put([key \in {k} |-> Clamped(k, tab[t].shows[k])])
    /\ crossed' = IF Outdated(t, k) THEN crossed \cup {k} ELSE crossed
    /\ UNCHANGED <<popup, clicks, chosen, wished, wasReset>>

PickLanguage(t, l) ==
    /\ Click(t)
    /\ tab' = [tab EXCEPT ![t].shows["language"] = l]
    /\ Put([language |-> l])
    /\ UNCHANGED <<popup, chosen, wished, crossed, wasReset>>

\* The switch turns what this page shows, which another page may have changed since.
ToggleAnimations(t) ==
    /\ Click(t)
    /\ tab' = [tab EXCEPT ![t].shows["animationsEnabled"] = ~@]
    /\ Put([animationsEnabled |-> ~tab[t].shows["animationsEnabled"]])
    /\ UNCHANGED <<popup, chosen, wished, crossed, wasReset>>

\* btn-reset-settings, confirmed: the storage is cleared, then the page is loaded anew.
Reset(t) ==
    /\ Click(t)
    /\ Put(Empty)
    /\ tab' = [tab EXCEPT ![t].pc = "asked"]
    /\ chosen' = [k \in Sliders |-> Standard(k)]
    /\ wished' = [k \in Sliders |-> wished[k] \cup {Standard(k)}]
    /\ crossed' = IF LoadingElsewhere(t) THEN Sliders ELSE {}
    /\ wasReset' = popup.open
    /\ UNCHANGED popup

CloseTab(t) ==
    /\ tab[t].pc # "closed"
    /\ tab' = [tab EXCEPT ![t] = ClosedTab]
    /\ UNCHANGED <<store, popup, changes, clicks, chosen, wished, crossed, wasReset>>

\* -------------------------------------------------------------------------
\* The popup

OpenPopup ==
    /\ ~popup.open
    /\ popup' = [open |-> TRUE, language |-> Or(store["language"], "en"),
                 fontSize |-> Or(store["fontSize"], 15),
                 animations |-> store["animationsEnabled"] # FALSE]
    /\ wasReset' = FALSE
    /\ UNCHANGED <<store, tab, changes, clicks, chosen, wished, crossed>>

ClosePopup ==
    /\ popup.open
    /\ popup' = ClosedPopup /\ changes' = <<>>
    /\ UNCHANGED <<store, tab, clicks, chosen, wished, crossed, wasReset>>

\* Faulty variant: a removed value changes nothing.
KeptWithout(change, k, old, default) ==
    IF k \in DOMAIN change /\ change[k] # Unset THEN change[k] ELSE old

NewOr(change, k, old, default) ==
    IF k \in DOMAIN change THEN Or(change[k], default) ELSE old

\* The onChanged listener.  A removed animationsEnabled counts as off.
HearChange ==
    /\ changes # <<>>
    /\ LET change == Head(changes) IN
       popup' = [open |-> TRUE,
                 language |-> NewOr(change, "language", popup.language, "en"),
                 fontSize |-> NewOr(change, "fontSize", popup.fontSize, 15),
                 animations |-> NewOr(change, "animationsEnabled", popup.animations, FALSE)]
    /\ changes' = Tail(changes)
    /\ UNCHANGED <<store, tab, clicks, chosen, wished, crossed, wasReset>>

\* -------------------------------------------------------------------------

TabStep(t) ==
    \/ OpenTab(t) \/ ReadStore(t) \/ Load(t) \/ CloseTab(t)
    \/ \E k \in Sliders : LeaveField(t, k) \/ \E v \in Typed : MoveSlider(t, k, v)
    \/ \E l \in Picked : PickLanguage(t, l)
    \/ ToggleAnimations(t) \/ Reset(t)

Next ==
    \/ \E t \in Tabs : TabStep(t)
    \/ OpenPopup \/ ClosePopup \/ HearChange

Spec == Init /\ [][Next]_vars

\* -------------------------------------------------------------------------
\* Properties

\* The worker uses the number the user chose last, or the nearest that is allowed, whatever
\* was typed, reset or loaded since.  A page may have written an older one back: one that
\* was loading when the user chose, or one that shows an older number when its number field
\* is left.  That is still a number the user chose once, never one that nobody chose.
ChoiceIsUsed ==
    \A k \in Sliders :
        /\ WorkerUses(k) \in wished[k]
        /\ k \notin crossed => WorkerUses(k) = chosen[k]

\* "Live-update when settings change while popup is open": once the popup has heard of all
\* changes it looks as one that is opened now.  After a reset its animations are off
\* although they are on again everywhere else, so that is left out.
PopupFollows ==
    popup.open /\ changes = <<>> =>
        /\ popup.language = Or(store["language"], "en")
        /\ popup.fontSize = Or(store["fontSize"], 15)
        /\ wasReset \/ popup.animations = (store["animationsEnabled"] # FALSE)
=============================================================================
