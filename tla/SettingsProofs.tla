--------------------------- MODULE SettingsProofs ---------------------------
(***************************************************************************)
(* Proofs about Settings for any tabs, any sliders of Limits, any typed    *)
(* numbers and any number of clicks and events: types, that the worker     *)
(* uses a number that was chosen, the last one unless a page wrote an      *)
(* older one back, and that an open popup comes to what is stored.  And,   *)
(* with the types that ThemePickerProofs proves, the types of MCSettings.  *)
(***************************************************************************)
EXTENDS MCSettings, ThemePickerProofs

\* -------------------------------------------------------------------------
\* The keys, their values and their limits

\* No slider is called as one of the other two keys.
LEMMA KeysDiffer ==
  /\ "language" \in Keys /\ "animationsEnabled" \in Keys /\ "fontSize" \in Keys
  /\ Sliders \subseteq Keys /\ "fontSize" \in Sliders
  /\ "language" \notin Sliders /\ "animationsEnabled" \notin Sliders
  BY SlidersAssumption DEF Keys, Limits

\* The standard of every slider is within its limits.
LEMMA LimitsTyped ==
  ASSUME NEW k \in Sliders
  PROVE  /\ Limits[k].least \in Nat /\ Limits[k].most \in Nat /\ Limits[k].standard \in Nat
         /\ Limits[k].least <= Limits[k].standard /\ Limits[k].standard <= Limits[k].most
<1>1. k \in {"autoLockMinutes", "qrExpirySecs", "fontSize"}
  BY SlidersAssumption DEF Limits
<1>2. CASE k = "autoLockMinutes"
  BY <1>2 DEF Limits
<1>3. CASE k = "qrExpirySecs"
  BY <1>3 DEF Limits
<1>4. CASE k = "fontSize"
  BY <1>4 DEF Limits
<1> QED
  BY <1>1, <1>2, <1>3, <1>4

\* The values of each key.
LEMMA ValuesAre ==
  /\ \A k \in Sliders : ValuesOf(k) = Limits[k].least .. Limits[k].most
  /\ ValuesOf("language") = Languages /\ ValuesOf("animationsEnabled") = BOOLEAN
<1>1. ASSUME NEW k \in Sliders PROVE ValuesOf(k) = Limits[k].least .. Limits[k].most
  BY KeysDiffer DEF ValuesOf
<1>2. ValuesOf("language") = Languages
  BY KeysDiffer DEF ValuesOf
<1>3. ValuesOf("animationsEnabled") = BOOLEAN
  BY KeysDiffer DEF ValuesOf
<1> QED
  BY <1>1, <1>2, <1>3

\* Whatever is a value of some key.
Value == Nat \cup Languages \cup BOOLEAN \cup {Unset}

\* Every value is one of these, and none is Unset.
LEMMA ValuesTyped ==
  ASSUME NEW k \in Keys
  PROVE  ValuesOf(k) \subseteq Value /\ Unset \notin ValuesOf(k)
<1>1. CASE k \in Sliders
  <2>1. ValuesOf(k) \subseteq Nat
    BY <1>1, LimitsTyped, ValuesAre
  <2> QED
    BY <2>1, UnsetAssumption DEF Value
<1>2. CASE k = "language"
  BY <1>2, ValuesAre, UnsetAssumption DEF Value
<1>3. CASE k = "animationsEnabled"
  BY <1>3, ValuesAre, UnsetAssumption DEF Value
<1> QED
  BY <1>1, <1>2, <1>3 DEF Keys

\* The standard value of a key is one of its values.
LEMMA StandardTyped ==
  ASSUME NEW k \in Keys
  PROVE  Standard(k) \in ValuesOf(k) /\ (k \in Sliders => Standard(k) = Limits[k].standard)
<1>1. CASE k \in Sliders
  <2>1. Standard(k) = Limits[k].standard
    BY <1>1, KeysDiffer DEF Standard
  <2> QED
    BY <1>1, <2>1, LimitsTyped, ValuesAre
<1>2. CASE k = "language"
  <2>1. Standard(k) = "en"
    BY <1>2, KeysDiffer DEF Standard
  <2> QED
    BY <1>2, <2>1, ValuesAre, KeysDiffer DEF Languages
<1>3. CASE k = "animationsEnabled"
  <2>1. Standard(k) = TRUE
    BY <1>3, KeysDiffer DEF Standard
  <2> QED
    BY <1>3, <2>1, ValuesAre, KeysDiffer
<1> QED
  BY <1>1, <1>2, <1>3 DEF Keys

\* What a slider is set to is within its limits, and what is within them is not changed.
LEMMA ClampedTyped ==
  ASSUME NEW k \in Sliders, NEW v \in Nat \cup {NotANumber}
  PROVE  Clamped(k, v) \in ValuesOf(k) /\ (v \in ValuesOf(k) => Clamped(k, v) = v)
  BY LimitsTyped, ValuesAre, TypedAssumption DEF Clamped

\* It is the nearest value that is allowed.
LEMMA ClampedIsNearest ==
  ASSUME NEW k \in Sliders, NEW v \in Nat \cup {NotANumber}
  PROVE  Clamped(k, v) = Nearest(k, v)
<1> DEFINE IsNearest(n) ==
      \A m \in ValuesOf(k) : (n <= v => m <= n \/ m > v) /\ (n > v => m >= n)
<1>1. /\ Limits[k].least \in Nat /\ Limits[k].most \in Nat
      /\ Limits[k].least <= Limits[k].most /\ ValuesOf(k) = Limits[k].least .. Limits[k].most
  BY LimitsTyped, ValuesAre
<1>2. CASE v = NotANumber
  BY <1>2, LimitsTyped DEF Clamped, Nearest
<1>3. CASE v # NotANumber
  <2>1. v \in Nat
    BY <1>3
  <2>2. Clamped(k, v) = IF v < Limits[k].least THEN Limits[k].least
                        ELSE IF v > Limits[k].most THEN Limits[k].most ELSE v
    BY <1>3 DEF Clamped
  <2>3. Clamped(k, v) \in ValuesOf(k) /\ IsNearest(Clamped(k, v))
    BY <1>1, <2>1, <2>2
  <2>4. ASSUME NEW n \in ValuesOf(k), IsNearest(n) PROVE n = Clamped(k, v)
    <3>1. Limits[k].least \in ValuesOf(k) /\ Limits[k].most \in ValuesOf(k)
      BY <1>1
    <3>2. CASE v < Limits[k].least
      BY <1>1, <2>1, <2>2, <2>4, <3>1, <3>2
    <3>3. CASE v > Limits[k].most
      BY <1>1, <2>1, <2>2, <2>4, <3>1, <3>3
    <3>4. CASE v \in ValuesOf(k)
      BY <1>1, <2>1, <2>2, <2>4, <3>4
    <3> QED
      BY <1>1, <2>1, <3>2, <3>3, <3>4
  <2>5. Nearest(k, v) = CHOOSE n \in ValuesOf(k) : IsNearest(n)
    BY <1>3 DEF Nearest
  <2> HIDE DEF IsNearest
  <2> QED
    BY <2>3, <2>4, <2>5
<1> QED
  BY <1>2, <1>3

\* -------------------------------------------------------------------------
\* Types

\* What the storage, or a page that read it, may hold; and what a page may show.
Stored == {f \in [Keys -> Value] : \A k \in Keys : f[k] \in ValuesOf(k) \cup {Unset}}

Visible == {f \in [Keys -> Value] : \A k \in Keys : f[k] \in ValuesOf(k)}

\* A settings page, with what it read of the storage.
Tab == [pc : {"closed", "asked", "read", "ready"}, got : Stored, shows : Visible]

\* The popup, open or closed.
PopupState ==
    [open : BOOLEAN, language : Languages, fontSize : ValuesOf("fontSize"), animations : BOOLEAN]

\* One event: some keys and their new values.
IsChange(c) == DOMAIN c \subseteq Keys /\ \A k \in DOMAIN c : c[k] \in ValuesOf(k) \cup {Unset}

\* What an event may tell.
Change == {c \in UNION {[D -> Value] : D \in SUBSET Keys} : IsChange(c)}

\* A number for every slider; and a set of numbers for every slider.
AreChoices(f) == f \in [Sliders -> Nat] /\ \A k \in Sliders : f[k] \in ValuesOf(k)

AreWishes(f) == f \in [Sliders -> SUBSET Nat] /\ \A k \in Sliders : f[k] \subseteq ValuesOf(k)

\* TypeOK, and that functions and records are functions and records.
Typing ==
    /\ store \in Stored
    /\ tab \in [Tabs -> Tab]
    /\ popup \in PopupState
    /\ changes \in Seq(Change)
    /\ clicks \in 0..MaxClicks
    /\ AreChoices(chosen) /\ AreWishes(wished)
    /\ crossed \subseteq Sliders /\ wasReset \in BOOLEAN

\* The types of TypeOK follow.
LEMMA TypingIsEnough == Typing => TypeOK
<1> SUFFICES ASSUME Typing PROVE TypeOK
  OBVIOUS
<1>1. \A f \in Stored : IsValues(f, {Unset})
  BY DEF Stored, IsValues
<1>2. \A f \in Visible : IsValues(f, {})
  BY DEF Visible, IsValues
<1>3. \A t \in Tabs : tab[t] \in Tab
  BY DEF Typing
<1>4. \A t \in Tabs : /\ tab[t].pc \in {"closed", "asked", "read", "ready"}
                      /\ tab[t].got \in Stored /\ tab[t].shows \in Visible
  BY <1>3 DEF Tab
<1>5. \A n \in DOMAIN changes : DOMAIN changes[n] \subseteq Keys
  <2>1. \A n \in DOMAIN changes : changes[n] \in Change
    BY DEF Typing
  <2> QED
    BY <2>1 DEF Change, IsChange
<1>6. /\ popup.open \in BOOLEAN /\ popup.fontSize \in ValuesOf("fontSize")
      /\ popup.language \in Languages /\ popup.animations \in BOOLEAN
  BY DEF Typing, PopupState
<1> QED
  BY <1>1, <1>2, <1>4, <1>5, <1>6 DEF Typing, TypeOK, AreChoices, AreWishes

\* The standard values may be shown, and an empty storage may be stored.
LEMMA BeginningsTyped ==
  Empty \in Stored /\ Standards \in Visible /\ ClosedTab \in Tab /\ ClosedPopup \in PopupState
<1>1. Empty \in Stored
  BY DEF Empty, Stored, Value
<1>2. Standards \in Visible
  BY StandardTyped, ValuesTyped DEF Standards, Visible
<1>3. 15 \in ValuesOf("fontSize")
  BY ValuesAre, KeysDiffer DEF Limits
<1> QED
  BY <1>1, <1>2, <1>3 DEF ClosedTab, Tab, ClosedPopup, PopupState, Languages

\* What Put needs to know of its values.
ArePut(values) ==
    DOMAIN values \subseteq Keys /\ \A k \in DOMAIN values : values[k] \in ValuesOf(k) \cup {Unset}

\* The keys that it changes.
ChangedBy(values) == {k \in DOMAIN values : store[k] # values[k]}

\* A write leaves a typed storage, and may add one event: the keys that changed.
LEMMA PutTyped ==
  ASSUME Typing, NEW values, ArePut(values), Put(values)
  PROVE  /\ store' \in Stored /\ changes' \in Seq(Change)
         /\ \A k \in Keys : store'[k] = IF k \in DOMAIN values THEN values[k] ELSE store[k]
         /\ \/ /\ popup.open
               /\ \E c \in Change :
                      /\ changes' = Append(changes, c)
                      /\ DOMAIN c = ChangedBy(values)
                      /\ \A k \in DOMAIN c : c[k] = store'[k]
            \/ /\ changes' = changes
               /\ popup.open => \A k \in Keys : store'[k] = store[k]
<1> DEFINE changed == ChangedBy(values)
           c == [k \in changed |-> values[k]]
<1>1. /\ store' = [k \in Keys |-> IF k \in DOMAIN values THEN values[k] ELSE store[k]]
      /\ changes' = IF popup.open /\ changed # {} THEN Append(changes, c) ELSE changes
  BY DEF Put, ChangedBy
<1>2. /\ DOMAIN values \subseteq Keys
      /\ \A k \in DOMAIN values : values[k] \in ValuesOf(k) \cup {Unset} /\ values[k] \in Value
  BY ValuesTyped DEF ArePut, Value
<1>3. store \in [Keys -> Value] /\ \A k \in Keys : store[k] \in ValuesOf(k) \cup {Unset}
  BY DEF Typing, Stored
<1>4. \A k \in Keys : store'[k] = IF k \in DOMAIN values THEN values[k] ELSE store[k]
  BY <1>1
<1>5. store' \in Stored
  <2>1. \A k \in Keys : store'[k] \in ValuesOf(k) \cup {Unset} /\ store'[k] \in Value
    BY <1>2, <1>3, <1>4
  <2>2. store' \in [Keys -> Value]
    BY <1>1, <2>1
  <2> QED
    BY <2>1, <2>2 DEF Stored
<1>6. c \in Change /\ DOMAIN c = changed /\ \A k \in DOMAIN c : c[k] = store'[k]
  <2>1. changed \in SUBSET Keys /\ c \in [changed -> Value] /\ IsChange(c)
    BY <1>2 DEF IsChange, ChangedBy
  <2>2. c \in Change
    BY <2>1 DEF Change
  <2> QED
    BY <1>2, <1>4, <2>2 DEF ChangedBy
<1>7. changes \in Seq(Change)
  BY DEF Typing
<1> HIDE DEF c
<1>8. CASE popup.open /\ changed # {}
  <2>1. changes' = Append(changes, c) /\ changes' \in Seq(Change)
    BY <1>1, <1>6, <1>7, <1>8
  <2> QED
    BY <1>4, <1>5, <1>6, <1>8, <2>1
<1>9. CASE ~(popup.open /\ changed # {})
  <2>1. changes' = changes
    BY <1>1, <1>9
  <2>2. popup.open => \A k \in Keys : store'[k] = store[k]
    BY <1>4, <1>9 DEF ChangedBy
  <2> QED
    BY <1>4, <1>5, <1>7, <2>1, <2>2
<1> QED
  BY <1>8, <1>9

\* What the four writes put.
LEMMA SliderPut ==
  ASSUME NEW got \in Stored
  PROVE  /\ ArePut(SliderValues(got)) /\ DOMAIN SliderValues(got) = Sliders
         /\ \A k \in Sliders : /\ SliderValues(got)[k] = Or(got[k], Limits[k].standard)
                               /\ SliderValues(got)[k] \in ValuesOf(k)
<1>1. ASSUME NEW k \in Sliders
      PROVE  /\ SliderValues(got)[k] = Or(got[k], Limits[k].standard)
             /\ SliderValues(got)[k] \in ValuesOf(k)
  <2>1. got[k] \in ValuesOf(k) \cup {Unset}
    BY KeysDiffer DEF Stored
  <2>2. Limits[k].standard \in ValuesOf(k)
    BY KeysDiffer, StandardTyped
  <2>3. Or(got[k], Limits[k].standard) \in ValuesOf(k)
    BY <2>1, <2>2 DEF Or
  <2>4. ValuesOf(k) \subseteq Nat
    BY LimitsTyped, ValuesAre
  <2>5. Clamped(k, Or(got[k], Limits[k].standard)) = Or(got[k], Limits[k].standard)
    BY <2>3, <2>4, ClampedTyped
  <2>6. SliderValues(got)[k] = Clamped(k, Or(got[k], Limits[k].standard))
    BY DEF SliderValues
  <2> QED
    BY <2>3, <2>5, <2>6
<1>2. DOMAIN SliderValues(got) = Sliders
  BY DEF SliderValues
<1> QED
  BY <1>1, <1>2, KeysDiffer DEF ArePut

\* A click on a slider puts one value,
LEMMA OneKeyPut ==
  ASSUME NEW k \in Keys, NEW v \in ValuesOf(k)
  PROVE  ArePut([key \in {k} |-> v])
  BY DEF ArePut

\* so do a click on a language
LEMMA LanguagePut ==
  ASSUME NEW l \in Languages
  PROVE  ArePut([language |-> l]) /\ DOMAIN [language |-> l] = {"language"}
  BY KeysDiffer, ValuesAre DEF ArePut

\* and one on the switch,
LEMMA AnimationsPut ==
  ASSUME NEW on \in BOOLEAN
  PROVE  ArePut([animationsEnabled |-> on]) /\ DOMAIN [animationsEnabled |-> on] = {"animationsEnabled"}
  BY KeysDiffer, ValuesAre DEF ArePut

\* and a reset takes every value away.
LEMMA EmptyPut == ArePut(Empty) /\ DOMAIN Empty = Keys /\ \A k \in Keys : Empty[k] = Unset
  BY DEF ArePut, Empty

\* What a page shows instead is a value, too.
LEMMA ShowsTyped ==
  ASSUME NEW r \in Tab, NEW k \in Keys, NEW v \in ValuesOf(k)
  PROVE  [r EXCEPT !.shows[k] = v] \in Tab
<1>1. r.shows \in Visible /\ v \in Value
  BY ValuesTyped DEF Tab
<1>2. [r.shows EXCEPT ![k] = v] \in Visible
  BY <1>1 DEF Visible
<1> QED
  BY <1>2 DEF Tab
\* A write keeps the types if what else it changes is typed.
LEMMA WriteTyped ==
  ASSUME Typing, NEW values, ArePut(values), Put(values),
         tab' \in [Tabs -> Tab], popup' = popup, clicks' \in 0..MaxClicks,
         AreChoices(chosen'), AreWishes(wished'), crossed' \subseteq Sliders,
         wasReset' \in BOOLEAN
  PROVE  Typing'
<1>1. store' \in Stored /\ changes' \in Seq(Change)
  BY PutTyped
<1>2. popup' \in PopupState
  BY DEF Typing
<1> QED
  BY <1>1, <1>2 DEF Typing, AreChoices, AreWishes

\* A click counts.
LEMMA ClickTyped ==
  ASSUME Typing, NEW t \in Tabs, Click(t)
  PROVE  clicks' \in 0..MaxClicks /\ tab[t].pc = "ready"
  BY ClicksAssumption DEF Typing, Click

\* What a user chooses is a value of the slider.
LEMMA ChosenTyped ==
  ASSUME Typing, NEW t \in Tabs, NEW k \in Sliders, NEW v \in Typed, MoveSlider(t, k, v)
  PROVE  /\ chosen' = [chosen EXCEPT ![k] = Clamped(k, v)]
         /\ wished' = [wished EXCEPT ![k] = @ \cup {Clamped(k, v)}]
         /\ AreChoices(chosen') /\ AreWishes(wished')
<1>1. v \in Nat \cup {NotANumber}
  BY TypedAssumption
<1>2. /\ chosen' = [chosen EXCEPT ![k] = Clamped(k, v)]
      /\ wished' = [wished EXCEPT ![k] = @ \cup {Clamped(k, v)}]
  BY <1>1, ClampedIsNearest DEF MoveSlider
<1>3. Clamped(k, v) \in ValuesOf(k) /\ ValuesOf(k) \subseteq Nat
  BY <1>1, ClampedTyped, LimitsTyped, ValuesAre
<1>4. AreChoices(chosen) /\ AreWishes(wished)
  BY DEF Typing
<1>5. AreChoices([chosen EXCEPT ![k] = Clamped(k, v)])
  BY <1>3, <1>4 DEF AreChoices
<1>6. AreWishes([wished EXCEPT ![k] = @ \cup {Clamped(k, v)}])
  BY <1>3, <1>4 DEF AreWishes
<1> QED
  BY <1>2, <1>5, <1>6

\* The standard values are a choice, too.
LEMMA StandardsChosen ==
  /\ AreChoices([k \in Sliders |-> Standard(k)])
  /\ AreWishes([k \in Sliders |-> {Standard(k)}])
  /\ AreWishes(wished) => AreWishes([k \in Sliders |-> wished[k] \cup {Standard(k)}])
<1>1. \A k \in Sliders : Standard(k) \in ValuesOf(k) /\ Standard(k) \in Nat
  BY KeysDiffer, StandardTyped, LimitsTyped
<1> QED
  BY <1>1 DEF AreChoices, AreWishes

\* What a page shows of a slider is a number within the limits, so leaving the number field
\* does not change it.
LEMMA ShownNumber ==
  ASSUME NEW shows \in Visible, NEW k \in Sliders
  PROVE  /\ k \in Keys /\ shows[k] \in ValuesOf(k) /\ shows[k] # Unset
         /\ Clamped(k, shows[k]) = shows[k] /\ Clamped(k, shows[k]) \in ValuesOf(k)
<1>1. k \in Keys /\ shows[k] \in ValuesOf(k) /\ shows[k] # Unset
  BY KeysDiffer, ValuesTyped DEF Visible
<1>2. ValuesOf(k) \subseteq Nat
  BY LimitsTyped, ValuesAre
<1> QED
  BY <1>1, <1>2, ClampedTyped

\* Each step keeps the types.
LEMMA TabStepTyped ==
  ASSUME Typing, NEW t \in Tabs, TabStep(t)
  PROVE  Typing'
<1>1. /\ tab \in [Tabs -> Tab] /\ tab[t] \in Tab /\ store \in Stored
      /\ tab[t].got \in Stored /\ tab[t].shows \in Visible
      /\ AreChoices(chosen) /\ AreWishes(wished)
      /\ clicks \in 0..MaxClicks /\ crossed \subseteq Sliders /\ wasReset \in BOOLEAN
  BY DEF Typing, Tab
<1>2. CASE OpenTab(t)
  <2>1. [tab[t] EXCEPT !.pc = "asked"] \in Tab
    BY <1>1 DEF Tab
  <2>2. tab' \in [Tabs -> Tab]
    BY <1>1, <1>2, <2>1 DEF OpenTab
  <2> QED
    BY <1>2, <2>2 DEF OpenTab, Typing
<1>3. CASE ReadStore(t)
  <2>1. [tab[t] EXCEPT !.pc = "read", !.got = store] \in Tab
    BY <1>1 DEF Tab
  <2>2. tab' \in [Tabs -> Tab]
    BY <1>1, <1>3, <2>1 DEF ReadStore
  <2> QED
    BY <1>3, <2>2 DEF ReadStore, Typing
<1>4. CASE Load(t)
  <2> DEFINE values == SliderValues(tab[t].got)
             shows == [k \in Keys |-> IF k \in DOMAIN values THEN values[k]
                                      ELSE Or(tab[t].got[k], Standard(k))]
  <2>1. /\ ArePut(values) /\ DOMAIN values = Sliders
        /\ \A k \in Sliders : values[k] \in ValuesOf(k)
    BY <1>1, SliderPut
  <2>2. \A k \in Keys : Or(tab[t].got[k], Standard(k)) \in ValuesOf(k)
    BY <1>1, StandardTyped DEF Stored, Or
  <2>3. tab' = [tab EXCEPT ![t] = [pc |-> "ready", got |-> Empty, shows |-> shows]] /\ Put(values)
    BY <1>4 DEF Load
  <2>4. shows \in Visible
    <3> HIDE DEF values
    <3> QED
      BY <2>1, <2>2, ValuesTyped DEF Visible
  <2>5. [pc |-> "ready", got |-> Empty, shows |-> shows] \in Tab
    BY <2>4, BeginningsTyped DEF Tab
  <2>6. tab' \in [Tabs -> Tab]
    BY <1>1, <2>3, <2>5
  <2>7. UNCHANGED <<popup, clicks, chosen, wished, crossed, wasReset>>
    BY <1>4 DEF Load
  <2> HIDE DEF values
  <2> QED
    BY <1>1, <2>1, <2>3, <2>6, <2>7, WriteTyped
<1>5. CASE CloseTab(t)
  <2>1. tab' \in [Tabs -> Tab]
    BY <1>1, <1>5, BeginningsTyped DEF CloseTab
  <2> QED
    BY <1>5, <2>1 DEF CloseTab, Typing
<1>6. ASSUME NEW k \in Sliders, NEW v \in Typed, MoveSlider(t, k, v)
      PROVE  Typing'
  <2>1. Clamped(k, v) \in ValuesOf(k) /\ k \in Keys
    BY KeysDiffer, ClampedTyped, TypedAssumption
  <2>2. [tab[t] EXCEPT !.shows[k] = Clamped(k, v)] \in Tab
    BY <1>1, <2>1, ShowsTyped
  <2>3. tab' \in [Tabs -> Tab]
    BY <1>1, <1>6, <2>2 DEF MoveSlider
  <2>4. ArePut([key \in {k} |-> Clamped(k, v)]) /\ Put([key \in {k} |-> Clamped(k, v)])
    BY <1>6, <2>1, OneKeyPut DEF MoveSlider
  <2>5. clicks' \in 0..MaxClicks /\ crossed' \subseteq Sliders /\ UNCHANGED <<popup, wasReset>>
    BY <1>1, <1>6, ClickTyped DEF MoveSlider
  <2>6. AreChoices(chosen') /\ AreWishes(wished')
    BY <1>6, ChosenTyped
  <2> QED
    BY <1>1, <2>3, <2>4, <2>5, <2>6, WriteTyped
<1>7. ASSUME NEW l \in Picked, PickLanguage(t, l)
      PROVE  Typing'
  <2>1. l \in Languages /\ l \in ValuesOf("language") /\ "language" \in Keys
    BY PickedAssumption, ValuesAre, KeysDiffer
  <2>2. [tab[t] EXCEPT !.shows["language"] = l] \in Tab
    BY <1>1, <2>1, ShowsTyped
  <2>3. tab' \in [Tabs -> Tab]
    BY <1>1, <1>7, <2>2 DEF PickLanguage
  <2>4. ArePut([language |-> l]) /\ Put([language |-> l])
    BY <1>7, <2>1, LanguagePut DEF PickLanguage
  <2>5. clicks' \in 0..MaxClicks /\ UNCHANGED <<popup, chosen, wished, crossed, wasReset>>
    BY <1>7, ClickTyped DEF PickLanguage
  <2> QED
    BY <1>1, <2>3, <2>4, <2>5, WriteTyped
<1>8. CASE ToggleAnimations(t)
  <2> DEFINE on == ~tab[t].shows["animationsEnabled"]
  <2>1. on \in BOOLEAN /\ on \in ValuesOf("animationsEnabled") /\ "animationsEnabled" \in Keys
    BY ValuesAre, KeysDiffer
  <2>2. [tab[t] EXCEPT !.shows["animationsEnabled"] = on] \in Tab
    <3> HIDE DEF on
    <3> QED
      BY <1>1, <2>1, ShowsTyped
  <2>3. tab' \in [Tabs -> Tab]
    BY <1>1, <1>8, <2>2 DEF ToggleAnimations
  <2>4. ArePut([animationsEnabled |-> on]) /\ Put([animationsEnabled |-> on])
    BY <1>8, <2>1, AnimationsPut DEF ToggleAnimations
  <2>5. clicks' \in 0..MaxClicks /\ UNCHANGED <<popup, chosen, wished, crossed, wasReset>>
    BY <1>8, ClickTyped DEF ToggleAnimations
  <2> HIDE DEF on
  <2> QED
    BY <1>1, <2>3, <2>4, <2>5, WriteTyped
<1>9. CASE Reset(t)
  <2>1. [tab[t] EXCEPT !.pc = "asked"] \in Tab
    BY <1>1 DEF Tab
  <2>2. tab' \in [Tabs -> Tab]
    BY <1>1, <1>9, <2>1 DEF Reset
  <2>3. Put(Empty) /\ UNCHANGED popup /\ wasReset' = popup.open /\ crossed' \subseteq Sliders
    BY <1>9 DEF Reset
  <2>4. wasReset' \in BOOLEAN
    BY <2>3 DEF Typing, PopupState
  <2>5. AreChoices(chosen') /\ AreWishes(wished')
    BY <1>1, <1>9, StandardsChosen DEF Reset
  <2>6. clicks' \in 0..MaxClicks
    BY <1>9, ClickTyped DEF Reset
  <2> QED
    BY <2>2, <2>3, <2>4, <2>5, <2>6, EmptyPut, WriteTyped
<1>10. ASSUME NEW k \in Sliders, LeaveField(t, k)
       PROVE  Typing'
  <2>1. /\ Clamped(k, tab[t].shows[k]) \in ValuesOf(k) /\ k \in Keys
    BY <1>1, ShownNumber
  <2>2. [tab[t] EXCEPT !.shows[k] = Clamped(k, tab[t].shows[k])] \in Tab
    BY <1>1, <2>1, ShowsTyped
  <2>3. tab' = [tab EXCEPT ![t] = [tab[t] EXCEPT !.shows[k] = Clamped(k, tab[t].shows[k])]]
    BY <1>1, <1>10 DEF LeaveField
  <2>4. tab' \in [Tabs -> Tab]
    BY <1>1, <2>2, <2>3
  <2>5. /\ ArePut([key \in {k} |-> Clamped(k, tab[t].shows[k])])
        /\ Put([key \in {k} |-> Clamped(k, tab[t].shows[k])])
    BY <1>10, <2>1, OneKeyPut DEF LeaveField
  <2>6. crossed' \subseteq Sliders /\ UNCHANGED <<popup, clicks, chosen, wished, wasReset>>
    BY <1>1, <1>10 DEF LeaveField
  <2> QED
    BY <1>1, <2>4, <2>5, <2>6, WriteTyped
<1> QED
  BY <1>2, <1>3, <1>4, <1>5, <1>6, <1>7, <1>8, <1>9, <1>10 DEF TabStep

\* What the popup makes of an event is typed.
LEMMA NewTyped ==
  ASSUME NEW c \in Change, NEW k \in Keys, NEW old \in ValuesOf(k), NEW default \in ValuesOf(k)
  PROVE  NewOr(c, k, old, default) \in ValuesOf(k)
<1>1. k \in DOMAIN c => c[k] \in ValuesOf(k) \cup {Unset}
  BY DEF Change, IsChange
<1> QED
  BY <1>1 DEF NewOr, Or

\* Every step keeps the types: a page's, or the popup's.
LEMMA NextTyped == Typing /\ [Next]_vars => Typing'
<1> SUFFICES ASSUME Typing, [Next]_vars PROVE Typing'
  OBVIOUS
<1>1. /\ popup \in PopupState /\ store \in Stored /\ changes \in Seq(Change)
      /\ 15 \in ValuesOf("fontSize") /\ "en" \in Languages
      /\ ValuesOf("language") = Languages /\ ValuesOf("animationsEnabled") = BOOLEAN
  BY ValuesAre, KeysDiffer DEF Typing, Limits, Languages
<1>2. CASE OpenPopup
  <2>1. Or(store["language"], "en") \in Languages
    BY <1>1, KeysDiffer DEF Stored, Or
  <2>2. Or(store["fontSize"], 15) \in ValuesOf("fontSize")
    BY <1>1, KeysDiffer DEF Stored, Or
  <2>3. popup' \in PopupState
    BY <1>2, <2>1, <2>2 DEF OpenPopup, PopupState
  <2> QED
    BY <1>2, <2>3 DEF OpenPopup, Typing
<1>3. CASE ClosePopup
  <2>1. changes' \in Seq(Change) /\ popup' \in PopupState
    BY <1>3, BeginningsTyped DEF ClosePopup
  <2> QED
    BY <1>3, <2>1 DEF ClosePopup, Typing
<1>4. CASE HearChange
  <2>1. PICK c : c = Head(changes)
    OBVIOUS
  <2>2. c \in Change /\ Tail(changes) \in Seq(Change)
    BY <1>1, <1>4, <2>1 DEF HearChange
  <2>3. /\ popup.language \in ValuesOf("language") /\ popup.fontSize \in ValuesOf("fontSize")
        /\ popup.animations \in ValuesOf("animationsEnabled")
    BY <1>1 DEF PopupState
  <2>4. /\ NewOr(c, "language", popup.language, "en") \in ValuesOf("language")
        /\ NewOr(c, "fontSize", popup.fontSize, 15) \in ValuesOf("fontSize")
        /\ NewOr(c, "animationsEnabled", popup.animations, FALSE) \in ValuesOf("animationsEnabled")
    BY <1>1, <2>2, <2>3, NewTyped, KeysDiffer
  <2>5. popup' = [open |-> TRUE,
                  language |-> NewOr(c, "language", popup.language, "en"),
                  fontSize |-> NewOr(c, "fontSize", popup.fontSize, 15),
                  animations |-> NewOr(c, "animationsEnabled", popup.animations, FALSE)]
    BY <1>4, <2>1 DEF HearChange
  <2>6. popup' \in PopupState
    BY <1>1, <2>4, <2>5 DEF PopupState
  <2> QED
    BY <1>4, <2>2, <2>6 DEF HearChange, Typing
<1>5. CASE UNCHANGED vars
  BY <1>5 DEF vars, Typing
<1> QED
  BY <1>2, <1>3, <1>4, <1>5, TabStepTyped DEF Next

\* At first no page or popup is open, and nothing is stored.
LEMMA InitTyped == Init => Typing
<1> SUFFICES ASSUME Init PROVE Typing
  OBVIOUS
<1>1. changes \in Seq(Change)
  BY DEF Init
<1>2. clicks \in 0..MaxClicks
  BY ClicksAssumption DEF Init
<1> QED
  BY <1>1, <1>2, BeginningsTyped, StandardsChosen DEF Init, Typing

\* Storage, pages, popup and events keep their types.
THEOREM TypeCorrect == Spec => []TypeOK
  BY InitTyped, NextTyped, TypingIsEnough, PTL DEF Spec
\* -------------------------------------------------------------------------
\* The choice of the user

\* f holds the number that was chosen last, if only as the standard one.
Holds(f, k) == Or(f[k], Limits[k].standard) = chosen[k]

\* The storage holds it, and so does whatever a page has read and is about to write back.
ChoiceIsKept ==
    \A k \in Sliders \ crossed :
        /\ Holds(store, k)
        /\ \A t \in Tabs : tab[t].pc = "read" => Holds(tab[t].got, k)

\* The worker's own limits and defaults change nothing that is stored.
LEMMA WorkerUsesStored ==
  ASSUME Typing, NEW k \in Sliders
  PROVE  WorkerUses(k) = Or(store[k], Limits[k].standard)
<1>1. k \in {"autoLockMinutes", "qrExpirySecs", "fontSize"}
  BY SlidersAssumption DEF Limits
<1>2. store[k] \in (Limits[k].least .. Limits[k].most) \cup {Unset}
  BY KeysDiffer, ValuesAre DEF Typing, Stored
<1>3. CASE k = "autoLockMinutes"
  BY <1>2, <1>3 DEF WorkerUses, Or, Limits
<1>4. CASE k = "qrExpirySecs"
  BY <1>2, <1>4 DEF WorkerUses, Or, Limits
<1>5. CASE k = "fontSize"
  BY <1>2, <1>5 DEF WorkerUses, Or, Limits
<1> QED
  BY <1>1, <1>3, <1>4, <1>5

\* A write that is no slider's choice.
LEMMA OtherWriteKeeps ==
  ASSUME Typing, ChoiceIsKept, NEW values, ArePut(values), Put(values),
         \A k \in Sliders \cap DOMAIN values :
             k \notin crossed' => Or(values[k], Limits[k].standard) = chosen[k],
         \A t \in Tabs : tab'[t].pc = "read" => tab[t].pc = "read" /\ tab'[t].got = tab[t].got,
         chosen' = chosen, crossed \subseteq crossed'
  PROVE  ChoiceIsKept'
<1> SUFFICES ASSUME NEW k \in Sliders, k \notin crossed'
             PROVE  /\ Holds(store, k)'
                    /\ \A t \in Tabs : tab'[t].pc = "read" => Holds(tab[t].got, k)'
  BY DEF ChoiceIsKept
<1>1. store'[k] = IF k \in DOMAIN values THEN values[k] ELSE store[k]
  BY PutTyped, KeysDiffer
<1>2. Holds(store, k) /\ \A t \in Tabs : tab[t].pc = "read" => Holds(tab[t].got, k)
  BY DEF ChoiceIsKept
<1>3. Holds(store, k)'
  BY <1>1, <1>2 DEF Holds
<1>4. \A t \in Tabs : tab'[t].pc = "read" => Holds(tab[t].got, k)'
  BY <1>2 DEF Holds
<1> QED
  BY <1>3, <1>4

\* A page's step keeps the choice.
LEMMA TabStepKeeps ==
  ASSUME Typing, ChoiceIsKept, NEW t \in Tabs, TabStep(t)
  PROVE  ChoiceIsKept'
<1>1. tab \in [Tabs -> Tab] /\ tab[t] \in Tab /\ tab[t].got \in Stored /\ store \in Stored
  BY DEF Typing, Tab
<1>2. CASE OpenTab(t) \/ CloseTab(t)
  <2>1. \A u \in Tabs : tab'[u].pc = "read" => tab[u].pc = "read" /\ tab'[u].got = tab[u].got
    BY <1>1, <1>2 DEF OpenTab, CloseTab, ClosedTab, Tab
  <2>2. UNCHANGED <<store, chosen, crossed>>
    BY <1>2 DEF OpenTab, CloseTab
  <2> QED
    BY <2>1, <2>2 DEF ChoiceIsKept, Holds
<1>3. CASE ReadStore(t)
  <2>1. /\ \A u \in Tabs \ {t} : tab'[u] = tab[u]
        /\ tab'[t].got = store
    BY <1>1, <1>3 DEF ReadStore, Tab
  <2>2. UNCHANGED <<store, chosen, crossed>>
    BY <1>3 DEF ReadStore
  <2> QED
    BY <2>1, <2>2 DEF ChoiceIsKept, Holds
<1>4. CASE Load(t)
  <2> DEFINE values == SliderValues(tab[t].got)
  <2>1. /\ ArePut(values)
        /\ \A k \in Sliders : /\ values[k] = Or(tab[t].got[k], Limits[k].standard)
                              /\ values[k] \in ValuesOf(k)
    BY <1>1, SliderPut
  <2>2. \A k \in Sliders : Or(values[k], Limits[k].standard) = values[k]
    <3> HIDE DEF values
    <3> QED
      BY <2>1, ValuesTyped, KeysDiffer DEF Or
  <2>3. \A k \in Sliders : k \notin crossed => values[k] = chosen[k]
    BY <1>4, <2>1 DEF Load, ChoiceIsKept, Holds
  <2>4. Put(values) /\ chosen' = chosen /\ crossed' = crossed
    BY <1>4 DEF Load
  <2>5. \A u \in Tabs : tab'[u].pc = "read" => tab[u].pc = "read" /\ tab'[u].got = tab[u].got
    <3>1. \A u \in Tabs \ {t} : tab'[u] = tab[u]
      BY <1>1, <1>4 DEF Load
    <3>2. tab'[t].pc = "ready"
      BY <1>1, <1>4 DEF Load
    <3> QED
      BY <3>1, <3>2
  <2> HIDE DEF values
  <2> QED
    BY <2>1, <2>2, <2>3, <2>4, <2>5, OtherWriteKeeps
<1>5. ASSUME NEW k \in Sliders, NEW v \in Typed, MoveSlider(t, k, v)
      PROVE  ChoiceIsKept'
  <2>1. chosen' = [chosen EXCEPT ![k] = Clamped(k, v)] /\ chosen \in [Sliders -> Nat]
    BY <1>5, ChosenTyped DEF Typing, AreChoices
  <2>2. Clamped(k, v) \in ValuesOf(k) /\ Clamped(k, v) # Unset
    BY KeysDiffer, ClampedTyped, ValuesTyped, TypedAssumption
  <2>3. ArePut([key \in {k} |-> Clamped(k, v)]) /\ Put([key \in {k} |-> Clamped(k, v)])
    BY <1>5, <2>2, KeysDiffer, OneKeyPut DEF MoveSlider
  <2>4. \A j \in Sliders : store'[j] = IF j = k THEN Clamped(k, v) ELSE store[j]
    BY <2>3, PutTyped, KeysDiffer
  <2>5. /\ \A u \in Tabs \ {t} : tab'[u] = tab[u]
        /\ tab'[t].pc = "ready"
    BY <1>1, <1>5 DEF MoveSlider, Click, Tab
  <2>6. crossed' = IF LoadingElsewhere(t) THEN crossed \cup {k} ELSE crossed \ {k}
    BY <1>5 DEF MoveSlider
  <2> SUFFICES ASSUME NEW j \in Sliders, j \notin crossed'
               PROVE  /\ Holds(store, j)'
                      /\ \A u \in Tabs : tab'[u].pc = "read" => Holds(tab[u].got, j)'
    BY DEF ChoiceIsKept
  <2>7. CASE j = k
    <3>1. \A u \in Tabs : tab'[u].pc # "read"
      BY <2>5, <2>6, <2>7 DEF LoadingElsewhere
    <3> QED
      BY <2>1, <2>2, <2>4, <2>7, <3>1 DEF Holds, Or
  <2>8. CASE j # k
    <3>1. j \notin crossed /\ chosen'[j] = chosen[j] /\ store'[j] = store[j]
      BY <2>1, <2>4, <2>6, <2>8
    <3> QED
      BY <2>5, <3>1 DEF ChoiceIsKept, Holds
  <2> QED
    BY <2>7, <2>8
<1>6. ASSUME NEW l \in Picked, PickLanguage(t, l)
      PROVE  ChoiceIsKept'
  <2>1. /\ ArePut([language |-> l]) /\ DOMAIN [language |-> l] = {"language"}
    BY LanguagePut, PickedAssumption
  <2>2. Put([language |-> l]) /\ chosen' = chosen /\ crossed' = crossed
    BY <1>6 DEF PickLanguage
  <2>3. \A u \in Tabs : tab'[u].pc = "read" => tab[u].pc = "read" /\ tab'[u].got = tab[u].got
    BY <1>1, <1>6 DEF PickLanguage, Tab
  <2>4. Sliders \cap DOMAIN [language |-> l] = {}
    BY <2>1, KeysDiffer
  <2> QED
    BY <2>1, <2>2, <2>3, <2>4, OtherWriteKeeps
<1>7. CASE ToggleAnimations(t)
  <2> DEFINE on == ~tab[t].shows["animationsEnabled"]
  <2>1. /\ ArePut([animationsEnabled |-> on])
        /\ DOMAIN [animationsEnabled |-> on] = {"animationsEnabled"}
    BY AnimationsPut
  <2>2. Put([animationsEnabled |-> on]) /\ chosen' = chosen /\ crossed' = crossed
    BY <1>7 DEF ToggleAnimations
  <2>3. \A u \in Tabs : tab'[u].pc = "read" => tab[u].pc = "read" /\ tab'[u].got = tab[u].got
    BY <1>1, <1>7 DEF ToggleAnimations, Tab
  <2>4. Sliders \cap DOMAIN [animationsEnabled |-> on] = {}
    BY <2>1, KeysDiffer
  <2> HIDE DEF on
  <2> QED
    BY <2>1, <2>2, <2>3, <2>4, OtherWriteKeeps
<1>8. CASE Reset(t)
  <2>1. Put(Empty) /\ chosen' = [k \in Sliders |-> Standard(k)]
    BY <1>8 DEF Reset
  <2>2. \A k \in Sliders : store'[k] = Unset
    BY <2>1, EmptyPut, PutTyped, KeysDiffer
  <2>3. \A k \in Sliders : chosen'[k] = Limits[k].standard
    BY <2>1, StandardTyped, KeysDiffer
  <2>4. \A k \in Sliders : Holds(store, k)'
    BY <2>2, <2>3 DEF Holds, Or
  <2>5. crossed' = IF LoadingElsewhere(t) THEN Sliders ELSE {}
    BY <1>8 DEF Reset
  <2>6. /\ \A u \in Tabs \ {t} : tab'[u] = tab[u]
        /\ tab'[t].pc = "asked"
    BY <1>1, <1>8 DEF Reset, Tab
  <2>7. CASE LoadingElsewhere(t)
    BY <2>5, <2>7 DEF ChoiceIsKept
  <2>8. CASE ~LoadingElsewhere(t)
    <3>1. \A u \in Tabs : tab'[u].pc # "read"
      BY <2>6, <2>8 DEF LoadingElsewhere
    <3> QED
      BY <2>4, <3>1 DEF ChoiceIsKept
  <2> QED
    BY <2>7, <2>8
<1>9. ASSUME NEW k \in Sliders, LeaveField(t, k)
      PROVE  ChoiceIsKept'
  <2> DEFINE v == Clamped(k, tab[t].shows[k])
  <2>1. k \in Keys /\ v = tab[t].shows[k] /\ v \in ValuesOf(k) /\ v # Unset
    BY <1>1, ShownNumber DEF Tab
  <2>2. ArePut([key \in {k} |-> v]) /\ Put([key \in {k} |-> v])
    BY <1>9, <2>1, OneKeyPut DEF LeaveField
  <2>3. /\ chosen' = chosen /\ crossed \subseteq crossed'
        /\ Outdated(t, k) => k \in crossed'
    BY <1>9 DEF LeaveField
  <2>4. k \notin crossed' => v = chosen[k]
    BY <2>1, <2>3 DEF Outdated, ChoiceIsKept, Holds
  <2>5. \A u \in Tabs : tab'[u].pc = "read" => tab[u].pc = "read" /\ tab'[u].got = tab[u].got
    BY <1>1, <1>9 DEF LeaveField, Tab
  <2> HIDE DEF v
  <2>6. \A j \in Sliders \cap DOMAIN [key \in {k} |-> v] :
            j \notin crossed' => Or([key \in {k} |-> v][j], Limits[j].standard) = chosen[j]
    BY <2>1, <2>4 DEF Or
  <2> QED
    BY <2>2, <2>3, <2>5, <2>6, OtherWriteKeeps
<1> QED
  BY <1>2, <1>3, <1>4, <1>5, <1>6, <1>7, <1>8, <1>9 DEF TabStep

\* So does every step: the popup writes nothing.
LEMMA NextKeeps == Typing /\ ChoiceIsKept /\ [Next]_vars => ChoiceIsKept'
<1> SUFFICES ASSUME Typing, ChoiceIsKept, [Next]_vars PROVE ChoiceIsKept'
  OBVIOUS
<1>1. CASE OpenPopup \/ ClosePopup \/ HearChange \/ UNCHANGED vars
  <2>1. UNCHANGED <<store, tab, chosen, crossed>>
    BY <1>1 DEF OpenPopup, ClosePopup, HearChange, vars
  <2> QED
    BY <2>1 DEF ChoiceIsKept, Holds
<1> QED
  BY <1>1, TabStepKeeps DEF Next

\* What is stored, and what a page has read or shows, was chosen once, if only as the
\* standard number.
WishesAreKept ==
    \A k \in Sliders :
        /\ Limits[k].standard \in wished[k]
        /\ Or(store[k], Limits[k].standard) \in wished[k]
        /\ \A t \in Tabs : /\ Or(tab[t].got[k], Limits[k].standard) \in wished[k]
                           /\ tab[t].shows[k] \in wished[k]

\* What was chosen once stays so; a write of such a number, by a page that shows such numbers.
LEMMA WriteIsWished ==
  ASSUME Typing, WishesAreKept, NEW t \in Tabs, NEW values, ArePut(values), Put(values),
         \A k \in Sliders : wished[k] \subseteq wished'[k],
         \A k \in Sliders \cap DOMAIN values : Or(values[k], Limits[k].standard) \in wished'[k],
         \A u \in Tabs \ {t} : tab'[u] = tab[u],
         \A k \in Sliders : /\ Or(tab'[t].got[k], Limits[k].standard) \in wished'[k]
                            /\ tab'[t].shows[k] \in wished'[k]
  PROVE  WishesAreKept'
<1> SUFFICES ASSUME NEW k \in Sliders
             PROVE  /\ Limits[k].standard \in wished'[k]
                    /\ Or(store'[k], Limits[k].standard) \in wished'[k]
                    /\ \A u \in Tabs : /\ Or(tab'[u].got[k], Limits[k].standard) \in wished'[k]
                                       /\ tab'[u].shows[k] \in wished'[k]
  BY DEF WishesAreKept
<1>1. store'[k] = IF k \in DOMAIN values THEN values[k] ELSE store[k]
  BY PutTyped, KeysDiffer
<1>2. /\ Limits[k].standard \in wished[k] /\ Or(store[k], Limits[k].standard) \in wished[k]
      /\ \A u \in Tabs : /\ Or(tab[u].got[k], Limits[k].standard) \in wished[k]
                         /\ tab[u].shows[k] \in wished[k]
  BY DEF WishesAreKept
<1>3. \A u \in Tabs : u = t \/ tab'[u] = tab[u]
  OBVIOUS
<1> QED
  BY <1>1, <1>2, <1>3

\* A page's step keeps this.
LEMMA TabStepWished ==
  ASSUME Typing, WishesAreKept, NEW t \in Tabs, TabStep(t)
  PROVE  WishesAreKept'
<1>1. /\ tab \in [Tabs -> Tab] /\ tab[t] \in Tab /\ tab[t].got \in Stored
      /\ tab[t].shows \in Visible /\ AreWishes(wished)
  BY DEF Typing, Tab
<1>2. \A k \in Sliders : /\ Limits[k].standard \in wished[k]
                         /\ Or(store[k], Limits[k].standard) \in wished[k]
                         /\ Or(tab[t].got[k], Limits[k].standard) \in wished[k]
                         /\ tab[t].shows[k] \in wished[k]
  BY DEF WishesAreKept
<1>3. \A k \in Sliders : /\ k \in Keys /\ k # "language" /\ k # "animationsEnabled"
                         /\ Standard(k) = Limits[k].standard
                         /\ Or(Empty[k], Limits[k].standard) = Limits[k].standard
                         /\ Standards[k] = Limits[k].standard
  BY KeysDiffer, StandardTyped DEF Or, Empty, Standards
<1>4. CASE OpenTab(t) \/ ReadStore(t) \/ CloseTab(t)
  <2>1. \A u \in Tabs \ {t} : tab'[u] = tab[u]
    BY <1>1, <1>4 DEF OpenTab, ReadStore, CloseTab
  <2>2. /\ tab'[t].got = tab[t].got \/ tab'[t].got = store \/ tab'[t].got = Empty
        /\ tab'[t].shows = tab[t].shows \/ tab'[t].shows = Standards
    BY <1>1, <1>4 DEF OpenTab, ReadStore, CloseTab, ClosedTab, Tab
  <2>3. store' = store /\ wished' = wished
    BY <1>4 DEF OpenTab, ReadStore, CloseTab
  <2>4. \A k \in Sliders : /\ Or(tab'[t].got[k], Limits[k].standard) \in wished[k]
                           /\ tab'[t].shows[k] \in wished[k]
    BY <1>2, <1>3, <2>2
  <2> QED
    BY <2>1, <2>3, <2>4 DEF WishesAreKept
<1>5. CASE Load(t)
  <2> DEFINE values == SliderValues(tab[t].got)
             shows == [k \in Keys |-> IF k \in DOMAIN values THEN values[k]
                                      ELSE Or(tab[t].got[k], Standard(k))]
  <2>1. /\ ArePut(values) /\ DOMAIN values = Sliders
        /\ \A k \in Sliders : /\ values[k] = Or(tab[t].got[k], Limits[k].standard)
                              /\ values[k] # Unset
    <3>1. \A k \in Sliders : Unset \notin ValuesOf(k)
      BY ValuesTyped, KeysDiffer
    <3> QED
      BY <1>1, <3>1, SliderPut
  <2>2. Put(values) /\ wished' = wished
        /\ tab' = [tab EXCEPT ![t] = [pc |-> "ready", got |-> Empty, shows |-> shows]]
    BY <1>5 DEF Load
  <2>3. tab'[t].got = Empty /\ tab'[t].shows = shows /\ \A u \in Tabs \ {t} : tab'[u] = tab[u]
    BY <1>1, <2>2
  <2>4. \A k \in Sliders : shows[k] = values[k]
    <3> HIDE DEF values
    <3> QED
      BY <1>3, <2>1
  <2> HIDE DEF values, shows
  <2>5. \A k \in Sliders : Or(values[k], Limits[k].standard) \in wished'[k]
    BY <1>2, <2>1, <2>2 DEF Or
  <2>6. \A k \in Sliders : /\ Or(tab'[t].got[k], Limits[k].standard) \in wished'[k]
                           /\ tab'[t].shows[k] \in wished'[k]
    BY <1>2, <1>3, <2>1, <2>2, <2>3, <2>4
  <2> QED
    BY <2>1, <2>2, <2>3, <2>5, <2>6, WriteIsWished
<1>6. ASSUME NEW k \in Sliders, NEW v \in Typed, MoveSlider(t, k, v)
      PROVE  WishesAreKept'
  <2>1. /\ wished' = [wished EXCEPT ![k] = @ \cup {Clamped(k, v)}]
        /\ wished \in [Sliders -> SUBSET Nat]
    BY <1>1, <1>6, ChosenTyped DEF AreWishes
  <2>2. Clamped(k, v) \in ValuesOf(k) /\ Clamped(k, v) # Unset
    BY KeysDiffer, ClampedTyped, ValuesTyped, TypedAssumption
  <2>3. ArePut([key \in {k} |-> Clamped(k, v)]) /\ Put([key \in {k} |-> Clamped(k, v)])
    BY <1>6, <2>2, KeysDiffer, OneKeyPut DEF MoveSlider
  <2>4. tab' = [tab EXCEPT ![t].shows[k] = Clamped(k, v)]
    BY <1>6 DEF MoveSlider
  <2>5. /\ \A u \in Tabs \ {t} : tab'[u] = tab[u]
        /\ tab'[t].got = tab[t].got
        /\ \A j \in Sliders : tab'[t].shows[j] = IF j = k THEN Clamped(k, v) ELSE tab[t].shows[j]
    BY <1>1, <1>3, <2>4 DEF Tab, Visible
  <2>6. /\ \A j \in Sliders : wished[j] \subseteq wished'[j]
        /\ Clamped(k, v) \in wished'[k]
    BY <2>1
  <2>7. \A j \in Sliders \cap DOMAIN [key \in {k} |-> Clamped(k, v)] :
            Or([key \in {k} |-> Clamped(k, v)][j], Limits[j].standard) \in wished'[j]
    BY <2>2, <2>6 DEF Or
  <2>8. \A j \in Sliders : /\ Or(tab'[t].got[j], Limits[j].standard) \in wished'[j]
                           /\ tab'[t].shows[j] \in wished'[j]
    BY <1>2, <2>5, <2>6
  <2> QED
    BY <2>3, <2>5, <2>6, <2>7, <2>8, WriteIsWished
<1>7. ASSUME NEW k \in Sliders, LeaveField(t, k)
      PROVE  WishesAreKept'
  <2> DEFINE v == Clamped(k, tab[t].shows[k])
  <2>1. k \in Keys /\ v = tab[t].shows[k] /\ v \in ValuesOf(k) /\ v # Unset
    BY <1>1, ShownNumber
  <2>2. ArePut([key \in {k} |-> v]) /\ Put([key \in {k} |-> v])
    BY <1>7, <2>1, OneKeyPut DEF LeaveField
  <2>3. tab' = [tab EXCEPT ![t].shows[k] = v] /\ wished' = wished
    BY <1>7 DEF LeaveField
  <2> HIDE DEF v
  <2>4. /\ \A u \in Tabs \ {t} : tab'[u] = tab[u]
        /\ tab'[t].got = tab[t].got
        /\ \A j \in Sliders : tab'[t].shows[j] = tab[t].shows[j]
    BY <1>1, <1>3, <2>1, <2>3 DEF Tab, Visible
  <2>5. \A j \in Sliders \cap DOMAIN [key \in {k} |-> v] :
            Or([key \in {k} |-> v][j], Limits[j].standard) \in wished'[j]
    BY <1>2, <2>1, <2>3 DEF Or
  <2>6. \A j \in Sliders : /\ Or(tab'[t].got[j], Limits[j].standard) \in wished'[j]
                           /\ tab'[t].shows[j] \in wished'[j]
    BY <1>2, <2>3, <2>4
  <2> QED
    BY <2>2, <2>3, <2>4, <2>5, <2>6, WriteIsWished
<1>8. ASSUME NEW l \in Picked, PickLanguage(t, l)
      PROVE  WishesAreKept'
  <2>1. /\ ArePut([language |-> l]) /\ DOMAIN [language |-> l] = {"language"}
    BY LanguagePut, PickedAssumption
  <2>2. Put([language |-> l]) /\ wished' = wished /\ tab' = [tab EXCEPT ![t].shows["language"] = l]
    BY <1>8 DEF PickLanguage
  <2>3. /\ \A u \in Tabs \ {t} : tab'[u] = tab[u]
        /\ tab'[t].got = tab[t].got
        /\ \A j \in Sliders : tab'[t].shows[j] = tab[t].shows[j]
    BY <1>1, <1>3, <2>2 DEF Tab, Visible
  <2>4. Sliders \cap DOMAIN [language |-> l] = {}
    BY <2>1, KeysDiffer
  <2>5. \A j \in Sliders : /\ Or(tab'[t].got[j], Limits[j].standard) \in wished'[j]
                           /\ tab'[t].shows[j] \in wished'[j]
    BY <1>2, <2>2, <2>3
  <2> QED
    BY <2>1, <2>2, <2>3, <2>4, <2>5, WriteIsWished
<1>9. CASE ToggleAnimations(t)
  <2> DEFINE on == ~tab[t].shows["animationsEnabled"]
  <2>1. /\ ArePut([animationsEnabled |-> on])
        /\ DOMAIN [animationsEnabled |-> on] = {"animationsEnabled"}
    BY AnimationsPut
  <2>2. /\ Put([animationsEnabled |-> on]) /\ wished' = wished
        /\ tab' = [tab EXCEPT ![t].shows["animationsEnabled"] = on]
    BY <1>9 DEF ToggleAnimations
  <2> HIDE DEF on
  <2>3. /\ \A u \in Tabs \ {t} : tab'[u] = tab[u]
        /\ tab'[t].got = tab[t].got
        /\ \A j \in Sliders : tab'[t].shows[j] = tab[t].shows[j]
    BY <1>1, <1>3, <2>2 DEF Tab, Visible
  <2>4. Sliders \cap DOMAIN [animationsEnabled |-> on] = {}
    BY <2>1, KeysDiffer
  <2>5. \A j \in Sliders : /\ Or(tab'[t].got[j], Limits[j].standard) \in wished'[j]
                           /\ tab'[t].shows[j] \in wished'[j]
    BY <1>2, <2>2, <2>3
  <2> QED
    BY <2>1, <2>2, <2>3, <2>4, <2>5, WriteIsWished
<1>10. CASE Reset(t)
  <2>1. Put(Empty) /\ wished' = [k \in Sliders |-> wished[k] \cup {Standard(k)}]
    BY <1>10 DEF Reset
  <2>2. /\ \A u \in Tabs \ {t} : tab'[u] = tab[u]
        /\ tab'[t].got = tab[t].got /\ tab'[t].shows = tab[t].shows
    BY <1>1, <1>10 DEF Reset, Tab
  <2>3. \A k \in Sliders : wished[k] \subseteq wished'[k]
    BY <2>1
  <2>4. \A k \in Sliders : Or(Empty[k], Limits[k].standard) \in wished'[k]
    BY <1>2, <1>3, <2>3
  <2>5. \A k \in Sliders : /\ Or(tab'[t].got[k], Limits[k].standard) \in wished'[k]
                           /\ tab'[t].shows[k] \in wished'[k]
    BY <1>2, <2>2, <2>3
  <2> QED
    BY <2>1, <2>2, <2>3, <2>4, <2>5, EmptyPut, WriteIsWished
<1> QED
  BY <1>4, <1>5, <1>6, <1>7, <1>8, <1>9, <1>10 DEF TabStep

\* So does every step.
LEMMA NextWished == Typing /\ WishesAreKept /\ [Next]_vars => WishesAreKept'
<1> SUFFICES ASSUME Typing, WishesAreKept, [Next]_vars PROVE WishesAreKept'
  OBVIOUS
<1>1. CASE OpenPopup \/ ClosePopup \/ HearChange \/ UNCHANGED vars
  <2>1. UNCHANGED <<store, tab, wished>>
    BY <1>1 DEF OpenPopup, ClosePopup, HearChange, vars
  <2> QED
    BY <2>1 DEF WishesAreKept
<1> QED
  BY <1>1, TabStepWished DEF Next

\* The worker uses a number that the user chose: the last one, unless a page was loading
\* when it was chosen, or wrote back the older number it showed when a field was left.
THEOREM ChoicesAreUsed == Spec => []ChoiceIsUsed
<1>1. Init => ChoiceIsKept /\ WishesAreKept
  <2> SUFFICES ASSUME Init, NEW k \in Sliders
               PROVE  /\ Holds(store, k)
                      /\ \A t \in Tabs : tab[t].pc # "read"
                      /\ Limits[k].standard \in wished[k]
                      /\ Or(store[k], Limits[k].standard) \in wished[k]
                      /\ \A t \in Tabs : /\ Or(tab[t].got[k], Limits[k].standard) \in wished[k]
                                         /\ tab[t].shows[k] \in wished[k]
    BY DEF ChoiceIsKept, WishesAreKept
  <2>1. /\ store[k] = Unset /\ chosen[k] = Limits[k].standard
        /\ wished[k] = {Limits[k].standard}
    BY KeysDiffer, StandardTyped DEF Init, Empty
  <2>2. \A t \in Tabs : tab[t].pc = "closed" /\ tab[t].got = Empty /\ tab[t].shows = Standards
    BY DEF Init, ClosedTab
  <2>3. Empty[k] = Unset /\ Standards[k] = Limits[k].standard
    BY KeysDiffer, StandardTyped DEF Empty, Standards
  <2> QED
    BY <2>1, <2>2, <2>3 DEF Holds, Or
<1>2. Typing /\ ChoiceIsKept /\ WishesAreKept => ChoiceIsUsed
  BY WorkerUsesStored DEF ChoiceIsKept, WishesAreKept, Holds, ChoiceIsUsed
<1> QED
  BY <1>1, <1>2, InitTyped, NextTyped, NextKeeps, NextWished, PTL DEF Spec

\* -------------------------------------------------------------------------
\* The popup

\* No event about k is on its way.
Told(k) == \A n \in DOMAIN changes : k \notin DOMAIN changes[n]

\* The n-th event is the last one about k.
LastOf(k, n) ==
    /\ k \in DOMAIN changes[n]
    /\ \A m \in DOMAIN changes : m > n => k \notin DOMAIN changes[m]

\* Events are on their way to an open popup only.  The last one about a key brings what is
\* stored; a value without such an event was read from the storage.
EventsAreRight ==
    /\ ~popup.open => changes = <<>>
    /\ \A k \in Keys : \A n \in DOMAIN changes : LastOf(k, n) => changes[n][k] = store[k]
    /\ \A n \in DOMAIN changes :
           "animationsEnabled" \in DOMAIN changes[n] =>
               wasReset \/ changes[n]["animationsEnabled"] # Unset

PopupIsCurrent ==
    popup.open =>
        /\ Told("language") => popup.language = Or(store["language"], "en")
        /\ Told("fontSize") => popup.fontSize = Or(store["fontSize"], 15)
        /\ Told("animationsEnabled") =>
               wasReset \/ popup.animations = (store["animationsEnabled"] # FALSE)

\* Some write: an event is added for what changed.
LEMMA WriteIsTold ==
  ASSUME Typing, EventsAreRight, PopupIsCurrent, NEW values, ArePut(values), Put(values),
         popup' = popup, popup.open /\ wasReset => wasReset',
         popup.open /\ "animationsEnabled" \in DOMAIN values =>
             wasReset' \/ values["animationsEnabled"] # Unset
  PROVE  (EventsAreRight /\ PopupIsCurrent)'
<1>1. \A k \in Keys : store'[k] = IF k \in DOMAIN values THEN values[k] ELSE store[k]
  BY PutTyped
<1>2. CASE changes' = changes /\ (popup.open => \A k \in Keys : store'[k] = store[k])
  <2>1. CASE popup.open
    BY <1>2, <2>1, KeysDiffer DEF EventsAreRight, PopupIsCurrent, Told, LastOf
  <2>2. CASE ~popup.open
    <3>1. changes = <<>> /\ changes' = <<>> /\ ~popup'.open
      BY <1>2, <2>2 DEF EventsAreRight
    <3>2. DOMAIN changes' = {}
      BY <3>1
    <3> QED
      BY <3>1, <3>2 DEF EventsAreRight, PopupIsCurrent
  <2> QED
    BY <2>1, <2>2
<1>3. ASSUME NEW c \in Change, popup.open, changes' = Append(changes, c),
             DOMAIN c = ChangedBy(values),
             \A k \in DOMAIN c : c[k] = store'[k]
      PROVE  (EventsAreRight /\ PopupIsCurrent)'
  <2>1. /\ changes \in Seq(Change) /\ Len(changes) \in Nat /\ DOMAIN changes = 1..Len(changes)
        /\ DOMAIN changes' = 1..(Len(changes) + 1) /\ changes'[Len(changes) + 1] = c
        /\ \A n \in DOMAIN changes : n \in DOMAIN changes' /\ changes'[n] = changes[n]
    BY <1>3 DEF Typing
  <2>2. \A k \in Keys : k \notin DOMAIN c => store'[k] = store[k]
    BY <1>1, <1>3 DEF ChangedBy
  <2>3. ASSUME NEW k \in Keys, NEW n \in DOMAIN changes', LastOf(k, n)'
        PROVE  changes'[n][k] = store'[k]
    <3>1. CASE n = Len(changes) + 1
      BY <1>3, <2>1, <2>3, <3>1 DEF LastOf
    <3>2. CASE n \in DOMAIN changes
      <4>1. k \notin DOMAIN c
        BY <2>1, <2>3, <3>2 DEF LastOf
      <4>2. LastOf(k, n)
        BY <2>1, <2>3, <3>2 DEF LastOf
      <4> QED
        BY <2>1, <2>2, <3>2, <4>1, <4>2 DEF EventsAreRight
    <3> QED
      BY <2>1, <3>1, <3>2
  <2>4. ASSUME NEW n \in DOMAIN changes', "animationsEnabled" \in DOMAIN changes'[n]
        PROVE  wasReset' \/ changes'[n]["animationsEnabled"] # Unset
    <3>1. CASE n = Len(changes) + 1
      BY <1>1, <1>3, <2>1, <2>4, <3>1, KeysDiffer DEF ChangedBy
    <3>2. CASE n \in DOMAIN changes
      BY <1>3, <2>1, <2>4, <3>2 DEF EventsAreRight
    <3> QED
      BY <2>1, <3>1, <3>2
  <2>5. \A k \in Keys : Told(k)' => Told(k) /\ store'[k] = store[k]
    <3> SUFFICES ASSUME NEW k \in Keys, Told(k)' PROVE Told(k) /\ store'[k] = store[k]
      OBVIOUS
    <3>1. \A n \in DOMAIN changes' : k \notin DOMAIN changes'[n]
      BY DEF Told
    <3>2. k \notin DOMAIN c
      BY <2>1, <3>1
    <3> QED
      BY <2>1, <2>2, <3>1, <3>2 DEF Told
  <2>6. EventsAreRight'
    BY <1>3, <2>3, <2>4 DEF EventsAreRight
  <2>7. PopupIsCurrent'
    BY <1>3, <2>5, KeysDiffer DEF PopupIsCurrent
  <2> QED
    BY <2>6, <2>7
<1>4. CASE popup.open /\ \E c \in Change :
                            /\ changes' = Append(changes, c)
                            /\ DOMAIN c = ChangedBy(values)
                            /\ \A k \in DOMAIN c : c[k] = store'[k]
  BY <1>3, <1>4
<1> QED
  BY <1>2, <1>4, PutTyped

\* An event is heard: the popup takes the values from it.
LEMMA HearingIsRight ==
  ASSUME Typing, EventsAreRight, PopupIsCurrent, HearChange
  PROVE  (EventsAreRight /\ PopupIsCurrent)'
<1>1. PICK c : c = Head(changes)
  OBVIOUS
<1>2. /\ changes \in Seq(Change) /\ changes # <<>> /\ changes' = Tail(changes)
      /\ popup.open /\ UNCHANGED <<store, wasReset>>
  BY DEF Typing, HearChange, EventsAreRight
<1>3. /\ Len(changes) \in Nat \ {0} /\ DOMAIN changes = 1..Len(changes) /\ c = changes[1]
      /\ DOMAIN changes' = 1..(Len(changes) - 1)
      /\ \A n \in DOMAIN changes' : changes'[n] = changes[n + 1] /\ n + 1 \in DOMAIN changes
  BY <1>1, <1>2
<1>4. \A n \in DOMAIN changes : n = 1 \/ (n - 1 \in DOMAIN changes' /\ changes'[n - 1] = changes[n])
  BY <1>3
<1>5. ASSUME NEW k \in Keys, NEW n \in DOMAIN changes', LastOf(k, n)'
      PROVE  changes'[n][k] = store'[k]
  <2>1. LastOf(k, n + 1)
    <3>1. k \in DOMAIN changes[n + 1]
      BY <1>3, <1>5 DEF LastOf
    <3>2. ASSUME NEW m \in DOMAIN changes, m > n + 1 PROVE k \notin DOMAIN changes[m]
      <4>1. m - 1 \in DOMAIN changes' /\ changes'[m - 1] = changes[m] /\ m - 1 > n
        BY <1>3, <1>4, <3>2
      <4> QED
        BY <1>5, <4>1 DEF LastOf
    <3> QED
      BY <3>1, <3>2 DEF LastOf
  <2> QED
    BY <1>2, <1>3, <2>1 DEF EventsAreRight
<1>6. EventsAreRight'
  <2>1. popup'.open
    BY DEF HearChange
  <2>2. ASSUME NEW n \in DOMAIN changes', "animationsEnabled" \in DOMAIN changes'[n]
        PROVE  wasReset' \/ changes'[n]["animationsEnabled"] # Unset
    BY <1>2, <1>3, <2>2 DEF EventsAreRight
  <2> QED
    BY <1>5, <2>1, <2>2 DEF EventsAreRight
<1>7. ASSUME NEW k \in Keys, Told(k)'
      PROVE  (k \in DOMAIN c => c[k] = store[k]) /\ (k \notin DOMAIN c => Told(k))
  <2>1. \A n \in DOMAIN changes : n # 1 => k \notin DOMAIN changes[n]
    BY <1>4, <1>7 DEF Told
  <2>2. k \in DOMAIN c => LastOf(k, 1)
    BY <1>3, <2>1 DEF LastOf
  <2>3. 1 \in DOMAIN changes
    BY <1>3
  <2> QED
    BY <1>3, <2>1, <2>2, <2>3 DEF EventsAreRight, Told
<1>8. /\ popup'.language = NewOr(c, "language", popup.language, "en")
      /\ popup'.fontSize = NewOr(c, "fontSize", popup.fontSize, 15)
      /\ popup'.animations = NewOr(c, "animationsEnabled", popup.animations, FALSE)
  BY <1>1 DEF HearChange
<1>9. Told("language")' => popup'.language = Or(store["language"], "en")
  BY <1>2, <1>7, <1>8, KeysDiffer DEF NewOr, PopupIsCurrent
<1>10. Told("fontSize")' => popup'.fontSize = Or(store["fontSize"], 15)
  BY <1>2, <1>7, <1>8, KeysDiffer DEF NewOr, PopupIsCurrent
<1>11. ASSUME Told("animationsEnabled")', ~wasReset
       PROVE  popup'.animations = (store["animationsEnabled"] # FALSE)
  <2>1. CASE "animationsEnabled" \in DOMAIN c
    <3>1. c["animationsEnabled"] = store["animationsEnabled"]
      BY <1>7, <1>11, <2>1, KeysDiffer
    <3>2. c["animationsEnabled"] # Unset
      BY <1>3, <1>11, <2>1 DEF EventsAreRight
    <3>3. popup'.animations = store["animationsEnabled"]
      BY <1>8, <2>1, <3>1, <3>2 DEF NewOr, Or
    <3>4. store["animationsEnabled"] \in BOOLEAN
      BY <3>1, <3>2, KeysDiffer, ValuesAre DEF Typing, Stored
    <3> QED
      BY <3>3, <3>4
  <2>2. CASE "animationsEnabled" \notin DOMAIN c
    BY <1>2, <1>7, <1>8, <1>11, <2>2, KeysDiffer DEF NewOr, PopupIsCurrent
  <2> QED
    BY <2>1, <2>2
<1>12. PopupIsCurrent'
  BY <1>2, <1>9, <1>10, <1>11 DEF PopupIsCurrent
<1> QED
  BY <1>6, <1>12

\* Each step keeps both.
LEMMA NextIsTold ==
  Typing /\ EventsAreRight /\ PopupIsCurrent /\ [Next]_vars => (EventsAreRight /\ PopupIsCurrent)'
<1> SUFFICES ASSUME Typing, EventsAreRight, PopupIsCurrent, [Next]_vars
             PROVE  (EventsAreRight /\ PopupIsCurrent)'
  OBVIOUS
<1>1. CASE UNCHANGED <<store, popup, changes, wasReset>>
  BY <1>1 DEF EventsAreRight, PopupIsCurrent, Told, LastOf
<1>2. ASSUME NEW t \in Tabs, TabStep(t)
      PROVE  (EventsAreRight /\ PopupIsCurrent)'
  <2>1. CASE OpenTab(t) \/ ReadStore(t) \/ CloseTab(t)
    BY <1>1, <2>1 DEF OpenTab, ReadStore, CloseTab
  <2>2. CASE Load(t)
    <3> DEFINE values == SliderValues(tab[t].got)
    <3>1. tab[t].got \in Stored
      BY DEF Typing, Tab
    <3>2. ArePut(values) /\ DOMAIN values = Sliders
      BY <3>1, SliderPut
    <3>3. Put(values) /\ UNCHANGED <<popup, wasReset>>
      BY <2>2 DEF Load
    <3> HIDE DEF values
    <3> QED
      BY <3>2, <3>3, KeysDiffer, WriteIsTold
  <2>3. ASSUME NEW k \in Sliders, NEW v \in Typed, MoveSlider(t, k, v)
        PROVE  (EventsAreRight /\ PopupIsCurrent)'
    <3>1. Clamped(k, v) \in ValuesOf(k) /\ k \in Keys /\ k # "animationsEnabled"
      BY KeysDiffer, ClampedTyped, TypedAssumption
    <3>2. ArePut([key \in {k} |-> Clamped(k, v)]) /\ Put([key \in {k} |-> Clamped(k, v)])
      BY <2>3, <3>1, OneKeyPut DEF MoveSlider
    <3>3. UNCHANGED <<popup, wasReset>>
      BY <2>3 DEF MoveSlider
    <3>4. "animationsEnabled" \notin DOMAIN [key \in {k} |-> Clamped(k, v)]
      BY <3>1
    <3> QED
      BY <3>2, <3>3, <3>4, WriteIsTold
  <2>7. ASSUME NEW k \in Sliders, LeaveField(t, k)
        PROVE  (EventsAreRight /\ PopupIsCurrent)'
    <3> DEFINE v == Clamped(k, tab[t].shows[k])
    <3>1. v \in ValuesOf(k) /\ k \in Keys /\ k # "animationsEnabled"
      BY KeysDiffer, ShownNumber DEF Typing, Tab
    <3>2. ArePut([key \in {k} |-> v]) /\ Put([key \in {k} |-> v])
      BY <2>7, <3>1, OneKeyPut DEF LeaveField
    <3>3. UNCHANGED <<popup, wasReset>>
      BY <2>7 DEF LeaveField
    <3>4. "animationsEnabled" \notin DOMAIN [key \in {k} |-> v]
      BY <3>1
    <3> HIDE DEF v
    <3> QED
      BY <3>2, <3>3, <3>4, WriteIsTold
  <2>4. ASSUME NEW l \in Picked, PickLanguage(t, l)
        PROVE  (EventsAreRight /\ PopupIsCurrent)'
    <3>1. ArePut([language |-> l]) /\ "animationsEnabled" \notin DOMAIN [language |-> l]
      BY LanguagePut, PickedAssumption
    <3>2. Put([language |-> l]) /\ UNCHANGED <<popup, wasReset>>
      BY <2>4 DEF PickLanguage
    <3> QED
      BY <3>1, <3>2, WriteIsTold
  <2>5. CASE ToggleAnimations(t)
    <3> DEFINE on == ~tab[t].shows["animationsEnabled"]
    <3>1. ArePut([animationsEnabled |-> on]) /\ on # Unset
      BY AnimationsPut, UnsetAssumption
    <3>2. Put([animationsEnabled |-> on]) /\ UNCHANGED <<popup, wasReset>>
      BY <2>5 DEF ToggleAnimations
    <3>3. [animationsEnabled |-> on]["animationsEnabled"] = on
      OBVIOUS
    <3> HIDE DEF on
    <3> QED
      BY <3>1, <3>2, <3>3, WriteIsTold
  <2>6. CASE Reset(t)
    <3>1. Put(Empty) /\ popup' = popup /\ wasReset' = popup.open
      BY <2>6 DEF Reset
    <3> QED
      BY <3>1, EmptyPut, WriteIsTold
  <2> QED
    BY <1>2, <2>1, <2>2, <2>3, <2>4, <2>5, <2>6, <2>7 DEF TabStep
<1>3. CASE OpenPopup
  <2>1. /\ changes = <<>> /\ changes' = changes /\ store' = store
        /\ popup' = [open |-> TRUE, language |-> Or(store["language"], "en"),
                     fontSize |-> Or(store["fontSize"], 15),
                     animations |-> store["animationsEnabled"] # FALSE]
    BY <1>3 DEF OpenPopup, EventsAreRight
  <2>2. DOMAIN changes' = {}
    BY <2>1
  <2> QED
    BY <2>1, <2>2 DEF EventsAreRight, PopupIsCurrent
<1>4. CASE ClosePopup
  <2>1. changes' = <<>> /\ ~popup'.open
    BY <1>4 DEF ClosePopup, ClosedPopup
  <2>2. DOMAIN changes' = {}
    BY <2>1
  <2> QED
    BY <2>1, <2>2 DEF EventsAreRight, PopupIsCurrent
<1>5. CASE HearChange
  BY <1>5, HearingIsRight
<1>6. CASE UNCHANGED vars
  BY <1>1, <1>6 DEF vars
<1> QED
  BY <1>2, <1>3, <1>4, <1>5, <1>6 DEF Next

\* A popup that has heard of all changes looks as one that is opened now.
THEOREM PopupsFollow == Spec => []PopupFollows
<1>1. Init => EventsAreRight /\ PopupIsCurrent
  <2> SUFFICES ASSUME Init PROVE EventsAreRight /\ PopupIsCurrent
    OBVIOUS
  <2>1. ~popup.open /\ changes = <<>>
    BY DEF Init, ClosedPopup
  <2>2. DOMAIN changes = {}
    BY <2>1
  <2> QED
    BY <2>1, <2>2 DEF EventsAreRight, PopupIsCurrent
<1>2. PopupIsCurrent => PopupFollows
  <2> SUFFICES ASSUME PopupIsCurrent, popup.open, changes = <<>>
               PROVE  /\ popup.language = Or(store["language"], "en")
                      /\ popup.fontSize = Or(store["fontSize"], 15)
                      /\ wasReset \/ popup.animations = (store["animationsEnabled"] # FALSE)
    BY DEF PopupFollows
  <2>1. \A k : Told(k)
    BY DEF Told
  <2> QED
    BY <2>1 DEF PopupIsCurrent
<1> QED
  BY <1>1, <1>2, InitTyped, NextTyped, NextIsTold, PTL DEF Spec

\* -------------------------------------------------------------------------
\* Both sections

\* Each section behaves as it would alone.
LEMMA SectionsBehave == SettingsSpec => Spec /\ ThemeSpec
<1>1. SettingsInit => Init /\ ThemeInit
  BY DEF SettingsInit
<1>2. [UseSettings \/ UseTheme]_<<section, vars, themeVars>> => [Next]_vars /\ [ThemeNext]_themeVars
  BY DEF UseSettings, UseTheme
<1> QED
  BY <1>1, <1>2, PTL DEF SettingsSpec, Spec, ThemeSpec

\* Whichever section is used, both keep their types.
THEOREM TypesAreKept == SettingsSpec => []TypesOK
<1>1. TypeOK /\ ThemeTypeOK => TypesOK
  BY DEF TypesOK
<1> QED
  BY <1>1, SectionsBehave, TypeCorrect, ThemeTypes, PTL
=============================================================================
