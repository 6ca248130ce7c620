------------------------- MODULE ThemePickerProofs -------------------------
(***************************************************************************)
(* Proofs about ThemePicker for any colours and any number of clicks and   *)
(* events: types, that the settings page shows what is stored, and that an *)
(* open popup comes to the stored theme and, where the live-update has no  *)
(* gap, its colours.                                                       *)
(***************************************************************************)
EXTENDS ThemePicker, SequenceTheorems, TLAPS

\* -------------------------------------------------------------------------
\* Types

\* The page as it loads has the type of a page.
LEMMA LoadedTyped ==
  ASSUME NEW s \in Saved
  PROVE  /\ LoadedPage(s) \in Page
         /\ LoadedTimer(s) \in Timer
         /\ LoadedTimer(s) # None
<1>1. OrElse(s.custom, StandardColours) \in Colours /\ OrElse(s.theme, "dark") \in Themes
  BY ColoursAssumption DEF OrElse, Saved, Themes, Plain
<1>2. LoadedTimer(s) \in Timer
  BY <1>1 DEF LoadedTimer, Timer
<1> DEFINE custom == OrElse(s.custom, StandardColours)
           current == OrElse(s.theme, "dark")
<1>3. LoadedPage(s) = [theme |-> "dark", vars |-> IF s.theme = "custom" THEN custom ELSE None,
                       current |-> current, input |-> custom, custom |-> custom,
                       builder |-> s.theme = "custom"]
  BY DEF LoadedPage
<1> HIDE DEF custom, current
<1>4. (s.theme = "custom") \in BOOLEAN
  OBVIOUS
<1>5. custom \in Colours /\ current \in Themes
  BY <1>1 DEF custom, current
<1>6. LoadedPage(s) \in Page
  BY <1>3, <1>4, <1>5 DEF Page, Plain
<1> QED
  BY <1>2, <1>6, NoneAssumption

\* Nothing is stored in the beginning, and after a reset.
LEMMA NothingSaved == Nothing \in Saved
  BY DEF Nothing, Saved

\* A theme to apply is a timer's value.
LEMMA TimerTyped ==
  ASSUME NEW theme \in Themes, NEW save \in BOOLEAN
  PROVE  /\ [theme |-> theme, save |-> save] \in Timer
         /\ [theme |-> theme, save |-> save] # None
<1>1. [theme |-> theme, save |-> save] \in Timer
  BY DEF Timer
<1> QED
  BY <1>1, NoneAssumption

\* A theme is shown as itself, or as what the system prefers.
LEMMA ResolveTyped ==
  ASSUME NEW theme \in Themes, NEW preferred \in Plain
  PROVE  Resolve(theme, preferred) \in Plain \cup {"custom"}
  BY DEF Resolve, Themes

\* What is stored is sent to an open popup if it changed.
LEMMA StoreTyped ==
  ASSUME ThemeTypeOK, NEW theme \in Themes \cup {None}, NEW custom \in Colours \cup {None},
         Store(theme, custom)
  PROVE  /\ saved' \in Saved
         /\ news' \in Seq(Themes \cup {None}) /\ Len(news') <= MaxNews
  BY BoundsAssumption DEF Store, ThemeTypeOK, Saved

\* Each step keeps the types.
LEMMA NextThemeTyped == ThemeTypeOK /\ [ThemeNext]_themeVars => ThemeTypeOK'
<1> SUFFICES ASSUME ThemeTypeOK, [ThemeNext]_themeVars PROVE ThemeTypeOK'
  OBVIOUS
<1> USE BoundsAssumption
<1>0. /\ saved \in Saved /\ system \in Plain /\ page \in Page /\ timer \in Timer \cup {None}
      /\ opened \in Popup /\ news \in Seq(Themes \cup {None}) /\ Len(news) <= MaxNews
      /\ asks \in Nat /\ picks \in 0..MaxPicks /\ hasty \in BOOLEAN /\ strayed \in BOOLEAN
      /\ leftover \in BOOLEAN
  BY DEF ThemeTypeOK
<1>1. ASSUME NEW theme \in Themes \ {"custom"}, PickTheme(theme)
      PROVE  ThemeTypeOK'
  <2>1. /\ page' = [page EXCEPT !.current = theme, !.builder = FALSE]
        /\ timer' = [theme |-> theme, save |-> TRUE]
        /\ picks < MaxPicks /\ picks' = picks + 1 /\ hasty' = FALSE
        /\ UNCHANGED <<saved, system, opened, news, asks, strayed, leftover>>
    BY <1>1 DEF PickTheme, ApplyTheme, Pick
  <2>2. page' \in Page
    BY <1>0, <2>1 DEF Page
  <2>3. timer' \in Timer
    BY <2>1, TimerTyped
  <2>4. hasty' \in BOOLEAN
    BY <2>1
  <2> QED
    BY <1>0, <2>1, <2>2, <2>3, <2>4 DEF ThemeTypeOK
<1>2. CASE ShowBuilder
  <2>1. page' = [page EXCEPT !.builder = TRUE]
    BY <1>2 DEF ShowBuilder
  <2>2. page' \in Page
    BY <1>0, <2>1 DEF Page
  <2> QED
    BY <1>0, <1>2, <2>2 DEF ShowBuilder, ThemeTypeOK
<1>3. ASSUME NEW c \in Colours, EditColours(c)
      PROVE  ThemeTypeOK'
  <2>1. page' \in Page
    BY <1>0, <1>3 DEF EditColours, Page
  <2> QED
    BY <1>0, <1>3, <2>1 DEF EditColours, ThemeTypeOK
<1>4. CASE ApplyCustom
  <2>1. /\ page' = [page EXCEPT !.custom = page.input, !.vars = page.input,
                                !.theme = "custom", !.current = "custom"]
        /\ Store("custom", page.input) /\ hasty' = (timer # None)
        /\ picks < MaxPicks /\ picks' = picks + 1
        /\ leftover' = (leftover \/ (opened.open /\ saved.theme = "custom"
                                                  /\ page.input # saved.custom))
        /\ UNCHANGED <<system, timer, opened, asks, strayed>>
    BY <1>4 DEF ApplyCustom, Pick
  <2>2. page.input \in Colours /\ page' \in Page
    BY <1>0, <2>1 DEF Page, Themes
  <2>3. /\ saved' \in Saved
        /\ news' \in Seq(Themes \cup {None}) /\ Len(news') <= MaxNews
    BY <2>1, <2>2, StoreTyped DEF Themes
  <2>4. hasty' \in BOOLEAN /\ leftover' \in BOOLEAN
    <3>1. leftover' \in BOOLEAN
      BY <1>0, <2>1
    <3>2. hasty' \in BOOLEAN
      BY <2>1
    <3> QED
      BY <3>1, <3>2
  <2> QED
    BY <1>0, <2>1, <2>2, <2>3, <2>4 DEF ThemeTypeOK
<1>5. CASE TimerFires
  <2>1. timer \in Timer /\ timer.theme \in Themes
    BY <1>0, <1>5 DEF TimerFires, Timer
  <2>2. /\ timer' = None
        /\ page' = [page EXCEPT !.theme = Resolve(timer.theme, system),
                                !.vars = ColoursOf(timer.theme)]
        /\ UNCHANGED <<system, opened, asks, picks, hasty, strayed, leftover>>
    BY <1>5 DEF TimerFires
  <2>3. Resolve(timer.theme, system) \in Plain \cup {"custom"}
    BY <1>0, <2>1, ResolveTyped
  <2>4. ColoursOf(timer.theme) \in Colours \cup {None}
    BY <1>0 DEF ColoursOf, Page
  <2>5. page' \in Page
    BY <1>0, <2>2, <2>3, <2>4 DEF Page
  <2>6. saved.custom \in Colours \cup {None}
    BY <1>0 DEF Saved
  <2>7. /\ saved' \in Saved
        /\ news' \in Seq(Themes \cup {None}) /\ Len(news') <= MaxNews
    BY <1>0, <1>5, <2>1, <2>6, StoreTyped DEF TimerFires
  <2> QED
    BY <1>0, <2>2, <2>5, <2>7 DEF ThemeTypeOK
<1>6. ASSUME NEW preferred \in Plain, SystemChanges(preferred)
      PROVE  ThemeTypeOK'
  <2>1. /\ system' = preferred /\ picks < MaxPicks /\ picks' = picks + 1
        /\ UNCHANGED <<saved, opened, news, asks, strayed, leftover>>
    BY <1>6 DEF SystemChanges, Pick
  <2>2. hasty' \in BOOLEAN
    <3>1. (hasty \/ (page.current = "system" /\ timer # None /\ timer.save)) \in BOOLEAN
      OBVIOUS
    <3> QED
      BY <1>6, <3>1 DEF SystemChanges
  <2>3. page' \in Page /\ timer' \in Timer \cup {None}
    <3>1. CASE page.current = "system"
      <4>1. /\ page' = [page EXCEPT !.current = "system", !.builder = page.builder]
            /\ timer' = [theme |-> "system", save |-> FALSE]
        BY <1>6, <3>1 DEF SystemChanges, ApplyTheme
      <4>2. page' \in Page
        BY <1>0, <4>1 DEF Page, Themes
      <4> QED
        BY <4>1, <4>2, TimerTyped DEF Themes
    <3>2. CASE page.current # "system"
      BY <1>0, <1>6, <3>2 DEF SystemChanges
    <3> QED
      BY <3>1, <3>2
  <2> QED
    BY <1>0, <2>1, <2>2, <2>3 DEF ThemeTypeOK
<1>7. CASE ResetTheme
  <2>1. page' = LoadedPage(Nothing) /\ timer' = LoadedTimer(Nothing)
    BY <1>7 DEF ResetTheme
  <2>2. page' \in Page /\ timer' \in Timer
    BY <2>1, LoadedTyped, NothingSaved
  <2>3. Store(None, None) /\ hasty' = FALSE /\ picks < MaxPicks /\ picks' = picks + 1
        /\ UNCHANGED <<system, opened, asks, strayed, leftover>>
    BY <1>7 DEF ResetTheme, Pick
  <2>4. /\ saved' \in Saved
        /\ news' \in Seq(Themes \cup {None}) /\ Len(news') <= MaxNews
    BY <2>3, StoreTyped
  <2>5. hasty' \in BOOLEAN
    BY <2>3
  <2> QED
    BY <1>0, <2>2, <2>3, <2>4, <2>5 DEF ThemeTypeOK
<1>8. CASE ReopenPage
  <2>1. page' = LoadedPage(saved) /\ timer' = LoadedTimer(saved)
    BY <1>8 DEF ReopenPage
  <2>2. page' \in Page /\ timer' \in Timer
    BY <1>0, <2>1, LoadedTyped
  <2>3. hasty' = FALSE /\ picks < MaxPicks /\ picks' = picks + 1
        /\ UNCHANGED <<saved, system, opened, news, asks, strayed, leftover>>
    BY <1>8 DEF ReopenPage, Pick
  <2>4. hasty' \in BOOLEAN
    BY <2>3
  <2> QED
    BY <1>0, <2>2, <2>3, <2>4 DEF ThemeTypeOK
<1>9. CASE PopupOpens
  <2>1. OrElse(saved.theme, "dark") \in Themes /\ saved.custom \in Colours \cup {None}
    BY <1>0 DEF OrElse, Saved, Themes, Plain
  <2>2. Resolve(OrElse(saved.theme, "dark"), system) \in Plain \cup {"custom"}
    BY <1>0, <2>1, ResolveTyped
  <2>3. opened' \in Popup
    BY <1>9, <2>1, <2>2 DEF PopupOpens, Popup
  <2> QED
    BY <1>0, <1>9, <2>3 DEF PopupOpens, ThemeTypeOK
<1>10. CASE PopupCloses
  <2>1. UnopenedPopup \in Popup
    BY DEF UnopenedPopup, Popup, Plain
  <2>2. <<>> \in Seq(Themes \cup {None}) /\ Len(<<>>) <= MaxNews
    OBVIOUS
  <2> QED
    BY <1>0, <1>10, <2>1, <2>2 DEF PopupCloses, ThemeTypeOK
<1>11. CASE HearTheme
  <2> DEFINE theme == ThemeOrDark(Head(news))
  <2>1. /\ news # <<>> /\ news' = Tail(news) /\ strayed' = (strayed \/ asks > 0)
        /\ IF theme = "custom" THEN asks' = asks + 1 /\ UNCHANGED <<opened, leftover>>
           ELSE /\ opened' = [opened EXCEPT !.theme = Resolve(theme, system)]
                /\ leftover' = (leftover \/ opened.vars # None)
                /\ UNCHANGED asks
        /\ UNCHANGED <<saved, system, page, timer, picks, hasty>>
    BY <1>11 DEF HearTheme
  <2>2. theme \in Themes
    BY <1>0, <2>1 DEF ThemeOrDark, OrElse, Themes, Plain
  <2> HIDE DEF theme
  <2>3. Resolve(theme, system) \in Plain \cup {"custom"}
    BY <1>0, <2>2, ResolveTyped
  <2>4. opened' \in Popup /\ asks' \in Nat
    BY <1>0, <2>1, <2>3 DEF Popup
  <2>5. news' \in Seq(Themes \cup {None}) /\ Len(news') <= MaxNews
    BY <1>0, <2>1
  <2>6. strayed' \in BOOLEAN /\ leftover' \in BOOLEAN
    BY <1>0, <2>1
  <2> QED
    BY <1>0, <2>1, <2>4, <2>5, <2>6 DEF ThemeTypeOK
<1>12. CASE HearColours
  <2>1. OrElse(saved.custom, opened.vars) \in Colours \cup {None}
    BY <1>0 DEF OrElse, Saved, Popup
  <2>2. opened' = [opened EXCEPT !.theme = "custom", !.vars = OrElse(saved.custom, opened.vars)]
    BY <1>0, <1>12 DEF HearColours, Popup
  <2>3. opened' \in Popup
    BY <1>0, <2>1, <2>2 DEF Popup
  <2>4. asks' \in Nat
    BY <1>0, <1>12 DEF HearColours
  <2>5. leftover' \in BOOLEAN
    <3>1. leftover' = (leftover /\ saved.custom = None)
      BY <1>12 DEF HearColours
    <3> QED
      BY <1>0, <3>1
  <2> QED
    BY <1>0, <1>12, <2>3, <2>4, <2>5 DEF HearColours, ThemeTypeOK
<1>13. CASE UNCHANGED themeVars
  BY <1>0, <1>13 DEF themeVars, ThemeTypeOK
<1> QED
  BY <1>1, <1>2, <1>3, <1>4, <1>5, <1>6, <1>7, <1>8, <1>9, <1>10, <1>11, <1>12, <1>13
  DEF ThemeNext

\* Page, popup and storage keep their types.
THEOREM ThemeTypes == ThemeSpec => []ThemeTypeOK
<1>1. ThemeInit => ThemeTypeOK
  <2> SUFFICES ASSUME ThemeInit PROVE ThemeTypeOK
    OBVIOUS
  <2>1. saved \in Saved /\ page \in Page /\ timer \in Timer
    BY LoadedTyped, NothingSaved DEF ThemeInit
  <2>2. opened \in Popup
    BY DEF ThemeInit, UnopenedPopup, Popup, Plain
  <2>3. news \in Seq(Themes \cup {None}) /\ Len(news) <= MaxNews
    BY BoundsAssumption DEF ThemeInit
  <2>4. hasty \in BOOLEAN /\ strayed \in BOOLEAN /\ leftover \in BOOLEAN
    BY DEF ThemeInit
  <2>5. system \in Plain /\ asks \in Nat /\ picks \in 0..MaxPicks
    BY BoundsAssumption DEF ThemeInit
  <2> QED
    BY <2>1, <2>2, <2>3, <2>4, <2>5 DEF ThemeTypeOK
<1> QED
  BY <1>1, NextThemeTyped, PTL DEF ThemeSpec

\* -------------------------------------------------------------------------
\* The settings page

\* What the storage and the timer hold: a custom theme is stored with its colours, and the
\* timer never stores one.
CustomIsStored ==
    /\ saved.theme = "custom" => saved.custom # None
    /\ timer # None /\ timer.save => timer.theme # "custom"

\* The page is on its way to what is stored: its timer brings it there, and either stores
\* the theme then or applies the one that is stored.
PageFollows ==
    ~hasty =>
        /\ timer = None =>
               /\ page.current = OrElse(saved.theme, "dark")
               /\ page.theme = Resolve(page.current, system)
               /\ page.vars = IF saved.theme = "custom" THEN saved.custom ELSE None
        /\ timer # None =>
               /\ timer.theme = page.current
               /\ ~timer.save =>
                      /\ timer.theme = OrElse(saved.theme, "dark")
                      /\ timer.theme = "custom" => page.vars = saved.custom

PageInv == CustomIsStored /\ PageFollows

\* A page that is loaded from what is stored follows it.
LEMMA LoadedFollows ==
  ASSUME NEW s \in Saved, s.theme = "custom" => s.custom # None,
         saved' = s, page' = LoadedPage(s), timer' = LoadedTimer(s)
  PROVE  PageInv'
<1>1. timer' # None /\ timer' = [theme |-> OrElse(s.theme, "dark"), save |-> FALSE]
  BY LoadedTyped DEF LoadedTimer
<1>2. page'.current = OrElse(s.theme, "dark")
  BY DEF LoadedPage
<1>3. s.theme = "custom" => page'.vars = s.custom
  BY DEF LoadedPage, OrElse
<1>4. OrElse(s.theme, "dark") = "custom" => s.theme = "custom"
  BY DEF OrElse
<1>5. timer'.theme = OrElse(s.theme, "dark") /\ timer'.save = FALSE
  BY <1>1
<1> QED
  BY <1>1, <1>2, <1>3, <1>4, <1>5 DEF PageInv, CustomIsStored, PageFollows

\* Each step keeps it.
LEMMA NextFollows == ThemeTypeOK /\ PageInv /\ [ThemeNext]_themeVars => PageInv'
<1> SUFFICES ASSUME ThemeTypeOK, PageInv, [ThemeNext]_themeVars PROVE PageInv'
  OBVIOUS
<1> USE DEF PageInv
<1>0. saved \in Saved /\ page \in Page /\ timer \in Timer \cup {None} /\ system \in Plain
  BY DEF ThemeTypeOK
<1>1. ASSUME NEW theme \in Themes \ {"custom"}, PickTheme(theme)
      PROVE  PageInv'
  <2>1. /\ page' = [page EXCEPT !.current = theme, !.builder = FALSE]
        /\ timer' = [theme |-> theme, save |-> TRUE] /\ saved' = saved
    BY <1>1 DEF PickTheme, ApplyTheme
  <2>2. timer' # None /\ timer'.theme = theme /\ timer'.save
    BY <2>1, TimerTyped
  <2>3. page'.current = theme
    BY <1>0, <2>1 DEF Page
  <2> QED
    BY <2>1, <2>2, <2>3 DEF CustomIsStored, PageFollows
<1>2. ASSUME UNCHANGED <<saved, system, timer, hasty>>,
             /\ page'.current = page.current /\ page'.theme = page.theme
             /\ page'.vars = page.vars
      PROVE  PageInv'
  BY <1>2 DEF CustomIsStored, PageFollows
<1>3. CASE ShowBuilder
  <2>1. page' = [page EXCEPT !.builder = TRUE] /\ UNCHANGED <<saved, system, timer, hasty>>
    BY <1>3 DEF ShowBuilder
  <2>2. /\ page'.current = page.current /\ page'.theme = page.theme
        /\ page'.vars = page.vars
    BY <1>0, <2>1 DEF Page
  <2> QED
    BY <1>2, <2>1, <2>2
<1>4. ASSUME NEW c \in Colours, EditColours(c)
      PROVE  PageInv'
  <2>1. page' = [page EXCEPT !.input = c] /\ UNCHANGED <<saved, system, timer, hasty>>
    BY <1>4 DEF EditColours
  <2>2. /\ page'.current = page.current /\ page'.theme = page.theme
        /\ page'.vars = page.vars
    BY <1>0, <2>1 DEF Page
  <2> QED
    BY <1>2, <2>1, <2>2
<1>5. CASE ApplyCustom
  <2>1. /\ page' = [page EXCEPT !.custom = page.input, !.vars = page.input,
                                !.theme = "custom", !.current = "custom"]
        /\ saved' = [theme |-> "custom", custom |-> page.input]
        /\ hasty' = (timer # None) /\ timer' = timer
    BY <1>5 DEF ApplyCustom, Store
  <2>2. page.input # None
    BY <1>0, NoneAssumption DEF Page
  <2>3. CustomIsStored'
    BY <2>1, <2>2 DEF CustomIsStored
  <2>4. CASE timer # None
    BY <2>1, <2>3, <2>4 DEF PageFollows
  <2>5. CASE timer = None
    <3>1. page'.current = "custom" /\ page'.theme = "custom" /\ page'.vars = page.input
      BY <1>0, <2>1 DEF Page
    <3>2. saved'.theme = "custom" /\ saved'.custom = page.input
      BY <2>1
    <3>3. OrElse("custom", "dark") = "custom" /\ Resolve("custom", system') = "custom"
      BY NoneAssumption DEF OrElse, Resolve, Themes
    <3> QED
      BY <2>1, <2>3, <2>5, <3>1, <3>2, <3>3 DEF PageFollows
  <2> QED
    BY <2>4, <2>5
<1>6. CASE TimerFires
  <2>1. timer \in Timer /\ timer # None
    BY <1>0, <1>6 DEF TimerFires
  <2>2. /\ timer' = None
        /\ page' = [page EXCEPT !.theme = Resolve(timer.theme, system),
                                !.vars = ColoursOf(timer.theme)]
        /\ UNCHANGED <<system, hasty>>
    BY <1>6 DEF TimerFires
  <2>3. /\ page'.current = page.current /\ page'.theme = Resolve(timer.theme, system)
        /\ page'.vars = ColoursOf(timer.theme)
    BY <1>0, <2>2 DEF Page
  <2>4. CASE timer.save
    <3>1. saved' = [theme |-> timer.theme, custom |-> saved.custom]
      BY <1>6, <2>4 DEF TimerFires, Store
    <3>2. timer.theme # "custom" /\ timer.theme # None
      BY <2>1, <2>4, NoneAssumption DEF CustomIsStored, Timer
    <3>3. OrElse(saved'.theme, "dark") = timer.theme /\ saved'.theme # "custom"
      BY <3>1, <3>2 DEF OrElse
    <3>4. ColoursOf(timer.theme) = None
      BY <3>2 DEF ColoursOf
    <3> QED
      BY <2>1, <2>2, <2>3, <3>3, <3>4 DEF CustomIsStored, PageFollows
  <2>5. CASE ~timer.save
    <3>1. saved' = saved
      BY <1>6, <2>5 DEF TimerFires
    <3>2. ASSUME ~hasty
          PROVE  /\ timer.theme = page.current /\ timer.theme = OrElse(saved.theme, "dark")
                 /\ ColoursOf(timer.theme) = IF saved.theme = "custom" THEN saved.custom
                                             ELSE None
      <4>1. /\ timer.theme = page.current /\ timer.theme = OrElse(saved.theme, "dark")
            /\ timer.theme = "custom" => page.vars = saved.custom
        BY <2>1, <2>5, <3>2 DEF PageFollows
      <4>2. timer.theme = "custom" <=> saved.theme = "custom"
        BY <4>1, NoneAssumption DEF OrElse, Themes
      <4> QED
        BY <4>1, <4>2 DEF ColoursOf
    <3> QED
      BY <2>2, <2>3, <3>1, <3>2 DEF CustomIsStored, PageFollows
  <2> QED
    BY <2>4, <2>5
<1>7. ASSUME NEW preferred \in Plain, SystemChanges(preferred)
      PROVE  PageInv'
  <2>1. /\ system' = preferred /\ saved' = saved
        /\ hasty' = (hasty \/ (page.current = "system" /\ timer # None /\ timer.save))
    BY <1>7 DEF SystemChanges
  <2>2. CASE page.current = "system"
    <3>1. /\ page' = [page EXCEPT !.current = "system", !.builder = page.builder]
          /\ timer' = [theme |-> "system", save |-> FALSE]
      BY <1>7, <2>2 DEF SystemChanges, ApplyTheme
    <3>2. timer' # None /\ timer'.theme = "system" /\ ~timer'.save
      BY <3>1, TimerTyped DEF Themes
    <3>3. page'.current = "system"
      BY <1>0, <3>1 DEF Page
    <3>4. ASSUME ~hasty'
          PROVE  OrElse(saved.theme, "dark") = "system"
      BY <2>1, <2>2, <3>4 DEF PageFollows
    <3> QED
      BY <2>1, <3>2, <3>3, <3>4 DEF CustomIsStored, PageFollows
  <2>3. CASE page.current # "system"
    <3>1. page' = page /\ timer' = timer
      BY <1>7, <2>3 DEF SystemChanges
    <3>2. Resolve(page.current, system') = Resolve(page.current, system)
      BY <2>3 DEF Resolve
    <3>3. hasty' => hasty
      BY <2>1, <2>3
    <3>4. hasty => hasty'
      BY <2>1
    <3> QED
      BY <2>1, <3>1, <3>2, <3>3, <3>4 DEF CustomIsStored, PageFollows
  <2> QED
    BY <2>2, <2>3
<1>8. CASE ResetTheme
  <2>1. page' = LoadedPage(Nothing) /\ timer' = LoadedTimer(Nothing) /\ saved' = Nothing
    BY <1>8 DEF ResetTheme, Store, Nothing
  <2>2. Nothing.theme # "custom"
    BY NoneAssumption DEF Nothing, Themes
  <2> QED
    BY <2>1, <2>2, LoadedFollows, NothingSaved
<1>9. CASE ReopenPage
  <2>1. page' = LoadedPage(saved) /\ timer' = LoadedTimer(saved) /\ saved' = saved
    BY <1>9 DEF ReopenPage
  <2>2. saved.theme = "custom" => saved.custom # None
    BY DEF CustomIsStored
  <2> QED
    BY <1>0, <2>1, <2>2, LoadedFollows
<1>10. CASE PopupOpens \/ PopupCloses \/ HearTheme \/ HearColours \/ UNCHANGED themeVars
  <2>1. UNCHANGED <<saved, system, page, timer, hasty>>
    BY <1>10 DEF PopupOpens, PopupCloses, HearTheme, HearColours, themeVars
  <2> QED
    BY <1>2, <2>1
<1> QED
  BY <1>1, <1>3, <1>4, <1>5, <1>6, <1>7, <1>8, <1>9, <1>10 DEF ThemeNext

\* -------------------------------------------------------------------------
\* The popup

\* A closed popup hears nothing.  The last change on its way to an open one is the stored
\* theme; when none is on its way, the popup has it, or has asked for its colours.
PopupHears ==
    /\ ~opened.open => news = <<>> /\ asks = 0
    /\ news # <<>> => news[Len(news)] = saved.theme
    /\ ~strayed => asks <= 1
    /\ news = <<>> /\ ~strayed /\ asks > 0 => saved.theme = "custom"
    /\ opened.open => PopupHasTheme

\* The colours that a popup wears when it is opened now.
ColoursSaved == IF saved.theme = "custom" THEN saved.custom ELSE None

\* A theme that is stored is the last news of it, if it changed; colours that are stored for
\* the same theme are left over in an open popup if they changed.
LEMMA StoreIsNews ==
  ASSUME ThemeTypeOK, PopupHears, NEW theme, NEW custom, Store(theme, custom),
         leftover => leftover',
         opened.open /\ theme = saved.theme /\ theme = "custom" =>
             custom = saved.custom \/ leftover',
         UNCHANGED <<opened, asks, strayed>>
  PROVE  PopupHears'
<1>1. saved'.theme = theme /\ saved'.custom = custom
  BY DEF Store
<1>2. CASE opened.open /\ theme # saved.theme
  <2>1. news' = Append(news, theme) /\ news \in Seq(Themes \cup {None})
    BY <1>2 DEF Store, ThemeTypeOK
  <2>2. news' # <<>> /\ news'[Len(news')] = theme
    <3>1. Len(news') = Len(news) + 1
      BY <2>1
    <3>2. news'[Len(news) + 1] = theme
      BY <2>1
    <3> QED
      BY <2>1, <3>1, <3>2
  <2> QED
    BY <1>1, <1>2, <2>2 DEF PopupHears, PopupHasTheme
<1>3. CASE ~(opened.open /\ theme # saved.theme)
  <2>1. news' = news
    BY <1>3 DEF Store
  <2>2. CASE opened.open
    <3>1. theme = saved.theme
      BY <1>3, <2>2
    <3>2. ColoursSaved' = ColoursSaved \/ leftover'
      BY <1>1, <2>2, <3>1 DEF ColoursSaved
    <3>3. PopupHasTheme'
      BY <1>1, <2>1, <2>2, <3>1, <3>2 DEF PopupHears, PopupHasTheme, ColoursSaved
    <3> QED
      BY <1>1, <2>1, <2>2, <3>1, <3>3 DEF PopupHears
  <2>3. CASE ~opened.open
    BY <2>1, <2>3 DEF PopupHears
  <2> QED
    BY <2>2, <2>3
<1> QED
  BY <1>2, <1>3

\* Each step keeps it.
LEMMA NextPopupHears ==
  ThemeTypeOK /\ PageInv /\ PopupHears /\ [ThemeNext]_themeVars => PopupHears'
<1> SUFFICES ASSUME ThemeTypeOK, PageInv, PopupHears, [ThemeNext]_themeVars PROVE PopupHears'
  OBVIOUS
<1>0. /\ saved \in Saved /\ opened \in Popup /\ news \in Seq(Themes \cup {None}) /\ asks \in Nat
      /\ leftover \in BOOLEAN
  BY DEF ThemeTypeOK
<1>1. ASSUME UNCHANGED <<saved, opened, news, asks, strayed, leftover>>
      PROVE  PopupHears'
  BY <1>1 DEF PopupHears, PopupHasTheme
<1>2. ASSUME \/ \E theme \in Themes \ {"custom"} : PickTheme(theme)
             \/ ShowBuilder
             \/ \E c \in Colours : EditColours(c)
             \/ \E p \in Plain : SystemChanges(p)
             \/ ReopenPage
             \/ UNCHANGED themeVars
      PROVE  PopupHears'
  <2>1. UNCHANGED <<saved, opened, news, asks, strayed, leftover>>
    BY <1>2 DEF PickTheme, ShowBuilder, EditColours, SystemChanges, ReopenPage, themeVars
  <2> QED
    BY <1>1, <2>1
<1>3. CASE ApplyCustom
  <2>1. /\ Store("custom", page.input) /\ UNCHANGED <<opened, asks, strayed>>
        /\ leftover' = (leftover \/ (opened.open /\ saved.theme = "custom"
                                                  /\ page.input # saved.custom))
    BY <1>3 DEF ApplyCustom
  <2> QED
    BY <2>1, StoreIsNews
<1>4. CASE TimerFires
  <2>1. CASE timer.save
    <3>1. /\ Store(timer.theme, saved.custom)
          /\ UNCHANGED <<opened, asks, strayed, leftover>>
      BY <1>4, <2>1 DEF TimerFires
    <3> QED
      BY <3>1, StoreIsNews
  <2>2. CASE ~timer.save
    BY <1>1, <1>4, <2>2 DEF TimerFires
  <2> QED
    BY <2>1, <2>2
<1>5. CASE ResetTheme
  <2>1. /\ Store(None, None) /\ None # "custom"
        /\ UNCHANGED <<opened, asks, strayed, leftover>>
    BY <1>5, NoneAssumption DEF ResetTheme, Themes
  <2> QED
    BY <2>1, StoreIsNews
<1>6. CASE PopupOpens
  <2>1. /\ opened' = [open |-> TRUE,
                      theme |-> Resolve(OrElse(saved.theme, "dark"), system),
                      vars |-> IF saved.theme = "custom" THEN saved.custom ELSE None]
        /\ news' = news /\ asks' = asks /\ saved' = saved /\ ~opened.open
    BY <1>6 DEF PopupOpens
  <2>2. /\ opened'.open /\ opened'.theme = Resolve(OrElse(saved.theme, "dark"), system)
        /\ opened'.vars = IF saved.theme = "custom" THEN saved.custom ELSE None
    BY <2>1
  <2>3. news = <<>> /\ asks = 0
    BY <2>1 DEF PopupHears
  <2>4. saved.theme # "system" => opened'.theme = OrElse(saved.theme, "dark")
    BY <2>2 DEF Resolve, OrElse
  <2> QED
    BY <2>1, <2>2, <2>3, <2>4 DEF PopupHears, PopupHasTheme
<1>7. CASE PopupCloses
  <2>1. opened' = UnopenedPopup /\ news' = <<>> /\ asks' = 0
    BY <1>7 DEF PopupCloses
  <2>2. ~opened'.open
    BY <2>1 DEF UnopenedPopup
  <2> QED
    BY <2>1, <2>2 DEF PopupHears
<1>8. CASE HearTheme
  <2> DEFINE theme == ThemeOrDark(Head(news))
  <2>1. /\ news # <<>> /\ news' = Tail(news) /\ strayed' = (strayed \/ asks > 0)
        /\ IF theme = "custom" THEN asks' = asks + 1 /\ UNCHANGED <<opened, leftover>>
           ELSE /\ opened' = [opened EXCEPT !.theme = Resolve(theme, system)]
                /\ leftover' = (leftover \/ opened.vars # None)
                /\ UNCHANGED asks
        /\ saved' = saved
    BY <1>8 DEF HearTheme
  <2>2. opened.open /\ opened'.open
    <3>1. opened.open
      BY <2>1 DEF PopupHears
    <3> QED
      BY <1>0, <2>1, <3>1 DEF Popup
  <2>3. news' # <<>> => news'[Len(news')] = news[Len(news)]
    BY <1>0, <2>1
  <2>4. news[Len(news)] = saved.theme
    BY <2>1 DEF PopupHears
  <2>5. news' = <<>> => theme = OrElse(saved.theme, "dark")
    <3> SUFFICES ASSUME news' = <<>> PROVE Head(news) = saved.theme
      BY DEF ThemeOrDark
    <3>1. Len(Tail(news)) = Len(news) - 1 /\ Len(news) \in Nat
      BY <1>0, <2>1
    <3>2. Tail(news) = <<>>
      BY <2>1, Zenon
    <3>3. Len(Tail(news)) = 0
      BY <1>0, <3>2, EmptySeq
    <3>4. Len(news) = 1
      BY <3>1, <3>3
    <3> QED
      BY <1>0, <2>1, <2>4, <3>4
  <2>6. ~strayed' => asks = 0 /\ ~strayed
    <3>1. ~strayed' => ~(asks > 0) /\ ~strayed
      BY <2>1, Zenon
    <3>2. ~(asks > 0) => asks = 0
      BY <1>0
    <3> QED
      BY <3>1, <3>2, Zenon
  <2> HIDE DEF theme
  <2>7. CASE theme = "custom"
    <3>1. news' = <<>> => saved.theme = "custom"
      BY <2>5, <2>7 DEF OrElse
    <3>2. asks' = asks + 1
      BY <2>1, <2>7
    <3> QED
      BY <1>0, <2>1, <2>2, <2>3, <2>4, <2>6, <3>1, <3>2 DEF PopupHears, PopupHasTheme
  <2>8. CASE theme # "custom"
    <3>1. /\ asks' = asks /\ opened'.theme = Resolve(theme, system)
          /\ opened'.vars = opened.vars /\ leftover' = (leftover \/ opened.vars # None)
      BY <1>0, <2>1, <2>8 DEF Popup
    <3>2. news' = <<>> /\ saved.theme # "system" => opened'.theme = OrElse(saved.theme, "dark")
      BY <2>5, <3>1 DEF Resolve, OrElse
    <3>3. news' = <<>> => saved.theme # "custom"
      BY <2>5, <2>8, NoneAssumption DEF OrElse, Themes
    <3>4. opened'.vars = None \/ leftover'
      BY <3>1
    <3>5. PopupHasTheme'
      BY <2>1, <3>2, <3>3, <3>4 DEF PopupHasTheme
    <3> QED
      BY <1>0, <2>1, <2>2, <2>3, <2>4, <2>6, <3>1, <3>5 DEF PopupHears
  <2> QED
    BY <2>7, <2>8
<1>9. CASE HearColours
  <2>1. /\ asks > 0 /\ asks' = asks - 1 /\ UNCHANGED <<saved, news, strayed>>
        /\ opened' = [opened EXCEPT !.theme = "custom", !.vars = OrElse(saved.custom, @)]
    BY <1>9 DEF HearColours
  <2>2. opened.open
    BY <1>0, <2>1 DEF PopupHears
  <2> DEFINE colours == OrElse(saved.custom, opened.vars)
  <2>3. opened' = [opened EXCEPT !.theme = "custom", !.vars = colours]
    BY <2>1
  <2>4. saved.custom # None => colours = saved.custom
    BY DEF OrElse
  <2> HIDE DEF colours
  <2>5. opened'.theme = "custom" /\ opened'.open /\ opened'.vars = colours
    BY <1>0, <2>2, <2>3 DEF Popup
  <2>6. ~strayed => asks' = 0
    BY <1>0, <2>1 DEF PopupHears
  <2>7. news = <<>> /\ ~strayed => saved.theme = "custom" /\ saved.custom # None
    BY <2>1 DEF PopupHears, PageInv, CustomIsStored
  <2>8. OrElse("custom", "dark") = "custom"
    BY NoneAssumption DEF OrElse, Themes
  <2>9. PopupHasTheme'
    BY <2>1, <2>4, <2>5, <2>7, <2>8 DEF PopupHasTheme
  <2> QED
    BY <1>0, <2>1, <2>5, <2>6, <2>7, <2>9 DEF PopupHears
<1> QED
  BY <1>2, <1>3, <1>4, <1>5, <1>6, <1>7, <1>8, <1>9 DEF ThemeNext

\* At first the page, and the popup that is not open, follow an empty storage.
LEMMA InitFollows == ThemeInit => PageInv /\ PopupHears
<1> SUFFICES ASSUME ThemeInit PROVE PageInv /\ PopupHears
  OBVIOUS
<1>1. timer # None /\ timer = [theme |-> "dark", save |-> FALSE]
  BY LoadedTyped, NothingSaved DEF ThemeInit, LoadedTimer, Nothing, OrElse
<1>2. page.current = "dark"
  BY DEF ThemeInit, LoadedPage, Nothing, OrElse
<1>3. saved.theme = None /\ None # "custom" /\ OrElse(saved.theme, "dark") = "dark"
  BY NoneAssumption DEF ThemeInit, Nothing, OrElse, Themes
<1>4. timer.theme = "dark" /\ timer.save = FALSE
  BY <1>1
<1>5. news = <<>> /\ asks = 0 /\ ~opened.open
  BY DEF ThemeInit, UnopenedPopup
<1> QED
  BY <1>1, <1>2, <1>3, <1>4, <1>5 DEF PageInv, CustomIsStored, PageFollows, PopupHears

\* Once its timer has fired, the page looks as what is stored.
THEOREM PageIsRight == ThemeSpec => []PageShowsStored
<1>1. PageInv => PageShowsStored
  BY DEF PageInv, PageFollows, PageShowsStored
<1> QED
  BY <1>1, InitFollows, ThemeTypes, NextFollows, PTL DEF ThemeSpec

\* An open popup comes to the theme that is stored, and to its colours unless it still wears
\* those of a theme that was left or changed.
THEOREM PopupIsRight == ThemeSpec => []PopupHasTheme
<1>1. PopupHears => PopupHasTheme
  BY DEF PopupHears, PopupHasTheme
<1> QED
  BY <1>1, InitFollows, ThemeTypes, NextFollows, NextPopupHears, PTL DEF ThemeSpec
=============================================================================
