---------------------------- MODULE ThemePicker ----------------------------
(***************************************************************************)
(* The theme: the settings page that picks one, or makes one of two        *)
(* colours, and applies and stores it 40 ms later                          *)
(* (extension/settings/settings.js), and an open popup that follows what   *)
(* is stored (extension/popup/popup.js).  A custom theme's colours are     *)
(* inline style variables, which hide those of the data-theme attribute;   *)
(* how its shades are computed is left out.                                *)
(***************************************************************************)
EXTENDS Naturals, Sequences

CONSTANTS Colours,         \* pairs of a base and an accent colour
          StandardColours, \* the pair the builder starts with
          MaxPicks,        \* bound: clicks and changes of the operating system
          MaxNews,         \* bound: events on their way to the popup
          None             \* no value, no colours, no timer

ASSUME ColoursAssumption == StandardColours \in Colours
ASSUME BoundsAssumption == MaxPicks \in Nat /\ MaxNews \in Nat

\* The other fixed themes behave as these two.
Plain == {"dark", "light"}

Themes == Plain \cup {"system", "custom"}

\* themeTimer: what applyTheme was given.
Timer == [theme : Themes, save : BOOLEAN]

ASSUME NoneAssumption == None \notin Themes \cup Colours \cup Timer

VARIABLES
    saved,   \* chrome.storage.local: theme and customTheme
    system,  \* what prefers-color-scheme says
    page,    \* the settings page
    timer,   \* its themeTimer: the theme to apply, and whether to store it
    opened,  \* the popup: is it open, its data-theme attribute and style variables
    news,    \* the changes of theme on their way to the popup
    asks,    \* the popup's own questions for customTheme that are not answered yet
    picks,   \* how many clicks were made
    hasty,   \* history: Apply was pressed while the timer ran, or the system changed
             \* while "system" was about to be stored
    strayed, \* history: the popup heard of a change while it asked for customTheme
    leftover \* history: the popup still wears colours of a custom theme that was left, or
             \* that has other colours now

themeVars == <<saved, system, page, timer, opened, news, asks, picks, hasty, strayed, leftover>>

\* -------------------------------------------------------------------------
\* Types

Saved == [theme : Themes \cup {None}, custom : Colours \cup {None}]

\* theme is the data-theme attribute, vars the inline colours.  current is currentTheme,
\* input the builder's two fields, custom the customTheme object.
Page == [theme : Plain \cup {"custom"}, vars : Colours \cup {None}, current : Themes,
         input : Colours, custom : Colours, builder : BOOLEAN]

Popup == [open : BOOLEAN, theme : Plain \cup {"custom"}, vars : Colours \cup {None}]

ThemeTypeOK ==
    /\ saved \in Saved
    /\ system \in Plain
    /\ page \in Page
    /\ timer \in Timer \cup {None}
    /\ opened \in Popup
    /\ news \in Seq(Themes \cup {None}) /\ Len(news) <= MaxNews
    /\ asks \in Nat /\ picks \in 0..MaxPicks
    /\ hasty \in BOOLEAN /\ strayed \in BOOLEAN /\ leftover \in BOOLEAN

OrElse(value, default) == IF value = None THEN default ELSE value

\* resolveTheme: "system" is what the system prefers.
Resolve(theme, preferred) == IF theme = "system" THEN preferred ELSE theme

UnopenedPopup == [open |-> FALSE, theme |-> "dark", vars |-> None]

\* The page as it loads: the stored theme is applied by the timer, colours at once.
LoadedPage(s) ==
    LET custom == OrElse(s.custom, StandardColours) IN
    [theme |-> "dark", vars |-> IF s.theme = "custom" THEN custom ELSE None,
     current |-> OrElse(s.theme, "dark"), input |-> custom, custom |-> custom,
     builder |-> s.theme = "custom"]

LoadedTimer(s) == [theme |-> OrElse(s.theme, "dark"), save |-> FALSE]

Nothing == [theme |-> None, custom |-> None]

ThemeInit ==
    /\ saved = Nothing
    /\ system \in Plain
    /\ page = LoadedPage(Nothing) /\ timer = LoadedTimer(Nothing)
    /\ opened = UnopenedPopup /\ news = <<>> /\ asks = 0
    /\ picks = 0
    /\ hasty = FALSE /\ strayed = FALSE /\ leftover = FALSE

\* -------------------------------------------------------------------------
\* The settings page

Pick ==
    /\ picks < MaxPicks
    /\ picks' = picks + 1

\* storage.set: an open popup hears of the theme if it changed.
Store(theme, custom) ==
    /\ Len(news) < MaxNews
    /\ saved' = [theme |-> theme, custom |-> custom]
    /\ news' = IF opened.open /\ theme # saved.theme THEN Append(news, theme) ELSE news

\* applyTheme: a timer that still runs is replaced.
ApplyTheme(theme, save, builder) ==
    /\ page' = [page EXCEPT !.current = theme, !.builder = builder]
    /\ timer' = [theme |-> theme, save |-> save]

\* A button of the theme picker; the button of the custom theme only shows the builder.
PickTheme(theme) ==
    /\ Pick
    /\ ApplyTheme(theme, TRUE, FALSE)
    /\ hasty' = FALSE
    /\ UNCHANGED <<saved, system, opened, news, asks, strayed, leftover>>

ShowBuilder ==
    /\ ~page.builder
    /\ page' = [page EXCEPT !.builder = TRUE]
    /\ UNCHANGED <<saved, system, timer, opened, news, asks, picks, hasty, strayed, leftover>>

EditColours(c) ==
    /\ page.builder /\ page.input # c
    /\ page' = [page EXCEPT !.input = c]
    /\ UNCHANGED <<saved, system, timer, opened, news, asks, picks, hasty, strayed, leftover>>

\* btn-apply-custom: at once, and without stopping the timer.  An open popup hears nothing of
\* other colours for the theme it has.
ApplyCustom ==
    /\ Pick /\ page.builder
    /\ page' = [page EXCEPT !.custom = page.input, !.vars = page.input, !.theme = "custom",
                            !.current = "custom"]
    /\ Store("custom", page.input)
    /\ hasty' = (timer # None)
    /\ leftover' = (leftover \/ (opened.open /\ saved.theme = "custom" /\ page.input # saved.custom))
    /\ UNCHANGED <<system, timer, opened, asks, strayed>>

\* Faulty variant: the colours stay when another theme is applied.
ColoursKept(theme) == page.vars

\* Any other theme than the custom one takes the inline colours away.
ColoursOf(theme) == IF theme = "custom" THEN page.vars ELSE None

\* applyTheme's timer.
TimerFires ==
    /\ timer # None
    /\ timer' = None
    /\ page' = [page EXCEPT !.theme = Resolve(timer.theme, system),
                            !.vars = ColoursOf(timer.theme)]
    /\ IF timer.save THEN Store(timer.theme, saved.custom) ELSE UNCHANGED <<saved, news>>
    /\ UNCHANGED <<system, opened, asks, picks, hasty, strayed, leftover>>

\* The operating system turns light or dark.  The page applies "system" again without
\* storing it, in place of the timer that would.
SystemChanges(preferred) ==
    /\ Pick /\ system # preferred
    /\ system' = preferred
    /\ IF page.current = "system" THEN ApplyTheme("system", FALSE, page.builder)
       ELSE UNCHANGED <<page, timer>>
    /\ hasty' = (hasty \/ (page.current = "system" /\ timer # None /\ timer.save))
    /\ UNCHANGED <<saved, opened, news, asks, strayed, leftover>>

\* The settings are reset, or the page is opened again.
ResetTheme ==
    /\ Pick
    /\ Store(None, None)
    /\ page' = LoadedPage(Nothing) /\ timer' = LoadedTimer(Nothing)
    /\ hasty' = FALSE
    /\ UNCHANGED <<system, opened, asks, strayed, leftover>>

ReopenPage ==
    /\ Pick
    /\ page' = LoadedPage(saved) /\ timer' = LoadedTimer(saved)
    /\ hasty' = FALSE
    /\ UNCHANGED <<saved, system, opened, news, asks, strayed, leftover>>

\* -------------------------------------------------------------------------
\* The popup

PopupOpens ==
    /\ ~opened.open
    /\ opened' = [open |-> TRUE, theme |-> Resolve(OrElse(saved.theme, "dark"), system),
                  vars |-> IF saved.theme = "custom" THEN saved.custom ELSE None]
    /\ strayed' = FALSE /\ leftover' = FALSE
    /\ UNCHANGED <<saved, system, page, timer, news, asks, picks, hasty>>

PopupCloses ==
    /\ opened.open
    /\ opened' = UnopenedPopup /\ news' = <<>> /\ asks' = 0
    /\ UNCHANGED <<saved, system, page, timer, picks, hasty, strayed, leftover>>

\* Faulty variant: a theme that was removed is none.
AsIs(theme) == IF theme = None THEN "light" ELSE theme

ThemeOrDark(theme) == OrElse(theme, "dark")

\* The onChanged listener: for a custom theme the popup asks for its colours first.  The
\* colours of one that is left are not taken away.
HearTheme ==
    /\ news # <<>>
    /\ LET theme == ThemeOrDark(Head(news)) IN
       IF theme = "custom" THEN asks' = asks + 1 /\ UNCHANGED <<opened, leftover>>
       ELSE /\ opened' = [opened EXCEPT !.theme = Resolve(theme, system)]
            /\ leftover' = (leftover \/ opened.vars # None)
            /\ UNCHANGED asks
    /\ news' = Tail(news)
    /\ strayed' = (strayed \/ asks > 0)
    /\ UNCHANGED <<saved, system, page, timer, picks, hasty>>

HearColours ==
    /\ asks > 0
    /\ asks' = asks - 1
    /\ opened' = [opened EXCEPT !.theme = "custom", !.vars = OrElse(saved.custom, @)]
    /\ leftover' = (leftover /\ saved.custom = None)
    /\ UNCHANGED <<saved, system, page, timer, news, picks, hasty, strayed>>

\* -------------------------------------------------------------------------

ThemeNext ==
    \/ \E theme \in Themes \ {"custom"} : PickTheme(theme)
    \/ ShowBuilder \/ \E c \in Colours : EditColours(c)
    \/ ApplyCustom \/ TimerFires \/ \E p \in Plain : SystemChanges(p)
    \/ ResetTheme \/ ReopenPage
    \/ PopupOpens \/ PopupCloses \/ HearTheme \/ HearColours

ThemeSpec == ThemeInit /\ [][ThemeNext]_themeVars

\* -------------------------------------------------------------------------
\* Properties

\* Once its timer has fired, the page looks as the theme that is stored, in the colours
\* that are stored, and so does a page opened later.  Two things may spoil that in the
\* 40 ms before: Apply does not stop the timer, and a change of the system replaces the
\* timer that stores "system".
PageShowsStored ==
    timer = None /\ ~hasty =>
        /\ page.theme = Resolve(OrElse(saved.theme, "dark"), system)
        /\ page.vars = IF saved.theme = "custom" THEN saved.custom ELSE None

\* "Live-update when settings change while popup is open": once nothing is on its way, the
\* popup has the stored theme and its colours, unless it heard of another change while it
\* asked for colours (the late answer wins) or "system" changed its meaning (the popup does
\* not listen).  The update has two gaps: the colours of a custom theme that is left stay and
\* hide the new theme, and colours changed while the theme stays "custom" are not heard of.
PopupHasTheme ==
    opened.open /\ news = <<>> /\ asks = 0 /\ ~strayed =>
        /\ saved.theme # "system" => opened.theme = OrElse(saved.theme, "dark")
        /\ opened.vars = (IF saved.theme = "custom" THEN saved.custom ELSE None) \/ leftover

=============================================================================
