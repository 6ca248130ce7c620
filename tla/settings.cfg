\* Two settings pages and a popup, a few clicks; a theme of two pairs of colours.
SPECIFICATION SettingsSpec
CONSTANTS
    Tabs = {t1, t2}
    Sliders = {"autoLockMinutes", "qrExpirySecs", "fontSize"}
    Typed = {0, 16, 99, NaN}
    NotANumber = NaN
    Picked = {"ar", "hi"}
    MaxClicks = 2
    MaxChanges = 2
    Unset = Unset
    None = None
    Colours = {c1, c2}
    StandardColours = c1
    MaxPicks = 4
    MaxNews = 2
SYMMETRY Symmetry
INVARIANTS TypesOK ChoiceIsUsed PopupFollows PageShowsStored PopupHasTheme
CHECK_DEADLOCK FALSE
