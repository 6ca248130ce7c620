----------------------------- MODULE ServerForm -----------------------------
(***************************************************************************)
(* The server section of the settings page                                 *)
(* (extension/settings/settings.js): the relay's URL, Save, Test           *)
(* Connection, and the messages beside the two buttons, which go away by   *)
(* timers.                                                                 *)
(***************************************************************************)
EXTENDS Naturals, FiniteSets

CONSTANTS MaxPresses, \* bound: how often Save and Test are pressed
          Unset       \* no URL

\* Nothing typed; what new URL() refuses; another scheme than http and https; a URL of these.
Urls == {"blank", "junk", "other", "http"}

Buttons == {"save", "test"}

ASSUME PressesAssumption == MaxPresses \in Nat

VARIABLES
    relayURL, \* chrome.storage.local's relayURL
    field,    \* the text field, trimmed and without a slash at its end
    testing,  \* is the Test button disabled
    presses,  \* how often a button was pressed
    note,     \* per button: its message, numbered, and whether it shows
    timers,   \* the timers that run, see Timers
    hurried   \* history, per button: did its message come while a timer of an older one
              \* ran that showMsg cannot stop

formVars == <<relayURL, field, testing, presses, note, timers, hurried>>

Numbers == 0..(2 * MaxPresses)

\* What showMsg arms for message number n: "hide" after its delay, then "fade" for 280 ms.
\* known: the element's _hideTimer still names it.
Timers == [button : Buttons, n : Numbers, step : {"hide", "fade"}, known : BOOLEAN]

FormTypeOK ==
    /\ relayURL \in {"http", Unset}
    /\ field \in Urls
    /\ testing \in BOOLEAN
    /\ presses \in 0..MaxPresses
    /\ note \in [Buttons -> [n : Numbers, class : {"none", "shown", "hiding"}]]
    /\ timers \subseteq Timers
    /\ hurried \in [Buttons -> BOOLEAN]

FormInit ==
    /\ relayURL = Unset
    /\ field \in Urls
    /\ testing = FALSE
    /\ presses = 0
    /\ note = [b \in Buttons |-> [n |-> 0, class |-> "none"]]
    /\ timers = {}
    /\ hurried = [b \in Buttons |-> FALSE]

\* -------------------------------------------------------------------------
\* Messages

Of(b, step) == {m \in timers : m.button = b /\ m.step = step}

\* The timers that showMsg cannot stop: nobody keeps the inner timer, and when one fires
\* _hideTimer forgets the timer of a message that came meanwhile.
Unstoppable(b) == Of(b, "fade") \cup {m \in Of(b, "hide") : ~m.known}

\* Faulty variant: the timer of the message before is not stopped.
AllStay(b) == timers

\* clearTimeout, for the timer that _hideTimer names.
WithoutKnown(b) == {m \in timers : ~(m.button = b /\ m.step = "hide" /\ m.known)}

\* Faulty variant: a timer is armed only if none runs.
ArmedIfNone(b, n) ==
    IF Of(b, "hide") # {} THEN {}
    ELSE {[button |-> b, n |-> n, step |-> "hide", known |-> TRUE]}

Armed(b, n) == {[button |-> b, n |-> n, step |-> "hide", known |-> TRUE]}

\* showMsg, on the element beside button b.
ShowMsg(b) ==
    LET n == note[b].n + 1 IN
    /\ note' = [note EXCEPT ![b] = [n |-> n, class |-> "shown"]]
    /\ timers' = WithoutKnown(b) \cup Armed(b, n)
    /\ hurried' = [hurried EXCEPT ![b] = Unstoppable(b) # {}]

HideTimerFires(m) ==
    /\ m \in timers /\ m.step = "hide"
    /\ note' = [note EXCEPT ![m.button].class = IF @ = "shown" THEN "hiding" ELSE @]
    /\ timers' = (timers \ {m}) \cup {[m EXCEPT !.step = "fade", !.known = FALSE]}
    /\ UNCHANGED <<relayURL, field, testing, presses, hurried>>

\* The inner timer hides whatever is shown now, and forgets the timer of that.
FadeTimerFires(m) ==
    /\ m \in timers /\ m.step = "fade"
    /\ note' = [note EXCEPT ![m.button].class = "none"]
    /\ timers' = {IF t.button = m.button THEN [t EXCEPT !.known = FALSE] ELSE t :
                     t \in timers \ {m}}
    /\ UNCHANGED <<relayURL, field, testing, presses, hurried>>

\* -------------------------------------------------------------------------
\* The form

Type(url) ==
    /\ field # url /\ presses < MaxPresses
    /\ field' = url
    /\ UNCHANGED <<relayURL, testing, presses, note, timers, hurried>>

Press ==
    /\ presses < MaxPresses
    /\ presses' = presses + 1

\* btn-save-server: saved, or a message says what is wrong with the URL.
PressSave ==
    /\ Press
    /\ relayURL' = IF field = "http" THEN field ELSE relayURL
    /\ ShowMsg("save")
    /\ UNCHANGED <<field, testing>>

\* btn-test: the button is disabled while the relay is asked for /health.
PressTest ==
    /\ Press /\ ~testing
    /\ testing' = (field # "blank")
    /\ ShowMsg("test")
    /\ UNCHANGED <<relayURL, field>>

\* An answer of whatever kind, an error, or the timeout of 8 s: a message, and the button
\* is enabled again.
TestEnds ==
    /\ testing
    /\ testing' = FALSE
    /\ ShowMsg("test")
    /\ UNCHANGED <<relayURL, field, presses>>

FormNext ==
    \/ \E url \in Urls : Type(url)
    \/ PressSave \/ PressTest \/ TestEnds
    \/ \E m \in timers : HideTimerFires(m) \/ FadeTimerFires(m)

FormSpec == FormInit /\ [][FormNext]_formVars

\* Timers fire.
FormFairness == WF_formVars(\E m \in timers : HideTimerFires(m) \/ FadeTimerFires(m))

\* -------------------------------------------------------------------------
\* Properties

\* A message stays for its delay: it is hidden only after its own timer fired, whatever
\* was shown before it.  Left out is a message that came while an older one faded, and one
\* that came while the timer of such a message ran: either timer hides it early.
MessageStays ==
    \A b \in Buttons :
        ~hurried[b] /\ note[b].n > 0 /\ note[b].class # "shown" =>
            ~\E m \in Of(b, "hide") : m.n = note[b].n

\* Every message goes away, although a new one stops the timer of the one before.
MessageGoes == \A b \in Buttons : note[b].class = "shown" ~> note[b].class # "shown"
=============================================================================
