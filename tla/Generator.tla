----------------------------- MODULE Generator -----------------------------
(***************************************************************************)
(* The password generator of the popup (extension/popup/popup.js): its     *)
(* checkboxes, its slider and number field for the length, and             *)
(* _buildPassword.  Of a character only its set matters; what the random   *)
(* numbers choose is open.  A click runs _buildPassword to its end, in     *)
(* steps between which nothing else happens.                               *)
(***************************************************************************)
EXTENDS Integers, Sequences

CONSTANTS Order,        \* the sets of characters, in the order of their boxes
          Least, Most,  \* the limits of the length: 8 and 64
          Typed,        \* what the number field may hold besides lengths
          NotANumber    \* what parseInt makes of an empty field

ASSUME LimitsAssumption ==
    Least \in Nat /\ Most \in Nat /\ 0 < Least /\ Least <= Most
ASSUME TypedAssumption == Typed \subseteq Nat \cup {NotANumber} /\ NotANumber \notin Nat

ASSUME OrderAssumption == DOMAIN Order \subseteq Nat

Sets == {Order[n] : n \in DOMAIN Order}

ASSUME SetsAssumption == {"lower", "digits"} \subseteq Sets

Lengths == Least .. Most

\* What the number field may show: nothing greater than Most stays there.
Shown == Lengths \cup {v \in Typed : v = NotANumber \/ v <= Most}

VARIABLES
    checked, \* the checked boxes
    slider,  \* the length by the slider
    number,  \* the length by the number field
    typing,  \* is the number field being typed into
    pc,      \* "idle", or what _buildPassword does next
    todo,    \* the enabled sets that are still to be given a character
    chars,   \* the characters so far
    at,      \* where each enabled set was given its character
    turn,    \* the place the shuffle exchanges next
    output   \* the password that is shown; none before the first and while one is made

vars == <<checked, slider, number, typing, pc, todo, chars, at, turn, output>>

Passwords == UNION {[1..n -> Sets] : n \in Lengths}

TypeOK ==
    /\ checked \in SUBSET Sets
    /\ slider \in Lengths
    /\ number \in Shown /\ typing \in BOOLEAN
    /\ pc \in {"idle", "guarantee", "shuffle"}
    /\ todo \in SUBSET Sets
    /\ chars \in [1..slider -> Sets]
    /\ at \in [Sets -> 0..slider]
    /\ turn \in 0..slider
    /\ output \in Passwords \cup {<<>>}

Init ==
    /\ checked = Sets
    /\ slider \in Lengths /\ number = slider /\ typing = FALSE
    /\ pc = "idle" /\ todo = {} /\ turn = 0
    /\ chars = [p \in 1..slider |-> "lower"] /\ at = [s \in Sets |-> 0]
    /\ output = <<>>

\* -------------------------------------------------------------------------
\* _buildPassword

Enabled(boxes) == IF boxes = {} THEN {"lower", "digits"} ELSE boxes

\* Random picks from all enabled sets.
Build(boxes, length) ==
    /\ pc' = "guarantee"
    /\ todo' = Enabled(boxes)
    /\ chars' \in [1..length -> Enabled(boxes)]
    /\ at' = [s \in Sets |-> 0]
    /\ turn' = length
    /\ output' = <<>>

\* The sets are served in the order of the boxes.
IsNext(s) == \A m, n \in DOMAIN Order : Order[m] \in todo /\ Order[n] = s => n <= m

\* One character of set s at a random place, where another set's may already be.
Guarantee(s, p) ==
    /\ pc = "guarantee" /\ s \in todo /\ IsNext(s)
    /\ chars' = [chars EXCEPT ![p] = s]
    /\ at' = [at EXCEPT ![s] = p]
    /\ todo' = todo \ {s}
    /\ pc' = IF todo' = {} THEN "shuffle" ELSE pc
    /\ UNCHANGED <<checked, slider, number, typing, turn, output>>

\* Faulty variant: the exchange forgets the second character.
Overwritten(f, i, j) == [f EXCEPT ![i] = f[j]]

Exchanged(f, i, j) == [f EXCEPT ![i] = f[j], ![j] = f[i]]

\* Fisher-Yates, from the last place to the second.
Shuffle(j) ==
    /\ pc = "shuffle" /\ turn > 1
    /\ chars' = Exchanged(chars, turn, j)
    /\ turn' = turn - 1
    /\ UNCHANGED <<checked, slider, number, typing, pc, todo, at, output>>

Show ==
    /\ pc = "shuffle" /\ turn <= 1
    /\ output' = chars
    /\ pc' = "idle" /\ turn' = 0
    /\ UNCHANGED <<checked, slider, number, typing, todo, chars, at>>

\* -------------------------------------------------------------------------
\* The controls: each makes a new password

\* The panel is opened, or Generate pressed.
Generate ==
    /\ pc = "idle"
    /\ Build(checked, slider)
    /\ UNCHANGED <<checked, slider, number, typing>>

\* Faulty variant: a new password comes with the next press of Generate.
ToggleAlone(s) ==
    /\ pc = "idle" /\ output # <<>>
    /\ checked' = IF s \in checked THEN checked \ {s} ELSE checked \cup {s}
    /\ UNCHANGED <<slider, number, typing, pc, todo, chars, at, turn, output>>

ToggleSet(s) ==
    /\ pc = "idle" /\ output # <<>>
    /\ checked' = IF s \in checked THEN checked \ {s} ELSE checked \cup {s}
    /\ Build(checked', slider)
    /\ UNCHANGED <<slider, number, typing>>

\* Faulty variant: the number field is not told.
SliderAlone(v) ==
    /\ pc = "idle" /\ output # <<>>
    /\ slider' = v /\ typing' = FALSE
    /\ Build(checked, v)
    /\ UNCHANGED <<checked, number>>

MoveSlider(v) ==
    /\ pc = "idle" /\ output # <<>>
    /\ slider' = v /\ number' = v /\ typing' = FALSE
    /\ Build(checked, v)
    /\ UNCHANGED checked

\* Faulty variant: any number is taken.
IsANumber(v) == v # NotANumber

\* While a number is typed, what is no number or too small is left as it is.
Complete(v) == v # NotANumber /\ v >= Least

TypeNumber(v) ==
    /\ pc = "idle" /\ output # <<>>
    /\ LET length == IF v # NotANumber /\ v > Most THEN Most ELSE v IN
       /\ number' = length
       /\ typing' = TRUE
       /\ IF Complete(length) THEN slider' = length /\ Build(checked, length)
          ELSE UNCHANGED <<slider, pc, todo, chars, at, turn, output>>
    /\ UNCHANGED checked

AtLeast(v) == IF v = NotANumber \/ v < Least THEN Least ELSE v

\* The field is left.
LeaveNumber ==
    /\ pc = "idle" /\ typing
    /\ typing' = FALSE
    /\ number' = AtLeast(number) /\ slider' = AtLeast(number)
    /\ Build(checked, AtLeast(number))
    /\ UNCHANGED checked

Next ==
    \/ Generate \/ Show \/ LeaveNumber
    \/ \E s \in Sets : ToggleSet(s) \/ \E p \in 1..slider : Guarantee(s, p)
    \/ \E j \in 1..turn : Shuffle(j)
    \/ \E v \in Lengths : MoveSlider(v)
    \/ \E v \in Lengths \cup Typed : TypeNumber(v)

Spec == Init /\ [][Next]_vars

\* -------------------------------------------------------------------------
\* Properties

Used(password) == {password[p] : p \in DOMAIN password}

\* The password that is shown is as long as the slider says and of the checked sets only,
\* in whatever order the controls were used: no control changes without a new password.
OutputFitsControls ==
    pc = "idle" /\ output # <<>> =>
        /\ output \in [1..slider -> Sets]
        /\ Used(output) \subseteq Enabled(checked)

\* "Guarantee at least one character from each enabled charset" is not kept: the places are
\* random, and a set served later may be given the place of an earlier one.  What is left of
\* the promise: that is the only way for an enabled set to be missing, so the one that is
\* served last is always there, and the shuffle loses none.
Earlier(r, s) == \E m, n \in DOMAIN Order : Order[m] = r /\ Order[n] = s /\ m < n

Displaced(s) == \E r \in Enabled(checked) : Earlier(s, r) /\ at[r] = at[s]

MissingOnlyIfDisplaced ==
    pc = "idle" /\ output # <<>> =>
        \A s \in Enabled(checked) : s \in Used(output) \/ Displaced(s)

\* Slider and number field agree, except while a number is typed that is not complete.
LengthsAgree == number = slider \/ (typing /\ ~Complete(number))
=============================================================================
