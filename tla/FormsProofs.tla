----------------------------- MODULE FormsProofs -----------------------------
(***************************************************************************)
(* Proofs about the parts that MCForms puts together.  Generator, for any  *)
(* limits of the length and any sets of characters: that the shown         *)
(* password fits the controls, that slider and number field agree, and     *)
(* that a set is missing only if a later one was given its place.          *)
(* ServerForm, for any number of presses: that a message stays for its     *)
(* delay.  Autofill, for any credentials, sites and tabs: that a page is   *)
(* filled with a credential of its own site unless the tab left it.        *)
(* RateLimiter, for any limit, window, pipes and number of requests: that  *)
(* the limit holds for requests that run in order and share no pipe, and   *)
(* that nobody is refused without a reason.  And the types of all.         *)
(***************************************************************************)
EXTENDS MCForms, SequenceTheorems, FiniteSetTheorems, TLAPS

\* -------------------------------------------------------------------------
\* Generator

USE DEF Lengths, Shown

\* Types

\* Some set is always enabled, and only sets are.
LEMMA EnabledSets ==
  ASSUME NEW boxes \in SUBSET Sets
  PROVE  Enabled(boxes) \in SUBSET Sets
  BY SetsAssumption DEF Enabled

\* A new password is begun with typed values.
LEMMA BuildTyped ==
  ASSUME NEW boxes \in SUBSET Sets, NEW length \in Lengths, Build(boxes, length)
  PROVE  /\ pc' = "guarantee"
         /\ todo' \in SUBSET Sets
         /\ chars' \in [1..length -> Sets]
         /\ at' \in [Sets -> 0..length]
         /\ turn' \in 0..length
         /\ output' = <<>>
<1>1. Enabled(boxes) \in SUBSET Sets
  BY EnabledSets
<1>2. length \in Nat
  BY LimitsAssumption
<1> QED
  BY <1>1, <1>2 DEF Build

\* An exchange of two characters leaves characters.
LEMMA ExchangedTyped ==
  ASSUME NEW S, NEW n \in Nat, NEW f \in [1..n -> S], NEW i \in 1..n, NEW j \in 1..n
  PROVE  Exchanged(f, i, j) \in [1..n -> S]
  BY DEF Exchanged

\* The initial values have the types of TypeOK.
LEMMA GeneratorBegins == Init => TypeOK
<1> SUFFICES ASSUME Init PROVE TypeOK
  OBVIOUS
<1>1. slider \in Nat /\ "lower" \in Sets
  BY LimitsAssumption, SetsAssumption DEF Init
<1>2. chars \in [1..slider -> Sets] /\ at \in [Sets -> 0..slider] /\ turn \in 0..slider
  BY <1>1 DEF Init
<1> QED
  BY <1>2 DEF Init, TypeOK

\* What the number field holds when it is left becomes a length.
LEMMA AtLeastTyped ==
  ASSUME NEW v \in Shown
  PROVE  AtLeast(v) \in Lengths
  BY LimitsAssumption, TypedAssumption DEF AtLeast

\* A complete number that is not too great is a length.
LEMMA TypedLength ==
  ASSUME NEW v \in Lengths \cup Typed
  PROVE  LET length == IF v # NotANumber /\ v > Most THEN Most ELSE v IN
         length \in Shown /\ (Complete(length) => length \in Lengths)
  BY LimitsAssumption, TypedAssumption DEF Complete

\* Each step keeps the types.
LEMMA GeneratorSteps == TypeOK /\ [Next]_vars => TypeOK'
<1> SUFFICES ASSUME TypeOK, [Next]_vars PROVE TypeOK'
  OBVIOUS
<1> USE LimitsAssumption DEF TypeOK
<1>1. CASE Generate
  BY <1>1, BuildTyped DEF Generate
<1>2. CASE Show
  <2>1. output' \in Passwords
    BY <1>2 DEF Show, Passwords
  <2>2. turn' \in 0..slider
    BY <1>2 DEF Show
  <2> QED
    BY <1>2, <2>1, <2>2 DEF Show
<1>3. CASE LeaveNumber
  <2>1. AtLeast(number) \in Lengths
    BY AtLeastTyped
  <2> QED
    BY <1>3, <2>1, BuildTyped DEF LeaveNumber
<1>4. ASSUME NEW s \in Sets, ToggleSet(s)
      PROVE  TypeOK'
  <2>1. checked' \in SUBSET Sets /\ Build(checked', slider) /\ UNCHANGED <<slider, number, typing>>
    BY <1>4 DEF ToggleSet
  <2>2. /\ pc' = "guarantee" /\ todo' \in SUBSET Sets /\ chars' \in [1..slider -> Sets]
        /\ at' \in [Sets -> 0..slider] /\ turn' \in 0..slider /\ output' = <<>>
    BY <2>1, BuildTyped
  <2> QED
    BY <2>1, <2>2
<1>5. ASSUME NEW s \in Sets, NEW p \in 1..slider, Guarantee(s, p)
      PROVE  TypeOK'
  BY <1>5 DEF Guarantee
<1>6. ASSUME NEW j \in 1..turn, Shuffle(j)
      PROVE  TypeOK'
  <2>1. slider \in Nat /\ turn \in 1..slider /\ j \in 1..slider
    BY <1>6 DEF Shuffle
  <2>2. Exchanged(chars, turn, j) \in [1..slider -> Sets]
    BY <2>1, ExchangedTyped
  <2> QED
    BY <1>6, <2>1, <2>2 DEF Shuffle
<1>7. ASSUME NEW v \in Lengths, MoveSlider(v)
      PROVE  TypeOK'
  BY <1>7, BuildTyped DEF MoveSlider
<1>8. ASSUME NEW v \in Lengths \cup Typed, TypeNumber(v)
      PROVE  TypeOK'
  <2> DEFINE length == IF v # NotANumber /\ v > Most THEN Most ELSE v
  <2>1. length \in Shown /\ (Complete(length) => length \in Lengths)
    BY TypedLength
  <2>2. number' = length /\ typing' = TRUE /\ UNCHANGED checked
    BY <1>8 DEF TypeNumber
  <2>3. CASE Complete(length)
    <3>1. slider' = length /\ Build(checked, length)
      BY <1>8, <2>3 DEF TypeNumber
    <3> HIDE DEF length
    <3> QED
      BY <2>1, <2>2, <2>3, <3>1, BuildTyped
  <2>4. CASE ~Complete(length)
    BY <1>8, <2>1, <2>2, <2>4 DEF TypeNumber
  <2> QED
    BY <2>3, <2>4
<1>9. CASE UNCHANGED vars
  BY <1>9 DEF vars
<1> QED
  BY <1>1, <1>2, <1>3, <1>4, <1>5, <1>6, <1>7, <1>8, <1>9 DEF Next

\* Controls, password and the steps of _buildPassword keep their types.
THEOREM GeneratorTypes == Spec => []TypeOK
  BY GeneratorBegins, GeneratorSteps, PTL DEF Spec

\* -------------------------------------------------------------------------
\* The shown password

\* The password that is being made is of the enabled sets only.
MakingFits ==
    pc # "idle" => Used(chars) \subseteq Enabled(checked) /\ todo \subseteq Enabled(checked)

\* A control that makes a new password makes it of the enabled sets.
LEMMA BuildFits ==
  ASSUME TypeOK, NEW length \in Lengths, Build(checked', length)
  PROVE  (MakingFits /\ OutputFitsControls)'
  BY DEF Build, MakingFits, OutputFitsControls, Used

\* An exchange changes no character, only their places.
LEMMA ExchangedUsed ==
  ASSUME NEW S, NEW n \in Nat, NEW f \in [1..n -> S], NEW i \in 1..n, NEW j \in 1..n
  PROVE  Used(Exchanged(f, i, j)) = Used(f)
<1>1. PICK g : g = Exchanged(f, i, j)
  OBVIOUS
<1>2. /\ DOMAIN f = 1..n /\ DOMAIN g = 1..n
      /\ g[i] = f[j] /\ g[j] = f[i]
      /\ \A p \in 1..n : p # i /\ p # j => g[p] = f[p]
  BY <1>1 DEF Exchanged
<1>3. \A p \in 1..n : \E q \in 1..n : g[p] = f[q]
  BY <1>2
<1>4. \A p \in 1..n : \E q \in 1..n : f[p] = g[q]
  BY <1>2
<1>5. \A c : c \in Used(g) <=> \E p \in 1..n : c = g[p]
  BY <1>2 DEF Used
<1>6. \A c : c \in Used(f) <=> \E p \in 1..n : c = f[p]
  BY <1>2 DEF Used
<1>7. ASSUME NEW c \in Used(g)
      PROVE  c \in Used(f)
  <2>1. PICK p \in 1..n : c = g[p]
    BY <1>5
  <2>2. PICK q \in 1..n : g[p] = f[q]
    BY <1>3
  <2> QED
    BY <1>6, <2>1, <2>2
<1>8. ASSUME NEW c \in Used(f)
      PROVE  c \in Used(g)
  <2>1. PICK p \in 1..n : c = f[p]
    BY <1>6
  <2>2. PICK q \in 1..n : f[p] = g[q]
    BY <1>4
  <2> QED
    BY <1>5, <2>1, <2>2
<1>9. Used(g) = Used(f)
  BY <1>7, <1>8
<1> QED
  BY <1>1, <1>9

\* Each step keeps both.
LEMMA NextFits ==
  TypeOK /\ MakingFits /\ OutputFitsControls /\ [Next]_vars => (MakingFits /\ OutputFitsControls)'
<1> SUFFICES ASSUME TypeOK, MakingFits, OutputFitsControls, [Next]_vars
             PROVE  (MakingFits /\ OutputFitsControls)'
  OBVIOUS
<1>1. CASE Generate
  <2>1. Build(checked', slider) /\ slider \in Lengths
    BY <1>1 DEF Generate, TypeOK
  <2> QED
    BY <2>1, BuildFits
<1>2. CASE Show
  BY <1>2 DEF Show, TypeOK, MakingFits, OutputFitsControls
<1>3. CASE LeaveNumber
  <2>1. Build(checked', AtLeast(number)) /\ AtLeast(number) \in Lengths
    BY <1>3, AtLeastTyped DEF LeaveNumber, TypeOK
  <2> QED
    BY <2>1, BuildFits
<1>4. ASSUME NEW s \in Sets, ToggleSet(s)
      PROVE  (MakingFits /\ OutputFitsControls)'
  <2>1. Build(checked', slider) /\ slider \in Lengths
    BY <1>4 DEF ToggleSet, TypeOK
  <2> QED
    BY <2>1, BuildFits
<1>5. ASSUME NEW s \in Sets, NEW p \in 1..slider, Guarantee(s, p)
      PROVE  (MakingFits /\ OutputFitsControls)'
  <2>1. /\ pc = "guarantee" /\ s \in Enabled(checked) /\ chars' = [chars EXCEPT ![p] = s]
        /\ todo' \subseteq todo /\ UNCHANGED <<checked, slider, output>>
    BY <1>5 DEF Guarantee, MakingFits
  <2>2. Used(chars') \subseteq Used(chars) \cup {s}
    BY <2>1 DEF Used, TypeOK
  <2>3. pc' # "idle"
    BY <1>5 DEF Guarantee
  <2> QED
    BY <2>1, <2>2, <2>3 DEF MakingFits, OutputFitsControls
<1>6. ASSUME NEW j \in 1..turn, Shuffle(j)
      PROVE  (MakingFits /\ OutputFitsControls)'
  <2>1. slider \in Nat /\ turn \in 1..slider /\ j \in 1..slider /\ chars \in [1..slider -> Sets]
    BY <1>6, LimitsAssumption DEF Shuffle, TypeOK
  <2>2. Used(chars') = Used(chars)
    BY <1>6, <2>1, ExchangedUsed DEF Shuffle
  <2>3. pc # "idle" /\ UNCHANGED <<checked, slider, pc, todo, output>>
    BY <1>6 DEF Shuffle
  <2> QED
    BY <2>2, <2>3 DEF MakingFits, OutputFitsControls
<1>7. ASSUME NEW v \in Lengths, MoveSlider(v)
      PROVE  (MakingFits /\ OutputFitsControls)'
  <2>1. Build(checked', v)
    BY <1>7 DEF MoveSlider
  <2> QED
    BY <2>1, BuildFits
<1>8. ASSUME NEW v \in Lengths \cup Typed, TypeNumber(v)
      PROVE  (MakingFits /\ OutputFitsControls)'
  <2> DEFINE length == IF v # NotANumber /\ v > Most THEN Most ELSE v
  <2>1. CASE Complete(length)
    <3>1. Build(checked', length)
      BY <1>8, <2>1 DEF TypeNumber
    <3>2. length \in Lengths
      BY <2>1, TypedLength
    <3> HIDE DEF length
    <3> QED
      BY <3>1, <3>2, BuildFits
  <2>2. CASE ~Complete(length)
    <3>1. UNCHANGED <<checked, slider, pc, todo, chars, output>>
      BY <1>8, <2>2 DEF TypeNumber
    <3> QED
      BY <3>1 DEF MakingFits, OutputFitsControls
  <2> QED
    BY <2>1, <2>2
<1>9. CASE UNCHANGED vars
  BY <1>9 DEF vars, MakingFits, OutputFitsControls
<1> QED
  BY <1>1, <1>2, <1>3, <1>4, <1>5, <1>6, <1>7, <1>8, <1>9 DEF Next

\* The shown password is as long as the slider says and of the checked sets only.
THEOREM PasswordsFitControls == Spec => []OutputFitsControls
<1>1. Init => MakingFits /\ OutputFitsControls
  BY DEF Init, MakingFits, OutputFitsControls
<1> QED
  BY <1>1, GeneratorTypes, NextFits, PTL DEF Spec

\* Each step keeps slider and number field together.
LEMMA NextAgrees == TypeOK /\ LengthsAgree /\ [Next]_vars => LengthsAgree'
<1> SUFFICES ASSUME TypeOK, LengthsAgree, [Next]_vars PROVE LengthsAgree'
  OBVIOUS
<1>1. ASSUME NEW v \in Lengths \cup Typed, TypeNumber(v)
      PROVE  LengthsAgree'
  BY <1>1 DEF TypeNumber, LengthsAgree
<1>2. CASE LeaveNumber
  BY <1>2 DEF LeaveNumber, LengthsAgree
<1>3. ASSUME NEW v \in Lengths, MoveSlider(v)
      PROVE  LengthsAgree'
  BY <1>3 DEF MoveSlider, LengthsAgree
<1>4. CASE UNCHANGED <<slider, number, typing>>
  BY <1>4 DEF LengthsAgree
<1>5. ASSUME NEW s \in Sets, \/ ToggleSet(s) \/ \E p \in 1..slider : Guarantee(s, p)
      PROVE  UNCHANGED <<slider, number, typing>>
  BY <1>5 DEF ToggleSet, Guarantee
<1>6. CASE \E j \in 1..turn : Shuffle(j)
  BY <1>4, <1>6 DEF Shuffle
<1>7. CASE Generate \/ Show \/ UNCHANGED vars
  BY <1>4, <1>7 DEF Generate, Show, vars
<1> QED
  BY <1>1, <1>2, <1>3, <1>4, <1>5, <1>6, <1>7 DEF Next

\* Slider and number field hold the same length unless a number is being typed.
THEOREM ControlsAgree == Spec => []LengthsAgree
<1>1. Init => LengthsAgree
  BY DEF Init, LengthsAgree
<1> QED
  BY <1>1, GeneratorTypes, NextAgrees, PTL DEF Spec

\* -------------------------------------------------------------------------
\* Every enabled set

\* While characters are guaranteed, a served set has its place, and holds it or lost it to
\* one served later; those to come are later in the order.  From then on no character is lost.
Served ==
    /\ pc = "guarantee" =>
           /\ todo \subseteq Enabled(checked)
           /\ \A s \in todo : at[s] = 0
           /\ \A s \in Enabled(checked) \ todo :
                  /\ at[s] \in 1..slider /\ (chars[at[s]] = s \/ Displaced(s))
                  /\ \A r \in todo : Earlier(s, r)
    /\ pc = "shuffle" => \A s \in Enabled(checked) : s \in Used(chars) \/ Displaced(s)

\* A new password has served no set yet.
LEMMA BuildServes ==
  ASSUME TypeOK, NEW length \in Lengths, Build(checked', length), checked' \in SUBSET Sets
  PROVE  (Served /\ MissingOnlyIfDisplaced)'
<1>1. Enabled(checked') \in SUBSET Sets
  BY EnabledSets
<1>2. pc' = "guarantee" /\ todo' = Enabled(checked') /\ at' = [s \in Sets |-> 0]
  BY DEF Build
<1> QED
  BY <1>1, <1>2 DEF Served, MissingOnlyIfDisplaced

\* A set that is given a place takes it from whichever set was there.
LEMMA GuaranteeServes ==
  ASSUME TypeOK, Served, NEW s \in Sets, NEW p \in 1..slider, Guarantee(s, p)
  PROVE  (Served /\ MissingOnlyIfDisplaced)'
<1>1. /\ pc = "guarantee" /\ s \in todo /\ todo' = todo \ {s}
      /\ chars' = [chars EXCEPT ![p] = s] /\ at' = [at EXCEPT ![s] = p]
      /\ checked' = checked /\ slider' = slider
      /\ pc' = IF todo' = {} THEN "shuffle" ELSE pc
  BY DEF Guarantee
<1>2. /\ at \in [Sets -> 0..slider] /\ chars \in [1..slider -> Sets] /\ slider \in Nat
      /\ checked \in SUBSET Sets /\ todo \in SUBSET Sets
  BY LimitsAssumption DEF TypeOK
<1>3. Enabled(checked) \in SUBSET Sets
  BY <1>2, EnabledSets
<1>4. \A r \in todo' : r \in Enabled(checked) /\ at'[r] = 0
  BY <1>1, <1>2 DEF Served
<1>8. \A r \in Enabled(checked) \ todo' : \A q \in todo' : Earlier(r, q)
  <2>1. ASSUME NEW q \in todo' PROVE Earlier(s, q)
    <3>1. q \in Sets /\ q \in todo /\ q # s
      BY <1>1, <1>2, <2>1
    <3>2. PICK m, n \in DOMAIN Order : Order[m] = q /\ Order[n] = s
      BY <3>1 DEF Sets
    <3>3. n <= m /\ m # n /\ m \in Nat /\ n \in Nat
      BY <3>1, <3>2, OrderAssumption DEF Guarantee, IsNext
    <3> QED
      BY <3>2, <3>3 DEF Earlier
  <2>2. \A r \in Enabled(checked) \ todo : \A q \in todo' : Earlier(r, q)
    BY <1>1 DEF Served
  <2>3. \A r \in Enabled(checked) \ todo' : r = s \/ r \in Enabled(checked) \ todo
    BY <1>1
  <2> QED
    BY <2>1, <2>2, <2>3
<1>5. ASSUME NEW r \in Enabled(checked) \ todo'
      PROVE  at'[r] \in 1..slider /\ (chars'[at'[r]] = r \/ Displaced(r)')
  <2>1. CASE r = s
    BY <1>1, <1>2, <2>1
  <2>2. CASE r # s
    <3>1. /\ r \in Sets /\ at'[r] = at[r] /\ at[r] \in 1..slider
          /\ (chars[at[r]] = r \/ Displaced(r))
      BY <1>1, <1>2, <1>3, <2>2 DEF Served
    <3>2. CASE at[r] = p
      <4>1. s \in Enabled(checked) /\ Earlier(r, s)
        BY <1>1, <2>2 DEF Served
      <4>2. at'[s] = at'[r]
        BY <1>1, <1>2, <3>1, <3>2
      <4> QED
        BY <1>1, <3>1, <4>1, <4>2 DEF Displaced
    <3>3. CASE at[r] # p /\ chars[at[r]] = r
      BY <1>1, <1>2, <3>1, <3>3
    <3>4. CASE Displaced(r)
      <4>1. PICK q \in Enabled(checked) : Earlier(r, q) /\ at[q] = at[r]
        BY <3>4 DEF Displaced
      <4>2. at[s] = 0
        BY <1>1 DEF Served
      <4>3. q # s
        BY <1>2, <3>1, <4>1, <4>2
      <4>4. at'[q] = at'[r]
        BY <1>1, <1>2, <1>3, <3>1, <4>1, <4>3
      <4> QED
        BY <1>1, <1>2, <3>1, <4>1, <4>4 DEF Displaced
    <3> QED
      BY <3>1, <3>2, <3>3, <3>4
  <2> QED
    BY <2>1, <2>2
<1>6. CASE todo' = {}
  <2>1. pc' = "shuffle"
    BY <1>1, <1>6
  <2>2. \A r \in Enabled(checked) : r \in Used(chars') \/ Displaced(r)'
    <3> SUFFICES ASSUME NEW r \in Enabled(checked), ~Displaced(r)' PROVE r \in Used(chars')
      OBVIOUS
    <3>1. at'[r] \in 1..slider /\ chars'[at'[r]] = r
      BY <1>5, <1>6
    <3>2. DOMAIN chars' = 1..slider
      BY <1>1, <1>2
    <3> QED
      BY <3>1, <3>2 DEF Used
  <2> QED
    BY <1>1, <2>1, <2>2 DEF Served, MissingOnlyIfDisplaced
<1>7. CASE todo' # {}
  <2>1. pc' = "guarantee"
    BY <1>1, <1>7
  <2> QED
    BY <1>1, <1>4, <1>5, <1>8, <2>1 DEF Served, MissingOnlyIfDisplaced
<1> QED
  BY <1>6, <1>7

\* Each step keeps both.
LEMMA NextServes ==
  TypeOK /\ TypeOK' /\ Served /\ MissingOnlyIfDisplaced /\ [Next]_vars => (Served /\ MissingOnlyIfDisplaced)'
<1> SUFFICES ASSUME TypeOK, TypeOK', Served, MissingOnlyIfDisplaced, [Next]_vars
             PROVE  (Served /\ MissingOnlyIfDisplaced)'
  OBVIOUS
<1>0. checked' \in SUBSET Sets /\ slider \in Lengths
  BY DEF TypeOK
<1>1. CASE Generate
  <2>1. Build(checked', slider)
    BY <1>1 DEF Generate
  <2> QED
    BY <1>0, <2>1, BuildServes
<1>2. CASE Show
  <2>1. pc = "shuffle" /\ pc' = "idle" /\ output' = chars /\ UNCHANGED <<checked, at>>
    BY <1>2 DEF Show
  <2>2. \A s : Displaced(s)' <=> Displaced(s)
    BY <2>1 DEF Displaced
  <2> QED
    BY <2>1, <2>2 DEF Served, MissingOnlyIfDisplaced
<1>3. CASE LeaveNumber
  <2>1. Build(checked', AtLeast(number)) /\ AtLeast(number) \in Lengths
    BY <1>3, AtLeastTyped DEF LeaveNumber, TypeOK
  <2> QED
    BY <1>0, <2>1, BuildServes
<1>4. ASSUME NEW s \in Sets, ToggleSet(s)
      PROVE  (Served /\ MissingOnlyIfDisplaced)'
  <2>1. Build(checked', slider)
    BY <1>4 DEF ToggleSet
  <2> QED
    BY <1>0, <2>1, BuildServes
<1>5. ASSUME NEW s \in Sets, NEW p \in 1..slider, Guarantee(s, p)
      PROVE  (Served /\ MissingOnlyIfDisplaced)'
  BY <1>5, GuaranteeServes
<1>6. ASSUME NEW j \in 1..turn, Shuffle(j)
      PROVE  (Served /\ MissingOnlyIfDisplaced)'
  <2>1. slider \in Nat /\ turn \in 1..slider /\ j \in 1..slider /\ chars \in [1..slider -> Sets]
    BY <1>6, LimitsAssumption DEF Shuffle, TypeOK
  <2>2. Used(chars') = Used(chars)
    BY <1>6, <2>1, ExchangedUsed DEF Shuffle
  <2>3. pc = "shuffle" /\ UNCHANGED <<checked, pc, at>>
    BY <1>6 DEF Shuffle
  <2>4. \A s : Displaced(s)' <=> Displaced(s)
    BY <2>3 DEF Displaced
  <2> QED
    BY <2>2, <2>3, <2>4 DEF Served, MissingOnlyIfDisplaced
<1>7. ASSUME NEW v \in Lengths, MoveSlider(v)
      PROVE  (Served /\ MissingOnlyIfDisplaced)'
  <2>1. Build(checked', v)
    BY <1>7 DEF MoveSlider
  <2> QED
    BY <1>0, <2>1, BuildServes
<1>8. ASSUME UNCHANGED <<checked, slider, pc, todo, chars, at, output>>
      PROVE  (Served /\ MissingOnlyIfDisplaced)'
  <2>1. \A s : Displaced(s)' <=> Displaced(s)
    BY <1>8 DEF Displaced
  <2> QED
    BY <1>8, <2>1 DEF Served, MissingOnlyIfDisplaced
<1>9. ASSUME NEW v \in Lengths \cup Typed, TypeNumber(v)
      PROVE  (Served /\ MissingOnlyIfDisplaced)'
  <2> DEFINE length == IF v # NotANumber /\ v > Most THEN Most ELSE v
  <2>1. CASE Complete(length)
    <3>1. Build(checked', length)
      BY <1>9, <2>1 DEF TypeNumber
    <3>2. length \in Lengths
      BY <2>1, TypedLength
    <3> HIDE DEF length
    <3> QED
      BY <1>0, <3>1, <3>2, BuildServes
  <2>2. CASE ~Complete(length)
    <3>1. UNCHANGED <<checked, slider, pc, todo, chars, at, output>>
      BY <1>9, <2>2 DEF TypeNumber
    <3> QED
      BY <3>1, <1>8
  <2> QED
    BY <2>1, <2>2
<1>10. CASE UNCHANGED vars
  BY <1>8, <1>10 DEF vars
<1> QED
  BY <1>1, <1>2, <1>3, <1>4, <1>5, <1>6, <1>7, <1>9, <1>10 DEF Next

\* A set that is missing from the shown password lost its place to one served later.
THEOREM MissingSetsWereDisplaced == Spec => []MissingOnlyIfDisplaced
<1>1. Init => Served /\ MissingOnlyIfDisplaced
  BY DEF Init, Served, MissingOnlyIfDisplaced
<1> QED
  BY <1>1, GeneratorTypes, NextServes, PTL DEF Spec

HIDE DEF Lengths, Shown

\* -------------------------------------------------------------------------
\* ServerForm

USE PressesAssumption DEF Buttons, Numbers

\* Types

\* Each press and each answer make one message; a test makes two.
Numbered ==
    /\ note["save"].n <= presses
    /\ note["test"].n + (IF testing THEN 1 ELSE 0) <= 2 * presses

FormTyped == FormTypeOK /\ Numbered

\* What showMsg changes keeps its type while numbers are left.
LEMMA ShowMsgTyped ==
  ASSUME FormTypeOK, NEW b \in Buttons, ShowMsg(b), note[b].n < 2 * MaxPresses
  PROVE  /\ note' \in [Buttons -> [n : Numbers, class : {"none", "shown", "hiding"}]]
         /\ timers' \subseteq Timers
         /\ hurried' \in [Buttons -> BOOLEAN]
         /\ note'[b].n = note[b].n + 1
         /\ \A c \in Buttons \ {b} : note'[c] = note[c]
<1>1. note[b].n \in Numbers /\ note[b].n + 1 \in Numbers
  BY DEF FormTypeOK
<1>2. WithoutKnown(b) \subseteq Timers
  BY DEF FormTypeOK, WithoutKnown
<1>3. Armed(b, note[b].n + 1) \subseteq Timers
  BY <1>1 DEF Armed, Timers
<1>4. hurried' \in [Buttons -> BOOLEAN]
  <2>1. (Unstoppable(b) # {}) \in BOOLEAN
    OBVIOUS
  <2> QED
    BY <2>1 DEF FormTypeOK, ShowMsg
<1> QED
  BY <1>1, <1>2, <1>3, <1>4 DEF FormTypeOK, ShowMsg

\* A timer that has hidden a message fades it, and is a timer still.
LEMMA FadeTyped ==
  ASSUME NEW m \in Timers
  PROVE  /\ [m EXCEPT !.step = "fade", !.known = FALSE] \in Timers
         /\ [m EXCEPT !.known = FALSE] \in Timers
  BY DEF Timers

\* Each step keeps the types.
LEMMA FormSteps == FormTyped /\ [FormNext]_formVars => FormTyped'
<1> SUFFICES ASSUME FormTyped, [FormNext]_formVars PROVE FormTyped'
  OBVIOUS
<1> USE DEF FormTyped, Numbered
<1>0. /\ presses \in 0..MaxPresses /\ testing \in BOOLEAN /\ field \in Urls
      /\ relayURL \in {"http", Unset}
      /\ note["save"].n \in Nat /\ note["test"].n \in Nat
  BY DEF FormTypeOK
<1>1. ASSUME NEW url \in Urls, Type(url)
      PROVE  FormTyped'
  BY <1>1 DEF Type, FormTypeOK
<1>2. CASE PressSave
  <2>1. note["save"].n < 2 * MaxPresses
    BY <1>0, <1>2 DEF PressSave, Press
  <2>2. ShowMsg("save")
    BY <1>2 DEF PressSave
  <2> QED
    BY <1>0, <1>2, <2>1, <2>2, ShowMsgTyped DEF PressSave, Press, FormTypeOK
<1>3. CASE PressTest
  <2>1. note["test"].n < 2 * MaxPresses
    BY <1>0, <1>3 DEF PressTest, Press
  <2>2. ShowMsg("test")
    BY <1>3 DEF PressTest
  <2> QED
    BY <1>0, <1>3, <2>1, <2>2, ShowMsgTyped DEF PressTest, Press, FormTypeOK
<1>4. CASE TestEnds
  <2>1. note["test"].n < 2 * MaxPresses
    BY <1>0, <1>4 DEF TestEnds
  <2>2. ShowMsg("test")
    BY <1>4 DEF TestEnds
  <2>3. /\ note' \in [Buttons -> [n : Numbers, class : {"none", "shown", "hiding"}]]
        /\ timers' \subseteq Timers /\ hurried' \in [Buttons -> BOOLEAN]
        /\ note'["test"].n = note["test"].n + 1 /\ note'["save"] = note["save"]
    BY <2>1, <2>2, ShowMsgTyped
  <2>4. testing /\ testing' = FALSE /\ UNCHANGED <<relayURL, field, presses>>
    BY <1>4 DEF TestEnds
  <2>5. FormTypeOK'
    BY <2>3, <2>4 DEF FormTypeOK
  <2>6. Numbered'
    BY <1>0, <2>3, <2>4
  <2> QED
    BY <2>5, <2>6
<1>5. ASSUME NEW m \in timers, HideTimerFires(m)
      PROVE  FormTyped'
  <2>1. m \in Timers /\ m.button \in Buttons
    BY DEF FormTypeOK, Timers
  <2>2. timers' \subseteq Timers
    BY <1>5, <2>1, FadeTyped DEF HideTimerFires, FormTypeOK
  <2>3. /\ note' \in [Buttons -> [n : Numbers, class : {"none", "shown", "hiding"}]]
        /\ \A c \in Buttons : note'[c].n = note[c].n
    BY <1>5, <2>1 DEF HideTimerFires, FormTypeOK
  <2> QED
    BY <1>5, <2>2, <2>3 DEF HideTimerFires, FormTypeOK
<1>6. ASSUME NEW m \in timers, FadeTimerFires(m)
      PROVE  FormTyped'
  <2>1. m \in Timers /\ m.button \in Buttons
    BY DEF FormTypeOK, Timers
  <2>2. timers' \subseteq Timers
    <3>1. \A t \in timers : t \in Timers /\ [t EXCEPT !.known = FALSE] \in Timers
      BY FadeTyped DEF FormTypeOK
    <3> QED
      BY <1>6, <3>1 DEF FadeTimerFires
  <2>3. /\ note' \in [Buttons -> [n : Numbers, class : {"none", "shown", "hiding"}]]
        /\ \A c \in Buttons : note'[c].n = note[c].n
    BY <1>6, <2>1 DEF FadeTimerFires, FormTypeOK
  <2> QED
    BY <1>6, <2>2, <2>3 DEF FadeTimerFires, FormTypeOK
<1>7. CASE UNCHANGED formVars
  BY <1>7 DEF formVars, FormTypeOK
<1> QED
  BY <1>1, <1>2, <1>3, <1>4, <1>5, <1>6, <1>7 DEF FormNext

\* No message and no timer at first.
LEMMA FormBegins == FormInit => FormTyped
<1> SUFFICES ASSUME FormInit PROVE FormTyped
  OBVIOUS
<1>1. \A b \in Buttons : note[b] = [n |-> 0, class |-> "none"]
  BY DEF FormInit
<1>2. FormTypeOK
  <2>1. [n |-> 0, class |-> "none"] \in [n : Numbers, class : {"none", "shown", "hiding"}]
    OBVIOUS
  <2>2. note \in [Buttons -> [n : Numbers, class : {"none", "shown", "hiding"}]]
    BY <2>1 DEF FormInit
  <2>3. hurried \in [Buttons -> BOOLEAN] /\ timers \subseteq Timers /\ presses \in 0..MaxPresses
    BY DEF FormInit
  <2> QED
    BY <2>2, <2>3 DEF FormInit, FormTypeOK
<1>3. note["save"].n = 0 /\ note["test"].n = 0 /\ presses = 0 /\ testing = FALSE
  BY <1>1 DEF FormInit
<1>4. Numbered
  BY <1>3 DEF Numbered
<1> QED
  BY <1>2, <1>4 DEF FormTyped

\* The form, its messages and their timers keep their types.
THEOREM FormTypes == FormSpec => []FormTyped
  BY FormBegins, FormSteps, PTL DEF FormSpec

\* -------------------------------------------------------------------------
\* Messages

\* A timer that will hide a message is the one of the message that shows, known to the
\* element, and nothing fades meanwhile, unless that message came while a timer ran that
\* could not be stopped.
OnlyItsTimer ==
    \A b \in Buttons : ~hurried[b] =>
        \A m \in timers : m.button = b /\ m.step = "hide" =>
            /\ m.known /\ m.n = note[b].n /\ note[b].class = "shown"
            /\ \A k \in timers : k.button = b => k.step # "fade"

\* A new message replaces the timer of the one before.
LEMMA ShowMsgKeeps ==
  ASSUME FormTypeOK, OnlyItsTimer, NEW b \in Buttons, ShowMsg(b)
  PROVE  OnlyItsTimer'
<1> SUFFICES ASSUME NEW c \in Buttons, ~hurried'[c],
                    NEW m \in timers', m.button = c, m.step = "hide"
             PROVE  /\ m.known /\ m.n = note'[c].n /\ note'[c].class = "shown"
                    /\ \A k \in timers' : k.button = c => k.step # "fade"
  BY DEF OnlyItsTimer
<1> DEFINE n == note[b].n + 1
           new == [button |-> b, n |-> n, step |-> "hide", known |-> TRUE]
<1>1. /\ timers' = {t \in timers : ~(t.button = b /\ t.step = "hide" /\ t.known)} \cup {new}
      /\ note' = [note EXCEPT ![b] = [n |-> n, class |-> "shown"]]
      /\ hurried' = [hurried EXCEPT ![b] = Unstoppable(b) # {}]
  BY DEF ShowMsg, WithoutKnown, Armed
<1>2. new.button = b /\ new.n = n /\ new.step = "hide" /\ new.known
  OBVIOUS
<1>3. \A d \in Buttons : note[d] = note[d] /\ DOMAIN note = Buttons /\ DOMAIN hurried = Buttons
  BY DEF FormTypeOK
<1> HIDE DEF new
<1>5. CASE c = b
  <2>1. Unstoppable(b) = {}
    BY <1>1, <1>3, <1>5
  <2>2. \A k \in timers : k.button = b => k.step # "fade"
    BY <2>1 DEF Unstoppable, Of
  <2>3. \A t \in timers : t.button = b /\ t.step = "hide" => t.known
    BY <2>1 DEF Unstoppable, Of
  <2>4. m = new
    BY <1>1, <1>5, <2>3
  <2>5. \A k \in timers' : k.button = c => k.step # "fade"
    BY <1>1, <1>2, <1>5, <2>2
  <2>6. note'[b].n = n /\ note'[b].class = "shown"
    BY <1>1, <1>3
  <2> QED
    BY <1>2, <1>5, <2>4, <2>5, <2>6
<1>6. CASE c # b
  <2>1. m \in timers
    BY <1>1, <1>2, <1>6
  <2>2. note'[c] = note[c]
    BY <1>1, <1>6
  <2>3. \A k \in timers' : k.button = c => k \in timers
    BY <1>1, <1>2, <1>6
  <2>4. ~hurried[c]
    BY <1>1, <1>3, <1>6
  <2> QED
    BY <2>1, <2>2, <2>3, <2>4 DEF OnlyItsTimer
<1> QED
  BY <1>5, <1>6

\* A timer that fires hides its own message.
LEMMA HideTimerKeeps ==
  ASSUME FormTypeOK, OnlyItsTimer, NEW o \in timers, HideTimerFires(o)
  PROVE  OnlyItsTimer'
<1> SUFFICES ASSUME NEW c \in Buttons, ~hurried[c],
                    NEW m \in timers', m.button = c, m.step = "hide"
             PROVE  /\ m.known /\ m.n = note'[c].n /\ note'[c].class = "shown"
                    /\ \A k \in timers' : k.button = c => k.step # "fade"
  BY DEF OnlyItsTimer, HideTimerFires
<1> DEFINE faded == [o EXCEPT !.step = "fade", !.known = FALSE]
<1>1. /\ o.step = "hide" /\ timers' = (timers \ {o}) \cup {faded}
      /\ note' = [note EXCEPT ![o.button].class = IF @ = "shown" THEN "hiding" ELSE @]
  BY DEF HideTimerFires
<1>2. o \in Timers /\ m.step # "fade"
  BY DEF FormTypeOK
<1>3. faded.step = "fade" /\ faded.button = o.button
  BY <1>2 DEF Timers
<1> HIDE DEF faded
<1>4. m \in timers /\ m # o
  BY <1>1, <1>2, <1>3
<1>5. c # o.button
  <2> SUFFICES ASSUME c = o.button PROVE m = o
    BY <1>4
  <2>1. m.known /\ o.known /\ m.n = o.n
    BY <1>1, <1>4 DEF OnlyItsTimer
  <2>2. m \in Timers
    BY <1>4 DEF FormTypeOK
  <2>3. m.known = TRUE /\ o.known = TRUE
    BY <1>2, <2>1, <2>2 DEF Timers
  <2> QED
    BY <1>1, <1>2, <2>1, <2>2, <2>3 DEF Timers
<1>6. note'[c] = note[c]
  BY <1>1, <1>5 DEF FormTypeOK
<1>7. \A k \in timers' : k.button = c => k \in timers
  BY <1>1, <1>3, <1>5
<1> QED
  BY <1>4, <1>6, <1>7 DEF OnlyItsTimer

\* When something fades, no timer is left that hides a message of the same button.
LEMMA FadeTimerKeeps ==
  ASSUME FormTypeOK, OnlyItsTimer, NEW o \in timers, FadeTimerFires(o)
  PROVE  OnlyItsTimer'
<1> SUFFICES ASSUME NEW c \in Buttons, ~hurried[c],
                    NEW m \in timers', m.button = c, m.step = "hide"
             PROVE  /\ m.known /\ m.n = note'[c].n /\ note'[c].class = "shown"
                    /\ \A k \in timers' : k.button = c => k.step # "fade"
  BY DEF OnlyItsTimer, FadeTimerFires
<1>1. /\ o.step = "fade"
      /\ timers' = {IF t.button = o.button THEN [t EXCEPT !.known = FALSE] ELSE t :
                       t \in timers \ {o}}
      /\ note' = [note EXCEPT ![o.button].class = "none"]
  BY DEF FadeTimerFires
<1>2. \A t \in timers : LET u == [t EXCEPT !.known = FALSE] IN
          t \in Timers /\ u.button = t.button /\ u.step = t.step
  BY DEF FormTypeOK, Timers
<1>3. c # o.button
  <2> SUFFICES ASSUME c = o.button PROVE FALSE
    OBVIOUS
  <2>1. PICK t \in timers : m = IF t.button = o.button THEN [t EXCEPT !.known = FALSE] ELSE t
    BY <1>1
  <2>2. t.button = c /\ t.step = "hide"
    BY <1>2, <2>1
  <2> QED
    BY <1>1, <2>2 DEF OnlyItsTimer
<1>4. \A k \in timers' : k.button = c => k \in timers
  BY <1>1, <1>2, <1>3
<1>5. note'[c] = note[c]
  BY <1>1, <1>3 DEF FormTypeOK
<1> QED
  BY <1>4, <1>5 DEF OnlyItsTimer

\* Each step keeps it.
LEMMA FormKeeps == FormTyped /\ OnlyItsTimer /\ [FormNext]_formVars => OnlyItsTimer'
<1> SUFFICES ASSUME FormTyped, OnlyItsTimer, [FormNext]_formVars PROVE OnlyItsTimer'
  OBVIOUS
<1> USE DEF FormTyped
<1>1. ASSUME NEW url \in Urls, Type(url)
      PROVE  OnlyItsTimer'
  BY <1>1 DEF Type, OnlyItsTimer
<1>2. CASE PressSave \/ PressTest \/ TestEnds
  <2>1. ShowMsg("save") \/ ShowMsg("test")
    BY <1>2 DEF PressSave, PressTest, TestEnds
  <2> QED
    BY <2>1, ShowMsgKeeps
<1>3. ASSUME NEW m \in timers, HideTimerFires(m)
      PROVE  OnlyItsTimer'
  BY <1>3, HideTimerKeeps
<1>4. ASSUME NEW m \in timers, FadeTimerFires(m)
      PROVE  OnlyItsTimer'
  BY <1>4, FadeTimerKeeps
<1>5. CASE UNCHANGED formVars
  BY <1>5 DEF formVars, OnlyItsTimer
<1> QED
  BY <1>1, <1>2, <1>3, <1>4, <1>5 DEF FormNext

\* A message is hidden only after its own timer fired, unless it came while a timer of an
\* older one ran that could not be stopped.
THEOREM MessagesStay == FormSpec => []MessageStays
<1>1. FormInit => OnlyItsTimer
  BY DEF FormInit, OnlyItsTimer
<1>2. FormTyped /\ OnlyItsTimer => MessageStays
  BY DEF OnlyItsTimer, MessageStays, Of
<1> QED
  BY <1>1, <1>2, FormTypes, FormKeeps, PTL DEF FormSpec

\* The timer that hides the message that shows at button b still runs.
TimerRuns(b) == \E m \in timers : m.button = b /\ m.step = "hide" /\ m.n = note[b].n

\* No message shows whose timer is gone: stopping the timer of a message and arming the
\* one of the next never leaves a message that nothing would hide.
ShownHasTimer == \A b \in Buttons : note[b].class = "shown" => TimerRuns(b)

\* A new message comes with a timer, and leaves the ones of the other button.
LEMMA ShowMsgArms ==
  ASSUME FormTypeOK, ShownHasTimer, NEW b \in Buttons, ShowMsg(b)
  PROVE  ShownHasTimer'
<1> DEFINE n == note[b].n + 1
           new == [button |-> b, n |-> n, step |-> "hide", known |-> TRUE]
<1>1. /\ timers' = {t \in timers : ~(t.button = b /\ t.step = "hide" /\ t.known)} \cup {new}
      /\ note' = [note EXCEPT ![b] = [n |-> n, class |-> "shown"]]
  BY DEF ShowMsg, WithoutKnown, Armed
<1>2. new.button = b /\ new.n = n /\ new.step = "hide"
  OBVIOUS
<1> HIDE DEF new
<1>3. note'[b].n = n
  BY <1>1 DEF FormTypeOK
<1>4. TimerRuns(b)'
  BY <1>1, <1>2, <1>3 DEF TimerRuns
<1>5. ASSUME NEW c \in Buttons, c # b, note'[c].class = "shown" PROVE TimerRuns(c)'
  <2>1. note'[c] = note[c]
    BY <1>1, <1>5
  <2>2. TimerRuns(c)
    BY <1>5, <2>1 DEF ShownHasTimer
  <2> QED
    BY <1>1, <1>5, <2>1, <2>2 DEF TimerRuns
<1> QED
  BY <1>4, <1>5 DEF ShownHasTimer

\* A timer that fires leaves no message shown at its button.
LEMMA FiringEnds ==
  ASSUME FormTypeOK, ShownHasTimer, NEW o \in timers, HideTimerFires(o) \/ FadeTimerFires(o)
  PROVE  ShownHasTimer'
<1>1. o.button \in Buttons /\ DOMAIN note = Buttons
  BY DEF FormTypeOK, Timers
<1>2. note'[o.button].class # "shown" /\ \A c \in Buttons \ {o.button} : note'[c] = note[c]
  BY <1>1 DEF HideTimerFires, FadeTimerFires, FormTypeOK
<1>3. \A t \in timers : t.button # o.button => t \in timers'
  BY DEF HideTimerFires, FadeTimerFires
<1>4. ASSUME NEW c \in Buttons, note'[c].class = "shown" PROVE TimerRuns(c)'
  <2>1. c # o.button /\ note'[c] = note[c] /\ TimerRuns(c)
    BY <1>2, <1>4 DEF ShownHasTimer
  <2> QED
    BY <1>3, <2>1 DEF TimerRuns
<1> QED
  BY <1>4 DEF ShownHasTimer

\* Each step keeps it.
LEMMA TimersRun == FormTyped /\ ShownHasTimer /\ [FormNext]_formVars => ShownHasTimer'
<1> SUFFICES ASSUME FormTyped, ShownHasTimer, [FormNext]_formVars PROVE ShownHasTimer'
  OBVIOUS
<1> USE DEF FormTyped
<1>1. ASSUME NEW url \in Urls, Type(url) PROVE ShownHasTimer'
  BY <1>1 DEF Type, ShownHasTimer, TimerRuns
<1>2. CASE PressSave \/ PressTest \/ TestEnds
  <2>1. ShowMsg("save") \/ ShowMsg("test")
    BY <1>2 DEF PressSave, PressTest, TestEnds
  <2> QED
    BY <2>1, ShowMsgArms
<1>3. ASSUME NEW m \in timers, HideTimerFires(m) \/ FadeTimerFires(m) PROVE ShownHasTimer'
  BY <1>3, FiringEnds
<1>4. CASE UNCHANGED formVars
  BY <1>4 DEF formVars, ShownHasTimer, TimerRuns
<1> QED
  BY <1>1, <1>2, <1>3, <1>4 DEF FormNext

\* The safety half of MessageGoes: a message that shows always has its timer, although
\* _hideTimer forgets timers that run.
THEOREM MessagesHaveTimers == FormSpec => []ShownHasTimer
<1>1. FormInit => ShownHasTimer
  BY DEF FormInit, ShownHasTimer
<1> QED
  BY <1>1, FormTypes, TimersRun, PTL DEF FormSpec

HIDE PressesAssumption DEF Buttons, Numbers

\* -------------------------------------------------------------------------
\* RateLimiter

Answer == [now : 0..MaxTime, ok : BOOLEAN]

\* The types, and in which time a request runs and Redis keeps the key.
LimiterTyped ==
    /\ LimiterTypeOK
    /\ IsFiniteSet(entries) /\ answers \in Seq(Answer)
    /\ \A r \in waiting : r.now <= clock /\ clock <= r.now + MaxDelay
    /\ \A n \in DOMAIN answers : answers[n].now <= clock /\ answers[n].now + Window < expiry

\* A request is answered.
LEMMA Answering ==
  ASSUME LimiterTyped, NEW r \in waiting, Execute(r)
  PROVE  /\ r \in Request /\ r.now \in Nat
         /\ answers' \in Seq(Answer) /\ Len(answers) \in Nat
         /\ DOMAIN answers = 1..Len(answers) /\ Len(answers') = Len(answers) + 1
         /\ DOMAIN answers' = DOMAIN answers \cup {Len(answers) + 1}
         /\ \A n \in DOMAIN answers : answers'[n] = answers[n] /\ answers[n].now \in Nat
         /\ answers'[Len(answers) + 1].now = r.now
         /\ answers'[Len(answers) + 1].ok = WithinLimit(r.now)
<1>1. r \in Request /\ r.now \in Nat /\ r.now \in 0..MaxTime /\ answers \in Seq(Answer)
  BY TimeAssumption DEF LimiterTyped, LimiterTypeOK, Request
<1>2. PICK e : e = [now |-> r.now, ok |-> WithinLimit(r.now)]
  OBVIOUS
<1>3. WithinLimit(r.now) \in BOOLEAN
  BY DEF WithinLimit
<1>4. e \in Answer /\ e.now = r.now /\ e.ok = WithinLimit(r.now)
  BY <1>1, <1>2, <1>3 DEF Answer
<1>5. answers' = Append(answers, e)
  BY <1>2 DEF Execute
<1>6. \A n \in DOMAIN answers : answers[n] \in Answer
  BY <1>1
<1>7. \A n \in DOMAIN answers : answers[n].now \in Nat
  BY <1>6, TimeAssumption DEF Answer
<1> QED
  BY <1>1, <1>4, <1>5, <1>7

\* Each step keeps this.
LEMMA LimiterNextTyped == LimiterTyped /\ [LimiterNext]_limiterVars => LimiterTyped'
<1> SUFFICES ASSUME LimiterTyped, [LimiterNext]_limiterVars PROVE LimiterTyped'
  OBVIOUS
<1> USE LimitAssumption, TimeAssumption, DelayAssumption
<1>1. /\ clock \in 0..MaxTime /\ entries \subseteq Request /\ IsFiniteSet(entries)
      /\ expiry \in 0..(MaxTime + Window + 1) /\ waiting \subseteq Request
      /\ answers \in Seq(Answer) /\ repeated \in BOOLEAN
      /\ \A r \in waiting : r.now <= clock /\ clock <= r.now + MaxDelay
      /\ \A n \in DOMAIN answers : answers[n].now <= clock /\ answers[n].now + Window < expiry
  BY DEF LimiterTyped, LimiterTypeOK
<1>2. \A s \in Seq(Answer) : \A n \in DOMAIN s : s[n].now \in 0..MaxTime /\ s[n].ok \in BOOLEAN
  <2>1. \A s \in Seq(Answer) : \A n \in DOMAIN s : s[n] \in Answer
    OBVIOUS
  <2> QED
    BY <2>1 DEF Answer
<1>3. \A r \in Request : r.now \in 0..MaxTime
  BY DEF Request
<1>4. ASSUME NEW p \in Pipes, Arrive(p)
      PROVE  LimiterTyped'
  <2>1. PICK r : r = [now |-> clock, pipe |-> p]
    OBVIOUS
  <2>2. r \in Request /\ r.now = clock
    BY <1>1, <2>1 DEF Request
  <2>3. waiting' = waiting \cup {r} /\ UNCHANGED <<clock, entries, expiry, answers, repeated>>
    BY <1>4, <2>1 DEF Arrive
  <2> QED
    BY <1>1, <1>2, <2>2, <2>3 DEF LimiterTyped, LimiterTypeOK
<1>5. ASSUME NEW r \in waiting, Execute(r)
      PROVE  LimiterTyped'
  <2>1. /\ waiting' = waiting \ {r} /\ entries' = Kept(r.now) \cup {r}
        /\ expiry' = clock + Window + 1 /\ clock' = clock
        /\ repeated' = (repeated \/ r \in Kept(r.now))
    BY <1>5 DEF Execute
  <2>2. entries' \subseteq Request
    BY <1>1, <2>1 DEF Kept
  <2>3. IsFiniteSet(entries')
    <3>1. Kept(r.now) \in SUBSET entries
      BY DEF Kept
    <3>2. IsFiniteSet(Kept(r.now))
      BY <1>1, <3>1, FS_Subset
    <3> QED
      BY <2>1, <3>2, FS_AddElement
  <2>4. /\ answers' \in Seq(Answer) /\ r.now \in Nat
        /\ DOMAIN answers' = DOMAIN answers \cup {Len(answers) + 1}
        /\ \A n \in DOMAIN answers : answers'[n] = answers[n] /\ answers[n].now \in Nat
        /\ answers'[Len(answers) + 1].now = r.now
    BY <1>5, Answering
  <2>5. ASSUME NEW n \in DOMAIN answers'
        PROVE  answers'[n].now <= clock' /\ answers'[n].now + Window < expiry'
    <3>1. answers'[n].now \in Nat /\ answers'[n].now <= clock
      BY <1>1, <2>4
    <3> QED
      BY <1>1, <2>1, <3>1
  <2>6. waiting' \subseteq waiting /\ clock' \in 0..MaxTime
    BY <1>1, <2>1
  <2>7. expiry' \in 0..(MaxTime + Window + 1) /\ repeated' \in BOOLEAN
    BY <1>1, <2>1
  <2>8. \A q \in waiting' : q.now <= clock' /\ clock' <= q.now + MaxDelay
    BY <1>1, <2>1
  <2> QED
    BY <1>1, <1>2, <2>2, <2>3, <2>4, <2>5, <2>6, <2>7, <2>8 DEF LimiterTyped, LimiterTypeOK
<1>6. CASE Tick
  <2>1. /\ clock < MaxTime /\ clock' = clock + 1
        /\ \A r \in waiting : clock < r.now + MaxDelay
        /\ (entries' = entries \/ entries' = {})
        /\ UNCHANGED <<expiry, waiting, answers, repeated>>
    BY <1>6 DEF Tick
  <2>2. IsFiniteSet(entries') /\ entries' \subseteq Request
    BY <1>1, <2>1, FS_EmptySet
  <2>3. \A r \in waiting' : r.now <= clock' /\ clock' <= r.now + MaxDelay
    BY <1>1, <1>3, <2>1
  <2>4. clock' \in 0..MaxTime
    BY <1>1, <2>1
  <2>5. \A n \in DOMAIN answers' : answers'[n].now <= clock' /\ answers'[n].now + Window < expiry'
    BY <1>1, <1>2, <2>1
  <2> QED
    BY <1>1, <1>2, <2>1, <2>2, <2>3, <2>4, <2>5 DEF LimiterTyped, LimiterTypeOK
<1>7. CASE UNCHANGED limiterVars
  BY <1>1, <1>2, <1>7 DEF limiterVars, LimiterTyped, LimiterTypeOK
<1> QED
  BY <1>4, <1>5, <1>6, <1>7 DEF LimiterNext

\* -------------------------------------------------------------------------
\* The entries that Redis keeps and the requests that they stand for.

\* The requests less than a window older than q, or younger.
Recent(q) == {n \in DOMAIN answers : answers[n].now + Window > q}

\* Both are finite.
LEMMA Countable ==
  ASSUME LimiterTyped, NEW q
  PROVE  /\ IsFiniteSet(Kept(q)) /\ Cardinality(Kept(q)) \in Nat
         /\ IsFiniteSet(Recent(q)) /\ Cardinality(Recent(q)) \in Nat
<1>1. Kept(q) \in SUBSET entries /\ IsFiniteSet(entries)
  BY DEF Kept, LimiterTyped
<1>2. Len(answers) \in Nat /\ DOMAIN answers = 1..Len(answers)
  BY DEF LimiterTyped
<1>3. IsFiniteSet(1..Len(answers)) /\ Recent(q) \in SUBSET (1..Len(answers))
  BY <1>2, FS_Interval DEF Recent
<1> QED
  BY <1>1, <1>3, FS_Subset, FS_CardinalityType

\* What an answer adds to each.
LEMMA Recounting ==
  ASSUME LimiterTyped, NEW r \in waiting, Execute(r), NEW q \in Nat
  PROVE  /\ r.now + Window > q => /\ Recent(q)' = Recent(q) \cup {Len(answers) + 1}
                                  /\ Cardinality(Recent(q)') = Cardinality(Recent(q)) + 1
                                  /\ Kept(q)' \subseteq Kept(q) \cup {r}
         /\ ~(r.now + Window > q) => /\ Recent(q)' = Recent(q)
                                     /\ Kept(q)' \subseteq Kept(q)
         /\ r.now <= q => Kept(q) \subseteq Kept(q)' /\ Kept(q) \subseteq Kept(r.now)
         /\ r.now + Window > q => r \in Kept(q)'
<1> USE LimitAssumption, TimeAssumption
<1>1. /\ r.now \in Nat /\ r \in Request /\ Len(answers) \in Nat
      /\ DOMAIN answers = 1..Len(answers)
      /\ DOMAIN answers' = DOMAIN answers \cup {Len(answers) + 1}
      /\ \A n \in DOMAIN answers : answers'[n] = answers[n]
      /\ answers'[Len(answers) + 1].now = r.now
  BY Answering
<1>2. entries' = Kept(r.now) \cup {r}
  BY DEF Execute
<1>3. \A e \in entries : e.now \in Nat
  BY DEF LimiterTyped, LimiterTypeOK, Request
<1>4. Kept(q)' = {e \in entries' : e.now + Window > q}
  BY DEF Kept
<1>5. Recent(q)' = {n \in DOMAIN answers' : answers'[n].now + Window > q}
  BY DEF Recent
<1>6. Len(answers) + 1 \notin Recent(q)
  BY <1>1 DEF Recent
<1>7. IsFiniteSet(Recent(q))
  BY Countable
<1>8. CASE r.now + Window > q
  <2>1. Recent(q)' = Recent(q) \cup {Len(answers) + 1}
    BY <1>1, <1>5, <1>8 DEF Recent
  <2>2. Cardinality(Recent(q)') = Cardinality(Recent(q)) + 1
    BY <1>6, <1>7, <2>1, FS_AddElement
  <2>3. r \in Kept(q)' /\ Kept(q)' \subseteq Kept(q) \cup {r}
    BY <1>2, <1>4, <1>8 DEF Kept
  <2>4. ASSUME r.now <= q PROVE Kept(q) \subseteq Kept(q)' /\ Kept(q) \subseteq Kept(r.now)
    BY <1>1, <1>2, <1>3, <1>4, <2>4 DEF Kept
  <2> QED
    BY <1>8, <2>1, <2>2, <2>3, <2>4
<1>9. CASE ~(r.now + Window > q)
  <2>1. Recent(q)' = Recent(q)
    BY <1>1, <1>5, <1>9 DEF Recent
  <2>2. Kept(q)' \subseteq Kept(q)
    BY <1>2, <1>4, <1>9 DEF Kept
  <2>3. ASSUME r.now <= q PROVE Kept(q) \subseteq Kept(q)' /\ Kept(q) \subseteq Kept(r.now)
    BY <1>1, <1>2, <1>3, <1>4, <2>3 DEF Kept
  <2> QED
    BY <1>9, <2>1, <2>2, <2>3
<1> QED
  BY <1>8, <1>9

\* At every time there are at most as many entries as requests to stand for.
Fewer == \A q \in Nat : Cardinality(Kept(q)) <= Cardinality(Recent(q))

\* Each step keeps that: a request leaves one entry at most.
LEMMA FewerKept == LimiterTyped /\ Fewer /\ [LimiterNext]_limiterVars => Fewer'
<1> SUFFICES ASSUME LimiterTyped, Fewer, [LimiterNext]_limiterVars, NEW q \in Nat
             PROVE  Cardinality(Kept(q)') <= Cardinality(Recent(q)')
  BY DEF Fewer
<1>1. /\ Cardinality(Kept(q)) \in Nat /\ Cardinality(Recent(q)) \in Nat
      /\ IsFiniteSet(Kept(q)) /\ Cardinality(Kept(q)) <= Cardinality(Recent(q))
  BY Countable DEF Fewer
<1>2. CASE Kept(q)' \subseteq Kept(q) /\ Recent(q)' = Recent(q)
  <2>1. Kept(q)' \in SUBSET Kept(q)
    BY <1>2
  <2>2. Cardinality(Kept(q)') <= Cardinality(Kept(q)) /\ IsFiniteSet(Kept(q)')
    BY <1>1, <2>1, FS_Subset
  <2>3. Cardinality(Kept(q)') \in Nat
    BY <2>2, FS_CardinalityType
  <2> QED
    BY <1>1, <1>2, <2>2, <2>3
<1>3. ASSUME NEW r \in waiting, Execute(r)
      PROVE  Cardinality(Kept(q)') <= Cardinality(Recent(q)')
  <2>1. CASE r.now + Window > q
    <3>1. /\ Kept(q)' \in SUBSET (Kept(q) \cup {r})
          /\ Cardinality(Recent(q)') = Cardinality(Recent(q)) + 1
      BY <1>3, <2>1, Recounting
    <3>2. /\ IsFiniteSet(Kept(q) \cup {r})
          /\ (\/ Cardinality(Kept(q) \cup {r}) = Cardinality(Kept(q)) + 1
              \/ Cardinality(Kept(q) \cup {r}) = Cardinality(Kept(q)))
      BY <1>1, FS_AddElement
    <3>3. IsFiniteSet(Kept(q)') /\ Cardinality(Kept(q)') <= Cardinality(Kept(q) \cup {r})
      BY <3>1, <3>2, FS_Subset
    <3>4. Cardinality(Kept(q)') \in Nat
      BY <3>3, FS_CardinalityType
    <3> QED
      BY <1>1, <3>1, <3>2, <3>3, <3>4
  <2>2. CASE ~(r.now + Window > q)
    BY <1>2, <1>3, <2>2, Recounting
  <2> QED
    BY <2>1, <2>2
<1>4. CASE Tick
  <2>1. entries' \subseteq entries /\ answers' = answers
    BY <1>4 DEF Tick
  <2> QED
    BY <1>2, <2>1 DEF Kept, Recent
<1>5. ASSUME NEW p \in Pipes, Arrive(p)
      PROVE  Cardinality(Kept(q)') <= Cardinality(Recent(q)')
  <2>1. UNCHANGED <<entries, answers>>
    BY <1>5 DEF Arrive
  <2> QED
    BY <1>2, <2>1 DEF Kept, Recent
<1>6. CASE UNCHANGED limiterVars
  BY <1>2, <1>6 DEF limiterVars, Kept, Recent
<1> QED
  BY <1>3, <1>4, <1>5, <1>6 DEF LimiterNext

\* Who is refused has found Limit entries.
LEMMA ReasonKept ==
  LimiterTyped /\ Fewer /\ RefusedForAReason /\ [LimiterNext]_limiterVars => RefusedForAReason'
<1> SUFFICES ASSUME LimiterTyped, Fewer, RefusedForAReason, [LimiterNext]_limiterVars
             PROVE  RefusedForAReason'
  OBVIOUS
<1>1. CASE answers' = answers
  BY <1>1 DEF RefusedForAReason
<1>2. ASSUME NEW r \in waiting, Execute(r)
      PROVE  RefusedForAReason'
  <2> SUFFICES ASSUME NEW n \in DOMAIN answers', ~answers'[n].ok
               PROVE  Cardinality({m \in 1..(n - 1) :
                          answers'[m].now + Window > answers'[n].now}) >= Limit
    BY DEF RefusedForAReason
  <2>1. /\ r.now \in Nat /\ Len(answers) \in Nat /\ DOMAIN answers = 1..Len(answers)
        /\ DOMAIN answers' = DOMAIN answers \cup {Len(answers) + 1}
        /\ \A m \in DOMAIN answers : answers'[m] = answers[m]
        /\ answers'[Len(answers) + 1].now = r.now
        /\ answers'[Len(answers) + 1].ok = WithinLimit(r.now)
    BY <1>2, Answering
  <2>2. CASE n \in DOMAIN answers
    <3>1. n \in Nat /\ n <= Len(answers) /\ \A m \in 1..(n - 1) : m \in DOMAIN answers
      BY <2>1, <2>2
    <3>2. {m \in 1..(n - 1) : answers'[m].now + Window > answers'[n].now}
            = {m \in 1..(n - 1) : answers[m].now + Window > answers[n].now}
      BY <2>1, <2>2, <3>1
    <3>3. ~answers[n].ok
      BY <2>1, <2>2
    <3> QED
      BY <2>2, <3>2, <3>3 DEF RefusedForAReason
  <2>3. CASE n = Len(answers) + 1
    <3>1. n - 1 = Len(answers)
      BY <2>1, <2>3
    <3>2. {m \in 1..(n - 1) : answers'[m].now + Window > answers'[n].now} = Recent(r.now)
      BY <2>1, <2>3, <3>1 DEF Recent
    <3>3. ~(Cardinality(Kept(r.now)) < Limit)
      BY <2>1, <2>3 DEF WithinLimit
    <3>4. /\ Cardinality(Kept(r.now)) <= Cardinality(Recent(r.now))
          /\ Cardinality(Kept(r.now)) \in Nat /\ Cardinality(Recent(r.now)) \in Nat
      BY <2>1, Countable DEF Fewer
    <3>5. Cardinality(Recent(r.now)) >= Limit
      BY <3>3, <3>4, LimitAssumption
    <3> QED
      BY <3>2, <3>5, Zenon
  <2> QED
    BY <2>1, <2>2, <2>3
<1>3. ASSUME NEW p \in Pipes, Arrive(p) PROVE answers' = answers
  BY <1>3 DEF Arrive
<1> QED
  BY <1>1, <1>2, <1>3 DEF LimiterNext, Tick, limiterVars

\* Unless requests ran out of order or shared a pipe, a request that is about to run
\* finds an entry of every request of its window.
Counted ==
    InOrder(Len(answers)) /\ ~repeated =>
        \A q \in Nat :
            q + MaxDelay >= clock /\ (\A n \in DOMAIN answers : answers[n].now <= q) =>
                Cardinality(Recent(q)) <= Cardinality(Kept(q))

\* What is in order and not repeated after an answer was so before it.
LEMMA Before ==
  ASSUME LimiterTyped, NEW r \in waiting, Execute(r), InOrder(Len(answers))', ~repeated'
  PROVE  /\ InOrder(Len(answers)) /\ ~repeated /\ r \notin Kept(r.now)
         /\ \A n \in DOMAIN answers : answers[n].now <= r.now
<1>1. /\ r.now \in Nat /\ Len(answers) \in Nat /\ Len(answers') = Len(answers) + 1
      /\ DOMAIN answers = 1..Len(answers)
      /\ \A m \in DOMAIN answers : answers'[m] = answers[m]
      /\ answers'[Len(answers) + 1].now = r.now
  BY Answering
<1>2. \A l, m \in 1..(Len(answers) + 1) : l < m => answers'[l].now <= answers'[m].now
  BY <1>1 DEF InOrder
<1>3. InOrder(Len(answers))
  <2> SUFFICES ASSUME NEW l \in 1..Len(answers), NEW m \in 1..Len(answers), l < m
               PROVE  answers[l].now <= answers[m].now
    BY DEF InOrder
  <2>1. l \in 1..(Len(answers) + 1) /\ m \in 1..(Len(answers) + 1)
    BY <1>1
  <2> QED
    BY <1>1, <1>2, <2>1
<1>4. ASSUME NEW n \in DOMAIN answers PROVE answers[n].now <= r.now
  <2>1. /\ n \in 1..(Len(answers) + 1) /\ Len(answers) + 1 \in 1..(Len(answers) + 1)
        /\ n < Len(answers) + 1
    BY <1>1
  <2> QED
    BY <1>1, <1>2, <2>1
<1>5. ~repeated /\ r \notin Kept(r.now)
  BY DEF Execute
<1> QED
  BY <1>3, <1>4, <1>5

\* Each step keeps that.  When the key is dropped no request is recent: expire is given a
\* second more than the window.
LEMMA CountedKept == LimiterTyped /\ Counted /\ [LimiterNext]_limiterVars => Counted'
<1> SUFFICES ASSUME LimiterTyped, Counted, [LimiterNext]_limiterVars,
                    InOrder(Len(answers))', ~repeated',
                    NEW q \in Nat, q + MaxDelay >= clock',
                    \A n \in DOMAIN answers' : answers'[n].now <= q
             PROVE  Cardinality(Recent(q)') <= Cardinality(Kept(q)')
  BY DEF Counted
<1> USE LimitAssumption, TimeAssumption, DelayAssumption
<1>1. /\ Cardinality(Kept(q)) \in Nat /\ Cardinality(Recent(q)) \in Nat
      /\ IsFiniteSet(Kept(q)) /\ clock \in Nat
  BY Countable DEF LimiterTyped, LimiterTypeOK
<1>2. CASE UNCHANGED <<clock, entries, answers, repeated>>
  <2>1. InOrder(Len(answers)) /\ ~repeated
    BY <1>2 DEF InOrder
  <2>2. Cardinality(Recent(q)) <= Cardinality(Kept(q))
    BY <1>2, <2>1 DEF Counted
  <2> QED
    BY <1>2, <2>2 DEF Kept, Recent
<1>3. ASSUME NEW r \in waiting, Execute(r)
      PROVE  Cardinality(Recent(q)') <= Cardinality(Kept(q)')
  <2>1. /\ InOrder(Len(answers)) /\ ~repeated /\ r \notin Kept(r.now)
    BY <1>3, Before
  <2>2. /\ DOMAIN answers' = DOMAIN answers \cup {Len(answers) + 1}
        /\ \A m \in DOMAIN answers : answers'[m] = answers[m]
        /\ answers'[Len(answers) + 1].now = r.now /\ r.now \in Nat
    BY <1>3, Answering
  <2>3. r.now <= q /\ \A n \in DOMAIN answers : answers[n].now <= q
    BY <2>2
  <2>4. clock' = clock
    BY <1>3 DEF Execute
  <2>5. Cardinality(Recent(q)) <= Cardinality(Kept(q))
    BY <2>1, <2>3, <2>4 DEF Counted
  <2>6. Kept(q) \subseteq Kept(q)' /\ r \notin Kept(q)
    BY <1>3, <2>1, <2>3, Recounting
  <2>7. CASE r.now + Window > q
    <3>1. Kept(q)' = Kept(q) \cup {r} /\ Cardinality(Recent(q)') = Cardinality(Recent(q)) + 1
      BY <1>3, <2>6, <2>7, Recounting
    <3>2. Cardinality(Kept(q)') = Cardinality(Kept(q)) + 1
      BY <1>1, <2>6, <3>1, FS_AddElement
    <3> QED
      BY <1>1, <2>5, <3>1, <3>2
  <2>8. CASE ~(r.now + Window > q)
    <3>1. Kept(q)' = Kept(q) /\ Recent(q)' = Recent(q)
      BY <1>3, <2>6, <2>8, Recounting
    <3> QED
      BY <2>5, <3>1
  <2> QED
    BY <2>7, <2>8
<1>4. CASE Tick
  <2>1. /\ clock' = clock + 1 /\ answers' = answers /\ repeated' = repeated
        /\ entries' = IF clock' >= expiry THEN {} ELSE entries
    BY <1>4 DEF Tick
  <2>2. InOrder(Len(answers)) /\ ~repeated
    BY <2>1 DEF InOrder
  <2>3. CASE clock' >= expiry
    <3>1. \A n \in DOMAIN answers : answers[n].now \in Nat /\ answers[n].now + Window < expiry
      BY DEF LimiterTyped, LimiterTypeOK
    <3>2. expiry \in Nat
      BY DEF LimiterTyped, LimiterTypeOK
    <3>3. \A n \in DOMAIN answers : ~(answers[n].now + Window > q)
      BY <1>1, <2>1, <2>3, <3>1, <3>2
    <3>4. Recent(q)' = {} /\ Kept(q)' = {}
      BY <2>1, <2>3, <3>3 DEF Recent, Kept
    <3> QED
      BY <3>4, FS_EmptySet
  <2>4. CASE ~(clock' >= expiry)
    <3>1. entries' = entries /\ q + MaxDelay >= clock
      BY <1>1, <2>1, <2>4
    <3>2. Cardinality(Recent(q)) <= Cardinality(Kept(q))
      BY <2>1, <2>2, <3>1 DEF Counted
    <3> QED
      BY <2>1, <3>1, <3>2 DEF Kept, Recent
  <2> QED
    BY <2>3, <2>4
<1>5. ASSUME NEW p \in Pipes, Arrive(p) PROVE UNCHANGED <<clock, entries, answers, repeated>>
  BY <1>5 DEF Arrive
<1> QED
  BY <1>2, <1>3, <1>4, <1>5 DEF LimiterNext, limiterVars

\* Those of the Window seconds from t that were let through.
Passed(t) == {n \in DOMAIN answers :
                answers[n].ok /\ answers[n].now \in t..(t + Window - 1)}

\* A request that is let through has found fewer than Limit entries, one of each request
\* of every window with it.
LEMMA LimitKept ==
  LimiterTyped /\ Counted /\ LimitHolds /\ [LimiterNext]_limiterVars => LimitHolds'
<1> SUFFICES ASSUME LimiterTyped, Counted, LimitHolds, [LimiterNext]_limiterVars,
                    InOrder(Len(answers))', ~repeated', NEW t \in 0..MaxTime
             PROVE  Cardinality(Passed(t)') <= Limit
  BY DEF LimitHolds, Passed
<1> USE LimitAssumption, TimeAssumption, DelayAssumption
<1>1. CASE UNCHANGED <<answers, repeated>>
  BY <1>1 DEF LimitHolds, Passed, InOrder
<1>2. ASSUME NEW r \in waiting, Execute(r)
      PROVE  Cardinality(Passed(t)') <= Limit
  <2>1. /\ InOrder(Len(answers)) /\ ~repeated
        /\ \A n \in DOMAIN answers : answers[n].now <= r.now
    BY <1>2, Before
  <2>2. /\ r.now \in Nat /\ Len(answers) \in Nat /\ DOMAIN answers = 1..Len(answers)
        /\ DOMAIN answers' = DOMAIN answers \cup {Len(answers) + 1}
        /\ \A m \in DOMAIN answers : answers'[m] = answers[m] /\ answers[m].now \in Nat
        /\ answers'[Len(answers) + 1].now = r.now
        /\ answers'[Len(answers) + 1].ok = WithinLimit(r.now)
    BY <1>2, Answering
  <2>3. Cardinality(Passed(t)) <= Limit
    BY <2>1 DEF LimitHolds, Passed
  <2>4. IsFiniteSet(Recent(r.now)) /\ Cardinality(Recent(r.now)) \in Nat
    BY Countable
  <2>5. Passed(t)' = {n \in DOMAIN answers' :
            answers'[n].ok /\ answers'[n].now \in t..(t + Window - 1)}
    BY DEF Passed
  <2>6. CASE ~WithinLimit(r.now) \/ r.now \notin t..(t + Window - 1)
    <3>1. Passed(t)' = Passed(t)
      BY <2>2, <2>5, <2>6 DEF Passed
    <3> QED
      BY <2>3, <3>1
  <2>7. CASE WithinLimit(r.now) /\ r.now \in t..(t + Window - 1)
    <3>1. Passed(t)' = Passed(t) \cup {Len(answers) + 1}
      BY <2>2, <2>5, <2>7 DEF Passed
    <3>2. Passed(t) \in SUBSET Recent(r.now)
      BY <2>2, <2>7 DEF Passed, Recent
    <3>3. IsFiniteSet(Passed(t)) /\ Cardinality(Passed(t)) <= Cardinality(Recent(r.now))
      BY <2>4, <3>2, FS_Subset
    <3>4. Cardinality(Passed(t)) \in Nat
      BY <3>3, FS_CardinalityType
    <3>5. Len(answers) + 1 \notin Passed(t)
      BY <2>2 DEF Passed
    <3>6. Cardinality(Passed(t)') = Cardinality(Passed(t)) + 1
      BY <3>1, <3>3, <3>5, FS_AddElement
    <3>7. r.now + MaxDelay >= clock
      BY DEF LimiterTyped
    <3>8. /\ Cardinality(Recent(r.now)) <= Cardinality(Kept(r.now))
          /\ Cardinality(Kept(r.now)) \in Nat
      BY <2>1, <2>2, <3>7, Countable DEF Counted
    <3>9. Cardinality(Kept(r.now)) < Limit
      BY <2>7 DEF WithinLimit
    <3> QED
      BY <2>4, <3>3, <3>4, <3>6, <3>8, <3>9
  <2> QED
    BY <2>6, <2>7
<1>3. ASSUME NEW p \in Pipes, Arrive(p) PROVE UNCHANGED <<answers, repeated>>
  BY <1>3 DEF Arrive
<1> QED
  BY <1>1, <1>2, <1>3 DEF LimiterNext, Tick, limiterVars

\* -------------------------------------------------------------------------

LimiterInvariant == LimiterTyped /\ Fewer /\ RefusedForAReason /\ Counted /\ LimitHolds

\* It holds before any request.
LEMMA LimiterBegins == LimiterInit => LimiterInvariant
<1> SUFFICES ASSUME LimiterInit PROVE LimiterInvariant
  OBVIOUS
<1> USE LimitAssumption, TimeAssumption, DelayAssumption
<1>1. /\ clock = 0 /\ entries = {} /\ expiry = 0 /\ waiting = {} /\ answers = <<>>
      /\ repeated = FALSE
  BY DEF LimiterInit
<1>2. answers \in Seq(Answer) /\ DOMAIN answers = {} /\ IsFiniteSet(entries)
  BY <1>1, FS_EmptySet
<1>3. LimiterTyped
  <2>1. 0 \in 0..MaxTime /\ 0 \in 0..(MaxTime + Window + 1)
    OBVIOUS
  <2> QED
    BY <1>1, <1>2, <2>1 DEF LimiterTyped, LimiterTypeOK
<1>4. \A q : Kept(q) = {} /\ Recent(q) = {} /\ Passed(q) = {}
  BY <1>1, <1>2 DEF Kept, Recent, Passed
<1>5. Cardinality({}) = 0
  BY FS_EmptySet
<1>6. Fewer /\ Counted
  <2>1. \A q : Cardinality(Kept(q)) = 0 /\ Cardinality(Recent(q)) = 0
    BY <1>4, <1>5, Zenon
  <2> QED
    BY <2>1 DEF Fewer, Counted
<1>7. RefusedForAReason
  BY <1>2 DEF RefusedForAReason
<1>8. LimitHolds
  <2>1. \A t : Cardinality(Passed(t)) = 0
    BY <1>4, <1>5, Zenon
  <2>2. \A t : Cardinality(Passed(t)) <= Limit
    BY <2>1
  <2> QED
    BY <2>2, Zenon DEF LimitHolds, Passed
<1> QED
  BY <1>3, <1>6, <1>7, <1>8 DEF LimiterInvariant

\* Each step keeps it.
LEMMA LimiterSteps == LimiterInvariant /\ [LimiterNext]_limiterVars => LimiterInvariant'
  BY LimiterNextTyped, FewerKept, ReasonKept, CountedKept, LimitKept DEF LimiterInvariant

\* The limiter's variables keep their types.
THEOREM LimiterTypes == LimiterSpec => []LimiterTypeOK
<1>1. LimiterInvariant => LimiterTypeOK
  BY DEF LimiterInvariant, LimiterTyped
<1> QED
  BY <1>1, LimiterBegins, LimiterSteps, PTL DEF LimiterSpec

\* Of the requests of any Window seconds at most Limit are let through, if requests run in
\* the order in which they came and no two of a second share a pipe.
THEOREM LimitIsKept == LimiterSpec => []LimitHolds
<1>1. LimiterInvariant => LimitHolds
  BY DEF LimiterInvariant
<1> QED
  BY <1>1, LimiterBegins, LimiterSteps, PTL DEF LimiterSpec

\* Whoever is refused came within a window of at least Limit other requests.
THEOREM RefusalsHaveReasons == LimiterSpec => []RefusedForAReason
<1>1. LimiterInvariant => RefusedForAReason
  BY DEF LimiterInvariant
<1> QED
  BY <1>1, LimiterBegins, LimiterSteps, PTL DEF LimiterSpec

\* -------------------------------------------------------------------------
\* Autofill

\* What is asked, or to be filled in, came from a page that its tab showed and, if it shows
\* it still, that has the site of the message; and a credential that was compared has that
\* site, too.
AsksForItsPage ==
    /\ \A f \in filling :
           /\ f.page <= view[f.tab].page
           /\ IsThere(f) => view[f.tab].site = f.site
           /\ f.from # NoSite => f.from = f.site
    /\ FillsItsOwnPage

AutofillInv == AutofillTypeOK /\ AsksForItsPage

\* What the page does with an answer: it takes its list away.
LEMMA AnsweredTyped ==
  ASSUME AutofillTypeOK, NEW f \in filling
  PROVE  /\ Answered(f) \in [BrowserTabs -> [page : Pages, site : AnySite,
                                             list : SUBSET Credentials]]
         /\ \A t \in BrowserTabs : /\ Answered(f)[t].page = view[t].page
                                   /\ Answered(f)[t].site = view[t].site
<1>1. f.tab \in BrowserTabs
  BY DEF AutofillTypeOK, Filling
<1> QED
  BY <1>1 DEF AutofillTypeOK, Answered

\* A step after which every tab shows the page it showed, and what is to be filled in is
\* some of what was.
LEMMA PagesStay ==
  ASSUME AutofillInv, filling' \subseteq filling, filled' = filled,
         \A t \in BrowserTabs : view'[t].page = view[t].page /\ view'[t].site = view[t].site
  PROVE  AsksForItsPage'
<1>1. \A f \in filling' : f \in filling /\ f.tab \in BrowserTabs
  BY DEF AutofillInv, AutofillTypeOK, Filling
<1> QED
  BY <1>1 DEF AutofillInv, AsksForItsPage, IsThere, FillsItsOwnPage

\* A page's steps.
LEMMA PageSteps ==
  ASSUME AutofillInv, NEW t \in BrowserTabs,
         \/ CloseList(t)
         \/ \E s \in Sites : Visit(t, s)
         \/ \E c \in Credentials : ChooseCredential(t, c)
  PROVE  AutofillInv'
<1>1. /\ view \in [BrowserTabs -> [page : Pages, site : AnySite, list : SUBSET Credentials]]
      /\ view[t] \in [page : Pages, site : AnySite, list : SUBSET Credentials]
      /\ asking \subseteq Asking /\ filling \subseteq Filling
      /\ \A f \in filling : f.tab \in BrowserTabs
  BY DEF AutofillInv, AutofillTypeOK, Filling
<1>2. CASE CloseList(t)
  <2>1. view' = [view EXCEPT ![t].list = {}]
        /\ UNCHANGED <<siteOf, unlocked, asking, filling, filled, edits>>
    BY <1>2 DEF CloseList
  <2>2. AutofillTypeOK'
    BY <1>1, <2>1 DEF AutofillInv, AutofillTypeOK
  <2>3. \A u \in BrowserTabs : view'[u].page = view[u].page /\ view'[u].site = view[u].site
    BY <1>1, <2>1
  <2> QED
    BY <2>1, <2>2, <2>3, PagesStay DEF AutofillInv
<1>3. ASSUME NEW s \in Sites, Visit(t, s)
      PROVE  AutofillInv'
  <2> DEFINE next == [page |-> view[t].page + 1, site |-> s, list |-> {}]
             q == [tab |-> t, page |-> view[t].page + 1, site |-> s]
  <2>1. /\ view[t].page < MaxPages /\ view' = [view EXCEPT ![t] = next]
        /\ asking' = asking \cup {q}
        /\ UNCHANGED <<siteOf, unlocked, filling, filled, edits>>
    BY <1>3 DEF Visit
  <2>2. view[t].page \in Nat /\ view[t].page + 1 \in Pages
    BY <1>1, <2>1, PagesAssumption DEF Pages
  <2>3. next \in [page : Pages, site : AnySite, list : SUBSET Credentials] /\ q \in Asking
    BY <2>2 DEF AnySite, Asking
  <2>4. AutofillTypeOK'
    BY <1>1, <2>1, <2>3 DEF AutofillInv, AutofillTypeOK
  <2>5. \A f \in filling : f.tab = t => f.page <= view[t].page /\ f.page \in Nat
    BY <1>1, <2>2, PagesAssumption DEF AutofillInv, AsksForItsPage, Filling, Pages
  <2>6. view'[t].page = view[t].page + 1 /\ \A u \in BrowserTabs \ {t} : view'[u] = view[u]
    BY <1>1, <2>1
  <2>7. \A f \in filling : f.tab = t => f.page <= view'[t].page /\ ~IsThere(f)'
    BY <2>2, <2>5, <2>6 DEF IsThere
  <2>8. \A f \in filling : f.tab # t => (IsThere(f)' <=> IsThere(f))
    BY <1>1, <2>6 DEF IsThere
  <2> HIDE DEF next, q
  <2>9. AsksForItsPage'
    BY <1>1, <2>1, <2>6, <2>7, <2>8 DEF AutofillInv, AsksForItsPage, FillsItsOwnPage
  <2> QED
    BY <2>4, <2>9 DEF AutofillInv
<1>4. ASSUME NEW c \in Credentials, ChooseCredential(t, c)
      PROVE  AutofillInv'
  <2> DEFINE new == [tab |-> t, page |-> view[t].page, site |-> view[t].site,
                     credential |-> c, from |-> NoSite]
  <2>1. filling' = filling \cup {new} /\ UNCHANGED <<siteOf, unlocked, view, asking, filled, edits>>
    BY <1>4 DEF ChooseCredential
  <2>2. new \in Filling
    BY <1>1 DEF Filling, AnySite
  <2>3. AutofillTypeOK'
    BY <2>1, <2>2 DEF AutofillInv, AutofillTypeOK
  <2>4. view[t].page <= view[t].page
    BY <1>1, PagesAssumption DEF Pages
  <2>5. new.page <= view[new.tab].page /\ view[new.tab].site = new.site /\ new.from = NoSite
    BY <2>4
  <2> HIDE DEF new
  <2>6. AsksForItsPage'
    BY <2>1, <2>5 DEF AutofillInv, AsksForItsPage, IsThere, FillsItsOwnPage
  <2> QED
    BY <2>3, <2>6 DEF AutofillInv
<1> QED
  BY <1>2, <1>3, <1>4

\* The worker's steps.
LEMMA WorkerSteps ==
  ASSUME AutofillInv, (\E q \in asking : Offer(q)) \/ (\E f \in filling : Check(f) \/ FillIn(f))
  PROVE  AutofillInv'
<1>1. /\ view \in [BrowserTabs -> [page : Pages, site : AnySite, list : SUBSET Credentials]]
      /\ siteOf \in [Credentials -> AnySite] /\ asking \subseteq Asking
      /\ filling \subseteq Filling
  BY DEF AutofillInv, AutofillTypeOK
<1>2. ASSUME NEW q \in asking, Offer(q)
      PROVE  AutofillInv'
  <2> DEFINE offered == {c \in Credentials : siteOf[c] = q.site}
  <2>1. /\ asking' = asking \ {q} /\ UNCHANGED <<siteOf, unlocked, filling, filled, edits>>
        /\ view' = view \/ view' = [view EXCEPT ![q.tab].list = offered]
    BY <1>2 DEF Offer
  <2>2. q.tab \in BrowserTabs /\ offered \subseteq Credentials
    BY <1>1 DEF Asking
  <2> HIDE DEF offered
  <2>3. /\ view' \in [BrowserTabs -> [page : Pages, site : AnySite, list : SUBSET Credentials]]
        /\ \A u \in BrowserTabs : view'[u].page = view[u].page /\ view'[u].site = view[u].site
    BY <1>1, <2>1, <2>2
  <2>4. AutofillTypeOK'
    BY <2>1, <2>3 DEF AutofillInv, AutofillTypeOK
  <2> QED
    BY <2>1, <2>3, <2>4, PagesStay DEF AutofillInv
<1>3. ASSUME NEW f \in filling, Check(f)
      PROVE  AutofillInv'
  <2>1. CASE unlocked /\ Matches(f)
    <3> DEFINE new == [f EXCEPT !.from = siteOf[f.credential]]
    <3>1. filling' = (filling \ {f}) \cup {new}
          /\ UNCHANGED <<siteOf, unlocked, view, asking, filled, edits>>
      BY <1>3, <2>1 DEF Check
    <3>2. f \in Filling /\ siteOf[f.credential] = f.site
      BY <1>1, <2>1 DEF Matches
    <3>3. new \in Filling /\ new.tab = f.tab /\ new.page = f.page /\ new.site = f.site
          /\ new.from = f.site
      BY <3>2 DEF Filling
    <3> HIDE DEF new
    <3>4. AutofillTypeOK'
      BY <3>1, <3>3 DEF AutofillInv, AutofillTypeOK
    <3>5. AsksForItsPage'
      BY <3>1, <3>3 DEF AutofillInv, AsksForItsPage, IsThere, FillsItsOwnPage
    <3> QED
      BY <3>4, <3>5 DEF AutofillInv
  <2>2. CASE ~(unlocked /\ Matches(f))
    <3>1. /\ filling' = filling \ {f} /\ view' = Answered(f)
          /\ UNCHANGED <<siteOf, unlocked, asking, filled, edits>>
      BY <1>3, <2>2 DEF Check
    <3>2. AutofillTypeOK'
      BY <3>1, AnsweredTyped DEF AutofillInv, AutofillTypeOK
    <3> QED
      BY <3>1, <3>2, AnsweredTyped, PagesStay DEF AutofillInv
  <2> QED
    BY <2>1, <2>2
<1>4. ASSUME NEW f \in filling, FillIn(f)
      PROVE  AutofillInv'
  <2> DEFINE new == [from |-> f.from, into |-> view[f.tab].site, left |-> ~IsThere(f)]
  <2>1. /\ filling' = filling \ {f} /\ view' = Answered(f) /\ filled' = filled \cup {new}
        /\ f.from # NoSite /\ UNCHANGED <<siteOf, unlocked, asking, edits>>
    BY <1>4 DEF FillIn
  <2>2. f \in Filling /\ f.tab \in BrowserTabs /\ view[f.tab].site \in AnySite
    BY <1>1 DEF Filling
  <2>3. (~IsThere(f)) \in BOOLEAN
    BY DEF IsThere
  <2>4. new \in [from : AnySite, into : AnySite, left : BOOLEAN]
    BY <2>2, <2>3 DEF Filling
  <2>5. AutofillTypeOK'
    BY <2>1, <2>4, AnsweredTyped DEF AutofillInv, AutofillTypeOK
  <2>6. new.left \/ new.from = new.into
    BY <2>1 DEF AutofillInv, AsksForItsPage
  <2> HIDE DEF new
  <2>7. FillsItsOwnPage'
    BY <2>1, <2>6 DEF AutofillInv, AsksForItsPage, FillsItsOwnPage
  <2>8. ASSUME NEW g \in filling'
        PROVE  /\ g.page <= view'[g.tab].page
               /\ IsThere(g)' => view'[g.tab].site = g.site
               /\ g.from # NoSite => g.from = g.site
    <3>1. g \in filling /\ g.tab \in BrowserTabs
      BY <1>1, <2>1 DEF Filling
    <3>2. view'[g.tab].page = view[g.tab].page /\ view'[g.tab].site = view[g.tab].site
      BY <2>1, <3>1, AnsweredTyped DEF AutofillInv
    <3> QED
      BY <3>1, <3>2 DEF AutofillInv, AsksForItsPage, IsThere
  <2> QED
    BY <2>5, <2>7, <2>8 DEF AutofillInv, AsksForItsPage
<1> QED
  BY <1>2, <1>3, <1>4

\* Each step keeps it.
LEMMA AutofillSteps == AutofillInv /\ [AutofillNext]_autofillVars => AutofillInv'
<1> SUFFICES ASSUME AutofillInv, [AutofillNext]_autofillVars PROVE AutofillInv'
  OBVIOUS
<1>1. CASE (\E c \in Credentials, s \in AnySite : ChangeSite(c, s)) \/ LockOrUnlock
           \/ UNCHANGED autofillVars
  <2>1. UNCHANGED <<view, asking, filling, filled>>
    BY <1>1 DEF ChangeSite, LockOrUnlock, autofillVars
  <2>2. AutofillTypeOK'
    <3>1. CASE \E c \in Credentials, s \in AnySite : ChangeSite(c, s)
      BY <3>1, PagesAssumption DEF ChangeSite, AutofillInv, AutofillTypeOK
    <3>2. CASE LockOrUnlock
      <4>1. unlocked' \in BOOLEAN /\ edits' \in 0..MaxEdits
        BY <3>2, PagesAssumption DEF LockOrUnlock, AutofillInv, AutofillTypeOK
      <4> QED
        BY <2>1, <3>2, <4>1 DEF LockOrUnlock, AutofillInv, AutofillTypeOK
    <3>3. CASE UNCHANGED autofillVars
      BY <3>3 DEF autofillVars, AutofillInv, AutofillTypeOK
    <3> QED
      BY <1>1, <3>1, <3>2, <3>3
  <2> QED
    BY <2>1, <2>2, PagesStay DEF AutofillInv
<1> QED
  BY <1>1, PageSteps, WorkerSteps DEF AutofillNext

\* At first every tab is new.
LEMMA AutofillBegins == AutofillInit => AutofillInv
  BY PagesAssumption
  DEF AutofillInit, AutofillInv, AutofillTypeOK, AsksForItsPage, FillsItsOwnPage, Pages, AnySite

\* The variables of Autofill keep their types.
THEOREM AutofillTypes == AutofillSpec => []AutofillTypeOK
<1>1. AutofillInv => AutofillTypeOK
  BY DEF AutofillInv
<1> QED
  BY <1>1, AutofillBegins, AutofillSteps, PTL DEF AutofillSpec

\* A page that its tab has not left is filled with a credential of its own site only.
THEOREM PagesAreFilledRight == AutofillSpec => []FillsItsOwnPage
<1>1. AutofillInv => FillsItsOwnPage
  BY DEF AutofillInv, AsksForItsPage
<1> QED
  BY <1>1, AutofillBegins, AutofillSteps, PTL DEF AutofillSpec

\* -------------------------------------------------------------------------
\* All parts

\* What one part does is a step of it, and the others stand still.
LEMMA PartsStep ==
  [UsePart]_<<part, vars, formVars, autofillVars, limiterVars>> =>
      /\ [Next]_vars /\ [FormNext]_formVars
      /\ [AutofillNext]_autofillVars /\ [LimiterNext]_limiterVars
  BY DEF UsePart, UseGenerator, UseForm, UseAutofill, UseLimiter

\* Each part behaves as it would alone.
LEMMA PartsBehave == FormsSpec => Spec /\ FormSpec /\ AutofillSpec /\ LimiterSpec
<1>1. FormsInit => Init /\ FormInit /\ AutofillInit /\ LimiterInit
  BY DEF FormsInit
<1> QED
  BY <1>1, PartsStep, PTL DEF FormsSpec, Spec, FormSpec, AutofillSpec, LimiterSpec

\* Whichever part is used, all keep their types.
THEOREM TypesAreKept == FormsSpec => []TypesOK
<1>1. TypeOK /\ FormTyped /\ AutofillTypeOK /\ LimiterTypeOK => TypesOK
  BY DEF FormTyped, TypesOK
<1> QED
  BY <1>1, PartsBehave, GeneratorTypes, FormTypes, AutofillTypes, LimiterTypes, PTL
=============================================================================
