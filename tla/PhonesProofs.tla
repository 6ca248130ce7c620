---------------------------- MODULE PhonesProofs ----------------------------
(***************************************************************************)
(* What Phones guarantees for any number of phones, accounts, moves and    *)
(* edits.                                                                  *)
(***************************************************************************)
EXTENDS Phones, TLAPS

\* -------------------------------------------------------------------------
\* The inductive invariant.  Its first part is what every screen relies on.

\* The relay's rows.  An account has the secret of a set-up whose own row still has
\* the hash of that secret.
RowInv ==
    /\ \A a \in Accounts : key[a] # None => key[a] \in lookup
    /\ \A a \in lookup : key[a] = a
    /\ \A a \in confirmed : key[a] \in shown

\* The codes: numbered in the order they were shown, each with an account that exists.
CodeInv ==
    /\ \A m \in Moves, n \in Moves : n < m /\ codes[m] # None => codes[n] # None
    /\ \A m \in Moves : codes[m] # None => key[codes[m]] # None
    /\ \A m \in live \cup posts \cup flags : codes[m] # None

\* A registration: of an account that exists; what a move brought came from its code.
RegInv(p) ==
    /\ reg[p] # None => key[reg[p]] # None
    /\ born[p] # 0 => born[p] \in Moves /\ codes[born[p]] # None

\* What StoredKeyOpensVault says of one phone.
SeedInv(p) ==
    seed[p] # None => reg[p] # None /\ seed[p] = key[reg[p]] /\ holds[p] = seed[p]

\* A set-up or recovery under way on p: p is unregistered, what it carries is real.
SetupInv(p) ==
    /\ flow[p].at \in {"registered", "keyed", "wrapped"} =>
          /\ reg[p] = None /\ flow[p].account \in Accounts
          /\ flow[p].secret \in Accounts /\ key[flow[p].account] = flow[p].secret
    /\ flow[p].at = "wrapped" => holds[p] = flow[p].secret
    /\ flow[p].at = "fetched" =>
          /\ reg[p] = None /\ flow[p].secret \in lookup
          /\ flow[p].known => flow[p].secret \in shown

\* The screens of a registered phone, and an import.
ScreenInv(p) ==
    /\ flow[p].at \in {"offered", "showing", "posting", "leaving", "exporting", "moved"} =>
          reg[p] # None
    /\ flow[p].at \in {"showing", "posting"} => seed[p] # None /\ seed[p] \in shown
    /\ flow[p].at = "leaving" => reg[p] \in confirmed
    /\ flow[p].at \in {"exporting", "moved"} =>
          /\ flow[p].move \in Moves /\ codes[flow[p].move] = reg[p]
          /\ born[p] < flow[p].move
    /\ flow[p].at = "importing" =>
          reg[p] = None /\ flow[p].move \in Moves /\ codes[flow[p].move] # None

PhoneOK(p) == RegInv(p) /\ SeedInv(p) /\ SetupInv(p) /\ ScreenInv(p)

PhoneInv ==
    /\ RowInv /\ CodeInv
    /\ \A p \in Phones : PhoneOK(p)
    /\ LogoutLeavesAWayBack

\* The second part is about moves.  What code m moved is still on a phone that got it
\* by this code or a later one; such a phone is not the one that showed m.
Moved(m) ==
    GaveUp(codes[m]) \/ \E q \in Phones : reg[q] = codes[m] /\ born[q] >= m

MoveInv ==
    /\ \A m \in flags \cup posts : Moved(m)
    /\ \A p \in Phones : At(p, "moved") => Moved(flow[p].move)
    /\ RegistrationSurvivesMoving

\* -------------------------------------------------------------------------
\* Types

\* The initial values have the types of TypeOK.
LEMMA InitTyped == Init => TypeOK
  BY DEF Init, TypeOK, Home, Flow, Screens, MaybeAccount, Moves

\* Every flow a phone goes to is one.
LEMMA FlowTyped ==
  ASSUME TypeOK, NEW p \in Phones, NEW f \in Flow, Goes(p, f)
  PROVE  flow' \in [Phones -> Flow]
  BY DEF TypeOK, Goes

LEMMA HomeTyped == Home \in Flow
  BY DEF Home, Flow, Screens, MaybeAccount

LEMMA EntersTyped ==
  ASSUME TypeOK, NEW p \in Phones, NEW s \in Screens, Enters(p, s)
  PROVE  flow' \in [Phones -> Flow]
<1>1. [flow[p] EXCEPT !.at = s] \in Flow
  BY DEF TypeOK, Flow
<1> QED
  BY <1>1, FlowTyped DEF Enters

\* Wiping keeps the types.
LEMMA WipeTyped ==
  ASSUME TypeOK, NEW p \in Phones, Wipe(p)
  PROVE  /\ reg' \in [Phones -> MaybeAccount]
         /\ seed' \in [Phones -> MaybeAccount]
         /\ holds' \in [Phones -> MaybeAccount]
         /\ born' \in [Phones -> Nat]
         /\ flow' \in [Phones -> Flow]
<1>1. flow' \in [Phones -> Flow]
  BY HomeTyped, FlowTyped DEF Wipe
<1> QED
  BY <1>1 DEF Wipe, TypeOK, MaybeAccount

\* Registering at the relay keeps the types.
LEMMA RegisterTyped ==
  ASSUME TypeOK, NEW a \in Accounts, NEW s \in MaybeAccount, NEW n \in Nat,
         NEW h \in BOOLEAN, NEW k \in BOOLEAN, RegisterAtRelay(a, s, n, h, k)
  PROVE  /\ key' \in [Accounts -> MaybeAccount]
         /\ vault' \in [Accounts -> Nat]
         /\ lookup' \subseteq Accounts
         /\ confirmed' \subseteq Accounts
  BY DEF RegisterAtRelay, TypeOK, MaybeAccount

\* -------------------------------------------------------------------------
\* What a step of one phone leaves alone

\* Rows, hashes, confirmations, shown phrases and codes are never taken back.
Grows ==
    /\ \A a \in Accounts : key[a] # None => key'[a] = key[a]
    /\ lookup \subseteq lookup' /\ confirmed \subseteq confirmed' /\ shown \subseteq shown'
    /\ \A m \in Moves : codes[m] # None => codes'[m] = codes[m]

SamePhone(q) ==
    /\ flow'[q] = flow[q] /\ reg'[q] = reg[q] /\ seed'[q] = seed[q]
    /\ holds'[q] = holds[q] /\ born'[q] = born[q]

\* A phone that takes no step keeps its part of the invariant.
LEMMA SamePhoneKeeps ==
  ASSUME TypeOK, PhoneInv, Grows, NEW q \in Phones, SamePhone(q)
  PROVE  PhoneOK(q)'
<1>0. PhoneOK(q) /\ reg[q] \in MaybeAccount /\ seed[q] \in MaybeAccount /\ None \notin Accounts
  BY NoneIsNoAccount DEF TypeOK, PhoneInv
<1>1. RegInv(q)'
  BY <1>0 DEF PhoneOK, RegInv, Grows, SamePhone, MaybeAccount
<1>2. SeedInv(q)'
  BY <1>0 DEF PhoneOK, RegInv, SeedInv, Grows, SamePhone, MaybeAccount
<1>3. SetupInv(q)'
  BY <1>0 DEF PhoneOK, SetupInv, Grows, SamePhone, MaybeAccount
<1>4. ScreenInv(q)'
  BY <1>0 DEF PhoneOK, ScreenInv, Grows, SamePhone, MaybeAccount
<1> QED
  BY <1>1, <1>2, <1>3, <1>4 DEF PhoneOK

\* Nobody logs out: the way back stays.
LEMMA WayBackStays ==
  ASSUME TypeOK, PhoneInv, Grows,
         \A a \in Accounts : <<a, "logout">> \in gone' => <<a, "logout">> \in gone
  PROVE  LogoutLeavesAWayBack'
<1> SUFFICES ASSUME NEW a \in Accounts, <<a, "logout">> \in gone
             PROVE  key'[a] \in shown' /\ \E b \in lookup' : key'[b] = key'[a]
  BY DEF LogoutLeavesAWayBack
<1>1. PICK b \in lookup : key[b] = key[a]
  BY DEF PhoneInv, LogoutLeavesAWayBack
<1>2. key[a] \in shown /\ key[a] # None /\ b \in Accounts
  BY NoneIsNoAccount DEF PhoneInv, LogoutLeavesAWayBack, TypeOK
<1>3. key'[a] = key[a] /\ key'[b] = key[b]
  BY <1>1, <1>2 DEF Grows
<1> QED
  BY <1>1, <1>2, <1>3 DEF Grows

\* A step of phone p keeps the invariant if it keeps the shared parts and p's own.
LEMMA StepFrame ==
  ASSUME TypeOK, PhoneInv, NEW p \in Phones, Grows, RowInv', CodeInv', LogoutLeavesAWayBack',
         \A q \in Phones \ {p} : SamePhone(q), PhoneOK(p)'
  PROVE  PhoneInv'
<1>1. ASSUME NEW q \in Phones PROVE PhoneOK(q)'
  <2>1. CASE q = p
    BY <2>1
  <2>2. CASE q # p
    BY <2>2, SamePhoneKeeps
  <2> QED
    BY <2>1, <2>2
<1> QED
  BY <1>1 DEF PhoneInv

\* The shared parts, when the relay's rows and codes stay.
LEMMA RowsStay ==
  ASSUME RowInv, UNCHANGED <<key, lookup, confirmed>>, shown \subseteq shown'
  PROVE  RowInv'
  BY DEF RowInv

LEMMA CodesStay ==
  ASSUME CodeInv, UNCHANGED <<key, codes>>,
         live' \cup posts' \cup flags' \subseteq live \cup posts \cup flags
  PROVE  CodeInv'
  BY DEF CodeInv

\* -------------------------------------------------------------------------
\* The steps of set-up and recovery

\* Registering an unused account adds a row and takes nothing back.
LEMMA RegisterGrows ==
  ASSUME TypeOK, PhoneInv, NEW a \in Accounts, NEW s \in Accounts,
         Unused(a), key' = [key EXCEPT ![a] = s],
         \/ s = a /\ lookup' = lookup \cup {a}
         \/ s \in lookup /\ lookup' = lookup,
         \/ s \in shown /\ confirmed' = confirmed \cup {a}
         \/ confirmed' = confirmed,
         UNCHANGED <<moveVars, phoneVars, historyVars>>
  PROVE  Grows /\ RowInv' /\ CodeInv' /\ LogoutLeavesAWayBack' /\ key'[a] = s
<1>0. RowInv /\ CodeInv /\ None \notin Accounts /\ key \in [Accounts -> MaybeAccount]
  BY NoneIsNoAccount DEF PhoneInv, TypeOK
<1>1. a \notin lookup /\ a \notin confirmed
  BY <1>0 DEF Unused, RowInv, TypeOK
<1>2. key'[a] = s /\ \A b \in Accounts : b # a => key'[b] = key[b]
  BY <1>0
<1>3. Grows
  BY <1>2 DEF Unused, Grows, moveVars, historyVars
<1>4. RowInv'
  <2>1. ASSUME NEW b \in Accounts, key'[b] # None PROVE key'[b] \in lookup'
    BY <1>0, <1>2, <2>1 DEF RowInv
  <2>2. ASSUME NEW b \in lookup' PROVE key'[b] = b
    BY <1>0, <1>1, <1>2, <2>2 DEF RowInv, TypeOK
  <2>3. ASSUME NEW b \in confirmed' PROVE key'[b] \in shown'
    BY <1>0, <1>1, <1>2, <2>3 DEF RowInv, TypeOK, historyVars
  <2> QED
    BY <2>1, <2>2, <2>3 DEF RowInv
<1>5. CodeInv'
  BY <1>0, <1>3 DEF CodeInv, Grows, moveVars, TypeOK, MaybeAccount
<1>6. LogoutLeavesAWayBack'
  BY <1>3, WayBackStays DEF historyVars
<1> QED
  BY <1>2, <1>3, <1>4, <1>5, <1>6

LEMMA RegisterKeeps ==
  ASSUME TypeOK, PhoneInv, NEW p \in Phones, NEW a \in Accounts, Register(p, a)
  PROVE  TypeOK' /\ PhoneInv'
<1> DEFINE f == [Home EXCEPT !.at = "registered", !.account = a, !.secret = a]
<1>1. f \in Flow /\ f.at = "registered" /\ f.account = a /\ f.secret = a
  BY DEF Home, Flow, Screens, MaybeAccount
<1>2. flow' = [flow EXCEPT ![p] = f] /\ flow' \in [Phones -> Flow]
  BY <1>1, FlowTyped DEF Register, Goes
<1>3. Grows /\ RowInv' /\ CodeInv' /\ LogoutLeavesAWayBack' /\ key'[a] = a
  BY RegisterGrows DEF Register, RegisterAtRelay
<1>4. TypeOK'
  <2>1. a \in MaybeAccount
    BY DEF MaybeAccount
  <2> QED
    BY <1>2, <2>1, RegisterTyped DEF Register, TypeOK, moveVars, phoneVars, historyVars
<1>5. PhoneOK(p)'
  <2>1. flow'[p] = f /\ reg'[p] = None /\ seed'[p] = seed[p] /\ born'[p] = born[p]
    BY <1>2 DEF Register, phoneVars, TypeOK
  <2>2. PhoneOK(p)
    BY DEF PhoneInv
  <2> QED
    BY <1>1, <1>3, <2>1, <2>2
    DEF Register, PhoneOK, RegInv, SeedInv, SetupInv, ScreenInv, moveVars, phoneVars
<1>6. \A q \in Phones \ {p} : SamePhone(q)
  BY <1>2 DEF Register, SamePhone, phoneVars, TypeOK
<1> QED
  BY <1>3, <1>4, <1>5, <1>6, StepFrame

LEMMA FetchKeeps ==
  ASSUME TypeOK, PhoneInv, NEW p \in Phones, NEW a \in Accounts, FetchVault(p, a)
  PROVE  TypeOK' /\ PhoneInv'
<1> DEFINE f == [Home EXCEPT !.at = "fetched", !.secret = key[a],
                             !.edits = vault[a], !.known = a \in confirmed]
<1>0. a \in lookup /\ key[a] = a /\ (a \in confirmed) \in BOOLEAN /\ vault[a] \in Nat
  BY DEF FetchVault, PhoneInv, RowInv, TypeOK
<1>1. f \in Flow /\ f.at = "fetched" /\ f.secret = a /\ (f.known => a \in shown)
  BY <1>0 DEF Home, Flow, Screens, MaybeAccount, FetchVault
<1>2. flow' = [flow EXCEPT ![p] = f] /\ flow' \in [Phones -> Flow]
  BY <1>1, FlowTyped DEF FetchVault, Goes
<1>3. Grows /\ RowInv' /\ CodeInv'
  BY RowsStay, CodesStay DEF PhoneInv, FetchVault, Grows, relayVars, moveVars, historyVars
<1>4. LogoutLeavesAWayBack'
  BY <1>3, WayBackStays DEF FetchVault, historyVars
<1>5. TypeOK'
  BY <1>2 DEF FetchVault, TypeOK, relayVars, moveVars, phoneVars, historyVars
<1>6. PhoneOK(p)'
  <2>1. flow'[p] = f /\ reg'[p] = None /\ seed'[p] = seed[p] /\ born'[p] = born[p]
    BY <1>2 DEF FetchVault, phoneVars, TypeOK
  <2>2. PhoneOK(p)
    BY DEF PhoneInv
  <2> QED
    BY <1>0, <1>1, <2>1, <2>2
    DEF FetchVault, PhoneOK, RegInv, SeedInv, SetupInv, ScreenInv, relayVars, moveVars,
        phoneVars, historyVars
<1>7. \A q \in Phones \ {p} : SamePhone(q)
  BY <1>2 DEF FetchVault, SamePhone, phoneVars, TypeOK
<1> QED
  BY <1>3, <1>4, <1>5, <1>6, <1>7, StepFrame

LEMMA RecoverKeeps ==
  ASSUME TypeOK, PhoneInv, NEW p \in Phones, NEW a \in Accounts, RegisterRecovered(p, a)
  PROVE  TypeOK' /\ PhoneInv'
<1> DEFINE f == [flow[p] EXCEPT !.at = "registered", !.account = a]
<1>0. /\ flow[p] \in Flow /\ flow[p].at = "fetched" /\ reg[p] = None
      /\ flow[p].secret \in lookup /\ flow[p].secret \in Accounts
      /\ flow[p].known = TRUE => flow[p].secret \in shown
      /\ flow[p].edits \in Nat /\ flow[p].known \in BOOLEAN
  BY DEF RegisterRecovered, At, PhoneInv, PhoneOK, SetupInv, TypeOK, Flow
<1>1. f \in Flow /\ f.at = "registered" /\ f.account = a /\ f.secret = flow[p].secret
  BY <1>0 DEF Flow, Screens, MaybeAccount
<1>2. flow' = [flow EXCEPT ![p] = f] /\ flow' \in [Phones -> Flow]
  BY <1>1, FlowTyped DEF RegisterRecovered, Goes
<1>r. /\ RegisterAtRelay(a, flow[p].secret, flow[p].edits, FALSE, flow[p].known)
      /\ UNCHANGED <<moveVars, phoneVars, historyVars>>
  BY DEF RegisterRecovered
<1>3. Grows /\ RowInv' /\ CodeInv' /\ LogoutLeavesAWayBack' /\ key'[a] = flow[p].secret
  BY <1>0, <1>r, RegisterGrows DEF RegisterAtRelay
<1>4. TypeOK'
  <2>1. flow[p].secret \in MaybeAccount
    BY <1>0 DEF MaybeAccount
  <2>2. /\ key' \in [Accounts -> MaybeAccount] /\ vault' \in [Accounts -> Nat]
        /\ lookup' \subseteq Accounts /\ confirmed' \subseteq Accounts
    BY <1>0, <1>r, <2>1, RegisterTyped
  <2> QED
    BY <1>2, <1>r, <2>2 DEF TypeOK, moveVars, phoneVars, historyVars
<1>5. PhoneOK(p)'
  <2>1. flow'[p] = f /\ reg'[p] = None /\ seed'[p] = seed[p] /\ born'[p] = born[p]
    BY <1>0, <1>2 DEF RegisterRecovered, phoneVars, TypeOK
  <2>2. PhoneOK(p)
    BY DEF PhoneInv
  <2> QED
    BY <1>0, <1>1, <1>3, <2>1, <2>2
    DEF RegisterRecovered, PhoneOK, RegInv, SeedInv, SetupInv, ScreenInv, moveVars, phoneVars
<1>6. \A q \in Phones \ {p} : SamePhone(q)
  BY <1>2 DEF RegisterRecovered, SamePhone, phoneVars, TypeOK
<1> QED
  BY <1>3, <1>4, <1>5, <1>6, StepFrame

\* The hardware key: p is unregistered, so no seed depends on what it wrapped.
LEMMA HardwareKeyKeeps ==
  ASSUME TypeOK, PhoneInv, NEW p \in Phones, GenerateHardwareKey(p) \/ WrapVaultKey(p)
  PROVE  TypeOK' /\ PhoneInv'
<1> DEFINE s == IF GenerateHardwareKey(p) THEN "keyed" ELSE "wrapped"
           f == [flow[p] EXCEPT !.at = s]
<1>0. /\ flow[p] \in Flow /\ flow[p].at \in {"registered", "keyed"} /\ PhoneOK(p)
      /\ None \notin Accounts
  BY NoneIsNoAccount DEF GenerateHardwareKey, WrapVaultKey, At, PhoneInv, TypeOK
<1>1. /\ f \in Flow /\ f.at = s /\ s \in {"keyed", "wrapped"}
      /\ f.account = flow[p].account /\ f.secret = flow[p].secret
  BY <1>0 DEF Flow, Screens
<1>2. flow' = [flow EXCEPT ![p] = f] /\ flow' \in [Phones -> Flow]
  <2>1. Goes(p, f)
    BY <1>0 DEF GenerateHardwareKey, WrapVaultKey, Enters, At
  <2> QED
    BY <1>1, <2>1, FlowTyped DEF Goes
<1>3. UNCHANGED <<relayVars, moveVars, reg, seed, born, historyVars>>
  BY DEF GenerateHardwareKey, WrapVaultKey
<1>4. holds' \in [Phones -> MaybeAccount] /\ \A q \in Phones \ {p} : holds'[q] = holds[q]
  BY <1>0 DEF GenerateHardwareKey, WrapVaultKey, TypeOK, MaybeAccount, Flow
<1>5. s = "wrapped" => holds'[p] = flow[p].secret
  BY DEF WrapVaultKey, GenerateHardwareKey, TypeOK
<1>6. Grows /\ RowInv' /\ CodeInv'
  BY <1>3, RowsStay, CodesStay DEF PhoneInv, Grows, relayVars, moveVars, historyVars
<1>7. LogoutLeavesAWayBack'
  BY <1>3, <1>6, WayBackStays DEF historyVars
<1>8. TypeOK'
  BY <1>2, <1>3, <1>4 DEF TypeOK, relayVars, moveVars, historyVars
<1>9. PhoneOK(p)'
  <2>1. flow'[p] = f /\ reg'[p] = reg[p] /\ seed'[p] = seed[p] /\ born'[p] = born[p]
    BY <1>2, <1>3 DEF TypeOK
  <2>2. reg[p] = None /\ seed[p] = None
    BY <1>0 DEF PhoneOK, SetupInv, SeedInv
  <2> QED
    BY <1>0, <1>1, <1>3, <1>5, <2>1, <2>2
    DEF PhoneOK, RegInv, SeedInv, SetupInv, ScreenInv, relayVars, moveVars
<1>10. \A q \in Phones \ {p} : SamePhone(q)
  BY <1>2, <1>3, <1>4 DEF SamePhone, TypeOK
<1> QED
  BY <1>6, <1>7, <1>8, <1>9, <1>10, StepFrame

LEMMA FinishKeeps ==
  ASSUME TypeOK, PhoneInv, NEW p \in Phones, FinishSetup(p)
  PROVE  TypeOK' /\ PhoneInv'
<1>0. /\ PhoneOK(p) /\ None \notin Accounts
      /\ flow[p].account \in Accounts /\ flow[p].secret \in Accounts
      /\ key[flow[p].account] = flow[p].secret /\ holds[p] = flow[p].secret
  BY NoneIsNoAccount DEF FinishSetup, At, PhoneInv, PhoneOK, SetupInv
<1>2. flow' = [flow EXCEPT ![p] = Home] /\ flow' \in [Phones -> Flow]
  BY HomeTyped, FlowTyped DEF FinishSetup, Goes
<1>3. Grows /\ RowInv' /\ CodeInv'
  BY RowsStay, CodesStay DEF FinishSetup, PhoneInv, Grows, relayVars, moveVars
<1>4. LogoutLeavesAWayBack'
  BY <1>3, WayBackStays DEF FinishSetup
<1>5. TypeOK'
  BY <1>0, <1>2 DEF FinishSetup, TypeOK, relayVars, moveVars, MaybeAccount
<1>6. PhoneOK(p)'
  <2>1. /\ flow'[p] = Home /\ reg'[p] = flow[p].account /\ seed'[p] = flow[p].secret
        /\ born'[p] = 0 /\ holds'[p] = holds[p] /\ key' = key
    BY <1>2 DEF FinishSetup, TypeOK, relayVars
  <2> QED
    BY <1>0, <2>1 DEF PhoneOK, RegInv, SeedInv, SetupInv, ScreenInv, Home
<1>7. \A q \in Phones \ {p} : SamePhone(q)
  BY <1>2 DEF FinishSetup, SamePhone, TypeOK
<1> QED
  BY <1>3, <1>4, <1>5, <1>6, <1>7, StepFrame

\* -------------------------------------------------------------------------
\* Steps that only go from one screen to another

LEMMA ScreenStep ==
  ASSUME TypeOK, PhoneInv, NEW p \in Phones, NEW f \in Flow, Goes(p, f),
         UNCHANGED <<relayVars, moveVars, phoneVars, stored, gone>>,
         shown \subseteq shown', shown' \subseteq Accounts,
         flow'[p] = f => SetupInv(p)' /\ ScreenInv(p)'
  PROVE  TypeOK' /\ PhoneInv'
<1>1. flow' = [flow EXCEPT ![p] = f] /\ flow' \in [Phones -> Flow] /\ flow'[p] = f
  BY FlowTyped DEF Goes, TypeOK
<1>2. Grows /\ RowInv' /\ CodeInv'
  BY RowsStay, CodesStay DEF PhoneInv, Grows, relayVars, moveVars
<1>3. LogoutLeavesAWayBack'
  BY <1>2, WayBackStays
<1>4. TypeOK'
  BY <1>1 DEF TypeOK, relayVars, moveVars, phoneVars
<1>5. PhoneOK(p)'
  <2>1. PhoneOK(p)
    BY DEF PhoneInv
  <2> QED
    BY <1>1, <2>1 DEF PhoneOK, RegInv, SeedInv, relayVars, moveVars, phoneVars
<1>6. \A q \in Phones \ {p} : SamePhone(q)
  BY <1>1 DEF SamePhone, phoneVars, TypeOK
<1> QED
  BY <1>2, <1>3, <1>4, <1>5, <1>6, StepFrame

LEMMA ScreensKeep ==
  ASSUME TypeOK, PhoneInv, NEW p \in Phones,
         \/ CheckMnemonicStatus(p) \/ ShowRecoveryPhrase(p) \/ VerifyWords(p)
         \/ AskLogOut(p) \/ PollConfirmed(p) \/ Abandon(p)
  PROVE  TypeOK' /\ PhoneInv'
<1>0. flow[p] \in Flow /\ PhoneOK(p) /\ shown \subseteq Accounts
  BY DEF PhoneInv, TypeOK
<1>1. CASE CheckMnemonicStatus(p)
  <2> DEFINE f == [flow[p] EXCEPT !.at = "offered"]
  <2>1. f \in Flow /\ f.at = "offered"
    BY <1>0 DEF Flow, Screens
  <2>2. flow'[p] = f => SetupInv(p)' /\ ScreenInv(p)'
    BY <1>1, <2>1 DEF CheckMnemonicStatus, SetupInv, ScreenInv, phoneVars
  <2> QED
    BY <1>0, <1>1, <2>1, <2>2, ScreenStep DEF CheckMnemonicStatus, Enters, historyVars
<1>2. CASE ShowRecoveryPhrase(p)
  <2> DEFINE f == [flow[p] EXCEPT !.at = "showing"]
  <2>1. f \in Flow /\ f.at = "showing"
    BY <1>0 DEF Flow, Screens
  <2>2. flow'[p] = f => SetupInv(p)' /\ ScreenInv(p)'
    BY <1>0, <1>2, <2>1
    DEF ShowRecoveryPhrase, At, PhoneOK, SetupInv, ScreenInv, phoneVars
  <2>3. shown' \subseteq Accounts /\ shown \subseteq shown'
    BY <1>0, <1>2 DEF ShowRecoveryPhrase, TypeOK, MaybeAccount
  <2> QED
    BY <1>2, <2>1, <2>2, <2>3, ScreenStep DEF ShowRecoveryPhrase, Enters
<1>3. CASE VerifyWords(p)
  <2> DEFINE f == [flow[p] EXCEPT !.at = "posting"]
  <2>1. f \in Flow /\ f.at = "posting"
    BY <1>0 DEF Flow, Screens
  <2>2. flow'[p] = f => SetupInv(p)' /\ ScreenInv(p)'
    BY <1>0, <1>3, <2>1
    DEF VerifyWords, At, PhoneOK, SetupInv, ScreenInv, phoneVars, historyVars
  <2> QED
    BY <1>0, <1>3, <2>1, <2>2, ScreenStep DEF VerifyWords, Enters, historyVars
<1>4. CASE AskLogOut(p)
  <2> DEFINE f == [flow[p] EXCEPT !.at = "leaving"]
  <2>1. f \in Flow /\ f.at = "leaving"
    BY <1>0 DEF Flow, Screens
  <2>2. flow'[p] = f => SetupInv(p)' /\ ScreenInv(p)'
    BY <1>4, <2>1 DEF AskLogOut, MayLogOut, SetupInv, ScreenInv, phoneVars, relayVars
  <2> QED
    BY <1>0, <1>4, <2>1, <2>2, ScreenStep DEF AskLogOut, Enters, historyVars
<1>5. CASE PollConfirmed(p)
  <2> DEFINE f == [flow[p] EXCEPT !.at = "moved"]
  <2>1. f \in Flow /\ f.at = "moved" /\ f.move = flow[p].move
    BY <1>0 DEF Flow, Screens
  <2>2. flow'[p] = f => SetupInv(p)' /\ ScreenInv(p)'
    BY <1>0, <1>5, <2>1
    DEF PollConfirmed, At, PhoneOK, SetupInv, ScreenInv, phoneVars, moveVars
  <2> QED
    BY <1>0, <1>5, <2>1, <2>2, ScreenStep DEF PollConfirmed, Enters, historyVars
<1>6. CASE Abandon(p)
  <2>1. flow'[p] = Home => SetupInv(p)' /\ ScreenInv(p)'
    BY DEF Home, SetupInv, ScreenInv
  <2> QED
    BY <1>0, <1>6, <2>1, HomeTyped, ScreenStep DEF Abandon, historyVars
<1> QED
  BY <1>1, <1>2, <1>3, <1>4, <1>5, <1>6

LEMMA ScanKeeps ==
  ASSUME TypeOK, PhoneInv, NEW p \in Phones, NEW m \in Moves, ScanMigration(p, m)
  PROVE  TypeOK' /\ PhoneInv'
<1> DEFINE f == [Home EXCEPT !.at = "importing", !.move = m]
<1>0. m \in Nat
  BY BoundsAssumption DEF Moves
<1>1. f \in Flow /\ f.at = "importing" /\ f.move = m
  BY <1>0 DEF Home, Flow, Screens, MaybeAccount
<1>2. codes[m] # None
  BY DEF ScanMigration, PhoneInv, CodeInv
<1>3. flow'[p] = f => SetupInv(p)' /\ ScreenInv(p)'
  BY <1>1, <1>2 DEF ScanMigration, SetupInv, ScreenInv, phoneVars, moveVars
<1>4. shown' \subseteq Accounts /\ shown \subseteq shown'
  BY DEF ScanMigration, historyVars, TypeOK
<1> QED
  BY <1>1, <1>3, <1>4, ScreenStep DEF ScanMigration, historyVars

\* -------------------------------------------------------------------------
\* Edits, the confirmation of the phrase, and the wipes

LEMMA SaveKeeps ==
  ASSUME TypeOK, PhoneInv, NEW p \in Phones, SaveEdit(p)
  PROVE  TypeOK' /\ PhoneInv'
<1>1. Grows /\ RowInv' /\ CodeInv'
  BY RowsStay, CodesStay DEF SaveEdit, PhoneInv, Grows, moveVars, historyVars
<1>2. LogoutLeavesAWayBack'
  BY <1>1, WayBackStays DEF SaveEdit, historyVars
<1>3. TypeOK'
  <2>1. reg[p] \in Accounts /\ vault[reg[p]] + 1 \in Nat
    BY DEF SaveEdit, TypeOK, MaybeAccount
  <2>2. vault' \in [Accounts -> Nat]
    BY <2>1 DEF SaveEdit, TypeOK
  <2> QED
    BY <2>2 DEF SaveEdit, TypeOK, moveVars, phoneVars, historyVars
<1>4. \A q \in Phones : SamePhone(q)
  BY DEF SaveEdit, SamePhone, phoneVars
<1>5. PhoneOK(p)'
  BY <1>1, <1>4, SamePhoneKeeps
<1> QED
  BY <1>1, <1>2, <1>3, <1>4, <1>5, StepFrame

LEMMA ConfirmKeeps ==
  ASSUME TypeOK, PhoneInv, NEW p \in Phones, ConfirmMnemonic(p)
  PROVE  TypeOK' /\ PhoneInv'
<1>0. /\ PhoneOK(p) /\ reg[p] \in Accounts /\ key[reg[p]] = seed[p] /\ seed[p] \in shown
  BY DEF ConfirmMnemonic, At, PhoneInv, PhoneOK, SeedInv, ScreenInv, TypeOK, MaybeAccount
<1>1. flow' = [flow EXCEPT ![p] = Home] /\ flow' \in [Phones -> Flow]
  BY HomeTyped, FlowTyped DEF ConfirmMnemonic, Goes
<1>2. RowInv'
  BY <1>0 DEF ConfirmMnemonic, PhoneInv, RowInv, historyVars
<1>3. CodeInv' /\ Grows
  BY CodesStay DEF ConfirmMnemonic, PhoneInv, Grows, moveVars, historyVars
<1>4. LogoutLeavesAWayBack'
  BY <1>3, WayBackStays DEF ConfirmMnemonic, historyVars
<1>5. TypeOK'
  BY <1>0, <1>1 DEF ConfirmMnemonic, TypeOK, moveVars, phoneVars, historyVars
<1>6. PhoneOK(p)'
  <2>1. flow'[p] = Home
    BY <1>1 DEF TypeOK
  <2> QED
    BY <1>0, <2>1
    DEF ConfirmMnemonic, PhoneOK, RegInv, SeedInv, SetupInv, ScreenInv, Home, moveVars, phoneVars
<1>7. \A q \in Phones \ {p} : SamePhone(q)
  BY <1>1 DEF ConfirmMnemonic, SamePhone, phoneVars, TypeOK
<1> QED
  BY <1>2, <1>3, <1>4, <1>5, <1>6, <1>7, StepFrame

LEMMA WipeKeeps ==
  ASSUME TypeOK, PhoneInv, NEW p \in Phones, reg[p] # None,
         LogOut(p) \/ Rejected(p) \/ WipeMoved(p)
  PROVE  TypeOK' /\ PhoneInv'
<1>0. reg[p] \in Accounts /\ key[reg[p]] # None /\ PhoneOK(p)
  BY DEF PhoneInv, PhoneOK, RegInv, TypeOK, MaybeAccount
<1>1. /\ Wipe(p) /\ UNCHANGED <<relayVars, moveVars, stored, shown>>
      /\ gone' \subseteq gone \cup {<<reg[p], "logout">>, <<reg[p], "rejected">>}
      /\ <<reg[p], "logout">> \in gone' => <<reg[p], "logout">> \in gone \/ LogOut(p)
  BY DEF LogOut, Rejected, WipeMoved, historyVars
<1>2. Grows /\ RowInv' /\ CodeInv'
  BY <1>1, RowsStay, CodesStay DEF PhoneInv, Grows, relayVars, moveVars
<1>3. LogoutLeavesAWayBack'
  <2>1. CASE LogOut(p)
    <3>1. key[reg[p]] \in shown /\ key[reg[p]] \in lookup /\ key[key[reg[p]]] = key[reg[p]]
      BY <1>0, <2>1 DEF LogOut, At, PhoneOK, ScreenInv, PhoneInv, RowInv
    <3>2. ASSUME NEW a \in Accounts, <<a, "logout">> \in gone'
          PROVE  key[a] \in shown /\ \E b \in lookup : key[b] = key[a]
      <4>1. CASE a = reg[p]
        BY <3>1, <4>1
      <4>2. CASE a # reg[p]
        BY <1>1, <3>2, <4>2 DEF PhoneInv, LogoutLeavesAWayBack
      <4> QED
        BY <4>1, <4>2
    <3> QED
      BY <1>1, <3>2 DEF LogoutLeavesAWayBack, relayVars
  <2>2. CASE ~LogOut(p)
    BY <1>1, <1>2, <2>2, WayBackStays
  <2> QED
    BY <2>1, <2>2
<1>4. TypeOK'
  BY <1>0, <1>1, WipeTyped DEF TypeOK, relayVars, moveVars
<1>5. flow'[p] = Home /\ reg'[p] = None /\ seed'[p] = None /\ born'[p] = 0
  BY <1>1 DEF Wipe, Goes, TypeOK
<1>6. PhoneOK(p)'
  BY <1>5 DEF PhoneOK, RegInv, SeedInv, SetupInv, ScreenInv, Home
<1>7. \A q \in Phones \ {p} : SamePhone(q)
  BY <1>1 DEF Wipe, Goes, SamePhone, TypeOK
<1> QED
  BY <1>2, <1>3, <1>4, <1>6, <1>7, StepFrame

\* -------------------------------------------------------------------------
\* Moves

LEMMA ExportKeeps ==
  ASSUME TypeOK, PhoneInv, NEW p \in Phones, NEW m \in Moves, ShowMigrationExport(p, m)
  PROVE  TypeOK' /\ PhoneInv'
<1> DEFINE f == [Home EXCEPT !.at = "exporting", !.move = m]
<1>0. /\ PhoneOK(p) /\ reg[p] \in Accounts /\ key[reg[p]] # None /\ codes[m] = None
      /\ CodeInv /\ None \notin Accounts /\ m \in Nat
  BY BoundsAssumption, NoneIsNoAccount
  DEF ShowMigrationExport, UnusedMove, PhoneInv, PhoneOK, RegInv, TypeOK, MaybeAccount, Moves
<1>1. f \in Flow /\ f.at = "exporting" /\ f.move = m
  BY <1>0 DEF Home, Flow, Screens, MaybeAccount
<1>2. flow' = [flow EXCEPT ![p] = f] /\ flow' \in [Phones -> Flow]
  BY <1>1, FlowTyped DEF ShowMigrationExport, Goes
<1>3. codes' \in [Moves -> MaybeAccount] /\ codes'[m] = reg[p]
      /\ \A n \in Moves : n # m => codes'[n] = codes[n]
  BY <1>0 DEF ShowMigrationExport, TypeOK, MaybeAccount
<1>4. Grows /\ RowInv'
  BY <1>0, <1>3, RowsStay DEF ShowMigrationExport, PhoneInv, Grows, relayVars, historyVars
<1>5. CodeInv'
  <2>1. ASSUME NEW n \in Moves, NEW k \in Moves, k < n, codes'[n] # None
        PROVE  codes'[k] # None
    <3>1. CASE n = m
      BY <1>0, <1>3, <2>1, <3>1 DEF ShowMigrationExport, UnusedMove
    <3>2. CASE n # m
      BY <1>0, <1>3, <2>1, <3>2 DEF CodeInv
    <3> QED
      BY <3>1, <3>2
  <2>2. ASSUME NEW n \in Moves, codes'[n] # None PROVE key'[codes'[n]] # None
    BY <1>0, <1>3, <2>2 DEF CodeInv, ShowMigrationExport, relayVars
  <2>3. ASSUME NEW n \in live' \cup posts' \cup flags' PROVE codes'[n] # None
    BY <1>0, <1>3, <2>3 DEF CodeInv, ShowMigrationExport, TypeOK
  <2> QED
    BY <2>1, <2>2, <2>3 DEF CodeInv
<1>6. LogoutLeavesAWayBack'
  BY <1>4, WayBackStays DEF ShowMigrationExport, historyVars
<1>7. TypeOK'
  BY <1>2, <1>3 DEF ShowMigrationExport, TypeOK, relayVars, phoneVars, historyVars
<1>8. born[p] < m
  <2>0. born[p] \in Nat
    BY DEF TypeOK
  <2>1. born[p] # 0 => born[p] \in Moves /\ codes[born[p]] # None
    BY <1>0 DEF PhoneOK, RegInv
  <2>2. born[p] # 0 => ~(m < born[p]) /\ born[p] # m
    BY <1>0, <2>1 DEF CodeInv
  <2>3. m \in Nat /\ 0 < m
    BY BoundsAssumption DEF Moves
  <2> QED
    BY <2>0, <2>2, <2>3
<1>9. PhoneOK(p)'
  <2>1. flow'[p] = f /\ UNCHANGED <<reg, seed, holds, born, key>>
    BY <1>2 DEF ShowMigrationExport, TypeOK, relayVars, phoneVars
  <2>2. RegInv(p)' /\ SeedInv(p)'
    BY <1>0, <1>3, <2>1 DEF PhoneOK, RegInv, SeedInv
  <2>3. SetupInv(p)' /\ ScreenInv(p)'
    BY <1>0, <1>1, <1>3, <1>8, <2>1 DEF SetupInv, ScreenInv
  <2> QED
    BY <2>2, <2>3 DEF PhoneOK
<1>10. \A q \in Phones \ {p} : SamePhone(q)
  BY <1>2 DEF ShowMigrationExport, SamePhone, phoneVars, TypeOK
<1> QED
  BY <1>4, <1>5, <1>6, <1>7, <1>9, <1>10, StepFrame

LEMMA ImportKeeps ==
  ASSUME TypeOK, PhoneInv, NEW p \in Phones, ImportRegistration(p)
  PROVE  TypeOK' /\ PhoneInv'
<1> DEFINE m == flow[p].move
<1>0. /\ PhoneOK(p) /\ m \in Moves /\ m \in Nat /\ codes[m] # None /\ key[codes[m]] # None
      /\ seed[p] = None
  BY BoundsAssumption
  DEF ImportRegistration, At, PhoneInv, PhoneOK, ScreenInv, SeedInv, CodeInv, Moves
<1>1. flow' = [flow EXCEPT ![p] = Home] /\ flow' \in [Phones -> Flow]
  BY HomeTyped, FlowTyped DEF ImportRegistration, Goes
<1>2. Grows /\ RowInv'
  BY RowsStay DEF ImportRegistration, PhoneInv, Grows, relayVars, historyVars
<1>3. CodeInv'
  BY <1>0 DEF ImportRegistration, PhoneInv, CodeInv, relayVars
<1>4. LogoutLeavesAWayBack'
  BY <1>2, WayBackStays DEF ImportRegistration, historyVars
<1>5. TypeOK'
  BY <1>0, <1>1 DEF ImportRegistration, TypeOK, relayVars, historyVars
<1>6. PhoneOK(p)'
  <2>1. flow'[p] = Home /\ reg'[p] = codes[m] /\ born'[p] = m /\ UNCHANGED <<seed, codes, key>>
    BY <1>1 DEF ImportRegistration, TypeOK, relayVars
  <2> QED
    BY <1>0, <2>1 DEF PhoneOK, RegInv, SeedInv, SetupInv, ScreenInv, Home
<1>7. \A q \in Phones \ {p} : SamePhone(q)
  BY <1>1 DEF ImportRegistration, SamePhone, TypeOK
<1> QED
  BY <1>2, <1>3, <1>4, <1>5, <1>6, <1>7, StepFrame

LEMMA MovesKeep ==
  ASSUME TypeOK, PhoneInv, NEW m \in Moves, MoveNext(m)
  PROVE  TypeOK' /\ PhoneInv'
<1>1. /\ UNCHANGED <<relayVars, codes, phoneVars, historyVars, flow>>
      /\ live' \subseteq live /\ posts' \subseteq posts /\ flags' \subseteq flags \cup posts
  BY DEF MoveNext, CodeExpires, ConfirmMigration, LoseConfirmation, FlagExpires
<1>2. Grows /\ RowInv' /\ CodeInv'
  BY <1>1, RowsStay, CodesStay DEF PhoneInv, Grows, relayVars, historyVars
<1>3. LogoutLeavesAWayBack'
  BY <1>1, <1>2, WayBackStays DEF historyVars
<1>4. TypeOK'
  BY <1>1 DEF TypeOK, relayVars, phoneVars, historyVars
<1>5. \A q \in Phones : PhoneOK(q)'
  BY <1>1, <1>2, SamePhoneKeeps DEF SamePhone, phoneVars
<1> QED
  BY <1>2, <1>3, <1>4, <1>5 DEF PhoneInv

\* -------------------------------------------------------------------------

LEMMA InitInv == Init => PhoneInv
  BY DEF Init, Home, PhoneInv, RowInv, CodeInv, PhoneOK, RegInv, SeedInv, SetupInv, ScreenInv,
         LogoutLeavesAWayBack

LEMMA StepKeepsInv == TypeOK /\ PhoneInv /\ [Next]_vars => TypeOK' /\ PhoneInv'
<1> SUFFICES ASSUME TypeOK, PhoneInv, [Next]_vars PROVE TypeOK' /\ PhoneInv'
  OBVIOUS
<1>1. ASSUME NEW p \in Phones, PhoneNext(p) PROVE TypeOK' /\ PhoneInv'
  <2>1. ASSUME NEW a \in Accounts,
               Register(p, a) \/ FetchVault(p, a) \/ RegisterRecovered(p, a)
        PROVE  TypeOK' /\ PhoneInv'
    BY <2>1, RegisterKeeps, FetchKeeps, RecoverKeeps
  <2>2. ASSUME GenerateHardwareKey(p) \/ WrapVaultKey(p) \/ FinishSetup(p) \/ SaveEdit(p)
        PROVE  TypeOK' /\ PhoneInv'
    BY <2>2, HardwareKeyKeeps, FinishKeeps, SaveKeeps
  <2>3. ASSUME \/ CheckMnemonicStatus(p) \/ ShowRecoveryPhrase(p) \/ VerifyWords(p)
               \/ AskLogOut(p) \/ PollConfirmed(p) \/ Abandon(p) \/ ConfirmMnemonic(p)
        PROVE  TypeOK' /\ PhoneInv'
    BY <2>3, ScreensKeep, ConfirmKeeps
  <2>4. ASSUME LogOut(p) \/ Rejected(p) \/ WipeMoved(p)
        PROVE  TypeOK' /\ PhoneInv'
    <3>1. reg[p] # None
      BY <2>4 DEF LogOut, Rejected, WipeMoved, At, PhoneInv, PhoneOK, ScreenInv
    <3> QED
      BY <2>4, <3>1, WipeKeeps
  <2>5. ASSUME NEW m \in Moves, ShowMigrationExport(p, m) \/ ScanMigration(p, m)
        PROVE  TypeOK' /\ PhoneInv'
    BY <2>5, ExportKeeps, ScanKeeps
  <2>6. CASE ImportRegistration(p)
    BY <2>6, ImportKeeps
  <2> QED
    BY <1>1, <2>1, <2>2, <2>3, <2>4, <2>5, <2>6 DEF PhoneNext
<1>2. ASSUME NEW m \in Moves, MoveNext(m) PROVE TypeOK' /\ PhoneInv'
  BY <1>2, MovesKeep
<1>3. CASE UNCHANGED vars
  <2>1. UNCHANGED <<relayVars, moveVars, phoneVars, historyVars, flow>>
    BY <1>3 DEF vars
  <2>2. TypeOK'
    BY <2>1 DEF TypeOK, relayVars, moveVars, phoneVars, historyVars
  <2> QED
    BY <2>1, <2>2
    DEF relayVars, moveVars, phoneVars, historyVars, PhoneInv, RowInv, CodeInv, PhoneOK,
        RegInv, SeedInv, SetupInv, ScreenInv, LogoutLeavesAWayBack
<1> QED
  BY <1>1, <1>2, <1>3 DEF Next

LEMMA PhoneInvariant == Spec => [](TypeOK /\ PhoneInv)
  BY InitTyped, InitInv, StepKeepsInv, PTL DEF Spec

\* The variables keep their types: no account without an id is confirmed, moved or
\* given up, which rests on what every screen relies on.
THEOREM TypeCorrect == Spec => []TypeOK
  BY PhoneInvariant, PTL

\* A phone that keeps a phrase can open its account's vault with the key of that
\* phrase, wherever a set-up, recovery, import or wipe was interrupted.
THEOREM StoredKeysOpenVaults == Spec => []StoredKeyOpensVault
<1>1. PhoneInv => StoredKeyOpensVault
  BY DEF PhoneInv, PhoneOK, SeedInv, StoredKeyOpensVault
<1> QED
  BY <1>1, PhoneInvariant, PTL

\* Nobody can log out of an account whose phrase was never shown, and the phrase
\* finds a row at the relay.
THEOREM LogoutIsSafe == Spec => []LogoutLeavesAWayBack
<1>1. PhoneInv => LogoutLeavesAWayBack
  BY DEF PhoneInv
<1> QED
  BY <1>1, PhoneInvariant, PTL

\* -------------------------------------------------------------------------
\* Moves: the second invariant

\* What Moved says of code m after a step.
StaysMoved(m) ==
    \/ \E why \in {"logout", "rejected"} : <<codes'[m], why>> \in gone'
    \/ \E q \in Phones : reg'[q] = codes'[m] /\ born'[q] >= m

\* Some phone is still registered for a, or a was given up.
StaysHeld(a) ==
    \/ \E why \in {"logout", "rejected"} : <<a, why>> \in gone'
    \/ \E q \in Phones : reg'[q] = a

\* What a step owes to the second invariant: what was moved stays moved, what is
\* newly confirmed was moved, and what was held stays held.
LEMMA MoveFrame ==
  ASSUME TypeOK, PhoneInv, MoveInv,
         \A m \in Moves : codes[m] # None /\ Moved(m) => StaysMoved(m),
         \A m \in flags' \cup posts' : m \in flags \cup posts \/ StaysMoved(m),
         \A q \in Phones : flow'[q].at = "moved" =>
             flow'[q] = flow[q] \/ flow'[q].move \in flags,
         \A a \in stored' : StaysHeld(a)
  PROVE  MoveInv'
<1>1. \A m \in flags \cup posts : m \in Moves /\ StaysMoved(m)
  BY DEF MoveInv, PhoneInv, CodeInv, TypeOK
<1>2. \A m \in flags' \cup posts' : StaysMoved(m)
  BY <1>1
<1>3. ASSUME NEW q \in Phones, flow'[q].at = "moved" PROVE StaysMoved(flow'[q].move)
  <2>1. CASE flow'[q] = flow[q]
    <3>1. flow[q].move \in Moves /\ codes[flow[q].move] # None /\ Moved(flow[q].move)
      BY <1>3, <2>1 DEF MoveInv, PhoneInv, PhoneOK, ScreenInv, At
    <3> QED
      BY <2>1, <3>1
  <2>2. CASE flow'[q].move \in flags
    BY <1>1, <2>2
  <2> QED
    BY <1>3, <2>1, <2>2
<1> QED
  BY <1>2, <1>3 DEF MoveInv, Moved, StaysMoved, StaysHeld, GaveUp, At, RegistrationSurvivesMoving

\* A registered phone that is not wiped keeps its registration and where it came from.
Keeps(q) == reg[q] # None => reg'[q] = reg[q] /\ born'[q] = born[q]

\* If no phone is wiped, what was moved stays moved and what was held stays held.
LEMMA NothingWiped ==
  ASSUME TypeOK, gone \subseteq gone',
         \A m \in Moves : codes[m] # None => codes'[m] = codes[m],
         \A q \in Phones : Keeps(q)
  PROVE  /\ \A m \in Moves : codes[m] # None /\ Moved(m) => StaysMoved(m)
         /\ RegistrationSurvivesMoving => \A a \in stored : StaysHeld(a)
<1>1. None \notin stored
  BY NoneIsNoAccount DEF TypeOK
<1>2. ASSUME NEW m \in Moves, codes[m] # None, Moved(m) PROVE StaysMoved(m)
  BY <1>2 DEF Moved, StaysMoved, GaveUp, Keeps
<1>3. ASSUME RegistrationSurvivesMoving, NEW a \in stored PROVE StaysHeld(a)
  BY <1>1, <1>3 DEF RegistrationSurvivesMoving, StaysHeld, GaveUp, Keeps
<1> QED
  BY <1>2, <1>3

\* A wipe of p that leaves account reg[p] given up or on another phone, which got it
\* by a code no older than p's.
LEMMA WipeFrame ==
  ASSUME TypeOK, PhoneInv, MoveInv, NEW p \in Phones, reg[p] # None, Wipe(p),
         gone \subseteq gone', UNCHANGED <<codes, flags, posts, stored>>,
         \/ \E why \in {"logout", "rejected"} : <<reg[p], why>> \in gone'
         \/ \E q \in Phones \ {p} : reg[q] = reg[p] /\ born[q] >= born[p]
  PROVE  MoveInv'
<1>1. /\ \A q \in Phones \ {p} : reg'[q] = reg[q] /\ born'[q] = born[q] /\ flow'[q] = flow[q]
      /\ flow'[p] = Home
  BY DEF Wipe, Goes, TypeOK
<1>2. \A q \in Phones : born[q] \in Nat
  BY DEF TypeOK
<1>3. ASSUME NEW m \in Moves, codes[m] # None, Moved(m) PROVE StaysMoved(m)
  <2>1. CASE GaveUp(codes[m])
    BY <2>1 DEF GaveUp, StaysMoved
  <2>2. CASE \E q \in Phones \ {p} : reg[q] = codes[m] /\ born[q] >= m
    BY <1>1, <2>2 DEF StaysMoved
  <2>3. CASE reg[p] = codes[m] /\ born[p] >= m
    <3>1. CASE \E why \in {"logout", "rejected"} : <<reg[p], why>> \in gone'
      BY <2>3, <3>1 DEF StaysMoved
    <3>2. CASE \E q \in Phones \ {p} : reg[q] = reg[p] /\ born[q] >= born[p]
      <4>1. PICK q \in Phones \ {p} : reg[q] = reg[p] /\ born[q] >= born[p]
        BY <3>2
      <4>2. m \in Nat
        BY BoundsAssumption DEF Moves
      <4>3. reg'[q] = codes'[m] /\ born'[q] >= m
        BY <1>1, <1>2, <2>3, <4>1, <4>2
      <4> QED
        BY <4>1, <4>3 DEF StaysMoved
    <3> QED
      BY <3>1, <3>2
  <2> QED
    BY <1>3, <2>1, <2>2, <2>3 DEF Moved
<1>4. ASSUME NEW a \in stored' PROVE StaysHeld(a)
  <2>1. GaveUp(a) \/ \E q \in Phones : reg[q] = a
    BY DEF MoveInv, RegistrationSurvivesMoving
  <2> QED
    BY <1>1, <2>1 DEF GaveUp, StaysHeld
<1>5. \A q \in Phones : flow'[q].at = "moved" => flow'[q] = flow[q]
  BY <1>1 DEF Home
<1> QED
  BY <1>3, <1>4, <1>5, MoveFrame

\* Logging out and being rejected give the account up; the wipe after a move leaves it
\* on a phone that got it by this code or a later one, so not on p alone.
LEMMA WipesKeepMoves ==
  ASSUME TypeOK, PhoneInv, MoveInv, NEW p \in Phones, LogOut(p) \/ Rejected(p) \/ WipeMoved(p)
  PROVE  MoveInv'
<1>1. reg[p] # None /\ Wipe(p) /\ gone \subseteq gone' /\ UNCHANGED <<codes, flags, posts, stored>>
  BY DEF LogOut, Rejected, WipeMoved, At, PhoneInv, PhoneOK, ScreenInv, moveVars, historyVars
<1>2. CASE LogOut(p) \/ Rejected(p)
  <2>1. \E why \in {"logout", "rejected"} : <<reg[p], why>> \in gone'
    BY <1>2 DEF LogOut, Rejected
  <2> QED
    BY <1>1, <2>1, WipeFrame
<1>3. CASE WipeMoved(p)
  <2> DEFINE m == flow[p].move
  <2>1. /\ m \in Moves /\ codes[m] = reg[p] /\ born[p] < m /\ Moved(m)
    BY <1>3 DEF WipeMoved, At, PhoneInv, PhoneOK, ScreenInv, MoveInv
  <2>2. m \in Nat /\ \A q \in Phones : born[q] \in Nat
    BY <2>1, BoundsAssumption DEF Moves, TypeOK
  <2>3. CASE GaveUp(reg[p])
    <3>1. \E why \in {"logout", "rejected"} : <<reg[p], why>> \in gone'
      BY <1>1, <2>3 DEF GaveUp
    <3> QED
      BY <1>1, <3>1, WipeFrame
  <2>4. CASE \E q \in Phones : reg[q] = reg[p] /\ born[q] >= m
    <3>1. PICK q \in Phones : reg[q] = reg[p] /\ born[q] >= m
      BY <2>4
    <3>2. q # p /\ born[q] >= born[p]
      BY <2>1, <2>2, <3>1
    <3>3. \E r \in Phones \ {p} : reg[r] = reg[p] /\ born[r] >= born[p]
      BY <3>1, <3>2
    <3> QED
      BY <1>1, <3>3, WipeFrame
  <2> QED
    BY <2>1, <2>3, <2>4 DEF Moved
<1> QED
  BY <1>2, <1>3

\* An import: the phone that scanned code m now holds its account, and says so.
LEMMA ImportKeepsMoves ==
  ASSUME TypeOK, PhoneInv, MoveInv, NEW p \in Phones, ImportRegistration(p)
  PROVE  MoveInv'
<1> DEFINE m == flow[p].move
<1>1. reg[p] = None /\ m \in Moves /\ m \in Nat
  BY BoundsAssumption DEF ImportRegistration, At, PhoneInv, PhoneOK, ScreenInv, Moves
<1>2. reg'[p] = codes[m] /\ born'[p] = m /\ flow'[p] = Home
  BY DEF ImportRegistration, Goes, TypeOK
<1>3. \A q \in Phones \ {p} : reg'[q] = reg[q] /\ born'[q] = born[q] /\ flow'[q] = flow[q]
  BY DEF ImportRegistration, Goes, TypeOK
<1>4. \A q \in Phones : Keeps(q)
  BY <1>1, <1>3 DEF Keeps
<1>5. flags' = flags /\ posts' = posts \cup {m} /\ UNCHANGED <<codes, stored, gone>>
  BY DEF ImportRegistration, historyVars
<1>6. StaysMoved(m)
  BY <1>1, <1>2, <1>5 DEF StaysMoved
<1>7. /\ \A n \in Moves : codes[n] # None /\ Moved(n) => StaysMoved(n)
      /\ \A a \in stored' : StaysHeld(a)
  BY <1>4, <1>5, NothingWiped DEF MoveInv
<1>8. \A q \in Phones : flow'[q].at = "moved" => flow'[q] = flow[q]
  BY <1>2, <1>3 DEF Home
<1> QED
  BY <1>5, <1>6, <1>7, <1>8, MoveFrame

\* A step that wipes and imports nothing, and puts no new phone in "moved".
LEMMA OthersKeepMoves ==
  ASSUME TypeOK, PhoneInv, MoveInv, gone' = gone, stored' = stored,
         \A m \in Moves : codes[m] # None => codes'[m] = codes[m],
         \A q \in Phones : Keeps(q),
         flags' \cup posts' \subseteq flags \cup posts,
         \A q \in Phones : flow'[q].at = "moved" =>
             flow'[q] = flow[q] \/ flow'[q].move \in flags
  PROVE  MoveInv'
<1>1. /\ \A m \in Moves : codes[m] # None /\ Moved(m) => StaysMoved(m)
      /\ \A a \in stored' : StaysHeld(a)
  BY NothingWiped DEF MoveInv
<1> QED
  BY <1>1, MoveFrame

\* A screen that phone p goes to, other than "moved".
LEMMA GoesElsewhere ==
  ASSUME TypeOK, NEW p \in Phones, NEW f, Goes(p, f), f.at # "moved"
  PROVE  \A q \in Phones : flow'[q].at = "moved" => flow'[q] = flow[q]
  BY DEF Goes, TypeOK

LEMMA EntersElsewhere ==
  ASSUME TypeOK, NEW p \in Phones, NEW s, Enters(p, s), s # "moved"
  PROVE  \A q \in Phones : flow'[q].at = "moved" => flow'[q] = flow[q]
<1>1. [flow[p] EXCEPT !.at = s].at = s
  BY DEF TypeOK, Flow
<1> QED
  BY <1>1, GoesElsewhere DEF Enters

\* Set-up ends on a phone that was not registered.
LEMMA FinishKeepsMoves ==
  ASSUME TypeOK, PhoneInv, MoveInv, NEW p \in Phones, FinishSetup(p)
  PROVE  MoveInv'
<1>1. reg[p] = None /\ reg'[p] = flow[p].account
  BY DEF FinishSetup, At, PhoneInv, PhoneOK, SetupInv, TypeOK
<1>2. \A q \in Phones : Keeps(q)
  BY <1>1 DEF FinishSetup, Keeps, TypeOK
<1>3. UNCHANGED <<codes, flags, posts, gone>> /\ stored' = stored \cup {flow[p].account}
  BY DEF FinishSetup, moveVars
<1>4. /\ \A m \in Moves : codes[m] # None /\ Moved(m) => StaysMoved(m)
      /\ \A a \in stored : StaysHeld(a)
  BY <1>2, <1>3, NothingWiped DEF MoveInv
<1>5. StaysHeld(flow[p].account)
  BY <1>1 DEF StaysHeld
<1>6. \A q \in Phones : flow'[q].at = "moved" => flow'[q] = flow[q]
  BY GoesElsewhere DEF FinishSetup, Home
<1> QED
  BY <1>3, <1>4, <1>5, <1>6, MoveFrame

LEMMA StepKeepsMoves == TypeOK /\ PhoneInv /\ MoveInv /\ [Next]_vars => MoveInv'
<1> SUFFICES ASSUME TypeOK, PhoneInv, MoveInv, [Next]_vars PROVE MoveInv'
  OBVIOUS
<1>0. \A q \in Phones : UNCHANGED phoneVars => Keeps(q)
  BY DEF phoneVars, Keeps
<1>1. ASSUME NEW p \in Phones, PhoneNext(p) PROVE MoveInv'
  <2>1. ASSUME NEW a \in Accounts,
               Register(p, a) \/ FetchVault(p, a) \/ RegisterRecovered(p, a)
        PROVE  MoveInv'
    <3>1. \A q \in Phones : flow'[q].at = "moved" => flow'[q] = flow[q]
      <4>1. CASE Register(p, a)
        BY <4>1, GoesElsewhere DEF Register, Home
      <4>2. CASE FetchVault(p, a)
        BY <4>2, GoesElsewhere DEF FetchVault, Home
      <4>3. CASE RegisterRecovered(p, a)
        <5>1. [flow[p] EXCEPT !.at = "registered", !.account = a].at = "registered"
          BY DEF TypeOK, Flow
        <5> QED
          BY <4>3, <5>1, GoesElsewhere DEF RegisterRecovered
      <4> QED
        BY <2>1, <4>1, <4>2, <4>3
    <3>2. UNCHANGED <<moveVars, phoneVars, historyVars>>
      BY <2>1 DEF Register, FetchVault, RegisterRecovered
    <3> QED
      BY <1>0, <3>1, <3>2, OthersKeepMoves DEF moveVars, historyVars
  <2>2. ASSUME GenerateHardwareKey(p) \/ WrapVaultKey(p) PROVE MoveInv'
    <3>1. \A q \in Phones : flow'[q].at = "moved" => flow'[q] = flow[q]
      BY <2>2, EntersElsewhere DEF GenerateHardwareKey, WrapVaultKey
    <3>2. UNCHANGED <<moveVars, reg, born, historyVars>>
      BY <2>2 DEF GenerateHardwareKey, WrapVaultKey
    <3> QED
      BY <3>1, <3>2, OthersKeepMoves DEF Keeps, moveVars, historyVars
  <2>3. ASSUME \/ CheckMnemonicStatus(p) \/ ShowRecoveryPhrase(p) \/ VerifyWords(p)
               \/ AskLogOut(p) \/ Abandon(p) \/ ConfirmMnemonic(p) \/ SaveEdit(p)
        PROVE  MoveInv'
    <3>1. \A q \in Phones : flow'[q].at = "moved" => flow'[q] = flow[q]
      <4>1. CASE CheckMnemonicStatus(p) \/ ShowRecoveryPhrase(p) \/ VerifyWords(p) \/ AskLogOut(p)
        BY <4>1, EntersElsewhere DEF CheckMnemonicStatus, ShowRecoveryPhrase, VerifyWords, AskLogOut
      <4>2. CASE Abandon(p) \/ ConfirmMnemonic(p)
        BY <4>2, GoesElsewhere DEF Abandon, ConfirmMnemonic, Home
      <4>3. CASE SaveEdit(p)
        BY <4>3 DEF SaveEdit
      <4> QED
        BY <2>3, <4>1, <4>2, <4>3
    <3>2. UNCHANGED <<moveVars, phoneVars, stored, gone>>
      BY <2>3 DEF CheckMnemonicStatus, ShowRecoveryPhrase, VerifyWords, AskLogOut, Abandon,
                  ConfirmMnemonic, SaveEdit, historyVars
    <3> QED
      BY <1>0, <3>1, <3>2, OthersKeepMoves DEF moveVars
  <2>4. CASE FinishSetup(p)
    BY <2>4, FinishKeepsMoves
  <2>5. ASSUME LogOut(p) \/ Rejected(p) \/ WipeMoved(p) PROVE MoveInv'
    BY <2>5, WipesKeepMoves
  <2>6. ASSUME NEW m \in Moves, ShowMigrationExport(p, m) \/ ScanMigration(p, m) PROVE MoveInv'
    <3>1. \A q \in Phones : flow'[q].at = "moved" => flow'[q] = flow[q]
      BY <2>6, GoesElsewhere DEF ShowMigrationExport, ScanMigration, Home
    <3>2. UNCHANGED <<phoneVars, flags, posts, historyVars>>
      BY <2>6 DEF ShowMigrationExport, ScanMigration, moveVars
    <3>3. \A n \in Moves : codes[n] # None => codes'[n] = codes[n]
      BY <2>6 DEF ShowMigrationExport, ScanMigration, UnusedMove, moveVars, TypeOK
    <3> QED
      BY <1>0, <3>1, <3>2, <3>3, OthersKeepMoves DEF historyVars
  <2>7. CASE ImportRegistration(p)
    BY <2>7, ImportKeepsMoves
  <2>8. CASE PollConfirmed(p)
    <3>1. \A q \in Phones : flow'[q].at = "moved" =>
              flow'[q] = flow[q] \/ flow'[q].move \in flags
      <4>1. [flow[p] EXCEPT !.at = "moved"].move = flow[p].move
        BY DEF TypeOK, Flow
      <4>2. flow'[p].move = flow[p].move /\ \A q \in Phones \ {p} : flow'[q] = flow[q]
        BY <2>8, <4>1 DEF PollConfirmed, Enters, Goes, TypeOK
      <4> QED
        BY <2>8, <4>2 DEF PollConfirmed
    <3>2. UNCHANGED <<moveVars, phoneVars, historyVars>>
      BY <2>8 DEF PollConfirmed
    <3> QED
      BY <1>0, <3>1, <3>2, OthersKeepMoves DEF moveVars, historyVars
  <2> QED
    BY <1>1, <2>1, <2>2, <2>3, <2>4, <2>5, <2>6, <2>7, <2>8 DEF PhoneNext
<1>2. ASSUME NEW m \in Moves, MoveNext(m) PROVE MoveInv'
  <2>1. UNCHANGED <<codes, phoneVars, historyVars, flow>>
        /\ flags' \cup posts' \subseteq flags \cup posts
    BY <1>2 DEF MoveNext, CodeExpires, ConfirmMigration, LoseConfirmation, FlagExpires
  <2> QED
    BY <1>0, <2>1, OthersKeepMoves DEF historyVars
<1>3. CASE UNCHANGED vars
  <2>1. UNCHANGED <<moveVars, phoneVars, historyVars, flow>>
    BY <1>3 DEF vars
  <2> QED
    BY <1>0, <2>1, OthersKeepMoves DEF moveVars, historyVars
<1> QED
  BY <1>1, <1>2, <1>3 DEF Next

\* A finished registration stays on some phone until its user logs out of it or the
\* relay rejects it: no chain of moves, however confirmations and wipes interleave,
\* wipes the last phone that holds it.
THEOREM RegistrationSurvives == Spec => []RegistrationSurvivesMoving
<1>1. Init => MoveInv
  BY DEF Init, MoveInv, At, Home, RegistrationSurvivesMoving
<1>2. MoveInv => RegistrationSurvivesMoving
  BY DEF MoveInv
<1> QED
  BY <1>1, <1>2, PhoneInvariant, StepKeepsMoves, PTL DEF Spec
=============================================================================
