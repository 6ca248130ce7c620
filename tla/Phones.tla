------------------------------- MODULE Phones -------------------------------
(***************************************************************************)
(* How a phone comes to hold an account and its vault key, and how it     *)
(* loses them: set-up, recovery from the phrase, moving to a new phone,    *)
(* confirming the phrase, logging out, and the wipe after a 401.           *)
(* The Android screens are SetupActivity, RecoveryLoginActivity,           *)
(* SettingsActivity, QRScanActivity (import) and MainActivity; the relay's *)
(* handlers are auth.py, recovery.py and migration.py, each of which is    *)
(* one transaction or one Redis call and so one action.                    *)
(*                                                                         *)
(* A phone is in one screen's flow at a time (flow[p]): every screen that  *)
(* registers or wipes starts a new task, which ends the others.  A flow    *)
(* may stop at any point: a cancelled prompt, an exception, a request that *)
(* fails, a process that ends (Abandon).                                   *)
(*                                                                         *)
(* A vault key and its recovery phrase are two forms of one secret         *)
(* (MnemonicEngine); secrets are named by the account whose set-up made    *)
(* them, so an account made by recovery has the secret of an older one.    *)
(***************************************************************************)
EXTENDS Naturals, FiniteSets

CONSTANTS Phones,
          Accounts,   \* the account ids the relay may hand out
          None,       \* no account, no secret
          MaxMoves,   \* bound: migration codes shown
          MaxEdits    \* bound: edits of one account's vault

ASSUME NoneIsNoAccount == None \notin Accounts
ASSUME BoundsAssumption == MaxMoves \in Nat /\ MaxEdits \in Nat

VARIABLES
    key,        \* accounts.id -> the secret its vault is encrypted with (None: no such row)
    lookup,     \* the accounts whose row has a vault_lookup_hash
    confirmed,  \* the accounts with mnemonic_confirmed
    vault,      \* vault_blobs: how many edits the account's vault has
    flags,      \* Redis "mig:" keys, by the number of the code
    codes,      \* migration code -> the account in it
    live,       \* the codes that have not expired
    posts,      \* the codes whose confirmation is on its way to the relay
    reg,        \* per phone: auth_token and device_id in its preferences, as the account
    seed,       \* per phone: phrase_seed in its preferences
    holds,      \* per phone: the secret its hardware key unwraps
    flow,       \* per phone: the screen it is in and what that holds in memory
    stored,     \* history: the accounts some phone finished registering
    gone,       \* history: the accounts a phone gave up, and why
    shown,      \* history: the secrets whose phrase was put on a screen
    born        \* history: per phone, the code that brought its registration (0: none)

relayVars == <<key, lookup, confirmed, vault>>
moveVars == <<flags, codes, live, posts>>
phoneVars == <<reg, seed, holds, born>>
historyVars == <<stored, gone, shown>>
vars == <<relayVars, moveVars, phoneVars, historyVars, flow>>

\* -------------------------------------------------------------------------
\* Types

MaybeAccount == Accounts \cup {None}
Moves == 1..MaxMoves

Screens == {"home",
            "registered", "keyed", "wrapped",       \* set-up and recovery, after the POST
            "fetched",                               \* recovery, with the old vault
            "offered", "showing", "posting",         \* the recovery phrase in Settings
            "leaving",                               \* log-out, the relay agreed
            "exporting", "moved", "importing"}       \* moving to a new phone

Flow == [at : Screens, account : MaybeAccount, secret : MaybeAccount,
         edits : Nat, known : BOOLEAN, move : Nat]

TypeOK ==
    /\ key \in [Accounts -> MaybeAccount]
    /\ lookup \subseteq Accounts
    /\ confirmed \subseteq Accounts
    /\ vault \in [Accounts -> Nat]
    /\ flags \subseteq Moves
    /\ codes \in [Moves -> MaybeAccount]
    /\ live \subseteq Moves
    /\ posts \subseteq Moves
    /\ reg \in [Phones -> MaybeAccount]
    /\ seed \in [Phones -> MaybeAccount]
    /\ holds \in [Phones -> MaybeAccount]
    /\ flow \in [Phones -> Flow]
    /\ stored \subseteq Accounts
    /\ gone \subseteq Accounts \X {"logout", "rejected"}
    /\ shown \subseteq Accounts
    /\ born \in [Phones -> Nat]

Home == [at |-> "home", account |-> None, secret |-> None,
         edits |-> 0, known |-> FALSE, move |-> 0]

Init ==
    /\ key = [a \in Accounts |-> None]
    /\ lookup = {} /\ confirmed = {}
    /\ vault = [a \in Accounts |-> 0]
    /\ flags = {} /\ live = {} /\ posts = {}
    /\ codes = [m \in Moves |-> None]
    /\ reg = [p \in Phones |-> None]
    /\ seed = [p \in Phones |-> None]
    /\ holds = [p \in Phones |-> None]
    /\ born = [p \in Phones |-> 0]
    /\ flow = [p \in Phones |-> Home]
    /\ stored = {} /\ gone = {} /\ shown = {}

\* -------------------------------------------------------------------------
\* The relay

\* An id the relay has not handed out (gen_random_uuid).
Unused(a) == key[a] = None

\* POST /auth/register, one transaction: account, device, vault at version 1, the
\* lookup hash if the request has one, mnemonic_confirmed if it says so.
RegisterAtRelay(a, secret, edits, withHash, known) ==
    /\ Unused(a)
    /\ key' = [key EXCEPT ![a] = secret]
    /\ vault' = [vault EXCEPT ![a] = edits]
    /\ lookup' = IF withHash THEN lookup \cup {a} ELSE lookup
    /\ confirmed' = IF known THEN confirmed \cup {a} ELSE confirmed

At(p, screen) == flow[p].at = screen
Goes(p, f) == flow' = [flow EXCEPT ![p] = f]
Enters(p, screen) == Goes(p, [flow[p] EXCEPT !.at = screen])

\* -------------------------------------------------------------------------
\* Set-up and recovery

\* SetupActivity: a fresh phrase, and a new account for it.  The screen opens only
\* on a phone without registration.
Register(p, a) ==
    /\ At(p, "home") /\ reg[p] = None
    /\ RegisterAtRelay(a, a, 0, TRUE, FALSE)
    /\ Goes(p, [Home EXCEPT !.at = "registered", !.account = a, !.secret = a])
    /\ UNCHANGED <<moveVars, phoneVars, historyVars>>

\* RecoveryLoginActivity: the phrase somebody wrote down finds the account whose row
\* has its hash; the phone fetches vault and mnemonic_confirmed.
FetchVault(p, a) ==
    /\ At(p, "home") /\ reg[p] = None
    /\ a \in lookup /\ key[a] \in shown
    /\ Goes(p, [Home EXCEPT !.at = "fetched", !.secret = key[a],
                            !.edits = vault[a], !.known = a \in confirmed])
    /\ UNCHANGED <<relayVars, moveVars, phoneVars, historyVars>>

\* It registers a new account with that vault, and without the lookup hash.
RegisterRecovered(p, a) ==
    /\ At(p, "fetched")
    /\ RegisterAtRelay(a, flow[p].secret, flow[p].edits, FALSE, flow[p].known)
    /\ Goes(p, [flow[p] EXCEPT !.at = "registered", !.account = a])
    /\ UNCHANGED <<moveVars, phoneVars, historyVars>>

\* KeyManager.generateHardwareKey deletes the old key: what it wrapped is lost.
GenerateHardwareKey(p) ==
    /\ At(p, "registered")
    /\ holds' = [holds EXCEPT ![p] = None]
    /\ Enters(p, "keyed")
    /\ UNCHANGED <<relayVars, moveVars, reg, seed, born, historyVars>>

\* KeyManager.wrapVaultKey (behind the biometric prompt in set-up).
WrapVaultKey(p) ==
    /\ At(p, "keyed")
    /\ holds' = [holds EXCEPT ![p] = flow[p].secret]
    /\ Enters(p, "wrapped")
    /\ UNCHANGED <<relayVars, moveVars, reg, seed, born, historyVars>>

\* Faulty variant: the preferences are written before the key is wrapped.
FinishSetupUnwrapped(p) ==
    /\ flow[p].at \in {"keyed", "wrapped"}
    /\ reg' = [reg EXCEPT ![p] = flow[p].account]
    /\ seed' = [seed EXCEPT ![p] = flow[p].secret]
    /\ born' = [born EXCEPT ![p] = 0]
    /\ stored' = stored \cup {flow[p].account}
    /\ Goes(p, Home)
    /\ UNCHANGED <<relayVars, moveVars, holds, gone, shown>>

\* The preferences: registration and phrase_seed.  Only now is the phone registered.
FinishSetup(p) ==
    /\ At(p, "wrapped")
    /\ reg' = [reg EXCEPT ![p] = flow[p].account]
    /\ seed' = [seed EXCEPT ![p] = flow[p].secret]
    /\ born' = [born EXCEPT ![p] = 0]
    /\ stored' = stored \cup {flow[p].account}
    /\ Goes(p, Home)
    /\ UNCHANGED <<relayVars, moveVars, holds, gone, shown>>

\* An extension this phone unlocked saves: the vault of its account has one more edit.
SaveEdit(p) ==
    /\ reg[p] # None
    /\ holds[p] = key[reg[p]]
    /\ vault[reg[p]] < MaxEdits
    /\ vault' = [vault EXCEPT ![reg[p]] = @ + 1]
    /\ UNCHANGED <<key, lookup, confirmed, moveVars, phoneVars, historyVars, flow>>

\* -------------------------------------------------------------------------
\* The recovery phrase

\* SettingsActivity.onResume asks the relay; the section shows only while unconfirmed.
CheckMnemonicStatus(p) ==
    /\ At(p, "home") /\ reg[p] # None
    /\ reg[p] \notin confirmed
    /\ Enters(p, "offered")
    /\ UNCHANGED <<relayVars, moveVars, phoneVars, historyVars>>

\* A phone that imported its registration has no seed, and only an error to show.
ShowRecoveryPhrase(p) ==
    /\ At(p, "offered") /\ seed[p] # None
    /\ shown' = shown \cup {seed[p]}
    /\ Enters(p, "showing")
    /\ UNCHANGED <<relayVars, moveVars, phoneVars, stored, gone>>

\* "I wrote it down", and the three words were right.
VerifyWords(p) ==
    /\ At(p, "showing")
    /\ Enters(p, "posting")
    /\ UNCHANGED <<relayVars, moveVars, phoneVars, historyVars>>

\* POST /recovery/confirm-mnemonic, for the account of the phone's token.
ConfirmMnemonic(p) ==
    /\ At(p, "posting")
    /\ confirmed' = confirmed \cup {reg[p]}
    /\ Goes(p, Home)
    /\ UNCHANGED <<key, lookup, vault, moveVars, phoneVars, historyVars>>

\* -------------------------------------------------------------------------
\* Leaving

\* clearRegistration and clearAndGoToSetup: the preferences of both files.
Wipe(p) ==
    /\ reg' = [reg EXCEPT ![p] = None]
    /\ seed' = [seed EXCEPT ![p] = None]
    /\ holds' = [holds EXCEPT ![p] = None]
    /\ born' = [born EXCEPT ![p] = 0]
    /\ Goes(p, Home)

\* Faulty variant: log out whatever the relay answers.
MayAlwaysLogOut(p) == reg[p] # None

\* The log-out button asks the relay whether the phrase was confirmed ...
MayLogOut(p) == reg[p] \in confirmed

AskLogOut(p) ==
    /\ At(p, "home") /\ reg[p] # None
    /\ MayLogOut(p)
    /\ Enters(p, "leaving")
    /\ UNCHANGED <<relayVars, moveVars, phoneVars, historyVars>>

\* ... and wipes after a biometric prompt and a dialog.
LogOut(p) ==
    /\ At(p, "leaving")
    /\ Wipe(p)
    /\ gone' = gone \cup {<<reg[p], "logout">>}
    /\ UNCHANGED <<relayVars, moveVars, stored, shown>>

\* MainActivity.onResume: GET /devices is answered with 401 (the token expired).
Rejected(p) ==
    /\ reg[p] # None
    /\ Wipe(p)
    /\ gone' = gone \cup {<<reg[p], "rejected">>}
    /\ UNCHANGED <<relayVars, moveVars, stored, shown>>

\* -------------------------------------------------------------------------
\* Moving to a new phone

UnusedMove(m) == codes[m] = None

\* showMigrationExport: a code with the registration, but no vault key and no seed.
\* The phone then polls GET /migration/status while the dialog is open.
ShowMigrationExport(p, m) ==
    /\ At(p, "home") /\ reg[p] # None
    /\ UnusedMove(m) /\ \A n \in Moves : n < m => ~UnusedMove(n)
    /\ codes' = [codes EXCEPT ![m] = reg[p]]
    /\ live' = live \cup {m}
    /\ Goes(p, [Home EXCEPT !.at = "exporting", !.move = m])
    /\ UNCHANGED <<relayVars, flags, posts, phoneVars, historyVars>>

\* 180 s later (by the clock of the phone that scans).
CodeExpires(m) ==
    /\ m \in live
    /\ live' = live \ {m}
    /\ UNCHANGED <<relayVars, flags, codes, posts, phoneVars, historyVars, flow>>

\* Faulty variant: the new phone confirms what it scanned before it asks its user.
ScanMigrationConfirms(p, m) ==
    /\ At(p, "home") /\ reg[p] = None
    /\ m \in live
    /\ posts' = posts \cup {m}
    /\ Goes(p, [Home EXCEPT !.at = "importing", !.move = m])
    /\ UNCHANGED <<relayVars, flags, codes, live, phoneVars, historyVars>>

\* handleMigrationImport checks the expiry, then asks the user.  The screen opens
\* only on a phone without registration.
ScanMigration(p, m) ==
    /\ At(p, "home") /\ reg[p] = None
    /\ m \in live
    /\ Goes(p, [Home EXCEPT !.at = "importing", !.move = m])
    /\ UNCHANGED <<relayVars, moveVars, phoneVars, historyVars>>

\* The user agrees: the registration is stored, the confirmation is sent, not awaited.
ImportRegistration(p) ==
    /\ At(p, "importing")
    /\ reg' = [reg EXCEPT ![p] = codes[flow[p].move]]
    /\ born' = [born EXCEPT ![p] = flow[p].move]
    /\ posts' = posts \cup {flow[p].move}
    /\ Goes(p, Home)
    /\ UNCHANGED <<relayVars, flags, codes, live, seed, holds, historyVars>>

\* POST /migration/confirm arrives, or is lost.
ConfirmMigration(m) ==
    /\ m \in posts
    /\ posts' = posts \ {m}
    /\ flags' = flags \cup {m}
    /\ UNCHANGED <<relayVars, codes, live, phoneVars, historyVars, flow>>

LoseConfirmation(m) ==
    /\ m \in posts
    /\ posts' = posts \ {m}
    /\ UNCHANGED <<relayVars, flags, codes, live, phoneVars, historyVars, flow>>

\* MIGRATION_TTL, 300 s.
FlagExpires(m) ==
    /\ m \in flags
    /\ flags' = flags \ {m}
    /\ UNCHANGED <<relayVars, codes, live, posts, phoneVars, historyVars, flow>>

\* One poll is answered with "confirmed" ...
PollConfirmed(p) ==
    /\ At(p, "exporting")
    /\ flow[p].move \in flags
    /\ Enters(p, "moved")
    /\ UNCHANGED <<relayVars, moveVars, phoneVars, historyVars>>

\* ... and the main thread wipes, unless the dialog was closed meanwhile.
WipeMoved(p) ==
    /\ At(p, "moved")
    /\ Wipe(p)
    /\ UNCHANGED <<relayVars, moveVars, historyVars>>

\* -------------------------------------------------------------------------

\* The flow of a screen ends: cancelled, failed, timed out, or the process ended.
Abandon(p) ==
    /\ ~At(p, "home")
    /\ Goes(p, Home)
    /\ UNCHANGED <<relayVars, moveVars, phoneVars, historyVars>>

PhoneNext(p) ==
    \/ \E a \in Accounts : Register(p, a) \/ FetchVault(p, a) \/ RegisterRecovered(p, a)
    \/ GenerateHardwareKey(p) \/ WrapVaultKey(p) \/ FinishSetup(p) \/ SaveEdit(p)
    \/ CheckMnemonicStatus(p) \/ ShowRecoveryPhrase(p) \/ VerifyWords(p) \/ ConfirmMnemonic(p)
    \/ AskLogOut(p) \/ LogOut(p) \/ Rejected(p)
    \/ \E m \in Moves : ShowMigrationExport(p, m) \/ ScanMigration(p, m)
    \/ ImportRegistration(p) \/ PollConfirmed(p) \/ WipeMoved(p)
    \/ Abandon(p)

MoveNext(m) == CodeExpires(m) \/ ConfirmMigration(m) \/ LoseConfirmation(m) \/ FlagExpires(m)

Next == (\E p \in Phones : PhoneNext(p)) \/ (\E m \in Moves : MoveNext(m))

Spec == Init /\ [][Next]_vars

\* -------------------------------------------------------------------------
\* Properties

\* Some phone gave this account up: its user logged out, or the relay rejected it.
GaveUp(a) == \E why \in {"logout", "rejected"} : <<a, why>> \in gone

\* Moving wipes the old phone only when another one holds the registration: as long
\* as nobody logs out of an account and no token of it is rejected, some phone is
\* registered for it, through any chain of moves, late confirmations and closed
\* dialogs (the wipe of SettingsActivity's poll, QRScanActivity's import).
RegistrationSurvivesMoving ==
    \A a \in stored : GaveUp(a) \/ \E p \in Phones : reg[p] = a

\* A phone that keeps a phrase is registered, its hardware key unwraps the key of its
\* account's vault, and the phrase it would show is the phrase of that key: whatever
\* set-up, recovery or import stopped half-way before (the order of
\* generateHardwareKey, wrapVaultKey and the preferences).
StoredKeyOpensVault ==
    \A p \in Phones : seed[p] # None =>
        reg[p] # None /\ seed[p] = key[reg[p]] /\ holds[p] = seed[p]

\* Whoever logs out of an account has seen the phrase of its vault, and the relay has
\* a row that this phrase finds (the gate of the log-out button, mnemonic_confirmed
\* carried over by recovery, the lookup hash that only set-up registers).
LogoutLeavesAWayBack ==
    \A a \in Accounts : <<a, "logout">> \in gone =>
        key[a] \in shown /\ \E b \in lookup : key[b] = key[a]

\* strings.xml:180, "transfer your vault": as long as nobody gave an account up, some
\* phone can unwrap the key of its vault, or somebody can have its phrase.
VaultMovesAlong ==
    \A a \in stored : \/ GaveUp(a)
                      \/ key[a] \in shown
                      \/ \E p \in Phones : key[a] \in {holds[p], seed[p]}

\* README.md:132, "restore the vault on a new device using only the phrase": what the
\* phrase finds is not older than the vault of any phone with this phrase.
PhraseFindsLatestVault ==
    \A a \in stored, b \in lookup : key[a] = key[b] => vault[a] <= vault[b]
=============================================================================
