# A verification of fortispass in TLA+

fortispass is a self-hosted password manager: a **relay** (Python, FastAPI, PostgreSQL, Redis)
that keeps ciphertext, a **Chromium extension** that shows and edits the vault, and an **Android
app** that holds the vault key and hands it to the extension through the relay after a QR scan and
a biometric prompt. This directory holds TLA+ models of the parts whose steps interleave, the TLC
runs that check them on small instances, and proofs, checked by TLAPS, that their main safety
properties hold for every value of the constants. `PROJECT.json` is the index: which definition
models which lines, which run checks what, and which hazard each property is for.

## 1. The system

| Component | State | Operations | Talks to |
|---|---|---|---|
| Session handlers, `server/api/handlers/session.py` | none of their own; a coroutine per request | create, respond, retrieve, ack, delete, WebSocket | Redis, hub, PostgreSQL |
| Session records, `server/db/redis_client.py` | one key per session: status, response, TTL | store, get, update (read-modify-write), consume (Lua, atomic), delete | Redis |
| Hub, `server/ws/hub.py` | session id to WebSocket | register, notify, disconnect | the extension's sockets |
| Vault row, `server/api/handlers/vault.py`, `server/db/postgres.py` | blob, hash, version per account | GET, PUT with optimistic locking | PostgreSQL |
| Accounts, tokens, `auth.py` (handlers, middleware) | accounts with their lookup hash and `mnemonic_confirmed`, devices, three JWT types | register, renew, require_auth | PostgreSQL |
| Invites, devices, `invite.py`, `device.py` | invite per token: state, keys; device rows | create, accept, status, deliver, complete; list, revoke, rename | PostgreSQL |
| Recovery, migration, `recovery.py`, `migration.py` | lookup hash; Redis flag with TTL | lookup, restore; confirm, status | both |
| Rate limiter, `ratelimit.py` | sorted set per path and IP | sliding-window check | Redis |
| Service worker, `extension/background/service-worker.js` | `_vaultKey`, `_vaultCache`, `_vaultToken`, `_activeWS`, timers, the auto-lock alarm | START_UNLOCK, CANCEL_UNLOCK, LOCK, GET_VAULT, SAVE_VAULT; socket callbacks, timer, alarm | relay (HTTP, WebSocket), popup (messages) |
| Popup, `extension/popup/popup.js` | view, countdown | show QR, cancel, lock | the worker |
| The popup's vault page, same file | `_vault`, `_vaultVersion`, the lists, the two forms, `_totpTimers` | load, add, edit, delete, save | the worker |
| The popup's password generator, same file | boxes, slider, number field, the shown password | each control makes a new password | nobody |
| Settings page, `extension/settings/settings.js` | what is shown, `themeTimer`, `currentTheme`, two messages with their timers | load, sliders, language, animations, theme, custom theme, reset, save and test the relay's URL | `chrome.storage.local`, which the popup listens to and the worker reads |
| Autofill, `content/autofill.js`, `handleContent` of the worker | the list a page shows | offer the credentials of a page's site, fill one in | the worker's `_vaultCache`, the tab |
| Tables of texts, in `popup.js` and `settings.js` | none that changes | look up a key | their pages |
| Scanner, `QRScanActivity.kt`, `RelayClient.kt`, `UnlockViewModel.kt` | `qrProcessed`, device keys, token | scan, ack, biometric prompt, respond, cancel | relay |
| Screens of a phone's life (`SetupActivity`, `RecoveryLoginActivity`, `JoinVaultActivity`, `AddDeviceActivity`, `SettingsActivity`, `MainActivity`) | encrypted preferences, wrapped vault key | register, recover, join, invite, migrate, wipe | relay |
| Launcher, tools, crypto, libraries | | no state that others depend on | |

**An unlock.** The popup asks the worker for a session; the worker creates it at the relay, opens
a WebSocket and starts a timer. The phone scans the QR, acknowledges it, authenticates and
responds with the sealed vault key. The relay stores the response, then notifies the socket. The
worker retrieves (and so consumes) the response together with the vault blob and its version,
sets the key, caches the vault, sets the auto-lock alarm and tells the popup.

**A save.** The popup changes its copy, sends the *whole* vault with the version it has; the worker
encrypts it and PUTs it as version + 1; one `UPDATE ... WHERE version = $4 - 1` decides. Several
saves may be under way from one page, each with its own copy of the whole vault.

**A setting.** The settings page writes to `chrome.storage.local` at once; an open popup hears of
the change, the worker reads the storage when it needs a value. Several settings pages may be open,
a page that loads writes the sliders back that it read, and a number field that loses the focus
writes back what its page shows.

**Autofill.** A page with a password field asks the worker for the credentials of its site and shows
them; a click sends the id of one back, and the worker looks it up, compares its site with the
site the page had when it asked, and has it filled into the tab.

**A phone's life.** Set-up makes a phrase, registers an account for it, wraps the vault key with the
hardware key and then writes the preferences. Settings shows the phrase until the relay has
`mnemonic_confirmed`; without it nobody may log out. A lost phone is replaced by recovery: the
phrase finds the vault, which is registered as a new account. An old phone is replaced by a move:
it shows a code with its registration, the new phone imports it and confirms, the old one polls for
that and wipes itself. A 401 on resume wipes as well.

**What is hard here.** Handlers of one session interleave at every await, and only one of their
operations is atomic in Redis. A hub entry belongs to a session id, not to the connection that
made it. The worker keeps one global `_activeWS` for all attempts while each attempt has callbacks
and a timer of its own. The worker may be stopped when idle; the popup may be closed at any time;
requests fail, or are stored and their answer is lost. Every save replaces the vault of everybody
else. The popup changes its copy first and saves afterwards, and keeps the change when the save
fails. Timers of messages, of the theme and of one-time codes outlive the clicks that armed them.
`PROJECT.json` lists these as hazards with their lines.

**What makes each part correct.**

- Sessions: a response that was handed out is not handed out again, unless another answer was
  stored over it meanwhile (then it can be); what is handed out was stored by a verified device; a
  session that was used or vanished stays closed; nothing stays in Redis.
- Hub: a handler waits exactly while the hub knows its connection; a subscriber hears of the answer,
  and who hears of it finds it.
- Vault: a committed edit is never lost; an edit its user takes as saved is stored, unless it met a
  locked worker, whose refusal the popup takes for success; every copy is a vault the relay held,
  under its true version.
- Unlock: an unlocked vault has an alarm and is locked in the end; every wait for a phone ends.
- Phones: a phone that looks registered can open its vault; nobody logs out without a phrase that
  leads back; a move never wipes the last phone of an account.
- Vault page: no entry is lost by an edit of another one; an entry that left the relay's row stays
  away; the page shows what the popup holds; every code on the page is kept current and no timer
  outlives its row.
- Settings: the worker uses what was chosen last, unless an outdated page wrote back what was
  chosen before; page and popup look as what is stored, but for colours of a custom theme that the
  popup keeps; a message stays for its time and then goes.
- Generator: a shown password fits the controls; a character set is missing only if another one was
  given its place (the code does not prevent that).
- Autofill: a page that stays is filled with a credential of its own site only.
- Rate limiter: no more requests than the limit pass, and nobody is refused without a reason.

## 2. Modules

```
Mailbox                 abstract: a slot; each response put in pays for one that is returned
  ^ implemented by
RelaySession            session.py + redis_client.py + hub.py, one session
  RelaySessionProofs    theorems
  MCRelaySession        symmetry for TLC    relay_*.cfg
EditStore               abstract: stored, refused and acknowledged edits
  ^ implemented by
VaultSync               vault row + workers' caches + popups + saves
  VaultSyncProofs       theorems
  MCVaultSync           vault*.cfg
UnlockWorker            popup + service worker + phone during unlocks
  UnlockWorkerProofs    theorems
  MCUnlockWorker        unlock*.cfg
Phones                  set-up, recovery, phrase, log-out, moves, wipes; auth.py's register,
                        recovery.py, migration.py
  PhonesProofs          theorems
  MCPhones              phones*.cfg
PopupEditor             popup.js: the vault page; worker and relay as one place
  PopupEditorProofs     theorems
  MCPopupEditor         two kinds of beginning   editor.cfg
Settings                settings.js: sliders, language, animations, reset; popup.js: its listener
ThemePicker             settings.js: themes and custom theme; popup.js: following them
  ThemePickerProofs     theorems about ThemePicker
  MCSettings            Settings beside ThemePicker   settings.cfg
  SettingsProofs        theorems about Settings and MCSettings
Generator               popup.js: the password generator
ServerForm              settings.js: the relay's URL, the test, the messages
RateLimiter             ratelimit.py
Autofill                autofill.js and the worker's handleContent
  MCForms               Generator, ServerForm, RateLimiter, Autofill, one beside the other   forms.cfg
  FormsProofs           theorems about all five
```

`MCSettings` and `MCForms` check parts that share nothing in one run: a variable says which of them
is used in a behaviour, and the others stand still.

### RelaySession

One session id stands for all, because sessions share no state. Every element of `Responds`,
`Retrieves`, `Cancels`, `Acks` is one HTTP call and every element of `Sockets` one connection. A
handler is split at its awaits:

| Handler | Actions |
|---|---|
| `create_session` | `Create` |
| `respond_to_session` | `RespondCheck` (get and checks), `RespondReject` (device), `RespondSize` (TTL read), `RespondStore` (SETEX), `RespondNotify` or `RespondUnannounced` (a database write fails) |
| `retrieve_session` | `RetrieveRead`, then `RetrieveConsume` or `RetrieveLose` (the Lua script) |
| `ack_session` | `AckCheck`, `AckNotify` |
| `delete_session` | `CancelCheck`, `CancelAnnounce`, `CancelDelete`, `CancelHangUp` |
| `session_websocket` | `SocketOpen`, `SocketFinds`, `SocketGivesUp`, `SocketRegister`, `SocketBreaks`, `SocketEnds` |
| time | `Expire` (the QR's expiry), `KeyExpires` (the TTL) |

`RespondStore` writes back what the handler holds, whatever the key holds by then, as the code
does. `retrieve[q].got` is the copy that is returned, `spent` (a history variable) the response
the script consumed; they may differ, and then one response is returned twice: q1 and q2 read the
first answer, q1 consumes it, the second answer is stored, q2 consumes that and returns the first.
What the handlers do promise is `Mailbox`: a call looks into the slot and may later take, which
empties the slot and returns what was seen, so that retrievals that succeed never outnumber the
responses stored. `Slot` maps `taken` to what the calls *return*. `record.ttl` tells the creation
TTL from the 60 s `update_session` gives a key it finds missing. Assumed: Redis neither fails nor
restarts, session ids do not collide.

### VaultSync

A vault is the set of edits that made it, so that losing an edit is visible; encryption keeps the
set. `log[v]` is the vault the row held at version v. A `save` record follows one click on Save
from the popup (`asked`) through the worker (`sent`), the relay (`decided`) and back (`answered`);
`for` says who still waits. `popup.version = 0` is JavaScript's `undefined`, left by an answer
`{locked: true}`: the PUT then carries `null` and the relay refuses it. The popup takes that answer
for success (popup.js:853-855 look for an error only), so `Acknowledged` counts it beside the saves
that were confirmed; `Misled` names these edits, and in `EditStore` they are the ones that may be
acknowledged because they were refused. The key, the cache and the
token are cleared together by `lockVault` and are one record `worker`; an expired token, a rate
limit, a network failure and a lock during encryption are all `PutFails`.

`Mishaps` selects events: `stop` (Chrome stops the idle worker), `unread` (retrieve cannot read the
row and answers without it), `undecrypted` (the blob does not decrypt), `reload` (the popup
reloads the vault while a save is under way). `Initial` is what a phone registers: empty for a new
account, full for a recovered one (`RecoveryLoginActivity.kt:253-256`).

### UnlockWorker

Attempts 1..`MaxAttempts` of one browser. Each has a session at the relay, a phone, a socket with
the events not yet heard, a timer and a handler; `activeWS` is the shared global. Socket states
follow the WebSocket API: after `close()` by the worker nothing more is heard (`closing`), after
an end by the relay what was sent is heard first (`ended`), and the close event comes last.
`suppressed` is `_suppressClose`. `close()` without a code is reported as 1005, so that an
unlock may be followed by UNLOCK_FAILED; the model has this. The relay's handlers are one step
each, because RelaySession has their interleavings. A phone's ack and answer may be refused or,
under the mishap `network`, lost. Each QR is scanned once (a bound). The 2 s added to the timer
are taken to be enough for events that were sent to the attempt's own socket.

### Phones

Each phone is in one screen's flow at a time, `flow[p]`, which also holds what the screen has in
memory; `Abandon` is every way such a flow stops: a cancelled prompt or dialog, an exception, a
failed request, the end of the process. The relay's handlers are one transaction or one Redis call
each.

| Code | Actions |
|---|---|
| `SetupActivity.proceedWithRegistration`, `register` | `Register`; an answer that is lost is `Abandon` after it |
| `RecoveryLoginActivity.startRestore`, `recovery_vault`, `register` | `FetchVault`, `RegisterRecovered` |
| `KeyManager.generateHardwareKey`, `wrapVaultKey` | `GenerateHardwareKey`, `WrapVaultKey` |
| the preferences in `finishSetup`, `startRestore` | `FinishSetup` |
| `SettingsActivity`, recovery phrase | `CheckMnemonicStatus`, `ShowRecoveryPhrase`, `VerifyWords`, `ConfirmMnemonic` |
| `SettingsActivity`, log-out | `AskLogOut`, `LogOut` |
| `MainActivity.checkRevocationStatus` | `Rejected` |
| `SettingsActivity.showMigrationExport` | `ShowMigrationExport`, `PollConfirmed`, `WipeMoved` |
| `QRScanActivity.handleMigrationImport`, `postMigrationConfirm` | `ScanMigration`, `ImportRegistration`, `ConfirmMigration` or `LoseConfirmation` |
| time | `CodeExpires` (180 s), `FlagExpires` (300 s) |

A vault key and its phrase are one secret (`MnemonicEngine` maps them one to one), named by the
account whose set-up made it; a recovered account has the secret of an older one. `holds[p]` is the
secret the phone's hardware key unwraps, `seed[p]` is `phrase_seed`, `reg[p]` token and device id.
`vault[a]` counts the edits, because VaultSync has the contents. `stored`, `gone`, `shown` and
`born` are history; nothing in the model reads them but `FetchVault`, in which only a phrase that
was shown can be typed. Abstractions: a preference is on disk when `apply()` returns; the wipes
do not fail; a phone runs one flow, so that a recovery left with Back does not go on beside
another; tokens have no age, so that a 401 may come at any time; nobody joins by invite
(section 6).

### PopupEditor

One popup over one worker and one relay. VaultSync has the races between browsers; here it is the
page itself that is hard, so worker and relay answer a request in one step, at any time.

| Code | Actions |
|---|---|
| `init`, closing, `UNLOCK_COMPLETE`, `VAULT_LOCKED`, the lock button | `OpenPopup`, `ClosePopup`, `UnlockComplete`, `VaultLocked`, `ShowLocked` |
| Chrome stops the idle worker: its vault is gone and the page stays as it is | `WorkerStops` |
| the add and edit buttons, Cancel and the tabs | `OpenForm`, `HideForms` |
| `cf-save`, `tf-save` up to their await | `PressSave`: `_vault` is changed, then all of it is sent |
| the delete buttons | `Delete` |
| `loadVault`, `saveVault` after their await, with the renderers | `HearLoad`, `HearSave` |
| `sw`'s timer | `GiveUp` |
| GET_VAULT, SAVE_VAULT in the worker | `ServeLoad`, `ServeSave` (its answer may be lost), `RefuseSave` |

A vault is a set of entries; an entry's text is the number of the request that wrote it, so a later
text is a greater number. `log` and `deleted` are history, and so is `overtaken`: a `loadVault` that
is answered while a save is awaited replaces `_vault` by an older copy, and the answer to the save
then pairs it with the newer version, so that the next save removes at the relay what had been
saved. The properties except the entries that this touched; they are the entries in which the copies
differ at that moment. What the code does and the model shows with it: an entry whose save failed
stays in `_vault` and goes out with the next save, and pressing Save again adds it twice; an edit
of an entry that was deleted meanwhile changes nothing and is saved; a late answer hides a form that
was reopened since; a one-time code whose deletion failed stays on the page with a code that no
longer changes; an answer `{locked: true}` counts as saved.

### Settings, ThemePicker

In `Settings` a tab goes from "asked" (the `get`) over "read" to "ready"; `Load` is the callback,
which stores every slider. `MoveSlider` covers the slider and its number field, with what may be
typed there; `LeaveField` is the field's blur handler, which stores what the page shows although
nobody chose it there. `Reset` clears the storage and loads the page anew. The popup has a queue
of onChanged events (`changes`), heard by `HearChange`. A language is its name: which texts of a
page or the popup are in it is left out (section 5 says where they are not). Histories: `chosen`,
what the user wanted last, and `wished`, all that was ever wanted; `crossed`, the sliders that
were moved while another page was between its read and its callback, or whose field was left on a
page that showed an older number: either page writes the older number back; `wasReset`, because a
removed `animationsEnabled` turns the popup's animations off although a popup opened now would
have them on.

`ThemePicker` has `applyTheme` with its 40 ms timer (`ApplyTheme`, `TimerFires`), the builder of
custom themes (`ShowBuilder`, `EditColours`, `ApplyCustom`), the operating system's scheme, reset
and reload, and the popup with its own question for `customTheme` (`HearTheme`, `HearColours`). The
attribute and the inline colours of a page are two fields, because the second hides the first; the
popup keeps inline colours after it left a custom theme, as the code does. There is one settings
page. Histories: `leftover`, the popup wears colours of a custom theme that was left or has other
colours by now; `hasty`, Apply
pressed while the timer ran, or the system's scheme replacing a timer that would have stored the
theme; `strayed`, a change heard while a question was open, whose late answer wins.

### ServerForm, Generator, RateLimiter, Autofill

`ServerForm` has the two buttons and `showMsg`: its outer timer, named by the element's
`_hideTimer`, and its inner one, which nothing names (`HideTimerFires`, `FadeTimerFires`). An inner
timer that fires also clears `_hideTimer`, which may name the outer timer of a newer message; that
timer can then not be stopped either (`Unstoppable`). `hurried` says of the newest message of each
button that it came while a timer ran that cannot be stopped; it is asked anew for every message.

`Generator` splits `_buildPassword` into its loops (`Build`, `Guarantee`, `Shuffle`, `Show`); a
control may be used when it has ended, because JavaScript runs it to its end. A character is the
set it is from. `at` is history: the place that each set was given; `Displaced` says of a set that
one served later was given its place.

`RateLimiter` is `check_rate_limit` for one key: `Arrive` reads the clock and makes a pipeline,
`Execute` is its transaction in Redis. A pipeline's id is an address, which may be used again when
its owner is gone. `MaxDelay` is an assumption about Redis: a transaction runs within a second of
the clock's reading. With two seconds the key could expire before an entry is too old to count.

`Autofill` has tabs that show one page after the other. A message carries the site its page had when
it was sent, as `sender.tab.url` does. `Offer` answers GET_CREDENTIALS; `Check` is FILL_CREDENTIAL up
to `executeScript` and `FillIn` what that does, to the tab and not to the page. Between any two of
them the popup may give a credential another URL or delete it, the vault may be locked and unlocked,
and the tab may go elsewhere. `filled` is history. Of a URL only the host matters; pages that show no
list are left out, and so is which fields of a page are filled.

Mutated forms of definitions are marked `Faulty variant` in the modules: no specification uses
them; each is a plausible mistake that makes one property fail.

## 3. Runs

| Run | Instance | Distinct states | Shows |
|---|---|---|---|
| `relay_store` | 2 responds, 2 retrieves, 1 cancel, 1 socket, database failures, symmetry | 175 thousand | safety of the session, and that what is returned is what the mailbox allows |
| `relay_hub` | one call of each kind, 2 sockets, fairness | 227 thousand | the hub's entry, expiry, notification |
| `vault` | 2 browsers, 2 edits, one unlocking at a time, stops and unread rows, symmetry | 1.75 million | no committed edit is lost; it implements the edit store; no deadlock |
| `unlock` | 2 attempts, all mishaps, fairness | 120 thousand | alarms, timers, locking in the end |
| `phones` | 2 phones, 2 accounts, 1 move, 1 edit, symmetry | 169 thousand | half-finished set-ups, log-out, moves |
| `editor` | 1 one-time code, 4 requests, 2 open at a time, two beginnings | 3.17 million | entries, deletions, rows, timers of the vault page |
| `settings` | 2 tabs, a popup, 3 sliders, 2 clicks; 2 pairs of colours, 4 clicks; symmetry | 452 thousand | storage, worker, pages and popup agree, but for what the properties name |
| `forms` | 3 sets, lengths 2 to 3; 4 presses; 5 requests in 6 seconds, limit 2 in 2; 1 tab, 2 pages, 2 credentials, 2 edits; fairness | 257 thousand | generator, messages, rate limiter, autofill |
| `relay_single_use`, `vault_unread`, `phones_move`, `phones_phrase` | | | disagreements of code and documentation (section 5) |

**Why the bounds are enough.** The races are between two: two answers, two retrievals, an answer
and a cancel, two sockets for one entry, two saves over one version, two attempts for one
`_activeWS`. A third actor only repeats the part of one of them, and the theorems of section 4
confirm the safety properties for any number. `MaxUnlocking = 1` bounds the browsers that are
within `_retrieveAndDecrypt` at the same moment; unlocking reads the row and writes only its own
browser's state. In `phones` one account is enough for a move and a second one for a recovery; one
edit tells an old vault from a newer one. With one move, its code, its late confirmation and its
closed dialog already meet every other flow; that moves may follow each other (A to B and back,
over a third phone) is left to the theorem `RegistrationSurvives`.

In `editor` the hardest stories need a save that fails, a second one that crosses it and what comes
after them: three requests once the vault is loaded. Half of the behaviours begin with a closed
popup, whose first request is the load. The other half begin with the vault loaded and so have four
requests for the user; they keep the popup open and add and delete one-time codes only, which
is the kind with timers. The theorems hold for any number of requests. In `settings` two clicks on two pages
make every crossing of a read and a write; four clicks on the theme make the 40 ms timer meet Apply,
the system, reset and reload. The lengths of `forms` are small because a password of three
characters already has every collision of the guaranteed ones; 2 and 3 stand for 8 and 64. Two
requests per two seconds, five requests and two pipes let requests overtake each other and let
entries fall out of the window exactly at its edge. In autofill one tab with two pages is enough for
a message to outlive its page, because tabs share only the vault; two edits give a credential
another site and back, or lock the worker in between.

Deadlock is checked in `vault`, where a browser can always be closed; in the
other systems calls, accounts, clicks and codes are finitely many and everything may be done.

**Properties.** `HandedOutOnceUnlessOverwritten`, `ServedWasStored` and `ClosedForGood` are what
is left of "single-use" when handlers interleave; the first is about what the calls return, and
says that an answer stored over another one is the only way to return that one twice.
`ToldFindsAnswer` says that session_responded is worth acting on. `SubscriberIffWaiting` relates
the hub's dictionary to the handlers across evictions. `RespondReachesSubscriber` and
`RecordEventuallyExpires` are liveness. `CommittedEditsSurvive`, `CacheIsCommitted` and
`PopupHoldsItsBase` relate the row's history to the copies everywhere. `UnlockedVaultWillLock` and
`EventuallyLocked` are about alarms under overlapping attempts, `ActiveWaitHasTimer` and
`TimerDiesWithSocket` about waits. `StoredKeyOpensVault` relates what a phone stores to the
relay's row, `LogoutLeavesAWayBack` a log-out to what was shown before it, and
`RegistrationSurvivesMoving` all phones to each other. `StoredEntriesSurvive` and
`DeletionIsFinal` relate any two versions of the relay's row to what the user did, and
`DeletionIsFinal` what the popup was told to the row; `RowsMatchVault` relates the page to
`_vault` and to the requests, `CodesAreCurrent` the rows to the timers. `ChoiceIsUsed`,
`PopupFollows`, `PageShowsStored` and `PopupHasTheme` relate what each page shows, and what the
worker uses, to what the user chose, however pages, timers and events cross; each names its
exceptions as history variables, and every exception is something the code does not handle.
`ChoiceIsUsed` says of its exception, too, what holds: no number comes back that nobody chose.
`MissingOnlyIfDisplaced` says when a password may miss a set, against a comment that says never
(section 5). `FillsItsOwnPage` relates what was filled in to the page and to a vault that changes;
its exception is a tab that left the page that asked. `LimitHolds` excepts requests that ran out
of order or shared an entry; `RefusedForAReason` holds without exception, and says that
Retry-After is long enough.

The type invariants of `vault` and `phones` are proved (section 4) and not among the runs'
properties.

**Fairness.** In RelaySession a handler that started goes on (an event loop runs every ready
coroutine) and time passes; no request has to be sent and no connection has to break. In
UnlockWorker callbacks whose event came are run, requests under way come back, timers and alarms
fire, and a phone that scanned goes on to its answer; nobody has to press, scan or fail anything.
All of it is weak fairness. `RespondReachesSubscriber` assumes no database failure: the two writes
before the notification may raise, and then nobody is told. `EventuallyLocked` rests on the alarm
and not on `WorkerStops`, which is not fair. In ServerForm timers fire, which gives `MessageGoes`:
the buttons are pressed finitely often, and a browser runs its timers. The other modules state no
liveness: everything there waits for a user.

## 4. Proofs

The proofs hold for any number of calls, sockets, browsers, edits, attempts, phones, accounts,
moves, requests, tabs, sites, pages and clicks, for any lengths and sets of characters, and for
any limit and window. They assume only the named ASSUMEs of the modules: `None` is no call,
socket, vault, account or colour, `Unset` no value of a setting, `NotANumber` no number and
`NoSite` no site; `DatabaseFails` is a Boolean; `Mishaps` names known mishaps; bounds are natural
numbers, and the least length, the limit and the window are positive; the sets of characters, two
of which the controls start with, are served in the order of numbers; the edits to come are not in
the registered vault, and the ids to come not those of its entries. `MaxDelay` is at most 1: the
transaction of a request runs within a second of the clock's reading, which is the second that
`expire(key, window + 1)` (ratelimit.py:90) has to spare. Only `LimitIsKept` uses this one.

**RelaySessionProofs.** `TypeCorrect`; then `StoreInv` is inductive and gives `ServedOnce`,
`ServedIsAuthentic` and, with one respond call, `SingleUseByOnePhone`. What calls return may
coincide, so the invariant speaks of what they consumed: `ConsumedOnce` says that no two consumed
the same response, hence of two that returned the same one, one consumed another. That is
inductive with `SpentIsGone`: a response that was consumed or returned is never in the record as
"responded" again, because each respond call stores once (`RecordIsDeposited`, `DepositsLast`).
`ClosedSessionsStayClosed` is a step property from the types. `SessionImplementsMailbox` maps
`RespondStore` to Deposit, `RetrieveRead` to Look, `RetrieveConsume` to Take, `RetrieveLose` to
ComeTooLate, expiry and cancel to Discard, everything else to a stutter. `HubAgreesWithHandlers`
is inductive together with the types. `ToldFindIt` needs `AnswerInv`: once an answer was stored it
is there, was retrieved, or the session is over; for a key that is missing, or has the TTL that
`update_session` gives a missing key, was expired or deleted by a cancel. `AnswersAreTold` follows
from `HubAgreesWithHandlers`: a respond call that stored its answer ends in `RespondNotify` or in
a failure of the database (`StoredEnds`), the hub then has the connection of every handler that
waits, and no step takes a message out of an inbox (`ToldStays`).

**VaultSyncProofs.** `VaultInv` is the inductive invariant (`VaultInvariant`): besides the three
run properties it says that a row on its way to a worker is committed, that a save under way holds
all that its base version held, that the popup that waits for a save still holds all it sent, and
that confirmed edits are in the row. `NoCommittedEditIsLost` needs the third of these: without
it a popup could advance its version to one whose edits it does not hold.
`VaultImplementsEditStore` follows from the same invariant; an edit that a locked worker refused is a
Refuse of the store. These theorems assume `LossFree`, which
excludes exactly the mishaps that lose edits: a popup that reloads while it waits for a save, a
blob that does not decrypt, and an unreadable row on an account that did not begin empty. Each
one breaks `CommittedEditsSurvive` in TLC when it is allowed. `OnlyLockedAnswersMislead` does without
`LossFree`: whatever goes wrong, an edit its user takes as saved was in the row, or a locked worker
refused it. Its invariant
`Honest` follows one save: what is sent has the edit in it, and a result "saved" means that the next
version of the row is what was sent.

**UnlockWorkerProofs.** `UnlockInv` is inductive and gives `UnlockedHasAlarm`, `ActiveHasTimer`
and `NoTimerOutlivesItsSocket`. It needs `AnnouncedOnce`: a second session_responded would send a
handler that has set the key, but not yet the alarm, back to retrieving. It needs
`SocketAfterSession` and `ActiveNotSuppressed`, because a new socket must replace nothing and a
quietly closed one is never active. `KeysComeFromPhones` has an invariant of its own, `Traced`: a
session with an answer has a phone that gave it, and a handler that goes on past the retrieval has
used the answer up.

**PhonesProofs.** `PhoneInv` is inductive together with the types (`PhoneInvariant`) and gives
`TypeCorrect`, `StoredKeysOpenVaults` and `LogoutIsSafe`. It says of each screen what the screen
relies on: a set-up under way belongs to an unregistered phone and carries the secret of its row; a
phrase on a screen is that of the phone's account; every account has the secret of a set-up whose
own row still has the hash. The last part is why a recovered account, which has no hash, may still
be left. `RegistrationSurvives` needs `MoveInv`: a confirmed code has moved its account, that is,
the account was given up or a phone holds it that got it *by this code or a later one*. The history
variable `born` has the code that brought each registration, codes are numbered in the order they
are shown, and a phone only shows codes later than the one that brought its own. So the phone that
is wiped for a code is never the one that holds the account because of it, and the one that does
takes over what the wiped one stood for. "Some phone holds the account" alone is not inductive: that
phone could be the one that is about to be wiped.

**PopupEditorProofs.** `Typed` is `TypeOK` and what it takes to keep it: no request is about a
version the relay has not had, an answer is there only while the popup waits for it, and one for a
save only while there is a vault. `CodesKept` is inductive beside it. `PageMatches` needs
`TextsOwned`: wherever a text is (in a version, in `_vault`, in the cache, on its way), a request
of that number, for that kind, wrote it, so that a save which is heard draws the list its texts
are in. `EntriesSurvive` needs `Surviving`, which follows the vault round: each version keeps the
ones before it; the worker's cache is a version; the popup's copy keeps the version it will save
over; and each request keeps what it will be compared with (`CallKeeps`). The step that hurts is
the reload of an older copy while a save is awaited, and there `overtaken` takes up exactly the
entries that differ. `DeletionsAreFinal` has two halves. One looks at a deletion: while it is
under way its entry is neither in the request nor in `_vault` (`DeletionKept`), and once it is
heard as saved the entry is gone from its version on (`GoneSince`): from the relay's versions,
from `_vault`, and from every request about that version or a later one, while a request about an
older one is refused. The other is about entries that left the row, told or not (`Leaving`): the
save that takes one away comes from a copy that has not got it back (`Lacking`), so that from that
version on it is gone in the same sense. The lemmas `RequestsEvolve` and `Begins` say once what a
step may do to a request: go on, be answered, end, or begin with what `_vault` is then.

**FormsProofs.** For the generator, `PasswordsFitControls` needs `MakingFits`: the characters of
the password being made, and the sets still to be served, are of the enabled sets.
`MissingSetsWereDisplaced` needs `Served`: a set that was served has its place and holds it or
lost it to one served later; once all are served, exchanging two characters loses none.
`ControlsAgree` is inductive beside the types.

For the server form, the types need `Numbered`: every press and every answer makes one message.
`MessagesStay` needs `OnlyItsTimer`: but for hurried messages, the timer that will hide a message is
the newest one's, the element knows it, and nothing fades meanwhile, so that the next message can
stop it. `MessagesHaveTimers` is
the other side, and without exception: no message shows that nothing would hide.

For the rate limiter, both theorems compare the cardinalities of the requests and of the entries
since a time. `Fewer` (at most as many entries as requests) gives `RefusalsHaveReasons`.
`LimitIsKept` needs the converse, `Counted`: a request that is about to run finds an entry of
every request of its window, unless requests ran out of order or shared a pipe. What `Counted` has
to survive is the clean-up by age and the expiry of the key, which is where the second of
`MaxDelay` goes.

For autofill, `PagesAreFilledRight` needs `AsksForItsPage`: a message whose page is still there has
the site of that page, and a credential that was compared has the site of its message. A list may be
as old as it likes: the site is looked up again.

`PartsBehave` shows that a behaviour of the composed `FormsSpec` is one of each part, so that the
theorems hold of what the run checks; `TypesAreKept` is stated for it.

**SettingsProofs.** `Typing` is `TypeOK` with functions and records as such. `ChoicesAreUsed`
needs `ChoiceIsKept`: the storage, and whatever a page has read and is about to write back, hold
the chosen value of every slider that no page crossed; `WishesAreKept`: what is stored, read or
shown anywhere was wished once; that a page makes of a number the nearest one allowed
(`ClampedIsNearest`); and that the worker's own limits and defaults change nothing that the page
lets through (`WorkerUsesStored`). `PopupsFollow` needs `EventsAreRight`, by which the last event
about a key brings what is stored, and `PopupIsCurrent`, by which the popup shows what is stored
of every key about which no event is on its way. `SectionsBehave` is to `SettingsSpec` what
`PartsBehave` is to `FormsSpec`.

**ThemePickerProofs.** `PageIsRight` needs `PageInv`: the page is on its way to what is stored, that
is, its timer will bring it there and either stores the theme then or applies the one that is
stored; and a custom theme is stored with its colours and never by the timer. `PopupIsRight` needs
that the last change on its way to the popup is the stored theme, that a popup which hears of
nothing more has it or has asked for its colours, and that it wears the stored colours whenever
nothing is on its way, unless some are left over (`PopupHears`).

**Only model-checked:** liveness (`RecordEventuallyExpires`, `RespondReachesSubscriber`,
`EventuallyLocked`, `MessageGoes`), because fairness and ENABLED are beyond the prover. What safety
they rest on is proved: `AnswersAreTold`, `UnlockedHasAlarm`, `MessagesHaveTimers`. And that the
violations of section 5 are reachable. Every other property of the passing runs is a theorem.
Induction over data is out of reach as well; no module has a RECURSIVE operator and none needs one.

## 5. Where code and documentation disagree

| Run | Statement | What the code does |
|---|---|---|
| `relay_single_use` | session.py:8, retrieve is "single-use, atomically consumed" | two answers at the same time: the second is stored after the first was consumed, and the session is retrieved twice (the same response twice, if both calls had read it) |
| `vault_unread` | session.py:145, "Non-fatal: ... vault will just be empty" | the empty vault is cached as version 1, and the next save replaces a recovered account's vault |
| `phones_move` | strings.xml:180, "transfer your vault" | the code has no vault key and no phrase, and the old phone wipes both |
| `phones_phrase` | README.md:132, "restore the vault ... using only the phrase" | a recovered account has no lookup hash: the phrase finds the vault from before the first recovery |

Also seen while modelling, without a run of their own:

- README.md:196 says that the vault stays unlocked "until the auto-lock timer fires or you close the
  browser", but the key lives in a service worker that Chrome stops when idle (`stop` in VaultSync,
  `WorkerStops` in UnlockWorker).
- session.py:264, "don't let anyone cancel a responded session": the status is read before an await
  and the key deleted after it (`CancelCheck`, `CancelDelete` in RelaySession).
- vault.py:56, "client must fetch, merge, and retry": the extension repeats the refused version until
  the vault is locked (popup.js:855).
- README.md:194, "The extension unlocks automatically": the timer of an abandoned attempt closes the
  next attempt's socket (service-worker.js:207).
- ratelimit.py:77, "Raises HTTP 429 if limit exceeded": an entry is named by the second and by the
  address of a Python object (line 88). Two requests of one second whose pipelines had the same
  address, which CPython likes to reuse, count as one; and a request that runs after one of a later
  second finds the entries it should count dropped. `LimitHolds` excepts both.
- popup.js:1141, "Guarantee at least one character from each enabled charset": the places are random
  and may coincide, so that a set may be missing. `MissingOnlyIfDisplaced` says what does hold.
- popup.js:635, "Live-update when settings change while popup is open": after a reset the popup's
  animations are off; a late answer for a custom theme wins over a newer theme; the inline colours of
  a custom theme are never removed, so that the popup still looks custom when another theme was
  chosen (lines 637-644); and other colours for the custom theme are not heard of while the theme
  stays "custom". `PopupHasTheme` excepts the last two as `leftover`.
- popup.js:853-855: the answer `{locked: true}` has no error, so an edit that a locked worker refused
  is shown as saved (`Misled` in VaultSync, "shut" in PopupEditor).
- settings.js:1052, 1067 and 1084: a number field that merely loses the focus stores what its page
  shows, over what another page stored since (`LeaveField`).
- service-worker.js:492, "Double-check the credential's domain still matches the tab": it compares
  with the URL the tab had when it asked, and `executeScript` (line 500) names the tab; a tab that
  went elsewhere meanwhile is filled as it is then (`left` in Autofill).
- An open popup may mix two languages when another one is picked: the editor's title loses its
  `data-i18n` (popup.js:945), rows are not drawn again when the language changes, and some texts
  are English only (popup.js:853, 913-914, 1006).
- README.md:172, "The vault key is transferred directly between the devices": see invites in
  section 6. README.md:174, "up to 3 devices": the limit is looked at when an invite is accepted and
  not when the device is added, so that two invites may add one too many.

## 6. Not modelled

- Invites and added devices (`invite.py`, `AddDeviceActivity`, `JoinVaultActivity`): the joining
  phone polls the invite's status without the token that invite.py:173 requires, and the inviting
  phone looks for `dh_priv_key` (AddDeviceActivity.kt:175), which no code stores. No invite gets
  past "accepted", so `deliver` and `complete` are handlers that no client reaches, and properties of
  the hand-over would be properties of a program that is not there.
- The device list (`device.py`): nothing in the repository calls `register` or `revoke`; the list
  only reads and a name is a label.
- Tokens: signed, without state at the relay. Their refusal is a failure that may come at any time.
- Cryptography, TOTP codes, server trust: ciphertext is opaque and signatures hold.
- In the popup: the clipboard, favicons, the drawing of the QR code and the prompt to pin the
  extension on the first start. In the settings page: the navigation between sections, the shades of
  a custom theme. None of it is read by anything else. In both, the tables of texts: they do not
  change.
- A second settings page in ThemePicker (Settings has two): a theme picked on one page does not
  change another one that is open.
- The launcher `server.py`, the tools (`backup`, `restore`, `stop`, `generate_secrets`), containers,
  proxy and scripts: input and output around the relay.
- Vendored `qrcode.js`, fonts, `settings/i18n.js` and the six background modules, which nothing
  loads.
- Restarts of the relay (which empties the hub) and of Redis. Several relay processes: the hub is a
  dictionary of one process.

## 7. What is left

1. A restart of the relay in RelaySession and UnlockWorker; the composition of both, in which the
   worker's view of its session implements the one-step relay assumed there.
2. Phones over an abstract specification of who can open which vault, with the moves that break it
   as a mishap; durable and pending preferences told apart.
3. Invites, once the hand-over works: one device per invite, the device limit, an active device that
   remains, no phone without the key that believes it joined.
4. Proofs that follow these: the composition of item 1 and the refinement of item 2, step by step.
