---------------------------- MODULE UnlockWorker ----------------------------
(***************************************************************************)
(* One extension while it is being unlocked: the popup                     *)
(* (extension/popup/popup.js), the WebSockets, timers and callbacks of its *)
(* service worker (extension/background/service-worker.js), and the phone  *)
(* that scans the QR (QRScanActivity.kt).  The worker keeps ONE global     *)
(* _activeWS for all unlock attempts; every attempt has callbacks and a    *)
(* timer of its own, which outlive it.                                     *)
(*                                                                         *)
(* A JavaScript function is one action up to its next await.  The relay's  *)
(* handlers are one step each here: their own interleavings are the matter *)
(* of RelaySession.                                                        *)
(***************************************************************************)
EXTENDS Naturals, Sequences

CONSTANTS MaxAttempts, \* bound: how often the user asks for a QR code
          Mishaps      \* which of the events below may happen

\* network: a request or a connection fails.  stop: Chrome stops the idle worker.
\* cancel: the user presses a cancel button.  close: the user closes the popup.
AllMishaps == {"network", "stop", "cancel", "close"}

ASSUME AttemptsAssumption == MaxAttempts \in Nat
ASSUME MishapsAssumption == Mishaps \subseteq AllMishaps

Attempts == 1..MaxAttempts
None == 0   \* no attempt

VARIABLES
    session,   \* per attempt: its session at the relay, and is the QR's expiry past
    phone,     \* per attempt: the phone that scanned its QR
    sock,      \* per attempt: its WebSocket, with the events still to be heard
    timer,     \* per attempt: is the timeout of _waitForResponse running
    handler,   \* per attempt: where createUnlockSession and onmessage stand
    activeWS,  \* _activeWS: the attempt whose socket it is
    unlocked,  \* is _vaultKey set
    alarm,     \* is the auto-lock alarm set
    popup      \* the view, the attempt whose QR it shows, those whose QR it waits for

workerVars == <<sock, timer, handler, activeWS>>
lockVars == <<unlocked, alarm>>
vars == <<session, phone, sock, timer, handler, activeWS, unlocked, alarm, popup>>

\* -------------------------------------------------------------------------
\* Types

Session == [status : {"none", "pending", "responded", "used", "cancelled"}, expired : BOOLEAN]

Events == {"biometric_started", "biometric_failed", "session_responded"}

\* "closing": the worker closed it, it hears nothing more.  "ended": the relay or the
\* network did, with code 1000 if normal.  The last close event makes it "closed".
Socket == [state : {"none", "connecting", "open", "closing", "ended", "closed"},
           suppressed : BOOLEAN, normal : BOOLEAN, inbox : Seq(Events)]

TypeOK ==
    /\ session \in [Attempts -> Session]
    /\ phone \in [Attempts -> {"idle", "scanned", "prompted", "responded", "failed", "late"}]
    /\ sock \in [Attempts -> Socket]
    /\ timer \in [Attempts -> BOOLEAN]
    /\ handler \in [Attempts -> {"idle", "creating", "waiting", "retrieving", "fetched",
                                 "keyed", "unarmed", "done"}]
    /\ activeWS \in Attempts \cup {None}
    /\ unlocked \in BOOLEAN /\ alarm \in BOOLEAN
    /\ popup \in [view : {"closed", "loading", "locked", "qr", "biometric", "unlocked", "error"},
                  shows : Attempts \cup {None}, asks : SUBSET Attempts]

NoSocket == [state |-> "none", suppressed |-> FALSE, normal |-> FALSE, inbox |-> <<>>]

NoPopup == [view |-> "closed", shows |-> None, asks |-> {}]

Init ==
    /\ session = [u \in Attempts |-> [status |-> "none", expired |-> FALSE]]
    /\ phone = [u \in Attempts |-> "idle"]
    /\ sock = [u \in Attempts |-> NoSocket]
    /\ timer = [u \in Attempts |-> FALSE]
    /\ handler = [u \in Attempts |-> "idle"]
    /\ activeWS = None
    /\ unlocked = FALSE /\ alarm = FALSE
    /\ popup = NoPopup

\* -------------------------------------------------------------------------
\* What the worker does to the popup and to sockets

\* chrome.runtime.sendMessage: only an open popup hears it.
Push(view) == popup' = IF popup.view = "closed" THEN popup ELSE [popup EXCEPT !.view = view]

\* close() without a code, by the worker.
CloseSocket(s, u) ==
    IF s[u].state \in {"connecting", "open"}
    THEN [s EXCEPT ![u].state = "closing", ![u].inbox = <<>>]
    ELSE s

\* _suppressClose is set, then close().
CloseQuietly(s, u) == CloseSocket([s EXCEPT ![u].suppressed = TRUE], u)

\* The relay notifies the socket it has subscribed to the session.
Notified(s, u, e) ==
    IF s[u].state = "open" THEN [s EXCEPT ![u].inbox = Append(@, e)] ELSE s

\* -------------------------------------------------------------------------
\* The popup

\* init: GET_STATUS.
OpenPopup ==
    /\ popup.view \in {"closed", "error"}
    /\ popup' = [popup EXCEPT !.view = IF unlocked THEN "unlocked" ELSE "locked"]
    /\ UNCHANGED <<session, phone, workerVars, lockVars>>

\* showQR: START_UNLOCK makes the worker create a session.
PressShowQR ==
    /\ popup.view = "locked"
    /\ \E u \in Attempts :
           /\ handler[u] = "idle" /\ \A w \in Attempts : w < u => handler[w] # "idle"
           /\ handler' = [handler EXCEPT ![u] = "creating"]
           /\ popup' = [popup EXCEPT !.view = "loading", !.asks = @ \cup {u}]
    /\ UNCHANGED <<session, phone, sock, timer, activeWS, lockVars>>

\* After 10 s the popup stops waiting for START_UNLOCK.
ShowQRTimesOut(u) ==
    /\ u \in popup.asks
    /\ popup' = [popup EXCEPT !.view = "error", !.asks = @ \ {u}]
    /\ UNCHANGED <<session, phone, workerVars, lockVars>>

\* The countdown under the QR reaches zero.
CountdownEnds ==
    /\ popup.view = "qr" /\ session[popup.shows].expired
    /\ popup' = [popup EXCEPT !.view = "locked"]
    /\ UNCHANGED <<session, phone, workerVars, lockVars>>

\* CANCEL_UNLOCK, from the QR or the biometric view.  The relay is told nothing.
PressCancel ==
    /\ "cancel" \in Mishaps /\ popup.view \in {"qr", "biometric"}
    /\ popup' = [popup EXCEPT !.view = "locked"]
    /\ sock' = IF activeWS = None THEN sock ELSE CloseQuietly(sock, activeWS)
    /\ activeWS' = None
    /\ UNCHANGED <<session, phone, timer, handler, lockVars>>

ClosePopup ==
    /\ "close" \in Mishaps /\ popup.view # "closed"
    /\ popup' = NoPopup
    /\ UNCHANGED <<session, phone, workerVars, lockVars>>

PressLock ==
    /\ popup.view = "unlocked"
    /\ unlocked' = FALSE /\ alarm' = FALSE
    /\ Push("locked")
    /\ UNCHANGED <<session, phone, workerVars>>

\* -------------------------------------------------------------------------
\* The worker: createUnlockSession and _waitForResponse

\* The relay made the session; the socket opens and the timer starts, whatever _activeWS
\* was; the popup gets its QR if it still waits for it.
SessionCreated(u) ==
    /\ handler[u] = "creating"
    /\ handler' = [handler EXCEPT ![u] = "waiting"]
    /\ session' = [session EXCEPT ![u].status = "pending"]
    /\ sock' = [sock EXCEPT ![u].state = "connecting"]
    /\ timer' = [timer EXCEPT ![u] = TRUE]
    /\ activeWS' = u
    /\ popup' = IF u \in popup.asks
                THEN [view |-> "qr", shows |-> u, asks |-> popup.asks \ {u}] ELSE popup
    /\ UNCHANGED <<phone, lockVars>>

CreateFails(u) ==
    /\ "network" \in Mishaps /\ handler[u] = "creating"
    /\ handler' = [handler EXCEPT ![u] = "done"]
    /\ popup' = IF u \in popup.asks
                THEN [popup EXCEPT !.view = "error", !.asks = @ \ {u}] ELSE popup
    /\ UNCHANGED <<session, phone, sock, timer, activeWS, lockVars>>

\* The relay admits the subscriber of a pending session; others it closes with 4004.
SocketOpens(u) ==
    /\ sock[u].state = "connecting"
    /\ sock' = [sock EXCEPT ![u].state =
                    IF session[u].status = "pending" THEN "open" ELSE "ended"]
    /\ UNCHANGED <<session, phone, timer, handler, activeWS, lockVars, popup>>

\* onerror, before the close event of a connection that failed.
SocketFails(u) ==
    /\ "network" \in Mishaps
    /\ sock[u].state \in {"connecting", "open"} /\ sock[u].inbox = <<>>
    /\ sock' = [sock EXCEPT ![u].state = "ended"]
    /\ timer' = [timer EXCEPT ![u] = FALSE]
    /\ activeWS' = None
    /\ Push("error")
    /\ UNCHANGED <<session, phone, handler, lockVars>>

\* Faulty variant: the timer of a socket closed on purpose goes on.
SocketClosedKeepsTimer(u) ==
    /\ sock[u].state = "closing" \/ (sock[u].state = "ended" /\ sock[u].inbox = <<>>)
    /\ sock' = [sock EXCEPT ![u].state = "closed"]
    /\ IF sock[u].suppressed
       THEN UNCHANGED <<timer, activeWS, popup>>
       ELSE /\ timer' = [timer EXCEPT ![u] = FALSE]
            /\ activeWS' = None
            /\ IF sock[u].normal THEN UNCHANGED popup ELSE Push("error")
    /\ UNCHANGED <<session, phone, handler, lockVars>>

\* onclose: of a socket closed on purpose it stops the timer only.  close() without a code
\* is reported as code 1005, which is not 1000.
SocketClosed(u) ==
    /\ sock[u].state = "closing" \/ (sock[u].state = "ended" /\ sock[u].inbox = <<>>)
    /\ sock' = [sock EXCEPT ![u].state = "closed"]
    /\ timer' = [timer EXCEPT ![u] = FALSE]
    /\ IF sock[u].suppressed
       THEN UNCHANGED <<activeWS, popup>>
       ELSE /\ activeWS' = None
            /\ IF sock[u].normal THEN UNCHANGED popup ELSE Push("error")
    /\ UNCHANGED <<session, phone, handler, lockVars>>

\* The timeout, 2 s after the QR's expiry: it closes the active socket, whose it may be,
\* and sends QR_EXPIRED.  The 2 s are enough for events under way to u's own socket.
TimerFires(u) ==
    /\ timer[u] /\ session[u].expired /\ sock[u].inbox = <<>>
    /\ timer' = [timer EXCEPT ![u] = FALSE]
    /\ sock' = IF activeWS = None THEN sock ELSE CloseQuietly(sock, activeWS)
    /\ activeWS' = None
    /\ Push("locked")
    /\ UNCHANGED <<session, phone, handler, lockVars>>

\* -------------------------------------------------------------------------
\* The worker: onmessage

Hears(u, e) ==
    sock[u].state \in {"open", "ended"} /\ sock[u].inbox # <<>> /\ Head(sock[u].inbox) = e

Heard(u) == [sock EXCEPT ![u].inbox = Tail(@)]

\* Faulty variant: the event is pushed as the view.
HearStartedRaw(u) ==
    /\ Hears(u, "biometric_started")
    /\ sock' = Heard(u)
    /\ Push(Head(sock[u].inbox))
    /\ UNCHANGED <<session, phone, timer, handler, activeWS, lockVars>>

HearStarted(u) ==
    /\ Hears(u, "biometric_started")
    /\ sock' = Heard(u)
    /\ Push("biometric")
    /\ UNCHANGED <<session, phone, timer, handler, activeWS, lockVars>>

HearFailed(u) ==
    /\ Hears(u, "biometric_failed")
    /\ sock' = Heard(u)
    /\ timer' = [timer EXCEPT ![u] = FALSE]
    /\ activeWS' = None
    /\ Push("locked")
    /\ UNCHANGED <<session, phone, handler, lockVars>>

\* Faulty variant: _activeWS is not reset.
HearRespondedKeepsActive(u) ==
    /\ Hears(u, "session_responded")
    /\ timer' = [timer EXCEPT ![u] = FALSE]
    /\ sock' = IF activeWS = None THEN Heard(u) ELSE CloseSocket(Heard(u), activeWS)
    /\ handler' = [handler EXCEPT ![u] = IF activeWS = None THEN "done" ELSE "retrieving"]
    /\ UNCHANGED <<session, phone, activeWS, lockVars, popup>>

\* session_responded: _activeWS, which may be another attempt's, is closed and the
\* response retrieved.  Without an active socket, close() throws: nobody is told.
HearResponded(u) ==
    /\ Hears(u, "session_responded")
    /\ timer' = [timer EXCEPT ![u] = FALSE]
    /\ sock' = IF activeWS = None THEN Heard(u) ELSE CloseSocket(Heard(u), activeWS)
    /\ activeWS' = None
    /\ handler' = [handler EXCEPT ![u] = IF activeWS = None THEN "done" ELSE "retrieving"]
    /\ UNCHANGED <<session, phone, lockVars, popup>>

\* _retrieveAndDecrypt fetches the response ...
Retrieve(u) ==
    /\ handler[u] = "retrieving" /\ session[u].status = "responded"
    /\ session' = [session EXCEPT ![u].status = "used"]
    /\ handler' = [handler EXCEPT ![u] = "fetched"]
    /\ UNCHANGED <<phone, sock, timer, activeWS, lockVars, popup>>

\* ... or fails to, or cannot decrypt it: UNLOCK_FAILED.
RetrieveFails(u) ==
    /\ "network" \in Mishaps /\ handler[u] \in {"retrieving", "fetched"}
    /\ handler' = [handler EXCEPT ![u] = "done"]
    /\ Push("error")
    /\ UNCHANGED <<session, phone, sock, timer, activeWS, lockVars>>

\* setVaultKey.
SetVaultKey(u) ==
    /\ handler[u] = "fetched"
    /\ unlocked' = TRUE
    /\ handler' = [handler EXCEPT ![u] = "keyed"]
    /\ UNCHANGED <<session, phone, sock, timer, activeWS, alarm, popup>>

\* The auto-lock alarm is cleared, then created anew.
ClearAlarm(u) ==
    /\ handler[u] = "keyed"
    /\ alarm' = FALSE
    /\ handler' = [handler EXCEPT ![u] = "unarmed"]
    /\ UNCHANGED <<session, phone, sock, timer, activeWS, unlocked, popup>>

\* Faulty variant: the alarm is cleared and not created.
UnlockWithoutAlarm(u) ==
    /\ handler[u] = "unarmed"
    /\ handler' = [handler EXCEPT ![u] = "done"]
    /\ Push(IF unlocked THEN "unlocked" ELSE "locked")
    /\ UNCHANGED <<session, phone, sock, timer, activeWS, lockVars>>

\* chrome.alarms.create and UNLOCK_COMPLETE; the popup loads the vault if there is one.
CreateAlarm(u) ==
    /\ handler[u] = "unarmed"
    /\ alarm' = TRUE
    /\ handler' = [handler EXCEPT ![u] = "done"]
    /\ Push(IF unlocked THEN "unlocked" ELSE "locked")
    /\ UNCHANGED <<session, phone, sock, timer, activeWS, unlocked>>

\* The auto-lock alarm: lockVault.
AutoLock ==
    /\ alarm
    /\ alarm' = FALSE /\ unlocked' = FALSE
    /\ IF unlocked THEN Push("locked") ELSE UNCHANGED popup
    /\ UNCHANGED <<session, phone, workerVars>>

\* Chrome stops a worker that handles no event: its memory, sockets and timers are gone,
\* the alarm stays.
Busy == {"creating", "retrieving", "fetched", "keyed", "unarmed"}

WorkerStops ==
    /\ "stop" \in Mishaps
    /\ \A u \in Attempts : handler[u] \notin Busy
    /\ sock' = [u \in Attempts |->
                   IF sock[u].state = "none" THEN sock[u] ELSE [NoSocket EXCEPT !.state = "closed"]]
    /\ timer' = [u \in Attempts |-> FALSE]
    /\ handler' = [u \in Attempts |-> IF handler[u] = "waiting" THEN "done" ELSE handler[u]]
    /\ activeWS' = None
    /\ unlocked' = FALSE
    /\ UNCHANGED <<session, phone, alarm, popup>>

\* -------------------------------------------------------------------------
\* Time and the phone

\* Sessions expire in the order they were made.
Expire(u) ==
    /\ session[u].status # "none" /\ ~session[u].expired
    /\ \A w \in Attempts : w < u /\ session[w].status # "none" => session[w].expired
    /\ session' = [session EXCEPT ![u].expired = TRUE]
    /\ UNCHANGED <<phone, workerVars, lockVars, popup>>

\* onQRDetected, while the popup shows the code.  Bound: a QR is scanned once.
PhoneScans(u) ==
    /\ popup.view = "qr" /\ popup.shows = u
    /\ phone[u] = "idle" /\ ~session[u].expired
    /\ phone' = [phone EXCEPT ![u] = "scanned"]
    /\ UNCHANGED <<session, workerVars, lockVars, popup>>

\* The ack; the biometric prompt follows whether it worked or not.
PhoneAcks(u) ==
    /\ phone[u] = "scanned"
    /\ phone' = [phone EXCEPT ![u] = "prompted"]
    /\ \/ /\ session[u].status = "pending"
          /\ sock' = Notified(sock, u, "biometric_started")
       \/ /\ session[u].status # "pending" \/ "network" \in Mishaps
          /\ UNCHANGED sock
    /\ UNCHANGED <<session, timer, handler, activeWS, lockVars, popup>>

\* onBiometricSuccess: the response is stored and announced, or refused or lost, of which
\* the extension hears nothing.
PhoneResponds(u) ==
    /\ phone[u] = "prompted"
    /\ \/ /\ session[u].status = "pending" /\ ~session[u].expired
          /\ phone' = [phone EXCEPT ![u] = "responded"]
          /\ session' = [session EXCEPT ![u].status = "responded"]
          /\ sock' = Notified(sock, u, "session_responded")
       \/ /\ session[u].status # "pending" \/ session[u].expired \/ "network" \in Mishaps
          /\ phone' = [phone EXCEPT ![u] = "late"]
          /\ UNCHANGED <<session, sock>>
    /\ UNCHANGED <<timer, handler, activeWS, lockVars, popup>>

\* onAuthenticationError: DELETE ?reason=biometric_failed, and the hub hangs up with 1000.
PhoneFails(u) ==
    /\ "cancel" \in Mishaps /\ phone[u] = "prompted"
    /\ phone' = [phone EXCEPT ![u] = "failed"]
    /\ IF session[u].status # "pending" THEN UNCHANGED <<session, sock>>
       ELSE /\ session' = [session EXCEPT ![u].status = "cancelled"]
            /\ sock' = IF sock[u].state # "open" THEN sock
                       ELSE [sock EXCEPT ![u].state = "ended", ![u].normal = TRUE,
                                         ![u].inbox = Append(@, "biometric_failed")]
    /\ UNCHANGED <<timer, handler, activeWS, lockVars, popup>>

\* -------------------------------------------------------------------------

WorkerStep(u) ==
    \/ SessionCreated(u) \/ SocketOpens(u) \/ SocketClosed(u)
    \/ HearStarted(u) \/ HearFailed(u) \/ HearResponded(u)
    \/ Retrieve(u) \/ SetVaultKey(u) \/ ClearAlarm(u) \/ CreateAlarm(u)

PhoneStep(u) == PhoneAcks(u) \/ PhoneResponds(u)

PopupStep == CountdownEnds \/ \E u \in Attempts : ShowQRTimesOut(u)

Next ==
    \/ OpenPopup \/ PressShowQR \/ PopupStep \/ PressCancel \/ ClosePopup \/ PressLock
    \/ AutoLock \/ WorkerStops
    \/ \E u \in Attempts :
           \/ WorkerStep(u) \/ CreateFails(u) \/ SocketFails(u) \/ RetrieveFails(u)
           \/ TimerFires(u) \/ Expire(u)
           \/ PhoneScans(u) \/ PhoneStep(u) \/ PhoneFails(u)

Spec == Init /\ [][Next]_vars

\* Callbacks whose event has come are run, timers and alarms go off, and a phone that
\* scanned goes on to its answer.  Nobody has to press, scan or fail anything.
Fairness ==
    /\ WF_vars(PopupStep) /\ WF_vars(AutoLock)
    /\ \A u \in Attempts :
           /\ WF_vars(WorkerStep(u)) /\ WF_vars(TimerFires(u))
           /\ WF_vars(Expire(u)) /\ WF_vars(PhoneStep(u))

FairSpec == Spec /\ Fairness

\* -------------------------------------------------------------------------
\* Properties

\* An unlocked vault has its auto-lock alarm, or a handler is about to set it: of several
\* unlocks, locks and clears in any order, the last one leaves an alarm if a key is left.
UnlockedVaultWillLock ==
    unlocked => alarm \/ \E u \in Attempts : handler[u] \in {"keyed", "unarmed"}

\* The active socket is one that can still speak, and its timer runs: a wait has an end.
ActiveWaitHasTimer ==
    activeWS # None => timer[activeWS] /\ sock[activeWS].state \in {"connecting", "open", "ended"}

\* No timer outlives its socket: what a timer closes late is another attempt's socket, so
\* this bounds how long an old attempt can disturb a new one.
TimerDiesWithSocket ==
    \A u \in Attempts : timer[u] => sock[u].state \notin {"none", "closed"}

\* The vault does not stay unlocked for ever: whatever unlocks, presses and worker stops
\* come in between, the alarm locks it.
EventuallyLocked == unlocked ~> ~unlocked
=============================================================================
