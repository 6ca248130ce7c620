------------------------- MODULE UnlockWorkerProofs -------------------------
(***************************************************************************)
(* Proofs about UnlockWorker for any number of unlock attempts and every   *)
(* choice of mishaps: types, that an unlocked vault has its auto-lock      *)
(* alarm, that waits have timers and timers have sockets, and that a key   *)
(* in memory comes from the answer of a phone.                             *)
(***************************************************************************)
EXTENDS UnlockWorker, TLAPS

\* -------------------------------------------------------------------------
\* Types

\* Attempts are numbers other than None.
LEMMA NoneIsNoAttempt == None \notin Attempts
  BY AttemptsAssumption DEF None, Attempts

Popups == [view : {"closed", "loading", "locked", "qr", "biometric", "unlocked", "error"},
           shows : Attempts \cup {None}, asks : SUBSET Attempts]

\* The initial values have the types of TypeOK.
LEMMA InitTyped == Init => TypeOK
<1>1. NoSocket \in Socket
  BY DEF NoSocket, Socket, Events
<1>2. Init => session \in [Attempts -> Session] /\ sock \in [Attempts -> Socket]
  BY <1>1 DEF Init, Session
<1>3. Init => popup \in Popups
  BY DEF Init, NoPopup, Popups
<1> QED
  BY <1>2, <1>3 DEF Init, TypeOK, Popups

\* Closing sockets, on purpose or not, leaves sockets.
LEMMA CloseTyped ==
  ASSUME NEW s \in [Attempts -> Socket], NEW u \in Attempts
  PROVE  /\ CloseSocket(s, u) \in [Attempts -> Socket]
         /\ CloseQuietly(s, u) \in [Attempts -> Socket]
<1>1. ASSUME NEW t \in [Attempts -> Socket]
      PROVE  CloseSocket(t, u) \in [Attempts -> Socket]
  <2>1. t[u] \in Socket /\ <<>> \in Seq(Events)
    OBVIOUS
  <2>2. [t[u] EXCEPT !.state = "closing", !.inbox = <<>>] \in Socket
    BY <2>1 DEF Socket
  <2> QED
    BY <2>2 DEF CloseSocket
<1>2. [s EXCEPT ![u].suppressed = TRUE] \in [Attempts -> Socket]
  BY DEF Socket
<1> QED
  BY <1>1, <1>2 DEF CloseQuietly

\* A notification is one more event in an inbox, or lost.
LEMMA NotifiedTyped ==
  ASSUME NEW s \in [Attempts -> Socket], NEW u \in Attempts, NEW e \in Events
  PROVE  Notified(s, u, e) \in [Attempts -> Socket]
<1>1. s[u] \in Socket /\ s[u].inbox \in Seq(Events)
  BY DEF Socket
<1>2. Append(s[u].inbox, e) \in Seq(Events)
  BY <1>1
<1> QED
  BY <1>1, <1>2 DEF Notified, Socket

\* Hearing an event leaves the rest of the inbox.
LEMMA HeardTyped ==
  ASSUME TypeOK, NEW u \in Attempts, sock[u].inbox # <<>>
  PROVE  Heard(u) \in [Attempts -> Socket]
<1>1. sock[u] \in Socket /\ sock[u].inbox \in Seq(Events)
  BY DEF TypeOK, Socket
<1>2. Tail(sock[u].inbox) \in Seq(Events)
  BY <1>1
<1> QED
  BY <1>1, <1>2 DEF TypeOK, Heard, Socket

\* What the worker pushes is a view, or nobody hears it.
LEMMA PushTyped ==
  ASSUME TypeOK, NEW view \in {"locked", "biometric", "unlocked", "error"}, Push(view)
  PROVE  popup' \in Popups
<1>1. popup \in Popups
  BY DEF TypeOK, Popups
<1>2. [popup EXCEPT !.view = view] \in Popups
  BY <1>1 DEF Popups
<1> QED
  BY <1>1, <1>2 DEF Push

\* The steps of the popup and of its user.
LEMMA PopupTyped ==
  ASSUME TypeOK,
         \/ OpenPopup \/ PressShowQR \/ PopupStep \/ PressCancel \/ ClosePopup \/ PressLock
         \/ AutoLock \/ WorkerStops
  PROVE  TypeOK'
<1> USE DEF workerVars, lockVars
<1>a. popup \in Popups
  BY DEF TypeOK, Popups
<1>1. CASE OpenPopup
  <2>1. popup' \in Popups
    BY <1>1, <1>a DEF OpenPopup, Popups
  <2> QED
    BY <1>1, <2>1 DEF OpenPopup, TypeOK, Popups
<1>2. CASE PressShowQR
  <2>1. PICK u \in Attempts :
           /\ handler' = [handler EXCEPT ![u] = "creating"]
           /\ popup' = [popup EXCEPT !.view = "loading", !.asks = @ \cup {u}]
    BY <1>2 DEF PressShowQR
  <2>2. popup' \in Popups
    BY <1>a, <2>1 DEF Popups
  <2> QED
    BY <1>2, <2>1, <2>2 DEF PressShowQR, TypeOK, Popups
<1>3. CASE PopupStep
  <2>1. popup' \in Popups
    BY <1>3, <1>a DEF PopupStep, CountdownEnds, ShowQRTimesOut, Popups
  <2> QED
    BY <1>3, <2>1 DEF PopupStep, CountdownEnds, ShowQRTimesOut, TypeOK, Popups
<1>4. CASE PressCancel
  <2>1. popup' \in Popups
    BY <1>4, <1>a DEF PressCancel, Popups
  <2>2. sock' \in [Attempts -> Socket]
    BY <1>4, CloseTyped DEF PressCancel, TypeOK
  <2> QED
    BY <1>4, <2>1, <2>2 DEF PressCancel, TypeOK, Popups
<1>5. CASE ClosePopup
  BY <1>5 DEF ClosePopup, NoPopup, TypeOK
<1>6. CASE PressLock
  <2>1. popup' \in Popups
    BY <1>6, PushTyped DEF PressLock
  <2> QED
    BY <1>6, <2>1 DEF PressLock, TypeOK, Popups
<1>7. CASE AutoLock
  <2>1. popup' \in Popups
    BY <1>7, <1>a, PushTyped DEF AutoLock
  <2> QED
    BY <1>7, <2>1 DEF AutoLock, TypeOK, Popups
<1>8. CASE WorkerStops
  <2>a. NoSocket \in Socket
    BY DEF NoSocket, Socket, Events
  <2>1. [NoSocket EXCEPT !.state = "closed"] \in Socket
    BY <2>a DEF Socket
  <2>2. sock' \in [Attempts -> Socket]
    BY <1>8, <2>1 DEF WorkerStops, TypeOK
  <2> QED
    BY <1>8, <2>2 DEF WorkerStops, TypeOK
<1> QED
  BY <1>1, <1>2, <1>3, <1>4, <1>5, <1>6, <1>7, <1>8

\* The steps of createUnlockSession, _waitForResponse and their sockets.
LEMMA WaitTyped ==
  ASSUME TypeOK, NEW u \in Attempts,
         \/ SessionCreated(u) \/ CreateFails(u) \/ SocketOpens(u) \/ SocketFails(u)
         \/ SocketClosed(u) \/ TimerFires(u)
  PROVE  TypeOK'
<1> USE DEF workerVars, lockVars
<1>a. popup \in Popups /\ sock[u] \in Socket
  BY DEF TypeOK, Popups
<1>1. CASE SessionCreated(u)
  <2>1. popup' \in Popups
    BY <1>1, <1>a DEF SessionCreated, Popups
  <2>a. [sock[u] EXCEPT !.state = "connecting"] \in Socket
    BY <1>a DEF Socket
  <2>b. [session[u] EXCEPT !.status = "pending"] \in Session
    BY DEF TypeOK, Session
  <2>2. sock' \in [Attempts -> Socket] /\ session' \in [Attempts -> Session]
    BY <1>1, <2>a, <2>b DEF SessionCreated, TypeOK
  <2> QED
    BY <1>1, <2>1, <2>2 DEF SessionCreated, TypeOK, Popups
<1>2. CASE CreateFails(u)
  <2>1. popup' \in Popups
    BY <1>2, <1>a DEF CreateFails, Popups
  <2> QED
    BY <1>2, <2>1 DEF CreateFails, TypeOK, Popups
<1>3. CASE SocketOpens(u)
  <2>a. \A x \in {"open", "ended"} : [sock[u] EXCEPT !.state = x] \in Socket
    BY <1>a DEF Socket
  <2>1. sock' \in [Attempts -> Socket]
    BY <1>3, <2>a DEF SocketOpens, TypeOK
  <2> QED
    BY <1>3, <2>1 DEF SocketOpens, TypeOK
<1>4. CASE SocketFails(u)
  <2>1. sock' \in [Attempts -> Socket]
    BY <1>4 DEF SocketFails, TypeOK, Socket
  <2>2. popup' \in Popups
    BY <1>4, PushTyped DEF SocketFails
  <2> QED
    BY <1>4, <2>1, <2>2 DEF SocketFails, TypeOK, Popups
<1>5. CASE SocketClosed(u)
  <2>1. sock' \in [Attempts -> Socket]
    BY <1>5 DEF SocketClosed, TypeOK, Socket
  <2>2. popup' \in Popups /\ activeWS' \in Attempts \cup {None}
    BY <1>5, <1>a, PushTyped DEF SocketClosed, TypeOK
  <2> QED
    BY <1>5, <2>1, <2>2 DEF SocketClosed, TypeOK, Popups
<1>6. CASE TimerFires(u)
  <2>1. sock' \in [Attempts -> Socket]
    BY <1>6, CloseTyped DEF TimerFires, TypeOK
  <2>2. popup' \in Popups
    BY <1>6, PushTyped DEF TimerFires
  <2> QED
    BY <1>6, <2>1, <2>2 DEF TimerFires, TypeOK, Popups
<1> QED
  BY <1>1, <1>2, <1>3, <1>4, <1>5, <1>6

\* The steps of onmessage and of what it awaits.
LEMMA HearTyped ==
  ASSUME TypeOK, NEW u \in Attempts,
         \/ HearStarted(u) \/ HearFailed(u) \/ HearResponded(u)
         \/ Retrieve(u) \/ RetrieveFails(u) \/ SetVaultKey(u) \/ ClearAlarm(u) \/ CreateAlarm(u)
  PROVE  TypeOK'
<1> USE DEF workerVars, lockVars
<1>1. CASE HearStarted(u)
  <2>1. Heard(u) \in [Attempts -> Socket] /\ popup' \in Popups
    BY <1>1, HeardTyped, PushTyped DEF HearStarted, Hears
  <2> QED
    BY <1>1, <2>1 DEF HearStarted, TypeOK, Popups
<1>2. CASE HearFailed(u)
  <2>1. Heard(u) \in [Attempts -> Socket] /\ popup' \in Popups
    BY <1>2, HeardTyped, PushTyped DEF HearFailed, Hears
  <2> QED
    BY <1>2, <2>1 DEF HearFailed, TypeOK, Popups
<1>3. CASE HearResponded(u)
  <2>1. Heard(u) \in [Attempts -> Socket]
    BY <1>3, HeardTyped DEF HearResponded, Hears
  <2>2. sock' \in [Attempts -> Socket]
    BY <1>3, <2>1, CloseTyped DEF HearResponded, TypeOK
  <2> QED
    BY <1>3, <2>2 DEF HearResponded, TypeOK
<1>4. CASE Retrieve(u)
  <2>1. session' \in [Attempts -> Session]
    BY <1>4 DEF Retrieve, TypeOK, Session
  <2> QED
    BY <1>4, <2>1 DEF Retrieve, TypeOK
<1>5. CASE RetrieveFails(u)
  <2>1. popup' \in Popups
    BY <1>5, PushTyped DEF RetrieveFails
  <2> QED
    BY <1>5, <2>1 DEF RetrieveFails, TypeOK, Popups
<1>6. CASE SetVaultKey(u)
  BY <1>6 DEF SetVaultKey, TypeOK
<1>7. CASE ClearAlarm(u)
  BY <1>7 DEF ClearAlarm, TypeOK
<1>8. CASE CreateAlarm(u)
  <2>1. popup' \in Popups
    BY <1>8, PushTyped DEF CreateAlarm
  <2> QED
    BY <1>8, <2>1 DEF CreateAlarm, TypeOK, Popups
<1> QED
  BY <1>1, <1>2, <1>3, <1>4, <1>5, <1>6, <1>7, <1>8

\* The steps of time and of the phone.
LEMMA PhoneTyped ==
  ASSUME TypeOK, NEW u \in Attempts,
         Expire(u) \/ PhoneScans(u) \/ PhoneStep(u) \/ PhoneFails(u)
  PROVE  TypeOK'
<1> USE DEF workerVars, lockVars
<1>0. session \in [Attempts -> Session] /\ session[u] \in Session
  BY DEF TypeOK
<1>a. [session[u] EXCEPT !.expired = TRUE] \in Session
  BY <1>0 DEF Session
<1>b. \A s \in {"responded", "cancelled"} : [session[u] EXCEPT !.status = s] \in Session
  BY <1>0 DEF Session
<1>1. CASE Expire(u)
  <2>1. session' \in [Attempts -> Session]
    BY <1>1, <1>0, <1>a DEF Expire
  <2> QED
    BY <1>1, <2>1 DEF Expire, TypeOK
<1>2. CASE PhoneScans(u)
  BY <1>2 DEF PhoneScans, TypeOK
<1>3. CASE PhoneAcks(u)
  <2>1. sock' \in [Attempts -> Socket]
    BY <1>3, NotifiedTyped DEF PhoneAcks, TypeOK, Events
  <2> QED
    BY <1>3, <2>1 DEF PhoneAcks, TypeOK
<1>4. CASE PhoneResponds(u)
  <2>1. sock' = sock \/ sock' = Notified(sock, u, "session_responded")
    BY <1>4 DEF PhoneResponds
  <2>2. sock' \in [Attempts -> Socket]
    BY <2>1, NotifiedTyped DEF TypeOK, Events
  <2>3. session' = session \/ session' = [session EXCEPT ![u].status = "responded"]
    BY <1>4 DEF PhoneResponds
  <2>4. session' \in [Attempts -> Session]
    BY <2>3, <1>0, <1>b
  <2> QED
    BY <1>4, <2>2, <2>4 DEF PhoneResponds, TypeOK
<1>5. CASE PhoneFails(u)
  <2>1. session' = session \/ session' = [session EXCEPT ![u].status = "cancelled"]
    BY <1>5 DEF PhoneFails
  <2>2. session' \in [Attempts -> Session]
    BY <2>1, <1>0, <1>b
  <2>3. sock[u] \in Socket /\ Append(sock[u].inbox, "biometric_failed") \in Seq(Events)
    BY DEF TypeOK, Socket, Events
  <2>4. [sock[u] EXCEPT !.state = "ended", !.normal = TRUE,
                        !.inbox = Append(@, "biometric_failed")] \in Socket
    BY <2>3 DEF Socket
  <2>5. sock' \in [Attempts -> Socket]
    BY <1>5, <2>4 DEF PhoneFails, TypeOK
  <2> QED
    BY <1>5, <2>2, <2>5 DEF PhoneFails, TypeOK
<1> QED
  BY <1>1, <1>2, <1>3, <1>4, <1>5 DEF PhoneStep

\* Every step keeps the types.
LEMMA StepTyped == TypeOK /\ [Next]_vars => TypeOK'
<1> SUFFICES ASSUME TypeOK, [Next]_vars PROVE TypeOK'
  OBVIOUS
<1>1. CASE UNCHANGED vars
  BY <1>1 DEF vars, TypeOK
<1>2. CASE Next
  BY <1>2, PopupTyped, WaitTyped, HearTyped, PhoneTyped DEF Next, WorkerStep
<1> QED
  BY <1>1, <1>2

\* Every variable keeps its type, for any number of attempts.
THEOREM TypeCorrect == Spec => []TypeOK
  BY InitTyped, StepTyped, PTL DEF Spec

\* -------------------------------------------------------------------------
\* The inductive invariant

\* The relay announces a response once: session_responded is in no inbox twice, nor while
\* the session is pending, nor once its handler retrieves the response.
Announced(u) == \E i \in DOMAIN sock[u].inbox : sock[u].inbox[i] = "session_responded"

AnnouncedOnce(u) ==
    /\ session[u].status = "pending" => handler[u] \in {"waiting", "done"}
    /\ Announced(u) => /\ session[u].status # "pending"
                       /\ handler[u] \notin {"retrieving", "fetched", "keyed", "unarmed"}
    /\ \A i, j \in DOMAIN sock[u].inbox :
           sock[u].inbox[i] = "session_responded" /\ sock[u].inbox[j] = "session_responded"
               => i = j

\* An attempt has no socket before its session is created.
SocketAfterSession(u) == handler[u] \in {"idle", "creating"} => sock[u] = NoSocket

\* _activeWS was never closed quietly.
ActiveNotSuppressed == activeWS # None => ~sock[activeWS].suppressed

\* The first two parts hold the alarm: a second session_responded would send a handler that
\* has set the key back to retrieving.  The others hold the sockets and the timers.
UnlockInv ==
    /\ \A u \in Attempts : AnnouncedOnce(u)
    /\ UnlockedVaultWillLock
    /\ \A u \in Attempts : SocketAfterSession(u)
    /\ ActiveNotSuppressed /\ ActiveWaitHasTimer /\ TimerDiesWithSocket

\* Initially nothing is unlocked, no socket exists and no timer runs.
LEMMA InitInv == Init => UnlockInv
<1> SUFFICES ASSUME Init PROVE UnlockInv
  OBVIOUS
<1>1. ASSUME NEW u \in Attempts
      PROVE  AnnouncedOnce(u) /\ SocketAfterSession(u)
  BY DEF Init, NoSocket, AnnouncedOnce, Announced, SocketAfterSession
<1> QED
  BY <1>1 DEF Init, UnlockInv, UnlockedVaultWillLock, ActiveNotSuppressed, ActiveWaitHasTimer,
              TimerDiesWithSocket

\* Closing a socket touches no other, and may empty its inbox.
LEMMA CloseFacts ==
  ASSUME NEW s \in [Attempts -> Socket], NEW u \in Attempts, NEW w \in Attempts
  PROVE  /\ w # u => CloseSocket(s, u)[w] = s[w] /\ CloseQuietly(s, u)[w] = s[w]
         /\ CloseSocket(s, u)[w].inbox \in {s[w].inbox, <<>>}
         /\ CloseQuietly(s, u)[w].inbox \in {s[w].inbox, <<>>}
         /\ CloseSocket(s, u)[w].state \in {s[w].state, "closing"}
         /\ CloseQuietly(s, u)[w].state \in {s[w].state, "closing"}
<1>1. ASSUME NEW t \in [Attempts -> Socket]
      PROVE  /\ w # u => CloseSocket(t, u)[w] = t[w]
             /\ CloseSocket(t, u)[w].inbox \in {t[w].inbox, <<>>}
             /\ CloseSocket(t, u)[w].state \in {t[w].state, "closing"}
  BY DEF CloseSocket, Socket
<1>2. /\ [s EXCEPT ![u].suppressed = TRUE] \in [Attempts -> Socket]
      /\ [s EXCEPT ![u].suppressed = TRUE][w].inbox = s[w].inbox
      /\ [s EXCEPT ![u].suppressed = TRUE][w].state = s[w].state
      /\ w # u => [s EXCEPT ![u].suppressed = TRUE][w] = s[w]
  BY DEF Socket
<1> QED
  BY <1>1, <1>2 DEF CloseQuietly

\* The socket that is active has a session.
LEMMA ActiveHasSession ==
  ASSUME TypeOK, UnlockInv, activeWS # None
  PROVE  activeWS \in Attempts /\ handler[activeWS] \notin {"idle", "creating"}
<1>1. activeWS \in Attempts
  BY DEF TypeOK
<1>2. sock[activeWS].state # "none"
  BY <1>1 DEF UnlockInv, ActiveWaitHasTimer
<1> QED
  BY <1>1, <1>2 DEF UnlockInv, SocketAfterSession, NoSocket

\* What leaves session and handler of an attempt alone, and at most empties its inbox.
LEMMA AnnounceFrame ==
  ASSUME NEW w \in Attempts, AnnouncedOnce(w), handler'[w] = handler[w],
         session'[w].status # "pending" \/ session'[w].status = session[w].status,
         sock'[w].inbox \in {sock[w].inbox, <<>>}
  PROVE  AnnouncedOnce(w)'
  BY DEF AnnouncedOnce, Announced

\* The rest of an inbox whose head is another event announces what the inbox did.
LEMMA HeardFacts ==
  ASSUME TypeOK, NEW u \in Attempts, NEW e \in Events, Hears(u, e)
  PROVE  /\ \A w \in Attempts : w # u => Heard(u)[w] = sock[w]
         /\ Heard(u)[u].state = sock[u].state
         /\ Heard(u)[u].suppressed = sock[u].suppressed
         /\ Len(Heard(u)[u].inbox) = Len(sock[u].inbox) - 1
         /\ \A i \in DOMAIN Heard(u)[u].inbox :
               i + 1 \in DOMAIN sock[u].inbox /\ Heard(u)[u].inbox[i] = sock[u].inbox[i + 1]
<1>1. sock[u] \in Socket /\ sock[u].inbox \in Seq(Events) /\ sock[u].inbox # <<>>
  BY DEF TypeOK, Socket, Hears
<1>2. Heard(u)[u] = [sock[u] EXCEPT !.inbox = Tail(@)]
  BY DEF Heard, TypeOK
<1>3. Heard(u)[u].inbox = Tail(sock[u].inbox)
  BY <1>1, <1>2 DEF Socket
<1>4. Len(Tail(sock[u].inbox)) = Len(sock[u].inbox) - 1
  BY <1>1
<1>5. \A i \in DOMAIN Tail(sock[u].inbox) :
         i + 1 \in DOMAIN sock[u].inbox /\ Tail(sock[u].inbox)[i] = sock[u].inbox[i + 1]
  BY <1>1
<1> QED
  BY <1>1, <1>2, <1>3, <1>4, <1>5 DEF Heard, TypeOK, Socket

\* Hearing an event leaves AnnouncedOnce, unless it is the announcement and the handler
\* goes on as if it were not.
LEMMA HeardOnce ==
  ASSUME TypeOK, UnlockInv, NEW u \in Attempts, NEW e \in Events, Hears(u, e),
         sock'[u].inbox \in {Heard(u)[u].inbox, <<>>},
         session'[u].status = session[u].status,
         IF e = "session_responded" THEN handler'[u] \in {"retrieving", "done"}
                                    ELSE handler'[u] = handler[u]
  PROVE  AnnouncedOnce(u)'
<1> DEFINE old == sock[u].inbox
           new == Heard(u)[u].inbox
<1>1. sock[u] \in Socket /\ old \in Seq(Events) /\ old # <<>> /\ 1 \in DOMAIN old /\ old[1] = e
  BY DEF TypeOK, Socket, Hears
<1>2. \A i \in DOMAIN new : i \in Nat /\ i >= 1 /\ i + 1 \in DOMAIN old /\ new[i] = old[i + 1]
  <2>1. new \in Seq(Events)
    BY HeardTyped, <1>1 DEF Socket
  <2> QED
    BY <2>1, HeardFacts
<1>3. AnnouncedOnce(u)
  BY DEF UnlockInv
<1>4. \A i, j \in DOMAIN new :
         new[i] = "session_responded" /\ new[j] = "session_responded" => i = j
  BY <1>2, <1>3 DEF AnnouncedOnce
<1>5. CASE e = "session_responded"
  <2>1. \A i \in DOMAIN new : new[i] # "session_responded"
    BY <1>1, <1>2, <1>3, <1>5 DEF AnnouncedOnce
  <2>2. session[u].status # "pending"
    BY <1>1, <1>3, <1>5 DEF AnnouncedOnce, Announced
  <2>3. ~Announced(u)'
    BY <2>1 DEF Announced
  <2> QED
    BY <1>4, <2>2, <2>3 DEF AnnouncedOnce
<1>6. CASE e # "session_responded"
  <2>1. Announced(u)' => Announced(u)
    BY <1>2 DEF Announced
  <2> QED
    BY <1>3, <1>4, <1>6, <2>1 DEF AnnouncedOnce
<1> QED
  BY <1>5, <1>6

\* The announcement is made when the session stops being pending.
LEMMA NotifiedOnce ==
  ASSUME TypeOK, UnlockInv, NEW u \in Attempts, NEW e \in Events,
         session[u].status = "pending", handler'[u] = handler[u],
         e = "session_responded" => session'[u].status # "pending",
         \/ sock'[u].inbox = Append(sock[u].inbox, e)
         \/ sock'[u].inbox = sock[u].inbox,
         session'[u].status \in {"pending", "responded", "cancelled"}
  PROVE  AnnouncedOnce(u)'
<1> DEFINE old == sock[u].inbox
           new == Append(old, e)
<1>1. AnnouncedOnce(u) /\ old \in Seq(Events)
  BY DEF UnlockInv, TypeOK, Socket
<1>2. \A i \in DOMAIN old : old[i] # "session_responded"
  BY <1>1 DEF AnnouncedOnce, Announced
<1>3. \A i \in DOMAIN new : \/ i = Len(old) + 1 /\ new[i] = e
                            \/ i \in DOMAIN old /\ new[i] = old[i]
  BY <1>1
<1>4. handler'[u] \in {"waiting", "done"}
  BY <1>1 DEF AnnouncedOnce
<1>5. CASE sock'[u].inbox = old
  BY <1>2, <1>4, <1>5 DEF AnnouncedOnce, Announced
<1>6. CASE sock'[u].inbox = new
  BY <1>2, <1>3, <1>4, <1>6 DEF AnnouncedOnce, Announced
<1> QED
  BY <1>5, <1>6

\* Every step keeps the announcements and the sockets' sessions of every attempt: the steps
\* of the popup and of Chrome ...
LEMMA PopupKeepsOnce ==
  ASSUME TypeOK, UnlockInv, NEW w \in Attempts,
         \/ OpenPopup \/ PressShowQR \/ PopupStep \/ PressCancel \/ ClosePopup \/ PressLock
         \/ AutoLock \/ WorkerStops
  PROVE  AnnouncedOnce(w)' /\ SocketAfterSession(w)'
<1> USE DEF workerVars, lockVars
<1>a. AnnouncedOnce(w) /\ SocketAfterSession(w)
  BY DEF UnlockInv
<1>1. CASE UNCHANGED <<session, sock, handler>>
  BY <1>1, <1>a, AnnounceFrame DEF SocketAfterSession
<1>2. CASE PressShowQR
  <2>1. PICK u \in Attempts : handler[u] = "idle" /\ handler' = [handler EXCEPT ![u] = "creating"]
    BY <1>2 DEF PressShowQR
  <2>2. UNCHANGED <<session, sock>>
    BY <1>2 DEF PressShowQR
  <2>3. CASE w = u
    <3>1. sock[w] = NoSocket /\ session[w].status # "pending"
      BY <1>a, <2>1, <2>3 DEF SocketAfterSession, AnnouncedOnce
    <3> QED
      BY <2>2, <3>1 DEF AnnouncedOnce, Announced, SocketAfterSession, NoSocket
  <2>4. CASE w # u
    <3>1. handler'[w] = handler[w]
      BY <2>1, <2>4 DEF TypeOK
    <3> QED
      BY <1>a, <2>2, <3>1, AnnounceFrame DEF SocketAfterSession
  <2> QED
    BY <2>3, <2>4
<1>3. CASE PressCancel
  <2>1. UNCHANGED <<session, handler>>
    BY <1>3 DEF PressCancel
  <2>2. sock'[w].inbox \in {sock[w].inbox, <<>>}
    BY <1>3, CloseFacts DEF PressCancel, TypeOK
  <2>3. handler[w] \in {"idle", "creating"} => sock'[w] = sock[w]
    <3>1. CASE activeWS = None
      BY <1>3, <3>1 DEF PressCancel
    <3>2. CASE activeWS # None
      <4>1. sock' = CloseQuietly(sock, activeWS) /\ sock \in [Attempts -> Socket]
        BY <1>3, <3>2 DEF PressCancel, TypeOK
      <4>2. activeWS \in Attempts /\ handler[activeWS] \notin {"idle", "creating"}
        BY <3>2, ActiveHasSession
      <4>3. w # activeWS => sock'[w] = sock[w]
        BY <4>1, <4>2, CloseFacts
      <4> QED
        BY <4>2, <4>3
    <3> QED
      BY <3>1, <3>2
  <2> QED
    BY <1>a, <2>1, <2>2, <2>3, AnnounceFrame DEF SocketAfterSession
<1>4. CASE WorkerStops
  <2>1. \/ sock[w].state # "none" /\ sock'[w] = [NoSocket EXCEPT !.state = "closed"]
        \/ sock'[w] = sock[w]
    BY <1>4 DEF WorkerStops
  <2>5. sock'[w].inbox \in {sock[w].inbox, <<>>}
    BY <2>1 DEF NoSocket
  <2>2. \/ handler'[w] = handler[w]
        \/ handler[w] = "waiting" /\ handler'[w] = "done"
    BY <1>4 DEF WorkerStops, TypeOK
  <2>3. UNCHANGED session
    BY <1>4 DEF WorkerStops
  <2>4. handler[w] \in {"idle", "creating"} => sock'[w] = sock[w]
    BY <1>a, <2>1 DEF SocketAfterSession, NoSocket
  <2> QED
    BY <1>a, <2>2, <2>3, <2>4, <2>5 DEF AnnouncedOnce, Announced, SocketAfterSession
<1> QED
  BY <1>1, <1>2, <1>3, <1>4
     DEF OpenPopup, PopupStep, CountdownEnds, ShowQRTimesOut, ClosePopup, PressLock, AutoLock

\* ... the steps of the sockets and the timers ...
LEMMA WaitKeepsOnce ==
  ASSUME TypeOK, UnlockInv, NEW w \in Attempts, NEW u \in Attempts,
         \/ SessionCreated(u) \/ CreateFails(u) \/ SocketOpens(u) \/ SocketFails(u)
         \/ SocketClosed(u) \/ TimerFires(u)
  PROVE  AnnouncedOnce(w)' /\ SocketAfterSession(w)'
<1> USE DEF workerVars, lockVars
<1>a. AnnouncedOnce(w) /\ SocketAfterSession(w) /\ SocketAfterSession(u)
  BY DEF UnlockInv
<1>b. sock \in [Attempts -> Socket]
  BY DEF TypeOK
<1>1. CASE SessionCreated(u)
  <2>1. CASE w = u
    <3>1. sock[u] = NoSocket
      BY <1>1, <1>a DEF SessionCreated, SocketAfterSession
    <3>2. sock'[u].inbox = <<>> /\ handler'[u] = "waiting"
      BY <1>1, <3>1 DEF SessionCreated, NoSocket, TypeOK
    <3> QED
      BY <2>1, <3>2 DEF AnnouncedOnce, Announced, SocketAfterSession
  <2>2. CASE w # u
    <3>1. sock'[w] = sock[w] /\ session'[w] = session[w] /\ handler'[w] = handler[w]
      BY <1>1, <2>2 DEF SessionCreated, TypeOK
    <3> QED
      BY <1>a, <3>1, AnnounceFrame DEF SocketAfterSession
  <2> QED
    BY <2>1, <2>2
<1>2. CASE CreateFails(u)
  <2>1. UNCHANGED <<session, sock>>
    BY <1>2 DEF CreateFails
  <2>2. handler'[w] = handler[w] \/ handler'[w] = "done"
    BY <1>2 DEF CreateFails, TypeOK
  <2> QED
    BY <1>a, <2>1, <2>2 DEF AnnouncedOnce, Announced, SocketAfterSession
<1>3. CASE SocketOpens(u) \/ SocketFails(u) \/ SocketClosed(u)
  <2>1. UNCHANGED <<session, handler>>
    BY <1>3 DEF SocketOpens, SocketFails, SocketClosed
  <2>a. \E x \in {"open", "ended", "closed"} : sock' = [sock EXCEPT ![u].state = x]
    BY <1>3 DEF SocketOpens, SocketFails, SocketClosed
  <2>2. sock'[w].inbox = sock[w].inbox /\ (w # u => sock'[w] = sock[w])
    BY <1>b, <2>a DEF Socket
  <2>3. handler[u] \notin {"idle", "creating"}
    BY <1>3, <1>a DEF SocketOpens, SocketFails, SocketClosed, SocketAfterSession, NoSocket
  <2> QED
    BY <1>a, <2>1, <2>2, <2>3, AnnounceFrame DEF SocketAfterSession
<1>4. CASE TimerFires(u)
  <2>1. UNCHANGED <<session, handler>>
    BY <1>4 DEF TimerFires
  <2>2. sock'[w].inbox \in {sock[w].inbox, <<>>}
    BY <1>4, CloseFacts DEF TimerFires, TypeOK
  <2>3. handler[w] \in {"idle", "creating"} => sock'[w] = sock[w]
    <3>1. CASE activeWS = None
      BY <1>4, <3>1 DEF TimerFires
    <3>2. CASE activeWS # None
      <4>1. sock' = CloseQuietly(sock, activeWS) /\ sock \in [Attempts -> Socket]
        BY <1>4, <3>2 DEF TimerFires, TypeOK
      <4>2. activeWS \in Attempts /\ handler[activeWS] \notin {"idle", "creating"}
        BY <3>2, ActiveHasSession
      <4>3. w # activeWS => sock'[w] = sock[w]
        BY <4>1, <4>2, CloseFacts
      <4> QED
        BY <4>2, <4>3
    <3> QED
      BY <3>1, <3>2
  <2> QED
    BY <1>a, <2>1, <2>2, <2>3, AnnounceFrame DEF SocketAfterSession
<1> QED
  BY <1>1, <1>2, <1>3, <1>4

\* ... the steps of onmessage and of what it awaits ...
LEMMA HearKeepsOnce ==
  ASSUME TypeOK, UnlockInv, NEW w \in Attempts, NEW u \in Attempts,
         \/ HearStarted(u) \/ HearFailed(u) \/ HearResponded(u)
         \/ Retrieve(u) \/ RetrieveFails(u) \/ SetVaultKey(u) \/ ClearAlarm(u) \/ CreateAlarm(u)
  PROVE  AnnouncedOnce(w)' /\ SocketAfterSession(w)'
<1> USE DEF workerVars, lockVars
<1>a. AnnouncedOnce(w) /\ SocketAfterSession(w) /\ SocketAfterSession(u)
  BY DEF UnlockInv
<1>1. ASSUME NEW e \in {"biometric_started", "biometric_failed"}, Hears(u, e), sock' = Heard(u),
             UNCHANGED <<session, handler>>
      PROVE  AnnouncedOnce(w)' /\ SocketAfterSession(w)'
  <2>1. CASE w = u
    <3>1. AnnouncedOnce(u)'
      BY <1>1, HeardOnce DEF Events
    <3>2. handler[u] \notin {"idle", "creating"}
      BY <1>1, <1>a DEF Hears, SocketAfterSession, NoSocket
    <3> QED
      BY <1>1, <2>1, <3>1, <3>2 DEF SocketAfterSession
  <2>2. CASE w # u
    <3>1. sock'[w] = sock[w]
      BY <1>1, <2>2 DEF Heard, TypeOK
    <3> QED
      BY <1>1, <1>a, <3>1, AnnounceFrame DEF SocketAfterSession
  <2> QED
    BY <2>1, <2>2
<1>2. CASE HearStarted(u)
  BY <1>2, <1>1 DEF HearStarted
<1>3. CASE HearFailed(u)
  BY <1>3, <1>1 DEF HearFailed
<1>4. CASE HearResponded(u)
  <2>1. Hears(u, "session_responded") /\ Heard(u) \in [Attempts -> Socket]
    BY <1>4, HeardTyped DEF HearResponded, Hears
  <2>2. handler' = [handler EXCEPT ![u] = handler'[u]] /\ handler'[u] \in {"done", "retrieving"}
    BY <1>4 DEF HearResponded, TypeOK
  <2>3. \/ activeWS = None /\ sock' = Heard(u)
        \/ activeWS # None /\ sock' = CloseSocket(Heard(u), activeWS)
    BY <1>4 DEF HearResponded
  <2>4. UNCHANGED session
    BY <1>4 DEF HearResponded
  <2>5. activeWS # None => activeWS \in Attempts /\ handler[activeWS] \notin {"idle", "creating"}
    BY ActiveHasSession
  <2>6. CASE w = u
    <3>1. sock'[u].inbox \in {Heard(u)[u].inbox, <<>>}
      BY <2>1, <2>3, <2>5, CloseFacts
    <3>2. AnnouncedOnce(u)'
      BY <2>1, <2>2, <2>4, <3>1, HeardOnce DEF Events
    <3> QED
      BY <2>2, <2>6, <3>2 DEF SocketAfterSession
  <2>7. CASE w # u
    <3>1. handler'[w] = handler[w] /\ Heard(u)[w] = sock[w]
      BY <2>2, <2>7 DEF TypeOK, Heard
    <3>2. sock'[w].inbox \in {sock[w].inbox, <<>>}
      BY <2>1, <2>3, <2>5, <3>1, CloseFacts
    <3>3. handler[w] \in {"idle", "creating"} => sock'[w] = sock[w]
      <4>1. w # activeWS => sock'[w] = sock[w]
        BY <2>1, <2>3, <2>5, <3>1, CloseFacts
      <4>2. CASE activeWS = None
        BY <2>3, <3>1, <4>2
      <4> QED
        BY <2>5, <4>1, <4>2
    <3> QED
      BY <1>a, <2>4, <3>1, <3>2, <3>3, AnnounceFrame DEF SocketAfterSession
  <2> QED
    BY <2>6, <2>7
<1>5. CASE Retrieve(u)
  <2>1. UNCHANGED sock
    BY <1>5 DEF Retrieve
  <2>2. CASE w = u
    <3>1. session'[u].status = "used" /\ handler[u] = "retrieving" /\ handler'[u] = "fetched"
      BY <1>5 DEF Retrieve, TypeOK, Session
    <3> QED
      BY <1>a, <2>1, <2>2, <3>1 DEF AnnouncedOnce, Announced, SocketAfterSession
  <2>3. CASE w # u
    <3>1. session'[w] = session[w] /\ handler'[w] = handler[w]
      BY <1>5, <2>3 DEF Retrieve, TypeOK
    <3> QED
      BY <1>a, <2>1, <3>1, AnnounceFrame DEF SocketAfterSession
  <2> QED
    BY <2>2, <2>3
<1>6. CASE RetrieveFails(u) \/ SetVaultKey(u) \/ ClearAlarm(u) \/ CreateAlarm(u)
  <2>1. UNCHANGED <<session, sock>>
    BY <1>6 DEF RetrieveFails, SetVaultKey, ClearAlarm, CreateAlarm
  <2>2. \/ handler'[w] = handler[w]
        \/ /\ handler[w] \in {"retrieving", "fetched", "keyed", "unarmed"}
           /\ handler'[w] \in {"done", "keyed", "unarmed"}
    BY <1>6 DEF RetrieveFails, SetVaultKey, ClearAlarm, CreateAlarm, TypeOK
  <2> QED
    BY <1>a, <2>1, <2>2 DEF AnnouncedOnce, Announced, SocketAfterSession
<1> QED
  BY <1>2, <1>3, <1>4, <1>5, <1>6

\* ... and those of time and of the phone, which alone makes announcements.
LEMMA PhoneKeepsOnce ==
  ASSUME TypeOK, UnlockInv, NEW w \in Attempts, NEW u \in Attempts,
         Expire(u) \/ PhoneScans(u) \/ PhoneStep(u) \/ PhoneFails(u)
  PROVE  AnnouncedOnce(w)' /\ SocketAfterSession(w)'
<1> USE DEF workerVars, lockVars
<1>a. AnnouncedOnce(w) /\ SocketAfterSession(w) /\ SocketAfterSession(u)
  BY DEF UnlockInv
<1>b. sock[u] \in Socket
  BY DEF TypeOK
<1>1. CASE Expire(u) \/ PhoneScans(u)
  <2>1. UNCHANGED <<sock, handler>> /\ session'[w].status = session[w].status
    BY <1>1 DEF Expire, PhoneScans, TypeOK, Session
  <2> QED
    BY <1>a, <2>1, AnnounceFrame DEF SocketAfterSession
<1>2. CASE UNCHANGED sock /\ (PhoneStep(u) \/ PhoneFails(u))
  <2>1. UNCHANGED handler
    BY <1>2 DEF PhoneStep, PhoneAcks, PhoneResponds, PhoneFails
  <2>2. \/ session'[w].status = session[w].status
        \/ session'[w].status \in {"responded", "cancelled"}
    <3>1. \/ session' = session
          \/ \E x \in {"responded", "cancelled"} : session' = [session EXCEPT ![u].status = x]
      BY <1>2 DEF PhoneStep, PhoneAcks, PhoneResponds, PhoneFails
    <3> QED
      BY <3>1 DEF TypeOK, Session
  <2> QED
    BY <1>a, <1>2, <2>1, <2>2, AnnounceFrame DEF SocketAfterSession
<1>3. ASSUME NEW e \in Events, session[u].status = "pending", UNCHANGED handler,
             \A x \in Attempts : x # u => session'[x] = session[x] /\ sock'[x] = sock[x],
             session'[u].status \in {"pending", "responded", "cancelled"},
             e = "session_responded" => session'[u].status # "pending",
             sock[u].state = "open", sock'[u].inbox = Append(sock[u].inbox, e)
      PROVE  AnnouncedOnce(w)' /\ SocketAfterSession(w)'
  <2>1. CASE w = u
    <3>1. AnnouncedOnce(u)'
      BY <1>3, NotifiedOnce
    <3>2. handler[u] \notin {"idle", "creating"}
      BY <1>3, <1>a DEF SocketAfterSession, NoSocket
    <3> QED
      BY <1>3, <2>1, <3>1, <3>2 DEF SocketAfterSession
  <2>2. CASE w # u
    BY <1>a, <1>3, <2>2, AnnounceFrame DEF SocketAfterSession
  <2> QED
    BY <2>1, <2>2
<1>4. CASE PhoneAcks(u) /\ sock' # sock
  <2>1. session[u].status = "pending" /\ sock[u].state = "open" /\ UNCHANGED <<session, handler>>
    BY <1>4 DEF PhoneAcks, Notified
  <2>2. sock' = [sock EXCEPT ![u].inbox = Append(@, "biometric_started")]
    BY <1>4 DEF PhoneAcks, Notified
  <2>3. sock'[u].inbox = Append(sock[u].inbox, "biometric_started")
    BY <1>b, <2>2 DEF TypeOK, Socket
  <2>4. \A x \in Attempts : x # u => sock'[x] = sock[x]
    BY <2>2 DEF TypeOK
  <2> QED
    BY <1>3, <2>1, <2>3, <2>4 DEF Events
<1>5. CASE PhoneResponds(u) /\ sock' # sock
  <2>1. session[u].status = "pending" /\ sock[u].state = "open" /\ UNCHANGED handler
    BY <1>5 DEF PhoneResponds, Notified
  <2>2. /\ sock' = [sock EXCEPT ![u].inbox = Append(@, "session_responded")]
        /\ session' = [session EXCEPT ![u].status = "responded"]
    BY <1>5 DEF PhoneResponds, Notified
  <2>3. /\ sock'[u].inbox = Append(sock[u].inbox, "session_responded")
        /\ session'[u].status = "responded"
    BY <1>b, <2>2 DEF TypeOK, Socket, Session
  <2>4. \A x \in Attempts : x # u => session'[x] = session[x] /\ sock'[x] = sock[x]
    BY <2>2 DEF TypeOK
  <2> QED
    BY <1>3, <2>1, <2>3, <2>4 DEF Events
<1>6. CASE PhoneFails(u) /\ sock' # sock
  <2>1. session[u].status = "pending" /\ sock[u].state = "open" /\ UNCHANGED handler
    BY <1>6 DEF PhoneFails
  <2>2. /\ sock' = [sock EXCEPT ![u].state = "ended", ![u].normal = TRUE,
                                ![u].inbox = Append(@, "biometric_failed")]
        /\ session' = [session EXCEPT ![u].status = "cancelled"]
    BY <1>6 DEF PhoneFails
  <2>3. /\ sock'[u].inbox = Append(sock[u].inbox, "biometric_failed")
        /\ session'[u].status = "cancelled"
    BY <1>b, <2>2 DEF TypeOK, Socket, Session
  <2>4. \A x \in Attempts : x # u => session'[x] = session[x] /\ sock'[x] = sock[x]
    BY <2>2 DEF TypeOK
  <2> QED
    BY <1>3, <2>1, <2>3, <2>4 DEF Events
<1> QED
  BY <1>1, <1>2, <1>4, <1>5, <1>6 DEF PhoneStep

\* -------------------------------------------------------------------------
\* The alarm

\* Steps that leave key and alarm alone leave the handlers on their way to the alarm there.
LEMMA AlarmFrame ==
  ASSUME UnlockedVaultWillLock, UNCHANGED <<unlocked, alarm>>,
         \A u \in Attempts : handler[u] \in {"keyed", "unarmed"} => handler'[u] = handler[u]
  PROVE  UnlockedVaultWillLock'
  BY DEF UnlockedVaultWillLock

\* Whoever set the key is on its way to the alarm; whoever clears the alarm sets it anew or
\* takes the key, too.
LEMMA AlarmKept ==
  ASSUME TypeOK, UnlockInv, Next
  PROVE  UnlockedVaultWillLock'
<1> USE DEF lockVars, workerVars
<1>a. UnlockedVaultWillLock /\ \A u \in Attempts : AnnouncedOnce(u)
  BY DEF UnlockInv
<1>b. handler \in [Attempts -> {"idle", "creating", "waiting", "retrieving", "fetched",
                                "keyed", "unarmed", "done"}]
  BY DEF TypeOK
<1>1. CASE OpenPopup \/ PressShowQR \/ PopupStep \/ PressCancel \/ ClosePopup
  <2>1. /\ UNCHANGED <<unlocked, alarm>>
        /\ \A u \in Attempts : handler[u] = "idle" \/ handler'[u] = handler[u]
    BY <1>1, <1>b DEF OpenPopup, PressShowQR, PopupStep, CountdownEnds, ShowQRTimesOut,
                      PressCancel, ClosePopup
  <2> QED
    BY <1>a, <2>1, AlarmFrame
<1>2. CASE PressLock \/ AutoLock \/ WorkerStops
  BY <1>2 DEF PressLock, AutoLock, WorkerStops, UnlockedVaultWillLock
<1>3. ASSUME NEW u \in Attempts,
             \/ SessionCreated(u) \/ CreateFails(u) \/ SocketOpens(u) \/ SocketFails(u)
             \/ SocketClosed(u) \/ TimerFires(u) \/ HearStarted(u) \/ HearFailed(u)
             \/ Retrieve(u) \/ RetrieveFails(u)
             \/ Expire(u) \/ PhoneScans(u) \/ PhoneStep(u) \/ PhoneFails(u)
      PROVE  UnlockedVaultWillLock'
  <2>1. UNCHANGED <<unlocked, alarm>>
    BY <1>3, Zenon DEF SessionCreated, CreateFails, SocketOpens, SocketFails, SocketClosed,
             TimerFires, HearStarted, HearFailed, Retrieve, RetrieveFails,
             Expire, PhoneScans, PhoneStep, PhoneAcks, PhoneResponds, PhoneFails
  <2>2. \/ UNCHANGED handler
        \/ /\ handler[u] \in {"creating", "retrieving", "fetched"}
           /\ \E x \in {"waiting", "fetched", "done"} : handler' = [handler EXCEPT ![u] = x]
    BY <1>3, Zenon DEF SessionCreated, CreateFails, SocketOpens, SocketFails, SocketClosed,
             TimerFires, HearStarted, HearFailed, Retrieve, RetrieveFails,
             Expire, PhoneScans, PhoneStep, PhoneAcks, PhoneResponds, PhoneFails
  <2> QED
    BY <1>a, <1>b, <2>1, <2>2, AlarmFrame
<1>4. ASSUME NEW u \in Attempts, HearResponded(u)
      PROVE  UnlockedVaultWillLock'
  <2>1. sock[u].inbox \in Seq(Events) /\ sock[u].inbox # <<>>
        /\ sock[u].inbox[1] = "session_responded"
    BY <1>4 DEF HearResponded, Hears, TypeOK, Socket
  <2>2. Announced(u)
    BY <2>1 DEF Announced
  <2>3. handler[u] \notin {"keyed", "unarmed"}
    BY <1>a, <2>2 DEF AnnouncedOnce
  <2>4. UNCHANGED <<unlocked, alarm>> /\ \A x \in Attempts : x # u => handler'[x] = handler[x]
    BY <1>4, <1>b DEF HearResponded
  <2> QED
    BY <1>a, <2>3, <2>4, AlarmFrame
<1>5. ASSUME NEW u \in Attempts, SetVaultKey(u) \/ ClearAlarm(u)
      PROVE  UnlockedVaultWillLock'
  <2>1. handler'[u] \in {"keyed", "unarmed"}
    BY <1>5, <1>b DEF SetVaultKey, ClearAlarm
  <2> QED
    BY <2>1 DEF UnlockedVaultWillLock
<1>6. ASSUME NEW u \in Attempts, CreateAlarm(u)
      PROVE  UnlockedVaultWillLock'
  BY <1>6 DEF CreateAlarm, UnlockedVaultWillLock
<1> QED
  BY <1>1, <1>2, <1>3, <1>4, <1>5, <1>6 DEF Next, WorkerStep

\* -------------------------------------------------------------------------
\* Sockets and timers

\* What both invariants on timers and the one on _activeWS need of a step: it stops the timer
\* of a socket that closes, and forgets an active socket whose timer or life it ends.
SocketsSound == ActiveNotSuppressed /\ ActiveWaitHasTimer /\ TimerDiesWithSocket

\* Steps that touch neither sockets, nor timers, nor _activeWS.
LEMMA SocketsFrame ==
  ASSUME SocketsSound, UNCHANGED <<sock, timer, activeWS>>
  PROVE  SocketsSound'
  BY DEF SocketsSound, ActiveNotSuppressed, ActiveWaitHasTimer, TimerDiesWithSocket

\* Steps after which no socket is active, which close no socket whose timer runs on.
LEMMA SocketsForgotten ==
  ASSUME SocketsSound, activeWS' = None,
         \A w \in Attempts : timer'[w] =>
             /\ timer[w]
             /\ \/ sock'[w].state = sock[w].state
                \/ sock'[w].state \notin {"none", "closed"}
  PROVE  SocketsSound'
  BY DEF SocketsSound, ActiveNotSuppressed, ActiveWaitHasTimer, TimerDiesWithSocket

\* Steps that go on with a socket, neither closing nor suppressing it.
LEMMA SocketGoesOn ==
  ASSUME TypeOK, SocketsSound, UNCHANGED <<timer, activeWS>>, NEW u \in Attempts,
         \A w \in Attempts : w # u => sock'[w] = sock[w],
         sock'[u].suppressed = sock[u].suppressed,
         \/ sock'[u].state = sock[u].state
         \/ sock[u].state \in {"connecting", "open"} /\ sock'[u].state \in {"open", "ended"}
  PROVE  SocketsSound'
<1>1. activeWS \in Attempts \cup {None}
  BY DEF TypeOK
<1> QED
  BY <1>1 DEF SocketsSound, ActiveNotSuppressed, ActiveWaitHasTimer, TimerDiesWithSocket

\* Closing the active socket on purpose, and forgetting it, as a cancel and a timeout do.
LEMMA ClosedQuietly ==
  ASSUME TypeOK, SocketsSound, activeWS' = None, NEW u \in Attempts,
         timer' = timer \/ timer' = [timer EXCEPT ![u] = FALSE],
         sock' = IF activeWS = None THEN sock ELSE CloseQuietly(sock, activeWS)
  PROVE  SocketsSound'
<1>1. ASSUME NEW w \in Attempts
      PROVE  sock'[w].state \in {sock[w].state, "closing"} /\ (timer'[w] => timer[w])
  <2>1. timer'[w] => timer[w]
    BY DEF TypeOK
  <2>2. CASE activeWS = None
    BY <2>1, <2>2
  <2>3. CASE activeWS # None
    <3>1. activeWS \in Attempts /\ sock \in [Attempts -> Socket]
      BY <2>3 DEF TypeOK
    <3>2. CloseQuietly(sock, activeWS)[w].state \in {sock[w].state, "closing"}
      BY <3>1, CloseFacts
    <3> QED
      BY <2>1, <2>3, <3>2
  <2> QED
    BY <2>2, <2>3
<1> QED
  BY <1>1, SocketsForgotten

\* Every step keeps the sockets and timers sound.
LEMMA SocketsKept ==
  ASSUME TypeOK, UnlockInv, Next
  PROVE  SocketsSound'
<1> USE DEF lockVars, workerVars
<1>a. SocketsSound /\ \A u \in Attempts : SocketAfterSession(u)
  BY DEF UnlockInv, SocketsSound
<1>b. sock \in [Attempts -> Socket] /\ timer \in [Attempts -> BOOLEAN]
  BY DEF TypeOK
<1>1. CASE OpenPopup \/ PressShowQR \/ PopupStep \/ ClosePopup \/ PressLock \/ AutoLock
  <2>1. UNCHANGED <<sock, timer, activeWS>>
    BY <1>1, Zenon DEF OpenPopup, PressShowQR, PopupStep, CountdownEnds, ShowQRTimesOut,
                       ClosePopup, PressLock, AutoLock
  <2> QED
    BY <1>a, <2>1, SocketsFrame
<1>2. CASE PressCancel
  <2>1. CASE Attempts = {}
    BY <1>2, <2>1 DEF PressCancel, SocketsSound, ActiveNotSuppressed, ActiveWaitHasTimer,
                      TimerDiesWithSocket
  <2>2. CASE Attempts # {}
    BY <1>2, <1>a, <2>2, ClosedQuietly DEF PressCancel
  <2> QED
    BY <2>1, <2>2
<1>3. CASE WorkerStops
  <2>1. activeWS' = None /\ \A w \in Attempts : ~timer'[w]
    BY <1>3 DEF WorkerStops
  <2> QED
    BY <1>a, <2>1, SocketsForgotten
<1>4. ASSUME NEW u \in Attempts, SessionCreated(u)
      PROVE  SocketsSound'
  <2>1. sock[u] = NoSocket /\ activeWS' = u /\ timer'[u] = TRUE
    BY <1>4, <1>a, <1>b DEF SessionCreated, SocketAfterSession
  <2>2. sock'[u].state = "connecting" /\ ~sock'[u].suppressed
    BY <1>4, <1>b, <2>1 DEF SessionCreated, NoSocket
  <2>3. \A w \in Attempts : w # u => sock'[w] = sock[w] /\ timer'[w] = timer[w]
    BY <1>4, <1>b DEF SessionCreated
  <2> QED
    BY <1>a, <2>1, <2>2, <2>3
       DEF SocketsSound, ActiveNotSuppressed, ActiveWaitHasTimer, TimerDiesWithSocket
<1>5. ASSUME NEW u \in Attempts, SocketOpens(u)
      PROVE  SocketsSound'
  <2>1. /\ sock[u].state = "connecting" /\ UNCHANGED <<timer, activeWS>>
        /\ \E x \in {"open", "ended"} : sock' = [sock EXCEPT ![u].state = x]
    BY <1>5 DEF SocketOpens
  <2>2. sock'[u].state \in {"open", "ended"} /\ sock'[u].suppressed = sock[u].suppressed
    BY <1>b, <2>1 DEF Socket
  <2>3. \A w \in Attempts : w # u => sock'[w] = sock[w]
    BY <1>b, <2>1
  <2> QED
    BY <1>a, <2>1, <2>2, <2>3, SocketGoesOn
<1>6. ASSUME NEW u \in Attempts, SocketFails(u)
      PROVE  SocketsSound'
  <2>1. /\ activeWS' = None /\ timer' = [timer EXCEPT ![u] = FALSE]
        /\ sock' = [sock EXCEPT ![u].state = "ended"]
    BY <1>6 DEF SocketFails
  <2> QED
    BY <1>a, <1>b, <2>1, SocketsForgotten
<1>7. ASSUME NEW u \in Attempts, SocketClosed(u)
      PROVE  SocketsSound'
  <2>1. /\ timer' = [timer EXCEPT ![u] = FALSE] /\ sock' = [sock EXCEPT ![u].state = "closed"]
        /\ sock[u].state \in {"closing", "ended"}
    BY <1>7 DEF SocketClosed
  <2>2. CASE sock[u].suppressed
    <3>1. activeWS' = activeWS /\ activeWS # u
      BY <1>7, <1>a, <2>2, NoneIsNoAttempt DEF SocketClosed, SocketsSound, ActiveNotSuppressed
    <3>2. \A w \in Attempts : w # u => sock'[w] = sock[w] /\ timer'[w] = timer[w]
      BY <1>b, <2>1
    <3>3. activeWS \in Attempts \cup {None} /\ ~timer'[u]
      BY <1>b, <2>1 DEF TypeOK
    <3> QED
      BY <1>a, <3>1, <3>2, <3>3
         DEF SocketsSound, ActiveNotSuppressed, ActiveWaitHasTimer, TimerDiesWithSocket
  <2>3. CASE ~sock[u].suppressed
    <3>1. activeWS' = None
      BY <1>7, <2>3 DEF SocketClosed
    <3> QED
      BY <1>a, <1>b, <2>1, <3>1, SocketsForgotten
  <2> QED
    BY <2>2, <2>3
<1>8. ASSUME NEW u \in Attempts, TimerFires(u)
      PROVE  SocketsSound'
  BY <1>8, <1>a, ClosedQuietly DEF TimerFires
<1>9. ASSUME NEW u \in Attempts, HearStarted(u)
      PROVE  SocketsSound'
  <2>1. /\ Hears(u, "biometric_started") /\ sock' = Heard(u) /\ UNCHANGED <<timer, activeWS>>
    BY <1>9 DEF HearStarted
  <2> QED
    BY <1>a, <2>1, HeardFacts, SocketGoesOn DEF Events
<1>10. ASSUME NEW u \in Attempts, HearFailed(u)
       PROVE  SocketsSound'
  <2>1. /\ Hears(u, "biometric_failed") /\ sock' = Heard(u)
        /\ timer' = [timer EXCEPT ![u] = FALSE] /\ activeWS' = None
    BY <1>10 DEF HearFailed
  <2>2. \A w \in Attempts : sock'[w].state = sock[w].state /\ (timer'[w] => timer[w])
    BY <1>b, <2>1, HeardFacts DEF Events
  <2> QED
    BY <1>a, <2>1, <2>2, SocketsForgotten
<1>11. ASSUME NEW u \in Attempts, HearResponded(u)
       PROVE  SocketsSound'
  <2>1. /\ Hears(u, "session_responded") /\ timer' = [timer EXCEPT ![u] = FALSE]
        /\ activeWS' = None
        /\ sock' = IF activeWS = None THEN Heard(u) ELSE CloseSocket(Heard(u), activeWS)
    BY <1>11 DEF HearResponded
  <2>2. Heard(u) \in [Attempts -> Socket]
    BY <2>1, HeardTyped DEF Hears
  <2>3. ASSUME NEW w \in Attempts
        PROVE  sock'[w].state \in {sock[w].state, "closing"} /\ (timer'[w] => timer[w])
    <3>1. Heard(u)[w].state = sock[w].state
      BY <2>1, HeardFacts DEF Events
    <3>2. sock'[w].state \in {Heard(u)[w].state, "closing"}
      BY <2>1, <2>2, CloseFacts DEF TypeOK
    <3> QED
      BY <1>b, <2>1, <3>1, <3>2
  <2> QED
    BY <1>a, <2>1, <2>3, SocketsForgotten
<1>12. ASSUME NEW u \in Attempts,
              \/ CreateFails(u) \/ Retrieve(u) \/ RetrieveFails(u) \/ SetVaultKey(u)
              \/ ClearAlarm(u) \/ CreateAlarm(u) \/ Expire(u) \/ PhoneScans(u)
       PROVE  SocketsSound'
  <2>1. UNCHANGED <<sock, timer, activeWS>>
    BY <1>12, Zenon DEF CreateFails, Retrieve, RetrieveFails, SetVaultKey, ClearAlarm,
                        CreateAlarm, Expire, PhoneScans
  <2> QED
    BY <1>a, <2>1, SocketsFrame
<1>13. ASSUME NEW u \in Attempts, PhoneStep(u) \/ PhoneFails(u)
       PROVE  SocketsSound'
  <2>1. UNCHANGED <<timer, activeWS>>
    BY <1>13 DEF PhoneStep, PhoneAcks, PhoneResponds, PhoneFails
  <2>2. \/ sock' = sock
        \/ \E i : sock' = [sock EXCEPT ![u].inbox = i]
        \/ /\ sock[u].state = "open"
           /\ \E i : sock' = [sock EXCEPT ![u].state = "ended", ![u].normal = TRUE,
                                          ![u].inbox = i]
    <3>1. CASE PhoneAcks(u) \/ PhoneResponds(u)
      BY <3>1 DEF PhoneAcks, PhoneResponds, Notified
    <3>2. CASE PhoneFails(u)
      BY <3>2 DEF PhoneFails
    <3> QED
      BY <1>13, <3>1, <3>2 DEF PhoneStep
  <2>3. /\ \A w \in Attempts : w # u => sock'[w] = sock[w]
        /\ sock'[u].suppressed = sock[u].suppressed
        /\ \/ sock'[u].state = sock[u].state
           \/ sock[u].state = "open" /\ sock'[u].state = "ended"
    BY <1>b, <2>2 DEF Socket
  <2> QED
    BY <1>a, <2>1, <2>3, SocketGoesOn
<1> QED
  BY <1>1, <1>2, <1>3, <1>4, <1>5, <1>6, <1>7, <1>8, <1>9, <1>10, <1>11, <1>12, <1>13
     DEF Next, WorkerStep

\* -------------------------------------------------------------------------
\* The theorems

\* Every step keeps the invariant.
LEMMA InvStep == TypeOK /\ UnlockInv /\ [Next]_vars => UnlockInv'
<1> SUFFICES ASSUME TypeOK, UnlockInv, [Next]_vars PROVE UnlockInv'
  OBVIOUS
<1>1. CASE Next
  <2>1. ASSUME NEW w \in Attempts
        PROVE  AnnouncedOnce(w)' /\ SocketAfterSession(w)'
    BY <1>1, PopupKeepsOnce, WaitKeepsOnce, HearKeepsOnce, PhoneKeepsOnce DEF Next, WorkerStep
  <2>2. UnlockedVaultWillLock' /\ SocketsSound'
    BY <1>1, AlarmKept, SocketsKept
  <2> QED
    BY <2>1, <2>2 DEF UnlockInv, SocketsSound
<1>2. CASE UNCHANGED vars
  <2>1. \A u \in Attempts : AnnouncedOnce(u)' /\ SocketAfterSession(u)'
    BY <1>2 DEF vars, UnlockInv, AnnouncedOnce, Announced, SocketAfterSession
  <2> QED
    BY <1>2, <2>1 DEF vars, UnlockInv, UnlockedVaultWillLock, ActiveNotSuppressed,
                      ActiveWaitHasTimer, TimerDiesWithSocket
<1> QED
  BY <1>1, <1>2

\* The inductive invariant holds of every number of attempts and every mishap.
LEMMA UnlockInvariant == Spec => []UnlockInv
  BY InitTyped, StepTyped, InitInv, InvStep, PTL DEF Spec

\* However unlocks, locks, cancels and worker stops overlap, an unlocked vault has an
\* auto-lock alarm or a handler about to set it.
THEOREM UnlockedHasAlarm == Spec => []UnlockedVaultWillLock
<1>1. UnlockInv => UnlockedVaultWillLock
  BY DEF UnlockInv
<1> QED
  BY <1>1, UnlockInvariant, PTL

\* Whatever older attempts' callbacks do to _activeWS, it is null or a socket that is not
\* closed and whose timer runs.
THEOREM ActiveHasTimer == Spec => []ActiveWaitHasTimer
<1>1. UnlockInv => ActiveWaitHasTimer
  BY DEF UnlockInv
<1> QED
  BY <1>1, UnlockInvariant, PTL

\* No timer runs on after its own socket's close event.
THEOREM NoTimerOutlivesItsSocket == Spec => []TimerDiesWithSocket
<1>1. UnlockInv => TimerDiesWithSocket
  BY DEF UnlockInv
<1> QED
  BY <1>1, UnlockInvariant, PTL

\* -------------------------------------------------------------------------
\* Where the key comes from

\* An attempt's session exists once it was created; an answer in it is the answer of the
\* phone that scanned its QR; and the handler goes on only with an answer that it used up.
Traced(u) ==
    /\ handler[u] \in {"idle", "creating"} => session[u].status = "none"
    /\ session[u].status \in {"responded", "used"} => phone[u] = "responded"
    /\ handler[u] \in {"fetched", "keyed", "unarmed"} => session[u].status = "used"

\* A vault key is in memory only if the phone that scanned an attempt's QR answered it, and
\* the worker took that answer from the relay, where nobody finds it again.
KeyIsFromAPhone ==
    unlocked => \E u \in Attempts : phone[u] = "responded" /\ session[u].status = "used"

\* Steps of popup, alarm and worker that leave session and phone alone.
LEMMA TraceFrame ==
  ASSUME TypeOK, \A u \in Attempts : Traced(u), KeyIsFromAPhone,
         UNCHANGED <<session, phone>>, unlocked' => unlocked,
         \A u \in Attempts :
             \/ handler'[u] = handler[u]
             \/ handler[u] = "idle" /\ handler'[u] = "creating"
             \/ handler'[u] \in {"done", "retrieving"}
             \/ handler[u] = "keyed" /\ handler'[u] = "unarmed"
  PROVE  KeyIsFromAPhone' /\ \A u \in Attempts : Traced(u)'
<1>1. ASSUME NEW u \in Attempts PROVE Traced(u)'
  BY DEF Traced
<1> QED
  BY <1>1 DEF KeyIsFromAPhone

\* Steps that change one attempt's session or phone, or set the key.
LEMMA TraceStep ==
  ASSUME TypeOK, \A w \in Attempts : Traced(w), KeyIsFromAPhone, NEW u \in Attempts,
         \/ SessionCreated(u) \/ Retrieve(u) \/ SetVaultKey(u)
         \/ Expire(u) \/ PhoneScans(u) \/ PhoneStep(u) \/ PhoneFails(u)
  PROVE  KeyIsFromAPhone' /\ \A w \in Attempts : Traced(w)'
<1> USE DEF workerVars, lockVars
<1>a. /\ session \in [Attempts -> Session] /\ DOMAIN phone = Attempts
      /\ DOMAIN handler = Attempts
  BY DEF TypeOK
<1>b. /\ \A w \in Attempts : w # u => /\ session'[w] = session[w] /\ phone'[w] = phone[w]
                                      /\ handler'[w] = handler[w]
      /\ Traced(u)'
      /\ session[u].status = "used" => session'[u].status = "used"
      /\ phone[u] = "responded" => phone'[u] = "responded"
  <2>1. CASE SessionCreated(u)
    BY <1>a, <2>1 DEF SessionCreated, Traced, Session
  <2>2. CASE Retrieve(u)
    BY <1>a, <2>2 DEF Retrieve, Traced, Session
  <2>3. CASE SetVaultKey(u)
    BY <1>a, <2>3 DEF SetVaultKey, Traced
  <2>4. CASE Expire(u)
    BY <1>a, <2>4 DEF Expire, Traced, Session
  <2>5. CASE PhoneScans(u)
    BY <1>a, <2>5 DEF PhoneScans, Traced
  <2>6. CASE PhoneAcks(u)
    <3>1. /\ UNCHANGED <<session, handler>> /\ phone[u] = "scanned"
          /\ phone' = [phone EXCEPT ![u] = "prompted"]
      BY <2>6 DEF PhoneAcks
    <3> QED
      BY <1>a, <3>1 DEF Traced
  <2>7. CASE PhoneResponds(u)
    <3>1. UNCHANGED handler /\ phone[u] = "prompted"
      BY <2>7 DEF PhoneResponds
    <3>2. CASE /\ session[u].status = "pending" /\ phone' = [phone EXCEPT ![u] = "responded"]
               /\ session' = [session EXCEPT ![u].status = "responded"]
      BY <1>a, <3>1, <3>2 DEF Traced, Session
    <3>3. CASE phone' = [phone EXCEPT ![u] = "late"] /\ UNCHANGED session
      BY <1>a, <3>1, <3>3 DEF Traced
    <3> QED
      BY <2>7, <3>2, <3>3 DEF PhoneResponds
  <2>8. CASE PhoneFails(u)
    <3>1. /\ UNCHANGED handler /\ phone[u] = "prompted"
          /\ phone' = [phone EXCEPT ![u] = "failed"]
          /\ \/ UNCHANGED session
             \/ /\ session[u].status = "pending"
                /\ session' = [session EXCEPT ![u].status = "cancelled"]
      BY <2>8 DEF PhoneFails
    <3> QED
      BY <1>a, <3>1 DEF Traced, Session
  <2> QED
    BY <2>1, <2>2, <2>3, <2>4, <2>5, <2>6, <2>7, <2>8 DEF PhoneStep
<1>c. \A w \in Attempts : Traced(w)'
  <2>1. ASSUME NEW w \in Attempts, w # u PROVE Traced(w)'
    BY <1>b, <2>1 DEF Traced
  <2> QED
    BY <1>b, <2>1
<1>d. \A w \in Attempts : session[w].status = "used" /\ phone[w] = "responded"
                              => session'[w].status = "used" /\ phone'[w] = "responded"
  BY <1>b
<1>e. CASE SetVaultKey(u)
  <2>1. session[u].status = "used" /\ phone[u] = "responded"
    BY <1>e DEF SetVaultKey, Traced
  <2> QED
    BY <1>c, <1>d, <2>1 DEF KeyIsFromAPhone
<1>f. CASE ~SetVaultKey(u)
  <2>1. unlocked' = unlocked
    BY <1>f DEF SessionCreated, Retrieve, Expire, PhoneScans, PhoneStep, PhoneAcks,
                PhoneResponds, PhoneFails
  <2> QED
    BY <1>c, <1>d, <2>1 DEF KeyIsFromAPhone
<1> QED
  BY <1>e, <1>f

\* However attempts overlap, the worker holds a vault key only if a phone answered one.
THEOREM KeysComeFromPhones == Spec => []KeyIsFromAPhone
<1> DEFINE Inv == KeyIsFromAPhone /\ \A u \in Attempts : Traced(u)
<1>1. Init => Inv
  BY DEF Init, KeyIsFromAPhone, Traced
<1>2. TypeOK /\ Inv /\ [Next]_vars => Inv'
  <2> SUFFICES ASSUME TypeOK, Inv, [Next]_vars PROVE Inv'
    OBVIOUS
  <2> USE DEF workerVars, lockVars
  <2>a. handler \in [Attempts -> {"idle", "creating", "waiting", "retrieving", "fetched",
                                  "keyed", "unarmed", "done"}]
    BY DEF TypeOK
  <2>1. CASE \/ OpenPopup \/ PressShowQR \/ PopupStep \/ PressCancel \/ ClosePopup
             \/ PressLock \/ AutoLock
    <3>1. /\ UNCHANGED <<session, phone>> /\ (unlocked' => unlocked)
          /\ \/ UNCHANGED handler
             \/ \E u \in Attempts : /\ handler[u] = "idle"
                                    /\ handler' = [handler EXCEPT ![u] = "creating"]
      <4>1. CASE PressShowQR
        BY <4>1 DEF PressShowQR
      <4>2. CASE PressLock
        BY <4>2 DEF PressLock
      <4>3. CASE AutoLock
        BY <4>3 DEF AutoLock
      <4>4. CASE OpenPopup \/ PopupStep \/ PressCancel \/ ClosePopup
        <5>1. UNCHANGED <<session, phone, handler, unlocked>>
          BY <4>4 DEF OpenPopup, PopupStep, CountdownEnds, ShowQRTimesOut, PressCancel,
                      ClosePopup
        <5> QED
          BY <5>1
      <4> QED
        BY <2>1, <4>1, <4>2, <4>3, <4>4
    <3> QED
      BY <2>a, <3>1, TraceFrame
  <2>2. CASE WorkerStops
    BY <2>2, TraceFrame DEF WorkerStops
  <2>3. ASSUME NEW u \in Attempts,
               \/ SessionCreated(u) \/ Retrieve(u) \/ SetVaultKey(u)
               \/ Expire(u) \/ PhoneScans(u) \/ PhoneStep(u) \/ PhoneFails(u)
        PROVE  Inv'
    BY <2>3, TraceStep
  <2>4. ASSUME NEW u \in Attempts,
               \/ CreateFails(u) \/ SocketOpens(u) \/ SocketFails(u) \/ SocketClosed(u)
               \/ TimerFires(u) \/ HearStarted(u) \/ HearFailed(u) \/ HearResponded(u)
               \/ RetrieveFails(u) \/ ClearAlarm(u) \/ CreateAlarm(u)
        PROVE  Inv'
    <3>1. UNCHANGED <<session, phone, unlocked>>
      BY <2>4, Zenon DEF CreateFails, SocketOpens, SocketFails, SocketClosed, TimerFires,
               HearStarted, HearFailed, HearResponded, RetrieveFails, ClearAlarm, CreateAlarm
    <3>2. \/ UNCHANGED handler
          \/ \E x \in {"done", "retrieving"} : handler' = [handler EXCEPT ![u] = x]
          \/ handler[u] = "keyed" /\ handler' = [handler EXCEPT ![u] = "unarmed"]
      BY <2>4 DEF CreateFails, SocketOpens, SocketFails, SocketClosed, TimerFires,
               HearStarted, HearFailed, HearResponded, RetrieveFails, ClearAlarm, CreateAlarm
    <3> QED
      BY <2>a, <3>1, <3>2, TraceFrame
  <2>5. CASE UNCHANGED vars
    BY <2>5, TraceFrame DEF vars
  <2> QED
    BY <2>1, <2>2, <2>3, <2>4, <2>5 DEF Next, WorkerStep
<1> HIDE DEF Inv
<1>3. Inv => KeyIsFromAPhone
  BY DEF Inv
<1> QED
  BY <1>1, <1>2, <1>3, TypeCorrect, PTL DEF Spec
=============================================================================
