---------------------------- MODULE RelaySession ----------------------------
(***************************************************************************)
(* One unlock session of the relay (server/api/handlers/session.py) with   *)
(* its Redis key (server/db/redis_client.py) and its entry in the          *)
(* WebSocket hub (server/ws/hub.py).  Sessions share no state but their    *)
(* keys, so one session id stands for all.                                 *)
(*                                                                         *)
(* The handlers are coroutines of one event loop: what a handler does      *)
(* between two awaits is one action, and the requests of Responds,         *)
(* Retrieves, Cancels, Acks and the connections of Sockets interleave at   *)
(* the awaits.  Each element is one HTTP call (a retry is another one).    *)
(***************************************************************************)
EXTENDS Naturals, Sequences

CONSTANTS Responds,   \* POST   /session/respond, by authenticated phones
          Retrieves,  \* GET    /session/retrieve/{id}
          Cancels,    \* DELETE /session/{id}
          Acks,       \* POST   /session/ack/{id}
          Sockets,    \* WS     /session/ws/{id}
          DatabaseFails, \* may Postgres refuse a write
          None        \* no response, no connection

ASSUME NoneIsNobody == None \notin Responds \cup Sockets
ASSUME DatabaseAssumption == DatabaseFails \in BOOLEAN

VARIABLES
    clock,     \* "new" (no session yet), "live", or "expired" (past the QR's expiry)
    record,    \* the Redis value: status, the response stored in it, its TTL
    respond,   \* per respond call: where its handler stands, the TTL it read
    retrieve,  \* per retrieve call: where it stands, the response it read and
               \* (history) the response its Lua call consumed
    cancel,    \* per cancel call: where its handler stands
    ack,       \* per ack call: where its handler stands
    ws,        \* per WebSocket: where its handler stands
    hub,       \* SessionHub._connections[session_id], or None
    inbox      \* per WebSocket: the events sent on it

storeVars == <<clock, record>>
hubVars == <<ws, hub, inbox>>
vars == <<clock, record, respond, retrieve, cancel, ack, ws, hub, inbox>>

\* -------------------------------------------------------------------------
\* Types

Events == {"biometric_started", "biometric_failed", "session_responded"}

\* "full": the TTL given at creation, which outlives the expiry.  "default": the
\* 60 s update_session gives a key it found missing, which may end before it.
TTLs == {"full", "default"}

Record == [status : {"absent", "pending", "responded", "consumed"},
           by : Responds \cup {None}, ttl : TTLs]

RespondCall == [pc : {"idle", "checked", "sized", "stored", "done", "failed"}, ttl : TTLs]

RetrieveCall == [pc : {"idle", "read", "served", "failed"},
                 got : Responds \cup {None}, spent : Responds \cup {None}]

\* "admitted": the status check passed, not registered yet.  "waiting": registered,
\* in the receive loop.  "surplus": refused by the hub with code 4000.  "gone": the
\* connection ended, the handler's finally clause has not run yet.
SocketState == {"idle", "polling", "admitted", "waiting", "surplus", "gone", "closed"}

TypeOK ==
    /\ clock \in {"new", "live", "expired"}
    /\ record \in Record
    /\ respond \in [Responds -> RespondCall]
    /\ retrieve \in [Retrieves -> RetrieveCall]
    /\ cancel \in [Cancels -> {"idle", "refused", "checked", "announced", "deleted", "done"}]
    /\ ack \in [Acks -> {"idle", "checked", "done"}]
    /\ ws \in [Sockets -> SocketState]
    /\ hub \in Sockets \cup {None}
    /\ inbox \in [Sockets -> Seq(Events)]

Absent == [status |-> "absent", by |-> None, ttl |-> "full"]

Init ==
    /\ clock = "new"
    /\ record = Absent
    /\ respond = [r \in Responds |-> [pc |-> "idle", ttl |-> "full"]]
    /\ retrieve = [q \in Retrieves |-> [pc |-> "idle", got |-> None, spent |-> None]]
    /\ cancel = [c \in Cancels |-> "idle"]
    /\ ack = [a \in Acks |-> "idle"]
    /\ ws = [s \in Sockets |-> "idle"]
    /\ hub = None
    /\ inbox = [s \in Sockets |-> <<>>]

\* -------------------------------------------------------------------------
\* The hub

\* SessionHub.notify: without a subscriber the event is dropped; on a connection that
\* has ended the send is lost, or fails and unsubscribes.
Notify(e) ==
    \/ hub = None /\ UNCHANGED <<hub, inbox>>
    \/ /\ hub # None /\ ws[hub] = "waiting"
       /\ inbox' = [inbox EXCEPT ![hub] = Append(@, e)]
       /\ UNCHANGED hub
    \/ /\ hub # None /\ ws[hub] = "gone"
       /\ hub' \in {hub, None}
       /\ UNCHANGED inbox

\* Faulty variant: the connection is forgotten but not closed.
ForgottenOnly == ws

\* SessionHub.disconnect pops the entry of the session id, whoever registered it, and
\* closes that connection: its receive loop ends.
HungUp == [s \in Sockets |-> IF s = hub /\ ws[s] = "waiting" THEN "gone" ELSE ws[s]]

\* -------------------------------------------------------------------------
\* The session's life in Redis

\* POST /session/create: the id is fresh, so the check and the store are one step.
Create ==
    /\ clock = "new"
    /\ clock' = "live"
    /\ record' = [Absent EXCEPT !.status = "pending"]
    /\ UNCHANGED <<respond, retrieve, cancel, ack, hubVars>>

\* Time passes the expiry the QR shows.
Expire ==
    /\ clock = "live"
    /\ clock' = "expired"
    /\ UNCHANGED <<record, respond, retrieve, cancel, ack, hubVars>>

\* Redis drops the key at the end of the TTL it was stored with: expiry + 10 s, or 60 s
\* after an update that found no key.  A key stored without TTL would stay.
TTLOver ==
    /\ record.status # "absent"
    /\ (record.ttl = "full" /\ clock = "expired") \/ record.ttl = "default"

KeyExpires ==
    /\ TTLOver
    /\ record' = Absent
    /\ UNCHANGED <<clock, respond, retrieve, cancel, ack, hubVars>>

\* -------------------------------------------------------------------------
\* POST /session/respond

\* Faulty variant: the status is not looked at.
AnswerableOrUsed == record.status # "absent" /\ clock = "live"

\* get_session and the checks on its result.
Answerable == record.status = "pending" /\ clock = "live"

RespondCheck(r) ==
    /\ respond[r].pc = "idle"
    /\ respond' = [respond EXCEPT ![r].pc = IF Answerable THEN "checked" ELSE "failed"]
    /\ UNCHANGED <<storeVars, retrieve, cancel, ack, hubVars>>

\* Device unknown, revoked, of another account, or its signature invalid.
RespondReject(r) ==
    /\ respond[r].pc = "checked"
    /\ respond' = [respond EXCEPT ![r].pc = "failed"]
    /\ UNCHANGED <<storeVars, retrieve, cancel, ack, hubVars>>

\* Faulty variant: the TTL is kept as it is (KEEPTTL), also that of a missing key.
RemainingTTLKept == IF record.status = "absent" THEN "none" ELSE record.ttl

\* The device checks pass and update_session reads the key's remaining TTL.
RemainingTTL == IF record.status = "absent" THEN "default" ELSE record.ttl

\* Faulty variant: notified before the response is stored.
RespondSizeEarlyNotify(r) ==
    /\ respond[r].pc = "checked"
    /\ respond' = [respond EXCEPT ![r] = [pc |-> "sized", ttl |-> RemainingTTL]]
    /\ Notify("session_responded")
    /\ UNCHANGED <<storeVars, retrieve, cancel, ack, ws>>

RespondSize(r) ==
    /\ respond[r].pc = "checked"
    /\ respond' = [respond EXCEPT ![r] = [pc |-> "sized", ttl |-> RemainingTTL]]
    /\ UNCHANGED <<storeVars, retrieve, cancel, ack, hubVars>>

\* Faulty variant: SET instead of SETEX.
StoredWithoutTTL(r) == [status |-> "responded", by |-> r, ttl |-> "none"]

\* SETEX of the session as it was read, now responded: whatever the key holds by now.
Stored(r) == [status |-> "responded", by |-> r, ttl |-> respond[r].ttl]

RespondStore(r) ==
    /\ respond[r].pc = "sized"
    /\ record' = Stored(r)
    /\ respond' = [respond EXCEPT ![r].pc = "stored"]
    /\ UNCHANGED <<clock, retrieve, cancel, ack, hubVars>>

\* Faulty variant: nobody is notified.
RespondSilently(r) ==
    /\ respond[r].pc = "stored"
    /\ respond' = [respond EXCEPT ![r].pc = "done"]
    /\ UNCHANGED <<storeVars, retrieve, cancel, ack, hubVars>>

RespondNotify(r) ==
    /\ respond[r].pc = "stored"
    /\ respond' = [respond EXCEPT ![r].pc = "done"]
    /\ Notify("session_responded")
    /\ UNCHANGED <<storeVars, retrieve, cancel, ack, ws>>

\* update_device_last_seen or write_audit_event raises: the phone is told of a failure,
\* the extension of nothing, and the response stays stored.
RespondUnannounced(r) ==
    /\ DatabaseFails
    /\ respond[r].pc = "stored"
    /\ respond' = [respond EXCEPT ![r].pc = "done"]
    /\ UNCHANGED <<storeVars, retrieve, cancel, ack, hubVars>>

\* -------------------------------------------------------------------------
\* GET /session/retrieve/{id}

\* Faulty variant: the status is not looked at.
RetrieveReadAny(q) ==
    /\ retrieve[q].pc = "idle"
    /\ retrieve' = [retrieve EXCEPT ![q] = [pc |-> "read", got |-> record.by, spent |-> None]]
    /\ UNCHANGED <<storeVars, respond, cancel, ack, hubVars>>

RetrieveRead(q) ==
    /\ retrieve[q].pc = "idle"
    /\ retrieve' = [retrieve EXCEPT ![q] =
           IF record.status = "responded"
           THEN [pc |-> "read", got |-> record.by, spent |-> None]
           ELSE [pc |-> "failed", got |-> None, spent |-> None]]
    /\ UNCHANGED <<storeVars, respond, cancel, ack, hubVars>>

\* Faulty variant: the script does not refuse a consumed session.
ConsumableAgain == record.status \in {"responded", "consumed"}

\* The Lua script: atomic in Redis.  What is returned is what RetrieveRead read.
Consumable == record.status = "responded"

RetrieveConsume(q) ==
    /\ retrieve[q].pc = "read"
    /\ Consumable
    /\ record' = [record EXCEPT !.status = "consumed"]
    /\ retrieve' = [retrieve EXCEPT ![q] =
           [pc |-> "served", got |-> retrieve[q].got, spent |-> record.by]]
    /\ UNCHANGED <<clock, respond, cancel, ack, hubVars>>

RetrieveLose(q) ==
    /\ retrieve[q].pc = "read"
    /\ ~Consumable
    /\ retrieve' = [retrieve EXCEPT ![q].pc = "failed"]
    /\ UNCHANGED <<storeVars, respond, cancel, ack, hubVars>>

\* -------------------------------------------------------------------------
\* POST /session/ack/{id}

AckCheck(a) ==
    /\ ack[a] = "idle"
    /\ ack' = [ack EXCEPT ![a] = IF record.status = "pending" THEN "checked" ELSE "done"]
    /\ UNCHANGED <<storeVars, respond, retrieve, cancel, hubVars>>

AckNotify(a) ==
    /\ ack[a] = "checked"
    /\ ack' = [ack EXCEPT ![a] = "done"]
    /\ Notify("biometric_started")
    /\ UNCHANGED <<storeVars, respond, retrieve, cancel, ws>>

\* -------------------------------------------------------------------------
\* DELETE /session/{id}

CancelCheck(c) ==
    /\ cancel[c] = "idle"
    /\ cancel' = [cancel EXCEPT ![c] = IF record.status = "pending" THEN "checked" ELSE "refused"]
    /\ UNCHANGED <<storeVars, respond, retrieve, ack, hubVars>>

\* reason=biometric_failed tells the extension; any other reason tells nobody.
CancelAnnounce(c) ==
    /\ cancel[c] = "checked"
    /\ cancel' = [cancel EXCEPT ![c] = "announced"]
    /\ Notify("biometric_failed") \/ UNCHANGED <<hub, inbox>>
    /\ UNCHANGED <<storeVars, respond, retrieve, ack, ws>>

CancelDelete(c) ==
    /\ cancel[c] = "announced"
    /\ cancel' = [cancel EXCEPT ![c] = "deleted"]
    /\ record' = Absent
    /\ UNCHANGED <<clock, respond, retrieve, ack, hubVars>>

\* hub.cleanup_session
CancelHangUp(c) ==
    /\ cancel[c] = "deleted"
    /\ cancel' = [cancel EXCEPT ![c] = "done"]
    /\ hub' = None
    /\ ws' = HungUp
    /\ UNCHANGED <<storeVars, respond, retrieve, ack, inbox>>

\* -------------------------------------------------------------------------
\* WS /session/ws/{id}

SocketOpen(s) ==
    /\ ws[s] = "idle"
    /\ ws' = [ws EXCEPT ![s] = "polling"]
    /\ UNCHANGED <<storeVars, respond, retrieve, cancel, ack, hub, inbox>>

\* One of the ten get_session calls finds the session; a miss before the last changes
\* nothing.
SocketFinds(s) ==
    /\ ws[s] = "polling"
    /\ record.status # "absent"
    /\ ws' = [ws EXCEPT ![s] = IF record.status = "pending" THEN "admitted" ELSE "closed"]
    /\ UNCHANGED <<storeVars, respond, retrieve, cancel, ack, hub, inbox>>

\* The last call finds no session: code 4004.
SocketGivesUp(s) ==
    /\ ws[s] = "polling"
    /\ record.status = "absent"
    /\ ws' = [ws EXCEPT ![s] = "closed"]
    /\ UNCHANGED <<storeVars, respond, retrieve, cancel, ack, hub, inbox>>

\* SessionHub.register: a second subscriber is closed with code 4000.
SocketRegister(s) ==
    /\ ws[s] = "admitted"
    /\ IF hub = None
       THEN hub' = s /\ ws' = [ws EXCEPT ![s] = "waiting"]
       ELSE ws' = [ws EXCEPT ![s] = "surplus"] /\ UNCHANGED hub
    /\ UNCHANGED <<storeVars, respond, retrieve, cancel, ack, inbox>>

\* The extension closes the connection, or it breaks.
SocketBreaks(s) ==
    /\ ws[s] = "waiting"
    /\ ws' = [ws EXCEPT ![s] = "gone"]
    /\ UNCHANGED <<storeVars, respond, retrieve, cancel, ack, hub, inbox>>

\* The handler's finally clause: hub.disconnect(session_id).
SocketEnds(s) ==
    /\ ws[s] \in {"surplus", "gone"}
    /\ ws' = [HungUp EXCEPT ![s] = "closed"]
    /\ hub' = None
    /\ UNCHANGED <<storeVars, respond, retrieve, cancel, ack, inbox>>

\* -------------------------------------------------------------------------

RespondSteps(r) ==
    \/ RespondReject(r) \/ RespondSize(r) \/ RespondStore(r)
    \/ RespondNotify(r) \/ RespondUnannounced(r)

RetrieveSteps(q) == RetrieveConsume(q) \/ RetrieveLose(q)

CancelSteps(c) == CancelAnnounce(c) \/ CancelDelete(c) \/ CancelHangUp(c)

SocketSteps(s) ==
    SocketFinds(s) \/ SocketGivesUp(s) \/ SocketRegister(s) \/ SocketEnds(s)

Next ==
    \/ Create \/ Expire \/ KeyExpires
    \/ \E r \in Responds : RespondCheck(r) \/ RespondSteps(r)
    \/ \E q \in Retrieves : RetrieveRead(q) \/ RetrieveSteps(q)
    \/ \E c \in Cancels : CancelCheck(c) \/ CancelSteps(c)
    \/ \E a \in Acks : AckCheck(a) \/ AckNotify(a)
    \/ \E s \in Sockets : SocketOpen(s) \/ SocketBreaks(s) \/ SocketSteps(s)

Spec == Init /\ [][Next]_vars

\* A started handler runs to its end (the event loop is not blocked) and time goes on.
\* Nobody has to send a request, and no connection has to break.
Fairness ==
    /\ WF_vars(Expire) /\ WF_vars(KeyExpires)
    /\ \A r \in Responds : WF_vars(RespondSteps(r))
    /\ \A q \in Retrieves : WF_vars(RetrieveSteps(q))
    /\ \A c \in Cancels : WF_vars(CancelSteps(c))
    /\ \A a \in Acks : WF_vars(AckNotify(a))
    /\ \A s \in Sockets : WF_vars(SocketSteps(s))

FairSpec == Spec /\ Fairness

\* -------------------------------------------------------------------------
\* Properties

Deposited(r) == respond[r].pc \in {"stored", "done"}
Served(q) == retrieve[q].pc = "served"

\* The extension at the other end of the connection was told of an answer.
Told(s) == \E i \in DOMAIN inbox[s] : inbox[s][i] = "session_responded"

\* A response is handed out twice only when another phone's answer was stored over it
\* after both calls had read it: then one of them consumed that other answer, and still
\* returned the copy it had read (this does happen).  And once a response was handed out,
\* nobody who asks later finds it.  This is what is left of "single-use" under any
\* interleaving of retrieve_session, consume_session and respond_to_session.
HandedOutOnceUnlessOverwritten ==
    \A q \in Retrieves : Served(q) =>
        /\ ~(record.status = "responded" /\ record.by = retrieve[q].got)
        /\ \A p \in Retrieves \ {q} :
               Served(p) /\ retrieve[p].got = retrieve[q].got
                   => \E x \in {p, q} : retrieve[x].spent # retrieve[x].got

\* What retrieve hands out is a response that a respond call stored after its device
\* was verified, although the handler returns the copy it read before consuming.
ServedWasStored ==
    \A q \in Retrieves : Served(q) => \E r \in Responds : retrieve[q].got = r /\ Deposited(r)

\* An extension that is told session_responded finds the answer when it retrieves, unless
\* one was retrieved before, the session's time is over, or a cancel that had passed its
\* check deleted it (which happens: cancel_session looks at the status only once).
ToldFindsAnswer ==
    \A s \in Sockets :
        Told(s) => \/ record.status = "responded"
                   \/ \E q \in Retrieves : Served(q)
                   \/ clock = "expired"
                   \/ \E c \in Cancels : cancel[c] \in {"deleted", "done"}

\* A handler waits for events exactly while the hub knows its connection: nobody waits
\* on a connection the hub forgot, and the hub keeps no connection whose handler ended.
SubscriberIffWaiting ==
    /\ \A s \in Sockets : ws[s] = "waiting" => hub = s
    /\ hub # None => ws[hub] \in {"waiting", "gone"}

\* Once a session was used or vanished, and no answer is past respond_to_session's
\* "pending" check, it is closed for good: however requests interleave afterwards, no
\* answer gets past the check and nothing can be retrieved from it again.
Closed ==
    /\ clock # "new" /\ record.status \notin {"pending", "responded"}
    /\ \A r \in Responds : respond[r].pc \notin {"checked", "sized"}

ClosedForGood == [][Closed => Closed']_vars

\* At the end nothing of the session is left in Redis, not even when update_session
\* recreated a key that a cancel or the TTL had deleted between its TTL call and its
\* SETEX, or before both.
RecordEventuallyExpires == <>[](record.status = "absent")

\* An extension that is subscribed when the phone's response is stored is told, or
\* its connection ends (which it sees).
RespondReachesSubscriber ==
    \A r \in Responds, s \in Sockets :
        respond[r].pc = "stored" /\ ws[s] = "waiting"
            ~> ws[s] # "waiting" \/ Told(s)

\* The session as the mailbox: a retrieve call looks, and may then take what it saw.
Slot == INSTANCE Mailbox WITH
    deposited <- {r \in Responds : Deposited(r)},
    box <- IF record.status = "responded" THEN record.by ELSE None,
    seen <- [q \in Retrieves |-> IF retrieve[q].pc = "read" THEN retrieve[q].got ELSE None],
    taken <- {<<q, retrieve[q].got>> : q \in {p \in Retrieves : Served(p)}}

\* What the calls return, in any interleaving, is what a mailbox returns in which every
\* response that comes in pays for one that goes out: retrievals that succeed never
\* outnumber the responses stored, and each returns one that was in the slot.
ImplementsMailbox == Slot!MailboxSpec

\* What session.py and consume_session say: retrieval is single-use.
SingleUse == \A q1, q2 \in Retrieves : Served(q1) /\ Served(q2) => q1 = q2
=============================================================================
