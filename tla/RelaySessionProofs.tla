------------------------- MODULE RelaySessionProofs -------------------------
(***************************************************************************)
(* What RelaySession guarantees for any number of calls of each kind.      *)
(***************************************************************************)
EXTENDS RelaySession, TLAPS

\* -------------------------------------------------------------------------
\* Types

\* The initial values have the types of TypeOK.
LEMMA TypeInit == Init => TypeOK
  BY DEF Init, TypeOK, Absent, Record, TTLs, RespondCall, RetrieveCall, SocketState, Events

\* The hub's part of every handler keeps its types.
LEMMA NotifyType ==
  ASSUME TypeOK, NEW e \in Events, Notify(e)
  PROVE  hub' \in Sockets \cup {None} /\ inbox' \in [Sockets -> Seq(Events)]
<1>1. CASE hub = None /\ UNCHANGED <<hub, inbox>>
  BY <1>1 DEF TypeOK
<1>2. CASE /\ hub # None /\ ws[hub] = "waiting"
           /\ inbox' = [inbox EXCEPT ![hub] = Append(@, e)]
           /\ UNCHANGED hub
  <2>1. hub \in Sockets /\ inbox[hub] \in Seq(Events)
    BY <1>2 DEF TypeOK
  <2>2. Append(inbox[hub], e) \in Seq(Events)
    BY <2>1
  <2> QED
    BY <1>2, <2>1, <2>2 DEF TypeOK
<1>3. CASE hub # None /\ ws[hub] = "gone" /\ hub' \in {hub, None} /\ UNCHANGED inbox
  BY <1>3 DEF TypeOK
<1> QED
  BY <1>1, <1>2, <1>3 DEF Notify

\* Hanging up leaves every handler in a known place.
LEMMA HungUpType == TypeOK => HungUp \in [Sockets -> SocketState]
  BY DEF TypeOK, HungUp, SocketState

\* Every step keeps the types.
LEMMA TypeStep == TypeOK /\ [Next]_vars => TypeOK'
<1> SUFFICES ASSUME TypeOK, [Next]_vars PROVE TypeOK'
  OBVIOUS
<1> USE DEF Record, TTLs, RespondCall, RetrieveCall, storeVars, hubVars
<1>1. CASE Create
  BY <1>1 DEF Create, TypeOK, Absent
<1>2. CASE Expire
  BY <1>2 DEF Expire, TypeOK
<1>3. CASE KeyExpires
  BY <1>3 DEF KeyExpires, TypeOK, Absent
<1>4. ASSUME NEW r \in Responds, RespondCheck(r) \/ RespondSteps(r)
      PROVE  TypeOK'
  <2>1. CASE RespondCheck(r)
    <3>1. CASE respond' = [respond EXCEPT ![r].pc = "checked"]
      BY <2>1, <3>1 DEF RespondCheck, TypeOK
    <3>2. CASE respond' = [respond EXCEPT ![r].pc = "failed"]
      BY <2>1, <3>2 DEF RespondCheck, TypeOK
    <3> QED
      BY <2>1, <3>1, <3>2 DEF RespondCheck
  <2>2. CASE RespondReject(r)
    BY <2>2 DEF RespondReject, TypeOK
  <2>3. CASE RespondSize(r)
    <3>1. RemainingTTL \in TTLs
      BY DEF RemainingTTL, TypeOK
    <3> QED
      BY <2>3, <3>1 DEF RespondSize, TypeOK
  <2>4. CASE RespondStore(r)
    BY <2>4 DEF RespondStore, Stored, TypeOK
  <2>5. CASE RespondNotify(r)
    <3>1. hub' \in Sockets \cup {None} /\ inbox' \in [Sockets -> Seq(Events)]
      BY <2>5, NotifyType DEF RespondNotify, Events
    <3> QED
      BY <2>5, <3>1 DEF RespondNotify, TypeOK
  <2>6. CASE RespondUnannounced(r)
    BY <2>6 DEF RespondUnannounced, TypeOK
  <2> QED
    BY <1>4, <2>1, <2>2, <2>3, <2>4, <2>5, <2>6 DEF RespondSteps
<1>5. ASSUME NEW q \in Retrieves, RetrieveRead(q) \/ RetrieveSteps(q)
      PROVE  TypeOK'
  <2>1. CASE RetrieveRead(q)
    <3>1. record.by \in Responds \cup {None}
      BY DEF TypeOK
    <3>2. CASE record.status = "responded"
      BY <2>1, <3>1, <3>2 DEF RetrieveRead, TypeOK
    <3>3. CASE record.status # "responded"
      BY <2>1, <3>3 DEF RetrieveRead, TypeOK
    <3> QED
      BY <3>2, <3>3
  <2>2. CASE RetrieveConsume(q)
    <3>1. record.by \in Responds \cup {None}
      BY DEF TypeOK
    <3>2. record' \in Record
      BY <2>2 DEF RetrieveConsume, TypeOK
    <3>3. retrieve' \in [Retrieves -> RetrieveCall]
      BY <2>2, <3>1 DEF RetrieveConsume, TypeOK
    <3> QED
      BY <2>2, <3>2, <3>3 DEF RetrieveConsume, TypeOK
  <2>3. CASE RetrieveLose(q)
    BY <2>3 DEF RetrieveLose, TypeOK
  <2> QED
    BY <1>5, <2>1, <2>2, <2>3 DEF RetrieveSteps
<1>6. ASSUME NEW c \in Cancels, CancelCheck(c) \/ CancelSteps(c)
      PROVE  TypeOK'
  <2>1. CASE CancelCheck(c)
    BY <2>1 DEF CancelCheck, TypeOK
  <2>2. CASE CancelAnnounce(c)
    <3>1. hub' \in Sockets \cup {None} /\ inbox' \in [Sockets -> Seq(Events)]
      BY <2>2, NotifyType DEF CancelAnnounce, Events, TypeOK
    <3> QED
      BY <2>2, <3>1 DEF CancelAnnounce, TypeOK
  <2>3. CASE CancelDelete(c)
    BY <2>3 DEF CancelDelete, TypeOK, Absent
  <2>4. CASE CancelHangUp(c)
    BY <2>4, HungUpType DEF CancelHangUp, TypeOK
  <2> QED
    BY <1>6, <2>1, <2>2, <2>3, <2>4 DEF CancelSteps
<1>7. ASSUME NEW a \in Acks, AckCheck(a) \/ AckNotify(a)
      PROVE  TypeOK'
  <2>1. CASE AckCheck(a)
    BY <2>1 DEF AckCheck, TypeOK
  <2>2. CASE AckNotify(a)
    <3>1. hub' \in Sockets \cup {None} /\ inbox' \in [Sockets -> Seq(Events)]
      BY <2>2, NotifyType DEF AckNotify, Events
    <3> QED
      BY <2>2, <3>1 DEF AckNotify, TypeOK
  <2> QED
    BY <1>7, <2>1, <2>2
<1>8. ASSUME NEW s \in Sockets, SocketOpen(s) \/ SocketBreaks(s) \/ SocketSteps(s)
      PROVE  TypeOK'
  <2> USE DEF SocketState
  <2>1. CASE SocketOpen(s)
    BY <2>1 DEF SocketOpen, TypeOK
  <2>2. CASE SocketBreaks(s)
    BY <2>2 DEF SocketBreaks, TypeOK
  <2>3. CASE SocketFinds(s)
    BY <2>3 DEF SocketFinds, TypeOK
  <2>4. CASE SocketGivesUp(s)
    BY <2>4 DEF SocketGivesUp, TypeOK
  <2>5. CASE SocketRegister(s)
    BY <2>5 DEF SocketRegister, TypeOK
  <2>6. CASE SocketEnds(s)
    BY <2>6, HungUpType DEF SocketEnds, TypeOK
  <2> QED
    BY <1>8, <2>1, <2>2, <2>3, <2>4, <2>5, <2>6 DEF SocketSteps
<1>9. CASE UNCHANGED vars
  BY <1>9 DEF vars, TypeOK
<1> QED
  BY <1>1, <1>2, <1>3, <1>4, <1>5, <1>6, <1>7, <1>8, <1>9 DEF Next

\* Every variable keeps its type, for any number of concurrent calls of each handler.
THEOREM TypeCorrect == Spec => []TypeOK
  BY TypeInit, TypeStep, PTL DEF Spec

\* -------------------------------------------------------------------------
\* The record and the responses

\* Only these steps touch the record, the respond calls or the retrieve calls.
LEMMA StoreSteps ==
  ASSUME [Next]_vars
  PROVE  \/ UNCHANGED <<record, respond, retrieve>>
         \/ /\ clock = "new" /\ record' = [Absent EXCEPT !.status = "pending"]
            /\ UNCHANGED <<respond, retrieve>>
         \/ record' = Absent /\ UNCHANGED <<respond, retrieve>>
         \/ \E r \in Responds : RespondCheck(r) \/ RespondSteps(r)
         \/ \E q \in Retrieves : RetrieveRead(q) \/ RetrieveSteps(q)
  BY DEF Next, vars, storeVars, Create, Expire, KeyExpires, CancelCheck, CancelSteps,
         CancelAnnounce, CancelDelete, CancelHangUp, AckCheck, AckNotify, SocketOpen,
         SocketBreaks, SocketSteps, SocketFinds, SocketGivesUp, SocketRegister, SocketEnds

\* A response that was stored stays a stored one: its call only ends.
LEMMA DepositsLast ==
  ASSUME TypeOK, [Next]_vars, NEW r \in Responds, Deposited(r)
  PROVE  Deposited(r)'
<1>1. CASE UNCHANGED respond
  BY <1>1 DEF Deposited
<1>2. ASSUME NEW r2 \in Responds, RespondCheck(r2) \/ RespondSteps(r2)
      PROVE  Deposited(r)'
  BY <1>2 DEF Deposited, TypeOK, RespondCall, RespondCheck, RespondSteps, RespondReject,
              RespondSize, RespondStore, RespondNotify, RespondUnannounced
<1>3. ASSUME NEW q \in Retrieves, RetrieveRead(q) \/ RetrieveSteps(q)
      PROVE  UNCHANGED respond
  BY <1>3 DEF RetrieveRead, RetrieveSteps, RetrieveConsume, RetrieveLose
<1> QED
  BY <1>1, <1>2, <1>3, StoreSteps

\* The strengthening: a response in the record, read or consumed by a retrieve call was
\* stored; one that was consumed or returned is not in the record as "responded" any
\* more; and no two calls consumed the same one.  It is the second part that lets the
\* next consumption be of another response.
RecordIsDeposited ==
    record.status = "responded" => record.by \in Responds /\ Deposited(record.by)

ReadIsDeposited ==
    \A q \in Retrieves :
        retrieve[q].pc \in {"read", "served"}
            => retrieve[q].got \in Responds /\ Deposited(retrieve[q].got)

SpentIsGone ==
    \A q \in Retrieves :
        Served(q) => /\ retrieve[q].spent \in Responds
                     /\ Deposited(retrieve[q].spent)
                     /\ record.status = "responded"
                          => record.by \notin {retrieve[q].spent, retrieve[q].got}

ConsumedOnce ==
    \A q1, q2 \in Retrieves :
        Served(q1) /\ Served(q2) /\ q1 # q2 => retrieve[q1].spent # retrieve[q2].spent

StoreInv == RecordIsDeposited /\ ReadIsDeposited /\ SpentIsGone /\ ConsumedOnce

\* Initially no response is stored and none was consumed.
LEMMA StoreInit == Init => StoreInv
  BY DEF Init, Absent, StoreInv, RecordIsDeposited, ReadIsDeposited, SpentIsGone,
         ConsumedOnce, Served

\* Storing puts in a response no retrieve call has consumed.
LEMMA StoreKeeps ==
  ASSUME TypeOK, StoreInv, NEW r \in Responds, RespondStore(r), [Next]_vars
  PROVE  StoreInv'
<1> USE DEF StoreInv
<1>1. ~Deposited(r) /\ Deposited(r)'
  BY DEF RespondStore, Deposited, TypeOK, RespondCall
<1>2. record'.status = "responded" /\ record'.by = r /\ UNCHANGED retrieve
  BY DEF RespondStore, Stored
<1>3. RecordIsDeposited'
  BY <1>1, <1>2 DEF RecordIsDeposited, Deposited
<1>4. ReadIsDeposited'
  BY <1>2, DepositsLast DEF ReadIsDeposited, Deposited
<1>5. SpentIsGone'
  <2> SUFFICES ASSUME NEW q \in Retrieves, Served(q)'
               PROVE  /\ retrieve[q].spent \in Responds
                      /\ Deposited(retrieve[q].spent)'
                      /\ r \notin {retrieve[q].spent, retrieve[q].got}
    BY <1>2 DEF SpentIsGone, Deposited
  <2>1. PICK p \in Responds : p = retrieve[q].spent /\ Deposited(p)
    BY <1>2 DEF SpentIsGone, Served
  <2>2. Deposited(p)'
    BY <2>1, DepositsLast
  <2>3. retrieve[q].got \in Responds /\ Deposited(retrieve[q].got)
    BY <1>2 DEF ReadIsDeposited, Served
  <2> QED
    BY <2>1, <2>2, <2>3, <1>1, <1>2 DEF Deposited
<1>6. ConsumedOnce'
  BY <1>2 DEF ConsumedOnce, Served
<1> QED
  BY <1>3, <1>4, <1>5, <1>6

\* The Lua call takes the response out of circulation.
LEMMA ConsumeKeeps ==
  ASSUME TypeOK, StoreInv, NEW q \in Retrieves, RetrieveConsume(q)
  PROVE  StoreInv'
<1> USE DEF StoreInv
<1>1. /\ record.status = "responded" /\ record'.status = "consumed"
      /\ retrieve[q].pc = "read" /\ UNCHANGED respond
      /\ record.by \in Responds /\ Deposited(record.by)
  BY DEF RetrieveConsume, Consumable, TypeOK, Record, RecordIsDeposited
<1>2. /\ retrieve'[q].pc = "served" /\ retrieve'[q].spent = record.by
      /\ retrieve'[q].got = retrieve[q].got
      /\ \A p \in Retrieves \ {q} : retrieve'[p] = retrieve[p]
  BY DEF RetrieveConsume, TypeOK
<1>3. RecordIsDeposited'
  BY <1>1 DEF RecordIsDeposited
<1>4. ReadIsDeposited'
  BY <1>1, <1>2 DEF ReadIsDeposited, Deposited
<1>5. SpentIsGone'
  BY <1>1, <1>2 DEF SpentIsGone, Served, Deposited
<1>6. ConsumedOnce'
  BY <1>1, <1>2 DEF ConsumedOnce, SpentIsGone, Served
<1> QED
  BY <1>3, <1>4, <1>5, <1>6

\* Every step keeps the invariant of the store.
LEMMA StoreStep == TypeOK /\ StoreInv /\ [Next]_vars => StoreInv'
<1> SUFFICES ASSUME TypeOK, StoreInv, [Next]_vars PROVE StoreInv'
  OBVIOUS
<1> USE DEF StoreInv, RecordIsDeposited, ReadIsDeposited, SpentIsGone,
            ConsumedOnce, Served
<1>1. CASE UNCHANGED <<record, respond, retrieve>>
  BY <1>1 DEF Deposited
<1>2. CASE /\ record' = [Absent EXCEPT !.status = "pending"]
           /\ UNCHANGED <<respond, retrieve>>
  BY <1>2 DEF Deposited, Absent
<1>3. CASE record' = Absent /\ UNCHANGED <<respond, retrieve>>
  BY <1>3 DEF Deposited, Absent
<1>4. ASSUME NEW r \in Responds, RespondCheck(r) \/ RespondSteps(r)
      PROVE  StoreInv'
  <2>1. CASE RespondStore(r)
    BY <2>1, StoreKeeps
  <2>2. CASE ~RespondStore(r)
    <3>1. UNCHANGED <<record, retrieve>>
      BY <1>4, <2>2 DEF RespondCheck, RespondSteps, RespondReject, RespondSize,
                        RespondNotify, RespondUnannounced, storeVars
    <3> QED
      BY <3>1, DepositsLast
  <2> QED
    BY <2>1, <2>2
<1>5. ASSUME NEW q \in Retrieves, RetrieveRead(q) \/ RetrieveSteps(q)
      PROVE  StoreInv'
  <2>1. CASE RetrieveConsume(q)
    BY <2>1, ConsumeKeeps
  <2>2. CASE RetrieveRead(q)
    <3>1. /\ UNCHANGED <<record, respond>>
          /\ retrieve[q].pc = "idle" /\ retrieve'[q].pc \in {"read", "failed"}
          /\ \A p \in Retrieves \ {q} : retrieve'[p] = retrieve[p]
      BY <2>2 DEF RetrieveRead, storeVars, TypeOK
    <3>2. retrieve'[q].pc = "read" => record.status = "responded" /\ retrieve'[q].got = record.by
      BY <2>2 DEF RetrieveRead, TypeOK
    <3> QED
      BY <3>1, <3>2 DEF Deposited
  <2>3. CASE RetrieveLose(q)
    <3>1. /\ UNCHANGED <<record, respond>>
          /\ retrieve'[q].pc = "failed"
          /\ \A p \in Retrieves \ {q} : retrieve'[p] = retrieve[p]
      BY <2>3 DEF RetrieveLose, storeVars, TypeOK
    <3> QED
      BY <3>1 DEF Deposited
  <2> QED
    BY <1>5, <2>1, <2>2, <2>3 DEF RetrieveSteps
<1> QED
  BY <1>1, <1>2, <1>3, <1>4, <1>5, StoreSteps

\* The invariant of the store holds of every behaviour.
LEMMA StoreInvariant == Spec => []StoreInv
<1>1. TypeOK /\ StoreInv /\ [Next]_vars => StoreInv'
  BY StoreStep
<1> QED
  BY <1>1, StoreInit, TypeCorrect, PTL DEF Spec

\* However many phones and clients there are and however the handlers interleave: two
\* retrieves return one response only if another was stored over it while they ran, and
\* nobody who asks after a response was returned gets it again.
THEOREM ServedOnce == Spec => []HandedOutOnceUnlessOverwritten
<1>1. StoreInv => HandedOutOnceUnlessOverwritten
  BY DEF StoreInv, SpentIsGone, ConsumedOnce, HandedOutOnceUnlessOverwritten
<1> QED
  BY <1>1, StoreInvariant, PTL

\* Whatever a retrieve hands out, a phone stored it after its signature was verified.
THEOREM ServedIsAuthentic == Spec => []ServedWasStored
<1>1. StoreInv => ServedWasStored
  BY DEF StoreInv, ReadIsDeposited, ServedWasStored, Served
<1> QED
  BY <1>1, StoreInvariant, PTL

\* The session is single-use as session.py says, when only one phone ever answers it.
THEOREM SingleUseByOnePhone ==
  ASSUME NEW phone, Responds = {phone}
  PROVE  Spec => []SingleUse
<1>1. StoreInv => SingleUse
  BY DEF StoreInv, SpentIsGone, ConsumedOnce, SingleUse, Served
<1> QED
  BY <1>1, StoreInvariant, PTL

\* A session that was used or vanished while no answer was past its check is closed for
\* good.
THEOREM ClosedSessionsStayClosed == Spec => ClosedForGood
<1>1. TypeOK /\ [Next]_vars => [Closed => Closed']_vars
  <2> SUFFICES ASSUME TypeOK, [Next]_vars, Closed PROVE Closed'
    OBVIOUS
  <2>1. /\ clock # "new" /\ record.status \notin {"pending", "responded"}
        /\ \A r \in Responds : respond[r].pc \notin {"checked", "sized"}
    BY DEF Closed
  <2>2. clock' # "new"
    BY <2>1 DEF Next, vars, storeVars, hubVars, Create, Expire, KeyExpires, RespondCheck,
                RespondSteps, RespondReject, RespondSize, RespondStore, RespondNotify,
                RespondUnannounced, RetrieveRead, RetrieveSteps, RetrieveConsume,
                RetrieveLose, CancelCheck, CancelSteps, CancelAnnounce, CancelDelete, CancelHangUp, AckCheck, AckNotify,
                SocketOpen, SocketBreaks, SocketSteps, SocketFinds, SocketGivesUp,
                SocketRegister, SocketEnds
  <2>3. /\ record'.status \notin {"pending", "responded"}
        /\ \A r \in Responds : respond'[r].pc \notin {"checked", "sized"}
    <3>1. CASE UNCHANGED <<record, respond>>
      BY <2>1, <3>1
    <3>2. CASE record' = Absent /\ UNCHANGED respond
      BY <2>1, <3>2 DEF Absent
    <3>3. ASSUME NEW r \in Responds, RespondCheck(r) \/ RespondSteps(r)
          PROVE  UNCHANGED record /\ respond'[r].pc \notin {"checked", "sized"}
                 /\ \A p \in Responds \ {r} : respond'[p] = respond[p]
      <4>1. CASE RespondCheck(r)
        BY <2>1, <4>1 DEF RespondCheck, Answerable, storeVars, TypeOK
      <4>2. CASE RespondNotify(r)
        BY <2>1, <4>2 DEF RespondNotify, storeVars, TypeOK
      <4>3. CASE RespondUnannounced(r)
        BY <2>1, <4>3 DEF RespondUnannounced, storeVars, TypeOK
      <4>4. ~(RespondReject(r) \/ RespondSize(r) \/ RespondStore(r))
        BY <2>1 DEF RespondReject, RespondSize, RespondStore
      <4> QED
        BY <3>3, <4>1, <4>2, <4>3, <4>4, Zenon DEF RespondSteps
    <3>4. ASSUME NEW q \in Retrieves, RetrieveRead(q) \/ RetrieveSteps(q)
          PROVE  UNCHANGED <<record, respond>>
      BY <2>1, <3>4 DEF RetrieveRead, RetrieveSteps, RetrieveConsume, RetrieveLose,
                        Consumable, storeVars
    <3> QED
      BY <2>1, <3>1, <3>2, <3>3, <3>4, StoreSteps
  <2> QED
    BY <2>2, <2>3 DEF Closed
<1> QED
  BY <1>1, TypeCorrect, PTL DEF Spec, ClosedForGood

\* -------------------------------------------------------------------------
\* The session implements the mailbox

\* The first state of a session is an empty mailbox.
LEMMA MailboxInits == Init => Slot!MailboxInit
  BY DEF Init, Absent, Slot!MailboxInit, Deposited, Served

\* The other steps of a respond call deposit nothing.
LEMMA OnlyStoreDeposits ==
  ASSUME TypeOK, NEW r \in Responds, RespondCheck(r) \/ RespondSteps(r), ~RespondStore(r)
  PROVE  /\ UNCHANGED <<record, retrieve>>
         /\ \A p \in Responds : Deposited(p)' = Deposited(p)
<1> USE DEF Deposited, storeVars, TypeOK, RespondCall
<1>1. CASE RespondCheck(r)
  BY <1>1 DEF RespondCheck, Answerable
<1>2. CASE RespondReject(r)
  BY <1>2 DEF RespondReject
<1>3. CASE RespondSize(r)
  BY <1>3 DEF RespondSize
<1>4. CASE RespondNotify(r)
  BY <1>4 DEF RespondNotify
<1>5. CASE RespondUnannounced(r)
  BY <1>5 DEF RespondUnannounced
<1> QED
  BY <1>1, <1>2, <1>3, <1>4, <1>5 DEF RespondSteps

\* A store is a deposit of a response that was never deposited before.
LEMMA StoreIsDeposit ==
  ASSUME TypeOK, NEW r \in Responds, RespondStore(r)
  PROVE  Slot!Deposit(r)
<1>1. /\ ~Deposited(r) /\ Deposited(r)'
      /\ \A p \in Responds \ {r} : Deposited(p)' = Deposited(p)
      /\ UNCHANGED retrieve
  BY DEF RespondStore, Deposited, TypeOK, RespondCall
<1>2. {p \in Responds : Deposited(p)}' = {p \in Responds : Deposited(p)} \cup {r}
  BY <1>1 DEF Deposited
<1>3. record'.status = "responded" /\ record'.by = r
  BY DEF RespondStore, Stored
<1> QED
  BY <1>1, <1>2, <1>3 DEF Slot!Deposit, Served

\* What a call that is under way saw.
SeenBy(q) == IF retrieve[q].pc = "read" THEN retrieve[q].got ELSE None

\* Where one retrieve call moves, only its own sight and what it took change.
LEMMA OneCallMoves ==
  ASSUME TypeOK, NEW q \in Retrieves, UNCHANGED respond,
         \A p \in Retrieves \ {q} : retrieve'[p] = retrieve[p]
  PROVE  /\ [p \in Retrieves |-> SeenBy(p)]'
               = [[p \in Retrieves |-> SeenBy(p)] EXCEPT ![q] = SeenBy(q)']
         /\ {p \in Responds : Deposited(p)}' = {p \in Responds : Deposited(p)}
         /\ \A p \in Retrieves \ {q} : Served(p)' = Served(p)
  BY DEF SeenBy, Deposited, Served

\* The Lua call empties the slot, and what is returned is what was seen.
LEMMA ConsumeIsTake ==
  ASSUME TypeOK, StoreInv, NEW q \in Retrieves, RetrieveConsume(q)
  PROVE  Slot!Take(q)
<1> DEFINE servedCalls == {p \in Retrieves : Served(p)}
<1> DEFINE got == {<<p, retrieve[p].got>> : p \in servedCalls}
<1>1. /\ record.status = "responded" /\ record'.status = "consumed"
      /\ retrieve[q].pc = "read" /\ UNCHANGED respond
      /\ record.by \in Responds /\ retrieve[q].got \in Responds
  BY DEF RetrieveConsume, Consumable, TypeOK, Record, StoreInv, RecordIsDeposited,
         ReadIsDeposited
<1>2. /\ retrieve'[q].pc = "served" /\ retrieve'[q].got = retrieve[q].got
      /\ \A p \in Retrieves \ {q} : retrieve'[p] = retrieve[p]
  BY DEF RetrieveConsume, TypeOK
<1>3. record.by # None /\ retrieve[q].got # None
  BY <1>1, NoneIsNobody
<1>4. got' = got \cup {<<q, retrieve[q].got>>}
  <2>1. servedCalls' = servedCalls \cup {q} /\ q \notin servedCalls
    BY <1>1, <1>2 DEF Served
  <2> QED
    BY <2>1, <1>2
<1>5. /\ SeenBy(q) = retrieve[q].got /\ SeenBy(q)' = None
      /\ [p \in Retrieves |-> SeenBy(p)]'
            = [[p \in Retrieves |-> SeenBy(p)] EXCEPT ![q] = None]
  BY <1>1, <1>2, OneCallMoves DEF SeenBy
<1>6. {p \in Responds : Deposited(p)}' = {p \in Responds : Deposited(p)}
  BY <1>1 DEF Deposited
<1> QED
  BY <1>1, <1>3, <1>4, <1>5, <1>6 DEF Slot!Take, SeenBy

\* The first query of a retrieve call is a look into the slot, or nothing.
LEMMA ReadIsLook ==
  ASSUME TypeOK, StoreInv, NEW q \in Retrieves, RetrieveRead(q)
  PROVE  Slot!Look(q) \/ UNCHANGED Slot!mailboxVars
<1> DEFINE servedCalls == {p \in Retrieves : Served(p)}
<1> DEFINE got == {<<p, retrieve[p].got>> : p \in servedCalls}
<1>1. /\ UNCHANGED <<record, respond>>
      /\ retrieve[q].pc = "idle" /\ retrieve'[q].pc # "served"
      /\ \A p \in Retrieves \ {q} : retrieve'[p] = retrieve[p]
  BY DEF RetrieveRead, storeVars, TypeOK
<1>2. /\ [p \in Retrieves |-> SeenBy(p)]'
            = [[p \in Retrieves |-> SeenBy(p)] EXCEPT ![q] = SeenBy(q)']
      /\ {p \in Responds : Deposited(p)}' = {p \in Responds : Deposited(p)}
      /\ SeenBy(q) = None
  BY <1>1, OneCallMoves DEF SeenBy
<1>3. got' = got
  <2>1. servedCalls' = servedCalls /\ q \notin servedCalls
    BY <1>1 DEF Served
  <2> QED
    BY <2>1, <1>1
<1>4. CASE record.status = "responded"
  <2>1. record.by \in Responds /\ record.by # None
    BY <1>4, NoneIsNobody DEF StoreInv, RecordIsDeposited
  <2>2. SeenBy(q)' = record.by
    BY <1>4 DEF RetrieveRead, SeenBy, TypeOK
  <2> QED
    BY <1>1, <1>2, <1>3, <1>4, <2>1, <2>2 DEF Slot!Look, SeenBy
<1>5. CASE record.status # "responded"
  <2>1. SeenBy(q)' = None
    BY <1>5 DEF RetrieveRead, SeenBy, TypeOK
  <2>2. [p \in Retrieves |-> SeenBy(p)]' = [p \in Retrieves |-> SeenBy(p)]
    BY <1>2, <2>1
  <2> QED
    BY <1>1, <1>2, <1>3, <2>2 DEF Slot!mailboxVars, SeenBy
<1> QED
  BY <1>4, <1>5

\* A call whose script finds nothing to consume came too late.
LEMMA LoseIsTooLate ==
  ASSUME TypeOK, NEW q \in Retrieves, RetrieveLose(q)
  PROVE  Slot!ComeTooLate(q)
<1> DEFINE servedCalls == {p \in Retrieves : Served(p)}
<1> DEFINE got == {<<p, retrieve[p].got>> : p \in servedCalls}
<1>1. /\ UNCHANGED <<record, respond>> /\ record.status # "responded"
      /\ retrieve[q].pc = "read" /\ retrieve'[q].pc = "failed"
      /\ \A p \in Retrieves \ {q} : retrieve'[p] = retrieve[p]
  BY DEF RetrieveLose, Consumable, storeVars, TypeOK
<1>2. got' = got
  <2>1. servedCalls' = servedCalls /\ q \notin servedCalls
    BY <1>1 DEF Served
  <2> QED
    BY <2>1, <1>1
<1>3. /\ [p \in Retrieves |-> SeenBy(p)]'
            = [[p \in Retrieves |-> SeenBy(p)] EXCEPT ![q] = None]
      /\ {p \in Responds : Deposited(p)}' = {p \in Responds : Deposited(p)}
  BY <1>1, OneCallMoves DEF SeenBy
<1> QED
  BY <1>1, <1>2, <1>3 DEF Slot!ComeTooLate, SeenBy

\* Every step is a mailbox's step, or leaves the mailbox alone.
LEMMA MailboxSteps ==
  TypeOK /\ StoreInv /\ [Next]_vars => [Slot!MailboxNext]_(Slot!mailboxVars)
<1> SUFFICES ASSUME TypeOK, StoreInv, [Next]_vars
             PROVE  Slot!MailboxNext \/ UNCHANGED Slot!mailboxVars
  OBVIOUS
<1> USE DEF Slot!MailboxNext, Slot!mailboxVars
<1>1. CASE UNCHANGED <<record, respond, retrieve>>
  BY <1>1 DEF Deposited, Served
<1>2. CASE /\ record' = [Absent EXCEPT !.status = "pending"]
           /\ UNCHANGED <<respond, retrieve>>
  BY <1>2 DEF Deposited, Served, Absent, Slot!Discard
<1>3. CASE record' = Absent /\ UNCHANGED <<respond, retrieve>>
  BY <1>3 DEF Deposited, Served, Absent, Slot!Discard
<1>4. ASSUME NEW r \in Responds, RespondCheck(r) \/ RespondSteps(r)
      PROVE  Slot!MailboxNext \/ UNCHANGED Slot!mailboxVars
  <2>1. CASE RespondStore(r)
    BY <2>1, StoreIsDeposit
  <2>2. CASE ~RespondStore(r)
    <3>1. /\ UNCHANGED <<record, retrieve>>
          /\ \A p \in Responds : Deposited(p)' = Deposited(p)
      BY <1>4, <2>2, OnlyStoreDeposits
    <3> QED
      BY <3>1 DEF Deposited, Served
  <2> QED
    BY <2>1, <2>2
<1>5. ASSUME NEW q \in Retrieves, RetrieveRead(q) \/ RetrieveSteps(q)
      PROVE  Slot!MailboxNext \/ UNCHANGED Slot!mailboxVars
  <2>1. CASE RetrieveConsume(q)
    BY <2>1, ConsumeIsTake
  <2>2. CASE RetrieveRead(q)
    BY <2>2, ReadIsLook
  <2>3. CASE RetrieveLose(q)
    BY <2>3, LoseIsTooLate
  <2> QED
    BY <1>5, <2>1, <2>2, <2>3 DEF RetrieveSteps
<1> QED
  BY <1>1, <1>2, <1>3, <1>4, <1>5, StoreSteps

\* Create, cancel, respond, retrieve and the key's TTL, in any interleaving, are steps of
\* a mailbox: what is returned was in the slot, and each response stored pays for at most
\* one that is returned.
THEOREM SessionImplementsMailbox == Spec => ImplementsMailbox
<1>1. TypeOK /\ StoreInv /\ [Next]_vars => [Slot!MailboxNext]_(Slot!mailboxVars)
  BY MailboxSteps
<1> QED
  BY <1>1, MailboxInits, TypeCorrect, StoreInvariant, PTL
     DEF Spec, ImplementsMailbox, Slot!MailboxSpec

\* -------------------------------------------------------------------------
\* The hub

\* Initially nobody is subscribed or was told anything.
LEMMA HubInit == Init => SubscriberIffWaiting
  BY NoneIsNobody DEF Init, SubscriberIffWaiting

\* Only sockets and the end of a cancel move a handler; the rest at most notifies.
LEMMA HubSteps ==
  ASSUME [Next]_vars
  PROVE  \/ UNCHANGED <<ws, hub>>
         \/ UNCHANGED ws /\ \E e \in Events : Notify(e)
         \/ UNCHANGED inbox /\ hub' = None /\ ws' = HungUp
         \/ \E s \in Sockets : SocketOpen(s) \/ SocketBreaks(s) \/ SocketSteps(s)
<1> USE DEF hubVars
<1>1. CASE Create \/ Expire \/ KeyExpires \/ UNCHANGED vars
  BY <1>1 DEF Create, Expire, KeyExpires, vars
<1>2. ASSUME NEW r \in Responds, RespondCheck(r) \/ RespondSteps(r)
      PROVE  UNCHANGED <<ws, hub>> \/ (UNCHANGED ws /\ Notify("session_responded"))
  <2>1. ASSUME \/ RespondCheck(r) \/ RespondReject(r) \/ RespondSize(r) \/ RespondStore(r)
               \/ RespondUnannounced(r)
        PROVE  UNCHANGED <<ws, hub>>
    BY <2>1 DEF RespondCheck, RespondReject, RespondSize, RespondStore, RespondUnannounced
  <2>2. ASSUME RespondNotify(r)
        PROVE  UNCHANGED ws /\ Notify("session_responded")
    BY <2>2 DEF RespondNotify
  <2> QED
    BY <1>2, <2>1, <2>2, Zenon DEF RespondSteps
<1>3. ASSUME NEW q \in Retrieves, RetrieveRead(q) \/ RetrieveSteps(q)
      PROVE  UNCHANGED <<ws, hub>>
  BY <1>3 DEF RetrieveRead, RetrieveSteps, RetrieveConsume, RetrieveLose
<1>4. ASSUME NEW c \in Cancels, CancelCheck(c) \/ CancelSteps(c)
      PROVE  \/ UNCHANGED <<ws, hub>>
             \/ UNCHANGED ws /\ Notify("biometric_failed")
             \/ UNCHANGED inbox /\ hub' = None /\ ws' = HungUp
  <2>1. CASE CancelCheck(c) \/ CancelDelete(c)
    BY <2>1 DEF CancelCheck, CancelDelete
  <2>2. CASE CancelAnnounce(c)
    BY <2>2 DEF CancelAnnounce
  <2>3. CASE CancelHangUp(c)
    BY <2>3 DEF CancelHangUp
  <2> QED
    BY <1>4, <2>1, <2>2, <2>3 DEF CancelSteps
<1>5. ASSUME NEW a \in Acks, AckCheck(a) \/ AckNotify(a)
      PROVE  UNCHANGED <<ws, hub>> \/ (UNCHANGED ws /\ Notify("biometric_started"))
  BY <1>5 DEF AckCheck, AckNotify
<1>6. \A e \in {"session_responded", "biometric_failed", "biometric_started"} : e \in Events
  BY DEF Events
<1>7. \/ Create \/ Expire \/ KeyExpires \/ UNCHANGED vars
      \/ \E r \in Responds : RespondCheck(r) \/ RespondSteps(r)
      \/ \E q \in Retrieves : RetrieveRead(q) \/ RetrieveSteps(q)
      \/ \E c \in Cancels : CancelCheck(c) \/ CancelSteps(c)
      \/ \E a \in Acks : AckCheck(a) \/ AckNotify(a)
      \/ \E s \in Sockets : SocketOpen(s) \/ SocketBreaks(s) \/ SocketSteps(s)
  BY DEF Next
<1> QED
  BY <1>1, <1>2, <1>3, <1>4, <1>5, <1>6, <1>7, Zenon

\* Every step keeps hub and handlers in agreement.
LEMMA HubStep ==
  TypeOK /\ SubscriberIffWaiting /\ [Next]_vars => SubscriberIffWaiting'
<1> SUFFICES ASSUME TypeOK, SubscriberIffWaiting, [Next]_vars PROVE SubscriberIffWaiting'
  OBVIOUS
<1> USE NoneIsNobody DEF SubscriberIffWaiting, TypeOK
<1>1. CASE UNCHANGED <<ws, hub>>
  BY <1>1
<1>2. ASSUME UNCHANGED ws, NEW e \in Events, Notify(e)
      PROVE  SubscriberIffWaiting'
  BY <1>2 DEF Notify
<1>3. CASE hub' = None /\ ws' = HungUp
  BY <1>3 DEF HungUp
<1>4. ASSUME NEW s \in Sockets, SocketOpen(s) \/ SocketBreaks(s) \/ SocketSteps(s)
      PROVE  SubscriberIffWaiting'
  <2>1. CASE SocketOpen(s) \/ SocketBreaks(s)
    BY <2>1 DEF SocketOpen, SocketBreaks
  <2>2. CASE SocketFinds(s) \/ SocketGivesUp(s)
    BY <2>2 DEF SocketFinds, SocketGivesUp
  <2>3. CASE SocketRegister(s)
    BY <2>3 DEF SocketRegister
  <2>4. CASE SocketEnds(s)
    BY <2>4 DEF SocketEnds, HungUp
  <2> QED
    BY <1>4, <2>1, <2>2, <2>3, <2>4 DEF SocketSteps
<1> QED
  BY <1>1, <1>2, <1>3, <1>4, HubSteps

\* The hub and the WebSocket handlers agree on who is subscribed, also when a second
\* subscriber is refused or a cancel hangs up on the first.
THEOREM HubAgreesWithHandlers == Spec => []SubscriberIffWaiting
<1>1. TypeOK /\ SubscriberIffWaiting /\ [Next]_vars => SubscriberIffWaiting'
  BY HubStep
<1> QED
  BY <1>1, HubInit, TypeCorrect, PTL DEF Spec

\* What a step does to the events a socket was sent: at most one event of its caller.
LEMMA InboxSteps ==
  ASSUME [Next]_vars
  PROVE  \/ UNCHANGED inbox
         \/ \E e \in {"biometric_started", "biometric_failed"} : Notify(e)
         \/ \E r \in Responds : RespondNotify(r)
<1> USE DEF hubVars
<1>1. CASE Create \/ Expire \/ KeyExpires \/ UNCHANGED vars
  BY <1>1 DEF Create, Expire, KeyExpires, vars
<1>2. ASSUME NEW r \in Responds, RespondCheck(r) \/ RespondSteps(r)
      PROVE  UNCHANGED inbox \/ RespondNotify(r)
  BY <1>2 DEF RespondCheck, RespondSteps, RespondReject, RespondSize, RespondStore,
              RespondUnannounced, hubVars
<1>3. ASSUME NEW q \in Retrieves, RetrieveRead(q) \/ RetrieveSteps(q)
      PROVE  UNCHANGED inbox
  BY <1>3 DEF RetrieveRead, RetrieveSteps, RetrieveConsume, RetrieveLose
<1>4. ASSUME NEW c \in Cancels, CancelCheck(c) \/ CancelSteps(c)
      PROVE  UNCHANGED inbox \/ Notify("biometric_failed")
  BY <1>4 DEF CancelCheck, CancelSteps, CancelAnnounce, CancelDelete, CancelHangUp
<1>5. ASSUME NEW a \in Acks, AckCheck(a) \/ AckNotify(a)
      PROVE  UNCHANGED inbox \/ Notify("biometric_started")
  BY <1>5 DEF AckCheck, AckNotify
<1>6. ASSUME NEW s \in Sockets, SocketOpen(s) \/ SocketBreaks(s) \/ SocketSteps(s)
      PROVE  UNCHANGED inbox
  BY <1>6 DEF SocketOpen, SocketBreaks, SocketSteps, SocketFinds, SocketGivesUp,
              SocketRegister, SocketEnds
<1> QED
  BY <1>1, <1>2, <1>3, <1>4, <1>5, <1>6, Zenon DEF Next

\* Whoever was told of an answer was told of one that had been stored.
ToldOfStored == \A s \in Sockets : Told(s) => \E r \in Responds : Deposited(r)

\* Every step notifies only of a response that is stored.
LEMMA ToldStep ==
  TypeOK /\ ToldOfStored /\ [Next]_vars => ToldOfStored'
<1> SUFFICES ASSUME TypeOK, ToldOfStored, [Next]_vars PROVE ToldOfStored'
  OBVIOUS
<1>1. \A r \in Responds : Deposited(r) => Deposited(r)'
  BY DepositsLast
<1>2. CASE UNCHANGED inbox
  BY <1>1, <1>2 DEF ToldOfStored, Told
<1>3. ASSUME NEW e \in {"biometric_started", "biometric_failed"}, Notify(e)
      PROVE  ToldOfStored'
  <2>1. ASSUME NEW s \in Sockets, NEW i \in DOMAIN inbox'[s],
               inbox'[s][i] = "session_responded"
        PROVE  \E j \in DOMAIN inbox[s] : inbox[s][j] = "session_responded"
    <3>1. CASE inbox'[s] = inbox[s]
      BY <2>1, <3>1
    <3>2. CASE inbox'[s] = Append(inbox[s], e)
      <4>1. inbox[s] \in Seq(Events)
        BY DEF TypeOK
      <4>2. e # "session_responded"
        OBVIOUS
      <4>3. i \in DOMAIN inbox[s] /\ inbox[s][i] = "session_responded"
        BY <2>1, <3>2, <4>1, <4>2
      <4> QED
        BY <4>3
    <3>3. inbox'[s] = inbox[s] \/ inbox'[s] = Append(inbox[s], e)
      BY <1>3, NoneIsNobody DEF Notify, TypeOK
    <3> QED
      BY <3>1, <3>2, <3>3
  <2> QED
    BY <1>1, <2>1 DEF ToldOfStored, Told
<1>4. ASSUME NEW r \in Responds, RespondNotify(r) PROVE ToldOfStored'
  <2>1. Deposited(r)'
    BY <1>4 DEF RespondNotify, Deposited, TypeOK, RespondCall
  <2> QED
    BY <2>1 DEF ToldOfStored, Told
<1> QED
  BY <1>2, <1>3, <1>4, InboxSteps

\* The session is over although nobody may have retrieved anything: its time has passed,
\* or a cancel deleted it.
Over == clock = "expired" \/ \E c \in Cancels : cancel[c] \in {"deleted", "done"}

\* The answer is there, was retrieved, or the session is over.
Answered == record.status = "responded" \/ (\E q \in Retrieves : Served(q)) \/ Over

\* The strengthening: before it is created nothing is answered; a key that is missing in
\* the session's time was deleted by a cancel, and so was one whose TTL is the default;
\* and once an answer was stored, Answered.
AnswerInv ==
    /\ clock = "new" => /\ record.status = "absent"
                        /\ \A r \in Responds : respond[r].pc \in {"idle", "failed"}
    /\ clock # "new" /\ record.status = "absent" => Over
    /\ record.ttl = "default" => Over
    /\ \A r \in Responds : respond[r].ttl = "default" => Over
    /\ (\E r \in Responds : Deposited(r)) => Answered

\* Initially nothing was answered.
LEMMA AnswerInit == Init => AnswerInv /\ ToldOfStored
  BY DEF Init, AnswerInv, Absent, Deposited, ToldOfStored, Told

\* A session that is over stays over.
LEMMA OverLasts ==
  ASSUME TypeOK, [Next]_vars, Over
  PROVE  Over'
<1> USE DEF storeVars, hubVars
<1>1. ASSUME NEW r \in Responds, RespondCheck(r) \/ RespondSteps(r)
      PROVE  UNCHANGED <<clock, cancel>>
  BY <1>1 DEF RespondCheck, RespondSteps, RespondReject, RespondSize, RespondStore,
              RespondNotify, RespondUnannounced
<1>2. ASSUME NEW q \in Retrieves, RetrieveRead(q) \/ RetrieveSteps(q)
      PROVE  UNCHANGED <<clock, cancel>>
  BY <1>2 DEF RetrieveRead, RetrieveSteps, RetrieveConsume, RetrieveLose
<1>3. ASSUME NEW c \in Cancels, CancelCheck(c) \/ CancelSteps(c)
      PROVE  Over'
  BY <1>3 DEF CancelCheck, CancelSteps, CancelAnnounce, CancelDelete, CancelHangUp, Over,
              TypeOK
<1>4. ASSUME NEW a \in Acks, AckCheck(a) \/ AckNotify(a)
      PROVE  UNCHANGED <<clock, cancel>>
  BY <1>4 DEF AckCheck, AckNotify
<1>5. ASSUME NEW s \in Sockets, SocketOpen(s) \/ SocketBreaks(s) \/ SocketSteps(s)
      PROVE  UNCHANGED <<clock, cancel>>
  BY <1>5 DEF SocketOpen, SocketBreaks, SocketSteps, SocketFinds, SocketGivesUp,
              SocketRegister, SocketEnds
<1>6. CASE Create \/ Expire \/ KeyExpires \/ UNCHANGED vars
  BY <1>6 DEF Create, Expire, KeyExpires, vars, Over
<1>7. CASE UNCHANGED <<clock, cancel>>
  BY <1>7 DEF Over
<1> QED
  BY <1>1, <1>2, <1>3, <1>4, <1>5, <1>6, <1>7, Zenon DEF Next

\* A respond call keeps the invariant.
LEMMA AnswerRespond ==
  ASSUME TypeOK, AnswerInv, [Next]_vars,
         NEW r \in Responds, RespondCheck(r) \/ RespondSteps(r)
  PROVE  AnswerInv'
<1>1. UNCHANGED <<clock, retrieve>> /\ \A p \in Responds \ {r} : respond'[p] = respond[p]
  BY DEF RespondCheck, RespondSteps, RespondReject, RespondSize, RespondStore,
         RespondNotify, RespondUnannounced, storeVars, TypeOK
<1>2. Over => Over'
  BY OverLasts
<1>3. CASE RespondStore(r)
  <2>1. /\ record'.status = "responded" /\ record'.ttl = respond[r].ttl
        /\ respond'[r].ttl = respond[r].ttl /\ respond[r].pc = "sized"
    BY <1>3 DEF RespondStore, Stored, TypeOK
  <2>2. clock # "new"
    BY <2>1 DEF AnswerInv
  <2> QED
    BY <1>1, <1>2, <2>1, <2>2 DEF AnswerInv, Answered
<1>4. CASE RespondSize(r)
  <2>1. /\ UNCHANGED record /\ respond[r].pc = "checked"
        /\ respond'[r] = [pc |-> "sized", ttl |-> RemainingTTL]
    BY <1>4 DEF RespondSize, storeVars, TypeOK
  <2>2. clock # "new"
    BY <2>1 DEF AnswerInv
  <2>3. respond'[r].ttl = "default" => Over
    BY <2>1, <2>2 DEF RemainingTTL, AnswerInv
  <2>4. \A p \in Responds : Deposited(p)' => Deposited(p)
    BY <1>1, <2>1 DEF Deposited
  <2> QED
    BY <1>1, <1>2, <2>1, <2>2, <2>3, <2>4 DEF AnswerInv, Answered, Served
<1>5. CASE ~RespondStore(r) /\ ~RespondSize(r)
  <2>1. UNCHANGED record /\ respond'[r].ttl = respond[r].ttl
    BY <1>5 DEF RespondCheck, RespondSteps, RespondReject, RespondNotify,
                RespondUnannounced, storeVars, TypeOK, RespondCall
  <2>2. \A p \in Responds : Deposited(p)' => Deposited(p)
    BY <1>5, OnlyStoreDeposits
  <2>3. respond'[r].pc \in {"idle", "failed"} \/ clock # "new"
    BY <1>5 DEF RespondCheck, RespondSteps, RespondReject, RespondNotify,
                RespondUnannounced, Answerable, AnswerInv, TypeOK, RespondCall
  <2> QED
    BY <1>1, <1>2, <2>1, <2>2, <2>3 DEF AnswerInv, Answered, Served
<1> QED
  BY <1>3, <1>4, <1>5

\* Every step keeps the answer there until it is retrieved or the session is over.
LEMMA AnswerStep == TypeOK /\ AnswerInv /\ [Next]_vars => AnswerInv'
<1> SUFFICES ASSUME TypeOK, AnswerInv, [Next]_vars PROVE AnswerInv'
  OBVIOUS
<1> USE DEF storeVars, hubVars, AnswerInv
<1>0. Over => Over'
  BY OverLasts
<1>1. CASE UNCHANGED <<clock, record, respond, retrieve>>
  BY <1>0, <1>1 DEF Answered, Served, Deposited
<1>2. CASE Create
  BY <1>0, <1>2 DEF Create, Absent, Answered, Served, Deposited
<1>3. CASE Expire
  <2>1. Over'
    BY <1>3 DEF Expire, Over
  <2> QED
    BY <1>3, <2>1 DEF Expire, Answered, Served, Deposited
<1>4. CASE KeyExpires
  <2>1. Over /\ clock # "new"
    BY <1>4 DEF KeyExpires, TTLOver, Over, TypeOK
  <2> QED
    BY <1>0, <1>4, <2>1 DEF KeyExpires, Absent, Answered, Served, Deposited
<1>5. ASSUME NEW r \in Responds, RespondCheck(r) \/ RespondSteps(r)
      PROVE  AnswerInv'
  BY <1>5, AnswerRespond
<1>6. ASSUME NEW q \in Retrieves, RetrieveRead(q) \/ RetrieveSteps(q)
      PROVE  AnswerInv'
  <2>1. UNCHANGED <<clock, respond>>
    BY <1>6 DEF RetrieveRead, RetrieveSteps, RetrieveConsume, RetrieveLose
  <2>2. CASE RetrieveConsume(q)
    <3>1. /\ record'.status = "consumed" /\ record'.ttl = record.ttl
          /\ record.status = "responded" /\ Served(q)'
      BY <2>2 DEF RetrieveConsume, Consumable, Served, TypeOK, Record
    <3> QED
      BY <1>0, <2>1, <3>1 DEF Answered, Deposited
  <2>3. CASE RetrieveRead(q) \/ RetrieveLose(q)
    <3>1. UNCHANGED record /\ \A p \in Retrieves : Served(p) => Served(p)'
      BY <2>3 DEF RetrieveRead, RetrieveLose, Served, TypeOK
    <3> QED
      BY <1>0, <2>1, <3>1 DEF Answered, Deposited
  <2> QED
    BY <1>6, <2>2, <2>3 DEF RetrieveSteps
<1>7. ASSUME NEW c \in Cancels, CancelCheck(c) \/ CancelSteps(c)
      PROVE  AnswerInv'
  <2>1. CASE CancelDelete(c)
    <3>1. Over' /\ UNCHANGED <<clock, respond, retrieve>> /\ record' = Absent
      BY <2>1 DEF CancelDelete, Over, TypeOK
    <3> QED
      BY <3>1 DEF Absent, Answered, Deposited
  <2>2. CASE ~CancelDelete(c)
    BY <1>1, <1>7, <2>2 DEF CancelCheck, CancelSteps, CancelAnnounce, CancelHangUp
  <2> QED
    BY <2>1, <2>2
<1>8. ASSUME NEW a \in Acks, AckCheck(a) \/ AckNotify(a)
      PROVE  AnswerInv'
  BY <1>1, <1>8 DEF AckCheck, AckNotify
<1>9. ASSUME NEW s \in Sockets, SocketOpen(s) \/ SocketBreaks(s) \/ SocketSteps(s)
      PROVE  AnswerInv'
  BY <1>1, <1>9 DEF SocketOpen, SocketBreaks, SocketSteps, SocketFinds, SocketGivesUp,
                    SocketRegister, SocketEnds
<1>10. CASE UNCHANGED vars
  BY <1>1, <1>10 DEF vars
<1>11. Next \/ UNCHANGED vars
  OBVIOUS
<1> HIDE DEF AnswerInv
<1> QED
  BY <1>2, <1>3, <1>4, <1>5, <1>6, <1>7, <1>8, <1>9, <1>10, <1>11, Zenon DEF Next

\* Whoever is told session_responded finds the answer, unless one was retrieved, the
\* session's time is over or a cancel deleted it.
THEOREM ToldFindIt == Spec => []ToldFindsAnswer
<1>1. TypeOK /\ AnswerInv /\ [Next]_vars => AnswerInv'
  BY AnswerStep
<1>2. TypeOK /\ ToldOfStored /\ [Next]_vars => ToldOfStored'
  BY ToldStep
<1>3. AnswerInv /\ ToldOfStored => ToldFindsAnswer
  BY DEF AnswerInv, ToldOfStored, ToldFindsAnswer, Answered, Over
<1> QED
  BY <1>1, <1>2, <1>3, AnswerInit, TypeCorrect, PTL DEF Spec

\* -------------------------------------------------------------------------
\* The answer reaches the subscriber

\* A respond call that stored its answer ends only by telling who waits, unless the
\* database fails between; and who was told stays told.
TellsWhoWaits ==
    /\ \A r \in Responds, s \in Sockets :
           /\ ~DatabaseFails
           /\ respond[r].pc = "stored" /\ respond'[r].pc # "stored"
           /\ ws[s] = "waiting"
           => Told(s)'
    /\ \A s \in Sockets : Told(s) => Told(s)'

\* Only its last two steps end a respond call that stored its answer.
LEMMA StoredEnds ==
  ASSUME TypeOK, [Next]_vars, NEW r \in Responds,
         respond[r].pc = "stored", respond'[r].pc # "stored"
  PROVE  RespondNotify(r) \/ RespondUnannounced(r)
<1>1. CASE UNCHANGED respond
  BY <1>1
<1>2. CASE UNCHANGED vars
  BY <1>2 DEF vars
<1>3. CASE Create \/ Expire \/ KeyExpires
  BY <1>1, <1>3 DEF Create, Expire, KeyExpires
<1>4. ASSUME NEW p \in Responds, RespondCheck(p) \/ RespondSteps(p)
      PROVE  RespondNotify(r) \/ RespondUnannounced(r)
  <2>1. CASE p = r
    BY <1>4, <2>1 DEF RespondCheck, RespondSteps, RespondReject, RespondSize, RespondStore
  <2>2. CASE p # r
    <3>1. respond'[r] = respond[r]
      BY <1>4, <2>2 DEF RespondCheck, RespondSteps, RespondReject, RespondSize,
                        RespondStore, RespondNotify, RespondUnannounced, TypeOK
    <3> QED
      BY <3>1
  <2> QED
    BY <2>1, <2>2
<1>5. ASSUME NEW q \in Retrieves, RetrieveRead(q) \/ RetrieveSteps(q)
      PROVE  UNCHANGED respond
  BY <1>5 DEF RetrieveRead, RetrieveSteps, RetrieveConsume, RetrieveLose
<1>6. ASSUME NEW c \in Cancels, CancelCheck(c) \/ CancelSteps(c)
      PROVE  UNCHANGED respond
  BY <1>6 DEF CancelCheck, CancelSteps, CancelAnnounce, CancelDelete, CancelHangUp
<1>7. ASSUME NEW a \in Acks, AckCheck(a) \/ AckNotify(a)
      PROVE  UNCHANGED respond
  BY <1>7 DEF AckCheck, AckNotify
<1>8. ASSUME NEW s \in Sockets, SocketOpen(s) \/ SocketBreaks(s) \/ SocketSteps(s)
      PROVE  UNCHANGED respond
  BY <1>8 DEF SocketOpen, SocketBreaks, SocketSteps, SocketFinds, SocketGivesUp,
              SocketRegister, SocketEnds
<1> QED
  BY <1>1, <1>2, <1>3, <1>4, <1>5, <1>6, <1>7, <1>8, Zenon DEF Next

\* What was sent on a connection stays sent.
LEMMA ToldStays ==
  ASSUME TypeOK, [Next]_vars, NEW s \in Sockets, Told(s)
  PROVE  Told(s)'
<1>1. inbox[s] \in Seq(Events)
  BY DEF TypeOK
<1>2. ASSUME NEW e \in Events, inbox'[s] = Append(inbox[s], e)
      PROVE  Told(s)'
  <2>1. \A i \in DOMAIN inbox[s] : i \in DOMAIN inbox'[s] /\ inbox'[s][i] = inbox[s][i]
    BY <1>1, <1>2
  <2> QED
    BY <2>1 DEF Told
<1>3. ASSUME NEW e \in Events, Notify(e)
      PROVE  inbox'[s] = inbox[s] \/ inbox'[s] = Append(inbox[s], e)
  BY <1>3, NoneIsNobody DEF Notify, TypeOK
<1>4. CASE inbox'[s] = inbox[s]
  BY <1>4 DEF Told
<1>5. UNCHANGED inbox \/ \E e \in Events : Notify(e)
  <2>1. \A r \in Responds : RespondNotify(r) => Notify("session_responded")
    BY DEF RespondNotify
  <2>2. {"session_responded", "biometric_started", "biometric_failed"} \subseteq Events
    BY DEF Events
  <2> QED
    BY <2>1, <2>2, InboxSteps
<1> QED
  BY <1>2, <1>3, <1>4, <1>5

\* The safety half of RespondReachesSubscriber: no interleaving of requests and sockets
\* lets a respond call end without having told the extension that waits.
THEOREM AnswersAreTold == Spec => [][TellsWhoWaits]_vars
<1>1. TypeOK /\ SubscriberIffWaiting /\ [Next]_vars => [TellsWhoWaits]_vars
  <2> SUFFICES ASSUME TypeOK, SubscriberIffWaiting, [Next]_vars PROVE TellsWhoWaits
    OBVIOUS
  <2>1. ASSUME NEW r \in Responds, NEW s \in Sockets, ~DatabaseFails,
               respond[r].pc = "stored", respond'[r].pc # "stored", ws[s] = "waiting"
        PROVE  Told(s)'
    <3>1. Notify("session_responded")
      BY <2>1, StoredEnds DEF RespondNotify, RespondUnannounced
    <3>2. hub = s
      BY <2>1 DEF SubscriberIffWaiting
    <3>3. inbox' = [inbox EXCEPT ![s] = Append(@, "session_responded")]
      BY <2>1, <3>1, <3>2, NoneIsNobody DEF Notify
    <3>4. inbox[s] \in Seq(Events) /\ inbox'[s] = Append(inbox[s], "session_responded")
      BY <3>3 DEF TypeOK
    <3>5. /\ Len(inbox[s]) + 1 \in DOMAIN inbox'[s]
          /\ inbox'[s][Len(inbox[s]) + 1] = "session_responded"
      BY <3>4 DEF Events
    <3> QED
      BY <3>5 DEF Told
  <2> QED
    BY <2>1, ToldStays DEF TellsWhoWaits
<1> QED
  BY <1>1, TypeCorrect, HubAgreesWithHandlers, PTL DEF Spec
=============================================================================
