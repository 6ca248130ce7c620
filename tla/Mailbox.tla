------------------------------ MODULE Mailbox ------------------------------
(***************************************************************************)
(* What the relay promises about the responses to one unlock session,      *)
(* whatever Redis, the handlers and the network do: a slot that holds one  *)
(* response.  A call looks into the slot and, if the slot is not empty     *)
(* when it comes back, empties it and returns what it saw.  So each        *)
(* response put in pays for at most one that is returned; but what is      *)
(* returned need not be what the call found when it emptied the slot: a    *)
(* response that is put in between look and taking pays for the older one, *)
(* which two calls may then return.  A newer response replaces the one in  *)
(* the slot, and the slot may be emptied at any time (TTL, cancel).        *)
(***************************************************************************)
CONSTANTS Responds,   \* the responses phones may send
          Retrieves,  \* the calls that ask for one
          None        \* not a response

VARIABLES deposited,  \* responses that were put into the slot at some time
          box,        \* the response in the slot, or None
          seen,       \* per call that looked and did not come back yet: what it saw
          taken       \* <<call, response>> for every response returned

mailboxVars == <<deposited, box, seen, taken>>

MailboxInit ==
    /\ deposited = {} /\ box = None /\ taken = {}
    /\ seen = [q \in Retrieves |-> None]

Deposit(r) ==
    /\ r \notin deposited
    /\ deposited' = deposited \cup {r}
    /\ box' = r
    /\ UNCHANGED <<seen, taken>>

Look(q) ==
    /\ box # None
    /\ seen[q] = None
    /\ seen' = [seen EXCEPT ![q] = box]
    /\ UNCHANGED <<deposited, box, taken>>

Take(q) ==
    /\ box # None
    /\ seen[q] # None
    /\ taken' = taken \cup {<<q, seen[q]>>}
    /\ seen' = [seen EXCEPT ![q] = None]
    /\ box' = None
    /\ UNCHANGED deposited

\* Another call came first, or the slot was emptied.
ComeTooLate(q) ==
    /\ box = None
    /\ seen' = [seen EXCEPT ![q] = None]
    /\ UNCHANGED <<deposited, box, taken>>

Discard ==
    /\ box' = None
    /\ UNCHANGED <<deposited, seen, taken>>

MailboxNext ==
    \/ Discard
    \/ \E r \in Responds : Deposit(r)
    \/ \E q \in Retrieves : Look(q) \/ Take(q) \/ ComeTooLate(q)

MailboxSpec == MailboxInit /\ [][MailboxNext]_mailboxVars
=============================================================================
