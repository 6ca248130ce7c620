------------------------------ MODULE Autofill ------------------------------
(***************************************************************************)
(* The list of credentials that a page with a password field is given      *)
(* (extension/content/autofill.js), and the two messages by which it gets  *)
(* the list and has one filled in (handleContent in                        *)
(* extension/background/service-worker.js).  Of a URL only its site, the   *)
(* host name, matters; pages without https or such a field show nothing    *)
(* and are left out.                                                       *)
(*                                                                         *)
(* A message carries the site that its page had when it was sent.  Before  *)
(* it is handled the vault may be edited or locked, and the tab may go     *)
(* elsewhere; and what is filled in goes to the tab, whichever page it     *)
(* shows by then.                                                          *)
(***************************************************************************)
EXTENDS Naturals

CONSTANTS Credentials, \* entries of the vault
          Sites,       \* host names
          NoSite,      \* of a credential without a URL, or deleted; and of a new tab
          BrowserTabs,
          MaxPages,    \* bound: pages that a tab shows one after the other
          MaxEdits     \* bound: changes of the vault, locks of the worker

ASSUME SitesAssumption == NoSite \notin Sites
ASSUME PagesAssumption == MaxPages \in Nat /\ MaxEdits \in Nat

VARIABLES
    siteOf,   \* the vault: the site of each credential's URL
    unlocked, \* has the worker the vault
    view,     \* per tab: the number of its page, the page's site, and the list it shows
    asking,   \* GET_CREDENTIALS on their way
    filling,  \* FILL_CREDENTIAL: from is the credential's site once it was compared
    filled,   \* history: what was filled in: from, into which site, and had the tab left
              \* the page that asked
    edits     \* how often the vault was changed or locked

autofillVars == <<siteOf, unlocked, view, asking, filling, filled, edits>>

Pages == 0..MaxPages

AnySite == Sites \cup {NoSite}

Asking == [tab : BrowserTabs, page : Pages, site : Sites]

Filling == [tab : BrowserTabs, page : Pages, site : AnySite, credential : Credentials,
            from : AnySite]

AutofillTypeOK ==
    /\ siteOf \in [Credentials -> AnySite]
    /\ unlocked \in BOOLEAN
    /\ view \in [BrowserTabs -> [page : Pages, site : AnySite, list : SUBSET Credentials]]
    /\ asking \subseteq Asking
    /\ filling \subseteq Filling
    /\ filled \subseteq [from : AnySite, into : AnySite, left : BOOLEAN]
    /\ edits \in 0..MaxEdits

AutofillInit ==
    /\ siteOf \in [Credentials -> Sites]
    /\ unlocked = TRUE
    /\ view = [t \in BrowserTabs |-> [page |-> 0, site |-> NoSite, list |-> {}]]
    /\ asking = {} /\ filling = {} /\ filled = {}
    /\ edits = 0

\* -------------------------------------------------------------------------
\* A page

\* A page is loaded; its content script asks for credentials.
Visit(t, s) ==
    /\ view[t].page < MaxPages
    /\ view' = [view EXCEPT ![t] = [page |-> view[t].page + 1, site |-> s, list |-> {}]]
    /\ asking' = asking \cup {[tab |-> t, page |-> view[t].page + 1, site |-> s]}
    /\ UNCHANGED <<siteOf, unlocked, filling, filled, edits>>

\* Is the page that asked still there?
IsThere(q) == view[q.tab].page = q.page

\* A button of the list is clicked; the list stays until the answer comes.
ChooseCredential(t, c) ==
    /\ c \in view[t].list
    /\ filling' = filling \cup {[tab |-> t, page |-> view[t].page, site |-> view[t].site,
                                 credential |-> c, from |-> NoSite]}
    /\ UNCHANGED <<siteOf, unlocked, view, asking, filled, edits>>

CloseList(t) ==
    /\ view[t].list # {}
    /\ view' = [view EXCEPT ![t].list = {}]
    /\ UNCHANGED <<siteOf, unlocked, asking, filling, filled, edits>>

\* Whatever the answer, the page takes its list away.
Answered(f) == IF IsThere(f) THEN [view EXCEPT ![f.tab].list = {}] ELSE view

\* -------------------------------------------------------------------------
\* The worker

\* GET_CREDENTIALS: no list is shown if the worker is locked or no credential matches.
Offer(q) ==
    /\ q \in asking
    /\ asking' = asking \ {q}
    /\ view' = IF unlocked /\ IsThere(q)
               THEN [view EXCEPT ![q.tab].list = {c \in Credentials : siteOf[c] = q.site}]
               ELSE view
    /\ UNCHANGED <<siteOf, unlocked, filling, filled, edits>>

\* Faulty variant: a credential that was offered is only looked up again.
IsFound(f) == siteOf[f.credential] # NoSite

\* "Double-check the credential's domain still matches the tab".
Matches(f) == siteOf[f.credential] # NoSite /\ siteOf[f.credential] = f.site

\* FILL_CREDENTIAL up to executeScript, or refused.
Check(f) ==
    /\ f \in filling /\ f.from = NoSite
    /\ IF unlocked /\ Matches(f)
       THEN /\ filling' = (filling \ {f}) \cup {[f EXCEPT !.from = siteOf[f.credential]]}
            /\ UNCHANGED view
       ELSE /\ filling' = filling \ {f}
            /\ view' = Answered(f)
    /\ UNCHANGED <<siteOf, unlocked, asking, filled, edits>>

\* executeScript: into the tab that asked.
FillIn(f) ==
    /\ f \in filling /\ f.from # NoSite
    /\ filling' = filling \ {f}
    /\ filled' = filled \cup {[from |-> f.from, into |-> view[f.tab].site,
                               left |-> ~IsThere(f)]}
    /\ view' = Answered(f)
    /\ UNCHANGED <<siteOf, unlocked, asking, edits>>

\* The popup saves a credential with another URL, or deletes it; the worker is locked, by
\* the popup, the alarm or by being stopped; or unlocked again.
ChangeSite(c, s) ==
    /\ unlocked /\ siteOf[c] # s /\ edits < MaxEdits
    /\ siteOf' = [siteOf EXCEPT ![c] = s]
    /\ edits' = edits + 1
    /\ UNCHANGED <<unlocked, view, asking, filling, filled>>

LockOrUnlock ==
    /\ unlocked => edits < MaxEdits
    /\ unlocked' = ~unlocked
    /\ edits' = IF unlocked THEN edits + 1 ELSE edits
    /\ UNCHANGED <<siteOf, view, asking, filling, filled>>

\* -------------------------------------------------------------------------

AutofillNext ==
    \/ \E t \in BrowserTabs :
           \/ CloseList(t)
           \/ \E s \in Sites : Visit(t, s)
           \/ \E c \in Credentials : ChooseCredential(t, c)
    \/ \E q \in asking : Offer(q)
    \/ \E f \in filling : Check(f) \/ FillIn(f)
    \/ \E c \in Credentials, s \in AnySite : ChangeSite(c, s)
    \/ LockOrUnlock

AutofillSpec == AutofillInit /\ [][AutofillNext]_autofillVars

\* -------------------------------------------------------------------------
\* Properties

\* A page is filled with a credential of its own site only, however old the list is that it
\* was chosen from.  That holds as long as the tab stays on the page that asked: what is
\* filled in goes to the tab.
FillsItsOwnPage == \A f \in filled : f.left \/ f.from = f.into
=============================================================================
