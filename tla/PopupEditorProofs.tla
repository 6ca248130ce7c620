------------------------- MODULE PopupEditorProofs -------------------------
(***************************************************************************)
(* Proofs about PopupEditor for any vault and any number of requests:      *)
(* types, that the codes on the page are kept current, that the page shows *)
(* _vault, that the relay's row loses no entry, and that a deletion that   *)
(* was saved is final.                                                     *)
(***************************************************************************)
EXTENDS PopupEditor, SequenceTheorems, TLAPS

\* -------------------------------------------------------------------------
\* Types

\* One element of a sequence is replaced.
LEMMA Replaced ==
  ASSUME NEW S, NEW s \in Seq(S), NEW n \in DOMAIN s, NEW e \in S
  PROVE  /\ [s EXCEPT ![n] = e] \in Seq(S)
         /\ Len([s EXCEPT ![n] = e]) = Len(s)
         /\ DOMAIN [s EXCEPT ![n] = e] = DOMAIN s
         /\ [s EXCEPT ![n] = e][n] = e
         /\ \A m \in DOMAIN s : m # n => [s EXCEPT ![n] = e][m] = s[m]
  OBVIOUS

\* One element is added at the end.
LEMMA Added ==
  ASSUME NEW S, NEW s \in Seq(S), NEW e \in S
  PROVE  /\ Append(s, e) \in Seq(S)
         /\ Len(Append(s, e)) = Len(s) + 1
         /\ DOMAIN Append(s, e) = DOMAIN s \cup {Len(s) + 1}
         /\ Append(s, e)[Len(s) + 1] = e
         /\ \A m \in DOMAIN s : Append(s, e)[m] = s[m]
  BY AppendProperties

\* Every element is replaced.
LEMMA Mapped ==
  ASSUME NEW S, NEW s \in Seq(S), NEW t, t = [n \in DOMAIN s |-> t[n]],
         \A n \in DOMAIN s : t[n] \in S
  PROVE  t \in Seq(S) /\ Len(t) = Len(s) /\ DOMAIN t = DOMAIN s
<1>1. Len(s) \in Nat /\ DOMAIN s = 1..Len(s)
  OBVIOUS
<1>2. t \in [1..Len(s) -> S]
  BY <1>1
<1> QED
  BY <1>1, <1>2

Results == {"none", "ok", "shut", "failed"}

\* A finished request.
LEMMA Finishing ==
  ASSUME NEW call \in Call, NEW result \in Results, NEW n \in Nat
  PROVE  /\ Finished(call, result, n) \in Call
         /\ Finished(call, result, n).op = call.op
         /\ Finished(call, result, n).kind = call.kind
         /\ Finished(call, result, n).id = call.id
         /\ Finished(call, result, n).pc = "done"
         /\ ~Finished(call, result, n).waits
         /\ Finished(call, result, n).vault = {}
         /\ Finished(call, result, n).version = n
         /\ Finished(call, result, n).result = result
<1>1. {} \in SUBSET Entries /\ FALSE \in BOOLEAN
  OBVIOUS
<1> QED
  BY <1>1 DEF Finished, Call, Results

\* A request that ends without an answer the popup hears.
LEMMA Dropping ==
  ASSUME NEW call \in Call
  PROVE  /\ Finished(call, "failed", 0) \in Call
         /\ Finished(call, "failed", 0).op = call.op
         /\ Finished(call, "failed", 0).kind = call.kind
         /\ Finished(call, "failed", 0).id = call.id
         /\ Finished(call, "failed", 0).pc = "done"
         /\ ~Finished(call, "failed", 0).waits
         /\ Finished(call, "failed", 0).vault = {}
         /\ Finished(call, "failed", 0).version = 0
         /\ Finished(call, "failed", 0).result = "failed"
<1>1. {} \in SUBSET Entries /\ FALSE \in BOOLEAN
  OBVIOUS
<1> QED
  BY <1>1 DEF Finished, Call

\* A request that the popup no longer waits for.
LEMMA Unhearing ==
  ASSUME NEW call \in Call
  PROVE  /\ Unheard(call) \in Call
         /\ Unheard(call).op = call.op
         /\ Unheard(call).kind = call.kind
         /\ Unheard(call).id = call.id
         /\ ~Unheard(call).waits
         /\ call.pc = "answered" =>
                /\ Unheard(call).pc = "done" /\ Unheard(call).vault = {}
                /\ Unheard(call).version = 0 /\ Unheard(call).result = "failed"
         /\ call.pc # "answered" =>
                /\ Unheard(call).pc = call.pc /\ Unheard(call).vault = call.vault
                /\ Unheard(call).version = call.version /\ Unheard(call).result = call.result
<1>1. CASE call.pc = "answered"
  <2>1. Unheard(call) = Finished(call, "failed", 0)
    BY <1>1 DEF Unheard
  <2> QED
    BY <1>1, <2>1, Dropping
<1>2. CASE call.pc # "answered"
  <2>1. Unheard(call) = [call EXCEPT !.waits = FALSE] /\ FALSE \in BOOLEAN
    BY <1>2 DEF Unheard
  <2> QED
    BY <1>2, <2>1 DEF Call
<1> QED
  BY <1>1, <1>2

\* A request that is answered: heard if the popup waits for it, else finished.
LEMMA Answering ==
  ASSUME calls \in Seq(Call), NEW n \in DOMAIN calls, NEW result \in Results,
         NEW copy \in [vault : SUBSET Entries, version : Nat]
  PROVE  \E e \in Call :
         /\ Answered(n, result, copy) = [calls EXCEPT ![n] = e]
         /\ e.op = calls[n].op /\ e.kind = calls[n].kind /\ e.id = calls[n].id
         /\ calls[n].waits =>
                /\ e.pc = "answered" /\ e.waits /\ e.result = result
                /\ e.vault = copy.vault /\ e.version = copy.version
         /\ ~calls[n].waits =>
                /\ e.pc = "done" /\ ~e.waits /\ e.result = "failed"
                /\ e.vault = {} /\ e.version = 0
<1>0. calls[n] \in Call
  OBVIOUS
<1>1. CASE calls[n].waits
  <2> DEFINE e == [calls[n] EXCEPT !.pc = "answered", !.result = result,
                                   !.vault = copy.vault, !.version = copy.version]
  <2>1. Answered(n, result, copy) = [calls EXCEPT ![n] = e]
    BY <1>1 DEF Answered
  <2>2. e \in Call
    BY <1>0 DEF Call, Results
  <2>3. /\ e.op = calls[n].op /\ e.kind = calls[n].kind /\ e.id = calls[n].id
        /\ e.pc = "answered" /\ e.waits = calls[n].waits /\ e.result = result
        /\ e.vault = copy.vault /\ e.version = copy.version
    BY <1>0 DEF Call
  <2> HIDE DEF e
  <2> QED
    BY <1>1, <2>1, <2>2, <2>3
<1>2. CASE ~calls[n].waits
  <2> DEFINE e == Finished(calls[n], "failed", 0)
  <2>1. Answered(n, result, copy) = [calls EXCEPT ![n] = e]
    BY <1>2 DEF Answered
  <2>2. /\ e \in Call
        /\ e.op = calls[n].op /\ e.kind = calls[n].kind /\ e.id = calls[n].id
        /\ e.pc = "done" /\ ~e.waits /\ e.result = "failed" /\ e.vault = {} /\ e.version = 0
    BY <1>0, Dropping
  <2> HIDE DEF e
  <2> QED
    BY <1>2, <2>1, <2>2
<1> QED
  BY <1>1, <1>2

\* A request that is made.
Request(op, kind, id, v) ==
    [op |-> op, kind |-> kind, id |-> id, vault |-> v, version |-> version,
     pc |-> "asked", waits |-> TRUE, result |-> "none"]

\* A new request is a request.
LEMMA Made ==
  ASSUME NEW op \in {"load", "add", "edit", "delete"},
         NEW kind \in Kinds \cup {"none"}, NEW id \in Nat, NEW v \in SUBSET Entries,
         version \in Nat
  PROVE  Request(op, kind, id, v) \in Call
<1>1. TRUE \in BOOLEAN
  OBVIOUS
<1> QED
  BY <1>1 DEF Request, Call

\* Drawing a page of entries gives a page of entries, and the ids of entries are numbers.
LEMMA DrawnTyped ==
  ASSUME NEW k, NEW old \in SUBSET Entries, NEW entries \in SUBSET Entries
  PROVE  /\ Drawn(k, old, entries) \in SUBSET Entries
         /\ Timers(ticking, entries) \in SUBSET Nat
         /\ IdsOf(entries) \in SUBSET Nat
  BY DEF Drawn, Timers, OfKind, IdsOf, Entries

\* No request is about a version the relay has not had, an answer is heard only while the
\* popup waits for it, and one for a save only while there is a vault.
CallTyped(call, size, v) ==
    /\ call.version <= size
    /\ call.pc = "answered" => call.waits
    /\ call.op # "load" /\ call.waits => v \in SUBSET Entries

CallsTyped(cs, size, v) == \A n \in DOMAIN cs : CallTyped(cs[n], size, v)

Typed == TypeOK /\ CallsTyped(calls, Len(log), vault)

\* A request stays typed when the relay takes a vault or the popup changes its own.
LEMMA CallKept ==
  ASSUME NEW call \in Call, NEW size \in Nat, NEW size2 \in Nat, size <= size2,
         NEW v, NEW v2, v2 = v \/ v2 \in SUBSET Entries, CallTyped(call, size, v)
  PROVE  CallTyped(call, size2, v2)
<1>1. call.version \in Nat
  BY DEF Call
<1> QED
  BY <1>1 DEF CallTyped

\* The requests keep their types when one is made.
LEMMA MadeTyped ==
  ASSUME Typed, NEW op \in {"load", "add", "edit", "delete"},
         NEW kind \in Kinds \cup {"none"}, NEW id \in Nat, NEW v \in SUBSET Entries,
         MayAsk, calls' = Asking(op, kind, id, v), log' = log,
         vault' = vault \/ vault' \in SUBSET Entries, op # "load" => vault' \in SUBSET Entries
  PROVE  /\ calls' \in Seq(Call) /\ Len(calls') <= MaxCalls
         /\ CallsTyped(calls', Len(log'), vault')
<1>1. /\ version \in Nat /\ version <= Len(log) /\ calls \in Seq(Call)
      /\ Len(log) \in Nat /\ Len(calls) \in Nat
  BY DEF Typed, TypeOK
<1> DEFINE e == Request(op, kind, id, v)
<1>2. /\ e \in Call /\ Asking(op, kind, id, v) = Append(calls, e)
      /\ e.version = version /\ e.op = op /\ e.pc = "asked"
  <2>1. e \in Call
    BY <1>1, Made
  <2>2. Asking(op, kind, id, v) = Append(calls, e)
    BY DEF Asking, Request
  <2>3. e.version = version /\ e.op = op /\ e.pc = "asked"
    BY DEF Request
  <2> QED
    BY <2>1, <2>2, <2>3
<1> HIDE DEF e
<1>3. CallTyped(e, Len(log'), vault')
  BY <1>1, <1>2 DEF CallTyped
<1>4. /\ calls' \in Seq(Call) /\ Len(calls') = Len(calls) + 1
      /\ DOMAIN calls' = DOMAIN calls \cup {Len(calls) + 1} /\ calls'[Len(calls) + 1] = e
      /\ \A m \in DOMAIN calls : calls'[m] = calls[m]
  BY <1>1, <1>2, Added
<1>5. ASSUME NEW m \in DOMAIN calls
      PROVE  CallTyped(calls'[m], Len(log'), vault')
  <2>1. calls[m] \in Call /\ CallTyped(calls[m], Len(log), vault)
    BY <1>1 DEF Typed, CallsTyped
  <2> QED
    BY <1>1, <1>4, <2>1, CallKept
<1>6. Len(calls) < MaxCalls
  BY DEF MayAsk
<1> QED
  BY <1>1, <1>3, <1>4, <1>5, <1>6, MaxCallsAssumption DEF CallsTyped

\* The requests keep their types when one is replaced.
LEMMA ReplacedTyped ==
  ASSUME Typed, NEW n \in DOMAIN calls, NEW e \in Call, calls' = [calls EXCEPT ![n] = e],
         log' \in Seq(SUBSET Entries), Len(log) <= Len(log'),
         vault' = vault \/ vault' \in SUBSET Entries, CallTyped(e, Len(log'), vault')
  PROVE  /\ calls' \in Seq(Call) /\ Len(calls') <= MaxCalls
         /\ CallsTyped(calls', Len(log'), vault')
<1>1. /\ calls \in Seq(Call) /\ Len(calls) <= MaxCalls /\ log \in Seq(SUBSET Entries)
      /\ Len(log) \in Nat /\ Len(log') \in Nat
  BY DEF Typed, TypeOK
<1>2. /\ calls' \in Seq(Call) /\ Len(calls') = Len(calls) /\ DOMAIN calls' = DOMAIN calls
      /\ calls'[n] = e /\ \A m \in DOMAIN calls : m # n => calls'[m] = calls[m]
  BY <1>1, Replaced
<1>3. ASSUME NEW m \in DOMAIN calls, m # n
      PROVE  CallTyped(calls'[m], Len(log'), vault')
  <2>1. calls[m] \in Call /\ CallTyped(calls[m], Len(log), vault)
    BY <1>1 DEF Typed, CallsTyped
  <2> QED
    BY <1>1, <1>2, <1>3, <2>1, CallKept
<1> QED
  BY <1>1, <1>2, <1>3 DEF CallsTyped

\* The steps of the page keep the types.
LEMMA PageStepTyped == Typed /\ PageStep => Typed'
<1> SUFFICES ASSUME Typed, PageStep PROVE Typed'
  OBVIOUS
<1>0. TypeOK
  BY DEF Typed
<1>1. /\ log \in Seq(SUBSET Entries) /\ Len(log) > 0 /\ Len(log) \in Nat
      /\ cache \in [vault : SUBSET Entries, version : 1..Len(log)] \cup {None}
      /\ view \in {"closed", "locked", "unlocked"}
      /\ vault \in (SUBSET Entries) \cup {None} /\ version \in 0..Len(log) /\ version \in Nat
      /\ rows \in SUBSET Entries /\ ticking \in SUBSET Nat /\ form \in Forms
      /\ calls \in Seq(Call) /\ Len(calls) <= MaxCalls
      /\ deleted \in SUBSET Nat /\ overtaken \in SUBSET Nat
  BY <1>0 DEF TypeOK
<1>2. /\ {} \in SUBSET Entries /\ {} \in SUBSET Nat /\ NoForm \in Forms
      /\ "none" \in Kinds \cup {"none"} /\ 0 \in Nat
  BY DEF Forms
<1>3. ASSUME calls' = calls, log' = log, vault' = vault
      PROVE  /\ calls' \in Seq(Call) /\ Len(calls') <= MaxCalls
             /\ CallsTyped(calls', Len(log'), vault')
  BY <1>1, <1>3 DEF Typed
<1>4. ASSUME AskLoad, log' = log, vault' = vault
      PROVE  /\ calls' \in Seq(Call) /\ Len(calls') <= MaxCalls
             /\ CallsTyped(calls', Len(log'), vault')
  BY <1>2, <1>4, MadeTyped DEF AskLoad
<1>5. CASE OpenPopup
  <2>1. /\ calls' \in Seq(Call) /\ Len(calls') <= MaxCalls
        /\ CallsTyped(calls', Len(log'), vault')
    BY <1>3, <1>4, <1>5 DEF OpenPopup
  <2> QED
    BY <1>1, <1>5, <2>1 DEF OpenPopup, Typed, TypeOK
<1>6. CASE ClosePopup
  <2>1. /\ calls' = [n \in DOMAIN calls |-> Unheard(calls[n])]
        /\ UNCHANGED <<log, cache, deleted, overtaken>>
        /\ view' = "closed" /\ vault' = None /\ version' = 1
        /\ rows' = {} /\ ticking' = {} /\ form' = NoForm
    BY <1>6 DEF ClosePopup
  <2>2. \A n \in DOMAIN calls : calls'[n] \in Call
    BY <1>1, <2>1, Unhearing
  <2>3. calls' \in Seq(Call) /\ Len(calls') = Len(calls) /\ DOMAIN calls' = DOMAIN calls
    BY <1>1, <2>1, <2>2, Mapped
  <2>4. ASSUME NEW n \in DOMAIN calls
        PROVE  CallTyped(calls'[n], Len(log'), vault')
    <3>1. calls[n] \in Call /\ CallTyped(calls[n], Len(log), vault)
      BY <1>1 DEF Typed, CallsTyped
    <3>2. /\ ~Unheard(calls[n]).waits /\ Unheard(calls[n]).pc # "answered"
          /\ Unheard(calls[n]).version = 0 \/ Unheard(calls[n]).version = calls[n].version
      BY <3>1, Unhearing
    <3> QED
      BY <1>1, <2>1, <3>1, <3>2 DEF CallTyped
  <2> QED
    BY <1>1, <1>2, <2>1, <2>3, <2>4 DEF Typed, TypeOK, CallsTyped
<1>7. CASE UnlockComplete
  <2>1. /\ calls' \in Seq(Call) /\ Len(calls') <= MaxCalls
        /\ CallsTyped(calls', Len(log'), vault')
    BY <1>3, <1>4, <1>7 DEF UnlockComplete
  <2>2. Latest \in [vault : SUBSET Entries, version : 1..Len(log)]
    BY <1>1 DEF Latest
  <2>3. view' \in {"closed", "locked", "unlocked"}
    BY <1>1, <1>7 DEF UnlockComplete
  <2> QED
    BY <1>1, <1>7, <2>1, <2>2, <2>3 DEF UnlockComplete, Typed, TypeOK
<1>8. CASE VaultLocked
  <2>1. view' \in {"closed", "locked", "unlocked"}
    BY <1>1, <1>8 DEF VaultLocked
  <2> QED
    BY <1>1, <1>3, <1>8, <2>1 DEF VaultLocked, Typed, TypeOK
<1>9. CASE WorkerStops \/ ShowLocked
  BY <1>1, <1>3, <1>9 DEF WorkerStops, page, ShowLocked, Typed, TypeOK
<1>10. ASSUME NEW k \in Kinds, NEW id \in {0} \cup IdsOf(rows), OpenForm(k, id)
       PROVE  Typed'
  <2>1. id \in Nat
    BY <1>1 DEF IdsOf, Entries
  <2>2. [kind |-> k, id |-> id] \in Forms
    BY <2>1 DEF Forms
  <2> QED
    BY <1>1, <1>3, <1>10, <2>2 DEF OpenForm, Typed, TypeOK
<1>11. CASE HideForms
  BY <1>1, <1>2, <1>3, <1>11 DEF HideForms, Typed, TypeOK
<1>12. CASE PressSave
  <2> DEFINE n == Len(calls) + 1
             op == IF form.id = 0 THEN "add" ELSE "edit"
             id == IF form.id = 0 THEN n ELSE form.id
  <2>1. /\ vault # None /\ form # NoForm /\ MayAsk
        /\ vault' = Edited(form.kind, form.id, n)
        /\ calls' = Asking(op, form.kind, id, vault')
        /\ UNCHANGED <<log, cache, view, version, rows, ticking, form, deleted, overtaken>>
    BY <1>12 DEF PressSave, Usable
  <2>2. form \in [kind : Kinds, id : Nat]
    BY <1>1, <2>1 DEF Forms
  <2>3. form.kind \in Kinds /\ form.id \in Nat /\ n \in Nat
    BY <1>1, <2>2
  <2>4. vault' \in SUBSET Entries
    <3>1. vault \in SUBSET Entries
      BY <1>1, <2>1
    <3>2. [kind |-> form.kind, id |-> n, text |-> n] \in Entries
      BY <2>3 DEF Entries
    <3>3. \A x \in vault : [x EXCEPT !.text = n] \in Entries
      BY <2>3, <3>1 DEF Entries
    <3> QED
      BY <2>1, <3>1, <3>2, <3>3 DEF Edited
  <2>5. op \in {"load", "add", "edit", "delete"} /\ id \in Nat
    BY <2>3
  <2> HIDE DEF op, id, n
  <2>6. /\ calls' \in Seq(Call) /\ Len(calls') <= MaxCalls
        /\ CallsTyped(calls', Len(log'), vault')
    BY <2>1, <2>3, <2>4, <2>5, MadeTyped
  <2> QED
    BY <1>1, <2>1, <2>4, <2>6 DEF Typed, TypeOK
<1>13. ASSUME NEW row \in rows, Delete(row)
       PROVE  Typed'
  <2>1. /\ vault # None /\ MayAsk
        /\ vault' = Without(row.kind, row.id)
        /\ ticking' = IF row.kind = "totps" THEN ticking \ {row.id} ELSE ticking
        /\ calls' = Asking("delete", row.kind, row.id, vault')
        /\ deleted' = deleted \cup {row.id}
        /\ UNCHANGED <<log, cache, view, version, rows, form, overtaken>>
    BY <1>13 DEF Delete, Usable
  <2>2. row.kind \in Kinds /\ row.id \in Nat
    BY <1>1 DEF Entries
  <2>3. vault' \in SUBSET Entries
    BY <1>1, <2>1 DEF Without
  <2>4. /\ calls' \in Seq(Call) /\ Len(calls') <= MaxCalls
        /\ CallsTyped(calls', Len(log'), vault')
    BY <2>1, <2>2, <2>3, MadeTyped
  <2>5. ticking' \in SUBSET Nat /\ deleted' \in SUBSET Nat
    BY <1>1, <2>1, <2>2
  <2> QED
    BY <1>1, <2>1, <2>3, <2>4, <2>5 DEF Typed, TypeOK
<1> QED
  BY <1>5, <1>6, <1>7, <1>8, <1>9, <1>10, <1>11, <1>12, <1>13 DEF PageStep

\* The steps of a request keep the types.
LEMMA CallStepTyped ==
  ASSUME Typed, NEW n \in DOMAIN calls, CallStep(n)
  PROVE  Typed'
<1>0. TypeOK
  BY DEF Typed
<1>1. /\ log \in Seq(SUBSET Entries) /\ Len(log) > 0 /\ Len(log) \in Nat
      /\ cache \in [vault : SUBSET Entries, version : 1..Len(log)] \cup {None}
      /\ view \in {"closed", "locked", "unlocked"}
      /\ vault \in (SUBSET Entries) \cup {None} /\ version \in 0..Len(log)
      /\ rows \in SUBSET Entries /\ ticking \in SUBSET Nat /\ form \in Forms
      /\ calls \in Seq(Call) /\ Len(calls) <= MaxCalls
      /\ deleted \in SUBSET Nat /\ overtaken \in SUBSET Nat
  BY <1>0 DEF TypeOK
<1>2. calls[n] \in Call /\ calls[n].version <= Len(log)
  BY <1>1 DEF Typed, CallsTyped, CallTyped
<1>3. /\ calls[n].vault \in SUBSET Entries /\ calls[n].version \in Nat
      /\ calls[n].result \in Results
  BY <1>2 DEF Call, Results
<1>4. NoCopy \in [vault : SUBSET Entries, version : Nat] /\ NoCopy.version = 0
  BY DEF NoCopy
<1>5. "failed" \in Results /\ "shut" \in Results /\ "ok" \in Results
  BY DEF Results
<1>6. ASSUME NEW result \in Results, NEW copy \in [vault : SUBSET Entries, version : Nat],
             calls' = Answered(n, result, copy), log' \in Seq(SUBSET Entries),
             Len(log) <= Len(log'), copy.version <= Len(log'), vault' = vault
      PROVE  /\ calls' \in Seq(Call) /\ Len(calls') <= MaxCalls
             /\ CallsTyped(calls', Len(log'), vault')
  <2>1. PICK e \in Call :
            /\ Answered(n, result, copy) = [calls EXCEPT ![n] = e] /\ e.op = calls[n].op
            /\ calls[n].waits => e.version = copy.version
            /\ ~calls[n].waits => e.version = 0 /\ ~e.waits /\ e.pc = "done"
            /\ calls[n].waits => e.waits
    BY <1>1, Answering
  <2>2. CallTyped(e, Len(log'), vault')
    <3>1. CallTyped(calls[n], Len(log), vault) /\ Len(log') \in Nat
      BY <1>6 DEF Typed, CallsTyped
    <3> QED
      BY <1>6, <2>1, <3>1 DEF CallTyped
  <2> QED
    BY <1>6, <2>1, <2>2, ReplacedTyped
<1>7. ASSUME NEW e \in Call, calls' = [calls EXCEPT ![n] = e], log' = log,
             e.version <= Len(log), ~e.waits, e.pc # "answered",
             vault' = vault \/ vault' \in SUBSET Entries
      PROVE  /\ calls' \in Seq(Call) /\ Len(calls') <= MaxCalls
             /\ CallsTyped(calls', Len(log'), vault')
  <2>1. CallTyped(e, Len(log'), vault')
    BY <1>7 DEF CallTyped
  <2>2. log' \in Seq(SUBSET Entries) /\ Len(log) <= Len(log')
    BY <1>1, <1>7
  <2> QED
    BY <1>1, <1>7, <2>1, <2>2, ReplacedTyped
<1>8. CASE ServeLoad(n)
  <2>1. UNCHANGED <<log, cache, page, deleted, overtaken>>
    BY <1>8 DEF ServeLoad
  <2>2. CASE cache = None
    BY <1>1, <1>4, <1>5, <1>6, <1>8, <2>1, <2>2 DEF ServeLoad, page, Typed, TypeOK
  <2>3. CASE cache # None
    <3>1. cache \in [vault : SUBSET Entries, version : Nat] /\ cache.version <= Len(log)
      BY <1>1, <2>3
    <3>2. calls' = Answered(n, "ok", cache)
      BY <1>8, <2>3 DEF ServeLoad
    <3>3. /\ calls' \in Seq(Call) /\ Len(calls') <= MaxCalls
          /\ CallsTyped(calls', Len(log'), vault')
      BY <1>1, <1>5, <1>6, <2>1, <3>1, <3>2 DEF page
    <3> QED
      BY <1>1, <2>1, <3>3 DEF page, Typed, TypeOK
  <2> QED
    BY <2>2, <2>3
<1>9. ASSUME NEW heard \in BOOLEAN, ServeSave(n, heard)
      PROVE  Typed'
  <2>1. /\ log' = Append(log, calls[n].vault)
        /\ cache' = IF heard THEN SavedCopy(n) ELSE cache
        /\ calls' = IF heard THEN Answered(n, "ok", [NoCopy EXCEPT !.version = Len(log')])
                    ELSE Answered(n, "failed", NoCopy)
        /\ UNCHANGED <<page, deleted, overtaken>>
    BY <1>9 DEF ServeSave
  <2>2. /\ log' \in Seq(SUBSET Entries) /\ Len(log') = Len(log) + 1
        /\ Len(log) <= Len(log') /\ NoCopy.version <= Len(log') /\ vault' = vault
    <3>1. vault' = vault
      BY <2>1 DEF page
    <3> QED
      BY <1>1, <1>3, <1>4, <2>1, <3>1
  <2> DEFINE copy == [NoCopy EXCEPT !.version = Len(log')]
  <2>3. copy \in [vault : SUBSET Entries, version : Nat] /\ copy.version <= Len(log')
    BY <1>1, <1>4, <2>2
  <2> HIDE DEF copy
  <2>4. /\ calls' \in Seq(Call) /\ Len(calls') <= MaxCalls
        /\ CallsTyped(calls', Len(log'), vault')
    <3>1. CASE heard
      <4>1. calls' = Answered(n, "ok", copy)
        BY <2>1, <3>1 DEF copy
      <4> QED
        BY <1>5, <1>6, <2>2, <2>3, <4>1
    <3>2. CASE ~heard
      <4>1. calls' = Answered(n, "failed", NoCopy)
        BY <2>1, <3>2
      <4> QED
        BY <1>4, <1>5, <1>6, <2>2, <4>1
    <3> QED
      BY <3>1, <3>2
  <2>5. cache' \in [vault : SUBSET Entries, version : 1..Len(log')] \cup {None}
    <3>1. SavedCopy(n) \in [vault : SUBSET Entries, version : 1..Len(log')]
      BY <1>1, <1>3, <2>2 DEF SavedCopy
    <3>2. cache \in [vault : SUBSET Entries, version : 1..Len(log')] \cup {None}
      BY <1>1, <2>2
    <3> QED
      BY <2>1, <3>1, <3>2
  <2> QED
    BY <1>1, <2>1, <2>2, <2>4, <2>5 DEF page, Typed, TypeOK
<1>10. CASE RefuseSave(n)
  <2>1. calls' = Answered(n, "shut", NoCopy) \/ calls' = Answered(n, "failed", NoCopy)
    BY <1>10 DEF RefuseSave
  <2>2. UNCHANGED <<log, cache, page, deleted, overtaken>>
    BY <1>10 DEF RefuseSave
  <2>3. /\ calls' \in Seq(Call) /\ Len(calls') <= MaxCalls
        /\ CallsTyped(calls', Len(log'), vault')
    BY <1>1, <1>4, <1>5, <1>6, <2>1, <2>2 DEF page
  <2> QED
    BY <1>1, <2>2, <2>3 DEF page, Typed, TypeOK
<1>11. CASE GiveUp(n)
  <2>1. /\ calls' = [calls EXCEPT ![n] = Unheard(calls[n])]
        /\ UNCHANGED <<log, cache, page, deleted, overtaken>>
    BY <1>11 DEF GiveUp
  <2>2. /\ Unheard(calls[n]) \in Call /\ Unheard(calls[n]).version <= Len(log)
        /\ ~Unheard(calls[n]).waits /\ Unheard(calls[n]).pc # "answered"
    BY <1>1, <1>2, Unhearing
  <2>3. /\ calls' \in Seq(Call) /\ Len(calls') <= MaxCalls
        /\ CallsTyped(calls', Len(log'), vault')
    BY <1>7, <2>1, <2>2 DEF page
  <2> QED
    BY <1>1, <2>1, <2>3 DEF page, Typed, TypeOK
<1>12. ASSUME calls' = [calls EXCEPT ![n] = Finished(@, @.result, @.version)], log' = log,
              vault' = vault \/ vault' \in SUBSET Entries
       PROVE  /\ calls' \in Seq(Call) /\ Len(calls') <= MaxCalls
              /\ CallsTyped(calls', Len(log'), vault')
  <2>1. calls' = [calls EXCEPT ![n] = Finished(calls[n], calls[n].result, calls[n].version)]
    BY <1>12
  <2>2. /\ Finished(calls[n], calls[n].result, calls[n].version) \in Call
        /\ Finished(calls[n], calls[n].result, calls[n].version).version <= Len(log)
        /\ ~Finished(calls[n], calls[n].result, calls[n].version).waits
        /\ Finished(calls[n], calls[n].result, calls[n].version).pc # "answered"
    BY <1>2, <1>3, Finishing
  <2> QED
    BY <1>7, <1>12, <2>1, <2>2
<1>13. CASE HearLoad(n)
  <2>1. /\ calls' = [calls EXCEPT ![n] = Finished(@, @.result, @.version)]
        /\ UNCHANGED <<log, cache, form, deleted>>
    BY <1>13 DEF HearLoad
  <2>2. /\ calls' \in Seq(Call) /\ Len(calls') <= MaxCalls
        /\ CallsTyped(calls', Len(log'), vault')
    <3>1. vault' = vault \/ vault' = calls[n].vault
      BY <1>13 DEF HearLoad
    <3> QED
      BY <1>3, <1>12, <2>1, <3>1
  <2>3. CASE calls[n].result = "ok"
    <3>1. /\ vault' = calls[n].vault /\ version' = calls[n].version
          /\ rows' = Drawn("totps", Drawn("credentials", rows, vault'), vault')
          /\ ticking' = Timers(ticking, vault')
          /\ overtaken' = overtaken \cup (IF Awaited = {} THEN {} ELSE Undone(vault'))
          /\ view' = view
      BY <1>13, <2>3 DEF HearLoad
    <3>2. rows' \in SUBSET Entries /\ ticking' \in SUBSET Nat
      BY <1>1, <1>3, <3>1, DrawnTyped
    <3>3. overtaken' \in SUBSET Nat
      <4>1. CASE Awaited = {}
        BY <1>1, <3>1, <4>1
      <4>2. CASE Awaited # {}
        <5>1. vault \in SUBSET Entries
          BY <4>2 DEF Awaited, Typed, CallsTyped, CallTyped
        <5>2. Undone(vault') \in SUBSET Nat
          BY <1>3, <3>1, <5>1 DEF Undone, IdsOf, Entries
        <5> QED
          BY <1>1, <3>1, <4>2, <5>2
      <4> QED
        BY <4>1, <4>2
    <3> QED
      BY <1>1, <1>2, <1>3, <2>1, <2>2, <3>1, <3>2, <3>3 DEF Typed, TypeOK
  <2>4. CASE calls[n].result # "ok"
    <3>1. /\ view' = IF calls[n].result = "shut" THEN "locked" ELSE view
          /\ UNCHANGED <<vault, version, rows, ticking, overtaken>>
      BY <1>13, <2>4 DEF HearLoad
    <3>2. view' \in {"closed", "locked", "unlocked"}
      BY <1>1, <3>1
    <3> QED
      BY <1>1, <2>1, <2>2, <3>1, <3>2 DEF Typed, TypeOK
  <2> QED
    BY <2>3, <2>4
<1>14. CASE HearSave(n)
  <2>1. /\ calls' = [calls EXCEPT ![n] = Finished(@, @.result, @.version)]
        /\ UNCHANGED <<log, cache, view, vault, deleted, overtaken>>
    BY <1>14 DEF HearSave
  <2>2. /\ calls' \in Seq(Call) /\ Len(calls') <= MaxCalls
        /\ CallsTyped(calls', Len(log'), vault')
    BY <1>12, <2>1
  <2>3. vault \in SUBSET Entries
    <3>1. calls[n].op # "load" /\ calls[n].pc = "answered"
      BY <1>14 DEF HearSave
    <3> QED
      BY <3>1 DEF Typed, CallsTyped, CallTyped
  <2>4. CASE calls[n].result # "failed"
    <3>1. /\ version' = IF calls[n].result = "shut" THEN 0 ELSE calls[n].version
          /\ rows' = Drawn(calls[n].kind, rows, vault)
          /\ ticking' = IF calls[n].kind = "totps" THEN Timers(ticking, vault) ELSE ticking
          /\ form' = IF calls[n].op # "delete" /\ form.kind = calls[n].kind THEN NoForm
                     ELSE form
      BY <1>14, <2>4 DEF HearSave
    <3>2. rows' \in SUBSET Entries /\ ticking' \in SUBSET Nat
      BY <1>1, <2>3, <3>1, DrawnTyped
    <3>3. version' \in 0..Len(log) /\ form' \in Forms
      BY <1>1, <1>2, <1>3, <3>1 DEF Forms
    <3> QED
      BY <1>1, <2>1, <2>2, <3>2, <3>3 DEF Typed, TypeOK
  <2>5. CASE calls[n].result = "failed"
    BY <1>1, <1>14, <2>1, <2>2, <2>5 DEF HearSave, Typed, TypeOK
  <2> QED
    BY <2>4, <2>5
<1> QED
  BY <1>8, <1>9, <1>10, <1>11, <1>13, <1>14 DEF CallStep

\* The initial values have their types.
LEMMA InitTyped == Init => Typed
<1> SUFFICES ASSUME Init PROVE Typed
  OBVIOUS
<1>1. Initial \in SUBSET Entries
  BY InitialAssumption
<1>2. log \in Seq(SUBSET Entries) /\ Len(log) = 1
  BY <1>1 DEF Init
<1>3. calls \in Seq(Call) /\ Len(calls) = 0 /\ DOMAIN calls = {}
  BY EmptySeq DEF Init
<1>4. {} \in SUBSET Entries /\ {} \in SUBSET Nat /\ NoForm \in Forms
  BY DEF Forms
<1> QED
  BY <1>2, <1>3, <1>4, MaxCallsAssumption DEF Init, Typed, TypeOK, CallsTyped

\* Each step keeps them.
LEMMA NextTyped == Typed /\ [Next]_vars => Typed'
<1> SUFFICES ASSUME Typed, [Next]_vars PROVE Typed'
  OBVIOUS
<1>1. CASE Next
  BY <1>1, PageStepTyped, CallStepTyped DEF Next
<1>2. CASE UNCHANGED vars
  BY <1>2 DEF vars, Typed, TypeOK
<1> QED
  BY <1>1, <1>2

\* So they always have them.
LEMMA AlwaysTyped == Spec => []Typed
<1> QED
  BY InitTyped, NextTyped, PTL DEF Spec

\* Every variable keeps its type: no request or page is about a version the relay has not
\* had, and there are never more requests than allowed.
THEOREM TypeCorrect == Spec => []TypeOK
<1>1. Typed => TypeOK
  BY DEF Typed
<1> QED
  BY <1>1, AlwaysTyped, PTL

\* -------------------------------------------------------------------------
\* The codes

\* Drawing the rows of one kind leaves the rows of the other.
LEMMA DrawnKinds ==
  ASSUME NEW k, NEW j, NEW old, NEW entries
  PROVE  /\ OfKind(k, Drawn(k, old, entries)) = OfKind(k, entries)
         /\ j # k => OfKind(j, Drawn(k, old, entries)) = OfKind(j, old)
  BY DEF Drawn, OfKind

\* Drawing both kinds leaves nothing of the old page.
LEMMA DrawnAnew ==
  ASSUME NEW old \in SUBSET Entries, NEW entries \in SUBSET Entries
  PROVE  Drawn("totps", Drawn("credentials", old, entries), entries) = entries
  BY DEF Drawn, OfKind, Entries, Kinds

\* Each step keeps the codes current.
LEMMA CodesKeptByStep == Typed /\ CodesAreCurrent /\ [Next]_vars => CodesAreCurrent'
<1> SUFFICES ASSUME Typed, CodesAreCurrent, [Next]_vars PROVE CodesAreCurrent'
  OBVIOUS
<1>1. rows \in SUBSET Entries /\ calls \in Seq(Call)
  BY DEF Typed, TypeOK
<1>2. ASSUME UNCHANGED <<rows, ticking, deleted>>
      PROVE  CodesAreCurrent'
  BY <1>2 DEF CodesAreCurrent
<1>3. ASSUME NEW entries, OfKind("totps", rows') = OfKind("totps", entries),
             ticking' = Timers(ticking, entries)
      PROVE  CodesAreCurrent'
  BY <1>3 DEF CodesAreCurrent, Timers
<1>4. CASE ClosePopup
  BY <1>4 DEF ClosePopup, CodesAreCurrent, OfKind, IdsOf
<1>5. ASSUME NEW row \in rows, Delete(row)
      PROVE  CodesAreCurrent'
  <2>1. /\ ticking' = IF row.kind = "totps" THEN ticking \ {row.id} ELSE ticking
        /\ rows' = rows /\ deleted' = deleted \cup {row.id}
    BY <1>5 DEF Delete
  <2> QED
    BY <2>1 DEF CodesAreCurrent
<1>6. ASSUME NEW n \in DOMAIN calls, HearLoad(n)
      PROVE  CodesAreCurrent'
  <2>1. CASE calls[n].result = "ok"
    <3>1. /\ rows' = Drawn("totps", Drawn("credentials", rows, vault'), vault')
          /\ ticking' = Timers(ticking, vault')
      BY <1>6, <2>1 DEF HearLoad
    <3> QED
      BY <1>3, <3>1, DrawnKinds
  <2>2. CASE calls[n].result # "ok"
    BY <1>2, <1>6, <2>2 DEF HearLoad
  <2> QED
    BY <2>1, <2>2
<1>7. ASSUME NEW n \in DOMAIN calls, HearSave(n)
      PROVE  CodesAreCurrent'
  <2>1. CASE calls[n].result # "failed"
    <3>1. /\ rows' = Drawn(calls[n].kind, rows, vault)
          /\ ticking' = IF calls[n].kind = "totps" THEN Timers(ticking, vault) ELSE ticking
          /\ deleted' = deleted
      BY <1>7, <2>1 DEF HearSave
    <3>2. CASE calls[n].kind = "totps"
      BY <1>3, <3>1, <3>2, DrawnKinds
    <3>3. CASE calls[n].kind # "totps"
      <4>1. OfKind("totps", rows') = OfKind("totps", rows)
        BY <3>1, <3>3, DrawnKinds
      <4> QED
        BY <3>1, <3>3, <4>1 DEF CodesAreCurrent
    <3> QED
      BY <3>2, <3>3
  <2>2. CASE calls[n].result = "failed"
    BY <1>2, <1>7, <2>2 DEF HearSave
  <2> QED
    BY <2>1, <2>2
<1>8. CASE PageStep
  BY <1>2, <1>4, <1>5, <1>8 DEF PageStep, OpenPopup, UnlockComplete, VaultLocked,
     WorkerStops, page, ShowLocked, OpenForm, HideForms, PressSave
<1>9. ASSUME NEW n \in DOMAIN calls, CallStep(n)
      PROVE  CodesAreCurrent'
  BY <1>2, <1>6, <1>7, <1>9 DEF CallStep, ServeLoad, RefuseSave, GiveUp, ServeSave, page
<1>10. CASE UNCHANGED vars
  BY <1>2, <1>10 DEF vars
<1> QED
  BY <1>8, <1>9, <1>10 DEF Next

\* The code of every one-time-code row is kept current until the user deletes the row, and
\* no timer outlives its row, whatever is saved, loaded and locked in between.
THEOREM CodesKept == Spec => []CodesAreCurrent
<1>1. Init => CodesAreCurrent
  BY DEF Init, CodesAreCurrent, OfKind, IdsOf
<1> QED
  BY <1>1, AlwaysTyped, CodesKeptByStep, PTL DEF Spec

\* -------------------------------------------------------------------------
\* The texts

\* Requests are added, and keep what they are for.
Continues(cs, cs2) ==
    /\ DOMAIN cs \subseteq DOMAIN cs2
    /\ \A n \in DOMAIN cs : cs2[n].op = cs[n].op /\ cs2[n].kind = cs[n].kind

\* Each step lets the requests go on.
LEMMA Continuing == Typed /\ [Next]_vars => Continues(calls, calls')
<1> SUFFICES ASSUME Typed, [Next]_vars PROVE Continues(calls, calls')
  OBVIOUS
<1>1. calls \in Seq(Call)
  BY DEF Typed, TypeOK
<1>2. ASSUME calls' = calls
      PROVE  Continues(calls, calls')
  BY <1>2 DEF Continues
<1>3. ASSUME NEW op, NEW kind, NEW id, NEW v, calls' = Asking(op, kind, id, v)
      PROVE  Continues(calls, calls')
  <2> DEFINE e == [op |-> op, kind |-> kind, id |-> id, vault |-> v, version |-> version,
                   pc |-> "asked", waits |-> TRUE, result |-> "none"]
  <2>1. calls' = Append(calls, e)
    BY <1>3 DEF Asking
  <2> HIDE DEF e
  <2>2. Len(calls) \in Nat /\ DOMAIN calls = 1..Len(calls)
    BY <1>1
  <2>3. /\ Len(calls') = Len(calls) + 1 /\ DOMAIN calls' = 1..Len(calls')
        /\ \A m \in 1..Len(calls) : calls'[m] = calls[m]
    BY <1>1, <2>1
  <2> QED
    BY <2>2, <2>3 DEF Continues
<1>4. ASSUME NEW n \in DOMAIN calls, NEW e, calls' = [calls EXCEPT ![n] = e],
             e.op = calls[n].op, e.kind = calls[n].kind
      PROVE  Continues(calls, calls')
  BY <1>1, <1>4 DEF Continues
<1>5. CASE PageStep
  <2>1. CASE ClosePopup
    BY <1>1, <2>1, Unhearing DEF ClosePopup, Continues
  <2> QED
    BY <1>2, <1>3, <1>5, <2>1 DEF PageStep, OpenPopup, UnlockComplete, VaultLocked,
       WorkerStops, ShowLocked, OpenForm, HideForms, PressSave, Delete, AskLoad
<1>6. ASSUME NEW n \in DOMAIN calls, CallStep(n)
      PROVE  Continues(calls, calls')
  <2>1. calls[n] \in Call
    BY <1>1, <1>6
  <2>2. ASSUME NEW result, NEW copy, calls' = Answered(n, result, copy)
        PROVE  Continues(calls, calls')
    <3>1. CASE calls[n].waits
      <4>1. calls' = [calls EXCEPT ![n] = [calls[n] EXCEPT !.pc = "answered",
                          !.result = result, !.vault = copy.vault, !.version = copy.version]]
        BY <2>2, <3>1 DEF Answered
      <4> QED
        BY <1>4, <2>1, <4>1 DEF Call
    <3>2. CASE ~calls[n].waits
      <4>1. calls' = [calls EXCEPT ![n] = Finished(calls[n], "failed", 0)]
        BY <2>2, <3>2 DEF Answered
      <4> QED
        BY <1>4, <2>1, <4>1, Dropping
    <3> QED
      BY <3>1, <3>2
  <2>3. ASSUME calls' = [calls EXCEPT ![n] = Finished(@, @.result, @.version)]
        PROVE  Continues(calls, calls')
    <3> DEFINE e == Finished(calls[n], calls[n].result, calls[n].version)
    <3>1. calls' = [calls EXCEPT ![n] = e]
      BY <2>3
    <3>2. calls[n].result \in Results /\ calls[n].version \in Nat
      BY <2>1 DEF Call, Results
    <3>3. e.op = calls[n].op /\ e.kind = calls[n].kind
      BY <2>1, <3>2, Finishing
    <3> HIDE DEF e
    <3> QED
      BY <1>4, <3>1, <3>3
  <2>4. ASSUME calls' = [calls EXCEPT ![n] = Unheard(@)]
        PROVE  Continues(calls, calls')
    <3>1. calls' = [calls EXCEPT ![n] = Unheard(calls[n])]
      BY <2>4
    <3> QED
      BY <1>4, <2>1, <3>1, Unhearing
  <2> QED
    BY <1>6, <2>2, <2>3, <2>4 DEF CallStep, ServeLoad, ServeSave, RefuseSave, GiveUp,
       HearLoad, HearSave
<1>7. CASE UNCHANGED vars
  BY <1>2, <1>7 DEF vars
<1> QED
  BY <1>5, <1>6, <1>7 DEF Next

\* A text was written by a request that adds or edits an entry of that kind.
Owned(entries, cs) ==
    \A x \in entries :
        \/ x.text = 0
        \/ /\ x.text \in DOMAIN cs /\ cs[x.text].op \in {"add", "edit"}
           /\ cs[x.text].kind = x.kind

TextsOwned ==
    /\ \A v \in DOMAIN log : Owned(log[v], calls)
    /\ vault # None => Owned(vault, calls)
    /\ \A n \in DOMAIN calls : Owned(calls[n].vault, calls)
    /\ cache # None => Owned(cache.vault, calls)

\* Texts stay owned while the requests go on.
LEMMA OwnedStays ==
  ASSUME NEW entries, NEW cs, NEW cs2, Owned(entries, cs), Continues(cs, cs2)
  PROVE  Owned(entries, cs2)
  BY DEF Owned, Continues

\* In the beginning every text is that of the initial vault.
LEMMA TextsOwnedInit == Init => TextsOwned
<1> SUFFICES ASSUME Init PROVE TextsOwned
  OBVIOUS
<1>1. log = <<Initial>> /\ calls = <<>> /\ cache = None /\ vault = None
  BY DEF Init
<1>2. Owned(Initial, calls)
  BY InitialAssumption DEF Owned
<1> QED
  BY <1>1, <1>2 DEF TextsOwned

\* Each step keeps the texts owned.
LEMMA TextsOwnedByStep == Typed /\ TextsOwned /\ [Next]_vars => TextsOwned'
<1> SUFFICES ASSUME Typed, TextsOwned, [Next]_vars PROVE TextsOwned'
  OBVIOUS
<1>1. /\ calls \in Seq(Call) /\ log \in Seq(SUBSET Entries) /\ version \in Nat
      /\ Len(log) \in Nat /\ Len(log) > 0 /\ DOMAIN log = 1..Len(log)
      /\ Len(calls) \in Nat /\ DOMAIN calls = 1..Len(calls)
      /\ rows \in SUBSET Entries /\ form \in Forms
      /\ vault \in (SUBSET Entries) \cup {None}
  BY DEF Typed, TypeOK
<1>2. Continues(calls, calls')
  BY Continuing
<1>3. /\ \A v \in DOMAIN log : Owned(log[v], calls')
      /\ vault # None => Owned(vault, calls')
      /\ \A n \in DOMAIN calls : Owned(calls[n].vault, calls')
      /\ cache # None => Owned(cache.vault, calls')
  BY <1>2, OwnedStays DEF TextsOwned
<1>4. Owned({}, calls')
  BY DEF Owned
<1>5. ASSUME calls' = calls
      PROVE  \A n \in DOMAIN calls' : Owned(calls'[n].vault, calls')
  BY <1>3, <1>5
<1>6. ASSUME NEW op, NEW kind, NEW id, NEW v, calls' = Asking(op, kind, id, v),
             Owned(v, calls')
      PROVE  \A n \in DOMAIN calls' : Owned(calls'[n].vault, calls')
  <2> DEFINE e == [op |-> op, kind |-> kind, id |-> id, vault |-> v, version |-> version,
                   pc |-> "asked", waits |-> TRUE, result |-> "none"]
  <2>1. calls' = Append(calls, e)
    BY <1>6 DEF Asking
  <2>2. e.vault = v
    OBVIOUS
  <2> HIDE DEF e
  <2>3. /\ DOMAIN calls' = DOMAIN calls \cup {Len(calls) + 1} /\ calls'[Len(calls) + 1] = e
        /\ \A m \in DOMAIN calls : calls'[m] = calls[m]
    BY <1>1, <2>1
  <2> QED
    BY <1>3, <1>6, <2>2, <2>3
<1>7. ASSUME NEW n \in DOMAIN calls, NEW e, calls' = [calls EXCEPT ![n] = e],
             Owned(e.vault, calls')
      PROVE  \A m \in DOMAIN calls' : Owned(calls'[m].vault, calls')
  BY <1>1, <1>3, <1>7
<1>8. ASSUME AskLoad
      PROVE  \A n \in DOMAIN calls' : Owned(calls'[n].vault, calls')
  BY <1>4, <1>6, <1>8 DEF AskLoad
<1>9. CASE OpenPopup
  BY <1>3, <1>5, <1>8, <1>9 DEF OpenPopup, TextsOwned
<1>10. CASE ClosePopup
  <2>1. calls' = [n \in DOMAIN calls |-> Unheard(calls[n])]
    BY <1>10 DEF ClosePopup
  <2>2. ASSUME NEW n \in DOMAIN calls
        PROVE  Owned(calls'[n].vault, calls')
    <3>1. calls[n] \in Call /\ calls'[n] = Unheard(calls[n])
      BY <1>1, <2>1
    <3>2. calls'[n].vault = {} \/ calls'[n].vault = calls[n].vault
      BY <3>1, Unhearing
    <3> QED
      BY <1>3, <1>4, <3>2
  <2> QED
    BY <1>3, <1>10, <2>1, <2>2 DEF ClosePopup, TextsOwned
<1>11. CASE UnlockComplete
  <2>1. cache' = Latest /\ Latest.vault = log[Len(log)] /\ UNCHANGED <<log, vault>>
    BY <1>11 DEF UnlockComplete, Latest
  <2>2. \A n \in DOMAIN calls' : Owned(calls'[n].vault, calls')
    BY <1>5, <1>8, <1>11 DEF UnlockComplete
  <2> QED
    BY <1>1, <1>3, <2>1, <2>2 DEF TextsOwned
<1>12. CASE VaultLocked \/ WorkerStops
  BY <1>3, <1>5, <1>12 DEF VaultLocked, WorkerStops, page, TextsOwned
<1>13. CASE PressSave
  <2> DEFINE n == Len(calls) + 1
             op == IF form.id = 0 THEN "add" ELSE "edit"
             id == IF form.id = 0 THEN n ELSE form.id
             e == [op |-> op, kind |-> form.kind, id |-> id, vault |-> vault',
                   version |-> version, pc |-> "asked", waits |-> TRUE, result |-> "none"]
  <2>1. /\ vault # None
        /\ vault' = Edited(form.kind, form.id, n)
        /\ calls' = Asking(op, form.kind, id, vault')
        /\ UNCHANGED <<log, cache>>
    BY <1>13 DEF PressSave, Usable
  <2>2. calls' = Append(calls, e)
    BY <2>1 DEF Asking
  <2>3. e.op \in {"add", "edit"} /\ e.kind = form.kind
    OBVIOUS
  <2> HIDE DEF e, op, id
  <2>4. n \in DOMAIN calls' /\ calls'[n] = e
    BY <1>1, <2>2
  <2>5. Owned(vault', calls')
    <3> SUFFICES ASSUME NEW x \in vault'
                 PROVE  \/ x.text = 0
                        \/ /\ x.text \in DOMAIN calls' /\ calls'[x.text].op \in {"add", "edit"}
                           /\ calls'[x.text].kind = x.kind
      BY DEF Owned
    <3>1. CASE x \in vault
      BY <1>3, <2>1, <3>1 DEF Owned
    <3>2. CASE form.id = 0 /\ x \notin vault
      <4>1. x.kind = form.kind /\ x.text = n
        BY <2>1, <3>2 DEF Edited
      <4> QED
        BY <2>3, <2>4, <4>1
    <3>3. CASE form.id # 0 /\ x \notin vault
      <4>1. PICK y \in vault : x = IF y.kind = form.kind /\ y.id = form.id
                                   THEN [y EXCEPT !.text = n] ELSE y
        BY <2>1, <3>3 DEF Edited
      <4>2. x = [y EXCEPT !.text = n] /\ y.kind = form.kind /\ y \in Entries
        BY <1>1, <2>1, <3>3, <4>1
      <4>3. x.kind = form.kind /\ x.text = n
        BY <4>2 DEF Entries
      <4> QED
        BY <2>3, <2>4, <4>3
    <3> QED
      BY <3>1, <3>2, <3>3
  <2>6. \A m \in DOMAIN calls' : Owned(calls'[m].vault, calls')
    BY <1>6, <2>1, <2>5
  <2> QED
    BY <1>3, <2>1, <2>5, <2>6 DEF TextsOwned
<1>14. ASSUME NEW row \in rows, Delete(row)
       PROVE  TextsOwned'
  <2>1. /\ vault # None
        /\ vault' = Without(row.kind, row.id)
        /\ calls' = Asking("delete", row.kind, row.id, vault')
        /\ UNCHANGED <<log, cache>>
    BY <1>14 DEF Delete, Usable
  <2>2. Owned(vault', calls')
    BY <1>3, <2>1 DEF Without, Owned
  <2>3. \A n \in DOMAIN calls' : Owned(calls'[n].vault, calls')
    BY <1>6, <2>1, <2>2
  <2> QED
    BY <1>3, <2>1, <2>2, <2>3 DEF TextsOwned
<1>15. ASSUME NEW n \in DOMAIN calls, CallStep(n)
       PROVE  TextsOwned'
  <2>1. calls[n] \in Call
    BY <1>1
  <2>2. ASSUME NEW result \in Results, NEW copy \in [vault : SUBSET Entries, version : Nat],
               calls' = Answered(n, result, copy), Owned(copy.vault, calls')
        PROVE  \A m \in DOMAIN calls' : Owned(calls'[m].vault, calls')
    <3>1. PICK e \in Call :
              /\ Answered(n, result, copy) = [calls EXCEPT ![n] = e]
              /\ e.vault = copy.vault \/ e.vault = {}
      BY <1>1, <2>2, Answering
    <3>2. Owned(e.vault, calls')
      BY <1>4, <2>2, <3>1
    <3>3. calls' = [calls EXCEPT ![n] = e]
      BY <2>2, <3>1
    <3> QED
      BY <1>7, <3>2, <3>3
  <2>3. ASSUME calls' = [calls EXCEPT ![n] = Finished(@, @.result, @.version)]
        PROVE  \A m \in DOMAIN calls' : Owned(calls'[m].vault, calls')
    <3> DEFINE e == Finished(calls[n], calls[n].result, calls[n].version)
    <3>1. calls' = [calls EXCEPT ![n] = e]
      BY <2>3
    <3>2. calls[n].result \in Results /\ calls[n].version \in Nat
      BY <2>1 DEF Call, Results
    <3>3. e.vault = {}
      BY <2>1, <3>2, Finishing
    <3> HIDE DEF e
    <3> QED
      BY <1>4, <1>7, <3>1, <3>3
  <2>4. NoCopy.vault = {} /\ "ok" \in Results /\ "shut" \in Results /\ "failed" \in Results
    BY DEF NoCopy, Results
  <2>5. NoCopy \in [vault : SUBSET Entries, version : Nat]
    BY DEF NoCopy
  <2>6. CASE ServeLoad(n)
    <3>1. UNCHANGED <<log, cache, vault>>
      BY <2>6 DEF ServeLoad, page
    <3>2. CASE cache = None
      BY <1>3, <1>4, <2>2, <2>4, <2>5, <2>6, <3>1, <3>2 DEF ServeLoad, TextsOwned
    <3>3. CASE cache # None
      <4>1. cache \in [vault : SUBSET Entries, version : Nat]
        BY <3>3 DEF Typed, TypeOK
      <4>2. calls' = Answered(n, "ok", cache)
        BY <2>6, <3>3 DEF ServeLoad
      <4>3. \A m \in DOMAIN calls' : Owned(calls'[m].vault, calls')
        BY <1>3, <2>2, <2>4, <3>3, <4>1, <4>2
      <4> QED
        BY <1>3, <3>1, <4>3 DEF TextsOwned
    <3> QED
      BY <3>2, <3>3
  <2>7. ASSUME NEW heard \in BOOLEAN, ServeSave(n, heard)
        PROVE  TextsOwned'
    <3>1. /\ log' = Append(log, calls[n].vault)
          /\ cache' = IF heard THEN SavedCopy(n) ELSE cache
          /\ calls' = IF heard THEN Answered(n, "ok", [NoCopy EXCEPT !.version = Len(log')])
                      ELSE Answered(n, "failed", NoCopy)
          /\ vault' = vault
      BY <2>7 DEF ServeSave, page
    <3>2. calls[n].vault \in SUBSET Entries
      BY <2>1 DEF Call
    <3>3. \A v \in DOMAIN log' : Owned(log'[v], calls')
      <4>1. DOMAIN log' = DOMAIN log \cup {Len(log) + 1} /\ log'[Len(log) + 1] = calls[n].vault
        BY <1>1, <3>1, <3>2, Added
      <4>2. \A v \in DOMAIN log : log'[v] = log[v]
        BY <1>1, <3>1, <3>2, Added
      <4> QED
        BY <1>3, <4>1, <4>2
    <3>4. cache' # None => Owned(cache'.vault, calls')
      BY <1>3, <3>1 DEF SavedCopy
    <3> DEFINE copy == [NoCopy EXCEPT !.version = Len(log')]
    <3>5. copy \in [vault : SUBSET Entries, version : Nat] /\ copy.vault = {}
      BY <1>1, <3>1, <3>2 DEF NoCopy
    <3> HIDE DEF copy
    <3>6. \A m \in DOMAIN calls' : Owned(calls'[m].vault, calls')
      <4>1. CASE heard
        <5>1. calls' = Answered(n, "ok", copy)
          BY <3>1, <4>1 DEF copy
        <5> QED
          BY <1>4, <2>2, <2>4, <3>5, <5>1
      <4>2. CASE ~heard
        BY <1>4, <2>2, <2>4, <2>5, <3>1, <4>2
      <4> QED
        BY <4>1, <4>2
    <3> QED
      BY <1>3, <3>1, <3>3, <3>4, <3>6 DEF TextsOwned
  <2>8. CASE RefuseSave(n)
    <3>1. /\ calls' = Answered(n, "shut", NoCopy) \/ calls' = Answered(n, "failed", NoCopy)
          /\ UNCHANGED <<log, cache, vault>>
      BY <2>8 DEF RefuseSave, page
    <3>2. \A m \in DOMAIN calls' : Owned(calls'[m].vault, calls')
      BY <1>4, <2>2, <2>4, <2>5, <3>1
    <3> QED
      BY <1>3, <3>1, <3>2 DEF TextsOwned
  <2>9. CASE GiveUp(n)
    <3>1. /\ calls' = [calls EXCEPT ![n] = Unheard(calls[n])]
          /\ UNCHANGED <<log, cache, vault>>
      BY <2>9 DEF GiveUp, page
    <3>2. Unheard(calls[n]).vault = {} \/ Unheard(calls[n]).vault = calls[n].vault
      BY <2>1, Unhearing
    <3>3. \A m \in DOMAIN calls' : Owned(calls'[m].vault, calls')
      BY <1>3, <1>4, <1>7, <3>1, <3>2
    <3> QED
      BY <1>3, <3>1, <3>3 DEF TextsOwned
  <2>10. CASE HearLoad(n)
    <3>1. vault' = vault \/ vault' = calls[n].vault
      BY <2>10 DEF HearLoad
    <3>2. UNCHANGED <<log, cache>>
      BY <2>10 DEF HearLoad
    <3>3. \A m \in DOMAIN calls' : Owned(calls'[m].vault, calls')
      BY <2>3, <2>10 DEF HearLoad
    <3> QED
      BY <1>3, <3>1, <3>2, <3>3 DEF TextsOwned
  <2>11. CASE HearSave(n)
    BY <1>3, <2>3, <2>11 DEF HearSave, TextsOwned
  <2> QED
    BY <1>15, <2>6, <2>7, <2>8, <2>9, <2>10, <2>11 DEF CallStep
<1>16. CASE PageStep
  BY <1>3, <1>5, <1>9, <1>10, <1>11, <1>12, <1>13, <1>14, <1>16
     DEF PageStep, ShowLocked, OpenForm, HideForms, TextsOwned
<1>17. CASE UNCHANGED vars
  BY <1>3, <1>5, <1>17 DEF vars, TextsOwned
<1> QED
  BY <1>15, <1>16, <1>17 DEF Next

\* So they always are.
LEMMA AlwaysOwned == Spec => []TextsOwned
<1> QED
  BY TextsOwnedInit, TextsOwnedByStep, AlwaysTyped, PTL DEF Spec

\* -------------------------------------------------------------------------
\* The page

ToldIn(cs, n) == n \in DOMAIN cs /\ cs[n].pc = "done" /\ cs[n].result \in {"ok", "shut"}

NoneTold == \A m : ToldIn(calls', m) => ToldIn(calls, m)

\* The page stays right when it and _vault stay and the popup hears of no success.
LEMMA PageStays ==
  ASSUME RowsMatchVault, UNCHANGED <<vault, rows>>, deleted \subseteq deleted', NoneTold
  PROVE  RowsMatchVault'
<1>1. \A m : Told(m) <=> ToldIn(calls, m)
  BY DEF Told, ToldIn
<1>2. \A m : Told(m)' <=> ToldIn(calls', m)
  BY DEF Told, ToldIn
<1> QED
  BY <1>1, <1>2 DEF RowsMatchVault, NoneTold

\* A request that is made is not told to the popup by that.
LEMMA AskedUntold ==
  ASSUME calls \in Seq(Call), NEW op, NEW kind, NEW id, NEW v,
         calls' = Asking(op, kind, id, v)
  PROVE  NoneTold /\ ~ToldIn(calls', Len(calls) + 1)
<1> DEFINE e == [op |-> op, kind |-> kind, id |-> id, vault |-> v, version |-> version,
                 pc |-> "asked", waits |-> TRUE, result |-> "none"]
<1>1. calls' = Append(calls, e)
  BY DEF Asking
<1>2. e.pc = "asked"
  OBVIOUS
<1> HIDE DEF e
<1>3. /\ DOMAIN calls' = DOMAIN calls \cup {Len(calls) + 1} /\ calls'[Len(calls) + 1] = e
      /\ \A m \in DOMAIN calls : calls'[m] = calls[m]
  BY <1>1
<1> QED
  BY <1>2, <1>3 DEF NoneTold, ToldIn

\* A replaced request is told only if it was before.
LEMMA ReplacedUntold ==
  ASSUME calls \in Seq(Call), NEW n \in DOMAIN calls, NEW e, calls' = [calls EXCEPT ![n] = e],
         \/ ~(e.pc = "done" /\ e.result \in {"ok", "shut"})
         \/ e.pc = calls[n].pc /\ e.result = calls[n].result
  PROVE  NoneTold
  BY DEF NoneTold, ToldIn

\* Each step keeps rows and copy together.
LEMMA RowsMatchByStep ==
  Typed /\ TextsOwned /\ RowsMatchVault /\ [Next]_vars => RowsMatchVault'
<1> SUFFICES ASSUME Typed, TextsOwned, RowsMatchVault, [Next]_vars PROVE RowsMatchVault'
  OBVIOUS
<1>1. /\ calls \in Seq(Call) /\ version \in Nat
      /\ Len(calls) \in Nat /\ DOMAIN calls = 1..Len(calls)
      /\ rows \in SUBSET Entries /\ form \in Forms
      /\ vault \in (SUBSET Entries) \cup {None}
  BY DEF Typed, TypeOK
<1>2. ASSUME calls' = calls
      PROVE  NoneTold
  BY <1>2 DEF NoneTold
<1>3. \A m : Told(m) <=> ToldIn(calls, m)
  BY DEF Told, ToldIn
<1>4. \A m : Told(m)' <=> ToldIn(calls', m)
  BY DEF Told, ToldIn
<1>5. ASSUME AskLoad
      PROVE  NoneTold
  BY <1>1, <1>5, AskedUntold DEF AskLoad
<1>6. CASE OpenPopup
  BY <1>2, <1>5, <1>6, PageStays DEF OpenPopup
<1>7. CASE ClosePopup
  BY <1>7 DEF ClosePopup, RowsMatchVault
<1>8. CASE UnlockComplete
  BY <1>2, <1>5, <1>8, PageStays DEF UnlockComplete
<1>9. CASE \/ VaultLocked \/ WorkerStops \/ ShowLocked \/ HideForms
           \/ \E k \in Kinds : \E id \in {0} \cup IdsOf(rows) : OpenForm(k, id)
  BY <1>2, <1>9, PageStays DEF VaultLocked, WorkerStops, page, ShowLocked, HideForms, OpenForm
<1>10. CASE PressSave
  <2> DEFINE n == Len(calls) + 1
  <2>1. /\ vault # None
        /\ vault' = Edited(form.kind, form.id, n)
        /\ NoneTold /\ ~ToldIn(calls', n)
        /\ UNCHANGED <<rows, deleted>>
    BY <1>1, <1>10, AskedUntold DEF PressSave, Usable
  <2>2. \A x \in vault : \E y \in vault' : y.id = x.id
    <3>1. ASSUME NEW x \in vault, form.id # 0
          PROVE  \E y \in vault' : y.id = x.id
      <4>1. (IF x.kind = form.kind /\ x.id = form.id THEN [x EXCEPT !.text = n] ELSE x) \in vault'
        BY <2>1, <3>1 DEF Edited
      <4>2. x \in Entries /\ [x EXCEPT !.text = n].id = x.id
        BY <1>1, <2>1 DEF Entries
      <4> QED
        BY <4>1, <4>2
    <3>2. ASSUME NEW x \in vault, form.id = 0
          PROVE  \E y \in vault' : y.id = x.id
      BY <2>1, <3>2 DEF Edited
    <3> QED
      BY <3>1, <3>2
  <2>3. ASSUME NEW x \in vault'
        PROVE  x \in vault \/ x.text = n
    <3>1. CASE form.id = 0
      BY <2>1, <2>3, <3>1 DEF Edited
    <3>2. CASE form.id # 0
      <4>1. PICK y \in vault : x = IF y.kind = form.kind /\ y.id = form.id
                                   THEN [y EXCEPT !.text = n] ELSE y
        BY <2>1, <3>2 DEF Edited
      <4>2. y \in Entries
        BY <1>1, <2>1
      <4> QED
        BY <4>1, <4>2 DEF Entries
    <3> QED
      BY <3>1, <3>2
  <2>4. \A x \in vault' : x \in rows' \/ (x.text # 0 /\ ~Told(x.text)')
    <3>1. n # 0
      BY <1>1
    <3> QED
      BY <1>3, <1>4, <2>1, <2>3, <3>1 DEF RowsMatchVault, NoneTold
  <2>5. \A r \in rows' : r.id \in IdsOf(vault') \cup deleted'
    BY <2>1, <2>2 DEF RowsMatchVault, IdsOf
  <2> QED
    BY <2>4, <2>5 DEF RowsMatchVault
<1>11. ASSUME NEW row \in rows, Delete(row)
       PROVE  RowsMatchVault'
  <2>1. /\ vault # None
        /\ vault' = Without(row.kind, row.id) /\ deleted' = deleted \cup {row.id}
        /\ NoneTold /\ rows' = rows
    BY <1>1, <1>11, AskedUntold DEF Delete, Usable
  <2>2. \A x \in vault' : x \in rows' \/ (x.text # 0 /\ ~Told(x.text)')
    BY <1>3, <1>4, <2>1 DEF RowsMatchVault, NoneTold, Without
  <2>3. \A r \in rows' : r.id \in IdsOf(vault') \cup deleted'
    BY <2>1 DEF RowsMatchVault, Without, IdsOf
  <2> QED
    BY <2>2, <2>3 DEF RowsMatchVault
<1>12. ASSUME NEW n \in DOMAIN calls, CallStep(n)
       PROVE  RowsMatchVault'
  <2>1. calls[n] \in Call
    BY <1>1
  <2>2. ASSUME NEW result \in Results, NEW copy \in [vault : SUBSET Entries, version : Nat],
               calls' = Answered(n, result, copy)
        PROVE  NoneTold
    <3>1. PICK e \in Call :
              /\ Answered(n, result, copy) = [calls EXCEPT ![n] = e]
              /\ ~(e.pc = "done" /\ e.result \in {"ok", "shut"})
      BY <1>1, <2>2, Answering
    <3>2. calls' = [calls EXCEPT ![n] = e]
      BY <2>2, <3>1
    <3> QED
      BY <1>1, <3>1, <3>2, ReplacedUntold
  <2>3. "ok" \in Results /\ "shut" \in Results /\ "failed" \in Results
    BY DEF Results
  <2>4. NoCopy \in [vault : SUBSET Entries, version : Nat]
    BY DEF NoCopy
  <2>5. calls[n].result \in Results /\ calls[n].version \in Nat
    BY <2>1 DEF Call, Results
  <2> DEFINE e == Finished(calls[n], calls[n].result, calls[n].version)
  <2>6. e.pc = "done" /\ e.result = calls[n].result
    BY <2>1, <2>5, Finishing
  <2>7. ASSUME calls' = [calls EXCEPT ![n] = Finished(@, @.result, @.version)]
        PROVE  calls' = [calls EXCEPT ![n] = e]
    BY <2>7
  <2> HIDE DEF e
  <2>8. ASSUME calls' = [calls EXCEPT ![n] = e]
        PROVE  \A m : m # n /\ ToldIn(calls', m) => ToldIn(calls, m)
    BY <1>1, <2>8 DEF ToldIn
  <2>9. CASE ServeLoad(n)
    <3>1. UNCHANGED <<vault, rows, deleted>>
      BY <2>9 DEF ServeLoad, page
    <3>2. NoneTold
      <4>1. CASE cache = None
        BY <2>2, <2>3, <2>4, <2>9, <4>1 DEF ServeLoad
      <4>2. CASE cache # None
        <5>1. cache \in [vault : SUBSET Entries, version : Nat]
          BY <4>2 DEF Typed, TypeOK
        <5> QED
          BY <2>2, <2>3, <2>9, <4>2, <5>1 DEF ServeLoad
      <4> QED
        BY <4>1, <4>2
    <3> QED
      BY <3>1, <3>2, PageStays
  <2>10. ASSUME NEW heard \in BOOLEAN, ServeSave(n, heard)
         PROVE  RowsMatchVault'
    <3> DEFINE copy == [NoCopy EXCEPT !.version = Len(log')]
    <3>1. /\ calls' = IF heard THEN Answered(n, "ok", copy) ELSE Answered(n, "failed", NoCopy)
          /\ log' = Append(log, calls[n].vault)
          /\ UNCHANGED <<vault, rows, deleted>>
      BY <2>10 DEF ServeSave, page
    <3>2. copy \in [vault : SUBSET Entries, version : Nat]
      <4>1. log \in Seq(SUBSET Entries) /\ calls[n].vault \in SUBSET Entries
        BY <2>1 DEF Typed, TypeOK, Call
      <4>2. Len(log') \in Nat
        BY <3>1, <4>1
      <4> QED
        BY <2>4, <4>2
    <3> HIDE DEF copy
    <3>3. NoneTold
      BY <2>2, <2>3, <2>4, <3>1, <3>2
    <3> QED
      BY <3>1, <3>3, PageStays
  <2>11. CASE RefuseSave(n)
    <3>1. /\ calls' = Answered(n, "shut", NoCopy) \/ calls' = Answered(n, "failed", NoCopy)
          /\ UNCHANGED <<vault, rows, deleted>>
      BY <2>11 DEF RefuseSave, page
    <3>2. NoneTold
      BY <2>2, <2>3, <2>4, <3>1
    <3> QED
      BY <3>1, <3>2, PageStays
  <2>12. CASE GiveUp(n)
    <3>1. /\ calls' = [calls EXCEPT ![n] = Unheard(calls[n])]
          /\ UNCHANGED <<vault, rows, deleted>>
      BY <2>12 DEF GiveUp, page
    <3>2. \/ Unheard(calls[n]).result = "failed"
          \/ Unheard(calls[n]).pc = calls[n].pc /\ Unheard(calls[n]).result = calls[n].result
      BY <2>1, Unhearing
    <3>3. NoneTold
      BY <1>1, <3>1, <3>2, ReplacedUntold
    <3> QED
      BY <3>1, <3>3, PageStays
  <2>13. CASE HearLoad(n)
    <3>1. calls' = [calls EXCEPT ![n] = e] /\ calls[n].op = "load" /\ deleted' = deleted
      BY <2>7, <2>13 DEF HearLoad
    <3>2. CASE calls[n].result = "ok"
      <4>1. /\ vault' = calls[n].vault
            /\ rows' = Drawn("totps", Drawn("credentials", rows, vault'), vault')
        BY <2>13, <3>2 DEF HearLoad
      <4>2. vault' \in SUBSET Entries
        BY <2>1, <4>1 DEF Call
      <4>3. rows' = vault'
        BY <1>1, <4>1, <4>2, DrawnAnew
      <4> QED
        BY <4>3 DEF RowsMatchVault, IdsOf
    <3>3. CASE calls[n].result # "ok"
      <4>1. UNCHANGED <<vault, rows>>
        BY <2>13, <3>3 DEF HearLoad
      <4>2. ASSUME vault # None, NEW x \in vault
            PROVE  x \in rows \/ (x.text # 0 /\ ~ToldIn(calls', x.text))
        <5>1. x \in rows \/ (x.text # 0 /\ ~ToldIn(calls, x.text))
          BY <1>3, <4>2 DEF RowsMatchVault
        <5>2. x.text = 0 \/ x.text # n
          BY <3>1, <4>2 DEF TextsOwned, Owned
        <5> QED
          BY <2>8, <3>1, <5>1, <5>2
      <4> QED
        BY <1>4, <3>1, <4>1, <4>2 DEF RowsMatchVault
    <3> QED
      BY <3>2, <3>3
  <2>14. CASE HearSave(n)
    <3>1. calls' = [calls EXCEPT ![n] = e] /\ UNCHANGED <<vault, deleted>>
      BY <2>7, <2>14 DEF HearSave
    <3>2. CASE calls[n].result = "failed"
      <4>1. NoneTold
        BY <1>1, <2>6, <3>1, <3>2, ReplacedUntold
      <4>2. rows' = rows
        BY <2>14, <3>2 DEF HearSave
      <4> QED
        BY <3>1, <4>1, <4>2, PageStays
    <3>3. CASE calls[n].result # "failed"
      <4>1. rows' = Drawn(calls[n].kind, rows, vault)
        BY <2>14, <3>3 DEF HearSave
      <4>2. ASSUME vault # None, NEW x \in vault
            PROVE  x \in rows' \/ (x.text # 0 /\ ~ToldIn(calls', x.text))
        <5>1. CASE x.kind = calls[n].kind
          BY <4>1, <4>2, <5>1 DEF Drawn, OfKind
        <5>2. CASE x.kind # calls[n].kind
          <6>1. x \in rows \/ (x.text # 0 /\ ~ToldIn(calls, x.text))
            BY <1>3, <4>2 DEF RowsMatchVault
          <6>2. x.text = 0 \/ x.text # n
            BY <4>2, <5>2 DEF TextsOwned, Owned
          <6>3. x \in rows => x \in rows'
            BY <4>1, <5>2 DEF Drawn, OfKind
          <6> QED
            BY <2>8, <3>1, <6>1, <6>2, <6>3
        <5> QED
          BY <5>1, <5>2
      <4>3. ASSUME vault # None, NEW r \in rows'
            PROVE  r.id \in IdsOf(vault) \cup deleted
        <5>1. r \in rows \/ r \in vault
          BY <4>1, <4>3 DEF Drawn, OfKind
        <5> QED
          BY <4>3, <5>1 DEF RowsMatchVault, IdsOf
      <4> QED
        BY <1>4, <3>1, <4>2, <4>3 DEF RowsMatchVault
    <3> QED
      BY <3>2, <3>3
  <2> QED
    BY <1>12, <2>9, <2>10, <2>11, <2>12, <2>13, <2>14 DEF CallStep
<1>13. CASE PageStep
  BY <1>6, <1>7, <1>8, <1>9, <1>10, <1>11, <1>13 DEF PageStep
<1>14. CASE UNCHANGED vars
  BY <1>2, <1>14, PageStays DEF vars
<1> QED
  BY <1>12, <1>13, <1>14 DEF Next

\* The page shows _vault but for what is under way, failed or deleted: no answer, early, late
\* or lost, leaves a row of an entry that is gone, or hides what the popup took as saved.
THEOREM PageMatches == Spec => []RowsMatchVault
<1>1. Init => RowsMatchVault
  BY DEF Init, RowsMatchVault
<1> QED
  BY <1>1, AlwaysTyped, AlwaysOwned, RowsMatchByStep, PTL DEF Spec

\* -------------------------------------------------------------------------
\* The relay's row

\* Every entry of old, but those of the ids, is in new, with that text or a later one.
KeepsBut(ids, old, new) ==
    \A x \in old :
        \/ x.id \in ids
        \/ \E y \in new : y.kind = x.kind /\ y.id = x.id /\ y.text >= x.text

\* A vault keeps itself,
LEMMA KeepsItself ==
  ASSUME NEW ids, NEW old \in SUBSET Entries
  PROVE  KeepsBut(ids, old, old)
<1>1. \A x \in old : x.text \in Nat
  BY DEF Entries
<1> QED
  BY <1>1 DEF KeepsBut

\* keeping is transitive, with more ids excused,
LEMMA KeepsOn ==
  ASSUME NEW ids, NEW ids2, ids \subseteq ids2, NEW old \in SUBSET Entries,
         NEW mid \in SUBSET Entries, NEW new \in SUBSET Entries,
         KeepsBut(ids, old, mid), KeepsBut(ids2, mid, new)
  PROVE  KeepsBut(ids2, old, new)
<1> SUFFICES ASSUME NEW x \in old, x.id \notin ids2
             PROVE  \E y \in new : y.kind = x.kind /\ y.id = x.id /\ y.text >= x.text
  BY DEF KeepsBut
<1>1. PICK y \in mid : y.kind = x.kind /\ y.id = x.id /\ y.text >= x.text
  BY DEF KeepsBut
<1>2. PICK z \in new : z.kind = y.kind /\ z.id = y.id /\ z.text >= y.text
  BY <1>1 DEF KeepsBut
<1>3. x.text \in Nat /\ y.text \in Nat /\ z.text \in Nat
  BY DEF Entries
<1> QED
  BY <1>1, <1>2, <1>3

\* and excusing more ids keeps it.
LEMMA KeepsMore ==
  ASSUME NEW ids, NEW ids2, ids \subseteq ids2, NEW old, NEW new, KeepsBut(ids, old, new)
  PROVE  KeepsBut(ids2, old, new)
  BY DEF KeepsBut

\* What a request says of the relay's row and of the popup's copy.
CallKeeps(call, ids, story, copy) ==
    /\ call.pc = "answered" => call.result # "none"
    /\ call.op = "load" /\ call.pc = "answered" /\ call.result = "ok" =>
           call.version >= 1 /\ call.vault = story[call.version]
    /\ call.op # "load" /\ call.pc = "asked" =>
           /\ call.version >= 1 => KeepsBut(ids, story[call.version], call.vault)
           /\ call.waits => KeepsBut(ids, call.vault, copy)
    /\ call.op # "load" /\ call.pc = "answered" /\ call.result = "ok" =>
           call.version >= 1 /\ KeepsBut(ids, story[call.version], copy)

Excused == deleted \cup overtaken

\* StoredEntriesSurvive, with what the popup's copy, the worker's copy and the requests
\* under way keep of the relay's row: every save that can still be taken keeps the last row.
Surviving ==
    /\ \A v, w \in DOMAIN log : v <= w => KeepsBut(Excused, log[v], log[w])
    /\ cache # None => cache.vault = log[cache.version]
    /\ vault # None /\ version >= 1 => KeepsBut(Excused, log[version], vault)
    /\ \A n \in DOMAIN calls : CallKeeps(calls[n], Excused, log, vault)

\* A request keeps what it says when the relay takes a vault, when ids are excused, and when
\* the popup's copy changes without losing an entry that is not excused.
LEMMA CallKeepsOn ==
  ASSUME NEW call \in Call, NEW ids, NEW ids2, ids \subseteq ids2,
         NEW story \in Seq(SUBSET Entries), NEW story2 \in Seq(SUBSET Entries),
         Len(story) <= Len(story2), \A v \in DOMAIN story : story2[v] = story[v],
         NEW copy, NEW copy2,
         CallTyped(call, Len(story), copy), CallKeeps(call, ids, story, copy),
         call.op # "load" /\ call.waits =>
            copy2 \in SUBSET Entries /\ KeepsBut(ids2, copy, copy2)
  PROVE  CallKeeps(call, ids2, story2, copy2)
<1>1. call.version \in Nat /\ call.version <= Len(story) /\ call.vault \in SUBSET Entries
  BY DEF Call, CallTyped
<1>2. call.version >= 1 => /\ story2[call.version] = story[call.version]
                           /\ story[call.version] \in SUBSET Entries
  BY <1>1
<1>3. call.op # "load" /\ call.waits => copy \in SUBSET Entries
  BY DEF CallTyped
<1>4. call.pc = "answered" => call.result # "none" /\ call.waits
  BY DEF CallKeeps, CallTyped
<1>5. call.op = "load" /\ call.pc = "answered" /\ call.result = "ok" =>
         call.version >= 1 /\ call.vault = story2[call.version]
  BY <1>2 DEF CallKeeps
<1>6. ASSUME call.op # "load", call.pc = "asked", call.version >= 1
      PROVE  KeepsBut(ids2, story2[call.version], call.vault)
  BY <1>2, <1>6, KeepsMore DEF CallKeeps
<1>7. ASSUME call.op # "load", call.pc = "asked", call.waits
      PROVE  KeepsBut(ids2, call.vault, copy2)
  <2>1. KeepsBut(ids, call.vault, copy) /\ KeepsBut(ids2, copy, copy2)
    BY <1>7 DEF CallKeeps
  <2> QED
    BY <1>1, <1>3, <1>7, <2>1, KeepsOn
<1>8. ASSUME call.op # "load", call.pc = "answered", call.result = "ok"
      PROVE  call.version >= 1 /\ KeepsBut(ids2, story2[call.version], copy2)
  <2>1. call.version >= 1 /\ KeepsBut(ids, story[call.version], copy)
    BY <1>8 DEF CallKeeps
  <2>2. copy2 \in SUBSET Entries /\ KeepsBut(ids2, copy, copy2)
    BY <1>4, <1>8
  <2> QED
    BY <1>2, <1>3, <1>4, <1>8, <2>1, <2>2, KeepsOn
<1> QED
  BY <1>4, <1>5, <1>6, <1>7, <1>8 DEF CallKeeps

\* So do all requests made so far.
LEMMA CallsKeepOn ==
  ASSUME Typed, Surviving, Excused \subseteq Excused',
         log' \in Seq(SUBSET Entries), Len(log) <= Len(log'),
         \A v \in DOMAIN log : log'[v] = log[v],
         \A n \in DOMAIN calls : calls[n].op # "load" /\ calls[n].waits =>
            vault' \in SUBSET Entries /\ KeepsBut(Excused', vault, vault')
  PROVE  \A n \in DOMAIN calls : CallKeeps(calls[n], Excused', log', vault')
<1> SUFFICES ASSUME NEW n \in DOMAIN calls
             PROVE  CallKeeps(calls[n], Excused', log', vault')
  OBVIOUS
<1>1. /\ calls[n] \in Call /\ log \in Seq(SUBSET Entries)
      /\ CallTyped(calls[n], Len(log), vault) /\ CallKeeps(calls[n], Excused, log, vault)
  BY DEF Typed, TypeOK, CallsTyped, Surviving
<1>2. /\ Excused \subseteq Excused' /\ Len(log) <= Len(log')
      /\ \A v \in DOMAIN log : log'[v] = log[v]
      /\ calls[n].op # "load" /\ calls[n].waits =>
            vault' \in SUBSET Entries /\ KeepsBut(Excused', vault, vault')
  OBVIOUS
<1> HIDE DEF Excused
<1> QED
  BY <1>1, <1>2, CallKeepsOn

\* In particular when neither the popup's copy nor the relay's row changes.
LEMMA CallsKeep ==
  ASSUME Typed, Surviving, UNCHANGED <<log, vault, deleted, overtaken>>
  PROVE  \A n \in DOMAIN calls : CallKeeps(calls[n], Excused', log', vault')
  BY DEF Surviving, Excused

\* A request that ended, or that only goes on, says nothing new.
LEMMA EndedKeeps ==
  ASSUME NEW call, call.pc = "done", NEW ids, NEW story, NEW copy
  PROVE  CallKeeps(call, ids, story, copy)
  BY DEF CallKeeps

\* So does one that the popup no longer waits for.
LEMMA UnheardKeeps ==
  ASSUME NEW call \in Call, NEW ids, NEW story, NEW copy, NEW copy2,
         CallKeeps(call, ids, story, copy)
  PROVE  CallKeeps(Unheard(call), ids, story, copy2)
<1>1. CASE call.pc = "answered"
  BY <1>1, Unhearing, EndedKeeps
<1>2. CASE call.pc # "answered"
  <2>1. /\ Unheard(call).op = call.op /\ Unheard(call).pc = call.pc /\ ~Unheard(call).waits
        /\ Unheard(call).vault = call.vault /\ Unheard(call).version = call.version
    BY <1>2, Unhearing
  <2> QED
    BY <1>2, <2>1 DEF CallKeeps
<1> QED
  BY <1>1, <1>2

\* One request is replaced.
LEMMA ReplacedKeeps ==
  ASSUME calls \in Seq(Call), NEW n \in DOMAIN calls, NEW e, calls' = [calls EXCEPT ![n] = e],
         CallKeeps(e, Excused', log', vault'),
         \A m \in DOMAIN calls : CallKeeps(calls[m], Excused', log', vault')
  PROVE  \A m \in DOMAIN calls' : CallKeeps(calls'[m], Excused', log', vault')
<1>1. /\ DOMAIN calls' = DOMAIN calls /\ calls'[n] = e
      /\ \A m \in DOMAIN calls : m # n => calls'[m] = calls[m]
  OBVIOUS
<1> QED
  BY <1>1

\* One request is made.
LEMMA MadeKeeps ==
  ASSUME calls \in Seq(Call), NEW op, NEW kind, NEW id, NEW v,
         calls' = Asking(op, kind, id, v),
         op # "load" => /\ version >= 1 => KeepsBut(Excused', log'[version], v)
                        /\ KeepsBut(Excused', v, vault'),
         \A m \in DOMAIN calls : CallKeeps(calls[m], Excused', log', vault')
  PROVE  \A m \in DOMAIN calls' : CallKeeps(calls'[m], Excused', log', vault')
<1> DEFINE e == [op |-> op, kind |-> kind, id |-> id, vault |-> v, version |-> version,
                 pc |-> "asked", waits |-> TRUE, result |-> "none"]
<1>1. calls' = Append(calls, e)
  BY DEF Asking
<1>2. CallKeeps(e, Excused', log', vault')
  <2>1. e.op = op /\ e.vault = v /\ e.version = version /\ e.pc = "asked"
    OBVIOUS
  <2> HIDE DEF e
  <2> QED
    BY <2>1 DEF CallKeeps
<1> HIDE DEF e
<1>3. /\ DOMAIN calls' = DOMAIN calls \cup {Len(calls) + 1} /\ calls'[Len(calls) + 1] = e
      /\ \A m \in DOMAIN calls : calls'[m] = calls[m]
  BY <1>1
<1> QED
  BY <1>2, <1>3

\* In the beginning there is one vault.
LEMMA SurvivingInit == Init => Surviving
<1> SUFFICES ASSUME Init PROVE Surviving
  OBVIOUS
<1>1. log = <<Initial>> /\ calls = <<>> /\ cache = None /\ vault = None
  BY DEF Init
<1>2. Initial \in SUBSET Entries
  BY InitialAssumption
<1>3. KeepsBut(Excused, Initial, Initial)
  BY <1>2, KeepsItself
<1> QED
  BY <1>1, <1>3 DEF Surviving

\* The steps of the page.
LEMMA PageSurvives == Typed /\ TextsOwned /\ Surviving /\ PageStep => Surviving'
<1> SUFFICES ASSUME Typed, TextsOwned, Surviving, PageStep PROVE Surviving'
  OBVIOUS
<1>1. /\ calls \in Seq(Call) /\ log \in Seq(SUBSET Entries) /\ version \in Nat
      /\ Len(log) \in Nat /\ Len(log) > 0 /\ DOMAIN log = 1..Len(log)
      /\ Len(calls) \in Nat /\ DOMAIN calls = 1..Len(calls)
      /\ rows \in SUBSET Entries /\ form \in Forms
      /\ vault \in (SUBSET Entries) \cup {None} /\ version <= Len(log)
  BY DEF Typed, TypeOK
<1>2. /\ \A v, w \in DOMAIN log : v <= w => KeepsBut(Excused, log[v], log[w])
      /\ cache # None => cache.vault = log[cache.version]
      /\ vault # None /\ version >= 1 => KeepsBut(Excused, log[version], vault)
      /\ \A n \in DOMAIN calls : CallKeeps(calls[n], Excused, log, vault)
  BY DEF Surviving
<1>3. ASSUME UNCHANGED <<log, vault, version, deleted, overtaken>>, calls' = calls \/ AskLoad,
             cache' \in {cache, None, Latest}
      PROVE  Surviving'
  <2>1. \A n \in DOMAIN calls : CallKeeps(calls[n], Excused', log', vault')
    BY <1>3, CallsKeep
  <2>2. \A n \in DOMAIN calls' : CallKeeps(calls'[n], Excused', log', vault')
    <3>1. CASE calls' = calls
      BY <2>1, <3>1
    <3>2. CASE AskLoad
      BY <1>1, <2>1, <3>2, MadeKeeps DEF AskLoad
    <3> QED
      BY <1>3, <3>1, <3>2
  <2>3. cache' # None => cache'.vault = log[cache'.version]
    BY <1>2, <1>3 DEF Latest
  <2>4. Excused' = Excused
    BY <1>3 DEF Excused
  <2> QED
    BY <1>2, <1>3, <2>2, <2>3, <2>4 DEF Surviving
<1>4. CASE ClosePopup
  <2>1. /\ calls' = [n \in DOMAIN calls |-> Unheard(calls[n])]
        /\ UNCHANGED <<log, cache, deleted, overtaken>> /\ vault' = None
    BY <1>4 DEF ClosePopup
  <2>2. Excused' = Excused
    BY <2>1 DEF Excused
  <2>3. ASSUME NEW n \in DOMAIN calls
        PROVE  CallKeeps(Unheard(calls[n]), Excused, log, vault')
    <3>1. calls[n] \in Call /\ CallKeeps(calls[n], Excused, log, vault)
      BY <1>1, <1>2
    <3> QED
      BY <3>1, UnheardKeeps
  <2>4. \A n \in DOMAIN calls' : CallKeeps(calls'[n], Excused', log', vault')
    BY <2>1, <2>2, <2>3
  <2> QED
    BY <1>2, <2>1, <2>2, <2>4 DEF Surviving
<1>5. ASSUME vault # None, vault' \in SUBSET Entries, Excused \subseteq Excused',
             KeepsBut(Excused', vault, vault'), UNCHANGED <<log, cache, version>>,
             NEW op, op # "load", NEW kind, NEW id, calls' = Asking(op, kind, id, vault')
      PROVE  Surviving'
  <2>0. /\ Excused \subseteq Excused' /\ KeepsBut(Excused', vault, vault')
        /\ UNCHANGED <<log, cache, version>> /\ vault' \in SUBSET Entries
        /\ vault \in SUBSET Entries /\ op # "load" /\ calls' = Asking(op, kind, id, vault')
    BY <1>1, <1>5
  <2>1. \A n \in DOMAIN calls : CallKeeps(calls[n], Excused', log', vault')
    BY <1>1, <2>0, CallsKeepOn
  <2>2. version >= 1 => KeepsBut(Excused', log[version], vault')
    <3>1. ASSUME version >= 1
          PROVE  log[version] \in SUBSET Entries /\ KeepsBut(Excused, log[version], vault)
      BY <1>1, <1>2, <1>5, <3>1
    <3> HIDE DEF Excused
    <3> QED
      BY <2>0, <3>1, KeepsOn
  <2>3. KeepsBut(Excused', vault', vault')
    BY <2>0, KeepsItself
  <2>4. \A n \in DOMAIN calls' : CallKeeps(calls'[n], Excused', log', vault')
    BY <1>1, <2>0, <2>1, <2>2, <2>3, MadeKeeps
  <2>5. \A v, w \in DOMAIN log : v <= w => KeepsBut(Excused', log[v], log[w])
    BY <1>2, <2>0, KeepsMore
  <2> QED
    BY <1>2, <2>0, <2>2, <2>4, <2>5 DEF Surviving
<1>6. CASE PressSave
  <2> DEFINE n == Len(calls) + 1
             op == IF form.id = 0 THEN "add" ELSE "edit"
             id == IF form.id = 0 THEN n ELSE form.id
  <2>1. /\ vault # None /\ form # NoForm
        /\ vault' = Edited(form.kind, form.id, n)
        /\ calls' = Asking(op, form.kind, id, vault')
        /\ UNCHANGED <<log, cache, version, deleted, overtaken>>
    BY <1>6 DEF PressSave, Usable
  <2>2. op # "load" /\ n \in Nat
    BY <1>1
  <2> HIDE DEF op, id
  <2>3. vault \in SUBSET Entries /\ form.kind \in Kinds /\ form.id \in Nat
    BY <1>1, <2>1 DEF Forms
  <2>4. \A x \in vault : x.text \in Nat /\ x.text <= n
    <3>1. \A x \in vault : x.text = 0 \/ x.text \in DOMAIN calls
      BY <2>1 DEF TextsOwned, Owned
    <3> QED
      BY <1>1, <2>2, <3>1
  <2>5. vault' \in SUBSET Entries
    <3>1. [kind |-> form.kind, id |-> n, text |-> n] \in Entries
      BY <2>2, <2>3 DEF Entries
    <3>2. \A x \in vault : [x EXCEPT !.text = n] \in Entries
      BY <2>2, <2>3 DEF Entries
    <3> QED
      BY <2>1, <2>3, <3>1, <3>2 DEF Edited
  <2>6. ASSUME NEW x \in vault
        PROVE  \E y \in vault' : y.kind = x.kind /\ y.id = x.id /\ y.text >= x.text
    <3>1. CASE form.id = 0
      <4>1. x \in vault'
        BY <2>1, <3>1 DEF Edited
      <4> QED
        BY <2>4, <4>1
    <3>2. CASE form.id # 0
      <4>1. (IF x.kind = form.kind /\ x.id = form.id THEN [x EXCEPT !.text = n] ELSE x) \in vault'
        BY <2>1, <3>2 DEF Edited
      <4>2. CASE x.kind = form.kind /\ x.id = form.id
        <5> DEFINE y == [x EXCEPT !.text = n]
        <5>1. x \in Entries
          BY <2>3
        <5>2. y.kind = x.kind /\ y.id = x.id /\ y.text = n
          BY <5>1 DEF Entries
        <5>3. y \in vault'
          BY <4>1, <4>2
        <5> HIDE DEF y
        <5>4. x.text \in Nat /\ x.text <= n
          BY <2>4
        <5> QED
          BY <2>2, <5>2, <5>3, <5>4
      <4>3. CASE ~(x.kind = form.kind /\ x.id = form.id)
        BY <2>4, <4>1, <4>3
      <4> QED
        BY <4>2, <4>3
    <3> QED
      BY <3>1, <3>2
  <2>7. KeepsBut(Excused', vault, vault')
    BY <2>6 DEF KeepsBut
  <2>8. Excused \subseteq Excused'
    BY <2>1 DEF Excused
  <2> QED
    BY <1>5, <2>1, <2>2, <2>5, <2>7, <2>8
<1>7. ASSUME NEW row \in rows, Delete(row)
      PROVE  Surviving'
  <2>1. /\ vault # None
        /\ vault' = Without(row.kind, row.id) /\ deleted' = deleted \cup {row.id}
        /\ calls' = Asking("delete", row.kind, row.id, vault')
        /\ UNCHANGED <<log, cache, version, overtaken>>
    BY <1>7 DEF Delete, Usable
  <2>2. vault \in SUBSET Entries /\ vault' \in SUBSET Entries
    BY <1>1, <2>1 DEF Without
  <2>3. Excused \subseteq Excused' /\ row.id \in Excused'
    BY <2>1 DEF Excused
  <2>4. \A x \in vault : x.text \in Nat
    BY <2>2 DEF Entries
  <2>5. KeepsBut(Excused', vault, vault')
    BY <2>1, <2>3, <2>4 DEF Without, KeepsBut
  <2> QED
    BY <1>5, <2>1, <2>2, <2>3, <2>5
<1>8. CASE OpenPopup
  BY <1>3, <1>8 DEF OpenPopup
<1>9. CASE UnlockComplete
  BY <1>3, <1>9 DEF UnlockComplete
<1>10. CASE VaultLocked \/ WorkerStops \/ ShowLocked
  BY <1>3, <1>10 DEF VaultLocked, WorkerStops, page, ShowLocked
<1>11. CASE \/ HideForms
            \/ \E k \in Kinds : \E id \in {0} \cup IdsOf(rows) : OpenForm(k, id)
  BY <1>3, <1>11 DEF HideForms, OpenForm
<1> QED
  BY <1>4, <1>6, <1>7, <1>8, <1>9, <1>10, <1>11 DEF PageStep

\* The steps of a request.
LEMMA CallSurvives ==
  ASSUME Typed, Surviving, NEW n \in DOMAIN calls, CallStep(n)
  PROVE  Surviving'
<1>1. /\ calls \in Seq(Call) /\ log \in Seq(SUBSET Entries) /\ version \in Nat
      /\ Len(log) \in Nat /\ Len(log) > 0 /\ DOMAIN log = 1..Len(log)
      /\ cache \in [vault : SUBSET Entries, version : 1..Len(log)] \cup {None}
      /\ calls[n] \in Call /\ CallTyped(calls[n], Len(log), vault)
  BY DEF Typed, TypeOK, CallsTyped
<1>2. /\ \A v, w \in DOMAIN log : v <= w => KeepsBut(Excused, log[v], log[w])
      /\ cache # None => cache.vault = log[cache.version]
      /\ vault # None /\ version >= 1 => KeepsBut(Excused, log[version], vault)
      /\ \A m \in DOMAIN calls : CallKeeps(calls[m], Excused, log, vault)
  BY DEF Surviving
<1>3. /\ calls[n].vault \in SUBSET Entries /\ calls[n].version \in Nat
      /\ calls[n].version <= Len(log) /\ calls[n].result \in Results
      /\ calls[n].waits \in BOOLEAN
  BY <1>1 DEF Call, CallTyped, Results
<1>4. "ok" \in Results /\ "shut" \in Results /\ "failed" \in Results
  BY DEF Results
<1>5. NoCopy \in [vault : SUBSET Entries, version : Nat]
  BY DEF NoCopy
<1>6. ASSUME UNCHANGED <<log, cache, vault, version, deleted, overtaken>>,
             NEW e, calls' = [calls EXCEPT ![n] = e], CallKeeps(e, Excused, log, vault)
      PROVE  Surviving'
  <2>1. Excused' = Excused
    BY <1>6 DEF Excused
  <2>2. \A m \in DOMAIN calls : CallKeeps(calls[m], Excused', log', vault')
    BY <1>6, CallsKeep
  <2>3. \A m \in DOMAIN calls' : CallKeeps(calls'[m], Excused', log', vault')
    BY <1>1, <1>6, <2>1, <2>2, ReplacedKeeps
  <2> QED
    BY <1>2, <1>6, <2>1, <2>3 DEF Surviving
<1>7. ASSUME UNCHANGED <<log, cache, vault, version, deleted, overtaken>>,
             NEW result \in Results, result # "none",
             NEW copy \in [vault : SUBSET Entries, version : Nat],
             calls' = Answered(n, result, copy),
             result = "ok" => /\ calls[n].op = "load" /\ copy.version >= 1
                              /\ copy.vault = log[copy.version]
      PROVE  Surviving'
  <2>1. PICK e \in Call :
            /\ Answered(n, result, copy) = [calls EXCEPT ![n] = e] /\ e.op = calls[n].op
            /\ calls[n].waits =>
                   /\ e.pc = "answered" /\ e.result = result
                   /\ e.vault = copy.vault /\ e.version = copy.version
            /\ ~calls[n].waits => e.pc = "done"
    BY <1>1, Answering
  <2>2. CallKeeps(e, Excused, log, vault)
    BY <1>7, <2>1 DEF CallKeeps
  <2>3. calls' = [calls EXCEPT ![n] = e]
    BY <1>7, <2>1
  <2> QED
    BY <1>6, <1>7, <2>2, <2>3
<1>8. CASE ServeLoad(n)
  <2>1. calls[n].op = "load" /\ UNCHANGED <<log, cache, vault, version, deleted, overtaken>>
    BY <1>8 DEF ServeLoad, page
  <2>2. CASE cache = None
    <3>1. calls' = Answered(n, "shut", NoCopy)
      BY <1>8, <2>2 DEF ServeLoad
    <3> QED
      BY <1>4, <1>5, <1>7, <2>1, <3>1
  <2>3. CASE cache # None
    <3>1. calls' = Answered(n, "ok", cache)
      BY <1>8, <2>3 DEF ServeLoad
    <3>2. /\ cache \in [vault : SUBSET Entries, version : Nat] /\ cache.version >= 1
          /\ cache.vault = log[cache.version]
      BY <1>1, <1>2, <2>3
    <3> QED
      BY <1>4, <1>7, <2>1, <3>1, <3>2
  <2> QED
    BY <2>2, <2>3
<1>9. ASSUME NEW heard \in BOOLEAN, ServeSave(n, heard)
      PROVE  Surviving'
  <2> DEFINE copy == [NoCopy EXCEPT !.version = Len(log')]
  <2>1. /\ calls[n].op # "load" /\ calls[n].pc = "asked" /\ calls[n].version = Len(log)
        /\ log' = Append(log, calls[n].vault)
        /\ cache' = IF heard THEN SavedCopy(n) ELSE cache
        /\ calls' = IF heard THEN Answered(n, "ok", copy) ELSE Answered(n, "failed", NoCopy)
        /\ UNCHANGED <<vault, version, deleted, overtaken>>
    BY <1>9 DEF ServeSave, NextVersion, page
  <2>2. /\ log' \in Seq(SUBSET Entries) /\ Len(log') = Len(log) + 1
        /\ DOMAIN log' = DOMAIN log \cup {Len(log) + 1} /\ log'[Len(log) + 1] = calls[n].vault
        /\ \A v \in DOMAIN log : log'[v] = log[v]
    BY <1>1, <1>3, <2>1, Added
  <2>3. copy \in [vault : SUBSET Entries, version : Nat] /\ copy.version = Len(log) + 1
    BY <1>1, <2>2 DEF NoCopy
  <2> HIDE DEF copy
  <2>4. Excused' = Excused
    BY <2>1 DEF Excused
  <2>5. \A m \in DOMAIN calls : CallKeeps(calls[m], Excused', log', vault')
    <3>1. \A m \in DOMAIN calls : calls[m].op # "load" /\ calls[m].waits =>
             vault' \in SUBSET Entries /\ KeepsBut(Excused', vault, vault')
      <4>1. \A m \in DOMAIN calls : calls[m].op # "load" /\ calls[m].waits =>
               vault \in SUBSET Entries
        BY DEF Typed, CallsTyped, CallTyped
      <4> QED
        BY <2>1, <4>1, KeepsItself
    <3>2. Len(log) <= Len(log') /\ Excused \subseteq Excused'
      BY <1>1, <2>2, <2>4
    <3> QED
      BY <2>2, <3>1, <3>2, CallsKeepOn
  <2>6. KeepsBut(Excused, log[Len(log)], calls[n].vault)
    BY <1>1, <1>2, <2>1 DEF CallKeeps
  <2>7. ASSUME NEW v \in DOMAIN log', NEW w \in DOMAIN log', v <= w
        PROVE  KeepsBut(Excused', log'[v], log'[w])
    <3>1. CASE w \in DOMAIN log
      <4>1. v \in DOMAIN log
        BY <1>1, <2>2, <2>7, <3>1
      <4> QED
        BY <1>2, <2>2, <2>4, <2>7, <3>1, <4>1
    <3>2. CASE w = Len(log) + 1 /\ v \in DOMAIN log
      <4>1. /\ KeepsBut(Excused, log[v], log[Len(log)]) /\ log[v] \in SUBSET Entries
            /\ log[Len(log)] \in SUBSET Entries
        BY <1>1, <1>2, <3>2
      <4>2. KeepsBut(Excused, log[v], calls[n].vault)
        BY <1>3, <2>6, <4>1, KeepsOn
      <4> QED
        BY <2>2, <2>4, <3>2, <4>2
    <3>3. CASE w = Len(log) + 1 /\ v = Len(log) + 1
      BY <1>3, <2>2, <3>3, KeepsItself
    <3> QED
      BY <2>2, <3>1, <3>2, <3>3
  <2>8. cache' # None => cache'.vault = log'[cache'.version]
    <3>1. CASE heard
      BY <2>1, <2>2, <3>1 DEF SavedCopy
    <3>2. CASE ~heard
      <4>1. cache # None => cache.version \in DOMAIN log
        BY <1>1
      <4> QED
        BY <1>2, <2>1, <2>2, <3>2, <4>1
    <3> QED
      BY <3>1, <3>2
  <2>9. vault # None /\ version >= 1 => KeepsBut(Excused', log'[version], vault)
    <3>1. version >= 1 => version \in DOMAIN log
      BY DEF Typed, TypeOK
    <3> QED
      BY <1>2, <2>2, <2>4, <3>1
  <2>10. \A m \in DOMAIN calls' : CallKeeps(calls'[m], Excused', log', vault')
    <3>1. CASE heard
      <4>1. calls' = Answered(n, "ok", copy)
        BY <2>1, <3>1
      <4>2. PICK e \in Call :
                /\ Answered(n, "ok", copy) = [calls EXCEPT ![n] = e] /\ e.op = calls[n].op
                /\ calls[n].waits =>
                       e.pc = "answered" /\ e.result = "ok" /\ e.version = copy.version
                /\ ~calls[n].waits => e.pc = "done"
        BY <1>1, <1>4, <2>3, Answering
      <4>3. calls[n].waits => KeepsBut(Excused, calls[n].vault, vault)
        BY <1>2, <2>1 DEF CallKeeps
      <4>4. CallKeeps(e, Excused', log', vault')
        BY <1>1, <1>3, <2>1, <2>2, <2>3, <2>4, <4>2, <4>3 DEF CallKeeps
      <4>5. calls' = [calls EXCEPT ![n] = e]
        BY <4>1, <4>2
      <4> QED
        BY <1>1, <2>5, <4>4, <4>5, ReplacedKeeps
    <3>2. CASE ~heard
      <4>1. calls' = Answered(n, "failed", NoCopy)
        BY <2>1, <3>2
      <4>2. PICK e \in Call :
                /\ Answered(n, "failed", NoCopy) = [calls EXCEPT ![n] = e]
                /\ e.result = "failed" /\ e.pc # "asked"
        BY <1>1, <1>4, <1>5, Answering
      <4>3. CallKeeps(e, Excused', log', vault')
        BY <4>2 DEF CallKeeps
      <4>4. calls' = [calls EXCEPT ![n] = e]
        BY <4>1, <4>2
      <4> QED
        BY <1>1, <2>5, <4>3, <4>4, ReplacedKeeps
    <3> QED
      BY <3>1, <3>2
  <2> QED
    BY <2>1, <2>7, <2>8, <2>9, <2>10 DEF Surviving
<1>10. CASE RefuseSave(n)
  <2>1. /\ calls' = Answered(n, "shut", NoCopy) \/ calls' = Answered(n, "failed", NoCopy)
        /\ UNCHANGED <<log, cache, vault, version, deleted, overtaken>>
    BY <1>10 DEF RefuseSave, page
  <2> QED
    BY <1>4, <1>5, <1>7, <2>1
<1>11. CASE GiveUp(n)
  <2>1. /\ calls' = [calls EXCEPT ![n] = Unheard(calls[n])]
        /\ UNCHANGED <<log, cache, vault, version, deleted, overtaken>>
    BY <1>11 DEF GiveUp, page
  <2>2. CallKeeps(Unheard(calls[n]), Excused, log, vault)
    BY <1>1, <1>2, UnheardKeeps
  <2> QED
    BY <1>6, <2>1, <2>2
<1> DEFINE e == Finished(calls[n], calls[n].result, calls[n].version)
<1>12. e.pc = "done"
  BY <1>1, <1>3, Finishing
<1>13. ASSUME calls' = [calls EXCEPT ![n] = Finished(@, @.result, @.version)]
       PROVE  calls' = [calls EXCEPT ![n] = e]
  BY <1>13
<1> HIDE DEF e
<1>14. CASE HearLoad(n)
  <2>1. /\ calls' = [calls EXCEPT ![n] = e] /\ calls[n].op = "load"
        /\ calls[n].pc = "answered" /\ UNCHANGED <<log, cache, deleted>>
    BY <1>13, <1>14 DEF HearLoad
  <2>2. CASE calls[n].result = "ok"
    <3>1. /\ vault' = calls[n].vault /\ version' = calls[n].version
          /\ overtaken' = overtaken \cup (IF Awaited = {} THEN {} ELSE Undone(vault'))
      BY <1>14, <2>2 DEF HearLoad
    <3>2. /\ vault' \in SUBSET Entries /\ version' >= 1 /\ vault' = log[version']
          /\ version' \in Nat
      BY <1>1, <1>2, <1>3, <2>1, <2>2, <3>1 DEF CallKeeps
    <3>3. Excused \subseteq Excused'
      BY <2>1, <3>1 DEF Excused
    <3>4. ASSUME NEW m \in DOMAIN calls, calls[m].op # "load", calls[m].waits
          PROVE  KeepsBut(Excused', vault, vault')
      <4>1. m \in Awaited
        BY <3>4 DEF Awaited
      <4>2. Undone(vault') \subseteq Excused'
        BY <3>1, <4>1 DEF Excused
      <4>3. vault \in SUBSET Entries
        BY <3>4 DEF Typed, CallsTyped, CallTyped
      <4>4. ASSUME NEW x \in vault
            PROVE  x.id \in Excused' \/ (x \in vault' /\ x.text \in Nat)
        BY <4>2, <4>3 DEF Undone, IdsOf, Entries
      <4> QED
        BY <4>4 DEF KeepsBut
    <3>5. \A m \in DOMAIN calls : CallKeeps(calls[m], Excused', log', vault')
      <4>1. /\ log' \in Seq(SUBSET Entries) /\ Len(log) <= Len(log')
            /\ \A v \in DOMAIN log : log'[v] = log[v]
        BY <1>1, <2>1
      <4> QED
        BY <3>2, <3>3, <3>4, <4>1, CallsKeepOn
    <3>6. \A m \in DOMAIN calls' : CallKeeps(calls'[m], Excused', log', vault')
      BY <1>1, <1>12, <2>1, <3>5, EndedKeeps, ReplacedKeeps
    <3>7. KeepsBut(Excused', log[version'], vault')
      BY <3>2, KeepsItself
    <3>8. \A v, w \in DOMAIN log : v <= w => KeepsBut(Excused', log[v], log[w])
      BY <1>2, <3>3, KeepsMore
    <3> QED
      BY <1>2, <2>1, <3>6, <3>7, <3>8 DEF Surviving
  <2>3. CASE calls[n].result # "ok"
    <3>1. UNCHANGED <<vault, version, overtaken>>
      BY <1>14, <2>3 DEF HearLoad
    <3> QED
      BY <1>6, <1>12, <2>1, <3>1, EndedKeeps
  <2> QED
    BY <2>2, <2>3
<1>15. CASE HearSave(n)
  <2>1. /\ calls' = [calls EXCEPT ![n] = e] /\ calls[n].op # "load"
        /\ calls[n].pc = "answered" /\ UNCHANGED <<log, cache, vault, deleted, overtaken>>
    BY <1>13, <1>15 DEF HearSave
  <2>2. CASE calls[n].result = "failed"
    <3>1. version' = version
      BY <1>15, <2>2 DEF HearSave
    <3> QED
      BY <1>6, <1>12, <2>1, <3>1, EndedKeeps
  <2>3. CASE calls[n].result # "failed"
    <3>1. version' = IF calls[n].result = "shut" THEN 0 ELSE calls[n].version
      BY <1>15, <2>3 DEF HearSave
    <3>2. calls[n].result \in {"ok", "shut"}
      BY <1>2, <1>3, <2>1, <2>3 DEF CallKeeps, Results
    <3>3. version' >= 1 => KeepsBut(Excused, log[version'], vault)
      BY <1>2, <2>1, <3>1, <3>2 DEF CallKeeps
    <3>4. \A m \in DOMAIN calls : CallKeeps(calls[m], Excused', log', vault')
      BY <2>1, CallsKeep
    <3>5. \A m \in DOMAIN calls' : CallKeeps(calls'[m], Excused', log', vault')
      BY <1>1, <1>12, <2>1, <3>4, EndedKeeps, ReplacedKeeps
    <3>6. Excused' = Excused
      BY <2>1 DEF Excused
    <3> QED
      BY <1>2, <2>1, <3>3, <3>5, <3>6 DEF Surviving
  <2> QED
    BY <2>2, <2>3
<1> QED
  BY <1>8, <1>9, <1>10, <1>11, <1>14, <1>15 DEF CallStep

\* Each step keeps Surviving.
LEMMA SurvivesByStep == Typed /\ TextsOwned /\ Surviving /\ [Next]_vars => Surviving'
<1> SUFFICES ASSUME Typed, TextsOwned, Surviving, [Next]_vars PROVE Surviving'
  OBVIOUS
<1>1. CASE Next
  BY <1>1, PageSurvives, CallSurvives DEF Next
<1>2. CASE UNCHANGED vars
  BY <1>2 DEF vars, Surviving, Excused
<1> QED
  BY <1>1, <1>2

\* The relay's row loses no entry and no later text of one but for what the user deleted and
\* what a reload undid while a save was awaited, for any vault and any number of requests.
THEOREM EntriesSurvive == Spec => []StoredEntriesSurvive
<1>1. Surviving => StoredEntriesSurvive
  BY DEF Surviving, StoredEntriesSurvive, Keeps, KeepsBut, Excused
<1> QED
  BY <1>1, AlwaysTyped, AlwaysOwned, SurvivingInit, SurvivesByStep, PTL DEF Spec

\* -------------------------------------------------------------------------
\* Deleted entries

\* What a step does to a request that was made before it: it goes on as it was, or it is
\* answered, or it ends; only a save that is taken and heard gets to be "ok".
Evolves(c, d) ==
    /\ d.op = c.op /\ d.kind = c.kind /\ d.id = c.id
    /\ d.waits => c.waits
    /\ d.vault = c.vault \/ d.vault = {} \/ (cache # None /\ d.vault = cache.vault)
    /\ d.pc = "asked" =>
           /\ c.pc = "asked" /\ d.vault = c.vault /\ d.version = c.version
           /\ d.result = c.result
    /\ c.pc # "asked" /\ d.result = "ok" =>
           /\ c.result = "ok" /\ d.version = c.version
           /\ d.pc = "answered" => c.pc = "answered"
    /\ c.pc = "asked" /\ d.pc # "asked" /\ c.op # "load" /\ d.result = "ok" =>
           /\ c.waits /\ c.version = Len(log) /\ log' = Append(log, c.vault)
           /\ vault' = vault /\ version' = version /\ d.version = Len(log) + 1

\* A request that a step makes: a save sends the popup's copy as it is from then on.
Begins(d) ==
    /\ d.pc = "asked" /\ d.result = "none" /\ d.version = version /\ d.waits
    /\ log' = log /\ version' = version
    /\ d.op # "load" => d.vault = vault' /\ vault # None
    /\ d.op = "load" => d.vault = {}
    /\ d.op = "delete" =>
           \E row \in rows :
               d.kind = row.kind /\ d.id = row.id /\ vault' = Without(row.kind, row.id)

\* A request that stays as it is.
LEMMA SameEvolves ==
  ASSUME NEW c
  PROVE  Evolves(c, c)
  BY DEF Evolves

\* One request is replaced.
LEMMA ReplacedEvolves ==
  ASSUME calls \in Seq(Call), NEW n \in DOMAIN calls, NEW e \in Call,
         calls' = [calls EXCEPT ![n] = e], Evolves(calls[n], e)
  PROVE  /\ DOMAIN calls' = DOMAIN calls /\ Len(calls') = Len(calls)
         /\ \A m \in DOMAIN calls : Evolves(calls[m], calls'[m])
<1>1. /\ DOMAIN calls' = DOMAIN calls /\ Len(calls') = Len(calls) /\ calls'[n] = e
      /\ \A m \in DOMAIN calls : m # n => calls'[m] = calls[m]
  BY Replaced
<1> QED
  BY <1>1, SameEvolves

\* The requests that were made go on, and at most one is made.
RequestsEvolve ==
    /\ Len(calls') = Len(calls) \/ Len(calls') = Len(calls) + 1
    /\ \A m \in DOMAIN calls : m \in DOMAIN calls' /\ Evolves(calls[m], calls'[m])
    /\ \A m \in DOMAIN calls' \ DOMAIN calls :
           m = Len(calls) + 1 /\ m <= MaxCalls /\ Begins(calls'[m])

\* One request is made.
LEMMA MadeEvolves ==
  ASSUME Typed, MayAsk, NEW op, NEW kind, NEW id, NEW v, calls' = Asking(op, kind, id, v),
         Begins(Request(op, kind, id, v))
  PROVE  RequestsEvolve
<1>1. calls \in Seq(Call) /\ Len(calls) \in Nat /\ Len(calls) < MaxCalls /\ MaxCalls \in Nat
  BY MaxCallsAssumption DEF Typed, TypeOK, MayAsk
<1> DEFINE e == Request(op, kind, id, v)
<1>2. calls' = Append(calls, e)
  BY DEF Asking, Request
<1> HIDE DEF e
<1>3. /\ Len(calls') = Len(calls) + 1
      /\ DOMAIN calls' = DOMAIN calls \cup {Len(calls) + 1} /\ calls'[Len(calls) + 1] = e
      /\ \A m \in DOMAIN calls : calls'[m] = calls[m]
  BY <1>1, <1>2
<1>4. Begins(e)
  BY DEF e
<1> QED
  BY <1>1, <1>3, <1>4, SameEvolves DEF RequestsEvolve

\* The steps of the page.
LEMMA PageEvolves == Typed /\ PageStep => RequestsEvolve
<1> SUFFICES ASSUME Typed, PageStep PROVE RequestsEvolve
  OBVIOUS
<1>1. calls \in Seq(Call)
  BY DEF Typed, TypeOK
<1>2. ASSUME calls' = calls
      PROVE  RequestsEvolve
  BY <1>2, SameEvolves DEF RequestsEvolve
<1>3. ASSUME AskLoad, UNCHANGED <<log, version>>
      PROVE  RequestsEvolve
  <2>1. Begins(Request("load", "none", 0, {}))
    BY <1>3 DEF Begins, Request
  <2> QED
    BY <1>3, <2>1, MadeEvolves DEF AskLoad
<1>4. CASE ClosePopup
  <2>1. calls' = [n \in DOMAIN calls |-> Unheard(calls[n])]
    BY <1>4 DEF ClosePopup
  <2>2. \A n \in DOMAIN calls : calls'[n] \in Call
    BY <1>1, <2>1, Unhearing
  <2>3. Len(calls') = Len(calls) /\ DOMAIN calls' = DOMAIN calls
    BY <1>1, <2>1, <2>2, Mapped
  <2>4. ASSUME NEW m \in DOMAIN calls
        PROVE  Evolves(calls[m], Unheard(calls[m]))
    <3>1. calls[m] \in Call
      BY <1>1
    <3> QED
      BY <3>1, Unhearing DEF Evolves
  <2> QED
    BY <2>1, <2>3, <2>4 DEF RequestsEvolve
<1>5. CASE PressSave
  <2> DEFINE n == Len(calls) + 1
             op == IF form.id = 0 THEN "add" ELSE "edit"
             id == IF form.id = 0 THEN n ELSE form.id
  <2>1. /\ vault # None /\ MayAsk /\ calls' = Asking(op, form.kind, id, vault')
        /\ UNCHANGED <<log, version>>
    BY <1>5 DEF PressSave, Usable
  <2>2. op \in {"add", "edit"}
    OBVIOUS
  <2> HIDE DEF op, id, n
  <2>3. Begins(Request(op, form.kind, id, vault'))
    BY <2>1, <2>2 DEF Begins, Request
  <2> QED
    BY <2>1, <2>3, MadeEvolves
<1>6. ASSUME NEW row \in rows, Delete(row)
      PROVE  RequestsEvolve
  <2>1. /\ vault # None /\ MayAsk /\ vault' = Without(row.kind, row.id)
        /\ calls' = Asking("delete", row.kind, row.id, vault') /\ UNCHANGED <<log, version>>
    BY <1>6 DEF Delete, Usable
  <2>2. Begins(Request("delete", row.kind, row.id, vault'))
    BY <2>1 DEF Begins, Request
  <2> QED
    BY <2>1, <2>2, MadeEvolves
<1> QED
  BY <1>2, <1>3, <1>4, <1>5, <1>6 DEF PageStep, OpenPopup, UnlockComplete, VaultLocked,
     WorkerStops, page, ShowLocked, OpenForm, HideForms

\* The steps of a request.
LEMMA CallEvolves ==
  ASSUME Typed, NEW n \in DOMAIN calls, CallStep(n)
  PROVE  RequestsEvolve
<1>1. calls \in Seq(Call) /\ calls[n] \in Call /\ Len(log) \in Nat
  BY DEF Typed, TypeOK
<1>2. calls[n].result \in Results /\ calls[n].version \in Nat
  BY <1>1 DEF Call, Results
<1>3. ASSUME NEW e \in Call, calls' = [calls EXCEPT ![n] = e], Evolves(calls[n], e)
      PROVE  RequestsEvolve
  BY <1>1, <1>3, ReplacedEvolves DEF RequestsEvolve
<1>4. ASSUME NEW result \in Results, NEW copy \in [vault : SUBSET Entries, version : Nat],
             calls' = Answered(n, result, copy), calls[n].pc = "asked",
             copy.vault = {} \/ (cache # None /\ copy.vault = cache.vault),
             calls[n].op # "load" /\ result = "ok" =>
                 /\ calls[n].version = Len(log) /\ log' = Append(log, calls[n].vault)
                 /\ vault' = vault /\ version' = version /\ copy.version = Len(log) + 1
      PROVE  RequestsEvolve
  <2>1. PICK e \in Call :
            /\ Answered(n, result, copy) = [calls EXCEPT ![n] = e]
            /\ e.op = calls[n].op /\ e.kind = calls[n].kind /\ e.id = calls[n].id
            /\ calls[n].waits =>
                   /\ e.pc = "answered" /\ e.waits /\ e.result = result
                   /\ e.vault = copy.vault /\ e.version = copy.version
            /\ ~calls[n].waits =>
                   e.pc = "done" /\ ~e.waits /\ e.result = "failed" /\ e.vault = {}
    BY <1>1, Answering
  <2>2. Evolves(calls[n], e)
    BY <1>4, <2>1 DEF Evolves
  <2>3. calls' = [calls EXCEPT ![n] = e]
    BY <1>4, <2>1
  <2> QED
    BY <1>3, <2>2, <2>3
<1>5. /\ NoCopy \in [vault : SUBSET Entries, version : Nat] /\ NoCopy.vault = {}
      /\ "ok" \in Results /\ "shut" \in Results /\ "failed" \in Results
  BY DEF NoCopy, Results
<1>6. CASE ServeLoad(n)
  <2>1. calls[n].op = "load" /\ calls[n].pc = "asked"
    BY <1>6 DEF ServeLoad
  <2>2. CASE cache = None
    <3>1. calls' = Answered(n, "shut", NoCopy)
      BY <1>6, <2>2 DEF ServeLoad
    <3> QED
      BY <1>4, <1>5, <2>1, <3>1
  <2>3. CASE cache # None
    <3>1. calls' = Answered(n, "ok", cache)
      BY <1>6, <2>3 DEF ServeLoad
    <3>2. cache \in [vault : SUBSET Entries, version : Nat]
      BY <2>3 DEF Typed, TypeOK
    <3> QED
      BY <1>4, <1>5, <2>1, <2>3, <3>1, <3>2
  <2> QED
    BY <2>2, <2>3
<1>7. ASSUME NEW heard \in BOOLEAN, ServeSave(n, heard)
      PROVE  RequestsEvolve
  <2> DEFINE copy == [NoCopy EXCEPT !.version = Len(log')]
  <2>1. /\ calls[n].pc = "asked" /\ calls[n].version = Len(log)
        /\ log' = Append(log, calls[n].vault) /\ vault' = vault /\ version' = version
        /\ calls' = IF heard THEN Answered(n, "ok", copy) ELSE Answered(n, "failed", NoCopy)
    BY <1>7 DEF ServeSave, NextVersion, page
  <2>2. Len(log') = Len(log) + 1
    BY <1>1, <2>1 DEF Typed, TypeOK
  <2>3. /\ copy \in [vault : SUBSET Entries, version : Nat]
        /\ copy.vault = {} /\ copy.version = Len(log) + 1
    BY <1>1, <2>2 DEF NoCopy
  <2> HIDE DEF copy
  <2>4. CASE heard
    BY <1>4, <1>5, <2>1, <2>3, <2>4
  <2>5. CASE ~heard
    BY <1>4, <1>5, <2>1, <2>5
  <2> QED
    BY <2>4, <2>5
<1>8. CASE RefuseSave(n)
  <2>1. /\ calls' = Answered(n, "shut", NoCopy) \/ calls' = Answered(n, "failed", NoCopy)
        /\ calls[n].pc = "asked"
    BY <1>8 DEF RefuseSave
  <2> QED
    BY <1>4, <1>5, <2>1
<1>9. CASE GiveUp(n)
  <2>1. calls' = [calls EXCEPT ![n] = Unheard(calls[n])]
    BY <1>9 DEF GiveUp
  <2>2. Unheard(calls[n]) \in Call /\ Evolves(calls[n], Unheard(calls[n]))
    BY <1>1, Unhearing DEF Evolves
  <2> QED
    BY <1>3, <2>1, <2>2
<1>10. CASE HearLoad(n) \/ HearSave(n)
  <2> DEFINE e == Finished(calls[n], calls[n].result, calls[n].version)
  <2>1. calls' = [calls EXCEPT ![n] = e] /\ calls[n].pc = "answered"
    BY <1>10 DEF HearLoad, HearSave
  <2>2. e \in Call /\ Evolves(calls[n], e)
    BY <1>1, <1>2, <2>1, Finishing DEF Evolves
  <2> HIDE DEF e
  <2> QED
    BY <1>3, <2>1, <2>2
<1> QED
  BY <1>6, <1>7, <1>8, <1>9, <1>10 DEF CallStep

\* Each step.
LEMMA StepEvolves == Typed /\ [Next]_vars => RequestsEvolve
<1> SUFFICES ASSUME Typed, [Next]_vars PROVE RequestsEvolve
  OBVIOUS
<1>1. CASE UNCHANGED vars
  BY <1>1, SameEvolves DEF vars, RequestsEvolve
<1> QED
  BY <1>1, PageEvolves, CallEvolves DEF Next

\* What a step does to the popup's copy: it stays, is forgotten, loses an entry or gets the
\* entry of a new request, or is replaced by a loaded one.
CopyEvolves ==
    \/ /\ vault' = vault
       /\ \/ version' \in {version, 0}
          \/ \E m \in DOMAIN calls :
                 /\ calls[m].op # "load" /\ calls[m].pc = "answered" /\ calls[m].result = "ok"
                 /\ version' = calls[m].version
    \/ vault' = None /\ \A m \in DOMAIN calls' : ~calls'[m].waits
    \/ /\ vault # None /\ version' = version /\ vault' \in SUBSET Entries
       /\ \A x \in vault' :
              \/ x.id = Len(calls) + 1 /\ x.id <= MaxCalls /\ x.id = Len(calls')
              \/ \E y \in vault : y.kind = x.kind /\ y.id = x.id
    \/ \E m \in DOMAIN calls :
           /\ calls[m].op = "load" /\ calls[m].pc = "answered" /\ calls[m].result = "ok"
           /\ vault' = calls[m].vault /\ version' = calls[m].version
           /\ Awaited # {} => Undone(vault') \subseteq overtaken'

\* Each step changes the copy in one of these ways.
LEMMA StepChangesCopy ==
  Typed /\ Surviving /\ [Next]_vars => CopyEvolves /\ overtaken \subseteq overtaken'
<1> SUFFICES ASSUME Typed, Surviving, [Next]_vars
             PROVE  CopyEvolves /\ overtaken \subseteq overtaken'
  OBVIOUS
<1>1. ASSUME UNCHANGED <<vault, version, overtaken>>
      PROVE  CopyEvolves /\ overtaken \subseteq overtaken'
  BY <1>1 DEF CopyEvolves
<1>2. /\ vault \in (SUBSET Entries) \cup {None} /\ form \in Forms
      /\ calls \in Seq(Call) /\ Len(calls) \in Nat
  BY DEF Typed, TypeOK
<1>3. CASE ClosePopup
  <2>1. /\ calls' = [n \in DOMAIN calls |-> Unheard(calls[n])]
        /\ vault' = None /\ overtaken' = overtaken
    BY <1>3 DEF ClosePopup
  <2>2. \A m \in DOMAIN calls' : ~calls'[m].waits
    BY <1>2, <2>1, Unhearing
  <2> QED
    BY <2>1, <2>2 DEF CopyEvolves
<1>4. CASE PressSave
  <2> DEFINE n == Len(calls) + 1
  <2>1. /\ vault # None /\ form # NoForm /\ vault' = Edited(form.kind, form.id, n)
        /\ Len(calls) < MaxCalls /\ UNCHANGED <<version, overtaken>>
        /\ \E op, id : calls' = Asking(op, form.kind, id, vault')
    BY <1>4 DEF PressSave, Usable, MayAsk
  <2>0. Len(calls') = n /\ n <= MaxCalls
    BY <1>2, <2>1, MaxCallsAssumption DEF Asking
  <2>2. n \in Nat /\ form.kind \in Kinds /\ vault \in SUBSET Entries
    BY <1>2, <2>1 DEF Forms
  <2>3. \A x \in vault' :
            x \in Entries /\ (x.id = n \/ \E y \in vault : y.kind = x.kind /\ y.id = x.id)
    <3>1. CASE form.id = 0
      <4>1. vault' = vault \cup {[kind |-> form.kind, id |-> n, text |-> n]}
        BY <2>1, <3>1 DEF Edited
      <4>2. /\ [kind |-> form.kind, id |-> n, text |-> n] \in Entries
            /\ [kind |-> form.kind, id |-> n, text |-> n].id = n
        BY <2>2 DEF Entries
      <4> QED
        BY <2>2, <4>1, <4>2
    <3>2. CASE form.id # 0
      <4>1. vault' = {IF y.kind = form.kind /\ y.id = form.id THEN [y EXCEPT !.text = n] ELSE y :
                          y \in vault}
        BY <2>1, <3>2 DEF Edited
      <4>2. \A y \in vault : /\ [y EXCEPT !.text = n] \in Entries
                             /\ [y EXCEPT !.text = n].kind = y.kind
                             /\ [y EXCEPT !.text = n].id = y.id
        BY <2>2 DEF Entries
      <4> QED
        BY <2>2, <4>1, <4>2
    <3> QED
      BY <3>1, <3>2
  <2>4. vault' \in SUBSET Entries
    BY <2>3
  <2> QED
    BY <2>0, <2>1, <2>3, <2>4 DEF CopyEvolves
<1>5. ASSUME NEW row \in rows, Delete(row)
      PROVE  CopyEvolves /\ overtaken \subseteq overtaken'
  BY <1>2, <1>5 DEF Delete, Usable, Without, CopyEvolves
<1>6. ASSUME NEW n \in DOMAIN calls, HearLoad(n)
      PROVE  CopyEvolves /\ overtaken \subseteq overtaken'
  <2>1. CASE calls[n].result = "ok"
    <3>1. /\ calls[n].op = "load" /\ calls[n].pc = "answered"
          /\ vault' = calls[n].vault /\ version' = calls[n].version
          /\ overtaken' = overtaken \cup (IF Awaited = {} THEN {} ELSE Undone(vault'))
      BY <1>6, <2>1 DEF HearLoad
    <3>2. Awaited # {} => Undone(vault') \subseteq overtaken'
      BY <3>1
    <3> QED
      BY <2>1, <3>1, <3>2 DEF CopyEvolves
  <2>2. CASE calls[n].result # "ok"
    BY <1>1, <1>6, <2>2 DEF HearLoad
  <2> QED
    BY <2>1, <2>2
<1>7. ASSUME NEW n \in DOMAIN calls, HearSave(n)
      PROVE  CopyEvolves /\ overtaken \subseteq overtaken'
  <2>1. /\ calls[n].op # "load" /\ calls[n].pc = "answered" /\ UNCHANGED <<vault, overtaken>>
        /\ \/ version' \in {version, 0}
           \/ calls[n].result \notin {"shut", "failed"} /\ version' = calls[n].version
    BY <1>7 DEF HearSave
  <2>2. calls[n].result \in {"ok", "shut", "failed"}
    <3>1. calls[n] \in Call /\ CallKeeps(calls[n], Excused, log, vault)
      BY <1>2 DEF Surviving
    <3> QED
      BY <2>1, <3>1 DEF CallKeeps, Call
  <2> QED
    BY <2>1, <2>2 DEF CopyEvolves
<1>8. ASSUME NEW n \in DOMAIN calls, CallStep(n)
      PROVE  CopyEvolves /\ overtaken \subseteq overtaken'
  BY <1>1, <1>6, <1>7, <1>8 DEF CallStep, ServeLoad, ServeSave, RefuseSave, GiveUp, page
<1>9. CASE PageStep
  BY <1>1, <1>3, <1>4, <1>5, <1>9 DEF PageStep, OpenPopup, UnlockComplete, VaultLocked,
     WorkerStops, page, ShowLocked, OpenForm, HideForms
<1>10. CASE UNCHANGED vars
  BY <1>1, <1>10 DEF vars
<1> QED
  BY <1>8, <1>9, <1>10 DEF Next

\* What a step does to the relay's row: it stays, or the vault of a save is added.
LogEvolves ==
    \/ log' = log
    \/ \E m \in DOMAIN calls :
           /\ calls[m].op # "load" /\ calls[m].pc = "asked" /\ calls[m].version = Len(log)
           /\ log' = Append(log, calls[m].vault)

\* Each step changes the row in one of these ways.
LEMMA StepChangesLog == Typed /\ [Next]_vars => LogEvolves
<1> SUFFICES ASSUME Typed, [Next]_vars PROVE LogEvolves
  OBVIOUS
<1>1. ASSUME NEW n \in DOMAIN calls, CallStep(n)
      PROVE  LogEvolves
  BY <1>1 DEF CallStep, ServeLoad, ServeSave, NextVersion, RefuseSave, GiveUp, HearLoad,
     HearSave, LogEvolves
<1>2. CASE PageStep
  BY <1>2 DEF PageStep, OpenPopup, ClosePopup, UnlockComplete, VaultLocked, WorkerStops,
     ShowLocked, OpenForm, HideForms, PressSave, Delete, LogEvolves
<1>3. CASE UNCHANGED vars
  BY <1>3 DEF vars, LogEvolves
<1> QED
  BY <1>1, <1>2, <1>3 DEF Next

\* No entry has the id that the next request will give.
Given(id, size) == id > MaxCalls \/ id <= size

AllGiven(entries, size) == \A x \in entries : Given(x.id, size)

IdsGiven ==
    /\ \A v \in DOMAIN log : AllGiven(log[v], Len(calls))
    /\ vault # None \/ Awaited # {} => AllGiven(vault, Len(calls))
    /\ AllGiven(rows, Len(calls))
    /\ \A n \in DOMAIN calls :
           /\ AllGiven(calls[n].vault, Len(calls))
           /\ calls[n].op = "delete" => Given(calls[n].id, Len(calls)) /\ calls[n].id \in Nat

\* More requests leave the ids given.
LEMMA GivenStays ==
  ASSUME NEW size \in Nat, NEW size2 \in Nat, size <= size2, NEW entries \in SUBSET Entries,
         AllGiven(entries, size)
  PROVE  AllGiven(entries, size2)
  BY DEF AllGiven, Given, Entries

\* The ids of the initial vault are none that a request gives.
LEMMA IdsGivenInit == Init => IdsGiven
<1> SUFFICES ASSUME Init PROVE IdsGiven
  OBVIOUS
<1>1. log = <<Initial>> /\ calls = <<>> /\ vault = None /\ rows = {} /\ Awaited = {}
  BY DEF Init, Awaited
<1>2. AllGiven(Initial, Len(calls))
  BY InitialAssumption DEF AllGiven, Given
<1> QED
  BY <1>1, <1>2 DEF IdsGiven, AllGiven

\* The rows of the page are drawn from a loaded copy, or from the popup's when a save ends.
Draws ==
    \/ rows' \subseteq rows
    \/ \E n \in DOMAIN calls : rows' \subseteq rows \cup calls[n].vault
    \/ Awaited # {} /\ rows' \subseteq rows \cup vault

LEMMA StepDraws == Typed /\ [Next]_vars => Draws
<1> SUFFICES ASSUME Typed, [Next]_vars PROVE Draws
  OBVIOUS
<1>0. rows' = rows \/ rows' = {} => Draws
  BY DEF Draws
<1>1. ASSUME NEW n \in DOMAIN calls, HearLoad(n)
      PROVE  Draws
  <2>1. CASE calls[n].result = "ok"
    <3>1. /\ vault' = calls[n].vault
          /\ rows' = Drawn("totps", Drawn("credentials", rows, vault'), vault')
      BY <1>1, <2>1 DEF HearLoad
    <3>2. rows' \subseteq rows \cup calls[n].vault
      BY <3>1 DEF Drawn, OfKind
    <3> QED
      BY <3>2 DEF Draws
  <2>2. CASE calls[n].result # "ok"
    BY <1>0, <1>1, <2>2 DEF HearLoad
  <2> QED
    BY <2>1, <2>2
<1>2. ASSUME NEW n \in DOMAIN calls, HearSave(n)
      PROVE  Draws
  <2>1. CASE calls[n].result = "failed"
    BY <1>0, <1>2, <2>1 DEF HearSave
  <2>2. CASE calls[n].result # "failed"
    <3>1. /\ calls[n].op # "load" /\ calls[n].pc = "answered" /\ vault' = vault
          /\ rows' = Drawn(calls[n].kind, rows, vault)
      BY <1>2, <2>2 DEF HearSave
    <3>2. Awaited # {}
      BY <3>1 DEF Typed, CallsTyped, CallTyped, Awaited
    <3>3. rows' \subseteq rows \cup vault
      BY <3>1 DEF Drawn, OfKind
    <3> QED
      BY <3>2, <3>3 DEF Draws
  <2> QED
    BY <2>1, <2>2
<1>3. ASSUME NEW n \in DOMAIN calls, CallStep(n)
      PROVE  Draws
  BY <1>0, <1>1, <1>2, <1>3 DEF CallStep, ServeLoad, ServeSave, RefuseSave, GiveUp, page
<1>4. CASE PageStep
  BY <1>0, <1>4 DEF PageStep, OpenPopup, ClosePopup, UnlockComplete, VaultLocked,
     WorkerStops, page, ShowLocked, OpenForm, HideForms, PressSave, Delete
<1>5. CASE UNCHANGED vars
  BY <1>0, <1>5 DEF vars
<1> QED
  BY <1>3, <1>4, <1>5 DEF Next

\* Each step gives only the id of its own request.
LEMMA IdsGivenByStep ==
  Typed /\ Surviving /\ IdsGiven /\ [Next]_vars => IdsGiven'
<1> SUFFICES ASSUME Typed, Surviving, IdsGiven, [Next]_vars PROVE IdsGiven'
  OBVIOUS
<1>1. Typed' /\ RequestsEvolve /\ CopyEvolves /\ LogEvolves
  BY NextTyped, StepEvolves, StepChangesCopy, StepChangesLog
<1>2. /\ log \in Seq(SUBSET Entries) /\ Len(log) \in Nat /\ DOMAIN log = 1..Len(log)
      /\ cache \in [vault : SUBSET Entries, version : 1..Len(log)] \cup {None}
      /\ vault \in (SUBSET Entries) \cup {None}
      /\ rows \in SUBSET Entries /\ calls \in Seq(Call)
      /\ Len(calls) \in Nat /\ DOMAIN calls = 1..Len(calls)
      /\ rows' \in SUBSET Entries /\ calls' \in Seq(Call)
      /\ Len(calls') \in Nat /\ DOMAIN calls' = 1..Len(calls')
  BY <1>1 DEF Typed, TypeOK
<1>3. Len(calls) <= Len(calls')
  <2>1. Len(calls') = Len(calls) \/ Len(calls') = Len(calls) + 1
    BY <1>1 DEF RequestsEvolve
  <2>2. Len(calls) \in Nat /\ Len(calls') \in Nat
    BY <1>2
  <2> QED
    BY <2>1, <2>2
<1>4. ASSUME NEW entries \in SUBSET Entries, AllGiven(entries, Len(calls))
      PROVE  AllGiven(entries, Len(calls'))
  BY <1>2, <1>3, <1>4, GivenStays
<1>5. \A m \in DOMAIN calls : calls[m].vault \in SUBSET Entries
  <2>1. \A m \in DOMAIN calls : calls[m] \in Call
    BY <1>2
  <2> QED
    BY <2>1 DEF Call
<1>6. \A m \in DOMAIN calls : AllGiven(calls[m].vault, Len(calls'))
  BY <1>4, <1>5 DEF IdsGiven
<1>7. \A v \in DOMAIN log' : AllGiven(log'[v], Len(calls'))
  <2>1. \A v \in DOMAIN log : AllGiven(log[v], Len(calls'))
    BY <1>2, <1>4 DEF IdsGiven
  <2>2. ASSUME NEW m \in DOMAIN calls, log' = Append(log, calls[m].vault)
        PROVE  \A v \in DOMAIN log' : AllGiven(log'[v], Len(calls'))
    BY <1>2, <1>5, <1>6, <2>1, <2>2
  <2> QED
    BY <1>1, <2>1, <2>2 DEF LogEvolves
<1>8. ASSUME vault' # None \/ Awaited' # {}
      PROVE  AllGiven(vault', Len(calls'))
  <2>0. vault # None \/ Awaited # {} => AllGiven(vault, Len(calls'))
    BY <1>1, <1>2, <1>3, GivenStays DEF IdsGiven, Typed, CallsTyped, CallTyped, Awaited
  <2>1. CASE vault' = vault
    <3>1. ASSUME NEW m \in DOMAIN calls', calls'[m].waits, calls'[m].op # "load"
          PROVE  vault # None \/ Awaited # {}
      BY <1>1, <3>1 DEF RequestsEvolve, Evolves, Begins, Awaited
    <3>2. vault # None \/ Awaited # {}
      BY <1>8, <2>1, <3>1 DEF Awaited
    <3> QED
      BY <2>0, <2>1, <3>2
  <2>2. CASE vault # None /\ \A x \in vault' :
                 \/ x.id = Len(calls) + 1 /\ x.id <= MaxCalls /\ x.id = Len(calls')
                 \/ \E y \in vault : y.kind = x.kind /\ y.id = x.id
    <3>1. AllGiven(vault, Len(calls'))
      BY <1>2, <1>4, <2>2 DEF IdsGiven
    <3> QED
      BY <1>2, <2>2, <3>1 DEF AllGiven, Given
  <2>3. ASSUME NEW m \in DOMAIN calls, vault' = calls[m].vault
        PROVE  AllGiven(vault', Len(calls'))
    BY <1>6, <2>3
  <2>4. CASE vault' = None /\ \A m \in DOMAIN calls' : ~calls'[m].waits
    BY <1>8, <2>4 DEF Awaited
  <2> QED
    BY <1>1, <2>1, <2>2, <2>3, <2>4 DEF CopyEvolves
<1>9. AllGiven(rows', Len(calls'))
  <2>1. AllGiven(rows, Len(calls'))
    BY <1>2, <1>4 DEF IdsGiven
  <2>2. Awaited # {} => AllGiven(vault, Len(calls'))
    BY <1>1, <1>2, <1>3, GivenStays DEF IdsGiven, Typed, CallsTyped, CallTyped, Awaited
  <2> QED
    BY <1>6, <2>1, <2>2, StepDraws DEF Draws, AllGiven
<1>10. ASSUME NEW m \in DOMAIN calls'
       PROVE  /\ AllGiven(calls'[m].vault, Len(calls'))
              /\ calls'[m].op = "delete" =>
                     Given(calls'[m].id, Len(calls')) /\ calls'[m].id \in Nat
  <2>1. CASE m \in DOMAIN calls
    <3>1. Evolves(calls[m], calls'[m])
      BY <1>1, <2>1 DEF RequestsEvolve
    <3>2. cache # None => AllGiven(cache.vault, Len(calls'))
      BY <1>2, <1>4 DEF IdsGiven, Surviving
    <3>3. AllGiven({}, Len(calls'))
      BY DEF AllGiven
    <3>4. calls[m].op = "delete" => Given(calls[m].id, Len(calls')) /\ calls[m].id \in Nat
      BY <1>2, <1>3, <2>1 DEF IdsGiven, Given
    <3> QED
      BY <1>6, <2>1, <3>1, <3>2, <3>3, <3>4 DEF Evolves
  <2>2. CASE m \notin DOMAIN calls
    <3>1. Begins(calls'[m])
      BY <1>1, <2>2 DEF RequestsEvolve
    <3>2. AllGiven(calls'[m].vault, Len(calls'))
      <4>1. CASE calls'[m].op = "load"
        BY <3>1, <4>1 DEF Begins, AllGiven
      <4>2. CASE calls'[m].op # "load"
        <5>1. calls'[m].vault = vault' /\ Awaited' # {}
          BY <3>1, <4>2 DEF Begins, Awaited
        <5> QED
          BY <1>8, <5>1
      <4> QED
        BY <4>1, <4>2
    <3>3. ASSUME calls'[m].op = "delete"
          PROVE  Given(calls'[m].id, Len(calls')) /\ calls'[m].id \in Nat
      <4>1. PICK row \in rows : calls'[m].id = row.id
        BY <3>1, <3>3 DEF Begins
      <4>2. Given(row.id, Len(calls)) /\ row.id \in Nat
        BY <1>2 DEF IdsGiven, AllGiven, Entries
      <4> QED
        BY <1>2, <1>3, <4>1, <4>2 DEF Given
    <3> QED
      BY <3>2, <3>3
  <2> QED
    BY <2>1, <2>2
<1> QED
  BY <1>7, <1>8, <1>9, <1>10 DEF IdsGiven

\* The entry is not among them.
Gone(k, id, entries) == \A x \in entries : ~(x.kind = k /\ x.id = id)

\* While a save is awaited, an entry that the popup's copy has not comes back with a reload
\* only, and is overtaken then.
LEMMA CopyStaysGone ==
  ASSUME Typed, CopyEvolves, NEW k, NEW id \in Nat, Given(id, Len(calls)), Gone(k, id, vault),
         vault \in SUBSET Entries, Awaited # {}, id \notin overtaken',
         NEW m \in DOMAIN calls', calls'[m].waits
  PROVE  Gone(k, id, vault')
<1>0. Len(calls) \in Nat /\ MaxCalls \in Nat
  BY MaxCallsAssumption DEF Typed, TypeOK
<1>1. CASE vault' = vault
  BY <1>1
<1>2. CASE \A x \in vault' :
               \/ x.id = Len(calls) + 1 /\ x.id <= MaxCalls /\ x.id = Len(calls')
               \/ \E y \in vault : y.kind = x.kind /\ y.id = x.id
  <2>1. id # Len(calls) + 1 \/ id > MaxCalls
    BY <1>0 DEF Given
  <2> QED
    BY <1>0, <1>2, <2>1 DEF Gone
<1>3. CASE Undone(vault') \subseteq overtaken'
  <2>1. \A x \in vault' : x \in vault \/ x.id \in Undone(vault')
    BY DEF Undone, IdsOf
  <2> QED
    BY <1>3, <2>1 DEF Gone
<1> QED
  BY <1>1, <1>2, <1>3 DEF CopyEvolves

\* What a save that is under way says of an entry that is gone since a version: it comes
\* from an older version, or does not bring the entry back.
SaveLacks(call, k, id, since, copy) ==
    call.op # "load" =>
        /\ call.pc = "asked" /\ call.version >= since =>
               Gone(k, id, call.vault) /\ (call.waits => Gone(k, id, copy))
        /\ call.pc = "answered" /\ call.result = "ok" /\ call.version >= since =>
               Gone(k, id, copy)

GoneSince(k, id, since) ==
    /\ since \in 1..Len(log)
    /\ \A w \in DOMAIN log : w >= since => Gone(k, id, log[w])
    /\ vault # None /\ version >= since => Gone(k, id, vault)
    /\ \A m \in DOMAIN calls : SaveLacks(calls[m], k, id, since, vault)

\* An entry that is gone stays so unless it is overtaken.
LEMMA GoneStays ==
  ASSUME Typed, Typed', Surviving, RequestsEvolve, CopyEvolves, LogEvolves,
         NEW k, NEW id \in Nat, NEW since \in Nat, GoneSince(k, id, since),
         Given(id, Len(calls)), id \notin overtaken'
  PROVE  GoneSince(k, id, since)'
<1>1. /\ log \in Seq(SUBSET Entries) /\ Len(log) \in Nat /\ DOMAIN log = 1..Len(log)
      /\ vault \in (SUBSET Entries) \cup {None} /\ version \in Nat
      /\ calls \in Seq(Call) /\ Len(calls) \in Nat /\ MaxCalls \in Nat
      /\ vault' \in (SUBSET Entries) \cup {None} /\ version' \in Nat
      /\ calls' \in Seq(Call) /\ CallsTyped(calls, Len(log), vault)
  BY MaxCallsAssumption DEF Typed, TypeOK
<1>2. /\ since >= 1 /\ since <= Len(log)
      /\ \A w \in DOMAIN log : w >= since => Gone(k, id, log[w])
      /\ vault # None /\ version >= since => Gone(k, id, vault)
      /\ \A m \in DOMAIN calls : SaveLacks(calls[m], k, id, since, vault)
  BY DEF GoneSince
<1>3. ASSUME NEW m \in DOMAIN calls
      PROVE  /\ calls[m] \in Call /\ calls[m].vault \in SUBSET Entries
             /\ calls[m].version \in Nat /\ calls[m].waits \in BOOLEAN
             /\ CallTyped(calls[m], Len(log), vault)
  <2>1. calls[m] \in Call /\ CallTyped(calls[m], Len(log), vault)
    BY <1>1 DEF CallsTyped
  <2> QED
    BY <2>1 DEF Call
<1>4. \A w \in DOMAIN log' : w >= since => Gone(k, id, log'[w])
  <2>1. ASSUME NEW m \in DOMAIN calls, calls[m].op # "load", calls[m].pc = "asked",
               calls[m].version = Len(log), log' = Append(log, calls[m].vault)
        PROVE  \A w \in DOMAIN log' : w >= since => Gone(k, id, log'[w])
    <3>1. /\ DOMAIN log' = DOMAIN log \cup {Len(log) + 1} /\ log'[Len(log) + 1] = calls[m].vault
          /\ \A w \in DOMAIN log : log'[w] = log[w]
      BY <1>1, <1>3, <2>1, Added
    <3>2. Len(log) >= since => Gone(k, id, calls[m].vault)
      BY <1>2, <2>1 DEF SaveLacks
    <3> QED
      BY <1>1, <1>2, <3>1, <3>2
  <2> QED
    BY <1>2, <2>1 DEF LogEvolves
<1>5. ASSUME version' >= since, vault # None \/ vault' # None,
             vault' # None \/ \E m \in DOMAIN calls' : calls'[m].waits
      PROVE  Gone(k, id, vault')
  <2>1. CASE vault' = vault /\ version' \in {version, 0}
    BY <1>1, <1>2, <1>5, <2>1
  <2>2. ASSUME vault' = vault, NEW m \in DOMAIN calls, calls[m].op # "load",
               calls[m].pc = "answered", calls[m].result = "ok", version' = calls[m].version
        PROVE  Gone(k, id, vault')
    BY <1>2, <1>5, <2>2 DEF SaveLacks
  <2>3. CASE /\ vault # None /\ version' = version
             /\ \A x \in vault' :
                    \/ x.id = Len(calls) + 1 /\ x.id <= MaxCalls /\ x.id = Len(calls')
                    \/ \E y \in vault : y.kind = x.kind /\ y.id = x.id
    <3>1. Gone(k, id, vault)
      BY <1>2, <1>5, <2>3
    <3>2. id # Len(calls) + 1 \/ id > MaxCalls
      BY <1>1 DEF Given
    <3> QED
      BY <1>1, <2>3, <3>1, <3>2 DEF Gone
  <2>4. ASSUME NEW m \in DOMAIN calls, calls[m].op = "load", calls[m].pc = "answered",
               calls[m].result = "ok", vault' = calls[m].vault, version' = calls[m].version
        PROVE  Gone(k, id, vault')
    <3>1. vault' = log[version'] /\ version' \in DOMAIN log
      BY <1>1, <1>3, <2>4 DEF Surviving, CallKeeps, CallTyped
    <3> QED
      BY <1>2, <1>5, <3>1
  <2> QED
    BY <1>5, <2>1, <2>2, <2>3, <2>4 DEF CopyEvolves
<1>6. ASSUME NEW m \in DOMAIN calls, calls[m].op # "load", calls'[m].waits, calls[m].waits,
             m \in DOMAIN calls', calls'[m].op # "load", Gone(k, id, vault)
      PROVE  Gone(k, id, vault')
  <2>1. vault \in SUBSET Entries /\ Awaited # {}
    BY <1>3, <1>6 DEF CallTyped, Awaited
  <2> QED
    BY <1>6, <2>1, CopyStaysGone
<1>7. ASSUME NEW m \in DOMAIN calls'
      PROVE  SaveLacks(calls'[m], k, id, since, vault')
  <2> DEFINE d == calls'[m]
  <2>0. d \in Call /\ CallTyped(d, Len(log'), vault')
    BY <1>1 DEF Typed, CallsTyped
  <2>1. CASE m \in DOMAIN calls
    <3> DEFINE c == calls[m]
    <3>1. Evolves(c, d)
      BY <2>1 DEF RequestsEvolve
    <3>2. SaveLacks(c, k, id, since, vault)
      BY <1>2, <2>1
    <3>3. /\ c.version \in Nat /\ CallTyped(c, Len(log), vault)
      BY <1>3, <2>1
    <3>4. c.op # "load" /\ d.op # "load" /\ d.waits /\ c.waits /\ Gone(k, id, vault)
              => Gone(k, id, vault')
      BY <1>6, <1>7, <2>1
    <3> HIDE DEF c, d
    <3>5. ASSUME d.op # "load", d.pc = "asked", d.version >= since
          PROVE  Gone(k, id, d.vault) /\ (d.waits => Gone(k, id, vault'))
      <4>1. /\ c.op # "load" /\ c.pc = "asked" /\ c.version >= since /\ d.vault = c.vault
            /\ d.waits => c.waits
        BY <3>1, <3>5 DEF Evolves
      <4> QED
        BY <3>2, <3>4, <3>5, <4>1 DEF SaveLacks
    <3>6. ASSUME d.op # "load", d.pc = "answered", d.result = "ok", d.version >= since
          PROVE  Gone(k, id, vault')
      <4>0. c.op # "load" /\ d.waits /\ c.waits
        BY <2>0, <3>1, <3>6 DEF Evolves, CallTyped, d
      <4>1. CASE c.pc = "asked"
        <5>1. c.version = Len(log) /\ vault' = vault
          BY <3>1, <3>6, <4>0, <4>1 DEF Evolves
        <5> QED
          BY <1>1, <1>2, <3>2, <4>0, <4>1, <5>1 DEF SaveLacks
      <4>2. CASE c.pc # "asked"
        <5>1. c.pc = "answered" /\ c.result = "ok" /\ c.version >= since
          BY <3>1, <3>6, <4>2 DEF Evolves
        <5> QED
          BY <3>2, <3>4, <3>6, <4>0, <5>1 DEF SaveLacks
      <4> QED
        BY <4>1, <4>2
    <3> QED
      BY <3>5, <3>6 DEF SaveLacks, d
  <2>2. CASE m \notin DOMAIN calls
    <3>1. Begins(d)
      BY <2>2 DEF RequestsEvolve
    <3> HIDE DEF d
    <3>3. ASSUME d.op # "load", d.version >= since
          PROVE  Gone(k, id, d.vault) /\ Gone(k, id, vault')
      <4>1. d.vault = vault' /\ version' >= since /\ vault # None
        BY <3>1, <3>3 DEF Begins
      <4>2. \E n \in DOMAIN calls' : calls'[n].waits
        BY <1>7, <3>1 DEF Begins, d
      <4> QED
        BY <1>5, <4>1, <4>2
    <3> QED
      BY <3>1, <3>3 DEF Begins, SaveLacks, d
  <2> QED
    BY <2>1, <2>2
<1>8. since \in 1..Len(log')
  <2>1. Len(log') \in Nat /\ Len(log') >= Len(log)
    BY <1>1, <1>3, Added DEF LogEvolves
  <2> QED
    BY <1>1, <1>2, <2>1
<1> QED
  BY <1>4, <1>5, <1>7, <1>8 DEF GoneSince

\* A deletion that is under way, and one that was taken.
DeletionKept(call) ==
    /\ call.pc = "asked" => call.result = "none"
    /\ call.op = "delete" /\ call.id \notin overtaken =>
           /\ call.pc = "asked" => Gone(call.kind, call.id, call.vault)
           /\ call.waits => Gone(call.kind, call.id, vault)
           /\ call.result = "ok" => GoneSince(call.kind, call.id, call.version)

Deleting == \A n \in DOMAIN calls : DeletionKept(calls[n])

\* Each step keeps this.
LEMMA DeletingByStep ==
  Typed /\ Surviving /\ IdsGiven /\ Deleting /\ [Next]_vars => Deleting'
<1> SUFFICES ASSUME Typed, Surviving, IdsGiven, Deleting, [Next]_vars PROVE Deleting'
  OBVIOUS
<1>1. /\ Typed' /\ RequestsEvolve /\ CopyEvolves /\ LogEvolves
      /\ overtaken \subseteq overtaken'
  BY NextTyped, StepEvolves, StepChangesCopy, StepChangesLog
<1>2. ASSUME NEW m \in DOMAIN calls, NEW c, c = calls[m], NEW d, d = calls'[m]
      PROVE  DeletionKept(d)'
  <2>1. /\ Evolves(c, d) /\ DeletionKept(c)
        /\ c.op = "delete" => Given(c.id, Len(calls)) /\ c.id \in Nat
    BY <1>1, <1>2 DEF RequestsEvolve, Deleting, IdsGiven
  <2>0. m \in DOMAIN calls'
    BY <1>1 DEF RequestsEvolve
  <2>2. /\ c \in Call /\ CallTyped(c, Len(log), vault) /\ CallTyped(d, Len(log'), vault')
        /\ d \in Call /\ log \in Seq(SUBSET Entries) /\ Len(log) \in Nat
    BY <1>1, <1>2, <2>0 DEF Typed, TypeOK, CallsTyped
  <2>3. c.op = "delete" /\ c.waits => Awaited # {}
    BY <1>2 DEF Awaited
  <2>4. \A n \in DOMAIN calls : CallTyped(calls[n], Len(log), vault)
    BY DEF Typed, CallsTyped
  <2>5. \A n \in DOMAIN calls' : CallTyped(calls'[n], Len(log'), vault')
    BY <1>1 DEF Typed, CallsTyped
  <2>6. d.pc = "asked" => d.result = "none"
    BY <2>1 DEF Evolves, DeletionKept
  <2>7. ASSUME d.op = "delete", d.id \notin overtaken'
        PROVE  /\ d.pc = "asked" => Gone(d.kind, d.id, d.vault)
               /\ d.waits => Gone(d.kind, d.id, vault')
               /\ d.result = "ok" => GoneSince(d.kind, d.id, d.version)'
    <3>1. /\ c.op = "delete" /\ c.kind = d.kind /\ c.id = d.id /\ c.id \notin overtaken
          /\ Given(c.id, Len(calls)) /\ c.id \in Nat
      BY <1>1, <2>1, <2>7 DEF Evolves
    <3>2. d.pc = "asked" => Gone(d.kind, d.id, d.vault)
      BY <2>1, <3>1 DEF Evolves, DeletionKept
    <3>3. ASSUME d.waits
          PROVE  Gone(d.kind, d.id, vault')
      <4>1. c.waits /\ Gone(c.kind, c.id, vault)
        BY <2>1, <3>1, <3>3 DEF Evolves, DeletionKept
      <4>2. vault \in SUBSET Entries
        BY <2>2, <3>1, <4>1 DEF CallTyped
      <4> QED
        BY <1>1, <1>2, <2>0, <2>3, <2>7, <3>1, <3>3, <4>1, <4>2, CopyStaysGone
    <3>4. ASSUME d.result = "ok"
          PROVE  GoneSince(d.kind, d.id, d.version)'
      <4>1. CASE c.pc # "asked"
        <5>1. c.result = "ok" /\ c.version = d.version
          BY <2>1, <3>4, <4>1 DEF Evolves
        <5>2. GoneSince(d.kind, d.id, d.version) /\ d.version \in Nat
          BY <2>1, <2>2, <3>1, <5>1 DEF DeletionKept, Call
        <5> QED
          BY <1>1, <2>7, <3>1, <5>2, GoneStays
      <4>2. CASE c.pc = "asked"
        <5>1. /\ c.waits /\ c.version = Len(log) /\ log' = Append(log, c.vault)
              /\ vault' = vault /\ version' = version /\ d.version = Len(log) + 1
          BY <2>1, <2>6, <3>1, <3>4, <4>2 DEF Evolves
        <5>2. Gone(d.kind, d.id, c.vault) /\ Gone(d.kind, d.id, vault')
          BY <2>1, <3>1, <4>2, <5>1 DEF DeletionKept
        <5>3. /\ Len(log') = Len(log) + 1 /\ log'[Len(log) + 1] = c.vault
              /\ c.vault \in SUBSET Entries
          BY <2>2, <5>1 DEF Call
        <5>4. version' <= Len(log) /\ version' \in Nat
          BY <5>1 DEF Typed, TypeOK
        <5>5. ASSUME NEW n \in DOMAIN calls'
              PROVE  SaveLacks(calls'[n], d.kind, d.id, d.version, vault')
          <6>1. CASE n \in DOMAIN calls
            <7>1. Evolves(calls[n], calls'[n]) /\ calls[n].version <= Len(log)
              BY <1>1, <2>4, <6>1 DEF RequestsEvolve, CallTyped
            <7>2. calls[n] \in Call
              BY <6>1 DEF Typed, TypeOK
            <7>3. calls[n].version \in Nat
              BY <7>2 DEF Call
            <7> QED
              BY <2>2, <5>1, <5>2, <7>1, <7>3 DEF Evolves, SaveLacks
          <6>2. CASE n \notin DOMAIN calls
            <7>1. log' = log
              BY <1>1, <6>2 DEF RequestsEvolve, Begins
            <7> QED
              BY <2>2, <5>3, <7>1
          <6> QED
            BY <6>1, <6>2
        <5>6. \A w \in DOMAIN log' : w >= d.version => Gone(d.kind, d.id, log'[w])
          <6>1. DOMAIN log' = 1..(Len(log) + 1)
            BY <2>2, <5>1, <5>3
          <6> QED
            BY <2>2, <5>1, <5>2, <5>3, <6>1
        <5>7. d.version \in 1..Len(log') /\ ~(version' >= d.version)
          BY <2>2, <5>1, <5>3, <5>4
        <5> QED
          BY <5>5, <5>6, <5>7 DEF GoneSince
      <4> QED
        BY <4>1, <4>2
    <3> QED
      BY <3>2, <3>3, <3>4
  <2> QED
    BY <2>6, <2>7 DEF DeletionKept
<1>3. ASSUME NEW m \in DOMAIN calls', m \notin DOMAIN calls, NEW d, d = calls'[m]
      PROVE  DeletionKept(d)'
  <2>1. Begins(d)
    BY <1>1, <1>3 DEF RequestsEvolve
  <2>2. d \in Call
    BY <1>1, <1>3 DEF Typed, TypeOK
  <2>3. ASSUME d.op = "delete"
        PROVE  Gone(d.kind, d.id, d.vault) /\ Gone(d.kind, d.id, vault')
    <3>1. PICK row \in rows :
              d.kind = row.kind /\ d.id = row.id /\ vault' = Without(row.kind, row.id)
      BY <2>1, <2>3 DEF Begins
    <3>2. d.vault = vault'
      BY <2>1, <2>3 DEF Begins
    <3> QED
      BY <3>1, <3>2 DEF Gone, Without
  <2> QED
    BY <2>1, <2>3 DEF Begins, DeletionKept
<1>4. \A m \in DOMAIN calls' : \A d : d = calls'[m] => DeletionKept(d)'
  BY <1>2, <1>3
<1> QED
  BY <1>4 DEF Deleting

\* What a save that is under way says of an entry: if the version it follows has the entry
\* and the save takes it away, then the popup's copy has not got it back.
TakesAway(call, k, id, row) ==
    /\ call.op # "load" /\ call.pc = "asked" /\ call.waits /\ call.version \in DOMAIN row
    /\ ~Gone(k, id, row[call.version]) /\ Gone(k, id, call.vault)

Lacking ==
    \A k \in Kinds : \A id \in Nat : \A n \in DOMAIN calls :
        id \notin overtaken /\ TakesAway(calls[n], k, id, log) => Gone(k, id, vault)

\* An entry that the row had and has no more is gone since it left.
Leaving ==
    \A k \in Kinds : \A id \in Nat : \A u, v \in DOMAIN log :
        id \notin overtaken /\ u < v /\ ~Gone(k, id, log[u]) /\ Gone(k, id, log[v]) =>
            GoneSince(k, id, v)

\* An entry of the row has an id that was given.
LEMMA RowGiven ==
  ASSUME IdsGiven, NEW k, NEW id, NEW v \in DOMAIN log, ~Gone(k, id, log[v])
  PROVE  Given(id, Len(calls))
  BY DEF IdsGiven, AllGiven, Gone

\* The row's versions do not change.
LEMMA RowStays ==
  ASSUME Typed, LogEvolves
  PROVE  /\ Len(log) \in Nat /\ Len(log) > 0 /\ DOMAIN log = 1..Len(log)
         /\ \A v \in DOMAIN log : v \in DOMAIN log' /\ log'[v] = log[v]
         /\ log' # log => /\ Len(log') = Len(log) + 1 /\ DOMAIN log' = 1..(Len(log) + 1)
<1>1. log \in Seq(SUBSET Entries) /\ Len(log) \in Nat /\ Len(log) > 0
  BY DEF Typed, TypeOK
<1>2. \A m \in DOMAIN calls : calls[m].vault \in SUBSET Entries
  <2>1. \A m \in DOMAIN calls : calls[m] \in Call
    BY DEF Typed, TypeOK
  <2> QED
    BY <2>1 DEF Call
<1>3. ASSUME NEW m \in DOMAIN calls, log' = Append(log, calls[m].vault)
      PROVE  /\ \A v \in DOMAIN log : v \in DOMAIN log' /\ log'[v] = log[v]
             /\ Len(log') = Len(log) + 1 /\ DOMAIN log' = 1..(Len(log) + 1)
  BY <1>1, <1>2, <1>3, AppendProperties
<1> QED
  BY <1>1, <1>3 DEF LogEvolves

\* Each step keeps what the saves take away out of the popup's copy.
LEMMA LackingByStep ==
  Typed /\ Surviving /\ IdsGiven /\ Lacking /\ [Next]_vars => Lacking'
<1> SUFFICES ASSUME Typed, Surviving, IdsGiven, Lacking, [Next]_vars,
                    NEW k \in Kinds, NEW id \in Nat, NEW n \in DOMAIN calls',
                    id \notin overtaken', TakesAway(calls'[n], k, id, log')
             PROVE  Gone(k, id, vault')
  BY DEF Lacking
<1>1. /\ Typed' /\ RequestsEvolve /\ CopyEvolves /\ LogEvolves
      /\ overtaken \subseteq overtaken'
  BY NextTyped, StepEvolves, StepChangesCopy, StepChangesLog
<1>2. /\ calls'[n].op # "load" /\ calls'[n].pc = "asked" /\ calls'[n].waits
      /\ calls'[n].version \in DOMAIN log' /\ ~Gone(k, id, log'[calls'[n].version])
      /\ Gone(k, id, calls'[n].vault)
  BY DEF TakesAway
<1>3. CASE n \in DOMAIN calls
  <2>1. Evolves(calls[n], calls'[n])
    BY <1>1, <1>3 DEF RequestsEvolve
  <2>2. /\ calls[n].op # "load" /\ calls[n].pc = "asked" /\ calls[n].waits
        /\ calls'[n].vault = calls[n].vault /\ calls'[n].version = calls[n].version
    BY <1>2, <2>1 DEF Evolves
  <2>3. CallTyped(calls[n], Len(log), vault) /\ calls[n].version <= Len(log)
    BY <1>3 DEF Typed, CallsTyped, CallTyped
  <2>4. calls[n].version \in DOMAIN log
    <3>1. calls[n] \in Call
      BY <1>3 DEF Typed, TypeOK
    <3>2. calls[n].version \in Nat
      BY <3>1 DEF Call
    <3>3. Len(log') \in Nat /\ DOMAIN log' = 1..Len(log')
      BY <1>1 DEF Typed, TypeOK
    <3>4. calls[n].version >= 1
      BY <1>2, <2>2, <3>3
    <3>5. DOMAIN log = 1..Len(log) /\ Len(log) \in Nat
      BY DEF Typed, TypeOK
    <3> QED
      BY <2>3, <3>2, <3>4, <3>5
  <2>5. ~Gone(k, id, log[calls[n].version])
    BY <1>1, <1>2, <2>2, <2>4, RowStays
  <2>6. Gone(k, id, vault)
    BY <1>1, <1>2, <1>3, <2>2, <2>4, <2>5 DEF Lacking, TakesAway
  <2>7. Given(id, Len(calls))
    BY <2>4, <2>5, RowGiven
  <2>8. vault \in SUBSET Entries /\ Awaited # {}
    BY <1>3, <2>2, <2>3 DEF CallTyped, Awaited
  <2> QED
    BY <1>1, <1>2, <2>6, <2>7, <2>8, CopyStaysGone
<1>4. CASE n \notin DOMAIN calls
  <2>1. Begins(calls'[n])
    BY <1>1, <1>4 DEF RequestsEvolve
  <2> QED
    BY <1>2, <2>1 DEF Begins
<1> QED
  BY <1>3, <1>4

\* The version that takes an entry away.
LEMMA JustLeft ==
  ASSUME Typed, Typed', RequestsEvolve, LogEvolves, Lacking,
         NEW k \in Kinds, NEW id \in Nat, id \notin overtaken, log' # log,
         UNCHANGED <<vault, version>>,
         ~Gone(k, id, log[Len(log)]),
         NEW since \in Nat, since = Len(log'), Gone(k, id, log'[since])
  PROVE  GoneSince(k, id, since)'
<1>1. /\ Len(log) \in Nat /\ Len(log') = Len(log) + 1 /\ DOMAIN log' = 1..(Len(log) + 1)
      /\ Len(log) \in DOMAIN log /\ since = Len(log) + 1
  BY RowStays
<1>2. version' \in Nat /\ version' <= Len(log)
  BY DEF Typed, TypeOK
<1>3. ASSUME NEW m \in DOMAIN calls'
      PROVE  SaveLacks(calls'[m], k, id, since, vault')
  <2> DEFINE d == calls'[m]
             c == calls[m]
  <2>1. m \in DOMAIN calls
    BY DEF RequestsEvolve, Begins
  <2>2. Evolves(c, d) /\ c \in Call /\ CallTyped(c, Len(log), vault)
    BY <2>1 DEF RequestsEvolve, Typed, TypeOK, CallsTyped
  <2>3. c.version \in Nat /\ c.version <= Len(log) /\ c.vault \in SUBSET Entries
    BY <2>2 DEF Call, CallTyped
  <2>4. TakesAway(c, k, id, log) => Gone(k, id, vault)
    BY <2>1 DEF Lacking
  <2> HIDE DEF c, d
  <2>5. ~(d.pc = "asked" /\ d.version >= since)
    BY <1>1, <2>2, <2>3 DEF Evolves
  <2>6. ASSUME d.op # "load", d.pc = "answered", d.result = "ok", d.version >= since
        PROVE  Gone(k, id, vault')
    <3>1. c.pc = "asked"
      BY <1>1, <2>2, <2>3, <2>6 DEF Evolves
    <3>2. /\ c.op # "load" /\ c.waits /\ c.version = Len(log) /\ log' = Append(log, c.vault)
          /\ vault' = vault
      BY <2>2, <2>6, <3>1 DEF Evolves
    <3>3. log \in Seq(SUBSET Entries)
      BY DEF Typed, TypeOK
    <3>4. log'[since] = c.vault
      BY <1>1, <2>3, <3>2, <3>3
    <3>5. TakesAway(c, k, id, log)
      BY <1>1, <3>1, <3>2, <3>4 DEF TakesAway
    <3> QED
      BY <2>4, <3>2, <3>5
  <2> QED
    BY <2>5, <2>6 DEF SaveLacks, d
<1>4. \A w \in DOMAIN log' : w >= since => Gone(k, id, log'[w])
  BY <1>1
<1> QED
  BY <1>1, <1>2, <1>3, <1>4 DEF GoneSince

\* What is gone since a version after a step is gone since a later one.
LEMMA GoneLater ==
  ASSUME Typed', NEW k, NEW id, NEW since \in Nat, NEW later \in 1..Len(log'),
         GoneSince(k, id, since)', since <= later
  PROVE  GoneSince(k, id, later)'
<1>1. /\ version' \in Nat /\ Len(log') \in Nat /\ DOMAIN log' = 1..Len(log')
      /\ \A m \in DOMAIN calls' : calls'[m] \in Call
  BY DEF Typed, TypeOK
<1>2. \A m \in DOMAIN calls' : calls'[m].version \in Nat
  BY <1>1 DEF Call
<1>3. \A m \in DOMAIN calls' : SaveLacks(calls'[m], k, id, later, vault')
  BY <1>2 DEF GoneSince, SaveLacks
<1>4. \A w \in DOMAIN log' : w >= later => Gone(k, id, log'[w])
  BY <1>1 DEF GoneSince
<1>5. vault' # None /\ version' >= later => Gone(k, id, vault')
  BY <1>1 DEF GoneSince
<1> QED
  BY <1>3, <1>4, <1>5 DEF GoneSince

\* A step that changes the row leaves the popup's copy alone.
LEMMA RowOrCopy == Typed /\ [Next]_vars /\ log' # log => UNCHANGED <<vault, version>>
<1> SUFFICES ASSUME Typed, [Next]_vars, log' # log PROVE UNCHANGED <<vault, version>>
  OBVIOUS
<1>1. ~PageStep
  BY DEF PageStep, OpenPopup, ClosePopup, UnlockComplete, VaultLocked, WorkerStops,
     ShowLocked, OpenForm, HideForms, PressSave, Delete
<1>2. ASSUME NEW n \in DOMAIN calls, CallStep(n)
      PROVE  UNCHANGED <<vault, version>>
  BY <1>2 DEF CallStep, ServeLoad, ServeSave, RefuseSave, GiveUp, HearLoad, HearSave, page
<1> QED
  BY <1>1, <1>2 DEF Next, vars

\* Each step keeps what has left the row out of it.
LEMMA LeavingByStep ==
  Typed /\ Surviving /\ IdsGiven /\ Lacking /\ Leaving /\ [Next]_vars => Leaving'
<1> SUFFICES ASSUME Typed, Surviving, IdsGiven, Lacking, Leaving, [Next]_vars,
                    NEW k \in Kinds, NEW id \in Nat,
                    NEW u \in DOMAIN log', NEW v \in DOMAIN log',
                    id \notin overtaken', u < v, ~Gone(k, id, log'[u]), Gone(k, id, log'[v])
             PROVE  GoneSince(k, id, v)'
  BY DEF Leaving
<1>1. /\ Typed' /\ RequestsEvolve /\ CopyEvolves /\ LogEvolves
      /\ id \notin overtaken
  BY NextTyped, StepEvolves, StepChangesCopy, StepChangesLog
<1>2. /\ Len(log) \in Nat /\ Len(log) > 0 /\ DOMAIN log = 1..Len(log)
      /\ \A w \in DOMAIN log : w \in DOMAIN log' /\ log'[w] = log[w]
      /\ log' # log => Len(log') = Len(log) + 1 /\ DOMAIN log' = 1..(Len(log) + 1)
  BY <1>1, RowStays
<1>3. u \in DOMAIN log /\ u \in Nat /\ v \in Nat /\ ~Gone(k, id, log[u])
  BY <1>2
<1>4. Given(id, Len(calls))
  BY <1>3, RowGiven
<1>5. ASSUME NEW w \in DOMAIN log, u < w, Gone(k, id, log[w])
      PROVE  GoneSince(k, id, w)'
  <2>1. GoneSince(k, id, w) /\ w \in Nat
    BY <1>1, <1>2, <1>3, <1>5 DEF Leaving
  <2> QED
    BY <1>1, <1>4, <2>1, GoneStays
<1>6. CASE v \in DOMAIN log
  BY <1>2, <1>5, <1>6
<1>7. CASE v \notin DOMAIN log
  <2>1. log' # log /\ v = Len(log) + 1 /\ v = Len(log') /\ v \in 1..Len(log')
    BY <1>2, <1>7
  <2>2. UNCHANGED <<vault, version>>
    BY <2>1, RowOrCopy
  <2>3. CASE Gone(k, id, log[Len(log)])
    <3>1. Len(log) \in DOMAIN log /\ u < Len(log)
      BY <1>2, <1>3, <2>3
    <3>2. PICK w \in DOMAIN log : w = Len(log)
      BY <3>1
    <3>3. GoneSince(k, id, w)' /\ w \in Nat /\ w <= v
      BY <1>2, <1>5, <2>1, <2>3, <3>1, <3>2
    <3> QED
      BY <1>1, <2>1, <3>3, GoneLater
  <2>4. CASE ~Gone(k, id, log[Len(log)])
    BY <1>1, <1>3, <2>1, <2>2, <2>4, JustLeft
  <2> QED
    BY <2>3, <2>4
<1> QED
  BY <1>6, <1>7

\* A deletion that the popup took as saved has reached the relay's row, but for a locked
\* worker's answer, and an entry that has left the row comes back only with what a reload
\* undid while a save was awaited, for any vault and any number of requests.
THEOREM DeletionsAreFinal == Spec => []DeletionIsFinal
<1>1. Init => Deleting /\ Lacking /\ Leaving
  <2> SUFFICES ASSUME Init PROVE Deleting /\ Lacking /\ Leaving
    OBVIOUS
  <2>1. calls = <<>> /\ DOMAIN log = {1}
    BY DEF Init
  <2> QED
    BY <2>1 DEF Deleting, Lacking, Leaving
<1>2. Typed /\ Deleting /\ Leaving => DeletionIsFinal
  <2> SUFFICES ASSUME Typed, Deleting, Leaving PROVE DeletionIsFinal
    OBVIOUS
  <2>0. log \in Seq(SUBSET Entries) /\ Len(log) \in Nat /\ DOMAIN log = 1..Len(log)
    BY DEF Typed, TypeOK
  <2>1. ASSUME NEW n \in DOMAIN calls, Told(n), calls[n].op = "delete",
               calls[n].id \notin overtaken, calls[n].result # "shut"
        PROVE  /\ calls[n].version \in DOMAIN log
               /\ ~Holds(log[calls[n].version], calls[n].kind, calls[n].id)
    <3>1. GoneSince(calls[n].kind, calls[n].id, calls[n].version)
      BY <2>1 DEF Told, Deleting, DeletionKept
    <3>2. calls[n].version \in DOMAIN log
      BY <2>0, <3>1 DEF GoneSince
    <3>3. Gone(calls[n].kind, calls[n].id, log[calls[n].version])
      BY <2>0, <3>1, <3>2 DEF GoneSince
    <3> QED
      BY <3>2, <3>3 DEF Gone, Holds
  <2>2. ASSUME NEW u \in DOMAIN log, NEW v \in DOMAIN log, NEW w \in DOMAIN log,
               u < v, v < w, NEW x \in log[u], x.id \notin overtaken,
               ~Holds(log[v], x.kind, x.id)
        PROVE  ~Holds(log[w], x.kind, x.id)
    <3>1. x.kind \in Kinds /\ x.id \in Nat
      BY <2>0 DEF Entries
    <3>2. ~Gone(x.kind, x.id, log[u]) /\ Gone(x.kind, x.id, log[v])
      BY <2>2 DEF Gone, Holds
    <3>3. GoneSince(x.kind, x.id, v)
      BY <2>2, <3>1, <3>2 DEF Leaving
    <3>4. Gone(x.kind, x.id, log[w])
      BY <2>0, <2>2, <3>3 DEF GoneSince
    <3> QED
      BY <3>4 DEF Gone, Holds
  <2> QED
    BY <2>1, <2>2 DEF DeletionIsFinal
<1> QED
  BY <1>1, <1>2, AlwaysTyped, AlwaysOwned, SurvivingInit, SurvivesByStep, IdsGivenInit,
     IdsGivenByStep, DeletingByStep, LackingByStep, LeavingByStep, PTL DEF Spec
=============================================================================
