------------------------------ MODULE MCForms ------------------------------
(***************************************************************************)
(* Generator, ServerForm, Autofill and RateLimiter in one run, for TLC:    *)
(* they share nothing, so three of them stand still while the fourth is    *)
(* used.                                                                   *)
(***************************************************************************)
EXTENDS Generator, ServerForm, Autofill, RateLimiter

VARIABLE part

Boxes == <<"lower", "digits", "symbols">>

AnySites == [c \in Credentials |-> CHOOSE s \in Sites : TRUE]

\* A part that is not used begins in one state only.
FormsInit ==
    /\ part \in {"generator", "server", "autofill", "limiter"}
    /\ Init /\ (part # "generator" => slider = Least)
    /\ FormInit /\ (part # "server" => field = "blank")
    /\ AutofillInit /\ (part # "autofill" => siteOf = AnySites)
    /\ LimiterInit

UseGenerator ==
    part = "generator" /\ Next /\ UNCHANGED <<part, formVars, autofillVars, limiterVars>>

UseForm ==
    part = "server" /\ FormNext /\ UNCHANGED <<part, vars, autofillVars, limiterVars>>

UseAutofill ==
    part = "autofill" /\ AutofillNext /\ UNCHANGED <<part, vars, formVars, limiterVars>>

UseLimiter ==
    part = "limiter" /\ LimiterNext /\ UNCHANGED <<part, vars, formVars, autofillVars>>

UsePart == UseGenerator \/ UseForm \/ UseAutofill \/ UseLimiter

FormsSpec ==
    /\ FormsInit
    /\ [][UsePart]_<<part, vars, formVars, autofillVars, limiterVars>>
    /\ FormFairness

\* The types of all.
TypesOK == TypeOK /\ FormTypeOK /\ AutofillTypeOK /\ LimiterTypeOK
=============================================================================
