------------------------------ MODULE VainaSpec ------------------------------
(***************************************************************************)
(* What VAINA promises to whoever configures a router over it: an answer   *)
(* tells the truth about the router's tables, and what it told stays true  *)
(* until the configuring side asks for something else or the router        *)
(* restarts.  An entry is one line of one of the router's tables.          *)
(***************************************************************************)
CONSTANT Entry

VARIABLES table,   \* the entries the router holds
          known    \* known[e]: what the answers received so far say about e

specVars == <<table, known>>

Knowledge == {"unknown", "present", "absent"}

SpecTypeOK == table \subseteq Entry /\ known \in [Entry -> Knowledge]

SpecInit ==
    /\ table = {}
    /\ known = [e \in Entry |-> "unknown"]

\* A request puts what was known about its entry in doubt.
Ask(e) ==
    /\ known' = [known EXCEPT ![e] = "unknown"]
    /\ UNCHANGED table

\* The router only changes what is in doubt.
Change(e) ==
    /\ known[e] = "unknown"
    /\ table' \in {table \union {e}, table \ {e}}
    /\ UNCHANGED known

\* An answer arrives.
Learn(e) ==
    /\ known' = [known EXCEPT ![e] = IF e \in table THEN "present" ELSE "absent"]
    /\ UNCHANGED table

\* The tables are not persistent.
RestartRouter ==
    /\ table' = {}
    /\ known' = [e \in Entry |-> "unknown"]

SpecNext ==
    \/ \E e \in Entry : Ask(e) \/ Change(e) \/ Learn(e)
    \/ RestartRouter

AbstractSpec == SpecInit /\ [][SpecNext]_specVars

\* What the answers say is so.
Truthful ==
    \A e \in Entry : /\ known[e] = "present" => e \in table
                     /\ known[e] = "absent" => e \notin table
=============================================================================
