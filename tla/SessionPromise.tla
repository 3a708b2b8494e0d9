---------------------------- MODULE SessionPromise ----------------------------
(***************************************************************************)
(* What ClientSession promises its user, without tokens, requests or the   *)
(* server: a tab that is signed in stays so until it is loaded again, a    *)
(* tab that is loaded again is signed in again as long as the browser      *)
(* remembers the user, and no call of a signed-in tab is refused because   *)
(* of its age.  The promise ends when trouble begins (a limit, a failing   *)
(* database, a lost answer, overlapping refreshes, a restart at a bad      *)
(* moment, a logout) and begins again with the next login.                 *)
(***************************************************************************)
CONSTANTS Tabs, Calls

VARIABLES
    tab,         \* "out", "in", or "starting" while the page finds out
    calls,       \* "idle", "going" or "refused"
    remembered,  \* the browser has a cookie for the user
    trouble      \* something happened that may end the session

vars == <<tab, calls, remembered, trouble>>

Init ==
    /\ tab = [t \in Tabs |-> "out"] /\ calls = [c \in Calls |-> "idle"]
    /\ remembered = FALSE /\ trouble = FALSE

\* The login that ends the trouble is one that nothing runs beside.
SignIn(t) ==
    /\ tab[t] # "starting"
    /\ tab' = [tab EXCEPT ![t] = "in"]
    /\ remembered' = TRUE /\ trouble' = FALSE
    /\ UNCHANGED calls

\* The calls of the tab are gone with it.
Reload(t) ==
    /\ tab' = [tab EXCEPT ![t] = "starting"]
    /\ \E left \in SUBSET Calls :
         calls' = [c \in Calls |-> IF c \in left THEN calls[c] ELSE "idle"]
    /\ UNCHANGED <<remembered, trouble>>

Restored(t) ==
    /\ tab[t] = "starting"
    /\ tab' = [tab EXCEPT ![t] = IF remembered THEN "in" ELSE "out"]
    /\ UNCHANGED <<calls, remembered, trouble>>

CallBegins(c) ==
    /\ calls[c] # "going" /\ \E t \in Tabs : tab[t] = "in"
    /\ calls' = [calls EXCEPT ![c] = "going"]
    /\ UNCHANGED <<tab, remembered, trouble>>

CallEnds(c) ==
    /\ calls[c] = "going"
    /\ calls' = [calls EXCEPT ![c] = "idle"]
    /\ UNCHANGED <<tab, remembered, trouble>>

\* Trouble begins or goes on; nothing is promised.
Trouble ==
    /\ trouble' = TRUE
    /\ tab' \in [Tabs -> {"out", "in", "starting"}]
    /\ calls' \in [Calls -> {"idle", "going", "refused"}]
    /\ remembered' \in BOOLEAN

Next ==
    \/ \E t \in Tabs : SignIn(t) \/ Reload(t) \/ Restored(t)
    \/ \E c \in Calls : CallBegins(c) \/ CallEnds(c)
    \/ Trouble

Spec == Init /\ [][Next]_vars
=============================================================================
