---------------------------- MODULE ClientSession ----------------------------
(***************************************************************************)
(* The session of one user: the tabs of a browser (authStore.ts,           *)
(* apiClient.ts), the refresh cookie they share, and the session tables of *)
(* the server (auth.rs and the handlers login, logout and refresh of       *)
(* routes.rs).                                                             *)
(*                                                                         *)
(* A login or a refresh makes an access token and a refresh token together;*)
(* both are the same element of Tokens here.  The server keeps them in     *)
(* memory and the refresh token in the database too.  A request runs in    *)
(* the server while tabs send others, are reloaded or lose its answer.     *)
(***************************************************************************)
EXTENDS Naturals, FiniteSets

CONSTANTS
    Tabs,    \* tabs of the browser
    Calls,   \* apiFetch calls that may be in progress at once
    Tokens,  \* what Uuid::new_v4 returns
    MaxRequests,  \* requests to /auth in progress at once (a bound of the model)
    MaxCauses,    \* causes between two logins (a bound of the model)
    None

ASSUME SessionConstants ==
    /\ None \notin Tabs \cup Calls \cup Tokens /\ Tabs \cap Calls = {}
    /\ None \notin (Tabs \cup Calls) \X {"restore", "login", "logout", "refresh"}
    /\ MaxRequests \in Nat \ {0} /\ MaxCauses \in Nat

VARIABLES
    mem,         \* state.refresh_sessions
    db,          \* the table refresh_sessions
    access,      \* state.access_sessions that have not expired
    cookie,      \* the refresh_token cookie
    token,       \* accessToken of a tab; user and isAuthenticated go with it
    starting,    \* isInitializing
    refreshing,  \* isRefreshing of apiClient.ts
    promise,     \* refreshSessionPromise: the request it waits for
    recent,      \* the last refresh is less than REFRESH_GRACE_PERIOD ago
    call,        \* an apiFetch call: where it is, its tab and its bearer token
    req,         \* a request to /auth: where it is, who sent it, what it carries
    causes       \* history: what may end a session since the last login

serverVars == <<mem, db, access>>
tabVars    == <<token, starting, refreshing, promise, recent>>
vars == <<serverVars, cookie, tabVars, call, req, causes>>

-----------------------------------------------------------------------------
\* Who may have a request to /auth in progress.
Slots == (Tabs \X {"restore", "login", "logout"}) \cup (Calls \X {"refresh", "logout"})

ReqPc  == {"free", "lookup", "load", "rotate", "mint", "revoke", "delete", "insert", "answer"}
CallPc == {"idle", "sent", "lead", "wait", "retry", "logout", "unauthorized"}
Out    == {"none", "ok", "denied", "error"}

NoReq  == [pc |-> "free", tab |-> None, old |-> None, new |-> None, out |-> "none"]
NoCall == [pc |-> "idle", tab |-> None, bearer |-> None]

Kind(q) == q[2]
Renews(q)   == Kind(q) \in {"restore", "refresh"}
InFlight(q) == req[q].pc # "free"
Busy(c)     == call[c].pc \notin {"idle", "unauthorized"}

MaySend == Cardinality({q \in Slots : InFlight(q)}) < MaxRequests

\* A login, a restoration or a refresh is in progress.
SessionRequests == {q \in Slots : InFlight(q) /\ Kind(q) # "logout"}

\* A token nobody can present any more is drawn again.
Fresh(k) == /\ k # cookie
            /\ \A t \in Tabs : token[t] # k
            /\ \A q \in Slots : req[q].old # k /\ req[q].new # k
            /\ \A c \in Calls : call[c].bearer # k

\* A step that is a cause if the condition holds.
Because(condition) == /\ causes' = IF condition THEN causes + 1 ELSE causes
                      /\ causes' <= MaxCauses

Sent(q, t, pc, k) == [NoReq EXCEPT !.pc = pc, !.tab = t, !.old = k]
Overlapping(q) == SessionRequests \ {q} # {}

Init ==
    /\ mem = {} /\ db = {} /\ access = {} /\ cookie = None
    /\ token = [t \in Tabs |-> None]
    /\ starting = [t \in Tabs |-> FALSE] /\ refreshing = [t \in Tabs |-> FALSE]
    /\ promise = [t \in Tabs |-> None] /\ recent = [t \in Tabs |-> FALSE]
    /\ call = [c \in Calls |-> NoCall]
    /\ req = [q \in Slots |-> NoReq]
    /\ causes = 0

-----------------------------------------------------------------------------
(* The server.  A step is what a handler does up to a write or an answer.  *)

Goto(q, pc) == req' = [req EXCEPT ![q].pc = pc]
Reply(q, out) == req' = [req EXCEPT ![q].pc = "answer", ![q].out = out]

\* The token is looked for in memory first.
Lookup(q) ==
    /\ req[q].pc = "lookup"
    /\ IF req[q].old = None THEN Reply(q, "denied")
       ELSE Goto(q, IF req[q].old \in mem THEN "rotate" ELSE "load")
    /\ UNCHANGED <<serverVars, cookie, tabVars, call, causes>>

\* refresh_with_rate_limit.
Limited(q) ==
    /\ req[q].pc = "lookup"
    /\ Reply(q, "error")
    /\ Because(TRUE)
    /\ UNCHANGED <<serverVars, cookie, tabVars, call>>

\* Then in the database; what is found goes to memory.
Load(q) ==
    /\ req[q].pc = "load"
    /\ IF req[q].old \in db
       THEN mem' = mem \cup {req[q].old} /\ Goto(q, "rotate")
       ELSE Reply(q, "denied") /\ UNCHANGED mem
    /\ UNCHANGED <<db, access, cookie, tabVars, call, causes>>

\* An error of the database is answered like an unknown session.
QueryFails(q) ==
    /\ req[q].pc \in {"load", "rotate"}
    /\ Reply(q, "denied")
    /\ Because(TRUE)
    /\ UNCHANGED <<serverVars, cookie, tabVars, call>>

\* The new pair is entered and the old refresh token is removed; the old
\* access token stays until it expires.
Rotate(q) ==
    \E k \in Tokens :
        /\ req[q].pc = "rotate" /\ Fresh(k)
        /\ access' = access \cup {k}
        /\ mem' = (mem \cup {k}) \ {req[q].old}
        /\ db' = db \ {k}
        /\ req' = [req EXCEPT ![q].pc = "delete", ![q].new = k]
        /\ UNCHANGED <<cookie, tabVars, call, causes>>

\* The row of the old token; a logout is then done, a refresh inserts.
Delete(q) ==
    /\ req[q].pc = "delete"
    /\ \/ db' = db \ {req[q].old} /\ UNCHANGED causes
       \/ UNCHANGED db /\ Because(TRUE)
    /\ IF Kind(q) = "logout" THEN Reply(q, "ok") ELSE Goto(q, "insert")
    /\ UNCHANGED <<mem, access, cookie, tabVars, call>>

\* (mutant) The row is not written.
InsertNothing(q) ==
    /\ req[q].pc = "insert"
    /\ Reply(q, "ok")
    /\ UNCHANGED <<serverVars, cookie, tabVars, call, causes>>

\* A row that cannot be written is logged only.
Insert(q) ==
    /\ req[q].pc = "insert"
    /\ \/ db' = db \cup {req[q].new} /\ UNCHANGED causes
       \/ UNCHANGED db /\ Because(TRUE)
    /\ Reply(q, "ok")
    /\ UNCHANGED <<mem, access, cookie, tabVars, call>>

\* A login with the right password, or refused.
Mint(q) ==
    /\ req[q].pc = "mint"
    /\ \E k \in Tokens :
        /\ Fresh(k)
        /\ access' = access \cup {k} /\ mem' = mem \cup {k} /\ db' = db \ {k}
        /\ req' = [req EXCEPT ![q].pc = "insert", ![q].new = k]
    /\ UNCHANGED <<cookie, tabVars, call, causes>>

RefuseLogin(q) ==
    /\ req[q].pc = "mint"
    /\ Reply(q, "error")
    /\ UNCHANGED <<serverVars, cookie, tabVars, call, causes>>

\* Logout: an unknown access token is answered like a known one.
Revoke(q) ==
    /\ req[q].pc = "revoke"
    /\ IF req[q].old \in access
       THEN /\ access' = access \ {req[q].old} /\ mem' = mem \ {req[q].old}
            /\ Goto(q, "delete")
       ELSE Reply(q, "ok") /\ UNCHANGED <<access, mem>>
    /\ UNCHANGED <<db, cookie, tabVars, call, causes>>

\* An access token lives fifteen minutes: longer than a retry takes, than the
\* answer that brings it and than the grace period.
Expire(k) ==
    /\ k \in access /\ ~Fresh(k)
    /\ \A q \in Slots : req[q].new # k
    /\ \A c \in Calls : call[c].pc = "retry" => call[c].bearer # k
    /\ \A t \in Tabs : recent[t] => token[t] # k
    /\ access' = access \ {k}
    /\ UNCHANGED <<mem, db, cookie, tabVars, call, req, causes>>

\* The server restarts: requests to it fail, and calls are repeated with a
\* token it has forgotten if one is repeated now or may be within the grace.
Restart ==
    /\ mem # {} \/ access # {}
    /\ mem' = {} /\ access' = {}
    /\ req' = [q \in Slots |-> IF ~InFlight(q) \/ req[q].tab = None THEN NoReq
                               ELSE [req[q] EXCEPT !.pc = "answer", !.out = "error"]]
    /\ Because(\/ \E q \in Slots : InFlight(q)
               \/ \E c \in Calls : call[c].pc = "retry"
               \/ \E t \in Tabs : recent[t])
    /\ UNCHANGED <<db, cookie, tabVars, call>>

-----------------------------------------------------------------------------
(* apiFetch *)

\* (mutant) The pages do not wait for somebody to sign in.
AnyPage(t) == ~starting[t]

\* PrivateRoute shows the pages of the dashboard, which call the API.
DashboardShown(t) == ~starting[t] /\ token[t] # None

FetchStart(c) ==
    \E t \in Tabs :
        /\ ~Busy(c) /\ ~InFlight(<<c, "refresh">>) /\ ~InFlight(<<c, "logout">>)
        /\ DashboardShown(t)
        /\ call' = [call EXCEPT ![c] = [pc |-> "sent", tab |-> t, bearer |-> token[t]]]
        /\ UNCHANGED <<serverVars, cookie, tabVars, req, causes>>

EndCall(c, pc) == [call EXCEPT ![c] = [NoCall EXCEPT !.pc = pc]]

\* An answer to a valid token is the caller's, and so is a failure of fetch,
\* which may happen to any token.
FetchReturns(c) ==
    /\ call[c].pc \in {"sent", "retry"}
    /\ call' = EndCall(c, "idle")
    /\ UNCHANGED <<serverVars, cookie, tabVars, req, causes>>

\* The retry is the last try.
RetryUnauthorized(c) ==
    /\ call[c].pc = "retry" /\ call[c].bearer \notin access
    /\ call' = EndCall(c, "unauthorized")
    /\ UNCHANGED <<serverVars, cookie, tabVars, req, causes>>

Got401(c) == call[c].pc = "sent" /\ call[c].bearer \notin access

\* (mutant) The time of the last refresh is not looked at.
AnyToken(t) == token[t] # None

InGrace(t) == recent[t] /\ token[t] # None

\* Somebody has just refreshed: once more with the token there is now.
RetryInGrace(c) ==
    LET t == call[c].tab IN
    /\ Got401(c) /\ InGrace(t)
    /\ call' = [call EXCEPT ![c].pc = "retry", ![c].bearer = token[t]]
    /\ UNCHANGED <<serverVars, cookie, tabVars, req, causes>>

\* Somebody is refreshing: wait for it, or see that it has failed.
WaitForRefresh(c) ==
    LET t == call[c].tab IN
    /\ Got401(c) /\ ~InGrace(t) /\ refreshing[t]
    /\ call' = IF promise[t] # None THEN [call EXCEPT ![c].pc = "wait"]
               ELSE EndCall(c, "unauthorized")
    /\ UNCHANGED <<serverVars, cookie, tabVars, req, causes>>

\* (mutant) Nobody is waited for.
AnyMayLead(t) == TRUE

MayLead(t) == ~refreshing[t]

\* refreshSession gives the promise there is, else it sends a request.
StartRefresh(c) ==
    LET t == call[c].tab  q == <<c, "refresh">> IN
    /\ Got401(c) /\ ~InGrace(t) /\ MayLead(t) /\ MaySend
    /\ refreshing' = [refreshing EXCEPT ![t] = TRUE]
    /\ call' = [call EXCEPT ![c].pc = "lead"]
    /\ IF promise[t] = None
       THEN /\ promise' = [promise EXCEPT ![t] = q]
            /\ req' = [req EXCEPT ![q] = Sent(q, t, "lookup", cookie)]
            /\ Because(Overlapping(q))
       ELSE UNCHANGED <<promise, req, causes>>
    /\ UNCHANGED <<serverVars, cookie, token, starting, recent>>

\* REFRESH_GRACE_PERIOD is over.
GraceEnds(t) ==
    /\ recent[t]
    /\ recent' = [recent EXCEPT ![t] = FALSE]
    /\ UNCHANGED <<serverVars, cookie, token, starting, refreshing, promise,
                   call, req, causes>>

-----------------------------------------------------------------------------
(* Answers.  Settled(q, out, left) is what the code that waits for request *)
(* q does with out, which is "lost" when the fetch throws; left is what    *)
(* stays of the request.                                                   *)

Awaits(c, t) == call[c].tab = t /\ call[c].pc \in {"lead", "wait"}

RefreshSettled(q, out, left) ==
    LET t == req[q].tab
        k == CASE out = "ok" -> req[q].new [] out = "denied" -> None [] OTHER -> token[t]
        again == out = "ok" /\ k # None
        giveUp == ~again /\ k = None
    IN /\ token' = [token EXCEPT ![t] = k]
       /\ promise' = [promise EXCEPT ![t] = None]
       /\ recent' = [recent EXCEPT ![t] = TRUE]
       /\ refreshing' = [refreshing EXCEPT ![t] = giveUp]
       /\ call' = [c \in Calls |->
            IF ~Awaits(c, t) THEN call[c]
            ELSE IF again THEN [call[c] EXCEPT !.pc = "retry", !.bearer = k]
            ELSE IF call[c].pc = "lead" /\ giveUp THEN [call[c] EXCEPT !.pc = "logout"]
            ELSE [NoCall EXCEPT !.pc = "unauthorized"]]
       /\ req' = IF giveUp
                 THEN [req EXCEPT ![q] = left,
                                  ![<<q[1], "logout">>] = Sent(q, t, "revoke", None)]
                 ELSE [req EXCEPT ![q] = left]
       /\ UNCHANGED starting

RestoreSettled(q, out, left) ==
    LET t == req[q].tab IN
    /\ token' = [token EXCEPT ![t] =
            CASE out = "ok" -> req[q].new [] out = "lost" -> @ [] OTHER -> None]
    /\ starting' = [starting EXCEPT ![t] = FALSE]
    /\ req' = [req EXCEPT ![q] = left]
    /\ UNCHANGED <<refreshing, promise, recent, call>>

LoginSettled(q, out, left) ==
    LET t == req[q].tab IN
    /\ token' = IF out = "ok" THEN [token EXCEPT ![t] = req[q].new] ELSE token
    /\ req' = [req EXCEPT ![q] = left]
    /\ UNCHANGED <<starting, refreshing, promise, recent, call>>

\* The local state is cleared whatever the answer; apiFetch then returns.
LogoutSettled(q, left) ==
    LET t == req[q].tab IN
    /\ token' = [token EXCEPT ![t] = None]
    /\ req' = [req EXCEPT ![q] = left]
    /\ IF q[1] \in Calls
       THEN /\ call' = EndCall(q[1], "unauthorized")
            /\ refreshing' = [refreshing EXCEPT ![t] = FALSE]
       ELSE UNCHANGED <<call, refreshing>>
    /\ UNCHANGED <<starting, promise, recent>>

Settled(q, out, left) ==
    \/ Kind(q) = "refresh" /\ RefreshSettled(q, out, left)
    \/ Kind(q) = "restore" /\ RestoreSettled(q, out, left)
    \/ Kind(q) = "login"   /\ LoginSettled(q, out, left)
    \/ Kind(q) = "logout"  /\ LogoutSettled(q, left)

\* A login that nothing else runs beside begins a session anew.
Anew(q) == /\ Kind(q) = "login" /\ req[q].out = "ok" /\ req[q].new \in db
           /\ (\A p \in Slots : p # q => ~InFlight(p)) /\ (\A c \in Calls : ~Busy(c))
           /\ (\A t \in Tabs : ~recent[t])

\* The cookie an answer leaves: only an explicit logout clears it.
CookieOf(q) ==
    CASE req[q].out # "ok" -> cookie
      [] Kind(q) = "logout" -> None
      [] OTHER -> req[q].new

Arrive(q) ==
    /\ req[q].pc = "answer" /\ req[q].tab # None
    /\ cookie' = CookieOf(q)
    /\ Settled(q, req[q].out, NoReq)
    /\ causes' = IF Anew(q) THEN 0 ELSE causes
    /\ UNCHANGED serverVars

\* The answer will not come; the handler goes on.
Lose(q) ==
    /\ InFlight(q) /\ req[q].tab # None
    /\ Settled(q, "lost", [req[q] EXCEPT !.tab = None])
    /\ Because(Renews(q))
    /\ UNCHANGED <<serverVars, cookie>>

\* A handler whose client has gone is done.
Drop(q) ==
    /\ req[q].pc = "answer" /\ req[q].tab = None
    /\ req' = [req EXCEPT ![q] = NoReq]
    /\ UNCHANGED <<serverVars, cookie, tabVars, call, causes>>

-----------------------------------------------------------------------------
(* The user *)

Login(t) ==
    LET q == <<t, "login">> IN
    /\ ~InFlight(q) /\ token[t] = None /\ MaySend
    /\ req' = [req EXCEPT ![q] = Sent(q, t, "mint", None)]
    /\ Because(Overlapping(q))
    /\ UNCHANGED <<serverVars, cookie, tabVars, call>>

Logout(t) ==
    LET q == <<t, "logout">> IN
    /\ ~InFlight(q) /\ token[t] # None /\ MaySend
    /\ req' = [req EXCEPT ![q] = Sent(q, t, "revoke", token[t])]
    /\ Because(TRUE)
    /\ UNCHANGED <<serverVars, cookie, tabVars, call>>

\* The page is loaded again: its memory is gone, the answers to its requests
\* are not read, and restoreSession is called.
Reload(t) ==
    LET q == <<t, "restore">>
        gone == {p \in Slots : req[p].tab = t}
    IN /\ ~InFlight(q) /\ MaySend
       /\ token' = [token EXCEPT ![t] = None]
       /\ starting' = [starting EXCEPT ![t] = TRUE]
       /\ refreshing' = [refreshing EXCEPT ![t] = FALSE]
       /\ promise' = [promise EXCEPT ![t] = None]
       /\ recent' = [recent EXCEPT ![t] = FALSE]
       /\ call' = [c \in Calls |-> IF call[c].tab = t THEN NoCall ELSE call[c]]
       /\ req' = [p \in Slots |-> IF p = q THEN Sent(q, t, "lookup", cookie)
                                  ELSE IF p \in gone THEN [req[p] EXCEPT !.tab = None]
                                  ELSE req[p]]
       /\ Because(Overlapping(q) \/ \E p \in gone : Renews(p))
       /\ UNCHANGED <<serverVars, cookie>>

ServerStep(q) == \/ Lookup(q) \/ Limited(q) \/ Load(q) \/ QueryFails(q) \/ Rotate(q)
                 \/ Delete(q) \/ Insert(q) \/ Mint(q) \/ RefuseLogin(q) \/ Revoke(q)
CallStep(c) == \/ FetchReturns(c) \/ RetryUnauthorized(c) \/ RetryInGrace(c)
               \/ WaitForRefresh(c) \/ StartRefresh(c)
UserStep(t) == Login(t) \/ Logout(t) \/ Reload(t) \/ GraceEnds(t)

Next == \/ \E q \in Slots : ServerStep(q) \/ Arrive(q) \/ Lose(q) \/ Drop(q)
        \/ \E c \in Calls : FetchStart(c) \/ CallStep(c)
        \/ \E t \in Tabs : UserStep(t)
        \/ \E k \in Tokens : Expire(k)
        \/ Restart

Spec == Init /\ [][Next]_vars

-----------------------------------------------------------------------------
(* Types of the state; a call in progress has a tab and a bearer token. *)
TypeOK ==
    /\ mem \subseteq Tokens /\ db \subseteq Tokens /\ access \subseteq Tokens
    /\ cookie \in Tokens \cup {None} /\ token \in [Tabs -> Tokens \cup {None}]
    /\ starting \in [Tabs -> BOOLEAN] /\ refreshing \in [Tabs -> BOOLEAN]
    /\ promise \in [Tabs -> Slots \cup {None}] /\ recent \in [Tabs -> BOOLEAN]
    /\ call \in [Calls -> [pc : CallPc, tab : Tabs \cup {None}, bearer : Tokens \cup {None}]]
    /\ \A c \in Calls : Busy(c) => call[c].tab # None /\ call[c].bearer # None
    /\ req \in [Slots -> [pc : ReqPc, tab : Tabs \cup {None}, old : Tokens \cup {None},
                          new : Tokens \cup {None}, out : Out]]
    /\ causes \in 0 .. MaxCauses

(* A tab has one leading call while isRefreshing is set, none otherwise,   *)
(* and one refresh request in progress: calls that get 401 together        *)
(* share it (apiClient.ts:116, authStore.ts:151), and every call that      *)
(* waits waits for a request somebody will answer.                         *)
SingleFlight ==
    /\ \A t \in Tabs :
          /\ Cardinality({c \in Calls : call[c].tab = t /\ call[c].pc \in {"lead", "logout"}})
               = IF refreshing[t] THEN 1 ELSE 0
          /\ Cardinality({q \in Slots : Kind(q) = "refresh" /\ req[q].tab = t}) <= 1
    /\ \A c \in Calls : call[c].pc = "wait" =>
          LET t == call[c].tab IN promise[t] # None /\ req[promise[t]].tab = t

(* The refresh cookie survives a restart of the server: its row is in the  *)
(* database, or a rotation is about to bring the next one.  auth.rs:274    *)
(* promises it; it takes a cause to break it.                              *)
CookieUsable ==
    causes = 0 /\ cookie # None =>
        \/ cookie \in db
        \/ \E q \in Slots : /\ Renews(q) /\ req[q].old = cookie /\ req[q].tab # None
                            /\ req[q].pc \in {"insert", "answer"}

(* What the user sees of all this is the promise of SessionPromise: only   *)
(* the causes the code knows end a session or let a call be refused,       *)
(* whatever other tabs and calls do, while tokens expire, pages are loaded *)
(* again and the server restarts.                                          *)
Promise == INSTANCE SessionPromise WITH
    tab        <- [t \in Tabs |-> IF starting[t] THEN "starting"
                                  ELSE IF token[t] # None THEN "in" ELSE "out"],
    calls      <- [c \in Calls |-> IF Busy(c) THEN "going"
                                   ELSE IF call[c].pc = "idle" THEN "idle" ELSE "refused"],
    remembered <- cookie # None,
    trouble    <- causes > 0

SessionKept == Promise!Spec
=============================================================================
