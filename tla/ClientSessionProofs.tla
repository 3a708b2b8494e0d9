------------------------ MODULE ClientSessionProofs ------------------------
(***************************************************************************)
(* Proofs about the refresh of a session, for any number of tabs, calls    *)
(* and tokens: types, one refresh per tab, the cookie that outlives a      *)
(* restart, and that all of it implements SessionPromise.                  *)
(***************************************************************************)
EXTENDS ClientSession, FiniteSetTheorems, TLAPS

USE DEF ReqPc, CallPc, Out

Request  == [pc : ReqPc, tab : Tabs \cup {None}, old : Tokens \cup {None},
             new : Tokens \cup {None}, out : Out]
CallType == [pc : CallPc, tab : Tabs \cup {None}, bearer : Tokens \cup {None}]

\* The call that refreshes for a tab, and then perhaps logs it out.
Leading(c, t) == call[c].tab = t /\ call[c].pc \in {"lead", "logout"}

OneLeader ==
    /\ \A t \in Tabs : \A c, d \in Calls : Leading(c, t) /\ Leading(d, t) => c = d
    /\ \A t \in Tabs : refreshing[t] <=> \E c \in Calls : Leading(c, t)

\* The promise of a tab is the request of its leading call, and nothing else is.
Promised ==
    /\ \A c \in Calls : call[c].pc = "lead" => promise[call[c].tab] = <<c, "refresh">>
    /\ \A t \in Tabs : promise[t] # None =>
        \E c \in Calls : /\ promise[t] = <<c, "refresh">> /\ req[<<c, "refresh">>].tab = t
                         /\ call[c].pc = "lead" /\ call[c].tab = t
    /\ \A c \in Calls : req[<<c, "refresh">>].tab # None =>
        promise[req[<<c, "refresh">>].tab] = <<c, "refresh">>
    /\ \A c \in Calls : call[c].pc = "wait" => promise[call[c].tab] # None

\* A logout that a call has sent is awaited by that call.
LogsOut ==
    \A c \in Calls : req[<<c, "logout">>].tab # None =>
        call[c].pc = "logout" /\ call[c].tab = req[<<c, "logout">>].tab

\* A slot without a request has no tab; a row is written for a new token only.
FreeSlots ==
    \A q \in Slots :
        /\ req[q].pc = "free" => req[q].tab = None
        /\ req[q].pc = "revoke" => Kind(q) = "logout"
        /\ req[q].pc = "insert" => req[q].new # None
        /\ req[q].pc = "delete" => Kind(q) = "logout" \/ req[q].new # None

Flight == OneLeader /\ Promised /\ LogsOut
CInv == TypeOK /\ FreeSlots /\ Flight

-----------------------------------------------------------------------------
(* Slots and records *)

\* What the slots of a call look like.
LEMMA SlotFacts ==
  /\ None \notin Slots
  /\ \A c \in Calls : <<c, "refresh">> \in Slots /\ <<c, "logout">> \in Slots
  /\ \A t \in Tabs : /\ <<t, "restore">> \in Slots /\ <<t, "login">> \in Slots
                     /\ <<t, "logout">> \in Slots
  /\ \A q \in Slots : Kind(q) \in {"refresh", "restore", "login", "logout"}
  /\ \A q \in Slots : Kind(q) = "refresh" => q[1] \in Calls /\ q = <<q[1], "refresh">>
  /\ \A q \in Slots : Kind(q) = "logout" /\ q[1] \in Calls => q = <<q[1], "logout">>
  /\ \A q \in Slots : q[1] \in Calls => Kind(q) \in {"refresh", "logout"}
BY SessionConstants DEF Slots, Kind

\* The request that is not there, and the one that is sent.
LEMMA NoReqType == NoReq \in Request /\ NoReq.tab = None /\ NoReq.pc = "free"
BY DEF NoReq, Request

\* A request just sent belongs to the tab that sends it.
LEMMA SentType ==
  ASSUME NEW q, NEW t \in Tabs, NEW pc \in ReqPc, NEW k \in Tokens \cup {None}
  PROVE  Sent(q, t, pc, k) \in Request /\ Sent(q, t, pc, k).tab = t
         /\ Sent(q, t, pc, k).pc = pc
BY DEF Sent, NoReq, Request

\* The leaders, promises and logouts look at the tabs of requests only.
LEMMA FlightFrame ==
  ASSUME Flight, UNCHANGED <<call, refreshing, promise>>,
         \A q \in Slots : q[1] \in Calls => req'[q].tab = req[q].tab
  PROVE  Flight'
<1>1. \A c \in Calls : /\ req'[<<c, "refresh">>].tab = req[<<c, "refresh">>].tab
                       /\ req'[<<c, "logout">>].tab = req[<<c, "logout">>].tab
  BY SlotFacts
<1>2. OneLeader'
  BY DEF Flight, OneLeader, Leading
<1>3. Promised'
  <2>1. \A t \in Tabs : promise'[t] # None =>
        \E c \in Calls : /\ promise'[t] = <<c, "refresh">> /\ req'[<<c, "refresh">>].tab = t
                         /\ call'[c].pc = "lead" /\ call'[c].tab = t
    <3> SUFFICES ASSUME NEW t \in Tabs, promise'[t] # None
                 PROVE  \E c \in Calls : /\ promise'[t] = <<c, "refresh">>
                                         /\ req'[<<c, "refresh">>].tab = t
                                         /\ call'[c].pc = "lead" /\ call'[c].tab = t
      OBVIOUS
    <3>1. PICK c \in Calls : /\ promise[t] = <<c, "refresh">> /\ req[<<c, "refresh">>].tab = t
                             /\ call[c].pc = "lead" /\ call[c].tab = t
      BY DEF Flight, Promised
    <3> QED BY <1>1, <3>1
  <2>2. \A c \in Calls : req'[<<c, "refresh">>].tab # None =>
        promise'[req'[<<c, "refresh">>].tab] = <<c, "refresh">>
    BY <1>1 DEF Flight, Promised
  <2>3. /\ \A c \in Calls : call'[c].pc = "lead" => promise'[call'[c].tab] = <<c, "refresh">>
        /\ \A c \in Calls : call'[c].pc = "wait" => promise'[call'[c].tab] # None
    BY DEF Flight, Promised
  <2> QED BY <2>1, <2>2, <2>3 DEF Promised
<1>4. LogsOut'
  BY <1>1 DEF Flight, LogsOut
<1> QED BY <1>2, <1>3, <1>4 DEF Flight

-----------------------------------------------------------------------------
(* The step, action by action *)

\* Nobody is signed in and nothing is under way.
LEMMA InitSession == Init => CInv
<1> SUFFICES ASSUME Init PROVE CInv
  OBVIOUS
<1>1. /\ req \in [Slots -> Request]
      /\ \A q \in Slots : req[q].tab = None /\ req[q].pc = "free"
  BY NoReqType DEF Init
<1>2. call \in [Calls -> CallType] /\ \A c \in Calls : call[c].pc = "idle"
  BY DEF Init, NoCall, CallType
<1>3. TypeOK
  BY <1>1, <1>2, SessionConstants DEF Init, TypeOK, Request, CallType, Busy
<1>4. FreeSlots
  BY <1>1 DEF FreeSlots
<1>5. Flight
  BY <1>1, <1>2, SlotFacts DEF Init, Flight, OneLeader, Promised, LogsOut, Leading
<1> QED BY <1>3, <1>4, <1>5 DEF CInv

\* The number of causes stays in its bounds.
LEMMA CauseType ==
  ASSUME causes \in 0 .. MaxCauses, NEW condition, Because(condition)
  PROVE  causes' \in 0 .. MaxCauses
BY SessionConstants DEF Because

\* The server changes how far a request is, never whose it is.
LEMMA ServerStepOK ==
  ASSUME CInv, NEW q \in Slots, ServerStep(q)
  PROVE  CInv'
<1>1. UNCHANGED <<cookie, tabVars, call>>
  BY DEF ServerStep, Lookup, Limited, Load, QueryFails, Rotate, Delete, Insert, Mint,
         RefuseLogin, Revoke
<1>2. PICK x \in Request : /\ req' = [req EXCEPT ![q] = x]
                           /\ x.tab = req[q].tab /\ x.pc \notin {"free", "revoke"}
                           /\ x.pc = "insert" => x.new # None
                           /\ x.pc = "delete" => Kind(q) = "logout" \/ x.new # None
  <2>1. req[q] \in Request
    BY DEF CInv, TypeOK, Request
  <2>2. CASE \E pc \in ReqPc \ {"free", "revoke"} :
               /\ Goto(q, pc)
               /\ pc = "insert" => req[q].new # None
               /\ pc = "delete" => Kind(q) = "logout"
    <3>1. PICK pc \in ReqPc \ {"free", "revoke"} :
            /\ req' = [req EXCEPT ![q].pc = pc]
            /\ pc = "insert" => req[q].new # None
            /\ pc = "delete" => Kind(q) = "logout"
      BY <2>2 DEF Goto
    <3> DEFINE x == [req[q] EXCEPT !.pc = pc]
    <3>2. x \in Request /\ x.tab = req[q].tab /\ x.pc = pc /\ x.new = req[q].new
      BY <2>1 DEF Request
    <3>3. req' = [req EXCEPT ![q] = x]
      BY <3>1
    <3> HIDE DEF x
    <3> QED BY <3>1, <3>2, <3>3
  <2>3. CASE \E out \in Out : Reply(q, out)
    <3>1. PICK out \in Out : req' = [req EXCEPT ![q].pc = "answer", ![q].out = out]
      BY <2>3 DEF Reply
    <3> DEFINE x == [req[q] EXCEPT !.pc = "answer", !.out = out]
    <3>2. x \in Request /\ x.tab = req[q].tab /\ x.pc = "answer"
      BY <2>1 DEF Request
    <3>3. req' = [req EXCEPT ![q] = x]
      BY <2>1, <3>1 DEF CInv, TypeOK, Request
    <3> QED BY <3>2, <3>3
  <2>4. CASE Rotate(q) \/ Mint(q)
    <3>1. PICK k \in Tokens, pc \in {"insert", "delete"} :
            req' = [req EXCEPT ![q].pc = pc, ![q].new = k]
      BY <2>4 DEF Rotate, Mint
    <3> DEFINE x == [req[q] EXCEPT !.pc = pc, !.new = k]
    <3>2. x \in Request /\ x.tab = req[q].tab /\ x.pc = pc /\ x.new # None
      BY <2>1, SessionConstants DEF Request
    <3>3. req' = [req EXCEPT ![q] = x]
      BY <2>1, <3>1 DEF CInv, TypeOK, Request
    <3> QED BY <3>2, <3>3
  <2>5. CASE Lookup(q) \/ Limited(q) \/ Load(q) \/ QueryFails(q) \/ Insert(q) \/ RefuseLogin(q)
    <3>1. CASE Goto(q, "rotate") \/ Goto(q, "load")
      BY <2>2, <3>1
    <3>2. CASE Reply(q, "ok") \/ Reply(q, "denied") \/ Reply(q, "error")
      BY <2>3, <3>2
    <3> QED BY <2>5, <3>1, <3>2 DEF Lookup, Limited, Load, QueryFails, Insert, RefuseLogin
  <2>6. CASE Delete(q)
    BY <2>2, <2>3, <2>6 DEF Delete, CInv, FreeSlots
  <2>7. CASE Revoke(q)
    BY <2>2, <2>3, <2>7 DEF Revoke, CInv, FreeSlots
  <2> QED BY <2>4, <2>5, <2>6, <2>7 DEF ServerStep
<1>3. mem' \subseteq Tokens /\ db' \subseteq Tokens /\ access' \subseteq Tokens
  <2>1. req[q].old \in Tokens \cup {None} /\ req[q].new \in Tokens \cup {None}
    BY DEF CInv, TypeOK
  <2>2. CASE Lookup(q) \/ Limited(q) \/ QueryFails(q) \/ RefuseLogin(q)
    BY <2>2 DEF CInv, TypeOK, Lookup, Limited, QueryFails, RefuseLogin, serverVars
  <2>3. CASE Load(q) \/ Rotate(q) \/ Mint(q)
    BY <2>3 DEF CInv, TypeOK, Load, Rotate, Mint
  <2>4. CASE Delete(q) \/ Revoke(q)
    BY <2>4 DEF CInv, TypeOK, Delete, Revoke
  <2>5. CASE Insert(q)
    BY <2>5 DEF CInv, TypeOK, FreeSlots, Insert
  <2> QED BY <2>2, <2>3, <2>4, <2>5 DEF ServerStep
<1>4. causes' \in 0 .. MaxCauses
  BY CauseType DEF CInv, TypeOK, ServerStep, Lookup, Limited, Load, QueryFails, Rotate,
     Delete,
         Insert, Mint, RefuseLogin, Revoke
<1>5. TypeOK'
  BY <1>1, <1>2, <1>3, <1>4 DEF CInv, TypeOK, Request, tabVars, Busy
<1>6. FreeSlots'
  BY <1>2 DEF CInv, TypeOK, FreeSlots
<1>7. Flight'
  BY <1>1, <1>2, FlightFrame DEF CInv, TypeOK, tabVars
<1> QED BY <1>5, <1>6, <1>7 DEF CInv

\* An access token expires: no request, call or promise changes.
LEMMA ExpireOK == ASSUME CInv, NEW k \in Tokens, Expire(k) PROVE CInv'
<1>1. UNCHANGED <<mem, db, cookie, tabVars, call, req, causes>> /\ access' \subseteq access
  BY DEF Expire
<1>2. TypeOK'
  BY <1>1 DEF CInv, TypeOK, tabVars, Busy
<1>3. FreeSlots'
  BY <1>1 DEF CInv, FreeSlots
<1> QED BY <1>1, <1>2, <1>3, FlightFrame DEF CInv, tabVars

\* A handler whose client has gone frees its slot.
LEMMA DropOK == ASSUME CInv, NEW q \in Slots, Drop(q) PROVE CInv'
<1>1. /\ UNCHANGED <<serverVars, cookie, tabVars, call, causes>>
      /\ req' = [req EXCEPT ![q] = NoReq] /\ req[q].tab = None
  BY DEF Drop
<1>2. TypeOK'
  BY <1>1, NoReqType DEF CInv, TypeOK, tabVars, serverVars, Busy, Request
<1>3. FreeSlots'
  BY <1>1, NoReqType DEF CInv, TypeOK, FreeSlots
<1>4. Flight'
  BY <1>1, NoReqType, FlightFrame DEF CInv, TypeOK, tabVars
<1> QED BY <1>2, <1>3, <1>4 DEF CInv

\* After a restart the requests on their way to a tab are still on their way.
LEMMA RestartOK == ASSUME CInv, Restart PROVE CInv'
<1>1. UNCHANGED <<db, cookie, tabVars, call>> /\ mem' = {} /\ access' = {}
  BY DEF Restart
<1>2. causes' \in 0 .. MaxCauses
  BY CauseType DEF CInv, TypeOK, Restart
<1>3. /\ req' \in [Slots -> Request]
      /\ \A q \in Slots : req'[q].tab = req[q].tab /\ req'[q].pc \in {"free", "answer"}
      /\ \A q \in Slots : req'[q].pc = "free" => req'[q].tab = None
  <2> DEFINE err(q) == [req[q] EXCEPT !.pc = "answer", !.out = "error"]
  <2>1. \A q \in Slots : err(q) \in Request /\ err(q).tab = req[q].tab /\ err(q).pc = "answer"
    BY DEF CInv, TypeOK, Request
  <2>2. \A q \in Slots : ~InFlight(q) => req[q].tab = None
    BY DEF CInv, FreeSlots, InFlight
  <2>3. req' = [q \in Slots |-> IF ~InFlight(q) \/ req[q].tab = None THEN NoReq ELSE err(q)]
    BY DEF Restart
  <2> HIDE DEF err
  <2> QED BY <2>1, <2>2, <2>3, NoReqType
<1>4. TypeOK'
  BY <1>1, <1>2, <1>3 DEF CInv, TypeOK, tabVars, Busy, Request
<1>5. FreeSlots'
  BY <1>3 DEF FreeSlots
<1> QED BY <1>1, <1>3, <1>4, <1>5, FlightFrame DEF CInv, tabVars

\* The grace period ends.
LEMMA GraceOK == ASSUME CInv, NEW t \in Tabs, GraceEnds(t) PROVE CInv'
<1>1. TypeOK'
  BY DEF CInv, TypeOK, GraceEnds, serverVars, Busy
<1>2. FreeSlots'
  BY DEF CInv, FreeSlots, GraceEnds
<1> QED BY <1>1, <1>2, FlightFrame DEF CInv, GraceEnds

\* A login or a logout of the user takes a slot of its tab.
LEMMA UserOK == ASSUME CInv, NEW t \in Tabs, Login(t) \/ Logout(t) PROVE CInv'
<1>1. PICK q \in {<<t, "login">>, <<t, "logout">>}, x \in Request :
        /\ req' = [req EXCEPT ![q] = x] /\ x.pc \in {"mint", "revoke"}
        /\ x.pc = "revoke" => Kind(q) = "logout"
  <2>1. CASE Login(t)
    <3> DEFINE q == <<t, "login">>
    <3> DEFINE x == Sent(q, t, "mint", None)
    <3>1. x \in Request /\ x.pc = "mint"
      BY SentType
    <3>2. req' = [req EXCEPT ![q] = x]
      BY <2>1 DEF Login
    <3> HIDE DEF x
    <3> QED BY <3>1, <3>2
  <2>2. CASE Logout(t)
    <3> DEFINE q == <<t, "logout">>
    <3> DEFINE x == Sent(q, t, "revoke", token[t])
    <3>1. token[t] \in Tokens \cup {None}
      BY DEF CInv, TypeOK
    <3>2. x \in Request /\ x.pc = "revoke"
      BY <3>1, SentType
    <3>3. req' = [req EXCEPT ![q] = x] /\ Kind(q) = "logout"
      BY <2>2 DEF Logout, Kind
    <3> HIDE DEF x
    <3> QED BY <3>2, <3>3
  <2> QED BY <2>1, <2>2
<1>2. q \in Slots /\ q[1] \notin Calls
  BY <1>1, SlotFacts, SessionConstants
<1>3. UNCHANGED <<serverVars, cookie, tabVars, call>>
  BY DEF Login, Logout
<1>4. causes' \in 0 .. MaxCauses
  BY CauseType DEF CInv, TypeOK, Login, Logout
<1>5. TypeOK'
  BY <1>1, <1>2, <1>3, <1>4 DEF CInv, TypeOK, tabVars, serverVars, Busy, Request
<1>6. FreeSlots'
  BY <1>1, <1>2 DEF CInv, TypeOK, FreeSlots
<1> QED BY <1>1, <1>2, <1>3, <1>5, <1>6, FlightFrame DEF CInv, TypeOK, tabVars

\* A call is replaced by one that neither leads, waits nor logs out.
LEMMA CallFrame ==
  ASSUME TypeOK, Flight, NEW c \in Calls, NEW x,
         call' = [call EXCEPT ![c] = x], UNCHANGED <<refreshing, promise, req>>,
         call[c].pc \notin {"lead", "logout"},
         x.pc \in {"idle", "sent", "retry", "unauthorized"}
  PROVE  Flight'
<1>1. call'[c] = x /\ \A d \in Calls : d # c => call'[d] = call[d]
  BY DEF TypeOK
<1>2. OneLeader'
  BY <1>1 DEF Flight, OneLeader, Leading
<1>3. LogsOut'
  BY <1>1 DEF Flight, LogsOut
<1>4. Promised'
  <2>1. ASSUME NEW t \in Tabs, promise'[t] # None
        PROVE  \E d \in Calls : /\ promise'[t] = <<d, "refresh">>
                                /\ req'[<<d, "refresh">>].tab = t
                                /\ call'[d].pc = "lead" /\ call'[d].tab = t
    <3>1. PICK d \in Calls : /\ promise[t] = <<d, "refresh">> /\ req[<<d, "refresh">>].tab = t
                             /\ call[d].pc = "lead" /\ call[d].tab = t
      BY <2>1 DEF Flight, Promised
    <3> QED BY <1>1, <3>1
  <2>2. /\ \A d \in Calls : call'[d].pc = "lead" => promise'[call'[d].tab] = <<d, "refresh">>
        /\ \A d \in Calls : call'[d].pc = "wait" => promise'[call'[d].tab] # None
    BY <1>1 DEF Flight, Promised
  <2>3. \A d \in Calls : req'[<<d, "refresh">>].tab # None =>
        promise'[req'[<<d, "refresh">>].tab] = <<d, "refresh">>
    BY DEF Flight, Promised
  <2> QED BY <2>1, <2>2, <2>3 DEF Promised
<1> QED BY <1>2, <1>3, <1>4 DEF Flight

\* A call begins, ends, repeats or starts to wait.
LEMMA CallsOK ==
  ASSUME CInv, NEW c \in Calls,
         FetchStart(c) \/ FetchReturns(c) \/ RetryUnauthorized(c) \/ RetryInGrace(c)
  PROVE  CInv'
<1>1. PICK x \in CallType :
        /\ call' = [call EXCEPT ![c] = x] /\ x.pc \in {"idle", "sent", "retry", "unauthorized"}
        /\ x.pc \in {"sent", "retry"} => x.tab # None /\ x.bearer # None
  <2>1. CASE FetchStart(c)
    <3>1. PICK t \in Tabs :
            /\ token[t] # None
            /\ call' = [call EXCEPT ![c] = [pc |-> "sent", tab |-> t, bearer |-> token[t]]]
      BY <2>1 DEF FetchStart, DashboardShown
    <3> DEFINE x == [pc |-> "sent", tab |-> t, bearer |-> token[t]]
    <3>2. x \in CallType /\ x.pc = "sent" /\ x.tab # None /\ x.bearer # None
      BY <3>1, SessionConstants DEF CallType, CInv, TypeOK
    <3> QED BY <3>1, <3>2
  <2>2. CASE FetchReturns(c) \/ RetryUnauthorized(c)
    BY <2>2 DEF FetchReturns, RetryUnauthorized, EndCall, NoCall, CallType
  <2>3. CASE RetryInGrace(c)
    <3>1. call[c] \in CallType /\ call[c].tab \in Tabs /\ token[call[c].tab] \in Tokens
      BY <2>3 DEF RetryInGrace, Got401, InGrace, CInv, TypeOK, CallType, Busy
    <3> DEFINE x == [call[c] EXCEPT !.pc = "retry", !.bearer = token[call[c].tab]]
    <3>2. /\ x \in CallType /\ x.pc = "retry" /\ x.tab = call[c].tab
          /\ x.bearer = token[call[c].tab]
      BY <3>1 DEF CallType
    <3>3. call' = [call EXCEPT ![c] = x]
      BY <2>3, <3>1 DEF RetryInGrace, CInv, TypeOK, CallType
    <3> QED BY <3>1, <3>2, <3>3, SessionConstants
  <2> QED BY <2>1, <2>2, <2>3
<1>2. UNCHANGED <<serverVars, cookie, tabVars, req, causes>> /\ call[c].pc \notin {"lead", "logout"}
  BY DEF FetchStart, FetchReturns, RetryUnauthorized, RetryInGrace, Got401, Busy
<1>3. call'[c] = x /\ \A d \in Calls : d # c => call'[d] = call[d]
  BY <1>1 DEF CInv, TypeOK
<1>4. TypeOK'
  <2>1. call' \in [Calls -> CallType]
    BY <1>1 DEF CInv, TypeOK, CallType
  <2>2. \A d \in Calls : Busy(d)' => call'[d].tab # None /\ call'[d].bearer # None
    BY <1>1, <1>3 DEF CInv, TypeOK, Busy
  <2> QED BY <1>2, <2>1, <2>2 DEF CInv, TypeOK, tabVars, serverVars, CallType
<1>5. FreeSlots'
  BY <1>2 DEF CInv, FreeSlots
<1> QED BY <1>1, <1>2, <1>4, <1>5, CallFrame DEF CInv, tabVars

\* A call that waits has a promise to wait for.
LEMMA WaitOK == ASSUME CInv, NEW c \in Calls, WaitForRefresh(c) PROVE CInv'
<1>0. /\ call[c].pc = "sent" /\ UNCHANGED <<serverVars, cookie, tabVars, req, causes>>
      /\ call[c] \in CallType /\ call[c].tab \in Tabs /\ call[c].bearer # None
  BY DEF WaitForRefresh, Got401, CInv, TypeOK, CallType, Busy
<1>1. PICK x \in CallType :
        /\ call' = [call EXCEPT ![c] = x]
        /\ \/ x.pc = "unauthorized"
           \/ /\ x.pc = "wait" /\ x.tab = call[c].tab
              /\ x.bearer = call[c].bearer /\ promise[x.tab] # None
  <2>1. CASE promise[call[c].tab] = None
    <3> DEFINE x == [NoCall EXCEPT !.pc = "unauthorized"]
    <3>1. x \in CallType /\ x.pc = "unauthorized"
      BY DEF NoCall, CallType
    <3>2. call' = [call EXCEPT ![c] = x]
      BY <2>1 DEF WaitForRefresh, EndCall
    <3> HIDE DEF x
    <3> QED BY <3>1, <3>2
  <2>2. CASE promise[call[c].tab] # None
    <3> DEFINE x == [call[c] EXCEPT !.pc = "wait"]
    <3>1. /\ x \in CallType /\ x.pc = "wait" /\ x.tab = call[c].tab
          /\ x.bearer = call[c].bearer /\ promise[x.tab] # None
      BY <1>0, <2>2 DEF CallType
    <3>2. call' = [call EXCEPT ![c] = x]
      BY <2>2 DEF WaitForRefresh
    <3> HIDE DEF x
    <3> QED BY <3>1, <3>2
  <2> QED BY <2>1, <2>2
<1>3. call'[c] = x /\ \A d \in Calls : d # c => call'[d] = call[d]
  BY <1>1 DEF CInv, TypeOK
<1>4. TypeOK'
  <2>1. call' \in [Calls -> CallType]
    BY <1>1 DEF CInv, TypeOK, CallType
  <2>2. \A d \in Calls : Busy(d)' => call'[d].tab # None /\ call'[d].bearer # None
    BY <1>0, <1>1, <1>3, SessionConstants DEF CInv, TypeOK, Busy
  <2> QED BY <1>0, <2>1, <2>2 DEF CInv, TypeOK, tabVars, serverVars, CallType
<1>5. FreeSlots'
  BY <1>0 DEF CInv, FreeSlots
<1>6. OneLeader'
  BY <1>0, <1>1, <1>3 DEF CInv, Flight, OneLeader, Leading, tabVars
<1>7. LogsOut'
  BY <1>0, <1>1, <1>3 DEF CInv, Flight, LogsOut
<1>8. Promised'
  <2>0. UNCHANGED <<promise, req>>
    BY <1>0 DEF tabVars
  <2>1. ASSUME NEW t \in Tabs, promise'[t] # None
        PROVE  \E d \in Calls : /\ promise'[t] = <<d, "refresh">>
                                /\ req'[<<d, "refresh">>].tab = t
                                /\ call'[d].pc = "lead" /\ call'[d].tab = t
    <3>1. PICK d \in Calls : /\ promise[t] = <<d, "refresh">> /\ req[<<d, "refresh">>].tab = t
                             /\ call[d].pc = "lead" /\ call[d].tab = t
      BY <2>0, <2>1 DEF CInv, Flight, Promised
    <3> QED BY <1>0, <1>3, <2>0, <3>1
  <2>2. /\ \A d \in Calls : call'[d].pc = "lead" => promise'[call'[d].tab] = <<d, "refresh">>
        /\ \A d \in Calls : call'[d].pc = "wait" => promise'[call'[d].tab] # None
    BY <1>1, <1>3, <2>0 DEF CInv, Flight, Promised
  <2>3. \A d \in Calls : req'[<<d, "refresh">>].tab # None =>
        promise'[req'[<<d, "refresh">>].tab] = <<d, "refresh">>
    BY <2>0 DEF CInv, Flight, Promised
  <2> QED BY <2>1, <2>2, <2>3 DEF Promised
<1> QED BY <1>4, <1>5, <1>6, <1>7, <1>8 DEF CInv, Flight

\* The first call that sees a 401 leads; the promise is its request.
LEMMA StartOK == ASSUME CInv, NEW c \in Calls, StartRefresh(c) PROVE CInv'
<1> DEFINE q == <<c, "refresh">>
<1>0. PICK t \in Tabs :
        /\ call[c].tab = t /\ call[c].pc = "sent" /\ call[c].bearer # None
        /\ call[c] \in CallType /\ refreshing[t] = FALSE
        /\ refreshing' = [refreshing EXCEPT ![t] = TRUE]
        /\ call' = [call EXCEPT ![c].pc = "lead"]
        /\ UNCHANGED <<serverVars, cookie, token, starting, recent>>
  BY DEF StartRefresh, Got401, MayLead, CInv, TypeOK, CallType, Busy
<1>1. promise[t] = None
  <2> SUFFICES ASSUME promise[t] # None PROVE FALSE
    OBVIOUS
  <2>1. PICK d \in Calls : call[d].pc = "lead" /\ call[d].tab = t
    BY DEF CInv, Flight, Promised
  <2> QED BY <1>0, <2>1 DEF CInv, Flight, OneLeader, Leading
<1>2. /\ promise' = [promise EXCEPT ![t] = q]
      /\ req' = [req EXCEPT ![q] = Sent(q, t, "lookup", cookie)]
      /\ Because(Overlapping(q))
  BY <1>0, <1>1 DEF StartRefresh
<1>3. q \in Slots /\ \A d \in Calls : <<d, "refresh">> = q => d = c
  BY SlotFacts
<1>4. /\ call'[c] \in CallType /\ call'[c].pc = "lead" /\ call'[c].tab = t /\ call'[c].bearer # None
      /\ \A d \in Calls : d # c => call'[d] = call[d]
  BY <1>0 DEF CInv, TypeOK, CallType
<1>5. /\ req'[q] \in Request /\ req'[q].tab = t /\ req'[q].pc = "lookup"
      /\ \A p \in Slots : p # q => req'[p] = req[p]
      /\ req' \in [Slots -> Request]
  <2> DEFINE x == Sent(q, t, "lookup", cookie)
  <2>1. x \in Request /\ x.tab = t /\ x.pc = "lookup"
    <3>1. cookie \in Tokens \cup {None}
      BY DEF CInv, TypeOK
    <3> QED BY <3>1, SentType
  <2>2. req \in [Slots -> Request] /\ req' = [req EXCEPT ![q] = x]
    BY <1>2 DEF CInv, TypeOK, Request
  <2> HIDE DEF x
  <2> QED BY <1>3, <2>1, <2>2
<1>6. TypeOK'
  <2>1. call' \in [Calls -> CallType]
    BY <1>0, <1>4 DEF CInv, TypeOK, CallType
  <2>2. \A d \in Calls : Busy(d)' => call'[d].tab # None /\ call'[d].bearer # None
    BY <1>4, SessionConstants DEF CInv, TypeOK, Busy
  <2>3. causes' \in 0 .. MaxCauses
    BY <1>2, CauseType DEF CInv, TypeOK
  <2>4. promise' \in [Tabs -> Slots \cup {None}] /\ refreshing' \in [Tabs -> BOOLEAN]
    BY <1>0, <1>2, <1>3 DEF CInv, TypeOK
  <2> QED BY <1>0, <1>5, <2>1, <2>2, <2>3, <2>4 DEF CInv, TypeOK, serverVars, CallType,
       Request
<1>7. FreeSlots'
  BY <1>5 DEF CInv, FreeSlots
<1>8. OneLeader'
  <2>1. \A d \in Calls : ~Leading(d, t)
    BY <1>0 DEF CInv, Flight, OneLeader
  <2>2. \A d \in Calls, u \in Tabs : Leading(d, u)' <=> Leading(d, u) \/ (d = c /\ u = t)
    BY <1>0, <1>4 DEF Leading
  <2>3. \A u \in Tabs : refreshing'[u] <=> refreshing[u] \/ u = t
    BY <1>0 DEF CInv, TypeOK
  <2> QED BY <2>1, <2>2, <2>3 DEF CInv, Flight, OneLeader
<1>9. LogsOut'
  <2>1. \A d \in Calls : req'[<<d, "logout">>] = req[<<d, "logout">>]
    BY <1>5, SlotFacts
  <2> QED BY <1>0, <1>4, <2>1 DEF CInv, Flight, LogsOut
<1>10. Promised'
  <2>1. promise'[t] = q /\ \A u \in Tabs : u # t => promise'[u] = promise[u]
    BY <1>2 DEF CInv, TypeOK
  <2>2. \A d \in Calls : d # c => req'[<<d, "refresh">>] = req[<<d, "refresh">>]
    BY <1>5, SlotFacts
  <2>3. ASSUME NEW u \in Tabs, promise'[u] # None
        PROVE  \E d \in Calls : /\ promise'[u] = <<d, "refresh">>
                                /\ req'[<<d, "refresh">>].tab = u
                                /\ call'[d].pc = "lead" /\ call'[d].tab = u
    <3>1. CASE u = t
      BY <1>4, <1>5, <2>1, <3>1
    <3>2. CASE u # t
      <4>1. PICK d \in Calls : /\ promise[u] = <<d, "refresh">> /\ req[<<d, "refresh">>].tab = u
                               /\ call[d].pc = "lead" /\ call[d].tab = u
        BY <2>1, <2>3, <3>2 DEF CInv, Flight, Promised
      <4> QED BY <1>0, <1>4, <2>1, <2>2, <3>2, <4>1
    <3> QED BY <3>1, <3>2
  <2>4. ASSUME NEW d \in Calls, call'[d].pc \in {"lead", "wait"}
        PROVE  /\ promise'[call'[d].tab] # None
               /\ call'[d].pc = "lead" => promise'[call'[d].tab] = <<d, "refresh">>
    <3>1. CASE d = c
      BY <1>3, <1>4, <2>1, <3>1, SlotFacts
    <3>2. CASE d # c
      <4>1. call'[d] = call[d] /\ call[d].tab \in Tabs
        BY <1>4, <2>4, <3>2 DEF CInv, TypeOK, Busy
      <4>2. promise[call[d].tab] # None
        <5>1. CASE call[d].pc = "wait"
          BY <5>1 DEF CInv, Flight, Promised
        <5>2. CASE call[d].pc = "lead"
          <6>1. promise[call[d].tab] = <<d, "refresh">>
            BY <5>2 DEF CInv, Flight, Promised
          <6> QED BY <6>1, SlotFacts
        <5> QED BY <2>4, <4>1, <5>1, <5>2
      <4> QED BY <1>1, <2>1, <2>4, <4>1, <4>2 DEF CInv, Flight, Promised
    <3> QED BY <3>1, <3>2
  <2>5. ASSUME NEW d \in Calls, req'[<<d, "refresh">>].tab # None
        PROVE  promise'[req'[<<d, "refresh">>].tab] = <<d, "refresh">>
    <3>1. CASE d = c
      BY <1>5, <2>1, <3>1
    <3>2. CASE d # c
      <4>1. /\ req[<<d, "refresh">>].tab \in Tabs
            /\ promise[req[<<d, "refresh">>].tab] = <<d, "refresh">>
        <5>1. req[<<d, "refresh">>].tab # None
          BY <2>2, <2>5, <3>2
        <5>2. req[<<d, "refresh">>].tab \in Tabs
          BY <5>1, SlotFacts DEF CInv, TypeOK
        <5> QED BY <5>1, <5>2 DEF CInv, Flight, Promised
      <4>2. req[<<d, "refresh">>].tab # t
        BY <1>1, <4>1, SlotFacts
      <4> QED BY <2>1, <2>2, <3>2, <4>1, <4>2
    <3> QED BY <3>1, <3>2
  <2> QED BY <2>3, <2>4, <2>5 DEF Promised
<1> QED BY <1>6, <1>7, <1>8, <1>9, <1>10 DEF CInv, Flight

\* What the browser's part of the types is, and the server's.
ClientTypes ==
    /\ token \in [Tabs -> Tokens \cup {None}]
    /\ starting \in [Tabs -> BOOLEAN] /\ refreshing \in [Tabs -> BOOLEAN]
    /\ promise \in [Tabs -> Slots \cup {None}] /\ recent \in [Tabs -> BOOLEAN]
    /\ call \in [Calls -> CallType]
    /\ \A c \in Calls : Busy(c) => call[c].tab # None /\ call[c].bearer # None
    /\ req \in [Slots -> Request]

ServerTypes ==
    /\ mem \subseteq Tokens /\ db \subseteq Tokens /\ access \subseteq Tokens
    /\ cookie \in Tokens \cup {None} /\ causes \in 0 .. MaxCauses

\* The two parts make the type invariant.
LEMMA TypeParts == TypeOK <=> ClientTypes /\ ServerTypes
BY DEF TypeOK, ClientTypes, ServerTypes, CallType, Request

\* What may stay of a request that its client does not wait for any more.
Orphan(q, left) ==
    /\ left \in Request /\ left.tab = None
    /\ left.pc = "revoke" => Kind(q) = "logout"
    /\ left.pc = "insert" => left.new # None
    /\ left.pc = "delete" => Kind(q) = "logout" \/ left.new # None

\* A restoration or a login settles: no call is concerned.
LEMMA TabSettled ==
  ASSUME CInv, NEW q \in Slots, NEW out, NEW left, Orphan(q, left), req[q].tab # None,
         \/ Kind(q) = "restore" /\ RestoreSettled(q, out, left)
         \/ Kind(q) = "login" /\ LoginSettled(q, out, left)
         \/ Kind(q) = "logout" /\ q[1] \notin Calls /\ LogoutSettled(q, left)
  PROVE  ClientTypes' /\ FreeSlots' /\ Flight'
<1>1. req[q].tab \in Tabs /\ req[q].new \in Tokens \cup {None} /\ q[1] \notin Calls
  BY SlotFacts DEF CInv, TypeOK
<1>2. /\ req' = [req EXCEPT ![q] = left]
      /\ UNCHANGED <<call, refreshing, promise, recent>>
  BY <1>1 DEF RestoreSettled, LoginSettled, LogoutSettled
<1>3. token' \in [Tabs -> Tokens \cup {None}] /\ starting' \in [Tabs -> BOOLEAN]
  <2>1. CASE RestoreSettled(q, out, left)
    <3>1. PICK k \in Tokens \cup {None} : token' = [token EXCEPT ![req[q].tab] = k]
      <4>1. token[req[q].tab] \in Tokens \cup {None}
        BY <1>1 DEF CInv, TypeOK
      <4> QED BY <1>1, <2>1, <4>1 DEF RestoreSettled
    <3> QED BY <1>1, <2>1, <3>1 DEF RestoreSettled, CInv, TypeOK
  <2>2. CASE LoginSettled(q, out, left)
    BY <1>1, <2>2 DEF LoginSettled, CInv, TypeOK
  <2>3. CASE LogoutSettled(q, left)
    BY <1>1, <2>3 DEF LogoutSettled, CInv, TypeOK
  <2> QED BY <2>1, <2>2, <2>3
<1>4. ClientTypes'
  BY <1>2, <1>3, TypeParts DEF CInv, ClientTypes, Orphan, Busy
<1>5. FreeSlots'
  BY <1>2 DEF CInv, TypeOK, FreeSlots, Orphan
<1>6. Flight'
  BY <1>1, <1>2, FlightFrame DEF CInv, TypeOK
<1> QED BY <1>4, <1>5, <1>6

\* The logout of a call settles: it returns, and nobody leads in its tab.
LEMMA CallLogoutSettled ==
  ASSUME CInv, NEW q \in Slots, NEW left, Orphan(q, left), req[q].tab # None,
         Kind(q) = "logout", q[1] \in Calls, LogoutSettled(q, left)
  PROVE  ClientTypes' /\ FreeSlots' /\ Flight'
<1>1. PICK t \in Tabs, c \in Calls :
        /\ req[q].tab = t /\ q = <<c, "logout">> /\ q[1] = c
        /\ call[c].pc = "logout" /\ call[c].tab = t
  BY SlotFacts DEF CInv, TypeOK, Flight, LogsOut
<1>2. /\ token' = [token EXCEPT ![t] = None] /\ refreshing' = [refreshing EXCEPT ![t] = FALSE]
      /\ req' = [req EXCEPT ![q] = left] /\ call' = EndCall(c, "unauthorized")
      /\ UNCHANGED <<starting, promise, recent>>
  BY <1>1 DEF LogoutSettled
<1>3. /\ call' \in [Calls -> CallType] /\ call'[c].pc = "unauthorized"
      /\ \A d \in Calls : d # c => call'[d] = call[d]
  BY <1>2 DEF EndCall, NoCall, CallType, CInv, TypeOK
<1>4. /\ req' \in [Slots -> Request] /\ req'[q] = left
      /\ \A p \in Slots : p # q => req'[p] = req[p]
  BY <1>2 DEF CInv, TypeOK, Orphan, Request
<1>5. ClientTypes'
  <2>1. \A d \in Calls : Busy(d)' => call'[d].tab # None /\ call'[d].bearer # None
    BY <1>3 DEF CInv, TypeOK, Busy
  <2> QED BY <1>2, <1>3, <1>4, <2>1 DEF CInv, TypeOK, ClientTypes
<1>6. FreeSlots'
  BY <1>4 DEF CInv, FreeSlots, Orphan
<1>7. promise[t] = None
  <2> SUFFICES ASSUME promise[t] # None PROVE FALSE
    OBVIOUS
  <2>1. PICK d \in Calls : call[d].pc = "lead" /\ call[d].tab = t
    BY DEF CInv, Flight, Promised
  <2> QED BY <1>1, <2>1 DEF CInv, Flight, OneLeader, Leading
<1>8. OneLeader'
  <2>1. \A d \in Calls, u \in Tabs : Leading(d, u)' <=> Leading(d, u) /\ d # c
    BY <1>3 DEF Leading
  <2>2. \A d \in Calls, u \in Tabs : Leading(d, u) /\ d = c => u = t
    BY <1>1 DEF Leading
  <2>3. \A d \in Calls : Leading(d, t) => d = c
    BY <1>1 DEF CInv, Flight, OneLeader, Leading
  <2>4. ~refreshing'[t] /\ \A u \in Tabs : u # t => refreshing'[u] = refreshing[u]
    BY <1>2 DEF CInv, TypeOK
  <2> QED BY <2>1, <2>2, <2>3, <2>4 DEF CInv, Flight, OneLeader
<1>9. LogsOut'
  <2>1. \A d \in Calls : d # c => req'[<<d, "logout">>] = req[<<d, "logout">>]
    BY <1>1, <1>4, SlotFacts
  <2>2. req'[<<c, "logout">>].tab = None
    BY <1>1, <1>4 DEF Orphan
  <2> QED BY <1>3, <2>1, <2>2 DEF CInv, Flight, LogsOut
<1>10. Promised'
  <2>1. \A d \in Calls : req'[<<d, "refresh">>] = req[<<d, "refresh">>]
    BY <1>1, <1>4, SlotFacts
  <2>2. ASSUME NEW u \in Tabs, promise'[u] # None
        PROVE  \E d \in Calls : /\ promise'[u] = <<d, "refresh">>
                                /\ req'[<<d, "refresh">>].tab = u
                                /\ call'[d].pc = "lead" /\ call'[d].tab = u
    <3>1. PICK d \in Calls : /\ promise[u] = <<d, "refresh">> /\ req[<<d, "refresh">>].tab = u
                             /\ call[d].pc = "lead" /\ call[d].tab = u
      BY <1>2, <2>2 DEF CInv, Flight, Promised
    <3> QED BY <1>1, <1>2, <1>3, <2>1, <3>1
  <2>3. /\ \A d \in Calls : call'[d].pc = "lead" => promise'[call'[d].tab] = <<d, "refresh">>
        /\ \A d \in Calls : call'[d].pc = "wait" => promise'[call'[d].tab] # None
    <3>1. \A d \in Calls : call'[d].pc \in {"lead", "wait"} => call'[d] = call[d]
      BY <1>3
    <3>2. promise' = promise
      BY <1>2
    <3> QED BY <3>1, <3>2 DEF CInv, Flight, Promised
  <2>4. \A d \in Calls : req'[<<d, "refresh">>].tab # None =>
        promise'[req'[<<d, "refresh">>].tab] = <<d, "refresh">>
    BY <1>2, <2>1 DEF CInv, Flight, Promised
  <2> QED BY <2>2, <2>3, <2>4 DEF Promised
<1> QED BY <1>5, <1>6, <1>8, <1>9, <1>10 DEF Flight

\* A refresh settles: everybody who awaits it repeats its call, returns or, if
\* there is no token left, the leader logs the tab out.
LEMMA RefreshSettledOK ==
  ASSUME CInv, NEW q \in Slots, NEW out, NEW left, Orphan(q, left), req[q].tab # None,
         Kind(q) = "refresh", RefreshSettled(q, out, left)
  PROVE  ClientTypes' /\ FreeSlots' /\ Flight'
<1>1. PICK t \in Tabs, c \in Calls :
        /\ req[q].tab = t /\ q = <<c, "refresh">> /\ q[1] = c /\ promise[t] = q
        /\ call[c].pc = "lead" /\ call[c].tab = t
  <2>1. PICK c \in Calls : q = <<c, "refresh">> /\ q[1] = c
    BY SlotFacts
  <2>2. req[q].tab \in Tabs /\ promise[req[q].tab] = q
    BY <2>1 DEF CInv, TypeOK, Flight, Promised
  <2>3. PICK d \in Calls : /\ promise[req[q].tab] = <<d, "refresh">>
                           /\ call[d].pc = "lead" /\ call[d].tab = req[q].tab
    BY <2>2, SlotFacts DEF CInv, Flight, Promised
  <2> QED BY <2>1, <2>2, <2>3
<1> DEFINE k0 == CASE out = "ok" -> req[q].new [] out = "denied" -> None [] OTHER -> token[t]
<1> DEFINE again0 == out = "ok" /\ k0 # None
<1> DEFINE giveUp0 == ~again0 /\ k0 = None
<1>2. k0 \in Tokens \cup {None}
  BY <1>1 DEF CInv, TypeOK
<1>3. PICK k \in Tokens \cup {None}, again \in BOOLEAN, giveUp \in BOOLEAN :
        /\ again => k # None /\ ~giveUp
        /\ token' = [token EXCEPT ![t] = k] /\ promise' = [promise EXCEPT ![t] = None]
        /\ recent' = [recent EXCEPT ![t] = TRUE] /\ refreshing' = [refreshing EXCEPT ![t] = giveUp]
        /\ call' = [d \in Calls |->
             IF ~Awaits(d, t) THEN call[d]
             ELSE IF again THEN [call[d] EXCEPT !.pc = "retry", !.bearer = k]
             ELSE IF call[d].pc = "lead" /\ giveUp THEN [call[d] EXCEPT !.pc = "logout"]
             ELSE [NoCall EXCEPT !.pc = "unauthorized"]]
        /\ req' = IF giveUp
                  THEN [req EXCEPT ![q] = left,
                                   ![<<c, "logout">>] = Sent(q, t, "revoke", None)]
                  ELSE [req EXCEPT ![q] = left]
        /\ UNCHANGED starting
  <2>1. again0 \in BOOLEAN /\ giveUp0 \in BOOLEAN /\ (again0 => k0 # None /\ ~giveUp0)
    OBVIOUS
  <2>2. /\ token' = [token EXCEPT ![t] = k0] /\ promise' = [promise EXCEPT ![t] = None]
        /\ recent' = [recent EXCEPT ![t] = TRUE] /\ refreshing' = [refreshing EXCEPT ![t] = giveUp0]
        /\ call' = [d \in Calls |->
             IF ~Awaits(d, t) THEN call[d]
             ELSE IF again0 THEN [call[d] EXCEPT !.pc = "retry", !.bearer = k0]
             ELSE IF call[d].pc = "lead" /\ giveUp0 THEN [call[d] EXCEPT !.pc = "logout"]
             ELSE [NoCall EXCEPT !.pc = "unauthorized"]]
        /\ req' = IF giveUp0
                  THEN [req EXCEPT ![q] = left,
                                   ![<<c, "logout">>] = Sent(q, t, "revoke", None)]
                  ELSE [req EXCEPT ![q] = left]
        /\ UNCHANGED starting
    BY <1>1 DEF RefreshSettled
  <2> HIDE DEF k0, again0, giveUp0
  <2> QED BY <1>2, <2>1, <2>2
<1> HIDE DEF k0, again0, giveUp0
\* What becomes of the calls.
<1>4. /\ call' \in [Calls -> CallType]
      /\ \A d \in Calls : ~Awaits(d, t) => call'[d] = call[d]
      /\ \A d \in Calls : Awaits(d, t) =>
            \/ /\ call'[d].pc = "retry" /\ call'[d].tab = t /\ call'[d].bearer # None
               /\ again
            \/ /\ call'[d].pc = "logout" /\ call'[d].tab = t /\ call'[d].bearer # None
               /\ giveUp /\ call[d].pc = "lead"
            \/ call'[d].pc = "unauthorized" /\ ~(giveUp /\ call[d].pc = "lead")
  <2>1. ASSUME NEW d \in Calls
        PROVE  /\ call'[d] \in CallType
               /\ ~Awaits(d, t) => call'[d] = call[d]
               /\ Awaits(d, t) =>
                    \/ /\ call'[d].pc = "retry" /\ call'[d].tab = t
                       /\ call'[d].bearer # None /\ again
                    \/ /\ call'[d].pc = "logout" /\ call'[d].tab = t
                       /\ call'[d].bearer # None /\ giveUp /\ call[d].pc = "lead"
                    \/ call'[d].pc = "unauthorized" /\ ~(giveUp /\ call[d].pc = "lead")
    <3>1. call[d] \in CallType /\ (Awaits(d, t) => call[d].bearer # None /\ call[d].tab = t)
      BY DEF CInv, TypeOK, CallType, Awaits, Busy
    <3>2. CASE ~Awaits(d, t)
      BY <1>3, <3>1, <3>2
    <3>3. CASE Awaits(d, t) /\ again
      <4>1. call'[d] = [call[d] EXCEPT !.pc = "retry", !.bearer = k]
        BY <1>3, <3>3
      <4> QED BY <1>3, <3>1, <3>3, <4>1 DEF CallType
    <3>4. CASE Awaits(d, t) /\ ~again /\ call[d].pc = "lead" /\ giveUp
      <4>1. call'[d] = [call[d] EXCEPT !.pc = "logout"]
        BY <1>3, <3>4
      <4> QED BY <3>1, <3>4, <4>1 DEF CallType
    <3>5. CASE Awaits(d, t) /\ ~again /\ ~(call[d].pc = "lead" /\ giveUp)
      <4>1. call'[d] = [NoCall EXCEPT !.pc = "unauthorized"]
        BY <1>3, <3>5
      <4> QED BY <3>5, <4>1 DEF CallType, NoCall
    <3> QED BY <3>2, <3>3, <3>4, <3>5
  <2>2. call' = [d \in Calls |-> call'[d]]
    BY <1>3
  <2> QED BY <2>1, <2>2
\* And of the requests.
<1>5. /\ req' \in [Slots -> Request] /\ req'[q] = left
      /\ \A p \in Slots : p # q /\ p # <<c, "logout">> => req'[p] = req[p]
      /\ IF giveUp THEN req'[<<c, "logout">>].tab = t /\ req'[<<c, "logout">>].pc = "revoke"
                   ELSE req'[<<c, "logout">>] = req[<<c, "logout">>]
  <2>1. <<c, "logout">> \in Slots /\ <<c, "logout">> # q
    BY <1>1, SlotFacts
  <2> DEFINE x == Sent(q, t, "revoke", None)
  <2>2. x \in Request /\ x.tab = t /\ x.pc = "revoke"
    BY SentType
  <2>3. req \in [Slots -> Request] /\ left \in Request
    BY DEF CInv, TypeOK, Orphan, Request
  <2>4. req' = IF giveUp THEN [req EXCEPT ![q] = left, ![<<c, "logout">>] = x]
                         ELSE [req EXCEPT ![q] = left]
    BY <1>3
  <2> HIDE DEF x
  <2> QED BY <2>1, <2>2, <2>3, <2>4
<1>6. ClientTypes'
  <2>1. \A d \in Calls : Busy(d)' => call'[d].tab # None /\ call'[d].bearer # None
    BY <1>4, SessionConstants DEF CInv, TypeOK, Busy
  <2> QED BY <1>3, <1>4, <1>5, <2>1 DEF CInv, TypeOK, ClientTypes
<1>7. FreeSlots'
  <2>1. Kind(<<c, "logout">>) = "logout"
    BY DEF Kind
  <2>2. \A p \in Slots : p # <<c, "logout">> =>
          /\ req'[p].pc = "free" => req'[p].tab = None
          /\ req'[p].pc = "revoke" => Kind(p) = "logout"
          /\ req'[p].pc = "insert" => req'[p].new # None
          /\ req'[p].pc = "delete" => Kind(p) = "logout" \/ req'[p].new # None
    BY <1>5 DEF CInv, FreeSlots, Orphan
  <2>3. <<c, "logout">> \in Slots
    BY SlotFacts
  <2> QED BY <1>5, <2>1, <2>2, <2>3 DEF CInv, FreeSlots
<1>8. /\ promise'[t] = None /\ \A u \in Tabs : u # t => promise'[u] = promise[u]
      /\ refreshing'[t] = giveUp /\ \A u \in Tabs : u # t => refreshing'[u] = refreshing[u]
  BY <1>3 DEF CInv, TypeOK
<1>9. \A d \in Calls : Leading(d, t) => d = c
  BY <1>1 DEF CInv, Flight, OneLeader, Leading
<1>10. OneLeader'
  <2>1. \A d \in Calls : Leading(d, t)' <=> d = c /\ giveUp
    <3>1. Awaits(c, t) /\ (giveUp => ~again)
      BY <1>1, <1>3 DEF Awaits
    <3>2. giveUp => call'[c].pc = "logout" /\ call'[c].tab = t
      BY <1>1, <1>4, <3>1
    <3>3. ~giveUp => call'[c].pc \notin {"lead", "logout"}
      BY <1>1, <1>4, <3>1
    <3>4. \A d \in Calls : d # c => ~(call'[d].tab = t /\ call'[d].pc \in {"lead", "logout"})
      BY <1>4, <1>9 DEF Leading, Awaits
    <3> QED BY <3>2, <3>3, <3>4 DEF Leading
  <2>2. \A d \in Calls, u \in Tabs : u # t => (Leading(d, u)' <=> Leading(d, u))
    BY <1>4 DEF Leading, Awaits, CInv, TypeOK, CallType
  <2> QED BY <1>8, <2>1, <2>2 DEF CInv, Flight, OneLeader
<1>11. LogsOut'
  <2>1. ASSUME NEW d \in Calls, d # c, req'[<<d, "logout">>].tab # None
        PROVE  call'[d].pc = "logout" /\ call'[d].tab = req'[<<d, "logout">>].tab
    <3>1. req'[<<d, "logout">>] = req[<<d, "logout">>]
      BY <1>1, <1>5, <2>1, SlotFacts
    <3>2. call[d].pc = "logout" /\ call[d].tab = req[<<d, "logout">>].tab
      BY <2>1, <3>1 DEF CInv, Flight, LogsOut
    <3> QED BY <1>4, <3>1, <3>2 DEF Awaits
  <2>2. ASSUME req'[<<c, "logout">>].tab # None
        PROVE  call'[c].pc = "logout" /\ call'[c].tab = req'[<<c, "logout">>].tab
    <3>1. giveUp
      BY <1>1, <1>5, <2>2 DEF CInv, Flight, LogsOut
    <3>2. ~again
      BY <1>3, <3>1
    <3>3. Awaits(c, t)
      BY <1>1 DEF Awaits
    <3>4. call'[c] = [call[c] EXCEPT !.pc = "logout"]
      BY <1>1, <1>3, <3>1, <3>2, <3>3
    <3> QED BY <1>1, <1>5, <3>1, <3>4 DEF CInv, TypeOK, CallType
  <2> QED BY <2>1, <2>2 DEF LogsOut
<1>12. Promised'
  <2>1. \A d \in Calls : d # c => req'[<<d, "refresh">>] = req[<<d, "refresh">>]
    BY <1>1, <1>5, SlotFacts
  <2>2. ASSUME NEW u \in Tabs, promise'[u] # None
        PROVE  \E d \in Calls : /\ promise'[u] = <<d, "refresh">>
                                /\ req'[<<d, "refresh">>].tab = u
                                /\ call'[d].pc = "lead" /\ call'[d].tab = u
    <3>1. u # t
      BY <1>8, <2>2
    <3>2. PICK d \in Calls : /\ promise[u] = <<d, "refresh">> /\ req[<<d, "refresh">>].tab = u
                             /\ call[d].pc = "lead" /\ call[d].tab = u
      BY <1>8, <2>2, <3>1 DEF CInv, Flight, Promised
    <3> QED BY <1>1, <1>4, <1>8, <2>1, <3>1, <3>2 DEF Awaits
  <2>3. ASSUME NEW d \in Calls, call'[d].pc \in {"lead", "wait"}
        PROVE  /\ promise'[call'[d].tab] # None
               /\ call'[d].pc = "lead" => promise'[call'[d].tab] = <<d, "refresh">>
    <3>1. call'[d] = call[d] /\ ~Awaits(d, t)
      BY <1>4, <2>3
    <3>2. call[d].tab \in Tabs /\ call[d].tab # t
      BY <2>3, <3>1 DEF CInv, TypeOK, Busy, Awaits
    <3>3. promise'[call[d].tab] = promise[call[d].tab]
      BY <1>8, <3>2
    <3>4. CASE call[d].pc = "wait"
      BY <3>1, <3>3, <3>4 DEF CInv, Flight, Promised
    <3>5. CASE call[d].pc = "lead"
      <4>1. promise[call[d].tab] = <<d, "refresh">>
        BY <3>5 DEF CInv, Flight, Promised
      <4> QED BY <3>1, <3>3, <4>1, SlotFacts
    <3> QED BY <2>3, <3>1, <3>4, <3>5
  <2>4. ASSUME NEW d \in Calls, req'[<<d, "refresh">>].tab # None
        PROVE  promise'[req'[<<d, "refresh">>].tab] = <<d, "refresh">>
    <3>1. d # c
      BY <1>1, <1>5, <2>4 DEF Orphan
    <3>2. req'[<<d, "refresh">>] = req[<<d, "refresh">>] /\ req[<<d, "refresh">>].tab \in Tabs
      <4>1. req'[<<d, "refresh">>] = req[<<d, "refresh">>]
        BY <2>1, <3>1
      <4>2. req[<<d, "refresh">>].tab # None
        BY <2>4, <4>1
      <4> QED BY <4>1, <4>2, SlotFacts DEF CInv, TypeOK
    <3>3. promise[req[<<d, "refresh">>].tab] = <<d, "refresh">>
      BY <2>4, <3>2 DEF CInv, Flight, Promised
    <3>4. req[<<d, "refresh">>].tab # t
      BY <1>1, <3>1, <3>3
    <3> QED BY <1>8, <3>2, <3>3, <3>4
  <2> QED BY <2>2, <2>3, <2>4 DEF Promised
<1> QED BY <1>6, <1>7, <1>10, <1>11, <1>12 DEF Flight

\* Whatever a request settles with, the browser's part of the invariant holds.
LEMMA SettledOK ==
  ASSUME CInv, NEW q \in Slots, NEW out, NEW left, Orphan(q, left), req[q].tab # None,
         Settled(q, out, left)
  PROVE  ClientTypes' /\ FreeSlots' /\ Flight'
<1>1. CASE Kind(q) = "refresh" /\ RefreshSettled(q, out, left)
  BY <1>1, RefreshSettledOK
<1>2. CASE Kind(q) = "logout" /\ q[1] \in Calls /\ LogoutSettled(q, left)
  BY <1>2, CallLogoutSettled
<1>3. CASE \/ Kind(q) = "restore" /\ RestoreSettled(q, out, left)
           \/ Kind(q) = "login" /\ LoginSettled(q, out, left)
           \/ Kind(q) = "logout" /\ q[1] \notin Calls /\ LogoutSettled(q, left)
  BY <1>3, TabSettled
<1> QED BY <1>1, <1>2, <1>3 DEF Settled

\* An answer arrives.
LEMMA ArriveOK == ASSUME CInv, NEW q \in Slots, Arrive(q) PROVE CInv'
<1>1. /\ req[q].tab # None /\ Settled(q, req[q].out, NoReq) /\ UNCHANGED serverVars
      /\ cookie' = CookieOf(q) /\ causes' \in {0, causes}
  BY DEF Arrive
<1>2. Orphan(q, NoReq)
  BY NoReqType DEF Orphan
<1>3. ClientTypes' /\ FreeSlots' /\ Flight'
  BY <1>1, <1>2, SettledOK
<1>4. CookieOf(q) \in Tokens \cup {None}
  BY DEF CookieOf, CInv, TypeOK
<1>5. ServerTypes'
  BY <1>1, <1>4, SessionConstants DEF CInv, TypeOK, ServerTypes, serverVars
<1>6. TypeOK'
  BY <1>3, <1>5 DEF TypeOK, ClientTypes, ServerTypes, CallType, Request
<1> QED BY <1>3, <1>6 DEF CInv

\* An answer is lost.
LEMMA LoseOK == ASSUME CInv, NEW q \in Slots, Lose(q) PROVE CInv'
<1> DEFINE left == [req[q] EXCEPT !.tab = None]
<1>1. /\ req[q].tab # None /\ Settled(q, "lost", left) /\ UNCHANGED <<serverVars, cookie>>
      /\ Because(Renews(q))
  BY DEF Lose
<1>2. Orphan(q, left)
  <2>1. req[q] \in Request
    BY DEF CInv, TypeOK, Request
  <2>2. /\ left \in Request /\ left.tab = None /\ left.pc = req[q].pc
        /\ left.new = req[q].new
    BY <2>1 DEF Request
  <2> HIDE DEF left
  <2> QED BY <2>2 DEF Orphan, CInv, FreeSlots
<1> HIDE DEF left
<1>3. ClientTypes' /\ FreeSlots' /\ Flight'
  BY <1>1, <1>2, SettledOK
<1>4. causes' \in 0 .. MaxCauses
  BY <1>1, CauseType DEF CInv, TypeOK
<1>5. ServerTypes'
  BY <1>1, <1>4 DEF CInv, TypeOK, ServerTypes, serverVars
<1>6. TypeOK'
  BY <1>3, <1>5 DEF TypeOK, ClientTypes, ServerTypes, CallType, Request
<1> QED BY <1>3, <1>6 DEF CInv

\* A page is loaded again: the tab has neither calls nor requests but the
\* restoration it sends.
LEMMA ReloadOK == ASSUME CInv, NEW t \in Tabs, Reload(t) PROVE CInv'
<1> DEFINE q == <<t, "restore">>
<1>0. /\ q \in Slots /\ q[1] \notin Calls
      /\ \A c \in Calls : q # <<c, "refresh">> /\ q # <<c, "logout">>
  BY SlotFacts, SessionConstants
<1> HIDE DEF q
<1>1. /\ token' = [token EXCEPT ![t] = None] /\ starting' = [starting EXCEPT ![t] = TRUE]
      /\ refreshing' = [refreshing EXCEPT ![t] = FALSE]
      /\ promise' = [promise EXCEPT ![t] = None] /\ recent' = [recent EXCEPT ![t] = FALSE]
      /\ call' = [c \in Calls |-> IF call[c].tab = t THEN NoCall ELSE call[c]]
      /\ UNCHANGED <<serverVars, cookie>>
  BY DEF Reload
<1>2. /\ req' \in [Slots -> Request] /\ req'[q].pc = "lookup"
      /\ \A p \in Slots : p # q => req'[p].pc = req[p].pc /\ req'[p].new = req[p].new
      /\ \A p \in Slots : p # q => req'[p].tab = IF req[p].tab = t THEN None ELSE req[p].tab
  <2> DEFINE x == Sent(q, t, "lookup", cookie)
  <2> DEFINE left(p) == [req[p] EXCEPT !.tab = None]
  <2>1. x \in Request /\ x.pc = "lookup"
    <3>1. cookie \in Tokens \cup {None}
      BY DEF CInv, TypeOK
    <3> QED BY <3>1, SentType DEF q
  <2>2. \A p \in Slots : /\ req[p] \in Request /\ left(p) \in Request /\ left(p).tab = None
                         /\ left(p).pc = req[p].pc /\ left(p).new = req[p].new
    BY DEF CInv, TypeOK, Request
  <2>3. req' = [p \in Slots |-> IF p = q THEN x
                                ELSE IF req[p].tab = t THEN left(p) ELSE req[p]]
    BY DEF Reload, q
  <2> HIDE DEF x, left
  <2> QED BY <1>0, <2>1, <2>2, <2>3
<1>3. NoCall \in CallType /\ NoCall.pc = "idle"
  BY DEF NoCall, CallType
<1>4. /\ call' \in [Calls -> CallType]
      /\ \A c \in Calls : (call'[c] = call[c] /\ call[c].tab # t) \/ call'[c].pc = "idle"
      /\ \A c \in Calls : call[c].tab # t => call'[c] = call[c]
  BY <1>1, <1>3 DEF CInv, TypeOK, CallType
<1>5. causes' \in 0 .. MaxCauses
  BY CauseType DEF CInv, TypeOK, Reload
<1>6. ClientTypes'
  <2>1. \A c \in Calls : Busy(c)' => call'[c].tab # None /\ call'[c].bearer # None
    BY <1>4 DEF CInv, TypeOK, Busy
  <2> QED BY <1>1, <1>2, <1>4, <2>1 DEF CInv, TypeOK, ClientTypes
<1>7. TypeOK'
  <2>1. ServerTypes'
    BY <1>1, <1>5 DEF CInv, TypeOK, ServerTypes, serverVars
  <2> QED BY <1>6, <2>1 DEF TypeOK, ClientTypes, ServerTypes, CallType, Request
<1>8. FreeSlots'
  BY <1>0, <1>2 DEF CInv, FreeSlots
<1>9. /\ promise'[t] = None /\ \A u \in Tabs : u # t => promise'[u] = promise[u]
      /\ ~refreshing'[t] /\ \A u \in Tabs : u # t => refreshing'[u] = refreshing[u]
  BY <1>1 DEF CInv, TypeOK
<1>10. OneLeader'
  <2>1. \A c \in Calls, u \in Tabs : Leading(c, u)' <=> Leading(c, u) /\ u # t
    BY <1>4 DEF Leading
  <2> QED BY <1>9, <2>1 DEF CInv, Flight, OneLeader
<1>11. \A c \in Calls, kind \in {"refresh", "logout"} :
         req'[<<c, kind>>].tab = IF req[<<c, kind>>].tab = t THEN None ELSE req[<<c, kind>>].tab
  BY <1>0, <1>2, SlotFacts
<1>12. LogsOut'
  <2> SUFFICES ASSUME NEW c \in Calls, req'[<<c, "logout">>].tab # None
               PROVE  call'[c].pc = "logout" /\ call'[c].tab = req'[<<c, "logout">>].tab
    BY DEF LogsOut
  <2>1. req'[<<c, "logout">>].tab = req[<<c, "logout">>].tab /\ req[<<c, "logout">>].tab # t
    BY <1>11
  <2>2. call[c].pc = "logout" /\ call[c].tab = req[<<c, "logout">>].tab
    BY <2>1 DEF CInv, Flight, LogsOut
  <2> QED BY <1>4, <2>1, <2>2
<1>13. Promised'
  <2>1. ASSUME NEW u \in Tabs, promise'[u] # None
        PROVE  \E c \in Calls : /\ promise'[u] = <<c, "refresh">>
                                /\ req'[<<c, "refresh">>].tab = u
                                /\ call'[c].pc = "lead" /\ call'[c].tab = u
    <3>1. u # t /\ promise'[u] = promise[u]
      BY <1>9, <2>1
    <3>2. PICK c \in Calls : /\ promise[u] = <<c, "refresh">> /\ req[<<c, "refresh">>].tab = u
                             /\ call[c].pc = "lead" /\ call[c].tab = u
      BY <2>1, <3>1 DEF CInv, Flight, Promised
    <3>3. call'[c] = call[c] /\ req'[<<c, "refresh">>].tab = u
      BY <1>4, <1>11, <3>1, <3>2
    <3> QED BY <3>1, <3>2, <3>3
  <2>2. ASSUME NEW c \in Calls, call'[c].pc \in {"lead", "wait"}
        PROVE  /\ promise'[call'[c].tab] # None
               /\ call'[c].pc = "lead" => promise'[call'[c].tab] = <<c, "refresh">>
    <3>1. call'[c] = call[c] /\ call[c].tab # t
      BY <1>4, <2>2
    <3>2. call[c].tab \in Tabs
      BY <2>2, <3>1 DEF CInv, TypeOK, Busy
    <3>3. promise'[call[c].tab] = promise[call[c].tab]
      BY <1>9, <3>1, <3>2
    <3>4. promise[call[c].tab] = <<c, "refresh">> => promise[call[c].tab] # None
      BY SlotFacts
    <3> QED BY <2>2, <3>1, <3>3, <3>4 DEF CInv, Flight, Promised
  <2>3. ASSUME NEW c \in Calls, req'[<<c, "refresh">>].tab # None
        PROVE  promise'[req'[<<c, "refresh">>].tab] = <<c, "refresh">>
    <3>1. req'[<<c, "refresh">>].tab = req[<<c, "refresh">>].tab /\ req[<<c, "refresh">>].tab # t
      BY <1>11, <2>3
    <3>2. req[<<c, "refresh">>].tab \in Tabs
      BY <2>3, <3>1, SlotFacts DEF CInv, TypeOK
    <3> QED BY <1>9, <2>3, <3>1, <3>2 DEF CInv, Flight, Promised
  <2> QED BY <2>1, <2>2, <2>3 DEF Promised
<1> QED BY <1>7, <1>8, <1>10, <1>12, <1>13 DEF CInv, Flight

-----------------------------------------------------------------------------
(* The theorems *)

\* Every step keeps the invariant.
LEMMA SessionStep == CInv /\ [Next]_vars => CInv'
<1> SUFFICES ASSUME CInv, [Next]_vars PROVE CInv'
  OBVIOUS
<1>1. CASE UNCHANGED vars
  <2>1. UNCHANGED <<mem, db, access, cookie, token, starting, recent, causes>>
        /\ UNCHANGED <<refreshing, promise, call, req>>
    BY <1>1 DEF vars, serverVars, tabVars
  <2>2. TypeOK'
    BY <2>1 DEF CInv, TypeOK, Busy
  <2>3. FreeSlots'
    BY <2>1 DEF CInv, FreeSlots
  <2> QED BY <2>1, <2>2, <2>3, FlightFrame DEF CInv
<1>2. ASSUME NEW q \in Slots, ServerStep(q) \/ Arrive(q) \/ Lose(q) \/ Drop(q) PROVE CInv'
  BY <1>2, ServerStepOK, ArriveOK, LoseOK, DropOK
<1>3. ASSUME NEW c \in Calls, FetchStart(c) \/ CallStep(c) PROVE CInv'
  BY <1>3, CallsOK, WaitOK, StartOK DEF CallStep
<1>4. ASSUME NEW t \in Tabs, UserStep(t) PROVE CInv'
  BY <1>4, UserOK, ReloadOK, GraceOK DEF UserStep
<1>5. ASSUME NEW k \in Tokens, Expire(k) PROVE CInv'
  BY <1>5, ExpireOK
<1> QED BY <1>1, <1>2, <1>3, <1>4, <1>5, RestartOK DEF Next

\* The invariant holds throughout.
THEOREM RefreshInvariant == Spec => []CInv
BY InitSession, SessionStep, PTL DEF Spec

\* Every variable keeps its type, and a call in progress has a tab and a token.
THEOREM SessionStateTypes == Spec => []TypeOK
<1>1. CInv => TypeOK
  BY DEF CInv
<1> QED BY <1>1, RefreshInvariant, PTL

\* However many calls of a tab get 401 together, one of them leads, one refresh
\* request is sent, and whoever waits waits for a request of its own tab.
THEOREM OneRefreshPerTab == Spec => []SingleFlight
<1>1. CInv => SingleFlight
  <2> SUFFICES ASSUME CInv PROVE SingleFlight
    OBVIOUS
  <2>1. ASSUME NEW t \in Tabs
        PROVE  Cardinality({c \in Calls : call[c].tab = t /\ call[c].pc \in {"lead", "logout"}})
                 = IF refreshing[t] THEN 1 ELSE 0
    <3> DEFINE leaders == {c \in Calls : Leading(c, t)}
    <3>1. leaders = {c \in Calls : call[c].tab = t /\ call[c].pc \in {"lead", "logout"}}
      BY DEF Leading
    <3>2. CASE refreshing[t]
      <4>1. PICK c \in Calls : leaders = {c}
        BY <3>2 DEF CInv, Flight, OneLeader
      <4> QED BY <3>1, <3>2, <4>1, FS_Singleton
    <3>3. CASE ~refreshing[t]
      <4>1. leaders = {}
        BY <3>3 DEF CInv, Flight, OneLeader
      <4> QED BY <3>1, <3>3, <4>1, FS_EmptySet
    <3> QED BY <3>2, <3>3
  <2>2. ASSUME NEW t \in Tabs
        PROVE  Cardinality({q \in Slots : Kind(q) = "refresh" /\ req[q].tab = t}) <= 1
    <3> DEFINE sent == {q \in Slots : Kind(q) = "refresh" /\ req[q].tab = t}
    <3>1. \A q \in sent : q = promise[t]
      <4> SUFFICES ASSUME NEW q \in Slots, Kind(q) = "refresh", req[q].tab = t
                   PROVE  q = promise[t]
        OBVIOUS
      <4>1. q[1] \in Calls /\ q = <<q[1], "refresh">>
        BY SlotFacts
      <4>2. \A c \in Calls : q = <<c, "refresh">> => promise[req[q].tab] = q
        BY SessionConstants DEF CInv, Flight, Promised
      <4> QED BY <4>1, <4>2
    <3>2. sent = {} \/ sent = {promise[t]}
      BY <3>1
    <3>3. CASE sent = {}
      <4>1. Cardinality(sent) = 0
        BY <3>3, FS_EmptySet
      <4> QED BY <4>1
    <3>4. CASE sent = {promise[t]}
      <4>1. Cardinality(sent) = 1
        BY <3>4, FS_Singleton
      <4> QED BY <4>1
    <3> QED BY <3>2, <3>3, <3>4
  <2>3. ASSUME NEW c \in Calls, call[c].pc = "wait"
        PROVE  promise[call[c].tab] # None /\ req[promise[call[c].tab]].tab = call[c].tab
    <3>1. promise[call[c].tab] # None /\ call[c].tab \in Tabs
      BY <2>3 DEF CInv, TypeOK, Busy, Flight, Promised
    <3>2. PICK d \in Calls : /\ promise[call[c].tab] = <<d, "refresh">>
                             /\ req[<<d, "refresh">>].tab = call[c].tab
      BY <3>1 DEF CInv, Flight, Promised
    <3> QED BY <3>1, <3>2
  <2> QED BY <2>1, <2>2, <2>3 DEF SingleFlight
<1> QED BY <1>1, RefreshInvariant, PTL
-----------------------------------------------------------------------------
(* A session without trouble                                               *)

\* A page that starts is one whose restoration is under way, and the slot is its own.
Restoring ==
    \A t \in Tabs : /\ req[<<t, "restore">>].tab \in {t, None}
                    /\ starting[t] <=> req[<<t, "restore">>].tab = t

\* Without a cause there is one request at a time, since a second one is a cause.
Alone == \A p, q \in Slots : InFlight(p) /\ InFlight(q) => p = q

\* It renews the cookie there is or is a login; what it brings can be used, and
\* it is refused only if there is no cookie.
Sound(q) ==
    /\ Kind(q) # "logout"
    /\ Kind(q) = "login" => req[q].pc \in {"mint", "insert", "answer"}
    /\ Renews(q) =>
         /\ req[q].tab # None /\ req[q].old = cookie /\ req[q].pc # "mint"
         /\ cookie = None => req[q].pc \in {"lookup", "answer"}
         /\ req[q].pc = "answer" => req[q].out = IF cookie = None THEN "denied" ELSE "ok"
    /\ req[q].pc \in {"delete", "insert"} \/ req[q].out = "ok" =>
         req[q].new # None /\ req[q].new \in access
    /\ req[q].pc = "answer" /\ req[q].out = "ok" => req[q].new \in db

\* The row of the cookie is there, or is being replaced.
Kept == cookie # None =>
    \/ cookie \in db
    \/ \E q \in Slots : Renews(q) /\ req[q].pc \in {"insert", "answer"}

\* A call is repeated with a token the server knows, now and within the grace.
Alive ==
    /\ \A t \in Tabs : recent[t] /\ token[t] # None => token[t] \in access
    /\ \A c \in Calls : /\ call[c].pc = "retry" => call[c].bearer \in access
                        /\ call[c].pc # "logout"

\* Who is signed in, or calls, has a cookie.
Signed ==
    cookie # None \/ ((\A t \in Tabs : token[t] = None) /\ (\A c \in Calls : ~Busy(c)))

Healthy == Alone /\ (\A q \in Slots : InFlight(q) => Sound(q)) /\ Kept /\ Alive /\ Signed

\* What holds of the session throughout.
Fit == CInv /\ Restoring /\ (causes = 0 => Healthy)

\* The next state is as sound, and the step is one of the promise.
Keeps == Restoring' /\ (causes' = 0 => Healthy' /\ [Promise!Next]_(Promise!vars))

\* No cause: the condition was false, and there was none before.
LEMMA NoCause ==
  ASSUME CInv, NEW condition, Because(condition), causes' = 0
  PROVE  ~condition /\ causes = 0
BY DEF Because, CInv, TypeOK

\* What the user does not see.
LEMMA Unseen ==
  ASSUME UNCHANGED <<token, starting, call, causes>>, cookie # None <=> cookie' # None
  PROVE  UNCHANGED Promise!vars
BY DEF Promise!vars, Busy

\* A request moves on; nothing else is there.
LEMMA Moves ==
  ASSUME Fit, causes = 0, NEW q \in Slots, InFlight(q),
         UNCHANGED <<cookie, token, starting, recent, call>>,
         \A p \in Slots : p # q => req'[p] = req[p],
         access \subseteq access', Sound(q)', Kept'
  PROVE  Healthy'
<1>1. \A p \in Slots : InFlight(p)' => p = q
  BY DEF Fit, Healthy, Alone, InFlight
<1>2. Alone' /\ (\A p \in Slots : InFlight(p)' => Sound(p)')
  BY <1>1 DEF Alone
<1>3. Alive'
  BY DEF Fit, Healthy, Alive
<1>4. Signed'
  BY DEF Fit, Healthy, Signed, Busy
<1>. QED BY <1>2, <1>3, <1>4 DEF Healthy

\* How far a request is.
LEMMA GotoFacts ==
  ASSUME CInv, NEW q \in Slots, NEW pc, Goto(q, pc)
  PROVE  /\ \A p \in Slots : p # q => req'[p] = req[p]
         /\ req'[q].pc = pc /\ req'[q].tab = req[q].tab /\ req'[q].old = req[q].old
         /\ req'[q].new = req[q].new /\ req'[q].out = req[q].out
BY DEF Goto, CInv, TypeOK

\* What is answered.
LEMMA ReplyFacts ==
  ASSUME CInv, NEW q \in Slots, NEW out, Reply(q, out)
  PROVE  /\ \A p \in Slots : p # q => req'[p] = req[p]
         /\ req'[q].pc = "answer" /\ req'[q].tab = req[q].tab /\ req'[q].old = req[q].old
         /\ req'[q].new = req[q].new /\ req'[q].out = out
BY DEF Reply, CInv, TypeOK

\* The pair that is made.
LEMMA NewFacts ==
  ASSUME CInv, NEW q \in Slots, NEW pc, NEW k,
         req' = [req EXCEPT ![q].pc = pc, ![q].new = k]
  PROVE  /\ \A p \in Slots : p # q => req'[p] = req[p]
         /\ req'[q].pc = pc /\ req'[q].tab = req[q].tab /\ req'[q].old = req[q].old
         /\ req'[q].new = k /\ req'[q].out = req[q].out
BY DEF CInv, TypeOK

\* The cookie's row stays while nothing but a renewal about to insert replaces it.
LEMMA RowStays ==
  ASSUME Fit, causes = 0, NEW q \in Slots, InFlight(q),
         Renews(q) => req[q].pc \notin {"insert", "answer"}
  PROVE  cookie # None => cookie \in db
BY DEF Fit, Healthy, Alone, Kept, InFlight

\* The handlers of the server keep what is sound.
LEMMA ServerKeeps ==
  ASSUME Fit, NEW q \in Slots, ServerStep(q) PROVE Keeps
<1>. USE DEF Renews
<1>1. UNCHANGED <<cookie, tabVars, call>> /\ InFlight(q)
  BY DEF ServerStep, Lookup, Limited, Load, QueryFails, Rotate, Delete, Insert, Mint,
         RefuseLogin, Revoke, InFlight
<1>2. \A p \in Slots : req'[p].tab = req[p].tab
  <2>0. CInv
    BY DEF Fit
  <2>1. CASE \E pc \in ReqPc : Goto(q, pc)
    BY <2>0, <2>1, GotoFacts
  <2>2. CASE \E out \in Out : Reply(q, out)
    BY <2>0, <2>2, ReplyFacts
  <2>3. CASE \E pc \in ReqPc, k \in Tokens : req' = [req EXCEPT ![q].pc = pc, ![q].new = k]
    BY <2>0, <2>3, NewFacts
  <2>4. CASE Rotate(q) \/ Mint(q)
    BY <2>3, <2>4 DEF Rotate, Mint
  <2>5. CASE ~Rotate(q) /\ ~Mint(q)
    BY <2>1, <2>2, <2>5 DEF ServerStep, Lookup, Limited, Load, QueryFails, Delete, Insert,
       RefuseLogin, Revoke
  <2>. QED BY <2>4, <2>5
<1>3. Restoring'
  BY <1>1, <1>2, SlotFacts DEF Fit, Restoring, tabVars
<1>. SUFFICES ASSUME causes' = 0 PROVE Healthy' /\ [Promise!Next]_(Promise!vars)
  BY <1>3 DEF Keeps
<1>4. causes = 0 /\ ~Limited(q) /\ ~QueryFails(q)
  BY NoCause DEF Fit, ServerStep, Lookup, Limited, Load, QueryFails, Rotate, Delete, Insert,
     Mint, RefuseLogin, Revoke
<1>5. UNCHANGED Promise!vars
  BY <1>1, <1>4, Unseen DEF tabVars
<1>6. CInv /\ Sound(q) /\ ~Revoke(q)
  BY <1>1, <1>4, SlotFacts DEF Fit, Healthy, Revoke, Sound, CInv, FreeSlots
<1>7. CASE Lookup(q)
  <2>1. Renews(q) /\ access' = access /\ db' = db
    BY <1>6, <1>7, SlotFacts DEF Lookup, Sound, serverVars
  <2>2. Sound(q)'
    <3>1. CASE req[q].old = None
      <4>1. Reply(q, "denied") /\ cookie = None
        BY <1>6, <1>7, <2>1, <3>1 DEF Lookup, Sound
      <4>. QED BY <1>1, <1>6, <2>1, <4>1, ReplyFacts DEF Sound
    <3>2. CASE req[q].old # None
      <4>1. PICK pc \in {"rotate", "load"} : Goto(q, pc)
        BY <1>7, <3>2 DEF Lookup
      <4>. QED BY <1>1, <1>6, <2>1, <3>2, <4>1, GotoFacts DEF Sound
    <3>. QED BY <3>1, <3>2
  <2>3. Kept'
    BY <1>1, <1>4, <1>7, <2>1, RowStays DEF Lookup, Kept
  <2>4. \A p \in Slots : p # q => req'[p] = req[p]
    BY <1>6, <1>7, GotoFacts, ReplyFacts DEF Lookup
  <2>. QED BY <1>1, <1>4, <1>5, <2>1, <2>2, <2>3, <2>4, Moves DEF tabVars
<1>8. CASE Load(q)
  <2>1. Renews(q) /\ access' = access /\ db' = db /\ cookie # None /\ req[q].old = cookie
    BY <1>6, <1>8, SlotFacts DEF Load, Sound
  <2>2. cookie \in db
    BY <1>1, <1>4, <1>8, <2>1, RowStays DEF Load
  <2>3. Goto(q, "rotate")
    BY <1>8, <2>1, <2>2 DEF Load
  <2>4. Sound(q)'
    BY <1>1, <1>6, <1>8, <2>1, <2>3, GotoFacts DEF Sound, Load
  <2>5. Kept'
    BY <1>1, <2>1, <2>2 DEF Kept
  <2>. QED BY <1>1, <1>4, <1>5, <1>6, <2>1, <2>3, <2>4, <2>5, GotoFacts, Moves DEF tabVars
<1>9. CASE Rotate(q)
  <2>1. PICK k \in Tokens :
          /\ req[q].pc = "rotate" /\ Fresh(k) /\ access' = access \cup {k} /\ db' = db \ {k}
          /\ req' = [req EXCEPT ![q].pc = "delete", ![q].new = k]
    BY <1>9 DEF Rotate
  <2>2. /\ k # cookie /\ k # None /\ Renews(q) /\ cookie # None
        /\ req[q].out # "ok" \/ req[q].new \in access
    BY <1>6, <2>1, SlotFacts, SessionConstants DEF Fresh, Sound
  <2>3. Sound(q)'
    <3>1. /\ req'[q].pc = "delete" /\ req'[q].tab = req[q].tab /\ req'[q].old = req[q].old
          /\ req'[q].new = k
      BY <1>6, <2>1, NewFacts
    <3>. QED BY <1>1, <1>6, <2>1, <2>2, <3>1 DEF Sound
  <2>4. Kept'
    BY <1>1, <1>4, <2>1, <2>2, RowStays DEF Kept
  <2>. QED BY <1>1, <1>4, <1>5, <1>6, <2>1, <2>3, <2>4, NewFacts, Moves DEF tabVars
<1>10. CASE Delete(q)
  <2>1. Renews(q) /\ Goto(q, "insert") /\ access' = access /\ req[q].pc = "delete"
    BY <1>6, <1>10, SlotFacts DEF Delete, Sound
  <2>2. Sound(q)'
    BY <1>1, <1>6, <2>1, GotoFacts DEF Sound
  <2>3. Kept'
    BY <1>6, <2>1, GotoFacts DEF Kept
  <2>. QED BY <1>1, <1>4, <1>5, <1>6, <2>1, <2>2, <2>3, GotoFacts, Moves DEF tabVars
<1>11. CASE Insert(q)
  <2>1. /\ db' = db \cup {req[q].new} /\ Reply(q, "ok") /\ access' = access
        /\ req[q].pc = "insert" /\ (Renews(q) => cookie # None)
    BY <1>4, <1>6, <1>11, NoCause DEF Insert, Sound
  <2>2. Sound(q)'
    BY <1>1, <1>6, <2>1, ReplyFacts DEF Sound
  <2>3. Kept'
    <3>1. CASE Renews(q)
      BY <1>6, <2>1, <3>1, ReplyFacts DEF Kept
    <3>2. CASE ~Renews(q)
      BY <1>1, <1>4, <2>1, <3>2, RowStays DEF Kept
    <3>. QED BY <3>1, <3>2
  <2>. QED BY <1>1, <1>4, <1>5, <1>6, <2>1, <2>2, <2>3, ReplyFacts, Moves DEF tabVars
<1>12. CASE Mint(q)
  <2>1. PICK k \in Tokens :
          /\ req[q].pc = "mint" /\ Fresh(k) /\ access' = access \cup {k} /\ db' = db \ {k}
          /\ req' = [req EXCEPT ![q].pc = "insert", ![q].new = k]
    BY <1>12 DEF Mint
  <2>2. k # cookie /\ k # None /\ ~Renews(q)
    BY <1>6, <2>1, SlotFacts, SessionConstants DEF Fresh, Sound
  <2>3. Sound(q)'
    <3>1. req'[q].pc = "insert" /\ req'[q].new = k
      BY <1>6, <2>1, NewFacts
    <3>. QED BY <1>6, <2>1, <2>2, <3>1, SlotFacts DEF Sound
  <2>4. Kept'
    BY <1>1, <1>4, <2>1, <2>2, RowStays DEF Kept
  <2>. QED BY <1>1, <1>4, <1>5, <1>6, <2>1, <2>3, <2>4, NewFacts, Moves DEF tabVars
<1>13. CASE RefuseLogin(q)
  <2>1. ~Renews(q) /\ Reply(q, "error") /\ UNCHANGED <<db, access>>
    BY <1>6, <1>13, SlotFacts DEF RefuseLogin, Sound, serverVars
  <2>2. Sound(q)'
    BY <1>1, <1>6, <2>1, ReplyFacts DEF Sound
  <2>3. Kept'
    BY <1>1, <1>4, <2>1, RowStays DEF Kept
  <2>. QED BY <1>1, <1>4, <1>5, <1>6, <2>1, <2>2, <2>3, ReplyFacts, Moves DEF tabVars
<1>. QED BY <1>4, <1>6, <1>7, <1>8, <1>9, <1>10, <1>11, <1>12, <1>13 DEF ServerStep

\* The environment: a token expires, the client of a request has gone, the grace
\* is over.
LEMMA QuietKeeps ==
  ASSUME Fit,
         \/ \E k \in Tokens : Expire(k)
         \/ \E q \in Slots : Drop(q)
         \/ \E t \in Tabs : GraceEnds(t)
  PROVE  Keeps
<1>1. /\ UNCHANGED <<mem, db, cookie, token, starting, call, causes>>
      /\ UNCHANGED Promise!vars
  BY Unseen DEF Expire, Drop, GraceEnds, tabVars, serverVars
<1>2. ASSUME NEW k \in Tokens, Expire(k) PROVE Restoring' /\ (causes' = 0 => Healthy')
  <2>1. /\ UNCHANGED <<recent, req>> /\ access' = access \ {k}
        /\ \A q \in Slots : req[q].new # k
        /\ \A c \in Calls : call[c].pc = "retry" => call[c].bearer # k
        /\ \A t \in Tabs : recent[t] => token[t] # k
    BY <1>2 DEF Expire, tabVars
  <2>2. Restoring'
    BY <1>1, <2>1 DEF Fit, Restoring
  <2>. SUFFICES ASSUME causes = 0 PROVE Healthy'
    BY <1>1, <2>2
  <2>3. \A q \in Slots : InFlight(q)' => Sound(q)'
    BY <1>1, <2>1 DEF Fit, Healthy, InFlight, Sound
  <2>4. Alone' /\ Kept' /\ Signed'
    BY <1>1, <2>1 DEF Fit, Healthy, Alone, InFlight, Kept, Signed, Busy
  <2>5. Alive'
    BY <1>1, <2>1 DEF Fit, Healthy, Alive
  <2>. QED BY <2>3, <2>4, <2>5 DEF Healthy
<1>3. ASSUME NEW q \in Slots, Drop(q) PROVE Restoring' /\ (causes' = 0 => Healthy')
  <2>1. /\ UNCHANGED <<access, recent>> /\ req[q].tab = None /\ req[q].pc = "answer"
        /\ req'[q] = NoReq /\ \A p \in Slots : p # q => req'[p] = req[p]
    BY <1>3 DEF Drop, Fit, CInv, TypeOK, tabVars, serverVars
  <2>0. \A p \in Slots : req'[p].tab = req[p].tab
    BY <2>1, NoReqType
  <2>2. Restoring'
    BY <1>1, <2>0, SlotFacts DEF Fit, Restoring
  <2>. SUFFICES ASSUME causes = 0 PROVE Healthy'
    BY <1>1, <2>2
  <2>3. ~Renews(q)
    BY <2>1 DEF Fit, Healthy, InFlight, Sound
  <2>4. \A p \in Slots : InFlight(p)' => p # q /\ InFlight(p)
    BY <2>1, NoReqType DEF InFlight
  <2>5. \A p \in Slots : ~InFlight(p)'
    BY <2>1, <2>4 DEF Fit, Healthy, Alone, InFlight
  <2>6. Kept'
    BY <1>1, <2>1, <2>3 DEF Fit, Healthy, Kept
  <2>7. Alive' /\ Signed'
    BY <1>1, <2>1 DEF Fit, Healthy, Alive, Signed, Busy
  <2>. QED BY <2>5, <2>6, <2>7 DEF Healthy, Alone
<1>4. ASSUME NEW t \in Tabs, GraceEnds(t) PROVE Restoring' /\ (causes' = 0 => Healthy')
  <2>1. /\ UNCHANGED <<access, req>> /\ \A u \in Tabs : recent'[u] => recent[u]
    BY <1>4 DEF GraceEnds, Fit, CInv, TypeOK, serverVars
  <2>2. Restoring'
    BY <1>1, <2>1 DEF Fit, Restoring
  <2>. SUFFICES ASSUME causes = 0 PROVE Healthy'
    BY <1>1, <2>2
  <2>4. Alone' /\ Kept' /\ Signed' /\ \A q \in Slots : InFlight(q)' => Sound(q)'
    BY <1>1, <2>1 DEF Fit, Healthy, Alone, InFlight, Kept, Signed, Busy, Sound
  <2>5. Alive'
    BY <1>1, <2>1 DEF Fit, Healthy, Alive
  <2>. QED BY <2>4, <2>5 DEF Healthy
<1>. QED BY <1>1, <1>2, <1>3, <1>4 DEF Keeps

\* A restart that nobody notices leaves the row of the cookie.
LEMMA RestartKeeps == ASSUME Fit, Restart PROVE Keeps
<1>1. UNCHANGED <<db, cookie, token, starting, recent, call>> /\ access' = {}
  BY DEF Restart, tabVars
<1>2. \A q \in Slots : req'[q].tab = req[q].tab /\ (~InFlight(q) => req'[q].pc = "free")
  <2>1. \A q \in Slots : ~InFlight(q) => req[q].tab = None
    BY DEF Fit, CInv, FreeSlots, InFlight
  <2>2. \A q \in Slots : req'[q] = IF ~InFlight(q) \/ req[q].tab = None THEN NoReq
                                   ELSE [req[q] EXCEPT !.pc = "answer", !.out = "error"]
    BY DEF Restart
  <2>3. \A q \in Slots : [req[q] EXCEPT !.pc = "answer", !.out = "error"].tab = req[q].tab
    BY DEF Fit, CInv, TypeOK
  <2>. QED BY <2>1, <2>2, <2>3, NoReqType
<1>3. Restoring'
  BY <1>1, <1>2, SlotFacts DEF Fit, Restoring
<1>. SUFFICES ASSUME causes' = 0 PROVE Healthy' /\ [Promise!Next]_(Promise!vars)
  BY <1>3 DEF Keeps
<1>4. /\ causes = 0 /\ \A q \in Slots : ~InFlight(q)
      /\ \A c \in Calls : call[c].pc # "retry"
      /\ \A t \in Tabs : ~recent[t]
  BY NoCause DEF Restart, Fit
<1>5. UNCHANGED Promise!vars
  BY <1>1, <1>4, Unseen
<1>6. \A q \in Slots : ~InFlight(q)'
  BY <1>2, <1>4 DEF InFlight
<1>7. Kept'
  BY <1>1, <1>4 DEF Fit, Healthy, Kept, InFlight
<1>8. Alive' /\ Signed'
  BY <1>1, <1>4 DEF Fit, Healthy, Alive, Signed, Busy
<1>. QED BY <1>5, <1>6, <1>7, <1>8 DEF Healthy, Alone

\* No request is concerned.
LEMMA CallMoves ==
  ASSUME Fit, causes = 0, NEW c \in Calls,
         UNCHANGED <<serverVars, cookie, token, starting, recent, req>>,
         \A d \in Calls : d # c => call'[d] = call[d],
         call'[c].pc # "logout", call'[c].pc = "retry" => call'[c].bearer \in access,
         Busy(c)' => cookie # None
  PROVE  Restoring' /\ Healthy'
<1>1. Restoring' /\ Alone' /\ Kept' /\ \A q \in Slots : InFlight(q)' => Sound(q)'
  BY DEF Fit, Restoring, Healthy, Alone, InFlight, Kept, Sound, serverVars
<1>2. Alive'
  BY DEF Fit, Healthy, Alive, serverVars
<1>3. Signed'
  BY DEF Fit, Healthy, Signed, Busy
<1>. QED BY <1>1, <1>2, <1>3 DEF Healthy

\* A call begins, returns, is repeated or waits.
LEMMA CallKeeps ==
  ASSUME Fit, NEW c \in Calls,
         FetchStart(c) \/ FetchReturns(c) \/ RetryUnauthorized(c) \/ RetryInGrace(c)
           \/ WaitForRefresh(c)
  PROVE  Keeps
<1>1. UNCHANGED <<serverVars, cookie, token, starting, recent, req, causes>>
  BY DEF FetchStart, FetchReturns, RetryUnauthorized, RetryInGrace, WaitForRefresh, tabVars
<1>2. Restoring'
  BY <1>1 DEF Fit, Restoring
<1>. SUFFICES ASSUME causes = 0 PROVE Healthy' /\ [Promise!Next]_(Promise!vars)
  BY <1>1, <1>2 DEF Keeps
<1>3. Healthy /\ CInv
  BY DEF Fit
<1>4. CASE FetchStart(c)
  <2>1. PICK t \in Tabs :
          /\ ~Busy(c) /\ ~starting[t] /\ token[t] # None
          /\ call' = [call EXCEPT ![c] = [pc |-> "sent", tab |-> t, bearer |-> token[t]]]
    BY <1>4 DEF FetchStart, DashboardShown
  <2>2. /\ call'[c].pc = "sent" /\ cookie # None
        /\ \A d \in Calls : d # c => call'[d] = call[d]
    BY <1>3, <2>1 DEF CInv, TypeOK, Healthy, Signed
  <2>3. Promise!CallBegins(c)
    BY <1>1, <2>1, <2>2 DEF Promise!CallBegins, Busy
  <2>. QED BY <1>1, <2>2, <2>3, CallMoves DEF Promise!Next
<1>5. CASE FetchReturns(c)
  <2>1. /\ Busy(c) /\ call'[c].pc = "idle"
        /\ \A d \in Calls : d # c => call'[d] = call[d]
    BY <1>3, <1>5 DEF FetchReturns, EndCall, NoCall, Busy, CInv, TypeOK
  <2>2. Promise!CallEnds(c)
    BY <1>1, <2>1 DEF Promise!CallEnds, Busy
  <2>. QED BY <1>1, <2>1, <2>2, CallMoves DEF Promise!Next, Busy
<1>6. ~RetryUnauthorized(c)
  BY <1>3 DEF RetryUnauthorized, Healthy, Alive
<1>7. CASE RetryInGrace(c) \/ WaitForRefresh(c)
  <2>1. Busy(c) /\ call[c].pc = "sent" /\ cookie # None
    BY <1>3, <1>7 DEF RetryInGrace, WaitForRefresh, Got401, Busy, Healthy, Signed
  <2>2. /\ call'[c].pc \in {"retry", "wait"}
        /\ call'[c].pc = "retry" => call'[c].bearer \in access
        /\ \A d \in Calls : d # c => call'[d] = call[d]
    <3>1. call[c].tab \in Tabs
      BY <1>3, <2>1 DEF CInv, TypeOK
    <3>2. CASE RetryInGrace(c)
      <4>1. /\ call' = [call EXCEPT ![c].pc = "retry", ![c].bearer = token[call[c].tab]]
            /\ recent[call[c].tab] /\ token[call[c].tab] # None
        BY <3>2 DEF RetryInGrace, InGrace
      <4>2. token[call[c].tab] \in access
        BY <1>3, <3>1, <4>1 DEF Healthy, Alive
      <4>3. call'[c].pc = "retry" /\ call'[c].bearer = token[call[c].tab]
        BY <1>3, <4>1 DEF CInv, TypeOK
      <4>. QED BY <1>3, <4>1, <4>2, <4>3 DEF CInv, TypeOK
    <3>3. CASE WaitForRefresh(c)
      <4>1. refreshing[call[c].tab]
        BY <3>3 DEF WaitForRefresh
      <4>2. PICK d \in Calls : call[d].tab = call[c].tab /\ call[d].pc = "lead"
        BY <1>3, <3>1, <4>1 DEF CInv, Flight, OneLeader, Leading, Healthy, Alive
      <4>3. promise[call[c].tab] # None
        <5>1. promise[call[c].tab] = <<d, "refresh">>
          BY <1>3, <4>2 DEF CInv, Flight, Promised
        <5>. QED BY <5>1, SlotFacts
      <4>4. call' = [call EXCEPT ![c].pc = "wait"]
        BY <3>3, <4>3 DEF WaitForRefresh
      <4>. QED BY <1>3, <4>4 DEF CInv, TypeOK
    <3>. QED BY <1>7, <3>2, <3>3
  <2>3. UNCHANGED Promise!vars
    BY <1>1, <2>1, <2>2 DEF Promise!vars, Busy
  <2>. QED BY <1>1, <2>1, <2>2, <2>3, CallMoves
<1>. QED BY <1>4, <1>5, <1>6, <1>7

\* A request is sent when there is none.
LEMMA Sends ==
  ASSUME Fit, causes = 0, NEW q \in Slots, SessionRequests \ {q} = {}, ~InFlight(q),
         UNCHANGED <<serverVars, cookie>>,
         \A p \in Slots : p # q => req'[p].pc = req[p].pc,
         Sound(q)', req'[q].pc \notin {"insert", "answer"}, Alive', Signed'
  PROVE  Healthy'
<1>1. \A p \in Slots : ~InFlight(p)
  BY DEF Fit, Healthy, Sound, SessionRequests
<1>2. \A p \in Slots : InFlight(p)' => p = q
  BY <1>1 DEF InFlight
<1>3. Kept'
  BY <1>1 DEF Fit, Healthy, Kept, InFlight, serverVars
<1>. QED BY <1>2, <1>3 DEF Healthy, Alone

\* What a request is that has just been sent.
LEMMA SentFacts ==
  ASSUME NEW q, NEW t, NEW pc, NEW k
  PROVE  /\ Sent(q, t, pc, k).pc = pc /\ Sent(q, t, pc, k).tab = t
         /\ Sent(q, t, pc, k).old = k /\ Sent(q, t, pc, k).new = None
         /\ Sent(q, t, pc, k).out = "none"
BY DEF Sent, NoReq

\* The first call that gets 401 sends the cookie.
LEMMA StartKeeps == ASSUME Fit, NEW c \in Calls, StartRefresh(c) PROVE Keeps
<1> DEFINE q == <<c, "refresh">>
<1>0. PICK t \in Tabs :
        /\ call[c].tab = t /\ call[c].pc = "sent" /\ ~refreshing[t]
        /\ call' = [call EXCEPT ![c].pc = "lead"]
        /\ UNCHANGED <<serverVars, cookie, token, starting, recent>>
  BY DEF StartRefresh, Got401, MayLead, Fit, CInv, TypeOK, Busy
<1>1. promise[t] = None
  <2> SUFFICES ASSUME promise[t] # None PROVE FALSE
    OBVIOUS
  <2>1. PICK d \in Calls : call[d].pc = "lead" /\ call[d].tab = t
    BY DEF Fit, CInv, Flight, Promised
  <2>. QED BY <1>0, <2>1 DEF Fit, CInv, Flight, OneLeader, Leading
<1>2. req' = [req EXCEPT ![q] = Sent(q, t, "lookup", cookie)] /\ Because(Overlapping(q))
  BY <1>0, <1>1 DEF StartRefresh
<1>3. q \in Slots /\ Kind(q) = "refresh" /\ \A u \in Tabs : q # <<u, "restore">>
  BY SlotFacts DEF Kind
<1>4. /\ req'[q] = Sent(q, t, "lookup", cookie)
      /\ \A p \in Slots : p # q => req'[p] = req[p]
  BY <1>2, <1>3 DEF Fit, CInv, TypeOK
<1>5. call'[c].pc = "lead" /\ \A d \in Calls : d # c => call'[d] = call[d]
  BY <1>0 DEF Fit, CInv, TypeOK
<1>6. req[q].tab = None
  <2> SUFFICES ASSUME req[q].tab # None PROVE FALSE
    OBVIOUS
  <2>1. req[q].tab \in Tabs /\ q # None
    BY <1>3, SlotFacts DEF Fit, CInv, TypeOK
  <2>2. promise[req[q].tab] = q
    BY DEF Fit, CInv, Flight, Promised
  <2>3. PICK d \in Calls : promise[req[q].tab] = <<d, "refresh">> /\ call[d].pc = "lead"
    BY <2>1, <2>2 DEF Fit, CInv, Flight, Promised
  <2>4. d = c
    BY <2>2, <2>3
  <2>. QED BY <1>0, <2>3, <2>4
<1>. HIDE DEF q
<1>7. Restoring'
  BY <1>0, <1>3, <1>4, SlotFacts DEF Fit, Restoring
<1>. SUFFICES ASSUME causes' = 0 PROVE Healthy' /\ [Promise!Next]_(Promise!vars)
  BY <1>7 DEF Keeps
<1>8. causes = 0 /\ SessionRequests \ {q} = {}
  BY <1>2, NoCause DEF Fit, Overlapping
<1>9. ~InFlight(q)
  BY <1>3, <1>6, <1>8 DEF Fit, Healthy, Sound, Renews
<1>10. Sound(q)' /\ req'[q].pc = "lookup"
  BY <1>0, <1>3, <1>4, SentFacts, SessionConstants DEF Sound, Renews
<1>11. Alive' /\ Signed'
  BY <1>0, <1>5, <1>8 DEF Fit, Healthy, Alive, Signed, Busy, serverVars
<1>12. Healthy'
  BY <1>0, <1>3, <1>4, <1>8, <1>9, <1>10, <1>11, Sends
<1>13. UNCHANGED Promise!vars
  BY <1>0, <1>5, <1>8 DEF Promise!vars, Busy
<1>. QED BY <1>12, <1>13

\* The user logs in; a logout is a cause.
LEMMA UserKeeps == ASSUME Fit, NEW t \in Tabs, Login(t) \/ Logout(t) PROVE Keeps
<1>1. /\ UNCHANGED <<serverVars, cookie, token, starting, recent, call>>
      /\ \A p \in Slots : Kind(p) \in {"restore", "refresh"} => req'[p] = req[p]
  <2>1. PICK p \in {<<t, "login">>, <<t, "logout">>} :
          \E x : req' = [req EXCEPT ![p] = x]
    BY DEF Login, Logout
  <2>2. Kind(p) \notin {"restore", "refresh"}
    BY DEF Kind
  <2>. QED BY <2>1, <2>2 DEF Login, Logout, Fit, CInv, TypeOK, tabVars
<1>2. Restoring'
  BY <1>1, SlotFacts DEF Fit, Restoring, Kind
<1>. SUFFICES ASSUME causes' = 0 PROVE Healthy' /\ [Promise!Next]_(Promise!vars)
  BY <1>2 DEF Keeps
<1> DEFINE q == <<t, "login">>
<1>3. ~Logout(t) /\ causes = 0 /\ SessionRequests \ {q} = {}
  BY NoCause DEF Login, Logout, Fit, Overlapping
<1>4. q \in Slots /\ Kind(q) = "login" /\ ~InFlight(q)
  BY <1>3, SlotFacts DEF Kind, Login
<1>5. /\ req'[q] = Sent(q, t, "mint", None)
      /\ \A p \in Slots : p # q => req'[p] = req[p]
  BY <1>3, <1>4 DEF Login, Fit, CInv, TypeOK
<1>. HIDE DEF q
<1>6. Sound(q)' /\ req'[q].pc = "mint"
  BY <1>4, <1>5, SentFacts DEF Sound, Renews
<1>7. Alive' /\ Signed'
  BY <1>1, <1>3 DEF Fit, Healthy, Alive, Signed, Busy, serverVars
<1>8. Healthy'
  BY <1>1, <1>3, <1>4, <1>5, <1>6, <1>7, Sends
<1>. QED BY <1>1, <1>3, <1>8, Unseen

\* The page is loaded again and asks for its session.
LEMMA ReloadKeeps == ASSUME Fit, NEW t \in Tabs, Reload(t) PROVE Keeps
<1> DEFINE q == <<t, "restore">>
<1>1. /\ token' = [token EXCEPT ![t] = None] /\ starting' = [starting EXCEPT ![t] = TRUE]
      /\ recent' = [recent EXCEPT ![t] = FALSE]
      /\ call' = [c \in Calls |-> IF call[c].tab = t THEN NoCall ELSE call[c]]
      /\ UNCHANGED <<serverVars, cookie>> /\ ~InFlight(q)
      /\ Because(Overlapping(q) \/ \E p \in {p \in Slots : req[p].tab = t} : Renews(p))
  BY DEF Reload
<1>2. q \in Slots /\ Kind(q) = "restore"
  BY SlotFacts DEF Kind
<1>3. /\ req'[q] = Sent(q, t, "lookup", cookie)
      /\ \A p \in Slots : p # q => req'[p] = IF req[p].tab = t THEN [req[p] EXCEPT !.tab = None]
                                             ELSE req[p]
  BY <1>2 DEF Reload
<1>4. \A p \in Slots : p # q => /\ req'[p].pc = req[p].pc
                                /\ req'[p].tab = IF req[p].tab = t THEN None ELSE req[p].tab
  BY <1>3 DEF Fit, CInv, TypeOK
<1>5. Restoring'
  <2>1. ASSUME NEW u \in Tabs, u # t
        PROVE  /\ req'[<<u, "restore">>].tab \in {u, None}
               /\ starting'[u] <=> req'[<<u, "restore">>].tab = u
    <3>1. <<u, "restore">> \in Slots /\ <<u, "restore">> # q
      BY <2>1, SlotFacts
    <3>2. req'[<<u, "restore">>].tab = req[<<u, "restore">>].tab
      BY <1>4, <2>1, <3>1, SessionConstants DEF Fit, Restoring
    <3>. QED BY <1>1, <2>1, <3>2 DEF Fit, Restoring, CInv, TypeOK
  <2>2. req'[q].tab = t /\ starting'[t]
    BY <1>1, <1>3, SentFacts DEF Fit, CInv, TypeOK
  <2>. QED BY <2>1, <2>2 DEF Restoring
<1>. HIDE DEF q
<1>. SUFFICES ASSUME causes' = 0 PROVE Healthy' /\ [Promise!Next]_(Promise!vars)
  BY <1>5 DEF Keeps
<1>6. causes = 0 /\ SessionRequests \ {q} = {}
  BY <1>1, NoCause DEF Fit, Overlapping
<1>7. Sound(q)' /\ req'[q].pc = "lookup"
  BY <1>1, <1>2, <1>3, SentFacts, SessionConstants DEF Sound, Renews
<1>8. \A c \in Calls : call'[c] = call[c] \/ call'[c].pc = "idle"
  BY <1>1 DEF NoCall
<1>9. Alive'
  BY <1>1, <1>6, <1>8 DEF Fit, CInv, TypeOK, Healthy, Alive, serverVars
<1>10. Signed'
  BY <1>1, <1>6, <1>8 DEF Fit, CInv, TypeOK, Healthy, Signed, Busy
<1>11. Healthy'
  BY <1>1, <1>2, <1>4, <1>6, <1>7, <1>9, <1>10, Sends
<1>12. Promise!Reload(t)
  <2> DEFINE left == {c \in Calls : call[c].tab # t}
  <2>1. left \in SUBSET Calls /\ \A c \in Calls : c \in left \/ call'[c] = NoCall
    BY <1>1
  <2>2. \A c \in left : call'[c] = call[c]
    BY <1>1
  <2>3. NoCall.pc = "idle"
    BY DEF NoCall
  <2>4. \A u \in Tabs : /\ starting'[u] = IF u = t THEN TRUE ELSE starting[u]
                        /\ token'[u] = IF u = t THEN None ELSE token[u]
    BY <1>1 DEF Fit, CInv, TypeOK
  <2>. HIDE DEF left
  <2>. QED BY <1>1, <1>6, <2>1, <2>2, <2>3, <2>4 DEF Promise!Reload, Busy
<1>. QED BY <1>11, <1>12 DEF Promise!Next

\* A restoration belongs to the tab of its slot.
LEMMA RestoreSlot ==
  ASSUME NEW q \in Slots, Kind(q) = "restore" PROVE \E t \in Tabs : q = <<t, "restore">>
BY DEF Slots, Kind

\* A restoration that settles ends the start of its page.
LEMMA SettledRestoring ==
  ASSUME CInv, Restoring, NEW q \in Slots, NEW out, NEW left, left.tab = None,
         req[q].tab # None, Settled(q, out, left)
  PROVE  Restoring'
<1>1. ASSUME Kind(q) = "restore", RestoreSettled(q, out, left) PROVE Restoring'
  <2>1. PICK t \in Tabs : q = <<t, "restore">>
    BY <1>1, RestoreSlot
  <2>2. req[q].tab = t
    BY <2>1 DEF Restoring
  <2>3. req'[q] = left /\ \A p \in Slots : p # q => req'[p] = req[p]
    BY <1>1 DEF RestoreSettled, CInv, TypeOK
  <2>4. ~starting'[t] /\ \A u \in Tabs : u # t => starting'[u] = starting[u]
    BY <1>1, <2>2 DEF RestoreSettled, CInv, TypeOK
  <2>5. \A u \in Tabs : u # t => <<u, "restore">> \in Slots /\ <<u, "restore">> # q
    BY <2>1, SlotFacts
  <2>. SUFFICES ASSUME NEW u \in Tabs
                PROVE  /\ req'[<<u, "restore">>].tab \in {u, None}
                       /\ starting'[u] <=> req'[<<u, "restore">>].tab = u
    BY DEF Restoring
  <2>6. CASE u = t
    BY <2>1, <2>3, <2>4, <2>6, SessionConstants
  <2>7. CASE u # t
    BY <2>3, <2>4, <2>5, <2>7 DEF Restoring
  <2>. QED BY <2>6, <2>7
<1>2. ASSUME Kind(q) # "restore" PROVE Restoring'
  <2>1. UNCHANGED starting
    BY <1>2 DEF Settled, RefreshSettled, LoginSettled, LogoutSettled
  <2>2. \A p \in Slots : Kind(p) = "restore" => req'[p] = req[p]
    <3>1. Kind(<<q[1], "logout">>) = "logout"
      BY DEF Kind
    <3>. QED BY <1>2, <3>1 DEF Settled, RefreshSettled, LoginSettled, LogoutSettled, CInv, TypeOK
  <2>3. \A t \in Tabs : <<t, "restore">> \in Slots /\ Kind(<<t, "restore">>) = "restore"
    BY SlotFacts DEF Kind
  <2>. QED BY <2>1, <2>2, <2>3 DEF Restoring
<1>. QED BY <1>1, <1>2 DEF Settled

\* Nothing starts beside a request that is alone and restores nothing.
LEMMA NothingStarts ==
  ASSUME CInv, Restoring, NEW q \in Slots, Kind(q) # "restore",
         \A p \in Slots : p # q => ~InFlight(p)
  PROVE  \A t \in Tabs : ~starting[t]
<1> SUFFICES ASSUME NEW t \in Tabs, starting[t] PROVE FALSE
  OBVIOUS
<1>1. req[<<t, "restore">>].tab = t /\ <<t, "restore">> \in Slots
  BY SlotFacts DEF Restoring
<1>2. InFlight(<<t, "restore">>)
  BY <1>1, SessionConstants DEF CInv, FreeSlots, InFlight
<1>3. Kind(<<t, "restore">>) = "restore"
  BY DEF Kind
<1>. QED BY <1>1, <1>2, <1>3

\* The only request there is has been answered: nothing is in flight afterwards.
LEMMA Settles ==
  ASSUME CInv, NEW q \in Slots, \A p \in Slots : p # q => ~InFlight(p),
         req' = [req EXCEPT ![q] = NoReq],
         cookie' # None => cookie' \in db', Alive', Signed'
  PROVE  Healthy'
<1>1. \A p \in Slots : ~InFlight(p)'
  BY NoReqType DEF CInv, TypeOK, InFlight
<1>. QED BY <1>1 DEF Healthy, Alone, Kept

\* A tab is signed in.
LEMMA SignsIn ==
  ASSUME CInv, NEW t \in Tabs, NEW k, k # None, token' = [token EXCEPT ![t] = k],
         UNCHANGED starting, ~starting[t], \A c \in Calls : Busy(c)' <=> Busy(c),
         \A c \in Calls : ~Busy(c) => call'[c] = call[c], cookie' # None, causes' = 0
  PROVE  Promise!SignIn(t)
<1>1. token'[t] = k /\ \A u \in Tabs : u # t => token'[u] = token[u]
  BY DEF CInv, TypeOK
<1>2. \A c \in Calls :
        (IF Busy(c)' THEN "going" ELSE IF call'[c].pc = "idle" THEN "idle" ELSE "refused")
          = IF Busy(c) THEN "going" ELSE IF call[c].pc = "idle" THEN "idle" ELSE "refused"
  OBVIOUS
<1>3. \A u \in Tabs :
        (IF starting'[u] THEN "starting" ELSE IF token'[u] # None THEN "in" ELSE "out")
          = IF u = t THEN "in"
            ELSE IF starting[u] THEN "starting" ELSE IF token[u] # None THEN "in" ELSE "out"
  BY <1>1
<1> DEFINE here(u)  == IF starting[u] THEN "starting" ELSE IF token[u] # None THEN "in" ELSE "out"
           there(u) == IF starting'[u] THEN "starting"
                       ELSE IF token'[u] # None THEN "in" ELSE "out"
<1>4. [u \in Tabs |-> there(u)] = [[u \in Tabs |-> here(u)] EXCEPT ![t] = "in"]
  <2>1. \A u \in Tabs : there(u) = IF u = t THEN "in" ELSE here(u)
    BY <1>3
  <2>. HIDE DEF here, there
  <2>. QED BY <2>1
<1>. QED BY <1>2, <1>4 DEF Promise!SignIn

\* A login is answered; one that nothing runs beside ends the trouble.
LEMMA LoginKeeps ==
  ASSUME Fit, NEW q \in Slots, Arrive(q), Kind(q) = "login", causes' = 0
  PROVE  Healthy' /\ [Promise!Next]_(Promise!vars)
<1>1. PICK t \in Tabs :
        /\ req[q].tab = t /\ req[q].pc = "answer" /\ UNCHANGED serverVars
        /\ token' = IF req[q].out = "ok" THEN [token EXCEPT ![t] = req[q].new] ELSE token
        /\ req' = [req EXCEPT ![q] = NoReq]
        /\ cookie' = IF req[q].out = "ok" THEN req[q].new ELSE cookie
        /\ UNCHANGED <<starting, refreshing, promise, recent, call>>
  BY DEF Arrive, Settled, LoginSettled, CookieOf, Fit, CInv, TypeOK
<1>2. \A p \in Slots : p # q => ~InFlight(p)
  BY <1>1 DEF Arrive, Anew, Fit, Healthy, Alone, InFlight
<1>3. ~starting[t]
  BY <1>2, NothingStarts DEF Fit
<1>4. CASE req[q].out = "ok"
  <2>1. req[q].new \in db /\ req[q].new # None
    BY <1>1, <1>4, SessionConstants
       DEF Arrive, Anew, Fit, CInv, TypeOK, Healthy, Sound, InFlight
  <2>2. Alive'
    <3>1. CASE Anew(q)
      BY <1>1, <3>1 DEF Anew, Alive, Busy
    <3>2. CASE ~Anew(q)
      <4>1. Alive /\ req[q].new \in access
        BY <1>1, <1>4, <3>2 DEF Arrive, Fit, Healthy, Sound, InFlight
      <4>. QED BY <1>1, <1>4, <4>1 DEF Alive, serverVars, Fit, CInv, TypeOK
    <3>. QED BY <3>1, <3>2
  <2>3. Signed'
    BY <1>1, <1>4, <2>1 DEF Signed
  <2>4. Healthy'
    BY <1>1, <1>2, <1>4, <2>1, <2>2, <2>3, Settles DEF Fit, serverVars
  <2>5. Promise!SignIn(t)
    BY <1>1, <1>3, <1>4, <2>1, SignsIn DEF Fit, Busy
  <2>. QED BY <2>4, <2>5 DEF Promise!Next
<1>5. CASE req[q].out # "ok"
  <2>1. causes = 0 /\ ~Renews(q) /\ InFlight(q)
    BY <1>1, <1>5 DEF Arrive, Anew, Renews, InFlight
  <2>2. cookie # None => cookie \in db
    BY <2>1, RowStays
  <2>3. Alive' /\ Signed'
    BY <1>1, <1>5, <2>1 DEF Fit, Healthy, Alive, Signed, Busy, serverVars
  <2>4. Healthy'
    BY <1>1, <1>2, <1>5, <2>2, <2>3, Settles DEF Fit, serverVars
  <2>. QED BY <1>1, <1>5, <2>1, <2>4, Unseen
<1>. QED BY <1>4, <1>5

\* A restoration is answered: the page is signed in if there is a cookie.
LEMMA RestoreKeeps ==
  ASSUME Fit, causes = 0, NEW q \in Slots, Arrive(q), Kind(q) = "restore"
  PROVE  Healthy' /\ [Promise!Next]_(Promise!vars)
<1>1. PICK t \in Tabs : q = <<t, "restore">> /\ req[q].tab = t
  <2>1. PICK t \in Tabs : q = <<t, "restore">>
    BY RestoreSlot
  <2>. QED BY <2>1 DEF Arrive, Fit, Restoring
<1>2. InFlight(q) /\ req[q].pc = "answer" /\ Sound(q) /\ Renews(q)
  BY DEF Arrive, InFlight, Fit, Healthy, Renews
<1>3. /\ cookie # None => req[q].out = "ok" /\ req[q].new \in db /\ req[q].new \in access
      /\ cookie = None => req[q].out = "denied"
  BY <1>2 DEF Sound
<1>. HIDE DEF Kind
<1>4. /\ token' = [token EXCEPT ![t] = IF cookie # None THEN req[q].new ELSE None]
      /\ starting' = [starting EXCEPT ![t] = FALSE] /\ req' = [req EXCEPT ![q] = NoReq]
      /\ UNCHANGED <<serverVars, recent, call>>
  BY <1>1, <1>3 DEF Arrive, Settled, RestoreSettled
<1>5. cookie' = IF cookie # None THEN req[q].new ELSE None
  BY <1>3 DEF Arrive, CookieOf
<1>6. cookie # None => req[q].new # None
  BY <1>3, SessionConstants DEF Fit, CInv, TypeOK
<1>7. /\ token'[t] = IF cookie # None THEN req[q].new ELSE None
      /\ \A u \in Tabs : u # t => token'[u] = token[u] /\ starting'[u] = starting[u]
      /\ ~starting'[t] /\ starting[t]
  BY <1>1, <1>4 DEF Fit, CInv, TypeOK, Restoring
<1>8. Alive'
  BY <1>3, <1>4, <1>7 DEF Fit, Healthy, Alive, serverVars
<1>9. Signed'
  BY <1>4, <1>5, <1>6, <1>7 DEF Fit, Healthy, Signed, Busy
<1>10. \A p \in Slots : p # q => ~InFlight(p)
  BY <1>2 DEF Fit, Healthy, Alone
<1>11. Healthy'
  BY <1>3, <1>4, <1>5, <1>8, <1>9, <1>10, Settles DEF Fit, serverVars
<1>12. causes' = 0
  BY DEF Arrive
<1>13. Promise!Restored(t)
  BY <1>4, <1>5, <1>6, <1>7, <1>12 DEF Promise!Restored, Busy
<1>. QED BY <1>11, <1>13 DEF Promise!Next

\* A refresh is answered: everybody who awaits it repeats its call.
LEMMA RefreshKeeps ==
  ASSUME Fit, causes = 0, NEW q \in Slots, Arrive(q), Kind(q) = "refresh"
  PROVE  Healthy' /\ [Promise!Next]_(Promise!vars)
<1>1. InFlight(q) /\ req[q].pc = "answer" /\ Sound(q) /\ Renews(q)
  BY DEF Arrive, InFlight, Fit, Healthy, Renews
<1>2. PICK t \in Tabs : req[q].tab = t
  BY DEF Arrive, Fit, CInv, TypeOK
<1>3. cookie # None
  <2>1. PICK c \in Calls : q = <<c, "refresh">>
    BY SlotFacts
  <2>2. promise[t] = q /\ q # None
    BY <1>2, <2>1, SlotFacts, SessionConstants DEF Fit, CInv, Flight, Promised
  <2>3. PICK d \in Calls : call[d].pc = "lead"
    BY <1>2, <2>2 DEF Fit, CInv, Flight, Promised
  <2>. QED BY <2>3 DEF Fit, Healthy, Signed, Busy
<1>4. /\ req[q].out = "ok" /\ req[q].new \in db /\ req[q].new \in access
      /\ req[q].new # None
  BY <1>1, <1>3 DEF Sound
<1>5. /\ token' = [token EXCEPT ![t] = req[q].new] /\ recent' = [recent EXCEPT ![t] = TRUE]
      /\ call' = [c \in Calls |-> IF ~Awaits(c, t) THEN call[c]
                    ELSE [call[c] EXCEPT !.pc = "retry", !.bearer = req[q].new]]
      /\ req' = [req EXCEPT ![q] = NoReq] /\ UNCHANGED <<starting, serverVars>>
  BY <1>2, <1>4 DEF Arrive, Settled, RefreshSettled
<1>6. cookie' = req[q].new /\ causes' = 0
  BY <1>4 DEF Arrive, CookieOf
<1>7. \A c \in Calls : \/ ~Awaits(c, t) /\ call'[c] = call[c]
                       \/ /\ Awaits(c, t) /\ call'[c].pc = "retry"
                          /\ call'[c].bearer = req[q].new
  BY <1>5 DEF Fit, CInv, TypeOK
<1>8. /\ token'[t] = req[q].new
      /\ \A u \in Tabs : u # t => token'[u] = token[u] /\ recent'[u] = recent[u]
  BY <1>5 DEF Fit, CInv, TypeOK
<1>9. Alive' /\ Signed'
  <2>0. Alive /\ access' = access
    BY <1>5 DEF Fit, Healthy, serverVars
  <2>1. \A u \in Tabs : recent'[u] /\ token'[u] # None => token'[u] \in access'
    BY <1>4, <1>8, <2>0 DEF Alive
  <2>2. \A c \in Calls : /\ call'[c].pc = "retry" => call'[c].bearer \in access'
                         /\ call'[c].pc # "logout"
    BY <1>4, <1>7, <2>0 DEF Alive
  <2>3. Signed'
    BY <1>4, <1>6 DEF Signed
  <2>. QED BY <2>1, <2>2, <2>3 DEF Alive
<1>10. \A p \in Slots : p # q => ~InFlight(p)
  BY <1>1 DEF Fit, Healthy, Alone
<1>11. Healthy'
  BY <1>4, <1>5, <1>6, <1>9, <1>10, Settles DEF Fit, serverVars
<1>12. \A c \in Calls : (Busy(c)' <=> Busy(c)) /\ (~Busy(c) => call'[c] = call[c])
  BY <1>7 DEF Busy, Awaits
<1>13. ~starting[t]
  BY <1>10, NothingStarts DEF Fit
<1>14. Promise!SignIn(t)
  BY <1>4, <1>5, <1>6, <1>12, <1>13, SignsIn DEF Fit
<1>. QED BY <1>11, <1>14 DEF Promise!Next

\* An answer arrives; an unsound session stays so unless it is a login.
LEMMA ArriveKeeps == ASSUME Fit, NEW q \in Slots, Arrive(q) PROVE Keeps
<1>1. Restoring'
  BY SettledRestoring, NoReqType DEF Arrive, Fit
<1>. SUFFICES ASSUME causes' = 0 PROVE Healthy' /\ [Promise!Next]_(Promise!vars)
  BY <1>1 DEF Keeps
<1>2. causes = 0 \/ Kind(q) = "login"
  BY DEF Arrive, Anew
<1>3. causes = 0 => Kind(q) # "logout"
  BY DEF Fit, Healthy, Sound, Arrive, InFlight
<1>. QED BY <1>2, <1>3, SlotFacts, LoginKeeps, RestoreKeeps, RefreshKeeps

\* A login goes on without its client; the loss of another answer is a cause.
LEMMA LoseKeeps == ASSUME Fit, NEW q \in Slots, Lose(q) PROVE Keeps
<1> DEFINE left == [req[q] EXCEPT !.tab = None]
<1>1. /\ InFlight(q) /\ req[q].tab # None /\ Settled(q, "lost", left)
      /\ Because(Renews(q)) /\ UNCHANGED <<serverVars, cookie>>
  BY DEF Lose
<1>2. /\ left.tab = None /\ left.pc = req[q].pc /\ left.old = req[q].old
      /\ left.new = req[q].new /\ left.out = req[q].out
  BY DEF Fit, CInv, TypeOK
<1>. HIDE DEF left
<1>3. Restoring'
  BY <1>1, <1>2, SettledRestoring DEF Fit
<1>. SUFFICES ASSUME causes' = 0 PROVE Healthy' /\ [Promise!Next]_(Promise!vars)
  BY <1>3 DEF Keeps
<1>4. causes = 0 /\ ~Renews(q) /\ Sound(q)
  BY <1>1, NoCause DEF Fit, Healthy
<1>5. Kind(q) = "login"
  BY <1>4, SlotFacts DEF Sound, Renews
<1>6. UNCHANGED <<token, starting, recent, call>> /\ req' = [req EXCEPT ![q] = left]
  BY <1>1, <1>5 DEF Settled, LoginSettled
<1>7. req'[q] = left /\ \A p \in Slots : p # q => req'[p] = req[p]
  BY <1>6 DEF Fit, CInv, TypeOK
<1>8. Sound(q)'
  BY <1>1, <1>2, <1>4, <1>7 DEF Sound, Renews, serverVars
<1>9. Kept'
  BY <1>1, <1>4, RowStays DEF Kept, serverVars
<1>. QED BY <1>1, <1>4, <1>6, <1>7, <1>8, <1>9, Moves, Unseen DEF serverVars

\* In trouble nothing is promised.
LEMMA InTrouble ==
  ASSUME causes' \in Nat, causes' # 0 PROVE Promise!Next
<1>1. Promise!Trouble
  BY DEF Promise!Trouble
<1>. QED BY <1>1 DEF Promise!Next

\* Nobody has a session.
LEMMA InitFit == Init => Fit /\ Promise!Init
<1> SUFFICES ASSUME Init PROVE Fit /\ Promise!Init
  OBVIOUS
<1>1. /\ \A q \in Slots : req[q].tab = None /\ req[q].pc = "free"
      /\ \A c \in Calls : call[c].pc = "idle"
  BY NoReqType DEF Init, NoCall
<1>2. Restoring
  BY <1>1, SlotFacts, SessionConstants DEF Init, Restoring
<1>3. Healthy
  BY <1>1 DEF Init, Healthy, Alone, InFlight, Kept, Alive, Signed, Busy
<1>4. Promise!Init
  BY <1>1 DEF Init, Promise!Init, Busy
<1>. QED BY <1>2, <1>3, <1>4, InitSession DEF Fit

\* Every step keeps the invariant and is one of the promise.
LEMMA FitStep == Fit /\ [Next]_vars => Fit' /\ [Promise!Next]_(Promise!vars)
<1> SUFFICES ASSUME Fit, [Next]_vars PROVE Fit' /\ [Promise!Next]_(Promise!vars)
  OBVIOUS
<1>1. CInv' /\ causes' \in Nat
  BY SessionStep DEF Fit, CInv, TypeOK
<1>2. ASSUME Keeps PROVE Fit' /\ [Promise!Next]_(Promise!vars)
  BY <1>1, <1>2, InTrouble DEF Keeps, Fit
<1>3. CASE UNCHANGED vars
  <2>1. UNCHANGED <<serverVars, cookie, token, starting, recent, call, req, causes>>
    BY <1>3 DEF vars, tabVars
  <2>2. Restoring' /\ (causes' = 0 => Healthy')
    BY <2>1 DEF serverVars, Fit, Restoring, Healthy, Alone, InFlight, Sound, Kept, Alive,
       Signed, Busy
  <2>. QED BY <1>1, <2>1, <2>2, Unseen DEF Fit
<1>4. ASSUME NEW q \in Slots, ServerStep(q) \/ Arrive(q) \/ Lose(q) \/ Drop(q) PROVE Keeps
  BY <1>4, ServerKeeps, ArriveKeeps, LoseKeeps, QuietKeeps
<1>5. ASSUME NEW c \in Calls, FetchStart(c) \/ CallStep(c) PROVE Keeps
  BY <1>5, CallKeeps, StartKeeps DEF CallStep
<1>6. ASSUME NEW t \in Tabs, UserStep(t) PROVE Keeps
  BY <1>6, UserKeeps, ReloadKeeps, QuietKeeps DEF UserStep
<1>7. ASSUME NEW k \in Tokens, Expire(k) PROVE Keeps
  BY <1>7, QuietKeeps
<1>. QED BY <1>2, <1>3, <1>4, <1>5, <1>6, <1>7, RestartKeeps DEF Next

\* The row of the refresh cookie is in the database or about to be, whatever tabs,
\* reloads, expiries and restarts there are: auth.rs:274 says that a session survives
\* a restart, and rotate deletes the old row before it inserts the new one.
THEOREM CookieOutlivesRestart == Spec => []CookieUsable
<1>1. Fit => CookieUsable
  <2> SUFFICES ASSUME Fit, causes = 0, cookie # None PROVE CookieUsable
    BY DEF CookieUsable
  <2>1. ASSUME NEW q \in Slots, Renews(q), req[q].pc \in {"insert", "answer"}
        PROVE  req[q].old = cookie /\ req[q].tab # None
    BY <2>1 DEF Fit, Healthy, Sound, InFlight
  <2>. QED BY <2>1 DEF Fit, Healthy, Kept, CookieUsable
<1>. QED BY <1>1, InitFit, FitStep, PTL DEF Spec

\* The tabs, their calls, the cookie they share and the server together implement
\* what SessionPromise says of them: a session ends, and a call is refused, for no
\* other reason than those the code gives.
THEOREM SessionIsKept == Spec => SessionKept
<1>1. Promise!Spec <=> Promise!Init /\ [][Promise!Next]_(Promise!vars)
  BY DEF Promise!Spec
<1>. QED BY <1>1, InitFit, FitStep, PTL DEF Spec, SessionKept
=============================================================================
