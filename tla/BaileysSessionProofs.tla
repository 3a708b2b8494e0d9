------------------------ MODULE BaileysSessionProofs ------------------------
(***************************************************************************)
(* Proofs about the WhatsApp session of an account, for any number of      *)
(* requests, objects and sockets and any limit of reconnect attempts.      *)
(***************************************************************************)
EXTENDS BaileysSession, FiniteSetTheorems, TLAPS

LiveSt == {"connecting", "open"}

\* The connection of an object: only the socket it refers to can be live.
Up(o) == sock[o] # None /\ st[sock[o]] \in LiveSt

SockInv ==
    /\ \A s \in Socks : st[s] \in LiveSt => own[s] \in Objs /\ sock[own[s]] = s
    /\ \A o \in Objs : sock[o] # None => st[sock[o]] # "free" /\ own[sock[o]] = o

TokenInv ==
    /\ \A o \in Objs : timers[o] + retries[o] <= 1
    /\ \A o \in Objs : Up(o) => timers[o] = 0 /\ retries[o] = 0
    /\ \A o \in Objs : ended[o] = "closed" => ~Up(o) /\ timers[o] = 0 /\ retries[o] = 0
    /\ map # None /\ ended[map] = "no" => Up(map) \/ timers[map] + retries[map] = 1

\* A request that makes an object has it for itself; a request that waits for
\* a logout waits for a socket that is still the object's, if any is.
Making(r) == req[r].pc \in {"load", "create"}
ReqInv ==
    /\ \A r \in Requests : Making(r) =>
        /\ req[r].o \in Objs /\ req[r].o # map /\ sock[req[r].o] = None
        /\ timers[req[r].o] = 0 /\ retries[req[r].o] = 0
        /\ ended[req[r].o] = "no" /\ ~connected[req[r].o]
        /\ \A q \in Requests : req[q].o = req[r].o => q = r
    /\ \A r \in Requests : req[r].pc = "logout" =>
        /\ req[r].s \in Socks /\ st[req[r].s] # "free"
        /\ own[req[r].s] = req[r].o /\ sock[req[r].o] \in {None, req[r].s}
    /\ \A r \in Requests : Busy(r) => req[r].o \in Objs

ConnInv ==
    \A o \in Objs : connected[o] => sock[o] # None /\ st[sock[o]] = "open" /\ ~qr[o]

\* Without overlapping init_session requests only the object of the map has,
\* or can get, a connection: one that was disconnected with a timeout pending
\* has lost its credentials, and while it is disconnected none is made.
OnlyInv ==
    ~overlapped =>
        /\ \A r \in Requests : Making(r) =>
            map = None /\ \A q \in Requests : Making(q) => q = r
        /\ \A o \in Objs : o # map => ~Up(o)
        /\ \A o \in Objs : o # map /\ timers[o] + retries[o] > 0 => auth[o] = "null"
        /\ \A r \in Requests : req[r].pc = "logout" =>
            req[r].o = map \/ (map = None /\ st[req[r].s] = "closed")

IInv == TypeOK /\ SockInv /\ TokenInv /\ ReqInv /\ ConnInv /\ OnlyInv

-----------------------------------------------------------------------------
(* Sockets of an object *)

\* They are none, or the one the object refers to.
LEMMA LiveIsUp ==
  ASSUME TypeOK, SockInv, NEW o \in Objs
  PROVE  /\ Live(o) = IF Up(o) THEN {sock[o]} ELSE {}
         /\ Cardinality(Live(o)) = IF Up(o) THEN 1 ELSE 0
<1>1. Live(o) = IF Up(o) THEN {sock[o]} ELSE {}
  BY SessionConstants DEF TypeOK, SockInv, Live, Up, LiveSt
<1>2. Cardinality({}) = 0 /\ Cardinality({sock[o]}) = 1
  BY FS_EmptySet, FS_Singleton
<1> QED BY <1>1, <1>2
-----------------------------------------------------------------------------
(* The step, action by action *)

USE DEF Auth, SockSt, Waiting, Answered

\* The process starts without an object, a socket or a request.
LEMMA InitInv == Init => IInv
<1> SUFFICES ASSUME Init PROVE IInv
  OBVIOUS
<1>1. TypeOK
  <2>1. attempts \in [Objs -> 0 .. MaxReconnectAttempts]
    BY SessionConstants DEF Init
  <2>2. req \in [Requests -> [pc : Waiting \cup Answered, o : Objs \cup {None},
                             s : Socks \cup {None}]]
    BY DEF Init, NewRequest
  <2> QED BY <2>1, <2>2 DEF Init, TypeOK
<1> QED BY <1>1 DEF Init, IInv, SockInv, TokenInv, ReqInv, ConnInv, OnlyInv,
     NewRequest, Making, Busy, Up, LiveSt

\* Requests that are refused, read, send or give up change nothing else.
LEMMA QuietStep ==
  ASSUME IInv, NEW r \in Requests,
         \/ Refuse(r) \/ ReadOnly(r) \/ BeginSend(r) \/ ReadMedia(r) \/ Typed(r)
         \/ Deliver(r) \/ InitFails(r) \/ LogoutFails(r)
  PROVE  IInv'
<1>1. PICK a \in [pc : Waiting \cup Answered, o : Objs \cup {None}, s : Socks \cup {None}] :
        /\ req' = [req EXCEPT ![r] = a] /\ a.pc \notin {"load", "create", "logout"}
        /\ a.pc \in Waiting => a.o \in Objs
        /\ a.o # None => a.o = map \/ a.o = req[r].o
  BY DEF IInv, TypeOK, ReqInv, Refuse, ReadOnly, BeginSend, ReadMedia, Typed, Deliver,
     InitFails,
         LogoutFails, Answer, Goto, At, Busy, NewRequest
<1>2. UNCHANGED <<map, objVars, sockVars, disk, linked, overlapped>>
  BY DEF Refuse, ReadOnly, BeginSend, ReadMedia, Typed, Deliver, InitFails, LogoutFails
<1>3. TypeOK' /\ SockInv' /\ TokenInv' /\ ConnInv'
  BY <1>1, <1>2 DEF IInv, TypeOK, SockInv, TokenInv, ConnInv, Up, objVars, sockVars
<1>4. ReqInv'
  <2>1. \A q \in Requests : req'[q] = IF q = r THEN a ELSE req[q]
    BY <1>1 DEF IInv, TypeOK
  <2>2. UNCHANGED <<map, sock, timers, retries, ended, connected, st, own>>
    BY <1>2 DEF objVars, sockVars
  <2>3. \A q \in Requests : Making(q) => req[q].o \notin {map, None} /\ (req[q].o = req[r].o => q = r)
    BY SessionConstants DEF IInv, ReqInv
  <2> QED BY <1>1, <2>1, <2>2, <2>3 DEF IInv, ReqInv, Making, Busy
<1>5. OnlyInv'
  BY <1>1, <1>2 DEF IInv, TypeOK, OnlyInv, Making, Up, objVars, sockVars
<1> QED BY <1>3, <1>4, <1>5 DEF IInv

\* The phone, the files and the rest of the open handler move no socket.
LEMMA EnvironmentStep ==
  ASSUME IInv, NEW s, NEW o,
         \/ s \in Socks /\ (QrEvent(s) \/ Pair(s) \/ OpenHandled(s))
         \/ o \in Objs /\ SaveCreds(o)
         \/ Unlink
  PROVE  IInv'
<1>1. TypeOK'
  BY SessionConstants DEF IInv, TypeOK, QrEvent, Pair, SaveCreds, OpenHandled, Unlink,
     objVars, sockVars
<1>2. SockInv'
  BY SessionConstants DEF IInv, TypeOK, SockInv, LiveSt, QrEvent, Pair, SaveCreds,
     OpenHandled, Unlink, objVars, sockVars
<1>3. TokenInv'
  BY SessionConstants DEF IInv, TypeOK, SockInv, TokenInv, Up, LiveSt, QrEvent, Pair,
     SaveCreds, OpenHandled, Unlink, objVars, sockVars
<1>4. ReqInv'
  <2>1. UNCHANGED <<map, sock, timers, retries, ended, connected, st, own, req>>
    BY DEF QrEvent, Pair, SaveCreds, OpenHandled, Unlink, objVars, sockVars
  <2> QED BY <2>1 DEF IInv, ReqInv, Making, Busy
<1>5. ConnInv'
  <2>1. UNCHANGED <<sock, connected, st>>
    BY DEF QrEvent, Pair, SaveCreds, OpenHandled, Unlink, objVars, sockVars
  <2>2. CASE s \in Socks /\ QrEvent(s)
    <3>1. own[s] \in Objs /\ sock[own[s]] = s /\ st[s] = "connecting"
      BY <2>2 DEF QrEvent, IInv, SockInv, LiveSt
    <3>2. \A p \in Objs : p # own[s] => qr'[p] = qr[p]
      BY <2>2 DEF QrEvent, IInv, TypeOK
    <3> QED BY <2>1, <3>1, <3>2 DEF IInv, ConnInv
  <2>3. CASE ~(s \in Socks /\ QrEvent(s))
    BY <2>1, <2>3 DEF IInv, ConnInv, Pair, SaveCreds, OpenHandled, Unlink, objVars
  <2> QED BY <2>2, <2>3
<1>6. OnlyInv'
  BY SessionConstants DEF IInv, TypeOK, SockInv, TokenInv, ReqInv, OnlyInv, Making, Up,
     LiveSt, QrEvent, Pair, SaveCreds, OpenHandled, Unlink, objVars, sockVars
<1> QED BY <1>1, <1>2, <1>3, <1>4, <1>5, <1>6 DEF IInv

\* The credentials are loaded.
LEMMA LoadStep ==
  ASSUME IInv, NEW r \in Requests, LoadAuth(r)
  PROVE  IInv'
<1>1. TypeOK'
  <2>1. disk' \in BOOLEAN /\ auth' \in [Objs -> Auth]
    BY DEF IInv, TypeOK, LoadAuth
  <2>2. req' \in [Requests -> [pc : Waiting \cup Answered, o : Objs \cup {None},
                              s : Socks \cup {None}]]
    BY DEF IInv, TypeOK, LoadAuth, Goto
  <2> QED BY <2>1, <2>2 DEF IInv, TypeOK, LoadAuth, sockVars
<1>2. SockInv'
  BY SessionConstants DEF IInv, TypeOK, SockInv, LiveSt, LoadAuth, Goto, At, sockVars
<1>3. TokenInv'
  BY SessionConstants DEF IInv, TypeOK, SockInv, TokenInv, Up, LiveSt, LoadAuth, Goto,
     At, sockVars
<1>4. ReqInv'
  BY SessionConstants DEF IInv, TypeOK, SockInv, TokenInv, ReqInv, Making, Busy, Up,
     LiveSt, LoadAuth, Goto, At, sockVars
<1>5. ConnInv'
  BY SessionConstants DEF IInv, TypeOK, SockInv, TokenInv, ConnInv, Up, LiveSt,
     LoadAuth, Goto, At, sockVars
<1>6. OnlyInv'
  BY SessionConstants DEF IInv, TypeOK, SockInv, TokenInv, ReqInv, OnlyInv, Making, Up,
     LiveSt, LoadAuth, Goto, At, sockVars
<1> QED BY <1>1, <1>2, <1>3, <1>4, <1>5, <1>6 DEF IInv

\* A socket opens.
LEMMA OpenStep ==
  ASSUME IInv, NEW s \in Socks, OpenEvent(s)
  PROVE  IInv'
<1>1. TypeOK'
  <2>0. 0 \in 0 .. MaxReconnectAttempts
    BY SessionConstants
  <2>1. attempts' \in [Objs -> 0 .. MaxReconnectAttempts]
    BY <2>0 DEF IInv, TypeOK, OpenEvent, ResetAttempts
  <2>2. st' \in [Socks -> SockSt] /\ opening' \subseteq Socks
          /\ connected' \in [Objs -> BOOLEAN] /\ qr' \in [Objs -> BOOLEAN]
    BY DEF IInv, TypeOK, OpenEvent
  <2> QED BY <2>1, <2>2 DEF IInv, TypeOK, OpenEvent
<1>2. SockInv'
  BY SessionConstants DEF IInv, TypeOK, SockInv, LiveSt, OpenEvent, ResetAttempts
<1>3. TokenInv'
  BY SessionConstants DEF IInv, TypeOK, SockInv, TokenInv, Up, LiveSt, OpenEvent,
     ResetAttempts
<1>4. ReqInv'
  BY SessionConstants DEF IInv, TypeOK, SockInv, TokenInv, ReqInv, Making, Busy, Up,
     LiveSt, OpenEvent, ResetAttempts
<1>5. ConnInv'
  BY SessionConstants DEF IInv, TypeOK, SockInv, TokenInv, ConnInv, Up, LiveSt,
     OpenEvent, ResetAttempts
<1>6. OnlyInv'
  BY SessionConstants DEF IInv, TypeOK, SockInv, TokenInv, ReqInv, OnlyInv, Making, Up,
     LiveSt, OpenEvent, ResetAttempts
<1> QED BY <1>1, <1>2, <1>3, <1>4, <1>5, <1>6 DEF IInv

\* What handleDisconnection does with the timeouts of its object.
LEMMA Disconnection ==
  ASSUME TypeOK, NEW o \in Objs, NEW reason \in Reasons, HandleDisconnection(o, reason)
  PROVE  /\ timers' \in [Objs -> Nat] /\ attempts' \in [Objs -> 0 .. MaxReconnectAttempts]
         /\ ended' \in [Objs -> {"no", "closed", "asked"}]
         /\ \A p \in Objs : p # o => timers'[p] = timers[p] /\ ended'[p] = ended[p]
         /\ \/ timers'[o] = timers[o] + 1 /\ ended'[o] = ended[o]
            \/ timers'[o] = timers[o] /\ ended'[o] = "closed"
<1>1. CountAttempt(o) \in 0 .. MaxReconnectAttempts \/ ~MayReconnect(o, reason)
  BY SessionConstants DEF TypeOK, CountAttempt, MayReconnect, AttemptsLeft
<1>2. CASE MayReconnect(o, reason)
  BY <1>1, <1>2 DEF HandleDisconnection, TypeOK
<1>3. CASE ~MayReconnect(o, reason)
  BY <1>3 DEF HandleDisconnection, TypeOK
<1> QED BY <1>2, <1>3

\* A socket closes.
LEMMA CloseStep ==
  ASSUME IInv, NEW s \in Socks, NEW reason \in Reasons, CloseEvent(s, reason)
  PROVE  IInv'
<1>0. /\ own[s] \in Objs /\ sock[own[s]] = s
      /\ UNCHANGED <<map, sock, retries, own, req, auth, qr, opening, disk, linked, overlapped>>
      /\ st[s] \in LiveSt /\ st' = [st EXCEPT ![s] = "closed"]
      /\ connected' = [connected EXCEPT ![own[s]] = FALSE]
  BY DEF CloseEvent, IInv, SockInv, LiveSt
<1>a. /\ timers' \in [Objs -> Nat] /\ attempts' \in [Objs -> 0 .. MaxReconnectAttempts]
      /\ ended' \in [Objs -> {"no", "closed", "asked"}]
      /\ \A p \in Objs : p # own[s] => timers'[p] = timers[p] /\ ended'[p] = ended[p]
      /\ \/ timers'[own[s]] = timers[own[s]] + 1 /\ ended'[own[s]] = ended[own[s]]
         \/ timers'[own[s]] = timers[own[s]] /\ ended'[own[s]] = "closed"
  BY <1>0, Disconnection DEF CloseEvent, IInv
<1>b. timers[own[s]] = 0 /\ retries[own[s]] = 0 /\ Up(own[s])
  BY <1>0, SessionConstants DEF IInv, TokenInv, Up, TypeOK
<1>c. \A p \in Objs : p # own[s] => sock[p] # s
  BY SessionConstants DEF IInv, SockInv
<1>d. \A p \in Objs : Up(p)' <=> Up(p) /\ p # own[s]
  BY <1>0, <1>c, SessionConstants DEF IInv, TypeOK, Up, LiveSt
<1>1. TypeOK'
  BY <1>0, <1>a DEF IInv, TypeOK
<1>2. SockInv'
  BY <1>0 DEF IInv, TypeOK, SockInv, LiveSt
<1>3. TokenInv'
  <2>1. \A p \in Objs : timers'[p] \in Nat /\ retries[p] \in Nat /\ timers[p] \in Nat
    BY <1>a DEF IInv, TypeOK
  <2>2. \A p \in Objs : timers'[p] + retries'[p] <= 1
    BY <1>0, <1>a, <1>b, <2>1 DEF IInv, TokenInv
  <2>3. \A p \in Objs : Up(p)' => timers'[p] = 0 /\ retries'[p] = 0
    BY <1>0, <1>a, <1>d DEF IInv, TokenInv
  <2>4. \A p \in Objs : ended'[p] = "closed" =>
            ~Up(p)' /\ timers'[p] = 0 /\ retries'[p] = 0
    BY <1>0, <1>a, <1>b, <1>d DEF IInv, TokenInv
  <2>5. map # None /\ ended'[map] = "no" => Up(map)' \/ timers'[map] + retries'[map] = 1
    <3> SUFFICES ASSUME map # None, ended'[map] = "no"
                 PROVE  Up(map)' \/ timers'[map] + retries'[map] = 1
      OBVIOUS
    <3>1. map \in Objs
      BY DEF IInv, TypeOK
    <3>2. CASE map = own[s]
      BY <1>0, <1>a, <1>b, <3>2
    <3>3. CASE map # own[s]
      BY <1>0, <1>a, <1>d, <3>1, <3>3 DEF IInv, TokenInv
    <3> QED BY <3>2, <3>3
  <2> QED BY <1>0, <2>2, <2>3, <2>4, <2>5 DEF TokenInv
<1>4. ReqInv'
  BY <1>0, <1>a, <1>b, SessionConstants DEF IInv, TypeOK, ReqInv, Making, Busy
<1>5. ConnInv'
  BY <1>0, <1>c DEF IInv, TypeOK, ConnInv
<1>6. OnlyInv'
  BY <1>0, <1>a, <1>b, <1>d DEF IInv, TypeOK, OnlyInv, Making
<1> QED BY <1>1, <1>2, <1>3, <1>4, <1>5, <1>6 DEF IInv


\* A timeout fires, or the attempt it made fails.
LEMMA TimerStep ==
  ASSUME IInv, NEW o \in Objs, TimerFires(o) \/ ReconnectFails(o)
  PROVE  IInv'
<1>0. UNCHANGED <<map, sock, st, own, req, auth, qr, connected, opening, disk, linked, overlapped>>
  BY DEF TimerFires, ReconnectFails, sockVars
<1>a. /\ timers' \in [Objs -> Nat] /\ retries' \in [Objs -> Nat]
      /\ attempts' \in [Objs -> 0 .. MaxReconnectAttempts]
      /\ ended' \in [Objs -> {"no", "closed", "asked"}]
      /\ \A p \in Objs : p # o => /\ timers'[p] = timers[p] /\ retries'[p] = retries[p]
                                /\ ended'[p] = ended[p]
      /\ timers[o] + retries[o] > 0
      /\ \/ timers'[o] + retries'[o] = timers[o] + retries[o] /\ ended'[o] = ended[o]
         \/ timers'[o] = timers[o] /\ retries'[o] = retries[o] - 1 /\ ended'[o] = "closed"
  <2>1. CASE TimerFires(o)
    <3>1. timers[o] \in Nat /\ retries[o] \in Nat /\ timers[o] > 0
      BY <2>1 DEF TimerFires, IInv, TypeOK
    <3>2. timers[o] - 1 \in Nat /\ retries[o] + 1 \in Nat
      BY <3>1
    <3>3. /\ timers' = [timers EXCEPT ![o] = timers[o] - 1]
          /\ retries' = [retries EXCEPT ![o] = retries[o] + 1]
          /\ UNCHANGED <<attempts, ended>>
      BY <2>1 DEF TimerFires
    <3>4. timers' \in [Objs -> Nat] /\ retries' \in [Objs -> Nat]
      BY <3>2, <3>3 DEF IInv, TypeOK
    <3>5. timers'[o] = timers[o] - 1 /\ retries'[o] = retries[o] + 1
            /\ \A p \in Objs : p # o => timers'[p] = timers[p] /\ retries'[p] = retries[p]
      BY <3>3 DEF IInv, TypeOK
    <3>6. timers'[o] + retries'[o] = timers[o] + retries[o] /\ timers[o] + retries[o] > 0
      BY <3>1, <3>5
    <3> QED BY <3>3, <3>4, <3>5, <3>6 DEF IInv, TypeOK
  <2>2. CASE ReconnectFails(o)
    <3>1. "lost" \in Reasons
      BY DEF Reasons
    <3> QED BY <2>2, <3>1, Disconnection DEF ReconnectFails, IInv, TypeOK
  <2> QED BY <2>1, <2>2
<1>b. ~Up(o) /\ timers[o] + retries[o] = 1 /\ timers[o] \in Nat /\ retries[o] \in Nat
  BY <1>a DEF IInv, TypeOK, TokenInv
<1>c. \A p : Up(p)' <=> Up(p)
  BY <1>0 DEF Up
<1>1. TypeOK'
  BY <1>0, <1>a DEF IInv, TypeOK
<1>2. SockInv'
  BY <1>0 DEF IInv, SockInv
<1>3. TokenInv'
  <2>1. \A p \in Objs : timers'[p] \in Nat /\ retries'[p] \in Nat
    BY <1>a
  <2>2. \A p \in Objs : timers'[p] + retries'[p] <= 1
    BY <1>a, <1>b DEF IInv, TokenInv
  <2>3. \A p \in Objs : Up(p)' => timers'[p] = 0 /\ retries'[p] = 0
    BY <1>a, <1>b, <1>c DEF IInv, TokenInv
  <2>4. \A p \in Objs : ended'[p] = "closed" =>
            ~Up(p)' /\ timers'[p] = 0 /\ retries'[p] = 0
    BY <1>a, <1>b, <1>c, <2>1 DEF IInv, TokenInv
  <2>5. map # None /\ ended'[map] = "no" => Up(map)' \/ timers'[map] + retries'[map] = 1
    <3> SUFFICES ASSUME map # None, ended'[map] = "no"
                 PROVE  Up(map)' \/ timers'[map] + retries'[map] = 1
      OBVIOUS
    <3>1. map \in Objs
      BY DEF IInv, TypeOK
    <3>2. CASE map = o
      BY <1>a, <1>b, <3>2
    <3>3. CASE map # o
      BY <1>0, <1>a, <1>c, <3>1, <3>3 DEF IInv, TokenInv
    <3> QED BY <3>2, <3>3
  <2> QED BY <1>0, <2>2, <2>3, <2>4, <2>5 DEF TokenInv
<1>4. ReqInv'
  BY <1>0, <1>a, <1>b DEF IInv, TypeOK, ReqInv, Making, Busy
<1>5. ConnInv'
  BY <1>0 DEF IInv, ConnInv
<1>6. OnlyInv'
  BY <1>0, <1>a, <1>b, <1>c DEF IInv, TypeOK, OnlyInv, Making
<1> QED BY <1>1, <1>2, <1>3, <1>4, <1>5, <1>6 DEF IInv

\* A socket nothing refers to becomes the connection of its object.
LEMMA NewSocket ==
  ASSUME TypeOK, SockInv, NEW o \in Objs, ~Up(o), MakeSocket(o)
  PROVE  /\ st' \in [Socks -> SockSt] /\ own' \in [Socks -> Objs \cup {None}]
         /\ sock' \in [Objs -> Socks \cup {None}]
         /\ \A p \in Objs : p # o => sock'[p] = sock[p] /\ (sock[p] # None => st'[sock[p]] = st[sock[p]])
         /\ \A r \in Requests : req[r].s \in Socks =>
                st'[req[r].s] = st[req[r].s] /\ own'[req[r].s] = own[req[r].s]
         /\ \A p \in Objs : Up(p)' <=> Up(p) \/ p = o
         /\ SockInv'
<1>1. PICK s \in Socks : /\ FreeSock(s)
                         /\ st' = [st EXCEPT ![s] = "connecting"]
                         /\ own' = [own EXCEPT ![s] = o]
                         /\ sock' = [sock EXCEPT ![o] = s]
  BY DEF MakeSocket
<1>2. /\ st' \in [Socks -> SockSt] /\ own' \in [Socks -> Objs \cup {None}]
      /\ sock' \in [Objs -> Socks \cup {None}]
  BY <1>1 DEF TypeOK
<1>3. /\ st'[s] = "connecting" /\ own'[s] = o /\ sock'[o] = s
      /\ \A t \in Socks : t # s => st'[t] = st[t] /\ own'[t] = own[t]
      /\ \A p \in Objs : p # o => sock'[p] = sock[p]
  BY <1>1 DEF TypeOK
<1>4. \A p \in Objs : sock[p] # s
  BY <1>1 DEF FreeSock
<1>5. \A r \in Requests : req[r].s # s
  BY <1>1 DEF FreeSock
<1>6. \A p \in Objs : sock[p] # None => sock[p] \in Socks
  BY DEF TypeOK
<1>7. \A p \in Objs : Up(p)' <=> Up(p) \/ p = o
  BY <1>3, <1>4, <1>6, SessionConstants DEF Up, LiveSt
<1>8. \A t \in Socks : t # s /\ st[t] \in LiveSt => own[t] # o
  BY SessionConstants DEF SockInv, Up
<1>9. SockInv'
  BY <1>3, <1>4, <1>6, <1>8 DEF SockInv, LiveSt
<1> QED BY <1>2, <1>3, <1>4, <1>5, <1>6, <1>7, <1>9

\* A reconnection makes a socket.
LEMMA ReconnectStep ==
  ASSUME IInv, NEW o \in Objs, Reconnect(o)
  PROVE  IInv'
<1>0. /\ UNCHANGED <<map, auth, qr, connected, attempts, timers, ended, opening, req, disk, linked, overlapped>>
      /\ retries[o] > 0 /\ LogoutSettled /\ auth[o] # "null" /\ MakeSocket(o)
      /\ retries' = [retries EXCEPT ![o] = @ - 1]
  BY DEF Reconnect
<1>b. ~Up(o) /\ timers[o] = 0 /\ retries[o] = 1 /\ ended[o] # "closed"
  <2>1. timers[o] \in Nat /\ retries[o] \in Nat /\ retries[o] > 0
    BY <1>0 DEF IInv, TypeOK
  <2> QED BY <2>1 DEF IInv, TokenInv
<1>c. /\ retries' \in [Objs -> Nat] /\ retries'[o] = 0
      /\ \A p \in Objs : p # o => retries'[p] = retries[p]
  BY <1>0, <1>b DEF IInv, TypeOK
<1>a. /\ st' \in [Socks -> SockSt] /\ own' \in [Socks -> Objs \cup {None}]
      /\ sock' \in [Objs -> Socks \cup {None}]
      /\ \A p \in Objs : p # o => sock'[p] = sock[p] /\ (sock[p] # None => st'[sock[p]] = st[sock[p]])
      /\ \A q \in Requests : req[q].s \in Socks =>
             st'[req[q].s] = st[req[q].s] /\ own'[req[q].s] = own[req[q].s]
      /\ \A p \in Objs : Up(p)' <=> Up(p) \/ p = o
      /\ SockInv'
  BY <1>0, <1>b, NewSocket DEF IInv
<1>1. TypeOK'
  BY <1>0, <1>a, <1>c DEF IInv, TypeOK
<1>3. TokenInv'
  BY <1>0, <1>a, <1>b, <1>c DEF IInv, TypeOK, TokenInv
<1>4. ReqInv'
  <2>1. ASSUME NEW q \in Requests, req[q].pc = "logout" PROVE req[q].o # o
    <3>1. st[req[q].s] \in LiveSt /\ req[q].s \in Socks /\ own[req[q].s] = req[q].o
      BY <1>0, <2>1 DEF IInv, TypeOK, ReqInv, LogoutSettled, LiveSt
    <3> QED BY <1>b, <3>1, SessionConstants DEF IInv, SockInv, Up
  <2>2. ASSUME NEW q \in Requests, Making(q) PROVE req[q].o # o
    BY <1>b, <2>2 DEF IInv, ReqInv
  <2> QED BY <1>0, <1>a, <1>c, <2>1, <2>2 DEF IInv, ReqInv, Making, Busy
<1>5. ConnInv'
  BY <1>0, <1>a, <1>b DEF IInv, ConnInv, Up, LiveSt
<1>6. OnlyInv'
  BY <1>0, <1>a, <1>b, <1>c DEF IInv, TypeOK, ReqInv, OnlyInv, Making
<1> QED BY <1>1, <1>a, <1>3, <1>4, <1>5, <1>6 DEF IInv

\* An object is made.
LEMMA InitSessionStep ==
  ASSUME IInv, NEW r \in Requests, InitSession(r)
  PROVE  IInv'
<1>1. TypeOK'
  BY SessionConstants DEF IInv, TypeOK, InitSession, FreeObj, Fresh, Initing, Live,
     sockVars
<1>2. SockInv'
  BY SessionConstants DEF IInv, TypeOK, SockInv, LiveSt, InitSession, FreeObj, Fresh,
     Initing, Live, sockVars
<1>3. TokenInv'
  BY SessionConstants DEF IInv, TypeOK, SockInv, TokenInv, Up, LiveSt, InitSession,
     FreeObj, Fresh, Initing, Live, sockVars
<1>4. ReqInv'
  BY SessionConstants DEF IInv, TypeOK, SockInv, TokenInv, ReqInv, Making, Busy, Up,
     LiveSt, InitSession, FreeObj, Fresh, Initing, Live, sockVars
<1>5. ConnInv'
  BY SessionConstants DEF IInv, TypeOK, SockInv, TokenInv, ConnInv, Up, LiveSt,
     InitSession, FreeObj, Fresh, Initing, Live, sockVars
<1>6. OnlyInv'
  <2> SUFFICES ASSUME ~overlapped' PROVE OnlyInv'
    BY DEF OnlyInv
  <2>1. PICK o \in Objs :
          /\ FreeObj(o)
          /\ req' = [req EXCEPT ![r] = [pc |-> "load", o |-> o, s |-> None]]
          /\ auth' = [auth EXCEPT ![o] = "null"]
          /\ sock' = [sock EXCEPT ![o] = None]
    BY DEF InitSession
  <2>2. UNCHANGED <<map, timers, retries, st>> /\ map = None /\ Initing = {} /\ ~overlapped
    BY DEF InitSession, sockVars
  <2>3. \A q \in Requests : req'[q] = IF q = r THEN [pc |-> "load", o |-> o, s |-> None] ELSE req[q]
    BY <2>1 DEF IInv, TypeOK
  <2>4. \A q \in Requests : Making(q)' => q = r
    BY <2>2, <2>3 DEF Making, Initing
  <2>5. \A p \in Objs : Up(p)' => Up(p) /\ p # o
    BY <2>1, <2>2 DEF IInv, TypeOK, Up
  <2>6. \A p \in Objs : auth'[p] = "null" \/ auth'[p] = auth[p]
    BY <2>1 DEF IInv, TypeOK
  <2> QED BY <2>2, <2>3, <2>4, <2>5, <2>6 DEF IInv, OnlyInv
<1> QED BY <1>1, <1>2, <1>3, <1>4, <1>5, <1>6 DEF IInv

\* Its socket is made and it is entered in the map.
LEMMA InitDoneStep ==
  ASSUME IInv, NEW r \in Requests, InitDone(r)
  PROVE  IInv'
<1> DEFINE o == req[r].o
<1>0. /\ UNCHANGED <<auth, qr, connected, attempts, timers, retries, ended, opening, disk, linked, overlapped>>
      /\ Making(r) /\ LogoutSettled /\ MakeSocket(o) /\ map' = o
      /\ req' = [req EXCEPT ![r] = [NewRequest EXCEPT !.pc = "ok"]]
  BY DEF InitDone, At, Answer, Making
<1>b. /\ o \in Objs /\ ~Up(o) /\ timers[o] = 0 /\ retries[o] = 0 /\ ended[o] = "no"
      /\ ~connected[o] /\ \A q \in Requests : req[q].o = o => q = r
  BY <1>0 DEF IInv, ReqInv, Up
<1>a. /\ st' \in [Socks -> SockSt] /\ own' \in [Socks -> Objs \cup {None}]
      /\ sock' \in [Objs -> Socks \cup {None}]
      /\ \A p \in Objs : p # o => sock'[p] = sock[p] /\ (sock[p] # None => st'[sock[p]] = st[sock[p]])
      /\ \A q \in Requests : req[q].s \in Socks =>
             st'[req[q].s] = st[req[q].s] /\ own'[req[q].s] = own[req[q].s]
      /\ \A p \in Objs : Up(p)' <=> Up(p) \/ p = o
      /\ SockInv'
  BY <1>0, <1>b, NewSocket DEF IInv
<1>c. /\ req'[r].pc = "ok" /\ \A q \in Requests : q # r => req'[q] = req[q]
      /\ req' \in [Requests -> [pc : Waiting \cup Answered, o : Objs \cup {None},
                                s : Socks \cup {None}]]
  BY <1>0 DEF IInv, TypeOK, NewRequest
<1>1. TypeOK'
  BY <1>0, <1>a, <1>b, <1>c DEF IInv, TypeOK
<1>3. TokenInv'
  BY <1>0, <1>a, <1>b DEF IInv, TypeOK, TokenInv
<1>4. ReqInv'
  <2>1. \A q \in Requests : q # r => req[q].o # o
    BY <1>b
  <2>2. \A q \in Requests : Making(q)' \/ Busy(q)' => q # r
    BY <1>c DEF Making, Busy
  <2>3. \A q \in Requests : q # r => req'[q] = req[q] /\ (Making(q)' <=> Making(q))
    BY <1>c DEF Making
  <2>4. ASSUME NEW q \in Requests, Making(q)'
        PROVE  /\ req'[q].o \in Objs /\ req'[q].o # map' /\ sock'[req'[q].o] = None
               /\ timers'[req'[q].o] = 0 /\ retries'[req'[q].o] = 0
               /\ ended'[req'[q].o] = "no" /\ ~connected'[req'[q].o]
               /\ \A p \in Requests : req'[p].o = req'[q].o => p = q
    <3>1. q # r /\ Making(q) /\ req'[q] = req[q] /\ req[q].o # o
      BY <2>1, <2>2, <2>3, <2>4
    <3>2. req'[r].o = None /\ req[q].o \in Objs
      BY <1>0, <3>1 DEF IInv, TypeOK, ReqInv, NewRequest
    <3> QED BY <1>0, <1>a, <2>3, <3>1, <3>2, SessionConstants DEF IInv, ReqInv
  <2>5. ASSUME NEW q \in Requests, req'[q].pc = "logout"
        PROVE  /\ req'[q].s \in Socks /\ st'[req'[q].s] # "free"
               /\ own'[req'[q].s] = req'[q].o /\ sock'[req'[q].o] \in {None, req'[q].s}
    <3>1. q # r /\ req'[q] = req[q] /\ req[q].o # o /\ req[q].o \in Objs
      BY <1>c, <2>1, <2>3, <2>5 DEF IInv, ReqInv, Busy
    <3> QED BY <1>a, <2>5, <3>1 DEF IInv, ReqInv
  <2>6. \A q \in Requests : Busy(q)' => req'[q].o \in Objs
    BY <2>2, <2>3 DEF IInv, ReqInv, Busy
  <2> QED BY <2>4, <2>5, <2>6 DEF ReqInv
<1>5. ConnInv'
  BY <1>0, <1>a, <1>b DEF IInv, ConnInv
<1>6. OnlyInv'
  <2> SUFFICES ASSUME ~overlapped PROVE OnlyInv'
    BY <1>0 DEF OnlyInv
  <2>1. \A q \in Requests : ~Making(q)'
    BY <1>0, <1>c DEF IInv, OnlyInv, Making
  <2>2. map = None
    BY <1>0 DEF IInv, OnlyInv
  <2>3. \A q \in Requests : req'[q].pc # "logout"
    <3>1. \A q \in Requests : req[q].pc = "logout" => st[req[q].s] = "closed"
      BY <2>2, SessionConstants DEF IInv, OnlyInv, ReqInv, Busy
    <3> QED BY <1>0, <1>c, <3>1 DEF LogoutSettled
  <2> QED BY <1>0, <1>a, <1>b, <2>1, <2>2, <2>3, SessionConstants DEF IInv, OnlyInv
<1> QED BY <1>1, <1>a, <1>3, <1>4, <1>5, <1>6 DEF IInv

\* A disconnect begins.
LEMMA DisconnectStep ==
  ASSUME IInv, NEW r \in Requests, BeginDisconnect(r)
  PROVE  IInv'
<1>1. TypeOK'
  BY SessionConstants DEF IInv, TypeOK, BeginDisconnect, ClearTimer, Fresh, sockVars
<1>2. SockInv'
  BY SessionConstants DEF IInv, TypeOK, SockInv, LiveSt, BeginDisconnect, ClearTimer,
     Fresh, sockVars
<1>3. TokenInv'
  BY SessionConstants DEF IInv, TypeOK, SockInv, TokenInv, Up, LiveSt, BeginDisconnect,
     ClearTimer, Fresh, sockVars
<1>4. ReqInv'
  BY SessionConstants DEF IInv, TypeOK, SockInv, TokenInv, ReqInv, Making, Busy, Up,
     LiveSt, BeginDisconnect, ClearTimer, Fresh, sockVars
<1>5. ConnInv'
  BY SessionConstants DEF IInv, TypeOK, SockInv, TokenInv, ConnInv, Up, LiveSt,
     BeginDisconnect, ClearTimer, Fresh, sockVars
<1>6. OnlyInv'
  BY SessionConstants DEF IInv, TypeOK, SockInv, TokenInv, ReqInv, OnlyInv, Making, Up,
     LiveSt, BeginDisconnect, ClearTimer, Fresh, sockVars
<1> QED BY <1>1, <1>2, <1>3, <1>4, <1>5, <1>6 DEF IInv

\* A logout is answered.
LEMMA LogoutStep ==
  ASSUME IInv, NEW r \in Requests, LogoutDone(r)
  PROVE  IInv'
<1>0. PICK o \in Objs, s \in Socks :
        /\ req[r].pc = "logout" /\ req[r].o = o /\ req[r].s = s
        /\ st[s] # "free" /\ own[s] = o /\ sock[o] \in {None, s}
  BY DEF LogoutDone, At, IInv, ReqInv, Busy
<1>a. /\ auth' = [auth EXCEPT ![o] = "null"] /\ sock' = [sock EXCEPT ![o] = None]
      /\ qr' = [qr EXCEPT ![o] = FALSE] /\ connected' = [connected EXCEPT ![o] = FALSE]
      /\ map' = None /\ req' = [req EXCEPT ![r] = [NewRequest EXCEPT !.pc = "ok"]]
      /\ UNCHANGED <<attempts, timers, retries, own, opening, disk, overlapped>>
  BY <1>0 DEF LogoutDone, Clear, Answer
<1>b. /\ st' \in [Socks -> SockSt] /\ st'[s] = "closed"
      /\ \A t \in Socks : t # s => st'[t] = st[t]
  BY <1>0 DEF LogoutDone, IInv, TypeOK
<1>c. /\ ended' \in [Objs -> {"no", "closed", "asked"}] /\ linked' \in BOOLEAN
      /\ \A p \in Objs : p # o => ended'[p] = ended[p]
      /\ ended'[o] = ended[o] \/ (ended'[o] = "closed" /\ st[s] \in LiveSt)
  BY <1>0 DEF LogoutDone, IInv, TypeOK, LiveSt
<1>d. /\ \A q \in Requests : q # r => req'[q] = req[q]
      /\ req'[r].pc = "ok" /\ req'[r].o = None
  BY <1>a DEF IInv, TypeOK, NewRequest
<1>e. \A p \in Objs : p # o => sock[p] # s /\ sock'[p] = sock[p] /\ (Up(p)' <=> Up(p))
  BY <1>0, <1>a, <1>b, SessionConstants DEF IInv, TypeOK, SockInv, Up
<1>f. ~Up(o)' /\ sock'[o] = None
  BY <1>0, <1>a DEF IInv, TypeOK, Up
<1>1. TypeOK'
  <2>1. req' \in [Requests -> [pc : Waiting \cup Answered, o : Objs \cup {None},
                              s : Socks \cup {None}]]
    BY <1>a DEF IInv, TypeOK, NewRequest
  <2> QED BY <1>a, <1>b, <1>c, <2>1 DEF IInv, TypeOK
<1>2. SockInv'
  <2>1. ASSUME NEW t \in Socks, st'[t] \in LiveSt
        PROVE  own'[t] \in Objs /\ sock'[own'[t]] = t
    <3>1. t # s /\ st[t] \in LiveSt /\ own'[t] = own[t]
      BY <1>a, <1>b, <2>1 DEF LiveSt
    <3>2. own[t] \in Objs /\ sock[own[t]] = t
      BY <3>1 DEF IInv, SockInv
    <3>3. own[t] # o
      BY <1>0, <3>1, <3>2, SessionConstants DEF IInv, TypeOK
    <3> QED BY <1>e, <3>1, <3>2, <3>3
  <2>2. \A p \in Objs : sock'[p] # None => st'[sock'[p]] # "free" /\ own'[sock'[p]] = p
    BY <1>a, <1>b, <1>e, <1>f DEF IInv, TypeOK, SockInv
  <2> QED BY <2>1, <2>2 DEF SockInv
<1>3. TokenInv'
  <2>1. st[s] \in LiveSt => timers[o] = 0 /\ retries[o] = 0
    BY <1>0, SessionConstants DEF IInv, SockInv, TokenInv, Up
  <2>2. \A p \in Objs : Up(p)' => timers'[p] = 0 /\ retries'[p] = 0
    BY <1>a, <1>e, <1>f DEF IInv, TokenInv
  <2>3. \A p \in Objs : ended'[p] = "closed" =>
            ~Up(p)' /\ timers'[p] = 0 /\ retries'[p] = 0
    BY <1>a, <1>c, <1>e, <1>f, <2>1 DEF IInv, TokenInv
  <2> QED BY <1>a, <2>2, <2>3 DEF IInv, TokenInv
<1>4. ReqInv'
  <2>1. ASSUME NEW q \in Requests, Making(q)'
        PROVE  /\ req'[q].o \in Objs /\ req'[q].o # map' /\ sock'[req'[q].o] = None
               /\ timers'[req'[q].o] = 0 /\ retries'[req'[q].o] = 0
               /\ ended'[req'[q].o] = "no" /\ ~connected'[req'[q].o]
               /\ \A p \in Requests : req'[p].o = req'[q].o => p = q
    <3>1. q # r /\ Making(q) /\ req'[q] = req[q]
      BY <1>d, <2>1 DEF Making
    <3>2. req[q].o \in Objs /\ req[q].o # o
      BY <1>0, <3>1 DEF IInv, ReqInv
    <3>3. connected'[req[q].o] = connected[req[q].o]
      BY <1>a, <3>2 DEF IInv, TypeOK
    <3> QED BY <1>a, <1>c, <1>d, <1>e, <3>1, <3>2, <3>3, SessionConstants DEF IInv, ReqInv
  <2>2. ASSUME NEW q \in Requests, req'[q].pc = "logout"
        PROVE  /\ req'[q].s \in Socks /\ st'[req'[q].s] # "free"
               /\ own'[req'[q].s] = req'[q].o /\ sock'[req'[q].o] \in {None, req'[q].s}
    <3>1. q # r /\ req'[q] = req[q] /\ req[q].o \in Objs
      BY <1>d, <2>2 DEF IInv, ReqInv, Busy
    <3> QED BY <1>a, <1>b, <1>e, <1>f, <2>2, <3>1 DEF IInv, ReqInv
  <2>3. \A q \in Requests : Busy(q)' => req'[q].o \in Objs
    BY <1>d DEF IInv, ReqInv, Busy
  <2> QED BY <2>1, <2>2, <2>3 DEF ReqInv
<1>5. ConnInv'
  <2>1. ~connected'[o] /\ \A p \in Objs : p # o => connected'[p] = connected[p] /\ qr'[p] = qr[p]
    BY <1>0, <1>a DEF IInv, TypeOK
  <2> QED BY <1>b, <1>e, <2>1 DEF IInv, TypeOK, ConnInv
<1>6. OnlyInv'
  <2> SUFFICES ASSUME ~overlapped PROVE OnlyInv'
    BY <1>a DEF OnlyInv
  <2>1. \A q \in Requests : Making(q)' => Making(q) /\ q # r
    BY <1>d DEF Making
  <2>2. o = map \/ map = None
    BY <1>0 DEF IInv, OnlyInv
  <2>3. \A p \in Objs : /\ ~Up(p)'
                        /\ timers[p] + retries[p] > 0 => auth'[p] = "null"
    <3>1. auth'[o] = "null" /\ \A p \in Objs : p # o => auth'[p] = auth[p] /\ p # map
      BY <1>0, <1>a, <2>2, SessionConstants DEF IInv, TypeOK
    <3> QED BY <1>e, <1>f, <3>1 DEF IInv, OnlyInv
  <2>4. ASSUME NEW q \in Requests, req'[q].pc = "logout"
        PROVE  st'[req'[q].s] = "closed"
    <3>1. q # r /\ req'[q] = req[q] /\ req[q].pc = "logout"
      BY <1>d, <2>4
    <3>2. /\ req[q].o \in Objs /\ req[q].s \in Socks /\ st[req[q].s] # "free"
          /\ own[req[q].s] = req[q].o
      BY <3>1 DEF IInv, ReqInv, Busy
    <3>3. CASE st[req[q].s] = "closed"
      BY <1>b, <3>1, <3>2, <3>3
    <3>4. CASE st[req[q].s] # "closed"
      <4>1. st[req[q].s] \in LiveSt
        BY <3>2, <3>4 DEF IInv, TypeOK, LiveSt
      <4>2. req[q].o = map /\ sock[req[q].o] = req[q].s
        BY <3>1, <3>2, <3>4, <4>1 DEF IInv, OnlyInv, SockInv
      <4>3. req[q].s = s
        BY <1>0, <2>2, <3>2, <4>2, SessionConstants DEF IInv, TypeOK
      <4> QED BY <1>b, <3>1, <4>3
    <3> QED BY <3>3, <3>4
  <2> QED BY <1>a, <2>1, <2>3, <2>4 DEF IInv, OnlyInv
<1> QED BY <1>1, <1>2, <1>3, <1>4, <1>5, <1>6 DEF IInv

\* A restart of the process is a new beginning.
LEMMA RestartStep ==
  ASSUME IInv, Restart
  PROVE  IInv'
<1>1. TypeOK'
  <2>1. attempts' \in [Objs -> 0 .. MaxReconnectAttempts]
    BY SessionConstants DEF Restart
  <2>2. req' \in [Requests -> [pc : Waiting \cup Answered, o : Objs \cup {None},
                              s : Socks \cup {None}]]
    BY DEF Restart, NewRequest
  <2> QED BY <2>1, <2>2 DEF IInv, TypeOK, Restart
<1> QED BY <1>1 DEF IInv, Restart, SockInv, TokenInv, ReqInv, ConnInv, OnlyInv,
             NewRequest, Making, Busy, Up, LiveSt
\* Every step, action by action.
LEMMA Inductive == IInv /\ [Next]_vars => IInv'
<1> SUFFICES ASSUME IInv, [Next]_vars PROVE IInv'
  OBVIOUS
<1>1. CASE UNCHANGED vars
  <2>1. TypeOK' /\ SockInv' /\ TokenInv' /\ ConnInv'
    BY <1>1 DEF vars, objVars, sockVars, IInv, TypeOK, SockInv, TokenInv, ConnInv, Up
  <2>2. ReqInv' /\ OnlyInv'
    BY <1>1 DEF vars, objVars, sockVars, IInv, ReqInv, OnlyInv, Making, Busy, Up
  <2> QED BY <2>1, <2>2 DEF IInv
<1>2. CASE \E r \in Requests : RequestStep(r)
  BY <1>2, QuietStep, LoadStep, InitDoneStep, LogoutStep DEF RequestStep
<1>3. CASE \E r \in Requests : NewRequestStep(r)
  BY <1>3, QuietStep, InitSessionStep, DisconnectStep DEF NewRequestStep
<1>4. CASE \E o \in Objs : ObjectStep(o) /\ ~SaveCreds(o)
  BY <1>4, TimerStep, ReconnectStep DEF ObjectStep
<1>5. CASE \E s \in Socks : SocketStep(s) /\ (OpenEvent(s) \/ OpenCrashes(s) \/
                                           \E reason \in Reasons : CloseEvent(s, reason))
  BY <1>5, OpenStep, CloseStep, RestartStep DEF OpenCrashes
<1>6. CASE \/ \E s \in Socks : QrEvent(s) \/ Pair(s) \/ OpenHandled(s)
           \/ \E o \in Objs : SaveCreds(o)
           \/ Unlink
  BY <1>6, EnvironmentStep
<1>7. CASE Restart
  BY <1>7, RestartStep
<1> QED BY <1>1, <1>2, <1>3, <1>4, <1>5, <1>6, <1>7 DEF Next, ObjectStep, SocketStep

(* The invariant holds in every state of the process.                     *)
THEOREM SessionInvariant == Spec => []IInv
BY InitInv, Inductive, PTL DEF Spec

-----------------------------------------------------------------------------
(* What follows for the runs' properties *)

(* A session, its requests and its sockets are what session.js takes them  *)
(* for, and the attempts never exceed WA_MAX_RECONNECT_ATTEMPTS, for any   *)
(* number of requests, objects and sockets.                                *)
THEOREM SessionTypes == Spec => []TypeOK
<1>1. IInv => TypeOK
  BY DEF IInv
<1> QED BY <1>1, SessionInvariant, PTL

(* Whatever closes, fails, is disconnected or restarted, an object never   *)
(* has two sockets, timeouts or attempts to connect, and the session of    *)
(* the map is never left without one (session.js:263).                     *)
THEOREM OneWayToConnect == Spec => []OneConnection
<1>1. IInv => OneConnection
  <2> SUFFICES ASSUME IInv PROVE OneConnection
    OBVIOUS
  <2>1. \A o \in Objs : Tokens(o) = (IF Up(o) THEN 1 ELSE 0) + timers[o] + retries[o]
    BY LiveIsUp DEF IInv, Tokens
  <2>2. \A o \in Objs : timers[o] \in Nat /\ retries[o] \in Nat
    BY DEF IInv, TypeOK
  <2>3. \A o \in Objs : Tokens(o) <= 1
    BY <2>1, <2>2 DEF IInv, TokenInv
  <2>4. map # None /\ ended[map] = "no" => Tokens(map) = 1
    BY <2>1, <2>2 DEF IInv, TypeOK, TokenInv
  <2> QED BY <2>3, <2>4 DEF OneConnection
<1> QED BY <1>1, SessionInvariant, PTL

(* A session that says connected has an open socket of its own and offers  *)
(* no QR code, as send_message and get_qr assume (session.js).             *)
THEOREM ConnectedMeansOpen == Spec => []ConnectedIsOpen
<1>1. IInv => ConnectedIsOpen
  BY DEF IInv, SockInv, ConnInv, ConnectedIsOpen
<1> QED BY <1>1, SessionInvariant, PTL

(* While no two init_session requests overlap, the process has at most one *)
(* live socket, also when a disconnect is answered late (index.js:104).    *)
THEOREM OneSocketAlone == Spec => []OneLiveSocket
<1>1. IInv => OneLiveSocket
  <2> SUFFICES ASSUME IInv, ~overlapped
               PROVE  Cardinality({s \in Socks : st[s] \in LiveSt}) <= 1
    BY DEF OneLiveSocket, LiveSt
  <2>1. CASE map = None
    <3>1. {s \in Socks : st[s] \in LiveSt} = {}
      BY <2>1, SessionConstants DEF IInv, SockInv, OnlyInv, Up
    <3> QED BY <3>1, FS_EmptySet
  <2>2. CASE map # None
    <3>1. map \in Objs
      BY <2>2 DEF IInv, TypeOK
    <3>2. \A s \in Socks : st[s] \in LiveSt => s \in Live(map)
      BY <3>1, SessionConstants DEF IInv, SockInv, OnlyInv, Up, Live, LiveSt
    <3>3. {s \in Socks : st[s] \in LiveSt} = Live(map)
      BY <3>2 DEF Live, LiveSt
    <3> QED BY <3>1, <3>3, LiveIsUp DEF IInv
  <2> QED BY <2>1, <2>2
<1> QED BY <1>1, SessionInvariant, PTL

(* After a logout, or when the attempts are used up, an object makes no    *)
(* socket any more: no timeout and no attempt has survived (session.js).   *)
THEOREM ClosedStaysClosed == Spec => ClosedForGood
<1>1. IInv /\ [Next]_vars =>
        [\A s \in Socks : st'[s] = "connecting" /\ st[s] # "connecting"
                         => ended[own'[s]] # "closed"]_vars
  <2> SUFFICES ASSUME IInv, Next, NEW s \in Socks,
                      st'[s] = "connecting", st[s] # "connecting"
               PROVE  ended[own'[s]] # "closed"
    OBVIOUS
  <2>1. CASE \E r \in Requests : InitDone(r)
    BY <2>1 DEF InitDone, MakeSocket, At, IInv, TypeOK, ReqInv, Making
  <2>2. CASE \E o \in Objs : Reconnect(o)
    BY <2>2 DEF Reconnect, MakeSocket, IInv, TypeOK, TokenInv
  <2>3. CASE st' = st
    BY <2>3
  <2>4. CASE \E t \in Socks : OpenEvent(t) \/ OpenCrashes(t) \/
                               \E reason \in Reasons : CloseEvent(t, reason)
    BY <2>4 DEF OpenEvent, OpenCrashes, CloseEvent, Restart, IInv, TypeOK
  <2>5. CASE Restart \/ \E r \in Requests : LogoutDone(r)
    BY <2>5 DEF Restart, LogoutDone, IInv, TypeOK
  <2> QED
    BY <2>1, <2>2, <2>3, <2>4, <2>5
    DEF Next, RequestStep, NewRequestStep, ObjectStep, SocketStep, sockVars, LoadAuth,
    InitFails,
        ReadMedia, Typed, Deliver, LogoutFails, Refuse, ReadOnly, InitSession, BeginSend,
        BeginDisconnect, TimerFires, ReconnectFails, SaveCreds, QrEvent, Pair,
        OpenHandled, Unlink
<1> QED BY <1>1, SessionInvariant, PTL DEF ClosedForGood, Spec
=============================================================================
