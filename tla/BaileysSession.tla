--------------------------- MODULE BaileysSession ---------------------------
(***************************************************************************)
(* The Node.js process that holds the WhatsApp connection of one account:  *)
(* the JSON-RPC methods of index.js and the BaileysSession objects of      *)
(* session.js.  An action is the code between two awaits.                  *)
(*                                                                         *)
(* The Baileys library and WhatsApp are external: a socket connects, shows *)
(* a QR code, is paired, opens and closes when they like.  A session has   *)
(* one id; objects are the values of the sessions map, of which two exist  *)
(* when two init_session requests overlap.                                 *)
(***************************************************************************)
EXTENDS Naturals, FiniteSets

CONSTANTS
    Requests,              \* JSON-RPC requests that may be in progress at once
    Objs,                  \* BaileysSession objects
    Socks,                 \* sockets made by makeWASocket
    MaxReconnectAttempts,  \* WA_MAX_RECONNECT_ATTEMPTS, 0 is no limit
    None

ASSUME SessionConstants ==
    /\ IsFiniteSet(Socks)
    /\ MaxReconnectAttempts \in Nat
    /\ None \notin Objs \cup Socks

VARIABLES
    map,        \* sessions.get(session_id)
    auth,       \* authState of an object: null, fresh or registered
    sock,       \* this.sock
    qr,         \* this.qrCode is set
    connected,  \* this.connected
    attempts,   \* this.reconnectAttempts
    timers,     \* reconnect timeouts that are pending
    retries,    \* timeouts that fired and wait in createSocket
    ended,      \* why an object needs no connection: "no", "closed", "asked"
    st, own,    \* state and owner of a socket
    opening,    \* sockets whose 'open' handler waits for the credentials
    req,        \* a request: where it is, its object and the socket it uses
    disk,       \* creds.json holds registered credentials
    linked,     \* WhatsApp accepts the credentials
    overlapped  \* two init_session requests were in progress at once

objVars  == <<auth, sock, qr, connected, attempts, timers, retries, ended>>
sockVars == <<st, own, opening>>
vars == <<map, objVars, sockVars, req, disk, linked, overlapped>>

-----------------------------------------------------------------------------
Auth     == {"null", "fresh", "registered"}
SockSt   == {"free", "connecting", "open", "closed"}
Waiting  == {"load", "create", "media", "typing", "deliver", "logout"}
Answered == {"idle", "ok", "error"}
Reasons  == {"lost", "loggedOut"}

Live(o) == {s \in Socks : own[s] = o /\ st[s] \in {"connecting", "open"}}
Busy(r) == req[r].pc \in Waiting
Initing == {r \in Requests : req[r].pc \in {"load", "create"}}

NewRequest == [pc |-> "idle", o |-> None, s |-> None]
At(r, pc)  == req[r].pc = pc
Goto(r, pc) == req' = [req EXCEPT ![r].pc = pc]
Answer(r, a) == req' = [req EXCEPT ![r] = [NewRequest EXCEPT !.pc = a]]

\* Objects and sockets nothing refers to any more are collected.
FreeObj(o) == /\ o # map /\ timers[o] = 0 /\ retries[o] = 0 /\ Live(o) = {}
              /\ \A s \in opening : own[s] # o
              /\ \A r \in Requests : req[r].o # o
FreeSock(s) == /\ st[s] \in {"free", "closed"} /\ s \notin opening
               /\ \A o \in Objs : sock[o] # s
               /\ \A r \in Requests : req[r].s # s

Init ==
    /\ map = None
    /\ auth = [o \in Objs |-> "null"] /\ sock = [o \in Objs |-> None]
    /\ qr = [o \in Objs |-> FALSE] /\ connected = [o \in Objs |-> FALSE]
    /\ attempts = [o \in Objs |-> 0] /\ timers = [o \in Objs |-> 0]
    /\ retries = [o \in Objs |-> 0] /\ ended = [o \in Objs |-> "no"]
    /\ st = [s \in Socks |-> "free"] /\ own = [s \in Socks |-> None]
    /\ opening = {}
    /\ req = [r \in Requests |-> NewRequest]
    /\ disk \in BOOLEAN /\ linked \in BOOLEAN /\ overlapped = FALSE

-----------------------------------------------------------------------------
(* Reconnection.  handleDisconnection of object o, as a change of timers,  *)
(* attempts and ended: everything in it runs without an await.             *)

AttemptsLeft(o) == MaxReconnectAttempts = 0 \/ attempts[o] < MaxReconnectAttempts

\* (mutant) The limit is not looked at.
NoLimit(o, reason) == reason # "loggedOut"

MayReconnect(o, reason) == reason # "loggedOut" /\ AttemptsLeft(o)

\* The counter is used as a limit only, so without a limit it stays 0.
CountAttempt(o) == IF MaxReconnectAttempts = 0 THEN 0 ELSE attempts[o] + 1

\* (mutant) The timeout is set before the reason is looked at.
AlwaysSchedules(o, reason) ==
    /\ timers' = [timers EXCEPT ![o] = @ + 1]
    /\ attempts' = IF MayReconnect(o, reason)
                   THEN [attempts EXCEPT ![o] = CountAttempt(o)] ELSE attempts
    /\ ended' = IF MayReconnect(o, reason) THEN ended ELSE [ended EXCEPT ![o] = "closed"]

HandleDisconnection(o, reason) ==
    IF MayReconnect(o, reason)
    THEN /\ timers' = [timers EXCEPT ![o] = @ + 1]
         /\ attempts' = [attempts EXCEPT ![o] = CountAttempt(o)]
         /\ UNCHANGED ended
    ELSE /\ ended' = [ended EXCEPT ![o] = "closed"]
         /\ UNCHANGED <<timers, attempts>>

\* createSocket after its await: a new socket of o that starts to connect.
MakeSocket(o) ==
    \E s \in Socks :
        /\ FreeSock(s)
        /\ st' = [st EXCEPT ![s] = "connecting"]
        /\ own' = [own EXCEPT ![s] = o]
        /\ sock' = [sock EXCEPT ![o] = s]

\* The promise of a logout on a socket that is closed settles before the
\* network answers or a timer of five seconds runs out.
LogoutSettled ==
    \A r \in Requests : req[r].pc = "logout" => st[req[r].s] # "closed"

\* (mutant) setInterval.
IntervalFires(o) ==
    /\ timers[o] > 0 /\ LogoutSettled /\ retries[o] < 2
    /\ retries' = [retries EXCEPT ![o] = @ + 1]
    /\ UNCHANGED <<map, auth, sock, qr, connected, attempts, timers, ended, sockVars,
                   req, disk, linked, overlapped>>

TimerFires(o) ==
    /\ timers[o] > 0 /\ LogoutSettled
    /\ timers' = [timers EXCEPT ![o] = @ - 1]
    /\ retries' = [retries EXCEPT ![o] = @ + 1]
    /\ UNCHANGED <<map, auth, sock, qr, connected, attempts, ended, sockVars,
                   req, disk, linked, overlapped>>

\* The version is fetched; authState is read only now.
Reconnect(o) ==
    /\ retries[o] > 0 /\ LogoutSettled /\ auth[o] # "null"
    /\ retries' = [retries EXCEPT ![o] = @ - 1]
    /\ MakeSocket(o)
    /\ UNCHANGED <<map, auth, qr, connected, attempts, timers, ended, opening,
                   req, disk, linked, overlapped>>

\* The fetch fails, or there is no authState: 'reconnect_failed', then again.
ReconnectFails(o) ==
    /\ retries[o] > 0 /\ LogoutSettled
    /\ retries' = [retries EXCEPT ![o] = @ - 1]
    /\ HandleDisconnection(o, "lost")
    /\ UNCHANGED <<map, auth, sock, qr, connected, sockVars,
                   req, disk, linked, overlapped>>

-----------------------------------------------------------------------------
(* Events of a socket, handled by the object that made it.                 *)

QrEvent(s) ==
    /\ st[s] = "connecting" /\ auth[own[s]] = "fresh" /\ ~qr[own[s]]
    /\ qr' = [qr EXCEPT ![own[s]] = TRUE]
    /\ UNCHANGED <<map, auth, sock, connected, attempts, timers, retries, ended,
                   sockVars, req, disk, linked, overlapped>>

\* The phone scans the code; the credentials change in memory.
Pair(s) ==
    /\ st[s] = "connecting" /\ auth[own[s]] = "fresh" /\ qr[own[s]]
    /\ auth' = [auth EXCEPT ![own[s]] = "registered"]
    /\ linked' = TRUE
    /\ UNCHANGED <<map, sock, qr, connected, attempts, timers, retries, ended,
                   sockVars, req, disk, overlapped>>

\* creds.update: saveCreds writes what the object has in memory.
SaveCreds(o) ==
    /\ auth[o] = "registered" /\ ~disk
    /\ disk' = TRUE
    /\ UNCHANGED <<map, objVars, sockVars, req, linked, overlapped>>

ResetAttempts(o) == 0

\* 'open': the fields are set at once, the event is sent after the await.
OpenEvent(s) ==
    LET o == own[s] IN
    /\ st[s] = "connecting" /\ auth[o] = "registered" /\ linked
    /\ st' = [st EXCEPT ![s] = "open"]
    /\ connected' = [connected EXCEPT ![o] = TRUE]
    /\ attempts' = [attempts EXCEPT ![o] = ResetAttempts(o)]
    /\ qr' = [qr EXCEPT ![o] = FALSE]
    /\ opening' = opening \cup {s}
    /\ UNCHANGED <<map, auth, sock, timers, retries, ended, own,
                   req, disk, linked, overlapped>>

\* The rest of the handler: the credentials are saved and 'connected' is sent.
OpenHandled(s) ==
    /\ s \in opening /\ sock[own[s]] # None
    /\ opening' = opening \ {s}
    /\ disk' = (disk \/ auth[own[s]] = "registered")
    /\ UNCHANGED <<map, objVars, st, own, req, linked, overlapped>>

\* (mutant) connected is left as it is.
CloseKeepsConnected(s, reason) ==
    LET o == own[s] IN
    /\ st[s] \in {"connecting", "open"}
    /\ reason = "loggedOut" => auth[o] = "registered" /\ ~linked
    /\ st' = [st EXCEPT ![s] = "closed"]
    /\ HandleDisconnection(o, reason)
    /\ UNCHANGED <<map, auth, sock, qr, connected, retries, own, opening,
                   req, disk, linked, overlapped>>

CloseEvent(s, reason) ==
    LET o == own[s] IN
    /\ st[s] \in {"connecting", "open"}
    /\ reason = "loggedOut" => auth[o] = "registered" /\ ~linked
    /\ st' = [st EXCEPT ![s] = "closed"]
    /\ connected' = [connected EXCEPT ![o] = FALSE]
    /\ HandleDisconnection(o, reason)
    /\ UNCHANGED <<map, auth, sock, qr, retries, own, opening,
                   req, disk, linked, overlapped>>

\* The owner of the phone removes the device.
Unlink ==
    /\ linked
    /\ linked' = FALSE
    /\ UNCHANGED <<map, objVars, sockVars, req, disk, overlapped>>
-----------------------------------------------------------------------------
(* JSON-RPC requests.  processRequest is not awaited by the reader of      *)
(* stdin, so requests interleave at every await.                           *)

Fresh(r) == ~Busy(r)

\* A request for a session that is not there, or is there already, or is not
\* connected is answered with an error at once.
Refuse(r) ==
    /\ Fresh(r)
    /\ Answer(r, "error")
    /\ UNCHANGED <<map, objVars, sockVars, disk, linked, overlapped>>

\* get_qr and health_check read only.
ReadOnly(r) ==
    /\ Fresh(r) /\ map # None
    /\ Answer(r, "ok")
    /\ UNCHANGED <<map, objVars, sockVars, disk, linked, overlapped>>

\* init_session makes an object; the map is written at the very end.
InitSession(r) ==
    /\ Fresh(r) /\ map = None
    /\ \E o \in Objs :
        /\ FreeObj(o)
        /\ req' = [req EXCEPT ![r] = [pc |-> "load", o |-> o, s |-> None]]
        /\ auth' = [auth EXCEPT ![o] = "null"]
        /\ sock' = [sock EXCEPT ![o] = None]
        /\ qr' = [qr EXCEPT ![o] = FALSE]
        /\ connected' = [connected EXCEPT ![o] = FALSE]
        /\ attempts' = [attempts EXCEPT ![o] = 0]
        /\ ended' = [ended EXCEPT ![o] = "no"]
    /\ overlapped' = (overlapped \/ Initing # {})
    /\ UNCHANGED <<map, timers, retries, sockVars, disk, linked>>

\* The local credentials are used if there are any, else the snapshot that
\* came with the request, else fresh ones.
LoadAuth(r) ==
    /\ At(r, "load")
    /\ \E snapshot \in BOOLEAN :
        /\ disk' = (disk \/ snapshot)
        /\ auth' = [auth EXCEPT ![req[r].o] = IF disk' THEN "registered" ELSE "fresh"]
    /\ Goto(r, "create")
    /\ UNCHANGED <<map, sock, qr, connected, attempts, timers, retries, ended,
                   sockVars, linked, overlapped>>

\* From the socket to the entry in the map there is no await.
InitDone(r) ==
    /\ At(r, "create") /\ LogoutSettled
    /\ MakeSocket(req[r].o)
    /\ map' = req[r].o
    /\ Answer(r, "ok")
    /\ UNCHANGED <<auth, qr, connected, attempts, timers, retries, ended,
                   opening, disk, linked, overlapped>>

InitFails(r) ==
    /\ req[r].pc \in {"load", "create"}
    /\ Answer(r, "error")
    /\ UNCHANGED <<map, objVars, sockVars, disk, linked, overlapped>>

\* send_message and send_media check the connection before their first await;
\* send_media reads the file and checks again.
BeginSend(r) ==
    /\ Fresh(r) /\ map # None /\ connected[map]
    /\ \E pc \in {"media", "typing"} :
        req' = [req EXCEPT ![r] = [pc |-> pc, o |-> map, s |-> None]]
    /\ UNCHANGED <<map, objVars, sockVars, disk, linked, overlapped>>

ReadMedia(r) ==
    /\ At(r, "media")
    /\ \/ connected[req[r].o] /\ Goto(r, "typing")
       \/ Answer(r, "error")
    /\ UNCHANGED <<map, objVars, sockVars, disk, linked, overlapped>>

\* After the typing delay this.sock is read again: it may be another socket.
Typed(r) ==
    /\ At(r, "typing")
    /\ LET s == sock[req[r].o] IN
        IF s = None THEN Answer(r, "error")
        ELSE req' = [req EXCEPT ![r].pc = "deliver", ![r].s = s]
    /\ UNCHANGED <<map, objVars, sockVars, disk, linked, overlapped>>

Deliver(r) ==
    /\ At(r, "deliver")
    /\ \/ st[req[r].s] = "open" /\ Answer(r, "ok")
       \/ Answer(r, "error")
    /\ UNCHANGED <<map, objVars, sockVars, disk, linked, overlapped>>

-----------------------------------------------------------------------------
(* disconnect: the timer is cleared, the socket logs out, and only then    *)
(* are the fields and the map cleared.                                     *)

ClearTimer(o) == IF timers[o] > 0 THEN timers[o] - 1 ELSE 0

BeginDisconnect(r) ==
    /\ Fresh(r) /\ map # None /\ sock[map] # None
    /\ timers' = [timers EXCEPT ![map] = ClearTimer(map)]
    /\ ended' = [ended EXCEPT ![map] = "asked"]
    /\ req' = [req EXCEPT ![r] = [pc |-> "logout", o |-> map, s |-> sock[map]]]
    /\ UNCHANGED <<map, auth, sock, qr, connected, attempts, retries, sockVars,
                   disk, linked, overlapped>>

Clear(o) ==
    /\ auth' = [auth EXCEPT ![o] = "null"]
    /\ sock' = [sock EXCEPT ![o] = None]
    /\ qr' = [qr EXCEPT ![o] = FALSE]
    /\ connected' = [connected EXCEPT ![o] = FALSE]
    /\ map' = None

\* A live socket is logged out and closed; its close event is handled before
\* the promise of logout is, and finds the reason loggedOut.
LogoutDone(r) ==
    /\ At(r, "logout")
    /\ LET o == req[r].o  s == req[r].s IN
        /\ IF st[s] # "closed"
           THEN /\ st' = [st EXCEPT ![s] = "closed"]
                /\ linked' = (linked /\ auth[o] # "registered")
                /\ ended' = [ended EXCEPT ![o] = "closed"]
           ELSE UNCHANGED <<st, linked, ended>>
        /\ Clear(o)
    /\ Answer(r, "ok")
    /\ UNCHANGED <<attempts, timers, retries, own, opening, disk, overlapped>>

\* (mutant) The entry of the map is deleted although disconnect threw.
LogoutFailsDeletes(r) ==
    /\ At(r, "logout")
    /\ map' = None
    /\ Answer(r, "error")
    /\ UNCHANGED <<objVars, sockVars, disk, linked, overlapped>>

\* The request cannot be sent: disconnect throws before it clears anything.
LogoutFails(r) ==
    /\ At(r, "logout")
    /\ Answer(r, "error")
    /\ UNCHANGED <<map, objVars, sockVars, disk, linked, overlapped>>

-----------------------------------------------------------------------------
(* The process ends and the server starts another: it is killed, or it     *)
(* crashes.  A crash of its own: 'open' was handled up to its await, the    *)
(* session was disconnected meanwhile, and this.sock.user throws in a      *)
(* promise nobody handles.                                                 *)

Restart ==
    /\ map' = None
    /\ auth' = [o \in Objs |-> "null"] /\ sock' = [o \in Objs |-> None]
    /\ qr' = [o \in Objs |-> FALSE] /\ connected' = [o \in Objs |-> FALSE]
    /\ attempts' = [o \in Objs |-> 0] /\ timers' = [o \in Objs |-> 0]
    /\ retries' = [o \in Objs |-> 0] /\ ended' = [o \in Objs |-> "no"]
    /\ st' = [s \in Socks |-> "free"] /\ own' = [s \in Socks |-> None]
    /\ opening' = {}
    /\ req' = [r \in Requests |-> NewRequest]
    /\ overlapped' = FALSE
    /\ UNCHANGED <<disk, linked>>

OpenCrashes(s) == s \in opening /\ sock[own[s]] = None /\ Restart

RequestStep(r) == \/ LoadAuth(r) \/ InitDone(r) \/ InitFails(r)
                  \/ ReadMedia(r) \/ Typed(r) \/ Deliver(r)
                  \/ LogoutDone(r) \/ LogoutFails(r)
NewRequestStep(r) == \/ Refuse(r) \/ ReadOnly(r) \/ InitSession(r)
                     \/ BeginSend(r) \/ BeginDisconnect(r)
ObjectStep(o) == TimerFires(o) \/ Reconnect(o) \/ ReconnectFails(o) \/ SaveCreds(o)
SocketStep(s) == \/ QrEvent(s) \/ Pair(s) \/ OpenEvent(s)
                 \/ OpenHandled(s) \/ OpenCrashes(s)
                 \/ \E reason \in Reasons : CloseEvent(s, reason)

Next == \/ \E r \in Requests : RequestStep(r) \/ NewRequestStep(r)
        \/ \E o \in Objs : ObjectStep(o)
        \/ \E s \in Socks : SocketStep(s)
        \/ Unlink \/ Restart

Spec == Init /\ [][Next]_vars

-----------------------------------------------------------------------------
(* Types of the state. *)
TypeOK ==
    /\ map \in Objs \cup {None}
    /\ auth \in [Objs -> Auth] /\ sock \in [Objs -> Socks \cup {None}]
    /\ qr \in [Objs -> BOOLEAN] /\ connected \in [Objs -> BOOLEAN]
    /\ attempts \in [Objs -> 0 .. MaxReconnectAttempts]
    /\ timers \in [Objs -> Nat] /\ retries \in [Objs -> Nat]
    /\ ended \in [Objs -> {"no", "closed", "asked"}]
    /\ st \in [Socks -> SockSt] /\ own \in [Socks -> Objs \cup {None}]
    /\ opening \subseteq Socks
    /\ req \in [Requests -> [pc : Waiting \cup Answered,
                             o : Objs \cup {None}, s : Socks \cup {None}]]
    /\ disk \in BOOLEAN /\ linked \in BOOLEAN /\ overlapped \in BOOLEAN

\* What keeps an object connected or will connect it again.
Tokens(o) == Cardinality(Live(o)) + timers[o] + retries[o]

(* An object has one connection, or one pending timeout, or one attempt in *)
(* progress, never two: a reconnection does not race another, whatever     *)
(* closes, fails or is disconnected (session.js:263 starts a timeout       *)
(* without looking for another one).  A session that is in the map has     *)
(* exactly one, unless it was closed for good or somebody asked to         *)
(* disconnect it.                                                          *)
OneConnection ==
    /\ \A o \in Objs : Tokens(o) <= 1
    /\ map # None /\ ended[map] = "no" => Tokens(map) = 1

(* A session that says it is connected uses an open socket and offers no   *)
(* QR code: sends and get_qr rely on it.                                   *)
ConnectedIsOpen ==
    \A o \in Objs : connected[o] => /\ sock[o] # None /\ st[sock[o]] = "open"
                                    /\ own[sock[o]] = o /\ ~qr[o]

(* Unless two init_session requests overlap, which index.js:104 cannot see *)
(* because the map is written at the end, the process never has two live   *)
(* sockets for its session.                                                *)
OneLiveSocket ==
    ~overlapped => Cardinality({s \in Socks : st[s] \in {"connecting", "open"}}) <= 1

(* When a connection was closed for good, by a logout or because the       *)
(* attempts are used up, the object makes no socket any more.              *)
ClosedForGood ==
    [][\A s \in Socks : st'[s] = "connecting" /\ st[s] # "connecting"
                        => ended[own'[s]] # "closed"]_vars
=============================================================================
