------------------------------ MODULE WsSession ------------------------------
(****************************************************************************)
(* A browser tab, its WebSocket and the session cookie it shares with the   *)
(* other tabs of the browser: ServeHTTP of internal/wsserver with its two   *)
(* goroutines, the stores of the frontend (ws.svelte.ts, auth.svelte.ts),   *)
(* and the session table they rely on.                                      *)
(****************************************************************************)
EXTENDS Sessions

CONSTANTS
  AckSlots,   \* capacity of the acks channel (4 in the code)
  InFlight,   \* bound: commands under way to the server, acks to the browser
  MaxLogins,  \* bound: logins with a right password
  MaxTime     \* bound: how far the clock runs

ASSUME WsAssumption == {AckSlots, InFlight, MaxLogins, MaxTime} \subseteq Nat \ {0}

VARIABLES
  jar,   \* the session cookie, shared by all tabs; 0 when there is none
  tab,   \* [checked, loggedIn, http]: the auth store and its one request
  sock,  \* the browser's end: "closed", "connecting", "open"
  conn   \* the server's end

wsVars == <<jar, tab, sock, conn>>
vars == <<sessionVars, wsVars>>

NoCookie == 0

\* A request under way: [kind, ...] once the server has answered it.
NoHttp == [kind |-> "none", ok |-> FALSE, token |-> NoCookie]
Reply(kind, ok, token) == [kind |-> kind, ok |-> ok, token |-> token]

\* The server's end: what has been decided at the upgrade, the two goroutines,
\* what is under way to each, and how the browser's end looks from here.
NoConn == [open |-> FALSE, peer |-> "none", canWrite |-> FALSE, reader |-> "gone",
           writer |-> "gone", inbox |-> 0, acks |-> <<>>, wire |-> <<>>]
NewConn(canWrite) ==
  [NoConn EXCEPT !.open = TRUE, !.peer = "up", !.canWrite = canWrite,
                 !.reader = "reading", !.writer = "running"]

\* What the reader queues for the browser; it is in the state of that name when
\* it has handled a command and has not queued the ack yet.
Acks == {"result", "unauthorized"}

\* The channel goes with the second of the two goroutines.
Ended(c) == IF c.reader = "gone" /\ c.writer = "gone" THEN [c EXCEPT !.acks = <<>>] ELSE c

NewTab == [checked |-> FALSE, loggedIn |-> FALSE, http |-> NoHttp]

WsTypeOK ==
  /\ SessionsTypeOK
  /\ now <= MaxTime /\ Len(ledger) <= MaxLogins
  /\ jar \in 0..Len(ledger)
  /\ tab \in [checked : BOOLEAN, loggedIn : BOOLEAN,
              http : [kind : {"none", "status", "login", "logout"}, ok : BOOLEAN,
                      token : 0..Len(ledger)]]
  /\ sock \in {"closed", "connecting", "open"}
  /\ conn.peer \in {"none", "up", "closed", "silent"}
  /\ conn.inbox \in 0..InFlight
  /\ Len(conn.acks) <= AckSlots /\ Len(conn.wire) <= InFlight
  /\ conn.reader \in {"reading", "gone"} \union Acks /\ conn.writer \in {"running", "gone"}
  /\ sock = "open" => conn.peer = "up"

WsInit == SessionsInit /\ jar = NoCookie /\ tab = NewTab /\ sock = "closed" /\ conn = NoConn

-----------------------------------------------------------------------------
(* The auth store.  The server's part of a request and the arrival of its   *)
(* answer are two steps; the answer may get lost.                           *)

Request(kind) ==
  /\ tab.http = NoHttp
  /\ kind = "status" <=> ~tab.checked
  /\ kind = "logout" => tab.loggedIn
  /\ kind = "login" => ~tab.loggedIn

\* checkStatus, at mount
CheckStatus ==
  /\ Request("status")
  /\ Lookup(jar)
  /\ tab' = [tab EXCEPT !.http = Reply("status", LoggedIn(jar), NoCookie)]
  /\ UNCHANGED <<jar, sock, conn>>

\* Login.svelte, submit
SubmitLogin(pw) ==
  /\ Request("login")
  /\ IF RoleOf(pw) # RoleNone
       THEN /\ NewToken <= MaxLogins
            /\ Login(pw)
            /\ tab' = [tab EXCEPT !.http = Reply("login", TRUE, NewToken)]
       ELSE /\ tab' = [tab EXCEPT !.http = Reply("login", FALSE, NoCookie)]
            /\ UNCHANGED sessionVars
  /\ UNCHANGED <<jar, sock, conn>>

SubmitLogout ==
  /\ Request("logout")
  /\ Logout(jar)
  /\ tab' = [tab EXCEPT !.http = Reply("logout", TRUE, NoCookie)]
  /\ UNCHANGED <<jar, sock, conn>>

\* The answer arrives, and with it the cookie that login and logout set.
HttpAnswered ==
  LET h == tab.http
  IN  /\ h.kind # "none"
      /\ tab' = [checked  |-> TRUE, http |-> NoHttp,
                 loggedIn |-> CASE h.kind = "status" -> h.ok
                                [] h.kind = "login"  -> h.ok \/ tab.loggedIn
                                [] h.kind = "logout" -> FALSE]
      /\ jar' = CASE h.kind = "login" /\ h.ok -> h.token
                  [] h.kind = "logout"        -> NoCookie
                  [] OTHER                    -> jar
      /\ UNCHANGED <<sessionVars, sock, conn>>

\* fetch throws, before or after the server's part: the status keeps its
\* defaults, a login shows its error, a logout is "best effort".
HttpLost(kind) ==
  /\ tab.http.kind = kind \/ Request(kind)
  /\ tab' = [checked |-> TRUE, http |-> NoHttp,
             loggedIn |-> tab.loggedIn /\ kind # "logout"]
  /\ UNCHANGED <<sessionVars, jar, sock, conn>>

\* Another tab logs in or out with the same jar.
OtherTabLogin(pw) ==
  /\ NewToken <= MaxLogins
  /\ Login(pw)
  /\ jar' = NewToken
  /\ UNCHANGED <<tab, sock, conn>>

OtherTabLogout ==
  /\ jar # NoCookie
  /\ Logout(jar)
  /\ jar' = NoCookie
  /\ UNCHANGED <<tab, sock, conn>>

-----------------------------------------------------------------------------
(* The WebSocket, seen from the browser.                                    *)

\* connect: at mount and two seconds after a close.
Connect ==
  /\ sock = "closed"
  /\ sock' = "connecting"
  /\ UNCHANGED <<sessionVars, jar, tab, conn>>

\* AuthorizeWrite, decided once when the server handles the upgrade.
CanWrite(cookie) == LoggedIn(cookie)

\* One connection is followed at a time: a next one starts when both goroutines
\* of the last have ended.  Connections share nothing but the sink.
Upgrade ==
  /\ sock = "connecting"
  /\ conn.reader = "gone" /\ conn.writer = "gone"
  /\ Lookup(jar)
  /\ sock' = "open"
  /\ conn' = NewConn(CanWrite(jar))
  /\ UNCHANGED <<jar, tab>>

\* The panel is shown and a button is pressed.
Send ==
  /\ tab.checked /\ tab.loggedIn
  /\ sock = "open"
  /\ conn.inbox < InFlight
  /\ conn' = [conn EXCEPT !.inbox = @ + 1]
  /\ UNCHANGED <<sessionVars, jar, tab, sock>>

\* Mutant: a rejection is not shown.
OnAck_Ignored(ack) == UNCHANGED tab

OnAck(ack) ==
  tab' = [tab EXCEPT !.loggedIn = @ /\ ack # "unauthorized"]

\* onmessage, for an ack
Receive ==
  /\ sock = "open"
  /\ conn.wire # <<>>
  /\ OnAck(Head(conn.wire))
  /\ conn' = [conn EXCEPT !.wire = Tail(@)]
  /\ UNCHANGED <<sessionVars, jar, sock>>

\* The browser's end goes, and the server hears of it, or does not.
CloseSocket(peer) ==
  /\ sock' = "closed"
  /\ conn' = IF sock = "open" THEN [conn EXCEPT !.peer = peer, !.wire = <<>>] ELSE conn

\* onclose: the server closed, or the network failed.
Drop ==
  /\ \/ sock = "open" /\ \E peer \in {"closed", "silent"} : CloseSocket(peer)
     \/ sock = "connecting" /\ CloseSocket("none")
  /\ UNCHANGED <<sessionVars, jar, tab>>

ServerClosed ==
  /\ sock = "open"
  /\ ~conn.open /\ conn.wire = <<>>
  /\ CloseSocket("closed")
  /\ UNCHANGED <<sessionVars, jar, tab>>

Reload ==
  /\ tab.checked
  /\ tab' = NewTab
  /\ CloseSocket("closed")
  /\ UNCHANGED <<sessionVars, jar>>

-----------------------------------------------------------------------------
(* ServeHTTP: the reader.                                                   *)

\* Mutant: the reader waits for a free slot.
PutAck_Blocking(acks, ack) ==
  IF Len(acks) < AckSlots THEN {Append(acks, ack)} ELSE {}

\* Mutant: there is always room.
PutAck_Unbounded(acks, ack) == {Append(acks, ack)}

\* The send that drops the ack when the channel is full.
PutAck(acks, ack) ==
  {IF Len(acks) < AckSlots THEN Append(acks, ack) ELSE acks}

\* A command is refused by the gate, or has a result: it is applied, or the
\* decoder or applyCmd finds an error, which the browser only displays.
Verdict == IF conn.canWrite THEN "result" ELSE "unauthorized"

ReadCommand ==
  /\ conn.reader = "reading" /\ conn.open /\ conn.inbox > 0
  /\ conn' = [conn EXCEPT !.inbox = @ - 1, !.reader = Verdict]
  /\ UNCHANGED <<sessionVars, jar, tab, sock>>

QueueAck ==
  /\ conn.reader \in Acks
  /\ \E acks \in PutAck(conn.acks, conn.reader) :
       conn' = [conn EXCEPT !.reader = "reading", !.acks = acks]
  /\ UNCHANGED <<sessionVars, jar, tab, sock>>

\* ReadMessage fails: our end is closed, the other end closed after what it
\* had sent, or no pong came within pongWait.  The deferred Close and
\* close(done) follow.
ReadFails ==
  /\ conn.reader = "reading"
  /\ \/ ~conn.open
     \/ conn.peer = "closed" /\ conn.inbox = 0
     \/ conn.peer = "silent"
  /\ conn' = Ended([conn EXCEPT !.reader = "gone", !.open = FALSE, !.inbox = 0])
  /\ UNCHANGED <<sessionVars, jar, tab, sock>>

-----------------------------------------------------------------------------
(* ServeHTTP: the writer, the one goroutine that writes.                    *)

WriteAck ==
  /\ conn.writer = "running" /\ conn.open /\ conn.acks # <<>>
  /\ conn.peer = "up" => Len(conn.wire) < InFlight
  /\ conn' = [conn EXCEPT !.acks = Tail(@),
                          !.wire = IF conn.peer = "up" THEN Append(@, Head(conn.acks)) ELSE @]
  /\ UNCHANGED <<sessionVars, jar, tab, sock>>

\* A push, a ping or an ack fails, at once or at its deadline.
WriteFails ==
  /\ conn.writer = "running"
  /\ ~conn.open \/ conn.peer # "up" \/ Len(conn.wire) = InFlight
  /\ conn' = Ended([conn EXCEPT !.writer = "gone", !.open = FALSE])
  /\ UNCHANGED <<sessionVars, jar, tab, sock>>

IsDone == conn.reader = "gone"

WriterDone ==
  /\ conn.writer = "running"
  /\ IsDone
  /\ conn' = Ended([conn EXCEPT !.writer = "gone"])
  /\ UNCHANGED <<sessionVars, jar, tab, sock>>

-----------------------------------------------------------------------------
(* The process ends and another one starts.                                 *)
Restart ==
  /\ DropSessions
  /\ conn' = NoConn
  /\ sock' = "closed"
  /\ \/ UNCHANGED tab
     \/ tab' = [tab EXCEPT !.checked = TRUE, !.http = NoHttp,
                           !.loggedIn = @ /\ tab.http.kind # "logout"]
  /\ UNCHANGED jar

Tick ==
  /\ now < MaxTime
  /\ now' = now + 1
  /\ UNCHANGED <<tokens, ledger, wsVars>>

Serve == ReadCommand \/ QueueAck \/ ReadFails \/ WriteAck \/ WriteFails \/ WriterDone

WsNext ==
  \/ CheckStatus \/ SubmitLogout \/ HttpAnswered
  \/ \E pw \in Passwords : SubmitLogin(pw) \/ OtherTabLogin(pw)
  \/ \E kind \in {"status", "login", "logout"} : HttpLost(kind)
  \/ OtherTabLogout
  \/ Connect \/ Upgrade \/ Send \/ Receive \/ Drop \/ ServerClosed \/ Reload
  \/ Serve \/ Restart \/ Tick

WsSpec == WsInit /\ [][WsNext]_vars

\* The goroutines run and reads end at their deadline; the browser handles
\* what arrives and sees that the server has closed.
FairWsSpec ==
  /\ WsSpec
  /\ WF_vars(ReadCommand) /\ WF_vars(QueueAck) /\ WF_vars(ReadFails)
  /\ WF_vars(WriteAck) /\ WF_vars(WriterDone)
  /\ WF_vars(Receive) /\ WF_vars(ServerClosed)

-----------------------------------------------------------------------------
(* Properties.                                                              *)

\* A socket may send commands exactly when the cookie it was opened with
\* stood for a session that was good at that moment.
PermissionIsEarned ==
  [][sock = "connecting" /\ sock' = "open" => (conn'.canWrite <=> Earned(jar))]_vars

\* Whoever sends on a socket without permission gets to know: the tab falls
\* back to the login screen or the socket closes, although acks are dropped
\* when the channel is full.
RejectionIsShown ==
  sock = "open" /\ ~conn.canWrite /\ conn.inbox > 0 ~> ~tab.loggedIn \/ sock # "open"

\* When one end of a connection is gone both goroutines end, whatever was
\* queued: neither waits for the other in the channel.
ConnectionEnds ==
  ~conn.open \/ conn.peer # "up" ~> conn.reader = "gone" /\ conn.writer = "gone"

\* The frontend's comment on a rejection: "the session is gone/expired".
RejectionMeansGone ==
  [][Receive /\ Head(conn.wire) = "unauthorized" /\ tab.loggedIn => ~LoggedIn(jar)]_vars
=============================================================================
