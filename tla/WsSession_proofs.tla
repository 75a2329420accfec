--------------------------- MODULE WsSession_proofs ---------------------------
(****************************************************************************)
(* The session table is exactly what has been earned, and so is the         *)
(* permission of every socket, for all passwords, times and bounds.         *)
(****************************************************************************)
EXTENDS WsSession, SequenceTheorems, TLAPS

\* The frontend shows what the wall lets through: with the role and the flags
\* of /api/auth/status, satisfies in auth.svelte.ts and Wrap in auth.go agree
\* on every route.
THEOREM UiMirrorsWall ==
  ASSUME NEW role \in Roles \union {RoleNone}, NEW required \in Roles
  PROVE  UiSatisfies(Enabled, OperatorGated, role, required) <=> Admits(role, required)
  BY DEF UiSatisfies, Admits, Satisfies, Roles, RoleNone

-----------------------------------------------------------------------------
Entry == [pw : Passwords, at : Nat, ended : BOOLEAN]

\* Every session in the table belongs to a login that has not been ended; a
\* login without one has been ended or has expired.
TableInv ==
  /\ now \in Nat
  /\ ledger \in Seq(Entry)
  /\ DOMAIN tokens \subseteq 1..Len(ledger)
  /\ \A k \in 1..Len(ledger) :
       /\ RoleOf(ledger[k].pw) # RoleNone
       /\ k \in DOMAIN tokens =>
            /\ tokens[k] = [role |-> RoleOf(ledger[k].pw), exp |-> ledger[k].at + TTL]
            /\ ~ledger[k].ended
       /\ k \notin DOMAIN tokens => ledger[k].ended \/ now > ledger[k].at + TTL

\* The fields of a ledger entry, one by one.
LEMMA LedgerTyped ==
  ASSUME TableInv
  PROVE  /\ Len(ledger) \in Nat /\ DOMAIN ledger = 1..Len(ledger)
         /\ \A k \in 1..Len(ledger) :
              ledger[k] \in Entry /\ ledger[k].pw \in Passwords /\ ledger[k].at \in Nat
<1>1. /\ Len(ledger) \in Nat /\ DOMAIN ledger = 1..Len(ledger)
      /\ \A k \in 1..Len(ledger) : ledger[k] \in Entry
  BY LenProperties, ElementOfSeq DEF TableInv
<1> QED BY <1>1 DEF Entry

\* What the table holds for a token is what the ledger says of its login.
LEMMA TableEntry ==
  ASSUME TableInv, NEW k \in DOMAIN tokens
  PROVE  /\ k \in 1..Len(ledger)
         /\ tokens[k].role = RoleOf(ledger[k].pw)
         /\ ~ledger[k].ended
         /\ Expired(tokens[k]) <=> now > ledger[k].at + TTL
<1>1. k \in 1..Len(ledger)
  BY DEF TableInv
<1>2. tokens[k] = [role |-> RoleOf(ledger[k].pw), exp |-> ledger[k].at + TTL] /\ ~ledger[k].ended
  BY <1>1 DEF TableInv
<1>3. tokens[k].role = RoleOf(ledger[k].pw) /\ tokens[k].exp = ledger[k].at + TTL
  BY <1>2
<1> QED BY <1>1, <1>2, <1>3 DEF Expired

\* The role of a password covers every role that has this password.
LEMMA RoleOfPassword ==
  ASSUME NEW pw \in Passwords
  PROVE  /\ RoleOf(pw) \in Roles \union {RoleNone}
         /\ \A r \in Roles : Hashes[r] = pw => Satisfies(RoleOf(pw), r)
  BY DEF RoleOf, Roles, RoleNone, Satisfies

\* The invariant of the table is all that SessionsAreEarned needs.
LEMMA TableInvEarned == TableInv => SessionsAreEarned
<1> SUFFICES ASSUME TableInv, NEW k \in DOMAIN ledger
             PROVE  /\ LoggedIn(k) <=> Earned(k)
                    /\ LoggedIn(k) => \A r \in Roles :
                         Hashes[r] = ledger[k].pw => Satisfies(SessionRole(k), r)
  BY DEF SessionsAreEarned
<1>1. k \in 1..Len(ledger) /\ ledger[k].at \in Nat /\ ledger[k].pw \in Passwords
  BY LedgerTyped
<1>2. CASE k \in DOMAIN tokens
  <2>1. RoleOf(ledger[k].pw) # RoleNone
    BY <1>1 DEF TableInv
  <2>2. now > ledger[k].at + TTL <=> ~(now <= ledger[k].at + TTL)
    BY <1>1, SessionsAssumption DEF TableInv
  <2> QED BY <1>1, <1>2, <2>1, <2>2, TableEntry, RoleOfPassword DEF LoggedIn, SessionRole, Earned
<1>3. CASE k \notin DOMAIN tokens
  <2>1. ~LoggedIn(k)
    BY <1>3 DEF LoggedIn, SessionRole
  <2>2. ledger[k].ended \/ now > ledger[k].at + TTL
    BY <1>1, <1>3 DEF TableInv
  <2>3. ~Earned(k)
    BY <1>1, <2>2, SessionsAssumption DEF Earned, TableInv
  <2> QED BY <2>1, <2>3
<1> QED BY <1>2, <1>3

\* An empty table has earned nothing.
LEMMA TableInvInit == WsInit => TableInv
  BY DEF WsInit, SessionsInit, TableInv

\* Sessions that have expired may be taken out of the table.
LEMMA CollectKeepsInv ==
  ASSUME TableInv, NEW S \in SUBSET DOMAIN tokens,
         \A k \in S : Expired(tokens[k]),
         tokens' = [k \in DOMAIN tokens \ S |-> tokens[k]],
         UNCHANGED <<now, ledger>>
  PROVE  TableInv'
<1>1. \A k \in S : now > ledger[k].at + TTL
  BY TableEntry
<1> QED BY <1>1 DEF TableInv

\* A lookup takes out nothing but its own expired session.
LEMMA LookupKeepsInv ==
  ASSUME TableInv, NEW c, Lookup(c)
  PROVE  TableInv'
<1>1. CASE c \in DOMAIN tokens /\ Expired(tokens[c])
  <2>1. /\ {c} \in SUBSET DOMAIN tokens
        /\ \A k \in {c} : Expired(tokens[k])
        /\ tokens' = [k \in DOMAIN tokens \ {c} |-> tokens[k]]
        /\ UNCHANGED <<now, ledger>>
    BY <1>1 DEF Lookup, AfterLookup
  <2> QED BY <2>1, CollectKeepsInv
<1>2. CASE ~(c \in DOMAIN tokens /\ Expired(tokens[c]))
  <2>1. UNCHANGED <<now, tokens, ledger>>
    BY <1>2 DEF Lookup, AfterLookup
  <2> QED BY <2>1 DEF TableInv
<1> QED BY <1>1, <1>2

\* A login collects the expired and enters one, under a new token.
LEMMA LoginKeepsInv ==
  ASSUME TableInv, NEW pw \in Passwords, Login(pw)
  PROVE  TableInv'
<1> DEFINE n == NewToken
           Live == {k \in DOMAIN tokens : ~Expired(tokens[k])}
           entry == [pw |-> pw, at |-> now, ended |-> FALSE]
<1>1. n = Len(ledger) + 1 /\ n \notin DOMAIN tokens /\ Len(ledger) \in Nat
  BY DEF NewToken, TableInv
<1>2. /\ ledger' = Append(ledger, entry)
      /\ entry \in Entry
      /\ now' = now
  BY DEF Login, TableInv, Entry
<1>3. /\ ledger' \in Seq(Entry)
      /\ Len(ledger') = n
      /\ \A k \in 1..Len(ledger) : ledger'[k] = ledger[k]
      /\ ledger'[n] = entry
  BY <1>1, <1>2 DEF TableInv
<1>4. /\ DOMAIN tokens' = Live \union {n}
      /\ tokens'[n] = [role |-> RoleOf(pw), exp |-> now + TTL]
      /\ \A k \in Live : tokens'[k] = tokens[k]
  BY <1>1 DEF Login, WithNewToken
<1>5. DOMAIN tokens' \subseteq 1..Len(ledger')
  BY <1>1, <1>3, <1>4 DEF TableInv
<1>6. ASSUME NEW k \in 1..Len(ledger')
      PROVE  /\ RoleOf(ledger'[k].pw) # RoleNone
             /\ k \in DOMAIN tokens' =>
                  /\ tokens'[k] = [role |-> RoleOf(ledger'[k].pw), exp |-> ledger'[k].at + TTL]
                  /\ ~ledger'[k].ended
             /\ k \notin DOMAIN tokens' => ledger'[k].ended \/ now' > ledger'[k].at + TTL
  <2>1. CASE k = n
    BY <1>3, <1>4, <2>1 DEF Login
  <2>2. CASE k # n
    <3>1. k \in 1..Len(ledger) /\ ledger'[k] = ledger[k]
      BY <1>1, <1>3, <1>6, <2>2
    <3>2. CASE k \in Live
      BY <1>4, <3>1, <3>2 DEF TableInv
    <3>3. CASE k \in DOMAIN tokens \ Live
      <4>1. now > ledger[k].at + TTL
        BY <3>3, TableEntry
      <4> QED BY <1>2, <1>4, <2>2, <3>1, <3>3, <4>1 DEF TableInv
    <3>4. CASE k \notin DOMAIN tokens
      BY <1>2, <1>4, <2>2, <3>1, <3>4 DEF TableInv
    <3> QED BY <3>2, <3>3, <3>4
  <2> QED BY <2>1, <2>2
<1> QED BY <1>2, <1>3, <1>5, <1>6 DEF TableInv

\* Logins are ended together with their sessions.
LEMMA EndKeepsInv ==
  ASSUME TableInv, NEW S,
         tokens' = [k \in DOMAIN tokens \ S |-> tokens[k]],
         ledger' = [k \in DOMAIN ledger |->
                      IF k \in S THEN [ledger[k] EXCEPT !.ended = TRUE] ELSE ledger[k]],
         now' = now
  PROVE  TableInv'
<1>1. /\ DOMAIN ledger = 1..Len(ledger) /\ Len(ledger) \in Nat
      /\ \A k \in 1..Len(ledger) : ledger[k] \in Entry
  BY LedgerTyped
<1>2. \A k \in 1..Len(ledger) :
        /\ ledger'[k] \in Entry
        /\ ledger'[k].pw = ledger[k].pw /\ ledger'[k].at = ledger[k].at
        /\ ledger'[k].ended <=> (ledger[k].ended \/ k \in S)
  <2> TAKE k \in 1..Len(ledger)
  <2>1. CASE k \in S
    BY <1>1, <2>1 DEF Entry
  <2>2. CASE k \notin S
    BY <1>1, <2>2
  <2> QED BY <2>1, <2>2
<1>3. ledger' \in Seq(Entry) /\ Len(ledger') = Len(ledger)
  <2>1. ledger' \in [1..Len(ledger) -> Entry]
    BY <1>1, <1>2
  <2>2. ledger' \in Seq(Entry)
    BY <1>1, <2>1, SeqDef
  <2> QED BY <1>1, <2>1, <2>2, LenProperties
<1>4. DOMAIN tokens' = DOMAIN tokens \ S /\ \A k \in DOMAIN tokens' : tokens'[k] = tokens[k]
  OBVIOUS
<1> QED BY <1>2, <1>3, <1>4 DEF TableInv

\* A logout ends one login.
LEMMA LogoutKeepsInv ==
  ASSUME TableInv, NEW c, Logout(c)
  PROVE  TableInv'
<1>1. /\ tokens' = [k \in DOMAIN tokens \ {c} |-> tokens[k]]
      /\ ledger' = [k \in DOMAIN ledger |->
                      IF k \in {c} THEN [ledger[k] EXCEPT !.ended = TRUE] ELSE ledger[k]]
      /\ now' = now
  BY DEF Logout, WithoutToken
<1> QED BY <1>1, EndKeepsInv

\* The end of the process ends all of them.
LEMMA DropKeepsInv ==
  ASSUME TableInv, DropSessions
  PROVE  TableInv'
<1> DEFINE S == DOMAIN ledger
<1>1. DOMAIN tokens \subseteq S
  BY DEF TableInv
<1>2. /\ tokens' = [k \in DOMAIN tokens \ S |-> tokens[k]]
      /\ ledger' = [k \in DOMAIN ledger |->
                      IF k \in S THEN [ledger[k] EXCEPT !.ended = TRUE] ELSE ledger[k]]
      /\ now' = now
  BY <1>1 DEF DropSessions
<1> QED BY <1>2, EndKeepsInv

\* One step of the browser, the server or time.
LEMMA TableInvStep == TableInv /\ [WsNext]_vars => TableInv'
<1> SUFFICES ASSUME TableInv, [WsNext]_vars
             PROVE  TableInv'
  OBVIOUS
<1>1. CASE UNCHANGED sessionVars
  BY <1>1 DEF TableInv, sessionVars
<1>2. CASE \E c : Lookup(c)
  BY <1>2, LookupKeepsInv
<1>3. CASE \E pw \in Passwords : Login(pw)
  BY <1>3, LoginKeepsInv
<1>4. CASE \E c : Logout(c)
  BY <1>4, LogoutKeepsInv
<1>5. CASE DropSessions
  BY <1>5, DropKeepsInv
<1>6. CASE Tick
  <2>1. now' \in Nat /\ now' = now + 1 /\ UNCHANGED <<tokens, ledger>>
    BY <1>6 DEF Tick, TableInv
  <2>2. \A k \in 1..Len(ledger) : now > ledger[k].at + TTL => now' > ledger[k].at + TTL
    BY <2>1, SessionsAssumption, LedgerTyped DEF TableInv
  <2> QED BY <2>1, <2>2 DEF TableInv
<1> QED
  BY <1>1, <1>2, <1>3, <1>4, <1>5, <1>6 DEF WsNext, CheckStatus, SubmitLogin, SubmitLogout,
     HttpAnswered, HttpLost, OtherTabLogin, OtherTabLogout, Connect, Upgrade, Send, Receive, Drop,
     ServerClosed, Reload, Serve, ReadCommand, QueueAck, ReadFails, WriteAck, WriteFails, WriterDone,
     Restart, vars

\* The invariant of the table.
LEMMA TableInvHolds == WsSpec => []TableInv
<1> QED BY TableInvInit, TableInvStep, PTL DEF WsSpec

\* The table never forgets a good session, never keeps one beyond its expiry,
\* its logout or the process, and gives it the strongest role of its password.
THEOREM SessionsAreEarnedHolds == WsSpec => []SessionsAreEarned
<1> QED BY TableInvHolds, TableInvEarned, PTL

\* A socket is opened with the permission to write exactly when the cookie of
\* the browser stands for a good session.
THEOREM PermissionIsEarnedHolds == WsSpec => PermissionIsEarned
<1>1. TableInv /\ [WsNext]_vars =>
        [sock = "connecting" /\ sock' = "open" => (conn'.canWrite <=> Earned(jar))]_vars
  <2> SUFFICES ASSUME TableInv, [WsNext]_vars, sock = "connecting", sock' = "open"
               PROVE  conn'.canWrite <=> Earned(jar)
    OBVIOUS
  <2>1. Upgrade
    BY DEF WsNext, CheckStatus, SubmitLogin, SubmitLogout, HttpAnswered, HttpLost, OtherTabLogin,
       OtherTabLogout, Connect, Send, Receive, Drop, ServerClosed, Reload, CloseSocket, Serve,
       ReadCommand, QueueAck, ReadFails, WriteAck, WriteFails, WriterDone, Restart, Tick, vars, wsVars
  <2>2. conn'.canWrite = LoggedIn(jar)
    BY <2>1 DEF Upgrade, NewConn, NoConn, CanWrite
  <2>3. LoggedIn(jar) <=> Earned(jar)
    <3>1. CASE jar \in DOMAIN ledger
      BY <3>1, TableInvEarned DEF SessionsAreEarned
    <3>2. CASE jar \notin DOMAIN ledger
      <4>1. jar \notin DOMAIN tokens
        BY <3>2 DEF TableInv
      <4> QED BY <3>2, <4>1 DEF LoggedIn, SessionRole, Earned
    <3> QED BY <3>1, <3>2
  <2> QED BY <2>2, <2>3
<1> QED BY <1>1, TableInvHolds, PTL DEF WsSpec, PermissionIsEarned

-----------------------------------------------------------------------------
(* Types and bounds.  The table is typed by the invariant above; the        *)
(* browser and the connection are typed one after the other.                *)

TabType(n) == [checked : BOOLEAN, loggedIn : BOOLEAN,
               http : [kind : {"none", "status", "login", "logout"}, ok : BOOLEAN,
                       token : 0..n]]

\* The browser knows only tokens that have been minted.
BrowserInv ==
  /\ now <= MaxTime /\ Len(ledger) <= MaxLogins
  /\ jar \in 0..Len(ledger)
  /\ tab \in TabType(Len(ledger))

ConnType == [open : BOOLEAN, peer : {"none", "up", "closed", "silent"}, canWrite : BOOLEAN,
             reader : {"reading", "gone"} \union Acks, writer : {"running", "gone"},
             inbox : 0..InFlight, acks : Seq(Acks), wire : Seq(Acks)]

\* Neither the channel nor the wire holds more than it has room for, and a
\* socket is open only while the server's end is reachable.
ConnInv ==
  /\ conn \in ConnType
  /\ Len(conn.acks) <= AckSlots /\ Len(conn.wire) <= InFlight
  /\ sock \in {"closed", "connecting", "open"}
  /\ sock = "open" => conn.peer = "up"

\* The bounds are numbers.
LEMMA BoundsTyped == AckSlots \in Nat /\ InFlight \in Nat /\ MaxLogins \in Nat /\ MaxTime \in Nat
  BY WsAssumption

\* The ledger never gets shorter, and longer only by the login that minted a
\* token.
LEMMA LedgerGrows ==
  ASSUME TableInv
  PROVE  /\ Len(ledger) \in Nat
         /\ \A pw : Login(pw) => Len(ledger') = Len(ledger) + 1
         /\ \A c : Logout(c) \/ Lookup(c) => Len(ledger') = Len(ledger)
         /\ DropSessions => Len(ledger') = Len(ledger)
<1>1. /\ Len(ledger) \in Nat /\ DOMAIN ledger = 1..Len(ledger)
      /\ \A k \in 1..Len(ledger) : ledger[k] \in Entry
  BY LedgerTyped
<1>2. ASSUME NEW pw, Login(pw)
      PROVE  Len(ledger') = Len(ledger) + 1
  <2> DEFINE entry == [pw |-> pw, at |-> now, ended |-> FALSE]
  <2>1. ledger' = Append(ledger, entry) /\ ledger \in Seq(Entry \union {entry})
    <3>1. Seq(Entry) \subseteq Seq(Entry \union {entry})
      OBVIOUS
    <3> QED BY <1>2, <3>1 DEF Login, TableInv
  <2> HIDE DEF entry
  <2> QED BY <2>1, AppendProperties
<1>3. ASSUME NEW S,
             ledger' = [k \in DOMAIN ledger |->
                          IF k \in S THEN [ledger[k] EXCEPT !.ended = TRUE] ELSE ledger[k]]
      PROVE  Len(ledger') = Len(ledger)
  <2>1. \A k \in 1..Len(ledger) : ledger'[k] \in Entry
    <3> TAKE k \in 1..Len(ledger)
    <3>1. CASE k \in S
      BY <1>1, <1>3, <3>1 DEF Entry
    <3>2. CASE k \notin S
      BY <1>1, <1>3, <3>2
    <3> QED BY <3>1, <3>2
  <2>2. ledger' \in [1..Len(ledger) -> Entry]
    BY <1>1, <1>3, <2>1
  <2>3. ledger' \in Seq(Entry)
    BY <1>1, <2>2, SeqDef
  <2> QED BY <1>1, <2>2, <2>3, LenProperties
<1>4. ASSUME NEW c, Logout(c)
      PROVE  Len(ledger') = Len(ledger)
  <2>1. ledger' = [k \in DOMAIN ledger |->
                     IF k \in {c} THEN [ledger[k] EXCEPT !.ended = TRUE] ELSE ledger[k]]
    BY <1>4 DEF Logout
  <2> QED BY <1>3, <2>1
<1>5. ASSUME NEW c, Lookup(c)
      PROVE  Len(ledger') = Len(ledger)
  BY <1>5 DEF Lookup
<1>6. ASSUME DropSessions
      PROVE  Len(ledger') = Len(ledger)
  <2>1. ledger' = [k \in DOMAIN ledger |->
                     IF k \in DOMAIN ledger THEN [ledger[k] EXCEPT !.ended = TRUE] ELSE ledger[k]]
    BY <1>6 DEF DropSessions
  <2> QED BY <1>3, <2>1
<1> QED BY <1>1, <1>2, <1>4, <1>5, <1>6

\* A longer ledger types what a shorter one typed.
LEMMA BrowserKept ==
  ASSUME BrowserInv, Len(ledger) \in Nat, Len(ledger') \in Nat,
         Len(ledger) <= Len(ledger'), Len(ledger') <= MaxLogins,
         now' <= MaxTime
  PROVE  /\ jar \in 0..Len(ledger')
         /\ tab \in TabType(Len(ledger'))
         /\ jar' \in 0..Len(ledger') /\ tab' \in TabType(Len(ledger')) => BrowserInv'
<1>1. 0..Len(ledger) \subseteq 0..Len(ledger')
  OBVIOUS
<1>2. tab \in TabType(Len(ledger'))
  BY <1>1 DEF BrowserInv, TabType
<1> QED BY <1>1, <1>2 DEF BrowserInv

\* One step, for the cookie and the tab.
LEMMA BrowserInvStep == TableInv /\ BrowserInv /\ [WsNext]_vars => BrowserInv'
<1> SUFFICES ASSUME TableInv, BrowserInv, [WsNext]_vars
             PROVE  BrowserInv'
  OBVIOUS
<1> DEFINE n == Len(ledger)
<1>1. n \in Nat /\ n <= MaxLogins /\ now <= MaxTime /\ NoCookie \in 0..n
  BY LedgerGrows DEF BrowserInv, NoCookie
<1>2. /\ tab \in TabType(n) /\ jar \in 0..n
      /\ tab.checked \in BOOLEAN /\ tab.loggedIn \in BOOLEAN /\ tab.http.token \in 0..n
      /\ tab.http.ok \in BOOLEAN
  BY DEF BrowserInv, TabType
<1>3. ASSUME Len(ledger') = n, now' = now, jar' \in 0..n, tab' \in TabType(n)
      PROVE  BrowserInv'
  BY <1>1, <1>3, BrowserKept
<1>4. \A kind \in {"status", "login", "logout"}, ok \in BOOLEAN, token \in 0..(n + 1) :
        /\ [tab EXCEPT !.http = Reply(kind, ok, token)] \in TabType(n + 1)
        /\ token \in 0..n => [tab EXCEPT !.http = Reply(kind, ok, token)] \in TabType(n)
  BY <1>1, <1>2 DEF TabType, Reply
<1>5. CASE CheckStatus
  <2>1. LoggedIn(jar) \in BOOLEAN
    BY DEF LoggedIn
  <2>2. tab' = [tab EXCEPT !.http = Reply("status", LoggedIn(jar), NoCookie)]
        /\ jar' = jar /\ Lookup(jar) /\ now' = now
    BY <1>5 DEF CheckStatus, Lookup
  <2>3. tab' \in TabType(n)
    BY <1>1, <1>4, <2>1, <2>2
  <2> QED BY <1>2, <1>3, <2>2, <2>3, LedgerGrows
<1>6. ASSUME NEW pw \in Passwords, SubmitLogin(pw)
      PROVE  BrowserInv'
  <2>1. jar' = jar
    BY <1>6 DEF SubmitLogin
  <2>2. CASE Login(pw) /\ NewToken <= MaxLogins
             /\ tab' = [tab EXCEPT !.http = Reply("login", TRUE, NewToken)]
    <3>1. Len(ledger') = n + 1 /\ NewToken = n + 1 /\ now' = now
      BY <2>2, LedgerGrows DEF NewToken, Login
    <3>2. NewToken \in 0..(n + 1)
      BY <1>1, <3>1
    <3>3. tab' \in TabType(n + 1)
      BY <1>4, <2>2, <3>2
    <3> QED BY <1>1, <1>2, <2>1, <2>2, <3>1, <3>3, BrowserKept
  <2>3. CASE UNCHANGED sessionVars
             /\ tab' = [tab EXCEPT !.http = Reply("login", FALSE, NoCookie)]
    <3>1. tab' \in TabType(n)
      BY <1>1, <1>2, <2>3 DEF TabType, Reply
    <3> QED BY <1>2, <1>3, <2>1, <2>3, <3>1 DEF sessionVars
  <2> QED BY <1>6, <2>2, <2>3 DEF SubmitLogin
<1>7. CASE SubmitLogout
  <2>1. tab' = [tab EXCEPT !.http = Reply("logout", TRUE, NoCookie)]
        /\ jar' = jar /\ Logout(jar) /\ now' = now
    BY <1>7 DEF SubmitLogout, Logout
  <2>2. tab' \in TabType(n)
    BY <1>1, <1>2, <2>1 DEF TabType, Reply
  <2> QED BY <1>2, <1>3, <2>1, <2>2, LedgerGrows
<1>8. \A checked \in BOOLEAN, loggedIn \in BOOLEAN :
        [checked |-> checked, http |-> NoHttp, loggedIn |-> loggedIn] \in TabType(n)
  BY <1>1 DEF TabType, NoHttp
<1>9. CASE HttpAnswered
  <2> DEFINE h == tab.http
             loggedIn == CASE h.kind = "status" -> h.ok
                           [] h.kind = "login"  -> h.ok \/ tab.loggedIn
                           [] h.kind = "logout" -> FALSE
  <2>1. loggedIn \in BOOLEAN
    BY <1>2, <1>9 DEF HttpAnswered, TabType
  <2>2. tab' = [checked |-> TRUE, http |-> NoHttp, loggedIn |-> loggedIn]
    BY <1>9 DEF HttpAnswered
  <2>3. jar' \in {h.token, NoCookie, jar} /\ Len(ledger') = n /\ now' = now
    BY <1>9 DEF HttpAnswered, sessionVars
  <2> HIDE DEF loggedIn
  <2>4. tab' \in TabType(n)
    BY <1>8, <2>1, <2>2
  <2> QED BY <1>1, <1>2, <1>3, <2>3, <2>4
<1>10. ASSUME NEW kind, HttpLost(kind)
       PROVE  BrowserInv'
  <2>1. (tab.loggedIn /\ kind # "logout") \in BOOLEAN
    OBVIOUS
  <2>2. tab' \in TabType(n)
    BY <1>8, <1>10, <2>1 DEF HttpLost
  <2> QED BY <1>2, <1>3, <1>10, <2>2 DEF HttpLost, sessionVars
<1>11. ASSUME NEW pw \in Passwords, OtherTabLogin(pw)
       PROVE  BrowserInv'
  <2>1. Len(ledger') = n + 1 /\ NewToken = n + 1 /\ now' = now /\ jar' = n + 1 /\ tab' = tab
        /\ n + 1 <= MaxLogins
    BY <1>11, LedgerGrows DEF OtherTabLogin, NewToken, Login
  <2> QED BY <1>1, <2>1, BrowserKept
<1>12. CASE OtherTabLogout
  BY <1>1, <1>2, <1>3, <1>12, LedgerGrows DEF OtherTabLogout, Logout
<1>13. CASE Upgrade
  BY <1>2, <1>3, <1>13, LedgerGrows DEF Upgrade, Lookup
<1>14. CASE Connect \/ Send \/ Drop \/ ServerClosed \/ Serve \/ UNCHANGED vars
  BY <1>2, <1>3, <1>14 DEF Connect, Send, Drop, ServerClosed, Serve, ReadCommand, QueueAck, ReadFails,
     WriteAck, WriteFails, WriterDone, vars, wsVars, sessionVars
<1>15. CASE Receive
  <2> DEFINE loggedIn == tab.loggedIn /\ Head(conn.wire) # "unauthorized"
  <2>1. tab' = [tab EXCEPT !.loggedIn = loggedIn] /\ loggedIn \in BOOLEAN
    BY <1>15 DEF Receive, OnAck
  <2> HIDE DEF loggedIn
  <2>2. tab' \in TabType(n)
    BY <1>2, <2>1 DEF TabType
  <2> QED BY <1>2, <1>3, <1>15, <2>2 DEF Receive, sessionVars
<1>16. CASE Reload
  <2>1. tab' \in TabType(n)
    BY <1>8, <1>16 DEF Reload, NewTab
  <2> QED BY <1>2, <1>3, <1>16, <2>1 DEF Reload, sessionVars
<1>17. CASE Restart
  <2> DEFINE loggedIn == tab.loggedIn /\ tab.http.kind # "logout"
  <2>1. tab' = tab \/ tab' = [tab EXCEPT !.checked = TRUE, !.http = NoHttp, !.loggedIn = loggedIn]
    BY <1>17 DEF Restart
  <2>2. loggedIn \in BOOLEAN
    OBVIOUS
  <2> HIDE DEF loggedIn
  <2>3. [tab EXCEPT !.checked = TRUE, !.http = NoHttp, !.loggedIn = loggedIn] \in TabType(n)
    BY <1>1, <1>2, <2>2 DEF TabType, NoHttp
  <2>4. tab' \in TabType(n)
    BY <1>2, <2>1, <2>3
  <2> QED BY <1>2, <1>3, <1>17, <2>4, LedgerGrows DEF Restart, DropSessions
<1>18. CASE Tick
  <2>1. now' <= MaxTime
    BY <1>18, BoundsTyped DEF Tick, TableInv
  <2>2. ledger' = ledger /\ jar' = jar /\ tab' = tab
    BY <1>18 DEF Tick, wsVars
  <2> QED BY <1>1, <1>2, <2>1, <2>2, BrowserKept
<1> QED BY <1>5, <1>6, <1>7, <1>9, <1>10, <1>11, <1>12, <1>13, <1>14, <1>15, <1>16, <1>17, <1>18
        DEF WsNext

\* The channel disappears with the goroutines, nothing else does.
LEMMA EndedTyped ==
  ASSUME NEW c \in ConnType
  PROVE  /\ Ended(c) \in ConnType
         /\ Ended(c).wire = c.wire /\ Ended(c).peer = c.peer
         /\ Ended(c).acks \in {c.acks, <<>>}
<1>1. CASE c.reader = "gone" /\ c.writer = "gone"
  <2>1. Ended(c) = [c EXCEPT !.acks = <<>>]
    BY <1>1 DEF Ended
  <2>2. <<>> \in Seq(Acks)
    OBVIOUS
  <2>3. [c EXCEPT !.acks = <<>>] \in ConnType
    BY <2>2 DEF ConnType
  <2>4. Ended(c).wire = c.wire /\ Ended(c).peer = c.peer /\ Ended(c).acks = <<>>
    BY <2>1 DEF ConnType
  <2> QED BY <2>1, <2>3, <2>4
<1>2. CASE ~(c.reader = "gone" /\ c.writer = "gone")
  <2>1. Ended(c) = c
    BY <1>2 DEF Ended
  <2> QED BY <2>1
<1> QED BY <1>1, <1>2

\* One step, for the socket and the connection.
LEMMA ConnInvStep == ConnInv /\ [WsNext]_vars => ConnInv'
<1> SUFFICES ASSUME ConnInv, [WsNext]_vars
             PROVE  ConnInv'
  OBVIOUS
<1>1. /\ conn \in ConnType /\ conn.inbox \in 0..InFlight
      /\ conn.acks \in Seq(Acks) /\ conn.wire \in Seq(Acks)
      /\ Len(conn.acks) \in Nat /\ Len(conn.wire) \in Nat
      /\ Len(<<>>) = 0 /\ <<>> \in Seq(Acks)
  BY DEF ConnInv, ConnType
<1>2. ASSUME NEW c \in ConnType, conn' = Ended(c), c.wire = conn.wire, c.peer = conn.peer,
             c.acks = conn.acks, sock' = sock
      PROVE  ConnInv'
  <2>1. Len(<<>>) <= AckSlots
    BY <1>1, BoundsTyped
  <2> QED BY <1>2, <2>1, EndedTyped DEF ConnInv
<1>3. NoConn \in ConnType /\ NoConn.peer = "none" /\ NoConn.acks = <<>> /\ NoConn.wire = <<>>
  <2>1. 0 \in 0..InFlight
    BY BoundsTyped
  <2> QED BY <1>1, <2>1 DEF NoConn, ConnType
<1>4. ASSUME NEW peer \in {"none", "closed", "silent"}, CloseSocket(peer)
      PROVE  ConnInv'
  <2>1. CASE conn' = [conn EXCEPT !.peer = peer, !.wire = <<>>]
    <3>1. conn' \in ConnType /\ conn'.wire = <<>> /\ conn'.acks = conn.acks
      BY <1>1, <2>1 DEF ConnType
    <3> QED BY <1>1, <1>4, <3>1, BoundsTyped DEF CloseSocket, ConnInv
  <2>2. CASE conn' = conn
    BY <1>4, <2>2 DEF CloseSocket, ConnInv
  <2> QED BY <1>4, <2>1, <2>2 DEF CloseSocket
<1>5. CASE Connect
  BY <1>5 DEF Connect, ConnInv
<1>6. CASE Upgrade
  <2> DEFINE w == LoggedIn(jar)
  <2>1. w \in BOOLEAN
    BY DEF LoggedIn
  <2>2. conn' = [NoConn EXCEPT !.open = TRUE, !.peer = "up", !.canWrite = w,
                               !.reader = "reading", !.writer = "running"]
        /\ sock' = "open"
    BY <1>6 DEF Upgrade, NewConn, CanWrite
  <2> HIDE DEF w
  <2>3. conn' \in ConnType /\ conn'.peer = "up" /\ conn'.acks = <<>> /\ conn'.wire = <<>>
    BY <1>3, <2>1, <2>2 DEF ConnType
  <2> QED BY <1>1, <2>2, <2>3, BoundsTyped DEF ConnInv
<1>7. CASE Send
  <2>1. conn.inbox + 1 \in 0..InFlight
    BY <1>1, <1>7, BoundsTyped DEF Send
  <2>2. conn' = [conn EXCEPT !.inbox = conn.inbox + 1] /\ sock' = sock
    BY <1>7 DEF Send
  <2>3. conn' \in ConnType /\ conn'.acks = conn.acks /\ conn'.wire = conn.wire
        /\ conn'.peer = conn.peer
    BY <1>1, <2>1, <2>2 DEF ConnType
  <2> QED BY <2>2, <2>3 DEF ConnInv
<1>8. CASE Receive
  <2>1. conn' = [conn EXCEPT !.wire = Tail(conn.wire)] /\ sock' = sock /\ conn.wire # <<>>
    BY <1>8 DEF Receive
  <2>2. Tail(conn.wire) \in Seq(Acks) /\ Len(Tail(conn.wire)) = Len(conn.wire) - 1
    BY <1>1, <2>1, HeadTailProperties
  <2>3. conn' \in ConnType /\ conn'.acks = conn.acks /\ conn'.wire = Tail(conn.wire)
        /\ conn'.peer = conn.peer
    BY <1>1, <2>1, <2>2 DEF ConnType
  <2> QED BY <1>1, <2>1, <2>2, <2>3, BoundsTyped DEF ConnInv
<1>9. CASE Drop
  BY <1>4, <1>9 DEF Drop
<1>10. CASE ServerClosed \/ Reload
  BY <1>4, <1>10 DEF ServerClosed, Reload
<1>11. CASE ReadCommand
  <2>1. conn.inbox - 1 \in 0..InFlight
    BY <1>1, <1>11, BoundsTyped DEF ReadCommand
  <2>2. conn' = [conn EXCEPT !.inbox = conn.inbox - 1, !.reader = Verdict] /\ sock' = sock
        /\ Verdict \in Acks
    BY <1>11 DEF ReadCommand, Verdict, Acks
  <2>3. conn' \in ConnType /\ conn'.acks = conn.acks /\ conn'.wire = conn.wire
        /\ conn'.peer = conn.peer
    BY <1>1, <2>1, <2>2 DEF ConnType
  <2> QED BY <2>2, <2>3 DEF ConnInv
<1>12. CASE QueueAck
  <2> DEFINE a == IF Len(conn.acks) < AckSlots THEN Append(conn.acks, conn.reader) ELSE conn.acks
  <2>1. conn' = [conn EXCEPT !.reader = "reading", !.acks = a] /\ sock' = sock
        /\ conn.reader \in Acks
    BY <1>12 DEF QueueAck, PutAck
  <2>2. a \in Seq(Acks) /\ Len(a) <= AckSlots
    <3>1. Append(conn.acks, conn.reader) \in Seq(Acks)
          /\ Len(Append(conn.acks, conn.reader)) = Len(conn.acks) + 1
      BY <1>1, <2>1, AppendProperties
    <3> QED BY <1>1, <3>1, BoundsTyped DEF ConnInv
  <2> HIDE DEF a
  <2>3. conn' \in ConnType /\ conn'.acks = a /\ conn'.wire = conn.wire /\ conn'.peer = conn.peer
    BY <1>1, <2>1, <2>2 DEF ConnType
  <2> QED BY <2>1, <2>2, <2>3 DEF ConnInv
<1>13. CASE ReadFails
  <2> DEFINE c == [conn EXCEPT !.reader = "gone", !.open = FALSE, !.inbox = 0]
  <2>1. c \in ConnType /\ c.wire = conn.wire /\ c.peer = conn.peer /\ c.acks = conn.acks
    <3>1. 0 \in 0..InFlight
      BY BoundsTyped
    <3> QED BY <1>1, <3>1 DEF ConnType
  <2>2. conn' = Ended(c) /\ sock' = sock
    BY <1>13 DEF ReadFails
  <2> HIDE DEF c
  <2> QED BY <1>2, <2>1, <2>2
<1>14. CASE WriteAck
  <2> DEFINE wire == IF conn.peer = "up" THEN Append(conn.wire, Head(conn.acks)) ELSE conn.wire
  <2>1. conn' = [conn EXCEPT !.acks = Tail(conn.acks), !.wire = wire] /\ sock' = sock
        /\ conn.acks # <<>> /\ (conn.peer = "up" => Len(conn.wire) < InFlight)
    BY <1>14 DEF WriteAck
  <2>2. Head(conn.acks) \in Acks /\ Tail(conn.acks) \in Seq(Acks)
        /\ Len(Tail(conn.acks)) = Len(conn.acks) - 1
    BY <1>1, <2>1, HeadTailProperties
  <2>3. wire \in Seq(Acks) /\ Len(wire) <= InFlight
    <3>1. Append(conn.wire, Head(conn.acks)) \in Seq(Acks)
          /\ Len(Append(conn.wire, Head(conn.acks))) = Len(conn.wire) + 1
      BY <1>1, <2>2, AppendProperties
    <3> QED BY <1>1, <2>1, <3>1, BoundsTyped DEF ConnInv
  <2> HIDE DEF wire
  <2>4. conn' \in ConnType /\ conn'.acks = Tail(conn.acks) /\ conn'.wire = wire
        /\ conn'.peer = conn.peer
    BY <1>1, <2>1, <2>2, <2>3 DEF ConnType
  <2>5. Len(conn'.acks) <= AckSlots
    BY <1>1, <2>2, <2>4, BoundsTyped DEF ConnInv
  <2> QED BY <2>1, <2>3, <2>4, <2>5 DEF ConnInv
<1>15. CASE WriteFails
  <2> DEFINE c == [conn EXCEPT !.writer = "gone", !.open = FALSE]
  <2>1. c \in ConnType /\ c.wire = conn.wire /\ c.peer = conn.peer /\ c.acks = conn.acks
    BY <1>1 DEF ConnType
  <2>2. conn' = Ended(c) /\ sock' = sock
    BY <1>15 DEF WriteFails
  <2> HIDE DEF c
  <2> QED BY <1>2, <2>1, <2>2
<1>16. CASE WriterDone
  <2> DEFINE c == [conn EXCEPT !.writer = "gone"]
  <2>1. c \in ConnType /\ c.wire = conn.wire /\ c.peer = conn.peer /\ c.acks = conn.acks
    BY <1>1 DEF ConnType
  <2>2. conn' = Ended(c) /\ sock' = sock
    BY <1>16 DEF WriterDone
  <2> HIDE DEF c
  <2> QED BY <1>2, <2>1, <2>2
<1>17. CASE Restart
  BY <1>1, <1>3, <1>17, BoundsTyped DEF Restart, ConnInv
<1>18. CASE UNCHANGED <<sock, conn>>
  BY <1>18 DEF ConnInv
<1> QED BY <1>5, <1>6, <1>7, <1>8, <1>9, <1>10, <1>11, <1>12, <1>13, <1>14, <1>15, <1>16, <1>17,
           <1>18 DEF WsNext, Serve, CheckStatus, SubmitLogin, SubmitLogout, HttpAnswered, HttpLost,
           OtherTabLogin, OtherTabLogout, Tick, vars, wsVars

\* A new tab without cookie and connection.
LEMMA TypedInit == WsInit => BrowserInv /\ ConnInv
<1> SUFFICES ASSUME WsInit PROVE BrowserInv /\ ConnInv
  OBVIOUS
<1>1. now = 0 /\ Len(ledger) = 0 /\ jar = 0 /\ tab = NewTab /\ sock = "closed" /\ conn = NoConn
  BY DEF WsInit, SessionsInit, NoCookie
<1>2. 0 \in 0..0 /\ 0 \in 0..InFlight /\ <<>> \in Seq(Acks) /\ Len(<<>>) = 0
  BY BoundsTyped
<1>3. tab \in TabType(0)
  BY <1>1, <1>2 DEF NewTab, NoHttp, NoCookie, TabType
<1>4. BrowserInv
  BY <1>1, <1>2, <1>3, BoundsTyped DEF BrowserInv
<1>5. conn \in ConnType /\ conn.acks = <<>> /\ conn.wire = <<>>
  BY <1>1, <1>2 DEF NoConn, ConnType
<1>6. ConnInv
  BY <1>1, <1>2, <1>5, BoundsTyped DEF ConnInv
<1> QED BY <1>4, <1>6

\* The invariant of the table types it.
LEMMA TableTyped == TableInv => SessionsTypeOK
<1> SUFFICES ASSUME TableInv PROVE SessionsTypeOK
  OBVIOUS
<1>1. ASSUME NEW k \in DOMAIN tokens
      PROVE  tokens[k] \in Session
  <2>1. k \in 1..Len(ledger) /\ RoleOf(ledger[k].pw) # RoleNone
        /\ tokens[k] = [role |-> RoleOf(ledger[k].pw), exp |-> ledger[k].at + TTL]
    BY <1>1 DEF TableInv
  <2>2. RoleOf(ledger[k].pw) \in Roles /\ ledger[k].at + TTL \in Nat
    BY <2>1, LedgerTyped, RoleOfPassword, SessionsAssumption
  <2> QED BY <2>1, <2>2 DEF Session
<1> QED BY <1>1 DEF TableInv, SessionsTypeOK, Entry

\* The types of the table, the browser and the connection: a cookie is none or
\* one that was minted, the acks channel never holds more than its capacity,
\* and a socket the browser sees open has the server's end on the other side.
THEOREM WsTypeCorrect == WsSpec => []WsTypeOK
<1>1. TableInv /\ BrowserInv /\ ConnInv => WsTypeOK
  <2> SUFFICES ASSUME TableInv, BrowserInv, ConnInv PROVE WsTypeOK
    OBVIOUS
  <2>1. conn.peer \in {"none", "up", "closed", "silent"} /\ conn.inbox \in 0..InFlight
        /\ conn.reader \in {"reading", "gone"} \union Acks /\ conn.writer \in {"running", "gone"}
    BY DEF ConnInv, ConnType
  <2> QED BY <2>1, TableTyped DEF BrowserInv, ConnInv, TabType, WsTypeOK
<1> QED BY <1>1, TypedInit, BrowserInvStep, ConnInvStep, TableInvHolds, PTL DEF WsSpec
=============================================================================
