------------------------------- MODULE Sessions -------------------------------
(****************************************************************************)
(* The role passwords and the session table of the bridge (internal/auth),  *)
(* as main configures them.  A token is random and never minted twice: it   *)
(* is represented by the number of the login that minted it.                *)
(****************************************************************************)
EXTENDS Integers, Sequences

CONSTANTS
  Passwords,  \* what may be typed
  NoHash,     \* the value of an environment variable that is not set
  EnvHashes,  \* for each role the password whose hash the environment holds
  Default,    \* the built-in vendor password
  TTL         \* sessionTTL

RoleNone == "none"
Roles == {"operator", "tuner", "vendor"}

ASSUME SessionsAssumption ==
  /\ NoHash \notin Passwords
  /\ EnvHashes \in [Roles -> Passwords \union {NoHash}]
  /\ Default \in Passwords
  /\ TTL \in Nat

-----------------------------------------------------------------------------
(* Roles and routes.                                                        *)

\* Role.satisfies
Satisfies(role, required) ==
  CASE required = RoleNone   -> TRUE
    [] required = "operator" -> role # RoleNone
    [] required = "tuner"    -> role \in {"tuner", "vendor"}
    [] OTHER                 -> role = "vendor"

\* main: with no hash in the environment the vendor's is the built-in one.
Hashes ==
  IF \A r \in Roles : EnvHashes[r] = NoHash
    THEN [EnvHashes EXCEPT !["vendor"] = Default]
    ELSE EnvHashes

Enabled == \E r \in Roles : Hashes[r] # NoHash
OperatorGated == Hashes["operator"] # NoHash

\* Wrap, for a session of that role: may the request pass?
Admits(role, required) ==
  \/ ~Enabled
  \/ Satisfies(role, IF required = "operator" /\ ~OperatorGated THEN RoleNone ELSE required)

\* The frontend's satisfies, with what /api/auth/status told it.
UiSatisfies(enabled, operatorGated, role, required) ==
  \/ ~enabled
  \/ required = "operator" /\ (~operatorGated \/ role # RoleNone)
  \/ required = "tuner" /\ role \in {"tuner", "vendor"}
  \/ required = "vendor" /\ role = "vendor"

\* handleLogin: vendor, then tuner, then operator.
RoleOf(pw) ==
  IF pw = Hashes["vendor"] THEN "vendor"
  ELSE IF pw = Hashes["tuner"] THEN "tuner"
  ELSE IF pw = Hashes["operator"] THEN "operator"
  ELSE RoleNone

-----------------------------------------------------------------------------
(* The session table.                                                       *)

VARIABLES
  now,     \* time
  tokens,  \* token -> [role, exp]
  ledger   \* history: for every login with a right password [pw, at, ended]

sessionVars == <<now, tokens, ledger>>

Session == [role : Roles, exp : Nat]

\* Mutant: expiry is not looked at.
Expired_Never(s) == FALSE

Expired(s) == now > s.exp

\* sessionRole: what a request with this cookie may do, and the table after it.
SessionRole(cookie) ==
  IF cookie \in DOMAIN tokens /\ ~Expired(tokens[cookie])
    THEN tokens[cookie].role ELSE RoleNone

AfterLookup(cookie) ==
  IF cookie \in DOMAIN tokens /\ Expired(tokens[cookie])
    THEN [k \in DOMAIN tokens \ {cookie} |-> tokens[k]] ELSE tokens

LoggedIn(cookie) == SessionRole(cookie) # RoleNone

\* newToken: expired sessions are collected, the new one is entered.
NewToken == Len(ledger) + 1

WithNewToken(role) ==
  [k \in {k \in DOMAIN tokens : ~Expired(tokens[k])} \union {NewToken} |->
     IF k = NewToken THEN [role |-> role, exp |-> now + TTL] ELSE tokens[k]]

\* handleLogin with a right password.
Login(pw) ==
  /\ RoleOf(pw) # RoleNone
  /\ tokens' = WithNewToken(RoleOf(pw))
  /\ ledger' = Append(ledger, [pw |-> pw, at |-> now, ended |-> FALSE])
  /\ UNCHANGED now

\* Mutant: only the cookie is cleared.
WithoutToken_Kept(cookie) == tokens

WithoutToken(cookie) == [k \in DOMAIN tokens \ {cookie} |-> tokens[k]]

\* handleLogout
Logout(cookie) ==
  /\ tokens' = WithoutToken(cookie)
  /\ ledger' = [k \in DOMAIN ledger |->
                  IF k = cookie THEN [ledger[k] EXCEPT !.ended = TRUE] ELSE ledger[k]]
  /\ UNCHANGED now

\* Any request whose session is looked up.
Lookup(cookie) ==
  /\ tokens' = AfterLookup(cookie)
  /\ UNCHANGED <<now, ledger>>

\* A new process starts with an empty table.
DropSessions ==
  /\ tokens' = [k \in {} |-> 0]
  /\ ledger' = [k \in DOMAIN ledger |-> [ledger[k] EXCEPT !.ended = TRUE]]
  /\ UNCHANGED now

SessionsInit == now = 0 /\ tokens = [k \in {} |-> 0] /\ ledger = <<>>

SessionsTypeOK ==
  /\ now \in Nat
  /\ DOMAIN tokens \subseteq 1..Len(ledger)
  /\ \A k \in DOMAIN tokens : tokens[k] \in Session
  /\ ledger \in Seq([pw : Passwords, at : Nat, ended : BOOLEAN])

-----------------------------------------------------------------------------
(* Properties.                                                              *)

\* The session of a token is good: somebody gave a right password to this
\* process not longer than sessionTTL ago and nobody has logged it out.
Earned(k) ==
  /\ k \in DOMAIN ledger
  /\ ~ledger[k].ended
  /\ now <= ledger[k].at + TTL

\* What sessionRole answers is exactly what has been earned: neither the lazy
\* deletion nor the collection in newToken loses a session that is good, none
\* outlives its expiry, its logout or the process, and its role is the
\* strongest one whose password was typed.
SessionsAreEarned ==
  \A k \in DOMAIN ledger :
    /\ LoggedIn(k) <=> Earned(k)
    /\ LoggedIn(k) => \A r \in Roles : Hashes[r] = ledger[k].pw => Satisfies(SessionRole(k), r)
=============================================================================
