------------------------------ MODULE AuthSession ------------------------------
(***************************************************************************)
(* The refresh-token session of one user: AuthService and AuthRepository   *)
(* (src/src/domains/auth) over two Redis keys,                             *)
(*   refresh:{userId}   the hash of the one token that is valid now;       *)
(*   grace:{userId}     after a rotation and for a few seconds, the token  *)
(*                      that was replaced and the pair that replaced it.   *)
(* Every Redis command is atomic, and so is the Lua script of a rotation;  *)
(* a request awaits each command, so every command is a step and requests  *)
(* of all servers interleave between them.  Keys of different users never  *)
(* meet, so one user is modelled.  A token stands for its hash.            *)
(***************************************************************************)
EXTENDS Integers, FiniteSets

CONSTANTS
  Logins,      \* POST /auth/login requests with the right password
  Refreshes,   \* POST /auth/refresh requests
  Logouts,     \* POST /auth/logout requests
  TokenTTL,    \* REFRESH_TOKEN_EXPIRES_IN, in units of the clock
  GraceTTL,    \* REFRESH_GRACE_PERIOD_SECONDS
  SessionMax,  \* ABSOLUTE_SESSION_EXPIRES_IN
  MaxTime,     \* bound: the clock stops there
  NoToken

ASSUME ProcessAssumption == Refreshes \cap Logouts = {}

ASSUME ClockAssumption ==
  TokenTTL \in Nat /\ GraceTTL \in Nat /\ SessionMax \in Nat /\ MaxTime \in Nat

\* The payload of a refresh token: the login it descends from (its loginAt is
\* a time in milliseconds, so two logins never share it), that time in clock
\* units, and iat.  There is no jti: one login's tokens of one second are equal.
Tokens == [login : Logins, loginAt : Nat, at : Nat]

ASSUME NoTokenAssumption == NoToken \notin Tokens

VARIABLES
  now,
  stored,    \* refresh:{userId}: the token and the time its key expires
  grace,     \* grace:{userId}: the old token, the new one, the expiry
  loginTime, \* when each login happened, -1 before
  issued,    \* tokens that have reached a client
  minted,    \* every token generated so far
  pc, tok, fresh, reply,  \* of a request: place, cookie, new token, answer
  doomed,    \* of a logout: the tokens generated before it began
  dead,      \* the tokens some answered logout has ended
  late,      \* requests that presented a dead token
  current,   \* requests that presented the token valid at that moment
  began      \* when each request began

vars == <<now, stored, grace, loginTime, issued, minted, pc, tok, fresh, reply,
          doomed, dead, late, current, began>>
keys == <<stored, grace>>
ghosts == <<doomed, dead, late, current, began>>
clock == <<now, loginTime>>

NoKey   == [token |-> NoToken, until |-> 0]
NoGrace == [old |-> NoToken, new |-> NoToken, until |-> 0]

\* A token is accepted by verifyRefreshToken while its exp is ahead.
Verified(t) == now < t.at + TokenTTL
SessionOver(t) == now - t.loginAt > SessionMax

\* generateRefreshToken(user.id, user.type, loginAt): the first login's time
\* is carried over.
Restarted(t) ==                      \* faulty: loginAt left to its default
  [t EXCEPT !.loginAt = now, !.at = now]
Rotated(t) == [t EXCEPT !.at = now]

\* The test of the Lua script, on the key as it is when the script runs.
AnyStored(t) == stored.token # NoToken  \* faulty: does not compare
MayRotate(t) == stored.token = t

Goto(a, from, to) == pc[a] = from /\ pc' = [pc EXCEPT ![a] = to]
Answer(r, t) ==
  /\ pc' = [pc EXCEPT ![r] = "done"]
  /\ reply' = [reply EXCEPT ![r] = t]
  /\ issued' = issued \cup {t}

\* grace && grace.oldHash === requestHash
LooseHit(r) ==                       \* faulty: takes a missing key for a hit
  grace.old \in {NoToken, tok[r]}
GraceHit(r) == grace.old = tok[r]
Delete == stored' = NoKey

-----------------------------------------------------------------------------
Init ==
  /\ now = 0
  /\ stored = NoKey
  /\ grace = NoGrace
  /\ loginTime = [l \in Logins |-> -1]
  /\ issued = {}
  /\ minted = {}
  /\ pc = [a \in Refreshes \cup Logouts |-> "idle"]
  /\ tok = [r \in Refreshes |-> NoToken]
  /\ fresh = [r \in Refreshes |-> NoToken]
  /\ reply = [r \in Refreshes |-> NoToken]
  /\ doomed = [o \in Logouts |-> {}]
  /\ dead = {}
  /\ late = {}
  /\ current = {}
  /\ began = [r \in Refreshes |-> 0]

\* The clock; Redis drops the keys whose time has come.
Tick ==
  /\ now < MaxTime
  /\ now' = now + 1
  /\ stored' = IF stored.until <= now + 1 THEN NoKey ELSE stored
  /\ grace' = IF grace.until <= now + 1 THEN NoGrace ELSE grace
  /\ UNCHANGED <<loginTime, issued, minted, pc, tok, fresh, reply, ghosts>>

\* login: setToken overwrites whatever session there was.
Login(l) ==
  LET t == [login |-> l, loginAt |-> now, at |-> now] IN
  /\ loginTime[l] = -1
  /\ loginTime' = [loginTime EXCEPT ![l] = now]
  /\ stored' = [token |-> t, until |-> now + TokenTTL]
  /\ issued' = issued \cup {t}
  /\ minted' = minted \cup {t}
  /\ UNCHANGED <<now, grace, pc, tok, fresh, reply, ghosts>>

-----------------------------------------------------------------------------
(* AuthService.refresh, one action for every command it awaits.            *)

\* Step 1: the cookie's token passes verifyRefreshToken.
Present(r, t) ==
  /\ Verified(t)
  /\ tok' = [tok EXCEPT ![r] = t]
  /\ late' = IF t \in dead THEN late \cup {r} ELSE late
  /\ current' = IF stored.token = t THEN current \cup {r} ELSE current
  /\ began' = [began EXCEPT ![r] = now]
  /\ UNCHANGED <<clock, grace, minted, fresh, reply, issued, doomed, dead>>

RefreshStart(r, t) ==
  /\ Present(r, t)
  /\ ~ SessionOver(t)
  /\ Goto(r, "idle", "grace")
  /\ UNCHANGED stored

\* Step 2: the absolute limit of a session has passed.
RefreshTooOld(r, t) ==
  /\ Present(r, t)
  /\ SessionOver(t)
  /\ Goto(r, "idle", "failed")
  /\ Delete

\* Step 4: the fast path of the grace period.
RefreshGrace(r) ==
  /\ pc[r] = "grace"
  /\ IF GraceHit(r) THEN Answer(r, grace.new)
     ELSE Goto(r, "grace", "stored") /\ UNCHANGED <<reply, issued>>
  /\ UNCHANGED <<clock, keys, minted, tok, fresh, ghosts>>

\* Steps 5 and 6: the stored hash.
RefreshStored(r) ==
  /\ \/ stored.token = NoToken /\ Goto(r, "stored", "failed")
     \/ stored.token = tok[r] /\ Goto(r, "stored", "issue")
     \/ stored.token \notin {NoToken, tok[r]} /\ Goto(r, "stored", "reread")
  /\ UNCHANGED <<clock, keys, minted, tok, fresh, reply, issued, ghosts>>

RefreshReread(r) ==
  /\ pc[r] = "reread"
  /\ IF GraceHit(r) THEN Answer(r, grace.new)
     ELSE Goto(r, "reread", "drop") /\ UNCHANGED <<reply, issued>>
  /\ UNCHANGED <<clock, keys, minted, tok, fresh, ghosts>>

RefreshDrop(r) ==
  /\ Goto(r, "drop", "failed")
  /\ Delete
  /\ UNCHANGED <<clock, grace, minted, tok, fresh, reply, issued, ghosts>>

\* Step 8, the user having been found.
RefreshIssue(r) ==
  /\ Goto(r, "issue", "rotate")
  /\ fresh' = [fresh EXCEPT ![r] = Rotated(tok[r])]
  /\ minted' = minted \cup {Rotated(tok[r])}
  /\ UNCHANGED <<clock, keys, tok, reply, issued, ghosts>>

\* Step 9: the Lua script.
RefreshRotate(r) ==
  /\ pc[r] = "rotate"
  /\ IF MayRotate(tok[r])
     THEN /\ stored' = [token |-> fresh[r], until |-> now + TokenTTL]
          /\ grace' = [old |-> tok[r], new |-> fresh[r], until |-> now + GraceTTL]
          /\ Answer(r, fresh[r])
     ELSE Goto(r, "rotate", "retry") /\ UNCHANGED <<keys, reply, issued>>
  /\ UNCHANGED <<clock, minted, tok, fresh, ghosts>>

RefreshRetry(r) ==
  /\ pc[r] = "retry"
  /\ IF GraceHit(r) THEN Answer(r, grace.new)
     ELSE Goto(r, "retry", "failed") /\ UNCHANGED <<reply, issued>>
  /\ UNCHANGED <<clock, keys, minted, tok, fresh, ghosts>>

\* Redis or the database fails, or the user is gone.
RefreshFails(r) ==
  /\ pc[r] \in {"grace", "stored", "reread", "drop", "issue", "rotate", "retry"}
  /\ pc' = [pc EXCEPT ![r] = "failed"]
  /\ UNCHANGED <<clock, keys, minted, tok, fresh, reply, issued, ghosts>>

-----------------------------------------------------------------------------
(* AuthService.logout: two DEL commands, sent in this order; other         *)
(* connections' commands may run between them, and the second may fail.    *)

LogoutRefreshKey(o) ==
  /\ Goto(o, "idle", "half")
  /\ Delete
  /\ doomed' = [doomed EXCEPT ![o] = minted]
  /\ UNCHANGED <<clock, grace, minted, tok, fresh, reply, issued,
                 dead, late, current, began>>

KeptGrace == grace                   \* faulty: deletes refresh:{userId} alone
GraceAfterLogout == NoGrace

LogoutGraceKey(o) ==
  /\ Goto(o, "half", "done")
  /\ grace' = GraceAfterLogout
  /\ dead' = dead \cup doomed[o]
  /\ doomed' = [doomed EXCEPT ![o] = {}]
  /\ UNCHANGED <<clock, stored, minted, tok, fresh, reply, issued,
                 late, current, began>>

LogoutFails(o) ==
  /\ Goto(o, "half", "failed")
  /\ doomed' = [doomed EXCEPT ![o] = {}]
  /\ UNCHANGED <<clock, keys, minted, tok, fresh, reply, issued,
                 dead, late, current, began>>

-----------------------------------------------------------------------------
RefreshStep(r) ==
  \/ \E t \in issued : RefreshStart(r, t) \/ RefreshTooOld(r, t)
  \/ RefreshGrace(r) \/ RefreshStored(r) \/ RefreshReread(r) \/ RefreshDrop(r)
  \/ RefreshIssue(r) \/ RefreshRotate(r) \/ RefreshRetry(r) \/ RefreshFails(r)

Next ==
  \/ Tick
  \/ \E l \in Logins : Login(l)
  \/ \E r \in Refreshes : RefreshStep(r)
  \/ \E o \in Logouts : LogoutRefreshKey(o) \/ LogoutGraceKey(o) \/ LogoutFails(o)

Spec == Init /\ [][Next]_vars

-----------------------------------------------------------------------------
(* Properties.                                                             *)

Succeeded(r) == r \in Refreshes /\ pc[r] = "done"

Places == {"idle", "grace", "stored", "reread", "drop", "issue", "rotate",
           "retry", "half", "done", "failed"}
Entry == Tokens \cup {NoToken}

\* Keys hold tokens or nothing; a request that answers has a token to give.
TypeOK ==
  /\ now \in Nat
  /\ stored \in [token : Entry, until : Nat]
  /\ grace \in [old : Entry, new : Entry, until : Nat]
  /\ loginTime \in [Logins -> Nat \cup {-1}]
  /\ issued \subseteq minted /\ minted \subseteq Tokens
  /\ pc \in [Refreshes \cup Logouts -> Places]
  /\ tok \in [Refreshes -> Entry]
  /\ fresh \in [Refreshes -> Entry]
  /\ reply \in [Refreshes -> Entry]
  /\ doomed \in [Logouts -> SUBSET minted]
  /\ dead \subseteq minted
  /\ late \subseteq Refreshes /\ current \subseteq Refreshes
  /\ began \in [Refreshes -> Nat]
  /\ \A r \in Refreshes : Succeeded(r) => reply[r] \in Tokens

\* Requests that present the same token, at once or within the grace period,
\* all receive the same successor: a session never forks into two tokens
\* (auth.service.ts steps 4, 6 and 9).
NoFork ==
  \A q, r \in Refreshes :
    /\ Succeeded(q) /\ Succeeded(r)
    /\ tok[q] = tok[r]
    /\ reply[q] # tok[q] /\ reply[r] # tok[r]
    => reply[q] = reply[r]

\* Once a logout has been answered, no token generated before it began is
\* ever accepted again, whatever refresh was under way between its two
\* deletes (auth.service.ts:140-147).
LogoutIsFinal == \A r \in late : pc[r] # "done"

\* However often a session is refreshed, no refresh succeeds that began later
\* than SessionMax after the login it descends from: the limit is on the
\* session, not on the token (auth.service.ts:70-74 and 112).
AbsoluteLimit ==
  \A r \in Refreshes :
    Succeeded(r) => began[r] - loginTime[tok[r].login] <= SessionMax

\* A request whose token was the valid one when it arrived is a race and not
\* a reuse, and never ends the session (auth.service.ts:92-94).
RaceIsNotReuse == \A r \in current : pc[r] # "drop"
=============================================================================
