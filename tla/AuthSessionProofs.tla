--------------------------- MODULE AuthSessionProofs ---------------------------
(***************************************************************************)
(* A logout is final, a session never forks, ends when it must, and every  *)
(* answer is a token, for any number of logins, refreshes and logouts and  *)
(* any lifetimes.                                                          *)
(***************************************************************************)
EXTENDS AuthSession, TLAPS

-----------------------------------------------------------------------------
(* Types.  Keys stay keys, and a token of a client is a token that was     *)
(* generated.                                                              *)

NowType     == now \in Nat
StoredType  == stored \in [token : Entry, until : Nat]
GraceType   == grace \in [old : Entry, new : Entry, until : Nat]
TimeType    == loginTime \in [Logins -> Nat \cup {-1}]
TokenType   == issued \subseteq minted /\ minted \subseteq Tokens
PcType      == pc \in [Refreshes \cup Logouts -> Places]
RequestType ==
  tok \in [Refreshes -> Entry] /\ fresh \in [Refreshes -> Entry]
DoomedType  == doomed \in [Logouts -> SUBSET minted] /\ dead \subseteq minted

\* A token is remembered as what it is: minted, of a login that happened,
\* no later than now.
Known == minted \cup {NoToken}
KeysKnown ==
  /\ stored.token \in Known /\ grace.old \in Known /\ grace.new \in Known
  /\ grace.old # NoToken => grace.new # NoToken
RequestsKnown ==
  \A r \in Refreshes :
    /\ tok[r] \in Known
    /\ fresh[r] \in Known
    /\ pc[r] \in Places \ {"idle", "half", "done", "failed"} => tok[r] \in minted
    /\ pc[r] = "rotate" => fresh[r] \in minted
MintedAreDated ==
  \A t \in minted :
    loginTime[t.login] # -1 /\ t.loginAt = loginTime[t.login] /\ t.at <= now

Types ==
  /\ NowType /\ StoredType /\ GraceType /\ TimeType /\ TokenType /\ PcType
  /\ RequestType /\ DoomedType

Knowledge == KeysKnown /\ RequestsKnown /\ MintedAreDated

\* No key is set, no token is minted and every request is idle.
LEMMA TypesInitially == Init => Types /\ Knowledge
BY ProcessAssumption
   DEF Init, Types, NowType, StoredType, GraceType, TimeType, TokenType, PcType,
       RequestType, DoomedType, Knowledge, KeysKnown, RequestsKnown,
       MintedAreDated, Known, NoKey, NoGrace, Entry, Places

\* Every command keeps the types; one case for each action, in the order of
\* Next.
LEMMA TypesStep ==
  ASSUME Types, Knowledge, [Next]_vars
  PROVE  Types'
<1> USE DEF Types, NowType, StoredType, GraceType, TimeType, TokenType,
        PcType, RequestType, DoomedType, Knowledge, KeysKnown, RequestsKnown,
        MintedAreDated, Known, Entry, Tokens, Places
<1>1. CASE Tick
  BY <1>1, NoTokenAssumption, ProcessAssumption, ClockAssumption DEF Tick,
     NoKey, NoGrace, ghosts
<1>2. ASSUME NEW l \in Logins, Login(l) PROVE Types'
  BY <1>2, NoTokenAssumption, ProcessAssumption, ClockAssumption DEF Login,
     ghosts
<1>3. ASSUME NEW r \in Refreshes, NEW t \in issued, RefreshStart(r, t) PROVE Types'
  BY <1>3, NoTokenAssumption, ProcessAssumption, ClockAssumption DEF
     RefreshStart, Present, Goto, clock
<1>4. ASSUME NEW r \in Refreshes, NEW t \in issued, RefreshTooOld(r, t) PROVE Types'
  BY <1>4, NoTokenAssumption, ProcessAssumption, ClockAssumption DEF
     RefreshTooOld, Present, Goto, Delete, NoKey, clock
<1>5. ASSUME NEW r \in Refreshes, RefreshGrace(r) PROVE Types'
  BY <1>5, NoTokenAssumption, ProcessAssumption, ClockAssumption DEF
     RefreshGrace, GraceHit, Answer, Goto, clock, keys, ghosts
<1>6. ASSUME NEW r \in Refreshes, RefreshStored(r) PROVE Types'
  BY <1>6, NoTokenAssumption, ProcessAssumption, ClockAssumption DEF
     RefreshStored, Goto, clock, keys, ghosts
<1>7. ASSUME NEW r \in Refreshes, RefreshReread(r) PROVE Types'
  BY <1>7, NoTokenAssumption, ProcessAssumption, ClockAssumption DEF
     RefreshReread, GraceHit, Answer, Goto, clock, keys, ghosts
<1>8. ASSUME NEW r \in Refreshes, RefreshDrop(r) PROVE Types'
  BY <1>8, NoTokenAssumption, ProcessAssumption, ClockAssumption DEF
     RefreshDrop, Goto, Delete, NoKey, clock, ghosts
<1>9. ASSUME NEW r \in Refreshes, RefreshIssue(r) PROVE Types'
  BY <1>9, NoTokenAssumption, ProcessAssumption, ClockAssumption DEF
     RefreshIssue, Rotated, Goto, clock, keys, ghosts
<1>10. ASSUME NEW r \in Refreshes, RefreshRotate(r) PROVE Types'
  BY <1>10, NoTokenAssumption, ProcessAssumption, ClockAssumption DEF
     RefreshRotate, MayRotate, Answer, Goto, clock, keys, ghosts
<1>11. ASSUME NEW r \in Refreshes, RefreshRetry(r) PROVE Types'
  BY <1>11, NoTokenAssumption, ProcessAssumption, ClockAssumption DEF
     RefreshRetry, GraceHit, Answer, Goto, clock, keys, ghosts
<1>12. ASSUME NEW r \in Refreshes, RefreshFails(r) PROVE Types'
  BY <1>12, NoTokenAssumption, ProcessAssumption, ClockAssumption DEF
     RefreshFails, clock, keys, ghosts
<1>13. ASSUME NEW o \in Logouts, LogoutRefreshKey(o) PROVE Types'
  BY <1>13, NoTokenAssumption, ProcessAssumption, ClockAssumption DEF
     LogoutRefreshKey, Goto, Delete, NoKey, clock
<1>14. ASSUME NEW o \in Logouts, LogoutGraceKey(o) PROVE Types'
  BY <1>14, NoTokenAssumption, ProcessAssumption, ClockAssumption DEF
     LogoutGraceKey, GraceAfterLogout, NoGrace, Goto, clock
<1>15. ASSUME NEW o \in Logouts, LogoutFails(o) PROVE Types'
  BY <1>15, NoTokenAssumption, ProcessAssumption, ClockAssumption DEF
     LogoutFails, Goto, clock, keys
<1>16. CASE UNCHANGED vars
  BY <1>16 DEF vars, clock, keys, ghosts
<1>17. QED
  BY <1>1, <1>2, <1>3, <1>4, <1>5, <1>6, <1>7, <1>8, <1>9, <1>10, <1>11,
     <1>12, <1>13, <1>14, <1>15, <1>16, Zenon
     DEF Next, RefreshStep

\* Every command keeps what is known of tokens: keys, cookies and replies hold
\* tokens that were minted, and a token is dated by its login.
LEMMA KnowledgeStep ==
  ASSUME Types, Knowledge, Types', [Next]_vars
  PROVE  Knowledge'
<1> USE DEF Types, NowType, StoredType, GraceType, TimeType, TokenType,
        PcType, RequestType, DoomedType, Knowledge, KeysKnown, RequestsKnown,
        MintedAreDated, Known, Entry, Tokens, Places
<1>1. CASE Tick
  BY <1>1, NoTokenAssumption, ProcessAssumption, ClockAssumption DEF Tick,
     NoKey, NoGrace, ghosts
<1>2. ASSUME NEW l \in Logins, Login(l) PROVE Knowledge'
  BY <1>2, NoTokenAssumption, ProcessAssumption, ClockAssumption DEF Login,
     ghosts
<1>3. ASSUME NEW r \in Refreshes, NEW t \in issued, RefreshStart(r, t) PROVE Knowledge'
  BY <1>3, NoTokenAssumption, ProcessAssumption, ClockAssumption DEF
     RefreshStart, Present, Goto, clock
<1>4. ASSUME NEW r \in Refreshes, NEW t \in issued, RefreshTooOld(r, t) PROVE Knowledge'
  BY <1>4, NoTokenAssumption, ProcessAssumption, ClockAssumption DEF
     RefreshTooOld, Present, Goto, Delete, NoKey, clock
<1>5. ASSUME NEW r \in Refreshes, RefreshGrace(r) PROVE Knowledge'
  BY <1>5, NoTokenAssumption, ProcessAssumption, ClockAssumption DEF
     RefreshGrace, GraceHit, Answer, Goto, clock, keys, ghosts
<1>6. ASSUME NEW r \in Refreshes, RefreshStored(r) PROVE Knowledge'
  BY <1>6, NoTokenAssumption, ProcessAssumption, ClockAssumption DEF
     RefreshStored, Goto, clock, keys, ghosts
<1>7. ASSUME NEW r \in Refreshes, RefreshReread(r) PROVE Knowledge'
  BY <1>7, NoTokenAssumption, ProcessAssumption, ClockAssumption DEF
     RefreshReread, GraceHit, Answer, Goto, clock, keys, ghosts
<1>8. ASSUME NEW r \in Refreshes, RefreshDrop(r) PROVE Knowledge'
  BY <1>8, NoTokenAssumption, ProcessAssumption, ClockAssumption DEF
     RefreshDrop, Goto, Delete, NoKey, clock, ghosts
<1>9. ASSUME NEW r \in Refreshes, RefreshIssue(r) PROVE Knowledge'
  BY <1>9, NoTokenAssumption, ProcessAssumption, ClockAssumption DEF
     RefreshIssue, Rotated, Goto, clock, keys, ghosts
<1>10. ASSUME NEW r \in Refreshes, RefreshRotate(r) PROVE Knowledge'
  BY <1>10, NoTokenAssumption, ProcessAssumption, ClockAssumption DEF
     RefreshRotate, MayRotate, Answer, Goto, clock, keys, ghosts
<1>11. ASSUME NEW r \in Refreshes, RefreshRetry(r) PROVE Knowledge'
  BY <1>11, NoTokenAssumption, ProcessAssumption, ClockAssumption DEF
     RefreshRetry, GraceHit, Answer, Goto, clock, keys, ghosts
<1>12. ASSUME NEW r \in Refreshes, RefreshFails(r) PROVE Knowledge'
  BY <1>12, NoTokenAssumption, ProcessAssumption, ClockAssumption DEF
     RefreshFails, clock, keys, ghosts
<1>13. ASSUME NEW o \in Logouts, LogoutRefreshKey(o) PROVE Knowledge'
  BY <1>13, NoTokenAssumption, ProcessAssumption, ClockAssumption DEF
     LogoutRefreshKey, Goto, Delete, NoKey, clock
<1>14. ASSUME NEW o \in Logouts, LogoutGraceKey(o) PROVE Knowledge'
  BY <1>14, NoTokenAssumption, ProcessAssumption, ClockAssumption DEF
     LogoutGraceKey, GraceAfterLogout, NoGrace, Goto, clock
<1>15. ASSUME NEW o \in Logouts, LogoutFails(o) PROVE Knowledge'
  BY <1>15, NoTokenAssumption, ProcessAssumption, ClockAssumption DEF
     LogoutFails, Goto, clock, keys
<1>16. CASE UNCHANGED vars
  BY <1>16 DEF vars, clock, keys, ghosts
<1>17. QED
  BY <1>1, <1>2, <1>3, <1>4, <1>5, <1>6, <1>7, <1>8, <1>9, <1>10, <1>11,
     <1>12, <1>13, <1>14, <1>15, <1>16, Zenon
     DEF Next, RefreshStep

\* Types and knowledge hold throughout: the base of both results.
LEMMA Typed == Spec => [](Types /\ Knowledge)
<1>1. Init => Types /\ Knowledge
  BY TypesInitially
<1>2. Types /\ Knowledge /\ [Next]_vars => (Types /\ Knowledge)'
  BY TypesStep, KnowledgeStep
<1>3. QED
  BY <1>1, <1>2, PTL DEF Spec

-----------------------------------------------------------------------------
(* A logout is final.                                                      *)

\* Which token is valid is not enough to know: a rotation could bring forth
\* a token that some logout has ended.  What is invariant is that no key
\* holds a token of a login one of whose tokens is dead.  Between the two
\* deletes of a logout the same holds of the refresh key and the tokens it
\* is about to end; the grace key follows at the second delete.
Untouched(key, S) == key # NoToken => \A t \in S : t.login # key.login

DeadStayDead ==
  /\ Untouched(stored.token, dead)
  /\ Untouched(grace.old, dead)
HalfDead == \A o \in Logouts : pc[o] = "half" => Untouched(stored.token, doomed[o])
LateAreDead ==
  \A r \in late : r \in Refreshes /\ pc[r] # "idle" /\ tok[r] \in dead
FreshIsOfLogin ==
  \A r \in Refreshes : pc[r] = "rotate" => fresh[r].login = tok[r].login

LogoutInv ==
  DeadStayDead /\ HalfDead /\ LateAreDead /\ FreshIsOfLogin /\ LogoutIsFinal

\* Every command keeps what the results of the logouts rest on.  The cases
\* that matter are the two deletes and the rotation.
LEMMA LogoutStep ==
  ASSUME Types, Knowledge, LogoutInv, Types', Knowledge', [Next]_vars
  PROVE  LogoutInv'
<1> USE DEF Types, NowType, StoredType, GraceType, TimeType, TokenType,
        PcType, RequestType, DoomedType, Knowledge, KeysKnown, RequestsKnown,
        MintedAreDated, Known, Entry, Tokens, Places, LogoutInv, Untouched,
        DeadStayDead, HalfDead, LateAreDead, FreshIsOfLogin, LogoutIsFinal
<1>1. CASE Tick
  BY <1>1, NoTokenAssumption, ProcessAssumption DEF Tick, NoKey, NoGrace,
     ghosts
<1>2. ASSUME NEW l \in Logins, Login(l) PROVE LogoutInv'
  BY <1>2, NoTokenAssumption, ProcessAssumption DEF Login, ghosts
<1>3. ASSUME NEW r \in Refreshes, NEW t \in issued, RefreshStart(r, t) PROVE LogoutInv'
  BY <1>3, NoTokenAssumption, ProcessAssumption DEF RefreshStart, Present,
     Goto, clock
<1>4. ASSUME NEW r \in Refreshes, NEW t \in issued, RefreshTooOld(r, t) PROVE LogoutInv'
  BY <1>4, NoTokenAssumption, ProcessAssumption DEF RefreshTooOld, Present,
     Goto, Delete, NoKey, clock
<1>5. ASSUME NEW r \in Refreshes, RefreshGrace(r) PROVE LogoutInv'
  BY <1>5, NoTokenAssumption, ProcessAssumption DEF RefreshGrace, GraceHit,
     Answer, Goto, clock, keys, ghosts
<1>6. ASSUME NEW r \in Refreshes, RefreshStored(r) PROVE LogoutInv'
  BY <1>6, NoTokenAssumption, ProcessAssumption DEF RefreshStored, Goto,
     clock, keys, ghosts
<1>7. ASSUME NEW r \in Refreshes, RefreshReread(r) PROVE LogoutInv'
  BY <1>7, NoTokenAssumption, ProcessAssumption DEF RefreshReread, GraceHit,
     Answer, Goto, clock, keys, ghosts
<1>8. ASSUME NEW r \in Refreshes, RefreshDrop(r) PROVE LogoutInv'
  BY <1>8, NoTokenAssumption, ProcessAssumption DEF RefreshDrop, Goto, Delete,
     NoKey, clock, ghosts
<1>9. ASSUME NEW r \in Refreshes, RefreshIssue(r) PROVE LogoutInv'
  BY <1>9, NoTokenAssumption, ProcessAssumption DEF RefreshIssue, Rotated,
     Goto, clock, keys, ghosts
<1>10. ASSUME NEW r \in Refreshes, RefreshRotate(r) PROVE LogoutInv'
  BY <1>10, NoTokenAssumption, ProcessAssumption DEF RefreshRotate, MayRotate,
     Answer, Goto, clock, keys, ghosts
<1>11. ASSUME NEW r \in Refreshes, RefreshRetry(r) PROVE LogoutInv'
  BY <1>11, NoTokenAssumption, ProcessAssumption DEF RefreshRetry, GraceHit,
     Answer, Goto, clock, keys, ghosts
<1>12. ASSUME NEW r \in Refreshes, RefreshFails(r) PROVE LogoutInv'
  BY <1>12, NoTokenAssumption, ProcessAssumption DEF RefreshFails, clock,
     keys, ghosts
<1>13. ASSUME NEW o \in Logouts, LogoutRefreshKey(o) PROVE LogoutInv'
  BY <1>13, NoTokenAssumption, ProcessAssumption DEF LogoutRefreshKey, Goto,
     Delete, NoKey, clock
<1>14. ASSUME NEW o \in Logouts, LogoutGraceKey(o) PROVE LogoutInv'
  BY <1>14, NoTokenAssumption, ProcessAssumption DEF LogoutGraceKey,
     GraceAfterLogout, NoGrace, Goto, clock
<1>15. ASSUME NEW o \in Logouts, LogoutFails(o) PROVE LogoutInv'
  BY <1>15, NoTokenAssumption, ProcessAssumption DEF LogoutFails, Goto, clock,
     keys
<1>16. CASE UNCHANGED vars
  BY <1>16 DEF vars, clock, keys, ghosts
<1>17. QED
  BY <1>1, <1>2, <1>3, <1>4, <1>5, <1>6, <1>7, <1>8, <1>9, <1>10, <1>11,
     <1>12, <1>13, <1>14, <1>15, <1>16, Zenon
     DEF Next, RefreshStep

\* Once a logout has been answered no refresh with a token generated before
\* it began succeeds (AuthService.logout and every path of refresh).
THEOREM LogoutFinal == Spec => []LogoutIsFinal
<1>1. Init => LogoutInv
  BY DEF Init, LogoutInv, Untouched, DeadStayDead, HalfDead, LateAreDead,
         FreshIsOfLogin, LogoutIsFinal, NoKey, NoGrace
<1>2. /\ Types /\ Knowledge /\ (Types /\ Knowledge)'
      /\ LogoutInv /\ [Next]_vars
      => LogoutInv'
  BY LogoutStep
<1>3. LogoutInv => LogoutIsFinal
  BY DEF LogoutInv
<1>4. QED
  BY Typed, <1>1, <1>2, <1>3, PTL DEF Spec

-----------------------------------------------------------------------------
(* A session never forks.                                                  *)

\* Tokens of one login are ordered by iat, and the two keys move forward
\* only: the valid token is never older than the successor in the grace key.
Older(t, u) == t.login = u.login => t.at < u.at
GraceIsStep ==
  grace.old # NoToken =>
    /\ grace.new.login = grace.old.login
    /\ grace.new.loginAt = grace.old.loginAt
    /\ grace.old.at <= grace.new.at
    /\ stored.token # NoToken /\ stored.token.login = grace.old.login
       => grace.new.at <= stored.token.at

\* What a request holds before the rotation is a step forward too.
FreshIsStep ==
  \A r \in Refreshes : pc[r] = "rotate" =>
    /\ fresh[r].login = tok[r].login
    /\ fresh[r].loginAt = tok[r].loginAt
    /\ tok[r].at <= fresh[r].at

\* A token that has been replaced is behind the valid one for good, and the
\* grace key, if it speaks of it at all, names the successor it was given.
Moved(r) == Succeeded(r) /\ reply[r] # tok[r]
MovedOn ==
  \A r \in Refreshes : Moved(r) =>
    /\ tok[r] \in minted
    /\ stored.token # NoToken => Older(tok[r], stored.token)
    /\ grace.old = tok[r] => grace.new = reply[r]

RepliesTyped == reply \in [Refreshes -> Entry]

ForkInv == RepliesTyped /\ GraceIsStep /\ FreshIsStep /\ MovedOn /\ NoFork

\* There is no jti: a token is its login, its login's time and its iat.
LEMMA TokenEquality ==
  ASSUME NEW t \in Tokens, NEW u \in Tokens,
         t.login = u.login, t.loginAt = u.loginAt, t.at = u.at
  PROVE  t = u
BY DEF Tokens

\* The three places where a request is answered from the grace key.
LEMMA GraceAnswerStep ==
  ASSUME Types, Knowledge, ForkInv, Types', Knowledge', NEW r \in Refreshes,
         GraceHit(r), Answer(r, grace.new), tok[r] \in minted,
         pc[r] \in {"grace", "reread", "retry"},
         UNCHANGED <<keys, tok, fresh, minted>>
  PROVE  ForkInv'
<1> USE DEF Types, RequestType, GraceType, StoredType, TokenType, PcType, GraceHit,
        Answer, keys, Entry
<1>1. /\ grace.old \in Tokens /\ grace.new \in Tokens
      /\ grace.old = tok[r]
      /\ reply' = [reply EXCEPT ![r] = grace.new]
      /\ pc' = [pc EXCEPT ![r] = "done"]
  BY NoTokenAssumption DEF Knowledge, KeysKnown, Known
<1>2. RepliesTyped' /\ GraceIsStep' /\ FreshIsStep'
  BY <1>1 DEF ForkInv, RepliesTyped, GraceIsStep, FreshIsStep
<1>3. \A q \in Refreshes \ {r} : Moved(q)' = Moved(q) /\ reply'[q] = reply[q]
  BY <1>1 DEF Moved, Succeeded, ForkInv, RepliesTyped
<1>4. ASSUME grace.new # tok[r], stored.token # NoToken
      PROVE  Older(tok[r], stored.token)
  <2>1. tok[r].at # grace.new.at
    BY <1>1, <1>4, TokenEquality, NoTokenAssumption DEF ForkInv, GraceIsStep
  <2>2. stored.token \in Tokens
    BY <1>4 DEF Knowledge, KeysKnown, Known
  <2>3. /\ grace.old.login = tok[r].login
        /\ grace.old.at <= grace.new.at
        /\ stored.token.login = tok[r].login => grace.new.at <= stored.token.at
    BY <1>1, <1>4, NoTokenAssumption DEF ForkInv, GraceIsStep
  <2>4. tok[r].at \in Nat /\ grace.new.at \in Nat /\ stored.token.at \in Nat
    BY <1>1, <2>2 DEF Tokens
  <2>5. tok[r].at <= grace.new.at
    BY <1>1, <2>3
  <2>6. tok[r].at < grace.new.at
    BY <2>1, <2>4, <2>5
  <2>7. QED
    BY <2>3, <2>4, <2>6 DEF Older
<1>5. MovedOn'
  BY <1>1, <1>3, <1>4 DEF ForkInv, MovedOn, Moved, Succeeded, RepliesTyped, Older
<1>6. NoFork'
  <2>1. ASSUME NEW q \in Refreshes, q # r, Moved(q), tok[q] = tok[r]
        PROVE  reply[q] = grace.new
    BY <1>1, <2>1 DEF ForkInv, MovedOn
  <2>2. QED
    BY <1>1, <1>3, <2>1 DEF NoFork, ForkInv, Moved, Succeeded, RepliesTyped
<1>7. QED
  BY <1>2, <1>5, <1>6 DEF ForkInv

\* The Lua script: the one step that replaces the valid token.
LEMMA RotateStep ==
  ASSUME Types, Knowledge, ForkInv, Types', Knowledge', NEW r \in Refreshes,
         RefreshRotate(r), MayRotate(tok[r])
  PROVE  ForkInv'
<1> USE DEF Types, RequestType, GraceType, StoredType, TokenType, PcType, Entry
<1> DEFINE P == tok[r]
           F == fresh[r]
<1>1. /\ P \in Tokens /\ F \in Tokens /\ P \in minted
      /\ stored.token = P
      /\ pc[r] = "rotate"
      /\ pc' = [pc EXCEPT ![r] = "done"]
      /\ reply' = [reply EXCEPT ![r] = F]
      /\ stored'.token = F
      /\ grace'.old = P /\ grace'.new = F
      /\ UNCHANGED <<tok, fresh, minted>>
  BY DEF RefreshRotate, MayRotate, Answer, Knowledge, RequestsKnown, Places
<1>2. F.login = P.login /\ F.loginAt = P.loginAt /\ P.at <= F.at
  BY <1>1 DEF ForkInv, FreshIsStep
<1>3. RepliesTyped' /\ GraceIsStep' /\ FreshIsStep'
  BY <1>1, <1>2, NoTokenAssumption
  DEF ForkInv, RepliesTyped, GraceIsStep, FreshIsStep, Tokens
<1>4. \A q \in Refreshes \ {r} : Moved(q)' = Moved(q) /\ reply'[q] = reply[q]
  BY <1>1 DEF Moved, Succeeded, ForkInv, RepliesTyped
<1>5. ASSUME NEW q \in Refreshes, Moved(q)
      PROVE  tok[q] # P /\ tok[q] \in minted /\ Older(tok[q], F)
  <2>1. tok[q] \in minted /\ Older(tok[q], P)
    BY <1>1, <1>5, NoTokenAssumption DEF ForkInv, MovedOn
  <2>2. QED
    BY <1>1, <1>2, <2>1 DEF Older, Tokens
<1>6. F # P => Older(P, F)
  <2>1. P.at \in Nat /\ F.at \in Nat
    BY <1>1 DEF Tokens
  <2>2. F # P => F.at # P.at
    <3> HIDE DEF P, F
    <3> QED BY <1>1, <1>2, TokenEquality
  <2>3. F # P => P.at < F.at
    <3> HIDE DEF P, F
    <3> QED BY <1>2, <2>1, <2>2
  <2>4. QED
    BY <2>3 DEF Older
<1>7. MovedOn'
  BY <1>1, <1>4, <1>5, <1>6 DEF ForkInv, MovedOn, Moved, Succeeded, RepliesTyped
<1>8. NoFork'
  BY <1>1, <1>4, <1>5 DEF NoFork, ForkInv, Moved, Succeeded, RepliesTyped
<1>9. QED
  BY <1>3, <1>7, <1>8 DEF ForkInv

\* Every other command leaves both keys alone or empties them.
LEMMA ForkStep ==
  ASSUME Types, Knowledge, ForkInv, Types', Knowledge', [Next]_vars
  PROVE  ForkInv'
<1> USE DEF Types, NowType, StoredType, GraceType, TimeType, TokenType,
        PcType, RequestType, DoomedType, Knowledge, KeysKnown, RequestsKnown,
        MintedAreDated, Known, Entry, Tokens, Places, ForkInv, Older,
        GraceIsStep, FreshIsStep, Moved, MovedOn, RepliesTyped, NoFork,
        Succeeded
<1>1. CASE Tick
  BY <1>1, NoTokenAssumption, ProcessAssumption DEF Tick, NoKey, NoGrace,
     ghosts
<1>2. ASSUME NEW l \in Logins, Login(l) PROVE ForkInv'
  BY <1>2, NoTokenAssumption, ProcessAssumption DEF Login, ghosts
<1>3. ASSUME NEW r \in Refreshes, NEW t \in issued, RefreshStart(r, t) PROVE ForkInv'
  BY <1>3, NoTokenAssumption, ProcessAssumption DEF RefreshStart, Present,
     Goto, clock
<1>4. ASSUME NEW r \in Refreshes, NEW t \in issued, RefreshTooOld(r, t) PROVE ForkInv'
  BY <1>4, NoTokenAssumption, ProcessAssumption DEF RefreshTooOld, Present,
     Goto, Delete, NoKey, clock
<1>5. ASSUME NEW r \in Refreshes, RefreshGrace(r) PROVE ForkInv'
  <2>1. CASE GraceHit(r)
    BY <1>5, <2>1, GraceAnswerStep DEF RefreshGrace, keys
  <2>2. CASE ~ GraceHit(r)
    BY <1>5, <2>2 DEF RefreshGrace, Goto, keys
  <2>3. QED
    BY <2>1, <2>2
<1>6. ASSUME NEW r \in Refreshes, RefreshStored(r) PROVE ForkInv'
  BY <1>6, NoTokenAssumption, ProcessAssumption DEF RefreshStored, Goto,
     clock, keys, ghosts
<1>7. ASSUME NEW r \in Refreshes, RefreshReread(r) PROVE ForkInv'
  <2>1. CASE GraceHit(r)
    BY <1>7, <2>1, GraceAnswerStep DEF RefreshReread, keys
  <2>2. CASE ~ GraceHit(r)
    BY <1>7, <2>2 DEF RefreshReread, Goto, keys
  <2>3. QED
    BY <2>1, <2>2
<1>8. ASSUME NEW r \in Refreshes, RefreshDrop(r) PROVE ForkInv'
  BY <1>8, NoTokenAssumption, ProcessAssumption DEF RefreshDrop, Goto, Delete,
     NoKey, clock, ghosts
<1>9. ASSUME NEW r \in Refreshes, RefreshIssue(r) PROVE ForkInv'
  BY <1>9, NoTokenAssumption, ProcessAssumption DEF RefreshIssue, Rotated,
     Goto, clock, keys, ghosts
<1>10. ASSUME NEW r \in Refreshes, RefreshRotate(r) PROVE ForkInv'
  <2>1. CASE MayRotate(tok[r])
    BY <1>10, <2>1, RotateStep
  <2>2. CASE ~ MayRotate(tok[r])
    BY <1>10, <2>2 DEF RefreshRotate, Goto, keys
  <2>3. QED
    BY <2>1, <2>2
<1>11. ASSUME NEW r \in Refreshes, RefreshRetry(r) PROVE ForkInv'
  <2>1. CASE GraceHit(r)
    BY <1>11, <2>1, GraceAnswerStep DEF RefreshRetry, keys
  <2>2. CASE ~ GraceHit(r)
    BY <1>11, <2>2 DEF RefreshRetry, Goto, keys
  <2>3. QED
    BY <2>1, <2>2
<1>12. ASSUME NEW r \in Refreshes, RefreshFails(r) PROVE ForkInv'
  BY <1>12, NoTokenAssumption, ProcessAssumption DEF RefreshFails, clock,
     keys, ghosts
<1>13. ASSUME NEW o \in Logouts, LogoutRefreshKey(o) PROVE ForkInv'
  BY <1>13, NoTokenAssumption, ProcessAssumption DEF LogoutRefreshKey, Goto,
     Delete, NoKey, clock
<1>14. ASSUME NEW o \in Logouts, LogoutGraceKey(o) PROVE ForkInv'
  BY <1>14, NoTokenAssumption, ProcessAssumption DEF LogoutGraceKey,
     GraceAfterLogout, NoGrace, Goto, clock
<1>15. ASSUME NEW o \in Logouts, LogoutFails(o) PROVE ForkInv'
  BY <1>15, NoTokenAssumption, ProcessAssumption DEF LogoutFails, Goto, clock,
     keys
<1>16. CASE UNCHANGED vars
  BY <1>16 DEF vars, clock, keys, ghosts
<1>17. QED
  BY <1>1, <1>2, <1>3, <1>4, <1>5, <1>6, <1>7, <1>8, <1>9, <1>10, <1>11,
     <1>12, <1>13, <1>14, <1>15, <1>16, Zenon
     DEF Next, RefreshStep

\* Requests with the same token that receive a new one receive the same one.
THEOREM SessionNeverForks == Spec => []NoFork
<1>1. Init => ForkInv
  BY ProcessAssumption
     DEF Init, ForkInv, GraceIsStep, FreshIsStep, Moved, MovedOn, RepliesTyped,
         NoFork, Succeeded, NoKey, NoGrace, Entry
<1>2. /\ Types /\ Knowledge /\ (Types /\ Knowledge)'
      /\ ForkInv /\ [Next]_vars
      => ForkInv'
  BY ForkStep
<1>3. ForkInv => NoFork
  BY DEF ForkInv
<1>4. QED
  BY Typed, <1>1, <1>2, <1>3, PTL DEF Spec

-----------------------------------------------------------------------------
(* The limit is on the session.                                            *)

\* A request that is under way, or was answered, began within the limit of the
\* login its token descends from.
LimitInv ==
  /\ began \in [Refreshes -> Nat]
  /\ \A r \in Refreshes :
       pc[r] \notin {"idle", "failed"} =>
         /\ tok[r] \in minted
         /\ began[r] - loginTime[tok[r].login] <= SessionMax

LEMMA LimitStep ==
  ASSUME Types, Knowledge, LimitInv, [Next]_vars
  PROVE  LimitInv'
<1> USE DEF Types, NowType, TimeType, TokenType, PcType, RequestType, Knowledge,
        MintedAreDated, LimitInv
<1>1. ASSUME NEW l \in Logins, Login(l) PROVE LimitInv'
  <2>1. /\ loginTime[l] = -1 /\ loginTime' = [loginTime EXCEPT ![l] = now]
        /\ UNCHANGED <<began, tok, pc>> /\ minted \subseteq minted'
    BY <1>1 DEF Login, ghosts
  <2>2. \A t \in minted : t.login \in Logins /\ loginTime'[t.login] = loginTime[t.login]
    BY <2>1 DEF Tokens
  <2>3. QED
    BY <2>1, <2>2
<1>2. ASSUME NEW r \in Refreshes, NEW t \in issued, RefreshStart(r, t) PROVE LimitInv'
  <2>1. /\ UNCHANGED <<loginTime, minted, now>>
        /\ tok' = [tok EXCEPT ![r] = t] /\ began' = [began EXCEPT ![r] = now]
        /\ pc' = [pc EXCEPT ![r] = "grace"]
        /\ ~ now - t.loginAt > SessionMax
    BY <1>2 DEF RefreshStart, Present, SessionOver, Goto, clock
  <2>2. t \in minted /\ t.loginAt = loginTime[t.login] /\ t.loginAt \in Nat
    BY DEF Tokens
  <2>3. now - loginTime[t.login] <= SessionMax
    BY <2>1, <2>2, ClockAssumption
  <2>4. QED
    BY <2>1, <2>2, <2>3
<1>3. ASSUME NEW r \in Refreshes, NEW t \in issued, RefreshTooOld(r, t) PROVE LimitInv'
  <2>1. /\ UNCHANGED <<loginTime, minted, now>>
        /\ tok' = [tok EXCEPT ![r] = t] /\ began' = [began EXCEPT ![r] = now]
        /\ pc' = [pc EXCEPT ![r] = "failed"]
    BY <1>3 DEF RefreshTooOld, Present, Goto, clock
  <2>2. QED
    BY <2>1
<1>4. ASSUME UNCHANGED <<loginTime, tok, began>>, minted \subseteq minted',
             NEW a, NEW p,
             \/ UNCHANGED pc
             \/ a \in Refreshes /\ pc[a] \notin {"idle", "failed"}
             \/ a \in Logouts,
             UNCHANGED pc \/ pc' = [pc EXCEPT ![a] = p]
      PROVE  LimitInv'
  BY <1>4, ProcessAssumption
<1>5. CASE Tick
  BY <1>4, <1>5 DEF Tick, ghosts
<1>6. ASSUME NEW r \in Refreshes,
             \/ RefreshGrace(r) \/ RefreshStored(r) \/ RefreshReread(r) \/ RefreshDrop(r)
             \/ RefreshIssue(r) \/ RefreshRotate(r) \/ RefreshRetry(r) \/ RefreshFails(r)
      PROVE  LimitInv'
  <2>1. UNCHANGED <<loginTime, tok, began>> /\ minted \subseteq minted'
    BY <1>6 DEF RefreshGrace, RefreshStored, RefreshReread, RefreshDrop,
       RefreshIssue, RefreshRotate, RefreshRetry, RefreshFails, clock, ghosts
  <2>2. /\ pc[r] \notin {"idle", "failed"}
        /\ \E p : pc' = [pc EXCEPT ![r] = p]
    BY <1>6 DEF RefreshGrace, RefreshStored, RefreshReread, RefreshDrop,
       RefreshIssue, RefreshRotate, RefreshRetry, RefreshFails, Goto, Answer
  <2>3. QED
    BY <1>4, <2>1, <2>2
<1>7. ASSUME NEW o \in Logouts,
             LogoutRefreshKey(o) \/ LogoutGraceKey(o) \/ LogoutFails(o)
      PROVE  LimitInv'
  <2>1. UNCHANGED <<loginTime, tok, began, minted>>
        /\ \E p : pc' = [pc EXCEPT ![o] = p]
    BY <1>7 DEF LogoutRefreshKey, LogoutGraceKey, LogoutFails, Goto, clock
  <2>2. QED
    BY <1>4, <2>1
<1>8. CASE UNCHANGED vars
  BY <1>4, <1>8 DEF vars
<1>9. QED
  BY <1>1, <1>2, <1>3, <1>5, <1>6, <1>7, <1>8 DEF Next, RefreshStep

\* However often a session is refreshed, no refresh succeeds that began later
\* than the limit after the login.
THEOREM SessionsEnd == Spec => []AbsoluteLimit
<1>1. Init => LimitInv
  BY DEF Init, LimitInv
<1>2. /\ Types /\ Knowledge /\ (Types /\ Knowledge)'
      /\ LimitInv /\ [Next]_vars
      => LimitInv'
  BY LimitStep
<1>3. LimitInv => AbsoluteLimit
  BY DEF LimitInv, AbsoluteLimit, Succeeded
<1>4. QED
  BY Typed, <1>1, <1>2, <1>3, PTL DEF Spec

-----------------------------------------------------------------------------
(* Every answer is a token.                                                *)

\* A request that is answered from the grace key has a token of its own, so the
\* key it hits is not the empty one.
AnswerInv ==
  /\ RepliesTyped
  /\ late \subseteq Refreshes /\ current \subseteq Refreshes
  /\ \A r \in Refreshes : pc[r] = "done" => reply[r] \in Tokens

LEMMA GraceIsToken ==
  ASSUME Types, Knowledge, NEW r \in Refreshes, GraceHit(r),
         pc[r] \in {"grace", "reread", "retry"}
  PROVE  grace.new \in Tokens
<1>1. tok[r] \in minted /\ tok[r] # NoToken
  BY NoTokenAssumption DEF Types, TokenType, Knowledge, RequestsKnown, Places
<1>2. grace.new \in minted
  BY <1>1 DEF GraceHit, Knowledge, KeysKnown, Known
<1>3. QED
  BY <1>2 DEF Types, TokenType

LEMMA AnswerStep ==
  ASSUME Types, Knowledge, AnswerInv, [Next]_vars
  PROVE  AnswerInv'
<1> USE DEF AnswerInv, RepliesTyped
<1>0. /\ DOMAIN pc = Refreshes \cup Logouts
      /\ \A o \in Logouts : o \notin Refreshes
  BY ProcessAssumption DEF Types, PcType
\* An answer, a step without one, and the arrival of a request.
<1>1. ASSUME NEW r \in Refreshes, NEW t \in Tokens, Answer(r, t), UNCHANGED ghosts
      PROVE  AnswerInv'
  BY <1>0, <1>1 DEF Answer, ghosts, Entry
<1>2. ASSUME NEW a \in Refreshes \cup Logouts, NEW p, p # "done" \/ a \in Logouts,
             pc' = [pc EXCEPT ![a] = p], UNCHANGED <<reply, late, current>>
      PROVE  AnswerInv'
  BY <1>0, <1>2
<1>3. ASSUME UNCHANGED <<pc, reply, late, current>>
      PROVE  AnswerInv'
  BY <1>3
<1>4. CASE Tick \/ \E l \in Logins : Login(l)
  BY <1>3, <1>4 DEF Tick, Login, ghosts
<1>5. ASSUME NEW r \in Refreshes, NEW t, RefreshStart(r, t) \/ RefreshTooOld(r, t)
      PROVE  AnswerInv'
  <2>1. /\ UNCHANGED reply
        /\ late' \in {late, late \cup {r}} /\ current' \in {current, current \cup {r}}
        /\ \E p \in {"grace", "failed"} : pc' = [pc EXCEPT ![r] = p]
    BY <1>5 DEF RefreshStart, RefreshTooOld, Present, Goto
  <2>2. QED
    BY <1>0, <2>1
<1>6. ASSUME NEW r \in Refreshes, RefreshGrace(r) \/ RefreshReread(r) \/ RefreshRetry(r)
      PROVE  AnswerInv'
  <2>1. CASE GraceHit(r)
    <3>1. pc[r] \in {"grace", "reread", "retry"}
      BY <1>6 DEF RefreshGrace, RefreshReread, RefreshRetry
    <3>2. grace.new \in Tokens
      BY <2>1, <3>1, GraceIsToken
    <3>3. QED
      BY <1>1, <1>6, <2>1, <3>2 DEF RefreshGrace, RefreshReread, RefreshRetry
  <2>2. CASE ~ GraceHit(r)
    BY <1>2, <1>6, <2>2 DEF RefreshGrace, RefreshReread, RefreshRetry, Goto, ghosts
  <2>3. QED
    BY <2>1, <2>2
<1>7. ASSUME NEW r \in Refreshes,
             RefreshStored(r) \/ RefreshDrop(r) \/ RefreshIssue(r) \/ RefreshFails(r)
      PROVE  AnswerInv'
  BY <1>2, <1>7 DEF RefreshStored, RefreshDrop, RefreshIssue, RefreshFails, Goto, ghosts
<1>8. ASSUME NEW r \in Refreshes, RefreshRotate(r)
      PROVE  AnswerInv'
  <2>1. CASE MayRotate(tok[r])
    <3>1. fresh[r] \in Tokens
      BY <1>8 DEF RefreshRotate, Types, TokenType, Knowledge, RequestsKnown
    <3>2. QED
      BY <1>1, <1>8, <2>1, <3>1 DEF RefreshRotate
  <2>2. CASE ~ MayRotate(tok[r])
    BY <1>2, <1>8, <2>2 DEF RefreshRotate, Goto, ghosts
  <2>3. QED
    BY <2>1, <2>2
<1>9. ASSUME NEW o \in Logouts, LogoutRefreshKey(o) \/ LogoutGraceKey(o) \/ LogoutFails(o)
      PROVE  AnswerInv'
  BY <1>2, <1>9 DEF LogoutRefreshKey, LogoutGraceKey, LogoutFails, Goto
<1>10. CASE UNCHANGED vars
  BY <1>3, <1>10 DEF vars
<1>11. QED
  BY <1>4, <1>5, <1>6, <1>7, <1>8, <1>9, <1>10 DEF Next, RefreshStep

\* Keys hold tokens or nothing, and a refresh that succeeds answers with a
\* token, whichever of the three reads of the grace key or the rotation it is.
THEOREM AnswersAreTokens == Spec => []TypeOK
<1>1. Init => AnswerInv
  BY ProcessAssumption DEF Init, AnswerInv, RepliesTyped, Entry
<1>2. Types /\ Knowledge /\ AnswerInv /\ [Next]_vars => AnswerInv'
  BY AnswerStep
<1>3. Init => LimitInv
  BY DEF Init, LimitInv
<1>4. Types /\ Knowledge /\ LimitInv /\ [Next]_vars => LimitInv'
  BY LimitStep
<1>5. Types /\ AnswerInv /\ LimitInv => TypeOK
  BY DEF Types, NowType, StoredType, GraceType, TimeType, TokenType, PcType,
     RequestType, DoomedType, AnswerInv, RepliesTyped, LimitInv, TypeOK, Succeeded
<1>6. QED
  BY Typed, <1>1, <1>2, <1>3, <1>4, <1>5, PTL DEF Spec
=============================================================================
