----------------------------- MODULE Auth_proofs -----------------------------
(* Proofs about accounts, for any numbers of nodes, requests, users, tokens,   *)
(* logins, names and crashes and any limits.                                   *)
EXTENDS Auth, FiniteSetTheorems, TLAPS

\* The empty database and idle requests satisfy the invariant.
LEMMA InitSession == Init => SessionIInv
  BY NoUserIsNobody, AuthBounds
  DEF Init, SessionIInv, TypeOK, Work, NoWork, Session, Carrying, Stored, Token

\* Steps that leave tokens, users and requests alone.
LEMMA QuietSession ==
    ASSUME SessionIInv,
           UNCHANGED <<users, owner, requestVars, tokenObs, logins>>,
           heroes' \in [Name -> User \cup {NoUser}], signed' \subseteq User, expired' \subseteq Token
    PROVE  SessionIInv'
  BY DEF SessionIInv, TypeOK, Carrying, Stored, requestVars, tokenObs

\* A request that ends carries nothing any more.
LEMMA FinishSession ==
    ASSUME NEW p \in Request, SessionIInv, Finish(p),
           UNCHANGED <<users, owner, signed, expired, tokenObs, logins>>,
           heroes' \in [Name -> User \cup {NoUser}]
    PROVE  SessionIInv'
<1>1. NoWork \in Work
  BY AuthBounds DEF NoWork, Session, Work
<1>2. pc'[p] = "idle" /\ loc'[p] = NoWork
  BY DEF Finish, Goto, SessionIInv, TypeOK
<1>3. \A q \in Request : q # p => pc'[q] = pc[q] /\ loc'[q] = loc[q]
  BY DEF Finish, Goto, SessionIInv, TypeOK
<1>4. TypeOK'
  BY <1>1 DEF Finish, Goto, SessionIInv, TypeOK, tokenObs
<1> QED  BY <1>2, <1>3, <1>4 DEF SessionIInv, Carrying, Stored, tokenObs

\* A request goes on, for the same user and login.
LEMMA GotoSession ==
    ASSUME NEW p \in Request, NEW s, SessionIInv, Goto(p, s),
           UNCHANGED <<tableVars, loc, tokenObs, logins>>,
           \/ Carrying(p) /\ s \in {"success", "issue"} /\ loc[p].user \in users
           \/ Carrying(p) /\ s = "fail"
           \/ ~Carrying(p) /\ s = "insert"
    PROVE  SessionIInv'
<1>1. pc'[p] = s /\ \A q \in Request : q # p => pc'[q] = pc[q]
  BY DEF Goto, SessionIInv, TypeOK
<1>2. TypeOK'
  BY DEF Goto, SessionIInv, TypeOK, tokenObs, tableVars, tokenVars
<1>3. \A q \in Request : Carrying(q)' => Carrying(q)
  BY <1>1 DEF Carrying
<1> QED  BY <1>1, <1>2, <1>3 DEF SessionIInv, Carrying, Stored, tokenObs, tableVars, tokenVars

\* A login draws a number that nothing carries.
LEMMA BeginLoginSession ==
    ASSUME NEW p \in Request, NEW u \in User, NEW right \in BOOLEAN,
           SessionIInv, BeginLogin(p, u, right)
    PROVE  SessionIInv'
<1> DEFINE w == Session(u, right, logins + 1)
<1>0. logins \in Nat /\ logins + 1 \in 0 .. MaxLogins /\ logins' = logins + 1
  BY AuthBounds DEF BeginLogin, SessionIInv, TypeOK
<1>1. w \in Work /\ w.login = logins + 1 /\ w.user \in User
  BY <1>0 DEF Session, Work
<1> HIDE DEF w
<1>2. pc'[p] = "check" /\ loc'[p] = w
  BY DEF w, BeginLogin, Goto, SessionIInv, TypeOK
<1>3. \A q \in Request : q # p => pc'[q] = pc[q] /\ loc'[q] = loc[q]
  BY DEF BeginLogin, Goto, SessionIInv, TypeOK
<1>4. TypeOK'
  BY <1>0, <1>1 DEF w, BeginLogin, Goto, SessionIInv, TypeOK, tokenObs, tableVars, tokenVars
<1>5. /\ \A q \in Request : q # p /\ Carrying(q)' => Carrying(q) /\ loc'[q].login \in 1 .. logins /\ loc'[q].user \in User
      /\ Carrying(p)' /\ loc'[p].login = logins + 1 /\ loc'[p].user \in User
      /\ \A t \in Token : Stored(t)' => Stored(t) /\ loginOf'[t] = loginOf[t] /\ loginOf[t] \in 1 .. logins
  BY <1>1, <1>2, <1>3 DEF SessionIInv, Carrying, Stored, BeginLogin, tokenObs, tableVars, tokenVars
<1>6. /\ \A q \in Request : Carrying(q)' => loc'[q].login \in 1 .. logins' /\ loc'[q].user \in User
      /\ \A t \in Token : Stored(t)' =>
            t <= drawn' /\ owner'[t] \in users' /\ loginOf'[t] \in 1 .. logins'
  BY <1>0, <1>5 DEF SessionIInv, Stored, BeginLogin, tokenObs, tableVars, tokenVars
<1>7. \A q, v \in Request : Carrying(q)' /\ Carrying(v)' /\ loc'[q].login = loc'[v].login => q = v
  BY <1>0, <1>3, <1>5 DEF SessionIInv
<1>8. \A t \in Token, q \in Request : Stored(t)' /\ Carrying(q)' => loc'[q].login # loginOf'[t]
  BY <1>0, <1>3, <1>5 DEF SessionIInv
<1>9. /\ \A q \in Request : pc'[q] \in {"success", "owner", "issue"} => loc'[q].user \in users'
      /\ \A t, v \in Token : Stored(t)' /\ Stored(v)' /\ loginOf'[t] = loginOf'[v] => t = v
  BY <1>2, <1>3, <1>5 DEF SessionIInv, BeginLogin, tableVars
<1> QED  BY <1>4, <1>6, <1>7, <1>8, <1>9 DEF SessionIInv

\* A new token takes over the login of the request that drew it.
LEMMA IssueSession ==
    ASSUME NEW p \in Request, SessionIInv, issueTokens(p)
    PROVE  SessionIInv'
<1> DEFINE n == drawn + 1
<1>1. n \in Token /\ drawn \in Nat /\ drawn' = n /\ n \in 0 .. MaxTokens
  BY AuthBounds DEF issueTokens, newRefreshToken, SessionIInv, TypeOK, Token
<1>2. /\ Carrying(p) /\ loc[p].login \in 1 .. logins /\ loc[p].user \in users
      /\ loc[p].login \in 0 .. MaxLogins /\ loc[p].user \in User
  BY DEF issueTokens, At, Carrying, SessionIInv, TypeOK, Work
<1>3. /\ owner'[n] = loc[p].user /\ loginOf'[n] = loc[p].login
      /\ \A t \in Token : t # n => owner'[t] = owner[t] /\ loginOf'[t] = loginOf[t]
  BY <1>1 DEF issueTokens, newRefreshToken, Save, SessionIInv, TypeOK
<1>4. /\ pc'[p] = "idle" /\ loc'[p] = NoWork /\ NoWork \in Work
      /\ \A q \in Request : q # p => pc'[q] = pc[q] /\ loc'[q] = loc[q]
  BY AuthBounds DEF issueTokens, Finish, Goto, SessionIInv, TypeOK, NoWork, Session, Work
<1>5. TypeOK'
  BY <1>1, <1>2, <1>4 DEF issueTokens, newRefreshToken, Save, Finish, Goto, SessionIInv, TypeOK
<1>6. /\ ~Carrying(p)' /\ \A q \in Request : Carrying(q)' => q # p /\ Carrying(q)
      /\ \A t \in Token : t # n => (Stored(t)' <=> Stored(t))
      /\ ~Stored(n)
  BY <1>1, <1>3, <1>4 DEF Carrying, Stored, SessionIInv
<1>7. \A t \in Token : Stored(t)' => t <= drawn' /\ owner'[t] \in users' /\ loginOf'[t] \in 1 .. logins'
  BY <1>1, <1>2, <1>3, <1>6 DEF SessionIInv, issueTokens, TypeOK, Token
<1>8. \A t \in Token, q \in Request : Stored(t)' /\ Carrying(q)' => loc'[q].login # loginOf'[t]
  BY <1>2, <1>3, <1>4, <1>6 DEF SessionIInv
<1>9. \A t, v \in Token : Stored(t)' /\ Stored(v)' /\ loginOf'[t] = loginOf'[v] => t = v
  BY <1>2, <1>3, <1>6 DEF SessionIInv
<1>10. /\ \A q \in Request : Carrying(q)' => loc'[q].login \in 1 .. logins' /\ loc'[q].user \in User
       /\ \A q \in Request : pc'[q] \in {"success", "owner", "issue"} => loc'[q].user \in users'
       /\ \A q, v \in Request : Carrying(q)' /\ Carrying(v)' /\ loc'[q].login = loc'[v].login => q = v
  BY <1>4, <1>6 DEF SessionIInv, issueTokens
<1> QED  BY <1>5, <1>7, <1>8, <1>9, <1>10 DEF SessionIInv

\* A request that consumes a token takes over its login.
LEMMA RefreshSession ==
    ASSUME NEW p \in Request, NEW t \in Token, SessionIInv, Refresh(p, t)
    PROVE  SessionIInv'
<1> DEFINE w == Session(owner[t], FALSE, loginOf[t])
<1>1. Stored(t) /\ owner[t] \in users /\ loginOf[t] \in 1 .. logins /\ ~Carrying(p)
  BY DEF Refresh, Consume, Stored, At, Carrying, SessionIInv
<1>2. w \in Work /\ w.login = loginOf[t] /\ w.user = owner[t]
  BY <1>1 DEF Session, SessionIInv, TypeOK, Work
<1> HIDE DEF w
<1>3. /\ pc'[p] = "owner" /\ loc'[p] = w
      /\ \A q \in Request : q # p => pc'[q] = pc[q] /\ loc'[q] = loc[q]
  BY DEF w, Refresh, Goto, SessionIInv, TypeOK
<1>4. /\ owner'[t] = NoUser /\ loginOf' = loginOf
      /\ \A v \in Token : v # t => owner'[v] = owner[v]
  BY DEF Refresh, Consume, SessionIInv, TypeOK, tokenObs
<1>5. TypeOK'
  BY <1>2 DEF w, Refresh, Consume, Goto, SessionIInv, TypeOK, tokenObs
<1>6. /\ \A q \in Request : q # p /\ Carrying(q)' => Carrying(q) /\ loc[q].login # loginOf[t]
      /\ \A v \in Token : Stored(v)' => Stored(v) /\ v # t
  <2>1. \A q \in Request : q # p /\ Carrying(q)' => Carrying(q)
    BY <1>3 DEF Carrying
  <2>2. \A q \in Request : Carrying(q) => loc[q].login # loginOf[t]
    BY <1>1 DEF SessionIInv
  <2>3. \A v \in Token : Stored(v)' => Stored(v) /\ v # t
    BY <1>4 DEF Stored
  <2> QED  BY <2>1, <2>2, <2>3
<1>7. \A v \in Token : Stored(v)' => v <= drawn' /\ owner'[v] \in users' /\ loginOf'[v] \in 1 .. logins'
  BY <1>4, <1>6 DEF SessionIInv, Refresh, tokenObs
<1>8. \A v \in Token, q \in Request : Stored(v)' /\ Carrying(q)' => loc'[q].login # loginOf'[v]
  BY <1>1, <1>2, <1>3, <1>4, <1>6 DEF SessionIInv
<1>9. \A v, x \in Token : Stored(v)' /\ Stored(x)' /\ loginOf'[v] = loginOf'[x] => v = x
  BY <1>4, <1>6 DEF SessionIInv
<1>10. \A q \in Request : Carrying(q)' => loc'[q].login \in 1 .. logins' /\ loc'[q].user \in User
  BY <1>1, <1>2, <1>3, <1>6 DEF SessionIInv, TypeOK, Refresh
<1>11. \A q \in Request : pc'[q] \in {"success", "owner", "issue"} => loc'[q].user \in users'
  <2>1. users' = users
    BY DEF Refresh
  <2>2. \A q \in Request : q # p /\ pc'[q] \in {"success", "owner", "issue"} => loc'[q].user \in users
    BY <1>3 DEF SessionIInv
  <2>3. loc'[p].user \in users
    BY <1>1, <1>2, <1>3
  <2> QED  BY <2>1, <2>2, <2>3
<1>12. \A q, v \in Request : Carrying(q)' /\ Carrying(v)' /\ loc'[q].login = loc'[v].login => q = v
  <2>1. \A q \in Request : q # p /\ Carrying(q)' => loc'[q].login # loc'[p].login
    BY <1>2, <1>3, <1>6
  <2>2. \A q, v \in Request : q # p /\ v # p /\ Carrying(q)' /\ Carrying(v)'
                               /\ loc'[q].login = loc'[v].login => q = v
    BY <1>3, <1>6 DEF SessionIInv
  <2> QED  BY <2>1, <2>2
<1> QED  BY <1>5, <1>7, <1>8, <1>9, <1>10, <1>11, <1>12 DEF SessionIInv

\* A logout takes a row away.
LEMMA LogoutSession ==
    ASSUME NEW t \in Token, SessionIInv, Logout(t)
    PROVE  SessionIInv'
<1>1. owner'[t] = NoUser /\ \A v \in Token : v # t => owner'[v] = owner[v]
  BY DEF Logout, Delete, SessionIInv, TypeOK
<1>2. TypeOK'
  BY DEF Logout, Delete, SessionIInv, TypeOK, requestVars, tokenObs
<1> QED  BY <1>1, <1>2 DEF SessionIInv, Carrying, Stored, Logout, requestVars, tokenObs

\* A request to create a character carries no login.
LEMMA CreateSession ==
    ASSUME NEW p \in Request, NEW u \in User, NEW c \in Name, SessionIInv, CreateHandler(p, u, c)
    PROVE  SessionIInv'
<1> DEFINE w == Creation(u, c)
<1>1. w \in Work
  BY AuthBounds DEF Creation, Work
<1>2. /\ pc'[p] = "count"
      /\ \A q \in Request : q # p => pc'[q] = pc[q] /\ loc'[q] = loc[q]
  BY DEF CreateHandler, CreateCharacter, Goto, SessionIInv, TypeOK
<1>3. TypeOK'
  BY <1>1 DEF CreateHandler, CreateCharacter, Goto, SessionIInv, TypeOK, tokenObs, tableVars, tokenVars
<1> QED  BY <1>2, <1>3 DEF SessionIInv, Carrying, Stored, CreateHandler, tokenObs, tableVars, tokenVars

\* A crash ends every request of its node.
LEMMA CrashSession ==
    ASSUME NEW n \in Node, SessionIInv, Crash(n)
    PROVE  SessionIInv'
<1>1. NoWork \in Work
  BY AuthBounds DEF NoWork, Session, Work
<1>2. TypeOK'
  BY <1>1 DEF Crash, SessionIInv, TypeOK, tokenObs, tableVars, tokenVars
<1>3. \A q \in Request : Carrying(q)' => Carrying(q) /\ pc'[q] = pc[q] /\ loc'[q] = loc[q]
  BY DEF Crash, Carrying, SessionIInv, TypeOK
<1>4. \A q \in Request : pc'[q] \in {"success", "owner", "issue"} => pc'[q] = pc[q] /\ loc'[q] = loc[q]
  BY DEF Crash, SessionIInv, TypeOK
<1> QED  BY <1>2, <1>3, <1>4 DEF SessionIInv, Stored, Crash, tokenObs, tableVars, tokenVars

\* The invariant holds after every step.
LEMMA NextSession == SessionIInv /\ [Next]_vars => SessionIInv'
<1> SUFFICES ASSUME SessionIInv, [Next]_vars PROVE SessionIInv'
  OBVIOUS
<1> USE DEF tableVars, tokenVars
<1>1. ASSUME NEW u \in User, Register(u) PROVE SessionIInv'
  BY <1>1 DEF Register, Create, SessionIInv, TypeOK, Carrying, Stored, requestVars, tokenObs
<1>2. ASSUME NEW u \in User, AccessExpires(u) PROVE SessionIInv'
  <2>1. heroes' \in [Name -> User \cup {NoUser}] /\ signed' \subseteq User /\ expired' \subseteq Token
    BY <1>2 DEF AccessExpires, SessionIInv, TypeOK
  <2> QED  BY <1>2, <2>1, QuietSession DEF AccessExpires
<1>3. ASSUME NEW n \in Node, NEW k \in LimiterKey, WindowElapses(n, k) \/ LockEnds(n, k) \/ sweep(n, k)
      PROVE SessionIInv'
  <2>1. heroes' \in [Name -> User \cup {NoUser}] /\ signed' \subseteq User /\ expired' \subseteq Token
    BY <1>3 DEF WindowElapses, LockEnds, sweep, SessionIInv, TypeOK
  <2> QED  BY <1>3, <2>1, QuietSession DEF WindowElapses, LockEnds, sweep
<1>4. ASSUME NEW p \in Request, CheckPassword(p) PROVE SessionIInv'
  BY <1>4, GotoSession DEF CheckPassword, GetByUsername, At, Carrying
<1>5. ASSUME NEW p \in Request, success(p) PROVE SessionIInv'
  <2>1. Carrying(p) /\ loc[p].user \in users
    BY <1>5 DEF success, At, Carrying, SessionIInv
  <2> QED  BY <1>5, <2>1, GotoSession DEF success
<1>6. ASSUME NEW p \in Request, fail(p) \/ DbError(p) PROVE SessionIInv'
  <2>1. heroes' \in [Name -> User \cup {NoUser}]
    BY <1>6 DEF fail, DbError, SessionIInv, TypeOK
  <2> QED  BY <1>6, <2>1, FinishSession DEF fail, DbError
<1>7. ASSUME NEW p \in Request, RotateFor(p) PROVE SessionIInv'
  <2>1. CASE GetByID(loc[p].user)
    BY <1>7, <2>1, GotoSession DEF RotateFor, GetByID, At, Carrying
  <2>2. CASE ~GetByID(loc[p].user)
    <3>1. heroes' \in [Name -> User \cup {NoUser}]
      BY <1>7 DEF RotateFor, SessionIInv, TypeOK
    <3> QED  BY <1>7, <2>2, <3>1, FinishSession DEF RotateFor
  <2> QED  BY <2>1, <2>2
<1>8. ASSUME NEW p \in Request, CountCharacters(p) PROVE SessionIInv'
  <2>1. CASE BelowLimit(loc[p].user)
    BY <1>8, <2>1, GotoSession DEF CountCharacters, At, Carrying
  <2>2. CASE ~BelowLimit(loc[p].user)
    <3>1. heroes' \in [Name -> User \cup {NoUser}]
      BY <1>8 DEF CountCharacters, SessionIInv, TypeOK
    <3> QED  BY <1>8, <2>2, <3>1, FinishSession DEF CountCharacters
  <2> QED  BY <2>1, <2>2
<1>9. ASSUME NEW p \in Request, InsertCharacter(p) PROVE SessionIInv'
  <2>1. heroes' \in [Name -> User \cup {NoUser}]
    BY <1>9 DEF InsertCharacter, SessionIInv, TypeOK, Work
  <2> QED  BY <1>9, <2>1, FinishSession DEF InsertCharacter
<1>10. ASSUME NEW t \in Token, Expire(t) PROVE SessionIInv'
  <2>1. heroes' \in [Name -> User \cup {NoUser}] /\ signed' \subseteq User /\ expired' \subseteq Token
    BY <1>10 DEF Expire, SessionIInv, TypeOK
  <2> QED  BY <1>10, <2>1, QuietSession DEF Expire
<1>11. CASE UNCHANGED vars
  BY <1>11 DEF vars, SessionIInv, TypeOK, Carrying, Stored, requestVars, tokenObs
<1> QED
  BY <1>1, <1>2, <1>3, <1>4, <1>5, <1>6, <1>7, <1>8, <1>9, <1>10, <1>11, BeginLoginSession,
     IssueSession, RefreshSession, LogoutSession, CreateSession, CrashSession
  DEF Next

\* Every reachable state satisfies the inductive invariant of logins and tokens:
\* one carrier per login, whatever crashes, database errors and overlapping
\* refreshes come in between (service.go:136-151).
THEOREM SessionInvariant == Spec => []SessionIInv
<1>1. Init => SessionIInv
  BY InitSession
<1>2. SessionIInv /\ [Next]_vars => SessionIInv'
  BY NextSession
<1> QED  BY <1>1, <1>2, PTL DEF Spec

\* A set whose members are all equal has at most one.
LEMMA AtMostOne ==
    ASSUME NEW S, \A x, y \in S : x = y
    PROVE  IsFiniteSet(S) /\ Cardinality(S) \in {0, 1} /\ (Cardinality(S) = 1 => S # {})
<1>1. CASE S = {}
  BY <1>1, FS_EmptySet
<1>2. CASE S # {}
  <2>1. PICK x \in S : TRUE
    BY <1>2
  <2>2. S = {x}
    BY <2>1
  <2> QED  BY <1>2, <2>2, FS_Singleton
<1> QED  BY <1>1, <1>2

\* The invariant says that the carriers of a login are one at most.
LEMMA OneCarrier == SessionIInv => OneSessionPerLogin
<1> SUFFICES ASSUME SessionIInv PROVE OneSessionPerLogin
  OBVIOUS
<1>1. ASSUME NEW l \in Login PROVE Cardinality(Alive(l)) + Cardinality(Continuing(l)) <= 1
  <2>1. \A t, v \in Alive(l) : t = v
    BY DEF Alive, SessionIInv, Stored
  <2>2. \A p, q \in Continuing(l) : p = q
    BY DEF Continuing, Carrying, SessionIInv
  <2>3. Alive(l) = {} \/ Continuing(l) = {}
    BY DEF Alive, Continuing, Carrying, Stored, SessionIInv
  <2>4. Cardinality(Alive(l)) \in {0, 1} /\ (Cardinality(Alive(l)) = 1 => Alive(l) # {})
    BY <2>1, AtMostOne
  <2>5. Cardinality(Continuing(l)) \in {0, 1} /\ (Cardinality(Continuing(l)) = 1 => Continuing(l) # {})
    BY <2>2, AtMostOne
  <2> QED  BY <2>3, <2>4, <2>5
<1>2. \A t \in Token : owner[t] # NoUser => owner[t] \in users /\ loginOf[t] \in 1 .. logins
  BY DEF SessionIInv, Stored
<1> QED  BY <1>1, <1>2 DEF OneSessionPerLogin

\* Refresh tokens are single-use and rotated: a login never forks into two
\* sessions (refresh.go:20-22), for any number of nodes and requests.
THEOREM SessionsNotForked == Spec => []OneSessionPerLogin
  BY SessionInvariant, OneCarrier, PTL

------------------------------------------------------------------------------
\* The limit on characters.

\* Finite sets of requests and names can be counted.
LEMMA Countable ==
    ASSUME NEW u
    PROVE  /\ IsFiniteSet(Owned(u)) /\ Cardinality(Owned(u)) \in Nat
           /\ IsFiniteSet(Creating(u)) /\ Cardinality(Creating(u)) \in Nat
           /\ Cardinality(Creating(u)) <= Cardinality(Request) /\ Cardinality(Request) \in Nat
<1>1. Owned(u) \subseteq Name /\ Creating(u) \subseteq Request
  BY DEF Owned, Creating
<1> QED  BY <1>1, FinitelyMany, FS_Subset, FS_CardinalityType

\* At the start nobody has a character, and nobody makes one.
LEMMA InitLimit == Init => CharactersLimitedUpToOverlap
<1> SUFFICES ASSUME Init, NEW u \in User
             PROVE Cardinality(Owned(u)) + Cardinality(Creating(u))
                     <= MaxCharacters + Cardinality(Request) - 1
  BY DEF CharactersLimitedUpToOverlap
<1>1. Owned(u) = {}
  BY NoUserIsNobody DEF Init, Owned
<1>2. Cardinality(Owned(u)) = 0
  BY <1>1, FS_EmptySet
<1> QED  BY <1>2, Countable, LimitAllowsOne

\* A step that gives nobody a character and lets no further request insert.
LEMMA QuietLimit ==
    ASSUME CharactersLimitedUpToOverlap, heroes' = heroes,
           \A q \in Request : pc'[q] = "insert" => pc[q] = "insert" /\ loc'[q] = loc[q]
    PROVE  CharactersLimitedUpToOverlap'
<1> SUFFICES ASSUME NEW u \in User
             PROVE Cardinality(Owned(u)') + Cardinality(Creating(u)')
                     <= MaxCharacters + Cardinality(Request) - 1
  BY DEF CharactersLimitedUpToOverlap
<1>1. Owned(u)' = Owned(u)
  BY DEF Owned
<1>2. Creating(u)' \subseteq Creating(u)
  BY DEF Creating, At
<1>3. Cardinality(Creating(u)') \in Nat /\ Cardinality(Creating(u)') <= Cardinality(Creating(u))
  BY <1>2, Countable, FS_Subset, FS_CardinalityType
<1>4. Cardinality(Owned(u)) + Cardinality(Creating(u)) <= MaxCharacters + Cardinality(Request) - 1
  BY DEF CharactersLimitedUpToOverlap
<1> QED  BY <1>1, <1>3, <1>4, Countable, LimitAllowsOne

\* The count: whoever passes has seen fewer characters than the limit.
LEMMA CountLimit ==
    ASSUME NEW p \in Request, SessionIInv, CharactersLimitedUpToOverlap, CountCharacters(p)
    PROVE  CharactersLimitedUpToOverlap'
<1> USE DEF tableVars, tokenVars
<1>1. CASE ~BelowLimit(loc[p].user)
  BY <1>1, QuietLimit DEF CountCharacters, Finish, Goto, SessionIInv, TypeOK
<1>2. CASE BelowLimit(loc[p].user)
  <2> SUFFICES ASSUME NEW u \in User
               PROVE Cardinality(Owned(u)') + Cardinality(Creating(u)')
                       <= MaxCharacters + Cardinality(Request) - 1
    BY DEF CharactersLimitedUpToOverlap
  <2>1. Owned(u)' = Owned(u)
    BY DEF CountCharacters, Owned
  <2>2. loc' = loc /\ \A q \in Request : q # p => pc'[q] = pc[q]
    BY <1>2 DEF CountCharacters, Goto, SessionIInv, TypeOK
  <2>3. CASE loc[p].user = u
    <3>1. Cardinality(Owned(u)) < MaxCharacters
      BY <1>2, <2>3 DEF BelowLimit
    <3>2. Creating(u)' \subseteq Request
      BY DEF Creating
    <3>3. Cardinality(Creating(u)') \in Nat /\ Cardinality(Creating(u)') <= Cardinality(Request)
      BY <3>2, FinitelyMany, FS_Subset, FS_CardinalityType
    <3> QED  BY <2>1, <3>1, <3>3, Countable, LimitAllowsOne
  <2>4. CASE loc[p].user # u
    <3>1. Creating(u)' \subseteq Creating(u)
      BY <2>2, <2>4 DEF Creating, At
    <3>2. Cardinality(Creating(u)') \in Nat /\ Cardinality(Creating(u)') <= Cardinality(Creating(u))
      BY <3>1, Countable, FS_Subset, FS_CardinalityType
    <3>3. Cardinality(Owned(u)) + Cardinality(Creating(u)) <= MaxCharacters + Cardinality(Request) - 1
      BY DEF CharactersLimitedUpToOverlap
    <3> QED  BY <2>1, <3>2, <3>3, Countable, LimitAllowsOne
  <2> QED  BY <2>3, <2>4
<1> QED  BY <1>1, <1>2

\* The insert: a request that may exceed the limit becomes a character that does.
LEMMA InsertLimit ==
    ASSUME NEW p \in Request, SessionIInv, CharactersLimitedUpToOverlap, InsertCharacter(p)
    PROVE  CharactersLimitedUpToOverlap'
<1> SUFFICES ASSUME NEW u \in User
             PROVE Cardinality(Owned(u)') + Cardinality(Creating(u)')
                     <= MaxCharacters + Cardinality(Request) - 1
  BY DEF CharactersLimitedUpToOverlap
<1>1. /\ pc[p] = "insert" /\ pc'[p] = "idle"
      /\ \A q \in Request : q # p => pc'[q] = pc[q] /\ loc'[q] = loc[q]
  BY DEF InsertCharacter, At, Finish, Goto, SessionIInv, TypeOK
<1>2. Creating(u)' = Creating(u) \ {p}
  BY <1>1 DEF Creating, At
<1>3. Cardinality(Owned(u)) + Cardinality(Creating(u)) <= MaxCharacters + Cardinality(Request) - 1
  BY DEF CharactersLimitedUpToOverlap
<1>4. CASE loc[p].user = u
  <2>1. p \in Creating(u)
    BY <1>1, <1>4 DEF Creating, At
  <2>2. Cardinality(Creating(u)') = Cardinality(Creating(u)) - 1
    BY <1>2, <2>1, Countable, FS_RemoveElement
  <2>3. Owned(u)' \subseteq Owned(u) \cup {loc[p].name}
    BY <1>4 DEF InsertCharacter, Owned, SessionIInv, TypeOK
  <2>4. /\ IsFiniteSet(Owned(u) \cup {loc[p].name})
        /\ Cardinality(Owned(u) \cup {loc[p].name}) \in Nat
        /\ Cardinality(Owned(u) \cup {loc[p].name}) <= Cardinality(Owned(u)) + 1
    <3>1. IsFiniteSet(Owned(u)) /\ Cardinality(Owned(u)) \in Nat
      BY Countable
    <3>2. /\ IsFiniteSet(Owned(u) \cup {loc[p].name})
          /\ Cardinality(Owned(u) \cup {loc[p].name})
               = IF loc[p].name \in Owned(u) THEN Cardinality(Owned(u)) ELSE Cardinality(Owned(u)) + 1
      BY <3>1, FS_AddElement
    <3> QED  BY <3>1, <3>2
  <2>5. Cardinality(Owned(u)') \in Nat
        /\ Cardinality(Owned(u)') <= Cardinality(Owned(u) \cup {loc[p].name})
    BY <2>3, <2>4, FS_Subset, FS_CardinalityType
  <2> QED  BY <1>3, <2>2, <2>4, <2>5, Countable, LimitAllowsOne
<1>5. CASE loc[p].user # u
  <2>1. Owned(u)' \subseteq Owned(u)
    BY <1>5 DEF InsertCharacter, Owned, SessionIInv, TypeOK
  <2>2. Creating(u)' = Creating(u)
    BY <1>2, <1>5 DEF Creating
  <2>3. Cardinality(Owned(u)') \in Nat /\ Cardinality(Owned(u)') <= Cardinality(Owned(u))
    BY <2>1, Countable, FS_Subset, FS_CardinalityType
  <2> QED  BY <1>3, <2>2, <2>3, Countable, LimitAllowsOne
<1> QED  BY <1>4, <1>5

\* Every other step is quiet for the limit.
LEMMA NextLimit ==
    ASSUME SessionIInv, CharactersLimitedUpToOverlap, [Next]_vars
    PROVE  CharactersLimitedUpToOverlap'
<1> USE DEF tableVars, tokenVars, requestVars, SessionIInv, TypeOK
<1>1. ASSUME NEW u \in User, Register(u) \/ AccessExpires(u) PROVE CharactersLimitedUpToOverlap'
  BY <1>1, QuietLimit DEF Register, AccessExpires
<1>2. ASSUME NEW n \in Node, NEW k \in LimiterKey, WindowElapses(n, k) \/ LockEnds(n, k) \/ sweep(n, k)
      PROVE CharactersLimitedUpToOverlap'
  BY <1>2, QuietLimit DEF WindowElapses, LockEnds, sweep
<1>3. ASSUME NEW p \in Request, NEW u \in User, NEW right \in BOOLEAN, BeginLogin(p, u, right)
      PROVE CharactersLimitedUpToOverlap'
  BY <1>3, QuietLimit DEF BeginLogin, Goto
<1>4. ASSUME NEW p \in Request, CheckPassword(p) \/ success(p) PROVE CharactersLimitedUpToOverlap'
  BY <1>4, QuietLimit DEF CheckPassword, success, Goto
<1>5. ASSUME NEW p \in Request, fail(p) \/ issueTokens(p) \/ DbError(p) PROVE CharactersLimitedUpToOverlap'
  BY <1>5, QuietLimit DEF fail, issueTokens, DbError, Finish, Goto
<1>6. ASSUME NEW p \in Request, RotateFor(p) PROVE CharactersLimitedUpToOverlap'
  BY <1>6, QuietLimit DEF RotateFor, Finish, Goto
<1>7. ASSUME NEW p \in Request, NEW t \in Token, Refresh(p, t) PROVE CharactersLimitedUpToOverlap'
  BY <1>7, QuietLimit DEF Refresh, Goto
<1>8. ASSUME NEW p \in Request, NEW u \in User, NEW c \in Name, CreateHandler(p, u, c)
      PROVE CharactersLimitedUpToOverlap'
  BY <1>8, QuietLimit DEF CreateHandler, CreateCharacter, Goto
<1>9. ASSUME NEW t \in Token, Logout(t) \/ Expire(t) PROVE CharactersLimitedUpToOverlap'
  BY <1>9, QuietLimit DEF Logout, Expire
<1>10. ASSUME NEW n \in Node, Crash(n) PROVE CharactersLimitedUpToOverlap'
  BY <1>10, QuietLimit DEF Crash
<1>11. CASE UNCHANGED vars
  BY <1>11, QuietLimit DEF vars
<1> HIDE DEF tableVars, tokenVars, requestVars, SessionIInv, TypeOK
<1> QED
  BY <1>1, <1>2, <1>3, <1>4, <1>5, <1>6, <1>7, <1>8, <1>9, <1>10, <1>11, CountLimit, InsertLimit
  DEF Next

\* The unlocked count (character/repository.go:26-42) lets overlapping requests
\* past the limit, and nothing more: for any limit and any number of requests the
\* excess is below the number of requests that run at once.
THEOREM CharacterLimit == Spec => []CharactersLimitedUpToOverlap
<1>1. Init => CharactersLimitedUpToOverlap
  BY InitLimit
<1>2. SessionIInv /\ CharactersLimitedUpToOverlap /\ [Next]_vars => CharactersLimitedUpToOverlap'
  BY NextLimit
<1> QED  BY <1>1, <1>2, SessionInvariant, PTL DEF Spec

------------------------------------------------------------------------------
\* The login limiter.

Entry == [failures : Nat, over : BOOLEAN, locked : BOOLEAN]
Served(n) == {p \in Request : NodeOf[p] = n}

\* An entry within the limit, with k checks under way and r requests in all.
Within(e, k, r) ==
    /\ e.failures >= MaxFailures => e.locked \/ e.over
    /\ e.failures + (IF e.locked THEN k ELSE 0) <= MaxFailures + r - 1

\* LoginLimited, entry by entry, now and after a step.
LEMMA LimitedNow ==
    LoginLimited <=>
        \A n \in Node, key \in LimiterKey : Within(limiter[n][key], Cardinality(Checking(n, key)), Cardinality(Served(n)))
  BY DEF LoginLimited, Within, Served

\* The limit after a step, entry by entry.
LEMMA LimitedThen ==
    LoginLimited' <=>
        \A n \in Node, key \in LimiterKey : Within(limiter'[n][key], Cardinality(Checking(n, key)'), Cardinality(Served(n)))
  BY DEF LoginLimited, Within, Served, Checking

\* The requests of a node and those that check a password can be counted.
LEMMA CountChecks ==
    ASSUME NEW n, NEW S, S \subseteq Served(n)
    PROVE  /\ IsFiniteSet(S) /\ Cardinality(S) \in Nat /\ Cardinality(Served(n)) \in Nat
           /\ Cardinality(S) <= Cardinality(Served(n))
<1>1. Served(n) \subseteq Request
  BY DEF Served
<1>2. IsFiniteSet(Served(n))
  BY <1>1, FinitelyMany, FS_Subset
<1> QED  BY <1>2, FS_Subset, FS_CardinalityType

\* A login that is being checked is a request of its node.
LEMMA CheckingServed ==
    ASSUME NEW n, NEW key
    PROVE  Checking(n, key) \subseteq Served(n) /\ Checking(n, key)' \subseteq Served(n)
  BY DEF Checking, Served

\* An entry that opens counts one failure at most.
LEMMA OpenWithin ==
    ASSUME NEW e \in Entry, ~e.locked, NEW k, NEW r \in Nat, e.failures <= 1, e.failures = 1 => r > 0
    PROVE  Within(e, k, r)
<1>1. e.failures \in Nat
  BY DEF Entry
<1> QED  BY <1>1, FailuresLock DEF Within

\* The entry of one key changes to e, or none does.
LEMMA LimitStep ==
    ASSUME LimiterIInv, NEW n \in Node, NEW key \in LimiterKey, NEW e \in Entry,
           limiter' = [limiter EXCEPT ![n][key] = e],
           \A m \in Node, v \in LimiterKey : <<m, v>> # <<n, key>> => Checking(m, v)' \subseteq Checking(m, v),
           Within(e, Cardinality(Checking(n, key)'), Cardinality(Served(n)))
    PROVE  LimiterIInv'
<1>1. limiter \in [Node -> [LimiterKey -> Entry]] /\ LoginLimited
  BY DEF LimiterIInv, Entry
<1>2. limiter' \in [Node -> [LimiterKey -> Entry]]
  BY <1>1
<1>3. ASSUME NEW m \in Node, NEW v \in LimiterKey
      PROVE  Within(limiter'[m][v], Cardinality(Checking(m, v)'), Cardinality(Served(m)))
  <2>1. CASE m = n /\ v = key
    BY <1>1, <2>1
  <2>2. CASE ~(m = n /\ v = key)
    <3>1. limiter'[m][v] = limiter[m][v] /\ limiter[m][v] \in Entry /\ <<m, v>> # <<n, key>>
      BY <1>1, <2>2
    <3>2. Checking(m, v)' \subseteq Checking(m, v)
      BY <3>1
    <3>3. /\ Cardinality(Checking(m, v)') \in Nat /\ Cardinality(Checking(m, v)) \in Nat /\ Cardinality(Served(m)) \in Nat
          /\ Cardinality(Checking(m, v)') <= Cardinality(Checking(m, v))
      BY <3>2, CheckingServed, CountChecks, FS_Subset
    <3>4. Within(limiter[m][v], Cardinality(Checking(m, v)), Cardinality(Served(m)))
      BY <1>1, LimitedNow
    <3>5. limiter[m][v].failures \in Nat
      BY <3>1 DEF Entry
    <3> QED  BY <3>1, <3>3, <3>4, <3>5, FailuresLock DEF Within
  <2> QED  BY <2>1, <2>2
<1>4. LoginLimited'
  BY <1>3, LimitedThen
<1> QED  BY <1>2, <1>4 DEF LimiterIInv, Entry

\* Steps that leave the limiter alone: only keys that are not locked get checks.
LEMMA LimitKept ==
    ASSUME LimiterIInv, limiter' = limiter,
           \A n \in Node, key \in LimiterKey : limiter[n][key].locked => Checking(n, key)' \subseteq Checking(n, key)
    PROVE  LimiterIInv'
<1>1. limiter \in [Node -> [LimiterKey -> Entry]] /\ LoginLimited
  BY DEF LimiterIInv, Entry
<1>2. ASSUME NEW m \in Node, NEW v \in LimiterKey
      PROVE  Within(limiter'[m][v], Cardinality(Checking(m, v)'), Cardinality(Served(m)))
  <2>1. limiter[m][v] \in Entry /\ limiter[m][v].failures \in Nat
    BY <1>1 DEF Entry
  <2>2. Within(limiter[m][v], Cardinality(Checking(m, v)), Cardinality(Served(m)))
    BY <1>1, LimitedNow
  <2>3. CASE limiter[m][v].locked
    <3>1. /\ Cardinality(Checking(m, v)') \in Nat /\ Cardinality(Checking(m, v)) \in Nat /\ Cardinality(Served(m)) \in Nat
          /\ Cardinality(Checking(m, v)') <= Cardinality(Checking(m, v))
      BY <2>3, CheckingServed, CountChecks, FS_Subset
    <3> QED  BY <2>1, <2>2, <2>3, <3>1, FailuresLock DEF Within
  <2>4. CASE ~limiter[m][v].locked
    BY <2>2, <2>4 DEF Within
  <2> QED  BY <2>3, <2>4
<1>3. LoginLimited'
  BY <1>2, LimitedThen
<1> QED  BY <1>1, <1>3 DEF LimiterIInv, Entry

\* A login or a password check or a request that ends.
LEMMA LimitBegin ==
    ASSUME SessionIInv, LimiterIInv, NEW p \in Request, NEW u \in User, NEW right \in BOOLEAN, BeginLogin(p, u, right)
    PROVE  LimiterIInv'
<1>1. /\ pc'[p] = "check" /\ loc'[p].user = u /\ ~limiter[NodeOf[p]][KeyOf[u]].locked /\ limiter' = limiter
      /\ \A q \in Request : q # p => pc'[q] = pc[q] /\ loc'[q] = loc[q]
  BY DEF BeginLogin, Goto, SessionIInv, TypeOK, locked, Session
<1>2. \A n \in Node, v \in LimiterKey : limiter[n][v].locked => Checking(n, v)' \subseteq Checking(n, v)
  BY <1>1 DEF Checking
<1> QED  BY <1>1, <1>2, LimitKept

\* Steps after which no further request checks.
LEMMA LimitQuiet ==
    ASSUME LimiterIInv, limiter' = limiter,
           \A q \in Request : pc'[q] \in {"check", "fail"} => pc[q] \in {"check", "fail"} /\ loc'[q].user = loc[q].user
    PROVE  LimiterIInv'
<1>1. \A n \in Node, v \in LimiterKey : Checking(n, v)' \subseteq Checking(n, v)
  BY DEF Checking
<1> QED  BY <1>1, LimitKept

\* A failure is counted: the check that is through becomes a failure.
LEMMA LimitFail ==
    ASSUME SessionIInv, LimiterIInv, NEW p \in Request, fail(p)
    PROVE  LimiterIInv'
<1> DEFINE n == NodeOf[p]
           key == KeyOf[loc[p].user]
<1>1. /\ pc[p] = "fail" /\ pc'[p] = "idle" /\ n \in Node /\ key \in LimiterKey
      /\ \A q \in Request : q # p => pc'[q] = pc[q] /\ loc'[q] = loc[q]
      /\ limiter' = [limiter EXCEPT ![n][key] = Failed(@)]
      /\ limiter \in [Node -> [LimiterKey -> Entry]]
  BY RequestsHaveNodes, NamesHaveKeys DEF fail, At, Finish, Goto, SessionIInv, TypeOK, Carrying, LimiterIInv, Entry
<1>2. PICK m \in Node, v \in LimiterKey : m = n /\ v = key
  BY <1>1
<1> HIDE DEF n, key
<1> DEFINE e == limiter[m][v]
           k == Cardinality(Checking(m, v))
           r == Cardinality(Served(m))
<1>3. e \in Entry /\ e.failures \in Nat /\ limiter' = [limiter EXCEPT ![m][v] = Failed(e)]
  BY <1>1, <1>2 DEF Entry
<1>4. Checking(m, v)' = Checking(m, v) \ {p} /\ p \in Checking(m, v)
  BY <1>1, <1>2 DEF Checking, n, key
<1>5. /\ \A a \in Node, b \in LimiterKey : Checking(a, b)' \subseteq Checking(a, b)
  BY <1>1 DEF Checking
<1>6. k \in Nat /\ r \in Nat /\ k <= r /\ Cardinality(Checking(m, v)') = k - 1 /\ k >= 1
  <2>1. IsFiniteSet(Checking(m, v)) /\ k \in Nat /\ r \in Nat /\ k <= r
    BY CheckingServed, CountChecks
  <2>2. Cardinality(Checking(m, v) \ {p}) = k - 1
    BY <1>4, <2>1, FS_RemoveElement
  <2>3. IsFiniteSet(Checking(m, v)') /\ Cardinality(Checking(m, v)') \in Nat
    BY CheckingServed, CountChecks
  <2> QED  BY <1>4, <2>1, <2>2, <2>3
<1>7. Within(e, k, r)
  BY LimitedNow DEF LimiterIInv
<1>8. Failed(e) \in Entry /\ Within(Failed(e), k - 1, r)
  <2> HIDE DEF e, k, r
  <2>1. CASE e = NoEntry \/ e.over
    <3>1. Failed(e) = [failures |-> 1, over |-> FALSE, locked |-> FALSE]
      BY <2>1 DEF Failed
    <3>2. Failed(e) \in Entry /\ Failed(e).failures = 1 /\ ~Failed(e).locked
      BY <3>1 DEF Entry
    <3> QED  BY <1>6, <3>2, OpenWithin
  <2>2. CASE ~(e = NoEntry \/ e.over)
    <3>1. Failed(e) = [e EXCEPT !.failures = @ + 1, !.locked = @ \/ e.failures + 1 >= MaxFailures]
      BY <2>2 DEF Failed
    <3>2. /\ Failed(e) \in Entry /\ Failed(e).failures = e.failures + 1 /\ Failed(e).over = e.over
          /\ (Failed(e).locked <=> e.locked \/ e.failures + 1 >= MaxFailures)
      <4> DEFINE b == e.locked \/ e.failures + 1 >= MaxFailures
      <4>1. b \in BOOLEAN /\ e.failures + 1 \in Nat
        BY <1>3
      <4>2. Failed(e) = [e EXCEPT !.failures = e.failures + 1, !.locked = b]
        BY <3>1
      <4> HIDE DEF b
      <4>3. /\ Failed(e) \in Entry /\ Failed(e).failures = e.failures + 1 /\ Failed(e).over = e.over
            /\ Failed(e).locked = b
        BY <1>3, <4>1, <4>2 DEF Entry
      <4> QED  BY <4>3 DEF b
    <3>3. CASE e.locked
      <4>1. Failed(e).locked
        BY <3>2, <3>3
      <4> QED  BY <1>3, <1>6, <1>7, <3>2, <3>3, <4>1, FailuresLock DEF Within
    <3>4. CASE ~e.locked
      <4>1. e.failures < MaxFailures
        BY <1>3, <1>7, <2>2, <3>4, FailuresLock DEF Within
      <4>2. CASE e.failures + 1 >= MaxFailures
        <5>1. Failed(e).locked
          BY <3>2, <4>2
        <5>2. Failed(e).failures = MaxFailures
          BY <1>3, <3>2, <4>1, <4>2, FailuresLock
        <5>3. MaxFailures + (k - 1) <= MaxFailures + r - 1
          BY <1>6, FailuresLock
        <5>4. Failed(e).failures + (IF Failed(e).locked THEN k - 1 ELSE 0) <= MaxFailures + r - 1
          BY <5>1, <5>2, <5>3
        <5> QED  BY <3>2, <5>1, <5>4 DEF Within
      <4>3. CASE ~(e.failures + 1 >= MaxFailures)
        <5>1. ~Failed(e).locked
          BY <3>2, <3>4, <4>3
        <5> QED  BY <1>3, <1>6, <3>2, <4>3, <5>1, FailuresLock DEF Within
      <4> QED  BY <4>2, <4>3
    <3> QED  BY <3>3, <3>4
  <2> QED  BY <2>1, <2>2
<1>9. Within(Failed(e), Cardinality(Checking(m, v)'), r)
  BY <1>6, <1>8
<1> QED  BY <1>3, <1>5, <1>8, <1>9, LimitStep

\* The entry of a key is forgotten or its times pass.
LEMMA LimitTimes ==
    ASSUME LimiterIInv, NEW n \in Node, NEW key \in LimiterKey, WindowElapses(n, key) \/ LockEnds(n, key) \/ sweep(n, key)
    PROVE  LimiterIInv'
<1> DEFINE e == limiter[n][key]
           k == Cardinality(Checking(n, key))
           r == Cardinality(Served(n))
<1>1. limiter \in [Node -> [LimiterKey -> Entry]] /\ e \in Entry /\ e.failures \in Nat /\ k \in Nat /\ r \in Nat
  BY CheckingServed, CountChecks DEF LimiterIInv, Entry
<1>2. Within(e, k, r)
  BY LimitedNow DEF LimiterIInv
<1>3. \A m \in Node, v \in LimiterKey : Checking(m, v)' = Checking(m, v)
  BY DEF WindowElapses, LockEnds, sweep, requestVars, Checking
<1>4. CASE WindowElapses(n, key)
  <2> DEFINE f == [e EXCEPT !.over = TRUE]
  <2>1. f \in Entry /\ f.failures = e.failures /\ f.locked = e.locked /\ f.over /\ limiter' = [limiter EXCEPT ![n][key] = f]
    BY <1>1, <1>4 DEF WindowElapses, Entry
  <2> HIDE DEF f, e, k, r
  <2>2. Within(f, k, r)
    BY <1>1, <1>2, <2>1 DEF Within
  <2>3. Within(f, Cardinality(Checking(n, key)'), r)
    BY <1>3, <2>2 DEF k
  <2> QED  BY <1>3, <2>1, <2>3, LimitStep DEF r
<1>5. CASE LockEnds(n, key)
  <2> DEFINE f == [e EXCEPT !.locked = FALSE]
  <2>1. f \in Entry /\ f.failures = e.failures /\ ~f.locked /\ f.over = e.over /\ e.over /\ e.locked
        /\ limiter' = [limiter EXCEPT ![n][key] = f]
    BY <1>1, <1>5 DEF LockEnds, Entry
  <2> HIDE DEF f, e, k, r
  <2>2. Within(f, k, r)
    BY <1>1, <1>2, <2>1, FailuresLock DEF Within
  <2>3. Within(f, Cardinality(Checking(n, key)'), r)
    BY <1>3, <2>2 DEF k
  <2> QED  BY <1>3, <2>1, <2>3, LimitStep DEF r
<1>6. CASE sweep(n, key)
  <2>1. NoEntry \in Entry /\ ~NoEntry.locked /\ NoEntry.failures = 0 /\ limiter' = [limiter EXCEPT ![n][key] = NoEntry]
    BY <1>6 DEF sweep, NoEntry, Entry
  <2>2. Within(NoEntry, Cardinality(Checking(n, key)'), r)
    BY <1>1, <2>1, OpenWithin
  <2> QED  BY <1>3, <2>1, <2>2, LimitStep
<1> QED  BY <1>4, <1>5, <1>6

\* A success clears the entry of its key.
LEMMA LimitSuccess ==
    ASSUME SessionIInv, LimiterIInv, NEW p \in Request, success(p)
    PROVE  LimiterIInv'
<1>1. /\ NodeOf[p] \in Node /\ limiter' = [limiter EXCEPT ![NodeOf[p]][KeyOf[loc[p].user]] = NoEntry]
      /\ KeyOf[loc[p].user] \in LimiterKey /\ loc' = loc /\ pc'[p] = "issue" /\ \A q \in Request : q # p => pc'[q] = pc[q]
  BY RequestsHaveNodes, NamesHaveKeys DEF success, At, Goto, SessionIInv, TypeOK, Carrying
<1>2. NoEntry \in Entry /\ ~NoEntry.locked /\ NoEntry.failures = 0
  BY DEF NoEntry, Entry
<1>3. \A m \in Node, v \in LimiterKey : Checking(m, v)' \subseteq Checking(m, v)
  BY <1>1 DEF Checking
<1>4. PICK n \in Node, key \in LimiterKey : n = NodeOf[p] /\ key = KeyOf[loc[p].user]
  BY <1>1
<1>5. Cardinality(Served(n)) \in Nat
  BY CheckingServed, CountChecks
<1>6. Within(NoEntry, Cardinality(Checking(n, key)'), Cardinality(Served(n)))
  BY <1>2, <1>5, OpenWithin
<1> QED  BY <1>1, <1>2, <1>3, <1>4, <1>6, LimitStep

\* A crash empties the limiter of its node and ends its requests.
LEMMA LimitCrash ==
    ASSUME SessionIInv, LimiterIInv, NEW n \in Node, Crash(n)
    PROVE  LimiterIInv'
<1>1. limiter \in [Node -> [LimiterKey -> Entry]] /\ limiter' = [limiter EXCEPT ![n] = [key \in LimiterKey |-> NoEntry]]
      /\ LoginLimited /\ NoEntry \in Entry /\ ~NoEntry.locked /\ NoEntry.failures = 0
  BY DEF LimiterIInv, Entry, Crash, NoEntry
<1>2. ASSUME NEW m \in Node, NEW v \in LimiterKey
      PROVE  Within(limiter'[m][v], Cardinality(Checking(m, v)'), Cardinality(Served(m)))
  <2>1. Cardinality(Served(m)) \in Nat
    BY CheckingServed, CountChecks
  <2>2. CASE m = n
    <3>1. limiter'[m][v] = NoEntry
      BY <1>1, <2>2
    <3> QED  BY <1>1, <2>1, <3>1, OpenWithin
  <2>3. CASE m # n
    <3>1. limiter'[m][v] = limiter[m][v]
      BY <1>1, <2>3
    <3>2. Checking(m, v)' = Checking(m, v)
      BY <2>3 DEF Crash, Checking
    <3> QED  BY <1>1, <3>1, <3>2, LimitedNow
  <2> QED  BY <2>2, <2>3
<1>3. LoginLimited'
  BY <1>2, LimitedThen
<1> QED  BY <1>1, <1>3 DEF LimiterIInv, Entry

\* Nothing has failed at the start.
LEMMA InitLimiter == Init => LimiterIInv
<1> SUFFICES ASSUME Init PROVE LimiterIInv
  OBVIOUS
<1>1. limiter = [n \in Node |-> [key \in LimiterKey |-> NoEntry]] /\ NoEntry \in Entry /\ ~NoEntry.locked /\ NoEntry.failures = 0
  BY DEF Init, NoEntry, Entry
<1>2. \A n \in Node : Cardinality(Served(n)) \in Nat
  BY CheckingServed, CountChecks
<1>3. \A n \in Node, key \in LimiterKey : Within(limiter[n][key], Cardinality(Checking(n, key)), Cardinality(Served(n)))
  BY <1>1, <1>2, OpenWithin
<1>4. limiter \in [Node -> [LimiterKey -> Entry]] /\ LoginLimited
  BY <1>1, <1>3, LimitedNow
<1> QED  BY <1>4 DEF LimiterIInv, Entry

\* Every step keeps the limiter's entries within the limit.
LEMMA NextLimiter ==
    ASSUME SessionIInv, LimiterIInv, [Next]_vars
    PROVE  LimiterIInv'
<1> USE DEF tableVars, tokenVars, requestVars, SessionIInv, TypeOK
<1>1. ASSUME NEW u \in User, Register(u) \/ AccessExpires(u) PROVE LimiterIInv'
  BY <1>1, LimitQuiet DEF Register, AccessExpires
<1>2. ASSUME NEW p \in Request, CheckPassword(p) PROVE LimiterIInv'
  BY <1>2, LimitQuiet DEF CheckPassword, At, Goto
<1>3. ASSUME NEW p \in Request, issueTokens(p) \/ DbError(p) \/ InsertCharacter(p) PROVE LimiterIInv'
  BY <1>3, LimitQuiet DEF issueTokens, DbError, InsertCharacter, Finish, Goto
<1>4. ASSUME NEW p \in Request, RotateFor(p) \/ CountCharacters(p) PROVE LimiterIInv'
  BY <1>4, LimitQuiet DEF RotateFor, CountCharacters, Finish, Goto
<1>5. ASSUME NEW p \in Request, NEW t \in Token, Refresh(p, t) PROVE LimiterIInv'
  BY <1>5, LimitQuiet DEF Refresh, Goto
<1>6. ASSUME NEW p \in Request, NEW u \in User, NEW c \in Name, CreateHandler(p, u, c) PROVE LimiterIInv'
  BY <1>6, LimitQuiet DEF CreateHandler, CreateCharacter, Goto
<1>7. ASSUME NEW t \in Token, Logout(t) \/ Expire(t) PROVE LimiterIInv'
  BY <1>7, LimitQuiet DEF Logout, Expire
<1>8. CASE UNCHANGED vars
  BY <1>8, LimitQuiet DEF vars
<1> HIDE DEF tableVars, tokenVars, requestVars, SessionIInv, TypeOK
<1> QED
  BY <1>1, <1>2, <1>3, <1>4, <1>5, <1>6, <1>7, <1>8, LimitBegin, LimitFail, LimitSuccess, LimitTimes, LimitCrash
  DEF Next

\* Between two clearings of a key's entry, a window counts no more failures than the
\* limit and the checks that were under way when the lock was set, for all spellings
\* of a name together (loginlimiter.go:51-71): for any limit, any number of nodes
\* and requests, any names that share keys, and whenever windows and locks end,
\* entries are swept and nodes crash.  Nothing is promised for one spelling, since a
\* success under another clears its failures.
THEOREM LoginsLimited == Spec => []LoginLimited
<1>1. Init => LimiterIInv
  BY InitLimiter
<1>2. SessionIInv /\ LimiterIInv /\ [Next]_vars => LimiterIInv'
  BY NextLimiter
<1>3. LimiterIInv => LoginLimited
  BY DEF LimiterIInv
<1> QED  BY <1>1, <1>2, <1>3, SessionInvariant, PTL DEF Spec
==============================================================================
