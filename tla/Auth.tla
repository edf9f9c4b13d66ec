-------------------------------- MODULE Auth --------------------------------
(***************************************************************************)
(* Accounts, logins, refresh tokens (backend/game/auth) and the creation of  *)
(* characters (backend/game/character) on several nodes that share the      *)
(* tables users, refresh_tokens and characters; the login limiter is memory *)
(* of a node.  A request is one goroutine; one step is one statement *)
(* or one critical section of the limiter.  Tokens are numbered as they are *)
(* drawn (32 random bytes never repeat) and rows are found by their hash.   *)
(* The limiter's times are kept as what has come to pass: is the window of  *)
(* an entry over, does its lock still hold.                                 *)
(***************************************************************************)
EXTENDS Integers, FiniteSets

CONSTANTS Node, Request, NodeOf,    \* NodeOf[p]: the process that serves request p
          User,                     \* usernames as they are typed; accounts have such names
          LimiterKey, KeyOf,        \* KeyOf[u]: u trimmed and in lower case
          NoUser,
          Name,                     \* names for characters
          MaxFailures,              \* failures that lock a name (5 in the code)
          MaxCharacters,            \* characters of a user (4 in the code)
          MaxTokens, MaxLogins,     \* bounds
          MaxCrashes                \* bound

ASSUME FinitelyMany == IsFiniteSet(Request) /\ IsFiniteSet(Name)
ASSUME RequestsHaveNodes == NodeOf \in [Request -> Node]
ASSUME NamesHaveKeys == KeyOf \in [User -> LimiterKey]
ASSUME NoUserIsNobody == NoUser \notin User
ASSUME FailuresLock == MaxFailures \in Nat \ {0, 1}
ASSUME LimitAllowsOne == MaxCharacters \in Nat \ {0}
ASSUME AuthBounds == MaxTokens \in Nat /\ MaxLogins \in Nat /\ MaxCrashes \in Nat

Token == 1 .. MaxTokens
Login == 1 .. MaxLogins

VARIABLES
    users,      \* registered accounts
    owner,      \* refresh_tokens: owner[t], or NoUser when t has no row
    expired,    \* tokens whose expires_at has passed
    heroes,     \* characters: heroes[c] is the user who has the one named c
    signed,     \* users who hold an access token that has not expired
    limiter,    \* limiter[n][k]: the entry of a key, or NoEntry
    pc, loc,    \* the next step of a request, and what it works with
    drawn,      \* how many tokens were drawn
    loginOf,    \* observation: the login that a token continues
    logins, crashes

tokenVars == <<owner, expired, signed>>
tableVars == <<users, heroes, tokenVars>>
requestVars == <<pc, loc>>
tokenObs == <<drawn, loginOf>>
vars == <<tableVars, limiter, requestVars, tokenObs, logins, crashes>>

NoEntry == [failures |-> 0, over |-> FALSE, locked |-> FALSE]
Session(u, right, l) == [user |-> u, right |-> right, login |-> l, name |-> NoUser]
Creation(u, c) == [user |-> u, right |-> FALSE, login |-> 0, name |-> c]
NoWork == Session(NoUser, FALSE, 0)

Init ==
    /\ users = {} /\ expired = {} /\ signed = {}
    /\ heroes = [c \in Name |-> NoUser]
    /\ owner = [t \in Token |-> NoUser]
    /\ limiter = [n \in Node |-> [k \in LimiterKey |-> NoEntry]]
    /\ pc = [p \in Request |-> "idle"]
    /\ loc = [p \in Request |-> NoWork]
    /\ drawn = 0
    /\ loginOf = [t \in Token |-> 0]
    /\ logins = 0 /\ crashes = 0

At(p, s) == pc[p] = s
Goto(p, s) == pc' = [pc EXCEPT ![p] = s]
Finish(p) == Goto(p, "idle") /\ loc' = [loc EXCEPT ![p] = NoWork]

-----------------------------------------------------------------------------

\* The table users; a name or an address that is taken meets the unique key.
Create(u) == u \notin users /\ users' = users \cup {u}
GetByUsername(u) == u \in users
GetByID(u) == u \in users

Register(u) ==
    /\ Create(u)
    /\ UNCHANGED <<heroes, tokenVars, limiter, requestVars, tokenObs, logins, crashes>>

-----------------------------------------------------------------------------
\* The login limiter, one critical section each.  Its keys are not the names that
\* accounts are looked up by: names that differ in case share an entry.

locked(n, k) == limiter[n][k].locked

Mutant_Failed_OffByOne(e) ==
    IF e = NoEntry \/ e.over
    THEN [failures |-> 1, over |-> FALSE, locked |-> FALSE]
    ELSE [e EXCEPT !.failures = @ + 1, !.locked = @ \/ e.failures >= MaxFailures]

\* A failure opens a window or counts in the one that is open.
Failed(e) ==
    IF e = NoEntry \/ e.over
    THEN [failures |-> 1, over |-> FALSE, locked |-> FALSE]
    ELSE [e EXCEPT !.failures = @ + 1, !.locked = @ \/ e.failures + 1 >= MaxFailures]

\* Time passes.  A lock is set inside a window, for as long as a window, so that
\* it ends after it.
WindowElapses(n, k) ==
    /\ limiter[n][k] # NoEntry /\ ~limiter[n][k].over
    /\ limiter' = [limiter EXCEPT ![n][k].over = TRUE]
    /\ UNCHANGED <<tableVars, requestVars, tokenObs, logins, crashes>>

LockEnds(n, k) ==
    /\ limiter[n][k].locked /\ limiter[n][k].over
    /\ limiter' = [limiter EXCEPT ![n][k].locked = FALSE]
    /\ UNCHANGED <<tableVars, requestVars, tokenObs, logins, crashes>>

sweep(n, k) ==
    /\ limiter[n][k].over /\ ~limiter[n][k].locked
    /\ limiter' = [limiter EXCEPT ![n][k] = NoEntry]
    /\ UNCHANGED <<tableVars, requestVars, tokenObs, logins, crashes>>

-----------------------------------------------------------------------------
\* Login: the limiter is asked first; the answer may be stale when it counts.

BeginLogin(p, u, right) ==
    /\ At(p, "idle") /\ logins < MaxLogins
    /\ ~locked(NodeOf[p], KeyOf[u])
    /\ logins' = logins + 1
    /\ loc' = [loc EXCEPT ![p] = Session(u, right, logins + 1)]
    /\ Goto(p, "check")
    /\ UNCHANGED <<tableVars, limiter, tokenObs, crashes>>

\* The account is looked up by the name as it was typed; an unknown name fails like
\* a wrong password.
CheckPassword(p) ==
    /\ At(p, "check")
    /\ Goto(p, IF GetByUsername(loc[p].user) /\ loc[p].right THEN "success" ELSE "fail")
    /\ UNCHANGED <<tableVars, limiter, loc, tokenObs, logins, crashes>>

\* The failure counts for the key of the name ...
fail(p) ==
    /\ At(p, "fail")
    /\ limiter' = [limiter EXCEPT ![NodeOf[p]][KeyOf[loc[p].user]] = Failed(@)]
    /\ Finish(p)
    /\ UNCHANGED <<tableVars, tokenObs, logins, crashes>>

\* ... and a success clears it, with the failures of every name that has this key.
success(p) ==
    /\ At(p, "success")
    /\ limiter' = [limiter EXCEPT ![NodeOf[p]][KeyOf[loc[p].user]] = NoEntry]
    /\ Goto(p, "issue")
    /\ UNCHANGED <<tableVars, loc, tokenObs, logins, crashes>>

newRefreshToken == drawn + 1
Save(t, u) == owner' = [owner EXCEPT ![t] = u]

\* The access token is signed, not stored; the refresh token is.
issueTokens(p) ==
    /\ At(p, "issue") /\ drawn < MaxTokens
    /\ drawn' = newRefreshToken
    /\ Save(newRefreshToken, loc[p].user)
    /\ loginOf' = [loginOf EXCEPT ![newRefreshToken] = loc[p].login]
    /\ signed' = signed \cup {loc[p].user}
    /\ Finish(p)
    /\ UNCHANGED <<users, heroes, expired, limiter, logins, crashes>>

-----------------------------------------------------------------------------
\* Refresh and Logout, with any token that was ever handed out.

Mutant_Consume_KeepsRow(t) == owner[t] # NoUser /\ t \notin expired /\ UNCHANGED owner

\* DELETE ... RETURNING: one of several callers gets the row.
Consume(t) ==
    /\ owner[t] # NoUser /\ t \notin expired
    /\ owner' = [owner EXCEPT ![t] = NoUser]

\* DELETE; revoking a token that has no row is no error.
Delete(t) == owner' = [owner EXCEPT ![t] = NoUser]

\* A token without a row, or an expired one, is refused.
Refresh(p, t) ==
    /\ At(p, "idle") /\ t <= drawn
    /\ Consume(t)
    /\ loc' = [loc EXCEPT ![p] = Session(owner[t], FALSE, loginOf[t])]
    /\ Goto(p, "owner")
    /\ UNCHANGED <<users, heroes, expired, signed, limiter, tokenObs, logins, crashes>>

RotateFor(p) ==
    /\ At(p, "owner")
    /\ IF GetByID(loc[p].user) THEN Goto(p, "issue") /\ UNCHANGED loc ELSE Finish(p)
    /\ UNCHANGED <<tableVars, limiter, tokenObs, logins, crashes>>

Logout(t) ==
    /\ t <= drawn
    /\ Delete(t)
    /\ UNCHANGED <<users, heroes, expired, signed, limiter, requestVars, tokenObs, logins, crashes>>

Expire(t) ==
    /\ t <= drawn /\ t \notin expired
    /\ expired' = expired \cup {t}
    /\ UNCHANGED <<users, heroes, owner, signed, limiter, requestVars, tokenObs, logins, crashes>>

\* The last access token of u expires; a logout does not take it back.
AccessExpires(u) ==
    /\ u \in signed
    /\ signed' = signed \ {u}
    /\ UNCHANGED <<users, heroes, owner, expired, limiter, requestVars, tokenObs, logins, crashes>>

-----------------------------------------------------------------------------
\* Creating a character.

Owned(u) == {c \in Name : heroes[c] = u}

AuthMiddleware(u) == u \in signed

\* The service, for a valid name and class whose stats could be calculated.
CreateCharacter(p, u, c) ==
    /\ loc' = [loc EXCEPT ![p] = Creation(u, c)]
    /\ Goto(p, "count")

CreateHandler(p, u, c) ==
    /\ At(p, "idle") /\ AuthMiddleware(u)
    /\ CreateCharacter(p, u, c)
    /\ UNCHANGED <<tableVars, limiter, tokenObs, logins, crashes>>

Mutant_BelowLimit_OffByOne(u) == Cardinality(Owned(u)) <= MaxCharacters

BelowLimit(u) == Cardinality(Owned(u)) < MaxCharacters

\* SELECT COUNT(*) takes no lock and sees what is committed.
CountCharacters(p) ==
    /\ At(p, "count")
    /\ IF BelowLimit(loc[p].user) THEN Goto(p, "insert") /\ UNCHANGED loc ELSE Finish(p)
    /\ UNCHANGED <<tableVars, limiter, tokenObs, logins, crashes>>

\* Character and stats, committed together; a name that is taken is refused.
InsertCharacter(p) ==
    /\ At(p, "insert")
    /\ heroes' = IF heroes[loc[p].name] = NoUser
                 THEN [heroes EXCEPT ![loc[p].name] = loc[p].user] ELSE heroes
    /\ Finish(p)
    /\ UNCHANGED <<users, tokenVars, limiter, tokenObs, logins, crashes>>

-----------------------------------------------------------------------------
\* A statement fails and the request with it; a consumed token is gone.
DbError(p) ==
    /\ pc[p] \in {"check", "owner", "issue", "count", "insert"}
    /\ Finish(p)
    /\ UNCHANGED <<tableVars, limiter, tokenObs, logins, crashes>>

Crash(n) ==
    /\ crashes < MaxCrashes /\ crashes' = crashes + 1
    /\ limiter' = [limiter EXCEPT ![n] = [k \in LimiterKey |-> NoEntry]]
    /\ pc' = [p \in Request |-> IF NodeOf[p] = n THEN "idle" ELSE pc[p]]
    /\ loc' = [p \in Request |-> IF NodeOf[p] = n THEN NoWork ELSE loc[p]]
    /\ UNCHANGED <<tableVars, tokenObs, logins>>

Next ==
    \/ \E u \in User : Register(u) \/ AccessExpires(u)
    \/ \E n \in Node, k \in LimiterKey : WindowElapses(n, k) \/ LockEnds(n, k) \/ sweep(n, k)
    \/ \E p \in Request :
        \/ \E u \in User, right \in BOOLEAN : BeginLogin(p, u, right)
        \/ CheckPassword(p) \/ fail(p) \/ success(p) \/ issueTokens(p) \/ RotateFor(p)
        \/ \E t \in Token : Refresh(p, t)
        \/ \E u \in User, c \in Name : CreateHandler(p, u, c)
        \/ CountCharacters(p) \/ InsertCharacter(p)
        \/ DbError(p)
    \/ \E t \in Token : Logout(t) \/ Expire(t)
    \/ \E n \in Node : Crash(n)

Spec == Init /\ [][Next]_vars

-----------------------------------------------------------------------------

Work == [user : User \cup {NoUser}, right : BOOLEAN, login : 0 .. MaxLogins, name : Name \cup {NoUser}]

TypeOK ==
    /\ users \subseteq User /\ signed \subseteq User /\ expired \subseteq Token
    /\ owner \in [Token -> User \cup {NoUser}]
    /\ heroes \in [Name -> User \cup {NoUser}]
    /\ pc \in [Request -> {"idle", "check", "fail", "success", "issue", "owner", "count", "insert"}]
    /\ loc \in [Request -> Work]
    /\ drawn \in 0 .. MaxTokens
    /\ loginOf \in [Token -> 0 .. MaxLogins]
    /\ logins \in 0 .. MaxLogins

\* A login has one carrier: a request that works on it, or a token with a row.
Carrying(p) == pc[p] \in {"check", "fail", "success", "owner", "issue"}
Stored(t) == owner[t] # NoUser

SessionIInv ==
    /\ TypeOK
    /\ \A p \in Request : Carrying(p) => loc[p].login \in 1 .. logins /\ loc[p].user \in User
    /\ \A p \in Request : pc[p] \in {"success", "owner", "issue"} => loc[p].user \in users
    /\ \A p, q \in Request : Carrying(p) /\ Carrying(q) /\ loc[p].login = loc[q].login => p = q
    /\ \A t \in Token : Stored(t) =>
            t <= drawn /\ owner[t] \in users /\ loginOf[t] \in 1 .. logins
    /\ \A t \in Token, p \in Request : Stored(t) /\ Carrying(p) => loc[p].login # loginOf[t]
    /\ \A t, u \in Token : Stored(t) /\ Stored(u) /\ loginOf[t] = loginOf[u] => t = u

Continuing(l) == {p \in Request : pc[p] \in {"owner", "issue"} /\ loc[p].login = l}
Alive(l) == {t \in Token : owner[t] # NoUser /\ loginOf[t] = l}

\* A login goes on through one refresh token at a time: tokens are single-use and
\* rotated, so refreshes of one token that overlap, on one node or on two, and
\* retries never make two sessions out of one (service.go:136-151,
\* refresh.go:20-22); and a session that has ended stays ended.
OneSessionPerLogin ==
    /\ \A l \in Login : Cardinality(Alive(l)) + Cardinality(Continuing(l)) <= 1
    /\ \A t \in Token : owner[t] # NoUser => owner[t] \in users /\ loginOf[t] \in 1 .. logins

Checking(n, k) ==
    {p \in Request : NodeOf[p] = n /\ pc[p] \in {"check", "fail"} /\ KeyOf[loc[p].user] = k}

\* However many logins overlap, under whatever spellings of a name: from the time
\* the entry of a key is opened or cleared, a window counts no more failures than
\* the limit and those that were under way when the lock was set, and a count
\* that is at the limit is locked as long as its window lasts (loginlimiter.go:51-71).
\* It bounds the failures between two clearings, for all names of the key
\* together: a success under one of them clears the failures of the others.
LoginLimited ==
    \A n \in Node, k \in LimiterKey :
        LET e == limiter[n][k] IN
        /\ e.failures >= MaxFailures => e.locked \/ e.over
        /\ e.failures + (IF e.locked THEN Cardinality(Checking(n, k)) ELSE 0)
             <= MaxFailures + Cardinality({p \in Request : NodeOf[p] = n}) - 1

\* What the limiter keeps, and that it stays within the limit, for the proofs.
LimiterIInv ==
    /\ limiter \in [Node -> [LimiterKey -> [failures : Nat, over : BOOLEAN, locked : BOOLEAN]]]
    /\ LoginLimited

Creating(u) == {p \in Request : At(p, "insert") /\ loc[p].user = u}

\* "Check character limit (max 4 per user)" (character/repository.go:26): the
\* count is not locked, so requests that counted before any of them inserted all
\* pass; a user gets no further over the limit than by those, and the excess
\* never grows from one burst to the next.
CharactersLimitedUpToOverlap ==
    \A u \in User :
        Cardinality(Owned(u)) + Cardinality(Creating(u))
            <= MaxCharacters + Cardinality(Request) - 1
=============================================================================
