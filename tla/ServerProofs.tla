---------------------------- MODULE ServerProofs ----------------------------
(***************************************************************************)
(* Around the pipelines of the server: the accounts, the specialists as    *)
(* processes and the supervision of the workers.                           *)
(***************************************************************************)
EXTENDS Accounts, SpecialistHealth, Supervisor, FiniteSetTheorems, TLAPS

-----------------------------------------------------------------------------
(***************************************************************************)
(* The accounts, for any number of calls, emails and passwords: who a      *)
(* handler serves has proven who they are, accounts stay, and with         *)
(* Badger's conflict detection on an email has one account.                *)
(***************************************************************************)
\* u is the user of an account of e.
Account(u, e) ==
  /\ u \in Calls
  /\ call[u].stage # "idle" /\ call[u].kind = "Register"
  /\ call[u].email = e /\ call[u].password \in ValidPasswords

\* What each stage of a call knows: a Register call before its commit acts for
\* the user it made, a call with a stored user acts for an account of its
\* email, and one that may sign has given that account's password.
CallInv ==
  \A c \in Calls :
    /\ call[c].stage \in {"create", "commit"} =>
         /\ call[c].kind = "Register" /\ call[c].user = c
         /\ call[c].email \in Emails /\ call[c].password \in ValidPasswords
    /\ call[c].stage = "compare" => call[c].kind = "Login"
    /\ call[c].stage \in {"compare", "sign", "done"} => Account(call[c].user, call[c].email)
    /\ call[c].stage \in {"sign", "done"} => call[call[c].user].password = call[c].password

\* The keys lead to accounts of their email.
UsersInv == \A e \in Emails : users[e] # None => Account(users[e], e)

\* A token carries the user of the call it was given to.
TokenInv ==
  \A c \in Calls : token[c] # None =>
    /\ call[c].stage = "done" /\ token[c].user = call[c].user
    /\ token[c].expires = token[c].issued + TokenDuration

AccountsInv == AccountsTypeOK /\ CallInv /\ UsersInv /\ TokenInv /\ IdentityIsProven

-----------------------------------------------------------------------------
\* NewUserRepository starts with no account, no call and no token.
LEMMA InitAccountsInv == AccountsInit => AccountsInv
BY AccountsAssumption
   DEF AccountsInit, AccountsInv, AccountsTypeOK, Call, Stage, CallInv, UsersInv, TokenInv, IdentityIsProven, Account

\* Every step keeps the types.
LEMMA AccountsTypeStep == AccountsTypeOK /\ CallInv /\ [AccountsNext]_stateVars => AccountsTypeOK'
<1> SUFFICES ASSUME AccountsTypeOK, CallInv, [AccountsNext]_stateVars PROVE AccountsTypeOK'
  OBVIOUS
<1> USE AccountsAssumption DEF AccountsTypeOK, Call, Stage, accountVars, clockVars
<1>1. CASE \E c \in Calls : CallStep(c)
  <2> PICK c \in Calls : CallStep(c)
    BY <1>1
  <2>1. CASE \E e \in Emails, p \in Passwords : Register(c, e, p) \/ Login(c, e, p)
    BY <2>1 DEF Register, Login, Begin
  <2>2. CASE GetKey(c)
    BY <2>2 DEF GetKey, Goto
  <2>3. CASE Commit(c)
    BY <2>3 DEF Commit, Goto
  <2>4. CASE ComparePassword(c)
    BY <2>4 DEF ComparePassword, Goto
  <2>5. ASSUME NEW ok \in BOOLEAN, GenerateToken(c, ok) PROVE AccountsTypeOK'
    <3>1. NewClaims(c) \in Claims
      BY <2>5 DEF GenerateToken, NewClaims, Claims, CallInv, Account
    <3> QED
      BY <2>5, <3>1 DEF GenerateToken, Goto
  <2> QED
    BY <2>1, <2>2, <2>3, <2>4, <2>5, Zenon DEF CallStep
<1>2. CASE \E bearer \in Calls \cup {None} : AuthInterceptor(bearer)
  BY <1>2 DEF AuthInterceptor, Admits, ValidateToken, UserID, Claims, Request, publicMethods
<1>3. CASE Tick
  BY <1>3 DEF Tick
<1>4. CASE UNCHANGED stateVars
  BY <1>4 DEF stateVars
<1> QED
  BY <1>1, <1>2, <1>3, <1>4, Zenon DEF AccountsNext

\* A call that has begun keeps its arguments and its user.
Kept(c) ==
  /\ call'[c].stage # "idle"
  /\ call'[c].kind = call[c].kind /\ call'[c].email = call[c].email
  /\ call'[c].password = call[c].password /\ call'[c].user = call[c].user

\* The step of a call from stage to stage, which leaves the other calls alone.
LEMMA GotoKeeps ==
  ASSUME AccountsTypeOK, NEW c \in Calls, NEW stage \in Stage \ {"idle"}, Goto(c, stage),
         call[c].stage # "idle"
  PROVE  /\ call'[c].stage = stage /\ Kept(c)
         /\ \A d \in Calls \ {c} : call'[d] = call[d]
BY DEF AccountsTypeOK, Call, Goto, Kept

\* The first step of a call, which leaves the other calls alone.
LEMMA BeginKeeps ==
  ASSUME AccountsTypeOK, NEW c \in Calls, NEW e \in Emails, NEW p \in Passwords,
         Register(c, e, p) \/ Login(c, e, p)
  PROVE  /\ call[c].stage = "idle" /\ \A d \in Calls \ {c} : call'[d] = call[d]
         /\ UNCHANGED <<users, stale, token, clockVars>>
         /\ call'[c].stage \in {"create", "compare", "failed"}
         /\ call'[c].stage = "create" =>
              /\ call'[c].kind = "Register" /\ call'[c].user = c
              /\ call'[c].email \in Emails /\ call'[c].password \in ValidPasswords
         /\ call'[c].stage = "compare" =>
              /\ call'[c].kind = "Login" /\ call'[c].user = users[e]
              /\ call'[c].email = e /\ users[e] # None
<1>1. CASE Register(c, e, p)
  BY <1>1 DEF AccountsTypeOK, Register, Begin
<1>2. CASE Login(c, e, p)
  BY <1>2 DEF AccountsTypeOK, Login, Begin
<1> QED
  BY <1>1, <1>2, Zenon

\* No step of a call takes an account away.
LEMMA AccountsLast ==
  ASSUME NEW c \in Calls, \A d \in Calls \ {c} : call'[d] = call[d],
         call[c].stage = "idle" \/ Kept(c)
  PROVE  /\ \A u, e : Account(u, e) => Account(u, e)'
         /\ \A u, e : Account(u, e) => call'[u].password = call[u].password
BY DEF Account, Kept

\* A step of a call that gives no token: what is known of the tokens and of the
\* last request stays true.
LEMMA TokensLast ==
  ASSUME AccountsInv, NEW c \in Calls, \A d \in Calls \ {c} : call'[d] = call[d],
         call[c].stage = "idle" \/ (Kept(c) /\ call[c].stage # "done"),
         UNCHANGED <<token, clockVars>>
  PROVE  TokenInv' /\ IdentityIsProven'
<1> USE DEF AccountsInv, clockVars
<1>1. token[c] = None
  BY DEF TokenInv, Kept
<1>2. \A d \in Calls : token[d] # None => call'[d] = call[d]
  BY <1>1
<1>3. TokenInv'
  BY <1>2 DEF TokenInv
<1>4. \A u : \A d \in Calls : token[d] # None /\ Proven(d, u) /\ token[d].user = u => Proven(d, u)'
  <2> TAKE u
  <2> TAKE d \in Calls
  <2> HAVE token[d] # None /\ Proven(d, u) /\ token[d].user = u
  <2>1. call[d].stage = "done" /\ call[d].user = u /\ Account(u, call[d].email)
    BY DEF TokenInv, CallInv
  <2>2. Account(u, call[d].email)' /\ call'[u].password = call[u].password
    BY <2>1, <1>2, AccountsLast
  <2> QED
    BY <1>2, <2>2 DEF Proven, Account
<1>5. IdentityIsProven'
  BY <1>4 DEF IdentityIsProven
<1> QED
  BY <1>3, <1>5

\* The first step of a call.
LEMMA BeginInv ==
  ASSUME AccountsInv, NEW c \in Calls, NEW e \in Emails, NEW p \in Passwords,
         Register(c, e, p) \/ Login(c, e, p)
  PROVE  CallInv' /\ UsersInv' /\ TokenInv' /\ IdentityIsProven'
<1> USE DEF AccountsInv
<1>1. /\ call[c].stage = "idle" /\ \A d \in Calls \ {c} : call'[d] = call[d]
      /\ UNCHANGED <<users, token, clockVars>>
  BY BeginKeeps
<1>2. /\ call'[c].stage \in {"create", "compare", "failed"}
      /\ call'[c].stage = "create" =>
           /\ call'[c].kind = "Register" /\ call'[c].user = c
           /\ call'[c].email \in Emails /\ call'[c].password \in ValidPasswords
      /\ call'[c].stage = "compare" =>
           /\ call'[c].kind = "Login" /\ call'[c].user = users[e]
           /\ call'[c].email = e /\ users[e] # None
  BY BeginKeeps
<1>3. \A u, f : Account(u, f) => Account(u, f)' /\ call'[u].password = call[u].password
  BY <1>1, AccountsLast, Zenon
<1>4. TokenInv' /\ IdentityIsProven'
  BY <1>1, TokensLast
<1>5. UsersInv'
  BY <1>1, <1>3 DEF UsersInv
<1>6. CallInv'
  <2> SUFFICES ASSUME NEW d \in Calls PROVE CallInv!(d)'
    BY Zenon DEF CallInv
  <2>1. CASE d # c
    BY <2>1, <1>1, <1>3 DEF CallInv, Account
  <2>2. CASE d = c
    BY <2>2, <1>2, <1>3, Zenon DEF UsersInv
  <2> QED
    BY <2>1, <2>2, Zenon
<1> QED
  BY <1>4, <1>5, <1>6

\* A later step of a call.
LEMMA StageInv ==
  ASSUME AccountsInv, NEW c \in Calls,
         GetKey(c) \/ Commit(c) \/ ComparePassword(c) \/ \E ok \in BOOLEAN : GenerateToken(c, ok)
  PROVE  CallInv' /\ UsersInv' /\ TokenInv' /\ IdentityIsProven'
<1> USE DEF AccountsInv
<1>1. /\ call[c].stage \in {"create", "commit", "compare", "sign"}
      /\ Kept(c) /\ \A d \in Calls \ {c} : call'[d] = call[d]
      /\ \/ call'[c].stage = "failed"
         \/ call[c].stage = "create" /\ call'[c].stage = "commit"
         \/ call[c].stage = "commit" /\ call'[c].stage = "sign"
         \/ call[c].stage = "compare" /\ call'[c].stage = "sign" /\ Match(c)
         \/ call[c].stage = "sign" /\ call'[c].stage = "done"
  BY GotoKeeps, Zenon DEF GetKey, Commit, ComparePassword, GenerateToken, Stage
<1>2. \A u, e : Account(u, e) => Account(u, e)' /\ call'[u].password = call[u].password
  BY <1>1, AccountsLast
<1>3. call[c].stage = "commit" => Account(c, call[c].email)
  BY <1>1, Zenon DEF CallInv, Account
<1>4. CallInv'
  <2> SUFFICES ASSUME NEW d \in Calls PROVE CallInv!(d)'
    BY SMTT(30) DEF CallInv
  <2>1. CASE d # c
    BY <2>1, <1>1, <1>2, SMTT(30) DEF CallInv, Account
  <2>2. CASE d = c
    BY <2>2, <1>1, <1>2, <1>3 DEF CallInv, Match, Kept
  <2> QED
    BY <2>1, <2>2, Zenon
<1>5. UsersInv'
  <2>1. CASE UNCHANGED users
    BY <2>1, <1>2, Zenon DEF UsersInv
  <2>2. CASE call[c].stage = "commit" /\ users' = [users EXCEPT ![call[c].email] = c]
    BY <2>2, <1>2, <1>3, Zenon DEF UsersInv, AccountsTypeOK
  <2> QED
    BY <2>1, <2>2, Zenon DEF GetKey, Commit, ComparePassword, GenerateToken
<1>6. CASE GetKey(c) \/ Commit(c) \/ ComparePassword(c)
  <2>1. UNCHANGED <<token, clockVars>>
    BY <1>6, Zenon DEF GetKey, Commit, ComparePassword
  <2> QED
    BY <2>1, <1>1, <1>4, <1>5, TokensLast, Zenon
<1>7. ASSUME NEW ok \in BOOLEAN, GenerateToken(c, ok) PROVE TokenInv' /\ IdentityIsProven'
  <2>1. /\ UNCHANGED <<now, served>> /\ call[c].stage = "sign"
        /\ token' = [token EXCEPT ![c] = IF ok THEN NewClaims(c) ELSE None]
        /\ call'[c].stage = IF ok THEN "done" ELSE "failed"
    BY <1>7, GotoKeeps, Zenon DEF GenerateToken, clockVars, Stage
  <2>2. token[c] = None
    BY <2>1 DEF TokenInv
  <2>3. \A d \in Calls : token[d] # None => d # c /\ token'[d] = token[d] /\ call'[d] = call[d]
    BY <2>1, <2>2, <1>1, Zenon DEF AccountsTypeOK
  <2>4. TokenInv'
    <3> SUFFICES ASSUME NEW d \in Calls, token'[d] # None PROVE TokenInv!(d)'
      BY Zenon DEF TokenInv
    <3>1. CASE d # c
      BY <3>1, <2>1, <2>3 DEF AccountsTypeOK, TokenInv
    <3>2. CASE d = c
      BY <3>2, <2>1, <1>1, Zenon DEF AccountsTypeOK, NewClaims, Kept
    <3> QED
      BY <3>1, <3>2, Zenon
  <2>5. \A u : \A d \in Calls : token[d] # None /\ Proven(d, u) /\ token[d].user = u => Proven(d, u)'
    <3> TAKE u
    <3> TAKE d \in Calls
    <3> HAVE token[d] # None /\ Proven(d, u) /\ token[d].user = u
    <3>1. call[d].stage = "done" /\ call[d].user = u /\ Account(u, call[d].email)
      BY DEF TokenInv, CallInv
    <3>2. Account(u, call[d].email)' /\ call'[u].password = call[u].password
      BY <3>1, <2>3, <1>2, SMTT(30)
    <3> QED
      BY <2>3, <3>2, Zenon DEF Proven, Account
  <2>6. IdentityIsProven'
    BY <2>1, <2>3, <2>5, Zenon DEF IdentityIsProven
  <2> QED
    BY <2>4, <2>6
<1> QED
  BY <1>4, <1>5, <1>6, <1>7

\* The types, calls, accounts and tokens support each other at every step.
LEMMA NextAccountsInv == AccountsInv /\ [AccountsNext]_stateVars => AccountsInv'
<1> SUFFICES ASSUME AccountsInv, [AccountsNext]_stateVars PROVE AccountsInv'
  OBVIOUS
<1> USE DEF AccountsInv
<1>1. AccountsTypeOK'
  BY AccountsTypeStep
<1>2. CASE \E c \in Calls : CallStep(c)
  BY <1>1, <1>2, BeginInv, StageInv DEF CallStep
<1>3. ASSUME NEW bearer \in Calls \cup {None}, AuthInterceptor(bearer) PROVE AccountsInv'
  <2>1. UNCHANGED <<users, call, stale, token, now>>
    BY <1>3, SMTT(30) DEF AuthInterceptor, accountVars
  <2>2. CallInv' /\ UsersInv' /\ TokenInv'
    BY <2>1, SMTT(30) DEF CallInv, UsersInv, TokenInv, Account
  <2>3. IdentityIsProven'
    <3> SUFFICES ASSUME AuthEnabled PROVE IdentityIsProven'
      BY Zenon DEF IdentityIsProven
    <3>1. /\ bearer \in Calls /\ token[bearer] # None /\ now < token[bearer].expires
          /\ served' = [user |-> token[bearer].user, at |-> now]
      BY <1>3, SMTT(30) DEF AuthInterceptor, Admits, publicMethods, ValidateToken, UserID
    <3>2. Proven(bearer, token[bearer].user)
      BY <3>1 DEF TokenInv, CallInv, Account, Proven
    <3>3. now < token[bearer].issued + TokenDuration
      BY <3>1, Zenon DEF TokenInv
    <3>4. served'.user = token[bearer].user /\ served'.at = now
      BY <3>1
    <3>5. Proven(bearer, served.user)'
      BY <2>1, <3>2, <3>4, Zenon DEF Proven
    <3>6. /\ token'[bearer] # None /\ token'[bearer].user = served'.user
          /\ served'.at < token'[bearer].issued + TokenDuration
      BY <2>1, <3>1, <3>3, <3>4, Zenon
    <3> QED
      BY <3>1, <3>5, <3>6, Zenon DEF IdentityIsProven
  <2> QED
    BY <1>1, <2>2, <2>3
<1>4. CASE Tick \/ UNCHANGED stateVars
  <2>1. UNCHANGED <<users, call, token, served>>
    BY <1>4, SMTT(30) DEF Tick, stateVars, accountVars, clockVars
  <2>2. CallInv' /\ UsersInv'
    BY <2>1 DEF CallInv, UsersInv, Account
  <2>3. TokenInv'
    BY <2>1 DEF TokenInv
  <2>4. IdentityIsProven'
    BY <2>1, Zenon DEF IdentityIsProven, Proven
  <2> QED
    BY <1>1, <2>2, <2>3, <2>4
<1> QED
  BY <1>2, <1>3, <1>4 DEF AccountsNext

\* With authentication on, the interceptor calls the handler of a protected
\* method only for a user whose email and password a call has given, and only
\* for the duration of a token after that.
THEOREM IdentityProven == AccountsSpec => []IdentityIsProven
BY InitAccountsInv, NextAccountsInv, PTL DEF AccountsSpec, AccountsInv

-----------------------------------------------------------------------------
\* A transaction whose key was taken after it looked is stale.
StaleInv ==
  \A c \in Calls : call[c].stage = "commit" /\ users[call[c].email] # None => c \in stale

\* Who has registered still holds the key; this needs the conflict detection.
HolderInv == \A c \in Calls : Registers(c) => users[call[c].email] = c

\* A step keeps what is known of stale transactions.
LEMMA StaleStep == AccountsInv /\ StaleInv /\ [AccountsNext]_stateVars => StaleInv'
<1> SUFFICES ASSUME AccountsInv, StaleInv, [AccountsNext]_stateVars, NEW d \in Calls,
                    call'[d].stage = "commit", users'[call'[d].email] # None
             PROVE  d \in stale'
  BY Zenon DEF StaleInv
<1> USE DEF AccountsInv
<1>1. ASSUME NEW c \in Calls, NEW e \in Emails, NEW p \in Passwords,
             Register(c, e, p) \/ Login(c, e, p)
      PROVE  d \in stale'
  <2>1. call'[c].stage # "commit" /\ \A b \in Calls \ {c} : call'[b] = call[b]
    BY <1>1, BeginKeeps, Zenon
  <2>2. UNCHANGED <<users, stale>> /\ d # c
    BY <2>1, <1>1, BeginKeeps, Zenon
  <2> QED
    BY <2>1, <2>2 DEF StaleInv
<1>2. ASSUME NEW c \in Calls, GetKey(c) PROVE d \in stale'
  <2>1. /\ Kept(c) /\ \A b \in Calls \ {c} : call'[b] = call[b]
        /\ call'[c].stage = "commit" => ~Taken(call[c].email)
    BY <1>2, GotoKeeps DEF GetKey, Stage
  <2>2. UNCHANGED <<users, stale>>
    BY <1>2 DEF GetKey
  <2>3. CASE d = c
    BY <2>1, <2>2, <2>3, Zenon DEF Taken, Kept
  <2>4. CASE d # c
    BY <2>1, <2>2, <2>4, SMTT(30) DEF StaleInv
  <2> QED
    BY <2>3, <2>4, SMTT(30)
<1>3. ASSUME NEW c \in Calls, Commit(c) PROVE d \in stale'
  <2>1. Kept(c) /\ call'[c].stage # "commit" /\ \A b \in Calls \ {c} : call'[b] = call[b]
    BY <1>3, GotoKeeps DEF Commit, Stage
  <2>2. d # c /\ call[d].stage = "commit" /\ call'[d].email = call[d].email
    BY <2>1, Zenon
  <2>3. CASE users'[call[d].email] = users[call[d].email] /\ stale \subseteq stale'
    BY <2>2, <2>3, SMTT(30) DEF StaleInv
  <2>4. CASE users' = [users EXCEPT ![call[c].email] = c] /\ call[d].email # call[c].email
    BY <2>2, <2>4, <1>3, SMTT(30) DEF StaleInv, Commit, AccountsTypeOK
  <2>5. CASE ~(DetectConflicts /\ c \in stale) /\ call[d].email = call[c].email
    BY <2>2, <2>5, <1>3, Zenon DEF Commit
  <2> QED
    BY <2>3, <2>4, <2>5, <1>3, Zenon DEF Commit
<1>4. ASSUME NEW c \in Calls, ComparePassword(c) \/ \E ok \in BOOLEAN : GenerateToken(c, ok)
      PROVE  d \in stale'
  <2>1. Kept(c) /\ call'[c].stage # "commit" /\ \A b \in Calls \ {c} : call'[b] = call[b]
    BY <1>4, GotoKeeps DEF ComparePassword, GenerateToken, Stage
  <2> QED
    BY <2>1, <1>4, Zenon DEF ComparePassword, GenerateToken, StaleInv
<1>5. CASE UNCHANGED accountVars
  BY <1>5 DEF accountVars, StaleInv
<1> QED
  BY <1>1, <1>2, <1>3, <1>4, <1>5, Zenon DEF AccountsNext, CallStep, AuthInterceptor, Tick, stateVars

\* CreateUser writes over an account only when it looked for the key before
\* that account was there, and never if Badger detects the conflict.
THEOREM AccountsAreKept == AccountsSpec => AccountsStay
<1>1. AccountsInit => StaleInv
  BY DEF AccountsInit, StaleInv
<1>2. AccountsInv /\ StaleInv /\ [AccountsNext]_stateVars =>
        [\A e \in Emails :
           users[e] # None => users'[e] = users[e] \/ (users'[e] \in stale /\ ~DetectConflicts)]_stateVars
  <2> SUFFICES ASSUME AccountsInv, StaleInv, [AccountsNext]_stateVars, NEW e \in Emails, users[e] # None,
                      users'[e] # users[e]
               PROVE  users'[e] \in stale /\ ~DetectConflicts
    OBVIOUS
  <2>1. PICK c \in Calls : Commit(c)
    BY Zenon DEF AccountsNext, CallStep, Register, Login, Begin, GetKey, ComparePassword, GenerateToken,
           AuthInterceptor, Tick, stateVars, accountVars
  <2>2. /\ call[c].stage = "commit" /\ ~(DetectConflicts /\ c \in stale)
        /\ users' = [users EXCEPT ![call[c].email] = c]
    BY <2>1, Zenon DEF Commit
  <2>3. call[c].email = e /\ users'[e] = c
    BY <2>2 DEF AccountsInv, AccountsTypeOK
  <2> QED
    BY <2>2, <2>3 DEF StaleInv
<1> QED
  BY <1>1, <1>2, InitAccountsInv, NextAccountsInv, StaleStep, PTL DEF AccountsSpec, AccountsStay

\* One email, one account: what cmd/master loses by turning DetectConflicts
\* off, the option alone would give.
THEOREM DetectionMakesUnique ==
  ASSUME DetectConflicts
  PROVE  AccountsSpec => []EmailIsUnique
<1>1. AccountsInit => StaleInv /\ HolderInv
  BY DEF AccountsInit, StaleInv, HolderInv, Registers
<1>2. AccountsInv /\ StaleInv /\ HolderInv /\ [AccountsNext]_stateVars => HolderInv'
  <2> SUFFICES ASSUME AccountsInv, StaleInv, HolderInv, [AccountsNext]_stateVars, NEW d \in Calls, Registers(d)'
               PROVE  users'[call'[d].email] = d
    BY SMTT(30) DEF HolderInv
  <2> USE DEF AccountsInv
  <2>1. ASSUME NEW c \in Calls, NEW e \in Emails, NEW p \in Passwords,
               Register(c, e, p) \/ Login(c, e, p)
        PROVE  users'[call'[d].email] = d
    <3>1. ~Registers(c)' /\ \A b \in Calls \ {c} : call'[b] = call[b]
      BY <2>1, BeginKeeps, Zenon DEF Registers
    <3> QED
      BY <3>1, <2>1, BeginKeeps, SMTT(30) DEF HolderInv, Registers
  <2>2. ASSUME NEW c \in Calls, Commit(c) PROVE users'[call'[d].email] = d
    <3>1. Kept(c) /\ \A b \in Calls \ {c} : call'[b] = call[b]
      BY <2>2, GotoKeeps, Zenon DEF Commit, Stage
    <3>2. CASE c \in stale
      <4>1. call'[c].stage = "failed" /\ UNCHANGED users
        BY <2>2, <3>2, GotoKeeps, Zenon DEF Commit, Stage
      <4> QED
        BY <4>1, <3>1, SMTT(30) DEF HolderInv, Registers
    <3>3. CASE c \notin stale
      <4>1. users' = [users EXCEPT ![call[c].email] = c] /\ users[call[c].email] = None
        BY <2>2, <3>3, Zenon DEF Commit, StaleInv
      <4>2. CASE d = c
        <5>1. call[c].email \in Emails
          BY <2>2, SMTT(30) DEF Commit, CallInv
        <5> QED
          BY <4>1, <4>2, <3>1, <5>1, SMTT(30) DEF Kept, AccountsTypeOK
      <4>3. CASE d # c
        BY <4>1, <4>3, <3>1, AccountsAssumption DEF HolderInv, Registers, AccountsTypeOK
      <4> QED
        BY <4>2, <4>3, Zenon
    <3> QED
      BY <3>2, <3>3
  <2>3. ASSUME NEW c \in Calls,
               GetKey(c) \/ ComparePassword(c) \/ \E ok \in BOOLEAN : GenerateToken(c, ok)
        PROVE  users'[call'[d].email] = d
    <3>1. /\ Kept(c) /\ UNCHANGED users /\ \A b \in Calls \ {c} : call'[b] = call[b]
          /\ call'[c].stage \in {"sign", "done"} =>
               call[c].stage = "sign" \/ call[c].kind = "Login"
      <4>1. Kept(c) /\ UNCHANGED users /\ \A b \in Calls \ {c} : call'[b] = call[b]
        BY <2>3, GotoKeeps, Zenon DEF GetKey, ComparePassword, GenerateToken, Stage
      <4>2. CASE GetKey(c)
        <5>1. PICK st \in {"failed", "commit"} : Goto(c, st)
          BY <4>2 DEF GetKey
        <5>2. call[c].stage # "idle"
          BY <4>2 DEF GetKey
        <5>3. call'[c].stage = st
          BY <5>1, <5>2, GotoKeeps, Zenon DEF Stage
        <5> QED
          BY <4>1, <5>3, Zenon
      <4>3. CASE ComparePassword(c)
        <5>1. call[c].kind = "Login"
          BY <4>3, Zenon DEF ComparePassword, CallInv
        <5> QED
          BY <4>1, <5>1, Zenon
      <4>4. CASE \E ok \in BOOLEAN : GenerateToken(c, ok)
        BY <4>1, <4>4, Zenon DEF GenerateToken
      <4> QED
        BY <2>3, <4>1, <4>2, <4>3, <4>4, Zenon
    <3> QED
      BY <3>1, SMTT(30) DEF HolderInv, Registers, Kept
  <2>4. CASE UNCHANGED accountVars
    BY <2>4, Zenon DEF accountVars, HolderInv, Registers
  <2> QED
    BY <2>1, <2>2, <2>3, <2>4, Zenon DEF AccountsNext, CallStep, AuthInterceptor, Tick, stateVars
<1>3. HolderInv => EmailIsUnique
  BY Zenon DEF HolderInv, EmailIsUnique
<1> QED
  BY <1>1, <1>2, <1>3, InitAccountsInv, NextAccountsInv, StaleStep, PTL DEF AccountsSpec

-----------------------------------------------------------------------------
(***************************************************************************)
(* The specialists' processes, for any lists of specialists and any        *)
(* capacity of the channels: none is left without a client or without      *)
(* somebody who watches it.                                                *)
(***************************************************************************)
\* Nothing has been done yet for s.
Fresh(s) ==
  proc[s] = "none" /\ s \notin pool /\ s \notin Range(tracker) /\ s \notin processes

Booting == master \in {"boot", "wait", "track"}

\* What Init of the Coordinator has done so far: nothing for the specialists
\* that are still to come, and a process, then a client, for the current one.
BootInv ==
  /\ IsInjective(configs)
  /\ Booting => configs # <<>>
  /\ \A s \in Range(configs) : master = "boot" \/ s # Current => Fresh(s)
  /\ master = "wait" => Current \notin pool
  /\ master = "track" => Current \in pool /\ Current \notin Range(tracker) \cup processes

\* Who is watched has a client.
PoolInv ==
  /\ IsInjective(tracker)
  /\ Range(tracker) \cup processes \subseteq pool

\* The types of what Init and the health worker hand over.
HandTypes ==
  /\ master \in {"boot", "wait", "track", "run", "failed", "down"}
  /\ configs \in Seq(Specialists) /\ tracker \in Seq(Specialists)
  /\ pool \subseteq Specialists
  /\ proc \in [Nodes -> {"none", "running", "zombie", "gone"}]

HealthInv == HandTypes /\ BootInv /\ PoolInv /\ NoOrphan /\ WatchedOnce

-----------------------------------------------------------------------------
(* Sequences without repetition.                                           *)
LEMMA AppendFacts ==
  ASSUME NEW S, NEW q \in Seq(S), NEW x \in S
  PROVE  /\ Append(q, x) \in Seq(S)
         /\ Range(Append(q, x)) = Range(q) \cup {x}
         /\ IsInjective(q) /\ x \notin Range(q) => IsInjective(Append(q, x))
<1>1. /\ Append(q, x) \in Seq(S) /\ DOMAIN q = 1 .. Len(q) /\ Len(q) \in Nat
      /\ DOMAIN Append(q, x) = 1 .. Len(q) + 1
      /\ \A i \in 1 .. Len(q) : Append(q, x)[i] = q[i]
      /\ Append(q, x)[Len(q) + 1] = x
  OBVIOUS
<1>2. Range(Append(q, x)) = Range(q) \cup {x}
  <2>1. ASSUME NEW y \in Range(Append(q, x)) PROVE y \in Range(q) \cup {x}
    BY <1>1, <2>1 DEF Range
  <2>2. ASSUME NEW y \in Range(q) \cup {x} PROVE y \in Range(Append(q, x))
    BY <1>1, <2>2 DEF Range
  <2> QED
    BY <2>1, <2>2
<1>3. IsInjective(q) /\ x \notin Range(q) => IsInjective(Append(q, x))
  BY <1>1 DEF IsInjective, Range
<1> QED
  BY <1>1, <1>2, <1>3, SMTT(30)

\* Taking the first element removes it, and that only.
LEMMA TailFacts ==
  ASSUME NEW S, NEW q \in Seq(S), q # <<>>
  PROVE  /\ Tail(q) \in Seq(S) /\ Head(q) \in S /\ Head(q) \in Range(q)
         /\ Range(q) = Range(Tail(q)) \cup {Head(q)}
         /\ IsInjective(q) => IsInjective(Tail(q)) /\ Head(q) \notin Range(Tail(q))
<1>1. /\ Tail(q) \in Seq(S) /\ Head(q) = q[1] /\ DOMAIN q = 1 .. Len(q) /\ Len(q) \in Nat \ {0}
      /\ DOMAIN Tail(q) = 1 .. Len(q) - 1
      /\ \A i \in 1 .. Len(q) - 1 : Tail(q)[i] = q[i + 1]
  OBVIOUS
<1>2. Range(q) = Range(Tail(q)) \cup {Head(q)}
  <2>1. ASSUME NEW i \in DOMAIN q PROVE q[i] \in Range(Tail(q)) \cup {Head(q)}
    <3>1. CASE i = 1
      BY <1>1, <3>1
    <3>2. CASE i # 1
      <4>1. i - 1 \in DOMAIN Tail(q) /\ Tail(q)[i - 1] = q[i]
        BY <1>1, <3>2
      <4> QED
        BY <4>1 DEF Range
    <3> QED
      BY <3>1, <3>2
  <2>2. ASSUME NEW i \in DOMAIN Tail(q) PROVE Tail(q)[i] \in Range(q)
    BY <1>1 DEF Range
  <2>3. Head(q) \in Range(q)
    BY <1>1 DEF Range
  <2> QED
    BY <2>1, <2>2, <2>3, Zenon DEF Range
<1>3. IsInjective(q) => IsInjective(Tail(q)) /\ Head(q) \notin Range(Tail(q))
  <2>1. IsInjective(q) => IsInjective(Tail(q))
    BY <1>1 DEF IsInjective
  <2>2. IsInjective(q) => Head(q) \notin Range(Tail(q))
    BY <1>1 DEF IsInjective, Range
  <2> QED
    BY <2>1, <2>2
<1> QED
  BY <1>1, <1>2, <1>3

-----------------------------------------------------------------------------
\* The inductive invariant holds before Init starts a process.
LEMMA InitHealthInv == HealthInit => HealthInv
<1> SUFFICES ASSUME HealthInit PROVE HealthInv
  OBVIOUS
<1> USE SpecialistHealthAssumption DEF HealthInit
<1>1. Range(tracker) = {} /\ IsInjective(tracker) /\ tracker \in Seq(Specialists)
      /\ Len(tracker) = 0
  BY DEF Range, IsInjective
<1>2. Range(configs) \subseteq Specialists /\ Scanner \notin Range(configs)
  BY DEF Specialists
<1>3. HandTypes
  BY <1>1 DEF HandTypes
<1>4. BootInv
  BY <1>1, <1>2, SMTT(30) DEF BootInv, Booting, Fresh, Nodes
<1> QED
  BY <1>1, <1>3, <1>4, Zenon DEF HealthInv, PoolInv, NoOrphan, WatchedOnce, Nodes

-----------------------------------------------------------------------------
(* The steps.                                                              *)
\* The steps that hand over nothing.
LEMMA Aside ==
  ASSUME HealthInv, UNCHANGED <<bootVars, proc, tracker, processes>>
  PROVE  HealthInv'
BY DEF HealthInv, HandTypes, BootInv, Booting, Fresh, PoolInv, NoOrphan, WatchedOnce, Current, bootVars

\* The specialist Init works on is the first of those still to come.
LEMMA CurrentFacts ==
  ASSUME HandTypes, BootInv, Booting
  PROVE  /\ configs # <<>> /\ Current \in Specialists /\ Current \in Nodes
         /\ Current \in Range(configs)
         /\ Range(configs) = Range(Tail(configs)) \cup {Current}
         /\ Tail(configs) \in Seq(Specialists)
         /\ IsInjective(Tail(configs)) /\ Current \notin Range(Tail(configs))
<1>1. configs \in Seq(Specialists) /\ configs # <<>> /\ IsInjective(configs)
  BY DEF HandTypes, BootInv
<1> QED
  BY <1>1, TailFacts DEF Current, Nodes

\* startSpecialist starts a process or fails the boot.
LEMMA StartSpecialistKeeps ==
  ASSUME HealthInv, NEW ok \in BOOLEAN, StartSpecialist(ok)
  PROVE  HealthInv'
<1>1. Booting
  BY DEF StartSpecialist, Booting
<1>2. /\ configs # <<>> /\ Current \in Specialists /\ Current \in Nodes /\ Current \in Range(configs)
  BY <1>1, CurrentFacts DEF HealthInv
<1>3. Fresh(Current) /\ \A s \in Range(configs) : Fresh(s)
  BY <1>2 DEF HealthInv, BootInv, StartSpecialist
<1>4. /\ UNCHANGED <<configs, pool, tracker, processes>> /\ Current' = Current
      /\ \A s \in Nodes : s # Current => proc'[s] = proc[s]
      /\ proc'[Current] \in {"none", "running"} /\ master' \in {"wait", "failed"}
      /\ master' = "failed" => proc'[Current] = "none"
  BY <1>2, <1>3, Zenon DEF StartSpecialist, HealthInv, HandTypes, Fresh, Current, BootKeeps
<1>5. HandTypes'
  BY <1>2, <1>4, SMTT(30) DEF StartSpecialist, HealthInv, HandTypes
<1>6. BootInv'
  <2>1. Range(configs) \subseteq Nodes
    BY DEF HealthInv, HandTypes, Range, Nodes
  <2> QED
    BY <1>2, <1>3, <1>4, <2>1, Zenon DEF HealthInv, BootInv, Booting, Fresh
<1>7. PoolInv'
  BY <1>4, Zenon DEF HealthInv, PoolInv
<1>8. NoOrphan'
  BY <1>3, <1>4, Zenon DEF HealthInv, NoOrphan, StartSpecialist, Nodes
<1>9. WatchedOnce'
  BY <1>3, <1>4, Zenon DEF HealthInv, HandTypes, WatchedOnce, StartSpecialist, Fresh, Nodes
<1> QED
  BY <1>5, <1>6, <1>7, <1>8, <1>9 DEF HealthInv

\* waitForReady puts the specialist in the pool, or its process is killed.
LEMMA WaitForReadyKeeps ==
  ASSUME HealthInv, NEW ok \in BOOLEAN, WaitForReady(ok)
  PROVE  HealthInv'
<1>1. Booting /\ master = "wait"
  BY DEF WaitForReady, Booting
<1>2. /\ configs # <<>> /\ Current \in Specialists /\ Current \in Nodes
      /\ Current \notin pool /\ Current \notin Range(tracker) \cup processes
  BY <1>1, CurrentFacts, Zenon DEF HealthInv, BootInv, PoolInv
<1>3. /\ UNCHANGED <<configs, tracker, processes>> /\ Current' = Current
      /\ \A s \in Nodes : s # Current => proc'[s] = proc[s]
      /\ proc' \in [Nodes -> {"none", "running", "zombie", "gone"}]
      /\ \/ master' = "track" /\ pool' = pool \cup {Current} /\ proc' = proc
         \/ master' = "failed" /\ pool' = pool /\ proc'[Current] # "running"
  BY <1>2, SpecialistHealthAssumption, Zenon
     DEF WaitForReady, Killed, HealthInv, HandTypes, Current, BootKeeps
<1>4. HandTypes'
  BY <1>2, <1>3, Zenon DEF HealthInv, HandTypes
<1>5. BootInv'
  <2>1. Range(configs) \subseteq Nodes
    BY DEF HealthInv, HandTypes, Range, Nodes
  <2> QED
    BY <1>1, <1>2, <1>3, <2>1, Zenon DEF HealthInv, BootInv, Booting, Fresh
<1>6. PoolInv'
  BY <1>3 DEF HealthInv, PoolInv
<1>7. NoOrphan'
  BY <1>3, Zenon DEF HealthInv, NoOrphan, Nodes
<1>8. WatchedOnce'
  BY <1>1, <1>2, <1>3 DEF HealthInv, HandTypes, PoolInv, WatchedOnce, Nodes
<1> QED
  BY <1>4, <1>5, <1>6, <1>7, <1>8 DEF HealthInv

\* Init sends the process to processTrackerChan once.
LEMMA TrackKeeps ==
  ASSUME HealthInv, Track
  PROVE  HealthInv'
<1>1. Booting /\ master = "track"
  BY DEF Track, Booting
<1>2. /\ configs # <<>> /\ Current \in Specialists
      /\ Range(configs) = Range(Tail(configs)) \cup {Current}
      /\ Tail(configs) \in Seq(Specialists)
      /\ IsInjective(Tail(configs)) /\ Current \notin Range(Tail(configs))
      /\ Current \notin Range(tracker) \cup processes
  BY <1>1, CurrentFacts, Zenon DEF HealthInv, BootInv
<1>3. PICK s \in Specialists : s = Current
  BY <1>2
<1>4. /\ tracker' \in Seq(Specialists) /\ Range(tracker') = Range(tracker) \cup {s}
      /\ IsInjective(tracker')
  BY <1>2, <1>3, AppendFacts DEF Track, HealthInv, HandTypes, PoolInv
<1>5. /\ UNCHANGED <<pool, proc, processes>> /\ configs' = Tail(configs)
      /\ master' \in {"run", "boot"} /\ (master' = "boot" => configs' # <<>>)
  BY DEF Track, BootKeeps
<1>6. HandTypes'
  BY <1>2, <1>4, <1>5, Zenon DEF HealthInv, HandTypes
<1>7. \A u \in Range(configs') : u # s /\ Fresh(u)
  BY <1>1, <1>2, <1>3, <1>5, Zenon DEF HealthInv, BootInv
<1>8. BootInv'
  BY <1>2, <1>4, <1>5, <1>7, Zenon DEF BootInv, Booting, Fresh
<1>9. s \in pool
  BY <1>1, <1>2, <1>3 DEF HealthInv, BootInv
<1>10. PoolInv'
  BY <1>4, <1>5, <1>9 DEF HealthInv, PoolInv
<1>11. NoOrphan'
  BY <1>1, <1>5 DEF HealthInv, NoOrphan
<1>12. WatchedOnce'
  BY <1>1, <1>2, <1>3, <1>4, <1>5, Zenon DEF HealthInv, WatchedOnce
<1> QED
  BY <1>6, <1>8, <1>10, <1>11, <1>12 DEF HealthInv

\* The health worker takes a process from processTrackerChan.
LEMMA TakeProcessKeeps ==
  ASSUME HealthInv, TakeProcess
  PROVE  HealthInv'
<1>1. tracker \in Seq(Specialists) /\ tracker # <<>>
  BY Zenon DEF TakeProcess, HealthInv, HandTypes
<1>2. PICK s \in Specialists : s = Head(tracker)
  BY <1>1, TailFacts
<1>3. /\ tracker' \in Seq(Specialists) /\ Range(tracker) = Range(tracker') \cup {s}
      /\ IsInjective(tracker') /\ s \notin Range(tracker')
  BY <1>1, <1>2, TailFacts, Zenon DEF TakeProcess, HealthInv, PoolInv
<1>4. /\ UNCHANGED <<master, configs, pool, proc>> /\ processes' = processes \cup {s}
      /\ master = "run" /\ Current' = Current
  BY <1>2 DEF TakeProcess, bootVars, Current
<1>5. HandTypes' /\ NoOrphan'
  BY <1>3, <1>4, Zenon DEF HealthInv, HandTypes, NoOrphan
<1>6. BootInv'
  BY <1>3, <1>4, Zenon DEF HealthInv, BootInv, Booting, Fresh
<1>7. PoolInv'
  BY <1>3, <1>4, SMTT(30) DEF HealthInv, PoolInv
<1>8. WatchedOnce'
  BY <1>3, <1>4, SMTT(30) DEF HealthInv, PoolInv, WatchedOnce
<1> QED
  BY <1>5, <1>6, <1>7, <1>8 DEF HealthInv

\* The health worker forgets a process that vanished.
LEMMA ForgetKeeps ==
  ASSUME HealthInv, NEW s \in Specialists, Forget(s)
  PROVE  HealthInv'
<1>1. /\ UNCHANGED <<master, configs, pool, proc, tracker>> /\ processes' = processes \ {s}
      /\ proc[s] = "gone" /\ Current' = Current
  BY DEF Forget, Sample, Unreachable, bootVars, Current
<1> QED
  BY <1>1 DEF HealthInv, HandTypes, BootInv, Booting, Fresh, PoolInv, NoOrphan, WatchedOnce

\* A process that dies stays where it was registered.
LEMMA DieKeeps ==
  ASSUME HealthInv, NEW n \in Nodes, Die(n)
  PROVE  HealthInv'
<1>1. /\ UNCHANGED <<master, configs, pool, tracker, processes>> /\ Current' = Current
      /\ proc[n] = "running" /\ proc'[n] \in {"zombie", "gone"}
      /\ proc' \in [Nodes -> {"none", "running", "zombie", "gone"}]
      /\ \A m \in Nodes : m # n => proc'[m] = proc[m]
  BY SpecialistHealthAssumption, SMTT(30) DEF Die, Killed, HealthInv, HandTypes, bootVars, Current
<1>2. Range(configs) \subseteq Nodes /\ pool \subseteq Nodes /\ Specialists \subseteq Nodes
  BY DEF HealthInv, HandTypes, Range, Nodes
<1>3. HandTypes' /\ PoolInv'
  BY <1>1, SMTT(30) DEF HealthInv, HandTypes, PoolInv
<1>4. BootInv'
  BY <1>1, <1>2, Zenon DEF HealthInv, BootInv, Booting, Fresh
<1>5. NoOrphan' /\ WatchedOnce'
  BY <1>1, <1>2, SMTT(30) DEF HealthInv, NoOrphan, WatchedOnce
<1> QED
  BY <1>3, <1>4, <1>5 DEF HealthInv

\* The shutdown hands over nothing.
LEMMA ShutdownKeeps ==
  ASSUME HealthInv, Shutdown
  PROVE  HealthInv'
<1>1. /\ UNCHANGED <<configs, pool, proc, tracker, processes>> /\ Current' = Current
      /\ master = "run" /\ master' = "down"
  BY DEF Shutdown, Current
<1> QED
  BY <1>1, Zenon DEF HealthInv, HandTypes, BootInv, Booting, Fresh, PoolInv, NoOrphan, WatchedOnce

\* Every step keeps the inductive invariant.
LEMMA NextKeeps == HealthInv /\ [HealthNext]_healthVars => HealthInv'
<1> SUFFICES ASSUME HealthInv, [HealthNext]_healthVars PROVE HealthInv'
  OBVIOUS
<1>1. CASE Boot
  BY <1>1, StartSpecialistKeeps, WaitForReadyKeeps DEF Boot
<1>2. CASE Track
  BY <1>2, TrackKeeps
<1>3. CASE TakeProcess
  BY <1>3, TakeProcessKeeps
<1>4. ASSUME NEW s \in Specialists, Probe(s) PROVE HealthInv'
  <2>1. CASE Forget(s)
    BY <2>1, ForgetKeeps
  <2>2. CASE Report(s) \/ Lose(s)
    BY <2>2, Aside, SMTT(30) DEF Report, Lose, Sample
  <2> QED
    BY <1>4, <2>1, <2>2 DEF Probe
<1>5. CASE HealthTick \/ CapacityTick \/ ReportCapacity \/ TelemetryTick \/ ReceiveTelemetry \/ TickersFire
  BY <1>5, Aside, Zenon DEF HealthTick, CapacityTick, ReportCapacity, TelemetryTick, ReceiveTelemetry, TickersFire
<1>6. ASSUME NEW ok \in BOOLEAN, Heartbeat(ok) PROVE HealthInv'
  BY <1>6, Aside DEF Heartbeat
<1>7. ASSUME NEW n \in Nodes, Die(n) PROVE HealthInv'
  BY <1>7, DieKeeps
<1>8. CASE Shutdown
  BY <1>8, ShutdownKeeps
<1>9. CASE UNCHANGED healthVars
  BY <1>9, Aside DEF healthVars
<1> QED
  BY <1>1, <1>2, <1>3, <1>4, <1>5, <1>6, <1>7, <1>8, <1>9, Zenon DEF HealthNext

-----------------------------------------------------------------------------
\* Init leaves no process behind, wherever it fails: a specialist that was
\* started is in the pool, is the one Init waits for, or was killed.
THEOREM NoneIsOrphaned == HealthSpec => []NoOrphan
<1>1. HealthInv => NoOrphan
  BY DEF HealthInv
<1> QED
  BY <1>1, InitHealthInv, NextKeeps, PTL DEF HealthSpec

\* The hand-over through processTrackerChan loses no specialist and doubles
\* none, whatever the channel's capacity and the processes that die meanwhile.
THEOREM EachIsWatched == HealthSpec => []WatchedOnce
<1>1. HealthInv => WatchedOnce
  BY DEF HealthInv
<1> QED
  BY <1>1, InitHealthInv, NextKeeps, PTL DEF HealthSpec

-----------------------------------------------------------------------------
(***************************************************************************)
(* The accounting of Supervisor, for every set of workers and any number   *)
(* of failures.                                                            *)
(***************************************************************************)
(* Before Run nothing was started: Run replaces s.Cancel, and this is what *)
(* keeps it from reviving a context somebody has relied on being done.     *)
NothingBeforeRun == run = "idle" => \A w \in Workers : goroutine[w] = "none"

IInv == TypeOK /\ WaitGroupIsExact /\ NeverGivenUp /\ NothingBeforeRun

-----------------------------------------------------------------------------
(* The set of living goroutines is finite.                                 *)
LEMMA AliveFinite == IsFiniteSet(Alive) /\ Cardinality(Alive) \in Nat
<1>1. Alive \subseteq Workers
  BY DEF Alive
<1> QED BY <1>1, SupervisorAssumption, FS_Subset, FS_CardinalityType

(* A goroutine that moves between two living states, or does not move,     *)
(* leaves the accounting alone.                                            *)
LEMMA Moves ==
  ASSUME IInv, NEW w \in Workers, NEW from, NEW to,
         Step(w, from, to), from \notin {"none", "done"}, to \notin {"none", "done"},
         UNCHANGED <<parentDone, Cancel, run, wg, finished>>
  PROVE  WaitGroupIsExact' /\ NeverGivenUp' /\ NothingBeforeRun'
<1> USE DEF IInv, Step
<1>1. Alive' = Alive
  BY Zenon DEF Alive, TypeOK
<1>2. \A v \in Workers : goroutine'[v] = "done" <=> goroutine[v] = "done"
  BY Zenon DEF TypeOK
<1> QED BY <1>1, <1>2, Zenon DEF WaitGroupIsExact, NeverGivenUp, NothingBeforeRun, CtxDone, TypeOK

(* A goroutine that ends for one of the two good reasons is counted out.   *)
LEMMA Leaves ==
  ASSUME IInv, NEW w \in Workers, NEW from, Leave(w, from), from \notin {"none", "done"},
         UNCHANGED <<parentDone, Cancel, run>>, finished \subseteq finished',
         CtxDone \/ w \in finished'
  PROVE  WaitGroupIsExact' /\ NeverGivenUp' /\ NothingBeforeRun'
<1> USE DEF IInv, Leave, Step
<1>1. w \in Alive /\ Alive' = Alive \ {w}
  BY SMTT(30) DEF Alive, TypeOK
<1>2. Cardinality(Alive') = Cardinality(Alive) - 1
  BY <1>1, AliveFinite, FS_RemoveElement, Zenon
<1>3. \A v \in Workers : v # w => goroutine'[v] = goroutine[v]
  BY Zenon DEF TypeOK
<1>4. goroutine'[w] = "done"
  BY Zenon DEF TypeOK
<1> QED BY <1>2, <1>3, <1>4, Zenon DEF WaitGroupIsExact, NeverGivenUp, NothingBeforeRun, CtxDone

(* Steps that touch no goroutine and do not revive the context.            *)
LEMMA Idles ==
  ASSUME IInv, UNCHANGED <<run, goroutine, wg, finished>>, CtxDone => CtxDone'
  PROVE  WaitGroupIsExact' /\ NeverGivenUp' /\ NothingBeforeRun'
BY SMTT(30) DEF IInv, WaitGroupIsExact, NeverGivenUp, NothingBeforeRun, Alive

(* Every step keeps the types.                                             *)
LEMMA TypeStep == TypeOK /\ [Next]_vars => TypeOK'
<1> SUFFICES ASSUME TypeOK, [Next]_vars PROVE TypeOK'
  OBVIOUS
<1> USE SupervisorAssumption DEF TypeOK
<1>1. CASE UNCHANGED vars
  BY <1>1, SMTT(30) DEF vars
<1>2. CASE Run \/ Wait \/ Stop \/ CancelParent \/ TakeTelemetry
  <2>1. CASE Run \/ Wait \/ Stop
    BY <2>1, Zenon DEF Run, Wait, Stop
  <2>2. CASE CancelParent
    BY <2>2, Zenon DEF CancelParent
  <2>3. CASE TakeTelemetry
    BY <2>3, SMTT(30) DEF TakeTelemetry
  <2> QED BY <1>2, <2>1, <2>2, <2>3, Zenon
<1>3. ASSUME NEW w \in Workers, Supervise(w) PROVE TypeOK'
  BY <1>3, SMTT(30) DEF Supervise, Start, Loop, ReturnCtxErr, Decide, Backoff, Leave, Step
<1>4. ASSUME NEW w \in Workers, ReturnNil(w) \/ ReturnErr(w) PROVE TypeOK'
  BY <1>4 DEF ReturnNil, ReturnErr, Leave, Step
<1>5. ASSUME NEW w \in Workers, NEW sent \in BOOLEAN, Panic(w, sent) PROVE TypeOK'
  BY <1>5 DEF Panic, TelemetryFull, Step
<1> QED BY <1>1, <1>2, <1>3, <1>4, <1>5, Zenon DEF Next

(* Init establishes the invariant.                                         *)
LEMMA InitIInv == Init => IInv
<1> SUFFICES ASSUME Init PROVE IInv
  OBVIOUS
<1>1. Alive = {}
  BY DEF Init, Alive
<1>2. Cardinality(Alive) = 0
  BY <1>1, FS_EmptySet, Zenon
<1>3. TypeOK
  <2>1. telemetryChan \in 0 .. BufferSize
    BY SupervisorAssumption DEF Init
  <2>2. goroutine \in [Workers -> {"none", "loop", "running", "failed", "backoff", "done"}]
    BY DEF Init
  <2>3. failures \in [Workers -> Nat]
    BY DEF Init
  <2>4. parentDone \in BOOLEAN
    BY Zenon DEF Init
  <2> QED BY <2>1, <2>2, <2>3, <2>4 DEF Init, TypeOK
<1>4. WaitGroupIsExact
  BY <1>2 DEF Init, WaitGroupIsExact
<1> QED BY <1>3, <1>4, Zenon DEF Init, IInv, NeverGivenUp, NothingBeforeRun

(* The invariant is inductive.                                             *)
LEMMA NextIInv == IInv /\ [Next]_vars => IInv'
<1> SUFFICES ASSUME IInv, [Next]_vars PROVE WaitGroupIsExact' /\ NeverGivenUp' /\ NothingBeforeRun'
  BY TypeStep, Zenon DEF IInv
<1>1. CASE UNCHANGED vars
  BY <1>1, Idles, Zenon DEF vars, CtxDone
<1>2. CASE Run
  <2>1. \A w \in Workers : goroutine[w] = "none"
    BY <1>2, Zenon DEF Run, IInv, NothingBeforeRun
  <2> QED BY <1>2, <2>1, Zenon DEF Run, IInv, WaitGroupIsExact, NeverGivenUp, NothingBeforeRun, Alive
<1>3. CASE Wait
  <2>1. Cardinality(Alive) = 0
    BY <1>3, Zenon DEF Wait, IInv, WaitGroupIsExact
  <2>2. Alive = {}
    BY <2>1, AliveFinite, FS_EmptySet, Zenon
  <2>3. \A w \in Workers : goroutine[w] = "done"
    BY <1>3, <2>2, Zenon DEF Wait, Alive, IInv, TypeOK
  <2>4. Alive' = Alive
    BY <1>3, Zenon DEF Wait, Alive
  <2> QED BY <1>3, <2>3, <2>4, Zenon
      DEF Wait, IInv, WaitGroupIsExact, NeverGivenUp, NothingBeforeRun, CtxDone
<1>4. CASE Stop \/ CancelParent \/ TakeTelemetry
  BY <1>4, Idles DEF Stop, CancelParent, TakeTelemetry, CtxDone
<1>5. ASSUME NEW w \in Workers, Start(w)
      PROVE  WaitGroupIsExact' /\ NeverGivenUp' /\ NothingBeforeRun'
  <2>1. w \notin Alive /\ Alive' = Alive \cup {w}
    BY <1>5, Zenon DEF Start, Alive, IInv, TypeOK
  <2>2. Cardinality(Alive') = Cardinality(Alive) + 1
    BY <2>1, AliveFinite, FS_AddElement, Zenon
  <2>3. \A v \in Workers : goroutine'[v] = "done" <=> goroutine[v] = "done"
    BY <1>5, Zenon DEF Start, IInv, TypeOK
  <2> QED BY <1>5, <2>2, <2>3, Zenon
      DEF Start, IInv, WaitGroupIsExact, NeverGivenUp, NothingBeforeRun, CtxDone
<1>6. ASSUME NEW w \in Workers, Loop(w)
      PROVE  WaitGroupIsExact' /\ NeverGivenUp' /\ NothingBeforeRun'
  BY <1>6, Leaves, Moves, Zenon DEF Loop
<1>7. ASSUME NEW w \in Workers, Decide(w)
      PROVE  WaitGroupIsExact' /\ NeverGivenUp' /\ NothingBeforeRun'
  BY <1>7, Leaves, Moves, Zenon DEF Decide
<1>8. ASSUME NEW w \in Workers, Backoff(w)
      PROVE  WaitGroupIsExact' /\ NeverGivenUp' /\ NothingBeforeRun'
  BY <1>8, Leaves, Moves, Zenon DEF Backoff
<1>9. ASSUME NEW w \in Workers, ReturnNil(w)
      PROVE  WaitGroupIsExact' /\ NeverGivenUp' /\ NothingBeforeRun'
  BY <1>9, Leaves, Zenon DEF ReturnNil
<1>10. ASSUME NEW w \in Workers, ReturnCtxErr(w) \/ ReturnErr(w)
       PROVE  WaitGroupIsExact' /\ NeverGivenUp' /\ NothingBeforeRun'
  BY <1>10, Moves, Zenon DEF ReturnCtxErr, ReturnErr
<1>11. ASSUME NEW w \in Workers, NEW sent \in BOOLEAN, Panic(w, sent)
       PROVE  WaitGroupIsExact' /\ NeverGivenUp' /\ NothingBeforeRun'
  BY <1>11, Moves, Zenon DEF Panic
<1> QED BY <1>1, <1>2, <1>3, <1>4, <1>5, <1>6, <1>7, <1>8, <1>9, <1>10, <1>11, Zenon DEF Next, Supervise

(* IInv holds in every reachable state.                                    *)
THEOREM Invariance == Spec => []IInv
BY InitIInv, NextIInv, PTL DEF Spec

(* The WaitGroup counts the living goroutines, and Run returns only when   *)
(* there are none.                                                         *)
THEOREM RunWaitsForAll == Spec => []WaitGroupIsExact
<1>1. IInv => WaitGroupIsExact
  BY DEF IInv
<1> QED BY <1>1, Invariance, PTL

(* Supervision of a worker ends only with a nil result or the context.     *)
THEOREM SupervisionIsRelentless == Spec => []NeverGivenUp
<1>1. IInv => NeverGivenUp
  BY DEF IInv
<1> QED BY <1>1, Invariance, PTL
=============================================================================
