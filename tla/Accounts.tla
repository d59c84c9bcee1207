------------------------------ MODULE Accounts ------------------------------
(***************************************************************************)
(* services/auth_service.go, infrastructure/storage/user_repository.go and *)
(* infrastructure/grpc/server/interceptor.go: concurrent Register and      *)
(* Login calls on the users kept in Badger, and the requests that present  *)
(* the tokens they are given, while the clock advances.                    *)
(*                                                                         *)
(* A Badger transaction reads a snapshot; what its commit does when the    *)
(* key read was written meanwhile depends on the option DetectConflicts.   *)
(* A call stands for the uuid CreateUser makes in it.  A hash is the       *)
(* password it was made from: only ComparePassword looks into it.          *)
(***************************************************************************)
EXTENDS Naturals, FiniteSets

CONSTANTS
  Calls,            \* bound: the Register and Login calls
  Emails,
  Passwords,
  ValidPasswords,   \* the passwords ValidateRegister accepts
  DetectConflicts,  \* Badger's option, FALSE in cmd/master
  AuthEnabled,      \* config.AuthenticationEnabled
  TokenDuration,    \* config.AuthTokenDuration
  MaxTime,          \* bound on the clock
  None

ASSUME AccountsAssumption ==
  /\ ValidPasswords \subseteq Passwords
  /\ DetectConflicts \in BOOLEAN /\ AuthEnabled \in BOOLEAN
  /\ TokenDuration \in Nat /\ MaxTime \in Nat
  /\ None \notin Calls

VARIABLES
  users,   \* users[e]: the call that created the account of e, None if free
  call,    \* call[c]: its stage and its arguments
  stale,   \* calls whose transaction read a key that was written since
  token,   \* token[c]: the claims of the token given to c
  now,     \* the clock, in the seconds of a NumericDate
  served   \* the last request of a protected method a handler was called for,
           \* and the user its context names

accountVars == <<users, call, stale>>
clockVars == <<now, served>>
stateVars == <<accountVars, token, clockVars>>

Stage == {"idle", "create", "commit", "sign", "compare", "done", "failed"}
Call == [stage : Stage, kind : {None, "Register", "Login"},
         email : Emails \cup {None}, password : Passwords \cup {None},
         user : Calls \cup {None}]
Claims == [user : Calls, issued : Nat, expires : Nat]
Request == [user : Calls \cup {None}, at : Nat]

AccountsInit ==
  /\ users = [e \in Emails |-> None]
  /\ call = [c \in Calls |-> [stage |-> "idle", kind |-> None, email |-> None,
                              password |-> None, user |-> None]]
  /\ stale = {}
  /\ token = [c \in Calls |-> None]
  /\ now = 0 /\ served = None

-----------------------------------------------------------------------------
(* The interceptor, in front of every unary method. *)
publicMethods == {"Login", "Register"}

\* Mutant: only the signature is looked at.
SignedOnly(bearer) == token[bearer] # None

\* One of the tokens given out, while the clock is before its expiry.
ValidateToken(bearer) == token[bearer] # None /\ now < token[bearer].expires

\* The handler is called; otherwise the request is Unauthenticated.
Admits(method, bearer) ==
  \/ ~AuthEnabled
  \/ method \in publicMethods
  \/ bearer # None /\ ValidateToken(bearer)

\* What the handler of a protected method finds under UserIDKey.
UserID(bearer) == IF AuthEnabled THEN token[bearer].user ELSE None

AuthInterceptor(bearer) ==
  /\ Admits("PostMessage", bearer)
  /\ served' = [user |-> UserID(bearer), at |-> now]
  /\ UNCHANGED <<accountVars, token, now>>

Tick ==
  /\ now < MaxTime
  /\ now' = now + 1
  /\ UNCHANGED <<accountVars, token, served>>

-----------------------------------------------------------------------------
(* Register and Login, which no token comes with. *)
Goto(c, stage) == call' = [call EXCEPT ![c].stage = stage]

Begin(c, kind, e, p, user, stage) ==
  /\ call[c].stage = "idle"
  /\ Admits(kind, None)
  /\ call' = [call EXCEPT ![c] = [stage |-> stage, kind |-> kind, email |-> e,
                                  password |-> p, user |-> user]]
  /\ UNCHANGED <<users, stale, token, clockVars>>

\* ValidateRegister and HashPassword; the user is made before the transaction.
Register(c, e, p) ==
  Begin(c, "Register", e, p, c, IF p \in ValidPasswords THEN "create" ELSE "failed")

\* Mutant: nobody looks.
NeverTaken(e) == FALSE

Taken(e) == users[e] # None

\* txn.Get: ErrUserAlreadyExists when the key is there.
GetKey(c) ==
  /\ call[c].stage = "create"
  /\ Goto(c, IF Taken(call[c].email) THEN "failed" ELSE "commit")
  /\ UNCHANGED <<users, stale, token, clockVars>>

\* txn.Set and the commit; ErrConflict if Badger looks for conflicts.
Commit(c) ==
  /\ call[c].stage = "commit"
  /\ IF DetectConflicts /\ c \in stale
       THEN Goto(c, "failed") /\ UNCHANGED <<users, stale, token, clockVars>>
       ELSE /\ users' = [users EXCEPT ![call[c].email] = c]
            /\ stale' = stale \cup {d \in Calls \ {c} : call[d].stage = "commit"
                                                        /\ call[d].email = call[c].email}
            /\ Goto(c, "sign")
            /\ UNCHANGED <<token, clockVars>>

\* GetUserByEmail, in a transaction that only reads.
Login(c, e, p) ==
  Begin(c, "Login", e, p, users[e], IF users[e] = None THEN "failed" ELSE "compare")

Match(c) == call[call[c].user].password = call[c].password

ComparePassword(c) ==
  /\ call[c].stage = "compare"
  /\ Goto(c, IF Match(c) THEN "sign" ELSE "failed")
  /\ UNCHANGED <<users, stale, token, clockVars>>

\* The claims: the user's, from now on.
NewClaims(c) == [user |-> call[c].user, issued |-> now, expires |-> now + TokenDuration]

\* Signing may fail: the account is there all the same.
GenerateToken(c, ok) ==
  /\ call[c].stage = "sign"
  /\ Goto(c, IF ok THEN "done" ELSE "failed")
  /\ token' = [token EXCEPT ![c] = IF ok THEN NewClaims(c) ELSE None]
  /\ UNCHANGED <<users, stale, clockVars>>

CallStep(c) ==
  \/ \E e \in Emails, p \in Passwords : Register(c, e, p) \/ Login(c, e, p)
  \/ GetKey(c)
  \/ Commit(c)
  \/ ComparePassword(c)
  \/ \E ok \in BOOLEAN : GenerateToken(c, ok)

AccountsNext ==
  \/ \E c \in Calls : CallStep(c)
  \/ \E bearer \in Calls \cup {None} : AuthInterceptor(bearer)
  \/ Tick

AccountsSpec == AccountsInit /\ [][AccountsNext]_stateVars

-----------------------------------------------------------------------------
(* Every call in progress and every stored key keeps its type.              *)
AccountsTypeOK ==
  /\ users \in [Emails -> Calls \cup {None}]
  /\ call \in [Calls -> Call]
  /\ stale \subseteq Calls
  /\ token \in [Calls -> Claims \cup {None}]
  /\ now \in 0 .. MaxTime
  /\ served \in Request \cup {None}

\* The user of a call is the one that was registered with the email and the
\* password it gave.
Proven(c, u) ==
  /\ call[u].kind = "Register" /\ call[u].email = call[c].email
  /\ call[u].password = call[c].password /\ call[u].password \in ValidPasswords

\* With authentication on, a handler of a protected method knows its user: one
\* whose email and password a call gave less than AuthTokenDuration before the
\* request, whatever happened to the key of the account in between.
IdentityIsProven ==
  AuthEnabled /\ served # None =>
    \E c \in Calls :
      /\ token[c] # None /\ token[c].user = served.user /\ Proven(c, served.user)
      /\ served.at < token[c].issued + TokenDuration

\* One email, one account: of the calls that register an email, one at most
\* is given a token ("Will propagate ErrUserAlreadyExists if email is taken").
Registers(c) == call[c].kind = "Register" /\ call[c].stage \in {"sign", "done"}
EmailIsUnique ==
  \A c, d \in Calls : Registers(c) /\ Registers(d) /\ call[c].email = call[d].email => c = d

\* CreateUser replaces an account only when its look-up had found the key free
\* before that account was committed: a call that starts once an email is taken
\* never gets it, and who registered can log in again.
AccountsStay ==
  [][\A e \in Emails :
       users[e] # None => users'[e] = users[e] \/ (users'[e] \in stale /\ ~DetectConflicts)]_stateVars
=============================================================================
