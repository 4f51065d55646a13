------------------------------ MODULE UserAuth ------------------------------
(***************************************************************************)
(* The user table of SQLiteUserStore (state/user_store.go) and the BUCP    *)
(* login of AuthService (handler/auth.go) that reads and, with             *)
(* DisableAuth, writes it.                                                 *)
(*                                                                         *)
(* A client logs in with two requests: ReceiveAndSendAuthChallenge returns *)
(* the user's auth key (salt), and the client answers with the digest of  *)
(* its password under that key, which ReceiveAndSendBUCPLoginRequest       *)
(* compares with the stored one.  Meanwhile the management API may insert, *)
(* delete or re-password users.  A digest is modelled by what determines   *)
(* it: the pair (password, key).  SQLite allows one writer at a time: a    *)
(* transaction left open holds the write lock, and every later write fails *)
(* with "database is locked".  The profile and bartItem tables share that  *)
(* lock; a buddy icon's hash is the hash of its body, so a stored hash     *)
(* stands for its body.                                                    *)
(***************************************************************************)
EXTENDS Naturals, FiniteSets

CONSTANTS
    Users,        \* screen names
    Passwords,    \* passwords clients and administrators use
    Welcome1,     \* the stub user's password "welcome1"
    Keys,         \* auth keys: uuid strings drawn by uuid.NewRandom
    Clients,      \* login attempts (one connection each)
    DisableAuth,  \* cfg.DisableAuth
    NoUser,       \* GetUser returned nil
    Bodies,       \* profile texts; "" is the empty profile
    Hashes,       \* BART item hashes
    NoKey         \* no challenge answered yet

ASSUME Welcome1 \in Passwords

VARIABLES
    users,     \* users[u]: [key, pass] of the user row, or NoUser
    txOpen,    \* a returned call left its transaction (and the write lock) open
    cpc,       \* cpc[c]: "idle", "challenged" or "done"
    cuser,     \* screen name client c logs in as
    cpw,       \* password client c types
    ckey,      \* auth key the challenge returned to c
    sessions,  \* clients whose login created a session (id = the client)
    profile,   \* profile[u]: the body of u's profile row, "" if none
    bart       \* hashes of the rows of bartItem

vars == <<users, txOpen, cpc, cuser, cpw, ckey, sessions, profile, bart>>

Cred == [key: Keys, pass: Passwords]

TypeOK ==
    /\ users \in [Users -> Cred \cup {NoUser}]
    /\ txOpen \in BOOLEAN
    /\ cpc \in [Clients -> {"idle", "challenged", "done"}]
    /\ cuser \in [Clients -> Users]
    /\ cpw \in [Clients -> Passwords]
    /\ ckey \in [Clients -> Keys \cup {NoKey}]
    /\ sessions \subseteq Clients
    /\ profile \in [Users -> Bodies \cup {""}]
    /\ bart \subseteq Hashes

Init ==
    /\ users \in [Users -> Cred \cup {NoUser}]
    /\ txOpen = FALSE
    /\ cpc = [c \in Clients |-> "idle"]
    /\ cuser \in [Clients -> Users]
    /\ cpw \in [Clients -> Passwords]
    /\ ckey = [c \in Clients |-> NoKey]
    /\ sessions = {}
    /\ profile = [u \in Users |-> ""]
    /\ bart = {}

\* The password hash of User.HashPassword: determined by password and key
Digest(pass, key) == <<pass, key>>

\* User(screenName): the row, or nil (NoUser) on sql.ErrNoRows
GetUser(u) == users[u]

\* A write statement; it fails with "database is locked" while a leaked
\* transaction holds the write lock
CanWrite == ~txOpen

(***************************************************************************)
(* The user table.                                                         *)
(***************************************************************************)

\* INSERT ... ON CONFLICT (screenName) DO NOTHING; ErrDupUser if the row exists
InsertUser(u, pw, k) ==
    /\ CanWrite
    /\ users[u] = NoUser
    /\ users' = [users EXCEPT ![u] = [key |-> k, pass |-> pw]]
    /\ UNCHANGED <<txOpen, cpc, cuser, cpw, ckey, sessions, profile, bart>>

\* DELETE FROM user WHERE screenName = ?; ErrNoUser if there was no row
DeleteUser(u) ==
    /\ CanWrite
    /\ users[u] # NoUser
    /\ users' = [users EXCEPT ![u] = NoUser]
    /\ UNCHANGED <<txOpen, cpc, cuser, cpw, ckey, sessions, profile, bart>>

\* SetUserPassword: BEGIN; UPDATE; if no row changed, SELECT COUNT(*) and
\* return ErrNoUser when it is 0.  The deferred Rollback runs only when err
\* is set, and err holds the SELECT's nil there: the transaction stays open.
SetUserPassword(u, pw, k) ==
    /\ CanWrite
    /\ \/ /\ users[u] # NoUser
          /\ users' = [users EXCEPT ![u] = [key |-> k, pass |-> pw]]
          /\ UNCHANGED txOpen
       \/ /\ users[u] = NoUser
          /\ txOpen' = TRUE
          /\ UNCHANGED users
    /\ UNCHANGED <<cpc, cuser, cpw, ckey, sessions, profile, bart>>

(***************************************************************************)
(* BUCP login.                                                             *)
(***************************************************************************)

\* A variant that falls through to the challenge response when the user is
\* unknown and DisableAuth is off, answering with the zero authKey ""
ReceiveAndSendAuthChallengeNoDefault(c) ==
    /\ cpc[c] = "idle"
    /\ cpc' = [cpc EXCEPT ![c] = "challenged"]
    /\ ckey' = [ckey EXCEPT ![c] = IF GetUser(cuser[c]) # NoUser
                                   THEN GetUser(cuser[c]).key ELSE ""]
    /\ UNCHANGED <<users, txOpen, cuser, cpw, sessions, profile, bart>>

\* GetUser fails: the error is returned; the user exists: its auth key;
\* DisableAuth: a fresh uuid; otherwise the login-error SNAC ends the login
ReceiveAndSendAuthChallenge(c) ==
    /\ cpc[c] = "idle"
    /\ \/ /\ cpc' = [cpc EXCEPT ![c] = "done"]          \* GetUser error
          /\ UNCHANGED ckey
       \/ /\ GetUser(cuser[c]) # NoUser
          /\ cpc' = [cpc EXCEPT ![c] = "challenged"]
          /\ ckey' = [ckey EXCEPT ![c] = GetUser(cuser[c]).key]
       \/ /\ GetUser(cuser[c]) = NoUser
          /\ DisableAuth
          /\ \E k \in Keys : ckey' = [ckey EXCEPT ![c] = k]
          /\ cpc' = [cpc EXCEPT ![c] = "challenged"]
       \/ /\ GetUser(cuser[c]) = NoUser
          /\ ~DisableAuth
          /\ cpc' = [cpc EXCEPT ![c] = "done"]
          /\ UNCHANGED ckey
    /\ UNCHANGED <<users, txOpen, cuser, cpw, sessions, profile, bart>>

\* The client's LoginRequest carries Digest(cpw[c], ckey[c]); a successful
\* login creates the session whose id becomes the authorization cookie
PasswordMatches(c) ==
    /\ GetUser(cuser[c]) # NoUser
    /\ Digest(GetUser(cuser[c]).pass, GetUser(cuser[c]).key) = Digest(cpw[c], ckey[c])

LoginSucceeds(c) ==
    /\ cpc' = [cpc EXCEPT ![c] = "done"]
    /\ sessions' = sessions \cup {c}

LoginFails(c) ==
    /\ cpc' = [cpc EXCEPT ![c] = "done"]
    /\ UNCHANGED sessions

\* newStubUser (a fresh uuid key, password "welcome1"), then UpsertUser
StubUserUpserted(c) ==
    \E k \in Keys : users' = [users EXCEPT ![cuser[c]] = [key |-> k, pass |-> Welcome1]]

\* A variant that takes the DisableAuth branch when the flag is off
ReceiveAndSendBUCPLoginRequestFlagInverted(c) ==
    /\ cpc[c] = "challenged"
    /\ \/ /\ PasswordMatches(c)
          /\ LoginSucceeds(c)
          /\ UNCHANGED users
       \/ /\ ~PasswordMatches(c)
          /\ ~DisableAuth
          /\ CanWrite
          /\ StubUserUpserted(c)
          /\ LoginSucceeds(c)
       \/ /\ ~PasswordMatches(c)
          /\ DisableAuth
          /\ LoginFails(c)
          /\ UNCHANGED users
    /\ UNCHANGED <<txOpen, cuser, cpw, ckey, profile, bart>>

\* GetUser error: returned; password matches: login OK; DisableAuth: the
\* stub user is upserted over whatever row there is (newStubUser or
\* UpsertUser may fail, ending the login with the error) and login OK;
\* otherwise the error subcode
ReceiveAndSendBUCPLoginRequest(c) ==
    /\ cpc[c] = "challenged"
    /\ \/ /\ LoginFails(c)                              \* GetUser error
          /\ UNCHANGED users
       \/ /\ PasswordMatches(c)
          /\ LoginSucceeds(c)
          /\ UNCHANGED users
       \/ /\ ~PasswordMatches(c)
          /\ DisableAuth
          /\ \/ /\ CanWrite
                /\ StubUserUpserted(c)
                /\ LoginSucceeds(c)
             \/ /\ LoginFails(c)              \* newStubUser or UpsertUser error
                /\ UNCHANGED users
       \/ /\ ~PasswordMatches(c)
          /\ ~DisableAuth
          /\ LoginFails(c)
          /\ UNCHANGED users
    /\ UNCHANGED <<txOpen, cuser, cpw, ckey, profile, bart>>

\* Signout: broadcastDeparture, then remove the session (a broadcast error
\* returns first and leaves the session in place: a stutter here)
Signout(c) ==
    /\ c \in sessions
    /\ sessions' = sessions \ {c}
    /\ UNCHANGED <<users, txOpen, cpc, cuser, cpw, ckey, profile, bart>>

(***************************************************************************)
(* Profiles and buddy icons.                                               *)
(***************************************************************************)

\* SetProfile: INSERT ... ON CONFLICT (screenName) DO UPDATE SET body; no
\* user row is needed
SetProfile(u, b) ==
    /\ CanWrite
    /\ profile' = [profile EXCEPT ![u] = b]
    /\ UNCHANGED <<users, txOpen, cpc, cuser, cpw, ckey, sessions, bart>>

\* BARTUpsert: INSERT ... ON CONFLICT DO NOTHING; a hash already stored
\* keeps its row
BARTUpsert(h) ==
    /\ CanWrite
    /\ bart' = bart \cup {h}
    /\ UNCHANGED <<users, txOpen, cpc, cuser, cpw, ckey, sessions, profile>>

Next ==
    \/ \E u \in Users, pw \in Passwords, k \in Keys :
          InsertUser(u, pw, k) \/ SetUserPassword(u, pw, k)
    \/ \E u \in Users : DeleteUser(u)
    \/ \E u \in Users, b \in Bodies : SetProfile(u, b)
    \/ \E h \in Hashes : BARTUpsert(h)
    \/ \E c \in Clients : \/ ReceiveAndSendAuthChallenge(c)
                          \/ ReceiveAndSendBUCPLoginRequest(c)
                          \/ Signout(c)

Spec == Init /\ [][Next]_vars

(***************************************************************************)
(* Properties.                                                             *)
(***************************************************************************)

\* A login creates a session only for a client that typed the user's current
\* password: the digest it computed under the challenge key matches the
\* stored one, even when the row was re-keyed or replaced in between.
LoginNeedsCurrentPassword ==
    [][\A c \in sessions' \ sessions :
          users[cuser[c]] # NoUser /\ cpw[c] = users[cuser[c]].pass]_vars

\* A login attempt never changes the credentials of a registered account:
\* a failed password check writes nothing, and the DisableAuth stub user is
\* only for screen names that have no row (spec 4.4).
LoginKeepsRegisteredCredentials ==
    [][\A c \in Clients, u \in Users :
          (cpc[c] = "challenged" /\ cpc'[c] = "done" /\ users[u] # NoUser)
             => users'[u] = users[u]]_vars

\* Registration never becomes impossible: whatever calls returned before,
\* a screen name with no row can still be inserted.  It fails once a call
\* returns with its transaction open, since that transaction keeps
\* SQLite's write lock.
RegistrationStaysPossible ==
    \A u \in Users :
        users[u] = NoUser => ENABLED (\E pw \in Passwords, k \in Keys : InsertUser(u, pw, k))

=============================================================================
