--------------------------- MODULE DesktopSession ---------------------------
(* Who is signed in to the desktop client: AuthContext.tsx, auth.service.ts *)
(* and the client it calls the server with. The session is kept in memory  *)
(* and in local storage; the server may be away, and then seed accounts    *)
(* sign in locally. While a call is outstanding the program shows nothing  *)
(* but a loading screen, so no other handler runs.                         *)
EXTENDS Naturals

VARIABLES
    token,        \* the access token in local storage
    stored,       \* the user in local storage
    offlineMode,  \* the flag in local storage
    user,         \* the user in memory: who is shown as signed in
    call          \* the call that is awaited, if any

sessionVars == <<token, stored, offlineMode, user, call>>

(* A user comes from the server or is built from a seed account.           *)
Who == {"nobody", "server", "local"}

(* checkCurrentUser, started with the program: without a token nobody is   *)
(* signed in, in offline mode the stored user is, else the server is asked *)
(* while the stored user is assumed.                                       *)
Start(t, s, off) ==
    /\ token' = t /\ stored' = s /\ offlineMode' = off
    /\ user' = IF t = "none" THEN "nobody" ELSE s
    /\ call' = IF t # "none" /\ ~off THEN "getMe" ELSE "none"

SessionInit ==
    /\ token = "none" /\ stored = "nobody" /\ offlineMode = FALSE
    /\ user = "nobody" /\ call = "none"

(* The window is reloaded or the program restarted, also in the middle of  *)
(* a call, whose answer nobody hears.                                      *)
RestartSession == Start(token, stored, offlineMode)

(* The form accepts the firm's two mail domains only, then asks the        *)
(* server; the account may be a seed account with its password, or not.    *)
SubmitLogin(seed) ==
    /\ call = "none" /\ user = "nobody"
    /\ call' = IF seed THEN "login as seed" ELSE "login"
    /\ UNCHANGED <<token, stored, offlineMode, user>>

(* AuthService.login on an accepting answer ...                            *)
LoginAccepted ==
    /\ call \in {"login", "login as seed"}
    /\ token' = "server" /\ stored' = "server" /\ user' = "server"
    /\ offlineMode' = FALSE
    /\ call' = "none"

SignInLocally ==
    token' = "local" /\ stored' = "local" /\ user' = "local" /\ offlineMode' = TRUE

(* Mutant of LoginFailed: loading is not reset after an error.             *)
LoginFailedLoading(refused) ==
    /\ call \in {"login", "login as seed"}
    /\ call' = "over"
    /\ UNCHANGED <<token, stored, offlineMode, user>>

(* ... and on any other: a refusal, an error, or none at all. A refusal    *)
(* also removes the access token (onTokenExpired).                         *)
LoginFailed(refused) ==
    /\ call \in {"login", "login as seed"}
    /\ IF call = "login as seed"
       THEN SignInLocally
       ELSE /\ token' = IF refused THEN "none" ELSE token
            /\ UNCHANGED <<stored, offlineMode, user>>
    /\ call' = "none"

(* getCurrentUser: the server knows the token.                             *)
MeAccepted ==
    /\ call = "getMe"
    /\ user' = "server"
    /\ call' = "none"
    /\ UNCHANGED <<token, stored, offlineMode>>

(* Mutant of KeepStoredUser: the stored user is kept as if accepted.       *)
KeepStoredUserOnline == user' = stored /\ UNCHANGED offlineMode

(* The stored user is not kicked out by an error, but works offline.       *)
KeepStoredUser ==
    /\ user' = stored
    /\ offlineMode' = (stored # "nobody" \/ offlineMode)

(* getCurrentUser on a refusal, which removes the token, and on an error.  *)
MeFailed(refused) ==
    /\ call = "getMe"
    /\ token' = IF refused THEN "none" ELSE token
    /\ KeepStoredUser
    /\ call' = "none"
    /\ UNCHANGED stored

(* A search of a signed-in user is refused: the token has expired, or is   *)
(* the made-up one of an offline session and the server is back.           *)
SearchRefused ==
    /\ call = "none" /\ user # "nobody"
    /\ token' = "none"
    /\ user' = "nobody"
    /\ UNCHANGED <<stored, offlineMode, call>>

Clear ==
    /\ token' = "none" /\ stored' = "nobody" /\ offlineMode' = FALSE
    /\ user' = "nobody" /\ call' = "none"

(* AuthService.logout: an offline session has nothing to tell the server.  *)
Logout ==
    /\ call = "none" /\ user # "nobody"
    /\ IF offlineMode
       THEN Clear
       ELSE call' = "logout" /\ UNCHANGED <<token, stored, offlineMode, user>>

(* Mutant of LogoutAnswered: an error leaves the session where it is.      *)
LogoutAnsweredOk(ok) ==
    /\ call = "logout"
    /\ IF ok THEN Clear
       ELSE user' = "nobody" /\ call' = "none" /\ UNCHANGED <<token, stored, offlineMode>>

(* The session is cleared whatever the server answers.                     *)
LogoutAnswered(ok) ==
    /\ call = "logout"
    /\ Clear

(* An awaited call is answered, refused or fails.                          *)
Answer ==
    \/ LoginAccepted
    \/ MeAccepted
    \/ \E refused \in BOOLEAN : LoginFailed(refused) \/ MeFailed(refused)
    \/ \E ok \in BOOLEAN : LogoutAnswered(ok)

SessionNext ==
    \/ Answer
    \/ RestartSession
    \/ \E seed \in BOOLEAN : SubmitLogin(seed)
    \/ SearchRefused
    \/ Logout

SessionSpec == SessionInit /\ [][SessionNext]_sessionVars /\ WF_sessionVars(Answer)

(* Tokens and users are one of theirs, and one call at most is awaited.    *)
SessionTypeOK ==
    /\ token \in {"none", "server", "local"}
    /\ stored \in Who /\ user \in Who
    /\ offlineMode \in BOOLEAN
    /\ call \in {"none", "getMe", "login", "login as seed", "logout"}

(* Nobody signed in means that no token is left behind, whatever failed:   *)
(* no restart after a logout, an expiry or a failed login brings a user    *)
(* back without a login.                                                   *)
SignedOutStaysOut == call = "none" /\ user = "nobody" => token = "none"

(* A user whom the server has not accepted works in offline mode: only a   *)
(* session that the server gave is ever shown as one of the server, after  *)
(* any sequence of failures, fallbacks and restarts.                       *)
UncheckedIsOffline ==
    call = "none" /\ user # "nobody" /\ ~offlineMode => user = "server" /\ token = "server"

(* The loading screen goes away, also when the server does not answer.     *)
LoadingEnds == call # "none" ~> call = "none"
=============================================================================
