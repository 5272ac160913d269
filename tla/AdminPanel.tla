------------------------------ MODULE AdminPanel ------------------------------
(***************************************************************************)
(* The admin panel's sessions (core/infrastructure/admin/auth_backend.py,   *)
(* setup.py).  A session is a cookie the workers sign, each with the same    *)
(* secret or each with one of its own (Settings).                           *)
(*                                                                         *)
(* External: Starlette's SessionMiddleware, which takes a cookie it cannot   *)
(* verify for no session and then leaves it with the browser; and the        *)
(* credentials, checked by identity-plan-kit.                               *)
(***************************************************************************)
EXTENDS Settings, ClientAddress

CONSTANTS AllowedIps,   \* ADMIN_ALLOWED_IPS
          Requests      \* what requests look like: [chain, direct]

ASSUME PanelAssumption ==
  \A r \in Requests : r.chain \in Seq(Addresses \cup Unreadable) /\ r.direct \in Addresses

VARIABLES cookie,     \* the worker that signed the session of the browser
          login,      \* history: the worker that took its last login, "nobody" if there
                      \* was none or the session has expired
          logout      \* history: the worker that took the last logout since

panelVars == <<cookie, login, logout>>

\* This worker, those that run beside it, and this one before its last restart.
Signers == {"this", "other", "earlier"}

PanelTypeOK == cookie \in Signers \cup {"none"} /\ {login, logout} \subseteq Signers \cup {"nobody"}

PanelInit == cookie = "none" /\ login = "nobody" /\ logout = "nobody"

\* Workers verify what is signed with their secret.
Verifies(w, c) == cookie # "none" /\ (c.sessionSecret \/ cookie = w)

IpAllowed(r) == AllowedIps = {} \/ ClientAddress(r.chain, r.direct) \in AllowedIps

\* A new session says mfa_verified = False where MFA is enabled, and no code ever
\* sets it to True.
Verified(c) == ~c.mfa

\* login(): the address first, then the credentials, which must be good to change
\* anything.
Login(w, r) ==
  /\ IpAllowed(r)
  /\ cookie' = w
  /\ login' = w /\ logout' = "nobody"

\* Mutant: logout() leaves the session.
LogoutForgets(w, c) == cookie # "none" /\ logout' = w /\ UNCHANGED <<cookie, login>>

\* logout() asks for no address.  A worker that cannot verify the session cannot end
\* it.
Logout(w, c) ==
  /\ cookie # "none"
  /\ cookie' = IF Verifies(w, c) THEN "none" ELSE cookie
  /\ logout' = w
  /\ UNCHANGED login

\* authenticate()
Passes(w, r, c) == IpAllowed(r) /\ Verifies(w, c) /\ Verified(c)

\* max_age has elapsed since the last answer.
SessionExpires ==
  /\ cookie # "none"
  /\ cookie' = "none" /\ login' = "nobody" /\ logout' = "nobody"

\* This worker is started anew, with a new secret if none is set.
WorkerReplaced ==
  LET Replaced(w) == IF w = "this" THEN "earlier" ELSE w
  IN cookie' = Replaced(cookie) /\ login' = Replaced(login) /\ logout' = Replaced(logout)
===============================================================================
