------------------------------- MODULE Settings -------------------------------
(***************************************************************************)
(* core/conf/settings.py: what a deployment configures, as far as the other *)
(* modules depend on it, and which configurations a process refuses to start *)
(* with.                                                                    *)
(***************************************************************************)
Environments == {"local", "dev", "prod"}

\* Each password of the code's list of weak ones is also too short.
Passwords == {"short", "simple", "strong"}

\* TRUSTED_PROXY_CIDRS: networks of a developer's machine, whole private ranges,
\* networks of the deployment.
Cidrs == {"local", "broad", "own"}

\* Secrets: whether they were set.  A session secret that was not is made up by each
\* process for itself.  shortShutdown: SHUTDOWN_TIMEOUT is set below the five seconds of
\* the steps it bounds; by default it is twice that.
Configurations ==
  [env : Environments, jwtSecret : BOOLEAN, origins : BOOLEAN, cidrs : SUBSET Cidrs,
   password : Passwords, mfa : BOOLEAN, mfaSecret : BOOLEAN, sessionSecret : BOOLEAN,
   shortShutdown : BOOLEAN]

RejectsJwtSecret(c) == c.env = "prod" /\ ~c.jwtSecret
RejectsAdminPassword(c) == c.env = "prod" /\ c.password # "strong"
RejectsMfaSettings(c) == (c.env = "prod" /\ ~c.mfa) \/ (c.mfa /\ ~c.mfaSecret)
RejectsCorsOrigins(c) == c.env = "prod" /\ ~c.origins
RejectsTrustedProxies(c) ==
  c.env = "prod" /\ (c.cidrs \subseteq {"local"} \/ "broad" \in c.cidrs)

Rejected(c) ==
  \/ RejectsJwtSecret(c) \/ RejectsAdminPassword(c) \/ RejectsMfaSettings(c)
  \/ RejectsCorsOrigins(c) \/ RejectsTrustedProxies(c)

\* _should_use_fallback()
FallsBack(c) == c.env \in {"local", "dev"}
===============================================================================
