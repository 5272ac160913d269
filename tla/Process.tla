------------------------------- MODULE Process -------------------------------
(***************************************************************************)
(* A worker process (Lifespan) among those of the same image, which all      *)
(* serve the admin panel to one browser (AdminPanel): app.Dockerfile starts  *)
(* eight, each of which reads its settings for itself.                      *)
(***************************************************************************)
EXTENDS Lifespan, AdminPanel

processVars == <<vars, panelVars>>

TypeOK == LifespanTypeOK /\ PanelTypeOK

Init == LifespanInit /\ PanelInit

\* This worker serves while its lifespan() does, the others whenever their settings,
\* which are the same, let them start.
Serves(w) == ~Rejected(settings) /\ (w = "this" => phase = "serving")

PanelStep ==
  \/ \E w \in {"this", "other"} :
       /\ Serves(w)
       /\ \/ \E r \in Requests : Login(w, r)
          \/ Logout(w, settings)
  \/ SessionExpires

Next ==
  \/ LifespanNext /\ UNCHANGED panelVars
  \/ Restarts /\ WorkerReplaced
  \/ PanelStep /\ UNCHANGED vars

Spec == Init /\ [][Next]_processVars

\* Runs the program's own steps: everything that has a time-out or asks nobody.  A
\* database that stalls may hold the SET statements and the probe's SELECT for ever.
Fairness ==
  /\ WF_processVars(Loads /\ UNCHANGED panelVars)
  /\ WF_processVars(db # "stalls" /\ ConnectEnds /\ UNCHANGED panelVars)
  /\ WF_processVars(WakesUp /\ UNCHANGED panelVars)
  /\ WF_processVars(CacheConnects /\ UNCHANGED panelVars)
  /\ WF_processVars(KitStartEnds /\ UNCHANGED panelVars)
  /\ WF_processVars(KitStops /\ UNCHANGED panelVars)
  /\ WF_processVars(RedisTimesOut /\ UNCHANGED panelVars)
  /\ WF_processVars(PgTimesOut /\ UNCHANGED panelVars)
  /\ WF_processVars(ClosingEnds /\ UNCHANGED panelVars)
  /\ WF_processVars(ProbeProceeds /\ UNCHANGED panelVars)

FairSpec == Spec /\ Fairness

-----------------------------------------------------------------------------
(* Properties *)

\* Who passes has logged in, from an address the trusted proxies vouch for and the panel
\* allows, and where MFA is enabled the password alone passes nobody.  Whoever logs in
\* once passes at every worker that can read the session until it is ended or expires,
\* and a logout ends it for all workers: with a shared secret without exception, without
\* one unless another worker than that of the login took the logout, when the session
\* goes on at the worker of the login and nowhere else.  What limits the rate of a
\* request is the address the panel sees.
\*   (That MFA is verified nowhere, auth_backend.py:220, is a known gap: where it is
\* enabled, as it must be in production, nobody passes at all.  On a chain such as
\* <<office, stranger>> the client is the stranger, the last hop that is no trusted proxy:
\* rate_limiting.py:23, "takes first IP", and proxy_validation.py:112, "the first IP is
\* the client", say otherwise; line 111, the comment at line 143 and the tests agree.)
AdminsPass ==
  \A w \in {"this", "other"}, r \in Requests :
    LET Allowed(a) == AllowedIps = {} \/ a \in AllowedIps
        Clients == {a \in Addresses : VouchedFor(r.chain, r.direct, a)}
        Readers(v) == IF settings.sessionSecret THEN Signers ELSE {v}
        passes == Serves(w) /\ Passes(w, r, settings)
    IN /\ RateLimitKey(r.chain, r.direct) \in Clients
       /\ passes =>
            /\ ~settings.mfa
            /\ \E a \in Clients : Allowed(a)
            /\ login # "nobody" /\ login \in Readers(w)
            /\ logout = "nobody" \/ logout \notin Readers(w)
       /\ /\ Serves(w) /\ ~settings.mfa /\ \A a \in Clients : Allowed(a)
          /\ login # "nobody" /\ login \in Readers(w) /\ logout = "nobody"
          => passes
===============================================================================
