----------------------------- MODULE ClientAddress ----------------------------
(***************************************************************************)
(* Whose request it is behind proxies: extract_client_ip_secure()           *)
(* (core/security/proxy_validation.py), as the rate limiter and the admin    *)
(* panel ask it.  A chain is the list in X-Forwarded-For, empty if there is  *)
(* none.                                                                    *)
(***************************************************************************)
EXTENDS Naturals, Sequences, FiniteSetsExt

CONSTANTS Addresses,
          Unreadable,     \* what stands in a header and is no address
          TrustedProxies

ASSUME AddressesAssumption ==
  TrustedProxies \subseteq Addresses /\ Unreadable \cap Addresses = {}

IsTrustedProxy(hop) == hop \in TrustedProxies

\* The hops the walk from right to left stops at.
Untrusted(chain) == {i \in DOMAIN chain : chain[i] \in Addresses /\ ~IsTrustedProxy(chain[i])}

\* Mutant: the client is the first hop.
LeftmostAddress(chain, direct) ==
  IF chain = << >> \/ ~IsTrustedProxy(direct) \/ chain[1] \notin Addresses THEN direct ELSE chain[1]

ClientAddress(chain, direct) ==
  IF chain = << >> \/ ~IsTrustedProxy(direct) THEN direct
  ELSE IF Untrusted(chain) # {} THEN chain[Max(Untrusted(chain))]
  ELSE IF chain[1] \in Addresses THEN chain[1] ELSE direct

\* get_user_id_or_ip(): backend.core.auth.jwt does not exist, so a token never counts
\* and the key is the address.
RateLimitKey(chain, direct) == ClientAddress(chain, direct)

\* The reference: follow the hops from the peer as long as a trusted proxy vouches
\* for the one before it; hops that cannot be read vouch for nothing and are nobody's.
VouchedFor(chain, direct, client) ==
  LET hops == Append(chain, direct)
      Vouches(j) == hops[j] \in Addresses => IsTrustedProxy(hops[j])
  IN \E i \in DOMAIN hops :
       /\ hops[i] = client /\ client \in Addresses
       /\ \A j \in (i + 1)..Len(hops) : Vouches(j)
       /\ IsTrustedProxy(client) => \A j \in DOMAIN hops : Vouches(j)
===============================================================================
