---------------------------- MODULE TokenManager ----------------------------
(***************************************************************************)
(* TokenManager (src/src/iga/tokenManager.js): the cache of the OAuth      *)
(* access token of one scheduler process and its single refresh in flight. *)
(*                                                                         *)
(* Access tokens are numbered in the order the token endpoint issues them; *)
(* 0 is null.  A token that is close to its expiry on the process's clock  *)
(* is in expiring; one the IGA platform no longer accepts (expired there,  *)
(* or revoked) is in rejected.                                             *)
(***************************************************************************)
EXTENDS Integers

CONSTANT MaxTokens   \* bound: tokens the endpoint issues

ASSUME TokenManagerAssumption == MaxTokens \in Nat

VARIABLES issued,      \* the last token issued
          cached,      \* cachedToken
          refreshing,  \* inFlightRefresh is set
          expiring,
          rejected

tokenVars == <<issued, cached, refreshing, expiring, rejected>>

NoToken == 0

TokenTypeOK ==
  /\ issued \in 0..MaxTokens
  /\ cached \in 0..issued
  /\ refreshing \in BOOLEAN
  /\ expiring \subseteq 1..issued
  /\ rejected \subseteq 1..issued

TokenInit ==
  /\ issued = 0
  /\ cached = NoToken
  /\ refreshing = FALSE
  /\ expiring = {}
  /\ rejected = {}

\* cachedToken && !isExpiringSoon(cachedToken)
Usable(t) == t # NoToken /\ t \notin expiring

\* fetchToken resolves: inFlightRefresh is cleared and every call that awaits it
\* stores the token, before anything else runs.
Refreshed ==
  /\ refreshing
  /\ issued < MaxTokens
  /\ issued' = issued + 1
  /\ cached' = issued + 1
  /\ refreshing' = FALSE
  /\ UNCHANGED <<expiring, rejected>>

\* Plausible bug: an answer without an access token is cached as if it had one.
RefreshFailedCached ==
  /\ refreshing
  /\ refreshing' = FALSE
  /\ cached' = issued + 1
  /\ UNCHANGED <<issued, expiring, rejected>>

\* fetchToken rejects: HTTP error, malformed answer, or its timeout.
RefreshFailed ==
  /\ refreshing
  /\ refreshing' = FALSE
  /\ UNCHANGED <<issued, cached, expiring, rejected>>

\* The clock comes within refreshSkewMs of a token's expiry.
Expire(t) ==
  /\ t \in (1..issued) \ expiring
  /\ expiring' = expiring \cup {t}
  /\ UNCHANGED <<issued, cached, refreshing, rejected>>

\* The platform stops accepting a token.
Revoke(t) ==
  /\ t \in (1..issued) \ rejected
  /\ rejected' = rejected \cup {t}
  /\ UNCHANGED <<issued, cached, refreshing, expiring>>

TokenNext == \E t \in 1..issued : Expire(t) \/ Revoke(t)
=============================================================================
