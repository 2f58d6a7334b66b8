------------------------------ MODULE IgaProxy ------------------------------
(***************************************************************************)
(* The IGA proxy: RuntimeIgaProxyService.request admits a request of a     *)
(* job's attempt, and IgaClient.request sends it to the IGA platform with  *)
(* a token of the TokenManager, once more if the platform answers 401.     *)
(*                                                                         *)
(* The runs the requests belong to behave as RunContract says, which the   *)
(* run queue is proved to implement.                                       *)
(*                                                                         *)
(* A request is in one of the phases                                       *)
(*   new       not admitted yet                                            *)
(*   admitted  the started event is being emitted                          *)
(*   waiting   getAccessToken awaits the refresh in flight                 *)
(*   sent      fetch awaits the platform's answer                          *)
(*   refused   the answer 401 is on its way                                *)
(*   done, failed                                                          *)
(***************************************************************************)
EXTENDS RunContract, TokenManager

CONSTANTS Requests,      \* concurrent requests of jobs
          MaxDispatch    \* bound: dispatch ids one run can be given

ASSUME IgaProxyAssumption == MaxDispatch \in Nat /\ Run # {}

VARIABLES req,      \* the requests
          wire,     \* messages to the platform that it has not handled
          effects   \* how often the platform has carried out each request

proxyVars == <<req, wire, effects>>

Request == [phase : {"new", "admitted", "waiting", "sent", "refused", "done", "failed"},
            run : Run, dispatch : Nat, token : Nat, refusedToken : Nat]

NoRequest == [phase |-> "new", run |-> CHOOSE r \in Run : TRUE, dispatch |-> 0,
              token |-> NoToken, refusedToken |-> NoToken]

ProxyTypeOK ==
  /\ req \in [Requests -> Request]
  /\ wire \subseteq [request : Requests, token : Nat]
  /\ effects \in [Requests -> Nat]

ProxyInit ==
  /\ req = [c \in Requests |-> NoRequest]
  /\ wire = {}
  /\ effects = [c \in Requests |-> 0]

Update(c, phase) == req' = [req EXCEPT ![c].phase = phase]

\* Plausible bug: any attempt of a running run is let in (SEC-7 of docs/bug-log.md).
AdmissibleByState(r, d) == state[r] = "RUNNING"

\* run.state is RUNNING and the caller's dispatchId is the run's.
Admissible(r, d) == state[r] = "RUNNING" /\ (token[r] # 0 => d = token[r])

\* request() up to the checks of the run it reads.  The caller is the child
\* process of some attempt of the run, of the present one or of an earlier.
Admit(c, r) ==
  /\ req[c].phase = "new"
  /\ \E d \in 1..token[r] :
       /\ Admissible(r, d)
       /\ req' = [req EXCEPT ![c].phase = "admitted", ![c].run = r, ![c].dispatch = d]
  /\ UNCHANGED <<wire, effects, tokenVars>>

\* getAccessToken, called when the cache holds t: the request is sent at once,
\* or joins the refresh in flight, or starts one.
GetAccessToken(c, t, refusedToken) ==
  \/ /\ Usable(t)
     /\ req' = [req EXCEPT ![c].phase = "sent", ![c].token = t,
                           ![c].refusedToken = refusedToken]
     /\ wire' = wire \cup {[request |-> c, token |-> t]}
     /\ UNCHANGED refreshing
  \/ /\ ~Usable(t)
     /\ req' = [req EXCEPT ![c].phase = "waiting", ![c].refusedToken = refusedToken]
     /\ refreshing' = TRUE
     /\ UNCHANGED wire

Start(c) ==
  /\ req[c].phase = "admitted"
  /\ GetAccessToken(c, cached, NoToken)
  /\ UNCHANGED <<issued, cached, expiring, rejected, effects>>

Waiting == {c \in Requests : req[c].phase = "waiting"}

\* The refresh resolves and everything that awaits it is sent.
RefreshDone ==
  /\ Refreshed
  /\ req' = [c \in Requests |-> IF c \in Waiting
                                THEN [req[c] EXCEPT !.phase = "sent", !.token = issued + 1]
                                ELSE req[c]]
  /\ wire' = wire \cup {[request |-> c, token |-> issued + 1] : c \in Waiting}
  /\ UNCHANGED effects

RefreshError ==
  /\ RefreshFailed
  /\ req' = [c \in Requests |-> IF c \in Waiting THEN [req[c] EXCEPT !.phase = "failed"]
                                                 ELSE req[c]]
  /\ UNCHANGED <<wire, effects>>

\* The platform (external) handles a message: it refuses a token it does not
\* accept, carries the request out, or fails without doing so.  The client may
\* have given up by then, the answer may be lost, and an answer that is too large
\* or malformed (validateResponseSize, JSON.parse) is an error to the caller.
Hears(m, phase) ==
  \/ /\ req[m.request].phase = "sent"
     /\ req[m.request].token = m.token
     /\ Update(m.request, phase)
  \/ UNCHANGED req

PlatformRefuses(m) ==
  /\ m.token \in rejected
  /\ Hears(m, "refused")
  /\ UNCHANGED effects

PlatformActs(m) ==
  /\ m.token \notin rejected
  /\ Hears(m, "done") \/ Hears(m, "failed")
  /\ effects' = [effects EXCEPT ![m.request] = @ + 1]

PlatformFails(m) ==
  /\ Hears(m, "failed")
  /\ UNCHANGED effects

Platform ==
  \E m \in wire :
    /\ PlatformRefuses(m) \/ PlatformActs(m) \/ PlatformFails(m)
    /\ wire' = wire \ {m}
    /\ UNCHANGED tokenVars

\* The network loses a message.
Lose(m) ==
  /\ wire' = wire \ {m}
  /\ UNCHANGED <<req, effects, tokenVars>>

\* Plausible bug: invalidate() leaves the cache as it is.
InvalidatedNever == cached

\* What invalidate() leaves in the cache, whatever token is there by then.
Invalidated == NoToken

\* The first 401: invalidate() and the request again.
RetryOn401(c) ==
  /\ req[c].phase = "refused"
  /\ req[c].refusedToken = NoToken
  /\ cached' = Invalidated
  /\ GetAccessToken(c, Invalidated, req[c].token)
  /\ UNCHANGED <<issued, expiring, rejected, effects>>

\* The second 401 is an error like any other.
Fail401(c) ==
  /\ req[c].phase = "refused"
  /\ req[c].refusedToken # NoToken
  /\ Update(c, "failed")
  /\ UNCHANGED <<wire, effects, tokenVars>>

\* Plausible bug: a request that timed out is sent again.
TimeoutRetried(c) ==
  /\ req[c].phase = "sent"
  /\ req[c].refusedToken = NoToken
  /\ GetAccessToken(c, cached, req[c].token)
  /\ UNCHANGED <<issued, cached, expiring, rejected, effects>>

\* Plausible bug: fetch without AbortSignal.timeout.
TimeoutNever(c) == FALSE /\ UNCHANGED <<proxyVars, tokenVars>>

\* AbortSignal.timeout, or a broken connection: the error goes to the caller.
Timeout(c) ==
  /\ req[c].phase \in {"sent", "refused"}
  /\ Update(c, "failed")
  /\ UNCHANGED <<wire, effects, tokenVars>>

\* What happens to requests once they are admitted.
Serve ==
  \/ \E c \in Requests : Start(c) \/ RetryOn401(c) \/ Fail401(c) \/ Timeout(c)
  \/ RefreshDone
  \/ RefreshError
  \/ Platform
  \/ \E m \in wire : Lose(m)

vars == <<cvars, tokenVars, proxyVars>>

\* The steps of ContractNext, within the bound on dispatch ids.
RunStep ==
  /\ \/ \E r \in Run : Complete(r) \/ Cancel(r)
     \/ \E r \in Run, t \in 0..MaxDispatch :
          token' = [token EXCEPT ![r] = t] /\ (Submit(r) \/ Retry(r))
     \/ token' \in [Run -> 0..MaxDispatch] /\ \E S \in SUBSET Run : Claim(S)
  /\ UNCHANGED <<tokenVars, proxyVars>>

-----------------------------------------------------------------------------

\* The cache, the requests and the messages hold values of their types; the cache
\* never holds a token that was not issued.
TypeOK == TokenTypeOK /\ ProxyTypeOK

\* The platform carries a request out at most once, whatever tokens are revoked
\* and whatever answers are lost or late: only a 401 makes IgaClient.request send
\* it again.  A request that succeeded was carried out.
CarriedOutOnce ==
  \A c \in Requests :
    /\ effects[c] <= 1
    /\ req[c].phase = "done" => effects[c] = 1

\* The second try uses a token issued after the one that was refused, even when
\* other requests refresh, use and invalidate the cache meanwhile (invalidate,
\* inFlightRefresh).
RetryHasNewerToken ==
  \A c \in Requests :
    req[c].phase \in {"sent", "refused"} => req[c].token > req[c].refusedToken

\* Once a request of a later attempt of a run has been admitted, none of an
\* earlier attempt is: a ghost of a superseded attempt is kept away from the
\* platform (docs/adr/0018).
AttemptsActInOrder ==
  [][\A b, c \in Requests :
       /\ req[c].phase = "new" /\ req'[c].phase # "new"
       /\ req[b].phase # "new" /\ req[b].run = req'[c].run
       => req[b].dispatch <= req'[c].dispatch]_vars

\* Timers fire and promises settle; the platform and the network need not help.
Fairness ==
  /\ WF_vars((RefreshDone \/ RefreshError) /\ UNCHANGED cvars)
  /\ \A c \in Requests :
       /\ WF_vars(Start(c) /\ UNCHANGED cvars)
       /\ WF_vars((RetryOn401(c) \/ Fail401(c)) /\ UNCHANGED cvars)
       /\ WF_vars(Timeout(c) /\ UNCHANGED cvars)

\* Every admitted request is answered, even when the platform never answers and
\* the token endpoint always fails: nobody waits for a refresh that is over.
RequestsEnd ==
  \A c \in Requests : req[c].phase = "admitted" ~> req[c].phase \in {"done", "failed"}
=============================================================================
