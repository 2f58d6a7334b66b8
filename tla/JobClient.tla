----------------------------- MODULE JobClient -----------------------------
(***************************************************************************)
(* A job's calls to the IGA platform from end to end: BrokerIgaClient of    *)
(* the job SDK (src/src/sdk/scheduler-sdk.js) posts to the broker route of  *)
(* the scheduler (routes/internalRuntimeIga.js behind                       *)
(* middleware/internalAuth.js), whose proxy is IgaProxy.                    *)
(*                                                                         *)
(* Two layers retry: the SDK posts a call a second time when the broker     *)
(* answers 401, and for each post the proxy asks the platform a second time *)
(* when the platform answers 401.  A post <<c, k>>, the k-th of call c, is  *)
(* a request of IgaProxy; its other requests come from jobs of which        *)
(* nothing more is said.                                                    *)
(*                                                                         *)
(* The OIDC token of a post is not kept: the middleware answers 401 for any *)
(* exception of the verification, so 401 is a possible answer to every post *)
(* and the SDK fetches a token whenever it has dropped the one it had.      *)
(***************************************************************************)
EXTENDS IgaProxy

CONSTANT Calls   \* calls of igaClient.execute

Posts == Calls \X {1, 2}

ASSUME JobClientAssumption == Posts \subseteq Requests

VARIABLES call,     \* the calls
          posts,    \* posts the broker has not handled
          answers   \* the broker's answers that do not come from the proxy

jobVars == <<call, posts, answers>>

Call == [phase : {"idle", "token", "posted", "done", "failed"}, run : Run, dispatch : Nat,
         try : {1, 2}]

JobTypeOK ==
  /\ call \in [Calls -> Call]
  /\ posts \subseteq Posts
  /\ answers \subseteq [post : Posts, status : {"401", "error"}]

JobInit ==
  /\ call = [c \in Calls |-> [phase |-> "idle", run |-> CHOOSE r \in Run : TRUE,
                              dispatch |-> 0, try |-> 1]]
  /\ posts = {}
  /\ answers = {}

\* The post the call is waiting for.
Current(c) == <<c, call[c].try>>

End(c, phase) == call' = [call EXCEPT ![c].phase = phase]

\* The job of some attempt of the run, which may be superseded by now, calls.
execute(c, r, d) ==
  /\ call[c].phase = "idle"
  /\ d \in 1..token[r]
  /\ call' = [call EXCEPT ![c] = [phase |-> "token", run |-> r, dispatch |-> d, try |-> 1]]
  /\ UNCHANGED <<posts, answers, proxyVars, tokenVars>>

\* _getToken, from the cache or the metadata server, and the post.
Post(c) ==
  /\ call[c].phase = "token"
  /\ End(c, "posted")
  /\ posts' = posts \cup {Current(c)}
  /\ UNCHANGED <<answers, proxyVars, tokenVars>>

TokenFails(c) ==
  /\ call[c].phase = "token"
  /\ End(c, "failed")
  /\ UNCHANGED <<posts, answers, proxyVars, tokenVars>>

\* The middleware turns the post away before the proxy sees it.
Unauthorized(p) ==
  /\ p \in posts
  /\ posts' = posts \ {p}
  /\ answers' = answers \cup {[post |-> p, status |-> "401"]}
  /\ UNCHANGED <<call, proxyVars, tokenVars>>

Admitted(p) ==
  /\ p \in posts
  /\ Admit(p, call[p[1]].run)
  /\ req'[p].dispatch = call[p[1]].dispatch
  /\ posts' = posts \ {p}
  /\ UNCHANGED <<call, answers>>

\* The proxy refuses the run or the dispatch id, or the middleware the audience or
\* the principal: a status other than 401.
Refused(p) ==
  /\ p \in posts
  /\ posts' = posts \ {p}
  /\ answers' = answers \cup {[post |-> p, status |-> "error"]}
  /\ UNCHANGED <<call, proxyVars, tokenVars>>

\* A 401 to the first post drops the token and posts again, to the second is an error.
Answered401(c) ==
  /\ call[c].phase = "posted"
  /\ [post |-> Current(c), status |-> "401"] \in answers
  /\ IF call[c].try = 1
     THEN call' = [call EXCEPT ![c].phase = "token", ![c].try = 2]
     ELSE End(c, "failed")
  /\ UNCHANGED <<posts, answers, proxyVars, tokenVars>>

\* globalErrorHandler gives the proxy's errors a status that is never 401.
Answered(c) ==
  /\ call[c].phase = "posted"
  /\ \/ /\ req[Current(c)].phase \in {"done", "failed"}
        /\ End(c, req[Current(c)].phase)
     \/ /\ [post |-> Current(c), status |-> "error"] \in answers
        /\ End(c, "failed")
  /\ UNCHANGED <<posts, answers, proxyVars, tokenVars>>

\* Plausible bug: a post that timed out is sent again, as one that got a 401 is.
GiveUpResent(c, lost) ==
  /\ call[c].phase = "posted"
  /\ IF call[c].try = 1
     THEN call' = [call EXCEPT ![c].phase = "token", ![c].try = 2]
     ELSE End(c, "failed")
  /\ posts' = posts \ lost
  /\ UNCHANGED <<answers, proxyVars, tokenVars>>

\* Plausible bug: fetch without AbortSignal.timeout.
GiveUpNever(c, lost) == FALSE /\ UNCHANGED <<jobVars, proxyVars, tokenVars>>

\* The post or its answer is lost, or the 30 seconds are over: an error to the job,
\* and whatever the broker was doing goes on.
GiveUp(c, lost) ==
  /\ call[c].phase = "posted"
  /\ End(c, "failed")
  /\ posts' = posts \ lost
  /\ UNCHANGED <<answers, proxyVars, tokenVars>>

JobStep ==
  \/ \E c \in Calls :
       \/ \E r \in Run, d \in 1..MaxDispatch : execute(c, r, d)
       \/ Post(c) \/ TokenFails(c) \/ Answered401(c) \/ Answered(c)
       \/ \E lost \in {{}, {Current(c)}} : GiveUp(c, lost)
  \/ \E p \in posts : Unauthorized(p) \/ Admitted(p) \/ Refused(p)

JobNext ==
  \/ JobStep /\ UNCHANGED cvars
  \/ /\ \/ Serve
        \/ \E c \in Requests \ Posts, r \in Run : Admit(c, r)
        \/ TokenNext /\ UNCHANGED proxyVars
     /\ UNCHANGED <<cvars, jobVars>>
  \/ RunStep /\ UNCHANGED jobVars

allVars == <<vars, jobVars>>

Init == ContractInit /\ TokenInit /\ ProxyInit /\ JobInit

JobSpec == Init /\ [][JobNext]_allVars

\* The SDK's own timers; of the broker, the platform and the network nothing is assumed.
JobFairness ==
  \A c \in Calls :
    /\ WF_allVars((Post(c) \/ TokenFails(c)) /\ UNCHANGED cvars)
    /\ WF_allVars((Answered401(c) \/ Answered(c) \/ GiveUp(c, {})) /\ UNCHANGED cvars)

JobFairSpec == JobSpec /\ Fairness /\ JobFairness

-----------------------------------------------------------------------------
\* The SDK's state, the posts in flight and the proxy behind them hold values of
\* their types.
JobClientTypeOK == TypeOK /\ JobTypeOK

Effects(c) == effects[<<c, 1>>] + effects[<<c, 2>>]

\* One call, up to two posts, up to four messages to the platform: the platform
\* carries it out at most once, whatever tokens expire at either layer and
\* whatever answers are lost or late; and a call that returned a result to the
\* job was carried out (retryOn401 of the SDK, of IgaClient).
CallCarriedOutOnce ==
  \A c \in Calls :
    /\ Effects(c) <= 1
    /\ call[c].phase = "done" => Effects(c) = 1

\* A call of a job always comes back, whatever of broker, proxy, token endpoint
\* and platform is silent.
CallsEnd == \A c \in Calls : call[c].phase = "token" ~> call[c].phase \in {"done", "failed"}
=============================================================================
