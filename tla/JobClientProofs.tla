-------------------------- MODULE JobClientProofs --------------------------
(***************************************************************************)
(* Proofs about calls of jobs, for any number of calls, requests, runs,     *)
(* tokens and dispatch ids.                                                 *)
(*                                                                         *)
(* That a call is carried out at most once rests on two things.  A request  *)
(* has at most one message under way and is sent again only when that       *)
(* message was refused (MessagesFit).  A call posts a second time only when *)
(* its first post was turned away before the proxy saw it (PostsFit).       *)
(***************************************************************************)
EXTENDS JobClient, TLAPS

\* The runs behave as RunContract says; no request is ahead of its run.
RunsFit ==
  /\ state \in [Run -> {"ABSENT", "QUEUED", "RUNNING", "CANCELLING", "SUCCEEDED", "FAILED",
                        "CANCELLED"}]
  /\ token \in [Run -> Nat]
  /\ \A r \in Run : state[r] = "ABSENT" => token[r] = 0
  /\ \A c \in Requests : req[c].dispatch <= token[req[c].run]

\* No request holds a token that was not issued, and a second try a newer one.
TokensFit ==
  \A c \in Requests :
    /\ req[c].token <= issued /\ req[c].refusedToken <= issued
    /\ req[c].phase \in {"sent", "refused"} => req[c].token > req[c].refusedToken

\* A request that is not (or not any more) with the platform has no message
\* under way, and one that has a message has had no effect.
MessagesFit ==
  /\ \A m \in wire : /\ req[m.request].phase \in {"sent", "failed"}
                     /\ req[m.request].token = m.token
                     /\ effects[m.request] = 0
  /\ \A c \in Requests :
       /\ effects[c] <= 1
       /\ req[c].phase \in {"new", "admitted", "waiting", "refused"} => effects[c] = 0
       /\ req[c].phase = "done" => effects[c] = 1

Unseen(p) == p \notin posts /\ req[p].phase = "new" /\ \A a \in answers : a.post # p

\* What the posts of a call are, by how far the call has got.
PostsFit ==
  /\ \A p \in posts : req[p].phase = "new" /\ \A a \in answers : a.post # p
  /\ \A a \in answers : req[a.post].phase = "new" /\ a.post \notin posts
  /\ \A c \in Calls :
       /\ call[c].phase \in {"idle", "token"} => Unseen(Current(c))
       /\ call[c].phase = "idle" => call[c].try = 1
       /\ call[c].try = 1 => Unseen(<<c, 2>>)
       /\ call[c].try = 2 => req[<<c, 1>>].phase = "new" /\ <<c, 1>> \notin posts
       /\ call[c].phase = "done" => req[Current(c)].phase = "done"

ProxyInv == TypeOK /\ RunsFit /\ TokensFit /\ MessagesFit

JInv == ProxyInv /\ JobTypeOK /\ PostsFit

-----------------------------------------------------------------------------
(* The proxy *)

\* A step of the proxy never takes a request back to "new" or away from "done".
PhasesKept ==
  \A c \in Requests : /\ req[c].phase = "new" => req'[c].phase = "new"
                      /\ req[c].phase = "done" => req'[c].phase = "done"

\* The request gets a usable token and is sent, or waits for one.
LEMMA AccessToken ==
  ASSUME ProxyInv, NEW c \in Requests, NEW t \in 0..issued, NEW u \in 0..issued,
         req[c].phase \in {"admitted", "refused"}, Usable(t) => t > u,
         GetAccessToken(c, t, u), cached' \in 0..issued,
         UNCHANGED <<issued, expiring, rejected, effects, cvars>>
  PROVE  ProxyInv' /\ PhasesKept
<1> USE TokenManagerAssumption DEF ProxyInv, TypeOK, TokenTypeOK, ProxyTypeOK, Request, NoToken
<1>1. req[c].run \in Run /\ effects[c] = 0
  BY DEF MessagesFit
<1>2. CASE Usable(t)
  <2>1. /\ req' = [req EXCEPT ![c].phase = "sent", ![c].token = t, ![c].refusedToken = u]
        /\ wire' = wire \cup {[request |-> c, token |-> t]}
        /\ UNCHANGED refreshing
    BY <1>2 DEF GetAccessToken
  <2>2. TypeOK'
    <3>1. ProxyTypeOK'
      <4>1. t \in Nat /\ u \in Nat
        OBVIOUS
      <4> DEFINE sent == [req[c] EXCEPT !.phase = "sent", !.token = t, !.refusedToken = u]
      <4>2. sent \in Request
        BY <4>1
      <4>3. req' = [req EXCEPT ![c] = sent]
        BY <2>1
      <4>4. req' \in [Requests -> Request]
        BY <4>2, <4>3
      <4>5. wire' \subseteq [request : Requests, token : Nat]
        BY <2>1, <4>1
      <4> QED BY <4>4, <4>5
    <3>2. (refreshing \in BOOLEAN)'
      BY <2>1
    <3> QED BY <3>1, <3>2
  <2>3. RunsFit'
    BY <2>1 DEF RunsFit, cvars
  <2>4. TokensFit'
    BY <2>1, <1>2 DEF TokensFit
  <2>5. MessagesFit'
    BY <2>1, <1>1 DEF MessagesFit
  <2>6. PhasesKept
    BY <2>1 DEF PhasesKept
  <2> QED BY <2>2, <2>3, <2>4, <2>5, <2>6
<1>3. CASE ~Usable(t)
  <2>1. /\ req' = [req EXCEPT ![c].phase = "waiting", ![c].refusedToken = u]
        /\ refreshing' = TRUE
        /\ UNCHANGED wire
    BY <1>3 DEF GetAccessToken
  <2>2. TypeOK'
    <3>1. ProxyTypeOK'
      <4>1. t \in Nat /\ u \in Nat
        OBVIOUS
      <4>2. req' \in [Requests -> Request]
        BY <2>1, <4>1
      <4> QED BY <2>1, <4>2
    <3>2. (refreshing \in BOOLEAN)'
      BY <2>1
    <3> QED BY <3>1, <3>2
  <2>3. RunsFit'
    BY <2>1 DEF RunsFit, cvars
  <2>4. TokensFit'
    BY <2>1 DEF TokensFit
  <2>5. MessagesFit'
    BY <2>1, <1>1 DEF MessagesFit
  <2>6. PhasesKept
    BY <2>1 DEF PhasesKept
  <2> QED BY <2>2, <2>3, <2>4, <2>5, <2>6
<1> QED BY <1>2, <1>3

\* A request goes on to another phase without a new message.
LEMMA PhaseMoves ==
  ASSUME ProxyInv, NEW c \in Requests, NEW phase \in {"refused", "done", "failed"},
         Update(c, phase), wire' \subseteq wire,
         effects' \in [Requests -> Nat],
         \A b \in Requests \ {c} : effects'[b] = effects[b],
         req[c].phase \in {"sent", "refused"},
         phase # "failed" => req[c].phase = "sent" /\ \A m \in wire' : m.request # c,
         phase = "refused" => effects'[c] = 0,
         phase = "done" => effects'[c] = 1,
         effects'[c] <= 1, \A m \in wire' : m.request = c => effects'[c] = 0,
         UNCHANGED <<tokenVars, cvars>>
  PROVE  ProxyInv' /\ PhasesKept
<1> USE DEF ProxyInv, TypeOK, TokenTypeOK, ProxyTypeOK, Request, Update
<1>1. TypeOK'
  BY DEF tokenVars
<1>2. RunsFit'
  BY DEF RunsFit, cvars
<1>3. TokensFit'
  BY DEF TokensFit, tokenVars
<1>4. MessagesFit'
  BY DEF MessagesFit
<1>5. PhasesKept
  BY DEF PhasesKept
<1> QED BY <1>1, <1>2, <1>3, <1>4, <1>5

LEMMA RefreshDoneKeeps ==
  ASSUME ProxyInv, RefreshDone, UNCHANGED cvars
  PROVE  ProxyInv' /\ PhasesKept
<1> USE DEF ProxyInv
<1>1. /\ issued' = issued + 1 /\ issued < MaxTokens /\ cached' = issued + 1 /\ refreshing' = FALSE
      /\ UNCHANGED <<expiring, rejected, effects>>
  BY DEF RefreshDone, Refreshed
<1>9. issued \in 0..MaxTokens
  BY DEF TypeOK, TokenTypeOK
<1>10. issued \in Nat /\ issued' \in Nat /\ issued' \in 0..MaxTokens /\ cached' = issued' /\ issued' > issued
  BY <1>1, <1>9, TokenManagerAssumption
<1>2. /\ req' \in [Requests -> Request]
      /\ \A c \in Requests : req'[c] = IF req[c].phase = "waiting"
                                    THEN [req[c] EXCEPT !.phase = "sent", !.token = issued']
                                    ELSE req[c]
  <2>1. \A c \in Requests : [req[c] EXCEPT !.phase = "sent", !.token = issued'] \in Request
    <3> TAKE c \in Requests
    <3>1. req[c] \in Request
      BY DEF TypeOK, ProxyTypeOK
    <3> QED BY <1>10, <3>1 DEF Request
  <2>2. req' = [c \in Requests |-> IF req[c].phase = "waiting"
                                   THEN [req[c] EXCEPT !.phase = "sent", !.token = issued']
                                   ELSE req[c]]
    BY <1>1 DEF RefreshDone, Waiting
  <2> QED BY <2>1, <2>2 DEF TypeOK, ProxyTypeOK
<1>11. \A c \in Requests :
         /\ req'[c].dispatch = req[c].dispatch /\ req'[c].run = req[c].run
         /\ req'[c].refusedToken = req[c].refusedToken
         /\ req[c].phase = "waiting" => req'[c].phase = "sent" /\ req'[c].token = issued'
         /\ req[c].phase # "waiting" => req'[c] = req[c]
  BY <1>2 DEF TypeOK, ProxyTypeOK, Request
<1>3. \A m \in wire' : m \in wire \/ \E c \in Requests : /\ req[c].phase = "waiting"
                                                         /\ m = [request |-> c, token |-> issued']
  BY <1>1 DEF RefreshDone, Waiting
<1>4. TypeOK'
  <2>1. wire' \subseteq [request : Requests, token : Nat]
    <3>1. \A c \in Requests : [request |-> c, token |-> issued'] \in [request : Requests, token : Nat]
      BY <1>10
    <3> QED BY <1>3, <3>1 DEF TypeOK, ProxyTypeOK
  <2>2. TokenTypeOK'
    <3>1. (expiring \subseteq 1..issued)' /\ (rejected \subseteq 1..issued)'
      BY <1>1, <1>10 DEF TypeOK, TokenTypeOK
    <3>2. (cached \in 0..issued)'
      BY <1>10
    <3> QED BY <1>1, <1>10, <3>1, <3>2 DEF TokenTypeOK
  <2> QED BY <1>1, <1>2, <2>1, <2>2 DEF TypeOK, ProxyTypeOK
<1>5. RunsFit'
  BY <1>11 DEF RunsFit, cvars
<1>6. TokensFit'
  <2> SUFFICES ASSUME NEW c \in Requests
               PROVE  /\ req'[c].token <= issued' /\ req'[c].refusedToken <= issued'
                      /\ req'[c].phase \in {"sent", "refused"} =>
                           req'[c].token > req'[c].refusedToken
    BY DEF TokensFit
  <2>1. req[c].token \in Nat /\ req[c].refusedToken \in Nat
    BY DEF TypeOK, ProxyTypeOK, Request
  <2> QED BY <1>10, <1>11, <2>1 DEF TokensFit
<1>7. MessagesFit'
  <2>1. ASSUME NEW m \in wire'
        PROVE  /\ req'[m.request].phase \in {"sent", "failed"}
               /\ req'[m.request].token = m.token
               /\ effects'[m.request] = 0
    <3>1. CASE m \in wire
      BY <1>1, <1>11, <3>1 DEF MessagesFit, TypeOK, ProxyTypeOK
    <3>2. CASE m \notin wire
      BY <1>1, <1>11, <1>3, <3>2 DEF MessagesFit
    <3> QED BY <3>1, <3>2
  <2> QED BY <1>1, <1>11, <2>1 DEF MessagesFit
<1>8. PhasesKept
  BY <1>11 DEF PhasesKept
<1> QED BY <1>4, <1>5, <1>6, <1>7, <1>8

LEMMA RefreshErrorKeeps ==
  ASSUME ProxyInv, RefreshError, UNCHANGED cvars
  PROVE  ProxyInv' /\ PhasesKept
<1> USE TokenManagerAssumption DEF ProxyInv, TypeOK, TokenTypeOK, ProxyTypeOK, Request, NoToken,
        RefreshError, RefreshFailed
<1>1. \A c \in Requests : req'[c] = IF req[c].phase = "waiting"
                                    THEN [req[c] EXCEPT !.phase = "failed"] ELSE req[c]
  BY DEF Waiting
<1>2. TypeOK'
  <2>1. \A c \in Requests : [req[c] EXCEPT !.phase = "failed"] \in Request
    OBVIOUS
  <2>2. req' \in [Requests -> Request]
    BY <2>1
  <2> QED BY <2>2
<1>3. RunsFit'
  BY <1>1 DEF RunsFit, cvars
<1>4. TokensFit'
  BY <1>1 DEF TokensFit
<1>5. MessagesFit'
  BY <1>1 DEF MessagesFit
<1>6. PhasesKept
  BY <1>1 DEF PhasesKept
<1> QED BY <1>2, <1>3, <1>4, <1>5, <1>6

\* A message leaves the wire and nobody hears of it; it may have had its effect.
LEMMA SilentlyGone ==
  ASSUME ProxyInv, NEW m \in wire, wire' = wire \ {m}, UNCHANGED <<req, tokenVars, cvars>>,
         \/ UNCHANGED effects
         \/ effects' = [effects EXCEPT ![m.request] = @ + 1]
  PROVE  ProxyInv' /\ PhasesKept
<1> USE DEF ProxyInv, TypeOK, TokenTypeOK, ProxyTypeOK
<1>1. TypeOK'
  BY DEF tokenVars
<1>2. RunsFit' /\ TokensFit' /\ PhasesKept
  BY DEF RunsFit, TokensFit, PhasesKept, cvars, tokenVars
<1>3. MessagesFit'
  BY DEF MessagesFit
<1> QED BY <1>1, <1>2, <1>3

LEMMA PlatformKeeps ==
  ASSUME ProxyInv, Platform, UNCHANGED cvars
  PROVE  ProxyInv' /\ PhasesKept
<1> USE DEF ProxyInv, TypeOK, ProxyTypeOK
<1>1. PICK m \in wire : /\ PlatformRefuses(m) \/ PlatformActs(m) \/ PlatformFails(m)
                        /\ wire' = wire \ {m}
                        /\ UNCHANGED tokenVars
  BY DEF Platform
<1>2. /\ m.request \in Requests /\ effects[m.request] = 0
      /\ \A k \in wire' : k.request # m.request
  BY <1>1 DEF MessagesFit
<1>3. ASSUME NEW phase \in {"refused", "done", "failed"}, Hears(m, phase),
             phase = "refused" => UNCHANGED effects,
             phase = "done" => effects' = [effects EXCEPT ![m.request] = @ + 1],
             \/ UNCHANGED effects
             \/ effects' = [effects EXCEPT ![m.request] = @ + 1]
      PROVE  ProxyInv' /\ PhasesKept
  <2>1. CASE UNCHANGED req
    BY <1>1, <1>3, <2>1, SilentlyGone
  <2>2. CASE req[m.request].phase = "sent" /\ Update(m.request, phase)
    <3>1. /\ effects' \in [Requests -> Nat] /\ effects'[m.request] <= 1
          /\ \A b \in Requests \ {m.request} : effects'[b] = effects[b]
          /\ phase = "refused" => effects'[m.request] = 0
          /\ phase = "done" => effects'[m.request] = 1
          /\ phase # "failed" => req[m.request].phase = "sent"
                                 /\ \A k \in wire' : k.request # m.request
          /\ \A k \in wire' : k.request = m.request => effects'[m.request] = 0
      BY <1>2, <1>3, <2>2
    <3>2. wire' \subseteq wire
      BY <1>1
    <3> QED BY <1>1, <1>2, <2>2, <3>1, <3>2, PhaseMoves
  <2> QED BY <1>3, <2>1, <2>2 DEF Hears
<1>4. CASE PlatformRefuses(m)
  BY <1>3, <1>4 DEF PlatformRefuses
<1>5. CASE PlatformActs(m)
  BY <1>3, <1>5 DEF PlatformActs
<1>6. CASE PlatformFails(m)
  BY <1>3, <1>6 DEF PlatformFails
<1> QED BY <1>1, <1>4, <1>5, <1>6

LEMMA ServeKeeps ==
  ASSUME ProxyInv, Serve, UNCHANGED cvars
  PROVE  ProxyInv' /\ PhasesKept
<1> USE TokenManagerAssumption DEF ProxyInv
<1>1. ASSUME NEW c \in Requests, Start(c)
      PROVE  ProxyInv' /\ PhasesKept
  <2>1. cached \in 0..issued /\ NoToken \in 0..issued /\ (Usable(cached) => cached > NoToken)
    BY DEF TypeOK, TokenTypeOK, NoToken, Usable
  <2> QED BY <1>1, <2>1, AccessToken DEF Start
<1>2. ASSUME NEW c \in Requests, RetryOn401(c)
      PROVE  ProxyInv' /\ PhasesKept
  <2>1. Invalidated \in 0..issued /\ req[c].token \in 0..issued /\ ~Usable(Invalidated)
    BY DEF TypeOK, TokenTypeOK, ProxyTypeOK, Request, TokensFit, NoToken, Usable, Invalidated
  <2> QED BY <1>2, <2>1, AccessToken DEF RetryOn401
<1>3. ASSUME NEW c \in Requests, Fail401(c) \/ Timeout(c)
      PROVE  ProxyInv' /\ PhasesKept
  <2>1. /\ effects' \in [Requests -> Nat] /\ effects'[c] <= 1
        /\ \A m \in wire' : m.request = c => effects'[c] = 0
    BY <1>3 DEF Fail401, Timeout, MessagesFit, TypeOK, ProxyTypeOK
  <2>2. wire' \subseteq wire
    BY <1>3 DEF Fail401, Timeout
  <2>3. req[c].phase \in {"sent", "refused"} /\ Update(c, "failed") /\ UNCHANGED <<tokenVars, effects>>
    BY <1>3 DEF Fail401, Timeout
  <2> QED BY <2>1, <2>2, <2>3, PhaseMoves
<1>4. ASSUME NEW m \in wire, Lose(m)
      PROVE  ProxyInv' /\ PhasesKept
  BY <1>4, SilentlyGone DEF Lose
<1> QED
  BY <1>1, <1>2, <1>3, <1>4, RefreshDoneKeeps, RefreshErrorKeeps, PlatformKeeps DEF Serve

\* A request is let in with the dispatch id in force.
LEMMA AdmitKeeps ==
  ASSUME ProxyInv, NEW c \in Requests, NEW r \in Run, Admit(c, r), UNCHANGED cvars
  PROVE  /\ ProxyInv'
         /\ req[c].phase = "new" /\ req'[c].phase = "admitted" /\ req'[c].run = r
         /\ req'[c].dispatch = token[r]
         /\ \A b \in Requests \ {c} : req'[b] = req[b]
<1> USE DEF ProxyInv
<1>1. PICK d \in 1..token[r] :
        /\ Admissible(r, d)
        /\ req' = [req EXCEPT ![c].phase = "admitted", ![c].run = r, ![c].dispatch = d]
  BY DEF Admit
<1>2. token[r] \in Nat /\ d = token[r]
  BY <1>1 DEF RunsFit, Admissible
<1>3. req[c] \in Request /\ req[c].phase = "new" /\ UNCHANGED <<wire, effects, tokenVars>>
  BY DEF Admit, TypeOK, ProxyTypeOK
<1> DEFINE new == [req[c] EXCEPT !.phase = "admitted", !.run = r, !.dispatch = d]
<1>4. /\ new \in Request
      /\ new.phase = "admitted" /\ new.run = r /\ new.dispatch = token[r]
      /\ new.token = req[c].token /\ new.refusedToken = req[c].refusedToken
  BY <1>2, <1>3 DEF Request
<1>5. req' = [req EXCEPT ![c] = new]
  BY <1>1
<1> HIDE DEF new
<1>6. /\ req' \in [Requests -> Request]
      /\ req'[c] = new
      /\ \A b \in Requests \ {c} : req'[b] = req[b]
  BY <1>4, <1>5 DEF TypeOK, ProxyTypeOK
<1>7. TypeOK'
  BY <1>3, <1>6 DEF TypeOK, TokenTypeOK, ProxyTypeOK, tokenVars
<1>8. RunsFit'
  BY <1>2, <1>4, <1>6 DEF RunsFit, cvars
<1>9. TokensFit'
  BY <1>3, <1>4, <1>6 DEF TokensFit, tokenVars
<1>10. MessagesFit'
  <2>1. \A m \in wire : m.request \in Requests \ {c}
    BY <1>3 DEF MessagesFit, TypeOK, ProxyTypeOK
  <2> QED BY <1>3, <1>4, <1>6, <2>1 DEF MessagesFit
<1> QED BY <1>3, <1>4, <1>6, <1>7, <1>8, <1>9, <1>10

LEMMA TokenKeeps ==
  ASSUME ProxyInv, TokenNext, UNCHANGED <<proxyVars, cvars>>
  PROVE  ProxyInv'
<1> USE DEF ProxyInv
<1>1. PICK t \in 1..issued : Expire(t) \/ Revoke(t)
  BY DEF TokenNext
<1>2. /\ UNCHANGED <<issued, cached, refreshing>>
      /\ expiring' \subseteq 1..issued /\ rejected' \subseteq 1..issued
  BY <1>1 DEF Expire, Revoke, TypeOK, TokenTypeOK
<1>3. TypeOK'
  BY <1>2 DEF TypeOK, TokenTypeOK, ProxyTypeOK, proxyVars
<1> QED BY <1>2, <1>3 DEF RunsFit, TokensFit, MessagesFit, proxyVars, cvars

\* Dispatch ids of a run only grow.
LEMMA RunKeeps ==
  ASSUME ProxyInv, RunStep
  PROVE  ProxyInv'
<1> USE DEF ProxyInv
<1>1. UNCHANGED <<tokenVars, proxyVars>>
  BY DEF RunStep
<1>2. TypeOK' /\ TokensFit' /\ MessagesFit'
  BY <1>1 DEF TypeOK, TokenTypeOK, ProxyTypeOK, TokensFit, MessagesFit, proxyVars, tokenVars
<1>3. ASSUME NEW r \in Run, Complete(r) \/ Cancel(r)
      PROVE  RunsFit'
  BY <1>1, <1>3 DEF RunsFit, Complete, Cancel, Move, proxyVars
<1>4. ASSUME NEW r \in Run, NEW t \in 0..MaxDispatch, token' = [token EXCEPT ![r] = t],
             Submit(r) \/ Retry(r)
      PROVE  RunsFit'
  <2>1. t \in Nat /\ token[r] \in Nat /\ token[r] <= t
    BY <1>4, IgaProxyAssumption DEF RunsFit, Submit, Retry, Move
  <2>2. \A q \in Run : token'[q] \in Nat /\ token[q] \in Nat /\ token[q] <= token'[q]
    BY <1>4, <2>1 DEF RunsFit
  <2>3. \A q \in Run : state'[q] = "ABSENT" => token'[q] = 0
    BY <1>4 DEF RunsFit, Submit, Retry, Move
  <2>4. state' \in [Run -> {"ABSENT", "QUEUED", "RUNNING", "CANCELLING", "SUCCEEDED", "FAILED",
                           "CANCELLED"}]
    BY <1>4 DEF RunsFit, Submit, Retry, Move
  <2>5. \A c \in Requests : req[c].run \in Run /\ req[c].dispatch \in Nat
    BY DEF TypeOK, ProxyTypeOK, Request
  <2>6. token' \in [Run -> Nat]
    BY <1>4, <2>1 DEF RunsFit
  <2>7. \A c \in Requests : req'[c].dispatch <= token'[req'[c].run]
    BY <1>1, <2>2, <2>5 DEF RunsFit, proxyVars
  <2> QED BY <2>3, <2>4, <2>6, <2>7 DEF RunsFit
<1>5. ASSUME token' \in [Run -> 0..MaxDispatch], NEW S \in SUBSET Run, Claim(S)
      PROVE  RunsFit'
  <2>1. \A q \in Run : token'[q] \in Nat /\ token[q] \in Nat /\ token[q] <= token'[q]
    BY <1>5, IgaProxyAssumption DEF RunsFit, Claim
  <2>2. \A q \in Run : state'[q] = "ABSENT" => token'[q] = 0
    BY <1>5 DEF RunsFit, Claim
  <2>3. state' \in [Run -> {"ABSENT", "QUEUED", "RUNNING", "CANCELLING", "SUCCEEDED", "FAILED",
                           "CANCELLED"}]
    BY <1>5 DEF RunsFit, Claim
  <2>4. \A c \in Requests : req[c].run \in Run /\ req[c].dispatch \in Nat
    BY DEF TypeOK, ProxyTypeOK, Request
  <2>5. token' \in [Run -> Nat]
    BY <1>5, IgaProxyAssumption
  <2>6. \A c \in Requests : req'[c].dispatch <= token'[req'[c].run]
    BY <1>1, <2>1, <2>4 DEF RunsFit, proxyVars
  <2> QED BY <2>2, <2>3, <2>5, <2>6 DEF RunsFit
<1> QED BY <1>2, <1>3, <1>4, <1>5 DEF RunStep

-----------------------------------------------------------------------------
(* The posts of a call *)

LEMMA PostFacts ==
  /\ \A c \in Calls : <<c, 1>> \in Posts /\ <<c, 2>> \in Posts
  /\ \A p \in Posts : p \in Requests /\ p[1] \in Calls
  /\ \A c, d \in Calls, j, k \in {1, 2} : <<c, j>> = <<d, k>> => c = d /\ j = k
  /\ JobTypeOK => \A c \in Calls : Current(c) \in Posts /\ call[c] \in Call
BY JobClientAssumption DEF Posts, Current, JobTypeOK, Call

\* The proxy serves, a token expires, a run changes: no post is touched.
LEMMA PostsKept ==
  ASSUME JobTypeOK, PostsFit, UNCHANGED jobVars,
         \A p \in Posts : /\ req[p].phase = "new" => req'[p].phase = "new"
                          /\ req[p].phase = "done" => req'[p].phase = "done"
  PROVE  JobTypeOK' /\ PostsFit'
<1>1. JobTypeOK'
  BY DEF JobTypeOK, jobVars
<1>2. \A a \in answers : a.post \in Posts
  BY DEF JobTypeOK
<1>3. posts \subseteq Posts
  BY DEF JobTypeOK
<1>4. \A c \in Calls : /\ UNCHANGED Current(c) /\ Current(c) \in Posts
                       /\ <<c, 1>> \in Posts /\ <<c, 2>> \in Posts
  BY PostFacts DEF Current, jobVars
<1>5. \A p \in Posts : Unseen(p) => Unseen(p)'
  BY DEF Unseen, jobVars
<1> QED BY <1>1, <1>2, <1>3, <1>4, <1>5 DEF PostsFit, jobVars

\* A call moves on to the phase and the try of k, and its posts stay where they are.
LEMMA CallMoves ==
  ASSUME JobTypeOK, PostsFit, NEW c \in Calls, NEW k \in Call,
         call' = [call EXCEPT ![c] = k], UNCHANGED <<answers, req>>, posts' \subseteq posts,
         k.phase # "idle",
         k.try = 1 => call[c].try = 1,
         k.try = 2 => req[<<c, 1>>].phase = "new" /\ <<c, 1>> \notin posts,
         k.phase = "token" => Unseen(<<c, k.try>>),
         k.phase = "done" => req[<<c, k.try>>].phase = "done"
  PROVE  JobTypeOK' /\ PostsFit'
<1>1. JobTypeOK'
  BY DEF JobTypeOK
<1>2. call'[c] = k /\ \A d \in Calls \ {c} : call'[d] = call[d]
  BY DEF JobTypeOK
<1>3. \A p : Unseen(p) => Unseen(p)'
  BY DEF Unseen
<1>4. ASSUME NEW d \in Calls
      PROVE  /\ call'[d].phase \in {"idle", "token"} => Unseen(Current(d))'
             /\ call'[d].phase = "idle" => call'[d].try = 1
             /\ call'[d].try = 1 => Unseen(<<d, 2>>)'
             /\ call'[d].try = 2 => req'[<<d, 1>>].phase = "new" /\ <<d, 1>> \notin posts'
             /\ call'[d].phase = "done" => req'[Current(d)'].phase = "done"
  <2>1. CASE d = c
    BY <1>2, <1>3, <2>1 DEF PostsFit, Current, Call
  <2>2. CASE d # c
    BY <1>2, <1>3, <2>2 DEF PostsFit, Current
  <2> QED BY <2>1, <2>2
<1>5. /\ \A p \in posts' : req'[p].phase = "new" /\ \A a \in answers' : a.post # p
      /\ \A a \in answers' : req'[a.post].phase = "new" /\ a.post \notin posts'
  BY DEF PostsFit
<1> QED BY <1>1, <1>4, <1>5 DEF PostsFit

LEMMA PostKeeps ==
  ASSUME JobTypeOK, PostsFit, NEW c \in Calls, Post(c)
  PROVE  JobTypeOK' /\ PostsFit'
<1> USE DEF Post, End, proxyVars
<1>1. Current(c) \in Posts /\ call[c] \in Call /\ Unseen(Current(c))
  BY PostFacts DEF PostsFit
<1>2. /\ [call[c] EXCEPT !.phase = "posted"] \in Call
      /\ call' = [call EXCEPT ![c] = [call[c] EXCEPT !.phase = "posted"]]
  BY <1>1 DEF Call
<1>3. JobTypeOK'
  BY <1>1, <1>2 DEF JobTypeOK
<1>4. /\ call'[c].phase = "posted" /\ call'[c].try = call[c].try /\ UNCHANGED Current(c)
      /\ \A d \in Calls \ {c} : call'[d] = call[d] /\ UNCHANGED Current(d)
  BY <1>1 DEF JobTypeOK, Current, Call
<1>5. Current(c) = <<c, call[c].try>> /\ call[c].try \in {1, 2}
  BY <1>1 DEF Current, Call
<1>6. \A p : Unseen(p) /\ p # Current(c) => Unseen(p)'
  BY DEF Unseen
<1>7. ASSUME NEW d \in Calls
      PROVE  /\ call'[d].phase \in {"idle", "token"} => Unseen(Current(d))'
             /\ call'[d].phase = "idle" => call'[d].try = 1
             /\ call'[d].try = 1 => Unseen(<<d, 2>>)'
             /\ call'[d].try = 2 => req'[<<d, 1>>].phase = "new" /\ <<d, 1>> \notin posts'
             /\ call'[d].phase = "done" => req'[Current(d)'].phase = "done"
  <2>1. CASE d = c
    BY <1>4, <1>5, <1>6, <2>1, PostFacts DEF PostsFit
  <2>2. CASE d # c
    <3>1. <<d, 1>> # Current(c) /\ <<d, 2>> # Current(c) /\ Current(d) # Current(c)
      BY <1>5, <2>2, PostFacts DEF Current
    <3> QED BY <1>4, <1>6, <2>2, <3>1 DEF PostsFit
  <2> QED BY <2>1, <2>2
<1>8. /\ \A p \in posts' : req'[p].phase = "new" /\ \A a \in answers' : a.post # p
      /\ \A a \in answers' : req'[a.post].phase = "new" /\ a.post \notin posts'
  BY <1>1 DEF PostsFit, Unseen
<1> QED BY <1>3, <1>7, <1>8 DEF PostsFit

LEMMA CallKeeps ==
  ASSUME JobTypeOK, PostsFit, NEW c \in Calls,
         \/ \E r \in Run, d \in 1..MaxDispatch : execute(c, r, d)
         \/ TokenFails(c) \/ Answered401(c) \/ Answered(c)
         \/ \E lost \in {{}, {Current(c)}} : GiveUp(c, lost)
  PROVE  JobTypeOK' /\ PostsFit'
<1>1. call[c] \in Call /\ Current(c) = <<c, call[c].try>> /\ call[c].try \in {1, 2}
  BY PostFacts DEF Current, Call
<1>2. ASSUME NEW phase \in {"failed", "done"}, End(c, phase),
             UNCHANGED <<answers, req>>, posts' \subseteq posts,
             phase = "done" => req[Current(c)].phase = "done"
      PROVE  JobTypeOK' /\ PostsFit'
  <2> DEFINE k == [call[c] EXCEPT !.phase = phase]
  <2>1. k \in Call /\ k.phase = phase /\ k.try = call[c].try
    BY <1>1 DEF Call
  <2>2. call' = [call EXCEPT ![c] = k]
    BY <1>2 DEF End
  <2>3. /\ k.phase # "idle" /\ k.phase # "token"
        /\ k.try = 1 => call[c].try = 1
        /\ k.try = 2 => req[<<c, 1>>].phase = "new" /\ <<c, 1>> \notin posts
        /\ k.phase = "done" => req[<<c, k.try>>].phase = "done"
    BY <1>1, <1>2, <2>1 DEF PostsFit
  <2> HIDE DEF k
  <2> QED BY <1>2, <2>1, <2>2, <2>3, CallMoves
<1>3. ASSUME NEW r \in Run, NEW d \in 1..MaxDispatch, execute(c, r, d)
      PROVE  JobTypeOK' /\ PostsFit'
  <2> DEFINE k == [phase |-> "token", run |-> r, dispatch |-> d, try |-> 1]
  <2>1. k \in Call /\ k.phase = "token" /\ k.try = 1
    BY IgaProxyAssumption DEF Call
  <2>2. call' = [call EXCEPT ![c] = k] /\ UNCHANGED <<posts, answers, req>>
    BY <1>3 DEF execute, proxyVars
  <2>3. call[c].try = 1 /\ Unseen(<<c, 1>>)
    BY <1>1, <1>3 DEF execute, PostsFit
  <2> HIDE DEF k
  <2>4. /\ k.phase # "idle" /\ k.phase # "done" /\ k.try # 2 /\ posts' \subseteq posts
        /\ Unseen(<<c, k.try>>) /\ (k.try = 1 => call[c].try = 1)
    BY <2>1, <2>2, <2>3
  <2> QED BY <2>1, <2>2, <2>4, CallMoves
<1>4. CASE TokenFails(c)
  BY <1>2, <1>4 DEF TokenFails, proxyVars
<1>5. CASE Answered401(c)
  <2>1. CASE call[c].try = 1
    <3> DEFINE k == [call[c] EXCEPT !.phase = "token", !.try = 2]
    <3>1. k \in Call /\ k.phase = "token" /\ k.try = 2
      BY <1>1 DEF Call
    <3>2. call' = [call EXCEPT ![c] = k] /\ UNCHANGED <<posts, answers, req>>
      BY <1>5, <2>1 DEF Answered401, proxyVars
    <3>3. Unseen(<<c, 2>>)
      BY <2>1 DEF PostsFit
    <3>4. req[<<c, 1>>].phase = "new" /\ <<c, 1>> \notin posts
      <4>1. [post |-> <<c, 1>>, status |-> "401"] \in answers
        BY <1>1, <1>5, <2>1 DEF Answered401
      <4>2. [post |-> <<c, 1>>, status |-> "401"].post = <<c, 1>>
        OBVIOUS
      <4> QED BY <4>1, <4>2 DEF PostsFit
    <3> HIDE DEF k
    <3>5. /\ k.phase # "idle" /\ k.phase # "done" /\ k.try # 1 /\ posts' \subseteq posts
          /\ Unseen(<<c, k.try>>)
          /\ k.try = 2 => req[<<c, 1>>].phase = "new" /\ <<c, 1>> \notin posts
      BY <3>1, <3>2, <3>3, <3>4
    <3> QED BY <3>1, <3>2, <3>5, CallMoves
  <2>2. CASE call[c].try # 1
    BY <1>2, <1>5, <2>2 DEF Answered401, proxyVars
  <2> QED BY <2>1, <2>2
<1>6. CASE Answered(c)
  <2>1. CASE req[Current(c)].phase \in {"done", "failed"} /\ End(c, req[Current(c)].phase)
    BY <1>2, <1>6, <2>1 DEF Answered, proxyVars
  <2>2. CASE End(c, "failed")
    BY <1>2, <1>6, <2>2 DEF Answered, proxyVars
  <2> QED BY <1>6, <2>1, <2>2 DEF Answered
<1>7. ASSUME NEW lost \in {{}, {Current(c)}}, GiveUp(c, lost)
      PROVE  JobTypeOK' /\ PostsFit'
  BY <1>2, <1>7 DEF GiveUp, proxyVars
<1> QED BY <1>3, <1>4, <1>5, <1>6, <1>7

\* The broker takes a post and answers it, or hands it to the proxy.
LEMMA BrokerKeeps ==
  ASSUME ProxyInv, JobTypeOK, PostsFit, NEW p \in posts, UNCHANGED cvars,
         Unauthorized(p) \/ Admitted(p) \/ Refused(p)
  PROVE  JobTypeOK' /\ PostsFit'
<1>1. /\ p \in Posts /\ p \in Requests /\ p[1] \in Calls /\ call[p[1]].run \in Run
      /\ UNCHANGED call /\ posts' = posts \ {p}
  BY PostFacts DEF Unauthorized, Admitted, Refused, JobTypeOK, Call
<1>2. \A c \in Calls : /\ UNCHANGED Current(c)
                       /\ Current(c) \in Posts /\ <<c, 1>> \in Posts /\ <<c, 2>> \in Posts
  BY <1>1, PostFacts DEF Current
<1>3. \A q \in Requests \ {p} : req'[q] = req[q]
  <2>1. CASE Admitted(p)
    BY <1>1, <2>1, AdmitKeeps DEF Admitted
  <2>2. CASE UNCHANGED req
    BY <2>2
  <2> QED BY <2>1, <2>2 DEF Unauthorized, Refused, proxyVars
<1>4. /\ answers' \subseteq [post : Posts, status : {"401", "error"}]
      /\ \A a \in answers' : a \in answers \/ (a.post = p /\ UNCHANGED req)
  BY <1>1 DEF Unauthorized, Admitted, Refused, JobTypeOK, proxyVars
<1>5. JobTypeOK'
  BY <1>1, <1>4 DEF JobTypeOK
<1>6. \A q \in Posts \ {p} : q \in Requests /\ (Unseen(q) => Unseen(q)')
  BY <1>1, <1>3, <1>4, PostFacts DEF Unseen
<1>7. /\ req[p].phase = "new"
      /\ \A a \in answers : a.post \in Posts \ {p}
  BY DEF PostsFit, JobTypeOK
<1>8. ASSUME NEW c \in Calls
      PROVE  /\ call'[c].phase \in {"idle", "token"} => Unseen(Current(c))'
             /\ call'[c].phase = "idle" => call'[c].try = 1
             /\ call'[c].try = 1 => Unseen(<<c, 2>>)'
             /\ call'[c].try = 2 => req'[<<c, 1>>].phase = "new" /\ <<c, 1>> \notin posts'
             /\ call'[c].phase = "done" => req'[Current(c)'].phase = "done"
  <2>1. \A q \in Posts : Unseen(q) => q # p
    BY DEF Unseen
  <2>2. call'[c].phase \in {"idle", "token"} => Unseen(Current(c))'
    BY <1>1, <1>2, <1>6, <2>1 DEF PostsFit
  <2>3. call'[c].try = 1 => Unseen(<<c, 2>>)'
    BY <1>1, <1>2, <1>6, <2>1 DEF PostsFit
  <2>4. call'[c].try = 2 => req'[<<c, 1>>].phase = "new" /\ <<c, 1>> \notin posts'
    BY <1>1, <1>2, <1>3, <1>6 DEF PostsFit
  <2>5. call'[c].phase = "done" => req'[Current(c)'].phase = "done"
    <3> SUFFICES ASSUME call[c].phase = "done"
                 PROVE  req'[Current(c)].phase = "done"
      BY <1>1, <1>2
    <3>1. req[Current(c)].phase = "done" /\ Current(c) # p
      BY <1>7 DEF PostsFit
    <3>2. Current(c) \in Requests \ {p}
      BY <1>2, <1>6, <3>1
    <3> QED BY <1>3, <3>1, <3>2
  <2> QED BY <1>1, <2>2, <2>3, <2>4, <2>5 DEF PostsFit
<1>9. \A q \in posts' : req'[q].phase = "new" /\ \A a \in answers' : a.post # q
  BY <1>1, <1>3, <1>4, PostFacts DEF PostsFit, JobTypeOK
<1>10. \A a \in answers' : req'[a.post].phase = "new" /\ a.post \notin posts'
  BY <1>1, <1>4, <1>6, <1>7, <1>3 DEF PostsFit
<1> QED BY <1>5, <1>8, <1>9, <1>10 DEF PostsFit

-----------------------------------------------------------------------------
(* The calls as a whole *)

LEMMA JobInitially == Init => JInv
<1> SUFFICES ASSUME Init PROVE JInv
  OBVIOUS
<1> DEFINE r0 == CHOOSE r \in Run : TRUE
           k0 == [phase |-> "idle", run |-> r0, dispatch |-> 0, try |-> 1]
<1>1. r0 \in Run
  BY IgaProxyAssumption
<1>2. /\ call = [c \in Calls |-> k0] /\ posts = {} /\ answers = {}
      /\ NoRequest = [phase |-> "new", run |-> r0, dispatch |-> 0, token |-> 0,
                      refusedToken |-> 0]
      /\ req = [c \in Requests |-> NoRequest] /\ wire = {} /\ effects = [c \in Requests |-> 0]
      /\ state = [r \in Run |-> "ABSENT"] /\ token = [r \in Run |-> 0]
  BY DEF Init, ContractInit, ProxyInit, JobInit, NoRequest, NoToken
<1> HIDE DEF r0
<1>3. TypeOK
  <2>1. NoRequest \in Request
    BY <1>1, <1>2 DEF Request
  <2>2. ProxyTypeOK
    BY <1>2, <2>1 DEF ProxyTypeOK
  <2>3. issued = 0 /\ cached = 0 /\ refreshing = FALSE /\ expiring = {} /\ rejected = {}
    BY DEF Init, TokenInit, NoToken
  <2>4. issued \in 0..MaxTokens /\ cached \in 0..issued
    BY <2>3, TokenManagerAssumption
  <2>5. TokenTypeOK
    BY <2>3, <2>4 DEF TokenTypeOK
  <2> QED BY <2>2, <2>5 DEF TypeOK
<1>4. RunsFit
  BY <1>1, <1>2 DEF RunsFit
<1>5. TokensFit /\ MessagesFit
  <2>1. issued = 0
    BY DEF Init, TokenInit
  <2> QED BY <1>2, <2>1 DEF TokensFit, MessagesFit
<1>6. k0 \in Call /\ k0.phase = "idle" /\ k0.try = 1
  BY <1>1 DEF Call
<1> HIDE DEF k0
<1>7. JobTypeOK
  BY <1>2, <1>6 DEF JobTypeOK
<1>8. PostsFit
  <2>1. \A c \in Calls : <<c, 1>> \in Requests /\ <<c, 2>> \in Requests
    BY PostFacts
  <2>2. \A c \in Calls : call[c].phase = "idle" /\ call[c].try = 1 /\ Current(c) = <<c, 1>>
    BY <1>2, <1>6 DEF Current
  <2>3. \A c \in Calls : Unseen(<<c, 1>>) /\ Unseen(<<c, 2>>)
    BY <1>2, <2>1 DEF Unseen
  <2> QED BY <1>2, <2>2, <2>3 DEF PostsFit
<1> QED BY <1>3, <1>4, <1>5, <1>7, <1>8 DEF JInv, ProxyInv

\* What a step lets in carries the dispatch id its run has now, and that is at
\* least the one of every request let in before.
InOrder ==
  \A b, c \in Requests :
    /\ req[c].phase = "new" /\ req'[c].phase # "new"
    /\ req[b].phase # "new" /\ req[b].run = req'[c].run
    => req[b].dispatch <= req'[c].dispatch

LEMMA AdmitInOrder ==
  ASSUME ProxyInv, NEW c \in Requests, NEW r \in Run, Admit(c, r), UNCHANGED cvars
  PROVE  InOrder
<1>1. /\ req'[c].run = r /\ req'[c].dispatch = token[r]
      /\ \A b \in Requests \ {c} : req'[b] = req[b]
  BY AdmitKeeps
<1>2. \A b \in Requests : req[b].dispatch <= token[req[b].run]
  BY DEF ProxyInv, RunsFit
<1> QED BY <1>1, <1>2 DEF InOrder

LEMMA JobStepKeeps ==
  ASSUME JInv, [JobNext]_allVars
  PROVE  JInv' /\ [InOrder]_vars
<1> USE DEF JInv
<1>1. CASE UNCHANGED allVars
  <2>1. ProxyInv'
    BY <1>1 DEF allVars, vars, cvars, tokenVars, proxyVars, ProxyInv, TypeOK, TokenTypeOK,
                ProxyTypeOK, RunsFit, TokensFit, MessagesFit
  <2>2. UNCHANGED <<jobVars, req, vars>>
    BY <1>1 DEF allVars, vars, proxyVars
  <2> QED BY <2>1, <2>2, PostsKept
<1>2. ASSUME NEW c \in Calls, UNCHANGED cvars,
             \/ Post(c)
             \/ \E r \in Run, d \in 1..MaxDispatch : execute(c, r, d)
             \/ TokenFails(c) \/ Answered401(c) \/ Answered(c)
             \/ \E lost \in {{}, {Current(c)}} : GiveUp(c, lost)
      PROVE  JInv' /\ [InOrder]_vars
  <2>1. UNCHANGED <<proxyVars, tokenVars>>
    BY <1>2 DEF Post, execute, TokenFails, Answered401, Answered, GiveUp
  <2>2. ProxyInv' /\ UNCHANGED vars
    BY <1>2, <2>1 DEF vars, cvars, tokenVars, proxyVars, ProxyInv, TypeOK, TokenTypeOK,
                ProxyTypeOK, RunsFit, TokensFit, MessagesFit
  <2> QED BY <1>2, <2>2, PostKeeps, CallKeeps
<1>3. ASSUME NEW p \in posts, UNCHANGED cvars, Unauthorized(p) \/ Admitted(p) \/ Refused(p)
      PROVE  JInv' /\ [InOrder]_vars
  <2>1. JobTypeOK' /\ PostsFit'
    BY <1>3, BrokerKeeps
  <2>2. CASE Admitted(p)
    <3>1. p \in Requests /\ call[p[1]].run \in Run
      BY PostFacts DEF JobTypeOK, Call
    <3> QED BY <1>3, <2>1, <2>2, <3>1, AdmitKeeps, AdmitInOrder DEF Admitted
  <2>3. CASE UNCHANGED <<proxyVars, tokenVars>>
    BY <1>3, <2>1, <2>3 DEF vars, cvars, tokenVars, proxyVars, ProxyInv, TypeOK, TokenTypeOK,
                ProxyTypeOK, RunsFit, TokensFit, MessagesFit
  <2> QED BY <1>3, <2>2, <2>3 DEF Unauthorized, Refused
<1>4. CASE Serve /\ UNCHANGED <<cvars, jobVars>>
  <2>1. ProxyInv' /\ PhasesKept
    BY <1>4, ServeKeeps
  <2>2. JobTypeOK' /\ PostsFit'
    <3>1. \A p \in Posts : /\ req[p].phase = "new" => req'[p].phase = "new"
                           /\ req[p].phase = "done" => req'[p].phase = "done"
      BY <2>1, PostFacts DEF PhasesKept
    <3> QED BY <1>4, <3>1, PostsKept
  <2>3. InOrder
    BY <2>1 DEF PhasesKept, InOrder
  <2> QED BY <2>1, <2>2, <2>3
<1>5. ASSUME NEW c \in Requests \ Posts, NEW r \in Run, Admit(c, r), UNCHANGED <<cvars, jobVars>>
      PROVE  JInv' /\ [InOrder]_vars
  <2>1. ProxyInv' /\ \A b \in Requests \ {c} : req'[b] = req[b]
    BY <1>5, AdmitKeeps
  <2>2. JobTypeOK' /\ PostsFit'
    BY <1>5, <2>1, PostsKept, PostFacts
  <2>3. InOrder
    BY <1>5, AdmitInOrder
  <2> QED BY <2>1, <2>2, <2>3
<1>6. CASE TokenNext /\ UNCHANGED proxyVars /\ UNCHANGED <<cvars, jobVars>>
  <2>1. ProxyInv' /\ UNCHANGED req
    BY <1>6, TokenKeeps DEF proxyVars
  <2>2. JobTypeOK' /\ PostsFit'
    BY <1>6, <2>1, PostsKept
  <2>3. InOrder
    BY <2>1 DEF InOrder
  <2> QED BY <2>1, <2>2, <2>3
<1>7. CASE RunStep /\ UNCHANGED jobVars
  <2>1. ProxyInv' /\ UNCHANGED req
    BY <1>7, RunKeeps DEF RunStep, proxyVars
  <2>2. JobTypeOK' /\ PostsFit'
    BY <1>7, <2>1, PostsKept
  <2>3. InOrder
    BY <2>1 DEF InOrder
  <2> QED BY <2>1, <2>2, <2>3
<1> QED BY <1>1, <1>2, <1>3, <1>4, <1>5, <1>6, <1>7 DEF JobNext, JobStep

\* Whatever is lost, late, revoked, retried or superseded, calls, posts, requests,
\* messages and runs fit together: JInv is an inductive invariant.
THEOREM JobInvariance == JobSpec => []JInv
<1>1. JInv /\ [JobNext]_allVars => JInv'
  BY JobStepKeeps
<1> QED BY <1>1, JobInitially, PTL DEF JobSpec

\* The SDK, the broker and the proxy hold values of their types, and the cache only
\* tokens that were issued (scheduler-sdk.js, tokenManager.js).
THEOREM JobTypes == JobSpec => []JobClientTypeOK
<1>1. JInv => JobClientTypeOK
  BY DEF JInv, ProxyInv, JobClientTypeOK
<1> QED BY <1>1, JobInvariance, PTL

\* For any number of requests and tokens, the platform carries out a request of the
\* proxy at most once (IgaClient.request).
THEOREM RequestsOnce == JobSpec => []CarriedOutOnce
<1>1. JInv => CarriedOutOnce
  BY DEF JInv, ProxyInv, MessagesFit, CarriedOutOnce
<1> QED BY <1>1, JobInvariance, PTL

\* The second try of a request never uses the refused token again (invalidate,
\* inFlightRefresh of tokenManager.js).
THEOREM NewerToken == JobSpec => []RetryHasNewerToken
<1>1. JInv => RetryHasNewerToken
  BY DEF JInv, ProxyInv, TokensFit, RetryHasNewerToken
<1> QED BY <1>1, JobInvariance, PTL

\* The retries of the SDK and of the proxy together never carry a call out twice
\* (BrokerIgaClient._request over IgaClient.request).
THEOREM CallsOnce == JobSpec => []CallCarriedOutOnce
<1>1. ASSUME JInv PROVE CallCarriedOutOnce
  <2> SUFFICES ASSUME NEW c \in Calls
               PROVE  /\ Effects(c) <= 1
                      /\ call[c].phase = "done" => Effects(c) = 1
    BY DEF CallCarriedOutOnce
  <2>1. /\ <<c, 1>> \in Requests /\ <<c, 2>> \in Requests
        /\ call[c].try \in {1, 2} /\ Current(c) = <<c, call[c].try>>
    BY <1>1, PostFacts DEF JInv, Current, Call
  <2>2. /\ effects[<<c, 1>>] \in Nat /\ effects[<<c, 2>>] \in Nat
        /\ effects[<<c, 1>>] <= 1 /\ effects[<<c, 2>>] <= 1
    BY <1>1, <2>1 DEF JInv, ProxyInv, TypeOK, ProxyTypeOK, MessagesFit
  <2>3. CASE call[c].try = 1
    <3>1. effects[<<c, 2>>] = 0
      BY <1>1, <2>1, <2>3 DEF JInv, ProxyInv, PostsFit, Unseen, MessagesFit
    <3>2. call[c].phase = "done" => effects[<<c, 1>>] = 1
      BY <1>1, <2>1, <2>3 DEF JInv, ProxyInv, PostsFit, MessagesFit
    <3> QED BY <2>2, <3>1, <3>2 DEF Effects
  <2>4. CASE call[c].try = 2
    <3>1. effects[<<c, 1>>] = 0
      BY <1>1, <2>1, <2>4 DEF JInv, ProxyInv, PostsFit, MessagesFit
    <3>2. call[c].phase = "done" => effects[<<c, 2>>] = 1
      BY <1>1, <2>1, <2>4 DEF JInv, ProxyInv, PostsFit, MessagesFit
    <3> QED BY <2>2, <3>1, <3>2 DEF Effects
  <2> QED BY <2>1, <2>3, <2>4
<1> QED BY <1>1, JobInvariance, PTL

\* No request of a superseded attempt is let in once one of a later attempt was
\* (the dispatch id check of runtimeIgaProxyService.js).
THEOREM AttemptsInOrder == JobSpec => AttemptsActInOrder
<1>1. JInv /\ [JobNext]_allVars => [InOrder]_vars
  BY JobStepKeeps
<1> QED BY <1>1, JobInvariance, PTL DEF JobSpec, AttemptsActInOrder, InOrder
=============================================================================
