---------------------------- MODULE ProxyRuntime ----------------------------
(***************************************************************************)
(* What an application does with a proxy package: the agent factory        *)
(* (proxy-agent) behind the runtime controller (proxy-runtime) with the    *)
(* JSON requests of proxy-http-client over it; the dispatcher factory      *)
(* (proxy-undici) with the requests of proxy-fetch over it; the gateway's  *)
(* control plane client, JSON requests over an agent factory of its own;   *)
(* and the agent factory behind the axios and got adapters.  kind says     *)
(* which of the five the process has; all share ProxyCore and the cache.   *)
(***************************************************************************)
EXTENDS ProxyCore, BoundedCache

CONSTANTS
  Relative,       \* a request URL without a host
  Request,        \* concurrent calls of requestJson / fetchJson
  Target,         \* the URLs they are made for
  Input,          \* url and base as axios and got take them
  Environment,    \* name -> contents of the environments settings are read from
  MaxResponse,    \* maxResponseBytes, in chunks of the model
  MaxAgents,      \* bound: agents or dispatchers created
  MaxResolves     \* bound: decisions the controller counts

ASSUME MaxResponseAssumption == MaxResponse \in Nat

\* NO_PROXY is unset or split into tokens.
ASSUME EnvironmentAssumption ==
  \A e \in DOMAIN Environment, name \in {"NO_PROXY", "no_proxy"} :
    LET raw == Environment[e][name] IN raw = None \/ raw \in Seq(ToSet(raw))

VARIABLES
  kind,           \* "runtime", "control", "undici", "axios" or "got"
  env,            \* the environment last read
  settings,       \* the factory's settings
  ctl,            \* the controller: its own copy of them, and disposed
  cache,          \* the factory's cache: key -> index into agents
  direct,         \* directDispatcher of the undici factory, 0 when null
  agents,         \* every agent or dispatcher created: [key, open]
  used,           \* history: keys resolved since the cache was last cleared, by last use
  stats,          \* ProxyRuntimeStats
  last,           \* the controller's last decision
  conf,           \* httpAgent and httpsAgent of the application's request config
  req             \* the requests

factory == <<settings, cache, direct, agents, used>>
vars == <<kind, env, factory, ctl, stats, last, conf, req>>

Kind == {"runtime", "control", "undici", "axios", "got"}

\* The proxies the environments name, and the keys agents are cached under.
ProxyUrls ==
  {None} \cup {loadProxySettings(Environment[e])[x] :
                 e \in DOMAIN Environment, x \in {"httpProxy", "httpsProxy", "allProxy"}}
CacheKeys ==
  {<<p>> : p \in ProxyUrls} \cup {<<p, q>> : p \in ProxyUrls, q \in {"http", "https", "ws", "wss"}}

RequestState ==
  [phase : {"idle", "resolved", "sent", "body", "lost", "closed"},
   timed : BOOLEAN, timer : BOOLEAN, listen : BOOLEAN, aborted : BOOLEAN,
   doom : {"none", "size", "timeout", "aborted"}, bytes : Nat,
   outcome : {"none", "ok", "parse", "status", "size", "aborted", "error", "timeout", "invalid"},
   report : {"none", "ok", "control_plane_http_error", "request_timeout", "request_aborted",
             "raw_error"}]

NoConf == [http |-> 0, https |-> 0]
Idle == [phase |-> "idle", timed |-> FALSE, timer |-> FALSE, listen |-> FALSE,
         aborted |-> FALSE, doom |-> "none", bytes |-> 0, outcome |-> "none", report |-> "none"]

Init ==
  /\ kind \in Kind
  /\ env \in DOMAIN Environment
  /\ settings = loadProxySettings(Environment[env])
  /\ ctl = [settings |-> settings, disposed |-> FALSE]
  /\ cache = <<>> /\ direct = 0 /\ agents = <<>> /\ used = <<>>
  /\ stats = [resolveCount |-> 0, proxiedCount |-> 0, directCount |-> 0,
              noProxyBypassCount |-> 0, cacheHitCount |-> 0]
  /\ last = None
  /\ conf = NoConf
  /\ req = [r \in Request |-> Idle]

----------------------------------------------------------------------------
\* The factories.

cacheKey(proxy, target) ==
  IF kind = "undici" THEN <<proxy>> ELSE <<proxy, target.proto>>

\* undici takes http(s) targets through http(s) proxies.
UndiciThrows(target, proxy) ==
  \/ target.proto \notin {"http", "https"}
  \/ proxy # None /\ proxy.scheme \notin {"http", "https"}

Throws(target) ==
  LET proxy == resolveProxyForUrl(target, settings)
  IN  IF kind = "undici" THEN UndiciThrows(target, proxy)
      ELSE createProxyAgentThrows(target, proxy)

\* What resolve(target) returns.
Resolution(target) ==
  LET proxy == resolveProxyForUrl(target, settings)
      old   == IF proxy = None THEN direct
               ELSE CacheValue(cache, cacheKey(proxy, target))
      new   == Len(agents) + 1
  IN  [proxyUrl  |-> proxy,
       viaProxy  |-> proxy # None,
       fromCache |-> old # 0,
       agent     |-> IF proxy = None /\ kind # "undici" THEN 0
                     ELSE IF old # 0 THEN old ELSE new]

\* closeDispatcher calls close() without its dispatcher: the promise undici
\* answers with is rejected, the rejection ignored, and the dispatcher open.
closeDispatcher(a) == a

tryDisposeAgent(a) == [a EXCEPT !.open = FALSE]

Dispose(all, ids) ==
  [i \in DOMAIN all |-> IF i \notin ids THEN all[i]
                        ELSE IF kind = "undici" THEN closeDispatcher(all[i])
                        ELSE tryDisposeAgent(all[i])]

Evict(all, before, after) == Dispose(all, Values(before) \ Values(after))

resolveDirect(target) ==
  LET res == Resolution(target)
  IN  /\ direct' = res.agent
      /\ agents' = IF res.fromCache THEN agents
                   ELSE Append(agents, [key |-> <<None>>, open |-> TRUE])
      /\ UNCHANGED <<cache, used>>

\* A hit, or a new agent that may push another out.
ResolveProxied(target) ==
  LET res == Resolution(target)
      key == cacheKey(res.proxyUrl, target)
  IN  /\ used' = Append(RemoveFirst(used, key), key)
      /\ cache' = IF res.fromCache THEN CacheGet(cache, key)
                  ELSE CacheSet(cache, key, res.agent)
      /\ agents' = IF res.fromCache THEN agents
                   ELSE Evict(Append(agents, [key |-> key, open |-> TRUE]), cache, cache')
      /\ UNCHANGED direct

\* resolve(target) of either factory.
FactoryResolve(target) ==
  LET proxied == Resolution(target).viaProxy
  IN  /\ ~Throws(target)
      /\ \/ ~proxied /\ kind # "undici" /\ UNCHANGED <<cache, direct, agents, used>>
         \/ ~proxied /\ kind = "undici" /\ resolveDirect(target)
         \/ proxied /\ ResolveProxied(target)
      /\ Len(agents') <= MaxAgents
      /\ UNCHANGED settings

\* clear, destroy and dispose of the factory.
FactoryDestroy ==
  /\ agents' = Dispose(agents, Values(cache) \cup {direct})
  /\ cache' = <<>> /\ direct' = 0 /\ used' = <<>>

\* updateSettings and reloadFromEnvironment.
FactorySettings(next) == settings' = next /\ FactoryDestroy

----------------------------------------------------------------------------
\* The runtime controller over the agent factory.

recordDecision(s, res, matched) ==
  [s EXCEPT !.resolveCount = @ + 1,
            !.proxiedCount = @ + (IF res.viaProxy THEN 1 ELSE 0),
            !.directCount = @ + (IF res.viaProxy THEN 0 ELSE 1),
            !.noProxyBypassCount = @ + (IF ~res.viaProxy /\ matched THEN 1 ELSE 0),
            !.cacheHitCount = @ + (IF res.fromCache THEN 1 ELSE 0)]

ControllerResolve(target) ==
  LET matched == shouldBypassProxy(target, ctl.settings.noProxy)
      res     == Resolution(target)
  IN  /\ stats.resolveCount < MaxResolves
      /\ FactoryResolve(target)
      /\ ctl' = [ctl EXCEPT !.disposed = FALSE]
      /\ stats' = recordDecision(stats, res, matched)
      /\ last' = [viaProxy |-> res.viaProxy, matchedNoProxy |-> matched,
                  reason |-> IF res.viaProxy THEN "proxy_configured"
                             ELSE IF matched THEN "no_proxy_match"
                             ELSE "proxy_not_configured"]

\* A target the factory throws for: the controller is active again all the same.
ControllerThrows(target) ==
  /\ kind = "runtime" /\ Throws(target)
  /\ ctl' = [ctl EXCEPT !.disposed = FALSE]
  /\ UNCHANGED <<kind, env, factory, stats, last, conf, req>>

\* A mutant: the controller hands the settings on and keeps its old copy.
CopyKept(next) == [ctl EXCEPT !.disposed = FALSE]

ControllerSettings(next) == [settings |-> next, disposed |-> FALSE]

Resolve(target) == IF kind = "runtime" THEN ControllerResolve(target)
                   ELSE FactoryResolve(target) /\ UNCHANGED <<ctl, stats, last>>

\* The application asks for a route itself, or another request does.
ResolveRoute(target) ==
  /\ kind \in {"runtime", "control", "undici"}
  /\ Resolve(target)
  /\ UNCHANGED <<kind, env, conf, req>>

UpdateSettings ==
  /\ kind # "control"
  /\ \E e \in DOMAIN Environment : FactorySettings(loadProxySettings(Environment[e]))
  /\ ctl' = IF kind = "runtime" THEN ControllerSettings(settings') ELSE ctl
  /\ UNCHANGED <<kind, env, stats, last, conf, req>>

\* From an environment passed in, or process.env, which may have changed.
ReloadFromEnvironment ==
  /\ kind # "control"
  /\ env' \in DOMAIN Environment
  /\ FactorySettings(loadProxySettings(Environment[env']))
  /\ ctl' = IF kind = "runtime" THEN ControllerSettings(settings') ELSE ctl
  /\ UNCHANGED <<kind, stats, last, conf, req>>

Clear ==
  /\ kind # "control"
  /\ FactoryDestroy
  /\ UNCHANGED <<kind, env, settings, ctl, stats, last, conf, req>>

DestroyController ==
  /\ kind # "control"
  /\ FactoryDestroy
  /\ ctl' = IF kind = "runtime" THEN [ctl EXCEPT !.disposed = TRUE] ELSE ctl
  /\ UNCHANGED <<kind, env, settings, stats, last, conf, req>>

----------------------------------------------------------------------------
\* The axios and got adapters: the agent goes into the slot the library uses
\* for the target's protocol.  axios mutates the config unless told not to;
\* got copies its options, and takes http(s) targets only.

applyResolvedAgent(config, proto, agent) ==
  [p \in {"http", "https"} |->
     IF proto = p \/ proto \notin {"http", "https"} THEN agent ELSE config[p]]

\* The request URL: absolute, or relative to a base; None when it throws.
resolveAxiosRequestTarget(input) ==
  IF input.url # Relative THEN input.url ELSE input.base

\* got also refuses a base it does not support, needed or not.
GotSupports(target) == target = None \/ target.proto \in {"http", "https"}

resolveGotRequestTarget(input) ==
  LET target == resolveAxiosRequestTarget(input)
  IN  IF GotSupports(input.base) /\ GotSupports(target) THEN target ELSE None

applyProxyAgentToAxiosConfig(input) ==
  LET target == resolveAxiosRequestTarget(input)
  IN  /\ kind = "axios" /\ target # None
      /\ Resolve(target)
      /\ LET res  == Resolution(target)
             next == applyResolvedAgent(conf, target.proto, res.agent)
         IN  conf' \in {conf, IF res.viaProxy THEN next ELSE conf}
      /\ UNCHANGED <<kind, env, req>>

applyProxyGotAgent(input) ==
  LET target == resolveGotRequestTarget(input)
  IN  /\ kind = "got" /\ target # None
      /\ Resolve(target)
      /\ UNCHANGED <<kind, env, conf, req>>

----------------------------------------------------------------------------
\* requestJson (kind "runtime") and fetchJson (kind "undici").

\* settleResolve and settleReject: the first one counts, and cleans up.
Settle(q, how) ==
  IF q.outcome # "none" THEN q
  ELSE [q EXCEPT !.outcome = how, !.timer = FALSE, !.listen = FALSE]

\* request.destroy(error): the first error is the one that will be emitted.
DestroyRequest(q, how) == IF q.doom # "none" THEN q ELSE [q EXCEPT !.doom = how]

Set(r, q) == req' = [req EXCEPT ![r] = q]
Transport == UNCHANGED <<kind, env, factory, ctl, stats, last, conf>>

Json == kind \in {"runtime", "control"}

ValidRequest(target) == target.proto \in {"http", "https"}

\* Validation, the first look at the signal, and the resolver's answer; the
\* answer is awaited, so that other calls run before the request is made.  The
\* caller's timeoutMs may be 0; the control plane client replaces that.
RequestJson(r, target) ==
  LET q == req[r]
  IN  /\ Json /\ q.phase = "idle"
      /\ \/ /\ ~ValidRequest(target) \/ q.aborted
            /\ Set(r, [Settle(q, IF ValidRequest(target) THEN "aborted" ELSE "invalid")
                         EXCEPT !.phase = "closed"])
            /\ Transport
         \/ /\ ValidRequest(target) /\ ~q.aborted
            /\ Resolve(target)
            /\ \E timed \in BOOLEAN :
                 /\ timed \/ kind # "control"
                 /\ Set(r, [q EXCEPT !.phase = "resolved", !.timed = timed])
            /\ UNCHANGED <<kind, env, conf>>

\* executeJsonRequest, or the second look at the signal.  The control plane
\* client passes no signal.
ExecuteJsonRequest(r) ==
  LET q == req[r]
  IN  /\ q.phase = "resolved"
      /\ Set(r, IF q.aborted THEN [Settle(q, "aborted") EXCEPT !.phase = "closed"]
                ELSE [q EXCEPT !.phase = "sent", !.timer = q.timed,
                               !.listen = (kind = "runtime")])
      /\ Transport

\* A mutant: requestJson drops its timer when the headers arrive.
HeadersEndTimer(q) == [q EXCEPT !.phase = "body", !.timer = FALSE]

HeadersSeen(q) == [q EXCEPT !.phase = "body"]

\* The response starts; a content-length over the limit ends the request.
Headers(r) ==
  LET q == req[r]
  IN  /\ Json /\ q.phase = "sent" /\ q.doom = "none"
      /\ \/ Set(r, HeadersSeen(q))
         \/ Set(r, DestroyRequest(Settle(q, "size"), "size"))
      /\ Transport

\* A chunk; one too many ends the request.
Data(r) ==
  LET q == [req[r] EXCEPT !.bytes = @ + 1]
  IN  /\ Json /\ q.phase = "body" /\ q.doom = "none"
      /\ Set(r, IF q.bytes <= MaxResponse THEN q
                ELSE DestroyRequest(Settle(q, "size"), "size"))
      /\ Transport

\* The end of the body: no JSON, an error status (which the control plane
\* client asks to have returned), or a result.
End(r) ==
  /\ Json /\ req[r].phase = "body" /\ req[r].doom = "none"
  /\ \E how \in {"ok", "parse", "status"} :
        Set(r, [Settle(req[r], how) EXCEPT !.phase = "closed"])
  /\ Transport

\* The connection fails; during the body "aborted" comes first, "error" later.
ConnectionFails(r) ==
  LET q == req[r]
  IN  /\ Json /\ q.doom = "none"
      /\ \/ /\ q.phase = "body"
            /\ Set(r, [Settle(q, "aborted") EXCEPT !.phase = "lost"])
         \/ /\ q.phase \in {"sent", "lost"}
            /\ Set(r, [Settle(q, "error") EXCEPT !.phase = "closed"])
      /\ Transport

\* What the control plane client makes of it.
inferTransportErrorCode(outcome) ==
  CASE outcome = "timeout" -> "request_timeout"
    [] outcome = "aborted" -> "request_aborted"
    [] OTHER               -> "raw_error"

normalizeReport(outcome) ==
  CASE outcome = "ok"     -> "ok"
    [] outcome = "status" -> "control_plane_http_error"
    [] OTHER              -> inferTransportErrorCode(outcome)

ControlPlanePost(r) ==
  /\ kind = "control" /\ req[r].outcome # "none" /\ req[r].report = "none"
  /\ Set(r, [req[r] EXCEPT !.report = normalizeReport(req[r].outcome)])
  /\ Transport

\* fetchJson: performFetch up to its await, with its abort control.
PerformFetch(r, target) ==
  LET q == req[r]
  IN  /\ kind = "undici" /\ q.phase = "idle"
      /\ \/ /\ Throws(target)
            /\ Set(r, [Settle(q, "invalid") EXCEPT !.phase = "closed"])
            /\ Transport
         \/ /\ Resolve(target)
            /\ \E timed \in BOOLEAN :
                 Set(r, [q EXCEPT !.phase = "sent", !.timed = timed, !.timer = timed,
                                  !.listen = ~q.aborted,
                                  !.doom = IF q.aborted THEN "aborted" ELSE "none"])
            /\ UNCHANGED <<kind, env, conf>>

\* performFetch cleans up when fetch answers or fails, before the body.
cleanupAbortControl(q) == [q EXCEPT !.timer = FALSE, !.listen = FALSE]

FetchAnswers(r) ==
  LET q == req[r]
  IN  /\ kind = "undici" /\ q.phase = "sent" /\ q.doom = "none"
      /\ \/ Set(r, [cleanupAbortControl(q) EXCEPT !.phase = "body"])
         \/ Set(r, [Settle(q, "error") EXCEPT !.phase = "closed"])
      /\ Transport

\* readResponseTextWithLimit: declared or received, too much is refused.
ReadBody(r) ==
  LET q == [req[r] EXCEPT !.bytes = @ + 1]
  IN  /\ kind = "undici" /\ q.phase = "body"
      /\ \/ Set(r, IF q.bytes <= MaxResponse THEN q
                   ELSE [Settle(q, "size") EXCEPT !.phase = "closed"])
         \/ Set(r, [Settle(req[r], "size") EXCEPT !.phase = "closed"])
         \/ Set(r, [Settle(req[r], "error") EXCEPT !.phase = "closed"])
      /\ Transport

FetchJsonDone(r) ==
  /\ kind = "undici" /\ req[r].phase = "body"
  /\ \E how \in {"ok", "parse"} : Set(r, [Settle(req[r], how) EXCEPT !.phase = "closed"])
  /\ Transport

\* The error of a destroyed request is emitted; a fetch that was aborted and
\* whose timer has fired as well reports the timeout.
DestroyedError(r) ==
  LET q == req[r]
  IN  /\ q.doom # "none" /\ q.phase # "closed"
      /\ Set(r, [Settle(q, IF kind = "undici" /\ q.timed /\ ~q.timer THEN "timeout"
                           ELSE q.doom)
                   EXCEPT !.phase = "closed"])
      /\ Transport

TimerFires(r) ==
  /\ req[r].timer
  /\ Set(r, [DestroyRequest(req[r], "timeout") EXCEPT !.timer = FALSE])
  /\ Transport

\* The caller aborts, at any moment.
Abort(r) ==
  LET q == [req[r] EXCEPT !.aborted = TRUE, !.listen = FALSE]
  IN  /\ kind \in {"runtime", "undici"} /\ ~req[r].aborted
      /\ Set(r, IF req[r].listen THEN DestroyRequest(q, "aborted") ELSE q)
      /\ Transport

Next ==
  \/ UpdateSettings \/ ReloadFromEnvironment \/ Clear \/ DestroyController
  \/ \E i \in Input : applyProxyAgentToAxiosConfig(i) \/ applyProxyGotAgent(i)
  \/ \E t \in Target : ResolveRoute(t) \/ ControllerThrows(t)
  \/ \E r \in Request :
       \/ \E t \in Target : RequestJson(r, t) \/ PerformFetch(r, t)
       \/ ExecuteJsonRequest(r) \/ Headers(r) \/ Data(r) \/ End(r)
       \/ ControlPlanePost(r) \/ FetchAnswers(r) \/ ReadBody(r) \/ FetchJsonDone(r)
       \/ ConnectionFails(r) \/ DestroyedError(r) \/ TimerFires(r) \/ Abort(r)

Spec == Init /\ [][Next]_vars

----------------------------------------------------------------------------
\* The values each variable ranges over.
TypeOK ==
  /\ kind \in Kind /\ env \in DOMAIN Environment
  /\ settings \in {loadProxySettings(Environment[e]) : e \in DOMAIN Environment}
  /\ ctl.settings \in {loadProxySettings(Environment[e]) : e \in DOMAIN Environment}
  /\ ctl.disposed \in BOOLEAN
  /\ cache \in Seq([key : CacheKeys, val : Nat]) /\ direct \in Nat
  /\ agents \in Seq([key : CacheKeys, open : BOOLEAN]) /\ used \in Seq(CacheKeys)
  /\ stats \in [resolveCount : Nat, proxiedCount : Nat, directCount : Nat,
                noProxyBypassCount : Nat, cacheHitCount : Nat]
  /\ conf \in [http : Nat, https : Nat]
  /\ req \in [Request -> RequestState]

\* The cache is exactly least-recently-used: it holds the last MaxEntries
\* distinct keys resolved since it was cleared, in the order of their last use,
\* each with an agent that was made for it and has not been destroyed; and no
\* agent of the agent factory is lost: one that was created and not destroyed
\* is still in the cache, over evictions, updates and clears.
CacheIsRecent ==
  LET n == IF Len(used) < MaxEntries THEN Len(used) ELSE MaxEntries
  IN  /\ Keys(cache) = SubSeq(used, Len(used) - n + 1, Len(used))
      /\ \A i \in DOMAIN cache : LET a == agents[cache[i].val]
                                 IN  a.open /\ a.key = cache[i].key
      /\ kind # "undici" /\ MaxEntries > 0 =>
           \A i \in DOMAIN agents : agents[i].open => i \in Values(cache)

\* The controller and its factory decide from the same settings after any
\* series of updates and reloads: no decision is "proxy" for a target the
\* controller counts as bypassed, and a disposed controller caches nothing.
\* Its counters add up, and what they call proxied and not answered from the
\* cache is exactly the agents that were created.
ControllerHonest ==
  kind = "runtime" =>
    /\ ctl.settings = settings
    /\ last # None => ~(last.viaProxy /\ last.matchedNoProxy)
    /\ ctl.disposed => cache = <<>>
    /\ stats.resolveCount = stats.proxiedCount + stats.directCount
    /\ stats.noProxyBypassCount <= stats.directCount
    /\ stats.proxiedCount - stats.cacheHitCount = Len(agents)

\* For each environment, whether the reports about it are true.
TrueExplanation ==
  [e \in DOMAIN Environment |->
     LET loaded == loadProxySettings(Environment[e])
         seen   == inspectProxyEnvironment(Environment[e])
     IN  /\ \A t \in Target :
              LET route == explainOneRoute(t, Environment[e])
              IN  /\ route.decision = "proxy"
                       => loaded[route.source] = route.proxyUrl
                  /\ shouldBypassProxy(t, loaded.noProxy)
                       => route.rule # None /\ shouldBypassProxy(t, <<route.rule>>)
                  /\ ~route.agent.error
                       => /\ route.agent.viaProxy <=> route.decision = "proxy"
                          /\ route.agent.proxyUrl = route.proxyUrl
                  /\ route.agent.error
                       => /\ route.decision = "proxy"
                          /\ t.proto \notin {"http", "https", "ws", "wss"}
         /\ \A x \in {"httpProxy", "httpsProxy", "allProxy"} :
              loaded[x] = sanitizeProxyUrl(seen[x].selectedValue)]

\* The explainer of cli-proxy has its own copy of the NO_PROXY matching and does
\* not drift from proxy-core's: a target that bypasses the proxy gets a rule named,
\* one that bypasses it on its own, and a proxied one the setting that holds its
\* proxy.  An agent factory built from the same environment decides the same,
\* unless the target is proxied and of a protocol it throws for; and the inspector
\* names the variable each proxy comes from.
ExplanationTrue == TrueExplanation[env]

\* A JSON request under way is watched: one with a timeout has its timer running
\* or its connection is being destroyed, and with or without one the caller's
\* abort destroys it; a settled one, of either client, has left neither a timer
\* nor a listener on the caller's signal, and a result is within the limit.
RequestsWatched ==
  \A r \in Request :
    LET q == req[r]
    IN  /\ Json /\ q.phase \in {"sent", "body"} /\ q.outcome = "none"
             => q.doom # "none" \/ (~q.aborted /\ (q.timed => q.timer))
        /\ q.outcome # "none" => ~q.timer /\ ~q.listen
        /\ q.outcome = "ok" => q.bytes <= MaxResponse

============================================================================
