----------------------------- MODULE ProxyCore -----------------------------
(***************************************************************************)
(* Proxy routing (packages/proxy-core, with its re-exports in proxy-agent  *)
(* and src/net, and the second implementation of it in cli-proxy).  Pure   *)
(* operators over abstract data:                                           *)
(*   - a host is the sequence of its pieces, "." one of them, so that      *)
(*     "evilcorp" is <<"evil", "corp">>; an IP address is one piece, and a *)
(*     host of characters no host may have is empty;                       *)
(*   - a target is [proto, host, port], port None when the URL has none;   *)
(*   - a proxy value is [scheme, host], scheme None when it has none;      *)
(*   - a NO_PROXY value is a sequence of tokens [form, host, wild, port].  *)
(***************************************************************************)
EXTENDS Naturals, SequencesExt

CONSTANT None     \* undefined or null

----------------------------------------------------------------------------
\* A NO_PROXY token to its rule, None when the token is ignored.

defaultPort(proto) == IF proto \in {"https", "wss"} THEN 443 ELSE 80

Port == 1..65535

parsePort(port) == IF port \in Port THEN port ELSE None

\* A fully qualified name loses its dot.
normalizeHost(host) ==
  LET named == IF host # <<>> /\ Last(host) = "." THEN Front(host) ELSE host
  IN  IF named = <<>> THEN None ELSE named

shouldMatchSubdomains(host, wildcardPrefix) ==
  host # <<"*">> /\ (wildcardPrefix \/ "." \in ToSet(host))

\* "host:99999" is dropped as a whole, and so is "host:0"; in a URL-like token (here
\* an http URL) the URL parser removes a port that is the scheme's default and port 0
\* is ignored, so the rule is for any port.
parseNoProxyToken(token) ==
  LET host    == normalizeHost(token.host)
      dropped == /\ token.port # None /\ parsePort(token.port) = None
                 /\ token.form = "plain" \/ token.port # 0
  IN  IF token.form = "star" THEN [host |-> <<"*">>, port |-> None, sub |-> FALSE]
      ELSE IF host = None \/ dropped THEN None
      ELSE [host |-> host,
            port |-> IF token.form = "url" /\ token.port = defaultPort("http") THEN None
                     ELSE parsePort(token.port),
            sub  |-> shouldMatchSubdomains(host, token.form = "plain" /\ token.wild)]

\* The rules of the first i tokens, for each i.
parseNoProxy(tokens) ==
  LET rules[i \in 0..Len(tokens)] ==
        IF i = 0 THEN <<>>
        ELSE IF parseNoProxyToken(tokens[i]) = None THEN rules[i - 1]
        ELSE Append(rules[i - 1], parseNoProxyToken(tokens[i]))
  IN  rules[Len(tokens)]

isSubdomainOf(host, parent) ==
  /\ IsSuffix(parent, host)
  /\ Len(host) > Len(parent) /\ host[Len(host) - Len(parent)] = "."

matchesRuleHost(host, rule) ==
  host = rule.host \/ (rule.sub /\ isSubdomainOf(host, rule.host))

\* A written port 0 counts as none.
getTargetPort(target) ==
  IF parsePort(target.port) # None THEN parsePort(target.port) ELSE defaultPort(target.proto)

shouldBypassProxy(target, rules) ==
  LET host == normalizeHost(target.host)
  IN  /\ host # None
      /\ \E i \in DOMAIN rules :
           \/ rules[i].host = <<"*">>
           \/ /\ matchesRuleHost(host, rules[i])
              /\ rules[i].port \in {None, getTargetPort(target)}

----------------------------------------------------------------------------
\* Environment to settings.  The environment maps variable names to values,
\* None when unset.

SupportedProxy ==
  {"http", "https", "socks", "socks4", "socks4a", "socks5", "socks5h",
   "pac+http", "pac+https", "pac+file", "pac+data"}

\* A value without a scheme is an http proxy; an unsupported one is ignored.
sanitizeProxyUrl(raw) ==
  IF raw = None THEN None
  ELSE LET url == [raw EXCEPT !.scheme = IF @ = None THEN "http" ELSE @]
       IN  IF url.scheme \in SupportedProxy THEN url ELSE None

Coalesce(a, b) == IF a # None THEN a ELSE b

readProxyEnv(env, lower, upper, ignoreUppercase) ==
  IF env[lower] # None THEN env[lower]
  ELSE IF ignoreUppercase THEN None ELSE env[upper]

\* Lowercase wins for the three proxies and uppercase for NO_PROXY.
loadProxySettings(env) ==
  [httpProxy  |-> sanitizeProxyUrl(readProxyEnv(env, "http_proxy", "HTTP_PROXY",
                                                env["REQUEST_METHOD"] # None)),
   httpsProxy |-> sanitizeProxyUrl(readProxyEnv(env, "https_proxy", "HTTPS_PROXY",
                                                FALSE)),
   allProxy   |-> sanitizeProxyUrl(readProxyEnv(env, "all_proxy", "ALL_PROXY",
                                                FALSE)),
   noProxy    |-> LET raw == Coalesce(env["NO_PROXY"], env["no_proxy"])
                  IN  IF raw = None THEN <<>> ELSE parseNoProxy(raw)]

resolveProxyForUrl(target, settings) ==
  LET http  == Coalesce(settings.httpProxy, settings.allProxy)
      https == Coalesce(settings.httpsProxy, http)
  IN  IF shouldBypassProxy(target, settings.noProxy) THEN None
      ELSE CASE target.proto \in {"http", "ws"}   -> http
             [] target.proto \in {"https", "wss"} -> https
             [] OTHER                             -> settings.allProxy

----------------------------------------------------------------------------
\* The command line explainer (cli-proxy): its own copy of the host, port and
\* rule matching, and the setting it names as the source of the proxy.

explainerNormalizeHost(hostname) ==
  LET unrooted == IF hostname # <<>> /\ Last(hostname) = "." THEN Front(hostname)
                  ELSE hostname
  IN  IF unrooted = <<>> THEN None ELSE unrooted

explainerMatchesRuleHost(targetHost, rule) ==
  LET boundary == Len(targetHost) - Len(rule.host)
  IN  \/ targetHost = rule.host
      \/ /\ rule.sub /\ IsSuffix(rule.host, targetHost)
         /\ boundary >= 1 /\ targetHost[boundary] = "."

\* A mutant: the port written in the URL only.
WrittenPort(target) == target.port

getPort(target) ==
  IF target.port # None /\ target.port \in Port THEN target.port
  ELSE CASE target.proto \in {"https", "wss"} -> 443
         [] OTHER                            -> 80

ExplainerMatches(target, rule) ==
  \/ rule.host = <<"*">>
  \/ /\ explainerMatchesRuleHost(explainerNormalizeHost(target.host), rule)
     /\ rule.port = None \/ rule.port = getPort(target)

\* The first of the rules that matches.
findMatchingNoProxyRule(target, rules) ==
  LET i == SelectInSeq(rules, LAMBDA rule : ExplainerMatches(target, rule))
  IN  IF explainerNormalizeHost(target.host) = None \/ i = 0 THEN None ELSE rules[i]

resolveProxySource(proto, settings, proxyUrl) ==
  LET order == CASE proto \in {"http", "ws"}   -> <<"httpProxy", "allProxy">>
                 [] proto \in {"https", "wss"} -> <<"httpsProxy", "httpProxy", "allProxy">>
                 [] OTHER                      -> <<"allProxy">>
      i == SelectInSeq(order, LAMBDA name : settings[name] = proxyUrl)
  IN  IF proxyUrl = None \/ i = 0 THEN None ELSE order[i]

\* The agents take http, https and WebSocket targets, and every supported proxy.
createProxyAgentThrows(target, proxy) ==
  proxy # None /\ target.proto \notin {"http", "https", "ws", "wss"}

\* The agent resolver asks a factory built from the same environment, and
\* reports what it throws.
agentDetail(target, env) ==
  LET proxyUrl == resolveProxyForUrl(target, loadProxySettings(env))
      error    == createProxyAgentThrows(target, proxyUrl)
  IN  [error    |-> error,
       viaProxy |-> ~error /\ proxyUrl # None,
       proxyUrl |-> IF error THEN None ELSE proxyUrl]

\* What it reports of one target.
explainOneRoute(target, env) ==
  LET settings == loadProxySettings(env)
      bypass   == shouldBypassProxy(target, settings.noProxy)
      proxyUrl == resolveProxyForUrl(target, settings)
  IN  [decision |-> IF ~bypass /\ proxyUrl # None THEN "proxy" ELSE "direct",
       proxyUrl |-> proxyUrl,
       source   |-> resolveProxySource(target.proto, settings, proxyUrl),
       rule     |-> IF bypass THEN findMatchingNoProxyRule(target, settings.noProxy)
                    ELSE None,
       agent    |-> agentDetail(target, env)]

\* The variable the inspector reports as the one in force.
buildResolution(env, lower, upper, ignoreUppercase) ==
  [selectedKey   |-> IF env[lower] # None THEN lower
                     ELSE IF ~ignoreUppercase /\ env[upper] # None THEN upper ELSE None,
   selectedValue |-> readProxyEnv(env, lower, upper, ignoreUppercase),
   ignoredUpper  |-> ignoreUppercase /\ env[upper] # None /\ env[lower] = None]

inspectProxyEnvironment(env) ==
  [httpProxy  |-> buildResolution(env, "http_proxy", "HTTP_PROXY",
                                  env["REQUEST_METHOD"] # None),
   httpsProxy |-> buildResolution(env, "https_proxy", "HTTPS_PROXY", FALSE),
   allProxy   |-> buildResolution(env, "all_proxy", "ALL_PROXY", FALSE),
   noProxy    |-> buildResolution(env, "no_proxy", "NO_PROXY", FALSE)]
============================================================================
