------------------------------ MODULE MCProxy ------------------------------
(***************************************************************************)
(* Instance of ProxyRuntime: targets that differ in protocol, host and     *)
(* port, and environments that set a proxy per protocol, in both cases, a  *)
(* catch-all with NO_PROXY entries of each form, and none.                 *)
(***************************************************************************)
EXTENDS ProxyRuntime

api == <<"api", ".", "corp">>

MCTarget ==
  {[proto |-> "http", host |-> api, port |-> None],
   [proto |-> "https", host |-> api, port |-> None],
   [proto |-> "https", host |-> <<"corp">>, port |-> 8443],
   [proto |-> "https", host |-> <<"evil", "corp">>, port |-> None],
   [proto |-> "ws", host |-> <<"localhost">>, port |-> None],
   [proto |-> "ftp", host |-> api \o <<".">>, port |-> None],
   [proto |-> "file", host |-> <<>>, port |-> None]}

In(url, base) == [url |-> url, base |-> base]

MCInput ==
  {In(t, None) : t \in MCTarget} \cup
  {In(Relative, None), In(None, None),
   In(Relative, [proto |-> "https", host |-> api, port |-> None]),
   In([proto |-> "http", host |-> api, port |-> None],
      [proto |-> "ftp", host |-> api, port |-> None])}

NoEnv == [v \in {"http_proxy", "HTTP_PROXY", "https_proxy", "HTTPS_PROXY", "all_proxy",
                 "ALL_PROXY", "no_proxy", "NO_PROXY", "REQUEST_METHOD"} |-> None]

Proxy(scheme, host) == [scheme |-> scheme, host |-> host]
Token(form, host, wild, port) ==
  [form |-> form, host |-> host, wild |-> wild, port |-> port]

MCEnvironment ==
  <<[NoEnv EXCEPT !["http_proxy"] = Proxy(None, "p1"), !["HTTP_PROXY"] = Proxy("http", "p2"),
                 !["HTTPS_PROXY"] = Proxy("https", "p3")],
    [NoEnv EXCEPT !["ALL_PROXY"] = Proxy("socks5", "p1"), !["HTTP_PROXY"] = Proxy("ftp", "p2"),
                 !["https_proxy"] = Proxy("http", "p2"), !["REQUEST_METHOD"] = "GET",
                 !["NO_PROXY"] = <<Token("plain", <<"corp", ".">>, TRUE, 443),
                                   Token("plain", <<"corp">>, FALSE, 99999),
                                   Token("url", <<"localhost">>, FALSE, 80)>>],
    [NoEnv EXCEPT !["HTTP_PROXY"] = Proxy("http", "p1"), !["REQUEST_METHOD"] = "GET",
                 !["no_proxy"] = <<Token("star", <<>>, FALSE, None)>>]>>
============================================================================
