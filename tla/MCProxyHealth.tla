--------------------------- MODULE MCProxyHealth ---------------------------
(* ProxyHealth for TLC: a control plane over https, with and without an    *)
(* explicit proxy, an MCP server, a template on the loopback interface and *)
(* a route without a URL, under settings of the proxy variables.           *)
EXTENDS ProxyHealth

Route(scheme, host, loopback, template, explicit) ==
  [scheme |-> scheme, host |-> host, port |-> 0, loopback |-> loopback, unix |-> FALSE,
   template |-> template, explicit |-> explicit]

MCRouteConfigs ==
  {<<Route("https", <<"com", "a">>, FALSE, FALSE, proxy),
     Route("http", <<"com", "a", "b">>, FALSE, FALSE, ""),
     Route("http", <<"localhost">>, TRUE, TRUE, ""),
     Route("none", << >>, FALSE, FALSE, "")>> : proxy \in {"", "p1"}}

Exception(host, dot, port) == [all |-> FALSE, dot |-> dot, host |-> host, port |-> port]

MCEnvironments ==
  [HTTPS_PROXY : {"", "p1"}, https_proxy : {"", "bad"}, HTTP_PROXY : {"", "p2"},
   http_proxy : {""},
   NO_PROXY : {{}, {Exception(<<"com", "a">>, TRUE, 0)}, {Exception(<<"com", "a">>, FALSE, 443)}}]
=============================================================================
