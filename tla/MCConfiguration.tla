-------------------------- MODULE MCConfiguration --------------------------
(***************************************************************************)
(* Inputs for Configuration: from a base input that loads, one slice of    *)
(* settings that interact is varied over every combination of layers.      *)
(***************************************************************************)
EXTENDS Configuration, TLC

Nothing == [flag |-> Unset, env |-> Unset, file |-> Unset]
entry(channel, to, unix, proxy) == [channel |-> channel, to |-> to, unix |-> unix, proxy |-> proxy]
target(to, template, rich) == [to |-> to, template |-> template, rich |-> rich]

Base == [tunnelID |-> [Nothing EXCEPT !.env = Value("t0")],
         apiKey   |-> [Nothing EXCEPT !.env = Value("k0")],
         servers  |-> [Nothing EXCEPT !.env = Value(<<entry("", "ok", FALSE, "")>>)],
         config   |-> [Nothing EXCEPT !.flag = Value("c")]]

with(settings) == [settings |-> settings @@ Base, version |-> 0, documents |-> 1, mainServer |-> FALSE, allowPlaintext |-> FALSE]

layers(flags, envs, files) ==
    [flag : {Unset} \cup flags, env : {Unset} \cup envs, file : {Unset} \cup files]
values(vs) == {Value(v) : v \in vs}

Texts(v) == {Empty, Value(v)}
flag(layer) == [Nothing EXCEPT !.flag = layer]
env(layer) == [Nothing EXCEPT !.env = layer]
file(layer) == [Nothing EXCEPT !.file = layer]

Sources == {with([config |-> c, profile |-> p, profileFile |-> q, listenAddr |-> file(Value("f"))]) :
              c, p, q \in layers(Texts("c"), Texts("c"), {})}
Singles ==
    {with([listenAddr |-> s]) : s \in layers(Texts("x"), Texts("y"), {Empty, Value("z"), Ref, BadRef})} \cup
    {with([tunnelID |-> s]) : s \in layers(Texts("x"), {Empty, Value("y"), Value("bad")}, Texts("z"))} \cup
    {with([forwardRequestID |-> s]) : s \in layers({Empty} \cup values({"mcp", "none"}), {Empty} \cup values({"harpoon", "bad"}),
                                                   {Empty} \cup values({"none", "bad"}))} \cup
    {with([extraHeaders |-> s]) : s \in layers({Empty} \cup values({"h1", "reserved"}), {Empty} \cup values({"h2", "conflict"}),
                                               values({"h3", "conflict"}))} \cup
    {with([failurePolicy |-> s]) : s \in layers(values({"exit", "bad"}), Texts("exit"), {Empty} \cup values({"restart", "bad"}))} \cup
    {with([maxInFlight |-> s]) : s \in layers(values({1, 10000}), {Empty} \cup values({0, 2}), values({3, 10001}))} \cup
    {with([origins |-> s]) : s \in layers({Empty} \cup values({<<<<"o1">>>>, <<<<"o1", "o2">>>>}),
                                          {Empty} \cup values({<<<<"o2">>, <<"o3">>>>, <<<<"bad">>>>}),
                                          {Empty} \cup values({<<<<"o4">>>>, <<<<"o4", "o5">>>>, <<<<"o4">>, <<"bad">>>>}))}
Timing == {with([pollTimeout |-> s, guardrail |-> t]) :
             s \in layers(values({1, 595}), {Empty} \cup values({0, 596}), values({541, 600})),
             t \in layers(values({4, 59}), Texts(5), values({1, 60}))}
Credentials ==
    {with([apiKey |-> k, openaiKey |-> env(o), awsIdentity |-> env(w), clientCert |-> env(c), baseURL |-> flag(u)]) :
       k \in layers({Empty, Ref, BadRef}, Texts("k1"), {Empty, Ref, BadRef}), o \in {Unset} \cup Texts("k2"),
       w \in {Unset, Value("w")}, c \in {Unset, Value("cert")}, u \in {Unset, Value("other")}}
Logs == {with([logFile |-> s, logFormat |-> env(e), logLevel |-> flag(l)]) :
           s \in layers(Texts("x"), Texts("y"), Texts("z")), e \in {Unset} \cup Texts("json"), l \in {Unset, Value("debug")}}
Bindings ==
    {[with([servers |-> s, commands |-> c, pollChannels |-> p, targets |-> t]) EXCEPT !.version = 2, !.mainServer = m] :
       s \in layers({Empty, Value(<<entry("x", "ok", FALSE, "")>>)}, {Value(<<entry("", "ok", FALSE, "")>>)},
                    {Value(<<entry("main", "badref", FALSE, "")>>)}),
       c \in layers({Value(<<entry("main", "ok", FALSE, "")>>)}, {},
                    {Value(<<entry("main", "ok", FALSE, ""), entry("x", "ok", FALSE, "")>>),
                     Value(<<entry("harpoon", "ok", FALSE, "")>>)}),
       p \in layers({Value(<<"harpoon">>), Value(<<"main", "harpoon">>)}, {Empty, Value(<<"x">>), Value(<<"main", "main">>)}, {}),
       t \in {Nothing, flag(Value(<<target("https", FALSE, FALSE)>>)), file(Value(<<target("https", TRUE, TRUE)>>))},
       m \in BOOLEAN}
Targets == {[with([targets |-> t]) EXCEPT !.version = v, !.documents = d, !.allowPlaintext = a] :
              t \in layers({Empty} \cup values({<<target("http", FALSE, FALSE)>>}), {Empty},
                           values({<< >>, <<target("badref", FALSE, FALSE)>>, <<target("https", TRUE, TRUE), target("http", FALSE, FALSE)>>})),
              v \in {0, 2, 3}, d \in {1, 2}, a \in BOOLEAN}
Proxies == {with([proxy |-> p, mcpProxy |-> q, servers |-> flag(Value(<<e>>)), mcpCert |-> env(c),
                  commands |-> file(Value(<<entry("x", "ok", FALSE, "")>>))]) :
              p \in layers(Texts("g1"), Texts("g2"), {}), q \in layers(Texts("m1"), {}, {Value("m2")}),
              e \in {entry("", "ok", u, r) : u \in BOOLEAN, r \in {"", "own"}}, c \in {Unset, Value("cert")}}
Extensions ==
    {with([logBuffer |-> b, capturePayloads |-> c, cfToken |-> t, cfManaged |-> file(g)]) :
       b \in layers(values({2000}), {Empty} \cup values({2000, 5}), values({2000, 0})),
       c \in {Nothing, env(Empty), env(Value(TRUE)), file(Value(TRUE))},
       t \in layers({Empty, Ref}, Texts("tok"), {Ref, BadRef}), g \in {Unset, Value(TRUE)}}

MCInputs == <<Sources, Singles, Timing, Credentials, Logs, Bindings, Targets, Proxies, Extensions>>
=============================================================================
