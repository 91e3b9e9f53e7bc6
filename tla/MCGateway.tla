----------------------------- MODULE MCGateway ------------------------------
(* A small instance of Gateway: one key that may be a token or an address of *)
(* this host, one address that is not; one default tool, two ports.          *)
EXTENDS Gateway, TLC

CONSTANTS r1, r2, r3, k, far, u1, u2, u3

MCDefaults == <<"search">>
MCIds == <<u1, u2, u3>>
MCLimit == k :> 1 @@ far :> 1

Config(mode, port, envPort, serverPort, fallback) ==
  [mode |-> mode, port |-> port, envPort |-> envPort, serverPort |-> serverPort,
   fallback |-> fallback]
MCConfigs ==
  {Config("token", 8080, None, None, 9090), Config("none", 70000, 9090, 8080, 9090),
   Config("both", 8080, None, None, 9090)}

Call(route, s, get, body, token, address) ==
  [route |-> route, service |-> s, get |-> get, body |-> body, token |-> token, address |-> address]
\* Whoever has a key has the same one, some by token only, some by address only; each
\* way to answer.
MCAsks ==
  r1 :> {Call("files", "files", FALSE, TRUE, k, far), Call("call", "files", FALSE, TRUE, k, far),
         Call("resource", "files", FALSE, TRUE, None, k)} @@
  r2 :> {Call("search", "search", TRUE, TRUE, k, k),
         Call("browser", "files", TRUE, FALSE, k, far)} @@
  r3 :> {Call("tools", "files", TRUE, FALSE, None, k),
         Call("health", "search", TRUE, FALSE, None, far)}
=============================================================================
