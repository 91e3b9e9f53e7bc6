------------------------------ MODULE Gateway -------------------------------
(***************************************************************************)
(* The gateway process around the job queue: it loads its configuration,   *)
(* opens the database, registers the tools, picks a port and serves, and   *)
(* takes each request through the token check, the limiter, the tool check *)
(* and a handler that forwards it to a service.  Services, ports, key rows *)
(* and callers belong to the environment.                                  *)
(***************************************************************************)
EXTENDS RateLimiter, Registry

CONSTANTS Requests, Services, None,
          Asks,        \* what each request's caller may send
          Loopback,    \* the keys that are addresses of this host
          ExecTool,    \* the default tool whose id run hands to the job queue
          Configs,     \* the configurations: file and environment
          Ports, Expiries,
          MaxFaults    \* bound on what goes wrong, and on keys revoked and ports taken

Routes == {"search", "files", "browser", "call", "resource", "tools", "catalog", "health"}
ToolRoutes == {"search", "files", "browser"}     \* behind RequireTool
Forwarded == ToolRoutes \cup {"call"}

ASSUME NoneAssumption == None \notin Keys /\ None \notin Ports
ASSUME FaultsAssumption == MaxFaults \in Nat
ASSUME AsksAssumption ==
  \A r \in Requests : \A a \in Asks[r] : a.token \in Keys \cup {None} /\ a.address \in Keys

VARIABLES
  config,
  phase, tool, addr,  \* run: where it is, the default tool it registers, the port it picked
  execTool,           \* handlers.ExecToolID
  at, ask, grant,     \* each request: its middleware or handler, what it asks, its key's row
  answer,
  wire,               \* its forwarded copy, and how the service ended it
  effects,            \* history: how often a service did what it asks
  service, taken, keyrow, faults

process == <<config, phase, tool, addr, execTool>>
requests == <<at, ask, grant, answer, wire, effects>>
environment == <<service, taken, keyrow, faults>>
vars == <<process, requests, environment, limiter, registry>>

InFlight == {"known", "reading", "waiting"}
\* A service refuses before it does anything (no such thing, too large, too many
\* sessions), or fails on the way; each may also be a 400.
Denials == {404, 413, 429}
Failures == {500}
WireStates == {"none", "sent", "refused", "applied", "ok", "denied", "failed", "broken"}
Statuses == {200, 400, 401, 403, 502} \cup Denials \cup Failures

TypeOK ==
  /\ LimiterTypeOK
  /\ phase \in {"off", "database", "tools", "wiring", "picking", "binding", "serving", "draining"}
  /\ tool \in 0 .. Len(Defaults) /\ addr \in Ports \cup {None}
  /\ at \in [Requests -> InFlight \cup {"new", "done", "lost"}]
  /\ answer \in [Requests -> {0} \cup Statuses]
  /\ wire \in [Requests -> WireStates]
  /\ service \in [Services -> {"up", "down"}]
  /\ taken \subseteq Ports /\ faults \in 0 .. MaxFaults

-----------------------------------------------------------------------------
(* Configuration: config.Load, applyEnvOverrides and Validate *)

\* TOOLSET_SERVER_PORT wins over TOOLSET_PORT, and both over the file.
Port(c) ==
  IF c.serverPort # None THEN c.serverPort ELSE IF c.envPort # None THEN c.envPort ELSE c.port
Valid(c) == Port(c) \in 1 .. 65535 /\ c.mode \in {"none", "token"}

ASSUME PortsAssumption ==
  \A c \in Configs : Valid(c) => Port(c) \in Ports /\ (c.fallback > 0 => c.fallback \in Ports)

Usable(p) == p > 0 /\ p \notin taken

-----------------------------------------------------------------------------
Init ==
  /\ LimiterInit /\ RegistryInit
  /\ config \in Configs
  /\ phase = "off" /\ tool = 0 /\ addr = None /\ execTool = None
  /\ at = [r \in Requests |-> "new"] /\ ask = [r \in Requests |-> None]
  /\ grant = [r \in Requests |-> None] /\ answer = [r \in Requests |-> 0]
  /\ wire = [r \in Requests |-> "none"] /\ effects = [r \in Requests |-> 0]
  /\ service = [s \in Services |-> "up"] /\ taken = {}
  /\ keyrow = [k \in Keys |-> None] /\ faults = 0

Fault == faults < MaxFaults /\ faults' = faults + 1
NoFault == UNCHANGED faults
Outside == <<service, taken, keyrow>>

-----------------------------------------------------------------------------
(* run, up to ListenAndServe *)

\* The process starts, again and again: an invalid configuration ends it at once.
Start ==
  /\ phase = "off" /\ Valid(config)
  /\ phase' = "database" /\ addr' = None /\ execTool' = None
  /\ ForgetCache
  /\ UNCHANGED <<config, tool, requests, environment, limiter>>

\* db.Open and Migrate
OpenDatabase ==
  /\ phase = "database"
  /\ \/ phase' = "tools" /\ NoFault
     \/ phase' = "off" /\ Fault
  /\ tool' = 1
  /\ UNCHANGED <<config, addr, execTool, requests, Outside, limiter, registry>>

\* RegisterDefaults, one tool: look it up, probe its health URL, register it.
Probe(name) == IF name \in Services /\ service[name] = "down" THEN "error" ELSE "ready"
RegisteredFaulty ==
  IF tool > Len(Defaults) THEN phase' = "wiring" /\ tool' = 0
  ELSE phase' = phase /\ tool' = tool + 1
Registered ==
  IF tool = Len(Defaults) THEN phase' = "wiring" /\ tool' = 0
  ELSE phase' = phase /\ tool' = tool + 1
RegisterDefault ==
  /\ phase = "tools"
  /\ LET name == Defaults[tool] IN
     \/ (RegisterFound(name, Probe(name)) \/ RegisterNew(name, Probe(name))) /\ NoFault
     \/ RegisterMissed(name, Probe(name)) /\ Fault
  /\ Registered
  /\ UNCHANGED <<config, addr, execTool, requests, Outside, limiter>>

\* A row that cannot be stored ends the registration, and run only warns.
RegisterAborts ==
  /\ phase = "tools" /\ Fault
  /\ phase' = "wiring" /\ tool' = 0
  /\ UNCHANGED <<config, addr, execTool, requests, Outside, limiter, registry>>

\* ExecToolID, the workers, the routes
Wire ==
  /\ phase = "wiring"
  /\ \/ /\ NoFault
        /\ IF GetByName(ExecTool) = {} THEN execTool' = None
           ELSE \E t \in GetByName(ExecTool) : execTool' = t.id
     \/ Named(cache, ExecTool) = {} /\ execTool' = None /\ Fault
  /\ phase' = "picking"
  /\ UNCHANGED <<config, tool, addr, requests, Outside, limiter, registry>>

\* pickAddr listens on a port and closes it again.
PickedFaulty == IF Usable(Port(config)) THEN Port(config) ELSE None
Picked ==
  IF Usable(Port(config)) THEN Port(config)
  ELSE IF Usable(config.fallback) THEN config.fallback ELSE None
PickAddr ==
  /\ phase = "picking"
  /\ addr' = Picked /\ phase' = IF Picked = None THEN "off" ELSE "binding"
  /\ UNCHANGED <<config, tool, execTool, requests, environment, limiter, registry>>

\* ListenAndServe; another process may have taken the port meanwhile.
Listen ==
  /\ phase = "binding"
  /\ phase' = IF addr \in taken THEN "off" ELSE "serving"
  /\ UNCHANGED <<config, tool, addr, execTool, requests, environment, limiter, registry>>

-----------------------------------------------------------------------------
(* run, the end *)

Terminate ==
  /\ phase' = "off"
  /\ at' = [r \in Requests |-> IF at[r] \in InFlight THEN "lost" ELSE at[r]]
  /\ Forget
  /\ UNCHANGED <<config, tool, addr, execTool, ask, grant, answer, wire, effects>>
  /\ UNCHANGED <<Outside, registry>>

Shutdown ==
  /\ phase = "serving" /\ Fault
  /\ phase' = "draining"
  /\ UNCHANGED <<config, tool, addr, execTool, requests, Outside, limiter, registry>>

\* Shutdown waits for the handlers, 15 seconds at most; theirs may take 30.
Idle == \A r \in Requests : at[r] \notin InFlight
Drained == phase = "draining" /\ Idle /\ Terminate /\ NoFault
DrainTimeout == phase = "draining" /\ ~Idle /\ Terminate /\ NoFault
Crash == phase \notin {"off", "draining"} /\ Terminate /\ Fault

-----------------------------------------------------------------------------
(* The middleware *)

Running == phase \in {"serving", "draining"}
Go(r, next) == at' = [at EXCEPT ![r] = next] /\ UNCHANGED answer
Answer(r, status) == at' = [at EXCEPT ![r] = "done"] /\ answer' = [answer EXCEPT ![r] = status]

ByToken == config.mode = "token"
Key(a) == IF ByToken THEN a.token ELSE a.address
\* Callers on this host count as holders of a key for every tool.
Row(a) ==
  IF ByToken THEN IF a.token = None THEN None ELSE keyrow[a.token]
  ELSE IF a.address \in Loopback THEN [tool |-> None, expires |-> None] ELSE None

\* /health is outside the group that authenticates.
Receive(r, a) ==
  /\ phase = "serving" /\ at[r] = "new"
  /\ ask' = [ask EXCEPT ![r] = a]
  /\ UNCHANGED <<process, wire, effects, Outside, limiter, registry>>

Authenticate(r, a) ==
  /\ a.route # "health" /\ Receive(r, a)
  /\ grant' = [grant EXCEPT ![r] = Row(a)] /\ NoFault
  /\ IF Row(a) = None THEN Answer(r, IF ByToken THEN 401 ELSE 403) ELSE Go(r, "known")

\* lookupToken has no row to return with an error, and no row means an invalid token.
LookupFails(r, a) ==
  /\ a.route # "health" /\ ByToken /\ a.token # None
  /\ Receive(r, a) /\ Answer(r, 401) /\ Fault /\ UNCHANGED grant

Inside(r, where) == Running /\ at[r] = where /\ UNCHANGED <<process, ask, grant, Outside, registry>>

\* A key whose expires_at is NULL does not expire.
Expired(r) == ByToken /\ grant[r].expires # None /\ now > grant[r].expires
Expire(r) ==
  /\ Inside(r, "known") /\ Expired(r)
  /\ Answer(r, 401) /\ NoFault /\ UNCHANGED <<wire, effects, limiter>>
Throttle(r) ==
  /\ Inside(r, "known") /\ ~Expired(r)
  /\ Deny(Key(ask[r])) /\ Answer(r, 429) /\ NoFault /\ UNCHANGED <<wire, effects>>

-----------------------------------------------------------------------------
(* The handlers *)

\* RequireTool compares the tool_id of the key's row, the id of a tool, with the
\* route's name.  tools/call is not behind it.
MayUse(r) == ask[r].route \in ToolRoutes => grant[r].tool \in {None, ask[r].route}

\* Past the limiter nothing is shared before the call to a service.
Admit(r) == Inside(r, "known") /\ ~Expired(r) /\ Allow(Key(ask[r])) /\ UNCHANGED <<wire, effects>>

RefuseTool(r) == Admit(r) /\ ~MayUse(r) /\ Answer(r, 403) /\ NoFault

\* The catalog, the handshake and the schema are fixed; GET /tools and GET
\* /health read the registry.
ReadHere(r) ==
  /\ Admit(r)
  /\ \/ ask[r].route \in {"catalog", "tools"} /\ Answer(r, 200) /\ NoFault
     \/ ask[r].route = "tools" /\ Answer(r, 500) /\ Fault
ReadHealth(r, a) ==
  /\ a.route = "health" /\ Receive(r, a) /\ UNCHANGED grant
  /\ \/ Answer(r, 200) /\ NoFault
     \/ Answer(r, 500) /\ Fault

\* The handler of any other route waits for the caller's body, if there is to be one.
AwaitBody(r) ==
  /\ Admit(r) /\ MayUse(r) /\ ask[r].route \in Forwarded \cup {"resource"}
  /\ Go(r, "reading") /\ NoFault

\* It is not what the route takes, or the caller hung up.
RefuseBody(r) ==
  /\ Inside(r, "reading") /\ ask[r].body /\ ask[r].route \in Forwarded
  /\ Answer(r, 400) /\ NoFault /\ UNCHANGED <<wire, effects, limiter>>
\* resources/read echoes whatever came.
Echo(r) ==
  /\ Inside(r, "reading") /\ ask[r].route = "resource"
  /\ Answer(r, 200) /\ NoFault /\ UNCHANGED <<wire, effects, limiter>>
Send(r) == IF service[ask[r].service] = "up" THEN "sent" ELSE "refused"
Forward(r) ==
  /\ Inside(r, "reading") /\ ask[r].route \in Forwarded
  /\ wire' = [wire EXCEPT ![r] = Send(r)]
  /\ Go(r, "waiting") /\ NoFault /\ UNCHANGED <<effects, limiter>>

\* What the caller gets when the service cannot be reached, and when it answers:
\* files and browser pass its status on (200 is any success here), the others do
\* not, and a search needs results that can be parsed.
Unavailable(r) == IF ask[r].route = "call" THEN 400 ELSE 502
Verbatim(w) ==
  CASE w = "ok"     -> {200}
    [] w = "denied" -> {400} \cup Denials
    [] w = "failed" -> {400} \cup Failures
RelayedFaulty(r) ==
  CASE ask[r].route = "call"   -> {IF wire[r] = "ok" THEN 200 ELSE 400}
    [] ask[r].route = "search" -> {200, 502}
    [] OTHER                   -> Verbatim(wire[r])
Relayed(r) ==
  CASE ask[r].route = "call"   -> {IF wire[r] = "ok" THEN 200 ELSE 400}
    [] ask[r].route = "search" -> IF wire[r] = "ok" THEN {200, 502} ELSE {502}
    [] OTHER                   -> Verbatim(wire[r])

\* http.Client sends a GET again when a connection it had in use breaks.
Resend(r) ==
  /\ Inside(r, "waiting") /\ wire[r] = "broken" /\ ask[r].get
  /\ wire' = [wire EXCEPT ![r] = Send(r)]
  /\ Go(r, "waiting") /\ NoFault /\ UNCHANGED <<effects, limiter>>

Waiting(r) == Inside(r, "waiting") /\ NoFault /\ UNCHANGED <<wire, effects, limiter>>
Relay(r) ==
  /\ Waiting(r) /\ wire[r] \in {"ok", "denied", "failed"}
  /\ \E status \in Relayed(r) : Answer(r, status)
Report(r) == Waiting(r) /\ wire[r] \in {"broken", "refused"} /\ Answer(r, Unavailable(r))
\* Five seconds for a search, thirty for the others, or the caller hung up.
GiveUpFaulty(r) == Waiting(r) /\ wire[r] = "applied" /\ Answer(r, Unavailable(r))
GiveUp(r) == Waiting(r) /\ wire[r] \in {"sent", "applied"} /\ Answer(r, Unavailable(r))

-----------------------------------------------------------------------------
(* The environment *)

Around == UNCHANGED <<process, at, ask, grant, answer, registry>>

\* A service does what it is asked, refuses or fails, and answers, also those who
\* gave up.
ServiceWorks(r) ==
  /\ wire[r] = "sent" /\ service[ask[r].service] = "up"
  /\ \/ wire' = [wire EXCEPT ![r] = "applied"] /\ effects' = [effects EXCEPT ![r] = @ + 1]
     \/ wire' = [wire EXCEPT ![r] = "denied"] /\ UNCHANGED effects
     \/ /\ wire' = [wire EXCEPT ![r] = "failed"]
        /\ effects' \in {effects, [effects EXCEPT ![r] = @ + 1]}
  /\ Around /\ UNCHANGED <<environment, limiter>>
ServiceAnswers(r) ==
  /\ wire[r] = "applied" /\ service[ask[r].service] = "up"
  /\ wire' = [wire EXCEPT ![r] = "ok"]
  /\ Around /\ UNCHANGED <<effects, environment, limiter>>

ServiceDown(s) ==
  /\ service[s] = "up" /\ Fault
  /\ service' = [service EXCEPT ![s] = "down"]
  /\ wire' = [r \in Requests |->
       IF wire[r] \in {"sent", "applied"} /\ ask[r].service = s THEN "broken" ELSE wire[r]]
  /\ Around /\ UNCHANGED <<effects, taken, keyrow, limiter>>

ServiceUp(s) ==
  /\ service[s] = "down"
  /\ service' = [service EXCEPT ![s] = "up"]
  /\ Around /\ UNCHANGED <<wire, effects, taken, keyrow, faults, limiter>>

\* Another process takes a port, one at a time, and may keep it; not the gateway's own.
TakePort(p) ==
  /\ taken = {} /\ Fault
  /\ ~(Running /\ addr = p)
  /\ taken' = {p}
  /\ Around /\ UNCHANGED <<wire, effects, service, keyrow, limiter>>
ReleasePort ==
  /\ taken # {} /\ taken' = {}
  /\ Around /\ UNCHANGED <<wire, effects, service, keyrow, faults, limiter>>

\* Keys are rows of api_keys, which the gateway only reads; tool_id refers to
\* tools(id).  A key that somebody has is issued before anything is asked
\* (two bounds), and revoked at any time.
IssueKey(k, t, expires) ==
  /\ ByToken /\ keyrow[k] = None /\ \A r \in Requests : at[r] = "new"
  /\ \E r \in Requests : \E a \in Asks[r] : a.token = k
  /\ keyrow' = [keyrow EXCEPT ![k] = [tool |-> t, expires |-> expires]]
  /\ Around /\ UNCHANGED <<wire, effects, service, taken, faults, limiter>>
RevokeKey(k) ==
  /\ keyrow[k] # None /\ Fault
  /\ keyrow' = [keyrow EXCEPT ![k] = None]
  /\ Around /\ UNCHANGED <<wire, effects, service, taken, limiter>>

Clock == Tick /\ Around /\ UNCHANGED <<wire, effects, environment>>

-----------------------------------------------------------------------------
Startup == Start \/ OpenDatabase \/ RegisterDefault \/ Wire \/ PickAddr \/ Listen

Begin(r, a) == Authenticate(r, a) \/ LookupFails(r, a) \/ ReadHealth(r, a)
Proceed(r) ==
  \/ Expire(r) \/ Throttle(r) \/ RefuseTool(r) \/ ReadHere(r) \/ AwaitBody(r)
  \/ Resend(r) \/ Relay(r) \/ Report(r) \/ GiveUp(r)
BodyRead(r) == RefuseBody(r) \/ Echo(r) \/ Forward(r)
NoBody(r) == at[r] = "reading" /\ ~ask[r].body /\ BodyRead(r)

Environment ==
  \/ \E r \in Requests : ServiceWorks(r) \/ ServiceAnswers(r)
  \/ \E s \in Services : ServiceDown(s) \/ ServiceUp(s)
  \/ (\E p \in Ports : TakePort(p)) \/ ReleasePort
  \/ \E k \in Keys :
       RevokeKey(k) \/ \E t \in {None} \cup {u.id : u \in table}, e \in Expiries : IssueKey(k, t, e)
  \/ Clock

Next ==
  \/ Startup \/ RegisterAborts \/ Shutdown \/ Drained \/ DrainTimeout \/ Crash
  \/ \E r \in Requests : Proceed(r) \/ BodyRead(r) \/ \E a \in Asks[r] : Begin(r, a)
  \/ Environment

Spec == Init /\ [][Next]_vars

\* The container runtime, or its operator, starts the process again; a running
\* process goes on; the call to a service has a time limit.  The body of a
\* request has none: the server sets no ReadTimeout, and the handlers read the
\* body before their limit begins.
FairSpec ==
  /\ Spec
  /\ WF_vars(Startup \/ Drained \/ DrainTimeout)
  /\ \A r \in Requests : WF_vars(Proceed(r) \/ NoBody(r))

-----------------------------------------------------------------------------
(* Properties; RateBound, RefusalsAreEarned and OneRowPerName are also its own *)

\* What a caller is told fits what was done.  401 and 403 come from the gateway
\* alone, which sent nothing; 404, 413 and 429 from it or from a service that
\* refused, and nothing was done unless the request is a GET that was sent twice;
\* 200 for a forwarded request means that the service did it and said so; 500
\* that it said it failed.  502 and 400 tell nothing: a service that was given
\* up, or went down, may have done it.  Only a GET is done twice.
AnswersTellTheWork ==
  \A r \in Requests :
    /\ answer[r] \in {401, 403} => wire[r] = "none" /\ effects[r] = 0
    /\ answer[r] \in Denials => wire[r] \in {"none", "denied"} /\ (effects[r] = 0 \/ ask[r].get)
    /\ (answer[r] = 200 /\ wire[r] # "none") => wire[r] = "ok" /\ effects[r] >= 1
    /\ answer[r] \in Failures => wire[r] \in {"none", "failed"}
    /\ effects[r] > 1 => ask[r].get

\* Rows of other tables refer to tools(id), and processes keep ids: through every
\* restart, failed start and failed lookup, what keys, cached tools and the exec
\* tool of the job queue refer to is in the table.
ReferencesHold ==
  /\ CacheIsStored
  /\ execTool # None => \E t \in table : t.id = execTool /\ t.name = ExecTool
  /\ \A k \in Keys : (keyrow[k] # None /\ keyrow[k].tool # None) =>
       \E t \in table : t.id = keyrow[k].tool

\* Every request the gateway takes is answered, or its connection ends with the
\* process, unless its own caller withholds the body: services that hang or go
\* down, and the stalled bodies of others, hold none of them.
EveryRequestEnds ==
  \A r \in Requests : []<>(at[r] \notin InFlight \/ (at[r] = "reading" /\ ask[r].body))

\* pickAddr closes the port it tried before ListenAndServe binds it again, and
\* another process may be faster.  A gateway with two ports to choose from, one
\* of them free, serves again after every crash, stop and lost race.
ComesBack ==
  (Valid(config) /\ config.fallback \in Ports \ {Port(config)}) => []<>(phase = "serving")

-----------------------------------------------------------------------------
(* What the documentation says and the code does not do *)

\* RequireTool: a token's row must have no tool_id or "a tool_id matching
\* toolName".  No holder of a key that is limited to a tool is turned away from
\* that tool's route.
ScopedKeysOpenTheirTool ==
  \A r \in Requests :
    (ByToken /\ answer[r] = 403) =>
      ~\E t \in table : t.id = grant[r].tool /\ t.name = ask[r].route
=============================================================================
