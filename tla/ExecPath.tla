------------------------------ MODULE ExecPath ------------------------------
(***************************************************************************)
(* One run of submitted code, from the caller to the sandbox and back.     *)
(* It comes by POST /exec ("sync"), by the MCP tool exec ("mcp"), or as a  *)
(* job a queue worker has claimed ("async").  Three clocks bound it: the   *)
(* gateway's limit for the route, the limit of its HTTP client, and the    *)
(* deadline the sandbox gives the code; nothing tells the sandbox when the *)
(* gateway stops waiting, or when the job is cancelled.  The deadline      *)
(* kills the process the sandbox started and no other: children of it that *)
(* hold its output open keep the sandbox waiting.                          *)
(*                                                                         *)
(* The sandboxes share no state between requests, so there is one request  *)
(* at a time here; how jobs compete is in JobQueue.                        *)
(***************************************************************************)
EXTENDS Integers

CONSTANTS
  Languages,       \* the languages callers ask for
  Timeouts,        \* the timeouts callers ask for, absent is 0
  None,
  DefaultTimeout,  \* 30 s
  MaxTimeout,      \* 300 s, the sandbox's cap
  SyncLimit,       \* 300 s, on POST /exec
  McpLimit,        \* 30 s, on tools/call
  ClientLimit      \* 310 s, of the HTTP client

ASSUME TimesAssumption ==
  /\ Timeouts \subseteq Int
  /\ {DefaultTimeout, MaxTimeout, SyncLimit, McpLimit, ClientLimit} \subseteq Nat \ {0}
ASSUME LimitsAssumption == DefaultTimeout <= MaxTimeout

VARIABLES
  enabled,  \* the sandbox tiers the configuration enables
  request,  \* what the caller asked for
  front,    \* the gateway: idle, queued, calling, done
  waited,   \* how long it has been calling
  answer,   \* what the caller, or the job's record, ends with
  job,      \* the status of the job, on the async route
  row,      \* what the queue stored of the request
  wire,     \* the request on its way to the sandbox
  box,      \* the sandbox: idle, compiling, running
  alive,    \* whether the process of the present command runs
  got,      \* the request it works on
  age,      \* how long it has worked on it, up to just over its deadline
  deadline, \* when its context expires
  reply,    \* what it returned
  exited,   \* history: the program ran to its end within the deadline
  arrived,  \* history: how long the gateway had waited when the request arrived
  lost      \* history: the connection was lost

asking  == <<request, row>>
gateway == <<front, waited, answer, job>>
sandbox == <<box, alive, got, age, deadline, reply, exited, arrived>>
vars == <<enabled, asking, gateway, wire, sandbox, lost>>

Tiers   == {"light", "heavy"}
Request == [route : {"sync", "mcp", "async"}, language : Languages,
            code : {"", "some", "huge"}, timeout : Timeouts]
\* A request as the gateway sends it and as the sandbox runs it.
Work    == [language : Languages, code : {"", "some", "huge"}, timeout : Int]
Active  == {"compiling", "running"}
Replies == {"success", "error", "timeout", "unsupported", "rejected", "lost"}
Answers == {"refused", "disabled", "unavailable", "gone", "cancelled", "success", "error",
            "timeout"}

ASSUME NoneAssumption == None \notin Request \cup Work \cup Replies \cup Answers

TypeOK ==
  /\ enabled \subseteq Tiers
  /\ request \in Request \cup {None}
  /\ front \in {"idle", "queued", "calling", "done"} /\ waited \in Nat
  /\ answer \in Answers \cup {None}
  /\ job \in {"none", "pending", "running", "completed", "failed", "cancelled"}
  /\ row \in Work \cup {None} /\ wire \in Work \cup {None} /\ got \in Work \cup {None}
  /\ box \in Active \cup {"idle"} /\ alive \in BOOLEAN
  /\ age \in Nat /\ deadline \in Nat
  /\ reply \in Replies \cup {None}
  /\ exited \in BOOLEAN /\ arrived \in Nat /\ lost \in BOOLEAN

Init ==
  /\ enabled \in SUBSET Tiers
  /\ request = None /\ row = None /\ wire = None /\ got = None
  /\ front = "idle" /\ waited = 0 /\ answer = None /\ job = "none"
  /\ box = "idle" /\ alive = FALSE /\ age = 0 /\ deadline = 0 /\ reply = None
  /\ exited = FALSE /\ arrived = 0 /\ lost = FALSE

-----------------------------------------------------------------------------
(* The gateway's routing. *)

LightLanguages == {"python", "node", "bash", "c", "cpp", "assembly"}
HeavyLanguages == {"java", "rust", "csharp", "dotnet"}

Tier(language) == IF language \in LightLanguages THEN "light" ELSE "heavy"
Supported(language) == language \in LightLanguages \cup HeavyLanguages

URLResolvesFaulty(language) == Supported(language)
URLResolves(language) == Supported(language) /\ Tier(language) \in enabled

\* The error of a request the client of the sandboxes does not send.
Refusal(language) == IF Supported(language) THEN "disabled" ELSE "refused"

-----------------------------------------------------------------------------
(* The gateway. *)

\* The earlier of the route's own limit and that of the HTTP client.
Limit(route) ==
  LET own == CASE route = "sync" -> SyncLimit [] route = "mcp" -> McpLimit [] OTHER -> ClientLimit
  IN  IF own < ClientLimit THEN own ELSE ClientLimit

WorkOf(r) == [language |-> r.language, code |-> r.code, timeout |-> r.timeout]

\* What comes back of a request from the row of its job: code, language and
\* timeout, with the default filled in at submit, and neither stdin nor env.
RowFaulty(r) == [language |-> r.language, code |-> r.code,
                 timeout |-> IF r.timeout <= DefaultTimeout THEN DefaultTimeout ELSE r.timeout]
Row(r) == [language |-> r.language, code |-> r.code,
           timeout |-> IF r.timeout <= 0 THEN DefaultTimeout ELSE r.timeout]

\* Client.Execute: either the request is sent or the call ends at once.
Execute(w) ==
  \/ /\ URLResolves(w.language)
     /\ wire' = w /\ front' = "calling" /\ answer' = None
  \/ /\ ~URLResolves(w.language)
     /\ front' = "done" /\ answer' = Refusal(w.language) /\ wire' = None

\* The handler binds the body; nothing is left of an earlier request.
Ask(r) ==
  /\ front = "idle" /\ request' = r
  /\ UNCHANGED <<enabled, waited, sandbox, lost>>

\* The handler finds the body incomplete.
AskInvalid(r) ==
  /\ Ask(r) /\ r.code = ""
  /\ front' = "done" /\ answer' = "refused" /\ job' = "none" /\ row' = None /\ wire' = None

\* POST /exec or tools/call exec.
AskNow(r) ==
  /\ Ask(r) /\ r.code # "" /\ r.route # "async"
  /\ Execute(WorkOf(r)) /\ job' = "none" /\ row' = None

\* POST /exec/async: only the language is looked at, not whether its tier is on.
AskLater(r) ==
  /\ Ask(r) /\ r.code # "" /\ r.route = "async" /\ wire' = None
  /\ \/ /\ Supported(r.language)
        /\ row' = Row(r) /\ front' = "queued" /\ job' = "pending" /\ answer' = None
     \/ /\ ~Supported(r.language)
        /\ row' = None /\ front' = "done" /\ job' = "none" /\ answer' = "refused"

\* A queue worker claims the job; its error or its reply ends the job.
WorkerCalls ==
  /\ front = "queued"
  /\ Execute(row)
  /\ job' = IF front' = "done" THEN "failed" ELSE "running"
  /\ UNCHANGED <<enabled, asking, waited, sandbox, lost>>

\* DELETE /exec/:id.  A job that waits is never claimed; the code of one that
\* was claimed is not told.
Cancel ==
  /\ \/ front = "queued" /\ front' = "done" /\ answer' = "cancelled"
     \/ front = "calling" /\ job = "running" /\ UNCHANGED <<front, answer>>
  /\ job' = "cancelled"
  /\ UNCHANGED <<enabled, asking, waited, wire, sandbox, lost>>

\* Complete: an error of the call or of the code fails the job, cancelled or not.
JobEndsFaulty(a) == IF job = "none" THEN job ELSE a
JobEnds(a) == IF job = "none" THEN job ELSE IF a = "success" THEN "completed" ELSE "failed"

Answer(a) ==
  /\ front' = "done" /\ answer' = a /\ job' = JobEnds(a)
  /\ UNCHANGED <<enabled, asking, waited, sandbox>>

\* The reply arrives: any status but 200 and the end of the container are errors
\* of the call.
ReplyArrives ==
  /\ front = "calling" /\ reply # None
  /\ Answer(IF reply \in {"rejected", "lost"} THEN "unavailable"
            ELSE IF reply = "unsupported" THEN "error" ELSE reply)
  /\ UNCHANGED <<wire, lost>>

GiveUp ==
  /\ front = "calling" /\ waited >= Limit(request.route)
  /\ Answer("unavailable")
  /\ UNCHANGED <<wire, lost>>

\* The connection breaks, before the request arrived or after; the sandbox, if it
\* has the request, works on.
ConnectionLost ==
  /\ front = "calling"
  /\ Answer("unavailable")
  /\ wire' \in {wire, None} /\ lost' = TRUE

\* The caller goes away, and with it the context of the call.
CallerLeaves ==
  /\ front = "calling" /\ request.route # "async"
  /\ Answer("gone")
  /\ UNCHANGED <<wire, lost>>

\* The caller has its answer and both sides have returned.
Return ==
  /\ front = "done" /\ box = "idle" /\ wire = None
  /\ front' = "idle" /\ waited' = 0 /\ answer' = None /\ job' = "none"
  /\ request' = None /\ row' = None
  /\ got' = None /\ age' = 0 /\ deadline' = 0 /\ reply' = None /\ exited' = FALSE
  /\ arrived' = 0 /\ lost' = FALSE
  /\ UNCHANGED <<enabled, wire, box, alive>>

\* The gateway restarts with another configuration while the job waits.
Reconfigure ==
  /\ front = "queued"
  /\ enabled' \in SUBSET Tiers
  /\ UNCHANGED <<asking, gateway, wire, sandbox, lost>>

-----------------------------------------------------------------------------
(* The sandbox.  Both images run the same server. *)

Interpreted == {"python", "node", "bash"}
CompiledFaulty == {"c", "cpp", "assembly", "java", "rust", "csharp"}
Compiled == {"c", "cpp", "assembly", "java", "rust", "csharp", "dotnet"}

GrantedFaulty(t) == IF t <= 0 THEN DefaultTimeout ELSE t
Granted(t) == IF t <= 0 THEN DefaultTimeout ELSE IF t > MaxTimeout THEN MaxTimeout ELSE t

Idle(r) == box' = "idle" /\ alive' = FALSE /\ reply' = r
Command(b) == box' = b /\ alive' = TRUE

\* handleExec up to the first command: the body is read, the timeout granted,
\* the language looked up, the work directory and the source file made.
BoxReceives ==
  /\ wire # None /\ wire' = None
  /\ got' = [wire EXCEPT !.timeout = Granted(wire.timeout)]
  /\ age' = 0 /\ deadline' = Granted(wire.timeout) /\ exited' = FALSE /\ arrived' = waited
  /\ \/ wire.code = "huge" /\ Idle("rejected")
     \/ wire.code # "huge" /\ wire.language \notin Interpreted \cup Compiled /\ Idle("unsupported")
     \/ wire.code # "huge" /\ wire.language \in Interpreted \cup Compiled /\ Idle("error")
     \/ wire.code # "huge" /\ wire.language \in Compiled /\ Command("compiling") /\ reply' = None
     \/ wire.code # "huge" /\ wire.language \in Interpreted /\ Command("running") /\ reply' = None
  /\ UNCHANGED <<enabled, asking, gateway, lost>>

\* The compiler has ended in time, and whoever held its output; the run goes on
\* under the same deadline.
CompileEndsFaulty ==
  /\ box = "compiling" /\ age < deadline
  /\ \/ Command("running") /\ deadline' = age + got.timeout /\ UNCHANGED reply
     \/ Idle("error") /\ UNCHANGED deadline
  /\ UNCHANGED <<enabled, asking, gateway, wire, got, age, exited, arrived, lost>>
CompileEnds ==
  /\ box = "compiling" /\ age < deadline
  /\ \/ Command("running") /\ UNCHANGED reply
     \/ Idle("error")
  /\ UNCHANGED <<enabled, asking, gateway, wire, got, age, deadline, exited, arrived, lost>>

\* So has the program, whatever its exit code, or it could not be started.
RunEnds ==
  /\ box = "running" /\ age < deadline
  /\ \/ Idle("success") /\ exited' = TRUE
     \/ Idle("error") /\ UNCHANGED exited
  /\ UNCHANGED <<enabled, asking, gateway, wire, got, age, deadline, arrived, lost>>

\* The process ends by itself, but a child of it holds its output open:
\* cmd.Run waits on, and there is nothing left that the deadline could kill.
LeavesChildren ==
  /\ alive /\ age < deadline
  /\ alive' = FALSE
  /\ UNCHANGED <<enabled, asking, gateway, wire, box, got, age, deadline, reply, exited, arrived,
                 lost>>

\* The deadline kills the compiler or the program, not its children.
DeadlineKillsFaulty ==
  /\ alive /\ age >= deadline /\ box = "compiling"
  /\ alive' = FALSE
  /\ UNCHANGED <<enabled, asking, gateway, wire, box, got, age, deadline, reply, exited, arrived,
                 lost>>
DeadlineKills ==
  /\ alive /\ age >= deadline
  /\ alive' = FALSE
  /\ UNCHANGED <<enabled, asking, gateway, wire, box, got, age, deadline, reply, exited, arrived,
                 lost>>

\* The output is closed after the deadline: a timeout, however the process ended,
\* and no run follows a compile.
TimesOutFaulty ==
  /\ box \in Active /\ ~alive /\ age >= deadline
  /\ Idle(IF box = "running" THEN "success" ELSE "timeout")
  /\ UNCHANGED <<enabled, asking, gateway, wire, got, age, deadline, exited, arrived, lost>>
TimesOut ==
  /\ box \in Active /\ ~alive /\ age >= deadline
  /\ Idle("timeout")
  /\ UNCHANGED <<enabled, asking, gateway, wire, got, age, deadline, exited, arrived, lost>>

\* The container dies, and everything in it; whoever waits gets an error.
BoxCrashes ==
  /\ wire # None \/ box \in Active
  /\ wire' = None /\ Idle("lost")
  /\ UNCHANGED <<enabled, asking, gateway, got, age, deadline, exited, arrived, lost>>

-----------------------------------------------------------------------------
(* Time.  It does not pass a moment at which something is due. *)

Due == \/ front = "calling" /\ (waited >= Limit(request.route) \/ reply # None)
       \/ alive /\ age >= deadline

Tick ==
  /\ front = "calling" \/ box \in Active
  /\ ~Due
  /\ waited' = IF front = "calling" THEN waited + 1 ELSE waited
  /\ age' = IF box \in Active /\ age <= deadline THEN age + 1 ELSE age
  /\ UNCHANGED <<enabled, asking, front, answer, job, wire, box, alive, got, deadline, reply,
                 exited, arrived, lost>>

CallerStep  == \E r \in Request : AskInvalid(r) \/ AskNow(r) \/ AskLater(r)
GatewayStep == WorkerCalls \/ Cancel \/ ReplyArrives \/ GiveUp \/ Return
SandboxStep == CompileEnds \/ RunEnds \/ LeavesChildren \/ DeadlineKills \/ TimesOut
Next == CallerStep \/ GatewayStep \/ CallerLeaves \/ ConnectionLost \/ Reconfigure \/ BoxReceives
        \/ SandboxStep \/ BoxCrashes \/ Tick

Spec == Init /\ [][Next]_vars

\* A worker calls, timers fire, replies are read and time passes.  Requests need
\* not arrive, programs need not end, nor their children after them, and callers
\* need not leave.
Fairness ==
  /\ WF_vars(WorkerCalls) /\ WF_vars(ReplyArrives \/ GiveUp)
  /\ WF_vars(DeadlineKills) /\ WF_vars(Tick)
FairSpec == Spec /\ Fairness

-----------------------------------------------------------------------------
(* Properties. *)

\* The compiler and the program, the processes the sandbox starts, together never
\* run longer than the timeout granted, nor longer than the cap
\* (executor-server.go, executeCode).  Their children may.
OneBudget == alive => age <= got.timeout /\ got.timeout <= MaxTimeout

\* A success, and a completed job, is a program that exited by itself in time:
\* no kill, failed compile or lost connection on the way is taken for one.
SuccessMeansExited ==
  /\ answer = "success" => exited
  /\ job = "completed" => answer = "success"

\* A job is recorded as completed when its code is over, children included.  One
\* is recorded as failed while its program runs only if the connection was lost or
\* the request reached the sandbox too late for the client, which otherwise waits
\* longer than the sandbox may take.
EndedJobIsQuiet ==
  /\ job = "completed" => box = "idle" /\ wire = None
  /\ job = "failed" /\ alive => lost \/ arrived + MaxTimeout >= ClientLimit

\* Every route grants the timeout asked for, within the same default and cap,
\* though the queue and the sandbox each fill in a default.
SameBudgetOnEveryRoute == got # None => got.timeout = Granted(request.timeout)

\* A tier that is off receives nothing, whatever the configuration was when the
\* job was accepted.
DisabledTierIdle == wire # None => Tier(wire.language) \in enabled

\* The language table of the gateway and that of the sandbox agree.
RoutedIsSupported == reply # "unsupported"

\* Every call ends, and so does every compiler and program, with or without
\* somebody waiting.
EverythingEnds ==
  /\ front \in {"queued", "calling"} ~> front = "done"
  /\ alive ~> ~alive

=============================================================================
