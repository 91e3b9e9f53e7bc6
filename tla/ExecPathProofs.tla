--------------------------- MODULE ExecPathProofs ---------------------------
(***************************************************************************)
(* Theorems about ExecPath, for any languages, timeouts and limits that    *)
(* satisfy its assumptions.                                                *)
(***************************************************************************)
EXTENDS ExecPath, TLAPS

\* The gateway's phases: what each of them has of the request.
FrontInv ==
  /\ front = "idle" <=> request = None
  /\ front \in {"idle", "queued"} => wire = None /\ box = "idle" /\ reply = None /\ got = None
  /\ front # "done" <=> answer = None
  /\ front = "queued" => request.route = "async" /\ row = Row(request)

\* The job follows the gateway.
JobInv ==
  /\ front = "calling" /\ job # "none" => request.route = "async"
  /\ job = "running" => front = "calling"
  /\ job = "completed" => front = "done" /\ box = "idle" /\ wire = None /\ answer = "success"
  /\ job = "failed" => front = "done"

\* The sandbox has the request and may still start a command for it.
InTime == box \in Active /\ age <= deadline

\* A failed job whose request is under way, or whose code may still run: the
\* connection was lost, or the worker's patience ended.
LateInv ==
  /\ job = "failed" /\ wire # None => lost \/ waited + MaxTimeout >= ClientLimit
  /\ job = "failed" /\ InTime => lost \/ arrived + MaxTimeout >= ClientLimit

\* A request is in one place: on its way, worked on, or replied to.
PlaceInv ==
  /\ wire # None => request # None /\ box = "idle" /\ reply = None /\ got = None
  /\ box \in Active => request # None /\ reply = None /\ got # None
  /\ wire # None => /\ Supported(wire.language) /\ Tier(wire.language) \in enabled
                    /\ Granted(wire.timeout) = Granted(request.timeout)
  /\ got # None => wire = None /\ request # None /\ got.timeout = Granted(request.timeout)
  /\ alive => box \in Active
  /\ reply # "unsupported"

\* The three clocks: the sandbox's deadline is the timeout granted, and the
\* gateway's clock is ahead of the sandbox's by what it was when the request arrived.
ClockInv ==
  /\ box \in Active => deadline = got.timeout
  /\ alive => age <= deadline
  /\ front \in {"idle", "queued"} => waited = 0
  /\ front = "calling" /\ InTime => waited <= arrived + age

\* A success is one of a program that exited, and nothing follows it.
SuccessInv ==
  /\ reply = "success" => exited
  /\ answer = "success" => exited /\ wire = None /\ box = "idle"

IInv == TypeOK /\ FrontInv /\ JobInv /\ LateInv /\ PlaceInv /\ ClockInv /\ SuccessInv

\* Init establishes the invariant.
LEMMA InitInv == Init => IInv
<1> SUFFICES ASSUME Init PROVE IInv
  OBVIOUS
<1> USE NoneAssumption DEF Init, Active, Replies, Answers
<1>1. TypeOK
  BY DEF TypeOK
<1>2. FrontInv /\ JobInv /\ LateInv /\ ClockInv /\ SuccessInv
  BY DEF FrontInv, JobInv, LateInv, InTime, ClockInv, SuccessInv
<1>3. PlaceInv
  BY DEF PlaceInv
<1> QED
  BY <1>1, <1>2, <1>3 DEF IInv

-----------------------------------------------------------------------------
(* What the sandbox grants, and what the limits of the routes are. *)

LEMMA GrantedBounds ==
  ASSUME NEW t \in Int
  PROVE  Granted(t) \in Nat \ {0} /\ Granted(t) <= MaxTimeout
BY TimesAssumption, LimitsAssumption DEF Granted

LEMMA WorkMade ==
  ASSUME NEW l \in Languages, NEW c \in {"", "some", "huge"}, NEW t \in Int
  PROVE  /\ [language |-> l, code |-> c, timeout |-> t] \in Work
         /\ [language |-> l, code |-> c, timeout |-> t].language = l
         /\ [language |-> l, code |-> c, timeout |-> t].timeout = t
BY DEF Work

\* The default that the queue fills in changes nothing for the sandbox.
LEMMA GrantedRow ==
  ASSUME NEW r \in Request
  PROVE  /\ Row(r) \in Work /\ WorkOf(r) \in Work
         /\ Row(r).language = r.language /\ WorkOf(r).language = r.language
         /\ Granted(Row(r).timeout) = Granted(r.timeout) /\ WorkOf(r).timeout = r.timeout
<1>1. r.timeout \in Int /\ r.language \in Languages
      /\ r.code \in {"", "some", "huge"}
  BY TimesAssumption DEF Request
<1>2. WorkOf(r) \in Work /\ WorkOf(r).language = r.language /\ WorkOf(r).timeout = r.timeout
  BY <1>1 DEF WorkOf, Work
<1>3. Row(r) \in Work /\ Row(r).language = r.language
      /\ Row(r).timeout = IF r.timeout <= 0 THEN DefaultTimeout ELSE r.timeout
  <2> DEFINE l == r.language
             c == r.code
             t == IF r.timeout <= 0 THEN DefaultTimeout ELSE r.timeout
  <2>0. l \in Languages /\ c \in {"", "some", "huge"}
    BY <1>1
  <2>1. t \in Int
    <3>1. DefaultTimeout \in Int
      BY TimesAssumption
    <3>2. CASE r.timeout <= 0
      BY <3>1, <3>2
    <3>3. CASE ~(r.timeout <= 0)
      BY <1>1, <3>3
    <3> QED
      BY <3>2, <3>3
  <2> HIDE DEF l, c, t
  <2> DEFINE w == [language |-> l, code |-> c, timeout |-> t]
  <2>2. w \in Work /\ w.language = l /\ w.timeout = t
    BY <2>0, <2>1, WorkMade
  <2>3. Row(r) = w
    BY Zenon DEF Row, w, l, c, t
  <2> HIDE DEF w
  <2>4. Row(r) \in Work /\ Row(r).language = r.language
    BY <2>2, <2>3 DEF l
  <2>5. Row(r).timeout = IF r.timeout <= 0 THEN DefaultTimeout ELSE r.timeout
    BY <2>2, <2>3 DEF t
  <2> QED
    BY <2>4, <2>5
<1>4. \A t \in Int : Granted(IF t <= 0 THEN DefaultTimeout ELSE t) = Granted(t)
  BY TimesAssumption, LimitsAssumption DEF Granted
<1>5. Granted(Row(r).timeout) = Granted(r.timeout)
  BY <1>1, <1>3, <1>4
<1> QED
  BY <1>2, <1>3, <1>5

LEMMA WorkWith ==
  ASSUME NEW w \in Work, NEW t \in Int
  PROVE  [w EXCEPT !.timeout = t] \in Work /\ [w EXCEPT !.timeout = t].timeout = t
BY DEF Work

LEMMA LimitBounds ==
  /\ \A route : Limit(route) \in Nat
  /\ Limit("async") = ClientLimit
BY TimesAssumption DEF Limit

-----------------------------------------------------------------------------
(* Every step keeps the invariant: one lemma per actor. *)

LEMMA ExecuteFacts ==
  ASSUME NEW w \in Work, Execute(w)
  PROVE  /\ front' \in {"calling", "done"}
         /\ front' = "calling" => answer' = None /\ wire' = w
                                  /\ Supported(w.language) /\ Tier(w.language) \in enabled
         /\ front' = "done" => answer' \in {"disabled", "refused"} /\ wire' = None
BY DEF Execute, URLResolves, Refusal

LEMMA CallerKeeps ==
  ASSUME IInv, NEW r \in Request, AskInvalid(r) \/ AskNow(r) \/ AskLater(r)
  PROVE  IInv'
<1> USE DEF IInv, TypeOK, FrontInv, JobInv, LateInv, InTime, PlaceInv, ClockInv, SuccessInv,
        Ask, sandbox, Active
<1> USE NoneAssumption DEF Answers, Replies
<1>0. Row(r) \in Work /\ WorkOf(r) \in Work /\ Row(r).language = r.language
      /\ WorkOf(r).language = r.language /\ WorkOf(r).timeout = r.timeout /\ r # None
  BY GrantedRow
<1>1. CASE AskInvalid(r)
  BY <1>0, <1>1 DEF AskInvalid
<1>2. CASE AskNow(r)
  <2>1. Execute(WorkOf(r)) /\ request' = r
    BY <1>2 DEF AskNow
  <2>2. /\ front' \in {"calling", "done"}
        /\ front' = "calling" => answer' = None /\ wire' = WorkOf(r)
                                 /\ Supported(r.language) /\ Tier(r.language) \in enabled
        /\ front' = "done" => answer' \in {"disabled", "refused"} /\ wire' = None
    BY <1>0, <2>1, ExecuteFacts
  <2>3. front = "idle" /\ enabled' = enabled /\ waited' = waited /\ box' = box /\ got' = got
        /\ age' = age /\ deadline' = deadline /\ reply' = reply /\ exited' = exited
        /\ alive' = alive /\ arrived' = arrived /\ lost' = lost
        /\ job' = "none" /\ row' = None
    BY <1>2 DEF AskNow
  <2>4. TypeOK'
    BY <1>0, <2>1, <2>2, <2>3
  <2>5. FrontInv' /\ JobInv' /\ LateInv' /\ SuccessInv'
    BY <1>0, <2>1, <2>2, <2>3
  <2>6. PlaceInv'
    BY <1>0, <2>1, <2>2, <2>3
  <2>7. ClockInv'
    BY <2>2, <2>3, TimesAssumption
  <2> QED
    BY <2>4, <2>5, <2>6, <2>7
<1>3. CASE AskLater(r)
  BY <1>0, <1>3 DEF AskLater
<1> QED
  BY <1>1, <1>2, <1>3

LEMMA WorkerKeeps == IInv /\ WorkerCalls => IInv'
<1> SUFFICES ASSUME IInv, WorkerCalls PROVE IInv'
  OBVIOUS
<1> USE DEF IInv, TypeOK, FrontInv, JobInv, LateInv, InTime, PlaceInv, ClockInv, SuccessInv,
        asking, sandbox, Active
<1> USE NoneAssumption DEF Answers, Replies
<1>1. front = "queued" /\ request \in Request /\ request.route = "async" /\ row = Row(request)
  BY DEF WorkerCalls
<1>2. row \in Work /\ row # None /\ Granted(row.timeout) = Granted(request.timeout)
  BY <1>1, GrantedRow
<1>3. /\ front' \in {"calling", "done"}
      /\ front' = "calling" => answer' = None /\ wire' = row
                               /\ Supported(row.language) /\ Tier(row.language) \in enabled
      /\ front' = "done" => answer' \in {"disabled", "refused"} /\ wire' = None
  BY <1>2, ExecuteFacts DEF WorkerCalls
<1>4. enabled' = enabled /\ request' = request /\ row' = row /\ waited' = waited /\ box' = box
      /\ got' = got /\ age' = age /\ deadline' = deadline /\ reply' = reply /\ exited' = exited
      /\ alive' = alive /\ arrived' = arrived /\ lost' = lost
      /\ job' = IF front' = "done" THEN "failed" ELSE "running"
  BY DEF WorkerCalls
<1>5. TypeOK' /\ FrontInv' /\ JobInv' /\ LateInv' /\ SuccessInv'
  BY <1>1, <1>2, <1>3, <1>4
<1>6. PlaceInv'
  BY <1>1, <1>2, <1>3, <1>4
<1>7. ClockInv'
  BY <1>1, <1>3, <1>4, TimesAssumption
<1> QED
  BY <1>5, <1>6, <1>7

\* The step that ends a call with the answer a.
LEMMA AnswerKeeps ==
  ASSUME IInv, NEW a \in Answers, Answer(a), front = "calling",
         wire' \in {wire, None}, lost' \in BOOLEAN,
         a = "success" => exited /\ wire = None /\ box = "idle",
         job # "none" => \/ lost'
                         \/ /\ InTime => arrived + MaxTimeout >= ClientLimit
                            /\ wire # None => waited + MaxTimeout >= ClientLimit
  PROVE  IInv'
<1> USE DEF IInv, Answer, asking, sandbox
<1>1. front' = "done" /\ answer' = a /\ job' = JobEnds(a) /\ a # None
  BY NoneAssumption
<1>2. TypeOK'
  BY <1>1 DEF TypeOK, JobEnds
<1>3. FrontInv'
  BY <1>1 DEF FrontInv
<1>4. JobInv'
  BY <1>1 DEF JobInv, JobEnds, TypeOK
<1>5. LateInv'
  BY <1>1 DEF LateInv, InTime, JobEnds
<1>6. PlaceInv' /\ ClockInv' /\ SuccessInv'
  BY <1>1 DEF PlaceInv, ClockInv, InTime, SuccessInv
<1> QED
  BY <1>2, <1>3, <1>4, <1>5, <1>6

LEMMA ReplyKeeps == IInv /\ ReplyArrives => IInv'
<1> SUFFICES ASSUME IInv, ReplyArrives PROVE IInv'
  OBVIOUS
<1> DEFINE a == IF reply \in {"rejected", "lost"} THEN "unavailable"
                ELSE IF reply = "unsupported" THEN "error" ELSE reply
<1>1. a \in Answers /\ Answer(a) /\ front = "calling" /\ wire' = wire /\ lost' \in BOOLEAN
  BY DEF ReplyArrives, IInv, TypeOK, Replies, Answers
<1>2. wire = None /\ box = "idle" /\ ~InTime
  BY DEF ReplyArrives, IInv, PlaceInv, TypeOK, InTime, Active
<1>3. a = "success" => exited
  BY DEF IInv, SuccessInv
<1> HIDE DEF a
<1> QED
  BY <1>1, <1>2, <1>3, AnswerKeeps

\* A worker that gives up has waited for the client's limit, of which the program
\* has had all but what passed before the request arrived.
LEMMA GiveUpKeeps == IInv /\ (GiveUp \/ CallerLeaves \/ ConnectionLost) => IInv'
<1> SUFFICES ASSUME IInv, GiveUp \/ CallerLeaves \/ ConnectionLost PROVE IInv'
  OBVIOUS
<1>1. CASE CallerLeaves
  <2>1. Answer("gone") /\ front = "calling" /\ job = "none" /\ wire' = wire /\ lost' \in BOOLEAN
    BY <1>1 DEF CallerLeaves, IInv, JobInv, TypeOK
  <2> QED
    BY <2>1, AnswerKeeps DEF Answers
<1>2. CASE ConnectionLost
  <2>1. Answer("unavailable") /\ front = "calling" /\ wire' \in {wire, None} /\ lost' = TRUE
    BY <1>2 DEF ConnectionLost
  <2> QED
    BY <2>1, AnswerKeeps DEF Answers
<1>3. CASE GiveUp
  <2>1. Answer("unavailable") /\ front = "calling" /\ waited >= Limit(request.route)
        /\ wire' = wire /\ lost' \in BOOLEAN
    BY <1>3 DEF GiveUp, IInv, TypeOK
  <2>2. ASSUME job # "none"
        PROVE  /\ InTime => arrived + MaxTimeout >= ClientLimit
               /\ wire # None => waited + MaxTimeout >= ClientLimit
    <3>1. waited >= ClientLimit /\ waited \in Nat /\ arrived \in Nat /\ age \in Nat
          /\ MaxTimeout \in Nat /\ ClientLimit \in Nat
      BY <2>1, <2>2, LimitBounds, TimesAssumption DEF IInv, JobInv, TypeOK
    <3>2. ASSUME InTime
          PROVE  arrived + MaxTimeout >= ClientLimit
      <4>1. deadline = got.timeout /\ got.timeout = Granted(request.timeout) /\ request \in Request
        BY <3>2 DEF IInv, ClockInv, PlaceInv, TypeOK, InTime
      <4>2. request.timeout \in Int
        BY <4>1, TimesAssumption DEF Request
      <4>3. deadline \in Nat /\ deadline <= MaxTimeout
        BY <4>1, <4>2, GrantedBounds
      <4>4. waited <= arrived + age /\ age <= deadline
        BY <2>1, <3>2 DEF IInv, ClockInv, InTime
      <4> QED
        BY <3>1, <4>3, <4>4
    <3> QED
      BY <3>1, <3>2
  <2> QED
    BY <2>1, <2>2, AnswerKeeps DEF Answers
<1> QED
  BY <1>1, <1>2, <1>3

\* A cancelled job keeps its place; its code is not told.
LEMMA CancelKeeps == IInv /\ Cancel => IInv'
<1> SUFFICES ASSUME IInv, Cancel PROVE IInv'
  OBVIOUS
<1> USE NoneAssumption DEF IInv, InTime, asking, sandbox, Answers
<1>1. TypeOK'
  BY DEF Cancel, TypeOK
<1>2. FrontInv' /\ JobInv' /\ LateInv'
  BY DEF Cancel, FrontInv, JobInv, LateInv
<1>3. PlaceInv' /\ ClockInv' /\ SuccessInv'
  BY DEF Cancel, PlaceInv, ClockInv, SuccessInv
<1> QED
  BY <1>1, <1>2, <1>3

LEMMA OthersKeep == IInv /\ (Return \/ Reconfigure) => IInv'
<1> SUFFICES ASSUME IInv, Return \/ Reconfigure PROVE IInv'
  OBVIOUS
<1> USE NoneAssumption
    DEF IInv, FrontInv, JobInv, LateInv, InTime, PlaceInv, ClockInv, SuccessInv, Active,
        Replies, Answers
<1>1. CASE Return
  BY <1>1 DEF Return, TypeOK
<1>2. CASE Reconfigure
  BY <1>2 DEF Reconfigure, TypeOK, asking, gateway, sandbox
<1> QED
  BY <1>1, <1>2

\* The deadline is the timeout granted, and the clock starts when the request arrives.
LEMMA ReceiveKeeps == IInv /\ BoxReceives => IInv'
<1> SUFFICES ASSUME IInv, BoxReceives PROVE IInv'
  OBVIOUS
<1> USE DEF IInv, asking, gateway, Idle, Command
<1>1. wire \in Work /\ wire # None /\ request \in Request /\ wire.timeout \in Int
  BY DEF BoxReceives, TypeOK, PlaceInv, Work
<1>2. Granted(wire.timeout) \in Nat \ {0}
  BY <1>1, GrantedBounds
<1> DEFINE g == Granted(wire.timeout)
<1>3. /\ got' = [wire EXCEPT !.timeout = g] /\ wire' = None
      /\ age' = 0 /\ deadline' = g /\ exited' = FALSE /\ arrived' = waited /\ lost' = lost
      /\ enabled' = enabled /\ request' = request /\ row' = row
      /\ front' = front /\ waited' = waited /\ answer' = answer /\ job' = job
  BY DEF BoxReceives
<1>4. got' \in Work /\ got'.timeout = g /\ got' # None
  <2>1. g \in Int
    BY <1>2
  <2> HIDE DEF g
  <2> QED
    BY <1>1, <1>3, <2>1, WorkWith, NoneAssumption
<1>5. /\ box' \in {"idle", "compiling", "running"}
      /\ box' = "idle" => reply' \in {"rejected", "error"} /\ ~alive' /\ alive' \in BOOLEAN
      /\ box' # "idle" => reply' = None /\ alive' = TRUE
  <2>1. wire.language \in Interpreted \cup Compiled
    BY <1>1 DEF PlaceInv, Supported, LightLanguages, HeavyLanguages, Interpreted, Compiled
  <2> QED
    BY <2>1 DEF BoxReceives
<1> HIDE DEF g
<1>6. TypeOK'
  BY <1>2, <1>3, <1>4, <1>5 DEF TypeOK, Active, Replies, g
<1>7. FrontInv' /\ JobInv' /\ LateInv'
  BY <1>1, <1>3 DEF FrontInv, JobInv, LateInv, InTime
<1>8. PlaceInv'
  BY <1>1, <1>3, <1>4, <1>5, NoneAssumption DEF PlaceInv, Active, Replies, g
<1>9. ClockInv'
  BY <1>1, <1>2, <1>3, <1>4, <1>5, TimesAssumption DEF ClockInv, InTime, FrontInv, TypeOK, g
<1>10. SuccessInv'
  BY <1>1, <1>3, <1>5, NoneAssumption DEF SuccessInv, Replies
<1> QED
  BY <1>6, <1>7, <1>8, <1>9, <1>10

\* A command ends, starts, or is left by its process; the clock stands still.
LEMMA BoxKeeps == IInv /\ (SandboxStep \/ BoxCrashes) => IInv'
<1> SUFFICES ASSUME IInv, SandboxStep \/ BoxCrashes PROVE IInv'
  OBVIOUS
<1>1. /\ UNCHANGED <<enabled, asking, gateway, got, age, deadline, arrived, lost>>
      /\ wire' \in {wire, None} /\ exited' \in {exited, TRUE} /\ alive' \in BOOLEAN
      /\ box' \in Active \cup {"idle"} /\ reply' \in Replies \cup {None}
  BY DEF SandboxStep, BoxCrashes, CompileEnds, RunEnds, LeavesChildren, DeadlineKills, TimesOut,
         Idle, Command, IInv, TypeOK, Active, Replies
<1>2. /\ wire # None \/ box \in Active
      /\ wire' # None => wire # None /\ wire' = wire /\ box' = box /\ reply' = reply
      /\ box' \in Active => box \in Active /\ reply' = reply /\ wire' = wire
      /\ alive' => box' \in Active /\ (age <= deadline)
      /\ reply' # "unsupported"
      /\ reply' = "success" => exited'
  <2>1. CASE CompileEnds
    BY <2>1, NoneAssumption
       DEF CompileEnds, Idle, Command, IInv, TypeOK, PlaceInv, SuccessInv, Active, Replies
  <2>2. CASE RunEnds
    BY <2>2, NoneAssumption
       DEF RunEnds, Idle, IInv, TypeOK, PlaceInv, SuccessInv, Active, Replies
  <2>3. CASE TimesOut
    BY <2>3, NoneAssumption
       DEF TimesOut, Idle, IInv, TypeOK, PlaceInv, SuccessInv, Active, Replies
  <2>4. CASE LeavesChildren \/ DeadlineKills
    BY <2>4, NoneAssumption
       DEF LeavesChildren, DeadlineKills, IInv, TypeOK, PlaceInv, SuccessInv, Active, Replies
  <2>5. CASE BoxCrashes
    BY <2>5, NoneAssumption
       DEF BoxCrashes, Idle, IInv, TypeOK, PlaceInv, SuccessInv, Active, Replies
  <2> QED
    BY <2>1, <2>2, <2>3, <2>4, <2>5 DEF SandboxStep
<1>3. TypeOK'
  <2>1. wire' \in Work \cup {None} /\ exited' \in BOOLEAN
    BY <1>1 DEF IInv, TypeOK
  <2> QED
    BY <1>1, <2>1 DEF IInv, TypeOK, asking, gateway
<1>4. FrontInv'
  BY <1>1, <1>2 DEF IInv, FrontInv, asking, gateway, Active
<1>5. JobInv' /\ LateInv'
  BY <1>1, <1>2 DEF IInv, JobInv, LateInv, InTime, asking, gateway, Active
<1>6. PlaceInv'
  BY <1>1, <1>2 DEF IInv, PlaceInv, asking, gateway, Active
<1>7. ClockInv'
  BY <1>1, <1>2 DEF IInv, ClockInv, InTime, asking, gateway
<1>8. SuccessInv'
  BY <1>1, <1>2 DEF IInv, SuccessInv, asking, gateway, Active
<1> QED
  BY <1>3, <1>4, <1>5, <1>6, <1>7, <1>8 DEF IInv

LEMMA TickKeeps == IInv /\ Tick => IInv'
<1> SUFFICES ASSUME IInv, Tick PROVE IInv'
  OBVIOUS
<1> USE DEF IInv, Tick, asking
<1>1. TypeOK'
  BY DEF TypeOK
<1>2. FrontInv' /\ JobInv' /\ LateInv' /\ PlaceInv' /\ SuccessInv'
  BY DEF FrontInv, JobInv, LateInv, InTime, PlaceInv, SuccessInv, TypeOK
<1>3. ClockInv'
  <2> USE DEF ClockInv, TypeOK, PlaceInv, Active
  <2>1. box' \in Active => deadline' = got'.timeout
    OBVIOUS
  <2>2. alive' => age' <= deadline'
    BY DEF Due
  <2>3. front' \in {"idle", "queued"} => waited' = 0
    OBVIOUS
  <2>4. front' = "calling" /\ InTime' => waited' <= arrived' + age'
    BY DEF InTime
  <2> QED
    BY <2>1, <2>2, <2>3, <2>4
<1> QED
  BY <1>1, <1>2, <1>3

LEMMA NextInv == IInv /\ [Next]_vars => IInv'
<1> SUFFICES ASSUME IInv, [Next]_vars PROVE IInv'
  OBVIOUS
<1>1. CASE UNCHANGED vars
  BY <1>1 DEF vars, asking, gateway, sandbox, IInv, TypeOK, FrontInv, JobInv, LateInv, InTime,
     PlaceInv, ClockInv, SuccessInv
<1>2. CASE Next
  BY <1>2, CallerKeeps, WorkerKeeps, CancelKeeps, ReplyKeeps, GiveUpKeeps, OthersKeep,
     ReceiveKeeps, BoxKeeps, TickKeeps DEF Next, CallerStep, GatewayStep
<1> QED
  BY <1>1, <1>2

LEMMA SpecInv == Spec => []IInv
  BY InitInv, NextInv, PTL DEF Spec

-----------------------------------------------------------------------------
(* Theorems. *)

\* The state keeps its types, whatever callers ask for.
THEOREM TypeCorrect == Spec => []TypeOK
<1>1. IInv => TypeOK
  BY DEF IInv
<1> QED
  BY <1>1, SpecInv, PTL

\* executeCode: the processes it starts to compile and to run share one budget,
\* never above the cap.
THEOREM BudgetIsShared == Spec => []OneBudget
<1>1. IInv => OneBudget
  <2> SUFFICES ASSUME IInv, alive
               PROVE  age <= got.timeout /\ got.timeout <= MaxTimeout
    BY DEF OneBudget
  <2>1. request \in Request /\ got.timeout = Granted(request.timeout)
    BY DEF IInv, PlaceInv, TypeOK
  <2>2. request.timeout \in Int
    BY <2>1, TimesAssumption DEF Request
  <2> QED
    BY <2>1, <2>2, GrantedBounds DEF IInv, ClockInv, PlaceInv
<1> QED
  BY <1>1, SpecInv, PTL

\* No kill, failed compile or lost connection ends as a success.
THEOREM SuccessIsReal == Spec => []SuccessMeansExited
<1>1. IInv => SuccessMeansExited
  BY DEF IInv, SuccessInv, JobInv, SuccessMeansExited
<1> QED
  BY <1>1, SpecInv, PTL

\* A completed job's code is over; a failed job's program runs only if the
\* connection was lost or the request arrived too late.
THEOREM EndedJobsAreQuiet == Spec => []EndedJobIsQuiet
<1>1. IInv => EndedJobIsQuiet
  BY DEF IInv, JobInv, LateInv, InTime, PlaceInv, ClockInv, EndedJobIsQuiet
<1> QED
  BY <1>1, SpecInv, PTL

\* The defaults of the queue and of the sandbox compose to those of the sandbox.
THEOREM BudgetsAgree == Spec => []SameBudgetOnEveryRoute
<1>1. IInv => SameBudgetOnEveryRoute
  BY DEF IInv, PlaceInv, SameBudgetOnEveryRoute
<1> QED
  BY <1>1, SpecInv, PTL

\* A tier that is off is never called.
THEOREM DisabledTiersIdle == Spec => []DisabledTierIdle
<1>1. IInv => DisabledTierIdle
  BY DEF IInv, PlaceInv, DisabledTierIdle
<1> QED
  BY <1>1, SpecInv, PTL

\* The sandbox knows every language the gateway routes to it.
THEOREM TablesAgree == Spec => []RoutedIsSupported
<1>1. IInv => RoutedIsSupported
  BY DEF IInv, PlaceInv, RoutedIsSupported
<1> QED
  BY <1>1, SpecInv, PTL
=============================================================================
