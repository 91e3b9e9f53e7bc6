---------------------------- MODULE GatewayProofs ----------------------------
(***************************************************************************)
(* Proofs about Gateway, for any requests, keys, limits, default tools,    *)
(* configurations and number of faults.                                    *)
(*                                                                         *)
(* The gateway is its limiter, its registry and its requests side by side: *)
(* each of its steps is a step of the limiter or leaves it alone, and      *)
(* keeps the rows that are there.  What is left is an invariant of each    *)
(* request, which follows the forwarded copy and what the service did.     *)
(***************************************************************************)
EXTENDS Gateway, RateLimiterProofs, FiniteSetTheorems

-----------------------------------------------------------------------------
(* The registry, for any default tools and any supply of ids: what each way *)
(* to register a tool keeps.  The rows are counted, because the count says  *)
(* which ids are used: a new id is new.                                     *)

Numbered ==
  /\ IsFiniteSet(table) /\ Cardinality(table) <= Len(Ids)
  /\ \A t \in table : \E i \in 1 .. Cardinality(table) : t.id = Ids[i]
  /\ \A s, t \in table : s.id = t.id => s = t

RegistryInv == Numbered /\ CacheIsStored /\ OneRowPerName

\* What rows of other tables rely on: no id is lost, or given to another name.
RowsStay == \A t \in table : \E u \in table' : u.id = t.id /\ u.name = t.name

LEMMA RegistryInitInv == RegistryInit => RegistryInv
<1> SUFFICES ASSUME RegistryInit
             PROVE  RegistryInv
  OBVIOUS
<1> DEFINE row(i) == [id |-> Ids[i], name |-> Defaults[i], status |-> "ready"]
<1>1. PICK n \in 0 .. Len(Defaults) : n <= Len(Ids) /\ table = {row(i) : i \in 1 .. n}
  BY DEF RegistryInit
<1>2. n \in Nat /\ 1 .. n \subseteq 1 .. Len(Ids) /\ 1 .. n \subseteq 1 .. Len(Defaults)
  BY <1>1, IdsAssumption
<1>3. \A i : row(i).id = Ids[i] /\ row(i).name = Defaults[i]
  OBVIOUS
<1> HIDE DEF row
<1>4. \A i, j \in 1 .. n : (row(i).id = row(j).id \/ row(i).name = row(j).name) => i = j
  BY <1>2, <1>3, IdsAssumption
<1>5. IsFiniteSet(table) /\ Cardinality(table) = n
  <2> DEFINE f == [i \in 1 .. n |-> row(i)]
  <2>1. f \in Bijection(1 .. n, table)
    <3>1. f \in [1 .. n -> table]
      BY <1>1
    <3>2. \A i, j \in 1 .. n : f[i] = f[j] => i = j
      BY <1>4
    <3>3. \A t \in table : \E i \in 1 .. n : f[i] = t
      BY <1>1
    <3> HIDE DEF f
    <3> QED
      BY <3>1, <3>2, <3>3 DEF Bijection, Injection, Surjection, IsInjective
  <2>2. IsFiniteSet(1 .. n) /\ Cardinality(1 .. n) = n
    BY <1>2, FS_Interval
  <2>3. ExistsBijection(1 .. n, table)
    BY <2>1 DEF ExistsBijection
  <2> QED
    BY <2>2, <2>3, FS_Bijection
<1>6. \A t \in table : \E i \in 1 .. n : t = row(i)
  BY <1>1
<1>7. Numbered
  <2>1. \A t \in table : \E i \in 1 .. n : t.id = Ids[i]
    BY <1>3, <1>6
  <2>2. \A s, t \in table : s.id = t.id => s = t
    BY <1>4, <1>6
  <2> QED
    BY <1>1, <1>5, <2>1, <2>2 DEF Numbered
<1>8. CacheIsStored /\ OneRowPerName
  BY <1>4, <1>6 DEF RegistryInit, CacheIsStored, OneRowPerName
<1> QED
  BY <1>7, <1>8 DEF RegistryInv

-----------------------------------------------------------------------------
\* A row under a new id is one more row.
LEMMA AddRow ==
  ASSUME RegistryInv, RoomForRow, NEW row, row.id = NewId, Register(row)
  PROVE  /\ table' = table \cup {row} /\ Numbered' /\ CacheIsStored' /\ RowsStay
<1> DEFINE n == Cardinality(table)
<1>1. n \in Nat /\ n + 1 \in 1 .. Len(Ids)
  BY FS_CardinalityType, IdsAssumption DEF RegistryInv, Numbered, RoomForRow
<1>2. \A t \in table : t.id # row.id
  BY <1>1, IdsAssumption DEF RegistryInv, Numbered, NewId
<1>3. table' = table \cup {row} /\ cache' = cache \cup {row}
  BY <1>2 DEF Register, Upsert, RegistryInv, CacheIsStored
<1>4. IsFiniteSet(table') /\ Cardinality(table') = n + 1
  BY <1>2, <1>3, FS_AddElement DEF RegistryInv, Numbered
<1>5. Numbered'
  <2>1. \A t \in table : \E i \in 1 .. n : t.id = Ids[i]
    BY DEF RegistryInv, Numbered
  <2>2. \A t \in table' : \E i \in 1 .. n + 1 : t.id = Ids[i]
    BY <1>1, <1>3, <2>1 DEF NewId
  <2>3. \A s, t \in table' : s.id = t.id => s = t
    BY <1>2, <1>3 DEF RegistryInv, Numbered
  <2> QED
    BY <1>1, <1>4, <2>2, <2>3 DEF Numbered
<1>6. CacheIsStored'
  BY <1>3 DEF RegistryInv, CacheIsStored
<1> QED
  BY <1>3, <1>5, <1>6 DEF RowsStay

\* A row under the id of another replaces it.
LEMMA ReplaceRow ==
  ASSUME RegistryInv, NEW t \in table, NEW row, row.id = t.id, row.name = t.name, Register(row)
  PROVE  /\ table' = (table \ {t}) \cup {row} /\ Numbered' /\ CacheIsStored' /\ RowsStay
<1> DEFINE n == Cardinality(table)
<1>1. \A u \in table : u.id = row.id <=> u = t
  BY DEF RegistryInv, Numbered
<1>2. table' = (table \ {t}) \cup {row} /\ cache' = (cache \ {t}) \cup {row}
  BY <1>1 DEF Register, Upsert, RegistryInv, CacheIsStored
<1>3. row \notin table \ {t}
  BY <1>1
<1>4. n \in Nat /\ IsFiniteSet(table \ {t}) /\ Cardinality(table \ {t}) = n - 1
  BY FS_CardinalityType, FS_RemoveElement DEF RegistryInv, Numbered
<1>5. IsFiniteSet(table') /\ Cardinality(table') = n
  <2>1. IsFiniteSet((table \ {t}) \cup {row}) /\ Cardinality((table \ {t}) \cup {row}) = (n - 1) + 1
    BY <1>3, <1>4, FS_AddElement
  <2> QED
    BY <1>2, <1>4, <2>1
<1>6. Numbered'
  <2>1. \A s \in table' : \E i \in 1 .. n : s.id = Ids[i]
    BY <1>2 DEF RegistryInv, Numbered
  <2>2. \A r, s \in table' : r.id = s.id => r = s
    BY <1>1, <1>2 DEF RegistryInv, Numbered
  <2> QED
    BY <1>5, <2>1, <2>2 DEF RegistryInv, Numbered
<1>7. CacheIsStored'
  BY <1>2 DEF RegistryInv, CacheIsStored
<1> QED
  BY <1>2, <1>6, <1>7 DEF RowsStay

LEMMA FoundInv ==
  ASSUME RegistryInv, NEW name, NEW status, RegisterFound(name, status)
  PROVE  RegistryInv' /\ RowsStay
<1>1. PICK t \in GetByName(name) : Register([id |-> t.id, name |-> name, status |-> status])
  BY DEF RegisterFound
<1>2. t \in table /\ t.name = name
  BY <1>1 DEF GetByName, Named, RegistryInv, CacheIsStored
<1>3. PICK row : row = [id |-> t.id, name |-> name, status |-> status]
  OBVIOUS
<1>4. row.id = t.id /\ row.name = t.name
  BY <1>2, <1>3
<1>5. Register(row) /\ missed' = missed
  BY <1>1, <1>3 DEF RegisterFound
<1>6. table' = (table \ {t}) \cup {row} /\ Numbered' /\ CacheIsStored' /\ RowsStay
  BY <1>2, <1>4, <1>5, ReplaceRow
<1>7. OneRowPerName'
  BY <1>2, <1>4, <1>5, <1>6 DEF RegistryInv, OneRowPerName
<1> QED
  BY <1>6, <1>7 DEF RegistryInv

LEMMA NewInv ==
  ASSUME RegistryInv, NEW name, NEW status, RegisterNew(name, status)
  PROVE  RegistryInv' /\ RowsStay
<1>1. PICK row : row = [id |-> NewId, name |-> name, status |-> status]
  OBVIOUS
<1>2. row.id = NewId /\ row.name = name
  BY <1>1
<1>3. Register(row) /\ RoomForRow /\ missed' = missed
  BY <1>1 DEF RegisterNew
<1>4. \A t \in table : t.name # name
  BY DEF RegisterNew, GetByName, Named
<1>5. table' = table \cup {row} /\ Numbered' /\ CacheIsStored' /\ RowsStay
  BY <1>2, <1>3, AddRow
<1>6. OneRowPerName'
  BY <1>2, <1>3, <1>4, <1>5 DEF RegistryInv, OneRowPerName
<1> QED
  BY <1>5, <1>6 DEF RegistryInv

LEMMA MissedInv ==
  ASSUME RegistryInv, NEW name, NEW status, RegisterMissed(name, status)
  PROVE  RegistryInv' /\ RowsStay
<1>1. PICK row : row = [id |-> NewId, name |-> name, status |-> status]
  OBVIOUS
<1>2. row.id = NewId /\ row.name = name
  BY <1>1
<1>3. Register(row) /\ RoomForRow /\ missed' = missed \cup {name}
  BY <1>1 DEF RegisterMissed
<1>4. table' = table \cup {row} /\ Numbered' /\ CacheIsStored' /\ RowsStay
  BY <1>2, <1>3, AddRow
<1>5. OneRowPerName'
  BY <1>2, <1>3, <1>4 DEF RegistryInv, OneRowPerName
<1> QED
  BY <1>4, <1>5 DEF RegistryInv

LEMMA ForgetInv ==
  ASSUME RegistryInv, ForgetCache \/ UNCHANGED registry
  PROVE  RegistryInv' /\ RowsStay
BY DEF ForgetCache, registry, RegistryInv, Numbered, CacheIsStored, OneRowPerName, RowsStay

-----------------------------------------------------------------------------
(* The gateway *)

RequestInv(r) ==
  /\ at[r] = "new" => grant[r] = None
  /\ at[r] = "known" => Key(ask[r]) \in Keys
  /\ at[r] \in {"new", "known", "reading"} => wire[r] = "none"
  /\ at[r] \in InFlight \cup {"new"} => answer[r] = 0
  /\ wire[r] = "none" => effects[r] = 0
  /\ wire[r] \in {"sent", "refused", "denied"} => effects[r] = 0 \/ ask[r].get
  /\ effects[r] > 1 => ask[r].get
  /\ wire[r] \in {"applied", "ok"} => effects[r] >= 1
  /\ answer[r] \in {401, 403} => wire[r] = "none"
  /\ answer[r] \in Denials => wire[r] \in {"none", "denied"}
  /\ answer[r] = 200 => wire[r] \in {"none", "ok"}
  /\ answer[r] \in Failures => wire[r] \in {"none", "failed"}

ProcessInv ==
  /\ config \in Configs
  /\ phase # "off" => Valid(config)
  /\ phase = "tools" => tool \in 1 .. Len(Defaults)

Shapes ==
  /\ DOMAIN ask = Requests /\ DOMAIN grant = Requests /\ DOMAIN keyrow = Keys
  /\ effects \in [Requests -> Nat]

GatewayInv ==
  /\ TypeOK /\ Shapes /\ ProcessInv /\ LimiterInv /\ RegistryInv /\ ReferencesHold
  /\ \A r \in Requests : RequestInv(r)

-----------------------------------------------------------------------------
LEMMA GatewayInitInv == Init => GatewayInv
<1> SUFFICES ASSUME Init
             PROVE  GatewayInv
  OBVIOUS
<1>1. LimiterInv /\ RegistryInv
  BY LimiterInitInv, RegistryInitInv DEF Init
<1>2. TypeOK /\ Shapes /\ ProcessInv
  BY <1>1, FaultsAssumption, IdsAssumption
     DEF Init, TypeOK, WireStates, Shapes, ProcessInv, LimiterInv
<1>3. ReferencesHold
  BY <1>1 DEF Init, ReferencesHold, RegistryInv
<1>4. \A r \in Requests : RequestInv(r)
  BY DEF Init, RequestInv
<1> QED
  BY <1>1, <1>2, <1>3, <1>4 DEF GatewayInv

-----------------------------------------------------------------------------
(* The parts the gateway is composed of *)

\* Every step of the gateway is one of the limiter, or leaves it alone.
LEMMA LimiterStep ==
  ASSUME GatewayInv, [Next]_vars
  PROVE  [LimiterNext]_limiter
<1> USE DEF LimiterNext
<1>1. CASE Startup \/ RegisterAborts \/ Shutdown
  BY <1>1 DEF Startup, Start, OpenDatabase, RegisterDefault, Wire, PickAddr, Listen,
              RegisterAborts, Shutdown
<1>2. CASE Drained \/ DrainTimeout \/ Crash
  BY <1>2 DEF Drained, DrainTimeout, Crash, Terminate
<1>3. ASSUME NEW r \in Requests, NEW a \in Asks[r], Begin(r, a)
      PROVE  UNCHANGED limiter
  BY <1>3 DEF Begin, Authenticate, LookupFails, ReadHealth, Receive
<1>4. ASSUME NEW r \in Requests, Proceed(r) \/ BodyRead(r)
      PROVE  [LimiterNext]_limiter
  <2>1. CASE Admit(r)
    <3>1. Key(ask[r]) \in Keys /\ Allow(Key(ask[r]))
      BY <2>1 DEF Admit, Inside, GatewayInv, RequestInv
    <3> QED
      BY <3>1
  <2>2. CASE ~Admit(r)
    BY <1>4, <2>2 DEF Proceed, Expire, Throttle, Deny, RefuseTool, ReadHere, AwaitBody, BodyRead,
                RefuseBody, Echo, Forward, Resend, Waiting, Relay, Report, GiveUp
  <2> QED
    BY <2>1, <2>2
<1>5. CASE Environment
  BY <1>5 DEF Environment, ServiceWorks, ServiceAnswers, ServiceDown, ServiceUp, TakePort,
              ReleasePort, IssueKey, RevokeKey, Clock
<1>6. CASE UNCHANGED vars
  BY <1>6 DEF vars
<1> QED
  BY <1>1, <1>2, <1>3, <1>4, <1>5, <1>6 DEF Next

\* Every step of the gateway keeps the registry's invariant and its rows.
LEMMA RegistryStep ==
  ASSUME GatewayInv, [Next]_vars
  PROVE  RegistryInv' /\ RowsStay
<1>1. RegistryInv
  BY DEF GatewayInv
<1>2. CASE RegisterDefault
  BY <1>1, <1>2, FoundInv, NewInv, MissedInv DEF RegisterDefault
<1>3. ASSUME Startup \/ RegisterAborts \/ Shutdown, ~RegisterDefault
      PROVE  ForgetCache \/ UNCHANGED registry
  BY <1>3 DEF Startup, Start, OpenDatabase, Wire, PickAddr, Listen, RegisterAborts, Shutdown
<1>4. CASE Drained \/ DrainTimeout \/ Crash
  BY <1>1, <1>4, ForgetInv DEF Drained, DrainTimeout, Crash, Terminate
<1>5. ASSUME NEW r \in Requests, (\E a \in Asks[r] : Begin(r, a)) \/ Proceed(r) \/ BodyRead(r)
      PROVE  UNCHANGED registry
  BY <1>5 DEF Begin, Authenticate, LookupFails, ReadHealth, Receive,
              Proceed, Expire, Throttle, RefuseTool, ReadHere, Admit, AwaitBody, BodyRead,
              RefuseBody, Echo, Forward, Resend, Inside, Waiting, Relay, Report, GiveUp
<1>6. ASSUME Environment
      PROVE  UNCHANGED registry
  BY <1>6 DEF Environment, Around, ServiceWorks, ServiceAnswers, ServiceDown, ServiceUp, TakePort,
              ReleasePort, IssueKey, RevokeKey, Clock
<1>7. CASE UNCHANGED vars
  BY <1>1, <1>7, ForgetInv DEF vars
<1> QED
  BY <1>1, <1>2, <1>3, <1>4, <1>5, <1>6, <1>7, ForgetInv DEF Next

\* What refers to rows keeps referring to them, because they stay.
LEMMA ReferencesStep ==
  ASSUME GatewayInv, [Next]_vars
  PROVE  ReferencesHold'
<1> DEFINE ExecHolds == execTool # None => \E t \in table : t.id = execTool /\ t.name = ExecTool
           KeyHolds(k) ==
             (keyrow[k] # None /\ keyrow[k].tool # None) => \E t \in table : t.id = keyrow[k].tool
<1>1. ExecHolds /\ \A k \in Keys : KeyHolds(k)
  BY DEF GatewayInv, ReferencesHold
<1>2. RowsStay /\ CacheIsStored'
  BY RegistryStep DEF RegistryInv
<1>3. ASSUME execTool' \in {execTool, None}
      PROVE  ExecHolds'
  BY <1>1, <1>2, <1>3 DEF RowsStay
<1>4. ASSUME NEW k \in Keys, keyrow'[k] \in {keyrow[k], None}
      PROVE  KeyHolds(k)'
  BY <1>1, <1>2, <1>4 DEF RowsStay
<1>5. ExecHolds'
  <2>1. CASE Wire
    <3>1. table' = table /\ cache \subseteq table
      BY <2>1 DEF Wire, registry, GatewayInv, ReferencesHold, CacheIsStored
    <3>2. \A t \in GetByName(ExecTool) : t \in table /\ t.name = ExecTool
      BY <3>1 DEF GetByName, Named
    <3>3. execTool' = None \/ \E t \in GetByName(ExecTool) : execTool' = t.id
      BY <2>1 DEF Wire
    <3> QED
      BY <3>1, <3>2, <3>3
  <2>2. CASE ~Wire
    <3>1. execTool' \in {execTool, None}
      BY <2>2 DEF Next, vars, process, Startup, Start, OpenDatabase, RegisterDefault, PickAddr,
                Listen, RegisterAborts, Shutdown, Drained, DrainTimeout, Crash, Terminate, Begin,
                Authenticate, LookupFails, ReadHealth, Receive, Proceed, Expire, Throttle,
                RefuseTool, ReadHere, Admit, AwaitBody, BodyRead, RefuseBody, Echo, Forward,
                Resend, Inside, Waiting, Relay, Report, GiveUp, Environment, Around, ServiceWorks,
                ServiceAnswers, ServiceDown, ServiceUp, TakePort, ReleasePort, IssueKey,
                RevokeKey, Clock
    <3> QED
      BY <1>3, <3>1
  <2> QED
    BY <2>1, <2>2
<1>6. ASSUME NEW k \in Keys
      PROVE  KeyHolds(k)'
  <2>1. ASSUME NEW q \in Keys, NEW t \in {None} \cup {u.id : u \in table}, NEW e, IssueKey(q, t, e)
        PROVE  KeyHolds(k)'
    <3>1. CASE q = k
      <4>1. keyrow'[k].tool = t /\ table' = table
        BY <2>1, <3>1 DEF IssueKey, Around, registry, GatewayInv, Shapes
      <4> QED
        BY <4>1
    <3>2. CASE q # k
      BY <1>4, <2>1, <3>2 DEF IssueKey, GatewayInv, Shapes
    <3> QED
      BY <3>1, <3>2
  <2>2. ASSUME NEW q \in Keys, RevokeKey(q)
        PROVE  KeyHolds(k)'
    BY <1>4, <2>2 DEF RevokeKey, GatewayInv, Shapes
  <2>3. ASSUME ~\E q \in Keys :
                  \/ RevokeKey(q)
                  \/ \E t \in {None} \cup {u.id : u \in table}, e \in Expiries : IssueKey(q, t, e)
        PROVE  keyrow' = keyrow
    BY <2>3 DEF Next, vars, environment, Outside, Startup, Start, OpenDatabase, RegisterDefault,
                Wire, PickAddr, Listen, RegisterAborts, Shutdown, Drained, DrainTimeout, Crash,
                Terminate, Begin, Authenticate, LookupFails, ReadHealth, Receive, Proceed, Expire,
                Throttle, RefuseTool, ReadHere, Admit, AwaitBody, BodyRead, RefuseBody, Echo,
                Forward, Resend, Inside, Waiting, Relay, Report, GiveUp, Environment,
                ServiceWorks, ServiceAnswers, ServiceDown, ServiceUp, TakePort, ReleasePort, Clock
  <2> QED
    BY <1>4, <2>1, <2>2, <2>3
<1> QED
  BY <1>2, <1>5, <1>6 DEF ReferencesHold

-----------------------------------------------------------------------------
(* The requests *)

Same(r) ==
  /\ config' = config /\ at'[r] = at[r] /\ ask'[r] = ask[r] /\ grant'[r] = grant[r]
  /\ answer'[r] = answer[r] /\ wire'[r] = wire[r] /\ effects'[r] = effects[r]

LEMMA SameInv ==
  ASSUME NEW r \in Requests, RequestInv(r), Same(r)
  PROVE  RequestInv(r)'
BY DEF Same, RequestInv, Key, ByToken

\* The key of a caller that was let in is one of the keys.
LEMMA RowKnown ==
  ASSUME NEW r \in Requests, NEW a \in Asks[r], Row(a) # None
  PROVE  Key(a) \in Keys
BY AsksAssumption DEF Row, Key, ByToken

LEMMA BeginInv ==
  ASSUME GatewayInv, NEW r \in Requests, NEW a \in Asks[r], Begin(r, a)
  PROVE  \A q \in Requests : RequestInv(q)'
<1>1. \A q \in Requests \ {r} : Same(q)
  BY DEF GatewayInv, Shapes, TypeOK, Begin, Authenticate, LookupFails, ReadHealth, Receive,
         Answer, Go, Same, process
<1>2. /\ at[r] = "new" /\ ask'[r] = a /\ config' = config
      /\ wire'[r] = "none" /\ effects'[r] = 0 /\ answer[r] = 0 /\ grant[r] = None
  BY DEF GatewayInv, Shapes, TypeOK, Begin, Authenticate, LookupFails, ReadHealth, Receive,
         process, RequestInv
<1>3. ASSUME Authenticate(r, a)
      PROVE  RequestInv(r)'
  <2>1. grant'[r] = Row(a)
    BY <1>3 DEF GatewayInv, Shapes, TypeOK, Authenticate
  <2>2. \/ at'[r] = "done" /\ answer'[r] \in {401, 403}
        \/ at'[r] = "known" /\ answer'[r] = 0 /\ Row(a) # None
    BY <1>2, <1>3 DEF GatewayInv, Shapes, TypeOK, Authenticate, Answer, Go
  <2> QED
    BY <1>2, <2>1, <2>2, RowKnown DEF RequestInv, InFlight, Denials, Key, ByToken
<1>4. ASSUME LookupFails(r, a) \/ ReadHealth(r, a)
      PROVE  RequestInv(r)'
  <2>1. grant'[r] = None /\ at'[r] = "done" /\ answer'[r] \in {401, 200, 500}
    BY <1>2, <1>4 DEF GatewayInv, Shapes, TypeOK, LookupFails, ReadHealth, Answer
  <2> QED
    BY <1>2, <2>1 DEF RequestInv, InFlight, Denials, Failures
<1>5. RequestInv(r)'
  BY <1>3, <1>4 DEF Begin
<1> QED
  BY <1>1, <1>5, SameInv DEF GatewayInv

LEMMA ProceedInv ==
  ASSUME GatewayInv, NEW r \in Requests, Proceed(r) \/ BodyRead(r)
  PROVE  \A q \in Requests : RequestInv(q)'
<1>1. \A q \in Requests \ {r} : Same(q)
  BY DEF GatewayInv, Shapes, TypeOK, Proceed, Expire, Throttle, RefuseTool, ReadHere, Admit,
         AwaitBody, BodyRead, RefuseBody, Echo, Forward, Inside, Resend, Waiting, Relay, Report,
         GiveUp, Answer, Go, Same, process
<1>2. config' = config /\ ask'[r] = ask[r] /\ grant'[r] = grant[r] /\ effects'[r] = effects[r]
      /\ effects[r] \in Nat
  BY DEF GatewayInv, Shapes, TypeOK, Proceed, Expire, Throttle, RefuseTool, ReadHere, Admit,
         AwaitBody, BodyRead, RefuseBody, Echo, Forward, Inside, Resend, Waiting, Relay, Report,
         GiveUp, process
<1>3. RequestInv(r)
  BY DEF GatewayInv
<1>4. ASSUME Expire(r) \/ Throttle(r) \/ RefuseTool(r) \/ ReadHere(r)
      PROVE  RequestInv(r)'
  <2>1. /\ at[r] = "known" /\ wire'[r] = wire[r] /\ at'[r] = "done"
        /\ answer'[r] \in {200, 401, 403, 429, 500}
    BY <1>4 DEF GatewayInv, Shapes, TypeOK, Expire, Throttle, RefuseTool, ReadHere, Admit,
                Inside, Answer
  <2> QED
    BY <1>2, <1>3, <2>1 DEF RequestInv, InFlight
<1>5. ASSUME AwaitBody(r)
      PROVE  RequestInv(r)'
  <2>1. at[r] = "known" /\ wire'[r] = wire[r] /\ at'[r] = "reading" /\ answer'[r] = answer[r]
    BY <1>5 DEF GatewayInv, Shapes, TypeOK, AwaitBody, Admit, Inside, Go
  <2> QED
    BY <1>2, <1>3, <2>1 DEF RequestInv, InFlight
<1>6. ASSUME RefuseBody(r) \/ Echo(r)
      PROVE  RequestInv(r)'
  <2>1. /\ at[r] = "reading" /\ wire'[r] = wire[r] /\ at'[r] = "done"
        /\ answer'[r] \in {200, 400}
    BY <1>6 DEF GatewayInv, Shapes, TypeOK, RefuseBody, Echo, Inside, Answer
  <2> QED
    BY <1>2, <1>3, <2>1 DEF RequestInv, InFlight, Denials, Failures
<1>7. ASSUME Forward(r) \/ Resend(r)
      PROVE  RequestInv(r)'
  <2>1. /\ at[r] = "reading" \/ (at[r] = "waiting" /\ ask[r].get)
        /\ wire'[r] \in {"sent", "refused"} /\ at'[r] = "waiting" /\ answer'[r] = answer[r]
    BY <1>7 DEF GatewayInv, Shapes, TypeOK, Forward, Resend, Inside, Go, Send
  <2> QED
    BY <1>2, <1>3, <2>1 DEF RequestInv, InFlight, Denials, Failures
<1>8. ASSUME Relay(r)
      PROVE  RequestInv(r)'
  <2>1. /\ at[r] = "waiting" /\ wire'[r] = wire[r] /\ at'[r] = "done"
        /\ wire[r] \in {"ok", "denied", "failed"} /\ answer'[r] \in Relayed(r)
    BY <1>8 DEF GatewayInv, Shapes, TypeOK, Relay, Waiting, Inside, Answer
  <2>2. \/ answer'[r] \in {400, 502}
        \/ answer'[r] = 200 /\ wire[r] = "ok"
        \/ answer'[r] \in Denials /\ wire[r] = "denied"
        \/ answer'[r] \in Failures /\ wire[r] = "failed"
    BY <2>1 DEF Relayed, Verbatim
  <2> QED
    BY <1>2, <1>3, <2>1, <2>2 DEF RequestInv, InFlight, Denials, Failures
<1>9. ASSUME Report(r) \/ GiveUp(r)
      PROVE  RequestInv(r)'
  <2>1. /\ at[r] = "waiting" /\ wire[r] # "none" /\ wire'[r] = wire[r] /\ at'[r] = "done"
        /\ answer'[r] \in {400, 502}
    BY <1>9 DEF GatewayInv, Shapes, TypeOK, Report, GiveUp, Waiting, Inside, Answer, Unavailable
  <2> QED
    BY <1>2, <1>3, <2>1 DEF RequestInv, InFlight, Denials, Failures
<1>10. RequestInv(r)'
  BY <1>4, <1>5, <1>6, <1>7, <1>8, <1>9 DEF Proceed, BodyRead
<1> QED
  BY <1>1, <1>10, SameInv DEF GatewayInv

LEMMA ServiceInv ==
  ASSUME GatewayInv, NEW r \in Requests, ServiceWorks(r) \/ ServiceAnswers(r)
  PROVE  \A q \in Requests : RequestInv(q)'
<1>1. \A q \in Requests \ {r} : Same(q)
  BY DEF GatewayInv, Shapes, TypeOK, ServiceWorks, ServiceAnswers, Around, Same, process
<1>2. /\ config' = config /\ at' = at /\ ask' = ask /\ grant' = grant /\ answer' = answer
      /\ effects[r] \in Nat
  BY DEF GatewayInv, Shapes, ServiceWorks, ServiceAnswers, Around, process
<1>3. \/ wire[r] = "sent" /\ wire'[r] = "applied" /\ effects'[r] = effects[r] + 1
      \/ wire[r] = "sent" /\ wire'[r] = "denied" /\ effects'[r] = effects[r]
      \/ wire[r] = "sent" /\ wire'[r] = "failed" /\ effects'[r] \in {effects[r], effects[r] + 1}
      \/ wire[r] = "applied" /\ wire'[r] = "ok" /\ effects'[r] = effects[r]
  BY DEF GatewayInv, Shapes, TypeOK, ServiceWorks, ServiceAnswers
<1>4. RequestInv(r)
  BY DEF GatewayInv
<1>5. RequestInv(r)'
  BY <1>2, <1>3, <1>4 DEF RequestInv, Key, ByToken
<1> QED
  BY <1>1, <1>5, SameInv DEF GatewayInv

LEMMA DownInv ==
  ASSUME GatewayInv, NEW s \in Services, ServiceDown(s)
  PROVE  \A q \in Requests : RequestInv(q)'
<1> SUFFICES ASSUME NEW r \in Requests
             PROVE  RequestInv(r)'
  OBVIOUS
<1>1. /\ config' = config /\ at' = at /\ ask' = ask /\ grant' = grant /\ answer' = answer
      /\ effects' = effects
  BY DEF ServiceDown, Around, process
<1>2. wire'[r] = wire[r] \/ (wire[r] \in {"sent", "applied"} /\ wire'[r] = "broken")
  BY DEF ServiceDown
<1>3. RequestInv(r)
  BY DEF GatewayInv
<1> QED
  BY <1>1, <1>2, <1>3 DEF RequestInv, Key, ByToken

LEMMA TerminateInv ==
  ASSUME GatewayInv, Terminate
  PROVE  \A q \in Requests : RequestInv(q)'
<1> SUFFICES ASSUME NEW r \in Requests
             PROVE  RequestInv(r)'
  OBVIOUS
<1>1. /\ config' = config /\ ask' = ask /\ grant' = grant /\ answer' = answer
      /\ wire' = wire /\ effects' = effects
  BY DEF Terminate
<1>2. at'[r] = at[r] \/ (at[r] \in InFlight /\ at'[r] = "lost")
  BY DEF Terminate
<1>3. RequestInv(r)
  BY DEF GatewayInv
<1> QED
  BY <1>1, <1>2, <1>3 DEF RequestInv, Key, ByToken

LEMMA RequestsStep ==
  ASSUME GatewayInv, [Next]_vars
  PROVE  \A r \in Requests : RequestInv(r)'
<1>1. ASSUME config' = config, UNCHANGED requests
      PROVE  \A r \in Requests : RequestInv(r)'
  BY <1>1, SameInv DEF requests, Same, GatewayInv
<1>2. CASE Startup \/ RegisterAborts \/ Shutdown
  <2>1. config' = config /\ UNCHANGED requests
    BY <1>2 DEF Startup, Start, OpenDatabase, RegisterDefault, Wire, PickAddr, Listen,
                RegisterAborts, Shutdown
  <2> QED
    BY <1>1, <2>1
<1>3. CASE Drained \/ DrainTimeout \/ Crash
  BY <1>3, TerminateInv DEF Drained, DrainTimeout, Crash
<1>4. ASSUME NEW r \in Requests, Proceed(r) \/ BodyRead(r) \/ \E a \in Asks[r] : Begin(r, a)
      PROVE  \A q \in Requests : RequestInv(q)'
  BY <1>4, BeginInv, ProceedInv
<1>5. CASE \E r \in Requests : ServiceWorks(r) \/ ServiceAnswers(r)
  BY <1>5, ServiceInv
<1>6. CASE \E s \in Services : ServiceDown(s)
  BY <1>6, DownInv
<1>7. ASSUME Environment, ~\E r \in Requests : ServiceWorks(r) \/ ServiceAnswers(r),
             ~\E s \in Services : ServiceDown(s)
      PROVE  config' = config /\ UNCHANGED requests
  BY <1>7 DEF Environment, Around, process, requests, ServiceUp, TakePort, ReleasePort, IssueKey,
              RevokeKey, Clock
<1>8. CASE UNCHANGED vars
  BY <1>1, <1>8 DEF vars, process
<1> QED
  BY <1>1, <1>2, <1>3, <1>4, <1>5, <1>6, <1>7, <1>8 DEF Next

-----------------------------------------------------------------------------
(* Types, and the progress of run *)

LEMMA StartupTypes ==
  ASSUME GatewayInv, Startup \/ RegisterAborts \/ Shutdown
  PROVE  (LimiterTypeOK' => TypeOK') /\ Shapes' /\ ProcessInv'
<1> USE FaultsAssumption, IdsAssumption DEF GatewayInv, TypeOK, Shapes, ProcessInv, requests,
                environment, Outside, Fault, NoFault
<1>1. CASE Start
  BY <1>1 DEF Start
<1>2. CASE OpenDatabase
  BY <1>2 DEF OpenDatabase
<1>3. CASE RegisterDefault
  BY <1>3 DEF RegisterDefault, Registered
<1>4. CASE RegisterAborts \/ Shutdown
  BY <1>4 DEF RegisterAborts, Shutdown
<1>5. CASE Wire
  BY <1>5 DEF Wire
<1>6. CASE PickAddr
  <2>1. Picked \in Ports \cup {None}
    BY <1>6, PortsAssumption DEF PickAddr, Picked, Usable
  <2> QED
    BY <1>6, <2>1 DEF PickAddr
<1>7. CASE Listen
  BY <1>7 DEF Listen
<1> QED
  BY <1>1, <1>2, <1>3, <1>4, <1>5, <1>6, <1>7 DEF Startup

LEMMA RequestTypes ==
  ASSUME GatewayInv, NEW r \in Requests, Proceed(r) \/ BodyRead(r) \/ \E a \in Asks[r] : Begin(r, a)
  PROVE  (LimiterTypeOK' => TypeOK') /\ Shapes' /\ ProcessInv'
<1>1. UNCHANGED process /\ UNCHANGED Outside /\ effects' = effects
  BY DEF Begin, Authenticate, LookupFails, ReadHealth, Receive,
         Proceed, Expire, Throttle, RefuseTool, ReadHere, Admit, AwaitBody, BodyRead, RefuseBody,
         Echo, Forward, Inside, Resend, Waiting, Relay, Report, GiveUp
<1>2. faults' \in 0 .. MaxFaults
  BY FaultsAssumption
     DEF GatewayInv, TypeOK, Fault, NoFault, Begin, Authenticate, LookupFails, ReadHealth,
         Proceed, Expire, Throttle, RefuseTool, ReadHere, AwaitBody, BodyRead, RefuseBody, Echo,
         Forward, Resend, Waiting, Relay, Report, GiveUp
<1>3. DOMAIN ask' = Requests /\ DOMAIN grant' = Requests
  BY DEF GatewayInv, Shapes, Begin, Authenticate, LookupFails, ReadHealth, Receive,
         Proceed, Expire, Throttle, RefuseTool, ReadHere, Admit, AwaitBody, BodyRead, RefuseBody,
         Echo, Forward, Inside, Resend, Waiting, Relay, Report, GiveUp
<1>4. at' \in [Requests -> InFlight \cup {"new", "done", "lost"}]
  BY DEF GatewayInv, TypeOK, InFlight, Go, Answer, Begin, Authenticate, LookupFails, ReadHealth,
         Proceed, Expire, Throttle, RefuseTool, ReadHere, AwaitBody, BodyRead, RefuseBody, Echo,
         Forward, Resend, Relay, Report, GiveUp
<1>5. answer' \in [Requests -> {0} \cup Statuses]
  <2>1. {200, 400, 401, 403, 429, 500, Unavailable(r)} \subseteq Statuses
    BY DEF Unavailable, Statuses, Denials, Failures
  <2>2. Relay(r) => Relayed(r) \subseteq Statuses
    BY DEF Relay, Relayed, Verbatim, Statuses
  <2> QED
    BY <2>1, <2>2 DEF GatewayInv, TypeOK, Go, Answer, Begin, Authenticate, LookupFails, ReadHealth,
         Proceed, Expire, Throttle, RefuseTool, ReadHere, AwaitBody, BodyRead, RefuseBody, Echo,
         Forward, Resend, Relay, Report, GiveUp
<1>6. wire' \in [Requests -> WireStates]
  <2>1. wire' = wire \/ \E w \in {"sent", "refused"} : wire' = [wire EXCEPT ![r] = w]
    <3>1. CASE \E a \in Asks[r] : Begin(r, a)
      BY <3>1 DEF Begin, Authenticate, LookupFails, ReadHealth, Receive
    <3>2. CASE Forward(r) \/ Resend(r)
      BY <3>2 DEF Forward, Resend, Send
    <3>3. ASSUME Proceed(r) \/ BodyRead(r), ~Forward(r), ~Resend(r)
          PROVE  wire' = wire
      BY <3>3 DEF Proceed, Expire, Throttle, RefuseTool, ReadHere, Admit, AwaitBody, BodyRead,
                  RefuseBody, Echo, Waiting, Relay, Report, GiveUp
    <3> QED
      BY <3>1, <3>2, <3>3
  <2>2. wire \in [Requests -> WireStates]
    BY DEF GatewayInv, TypeOK
  <2> QED
    BY <2>1, <2>2 DEF WireStates
<1> QED
  BY <1>1, <1>2, <1>3, <1>4, <1>5, <1>6 DEF process, Outside, GatewayInv, TypeOK, Shapes, ProcessInv

LEMMA EnvironmentTypes ==
  ASSUME GatewayInv, Environment
  PROVE  (LimiterTypeOK' => TypeOK') /\ Shapes' /\ ProcessInv'
<1> USE FaultsAssumption DEF GatewayInv, TypeOK, Shapes, ProcessInv, process, environment, Around,
                Fault
<1>1. ASSUME NEW r \in Requests, ServiceWorks(r) \/ ServiceAnswers(r)
      PROVE  (LimiterTypeOK' => TypeOK') /\ Shapes' /\ ProcessInv'
  <2>1. effects' \in [Requests -> Nat]
    <3>1. effects \in [Requests -> Nat]
      OBVIOUS
    <3>2. effects' = effects \/ effects' = [effects EXCEPT ![r] = @ + 1]
      BY <1>1 DEF ServiceWorks, ServiceAnswers
    <3> QED
      BY ONLY <3>1, <3>2, r \in Requests
  <2>2. wire' \in [Requests -> WireStates]
    <3>1. wire \in [Requests -> WireStates]
      OBVIOUS
    <3>2. \E w \in {"applied", "denied", "failed", "ok"} : wire' = [wire EXCEPT ![r] = w]
      BY <1>1 DEF ServiceWorks, ServiceAnswers
    <3> QED
      BY ONLY <3>1, <3>2, r \in Requests DEF WireStates
  <2>3. UNCHANGED <<process, at, ask, grant, answer, service, taken, keyrow, faults>>
    BY <1>1 DEF ServiceWorks, ServiceAnswers
  <2> QED
    BY <2>1, <2>2, <2>3
<1>2. ASSUME NEW s \in Services, ServiceDown(s)
      PROVE  (LimiterTypeOK' => TypeOK') /\ Shapes' /\ ProcessInv'
  BY <1>2 DEF ServiceDown, WireStates
<1>3. ASSUME NEW s \in Services, ServiceUp(s)
      PROVE  (LimiterTypeOK' => TypeOK') /\ Shapes' /\ ProcessInv'
  BY <1>3 DEF ServiceUp
<1>4. ASSUME NEW p \in Ports, TakePort(p) \/ ReleasePort
      PROVE  (LimiterTypeOK' => TypeOK') /\ Shapes' /\ ProcessInv'
  BY <1>4 DEF TakePort, ReleasePort
<1>5. ASSUME NEW k \in Keys, NEW t, NEW e, IssueKey(k, t, e) \/ RevokeKey(k)
      PROVE  (LimiterTypeOK' => TypeOK') /\ Shapes' /\ ProcessInv'
  BY <1>5 DEF IssueKey, RevokeKey
<1>6. CASE Clock \/ ReleasePort
  BY <1>6 DEF Clock, ReleasePort
<1> QED
  BY <1>1, <1>2, <1>3, <1>4, <1>5, <1>6 DEF Environment

LEMMA GatewayNextInv == GatewayInv /\ [Next]_vars => GatewayInv'
<1> SUFFICES ASSUME GatewayInv, [Next]_vars
             PROVE  GatewayInv'
  OBVIOUS
<1>1. LimiterInv' /\ RegistryInv' /\ ReferencesHold' /\ \A r \in Requests : RequestInv(r)'
  BY LimiterStep, LimiterNextInv, RegistryStep, ReferencesStep, RequestsStep DEF GatewayInv
<1>2. (LimiterTypeOK' => TypeOK') /\ Shapes' /\ ProcessInv'
  <2>1. CASE Drained \/ DrainTimeout \/ Crash
    BY <2>1, FaultsAssumption
       DEF Drained, DrainTimeout, Crash, Terminate, Fault, NoFault, Outside, GatewayInv, TypeOK,
           Shapes, ProcessInv
  <2>2. CASE UNCHANGED vars
    BY <2>2 DEF vars, process, requests, environment, GatewayInv, TypeOK, Shapes, ProcessInv
  <2> QED
    BY <2>1, <2>2, StartupTypes, RequestTypes, EnvironmentTypes DEF Next
<1> QED
  BY <1>1, <1>2 DEF GatewayInv, LimiterInv

LEMMA GatewaySpecInv == Spec => []GatewayInv
BY GatewayInitInv, GatewayNextInv, PTL DEF Spec

-----------------------------------------------------------------------------
\* The gateway: its variables keep their types.
THEOREM GatewayTypes == Spec => []TypeOK
BY GatewaySpecInv, PTL DEF GatewayInv

\* handleTokenMode and handleLocalMode: the gateway uses the limiter as the
\* limiter is meant to be used, so at most twice the limit of a key is let
\* through in the length of a window, restarts apart.
THEOREM GatewayRate == Spec => []RateBound
BY GatewaySpecInv, LimiterRate, PTL DEF GatewayInv

\* A 429 is earned within the last window.
THEOREM GatewayRefusals == Spec => []RefusalsAreEarned
BY GatewaySpecInv, LimiterRefusals, PTL DEF GatewayInv

\* RegisterDefaults: a tool keeps one row over all restarts, unless a lookup of it failed.
THEOREM GatewayRows == Spec => []OneRowPerName
BY GatewaySpecInv, PTL DEF GatewayInv, RegistryInv

\* Keys, cached tools and the exec tool of the job queue refer to rows that are there.
THEOREM GatewayReferences == Spec => []ReferencesHold
BY GatewaySpecInv, PTL DEF GatewayInv

\* What a caller is told fits what its service did, whatever breaks in between.
THEOREM GatewayAnswers == Spec => []AnswersTellTheWork
<1>1. GatewayInv => AnswersTellTheWork
  BY DEF GatewayInv, RequestInv, AnswersTellTheWork
<1> QED
  BY <1>1, GatewaySpecInv, PTL
=============================================================================
