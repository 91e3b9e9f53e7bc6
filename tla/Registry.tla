------------------------------ MODULE Registry ------------------------------
(***************************************************************************)
(* The tool registry: the tools table, and the cache of the process, which *)
(* Register writes after it.  A row keeps its id, its name and its status; *)
(* ids stand for UUIDs, fresh when a row is made.  RegisterDefaults runs   *)
(* once, at start, before anything else uses the registry.                 *)
(***************************************************************************)
EXTENDS Naturals, Sequences, FiniteSets

CONSTANTS Defaults,  \* DefaultTools: the names, in order
          Ids        \* UUIDs, in the order they are made; bounds the rows

ASSUME IdsAssumption ==
  /\ Len(Defaults) \in Nat \ {0} /\ Len(Ids) \in Nat
  /\ \A i, j \in 1 .. Len(Defaults) : Defaults[i] = Defaults[j] => i = j
  /\ \A i, j \in 1 .. Len(Ids) : Ids[i] = Ids[j] => i = j

VARIABLES table, cache,
          missed      \* history: the names a lookup failed for

registry == <<table, cache, missed>>

\* The database is new, or an earlier process has registered the first tools in it.
RegistryInit ==
  /\ \E n \in 0 .. Len(Defaults) :
       n <= Len(Ids) /\ table = {[id |-> Ids[i], name |-> Defaults[i], status |-> "ready"] : i \in 1 .. n}
  /\ cache = {} /\ missed = {}

Named(rows, name) == {t \in rows : t.name = name}
NewId == Ids[Cardinality(table) + 1]
RoomForRow == Cardinality(table) < Len(Ids)

\* GetByName: the cache first, then some row of the table.
GetByName(name) == IF Named(cache, name) # {} THEN Named(cache, name) ELSE Named(table, name)

\* INSERT ... ON CONFLICT(id) DO UPDATE
Upsert(rows, row) == {t \in rows : t.id # row.id} \cup {row}

\* Register: the table, and the cache only after it.
RegisterFaulty(row) == cache' = Upsert(cache, row) /\ UNCHANGED <<table, missed>>
Register(row) == table' = Upsert(table, row) /\ cache' = Upsert(cache, row)

\* One round of RegisterDefaults.  A lookup that fails counts as a tool that is not there.
RegisterFound(name, status) ==
  /\ \E t \in GetByName(name) : Register([id |-> t.id, name |-> name, status |-> status])
  /\ UNCHANGED missed
RegisterNewFaulty(name, status) ==
  RoomForRow /\ Register([id |-> NewId, name |-> name, status |-> status]) /\ UNCHANGED missed
RegisterNew(name, status) ==
  /\ GetByName(name) = {} /\ RoomForRow
  /\ Register([id |-> NewId, name |-> name, status |-> status])
  /\ UNCHANGED missed
RegisterMissed(name, status) ==
  /\ Named(cache, name) = {} /\ RoomForRow
  /\ Register([id |-> NewId, name |-> name, status |-> status])
  /\ missed' = missed \cup {name}

\* registry.New in a new process
ForgetCache == cache' = {} /\ UNCHANGED <<table, missed>>

-----------------------------------------------------------------------------
\* Register writes the table and then the cache, and either write may be the
\* last thing a process does.  The cache never holds a row the table has not,
\* with the same name and status: what GetByName answers from it is stored.
CacheIsStored == cache \subseteq table

\* tools.name is not unique in the schema and RegisterDefaults takes a failed
\* lookup for a missing tool: a restart then makes a second row for it, and
\* /health and /tools show both.  Nothing else does: over all restarts a tool
\* has one row, and so one id, unless a lookup of its name failed.
OneRowPerName ==
  \A s, t \in table : s.name = t.name /\ s.name \notin missed => s = t
=============================================================================
