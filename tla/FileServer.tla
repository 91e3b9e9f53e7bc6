----------------------------- MODULE FileServer -----------------------------
(***************************************************************************)
(* The file service: requests of several clients at once on one directory, *)
(* with no lock between them.  An action is the stretch of a handler up to *)
(* its next file system call; the calls themselves are atomic, as they are *)
(* on the kernel's side, except that a read takes a file block by block.   *)
(*                                                                         *)
(* The directory is a set of links <<directory, name, node>>.  A node is a *)
(* file, named after the request that creates it, or a directory <<maker,  *)
(* path>>.  A file's data is a sequence of blocks, each of which is the    *)
(* request that wrote it.                                                  *)
(***************************************************************************)
EXTENDS Naturals, Sequences, FiniteSets, SequencesExt

CONSTANTS Requests, Seeds, Names, None,
          Top, Root,          \* the directory that holds the sandbox, and the sandbox's name in it
          Dot, Slash, Up,     \* "." or an empty segment, a leading "/" or drive, one with ".." in it
          Bodies,             \* what each request's client may send
          MaxFile,            \* maxFileSize, in blocks
          MaxFaults,          \* bound on full disks and on ends of the process
          Depth               \* bound on the paths the history of a listing looks at

Ops == {"read", "write", "list", "walk", "delete", "move"}   \* walk: a recursive list
File == Requests \cup Seeds
RawPath == {p \in Seq(Names \cup {Dot, Slash, Up}) : \A i \in 2 .. Len(p) : p[i] # Slash}

ASSUME BodiesAssumption ==
  /\ DOMAIN Bodies = Requests
  /\ \A r \in Requests : \A b \in Bodies[r] : b \in [op : Ops, path : RawPath, to : RawPath, size : Nat]
ASSUME NodesAssumption ==
  /\ Requests \cap Seeds = {} /\ File \cap (Nat \cup {None, Top}) = {} /\ None # Top
  /\ (File \cup {None, Top}) \cap ((File \cup Nat) \X Seq(Names \cup {Root})) = {}
ASSUME BoundsAssumption == MaxFile \in Nat /\ MaxFaults \in Nat /\ Depth \in Nat

VARIABLES
  tree, data,
  life,              \* the process
  at, body, answer,  \* each request: where its handler is, its body, the status it answered
  held,              \* the file it has open
  got, found,        \* what a read and a list have collected
  todo,              \* the paths a walk has yet to visit, the directories a delete is in
  faults,
  saw, last, met,    \* history: what was true during a request, who truncated a file
                     \* last, which requests had the same file open at once,
  under              \* the directories a delete may have to empty

disk == <<tree, data>>
locals == <<held, got, found, todo>>
history == <<saw, last, met, under>>
vars == <<disk, life, at, body, answer, locals, faults, history>>

Active == {"opening", "reading", "filling", "listing", "walking", "removing", "sweeping",
           "moving", "renaming"}

TypeOK ==
  /\ \A l \in tree : l[2] \in Names \cup {Root} /\ l[1] \notin File
  /\ \A f \in File : data[f] \in Seq(File)
  /\ life \in {"up", "draining", "down"}
  /\ at \in [Requests -> Active \cup {"new", "done", "lost"}]
  /\ \A r \in Requests : body[r] \in Bodies[r] \cup {None}
  /\ answer \in [Requests -> {0, 200, 201, 204, 400, 404, 413, 500}]
  /\ held \in [Requests -> File \cup {None}]
  /\ \A r \in Requests : got[r] \in Seq(File)
  /\ faults \in 0 .. MaxFaults

-----------------------------------------------------------------------------
(* The directory *)

Child(t, d, n) ==
  LET links == {l \in t : l[1] = d /\ l[2] = n} IN
  IF links = {} THEN None ELSE (CHOOSE l \in links : TRUE)[3]

Prefix(p, i) == SubSeq(p, 1, i)
Resolve(t, p) ==
  LET node[i \in 0 .. Len(p)] == IF i = 0 THEN Top ELSE Child(t, node[i - 1], p[i])
  IN  node[Len(p)]
Children(t, d) == {l[2] : l \in {k \in t : k[1] = d}}
Linked(t, f) == \E l \in t : l[3] = f

Stat(t, p) ==
  LET node == Resolve(t, p) IN
  IF node \in File THEN "file"
  ELSE IF node # None THEN "dir"
  ELSE IF \E i \in 1 .. Len(p) - 1 : Resolve(t, Prefix(p, i)) \in File THEN "notdir" ELSE "none"

\* MkdirAll: a file in the way makes it fail, and then it has made nothing.
CanMakeDirs(t, p) == Stat(t, p) \in {"dir", "none"}
MakeDirs(t, p, maker) ==
  LET Missing == {i \in 1 .. Len(p) : Resolve(t, Prefix(p, i)) = None}
      Node(i) == IF i \in Missing THEN <<maker, Prefix(p, i)>> ELSE Resolve(t, Prefix(p, i))
  IN  t \cup {<<Node(i - 1), p[i], Node(i)>> : i \in Missing}

Unlink(t, d, n) == {l \in t : ~(l[1] = d /\ l[2] = n)}
Link(t, d, n, node) == Unlink(t, d, n) \cup {<<d, n, node>>}

\* rename(2): never into itself, a file only over a file, a directory only over an empty one.
CanRename(t, from, to) ==
  LET node == Resolve(t, from)
      old  == Resolve(t, to)
  IN  /\ node # None /\ Stat(t, Front(to)) = "dir"
      /\ \A i \in 0 .. Len(to) - 1 : Resolve(t, Prefix(to, i)) # node
      /\ \/ old \in {None, node}
         \/ node \in File /\ old \in File
         \/ node \notin File /\ old \notin File /\ Children(t, old) = {}
Rename(t, from, to) ==
  LET node == Resolve(t, from) IN
  IF Resolve(t, to) = node THEN t
  ELSE Link(Unlink(t, Resolve(t, Front(from)), Last(from)), Resolve(t, Front(to)), Last(to), node)

-----------------------------------------------------------------------------
(* Paths: cleanRel and the two resolvers.  Nothing in this service makes a  *)
(* symbolic link, so resolving links changes no path.                       *)

Accepted(p) == p # <<>> /\ p[1] # Slash /\ \A i \in 1 .. Len(p) : p[i] # Up
Clean(p) ==
  LET kept[i \in 0 .. Len(p)] ==
        IF i = 0 THEN <<>> ELSE kept[i - 1] \o (IF p[i] = Dot THEN <<>> ELSE <<p[i]>>)
  IN  kept[Len(p)]
Abs(p) == <<Root>> \o Clean(p)
\* resolveForCreate looks at the parent, and the sandbox's own is outside.
Creatable(p) == Accepted(p) /\ Clean(p) # <<>>

\* What the checks before the first system call answer.
Rejected(b) ==
  CASE b.op = "write" -> b.size > MaxFile \/ ~Creatable(b.path)
    [] b.op = "move"  -> b.path = b.to \/ ~Accepted(b.path) \/ ~Creatable(b.to)
    [] OTHER          -> ~Accepted(b.path)

Path(r) == Abs(body[r].path)
Target(r) == Abs(body[r].to)

-----------------------------------------------------------------------------
(* Data *)

Payload(w, n) == [i \in 1 .. n |-> w]
\* A write at offset 0 leaves what is longer than it.
Overlay(new, old) ==
  [i \in 1 .. (IF Len(new) > Len(old) THEN Len(new) ELSE Len(old)) |->
     IF i <= Len(new) THEN new[i] ELSE old[i]]

Open(r, f) ==
  /\ held' = [held EXCEPT ![r] = f]
  /\ met' = met \cup {{r, q} : q \in {x \in Requests : held[x] = f}}

-----------------------------------------------------------------------------
(* What a request may see of the directory, kept as history *)

Universe == {<<Root>> \o s : s \in UNION {[1 .. n -> Names] : n \in 0 .. Depth}}
Below(t, p, deep) ==
  {q \in Universe : /\ IsStrictPrefix(p, q) /\ (deep \/ Len(q) = Len(p) + 1)
                    /\ Stat(t, q) \in {"file", "dir"}}
View(t, b) ==
  [path  |-> Stat(t, Abs(b.path)),
   to    |-> IF b.op = "move" THEN Stat(t, Abs(b.to)) ELSE "none",
   below |-> IF b.op \in {"list", "walk"} THEN Below(t, Abs(b.path), b.op = "walk") ELSE {}]

\* Under a delete: the directory it begins to empty, and, a level a step, every
\* directory that is in one of them while it runs.
UnderNow(r) ==
  IF at'[r] # "sweeping" THEN {}
  ELSE IF at[r] # "sweeping" THEN {Resolve(tree', Path(r))}
  ELSE under[r] \cup ({l[3] : l \in {k \in tree' : k[1] \in under[r]}} \ File)

Watch ==
  /\ saw' = [r \in Requests |->
       IF at'[r] = "new" \/ at[r] \in {"done", "lost"} \/ answer'[r] \in {400, 413} THEN saw[r]
       ELSE saw[r] \cup {View(tree', body'[r])}
                  \cup (IF at[r] = "new" THEN {View(tree, body'[r])} ELSE {})]
  /\ under' = [r \in Requests |-> UnderNow(r)]

-----------------------------------------------------------------------------
\* A service starts on an empty sandbox or on a file that some read asks for.
SeedPaths ==
  {Abs(b.path) : b \in {c \in UNION {Bodies[r] : r \in Requests} : c.op = "read" /\ Creatable(c.path)}}

Init ==
  /\ \E s \in Seeds, p \in {<<>>} \cup SeedPaths :
       LET root == MakeDirs({}, <<Root>>, 0)
           dirs == MakeDirs(root, Front(p), s)
       IN  /\ tree = IF p = <<>> THEN root ELSE Link(dirs, Resolve(dirs, Front(p)), Last(p), s)
           /\ data = [f \in File |-> IF f = s /\ p # <<>> THEN Payload(s, 1) ELSE <<>>]
           /\ last = [f \in File |-> IF f = s /\ p # <<>> THEN s ELSE None]
  /\ life = "up"
  /\ at = [r \in Requests |-> "new"] /\ body = [r \in Requests |-> None]
  /\ answer = [r \in Requests |-> 0]
  /\ held = [r \in Requests |-> None]
  /\ got = [r \in Requests |-> <<>>] /\ found = [r \in Requests |-> {}]
  /\ todo = [r \in Requests |-> <<>>]
  /\ faults = 0
  /\ saw = [r \in Requests |-> {}] /\ met = {} /\ under = [r \in Requests |-> {}]

\* A handler's steps: it receives its body, goes on, or answers and closes what it had open.
Waiting(r) == at[r] = "new" /\ life = "up"
Receive(r, b, step) ==
  /\ at' = [at EXCEPT ![r] = step] /\ body' = [body EXCEPT ![r] = b]
  /\ UNCHANGED <<life, answer, locals, faults, met>>
Refuse(r, b, status) ==
  /\ at' = [at EXCEPT ![r] = "done"] /\ body' = [body EXCEPT ![r] = b]
  /\ answer' = [answer EXCEPT ![r] = status]
  /\ UNCHANGED <<life, locals, faults, met>>
Proceed(r, step) ==
  at' = [at EXCEPT ![r] = step] /\ UNCHANGED <<life, body, answer, faults>>
Finish(r, status) ==
  /\ at' = [at EXCEPT ![r] = "done"] /\ answer' = [answer EXCEPT ![r] = status]
  /\ held' = [held EXCEPT ![r] = None] /\ todo' = [todo EXCEPT ![r] = <<>>]
  /\ UNCHANGED <<life, body, met>>
Reply(r, status) == Finish(r, status) /\ UNCHANGED <<got, found, faults>>

\* decode reads little more than maxFileSize of a body, as JSON writes it: what is
\* left is no JSON.  JSON writes a byte in one to six, which the model leaves open.
CutShort(b) == b.op = "write" /\ 6 * b.size >= MaxFile
Refusal(r, b) ==
  /\ Waiting(r)
  /\ \/ Rejected(b) /\ Refuse(r, b, IF b.op = "write" /\ b.size > MaxFile THEN 413 ELSE 400)
     \/ CutShort(b) /\ Refuse(r, b, 400)
  /\ UNCHANGED <<disk, last>> /\ Watch

-----------------------------------------------------------------------------
(* handleRead *)

ReadStat(r, b) ==
  /\ Waiting(r) /\ b.op = "read" /\ ~Rejected(b)
  /\ IF Stat(tree, Abs(b.path)) # "file" THEN Refuse(r, b, 404)
     ELSE IF Len(data[Resolve(tree, Abs(b.path))]) > MaxFile THEN Refuse(r, b, 413)
     ELSE Receive(r, b, "opening")
  /\ UNCHANGED <<disk, last>> /\ Watch

ReadOpenFaulty(r) ==
  /\ at[r] = "opening" /\ body[r].op = "read"
  /\ IF Stat(tree, Path(r)) \in {"file", "dir"}
     THEN Open(r, Resolve(tree, Path(r))) /\ Proceed(r, "reading") /\ UNCHANGED <<got, found, todo>>
     ELSE Reply(r, 500)
  /\ UNCHANGED <<disk, last>> /\ Watch
ReadOpen(r) ==
  /\ at[r] = "opening" /\ body[r].op = "read"
  /\ IF Stat(tree, Path(r)) = "file"
     THEN Open(r, Resolve(tree, Path(r))) /\ Proceed(r, "reading") /\ UNCHANGED <<got, found, todo>>
     ELSE Reply(r, 500)
  /\ UNCHANGED <<disk, last>> /\ Watch

ReadBlock(r) ==
  /\ at[r] = "reading"
  /\ IF Len(got[r]) < Len(data[held[r]])
     THEN /\ got' = [got EXCEPT ![r] = Append(@, data[held[r]][Len(@) + 1])]
          /\ UNCHANGED <<life, at, body, answer, held, found, todo, faults, met>>
     ELSE Reply(r, 200)
  /\ UNCHANGED <<disk, last>> /\ Watch

-----------------------------------------------------------------------------
(* handleWrite *)

WriteMkdir(r, b) ==
  /\ Waiting(r) /\ b.op = "write" /\ ~Rejected(b)
  /\ LET parent == Front(Abs(b.path)) IN
     IF CanMakeDirs(tree, parent)
     THEN tree' = MakeDirs(tree, parent, r) /\ Receive(r, b, "opening")
     ELSE tree' = tree /\ Refuse(r, b, 500)
  /\ UNCHANGED <<data, last>> /\ Watch

\* os.WriteFile opens with O_CREATE and O_TRUNC,
WriteOpenFaulty(r) ==
  LET parent == Front(Path(r))
      node   == Resolve(tree, Path(r))
      file   == IF node = None THEN r ELSE node
  IN  /\ at[r] = "opening" /\ body[r].op = "write"
      /\ IF Stat(tree, parent) = "dir" /\ file \in File
         THEN /\ tree' = tree \cup {<<Resolve(tree, parent), Last(Path(r)), file>>}
              /\ last' = [last EXCEPT ![file] = r] /\ UNCHANGED data
              /\ Open(r, file) /\ Proceed(r, "filling") /\ UNCHANGED <<got, found, todo>>
         ELSE UNCHANGED <<disk, last>> /\ Reply(r, 500)
      /\ Watch
WriteOpen(r) ==
  LET parent == Front(Path(r))
      node   == Resolve(tree, Path(r))
      file   == IF node = None THEN r ELSE node
  IN  /\ at[r] = "opening" /\ body[r].op = "write"
      /\ IF Stat(tree, parent) = "dir" /\ file \in File
         THEN /\ tree' = tree \cup {<<Resolve(tree, parent), Last(Path(r)), file>>}
              /\ data' = [data EXCEPT ![file] = <<>>]
              /\ last' = [last EXCEPT ![file] = r]
              /\ Open(r, file) /\ Proceed(r, "filling") /\ UNCHANGED <<got, found, todo>>
         ELSE UNCHANGED <<disk, last>> /\ Reply(r, 500)
      /\ Watch

\* and then writes all of it,
WriteFill(r) ==
  /\ at[r] = "filling"
  /\ data' = [data EXCEPT ![held[r]] = Overlay(Payload(r, body[r].size), @)]
  /\ Reply(r, 201)
  /\ UNCHANGED <<tree, last>> /\ Watch

\* or, on a full disk, the start of it.
WriteShortFaulty(r) ==
  /\ at[r] = "filling" /\ faults < MaxFaults
  /\ \E n \in 0 .. body[r].size - 1 :
       data' = [data EXCEPT ![held[r]] = Overlay(Payload(r, n), @)]
  /\ faults' = faults + 1
  /\ Finish(r, 201)
  /\ UNCHANGED <<tree, last, got, found>> /\ Watch
WriteShort(r) ==
  /\ at[r] = "filling" /\ faults < MaxFaults
  /\ \E n \in 0 .. body[r].size - 1 :
       data' = [data EXCEPT ![held[r]] = Overlay(Payload(r, n), @)]
  /\ faults' = faults + 1
  /\ Finish(r, 500)
  /\ UNCHANGED <<tree, last, got, found>> /\ Watch

-----------------------------------------------------------------------------
(* handleList *)

ListStat(r, b) ==
  /\ Waiting(r) /\ b.op \in {"list", "walk"} /\ ~Rejected(b)
  /\ IF Stat(tree, Abs(b.path)) = "dir" THEN Receive(r, b, "listing") ELSE Refuse(r, b, 404)
  /\ UNCHANGED <<disk, last>> /\ Watch

ListReadDir(r) ==
  /\ at[r] = "listing" /\ body[r].op = "list"
  /\ IF Stat(tree, Path(r)) = "dir"
     THEN /\ found' = [found EXCEPT ![r] = {Append(Path(r), n) : n \in Children(tree, Resolve(tree, Path(r)))}]
          /\ Finish(r, 200) /\ UNCHANGED <<got, faults>>
     ELSE Reply(r, 500)
  /\ UNCHANGED <<disk, last>> /\ Watch

\* filepath.Walk: it stats one path after the other, and a directory's entries come next.
WalkStart(r) ==
  /\ at[r] = "listing" /\ body[r].op = "walk"
  /\ todo' = [todo EXCEPT ![r] = <<Path(r)>>]
  /\ Proceed(r, "walking")
  /\ UNCHANGED <<disk, held, got, found, last, met>> /\ Watch

WalkVisitFaulty(r) ==
  /\ at[r] = "walking" /\ todo[r] # <<>>
  /\ LET p == Head(todo[r])
         names == SetToSeq(Children(tree, Resolve(tree, p)))
         kind == Stat(tree, p)
     IN  IF kind \in {"file", "dir"}
         THEN /\ found' = [found EXCEPT ![r] = @ \cup ({p} \ {Path(r)})]
              /\ todo' = [todo EXCEPT ![r] =
                   (IF kind = "dir" THEN [i \in DOMAIN names |-> Append(p, names[i])] ELSE <<>>) \o Tail(@)]
              /\ UNCHANGED <<life, at, body, answer, held, got, faults, met>>
         ELSE Reply(r, 200)
  /\ UNCHANGED <<disk, last>> /\ Watch
WalkVisit(r) ==
  /\ at[r] = "walking" /\ todo[r] # <<>>
  /\ LET p == Head(todo[r])
         names == SetToSeq(Children(tree, Resolve(tree, p)))
         kind == Stat(tree, p)
     IN  IF kind \in {"file", "dir"}
         THEN /\ found' = [found EXCEPT ![r] = @ \cup ({p} \ {Path(r)})]
              /\ todo' = [todo EXCEPT ![r] =
                   (IF kind = "dir" THEN [i \in DOMAIN names |-> Append(p, names[i])] ELSE <<>>) \o Tail(@)]
              /\ UNCHANGED <<life, at, body, answer, held, got, faults, met>>
         ELSE Reply(r, 500)
  /\ UNCHANGED <<disk, last>> /\ Watch

WalkEnd(r) ==
  /\ at[r] = "walking" /\ todo[r] = <<>>
  /\ Reply(r, 200)
  /\ UNCHANGED <<disk, last>> /\ Watch

-----------------------------------------------------------------------------
(* handleDelete.  os.RemoveAll reads the names of a directory once, removes *)
(* them one by one, and then the directory, if it is empty by then.         *)

DeleteStat(r, b) ==
  /\ Waiting(r) /\ b.op = "delete" /\ ~Rejected(b)
  /\ IF Stat(tree, Abs(b.path)) = "none" THEN Refuse(r, b, 404) ELSE Receive(r, b, "removing")
  /\ UNCHANGED <<disk, last>> /\ Watch

Frame(t, d, n) ==
  [parent |-> d, name |-> n, dir |-> Child(t, d, n), left |-> Children(t, Child(t, d, n))]

DeleteRemove(r) ==
  LET parent == Resolve(tree, Front(Path(r)))
      node   == Resolve(tree, Path(r))
  IN  /\ at[r] = "removing"
      /\ IF Stat(tree, Path(r)) = "notdir" THEN UNCHANGED tree /\ Reply(r, 500)
         ELSE IF node = None \/ node \in File \/ Children(tree, node) = {}
         THEN tree' = Unlink(tree, parent, Last(Path(r))) /\ Reply(r, 204)
         ELSE /\ todo' = [todo EXCEPT ![r] = <<Frame(tree, parent, Last(Path(r)))>>]
              /\ Proceed(r, "sweeping")
              /\ UNCHANGED <<tree, held, got, found, met>>
      /\ UNCHANGED <<data, last>> /\ Watch

\* One entry of the innermost directory: unlinked, or entered if it is a directory.
DeleteEntry(r) ==
  /\ at[r] = "sweeping"
  /\ \E name \in todo[r][1].left :
       LET f    == todo[r][1]
           node == Child(tree, f.dir, name)
           rest == <<[f EXCEPT !.left = @ \ {name}]>> \o Tail(todo[r])
       IN  IF node = None \/ node \in File
           THEN tree' = Unlink(tree, f.dir, name) /\ todo' = [todo EXCEPT ![r] = rest]
           ELSE tree' = tree /\ todo' = [todo EXCEPT ![r] = <<Frame(tree, f.dir, name)>> \o rest]
  /\ UNCHANGED <<data, life, at, body, answer, held, got, found, faults, last, met>> /\ Watch

\* The innermost directory itself; only the outermost one's failure is answered.
DeleteDirFaulty(r) ==
  /\ at[r] = "sweeping" /\ todo[r][1].left = {}
  /\ LET f    == todo[r][1]
         node == Child(tree, f.parent, f.name)
         ok   == node = None \/ (node \notin File /\ Children(tree, node) = {})
     IN  /\ tree' = IF ok THEN Unlink(tree, f.parent, f.name) ELSE tree
         /\ IF Len(todo[r]) > 1
            THEN /\ todo' = [todo EXCEPT ![r] = Tail(@)]
                 /\ UNCHANGED <<life, at, body, answer, held, got, found, faults, met>>
            ELSE Reply(r, 204)
  /\ UNCHANGED <<data, last>> /\ Watch
DeleteDir(r) ==
  /\ at[r] = "sweeping" /\ todo[r][1].left = {}
  /\ LET f    == todo[r][1]
         node == Child(tree, f.parent, f.name)
         ok   == node = None \/ (node \notin File /\ Children(tree, node) = {})
     IN  /\ tree' = IF ok THEN Unlink(tree, f.parent, f.name) ELSE tree
         /\ IF Len(todo[r]) > 1
            THEN /\ todo' = [todo EXCEPT ![r] = Tail(@)]
                 /\ UNCHANGED <<life, at, body, answer, held, got, found, faults, met>>
            ELSE Reply(r, IF ok THEN 204 ELSE 500)
  /\ UNCHANGED <<data, last>> /\ Watch

-----------------------------------------------------------------------------
(* handleMove *)

MoveStat(r, b) ==
  /\ Waiting(r) /\ b.op = "move" /\ ~Rejected(b)
  /\ IF Stat(tree, Abs(b.path)) = "none" THEN Refuse(r, b, 404) ELSE Receive(r, b, "moving")
  /\ UNCHANGED <<disk, last>> /\ Watch

\* MkdirAll, and the look os.Rename takes before it calls rename.
MoveMkdir(r) ==
  /\ at[r] = "moving"
  /\ LET parent == Front(Target(r)) IN
     IF CanMakeDirs(tree, parent)
     THEN /\ tree' = MakeDirs(tree, parent, r)
          /\ IF Stat(tree, Target(r)) = "dir" THEN Reply(r, 500)
             ELSE Proceed(r, "renaming") /\ UNCHANGED <<locals, met>>
     ELSE UNCHANGED tree /\ Reply(r, 500)
  /\ UNCHANGED <<data, last>> /\ Watch

MoveRenameFaulty(r) ==
  /\ at[r] = "renaming"
  /\ IF CanRename(tree, Path(r), Target(r))
     THEN tree' = Rename(tree, Path(r), Target(r)) /\ Reply(r, 201)
     ELSE /\ tree' = Unlink(tree, Resolve(tree, Front(Target(r))), Last(Target(r)))
          /\ Reply(r, 500)
  /\ UNCHANGED <<data, last>> /\ Watch
MoveRename(r) ==
  /\ at[r] = "renaming"
  /\ IF CanRename(tree, Path(r), Target(r))
     THEN tree' = Rename(tree, Path(r), Target(r)) /\ Reply(r, 201)
     ELSE UNCHANGED tree /\ Reply(r, 500)
  /\ UNCHANGED <<data, last>> /\ Watch

-----------------------------------------------------------------------------
(* The process *)

Stop ==
  /\ life = "up" /\ faults < MaxFaults
  /\ life' = "draining" /\ faults' = faults + 1
  /\ UNCHANGED <<disk, at, body, answer, locals, last, met>> /\ Watch

StopCleanly ==
  /\ life = "draining" /\ \A r \in Requests : at[r] \notin Active
  /\ life' = "down"
  /\ UNCHANGED <<disk, at, body, answer, locals, faults, last, met>> /\ Watch

\* A crash, or a drain that takes longer than 15 seconds: what is done stays done.
Die ==
  /\ \/ life = "draining" /\ faults' = faults
     \/ life = "up" /\ faults < MaxFaults /\ faults' = faults + 1
  /\ life' = "down"
  /\ at' = [r \in Requests |-> IF at[r] \in Active THEN "lost" ELSE at[r]]
  /\ held' = [r \in Requests |-> None] /\ todo' = [r \in Requests |-> <<>>]
  /\ UNCHANGED <<disk, body, answer, got, found, last, met>> /\ Watch

Restart ==
  /\ life = "down"
  /\ life' = "up"
  /\ tree' = MakeDirs(tree, <<Root>>, faults)
  /\ UNCHANGED <<data, at, body, answer, locals, faults, last, met>> /\ Watch

Handler(r) ==
  \/ \E b \in Bodies[r] :
       \/ Refusal(r, b)
       \/ ReadStat(r, b)
       \/ WriteMkdir(r, b)
       \/ ListStat(r, b)
       \/ DeleteStat(r, b)
       \/ MoveStat(r, b)
  \/ ReadOpen(r) \/ ReadBlock(r)
  \/ WriteOpen(r) \/ WriteFill(r) \/ WriteShort(r)
  \/ ListReadDir(r) \/ WalkStart(r) \/ WalkVisit(r) \/ WalkEnd(r)
  \/ DeleteRemove(r) \/ DeleteEntry(r) \/ DeleteDir(r)
  \/ MoveMkdir(r) \/ MoveRename(r)

Next == (\E r \in Requests : Handler(r)) \/ Stop \/ StopCleanly \/ Die \/ Restart

Spec == Init /\ [][Next]_vars

-----------------------------------------------------------------------------
(* Properties *)

Together(v, w) == {v, w} \in met
Blend(c, r) ==
  \A i, j \in DOMAIN c : c[i] = c[j] \/ Together(c[i], c[j]) \/ Together(r, c[i]) \/ Together(r, c[j])

\* handleWrite truncates and then fills without a lock.  A file, or what a read
\* answers, is a mixture of two writes only if those writes, or the read and
\* one of them, had the file open at the same time.
BlendsNeedOverlap ==
  /\ \A f \in File : Blend(data[f], None)
  /\ \A r \in Requests : Blend(got[r], r)

\* A write answered 201 that no other write overlapped is the whole content of
\* its file until the next write opens it, whatever moves the file and whatever
\* dies: not a block less, and nothing left of the content before.
AnsweredWritesStay ==
  \A f \in File :
    LET w == last[f] IN
    (w \in Requests /\ answer[w] = 201 /\ \A v \in Requests : Together(v, w) => body[v].op = "read")
      => data[f] = Payload(w, body[w].size)

Seen(r, kinds) == \E v \in saw[r] : v.path \in kinds

\* The checks and the calls they guard are apart, yet no answer is about a
\* moment outside the request: what it says of its path (not there, gone, a
\* directory, a file) was true at some moment while it ran.
AnswersWereTrue ==
  \A r \in Requests :
    at[r] = "done" =>
      CASE body[r].op = "read" /\ answer[r] = 404 -> Seen(r, {"none", "notdir", "dir"})
        [] body[r].op \in {"list", "walk"} /\ answer[r] = 404 -> Seen(r, {"none", "notdir", "file"})
        [] body[r].op = "delete" /\ answer[r] \in {204, 404} -> Seen(r, {"none", "notdir"})
        [] body[r].op = "move" /\ answer[r] = 404 -> Seen(r, {"none"})
        [] body[r].op = "move" /\ answer[r] = 201 ->
             \E v, w \in saw[r] : v.path \in {"file", "dir"} /\ w.to \in {"file", "dir"}
        [] body[r].op \in {"read", "write"} /\ answer[r] \in {200, 201} -> Seen(r, {"file"})
        [] body[r].op \in {"list", "walk"} /\ answer[r] = 200 -> Seen(r, {"dir"})
        [] OTHER -> TRUE

\* filepath.Walk is no snapshot: moves and deletes run while it walks.  Still a
\* listing that is answered has every entry that was there all the time, and
\* none that was never there (of the paths the history looks at).
ListsAreRegular ==
  \A r \in Requests :
    (at[r] = "done" /\ answer[r] = 200 /\ body[r].op \in {"list", "walk"}) =>
      /\ found[r] \cap Universe \subseteq UNION {v.below : v \in saw[r]}
      /\ \A p \in UNION {v.below : v \in saw[r]} : (\A v \in saw[r] : p \in v.below) => p \in found[r]

Entry(t, p) == <<Resolve(t, Front(p)), Last(p), Resolve(t, p)>>

\* A delete takes out its own path's file, or one in a directory it has to empty;
\* a move takes its source's entry, and a file only where it puts the file it moves.
Deletes(r, l) ==
  /\ l[3] \in File
  /\ \/ at[r] = "removing" /\ l = Entry(tree, Path(r))
     \/ at[r] = "sweeping" /\ l[1] \in under[r]
Replaces(r, l) ==
  /\ at[r] = "renaming" /\ answer'[r] = 201
  /\ Resolve(tree', Target(r)) = Resolve(tree, Path(r))
  /\ \/ l = Entry(tree, Path(r))
     \/ l = Entry(tree, Target(r)) /\ {l[3], Resolve(tree, Path(r))} \subseteq File

\* An entry leaves the directory for one of three reasons.  It is a file, and a
\* delete of its path, or one that is emptying a directory it is in, takes it out.
\* Or a move answered 201 has it at its target, or puts another file in its place.
\* Or it is a directory with nothing in it.  So no other path's file is lost, moves
\* that are refused, fail or die between their steps lose nothing, and what appears
\* in a directory while it is deleted or replaced is never cut off with it.
FilesAreKept ==
  [][\A l \in tree \ tree' :
       \/ l[3] \notin File /\ Children(tree, l[3]) = {}
       \/ \E r \in Requests : Deletes(r, l) \/ Replaces(r, l)]_vars

=============================================================================
