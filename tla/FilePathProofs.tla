--------------------------- MODULE FilePathProofs ---------------------------
(***************************************************************************)
(* Proofs about FileServer, for any requests, bodies, limits and faults:   *)
(* what the requests that run at once make of the directory, and what an   *)
(* answer says of it.                                                      *)
(***************************************************************************)
EXTENDS FileServerProofs, FileTreeProofs

\* Which handler is at which place, past the checks on its body.
Placed(r) ==
  /\ at[r] = "new" => body[r] = None
  /\ at[r] \in Active => ~Rejected(body[r])
  /\ at[r] = "opening" => body[r].op \in {"read", "write"}
  /\ at[r] = "reading" => body[r].op = "read"
  /\ at[r] = "filling" => body[r].op = "write"
  /\ at[r] = "listing" => body[r].op \in {"list", "walk"}
  /\ at[r] = "walking" => body[r].op = "walk"
  /\ at[r] \in {"removing", "sweeping"} => body[r].op = "delete"
  /\ at[r] \in {"moving", "renaming"} => body[r].op = "move"

\* Who is yet to call MkdirAll has made no directory.
TreeInv ==
  /\ WellLinked(tree) /\ IsFiniteSet(tree) /\ Distinct(tree)
  /\ life \in {"up", "draining", "down"} /\ faults \in 0 .. MaxFaults
  /\ DOMAIN todo = Requests /\ DOMAIN found = Requests
  /\ \A r \in Requests : Placed(r) /\ (at[r] \in {"new", "moving"} => Fresh(tree, r))

\* What a request that takes no step keeps.
Same(q) ==
  /\ at'[q] = at[q] /\ body'[q] = body[q] /\ answer'[q] = answer[q]
  /\ todo'[q] = todo[q] /\ found'[q] = found[q]

-----------------------------------------------------------------------------
LEMMA TreeInitInv == Init => TreeInv
<1> SUFFICES ASSUME Init
             PROVE  TreeInv
  OBVIOUS
<1> DEFINE root == MakeDirs({}, <<Root>>, 0)
<1>1. PICK s \in Seeds, p \in {<<>>} \cup SeedPaths :
        tree = IF p = <<>> THEN root
               ELSE Link(MakeDirs(root, Front(p), s), Resolve(MakeDirs(root, Front(p), s), Front(p)), Last(p), s)
  BY DEF Init
<1>2. <<Root>> \in Seq(Segment) /\ Len(<<Root>>) = 1 /\ Top \notin File
  BY NodesAssumption DEF Segment
<1>3. s \in File /\ s \notin Nat /\ \A r \in Requests : r \in File /\ r # s /\ r \notin Nat
  BY NodesAssumption DEF File
<1>4. WellLinked({}) /\ IsFiniteSet({}) /\ \A m : Fresh({}, m)
  BY FS_EmptySet DEF WellLinked, Fresh
<1>5. /\ WellLinked(root) /\ IsFiniteSet(root) /\ \A q \in File : Fresh(root, q)
      /\ \A l \in root : \E x \in Seq(Segment) : l[3] = <<0, x>>
  <2>1. Along({}, <<Root>>, 0) = Top
    BY <1>2, AlongSteps
  <2>2. \A i \in 0 .. Len(<<Root>>) - 1 : Along({}, <<Root>>, i) \notin File
    <3>1. \A i \in 0 .. Len(<<Root>>) - 1 : i = 0
      BY <1>2
    <3> QED
      BY <1>2, <2>1, <3>1
  <2>3. \A q \in File : q # 0 /\ q \in File \cup Nat
    BY NodesAssumption
  <2>4. /\ WellLinked(root) /\ IsFiniteSet(root)
        /\ \A q \in File \cup Nat : q # 0 /\ Fresh({}, q) => Fresh(root, q)
        /\ \A l \in root \ {} : \E x \in Seq(Segment) : l[3] = <<0, x>>
    <3> DEFINE p0 == <<Root>>
               t0 == {}
    <3>1. /\ Fresh(t0, 0) /\ 0 \in File \cup Nat /\ p0 \in Seq(Segment) /\ WellLinked(t0) /\ IsFiniteSet(t0)
          /\ \A i \in 0 .. Len(p0) - 1 : Along(t0, p0, i) \notin File
      BY <1>2, <1>4, <2>2
    <3>2. root = MakeDirs(t0, p0, 0)
      OBVIOUS
    <3> HIDE DEF p0, t0, root
    <3>3. /\ WellLinked(root) /\ IsFiniteSet(root)
          /\ \A q \in File \cup Nat : q # 0 /\ Fresh(t0, q) => Fresh(root, q)
          /\ \A l \in root \ t0 : \E x \in Seq(Segment) : l[3] = <<0, x>>
      BY <3>1, <3>2, MakeDirsGrows
    <3> QED
      BY <3>3 DEF t0
  <2> HIDE DEF root
  <2> QED
    BY <1>4, <2>3, <2>4
<1> HIDE DEF root
<1>9. Distinct(root)
  <2> DEFINE p0 == <<Root>>
             t0 == {}
  <2>1. /\ p0 \in Seq(Segment) /\ Len(p0) = 1 /\ 0 \in File \cup Nat /\ WellLinked(t0) /\ Distinct(t0)
        /\ root = MakeDirs(t0, p0, 0)
    BY <1>2, <1>4 DEF Distinct, root
  <2>2. \A i \in 0 .. Len(p0) - 1 : i = 0
    BY <2>1
  <2> HIDE DEF p0, t0
  <2>3. \A i \in 0 .. Len(p0) - 1 : Along(t0, p0, i) \notin File
    BY <1>2, <2>1, <2>2, AlongSteps
  <2> QED
    BY <2>1, <2>3, MakeDirsDistinct
<1>6. WellLinked(tree) /\ IsFiniteSet(tree) /\ Distinct(tree) /\ \A r \in Requests : Fresh(tree, r)
  <2>1. CASE p = <<>>
    BY <1>1, <1>3, <1>5, <1>9, <2>1
  <2>2. CASE p # <<>>
    <3> DEFINE parent == Front(p)
               dirs   == MakeDirs(root, parent, s)
    <3>1. p \in Seq(Segment) /\ parent \in Seq(Segment)
      <4>1. PICK r \in Requests : \E c \in Bodies[r] : Creatable(c.path) /\ p = Abs(c.path)
        BY <2>2 DEF SeedPaths
      <4>2. PICK c \in Bodies[r] : Creatable(c.path) /\ p = Abs(c.path)
        BY <4>1
      <4>3. c.path \in RawPath
        BY BodiesAssumption
      <4> QED
        BY <4>2, <4>3, AbsFacts DEF Creatable
    <3>2. ASSUME NEW i \in 0 .. Len(parent)
          PROVE  Along(root, parent, i) \notin File
      <4>1. Along(root, parent, i) \in {None, Top} \/ \E l \in root : l[3] = Along(root, parent, i)
        BY <1>5, <3>1, AlongLinked
      <4> QED
        BY <1>5, <4>1, MadeNodes, NodesAssumption
    <3>3. /\ WellLinked(dirs) /\ IsFiniteSet(dirs) /\ \A q \in File : q # s => Fresh(dirs, q)
          /\ \A l \in dirs \ root : \E x \in Seq(Segment) : l[3] = <<s, x>>
          /\ Resolve(dirs, parent) # None
      BY <1>3, <1>5, <3>1, <3>2, MakeDirsGrows, MakeDirsMakes
    <3>6. Distinct(dirs)
      BY <1>3, <1>5, <1>9, <3>1, <3>2, MakeDirsDistinct
    <3> HIDE DEF dirs, parent
    <3>4. Resolve(dirs, parent) \notin File
      <4>1. Len(parent) \in 0 .. Len(parent)
        BY <3>1
      <4>5. Along(dirs, parent, Len(parent)) = Resolve(dirs, parent)
        BY <3>1, AlongSteps
      <4>2. Resolve(dirs, parent) \in {None, Top} \/ \E l \in dirs : l[3] = Resolve(dirs, parent)
        BY <3>1, <3>3, <4>1, <4>5, AlongLinked
      <4>3. \A l \in dirs : \E m \in File \cup Nat, x \in Seq(Segment) : l[3] = <<m, x>>
        BY <1>3, <1>5, <3>3
      <4> QED
        BY <4>2, <4>3, MadeNodes, NodesAssumption
    <3> DEFINE d    == Resolve(dirs, Front(p))
               link == <<d, Last(p), s>>
               u    == dirs \cup {link}
    <3>5. tree = Unlink(dirs, d, Last(p)) \cup {link} /\ parent = Front(p)
      BY <1>1, <2>2 DEF Link, dirs, parent
    <3>7. WellLinked(u) /\ IsFiniteSet(u) /\ \A r \in Requests : Fresh(u, r)
      BY <1>3, <2>2, <3>1, <3>3, <3>4, <3>5, LinkWell
    <3>8. /\ Unlink(dirs, d, Last(p)) \subseteq dirs /\ link[1] = d /\ link[2] = Last(p)
          /\ \A k \in Unlink(dirs, d, Last(p)) : ~(k[1] = d /\ k[2] = Last(p))
      BY DEF Unlink
    <3> HIDE DEF d, link
    <3>9. tree \subseteq u
      BY <3>5, <3>8
    <3>10. Distinct(tree)
      BY <3>5, <3>6, <3>8 DEF Distinct
    <3> HIDE DEF u
    <3> QED
      BY <3>7, <3>9, <3>10, SubsetLinked
  <2> QED
    BY <2>1, <2>2
<1>7. /\ life = "up" /\ faults = 0 /\ DOMAIN todo = Requests /\ DOMAIN found = Requests
      /\ \A r \in Requests : at[r] = "new" /\ body[r] = None
  BY DEF Init
<1>8. \A r \in Requests : Placed(r)
  BY <1>7 DEF Placed, Active
<1> QED
  BY <1>6, <1>7, <1>8, BoundsAssumption DEF TreeInv

-----------------------------------------------------------------------------
\* A handler's step: it is at no end of the handler, and the others wait.
Moved(r) ==
  /\ \A q \in Requests : q # r => Same(q)
  /\ at[r] \notin {"done", "lost"} /\ at'[r] \notin {"new", "lost"}
  /\ life' = life /\ faults' \in 0 .. MaxFaults
  /\ DOMAIN todo' = Requests /\ DOMAIN found' = Requests
  /\ (at[r] # "new" => body'[r] = body[r]) /\ body'[r] \in Bodies[r]
  /\ Placed(r)' /\ (at'[r] = "moving" => tree' = tree /\ at[r] = "new")
  /\ Watch

\* A handler that begins: it is refused, or goes on with a body past the checks.
LEMMA BeginMoves ==
  ASSUME FileInv, TreeInv, NEW r \in Requests, NEW b \in Bodies[r],
         \/ Refusal(r, b) \/ ReadStat(r, b) \/ WriteMkdir(r, b)
         \/ ListStat(r, b) \/ DeleteStat(r, b) \/ MoveStat(r, b)
  PROVE  Moved(r)
<1>1. HandlerTypes
  BY DEF FileInv
<1>2. at[r] = "new" /\ Watch
  BY DEF Refusal, ReadStat, WriteMkdir, ListStat, DeleteStat, MoveStat, Waiting
<1>3. \/ \E s \in {400, 404, 413, 500} : Refuse(r, b, s)
      \/ /\ ~Rejected(b)
         /\ \/ Receive(r, b, "opening") /\ b.op \in {"read", "write"}
            \/ Receive(r, b, "listing") /\ b.op \in {"list", "walk"}
            \/ Receive(r, b, "removing") /\ b.op = "delete"
            \/ Receive(r, b, "moving") /\ b.op = "move" /\ tree' = tree
  BY DEF Refusal, ReadStat, WriteMkdir, ListStat, DeleteStat, MoveStat, disk
<1>4. ASSUME NEW s, Refuse(r, b, s)
      PROVE  Moved(r)
  <2>1. at'[r] = "done" /\ body'[r] = b
    BY <1>1, <1>4 DEF HandlerTypes, Refuse
  <2>2. \A q \in Requests : q # r => Same(q)
    BY <1>1, <1>4 DEF HandlerTypes, Refuse, Same, locals
  <2>3. life' = life /\ faults' = faults /\ todo' = todo /\ found' = found
    BY <1>4 DEF Refuse, locals
  <2> QED
    BY <1>2, <2>1, <2>2, <2>3 DEF Moved, Placed, TreeInv, Active
<1>5. ASSUME NEW x, Receive(r, b, x), ~Rejected(b), x = "moving" => tree' = tree,
             \/ x = "opening" /\ b.op \in {"read", "write"}
             \/ x = "listing" /\ b.op \in {"list", "walk"}
             \/ x = "removing" /\ b.op = "delete"
             \/ x = "moving" /\ b.op = "move"
      PROVE  Moved(r)
  <2>1. at'[r] = x /\ body'[r] = b
    BY <1>1, <1>5 DEF HandlerTypes, Receive
  <2>2. \A q \in Requests : q # r => Same(q)
    BY <1>1, <1>5 DEF HandlerTypes, Receive, Same, locals
  <2>3. life' = life /\ faults' = faults /\ todo' = todo /\ found' = found
    BY <1>5 DEF Receive, locals
  <2> QED
    BY <1>2, <1>5, <2>1, <2>2, <2>3 DEF Moved, Placed, TreeInv
<1> QED
  BY <1>3, <1>4, <1>5

\* A handler that goes on or answers.
LEMMA GoOnMoves ==
  ASSUME FileInv, TreeInv, NEW r \in Requests, at[r] \in Active, Watch,
         \/ \E s : Finish(r, s) /\ found' \in {found, [found EXCEPT ![r] = found'[r]]} /\ faults' \in 0 .. MaxFaults
         \/ /\ \E x \in {"reading", "filling", "walking", "sweeping", "renaming"} : Proceed(r, x) /\ Placed(r)'
            /\ found' = found /\ todo' \in {todo, [todo EXCEPT ![r] = todo'[r]]}
         \/ /\ UNCHANGED <<life, at, body, answer, faults>>
            /\ found' \in {found, [found EXCEPT ![r] = found'[r]]} /\ todo' \in {todo, [todo EXCEPT ![r] = todo'[r]]}
            /\ at[r] # "moving"
  PROVE  Moved(r)
<1>1. HandlerTypes /\ Placed(r) /\ at[r] \notin {"new", "done", "lost"} /\ body[r] \in Bodies[r]
  BY DEF FileInv, HandlerTypes, TreeInv, Active
<1>2. ASSUME NEW s, Finish(r, s), found' \in {found, [found EXCEPT ![r] = found'[r]]}, faults' \in 0 .. MaxFaults
      PROVE  Moved(r)
  <2>1. at'[r] = "done" /\ body' = body /\ life' = life
    BY <1>1, <1>2 DEF HandlerTypes, Finish
  <2>2. ASSUME NEW q \in Requests, q # r
        PROVE  Same(q)
    <3>1. at'[q] = at[q] /\ answer'[q] = answer[q] /\ todo'[q] = todo[q]
      BY <1>1, <1>2, <2>2 DEF HandlerTypes, Finish, TreeInv
    <3>2. found'[q] = found[q]
      BY <1>2, <2>2 DEF TreeInv
    <3> QED
      BY <2>1, <3>1, <3>2 DEF Same
  <2>3. DOMAIN todo' = Requests /\ DOMAIN found' = Requests
    BY <1>2 DEF Finish, TreeInv
  <2> QED
    BY <1>1, <1>2, <2>1, <2>2, <2>3 DEF Moved, Placed, Active
<1>3. ASSUME NEW x \in {"reading", "filling", "walking", "sweeping", "renaming"}, Proceed(r, x), Placed(r)',
             found' = found, todo' \in {todo, [todo EXCEPT ![r] = todo'[r]]}
      PROVE  Moved(r)
  <2>1. at'[r] = x /\ body' = body /\ life' = life /\ faults' = faults
    BY <1>1, <1>3 DEF HandlerTypes, Proceed
  <2>2. ASSUME NEW q \in Requests, q # r
        PROVE  Same(q)
    <3>1. at'[q] = at[q] /\ answer'[q] = answer[q]
      BY <1>1, <1>3, <2>2 DEF HandlerTypes, Proceed
    <3>2. todo'[q] = todo[q]
      BY <1>3, <2>2 DEF TreeInv
    <3> QED
      BY <1>3, <2>1, <3>1, <3>2 DEF Same
  <2>3. DOMAIN todo' = Requests /\ DOMAIN found' = Requests
    BY <1>3 DEF TreeInv
  <2> QED
    BY <1>1, <1>3, <2>1, <2>2, <2>3 DEF Moved, TreeInv
<1>4. ASSUME UNCHANGED <<life, at, body, answer, faults>>, at[r] # "moving",
             found' \in {found, [found EXCEPT ![r] = found'[r]]}, todo' \in {todo, [todo EXCEPT ![r] = todo'[r]]}
      PROVE  Moved(r)
  <2>1. at' = at /\ body' = body /\ answer' = answer /\ life' = life /\ faults' = faults
    BY <1>4
  <2>2. ASSUME NEW q \in Requests, q # r
        PROVE  Same(q)
    <3>1. todo'[q] = todo[q] /\ found'[q] = found[q]
      BY <1>4, <2>2 DEF TreeInv
    <3> QED
      BY <2>1, <3>1 DEF Same
  <2>3. DOMAIN todo' = Requests /\ DOMAIN found' = Requests
    BY <1>4 DEF TreeInv
  <2>4. Placed(r)'
    BY <1>1, <2>1 DEF Placed
  <2> QED
    BY <1>1, <1>4, <2>1, <2>2, <2>3, <2>4 DEF Moved, TreeInv
<1> QED
  BY <1>2, <1>3, <1>4

LEMMA HandlerMoves ==
  ASSUME FileInv, TreeInv, NEW r \in Requests, Handler(r)
  PROVE  Moved(r)
<1>1. HandlerTypes /\ Placed(r)
  BY DEF FileInv, TreeInv
<1>2. faults \in 0 .. MaxFaults
  BY DEF TreeInv
<1>3. ASSUME NEW b \in Bodies[r],
             \/ Refusal(r, b) \/ ReadStat(r, b) \/ WriteMkdir(r, b)
             \/ ListStat(r, b) \/ DeleteStat(r, b) \/ MoveStat(r, b)
      PROVE  Moved(r)
  BY <1>3, BeginMoves
<1>4. ASSUME NEW x, Proceed(r, x), at[r] \in Active,
             <<x, body[r].op>> \in {<<"reading", "read">>, <<"filling", "write">>, <<"walking", "walk">>,
                                   <<"sweeping", "delete">>, <<"renaming", "move">>}
      PROVE  Placed(r)'
  BY <1>1, <1>4 DEF HandlerTypes, Proceed, Placed, Active
<1>5. CASE ReadOpen(r)
  <2>1. at[r] \in Active /\ body[r].op = "read" /\ Watch
    BY <1>5 DEF ReadOpen, Active
  <2>2. \/ Proceed(r, "reading") /\ UNCHANGED <<found, todo>>
        \/ Reply(r, 500)
    BY <1>5 DEF ReadOpen
  <2> QED
    BY <1>2, <1>4, <2>1, <2>2, GoOnMoves DEF Reply
<1>6. CASE ReadBlock(r)
  <2>1. at[r] \in Active /\ at[r] # "moving" /\ Watch
    BY <1>6 DEF ReadBlock, Active
  <2>2. \/ UNCHANGED <<life, at, body, answer, found, todo, faults>>
        \/ Reply(r, 200)
    BY <1>6 DEF ReadBlock
  <2> QED
    BY <1>2, <2>1, <2>2, GoOnMoves DEF Reply
<1>7. CASE WriteOpen(r)
  <2>1. at[r] \in Active /\ body[r].op = "write" /\ Watch
    BY <1>7 DEF WriteOpen, Active
  <2>2. \/ Proceed(r, "filling") /\ UNCHANGED <<found, todo>>
        \/ Reply(r, 500)
    BY <1>7 DEF WriteOpen
  <2> QED
    BY <1>2, <1>4, <2>1, <2>2, GoOnMoves DEF Reply
<1>8. CASE WriteFill(r) \/ WriteShort(r)
  <2>1. at[r] \in Active /\ Watch
    BY <1>8 DEF WriteFill, WriteShort, Active
  <2>2. \E s : Finish(r, s) /\ found' = found /\ faults' \in 0 .. MaxFaults
    BY <1>2, <1>8, BoundsAssumption DEF WriteFill, WriteShort, Reply
  <2> QED
    BY <2>1, <2>2, GoOnMoves
<1>9. CASE ListReadDir(r)
  <2>1. at[r] \in Active /\ Watch
    BY <1>9 DEF ListReadDir, Active
  <2>2. \E s : Finish(r, s) /\ found' \in {found, [found EXCEPT ![r] = found'[r]]} /\ faults' = faults
    <3>1. CASE Stat(tree, Path(r)) = "dir"
      <4> DEFINE new == {Append(Path(r), n) : n \in Children(tree, Resolve(tree, Path(r)))}
      <4>1. found' = [found EXCEPT ![r] = new] /\ Finish(r, 200) /\ faults' = faults
        BY <1>9, <3>1 DEF ListReadDir
      <4> HIDE DEF new
      <4>2. found'[r] = new
        BY <4>1 DEF TreeInv
      <4> QED
        BY <4>1, <4>2
    <3>2. CASE Stat(tree, Path(r)) # "dir"
      BY <1>9, <3>2 DEF ListReadDir, Reply
    <3> QED
      BY <3>1, <3>2
  <2> QED
    BY <1>2, <2>1, <2>2, GoOnMoves
<1>10. CASE WalkStart(r)
  <2>1. at[r] \in Active /\ body[r].op = "walk" /\ Watch
    BY <1>10 DEF WalkStart, Active
  <2>2. Proceed(r, "walking") /\ found' = found /\ todo' = [todo EXCEPT ![r] = <<Path(r)>>]
    BY <1>10 DEF WalkStart
  <2>3. todo' = [todo EXCEPT ![r] = todo'[r]]
    BY <2>2 DEF TreeInv
  <2> QED
    BY <1>4, <2>1, <2>2, <2>3, GoOnMoves
<1>11. CASE WalkVisit(r)
  <2>1. at[r] \in Active /\ at[r] # "moving" /\ Watch
    BY <1>11 DEF WalkVisit, Active
  <2>2. CASE Reply(r, 500)
    BY <1>2, <2>1, <2>2, GoOnMoves DEF Reply
  <2>3. CASE ~Reply(r, 500)
    <3> DEFINE p     == Head(todo[r])
               names == SetToSeq(Children(tree, Resolve(tree, p)))
               fnd   == found[r] \cup ({p} \ {Path(r)})
               next  == (IF Stat(tree, p) = "dir" THEN [i \in DOMAIN names |-> Append(p, names[i])] ELSE <<>>)
                          \o Tail(todo[r])
    <3>1. /\ found' = [found EXCEPT ![r] = fnd] /\ todo' = [todo EXCEPT ![r] = next]
          /\ UNCHANGED <<life, at, body, answer, faults>>
      BY <1>11, <2>3 DEF WalkVisit
    <3> HIDE DEF fnd, next
    <3>2. found'[r] = fnd /\ todo'[r] = next
      BY <3>1 DEF TreeInv
    <3> QED
      BY <2>1, <3>1, <3>2, GoOnMoves
  <2> QED
    BY <2>2, <2>3
<1>12. CASE WalkEnd(r)
  <2>1. at[r] \in Active /\ Watch /\ Reply(r, 200)
    BY <1>12 DEF WalkEnd, Active
  <2> QED
    BY <1>2, <2>1, GoOnMoves DEF Reply
<1>13. CASE DeleteRemove(r)
  <2>1. at[r] \in Active /\ body[r].op = "delete" /\ Watch
    BY <1>1, <1>13 DEF DeleteRemove, Active, Placed
  <2>2. CASE \E s : Reply(r, s)
    BY <1>2, <2>1, <2>2, GoOnMoves DEF Reply
  <2>3. CASE ~ \E s : Reply(r, s)
    <3> DEFINE new == <<Frame(tree, Resolve(tree, Front(Path(r))), Last(Path(r)))>>
    <3>1. todo' = [todo EXCEPT ![r] = new] /\ Proceed(r, "sweeping") /\ found' = found
      BY <1>13, <2>3 DEF DeleteRemove
    <3> HIDE DEF new
    <3>2. todo'[r] = new
      BY <3>1 DEF TreeInv
    <3> QED
      BY <1>4, <2>1, <3>1, <3>2, GoOnMoves
  <2> QED
    BY <2>2, <2>3
<1>14. CASE DeleteEntry(r)
  <2>1. at[r] \in Active /\ at[r] # "moving" /\ Watch
    BY <1>14 DEF DeleteEntry, Active
  <2>2. \E new : todo' = [todo EXCEPT ![r] = new]
    BY <1>14 DEF DeleteEntry
  <2>3. todo' = [todo EXCEPT ![r] = todo'[r]]
    BY <2>2 DEF TreeInv
  <2>4. found' = found /\ UNCHANGED <<life, at, body, answer, faults>>
    BY <1>14 DEF DeleteEntry
  <2> QED
    BY <2>1, <2>3, <2>4, GoOnMoves
<1>15. CASE DeleteDir(r)
  <2>1. at[r] \in Active /\ at[r] # "moving" /\ Watch
    BY <1>15 DEF DeleteDir, Active
  <2>2. CASE \E s : Reply(r, s)
    BY <1>2, <2>1, <2>2, GoOnMoves DEF Reply
  <2>3. CASE ~ \E s : Reply(r, s)
    <3>1. /\ todo' = [todo EXCEPT ![r] = Tail(@)]
          /\ UNCHANGED <<life, at, body, answer, found, faults>>
      BY <1>15, <2>3 DEF DeleteDir
    <3>2. todo' = [todo EXCEPT ![r] = todo'[r]]
      BY <3>1 DEF TreeInv
    <3> QED
      BY <2>1, <3>1, <3>2, GoOnMoves
  <2> QED
    BY <2>2, <2>3
<1>16. CASE MoveMkdir(r)
  <2>1. at[r] \in Active /\ body[r].op = "move" /\ Watch
    BY <1>1, <1>16 DEF MoveMkdir, Active, Placed
  <2>2. \/ Proceed(r, "renaming") /\ UNCHANGED <<found, todo>>
        \/ Reply(r, 500)
    BY <1>16 DEF MoveMkdir, locals
  <2> QED
    BY <1>2, <1>4, <2>1, <2>2, GoOnMoves DEF Reply
<1>17. CASE MoveRename(r)
  <2>1. at[r] \in Active /\ Watch
    BY <1>17 DEF MoveRename, Active
  <2>2. \E s : Reply(r, s)
    BY <1>17 DEF MoveRename
  <2> QED
    BY <1>2, <2>1, <2>2, GoOnMoves DEF Reply
<1> QED
  BY <1>3, <1>5, <1>6, <1>7, <1>8, <1>9, <1>10, <1>11, <1>12, <1>13, <1>14, <1>15, <1>16, <1>17 DEF Handler

-----------------------------------------------------------------------------
(* What a step does to the directory *)

\* The paths of a body past the checks.
LEMMA BodyPaths ==
  ASSUME NEW r \in Requests, NEW b \in Bodies[r], ~Rejected(b)
  PROVE  /\ b.path \in RawPath /\ Accepted(b.path)
         /\ Abs(b.path) \in Seq(Segment) /\ Abs(b.path) # <<>> /\ Front(Abs(b.path)) \in Seq(Segment)
         /\ b.op = "move" => /\ b.to \in RawPath /\ Accepted(b.to)
                             /\ Abs(b.to) \in Seq(Segment) /\ Abs(b.to) # <<>> /\ Front(Abs(b.to)) \in Seq(Segment)
<1>1. b \in [op : Ops, path : RawPath, to : RawPath, size : Nat]
  BY BodiesAssumption
<1>2. b.path \in RawPath /\ b.to \in RawPath
  BY <1>1
<1>3. Accepted(b.path) /\ (b.op = "move" => Accepted(b.to))
  BY DEF Rejected, Creatable
<1> QED
  BY <1>2, <1>3, AbsFacts

LEMMA ActivePaths ==
  ASSUME FileInv, TreeInv, NEW r \in Requests, at[r] \in Active
  PROVE  /\ Path(r) \in Seq(Segment) /\ Path(r) # <<>> /\ Front(Path(r)) \in Seq(Segment)
         /\ body[r].op = "move" => Target(r) \in Seq(Segment) /\ Target(r) # <<>> /\ Front(Target(r)) \in Seq(Segment)
<1>1. body[r] \in Bodies[r]
  BY DEF FileInv, HandlerTypes, Active
<1>2. ~Rejected(body[r])
  BY DEF TreeInv, Placed
<1> QED
  BY <1>1, <1>2, BodyPaths DEF Path, Target

\* From one directory to the next: what is well formed stays so, no path leads
\* to another node, and no other request's directories are made.
Evolves(t, u, r) ==
  /\ WellLinked(u) /\ IsFiniteSet(u) /\ Keeps(t, u) /\ (Distinct(t) => Distinct(u))
  /\ \A q \in Requests : q # r /\ Fresh(t, q) => Fresh(u, q)

LEMMA MkdirEvolves ==
  ASSUME NEW t, WellLinked(t), IsFiniteSet(t), NEW p \in Seq(Segment), NEW r \in Requests, Fresh(t, r),
         CanMakeDirs(t, p)
  PROVE  Evolves(t, MakeDirs(t, p, r), r)
<1> DEFINE u == MakeDirs(t, p, r)
<1>1. \A i \in 0 .. Len(p) - 1 : Along(t, p, i) \notin File
  BY CanMakeDirsFacts
<1>2. \A q \in Requests : q \in File \cup Nat
  BY DEF File
<1>3. /\ WellLinked(u) /\ Grows(t, u) /\ \A q \in File \cup Nat : q # r /\ Fresh(t, q) => Fresh(u, q)
      /\ IsFiniteSet(u)
  BY <1>1, <1>2, MakeDirsGrows
<1>5. Distinct(t) => Distinct(u)
  BY <1>1, <1>2, MakeDirsDistinct
<1> HIDE DEF u
<1>4. Keeps(t, u)
  BY <1>3, GrowsKeeps
<1> QED
  BY <1>2, <1>3, <1>4, <1>5 DEF Evolves, u

LEMMA UnlinkEvolves ==
  ASSUME NEW t, WellLinked(t), IsFiniteSet(t), NEW d, NEW n, NEW r
  PROVE  Evolves(t, Unlink(t, d, n), r) /\ Evolves(t, t, r)
<1>1. Unlink(t, d, n) \subseteq t
  BY DEF Unlink
<1>2. Distinct(t) => Distinct(Unlink(t, d, n))
  BY <1>1 DEF Distinct
<1> QED
  BY <1>1, <1>2, SubsetLinked, UnlinkKeeps DEF Evolves, Keeps

LEMMA HandlerTree ==
  ASSUME FileInv, TreeInv, NEW r \in Requests, Handler(r)
  PROVE  Evolves(tree, tree', r)
<1>1. WellLinked(tree) /\ IsFiniteSet(tree) /\ Distinct(tree) /\ (at[r] \in {"new", "moving"} => Fresh(tree, r)) /\ Placed(r)
  BY DEF TreeInv
<1>2. Evolves(tree, tree, r) /\ \A d, n : Evolves(tree, Unlink(tree, d, n), r)
  BY <1>1, UnlinkEvolves
<1>3. ASSUME NEW b \in Bodies[r], WriteMkdir(r, b)
      PROVE  Evolves(tree, tree', r)
  <2> DEFINE parent == Front(Abs(b.path))
  <2>1. ~Rejected(b) /\ at[r] = "new"
    BY <1>3 DEF WriteMkdir, Waiting
  <2>2. parent \in Seq(Segment)
    BY <2>1, BodyPaths
  <2>3. CASE CanMakeDirs(tree, parent)
    <3>1. tree' = MakeDirs(tree, parent, r)
      BY <1>3, <2>3 DEF WriteMkdir
    <3> QED
      BY <1>1, <2>1, <2>2, <2>3, <3>1, MkdirEvolves
  <2>4. CASE ~CanMakeDirs(tree, parent)
    <3>1. tree' = tree
      BY <1>3, <2>4 DEF WriteMkdir
    <3> QED
      BY <1>2, <3>1
  <2> QED
    BY <2>3, <2>4
<1>4. CASE WriteOpen(r)
  <2> DEFINE parent == Front(Path(r))
             node   == Resolve(tree, Path(r))
             file   == IF node = None THEN r ELSE node
  <2>1. at[r] \in Active
    BY <1>4 DEF WriteOpen, Active
  <2>2. CASE Stat(tree, parent) = "dir" /\ file \in File
    <3>1. tree' = tree \cup {<<Resolve(tree, parent), Last(Path(r)), file>>}
      BY <1>4, <2>2 DEF WriteOpen
    <3>2. Path(r) \in Seq(Segment) /\ Path(r) # <<>> /\ (file = node \/ node = None)
      BY <2>1, ActivePaths
    <3>3. /\ WellLinked(tree') /\ Grows(tree, tree') /\ IsFiniteSet(tree')
          /\ \A m \in File \cup Nat : Fresh(tree, m) => Fresh(tree', m)
      <4> HIDE DEF file
      <4> QED
        BY <1>1, <2>2, <3>1, <3>2, LinkFile
    <3>4. Keeps(tree, tree')
      BY <1>1, <3>3, GrowsKeeps
    <3>5. \A k, l \in tree' \ tree : k = l
      BY <3>1
    <3>6. Distinct(tree) => Distinct(tree')
      BY <1>1, <3>3, <3>5, GrowsDistinct
    <3> QED
      BY <3>3, <3>4, <3>6 DEF Evolves, File
  <2>3. CASE ~(Stat(tree, parent) = "dir" /\ file \in File)
    <3>1. tree' = tree
      BY <1>4, <2>3 DEF WriteOpen, disk
    <3> QED
      BY <1>2, <3>1
  <2> QED
    BY <2>2, <2>3
<1>5. CASE MoveMkdir(r)
  <2> DEFINE parent == Front(Target(r))
  <2>1. at[r] = "moving" /\ at[r] \in Active /\ body[r].op = "move"
    BY <1>1, <1>5 DEF MoveMkdir, Active, Placed
  <2>2. parent \in Seq(Segment)
    BY <2>1, ActivePaths
  <2>3. CASE CanMakeDirs(tree, parent)
    <3>1. tree' = MakeDirs(tree, parent, r)
      BY <1>5, <2>3 DEF MoveMkdir
    <3> QED
      BY <1>1, <2>1, <2>2, <2>3, <3>1, MkdirEvolves
  <2>4. CASE ~CanMakeDirs(tree, parent)
    <3>1. tree' = tree
      BY <1>5, <2>4 DEF MoveMkdir
    <3> QED
      BY <1>2, <3>1
  <2> QED
    BY <2>3, <2>4
<1>6. CASE MoveRename(r)
  <2>1. at[r] \in Active /\ body[r].op = "move"
    BY <1>1, <1>6 DEF MoveRename, Active, Placed
  <2>2. CASE CanRename(tree, Path(r), Target(r))
    <3>1. tree' = Rename(tree, Path(r), Target(r))
      BY <1>6, <2>2 DEF MoveRename
    <3>2. /\ Path(r) \in Seq(Segment) /\ Path(r) # <<>>
          /\ Target(r) \in Seq(Segment) /\ Target(r) # <<>>
      BY <2>1, ActivePaths
    <3>3. /\ Keeps(tree, tree') /\ WellLinked(tree') /\ IsFiniteSet(tree')
          /\ \A m \in File \cup Nat : Fresh(tree, m) => Fresh(tree', m)
      BY <1>1, <2>2, <3>1, <3>2, RenameMoves
    <3>4. Distinct(tree')
      BY <1>1, <2>2, <3>1, <3>2, RenameLinks
    <3> QED
      BY <3>3, <3>4 DEF Evolves, File
  <2>3. CASE ~CanRename(tree, Path(r), Target(r))
    <3>1. tree' = tree
      BY <1>6, <2>3 DEF MoveRename
    <3> QED
      BY <1>2, <3>1
  <2> QED
    BY <2>2, <2>3
<1>7. CASE DeleteRemove(r)
  BY <1>2, <1>7 DEF DeleteRemove
<1>8. CASE DeleteEntry(r)
  <2>1. tree' = tree \/ \E d, n : tree' = Unlink(tree, d, n)
    BY <1>8 DEF DeleteEntry
  <2> QED
    BY <1>2, <2>1
<1>9. CASE DeleteDir(r)
  <2>1. tree' = tree \/ \E d, n : tree' = Unlink(tree, d, n)
    BY <1>9 DEF DeleteDir
  <2> QED
    BY <1>2, <2>1
<1>10. ASSUME NEW b \in Bodies[r],
              Refusal(r, b) \/ ReadStat(r, b) \/ ListStat(r, b) \/ DeleteStat(r, b) \/ MoveStat(r, b)
       PROVE  Evolves(tree, tree', r)
  <2>1. tree' = tree
    BY <1>10 DEF Refusal, ReadStat, ListStat, DeleteStat, MoveStat, disk
  <2> QED
    BY <1>2, <2>1
<1>11. CASE \/ ReadOpen(r) \/ ReadBlock(r) \/ WriteFill(r) \/ WriteShort(r)
            \/ ListReadDir(r) \/ WalkStart(r) \/ WalkVisit(r) \/ WalkEnd(r)
  <2>1. tree' = tree
    BY <1>11 DEF ReadOpen, ReadBlock, WriteFill, WriteShort, ListReadDir, WalkStart, WalkVisit, WalkEnd, disk
  <2> QED
    BY <1>2, <2>1
<1> QED
  BY <1>3, <1>4, <1>5, <1>6, <1>7, <1>8, <1>9, <1>10, <1>11 DEF Handler

\* A step that no handler takes: some requests may be lost, the others wait.
Waits(q) ==
  \/ Same(q)
  \/ /\ at'[q] = IF at[q] \in Active THEN "lost" ELSE at[q]
     /\ body'[q] = body[q] /\ answer'[q] = answer[q] /\ found'[q] = found[q]

LEMMA ProcessMoves ==
  ASSUME FileInv, TreeInv, Stop \/ StopCleanly \/ Die \/ Restart
  PROVE  /\ WellLinked(tree') /\ IsFiniteSet(tree') /\ Distinct(tree')
         /\ Grows(tree, tree') /\ Keeps(tree, tree')
         /\ \A r \in Requests : Waits(r) /\ (Fresh(tree, r) => Fresh(tree', r))
         /\ life' \in {"up", "draining", "down"} /\ faults' \in 0 .. MaxFaults
         /\ DOMAIN todo' = Requests /\ DOMAIN found' = Requests
         /\ Watch /\ UNCHANGED <<body, answer, last>>
<1>1. WellLinked(tree) /\ IsFiniteSet(tree) /\ Distinct(tree) /\ HandlerTypes /\ faults \in 0 .. MaxFaults
  BY DEF TreeInv, FileInv
<1>2. Grows(tree, tree) /\ Keeps(tree, tree)
  BY DEF Grows, Keeps
<1>3. CASE Stop \/ StopCleanly
  <2>1. /\ tree' = tree /\ UNCHANGED <<at, body, answer, locals, last>> /\ Watch
        /\ life' \in {"up", "draining", "down"} /\ faults' \in 0 .. MaxFaults
    BY <1>1, <1>3, BoundsAssumption DEF Stop, StopCleanly, disk
  <2> QED
    BY <1>1, <1>2, <2>1 DEF TreeInv, Waits, Same, locals
<1>4. CASE Die
  <2>1. /\ tree' = tree /\ UNCHANGED <<body, answer, found, last>> /\ Watch
        /\ life' = "down" /\ faults' \in 0 .. MaxFaults /\ DOMAIN todo' = Requests
        /\ \A q \in Requests : at'[q] = IF at[q] \in Active THEN "lost" ELSE at[q]
    BY <1>1, <1>4, BoundsAssumption DEF Die, disk
  <2> QED
    BY <1>1, <1>2, <2>1 DEF TreeInv, Waits, Same
<1>5. CASE Restart
  <2>1. /\ tree' = MakeDirs(tree, <<Root>>, faults) /\ life' = "up" /\ faults' = faults
        /\ UNCHANGED <<at, body, answer, locals, last>> /\ Watch
    BY <1>5 DEF Restart
  <2>2. \A r \in Requests : Waits(r)
    BY <2>1 DEF Waits, Same, locals
  <2> DEFINE p == <<Root>>
  <2>3. p \in Seq(Segment) /\ Len(p) = 1 /\ faults \in File \cup Nat
    BY <1>1, BoundsAssumption DEF Segment
  <2>4. \A i \in 0 .. Len(p) - 1 : i = 0 /\ i \in 0 .. Len(p)
    BY <2>3
  <2>5. tree' = MakeDirs(tree, p, faults)
    BY <2>1
  <2> HIDE DEF p
  <2>6. \A i \in 0 .. Len(p) - 1 : Along(tree, p, i) \notin File
    <3>1. Along(tree, p, 0) = Top
      BY <2>3, AlongSteps
    <3> QED
      BY <2>4, <3>1, NodesAssumption
  <2>7. \A r \in Requests : r \in File \cup Nat /\ r # faults
    BY <1>1, NodesAssumption, BoundsAssumption DEF File
  <2>8. /\ WellLinked(tree') /\ Grows(tree, tree') /\ IsFiniteSet(tree')
        /\ \A q \in File \cup Nat : q # faults /\ Fresh(tree, q) => Fresh(tree', q)
    BY <1>1, <2>3, <2>5, <2>6, MakeDirsGrows
  <2>9. Keeps(tree, tree')
    BY <1>1, <2>8, GrowsKeeps
  <2>10. Distinct(tree')
    BY <1>1, <2>3, <2>5, <2>6, MakeDirsDistinct
  <2> QED
    BY <1>1, <2>1, <2>2, <2>7, <2>8, <2>9, <2>10 DEF TreeInv, locals
<1> QED
  BY <1>3, <1>4, <1>5

LEMMA TreeNextInv == FileInv /\ TreeInv /\ [Next]_vars => TreeInv' /\ Keeps(tree, tree')
<1> SUFFICES ASSUME FileInv, TreeInv, [Next]_vars
             PROVE  TreeInv' /\ Keeps(tree, tree')
  OBVIOUS
<1>1. ASSUME NEW r \in Requests, Handler(r)
      PROVE  TreeInv' /\ Keeps(tree, tree')
  <2>1. Moved(r) /\ Evolves(tree, tree', r)
    BY <1>1, HandlerMoves, HandlerTree
  <2>2. ASSUME NEW q \in Requests
        PROVE  (Placed(q) /\ (at[q] \in {"new", "moving"} => Fresh(tree, q)))'
    <3>1. Placed(q) /\ (at[q] \in {"new", "moving"} => Fresh(tree, q))
      BY DEF TreeInv
    <3>2. CASE q = r
      <4>1. at'[r] = "moving" => tree' = tree /\ at[r] = "new"
        BY <2>1 DEF Moved
      <4>2. at'[r] # "new" /\ Placed(r)'
        BY <2>1 DEF Moved
      <4>3. at'[r] = "moving" => Fresh(tree, r)'
        BY <3>1, <3>2, <4>1 DEF Fresh
      <4> QED
        BY <3>2, <4>2, <4>3
    <3>3. CASE q # r
      <4>1. at'[q] = at[q] /\ body'[q] = body[q]
        BY <2>1, <3>3 DEF Moved, Same
      <4>2. Fresh(tree, q) => Fresh(tree', q)
        BY <2>1, <3>3 DEF Evolves
      <4>3. Placed(q)'
        BY <3>1, <4>1 DEF Placed
      <4>4. Fresh(tree', q) => Fresh(tree, q)'
        BY DEF Fresh
      <4> QED
        BY <3>1, <4>1, <4>2, <4>3, <4>4
    <3> QED
      BY <3>2, <3>3
  <2>3. life' \in {"up", "draining", "down"}
    BY <2>1 DEF Moved, TreeInv
  <2> QED
    BY <2>1, <2>2, <2>3 DEF TreeInv, Moved, Evolves, WellLinked, Distinct
<1>2. CASE Stop \/ StopCleanly \/ Die \/ Restart
  <2>1. /\ WellLinked(tree') /\ IsFiniteSet(tree') /\ Distinct(tree') /\ Keeps(tree, tree')
        /\ \A r \in Requests : Waits(r) /\ (Fresh(tree, r) => Fresh(tree', r))
        /\ life' \in {"up", "draining", "down"} /\ faults' \in 0 .. MaxFaults
        /\ DOMAIN todo' = Requests /\ DOMAIN found' = Requests
    BY <1>2, ProcessMoves
  <2>2. ASSUME NEW q \in Requests
        PROVE  (Placed(q) /\ (at[q] \in {"new", "moving"} => Fresh(tree, q)))'
    <3>1. Placed(q) /\ (at[q] \in {"new", "moving"} => Fresh(tree, q))
      BY DEF TreeInv
    <3>2. (at'[q] = at[q] /\ body'[q] = body[q]) \/ at'[q] = "lost"
      BY <2>1 DEF Waits, Same
    <3>3. Placed(q)'
      BY <3>1, <3>2 DEF Placed, Active
    <3>4. Fresh(tree', q) => Fresh(tree, q)'
      BY DEF Fresh
    <3> QED
      BY <2>1, <3>1, <3>2, <3>3, <3>4
  <2> QED
    BY <2>1, <2>2 DEF TreeInv, WellLinked, Distinct
<1>3. CASE UNCHANGED vars
  <2>1. WellLinked(tree)' /\ Distinct(tree)'
    BY <1>3 DEF vars, disk, TreeInv, WellLinked, Distinct
  <2> QED
    BY <1>3, <2>1 DEF vars, disk, locals, TreeInv, Placed, Fresh, Keeps
<1> QED
  BY <1>1, <1>2, <1>3 DEF Next

\* Types of the whole service.
THEOREM FileTypes == Spec => []TypeOK
<1>1. Init => FileInv /\ TreeInv
  BY FileInitInv, TreeInitInv
<1>2. FileInv /\ TreeInv /\ [Next]_vars => (FileInv /\ TreeInv)'
  BY FileNextInv, TreeNextInv
<1>3. FileInv /\ TreeInv => TypeOK
  <2> SUFFICES ASSUME FileInv, TreeInv
               PROVE  TypeOK
    OBVIOUS
  <2>1. \A l \in tree : l[2] \in Names \cup {Root} /\ l[1] \notin File
    BY DEF TreeInv, WellLinked, Segment
  <2>2. \A r \in Requests : body[r] \in Bodies[r] \cup {None}
    BY DEF FileInv, HandlerTypes, TreeInv, Placed
  <2> QED
    BY <2>1, <2>2 DEF FileInv, HandlerTypes, TreeInv, TypeOK
<1> QED
  BY <1>1, <1>2, <1>3, PTL DEF Spec

-----------------------------------------------------------------------------
(* What answers say *)

Watched(r) == at[r] \in Active => View(tree, body[r]) \in saw[r]

\* The frames of a delete: the outermost is the entry it was asked to remove.
Framed(r) ==
  at[r] = "sweeping" =>
    /\ todo[r] \in Seq(Range(todo[r])) /\ todo[r] # <<>>
    /\ \A i \in DOMAIN todo[r] : DOMAIN todo[r][i] = {"parent", "name", "dir", "left"}
    /\ Last(todo[r]).name = Last(Path(r))

\* What a handler has seen by each of its places.  A delete whose path no longer
\* leads through the directory it works in has seen its path broken.
Told(r) ==
  /\ at[r] \in {"reading", "filling"} => Seen(r, {"file"})
  /\ at[r] \in {"listing", "walking"} => Seen(r, {"dir"})
  /\ at[r] = "sweeping" =>
       Seen(r, {"none", "notdir"}) \/ Resolve(tree, Front(Path(r))) = Last(todo[r]).parent

Truth(r) ==
  at[r] = "done" =>
    /\ body[r].op = "read" /\ answer[r] = 404 => Seen(r, {"none", "notdir", "dir"})
    /\ body[r].op \in {"list", "walk"} /\ answer[r] = 404 => Seen(r, {"none", "notdir", "file"})
    /\ body[r].op = "delete" /\ answer[r] \in {204, 404} => Seen(r, {"none", "notdir"})
    /\ body[r].op = "move" /\ answer[r] = 404 => Seen(r, {"none"})
    /\ body[r].op = "move" /\ answer[r] = 201 =>
         \E v, w \in saw[r] : v.path \in {"file", "dir"} /\ w.to \in {"file", "dir"}
    /\ body[r].op \in {"read", "write"} /\ answer[r] \in {200, 201} => Seen(r, {"file"})
    /\ body[r].op \in {"list", "walk"} /\ answer[r] = 200 => Seen(r, {"dir"})

Answered(r) == Watched(r) /\ Framed(r) /\ Told(r) /\ Truth(r)

LEMMA ViewFields ==
  ASSUME NEW t, NEW b
  PROVE  /\ View(t, b).path = Stat(t, Abs(b.path))
         /\ b.op = "move" => View(t, b).to = Stat(t, Abs(b.to))
         /\ b.op \in {"list", "walk"} => View(t, b).below = Below(t, Abs(b.path), b.op = "walk")
BY DEF View

LEMMA WatchSees ==
  ASSUME Watch, NEW r \in Requests
  PROVE  /\ saw[r] \subseteq saw'[r] /\ (at[r] \in {"done", "lost"} => saw'[r] = saw[r])
         /\ (at'[r] # "new" /\ at[r] \notin {"done", "lost"} /\ answer'[r] \notin {400, 413}) =>
              View(tree', body'[r]) \in saw'[r] /\ (at[r] = "new" => View(tree, body'[r]) \in saw'[r])
BY DEF Watch

\* A request that waits: the directory may change around it.
LEMMA WaitsAnswered ==
  ASSUME FileInv, TreeInv, Watch, Keeps(tree, tree'), NEW r \in Requests, Waits(r), Answered(r)
  PROVE  Answered(r)'
<1>1. /\ saw[r] \subseteq saw'[r] /\ (at[r] \in {"done", "lost"} => saw'[r] = saw[r])
      /\ (at'[r] # "new" /\ at[r] \notin {"done", "lost"} /\ answer'[r] \notin {400, 413}) =>
           View(tree', body'[r]) \in saw'[r]
  BY WatchSees
<1>2. \A kinds : Seen(r, kinds) => Seen(r, kinds)'
  BY <1>1 DEF Seen
<1>3. CASE at'[r] \in Active
  <2>1. Same(r) /\ at[r] \in Active
    BY <1>3 DEF Waits, Same, Active
  <2>2. answer'[r] = 0 /\ body'[r] = body[r] /\ at'[r] = at[r] /\ todo'[r] = todo[r]
    BY <2>1 DEF FileInv, Phases, Same, Active
  <2>3. View(tree', body'[r]) \in saw'[r]
    BY <1>1, <2>1, <2>2 DEF Active
  <2>4. Watched(r)'
    BY <2>3 DEF Watched
  <2>5. Framed(r)'
    BY <2>2 DEF Answered, Framed, Path
  <2>6. ASSUME at[r] = "sweeping"
        PROVE  Seen(r, {"none", "notdir"})' \/ Resolve(tree', Front(Path(r))) = Last(todo[r]).parent
    <3>1. Path(r) \in Seq(Segment) /\ Path(r) # <<>>
      BY <2>1, ActivePaths
    <3>2. \/ Resolve(tree', Front(Path(r))) = Resolve(tree, Front(Path(r)))
          \/ Resolve(tree, Path(r)) = None \/ Resolve(tree', Path(r)) = None
      BY <3>1 DEF Keeps
    <3>3. CASE Resolve(tree, Path(r)) = None
      <4>1. View(tree, body[r]) \in saw[r]
        BY <2>1 DEF Answered, Watched
      <4>2. View(tree, body[r]).path \in {"none", "notdir"}
        BY <3>3, ViewFields, StatFacts DEF Path
      <4> QED
        BY <1>2, <4>1, <4>2 DEF Seen
    <3>4. CASE Resolve(tree', Path(r)) = None
      <4>1. View(tree', body'[r]).path \in {"none", "notdir"}
        BY <2>2, <3>4, ViewFields, StatFacts DEF Path
      <4> QED
        BY <2>3, <4>1 DEF Seen
    <3> QED
      BY <1>2, <2>6, <3>2, <3>3, <3>4 DEF Answered, Told
  <2>7. Told(r)'
    <3>1. Path(r)' = Path(r)
      BY <2>2 DEF Path
    <3> QED
      BY <1>2, <2>2, <2>6, <3>1 DEF Answered, Told
  <2> QED
    BY <1>3, <2>4, <2>5, <2>7 DEF Answered, Truth, Active
<1>4. CASE at'[r] \notin Active
  <2>1. Watched(r)' /\ Framed(r)' /\ Told(r)'
    BY <1>4 DEF Watched, Framed, Told, Active
  <2>2. at'[r] = "done" => at[r] = "done" /\ body'[r] = body[r] /\ answer'[r] = answer[r]
    BY DEF Waits, Same
  <2>3. Truth(r)'
    BY <1>1, <2>2 DEF Answered, Truth, Seen
  <2> QED
    BY <2>1, <2>3 DEF Answered
<1> QED
  BY <1>3, <1>4

\* A handler that answers or goes on: what is left to show of it.
LEMMA MovesAnswered ==
  ASSUME FileInv, FileInv', NEW r \in Requests, Moved(r), Answered(r)
  PROVE  /\ at'[r] \in Active => Watched(r)' /\ Truth(r)' /\ View(tree', body'[r]) \in saw'[r]
         /\ at'[r] \in Active \ {"reading", "filling", "listing", "walking", "sweeping"} => Answered(r)'
         /\ at'[r] = "done" => (Truth(r)' => Answered(r)')
         /\ at'[r] = "done" /\ answer'[r] \in {400, 413, 500} => Answered(r)'
         /\ at'[r] = "done" /\ answer'[r] \notin {400, 413} =>
              View(tree', body'[r]) \in saw'[r] /\ (at[r] = "new" => View(tree, body'[r]) \in saw'[r])
         /\ \A kinds : Seen(r, kinds) => Seen(r, kinds)'
<1>1. Watch /\ at[r] \notin {"done", "lost"} /\ at'[r] \notin {"new", "lost"}
  BY DEF Moved
<1>2. /\ saw[r] \subseteq saw'[r]
      /\ answer'[r] \notin {400, 413} =>
           View(tree', body'[r]) \in saw'[r] /\ (at[r] = "new" => View(tree, body'[r]) \in saw'[r])
  BY <1>1, WatchSees
<1>3. at'[r] \in Active => answer'[r] = 0 /\ at'[r] # "done"
  BY DEF FileInv, Phases, Active
<1>4. at'[r] \in Active => Watched(r)' /\ Truth(r)' /\ View(tree', body'[r]) \in saw'[r]
  BY <1>2, <1>3 DEF Watched, Truth
<1>5. at'[r] \notin {"reading", "filling", "listing", "walking", "sweeping"} => Framed(r)' /\ Told(r)'
  BY DEF Framed, Told
<1>6. at'[r] = "done" => Watched(r)' /\ Framed(r)' /\ Told(r)'
  BY DEF Watched, Framed, Told, Active
<1>7. answer'[r] \in {400, 413, 500} => Truth(r)'
  BY DEF Truth
<1>8. \A kinds : Seen(r, kinds) => Seen(r, kinds)'
  BY <1>2 DEF Seen
<1> QED
  BY <1>2, <1>4, <1>5, <1>6, <1>7, <1>8 DEF Answered

\* The checks before the first system call.
LEMMA BeginAnswered ==
  ASSUME FileInv, FileInv', TreeInv, NEW r \in Requests, Answered(r), NEW b \in Bodies[r],
         \/ Refusal(r, b) \/ ReadStat(r, b) \/ WriteMkdir(r, b)
         \/ ListStat(r, b) \/ DeleteStat(r, b) \/ MoveStat(r, b)
  PROVE  Answered(r)'
<1>1. HandlerTypes /\ at[r] = "new" /\ Moved(r)
  BY BeginMoves DEF FileInv, Refusal, ReadStat, WriteMkdir, ListStat, DeleteStat, MoveStat, Waiting
<1>2. /\ at'[r] \in Active => Watched(r)' /\ Truth(r)' /\ View(tree', body'[r]) \in saw'[r]
      /\ at'[r] \in Active \ {"reading", "filling", "listing", "walking", "sweeping"} => Answered(r)'
      /\ at'[r] = "done" => (Truth(r)' => Answered(r)')
      /\ at'[r] = "done" /\ answer'[r] \in {400, 413, 500} => Answered(r)'
      /\ at'[r] = "done" /\ answer'[r] \notin {400, 413} =>
           View(tree', body'[r]) \in saw'[r] /\ (at[r] = "new" => View(tree, body'[r]) \in saw'[r])
  BY <1>1, MovesAnswered
<1>3. ASSUME NEW s, Refuse(r, b, s)
      PROVE  at'[r] = "done" /\ answer'[r] = s /\ body'[r] = b
  BY <1>1, <1>3 DEF HandlerTypes, Refuse
<1>4. ASSUME NEW x, Receive(r, b, x)
      PROVE  at'[r] = x /\ body'[r] = b
  BY <1>1, <1>4 DEF HandlerTypes, Receive
<1>5. ASSUME Refuse(r, b, 404), NEW kinds, Stat(tree, Abs(b.path)) \in kinds
      PROVE  at'[r] = "done" /\ answer'[r] = 404 /\ body'[r] = b /\ Seen(r, kinds)'
  <2>1. View(tree, b) \in saw'[r] /\ View(tree, b).path \in kinds
    BY <1>1, <1>2, <1>3, <1>5, ViewFields
  <2> QED
    BY <1>3, <1>5, <2>1 DEF Seen
<1>6. CASE Refusal(r, b)
  BY <1>2, <1>3, <1>6 DEF Refusal
<1>7. CASE ReadStat(r, b)
  <2>1. CASE Stat(tree, Abs(b.path)) # "file"
    <3>1. Refuse(r, b, 404) /\ b.op = "read"
      BY <1>7, <2>1 DEF ReadStat
    <3>2. Stat(tree, Abs(b.path)) \in {"none", "notdir", "dir"}
      BY <2>1, StatFacts
    <3>3. Truth(r)'
      BY <1>5, <3>1, <3>2 DEF Truth
    <3> QED
      BY <1>2, <1>3, <3>1, <3>3
  <2>2. CASE Stat(tree, Abs(b.path)) = "file"
    <3>1. Refuse(r, b, 413) \/ Receive(r, b, "opening")
      BY <1>7, <2>2 DEF ReadStat
    <3> QED
      BY <1>2, <1>3, <1>4, <3>1 DEF Active
  <2> QED
    BY <2>1, <2>2
<1>8. CASE WriteMkdir(r, b)
  <2>1. Refuse(r, b, 500) \/ Receive(r, b, "opening")
    BY <1>8 DEF WriteMkdir
  <2> QED
    BY <1>2, <1>3, <1>4, <2>1 DEF Active
<1>9. CASE ListStat(r, b)
  <2>1. b.op \in {"list", "walk"} /\ tree' = tree
    BY <1>9 DEF ListStat, disk
  <2>2. CASE Stat(tree, Abs(b.path)) = "dir"
    <3>1. Receive(r, b, "listing")
      BY <1>9, <2>2 DEF ListStat
    <3>2. at'[r] = "listing" /\ View(tree', b) \in saw'[r]
      BY <1>2, <1>4, <3>1 DEF Active
    <3>3. View(tree', b).path = "dir"
      BY <2>1, <2>2, ViewFields
    <3>4. Told(r)' /\ Framed(r)'
      BY <3>2, <3>3 DEF Told, Framed, Seen
    <3> QED
      BY <1>2, <3>2, <3>4 DEF Answered, Active
  <2>3. CASE Stat(tree, Abs(b.path)) # "dir"
    <3>1. Refuse(r, b, 404)
      BY <1>9, <2>3 DEF ListStat
    <3>2. Stat(tree, Abs(b.path)) \in {"none", "notdir", "file"}
      BY <2>3, StatFacts
    <3>3. Truth(r)'
      BY <1>5, <2>1, <3>1, <3>2 DEF Truth
    <3> QED
      BY <1>2, <1>3, <3>1, <3>3
  <2> QED
    BY <2>2, <2>3
<1>10. CASE DeleteStat(r, b)
  <2>1. CASE Stat(tree, Abs(b.path)) = "none"
    <3>1. Refuse(r, b, 404) /\ b.op = "delete" /\ Stat(tree, Abs(b.path)) \in {"none", "notdir"}
      BY <1>10, <2>1 DEF DeleteStat
    <3>2. Truth(r)'
      BY <1>5, <3>1 DEF Truth
    <3> QED
      BY <1>2, <1>3, <3>1, <3>2
  <2>2. CASE Stat(tree, Abs(b.path)) # "none"
    <3>1. Receive(r, b, "removing")
      BY <1>10, <2>2 DEF DeleteStat
    <3> QED
      BY <1>2, <1>4, <3>1 DEF Active
  <2> QED
    BY <2>1, <2>2
<1>11. CASE MoveStat(r, b)
  <2>1. CASE Stat(tree, Abs(b.path)) = "none"
    <3>1. Refuse(r, b, 404) /\ b.op = "move" /\ Stat(tree, Abs(b.path)) \in {"none"}
      BY <1>11, <2>1 DEF MoveStat
    <3>2. Truth(r)'
      BY <1>5, <3>1 DEF Truth
    <3> QED
      BY <1>2, <1>3, <3>1, <3>2
  <2>2. CASE Stat(tree, Abs(b.path)) # "none"
    <3>1. Receive(r, b, "moving")
      BY <1>11, <2>2 DEF MoveStat
    <3> QED
      BY <1>2, <1>4, <3>1 DEF Active
  <2> QED
    BY <2>1, <2>2
<1> QED
  BY <1>6, <1>7, <1>8, <1>9, <1>10, <1>11

\* Reads, writes and listings.
LEMMA FileAnswered ==
  ASSUME FileInv, FileInv', TreeInv, NEW r \in Requests, Moved(r), Answered(r),
         \/ ReadOpen(r) \/ ReadBlock(r) \/ WriteOpen(r) \/ WriteFill(r) \/ WriteShort(r)
         \/ ListReadDir(r) \/ WalkStart(r) \/ WalkVisit(r) \/ WalkEnd(r)
  PROVE  Answered(r)'
<1>1. HandlerTypes /\ Placed(r)
  BY DEF FileInv, TreeInv
<1>2. /\ at'[r] \in Active => Watched(r)' /\ Truth(r)' /\ View(tree', body'[r]) \in saw'[r]
      /\ at'[r] = "done" => (Truth(r)' => Answered(r)')
      /\ at'[r] = "done" /\ answer'[r] \in {400, 413, 500} => Answered(r)'
      /\ \A kinds : Seen(r, kinds) => Seen(r, kinds)'
  BY MovesAnswered
<1>3. ASSUME NEW s, Finish(r, s) \/ Reply(r, s)
      PROVE  at'[r] = "done" /\ answer'[r] = s /\ body'[r] = body[r]
  BY <1>1, <1>3 DEF HandlerTypes, Finish, Reply
<1>4. ASSUME NEW x, Proceed(r, x)
      PROVE  at'[r] = x /\ body'[r] = body[r]
  BY <1>1, <1>4 DEF HandlerTypes, Proceed
<1>5. ASSUME at'[r] \in Active \ {"sweeping"},
             at'[r] \in {"reading", "filling"} => Seen(r, {"file"})',
             at'[r] \in {"listing", "walking"} => Seen(r, {"dir"})'
      PROVE  Answered(r)'
  BY <1>2, <1>5 DEF Answered, Framed, Told
<1>6. ASSUME at[r] \in {"reading", "filling"}, body[r].op \in {"read", "write"}, NEW s \in {200, 201, 500},
             Finish(r, s) \/ Reply(r, s)
      PROVE  Answered(r)'
  <2>1. Seen(r, {"file"})'
    BY <1>2, <1>6 DEF Answered, Told
  <2> QED
    BY <1>2, <1>3, <1>6, <2>1 DEF Truth
<1>7. ASSUME at[r] \in {"listing", "walking"}, body[r].op \in {"list", "walk"}, NEW s \in {200, 500},
             Finish(r, s) \/ Reply(r, s)
      PROVE  Answered(r)'
  <2>1. Seen(r, {"dir"})'
    BY <1>2, <1>7 DEF Answered, Told
  <2> QED
    BY <1>2, <1>3, <1>7, <2>1 DEF Truth
<1>8. CASE ReadOpen(r)
  <2>1. CASE Stat(tree, Path(r)) = "file"
    <3>1. Proceed(r, "reading") /\ tree' = tree
      BY <1>8, <2>1 DEF ReadOpen, disk
    <3>2. at'[r] = "reading" /\ View(tree', body'[r]) \in saw'[r]
      BY <1>2, <1>4, <3>1 DEF Active
    <3>3. View(tree', body'[r]).path = "file"
      BY <1>4, <2>1, <3>1, ViewFields DEF Path
    <3> QED
      BY <1>5, <3>2, <3>3 DEF Seen, Active
  <2>2. CASE Stat(tree, Path(r)) # "file"
    BY <1>2, <1>3, <1>8, <2>2 DEF ReadOpen
  <2> QED
    BY <2>1, <2>2
<1>9. CASE ReadBlock(r)
  <2>1. at[r] = "reading" /\ body[r].op = "read"
    BY <1>1, <1>9 DEF ReadBlock, Placed
  <2>2. CASE Reply(r, 200)
    BY <1>6, <2>1, <2>2
  <2>3. CASE ~Reply(r, 200)
    <3>1. at' = at
      BY <1>9, <2>3 DEF ReadBlock
    <3> QED
      BY <1>2, <1>5, <2>1, <3>1 DEF Answered, Told, Active
  <2> QED
    BY <2>2, <2>3
<1>10. CASE WriteOpen(r)
  <2> DEFINE parent == Front(Path(r))
             node   == Resolve(tree, Path(r))
             file   == IF node = None THEN r ELSE node
  <2>1. at[r] \in Active
    BY <1>10 DEF WriteOpen, Active
  <2>2. CASE Stat(tree, parent) = "dir" /\ file \in File
    <3>1. tree' = tree \cup {<<Resolve(tree, parent), Last(Path(r)), file>>} /\ Proceed(r, "filling")
      BY <1>10, <2>2 DEF WriteOpen
    <3>2. Path(r) \in Seq(Segment) /\ Path(r) # <<>> /\ (file = node \/ node = None)
      BY <2>1, ActivePaths
    <3>3. Resolve(tree', Path(r)) = file
      <4>1. WellLinked(tree)
        BY DEF TreeInv
      <4> HIDE DEF file
      <4> QED
        BY <2>2, <3>1, <3>2, <4>1, LinkFile
    <3>4. at'[r] = "filling" /\ View(tree', body'[r]) \in saw'[r] /\ body'[r] = body[r]
      BY <1>2, <1>4, <3>1 DEF Active
    <3>5. View(tree', body'[r]).path = "file"
      BY <2>2, <3>3, <3>4, ViewFields, StatFacts DEF Path
    <3> QED
      BY <1>5, <3>4, <3>5 DEF Seen, Active
  <2>3. CASE ~(Stat(tree, parent) = "dir" /\ file \in File)
    <3>1. Reply(r, 500)
      BY <1>10, <2>3 DEF WriteOpen
    <3> QED
      BY <1>2, <1>3, <3>1
  <2> QED
    BY <2>2, <2>3
<1>11. CASE WriteFill(r) \/ WriteShort(r)
  <2>1. at[r] = "filling" /\ body[r].op = "write" /\ (Reply(r, 201) \/ Finish(r, 500))
    BY <1>1, <1>11 DEF WriteFill, WriteShort, Placed
  <2> QED
    BY <1>6, <2>1
<1>12. CASE ListReadDir(r)
  <2>1. at[r] = "listing" /\ body[r].op = "list" /\ (Finish(r, 200) \/ Reply(r, 500))
    BY <1>12 DEF ListReadDir
  <2> QED
    BY <1>7, <2>1
<1>13. CASE WalkStart(r)
  <2>1. at[r] = "listing" /\ Proceed(r, "walking")
    BY <1>13 DEF WalkStart
  <2>2. Seen(r, {"dir"})'
    BY <1>2, <2>1 DEF Answered, Told
  <2> QED
    BY <1>4, <1>5, <2>1, <2>2 DEF Active
<1>14. CASE WalkVisit(r) \/ WalkEnd(r)
  <2>1. at[r] = "walking" /\ body[r].op = "walk"
    <3>1. at[r] = "walking"
      <4>1. CASE WalkVisit(r)
        BY <4>1, Zenon DEF WalkVisit
      <4>2. CASE WalkEnd(r)
        BY <4>2 DEF WalkEnd
      <4> QED
        BY <1>14, <4>1, <4>2, Zenon
    <3> QED
      BY <1>1, <3>1 DEF Placed
  <2>2. at' = at \/ Reply(r, 500) \/ Reply(r, 200)
    <3>1. CASE WalkVisit(r) /\ Stat(tree, Head(todo[r])) \in {"file", "dir"}
      BY <3>1, Zenon DEF WalkVisit
    <3>2. CASE WalkVisit(r) /\ Stat(tree, Head(todo[r])) \notin {"file", "dir"}
      BY <3>2 DEF WalkVisit
    <3>3. CASE WalkEnd(r)
      BY <3>3 DEF WalkEnd
    <3> QED
      BY <1>14, <3>1, <3>2, <3>3, Zenon
  <2>3. CASE at' = at
    BY <1>2, <1>5, <2>1, <2>3 DEF Answered, Told, Active
  <2> QED
    BY <1>7, <2>1, <2>2, <2>3
<1> QED
  BY <1>8, <1>9, <1>10, <1>11, <1>12, <1>13, <1>14

\* Sequences are sequences of what is in them.
LEMMA SeqOfMembers ==
  ASSUME NEW S, NEW s \in Seq(S)
  PROVE  s \in Seq(Range(s))
<1> DEFINE T == Range(s)
<1>1. \A i \in 1 .. Len(s) : s[i] \in T
  BY DEF Range
<1> HIDE DEF T
<1>2. DOMAIN s = 1 .. Len(s) /\ Len(s) \in Nat /\ s = [i \in 1 .. Len(s) |-> s[i]]
  OBVIOUS
<1>3. s \in Seq(T)
  BY <1>1, <1>2
<1> QED
  BY <1>3 DEF T

\* Deletes.
LEMMA DeleteAnswered ==
  ASSUME FileInv, FileInv', TreeInv, NEW r \in Requests, Moved(r), Answered(r), Keeps(tree, tree'),
         DeleteRemove(r) \/ DeleteEntry(r) \/ DeleteDir(r)
  PROVE  Answered(r)'
<1>1. HandlerTypes /\ Placed(r) /\ WellLinked(tree) /\ r \in DOMAIN todo
  BY DEF FileInv, TreeInv
<1>2. /\ at'[r] \in Active => Watched(r)' /\ Truth(r)' /\ View(tree', body'[r]) \in saw'[r]
      /\ at'[r] = "done" => (Truth(r)' => Answered(r)')
      /\ at'[r] = "done" /\ answer'[r] \in {400, 413, 500} => Answered(r)'
      /\ at'[r] = "done" /\ answer'[r] \notin {400, 413} => View(tree', body'[r]) \in saw'[r]
      /\ \A kinds : Seen(r, kinds) => Seen(r, kinds)'
  BY MovesAnswered
<1>3. at[r] \in {"removing", "sweeping"} /\ body[r].op = "delete"
  BY <1>1 DEF DeleteRemove, DeleteEntry, DeleteDir, Placed
<1>4. body'[r] = body[r] /\ Path(r)' = Path(r)
  BY <1>3 DEF Moved, Path
<1>5. Path(r) \in Seq(Segment) /\ Path(r) # <<>>
  BY <1>3, ActivePaths DEF Active
<1>6. ASSUME NEW s, Reply(r, s)
      PROVE  at'[r] = "done" /\ answer'[r] = s
  BY <1>1, <1>6 DEF HandlerTypes, Finish, Reply
<1>7. ASSUME Reply(r, 204), Seen(r, {"none", "notdir"})'
      PROVE  Answered(r)'
  BY <1>2, <1>3, <1>4, <1>6, <1>7 DEF Truth
<1>8. ASSUME Resolve(tree', Path(r)) = None, View(tree', body'[r]) \in saw'[r]
      PROVE  Seen(r, {"none", "notdir"})'
  <2>1. View(tree', body'[r]).path \in {"none", "notdir"}
    BY <1>4, <1>8, ViewFields, StatFacts DEF Path
  <2> QED
    BY <1>8, <2>1 DEF Seen
\* The frames of a delete that goes on.
<1>9. ASSUME at'[r] = "sweeping", NEW S, todo'[r] \in Seq(S), todo'[r] # <<>>,
             \A i \in DOMAIN todo'[r] : DOMAIN todo'[r][i] = {"parent", "name", "dir", "left"},
             Last(todo'[r]).name = Last(Path(r)),
             Seen(r, {"none", "notdir"})' \/ Resolve(tree', Front(Path(r))) = Last(todo'[r]).parent
      PROVE  Answered(r)'
  <2>1. todo'[r] \in Seq(Range(todo'[r]))
    BY <1>9, SeqOfMembers
  <2>2. Framed(r)'
    BY <1>4, <1>9, <2>1 DEF Framed
  <2>3. Told(r)'
    BY <1>4, <1>9 DEF Told
  <2> QED
    BY <1>2, <1>9, <2>2, <2>3 DEF Answered, Active
<1>10. CASE DeleteRemove(r)
  <2> DEFINE parent == Resolve(tree, Front(Path(r)))
             node   == Resolve(tree, Path(r))
             f      == Frame(tree, parent, Last(Path(r)))
  <2>1. CASE Reply(r, 500)
    BY <1>2, <1>6, <2>1
  <2>2. CASE tree' = Unlink(tree, parent, Last(Path(r))) /\ Reply(r, 204)
    <3>1. Resolve(tree', Path(r)) = None
      BY <1>1, <1>5, <2>2, UnlinkKeeps
    <3>2. View(tree', body'[r]) \in saw'[r]
      BY <1>2, <1>6, <2>2
    <3> QED
      BY <1>7, <1>8, <2>2, <3>1, <3>2
  <2>3. CASE /\ todo' = [todo EXCEPT ![r] = <<f>>]
             /\ Proceed(r, "sweeping") /\ tree' = tree
    <3>1. at'[r] = "sweeping"
      BY <1>1, <2>3 DEF HandlerTypes, Proceed
    <3>2. /\ DOMAIN f = {"parent", "name", "dir", "left"}
          /\ f.parent = parent /\ f.name = Last(Path(r))
      BY DEF Frame
    <3> HIDE DEF f
    <3>3. todo'[r] = <<f>>
      BY <1>1, <2>3
    <3>4. /\ todo'[r] \in Seq({f}) /\ todo'[r] # <<>> /\ Last(todo'[r]) = f
          /\ \A i \in DOMAIN todo'[r] : todo'[r][i] = f
      BY <3>3 DEF Last
    <3> QED
      BY <1>9, <2>3, <3>1, <3>2, <3>4
  <2> QED
    BY <1>10, <2>1, <2>2, <2>3 DEF DeleteRemove
\* While a delete is in its directory, the directory may change around it.
<1>11. ASSUME at[r] = "sweeping", at'[r] = "sweeping"
       PROVE  Seen(r, {"none", "notdir"})' \/ Resolve(tree', Front(Path(r))) = Last(todo[r]).parent
  <2>1. \/ Resolve(tree', Front(Path(r))) = Resolve(tree, Front(Path(r)))
        \/ Resolve(tree, Path(r)) = None \/ Resolve(tree', Path(r)) = None
    BY <1>5 DEF Keeps
  <2>2. CASE Resolve(tree, Path(r)) = None
    <3>1. View(tree, body[r]) \in saw[r]
      BY <1>11 DEF Answered, Watched, Active
    <3>2. View(tree, body[r]).path \in {"none", "notdir"}
      BY <2>2, ViewFields, StatFacts DEF Path
    <3> QED
      BY <1>2, <3>1, <3>2 DEF Seen
  <2>3. CASE Resolve(tree', Path(r)) = None
    BY <1>2, <1>8, <1>11, <2>3 DEF Active
  <2> QED
    BY <1>2, <1>11, <2>1, <2>2, <2>3 DEF Answered, Told
<1>12. ASSUME at[r] = "sweeping"
       PROVE  /\ todo[r] \in Seq(Range(todo[r])) /\ todo[r] # <<>>
              /\ \A i \in DOMAIN todo[r] : DOMAIN todo[r][i] = {"parent", "name", "dir", "left"}
              /\ Last(todo[r]).name = Last(Path(r))
  BY <1>12 DEF Answered, Framed
<1>13. CASE DeleteEntry(r)
  <2>1. at[r] = "sweeping" /\ at' = at
    <3>1. at[r] = "sweeping"
      BY <1>13, Zenon DEF DeleteEntry
    <3>2. at' = at
      BY <1>13 DEF DeleteEntry
    <3> QED
      BY <3>1, <3>2, Zenon
  <2> DEFINE s    == todo[r]
             f    == s[1]
  <2>11. PICK name \in f.left :
           LET g    == [f EXCEPT !.left = @ \ {name}]
               rest == <<g>> \o Tail(s)
           IN  todo' = [todo EXCEPT ![r] = rest]
               \/ todo' = [todo EXCEPT ![r] = <<Frame(tree, f.dir, name)>> \o rest]
    BY <1>13 DEF DeleteEntry
  <2> DEFINE g    == [f EXCEPT !.left = @ \ {name}]
             rest == <<g>> \o Tail(s)
             h    == Frame(tree, f.dir, name)
  <2>2. todo' = [todo EXCEPT ![r] = rest] \/ todo' = [todo EXCEPT ![r] = <<h>> \o rest]
    BY <2>11
  <2>3. DOMAIN h = {"parent", "name", "dir", "left"}
    BY DEF Frame
  <2> HIDE DEF s, h
  <2>4. s \in Seq(Range(s)) /\ s # <<>> /\ Len(s) \in Nat \ {0} /\ Last(s).name = Last(Path(r))
        /\ \A i \in 1 .. Len(s) : DOMAIN s[i] = {"parent", "name", "dir", "left"}
    BY <1>12, <2>1 DEF s
  <2>5. DOMAIN g = {"parent", "name", "dir", "left"} /\ g.parent = f.parent /\ g.name = f.name
    BY <2>4
  <2> HIDE DEF f, g
  <2>6. /\ rest \in Seq({g} \cup Range(s)) /\ Len(rest) = Len(s) /\ rest[1] = g
        /\ \A i \in 2 .. Len(s) : rest[i] = s[i]
    BY <2>4
  <2> HIDE DEF rest
  <2>7. Last(rest).parent = Last(s).parent /\ Last(rest).name = Last(s).name
    BY <2>4, <2>5, <2>6 DEF Last, f
  <2>8. \A i \in 1 .. Len(rest) : DOMAIN rest[i] = {"parent", "name", "dir", "left"}
    BY <2>4, <2>5, <2>6
  <2>9. CASE todo'[r] = rest
    <3>1. todo'[r] # <<>> /\ DOMAIN todo'[r] = 1 .. Len(rest)
      BY <2>4, <2>6, <2>9
    <3> QED
      BY <1>9, <1>11, <2>1, <2>4, <2>6, <2>7, <2>8, <2>9, <3>1 DEF s
  <2>10. CASE todo'[r] = <<h>> \o rest
    <3> DEFINE new == <<h>> \o rest
    <3>1. /\ new \in Seq({h, g} \cup Range(s)) /\ Len(new) = Len(rest) + 1 /\ new[1] = h
          /\ \A i \in 2 .. Len(new) : new[i] = rest[i - 1]
      BY <2>6
    <3> HIDE DEF new
    <3>2. todo'[r] = new
      BY <2>10 DEF new
    <3>3. new # <<>> /\ Last(new) = Last(rest) /\ DOMAIN new = 1 .. Len(new)
      BY <2>4, <2>6, <3>1 DEF Last
    <3>4. ASSUME NEW i \in 1 .. Len(new)
          PROVE  DOMAIN new[i] = {"parent", "name", "dir", "left"}
      <4>1. CASE i = 1
        BY <2>3, <3>1, <4>1
      <4>2. CASE i # 1
        <5>1. i \in 2 .. Len(new) /\ i - 1 \in 1 .. Len(rest)
          BY <2>4, <2>6, <3>1, <4>2
        <5> QED
          BY <2>8, <3>1, <5>1
      <4> QED
        BY <4>1, <4>2
    <3> QED
      BY <1>9, <1>11, <2>1, <2>4, <2>7, <3>1, <3>2, <3>3, <3>4 DEF s
  <2> QED
    BY <1>1, <2>2, <2>9, <2>10
<1>14. CASE DeleteDir(r)
  <2> DEFINE s    == todo[r]
             f    == s[1]
             node == Child(tree, f.parent, f.name)
             ok   == node = None \/ (node \notin File /\ Children(tree, node) = {})
  <2>1. at[r] = "sweeping" /\ tree' = IF ok THEN Unlink(tree, f.parent, f.name) ELSE tree
    BY <1>14 DEF DeleteDir
  <2>2. s \in Seq(Range(s)) /\ s # <<>> /\ Len(s) \in Nat \ {0} /\ Last(s).name = Last(Path(r))
        /\ \A i \in 1 .. Len(s) : DOMAIN s[i] = {"parent", "name", "dir", "left"}
    BY <1>12, <2>1
  <2>3. CASE Len(s) > 1
    <3>1. todo' = [todo EXCEPT ![r] = Tail(@)] /\ at' = at
      BY <1>14, <2>3 DEF DeleteDir
    <3>2. todo'[r] = Tail(s)
      BY <1>1, <3>1
    <3> HIDE DEF s
    <3>3. /\ Tail(s) \in Seq(Range(s)) /\ Tail(s) # <<>> /\ Len(Tail(s)) = Len(s) - 1
          /\ \A i \in 1 .. Len(Tail(s)) : Tail(s)[i] = s[i + 1]
      BY <2>2, <2>3
    <3>4. Last(Tail(s)) = Last(s)
      BY <2>2, <2>3, <3>3 DEF Last
    <3>5. \A i \in DOMAIN Tail(s) : DOMAIN Tail(s)[i] = {"parent", "name", "dir", "left"}
      BY <2>2, <3>3
    <3> QED
      BY <1>9, <1>11, <2>1, <2>2, <3>1, <3>2, <3>3, <3>4, <3>5 DEF s
  <2>4. CASE ~(Len(s) > 1)
    <3>1. Last(s) = f
      BY <2>2, <2>4 DEF Last
    <3>2. CASE ok
      <4>1. Reply(r, 204)
        BY <1>14, <2>4, <3>2 DEF DeleteDir
      <4>2. Seen(r, {"none", "notdir"}) \/ Resolve(tree, Front(Path(r))) = f.parent
        BY <2>1, <3>1 DEF Answered, Told
      <4>3. ASSUME Resolve(tree, Front(Path(r))) = f.parent
            PROVE  Seen(r, {"none", "notdir"})'
        <5>1. tree' = Unlink(tree, f.parent, f.name) /\ f.name = Last(Path(r))
          BY <2>1, <2>2, <3>1, <3>2
        <5>2. Resolve(tree', Path(r)) = None
          BY <1>1, <1>5, <4>3, <5>1, UnlinkKeeps
        <5> QED
          BY <1>2, <1>6, <1>8, <4>1, <5>2
      <4> QED
        BY <1>2, <1>7, <4>1, <4>2, <4>3
    <3>3. CASE ~ok
      <4>1. Reply(r, 500)
        BY <1>14, <2>4, <3>3 DEF DeleteDir
      <4> QED
        BY <1>2, <1>6, <4>1
    <3> QED
      BY <3>2, <3>3
  <2> QED
    BY <2>3, <2>4
<1> QED
  BY <1>10, <1>13, <1>14

\* Moves.
LEMMA MoveAnswered ==
  ASSUME FileInv, FileInv', TreeInv, NEW r \in Requests, Moved(r), Answered(r), MoveMkdir(r) \/ MoveRename(r)
  PROVE  Answered(r)'
<1>1. HandlerTypes /\ Placed(r) /\ WellLinked(tree)
  BY DEF FileInv, TreeInv
<1>2. /\ at'[r] \in Active \ {"reading", "filling", "listing", "walking", "sweeping"} => Answered(r)'
      /\ at'[r] = "done" => (Truth(r)' => Answered(r)')
      /\ at'[r] = "done" /\ answer'[r] \in {400, 413, 500} => Answered(r)'
      /\ at'[r] = "done" /\ answer'[r] \notin {400, 413} => View(tree', body'[r]) \in saw'[r]
  BY MovesAnswered
<1>3. at[r] \in {"moving", "renaming"} /\ at[r] \in Active /\ body[r].op = "move"
  BY <1>1 DEF MoveMkdir, MoveRename, Placed, Active
<1>4. body'[r] = body[r]
  BY <1>3 DEF Moved
<1>5. ASSUME NEW s, Reply(r, s)
      PROVE  at'[r] = "done" /\ answer'[r] = s
  BY <1>1, <1>5 DEF HandlerTypes, Finish, Reply
<1>6. CASE MoveMkdir(r)
  <2>1. Reply(r, 500) \/ Proceed(r, "renaming")
    BY <1>6 DEF MoveMkdir
  <2>2. Proceed(r, "renaming") => at'[r] = "renaming"
    BY <1>1 DEF HandlerTypes, Proceed
  <2> QED
    BY <1>2, <1>5, <2>1, <2>2 DEF Active
<1>7. CASE MoveRename(r)
  <2>1. CASE CanRename(tree, Path(r), Target(r))
    <3>1. tree' = Rename(tree, Path(r), Target(r)) /\ Reply(r, 201)
      BY <1>7, <2>1 DEF MoveRename
    <3>2. /\ Path(r) \in Seq(Segment) /\ Path(r) # <<>>
          /\ Target(r) \in Seq(Segment) /\ Target(r) # <<>>
      BY <1>3, ActivePaths
    <3>3. Resolve(tree', Target(r)) # None /\ Resolve(tree, Path(r)) # None
      BY <1>1, <2>1, <3>1, <3>2, RenameMoves
    <3>4. View(tree', body'[r]) \in saw'[r] /\ View(tree', body'[r]).to \in {"file", "dir"}
      BY <1>2, <1>3, <1>4, <1>5, <3>1, <3>3, ViewFields, StatFacts DEF Target
    <3>5. View(tree, body[r]) \in saw[r] /\ View(tree, body[r]).path \in {"file", "dir"}
      BY <1>3, <3>3, ViewFields, StatFacts DEF Path, Answered, Watched
    <3>6. saw[r] \subseteq saw'[r]
      BY WatchSees DEF Moved
    <3>7. Truth(r)'
      BY <1>3, <1>4, <1>5, <3>1, <3>4, <3>5, <3>6 DEF Truth
    <3> QED
      BY <1>2, <1>5, <3>1, <3>7
  <2>2. CASE ~CanRename(tree, Path(r), Target(r))
    <3>1. Reply(r, 500)
      BY <1>7, <2>2 DEF MoveRename
    <3> QED
      BY <1>2, <1>5, <3>1
  <2> QED
    BY <2>1, <2>2
<1> QED
  BY <1>6, <1>7

LEMMA AnsweredNextInv ==
  FileInv /\ TreeInv /\ [Next]_vars /\ (\A r \in Requests : Answered(r)) => \A r \in Requests : Answered(r)'
<1> SUFFICES ASSUME FileInv, TreeInv, [Next]_vars, NEW r \in Requests, Answered(r)
             PROVE  Answered(r)'
  OBVIOUS
<1>1. FileInv' /\ Keeps(tree, tree')
  BY FileNextInv, TreeNextInv
<1>2. CASE Handler(r)
  <2>1. Moved(r)
    BY <1>2, HandlerMoves
  <2> QED
    BY <1>1, <1>2, <2>1, BeginAnswered, FileAnswered, DeleteAnswered, MoveAnswered DEF Handler
<1>3. ASSUME NEW q \in Requests, Handler(q), q # r
      PROVE  Answered(r)'
  <2>1. Watch /\ Waits(r)
    BY <1>3, HandlerMoves DEF Moved, Waits
  <2> QED
    BY <1>1, <2>1, WaitsAnswered
<1>4. CASE Stop \/ StopCleanly \/ Die \/ Restart
  <2>1. Watch /\ Waits(r)
    BY <1>4, ProcessMoves
  <2> QED
    BY <1>1, <2>1, WaitsAnswered
<1>5. CASE UNCHANGED vars
  <2>1. /\ tree' = tree /\ at' = at /\ body' = body /\ answer' = answer /\ todo' = todo /\ saw' = saw
    BY <1>5 DEF vars, disk, locals, history
  <2>2. Path(r)' = Path(r) /\ View(tree, body[r])' = View(tree, body[r])
    BY <2>1 DEF Path, View, Below
  <2>3. Watched(r)' /\ Framed(r)' /\ Truth(r)'
    BY <2>1, <2>2 DEF Answered, Watched, Framed, Truth, Seen
  <2>4. Told(r)'
    BY <2>1, <2>2 DEF Answered, Told, Seen
  <2> QED
    BY <2>3, <2>4 DEF Answered
<1> QED
  BY <1>2, <1>3, <1>4, <1>5 DEF Next

\* Every handler: what an answer says of its path was true while the request ran.
THEOREM NoAnswerIsStale == Spec => []AnswersWereTrue
<1>1. Init => FileInv /\ TreeInv /\ \A r \in Requests : Answered(r)
  <2>1. Init => \A r \in Requests : at[r] = "new"
    BY DEF Init
  <2>2. \A r \in Requests : at[r] = "new" => Answered(r)
    BY DEF Answered, Watched, Framed, Told, Truth, Active
  <2> QED
    BY <2>1, <2>2, FileInitInv, TreeInitInv
<1>2. /\ FileInv /\ TreeInv /\ (\A r \in Requests : Answered(r)) /\ [Next]_vars
      => (FileInv /\ TreeInv /\ \A r \in Requests : Answered(r))'
  BY FileNextInv, TreeNextInv, AnsweredNextInv
<1>3. (\A r \in Requests : Answered(r)) => AnswersWereTrue
  BY DEF Answered, Truth, AnswersWereTrue
<1> QED
  BY <1>1, <1>2, <1>3, PTL DEF Spec

-----------------------------------------------------------------------------
(* What leaves the directory *)

\* A delete works in directories that are under it.
Swept(r) == at[r] = "sweeping" => \A i \in DOMAIN todo[r] : todo[r][i].dir \in under[r]

LEMMA WatchUnder ==
  ASSUME Watch, NEW r \in Requests, at'[r] = "sweeping"
  PROVE  /\ at[r] # "sweeping" => Resolve(tree', Path(r)) \in under'[r]
         /\ at[r] = "sweeping" =>
              under[r] \subseteq under'[r] /\ \A l \in tree' : l[1] \in under[r] /\ l[3] \notin File => l[3] \in under'[r]
<1>1. under'[r] = UnderNow(r)
  BY DEF Watch
<1> QED
  BY <1>1 DEF UnderNow, Path

LEMMA DeleteSwept ==
  ASSUME FileInv, TreeInv, NEW r \in Requests, Moved(r), Framed(r), Swept(r),
         DeleteRemove(r) \/ DeleteEntry(r) \/ DeleteDir(r)
  PROVE  Swept(r)'
<1> SUFFICES ASSUME at'[r] = "sweeping"
             PROVE  \A i \in DOMAIN todo'[r] : todo'[r][i].dir \in under'[r]
  BY DEF Swept
<1>1. HandlerTypes /\ WellLinked(tree) /\ r \in DOMAIN todo /\ Watch
  BY DEF FileInv, TreeInv, Moved
<1>2. \A s : ~Reply(r, s)
  BY <1>1 DEF HandlerTypes, Reply, Finish
<1>3. ASSUME at[r] = "sweeping"
      PROVE  /\ todo[r] \in Seq(Range(todo[r])) /\ todo[r] # <<>>
             /\ \A i \in DOMAIN todo[r] : /\ DOMAIN todo[r][i] = {"parent", "name", "dir", "left"}
                                          /\ todo[r][i].dir \in under'[r]
  BY <1>1, <1>3, WatchUnder DEF Framed, Swept
<1>4. CASE DeleteRemove(r)
  <2> DEFINE parent == Resolve(tree, Front(Path(r)))
             f      == Frame(tree, parent, Last(Path(r)))
  <2>1. at[r] = "removing" /\ tree' = tree /\ todo' = [todo EXCEPT ![r] = <<f>>]
    BY <1>2, <1>4 DEF DeleteRemove
  <2>2. Path(r) \in Seq(Segment) /\ Path(r) # <<>> /\ Path(r)' = Path(r)
    <3>1. body'[r] = body[r]
      BY <2>1 DEF Moved
    <3> QED
      BY <2>1, <3>1, ActivePaths DEF Active, Path
  <2>3. f.dir = Resolve(tree, Path(r))
    <3>1. f.dir = Child(tree, parent, Last(Path(r)))
      BY DEF Frame
    <3>2. Len(Path(r)) \in 1 .. Len(Path(r))
      BY <2>2
    <3> QED
      BY <2>2, <3>1, <3>2, AlongSteps
  <2> HIDE DEF f
  <2>4. todo'[r] = <<f>>
    BY <1>1, <2>1
  <2>5. f.dir \in under'[r]
    BY <1>1, <2>1, <2>2, <2>3, WatchUnder
  <2> QED
    BY <2>4, <2>5
<1>5. CASE DeleteEntry(r)
  <2> DEFINE s == todo[r]
             f == s[1]
  <2>1. at[r] = "sweeping"
    BY <1>5 DEF DeleteEntry
  <2>2. PICK name \in f.left :
          LET g    == [f EXCEPT !.left = @ \ {name}]
              node == Child(tree, f.dir, name)
              rest == <<g>> \o Tail(s)
          IN  \/ todo' = [todo EXCEPT ![r] = rest]
              \/ /\ node \notin File \cup {None} /\ tree' = tree
                 /\ todo' = [todo EXCEPT ![r] = <<Frame(tree, f.dir, name)>> \o rest]
    BY <1>5 DEF DeleteEntry
  <2> DEFINE g    == [f EXCEPT !.left = @ \ {name}]
             node == Child(tree, f.dir, name)
             rest == <<g>> \o Tail(s)
             h    == Frame(tree, f.dir, name)
  <2>3. h.dir = node
    BY DEF Frame
  <2> HIDE DEF h, node, s
  <2>4. s \in Seq(Range(s)) /\ s # <<>> /\ Len(s) \in Nat \ {0} /\ DOMAIN s = 1 .. Len(s)
        /\ \A i \in 1 .. Len(s) : DOMAIN s[i] = {"parent", "name", "dir", "left"} /\ s[i].dir \in under'[r]
    BY <1>3, <2>1 DEF s
  <2>5. g.dir \in under'[r]
    BY <2>4
  <2> HIDE DEF f, g
  <2>6. /\ rest \in Seq({g} \cup Range(s)) /\ Len(rest) = Len(s) /\ rest[1] = g
        /\ \A i \in 2 .. Len(s) : rest[i] = s[i]
    BY <2>4
  <2> HIDE DEF rest
  <2>7. \A i \in 1 .. Len(rest) : rest[i].dir \in under'[r]
    BY <2>4, <2>5, <2>6
  <2>8. CASE todo'[r] = rest
    BY <2>6, <2>7, <2>8
  <2>9. CASE node \notin File \cup {None} /\ tree' = tree /\ todo'[r] = <<h>> \o rest
    <3>1. \E l \in tree : l[1] = f.dir /\ l[3] = node
      BY <1>1, <2>9, ChildLinked DEF node
    <3>2. f.dir \in under[r]
      BY <2>1, <2>4 DEF Swept, f, s
    <3>3. h.dir \in under'[r]
      BY <1>1, <2>1, <2>3, <2>9, <3>1, <3>2, WatchUnder
    <3> DEFINE new == <<h>> \o rest
    <3>4. /\ DOMAIN new = 1 .. Len(rest) + 1 /\ new[1] = h
          /\ \A i \in 2 .. Len(rest) + 1 : new[i] = rest[i - 1]
      BY <2>6
    <3> HIDE DEF new
    <3>5. ASSUME NEW i \in DOMAIN new
          PROVE  new[i].dir \in under'[r]
      <4>1. CASE i = 1
        BY <3>3, <3>4, <4>1
      <4>2. CASE i # 1
        <5>1. i \in 2 .. Len(rest) + 1 /\ i - 1 \in 1 .. Len(rest)
          BY <2>4, <2>6, <3>4, <4>2
        <5> QED
          BY <2>7, <3>4, <5>1
      <4> QED
        BY <4>1, <4>2
    <3> QED
      BY <2>9, <3>5 DEF new
  <2>10. \/ todo'[r] = rest
         \/ node \notin File \cup {None} /\ tree' = tree /\ todo'[r] = <<h>> \o rest
    BY <1>1, <2>2 DEF rest, g, h, node
  <2> QED
    BY <2>8, <2>9, <2>10
<1>6. CASE DeleteDir(r)
  <2> DEFINE s == todo[r]
  <2>1. at[r] = "sweeping" /\ Len(s) > 1 /\ todo' = [todo EXCEPT ![r] = Tail(@)]
    BY <1>2, <1>6 DEF DeleteDir
  <2>2. todo'[r] = Tail(s)
    BY <1>1, <2>1
  <2> HIDE DEF s
  <2>3. s \in Seq(Range(s)) /\ \A i \in 1 .. Len(s) : s[i].dir \in under'[r]
    BY <1>3, <2>1 DEF s
  <2>4. DOMAIN Tail(s) = 1 .. Len(s) - 1 /\ \A i \in 1 .. Len(s) - 1 : Tail(s)[i] = s[i + 1]
    BY <2>1, <2>3
  <2>5. \A i \in 1 .. Len(s) - 1 : i + 1 \in 1 .. Len(s)
    BY <2>3
  <2> QED
    BY <2>2, <2>3, <2>4, <2>5
<1> QED
  BY <1>4, <1>5, <1>6

LEMMA SweptNextInv ==
  ASSUME FileInv, TreeInv, [Next]_vars, NEW r \in Requests, Framed(r), Swept(r)
  PROVE  Swept(r)'
<1>1. ASSUME Watch, Same(r)
      PROVE  Swept(r)'
  BY <1>1, WatchUnder DEF Same, Swept
<1>2. CASE Handler(r)
  <2>1. Moved(r)
    BY <1>2, HandlerMoves
  <2>2. CASE DeleteRemove(r) \/ DeleteEntry(r) \/ DeleteDir(r)
    BY <2>1, <2>2, DeleteSwept
  <2>3. CASE ~(DeleteRemove(r) \/ DeleteEntry(r) \/ DeleteDir(r))
    <3>1. HandlerTypes
      BY DEF FileInv
    <3>2. \A s, b : Reply(r, s) \/ Finish(r, s) \/ Refuse(r, b, s) => at'[r] = "done"
      BY <3>1 DEF HandlerTypes, Reply, Finish, Refuse
    <3>3. \A x : Proceed(r, x) \/ (\E b : Receive(r, b, x)) => at'[r] = x
      BY <3>1 DEF HandlerTypes, Proceed, Receive
    <3>4. ASSUME NEW b \in Bodies[r],
                 \/ Refusal(r, b) \/ ReadStat(r, b) \/ WriteMkdir(r, b)
                 \/ ListStat(r, b) \/ DeleteStat(r, b) \/ MoveStat(r, b)
          PROVE  at'[r] # "sweeping"
      <4>1. \/ \E s : Refuse(r, b, s)
            \/ \E x \in {"opening", "listing", "removing", "moving"} : Receive(r, b, x)
        BY <3>4 DEF Refusal, ReadStat, WriteMkdir, ListStat, DeleteStat, MoveStat
      <4> QED
        BY <3>2, <3>3, <4>1
    <3>5. CASE ReadOpen(r) \/ WriteOpen(r) \/ WriteFill(r) \/ WriteShort(r) \/ ListReadDir(r)
               \/ WalkStart(r) \/ WalkEnd(r) \/ MoveMkdir(r) \/ MoveRename(r)
      <4>1. \/ \E s : Reply(r, s) \/ Finish(r, s)
            \/ \E x \in {"reading", "filling", "walking", "renaming"} : Proceed(r, x)
        BY <3>5 DEF ReadOpen, WriteOpen, WriteFill, WriteShort, ListReadDir, WalkStart, WalkEnd,
                    MoveMkdir, MoveRename
      <4> QED
        BY <3>2, <3>3, <4>1 DEF Swept
    <3>6. CASE ReadBlock(r) \/ WalkVisit(r)
      <4>1. at[r] \in {"reading", "walking"} /\ (at' = at \/ \E s : Reply(r, s))
        BY <3>6 DEF ReadBlock, WalkVisit
      <4> QED
        BY <3>2, <4>1 DEF Swept
    <3> QED
      BY <1>2, <2>3, <3>4, <3>5, <3>6 DEF Handler, Swept
  <2> QED
    BY <2>2, <2>3
<1>3. ASSUME NEW q \in Requests, Handler(q), q # r
      PROVE  Swept(r)'
  BY <1>1, <1>3, HandlerMoves DEF Moved
<1>4. CASE Stop \/ StopCleanly \/ Die \/ Restart
  <2>1. Watch /\ Waits(r)
    BY <1>4, ProcessMoves
  <2>2. at'[r] = "sweeping" => Same(r)
    BY <2>1 DEF Waits, Active
  <2> QED
    BY <1>1, <2>1, <2>2 DEF Swept
<1>5. CASE UNCHANGED vars
  BY <1>5 DEF vars, locals, history, Swept
<1> QED
  BY <1>2, <1>3, <1>4, <1>5 DEF Next

\* What an unlink takes out is what its directory had under that name.
LEMMA UnlinkedIs ==
  ASSUME TreeInv, NEW d, NEW n, NEW l \in tree \ Unlink(tree, d, n)
  PROVE  l = <<d, n, Child(tree, d, n)>> /\ Child(tree, d, n) # None /\ l[3] = Child(tree, d, n) /\ l[1] = d
<1>1. l[1] = d /\ l[2] = n /\ l \in tree
  BY DEF Unlink
<1>2. WellLinked(tree) /\ l[3] = Child(tree, l[1], l[2])
  BY <1>1, LinkIsChild DEF TreeInv
<1> QED
  BY <1>1, <1>2 DEF WellLinked

LEMMA KeptNext ==
  ASSUME FileInv, TreeInv, \A r \in Requests : Framed(r) /\ Swept(r), [Next]_vars, NEW l \in tree \ tree'
  PROVE  \/ l[3] \notin File /\ Children(tree, l[3]) = {}
         \/ \E r \in Requests : Deletes(r, l) \/ Replaces(r, l)
<1>1. ASSUME tree \subseteq tree'
      PROVE  FALSE
  BY <1>1
<1>2. ASSUME NEW r \in Requests, Handler(r)
      PROVE  \/ l[3] \notin File /\ Children(tree, l[3]) = {}
             \/ Deletes(r, l) \/ Replaces(r, l)
  <2>1. WellLinked(tree) /\ Distinct(tree) /\ HandlerTypes /\ Placed(r)
    BY DEF TreeInv, FileInv
  <2>2. CASE DeleteRemove(r)
    <3> DEFINE parent == Resolve(tree, Front(Path(r)))
               node   == Resolve(tree, Path(r))
    <3>1. /\ at[r] = "removing" /\ tree' = Unlink(tree, parent, Last(Path(r)))
          /\ node = None \/ node \in File \/ Children(tree, node) = {}
      BY <1>1, <2>2 DEF DeleteRemove
    <3>2. Path(r) \in Seq(Segment) /\ Path(r) # <<>>
      BY <3>1, ActivePaths DEF Active
    <3>3. node = Child(tree, parent, Last(Path(r)))
      <4>1. Len(Path(r)) \in 1 .. Len(Path(r))
        BY <3>2
      <4> QED
        BY <3>2, <4>1, AlongSteps
    <3>4. l = Entry(tree, Path(r)) /\ l[3] = node /\ node # None
      BY <3>1, <3>3, UnlinkedIs DEF Entry
    <3> QED
      BY <3>1, <3>4 DEF Deletes
  <2>3. CASE DeleteEntry(r)
    <3> DEFINE f == todo[r][1]
    <3>1. PICK name \in f.left : LET node == Child(tree, f.dir, name) IN
            tree' = Unlink(tree, f.dir, name) /\ (node = None \/ node \in File)
      BY <1>1, <2>3 DEF DeleteEntry
    <3>2. at[r] = "sweeping" /\ f.dir \in under[r]
      <4>1. at[r] = "sweeping"
        BY <2>3 DEF DeleteEntry
      <4>2. todo[r] \in Seq(Range(todo[r])) /\ todo[r] # <<>>
        BY <4>1 DEF Framed
      <4>3. 1 \in DOMAIN todo[r]
        BY <4>2
      <4> QED
        BY <4>1, <4>3 DEF Swept
    <3> HIDE DEF f
    <3>3. l[3] \in File /\ l[1] = f.dir
      BY <3>1, UnlinkedIs
    <3> QED
      BY <3>2, <3>3 DEF Deletes
  <2>4. CASE DeleteDir(r)
    <3> DEFINE f    == todo[r][1]
               node == Child(tree, f.parent, f.name)
    <3>1. /\ tree' = Unlink(tree, f.parent, f.name)
          /\ node = None \/ (node \notin File /\ Children(tree, node) = {})
      BY <1>1, <2>4 DEF DeleteDir
    <3> QED
      BY <3>1, UnlinkedIs
  <2>5. CASE MoveRename(r)
    <3> DEFINE p == Path(r)
               q == Target(r)
    <3>1. /\ at[r] = "renaming" /\ CanRename(tree, p, q) /\ tree' = Rename(tree, p, q) /\ Reply(r, 201)
      BY <1>1, <2>5 DEF MoveRename
    <3>2. p \in Seq(Segment) /\ p # <<>> /\ q \in Seq(Segment) /\ q # <<>>
      BY <2>1, <3>1, ActivePaths DEF Active, Placed
    <3>3. answer'[r] = 201
      BY <2>1, <3>1 DEF HandlerTypes, Reply, Finish
    <3> HIDE DEF p, q
    <3>4. Resolve(tree', q) = Resolve(tree, p)
      BY <2>1, <3>1, <3>2, RenameMoves
    <3>5. l \in {Entry(tree, p), Entry(tree, q)}
      BY <2>1, <3>1, <3>2, RenameLinks
    <3>6. l[3] # None
      BY <2>1 DEF WellLinked
    <3>7. CASE l = Entry(tree, q)
      <4>1. l[3] = Resolve(tree, q)
        BY <3>7 DEF Entry
      <4>2. \/ l[3] = Resolve(tree, p)
            \/ {l[3], Resolve(tree, p)} \subseteq File
            \/ l[3] \notin File /\ Children(tree, l[3]) = {}
        BY <3>1, <3>6, <4>1 DEF CanRename
      <4>3. l[3] = Resolve(tree, p) => tree' = tree
        BY <3>1, <4>1 DEF Rename
      <4> QED
        BY <3>1, <3>3, <3>4, <3>7, <4>2, <4>3 DEF Replaces, p, q
    <3>8. CASE l = Entry(tree, p)
      BY <3>1, <3>3, <3>4, <3>8 DEF Replaces, p, q
    <3> QED
      BY <3>5, <3>7, <3>8
  <2>6. ASSUME NEW b \in Bodies[r],
               \/ Refusal(r, b) \/ ReadStat(r, b) \/ WriteMkdir(r, b)
               \/ ListStat(r, b) \/ DeleteStat(r, b) \/ MoveStat(r, b)
        PROVE  FALSE
    <3>1. tree \subseteq tree'
      BY <2>6 DEF Refusal, ReadStat, WriteMkdir, ListStat, DeleteStat, MoveStat, disk, MakeDirs
    <3> QED
      BY <1>1, <3>1
  <2>7. CASE \/ ReadOpen(r) \/ ReadBlock(r) \/ WriteFill(r) \/ WriteShort(r)
             \/ ListReadDir(r) \/ WalkStart(r) \/ WalkVisit(r) \/ WalkEnd(r)
    <3>1. tree' = tree
      BY <2>7 DEF ReadOpen, ReadBlock, WriteFill, WriteShort, ListReadDir, WalkStart, WalkVisit, WalkEnd, disk
    <3> QED
      BY <1>1, <3>1
  <2>8. CASE WriteOpen(r) \/ MoveMkdir(r)
    <3>1. tree \subseteq tree'
      BY <2>8 DEF WriteOpen, MoveMkdir, MakeDirs, disk
    <3> QED
      BY <1>1, <3>1
  <2> QED
    BY <1>2, <2>2, <2>3, <2>4, <2>5, <2>6, <2>7, <2>8 DEF Handler
<1>3. CASE Stop \/ StopCleanly \/ Die \/ Restart
  BY <1>1, <1>3, ProcessMoves DEF Grows
<1>4. CASE UNCHANGED vars
  BY <1>1, <1>4 DEF vars, disk
<1> QED
  BY <1>2, <1>3, <1>4 DEF Next

\* handleWrite, handleDelete, handleMove: what takes an entry out of the directory
\* is a delete of its path or of a directory it was in, a move that has it or
\* another file at its target, or an empty directory's end.
THEOREM NoFileIsLost == Spec => FilesAreKept
<1> DEFINE KeptInv == FileInv /\ TreeInv /\ \A r \in Requests : Answered(r) /\ Swept(r)
<1>1. Init => KeptInv
  <2>1. Init => \A r \in Requests : at[r] = "new"
    BY DEF Init
  <2>2. \A r \in Requests : at[r] = "new" => Answered(r) /\ Swept(r)
    BY DEF Answered, Watched, Framed, Told, Truth, Swept, Active
  <2> QED
    BY <2>1, <2>2, FileInitInv, TreeInitInv
<1>2. KeptInv /\ [Next]_vars => KeptInv'
  BY FileNextInv, TreeNextInv, AnsweredNextInv, SweptNextInv DEF Answered
<1>3. KeptInv /\ [Next]_vars =>
        [\A l \in tree \ tree' :
           \/ l[3] \notin File /\ Children(tree, l[3]) = {}
           \/ \E r \in Requests : Deletes(r, l) \/ Replaces(r, l)]_vars
  BY KeptNext DEF Answered
<1> QED
  BY <1>1, <1>2, <1>3, PTL DEF Spec, FilesAreKept

-----------------------------------------------------------------------------
(* What listings find *)

\* A walk has found only what was there, and what was there all the time is
\* found or below a path it has yet to visit.
Walked(r) ==
  /\ at[r] \in {"new", "listing"} => found[r] = {}
  /\ at[r] = "walking" =>
       /\ todo[r] \in Seq(Seq(Segment))
       /\ \A i \in DOMAIN todo[r] : IsPrefix(Path(r), todo[r][i])
       /\ found[r] \cap Universe \subseteq UNION {v.below : v \in saw[r]}
       /\ \A q \in Universe : (\A v \in saw[r] : q \in v.below) =>
            q \in found[r] \/ \E i \in DOMAIN todo[r] : IsPrefix(todo[r][i], q)
  /\ (at[r] = "done" /\ answer[r] = 200 /\ body[r].op \in {"list", "walk"}) =>
       /\ found[r] \cap Universe \subseteq UNION {v.below : v \in saw[r]}
       /\ \A q \in UNION {v.below : v \in saw[r]} : (\A v \in saw[r] : q \in v.below) => q \in found[r]

LEMMA WaitsWalked ==
  ASSUME FileInv, TreeInv, Watch, NEW r \in Requests, Waits(r), Walked(r)
  PROVE  Walked(r)'
<1>1. saw[r] \subseteq saw'[r] /\ (at[r] \in {"done", "lost"} => saw'[r] = saw[r])
  BY WatchSees
<1>2. found'[r] = found[r] /\ body'[r] = body[r] /\ answer'[r] = answer[r]
  BY DEF Waits, Same
<1>3. at'[r] \in {"new", "listing", "walking", "done"} => at[r] = at'[r]
  BY DEF Waits, Same
<1>4. ASSUME at'[r] = "walking"
      PROVE  todo'[r] = todo[r] /\ Path(r)' = Path(r)
  BY <1>2, <1>4 DEF Waits, Same, Path, Active
<1>5. at'[r] \in {"new", "listing"} => found'[r] = {}
  BY <1>2, <1>3 DEF Walked
<1>6. ASSUME at'[r] = "walking"
      PROVE  /\ todo'[r] \in Seq(Seq(Segment))
             /\ \A i \in DOMAIN todo'[r] : IsPrefix(Path(r)', todo'[r][i])
             /\ found'[r] \cap Universe \subseteq UNION {v.below : v \in saw'[r]}
             /\ \A q \in Universe : (\A v \in saw'[r] : q \in v.below) =>
                  q \in found'[r] \/ \E i \in DOMAIN todo'[r] : IsPrefix(todo'[r][i], q)
  <2>1. /\ todo[r] \in Seq(Seq(Segment))
        /\ \A i \in DOMAIN todo[r] : IsPrefix(Path(r), todo[r][i])
        /\ found[r] \cap Universe \subseteq UNION {v.below : v \in saw[r]}
        /\ \A q \in Universe : (\A v \in saw[r] : q \in v.below) =>
             q \in found[r] \/ \E i \in DOMAIN todo[r] : IsPrefix(todo[r][i], q)
    BY <1>3, <1>6 DEF Walked
  <2> QED
    BY <1>1, <1>2, <1>4, <1>6, <2>1
<1>7. at'[r] = "done" => saw'[r] = saw[r] /\ at[r] = "done"
  BY <1>1, <1>3
<1> QED
  BY <1>2, <1>5, <1>6, <1>7 DEF Walked, Universe

\* A listing of one directory.
LEMMA ListWalked ==
  ASSUME FileInv, TreeInv, NEW r \in Requests, Moved(r), Walked(r), ListReadDir(r)
  PROVE  Walked(r)'
<1>1. HandlerTypes /\ WellLinked(tree) /\ r \in DOMAIN found
  BY DEF FileInv, TreeInv
<1>2. at[r] = "listing" /\ at[r] \in Active /\ body[r].op = "list" /\ tree' = tree
  BY DEF ListReadDir, disk, Active
<1>3. ASSUME NEW s, Finish(r, s) \/ Reply(r, s)
      PROVE  at'[r] = "done" /\ answer'[r] = s
  BY <1>1, <1>3 DEF HandlerTypes, Finish, Reply
<1>4. body'[r] = body[r] /\ Path(r)' = Path(r)
  BY <1>2 DEF Moved, Path
<1>5. CASE Stat(tree, Path(r)) # "dir"
  <2>1. Reply(r, 500)
    BY <1>5 DEF ListReadDir
  <2> QED
    BY <1>3, <2>1 DEF Walked
<1>6. CASE Stat(tree, Path(r)) = "dir"
  <2> DEFINE d == Resolve(tree, Path(r))
             entries == {Append(Path(r), n) : n \in Children(tree, d)}
  <2>1. found' = [found EXCEPT ![r] = entries] /\ Finish(r, 200)
    BY <1>6 DEF ListReadDir
  <2>2. found'[r] = entries
    <3> HIDE DEF entries
    <3> QED
      BY <1>1, <2>1
  <2>3. at'[r] = "done" /\ answer'[r] = 200
    BY <1>3, <2>1
  <2> DEFINE now == View(tree', body'[r])
  <2>4. now \in saw'[r]
    BY <1>2, <2>3, WatchSees DEF Moved
  <2>5. now.below = Below(tree, Path(r), FALSE)
    <3> DEFINE b == body'[r]
    <3>1. b.op \in {"list", "walk"} /\ (b.op = "walk") = FALSE /\ Abs(b.path) = Path(r)
      BY <1>2, <1>4 DEF Path
    <3> HIDE DEF b
    <3>2. View(tree', b).below = Below(tree', Abs(b.path), b.op = "walk")
      BY <3>1, ViewFields
    <3> QED
      BY <1>2, <3>1, <3>2 DEF b
  <2> HIDE DEF now
  <2>6. Path(r) \in Seq(Segment)
    BY <1>2, ActivePaths
  <2>7. ASSUME NEW q \in entries, q \in Universe
        PROVE  q \in now.below
    <3>1. PICK n \in Children(tree, d) : q = Append(Path(r), n)
      BY <2>7
    <3>2. n \in Segment /\ Child(tree, d, n) # None
      BY <1>1, ChildrenNamed DEF Children, WellLinked
    <3>3. Resolve(tree, q) # None
      BY <2>6, <3>1, <3>2, EntryPath
    <3>4. IsPrefix(Path(r), Path(r))
      BY <2>6, PrefixNames
    <3>5. IsStrictPrefix(Path(r), q) /\ Len(q) = Len(Path(r)) + 1
      BY <2>6, <3>1, <3>2, <3>4, PrefixAppend DEF IsStrictPrefix
    <3> QED
      BY <2>5, <2>7, <3>3, <3>5, StatFacts DEF Below
  <2>8. ASSUME NEW q \in now.below
        PROVE  q \in entries
    <3>1. /\ q \in Universe /\ IsPrefix(Path(r), q) /\ Len(q) = Len(Path(r)) + 1 /\ Resolve(tree, q) # None
      BY <2>5, StatFacts DEF Below, IsStrictPrefix
    <3>2. q \in Seq(Segment) /\ Len(Path(r)) # Len(q)
      BY <2>6, <3>1, UniversePaths
    <3> DEFINE n == q[Len(Path(r)) + 1]
               e == Append(Path(r), n)
    <3>3. n \in Children(tree, d)
      BY <1>1, <2>6, <3>1, <3>2, AbovePath
    <3>4. n \in Segment /\ IsPrefix(e, q)
      BY <2>6, <3>1, <3>2, PrefixAppend
    <3> HIDE DEF n
    <3>5. e \in Seq(Segment) /\ Len(e) = Len(q)
      BY <2>6, <3>1, <3>4
    <3>6. e = q
      <4> HIDE DEF e
      <4> QED
        BY <3>2, <3>4, <3>5, PrefixNames
    <3> QED
      BY <3>3, <3>6
  <2> HIDE DEF entries
  <2>9. found'[r] \cap Universe \subseteq UNION {v.below : v \in saw'[r]}
    BY <2>2, <2>4, <2>7
  <2>10. \A q : (\A v \in saw'[r] : q \in v.below) => q \in found'[r]
    BY <2>2, <2>4, <2>8
  <2> QED
    BY <2>3, <2>9, <2>10 DEF Walked, Universe
<1> QED
  BY <1>5, <1>6

\* Handlers that list nothing, and answers that are no listing.
LEMMA OtherWalked ==
  ASSUME FileInv, TreeInv, NEW r \in Requests, Moved(r),
         \/ at[r] \in Active \ {"listing", "walking"}
         \/ at'[r] = "done" /\ answer'[r] # 200
  PROVE  Walked(r)'
<1>1. at'[r] \notin {"new", "listing", "walking"}
  BY DEF Moved, TreeInv, Placed, Active
<1>2. at'[r] = "done" /\ answer'[r] = 200 => body'[r].op \notin {"list", "walk"}
  BY DEF Moved, TreeInv, Placed, Active
<1> QED
  BY <1>1, <1>2 DEF Walked

LEMMA BeginWalked ==
  ASSUME FileInv, TreeInv, NEW r \in Requests, Walked(r), NEW b \in Bodies[r],
         \/ Refusal(r, b) \/ ReadStat(r, b) \/ WriteMkdir(r, b)
         \/ ListStat(r, b) \/ DeleteStat(r, b) \/ MoveStat(r, b)
  PROVE  Walked(r)'
<1>1. HandlerTypes /\ at[r] = "new" /\ Moved(r)
  BY BeginMoves DEF FileInv, Refusal, ReadStat, WriteMkdir, ListStat, DeleteStat, MoveStat, Waiting
<1>2. \/ \E s \in {400, 404, 413, 500} : Refuse(r, b, s)
      \/ \E x \in {"opening", "listing", "removing", "moving"} : Receive(r, b, x)
  BY DEF Refusal, ReadStat, WriteMkdir, ListStat, DeleteStat, MoveStat
<1>3. CASE \E s \in {400, 404, 413, 500} : Refuse(r, b, s)
  <2>1. at'[r] = "done" /\ answer'[r] \in {400, 404, 413, 500}
    BY <1>1, <1>3 DEF HandlerTypes, Refuse
  <2> QED
    BY <1>1, <2>1, OtherWalked
<1>4. CASE \E x \in {"opening", "listing", "removing", "moving"} : Receive(r, b, x)
  <2>1. at'[r] \in {"opening", "listing", "removing", "moving"} /\ found' = found
    BY <1>1, <1>4 DEF HandlerTypes, Receive, locals
  <2> QED
    BY <1>1, <2>1 DEF Walked
<1> QED
  BY <1>2, <1>3, <1>4

\* What a walk sees, at the start of a step of it and at its end.
LEMMA WalkSees ==
  ASSUME FileInv, TreeInv, NEW r \in Requests, Moved(r), at[r] \in Active, at'[r] \in Active,
         body[r].op = "walk", answer'[r] = answer[r]
  PROVE  /\ Path(r)' = Path(r) /\ Path(r) \in Seq(Segment)
         /\ saw[r] \subseteq saw'[r]
         /\ View(tree', body'[r]) \in saw'[r]
         /\ View(tree', body'[r]).below = Below(tree', Path(r), TRUE)
<1>1. body'[r] = body[r] /\ Watch /\ at[r] \notin {"done", "lost"} /\ at'[r] # "new"
  BY DEF Moved, Active
<1>2. answer'[r] = 0
  BY DEF FileInv, Phases, Active
<1>3. saw[r] \subseteq saw'[r] /\ View(tree', body'[r]) \in saw'[r]
  BY <1>1, <1>2, WatchSees
<1>4. View(tree', body'[r]).below = Below(tree', Path(r), TRUE)
  <2> DEFINE b == body'[r]
  <2>1. b.op \in {"list", "walk"} /\ (b.op = "walk") = TRUE /\ Abs(b.path) = Path(r)
    BY <1>1 DEF Path
  <2> HIDE DEF b
  <2>2. View(tree', b).below = Below(tree', Abs(b.path), b.op = "walk")
    BY <2>1, ViewFields
  <2> QED
    BY <2>1, <2>2 DEF b
<1> QED
  BY <1>1, <1>3, <1>4, ActivePaths DEF Path

LEMMA WalkStartWalked ==
  ASSUME FileInv, TreeInv, NEW r \in Requests, Moved(r), Walked(r), WalkStart(r)
  PROVE  Walked(r)'
<1>1. HandlerTypes /\ r \in DOMAIN todo
  BY DEF FileInv, TreeInv
<1>2. at[r] = "listing" /\ body[r].op = "walk" /\ found' = found /\ found[r] = {}
  BY DEF WalkStart, Walked
<1>3. at'[r] = "walking" /\ answer' = answer
  BY <1>1 DEF WalkStart, Proceed, HandlerTypes
<1>4. /\ Path(r)' = Path(r) /\ Path(r) \in Seq(Segment)
      /\ View(tree', body'[r]) \in saw'[r]
      /\ View(tree', body'[r]).below = Below(tree', Path(r), TRUE)
  BY <1>2, <1>3, WalkSees DEF Active
<1>5. todo'[r] = <<Path(r)>>
  <2> DEFINE w == <<Path(r)>>
  <2>1. todo' = [todo EXCEPT ![r] = w]
    BY DEF WalkStart
  <2> HIDE DEF w
  <2>2. todo'[r] = w
    BY <1>1, <2>1
  <2> QED
    BY <2>2 DEF w
<1> DEFINE a == Path(r)
           now == View(tree', body'[r])
<1>6. a \in Seq(Segment)
  BY <1>4
<1> HIDE DEF a, now
<1>7. todo'[r] \in Seq(Seq(Segment)) /\ DOMAIN todo'[r] = {1} /\ todo'[r][1] = a
  <2>1. <<a>> \in Seq(Seq(Segment)) /\ DOMAIN <<a>> = {1} /\ <<a>>[1] = a
    BY <1>6
  <2> QED
    BY <1>5, <2>1 DEF a
<1>8. IsPrefix(a, a)
  BY <1>6, PrefixNames
<1>9. \A q \in now.below : IsPrefix(a, q)
  BY <1>4 DEF Below, IsStrictPrefix, a, now
<1>10. \A q : (\A v \in saw'[r] : q \in v.below) => \E i \in DOMAIN todo'[r] : IsPrefix(todo'[r][i], q)
  BY <1>4, <1>7, <1>9 DEF now
<1>11. \A i \in DOMAIN todo'[r] : IsPrefix(Path(r)', todo'[r][i])
  BY <1>4, <1>7, <1>8 DEF a
<1> QED
  BY <1>2, <1>3, <1>7, <1>10, <1>11 DEF Walked

\* A visit puts the entries of a directory before what is left to do.
LEMMA VisitWalked ==
  ASSUME FileInv, TreeInv, NEW r \in Requests, Moved(r), Walked(r), WalkVisit(r)
  PROVE  Walked(r)'
<1> DEFINE w == todo[r]
           p == Head(w)
           d == Resolve(tree, p)
           kind == Stat(tree, p)
           first == IF kind = "dir" THEN Entries(tree, d, p) ELSE <<>>
           next == first \o Tail(w)
           more == found[r] \cup ({p} \ {Path(r)})
<1>1. HandlerTypes /\ WellLinked(tree) /\ IsFiniteSet(tree) /\ r \in DOMAIN todo /\ r \in DOMAIN found
  BY DEF FileInv, TreeInv
<1>2. at[r] = "walking" /\ w # <<>> /\ tree' = tree /\ body[r].op = "walk"
  BY DEF WalkVisit, disk, TreeInv, Placed
<1>3. CASE kind \notin {"file", "dir"}
  <2>1. Reply(r, 500)
    BY <1>3 DEF WalkVisit
  <2>2. at'[r] = "done" /\ answer'[r] = 500
    BY <1>1, <2>1 DEF HandlerTypes, Reply, Finish
  <2> QED
    BY <2>2, OtherWalked
<1>4. CASE kind \in {"file", "dir"}
  <2>1. /\ found' = [found EXCEPT ![r] = more] /\ todo' = [todo EXCEPT ![r] = next]
        /\ at' = at /\ body' = body /\ answer' = answer
    BY <1>4 DEF WalkVisit, Entries
  <2>2. found'[r] = more /\ todo'[r] = next
    <3> HIDE DEF more, next
    <3> QED
      BY <1>1, <2>1
  <2> DEFINE a == Path(r)
             now == View(tree', body'[r])
  <2>3. /\ Path(r)' = a /\ a \in Seq(Segment)
        /\ saw[r] \subseteq saw'[r] /\ now \in saw'[r] /\ now.below = Below(tree, a, TRUE)
    BY <1>2, <2>1, WalkSees DEF Active
  <2> HIDE DEF a, now
  <2>4. /\ w \in Seq(Seq(Segment))
        /\ \A i \in DOMAIN w : IsPrefix(a, w[i])
        /\ found[r] \cap Universe \subseteq UNION {v.below : v \in saw[r]}
        /\ \A q \in Universe : (\A v \in saw[r] : q \in v.below) =>
             q \in found[r] \/ \E i \in DOMAIN w : IsPrefix(w[i], q)
    BY <1>2 DEF Walked, a
  <2> HIDE DEF w
  <2>5. /\ p \in Seq(Segment) /\ p = w[1] /\ 1 \in DOMAIN w /\ Tail(w) \in Seq(Seq(Segment))
        /\ \A i \in DOMAIN Tail(w) : i + 1 \in DOMAIN w /\ Tail(w)[i] = w[i + 1]
        /\ \A i \in DOMAIN w : i # 1 => i - 1 \in DOMAIN Tail(w) /\ Tail(w)[i - 1] = w[i]
    BY <1>2, <2>4, HeadAndTail
  <2> HIDE DEF p, kind, d
  <2>6. /\ first \in Seq(Seq(Segment))
        /\ \A i \in DOMAIN first : \E n \in Segment : first[i] = Append(p, n)
        /\ kind = "dir" => \A n \in Children(tree, d) : \E i \in DOMAIN first : first[i] = Append(p, n)
    <3>1. CASE kind = "dir"
      <4>1. first = Entries(tree, d, p)
        BY <3>1
      <4> HIDE DEF first
      <4>2. WellLinked(tree) /\ IsFiniteSet(tree) /\ p \in Seq(Segment)
        BY <1>1, <2>5
      <4>3. Lists(Entries(tree, d, p), tree, d, p)
        BY <4>2, EntriesListed
      <4> QED
        BY <4>1, <4>3 DEF Lists
    <3>2. CASE kind # "dir"
      BY <3>2
    <3> QED
      BY <3>1, <3>2
  <2> DEFINE rest == Tail(w)
  <2> HIDE DEF first
  <2>7. rest \in Seq(Seq(Segment)) /\ next = first \o rest
    BY <2>5
  <2> HIDE DEF rest, next
  <2>8. /\ next \in Seq(Seq(Segment))
        /\ \A i \in DOMAIN first : i \in DOMAIN next /\ next[i] = first[i]
        /\ \A i \in DOMAIN rest : \E j \in DOMAIN next : next[j] = rest[i]
        /\ \A j \in DOMAIN next :
             (\E i \in DOMAIN first : next[j] = first[i]) \/ (\E i \in DOMAIN rest : next[j] = rest[i])
    <3>1. first \in Seq(Seq(Segment)) /\ rest \in Seq(Seq(Segment))
      BY <2>6, <2>7
    <3>2. first \o rest \in Seq(Seq(Segment)) /\ Joined(first \o rest, first, rest)
      BY <3>1, ConcatFacts
    <3> QED
      BY <2>7, <3>2 DEF Joined
  <2>9. IsPrefix(a, p) /\ \A i \in DOMAIN rest : IsPrefix(a, rest[i])
    BY <2>4, <2>5 DEF rest
  <2>10. ASSUME NEW j \in DOMAIN next
        PROVE  IsPrefix(a, next[j])
    <3>1. CASE \E i \in DOMAIN first : next[j] = first[i]
      <4>1. PICK n \in Segment : next[j] = Append(p, n)
        BY <2>6, <3>1
      <4> QED
        BY <2>3, <2>5, <2>9, <4>1, PrefixAppend
    <3> QED
      BY <2>8, <2>9, <3>1
  <2>11. ASSUME NEW q \in more, q \in Universe
         PROVE  q \in UNION {v.below : v \in saw'[r]}
    <3>1. CASE q \in found[r]
      BY <2>3, <2>4, <2>11, <3>1
    <3>2. CASE q = p /\ p # a
      <4>1. IsStrictPrefix(a, q)
        BY <2>9, <3>2 DEF IsStrictPrefix
      <4>2. Stat(tree, q) \in {"file", "dir"}
        BY <1>4, <3>2 DEF kind
      <4>3. q \in now.below
        BY <2>3, <2>11, <4>1, <4>2 DEF Below
      <4> QED
        BY <2>3, <4>3
    <3> QED
      BY <2>11, <3>1, <3>2 DEF a
  <2>12. ASSUME NEW q \in Universe, \A v \in saw'[r] : q \in v.below
         PROVE  q \in more \/ \E j \in DOMAIN next : IsPrefix(next[j], q)
    <3>1. q \in now.below /\ \A v \in saw[r] : q \in v.below
      BY <2>3, <2>12
    <3>2. IsStrictPrefix(a, q) /\ Resolve(tree, q) # None /\ q \in Seq(Segment)
      BY <2>3, <3>1, StatFacts, UniversePaths DEF Below
    <3>3. CASE q \in found[r]
      BY <3>3
    <3>4. ASSUME NEW i \in DOMAIN w, IsPrefix(w[i], q), i # 1
          PROVE  \E j \in DOMAIN next : IsPrefix(next[j], q)
      <4>1. i - 1 \in DOMAIN rest /\ rest[i - 1] = w[i]
        BY <2>5, <3>4 DEF rest
      <4>2. PICK j \in DOMAIN next : next[j] = rest[i - 1]
        BY <2>8, <4>1
      <4> QED
        BY <3>4, <4>1, <4>2
    <3>5. CASE IsPrefix(p, q) /\ Len(p) = Len(q)
      <4>1. q = p /\ q # a
        BY <2>5, <3>2, <3>5, PrefixNames DEF IsStrictPrefix
      <4> QED
        BY <4>1 DEF a
    <3>6. CASE IsPrefix(p, q) /\ Len(p) # Len(q)
      <4> DEFINE n == q[Len(p) + 1]
      <4>1. d \notin File \cup {None} /\ Len(p) + 1 \in 1 .. Len(q) /\ n \in Children(tree, d)
        BY <1>1, <2>5, <3>2, <3>6, AbovePath DEF d
      <4>2. n \in Segment
        BY <3>2, <4>1
      <4>3. IsPrefix(Append(p, n), q)
        BY <2>5, <3>2, <3>6, <4>2, PrefixAppend
      <4>4. kind = "dir"
        BY <4>1, StatFacts DEF kind, d
      <4> HIDE DEF n
      <4>5. PICK i \in DOMAIN first : first[i] = Append(p, n)
        BY <2>6, <4>1, <4>4
      <4> QED
        BY <2>8, <4>3, <4>5
    <3> QED
      BY <2>4, <2>5, <3>1, <3>3, <3>4, <3>5, <3>6
  <2>13. at'[r] = "walking"
    BY <1>2, <2>1
  <2> HIDE DEF more
  <2>14. /\ todo'[r] \in Seq(Seq(Segment))
         /\ \A i \in DOMAIN todo'[r] : IsPrefix(Path(r)', todo'[r][i])
         /\ found'[r] \cap Universe \subseteq UNION {v.below : v \in saw'[r]}
         /\ \A q \in Universe : (\A v \in saw'[r] : q \in v.below) =>
              q \in found'[r] \/ \E i \in DOMAIN todo'[r] : IsPrefix(todo'[r][i], q)
    BY <2>2, <2>3, <2>8, <2>10, <2>11, <2>12
  <2> QED
    BY <2>13, <2>14 DEF Walked, Universe
<1> QED
  BY <1>3, <1>4

LEMMA WalkEndWalked ==
  ASSUME FileInv, TreeInv, NEW r \in Requests, Moved(r), Walked(r), WalkEnd(r)
  PROVE  Walked(r)'
<1>1. at[r] = "walking" /\ todo[r] = <<>> /\ found' = found /\ at'[r] = "done" /\ answer'[r] = 200
  BY DEF WalkEnd, Reply, Finish, FileInv, HandlerTypes
<1>2. saw[r] \subseteq saw'[r]
  BY WatchSees DEF Moved
<1>3. /\ found[r] \cap Universe \subseteq UNION {v.below : v \in saw[r]}
      /\ \A q \in Universe : (\A v \in saw[r] : q \in v.below) => q \in found[r]
  BY <1>1 DEF Walked
<1> DEFINE now == View(tree', body'[r])
<1>4. now \in saw'[r] /\ now.below \subseteq Universe
  <2>1. body[r].op = "walk" /\ body'[r] = body[r] /\ Watch
    BY <1>1 DEF TreeInv, Placed, Moved
  <2>2. now \in saw'[r]
    BY <1>1, <2>1, WatchSees
  <2>3. now.below = Below(tree', Abs(body'[r].path), body'[r].op = "walk")
    BY <2>1, ViewFields
  <2> QED
    BY <2>2, <2>3 DEF Below
<1> HIDE DEF now
<1>5. \A q : (\A v \in saw'[r] : q \in v.below) => q \in found[r]
  BY <1>2, <1>3, <1>4
<1> QED
  BY <1>1, <1>2, <1>3, <1>5 DEF Walked

LEMMA WalkedNextInv ==
  FileInv /\ TreeInv /\ [Next]_vars /\ (\A r \in Requests : Walked(r)) => \A r \in Requests : Walked(r)'
<1> SUFFICES ASSUME FileInv, TreeInv, [Next]_vars, NEW r \in Requests, Walked(r)
             PROVE  Walked(r)'
  OBVIOUS
<1>1. CASE Handler(r)
  <2>1. Moved(r)
    BY <1>1, HandlerMoves
  <2>2. ASSUME \/ ReadOpen(r) \/ ReadBlock(r)
               \/ WriteOpen(r) \/ WriteFill(r) \/ WriteShort(r)
               \/ DeleteRemove(r) \/ DeleteEntry(r) \/ DeleteDir(r)
               \/ MoveMkdir(r) \/ MoveRename(r)
        PROVE  Walked(r)'
    <3>1. at[r] \in Active \ {"listing", "walking"}
      BY <2>2 DEF ReadOpen, ReadBlock, WriteOpen, WriteFill, WriteShort, DeleteRemove, DeleteEntry,
                  DeleteDir, MoveMkdir, MoveRename, Active
    <3> QED
      BY <2>1, <3>1, OtherWalked
  <2> QED
    BY <1>1, <2>1, <2>2, BeginWalked, ListWalked, WalkStartWalked, VisitWalked, WalkEndWalked DEF Handler
<1>2. ASSUME NEW q \in Requests, Handler(q), q # r
      PROVE  Walked(r)'
  <2>1. Watch /\ Waits(r)
    BY <1>2, HandlerMoves DEF Moved, Waits
  <2> QED
    BY <2>1, WaitsWalked
<1>3. CASE Stop \/ StopCleanly \/ Die \/ Restart
  <2>1. Watch /\ Waits(r)
    BY <1>3, ProcessMoves
  <2> QED
    BY <2>1, WaitsWalked
<1>4. CASE UNCHANGED vars
  <2>1. at' = at /\ body' = body /\ answer' = answer /\ todo' = todo /\ found' = found /\ saw' = saw
    BY <1>4 DEF vars, disk, locals, history
  <2>2. Path(r)' = Path(r)
    BY <2>1 DEF Path
  <2> QED
    BY <2>1, <2>2 DEF Walked, Universe
<1> QED
  BY <1>1, <1>2, <1>3, <1>4 DEF Next

\* handleList is no snapshot, and yet what it answers has every entry that was
\* there all the time it ran, and none that never was.
THEOREM ListingsMissNothing == Spec => []ListsAreRegular
<1>1. Init => FileInv /\ TreeInv /\ \A r \in Requests : Walked(r)
  <2>1. Init => \A r \in Requests : at[r] = "new" /\ found[r] = {}
    BY DEF Init
  <2>2. \A r \in Requests : at[r] = "new" /\ found[r] = {} => Walked(r)
    BY DEF Walked
  <2> QED
    BY <2>1, <2>2, FileInitInv, TreeInitInv
<1>2. /\ FileInv /\ TreeInv /\ (\A r \in Requests : Walked(r)) /\ [Next]_vars
      => (FileInv /\ TreeInv /\ \A r \in Requests : Walked(r))'
  BY FileNextInv, TreeNextInv, WalkedNextInv
<1>3. (\A r \in Requests : Walked(r)) => ListsAreRegular
  BY DEF Walked, ListsAreRegular
<1> QED
  BY <1>1, <1>2, <1>3, PTL DEF Spec

=============================================================================
