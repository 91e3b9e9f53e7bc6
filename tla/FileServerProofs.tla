-------------------------- MODULE FileServerProofs --------------------------
(***************************************************************************)
(* Proofs about FileServer, for any requests, bodies, limits and faults:   *)
(* what overlapping reads and writes can make of a file.  They hold        *)
(* whatever the directory looks like, so that nothing here opens the       *)
(* definitions about paths and links.                                      *)
(***************************************************************************)
EXTENDS FileServer, TLAPS

\* No other write had a file open while w had.
Alone(w) == \A v \in Requests : Together(v, w) => body[v].op = "read"
Close(r, a, b) == a = b \/ Together(a, b) \/ Together(r, a) \/ Together(r, b)

AnyBody == (UNION {Bodies[r] : r \in Requests}) \cup {None}
HandlerTypes ==
  /\ at \in [Requests -> Active \cup {"new", "done", "lost"}]
  /\ answer \in [Requests -> {0, 200, 201, 204, 400, 404, 413, 500}]
  /\ held \in [Requests -> File \cup {None}]
  /\ data \in [File -> Seq(File)] /\ got \in [Requests -> Seq(File)]
  /\ body \in [Requests -> AnyBody] /\ DOMAIN last = File
  /\ \A r \in Requests : at[r] # "new" => body[r] \in Bodies[r]

\* What a handler has at each of its places.
Phases(r) ==
  /\ held[r] # None <=> at[r] \in {"reading", "filling"}
  /\ at[r] = "filling" => body[r].op = "write"
  /\ at[r] \in {"new", "opening"} => got[r] = <<>>
  /\ at[r] # "done" => answer[r] = 0

\* Requests that have one file open have met, and met only while they ran.
Meets(v, w) ==
  /\ (v # w /\ held[v] # None /\ held[v] = held[w]) => Together(v, w)
  /\ Together(v, w) => at[v] # "new" /\ at[w] # "new"

\* A write that is yet to fill its file has met whoever truncated the file
\* after it and whoever has filled it since.
Writer(r) ==
  at[r] = "filling" =>
    /\ last[held[r]] = r \/ Together(r, last[held[r]])
    /\ \A i \in DOMAIN data[held[r]] :
         data[held[r]][i] = r \/ Together(r, data[held[r]][i])

\* What a read has so far goes with what it may yet find in its file.
Reader(r) ==
  /\ \A i, j \in DOMAIN got[r] : Close(r, got[r][i], got[r][j])
  /\ at[r] = "reading" =>
       \A i \in DOMAIN got[r], j \in DOMAIN data[held[r]] : Close(r, got[r][i], data[held[r]][j])

Mixed(f) ==
  \A i, j \in DOMAIN data[f] : data[f][i] = data[f][j] \/ Together(data[f][i], data[f][j])

\* The file as the last write to truncate it leaves it.
Truncated(f) ==
  \A w \in Requests : last[f] = w =>
    /\ at[w] \in {"filling", "done", "lost"}
    /\ at[w] = "filling" => held[w] = f
    /\ Alone(w) => /\ at[w] = "filling" => data[f] = <<>>
                   /\ answer[w] = 201 => data[f] = Payload(w, body[w].size)

FileInv ==
  /\ HandlerTypes
  /\ \A r \in Requests : Phases(r) /\ Writer(r) /\ Reader(r)
  /\ \A v, w \in Requests : Meets(v, w)
  /\ \A f \in File : Mixed(f) /\ Truncated(f)

-----------------------------------------------------------------------------
LEMMA FileInitInv == Init => FileInv
<1> SUFFICES ASSUME Init
             PROVE  FileInv
  OBVIOUS
<1>1. \A s \in Seeds : Payload(s, 1) \in Seq(File)
  BY DEF Payload, File
<1>2. HandlerTypes
  <2>1. data \in [File -> Seq(File)] /\ DOMAIN last = File
    BY <1>1 DEF Init, File
  <2>2. /\ at = [r \in Requests |-> "new"] /\ body = [r \in Requests |-> None]
        /\ answer = [r \in Requests |-> 0] /\ held = [r \in Requests |-> None]
        /\ got = [r \in Requests |-> <<>>]
    BY DEF Init
  <2>3. got \in [Requests -> Seq(File)]
    BY <2>2
  <2>4. body \in [Requests -> AnyBody]
    BY <2>2 DEF AnyBody
  <2>5. /\ at \in [Requests -> Active \cup {"new", "done", "lost"}]
        /\ answer \in [Requests -> {0, 200, 201, 204, 400, 404, 413, 500}]
        /\ held \in [Requests -> File \cup {None}]
    BY <2>2
  <2>6. \A r \in Requests : at[r] = "new"
    BY <2>2
  <2> QED
    BY <2>1, <2>3, <2>4, <2>5, <2>6 DEF HandlerTypes
<1>3. ASSUME NEW r \in Requests
      PROVE  Phases(r) /\ Writer(r) /\ Reader(r)
  BY <1>3 DEF Init, Phases, Writer, Reader
<1>4. ASSUME NEW v \in Requests, NEW w \in Requests
      PROVE  Meets(v, w)
  BY <1>4 DEF Init, Meets, Together
<1>5. ASSUME NEW f \in File
      PROVE  Mixed(f) /\ Truncated(f)
  <2>1. PICK s \in Seeds : \E p \in {<<>>} \cup SeedPaths :
          /\ data = [g \in File |-> IF g = s /\ p # <<>> THEN Payload(s, 1) ELSE <<>>]
          /\ last = [g \in File |-> IF g = s /\ p # <<>> THEN s ELSE None]
    BY DEF Init
  <2>2. \A i, j \in DOMAIN data[f] : data[f][i] = data[f][j]
    BY <2>1 DEF Payload
  <2>3. last[f] \notin Requests
    BY <2>1, NodesAssumption DEF File
  <2> QED
    BY <2>2, <2>3 DEF Mixed, Truncated
<1> QED
  BY <1>2, <1>3, <1>4, <1>5 DEF FileInv

-----------------------------------------------------------------------------
\* A step that opens and changes no file: a handler begins, goes on or answers.
MayGo(r, x, s, b) ==
  /\ at[r] \notin {"filling", "done", "lost"}
  /\ x \in (Active \cup {"done"}) \ {"reading", "filling"} /\ (x = "opening" => at[r] = "new")
  /\ s \in {0, 200, 201, 204, 400, 404, 413, 500} /\ (x # "done" => s = 0)
  /\ b \in Bodies[r] /\ (at[r] # "new" => b = body[r])
Goes(r, x, s, b) ==
  /\ at' = [at EXCEPT ![r] = x] /\ answer' = [answer EXCEPT ![r] = s]
  /\ body' = [body EXCEPT ![r] = b] /\ held' = [held EXCEPT ![r] = None]
  /\ UNCHANGED <<data, last, got, met>>

LEMMA QuietInv ==
  ASSUME FileInv, NEW r \in Requests, NEW x, NEW s, NEW b, MayGo(r, x, s, b), Goes(r, x, s, b)
  PROVE  FileInv'
<1> USE DEF MayGo, Goes
<1>1. HandlerTypes /\ None \notin File
  BY NodesAssumption DEF FileInv
<1>2. HandlerTypes'
  <2>1. b \in AnyBody
    BY DEF AnyBody
  <2> QED
    BY <1>1, <2>1 DEF HandlerTypes
<1>3. ASSUME NEW q \in Requests, q # r
      PROVE  at'[q] = at[q] /\ answer'[q] = answer[q] /\ held'[q] = held[q] /\ body'[q] = body[q]
  BY <1>1, <1>3 DEF HandlerTypes
<1>4. at'[r] = x /\ answer'[r] = s /\ held'[r] = None /\ body'[r] = b
  BY <1>1 DEF HandlerTypes
<1>5. x \notin {"new", "reading", "filling", "lost"}
  BY DEF Active
<1>6. ASSUME NEW q \in Requests
      PROVE  Phases(q)' /\ Writer(q)' /\ Reader(q)'
  <2>1. Phases(q) /\ Writer(q) /\ Reader(q)
    BY DEF FileInv
  <2>2. CASE q # r
    <3>1. data' = data /\ got' = got /\ last' = last /\ met' = met
      OBVIOUS
    <3>2. at'[q] = at[q] /\ answer'[q] = answer[q] /\ held'[q] = held[q] /\ body'[q] = body[q]
      BY <1>3, <2>2
    <3>3. Phases(q)'
      BY ONLY <2>1, <3>1, <3>2 DEF Phases
    <3>4. Writer(q)'
      BY ONLY <2>1, <3>1, <3>2 DEF Writer, Together
    <3>5. Reader(q)'
      <4>1. \A i, j \in DOMAIN got'[q] : Close(q, got[q][i], got[q][j])'
        BY ONLY <2>1, <3>1 DEF Reader, Close, Together
      <4>2. ASSUME at'[q] = "reading", NEW i \in DOMAIN got'[q], NEW j \in DOMAIN data'[held'[q]]
            PROVE  Close(q, got[q][i], data[held[q]][j])'
        <5>1. at[q] = "reading" /\ i \in DOMAIN got[q] /\ j \in DOMAIN data[held[q]]
          BY ONLY <3>1, <3>2, <4>2
        <5>2. Close(q, got[q][i], data[held[q]][j])
          BY ONLY <2>1, <5>1 DEF Reader
        <5> QED
          BY ONLY <3>1, <3>2, <5>2 DEF Close, Together
      <4> QED
        BY <4>1, <4>2 DEF Reader
    <3> QED
      BY <3>3, <3>4, <3>5
  <2>3. CASE q = r
    <3>1. Phases(r)'
      BY <1>4, <1>5, <2>1, <2>3 DEF Phases
    <3>2. Writer(r)'
      BY <1>4, <1>5 DEF Writer
    <3>3. Reader(r)'
      <4>1. got' = got /\ met' = met /\ Reader(r)
        BY <2>1, <2>3
      <4>2. \A i, j \in DOMAIN got'[r] : Close(r, got[r][i], got[r][j])'
        BY ONLY <4>1 DEF Reader, Close, Together
      <4> QED
        BY <1>4, <1>5, <4>2 DEF Reader
    <3> QED
      BY <2>3, <3>1, <3>2, <3>3
  <2> QED
    BY <2>2, <2>3
<1>7. ASSUME NEW v \in Requests, NEW w \in Requests
      PROVE  Meets(v, w)'
  <2>1. Meets(v, w)
    BY DEF FileInv
  <2>2. \A q \in {v, w} : (held'[q] # None => held'[q] = held[q]) /\ (at[q] # "new" => at'[q] # "new")
    BY <1>3, <1>4, <1>5
  <2> QED
    BY <2>1, <2>2 DEF Meets, Together
<1>8. ASSUME NEW f \in File
      PROVE  Mixed(f)'
  <2>1. Mixed(f)
    BY DEF FileInv
  <2>2. data' = data /\ met' = met
    OBVIOUS
  <2> QED
    BY ONLY <2>1, <2>2 DEF Mixed, Together
<1>9. ASSUME NEW f \in File
      PROVE  Truncated(f)'
  <2> SUFFICES ASSUME NEW w \in Requests, last'[f] = w
               PROVE  /\ at'[w] \in {"filling", "done", "lost"}
                      /\ at'[w] = "filling" => held'[w] = f
                      /\ Alone(w)' => /\ at'[w] = "filling" => data'[f] = <<>>
                                      /\ answer'[w] = 201 => data'[f] = Payload(w, body[w].size)'
    BY DEF Truncated
  <2>1. /\ at[w] \in {"filling", "done", "lost"}
        /\ at[w] = "filling" => held[w] = f
        /\ Alone(w) => /\ at[w] = "filling" => data[f] = <<>>
                       /\ answer[w] = 201 => data[f] = Payload(w, body[w].size)
    BY DEF FileInv, Truncated
  <2>2. w # r
    BY <2>1
  <2>3. Alone(w)' => Alone(w)
    <3> SUFFICES ASSUME Alone(w)', NEW v \in Requests, Together(v, w)
                 PROVE  body[v].op = "read"
      BY DEF Alone
    <3>1. body'[v].op = "read" /\ at[v] # "new"
      BY DEF Alone, Together, FileInv, Meets
    <3> QED
      BY <1>3, <1>4, <3>1
  <2> QED
    BY <1>3, <2>1, <2>2, <2>3 DEF Payload
<1> QED
  BY <1>2, <1>6, <1>7, <1>8, <1>9 DEF FileInv

\* Who opens a file meets whoever has it open.
LEMMA OpenMeets ==
  ASSUME FileInv, NEW r \in Requests, at[r] = "opening", NEW f \in File, Open(r, f),
         NEW x \in {"reading", "filling"}, at' = [at EXCEPT ![r] = x],
         NEW v \in Requests, NEW w \in Requests
  PROVE  Meets(v, w)'
<1> USE DEF Together
<1>1. HandlerTypes /\ None \notin File /\ Meets(v, w)
  BY NodesAssumption DEF FileInv
<1>2. /\ held'[r] = f /\ \A q \in Requests : q # r => held'[q] = held[q]
      /\ at'[r] = x /\ \A q \in Requests : q # r => at'[q] = at[q]
  BY <1>1 DEF HandlerTypes, Open
<1>3. met' = met \cup {{r, q} : q \in {p \in Requests : held[p] = f}}
  BY DEF Open
<1>4. (v # w /\ held'[v] # None /\ held'[v] = held'[w]) => Together(v, w)'
  BY ONLY <1>1, <1>2, <1>3, v \in Requests, w \in Requests DEF Meets, Together
<1>5. ASSUME {v, w} \in met'
      PROVE  at'[v] # "new" /\ at'[w] # "new"
  <2>1. CASE {v, w} \in met
    BY <1>1, <1>2, <2>1 DEF Meets
  <2>2. ASSUME NEW q \in Requests, held[q] = f, {v, w} = {r, q}
        PROVE  at'[v] # "new" /\ at'[w] # "new"
    <3>1. at[q] # "new"
      BY <1>1, <2>2 DEF FileInv, Phases
    <3> QED
      BY <1>2, <2>2, <3>1
  <2> QED
    BY <1>3, <1>5, <2>1, <2>2
<1> QED
  BY <1>4, <1>5 DEF Meets

\* Open, by a read.
LEMMA ReadOpenInv ==
  ASSUME FileInv, NEW r \in Requests, at[r] = "opening", NEW f \in File,
         Open(r, f), at' = [at EXCEPT ![r] = "reading"],
         UNCHANGED <<body, answer, data, got, last>>
  PROVE  FileInv'
<1> USE DEF Together, Open
<1>0. /\ HandlerTypes
      /\ \A q \in Requests : Phases(q) /\ Writer(q) /\ Reader(q)
      /\ \A v, w \in Requests : Meets(v, w)
      /\ \A g \in File : Mixed(g) /\ Truncated(g)
  BY DEF FileInv
<1>1. HandlerTypes'
  BY <1>0 DEF HandlerTypes, Active
<1>2. None \notin File
  BY NodesAssumption
<1>3. ASSUME NEW q \in Requests
      PROVE  Phases(q)'
  BY <1>0, <1>2 DEF HandlerTypes, Phases
<1>4. /\ \A c, d : Together(c, d) => {c, d} \in met'
      /\ at'[r] = "reading" /\ \A q \in Requests : q # r => at'[q] = at[q] /\ held'[q] = held[q]
      /\ data' = data /\ got' = got /\ last' = last
  BY <1>0 DEF HandlerTypes
<1>5. ASSUME NEW q \in Requests
      PROVE  Writer(q)' /\ Reader(q)'
  <2>1. Writer(q) /\ Reader(q) /\ Phases(q)
    BY <1>0
  <2>2. Writer(q)'
    BY ONLY <1>4, <2>1, q \in Requests DEF Writer, Together
  <2>3. \A i, j \in DOMAIN got'[q] : Close(q, got[q][i], got[q][j])'
    BY ONLY <1>4, <2>1 DEF Reader, Close, Together
  <2>4. ASSUME at'[q] = "reading", NEW i \in DOMAIN got'[q], NEW j \in DOMAIN data'[held'[q]]
        PROVE  Close(q, got[q][i], data[held[q]][j])'
    <3>1. q # r
      BY <1>4, <2>1, <2>4 DEF Phases
    <3>2. Close(q, got[q][i], data[held[q]][j])
      BY <1>4, <2>1, <2>4, <3>1 DEF Reader
    <3> QED
      BY ONLY <1>4, <3>1, <3>2, q \in Requests DEF Close, Together
  <2> QED
    BY <2>2, <2>3, <2>4 DEF Reader
<1>6. ASSUME NEW v \in Requests, NEW w \in Requests
      PROVE  Meets(v, w)'
  BY OpenMeets
<1>7. ASSUME NEW g \in File
      PROVE  Mixed(g)'
  BY <1>0 DEF Mixed
<1>8. ASSUME NEW g \in File
      PROVE  Truncated(g)'
  <2> SUFFICES ASSUME NEW w \in Requests, last'[g] = w
               PROVE  /\ at'[w] \in {"filling", "done", "lost"}
                      /\ at'[w] = "filling" => held'[w] = g
                      /\ Alone(w)' => /\ at'[w] = "filling" => data'[g] = <<>>
                                      /\ answer'[w] = 201 => data'[g] = Payload(w, body[w].size)'
    BY DEF Truncated
  <2>1. at[w] \in {"filling", "done", "lost"} /\ w # r
    BY <1>0 DEF Truncated
  <2>2. at'[w] = at[w] /\ held'[w] = held[w]
    BY <1>0, <2>1 DEF HandlerTypes
  <2>3. Alone(w)' => Alone(w)
    BY DEF Alone
  <2> QED
    BY <1>0, <2>2, <2>3 DEF Truncated, Payload
<1> QED
  BY <1>1, <1>3, <1>5, <1>6, <1>7, <1>8 DEF FileInv

\* One more block of a read.
LEMMA ReadBlockInv ==
  ASSUME FileInv, NEW r \in Requests, at[r] = "reading", Len(got[r]) < Len(data[held[r]]),
         got' = [got EXCEPT ![r] = Append(@, data[held[r]][Len(@) + 1])],
         UNCHANGED <<at, body, answer, held, data, last, met>>
  PROVE  FileInv'
<1> DEFINE f == held[r]
           n == Len(got[r])
           more == Append(got[r], data[f][n + 1])
<1> USE DEF Together
<1>0. /\ HandlerTypes
      /\ \A q \in Requests : Phases(q) /\ Writer(q) /\ Reader(q)
      /\ \A v, w \in Requests : Meets(v, w)
      /\ \A g \in File : Mixed(g) /\ Truncated(g)
  BY DEF FileInv
<1>1. f \in File /\ data[f] \in Seq(File) /\ got[r] \in Seq(File)
  BY <1>0 DEF HandlerTypes, Phases
<1>2. n + 1 \in DOMAIN data[f] /\ data[f][n + 1] \in File
  BY <1>1
<1>3. /\ more \in Seq(File) /\ DOMAIN more = 1 .. n + 1
      /\ \A i \in DOMAIN more : more[i] = IF i = n + 1 THEN data[f][n + 1] ELSE got[r][i]
  BY <1>1, <1>2
<1>4. got' = [got EXCEPT ![r] = more]
  BY <1>0 DEF HandlerTypes
<1>5. HandlerTypes'
  <2> HIDE DEF more, f, n
  <2> QED
    BY <1>0, <1>3, <1>4 DEF HandlerTypes
<1>6. /\ at' = at /\ answer' = answer /\ held' = held /\ body' = body
      /\ data' = data /\ last' = last /\ met' = met
  OBVIOUS
<1>7. ASSUME NEW q \in Requests
      PROVE  Phases(q)' /\ Writer(q)' /\ Reader(q)'
  <2>1. Phases(q) /\ Writer(q) /\ Reader(q)
    BY <1>0
  <2>2. Writer(q)'
    BY ONLY <1>6, <2>1 DEF Writer, Together
  <2>3. CASE q # r
    <3>1. got'[q] = got[q]
      BY <1>0, <2>3 DEF HandlerTypes
    <3>2. Phases(q)'
      BY ONLY <1>6, <2>1, <3>1 DEF Phases
    <3>3. Reader(q)'
      BY ONLY <1>6, <2>1, <3>1 DEF Reader, Close, Together
    <3> QED
      BY <2>2, <3>2, <3>3
  <2>4. CASE q = r
    <3>1. got'[r] = more
      BY <1>0, <1>4 DEF HandlerTypes
    <3>2. \A i \in DOMAIN more : (i \in DOMAIN got[r] /\ more[i] = got[r][i]) \/ more[i] = data[f][n + 1]
      BY <1>1, <1>3
    <3>3. /\ \A i, j \in DOMAIN got[r] : Close(r, got[r][i], got[r][j])
          /\ \A i \in DOMAIN got[r], j \in DOMAIN data[f] : Close(r, got[r][i], data[f][j])
          /\ \A i, j \in DOMAIN data[f] : Close(r, data[f][i], data[f][j])
      BY <1>0, <1>1 DEF Reader, Mixed, Close
    <3>4. \A c, d : Close(r, c, d) => Close(r, d, c)
      BY DEF Close
    <3>5. \A i, j \in DOMAIN more : Close(r, more[i], more[j])
      <4> HIDE DEF more, f, n
      <4> QED
        BY <1>2, <3>2, <3>3, <3>4
    <3>6. \A i \in DOMAIN more, j \in DOMAIN data[f] : Close(r, more[i], data[f][j])
      <4> HIDE DEF more, f, n
      <4> QED
        BY <1>2, <3>2, <3>3
    <3>7. Reader(r)'
      <4> HIDE DEF more
      <4> QED
        BY ONLY <1>6, <3>1, <3>5, <3>6 DEF Reader, Close, Together
    <3>8. Phases(r)'
      BY ONLY <1>6, <2>1, <2>4, at[r] = "reading" DEF Phases
    <3> QED
      BY <2>2, <2>4, <3>7, <3>8
  <2> QED
    BY <2>3, <2>4
<1>8. ASSUME NEW v \in Requests, NEW w \in Requests
      PROVE  Meets(v, w)'
  BY <1>0 DEF Meets
<1>9. ASSUME NEW g \in File
      PROVE  Mixed(g)' /\ Truncated(g)'
  <2>1. Mixed(g) /\ Truncated(g)
    BY <1>0
  <2>2. Mixed(g)'
    BY ONLY <1>6, <2>1 DEF Mixed, Together
  <2>3. Truncated(g)'
    BY ONLY <1>6, <2>1 DEF Truncated, Alone, Together, Payload
  <2> QED
    BY <2>2, <2>3
<1> QED
  BY <1>5, <1>7, <1>8, <1>9 DEF FileInv

\* WriteFile's open: the file is empty, and everybody who has it open meets the write.
LEMMA WriteOpenInv ==
  ASSUME FileInv, NEW r \in Requests, at[r] = "opening", body[r].op = "write", NEW f \in File,
         Open(r, f), at' = [at EXCEPT ![r] = "filling"],
         data' = [data EXCEPT ![f] = <<>>], last' = [last EXCEPT ![f] = r],
         UNCHANGED <<body, answer, got>>
  PROVE  FileInv'
<1>1. HandlerTypes /\ None \notin File
  BY NodesAssumption DEF FileInv
<1>2. HandlerTypes'
  BY <1>1 DEF HandlerTypes, Active, Open
<1>3. /\ at'[r] = "filling" /\ held'[r] = f
      /\ \A q \in Requests : q # r => at'[q] = at[q] /\ held'[q] = held[q]
  BY <1>1 DEF HandlerTypes, Open
<1>4. /\ data'[f] = <<>> /\ last'[f] = r
      /\ \A g \in File : g # f => data'[g] = data[g] /\ last'[g] = last[g]
  BY <1>1 DEF HandlerTypes
<1>5. /\ \A v, w : Together(v, w) => {v, w} \in met'
      /\ \A q \in Requests : held[q] = f => {q, r} \in met'
  <2>1. \A q : {q, r} = {r, q}
    OBVIOUS
  <2> QED
    BY <2>1 DEF Open, Together
<1>6. ASSUME NEW q \in Requests
      PROVE  Phases(q)' /\ Writer(q)' /\ Reader(q)'
  <2>1. Phases(q) /\ Writer(q) /\ Reader(q)
    BY DEF FileInv
  <2>2. Phases(q)'
    BY <1>1, <1>3, <2>1 DEF Phases
  <2>3. Writer(q)'
    <3> SUFFICES ASSUME at'[q] = "filling"
                 PROVE  /\ last'[held'[q]] = q \/ {q, last'[held'[q]]} \in met'
                        /\ \A i \in DOMAIN data'[held'[q]] :
                             data'[held'[q]][i] = q \/ {q, data'[held'[q]][i]} \in met'
      BY DEF Writer, Together
    <3>1. CASE held'[q] = f
      <4>1. q = r \/ {q, r} \in met'
        <5>1. q = r \/ held[q] = f
          BY ONLY <1>3, <3>1, q \in Requests
        <5> QED
          BY ONLY <1>5, <5>1, q \in Requests
      <4>2. last'[held'[q]] = r /\ data'[held'[q]] = <<>>
        BY ONLY <1>4, <3>1
      <4>3. \A i \in DOMAIN data'[held'[q]] : FALSE
        BY ONLY <4>2
      <4> QED
        BY ONLY <4>1, <4>2, <4>3
    <3>2. CASE held'[q] # f
      <4>1. q # r /\ at[q] = "filling" /\ held'[q] = held[q] /\ held[q] \in File
        BY <1>1, <1>3, <2>1, <3>2 DEF Phases, HandlerTypes
      <4>2. data'[held[q]] = data[held[q]] /\ last'[held[q]] = last[held[q]]
        BY <1>4, <3>2, <4>1
      <4> QED
        BY <1>5, <2>1, <4>1, <4>2 DEF Writer
    <3> QED
      BY <3>1, <3>2
  <2>4. Reader(q)'
    <3>2. \A i, j \in DOMAIN got'[q] : Close(q, got[q][i], got[q][j])'
      BY <2>1, <1>5 DEF Reader, Close, Together
    <3>3. ASSUME at'[q] = "reading", NEW i \in DOMAIN got'[q], NEW j \in DOMAIN data'[held'[q]]
          PROVE  Close(q, got[q][i], data[held[q]][j])'
      <4>1. q # r /\ at[q] = "reading" /\ held'[q] = held[q] /\ held[q] \in File
        BY <1>1, <1>3, <2>1, <3>3 DEF Phases, HandlerTypes
      <4>2. held[q] # f
        BY <1>4, <3>3, <4>1
      <4>3. data'[held[q]] = data[held[q]]
        BY <1>4, <4>1, <4>2
      <4>4. Close(q, got[q][i], data[held[q]][j])
        BY <2>1, <3>3, <4>1, <4>3 DEF Reader
      <4> QED
        BY <1>5, <4>1, <4>3, <4>4 DEF Close, Together
    <3> QED
      BY <3>2, <3>3 DEF Reader
  <2> QED
    BY <2>2, <2>3, <2>4
<1>7. ASSUME NEW v \in Requests, NEW w \in Requests
      PROVE  Meets(v, w)'
  BY OpenMeets
<1>8. ASSUME NEW g \in File
      PROVE  Mixed(g)'
  <2>1. Mixed(g)
    BY DEF FileInv
  <2>2. data'[g] = data[g] \/ data'[g] = <<>>
    BY <1>4
  <2>3. \A i, j \in DOMAIN data'[g] : data'[g][i] = data'[g][j] \/ {data'[g][i], data'[g][j]} \in met'
    BY ONLY <1>5, <2>1, <2>2 DEF Mixed
  <2> QED
    BY <2>3 DEF Mixed, Together
<1>9. ASSUME NEW g \in File
      PROVE  Truncated(g)'
  <2> SUFFICES ASSUME NEW w \in Requests, last'[g] = w
               PROVE  /\ at'[w] \in {"filling", "done", "lost"}
                      /\ at'[w] = "filling" => held'[w] = g
                      /\ Alone(w)' => /\ at'[w] = "filling" => data'[g] = <<>>
                                      /\ answer'[w] = 201 => data'[g] = Payload(w, body[w].size)'
    BY DEF Truncated
  <2>1. CASE g = f
    <3>1. w = r /\ answer'[r] = 0
      BY <1>4, <2>1 DEF FileInv, Phases
    <3> QED
      BY <1>3, <1>4, <2>1, <3>1
  <2>2. CASE g # f
    <3>1. data'[g] = data[g] /\ last[g] = w
      BY <1>4, <2>2
    <3>2. /\ at[w] \in {"filling", "done", "lost"}
          /\ at[w] = "filling" => held[w] = g
          /\ Alone(w) => /\ at[w] = "filling" => data[g] = <<>>
                         /\ answer[w] = 201 => data[g] = Payload(w, body[w].size)
      BY <3>1 DEF FileInv, Truncated
    <3>3. w # r
      BY <3>2
    <3>4. Alone(w)' => Alone(w)
      BY <1>5 DEF Alone, Together
    <3> QED
      BY <1>3, <3>1, <3>2, <3>3, <3>4 DEF Payload
  <2> QED
    BY <2>1, <2>2
<1> QED
  BY <1>2, <1>6, <1>7, <1>8, <1>9 DEF FileInv

\* What a write of n blocks makes of a file.
LEMMA Written ==
  ASSUME NEW r \in Requests, NEW n \in Nat, NEW old \in Seq(File)
  PROVE  LET new == Overlay(Payload(r, n), old) IN
         /\ new \in Seq(File)
         /\ \A i \in DOMAIN new : new[i] = r \/ (i \in DOMAIN old /\ new[i] = old[i])
         /\ old = <<>> => new = Payload(r, n)
<1> DEFINE new == Overlay(Payload(r, n), old)
           m   == IF n > Len(old) THEN n ELSE Len(old)
<1>1. Payload(r, n) \in Seq(File) /\ Len(Payload(r, n)) = n /\ \A i \in 1 .. n : Payload(r, n)[i] = r
  BY DEF Payload, File
<1>2. new = [i \in 1 .. m |-> IF i <= n THEN Payload(r, n)[i] ELSE old[i]]
  BY <1>1 DEF Overlay
<1>3. m \in Nat /\ \A i \in 1 .. m : i <= n \/ i \in 1 .. Len(old)
  OBVIOUS
<1>4. \A i \in 1 .. m : new[i] = r \/ (i \in DOMAIN old /\ new[i] = old[i])
  BY <1>1, <1>2, <1>3
<1>5. \A i \in 1 .. m : new[i] \in File
  BY <1>4 DEF File
<1>6. new \in Seq(File)
  <2> HIDE DEF m
  <2> QED
    BY <1>2, <1>3, <1>5
<1>7. old = <<>> => new = Payload(r, n)
  <2> SUFFICES ASSUME old = <<>>
               PROVE  new = Payload(r, n)
    OBVIOUS
  <2>1. m = n
    OBVIOUS
  <2> QED
    BY <1>1, <1>2, <2>1 DEF Payload
<1> QED
  BY <1>2, <1>4, <1>6, <1>7

\* WriteFile's write, all of it or the start.
Fill(r, n, s) ==
  /\ at[r] = "filling" /\ (s = 201 => n = body[r].size)
  /\ data' = [data EXCEPT ![held[r]] = Overlay(Payload(r, n), @)]
  /\ at' = [at EXCEPT ![r] = "done"] /\ answer' = [answer EXCEPT ![r] = s]
  /\ held' = [held EXCEPT ![r] = None]
  /\ UNCHANGED <<body, got, last, met>>

LEMMA FillInv ==
  ASSUME FileInv, NEW r \in Requests, NEW n \in Nat, NEW s \in {201, 500}, Fill(r, n, s)
  PROVE  FileInv'
<1> USE DEF Fill
<1> DEFINE f   == held[r]
           new == Overlay(Payload(r, n), data[f])
<1>1. HandlerTypes /\ None \notin File
  BY NodesAssumption DEF FileInv
<1>2. Phases(r) /\ f \in File /\ data[f] \in Seq(File)
  BY <1>1 DEF FileInv, Phases, HandlerTypes
<1>3. /\ new \in Seq(File)
      /\ \A i \in DOMAIN new : new[i] = r \/ (i \in DOMAIN data[f] /\ new[i] = data[f][i])
      /\ data[f] = <<>> => new = Payload(r, n)
  BY <1>2, Written
<1>4. /\ data'[f] = new /\ \A g \in File : g # f => data'[g] = data[g]
      /\ data' \in [File -> Seq(File)]
  <2>1. data' = [data EXCEPT ![f] = new]
    OBVIOUS
  <2> HIDE DEF new
  <2> QED
    BY <1>1, <1>2, <1>3, <2>1 DEF HandlerTypes
<1>5. /\ at'[r] = "done" /\ answer'[r] = s /\ held'[r] = None
      /\ \A q \in Requests : q # r => at'[q] = at[q] /\ answer'[q] = answer[q] /\ held'[q] = held[q]
  BY <1>1 DEF HandlerTypes
<1>6. body' = body /\ got' = got /\ last' = last /\ met' = met
  OBVIOUS
<1> HIDE DEF new
<1>7. HandlerTypes'
  BY <1>1, <1>4 DEF HandlerTypes
<1>8. \A q \in Requests : q # r /\ held[q] = f => Together(q, r) /\ Together(r, q)
  <2>1. \A q : {q, r} = {r, q}
    OBVIOUS
  <2>2. \A q \in Requests : Meets(q, r)
    BY DEF FileInv
  <2> QED
    BY <1>1, <1>2, <2>1, <2>2 DEF Meets, Together
<1>9. ASSUME NEW q \in Requests
      PROVE  Phases(q)' /\ Writer(q)' /\ Reader(q)'
  <2>1. Phases(q) /\ Writer(q) /\ Reader(q)
    BY DEF FileInv
  <2>2. Phases(q)'
    BY <1>2, <1>5, <1>6, <2>1 DEF Phases
  <2>3. Writer(q)'
    <3> SUFFICES ASSUME at'[q] = "filling"
                 PROVE  Writer(q)'
      BY DEF Writer
    <3>1. q # r /\ at[q] = "filling" /\ held'[q] = held[q] /\ held[q] \in File
      BY <1>1, <1>5, <2>1 DEF Phases, HandlerTypes
    <3>2. /\ last[held[q]] = q \/ Together(q, last[held[q]])
          /\ \A i \in DOMAIN data[held[q]] : data[held[q]][i] = q \/ Together(q, data[held[q]][i])
      BY <2>1, <3>1 DEF Writer
    <3>3. ASSUME NEW i \in DOMAIN data'[held[q]]
          PROVE  data'[held[q]][i] = q \/ Together(q, data'[held[q]][i])
      <4>1. CASE held[q] = f
        <5>1. data'[f][i] = r \/ (i \in DOMAIN data[f] /\ data'[f][i] = data[f][i])
          BY ONLY <1>3, <1>4, <3>3, <4>1
        <5> QED
          BY <1>8, <3>1, <3>2, <4>1, <5>1
      <4>2. CASE held[q] # f
        <5>1. data'[held[q]] = data[held[q]]
          BY <1>4, <3>1, <4>2
        <5> QED
          BY <3>2, <3>3, <5>1
      <4> QED
        BY <4>1, <4>2
    <3> QED
      BY ONLY <1>6, <3>1, <3>2, <3>3 DEF Writer, Together
  <2>4. Reader(q)'
    <3>1. \A i, j \in DOMAIN got'[q] : Close(q, got[q][i], got[q][j])'
      BY ONLY <1>6, <2>1 DEF Reader, Close, Together
    <3>2. ASSUME at'[q] = "reading", NEW i \in DOMAIN got'[q], NEW j \in DOMAIN data'[held'[q]]
          PROVE  Close(q, got[q][i], data[held[q]][j])'
      <4>1. q # r /\ at[q] = "reading" /\ held'[q] = held[q] /\ held[q] \in File
        BY <1>1, <1>5, <2>1, <3>2 DEF Phases, HandlerTypes
      <4>2. \A k \in DOMAIN data[held[q]] : Close(q, got[q][i], data[held[q]][k])
        BY <1>6, <2>1, <3>2, <4>1 DEF Reader
      <4>3. Close(q, got[q][i], data'[held[q]][j])
        <5>1. CASE held[q] = f
          <6>1. data'[f][j] = r \/ (j \in DOMAIN data[f] /\ data'[f][j] = data[f][j])
            BY ONLY <1>3, <1>4, <3>2, <4>1, <5>1
          <6> QED
            BY <1>8, <4>1, <4>2, <5>1, <6>1 DEF Close
        <5>2. CASE held[q] # f
          BY <1>4, <3>2, <4>1, <4>2, <5>2
        <5> QED
          BY <5>1, <5>2
      <4> QED
        BY ONLY <1>6, <4>1, <4>3 DEF Close, Together
    <3> QED
      BY <3>1, <3>2 DEF Reader
  <2> QED
    BY <2>2, <2>3, <2>4
<1>10. ASSUME NEW v \in Requests, NEW w \in Requests
       PROVE  Meets(v, w)'
  <2>1. Meets(v, w)
    BY DEF FileInv
  <2>2. \A q \in {v, w} : (held'[q] # None => held'[q] = held[q]) /\ (at[q] # "new" => at'[q] # "new")
    BY <1>5
  <2> QED
    BY <1>6, <2>1, <2>2 DEF Meets, Together
<1>11. ASSUME NEW g \in File
       PROVE  Mixed(g)'
  <2>1. Mixed(g) /\ Writer(r)
    BY DEF FileInv
  <2>2. CASE g # f
    <3>1. data'[g] = data[g]
      BY <1>4, <2>2
    <3> QED
      BY ONLY <1>6, <2>1, <3>1 DEF Mixed, Together
  <2>3. ASSUME g = f, NEW i \in DOMAIN new, NEW j \in DOMAIN new
        PROVE  new[i] = new[j] \/ Together(new[i], new[j])
    <3>1. \A c, d : Together(c, d) => Together(d, c)
      <4>1. \A c, d : {c, d} = {d, c}
        OBVIOUS
      <4> QED
        BY <4>1 DEF Together
    <3>2. \A k \in DOMAIN data[f] : data[f][k] = r \/ Together(r, data[f][k])
      BY <2>1 DEF Writer
    <3>3. \A k, l \in DOMAIN data[f] : data[f][k] = data[f][l] \/ Together(data[f][k], data[f][l])
      BY <2>1, <2>3 DEF Mixed
    <3> QED
      BY ONLY <1>3, <2>3, <3>1, <3>2, <3>3
  <2> QED
    BY <1>4, <1>6, <2>2, <2>3 DEF Mixed, Together
<1>12. ASSUME NEW g \in File
       PROVE  Truncated(g)'
  <2> SUFFICES ASSUME NEW w \in Requests, last[g] = w
               PROVE  /\ at'[w] \in {"filling", "done", "lost"}
                      /\ at'[w] = "filling" => held'[w] = g
                      /\ Alone(w) => /\ at'[w] = "filling" => data'[g] = <<>>
                                     /\ answer'[w] = 201 => data'[g] = Payload(w, body[w].size)
    BY <1>6 DEF Truncated, Alone, Together, Payload
  <2>1. /\ at[w] \in {"filling", "done", "lost"}
        /\ at[w] = "filling" => held[w] = g
        /\ Alone(w) => /\ at[w] = "filling" => data[g] = <<>>
                       /\ answer[w] = 201 => data[g] = Payload(w, body[w].size)
    BY DEF FileInv, Truncated
  <2>2. CASE w = r
    <3>1. g = f
      BY <2>1, <2>2
    <3>2. Alone(r) => new = Payload(r, n)
      BY <1>3, <2>1, <2>2, <3>1
    <3> QED
      BY <1>4, <1>5, <2>2, <3>1, <3>2
  <2>3. CASE w # r /\ g = f
    <3>1. Together(r, w)
      BY <2>3 DEF FileInv, Writer
    <3>2. body[r].op = "write"
      BY <1>2 DEF Phases
    <3>3. ~Alone(w)
      BY <3>1, <3>2 DEF Alone
    <3> QED
      BY <1>5, <2>1, <2>3, <3>3
  <2>4. CASE w # r /\ g # f
    BY <1>4, <1>5, <2>1, <2>4
  <2> QED
    BY <2>2, <2>3, <2>4
<1> QED
  BY <1>7, <1>9, <1>10, <1>11, <1>12 DEF FileInv

-----------------------------------------------------------------------------
(* The steps of a handler are of these kinds *)

\* A step that changes nothing the invariant is about.
LEMMA StutterInv ==
  ASSUME FileInv, UNCHANGED <<at, body, answer, held, got, data, last, met>>
  PROVE  FileInv'
<1>1. /\ at' = at /\ body' = body /\ answer' = answer /\ held' = held
      /\ got' = got /\ data' = data /\ last' = last /\ met' = met
  OBVIOUS
<1>2. HandlerTypes'
  BY <1>1 DEF FileInv, HandlerTypes
<1>3. ASSUME NEW r \in Requests
      PROVE  Phases(r)' /\ Writer(r)' /\ Reader(r)'
  <2>1. Phases(r) /\ Writer(r) /\ Reader(r)
    BY DEF FileInv
  <2>2. Phases(r)'
    BY ONLY <1>1, <2>1 DEF Phases
  <2>3. Writer(r)'
    BY ONLY <1>1, <2>1 DEF Writer, Together
  <2>4. Reader(r)'
    BY ONLY <1>1, <2>1 DEF Reader, Close, Together
  <2> QED
    BY <2>2, <2>3, <2>4
<1>4. ASSUME NEW v \in Requests, NEW w \in Requests
      PROVE  Meets(v, w)'
  <2>1. Meets(v, w)
    BY DEF FileInv
  <2> QED
    BY ONLY <1>1, <2>1 DEF Meets, Together
<1>5. ASSUME NEW f \in File
      PROVE  Mixed(f)' /\ Truncated(f)'
  <2>1. Mixed(f) /\ Truncated(f)
    BY DEF FileInv
  <2>2. Mixed(f)'
    BY ONLY <1>1, <2>1 DEF Mixed, Together
  <2>3. Truncated(f)'
    BY ONLY <1>1, <2>1 DEF Truncated, Alone, Together, Payload
  <2> QED
    BY <2>2, <2>3
<1> QED
  BY <1>2, <1>3, <1>4, <1>5 DEF FileInv

LEMMA ReceiveInv ==
  ASSUME FileInv, NEW r \in Requests, at[r] = "new", NEW b \in Bodies[r],
         NEW x \in {"opening", "listing", "removing", "moving"},
         Receive(r, b, x), UNCHANGED <<data, last>>
  PROVE  FileInv'
<1>1. HandlerTypes /\ Phases(r)
  BY DEF FileInv
<1>2. answer' = [answer EXCEPT ![r] = 0] /\ held' = [held EXCEPT ![r] = None]
  BY <1>1 DEF HandlerTypes, Phases, Receive, locals
<1>3. Goes(r, x, 0, b)
  BY <1>2 DEF Goes, Receive, locals
<1>4. MayGo(r, x, 0, b)
  BY DEF MayGo, Active
<1> QED
  BY <1>3, <1>4, QuietInv

LEMMA RefuseInv ==
  ASSUME FileInv, NEW r \in Requests, at[r] = "new", NEW b \in Bodies[r],
         NEW s \in {400, 404, 413, 500}, Refuse(r, b, s), UNCHANGED <<data, last>>
  PROVE  FileInv'
<1>1. HandlerTypes /\ Phases(r)
  BY DEF FileInv
<1>2. held' = [held EXCEPT ![r] = None]
  BY <1>1 DEF HandlerTypes, Phases, Refuse, locals
<1>3. Goes(r, "done", s, b)
  BY <1>2 DEF Goes, Refuse, locals
<1>4. MayGo(r, "done", s, b)
  BY DEF MayGo
<1> QED
  BY <1>3, <1>4, QuietInv

LEMMA ProceedInv ==
  ASSUME FileInv, NEW r \in Requests, at[r] \in {"listing", "removing", "moving"},
         NEW x \in {"walking", "sweeping", "renaming"},
         Proceed(r, x), UNCHANGED <<data, last, held, got, met>>
  PROVE  FileInv'
<1>1. HandlerTypes /\ Phases(r)
  BY DEF FileInv
<1>2. body' = [body EXCEPT ![r] = body[r]] /\ body[r] \in Bodies[r]
  BY <1>1 DEF HandlerTypes, Proceed
<1>3. held' = [held EXCEPT ![r] = None] /\ answer' = [answer EXCEPT ![r] = 0]
  BY <1>1 DEF HandlerTypes, Phases, Proceed
<1>4. Goes(r, x, 0, body[r])
  BY <1>2, <1>3 DEF Goes, Proceed
<1>5. MayGo(r, x, 0, body[r])
  BY <1>2 DEF MayGo, Active
<1> QED
  BY <1>4, <1>5, QuietInv

LEMMA FinishInv ==
  ASSUME FileInv, NEW r \in Requests, at[r] \in Active \ {"filling"},
         NEW s \in {200, 201, 204, 500}, Finish(r, s), UNCHANGED <<data, last, got>>
  PROVE  FileInv'
<1>1. HandlerTypes /\ at[r] \notin {"new", "filling", "done", "lost"}
  BY DEF FileInv, Active
<1>2. body' = [body EXCEPT ![r] = body[r]] /\ body[r] \in Bodies[r]
  BY <1>1 DEF HandlerTypes, Finish
<1>3. Goes(r, "done", s, body[r])
  BY <1>2 DEF Goes, Finish
<1>4. MayGo(r, "done", s, body[r])
  BY <1>1, <1>2 DEF MayGo
<1> QED
  BY <1>3, <1>4, QuietInv

LEMMA DieInv ==
  ASSUME FileInv, Die
  PROVE  FileInv'
<1>1. HandlerTypes
  BY DEF FileInv
<1>2. /\ body' = body /\ answer' = answer /\ got' = got /\ data' = data /\ last' = last /\ met' = met
      /\ \A r \in Requests : held'[r] = None
      /\ \A r \in Requests : at'[r] = IF at[r] \in Active THEN "lost" ELSE at[r]
  BY DEF Die, disk, locals
<1>3. HandlerTypes'
  BY <1>1 DEF HandlerTypes, Die, disk, Active
<1>4. ASSUME NEW r \in Requests
      PROVE  at'[r] \notin {"opening", "reading", "filling"} /\ (at'[r] = "new" <=> at[r] = "new")
  BY <1>2 DEF Active
<1>5. ASSUME NEW r \in Requests
      PROVE  Phases(r)' /\ Writer(r)' /\ Reader(r)'
  <2>1. Phases(r) /\ Reader(r)
    BY DEF FileInv
  <2>2. Phases(r)'
    BY <1>2, <1>4, <2>1 DEF Phases, Active
  <2>3. Writer(r)'
    BY <1>4 DEF Writer
  <2>4. Reader(r)'
    BY <1>2, <1>4, <2>1 DEF Reader, Close, Together
  <2> QED
    BY <2>2, <2>3, <2>4
<1>6. ASSUME NEW v \in Requests, NEW w \in Requests
      PROVE  Meets(v, w)'
  BY <1>2, <1>4 DEF FileInv, Meets, Together
<1>7. ASSUME NEW f \in File
      PROVE  Mixed(f)'
  BY <1>2 DEF FileInv, Mixed, Together
<1>8. ASSUME NEW f \in File
      PROVE  Truncated(f)'
  <2> SUFFICES ASSUME NEW w \in Requests, last[f] = w
               PROVE  /\ at'[w] \in {"filling", "done", "lost"}
                      /\ at'[w] = "filling" => held'[w] = f
                      /\ Alone(w) => /\ at'[w] = "filling" => data[f] = <<>>
                                     /\ answer[w] = 201 => data[f] = Payload(w, body[w].size)
    BY <1>2 DEF Truncated, Alone, Together, Payload
  <2>1. /\ at[w] \in {"filling", "done", "lost"}
        /\ Alone(w) /\ answer[w] = 201 => data[f] = Payload(w, body[w].size)
    BY DEF FileInv, Truncated
  <2> QED
    BY <1>2, <1>4, <2>1 DEF Active
<1> QED
  BY <1>3, <1>5, <1>6, <1>7, <1>8 DEF FileInv

-----------------------------------------------------------------------------
LEMMA HandlerInv ==
  ASSUME FileInv, NEW r \in Requests, Handler(r)
  PROVE  FileInv'
<1>1. ASSUME NEW b \in Bodies[r],
             \/ Refusal(r, b) \/ ReadStat(r, b) \/ WriteMkdir(r, b)
             \/ ListStat(r, b) \/ DeleteStat(r, b) \/ MoveStat(r, b)
      PROVE  FileInv'
  <2>1. at[r] = "new" /\ UNCHANGED <<data, last>>
    BY <1>1 DEF Refusal, ReadStat, WriteMkdir, ListStat, DeleteStat, MoveStat, Waiting, disk
  <2>2. \/ \E s \in {400, 404, 413, 500} : Refuse(r, b, s)
        \/ \E x \in {"opening", "listing", "removing", "moving"} : Receive(r, b, x)
    BY <1>1 DEF Refusal, ReadStat, WriteMkdir, ListStat, DeleteStat, MoveStat
  <2> QED
    BY <2>1, <2>2, RefuseInv, ReceiveInv
<1>2. CASE ReadOpen(r)
  <2>1. at[r] = "opening" /\ UNCHANGED <<data, last>>
    BY <1>2 DEF ReadOpen, disk
  <2>2. CASE Stat(tree, Path(r)) = "file"
    <3>1. Resolve(tree, Path(r)) \in File
      BY <2>2 DEF Stat
    <3>2. /\ Open(r, Resolve(tree, Path(r))) /\ at' = [at EXCEPT ![r] = "reading"]
          /\ UNCHANGED <<body, answer, got>>
      BY <1>2, <2>2 DEF ReadOpen, Proceed
    <3> QED
      BY <2>1, <3>1, <3>2, ReadOpenInv
  <2>3. CASE Stat(tree, Path(r)) # "file"
    <3>1. Reply(r, 500)
      BY <1>2, <2>3 DEF ReadOpen
    <3> QED
      BY <2>1, <3>1, FinishInv DEF Reply, Active
  <2> QED
    BY <2>2, <2>3
<1>3. CASE ReadBlock(r)
  <2>1. at[r] = "reading" /\ UNCHANGED <<data, last>>
    BY <1>3 DEF ReadBlock, disk
  <2>2. CASE Len(got[r]) < Len(data[held[r]])
    <3>1. /\ got' = [got EXCEPT ![r] = Append(@, data[held[r]][Len(@) + 1])]
          /\ UNCHANGED <<at, body, answer, held, met>>
      BY <1>3, <2>2 DEF ReadBlock
    <3> QED
      BY <2>1, <2>2, <3>1, ReadBlockInv
  <2>3. CASE ~(Len(got[r]) < Len(data[held[r]]))
    <3>1. Reply(r, 200)
      BY <1>3, <2>3 DEF ReadBlock
    <3> QED
      BY <2>1, <3>1, FinishInv DEF Reply, Active
  <2> QED
    BY <2>2, <2>3
<1>4. CASE WriteOpen(r)
  <2> DEFINE parent == Front(Path(r))
             node   == Resolve(tree, Path(r))
             file   == IF node = None THEN r ELSE node
  <2>1. at[r] = "opening" /\ body[r].op = "write"
    BY <1>4 DEF WriteOpen
  <2>2. CASE Stat(tree, parent) = "dir" /\ file \in File
    <3>1. /\ data' = [data EXCEPT ![file] = <<>>] /\ last' = [last EXCEPT ![file] = r]
          /\ Open(r, file) /\ at' = [at EXCEPT ![r] = "filling"]
          /\ UNCHANGED <<body, answer, got>>
      BY <1>4, <2>2 DEF WriteOpen, Proceed
    <3> HIDE DEF file
    <3> QED
      BY <2>1, <2>2, <3>1, WriteOpenInv
  <2>3. CASE ~(Stat(tree, parent) = "dir" /\ file \in File)
    <3>1. Reply(r, 500) /\ UNCHANGED <<data, last>>
      BY <1>4, <2>3 DEF WriteOpen, disk
    <3> QED
      BY <2>1, <3>1, FinishInv DEF Reply, Active
  <2> QED
    BY <2>2, <2>3
<1>5. CASE WriteFill(r) \/ WriteShort(r)
  <2>1. at[r] = "filling" /\ UNCHANGED <<got, last>>
    BY <1>5 DEF WriteFill, WriteShort, Reply
  <2>2. body[r] \in Bodies[r] /\ body[r].size \in Nat
    BY <2>1, BodiesAssumption DEF FileInv, HandlerTypes
  <2>3. CASE WriteFill(r)
    <3>1. Fill(r, body[r].size, 201)
      BY <2>1, <2>3 DEF WriteFill, Reply, Finish, Fill
    <3> QED
      BY <2>2, <3>1, FillInv
  <2>4. CASE WriteShort(r)
    <3>1. PICK n \in 0 .. body[r].size - 1 :
            data' = [data EXCEPT ![held[r]] = Overlay(Payload(r, n), @)]
      BY <2>4 DEF WriteShort
    <3>2. n \in Nat
      BY <2>2
    <3>3. at' = [at EXCEPT ![r] = "done"] /\ answer' = [answer EXCEPT ![r] = 500]
      BY <2>4 DEF WriteShort, Finish
    <3>4. held' = [held EXCEPT ![r] = None] /\ UNCHANGED <<body, got, last, met>>
      BY <2>4 DEF WriteShort, Finish
    <3>5. Fill(r, n, 500)
      BY ONLY <2>1, <3>1, <3>3, <3>4 DEF Fill
    <3> QED
      BY <3>2, <3>5, FillInv
  <2> QED
    BY <1>5, <2>3, <2>4
<1>6. CASE ListReadDir(r) \/ WalkStart(r) \/ WalkVisit(r) \/ WalkEnd(r)
  <2>1. at[r] \in {"listing", "walking"} /\ UNCHANGED <<data, last>>
    BY <1>6 DEF ListReadDir, WalkStart, WalkVisit, WalkEnd, disk
  <2>2. \/ \E s \in {200, 500} : Finish(r, s) /\ UNCHANGED got
        \/ at[r] = "listing" /\ Proceed(r, "walking") /\ UNCHANGED <<held, got, met>>
        \/ UNCHANGED <<at, body, answer, held, got, met>>
    <3>1. CASE ListReadDir(r) \/ WalkEnd(r)
      BY <3>1 DEF ListReadDir, WalkEnd, Reply
    <3>2. CASE WalkStart(r)
      BY <3>2 DEF WalkStart
    <3>3. CASE WalkVisit(r)
      <4>1. CASE Stat(tree, Head(todo[r])) \in {"file", "dir"}
        BY <3>3, <4>1 DEF WalkVisit
      <4>2. CASE Stat(tree, Head(todo[r])) \notin {"file", "dir"}
        <5>1. Reply(r, 500)
          BY <3>3, <4>2 DEF WalkVisit
        <5> QED
          BY <5>1 DEF Reply
      <4> QED
        BY <4>1, <4>2
    <3> QED
      BY <1>6, <3>1, <3>2, <3>3
  <2> QED
    BY <2>1, <2>2, FinishInv, ProceedInv, StutterInv DEF Active
<1>7. CASE DeleteRemove(r) \/ DeleteEntry(r) \/ DeleteDir(r)
  <2>1. at[r] \in {"removing", "sweeping"} /\ UNCHANGED <<data, last>>
    BY <1>7 DEF DeleteRemove, DeleteEntry, DeleteDir
  <2>2. \/ \E s \in {204, 500} : Finish(r, s) /\ UNCHANGED got
        \/ at[r] = "removing" /\ Proceed(r, "sweeping") /\ UNCHANGED <<held, got, met>>
        \/ UNCHANGED <<at, body, answer, held, got, met>>
    BY <1>7 DEF DeleteRemove, DeleteEntry, DeleteDir, Reply
  <2> QED
    BY <2>1, <2>2, FinishInv, ProceedInv, StutterInv DEF Active
<1>8. CASE MoveMkdir(r) \/ MoveRename(r)
  <2>1. at[r] \in {"moving", "renaming"} /\ UNCHANGED <<data, last>>
    BY <1>8 DEF MoveMkdir, MoveRename
  <2>2. \/ \E s \in {201, 500} : Finish(r, s) /\ UNCHANGED got
        \/ at[r] = "moving" /\ Proceed(r, "renaming") /\ UNCHANGED <<held, got, met>>
    BY <1>8 DEF MoveMkdir, MoveRename, Reply, locals
  <2> QED
    BY <2>1, <2>2, FinishInv, ProceedInv DEF Active
<1> QED
  BY <1>1, <1>2, <1>3, <1>4, <1>5, <1>6, <1>7, <1>8 DEF Handler

LEMMA FileNextInv == FileInv /\ [Next]_vars => FileInv'
<1> SUFFICES ASSUME FileInv, [Next]_vars
             PROVE  FileInv'
  OBVIOUS
<1>1. CASE \E r \in Requests : Handler(r)
  BY <1>1, HandlerInv
<1>2. CASE Stop \/ StopCleanly \/ Restart \/ UNCHANGED vars
  BY <1>2, StutterInv DEF Stop, StopCleanly, Restart, vars, disk, locals, history
<1>3. CASE Die
  BY <1>3, DieInv
<1> QED
  BY <1>1, <1>2, <1>3 DEF Next

LEMMA FileSpecInv == Spec => []FileInv
BY FileInitInv, FileNextInv, PTL DEF Spec

-----------------------------------------------------------------------------
\* handleWrite and handleRead: a file, and what a read answers, is a mixture of
\* two writes only if they, or the read and one of them, overlapped.
THEOREM MixturesNeedOverlap == Spec => []BlendsNeedOverlap
<1>1. FileInv => BlendsNeedOverlap
  <2> SUFFICES ASSUME FileInv
               PROVE  BlendsNeedOverlap
    OBVIOUS
  <2>1. \A f \in File : Blend(data[f], None)
    BY DEF FileInv, Mixed, Blend
  <2>2. \A r \in Requests : Blend(got[r], r)
    BY DEF FileInv, Reader, Close, Blend
  <2> QED
    BY <2>1, <2>2 DEF BlendsNeedOverlap
<1> QED
  BY <1>1, FileSpecInv, PTL

\* handleWrite: a write answered 201 that no other write overlapped is the whole
\* content of its file until the next write opens it.
THEOREM StoredWritesStay == Spec => []AnsweredWritesStay
<1>1. FileInv => AnsweredWritesStay
  BY DEF FileInv, Truncated, Alone, AnsweredWritesStay
<1> QED
  BY <1>1, FileSpecInv, PTL

=============================================================================
