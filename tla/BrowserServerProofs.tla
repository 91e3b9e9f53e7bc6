------------------------- MODULE BrowserServerProofs -------------------------
(***************************************************************************)
(* Proofs about BrowserServer, for any requests, browser types, cap and    *)
(* number of crashes.                                                      *)
(*                                                                         *)
(* Any number of deletes, idle timers and SIGTERM may close one session at *)
(* once.  What keeps the map sound is that a session is stored once, that  *)
(* whoever clears its timer is counted as closing it until the entry goes. *)
(***************************************************************************)
EXTENDS BrowserServer, TLAPS

\* Only launched browsers are used, pooled or about to be closed.
Launched ==
  /\ \A r \in Creates : browser[r] # "none" => cre[r] \notin {"new", "launching"}
  /\ \A r \in Creates : cre[r] \in {"opening", "paging", "stored"} => on[r] # None
  /\ \A r \in Creates : on[r] # None => browser[on[r]] # "none"
  /\ \A t \in Types : pool[t] # None => browser[pool[t]] # "none"
  /\ \A b \in doomed : browser[b] # "none"

\* Sessions are stored ones, and only those are closed.
Placed ==
  /\ \A r \in sessions : cre[r] = "stored"
  /\ \A d \in Deletes : del[d] # "new" => deleted[d] \in Creates /\ cre[deleted[d]] = "stored"
  /\ \A r \in Creates : Closing(r) => cre[r] = "stored"

BrowserInv ==
  /\ TypeOK /\ Launched /\ Placed
  /\ EntriesUsable /\ EntriesExpire /\ ContextsAccounted /\ DeletedIsGone

-----------------------------------------------------------------------------
LEMMA BrowserInitInv == Init => BrowserInv
<1> SUFFICES ASSUME Init
             PROVE  BrowserInv
  OBVIOUS
<1>1. TypeOK
  BY LimitsAssumption DEF Init, TypeOK, CreateInFlight
<1>2. Launched /\ Placed
  BY RequestsAssumption DEF Init, Launched, Placed, Closing
<1>3. EntriesUsable /\ EntriesExpire /\ ContextsAccounted /\ DeletedIsGone
  BY DEF Init, EntriesUsable, EntriesExpire, ContextsAccounted, DeletedIsGone
<1> QED
  BY <1>1, <1>2, <1>3 DEF BrowserInv

-----------------------------------------------------------------------------
(* Types *)

LEMMA CreateTypes ==
  ASSUME TypeOK, NEW r \in Creates, CreateBegin(r) \/ CreateStep(r)
  PROVE  TypeOK'
<1> USE DEF TypeOK, CreateInFlight, creating, deleting, using, stopping
<1>1. CASE CreateLimited(r) \/ CreateRejected(r)
  BY <1>1 DEF CreateLimited, CreateRejected
<1>2. ASSUME NEW t \in Types, CreateLaunch(r, t) \/ CreateReuse(r, t)
      PROVE  TypeOK'
  BY <1>2 DEF CreateLaunch, CreateReuse
<1>3. CASE LaunchDone(r)
  BY <1>3 DEF LaunchDone
<1>4. CASE ContextOpened(r)
  BY <1>4 DEF ContextOpened
<1>5. CASE CreateFail(r)
  BY <1>5 DEF CreateFail
<1>6. CASE PageOpened(r)
  BY <1>6 DEF PageOpened
<1> QED
  BY <1>1, <1>2, <1>3, <1>4, <1>5, <1>6 DEF CreateBegin, CreateStep

LEMMA OtherTypes ==
  ASSUME TypeOK, Next, ~\E r \in Creates : CreateBegin(r) \/ CreateStep(r)
  PROVE  TypeOK'
<1> USE DEF TypeOK, creating, deleting, using, stopping
<1>1. ASSUME NEW r \in Creates, TimerStep(r)
      PROVE  TypeOK'
  <2>1. CASE TimerFires(r)
    <3>1. expiring' \in [Creates -> Nat]
      BY <2>1 DEF TimerFires
    <3> QED
      BY <2>1, <3>1 DEF TimerFires, BeginClose
  <2>2. CASE ExpireDone(r)
    <3>1. expiring' \in [Creates -> Nat]
      <4>1. expiring[r] - 1 \in Nat
        BY <2>2 DEF ExpireDone
      <4> QED
        BY <2>2, <4>1 DEF ExpireDone
    <3> QED
      BY <2>2, <3>1 DEF ExpireDone, EndClose
  <2> QED
    BY <1>1, <2>1, <2>2 DEF TimerStep
<1>2. ASSUME NEW b \in Creates, BrowserCrash(b) \/ TermBrowserClosed(b)
      PROVE  TypeOK'
  BY <1>2 DEF BrowserCrash, TermBrowserClosed, Kill
<1>8. ASSUME NEW r \in Creates, ContextCloses(r)
      PROVE  TypeOK'
  BY <1>8 DEF ContextCloses
<1>3. ASSUME NEW d \in Deletes, DeleteRequest(d) \/ DeleteDone(d)
      PROVE  TypeOK'
  <2>1. ASSUME NEW r \in Creates, DeleteBegin(d, r)
        PROVE  TypeOK'
    BY <2>1 DEF DeleteBegin, BeginClose
  <2>2. ASSUME NEW r \in Creates, DeleteGone(d, r)
        PROVE  TypeOK'
    BY <2>2 DEF DeleteGone
  <2>3. CASE DeleteDone(d)
    BY <2>3 DEF DeleteDone, EndClose
  <2> QED
    BY <1>3, <2>1, <2>2, <2>3 DEF DeleteRequest
<1>4. ASSUME NEW u \in Uses, UseRequest(u) \/ UseStep(u)
      PROVE  TypeOK'
  <2>1. ASSUME NEW r \in Creates, UseMissing(u, r) \/ UseFound(u, r)
        PROVE  TypeOK'
    BY <2>1 DEF UseMissing, UseFound
  <2>2. CASE UseRuns(u)
    BY <2>2, Zenon DEF UseRuns
  <2>3. CASE UseDone(u)
    BY <2>3, Zenon DEF UseDone
  <2> QED
    BY <1>4, <2>1, <2>2, <2>3 DEF UseRequest, UseStep
<1>5. ASSUME NEW r \in Creates, TermVisit(r)
      PROVE  TypeOK'
  BY <1>5 DEF TermVisit, BeginClose
<1>6. CASE TermVisited \/ TermBrowsers
  BY <1>6 DEF TermVisited, EndClose, TermBrowsers
<1>7. CASE Sigterm \/ TermServerClose \/ TermExit \/ TermFails \/ Exited
  BY <1>7 DEF Sigterm, TermServerClose, TermExit, TermFails, Exited, vars
<1> QED
  BY <1>1, <1>2, <1>3, <1>4, <1>5, <1>6, <1>7, <1>8 DEF Next, TermStep

-----------------------------------------------------------------------------
(* Steps of a create *)

LEMMA CreateInv ==
  ASSUME BrowserInv, NEW r \in Creates, CreateBegin(r) \/ CreateStep(r)
  PROVE  BrowserInv'
<1>1. TypeOK'
  BY CreateTypes DEF BrowserInv
<1>2. Launched'
  BY RequestsAssumption
     DEF BrowserInv, TypeOK, CreateInFlight, Launched, Placed, creating, deleting, using, stopping,
         CreateBegin, CreateLimited, CreateRejected, CreateLaunch, CreateReuse,
         CreateStep, LaunchDone, ContextOpened, CreateFail, PageOpened
<1>3. Placed'
  BY DEF BrowserInv, TypeOK, CreateInFlight, Placed, Closing, creating, deleting, using, stopping,
         CreateBegin, CreateLimited, CreateRejected, CreateLaunch, CreateReuse,
         CreateStep, LaunchDone, ContextOpened, CreateFail, PageOpened
<1>4. /\ UNCHANGED <<expiring, visiting, del, deleted>> /\ cre[r] # "stored"
      /\ \A q \in Creates \ {r} : on'[q] = on[q] /\ ctx'[q] = ctx[q] /\ timer'[q] = timer[q]
      /\ sessions' = sessions \/ (sessions' = sessions \cup {r} /\ ctx'[r] = "open" /\ timer'[r])
      /\ browser' = browser \/ (cre[r] = "launching" /\ browser' = [browser EXCEPT ![r] = "live"])
  BY DEF BrowserInv, TypeOK, creating, deleting, using, stopping,
         CreateBegin, CreateLimited, CreateRejected, CreateLaunch, CreateReuse,
         CreateStep, CreateInFlight, LaunchDone, ContextOpened, CreateFail, PageOpened
<1>5. EntriesUsable' /\ EntriesExpire'
  <2> SUFFICES ASSUME NEW q \in sessions'
               PROVE  /\ ctx'[q] = "open" \/ Closing(q)' \/ browser'[on'[q]] = "dead"
                      /\ timer'[q] \/ Closing(q)'
    BY DEF EntriesUsable, EntriesExpire
  <2>1. CASE q = r /\ q \notin sessions
    BY <1>4, <2>1
  <2>2. CASE q \in sessions
    <3>1. q \in Creates /\ q # r
      BY <1>4, <2>2 DEF BrowserInv, TypeOK, Placed
    <3>2. Closing(q)' <=> Closing(q)
      BY <1>4 DEF Closing
    <3>3. browser[on[q]] = "dead" => browser'[on[q]] = "dead"
      <4>1. on[q] \in Creates
        BY <2>2, <3>1 DEF BrowserInv, TypeOK, Launched, Placed
      <4> QED
        BY <1>4, <4>1 DEF BrowserInv, TypeOK, Launched
    <3>4. (ctx[q] = "open" \/ Closing(q) \/ browser[on[q]] = "dead") /\ (timer[q] \/ Closing(q))
      BY <2>2 DEF BrowserInv, EntriesUsable, EntriesExpire
    <3>5. on'[q] = on[q] /\ ctx'[q] = ctx[q] /\ timer'[q] = timer[q]
      BY <1>4, <3>1
    <3> QED
      BY <3>2, <3>3, <3>4, <3>5, Zenon
  <2> QED
    BY <1>4, <2>1, <2>2
<1>6. ContextsAccounted'
  <2> SUFFICES ASSUME NEW q \in Creates, ctx'[q] = "open"
               PROVE  q \in sessions' \/ cre'[q] \in {"paging", "failed"} \/ Closing(q)' \/ q \in threw'
    BY DEF ContextsAccounted
  <2>1. threw' = threw /\ sessions \subseteq sessions' /\ (q # r => cre'[q] = cre[q])
    BY DEF BrowserInv, TypeOK, CreateBegin, CreateLimited, CreateRejected, CreateLaunch, CreateReuse,
           CreateStep, LaunchDone, ContextOpened, CreateFail, PageOpened
  <2>2. CASE q # r
    <3>1. Closing(q) <=> Closing(q)'
      BY <1>4 DEF Closing
    <3> QED
      BY <1>4, <2>1, <2>2, <3>1 DEF BrowserInv, ContextsAccounted
  <2>3. CASE q = r
    BY <1>4, <2>3
       DEF BrowserInv, TypeOK, CreateInFlight, Placed, ContextsAccounted, Closing, creating, deleting, using, stopping,
           CreateBegin, CreateLimited, CreateRejected, CreateLaunch, CreateReuse,
           CreateStep, LaunchDone, ContextOpened, CreateFail, PageOpened
  <2> QED
    BY <2>2, <2>3
<1>7. DeletedIsGone'
  <2> SUFFICES ASSUME NEW d \in Deletes, del'[d] = "done"
               PROVE  deleted'[d] \notin sessions'
    BY DEF DeletedIsGone
  <2>1. deleted'[d] = deleted[d] /\ deleted[d] \in Creates /\ deleted[d] \notin sessions
    BY <1>4 DEF BrowserInv, Placed, DeletedIsGone
  <2>2. deleted[d] # r
    BY <1>4, <2>1 DEF BrowserInv, Placed
  <2> QED
    BY <1>4, <2>1, <2>2
<1> QED
  BY <1>1, <1>2, <1>3, <1>4, <1>5, <1>6, <1>7 DEF BrowserInv

-----------------------------------------------------------------------------
(* Steps of a close *)

\* The end of a close: the entry goes, and the context is closed, or another
\* close of it is under way, or the close threw.
LEMMA EndCloseInv ==
  ASSUME BrowserInv, NEW r \in Creates, cre[r] = "stored", EndClose(r), TypeOK',
         UNCHANGED <<cre, on, ctx, timer, browser, pool, doomed, deleted>>,
         \A q \in Creates \ {r} : Closing(q)' <=> Closing(q),
         \A d \in Deletes : del'[d] = del[d] \/ (del'[d] = "done" /\ del[d] = "closing" /\ deleted[d] = r)
  PROVE  BrowserInv'
<1>1. /\ sessions' = sessions \ {r} /\ threw \subseteq threw'
      /\ ctx[r] = "closed" \/ Closing(r)' \/ r \in threw'
  BY DEF EndClose
<1>2. Launched'
  BY DEF BrowserInv, Launched
<1>3. Placed'
  BY <1>1 DEF BrowserInv, Placed
<1>4. EntriesUsable' /\ EntriesExpire'
  BY <1>1 DEF BrowserInv, TypeOK, EntriesUsable, EntriesExpire
<1>5. ContextsAccounted'
  BY <1>1 DEF BrowserInv, ContextsAccounted
<1>6. DeletedIsGone'
  BY <1>1 DEF BrowserInv, Placed, DeletedIsGone
<1> QED
  BY <1>2, <1>3, <1>4, <1>5, <1>6 DEF BrowserInv

\* The start of one: whoever clears the timer counts as closing.
LEMMA BeginCloseInv ==
  ASSUME BrowserInv, NEW r \in Creates, BeginClose(r), TypeOK',
         UNCHANGED <<cre, on, ctx, sessions, browser, pool, doomed, threw>>,
         \A q \in Creates : Closing(q)' <=> Closing(q) \/ (q = r /\ r \in sessions),
         \A d \in Deletes : \/ del'[d] = del[d] /\ deleted'[d] = deleted[d]
                            \/ del'[d] = "closing" /\ deleted'[d] = r /\ r \in sessions
  PROVE  BrowserInv'
<1>1. \A q \in Creates \ {r} : timer'[q] = timer[q]
  BY DEF BeginClose, BrowserInv, TypeOK
<1>2. Launched'
  BY DEF BrowserInv, Launched
<1>3. Placed'
  BY DEF BrowserInv, Placed
<1>4. EntriesUsable' /\ EntriesExpire'
  BY <1>1 DEF BrowserInv, TypeOK, EntriesUsable, EntriesExpire
<1>5. ContextsAccounted'
  BY DEF BrowserInv, ContextsAccounted
<1>6. DeletedIsGone'
  BY DEF BrowserInv, DeletedIsGone
<1> QED
  BY <1>2, <1>3, <1>4, <1>5, <1>6 DEF BrowserInv

\* A browser that ends takes its contexts along.
LEMMA KillInv ==
  ASSUME BrowserInv, NEW b \in Creates, Kill(b), browser[b] # "none", TypeOK', doomed' \subseteq doomed,
         UNCHANGED <<cre, on, timer, sessions, pool, deleting, expiring, visiting, threw>>
  PROVE  BrowserInv'
<1>1. /\ browser'[b] = "dead" /\ \A q \in Creates \ {b} : browser'[q] = browser[q]
      /\ \A q \in Creates : ctx'[q] = ctx[q] \/ (on[q] = b /\ ctx[q] = "open" /\ ctx'[q] = "closed")
  BY DEF Kill, BrowserInv, TypeOK
<1>2. Launched'
  BY <1>1 DEF BrowserInv, TypeOK, Launched
<1>3. Placed'
  BY <1>1 DEF BrowserInv, Placed, Closing, deleting
<1>4. EntriesUsable' /\ EntriesExpire'
  <2>1. \A q \in Creates : Closing(q)' <=> Closing(q)
    BY DEF Closing, deleting
  <2>2. \A q \in Creates : browser[q] = "dead" => browser'[q] = "dead"
    BY <1>1
  <2>3. \A q \in Creates : on[q] # None => on[q] \in Creates
    BY DEF BrowserInv, TypeOK
  <2>4. EntriesExpire'
    BY <2>1 DEF BrowserInv, TypeOK, EntriesExpire
  <2>5. EntriesUsable'
    <3> SUFFICES ASSUME NEW q \in sessions, ~Closing(q)
                 PROVE  ctx'[q] = "open" \/ browser'[on[q]] = "dead"
      BY <2>1 DEF EntriesUsable, BrowserInv, TypeOK
    <3>1. q \in Creates /\ (ctx[q] = "open" \/ browser[on[q]] = "dead")
      BY DEF BrowserInv, TypeOK, EntriesUsable
    <3>2. on[q] = b \/ on[q] # b
      OBVIOUS
    <3>3. on[q] # b => ctx'[q] = ctx[q] /\ browser'[on[q]] = browser[on[q]]
      BY <1>1, <3>1 DEF BrowserInv, TypeOK, Kill
    <3> QED
      BY <1>1, <3>1, <3>3
  <2> QED
    BY <2>4, <2>5
<1>5. ContextsAccounted'
  BY <1>1 DEF BrowserInv, ContextsAccounted, Closing, deleting
<1>6. DeletedIsGone'
  BY <1>1 DEF BrowserInv, Placed, DeletedIsGone, deleting
<1> QED
  BY <1>2, <1>3, <1>4, <1>5, <1>6 DEF BrowserInv

LEMMA ContextClosesInv ==
  ASSUME BrowserInv, NEW r \in Creates, ContextCloses(r), TypeOK'
  PROVE  BrowserInv'
<1>1. /\ UNCHANGED <<cre, on, timer, expiring, sessions, browser, pool, del, deleted, visiting, doomed, threw>>
      /\ Closing(r) /\ ctx'[r] = "closed" /\ \A q \in Creates \ {r} : ctx'[q] = ctx[q]
  BY DEF ContextCloses, creating, deleting, stopping, BrowserInv, TypeOK
<1>2. \A q \in Creates : Closing(q)' <=> Closing(q)
  BY <1>1 DEF Closing
<1>3. Launched' /\ Placed'
  BY <1>1, <1>2 DEF BrowserInv, Launched, Placed
<1>4. EntriesUsable' /\ EntriesExpire'
  BY <1>1, <1>2 DEF BrowserInv, TypeOK, EntriesUsable, EntriesExpire
<1>5. ContextsAccounted' /\ DeletedIsGone'
  BY <1>1, <1>2 DEF BrowserInv, ContextsAccounted, DeletedIsGone
<1> QED
  BY <1>3, <1>4, <1>5 DEF BrowserInv

-----------------------------------------------------------------------------
LEMMA TimerInv ==
  ASSUME BrowserInv, NEW r \in Creates, TimerStep(r), TypeOK'
  PROVE  BrowserInv'
<1>1. CASE TimerFires(r)
  <2>1. \A q \in Creates : Closing(q)' <=> Closing(q) \/ (q = r /\ r \in sessions)
    BY <1>1 DEF TimerFires, Closing, deleting, stopping, BrowserInv, TypeOK
  <2> QED
    BY <1>1, <2>1, BeginCloseInv DEF TimerFires, creating, deleting, stopping
<1>2. CASE ExpireDone(r)
  <2>1. \A q \in Creates \ {r} : Closing(q)' <=> Closing(q)
    BY <1>2 DEF ExpireDone, Closing, deleting, stopping, BrowserInv, TypeOK
  <2>2. cre[r] = "stored"
    BY <1>2 DEF ExpireDone, Closing, BrowserInv, Placed
  <2> QED
    BY <1>2, <2>1, <2>2, EndCloseInv DEF ExpireDone, creating, deleting, stopping
<1> QED
  BY <1>1, <1>2 DEF TimerStep

LEMMA DeleteInv ==
  ASSUME BrowserInv, NEW d \in Deletes, DeleteRequest(d) \/ DeleteDone(d), TypeOK'
  PROVE  BrowserInv'
<1>1. ASSUME NEW r \in Creates, DeleteBegin(d, r)
      PROVE  BrowserInv'
  <2>1. \A c \in Deletes : \/ del'[c] = del[c] /\ deleted'[c] = deleted[c]
                           \/ c = d /\ del[c] = "new" /\ del'[c] = "closing" /\ deleted'[c] = r /\ r \in sessions
    BY <1>1 DEF DeleteBegin, BrowserInv, TypeOK
  <2>2. \A q \in Creates : Closing(q)' <=> Closing(q) \/ (q = r /\ r \in sessions)
    <3>1. expiring' = expiring /\ visiting' = visiting /\ r \in sessions
          /\ del'[d] = "closing" /\ deleted'[d] = r
      BY <1>1 DEF DeleteBegin, stopping, BrowserInv, TypeOK
    <3> QED
      BY <2>1, <3>1 DEF Closing
  <2> QED
    BY <1>1, <2>1, <2>2, BeginCloseInv DEF DeleteBegin, creating, stopping
<1>2. ASSUME NEW r \in Creates, DeleteGone(d, r)
      PROVE  BrowserInv'
  <2>1. /\ cre[r] = "stored" /\ r \notin sessions /\ del[d] = "new" /\ del'[d] = "done" /\ deleted'[d] = r
        /\ \A c \in Deletes \ {d} : del'[c] = del[c] /\ deleted'[c] = deleted[c]
        /\ UNCHANGED <<cre, on, ctx, timer, expiring, sessions, browser, pool, visiting, doomed, threw>>
    BY <1>2 DEF DeleteGone, creating, stopping, BrowserInv, TypeOK
  <2>2. \A q \in Creates : Closing(q)' <=> Closing(q)
    BY <2>1 DEF Closing
  <2>3. Launched'
    BY <2>1 DEF BrowserInv, Launched
  <2>4. Placed'
    BY <2>1, <2>2 DEF BrowserInv, Placed
  <2>5. EntriesUsable' /\ EntriesExpire' /\ ContextsAccounted'
    BY <2>1, <2>2 DEF BrowserInv, TypeOK, EntriesUsable, EntriesExpire, ContextsAccounted
  <2>6. DeletedIsGone'
    BY <2>1 DEF BrowserInv, Placed, DeletedIsGone
  <2> QED
    BY <2>3, <2>4, <2>5, <2>6 DEF BrowserInv
<1>3. CASE DeleteDone(d)
  <2>1. PICK r \in Creates : r = deleted[d] /\ EndClose(r)
    BY <1>3 DEF DeleteDone
  <2>2. /\ del[d] = "closing" /\ del'[d] = "done" /\ deleted' = deleted /\ cre[r] = "stored"
        /\ \A c \in Deletes \ {d} : del'[c] = del[c]
        /\ expiring' = expiring /\ visiting' = visiting
    BY <1>3, <2>1 DEF DeleteDone, stopping, BrowserInv, TypeOK, Placed
  <2>3. \A q \in Creates \ {r} : Closing(q)' <=> Closing(q)
    BY <2>1, <2>2 DEF Closing
  <2> QED
    BY <1>3, <2>1, <2>2, <2>3, EndCloseInv DEF DeleteDone, creating, stopping
<1> QED
  BY <1>1, <1>2, <1>3 DEF DeleteRequest

LEMMA UseInv ==
  ASSUME BrowserInv, NEW u \in Uses, UseRequest(u) \/ UseStep(u), TypeOK'
  PROVE  BrowserInv'
<1>1. /\ UNCHANGED <<cre, on, ctx, expiring, sessions, browser, pool, del, deleted, visiting, doomed, threw>>
      /\ \A r \in Creates : timer[r] => timer'[r]
  BY DEF UseRequest, UseMissing, UseFound, UseStep, UseRuns, UseDone, creating, deleting, stopping,
         BrowserInv, TypeOK
<1>2. \A q \in Creates : Closing(q)' <=> Closing(q)
  BY <1>1 DEF Closing
<1>3. Launched' /\ Placed'
  BY <1>1, <1>2 DEF BrowserInv, Launched, Placed
<1>4. EntriesUsable' /\ EntriesExpire'
  BY <1>1, <1>2 DEF BrowserInv, TypeOK, EntriesUsable, EntriesExpire
<1>5. ContextsAccounted' /\ DeletedIsGone'
  BY <1>1, <1>2 DEF BrowserInv, ContextsAccounted, DeletedIsGone
<1> QED
  BY <1>3, <1>4, <1>5 DEF BrowserInv

LEMMA TermInv ==
  ASSUME BrowserInv, Sigterm \/ TermStep \/ Exited, TypeOK'
  PROVE  BrowserInv'
<1>1. ASSUME NEW r \in Creates, TermVisit(r)
      PROVE  BrowserInv'
  <2>1. \A q \in Creates : Closing(q)' <=> Closing(q) \/ (q = r /\ r \in sessions)
    BY <1>1, RequestsAssumption DEF TermVisit, Closing, deleting
  <2> QED
    BY <1>1, <2>1, BeginCloseInv DEF TermVisit, creating, deleting
<1>2. CASE TermVisited
  <2>1. PICK r \in Creates : r = visiting /\ EndClose(r)
    BY <1>2 DEF TermVisited
  <2>2. cre[r] = "stored"
    BY <2>1 DEF BrowserInv, Placed, Closing
  <2>3. \A q \in Creates \ {r} : Closing(q)' <=> Closing(q)
    BY <1>2, <2>1, RequestsAssumption DEF TermVisited, Closing, deleting
  <2> QED
    BY <1>2, <2>1, <2>2, <2>3, EndCloseInv DEF TermVisited, creating, deleting
<1>3. ASSUME NEW b \in Creates, TermBrowserClosed(b)
      PROVE  BrowserInv'
  <2>1. browser[b] # "none"
    BY <1>3 DEF TermBrowserClosed, BrowserInv, Launched
  <2> QED
    BY <1>3, <2>1, KillInv DEF TermBrowserClosed, creating
<1>4. CASE TermBrowsers \/ Sigterm \/ TermServerClose \/ TermExit \/ TermFails \/ Exited
  <2>1. /\ UNCHANGED <<cre, on, ctx, timer, expiring, sessions, browser, pool, del, deleted, visiting, threw>>
        /\ doomed' \subseteq doomed \cup ({pool[t] : t \in Types} \ {None})
    BY <1>4 DEF TermBrowsers, Sigterm, TermServerClose, TermExit, TermFails, Exited, vars, creating, deleting, stopping
  <2>2. \A q \in Creates : Closing(q)' <=> Closing(q)
    BY <2>1 DEF Closing
  <2>3. Launched' /\ Placed'
    BY <2>1, <2>2 DEF BrowserInv, Launched, Placed
  <2>4. EntriesUsable' /\ EntriesExpire'
    BY <2>1, <2>2 DEF BrowserInv, TypeOK, EntriesUsable, EntriesExpire
  <2>5. ContextsAccounted' /\ DeletedIsGone'
    BY <2>1, <2>2 DEF BrowserInv, ContextsAccounted, DeletedIsGone
  <2> QED
    BY <2>3, <2>4, <2>5 DEF BrowserInv
<1> QED
  BY <1>1, <1>2, <1>3, <1>4 DEF TermStep

LEMMA BrowserNextInv == BrowserInv /\ [Next]_vars => BrowserInv'
<1> SUFFICES ASSUME BrowserInv, [Next]_vars
             PROVE  BrowserInv'
  OBVIOUS
<1>1. ASSUME NEW r \in Creates, CreateBegin(r) \/ CreateStep(r)
      PROVE  BrowserInv'
  BY <1>1, CreateInv
<1>2. ASSUME Next, ~\E r \in Creates : CreateBegin(r) \/ CreateStep(r)
      PROVE  BrowserInv'
  <2>1. TypeOK'
    BY <1>2, OtherTypes DEF BrowserInv
  <2>2. ASSUME NEW b \in Creates, BrowserCrash(b)
        PROVE  BrowserInv'
    BY <2>1, <2>2, KillInv DEF BrowserCrash, creating, stopping
  <2> QED
    BY <1>2, <2>1, <2>2, TimerInv, ContextClosesInv, DeleteInv, UseInv, TermInv DEF Next
<1>3. CASE UNCHANGED vars
  <2>1. UNCHANGED <<cre, kind, on, ctx, timer, expiring, sessions, browser, pool, del, deleted, use, used, term, visiting, doomed, crashes, threw>>
    BY <1>3 DEF vars, creating, deleting, using, stopping
  <2> QED
    BY <2>1 DEF BrowserInv, TypeOK, Launched, Placed, Closing, EntriesUsable, EntriesExpire,
                ContextsAccounted, DeletedIsGone
<1> QED
  BY <1>1, <1>2, <1>3

LEMMA BrowserSpecInv == Spec => []BrowserInv
BY BrowserInitInv, BrowserNextInv, PTL DEF Spec

-----------------------------------------------------------------------------
\* The variables of the browser service keep their types.
THEOREM BrowserTypes == Spec => []TypeOK
BY BrowserSpecInv, PTL DEF BrowserInv

\* sessions: an id in the map can be used, whoever closes what at once.
THEOREM SessionsAreUsable == Spec => []EntriesUsable
BY BrowserSpecInv, PTL DEF BrowserInv

\* refreshSessionTimeout and closeSession: no session is left without a timer.
THEOREM SessionsExpire == Spec => []EntriesExpire
BY BrowserSpecInv, PTL DEF BrowserInv

\* createSession and closeSession: no context is forgotten but those of creates
\* that failed and closes that threw.
THEOREM ContextsAreAccounted == Spec => []ContextsAccounted
BY BrowserSpecInv, PTL DEF BrowserInv

\* DELETE /session/:id: after its answer the id is out of the map for good.
THEOREM DeletesAreFinal == Spec => []DeletedIsGone
BY BrowserSpecInv, PTL DEF BrowserInv

-----------------------------------------------------------------------------
(* BrowserServer implements SessionLifecycle: newContext, the store, the    *)
(* first close to begin and the first to end are its steps, a close that    *)
(* takes effect and the end of a browser lose contexts, and every other     *)
(* action is a stutter.                                                     *)

\* The places of a session as SessionLifecycle sees them.
Listing == [r \in Creates |-> IF r \in sessions
                              THEN IF Closing(r) THEN "closing" ELSE "listed"
                              ELSE IF cre[r] = "stored" THEN "gone" ELSE "absent"]

\* A step of SessionLifecycle, or none, on the mapped state.
AbstractStep == [Lifecycle!Next]_<<Listing, ctx>>

\* Before newContext answers there is no context.
Unopened == \A r \in Creates : cre[r] \in {"new", "launching", "opening"} => ctx[r] = "none"

LEMMA ListingStays ==
  ASSUME sessions' = sessions, \A r \in Creates : cre'[r] = "stored" <=> cre[r] = "stored",
         \A r \in Creates : Closing(r)' <=> Closing(r)
  PROVE  Listing' = Listing
  BY DEF Listing

\* A step that opens, closes and stores nothing.
LEMMA StutterStep ==
  ASSUME Unopened, ctx' = ctx, sessions' = sessions,
         UNCHANGED <<expiring, visiting, deleting>> \/ \A r \in Creates : Closing(r)' <=> Closing(r),
         \A r \in Creates : /\ cre'[r] = "stored" <=> cre[r] = "stored"
                            /\ \/ cre'[r] = cre[r]
                               \/ cre[r] \in {"new", "launching", "opening"}
                               \/ cre'[r] \notin {"new", "launching", "opening"}
  PROVE  AbstractStep /\ Unopened'
<1>1. \A r \in Creates : Closing(r)' <=> Closing(r)
  BY DEF Closing, deleting
<1>2. Listing' = Listing
  BY <1>1, ListingStays
<1>3. Unopened'
  BY DEF Unopened
<1> QED
  BY <1>2, <1>3 DEF AbstractStep

\* The first close of a session to begin.
LEMMA BeginCloseStep ==
  ASSUME BrowserInv, Unopened, NEW r \in Creates, UNCHANGED <<cre, ctx, sessions>>,
         \A q \in Creates : Closing(q)' <=> Closing(q) \/ (q = r /\ r \in sessions)
  PROVE  AbstractStep /\ Unopened'
<1>1. CASE r \in sessions /\ ~Closing(r)
  <2>1. Listing[r] = "listed" /\ Listing' = [Listing EXCEPT ![r] = "closing"]
    BY <1>1 DEF Listing
  <2>2. Lifecycle!Close(r)
    BY <2>1 DEF Lifecycle!Close, Listing
  <2> QED
    BY <2>2 DEF AbstractStep, Lifecycle!Next, Unopened
<1>2. CASE ~(r \in sessions /\ ~Closing(r))
  BY <1>2, StutterStep
<1> QED
  BY <1>1, <1>2

\* The first one to end.
LEMMA EndCloseStep ==
  ASSUME BrowserInv, Unopened, NEW r \in Creates, Closing(r), EndClose(r), UNCHANGED <<cre, ctx>>,
         \A q \in Creates \ {r} : Closing(q)' <=> Closing(q)
  PROVE  AbstractStep /\ Unopened'
<1>1. sessions' = sessions \ {r} /\ cre[r] = "stored"
  BY DEF EndClose, BrowserInv, Placed
<1>2. Unopened'
  BY DEF Unopened
<1>3. CASE r \in sessions
  <2>1. Listing[r] = "closing" /\ Listing' = [Listing EXCEPT ![r] = "gone"]
    BY <1>1, <1>3 DEF Listing
  <2>2. Lifecycle!Leave(r)
    BY <2>1 DEF Lifecycle!Leave, Listing
  <2> QED
    BY <1>2, <2>2 DEF AbstractStep, Lifecycle!Next
<1>4. CASE r \notin sessions
  <2>1. Listing' = Listing
    BY <1>1, <1>4 DEF Listing
  <2> QED
    BY <1>2, <2>1 DEF AbstractStep
<1> QED
  BY <1>3, <1>4

LEMMA ContextClosesStep ==
  ASSUME BrowserInv, Unopened, NEW r \in Creates, ContextCloses(r)
  PROVE  AbstractStep /\ Unopened'
<1>1. /\ Closing(r) /\ ctx[r] = "open" /\ ctx' = [ctx EXCEPT ![r] = "closed"] /\ DOMAIN ctx = Creates
      /\ UNCHANGED <<cre, sessions, expiring, visiting, deleting>>
  BY DEF ContextCloses, creating, stopping, BrowserInv, TypeOK
<1>2. \A q \in Creates : Closing(q)' <=> Closing(q)
  BY <1>1 DEF Closing, deleting
<1>3. Listing' = Listing
  BY <1>1, <1>2, ListingStays
<1>4. Listing[r] \in {"closing", "gone"}
  BY <1>1 DEF Listing, BrowserInv, Placed
<1>5. Lifecycle!CloseContext(r)
  BY <1>1, <1>3, <1>4 DEF Lifecycle!CloseContext, Listing
<1>6. Unopened'
  BY <1>1 DEF Unopened
<1> QED
  BY <1>5, <1>6 DEF AbstractStep, Lifecycle!Next

LEMMA KillStep ==
  ASSUME BrowserInv, Unopened, NEW b \in Creates, Kill(b),
         UNCHANGED <<cre, sessions, expiring, visiting, deleting>>
  PROVE  AbstractStep /\ Unopened'
<1> DEFINE lost == {r \in Creates : on[r] = b /\ ctx[r] = "open"}
<1>1. ctx' = [r \in Creates |-> IF r \in lost THEN "closed" ELSE ctx[r]]
  BY DEF Kill
<1>2. \A r \in lost : ctx[r] = "open"
  OBVIOUS
<1>3. Unopened'
  BY <1>1 DEF Unopened
<1>4. Listing' = Listing
  BY ListingStays DEF Closing, deleting
<1>5. lost \in SUBSET Creates
  OBVIOUS
<1> HIDE DEF lost
<1>6. Lifecycle!Lose(lost)
  BY <1>1, <1>2, <1>4 DEF Lifecycle!Lose, Listing
<1> QED
  BY <1>3, <1>5, <1>6 DEF AbstractStep, Lifecycle!Next

LEMMA CreateSteps ==
  ASSUME BrowserInv, Unopened, NEW r \in Creates, CreateBegin(r) \/ CreateStep(r)
  PROVE  AbstractStep /\ Unopened'
<1>0. UNCHANGED <<expiring, visiting, deleting>>
  BY DEF CreateBegin, CreateLimited, CreateRejected, CreateLaunch, CreateReuse,
         CreateStep, LaunchDone, ContextOpened, CreateFail, PageOpened, stopping
<1>1. CASE CreateBegin(r)
  <2>1. /\ cre[r] = "new" /\ ctx' = ctx /\ sessions' = sessions
        /\ \A q \in Creates : cre'[q] = cre[q] \/ (q = r /\ cre'[q] \in {"limited", "failed", "launching", "opening"})
    BY <1>1 DEF CreateBegin, CreateLimited, CreateRejected, CreateLaunch, CreateReuse, BrowserInv, TypeOK
  <2> QED
    BY <1>0, <2>1, StutterStep
<1>2. CASE LaunchDone(r) \/ CreateFail(r)
  <2>1. /\ cre[r] \in CreateInFlight /\ ctx' = ctx /\ sessions' = sessions
        /\ \A q \in Creates :
             \/ cre'[q] = cre[q]
             \/ q = r /\ (cre'[q] = "failed" \/ (cre[q] = "launching" /\ cre'[q] = "opening"))
    BY <1>2 DEF LaunchDone, CreateFail, CreateInFlight, BrowserInv, TypeOK
  <2> QED
    BY <1>0, <2>1, StutterStep DEF CreateInFlight
<1>3. CASE ContextOpened(r)
  <2>1. /\ cre[r] = "opening" /\ cre' = [cre EXCEPT ![r] = "paging"] /\ DOMAIN cre = Creates
        /\ ctx' = [ctx EXCEPT ![r] = "open"] /\ sessions' = sessions
    BY <1>3 DEF ContextOpened, BrowserInv, TypeOK
  <2>2. Listing' = Listing
    BY <1>0, <2>1, ListingStays DEF Closing, deleting
  <2>3. r \notin sessions /\ ctx[r] = "none"
    BY <2>1 DEF BrowserInv, Placed, Unopened
  <2>4. Lifecycle!Open(r)
    BY <2>1, <2>2, <2>3 DEF Lifecycle!Open, Listing
  <2>5. Unopened'
    BY <2>1 DEF Unopened, BrowserInv, TypeOK
  <2> QED
    BY <2>4, <2>5 DEF AbstractStep, Lifecycle!Next
<1>4. CASE PageOpened(r)
  <2>1. /\ cre[r] = "paging" /\ cre' = [cre EXCEPT ![r] = "stored"] /\ DOMAIN cre = Creates
        /\ ctx[r] = "open" /\ ctx' = ctx /\ sessions' = sessions \cup {r}
    BY <1>4 DEF PageOpened, BrowserInv, TypeOK
  <2>2. r \notin sessions
    BY <2>1 DEF BrowserInv, Placed
  <2>3. Listing' = [Listing EXCEPT ![r] = "listed"] /\ Listing[r] = "absent"
    <3>1. \A q \in Creates : Closing(q)' <=> Closing(q)
      BY <1>0 DEF Closing, deleting
    <3>2. ~Closing(r)
      BY <2>1 DEF BrowserInv, Placed
    <3> QED
      BY <2>1, <2>2, <3>1, <3>2 DEF Listing
  <2>4. Lifecycle!List(r)
    BY <2>1, <2>3 DEF Lifecycle!List, Listing
  <2>5. Unopened'
    BY <2>1 DEF Unopened
  <2> QED
    BY <2>4, <2>5 DEF AbstractStep, Lifecycle!Next
<1> QED
  BY <1>1, <1>2, <1>3, <1>4 DEF CreateStep

LEMMA RefineNext == BrowserInv /\ Unopened /\ [Next]_vars => AbstractStep /\ Unopened'
<1> SUFFICES ASSUME BrowserInv, Unopened, [Next]_vars
             PROVE  AbstractStep /\ Unopened'
  OBVIOUS
<1>1. ASSUME NEW r \in Creates, CreateBegin(r) \/ CreateStep(r)
      PROVE  AbstractStep /\ Unopened'
  BY <1>1, CreateSteps
<1>2. ASSUME NEW r \in Creates, TimerStep(r)
      PROVE  AbstractStep /\ Unopened'
  <2>1. CASE TimerFires(r)
    <3>1. \A q \in Creates : Closing(q)' <=> Closing(q) \/ (q = r /\ r \in sessions)
      BY <2>1 DEF TimerFires, Closing, deleting, stopping, BrowserInv, TypeOK
    <3> QED
      BY <2>1, <3>1, BeginCloseStep DEF TimerFires, creating
  <2>2. CASE ExpireDone(r)
    <3>1. \A q \in Creates \ {r} : Closing(q)' <=> Closing(q)
      BY <2>2 DEF ExpireDone, Closing, deleting, stopping, BrowserInv, TypeOK
    <3>2. Closing(r)
      BY <2>2 DEF ExpireDone, Closing
    <3> QED
      BY <2>2, <3>1, <3>2, EndCloseStep DEF ExpireDone, creating
  <2> QED
    BY <1>2, <2>1, <2>2 DEF TimerStep
<1>3. ASSUME NEW b \in Creates, BrowserCrash(b) \/ TermBrowserClosed(b)
      PROVE  AbstractStep /\ Unopened'
  BY <1>3, KillStep DEF BrowserCrash, TermBrowserClosed, creating, stopping
<1>4. ASSUME NEW d \in Deletes, NEW r \in Creates, DeleteBegin(d, r)
      PROVE  AbstractStep /\ Unopened'
  <2>1. /\ expiring' = expiring /\ visiting' = visiting /\ r \in sessions
        /\ del[d] = "new" /\ del'[d] = "closing" /\ deleted'[d] = r
        /\ \A c \in Deletes \ {d} : del'[c] = del[c] /\ deleted'[c] = deleted[c]
    BY <1>4 DEF DeleteBegin, stopping, BrowserInv, TypeOK
  <2>2. \A q \in Creates : Closing(q)' <=> Closing(q) \/ (q = r /\ r \in sessions)
    BY <2>1 DEF Closing
  <2> QED
    BY <1>4, <2>2, BeginCloseStep DEF DeleteBegin, creating
<1>5. ASSUME NEW d \in Deletes, NEW r \in Creates, DeleteGone(d, r)
      PROVE  AbstractStep /\ Unopened'
  <2>1. /\ expiring' = expiring /\ visiting' = visiting
        /\ del[d] = "new" /\ del'[d] = "done"
        /\ \A c \in Deletes \ {d} : del'[c] = del[c] /\ deleted'[c] = deleted[c]
    BY <1>5 DEF DeleteGone, stopping, BrowserInv, TypeOK
  <2>2. \A q \in Creates : Closing(q)' <=> Closing(q)
    BY <2>1 DEF Closing
  <2> QED
    BY <1>5, <2>2, StutterStep DEF DeleteGone, creating
<1>6. ASSUME NEW d \in Deletes, DeleteDone(d)
      PROVE  AbstractStep /\ Unopened'
  <2>1. PICK r \in Creates : r = deleted[d] /\ EndClose(r)
    BY <1>6 DEF DeleteDone
  <2>2. /\ del[d] = "closing" /\ del'[d] = "done" /\ deleted' = deleted
        /\ \A c \in Deletes \ {d} : del'[c] = del[c]
        /\ UNCHANGED <<expiring, visiting, cre, ctx>>
    BY <1>6 DEF DeleteDone, stopping, creating, BrowserInv, TypeOK
  <2>3. Closing(r) /\ \A q \in Creates \ {r} : Closing(q)' <=> Closing(q)
    BY <2>1, <2>2 DEF Closing
  <2> QED
    BY <2>1, <2>2, <2>3, EndCloseStep
<1>7. ASSUME NEW u \in Uses, UseRequest(u) \/ UseStep(u)
      PROVE  AbstractStep /\ Unopened'
  BY <1>7, StutterStep DEF UseRequest, UseMissing, UseFound, UseStep, UseRuns, UseDone, creating, stopping
<1>8. CASE TermVisited
  <2>1. PICK r \in Creates : r = visiting /\ EndClose(r)
    BY <1>8 DEF TermVisited
  <2>2. visiting' = None /\ None \notin Creates /\ UNCHANGED <<cre, ctx, expiring, deleting>>
    BY <1>8, RequestsAssumption DEF TermVisited, creating
  <2>3. Closing(r) /\ \A q \in Creates \ {r} : Closing(q)' <=> Closing(q)
    BY <2>1, <2>2 DEF Closing, deleting
  <2> QED
    BY <2>1, <2>2, <2>3, EndCloseStep
<1>9. ASSUME NEW r \in Creates, TermVisit(r)
      PROVE  AbstractStep /\ Unopened'
  <2>1. \A q \in Creates : Closing(q)' <=> Closing(q) \/ (q = r /\ r \in sessions)
    BY <1>9, RequestsAssumption DEF TermVisit, Closing, deleting
  <2> QED
    BY <1>9, <2>1, BeginCloseStep DEF TermVisit, creating
<1>10. CASE Sigterm \/ TermBrowsers \/ TermServerClose \/ TermExit \/ TermFails \/ Exited
  BY <1>10, StutterStep DEF Sigterm, TermBrowsers, TermServerClose, TermExit, TermFails, Exited, vars,
                            creating, stopping
<1>11. CASE UNCHANGED vars
  BY <1>11, StutterStep DEF vars, creating, stopping
<1> QED
  BY <1>1, <1>2, <1>3, <1>4, <1>5, <1>6, <1>7, <1>8, <1>9, <1>10, <1>11, ContextClosesStep
     DEF Next, TermStep, DeleteRequest

\* closeSession and createSession: an id is listed once, with an open context,
\* and once somebody closes it, it leaves for good, whoever else closes it.
THEOREM SessionsRefine == Spec => ImplementsSessions
<1>1. Init => Lifecycle!Init /\ BrowserInv /\ Unopened
  BY BrowserInitInv DEF Init, Lifecycle!Init, Unopened
<1>2. BrowserInv /\ Unopened /\ [Next]_vars => (BrowserInv /\ Unopened)' /\ [Lifecycle!Next]_(Lifecycle!vars)
  BY BrowserNextInv, RefineNext DEF AbstractStep, Listing, Lifecycle!vars
<1> QED
  BY <1>1, <1>2, PTL DEF Spec, ImplementsSessions, Lifecycle!Spec
=============================================================================
