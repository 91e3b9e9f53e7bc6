--------------------------- MODULE BrowserServer ----------------------------
(***************************************************************************)
(* The browser service: a pool of one browser per type, sessions (one      *)
(* context and page each) kept in a map, idle timers, and the shutdown on  *)
(* SIGTERM.  JavaScript runs one handler at a time up to its next await,   *)
(* so an action is the code between two awaits, and every await is a place *)
(* where the other handlers run.                                           *)
(*                                                                         *)
(* A create is one POST /session and names the session it makes, and the   *)
(* browser it launches when it launches one.  Deletes and Uses are one     *)
(* DELETE /session/:id and one POST /session/:id/action each.              *)
(***************************************************************************)
EXTENDS Naturals, FiniteSets

CONSTANTS Creates, Deletes, Uses, Types, None,
          MaxSessions,     \* BROWSER_MAX_SESSIONS
          MaxCrashes       \* bound on browsers that die by themselves

ASSUME RequestsAssumption ==
  IsFiniteSet(Creates) /\ IsFiniteSet(Deletes) /\ IsFiniteSet(Uses) /\ None \notin Creates
ASSUME LimitsAssumption == MaxSessions \in Nat /\ MaxCrashes \in Nat

VARIABLES
  cre,      \* each create: where createSession is
  kind, on, \* the browser type it asked for, and the browser it got
  ctx,      \* its context
  timer,    \* whether its idle timer is set
  expiring, \* how many closeSession calls of its timer are waiting
  sessions, \* the map
  browser,  \* the browser each create launched
  pool,     \* browserPool: the create that launched the browser, per type
  del, deleted, \* each delete, and the session it names
  use, used,    \* each action, and the session it holds
  term, visiting, doomed, \* SIGTERM: its phase, the session or the browsers it is closing
  crashes,
  threw     \* history: the sessions whose context.close threw

creating == <<cre, kind, on>>
deleting == <<del, deleted>>
using    == <<use, used>>
stopping == <<term, visiting, doomed>>
vars == <<creating, ctx, timer, expiring, sessions, browser, pool, deleting, using, stopping,
          crashes, threw>>

CreateInFlight == {"launching", "opening", "paging"}

TypeOK ==
  /\ cre \in [Creates -> CreateInFlight \cup {"new", "stored", "limited", "failed"}]
  /\ kind \in [Creates -> Types \cup {None}] /\ on \in [Creates -> Creates \cup {None}]
  /\ ctx \in [Creates -> {"none", "open", "closed"}]
  /\ timer \in [Creates -> BOOLEAN] /\ expiring \in [Creates -> Nat]
  /\ sessions \subseteq Creates
  /\ browser \in [Creates -> {"none", "live", "dead"}]
  /\ pool \in [Types -> Creates \cup {None}]
  /\ del \in [Deletes -> {"new", "closing", "done"}]
  /\ deleted \in [Deletes -> Creates \cup {None}]
  /\ use \in [Uses -> {"new", "reading", "running", "done"}]
  /\ used \in [Uses -> Creates \cup {None}]
  /\ term \in {"no", "sessions", "browsers", "draining", "exited"}
  /\ visiting \in Creates \cup {None} /\ doomed \subseteq Creates
  /\ crashes \in Nat /\ threw \subseteq Creates

Init ==
  /\ cre = [r \in Creates |-> "new"]
  /\ kind = [r \in Creates |-> None] /\ on = [r \in Creates |-> None]
  /\ ctx = [r \in Creates |-> "none"]
  /\ timer = [r \in Creates |-> FALSE] /\ expiring = [r \in Creates |-> 0]
  /\ sessions = {}
  /\ browser = [r \in Creates |-> "none"] /\ pool = [t \in Types |-> None]
  /\ del = [d \in Deletes |-> "new"] /\ deleted = [d \in Deletes |-> None]
  /\ use = [u \in Uses |-> "new"] /\ used = [u \in Uses |-> None]
  /\ term = "no" /\ visiting = None /\ doomed = {}
  /\ crashes = 0 /\ threw = {}

\* server.close stops new requests; process.exit everything.
Accepting == term \in {"no", "sessions", "browsers"}
Running == term # "exited"

-----------------------------------------------------------------------------
(* Steps that several handlers share.  The ...Faulty variants are the       *)
(* mistakes the properties are validated against; no action uses them.      *)

\* closeSession up to its await: the session stays in the map meanwhile.
BeginClose(r) == timer' = [timer EXCEPT ![r] = FALSE]

Closing(r) == \/ expiring[r] > 0 \/ visiting = r
              \/ \E d \in Deletes : del[d] = "closing" /\ deleted[d] = r

\* closeSession after its await.  context.close has returned, which it does at
\* once when another close of the context is under way; or it threw, which is
\* only logged.  The entry goes in each case, the context perhaps not.
EndCloseFaulty(r) == sessions' = sessions \ {r} /\ UNCHANGED threw
EndCloseKeepsEntry(r) == UNCHANGED <<sessions, threw>>
EndClose(r) ==
  /\ sessions' = sessions \ {r}
  /\ \/ (ctx[r] = "closed" \/ Closing(r)') /\ UNCHANGED threw
     \/ threw' = threw \cup {r}

\* A browser dies and takes its contexts along; pool and map do not notice.
Kill(b) ==
  /\ browser' = [browser EXCEPT ![b] = "dead"]
  /\ ctx' = [r \in Creates |-> IF on[r] = b /\ ctx[r] = "open" THEN "closed" ELSE ctx[r]]

Room == Cardinality(sessions) < MaxSessions

-----------------------------------------------------------------------------
(* POST /session: createSession and getBrowser *)

CreateLimited(r) ==
  /\ Accepting /\ cre[r] = "new" /\ ~Room
  /\ cre' = [cre EXCEPT ![r] = "limited"]
  /\ UNCHANGED <<kind, on, ctx, timer, expiring, sessions, browser, pool, deleting, using,
                 stopping, crashes, threw>>

\* A browser type the pool does not have, or a body that is not JSON.
CreateRejected(r) ==
  /\ Accepting /\ cre[r] = "new"
  /\ cre' = [cre EXCEPT ![r] = "failed"]
  /\ UNCHANGED <<kind, on, ctx, timer, expiring, sessions, browser, pool, deleting, using,
                 stopping, crashes, threw>>

\* The first awaits: the launch when the pool has no browser of the type,
CreateLaunch(r, t) ==
  /\ Accepting /\ cre[r] = "new" /\ Room /\ pool[t] = None
  /\ cre' = [cre EXCEPT ![r] = "launching"]
  /\ kind' = [kind EXCEPT ![r] = t]
  /\ UNCHANGED <<on, ctx, timer, expiring, sessions, browser, pool, deleting, using, stopping,
                 crashes, threw>>

\* or else newContext on the one it has, dead or alive.
CreateReuse(r, t) ==
  /\ Accepting /\ cre[r] = "new" /\ Room /\ pool[t] # None
  /\ cre' = [cre EXCEPT ![r] = "opening"]
  /\ kind' = [kind EXCEPT ![r] = t]
  /\ on' = [on EXCEPT ![r] = pool[t]]
  /\ UNCHANGED <<ctx, timer, expiring, sessions, browser, pool, deleting, using, stopping,
                 crashes, threw>>

\* The pool is overwritten without another look at it.
LaunchDone(r) ==
  /\ Running /\ cre[r] = "launching"
  /\ browser' = [browser EXCEPT ![r] = "live"]
  /\ pool' = [pool EXCEPT ![kind[r]] = r]
  /\ on' = [on EXCEPT ![r] = r]
  /\ cre' = [cre EXCEPT ![r] = "opening"]
  /\ UNCHANGED <<kind, ctx, timer, expiring, sessions, deleting, using, stopping, crashes, threw>>

ContextOpened(r) ==
  /\ Running /\ cre[r] = "opening" /\ browser[on[r]] = "live"
  /\ ctx' = [ctx EXCEPT ![r] = "open"]
  /\ cre' = [cre EXCEPT ![r] = "paging"]
  /\ UNCHANGED <<kind, on, timer, expiring, sessions, browser, pool, deleting, using, stopping,
                 crashes, threw>>

\* launch, newContext or newPage throws: a context already open stays open.
CreateFail(r) ==
  /\ Running /\ cre[r] \in CreateInFlight
  /\ cre' = [cre EXCEPT ![r] = "failed"]
  /\ UNCHANGED <<kind, on, ctx, timer, expiring, sessions, browser, pool, deleting, using,
                 stopping, crashes, threw>>

\* newPage answers: the session is stored, whatever the size of the map by now.
PageOpened(r) ==
  /\ Running /\ cre[r] = "paging" /\ ctx[r] = "open"
  /\ sessions' = sessions \cup {r}
  /\ timer' = [timer EXCEPT ![r] = TRUE]
  /\ cre' = [cre EXCEPT ![r] = "stored"]
  /\ UNCHANGED <<kind, on, ctx, expiring, browser, pool, deleting, using, stopping, crashes, threw>>

-----------------------------------------------------------------------------
(* DELETE /session/:id, for a session whose id a reply told *)

DeleteBegin(d, r) ==
  /\ Accepting /\ del[d] = "new" /\ r \in sessions
  /\ BeginClose(r)
  /\ del' = [del EXCEPT ![d] = "closing"]
  /\ deleted' = [deleted EXCEPT ![d] = r]
  /\ UNCHANGED <<creating, ctx, expiring, sessions, browser, pool, using, stopping, crashes, threw>>

\* closeSession finds nothing to close, and the answer is 204 all the same.
DeleteGone(d, r) ==
  /\ Accepting /\ del[d] = "new" /\ cre[r] = "stored" /\ r \notin sessions
  /\ del' = [del EXCEPT ![d] = "done"]
  /\ deleted' = [deleted EXCEPT ![d] = r]
  /\ UNCHANGED <<creating, ctx, timer, expiring, sessions, browser, pool, using, stopping, crashes,
                 threw>>

DeleteDone(d) ==
  /\ Running /\ del[d] = "closing"
  /\ del' = [del EXCEPT ![d] = "done"]
  /\ UNCHANGED <<creating, ctx, deleted, timer, expiring, browser, pool, using, stopping, crashes>>
  /\ \E r \in Creates : r = deleted[d] /\ EndClose(r)

-----------------------------------------------------------------------------
(* The idle timer of a session *)

\* It may be the timer of a session already gone: an action set it again.
TimerFires(r) ==
  /\ Running /\ timer[r]
  /\ BeginClose(r)
  /\ expiring' = IF r \in sessions THEN [expiring EXCEPT ![r] = @ + 1] ELSE expiring
  /\ UNCHANGED <<creating, ctx, sessions, browser, pool, deleting, using, stopping, crashes, threw>>

ExpireDone(r) ==
  /\ Running /\ expiring[r] > 0
  /\ expiring' = [expiring EXCEPT ![r] = @ - 1]
  /\ UNCHANGED <<creating, ctx, timer, browser, pool, deleting, using, stopping, crashes>>
  /\ EndClose(r)

\* The context of a session somebody is closing goes, in its own time.
ContextCloses(r) ==
  /\ Running /\ Closing(r) /\ ctx[r] = "open"
  /\ ctx' = [ctx EXCEPT ![r] = "closed"]
  /\ UNCHANGED <<creating, timer, expiring, sessions, browser, pool, deleting, using, stopping,
                 crashes, threw>>

-----------------------------------------------------------------------------
(* POST /session/:id/action: the session is looked up, then the body is    *)
(* read, then handleAction runs on the session it holds.                   *)

UseMissing(u, r) ==
  /\ Accepting /\ use[u] = "new" /\ cre[r] = "stored" /\ r \notin sessions
  /\ use' = [use EXCEPT ![u] = "done"]
  /\ UNCHANGED <<creating, ctx, timer, expiring, sessions, browser, pool, deleting, used,
                 stopping, crashes, threw>>

UseFound(u, r) ==
  /\ Accepting /\ use[u] = "new" /\ r \in sessions
  /\ use' = [use EXCEPT ![u] = "reading"]
  /\ used' = [used EXCEPT ![u] = r]
  /\ UNCHANGED <<creating, ctx, timer, expiring, sessions, browser, pool, deleting, stopping,
                 crashes, threw>>

\* refreshSessionTimeout, even on a session that was closed meanwhile.
UseRunsFaulty(u) ==
  /\ Running /\ use[u] = "reading"
  /\ timer' = [timer EXCEPT ![used[u]] = FALSE]
  /\ use' = [use EXCEPT ![u] = "running"]
  /\ UNCHANGED <<creating, ctx, expiring, sessions, browser, pool, deleting, used, stopping,
                 crashes, threw>>
UseRuns(u) ==
  /\ Running /\ use[u] = "reading"
  /\ timer' = [timer EXCEPT ![used[u]] = TRUE]
  /\ use' = [use EXCEPT ![u] = "running"]
  /\ UNCHANGED <<creating, ctx, expiring, sessions, browser, pool, deleting, used, stopping,
                 crashes, threw>>

\* The page answers or throws, or the body was not JSON.
UseDone(u) ==
  /\ Running /\ use[u] \in {"reading", "running"}
  /\ use' = [use EXCEPT ![u] = "done"]
  /\ UNCHANGED <<creating, ctx, timer, expiring, sessions, browser, pool, deleting, used,
                 stopping, crashes, threw>>

-----------------------------------------------------------------------------
(* SIGTERM: the sessions are closed one by one, then the browsers of the   *)
(* pool, while the server still accepts requests; then it is closed.       *)

Sigterm ==
  /\ term = "no"
  /\ term' = "sessions"
  /\ UNCHANGED <<creating, ctx, timer, expiring, sessions, browser, pool, deleting, using,
                 visiting, doomed, crashes, threw>>

TermVisit(r) ==
  /\ term = "sessions" /\ visiting = None /\ r \in sessions
  /\ BeginClose(r)
  /\ visiting' = r
  /\ UNCHANGED <<creating, ctx, expiring, sessions, browser, pool, deleting, using, term, doomed,
                 crashes, threw>>

TermVisited ==
  /\ term = "sessions" /\ visiting # None
  /\ visiting' = None
  /\ UNCHANGED <<creating, ctx, timer, expiring, browser, pool, deleting, using, term, doomed,
                 crashes>>
  /\ \E r \in Creates : r = visiting /\ EndClose(r)

\* The loop over the map ends when it finds no more entries; Object.entries
\* then copies the pool as it is.
TermBrowsersFaulty ==
  /\ term = "sessions" /\ visiting = None /\ sessions = {}
  /\ term' = "browsers"
  /\ doomed' = {pool[t] : t \in Types}
  /\ UNCHANGED <<creating, ctx, timer, expiring, sessions, browser, pool, deleting, using,
                 visiting, crashes, threw>>
TermBrowsers ==
  /\ term = "sessions" /\ visiting = None /\ sessions = {}
  /\ term' = "browsers"
  /\ doomed' = {pool[t] : t \in Types} \ {None}
  /\ UNCHANGED <<creating, ctx, timer, expiring, sessions, browser, pool, deleting, using,
                 visiting, crashes, threw>>

TermBrowserClosed(b) ==
  /\ term = "browsers" /\ b \in doomed
  /\ Kill(b)
  /\ doomed' = doomed \ {b}
  /\ UNCHANGED <<creating, timer, expiring, sessions, pool, deleting, using, term, visiting,
                 crashes, threw>>

TermServerClose ==
  /\ term = "browsers" /\ doomed = {}
  /\ term' = "draining"
  /\ UNCHANGED <<creating, ctx, timer, expiring, sessions, browser, pool, deleting, using,
                 visiting, doomed, crashes, threw>>

\* The callback of server.close: every connection has ended, which the other
\* end may do while a handler is still at work.
TermExit ==
  /\ term = "draining"
  /\ term' = "exited"
  /\ UNCHANGED <<creating, ctx, timer, expiring, sessions, browser, pool, deleting, using,
                 visiting, doomed, crashes, threw>>

\* Nobody catches an error of browser.close: Node ends the process.
TermFails ==
  /\ term = "browsers" /\ doomed # {}
  /\ term' = "exited"
  /\ UNCHANGED <<creating, ctx, timer, expiring, sessions, browser, pool, deleting, using,
                 visiting, doomed, crashes, threw>>

\* A browser process dies by itself.
BrowserCrash(b) ==
  /\ Running /\ browser[b] = "live" /\ crashes < MaxCrashes
  /\ Kill(b)
  /\ crashes' = crashes + 1
  /\ UNCHANGED <<creating, timer, expiring, sessions, pool, deleting, using, stopping, threw>>

\* The process is gone.
Exited == term = "exited" /\ UNCHANGED vars

-----------------------------------------------------------------------------
CreateBegin(r) ==
  \/ CreateLimited(r) \/ CreateRejected(r)
  \/ \E t \in Types : CreateLaunch(r, t) \/ CreateReuse(r, t)
CreateStep(r) == LaunchDone(r) \/ ContextOpened(r) \/ CreateFail(r) \/ PageOpened(r)
DeleteRequest(d) == \E r \in Creates : DeleteBegin(d, r) \/ DeleteGone(d, r)
TimerStep(r) == TimerFires(r) \/ ExpireDone(r)
UseRequest(u) == \E r \in Creates : UseMissing(u, r) \/ UseFound(u, r)
UseStep(u) == UseRuns(u) \/ UseDone(u)
TermStep ==
  \/ \E r \in Creates : TermVisit(r) \/ TermBrowserClosed(r)
  \/ TermVisited \/ TermBrowsers \/ TermServerClose \/ TermExit \/ TermFails

Next ==
  \/ \E r \in Creates : CreateBegin(r) \/ CreateStep(r) \/ TimerStep(r)
                       \/ ContextCloses(r) \/ BrowserCrash(r)
  \/ \E d \in Deletes : DeleteRequest(d) \/ DeleteDone(d)
  \/ \E u \in Uses : UseRequest(u) \/ UseStep(u)
  \/ Sigterm \/ TermStep \/ Exited

Spec == Init /\ [][Next]_vars

\* A timer that stays set fires.  Nothing else is sure: newContext, newPage,
\* evaluate and context.close have no time limit, and nobody has to send a
\* request.
FairSpec == Spec /\ \A r \in Creates : WF_vars(TimerFires(r))

-----------------------------------------------------------------------------
(* Safety *)

\* An id the map knows can be used: its context is open, unless somebody is
\* closing the session or its browser died.
EntriesUsable == \A r \in sessions :
  ctx[r] = "open" \/ Closing(r) \/ browser[on[r]] = "dead"

\* A session nobody is closing has its idle timer set, so it cannot outlive its
\* client for ever: actions refresh it, closes of others do not clear it.
EntriesExpire == \A r \in sessions : timer[r] \/ Closing(r)

\* An open context belongs to a session, to a create under way, to a close
\* under way, or to an operation that threw, newPage or context.close: closing a
\* session, in any order and any number of times, forgets none without an error.
ContextsAccounted == \A r \in Creates : ctx[r] = "open" =>
  r \in sessions \/ cre[r] \in {"paging", "failed"} \/ Closing(r) \/ r \in threw

\* After DELETE answered 204 the id is out of the map and never comes back,
\* whichever of the delete, the timer and the shutdown took it out.
DeletedIsGone == \A d \in Deletes : del[d] = "done" => deleted[d] \notin sessions

\* The service implements SessionLifecycle: however deletes, timers, a shutdown
\* and the end of a browser overlap, an id is listed once, with an open context;
\* a session that somebody closes is never handed back, and leaves for good.
Lifecycle == INSTANCE SessionLifecycle
  WITH Sessions <- Creates, context <- ctx,
       state <- [r \in Creates |-> IF r \in sessions
                                   THEN IF Closing(r) THEN "closing" ELSE "listed"
                                   ELSE IF cre[r] = "stored" THEN "gone" ELSE "absent"]
ImplementsSessions == Lifecycle!Spec

-----------------------------------------------------------------------------
(* Liveness *)

\* The service begins to close a session whose client forgets it, or never
\* learned its id because the gateway gave up after 30 seconds, though pages
\* hang, bodies never end and closes never return.
EverySessionExpires ==
  \A r \in Creates : r \in sessions ~> Closing(r) \/ r \notin sessions \/ term = "exited"

-----------------------------------------------------------------------------
(* What the comments and the documentation say and the code does not do *)

\* createSession: "enforcing the global session cap".
SessionCap == Cardinality(sessions) <= MaxSessions

\* browserPool: "one long-lived browser per type, lazily launched".
OneBrowserPerType == \A a, b \in Creates :
  browser[a] = "live" /\ browser[b] = "live" /\ kind[a] = kind[b] => a = b
=============================================================================
