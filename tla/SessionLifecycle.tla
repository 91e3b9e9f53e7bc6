-------------------------- MODULE SessionLifecycle --------------------------
(***************************************************************************)
(* What the browser service promises about its sessions, with no request,  *)
(* timer, pool or shutdown in sight.  A session is listed once, with an    *)
(* open context; once somebody closes it, it is not handed back, and it    *)
(* leaves the list for good.  BrowserServer implements this module.        *)
(*                                                                         *)
(* Three permissions are deliberate, because the code needs them: a listed *)
(* session may lose its context (its browser died), a context may be       *)
(* opened for a session that is never listed, and a context may outlive    *)
(* the entry of its session (its close failed).                            *)
(***************************************************************************)
CONSTANT Sessions

VARIABLES state,     \* absent, listed under an id that clients may use, closing or gone
          context    \* none, open or closed

vars == <<state, context>>

Init == /\ state = [s \in Sessions |-> "absent"]
        /\ context = [s \in Sessions |-> "none"]

Open(s) == /\ state[s] = "absent" /\ context[s] = "none"
           /\ context' = [context EXCEPT ![s] = "open"]
           /\ UNCHANGED state

List(s) == /\ state[s] = "absent" /\ context[s] = "open"
           /\ state' = [state EXCEPT ![s] = "listed"]
           /\ UNCHANGED context

\* The client, the idle timer or a shutdown begins to close it; others may
\* join, and the first to end takes the entry away.
Close(s) == /\ state[s] = "listed"
            /\ state' = [state EXCEPT ![s] = "closing"]
            /\ UNCHANGED context

Leave(s) == /\ state[s] = "closing"
            /\ state' = [state EXCEPT ![s] = "gone"]
            /\ UNCHANGED context

\* The context of a session nobody closes goes only with its browser.
CloseContext(s) == /\ state[s] \in {"closing", "gone"} /\ context[s] = "open"
                   /\ context' = [context EXCEPT ![s] = "closed"]
                   /\ UNCHANGED state

\* A browser ends and takes its contexts along.
Lose(lost) == /\ \A s \in lost : context[s] = "open"
              /\ context' = [s \in Sessions |-> IF s \in lost THEN "closed" ELSE context[s]]
              /\ UNCHANGED state

Next == \/ \E s \in Sessions : Open(s) \/ List(s) \/ Close(s) \/ Leave(s) \/ CloseContext(s)
        \/ \E lost \in SUBSET Sessions : Lose(lost)

Spec == Init /\ [][Next]_vars
=============================================================================
