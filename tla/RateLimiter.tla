---------------------------- MODULE RateLimiter ----------------------------
(***************************************************************************)
(* MemoryLimiter: a count of requests per key in fixed windows, behind a   *)
(* mutex, so that Allow is one step.  The callers always pass a limit      *)
(* above zero.  The windows live in memory: Forget is the end of the       *)
(* process.  log is history: the requests allowed since, each with its     *)
(* time and the start of the window it was counted in.                     *)
(***************************************************************************)
EXTENDS Naturals, Sequences

CONSTANTS Keys,      \* tokens or addresses
          Limit,     \* requests per window, for each key
          Window,    \* a minute, in ticks
          MaxTime    \* bound on the clock

ASSUME KeysAssumption == Limit \in [Keys -> Nat \ {0}]
ASSUME WindowAssumption == Window \in Nat \ {0} /\ MaxTime \in Nat

VARIABLES now, windows, log

limiter == <<now, windows, log>>

\* A key without a window yet has one that counts nothing.
NoWindow == [start |-> 0, count |-> 0]

LimiterTypeOK ==
  /\ now \in Nat
  /\ windows \in [Keys -> [start : Nat, count : Nat]]
  /\ log \in [Keys -> Seq([at : Nat, start : Nat])]

LimiterInit ==
  /\ now = 0
  /\ windows = [k \in Keys |-> NoWindow]
  /\ log = [k \in Keys |-> <<>>]

\* Allow begins a window when the key has none or its window is over.
OverFaulty(k) == windows[k].count = 0 \/ now - windows[k].start > Window
Over(k) == windows[k].count = 0 \/ now - windows[k].start >= Window
Full(k) == windows[k].count >= Limit[k]

Counted(k, window) ==
  /\ windows' = [windows EXCEPT ![k] = window]
  /\ log' = [log EXCEPT ![k] = Append(@, [at |-> now, start |-> window.start])]
  /\ UNCHANGED now

AllowFaulty(k) ==
  IF Over(k) THEN Counted(k, [start |-> now, count |-> 0])
  ELSE ~Full(k) /\ Counted(k, [start |-> windows[k].start, count |-> windows[k].count + 1])
Allow(k) ==
  IF Over(k) THEN Counted(k, [start |-> now, count |-> 1])
  ELSE ~Full(k) /\ Counted(k, [start |-> windows[k].start, count |-> windows[k].count + 1])

\* A refusal is not counted and moves no window.
Deny(k) == ~Over(k) /\ Full(k) /\ UNCHANGED limiter

Tick == now < MaxTime /\ now' = now + 1 /\ UNCHANGED <<windows, log>>

Forget ==
  /\ windows' = [k \in Keys |-> NoWindow] /\ log' = [k \in Keys |-> <<>>]
  /\ UNCHANGED now

LimiterNext == (\E k \in Keys : Allow(k)) \/ Tick \/ Forget
LimiterSpec == LimiterInit /\ [][LimiterNext]_limiter

-----------------------------------------------------------------------------
\* Fixed windows let more than the limit through in a minute that straddles two
\* of them, but never more than twice: of 2 * limit + 1 requests allowed to a
\* key in one life of the process, the last comes more than a window after the
\* first.
RateBound ==
  \A k \in Keys : \A i \in 1 .. Len(log[k]) :
    i + 2 * Limit[k] <= Len(log[k]) => log[k][i].at + Window < log[k][i + 2 * Limit[k]].at

\* handleTokenMode answers 429 with "Retry-After: 60".  Whoever would be refused
\* now has used up the limit within the last window, so refused requests do not
\* keep a client out.
RefusalsAreEarned ==
  \A k \in Keys :
    (~Over(k) /\ Full(k)) =>
      /\ Len(log[k]) >= Limit[k]
      /\ now < log[k][Len(log[k]) - Limit[k] + 1].at + Window
=============================================================================
