------------------------- MODULE RateLimiterProofs --------------------------
(***************************************************************************)
(* Proofs about RateLimiter, for any keys, limits and length of a window.  *)
(*                                                                         *)
(* The invariant splits a key's requests into those of its current window, *)
(* which are its last `count` ones, and those of earlier windows, each of  *)
(* which began a whole window before.  Since no window counts more than    *)
(* the limit, requests a limit apart are of different windows, and their   *)
(* windows began at least a window apart.                                  *)
(***************************************************************************)
EXTENDS RateLimiter, TLAPS

\* The requests of the current window are the last ones; the others' windows are over.
Sorted(k) ==
  \A i \in 1 .. Len(log[k]) :
    IF i > Len(log[k]) - windows[k].count THEN log[k][i].start = windows[k].start
    ELSE log[k][i].start + Window <= windows[k].start

\* A request comes before its window is over.
Dated(k) ==
  \A i \in 1 .. Len(log[k]) :
    log[k][i].start <= log[k][i].at /\ log[k][i].at < log[k][i].start + Window

\* Requests a limit apart are of windows a window apart.
Spaced(k) ==
  \A i \in 1 .. Len(log[k]) :
    i + Limit[k] <= Len(log[k]) => log[k][i].start + Window <= log[k][i + Limit[k]].start

Bounded(k) ==
  /\ windows[k].count <= Len(log[k]) /\ windows[k].count <= Limit[k]
  /\ windows[k].count = 0 => Len(log[k]) = 0
  /\ windows[k].start <= now

LimiterInv ==
  /\ LimiterTypeOK
  /\ \A k \in Keys : Sorted(k) /\ Dated(k) /\ Spaced(k) /\ Bounded(k)

-----------------------------------------------------------------------------
\* What the types say of one key.
LEMMA KeyTypes ==
  ASSUME LimiterTypeOK, NEW k \in Keys
  PROVE  /\ Window \in Nat /\ Window > 0 /\ Limit[k] \in Nat /\ Limit[k] > 0
         /\ now \in Nat /\ windows[k].start \in Nat /\ windows[k].count \in Nat
         /\ Len(log[k]) \in Nat
         /\ \A i \in 1 .. Len(log[k]) : log[k][i].at \in Nat /\ log[k][i].start \in Nat
<1>1. Window \in Nat /\ Window > 0 /\ now \in Nat
  BY WindowAssumption DEF LimiterTypeOK
<1>2. Limit[k] \in Nat /\ Limit[k] > 0
  <2>1. Limit[k] \in Nat \ {0}
    BY KeysAssumption
  <2> QED
    BY <2>1
<1>3. windows[k].start \in Nat /\ windows[k].count \in Nat
  <2>1. windows[k] \in [start : Nat, count : Nat]
    BY DEF LimiterTypeOK
  <2> QED
    BY <2>1
<1>4. log[k] \in Seq([at : Nat, start : Nat])
  BY DEF LimiterTypeOK
<1>5. Len(log[k]) \in Nat
  BY <1>4
<1>6. ASSUME NEW i \in 1 .. Len(log[k])
      PROVE  log[k][i].at \in Nat /\ log[k][i].start \in Nat
  <2> DEFINE E == [at : Nat, start : Nat]
             q == log[k]
  <2>1. q[i] \in E
    <3>1. q \in Seq(E) /\ i \in 1 .. Len(q)
      BY <1>4
    <3> HIDE DEF E, q
    <3> QED
      BY <3>1
  <2>2. \A e \in [at : Nat, start : Nat] : e.at \in Nat /\ e.start \in Nat
    OBVIOUS
  <2> QED
    BY <2>1, <2>2, Zenon
<1> QED
  BY <1>1, <1>2, <1>3, <1>5, <1>6

LEMMA LimiterInitInv == LimiterInit => LimiterInv
<1> SUFFICES ASSUME LimiterInit
             PROVE  LimiterInv
  OBVIOUS
<1>1. LimiterTypeOK
  BY DEF LimiterInit, LimiterTypeOK, NoWindow
<1>2. ASSUME NEW k \in Keys
      PROVE  Sorted(k) /\ Dated(k) /\ Spaced(k) /\ Bounded(k)
  <2>1. Len(log[k]) = 0 /\ windows[k].count = 0 /\ windows[k].start = 0 /\ now = 0
    BY DEF LimiterInit, NoWindow
  <2>2. 1 .. Len(log[k]) = {}
    BY <2>1
  <2> QED
    BY <1>1, <2>1, <2>2, KeyTypes DEF Sorted, Dated, Spaced, Bounded
<1> QED
  BY <1>1, <1>2 DEF LimiterInv

\* What one more request does to the log of its key.
LEMMA CountedLog ==
  ASSUME LimiterTypeOK, NEW k \in Keys, NEW window \in [start : Nat, count : Nat],
         Counted(k, window)
  PROVE  /\ windows'[k] = window
         /\ Len(log'[k]) = Len(log[k]) + 1
         /\ log'[k][Len(log[k]) + 1] = [at |-> now, start |-> window.start]
         /\ \A i \in 1 .. Len(log[k]) : log'[k][i] = log[k][i]
         /\ \A q \in Keys \ {k} : windows'[q] = windows[q] /\ log'[q] = log[q]
         /\ now' = now
         /\ LimiterTypeOK'
<1> DEFINE e == [at |-> now, start |-> window.start]
<1>1. e \in [at : Nat, start : Nat]
  BY DEF LimiterTypeOK
<1>2. log' = [log EXCEPT ![k] = Append(log[k], e)] /\ windows' = [windows EXCEPT ![k] = window] /\ now' = now
  BY DEF Counted
<1> HIDE DEF e
<1>3. log[k] \in Seq([at : Nat, start : Nat])
  BY DEF LimiterTypeOK
<1>4. log'[k] = Append(log[k], e)
  BY <1>2 DEF LimiterTypeOK
<1>5. LimiterTypeOK'
  BY <1>1, <1>2 DEF LimiterTypeOK
<1>6. Len(log'[k]) = Len(log[k]) + 1 /\ log'[k][Len(log[k]) + 1] = e
      /\ \A i \in 1 .. Len(log[k]) : log'[k][i] = log[k][i]
  BY <1>1, <1>3, <1>4
<1> QED
  BY <1>2, <1>5, <1>6 DEF LimiterTypeOK, e

\* A new window: every request so far is of a window that is over.
LEMMA CountedAnew ==
  ASSUME LimiterInv, NEW k \in Keys, Over(k), Counted(k, [start |-> now, count |-> 1])
  PROVE  Sorted(k)' /\ Dated(k)' /\ Spaced(k)' /\ Bounded(k)'
<1> DEFINE n == Len(log[k])
<1>1. /\ n \in Nat /\ Limit[k] \in Nat /\ Limit[k] > 0 /\ Window \in Nat /\ Window > 0 /\ now \in Nat
      /\ windows[k].start \in Nat /\ windows[k].count \in Nat
      /\ \A i \in 1 .. n : log[k][i].at \in Nat /\ log[k][i].start \in Nat
  BY KeyTypes DEF LimiterInv
<1>2. /\ windows'[k] = [start |-> now, count |-> 1]
      /\ Len(log'[k]) = n + 1
      /\ log'[k][n + 1] = [at |-> now, start |-> now]
      /\ \A i \in 1 .. n : log'[k][i] = log[k][i]
      /\ now' = now
  <2>1. [start |-> now, count |-> 1] \in [start : Nat, count : Nat]
    BY <1>1
  <2> QED
    BY <2>1, CountedLog DEF LimiterInv
<1>3. \A i \in 1 .. n : log[k][i].start + Window <= now
  <2>1. windows[k].count = 0 => n = 0
    BY DEF LimiterInv, Bounded
  <2>2. windows[k].count = 0 \/ windows[k].start + Window <= now
    BY <1>1 DEF Over
  <2>3. \A i \in 1 .. n : log[k][i].start <= windows[k].start
    BY <1>1 DEF LimiterInv, Sorted
  <2>4. windows[k].start <= now
    BY DEF LimiterInv, Bounded
  <2>5. \A i \in 1 .. n : i > n - windows[k].count \/ log[k][i].start + Window <= windows[k].start
    BY DEF LimiterInv, Sorted
  <2> QED
    BY <1>1, <2>1, <2>2, <2>3, <2>4, <2>5
<1>4. \A i \in 1 .. n : log[k][i].start <= log[k][i].at /\ log[k][i].at < log[k][i].start + Window
  BY DEF LimiterInv, Dated
<1>5. \A i \in 1 .. n : i + Limit[k] <= n => log[k][i].start + Window <= log[k][i + Limit[k]].start
  BY DEF LimiterInv, Spaced
<1>6. windows'[k].start = now /\ windows'[k].count = 1
      /\ log'[k][n + 1].at = now /\ log'[k][n + 1].start = now
  BY <1>2
<1> HIDE DEF n
<1>7. Sorted(k)'
  BY <1>1, <1>2, <1>3, <1>6 DEF Sorted
<1>8. Dated(k)'
  BY <1>1, <1>2, <1>4, <1>6 DEF Dated
<1>9. Bounded(k)'
  BY <1>1, <1>2, <1>6 DEF Bounded
<1>10. Spaced(k)'
  <2> SUFFICES ASSUME NEW i \in 1 .. n + 1, i + Limit[k] <= n + 1
               PROVE  log'[k][i].start + Window <= log'[k][i + Limit[k]].start
    BY <1>2 DEF Spaced
  <2>1. i \in 1 .. n
    BY <1>1
  <2>2. CASE i + Limit[k] = n + 1
    BY <1>1, <1>2, <1>3, <1>6, <2>1, <2>2
  <2>3. CASE i + Limit[k] <= n
    <3> DEFINE j == i + Limit[k]
    <3>1. j \in 1 .. n /\ log[k][i].start + Window <= log[k][j].start
      BY <1>1, <1>5, <2>1, <2>3
    <3> QED
      BY <1>2, <2>1, <3>1, Zenon
  <2> QED
    BY <1>1, <2>2, <2>3
<1> QED
  BY <1>7, <1>8, <1>9, <1>10

\* One more in the window: fewer than the limit were counted in it before.
LEMMA CountedMore ==
  ASSUME LimiterInv, NEW k \in Keys, ~Over(k), ~Full(k),
         Counted(k, [start |-> windows[k].start, count |-> windows[k].count + 1])
  PROVE  Sorted(k)' /\ Dated(k)' /\ Spaced(k)' /\ Bounded(k)'
<1> DEFINE n == Len(log[k])
           s == windows[k].start
           c == windows[k].count
<1>1. /\ n \in Nat /\ Limit[k] \in Nat /\ Limit[k] > 0 /\ Window \in Nat /\ Window > 0 /\ now \in Nat
      /\ s \in Nat /\ c \in Nat
      /\ \A i \in 1 .. n : log[k][i].at \in Nat /\ log[k][i].start \in Nat
  BY KeyTypes DEF LimiterInv
<1>2. /\ windows'[k] = [start |-> s, count |-> c + 1]
      /\ Len(log'[k]) = n + 1
      /\ log'[k][n + 1] = [at |-> now, start |-> s]
      /\ \A i \in 1 .. n : log'[k][i] = log[k][i]
      /\ now' = now
  <2>1. [start |-> s, count |-> c + 1] \in [start : Nat, count : Nat]
    BY <1>1
  <2> QED
    BY <2>1, CountedLog DEF LimiterInv
<1>3. c < Limit[k] /\ now < s + Window /\ s <= now /\ c <= n
  <2>1. c # 0 /\ ~(now - s >= Window)
    BY DEF Over
  <2>2. s <= now /\ c <= n
    BY DEF LimiterInv, Bounded
  <2>3. ~(c >= Limit[k])
    BY DEF Full
  <2> QED
    BY <1>1, <2>1, <2>2, <2>3
<1>4. \A i \in 1 .. n : IF i > n - c THEN log[k][i].start = s ELSE log[k][i].start + Window <= s
  BY DEF LimiterInv, Sorted
<1>5. \A i \in 1 .. n : log[k][i].start <= log[k][i].at /\ log[k][i].at < log[k][i].start + Window
  BY DEF LimiterInv, Dated
<1>6. \A i \in 1 .. n : i + Limit[k] <= n => log[k][i].start + Window <= log[k][i + Limit[k]].start
  BY DEF LimiterInv, Spaced
<1>7. windows'[k].start = s /\ windows'[k].count = c + 1
      /\ log'[k][n + 1].at = now /\ log'[k][n + 1].start = s
  BY <1>2
<1> HIDE DEF n, s, c
<1>8. Sorted(k)'
  <2> SUFFICES ASSUME NEW i \in 1 .. n + 1
               PROVE  IF i > n - c THEN log'[k][i].start = s ELSE log'[k][i].start + Window <= s
    BY <1>1, <1>2, <1>7 DEF Sorted
  <2>1. CASE i = n + 1
    BY <1>1, <1>7, <2>1
  <2>2. CASE i \in 1 .. n
    BY <1>2, <1>4, <2>2
  <2> QED
    BY <1>1, <2>1, <2>2
<1>9. Dated(k)'
  <2> SUFFICES ASSUME NEW i \in 1 .. n + 1
               PROVE  log'[k][i].start <= log'[k][i].at /\ log'[k][i].at < log'[k][i].start + Window
    BY <1>2 DEF Dated
  <2>1. CASE i = n + 1
    BY <1>1, <1>3, <1>7, <2>1
  <2>2. CASE i \in 1 .. n
    BY <1>2, <1>5, <2>2
  <2> QED
    BY <1>1, <2>1, <2>2
<1>10. Bounded(k)'
  BY <1>1, <1>2, <1>3, <1>7 DEF Bounded
<1>11. Spaced(k)'
  <2> SUFFICES ASSUME NEW i \in 1 .. n + 1, i + Limit[k] <= n + 1
               PROVE  log'[k][i].start + Window <= log'[k][i + Limit[k]].start
    BY <1>2 DEF Spaced
  <2>1. i \in 1 .. n
    BY <1>1
  <2>2. CASE i + Limit[k] = n + 1
    <3>1. ~(i > n - c)
      BY <1>1, <1>3, <2>2
    <3>2. log[k][i].start + Window <= s
      BY <1>4, <2>1, <3>1
    <3> QED
      BY <1>2, <1>7, <2>1, <2>2, <3>2
  <2>3. CASE i + Limit[k] <= n
    <3> DEFINE j == i + Limit[k]
    <3>1. j \in 1 .. n /\ log[k][i].start + Window <= log[k][j].start
      BY <1>1, <1>6, <2>1, <2>3
    <3> QED
      BY <1>2, <2>1, <3>1, Zenon
  <2> QED
    BY <1>1, <2>2, <2>3
<1> QED
  BY <1>8, <1>9, <1>10, <1>11

LEMMA LimiterNextInv == LimiterInv /\ [LimiterNext]_limiter => LimiterInv'
<1> SUFFICES ASSUME LimiterInv, [LimiterNext]_limiter
             PROVE  LimiterInv'
  OBVIOUS
<1>1. ASSUME NEW k \in Keys, Allow(k)
      PROVE  LimiterInv'
  <2>1. PICK window \in [start : Nat, count : Nat] : Counted(k, window)
    <3>1. now \in Nat /\ windows[k].start \in Nat /\ windows[k].count + 1 \in Nat
      BY KeyTypes DEF LimiterInv
    <3> QED
      BY <1>1, <3>1 DEF Allow
  <2>2. /\ LimiterTypeOK' /\ now' = now
        /\ \A q \in Keys \ {k} : windows'[q] = windows[q] /\ log'[q] = log[q]
    BY <2>1, CountedLog DEF LimiterInv
  <2>3. \A q \in Keys \ {k} : Sorted(q)' /\ Dated(q)' /\ Spaced(q)' /\ Bounded(q)'
    BY <2>2 DEF LimiterInv, Sorted, Dated, Spaced, Bounded
  <2>4. Sorted(k)' /\ Dated(k)' /\ Spaced(k)' /\ Bounded(k)'
    BY <1>1, CountedAnew, CountedMore DEF Allow
  <2> QED
    BY <2>2, <2>3, <2>4 DEF LimiterInv
<1>2. ASSUME Tick
      PROVE  LimiterInv'
  <2>1. now' = now + 1 /\ windows' = windows /\ log' = log
    BY <1>2 DEF Tick
  <2>2. LimiterTypeOK'
    BY <2>1 DEF LimiterInv, LimiterTypeOK
  <2>3. ASSUME NEW k \in Keys
        PROVE  Sorted(k)' /\ Dated(k)' /\ Spaced(k)' /\ Bounded(k)'
    <3>1. Sorted(k) /\ Dated(k) /\ Spaced(k) /\ Bounded(k)
      BY DEF LimiterInv
    <3>2. now \in Nat /\ windows[k].start \in Nat
      BY KeyTypes DEF LimiterInv
    <3> QED
      BY <2>1, <3>1, <3>2 DEF Sorted, Dated, Spaced, Bounded
  <2> QED
    BY <2>2, <2>3 DEF LimiterInv
<1>3. ASSUME Forget
      PROVE  LimiterInv'
  <2>1. LimiterTypeOK'
    BY <1>3 DEF Forget, NoWindow, LimiterInv, LimiterTypeOK
  <2>2. ASSUME NEW k \in Keys
        PROVE  Sorted(k)' /\ Dated(k)' /\ Spaced(k)' /\ Bounded(k)'
    <3>1. Len(log'[k]) = 0 /\ windows'[k].count = 0 /\ windows'[k].start = 0 /\ now' = now
      BY <1>3 DEF Forget, NoWindow
    <3>2. 1 .. Len(log'[k]) = {}
      BY <3>1
    <3>3. now \in Nat /\ Limit[k] \in Nat
      BY KeyTypes DEF LimiterInv
    <3> QED
      BY <3>1, <3>2, <3>3 DEF Sorted, Dated, Spaced, Bounded
  <2> QED
    BY <2>1, <2>2 DEF LimiterInv
<1>4. ASSUME UNCHANGED limiter
      PROVE  LimiterInv'
  BY <1>4 DEF limiter, LimiterInv, LimiterTypeOK, Sorted, Dated, Spaced, Bounded
<1> QED
  BY <1>1, <1>2, <1>3, <1>4 DEF LimiterNext

LEMMA LimiterRate == LimiterInv => RateBound
<1> SUFFICES ASSUME LimiterInv, NEW k \in Keys, NEW i \in 1 .. Len(log[k]),
                    i + 2 * Limit[k] <= Len(log[k])
             PROVE  log[k][i].at + Window < log[k][i + 2 * Limit[k]].at
  BY DEF RateBound
<1> DEFINE j == i + Limit[k]
           l == i + 2 * Limit[k]
<1>1. /\ Limit[k] \in Nat /\ Limit[k] > 0 /\ Window \in Nat /\ Len(log[k]) \in Nat
      /\ \A x \in 1 .. Len(log[k]) : log[k][x].at \in Nat /\ log[k][x].start \in Nat
  BY KeyTypes DEF LimiterInv
<1>2. j \in 1 .. Len(log[k]) /\ l \in 1 .. Len(log[k]) /\ l = j + Limit[k]
  BY <1>1
<1>3. \A x \in 1 .. Len(log[k]) :
        x + Limit[k] <= Len(log[k]) => log[k][x].start + Window <= log[k][x + Limit[k]].start
  BY DEF LimiterInv, Spaced
<1>4. \A x \in 1 .. Len(log[k]) : log[k][x].start <= log[k][x].at /\ log[k][x].at < log[k][x].start + Window
  BY DEF LimiterInv, Dated
<1>5. log[k][i].start + Window <= log[k][j].start
  BY <1>1, <1>2, <1>3
<1>6. log[k][j].start + Window <= log[k][l].start
  <2>1. j + Limit[k] <= Len(log[k])
    BY <1>2
  <2> QED
    BY <1>2, <1>3, <2>1
<1>7. log[k][i].at < log[k][i].start + Window /\ log[k][l].start <= log[k][l].at
  BY <1>2, <1>4
<1>8. /\ log[k][i].at \in Nat /\ log[k][i].start \in Nat
      /\ log[k][j].start \in Nat /\ log[k][l].start \in Nat /\ log[k][l].at \in Nat
  BY <1>1, <1>2
<1>9. log[k][i].at + Window < log[k][l].at
  <2>1. \A a, b, c, d, e, w \in Nat : a < b + w /\ b + w <= c /\ c + w <= d /\ d <= e => a + w < e
    OBVIOUS
  <2> HIDE DEF j, l
  <2> QED
    BY <1>1, <1>5, <1>6, <1>7, <1>8, <2>1, Zenon
<1> QED
  BY <1>9

LEMMA LimiterRefusals == LimiterInv => RefusalsAreEarned
<1> SUFFICES ASSUME LimiterInv, NEW k \in Keys, ~Over(k), Full(k)
             PROVE  /\ Len(log[k]) >= Limit[k]
                    /\ now < log[k][Len(log[k]) - Limit[k] + 1].at + Window
  BY DEF RefusalsAreEarned
<1> DEFINE i == Len(log[k]) - Limit[k] + 1
<1>1. /\ Limit[k] \in Nat /\ Limit[k] > 0 /\ Window \in Nat /\ Len(log[k]) \in Nat /\ now \in Nat
      /\ windows[k].start \in Nat /\ windows[k].count \in Nat
      /\ \A x \in 1 .. Len(log[k]) : log[k][x].at \in Nat /\ log[k][x].start \in Nat
  BY KeyTypes DEF LimiterInv
<1>2. windows[k].count = Limit[k] /\ Limit[k] <= Len(log[k]) /\ now < windows[k].start + Window
  <2>1. ~(now - windows[k].start >= Window) /\ windows[k].count >= Limit[k]
    BY DEF Over, Full
  <2>2. windows[k].count <= Len(log[k]) /\ windows[k].count <= Limit[k]
    BY DEF LimiterInv, Bounded
  <2> QED
    BY <1>1, <2>1, <2>2
<1>3. i \in 1 .. Len(log[k]) /\ i > Len(log[k]) - windows[k].count
  BY <1>1, <1>2
<1>4. windows[k].start = log[k][i].start /\ log[k][i].start <= log[k][i].at
  BY <1>3 DEF LimiterInv, Sorted, Dated
<1> QED
  BY <1>1, <1>2, <1>3, <1>4

LEMMA LimiterSpecInv == LimiterSpec => []LimiterInv
BY LimiterInitInv, LimiterNextInv, PTL DEF LimiterSpec

\* MemoryLimiter: at most twice the limit in any window's length, however the
\* requests fall on the windows, for any limit, window and number of keys.
THEOREM RateIsBounded == LimiterSpec => []RateBound
BY LimiterSpecInv, LimiterRate, PTL

\* MemoryLimiter: a refusal means the limit was used up within the last window.
THEOREM RefusalsEarned == LimiterSpec => []RefusalsAreEarned
BY LimiterSpecInv, LimiterRefusals, PTL
=============================================================================
