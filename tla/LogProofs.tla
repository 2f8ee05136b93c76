------------------------------ MODULE LogProofs ------------------------------
(***************************************************************************)
(* Proofs about Log: what a line of the log or an answer may say of the    *)
(* time although every thread prints through one struct tm, and which      *)
(* sinks an event reaches.                                                 *)
(***************************************************************************)
EXTENDS Log, TLAPS

-----------------------------------------------------------------------------
(* The invariant *)

Labels == {"idle", "lock", "sink", "time", "hour", "tick", "print"}

TypeOK ==
    /\ L \in [level : Nat, quiet : BOOLEAN, lock : BOOLEAN, callbacks : Seq(Levels)]
    /\ refused \in Nat
    /\ now \in Nat
    /\ tm \in [hour : Nat, tick : Nat]
    /\ pc \in [Threads -> Labels]
    /\ level \in [Threads -> Levels \cup {NULL}]
    /\ sink \in [Threads -> Nat]
    /\ printed \in [Threads -> SUBSET Nat]
    /\ time \in [Threads -> Nat \cup {NULL}]
    /\ holder \in Threads \cup {NULL}
    /\ mixers \in [Threads -> SUBSET {"log", "iso"}]
    /\ oldest \in [Threads -> Nat]

\* The thread has an event, and has read the clock for it.
Logging(t) == level[t] # NULL
Timed(t) == time[t] # NULL

Place(t) ==
    /\ pc[t] = "idle" => ~Logging(t)
    /\ pc[t] \in {"lock", "sink"} => Logging(t)
    /\ pc[t] \in {"idle", "lock", "time"} => ~Timed(t)
    /\ pc[t] \in {"hour", "tick", "print"} => Timed(t)

\* The part of an event's way through the sinks that lies behind it.
Takes(t, k) == IF k = 0 THEN ~L.quiet /\ level[t] >= L.level ELSE level[t] >= L.callbacks[k]

Delivered(t) ==
    IF pc[t] = "lock" \/ ~Logging(t) THEN sink[t] = 0 /\ printed[t] = {}
    ELSE /\ printed[t] = {k \in 0..(sink[t] - 1) : Takes(t, k)}
         /\ sink[t] <= Len(L.callbacks) + 1
         /\ pc[t] # "sink" => sink[t] <= Len(L.callbacks) /\ Takes(t, sink[t])

Sinks == \A t \in Threads : Delivered(t)

\* Of the struct tm the hour, and the tick, is known to the thread.
HasHour(t) == pc[t] = "tick" \/ (pc[t] \in {"print", "sink"} /\ Timed(t))
HasTick(t) == pc[t] \in {"print", "sink"} /\ Timed(t)

\* Each field is that of a time between the oldest the thread may print and now.
Fields(t) ==
    /\ Timed(t) => oldest[t] <= time[t] /\ time[t] <= now
    /\ HasHour(t) => \E x \in oldest[t]..now : tm.hour = Broken(x).hour
    /\ HasTick(t) => \E x \in oldest[t]..now : tm.tick = Broken(x).tick

\* Without another writer both are those of the thread's own time.
Own(t) ==
    mixers[t] = {} =>
        /\ HasHour(t) => tm.hour = Broken(time[t]).hour
        /\ HasTick(t) => tm.tick = Broken(time[t]).tick

\* The lock keeps loggers out of the struct, and of each other's history.
Locked(t) ==
    L.lock /\ Logging(t) =>
        /\ pc[t] # "lock" => holder = t
        /\ Timed(t) => "log" \notin mixers[t]

Stamp(t) == Place(t) /\ Fields(t) /\ Own(t) /\ Locked(t)

Stamps == \A t \in Threads : Stamp(t)

LogInv == TypeOK /\ Stamps /\ Sinks

\* Hours and ticks are numbers, and together they make up the time.
LEMMA BrokenType ==
  ASSUME NEW x \in Nat
  PROVE  /\ Broken(x) \in [hour : Nat, tick : Nat]
         /\ Broken(x).hour * Hour + Broken(x).tick = x
         /\ Broken(x).tick < Hour
<1>1. Hour \in Nat \ {0}
  BY LogAssumption
<1>2. x \div Hour \in Nat /\ x % Hour \in Nat /\ x % Hour < Hour
  BY <1>1
<1>3. Hour * (x \div Hour) + (x % Hour) = x
  BY <1>1
<1>4. (x \div Hour) * Hour + (x % Hour) = x
  BY <1>1, <1>2, <1>3
<1> QED
  BY <1>2, <1>4 DEF Broken

\* Within one hour the hour of a time and the tick of another make up the latter.
LEMMA SameHour ==
  ASSUME NEW o \in Nat, NEW x \in Nat, NEW n \in Nat, o <= x, x <= n,
         Broken(o).hour = Broken(n).hour
  PROVE  Broken(x).hour = Broken(n).hour
<1>1. Hour \in Nat \ {0}
  BY LogAssumption
<1>2. ASSUME NEW p \in Nat, NEW q \in Nat, p < q
      PROVE  p * Hour + Hour <= q * Hour
  <2>1. PICK d \in Nat : q = p + 1 + d
    <3>1. q - p - 1 \in Nat /\ q = p + 1 + (q - p - 1)
      BY <1>2
    <3> QED
      BY <3>1
  <2>2. q * Hour = p * Hour + Hour + d * Hour /\ d * Hour >= 0 /\ p * Hour \in Nat
    BY <1>1, <2>1
  <2> QED
    BY <1>1, <2>2
<1> DEFINE h(y) == Broken(y).hour
<1> DEFINE k(y) == Broken(y).tick
<1>3. ASSUME NEW y \in Nat
      PROVE  /\ h(y) \in Nat /\ h(y) * Hour \in Nat
             /\ k(y) \in Nat /\ k(y) < Hour /\ h(y) * Hour + k(y) = y
  <2>1. h(y) \in Nat /\ k(y) \in Nat /\ k(y) < Hour /\ h(y) * Hour + k(y) = y
    BY BrokenType
  <2> HIDE DEF h, k
  <2> QED
    BY <1>1, <2>1
<1> HIDE DEF h, k
<1>4. ASSUME NEW y \in Nat, NEW z \in Nat, y <= z
      PROVE  h(y) <= h(z)
  <2>1. SUFFICES ASSUME h(z) < h(y) PROVE FALSE
    BY <1>3
  <2>2. h(z) * Hour + Hour <= h(y) * Hour
    BY <1>2, <1>3, <2>1
  <2> DEFINE hy == h(y) * Hour
             hz == h(z) * Hour
  <2>3. /\ hy \in Nat /\ hz \in Nat /\ k(y) \in Nat /\ k(z) \in Nat /\ k(z) < Hour
        /\ hy + k(y) = y /\ hz + k(z) = z /\ hz + Hour <= hy
    BY <1>3, <2>2
  <2> HIDE DEF hy, hz
  <2> QED
    BY <1>1, <1>4, <2>3
<1>5. h(o) <= h(x) /\ h(x) <= h(n) /\ h(o) = h(n)
  BY <1>4 DEF h
<1> QED
  BY <1>3, <1>5 DEF h

-----------------------------------------------------------------------------
(* Types *)

\* Types, before the first call.
LEMMA InitType == Init => TypeOK
<1> SUFFICES ASSUME Init PROVE TypeOK
  OBVIOUS
<1>1. tm \in [hour : Nat, tick : Nat]
  BY BrokenType DEF Init
<1> QED
  BY <1>1 DEF Init, TypeOK, Labels

\* One value of a function of threads set, or none.
LEMMA Update ==
  ASSUME NEW S, NEW f \in [Threads -> S], NEW t \in Threads, NEW x \in S,
         NEW g \in {f, [f EXCEPT ![t] = x]}
  PROVE  g \in [Threads -> S]
  OBVIOUS

\* What a thread writes to the histories of the others.
LEMMA MixType ==
  ASSUME TypeOK, NEW t \in Threads, Mix(t)
  PROVE  mixers' \in [Threads -> SUBSET {"log", "iso"}] /\ oldest' \in [Threads -> Nat]
  BY DEF Mix, Kind, TypeOK

\* A thread that fills the struct has read the clock.
LEMMA FillsItsTime ==
  ASSUME TypeOK, Stamps, NEW t \in Threads, pc[t] \in {"hour", "tick"}
  PROVE  /\ time[t] \in Nat
         /\ Broken(time[t]).hour \in Nat
         /\ Broken(time[t]).tick \in Nat
<1>1. time[t] \in Nat
  BY DEF TypeOK, Stamps, Stamp, Place, Timed
<1> QED
  BY <1>1, BrokenType

\* Every step preserves them.
LEMMA NextType ==
  ASSUME TypeOK, Stamps, [Next]_vars
  PROVE  TypeOK'
<1> USE DEF GoTo, config, threads
<1>1. ASSUME NEW new \in [level : Nat, quiet : BOOLEAN, lock : BOOLEAN,
                          callbacks : Seq(Levels)],
             Configure(new)
      PROVE  TypeOK'
  BY <1>1 DEF Configure, TypeOK
<1>2. ASSUME NEW l \in Levels, log_set_level(l)
      PROVE  TypeOK'
  BY <1>1, <1>2, LogAssumption DEF log_set_level, TypeOK
<1>3. ASSUME NEW enable \in BOOLEAN, log_set_quiet(enable)
      PROVE  TypeOK'
  BY <1>1, <1>3 DEF log_set_quiet, TypeOK
<1>4. CASE log_set_lock
  BY <1>1, <1>4 DEF log_set_lock, TypeOK
<1>5. ASSUME NEW l \in Levels, log_add_callback(l)
      PROVE  TypeOK'
  <2>1. L' \in [level : Nat, quiet : BOOLEAN, lock : BOOLEAN, callbacks : Seq(Levels)]
    <3>1. L.callbacks \in Seq(Levels)
      BY DEF TypeOK
    <3>2. Append(L.callbacks, l) \in Seq(Levels)
      BY <3>1
    <3> QED
      BY <1>5, <3>2 DEF log_add_callback, TypeOK
  <2>2. refused' \in Nat
    BY <1>5 DEF log_add_callback, TypeOK
  <2> QED
    BY <1>5, <2>1, <2>2 DEF log_add_callback, TypeOK
<1>6. ASSUME NEW t \in Threads, NEW l \in Levels, BeginLog(t, l)
      PROVE  TypeOK'
  BY <1>6 DEF BeginLog, TypeOK, Labels
<1>7. ASSUME NEW t \in Threads, Lock(t)
      PROVE  TypeOK'
  BY <1>7 DEF Lock, TypeOK, Labels
<1>8. ASSUME NEW t \in Threads, SkipSink(t)
      PROVE  TypeOK'
  BY <1>8 DEF SkipSink, TypeOK
<1>9. ASSUME NEW t \in Threads, TakeSink(t)
      PROVE  TypeOK'
  BY <1>9 DEF TakeSink, TypeOK, Labels
<1>10. ASSUME NEW t \in Threads, Unlock(t)
       PROVE  TypeOK'
  BY <1>10 DEF Unlock, TypeOK, Labels
<1>11. ASSUME NEW t \in Threads, BeginIso(t)
       PROVE  TypeOK'
  BY <1>11 DEF BeginIso, TypeOK, Labels
<1>12. ASSUME NEW t \in Threads, Time(t)
       PROVE  TypeOK'
  BY <1>12 DEF Time, TypeOK, Labels
<1>13. ASSUME NEW t \in Threads, FillHour(t)
       PROVE  TypeOK'
  <2>1. tm' \in [hour : Nat, tick : Nat]
    BY <1>13, FillsItsTime DEF FillHour, TypeOK
  <2> QED
    BY <1>13, <2>1, MixType DEF FillHour, TypeOK, Labels
<1>14. ASSUME NEW t \in Threads, FillTick(t)
       PROVE  TypeOK'
  <2>1. tm' \in [hour : Nat, tick : Nat]
    BY <1>14, FillsItsTime DEF FillTick, TypeOK
  <2> QED
    BY <1>14, <2>1, MixType DEF FillTick, TypeOK, Labels
<1>15. ASSUME NEW t \in Threads, Output(t)
       PROVE  TypeOK'
  <2>1. /\ pc' \in {[pc EXCEPT ![t] = "idle"], [pc EXCEPT ![t] = "sink"]}
        /\ time' \in {time, [time EXCEPT ![t] = NULL]}
        /\ oldest' \in {oldest, [oldest EXCEPT ![t] = 0]}
        /\ mixers' \in {mixers, [mixers EXCEPT ![t] = {}]}
        /\ sink' \in {sink, [sink EXCEPT ![t] = sink[t] + 1]}
        /\ printed' \in {printed, [printed EXCEPT ![t] = printed[t] \cup {sink[t]}]}
    BY <1>15 DEF Output
  <2>2. /\ pc' \in [Threads -> Labels]
        /\ time' \in [Threads -> Nat \cup {NULL}]
    BY <2>1 DEF TypeOK, Labels
  <2>3. oldest' \in [Threads -> Nat]
    <3>1. 0 \in Nat /\ oldest \in [Threads -> Nat]
      BY DEF TypeOK
    <3> QED
      BY <2>1, <3>1, Update
  <2>4. mixers' \in [Threads -> SUBSET {"log", "iso"}]
    BY <2>1 DEF TypeOK
  <2>5. sink' \in [Threads -> Nat]
    <3>1. sink[t] + 1 \in Nat
      BY DEF TypeOK
    <3> QED
      BY <2>1, <3>1, Update DEF TypeOK
  <2>6. printed' \in [Threads -> SUBSET Nat]
    <3>1. printed[t] \cup {sink[t]} \in SUBSET Nat
      BY DEF TypeOK
    <3> QED
      BY <2>1, <3>1 DEF TypeOK
  <2> QED
    BY <1>15, <2>2, <2>3, <2>4, <2>5, <2>6 DEF Output, TypeOK
<1>16. CASE Tick \/ UNCHANGED vars
  BY <1>16 DEF Tick, vars, TypeOK
<1> QED
  BY <1>2, <1>3, <1>4, <1>5, <1>6, <1>7, <1>8, <1>9, <1>10, <1>11, <1>12, <1>13, <1>14,
     <1>15, <1>16 DEF Next

-----------------------------------------------------------------------------
(* Times *)

\* A thread between two calls prints nothing.
LEMMA IdleStamp ==
  ASSUME NEW u \in Threads, pc'[u] = "idle", level'[u] = NULL, time'[u] = NULL
  PROVE  Stamp(u)'
  BY DEF Stamp, Place, Fields, Own, Locked, HasHour, HasTick, Timed, Logging

\* What a thread may print and knows of the struct.
mine(u) == <<pc[u], level[u], time[u], mixers[u], oldest[u]>>

\* A step of others that leaves the struct alone changes nothing for the thread.
LEMMA FrameStamp ==
  ASSUME TypeOK, Stamps, now' \in Nat, now <= now', L' = L, tm' = tm,
         NEW u \in Threads, UNCHANGED mine(u),
         L.lock /\ Logging(u) /\ pc[u] # "lock" => holder' = u
  PROVE  Stamp(u)'
<1>1. Stamp(u)
  BY DEF Stamps
<1>2. /\ pc'[u] = pc[u] /\ level'[u] = level[u] /\ time'[u] = time[u]
      /\ mixers'[u] = mixers[u] /\ oldest'[u] = oldest[u]
  BY DEF mine
<1>3. /\ Timed(u)' = Timed(u) /\ Logging(u)' = Logging(u)
      /\ HasHour(u)' = HasHour(u) /\ HasTick(u)' = HasTick(u)
  BY <1>2 DEF Timed, Logging, HasHour, HasTick
<1>4. Place(u)'
  BY <1>1, <1>2, <1>3 DEF Stamp, Place
<1>5. Fields(u)'
  <2>1. time[u] \in Nat \cup {NULL} /\ oldest[u] \in Nat /\ now \in Nat
    BY DEF TypeOK
  <2>2. Timed(u) => oldest[u] <= time[u] /\ time[u] <= now'
    BY <1>1, <2>1 DEF Stamp, Fields, Timed
  <2>3. \A x \in oldest[u]..now : x \in oldest[u]..now'
    BY <2>1
  <2>4. /\ HasHour(u) => \E x \in oldest[u]..now' : tm.hour = Broken(x).hour
        /\ HasTick(u) => \E x \in oldest[u]..now' : tm.tick = Broken(x).tick
    BY <1>1, <2>3 DEF Stamp, Fields
  <2> QED
    BY <1>2, <1>3, <2>2, <2>4 DEF Fields, Broken
<1>6. Own(u)'
  BY <1>1, <1>2, <1>3 DEF Stamp, Own, Broken
<1>7. Locked(u)'
  BY <1>1, <1>2, <1>3 DEF Stamp, Locked
<1> QED
  BY <1>4, <1>5, <1>6, <1>7 DEF Stamp

\* Only one thread has the lock.
LEMMA LoggersExcluded ==
  ASSUME TypeOK, Stamps, L.lock, NEW t \in Threads, NEW u \in Threads \ {t},
         Logging(t), pc[t] # "lock", Logging(u)
  PROVE  pc[u] = "lock"
  BY DEF Stamps, Stamp, Locked

\* A thread that has read the clock and sees t fill the struct knows that a field may
\* be that of t's time, and how old that may be.
LEMMA MixStamp ==
  ASSUME TypeOK, Stamps, now' = now, L' = L, holder' = holder,
         NEW t \in Threads, pc[t] \in {"hour", "tick"}, Mix(t),
         NEW u \in Threads \ {t},
         pc'[u] = pc[u], level'[u] = level[u], time'[u] = time[u],
         tm' \in {[tm EXCEPT !.hour = Broken(time[t]).hour],
                 [tm EXCEPT !.tick = Broken(time[t]).tick]}
  PROVE  Stamp(u)'
<1>1. Stamp(u) /\ Stamp(t) /\ u \in Threads
  BY DEF Stamps
<1>2. /\ Timed(u)' = Timed(u) /\ Logging(u)' = Logging(u)
      /\ HasHour(u)' = HasHour(u) /\ HasTick(u)' = HasTick(u)
  BY DEF Timed, Logging, HasHour, HasTick
<1>3. Place(u)'
  BY <1>1, <1>2 DEF Stamp, Place
<1>4. CASE ~Timed(u)
  <2>1. ~HasHour(u) /\ ~HasTick(u)
    BY <1>1, <1>4 DEF Stamp, Place, HasHour, HasTick
  <2> QED
    BY <1>1, <1>2, <1>3, <1>4, <2>1 DEF Stamp, Fields, Own, Locked
<1>5. CASE Timed(u)
  <2>1. /\ oldest[t] \in Nat /\ oldest[u] \in Nat /\ oldest'[u] \in Nat
        /\ time[t] \in Nat /\ time[u] \in Nat /\ now \in Nat
    BY <1>1, <1>5, MixType, FillsItsTime DEF TypeOK, Timed
  <2>2. /\ mixers'[u] = mixers[u] \cup {Kind(t)}
        /\ oldest'[u] = IF oldest[t] < oldest[u] THEN oldest[t] ELSE oldest[u]
    BY <1>1, <1>5 DEF Mix, Timed
  <2>3. oldest'[u] <= oldest[u] /\ oldest'[u] <= oldest[t]
    BY <2>1, <2>2
  <2>4. /\ oldest[u] <= time[u] /\ time[u] <= now
        /\ oldest[t] <= time[t] /\ time[t] <= now
    BY <1>1, <1>5 DEF Stamp, Fields, Place, Timed
  <2>5. oldest'[u] <= time[u] /\ time[t] \in oldest'[u]..now
    BY <2>1, <2>3, <2>4
  <2>6. \A x \in oldest[u]..now : x \in oldest'[u]..now
    BY <2>1, <2>3
  <2>7. /\ tm'.hour = tm.hour \/ tm'.hour = Broken(time[t]).hour
        /\ tm'.tick = tm.tick \/ tm'.tick = Broken(time[t]).tick
    BY DEF TypeOK
  <2>8. /\ HasHour(u) => \E x \in oldest'[u]..now : tm'.hour = Broken(x).hour
        /\ HasTick(u) => \E x \in oldest'[u]..now : tm'.tick = Broken(x).tick
    BY <1>1, <2>5, <2>6, <2>7 DEF Stamp, Fields
  <2>9. Fields(u)'
    BY <1>2, <1>5, <2>4, <2>5, <2>8 DEF Fields, Broken
  <2>10. Own(u)'
    BY <2>2 DEF Own
  <2>11. Locked(u)'
    <3>1. SUFFICES ASSUME L.lock, Logging(u)
                   PROVE  /\ pc[u] # "lock" => holder = u
                          /\ "log" \notin mixers'[u]
      BY <1>2 DEF Locked
    <3>2. Kind(t) # "log"
      BY <1>1, <1>5, <3>1, LoggersExcluded DEF Kind, Logging, Stamp, Place
    <3> QED
      BY <1>1, <1>5, <2>2, <3>1, <3>2 DEF Stamp, Locked
  <2> QED
    BY <1>3, <2>9, <2>10, <2>11 DEF Stamp
<1> QED
  BY <1>4, <1>5

\* Nobody prints yet.
LEMMA InitStamps ==
  ASSUME Init PROVE Stamps
  BY DEF Init, Stamps, Stamp, Place, Fields, Own, Locked, HasHour, HasTick, Timed, Logging

\* Every step preserves what each thread knows of the struct: one case per action,
\* and in it the thread that takes the step and another one.
LEMMA NextStamps ==
  ASSUME TypeOK, TypeOK', Stamps, [Next]_vars
  PROVE  Stamps'
<1> USE DEF GoTo, config, threads
<1> SUFFICES ASSUME NEW u \in Threads PROVE Stamp(u)'
  BY DEF Stamps
<1>1. now \in Nat /\ now' \in Nat
  BY DEF TypeOK
<1>2. Stamp(u)
  BY DEF Stamps
<1>3. CASE Configuring /\ UNCHANGED threads
  <2>1. pc'[u] = "idle" /\ level'[u] = NULL /\ time'[u] = NULL
    BY <1>2, <1>3 DEF Configuring, Stamp, Place, Timed, Logging
  <2> QED
    BY <2>1, IdleStamp
<1>4. ASSUME NEW t \in Threads, NEW l \in Levels, BeginLog(t, l)
      PROVE  Stamp(u)'
  <2>1. CASE u = t
    <3>1. pc'[u] = "lock" /\ time'[u] = NULL /\ level'[u] # NULL
      BY <1>2, <1>4, <2>1, LogAssumption DEF BeginLog, TypeOK, Stamp, Place, Timed
    <3> QED
      BY <3>1 DEF Stamp, Place, Fields, Own, Locked, HasHour, HasTick, Timed, Logging
  <2>2. CASE u # t
    <3>1. UNCHANGED mine(u) /\ holder' = holder
      BY <1>4, <2>2 DEF BeginLog, TypeOK, mine
    <3> QED
      BY <1>1, <1>2, <1>4, <3>1, FrameStamp DEF BeginLog, Stamp, Locked
  <2> QED
    BY <2>1, <2>2
<1>5. ASSUME NEW t \in Threads, Lock(t)
      PROVE  Stamp(u)'
  <2>1. CASE u = t
    <3>1. /\ pc'[u] = "sink" /\ time'[u] = NULL /\ level'[u] # NULL
          /\ L' = L /\ (L.lock => holder' = u)
      BY <1>2, <1>5, <2>1 DEF Lock, TypeOK, Stamp, Place, Timed, Logging
    <3> QED
      BY <3>1 DEF Stamp, Place, Fields, Own, Locked, HasHour, HasTick, Timed, Logging
  <2>2. CASE u # t
    <3>1. UNCHANGED mine(u)
      BY <1>5, <2>2 DEF Lock, TypeOK, mine
    <3>2. L.lock /\ Logging(u) /\ pc[u] # "lock" => holder' = u
      BY <1>2, <1>5, LogAssumption DEF Lock, Stamp, Locked
    <3> QED
      BY <1>1, <1>5, <3>1, <3>2, FrameStamp DEF Lock
  <2> QED
    BY <2>1, <2>2
<1>6. ASSUME NEW t \in Threads, SkipSink(t)
      PROVE  Stamp(u)'
  <2>1. UNCHANGED mine(u)
    BY <1>6 DEF SkipSink, mine
  <2> QED
    BY <1>1, <1>2, <1>6, <2>1, FrameStamp DEF SkipSink, Stamp, Locked
<1>7. ASSUME NEW t \in Threads, TakeSink(t)
      PROVE  Stamp(u)'
  <2>1. CASE u = t
    <3>1. /\ pc[u] = "sink" /\ pc'[u] = IF Timed(u) THEN "print" ELSE "time"
          /\ L' = L /\ holder' = holder /\ tm' = tm /\ now' = now
          /\ level' = level /\ time' = time /\ mixers' = mixers /\ oldest' = oldest
      BY <1>7, <2>1 DEF TakeSink, TypeOK, Timed
    <3>2. Timed(u)' = Timed(u) /\ Logging(u)' = Logging(u)
      BY <3>1 DEF Timed, Logging
    <3>3. Place(u)'
      BY <1>2, <3>1, <3>2 DEF Stamp, Place
    <3>4. HasHour(u)' = HasHour(u) /\ HasTick(u)' = HasTick(u)
      BY <3>1, <3>2 DEF HasHour, HasTick
    <3>5. Fields(u)' /\ Own(u)'
      BY <1>2, <3>1, <3>2, <3>4 DEF Stamp, Fields, Own, Broken
    <3>6. Locked(u)'
      BY <1>2, <3>1, <3>2 DEF Stamp, Locked
    <3> QED
      BY <3>3, <3>5, <3>6 DEF Stamp
  <2>2. CASE u # t
    <3>1. UNCHANGED mine(u) /\ holder' = holder
      BY <1>7, <2>2 DEF TakeSink, TypeOK, mine
    <3> QED
      BY <1>1, <1>2, <1>7, <3>1, FrameStamp DEF TakeSink, Stamp, Locked
  <2> QED
    BY <2>1, <2>2
<1>8. ASSUME NEW t \in Threads, Unlock(t)
      PROVE  Stamp(u)'
  <2>1. CASE u = t
    BY <1>8, <2>1, IdleStamp DEF Unlock, TypeOK
  <2>2. CASE u # t
    <3>1. UNCHANGED mine(u)
      BY <1>8, <2>2 DEF Unlock, TypeOK, mine
    <3>2. ~(L.lock /\ Logging(u) /\ pc[u] # "lock")
      <4>1. Logging(t) /\ pc[t] = "sink"
        BY <1>8 DEF Unlock, Stamps, Stamp, Place
      <4> QED
        BY <2>2, <4>1, LoggersExcluded
    <3> QED
      BY <1>1, <1>8, <3>1, <3>2, FrameStamp DEF Unlock
  <2> QED
    BY <2>1, <2>2
<1>9. ASSUME NEW t \in Threads, BeginIso(t)
      PROVE  Stamp(u)'
  <2>1. CASE u = t
    <3>1. pc'[u] = "time" /\ time'[u] = NULL /\ level'[u] = NULL
      BY <1>2, <1>9, <2>1 DEF BeginIso, TypeOK, Stamp, Place, Timed, Logging
    <3> QED
      BY <3>1 DEF Stamp, Place, Fields, Own, Locked, HasHour, HasTick, Timed, Logging
  <2>2. CASE u # t
    <3>1. UNCHANGED mine(u) /\ holder' = holder
      BY <1>9, <2>2 DEF BeginIso, TypeOK, mine
    <3> QED
      BY <1>1, <1>2, <1>9, <3>1, FrameStamp DEF BeginIso, Stamp, Locked
  <2> QED
    BY <2>1, <2>2
<1>10. ASSUME NEW t \in Threads, Time(t)
       PROVE  Stamp(u)'
  <2>1. CASE u = t
    <3>1. /\ pc[u] = "time" /\ pc'[u] = "hour" /\ time'[u] = now /\ oldest'[u] = now
          /\ mixers'[u] = {} /\ level' = level /\ now' = now /\ L' = L /\ holder' = holder
      BY <1>10, <2>1 DEF Time, TypeOK
    <3>2. Logging(u)' = Logging(u) /\ now # NULL
      BY <1>1, <3>1, LogAssumption DEF Logging
    <3>3. Place(u)'
      BY <3>1, <3>2 DEF Place, Timed
    <3>4. Fields(u)' /\ Own(u)'
      BY <1>1, <3>1 DEF Fields, Own, HasHour, HasTick
    <3>5. Locked(u)'
      BY <1>2, <3>1, <3>2 DEF Stamp, Locked
    <3> QED
      BY <3>3, <3>4, <3>5 DEF Stamp
  <2>2. CASE u # t
    <3>1. UNCHANGED mine(u) /\ holder' = holder
      BY <1>10, <2>2 DEF Time, TypeOK, mine
    <3> QED
      BY <1>1, <1>2, <1>10, <3>1, FrameStamp DEF Time, Stamp, Locked
  <2> QED
    BY <2>1, <2>2
<1>11. ASSUME NEW t \in Threads, FillHour(t)
       PROVE  Stamp(u)'
  <2>1. CASE u = t
    <3>1. /\ pc[u] = "hour" /\ pc'[u] = "tick" /\ time'[u] = time[u]
          /\ oldest'[u] = oldest[u] /\ mixers'[u] = mixers[u] /\ level' = level
          /\ now' = now /\ L' = L /\ holder' = holder /\ tm'.hour = Broken(time[u]).hour
      BY <1>11, <2>1 DEF FillHour, Mix, TypeOK
    <3>2. Timed(u)' = Timed(u) /\ Logging(u)' = Logging(u) /\ Timed(u)
      BY <1>2, <3>1 DEF Timed, Logging, Stamp, Place
    <3>3. Place(u)'
      BY <1>2, <3>1, <3>2 DEF Stamp, Place
    <3>4. time[u] \in oldest[u]..now /\ oldest[u] <= time[u] /\ time[u] <= now
      <4>1. time[u] \in Nat /\ oldest[u] \in Nat
        BY <3>1, FillsItsTime DEF TypeOK
      <4>2. oldest[u] <= time[u] /\ time[u] <= now
        BY <1>2, <3>2 DEF Stamp, Fields
      <4> QED
        BY <1>1, <4>1, <4>2
    <3>5. Fields(u)' /\ Own(u)'
      BY <3>1, <3>2, <3>4 DEF Fields, Own, HasHour, HasTick, Broken
    <3>6. Locked(u)'
      BY <1>2, <3>1, <3>2 DEF Stamp, Locked
    <3> QED
      BY <3>3, <3>5, <3>6 DEF Stamp
  <2>2. CASE u # t
    BY <1>11, <2>2, MixStamp DEF FillHour, TypeOK
  <2> QED
    BY <2>1, <2>2
<1>12. ASSUME NEW t \in Threads, FillTick(t)
       PROVE  Stamp(u)'
  <2>1. CASE u = t
    <3>1. /\ pc[u] = "tick" /\ pc'[u] = "print" /\ time'[u] = time[u]
          /\ oldest'[u] = oldest[u] /\ mixers'[u] = mixers[u] /\ level' = level
          /\ now' = now /\ L' = L /\ holder' = holder /\ tm'.tick = Broken(time[u]).tick
          /\ tm'.hour = tm.hour
      BY <1>12, <2>1 DEF FillTick, Mix, TypeOK
    <3>2. Timed(u)' = Timed(u) /\ Logging(u)' = Logging(u) /\ Timed(u) /\ HasHour(u)
      BY <1>2, <3>1 DEF Timed, Logging, Stamp, Place, HasHour
    <3>3. Place(u)'
      BY <1>2, <3>1, <3>2 DEF Stamp, Place
    <3>4. time[u] \in oldest[u]..now /\ oldest[u] <= time[u] /\ time[u] <= now
      <4>1. time[u] \in Nat /\ oldest[u] \in Nat
        BY <3>1, FillsItsTime DEF TypeOK
      <4>2. oldest[u] <= time[u] /\ time[u] <= now
        BY <1>2, <3>2 DEF Stamp, Fields
      <4> QED
        BY <1>1, <4>1, <4>2
    <3>5. Fields(u)'
      BY <1>2, <3>1, <3>2, <3>4 DEF Stamp, Fields, Broken
    <3>6. Own(u)'
      BY <1>2, <3>1, <3>2 DEF Stamp, Own, Broken
    <3>7. Locked(u)'
      BY <1>2, <3>1, <3>2 DEF Stamp, Locked
    <3> QED
      BY <3>3, <3>5, <3>6, <3>7 DEF Stamp
  <2>2. CASE u # t
    BY <1>12, <2>2, MixStamp DEF FillTick, TypeOK
  <2> QED
    BY <2>1, <2>2
<1>13. ASSUME NEW t \in Threads, Output(t)
       PROVE  Stamp(u)'
  <2>1. CASE u = t /\ level[t] = NULL
    BY <1>13, <2>1, IdleStamp DEF Output, TypeOK
  <2>2. CASE u = t /\ level[t] # NULL
    <3>1. /\ pc[u] = "print" /\ pc'[u] = "sink" /\ time' = time /\ oldest' = oldest
          /\ mixers' = mixers /\ level' = level /\ now' = now /\ L' = L
          /\ holder' = holder /\ tm' = tm
      BY <1>13, <2>2 DEF Output, TypeOK
    <3>2. Timed(u)' = Timed(u) /\ Logging(u)' = Logging(u) /\ Logging(u)
      BY <2>2, <3>1 DEF Timed, Logging
    <3>3. Place(u)'
      BY <1>2, <3>1, <3>2 DEF Stamp, Place
    <3>4. HasHour(u)' = HasHour(u) /\ HasTick(u)' = HasTick(u)
      BY <3>1, <3>2 DEF HasHour, HasTick
    <3>5. Fields(u)' /\ Own(u)'
      BY <1>2, <3>1, <3>2, <3>4 DEF Stamp, Fields, Own, Broken
    <3>6. Locked(u)'
      BY <1>2, <3>1, <3>2 DEF Stamp, Locked
    <3> QED
      BY <3>3, <3>5, <3>6 DEF Stamp
  <2>3. CASE u # t
    <3>1. UNCHANGED mine(u) /\ holder' = holder
      BY <1>13, <2>3 DEF Output, TypeOK, mine
    <3> QED
      BY <1>1, <1>2, <1>13, <3>1, FrameStamp DEF Output, Stamp, Locked
  <2> QED
    BY <2>1, <2>2, <2>3
<1>14. CASE Tick \/ UNCHANGED vars
  <2>1. /\ UNCHANGED mine(u) /\ holder' = holder /\ L' = L /\ tm' = tm /\ now <= now'
    BY <1>1, <1>14 DEF Tick, vars, mine
  <2> QED
    BY <1>1, <1>2, <2>1, FrameStamp DEF Stamp, Locked
<1>15. ASSUME NEW l \in Levels, log_set_level(l) \/ log_add_callback(l)
       PROVE  Configuring /\ UNCHANGED threads
  BY <1>15 DEF log_set_level, log_add_callback, Configure
<1>16. ASSUME NEW enable \in BOOLEAN, log_set_quiet(enable) \/ log_set_lock
       PROVE  Configuring /\ UNCHANGED threads
  BY <1>16 DEF log_set_quiet, log_set_lock, Configure
<1> QED
  BY <1>3, <1>4, <1>5, <1>6, <1>7, <1>8, <1>9, <1>10, <1>11, <1>12, <1>13, <1>14, <1>15,
     <1>16 DEF Next

-----------------------------------------------------------------------------
(* Sinks *)

\* A step of another thread, or the clock's, leaves the thread's event where it is.
LEMMA FrameDelivered ==
  ASSUME NEW u \in Threads, Delivered(u), L' = L, level'[u] = level[u],
         sink'[u] = sink[u], printed'[u] = printed[u],
         \/ pc'[u] = pc[u]
         \/ pc[u] \notin {"lock", "sink"} /\ pc'[u] # "lock"
  PROVE  Delivered(u)'
<1>1. \A k \in Nat : Takes(u, k)' = Takes(u, k)
  BY DEF Takes
<1> QED
  BY DEF Delivered, Logging, Takes

\* One sink more lies behind the event.
LEMMA PassSink ==
  ASSUME TypeOK, NEW u \in Threads, Delivered(u), Logging(u), pc[u] # "lock", L' = L,
         level'[u] = level[u], pc'[u] = "sink", sink[u] <= Len(L.callbacks),
         sink'[u] = sink[u] + 1,
         printed'[u] = IF Takes(u, sink[u]) THEN printed[u] \cup {sink[u]} ELSE printed[u]
  PROVE  Delivered(u)'
<1>1. \A k : Takes(u, k)' = Takes(u, k)
  BY DEF Takes
<1>2. sink[u] \in Nat /\ Len(L.callbacks) \in Nat
  BY DEF TypeOK
<1>3. printed[u] = {k \in 0..(sink[u] - 1) : Takes(u, k)}
  BY DEF Delivered
<1>4. printed'[u] = {k \in 0..(sink[u] + 1 - 1) : Takes(u, k)}
  BY <1>2, <1>3
<1> QED
  BY <1>1, <1>2, <1>4 DEF Delivered, Logging

\* No event is under way.
LEMMA InitSinks ==
  ASSUME Init PROVE Sinks
  BY DEF Init, Sinks, Delivered, Logging

\* Every step leaves each event at the sinks that it has passed and that take it.
LEMMA NextSinks ==
  ASSUME TypeOK, Stamps, Sinks, [Next]_vars
  PROVE  Sinks'
<1> USE DEF GoTo, config, threads
<1> SUFFICES ASSUME NEW u \in Threads PROVE Delivered(u)'
  BY DEF Sinks
<1>1. Delivered(u) /\ Place(u)
  BY DEF Sinks, Stamps, Stamp
<1>2. CASE Configuring /\ UNCHANGED threads
  <2>1. level[u] = NULL /\ sink[u] = 0 /\ printed[u] = {}
    BY <1>1, <1>2 DEF Configuring, Place, Delivered, Logging
  <2> QED
    BY <1>2, <2>1 DEF Delivered, Logging
<1>3. ASSUME NEW t \in Threads, NEW l \in Levels, BeginLog(t, l)
      PROVE  Delivered(u)'
  <2>1. CASE u = t
    BY <1>1, <1>3, <2>1 DEF BeginLog, TypeOK, Place, Delivered, Logging
  <2>2. CASE u # t
    BY <1>1, <1>3, <2>2, FrameDelivered DEF BeginLog, TypeOK
  <2> QED
    BY <2>1, <2>2
<1>4. ASSUME NEW t \in Threads, Lock(t)
      PROVE  Delivered(u)'
  <2>1. CASE u = t
    <3>1. /\ sink'[u] = 0 /\ printed'[u] = {} /\ pc'[u] = "sink" /\ L' = L
          /\ Len(L.callbacks) \in Nat
      BY <1>1, <1>4, <2>1 DEF Lock, TypeOK, Delivered
    <3> QED
      BY <3>1 DEF Delivered
  <2>2. CASE u # t
    BY <1>1, <1>4, <2>2, FrameDelivered DEF Lock, TypeOK
  <2> QED
    BY <2>1, <2>2
<1>5. ASSUME NEW t \in Threads, SkipSink(t)
      PROVE  Delivered(u)'
  <2>1. CASE u = t
    <3>1. ~Takes(u, sink[u])
      BY <1>5, <2>1 DEF SkipSink, Wants, Takes
    <3> QED
      BY <1>1, <1>5, <2>1, <3>1, PassSink DEF SkipSink, TypeOK, Place
  <2>2. CASE u # t
    BY <1>1, <1>5, <2>2, FrameDelivered DEF SkipSink, TypeOK
  <2> QED
    BY <2>1, <2>2
<1>6. ASSUME NEW t \in Threads, TakeSink(t)
      PROVE  Delivered(u)'
  <2>1. CASE u = t
    <3>1. Takes(u, sink[u]) /\ sink[u] <= Len(L.callbacks) /\ Logging(u)
      BY <1>1, <1>6, <2>1 DEF TakeSink, Wants, Takes, Place
    <3>2. \A k : Takes(u, k)' = Takes(u, k)
      BY <1>6 DEF TakeSink, Takes
    <3>3. /\ pc[u] = "sink" /\ pc'[u] \in {"time", "print"} /\ L' = L /\ level' = level
          /\ sink' = sink /\ printed' = printed
      BY <1>6, <2>1 DEF TakeSink, TypeOK
    <3> QED
      BY <1>1, <3>1, <3>2, <3>3 DEF Delivered, Logging
  <2>2. CASE u # t
    BY <1>1, <1>6, <2>2, FrameDelivered DEF TakeSink, TypeOK
  <2> QED
    BY <2>1, <2>2
<1>7. ASSUME NEW t \in Threads, Unlock(t)
      PROVE  Delivered(u)'
  <2>1. CASE u = t
    BY <1>7, <2>1 DEF Unlock, TypeOK, Delivered, Logging
  <2>2. CASE u # t
    BY <1>1, <1>7, <2>2, FrameDelivered DEF Unlock, TypeOK
  <2> QED
    BY <2>1, <2>2
<1>8. ASSUME NEW t \in Threads, BeginIso(t)
      PROVE  Delivered(u)'
  BY <1>1, <1>8, FrameDelivered DEF BeginIso, TypeOK
<1>9. ASSUME NEW t \in Threads, Time(t) \/ FillHour(t) \/ FillTick(t)
      PROVE  Delivered(u)'
  <2>1. /\ pc[t] \in {"time", "hour", "tick"}
        /\ \E label \in {"hour", "tick", "print"} : pc' = [pc EXCEPT ![t] = label]
        /\ L' = L /\ level' = level /\ sink' = sink /\ printed' = printed
    BY <1>9 DEF Time, FillHour, FillTick
  <2> QED
    BY <1>1, <2>1, FrameDelivered DEF TypeOK
<1>10. ASSUME NEW t \in Threads, Output(t)
       PROVE  Delivered(u)'
  <2>1. CASE u = t /\ level[t] = NULL
    BY <1>1, <1>10, <2>1 DEF Output, Delivered, Logging
  <2>2. CASE u = t /\ level[t] # NULL
    <3>1. Logging(u) /\ pc[u] = "print"
      BY <1>10, <2>2 DEF Output, Logging
    <3>2. Takes(u, sink[u]) /\ sink[u] <= Len(L.callbacks)
      BY <1>1, <3>1 DEF Delivered
    <3>3. /\ pc'[u] = "sink" /\ sink'[u] = sink[u] + 1 /\ L' = L /\ level' = level
          /\ printed'[u] = printed[u] \cup {sink[u]}
      BY <1>10, <2>2 DEF Output, TypeOK
    <3> QED
      BY <1>1, <3>1, <3>2, <3>3, PassSink
  <2>3. CASE u # t
    BY <1>1, <1>10, <2>3, FrameDelivered DEF Output, TypeOK
  <2> QED
    BY <2>1, <2>2, <2>3
<1>11. CASE Tick \/ UNCHANGED vars
  BY <1>1, <1>11, FrameDelivered DEF Tick, vars
<1>12. ASSUME NEW l \in Levels, log_set_level(l) \/ log_add_callback(l)
       PROVE  Configuring /\ UNCHANGED threads
  BY <1>12 DEF log_set_level, log_add_callback, Configure
<1>13. ASSUME NEW enable \in BOOLEAN, log_set_quiet(enable) \/ log_set_lock
       PROVE  Configuring /\ UNCHANGED threads
  BY <1>13 DEF log_set_quiet, log_set_lock, Configure
<1> QED
  BY <1>2, <1>3, <1>4, <1>5, <1>6, <1>7, <1>8, <1>9, <1>10, <1>11, <1>12, <1>13 DEF Next

-----------------------------------------------------------------------------
(* The theorems *)

\* The invariant holds in every state of every behaviour of the logger.
THEOREM LogInvariance == Spec => []LogInv
<1>1. Init => LogInv
  BY InitType, InitStamps, InitSinks DEF LogInv
<1>2. LogInv /\ [Next]_vars => LogInv'
  BY NextType, NextStamps, NextSinks DEF LogInv
<1> QED
  BY <1>1, <1>2, PTL DEF Spec

\* What a thread prints is the time it has read unless another thread wrote the struct
\* tm since, and even then no time but one between the oldest it may print and now,
\* as long as no hour ends in between; a lock keeps loggers apart.
THEOREM StampsExplainedHolds == Spec => []StampsExplained
<1>1. LogInv => StampsExplained
  <2> SUFFICES ASSUME LogInv, NEW t \in Threads, pc[t] = "print"
               PROVE  /\ mixers[t] = {} => tm = Broken(time[t])
                      /\ Broken(oldest[t]).hour = Broken(now).hour =>
                             tm.hour * Hour + tm.tick \in oldest[t]..now
                      /\ L.lock /\ Kind(t) = "log" => "log" \notin mixers[t]
    BY DEF StampsExplained
  <2>1. TypeOK /\ Stamp(t)
    BY DEF LogInv, Stamps
  <2>2. /\ Timed(t) /\ HasHour(t) /\ HasTick(t)
        /\ time[t] \in Nat /\ oldest[t] \in Nat /\ now \in Nat
    BY <2>1 DEF Stamp, Place, HasHour, HasTick, Timed, TypeOK
  <2>3. mixers[t] = {} => tm = Broken(time[t])
    <3>1. ASSUME mixers[t] = {} PROVE tm = Broken(time[t])
      <4>1. tm.hour = Broken(time[t]).hour /\ tm.tick = Broken(time[t]).tick
        BY <2>1, <2>2, <3>1 DEF Stamp, Own
      <4>2. tm \in [hour : Nat, tick : Nat] /\ Broken(time[t]) \in [hour : Nat, tick : Nat]
        BY <2>1, <2>2, BrokenType DEF TypeOK
      <4> QED
        BY <4>1, <4>2
    <3> QED
      BY <3>1
  <2>4. ASSUME Broken(oldest[t]).hour = Broken(now).hour
        PROVE  tm.hour * Hour + tm.tick \in oldest[t]..now
    <3>1. PICK x \in oldest[t]..now : tm.hour = Broken(x).hour
      BY <2>1, <2>2 DEF Stamp, Fields
    <3>2. PICK y \in oldest[t]..now : tm.tick = Broken(y).tick
      BY <2>1, <2>2 DEF Stamp, Fields
    <3>3. x \in Nat /\ oldest[t] <= x /\ x <= now /\ y \in Nat /\ oldest[t] <= y /\ y <= now
      BY <2>2
    <3>4. Broken(x).hour = Broken(y).hour
      BY <2>2, <2>4, <3>3, SameHour
    <3>5. Broken(y).hour * Hour + Broken(y).tick = y
      BY <3>3, BrokenType
    <3> QED
      BY <3>1, <3>2, <3>4, <3>5
  <2>5. L.lock /\ Kind(t) = "log" => "log" \notin mixers[t]
    BY <2>1, <2>2 DEF Stamp, Locked, Kind, Logging
  <2> QED
    BY <2>3, <2>4, <2>5
<1> QED
  BY <1>1, LogInvariance, PTL

\* Each event reaches the sinks that take its level, and no other, however the calls
\* of the threads interleave.
THEOREM SinksHolds == Spec => []SinksGetTheirEvents
<1>1. LogInv => SinksGetTheirEvents
  <2> SUFFICES ASSUME LogInv, NEW t \in Threads, pc[t] = "sink", sink[t] > Len(L.callbacks)
               PROVE  /\ 0 \in printed[t] <=> ~L.quiet /\ level[t] >= L.level
                      /\ \A k \in 1..Len(L.callbacks) :
                            k \in printed[t] <=> level[t] >= L.callbacks[k]
    BY DEF SinksGetTheirEvents
  <2>1. /\ Len(L.callbacks) \in Nat /\ sink[t] \in Nat
        /\ printed[t] = {k \in 0..(sink[t] - 1) : Takes(t, k)}
        /\ sink[t] <= Len(L.callbacks) + 1
    BY DEF LogInv, TypeOK, Stamps, Stamp, Place, Sinks, Delivered
  <2>2. \A k \in 0..Len(L.callbacks) : k \in printed[t] <=> Takes(t, k)
    BY <2>1
  <2> QED
    BY <2>1, <2>2 DEF Takes
<1> QED
  BY <1>1, LogInvariance, PTL

=============================================================================
