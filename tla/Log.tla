--------------------------------- MODULE Log ---------------------------------
(***************************************************************************)
(* The logger (src/lib/log.c), which every thread of the program calls,    *)
(* and get_iso8601_time() (src/src/utils.c), which a handler calls for     *)
(* each port.  Both print a time through localtime(), whose result is one  *)
(* struct tm for the whole process.                                        *)
(*                                                                         *)
(* A time is a number of ticks; its broken-down form is an hour and the    *)
(* ticks past it.  localtime() fills the struct field by field, and what   *)
(* a thread prints while another one fills it is undefined: it may be any  *)
(* mixture of the two.                                                     *)
(***************************************************************************)
EXTENDS Naturals, Sequences

CONSTANTS
    Threads,
    Hour,              \* ticks of an hour
    MaxTime,           \* bound: ticks the clock advances
    Levels,            \* levels of events and filters, as numbers
    MAX_CALLBACKS,
    NULL

ASSUME LogAssumption ==
    /\ Hour \in Nat \ {0}
    /\ MaxTime \in Nat
    /\ Levels \subseteq Nat /\ Levels # {}
    /\ MAX_CALLBACKS \in Nat
    /\ NULL \notin Nat /\ NULL \notin Threads

VARIABLES
    L,                 \* level, quiet, whether a lock is set, levels of the callbacks
    refused,           \* log_add_callback() calls that returned -1
    now,
    tm,                \* the static struct tm
    pc,
    level,             \* of the event the thread logs; NULL in get_iso8601_time()
    sink,              \* 0 is stderr, then the callbacks
    printed,           \* sinks the event has been printed to
    time,              \* NULL, or what time() returned; ev->time is set as well
    holder,            \* the thread that has the lock
    mixers,            \* history: kinds of call ("log", "iso") of another thread
                       \* that wrote tm since this thread's time()
    oldest             \* history: the least time this thread may print

config == <<L, refused>>
threads == <<pc, level, sink, printed, time, mixers, oldest>>
vars == <<config, now, tm, threads, holder>>

-----------------------------------------------------------------------------
Broken(t) == [hour |-> t \div Hour, tick |-> t % Hour]

Init ==
    /\ L = [level |-> 0, quiet |-> FALSE, lock |-> FALSE, callbacks |-> <<>>]
    /\ refused = 0
    /\ now = 0
    /\ tm = Broken(0)
    /\ pc = [t \in Threads |-> "idle"]
    /\ level = [t \in Threads |-> NULL]
    /\ sink = [t \in Threads |-> 0]
    /\ printed = [t \in Threads |-> {}]
    /\ time = [t \in Threads |-> NULL]
    /\ holder = NULL
    /\ mixers = [t \in Threads |-> {}]
    /\ oldest = [t \in Threads |-> 0]

GoTo(t, label) == pc' = [pc EXCEPT ![t] = label]

-----------------------------------------------------------------------------
(* Configuration: before the threads start, as main() does. *)

Configuring == now = 0 /\ \A t \in Threads : pc[t] = "idle"

Configure(new) ==
    /\ Configuring
    /\ L' = new
    /\ UNCHANGED <<refused, now, tm, threads, holder>>

log_set_level(l) == Configure([L EXCEPT !.level = l])
log_set_quiet(enable) == Configure([L EXCEPT !.quiet = enable])
log_set_lock == Configure([L EXCEPT !.lock = TRUE])

log_add_callback(l) ==
    /\ Configuring
    /\ IF Len(L.callbacks) < MAX_CALLBACKS
       THEN L' = [L EXCEPT !.callbacks = Append(@, l)] /\ UNCHANGED refused
       ELSE refused' = 1 /\ UNCHANGED L
    /\ UNCHANGED <<now, tm, threads, holder>>

-----------------------------------------------------------------------------
(* log_log() *)

\* The event is made, then lock() is called.
BeginLog(t, l) ==
    /\ pc[t] = "idle"
    /\ level' = [level EXCEPT ![t] = l]
    /\ GoTo(t, "lock")
    /\ UNCHANGED <<config, now, tm, sink, printed, time, mixers, oldest, holder>>

Lock(t) ==
    /\ pc[t] = "lock"
    /\ IF L.lock THEN holder = NULL /\ holder' = t ELSE UNCHANGED holder
    /\ GoTo(t, "sink")
    /\ UNCHANGED <<config, now, tm, level, sink, printed, time, mixers, oldest>>

\* The next sink takes the event: stderr unless quiet, a callback by its own level.
Wants(t) ==
    IF sink[t] = 0 THEN ~L.quiet /\ level[t] >= L.level
    ELSE level[t] >= L.callbacks[sink[t]]

\* Variant: the loop ends at the first callback that does not take the event.
SkipSinkBreaks(t) ==
    /\ pc[t] = "sink"
    /\ sink[t] <= Len(L.callbacks)
    /\ ~Wants(t)
    /\ sink' = [sink EXCEPT ![t] = IF @ = 0 THEN 1 ELSE Len(L.callbacks) + 1]
    /\ UNCHANGED <<config, now, tm, pc, level, printed, time, mixers, oldest, holder>>

SkipSink(t) ==
    /\ pc[t] = "sink"
    /\ sink[t] <= Len(L.callbacks)
    /\ ~Wants(t)
    /\ sink' = [sink EXCEPT ![t] = @ + 1]
    /\ UNCHANGED <<config, now, tm, pc, level, printed, time, mixers, oldest, holder>>

\* init_event() sets the time of an event for its first sink only.
TakeSink(t) ==
    /\ pc[t] = "sink"
    /\ sink[t] <= Len(L.callbacks)
    /\ Wants(t)
    /\ GoTo(t, IF time[t] = NULL THEN "time" ELSE "print")
    /\ UNCHANGED <<config, now, tm, level, sink, printed, time, mixers, oldest, holder>>

\* unlock(); the event goes with the call.
Unlock(t) ==
    /\ pc[t] = "sink"
    /\ sink[t] > Len(L.callbacks)
    /\ holder' = IF L.lock THEN NULL ELSE holder
    /\ level' = [level EXCEPT ![t] = NULL]
    /\ sink' = [sink EXCEPT ![t] = 0]
    /\ printed' = [printed EXCEPT ![t] = {}]
    /\ time' = [time EXCEPT ![t] = NULL]
    /\ mixers' = [mixers EXCEPT ![t] = {}]
    /\ oldest' = [oldest EXCEPT ![t] = 0]
    /\ GoTo(t, "idle")
    /\ UNCHANGED <<config, now, tm>>

-----------------------------------------------------------------------------
(* time(), localtime() and strftime(), of both functions.  log_log() calls *)
(* them with the lock held, if there is one, get_iso8601_time() without.   *)

BeginIso(t) ==
    /\ pc[t] = "idle"
    /\ GoTo(t, "time")
    /\ UNCHANGED <<config, now, tm, level, sink, printed, time, mixers, oldest, holder>>

\* Variant: the time is that of the struct tm's last use.
TimeStale(t) ==
    /\ pc[t] = "time"
    /\ time' = [time EXCEPT ![t] = now]
    /\ oldest' = [oldest EXCEPT ![t] = now]
    /\ mixers' = [mixers EXCEPT ![t] = {}]
    /\ GoTo(t, "print")
    /\ UNCHANGED <<config, now, tm, level, sink, printed, holder>>

Time(t) ==
    /\ pc[t] = "time"
    /\ time' = [time EXCEPT ![t] = now]
    /\ oldest' = [oldest EXCEPT ![t] = now]
    /\ mixers' = [mixers EXCEPT ![t] = {}]
    /\ GoTo(t, "hour")
    /\ UNCHANGED <<config, now, tm, level, sink, printed, holder>>

Kind(t) == IF level[t] = NULL THEN "iso" ELSE "log"

\* The threads that have read the clock and not printed for the last time see
\* fields of t's time from now on.
Mix(t) ==
    LET Affected == {u \in Threads \ {t} : time[u] # NULL} IN
    /\ mixers' = [u \in Threads |-> IF u \in Affected THEN mixers[u] \cup {Kind(t)} ELSE mixers[u]]
    /\ oldest' = [u \in Threads |-> IF u \in Affected /\ oldest[t] < oldest[u]
                                    THEN oldest[t] ELSE oldest[u]]

FillHour(t) ==
    /\ pc[t] = "hour"
    /\ tm' = [tm EXCEPT !.hour = Broken(time[t]).hour]
    /\ Mix(t)
    /\ GoTo(t, "tick")
    /\ UNCHANGED <<config, now, level, sink, printed, time, holder>>

FillTick(t) ==
    /\ pc[t] = "tick"
    /\ tm' = [tm EXCEPT !.tick = Broken(time[t]).tick]
    /\ Mix(t)
    /\ GoTo(t, "print")
    /\ UNCHANGED <<config, now, level, sink, printed, time, holder>>

\* strftime() and the output; then the next sink, or the return to the handler.
Output(t) ==
    /\ pc[t] = "print"
    /\ IF level[t] = NULL
       THEN /\ GoTo(t, "idle")
            /\ time' = [time EXCEPT ![t] = NULL]
            /\ mixers' = [mixers EXCEPT ![t] = {}]
            /\ oldest' = [oldest EXCEPT ![t] = 0]
            /\ UNCHANGED <<sink, printed>>
       ELSE /\ GoTo(t, "sink")
            /\ printed' = [printed EXCEPT ![t] = @ \cup {sink[t]}]
            /\ sink' = [sink EXCEPT ![t] = @ + 1]
            /\ UNCHANGED <<time, mixers, oldest>>
    /\ UNCHANGED <<config, now, tm, level, holder>>

-----------------------------------------------------------------------------
Tick ==
    /\ now < MaxTime
    /\ now' = now + 1
    /\ UNCHANGED <<config, tm, threads, holder>>

Next ==
    \/ \E l \in Levels : log_set_level(l) \/ log_add_callback(l)
    \/ \E enable \in BOOLEAN : log_set_quiet(enable)
    \/ log_set_lock
    \/ \E t \in Threads :
          \/ \E l \in Levels : BeginLog(t, l)
          \/ Lock(t)
          \/ SkipSink(t)
          \/ TakeSink(t)
          \/ Unlock(t)
          \/ BeginIso(t)
          \/ Time(t)
          \/ FillHour(t)
          \/ FillTick(t)
          \/ Output(t)
    \/ Tick

Spec == Init /\ [][Next]_vars

-----------------------------------------------------------------------------
(* Properties *)

\* What a line or an answer says is the time its thread read, unless another thread
\* wrote the struct since; and then it is still a time between the oldest one the
\* two can have read and now, as long as no hour ends in between.  (When one does,
\* the mixture can lie up to an hour in the past or in the future.)  A lock keeps
\* loggers apart, but not a logger and get_iso8601_time().
StampsExplained ==
    \A t \in Threads :
        pc[t] = "print" =>
            /\ mixers[t] = {} => tm = Broken(time[t])
            /\ Broken(oldest[t]).hour = Broken(now).hour =>
                   tm.hour * Hour + tm.tick \in oldest[t]..now
            /\ L.lock /\ Kind(t) = "log" => "log" \notin mixers[t]

\* Whatever the sinks before it did, each sink prints each event of its level, and
\* no other, exactly when the call is over.
SinksGetTheirEvents ==
    \A t \in Threads :
        pc[t] = "sink" /\ sink[t] > Len(L.callbacks) =>
            /\ 0 \in printed[t] <=> ~L.quiet /\ level[t] >= L.level
            /\ \A k \in 1..Len(L.callbacks) :
                  k \in printed[t] <=> level[t] >= L.callbacks[k]

=============================================================================
