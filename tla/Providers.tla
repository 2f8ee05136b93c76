----------------------------- MODULE Providers -----------------------------
(***************************************************************************)
(* The handlers behind the three subscriptions of data_provider()          *)
(* (src/src/main.c: provider_cb).  Each subscription is served by a thread *)
(* of its own, so three handlers can run at once.  Two of them share the   *)
(* list of port names that get_interface_names() (src/src/interface.c)     *)
(* builds on first use and keeps for ever, without a lock.                 *)
(*                                                                         *)
(* A step of a handler goes from one access to shared state (the global    *)
(* interface_names, the set it points to, the kernel's link table) to the  *)
(* next.  What a thread reads from memory another thread is writing is     *)
(* undefined: it may see any part of the set, go round in it, or crash, and *)
(* two writers may leave a chain of it that goes round for good.           *)
(***************************************************************************)
EXTENDS Naturals, SequencesExt, FiniteSetsExt

CONSTANTS
    Ifaces,        \* names of ports (the "eno*" and "swp*" links)
    Odd,           \* ports in an operational state the handler has no name for
    MaxFaults,     \* bound: netlink and popen calls that fail
    NULL

NameProviders == {"statistics", "oper-status"}
Threads == NameProviders \cup {"lldp-port"}

ASSUME ProvidersAssumption ==
    /\ NULL \notin Ifaces \cup NameProviders
    /\ Odd \subseteq Ifaces
    /\ MaxFaults \in Nat

VARIABLES
    alive,             \* the process has neither crashed nor called exit()
    links,             \* kernel: the ports that exist
    interface_names,   \* NULL, or the thread whose malloc() it points to
    sets,              \* the struct sset each thread has allocated
    pc,
    cache,             \* the handler's copy of the link table
    fillCache,         \* get_interface_names(): its own copy of the link table
    fill,              \* get_interface_names(): names still to be added
    names,             \* the set the handler iterates over
    todo,              \* names SSET_FOR_EACH has still to visit
    torn,              \* that set was written while the handler iterated
    reply,             \* the loop's start and oper_state, and the entries of the answer
    held,              \* sr_acquire_context() calls not released
    faults,            \* calls that failed
    overlap,           \* history: two threads were in get_interface_names() at once
    changed,           \* history: a port vanished, or appeared before the list was ready
    late,              \* history: ports that appeared after that
    flawed             \* history: lldpd printed a neighbour to crash on

process == <<interface_names, sets, cache, fillCache, fill, names, todo, torn,
             reply>>
history == <<overlap, changed, late, flawed>>
vars == <<alive, links, process, pc, held, faults, history>>

-----------------------------------------------------------------------------
Labels == {"idle", "acquired", "names", "malloc", "init", "connect",
           "allocCache", "nameIndex", "fill", "searchLoop", "iterate"}

\* Inside get_interface_names(), past its test of interface_names.
Filling == {"malloc", "init", "connect", "allocCache", "nameIndex", "fill",
            "searchLoop"}

\* A set is "raw" before sset_init() and "broken" when two threads wrote it at once.
NoSet == [state |-> "free", elems |-> {}]

\* oper_state is the empty string at first, here NULL.
NoReply == [start |-> TRUE, oper_state |-> NULL, entries |-> <<>>]

Init ==
    /\ alive = TRUE
    /\ links \in SUBSET Ifaces
    /\ interface_names = NULL
    /\ sets = [t \in NameProviders |-> NoSet]
    /\ pc = [t \in Threads |-> "idle"]
    /\ cache = [t \in NameProviders |-> {}]
    /\ fillCache = [t \in NameProviders |-> {}]
    /\ fill = [t \in NameProviders |-> {}]
    /\ names = [t \in NameProviders |-> NULL]
    /\ todo = [t \in NameProviders |-> {}]
    /\ torn = [t \in NameProviders |-> FALSE]
    /\ reply = [t \in NameProviders |-> NoReply]
    /\ held = [t \in Threads |-> 0]
    /\ faults = 0
    /\ overlap = FALSE
    /\ changed = FALSE
    /\ late = {}
    /\ flawed = FALSE

GoTo(t, label) == pc' = [pc EXCEPT ![t] = label]
Fault == faults < MaxFaults /\ faults' = faults + 1
Release(t) == held' = [held EXCEPT ![t] = @ - 1]

\* A null pointer or torn memory is followed, or exit() is called.
Die == alive' = FALSE /\ UNCHANGED <<process, pc, held, faults>>

\* Threads other than t that are iterating over set o find it torn.
Tear(t, o) ==
    torn' = [u \in NameProviders |->
                torn[u] \/ (u # t /\ pc[u] = "iterate" /\ names[u] = o)]

-----------------------------------------------------------------------------
(* provider_cb(), and the head the three handlers have in common. *)

Request(t) ==
    /\ pc[t] = "idle"
    /\ held' = [held EXCEPT ![t] = @ + 1]
    /\ GoTo(t, "acquired")
    /\ UNCHANGED <<alive, links, process, faults, history>>

\* nl_socket_alloc() or nl_connect() fails in a handler, popen() in the LLDP one:
\* all three return without sr_release_context().
ReturnEarly(t) ==
    /\ pc[t] = "acquired"
    /\ Fault
    /\ GoTo(t, "idle")
    /\ UNCHANGED <<alive, links, process, held, history>>

\* lldp_port_provider() shares nothing but the context with the others.  What it does
\* with each neighbour is in Lldp.
LldpAnswer ==
    /\ pc["lldp-port"] = "acquired"
    /\ Release("lldp-port")
    /\ GoTo("lldp-port", "idle")
    /\ UNCHANGED <<alive, links, process, faults, history>>

\* For one that lldpd says too little of it follows a pointer it has not got, or reads
\* beyond the end of the port id.
LldpCrash ==
    /\ pc["lldp-port"] = "acquired"
    /\ flawed' = TRUE
    /\ Die
    /\ UNCHANGED <<links, overlap, changed, late>>

AllocCache(t) ==
    /\ pc[t] = "acquired"
    /\ \/ /\ cache' = [cache EXCEPT ![t] = links]
          /\ GoTo(t, "names")
          /\ UNCHANGED <<held, faults>>
       \/ /\ Fault
          /\ Release(t)
          /\ GoTo(t, "idle")
          /\ UNCHANGED cache
    /\ UNCHANGED <<alive, links, interface_names, sets, fillCache, fill, names,
                   todo, torn, reply, history>>

-----------------------------------------------------------------------------
(* get_interface_names() *)

\* The call returns interface_names and SSET_FOR_EACH starts.  A set that is not
\* initialised, or broken, is torn from the start.
Return(t) ==
    /\ names' = [names EXCEPT ![t] = interface_names]
    /\ todo' = [todo EXCEPT ![t] = sets[interface_names].elems]
    /\ torn' = [torn EXCEPT ![t] = sets[interface_names].state # "ready"]
    /\ fillCache' = [fillCache EXCEPT ![t] = {}]
    /\ GoTo(t, "iterate")

\* Variant: the test of interface_names is left out.
CheckNamesRebuilds(t) ==
    /\ pc[t] = "names"
    /\ GoTo(t, "malloc")
    /\ overlap' = (overlap \/ \E u \in NameProviders \ {t} : pc[u] \in Filling)
    /\ UNCHANGED <<alive, links, interface_names, sets, cache, fillCache, fill, names,
                   todo, torn, reply, held, faults, changed, late, flawed>>

CheckNames(t) ==
    /\ pc[t] = "names"
    /\ IF interface_names # NULL
       THEN Return(t)
       ELSE GoTo(t, "malloc") /\ UNCHANGED <<names, todo, torn, fillCache>>
    /\ overlap' = (overlap \/ \E u \in NameProviders \ {t} : pc[u] \in Filling)
    /\ UNCHANGED <<alive, links, interface_names, sets, cache, fill, reply, held, faults,
                   changed, late, flawed>>

Malloc(t) ==
    /\ pc[t] = "malloc"
    /\ interface_names' = t
    /\ sets' = [sets EXCEPT ![t] = [state |-> "raw", elems |-> {}]]
    /\ GoTo(t, "init")
    /\ UNCHANGED <<alive, links, cache, fillCache, fill, names, todo, torn, reply,
                   held, faults, history>>

\* Variant: sset_init() is forgotten.
InitSetForgotten(t) ==
    /\ pc[t] = "init"
    /\ GoTo(t, "connect")
    /\ UNCHANGED <<alive, links, process, held, faults, history>>

\* Another thread is adding to the set interface_names points to.
Contended(t) == \E u \in NameProviders \ {t} : pc[u] = "fill"

\* sset_init() of whatever interface_names points to now.
InitSet(t) ==
    /\ pc[t] = "init"
    /\ \E state \in {"ready"} \cup (IF Contended(t) THEN {"broken"} ELSE {}) :
          sets' = [sets EXCEPT ![interface_names] = [state |-> state, elems |-> {}]]
    /\ Tear(t, interface_names)
    /\ GoTo(t, "connect")
    /\ UNCHANGED <<alive, links, interface_names, cache, fillCache, fill, names,
                   todo, reply, held, faults, history>>

Connect(t) ==
    /\ pc[t] = "connect"
    /\ GoTo(t, "allocCache")
    /\ UNCHANGED <<alive, links, process, held, faults, history>>

\* No netlink socket: exit(-1).
ConnectExit(t) ==
    /\ pc[t] = "connect"
    /\ Fault
    /\ alive' = FALSE
    /\ UNCHANGED <<links, process, pc, held, history>>

AllocFillCache(t) ==
    /\ pc[t] = "allocCache"
    /\ fillCache' = [fillCache EXCEPT ![t] = links]
    /\ GoTo(t, "nameIndex")
    /\ UNCHANGED <<alive, links, interface_names, sets, cache, fill, names, todo,
                   torn, reply, held, faults, history>>

\* rtnl_link_alloc_cache() fails: the set is returned, and kept, as it is.
AllocFillCacheFails(t) ==
    /\ pc[t] = "allocCache"
    /\ Fault
    /\ Return(t)
    /\ UNCHANGED <<alive, links, interface_names, sets, cache, fill, reply, held,
                   history>>

NameIndex(t) ==
    /\ pc[t] = "nameIndex"
    /\ fill' = [fill EXCEPT ![t] = links]
    /\ GoTo(t, "fill")
    /\ UNCHANGED <<alive, links, interface_names, sets, cache, fillCache, names,
                   todo, torn, reply, held, faults, history>>

\* Variant: the index of the loop does not advance.
AddNameStuck(t, n) ==
    /\ pc[t] = "fill"
    /\ n \in fill[t]
    /\ n \in fillCache[t]
    /\ sets' = [sets EXCEPT ![interface_names].elems = @ \cup {n}]
    /\ Tear(t, interface_names)
    /\ UNCHANGED <<alive, links, interface_names, pc, cache, fillCache, fill, names,
                   todo, reply, held, faults, history>>

\* rtnl_link_get_by_name() and sset_add().  When two threads add at once elements may
\* be lost, and the set may be broken.
AddName(t, n) ==
    /\ pc[t] = "fill"
    /\ n \in fill[t]
    /\ n \in fillCache[t]
    /\ fill' = [fill EXCEPT ![t] = @ \ {n}]
    /\ LET all == sets[interface_names].elems \cup {n} IN
       \/ sets' = [sets EXCEPT ![interface_names].elems = all]
       \/ /\ Contended(t)
          /\ \/ \E elems \in SUBSET all :
                   sets' = [sets EXCEPT ![interface_names].elems = elems]
             \/ sets' = [sets EXCEPT ![interface_names] = [state |-> "broken", elems |-> all]]
    /\ Tear(t, interface_names)
    /\ UNCHANGED <<alive, links, interface_names, pc, cache, fillCache, names,
                   todo, reply, held, faults, history>>

\* The set is not one that sset_add() can count on.
Unsound(t) == Contended(t) \/ sets[interface_names].state # "ready"

\* The search of sset_add() goes round in a chain of the set for ever.
AddNameLoops(t) ==
    /\ pc[t] = "fill"
    /\ fill[t] \cap fillCache[t] # {}
    /\ Unsound(t)
    /\ GoTo(t, "searchLoop")
    /\ UNCHANGED <<alive, links, process, held, faults, history>>

\* rtnl_link_get_arptype() of a link the copy of the table does not have, or
\* sset_add() to a set that is uninitialised, broken or being written.
AddNameCrash(t) ==
    /\ pc[t] = "fill"
    /\ fill[t] # {}
    /\ ~(fill[t] \subseteq fillCache[t]) \/ Unsound(t)
    /\ Die
    /\ UNCHANGED <<links, history>>

FillDone(t) ==
    /\ pc[t] = "fill"
    /\ fill[t] = {}
    /\ Return(t)
    /\ UNCHANGED <<alive, links, interface_names, sets, cache, fill, reply, held, faults,
                   history>>

-----------------------------------------------------------------------------
(* SSET_FOR_EACH in the two handlers.  An entry of an answer names a port  *)
(* and the port whose value it gives.                                      *)

Answered(r) == {r.entries[k].port : k \in 1..Len(r.entries)}

\* oper_state in the iteration for n: a state without a name leaves it as it was.
OperState(r, n) == IF n \in Odd THEN r.oper_state ELSE n

Value(t, r, n) == IF t = "oper-status" THEN OperState(r, n) ELSE n

\* lyd_new_path() takes no state that is empty, makes no node that is there, and needs
\* the tree that the first entry makes: *parent is NULL while there is no entry.
Accepted(t, r, n) ==
    /\ Value(t, r, n) # NULL
    /\ n \notin Answered(r)
    /\ r.start \/ r.entries # <<>>

Entered(t, r, n) ==
    IF Accepted(t, r, n) THEN Append(r.entries, [port |-> n, value |-> Value(t, r, n)])
    ELSE r.entries

\* Variant: oper_state is reset in each iteration.
ReportBlank(t, r, n) ==
    IF n \notin cache[t] THEN r
    ELSE [start |-> FALSE, oper_state |-> NULL,
          entries |-> Entered(t, [r EXCEPT !.oper_state = NULL], n)]

\* A port whose link is not in the handler's copy of the table is left out of the
\* statistics.  start is cleared whatever lyd_new_path() returns, so if it refuses the
\* first entry it refuses all the others.
Report(t, r, n) ==
    IF n \notin cache[t] THEN r
    ELSE [start      |-> FALSE,
          oper_state |-> IF t = "oper-status" THEN OperState(r, n) ELSE NULL,
          entries    |-> Entered(t, r, n)]

\* A walk through a torn set may go on to any part of it, also to ports it has visited.
Visit(t, n) ==
    /\ pc[t] = "iterate"
    /\ n \in todo[t]
    /\ t = "oper-status" => n \in cache[t]
    /\ reply' = [reply EXCEPT ![t] = Report(t, @, n)]
    /\ \/ todo' = [todo EXCEPT ![t] = @ \ {n}]
       \/ /\ torn[t]
          /\ \E rest \in SUBSET sets[names[t]].elems : todo' = [todo EXCEPT ![t] = rest]
    /\ UNCHANGED <<alive, links, interface_names, sets, pc, cache, fillCache, fill,
                   names, torn, held, faults, history>>

\* rtnl_link_get_operstate() of no link, or a step through a torn set.
VisitCrash(t) ==
    /\ pc[t] = "iterate"
    /\ \/ t = "oper-status" /\ ~(todo[t] \subseteq cache[t])
       \/ torn[t]
    /\ Die
    /\ UNCHANGED <<links, history>>

\* Variant: sr_release_context() is missing on the normal path.
AnswerHolds(t) ==
    /\ pc[t] = "iterate"
    /\ todo[t] = {}
    /\ torn' = [torn EXCEPT ![t] = FALSE]
    /\ names' = [names EXCEPT ![t] = NULL]
    /\ cache' = [cache EXCEPT ![t] = {}]
    /\ reply' = [reply EXCEPT ![t] = NoReply]
    /\ GoTo(t, "idle")
    /\ UNCHANGED <<alive, links, interface_names, sets, fillCache, fill, todo, held,
                   faults, history>>

Answer(t) ==
    /\ pc[t] = "iterate"
    /\ todo[t] = {}
    /\ Release(t)
    /\ torn' = [torn EXCEPT ![t] = FALSE]
    /\ names' = [names EXCEPT ![t] = NULL]
    /\ cache' = [cache EXCEPT ![t] = {}]
    /\ reply' = [reply EXCEPT ![t] = NoReply]
    /\ GoTo(t, "idle")
    /\ UNCHANGED <<alive, links, interface_names, sets, fillCache, fill, todo,
                   faults, history>>

-----------------------------------------------------------------------------
(* The kernel.  The history variables note the changes a handler may trip  *)
(* over.                                                                   *)

\* The list is complete and nobody is building it.
Warm == interface_names # NULL /\ \A t \in NameProviders : pc[t] \notin Filling

LinkAppears(i) ==
    /\ i \notin links
    /\ links' = links \cup {i}
    /\ changed' = (changed \/ ~Warm)
    /\ late' = IF Warm THEN late \cup {i} ELSE late
    /\ UNCHANGED <<alive, process, pc, held, faults, overlap, flawed>>

LinkVanishes(i) ==
    /\ i \in links
    /\ links' = links \ {i}
    /\ changed' = TRUE
    /\ UNCHANGED <<alive, process, pc, held, faults, overlap, late, flawed>>

-----------------------------------------------------------------------------
GetInterfaceNames(t) ==
    \/ CheckNames(t)
    \/ Malloc(t)
    \/ InitSet(t)
    \/ Connect(t)
    \/ ConnectExit(t)
    \/ AllocFillCache(t)
    \/ AllocFillCacheFails(t)
    \/ NameIndex(t)
    \/ \E n \in Ifaces : AddName(t, n)
    \/ AddNameLoops(t)
    \/ AddNameCrash(t)
    \/ FillDone(t)

NameHandler(t) ==
    \/ AllocCache(t)
    \/ GetInterfaceNames(t)
    \/ \E n \in Ifaces : Visit(t, n)
    \/ VisitCrash(t)
    \/ Answer(t)

Handler(t) ==
    \/ ReturnEarly(t)
    \/ t \in NameProviders /\ NameHandler(t)
    \/ t = "lldp-port" /\ (LldpAnswer \/ LldpCrash)

Kernel == \E i \in Ifaces : LinkAppears(i) \/ LinkVanishes(i)

\* A process that has crashed or called exit() takes no more steps.
Next == alive /\ (Kernel \/ \E t \in Threads : Request(t) \/ Handler(t))

Spec == Init /\ [][Next]_vars

-----------------------------------------------------------------------------
(* Properties *)

TypeOK ==
    /\ alive \in BOOLEAN
    /\ links \subseteq Ifaces
    /\ interface_names \in NameProviders \cup {NULL}
    /\ sets \in [NameProviders ->
                    [state : {"free", "raw", "ready", "broken"}, elems : SUBSET Ifaces]]
    /\ pc \in [Threads -> Labels]
    /\ cache \in [NameProviders -> SUBSET Ifaces]
    /\ fillCache \in [NameProviders -> SUBSET Ifaces]
    /\ fill \in [NameProviders -> SUBSET Ifaces]
    /\ names \in [NameProviders -> NameProviders \cup {NULL}]
    /\ todo \in [NameProviders -> SUBSET Ifaces]
    /\ torn \in [NameProviders -> BOOLEAN]
    /\ reply \in [NameProviders ->
                     [start : BOOLEAN, oper_state : Ifaces \cup {NULL},
                      entries : Seq([port : Ifaces, value : Ifaces])]]
    /\ held \in [Threads -> Nat]
    /\ faults \in 0..MaxFaults
    /\ overlap \in BOOLEAN
    /\ changed \in BOOLEAN
    /\ late \subseteq Ifaces
    /\ flawed \in BOOLEAN

\* hmap.h says a hash map is not thread-safe without additional locking, and there
\* is none: nobody may add to the list of names while another thread uses it.
NoUnlockedSharing ==
    \A t, u \in NameProviders :
        t # u /\ pc[t] = "fill" /\ fill[t] # {} =>
            /\ pc[u] # "fill"
            /\ ~(pc[u] = "iterate" /\ names[u] = interface_names)

\* A list that is complete never changes again, so the requests that follow can
\* iterate over it without a lock: only the first ones are exposed.
WarmListIsStable ==
    [][Warm => Warm' /\ interface_names' = interface_names /\ sets' = sets]_vars

\* The handlers crash only if two of them built the list at the same time, a port
\* vanished, one appeared before the list was there, or lldpd has a neighbour without
\* what the third one takes for granted; they exit only when netlink fails.  Ports that
\* appear later are harmless (and never reported).
CrashNeedsCause == ~alive => overlap \/ changed \/ faults > 0 \/ flawed

\* If two did not build the list at once and neither netlink nor the ports got in the way,
\* every answer has one entry for each port that was there when the list was built, and
\* says of it what the kernel does: except of a port in a state without a name, which is
\* given the state of the last port before it in the same answer that has one, whichever
\* that is in the order of the set.  If a port in such a state comes first in that order,
\* the answer has no entry at all.
AnswersComplete ==
    ~overlap /\ ~changed /\ faults = 0 =>
        \A t \in NameProviders :
            LET r == reply[t].entries
                Named(k) == {j \in 1..k : r[j].port \notin Odd}
            IN pc[t] = "iterate" /\ todo[t] = {} =>
                   \/ /\ t = "oper-status" /\ r = <<>>
                      /\ Odd \cap (links \ late) # {}
                   \/ /\ Answered(reply[t]) = links \ late
                      /\ Len(r) = Cardinality(links \ late)
                      /\ \A k \in 1..Len(r) :
                             r[k].value = IF t = "statistics" THEN r[k].port
                                          ELSE r[Max(Named(k))].port

\* A handler holds the context exactly while it runs, unless a call failed; the
\* context is leaked at most once for each failure.
ContextBalanced ==
    alive => \A t \in Threads :
        LET running == IF pc[t] = "idle" THEN 0 ELSE 1 IN
        held[t] \in running..(running + faults)

=============================================================================
