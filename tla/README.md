# A verification development for tsn-demo

tsn-demo is a small C daemon for a Linux TSN switch. It publishes what the kernel
knows about the switch (interfaces, addresses, chassis, bridges) as configuration in
a sysrepo datastore and answers requests for operational data (statistics, operational
state, LLDP neighbours). The TLA+ modules here model it; TLC checks them on small
instances, TLAPS proves the main facts about the main thread, the handlers, the process
they make up, the hash map and its walks, the linked lists, the vectors, the tables, the
LLDP answer and the logger for every instance.

## 1. The system

| component | source | state | operations |
|---|---|---|---|
| main thread | `src/main.c` | where it is; `interfaces`, filled once; its sysrepo session | start-up sequence, subscription, one refresh a second |
| sysrepo session | external, used in `main.c`, `interface.c`, `hardware.c`, `bridge.c` | the current store; a pending edit per store; the stores | `sr_set_item`, `sr_delete_item`, `sr_apply_changes`, `sr_discard_changes`, `sr_session_switch_ds` |
| interface publication | `src/interface.c` | table of interfaces, of addresses, of speeds | `collect_*`, `save_*`, `update_ips`, `update_interfaces_speed` |
| data providers | `src/interface.c`, `src/lldp.c`, `provider_cb` in `main.c` | `interface_names`, built on first use and kept | one handler per subscription, each on a thread of its own |
| LLDP provider | `src/lldp.c`, `src/utils.c` | the XML of `lldpcli`, one `lldp_t` at a time | parse, compute the age, answer, free |
| hardware, bridges | `src/hardware.c`, `src/bridge.c` | values read from a file or from netlink and `bridge -j` | `save_hardware_chassis`, `collect_bridges`, `save_bridges` |
| D-Bus query | `src/dbus_util.c` | none | one method call at start-up, `exit(1)` on failure |
| containers | `lib/hmap`, `lib/sset`, `lib/shash`, `lib/list.h`, `lib/svec`, `lib/dynamic-string` | the data they hold | the usual ones |
| log | `lib/log` | level, quiet flag, lock, table of callbacks; the `struct tm` of `localtime()` | configuration, `log_log` |
| hash, utilities | `lib/hash`, `lib/util`, `lib/unaligned.h` | none | |

(Paths are relative to `src/`, the root of the repository.)

**How they interact.** The main thread calls `collect_*` (netlink, `getifaddrs()`,
`ioctl()`) and hands the result to `save_*`, which sets items in the session and applies
them. All of these share one session, so an edit that one function leaves pending is
committed, or refused, together with what the next function sets; and the store that one
function switches to is where the next one writes. After start-up the main thread refreshes
for ever (`exit_application` is never set), while the threads of the three sysrepo
subscriptions run `provider_cb`. These share `interface_names`, an `sset` over an `hmap`,
with no lock anywhere, and the libyang context they acquire and release; with the main thread
they share the table of descriptors, the life of the process and the `struct tm` in which
`localtime()` leaves the time for their log lines and time stamps.

**What is hard.** The handlers' race on `interface_names`; links that come and go between
the calls that look at them; `sr_apply_changes` that fails and whose edit some functions
discard and some do not; a process that ends at any point and starts again on the running
store it left; descriptors, contexts and memory that are lost on particular paths; maps
that are changed while they are walked; arithmetic and parsing that a test with friendly
input does not reach. `PROJECT.json` lists each with its line under "hazards".

**What makes each part correct.**
- Main thread and session: configuration reaches only the running store and status only
  the operational one; nothing is committed by a function that did not set it, except
  where the code forgets to discard; what is configured for an interface is not removed
  behind its back; a restart ends in a clean store; addresses get published.
- Providers: every request is answered with all ports, the context is released, the
  handlers do not step on each other; where this fails, it is known why.
- LLDP: every neighbour printed is answered once, with the right time-mark, and what
  was allocated for it is freed; again, up to the cases that are stated.
- Address table: every row of `getifaddrs()` ends up under its own interface, in order.
- Bridge VLANs: every kind of entry in its table, no gap, no component lost.
- Containers: a map is a set of nodes whatever its buckets look like; a walk sees each
  node once; sets, maps, vectors, lists and strings do what their headers say.
- Process: a request is answered while the process lives, and reports ports this run has
  configured; what the main thread loses for good is what the handlers lack.
- Log: an event reaches every sink of its level; the time in a line is that of the event
  unless another thread used `localtime()` meanwhile.

## 2. The modules

| module | models | abstract specification |
|---|---|---|
| `Sysrepo` | the session and the stores (external, from its use) | |
| `TsnDaemon` (extends `Sysrepo`) | the main thread, the kernel's links and addresses, crashes | |
| `Providers` | the three handlers and `get_interface_names()` | |
| `ProvidersProofs` | theorems about `Providers` | |
| `System` (extends `TsnDaemon`, composes `Providers`) | the process: main thread and handlers, descriptors, its end | `TsnDaemon` |
| `SystemProofs` (extends `System`, composes `ProvidersProofs`) | theorems about `TsnDaemon` and about `System`, among them that it implements `TsnDaemon` | |
| `NumberProofs` | facts about numbers and sets of them, induction over them, recursive functions, counting by a key | |
| `Hmap` | the data structure of `hmap.c`/`hmap.h` as operators | |
| `HmapWalk` (extends `Hmap`) | a client that walks a map and changes it | `NodeSet` |
| `HmapProofs` (extends `HmapWalk`) | theorems about both, among them that a map implements `NodeSet` | |
| `Sset` (extends `Hmap`) | the calls of `sset.c` on two sets | `NameSets` |
| `Shash` (extends `Hmap`) | the calls of `shash.c` on two maps, a name several times | `NameMaps` |
| `Svec` | the calls of `svec.c` on two vectors | `NameLists` |
| `LinkedList` | the pointers of `list.h` | the history variable `lists` |
| `DynString` | the memory, length and terminator of a `struct ds` | `Texts` |
| `Containers` (composes the five above) | a client of one of them | |
| `ContainersProofs` (composes `HmapProofs`) | theorems about `LinkedList`, `Svec`, `Sset`, `Shash` and `DynString`, as `Containers` uses them | |
| `IpTable` | `update_ips()`: rows, records, memory | |
| `Lldp`; `LldpProofs` | `lldp_port_provider()` and `get_age()`; theorems about it | |
| `BridgeVlans` | `get_bridge_vlan()` and the component loop of `save_bridges()` | |
| `Tables` (extends `IpTable`, composes `BridgeVlans`); `TablesProofs` | both in the order of `main()`; theorems about them | |
| `Log`; `LogProofs` | `log.c`, with `get_iso8601_time()` and the shared `struct tm`; theorems about it | |

`MC<module>` holds what TLC needs to instantiate a module and `MC<module>_<run>.cfg` the
constants. Operators whose comment starts with "Variant" are plausible mistakes in a
definition; each is put in the place of the original to see that a property notices.

### Sysrepo and TsnDaemon

A store is a set of leaves. A leaf is a record of the tree it is in (`lldp`, `interfaces`,
`hardware`, `bridges`), the list entry that owns it and its name; values are left out, so
that to set a leaf again changes nothing. A pending edit is a set of trees to delete and of
leaves to put. `sr_apply_changes` either commits the whole edit or refuses all of it; it
must refuse when an entry of the running store would lack a mandatory leaf (an interface
with an address and no type, say), and may refuse for reasons of its own `MaxRefusals`
times. `MaxFaults` counts calls that fail before anything happens (`sr_set_item`,
`popen`, netlink). A process that ends drops its session with the pending edits, and what
it pushed to the operational store; the running store stays.

`pc` says in which function the main thread is; a step runs from one `sr_apply_changes` or
system query to the next, with everything the code does in between. The order in which a
`SHASH_FOR_EACH` visits entries is left open (`\E i \in todo`). `Crash` ends the process
anywhere, `DbusExit` at the one place where the code itself calls `exit(1)`.

| action | code |
|---|---|
| `Start`, `DeleteLldp`, `DeleteInterfaces` | `main()`, connection and the two deletions, which do not discard |
| `CollectInterfaces`, `SaveInterfaceRunning(i)` | `collect_interfaces()`, `save_interface_running()` |
| `SwitchToOperational`, `SaveInterfaceOperational(i)`, `SwitchToRunning` | `main()`, `save_interface_operational()` |
| `HardwareClass`, `HardwareUnknown`, `HardwareOperational` | `save_hardware_chassis()` with its early returns |
| `CollectIps`, `SaveAddress(i, a)`, `IpsSaved` | `update_ips()`: one apply per address, no discard |
| `DbusQuery`, `CollectBridges`, `DeleteBridges`, `SaveBridge(b)` | `dbus_query()`, `collect_bridges()`, `save_bridges()` |
| `Subscribe`, `Wake` | `data_provider()` |
| `CollectSpeeds`, `SaveSpeed(r)`, `SpeedsSaved` | `update_interfaces_speed()`; `fds` counts the sockets `get_interface_speed()` does not close |

### Providers

One program counter per handler thread; a step runs from one access to shared state to the
next: the test of `interface_names`, `malloc()` (which makes the pointer visible before the
set is initialised), `sset_init()`, the link table, each `sset_add()`, each visit of
`SSET_FOR_EACH`. What is read from memory another thread is writing is undefined: a walk
over a set that has been written (`torn`) may see any part of it, go on to ports it has visited,
for ever, or crash; two threads that add at once may lose elements or leave the set `broken`, and
the search of `sset_add()` in such a set may go round in a chain (`AddNameLoops`, the label
`searchLoop`, which has no step).

`overlap`, `changed` and `late` record whether two threads were building at once, a port
vanished or appeared too early, or appeared afterwards; `flawed`, that the third handler crashed on
a neighbour without what it follows untested (`LldpCrash`; module `Lldp` has the neighbours, here
lldpd may have one at any time). So `CrashNeedsCause` of this module names the cause and module
`Lldp` says what it is.

An answer is what the loop keeps (`start`, `oper_state`) and its entries. Of the values only the
operational state is told apart. Its `switch` has no value for a port in `Odd` (a state outside the
seven known ones): such a port reports the state of the port visited before, which `OperState`
carries along; and if it is the first, the value is the empty string, which `lyd_new_path()`
refuses. The result is ignored and `start` is cleared all the same, so `*parent` stays NULL and
every later call is refused too (`Accepted`, `Report`): the answer has no entry at all.
`AnswersComplete` says that these are the only two ways in which an answer differs from the kernel.

### System

`System` puts the main thread and the handlers side by side. They meet in three places. The
kernel's links are one variable. The process is one: a crash of a handler or its `exit(-1)`
ends the main thread, and the reverse, with what `TsnDaemon` says of the session. And the table of
descriptors is one: `InUse` counts what `get_interface_speed()` has lost for good and the
sockets handlers have open; at `FdLimit` a handler's `nl_connect()` or `popen()` fails, an early
return for the first socket and `exit(-1)` for the one of `get_interface_names()`. Both may
also fail while descriptors are left. A request
arrives only for a subscription the main thread has made. Addresses and bridges, which the
handlers do not look at, are empty in its run; the theorems do not assume that.

### Hmap, HmapWalk and the containers

A map is the array of chains, the mask and the count; nodes carry a hash given by a constant
function with collisions. The operators are those of the header, step by step (insertion at
the head of a chain, growth on insert; `resize()` is `Refilled`, a new table into which the nodes of the
old one are inserted in the order of its chains). `HmapWalk` is a
client in an `HMAP_FOR_EACH` or `HMAP_FOR_EACH_SAFE` loop whose body inserts (with or without
growth), and removes the node it is at or, without SAFE, any node: `ahead` is the pointer the loop will follow.
Replacing and clearing are outside the loop, as a client must do it. `Sset` composes two maps
with the calls of `sset.c`, including the ones whose work is inside `assert()`; `NDEBUG` is
a constant. `Shash` does the same for maps: a node has a name and data, a name may be in several
nodes, and what a search finds among them depends on the chains.

`Svec` keeps the slots below `n`, the number allocated and the number of strings on the heap;
strings are numbers in the order of `strcmp()`; `svec_sort()` is stated by its result,
a sorted rearrangement, as `qsort()` is not the program's. `svec_diff()` is its loops, one round (`Merge`)
at a time. `LinkedList` is the memory of prev and next pointers, changed assignment by
assignment; the history variable `lists` holds the sequence that each ring was promised to be,
and no step reads it but to choose legal arguments. `DynString` keeps the bytes below `length`,
the allocation, and whether the byte at `length` is NUL, which `ds_clear()` does not write; a C
string is read up to its first NUL. `Texts` demands that it is the text put, that every write
stays in memory, and after `ds_get_preprocessed_line()` the line up to its comment.

### IpTable, BridgeVlans, Tables, Lldp, Log

`IpTable` chooses the rows of `getifaddrs()` freely, reads them one at a time, saves the
records and calls `ip_destory()`; `heap` holds the blocks allocated and not freed.

`Lldp` lets the clock and lldpd go on between the steps of a request. A document is what
`lldpcli` knew when it ran; each `<interface>` is read child by child into one `lldp_t`, then
answered and destroyed. Structs are counted by kind; strings go with the struct that holds
them. `age_str2num` is the loop of `utils.c` written out, with its early returns; from two days on
`lldpcli` prints "days,", which it does not find. The handler crashes on a neighbour without age,
rid, chassis, port or port id, or with a short id (`Followed`, `ReportCrash`). An id that is no MAC
makes an invalid key: `lyd_new_path()` refuses the neighbour, and if it is the first one
(`first`) `*parent` stays NULL and all others are refused too (`Accepted`).

`BridgeVlans` takes every sequence of entries up to a length, with ids that are not numbers,
flags that are missing, not an array, or any subset of the two that matter. `Tables` runs
`update_ips()` once, collects, saves and frees a bridge, and goes on with `update_ips()`.

`Log` lets threads log and ask for the time while the clock goes on. A step runs from one use of
shared state to the next: the lock, the clock, each of the two parts of the `struct tm`
`localtime()` fills (hour and rest), each output. The configuration is chosen before the first event, as the
program does. `mixers` and `oldest` record which other threads have filled the struct since a
thread read the clock; `StampsExplained` says that a stamp is right if there were none, and of
the range it can be wrong in if there were.

## 3. The runs

| run | question | bounds | states |
|---|---|---|---|
| `daemon_safety` | what can be in which store and pending, on any path | 2 interfaces, 1 address each, 1 bridge, 1 failed call, 2 refusals, 2 leaked descriptors | 3.5 M |
| `daemon_liveness` | are addresses published; what does one deaf driver do | 2 interfaces, 1 address, no bridge, 1 refusal | 30 k |
| `system_process` | main thread and handlers: answers, contexts, descriptors, the end of the process; is every request answered | 1 interface, deaf, 3 descriptors, 3 threads, 2 failed calls of handlers | 489 k |
| `providers_sharing` | how far does the unlocked list hurt, what is answered | 3 threads, 2 ports, 1 in a state without a name, no failed call | 12.3 M |
| `providers_unlocked` | is the list used without a lock by two threads (**violated**) | 3 threads, 2 ports | stops at the violation |
| `hmap_walk` | walks and their end, positions, load, refinement of `NodeSet` | 5 nodes with 4 hashes, reservation of 8 | 77 k |
| `containers` | does each container keep its promise | 4 names in 2 sets; 4 nodes of 2 names in 2 maps; 2 names and 3 slots in 2 vectors; 4 elements in 2 rings; strings of 12 | 53 k |
| `sset_release` | the asserting calls with `NDEBUG` (**violated**) | 4 names in 2 sets | stops at the violation |
| `tables_startup` | is every row saved once, in its place; tables of a bridge against the reference, its components | 3 links, 2 addresses, 3 rows, 2 rounds; 2 ids, 2 slots, 3 entries | 0.9 M |
| `iptable_memory` | does a round free what it allocated (**violated**) | 1 round | stops at the violation |
| `lldp_neighbours` | neighbours, time-marks, memory, crashes | 2 ports, 6 kinds of neighbours, 2 requests, 3 advances of the clock | 3.7 M |
| `log_stamps` | which sinks get an event, what a time stamp can be | 2 threads, 2 levels, 2 callbacks, hours of 2 ticks, 3 ticks | 5.3 M |

**Why the bounds are enough.** The daemon treats interfaces alike and never relates more than
two of them: one whose publication failed and one that suffers from it. One address for each
suffices for an edit that is left pending and carried along. Two refusals are what separates
"the deletion goes out later" from "the deletion is lost"; a third repeats the second.
`FdLimit` only shortens the way to a process without descriptors. Two ports make a list that
can be half built. Two nodes with one hash, one that shares their bucket at four buckets and
not at eight, and two elsewhere give chains of every shape, growth and shrinking. Two slots
and three entries fill a table and overflow it. Three rows give each interleaving of two
ports and a foreign row. The two advances of the clock cross an hour and a day, and two of the
second make the two days from which `lldpcli` prints "days". Two neighbours of six kinds give each
kind before and behind each other; the two ports are symmetric, as nothing tells them apart.

One port makes two handlers and the main thread meet in every shared place of `System`; that
ports suffer from each other is the question of `providers_sharing`. Three nodes of one name
and one of another with the same hash are the fewest for two maps of equal size of which one
has a name twice; symmetry over these three, and over the two strings of one hash in the sets, is sound, as nothing
orders them.
Two names with repetitions in vectors of three give every pair of runs a merge can meet. Four
elements in two rings give a splice before, behind and across rings, with a rest on both sides.
A string of eight fills the first allocation, one more character leaves it, and a clone has no
byte to spare.

`Containers` uses one container in each behaviour and leaves the others empty. They share no
state, so that is no restriction, and five small state spaces are added instead of multiplied.
`ImplementsNameSets` and the other promises are those of the module of each container.

**What the violated runs show.** They are disagreements between the code and what the
repository says of it, listed under "findings":
1. `providers_unlocked`: `hmap.h` says that a map needs a lock, and two first requests work
   on one map without any. `providers_sharing` limits the damage: once the list is complete
   no step writes it again (`WarmListIsStable`), so only first requests are exposed.
2. `sset_release`: the comment of `sset_add_assert()` says that it adds; in the Release build
   the README describes the addition is compiled away with the assertion.
3. `iptable_memory`: `ip_destory()` returns when its argument is *not* null, so each second
   all records and addresses of the round are leaked.

**Facts that hold and are worth knowing.** `StaleConfigNeedsTwoFailures`: an interface that
no longer exists survives a restart only after two refusals or a failed call.
`PoisonFreezesRunning`: once `save_ips()` carries an edit without the interface's type no
address is ever published again in that run. `DeafPortSilencesDaemon`: one port whose driver
does not answer silences the daemon for good. `MarkDrift`: time-mark is right, up to the
handler's own delay, in a neighbour's first hour; then it is earlier than the truth by a minute per
hour and 2904 seconds for the first day, and from the second day on it is the time of the request,
since the age is taken to be 0. `NeighboursAnswered` and `AnswersComplete`: one neighbour
whose port id is no MAC, or one port in a state without a name, empties the whole answer if it comes
first, and does no such harm anywhere else.

`AnsweredPortsAreConfigured`: a port is reported only if this run has configured it. `CrashNeedsCause`
of `System`: unless two threads built the list at once, a link came or went at the wrong time, or
lldpd has a neighbour that says too little of itself, the process ends only if a call of a handler
fails while descriptors are left, or the main thread has lost some: the sockets of the handlers
alone do not use them up. `RequestsAnswered`: a request is answered, whatever calls fail, unless
the process ends or two writers have broken the list (`Lost`). `DeafPortSilencesHandlers`: the deaf port of the
last paragraph ends the service of the handlers too. `StampsExplained`: a log line can carry the
hour of one thread's time and the minutes of another's; the lock of the log does not help, as
`get_iso8601_time()` does not take it. `ImplementsNameMaps` promises of `shash_equal_keys()` less than its
comment for maps that hold a name twice: {x, x} and {x, y} have the same number of nodes and
compare equal, in one direction. `ImplementsTexts` leaves open what follows a comment that
`ds_get_preprocessed_line()` cut off, because `length` still counts it.

**Deadlock** is checked except where the system really stops: `Providers`, the containers and
`Lldp` after a crash or an abort, `Lldp`, `IpTable` and `Tables` when their bounded requests
and rounds are used up.

**Fairness.** `TsnDaemon!FairSpec` has weak fairness of the main thread as a whole, which is
what a scheduler gives a thread that is never blocked by others; nothing is assumed of the
kernel, of refusals or of crashes, and the two liveness properties state as premises what they need
(the process keeps running, an address stays, descriptors are left).
`System!FairSystem` has weak fairness of the threads of the two handlers whose answers
`RequestsAnswered` is about, and of the main thread, which
`DeafPortSilencesHandlers` needs to lose descriptors at all; nothing is assumed of the third handler,
requests, links, failing calls, `kill` or a restart. `HmapWalk!FairSpec` says that a client does not
abandon its loop.

## 4. The proofs

A theorem holds for every value of the constants that the assumption of its module admits.
These assume no more than that sets are finite where they are counted, that bounds are
numbers, and that the value used for a null pointer is not also a port or a thread:

| assumption | what it says beyond types |
|---|---|
| `DaemonAssumption`, `SysrepoAssumption` | there are finitely many interfaces; an address is not called like another leaf |
| `ProvidersAssumption` | `NULL` is neither a port nor a handler |
| `SystemAssumption` | there are more than two descriptors; `None` is no subscription |
| `HmapAssumption`, `ReservationsAssumption` | hashes and reservations are numbers; `NULL` is no node |
| `IpTableAssumption`, `TablesAssumption` | a known port is a link; VLAN ids are positive numbers; what stands for missing flags is no set of flags |
| `LldpAssumption` | `NULL` is no time, port, age, child or neighbour |
| `LogAssumption` | an hour has at least one tick |
| `ContainersAssumption` | of the lists: there are finitely many nodes, none is both element and head, and `NULL` is no list; of the vectors: strings are numbers, and `NULL` is none; of the sets and maps: hashes are numbers, `NULL` is no node but may be data, and nodes of one name have one hash; of the strings: what is put or read are texts over some characters, without a NUL, and an escape is such a text |

Each inductive invariant below was first checked by TLC, conjunct by conjunct, on the
instance of the run of its module.

### The main thread: the first part of SystemProofs

`TypeCorrect`, `HomeDatastoreHolds`, `StoresStaySeparate`, `CarryOverHolds` are the invariants
`TypeOK`, `HomeDatastore`, `StoreSeparation` and `CarryOver` of `daemon_safety`;
`SettledConfigHolds` and `PoisonFreezesHolds` its two action properties. None of the
invariants is inductive alone. That a function writes configuration into the
running store needs that the session is there, that `save_ips()` leaves only the leaves of
known interfaces pending needs that the rows it visits are those of known interfaces and that
`interfaces` is empty before it is collected; that switching back restores the right store
needs that `update_interfaces_speed()` saved it. So the invariant is

    IInv == TypeOK /\ Discipline /\ Stages /\ DeletionUnsettled

where `Discipline` joins the three store properties, `Stages` says what holds at which
`pc`, and `DeletionUnsettled` that a deletion of the interface tree is pending only before
the first interface has been visited. `SettledConfigHolds` rests on the last one: after
that point no commit can carry a deletion.

The argument separates what a call to sysrepo can do from where the program calls it.
`CommitEffect`, `RefuseEffect`, `ApplyEffect`, `SetEffect` and `DeleteEffect` bound what a
call adds and removes in the current store and its edit; `RunningStep` and
`OperationalStep` turn such an effect into the preservation of `StoreSeparation` and
`CarryOver`; then there is one step for each action (`PrologueStep` to `EndStep`, and
`LinksStep`), joined in `NextInv`. The action properties use `EffectTouches`,
`SetTouches` and `DeleteTouches`: what a step removes it has a deletion for.

The proofs of this part do not cite `SystemAssumption`: the theorems hold of the main thread with
or without handlers.

`NothingPendingHolds` and `StaleConfigHolds` count failures. To the invariant above they add

    CInv == StoreValid /\ NothingSet /\ Turns /\ Unspoilt /\ Cleared

The running store is valid at any time, because sysrepo checks what it commits
(`StoreValid`). So an edit whose result is valid can be refused only for a reason of
sysrepo's own, which `refusals` counts: `RunningCall` says this once for every call of the
program. Without failures, then, each interface that has been visited has its type and
what `save_ips()` sets is valid (`Unspoilt`). `Cleared` follows the entries of an earlier
run: the deletion of the interfaces is committed at once, or after one refusal together
with the next interface, unless a second one loses it for good.

### The handlers: ProvidersProofs

    Basics  == TypeOK /\ ContextBalanced /\ Shape

says how many contexts a handler holds and which pointers are set where it follows them.
What a handler knows of the others is

    Orderly == (Calm => Order) /\ (Quiet => Complete /\ (alive \/ flawed))

`Calm` means that no two threads have built the list at once and the ports have not changed
at a wrong time. Then (`Order`) while one builds, no other builds or walks; the list has
known ports only; and a walk is over that list, has met none of it twice and has given each
port the value it may have. So nobody goes round in it or crashes (`NoCrash`). `Quiet` adds that
no call has failed; then the process lives unless a neighbour was flawed, and (`Complete`) no port
is missing from the list or from an answer, but for one that is `Barren`: it has been refused its
first entry. What the loop knows is `Stated`: an answer with entries knows the state of
the last one, so nothing is refused any more, and an answer without any can only have been refused
a port in `Odd`; `ReportAnswer` is the step.
From it follow `CrashNeedsCauseHolds`, `AnswersCompleteHolds` and the action property
`WarmListHolds`: a list that is complete is not written again, by any handler. That an answer
gives a port in an unknown state the state of the one before it (`EntryAnswer`) is an argument about
the last record with a known state, which needs the greatest element of a set of positions; that, and
induction, is in `NumberProofs`.

### The process: the second part of SystemProofs

Each step of the process is a step of the main thread, one of the handlers, one of
both when a link comes or goes, or the end of both. So

    SystemInv == MainInv /\ HandlerInv /\ Dormant /\ Reset /\ Agreed /\ Surviving

takes the invariants of the two parts as they are. `Dormant` and `Reset` tie the lives of
the two together: there is no handler at work before the subscriptions and none of its memory
after a restart. `Agreed` says that both have seen the same links, as long as these
did not change, and gives `AnsweredPortsHolds`; `Surviving` that a handler finds a descriptor
as long as the main thread has lost none (`SocketsEnough`), so that only a call that fails for another
reason or a flawed neighbour ends the process; it gives `SystemCrashNeedsCause`.

`SystemImplementsDaemon` is the refinement `SystemSpec => Spec`: a step of a handler alone
leaves the main thread where it is, and its end is a `Crash`, so the theorems about the
store, which know nothing of handlers, hold of the process.

### The logger: LogProofs

    LogInv == TypeOK /\ Stamps /\ Sinks

`Stamps` says for each thread where it is (`Place`), that a field it has printed or could read
from the `struct tm` is its own unless another thread has filled it since, and if so
between the oldest of their times and now (`Fields`, `Own`), and what the lock excludes
(`Locked`: of two loggers one is waiting, `LoggersExcluded`). `MixStamp` is the heart of it: what a thread that
fills the struct does to all the others. The bound on a mixed stamp, an hour of one time and
the minutes of another, needs arithmetic: `SameHour` splits times by `Hour`, whatever its
length. `Sinks` says which outputs have got the event so far. Together they give
`StampsExplainedHolds` and `SinksHolds`.

### The tables: TablesProofs

    TablesInv == RowInv /\ VlanInv

`EveryRowSaved`, `TablesInOrder` and `PlainBecomeComponents` say where an item is in its table by its
rank: how many of its kind have been read up to it. So the invariant is that of the table
read so far (`Lists`, `Holds`), and a step adds one position to a set (`RankNext`): the item
that is read has the next rank, and the others keep theirs. A table is filled from the
front (`FilledFront`), because there is an item of every rank (`RankOnto`, by induction on the
number of entries) and every id is positive; so the first empty slot is the one behind the
last id (`PutIs`), and where `save_bridges()` stops there is no id behind (`SavedAll`).

### The LLDP answer: LldpProofs

    LldpInv == TypeOK /\ Clocked /\ Placed /\ Memory /\ Reading /\ Crashed /\ MarkDrift
                 /\ Answering

`Memory` counts structs by kind: what is on the heap is what the `lldp_t` holds, or more once
something was forgotten. `ReadMemory` shows that reading one child keeps this, `NoLeakHolds`
is the sum of it, and `LldpTypeCorrect` contains that `lldp_destroy()` never frees more
than there is. `Reading` says that of each kind the pointer is to the last child read, so
that the neighbour for which the handler dies has none (`LldpCrashNeedsCause`). `AgeDrift` proves the
error of time-mark for an age of any length and `MarkDriftHolds` for every answer. `Answering`
says which of the neighbours of the document are still to come, at hand or done, and that of those
done the answer has the ones with a MAC, or none if the first had no MAC: once the first neighbour
is in the answer `*parent` is there (`ReportAnswering`). At the end of the document that is
`NeighboursAnsweredHolds`.

### The linked lists: ContainersProofs

`RingsAreLists` speaks of one ring at a time, and so is not inductive: a call writes into
nodes of two rings, and keeps the others only because no element is in two of them. So the
invariant is

    Good(mem, lists) == mem and lists have their types /\ Apart(lists)
                          /\ each list in use is Linked

where `Linked` gives both pointers of every node of a ring, its head included, and `Apart`
says that no element is twice in the lists. Every call but `list_init()` is made of two
operations on memory: to cut a run of elements out of a ring (`CutAt`, two pointers) and to
paste a loose run into one (`PasteAt`, four pointers). `CutGood` and `PasteGood` show what
these do to the invariant, with lists known only by the elements at their places (`IsCut`,
`IsPaste`); `InsertGood`, `RemoveGood`, `ReplaceGood`, `SpliceGood` and `MoveGood` that the
functions of `list.h` are made of them, with the very pointers they read: that
`list_splice()` reads `before->prev` after it has cut is why it may splice a list into
itself. `CutPromise` and `PastePromise` are the facts about sequences that the promised
lists rest on. Then there is one lemma for each call (`InsertKeeps` to `PushBackAllKeeps`),
and an element that is in no ring may hold anything (`WriteGood`). That `list_size()` counts
the elements (`ListSize`) follows its walk by induction on the number of steps, and
`list_is_short()` may compare two pointers because the elements are different nodes.

### The vectors: ContainersProofs

    VecGood(v, w, strings) == v \in Fitting /\ w \in Fitting
                                /\ strings = Len(v.names) + Len(w.names)

`VectorsOwnStrings` is inductive once it is known what each call does to the number of
strings of a vector. For most calls that is one line (`VecAdd`, `VecCut`, `VecSort`); for
`svec_append()`, `svec_unique()`, `svec_compact()` and the merge of `svec_diff()` it is a
fact about a loop, proved by induction on its rounds (`VecAppend`, `VecUnique`, `VecCompact`,
`VecMerge`, `VecDiff`): no round adds a string to more than one vector, none writes
behind the memory that `svec_expand()` has got. `VecAccount` is the balance of a step.

### The dynamic strings: ContainersProofs

    Sound == the strings without memory, which are empty, and those whose bytes lie inside it

The invariant (`TextsGood`) is that the string is sound and the flag of the assertion a
Boolean; nothing is asked of the terminator, which `ds_clear()` and `ds_clone()` leave out.
`Wrote(d, w, s)` says that a call made `w` of `d` by writing `s` behind its bytes, into memory that
is there. It is shown for each way of putting: the fast path of `ds_put_char()`, which needs one
byte for the character and not one more for the terminator, `ds_put_uninit()`
and the two tries of `ds_put_format()`, whose assertion is that the second one fits (`TextPut`,
`TextPutChar`, `TextPutFormat`). `ds_put_printable()` and `ds_get_line()` put one character after
the other and are followed by induction on the characters (`TextPutPrintable`,
`TextGetLine`); what has been reserved before may be short, and that never shows.
`TextCut` says what a reader sees of a line whose comment has been cut off with a NUL, and
`TextUsefulLine`, by induction on the lines of a file, that `ds_get_preprocessed_line()` stops at the
first line that is not blank without its comment. `StringsImplementTexts` is the refinement of
`Texts`.

### The hash map and its walks: HmapProofs

    Inv == Good(map) /\ WalkTypes /\ ~twice /\ NothingDue /\ AheadHeld /\ Walking
             /\ LoadBounded

`Good` says of the chains what `WellFormed` says of the traversal: each node is in the chain
its hash selects, once, and `n` counts the nodes found. There is one lemma for each function
of `hmap.c` that changes a map (`InsertFastGood` to `ClearGood`): it keeps `Good`, and the
nodes found are the old ones with, or without, its own. `RefilledGood` is the one for a
reallocation, by induction on the nodes that have been moved, for any number of them and
any two sizes; that `calc_mask()` yields a mask with a power of two behind it, never 1, and
as large as was asked (`CalcMask`) rests on the numbers of its shifts (`LowBitsFacts`), and
gives `LoadIsBounded`.

`Flattened` describes the traversal by the place at which each chain begins (`IsLayout`), so
what holds of the chains holds of it (`GoodIsWellFormed`): this gives `TypeCorrect`, and
`PositionsOfGood`, that `hmap_at_position()` goes from each place to the next, gives
`PositionsAgree`.

`VisitedExactlyOnce` is not inductive. `Rest` is the set of nodes the walk would still meet:
behind the pointer it holds, in its chain and in the buckets after. `Walking` says that what is
due is in `Rest`, what has been visited is not, and that what has been visited is in no
later bucket than the cursor: so a node that the loop removes and inserts again, at the head
of its chain, comes to lie behind the walk and not ahead. `AheadHeld` says that the pointer a SAFE walk
holds, or that of a removed cursor, still leads into the map. A step that inserts
(`BehindInsert`), unlinks (`BehindRemove`, `UnlinkKeepsWalking`) or goes on (`AfterLeads`,
`AdvanceStep`) keeps this; a reallocation ends what is promised (`ResizeStep`). After the last
node `Rest` is empty, so nothing is due: `WalksVisitOnce`. The theorem covers a walk whose
body removes any node but the one the loop holds a pointer to, and inserts any node but the
cursor: these are the guards of `HmapWalk`, which the comments of `hmap.h` ask of a client.

`MapImplementsSet` is the refinement: a step of the map is the step of `NodeSet` on the nodes
found, or leaves them as they are.

### The sets of strings: ContainersProofs

    SetsGood(s, o, stopped) == Good(s) /\ Good(o) /\ stopped \in BOOLEAN

where `Good` is that of `HmapProofs`, instantiated with the strings as nodes.
`SetsImplementNameSets` is the refinement: with the names in the chains for the abstract sets,
a call is the call of `NameSets`, its result and its assertion included. `NameSets` knows no
hash, so what has to be shown is that a hash never decides. `SearchSolved` of `HmapProofs`
says it of the search: the nodes behind the first one of a hash in its chain are visited until
one fits, none of that hash is passed over, and the search ends within as many steps as there
are nodes. `FillingSolved` and `EmptyingSolved` say what a loop over the nodes of a map
leaves when it inserts each into a second map, or removes some, in whatever order the
traversal delivers them. Each of the three is stated of the equation of a recursive function, that
it has a solution and that each solution ends right, by induction on the rounds: so it
applies to the functions of `Sset` and `Shash` although these are defined on their own.
`SetContains` to `SetPop` are the functions of `sset.c`; `sset_equals()` may look up the names
of one set only, because the counters are equal and the sets finite.

### The maps from strings: ContainersProofs

    MapsFit(s, o, d) == Good(s) /\ Good(o) /\ no node is in both /\ d has a value for each node

The invariant (`MapsGood`) adds that the flag of the assertion is a Boolean. That no node is in
both maps is what makes an assignment to the data of a node in the one leave the entries of
the other alone (`EntriesElsewhere`), and a node that is free a new entry. The calls are made of
four changes, each with its effect on the entries: `MapAdd`, `MapUnlink`, `MapRewritten`
and `MapClear`. A name may be there several times; `MapFind` says that a search finds one of
its nodes whenever there is one, and `MapNamed` that the abstract map then has that entry.
`MapsEqual` is what `shash_equal_keys()` can be trusted for: the two maps have as many nodes and
each name of the first is in the second. If no name is twice, that makes the sets of names
equal (`UniqueKeys`); two maps with the same names, each as often, are found equal
(`SameFibres`). `MapsImplementNameMaps` is the refinement of `NameMaps`.

### What is only model-checked

- Liveness, which is beyond TLAPS: `AddressesPublished`, `DeafPortSilencesDaemon`,
  `RequestsAnswered`, `DeafPortSilencesHandlers`, `WalkTerminates`.
- The promise of the vectors, `ImplementsNameLists`. What it says of results needs the order in
  which `svec_diff()` meets two sorted vectors, and bags. `NumberProofs` has what recursive
  functions need (`Iteration`, `Recursion`), so this is work and not out of reach, but where
  an operator is a fold of the library.
- The three runs whose property is violated.


## 5. What is not modelled, and the plan

Not modelled:
- the text of leaves and messages, JSON and XML syntax, the D-Bus messages;
- `lib/hash.c` and `lib/hash.h`: any hash function is admitted, which is more than they are;
- `xmalloc()` has no `return`: every container that allocates through it relies on what the
  compiler leaves in the return register. The models take the pointer of `malloc()`, which is
  what compilers that do not exploit the missing statement produce;
- byte access in `lib/unaligned.h`, compiler macros, the build;
- of the containers: `hmap_moved`, `hmap_random_node`, `shash_moved`, `shash_sort`, `sset_sort`,
  `sset_array`, `sset_join`, `sset_from_delimited_string`, `svec_print`, `svec_join`,
  `ds_put_utf8`, `ds_put_hex`, `ds_put_hex_dump`, `ds_swap`: they copy a struct, only read, or
  compose calls that are modelled. `vsnprintf()` does not fail;
- the formats of MAC addresses and `get_prefix_len()`: pure conversions without branches that matter;
- of the answers: `lyd_new_path()` does not run out of memory, and the pointer that sysrepo passes for
  the tree is NULL; the statistics of a port are always values of their types;
- of the XML of `lldpcli`: two `<auto-negotiation>` elements in one port, of which
  `get_port_from_node()` would leak one. `lldpcli` prints the two colons of an age; the run has no
  neighbour with fewer, which `age_str2num` and `LldpCrashNeedsCause` cover;
- `src/repo.c`, `lldp_node_destroy`, `swp_str`: nothing calls them.

The order of the work was: the main thread and its session, which is the program's purpose;
its invariants and their proofs; the concurrent handlers; the containers both rest on; the
pure parts; the process as a whole, the time stamps, and the rest of the containers; the
proofs about handlers, process, logger, tables, LLDP and lists; those about the hash map, its
walks, the vectors, the sets and maps that are made of hash maps, and the strings. What is left
is one proof: `ImplementsNameLists`, the merge of two sorted vectors against the bags of their
names.
