------------------------------- MODULE System -------------------------------
(***************************************************************************)
(* The whole process: the main thread (TsnDaemon) and the threads that     *)
(* serve requests (Providers).  They share the ports of the kernel, the    *)
(* life of the process and its table of descriptors, which the main thread *)
(* fills for good and the handlers need for their netlink sockets.         *)
(***************************************************************************)
EXTENDS TsnDaemon

CONSTANTS
    Odd,
    MaxHandlerFaults     \* bound: calls of handlers that fail, per run of the daemon

\* The sockets of two handlers are within the limit of descriptors.
ASSUME SystemAssumption ==
    /\ Odd \subseteq Ifaces
    /\ FdLimit > 2
    /\ None \notin Subscriptions
    /\ MaxHandlerFaults \in Nat

VARIABLES
    alive, interface_names, sets, hpc, cache, fillCache, fill, names, htodo, torn,
    reply, held, hfaults, overlap, changed, late, flawed     \* of Providers

P == INSTANCE Providers WITH
         pc <- hpc, todo <- htodo, faults <- hfaults,
         MaxFaults <- MaxHandlerFaults, NULL <- None

main == <<session, local, addresses>>
handlers == <<alive, interface_names, sets, hpc, cache, fillCache, fill, names, htodo,
              torn, reply, held, hfaults, overlap, changed, late, flawed>>
systemVars == <<main, links, handlers>>

-----------------------------------------------------------------------------
(* Descriptors: those the main thread has lost, the link socket of each    *)
(* handler and the second socket of get_interface_names().                 *)

InUse ==
    fds + Cardinality({t \in P!NameProviders : hpc[t] \notin {"idle", "acquired"}})
        + Cardinality({t \in P!NameProviders :
                       hpc[t] \in {"allocCache", "nameIndex", "fill", "searchLoop"}})

Exhausted == InUse >= FdLimit

-----------------------------------------------------------------------------
SystemInit == Init /\ P!Init

\* A request arrives for a subscription sysrepo has; one more call may then fail.
Request(t) ==
    /\ t \in subs
    /\ hfaults + Cardinality({u \in P!Threads : hpc[u] # "idle"}) < MaxHandlerFaults
    /\ P!Request(t)
    /\ UNCHANGED main

\* The first step of a handler opens its socket (or the pipe of popen()), which may
\* also fail for other reasons than the descriptors.
OpenSocket(t) ==
    /\ hpc[t] = "acquired"
    /\ \/ P!ReturnEarly(t)
       \/ /\ ~Exhausted
          /\ IF t = "lldp-port" THEN P!LldpAnswer \/ P!LldpCrash ELSE P!AllocCache(t)

\* get_interface_names() opens the second one, and exits if it gets none.
OpenSecondSocket(t) ==
    /\ hpc[t] = "connect"
    /\ P!ConnectExit(t) \/ (~Exhausted /\ P!Connect(t))

HandlerStep(t) ==
    /\ alive
    /\ UNCHANGED main
    /\ \/ OpenSocket(t)
       \/ OpenSecondSocket(t)
       \/ hpc[t] \notin {"acquired", "connect"} /\ P!Handler(t)

\* getifaddrs() and popen() may also lack what the handlers hold for the moment.
MainStep ==
    /\ alive
    /\ UNCHANGED handlers
    /\ Daemon
    /\ faults' # faults => Exhausted /\ pc \in {"collectIps", "collectSpeeds"}

\* The process ends, with all its threads: because it is killed, because the bus
\* does not answer, or because a handler has crashed or called exit().
ProcessEnds ==
    /\ IF alive THEN Crash \/ DbusExit ELSE End
    /\ alive' = TRUE
    /\ interface_names' = None
    /\ sets' = [t \in P!NameProviders |-> P!NoSet]
    /\ hpc' = [t \in P!Threads |-> "idle"]
    /\ cache' = [t \in P!NameProviders |-> {}]
    /\ fillCache' = [t \in P!NameProviders |-> {}]
    /\ fill' = [t \in P!NameProviders |-> {}]
    /\ names' = [t \in P!NameProviders |-> None]
    /\ htodo' = [t \in P!NameProviders |-> {}]
    /\ torn' = [t \in P!NameProviders |-> FALSE]
    /\ reply' = [t \in P!NameProviders |-> P!NoReply]
    /\ held' = [t \in P!Threads |-> 0]
    /\ hfaults' = 0
    /\ overlap' = FALSE
    /\ changed' = FALSE
    /\ late' = {}
    /\ flawed' = FALSE

\* While the daemon is down nobody notices what the kernel changes.  Nothing but the main
\* thread looks at addresses, so they are left alone here, and change in TsnDaemon.
KernelStep ==
    \E i \in Ifaces :
        \/ LinkAppears(i) /\ IF pc = "down" THEN UNCHANGED handlers ELSE P!LinkAppears(i)
        \/ LinkVanishes(i) /\ IF pc = "down" THEN UNCHANGED handlers ELSE P!LinkVanishes(i)

SystemNext ==
    \/ \E t \in P!Threads : alive /\ Request(t)
    \/ \E t \in P!Threads : HandlerStep(t)
    \/ MainStep
    \/ ProcessEnds
    \/ alive /\ KernelStep

SystemSpec == SystemInit /\ [][SystemNext]_systemVars

\* The main thread and those that serve the two lists of ports are scheduled.
FairSystem ==
    /\ SystemSpec
    /\ WF_systemVars(MainStep)
    /\ \A t \in P!NameProviders : WF_systemVars(HandlerStep(t))

-----------------------------------------------------------------------------
(* Properties *)

\* The handlers and the main thread collect the ports on their own, at different
\* times.  If nothing changed and nothing failed in between, what requests report
\* are ports this run has configured, with their type, in the running store.
AnsweredPortsAreConfigured ==
    ~changed /\ ~overlap /\ hfaults = 0 /\ faults = 0 /\ refusals = 0 =>
        \A t \in P!NameProviders : \A i \in P!Answered(reply[t]) :
            /\ i \in interfaces
            /\ LeafOf("interfaces", i, "type") \in stores["running"]

\* A crash of the process by one of its handlers has a cause in the ports, in what lldpd
\* says of its neighbours, in two first requests at once, in the descriptors the main thread
\* has lost, or in a call that fails though there are descriptors left, as there always are
\* if only the sockets of the handlers use them.
CrashNeedsCause ==
    ~alive => overlap \/ changed \/ flawed \/ fds > 0 \/ (hfaults > 0 /\ ~Exhausted)

\* The libyang context is leaked at most once for each call that failed, also when
\* the calls fail for want of descriptors the main thread has lost.
ContextBalanced == P!ContextBalanced

\* A handler that goes round in a broken list of names, or walks through a torn one.
Lost(t) == hpc[t] = "searchLoop" \/ torn[t]

\* Every request is answered, so that its thread is free again, unless the process ends or
\* the list of names was written by two threads at once; also when the descriptors run out
\* in the middle of it.  (The third handler answers in one step here.)
RequestsAnswered ==
    \A t \in P!NameProviders : []<>(hpc[t] = "idle" \/ ~alive \/ Lost(t))

\* The descriptors the main thread loses to one deaf port end the service of the
\* handlers too: if the process goes on, no later request reaches the link table.
DeafPortSilencesHandlers ==
    \A i \in Deaf :
        <>[](alive /\ serving /\ i \in interfaces /\ i \in links)
        => <>[](\A t \in P!NameProviders : hpc[t] \in {"idle", "acquired"} \/ Lost(t))

=============================================================================
