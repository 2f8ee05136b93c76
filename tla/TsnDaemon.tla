----------------------------- MODULE TsnDaemon -----------------------------
(***************************************************************************)
(* The main thread of tsn-demo (src/src/main.c): it clears what an earlier *)
(* run left in sysrepo, publishes the interfaces, the chassis, the IP      *)
(* addresses and the bridges, subscribes the three providers and then      *)
(* refreshes addresses and speeds once a second, for ever.                 *)
(*                                                                         *)
(* A step goes from one sr_apply_changes (or system query) to the next.    *)
(* Between steps the kernel may add and remove links and addresses, and    *)
(* the process may end at any point; it is then started again and finds    *)
(* the running store as it was.                                            *)
(***************************************************************************)
EXTENDS Sysrepo, FiniteSets

CONSTANTS
    Deaf,          \* links whose driver does not answer SIOCETHTOOL
    FdLimit,       \* bound: descriptors the process can leak before it has none left
    None

ASSUME DaemonAssumption ==
    /\ IsFiniteSet(Ifaces)
    /\ Deaf \subseteq Ifaces
    /\ FdLimit \in Nat \ {0}
    /\ None \notin Ifaces
    /\ "link" \notin Addrs

Subscriptions == {"statistics", "oper-status", "lldp-port"}

VARIABLES
    pc,            \* where main(), or the function it has called, is
    serving,       \* main() is in the loop of data_provider()
    subs,          \* the providers sysrepo has subscribed
    interfaces,    \* main.c: interfaces, filled once by collect_interfaces()
    todo,          \* list entries the current SHASH_FOR_EACH has still to visit
    rows,          \* rows of the last getifaddrs() still to visit
    cur,           \* the entry of ips whose addresses save_ips() is visiting
    savedDs,       \* update_interfaces_speed: the store to switch back to
    fds,           \* descriptors get_interface_speed() never closed
    links,         \* kernel: the ports that exist
    addresses      \* kernel: the addresses of each port

local  == <<pc, serving, subs, interfaces, todo, rows, cur, savedDs, fds>>
kernel == <<links, addresses>>
vars   == <<session, local, kernel>>

-----------------------------------------------------------------------------
Labels == {"down", "deleteLldp", "deleteInterfaces", "collect", "types",
           "statuses", "chassis", "chassisStatus", "collectIps", "saveIps",
           "dbus", "collectBridges", "deleteBridges", "saveBridges", "sleep",
           "collectSpeeds", "saveSpeeds"}

Init ==
    /\ SessionInit
    /\ pc = "down"
    /\ serving = FALSE
    /\ subs = {}
    /\ interfaces = {}
    /\ todo = {}
    /\ rows = {}
    /\ cur = None
    /\ savedDs = "running"
    /\ fds = 0
    /\ links \in SUBSET Ifaces
    /\ addresses = [i \in Ifaces |-> {}]

GoTo(label) == pc' = label

-----------------------------------------------------------------------------
(* main(): connection and session *)

Start ==
    /\ pc = "down"
    /\ GoTo("deleteLldp")
    /\ UNCHANGED <<session, serving, subs, interfaces, todo, rows, cur, savedDs,
                   fds, kernel>>

\* Whatever ends the process; sysrepo drops the session and what it pushed.
End ==
    /\ SessionEnd
    /\ GoTo("down")
    /\ serving' = FALSE
    /\ subs' = {}
    /\ interfaces' = {}
    /\ todo' = {}
    /\ rows' = {}
    /\ cur' = None
    /\ savedDs' = "running"
    /\ fds' = 0
    /\ UNCHANGED kernel

Crash == pc # "down" /\ End

-----------------------------------------------------------------------------
(* main(): removing what an earlier run published.  A failed apply is      *)
(* logged and its edit stays pending.                                      *)

DeleteLldp ==
    /\ pc = "deleteLldp"
    /\ DeleteAndApply("lldp", TRUE)
    /\ GoTo("deleteInterfaces")
    /\ UNCHANGED <<ds, serving, subs, interfaces, todo, rows, cur, savedDs, fds,
                   kernel>>

\* Variant: the deletion is discarded when its apply fails.
DeleteInterfacesDiscards ==
    /\ pc = "deleteInterfaces"
    /\ DeleteAndApply("interfaces", FALSE)
    /\ GoTo("collect")
    /\ UNCHANGED <<ds, serving, subs, interfaces, todo, rows, cur, savedDs, fds,
                   kernel>>

DeleteInterfaces ==
    /\ pc = "deleteInterfaces"
    /\ DeleteAndApply("interfaces", TRUE)
    /\ GoTo("collect")
    /\ UNCHANGED <<ds, serving, subs, interfaces, todo, rows, cur, savedDs, fds,
                   kernel>>

-----------------------------------------------------------------------------
(* Interfaces *)

\* get_interface_speed(): the descriptor is lost when the ioctl fails, which it
\* does for a deaf driver and for a link that has gone.
Leaks(i) == i \in Deaf \/ i \notin links

\* Variants: the descriptor is closed after all; two are lost in one query.
AfterQueryCloses(i) == fds
AfterQueryTwo(i) == IF Leaks(i) /\ fds < FdLimit THEN fds + 2 ELSE fds

AfterQuery(i) == IF Leaks(i) /\ fds < FdLimit THEN fds + 1 ELSE fds

\* collect_interfaces(): every port present, or none when netlink fails.  Each
\* deaf port costs a descriptor.
CollectInterfaces ==
    /\ pc = "collect"
    /\ \/ /\ interfaces' = links
          /\ LET deaf == Cardinality(links \cap Deaf) IN
             fds' = IF fds + deaf < FdLimit THEN fds + deaf ELSE FdLimit
          /\ UNCHANGED faults
       \/ /\ Fail
          /\ interfaces' = {}
          /\ UNCHANGED fds
    /\ todo' = interfaces'
    /\ GoTo("types")
    /\ UNCHANGED <<ds, stores, edits, refusals, serving, subs, rows, cur,
                   savedDs, kernel>>

\* Variant: the type of some interfaces is left out.
SaveInterfaceRunningSkips(i) ==
    /\ pc = "types"
    /\ i \in todo
    /\ \E leaves \in SUBSET {LeafOf("interfaces", i, "type")} : SetAndApply(leaves, FALSE)
    /\ todo' = todo \ {i}
    /\ UNCHANGED <<ds, pc, serving, subs, interfaces, rows, cur, savedDs, fds,
                   kernel>>

SaveInterfaceRunning(i) ==
    /\ pc = "types"
    /\ i \in todo
    /\ SetAndApply({LeafOf("interfaces", i, "type")}, FALSE)
    /\ todo' = todo \ {i}
    /\ UNCHANGED <<ds, pc, serving, subs, interfaces, rows, cur, savedDs, fds,
                   kernel>>

\* Variant: the result of sr_session_switch_ds() is wrong and ignored.
SwitchToOperationalFails ==
    /\ pc = "types"
    /\ todo = {}
    /\ todo' = interfaces
    /\ GoTo("statuses")
    /\ UNCHANGED <<ds, stores, edits, faults, refusals, serving, subs, interfaces,
                   rows, cur, savedDs, fds, kernel>>

SwitchToOperational ==
    /\ pc = "types"
    /\ todo = {}
    /\ ds' = "operational"
    /\ todo' = interfaces
    /\ GoTo("statuses")
    /\ UNCHANGED <<stores, edits, faults, refusals, serving, subs, interfaces,
                   rows, cur, savedDs, fds, kernel>>

\* Variant: sr_discard_changes() is forgotten.
SaveInterfaceOperationalKeeps(i) ==
    /\ pc = "statuses"
    /\ i \in todo
    /\ SetAndApply({LeafOf("interfaces", i, n) : n \in {"status", "speed"}}, TRUE)
    /\ todo' = todo \ {i}
    /\ UNCHANGED <<ds, pc, serving, subs, interfaces, rows, cur, savedDs, fds,
                   kernel>>

SaveInterfaceOperational(i) ==
    /\ pc = "statuses"
    /\ i \in todo
    /\ SetAndApply({LeafOf("interfaces", i, n) : n \in {"status", "speed"}}, FALSE)
    /\ todo' = todo \ {i}
    /\ UNCHANGED <<ds, pc, serving, subs, interfaces, rows, cur, savedDs, fds,
                   kernel>>

SwitchToRunning ==
    /\ pc = "statuses"
    /\ todo = {}
    /\ ds' = "running"
    /\ GoTo("chassis")
    /\ UNCHANGED <<stores, edits, faults, refusals, serving, subs, interfaces,
                   todo, rows, cur, savedDs, fds, kernel>>

-----------------------------------------------------------------------------
(* save_hardware_chassis(): the class in the running store and, only if    *)
(* that was applied, the inventory in the operational store.               *)

ChassisClass == LeafOf("hardware", Chassis, "class")

HardwareClass ==
    /\ pc = "chassis"
    /\ LET e == WithPut(edits[ds], {ChassisClass}) IN
       \/ /\ Commit(e)
          /\ ds' = "operational"
          /\ GoTo("chassisStatus")
          /\ UNCHANGED faults
       \/ /\ Refuse(e, NoEdit)
          /\ GoTo("collectIps")
          /\ UNCHANGED <<ds, faults>>
    /\ UNCHANGED <<serving, subs, interfaces, todo, rows, cur, savedDs, fds,
                   kernel>>

\* lldpcli gives no chassis id, or the class cannot be set.
HardwareUnknown ==
    /\ pc = "chassis"
    /\ Fail
    /\ GoTo("collectIps")
    /\ UNCHANGED <<ds, stores, edits, refusals, serving, subs, interfaces, todo,
                   rows, cur, savedDs, fds, kernel>>

\* Variant: a failed apply returns before the session is switched back.
HardwareOperationalReturnsEarly ==
    /\ pc = "chassisStatus"
    /\ SetAndApply({LeafOf("hardware", Chassis, "inventory")}, FALSE)
    /\ ds' = IF stores' = stores THEN ds ELSE "running"
    /\ GoTo("collectIps")
    /\ UNCHANGED <<serving, subs, interfaces, todo, rows, cur, savedDs, fds,
                   kernel>>

HardwareOperational ==
    /\ pc = "chassisStatus"
    /\ SetAndApply({LeafOf("hardware", Chassis, "inventory")}, FALSE)
    /\ ds' = "running"
    /\ GoTo("collectIps")
    /\ UNCHANGED <<serving, subs, interfaces, todo, rows, cur, savedDs, fds,
                   kernel>>

-----------------------------------------------------------------------------
(* update_ips() *)

AddressRows == {r \in interfaces \X Addrs : r[2] \in addresses[r[1]]}

\* collect_ips(); its result is ignored, so a failure saves an empty table.
CollectIps ==
    /\ pc = "collectIps"
    /\ \/ fds < FdLimit /\ rows' = AddressRows /\ UNCHANGED faults
       \/ fds < FdLimit /\ Fail /\ rows' = {}
       \/ fds = FdLimit /\ rows' = {} /\ UNCHANGED faults
    /\ cur' = None
    /\ GoTo("saveIps")
    /\ UNCHANGED <<ds, stores, edits, refusals, serving, subs, interfaces, todo,
                   savedDs, fds, kernel>>

\* Variant: what is pending is discarded before the address is set.
SaveAddressDiscardsFirst(i, a) ==
    /\ pc = "saveIps"
    /\ <<i, a>> \in rows
    /\ i # cur => \A r \in rows : r[1] # cur
    /\ Apply(WithPut(NoEdit, {LeafOf("interfaces", i, n) :
                                  n \in IF i = cur THEN {a} ELSE {"mtu", a}}), TRUE)
    /\ rows' = rows \ {<<i, a>>}
    /\ cur' = i
    /\ UNCHANGED <<ds, faults, pc, serving, subs, interfaces, todo, savedDs, fds,
                   kernel>>

\* save_ips(): one apply for each address, the MTU of the interface travels with
\* its first one.  Nothing is discarded when the apply fails.
SaveAddress(i, a) ==
    /\ pc = "saveIps"
    /\ <<i, a>> \in rows
    /\ i # cur => \A r \in rows : r[1] # cur
    /\ SetAndApply({LeafOf("interfaces", i, n) :
                        n \in IF i = cur THEN {a} ELSE {"mtu", a}}, TRUE)
    /\ rows' = rows \ {<<i, a>>}
    /\ cur' = i
    /\ UNCHANGED <<ds, pc, serving, subs, interfaces, todo, savedDs, fds, kernel>>

IpsSaved ==
    /\ pc = "saveIps"
    /\ rows = {}
    /\ cur' = None
    /\ GoTo(IF serving THEN "collectSpeeds" ELSE "dbus")
    /\ UNCHANGED <<session, serving, subs, interfaces, todo, rows, savedDs, fds,
                   kernel>>

-----------------------------------------------------------------------------
(* dbus_query() ends the process when the bus does not answer. *)

DbusQuery ==
    /\ pc = "dbus"
    /\ GoTo("collectBridges")
    /\ UNCHANGED <<session, serving, subs, interfaces, todo, rows, cur, savedDs,
                   fds, kernel>>

DbusExit == pc = "dbus" /\ End

-----------------------------------------------------------------------------
(* Bridges *)

CollectBridges ==
    /\ pc = "collectBridges"
    /\ \/ todo' = Bridges /\ UNCHANGED faults
       \/ todo' = {} /\ Fail
    /\ GoTo("deleteBridges")
    /\ UNCHANGED <<ds, stores, edits, refusals, serving, subs, interfaces, rows,
                   cur, savedDs, fds, kernel>>

\* Variant: the path is that of the deletion in main().
DeleteBridgesWrongPath ==
    /\ pc = "deleteBridges"
    /\ DeleteAndApply("interfaces", FALSE)
    /\ GoTo("saveBridges")
    /\ UNCHANGED <<ds, serving, subs, interfaces, todo, rows, cur, savedDs, fds,
                   kernel>>

DeleteBridges ==
    /\ pc = "deleteBridges"
    /\ DeleteAndApply("bridges", FALSE)
    /\ GoTo("saveBridges")
    /\ UNCHANGED <<ds, serving, subs, interfaces, todo, rows, cur, savedDs, fds,
                   kernel>>

SaveBridge(b) ==
    /\ pc = "saveBridges"
    /\ b \in todo
    /\ SetAndApply({LeafOf("bridges", b, n) :
                        n \in {"address", "bridge-type", "component"}}, FALSE)
    /\ todo' = todo \ {b}
    /\ UNCHANGED <<ds, pc, serving, subs, interfaces, rows, cur, savedDs, fds,
                   kernel>>

-----------------------------------------------------------------------------
(* data_provider() *)

\* The three return codes are ignored: a subscription may be missing.
Subscribe ==
    /\ pc = "saveBridges"
    /\ todo = {}
    /\ \/ subs' = Subscriptions /\ UNCHANGED faults
       \/ subs' \in SUBSET Subscriptions /\ Fail
    /\ serving' = TRUE
    /\ GoTo("sleep")
    /\ UNCHANGED <<ds, stores, edits, refusals, interfaces, todo, rows, cur,
                   savedDs, fds, kernel>>

\* Variant: the loop refreshes the speeds only.
WakeForSpeeds ==
    /\ pc = "sleep"
    /\ GoTo("collectSpeeds")
    /\ UNCHANGED <<session, serving, subs, interfaces, todo, rows, cur, savedDs,
                   fds, kernel>>

Wake ==
    /\ pc = "sleep"
    /\ GoTo("collectIps")
    /\ UNCHANGED <<session, serving, subs, interfaces, todo, rows, cur, savedDs,
                   fds, kernel>>

\* update_interfaces_speed(): one row for the link itself and one per address.
SpeedRows == {r \in interfaces \X (Addrs \cup {"link"}) :
                  r[1] \in links /\ (r[2] = "link" \/ r[2] \in addresses[r[1]])}

CollectSpeeds ==
    /\ pc = "collectSpeeds"
    /\ \/ /\ fds < FdLimit
          /\ savedDs' = ds
          /\ ds' = "operational"
          /\ rows' = SpeedRows
          /\ GoTo("saveSpeeds")
          /\ UNCHANGED faults
       \/ /\ IF fds < FdLimit THEN Fail ELSE UNCHANGED faults
          /\ GoTo("sleep")
          /\ UNCHANGED <<ds, savedDs, rows>>
    /\ UNCHANGED <<stores, edits, refusals, serving, subs, interfaces, todo, cur,
                   fds, kernel>>

SaveSpeed(r) ==
    /\ pc = "saveSpeeds"
    /\ r \in rows
    /\ SetAndApply({LeafOf("interfaces", r[1], "speed")}, FALSE)
    /\ fds' = AfterQuery(r[1])
    /\ rows' = rows \ {r}
    /\ UNCHANGED <<ds, pc, serving, subs, interfaces, todo, cur, savedDs, kernel>>

SpeedsSaved ==
    /\ pc = "saveSpeeds"
    /\ rows = {}
    /\ ds' = savedDs
    /\ GoTo("sleep")
    /\ UNCHANGED <<stores, edits, faults, refusals, serving, subs, interfaces,
                   todo, rows, cur, savedDs, fds, kernel>>

-----------------------------------------------------------------------------
(* The kernel *)

LinkAppears(i) ==
    /\ i \notin links
    /\ links' = links \cup {i}
    /\ UNCHANGED <<session, local, addresses>>

LinkVanishes(i) ==
    /\ i \in links
    /\ links' = links \ {i}
    /\ addresses' = [addresses EXCEPT ![i] = {}]
    /\ UNCHANGED <<session, local>>

AddressAppears(i, a) ==
    /\ i \in links
    /\ a \notin addresses[i]
    /\ addresses' = [addresses EXCEPT ![i] = @ \cup {a}]
    /\ UNCHANGED <<session, local, links>>

AddressVanishes(i, a) ==
    /\ a \in addresses[i]
    /\ addresses' = [addresses EXCEPT ![i] = @ \ {a}]
    /\ UNCHANGED <<session, local, links>>

-----------------------------------------------------------------------------
Startup ==
    \/ Start
    \/ DeleteLldp
    \/ DeleteInterfaces
    \/ CollectInterfaces
    \/ \E i \in Ifaces : SaveInterfaceRunning(i)
    \/ SwitchToOperational
    \/ \E i \in Ifaces : SaveInterfaceOperational(i)
    \/ SwitchToRunning
    \/ HardwareClass
    \/ HardwareUnknown
    \/ HardwareOperational
    \/ DbusQuery
    \/ CollectBridges
    \/ DeleteBridges
    \/ \E b \in Bridges : SaveBridge(b)
    \/ Subscribe

Refresh ==
    \/ Wake
    \/ CollectIps
    \/ \E i \in Ifaces, a \in Addrs : SaveAddress(i, a)
    \/ IpsSaved
    \/ CollectSpeeds
    \/ \E r \in Ifaces \X (Addrs \cup {"link"}) : SaveSpeed(r)
    \/ SpeedsSaved

Daemon == Startup \/ Refresh

Kernel ==
    \E i \in Ifaces :
        \/ LinkAppears(i)
        \/ LinkVanishes(i)
        \/ \E a \in Addrs : AddressAppears(i, a) \/ AddressVanishes(i, a)

Next == Daemon \/ Crash \/ DbusExit \/ Kernel

Spec == Init /\ [][Next]_vars

\* The scheduler keeps running the daemon's thread; nothing is assumed of the
\* kernel's changes or of the end of the process.
FairSpec == Spec /\ WF_vars(Daemon)

-----------------------------------------------------------------------------
(* Properties *)

LocalTypeOK ==
    /\ pc \in Labels
    /\ serving \in BOOLEAN
    /\ subs \subseteq Subscriptions
    /\ interfaces \subseteq Ifaces
    /\ todo \subseteq Ifaces \cup Bridges
    /\ rows \subseteq Ifaces \X (Addrs \cup {"link"})
    /\ cur \in Ifaces \cup {None}
    /\ savedDs \in Datastores
    /\ fds \in 0..FdLimit
    /\ links \subseteq Ifaces
    /\ addresses \in [Ifaces -> SUBSET Addrs]

\* Every variable has a value of its type, on every path and within every bound.
TypeOK == SessionTypeOK /\ LocalTypeOK

\* main.c, hardware.c and interface.c switch the session to the operational store
\* and back on every path: outside the three windows that write status it works
\* on the running store, early returns and failed applies included.
HomeDatastore ==
    ds = IF pc \in {"statuses", "chassisStatus", "saveSpeeds"}
         THEN "operational" ELSE "running"

\* Whatever was interrupted, refused or left pending, configuration only ever
\* reaches the running store and status only the operational one.
StoreSeparation ==
    /\ stores["running"] \cup edits["running"].put \subseteq ConfigLeaf
    /\ stores["operational"] \cup edits["operational"].put \subseteq StatusLeaf

\* Between two steps an edit can be pending only where the code forgets to discard
\* it: the two deletions at start-up and save_ips().  In particular no pending
\* edit waits in the operational store while the session works on the other one.
CarryOver ==
    /\ edits["operational"] = NoEdit
    /\ edits["running"].del \subseteq {"lldp", "interfaces"}
    /\ \A l \in edits["running"].put :
           /\ l.tree = "interfaces" /\ l.owner \in interfaces
           /\ l.node \in {"mtu"} \cup Addrs

\* As long as no call of the run has failed nothing is left pending, so each
\* commit of one function is exactly what that function set.
NothingPendingWithoutFailure ==
    faults = 0 /\ refusals = 0 => \A d \in Datastores : edits[d] = NoEdit

\* A deletion at start-up that is refused once is made up for: the edit it left
\* pending goes out with the next commit.  An interface that no longer exists is
\* still configured once the daemon serves only if some call failed outright or a
\* second apply was refused, whose sr_discard_changes dropped the deletion.
StaleConfigNeedsTwoFailures ==
    serving /\ (\E l \in stores["running"] :
                   l.tree = "interfaces" /\ l.owner \notin interfaces)
    => faults > 0 \/ refusals > 1

\* The pending edit sets an address of an interface that has no type.
Poisoned ==
    \E l \in edits["running"].put :
        /\ l.tree = "interfaces"
        /\ LeafOf("interfaces", l.owner, "type")
               \notin Result(stores["running"], edits["running"])

\* save_ips() never discards: once the loop holds an edit sysrepo cannot accept
\* (save_interface_running() failed for one interface), no address of any
\* interface is published again for as long as the process runs.
PoisonFreezesRunning ==
    [][serving /\ serving' /\ Poisoned
         => Poisoned' /\ stores'["running"] = stores["running"]]_vars

\* Interface i has been written by this run, or its turn has passed.
Settled(i) ==
    /\ i \in interfaces
    /\ pc = "types" => i \notin todo

\* A deletion left pending at start-up is committed before or with the first
\* interface of this run or not at all: what is stored for an interface that has
\* been visited stays until the process ends.  (Nor are addresses that the kernel
\* removes ever withdrawn: the deletions in save_ips() are commented out.)
SettledConfigStays ==
    [][\A l \in stores["running"] :
          l.tree = "interfaces" /\ Settled(l.owner) => l \in stores'["running"]]_vars

\* An address that stays is published, whatever the rest of the system does, if
\* the process keeps running with a descriptor to spare and is not poisoned.
AddressesPublished ==
    \A i \in Ifaces, a \in Addrs :
        <>[](/\ i \in interfaces /\ a \in addresses[i]
             /\ fds < FdLimit /\ ~Poisoned)
        => <>(LeafOf("interfaces", i, a) \in stores["running"])

\* get_interface_speed() loses a descriptor each time a driver does not answer.
\* One such port is enough: in the end getifaddrs() fails each second and no row of
\* it is visited any more, whatever addresses appear while the process is there.
DeafPortSilencesDaemon ==
    \A i \in Deaf :
        <>[](serving /\ i \in interfaces /\ i \in links)
        => <>[](rows = {})

=============================================================================
