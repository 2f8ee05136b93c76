------------------------------ MODULE Sysrepo ------------------------------
(***************************************************************************)
(* The sysrepo session of the daemon, as far as src/ uses it: two data     *)
(* stores, one pending edit for each of them, the data store the session   *)
(* works on.  sysrepo itself is outside the repository; what is modelled   *)
(* is the contract its callers rely on.                                    *)
(*                                                                         *)
(*  - sr_set_item and sr_delete_item add to the pending edit of the        *)
(*    current store; a call that fails leaves that edit as it was;         *)
(*  - sr_apply_changes either commits the whole edit and clears it, or     *)
(*    fails and leaves the edit pending; an edit whose result breaks the   *)
(*    YANG models always fails, a valid one may be refused (locks,         *)
(*    subscribers, time-outs);                                             *)
(*  - sr_discard_changes clears the pending edit of the current store;     *)
(*  - sr_session_switch_ds changes the current store, not the edits.       *)
(***************************************************************************)
EXTENDS Naturals

CONSTANTS
    Ifaces,        \* names of switch ports (the "eno*" and "swp*" links)
    Addrs,         \* IP addresses
    Bridges,       \* names of Linux bridges
    Chassis,       \* the chassis id, the name of the hardware component
    MaxFaults,     \* bound: steps per run in which a set, delete or query fails
    MaxRefusals    \* bound: valid edits sysrepo refuses, per run of the daemon

ASSUME SysrepoAssumption ==
    /\ {"type", "mtu"} \cap Addrs = {}
    /\ MaxFaults \in Nat
    /\ MaxRefusals \in Nat

VARIABLES
    ds,            \* the data store the session works on
    stores,        \* the committed content of each data store
    edits,         \* the pending edit of each data store
    faults,        \* steps of this run in which a call failed
    refusals       \* valid edits refused in this run

session == <<ds, stores, edits, faults, refusals>>

-----------------------------------------------------------------------------
(* The data trees the daemon writes.  A leaf is named by its tree, the list *)
(* entry that owns it and its node; values are left out.                    *)

Datastores == {"running", "operational"}

Trees == {"lldp", "interfaces", "hardware", "bridges"}

LeafOf(tree, owner, node) == [tree |-> tree, owner |-> owner, node |-> node]

ConfigLeaf ==
    [tree : {"interfaces"}, owner : Ifaces, node : {"type", "mtu"} \cup Addrs]
    \cup [tree : {"hardware"}, owner : {Chassis}, node : {"class"}]
    \cup [tree : {"bridges"}, owner : Bridges,
          node : {"address", "bridge-type", "component"}]
    \cup [tree : {"lldp"}, owner : {"lldp"}, node : {"config"}]

StatusLeaf ==
    [tree : {"interfaces"}, owner : Ifaces, node : {"status", "speed"}]
    \cup [tree : {"hardware"}, owner : {Chassis}, node : {"inventory"}]

Leaf == ConfigLeaf \cup StatusLeaf

\* Leaves the YANG models make mandatory in every entry of a configured list.
Mandatory(tree) ==
    CASE tree = "interfaces" -> {"type"}
      [] tree = "hardware"   -> {"class"}
      [] tree = "bridges"    -> {"address", "bridge-type"}
      [] OTHER               -> {}

-----------------------------------------------------------------------------
(* Edits *)

Edit == [del : SUBSET Trees, put : SUBSET Leaf]

NoEdit == [del |-> {}, put |-> {}]

WithPut(e, leaves) == [del |-> e.del, put |-> e.put \cup leaves]

WithDelete(e, tree) ==
    [del |-> e.del \cup {tree}, put |-> {l \in e.put : l.tree # tree}]

\* What a store holds once e is committed: deletions first, then the leaves set.
Result(store, e) == {l \in store : l.tree \notin e.del} \cup e.put

Valid(d, store) ==
    d = "running" =>
        \A l \in store : \A n \in Mandatory(l.tree) :
            LeafOf(l.tree, l.owner, n) \in store

-----------------------------------------------------------------------------
(* Calls *)

Fail == faults < MaxFaults /\ faults' = faults + 1

\* sr_apply_changes succeeds.
Commit(e) ==
    /\ Valid(ds, Result(stores[ds], e))
    /\ stores' = [stores EXCEPT ![ds] = Result(stores[ds], e)]
    /\ edits' = [edits EXCEPT ![ds] = NoEdit]
    /\ UNCHANGED refusals

\* sr_apply_changes fails; rest is what the caller leaves pending.
Refuse(e, rest) ==
    /\ e # NoEdit
    /\ \/ ~Valid(ds, Result(stores[ds], e)) /\ UNCHANGED refusals
       \/ refusals < MaxRefusals /\ refusals' = refusals + 1
    /\ edits' = [edits EXCEPT ![ds] = rest]
    /\ UNCHANGED stores

\* sr_apply_changes; keep says whether the caller leaves an edit that was not
\* applied pending, or calls sr_discard_changes.
Apply(e, keep) == Commit(e) \/ Refuse(e, IF keep THEN e ELSE NoEdit)

\* sr_set_item for every leaf, some of which fail, then sr_apply_changes.
SetAndApply(leaves, keep) ==
    \E lost \in SUBSET leaves :
        /\ IF lost = {} THEN UNCHANGED faults ELSE Fail
        /\ Apply(WithPut(edits[ds], leaves \ lost), keep)

\* sr_delete_item for a whole tree, then sr_apply_changes.
DeleteAndApply(tree, keep) ==
    \/ UNCHANGED faults /\ Apply(WithDelete(edits[ds], tree), keep)
    \/ Fail /\ Apply(edits[ds], keep)

-----------------------------------------------------------------------------
(* A daemon that ends takes its session along: pending edits are gone and  *)
(* so is what it pushed to the operational store; the running store stays. *)

SessionInit ==
    /\ ds = "running"
    /\ \E lldp \in SUBSET {LeafOf("lldp", "lldp", "config")} :
           stores = [d \in Datastores |-> IF d = "running" THEN lldp ELSE {}]
    /\ edits = [d \in Datastores |-> NoEdit]
    /\ faults = 0
    /\ refusals = 0

SessionEnd ==
    /\ ds' = "running"
    /\ stores' = [stores EXCEPT !["operational"] = {}]
    /\ edits' = [d \in Datastores |-> NoEdit]
    /\ faults' = 0
    /\ refusals' = 0

SessionTypeOK ==
    /\ ds \in Datastores
    /\ stores \in [Datastores -> SUBSET Leaf]
    /\ edits \in [Datastores -> Edit]
    /\ faults \in 0..MaxFaults
    /\ refusals \in 0..MaxRefusals

=============================================================================
