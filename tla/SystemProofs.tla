---------------------------- MODULE SystemProofs ----------------------------
(***************************************************************************)
(* Proofs about TsnDaemon and System.  First the main thread alone: type   *)
(* correctness, and the inductive invariant from which the discipline of   *)
(* the two data stores follows; these proofs do not cite SystemAssumption. *)
(* Then the process: its step is a step of the main thread, a step of the  *)
(* handlers, both, when the ports change, or the end of both.  What is     *)
(* said of the main thread, and what ProvidersProofs says of the handlers, *)
(* therefore holds of the process too, and what is left to prove is about  *)
(* the two together.                                                       *)
(***************************************************************************)
EXTENDS System, FiniteSetTheorems, TLAPS

PP == INSTANCE ProvidersProofs WITH
          pc <- hpc, todo <- htodo, faults <- hfaults,
          MaxFaults <- MaxHandlerFaults, NULL <- None

-----------------------------------------------------------------------------
(* The session.  What a call to sysrepo can do to stores and edits: it      *)
(* leaves the other store alone, adds nothing but what is pending or set,  *)
(* and removes nothing but what is to be deleted.                          *)

StoresTypeOK ==
    /\ stores \in [Datastores -> SUBSET Leaf]
    /\ edits \in [Datastores -> Edit]
    /\ refusals \in 0..MaxRefusals

\* Committing or refusing an edit e of the current store.
Applied(e, keep) ==
    /\ StoresTypeOK'
    /\ \A d \in Datastores \ {ds} : stores'[d] = stores[d] /\ edits'[d] = edits[d]
    /\ stores'[ds] \subseteq stores[ds] \cup e.put
    /\ \A l \in stores[ds] : l.tree \notin e.del => l \in stores'[ds]
    /\ edits'[ds] = NoEdit \/ (keep /\ edits'[ds] = e)

\* The edits a step that sets some of put, or deletes some of del, may apply.
Extends(e, put, del) ==
    /\ e \in Edit
    /\ e.put \subseteq edits[ds].put \cup put
    /\ e.del \subseteq edits[ds].del \cup del

\* The effect of a whole step of the daemon on the session.
Effect(put, del, keep) ==
    /\ faults' \in 0..MaxFaults
    /\ \E e \in Edit : Extends(e, put, del) /\ Applied(e, keep)

\* An edit that does nothing is an edit.
LEMMA NoEditType == NoEdit \in Edit
  BY DEF NoEdit, Edit

\* sr_apply_changes() that succeeds has the effect the callers rely on.
LEMMA CommitEffect ==
  ASSUME SessionTypeOK, NEW e \in Edit, NEW keep \in BOOLEAN, Commit(e)
  PROVE  Applied(e, keep)
<1>1. Result(stores[ds], e) \in SUBSET Leaf
  BY DEF SessionTypeOK, Result, Edit
<1>2. /\ stores' = [stores EXCEPT ![ds] = Result(stores[ds], e)]
      /\ edits' = [edits EXCEPT ![ds] = NoEdit]
      /\ refusals' = refusals
  BY DEF Commit
<1>3. stores'[ds] = Result(stores[ds], e) /\ edits'[ds] = NoEdit
  BY <1>2 DEF SessionTypeOK
<1>4. StoresTypeOK'
  BY <1>1, <1>2, NoEditType DEF StoresTypeOK, SessionTypeOK
<1>5. \A d \in Datastores \ {ds} : stores'[d] = stores[d] /\ edits'[d] = edits[d]
  BY <1>2 DEF SessionTypeOK
<1> QED
  BY <1>3, <1>4, <1>5 DEF Applied, Result

\* So has one that fails, whether or not its caller discards the edit.
LEMMA RefuseEffect ==
  ASSUME SessionTypeOK, NEW e \in Edit, NEW keep \in BOOLEAN,
         Refuse(e, IF keep THEN e ELSE NoEdit)
  PROVE  Applied(e, keep)
<1>1. /\ stores' = stores
      /\ edits' = [edits EXCEPT ![ds] = IF keep THEN e ELSE NoEdit]
      /\ refusals' \in 0..MaxRefusals
  BY SysrepoAssumption DEF Refuse, SessionTypeOK
<1>2. edits'[ds] = IF keep THEN e ELSE NoEdit
  BY <1>1 DEF SessionTypeOK
<1>3. StoresTypeOK'
  BY <1>1, NoEditType DEF StoresTypeOK, SessionTypeOK
<1>4. \A d \in Datastores \ {ds} : stores'[d] = stores[d] /\ edits'[d] = edits[d]
  BY <1>1 DEF SessionTypeOK
<1> QED
  BY <1>1, <1>2, <1>3, <1>4 DEF Applied

\* Either way, sr_apply_changes() has that effect.
LEMMA ApplyEffect ==
  ASSUME SessionTypeOK, NEW e \in Edit, NEW keep \in BOOLEAN, Apply(e, keep)
  PROVE  Applied(e, keep)
  BY CommitEffect, RefuseEffect DEF Apply

\* A step that counts a failed call stays within the bound on them.
LEMMA FailType ==
  ASSUME SessionTypeOK, Fail \/ UNCHANGED faults
  PROVE  faults' \in 0..MaxFaults
  BY SysrepoAssumption DEF Fail, SessionTypeOK

\* Setting leaves, some of which fail, and applying them.
LEMMA SetEffect ==
  ASSUME SessionTypeOK, NEW leaves \in SUBSET Leaf, NEW keep \in BOOLEAN,
         SetAndApply(leaves, keep)
  PROVE  Effect(leaves, {}, keep)
<1>1. PICK lost \in SUBSET leaves :
        /\ IF lost = {} THEN UNCHANGED faults ELSE Fail
        /\ Apply(WithPut(edits[ds], leaves \ lost), keep)
  BY DEF SetAndApply
<1> DEFINE e == WithPut(edits[ds], leaves \ lost)
<1>2. edits[ds] \in Edit
  BY DEF SessionTypeOK
<1>3. Extends(e, leaves, {})
  BY <1>2 DEF Extends, WithPut, Edit
<1>4. Applied(e, keep)
  BY <1>1, <1>3, ApplyEffect DEF Extends
<1>5. faults' \in 0..MaxFaults
  BY <1>1, FailType
<1> QED
  BY <1>3, <1>4, <1>5 DEF Effect, Extends

\* Deleting a tree, or failing to, and applying.
LEMMA DeleteEffect ==
  ASSUME SessionTypeOK, NEW tree \in Trees, NEW keep \in BOOLEAN,
         DeleteAndApply(tree, keep)
  PROVE  Effect({}, {tree}, keep)
<1>1. edits[ds] \in Edit
  BY DEF SessionTypeOK
<1>2. faults' \in 0..MaxFaults
  BY FailType DEF DeleteAndApply
<1>3. CASE Apply(WithDelete(edits[ds], tree), keep)
  <2>1. Extends(WithDelete(edits[ds], tree), {}, {tree})
    BY <1>1 DEF Extends, WithDelete, Edit
  <2>2. Applied(WithDelete(edits[ds], tree), keep)
    BY <2>1, <1>3, ApplyEffect DEF Extends
  <2> QED
    BY <1>2, <2>1, <2>2 DEF Effect, Extends
<1>4. CASE Apply(edits[ds], keep)
  <2>1. Extends(edits[ds], {}, {tree})
    BY <1>1 DEF Extends
  <2>2. Applied(edits[ds], keep)
    BY <1>1, <1>4, ApplyEffect
  <2> QED
    BY <1>1, <1>2, <2>1, <2>2 DEF Effect
<1> QED
  BY <1>3, <1>4 DEF DeleteAndApply

-----------------------------------------------------------------------------
(* The inductive invariant.  The discipline of the data stores depends on  *)
(* where the program is: nothing is set before the interfaces are known,   *)
(* save_ips() only visits rows of known interfaces, the loop of            *)
(* data_provider() never re-enters the start-up, and a deletion of the     *)
(* interface tree that is still pending precedes the first interface.      *)

Stages ==
    /\ pc \in {"down", "deleteLldp", "deleteInterfaces", "collect"} =>
          interfaces = {} /\ edits["running"].put = {}
    /\ pc = "saveIps" => rows \subseteq interfaces \X Addrs
    /\ serving => pc \in {"sleep", "collectIps", "saveIps", "collectSpeeds",
                          "saveSpeeds"}
    /\ savedDs = "running"

DeletionUnsettled ==
    "interfaces" \in edits["running"].del => \A i \in Ifaces : ~Settled(i)

Discipline == HomeDatastore /\ StoreSeparation /\ CarryOver

IInv == TypeOK /\ Discipline /\ Stages /\ DeletionUnsettled

\* A step that works on the running store.  It may leave an edit pending only if
\* that edit is of the kind CarryOver allows.
LEMMA RunningStep ==
  ASSUME SessionTypeOK, StoreSeparation, CarryOver, ds = "running",
         NEW put \in SUBSET ConfigLeaf, NEW del \in SUBSET Trees,
         NEW keep \in BOOLEAN, Effect(put, del, keep), interfaces' = interfaces,
         keep => /\ del \subseteq {"lldp", "interfaces"}
                 /\ \A l \in put : /\ l.tree = "interfaces" /\ l.owner \in interfaces
                                   /\ l.node \in {"mtu"} \cup Addrs
  PROVE  /\ StoresTypeOK' /\ faults' \in 0..MaxFaults
         /\ StoreSeparation' /\ CarryOver'
         /\ edits'["running"].put \subseteq edits["running"].put \cup put
         /\ edits'["running"].del \subseteq edits["running"].del \cup del
         /\ ~keep => edits'["running"] = NoEdit
<1>1. PICK e \in Edit : Extends(e, put, del) /\ Applied(e, keep)
  BY DEF Effect
<1>2. edits'["running"] = NoEdit \/ (keep /\ edits'["running"] = e)
  BY <1>1 DEF Applied
<1>3. /\ stores'["operational"] = stores["operational"]
      /\ edits'["operational"] = edits["operational"]
  BY <1>1 DEF Applied, Datastores
<1>4. /\ e.put \subseteq edits["running"].put \cup put
      /\ e.del \subseteq edits["running"].del \cup del
  BY <1>1 DEF Extends
<1>5. StoreSeparation'
  BY <1>1, <1>2, <1>3, <1>4 DEF StoreSeparation, Applied, NoEdit
<1>6. CarryOver'
  BY <1>2, <1>3, <1>4 DEF CarryOver, NoEdit
<1> QED
  BY <1>1, <1>2, <1>4, <1>5, <1>6 DEF Effect, Applied, NoEdit

\* A step that works on the operational store discards what is not applied and does
\* not touch the running store.
LEMMA OperationalStep ==
  ASSUME SessionTypeOK, StoreSeparation, CarryOver, ds = "operational",
         NEW put \in SUBSET StatusLeaf, Effect(put, {}, FALSE),
         interfaces' = interfaces
  PROVE  /\ StoresTypeOK' /\ faults' \in 0..MaxFaults
         /\ StoreSeparation' /\ CarryOver'
         /\ edits' = edits
         /\ stores'["running"] = stores["running"]
<1>1. PICK e \in Edit : Extends(e, put, {}) /\ Applied(e, FALSE)
  BY DEF Effect
<1>2. edits'["operational"] = NoEdit /\ edits["operational"] = NoEdit
  BY <1>1 DEF Applied, CarryOver
<1>3. /\ stores'["running"] = stores["running"]
      /\ edits'["running"] = edits["running"]
  BY <1>1 DEF Applied, Datastores
<1>4. edits' = edits
  BY <1>1, <1>2, <1>3 DEF Applied, StoresTypeOK, SessionTypeOK, Datastores
<1>5. StoreSeparation'
  BY <1>1, <1>2, <1>3 DEF StoreSeparation, Applied, Extends, NoEdit
<1>6. CarryOver'
  BY <1>4 DEF CarryOver
<1> QED
  BY <1>1, <1>3, <1>4, <1>5, <1>6 DEF Effect, Applied

\* The program starts with an empty session.
LEMMA InitInv == Init => IInv
<1> SUFFICES ASSUME Init PROVE IInv
  OBVIOUS
<1>1. SessionTypeOK /\ StoreSeparation
  <2>1. PICK lldp \in SUBSET {LeafOf("lldp", "lldp", "config")} :
          stores = [d \in Datastores |-> IF d = "running" THEN lldp ELSE {}]
    BY DEF Init, SessionInit
  <2>2. lldp \subseteq ConfigLeaf
    BY DEF LeafOf, ConfigLeaf
  <2>3. stores \in [Datastores -> SUBSET Leaf]
    BY <2>1, <2>2 DEF Leaf
  <2>4. edits \in [Datastores -> Edit]
    BY NoEditType DEF Init, SessionInit
  <2>5. SessionTypeOK
    BY <2>3, <2>4, SysrepoAssumption DEF Init, SessionInit, SessionTypeOK, Datastores
  <2>6. StoreSeparation
    BY <2>1, <2>2 DEF Init, SessionInit, StoreSeparation, Datastores, NoEdit
  <2> QED
    BY <2>5, <2>6
<1>2. TypeOK
  <2>1. pc \in Labels /\ serving \in BOOLEAN /\ savedDs \in Datastores
    BY DEF Init, Labels, Datastores
  <2>2. /\ subs \subseteq Subscriptions /\ interfaces \subseteq Ifaces
        /\ todo \subseteq Ifaces \cup Bridges /\ cur \in Ifaces \cup {None}
        /\ rows \subseteq Ifaces \X (Addrs \cup {"link"})
    BY DEF Init
  <2>3. fds \in 0..FdLimit
    BY DaemonAssumption DEF Init
  <2>4. links \subseteq Ifaces /\ addresses \in [Ifaces -> SUBSET Addrs]
    BY DEF Init
  <2> QED
    BY <1>1, <2>1, <2>2, <2>3, <2>4 DEF TypeOK, LocalTypeOK
<1>3. HomeDatastore /\ CarryOver
  BY DEF Init, SessionInit, HomeDatastore, CarryOver, Datastores, NoEdit
<1>4. Stages /\ DeletionUnsettled
  BY DEF Init, SessionInit, Stages, DeletionUnsettled, Datastores, NoEdit
<1> QED
  BY <1>1, <1>2, <1>3, <1>4 DEF IInv, Discipline

-----------------------------------------------------------------------------
(* The steps.  Those that call sysrepo go through RunningStep and          *)
(* OperationalStep; the others leave stores and edits alone.               *)

\* A step that commits, refuses and sets nothing keeps the discipline.
LEMMA QuietStep ==
  ASSUME IInv, UNCHANGED <<stores, edits, refusals>>, ds' \in Datastores,
         Fail \/ UNCHANGED faults,
         UNCHANGED interfaces \/ edits["running"].put = {}
  PROVE  SessionTypeOK' /\ StoreSeparation' /\ CarryOver'
<1>1. faults' \in 0..MaxFaults
  BY FailType DEF IInv, TypeOK
<1> QED
  BY <1>1 DEF IInv, TypeOK, SessionTypeOK, Discipline, StoreSeparation, CarryOver

\* main() up to the end of collect_interfaces().
LEMMA PrologueStep ==
  ASSUME IInv, Start \/ DeleteLldp \/ DeleteInterfaces \/ CollectInterfaces
  PROVE  IInv'
<1> USE DEF GoTo
<1>0. SessionTypeOK /\ LocalTypeOK /\ HomeDatastore /\ StoreSeparation /\ CarryOver
  BY DEF IInv, TypeOK, Discipline
<1>1. CASE Start
  <2>1. SessionTypeOK' /\ StoreSeparation' /\ CarryOver'
    BY <1>1, <1>0, QuietStep DEF Start, session, SessionTypeOK
  <2>2. LocalTypeOK' /\ HomeDatastore'
    BY <1>1, <1>0 DEF Start, session, kernel, LocalTypeOK, HomeDatastore, Labels
  <2>3. Stages' /\ DeletionUnsettled'
    BY <1>1 DEF IInv, Start, session, Stages, DeletionUnsettled, Settled
  <2> QED
    BY <2>1, <2>2, <2>3 DEF IInv, TypeOK, Discipline
<1>2. ASSUME NEW tree \in {"lldp", "interfaces"}, DeleteAndApply(tree, TRUE),
             pc \in {"deleteLldp", "deleteInterfaces"},
             pc' \in {"deleteInterfaces", "collect"},
             UNCHANGED <<ds, serving, subs, interfaces, todo, rows, cur, savedDs,
                         fds, kernel>>
      PROVE  IInv'
  <2>1. Effect({}, {tree}, TRUE) /\ ds = "running"
    BY <1>0, <1>2, DeleteEffect DEF Trees, HomeDatastore
  <2>2. /\ StoresTypeOK' /\ faults' \in 0..MaxFaults
        /\ StoreSeparation' /\ CarryOver'
        /\ edits'["running"].put \subseteq edits["running"].put
    <3>1. /\ {} \in SUBSET ConfigLeaf /\ {tree} \in SUBSET Trees
          /\ {tree} \subseteq {"lldp", "interfaces"} /\ TRUE \in BOOLEAN
      BY DEF Trees
    <3>2. interfaces' = interfaces
      BY <1>2
    <3> QED
      BY <1>0, <2>1, <3>1, <3>2, RunningStep
  <2>3. SessionTypeOK' /\ LocalTypeOK' /\ HomeDatastore'
    BY <1>0, <1>2, <2>1, <2>2
       DEF SessionTypeOK, StoresTypeOK, kernel, LocalTypeOK, HomeDatastore, Labels
  <2>4. Stages' /\ DeletionUnsettled'
    BY <1>2, <2>2 DEF IInv, Stages, DeletionUnsettled, Settled
  <2> QED
    BY <2>2, <2>3, <2>4 DEF IInv, TypeOK, Discipline
<1>3. CASE DeleteLldp
  BY <1>2, <1>3 DEF DeleteLldp
<1>4. CASE DeleteInterfaces
  BY <1>2, <1>4 DEF DeleteInterfaces
<1>5. CASE CollectInterfaces
  <2>1. SessionTypeOK' /\ StoreSeparation' /\ CarryOver'
    BY <1>5, <1>0, QuietStep DEF CollectInterfaces, SessionTypeOK, IInv, Stages
  <2>2. interfaces' \subseteq Ifaces /\ todo' = interfaces'
    BY <1>5, <1>0 DEF CollectInterfaces, LocalTypeOK
  <2>3. fds' \in 0..FdLimit
    <3>1. Cardinality(links \cap Deaf) \in Nat
      BY <1>0, DaemonAssumption, FS_Subset, FS_CardinalityType DEF LocalTypeOK
    <3> QED
      BY <3>1, <1>0, <1>5, DaemonAssumption DEF CollectInterfaces, LocalTypeOK
  <2>4. LocalTypeOK' /\ HomeDatastore'
    BY <1>5, <1>0, <2>2, <2>3
       DEF CollectInterfaces, kernel, LocalTypeOK, HomeDatastore, Labels
  <2>5. Stages' /\ DeletionUnsettled'
    BY <1>5, <2>2 DEF IInv, CollectInterfaces, Stages, DeletionUnsettled, Settled
  <2> QED
    BY <2>1, <2>4, <2>5 DEF IInv, TypeOK, Discipline
<1> QED
  BY <1>1, <1>3, <1>4, <1>5

\* The interfaces and their status, main() up to the return to the running store.
LEMMA InterfacesStep ==
  ASSUME IInv,
         \/ \E i \in Ifaces : SaveInterfaceRunning(i) \/ SaveInterfaceOperational(i)
         \/ SwitchToOperational \/ SwitchToRunning
  PROVE  IInv'
<1> USE DEF GoTo
<1>0. SessionTypeOK /\ LocalTypeOK /\ HomeDatastore /\ StoreSeparation /\ CarryOver
  BY DEF IInv, TypeOK, Discipline
<1>1. ASSUME NEW i \in Ifaces, SaveInterfaceRunning(i)
      PROVE  IInv'
  <2> DEFINE put == {LeafOf("interfaces", i, "type")}
  <2>1. put \in SUBSET ConfigLeaf /\ put \in SUBSET Leaf
    BY DEF LeafOf, ConfigLeaf, Leaf
  <2>2. Effect(put, {}, FALSE) /\ ds = "running" /\ interfaces' = interfaces
    BY <1>0, <1>1, <2>1, SetEffect DEF SaveInterfaceRunning, HomeDatastore
  <2>3. /\ StoresTypeOK' /\ faults' \in 0..MaxFaults
        /\ StoreSeparation' /\ CarryOver' /\ edits'["running"] = NoEdit
    BY <1>0, <2>1, <2>2, RunningStep
  <2>4. SessionTypeOK' /\ LocalTypeOK' /\ HomeDatastore'
    BY <1>0, <1>1, <2>3
       DEF SaveInterfaceRunning, SessionTypeOK, StoresTypeOK, kernel, LocalTypeOK,
           HomeDatastore
  <2>5. Stages' /\ DeletionUnsettled'
    BY <1>1, <2>3 DEF SaveInterfaceRunning, IInv, Stages, DeletionUnsettled, NoEdit
  <2> QED
    BY <2>3, <2>4, <2>5 DEF IInv, TypeOK, Discipline
<1>2. ASSUME NEW i \in Ifaces, SaveInterfaceOperational(i)
      PROVE  IInv'
  <2> DEFINE put == {LeafOf("interfaces", i, n) : n \in {"status", "speed"}}
  <2>1. put \in SUBSET StatusLeaf /\ put \in SUBSET Leaf
    BY DEF LeafOf, StatusLeaf, Leaf
  <2>2. Effect(put, {}, FALSE) /\ ds = "operational" /\ interfaces' = interfaces
    BY <1>0, <1>2, <2>1, SetEffect DEF SaveInterfaceOperational, HomeDatastore
  <2>3. /\ StoresTypeOK' /\ faults' \in 0..MaxFaults
        /\ StoreSeparation' /\ CarryOver' /\ edits' = edits
    BY <1>0, <2>1, <2>2, OperationalStep
  <2>4. SessionTypeOK' /\ LocalTypeOK' /\ HomeDatastore'
    BY <1>0, <1>2, <2>3
       DEF SaveInterfaceOperational, SessionTypeOK, StoresTypeOK, kernel, LocalTypeOK,
           HomeDatastore
  <2>5. Stages' /\ DeletionUnsettled'
    BY <1>2, <2>3
       DEF SaveInterfaceOperational, IInv, Stages, DeletionUnsettled, Settled
  <2> QED
    BY <2>3, <2>4, <2>5 DEF IInv, TypeOK, Discipline
<1>3. CASE SwitchToOperational
  <2>1. SessionTypeOK' /\ StoreSeparation' /\ CarryOver'
    BY <1>3, QuietStep DEF SwitchToOperational, Datastores
  <2>2. LocalTypeOK' /\ HomeDatastore'
    BY <1>3, <1>0 DEF SwitchToOperational, kernel, LocalTypeOK, HomeDatastore, Labels
  <2>3. Stages' /\ DeletionUnsettled'
    BY <1>3 DEF IInv, SwitchToOperational, Stages, DeletionUnsettled, Settled
  <2> QED
    BY <2>1, <2>2, <2>3 DEF IInv, TypeOK, Discipline
<1>4. CASE SwitchToRunning
  <2>1. SessionTypeOK' /\ StoreSeparation' /\ CarryOver'
    BY <1>4, QuietStep DEF SwitchToRunning, Datastores
  <2>2. LocalTypeOK' /\ HomeDatastore'
    BY <1>4, <1>0 DEF SwitchToRunning, kernel, LocalTypeOK, HomeDatastore, Labels
  <2>3. Stages' /\ DeletionUnsettled'
    BY <1>4 DEF IInv, SwitchToRunning, Stages, DeletionUnsettled, Settled
  <2> QED
    BY <2>1, <2>2, <2>3 DEF IInv, TypeOK, Discipline
<1> QED
  BY <1>1, <1>2, <1>3, <1>4

\* Setting and applying the class of the chassis, with its own branch on failure.
LEMMA ClassEffect ==
  ASSUME SessionTypeOK, HardwareClass
  PROVE  Effect({ChassisClass}, {}, FALSE)
<1> DEFINE e == WithPut(edits[ds], {ChassisClass})
<1>1. {ChassisClass} \in SUBSET Leaf
  BY DEF ChassisClass, LeafOf, ConfigLeaf, Leaf
<1>2. Extends(e, {ChassisClass}, {})
  BY <1>1 DEF Extends, WithPut, Edit, SessionTypeOK
<1>3. Apply(e, FALSE) /\ UNCHANGED faults
  BY DEF HardwareClass, Apply
<1> QED
  BY <1>2, <1>3, ApplyEffect, FailType DEF Effect, Extends

\* save_hardware_chassis(), which leaves on an early return without switching.
LEMMA ChassisStep ==
  ASSUME IInv, HardwareClass \/ HardwareUnknown \/ HardwareOperational
  PROVE  IInv'
<1> USE DEF GoTo
<1>0. SessionTypeOK /\ LocalTypeOK /\ HomeDatastore /\ StoreSeparation /\ CarryOver
  BY DEF IInv, TypeOK, Discipline
<1>1. CASE HardwareClass
  <2>1. {ChassisClass} \in SUBSET ConfigLeaf /\ {} \in SUBSET Trees
    BY DEF ChassisClass, LeafOf, ConfigLeaf
  <2>2. ds = "running" /\ interfaces' = interfaces
    BY <1>0, <1>1 DEF HardwareClass, HomeDatastore
  <2>3. Effect({ChassisClass}, {}, FALSE)
    BY <1>0, <1>1, ClassEffect
  <2>4. /\ StoresTypeOK' /\ faults' \in 0..MaxFaults
        /\ StoreSeparation' /\ CarryOver' /\ edits'["running"] = NoEdit
    BY <1>0, <2>1, <2>2, <2>3, RunningStep
  <2>5. SessionTypeOK' /\ LocalTypeOK' /\ HomeDatastore'
    BY <1>0, <1>1, <2>2, <2>4
       DEF HardwareClass, SessionTypeOK, StoresTypeOK, kernel, LocalTypeOK,
           HomeDatastore, Labels, Datastores
  <2>6. Stages' /\ DeletionUnsettled'
    BY <1>1, <2>4 DEF HardwareClass, IInv, Stages, DeletionUnsettled, NoEdit
  <2> QED
    BY <2>4, <2>5, <2>6 DEF IInv, TypeOK, Discipline
<1>2. CASE HardwareUnknown
  <2>1. SessionTypeOK' /\ StoreSeparation' /\ CarryOver'
    BY <1>2, <1>0, QuietStep DEF HardwareUnknown, SessionTypeOK
  <2>2. LocalTypeOK' /\ HomeDatastore'
    BY <1>2, <1>0 DEF HardwareUnknown, kernel, LocalTypeOK, HomeDatastore, Labels
  <2>3. Stages' /\ DeletionUnsettled'
    BY <1>2 DEF IInv, HardwareUnknown, Stages, DeletionUnsettled, Settled
  <2> QED
    BY <2>1, <2>2, <2>3 DEF IInv, TypeOK, Discipline
<1>3. CASE HardwareOperational
  <2> DEFINE put == {LeafOf("hardware", Chassis, "inventory")}
  <2>1. put \in SUBSET StatusLeaf /\ put \in SUBSET Leaf
    BY DEF LeafOf, StatusLeaf, Leaf
  <2>2. Effect(put, {}, FALSE) /\ ds = "operational" /\ interfaces' = interfaces
    BY <1>0, <1>3, <2>1, SetEffect DEF HardwareOperational, HomeDatastore
  <2>3. /\ StoresTypeOK' /\ faults' \in 0..MaxFaults
        /\ StoreSeparation' /\ CarryOver' /\ edits' = edits
    BY <1>0, <2>1, <2>2, OperationalStep
  <2>4. SessionTypeOK' /\ LocalTypeOK' /\ HomeDatastore'
    BY <1>0, <1>3, <2>3
       DEF HardwareOperational, SessionTypeOK, StoresTypeOK, kernel, LocalTypeOK,
           HomeDatastore, Labels, Datastores
  <2>5. Stages' /\ DeletionUnsettled'
    BY <1>3, <2>3 DEF HardwareOperational, IInv, Stages, DeletionUnsettled, Settled
  <2> QED
    BY <2>3, <2>4, <2>5 DEF IInv, TypeOK, Discipline
<1> QED
  BY <1>1, <1>2, <1>3

\* dbus_query(), the bridges and the subscriptions: the rest of the start-up.
LEMMA BridgesStep ==
  ASSUME IInv,
         \/ DbusQuery \/ CollectBridges \/ DeleteBridges \/ Subscribe
         \/ \E b \in Bridges : SaveBridge(b)
  PROVE  IInv'
<1> USE DEF GoTo
<1>0. SessionTypeOK /\ LocalTypeOK /\ HomeDatastore /\ StoreSeparation /\ CarryOver
  BY DEF IInv, TypeOK, Discipline
<1>1. CASE DbusQuery
  <2>1. SessionTypeOK' /\ StoreSeparation' /\ CarryOver'
    BY <1>1, <1>0, QuietStep DEF DbusQuery, SessionTypeOK, session
  <2>2. LocalTypeOK' /\ HomeDatastore'
    BY <1>1, <1>0 DEF DbusQuery, kernel, LocalTypeOK, HomeDatastore, Labels, session
  <2>3. Stages' /\ DeletionUnsettled'
    BY <1>1 DEF IInv, DbusQuery, Stages, DeletionUnsettled, Settled, session
  <2> QED
    BY <2>1, <2>2, <2>3 DEF IInv, TypeOK, Discipline
<1>2. CASE CollectBridges
  <2>1. SessionTypeOK' /\ StoreSeparation' /\ CarryOver'
    BY <1>2, <1>0, QuietStep DEF CollectBridges, SessionTypeOK
  <2>2. LocalTypeOK' /\ HomeDatastore'
    BY <1>2, <1>0 DEF CollectBridges, kernel, LocalTypeOK, HomeDatastore, Labels
  <2>3. Stages' /\ DeletionUnsettled'
    BY <1>2 DEF IInv, CollectBridges, Stages, DeletionUnsettled, Settled
  <2> QED
    BY <2>1, <2>2, <2>3 DEF IInv, TypeOK, Discipline
<1>3. CASE DeleteBridges
  <2>1. {} \in SUBSET ConfigLeaf /\ {"bridges"} \in SUBSET Trees /\ "bridges" \in Trees
    BY DEF Trees
  <2>2. Effect({}, {"bridges"}, FALSE) /\ ds = "running" /\ interfaces' = interfaces
    BY <1>0, <1>3, <2>1, DeleteEffect DEF DeleteBridges, HomeDatastore
  <2>3. /\ StoresTypeOK' /\ faults' \in 0..MaxFaults
        /\ StoreSeparation' /\ CarryOver' /\ edits'["running"] = NoEdit
    BY <1>0, <2>1, <2>2, RunningStep
  <2>4. SessionTypeOK' /\ LocalTypeOK' /\ HomeDatastore'
    BY <1>0, <1>3, <2>2, <2>3
       DEF DeleteBridges, SessionTypeOK, StoresTypeOK, kernel, LocalTypeOK,
           HomeDatastore, Labels
  <2>5. Stages' /\ DeletionUnsettled'
    BY <1>3, <2>3 DEF DeleteBridges, IInv, Stages, DeletionUnsettled, NoEdit
  <2> QED
    BY <2>3, <2>4, <2>5 DEF IInv, TypeOK, Discipline
<1>4. CASE Subscribe
  <2>1. SessionTypeOK' /\ StoreSeparation' /\ CarryOver'
    BY <1>4, <1>0, QuietStep DEF Subscribe, SessionTypeOK
  <2>2. LocalTypeOK' /\ HomeDatastore'
    BY <1>4, <1>0 DEF Subscribe, kernel, LocalTypeOK, HomeDatastore, Labels, Subscriptions
  <2>3. Stages' /\ DeletionUnsettled'
    BY <1>4 DEF IInv, Subscribe, Stages, DeletionUnsettled, Settled, Subscriptions
  <2> QED
    BY <2>1, <2>2, <2>3 DEF IInv, TypeOK, Discipline
<1>5. ASSUME NEW b \in Bridges, SaveBridge(b)
      PROVE  IInv'
  <2> DEFINE put == {LeafOf("bridges", b, n) :
                        n \in {"address", "bridge-type", "component"}}
  <2>1. put \in SUBSET ConfigLeaf /\ put \in SUBSET Leaf
    BY DEF LeafOf, ConfigLeaf, Leaf
  <2>2. Effect(put, {}, FALSE) /\ ds = "running" /\ interfaces' = interfaces
    BY <1>0, <1>5, <2>1, SetEffect DEF SaveBridge, HomeDatastore
  <2>3. /\ StoresTypeOK' /\ faults' \in 0..MaxFaults
        /\ StoreSeparation' /\ CarryOver' /\ edits'["running"] = NoEdit
    BY <1>0, <2>1, <2>2, RunningStep
  <2>4. SessionTypeOK' /\ LocalTypeOK' /\ HomeDatastore'
    BY <1>0, <1>5, <2>3
       DEF SaveBridge, SessionTypeOK, StoresTypeOK, kernel, LocalTypeOK, HomeDatastore
  <2>5. Stages' /\ DeletionUnsettled'
    BY <1>5, <2>3 DEF SaveBridge, IInv, Stages, DeletionUnsettled, NoEdit
  <2> QED
    BY <2>3, <2>4, <2>5 DEF IInv, TypeOK, Discipline
<1> QED
  BY <1>1, <1>2, <1>3, <1>4, <1>5

\* update_ips(), at start-up and in the loop.
LEMMA AddressesStep ==
  ASSUME IInv,
         \/ CollectIps \/ IpsSaved
         \/ \E i \in Ifaces, a \in Addrs : SaveAddress(i, a)
  PROVE  IInv'
<1> USE DEF GoTo
<1>0. SessionTypeOK /\ LocalTypeOK /\ HomeDatastore /\ StoreSeparation /\ CarryOver
  BY DEF IInv, TypeOK, Discipline
<1>1. CASE CollectIps
  <2>1. SessionTypeOK' /\ StoreSeparation' /\ CarryOver'
    BY <1>1, <1>0, QuietStep DEF CollectIps, SessionTypeOK
  <2>2. LocalTypeOK' /\ HomeDatastore'
    BY <1>1, <1>0
       DEF CollectIps, kernel, LocalTypeOK, HomeDatastore, Labels, AddressRows
  <2>3. Stages' /\ DeletionUnsettled'
    BY <1>1 DEF IInv, CollectIps, Stages, DeletionUnsettled, Settled, AddressRows
  <2> QED
    BY <2>1, <2>2, <2>3 DEF IInv, TypeOK, Discipline
<1>2. CASE IpsSaved
  <2>1. SessionTypeOK' /\ StoreSeparation' /\ CarryOver'
    BY <1>2, <1>0, QuietStep DEF IpsSaved, SessionTypeOK, session
  <2>2. LocalTypeOK' /\ HomeDatastore'
    BY <1>2, <1>0
       DEF IpsSaved, kernel, LocalTypeOK, HomeDatastore, Labels, session
  <2>3. Stages' /\ DeletionUnsettled'
    BY <1>2 DEF IInv, IpsSaved, Stages, DeletionUnsettled, Settled, session
  <2> QED
    BY <2>1, <2>2, <2>3 DEF IInv, TypeOK, Discipline
<1>3. ASSUME NEW i \in Ifaces, NEW a \in Addrs, SaveAddress(i, a)
      PROVE  IInv'
  <2> DEFINE put == {LeafOf("interfaces", i, n) :
                        n \in IF i = cur THEN {a} ELSE {"mtu", a}}
  <2>1. put \in SUBSET ConfigLeaf /\ put \in SUBSET Leaf /\ TRUE \in BOOLEAN
    BY DEF LeafOf, ConfigLeaf, Leaf
  <2>2. Effect(put, {}, TRUE) /\ ds = "running" /\ interfaces' = interfaces
    BY <1>0, <1>3, <2>1, SetEffect DEF SaveAddress, HomeDatastore
  <2>3. i \in interfaces
    BY <1>3 DEF SaveAddress, IInv, Stages
  <2>4. \A l \in put : /\ l.tree = "interfaces" /\ l.owner \in interfaces
                       /\ l.node \in {"mtu"} \cup Addrs
    BY <2>3 DEF LeafOf
  <2>5. /\ StoresTypeOK' /\ faults' \in 0..MaxFaults
        /\ StoreSeparation' /\ CarryOver'
        /\ edits'["running"].del \subseteq edits["running"].del
    <3>1. {} \in SUBSET Trees /\ {} \subseteq {"lldp", "interfaces"}
      OBVIOUS
    <3> HIDE DEF put
    <3> QED
      BY <1>0, <2>1, <2>2, <2>4, <3>1, RunningStep
  <2>6. SessionTypeOK' /\ LocalTypeOK' /\ HomeDatastore'
    BY <1>0, <1>3, <2>5
       DEF SaveAddress, SessionTypeOK, StoresTypeOK, kernel, LocalTypeOK, HomeDatastore
  <2>7. Stages' /\ DeletionUnsettled'
    BY <1>3, <2>5 DEF SaveAddress, IInv, Stages, DeletionUnsettled, Settled
  <2> QED
    BY <2>5, <2>6, <2>7 DEF IInv, TypeOK, Discipline
<1> QED
  BY <1>1, <1>2, <1>3

\* update_interfaces_speed() and the sleep between two rounds.
LEMMA SpeedsStep ==
  ASSUME IInv,
         \/ Wake \/ CollectSpeeds \/ SpeedsSaved
         \/ \E r \in Ifaces \X (Addrs \cup {"link"}) : SaveSpeed(r)
  PROVE  IInv'
<1> USE DEF GoTo
<1>0. SessionTypeOK /\ LocalTypeOK /\ HomeDatastore /\ StoreSeparation /\ CarryOver
  BY DEF IInv, TypeOK, Discipline
<1>1. CASE Wake
  <2>1. SessionTypeOK' /\ StoreSeparation' /\ CarryOver'
    BY <1>1, <1>0, QuietStep DEF Wake, SessionTypeOK, session
  <2>2. LocalTypeOK' /\ HomeDatastore'
    BY <1>1, <1>0 DEF Wake, kernel, LocalTypeOK, HomeDatastore, Labels, session
  <2>3. Stages' /\ DeletionUnsettled'
    BY <1>1 DEF IInv, Wake, Stages, DeletionUnsettled, Settled, session
  <2> QED
    BY <2>1, <2>2, <2>3 DEF IInv, TypeOK, Discipline
<1>2. CASE CollectSpeeds
  <2>1. SessionTypeOK' /\ StoreSeparation' /\ CarryOver'
    BY <1>2, <1>0, QuietStep DEF CollectSpeeds, SessionTypeOK, Datastores
  <2>2. LocalTypeOK' /\ HomeDatastore'
    <3>1. SpeedRows \subseteq Ifaces \X (Addrs \cup {"link"})
      BY <1>0 DEF SpeedRows, LocalTypeOK
    <3> QED
      BY <1>2, <1>0, <3>1
         DEF CollectSpeeds, kernel, LocalTypeOK, HomeDatastore, Labels, Datastores
  <2>3. Stages' /\ DeletionUnsettled'
    BY <1>2, <1>0 DEF IInv, CollectSpeeds, Stages, DeletionUnsettled, Settled,
                      HomeDatastore
  <2> QED
    BY <2>1, <2>2, <2>3 DEF IInv, TypeOK, Discipline
<1>3. CASE SpeedsSaved
  <2>1. SessionTypeOK' /\ StoreSeparation' /\ CarryOver'
    BY <1>3, <1>0, QuietStep DEF SpeedsSaved, SessionTypeOK, LocalTypeOK
  <2>2. LocalTypeOK' /\ HomeDatastore'
    <3>1. savedDs = "running"
      BY DEF IInv, Stages
    <3> QED
      BY <1>3, <1>0, <3>1 DEF SpeedsSaved, kernel, LocalTypeOK, HomeDatastore, Labels
  <2>3. Stages' /\ DeletionUnsettled'
    BY <1>3 DEF IInv, SpeedsSaved, Stages, DeletionUnsettled, Settled
  <2> QED
    BY <2>1, <2>2, <2>3 DEF IInv, TypeOK, Discipline
<1>4. ASSUME NEW r \in Ifaces \X (Addrs \cup {"link"}), SaveSpeed(r)
      PROVE  IInv'
  <2> DEFINE put == {LeafOf("interfaces", r[1], "speed")}
  <2>1. put \in SUBSET StatusLeaf /\ put \in SUBSET Leaf
    BY DEF LeafOf, StatusLeaf, Leaf
  <2>2. Effect(put, {}, FALSE) /\ ds = "operational" /\ interfaces' = interfaces
    BY <1>0, <1>4, <2>1, SetEffect DEF SaveSpeed, HomeDatastore
  <2>3. /\ StoresTypeOK' /\ faults' \in 0..MaxFaults
        /\ StoreSeparation' /\ CarryOver' /\ edits' = edits
    BY <1>0, <2>1, <2>2, OperationalStep
  <2>4. fds' \in 0..FdLimit
    BY <1>0, <1>4, DaemonAssumption DEF SaveSpeed, AfterQuery, LocalTypeOK
  <2>5. SessionTypeOK' /\ LocalTypeOK' /\ HomeDatastore'
    BY <1>0, <1>4, <2>3, <2>4
       DEF SaveSpeed, SessionTypeOK, StoresTypeOK, kernel, LocalTypeOK, HomeDatastore
  <2>6. Stages' /\ DeletionUnsettled'
    BY <1>4, <2>3 DEF SaveSpeed, IInv, Stages, DeletionUnsettled, Settled
  <2> QED
    BY <2>3, <2>5, <2>6 DEF IInv, TypeOK, Discipline
<1> QED
  BY <1>1, <1>2, <1>3, <1>4

\* The end of the process, whatever ends it and wherever it is.
LEMMA EndStep ==
  ASSUME IInv, Crash \/ DbusExit
  PROVE  IInv'
<1>1. End /\ TypeOK
  BY DEF Crash, DbusExit, IInv
<1>2. SessionTypeOK'
  BY <1>1, NoEditType, SysrepoAssumption
     DEF End, SessionEnd, TypeOK, SessionTypeOK, Datastores
<1>3. LocalTypeOK'
  <2>1. pc' \in Labels /\ serving' \in BOOLEAN /\ savedDs' \in Datastores
    BY <1>1 DEF End, GoTo, Labels, Datastores
  <2>2. /\ subs' \subseteq Subscriptions /\ interfaces' \subseteq Ifaces
        /\ todo' \subseteq Ifaces \cup Bridges /\ cur' \in Ifaces \cup {None}
        /\ rows' \subseteq Ifaces \X (Addrs \cup {"link"})
    BY <1>1 DEF End
  <2>3. fds' \in 0..FdLimit
    BY <1>1, DaemonAssumption DEF End
  <2>4. links' \subseteq Ifaces /\ addresses' \in [Ifaces -> SUBSET Addrs]
    BY <1>1 DEF End, kernel, TypeOK, LocalTypeOK
  <2> QED
    BY <2>1, <2>2, <2>3, <2>4 DEF LocalTypeOK
<1>4. stores'["running"] = stores["running"] /\ stores'["operational"] = {}
  BY <1>1 DEF End, SessionEnd, TypeOK, SessionTypeOK, Datastores
<1>5. StoreSeparation' /\ CarryOver'
  BY <1>1, <1>4 DEF IInv, Discipline, End, SessionEnd, StoreSeparation, CarryOver,
                    NoEdit, Datastores
<1>6. HomeDatastore' /\ Stages' /\ DeletionUnsettled'
  BY <1>1 DEF End, SessionEnd, GoTo, HomeDatastore, Stages, DeletionUnsettled,
              NoEdit, Datastores
<1> QED
  BY <1>2, <1>3, <1>5, <1>6 DEF IInv, TypeOK, Discipline

\* What the kernel does, and stuttering.
LEMMA LinksStep ==
  ASSUME IInv, Kernel \/ UNCHANGED vars
  PROVE  IInv'
<1>1. UNCHANGED <<session, local>>
  BY DEF Kernel, LinkAppears, LinkVanishes, AddressAppears, AddressVanishes, vars
<1>2. links' \subseteq Ifaces /\ addresses' \in [Ifaces -> SUBSET Addrs]
  <2>1. links \subseteq Ifaces /\ addresses \in [Ifaces -> SUBSET Addrs]
    BY DEF IInv, TypeOK, LocalTypeOK
  <2>2. CASE Kernel
    <3>1. PICK i \in Ifaces :
            \/ LinkAppears(i)
            \/ LinkVanishes(i)
            \/ \E a \in Addrs : AddressAppears(i, a) \/ AddressVanishes(i, a)
      BY <2>2 DEF Kernel
    <3>2. CASE LinkAppears(i)
      BY <2>1, <3>2 DEF LinkAppears
    <3>3. CASE LinkVanishes(i)
      BY <2>1, <3>3 DEF LinkVanishes
    <3>4. ASSUME NEW a \in Addrs, AddressAppears(i, a) \/ AddressVanishes(i, a)
          PROVE  links' \subseteq Ifaces /\ addresses' \in [Ifaces -> SUBSET Addrs]
      BY <2>1, <3>4 DEF AddressAppears, AddressVanishes
    <3> QED
      BY <3>1, <3>2, <3>3, <3>4
  <2>3. CASE UNCHANGED vars
    BY <2>1, <2>3 DEF vars, kernel
  <2> QED
    BY <2>2, <2>3
<1> QED
  BY <1>1, <1>2 DEF session, local, IInv, TypeOK, SessionTypeOK, LocalTypeOK,
                    Discipline, HomeDatastore, StoreSeparation, CarryOver, Stages,
                    DeletionUnsettled, Settled

\* Every step of the specification preserves the invariant.
LEMMA NextInv ==
  ASSUME IInv, [Next]_vars
  PROVE  IInv'
  BY PrologueStep, InterfacesStep, ChassisStep, BridgesStep, AddressesStep,
     SpeedsStep, EndStep, LinksStep DEF Next, Daemon, Startup, Refresh

-----------------------------------------------------------------------------
(* Theorems *)

\* The inductive invariant holds in every reachable state.
THEOREM Invariance == Spec => []IInv
  BY InitInv, NextInv, PTL DEF Spec

\* No path of main() and the functions it calls leaves a variable, a data store or
\* a pending edit with a value that is not of its type.
THEOREM TypeCorrect == Spec => []TypeOK
<1>1. IInv => TypeOK
  BY DEF IInv
<1> QED
  BY <1>1, Invariance, PTL

\* Every function that switches the session to the operational store switches it
\* back before it returns, early returns and failed applies included.
THEOREM HomeDatastoreHolds == Spec => []HomeDatastore
<1>1. IInv => HomeDatastore
  BY DEF IInv, Discipline
<1> QED
  BY <1>1, Invariance, PTL

\* No status value ever reaches the running store, no configuration the operational
\* one, in spite of crashes, refusals and edits left pending.
THEOREM StoresStaySeparate == Spec => []StoreSeparation
<1>1. IInv => StoreSeparation
  BY DEF IInv, Discipline
<1> QED
  BY <1>1, Invariance, PTL

\* Only the start-up deletions and save_ips() leave an edit pending.
THEOREM CarryOverHolds == Spec => []CarryOver
<1>1. IInv => CarryOver
  BY DEF IInv, Discipline
<1> QED
  BY <1>1, Invariance, PTL

-----------------------------------------------------------------------------
(* What a step may never do to the running store *)

\* A step of the daemon leaves the running store alone or is one call to sysrepo
\* there, and only one of those deletes interfaces.
Touches ==
    \E put \in SUBSET Leaf, del \in SUBSET Trees, keep \in BOOLEAN :
        /\ ds = "running"
        /\ Effect(put, del, keep)
        /\ "interfaces" \in del => pc = "deleteInterfaces"

\* A call from anywhere either touches the running store in that way or works on
\* the other one.
LEMMA EffectTouches ==
  ASSUME SessionTypeOK, NEW put \in SUBSET Leaf, NEW del \in SUBSET Trees,
         NEW keep \in BOOLEAN, Effect(put, del, keep),
         "interfaces" \in del => pc = "deleteInterfaces"
  PROVE  stores'["running"] = stores["running"] \/ Touches
<1>1. CASE ds = "running"
  BY <1>1 DEF Touches
<1>2. CASE ds # "running"
  BY <1>2 DEF Effect, Applied, Datastores
<1> QED
  BY <1>1, <1>2

\* Setting leaves and applying them is such a call,
LEMMA SetTouches ==
  ASSUME SessionTypeOK, NEW put \in SUBSET Leaf, NEW keep \in BOOLEAN,
         SetAndApply(put, keep)
  PROVE  stores'["running"] = stores["running"] \/ Touches
<1>1. Effect(put, {}, keep) /\ {} \in SUBSET Trees
  BY SetEffect
<1> QED
  BY <1>1, EffectTouches

\* and so is deleting a tree.
LEMMA DeleteTouches ==
  ASSUME SessionTypeOK, NEW tree \in Trees, NEW keep \in BOOLEAN,
         DeleteAndApply(tree, keep), tree = "interfaces" => pc = "deleteInterfaces"
  PROVE  stores'["running"] = stores["running"] \/ Touches
<1>1. Effect({}, {tree}, keep) /\ {} \in SUBSET Leaf /\ {tree} \in SUBSET Trees
  BY DeleteEffect
<1> QED
  BY <1>1, EffectTouches

\* Each action of the daemon that calls sysrepo is one of those.
LEMMA StepTouches ==
  ASSUME IInv, [Next]_vars
  PROVE  stores'["running"] = stores["running"] \/ Touches
<1>0. SessionTypeOK
  BY DEF IInv, TypeOK
<1>1. ASSUME NEW i \in Ifaces, SaveInterfaceRunning(i)
      PROVE  stores'["running"] = stores["running"] \/ Touches
  <2>1. {LeafOf("interfaces", i, "type")} \in SUBSET Leaf
    BY DEF LeafOf, Leaf, ConfigLeaf
  <2> QED
    BY <1>0, <1>1, <2>1, SetTouches DEF SaveInterfaceRunning
<1>2. ASSUME NEW i \in Ifaces, SaveInterfaceOperational(i)
      PROVE  stores'["running"] = stores["running"] \/ Touches
  <2>1. {LeafOf("interfaces", i, n) : n \in {"status", "speed"}} \in SUBSET Leaf
    BY DEF LeafOf, Leaf, StatusLeaf
  <2> QED
    BY <1>0, <1>2, <2>1, SetTouches DEF SaveInterfaceOperational
<1>3. ASSUME NEW i \in Ifaces, NEW a \in Addrs, SaveAddress(i, a)
      PROVE  stores'["running"] = stores["running"] \/ Touches
  <2>1. {LeafOf("interfaces", i, n) : n \in IF i = cur THEN {a} ELSE {"mtu", a}}
          \in SUBSET Leaf
    BY DEF LeafOf, Leaf, ConfigLeaf
  <2> QED
    BY <1>0, <1>3, <2>1, SetTouches DEF SaveAddress
<1>4. ASSUME NEW r \in Ifaces \X (Addrs \cup {"link"}), SaveSpeed(r)
      PROVE  stores'["running"] = stores["running"] \/ Touches
  <2>1. {LeafOf("interfaces", r[1], "speed")} \in SUBSET Leaf
    BY DEF LeafOf, Leaf, StatusLeaf
  <2> QED
    BY <1>0, <1>4, <2>1, SetTouches DEF SaveSpeed
<1>5. ASSUME NEW b \in Bridges, SaveBridge(b)
      PROVE  stores'["running"] = stores["running"] \/ Touches
  <2>1. {LeafOf("bridges", b, n) : n \in {"address", "bridge-type", "component"}}
          \in SUBSET Leaf
    BY DEF LeafOf, Leaf, ConfigLeaf
  <2> QED
    BY <1>0, <1>5, <2>1, SetTouches DEF SaveBridge
<1>6. ASSUME HardwareOperational
      PROVE  stores'["running"] = stores["running"] \/ Touches
  <2>1. {LeafOf("hardware", Chassis, "inventory")} \in SUBSET Leaf
    BY DEF LeafOf, Leaf, StatusLeaf
  <2> QED
    BY <1>0, <1>6, <2>1, SetTouches DEF HardwareOperational
<1>7. ASSUME HardwareClass
      PROVE  stores'["running"] = stores["running"] \/ Touches
  <2>1. {ChassisClass} \in SUBSET Leaf /\ {} \in SUBSET Trees
    BY DEF ChassisClass, LeafOf, Leaf, ConfigLeaf
  <2>2. Effect({ChassisClass}, {}, FALSE)
    BY <1>0, <1>7, ClassEffect
  <2> QED
    BY <1>0, <2>1, <2>2, EffectTouches
<1>8. ASSUME DeleteLldp \/ DeleteInterfaces \/ DeleteBridges
      PROVE  stores'["running"] = stores["running"] \/ Touches
  BY <1>0, <1>8, DeleteTouches DEF DeleteLldp, DeleteInterfaces, DeleteBridges, Trees
<1>9. ASSUME \/ Start \/ CollectInterfaces \/ SwitchToOperational \/ SwitchToRunning
             \/ HardwareUnknown \/ DbusQuery \/ CollectBridges \/ Subscribe
             \/ Wake \/ CollectIps \/ IpsSaved \/ CollectSpeeds \/ SpeedsSaved
             \/ UNCHANGED vars
      PROVE  stores' = stores
  BY <1>9 DEF Start, CollectInterfaces, SwitchToOperational, SwitchToRunning,
              HardwareUnknown, DbusQuery, CollectBridges, Subscribe, Wake, CollectIps,
              IpsSaved, CollectSpeeds, SpeedsSaved, session, vars
<1>10. ASSUME Crash \/ DbusExit
       PROVE  stores'["running"] = stores["running"]
  BY <1>0, <1>10 DEF Crash, DbusExit, End, SessionEnd, SessionTypeOK, Datastores
<1>11. ASSUME Kernel
       PROVE  stores' = stores
  BY <1>11 DEF Kernel, LinkAppears, LinkVanishes, AddressAppears, AddressVanishes,
               session
<1> QED
  BY <1>1, <1>2, <1>3, <1>4, <1>5, <1>6, <1>7, <1>8, <1>9, <1>10, <1>11
     DEF Next, Daemon, Startup, Refresh

\* What is stored for an interface this run has written stays until the process
\* ends: a deletion left over from the start-up can no longer reach it.
THEOREM SettledConfigHolds == Spec => SettledConfigStays
<1>1. ASSUME IInv, [Next]_vars, NEW l \in stores["running"],
             l.tree = "interfaces", Settled(l.owner)
      PROVE  l \in stores'["running"]
  <2>1. CASE stores'["running"] = stores["running"]
    BY <2>1
  <2>2. CASE Touches
    <3>1. PICK put \in SUBSET Leaf, del \in SUBSET Trees, keep \in BOOLEAN :
            /\ ds = "running"
            /\ Effect(put, del, keep)
            /\ "interfaces" \in del => pc = "deleteInterfaces"
      BY <2>2 DEF Touches
    <3>2. PICK e \in Edit : Extends(e, put, del) /\ Applied(e, keep)
      BY <3>1 DEF Effect
    <3>3. "interfaces" \notin edits["running"].del
      BY <1>1 DEF IInv, TypeOK, LocalTypeOK, DeletionUnsettled, Settled
    <3>4. "interfaces" \notin del
      BY <1>1, <3>1 DEF IInv, Stages, Settled
    <3>5. l.tree \notin e.del
      BY <1>1, <3>1, <3>2, <3>3, <3>4 DEF Extends
    <3> QED
      BY <3>1, <3>2, <3>5 DEF Applied
  <2> QED
    BY <1>1, <2>1, <2>2, StepTouches
<1>2. ASSUME IInv, [Next]_vars
      PROVE  [\A l \in stores["running"] :
                 l.tree = "interfaces" /\ Settled(l.owner)
                 => l \in stores'["running"]]_vars
  BY <1>1, <1>2
<1> QED
  BY <1>2, Invariance, PTL DEF Spec, SettledConfigStays

\* sysrepo cannot accept a poisoned edit, and setting more addresses on top of it
\* does not cure it.
LEMMA PoisonStep ==
  ASSUME IInv, NEW i \in Ifaces, NEW a \in Addrs, SaveAddress(i, a), Poisoned
  PROVE  Poisoned' /\ stores' = stores
<1> DEFINE put == {LeafOf("interfaces", i, n) :
                      n \in IF i = cur THEN {a} ELSE {"mtu", a}}
<1>1. SessionTypeOK /\ ds = "running"
  BY DEF IInv, TypeOK, Discipline, HomeDatastore, SaveAddress
<1>2. PICK lost \in SUBSET put : Apply(WithPut(edits[ds], put \ lost), TRUE)
  BY DEF SaveAddress, SetAndApply
<1> DEFINE e == WithPut(edits[ds], put \ lost)
<1>3. PICK l \in edits["running"].put :
        /\ l.tree = "interfaces"
        /\ LeafOf("interfaces", l.owner, "type")
               \notin Result(stores["running"], edits["running"])
  BY DEF Poisoned
<1> DEFINE type == LeafOf("interfaces", l.owner, "type")
<1>4. type \notin put
  BY SysrepoAssumption DEF LeafOf
<1>5. e.put = edits["running"].put \cup (put \ lost) /\ e.del = edits["running"].del
  BY <1>1 DEF WithPut
<1>6. type \notin Result(stores["running"], e) /\ l \in Result(stores["running"], e)
  BY <1>3, <1>4, <1>5 DEF Result
<1>7. "type" \in Mandatory(l.tree)
  BY <1>3 DEF Mandatory
<1>8. ~Valid(ds, Result(stores[ds], e))
  BY <1>1, <1>3, <1>6, <1>7 DEF Valid
<1>9. Refuse(e, e)
  BY <1>2, <1>8 DEF Apply, Commit
<1>10. stores' = stores /\ edits'["running"] = e
  BY <1>1, <1>9 DEF Refuse, SessionTypeOK
<1>11. Poisoned'
  BY <1>3, <1>5, <1>6, <1>10 DEF Poisoned
<1> QED
  BY <1>10, <1>11

\* A run that holds a poisoned edit in the loop publishes no address any more, for
\* any interface, until it ends.
THEOREM PoisonFreezesHolds == Spec => PoisonFreezesRunning
<1>1. ASSUME IInv, [Next]_vars, serving, serving', Poisoned
      PROVE  Poisoned' /\ stores'["running"] = stores["running"]
  <2>1. pc \in {"sleep", "collectIps", "saveIps", "collectSpeeds", "saveSpeeds"}
    BY <1>1 DEF IInv, Stages
  <2>2. ~Startup
    BY <2>1 DEF Startup, Start, DeleteLldp, DeleteInterfaces, CollectInterfaces,
                SaveInterfaceRunning, SwitchToOperational, SaveInterfaceOperational,
                SwitchToRunning, HardwareClass, HardwareUnknown, HardwareOperational,
                DbusQuery, CollectBridges, DeleteBridges, SaveBridge, Subscribe
  <2>3. ~Crash /\ ~DbusExit
    BY <1>1 DEF Crash, DbusExit, End
  <2>4. CASE \E i \in Ifaces, a \in Addrs : SaveAddress(i, a)
    BY <1>1, <2>4, PoisonStep
  <2>5. ASSUME NEW r \in Ifaces \X (Addrs \cup {"link"}), SaveSpeed(r)
        PROVE  edits' = edits /\ stores'["running"] = stores["running"]
    <3> DEFINE put == {LeafOf("interfaces", r[1], "speed")}
    <3>1. put \in SUBSET StatusLeaf /\ put \in SUBSET Leaf
      BY DEF LeafOf, StatusLeaf, Leaf
    <3>2. /\ SessionTypeOK /\ StoreSeparation /\ CarryOver
          /\ ds = "operational" /\ interfaces' = interfaces
      BY <1>1, <2>5 DEF IInv, TypeOK, Discipline, HomeDatastore, SaveSpeed
    <3>3. Effect(put, {}, FALSE)
      BY <2>5, <3>1, <3>2, SetEffect DEF SaveSpeed
    <3> QED
      BY <3>1, <3>2, <3>3, OperationalStep
  <2>6. ASSUME Wake \/ CollectIps \/ IpsSaved \/ CollectSpeeds \/ SpeedsSaved
        PROVE  edits' = edits /\ stores' = stores
    BY <2>6 DEF Wake, CollectIps, IpsSaved, CollectSpeeds, SpeedsSaved, session
  <2>7. ASSUME Kernel \/ UNCHANGED vars
        PROVE  edits' = edits /\ stores' = stores
    BY <2>7 DEF Kernel, LinkAppears, LinkVanishes, AddressAppears, AddressVanishes,
                session, vars
  <2>8. \/ \E i \in Ifaces, a \in Addrs : SaveAddress(i, a)
        \/ edits' = edits /\ stores'["running"] = stores["running"]
    BY <1>1, <2>2, <2>3, <2>5, <2>6, <2>7 DEF Next, Daemon, Refresh
  <2> QED
    BY <1>1, <2>4, <2>8 DEF Poisoned
<1>2. ASSUME IInv, [Next]_vars
      PROVE  [serving /\ serving' /\ Poisoned
                => Poisoned' /\ stores'["running"] = stores["running"]]_vars
  BY <1>1, <1>2
<1> QED
  BY <1>2, Invariance, PTL DEF Spec, PoisonFreezesRunning

-----------------------------------------------------------------------------
(***************************************************************************)
(* The configuration: what a run without failed calls leaves pending, and  *)
(* what of an earlier run survives.  Both rest on one fact about sysrepo:  *)
(* an edit whose result is valid is refused only for a reason of sysrepo's *)
(* own, of which there are as many as refusals says.                       *)
(***************************************************************************)

-----------------------------------------------------------------------------
(* The invariant *)

\* The interface has its type, the leaf that every entry must have.
Published(i) == LeafOf("interfaces", i, "type") \in stores["running"]

\* Up to the chassis: save_ips() has not run, and nothing else leaves a leaf pending.
Unset == {"down", "deleteLldp", "deleteInterfaces", "collect", "types", "statuses",
          "chassis"}

\* From the deletion of the interfaces to the commit that makes up for its refusal.
Window == {"collect", "types", "statuses", "chassis"}

StoreValid == Valid("running", stores["running"])

NothingSet == pc \in Unset => edits["running"].put = {}

Turns == pc = "types" => todo \subseteq interfaces

\* While no call has failed nothing is pending and each settled interface is valid.
Unspoilt ==
    faults = 0 /\ refusals = 0 =>
        /\ edits["running"] = NoEdit
        /\ \A i \in Ifaces : Settled(i) => Published(i)

\* Nothing of an earlier run is left of the interfaces.
Fresh == \A l \in stores["running"] : l.tree = "interfaces" => l.owner \in interfaces

\* Their deletion has been refused once, and the next commit brings it.
Clearing == pc \in Window /\ "interfaces" \in edits["running"].del /\ refusals = 1

Cleared ==
    faults = 0 /\ refusals <= 1 /\ pc \notin {"down", "deleteLldp", "deleteInterfaces"}
    => Fresh \/ Clearing

CInv == StoreValid /\ NothingSet /\ Turns /\ Unspoilt /\ Cleared

-----------------------------------------------------------------------------
(* Calls to sysrepo *)

\* What a commit of e does to the running store.
Taken(e) ==
    /\ stores'["running"] = Result(stores["running"], e)
    /\ edits'["running"] = NoEdit
    /\ refusals' = refusals

\* What a refusal of e does; a valid edit is refused at the price of a refusal.
Declined(e, keep) ==
    /\ stores'["running"] = stores["running"]
    /\ edits'["running"] = IF keep THEN e ELSE NoEdit
    /\ refusals' \in {refusals, refusals + 1}
    /\ Valid("running", Result(stores["running"], e)) => refusals' = refusals + 1

\* sr_apply_changes() on the running store, which stays valid.
LEMMA RunningCall ==
  ASSUME SessionTypeOK, StoreValid, ds = "running", NEW e \in Edit,
         NEW keep \in BOOLEAN, Apply(e, keep)
  PROVE  StoreValid' /\ (Taken(e) \/ Declined(e, keep))
<1>0. "running" \in Datastores
  BY DEF Datastores
<1>1. CASE Commit(e)
  <2>1. Taken(e)
    BY <1>0, <1>1 DEF Commit, SessionTypeOK, Taken
  <2>2. StoreValid'
    BY <1>1, <2>1 DEF Commit, Taken, StoreValid, Valid
  <2> QED
    BY <2>1, <2>2
<1>2. CASE Refuse(e, IF keep THEN e ELSE NoEdit)
  BY <1>0, <1>2 DEF Refuse, SessionTypeOK, Declined, StoreValid, Valid
<1> QED
  BY <1>1, <1>2 DEF Apply

\* Setting leaves in the running store: as long as no call has failed all of them
\* are in the edit.
LEMMA SetCall ==
  ASSUME SessionTypeOK, StoreValid, ds = "running", NEW leaves \in SUBSET Leaf,
         NEW keep \in BOOLEAN, SetAndApply(leaves, keep)
  PROVE  /\ StoreValid'
         /\ \E e \in Edit :
               /\ e.put \subseteq edits["running"].put \cup leaves
               /\ e.del = edits["running"].del
               /\ faults' = 0 => faults = 0 /\ e = WithPut(edits["running"], leaves)
               /\ Taken(e) \/ Declined(e, keep)
<1>1. PICK lost \in SUBSET leaves :
        /\ IF lost = {} THEN UNCHANGED faults ELSE Fail
        /\ Apply(WithPut(edits[ds], leaves \ lost), keep)
  BY DEF SetAndApply
<1> DEFINE e == WithPut(edits["running"], leaves \ lost)
<1>2. edits["running"] \in Edit
  BY DEF SessionTypeOK, Datastores
<1>3. /\ e \in Edit /\ e.del = edits["running"].del
      /\ e.put \subseteq edits["running"].put \cup leaves
  BY <1>2 DEF WithPut, Edit
<1>4. StoreValid' /\ (Taken(e) \/ Declined(e, keep))
  BY <1>1, <1>3, RunningCall
<1>5. faults' = 0 => faults = 0 /\ lost = {}
  BY <1>1 DEF Fail, SessionTypeOK
<1>6. lost = {} => e = WithPut(edits["running"], leaves)
  OBVIOUS
<1> QED
  BY <1>3, <1>4, <1>5, <1>6

\* Deleting a tree of the running store.
LEMMA DeleteCall ==
  ASSUME SessionTypeOK, StoreValid, ds = "running", NEW tree \in Trees,
         NEW keep \in BOOLEAN, DeleteAndApply(tree, keep)
  PROVE  /\ StoreValid'
         /\ \E e \in Edit :
               /\ e.put \subseteq edits["running"].put
               /\ e.del \in {edits["running"].del, edits["running"].del \cup {tree}}
               /\ faults' = 0 => faults = 0 /\ e = WithDelete(edits["running"], tree)
               /\ Taken(e) \/ Declined(e, keep)
<1>1. edits["running"] \in Edit /\ WithDelete(edits["running"], tree) \in Edit
  BY DEF SessionTypeOK, Datastores, WithDelete, Edit
<1>2. /\ WithDelete(edits["running"], tree).put \subseteq edits["running"].put
      /\ WithDelete(edits["running"], tree).del = edits["running"].del \cup {tree}
  BY DEF WithDelete
<1>3. CASE UNCHANGED faults /\ Apply(WithDelete(edits[ds], tree), keep)
  BY <1>1, <1>2, <1>3, RunningCall
<1>4. CASE Fail /\ Apply(edits[ds], keep)
  <2>1. StoreValid' /\ (Taken(edits["running"]) \/ Declined(edits["running"], keep))
    BY <1>1, <1>4, RunningCall
  <2>2. faults' # 0
    BY <1>4 DEF Fail, SessionTypeOK
  <2> QED
    BY <1>1, <2>1, <2>2
<1> QED
  BY <1>3, <1>4 DEF DeleteAndApply

\* Setting leaves in the operational store leaves the running one alone.
LEMMA OperationalCall ==
  ASSUME SessionTypeOK, ds = "operational", NEW leaves, NEW keep,
         SetAndApply(leaves, keep)
  PROVE  /\ stores'["running"] = stores["running"]
         /\ edits'["running"] = edits["running"]
         /\ refusals' \in {refusals, refusals + 1}
         /\ faults' = 0 => faults = 0
<1>1. PICK lost \in SUBSET leaves :
        /\ IF lost = {} THEN UNCHANGED faults ELSE Fail
        /\ Apply(WithPut(edits[ds], leaves \ lost), keep)
  BY DEF SetAndApply
<1>2. faults' = 0 => faults = 0
  BY <1>1 DEF Fail, SessionTypeOK
<1> QED
  BY <1>1, <1>2 DEF Apply, Commit, Refuse, SessionTypeOK, Datastores

\* The leaves each list must have, one tree at a time.
LEMMA MandatoryLeaves ==
  /\ Mandatory("interfaces") = {"type"}
  /\ Mandatory("hardware") = {"class"}
  /\ Mandatory("bridges") = {"address", "bridge-type"}
  /\ Mandatory("lldp") = {}
  BY DEF Mandatory

\* A valid store stays valid if the leaves set bring along what is mandatory.
LEMMA ResultValid ==
  ASSUME NEW store, Valid("running", store), NEW e,
         \A l \in e.put : \A n \in Mandatory(l.tree) :
             LeafOf(l.tree, l.owner, n) \in Result(store, e)
  PROVE  Valid("running", Result(store, e))
<1>1. ASSUME NEW l \in store, l.tree \notin e.del, NEW n \in Mandatory(l.tree)
      PROVE  LeafOf(l.tree, l.owner, n) \in Result(store, e)
  BY <1>1 DEF Valid, Result, LeafOf
<1> QED
  BY <1>1 DEF Valid, Result

-----------------------------------------------------------------------------
(* The steps *)

\* A step that does not touch the running store or its edit.  Interfaces settle, and
\* the window closes, only where the store is written.
LEMMA UntouchedStep ==
  ASSUME CInv,
         stores'["running"] = stores["running"],
         edits'["running"] = edits["running"],
         refusals' \in {refusals, refusals + 1}, refusals \in Nat,
         faults' = 0 => faults = 0,
         UNCHANGED interfaces,
         \A i \in Ifaces : Settled(i)' => Settled(i),
         pc' \in Unset => pc \in Unset,
         pc' = "types" => pc = "types" /\ todo' \subseteq todo,
         pc' \notin {"down", "deleteLldp", "deleteInterfaces"} =>
             pc \notin {"down", "deleteLldp", "deleteInterfaces"},
         faults' = 0 => (pc \in Window => pc' \in Window)
  PROVE  CInv'
<1>1. StoreValid' /\ NothingSet' /\ Turns'
  BY DEF CInv, StoreValid, NothingSet, Turns, Valid
<1>2. Unspoilt'
  BY DEF CInv, Unspoilt, Published
<1>3. Cleared'
  <2>1. SUFFICES ASSUME faults' = 0, refusals' <= 1,
                        pc' \notin {"down", "deleteLldp", "deleteInterfaces"}
                 PROVE  Fresh' \/ Clearing'
    BY DEF Cleared
  <2>2. Fresh \/ (Clearing /\ refusals' = 1)
    BY <2>1 DEF CInv, Cleared, Clearing
  <2> QED
    BY <2>1, <2>2 DEF Fresh, Clearing
<1> QED
  BY <1>1, <1>2, <1>3 DEF CInv

\* The two deletions in main().
LEMMA DeletionClears ==
  ASSUME IInv, CInv, NEW tree \in {"lldp", "interfaces"}, DeleteAndApply(tree, TRUE),
         pc \in {"deleteLldp", "deleteInterfaces"}, UNCHANGED interfaces,
         pc' = IF tree = "lldp" THEN "deleteInterfaces" ELSE "collect"
  PROVE  CInv'
<1>1. /\ SessionTypeOK /\ StoreValid /\ refusals \in Nat /\ ds = "running"
      /\ interfaces = {} /\ edits["running"].put = {} /\ tree \in Trees
  BY DEF IInv, TypeOK, SessionTypeOK, Discipline, HomeDatastore, Stages, CInv, Trees
<1>2. PICK e \in Edit :
        /\ e.put \subseteq edits["running"].put
        /\ faults' = 0 => faults = 0 /\ e = WithDelete(edits["running"], tree)
        /\ Taken(e) \/ Declined(e, TRUE)
  BY <1>1, DeleteCall
<1>3. StoreValid'
  BY <1>1, DeleteCall
<1>4. e.put = {}
  BY <1>1, <1>2
<1>5. Valid("running", Result(stores["running"], e))
  BY <1>1, <1>4, ResultValid DEF StoreValid
<1>6. NothingSet' /\ Turns'
  BY <1>2, <1>4 DEF NothingSet, Turns, Taken, Declined, NoEdit
<1>7. Unspoilt'
  BY <1>1, <1>2, <1>5 DEF Unspoilt, Settled, Taken, Declined
<1>8. Cleared'
  <2>1. SUFFICES ASSUME faults' = 0, refusals' <= 1, tree = "interfaces"
                 PROVE  Fresh' \/ Clearing'
    BY DEF Cleared
  <2>2. "interfaces" \in e.del
    BY <1>2, <2>1 DEF WithDelete
  <2>3. CASE Taken(e)
    BY <1>4, <2>2, <2>3 DEF Taken, Result, Fresh
  <2>4. CASE Declined(e, TRUE)
    BY <1>1, <1>5, <2>1, <2>2, <2>4 DEF Declined, Clearing, Window
  <2> QED
    BY <1>2, <2>3, <2>4
<1> QED
  BY <1>3, <1>6, <1>7, <1>8 DEF CInv

\* main() up to the end of collect_interfaces().
LEMMA PrologueClears ==
  ASSUME IInv, CInv, Start \/ DeleteLldp \/ DeleteInterfaces \/ CollectInterfaces
  PROVE  CInv'
<1> USE DEF GoTo
<1>1. refusals \in Nat
  BY DEF IInv, TypeOK, SessionTypeOK
<1>2. CASE Start
  BY <1>1, <1>2, UntouchedStep DEF Start, session, Settled, Unset, Window
<1>3. CASE DeleteLldp
  BY <1>3, DeletionClears DEF DeleteLldp
<1>4. CASE DeleteInterfaces
  BY <1>4, DeletionClears DEF DeleteInterfaces
<1>5. CASE CollectInterfaces
  <2>1. /\ UNCHANGED <<stores, edits, refusals>> /\ pc = "collect" /\ pc' = "types"
        /\ todo' = interfaces' /\ interfaces = {} /\ edits["running"].put = {}
        /\ faults' = 0 => faults = 0
    BY <1>5 DEF CollectInterfaces, IInv, TypeOK, SessionTypeOK, Stages, Fail
  <2>2. StoreValid' /\ NothingSet' /\ Turns' /\ Unspoilt'
    BY <2>1 DEF CInv, StoreValid, NothingSet, Turns, Unspoilt, Valid, Settled
  <2>3. Cleared'
    BY <2>1 DEF CInv, Cleared, Fresh, Clearing, Window
  <2> QED
    BY <2>2, <2>3 DEF CInv
<1> QED
  BY <1>2, <1>3, <1>4, <1>5

\* A call on the running store once the interfaces are known.  What it sets for an
\* interface belongs to a known one; unless a call fails its result is valid, in the
\* window because of what it sets and later because the interfaces are.
LEMMA CallStep ==
  ASSUME CInv, StoreValid', NothingSet', Turns', UNCHANGED interfaces,
         refusals \in Nat, pc \notin {"down", "deleteLldp", "deleteInterfaces"},
         NEW e \in Edit, NEW keep, Taken(e) \/ Declined(e, keep),
         \A l \in e.put : l.tree = "interfaces" => l.owner \in interfaces,
         "interfaces" \in edits["running"].del <=> "interfaces" \in e.del,
         \A i \in Ifaces :
             Settled(i)' /\ faults' = 0
             => Settled(i) \/ LeafOf("interfaces", i, "type") \in e.put,
         faults' = 0 => faults = 0,
         /\ faults' = 0
         /\ pc \in Window \/ \A i \in Ifaces : Settled(i) => Published(i)
         /\ pc \in Window \/ edits["running"] = NoEdit
         => Valid("running", Result(stores["running"], e))
  PROVE  CInv'
<1>1. Unspoilt'
  <2>1. SUFFICES ASSUME faults' = 0, refusals' = 0
                 PROVE  /\ edits'["running"] = NoEdit
                        /\ \A i \in Ifaces : Settled(i)' => Published(i)'
    BY DEF Unspoilt
  <2>2. refusals = 0
    BY <2>1 DEF Taken, Declined
  <2>3. edits["running"] = NoEdit /\ \A i \in Ifaces : Settled(i) => Published(i)
    BY <2>1, <2>2 DEF CInv, Unspoilt
  <2>4. Taken(e)
    BY <2>1, <2>3 DEF Declined
  <2>5. "interfaces" \notin e.del
    BY <2>3 DEF NoEdit
  <2>6. \A i \in Ifaces : Settled(i)' => Published(i)'
    BY <2>1, <2>3, <2>4, <2>5 DEF Taken, Result, Published, LeafOf
  <2> QED
    BY <2>4, <2>6 DEF Taken
<1>2. Cleared'
  <2>1. SUFFICES ASSUME faults' = 0, refusals' <= 1
                 PROVE  Fresh' \/ Clearing'
    BY DEF Cleared
  <2>2. refusals <= 1
    BY <2>1 DEF Taken, Declined
  <2>3. CASE Fresh
    BY <2>3 DEF Fresh, Taken, Declined, Result
  <2>4. CASE Clearing
    <3>1. Taken(e)
      BY <2>1, <2>4 DEF Clearing, Declined
    <3> QED
      BY <2>4, <3>1 DEF Clearing, Taken, Result, Fresh
  <2> QED
    BY <2>1, <2>2, <2>3, <2>4 DEF CInv, Cleared
<1> QED
  BY <1>1, <1>2 DEF CInv

\* The types of the interfaces and, in the operational store, their status.
LEMMA InterfacesClear ==
  ASSUME IInv, CInv,
         \/ \E i \in Ifaces : SaveInterfaceRunning(i) \/ SaveInterfaceOperational(i)
         \/ SwitchToOperational \/ SwitchToRunning
  PROVE  CInv'
<1> USE DEF GoTo
<1>0. /\ SessionTypeOK /\ HomeDatastore /\ StoreValid /\ refusals \in Nat
  BY DEF IInv, TypeOK, SessionTypeOK, Discipline, CInv
<1>1. ASSUME NEW i \in Ifaces, SaveInterfaceRunning(i)
      PROVE  CInv'
  <2> DEFINE put == {LeafOf("interfaces", i, "type")}
  <2>0. put \in SUBSET Leaf
    BY DEF LeafOf, ConfigLeaf, Leaf
  <2>1. /\ ds = "running" /\ SetAndApply(put, FALSE)
        /\ pc = "types" /\ pc' = "types" /\ interfaces' = interfaces
        /\ todo' = todo \ {i} /\ i \in todo
    BY <1>0, <1>1 DEF SaveInterfaceRunning, HomeDatastore
  <2>2. edits["running"].put = {} /\ i \in interfaces
    BY <2>1 DEF CInv, NothingSet, Turns, Unset
  <2>3. PICK e \in Edit :
          /\ e.put \subseteq edits["running"].put \cup put
          /\ e.del = edits["running"].del
          /\ faults' = 0 => faults = 0 /\ e = WithPut(edits["running"], put)
          /\ Taken(e) \/ Declined(e, FALSE)
    BY <1>0, <2>0, <2>1, SetCall
  <2>4. StoreValid'
    BY <1>0, <2>0, <2>1, SetCall
  <2>5. NothingSet' /\ Turns'
    BY <2>1, <2>3 DEF CInv, NothingSet, Turns, Taken, Declined, NoEdit
  <2>6. \A l \in e.put : /\ l.tree = "interfaces" /\ l.owner = i
                           /\ LeafOf(l.tree, l.owner, "type") \in e.put
    BY <2>2, <2>3 DEF LeafOf
  <2>7. Valid("running", Result(stores["running"], e))
    <3>1. \A l \in e.put : \A n \in Mandatory(l.tree) :
              LeafOf(l.tree, l.owner, n) \in Result(stores["running"], e)
      BY <2>6, MandatoryLeaves DEF Result
    <3> QED
      BY <1>0, <3>1, ResultValid DEF StoreValid
  <2>8. \A j \in Ifaces :
            Settled(j)' /\ faults' = 0
            => Settled(j) \/ LeafOf("interfaces", j, "type") \in e.put
    BY <2>1, <2>3 DEF Settled, WithPut
  <2> QED
    BY <1>0, <2>1, <2>2, <2>3, <2>4, <2>5, <2>6, <2>7, <2>8, CallStep
<1>2. ASSUME NEW i \in Ifaces, SaveInterfaceOperational(i)
      PROVE  CInv'
  <2>1. /\ ds = "operational"
        /\ SetAndApply({LeafOf("interfaces", i, n) : n \in {"status", "speed"}}, FALSE)
        /\ pc = "statuses" /\ pc' = "statuses" /\ interfaces' = interfaces
    BY <1>0, <1>2 DEF SaveInterfaceOperational, HomeDatastore
  <2>2. /\ stores'["running"] = stores["running"]
        /\ edits'["running"] = edits["running"]
        /\ refusals' \in {refusals, refusals + 1}
        /\ faults' = 0 => faults = 0
    BY <1>0, <2>1, OperationalCall
  <2> QED
    BY <1>0, <2>1, <2>2, UntouchedStep DEF Settled, Unset, Window
<1>3. CASE SwitchToOperational
  BY <1>0, <1>3, UntouchedStep DEF SwitchToOperational, Settled, Unset, Window
<1>4. CASE SwitchToRunning
  BY <1>0, <1>4, UntouchedStep DEF SwitchToRunning, Settled, Unset, Window
<1> QED
  BY <1>1, <1>2, <1>3, <1>4

\* save_hardware_chassis().
LEMMA ChassisClears ==
  ASSUME IInv, CInv, HardwareClass \/ HardwareUnknown \/ HardwareOperational
  PROVE  CInv'
<1> USE DEF GoTo
<1>0. /\ SessionTypeOK /\ HomeDatastore /\ CarryOver /\ StoreValid /\ refusals \in Nat
  BY DEF IInv, TypeOK, SessionTypeOK, Discipline, CInv
<1>1. CASE HardwareClass
  <2> DEFINE put == {ChassisClass}
             e == WithPut(edits["running"], put)
  <2>1. /\ ds = "running" /\ pc = "chassis" /\ pc' \notin Unset
        /\ interfaces' = interfaces /\ faults' = faults
        /\ Apply(WithPut(edits[ds], put), FALSE)
    BY <1>0, <1>1 DEF HardwareClass, HomeDatastore, Unset, Apply
  <2>2. edits["running"].put = {} /\ edits["running"] \in Edit
    BY <1>0, <2>1 DEF CInv, NothingSet, Unset, SessionTypeOK, Datastores
  <2>3. put \in SUBSET Leaf
    BY DEF ChassisClass, LeafOf, ConfigLeaf, Leaf
  <2>4. e \in Edit /\ e.put = put /\ e.del = edits["running"].del
    BY <2>2, <2>3 DEF WithPut, Edit
  <2>5. StoreValid' /\ (Taken(e) \/ Declined(e, FALSE))
    BY <1>0, <2>1, <2>4, RunningCall
  <2>6. NothingSet' /\ Turns'
    BY <2>1 DEF NothingSet, Turns, Unset
  <2>7. \A l \in e.put : /\ l.tree = "hardware"
                         /\ LeafOf(l.tree, l.owner, "class") \in e.put
    BY <2>4 DEF ChassisClass, LeafOf
  <2>8. Valid("running", Result(stores["running"], e))
    <3>1. \A l \in e.put : \A n \in Mandatory(l.tree) :
              LeafOf(l.tree, l.owner, n) \in Result(stores["running"], e)
      BY <2>7, MandatoryLeaves DEF Result
    <3> QED
      BY <1>0, <3>1, ResultValid DEF StoreValid
  <2>9. \A j \in Ifaces : Settled(j)' => Settled(j)
    BY <2>1 DEF Settled
  <2> HIDE DEF e
  <2> QED
    BY <1>0, <2>1, <2>4, <2>5, <2>6, <2>7, <2>8, <2>9, CallStep
<1>2. CASE HardwareUnknown
  <2>1. faults' # 0
    BY <1>0, <1>2 DEF HardwareUnknown, Fail, SessionTypeOK
  <2> QED
    BY <1>0, <1>2, <2>1, UntouchedStep DEF HardwareUnknown, Settled, Unset
<1>3. CASE HardwareOperational
  <2>1. /\ ds = "operational"
        /\ SetAndApply({LeafOf("hardware", Chassis, "inventory")}, FALSE)
        /\ pc = "chassisStatus" /\ pc' = "collectIps" /\ interfaces' = interfaces
    BY <1>0, <1>3 DEF HardwareOperational, HomeDatastore
  <2>2. /\ stores'["running"] = stores["running"]
        /\ edits'["running"] = edits["running"]
        /\ refusals' \in {refusals, refusals + 1}
        /\ faults' = 0 => faults = 0
    BY <1>0, <2>1, OperationalCall
  <2> QED
    BY <1>0, <2>1, <2>2, UntouchedStep DEF Settled, Unset, Window
<1> QED
  BY <1>1, <1>2, <1>3

\* dbus_query() and the bridges, up to the subscriptions.
LEMMA BridgesClear ==
  ASSUME IInv, CInv,
         \/ DbusQuery \/ CollectBridges \/ DeleteBridges \/ Subscribe
         \/ \E b \in Bridges : SaveBridge(b)
  PROVE  CInv'
<1> USE DEF GoTo
<1>0. /\ SessionTypeOK /\ HomeDatastore /\ CarryOver /\ StoreValid /\ refusals \in Nat
  BY DEF IInv, TypeOK, SessionTypeOK, Discipline, CInv
<1>1. ASSUME DbusQuery \/ CollectBridges \/ Subscribe
      PROVE  CInv'
  <2>1. faults' = 0 => faults = 0
    BY <1>0, <1>1 DEF DbusQuery, CollectBridges, Subscribe, session, Fail, SessionTypeOK
  <2>2. UNCHANGED <<stores, edits, refusals, interfaces>>
    BY <1>1 DEF DbusQuery, CollectBridges, Subscribe, session
  <2>3. pc \in {"dbus", "collectBridges", "saveBridges"}
        /\ pc' \in {"collectBridges", "deleteBridges", "sleep"}
    BY <1>1 DEF DbusQuery, CollectBridges, Subscribe
  <2> QED
    BY <1>0, <2>1, <2>2, <2>3, UntouchedStep DEF Settled, Unset, Window
<1>2. CASE DeleteBridges
  <2>1. /\ ds = "running" /\ DeleteAndApply("bridges", FALSE)
        /\ pc = "deleteBridges" /\ pc' = "saveBridges" /\ interfaces' = interfaces
    BY <1>0, <1>2 DEF DeleteBridges, HomeDatastore
  <2>2. PICK e \in Edit :
          /\ e.put \subseteq edits["running"].put
          /\ e.del \in {edits["running"].del, edits["running"].del \cup {"bridges"}}
          /\ faults' = 0 => faults = 0 /\ e = WithDelete(edits["running"], "bridges")
          /\ Taken(e) \/ Declined(e, FALSE)
    BY <1>0, <2>1, DeleteCall DEF Trees
  <2>3. StoreValid'
    BY <1>0, <2>1, DeleteCall DEF Trees
  <2>4. NothingSet' /\ Turns' /\ \A j \in Ifaces : Settled(j)' => Settled(j)
    BY <2>1 DEF NothingSet, Turns, Unset, Settled
  <2>5. \A l \in e.put : l.tree = "interfaces" => l.owner \in interfaces
    BY <1>0, <2>2 DEF CarryOver
  <2>6. edits["running"] = NoEdit => Valid("running", Result(stores["running"], e))
    BY <1>0, <2>2, ResultValid DEF NoEdit, StoreValid
  <2>7. "interfaces" \in edits["running"].del <=> "interfaces" \in e.del
    BY <2>2
  <2> QED
    BY <1>0, <2>1, <2>2, <2>3, <2>4, <2>5, <2>6, <2>7, CallStep DEF Window
<1>3. ASSUME NEW b \in Bridges, SaveBridge(b)
      PROVE  CInv'
  <2> DEFINE put == {LeafOf("bridges", b, n) :
                        n \in {"address", "bridge-type", "component"}}
  <2>0. put \in SUBSET Leaf
    BY DEF LeafOf, ConfigLeaf, Leaf
  <2>1. /\ ds = "running" /\ SetAndApply(put, FALSE)
        /\ pc = "saveBridges" /\ pc' = "saveBridges" /\ interfaces' = interfaces
    BY <1>0, <1>3 DEF SaveBridge, HomeDatastore
  <2>2. PICK e \in Edit :
          /\ e.put \subseteq edits["running"].put \cup put
          /\ e.del = edits["running"].del
          /\ faults' = 0 => faults = 0 /\ e = WithPut(edits["running"], put)
          /\ Taken(e) \/ Declined(e, FALSE)
    BY <1>0, <2>0, <2>1, SetCall
  <2>3. StoreValid'
    BY <1>0, <2>0, <2>1, SetCall
  <2>4. NothingSet' /\ Turns' /\ \A j \in Ifaces : Settled(j)' => Settled(j)
    BY <2>1 DEF NothingSet, Turns, Unset, Settled
  <2>5. \A l \in e.put : l.tree = "interfaces" => l.owner \in interfaces
    BY <1>0, <2>2 DEF CarryOver, LeafOf
  <2>6. ASSUME edits["running"] = NoEdit, faults' = 0
        PROVE  Valid("running", Result(stores["running"], e))
    <3>1. e.put = put
      BY <2>2, <2>6 DEF NoEdit, WithPut
    <3>2. \A l \in e.put : l.tree = "bridges" /\ l.owner = b
      BY <3>1 DEF LeafOf
    <3>3. \A l \in e.put : \A n \in Mandatory(l.tree) :
              LeafOf(l.tree, l.owner, n) \in Result(stores["running"], e)
      BY <3>1, <3>2, MandatoryLeaves DEF Result
    <3> QED
      BY <1>0, <3>3, ResultValid DEF StoreValid
  <2> QED
    BY <1>0, <2>1, <2>2, <2>3, <2>4, <2>5, <2>6, CallStep DEF Window
<1> QED
  BY <1>1, <1>2, <1>3

\* update_ips().
LEMMA AddressesClear ==
  ASSUME IInv, CInv,
         \/ Wake \/ CollectIps \/ IpsSaved
         \/ \E i \in Ifaces, a \in Addrs : SaveAddress(i, a)
  PROVE  CInv'
<1> USE DEF GoTo
<1>0. /\ SessionTypeOK /\ HomeDatastore /\ CarryOver /\ StoreValid /\ refusals \in Nat
  BY DEF IInv, TypeOK, SessionTypeOK, Discipline, CInv
<1>1. ASSUME Wake \/ CollectIps \/ IpsSaved
      PROVE  CInv'
  <2>1. faults' = 0 => faults = 0
    BY <1>0, <1>1 DEF Wake, CollectIps, IpsSaved, session, Fail, SessionTypeOK
  <2>2. UNCHANGED <<stores, edits, refusals, interfaces>>
    BY <1>1 DEF Wake, CollectIps, IpsSaved, session
  <2>3. pc \in {"sleep", "collectIps", "saveIps"}
        /\ pc' \in {"collectIps", "saveIps", "collectSpeeds", "dbus"}
    BY <1>1 DEF Wake, CollectIps, IpsSaved
  <2> QED
    BY <1>0, <2>1, <2>2, <2>3, UntouchedStep DEF Settled, Unset, Window
<1>2. ASSUME NEW i \in Ifaces, NEW a \in Addrs, SaveAddress(i, a)
      PROVE  CInv'
  <2> DEFINE put == {LeafOf("interfaces", i, n) :
                        n \in IF i = cur THEN {a} ELSE {"mtu", a}}
  <2>0. put \in SUBSET Leaf
    BY DEF LeafOf, ConfigLeaf, Leaf
  <2>1. /\ ds = "running" /\ SetAndApply(put, TRUE) /\ <<i, a>> \in rows
        /\ pc = "saveIps" /\ pc' = "saveIps" /\ interfaces' = interfaces
    BY <1>0, <1>2 DEF SaveAddress, HomeDatastore
  <2>2. i \in interfaces
    BY <2>1 DEF IInv, Stages
  <2>3. PICK e \in Edit :
          /\ e.put \subseteq edits["running"].put \cup put
          /\ e.del = edits["running"].del
          /\ faults' = 0 => faults = 0 /\ e = WithPut(edits["running"], put)
          /\ Taken(e) \/ Declined(e, TRUE)
    BY <1>0, <2>0, <2>1, SetCall
  <2>4. StoreValid'
    BY <1>0, <2>0, <2>1, SetCall
  <2>5. NothingSet' /\ Turns' /\ \A j \in Ifaces : Settled(j)' => Settled(j)
    BY <2>1 DEF NothingSet, Turns, Unset, Settled
  <2>6. \A l \in e.put : l.tree = "interfaces" => l.owner \in interfaces
    BY <1>0, <2>2, <2>3 DEF CarryOver, LeafOf
  <2>7. ASSUME edits["running"] = NoEdit, \A j \in Ifaces : Settled(j) => Published(j)
        PROVE  Valid("running", Result(stores["running"], e))
    <3>1. LeafOf("interfaces", i, "type") \in Result(stores["running"], e)
      BY <2>1, <2>2, <2>3, <2>7 DEF Settled, Published, NoEdit, Result, LeafOf
    <3>2. \A l \in e.put : l.tree = "interfaces" /\ l.owner = i
      BY <2>3, <2>7 DEF NoEdit, LeafOf
    <3>3. \A l \in e.put : \A n \in Mandatory(l.tree) :
              LeafOf(l.tree, l.owner, n) \in Result(stores["running"], e)
      BY <3>1, <3>2, MandatoryLeaves
    <3> QED
      BY <1>0, <3>3, ResultValid DEF StoreValid
  <2> QED
    BY <1>0, <2>1, <2>3, <2>4, <2>5, <2>6, <2>7, CallStep DEF Window
<1> QED
  BY <1>1, <1>2

\* update_interfaces_speed() works on the operational store.
LEMMA SpeedsClear ==
  ASSUME IInv, CInv,
         \/ CollectSpeeds \/ SpeedsSaved
         \/ \E r \in Ifaces \X (Addrs \cup {"link"}) : SaveSpeed(r)
  PROVE  CInv'
<1> USE DEF GoTo
<1>0. SessionTypeOK /\ HomeDatastore /\ refusals \in Nat
  BY DEF IInv, TypeOK, SessionTypeOK, Discipline
<1>1. ASSUME CollectSpeeds \/ SpeedsSaved
      PROVE  CInv'
  <2>1. faults' = 0 => faults = 0
    BY <1>0, <1>1 DEF CollectSpeeds, SpeedsSaved, Fail, SessionTypeOK
  <2>2. UNCHANGED <<stores, edits, refusals, interfaces>>
    BY <1>1 DEF CollectSpeeds, SpeedsSaved
  <2>3. pc \in {"collectSpeeds", "saveSpeeds"} /\ pc' \in {"saveSpeeds", "sleep"}
    BY <1>1 DEF CollectSpeeds, SpeedsSaved
  <2> QED
    BY <1>0, <2>1, <2>2, <2>3, UntouchedStep DEF Settled, Unset, Window
<1>2. ASSUME NEW r \in Ifaces \X (Addrs \cup {"link"}), SaveSpeed(r)
      PROVE  CInv'
  <2>1. /\ ds = "operational"
        /\ SetAndApply({LeafOf("interfaces", r[1], "speed")}, FALSE)
        /\ pc = "saveSpeeds" /\ pc' = "saveSpeeds" /\ interfaces' = interfaces
    BY <1>0, <1>2 DEF SaveSpeed, HomeDatastore
  <2>2. /\ stores'["running"] = stores["running"]
        /\ edits'["running"] = edits["running"]
        /\ refusals' \in {refusals, refusals + 1}
        /\ faults' = 0 => faults = 0
    BY <1>0, <2>1, OperationalCall
  <2> QED
    BY <1>0, <2>1, <2>2, UntouchedStep DEF Settled, Unset, Window
<1> QED
  BY <1>1, <1>2

\* The end of the process, and what the kernel does.
LEMMA SurroundingsClear ==
  ASSUME IInv, CInv, Crash \/ DbusExit \/ Kernel \/ UNCHANGED vars
  PROVE  CInv'
<1>1. CASE Crash \/ DbusExit
  <2>1. /\ pc' = "down" /\ interfaces' = {} /\ edits'["running"] = NoEdit
        /\ stores'["running"] = stores["running"]
    BY <1>1 DEF Crash, DbusExit, End, GoTo, SessionEnd, IInv, TypeOK, SessionTypeOK,
                Datastores
  <2> QED
    BY <2>1 DEF CInv, StoreValid, Valid, NothingSet, Turns, Unspoilt, Cleared, Settled,
                NoEdit
<1>2. CASE Kernel \/ UNCHANGED vars
  <2>1. UNCHANGED <<session, local>>
    BY <1>2 DEF Kernel, LinkAppears, LinkVanishes, AddressAppears, AddressVanishes, vars
  <2>2. UNCHANGED <<stores, edits, faults, refusals, pc, interfaces, todo>>
    BY <2>1 DEF session, local
  <2> QED
    BY <2>2 DEF CInv, StoreValid, Valid, NothingSet, Turns, Unspoilt, Cleared, Settled,
                Published, Fresh, Clearing
<1> QED
  BY <1>1, <1>2

\* The first run finds a valid store without interfaces.
LEMMA InitClears == Init => CInv
<1> SUFFICES ASSUME Init PROVE CInv
  OBVIOUS
<1>1. PICK lldp \in SUBSET {LeafOf("lldp", "lldp", "config")} :
        stores = [d \in Datastores |-> IF d = "running" THEN lldp ELSE {}]
  BY DEF Init, SessionInit
<1>2. stores["running"] = lldp /\ \A l \in lldp : l.tree = "lldp"
  BY <1>1 DEF Datastores, LeafOf
<1>3. StoreValid
  BY <1>2, MandatoryLeaves DEF StoreValid, Valid
<1>4. NothingSet /\ Turns /\ Unspoilt /\ Cleared
  BY DEF Init, SessionInit, NothingSet, Turns, Unspoilt, Cleared, Settled, Datastores,
         NoEdit
<1> QED
  BY <1>3, <1>4 DEF CInv

\* Every step of the specification preserves the invariant.
LEMMA NextClears ==
  ASSUME IInv, CInv, [Next]_vars
  PROVE  CInv'
  BY PrologueClears, InterfacesClear, ChassisClears, BridgesClear, AddressesClear,
     SpeedsClear, SurroundingsClear DEF Next, Daemon, Startup, Refresh

-----------------------------------------------------------------------------
(* Theorems *)

\* The store stays valid, and what the start-up leaves behind is as CInv says, in
\* every reachable state.
THEOREM ConfigInvariance == Spec => []CInv
<1>1. Init => CInv
  BY InitClears
<1>2. IInv /\ CInv /\ [Next]_vars => CInv'
  BY NextClears
<1> QED
  BY <1>1, <1>2, Invariance, PTL DEF Spec

\* Whatever main() and its functions forget to discard, a run without a failed call
\* and without a refusal has nothing pending between two calls to sysrepo.
THEOREM NothingPendingHolds == Spec => []NothingPendingWithoutFailure
<1>1. IInv /\ CInv => NothingPendingWithoutFailure
  BY DEF IInv, Discipline, CarryOver, CInv, Unspoilt, NothingPendingWithoutFailure,
         Datastores
<1> QED
  BY <1>1, Invariance, ConfigInvariance, PTL

\* One refusal at start-up is made up for by the commit that follows it: an interface
\* that is gone is still configured only after a failed call or a second refusal.
THEOREM StaleConfigHolds == Spec => []StaleConfigNeedsTwoFailures
<1>1. IInv /\ CInv => StaleConfigNeedsTwoFailures
  <2>1. SUFFICES ASSUME IInv, CInv, serving, faults = 0, refusals <= 1
                 PROVE  Fresh
    BY DEF StaleConfigNeedsTwoFailures, Fresh, IInv, TypeOK, SessionTypeOK
  <2>2. pc \in {"sleep", "collectIps", "saveIps", "collectSpeeds", "saveSpeeds"}
    BY <2>1 DEF IInv, Stages
  <2> QED
    BY <2>1, <2>2 DEF CInv, Cleared, Clearing, Window
<1> QED
  BY <1>1, Invariance, ConfigInvariance, PTL

-----------------------------------------------------------------------------
(* P and PP instantiate the same definitions. *)

\* What Providers assumes of its constants.
LEMMA HandlerConstants == PP!ProvidersAssumption
  BY DaemonAssumption, SystemAssumption
     DEF PP!ProvidersAssumption, PP!NameProviders, Subscriptions

\* The two instances share what is made of constants,
LEMMA SameThreads ==
  /\ P!NameProviders = PP!NameProviders /\ P!Threads = PP!Threads
  /\ P!NoSet = PP!NoSet /\ P!NoReply = PP!NoReply /\ P!Filling = PP!Filling
  /\ Subscriptions = PP!Threads
  BY DEF P!NameProviders, PP!NameProviders, P!Threads, PP!Threads, P!NoSet, PP!NoSet,
         P!NoReply, PP!NoReply, P!Filling, PP!Filling, Subscriptions

\* the initial states,
LEMMA SameInit == P!Init <=> PP!Init
  BY SameThreads DEF P!Init, PP!Init

\* what an answer holds,
LEMMA SameAnswered == ASSUME NEW r PROVE P!Answered(r) = PP!Answered(r)
  BY DEF P!Answered, PP!Answered

\* the changes of the links
LEMMA SameKernel ==
  ASSUME NEW i
  PROVE  /\ P!LinkAppears(i) <=> PP!LinkAppears(i)
         /\ P!LinkVanishes(i) <=> PP!LinkVanishes(i)
  BY SameThreads
     DEF P!LinkAppears, PP!LinkAppears, P!LinkVanishes, PP!LinkVanishes, P!Warm, PP!Warm,
         P!process, PP!process

\* and the steps of the handlers.
LEMMA SameHandler ==
  ASSUME NEW t
  PROVE  /\ P!Request(t) <=> PP!Request(t)
         /\ P!ReturnEarly(t) <=> PP!ReturnEarly(t)
         /\ P!LldpAnswer <=> PP!LldpAnswer
         /\ P!LldpCrash <=> PP!LldpCrash
         /\ P!AllocCache(t) <=> PP!AllocCache(t)
         /\ P!Connect(t) <=> PP!Connect(t)
         /\ P!ConnectExit(t) <=> PP!ConnectExit(t)
         /\ P!Handler(t) <=> PP!Handler(t)
<1> USE DEF P!GoTo, PP!GoTo, P!Tear, PP!Tear, P!Release, PP!Release, P!Fault, PP!Fault,
   P!Die, PP!Die, P!Return, PP!Return, P!process, PP!process, P!history, PP!history,
   P!NameProviders, PP!NameProviders, P!NoSet, PP!NoSet, P!NoReply, PP!NoReply,
   P!Filling, PP!Filling
<1>0. (P!Contended(t) <=> PP!Contended(t)) /\ (P!Unsound(t) <=> PP!Unsound(t))
  BY DEF P!Contended, PP!Contended, P!Unsound, PP!Unsound
<1>1. /\ P!Request(t) <=> PP!Request(t)
      /\ P!ReturnEarly(t) <=> PP!ReturnEarly(t)
      /\ P!LldpAnswer <=> PP!LldpAnswer
      /\ P!LldpCrash <=> PP!LldpCrash
      /\ P!AllocCache(t) <=> PP!AllocCache(t)
  BY DEF P!Request, PP!Request, P!ReturnEarly, PP!ReturnEarly, P!LldpAnswer,
     PP!LldpAnswer, P!LldpCrash, PP!LldpCrash, P!AllocCache, PP!AllocCache
<1>2. /\ P!Connect(t) <=> PP!Connect(t)
      /\ P!ConnectExit(t) <=> PP!ConnectExit(t)
      /\ P!Malloc(t) <=> PP!Malloc(t)
      /\ P!InitSet(t) <=> PP!InitSet(t)
      /\ P!AllocFillCache(t) <=> PP!AllocFillCache(t)
      /\ P!NameIndex(t) <=> PP!NameIndex(t)
  BY <1>0
     DEF P!Connect, PP!Connect, P!ConnectExit, PP!ConnectExit, P!Malloc, PP!Malloc,
     P!InitSet, PP!InitSet, P!AllocFillCache, PP!AllocFillCache, P!NameIndex,
     PP!NameIndex
<1>3. /\ P!CheckNames(t) <=> PP!CheckNames(t)
      /\ P!AllocFillCacheFails(t) <=> PP!AllocFillCacheFails(t)
      /\ P!FillDone(t) <=> PP!FillDone(t)
  BY DEF P!CheckNames, PP!CheckNames, P!AllocFillCacheFails, PP!AllocFillCacheFails,
     P!FillDone, PP!FillDone
<1>4. /\ P!AddNameCrash(t) <=> PP!AddNameCrash(t)
      /\ P!AddNameLoops(t) <=> PP!AddNameLoops(t)
  BY <1>0 DEF P!AddNameCrash, PP!AddNameCrash, P!AddNameLoops, PP!AddNameLoops
<1>5. ASSUME NEW n
      PROVE  P!AddName(t, n) <=> PP!AddName(t, n)
  BY <1>0 DEF P!AddName, PP!AddName
<1>6. ASSUME NEW n
      PROVE  P!Visit(t, n) <=> PP!Visit(t, n)
  <2>1. ASSUME NEW r PROVE P!Report(t, r, n) = PP!Report(t, r, n)
    BY SameAnswered
       DEF P!Report, PP!Report, P!Entered, PP!Entered, P!Accepted, PP!Accepted, P!Value,
           PP!Value, P!OperState, PP!OperState
  <2> QED
    BY <2>1 DEF P!Visit, PP!Visit
<1>7. /\ P!VisitCrash(t) <=> PP!VisitCrash(t)
      /\ P!Answer(t) <=> PP!Answer(t)
  BY DEF P!VisitCrash, PP!VisitCrash, P!Answer, PP!Answer
<1>8. P!NameHandler(t) <=> PP!NameHandler(t)
  BY <1>1, <1>2, <1>3, <1>4, <1>5, <1>6, <1>7 DEF P!NameHandler, PP!NameHandler,
     P!GetInterfaceNames, PP!GetInterfaceNames
<1> QED
  BY <1>1, <1>2, <1>8 DEF P!Handler, PP!Handler

-----------------------------------------------------------------------------
(* The invariant: what holds of the two parts by themselves, and four      *)
(* facts about them together.                                              *)

\* There are no requests until data_provider() has subscribed.
Dormant ==
    ~serving =>
        /\ subs = {} /\ interface_names = None
        /\ \A t \in PP!Threads : hpc[t] = "idle"

\* Nothing of the handlers outlives the process.
Reset == pc = "down" => PP!Init

\* The main thread and the handlers mean the same ports.
Agreed ==
    /\ PP!Calm /\ faults = 0
    /\ pc \notin {"down", "deleteLldp", "deleteInterfaces", "collect"}
    => interfaces = PP!Known

\* There is a descriptor for each socket of the handlers, so none of them exits, unless a
\* call fails all the same.
Surviving == PP!Calm /\ fds = 0 => alive \/ flawed \/ (hfaults > 0 /\ ~Exhausted)

MainInv == IInv /\ CInv
HandlerInv == PP!Basics /\ PP!Orderly
SystemInv == MainInv /\ HandlerInv /\ Dormant /\ Reset /\ Agreed /\ Surviving

\* The steps of the handlers.
HandlersStep(t) == (alive /\ Request(t)) \/ HandlerStep(t)

\* A step of a handler changes nothing of the main thread.
LEMMA HandlersStepIs ==
  ASSUME PP!Basics, NEW t \in P!Threads, HandlersStep(t)
  PROVE  /\ alive /\ t \in PP!Threads /\ (PP!Request(t) \/ PP!Handler(t))
         /\ UNCHANGED <<session, local, kernel, late>>
<1>1. t \in PP!Threads /\ alive /\ UNCHANGED main
  BY SameThreads DEF HandlersStep, Request, HandlerStep
<1>2. PP!Request(t) \/ PP!Handler(t)
  <2>1. CASE OpenSocket(t)
    BY <1>1, <2>1, SameHandler
       DEF OpenSocket, PP!Handler, PP!NameHandler, PP!Threads
  <2>2. CASE OpenSecondSocket(t)
    BY <1>1, <2>2, SameHandler
       DEF OpenSecondSocket, PP!Handler, PP!NameHandler, PP!GetInterfaceNames,
           PP!Threads, PP!Basics, PP!Shape
  <2>3. CASE P!Request(t) \/ P!Handler(t)
    BY <2>3, SameHandler
  <2> QED
    BY <2>1, <2>2, <2>3 DEF HandlersStep, Request, HandlerStep
<1>3. links' = links /\ late' = late
  BY <1>2 DEF PP!history, PP!Request, PP!Handler, PP!ReturnEarly, PP!LldpAnswer,
     PP!LldpCrash, PP!NameHandler,
     PP!AllocCache, PP!GetInterfaceNames, PP!CheckNames, PP!Malloc, PP!InitSet,
     PP!Connect, PP!ConnectExit, PP!AllocFillCache, PP!AllocFillCacheFails, PP!NameIndex,
     PP!AddName, PP!AddNameLoops, PP!AddNameCrash, PP!FillDone, PP!Visit, PP!VisitCrash,
     PP!Answer
<1> QED
  BY <1>1, <1>2, <1>3 DEF main, kernel

\* Calls to sysrepo do not forget that one has failed.
LEMMA SetRemembers ==
  ASSUME faults \in Nat, NEW leaves, NEW keep \in BOOLEAN, SetAndApply(leaves, keep)
  PROVE  faults' = 0 => faults = 0
  BY DEF SetAndApply, Fail

\* Nor do calls that delete a tree.
LEMMA DeleteRemembers ==
  ASSUME faults \in Nat, NEW tree, NEW keep \in BOOLEAN, DeleteAndApply(tree, keep)
  PROVE  faults' = 0 => faults = 0
  BY DEF DeleteAndApply, Fail

\* Nor does the main thread.
LEMMA DaemonRemembers ==
  ASSUME faults \in Nat, Daemon
  PROVE  faults' = 0 => faults = 0
<1>1. Fail => faults' # 0
  BY DEF Fail
<1>2. CASE CollectInterfaces \/ HardwareUnknown \/ CollectIps
  BY <1>1, <1>2 DEF CollectInterfaces, HardwareUnknown, CollectIps
<1>3. CASE CollectBridges \/ Subscribe \/ CollectSpeeds
  BY <1>1, <1>3 DEF CollectBridges, Subscribe, CollectSpeeds
<1>4. CASE DeleteLldp \/ DeleteInterfaces \/ DeleteBridges
  BY <1>4, DeleteRemembers DEF DeleteLldp, DeleteInterfaces, DeleteBridges
<1>5. CASE \E i \in Ifaces : SaveInterfaceRunning(i) \/ SaveInterfaceOperational(i)
  BY <1>5, SetRemembers DEF SaveInterfaceRunning, SaveInterfaceOperational
<1>6. CASE HardwareOperational
  BY <1>6, SetRemembers DEF HardwareOperational
<1>7. CASE \E b \in Bridges : SaveBridge(b)
  BY <1>7, SetRemembers DEF SaveBridge
<1>8. CASE \E i \in Ifaces, a \in Addrs : SaveAddress(i, a)
  BY <1>8, SetRemembers DEF SaveAddress
<1>9. CASE \E r \in Ifaces \X (Addrs \cup {"link"}) : SaveSpeed(r)
  BY <1>9, SetRemembers DEF SaveSpeed
<1>10. CASE Start \/ SwitchToOperational \/ SwitchToRunning \/ HardwareClass
  BY <1>10 DEF Start, session, SwitchToOperational, SwitchToRunning, HardwareClass
<1>11. CASE DbusQuery \/ Wake \/ IpsSaved \/ SpeedsSaved
  BY <1>11 DEF DbusQuery, Wake, IpsSaved, session, SpeedsSaved
<1> QED
  BY <1>2, <1>3, <1>4, <1>5, <1>6, <1>7, <1>8, <1>9, <1>10, <1>11
     DEF Daemon, Startup, Refresh

\* The main thread changes no ports, takes those it finds, and subscribes once.
LEMMA DaemonStep ==
  ASSUME faults \in Nat, Daemon
  PROVE  /\ UNCHANGED kernel /\ pc' # "down"
         /\ pc # "collect" => UNCHANGED interfaces
         /\ pc = "collect" /\ faults' = 0 => interfaces' = links
         /\ pc' \notin {"deleteLldp", "deleteInterfaces", "collect"} =>
                pc \notin {"down", "deleteLldp", "deleteInterfaces"}
         /\ serving' \/ UNCHANGED <<serving, subs>>
<1> USE DEF GoTo, session, kernel
<1>1. Fail => faults' # 0
  BY DEF Fail
<1>2. CASE Start \/ DeleteLldp \/ DeleteInterfaces
  BY <1>2 DEF Start, DeleteLldp, DeleteInterfaces
<1>3. CASE CollectInterfaces
  BY <1>1, <1>3 DEF CollectInterfaces
<1>4. CASE \/ \E i \in Ifaces : SaveInterfaceRunning(i) \/ SaveInterfaceOperational(i)
           \/ SwitchToOperational \/ SwitchToRunning
  BY <1>4 DEF SaveInterfaceRunning, SaveInterfaceOperational, SwitchToOperational,
              SwitchToRunning
<1>5. CASE HardwareClass \/ HardwareUnknown \/ HardwareOperational \/ DbusQuery
  BY <1>5 DEF HardwareClass, HardwareUnknown, HardwareOperational, DbusQuery
<1>6. CASE \/ CollectBridges \/ DeleteBridges \/ \E b \in Bridges : SaveBridge(b)
           \/ Subscribe
  BY <1>6 DEF CollectBridges, DeleteBridges, SaveBridge, Subscribe
<1>7. CASE Wake \/ CollectIps \/ IpsSaved
           \/ \E i \in Ifaces, a \in Addrs : SaveAddress(i, a)
  BY <1>7 DEF Wake, CollectIps, SaveAddress, IpsSaved
<1>8. CASE \/ CollectSpeeds \/ SpeedsSaved
           \/ \E r \in Ifaces \X (Addrs \cup {"link"}) : SaveSpeed(r)
  BY <1>8 DEF CollectSpeeds, SaveSpeed, SpeedsSaved
<1> QED
  BY <1>2, <1>3, <1>4, <1>5, <1>6, <1>7, <1>8 DEF Daemon, Startup, Refresh

\* The end of the process resets both parts.
LEMMA EndResets ==
  ASSUME IInv, Reset, ProcessEnds
  PROVE  Crash /\ End /\ PP!Init'
<1>1. End /\ (alive => Crash)
  BY DEF ProcessEnds, Crash, DbusExit
<1>2. ~alive => pc # "down"
  BY DEF Reset, PP!Init
<1>3. links' \in SUBSET Ifaces
  BY <1>1 DEF End, kernel, IInv, TypeOK, LocalTypeOK
<1>4. PP!Init'
  BY <1>3, SameThreads DEF ProcessEnds, PP!Init
<1> QED
  BY <1>1, <1>2, <1>4 DEF Crash

\* Nobody but the main thread is there before it has subscribed.
LEMMA NoRequests ==
  ASSUME Dormant, ~serving, NEW t \in P!Threads
  PROVE  ~HandlersStep(t)
<1>1. hpc[t] = "idle" /\ t \notin subs
  BY SameThreads DEF Dormant
<1>2. ~P!Handler(t)
  BY <1>1, HandlerConstants, SameThreads, SameHandler, PP!IdleWaits
<1> QED
  BY <1>1, <1>2 DEF HandlersStep, Request, HandlerStep, OpenSocket, OpenSecondSocket

\* The ports change for the handlers too, if there are any.
LEMMA KernelStepIs ==
  ASSUME IInv, Reset, KernelStep
  PROVE  /\ UNCHANGED <<session, local, interface_names, hpc, alive>>
         /\ IF pc = "down" THEN PP!Init' ELSE PP!Kernel
<1>1. PICK i \in Ifaces :
        /\ LinkAppears(i) \/ LinkVanishes(i)
        /\ IF pc = "down" THEN UNCHANGED handlers
           ELSE P!LinkAppears(i) \/ P!LinkVanishes(i)
  BY DEF KernelStep
<1>2. UNCHANGED <<session, local>> /\ links' \in SUBSET Ifaces
  BY <1>1 DEF LinkAppears, LinkVanishes, IInv, TypeOK, LocalTypeOK
<1>3. CASE pc = "down"
  BY <1>1, <1>2, <1>3 DEF Reset, PP!Init, handlers
<1>4. CASE pc # "down"
  <2>1. PP!LinkAppears(i) \/ PP!LinkVanishes(i)
    BY <1>1, <1>4, SameKernel
  <2> QED
    BY <1>2, <1>4, <2>1 DEF PP!Kernel, PP!LinkAppears, PP!LinkVanishes, PP!process
<1> QED
  BY <1>3, <1>4

\* A step of the process, as one of the main thread.
LEMMA StepOfMain ==
  ASSUME IInv, PP!Basics, Reset, [SystemNext]_systemVars
  PROVE  [Next]_vars
<1> USE DEF vars
<1>1. ASSUME NEW t \in P!Threads, HandlersStep(t)
      PROVE  UNCHANGED vars
  BY <1>1, HandlersStepIs
<1>2. CASE MainStep
  BY <1>2 DEF MainStep, Next
<1>3. CASE ProcessEnds
  BY <1>3, EndResets DEF Next
<1>4. CASE alive /\ KernelStep
  BY <1>4 DEF KernelStep, Next, Kernel
<1>5. CASE UNCHANGED systemVars
  BY <1>5 DEF systemVars, main, kernel
<1> QED
  BY <1>1, <1>2, <1>3, <1>4, <1>5 DEF SystemNext, HandlersStep

\* And as one of the handlers, unless the process ends or is down.
LEMMA StepOfHandlers ==
  ASSUME IInv, PP!Basics, Reset, [SystemNext]_systemVars
  PROVE  [PP!Next]_(PP!vars) \/ (PP!Init' /\ pc' = "down")
<1>1. ASSUME NEW t \in P!Threads, HandlersStep(t)
      PROVE  PP!Next
  BY <1>1, HandlersStepIs DEF PP!Next
<1>2. CASE MainStep
  <2>1. UNCHANGED <<links, handlers>>
    BY <1>2, DaemonStep DEF MainStep, kernel, IInv, TypeOK, SessionTypeOK
  <2> QED
    BY <2>1 DEF PP!vars, PP!process, PP!history, handlers
<1>3. CASE ProcessEnds
  BY <1>3, EndResets DEF End, GoTo
<1>4. CASE alive /\ KernelStep
  BY <1>4, KernelStepIs DEF PP!Next, local
<1>5. CASE UNCHANGED systemVars
  BY <1>5 DEF systemVars, PP!vars, PP!process, PP!history, handlers
<1> QED
  BY <1>1, <1>2, <1>3, <1>4, <1>5 DEF SystemNext, HandlersStep

\* What PP proves of its initial states is true of the state after a reset.
LEMMA ResetHandlers == PP!Init' => HandlerInv'
<1>1. PP!Init => HandlerInv
  BY HandlerConstants, PP!InitBasics, PP!InitOrderly DEF HandlerInv
<1> QED
  BY <1>1, PTL

\* What ProvidersProofs shows of the handlers, across restarts of the process.
LEMMA NextHandlerInv ==
  ASSUME IInv, HandlerInv, Reset, [SystemNext]_systemVars
  PROVE  HandlerInv'
  BY HandlerConstants, StepOfHandlers, ResetHandlers, PP!NextBasics, PP!NextOrderly
     DEF HandlerInv

\* Handlers stay idle until data_provider() has subscribed them.
LEMMA NextDormant ==
  ASSUME IInv, HandlerInv, Dormant, Reset, [SystemNext]_systemVars
  PROVE  Dormant'
<1>0. serving \in BOOLEAN
  BY DEF IInv, TypeOK, LocalTypeOK
<1>1. ASSUME NEW t \in P!Threads, HandlersStep(t)
      PROVE  Dormant'
  BY <1>0, <1>1, HandlersStepIs, NoRequests DEF HandlerInv, local, Dormant
<1>2. CASE MainStep
  <2>1. serving' \/ UNCHANGED <<serving, subs>>
    BY <1>2, DaemonStep DEF MainStep, IInv, TypeOK, SessionTypeOK
  <2> QED
    BY <1>0, <1>2, <2>1 DEF MainStep, handlers, Dormant
<1>3. CASE ProcessEnds
  BY <1>3, EndResets DEF End, PP!Init, Dormant
<1>4. CASE alive /\ KernelStep
  BY <1>0, <1>4, KernelStepIs DEF local, Dormant
<1>5. CASE UNCHANGED systemVars
  BY <1>0, <1>5 DEF systemVars, main, local, handlers, Dormant
<1> QED
  BY <1>1, <1>2, <1>3, <1>4, <1>5 DEF SystemNext, HandlersStep

\* The end of the process is the end of its handlers.
LEMMA NextReset ==
  ASSUME IInv, HandlerInv, Dormant, Reset, [SystemNext]_systemVars
  PROVE  Reset'
<1>1. ASSUME NEW t \in P!Threads, HandlersStep(t)
      PROVE  Reset'
  <2>1. serving /\ pc' = pc
    BY <1>1, HandlersStepIs, NoRequests DEF HandlerInv, local
  <2> QED
    BY <2>1 DEF IInv, Stages, Reset
<1>2. CASE MainStep
  BY <1>2, DaemonStep DEF MainStep, Reset, IInv, TypeOK, SessionTypeOK
<1>3. CASE ProcessEnds
  BY <1>3, EndResets DEF Reset
<1>4. CASE alive /\ KernelStep
  BY <1>4, KernelStepIs DEF local, Reset
<1>5. CASE UNCHANGED systemVars
  BY <1>5 DEF systemVars, main, local, handlers, Reset, PP!Init
<1> QED
  BY <1>1, <1>2, <1>3, <1>4, <1>5 DEF SystemNext, HandlersStep

\* Ports that change between the two collections end the agreement as well as calm.
LEMMA NextAgreed ==
  ASSUME IInv, HandlerInv, Dormant, Reset, Agreed, [SystemNext]_systemVars
  PROVE  Agreed'
<1>0. SUFFICES ASSUME PP!Calm', faults' = 0,
                      pc' \notin {"down", "deleteLldp", "deleteInterfaces", "collect"}
               PROVE  interfaces' = PP!Known'
  BY DEF Agreed
<1>1. PP!Calm
  BY <1>0, HandlerConstants, StepOfHandlers, PP!CalmPast DEF HandlerInv
<1>2. ASSUME UNCHANGED <<faults, pc, interfaces>>, PP!Known' = PP!Known
      PROVE  interfaces' = PP!Known'
  BY <1>0, <1>1, <1>2 DEF Agreed
<1>3. ASSUME NEW t \in P!Threads, HandlersStep(t)
      PROVE  interfaces' = PP!Known'
  BY <1>2, <1>3, HandlersStepIs DEF HandlerInv, session, local, kernel, PP!Known
<1>4. CASE MainStep
  <2>1. faults = 0 /\ faults \in Nat
    BY <1>0, <1>4, DaemonRemembers DEF MainStep, IInv, TypeOK, SessionTypeOK
  <2>2. UNCHANGED <<links, late>> /\ PP!Known' = PP!Known
    BY <1>4, <2>1, DaemonStep DEF MainStep, kernel, handlers, PP!Known
  <2>3. CASE pc = "collect"
    <3>1. interfaces' = links
      BY <1>0, <1>4, <2>1, <2>3, DaemonStep DEF MainStep
    <3>2. ~PP!Warm
      BY <2>3 DEF IInv, Stages, Dormant, PP!Warm
    <3>3. late = {}
      BY <1>1, <3>2 DEF HandlerInv, PP!Orderly, PP!Order
    <3> QED
      BY <2>2, <3>1, <3>3 DEF PP!Known
  <2>4. CASE pc # "collect"
    BY <1>0, <1>1, <1>4, <2>1, <2>2, <2>4, DaemonStep DEF MainStep, Agreed
  <2> QED
    BY <2>3, <2>4
<1>5. CASE ProcessEnds
  BY <1>0, <1>5, EndResets DEF End, GoTo
<1>6. CASE alive /\ KernelStep
  <2>1. UNCHANGED <<session, local>> /\ PP!Kernel
    BY <1>0, <1>6, KernelStepIs DEF local
  <2> QED
    BY <1>0, <1>2, <2>1, HandlerConstants, PP!KnownStays DEF session, local
<1>7. CASE UNCHANGED systemVars
  BY <1>2, <1>7 DEF systemVars, main, session, local, handlers, PP!Known
<1> QED
  BY <1>3, <1>4, <1>5, <1>6, <1>7 DEF SystemNext, HandlersStep

\* A handler that exits has found no descriptor left, which it alone cannot bring about.
LEMMA SocketsEnough ==
  ASSUME PP!Basics, PP!Order, NEW t \in PP!NameProviders, hpc[t] = "connect", Exhausted,
         fds \in Nat
  PROVE  fds # 0
<1> DEFINE first == {u \in P!NameProviders : hpc[u] \notin {"idle", "acquired"}}
           second == {u \in P!NameProviders :
                        hpc[u] \in {"allocCache", "nameIndex", "fill", "searchLoop"}}
<1>1. second = {}
  BY SameThreads DEF PP!Order, PP!Alone, PP!Filling
<1>2. IsFiniteSet(P!NameProviders) /\ Cardinality(P!NameProviders) = 2
  <2>1. IsFiniteSet({"statistics"}) /\ Cardinality({"statistics"}) = 1
    BY FS_Singleton
  <2>2. P!NameProviders = {"statistics"} \cup {"oper-status"}
    BY DEF P!NameProviders
  <2> QED
    BY <2>1, <2>2, FS_AddElement
<1>3. IsFiniteSet(first) /\ Cardinality(first) \in Nat /\ Cardinality(first) <= 2
  BY <1>2, FS_Subset, FS_CardinalityType
<1>4. Cardinality(second) = 0
  BY <1>1, FS_EmptySet
<1>5. fds + Cardinality(first) + Cardinality(second) >= FdLimit
  BY DEF Exhausted, InUse
<1> QED
  BY <1>3, <1>4, <1>5, SystemAssumption, DaemonAssumption

\* The process survives as long as no call of a handler fails, no descriptor is lost and
\* no neighbour is flawed.
LEMMA NextSurviving ==
  ASSUME IInv, HandlerInv, Reset, Surviving, [SystemNext]_systemVars
  PROVE  Surviving'
<1>0. SUFFICES ASSUME PP!Calm', fds' = 0, ~flawed'
               PROVE  alive' \/ (hfaults' > 0 /\ ~Exhausted')
  BY DEF Surviving
<1>3. ASSUME NEW t \in P!Threads, HandlersStep(t)
      PROVE  alive' \/ (hfaults' > 0 /\ ~Exhausted')
  <2>1. /\ alive /\ t \in PP!Threads /\ (PP!Request(t) \/ PP!Handler(t))
        /\ fds' = fds /\ fds = 0 /\ fds \in Nat
    BY <1>0, <1>3, HandlersStepIs DEF HandlerInv, local
  <2>2. PP!Order
    BY <1>0, <2>1, HandlerConstants, PP!CalmPast DEF PP!Next, HandlerInv, PP!Orderly
  <2>3. alive' \/ PP!ConnectExit(t)
    BY <1>0, <2>1, <2>2, HandlerConstants, PP!OnlyExitEnds DEF HandlerInv
  <2>4. ASSUME PP!ConnectExit(t)
        PROVE  hfaults' > 0 /\ ~Exhausted'
    <3>1. hpc[t] = "connect" /\ t \in PP!NameProviders
      BY <2>1, <2>4 DEF PP!ConnectExit, HandlerInv, PP!Basics, PP!Shape, PP!Threads
    <3>2. hfaults' > 0 /\ hpc' = hpc
      BY <2>4 DEF PP!ConnectExit, PP!Fault, HandlerInv, PP!Basics, PP!TypeOK
    <3>3. ~Exhausted
      BY <2>1, <2>2, <3>1, SocketsEnough DEF HandlerInv
    <3> QED
      BY <2>1, <3>2, <3>3 DEF Exhausted, InUse
  <2> QED
    BY <2>3, <2>4
<1>4. CASE MainStep
  BY <1>4 DEF MainStep, handlers
<1>5. CASE ProcessEnds
  BY <1>5 DEF ProcessEnds
<1>6. CASE alive /\ KernelStep
  BY <1>6, KernelStepIs
<1>7. CASE UNCHANGED systemVars
  BY <1>0, <1>7
     DEF systemVars, main, local, handlers, Surviving, PP!Calm, Exhausted, InUse
<1> QED
  BY <1>3, <1>4, <1>5, <1>6, <1>7 DEF SystemNext, HandlersStep

\* The invariant holds before the process first starts.
LEMMA InitSystem == SystemInit => SystemInv
<1> SUFFICES ASSUME SystemInit PROVE SystemInv
  OBVIOUS
<1>1. Init /\ PP!Init
  BY SameInit DEF SystemInit
<1>2. MainInv
  BY <1>1, InitInv, InitClears DEF MainInv
<1>3. HandlerInv
  BY <1>1, HandlerConstants, PP!InitBasics, PP!InitOrderly DEF HandlerInv
<1>4. Dormant /\ Reset /\ Agreed /\ Surviving
  BY <1>1 DEF Init, PP!Init, Dormant, Reset, Agreed, Surviving
<1> QED
  BY <1>2, <1>3, <1>4 DEF SystemInv

-----------------------------------------------------------------------------
(* Theorems *)

\* The inductive invariant holds in every reachable state of the process.
THEOREM SystemInvariance == SystemSpec => []SystemInv
<1>1. SystemInv /\ [SystemNext]_systemVars => SystemInv'
  <2>1. SUFFICES ASSUME SystemInv, [SystemNext]_systemVars PROVE SystemInv'
    OBVIOUS
  <2>2. MainInv'
    BY <2>1, StepOfMain, NextInv, NextClears DEF SystemInv, MainInv, HandlerInv
  <2>3. HandlerInv' /\ Dormant' /\ Reset' /\ Agreed' /\ Surviving'
    BY <2>1, NextHandlerInv, NextDormant, NextReset, NextAgreed, NextSurviving
       DEF SystemInv, MainInv
  <2> QED
    BY <2>2, <2>3 DEF SystemInv
<1> QED
  BY <1>1, InitSystem, PTL DEF SystemSpec

\* The composition implements TsnDaemon: whatever the handlers do, also when one of
\* them ends the process, the main thread takes the steps Spec allows it.
THEOREM SystemImplementsDaemon == SystemSpec => Spec
<1>1. SystemInit => Init
  BY DEF SystemInit
<1>2. SystemInv /\ [SystemNext]_systemVars => [Next]_vars
  BY StepOfMain DEF SystemInv, MainInv, HandlerInv
<1> QED
  BY <1>1, <1>2, SystemInvariance, PTL DEF SystemSpec, Spec

\* What a request reports is a port this run has configured.
THEOREM AnsweredPortsHolds == SystemSpec => []AnsweredPortsAreConfigured
<1>1. SystemInv => AnsweredPortsAreConfigured
  <2>1. SUFFICES ASSUME SystemInv, PP!Calm, faults = 0, refusals = 0,
                        NEW t \in PP!NameProviders, NEW i \in PP!Answered(reply[t])
                 PROVE  i \in interfaces /\ Published(i)
    BY SameThreads, SameAnswered DEF AnsweredPortsAreConfigured, PP!Calm, Published
  <2>2. hpc[t] = "iterate"
    <3>1. reply[t] # PP!NoReply
      BY DEF PP!Answered, PP!NoReply
    <3> QED
      BY <2>1, <3>1 DEF SystemInv, HandlerInv, PP!Basics, PP!Shape
  <2>3. i \in PP!Known
    BY <2>1, <2>2 DEF SystemInv, HandlerInv, PP!Orderly, PP!Order, PP!Answering
  <2>4. pc \in {"sleep", "collectIps", "saveIps", "collectSpeeds", "saveSpeeds"}
    <3>1. serving
      BY <2>1, <2>2 DEF SystemInv, Dormant, PP!NameProviders, PP!Threads
    <3> QED
      BY <2>1, <3>1 DEF SystemInv, MainInv, IInv, Stages
  <2>5. i \in interfaces /\ i \in Ifaces
    BY <2>1, <2>3, <2>4
       DEF SystemInv, Agreed, MainInv, IInv, TypeOK, LocalTypeOK
  <2>6. Published(i)
    BY <2>1, <2>4, <2>5 DEF SystemInv, MainInv, CInv, Unspoilt, Settled
  <2> QED
    BY <2>5, <2>6
<1> QED
  BY <1>1, SystemInvariance, PTL

\* Requests bring the process down only if two of them were the first at once, the
\* ports changed, lldpd said too little of a neighbour, the main thread has lost a
\* descriptor, or a netlink call failed though there were descriptors left.
THEOREM SystemCrashNeedsCause == SystemSpec => []CrashNeedsCause
<1>1. SystemInv => CrashNeedsCause
  BY DEF SystemInv, MainInv, IInv, TypeOK, LocalTypeOK, Surviving, PP!Calm,
         CrashNeedsCause
<1> QED
  BY <1>1, SystemInvariance, PTL

\* The context is leaked once for each failed call at most, whatever makes it fail.
THEOREM SystemContextBalanced == SystemSpec => []ContextBalanced
<1>1. PP!ContextBalanced => ContextBalanced
  BY SameThreads DEF PP!ContextBalanced, P!ContextBalanced, ContextBalanced
<1>2. SystemInv => PP!ContextBalanced
  BY DEF SystemInv, HandlerInv, PP!Basics
<1> QED
  BY <1>1, <1>2, SystemInvariance, PTL

=============================================================================
