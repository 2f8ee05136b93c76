----------------------------- MODULE BridgeVlans -----------------------------
(***************************************************************************)
(* The VLANs of one bridge (src/src/bridge.c): get_bridge_vlan() sorts the *)
(* entries that "bridge -j vlan show" prints into a primary VLAN and two   *)
(* tables of fixed size, and save_bridges() makes a component of each      *)
(* entry of the first table, up to the first empty slot.  What becomes of  *)
(* the components in sysrepo is in TsnDaemon.                              *)
(***************************************************************************)
EXTENDS Naturals, SequencesExt, FiniteSetsExt

CONSTANTS
    Vids,          \* VLAN ids
    Slots,         \* VLAN_BITMAP_MAX
    MaxEntries,    \* bound: entries of the JSON array
    NULL,          \* nothing there, or not a number
    BAD            \* flags that are not an array

Flags == {"PVID", "Egress Untagged"}

\* One element of the JSON array: its vlan and its flags.
Entry == [vlan : Vids \cup {NULL}, flags : SUBSET Flags \cup {NULL, BAD}]

\* What the constants must satisfy; Tables assumes it.
ConstantsOK ==
    /\ Vids \subseteq Nat \ {0}
    /\ Slots \in Nat
    /\ MaxEntries \in Nat
    /\ \A flags \in SUBSET Flags : flags \notin {NULL, BAD}

VARIABLES
    entries,       \* what is printed; empty too if it is not JSON or lacks the bridge
    pos,           \* of the loop over them
    vlan,          \* br_vlan_t; 0 is an empty slot
    slot,          \* of the loop of save_bridges(), 0 before it
    components     \* VLAN ids whose component has been set

vars == <<entries, pos, vlan, slot, components>>

Empty == [j \in 1..Slots |-> 0]

\* Variant: the search runs from the end.
PutLast(table, id) ==
    LET free == {j \in DOMAIN table : table[j] = 0}
    IN IF free = {} THEN table ELSE [table EXCEPT ![Max(free)] = id]

\* An id goes to the first empty slot; a full table loses it.
Put(table, id) ==
    LET free == {j \in DOMAIN table : table[j] = 0}
    IN IF free = {} THEN table ELSE [table EXCEPT ![Min(free)] = id]

\* The kinds of entries that are told apart: one without flags, one that says PVID,
\* and one that says Untagged only.
Plain(e) == e.vlan # NULL /\ e.flags = NULL
Primary(e) == e.vlan # NULL /\ e.flags \notin {NULL, BAD} /\ "PVID" \in e.flags
Untagged(e) == e.vlan # NULL /\ e.flags = {"Egress Untagged"}

\* What an entry does to the tables; a second primary VLAN is only logged.
Classified(v, e) ==
    CASE Plain(e)                  -> [v EXCEPT !.vlan_bitmap = Put(@, e.vlan)]
      [] Primary(e) /\ v.pvid = 0  -> [v EXCEPT !.pvid = e.vlan]
      [] Untagged(e)               -> [v EXCEPT !.untagged_bitmap = Put(@, e.vlan)]
      [] OTHER                     -> v

-----------------------------------------------------------------------------
\* What "bridge -j vlan show" can print.
Outputs == BoundedSeq(Entry, MaxEntries)

Init ==
    /\ entries \in Outputs
    /\ pos = 1
    /\ vlan = [pvid |-> 0, vlan_bitmap |-> Empty, untagged_bitmap |-> Empty]
    /\ slot = 0
    /\ components = {}

ReadEntry ==
    /\ pos <= Len(entries)
    /\ vlan' = Classified(vlan, entries[pos])
    /\ pos' = pos + 1
    /\ UNCHANGED <<entries, slot, components>>

\* shash_add() and, later, the bridge's turn in save_bridges().
BeginSave ==
    /\ pos > Len(entries)
    /\ slot = 0
    /\ slot' = 1
    /\ UNCHANGED <<entries, pos, vlan, components>>

\* Variant: the counter is incremented in the body of the loop as well.
SaveSlotTwice ==
    /\ slot \in 1..Slots
    /\ vlan.vlan_bitmap[slot] # 0
    /\ components' = components \cup {vlan.vlan_bitmap[slot]}
    /\ slot' = slot + 2
    /\ UNCHANGED <<entries, pos, vlan>>

SaveSlot ==
    /\ slot \in 1..Slots
    /\ vlan.vlan_bitmap[slot] # 0
    /\ components' = components \cup {vlan.vlan_bitmap[slot]}
    /\ slot' = slot + 1
    /\ UNCHANGED <<entries, pos, vlan>>

Next == ReadEntry \/ BeginSave \/ SaveSlot

\* The loop of save_bridges() is over: at the end of the table or an empty slot.
SaveEnded == slot # 0 /\ (slot <= Slots => vlan.vlan_bitmap[slot] = 0)

Spec == Init /\ [][Next]_vars

-----------------------------------------------------------------------------
(* Properties *)

\* The positions of the chosen entries, among the first k.
Printed(Chosen(_), k) == {p \in 1..k : Chosen(entries[p])}

\* The place of one of them among them.
Rank(own, p) == Cardinality(own \cap (1..p))

\* The first Slots ids of the chosen entries, in order, then empty slots.
Holds(table, own) ==
    /\ \A p \in own : Rank(own, p) <= Slots => table[Rank(own, p)] = entries[p].vlan
    /\ \A j \in 1..Slots : j > Cardinality(own) => table[j] = 0

\* Whatever kinds of entries alternate, each table holds the ids of its own kind in
\* the order of the output and without a gap: save_bridges() stops at the first
\* empty slot, so that a gap would lose what is behind it.  The primary VLAN is that
\* of the first entry that says PVID, also if others do.
TablesInOrder ==
    /\ Holds(vlan.vlan_bitmap, Printed(Plain, pos - 1))
    /\ Holds(vlan.untagged_bitmap, Printed(Untagged, pos - 1))
    /\ LET own == Printed(Primary, pos - 1)
       IN vlan.pvid = IF own = {} THEN 0 ELSE entries[Min(own)].vlan

\* In the end exactly the VLANs printed without flags, as many as the table holds,
\* have become components.
PlainBecomeComponents ==
    SaveEnded =>
        LET own == Printed(Plain, Len(entries))
        IN components = {entries[p].vlan : p \in {q \in own : Rank(own, q) <= Slots}}

=============================================================================
