------------------------------- MODULE Tables -------------------------------
(***************************************************************************)
(* The tables of the main thread in the order of main(): a first round of  *)
(* update_ips() (IpTable), then the bridges, collected, saved and freed    *)
(* (BridgeVlans, for one bridge), then further rounds, one a second.       *)
(***************************************************************************)
EXTENDS IpTable

CONSTANTS
    Vids,
    Slots,
    MaxEntries,
    BAD

VARIABLES
    stage,                                       \* of main()
    entries, entry, vlan, slot, components       \* of BridgeVlans

Bridge == INSTANCE BridgeVlans WITH pos <- entry

ASSUME TablesAssumption == Bridge!ConstantsOK

ipVars == <<pc, round, rows, pos, ips, todo, saved, heap>>
bridgeVars == <<entries, entry, vlan, slot, components>>
tablesVars == <<ipVars, stage, bridgeVars>>

-----------------------------------------------------------------------------
NoVlan == [pvid |-> 0, vlan_bitmap |-> Bridge!Empty, untagged_bitmap |-> Bridge!Empty]

TablesInit ==
    /\ Init
    /\ stage = "first"
    /\ entries = <<>> /\ entry = 1 /\ vlan = NoVlan /\ slot = 0 /\ components = {}

\* update_ips() of main(), once, and of data_provider().
UpdateIps ==
    /\ stage # "bridges"
    /\ (pc = "idle" /\ stage = "first" => round = 0)
    /\ Next
    /\ UNCHANGED <<stage, entries, entry, vlan, slot, components>>

CollectBridges ==
    /\ stage = "first"
    /\ pc = "idle" /\ round = 1
    /\ stage' = "bridges"
    /\ \E printed \in Bridge!Outputs : entries' = printed
    /\ UNCHANGED <<pc, round, rows, pos, ips, todo, saved, heap,
                   entry, vlan, slot, components>>

BridgeStep ==
    /\ stage = "bridges"
    /\ Bridge!Next
    /\ UNCHANGED <<pc, round, rows, pos, ips, todo, saved, heap, stage>>

\* shash_destroy_free_data()
DestroyBridges ==
    /\ stage = "bridges"
    /\ Bridge!SaveEnded
    /\ stage' = "loop"
    /\ entries' = <<>> /\ entry' = 1 /\ vlan' = NoVlan /\ slot' = 0 /\ components' = {}
    /\ UNCHANGED <<pc, round, rows, pos, ips, todo, saved, heap>>

TablesNext ==
    \/ UpdateIps
    \/ CollectBridges
    \/ BridgeStep
    \/ DestroyBridges

TablesSpec == TablesInit /\ [][TablesNext]_tablesVars

-----------------------------------------------------------------------------
(* Properties: EveryRowSaved of IpTable, and those of the bridge. *)

\* The tables of a bridge are in the order of the output, whatever its entries.
TablesInOrder == Bridge!TablesInOrder

\* Exactly the VLANs printed without flags become components of the bridge, as many
\* as its table holds.
PlainBecomeComponents == Bridge!PlainBecomeComponents

=============================================================================
