------------------------------ MODULE IpTable ------------------------------
(***************************************************************************)
(* The table of addresses that update_ips() (src/src/interface.c) builds,  *)
(* saves and throws away every second: collect_ips() reads the rows of     *)
(* getifaddrs() into one record for each port, save_ips() visits the       *)
(* records, ip_destory() is called on each of them.                        *)
(*                                                                         *)
(* TsnDaemon has the effect of these functions on sysrepo; here are the    *)
(* order of the rows and the memory.  Tables has the calls of main().      *)
(***************************************************************************)
EXTENDS Naturals, SequencesExt

CONSTANTS
    Names,         \* names of links
    Interfaces,    \* those among them that collect_interfaces() has found
    Addrs,         \* addresses
    MaxRows,       \* bound: rows of one getifaddrs()
    MaxRounds,     \* bound: calls of update_ips()
    NULL

ASSUME IpTableAssumption ==
    /\ Interfaces \subseteq Names
    /\ MaxRows \in Nat
    /\ MaxRounds \in Nat
    /\ NULL \notin Names

VARIABLES
    pc,
    round,         \* calls of update_ips() so far
    rows,          \* the result of getifaddrs()
    pos,           \* the row the loop is at
    ips,           \* the table: for each name in it the addresses, in list order
    todo,          \* records the current SHASH_FOR_EACH has still to visit
    saved,         \* what save_ips() has set, by name, in order
    heap           \* records and addresses allocated and not freed

vars == <<pc, round, rows, pos, ips, todo, saved, heap>>

-----------------------------------------------------------------------------
Families == {"inet", "inet6", "packet"}

Row == [name : Names, family : Families, addr : Addrs]

\* The blocks of a record: the record itself is numbered 0, its addresses from 1 on.
Blocks(n) == {<<round, n, k>> : k \in 0..Len(ips[n])}

Init ==
    /\ pc = "idle"
    /\ round = 0
    /\ rows = <<>>
    /\ pos = 1
    /\ ips = <<>>
    /\ todo = {}
    /\ saved = [n \in Names |-> <<>>]
    /\ heap = {}

-----------------------------------------------------------------------------
(* update_ips() and collect_ips() *)

GetIfAddrs ==
    /\ pc = "idle"
    /\ round < MaxRounds
    /\ round' = round + 1
    /\ \E r \in SeqOf(Row, MaxRows) : rows' = r
    /\ pc' = "collect"
    /\ UNCHANGED <<pos, ips, todo, saved, heap>>

\* A failed getifaddrs() is not told to the caller, who saves an empty table.
GetIfAddrsFails ==
    /\ pc = "idle"
    /\ round < MaxRounds
    /\ round' = round + 1
    /\ pc' = "save"
    /\ UNCHANGED <<rows, pos, ips, todo, saved, heap>>

\* The two families have a branch each, with one table.
IsIp(r) == r.family \in {"inet", "inet6"}

Wanted(r) == r.name \in Interfaces /\ IsIp(r)

SkipRow ==
    /\ pc = "collect"
    /\ pos <= Len(rows)
    /\ ~Wanted(rows[pos])
    /\ pos' = pos + 1
    /\ UNCHANGED <<pc, round, rows, ips, todo, saved, heap>>

\* Variant: the row is put into a new record, which replaces the one in the table.
AddRowAnew ==
    /\ pc = "collect"
    /\ pos <= Len(rows)
    /\ Wanted(rows[pos])
    /\ LET n == rows[pos].name IN
       /\ ips' = [m \in DOMAIN ips \cup {n} |->
                     IF m = n THEN <<rows[pos].addr>> ELSE ips[m]]
       /\ heap' = heap \cup {<<round, n, 0>>, <<round, n, 1>>}
    /\ pos' = pos + 1
    /\ UNCHANGED <<pc, round, rows, todo, saved>>

\* ip_create() for the first row of a name; the address goes to the end of the list.
AddRow ==
    /\ pc = "collect"
    /\ pos <= Len(rows)
    /\ Wanted(rows[pos])
    /\ LET n == rows[pos].name
           list == IF n \in DOMAIN ips THEN ips[n] ELSE <<>>
       IN /\ ips' = [m \in DOMAIN ips \cup {n} |->
                        IF m = n THEN Append(list, rows[pos].addr) ELSE ips[m]]
          /\ heap' = heap \cup {<<round, n, 0>>, <<round, n, Len(list) + 1>>}
    /\ pos' = pos + 1
    /\ UNCHANGED <<pc, round, rows, todo, saved>>

Collected ==
    /\ pc = "collect"
    /\ pos > Len(rows)
    /\ todo' = DOMAIN ips
    /\ pc' = "save"
    /\ UNCHANGED <<round, rows, pos, ips, saved, heap>>

-----------------------------------------------------------------------------
(* save_ips(), then ip_destory() for each record and shash_destroy() *)

SaveRecord(n) ==
    /\ pc = "save"
    /\ n \in todo
    /\ saved' = [saved EXCEPT ![n] = @ \o ips[n]]
    /\ todo' = todo \ {n}
    /\ UNCHANGED <<pc, round, rows, pos, ips, heap>>

Saved ==
    /\ pc = "save"
    /\ todo = {}
    /\ todo' = DOMAIN ips
    /\ pc' = "destroy"
    /\ UNCHANGED <<round, rows, pos, ips, saved, heap>>

\* What a call of ip_destory() frees: it returns at once if its argument is not null.
ip_destory(n) == IF n # NULL THEN {} ELSE Blocks(n)

DestroyRecord(n) ==
    /\ pc = "destroy"
    /\ n \in todo
    /\ heap' = heap \ ip_destory(n)
    /\ todo' = todo \ {n}
    /\ UNCHANGED <<pc, round, rows, pos, ips, saved>>

\* shash_destroy() frees the nodes of the table, not what they point to.  The rows
\* and the record of what was saved go with the round.
Destroyed ==
    /\ pc = "destroy"
    /\ todo = {}
    /\ ips' = <<>>
    /\ rows' = <<>>
    /\ pos' = 1
    /\ saved' = [n \in Names |-> <<>>]
    /\ pc' = "idle"
    /\ UNCHANGED <<round, todo, heap>>

Next ==
    \/ GetIfAddrs
    \/ GetIfAddrsFails
    \/ SkipRow
    \/ AddRow
    \/ Collected
    \/ \E n \in Names : SaveRecord(n) \/ DestroyRecord(n)
    \/ Saved
    \/ Destroyed

Spec == Init /\ [][Next]_vars

-----------------------------------------------------------------------------
(* Properties *)

\* The rows of a link that are to be saved, among the first k.
RowsOf(n, k) == {p \in 1..k : rows[p].name = n /\ Wanted(rows[p])}

\* However the rows of two families and several ports are interleaved, a round sets
\* each address of each known port exactly once and in the order of the rows: no
\* row starts a second record for its port or lands on the record of another.
EveryRowSaved ==
    pc = "destroy" =>
        \A n \in Names :
            LET own == RowsOf(n, Len(rows)) IN
            /\ Len(saved[n]) = Cardinality(own)
            /\ \A p \in own : saved[n][Cardinality(own \cap (1..p))] = rows[p].addr

\* hmap.c leaves it to the client to free what it put into a map: between two
\* rounds update_ips() holds no memory.
RecordsFreed == pc = "idle" => heap = {}

=============================================================================
