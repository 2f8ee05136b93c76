---------------------------- MODULE TablesProofs ----------------------------
(***************************************************************************)
(* Proofs about Tables: the rows of update_ips() and the VLANs of a bridge *)
(* end up in their tables in the order in which they are read, however     *)
(* those of different kinds alternate.  The place of an item in its table  *)
(* is its rank: how many of its kind have been read up to it.              *)
(***************************************************************************)
EXTENDS Tables, NumberProofs, SequenceTheorems

-----------------------------------------------------------------------------
(* Ranks *)

\* Sets of positions can be counted.
LEMMA PositionsFinite ==
  ASSUME NEW k \in Nat, NEW own \in SUBSET (1..k)
  PROVE  IsFiniteSet(own) /\ Cardinality(own) \in 0..k
<1>1. IsFiniteSet(1..k) /\ Cardinality(1..k) = k
  BY FS_Interval
<1>2. IsFiniteSet(own) /\ Cardinality(own) <= Cardinality(1..k)
  BY <1>1, FS_Subset
<1>3. Cardinality(own) \in Nat
  BY <1>2, FS_CardinalityType
<1> QED
  BY <1>1, <1>2, <1>3

\* How many of them there are up to one of them.
LEMMA RankType ==
  ASSUME NEW k \in Nat, NEW own \in SUBSET (1..k), NEW p \in Nat
  PROVE  /\ Cardinality(own \cap (1..p)) \in 0..Cardinality(own)
         /\ p \in own => Cardinality(own \cap (1..p)) # 0
<1>2. IsFiniteSet(own) /\ Cardinality(own) \in Nat
  BY PositionsFinite
<1>3. own \cap (1..p) \in SUBSET own
  OBVIOUS
<1>4. /\ IsFiniteSet(own \cap (1..p)) /\ Cardinality(own \cap (1..p)) \in Nat
      /\ Cardinality(own \cap (1..p)) <= Cardinality(own)
  BY <1>2, <1>3, FS_Subset, FS_CardinalityType
<1>5. ASSUME p \in own
      PROVE  own \cap (1..p) # {}
  BY <1>5
<1> QED
  BY <1>2, <1>4, <1>5, FS_EmptySet

\* The next position has the next rank, and the others keep theirs.
LEMMA RankNext ==
  ASSUME NEW k \in Nat, NEW own \in SUBSET (1..k)
  PROVE  LET new == own \cup {k + 1} IN
         /\ new \in SUBSET (1..(k + 1))
         /\ Cardinality(new) = Cardinality(own) + 1
         /\ new \cap (1..(k + 1)) = new
         /\ \A p \in own : new \cap (1..p) = own \cap (1..p)
<1> DEFINE new == own \cup {k + 1}
<1>1. IsFiniteSet(own) /\ k + 1 \notin own
  BY PositionsFinite
<1>2. Cardinality(new) = Cardinality(own) + 1
  BY <1>1, FS_AddElement
<1>3. \A p \in new : p \in 1..(k + 1)
  OBVIOUS
<1>4. ASSUME NEW p \in own
      PROVE  new \cap (1..p) = own \cap (1..p)
  OBVIOUS
<1> QED
  BY <1>2, <1>3, <1>4

\* There is a position of each rank.
LEMMA RankOnto ==
  ASSUME NEW n \in Nat, NEW own \in SUBSET (1..n), NEW j \in 1..Cardinality(own)
  PROVE  \E p \in own : Cardinality(own \cap (1..p)) = j
<1> DEFINE Onto(P) == \A r \in 1..Cardinality(P) :
                          \E p \in P : Cardinality(P \cap (1..p)) = r
           S == {k \in Nat : \A P \in SUBSET (1..k) : Onto(P)}
<1>1. 0 \in S
  <2>1. SUBSET (1..0) = {{}}
    OBVIOUS
  <2>2. Onto({})
    BY FS_EmptySet
  <2> HIDE DEF Onto
  <2> QED
    BY <2>1, <2>2
<1>2. ASSUME NEW k \in S, NEW P \in SUBSET (1..(k + 1))
      PROVE  Onto(P)
  <2> DEFINE Q == P \ {k + 1}
  <2>1. k \in Nat /\ Q \in SUBSET (1..k)
    OBVIOUS
  <2>2. Onto(Q)
    BY <1>2, <2>1
  <2>5. Cardinality(Q) \in Nat
    BY <2>1, PositionsFinite
  <2>3. CASE k + 1 \notin P
    BY <2>2, <2>3
  <2>4. CASE k + 1 \in P
    <3>1. P = Q \cup {k + 1}
      BY <2>4
    <3>2. /\ Cardinality(P) = Cardinality(Q) + 1 /\ P \cap (1..(k + 1)) = P
          /\ \A p \in Q : P \cap (1..p) = Q \cap (1..p)
      <4> HIDE DEF Q
      <4> QED
        BY <2>1, <3>1, RankNext
    <3>3. ASSUME NEW r \in 1..Cardinality(P)
          PROVE  \E p \in P : Cardinality(P \cap (1..p)) = r
      <4>1. CASE r = Cardinality(P)
        BY <2>4, <3>2, <4>1
      <4>2. CASE r # Cardinality(P)
        <5>1. r \in 1..Cardinality(Q)
          BY <2>5, <3>2, <4>2
        <5>2. PICK p \in Q : Cardinality(Q \cap (1..p)) = r
          BY <2>2, <5>1
        <5> QED
          BY <3>2, <5>2
      <4> QED
        BY <4>1, <4>2
    <3> QED
      BY <3>3
  <2> QED
    BY <2>3, <2>4
<1>3. Nat \subseteq S
  <2>1. ASSUME NEW k \in Nat, k \in S
        PROVE  k + 1 \in S
    <3> HIDE DEF Onto
    <3> QED
      BY <1>2, <2>1
  <2> HIDE DEF S
  <2> QED
    BY <1>1, <2>1, SetInduction
<1> QED
  BY <1>3

-----------------------------------------------------------------------------
(* Rows and addresses *)

\* The addresses of a link that are in the table.
AddressesOf(n) == IF n \in DOMAIN ips THEN ips[n] ELSE <<>>

\* A list of the addresses in these rows, in order.
Lists(s, own) ==
    /\ Len(s) = Cardinality(own)
    /\ \A p \in own : s[Cardinality(own \cap (1..p))] = rows[p].addr

RowTypes ==
    /\ pc \in {"idle", "collect", "save", "destroy"}
    /\ rows \in Seq(Row)
    /\ pos \in 1..(Len(rows) + 1)
    /\ DOMAIN ips \subseteq Names
    /\ \A n \in DOMAIN ips : ips[n] \in Seq(Addrs)
    /\ todo \subseteq DOMAIN ips

Collecting == \A n \in Names : Lists(AddressesOf(n), RowsOf(n, pos - 1))

Saving ==
    /\ pc = "idle" => rows = <<>> /\ DOMAIN ips = {}
    /\ pc \in {"idle", "collect"} => todo = {} /\ saved = [n \in Names |-> <<>>]
    /\ pc \in {"save", "destroy"} => pos = Len(rows) + 1
    /\ pc = "save" => saved = [n \in Names |-> IF n \in todo THEN <<>> ELSE AddressesOf(n)]
    /\ pc = "destroy" => saved = [n \in Names |-> AddressesOf(n)]

RowInv == RowTypes /\ Collecting /\ Saving

\* The rows of a link up to the next one.
LEMMA NextRow ==
  ASSUME NEW n, NEW k \in Nat
  PROVE  /\ RowsOf(n, k) \in SUBSET (1..k)
         /\ RowsOf(n, k + 1) = IF rows[k + 1].name = n /\ Wanted(rows[k + 1])
                               THEN RowsOf(n, k) \cup {k + 1} ELSE RowsOf(n, k)
<1>1. 1..(k + 1) = 1..k \cup {k + 1}
  OBVIOUS
<1> QED
  BY <1>1 DEF RowsOf

\* One more row for a link.
LEMMA AddedRow ==
  ASSUME NEW k \in Nat, NEW own \in SUBSET (1..k), NEW s \in Seq(Addrs), Lists(s, own),
         rows[k + 1].addr \in Addrs
  PROVE  Lists(Append(s, rows[k + 1].addr), own \cup {k + 1})
<1> DEFINE new == own \cup {k + 1}
           t == Append(s, rows[k + 1].addr)
<1>1. /\ Cardinality(new) = Cardinality(own) + 1
      /\ new \cap (1..(k + 1)) = new
      /\ \A p \in own : new \cap (1..p) = own \cap (1..p)
  BY RankNext
<1>2. Len(s) = Cardinality(own) /\ Len(s) \in Nat
  BY DEF Lists
<1>3. Len(t) = Len(s) + 1 /\ t[Len(s) + 1] = rows[k + 1].addr
      /\ \A j \in 1..Len(s) : t[j] = s[j]
  OBVIOUS
<1>4. ASSUME NEW p \in own
      PROVE  Cardinality(own \cap (1..p)) \in 1..Len(s)
  <2>1. p \in Nat
    OBVIOUS
  <2>2. /\ Cardinality(own \cap (1..p)) \in 0..Len(s)
        /\ Cardinality(own \cap (1..p)) # 0
    BY <1>2, <1>4, <2>1, RankType
  <2> QED
    BY <1>2, <2>2
<1> HIDE DEF t
<1>5. ASSUME NEW p \in new
      PROVE  t[Cardinality(new \cap (1..p))] = rows[p].addr
  <2>1. CASE p = k + 1
    BY <1>1, <1>2, <1>3, <2>1
  <2>2. CASE p \in own
    BY <1>1, <1>3, <1>4, <2>2 DEF Lists
  <2> QED
    BY <2>1, <2>2
<1> QED
  BY <1>1, <1>2, <1>3, <1>5 DEF Lists, t

\* A row more is read.
LEMMA ReadRow ==
  ASSUME RowInv, SkipRow \/ AddRow
  PROVE  RowInv'
<1> DEFINE row == rows[pos]
<1>1. pc = "collect" /\ pc' = pc /\ rows' = rows /\ pos' = pos + 1
      /\ pos \in 1..Len(rows) /\ todo' = todo /\ saved' = saved
  BY DEF RowInv, RowTypes, SkipRow, AddRow
<1>2. row \in Row /\ pos - 1 \in Nat /\ pos - 1 + 1 = pos /\ pos' - 1 = pos
  BY <1>1 DEF RowInv, RowTypes
<1>3. row.addr \in Addrs /\ row.name \in Names
  BY <1>2 DEF Row
<1>4. ASSUME NEW n \in Names
      PROVE  AddressesOf(n) \in Seq(Addrs)
  BY DEF RowInv, RowTypes, AddressesOf
<1>5. ASSUME NEW n \in Names
      PROVE  AddressesOf(n)' = IF row.name = n /\ Wanted(row)
                               THEN Append(AddressesOf(n), row.addr) ELSE AddressesOf(n)
  <2>1. CASE SkipRow
    BY <2>1 DEF SkipRow, AddressesOf
  <2>2. CASE AddRow
    <3>1. CASE row.name = n
      BY <2>2, <3>1 DEF AddRow, AddressesOf
    <3>2. CASE row.name # n
      BY <2>2, <3>2 DEF AddRow, AddressesOf
    <3> QED
      BY <3>1, <3>2
  <2> QED
    BY <2>1, <2>2
<1>6. Collecting'
  <2>1. SUFFICES ASSUME NEW n \in Names
                 PROVE  Lists(AddressesOf(n)', RowsOf(n, pos))
    BY <1>1, <1>2 DEF Collecting, Lists, RowsOf, Wanted, IsIp
  <2>2. Lists(AddressesOf(n), RowsOf(n, pos - 1))
    BY DEF RowInv, Collecting
  <2>3. CASE row.name = n /\ Wanted(row)
    <3>1. RowsOf(n, pos) = RowsOf(n, pos - 1) \cup {pos}
      BY <1>2, <2>3, NextRow
    <3>2. RowsOf(n, pos - 1) \in SUBSET (1..(pos - 1))
      BY <1>2, NextRow
    <3> DEFINE k == pos - 1
    <3>3. k \in Nat /\ k + 1 = pos
      BY <1>2
    <3>4. rows[k + 1].addr \in Addrs /\ rows[k + 1].addr = row.addr
      BY <1>3, <3>3
    <3> HIDE DEF k
    <3>5. Lists(Append(AddressesOf(n), rows[k + 1].addr), RowsOf(n, pos - 1) \cup {k + 1})
      BY <1>4, <2>2, <3>2, <3>3, <3>4, AddedRow DEF k
    <3> QED
      BY <1>5, <2>3, <3>1, <3>3, <3>4, <3>5
  <2>4. CASE ~(row.name = n /\ Wanted(row))
    <3>1. RowsOf(n, pos) = RowsOf(n, pos - 1)
      BY <1>2, <2>4, NextRow
    <3> QED
      BY <1>5, <2>2, <2>4, <3>1
  <2> QED
    BY <2>3, <2>4
<1>7. /\ DOMAIN ips' \subseteq Names /\ todo' \subseteq DOMAIN ips'
      /\ \A n \in DOMAIN ips' : ips'[n] \in Seq(Addrs)
  <2>1. CASE SkipRow
    BY <2>1 DEF SkipRow, RowInv, RowTypes
  <2>2. CASE AddRow
    <3>1. DOMAIN ips' = DOMAIN ips \cup {row.name}
      BY <2>2 DEF AddRow
    <3>2. \A n \in DOMAIN ips' : ips'[n] = AddressesOf(n)'
      BY DEF AddressesOf
    <3>3. ASSUME NEW n \in Names
          PROVE  AddressesOf(n)' \in Seq(Addrs)
      <4>1. AddressesOf(n) \in Seq(Addrs) /\ Append(AddressesOf(n), row.addr) \in Seq(Addrs)
        BY <1>3, <1>4
      <4> QED
        BY <1>5, <4>1
    <3> QED
      BY <1>1, <1>3, <3>1, <3>2, <3>3 DEF RowInv, RowTypes
  <2> QED
    BY <2>1, <2>2
<1> QED
  BY <1>1, <1>6, <1>7 DEF RowInv, RowTypes, Saving

\* The other steps of a round.
LEMMA RoundStep ==
  ASSUME RowInv, Next
  PROVE  RowInv'
<1> USE DEF RowInv
<1>0. ASSUME UNCHANGED <<rows, pos, ips>>
      PROVE  Collecting' /\ \A n : AddressesOf(n)' = AddressesOf(n)
  BY <1>0 DEF Collecting, Lists, RowsOf, Wanted, IsIp, AddressesOf
<1>1. CASE GetIfAddrs
  <2>1. pc = "idle" /\ pc' = "collect" /\ pos' = pos /\ ips' = ips /\ todo' = todo
        /\ saved' = saved
    BY <1>1 DEF GetIfAddrs
  <2>2. pos = 1 /\ DOMAIN ips = {}
    BY <2>1 DEF RowTypes, Saving
  <2>3. rows' \in Seq(Row)
    BY <1>1, IpTableAssumption DEF GetIfAddrs, SeqOf
  <2>4. \A n : AddressesOf(n)' = <<>> /\ RowsOf(n, pos - 1)' = {}
    BY <2>1, <2>2 DEF AddressesOf, RowsOf
  <2>5. Collecting'
    BY <2>4, FS_EmptySet DEF Collecting, Lists
  <2> QED
    BY <2>1, <2>2, <2>3, <2>5 DEF RowTypes, Saving
<1>2. CASE GetIfAddrsFails
  BY <1>0, <1>2 DEF GetIfAddrsFails, RowTypes, Saving, AddressesOf
<1>3. CASE SkipRow \/ AddRow
  BY <1>3, ReadRow
<1>4. CASE Collected
  BY <1>0, <1>4 DEF Collected, RowTypes, Saving, AddressesOf
<1>5. ASSUME NEW n \in Names, SaveRecord(n)
      PROVE  RowInv'
  <2>1. saved[n] = <<>> /\ AddressesOf(n) = ips[n] /\ ips[n] \in Seq(Addrs)
    BY <1>5 DEF SaveRecord, RowTypes, Saving, AddressesOf
  <2>2. saved'[n] = ips[n] /\ saved' = [saved EXCEPT ![n] = ips[n]]
    BY <1>5, <2>1 DEF SaveRecord, Saving
  <2> QED
    BY <1>0, <1>5, <2>1, <2>2 DEF SaveRecord, RowTypes, Saving
<1>6. ASSUME NEW n \in Names, DestroyRecord(n)
      PROVE  RowInv'
  BY <1>0, <1>6 DEF DestroyRecord, RowTypes, Saving
<1>7. CASE Saved
  BY <1>0, <1>7 DEF Saved, RowTypes, Saving
<1>8. CASE Destroyed
  <2>1. \A n : AddressesOf(n)' = <<>> /\ RowsOf(n, pos - 1)' = {}
    BY <1>8 DEF Destroyed, AddressesOf, RowsOf
  <2>2. Collecting'
    BY <2>1, FS_EmptySet DEF Collecting, Lists
  <2> QED
    BY <1>8, <2>2 DEF Destroyed, RowTypes, Saving
<1> QED
  BY <1>1, <1>2, <1>3, <1>4, <1>5, <1>6, <1>7, <1>8 DEF Next

-----------------------------------------------------------------------------
(* VLANs and the tables of a bridge *)

\* The positions of the three kinds of entries, among the first k.
Plains(k) == {p \in 1..k : Bridge!Plain(entries[p])}
Primaries(k) == {p \in 1..k : Bridge!Primary(entries[p])}
Untaggeds(k) == {p \in 1..k : Bridge!Untagged(entries[p])}

\* The primary VLAN is that of the first that says so.
First(id, own) ==
    \/ own = {} /\ id = 0
    \/ \E p \in own : id = entries[p].vlan /\ \A q \in own : p <= q

\* What BridgeVlans says of a table.
Holds(table, own) ==
    /\ \A p \in own : LET rank == Cardinality(own \cap (1..p)) IN
                      rank <= Slots => table[rank] = entries[p].vlan
    /\ \A j \in 1..Slots : j > Cardinality(own) => table[j] = 0

\* The first n slots are in use.
Packed(table, n) == \A j \in 1..Slots : table[j] = 0 <=> j > n

Bitmap == [1..Slots -> Nat]

VlanTypes ==
    /\ entries \in Seq(Bridge!Entry)
    /\ entry \in 1..(Len(entries) + 1)
    /\ vlan \in [pvid : Nat, vlan_bitmap : Bitmap, untagged_bitmap : Bitmap]
    /\ slot \in Nat

Sorted ==
    /\ Holds(vlan.vlan_bitmap, Plains(entry - 1))
    /\ Holds(vlan.untagged_bitmap, Untaggeds(entry - 1))
    /\ First(vlan.pvid, Primaries(entry - 1))

\* save_bridges() has made components of all ids before its slot.
Components ==
    IF slot = 0 THEN components = {}
    ELSE /\ entry = Len(entries) + 1
         /\ components = {vlan.vlan_bitmap[j] : j \in 1..(slot - 1)}
         /\ \A j \in 1..(slot - 1) : j <= Slots /\ vlan.vlan_bitmap[j] # 0

\* Nothing is kept of a bridge before it is collected and after it is freed.
Unread == stage # "bridges" => entry = 1 /\ slot = 0

VlanInv == VlanTypes /\ Sorted /\ Components /\ Unread

\* The least element of a set of numbers, when it is known.
LEMMA MinIs ==
  ASSUME NEW S \in SUBSET Nat, NEW k \in S, \A j \in S : k <= j
  PROVE  Bridge!Min(S) = k
<1>1. \E x \in S : \A y \in S : x <= y
  OBVIOUS
<1>2. Bridge!Min(S) \in S /\ \A j \in S : Bridge!Min(S) <= j
  BY <1>1 DEF Bridge!Min
<1>3. k \in Nat /\ Bridge!Min(S) \in Nat
  BY <1>2
<1>4. Bridge!Min(S) <= k /\ k <= Bridge!Min(S)
  BY <1>1, <1>2, <1>3
<1> HIDE DEF Bridge!Min
<1> QED
  BY <1>3, <1>4

\* It says it in its own words.
LEMMA SameHolds ==
  ASSUME NEW table, NEW own
  PROVE  Bridge!Holds(table, own) <=> Holds(table, own)
<1>1. \A S : Bridge!Cardinality(S) = Cardinality(S)
  BY DEF Bridge!Cardinality, Cardinality
<1> QED
  BY <1>1 DEF Bridge!Holds, Bridge!Rank, Holds

\* What has been read is in order by the definition of BridgeVlans.
LEMMA SortedInOrder ==
  ASSUME VlanTypes
  PROVE  Sorted => TablesInOrder
<1> SUFFICES ASSUME Sorted PROVE TablesInOrder
  OBVIOUS
<1> DEFINE own == Primaries(entry - 1)
<1>1. entry - 1 \in Nat /\ own \in SUBSET Nat
  BY DEF VlanTypes, Primaries
<1>2. vlan.pvid = IF own = {} THEN 0 ELSE entries[Bridge!Min(own)].vlan
  <2>1. CASE own = {}
    BY <2>1 DEF Sorted, First
  <2>2. CASE own # {}
    <3>1. PICK p \in own : vlan.pvid = entries[p].vlan /\ \A q \in own : p <= q
      BY <2>2 DEF Sorted, First
    <3>2. Bridge!Min(own) = p
      BY <1>1, <3>1, MinIs
    <3> QED
      BY <2>2, <3>1, <3>2
  <2> QED
    BY <2>1, <2>2
<1> QED
  BY <1>2, SameHolds DEF Sorted, TablesInOrder, Bridge!TablesInOrder, Bridge!Printed, Plains,
              Primaries, Untaggeds

\* A set of entries with ids fills its table from the front.
LEMMA FilledFront ==
  ASSUME NEW k \in Nat, NEW own \in SUBSET (1..k), NEW table, TablesAssumption,
         Holds(table, own), \A p \in own : entries[p].vlan \in Nat \ {0}
  PROVE  Packed(table, Cardinality(own))
<1>1. Cardinality(own) \in Nat
  <2>1. Cardinality(own) \in 0..k
    BY PositionsFinite, Zenon
  <2> QED
    BY <2>1
<1>2. ASSUME NEW j \in 1..Slots, j <= Cardinality(own)
      PROVE  table[j] # 0
  <2>1. j \in 1..Cardinality(own)
    BY <1>1, <1>2
  <2>2. PICK p \in own : Cardinality(own \cap (1..p)) = j
    BY <2>1, RankOnto
  <2>3. table[j] = entries[p].vlan
    BY <1>2, <2>2 DEF Holds, TablesAssumption, Bridge!ConstantsOK
  <2> QED
    BY <2>3
<1>3. ASSUME NEW j \in 1..Slots, j > Cardinality(own)
      PROVE  table[j] = 0
  BY <1>3 DEF Holds
<1> QED
  BY <1>1, <1>2, <1>3 DEF Packed

\* An id is put behind the others, if there is room.
Behind(table, c, id) == IF c >= Slots THEN table ELSE [table EXCEPT ![c + 1] = id]

\* The first empty slot is the one behind them.
LEMMA PutIs ==
  ASSUME NEW table \in Bitmap, NEW c \in Nat, NEW id \in Nat, TablesAssumption,
         Packed(table, c)
  PROVE  Bridge!Put(table, id) = Behind(table, c, id)
<1> DEFINE free == {j \in DOMAIN table : table[j] = 0}
<1>1. DOMAIN table = 1..Slots /\ Slots \in Nat
  BY DEF Bitmap, TablesAssumption, Bridge!ConstantsOK
<1>2. free = {j \in 1..Slots : j > c}
  BY <1>1 DEF Packed
<1>3. CASE c >= Slots
  <2>1. free = {}
    BY <1>1, <1>2, <1>3
  <2> QED
    BY <1>3, <2>1 DEF Bridge!Put, Behind
<1>4. CASE c < Slots
  <2>1. c + 1 \in free /\ \A j \in free : c + 1 <= j
    BY <1>1, <1>2, <1>4
  <2>2. free \in SUBSET Nat
    BY <1>1
  <2>3. Bridge!Min(free) = c + 1
    BY <2>1, <2>2, MinIs
  <2>4. free # {} /\ ~(c >= Slots)
    BY <1>1, <1>4, <2>1
  <2> QED
    BY <2>3, <2>4 DEF Bridge!Put, Behind
<1> QED
  BY <1>1, <1>3, <1>4

\* The table keeps the order with one more id.
LEMMA HoldsNext ==
  ASSUME NEW k \in Nat, NEW own \in SUBSET (1..k), NEW table \in Bitmap, TablesAssumption,
         Holds(table, own), \A p \in own : entries[p].vlan \in Nat \ {0},
         NEW id \in Nat, id = entries[k + 1].vlan
  PROVE  /\ Bridge!Put(table, id) \in Bitmap
         /\ Holds(Bridge!Put(table, id), own \cup {k + 1})
<1> DEFINE new == own \cup {k + 1}
           c == Cardinality(own)
           t == Bridge!Put(table, id)
<1>0. Slots \in Nat /\ c \in Nat /\ DOMAIN table = 1..Slots
  BY PositionsFinite DEF TablesAssumption, Bridge!ConstantsOK, Bitmap
<1>1. Packed(table, c)
  BY FilledFront
<1> HIDE DEF c
<1>2. t = IF c >= Slots THEN table ELSE [table EXCEPT ![c + 1] = id]
  <2>1. t = Behind(table, c, id)
    BY <1>0, <1>1, PutIs
  <2> QED
    BY <2>1 DEF Behind
<1>3. /\ Cardinality(new) = c + 1
      /\ new \cap (1..(k + 1)) = new
      /\ \A p \in own : new \cap (1..p) = own \cap (1..p)
  BY RankNext DEF c
<1>4. ASSUME NEW p \in own
      PROVE  Cardinality(own \cap (1..p)) \in 1..c
  <2>1. p \in Nat
    OBVIOUS
  <2>2. /\ Cardinality(own \cap (1..p)) \in 0..c
        /\ Cardinality(own \cap (1..p)) # 0
    BY <1>4, <2>1, RankType DEF c
  <2> QED
    BY <1>0, <2>2
<1> HIDE DEF t
<1>5. t \in Bitmap
  BY <1>0, <1>2 DEF Bitmap
<1>6. ASSUME NEW p \in new, Cardinality(new \cap (1..p)) <= Slots
      PROVE  t[Cardinality(new \cap (1..p))] = entries[p].vlan
  <2>1. CASE p = k + 1
    <3>1. Cardinality(new \cap (1..p)) = c + 1
      BY <1>3, <2>1
    <3> QED
      BY <1>0, <1>2, <1>6, <2>1, <3>1
  <2>2. CASE p \in own
    <3> DEFINE r == Cardinality(own \cap (1..p))
    <3>1. Cardinality(new \cap (1..p)) = r /\ r \in 1..c
      BY <1>3, <1>4, <2>2
    <3>2. r <= Slots
      BY <1>6, <3>1
    <3>3. table[r] = entries[p].vlan
      BY <2>2, <3>2 DEF Holds
    <3> HIDE DEF r
    <3>4. t[r] = table[r]
      BY <1>0, <1>2, <3>1, <3>2
    <3> QED
      BY <3>1, <3>3, <3>4
  <2> QED
    BY <2>1, <2>2
<1>7. ASSUME NEW j \in 1..Slots, j > Cardinality(new)
      PROVE  t[j] = 0
  BY <1>0, <1>1, <1>2, <1>3, <1>7 DEF Packed
<1> QED
  BY <1>5, <1>6, <1>7 DEF Holds, t

\* The positions of a kind up to the next entry.
LEMMA NextPrinted ==
  ASSUME NEW k \in Nat
  PROVE  /\ Plains(k + 1) = IF Bridge!Plain(entries[k + 1])
                            THEN Plains(k) \cup {k + 1} ELSE Plains(k)
         /\ Primaries(k + 1) = IF Bridge!Primary(entries[k + 1])
                               THEN Primaries(k) \cup {k + 1} ELSE Primaries(k)
         /\ Untaggeds(k + 1) = IF Bridge!Untagged(entries[k + 1])
                               THEN Untaggeds(k) \cup {k + 1} ELSE Untaggeds(k)
<1>1. 1..(k + 1) = 1..k \cup {k + 1}
  OBVIOUS
<1> QED
  BY <1>1 DEF Plains, Primaries, Untaggeds

\* Entries of the three kinds have ids, and no entry is of two kinds.
LEMMA Kinds ==
  ASSUME NEW e \in Bridge!Entry, TablesAssumption
  PROVE  /\ Bridge!Plain(e) \/ Bridge!Primary(e) \/ Bridge!Untagged(e)
            => e.vlan \in Nat \ {0}
         /\ Bridge!Plain(e) => ~Bridge!Primary(e) /\ ~Bridge!Untagged(e)
         /\ Bridge!Untagged(e) => ~Bridge!Primary(e)
<1>1. {"Egress Untagged"} \in SUBSET Bridge!Flags
  BY DEF Bridge!Flags
<1>2. {"Egress Untagged"} # NULL
  BY <1>1 DEF TablesAssumption, Bridge!ConstantsOK
<1>3. e.vlan \in Vids \cup {NULL}
  BY DEF Bridge!Entry
<1>4. Vids \subseteq Nat \ {0}
  BY DEF TablesAssumption, Bridge!ConstantsOK
<1>5. "PVID" \notin {"Egress Untagged"}
  OBVIOUS
<1> QED
  BY <1>2, <1>3, <1>4, <1>5 DEF Bridge!Plain, Bridge!Primary, Bridge!Untagged

\* The id of an entry that has been read.
LEMMA ReadIds ==
  ASSUME VlanTypes, TablesAssumption, NEW k \in Nat, k <= Len(entries),
         NEW p \in 1..k, \/ p \in Plains(k) \/ p \in Primaries(k) \/ p \in Untaggeds(k)
  PROVE  entries[p].vlan \in Nat \ {0}
<1>1. entries[p] \in Bridge!Entry
  <2>1. entries \in Seq(Bridge!Entry) /\ p \in 1..Len(entries)
    BY DEF VlanTypes
  <2> QED
    BY <2>1, ElementOfSeq
<1> QED
  BY <1>1, Kinds DEF Plains, Primaries, Untaggeds

\* get_bridge_vlan() reads one entry.
LEMMA ReadVlan ==
  ASSUME VlanTypes, Sorted, Components, Bridge!ReadEntry
  PROVE  VlanTypes' /\ Sorted' /\ Components'
<1> DEFINE k == entry - 1
           e == entries[k + 1]
<1>1. k \in Nat /\ k + 1 = entry /\ k + 1 \in 1..Len(entries) /\ entry' - 1 = k + 1
      /\ entry' \in 1..(Len(entries) + 1)
  BY DEF VlanTypes, Bridge!ReadEntry
<1>2. entries' = entries /\ slot' = slot /\ components' = components
      /\ vlan' = Bridge!Classified(vlan, e)
  BY <1>1 DEF Bridge!ReadEntry
<1>3. e \in Bridge!Entry
  BY <1>1, ElementOfSeq DEF VlanTypes
<1>4. slot = 0 /\ components = {}
  BY <1>1 DEF Components
<1>5. /\ Holds(vlan.vlan_bitmap, Plains(k)) /\ Holds(vlan.untagged_bitmap, Untaggeds(k))
      /\ First(vlan.pvid, Primaries(k))
  BY DEF Sorted
<1>6. /\ vlan.pvid \in Nat /\ vlan.vlan_bitmap \in Bitmap /\ vlan.untagged_bitmap \in Bitmap
      /\ DOMAIN vlan = {"pvid", "vlan_bitmap", "untagged_bitmap"}
  BY DEF VlanTypes
<1>7. \A p \in Plains(k) \cup Primaries(k) \cup Untaggeds(k) : entries[p].vlan \in Nat \ {0}
  <2>1. k <= Len(entries)
    BY <1>1
  <2>2. \A p \in Plains(k) \cup Primaries(k) \cup Untaggeds(k) : p \in 1..k
    BY DEF Plains, Primaries, Untaggeds
  <2> HIDE DEF k
  <2> QED
    BY <1>1, <2>1, <2>2, ReadIds, TablesAssumption
<1>8. ASSUME Sorted', vlan' \in [pvid : Nat, vlan_bitmap : Bitmap, untagged_bitmap : Bitmap]
      PROVE  VlanTypes' /\ Sorted' /\ Components'
  BY <1>1, <1>2, <1>4, <1>8 DEF VlanTypes, Components
<1>9. Sorted' <=> /\ Holds(vlan'.vlan_bitmap, Plains(k + 1))
                  /\ Holds(vlan'.untagged_bitmap, Untaggeds(k + 1))
                  /\ First(vlan'.pvid, Primaries(k + 1))
  <2>1. /\ Plains(entry - 1)' = Plains(k + 1)
        /\ Primaries(entry - 1)' = Primaries(k + 1)
        /\ Untaggeds(entry - 1)' = Untaggeds(k + 1)
    BY <1>1, <1>2 DEF Plains, Primaries, Untaggeds
  <2> HIDE DEF k
  <2>2. Holds(vlan.vlan_bitmap, Plains(entry - 1))'
          <=> Holds(vlan'.vlan_bitmap, Plains(k + 1))
    BY <1>2, <2>1 DEF Holds
  <2>3. Holds(vlan.untagged_bitmap, Untaggeds(entry - 1))'
          <=> Holds(vlan'.untagged_bitmap, Untaggeds(k + 1))
    BY <1>2, <2>1 DEF Holds
  <2>4. First(vlan.pvid, Primaries(entry - 1))' <=> First(vlan'.pvid, Primaries(k + 1))
    BY <1>2, <2>1 DEF First
  <2> QED
    BY <2>2, <2>3, <2>4 DEF Sorted
<1>10. /\ Plains(k + 1) = IF Bridge!Plain(e) THEN Plains(k) \cup {k + 1} ELSE Plains(k)
       /\ Primaries(k + 1) = IF Bridge!Primary(e) THEN Primaries(k) \cup {k + 1}
                             ELSE Primaries(k)
       /\ Untaggeds(k + 1) = IF Bridge!Untagged(e) THEN Untaggeds(k) \cup {k + 1}
                             ELSE Untaggeds(k)
  BY <1>1, NextPrinted
<1>11. /\ Plains(k) \in SUBSET (1..k) /\ Untaggeds(k) \in SUBSET (1..k)
       /\ Primaries(k) \in SUBSET (1..k)
  BY DEF Plains, Primaries, Untaggeds
<1>12. /\ Bridge!Plain(e) \/ Bridge!Primary(e) \/ Bridge!Untagged(e)
             => e.vlan \in Nat \ {0}
       /\ Bridge!Plain(e) => ~Bridge!Primary(e) /\ ~Bridge!Untagged(e)
       /\ Bridge!Untagged(e) => ~Bridge!Primary(e)
  BY <1>3, Kinds, TablesAssumption
<1> HIDE DEF k
<1>13. CASE Bridge!Plain(e)
  <2>1. vlan' = [vlan EXCEPT !.vlan_bitmap = Bridge!Put(vlan.vlan_bitmap, e.vlan)]
    BY <1>2, <1>12, <1>13 DEF Bridge!Classified
  <2>2. /\ Bridge!Put(vlan.vlan_bitmap, e.vlan) \in Bitmap
        /\ Holds(Bridge!Put(vlan.vlan_bitmap, e.vlan), Plains(k) \cup {k + 1})
    BY <1>1, <1>5, <1>6, <1>7, <1>11, <1>12, <1>13, HoldsNext, TablesAssumption
  <2>3. /\ vlan'.vlan_bitmap = Bridge!Put(vlan.vlan_bitmap, e.vlan)
        /\ vlan'.untagged_bitmap = vlan.untagged_bitmap /\ vlan'.pvid = vlan.pvid
    BY <1>6, <2>1
  <2>4. vlan' \in [pvid : Nat, vlan_bitmap : Bitmap, untagged_bitmap : Bitmap]
    BY <2>1, <2>2 DEF VlanTypes
  <2> QED
    BY <1>5, <1>8, <1>9, <1>10, <1>12, <1>13, <2>2, <2>3, <2>4
<1>14. CASE Bridge!Untagged(e)
  <2>1. vlan' = [vlan EXCEPT !.untagged_bitmap = Bridge!Put(vlan.untagged_bitmap, e.vlan)]
    BY <1>2, <1>12, <1>14 DEF Bridge!Classified
  <2>2. /\ Bridge!Put(vlan.untagged_bitmap, e.vlan) \in Bitmap
        /\ Holds(Bridge!Put(vlan.untagged_bitmap, e.vlan), Untaggeds(k) \cup {k + 1})
    BY <1>1, <1>5, <1>6, <1>7, <1>11, <1>12, <1>14, HoldsNext, TablesAssumption
  <2>3. /\ vlan'.untagged_bitmap = Bridge!Put(vlan.untagged_bitmap, e.vlan)
        /\ vlan'.vlan_bitmap = vlan.vlan_bitmap /\ vlan'.pvid = vlan.pvid
    BY <1>6, <2>1
  <2>4. vlan' \in [pvid : Nat, vlan_bitmap : Bitmap, untagged_bitmap : Bitmap]
    BY <2>1, <2>2 DEF VlanTypes
  <2> QED
    BY <1>5, <1>8, <1>9, <1>10, <1>12, <1>14, <2>2, <2>3, <2>4
<1>15. CASE Bridge!Primary(e) /\ vlan.pvid = 0
  <2>1. vlan' = [vlan EXCEPT !.pvid = e.vlan]
    BY <1>2, <1>12, <1>15 DEF Bridge!Classified
  <2>2. Primaries(k) = {}
    BY <1>5, <1>7, <1>15 DEF First
  <2>3. First(e.vlan, Primaries(k + 1))
    BY <1>1, <1>10, <1>15, <2>2 DEF First
  <2>4. /\ vlan'.untagged_bitmap = vlan.untagged_bitmap
        /\ vlan'.vlan_bitmap = vlan.vlan_bitmap /\ vlan'.pvid = e.vlan
    BY <1>6, <2>1
  <2>5. vlan' \in [pvid : Nat, vlan_bitmap : Bitmap, untagged_bitmap : Bitmap]
    BY <1>12, <1>15, <2>1 DEF VlanTypes
  <2> QED
    BY <1>5, <1>8, <1>9, <1>10, <1>12, <1>15, <2>3, <2>4, <2>5
<1>16. CASE ~Bridge!Plain(e) /\ ~Bridge!Untagged(e)
            /\ ~(Bridge!Primary(e) /\ vlan.pvid = 0)
  <2>1. vlan' = vlan
    BY <1>2, <1>16 DEF Bridge!Classified
  <2>2. First(vlan.pvid, Primaries(k + 1))
    <3>1. CASE ~Bridge!Primary(e)
      BY <1>5, <1>10, <3>1
    <3>2. CASE Bridge!Primary(e)
      <4>1. PICK p \in Primaries(k) :
                vlan.pvid = entries[p].vlan /\ \A q \in Primaries(k) : p <= q
        BY <1>5, <1>16, <3>2 DEF First
      <4>2. p <= k + 1
        BY <1>1, <1>11
      <4> QED
        BY <1>10, <3>2, <4>1, <4>2 DEF First
    <3> QED
      BY <3>1, <3>2
  <2>3. vlan' \in [pvid : Nat, vlan_bitmap : Bitmap, untagged_bitmap : Bitmap]
    BY <2>1 DEF VlanTypes
  <2> QED
    BY <1>5, <1>8, <1>9, <1>10, <1>16, <2>1, <2>2, <2>3
<1> QED
  BY <1>13, <1>14, <1>15, <1>16

\* save_bridges() begins, or makes one component.
LEMMA SaveVlan ==
  ASSUME VlanTypes, Sorted, Components, Bridge!BeginSave \/ Bridge!SaveSlot
  PROVE  VlanTypes' /\ Sorted' /\ Components'
<1>1. entries' = entries /\ entry' = entry /\ vlan' = vlan
  BY DEF Bridge!BeginSave, Bridge!SaveSlot
<1>2. Sorted'
  BY <1>1 DEF Sorted, Holds, First, Plains, Primaries, Untaggeds
<1>3. CASE Bridge!BeginSave
  <2>1. slot = 0 /\ slot' = 1 /\ components' = {} /\ entry = Len(entries) + 1
    BY <1>3 DEF Bridge!BeginSave, Components, VlanTypes
  <2>2. 1..(slot' - 1) = {}
    BY <2>1
  <2> QED
    BY <1>1, <1>2, <2>1, <2>2 DEF VlanTypes, Components
<1>4. CASE Bridge!SaveSlot
  <2>1. slot \in 1..Slots /\ vlan.vlan_bitmap[slot] # 0 /\ slot' = slot + 1
        /\ components' = components \cup {vlan.vlan_bitmap[slot]}
    BY <1>4 DEF Bridge!SaveSlot
  <2>2. slot \in Nat /\ slot # 0 /\ slot <= Slots
    BY <2>1 DEF VlanTypes
  <2>3. 1..(slot' - 1) = 1..(slot - 1) \cup {slot}
    BY <2>1, <2>2
  <2>4. Components'
    BY <1>1, <2>1, <2>2, <2>3 DEF Components
  <2> QED
    BY <1>1, <1>2, <2>1, <2>2, <2>4 DEF VlanTypes
<1> QED
  BY <1>3, <1>4

\* When it has come to an end the components are the ids of the first entries.
LEMMA SavedAll ==
  ASSUME VlanTypes, Sorted, Components
  PROVE  PlainBecomeComponents
<1> SUFFICES ASSUME Bridge!SaveEnded
             PROVE  components = {entries[p].vlan : p \in
                        {q \in Plains(Len(entries)) :
                            Cardinality(Plains(Len(entries)) \cap (1..q)) <= Slots}}
  <2>1. \A S : Bridge!Cardinality(S) = Cardinality(S)
    BY DEF Bridge!Cardinality, Cardinality
  <2> QED
    BY <2>1 DEF PlainBecomeComponents, Bridge!PlainBecomeComponents, Bridge!Rank,
                Bridge!Printed, Plains
<1> DEFINE k == Len(entries)
           own == Plains(k)
           table == vlan.vlan_bitmap
           Rank(p) == Cardinality(own \cap (1..p))
<1>1. k \in Nat /\ own \in SUBSET (1..k) /\ Slots \in Nat /\ slot \in Nat /\ slot # 0
  BY TablesAssumption DEF VlanTypes, Plains, TablesAssumption, Bridge!ConstantsOK,
                          Bridge!SaveEnded
<1>2. /\ entry - 1 = k /\ components = {table[j] : j \in 1..(slot - 1)}
      /\ \A j \in 1..(slot - 1) : j <= Slots /\ table[j] # 0
  BY <1>1 DEF Components
<1>3. Holds(table, own)
  BY <1>2 DEF Sorted
<1>4. Packed(table, Cardinality(own))
  <2>1. \A p \in own : entries[p].vlan \in Nat \ {0}
    BY <1>1, ReadIds, TablesAssumption
  <2> HIDE DEF own, table, k
  <2> QED
    BY <1>1, <1>3, <2>1, FilledFront, TablesAssumption
<1>5. Cardinality(own) \in Nat
  <2> HIDE DEF own, k
  <2>1. Cardinality(own) \in 0..k
    BY <1>1, PositionsFinite
  <2> QED
    BY <2>1
<1>6. \A p \in own : Rank(p) \in 1..Cardinality(own)
  <2> HIDE DEF own, k
  <2>1. ASSUME NEW p \in own
        PROVE  Rank(p) \in 0..Cardinality(own) /\ Rank(p) # 0
    <3>1. p \in Nat
      BY <1>1
    <3> QED
      BY <1>1, <3>1, RankType
  <2> QED
    BY <1>5, <2>1
<1>7. slot <= Slots => table[slot] = 0
  BY DEF Bridge!SaveEnded
<1> HIDE DEF own, table, k
<1>8. ASSUME NEW j \in 1..(slot - 1)
      PROVE  \E p \in own : Rank(p) <= Slots /\ table[j] = entries[p].vlan
  <2>1. j \in 1..Slots /\ j \in 1..Cardinality(own)
    BY <1>1, <1>2, <1>4, <1>5 DEF Packed
  <2>2. PICK p \in own : Rank(p) = j
    BY <1>1, <2>1, RankOnto
  <2> QED
    BY <1>1, <1>3, <2>1, <2>2 DEF Holds
<1>9. ASSUME NEW p \in own, Rank(p) <= Slots
      PROVE  Rank(p) \in 1..(slot - 1) /\ table[Rank(p)] = entries[p].vlan
  <2> DEFINE r == Rank(p)
  <2>1. r \in 1..Cardinality(own) /\ r <= Slots
    BY <1>6, <1>9
  <2>2. table[r] = entries[p].vlan
    BY <1>3, <2>1 DEF Holds
  <2> HIDE DEF r
  <2>3. r < slot
    <3>1. SUFFICES ASSUME slot <= r PROVE FALSE
      BY <1>1, <1>5, <2>1
    <3>2. slot \in 1..Slots /\ slot <= Cardinality(own)
      BY <1>1, <1>5, <2>1, <3>1
    <3> QED
      BY <1>4, <1>5, <1>7, <3>2 DEF Packed
  <2> QED
    BY <1>1, <1>5, <2>1, <2>2, <2>3 DEF r
<1> DEFINE firsts == {entries[p].vlan : p \in {q \in own : Rank(q) <= Slots}}
<1>10. ASSUME NEW id \in components
       PROVE  id \in firsts
  BY <1>2, <1>8
<1>11. ASSUME NEW id \in firsts
       PROVE  id \in components
  BY <1>2, <1>9
<1>12. components = firsts
  BY <1>10, <1>11
<1> QED
  BY <1>12 DEF own, k

-----------------------------------------------------------------------------
(* The steps of main() *)

TablesInv == RowInv /\ VlanInv

\* Nothing has been read.
LEMMA InitTables == TablesInit => TablesInv
<1> SUFFICES ASSUME TablesInit PROVE TablesInv
  OBVIOUS
<1>1. \A n : AddressesOf(n) = <<>> /\ RowsOf(n, pos - 1) = {}
  BY DEF TablesInit, Init, AddressesOf, RowsOf
<1>2. Collecting
  BY <1>1, FS_EmptySet DEF Collecting, Lists
<1>3. RowInv
  BY <1>2 DEF TablesInit, Init, RowInv, RowTypes, Saving
<1>4. Slots \in Nat /\ vlan = NoVlan /\ entries = <<>> /\ entry = 1 /\ slot = 0
  BY TablesAssumption DEF TablesAssumption, Bridge!ConstantsOK, TablesInit
<1>5. VlanTypes /\ Sorted
  <2>1. VlanTypes
    BY <1>4 DEF VlanTypes, NoVlan, Bridge!Empty, Bitmap
  <2>2. Plains(entry - 1) = {} /\ Primaries(entry - 1) = {} /\ Untaggeds(entry - 1) = {}
    BY <1>4 DEF Plains, Primaries, Untaggeds
  <2> QED
    BY <1>4, <2>1, <2>2 DEF Sorted, Holds, First, NoVlan, Bridge!Empty
<1> QED
  BY <1>3, <1>4, <1>5 DEF TablesInit, TablesInv, VlanInv, Components, Unread

\* Each step of main() reads into one table and leaves the other.
LEMMA NextTables == TablesInv /\ [TablesNext]_tablesVars => TablesInv'
<1> SUFFICES ASSUME TablesInv, [TablesNext]_tablesVars PROVE TablesInv'
  OBVIOUS
<1> USE DEF TablesInv
<1>1. ASSUME UNCHANGED ipVars
      PROVE  RowInv'
  BY <1>1 DEF ipVars, RowInv, RowTypes, Collecting, Saving, Lists, RowsOf, Wanted, IsIp,
              AddressesOf
<1>2. ASSUME UNCHANGED bridgeVars
      PROVE  (VlanTypes /\ Sorted /\ Components)'
  BY <1>2 DEF bridgeVars, VlanInv, VlanTypes, Sorted, Components, Holds, First, Plains,
              Primaries, Untaggeds
<1>3. CASE UpdateIps
  <2>1. RowInv'
    BY <1>3, RoundStep DEF UpdateIps
  <2>2. UNCHANGED bridgeVars /\ stage' = stage
    BY <1>3 DEF UpdateIps, bridgeVars
  <2> QED
    BY <1>2, <2>1, <2>2 DEF VlanInv, Unread, bridgeVars
<1>4. CASE CollectBridges
  <2>1. UNCHANGED <<ipVars, entry, vlan, slot, components>> /\ stage = "first"
        /\ stage' = "bridges"
    BY <1>4 DEF CollectBridges, ipVars
  <2>2. entries' \in Seq(Bridge!Entry)
    BY <1>4, TablesAssumption
       DEF CollectBridges, Bridge!Outputs, Bridge!BoundedSeq, Bridge!SeqOf,
           TablesAssumption, Bridge!ConstantsOK
  <2>3. entry = 1 /\ slot = 0
    BY <2>1 DEF VlanInv, Unread
  <2>4. VlanTypes' /\ Components'
    BY <2>1, <2>2, <2>3 DEF VlanInv, VlanTypes, Components
  <2>5. /\ Plains(entry - 1) = {} /\ Primaries(entry - 1) = {} /\ Untaggeds(entry - 1) = {}
        /\ Plains(entry - 1)' = {} /\ Primaries(entry - 1)' = {}
        /\ Untaggeds(entry - 1)' = {}
    BY <2>1, <2>3 DEF Plains, Primaries, Untaggeds
  <2>6. Sorted'
    BY <2>1, <2>5 DEF VlanInv, Sorted, Holds, First
  <2> QED
    BY <1>1, <2>1, <2>4, <2>6 DEF VlanInv, Unread
<1>5. CASE BridgeStep
  <2>1. UNCHANGED <<ipVars, stage>> /\ stage = "bridges"
    BY <1>5 DEF BridgeStep, ipVars
  <2>2. (VlanTypes /\ Sorted /\ Components)'
    BY <1>5, ReadVlan, SaveVlan DEF BridgeStep, Bridge!Next, VlanInv
  <2> QED
    BY <1>1, <2>1, <2>2 DEF VlanInv, Unread
<1>6. CASE DestroyBridges
  <2>1. /\ UNCHANGED ipVars
        /\ entries' = <<>> /\ entry' = 1 /\ vlan' = NoVlan /\ slot' = 0 /\ components' = {}
    BY <1>6 DEF DestroyBridges, ipVars
  <2>2. Slots \in Nat
    BY TablesAssumption DEF TablesAssumption, Bridge!ConstantsOK
  <2>3. VlanTypes'
    BY <2>1, <2>2 DEF VlanTypes, NoVlan, Bridge!Empty, Bitmap
  <2>4. Plains(entry - 1)' = {} /\ Primaries(entry - 1)' = {} /\ Untaggeds(entry - 1)' = {}
    BY <2>1 DEF Plains, Primaries, Untaggeds
  <2>5. Sorted'
    BY <2>1, <2>4 DEF Sorted, Holds, First, NoVlan, Bridge!Empty
  <2> QED
    BY <1>1, <2>1, <2>3, <2>5 DEF VlanInv, Components, Unread
<1>7. CASE UNCHANGED tablesVars
  <2>1. UNCHANGED ipVars /\ UNCHANGED bridgeVars /\ stage' = stage
    BY <1>7 DEF tablesVars
  <2> QED
    BY <1>1, <1>2, <2>1 DEF VlanInv, Unread, bridgeVars
<1> QED
  BY <1>3, <1>4, <1>5, <1>6, <1>7 DEF TablesNext

-----------------------------------------------------------------------------
(* Theorems *)

\* Up to the position of each loop its table holds, in order, what is in the rows and
\* entries read so far, and main() never works on a bridge it has not collected.
THEOREM TablesInvariance == TablesSpec => []TablesInv
  BY InitTables, NextTables, PTL DEF TablesSpec

\* update_ips() sets each address of each known port once and in the order of
\* getifaddrs(), however its rows are interleaved; for any number of rows and ports.
THEOREM EveryRowSavedHolds == TablesSpec => []EveryRowSaved
<1>1. TablesInv => EveryRowSaved
  <2> SUFFICES ASSUME TablesInv, pc = "destroy", NEW n \in Names
               PROVE  Lists(saved[n], RowsOf(n, Len(rows)))
    BY DEF EveryRowSaved, Lists
  <2>1. pos - 1 = Len(rows) /\ saved[n] = AddressesOf(n)
    BY DEF TablesInv, RowInv, RowTypes, Saving
  <2> QED
    BY <2>1 DEF TablesInv, RowInv, Collecting
<1> QED
  BY <1>1, TablesInvariance, PTL

\* get_bridge_vlan() sorts the VLANs of a bridge into tables without a gap, for any
\* entries and any size of the tables.
THEOREM TablesInOrderHolds == TablesSpec => []TablesInOrder
<1>1. TablesInv => TablesInOrder
  BY SortedInOrder DEF TablesInv, VlanInv
<1> QED
  BY <1>1, TablesInvariance, PTL

\* save_bridges() makes components of exactly the VLANs printed without flags, as many
\* as its table holds.
THEOREM PlainBecomeComponentsHolds == TablesSpec => []PlainBecomeComponents
<1>1. TablesInv => PlainBecomeComponents
  BY SavedAll DEF TablesInv, VlanInv
<1> QED
  BY <1>1, TablesInvariance, PTL

=============================================================================
