----------------------------- MODULE LldpProofs -----------------------------
(***************************************************************************)
(* Proofs about Lldp: what the answer says of each neighbour's age, which  *)
(* memory a request leaves behind, what can crash it, and which neighbours *)
(* of the document the answer holds.                                       *)
(***************************************************************************)
EXTENDS Lldp, TLAPS

-----------------------------------------------------------------------------
(* The invariant *)

Lldps == [chassis : Child \cup {NULL}, port : Child \cup {NULL}, vlan : Child \cup {NULL},
          ppvid : Child \cup {NULL}, pi : Seq(Child)]

\* The clock only goes on: nobody was heard of, and nothing asked, in the future.
Clocked ==
    /\ asked <= clock
    /\ \A p \in Ports : since[p] # NULL => since[p] <= clock
    /\ \A n \in doc \cup ({node} \ {NULL}) : n.born <= asked

\* The handler is at a neighbour exactly while it reads and answers it.
Placed ==
    /\ doc \subseteq Printed
    /\ IF pc = "children" THEN node \in Printed ELSE node = NULL
    /\ lldp \in Lldps
    /\ pc = "idle" => doc = {}

\* Of the memory the lldp_t holds a part, and all of it as long as nothing was forgotten.
Memory ==
    /\ pc = "children" =>
          \A k \in Kinds : /\ Destroyed(lldp)[k] <= heap[k]
                           /\ ~untidy => Destroyed(lldp)[k] = heap[k]
    /\ pc # "children" /\ ~untidy => heap = Zero

\* The children are read in order, and of each kind but <pi> the lldp_t points to the
\* last one read.
Siblings == element[node.port].children
Read == Len(Siblings) - Len(children)

LastRead(tag) ==
    IF lldp[tag] = NULL THEN \A i \in 1..Read : Siblings[i].tag # tag
    ELSE \E i \in 1..Read : /\ Siblings[i].tag = tag /\ Siblings[i] = lldp[tag]
                            /\ \A j \in i + 1..Read : Siblings[j].tag # tag

Reading ==
    pc = "children" =>
        /\ Len(children) <= Len(Siblings)
        /\ \A i \in 1..Len(children) : children[i] = Siblings[Read + i]
        /\ LastRead("chassis") /\ LastRead("port")

\* The process dies at a neighbour, all of whose children are read.
Crashed ==
    ~alive => /\ pc = "children" /\ children = <<>>
              /\ Followed => lldp.port.id = "short"

\* The neighbours the handler is done with.
Done == {p \in printed : /\ \A n \in doc : n.port # p
                         /\ pc = "children" => node.port # p}

\* Each neighbour of the document is still to come, at hand or done, and of those done
\* the answer holds what it should.
Answering ==
    pc # "idle" =>
        /\ \A n \in doc : n.port \in printed
        /\ \A n, m \in doc : n.port = m.port => n = m
        /\ pc = "children" => node.port \in printed /\ \A n \in doc : n.port # node.port
        /\ IF first = NULL THEN Done = {} ELSE first \in Done
        /\ {r.port : r \in reply} =
              IF first = NULL \/ ~Mac(first) THEN {} ELSE {p \in Done : Mac(p)}

LldpInv == /\ TypeOK /\ Clocked /\ Placed /\ Memory /\ Reading /\ Crashed
           /\ MarkDrift /\ Answering

-----------------------------------------------------------------------------
(* Ages and structs *)

\* age_str2num() adds the hours and the days to the coarser unit they are a part of:
\* a minute too much for each hour, 2904 seconds for the first day.  Of two days or more
\* it reads nothing.
LEMMA AgeDrift ==
  ASSUME NEW x \in Int
  PROVE  age_str2num(Age(x, 2)) =
            IF x >= 172800 THEN 0
            ELSE x + 60 * ((x \div 3600) % 24) + 2904 * (x \div 86400)
<1>1. x >= 172800 <=> x \div 86400 > 1
  OBVIOUS
<1>2. CASE x >= 172800
  <2>1. Age(x, 2).unit = "days"
    BY <1>1, <1>2 DEF Age
  <2> QED
    BY <1>2, <2>1 DEF age_str2num
<1>3. CASE ~(x >= 172800)
  <2>1. Age(x, 2).unit = "day" /\ Age(x, 2).colons = 2
    BY <1>1, <1>3 DEF Age
  <2>2. age_str2num(Age(x, 2)) =
          LET a == Age(x, 2)
              days == 24 * a.day
              hours == days + (days + a.hour) * 60
              minutes == hours + (hours + a.minute) * 60
          IN minutes + a.second
    BY <2>1 DEF age_str2num
  <2> QED
    BY <1>3, <2>2 DEF Age
<1> QED
  BY <1>2, <1>3

\* An age is what lldpcli prints of it.
LEMMA AgeType ==
  ASSUME NEW x \in Nat, NEW c \in 0..2
  PROVE  Age(x, c) \in AgeText
  BY DEF Age, AgeText

\* What reading a child allocates is freed with it but for the types of capabilities.
LEMMA ChildMemory ==
  ASSUME NEW c \in Child
  PROVE  /\ Allocated(c) \in [Kinds -> Nat]
         /\ Freed(c) \in [Kinds -> Nat]
         /\ \A k \in Kinds : Freed(c)[k] <= Allocated(c)[k]
         /\ ~(c.tag = "chassis" /\ c.parts > 0) => Freed(c) = Allocated(c)
<1>1. c.tag \in Tags /\ c.parts \in Nat /\ c.auto \in BOOLEAN
  BY DEF Child
<1>2. Allocated(c) \in [Kinds -> Nat]
  <2>1. CASE c.tag = "chassis"
    BY <1>1, <2>1 DEF Allocated, Zero, Kinds
  <2>2. CASE c.tag = "port"
    BY <1>1, <2>2 DEF Allocated, Zero, Kinds
  <2>3. CASE c.tag \notin {"chassis", "port"}
    BY <1>1, <2>3 DEF Allocated, Zero, Kinds, Tags
  <2> QED
    BY <2>1, <2>2, <2>3
<1>3. ~(c.tag = "chassis" /\ c.parts > 0) => Allocated(c)["type"] = 0
  <2>1. CASE c.tag = "chassis"
    <3>1. Allocated(c)["type"] = c.parts
      BY <1>1, <2>1 DEF Allocated, Zero, Kinds
    <3> QED
      BY <1>1, <2>1, <3>1
  <2>2. CASE c.tag = "port"
    BY <1>1, <2>2 DEF Allocated, Zero, Kinds
  <2>3. CASE c.tag \notin {"chassis", "port"}
    BY <1>1, <2>3 DEF Allocated, Zero, Kinds, Tags
  <2> QED
    BY <2>1, <2>2, <2>3
<1> QED
  BY <1>2, <1>3 DEF Freed, Kinds

\* What a pointer of the lldp_t holds.
LEMMA HeldType ==
  ASSUME NEW c \in Child \cup {NULL}
  PROVE  Held(c) \in [Kinds -> Nat]
  BY ChildMemory DEF Held, Zero

\* What the lldp_t holds beside its pointers: itself and the list of <pi>.
Else(l, k) == IF k = "lldp" THEN 1 ELSE IF k = "pi" THEN Len(l.pi) ELSE 0

\* What lldp_destroy() frees, kind by kind.
LEMMA DestroyedIs ==
  ASSUME NEW l \in Lldps, NEW k \in Kinds
  PROVE  /\ Destroyed(l)[k] = Held(l.chassis)[k] + Held(l.port)[k] + Held(l.vlan)[k]
                                + Held(l.ppvid)[k] + Else(l, k)
         /\ Destroyed(l)[k] \in Nat
         /\ Held(l.chassis)[k] \in Nat /\ Held(l.port)[k] \in Nat
         /\ Held(l.vlan)[k] \in Nat /\ Held(l.ppvid)[k] \in Nat /\ Else(l, k) \in Nat
<1>1. /\ Held(l.chassis) \in [Kinds -> Nat] /\ Held(l.port) \in [Kinds -> Nat]
      /\ Held(l.vlan) \in [Kinds -> Nat] /\ Held(l.ppvid) \in [Kinds -> Nat]
  BY HeldType DEF Lldps
<1>2. Len(l.pi) \in Nat
  BY DEF Lldps
<1>3. [Zero EXCEPT !.lldp = 1, !.pi = Len(l.pi)] = [j \in Kinds |-> Else(l, j)]
  BY <1>2 DEF Zero, Kinds, Else
<1>4. Destroyed(l)[k] = Held(l.chassis)[k] + Held(l.port)[k]
                         + (Held(l.vlan)[k] + Held(l.ppvid)[k]) + Else(l, k)
  BY <1>3 DEF Destroyed, Plus
<1>5. Else(l, k) \in Nat
  BY <1>2 DEF Else
<1> QED
  BY <1>1, <1>4, <1>5

\* The lldp_t after a child.
After(l, c) ==
    IF c.tag = "pi" THEN [l EXCEPT !.pi = Append(@, c)] ELSE [l EXCEPT ![c.tag] = c]

\* It is still one.
LEMMA AfterType ==
  ASSUME NEW l \in Lldps, NEW c \in Child
  PROVE  After(l, c) \in Lldps
<1>1. c.tag \in Tags
  BY DEF Child
<1>2. CASE c.tag = "pi"
  <2>1. l.pi \in Seq(Child) /\ Append(l.pi, c) \in Seq(Child)
    BY DEF Lldps
  <2> QED
    BY <1>2, <2>1 DEF After, Lldps
<1>3. CASE c.tag # "pi"
  BY <1>1, <1>3 DEF After, Lldps, Tags
<1> QED
  BY <1>2, <1>3

\* What lldp_destroy() frees grows by the child, less the sibling it forgets.
LEMMA ReadMemory ==
  ASSUME NEW l \in Lldps, NEW c \in Child, NEW k \in Kinds
  PROVE  /\ Destroyed(After(l, c))[k] <= Destroyed(l)[k] + Freed(c)[k]
         /\ c.tag = "pi" \/ l[c.tag] = NULL =>
               Destroyed(After(l, c))[k] = Destroyed(l)[k] + Freed(c)[k]
<1> DEFINE m == After(l, c)
<1>1. c.tag \in Tags /\ Freed(c)[k] \in Nat
  BY ChildMemory DEF Child
<1>2. m \in Lldps
  BY AfterType
<1>3. Held(c) = Freed(c)
  BY LldpAssumption DEF Held
<1>4. Held(NULL)[k] = 0
  BY DEF Held, Zero
<1>5. CASE c.tag = "pi"
  <2>1. m.chassis = l.chassis /\ m.port = l.port /\ m.vlan = l.vlan /\ m.ppvid = l.ppvid
    BY <1>5 DEF After, Lldps
  <2>2. Else(m, k) = Else(l, k) + Freed(c)[k]
    <3>1. Len(m.pi) = Len(l.pi) + 1 /\ Len(l.pi) \in Nat
      BY <1>5 DEF After, Lldps
    <3>2. Freed(c)[k] = IF k = "pi" THEN 1 ELSE 0
      BY <1>5 DEF Freed, Allocated, Zero, Kinds
    <3> HIDE DEF m
    <3>3. CASE k = "lldp"
      BY <3>2, <3>3 DEF Else
    <3>4. CASE k = "pi"
      BY <3>1, <3>2, <3>4 DEF Else
    <3>5. CASE k # "lldp" /\ k # "pi"
      <4>1. Else(m, k) = 0 /\ Else(l, k) = 0 /\ Freed(c)[k] = 0
        BY <3>2, <3>5 DEF Else
      <4> QED
        BY <4>1
    <3> QED
      BY <3>3, <3>4, <3>5
  <2> HIDE DEF m
  <2>3. Destroyed(m)[k] = Destroyed(l)[k] + Freed(c)[k]
    BY <1>1, <1>2, <2>1, <2>2, DestroyedIs
  <2> QED
    BY <1>1, <2>3, DestroyedIs DEF m
<1>6. CASE c.tag # "pi"
  <2>1. c.tag \in {"chassis", "port", "vlan", "ppvid"}
    BY <1>1, <1>6 DEF Tags
  <2>2. m.pi = l.pi /\ Else(m, k) = Else(l, k)
    BY <1>6, <2>1 DEF After, Lldps, Else
  <2>3. Destroyed(m)[k] + Held(l[c.tag])[k] = Destroyed(l)[k] + Freed(c)[k]
    <3>1. /\ m.chassis = IF c.tag = "chassis" THEN c ELSE l.chassis
          /\ m.port = IF c.tag = "port" THEN c ELSE l.port
          /\ m.vlan = IF c.tag = "vlan" THEN c ELSE l.vlan
          /\ m.ppvid = IF c.tag = "ppvid" THEN c ELSE l.ppvid
      BY <1>6, <2>1 DEF After, Lldps
    <3>2. l["chassis"] = l.chassis /\ l["port"] = l.port /\ l["vlan"] = l.vlan
          /\ l["ppvid"] = l.ppvid
      OBVIOUS
    <3> HIDE DEF m
    <3>3. CASE c.tag = "chassis"
      BY <1>1, <1>2, <1>3, <2>2, <3>1, <3>2, <3>3, DestroyedIs
    <3>4. CASE c.tag = "port"
      BY <1>1, <1>2, <1>3, <2>2, <3>1, <3>2, <3>4, DestroyedIs
    <3>5. CASE c.tag = "vlan"
      BY <1>1, <1>2, <1>3, <2>2, <3>1, <3>2, <3>5, DestroyedIs
    <3>6. CASE c.tag = "ppvid"
      BY <1>1, <1>2, <1>3, <2>2, <3>1, <3>2, <3>6, DestroyedIs
    <3> QED
      BY <2>1, <3>3, <3>4, <3>5, <3>6
  <2>4. Held(l[c.tag])[k] \in Nat
    <3>1. l[c.tag] \in Child \cup {NULL}
      BY <2>1 DEF Lldps
    <3> QED
      BY <3>1, HeldType
  <2>5. Destroyed(m)[k] \in Nat /\ Destroyed(l)[k] \in Nat
    BY <1>2, DestroyedIs
  <2> HIDE DEF m
  <2>6. /\ Destroyed(m)[k] <= Destroyed(l)[k] + Freed(c)[k]
        /\ l[c.tag] = NULL => Destroyed(m)[k] = Destroyed(l)[k] + Freed(c)[k]
    BY <1>1, <1>4, <2>3, <2>4, <2>5
  <2> QED
    BY <1>6, <2>6 DEF m
<1> QED
  BY <1>5, <1>6

-----------------------------------------------------------------------------
(* The invariant is inductive *)

\* The children that lldpd prints for a neighbour.
LEMMA SiblingsType ==
  ASSUME TypeOK, NEW n \in Printed
  PROVE  element[n.port].children \in Seq(Child)
  BY LldpAssumption DEF TypeOK, Printed, Element

\* What the answer should hold is a matter of the document and of its first neighbour.
LEMMA AnsweringSame ==
  ASSUME Answering, UNCHANGED <<element, pc, doc, node, first, reply, printed>>
  PROVE  Answering'
<1>1. Done' = Done
  BY DEF Done
<1>2. \A p : Mac(p)' <=> Mac(p)
  BY DEF Mac, LastChild
<1> QED
  BY <1>1, <1>2 DEF Answering

\* The invariant holds before the first request.
LEMMA InitInv == Init => LldpInv
<1> SUFFICES ASSUME Init PROVE LldpInv
  OBVIOUS
<1>1. lldp \in Lldps
  BY DEF Init, lldp_init, Lldps
<1>2. \A tag \in Tags \ {"pi"} : lldp[tag] \in Child \cup {NULL}
  BY <1>1 DEF Lldps, Tags
<1>3. children \in Seq(Child) /\ lldp.pi \in Seq(Child)
  BY <1>1 DEF Init, Lldps
<1>4. TypeOK
  <2>1. /\ clock \in Nat /\ asked \in Nat
        /\ ticks \in 0..MaxTicks /\ requests \in 0..MaxRequests
    BY LldpAssumption DEF Init
  <2>2. /\ since \in [Ports -> Nat \cup {NULL}] /\ heap \in [Kinds -> Nat]
        /\ first \in Ports \cup {NULL} /\ printed \subseteq Ports
    BY DEF Init, Zero
  <2>3. doc \cup ({node} \ {NULL}) = {}
    BY DEF Init
  <2> QED
    BY <1>2, <1>3, <2>1, <2>2, <2>3 DEF Init, TypeOK
<1>5. Clocked /\ Placed /\ Crashed /\ MarkDrift
  BY <1>1, LldpAssumption DEF Init, Clocked, Placed, Crashed, MarkDrift
<1>6. Memory /\ Reading /\ Answering
  BY DEF Init, Memory, Reading, Answering
<1> QED
  BY <1>4, <1>5, <1>6 DEF LldpInv

\* The document: nobody in it was heard of after lldpcli ran.
LEMMA PopenInv ==
  ASSUME LldpInv, Popen
  PROVE  LldpInv'
<1> USE DEF LldpInv
<1>1. /\ pc = "idle" /\ pc' = "next" /\ asked' = clock /\ reply' = {}
      /\ first' = NULL /\ printed' = Neighbours
      /\ requests < MaxRequests /\ requests' = requests + 1
      /\ doc' = {[port |-> p, age |-> Shown(p), born |-> since[p]] : p \in Neighbours}
      /\ UNCHANGED <<alive, clock, ticks, since, element, node, children, lldp, heap,
                     untidy>>
  BY DEF Popen, lldpd
<1>2. \A n \in doc' : /\ n \in Printed
                      /\ n.age = IF element[n.port].colons = NULL THEN NULL
                                 ELSE Age(asked' - n.born, element[n.port].colons)
  <2> SUFFICES ASSUME NEW p \in Neighbours
               PROVE  /\ [port |-> p, age |-> Shown(p), born |-> since[p]] \in Printed
                      /\ Shown(p) = IF element[p].colons = NULL THEN NULL
                                    ELSE Age(clock - since[p], element[p].colons)
    BY <1>1
  <2>1. p \in Ports /\ since[p] \in Nat /\ since[p] <= clock /\ clock \in Nat
    BY DEF Neighbours, TypeOK, Clocked
  <2>2. element[p].colons \in {NULL} \cup 0..2
    BY <2>1, LldpAssumption DEF TypeOK, Element
  <2>3. clock - since[p] \in Nat
    BY <2>1
  <2>4. Shown(p) \in AgeText \cup {NULL}
    BY <2>2, <2>3, AgeType DEF Shown
  <2> QED
    BY <2>1, <2>4 DEF Printed, Shown
<1>3. node' = NULL
  BY <1>1 DEF Placed
<1>4. requests' \in 0..MaxRequests
  BY <1>1, LldpAssumption DEF TypeOK
<1>5. TypeOK'
  <2>1. printed' \subseteq Ports
    BY <1>1 DEF Neighbours
  <2> QED
    BY <1>1, <1>2, <1>3, <1>4, <2>1 DEF TypeOK, Printed
<1>6. Clocked'
  <2>1. \A p \in Neighbours : since[p] <= clock
    BY DEF Neighbours, Clocked
  <2>2. \A n \in doc' : n.born <= asked'
    BY <1>1, <2>1
  <2> QED
    BY <1>1, <1>3, <2>2 DEF TypeOK, Clocked
<1>7. Placed'
  BY <1>1, <1>2, <1>3 DEF Placed
<1>8. Memory' /\ Reading' /\ Crashed' /\ MarkDrift'
  BY <1>1 DEF Memory, Reading, Crashed, MarkDrift
<1>9. Answering'
  <2>1. ASSUME NEW p \in printed' PROVE \E n \in doc' : n.port = p
    <3>1. [port |-> p, age |-> Shown(p), born |-> since[p]] \in doc'
      BY <1>1
    <3> QED
      BY <3>1
  <2>2. Done' = {}
    BY <2>1 DEF Done
  <2>3. /\ \A n \in doc' : n.port \in printed'
        /\ \A n, m \in doc' : n.port = m.port => n = m
    BY <1>1
  <2> QED
    BY <1>1, <2>2, <2>3 DEF Answering
<1> QED
  BY <1>5, <1>6, <1>7, <1>8, <1>9

\* A request that lldpd does not answer.
LEMMA NoDocumentInv ==
  ASSUME LldpInv, NoDocument
  PROVE  LldpInv'
<1> USE DEF LldpInv
<1>1. /\ pc = "idle" /\ reply' = {} /\ requests < MaxRequests /\ requests' = requests + 1
      /\ UNCHANGED <<alive, clock, ticks, since, element, pc, asked, doc, node,
                     children, lldp, first, heap, untidy, printed>>
  BY DEF NoDocument, lldpd
<1>2. requests' \in 0..MaxRequests
  BY <1>1, LldpAssumption DEF TypeOK
<1>3. TypeOK'
  BY <1>1, <1>2 DEF TypeOK
<1>4. Clocked' /\ Placed'
  BY <1>1 DEF Clocked, Placed
<1>5. Memory' /\ Reading' /\ Crashed' /\ MarkDrift' /\ Answering'
  BY <1>1 DEF Memory, Reading, Crashed, MarkDrift, Answering
<1> QED
  BY <1>3, <1>4, <1>5

\* The next neighbour: an empty lldp_t, none of the children read.
LEMMA InterfaceInv ==
  ASSUME LldpInv, alive, NEW n \in doc, Interface(n)
  PROVE  LldpInv'
<1> USE DEF LldpInv
<1>1. /\ pc = "next" /\ doc' = doc \ {n} /\ node' = n
      /\ children' = element[n.port].children
      /\ lldp' = lldp_init /\ heap' = Plus(heap, [Zero EXCEPT !.lldp = 1])
      /\ pc' = "children"
      /\ UNCHANGED <<alive, requests, clock, ticks, since, element, asked, first, reply,
                     untidy, printed>>
  BY DEF Interface, lldpd
<1>2. n \in Printed /\ n # NULL
  BY LldpAssumption DEF Placed
<1>3. children' \in Seq(Child)
  BY <1>1, <1>2, SiblingsType
<1>4. lldp_init \in Lldps
  BY DEF lldp_init, Lldps
<1>5. /\ lldp' \in Lldps /\ lldp'.pi \in Seq(Child)
      /\ \A tag \in Tags \ {"pi"} : lldp'[tag] \in Child \cup {NULL}
  BY <1>1, <1>4 DEF Lldps, Tags
<1>6. \A k \in Kinds : Destroyed(lldp_init)[k] = IF k = "lldp" THEN 1 ELSE 0
  <2> SUFFICES ASSUME NEW k \in Kinds
               PROVE  Destroyed(lldp_init)[k] = IF k = "lldp" THEN 1 ELSE 0
    OBVIOUS
  <2>1. Held(NULL)[k] = 0
    BY DEF Held, Zero
  <2>2. Else(lldp_init, k) = IF k = "lldp" THEN 1 ELSE 0
    BY DEF Else, lldp_init
  <2>3. /\ lldp_init.chassis = NULL /\ lldp_init.port = NULL
        /\ lldp_init.vlan = NULL /\ lldp_init.ppvid = NULL
    BY DEF lldp_init
  <2> QED
    BY <1>4, <2>1, <2>2, <2>3, DestroyedIs
<1>7. \A k \in Kinds : heap'[k] = heap[k] + (IF k = "lldp" THEN 1 ELSE 0)
  BY <1>1 DEF Plus, Zero, Kinds
<1>8. heap' \in [Kinds -> Nat]
  <2>1. heap' = [k \in Kinds |-> heap'[k]]
    BY <1>1 DEF Plus
  <2>2. \A k \in Kinds : heap'[k] \in Nat
    BY <1>7 DEF TypeOK
  <2> QED
    BY <2>1, <2>2
<1>9. TypeOK'
  BY <1>1, <1>2, <1>3, <1>5, <1>8 DEF TypeOK
<1>10. Clocked' /\ Placed' /\ Crashed' /\ MarkDrift'
  BY <1>1, <1>2, <1>5 DEF Clocked, Placed, Crashed, MarkDrift
<1>11. Memory'
  <2>1. \A k \in Kinds : heap[k] \in Nat /\ (~untidy => heap[k] = 0)
    BY <1>1 DEF TypeOK, Memory, Zero
  <2> QED
    BY <1>1, <1>6, <1>7, <2>1 DEF Memory
<1>12. Reading'
  <2>1. Siblings' = children' /\ Read' = 0
    BY <1>1, <1>3 DEF Siblings, Read
  <2>2. lldp'["chassis"] = NULL /\ lldp'["port"] = NULL
    BY <1>1 DEF lldp_init
  <2>3. LastRead("chassis")' /\ LastRead("port")'
    BY <2>1, <2>2 DEF LastRead
  <2> QED
    BY <1>3, <2>1, <2>3 DEF Reading
<1>13. Answering'
  <2>1. /\ n.port \in printed /\ \A m \in doc' : m.port # n.port
        /\ \A m \in doc : m \in doc' \/ m = n
    BY <1>1 DEF Answering
  <2>2. Done' = Done
    BY <1>1, <2>1 DEF Done
  <2>3. \A p : Mac(p)' <=> Mac(p)
    BY <1>1 DEF Mac, LastChild
  <2> QED
    BY <1>1, <2>1, <2>2, <2>3 DEF Answering
<1> QED
  BY <1>9, <1>10, <1>11, <1>12, <1>13

\* The child is the next of the siblings, and the last of its kind read so far.
LEMMA ReadChildReading ==
  ASSUME LldpInv, ReadChild, NEW tag \in {"chassis", "port"}
  PROVE  LastRead(tag)'
<1> DEFINE c == Head(children)
           r == Read
<1>1. /\ pc = "children" /\ children # <<>> /\ children' = Tail(children)
      /\ lldp' = After(lldp, c) /\ UNCHANGED <<node, element>>
  BY DEF ReadChild, After, lldpd
<1>2. /\ children \in Seq(Child) /\ Siblings \in Seq(Child)
      /\ Len(children) <= Len(Siblings)
      /\ \A i \in 1..Len(children) : children[i] = Siblings[r + i]
      /\ LastRead(tag) /\ lldp \in Lldps
  BY <1>1, SiblingsType DEF LldpInv, TypeOK, Placed, Reading, Siblings
<1>3. Siblings' = Siblings
  BY <1>1 DEF Siblings
<1>4. /\ r \in Nat /\ Read' = r + 1
      /\ c \in Child /\ c # NULL /\ Siblings[r + 1] = c
  BY <1>1, <1>2, <1>3, LldpAssumption DEF Read
<1>5. CASE c.tag = tag
  <2>1. lldp'[tag] = c
    BY <1>1, <1>2, <1>5 DEF After, Lldps
  <2> HIDE DEF c, r
  <2>2. r + 1 \in 1..Read' /\ \A j \in (r + 1) + 1..Read' : FALSE
    BY <1>4
  <2> QED
    BY <1>3, <1>4, <1>5, <2>1, <2>2 DEF LastRead
<1>6. CASE c.tag # tag
  <2>1. lldp'[tag] = lldp[tag]
    <3>1. c.tag \in Tags
      BY <1>4 DEF Child
    <3>2. CASE c.tag = "pi"
      BY <1>1, <1>2, <3>2 DEF After, Lldps
    <3>3. CASE c.tag # "pi"
      BY <1>1, <1>2, <1>6, <3>1, <3>3 DEF After, Lldps, Tags
    <3> QED
      BY <3>2, <3>3
  <2> HIDE DEF c
  <2>2. r + 1 \notin 1..r /\ \A i \in 1..r + 1 : i \in 1..r \/ i = r + 1
    BY <1>4
  <2>3. CASE lldp[tag] = NULL
    <3>1. \A i \in 1..r : Siblings[i].tag # tag
      BY <1>2, <2>3 DEF LastRead
    <3> HIDE DEF r
    <3>2. \A i \in 1..r + 1 : Siblings[i].tag # tag
      BY <1>4, <1>6, <2>2, <3>1
    <3> QED
      BY <1>3, <1>4, <2>1, <2>3, <3>2 DEF LastRead
  <2>4. CASE lldp[tag] # NULL
    <3>1. PICK i \in 1..r : /\ Siblings[i].tag = tag /\ Siblings[i] = lldp[tag]
                            /\ \A j \in i + 1..r : Siblings[j].tag # tag
      BY <1>2, <2>4 DEF LastRead
    <3> HIDE DEF r
    <3>2. i \in 1..r + 1 /\ \A j \in i + 1..r + 1 : j \in i + 1..r \/ j = r + 1
      BY <1>4
    <3>3. \A j \in i + 1..r + 1 : Siblings[j].tag # tag
      BY <1>4, <1>6, <3>1, <3>2
    <3> QED
      BY <1>3, <1>4, <2>1, <2>4, <3>1, <3>2, <3>3 DEF LastRead
  <2> QED
    BY <2>3, <2>4
<1> QED
  BY <1>5, <1>6

\* A child: its memory is held, or a sibling of the same kind was forgotten.
LEMMA ReadChildInv ==
  ASSUME LldpInv, alive, ReadChild
  PROVE  LldpInv'
<1> USE DEF LldpInv
<1> DEFINE c == Head(children)
<1>1. /\ pc = "children" /\ children # <<>> /\ children' = Tail(children)
      /\ heap' = Plus(heap, Allocated(c)) /\ lldp' = After(lldp, c)
      /\ untidy' = (untidy \/ (c.tag = "chassis" /\ c.parts > 0)
                           \/ (c.tag # "pi" /\ lldp[c.tag] # NULL))
      /\ UNCHANGED <<alive, requests, clock, ticks, since, element, pc, asked, doc,
                     node, first, reply, printed>>
  BY DEF ReadChild, After, lldpd
<1>2. c \in Child /\ children \in Seq(Child) /\ children' \in Seq(Child)
  BY <1>1 DEF TypeOK
<1> HIDE DEF c
<1>3. lldp \in Lldps /\ lldp' \in Lldps
  BY <1>1, <1>2, AfterType DEF Placed
<1>4. /\ lldp'.pi \in Seq(Child)
      /\ \A tag \in Tags \ {"pi"} : lldp'[tag] \in Child \cup {NULL}
  BY <1>3 DEF Lldps, Tags
<1>5. \A k \in Kinds : /\ heap'[k] = heap[k] + Allocated(c)[k]
                       /\ heap[k] \in Nat /\ Allocated(c)[k] \in Nat /\ Freed(c)[k] \in Nat
                       /\ Freed(c)[k] <= Allocated(c)[k]
  BY <1>1, <1>2, ChildMemory DEF Plus, TypeOK
<1>6. heap' \in [Kinds -> Nat]
  <2>1. heap' = [k \in Kinds |-> heap'[k]]
    BY <1>1 DEF Plus
  <2>2. \A k \in Kinds : heap'[k] \in Nat
    BY <1>5
  <2> QED
    BY <2>1, <2>2
<1>7. untidy' \in BOOLEAN
  BY <1>1
<1>8. TypeOK'
  BY <1>1, <1>2, <1>4, <1>6, <1>7 DEF TypeOK
<1>9. Clocked' /\ Placed' /\ Crashed' /\ MarkDrift'
  BY <1>1, <1>3 DEF Clocked, Placed, Crashed, MarkDrift
<1>10. Memory'
  <2> SUFFICES ASSUME NEW k \in Kinds
               PROVE  /\ Destroyed(lldp')[k] <= heap'[k]
                      /\ ~untidy' => Destroyed(lldp')[k] = heap'[k]
    BY <1>1 DEF Memory
  <2>1. /\ Destroyed(lldp)[k] \in Nat /\ Destroyed(lldp')[k] \in Nat
        /\ Destroyed(lldp)[k] <= heap[k]
        /\ ~untidy => Destroyed(lldp)[k] = heap[k]
    BY <1>1, <1>3, DestroyedIs DEF Memory
  <2>2. /\ Destroyed(lldp')[k] <= Destroyed(lldp)[k] + Freed(c)[k]
        /\ c.tag = "pi" \/ lldp[c.tag] = NULL =>
              Destroyed(lldp')[k] = Destroyed(lldp)[k] + Freed(c)[k]
    BY <1>1, <1>2, <1>3, ReadMemory
  <2>3. Destroyed(lldp')[k] <= heap'[k]
    BY <1>5, <2>1, <2>2
  <2>4. ASSUME ~untidy' PROVE Destroyed(lldp')[k] = heap'[k]
    <3>1. /\ ~untidy /\ ~(c.tag = "chassis" /\ c.parts > 0)
          /\ c.tag = "pi" \/ lldp[c.tag] = NULL
      BY <1>1, <2>4
    <3>2. Freed(c) = Allocated(c)
      BY <1>2, <3>1, ChildMemory
    <3> QED
      BY <1>5, <2>1, <2>2, <3>1, <3>2
  <2> QED
    BY <2>3, <2>4
<1>11. Reading'
  <2>1. /\ Siblings' = Siblings /\ Siblings \in Seq(Child)
        /\ Len(children) <= Len(Siblings)
        /\ \A i \in 1..Len(children) : children[i] = Siblings[Read + i]
    BY <1>1, SiblingsType DEF Siblings, Placed, Reading
  <2>2. /\ Len(children) \in Nat /\ Len(children) > 0 /\ Len(children') = Len(children) - 1
        /\ \A i \in 1..Len(children') : children'[i] = children[i + 1]
    BY <1>1, <1>2
  <2>3. Read \in Nat /\ Read' = Read + 1 /\ Len(children') <= Len(Siblings')
    BY <2>1, <2>2 DEF Read
  <2>4. ASSUME NEW i \in 1..Len(children') PROVE children'[i] = Siblings'[Read' + i]
    <3>1. i + 1 \in 1..Len(children) /\ Read' + i = Read + (i + 1)
      BY <2>2, <2>3
    <3> QED
      BY <2>1, <2>2, <3>1
  <2> QED
    BY <2>3, <2>4, ReadChildReading DEF Reading
<1>12. Answering'
  BY <1>1, AnsweringSame
<1> QED
  BY <1>8, <1>9, <1>10, <1>11, <1>12

\* Of each kind but <pi> the lldp_t points to the last child, once all are read.
LEMMA LastIs ==
  ASSUME LldpInv, pc = "children", children = <<>>, NEW tag \in {"chassis", "port"}
  PROVE  lldp[tag] = LastChild(node.port, tag)
<1> DEFINE at == {i \in DOMAIN Siblings : Siblings[i].tag = tag}
<1>1. /\ Siblings \in Seq(Child) /\ Read = Len(Siblings) /\ Len(Siblings) \in Nat
      /\ DOMAIN Siblings = 1..Len(Siblings)
  BY SiblingsType DEF LldpInv, Placed, Siblings, Read
<1>2. LastRead(tag)
  BY DEF LldpInv, Reading
<1>3. LastChild(node.port, tag) =
        IF at = {} THEN NULL ELSE Siblings[CHOOSE i \in at : \A j \in at : j <= i]
  BY DEF LastChild, Siblings
<1>4. CASE lldp[tag] = NULL
  <2>1. at = {}
    BY <1>1, <1>2, <1>4 DEF LastRead
  <2> QED
    BY <1>3, <1>4, <2>1
<1>5. CASE lldp[tag] # NULL
  <2>1. PICK i \in 1..Len(Siblings) :
           /\ Siblings[i].tag = tag /\ Siblings[i] = lldp[tag]
           /\ \A j \in i + 1..Len(Siblings) : Siblings[j].tag # tag
    BY <1>1, <1>2, <1>5 DEF LastRead
  <2>2. i \in at /\ \A j \in at : j <= i
    BY <1>1, <2>1
  <2>3. \A m \in at : (\A j \in at : j <= m) => m = i
    BY <1>1, <2>1, <2>2
  <2> HIDE DEF at
  <2>4. (CHOOSE m \in at : \A j \in at : j <= m) = i
    BY <2>2, <2>3
  <2> QED
    BY <1>3, <2>1, <2>2, <2>4
<1> QED
  BY <1>4, <1>5

\* The entry, if its keys are taken and there is a tree, and else none.
LEMMA ReportAnswering ==
  ASSUME LldpInv, Report
  PROVE  Answering'
<1>1. /\ pc = "children" /\ pc' = "next" /\ children = <<>> /\ node # NULL
      /\ first' = (IF first = NULL THEN node.port ELSE first)
      /\ reply' = (IF Accepted THEN reply \cup {Entry} ELSE reply)
      /\ Followed /\ UNCHANGED <<element, doc, printed>>
  BY LldpAssumption DEF Report, Destroy, LldpInv, Placed, lldpd
<1>2. /\ \A n \in doc : n.port \in printed /\ n.port # node.port
      /\ \A n, m \in doc : n.port = m.port => n = m
      /\ node.port \in printed /\ node.port # NULL
      /\ IF first = NULL THEN Done = {} ELSE first \in Done
      /\ {r.port : r \in reply} =
            IF first = NULL \/ ~Mac(first) THEN {} ELSE {p \in Done : Mac(p)}
  BY <1>1, LldpAssumption DEF LldpInv, Answering, TypeOK
<1>3. Done' = Done \cup {node.port}
  BY <1>1, <1>2 DEF Done
<1>4. \A p : Mac(p)' <=> Mac(p)
  BY <1>1 DEF Mac, LastChild
<1>5. Mac(node.port) <=> lldp.port.id = "mac"
  <2>1. lldp.port = LastChild(node.port, "port")
    BY <1>1, LastIs
  <2> QED
    BY <1>1, <2>1 DEF Mac, Followed
<1>6. Entry.port = node.port
  BY DEF Entry
<1>7. {r.port : r \in reply'} =
        IF Accepted THEN {r.port : r \in reply} \cup {node.port} ELSE {r.port : r \in reply}
  BY <1>1, <1>6
<1>8. CASE first = NULL
  <2>1. reply = {} /\ Done' = {node.port} /\ first' = node.port
    BY <1>1, <1>2, <1>3, <1>8
  <2>2. Accepted <=> Mac(node.port)
    BY <1>5, <1>8 DEF Accepted
  <2> QED
    BY <1>1, <1>2, <1>4, <1>7, <2>1, <2>2 DEF Answering
<1>9. CASE first # NULL /\ ~Mac(first)
  <2>1. reply = {} /\ first' = first
    BY <1>1, <1>2, <1>9
  <2>2. ~Accepted
    BY <1>9, <2>1 DEF Accepted
  <2> QED
    BY <1>1, <1>2, <1>3, <1>4, <1>7, <1>9, <2>1, <2>2 DEF Answering
<1>10. CASE first # NULL /\ Mac(first)
  <2>1. reply # {} /\ first' = first
    BY <1>1, <1>2, <1>10
  <2>2. Accepted <=> Mac(node.port)
    BY <1>5, <2>1 DEF Accepted
  <2> QED
    BY <1>1, <1>2, <1>3, <1>4, <1>7, <1>10, <2>1, <2>2 DEF Answering
<1> QED
  BY <1>8, <1>9, <1>10

\* The answer for a neighbour: its entry, and what it held is free again.
LEMMA ReportInv ==
  ASSUME LldpInv, alive, Report
  PROVE  LldpInv'
<1> USE DEF LldpInv
<1>1. /\ pc = "children" /\ children = <<>> /\ Followed
      /\ reply' = IF Accepted THEN reply \cup {Entry} ELSE reply
      /\ first' = IF first = NULL THEN node.port ELSE first
      /\ heap' = Minus(heap, Destroyed(lldp)) /\ lldp' = lldp_init
      /\ node' = NULL /\ pc' = "next"
      /\ UNCHANGED <<alive, requests, clock, ticks, since, element, asked, doc,
                     children, untidy, printed>>
  BY DEF Report, Destroy, lldpd
<1>2. lldp_init \in Lldps
  BY DEF lldp_init, Lldps
<1>3. /\ lldp' \in Lldps /\ lldp'.pi \in Seq(Child)
      /\ \A tag \in Tags \ {"pi"} : lldp'[tag] \in Child \cup {NULL}
  BY <1>1, <1>2 DEF Lldps, Tags
<1>4. \A k \in Kinds : /\ heap'[k] = heap[k] - Destroyed(lldp)[k]
                       /\ heap[k] \in Nat /\ Destroyed(lldp)[k] \in Nat
                       /\ Destroyed(lldp)[k] <= heap[k]
                       /\ ~untidy => Destroyed(lldp)[k] = heap[k]
  BY <1>1, DestroyedIs DEF Minus, Memory, Placed, TypeOK
<1>5. heap' = [k \in Kinds |-> heap'[k]] /\ \A k \in Kinds : heap'[k] \in Nat
  BY <1>1, <1>4 DEF Minus
<1>6. TypeOK'
  <2>1. first' \in Ports \cup {NULL}
    BY <1>1 DEF TypeOK, Placed, Printed
  <2> QED
    BY <1>1, <1>3, <1>5, <2>1 DEF TypeOK
<1>7. Clocked' /\ Placed' /\ Crashed' /\ Reading'
  BY <1>1, <1>3 DEF Clocked, Placed, Crashed, Reading
<1>8. Memory'
  <2>1. ~untidy => \A k \in Kinds : heap'[k] = 0
    BY <1>4
  <2>2. ~untidy => heap' = Zero
    BY <1>5, <2>1 DEF Zero
  <2> QED
    BY <1>1, <2>2 DEF Memory
<1>9. MarkDrift'
  <2> DEFINE age == asked - node.born
             extra == 60 * ((age \div 3600) % 24) + 2904 * (age \div 86400)
  <2>1. /\ node \in Printed /\ node # NULL
        /\ element[node.port].colons = 2 => node.age = Age(age, 2)
    <3>1. node \in Printed /\ node # NULL
      BY <1>1, LldpAssumption DEF Placed
    <3> QED
      BY <3>1, LldpAssumption DEF TypeOK
  <2>2. node.born \in Nat /\ asked \in Nat /\ clock \in Nat
    BY <2>1 DEF Printed, TypeOK
  <2>3. age \in Int /\ extra \in Int /\ (age \div 3600) % 24 \in Int /\ age \div 86400 \in Int
    BY <2>2
  <2>4. /\ Entry.mark = clock - age_str2num(node.age) /\ Entry.born = node.born
        /\ Entry.delay = clock - asked /\ Entry.port = node.port
    BY DEF Entry
  <2>5. ASSUME element[node.port].colons = 2
        PROVE  age_str2num(node.age) = IF age >= 172800 THEN 0 ELSE age + extra
    <3>1. node.age = Age(age, 2)
      BY <2>1, <2>5
    <3>2. age \in Int
      BY <2>3
    <3> HIDE DEF age
    <3>3. age_str2num(Age(age, 2)) =
            IF age >= 172800 THEN 0
            ELSE age + 60 * ((age \div 3600) % 24) + 2904 * (age \div 86400)
      BY <3>2, AgeDrift
    <3> QED
      BY <2>3, <3>1, <3>2, <3>3
  <2>6. element[node.port].colons = 2 =>
           Entry.mark - Entry.born =
              Entry.delay + (IF age >= 172800 THEN age ELSE -extra)
    <3> HIDE DEF extra
    <3> QED
      BY <2>2, <2>3, <2>4, <2>5
  <2>7. \A r \in reply' : r \in reply \/ r = Entry
    BY <1>1
  <2> QED
    BY <1>1, <2>4, <2>6, <2>7 DEF MarkDrift
<1>10. Answering'
  BY ReportAnswering
<1> QED
  BY <1>6, <1>7, <1>8, <1>9, <1>10

\* The crash, at a pointer that is NULL or at a port id that is too short.
LEMMA ReportCrashInv ==
  ASSUME LldpInv, ReportCrash
  PROVE  LldpInv'
<1> USE DEF LldpInv
<1>1. /\ pc = "children" /\ children = <<>> /\ alive' = FALSE
      /\ Followed => lldp.port.id = "short"
      /\ UNCHANGED <<requests, clock, ticks, since, element, pc, asked, doc, node,
                     children, lldp, first, reply, heap, untidy, printed>>
  BY DEF ReportCrash, lldpd, work
<1>2. TypeOK' /\ Clocked' /\ Placed'
  BY <1>1 DEF TypeOK, Clocked, Placed
<1>3. Memory' /\ MarkDrift'
  BY <1>1 DEF Memory, MarkDrift
<1>4. Reading'
  BY <1>1 DEF Reading, LastRead, Read, Siblings
<1>5. Crashed'
  BY <1>1 DEF Crashed, Followed
<1>6. Answering'
  BY <1>1, AnsweringSame
<1> QED
  BY <1>2, <1>3, <1>4, <1>5, <1>6

\* The return to sysrepo.
LEMMA FinishInv ==
  ASSUME LldpInv, alive, Finish
  PROVE  LldpInv'
<1> USE DEF LldpInv
<1>1. /\ pc = "next" /\ doc = {} /\ pc' = "idle"
      /\ UNCHANGED <<alive, requests, clock, ticks, since, element, asked, doc, node,
                     children, lldp, first, reply, heap, untidy, printed>>
  BY DEF Finish, lldpd, work
<1>2. TypeOK' /\ Clocked' /\ Placed'
  BY <1>1 DEF TypeOK, Clocked, Placed
<1>3. Memory' /\ MarkDrift' /\ Reading' /\ Crashed' /\ Answering'
  BY <1>1 DEF Memory, MarkDrift, Reading, Crashed, Answering
<1> QED
  BY <1>2, <1>3

\* The clock and lldpd, beside the handler.
LEMMA EnvironmentInv ==
  ASSUME LldpInv, alive,
         \/ \E d \in Durations : Tick(d)
         \/ \E p \in Ports : NeighbourAppears(p) \/ NeighbourVanishes(p)
         \/ UNCHANGED vars
  PROVE  LldpInv'
<1> USE DEF LldpInv
<1>1. UNCHANGED <<alive, requests, element, pc, asked, doc, node, children, lldp,
                  first, reply, heap, untidy, printed>>
  BY DEF Tick, NeighbourAppears, NeighbourVanishes, vars, work, lldpd
<1>2. ticks' \in 0..MaxTicks /\ clock' \in Nat /\ clock <= clock'
  <2>1. clock \in Nat /\ ticks \in Nat /\ ticks <= MaxTicks
    BY LldpAssumption DEF TypeOK
  <2>2. CASE \E d \in Durations : Tick(d)
    <3>1. PICK d \in Nat : /\ ticks < MaxTicks /\ ticks' = ticks + 1
                           /\ clock' = clock + d
      BY <2>2, LldpAssumption DEF Tick
    <3> QED
      BY <2>1, <3>1, LldpAssumption
  <2>3. CASE clock' = clock /\ ticks' = ticks
    BY <2>1, <2>3, LldpAssumption
  <2> QED
    BY <2>2, <2>3 DEF NeighbourAppears, NeighbourVanishes, vars, lldpd
<1>3. /\ since' \in [Ports -> Nat \cup {NULL}]
      /\ \A p \in Ports : since'[p] # NULL => since'[p] <= clock'
  <2>1. CASE UNCHANGED since
    <3>1. \A p \in Ports : since[p] # NULL => since[p] \in Nat /\ since[p] <= clock
      BY DEF TypeOK, Clocked
    <3>2. clock \in Nat
      BY DEF TypeOK
    <3> QED
      BY <1>2, <2>1, <3>1, <3>2 DEF TypeOK
  <2>2. CASE \E p \in Ports : NeighbourAppears(p) \/ NeighbourVanishes(p)
    <3>1. PICK p \in Ports : NeighbourAppears(p) \/ NeighbourVanishes(p)
      BY <2>2
    <3>2. /\ clock' = clock /\ clock \in Nat
          /\ since' \in {[since EXCEPT ![p] = clock], [since EXCEPT ![p] = NULL]}
      BY <3>1 DEF NeighbourAppears, NeighbourVanishes, TypeOK
    <3>3. since' \in [Ports -> Nat \cup {NULL}]
      BY <3>2 DEF TypeOK
    <3>4. ASSUME NEW q \in Ports, since'[q] # NULL PROVE since'[q] <= clock'
      <4>1. CASE q = p
        BY <3>2, <3>4, <4>1 DEF TypeOK
      <4>2. CASE q # p
        BY <3>2, <3>4, <4>2 DEF TypeOK, Clocked
      <4> QED
        BY <4>1, <4>2
    <3> QED
      BY <3>3, <3>4
  <2> QED
    BY <2>1, <2>2 DEF Tick, vars, lldpd
<1>4. TypeOK'
  BY <1>1, <1>2, <1>3 DEF TypeOK
<1>5. Clocked'
  BY <1>1, <1>2, <1>3 DEF TypeOK, Clocked
<1>6. Placed' /\ Memory' /\ MarkDrift'
  BY <1>1 DEF Placed, Memory, MarkDrift
<1>7. Reading'
  BY <1>1 DEF Reading, LastRead, Read, Siblings
<1>8. Crashed'
  BY <1>1 DEF Crashed, Followed
<1>9. Answering'
  BY <1>1, AnsweringSame
<1> QED
  BY <1>4, <1>5, <1>6, <1>7, <1>8, <1>9

\* Every step preserves the invariant.
LEMMA NextInv ==
  ASSUME LldpInv, [Next]_vars
  PROVE  LldpInv'
<1>1. CASE alive /\ Handler
  <2>1. CASE Popen
    BY <2>1, PopenInv
  <2>2. CASE NoDocument
    BY <2>2, NoDocumentInv
  <2>3. CASE \E n \in doc : Interface(n)
    BY <1>1, <2>3, InterfaceInv
  <2>4. CASE ReadChild
    BY <1>1, <2>4, ReadChildInv
  <2>5. CASE Report
    BY <1>1, <2>5, ReportInv
  <2>6. CASE ReportCrash
    BY <2>6, ReportCrashInv
  <2>7. CASE Finish
    BY <1>1, <2>7, FinishInv
  <2> QED
    BY <1>1, <2>1, <2>2, <2>3, <2>4, <2>5, <2>6, <2>7 DEF Handler
<1>2. ASSUME alive, NEW d \in Durations, Tick(d) PROVE LldpInv'
  BY <1>2, EnvironmentInv
<1>3. ASSUME alive, NEW p \in Ports, NeighbourAppears(p) \/ NeighbourVanishes(p)
      PROVE  LldpInv'
  BY <1>3, EnvironmentInv
<1>4. CASE UNCHANGED vars
  <2>1. UNCHANGED <<alive, requests, clock, ticks, since, element, pc, asked, doc,
                    node, children, lldp, first, reply, heap, untidy, printed>>
    BY <1>4 DEF vars, lldpd, work
  <2>2. TypeOK' /\ Clocked' /\ Placed' /\ Memory'
    BY <2>1 DEF LldpInv, TypeOK, Clocked, Placed, Memory
  <2>3. Reading' /\ Crashed'
    BY <2>1 DEF LldpInv, Reading, LastRead, Read, Siblings, Crashed, Followed
  <2>4. Answering' /\ MarkDrift'
    BY <2>1, AnsweringSame DEF LldpInv, MarkDrift
  <2> QED
    BY <2>2, <2>3, <2>4 DEF LldpInv
<1> QED
  BY <1>1, <1>2, <1>3, <1>4 DEF Next

-----------------------------------------------------------------------------
(* The theorems *)

\* The invariant holds in every state of every behaviour.
THEOREM LldpInvariance == Spec => []LldpInv
<1>1. Init => LldpInv
  BY InitInv
<1>2. LldpInv /\ [Next]_vars => LldpInv'
  BY NextInv
<1> QED
  BY <1>1, <1>2, PTL DEF Spec

\* Types; in particular no count of structs is negative: lldp_destroy() frees nothing
\* twice, whatever children a neighbour has and however often each comes.
THEOREM LldpTypeCorrect == Spec => []TypeOK
<1>1. LldpInv => TypeOK
  BY DEF LldpInv
<1> QED
  BY <1>1, LldpInvariance, PTL

\* A request leaves nothing allocated unless a neighbour had capabilities or a child
\* twice, for any neighbours.
THEOREM NoLeakHolds == Spec => []NoLeak
<1>1. LldpInv => NoLeak
  BY DEF LldpInv, Memory, NoLeak
<1> QED
  BY <1>1, LldpInvariance, PTL

\* For a neighbour of any age that is printed as lldpcli prints it, time-mark is off by
\* a minute for each hour of the day and by 2904 seconds for the first day, and from two
\* days on by the whole age, beside the time the handler took.
THEOREM MarkDriftHolds == Spec => []MarkDrift
<1>1. LldpInv => MarkDrift
  BY DEF LldpInv
<1> QED
  BY <1>1, LldpInvariance, PTL

\* Only a neighbour without a <port>, a <chassis>, a rid or an age, or with a missing or
\* short port id, crashes the handler, however many other children its element has.
THEOREM LldpCrashNeedsCause == Spec => []CrashNeedsCause
<1>1. LldpInv => CrashNeedsCause
  <2> SUFFICES ASSUME LldpInv, ~alive PROVE CrashNeedsCause
    BY DEF CrashNeedsCause
  <2>1. /\ pc = "children" /\ children = <<>>
        /\ Followed => lldp.port.id = "short"
    BY DEF LldpInv, Crashed
  <2>2. /\ lldp.chassis = LastChild(node.port, "chassis")
        /\ lldp.port = LastChild(node.port, "port")
    BY <2>1, LastIs
  <2>3. node.age = NULL => element[node.port].colons = NULL
    <3>1. node \in Printed /\ node # NULL
      BY <2>1, LldpAssumption DEF LldpInv, Placed
    <3>2. element[node.port].colons \in {NULL} \cup 0..2
      BY <3>1, LldpAssumption DEF LldpInv, TypeOK, Element, Printed
    <3>3. /\ asked - node.born \in Nat
          /\ element[node.port].colons # NULL =>
                node.age = Age(asked - node.born, element[node.port].colons)
      BY <3>1 DEF LldpInv, TypeOK, Clocked
    <3>4. element[node.port].colons # NULL => node.age \in AgeText
      BY <3>2, <3>3, AgeType
    <3> QED
      BY <3>4, LldpAssumption
  <2> QED
    BY <2>1, <2>2, <2>3 DEF Followed, CrashNeedsCause
<1> QED
  BY <1>1, LldpInvariance, PTL

\* An answer has one entry for each neighbour of the document whose port id is a MAC, and
\* none at all if the first neighbour's is not, though lldpd goes on changing.
THEOREM NeighboursAnsweredHolds == Spec => []NeighboursAnswered
<1>1. LldpInv => NeighboursAnswered
  <2> SUFFICES ASSUME LldpInv, pc = "next", doc = {} PROVE NeighboursAnswered
    BY DEF NeighboursAnswered
  <2>1. Done = printed
    BY DEF Done
  <2> QED
    BY <2>1 DEF LldpInv, Answering, NeighboursAnswered
<1> QED
  BY <1>1, LldpInvariance, PTL

=============================================================================
