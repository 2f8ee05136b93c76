-------------------------------- MODULE Lldp --------------------------------
(***************************************************************************)
(* lldp_port_provider() (src/src/lldp.c) and the age it computes           *)
(* (src/src/utils.c): lldpcli is run once, its XML is read element by      *)
(* element into one lldp_t per neighbour, each is answered and destroyed.  *)
(*                                                                         *)
(* Time goes on while the handler runs, so the clock that get_age() reads  *)
(* is later than the one lldpcli computed the ages with.  An XML document  *)
(* is abstracted to the children of each <interface> element; of the       *)
(* memory, the structs are counted by kind.  The libyang context, which    *)
(* the handler also acquires, is in Providers.                             *)
(***************************************************************************)
EXTENDS Integers, Sequences

CONSTANTS
    Ports,         \* local ports that can have a neighbour
    Elements,      \* what the <interface> element of a neighbour can hold
    Epoch,         \* time(NULL) when the model starts
    Durations,     \* by how much the clock may advance at once
    MaxTicks,      \* bound: advances of the clock
    MaxRequests,   \* bound: requests
    NULL

Tags == {"chassis", "port", "vlan", "ppvid", "pi"}

\* Of the id of a port: it has none, one of less than nine characters, a longer one
\* that is no MAC (a name, say), or a MAC.
Ids == {"none", "short", "name", "mac"}

\* parts: <capability> elements of a chassis, <advertised> ones of a port that has
\* an <auto-negotiation>.
Child == [tag : Tags, parts : Nat, auto : BOOLEAN, id : Ids]

\* colons: those of the age attribute, two as lldpcli prints it; NULL if it is missing.
Element == [rid : BOOLEAN, colons : {NULL} \cup 0..2, children : Seq(Child)]

AgeText == [day : Nat, unit : {"day", "days"}, hour : Nat, minute : Nat, second : Nat,
            colons : 0..2]

\* An <interface> of the document; born, which it does not hold, is for the properties.
Printed == [port : Ports, born : Nat, age : AgeText \cup {NULL}]

ASSUME LldpAssumption ==
    /\ Elements \subseteq Element
    /\ Epoch \in Nat
    /\ Durations \subseteq Nat
    /\ MaxTicks \in Nat
    /\ MaxRequests \in Nat
    /\ NULL \notin Nat \cup Ports \cup Child \cup AgeText \cup Printed

VARIABLES
    alive,         \* the process has not crashed
    clock,         \* time(NULL)
    ticks, requests,
    since,         \* lldpd: for each port NULL or when its neighbour was heard of
    element,       \* lldpd: how it prints that neighbour
    pc,
    asked,         \* the clock as lldpcli ran
    doc,           \* <interface> elements the loop has still to visit
    node,          \* the element it is at
    children,      \* children of it still to be read
    lldp,          \* the lldp_t being filled
    first,         \* NULL while "start" is set, then the port that cleared it
    reply,         \* what the answer holds so far; *parent is NULL while it is empty
    heap,          \* structs allocated and not freed, by kind
    untidy,        \* history: a neighbour had capabilities or a child twice
    printed        \* history: the ports in the document

lldpd == <<clock, ticks, since, element>>
work == <<asked, doc, node, children, lldp, first, reply, heap, untidy, printed>>
vars == <<alive, requests, lldpd, pc, work>>

-----------------------------------------------------------------------------
(* utils.c *)

\* "1 day, HH:MM:SS", "2 days, HH:MM:SS" as lldpcli prints a number of seconds.
Age(seconds, colons) ==
    [day |-> seconds \div 86400,
     unit |-> IF seconds \div 86400 > 1 THEN "days" ELSE "day",
     hour |-> (seconds \div 3600) % 24, minute |-> (seconds \div 60) % 60,
     second |-> seconds % 60, colons |-> colons]

\* Variant: each round of the loop assigns the sum instead of adding it.
age_str2numAssigned(a) ==
    IF a.unit # "day" THEN 0
    ELSE 3600 * (24 * a.day + a.hour) + 60 * a.minute + a.second

\* Without "day," nothing is read of it; a missing ":" ends the sum where it is.
age_str2num(a) ==
    LET days    == 24 * a.day
        hours   == days + (days + a.hour) * 60
        minutes == hours + (hours + a.minute) * 60
    IN IF a.unit # "day" THEN 0
       ELSE IF a.colons = 0 THEN days
       ELSE IF a.colons = 1 THEN hours
       ELSE minutes + a.second

-----------------------------------------------------------------------------
(* Structs *)

Kinds == {"lldp", "chassis", "capability", "type", "port", "negotiation",
          "advertised", "vlan", "ppvid", "pi"}

Zero == [k \in Kinds |-> 0]
Plus(h, g) == [k \in Kinds |-> h[k] + g[k]]
Minus(h, g) == [k \in Kinds |-> h[k] - g[k]]

\* get_chassis_from_node() and so on: what reading a child allocates.
Allocated(c) ==
    CASE c.tag = "chassis" ->
            [Zero EXCEPT !.chassis = 1, !.capability = c.parts, !.type = c.parts]
      [] c.tag = "port" ->
            [Zero EXCEPT !.port = 1, !.negotiation = IF c.auto THEN 1 ELSE 0,
                         !.advertised = IF c.auto THEN c.parts ELSE 0]
      [] OTHER -> [Zero EXCEPT ![c.tag] = 1]

\* Variant: port_destroy() forgets port->negotiation.
FreedButNegotiation(c) ==
    [Allocated(c) EXCEPT !.type = 0, !.negotiation = 0, !.advertised = 0]

\* chassis_destroy() and so on; capability_destroy() leaves the type.
Freed(c) == [Allocated(c) EXCEPT !.type = 0]

lldp_init == [chassis |-> NULL, port |-> NULL, vlan |-> NULL, ppvid |-> NULL,
              pi |-> <<>>]

Held(c) == IF c = NULL THEN Zero ELSE Freed(c)

\* Variant: the handler frees the port it has answered before lldp_destroy() does.
DestroyedPortTwice(l) ==
    Plus(Plus(Plus(Plus(Held(l.chassis), Held(l.port)), Plus(Held(l.vlan), Held(l.ppvid))),
              [Zero EXCEPT !.lldp = 1, !.pi = Len(l.pi)]),
         Held(l.port))

\* What lldp_destroy() frees: what the lldp_t still points to.
Destroyed(l) ==
    Plus(Plus(Plus(Held(l.chassis), Held(l.port)), Plus(Held(l.vlan), Held(l.ppvid))),
         [Zero EXCEPT !.lldp = 1, !.pi = Len(l.pi)])

-----------------------------------------------------------------------------
Init ==
    /\ alive = TRUE
    /\ clock = Epoch
    /\ ticks = 0
    /\ requests = 0
    /\ since = [p \in Ports |-> NULL]
    /\ element \in [Ports -> Elements]
    /\ pc = "idle"
    /\ asked = Epoch
    /\ doc = {}
    /\ node = NULL
    /\ children = <<>>
    /\ lldp = lldp_init
    /\ first = NULL
    /\ reply = {}
    /\ heap = Zero
    /\ untidy = FALSE
    /\ printed = {}

Neighbours == {p \in Ports : since[p] # NULL}

\* The age attribute that lldpcli prints of p.
Shown(p) ==
    IF element[p].colons = NULL THEN NULL ELSE Age(clock - since[p], element[p].colons)

\* popen(), fgets() and pclose(): the whole answer of lldpcli.
Popen ==
    /\ pc = "idle"
    /\ requests < MaxRequests
    /\ requests' = requests + 1
    /\ asked' = clock
    /\ doc' = {[port |-> p, age |-> Shown(p), born |-> since[p]] : p \in Neighbours}
    /\ printed' = Neighbours
    /\ first' = NULL
    /\ reply' = {}
    /\ pc' = "next"
    /\ UNCHANGED <<alive, lldpd, node, children, lldp, heap, untidy>>

\* lldpd does not answer or what comes back is not the XML of lldpcli: the answer
\* stays empty.
NoDocument ==
    /\ pc = "idle"
    /\ requests < MaxRequests
    /\ requests' = requests + 1
    /\ reply' = {}
    /\ UNCHANGED <<alive, lldpd, pc, asked, doc, node, children, lldp, first, heap, untidy,
                   printed>>

\* lldp_init() for the next <interface>.
Interface(n) ==
    /\ pc = "next"
    /\ n \in doc
    /\ doc' = doc \ {n}
    /\ node' = n
    /\ children' = element[n.port].children
    /\ lldp' = lldp_init
    /\ heap' = Plus(heap, [Zero EXCEPT !.lldp = 1])
    /\ pc' = "children"
    /\ UNCHANGED <<alive, requests, lldpd, asked, first, reply, untidy, printed>>

\* Variant: nothing after a <pi> is read.
ReadChildStops ==
    /\ pc = "children"
    /\ children # <<>>
    /\ LET c == Head(children) IN
       /\ heap' = Plus(heap, Allocated(c))
       /\ lldp' = IF c.tag = "pi" THEN [lldp EXCEPT !.pi = Append(@, c)]
                  ELSE [lldp EXCEPT ![c.tag] = c]
       /\ untidy' = (untidy \/ (c.tag = "chassis" /\ c.parts > 0)
                            \/ (c.tag # "pi" /\ lldp[c.tag] # NULL))
       /\ children' = IF c.tag = "pi" THEN <<>> ELSE Tail(children)
    /\ UNCHANGED <<alive, requests, lldpd, pc, asked, doc, node, first, reply, printed>>

\* get_lldp_from_node(): a child that comes twice replaces the first one.
ReadChild ==
    /\ pc = "children"
    /\ children # <<>>
    /\ LET c == Head(children) IN
       /\ heap' = Plus(heap, Allocated(c))
       /\ lldp' = IF c.tag = "pi" THEN [lldp EXCEPT !.pi = Append(@, c)]
                  ELSE [lldp EXCEPT ![c.tag] = c]
       /\ untidy' = (untidy \/ (c.tag = "chassis" /\ c.parts > 0)
                            \/ (c.tag # "pi" /\ lldp[c.tag] # NULL))
    /\ children' = Tail(children)
    /\ UNCHANGED <<alive, requests, lldpd, pc, asked, doc, node, first, reply, printed>>

\* The pointers that the code follows without a test are there, among them the age
\* that strstr() searches and the id in which to_ieee_mac_addr() replaces the colons.
Followed ==
    /\ element[node.port].rid /\ node.age # NULL
    /\ lldp.chassis # NULL
    /\ lldp.port # NULL /\ lldp.port.id # "none"

\* The entry of remote-systems-data; time-mark is get_age().
Entry == [port  |-> node.port,
          mark  |-> clock - age_str2num(node.age),
          born  |-> node.born,
          delay |-> clock - asked]

\* lyd_new_path() takes the keys of the neighbour, and there is a tree to add it to or
\* this is the first one, which makes the tree.
Accepted == lldp.port.id = "mac" /\ (first = NULL \/ reply # {})

\* lldp_destroy(), and on to the next element.
Destroy ==
    /\ heap' = Minus(heap, Destroyed(lldp))
    /\ lldp' = lldp_init
    /\ node' = NULL
    /\ pc' = "next"

\* Variant: "start" stays true and each neighbour makes a tree of its own.
ReportAfresh ==
    /\ pc = "children"
    /\ children = <<>>
    /\ Followed
    /\ first' = IF first = NULL THEN node.port ELSE first
    /\ reply' = IF lldp.port.id = "mac" THEN {Entry} ELSE reply
    /\ Destroy
    /\ UNCHANGED <<alive, requests, lldpd, asked, doc, children, untidy, printed>>

\* The paths of one neighbour.  "start" is cleared whatever lyd_new_path() returns, so
\* if it refuses the first neighbour *parent stays NULL and it refuses all the others.
Report ==
    /\ pc = "children"
    /\ children = <<>>
    /\ Followed
    /\ first' = IF first = NULL THEN node.port ELSE first
    /\ reply' = IF Accepted THEN reply \cup {Entry} ELSE reply
    /\ Destroy
    /\ UNCHANGED <<alive, requests, lldpd, asked, doc, children, untidy, printed>>

\* A NULL pointer is followed, or port->id + 9 lies beyond the end of a short id.
ReportCrash ==
    /\ pc = "children"
    /\ children = <<>>
    /\ Followed => lldp.port.id = "short"
    /\ alive' = FALSE
    /\ UNCHANGED <<requests, lldpd, pc, work>>

Finish ==
    /\ pc = "next"
    /\ doc = {}
    /\ pc' = "idle"
    /\ UNCHANGED <<alive, requests, lldpd, work>>

-----------------------------------------------------------------------------
(* The clock and lldpd *)

Tick(d) ==
    /\ ticks < MaxTicks
    /\ ticks' = ticks + 1
    /\ clock' = clock + d
    /\ UNCHANGED <<alive, requests, since, element, pc, work>>

NeighbourAppears(p) ==
    /\ since[p] = NULL
    /\ since' = [since EXCEPT ![p] = clock]
    /\ UNCHANGED <<alive, requests, clock, ticks, element, pc, work>>

NeighbourVanishes(p) ==
    /\ since[p] # NULL
    /\ since' = [since EXCEPT ![p] = NULL]
    /\ UNCHANGED <<alive, requests, clock, ticks, element, pc, work>>

Handler ==
    \/ Popen
    \/ NoDocument
    \/ \E n \in doc : Interface(n)
    \/ ReadChild
    \/ Report
    \/ ReportCrash
    \/ Finish

Next ==
    /\ alive
    /\ \/ Handler
       \/ \E d \in Durations : Tick(d)
       \/ \E p \in Ports : NeighbourAppears(p) \/ NeighbourVanishes(p)

Spec == Init /\ [][Next]_vars

-----------------------------------------------------------------------------
(* Properties *)

\* Types; that no count of heap is negative says that nothing is freed twice.
TypeOK ==
    /\ alive \in BOOLEAN
    /\ clock \in Nat /\ asked \in Nat
    /\ ticks \in 0..MaxTicks
    /\ requests \in 0..MaxRequests
    /\ since \in [Ports -> Nat \cup {NULL}]
    /\ element \in [Ports -> Elements]
    /\ pc \in {"idle", "next", "children"}
    /\ \A n \in doc \cup ({node} \ {NULL}) :
          /\ n.port \in Ports /\ n.born \in Nat
          /\ n.age = IF element[n.port].colons = NULL THEN NULL
                     ELSE Age(asked - n.born, element[n.port].colons)
    /\ children \in Seq(Child)
    /\ \A tag \in Tags \ {"pi"} : lldp[tag] \in Child \cup {NULL}
    /\ lldp.pi \in Seq(Child)
    /\ first \in Ports \cup {NULL}
    /\ heap \in [Kinds -> Nat]
    /\ untidy \in BOOLEAN
    /\ printed \subseteq Ports

\* Between two requests nothing that was read of a neighbour is still allocated,
\* unless a neighbour had capabilities, whose types capability_destroy() forgets,
\* or a child twice, of which get_lldp_from_node() forgets the first.
NoLeak == pc = "idle" /\ ~untidy => heap = Zero

\* time-mark is when lldpd heard of the neighbour, moved on by the time between
\* lldpcli and get_age() and back by what age_str2num() computes too much: nothing
\* in the first hour, a minute for each hour and 2904 seconds for the first day.  From
\* the second day on lldpcli prints "days", which age_str2num() does not know: the
\* neighbour then seems to have been heard of just now.
MarkDrift ==
    \A r \in reply :
        LET age == asked - r.born IN
        element[r.port].colons = 2 =>
            r.mark - r.born =
                r.delay + (IF age >= 172800 THEN age
                           ELSE -(60 * ((age \div 3600) % 24) + 2904 * (age \div 86400)))

\* The child of a kind that comes last in the element of p; NULL if it has none.
LastChild(p, tag) ==
    LET c  == element[p].children
        at == {i \in DOMAIN c : c[i].tag = tag}
    IN IF at = {} THEN NULL ELSE c[CHOOSE i \in at : \A j \in at : j <= i]

\* The handler crashes on a neighbour only if it has no <port>, no <chassis>, no
\* rid, no age, or a port id that is missing or shorter than nine characters: how many
\* other children its element has, in whatever order and however often, is harmless.
CrashNeedsCause ==
    ~alive =>
        LET e    == element[node.port]
            port == LastChild(node.port, "port")
        IN \/ ~e.rid
           \/ e.colons = NULL
           \/ LastChild(node.port, "chassis") = NULL
           \/ port = NULL
           \/ port.id \in {"none", "short"}

\* The key dest-mac-address takes the id of this port.
Mac(p) == LET port == LastChild(p, "port") IN port # NULL /\ port.id = "mac"

\* An answer has one entry for each neighbour that lldpcli printed with a MAC for a port
\* id, though lldpd goes on changing, and no other; but none at all if the neighbour the
\* document begins with has another id.
NeighboursAnswered ==
    pc = "next" /\ doc = {} =>
        {r.port : r \in reply} =
            IF first = NULL \/ ~Mac(first) THEN {} ELSE {p \in printed : Mac(p)}

=============================================================================
