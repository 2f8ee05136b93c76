-------------------------- MODULE ProvidersProofs --------------------------
(***************************************************************************)
(* Proofs about Providers.                                                 *)
(***************************************************************************)
EXTENDS Providers, NumberProofs, SequenceTheorems

-----------------------------------------------------------------------------
(* Pointers: who has passed malloc() has a list, who iterates has a set.   *)

Shape ==
    /\ \A t \in NameProviders :
           /\ pc[t] \in (Filling \ {"malloc"}) \cup {"iterate"} => interface_names # NULL
           /\ pc[t] = "iterate" => names[t] # NULL
           /\ pc[t] # "iterate" => reply[t] = NoReply
    /\ pc["lldp-port"] \in {"idle", "acquired"}

Basics == TypeOK /\ ContextBalanced /\ Shape

\* A record of the answer, and what the loop keeps of it.
Entry == [port : Ifaces, value : Ifaces]
Reply == [start : BOOLEAN, oper_state : Ifaces \cup {NULL}, entries : Seq(Entry)]

\* A list of names.
NameSet == [state : {"free", "raw", "ready", "broken"}, elems : SUBSET Ifaces]

\* sset_init() and sset_add() leave a list of names, though it may be broken.
LEMMA WrittenType ==
  ASSUME NEW s \in [NameProviders -> NameSet], NEW o \in NameProviders,
         NEW elems \in SUBSET Ifaces
  PROVE  /\ [s EXCEPT ![o].elems = elems] \in [NameProviders -> NameSet]
         /\ \A state \in {"ready", "broken"} :
               [s EXCEPT ![o] = [state |-> state, elems |-> elems]]
                   \in [NameProviders -> NameSet]
  BY DEF NameSet

\* An answer consists of known ports.
LEMMA AnsweredType ==
  ASSUME NEW r \in Reply
  PROVE  Answered(r) \in SUBSET Ifaces
<1>1. ASSUME NEW k \in 1..Len(r.entries) PROVE r.entries[k].port \in Ifaces
  <2>1. r.entries[k] \in Entry
    BY ElementOfSeq DEF Reply
  <2> QED
    BY <2>1 DEF Entry
<1> QED
  BY <1>1 DEF Answered

\* One more iteration keeps an answer well-formed.
LEMMA ReportType ==
  ASSUME NEW t \in NameProviders, NEW r \in Reply, NEW n \in Ifaces
  PROVE  Report(t, r, n) \in Reply
<1>1. OperState(r, n) \in Ifaces \cup {NULL} /\ Value(t, r, n) \in Ifaces \cup {NULL}
  BY DEF OperState, Value, Reply
<1>2. Entered(t, r, n) \in Seq(Entry)
  <2>1. CASE Accepted(t, r, n)
    <3>1. [port |-> n, value |-> Value(t, r, n)] \in Entry
      BY <1>1, <2>1 DEF Accepted, Entry
    <3> QED
      BY <2>1, <3>1 DEF Entered, Reply
  <2>2. CASE ~Accepted(t, r, n)
    BY <2>2 DEF Entered, Reply
  <2> QED
    BY <2>1, <2>2
<1>3. [start |-> FALSE, oper_state |-> IF t = "oper-status" THEN OperState(r, n) ELSE NULL,
       entries |-> Entered(t, r, n)] \in Reply
  BY <1>1, <1>2 DEF Reply
<1> QED
  BY <1>3 DEF Report

\* An answer that has not begun is well-formed.
LEMMA NoReplyType == NoReply \in Reply
  BY EmptySeq DEF NoReply, Reply

\* The steps of a handler outside of get_interface_names() and the loop over it.
LEMMA HandlerBasics ==
  ASSUME Basics, alive, NEW t \in Threads,
         \/ Request(t)
         \/ ReturnEarly(t)
         \/ t = "lldp-port" /\ (LldpAnswer \/ LldpCrash)
         \/ t \in NameProviders /\ AllocCache(t)
  PROVE  Basics'
<1> USE DEF Basics, TypeOK, GoTo, process, history, Labels
<1>1. CASE Request(t)
  BY <1>1 DEF Request, ContextBalanced, Shape, Filling, NameProviders, Threads
<1>2. CASE ReturnEarly(t)
  BY <1>2, ProvidersAssumption
     DEF ReturnEarly, Fault, ContextBalanced, Shape, Filling, NameProviders, Threads
<1>3. CASE t = "lldp-port" /\ LldpAnswer
  BY <1>3 DEF LldpAnswer, Release, ContextBalanced, Shape, Filling, NameProviders, Threads
<1>4. CASE t \in NameProviders /\ AllocCache(t)
  BY <1>4, ProvidersAssumption
     DEF AllocCache, Fault, Release, ContextBalanced, Shape, Filling, NameProviders,
     Threads
<1>5. CASE t = "lldp-port" /\ LldpCrash
  BY <1>5 DEF LldpCrash, Die, ContextBalanced, Shape
<1> QED
  BY <1>1, <1>2, <1>3, <1>4, <1>5

\* get_interface_names(), one step of it.
LEMMA NamesBasics ==
  ASSUME Basics, alive, NEW t \in NameProviders, GetInterfaceNames(t)
  PROVE  Basics'
<1> USE DEF GoTo
<1>0. TypeOK /\ ContextBalanced /\ Shape /\ t \in Threads
  BY DEF Basics, NameProviders, Threads
<1>1. ASSUME Return(t), interface_names # NULL, UNCHANGED <<alive, links,
             interface_names, sets, cache, fill, reply, held, changed, late,
             flawed>>, faults' \in 0..MaxFaults, faults' >= faults, overlap' \in BOOLEAN,
             pc[t] \in {"names", "allocCache", "fill"}
      PROVE  Basics'
  <2>1. TypeOK'
    BY <1>0, <1>1 DEF TypeOK, Return, Labels
  <2>2. ContextBalanced'
    BY <1>0, <1>1 DEF TypeOK, ContextBalanced, Return
  <2>3. Shape'
    BY <1>0, <1>1 DEF TypeOK, Shape, Return, Filling, NameProviders, Threads
  <2> QED
    BY <2>1, <2>2, <2>3 DEF Basics
<1>2. CASE CheckNames(t)
  <2>1. CASE interface_names # NULL
    BY <1>0, <1>1, <1>2, <2>1 DEF CheckNames, TypeOK
  <2>2. CASE interface_names = NULL
    <3>1. TypeOK'
      BY <1>0, <1>2, <2>2 DEF CheckNames, TypeOK, Labels
    <3>2. ContextBalanced' /\ Shape'
      BY <1>0, <1>2, <2>2 DEF CheckNames, TypeOK, ContextBalanced, Shape, Filling,
                              NameProviders, Threads
    <3> QED
      BY <3>1, <3>2 DEF Basics
  <2> QED
    BY <2>1, <2>2
<1>3. CASE Malloc(t)
  <2>1. TypeOK'
    BY <1>0, <1>3 DEF Malloc, TypeOK, Labels, history
  <2>2. ContextBalanced' /\ Shape'
    BY <1>0, <1>3, ProvidersAssumption
       DEF Malloc, TypeOK, ContextBalanced, Shape, Filling, NameProviders, Threads
  <2> QED
    BY <2>1, <2>2 DEF Basics
<1>4. CASE InitSet(t)
  <2>1. interface_names \in NameProviders
    BY <1>0, <1>4 DEF InitSet, Shape, Filling, TypeOK
  <2>2. TypeOK'
    <3>1. sets \in [NameProviders -> NameSet]
      BY <1>0 DEF TypeOK, NameSet
    <3>2. PICK state \in {"ready", "broken"} :
             sets' = [sets EXCEPT ![interface_names] = [state |-> state, elems |-> {}]]
      BY <1>4 DEF InitSet
    <3>3. sets' \in [NameProviders -> NameSet]
      BY <2>1, <3>1, <3>2, WrittenType
    <3> QED
      BY <1>0, <1>4, <3>3 DEF InitSet, Tear, TypeOK, Labels, history, NameSet
  <2>3. ContextBalanced' /\ Shape'
    BY <1>0, <1>4 DEF InitSet, TypeOK, ContextBalanced, Shape, Filling, NameProviders,
                      Threads
  <2> QED
    BY <2>2, <2>3 DEF Basics
<1>5. CASE Connect(t)
  <2>1. TypeOK'
    BY <1>0, <1>5 DEF Connect, TypeOK, Labels, process, history
  <2>2. ContextBalanced' /\ Shape'
    BY <1>0, <1>5 DEF Connect, TypeOK, ContextBalanced, Shape, Filling, NameProviders,
                      Threads, process
  <2> QED
    BY <2>1, <2>2 DEF Basics
<1>6. CASE AllocFillCache(t) \/ NameIndex(t)
  <2>1. TypeOK'
    <3>1. CASE AllocFillCache(t)
      BY <1>0, <3>1 DEF AllocFillCache, TypeOK, Labels, history
    <3>2. CASE NameIndex(t)
      BY <1>0, <3>2 DEF NameIndex, TypeOK, Labels, history
    <3> QED
      BY <1>6, <3>1, <3>2
  <2>2. ContextBalanced' /\ Shape'
    <3>1. CASE AllocFillCache(t)
      BY <1>0, <3>1 DEF AllocFillCache, TypeOK, ContextBalanced, Shape, Filling,
                        NameProviders, Threads
    <3>2. CASE NameIndex(t)
      <4>1. ContextBalanced'
        BY <1>0, <3>2 DEF NameIndex, TypeOK, ContextBalanced
      <4>2. Shape'
        BY <1>0, <3>2 DEF NameIndex, TypeOK, Shape, Filling, NameProviders, Threads
      <4> QED
        BY <4>1, <4>2
    <3> QED
      BY <1>6, <3>1, <3>2
  <2> QED
    BY <2>1, <2>2 DEF Basics
<1>7. CASE ConnectExit(t)
  <2>1. faults' \in 0..MaxFaults /\ alive' = FALSE
    BY <1>0, <1>7, ProvidersAssumption DEF ConnectExit, Fault, TypeOK
  <2>2. UNCHANGED <<links, process, pc, held, history>>
    BY <1>7 DEF ConnectExit
  <2> QED
    BY <1>0, <2>1, <2>2 DEF Basics, TypeOK, ContextBalanced, Shape, process, history
<1>8. CASE AllocFillCacheFails(t)
  <2>1. faults' \in 0..MaxFaults /\ faults' >= faults
    BY <1>0, <1>8, ProvidersAssumption DEF AllocFillCacheFails, Fault, TypeOK
  <2>2. interface_names # NULL
    BY <1>0, <1>8 DEF AllocFillCacheFails, Shape, Filling
  <2> QED
    BY <1>0, <1>1, <1>8, <2>1, <2>2 DEF AllocFillCacheFails, TypeOK, history
<1>9. ASSUME NEW n \in Ifaces, AddName(t, n)
      PROVE  Basics'
  <2>1. interface_names \in NameProviders
    BY <1>0, <1>9 DEF AddName, Shape, Filling, TypeOK
  <2>2. sets \in [NameProviders -> NameSet]
    BY <1>0 DEF TypeOK, NameSet
  <2>3. sets' \in [NameProviders -> NameSet]
    <3> DEFINE all == sets[interface_names].elems \cup {n}
    <3>1. all \in SUBSET Ifaces
      BY <2>1, <2>2 DEF NameSet
    <3>2. \/ \E elems \in SUBSET all : sets' = [sets EXCEPT ![interface_names].elems = elems]
          \/ sets' = [sets EXCEPT ![interface_names] = [state |-> "broken", elems |-> all]]
      BY <1>9 DEF AddName
    <3> HIDE DEF all
    <3>3. ASSUME NEW elems \in SUBSET all,
                 sets' = [sets EXCEPT ![interface_names].elems = elems]
          PROVE  sets' \in [NameProviders -> NameSet]
      <4>1. elems \in SUBSET Ifaces
        BY <3>1
      <4> QED
        BY <2>1, <2>2, <3>3, <4>1, WrittenType
    <3>4. CASE sets' = [sets EXCEPT ![interface_names] = [state |-> "broken", elems |-> all]]
      BY <2>1, <2>2, <3>1, <3>4, WrittenType
    <3> QED
      BY <3>2, <3>3, <3>4
  <2>4. TypeOK'
    BY <1>0, <1>9, <2>3 DEF AddName, Tear, TypeOK, history, NameSet
  <2>5. ContextBalanced' /\ Shape'
    BY <1>0, <1>9 DEF AddName, ContextBalanced, Shape
  <2> QED
    BY <2>4, <2>5 DEF Basics
<1>10. CASE AddNameCrash(t)
  <2>1. alive' = FALSE /\ UNCHANGED <<links, process, pc, held, faults, history>>
    BY <1>10 DEF AddNameCrash, Die
  <2> QED
    BY <1>0, <2>1 DEF Basics, TypeOK, ContextBalanced, Shape, process, history
<1>11. CASE FillDone(t)
  <2>1. interface_names # NULL
    BY <1>0, <1>11 DEF FillDone, Shape, Filling
  <2> QED
    BY <1>0, <1>1, <1>11, <2>1 DEF FillDone, TypeOK, history
<1>12. CASE AddNameLoops(t)
  <2>1. TypeOK'
    BY <1>0, <1>12 DEF AddNameLoops, TypeOK, Labels, process, history
  <2>2. ContextBalanced' /\ Shape'
    BY <1>0, <1>12 DEF AddNameLoops, TypeOK, ContextBalanced, Shape, Filling,
                       NameProviders, Threads, process
  <2> QED
    BY <2>1, <2>2 DEF Basics
<1> QED
  BY <1>2, <1>3, <1>4, <1>5, <1>6, <1>7, <1>8, <1>9, <1>10, <1>11, <1>12
     DEF GetInterfaceNames

\* The loop of a handler over the list.
LEMMA LoopBasics ==
  ASSUME Basics, alive, NEW t \in NameProviders,
         (\E n \in Ifaces : Visit(t, n)) \/ VisitCrash(t) \/ Answer(t)
  PROVE  Basics'
<1> USE DEF GoTo
<1>0. TypeOK /\ ContextBalanced /\ Shape /\ t \in Threads
  BY DEF Basics, NameProviders, Threads
<1>1. ASSUME NEW n \in Ifaces, Visit(t, n)
      PROVE  Basics'
  <2>1. reply' = [reply EXCEPT ![t] = Report(t, reply[t], n)]
    BY <1>1 DEF Visit
  <2>2. Report(t, reply[t], n) \in Reply
    BY <1>0, <1>1, ReportType DEF Entry, Reply, TypeOK
  <2>3. names[t] \in NameProviders
    BY <1>0, <1>1 DEF Visit, Shape, TypeOK
  <2>4. todo' \in [NameProviders -> SUBSET Ifaces]
    <3>1. todo[t] \ {n} \in SUBSET Ifaces /\ sets[names[t]].elems \in SUBSET Ifaces
      BY <1>0, <2>3 DEF TypeOK
    <3>2. PICK rest \in SUBSET Ifaces : todo' = [todo EXCEPT ![t] = rest]
      BY <1>1, <3>1 DEF Visit
    <3> QED
      BY <1>0, <3>2 DEF TypeOK
  <2>5. TypeOK'
    <3>1. reply' \in [NameProviders -> Reply]
      BY <1>0, <2>1, <2>2 DEF TypeOK, Reply, Entry
    <3>2. UNCHANGED <<alive, links, interface_names, sets, pc, cache, fillCache, fill,
                      names, torn, held, faults, overlap, changed, late, flawed>>
      BY <1>1 DEF Visit, history
    <3> QED
      BY <1>0, <2>4, <3>1, <3>2 DEF TypeOK, Reply, Entry
  <2>6. ContextBalanced' /\ Shape'
    BY <1>0, <1>1, <2>1 DEF Visit, ContextBalanced, Shape, TypeOK
  <2> QED
    BY <2>5, <2>6 DEF Basics
<1>2. CASE VisitCrash(t)
  <2>1. alive' = FALSE /\ UNCHANGED <<links, process, pc, held, faults, history>>
    BY <1>2 DEF VisitCrash, Die
  <2> QED
    BY <1>0, <2>1 DEF Basics, TypeOK, ContextBalanced, Shape, process, history
<1>3. CASE Answer(t)
  <2>1. held' \in [Threads -> Nat] /\ ContextBalanced'
    BY <1>0, <1>3 DEF Answer, Release, TypeOK, ContextBalanced
  <2>2. TypeOK'
    <3>1. reply' \in [NameProviders -> Reply]
      BY <1>0, <1>3, NoReplyType DEF Answer, TypeOK, Reply, Entry
    <3> QED
      BY <1>0, <1>3, <2>1, <3>1 DEF Answer, TypeOK, Labels, history, Reply, Entry
  <2>3. Shape'
    BY <1>0, <1>3 DEF Answer, Shape, TypeOK, Filling, NameProviders, Threads
  <2> QED
    BY <2>1, <2>2, <2>3 DEF Basics
<1> QED
  BY <1>1, <1>2, <1>3

\* The kernel, and stuttering.
LEMMA KernelBasics ==
  ASSUME Basics, Kernel \/ UNCHANGED vars
  PROVE  Basics'
<1>1. /\ UNCHANGED <<alive, process, pc, held, faults, overlap, flawed>>
      /\ links' \subseteq Ifaces /\ changed' \in BOOLEAN /\ late' \subseteq Ifaces
  BY DEF Kernel, LinkAppears, LinkVanishes, vars, history, Basics, TypeOK
<1> QED
  BY <1>1 DEF Basics, TypeOK, process, ContextBalanced, Shape

\* Every step keeps the types, the balance of the context and the pointers.
LEMMA NextBasics ==
  ASSUME Basics, [Next]_vars
  PROVE  Basics'
  BY HandlerBasics, NamesBasics, LoopBasics, KernelBasics
     DEF Next, Handler, NameHandler, NameProviders, Threads

\* The handlers start without a list.
LEMMA InitBasics == Init => Basics
<1> SUFFICES ASSUME Init PROVE Basics
  OBVIOUS
<1>1. TypeOK
  <2>1. reply \in [NameProviders -> Reply]
    BY NoReplyType DEF Init
  <2>2. NoSet \in NameSet
    BY DEF NoSet, NameSet
  <2>3. sets \in [NameProviders -> NameSet]
    BY <2>2 DEF Init
  <2>4. /\ pc \in [Threads -> Labels] /\ held \in [Threads -> Nat]
        /\ faults \in 0..MaxFaults
    BY ProvidersAssumption DEF Init, Labels
  <2> QED
    BY <2>1, <2>3, <2>4 DEF Init, TypeOK, NameSet, Reply, Entry
<1>2. ContextBalanced /\ Shape
  BY DEF Init, ContextBalanced, Shape, NameProviders, Threads, Filling
<1> QED
  BY <1>1, <1>2 DEF Basics


\* A complete list is never changed.
LEMMA WarmStep ==
  ASSUME Basics, Warm, [Next]_vars
  PROVE  Warm' /\ interface_names' = interface_names /\ sets' = sets
<1> USE DEF GoTo
<1>0. pc \in [Threads -> Labels] /\ NameProviders \subseteq Threads
  BY DEF Basics, TypeOK, NameProviders, Threads
<1>1. ASSUME NEW t \in Threads, NEW label \in Labels \ Filling,
             pc' = [pc EXCEPT ![t] = label], UNCHANGED <<interface_names, sets>>
      PROVE  Warm' /\ interface_names' = interface_names /\ sets' = sets
  BY <1>0, <1>1 DEF Warm
<1>2. ASSUME UNCHANGED <<pc, interface_names, sets>>
      PROVE  Warm' /\ interface_names' = interface_names /\ sets' = sets
  BY <1>2 DEF Warm
<1>3. ASSUME NEW t \in Threads, Request(t) \/ ReturnEarly(t)
      PROVE  Warm' /\ interface_names' = interface_names /\ sets' = sets
  BY <1>1, <1>3 DEF Request, ReturnEarly, process, Labels, Filling
<1>4. ASSUME NEW t \in NameProviders, NameHandler(t)
      PROVE  Warm' /\ interface_names' = interface_names /\ sets' = sets
  <2>1. pc[t] \notin Filling /\ interface_names # NULL
    BY <1>4 DEF Warm
  <2>2. ~Malloc(t) /\ ~InitSet(t) /\ ~Connect(t) /\ ~ConnectExit(t)
        /\ ~AllocFillCache(t) /\ ~AllocFillCacheFails(t) /\ ~NameIndex(t)
        /\ ~(\E n \in Ifaces : AddName(t, n)) /\ ~AddNameLoops(t) /\ ~AddNameCrash(t)
        /\ ~FillDone(t)
    BY <2>1 DEF Malloc, InitSet, Connect, ConnectExit, AllocFillCache,
                AllocFillCacheFails, NameIndex, AddName, AddNameLoops, AddNameCrash,
                FillDone, Filling
  <2>3. CASE AllocCache(t)
    BY <1>0, <1>1, <2>3 DEF AllocCache, Labels, Filling
  <2>4. CASE CheckNames(t)
    BY <1>0, <1>1, <2>1, <2>4 DEF CheckNames, Return, Labels, Filling
  <2>5. CASE Answer(t)
    BY <1>0, <1>1, <2>5 DEF Answer, Labels, Filling
  <2>6. CASE (\E n \in Ifaces : Visit(t, n)) \/ VisitCrash(t)
    BY <1>2, <2>6 DEF Visit, VisitCrash, Die, process
  <2> QED
    BY <1>4, <2>2, <2>3, <2>4, <2>5, <2>6 DEF NameHandler, GetInterfaceNames
<1>5. CASE LldpAnswer
  BY <1>1, <1>5 DEF LldpAnswer, process, Labels, Filling, Threads
<1>6. CASE Kernel \/ LldpCrash \/ UNCHANGED vars
  BY <1>2, <1>6 DEF Kernel, LinkAppears, LinkVanishes, LldpCrash, Die, vars, process
<1> QED
  BY <1>3, <1>4, <1>5, <1>6 DEF Next, Handler

-----------------------------------------------------------------------------
(* The order among the handlers, as long as no two of them are in          *)
(* get_interface_names() at once and the ports stay as they are; what they *)
(* answer is complete as long as no call fails either.                     *)

Calm == ~overlap /\ ~changed

Quiet == Calm /\ faults = 0

\* The ports the list is made of, or is going to be.
Known == links \ late

\* One handler builds the list, and until it has nobody uses it.
Alone ==
    \A t, u \in NameProviders :
        t # u /\ pc[t] \in Filling => pc[u] \notin Filling \cup {"iterate"}

\* The copy of the link table a handler took has all of them.
Copied ==
    \A t \in NameProviders :
        pc[t] \in {"names", "iterate"} \cup Filling => Known \subseteq cache[t]

Listed ==
    interface_names # NULL =>
        /\ sets[interface_names].elems \subseteq Known
        /\ sets[interface_names].state = "ready" \/ \E t \in NameProviders : pc[t] = "init"

Filled(t) ==
    /\ pc[t] \in {"nameIndex", "fill"} => fillCache[t] = links
    /\ pc[t] = "fill" => fill[t] \subseteq links

\* No port is named twice, and each value is that of the port the code takes it from.
Distinct(es) == \A j, k \in 1..Len(es) : es[j].port = es[k].port => j = k

Named(es, k) == {j \in 1..k : es[j].port \notin Odd}

Valued(t, es) ==
    \A k \in 1..Len(es) :
        IF t = "statistics" THEN es[k].value = es[k].port
        ELSE Named(es, k) # {} /\ es[k].value = es[Max(Named(es, k))].port

\* What the loop knows of the answer: the state it would repeat is that of the last
\* entry, and only a port in a state without a name can have been refused the first one.
Stated(t, r) ==
    IF r.entries = <<>>
    THEN /\ r.start => r.oper_state = NULL
         /\ ~r.start => t = "oper-status" /\ Odd \cap Known # {}
    ELSE /\ ~r.start
         /\ t = "oper-status" => r.oper_state = Last(r.entries).value

\* An answer that has lost its first entry gets no other.
Barren(r) == ~r.start /\ r.entries = <<>>

Answering(t) ==
    pc[t] = "iterate" =>
        /\ names[t] = interface_names
        /\ ~torn[t]
        /\ todo[t] \cap Answered(reply[t]) = {}
        /\ todo[t] \cup Answered(reply[t]) \subseteq Known
        /\ Distinct(reply[t].entries)
        /\ Valued(t, reply[t].entries)
        /\ Stated(t, reply[t])

Order ==
    /\ Alone /\ Copied /\ Listed
    /\ ~Warm => late = {}
    /\ \A t \in NameProviders : Filled(t) /\ Answering(t)

\* No port is forgotten: it is in the list, or about to be, and in the answers that have
\* any entry.
Complete ==
    /\ Warm => Known \subseteq sets[interface_names].elems
    /\ \A t \in NameProviders :
           /\ pc[t] = "fill" => links \subseteq sets[interface_names].elems \cup fill[t]
           /\ pc[t] = "iterate" =>
                  Barren(reply[t]) \/ Known \subseteq todo[t] \cup Answered(reply[t])

Orderly == (Calm => Order) /\ (Quiet => Complete /\ (alive \/ flawed))

\* What one more entry makes of an answer.
LEMMA EntryAnswer ==
  ASSUME NEW t \in NameProviders, NEW es \in Seq(Entry), NEW n \in Ifaces,
         NEW v \in Ifaces, Distinct(es), Valued(t, es),
         \A k \in 1..Len(es) : es[k].port # n,
         IF t = "statistics" \/ n \notin Odd THEN v = n
         ELSE es # <<>> /\ v = Last(es).value
  PROVE  LET s == Append(es, [port |-> n, value |-> v]) IN Distinct(s) /\ Valued(t, s)
<1> DEFINE e == [port |-> n, value |-> v]
           s == Append(es, e)
           m == Len(es) + 1
<1>2. Len(es) \in Nat /\ Len(s) = m /\ s[m].port = n /\ s[m].value = v
      /\ \A k \in 1..Len(es) : s[k] = es[k]
  OBVIOUS
<1>3. 1..m = 1..Len(es) \cup {m}
  BY <1>2
<1> HIDE DEF s, m
<1>5. Distinct(s)
  BY <1>2, <1>3 DEF Distinct
<1>6. ASSUME NEW k \in 1..Len(es)
      PROVE  Named(s, k) = Named(es, k)
  <2>1. \A j \in 1..k : j \in 1..Len(es)
    BY <1>2
  <2> QED
    BY <1>2, <2>1 DEF Named
<1>7. ASSUME NEW k \in 1..Len(es), Named(es, k) # {}
      PROVE  s[Max(Named(es, k))] = es[Max(Named(es, k))]
  <2>1. Named(es, k) \in SUBSET (0..k) /\ Named(es, k) \in SUBSET (1..k) /\ k \in Nat
    BY <1>2 DEF Named
  <2>2. Max(Named(es, k)) \in Named(es, k)
    BY <1>7, <2>1, MaxExists
  <2>3. Max(Named(es, k)) \in 1..Len(es)
    BY <1>2, <2>1, <2>2
  <2> QED
    BY <1>2, <2>3
<1>8. IF t = "statistics" THEN s[m].value = s[m].port
      ELSE Named(s, m) # {} /\ s[m].value = s[Max(Named(s, m))].port
  <2>1. CASE t = "statistics"
    BY <1>2, <2>1
  <2>2. CASE t = "oper-status" /\ n \notin Odd
    <3>1. m \in Named(s, m) /\ Named(s, m) \in SUBSET Nat
          /\ \A j \in Named(s, m) : j <= m
      BY <1>2, <2>2 DEF Named, m
    <3>2. Max(Named(s, m)) = m
      BY <3>1, MaxIs
    <3> QED
      BY <1>2, <2>2, <3>1, <3>2
  <2>3. CASE t = "oper-status" /\ n \in Odd
    <3>1. \A j \in Named(s, m) : j \in 1..Len(es)
      BY <1>2, <1>3, <2>3 DEF Named
    <3>2. Len(es) \in 1..Len(es) /\ v = es[Len(es)].value
      BY <1>2, <2>3 DEF Last
    <3>3. Named(s, m) = Named(es, Len(es))
      BY <1>2, <1>3, <3>1 DEF Named
    <3> QED
      BY <1>2, <1>7, <2>3, <3>2, <3>3 DEF Valued
  <2> QED
    BY <2>1, <2>2, <2>3 DEF NameProviders
<1>9. Valued(t, s)
  BY <1>2, <1>3, <1>6, <1>7, <1>8 DEF Valued
<1> QED
  BY <1>5, <1>9 DEF s

\* What the loop makes of an answer, for a port the handler's table has: unless it has
\* lost the first entry, the port is in the answer.
LEMMA ReportAnswer ==
  ASSUME NEW t \in NameProviders, NEW r \in Reply, NEW n \in cache[t] \cap Known,
         n \in Ifaces, n \notin Answered(r), Distinct(r.entries), Valued(t, r.entries),
         Stated(t, r)
  PROVE  LET s == Report(t, r, n) IN
         /\ Distinct(s.entries) /\ Valued(t, s.entries) /\ Stated(t, s)
         /\ Answered(s) \subseteq Answered(r) \cup {n}
         /\ Barren(s) \/ (~Barren(r) /\ Answered(s) = Answered(r) \cup {n})
<1> DEFINE v == Value(t, r, n)
           e == [port |-> n, value |-> v]
           s == Report(t, r, n)
<1>1. /\ s.entries = Entered(t, r, n) /\ ~s.start
      /\ t = "oper-status" => s.oper_state = v
  BY DEF Report, Value
<1>2. r.entries \in Seq(Entry) /\ r.oper_state \in Ifaces \cup {NULL} /\ NULL \notin Ifaces
  BY ProvidersAssumption DEF Reply
<1>3. v \in Ifaces \cup {NULL} /\ (v = NULL => t = "oper-status" /\ n \in Odd)
  BY <1>2 DEF Value, OperState
<1>4. CASE Accepted(t, r, n)
  <2>1. s.entries = Append(r.entries, e) /\ v \in Ifaces
    BY <1>1, <1>3, <1>4 DEF Entered, Accepted
  <2>2. \A k \in 1..Len(r.entries) : r.entries[k].port # n
    BY DEF Answered
  <2>3. IF t = "statistics" \/ n \notin Odd THEN v = n
        ELSE r.entries # <<>> /\ v = Last(r.entries).value
    BY <1>2, <1>4, <2>1 DEF Value, OperState, Accepted, Stated, NameProviders
  <2>4. Distinct(s.entries) /\ Valued(t, s.entries)
    BY <1>2, <2>1, <2>2, <2>3, EntryAnswer
  <2>5. /\ Len(s.entries) = Len(r.entries) + 1 /\ Len(r.entries) \in Nat
        /\ s.entries[Len(r.entries) + 1] = e /\ s.entries # <<>>
        /\ \A k \in 1..Len(r.entries) : s.entries[k] = r.entries[k]
    BY <1>2, <2>1, AppendProperties DEF Entry
  <2>6. 1..(Len(r.entries) + 1) = 1..Len(r.entries) \cup {Len(r.entries) + 1}
    BY <2>5
  <2> HIDE DEF s
  <2>7. Answered(s) = Answered(r) \cup {n}
    BY <2>5, <2>6 DEF Answered
  <2>8. Stated(t, s) /\ ~Barren(r)
    BY <1>1, <1>4, <2>5 DEF Stated, Last, Barren, Accepted
  <2> QED
    BY <2>4, <2>7, <2>8 DEF s
<1>5. CASE ~Accepted(t, r, n)
  <2>1. s.entries = r.entries
    BY <1>1, <1>5 DEF Entered
  <2>2. r.entries = <<>>
    <3>1. SUFFICES ASSUME r.entries # <<>> PROVE FALSE
      OBVIOUS
    <3>2. v = NULL /\ t = "oper-status" /\ r.oper_state = NULL
      BY <1>3, <1>5, <3>1 DEF Accepted, Value, OperState
    <3>3. Len(r.entries) \in 1..Len(r.entries)
      BY <1>2, <3>1
    <3>4. r.entries[Len(r.entries)] \in Entry
      BY <1>2, <3>3, ElementOfSeq
    <3>5. Last(r.entries).value \in Ifaces
      BY <3>4 DEF Entry, Last
    <3> QED
      BY <1>2, <3>1, <3>2, <3>5 DEF Stated
  <2>3. t = "oper-status" /\ Odd \cap Known # {}
    BY <1>3, <1>5, <2>2 DEF Accepted, Stated
  <2> HIDE DEF s
  <2>4. Stated(t, s) /\ Barren(s) /\ Answered(s) = Answered(r)
    BY <1>1, <2>1, <2>2, <2>3 DEF Stated, Barren, Answered
  <2> QED
    BY <2>1, <2>4 DEF s
<1> QED
  BY <1>4, <1>5

\* An answer is not disturbed by a step that leaves it, its handler and the list alone.
LEMMA AnswerKept ==
  ASSUME NEW t \in NameProviders, pc[t] = "iterate" => Answering(t),
         pc'[t] = "iterate" =>
             /\ pc[t] = "iterate" /\ names'[t] = names[t] /\ torn'[t] = torn[t]
             /\ todo'[t] = todo[t] /\ reply'[t] = reply[t]
             /\ interface_names' = interface_names /\ Known' = Known
  PROVE  Answering(t)'
  BY DEF Answering, Stated

\* The steps of a handler before it calls get_interface_names(), and of the third one.
LEMMA HeadOrderly ==
  ASSUME Basics, Order, NEW t \in Threads,
         \/ Request(t)
         \/ ReturnEarly(t)
         \/ t = "lldp-port" /\ (LldpAnswer \/ LldpCrash)
         \/ t \in NameProviders /\ AllocCache(t)
  PROVE  Order' /\ (Complete => Complete')
<1> USE DEF GoTo
<1>0. TypeOK
  BY DEF Basics
<1>1. /\ UNCHANGED <<links, interface_names, sets, fillCache, fill, names, todo, torn,
                     reply, late>>
      /\ \A u \in Threads \ {t} : pc'[u] = pc[u]
      /\ pc[t] \notin Filling /\ pc'[t] \notin Filling
      /\ pc[t] # "iterate" /\ pc'[t] # "iterate"
      /\ \A u \in NameProviders \ {t} : cache'[u] = cache[u]
      /\ t \in NameProviders => (pc'[t] = "names" => cache'[t] = links)
  BY <1>0 DEF Request, ReturnEarly, LldpAnswer, LldpCrash, Die, AllocCache, process,
              history, Filling, TypeOK, Threads
<1>2. NameProviders \subseteq Threads /\ Known' = Known
  BY <1>1 DEF NameProviders, Threads, Known
<1>3. Warm' <=> Warm
  BY <1>1, <1>2 DEF Warm
<1>4. Alone' /\ Copied' /\ (~Warm' => late' = {})
  BY <1>1, <1>2, <1>3 DEF Order, Alone, Copied, Known
<1>5. Listed'
  BY <1>1, <1>2, <1>3 DEF Order, Listed, Known, Filling
<1>6. ASSUME NEW u \in NameProviders PROVE Filled(u)' /\ Answering(u)'
  <2>1. Filled(u)'
    BY <1>1, <1>2 DEF Order, Filled, Filling
  <2>2. Answering(u)'
    BY <1>1, <1>2, AnswerKept DEF Order
  <2> QED
    BY <2>1, <2>2
<1>7. Complete => Complete'
  BY <1>1, <1>2, <1>3 DEF Complete, Answered, Filling
<1> QED
  BY <1>4, <1>5, <1>6, <1>7 DEF Order

\* get_interface_names() returns the list, which nobody else is building.
LEMMA ReturnOrderly ==
  ASSUME Basics, Order, NEW t \in NameProviders, Return(t), interface_names # NULL,
         \A u \in NameProviders \ {t} : pc[u] \notin Filling,
         pc[t] \in {"names", "allocCache"} \/ (pc[t] = "fill" /\ fill[t] = {}),
         UNCHANGED <<links, interface_names, sets, cache, fill, reply, late>>
  PROVE  Order' /\ (Complete /\ pc[t] # "allocCache" => Complete')
<1> USE DEF GoTo
<1>0. TypeOK /\ Shape /\ NameProviders \subseteq Threads
  BY DEF Basics, NameProviders, Threads
<1>1. /\ pc'[t] = "iterate" /\ \A u \in NameProviders \ {t} : pc'[u] = pc[u]
      /\ names'[t] = interface_names /\ todo'[t] = sets[interface_names].elems
      /\ torn'[t] = (sets[interface_names].state # "ready")
      /\ \A u \in NameProviders \ {t} : /\ names'[u] = names[u] /\ todo'[u] = todo[u]
                                        /\ torn'[u] = torn[u]
                                        /\ fillCache'[u] = fillCache[u]
      /\ Known' = Known
  BY <1>0 DEF Return, TypeOK, Known
<1>2. Warm' /\ \A u \in NameProviders : pc[u] # "init"
  BY <1>1 DEF Warm, Filling
<1>3. sets[interface_names].state = "ready" /\ sets[interface_names].elems \subseteq Known
  BY <1>2 DEF Order, Listed
<1>4. Alone' /\ Copied' /\ Listed'
  BY <1>0, <1>1, <1>2, <1>3 DEF Order, Alone, Copied, Listed, Known, Filling
<1>5. reply[t] = NoReply
  BY <1>0 DEF Shape
<1>6. /\ NoReply.entries = <<>> /\ Answered(NoReply) = {}
      /\ Distinct(<<>>) /\ Valued(t, <<>>)
      /\ Stated(t, NoReply)' /\ Known' \subseteq Known
  BY <1>1 DEF NoReply, Answered, Distinct, Valued, Stated
<1>7. ASSUME NEW u \in NameProviders PROVE Filled(u)' /\ Answering(u)'
  <2>1. Filled(u)'
    BY <1>1 DEF Order, Filled, Filling
  <2>2. CASE u # t
    BY <1>1, <2>1, <2>2, AnswerKept DEF Order
  <2>3. CASE u = t
    <3>1. Answering(t)'
      BY <1>1, <1>3, <1>5, <1>6 DEF Answering
    <3> QED
      BY <2>1, <2>3, <3>1
  <2> QED
    BY <2>2, <2>3
<1>8. ASSUME Complete, pc[t] # "allocCache" PROVE Complete'
  <2>1. Known \subseteq sets[interface_names].elems
    <3>1. CASE pc[t] = "names"
      BY <1>8, <3>1 DEF Complete, Warm, Filling
    <3>2. CASE pc[t] = "fill" /\ fill[t] = {}
      BY <1>8, <3>2 DEF Complete, Known
    <3> QED
      BY <1>8, <3>1, <3>2
  <2>2. ASSUME NEW u \in NameProviders
        PROVE  /\ pc'[u] # "fill"
               /\ pc'[u] = "iterate" =>
                      \/ Barren(reply'[u])
                      \/ Known \subseteq todo'[u] \cup Answered(reply'[u])
    BY <1>1, <1>8, <2>1 DEF Complete, Filling
  <2> QED
    BY <1>1, <2>1, <2>2 DEF Complete
<1> QED
  BY <1>2, <1>4, <1>7, <1>8 DEF Order

\* What a handler finds while it adds names: nobody else uses the list, which has been
\* initialised, and the links it looks up are all in its copy of the table.
LEMMA FillAlone ==
  ASSUME Basics, Order, NEW t \in NameProviders, pc[t] = "fill"
  PROVE  /\ ~Contended(t) /\ ~Unsound(t) /\ late = {} /\ ~Warm
         /\ interface_names \in NameProviders
         /\ sets[interface_names].state = "ready"
         /\ fill[t] \subseteq fillCache[t]
<1>1. \A u \in NameProviders \ {t} : pc[u] \notin Filling \cup {"iterate"}
  BY DEF Order, Alone, Filling
<1>2. ~Contended(t)
  BY <1>1 DEF Contended, Filling
<1>3. ~Warm /\ late = {}
  BY DEF Order, Warm, Filling
<1>4. interface_names \in NameProviders /\ interface_names # NULL
  BY DEF Basics, Shape, Filling, TypeOK
<1>5. sets[interface_names].state = "ready"
  BY <1>1, <1>4 DEF Order, Listed, Filling
<1> QED
  BY <1>2, <1>3, <1>4, <1>5 DEF Order, Filled, Unsound

\* So neither get_interface_names() nor the loop over the list crashes, or goes round.
LEMMA NoCrash ==
  ASSUME Basics, Order, NEW t \in NameProviders
  PROVE  ~AddNameCrash(t) /\ ~AddNameLoops(t) /\ ~VisitCrash(t)
<1>1. ~AddNameCrash(t) /\ ~AddNameLoops(t)
  BY FillAlone DEF AddNameCrash, AddNameLoops
<1>2. ~VisitCrash(t)
  BY DEF VisitCrash, Order, Answering, Copied
<1> QED
  BY <1>1, <1>2

\* get_interface_names(): nobody else is in it, or uses the list, until it returns.
LEMMA NamesOrderly ==
  ASSUME Basics, Order, Calm', NEW t \in NameProviders, GetInterfaceNames(t)
  PROVE  Order' /\ (Complete /\ faults' = 0 => Complete')
<1> USE DEF GoTo
<1>0. TypeOK /\ Shape /\ NameProviders \subseteq Threads
  BY DEF Basics, NameProviders, Threads
<1>1. ASSUME pc[t] \in Filling \/ (pc[t] = "names" /\ interface_names = NULL),
             pc'[t] \in Filling, \A u \in NameProviders \ {t} : pc'[u] = pc[u],
             \A u \in NameProviders \ {t} : pc[u] \notin Filling,
             UNCHANGED <<links, cache, late>>, Listed', Filled(t)',
             Complete /\ pc'[t] = "fill"
                 => links \subseteq sets'[interface_names'].elems \cup fill'[t]
      PROVE  Order' /\ (Complete => Complete')
  <2>1. \A u \in NameProviders \ {t} : pc[u] # "iterate"
    BY <1>0, <1>1 DEF Order, Alone, Shape
  <2>2. ~Warm /\ ~Warm'
    BY <1>1 DEF Warm
  <2>3. Alone' /\ Copied' /\ late' = {}
    BY <1>1, <2>1, <2>2 DEF Order, Alone, Copied, Known
  <2>4. \A u \in NameProviders : pc'[u] # "iterate" /\ (u # t => pc'[u] \notin Filling)
    BY <1>1, <2>1 DEF Filling
  <2>5. ASSUME NEW u \in NameProviders PROVE Filled(u)' /\ Answering(u)'
    <3>1. Filled(u)'
      BY <1>1, <2>4 DEF Filled, Filling
    <3>2. Answering(u)'
      BY <2>4 DEF Answering
    <3> QED
      BY <3>1, <3>2
  <2>6. Complete => Complete'
    BY <1>1, <2>2, <2>4 DEF Complete, Filling
  <2> QED
    BY <1>1, <2>3, <2>5, <2>6 DEF Order
<1>2. CASE CheckNames(t)
  <2>1. \A u \in NameProviders \ {t} : pc[u] \notin Filling
    BY <1>2 DEF CheckNames, Calm
  <2>2. CASE interface_names # NULL
    BY <1>2, <2>1, <2>2, ReturnOrderly DEF CheckNames
  <2>3. CASE interface_names = NULL
    <3>1. /\ pc'[t] = "malloc" /\ \A u \in NameProviders \ {t} : pc'[u] = pc[u]
          /\ pc[t] = "names" /\ UNCHANGED <<links, cache, late, interface_names>>
      BY <1>0, <1>2, <2>3 DEF CheckNames, TypeOK
    <3>2. Listed' /\ Filled(t)'
      BY <2>3, <3>1 DEF Listed, Filled
    <3> QED
      BY <1>1, <2>1, <2>3, <3>1, <3>2 DEF Filling
  <2> QED
    BY <2>2, <2>3
<1>3. ASSUME pc[t] \in Filling
      PROVE  \A u \in NameProviders \ {t} : pc[u] \notin Filling \cup {"iterate"}
  BY <1>3 DEF Order, Alone
<1>4. CASE Malloc(t)
  <2>1. /\ pc'[t] = "init" /\ \A u \in NameProviders \ {t} : pc'[u] = pc[u]
        /\ pc[t] = "malloc" /\ UNCHANGED <<links, cache, late>>
        /\ interface_names' = t /\ sets'[t] = [state |-> "raw", elems |-> {}]
    BY <1>0, <1>4 DEF Malloc, TypeOK, history
  <2>2. Listed' /\ Filled(t)'
    BY <2>1 DEF Listed, Filled
  <2> QED
    BY <1>1, <1>3, <2>1, <2>2 DEF Filling
<1>5. CASE InitSet(t)
  <2>1. interface_names \in NameProviders
    BY <1>0, <1>5 DEF InitSet, Shape, Filling, TypeOK
  <2>2. /\ pc'[t] = "connect" /\ \A u \in NameProviders \ {t} : pc'[u] = pc[u]
        /\ pc[t] = "init" /\ UNCHANGED <<links, cache, late, interface_names>>
        /\ sets'[interface_names] = [state |-> "ready", elems |-> {}]
    <3>1. pc[t] = "init" /\ ~Contended(t)
      BY <1>3, <1>5 DEF InitSet, Contended, Filling
    <3>2. sets' = [sets EXCEPT ![interface_names] = [state |-> "ready", elems |-> {}]]
      BY <1>5, <3>1 DEF InitSet
    <3> QED
      BY <1>0, <1>5, <2>1, <3>1, <3>2 DEF InitSet, TypeOK, history
  <2>3. Listed' /\ Filled(t)'
    BY <2>2 DEF Listed, Filled
  <2> QED
    BY <1>1, <1>3, <2>2, <2>3 DEF Filling
<1>6. CASE Connect(t) \/ AllocFillCache(t) \/ NameIndex(t)
  <2>1. /\ pc[t] \in {"connect", "allocCache", "nameIndex"}
        /\ pc'[t] = CASE pc[t] = "connect" -> "allocCache"
                      [] pc[t] = "allocCache" -> "nameIndex"
                      [] OTHER -> "fill"
        /\ \A u \in NameProviders \ {t} : pc'[u] = pc[u]
        /\ UNCHANGED <<links, cache, late, interface_names, sets>>
    BY <1>0, <1>6 DEF Connect, AllocFillCache, NameIndex, TypeOK, process, history
  <2>2. Listed'
    BY <1>3, <2>1 DEF Order, Listed, Known, Filling
  <2>3. Filled(t)' /\ (pc'[t] = "fill" => fill'[t] = links)
    BY <1>0, <1>6, <2>1
       DEF Connect, AllocFillCache, NameIndex, TypeOK, Order, Filled
  <2> QED
    BY <1>1, <1>3, <2>1, <2>2, <2>3 DEF Filling
<1>7. ASSUME ConnectExit(t)
      PROVE  Order' /\ faults' # 0
  <2>1. UNCHANGED <<links, process, pc, late>> /\ faults' # 0
    BY <1>0, <1>7 DEF ConnectExit, history, Fault, TypeOK
  <2>2. Alone' /\ Copied' /\ Listed' /\ (~Warm' => late' = {})
    BY <2>1 DEF Order, process, Alone, Copied, Listed, Known, Warm
  <2>3. ASSUME NEW u \in NameProviders PROVE Filled(u)' /\ Answering(u)'
    <3>1. Filled(u)'
      BY <2>1 DEF Order, process, Filled
    <3>2. Answering(u)'
      BY <2>1, AnswerKept DEF Order, process, Known
    <3> QED
      BY <3>1, <3>2
  <2> QED
    BY <2>1, <2>2, <2>3 DEF Order
<1>8. ASSUME AllocFillCacheFails(t)
      PROVE  Order' /\ faults' # 0
  <2>1. interface_names # NULL /\ faults' # 0 /\ pc[t] = "allocCache"
    BY <1>0, <1>8 DEF AllocFillCacheFails, Shape, Filling, Fault, TypeOK
  <2> QED
    BY <1>3, <1>8, <2>1, ReturnOrderly DEF AllocFillCacheFails, Filling, history
<1>9. ASSUME NEW n \in Ifaces, AddName(t, n)
      PROVE  Order' /\ (Complete => Complete')
  <2>1. /\ pc[t] = "fill" /\ UNCHANGED <<links, cache, late, interface_names, pc>>
        /\ fillCache' = fillCache /\ n \in fill[t] /\ fill'[t] = fill[t] \ {n}
    BY <1>0, <1>9 DEF AddName, TypeOK, history
  <2>2. ~Contended(t) /\ late = {} /\ interface_names \in NameProviders
    BY <2>1, FillAlone
  <2>3. sets' = [sets EXCEPT ![interface_names].elems = @ \cup {n}]
    BY <1>9, <2>2 DEF AddName
  <2>4. sets[interface_names] \in NameSet
    BY <1>0, <2>2 DEF TypeOK, NameSet
  <2>5. /\ sets'[interface_names].elems = sets[interface_names].elems \cup {n}
        /\ sets'[interface_names].state = sets[interface_names].state
    BY <1>0, <2>2, <2>3, <2>4 DEF TypeOK, NameSet
  <2>6. n \in links
    BY <2>1 DEF Order, Filled
  <2>7. Listed'
    BY <2>1, <2>2, <2>5, <2>6 DEF Order, Listed, Known
  <2>8. Filled(t)'
    BY <2>1 DEF Order, Filled
  <2>9. Complete => links \subseteq sets'[interface_names].elems \cup fill'[t]
    BY <2>1, <2>5 DEF Complete
  <2> QED
    BY <1>1, <1>3, <2>1, <2>7, <2>8, <2>9 DEF Filling
<1>10. ~AddNameCrash(t) /\ ~AddNameLoops(t)
  BY NoCrash
<1>11. CASE FillDone(t)
  <2>1. interface_names # NULL
    BY <1>0, <1>11 DEF FillDone, Shape, Filling
  <2> QED
    BY <1>3, <1>11, <2>1, ReturnOrderly DEF FillDone, Filling, history
<1> QED
  BY <1>2, <1>4, <1>5, <1>6, <1>7, <1>8, <1>9, <1>10, <1>11 DEF GetInterfaceNames

\* The loop of a handler over the list.
LEMMA LoopOrderly ==
  ASSUME Basics, Order, NEW t \in NameProviders,
         (\E n \in Ifaces : Visit(t, n)) \/ VisitCrash(t) \/ Answer(t)
  PROVE  Order' /\ (Complete => Complete')
<1> USE DEF GoTo
<1>0. TypeOK /\ Shape /\ NameProviders \subseteq Threads
  BY DEF Basics, NameProviders, Threads
<1>1. /\ pc[t] = "iterate" /\ Answering(t) /\ interface_names # NULL
      /\ todo[t] \subseteq cache[t]
  <2>1. pc[t] = "iterate" /\ Answering(t)
    BY DEF Visit, VisitCrash, Answer, Order
  <2>2. todo[t] \subseteq Known /\ Known \subseteq cache[t]
    BY <2>1 DEF Answering, Order, Copied
  <2> QED
    BY <1>0, <2>1, <2>2 DEF Shape
<1>2. ASSUME NEW label \in {"iterate", "idle"}, pc' = [pc EXCEPT ![t] = label],
             UNCHANGED <<links, interface_names, sets, fillCache, fill, late>>,
             label = "iterate" =>
                 /\ Answering(t)' /\ cache'[t] = cache[t]
                 /\ \/ Barren(reply'[t])
                    \/ /\ ~Barren(reply[t])
                       /\ todo'[t] \cup Answered(reply'[t])
                              = todo[t] \cup Answered(reply[t]),
             \A u \in NameProviders \ {t} :
                 /\ cache'[u] = cache[u] /\ names'[u] = names[u] /\ todo'[u] = todo[u]
                 /\ torn'[u] = torn[u] /\ reply'[u] = reply[u]
      PROVE  Order' /\ (Complete => Complete')
  <2>1. /\ pc'[t] = label /\ \A u \in NameProviders \ {t} : pc'[u] = pc[u]
        /\ Known' = Known
    BY <1>0, <1>2 DEF TypeOK, Known
  <2>2. Warm' <=> Warm
    BY <1>1, <1>2, <2>1 DEF Warm, Filling
  <2>3. Alone' /\ Copied' /\ (~Warm' => late' = {})
    BY <1>1, <1>2, <2>1, <2>2 DEF Order, Alone, Copied, Filling
  <2>4. Listed'
    BY <1>1, <1>2, <2>1, <2>2 DEF Order, Listed
  <2>5. ASSUME NEW u \in NameProviders PROVE Filled(u)' /\ Answering(u)'
    <3>1. Filled(u)'
      BY <1>1, <1>2, <2>1 DEF Order, Filled
    <3>2. CASE u # t
      BY <1>2, <2>1, <3>1, <3>2, AnswerKept DEF Order
    <3>3. CASE u = t
      BY <1>2, <2>1, <3>1, <3>3 DEF Answering
    <3> QED
      BY <3>1, <3>2, <3>3
  <2>6. ASSUME Complete PROVE Complete'
    <3>1. ASSUME NEW u \in NameProviders
          PROVE  /\ pc'[u] = "fill" => links \subseteq sets[interface_names].elems \cup fill[u]
                 /\ pc'[u] = "iterate" =>
                        \/ Barren(reply'[u])
                        \/ Known \subseteq todo'[u] \cup Answered(reply'[u])
      BY <1>1, <1>2, <2>1, <2>6 DEF Complete
    <3> QED
      BY <1>2, <2>1, <2>2, <2>6, <3>1 DEF Complete
  <2> QED
    BY <2>3, <2>4, <2>5, <2>6 DEF Order
<1>3. ASSUME NEW n \in Ifaces, Visit(t, n)
      PROVE  Order' /\ (Complete => Complete')
  <2>1. /\ n \in todo[t] /\ todo' = [todo EXCEPT ![t] = @ \ {n}]
        /\ reply' = [reply EXCEPT ![t] = Report(t, @, n)]
        /\ UNCHANGED <<links, interface_names, sets, pc, cache, fillCache, fill, names,
                       torn, late>>
    BY <1>1, <1>3 DEF Visit, Answering, history
  <2>2. /\ todo'[t] = todo[t] \ {n} /\ reply'[t] = Report(t, reply[t], n)
        /\ \A u \in NameProviders \ {t} : todo'[u] = todo[u] /\ reply'[u] = reply[u]
        /\ pc' = [pc EXCEPT ![t] = "iterate"]
    BY <1>0, <1>1, <2>1 DEF TypeOK
  <2>3. /\ reply[t] \in Reply /\ n \in cache[t] \cap Known /\ n \notin Answered(reply[t])
        /\ Distinct(reply[t].entries) /\ Valued(t, reply[t].entries)
        /\ Stated(t, reply[t])
    BY <1>0, <1>1, <2>1 DEF TypeOK, Reply, Entry, Answering
  <2>4. /\ Distinct(reply'[t].entries) /\ Valued(t, reply'[t].entries)
        /\ Stated(t, reply'[t])
        /\ Answered(reply'[t]) \subseteq Answered(reply[t]) \cup {n}
        /\ \/ Barren(reply'[t])
           \/ ~Barren(reply[t]) /\ Answered(reply'[t]) = Answered(reply[t]) \cup {n}
    BY <2>2, <2>3, ReportAnswer
  <2>5. \/ Barren(reply'[t])
        \/ /\ ~Barren(reply[t])
           /\ todo'[t] \cup Answered(reply'[t]) = todo[t] \cup Answered(reply[t])
    BY <2>1, <2>2, <2>4
  <2>6. Answering(t)'
    BY <1>1, <2>1, <2>2, <2>3, <2>4 DEF Answering, Stated, Known
  <2> QED
    BY <1>2, <2>1, <2>2, <2>5, <2>6
<1>4. ~VisitCrash(t)
  BY NoCrash
<1>5. CASE Answer(t)
  <2>1. /\ pc' = [pc EXCEPT ![t] = "idle"]
        /\ UNCHANGED <<links, interface_names, sets, fillCache, fill, late, todo>>
        /\ \A u \in NameProviders \ {t} :
               /\ cache'[u] = cache[u] /\ names'[u] = names[u]
               /\ torn'[u] = torn[u] /\ reply'[u] = reply[u]
    BY <1>0, <1>5 DEF Answer, TypeOK, history
  <2> QED
    BY <1>2, <2>1
<1> QED
  BY <1>3, <1>4, <1>5

\* A port that appears once the list is there changes nothing for the handlers.
LEMMA KernelOrderly ==
  ASSUME Order, Calm', Kernel \/ UNCHANGED vars
  PROVE  Order' /\ (Complete => Complete')
<1>0. UNCHANGED <<process, pc>> /\ Known' = Known /\ Warm' = Warm
      /\ (links' # links => Warm) /\ (~Warm => late' = late)
  <2>1. ASSUME NEW i \in Ifaces, LinkAppears(i)
        PROVE  Warm /\ Known' = Known
    BY <2>1 DEF LinkAppears, Calm, Known
  <2>2. \A i \in Ifaces : ~LinkVanishes(i)
    BY DEF LinkVanishes, Calm
  <2> QED
    BY <2>1, <2>2 DEF Kernel, LinkAppears, vars, history, Known, Warm, process
<1>1. Alone' /\ Copied' /\ Listed' /\ (~Warm' => late' = {})
  BY <1>0 DEF Order, process, Alone, Copied, Listed
<1>2. ASSUME NEW t \in NameProviders PROVE Filled(t)' /\ Answering(t)'
  <2>1. Filled(t)'
    BY <1>0 DEF Order, process, Filled, Warm, Filling
  <2>2. Answering(t)'
    BY <1>0, AnswerKept DEF Order, process
  <2> QED
    BY <2>1, <2>2
<1>3. Complete => Complete'
  BY <1>0 DEF Complete, process, Warm, Filling
<1> QED
  BY <1>1, <1>2, <1>3 DEF Order

\* Nor does it change what the list is, or would be, made of.
LEMMA KnownStays ==
  ASSUME Calm', Kernel
  PROVE  Known' = Known
  BY DEF Calm, Kernel, LinkAppears, LinkVanishes, Known

\* What has disturbed the handlers is not forgotten.
LEMMA CalmPast ==
  ASSUME Basics, [Next]_vars, Calm'
  PROVE  Calm /\ (faults' = 0 => faults = 0)
<1>1. faults \in Nat /\ overlap \in BOOLEAN /\ changed \in BOOLEAN
  BY DEF Basics, TypeOK
<1>2. ASSUME NEW t \in Threads,
             Request(t) \/ ReturnEarly(t) \/ LldpAnswer \/ LldpCrash
      PROVE  Calm /\ (faults' = 0 => faults = 0)
  BY <1>1, <1>2 DEF Request, ReturnEarly, LldpAnswer, LldpCrash, Die, Fault, history,
                    Calm
<1>3. ASSUME NEW t \in NameProviders, NameHandler(t)
      PROVE  Calm /\ (faults' = 0 => faults = 0)
  <2>1. CASE CheckNames(t)
    BY <1>1, <2>1 DEF CheckNames, Calm
  <2>2. CASE AllocCache(t) \/ ConnectExit(t) \/ AllocFillCacheFails(t)
    BY <1>1, <2>2 DEF AllocCache, ConnectExit, AllocFillCacheFails, Fault, history, Calm
  <2>3. ASSUME UNCHANGED <<faults, history>>
        PROVE  Calm /\ (faults' = 0 => faults = 0)
    BY <2>3 DEF history, Calm
  <2> QED
    BY <1>3, <2>1, <2>2, <2>3
       DEF NameHandler, GetInterfaceNames, Malloc, InitSet, Connect, AllocFillCache,
           NameIndex, AddName, AddNameLoops, AddNameCrash, FillDone, Visit, VisitCrash,
           Answer, Die
<1>4. ASSUME Kernel \/ UNCHANGED vars
      PROVE  Calm /\ (faults' = 0 => faults = 0)
  BY <1>1, <1>4 DEF Kernel, LinkAppears, LinkVanishes, vars, history, Calm
<1> QED
  BY <1>2, <1>3, <1>4 DEF Next, Handler

\* A thread without a request takes no step.
LEMMA IdleWaits ==
  ASSUME NEW t \in Threads, pc[t] = "idle"
  PROVE  ~Handler(t)
  BY DEF Handler, ReturnEarly, LldpAnswer, LldpCrash, NameHandler, AllocCache,
         GetInterfaceNames, CheckNames, Malloc, InitSet, Connect, ConnectExit,
         AllocFillCache, AllocFillCacheFails, NameIndex, AddName, AddNameLoops,
         AddNameCrash, FillDone, Visit, VisitCrash, Answer

\* Only get_interface_names() without a socket ends the process, or a neighbour without
\* what the third handler takes for granted.
LEMMA OnlyExitEnds ==
  ASSUME Basics, Order, alive, NEW t \in Threads, Request(t) \/ Handler(t)
  PROVE  alive' \/ ConnectExit(t) \/ flawed'
<1>1. CASE Request(t) \/ ReturnEarly(t) \/ LldpAnswer \/ LldpCrash
  BY <1>1 DEF Request, ReturnEarly, LldpAnswer, LldpCrash
<1>2. CASE t \in NameProviders /\ NameHandler(t)
  BY <1>2, NoCrash DEF NameHandler, AllocCache, GetInterfaceNames, CheckNames, Malloc,
                       InitSet, Connect, AllocFillCache, AllocFillCacheFails, NameIndex,
                       AddName, FillDone, Visit, Answer
<1> QED
  BY <1>1, <1>2 DEF Handler

\* Every step keeps the order among the handlers, until something disturbs them.
LEMMA NextOrderly ==
  ASSUME Basics, Orderly, [Next]_vars
  PROVE  Orderly'
<1>1. ASSUME Calm', Order
      PROVE  Order' /\ (faults' = 0 /\ Complete => Complete')
  BY <1>1, HeadOrderly, NamesOrderly, LoopOrderly, KernelOrderly
     DEF Next, Handler, NameHandler, NameProviders, Threads
<1>2. Calm' => Order'
  BY <1>1, CalmPast DEF Orderly
<1>3. ASSUME Quiet' PROVE Complete' /\ (alive' \/ flawed')
  <2>1. Order /\ Complete /\ faults' = 0 /\ (alive \/ flawed)
    BY <1>3, CalmPast DEF Orderly, Quiet
  <2>2. \A t \in Threads : ~ConnectExit(t)
    BY <2>1 DEF ConnectExit, Fault, Basics, TypeOK
  <2>3. alive' \/ flawed'
    <3>1. CASE Kernel \/ UNCHANGED vars
      BY <2>1, <3>1 DEF Kernel, LinkAppears, LinkVanishes, vars, history
    <3> QED
      BY <2>1, <2>2, <3>1, OnlyExitEnds DEF Next
  <2>4. Calm'
    BY <1>3 DEF Quiet
  <2> QED
    BY <1>1, <2>1, <2>3, <2>4
<1> QED
  BY <1>2, <1>3 DEF Orderly

\* The handlers start in order.
LEMMA InitOrderly == Init => Orderly
  BY DEF Init, Orderly, Order, Complete, Alone, Copied, Listed, Filled, Answering, Warm,
         Filling, NameProviders, Threads

-----------------------------------------------------------------------------
(* Theorems *)

\* The inductive invariant holds in every reachable state.
THEOREM ProvidersInvariance == Spec => [](Basics /\ Orderly)
<1>1. Init => Basics /\ Orderly
  BY InitBasics, InitOrderly
<1>2. Basics /\ Orderly /\ [Next]_vars => (Basics /\ Orderly)'
  BY NextBasics, NextOrderly
<1> QED
  BY <1>1, <1>2, PTL DEF Spec

\* Handlers, shared list and answers have values of their types, whatever the threads
\* do to each other.
THEOREM ProvidersTypeCorrect == Spec => []TypeOK
<1>1. Basics => TypeOK
  BY DEF Basics
<1> QED
  BY <1>1, ProvidersInvariance, PTL

\* The early returns of the handlers leak the context once for each failed call, and
\* nothing else leaks it or releases it twice.
THEOREM ContextBalancedHolds == Spec => []ContextBalanced
<1>1. Basics => ContextBalanced
  BY DEF Basics
<1> QED
  BY <1>1, ProvidersInvariance, PTL

\* Two first requests at once, a port that goes, or one that comes too early, a failed
\* netlink call, or a neighbour lldpd says too little of: nothing else ends a handler,
\* and with it the process.
THEOREM CrashNeedsCauseHolds == Spec => []CrashNeedsCause
<1>1. Basics /\ Orderly => CrashNeedsCause
  BY DEF Basics, TypeOK, Orderly, Quiet, Calm, CrashNeedsCause
<1> QED
  BY <1>1, ProvidersInvariance, PTL

\* An answer whose ports are all different has as many entries as ports.
LEMMA AnswerLength ==
  ASSUME NEW r, r.entries \in Seq(Entry), Distinct(r.entries)
  PROVE  Len(r.entries) = Cardinality(Answered(r))
<1> DEFINE f == [k \in 1..Len(r.entries) |-> r.entries[k].port]
<1>1. f \in Bijection(1..Len(r.entries), Answered(r))
  <2>1. f \in [1..Len(r.entries) -> Answered(r)] /\ DOMAIN f = 1..Len(r.entries)
    BY DEF Answered
  <2>2. IsInjective(f)
    BY DEF Distinct, IsInjective
  <2>3. \A p \in Answered(r) : \E k \in 1..Len(r.entries) : f[k] = p
    BY DEF Answered
  <2> QED
    BY <2>1, <2>2, <2>3 DEF Bijection, Injection, Surjection
<1> QED
  BY <1>1, FS_CountingElements DEF ExistsBijection

\* Every answer has one entry for each port of the list, with the value the loop over
\* the list gives it; or none, when the first port it came to has no state to tell.
THEOREM AnswersCompleteHolds == Spec => []AnswersComplete
<1>1. Basics /\ Orderly => AnswersComplete
  <2>1. SUFFICES ASSUME Basics, Order, Complete, NEW t \in NameProviders,
                        pc[t] = "iterate", todo[t] = {}
                 PROVE  \/ /\ t = "oper-status" /\ reply[t].entries = <<>>
                           /\ Odd \cap Known # {}
                        \/ /\ Answered(reply[t]) = Known
                           /\ Len(reply[t].entries) = Cardinality(Known)
                           /\ Valued(t, reply[t].entries)
    BY DEF AnswersComplete, Orderly, Quiet, Calm, Known, Valued, Named
  <2>2. Answering(t) /\ reply[t].entries \in Seq(Entry)
    BY <2>1 DEF Order, Basics, TypeOK, Entry
  <2>3. CASE Barren(reply[t])
    BY <2>1, <2>2, <2>3 DEF Answering, Stated, Barren
  <2>4. CASE Known \subseteq Answered(reply[t])
    BY <2>1, <2>2, <2>4, AnswerLength DEF Answering
  <2> QED
    BY <2>1, <2>3, <2>4 DEF Complete
<1> QED
  BY <1>1, ProvidersInvariance, PTL

\* A list that is complete is never written again.
THEOREM WarmListHolds == Spec => WarmListIsStable
<1>1. Basics /\ [Next]_vars
        => [Warm => Warm' /\ interface_names' = interface_names /\ sets' = sets]_vars
  BY WarmStep
<1> QED
  BY <1>1, ProvidersInvariance, PTL DEF Spec, WarmListIsStable

=============================================================================
