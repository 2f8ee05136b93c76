------------------------------- MODULE MCLldp -------------------------------
(* Instances of Lldp for TLC: what the neighbours look like. *)
EXTENDS Lldp, TLC

MCChild(tag) == [tag |-> tag, parts |-> 0, auto |-> FALSE, id |-> "none"]
MCPort == [MCChild("port") EXCEPT !.auto = TRUE, !.parts = 2, !.id = "mac"]

MCElement(read) == [rid |-> TRUE, colons |-> 2, children |-> read]

\* A plain neighbour; a switch in two VLANs; one with capabilities whose port id is
\* a short interface name, and one whose port id is a longer one; one without an age;
\* one that announces nothing but itself.
MCElements == {
    MCElement(<<MCChild("pi"), MCChild("chassis"), MCPort>>),
    MCElement(<<MCChild("chassis"), MCPort, MCChild("vlan"), MCChild("vlan"),
                MCChild("ppvid")>>),
    MCElement(<<[MCChild("chassis") EXCEPT !.parts = 2], [MCPort EXCEPT !.id = "short"]>>),
    MCElement(<<MCChild("chassis"), [MCPort EXCEPT !.id = "name"]>>),
    [MCElement(<<MCChild("chassis"), MCPort>>) EXCEPT !.colons = NULL],
    [MCElement(<<MCChild("chassis")>>) EXCEPT !.rid = FALSE]}

\* Nothing tells one port from another.
MCSymmetry == Permutations(Ports)

\* Into the second hour; into the second day.
MCDurations == {3601, 90061}

=============================================================================
