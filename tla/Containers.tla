----------------------------- MODULE Containers -----------------------------
(***************************************************************************)
(* The containers of src/lib: sets of strings (Sset), maps from strings    *)
(* (Shash), vectors of strings (Svec), linked lists (LinkedList) and       *)
(* dynamic strings (DynString).  They share nothing, so a behaviour uses   *)
(* one of them, and the others stay empty: what holds of all behaviours    *)
(* holds of each container.                                                *)
(***************************************************************************)
EXTENDS Naturals

CONSTANTS
    Strings, StringHash,                \* of Sset, assertions on
    MapNodes, MapHash, NameOf, Data,    \* of Shash
    VecNames, MaxNames,                 \* of Svec
    Elems, ListHeads, POISON,           \* of LinkedList
    Chars, Octal, Pieces, Files,        \* of DynString
    NUL, MaxLength,
    NULL

VARIABLES
    used,                               \* the container in use
    setA, setB, setRet, setAborted, asserted,
    mapA, mapB, data, mapRet, mapAborted,
    vecA, vecB, heap, vecRet,
    mem, lists,
    ds, dsRet, dsAborted

Set == INSTANCE Sset WITH
           Nodes <- Strings, Hash <- StringHash, NDEBUG <- FALSE,
           a <- setA, b <- setB, ret <- setRet, aborted <- setAborted
Map == INSTANCE Shash WITH
           Nodes <- MapNodes, Hash <- MapHash,
           a <- mapA, b <- mapB, ret <- mapRet, aborted <- mapAborted
Vec == INSTANCE Svec WITH Names <- VecNames, a <- vecA, b <- vecB, ret <- vecRet
List == INSTANCE LinkedList WITH Heads <- ListHeads
Str == INSTANCE DynString WITH ret <- dsRet, aborted <- dsAborted

ASSUME ContainersAssumption ==
    /\ Set!HmapAssumption /\ Set!ConstantsOK
    /\ Map!HmapAssumption /\ Map!ConstantsOK
    /\ Vec!ConstantsOK /\ List!ConstantsOK /\ Str!ConstantsOK

setVars == <<setA, setB, setRet, setAborted, asserted>>
mapVars == <<mapA, mapB, data, mapRet, mapAborted>>
vecVars == <<vecA, vecB, heap, vecRet>>
listVars == <<mem, lists>>
dsVars == <<ds, dsRet, dsAborted>>
vars == <<used, setVars, mapVars, vecVars, listVars, dsVars>>

Init ==
    /\ used \in {"sset", "shash", "svec", "list", "ds"}
    /\ Set!Init /\ Map!Init /\ Vec!Init /\ List!Init /\ Str!Init

Next ==
    \/ used = "sset"  /\ Set!Next  /\ UNCHANGED <<used, mapVars, vecVars, listVars, dsVars>>
    \/ used = "shash" /\ Map!Next  /\ UNCHANGED <<used, setVars, vecVars, listVars, dsVars>>
    \/ used = "svec"  /\ Vec!Next  /\ UNCHANGED <<used, setVars, mapVars, listVars, dsVars>>
    \/ used = "list"  /\ List!Next /\ UNCHANGED <<used, setVars, mapVars, vecVars, dsVars>>
    \/ used = "ds"    /\ Str!Next  /\ UNCHANGED <<used, setVars, mapVars, vecVars, listVars>>

Spec == Init /\ [][Next]_vars

-----------------------------------------------------------------------------
(* Properties: each container keeps the promise of its header. *)

\* Hashing, collisions and the growth of the table never show in a set of strings.
ImplementsNameSets == Set!ImplementsNameSets

\* Nor do they in a map, in which a name may be several times.
ImplementsNameMaps == Map!ImplementsNameMaps

\* The vectors are lists of names, their differences those of bags.
ImplementsNameLists == Vec!ImplementsNameLists

\* Each string of a vector is owned by one slot inside its memory.
VectorsOwnStrings == Vec!VectorsOwnStrings

\* Splicing, moving and replacing keep the rings whole in both directions.
RingsAreLists == List!RingsAreLists

\* A dynamic string is the text that was put, terminated, inside its memory.
ImplementsTexts == Str!ImplementsTexts

=============================================================================
