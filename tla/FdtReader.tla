------------------------------ MODULE FdtReader ------------------------------
(***************************************************************************)
(* fdt of scripts/factory_firmware.py reads the properties of a FIT or a   *)
(* device tree, next to what a reader of the boot loader finds in it,      *)
(* which takes the first node of a name and the first property in it.      *)
(***************************************************************************)
EXTENDS Naturals, Sequences, SequencesExt, FiniteSetsExt

CONSTANTS
    Names, Slashed, \* node names; such with a "/": sequences of two of them
    Keys, Values,
    MaxTokens,      \* bound: how long the structure block is
    Absent

(* A name is the sequence of what "/" separates in it; the root's is "". *)
Nameless == ""
Root == <<Nameless>>
NodeNames == {<<n>> : n \in Names} \cup Slashed \cup {Root}

NamesAreSplit == Slashed \subseteq Seq(Names)

VARIABLES
    stack, nodes, props, \* as in the source; a path is its components
    begun,   \* every node of the block, the names on the way to it
    found,   \* every property: its node in begun, key and value
    inside,  \* the nodes the block is in, as places in begun
    tokens,  \* how many were read
    verdict

vars == <<stack, nodes, props, begun, found, inside, tokens, verdict>>

(* "/" + "/".join(...): one component that is empty is the root's path. *)
PathOf(names) ==
    LET parts == FlattenSeq(Tail(names)) IN IF parts = Root THEN <<>> ELSE parts

Reading == verdict = "none" /\ tokens < MaxTokens /\ tokens' = tokens + 1

Reject == verdict' = "reject" /\ UNCHANGED <<stack, nodes, props>>

(* Mutant: a node that comes again adds to the first one. *)
FreshOrMore(name) == Len(name) = 1

(* No "/" in it, the empty name for a root only, and each path once. *)
NodeAllowed(name) ==
    /\ Len(name) = 1
    /\ stack = <<>> => name = Root
    /\ PathOf(Append(stack, name)) \notin nodes

BeginNode ==
    \E name \in NodeNames :
        /\ Reading
        /\ IF NodeAllowed(name)
           THEN /\ stack' = Append(stack, name)
                /\ nodes' = nodes \cup {PathOf(Append(stack, name))}
                /\ UNCHANGED <<props, verdict>>
           ELSE Reject
        /\ begun' = Append(begun, IF inside = <<>> THEN <<name>> ELSE Append(begun[Last(inside)], name))
        /\ inside' = Append(inside, Len(begun) + 1)
        /\ UNCHANGED found

EndNode ==
    /\ Reading
    /\ IF stack # <<>>
       THEN /\ stack' = Front(stack) /\ inside' = Front(inside)
            /\ UNCHANGED <<nodes, props, verdict>>
       ELSE Reject /\ UNCHANGED inside
    /\ UNCHANGED <<begun, found>>

Property ==
    \E key \in Keys, value \in Values :
        /\ Reading
        /\ IF stack # <<>> /\ <<PathOf(stack), key>> \notin DOMAIN props
           THEN /\ props' = [p \in DOMAIN props \cup {<<PathOf(stack), key>>} |->
                                IF p = <<PathOf(stack), key>> THEN value ELSE props[p]]
                /\ found' = Append(found, [node |-> Last(inside), key |-> key, value |-> value])
                /\ UNCHANGED <<stack, nodes, verdict>>
           ELSE Reject /\ UNCHANGED found
        /\ UNCHANGED <<begun, inside>>

(* Mutant: the end of the block is the end, wherever it comes. *)
FinishAnywhere ==
    /\ Reading
    /\ verdict' = "accept" /\ UNCHANGED <<stack, nodes, props>>
    /\ UNCHANGED <<begun, found, inside>>

Finish ==
    /\ Reading
    /\ IF stack = <<>> /\ <<>> \in nodes
       THEN verdict' = "accept" /\ UNCHANGED <<stack, nodes, props>> ELSE Reject
    /\ UNCHANGED <<begun, found, inside>>

(* An unknown token, or the block ends without one. *)
Bad == Reading /\ Reject /\ UNCHANGED <<begun, found, inside>>

Init ==
    /\ stack = <<>> /\ nodes = {} /\ props = <<>>
    /\ begun = <<>> /\ found = <<>> /\ inside = <<>> /\ tokens = 0 /\ verdict = "none"

Next == BeginNode \/ EndNode \/ Property \/ Finish \/ Bad

Spec == Init /\ [][Next]_vars

-----------------------------------------------------------------------------
(* The loader goes from the root down, at each name to the first node of   *)
(* it, and takes the first property of that key.                           *)
Chain(path) == <<Root>> \o [i \in DOMAIN path |-> <<path[i]>>]

FirstNode(path) ==
    LET places == {i \in DOMAIN begun : begun[i] = Chain(path)}
    IN IF places = {} THEN 0 ELSE Min(places)

LoaderReads(path, key) ==
    LET places == {i \in DOMAIN found : found[i].node = FirstNode(path) /\ found[i].key = key}
    IN IF places = {} THEN Absent ELSE found[Min(places)].value

AuditReads(path, key) == IF <<path, key>> \in DOMAIN props THEN props[<<path, key>>] ELSE Absent

Paths == nodes \cup {FlattenSeq(Tail(begun[i])) : i \in DOMAIN begun}

(* What check_fit concludes from the properties holds for the loader: no   *)
(* node or property is shadowed by one of the same name, or hidden in a    *)
(* name that looks like a path (lines 669, 673, 690).                      *)
LoaderReadsTheSame ==
    verdict = "accept" => \A path \in Paths, key \in Keys :
                              LoaderReads(path, key) = AuditReads(path, key)

(* An accepted block is one tree, closed, with nothing outside it.         *)
OneTree ==
    verdict = "accept" =>
        /\ inside = <<>>
        /\ \A i \in DOMAIN begun : begun[i][1] = Root
        /\ Cardinality({i \in DOMAIN begun : Len(begun[i]) = 1}) = 1
=============================================================================
