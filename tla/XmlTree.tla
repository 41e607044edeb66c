------------------------------- MODULE XmlTree -------------------------------
(***************************************************************************)
(* The searches and edits of src/sp_util.c on AXIOM trees.  A tree is kept *)
(* the way it is written: an element is the place of its start tag, and is *)
(* mapped to its name, its text and the place of its end tag; what lies    *)
(* between the two is below it.  Places order the nodes as the document    *)
(* does, and an edit moves none of them.  Comments and white space are     *)
(* left out: no search looks at them.  The pointer NULL is the place None. *)
(***************************************************************************)
EXTENDS Integers

None == 0
NoText == ""        \* axiom_element_get_text of an element without text

IsTree(t) ==
    /\ DOMAIN t \subseteq Nat \ {None}
    /\ \A n \in DOMAIN t : t[n].end \in Nat /\ n < t[n].end
    /\ \A m, n \in DOMAIN t : m < n => t[m].end < n \/ t[n].end < t[m].end

\* All nodes below n, and its children.
Below(t, n) == {m \in DOMAIN t : n \in DOMAIN t /\ n < m /\ m < t[n].end}
Kids(t, n) == {m \in Below(t, n) : \A k \in Below(t, n) : m \notin Below(t, k)}

Whole(t, n) == {m \in DOMAIN t : m = n \/ m \in Below(t, n)}

\* strncasecmp(local_name, el_name, strlen(local_name)) = 0: a prefix is enough.
Matches(name, elName) ==
    \/ elName = name
    \/ name = "Operation" /\ elName = "OperationsMetadata"

Named(t, S, name) == {m \in S : Matches(name, t[m].name)}

First(S) == CHOOSE n \in S : \A m \in S : n <= m
Found(S) == IF S = {} THEN None ELSE First(S)

\* rp_find_named_node_nr without a text, on the siblings S.
FindFlat(t, S, name) == Found(Named(t, S, name))

\* rp_find_named_node_re on the children of n: a node is looked at before those
\* below it, and those before its next sibling.
FindDeep(t, n, name) == Found(Named(t, Below(t, n), name))

\* That function as it calls itself: the loop over the children of n, where calls
\* on the children of others return what is in re.
OnKids(t, n, name, re) ==
    LET At(k) == IF Matches(name, t[k].name) THEN k ELSE re[k]
        hits == {k \in Kids(t, n) : At(k) # None}
    IN  IF hits = {} THEN None ELSE At(First(hits))

rp_find_named_node_re(t, name) ==
    LET re[n \in DOMAIN t] == OnKids(t, n, name, re)
    IN  re

Without(t, gone) == [m \in DOMAIN t \ gone |-> t[m]]

\* rp_delete_named_child
DeleteNamed(t, n, name) == Without(t, Whole(t, FindDeep(t, n, name)))

-----------------------------------------------------------------------------
(***************************************************************************)
(* New nodes are written between the tags of the backend, which leave room *)
(* for them.                                                               *)
(***************************************************************************)
Room == 20

Apart(x, y) == x < y => x + Room <= y

Spaced(t) ==
    \A m, n \in DOMAIN t : /\ Apart(m, n) /\ Apart(m, t[n].end)
                           /\ Apart(t[m].end, n) /\ Apart(t[m].end, t[n].end)

\* Where rp_add_child and rp_add_sibbling put a node.
LastIn(t, n) == t[n].end - 9
After(t, n) == t[n].end + 1

Moved(node, at) == [name |-> node.name, text |-> node.text, end |-> node.end + at]

\* t, and the small tree s at each of the places in ats.
Graft(t, s, ats) ==
    [m \in DOMAIN t \cup {at + k : at \in ats, k \in DOMAIN s} |->
        IF m \in DOMAIN t THEN t[m]
        ELSE LET at == CHOOSE x \in ats : m - x \in DOMAIN s
             IN  Moved(s[m - at], at)]
=============================================================================
