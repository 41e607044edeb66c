----------------------------- MODULE MCCapabilities -----------------------------
(* Capabilities on the answers of small backends.                          *)
EXTENDS Capabilities, SequencesExt

Element(name, text, kids) == [name |-> name, text |-> text, kids |-> kids]
Leaf(name, text) == Element(name, text, <<>>)

Get == Leaf("Get", "backend")
Post == Leaf("Post", "backend")
Limited == Element("Get", "backend", <<Leaf("Constraint", "v")>>)
HTTP(kids) == Element("HTTP", NoText, kids)
DCP(kids) == Element("DCP", NoText, kids)

\* Addresses in either order, several of them, none, and a second DCP.
OperationKids ==
    {<<DCP(<<HTTP(k)>>)>> : k \in {<<>>, <<Get>>, <<Get, Post>>, <<Post, Limited>>,
                                   <<Get, Post, Post>>}}
    \cup {<<Leaf("Parameter", "v"), DCP(<<HTTP(<<Get>>)>>), DCP(<<HTTP(<<Get, Post>>)>>)>>,
          <<DCP(<<>>)>>}

Operation == {Element("Operation", NoText, k) : k \in OperationKids}

Metadata ==
    {<<>>} \cup {<<Element("OperationsMetadata", NoText, ops \o <<Leaf("Constraint", "v")>>)>>
                    : ops \in BoundedSeq(Operation, 2)}

ServiceKids ==
    BoundedSeq({Leaf("Title", "t"), Leaf("Profile", "core"), Leaf("Profile", "eo"),
                Leaf("Profile", EOSoap), Leaf("Profile", NoText)}, 2)

Identification ==
    {<<>>} \cup {<<Element("ServiceIdentification", NoText, k)>> : k \in ServiceKids}

\* The tree of the elements s, written from a place on.
RECURSIVE Tags(_)
Tags(s) == FoldSeq(LAMBDA e, n : n + 2 + Tags(e.kids), 0, s)

RECURSIVE Written(_, _)
Written(s, from) ==
    IF s = <<>> THEN [n \in {} |-> None]
    ELSE LET e == Head(s)
             end == from + Room * (1 + Tags(e.kids))
         IN  (from :> [name |-> e.name, text |-> e.text, end |-> end])
             @@ Written(e.kids, from + Room) @@ Written(Tail(s), end + Room)

\* An exception report may hold anything but capabilities; NULL is a failure
\* that was already reported.
MCAnswers ==
    {Written(s, Room) : s \in {<<>>, <<Leaf("ExceptionReport", "text")>>}
        \cup {<<Element("Capabilities", NoText, id \o m)>> : id \in Identification, m \in Metadata}}

\* What rp_find_named_node_re finds, calling itself, is what FindDeep says.
ASSUME DeepAssumption ==
    \A t \in MCAnswers : \A name \in {"HTTP", "Get", "Operation", "OperationsMetadata"} :
        \A n \in {Root(t)} \ {None} : FindDeep(t, n, name) = rp_find_named_node_re(t, name)[n]
=================================================================================
