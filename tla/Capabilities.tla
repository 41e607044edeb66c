----------------------------- MODULE Capabilities -----------------------------
(***************************************************************************)
(* GetCapabilities in rp_dispatch_op (src/sp_dispatch.c): the answer of    *)
(* the backend is edited in place so that it advertises the SOAP service.  *)
(* rp_inject_soap_cap20 adds profiles, rp_delete_nonsoap takes out the     *)
(* addresses of the backend if DeleteNonSoapURLs is set, sp_add_soapurl    *)
(* adds the address of the proxy (all in src/sp_wcs20.c).  The searches    *)
(* and edits are those of XmlTree; the address of a Get or a Post is its   *)
(* text, and a text is the class of texts the code tells apart.            *)
(***************************************************************************)
EXTENDS XmlTree

CONSTANT Answers    \* the answers of the backend; one without nodes is NULL

\* SP_WCS_SOAP_EXTENSION, SP_EO_WCS_SOAP_PROFILE and the texts that begin with
\* SP_EO_WCS_PROFILE_ROOT.
SoapExt == "wcs-soap"
EOSoap == "eo-soap"
EOProfiles == {"eo", EOSoap}

\* A Get or a Post.  By the schema it holds constraints, and no other address.
Address(t, n) == n \in DOMAIN t /\ t[n].name \in {"Get", "Post"}

ASSUME AnswersAssumption ==
    \A t \in Answers :
        /\ IsTree(t) /\ Spaced(t)
        /\ \A n \in DOMAIN t : /\ t[n].text # "proxy"
                               /\ Address(t, n) => \A m \in Below(t, n) : ~Address(t, m)

VARIABLES
    pc,         \* the next call of rp_dispatch_op, or how it went on
    answer,     \* what the backend answered
    doc,        \* return_node
    deleting    \* rp_getDeletingNonSoap

vars == <<pc, answer, doc, deleting>>

Init ==
    /\ pc = "inject"
    /\ answer \in Answers
    /\ doc = answer
    /\ deleting \in BOOLEAN

Root(t) == Found(DOMAIN t)

-----------------------------------------------------------------------------
(***************************************************************************)
(* rp_inject_soap_cap20.                                                   *)
(***************************************************************************)
ServiceId(t) ==
    LET cap == FindFlat(t, DOMAIN t \cap {Root(t)}, "Capabilities")
    IN  FindFlat(t, Kids(t, cap), "ServiceIdentification")

Profile(text) == [k \in {0} |-> [name |-> "Profile", text |-> text, end |-> 1]]

\* rp_find_node_with_text passes a missing text on to strncmp: the profile the
\* search ends at is the first that has no text or begins with the root.
EOFound(t, svc) ==
    Found({n \in Named(t, Kids(t, svc), "Profile") : t[n].text \in EOProfiles \cup {NoText}})

Fails(t, svc) == EOFound(t, svc) # None /\ t[EOFound(t, svc)].text = NoText

\* Where ext_node goes: after the first profile, or last.
ExtAt(t, svc) ==
    LET p == FindFlat(t, Kids(t, svc), "Profile")
    IN  IF p = None THEN LastIn(t, svc) ELSE After(t, p)

WithExt(t, svc) == Graft(t, Profile(SoapExt), {ExtAt(t, svc)})
WithEO(t, svc) ==
    LET ext == ExtAt(t, svc)
    IN  Graft(WithExt(t, svc), Profile(EOSoap), {After(WithExt(t, svc), ext)})

\* A slip: the EO profile is added whatever the backend supports.
WithProfiles_always(t, svc) == WithEO(t, svc)

WithProfiles(t, svc) == IF EOFound(t, svc) = None THEN WithExt(t, svc) ELSE WithEO(t, svc)

InjectProfiles ==
    LET svc == ServiceId(doc)
        next == IF deleting THEN "delete" ELSE "add"
    IN  /\ pc = "inject"
        /\ \/ svc = None /\ UNCHANGED doc /\ pc' = next
           \/ svc # None /\ ~Fails(doc, svc) /\ doc' = WithProfiles(doc, svc) /\ pc' = next
           \/ svc # None /\ Fails(doc, svc) /\ UNCHANGED doc /\ pc' = "died"
        /\ UNCHANGED <<answer, deleting>>

-----------------------------------------------------------------------------
(***************************************************************************)
(* rp_delete_nonsoap and sp_add_soapurl: sp_func_at_nodes calls a function *)
(* for each child Operation of OperationsMetadata, each function edits the *)
(* first HTTP element it finds below.  No call looks at what another does, *)
(* so they are made at once.                                               *)
(***************************************************************************)
OperationsMetadata(t) == FindDeep(t, Root(t), "OperationsMetadata")
Operations(t) == Named(t, Kids(t, OperationsMetadata(t)), "Operation")
Http(t, op) == FindDeep(t, op, "HTTP")

\* A slip: HTTP is deleted instead of what it holds.
DeleteNonSoap_http(t, op) == DeleteNamed(t, op, "HTTP")

\* A slip: the Post of the backend is forgotten.
DeleteNonSoap_get(t, op) == DeleteNamed(t, Http(t, op), "Get")

\* f_delete_nonsoap
DeleteNonSoap(t, op) == DeleteNamed(DeleteNamed(t, Http(t, op), "Get"), Http(t, op), "Post")

\* What is left of t when all calls are made.
Deleted(t) == Without(t, {n \in DOMAIN t : \E op \in Operations(t) :
                                              n \notin DOMAIN DeleteNonSoap(t, op)})

DeleteAll ==
    /\ pc = "delete"
    /\ doc' = Deleted(doc)
    /\ pc' = "add"
    /\ UNCHANGED <<answer, deleting>>

\* A Post that holds a Constraint, that holds AllowedValues, that hold a Value.
SoapPost ==
    [k \in 0..3 |->
        [name |-> CASE k = 0 -> "Post" [] k = 1 -> "Constraint"
                    [] k = 2 -> "AllowedValues" [] k = 3 -> "Value",
         text |-> CASE k = 0 -> "proxy" [] k = 1 -> "PostEncoding"
                    [] k = 2 -> NoText [] k = 3 -> "SOAP",
         end |-> 7 - k]]

\* A slip: HTTP is looked for among the children of Operation only.
AddSoapUrl_flat(t, op) == {LastIn(t, h) : h \in {FindFlat(t, Kids(t, op), "HTTP")} \ {None}}

\* f_add_soapurl: where it puts the Post, if anywhere.
AddSoapUrl(t, op) == {LastIn(t, h) : h \in {Http(t, op)} \ {None}}

Added(t) == Graft(t, SoapPost, UNION {AddSoapUrl(t, op) : op \in Operations(t)})

AddAll ==
    /\ pc = "add"
    /\ doc' = Added(doc)
    /\ pc' = "done"
    /\ UNCHANGED <<answer, deleting>>

Next == InjectProfiles \/ DeleteAll \/ AddAll

Spec == Init /\ [][Next]_vars

-----------------------------------------------------------------------------
ProxyPosts(t, op) == {n \in Below(t, op) : t[n].name = "Post" /\ t[n].text = "proxy"}

\* n says that it takes SOAP.
PostEncoding(t, n) ==
    \E c \in Kids(t, n) : \E a \in Kids(t, c) : \E v \in Kids(t, a) :
        /\ t[c].name = "Constraint" /\ t[c].text = "PostEncoding"
        /\ t[a].name = "AllowedValues"
        /\ t[v].name = "Value" /\ t[v].text = "SOAP"

(***************************************************************************)
(* Every operation that can be reached over HTTP advertises the proxy, and *)
(* once: the address is the last entry of its first HTTP element, also     *)
(* when everything else was deleted from it.  Operations without HTTP are  *)
(* left without an address.  No operation comes or goes.                   *)
(***************************************************************************)
OperationsOfferSoap ==
    pc = "done" =>
        /\ Operations(doc) = Operations(answer)
        /\ \A op \in Operations(doc) :
              LET http == Http(answer, op)
              IN  IF http = None THEN ProxyPosts(doc, op) = {}
                  ELSE \E post \in Kids(doc, http) :
                          /\ ProxyPosts(doc, op) = {post}
                          /\ \A k \in Kids(doc, http) : k <= post
                          /\ PostEncoding(doc, post)

\* The addresses of the backend below n.
BackendURLs(t, n, name) == {m \in Below(t, n) : t[m].name = name /\ t[m].text # "proxy"}

\* Op has no more than the "pair of URLs" that the comment on DeleteNonSoapURLs
\* in service/TEMPLATE_services.xml gives each Operation, in one HTTP element.
OnePair(t, op) ==
    \A name \in {"Get", "Post"} :
        LET urls == BackendURLs(t, op, name)
        IN  urls \subseteq Below(t, Http(t, op)) /\ \A m, n \in urls : m = n

(***************************************************************************)
(* With DeleteNonSoapURLs no address of the backend is left in an          *)
(* operation that has one pair of them, however they are ordered and       *)
(* nested; without it all are left.  None is lost from elsewhere than the  *)
(* HTTP element that is edited, and none comes.  (Of more than a pair some *)
(* stay; nothing in the repository says that a backend has them.)          *)
(***************************************************************************)
NonSoapGone ==
    pc = "done" =>
        \A op \in Operations(answer), name \in {"Get", "Post"} :
            LET was == BackendURLs(answer, op, name)
                left == BackendURLs(doc, op, name)
            IN  /\ left \subseteq was
                /\ was \ left \subseteq Below(answer, Http(answer, op))
                /\ ~deleting => left = was
                /\ deleting /\ OnePair(answer, op) => left = {}

(***************************************************************************)
(* Nothing else is lost, added or moved by the edits, at any point between *)
(* them: what is neither a profile nor in an address stays as the backend  *)
(* gave it, and nothing else comes to be.                                  *)
(***************************************************************************)
InAddress(t, n) == \E a \in DOMAIN t : Address(t, a) /\ n \in Whole(t, a)

OthersKept ==
    /\ \A n \in DOMAIN answer : ~InAddress(answer, n) => n \in DOMAIN doc
    /\ \A n \in DOMAIN doc :
          IF n \in DOMAIN answer THEN doc[n] = answer[n]
          ELSE doc[n].name = "Profile" \/ InAddress(doc, n)

(***************************************************************************)
(* The profiles of the backend stay; the SOAP extension is advertised once *)
(* more than by the backend, right after its first profile, and the EO     *)
(* profile for SOAP behind it only where the backend has an EO profile.    *)
(* Without a ServiceIdentification, as in an exception report, none comes. *)
(***************************************************************************)
Profiles(t) == Named(t, Kids(t, ServiceId(t)), "Profile")

ProfilesRight ==
    pc \in {"delete", "add", "done"} =>
        LET was == Profiles(answer)
            new == {n \in DOMAIN doc \ DOMAIN answer : doc[n].name = "Profile"}
            eo == {n \in was : answer[n].text \in EOProfiles}
        IN  IF ServiceId(answer) = None THEN new = {}
            ELSE /\ Profiles(doc) = was \cup new
                 /\ \E ext \in new :
                       /\ doc[ext].text = SoapExt
                       /\ IF eo = {} THEN new = {ext}
                          ELSE \E n \in new : /\ new = {ext, n} /\ ext < n
                                              /\ doc[n].text = EOSoap
                 /\ \A n \in was, m \in new : n < m <=> n = First(was)
=============================================================================
