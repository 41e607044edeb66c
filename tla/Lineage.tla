-------------------------------- MODULE Lineage --------------------------------
(***************************************************************************)
(* GetCoverage in rp_dispatch_op (src/sp_dispatch.c): the time is read,    *)
(* the backend answers, and sp_update_lineage (src/sp_wcs20.c) replaces    *)
(* the lineage that the backend has just added to EOMetadata by one that   *)
(* holds the request as it came over SOAP.  The latest lineage is found by *)
(* sp_latest_named (src/sp_util.c); its date is a text, compared as a text *)
(* and then read by sp_parse_time_str (src/sp_time_util.c).                *)
(*                                                                         *)
(* EOMetadata is the sequence of its child nodes: lineages, white space    *)
(* and other elements.  Time is counted in seconds, as time(2) does.       *)
(***************************************************************************)
EXTENDS Integers, Sequences, SequencesExt

CONSTANTS
    MaxTime,    \* the clock stops there (a bound)
    Sent(_)     \* what the backend may send at a time

\* How a date may be written.  "Z": no fraction, UTC; "frac": a fraction;
\* "fracZ": one that is the code of the letter z or Z; "zone": an offset;
\* "none": not at all.
Forms == {"none", "zone", "frac", "fracZ", "Z"}

VARIABLES
    pc,         \* where sp_update_lineage is, or how it ended
    clock,      \* time(NULL)
    start,      \* request_time
    answer,     \* EOMetadata as the backend sent it
    eom,        \* EOMetadata; NoEOM if there is none
    request,    \* TRUE: GetCoverage is in the request
    latest,     \* where curr_lineage is in eom; 0 is NULL
    parsed,     \* lineage_time
    space       \* where eom_whsp_node is in eom; 0 is NULL

found == <<latest, parsed, space>>
vars == <<pc, clock, start, answer, eom, request, found>>

-----------------------------------------------------------------------------
(***************************************************************************)
(* Nodes.  "in" is the white space before a lineage and before its closing *)
(* tag, "out" the one before the closing tag of EOMetadata; "none" is no   *)
(* white space.                                                            *)
(***************************************************************************)
Text(sec, form) == [sec |-> sec, form |-> form]
NoDate == Text(0, "Z")

Node(kind, by, date, end) == [kind |-> kind, by |-> by, date |-> date, end |-> end]

Space(w) == Node("space", "none", NoDate, w)
Lineage(by, date, end) == Node("lineage", by, date, end)
Other == Node("other", "none", NoDate, "none")
NoEOM == <<Node("none", "none", NoDate, "none")>>

Nodes ==
    [kind : {"space", "lineage", "other", "none"},
     by : {"none", "coverage", "backend", "proxy"},
     date : [sec : Int, form : Forms],
     end : {"none", "in", "out"}]

ASSUME MaxTimeAssumption == MaxTime \in Nat
\* The lineage that the backend writes for the request.
Own(n) == n.kind = "lineage" /\ n.by = "backend"

\* The backend adds one lineage at most, and knows nothing of the proxy.
ASSUME SentAssumption ==
    \A now \in 1..MaxTime : \A s \in Sent(now) :
        /\ s \in Seq(Nodes)
        /\ \A i \in DOMAIN s : s[i].by # "proxy"
        /\ \A i, j \in DOMAIN s : Own(s[i]) /\ Own(s[j]) => i = j

TypeOK ==
    /\ pc \in {"backend", "find", "delete", "add", "close", "done", "died"}
    /\ clock \in 1..MaxTime /\ start \in 1..MaxTime
    /\ answer \in Seq(Nodes) /\ eom \in Seq(Nodes)
    /\ request \in BOOLEAN
    /\ latest \in 0..Len(eom) /\ space \in 0..Len(eom)
    /\ parsed \in Int

Init ==
    /\ pc = "backend"
    /\ clock \in 1..MaxTime /\ start = clock
    /\ answer = NoEOM /\ eom = NoEOM
    /\ request = TRUE
    /\ latest = 0 /\ parsed = 0 /\ space = 0

Tick ==
    /\ clock < MaxTime
    /\ clock' = clock + 1
    /\ UNCHANGED <<pc, start, answer, eom, request, found>>

Answer ==
    /\ pc = "backend"
    /\ eom' \in {NoEOM} \cup Sent(clock)
    /\ answer' = eom'
    /\ pc' = "find"
    /\ UNCHANGED <<clock, start, request, found>>

-----------------------------------------------------------------------------
(***************************************************************************)
(* sp_latest_named and sp_parse_time_str.                                  *)
(***************************************************************************)

\* strncmp of two dates: they have the same width up to the seconds, then come
\* '+', '.' and a digit, '.' and a larger one, 'Z'.
Rank == [zone |-> 1, frac |-> 2, fracZ |-> 3, Z |-> 4]

Earlier(a, b) == a.sec < b.sec \/ (a.sec = b.sec /\ Rank[a.form] < Rank[b.form])

IsLineage(n) == n.kind = "lineage"
Undated(n) == IsLineage(n) /\ n.date.form = "none"

\* The first of the lineages that no other is later than; 0 if there is none.
Latest(s) ==
    LET ls == {i \in DOMAIN s : IsLineage(s[i])}
    IN  IF ls = {} THEN {0}
        ELSE {i \in ls : \A j \in ls \ {i} :
                /\ ~Earlier(s[i].date, s[j].date)
                /\ j < i => Earlier(s[j].date, s[i].date)}

\* sp_parse_time_str: 0 where it fails.  After a dot an int is read into the
\* char tz and what may follow: the test of tz fails for most fractions; for
\* one that reads as Z the broken-down time may have been overwritten.
Parsed(date) ==
    CASE date.form = "Z" -> {date.sec}
      [] date.form = "fracZ" -> {0, date.sec}
      [] OTHER -> {0}

\* sp_get_last_text_node; 0 if there is none.
LastSpace(s) ==
    LET texts == {i \in DOMAIN s : s[i].kind = "space"}
    IN  IF texts = {} THEN {0} ELSE {i \in texts : \A j \in texts : j <= i}

\* curr_whspace is a copy of lin_whsp_str; strncpy of NULL ends the process.
HasSpace(s, i) == i # 0 /\ s[i].end # "none"

NoMetadata ==
    /\ pc = "find" /\ eom = NoEOM
    /\ pc' = "done"
    /\ UNCHANGED <<clock, start, answer, eom, request, found>>

\* The missing text of a timePosition is passed on to strncmp.
FindUndated ==
    /\ pc = "find" /\ \E i \in DOMAIN eom : Undated(eom[i])
    /\ pc' = "died"
    /\ UNCHANGED <<clock, start, answer, eom, request, found>>

FindLatest ==
    /\ pc = "find" /\ eom # NoEOM /\ \A i \in DOMAIN eom : ~Undated(eom[i])
    /\ latest' \in Latest(eom)
    /\ parsed' \in IF latest' = 0 THEN {0} ELSE Parsed(eom[latest'].date)
    /\ space' \in LastSpace(eom)
    /\ pc' = IF HasSpace(eom, latest') THEN "delete" ELSE "died"
    /\ UNCHANGED <<clock, start, answer, eom, request>>

-----------------------------------------------------------------------------
(***************************************************************************)
(* The old lineage goes, the new one is added at the end.                  *)
(***************************************************************************)

\* Slips: the date is not looked at; the second of the request is left out.
Recent_any == TRUE
Recent_after == parsed > start

\* OK to delete lineage
Recent == parsed >= start

\* A slip: curr_lineage keeps pointing to what was freed.
DeleteOwn_dangling ==
    /\ pc = "delete" /\ Recent
    /\ eom' = RemoveAt(eom, latest)
    /\ space' = IF latest < space THEN space - 1 ELSE space
    /\ pc' = "add"
    /\ UNCHANGED <<clock, start, answer, request, latest, parsed>>

DeleteOwn ==
    /\ pc = "delete" /\ Recent
    /\ eom' = RemoveAt(eom, latest)
    /\ space' = IF latest < space THEN space - 1 ELSE space
    /\ latest' = 0
    /\ pc' = "add"
    /\ UNCHANGED <<clock, start, answer, request, parsed>>

KeepOld ==
    /\ pc = "delete" /\ ~Recent
    /\ eom' = Append(eom, Space(eom[latest].end))
    /\ pc' = "add"
    /\ UNCHANGED <<clock, start, answer, request, found>>

\* A slip: GetCoverage is attached and stays in the request.
AddLineage_shared ==
    /\ pc = "add"
    /\ eom' = Append(eom, Lineage("proxy", Text(clock, "Z"), "in"))
    /\ pc' = "close"
    /\ UNCHANGED <<clock, start, answer, request, found>>

\* The new lineage with the request and the time of day, and its own closing
\* white space; GetCoverage is detached from the request.
AddLineage ==
    /\ pc = "add"
    /\ eom' = Append(eom, Lineage("proxy", Text(clock, "Z"), "in"))
    /\ request' = FALSE
    /\ pc' = "close"
    /\ UNCHANGED <<clock, start, answer, found>>

\* A slip: the white space before the old closing tag stays.
CloseMetadata_keep ==
    /\ pc = "close"
    /\ eom' = IF space = 0 THEN eom ELSE Append(eom, eom[space])
    /\ space' = 0
    /\ pc' = "done"
    /\ UNCHANGED <<clock, start, answer, request, latest, parsed>>

\* eom_whsp_str is repeated at the end and eom_whsp_node taken out.
CloseMetadata ==
    /\ pc = "close"
    /\ eom' = IF space = 0 THEN eom ELSE RemoveAt(Append(eom, eom[space]), space)
    /\ space' = 0
    /\ pc' = "done"
    /\ UNCHANGED <<clock, start, answer, request, latest, parsed>>

Next ==
    \/ Tick
    \/ Answer
    \/ NoMetadata \/ FindUndated \/ FindLatest
    \/ DeleteOwn \/ KeepOld
    \/ AddLineage \/ CloseMetadata

Spec == Init /\ [][Next]_vars
-----------------------------------------------------------------------------
\* A lineage that the request found there: not the proxy's, dated before t.
IsOld(n, t) == IsLineage(n) /\ n.by # "proxy" /\ n.date.sec < t

Old(s, t) == {i \in DOMAIN s : IsOld(s[i], t)}

\* s and u hold the same lineages from before t, in the same order.
SameHistory(s, u, t) ==
    \E at \in [Old(s, t) -> Old(u, t)] :
        /\ \A k \in Old(u, t) : \E i \in Old(s, t) : at[i] = k
        /\ \A i \in Old(s, t) : u[at[i]] = s[i]
        /\ \A i, j \in Old(s, t) : i < j => at[i] < at[j]

(***************************************************************************)
(* The history of a coverage is never rewritten: lineages dated before the *)
(* second in which the request came are all still there, in their order,   *)
(* at every step, however their dates are written and whatever the         *)
(* backend's clock says.                                                   *)
(***************************************************************************)
HistoryKept == SameHistory(answer, eom, start)

(***************************************************************************)
(* The lineage that the backend wrote for this request is gone when the    *)
(* new one is there, if its date is one that sp_parse_time_str reads, not  *)
(* before the request, and later than the dates of the coverage: the       *)
(* answer then holds one account of the request.                           *)
(***************************************************************************)
Replaceable(s, i) ==
    /\ Own(s[i])
    /\ s[i].date.form = "Z" /\ s[i].date.sec >= start
    /\ \A j \in DOMAIN s : IsLineage(s[j]) /\ j # i => Earlier(s[j].date, s[i].date)

OwnReplaced ==
    pc = "done" /\ (\E i \in DOMAIN answer : Replaceable(answer, i)) =>
        \A i \in DOMAIN eom : ~Own(eom[i])

(***************************************************************************)
(* GetCoverage has one parent: it is in the request until exactly one      *)
(* lineage of the answer holds it, also when the answer has no EOMetadata  *)
(* or the update ends half-way.                                            *)
(***************************************************************************)
Holders == {i \in DOMAIN eom : eom[i].by = "proxy"}

RequestOnce ==
    \/ request /\ Holders = {}
    \/ ~request /\ \E i \in DOMAIN eom : Holders = {i}

\* The white space of EOMetadata, and the last of it.
Gaps(s) == {i \in DOMAIN s : s[i].kind = "space"}
LastGap(s, g) == g \in Gaps(s) /\ \A i \in Gaps(s) : i <= g

(***************************************************************************)
(* The new lineage is the last element of EOMetadata, dated between the    *)
(* request and now, and the indentation is that of a lineage the backend   *)
(* might have written: deleting one and adding one leaves the white space  *)
(* as it was, adding one adds one line, and the last line ends as it did.  *)
(***************************************************************************)
Closed ==
    /\ \E k \in Holders : /\ eom[k].date.sec \in start..clock
                          /\ \A i \in DOMAIN eom : i > k => eom[i].kind = "space"
    /\ \A g \in DOMAIN answer : LastGap(answer, g) =>
          LET lines == Cardinality(Gaps(eom)) - Cardinality(Gaps(answer))
          IN  /\ eom[Len(eom)] = answer[g]
              /\ lines \in {0, 1}
              /\ Len(eom) - Len(answer) = 2 * lines

ClosedRight == pc = "done" /\ eom # NoEOM => Closed

(***************************************************************************)
(* "Add a new lineage", says the comment of sp_update_lineage, and the     *)
(* tests of curr_lineage and lin_whsp_str for NULL around it provide for a *)
(* coverage without one: an update of EOMetadata ends with a new lineage.  *)
(***************************************************************************)
LineageAdded == pc \in {"done", "died"} /\ eom # NoEOM => Holders # {}
=============================================================================
