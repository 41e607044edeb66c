---------------------------- MODULE LineageProofs ----------------------------
(***************************************************************************)
(* Lineage is well typed, GetCoverage has one parent, and no lineage older *)
(* than the request is lost, whatever the backend may send and however     *)
(* long the clock runs.                                                    *)
(***************************************************************************)
EXTENDS Lineage, SequenceTheorems, FiniteSetTheorems, TLAPS

(***************************************************************************)
(* What makes the steps right: the pointers point to what their names say, *)
(* curr_lineage is the node that lineage_time was read from, and a node    *)
(* that holds the request is a lineage.                                    *)
(***************************************************************************)
PointersRight ==
    /\ pc \in {"find", "backend"} => latest = 0 /\ space = 0
    /\ pc = "delete" =>
        /\ latest # 0
        /\ IsLineage(eom[latest])
        /\ parsed \in Parsed(eom[latest].date)
    /\ space # 0 => eom[space].kind = "space"

HoldersRight ==
    /\ pc \in {"backend", "find", "delete", "add"} => request
    /\ \A i \in DOMAIN eom : eom[i].by = "proxy" => IsLineage(eom[i])

IInv == TypeOK /\ PointersRight /\ HoldersRight /\ RequestOnce /\ HistoryKept

-----------------------------------------------------------------------------
(***************************************************************************)
(* Appending to a sequence and taking an element out of it.                *)
(***************************************************************************)
LEMMA AppendLemma ==
    ASSUME NEW S, NEW s \in Seq(S), NEW e \in S
    PROVE  /\ Append(s, e) \in Seq(S)
           /\ Len(Append(s, e)) = Len(s) + 1
           /\ DOMAIN Append(s, e) = 1..(Len(s) + 1)
           /\ \A i \in 1..Len(s) : Append(s, e)[i] = s[i]
           /\ Append(s, e)[Len(s) + 1] = e
  OBVIOUS

LEMMA RemoveAtLemma ==
    ASSUME NEW S, NEW s \in Seq(S), NEW k \in 1..Len(s)
    PROVE  /\ RemoveAt(s, k) \in Seq(S)
           /\ Len(RemoveAt(s, k)) = Len(s) - 1
           /\ DOMAIN RemoveAt(s, k) = 1..(Len(s) - 1)
           /\ \A i \in 1..(k - 1) : RemoveAt(s, k)[i] = s[i]
           /\ \A i \in k..(Len(s) - 1) : RemoveAt(s, k)[i] = s[i + 1]
<1> DEFINE a == SubSeq(s, 1, k - 1)
           b == SubSeq(s, k + 1, Len(s))
<1>1. a \in Seq(S) /\ Len(a) = k - 1 /\ \A i \in 1..(k - 1) : a[i] = s[i]
  OBVIOUS
<1>2. /\ b \in Seq(S) /\ Len(b) = Len(s) - k
      /\ \A i \in 1..(Len(s) - k) : b[i] = s[i + k]
  OBVIOUS
<1>3. RemoveAt(s, k) = a \o b
  BY DEF RemoveAt
<1> HIDE DEF a, b
<1>4. /\ a \o b \in Seq(S) /\ Len(a \o b) = (k - 1) + (Len(s) - k)
      /\ \A i \in 1..((k - 1) + (Len(s) - k)) :
            (a \o b)[i] = IF i <= k - 1 THEN a[i] ELSE b[i - (k - 1)]
  <2>1. /\ a \o b \in Seq(S) /\ Len(a \o b) = Len(a) + Len(b)
        /\ \A i \in 1..(Len(a) + Len(b)) :
              (a \o b)[i] = IF i <= Len(a) THEN a[i] ELSE b[i - Len(a)]
    <3>1. a \in Seq(S) /\ b \in Seq(S)
      BY <1>1, <1>2
    <3> QED
      BY ONLY <3>1, ConcatProperties, Zenon
  <2> QED
    BY <1>1, <1>2, <2>1
<1>5. (k - 1) + (Len(s) - k) = Len(s) - 1
  OBVIOUS
<1>6. \A i \in 1..(k - 1) : (a \o b)[i] = s[i]
  BY <1>1, <1>4
<1>7. \A i \in k..(Len(s) - 1) : (a \o b)[i] = s[i + 1]
  BY <1>2, <1>4
<1>8. DOMAIN (a \o b) = 1..(Len(s) - 1)
  BY <1>4, <1>5, LenProperties
<1> QED
  BY <1>3, <1>4, <1>5, <1>6, <1>7, <1>8

\* What is left after an element was taken out was there, and everything but
\* that element is left.
LEMMA RemoveAtElements ==
    ASSUME NEW S, NEW s \in Seq(S), NEW k \in 1..Len(s)
    PROVE  /\ \A i \in DOMAIN RemoveAt(s, k) :
                RemoveAt(s, k)[i] = s[IF i < k THEN i ELSE i + 1]
           /\ \A j \in DOMAIN s : j # k =>
                /\ (IF j < k THEN j ELSE j - 1) \in DOMAIN RemoveAt(s, k)
                /\ RemoveAt(s, k)[IF j < k THEN j ELSE j - 1] = s[j]
<1> DEFINE r == RemoveAt(s, k)
<1>1. /\ DOMAIN r = 1..(Len(s) - 1) /\ Len(s) \in Nat /\ DOMAIN s = 1..Len(s)
      /\ \A i \in 1..(k - 1) : r[i] = s[i]
      /\ \A i \in k..(Len(s) - 1) : r[i] = s[i + 1]
  BY RemoveAtLemma, LenProperties
<1> HIDE DEF r
<1>2. ASSUME NEW i \in DOMAIN r
      PROVE  r[i] = s[IF i < k THEN i ELSE i + 1]
  <2>1. CASE i < k
    BY <1>1, <2>1
  <2>2. CASE ~(i < k)
    BY <1>1, <2>2
  <2> QED
    BY <2>1, <2>2
<1>3. ASSUME NEW j \in DOMAIN s, j # k
      PROVE  /\ (IF j < k THEN j ELSE j - 1) \in DOMAIN r
             /\ r[IF j < k THEN j ELSE j - 1] = s[j]
  <2>1. CASE j < k
    BY <1>1, <2>1
  <2>2. CASE ~(j < k)
    <3>1. j - 1 \in k..(Len(s) - 1) /\ (j - 1) + 1 = j
      BY <1>1, <1>3, <2>2
    <3> QED
      BY <1>1, <3>1, <2>2
  <2> QED
    BY <2>1, <2>2
<1> QED
  BY <1>2, <1>3 DEF r

-----------------------------------------------------------------------------
(***************************************************************************)
(* The same history: of a list and itself, of a list and one that differs  *)
(* by a node that is not an old lineage.                                   *)
(***************************************************************************)
LEMMA SameAsItself ==
    ASSUME NEW s, NEW t PROVE SameHistory(s, s, t)
<1> DEFINE at == [i \in Old(s, t) |-> i]
<1>1. at \in [Old(s, t) -> Old(s, t)]
  OBVIOUS
<1>2. \A k \in Old(s, t) : at[k] = k
  OBVIOUS
<1>3. \A k \in Old(s, t) : \E i \in Old(s, t) : at[i] = k
  BY <1>2
<1>4. \A i \in Old(s, t) : s[at[i]] = s[i]
  BY <1>2
<1>5. \A i, j \in Old(s, t) : i < j => at[i] < at[j]
  BY <1>2
<1> HIDE DEF at
<1> QED
  BY <1>1, <1>3, <1>4, <1>5 DEF SameHistory

LEMMA SameMoved ==
    ASSUME NEW s, NEW u, NEW v, NEW t, SameHistory(s, u, t),
           NEW to \in [Old(u, t) -> Old(v, t)],
           \A k \in Old(v, t) : \E i \in Old(u, t) : to[i] = k,
           \A i \in Old(u, t) : v[to[i]] = u[i],
           \A i, j \in Old(u, t) : i < j => to[i] < to[j]
    PROVE  SameHistory(s, v, t)
<1>1. PICK at \in [Old(s, t) -> Old(u, t)] :
        /\ \A k \in Old(u, t) : \E i \in Old(s, t) : at[i] = k
        /\ \A i \in Old(s, t) : u[at[i]] = s[i]
        /\ \A i, j \in Old(s, t) : i < j => at[i] < at[j]
  BY DEF SameHistory
<1> DEFINE both == [i \in Old(s, t) |-> to[at[i]]]
<1>2. both \in [Old(s, t) -> Old(v, t)]
  BY <1>1
<1>3. \A i \in Old(s, t) : both[i] = to[at[i]] /\ at[i] \in Old(u, t)
  BY <1>1
<1> HIDE DEF both
<1>4. \A k \in Old(v, t) : \E i \in Old(s, t) : both[i] = k
  <2> TAKE k \in Old(v, t)
  <2>1. PICK m \in Old(u, t) : to[m] = k
    OBVIOUS
  <2>2. PICK i \in Old(s, t) : at[i] = m
    BY <1>1
  <2> QED
    BY <1>3, <2>1, <2>2
<1>5. \A i \in Old(s, t) : v[both[i]] = s[i]
  BY <1>1, <1>3
<1>6. \A i, j \in Old(s, t) : i < j => both[i] < both[j]
  BY <1>1, <1>3
<1> QED
  BY <1>2, <1>4, <1>5, <1>6 DEF SameHistory

LEMMA SameAppended ==
    ASSUME NEW s, NEW t, NEW u \in Seq(Nodes), SameHistory(s, u, t),
           NEW e \in Nodes, ~IsOld(e, t)
    PROVE  SameHistory(s, Append(u, e), t)
<1> DEFINE v == Append(u, e)
           to == [i \in Old(u, t) |-> i]
<1>1. /\ DOMAIN u = 1..Len(u) /\ Len(u) \in Nat
      /\ DOMAIN v = 1..(Len(u) + 1) /\ v[Len(u) + 1] = e
      /\ \A i \in 1..Len(u) : v[i] = u[i]
  BY AppendLemma, LenProperties
<1> HIDE DEF v
<1>2. \A i : i \in Old(u, t) <=> i \in Old(v, t)
  BY <1>1 DEF Old
<1>3. to \in [Old(u, t) -> Old(v, t)] /\ \A i \in Old(u, t) : to[i] = i /\ v[i] = u[i]
  BY <1>1, <1>2 DEF Old
<1> HIDE DEF to
<1>4. /\ \A k \in Old(v, t) : \E i \in Old(u, t) : to[i] = k
      /\ \A i \in Old(u, t) : v[to[i]] = u[i]
      /\ \A i, j \in Old(u, t) : i < j => to[i] < to[j]
  BY <1>2, <1>3
<1>5. SameHistory(s, v, t)
  BY <1>3, <1>4, SameMoved
<1> QED
  BY <1>5 DEF v

LEMMA SameRemoved ==
    ASSUME NEW s, NEW t, NEW u \in Seq(Nodes), SameHistory(s, u, t),
           NEW k \in 1..Len(u), ~IsOld(u[k], t)
    PROVE  SameHistory(s, RemoveAt(u, k), t)
<1> DEFINE v == RemoveAt(u, k)
           to == [i \in Old(u, t) |-> IF i < k THEN i ELSE i - 1]
<1>1. /\ DOMAIN u = 1..Len(u) /\ Len(u) \in Nat /\ DOMAIN v = 1..(Len(u) - 1)
      /\ \A i \in DOMAIN v : v[i] = u[IF i < k THEN i ELSE i + 1]
      /\ \A j \in DOMAIN u : j # k =>
            /\ (IF j < k THEN j ELSE j - 1) \in DOMAIN v
            /\ v[IF j < k THEN j ELSE j - 1] = u[j]
  BY RemoveAtLemma, RemoveAtElements, LenProperties
<1> HIDE DEF v
<1>2. \A i \in Old(u, t) : i \in 1..Len(u) /\ i # k /\ IsOld(u[i], t)
  BY <1>1 DEF Old
<1>3. \A i \in Old(u, t) : (IF i < k THEN i ELSE i - 1) \in Old(v, t)
  BY <1>1, <1>2 DEF Old
<1>4. to \in [Old(u, t) -> Old(v, t)]
      /\ \A i \in Old(u, t) : to[i] = IF i < k THEN i ELSE i - 1
  BY <1>3
<1> HIDE DEF to
<1>5. \A i \in Old(u, t) : v[to[i]] = u[i]
  BY <1>1, <1>2, <1>4
<1>6. \A i, j \in Old(u, t) : i < j => to[i] < to[j]
  BY <1>2, <1>4
<1>7. \A m \in Old(v, t) : \E i \in Old(u, t) : to[i] = m
  <2> TAKE m \in Old(v, t)
  <2> DEFINE i == IF m < k THEN m ELSE m + 1
  <2>1. m \in 1..(Len(u) - 1) /\ IsOld(v[m], t) /\ v[m] = u[i]
    BY <1>1 DEF Old
  <2>2. i \in 1..Len(u) /\ (IF i < k THEN i ELSE i - 1) = m
    BY <1>1, <2>1
  <2> HIDE DEF i
  <2>3. i \in Old(u, t)
    BY <1>1, <2>1, <2>2 DEF Old
  <2> QED
    BY <1>4, <2>2, <2>3
<1>8. SameHistory(s, v, t)
  BY <1>4, <1>5, <1>6, <1>7, SameMoved
<1> QED
  BY <1>8 DEF v

-----------------------------------------------------------------------------
(***************************************************************************)
(* The nodes the code makes are nodes.                                     *)
(***************************************************************************)
LEMMA NodeMade ==
    ASSUME NEW k \in {"space", "lineage", "other", "none"},
           NEW b \in {"none", "coverage", "backend", "proxy"},
           NEW t \in Int, NEW f \in Forms, NEW w \in {"none", "in", "out"}
    PROVE  /\ Node(k, b, Text(t, f), w) \in Nodes
           /\ Node(k, b, Text(t, f), w).kind = k
           /\ Node(k, b, Text(t, f), w).by = b
<1>1. Text(t, f) \in [sec : Int, form : Forms]
  BY DEF Text
<1> HIDE DEF Text
<1> QED
  BY <1>1 DEF Node, Nodes

LEMMA ZIsForm == "Z" \in Forms
  BY DEF Forms

LEMMA SpaceMade ==
    ASSUME NEW w \in {"none", "in", "out"}
    PROVE  Space(w) \in Nodes /\ Space(w).kind = "space" /\ Space(w).by = "none"
<1>1. Space(w) = Node("space", "none", Text(0, "Z"), w)
  BY DEF Space, NoDate
<1>2. 0 \in Int
  OBVIOUS
<1> QED
  BY <1>1, <1>2, NodeMade, ZIsForm

LEMMA LineageMade ==
    ASSUME NEW t \in Int
    PROVE  /\ Lineage("proxy", Text(t, "Z"), "in") \in Nodes
           /\ Lineage("proxy", Text(t, "Z"), "in").by = "proxy"
           /\ IsLineage(Lineage("proxy", Text(t, "Z"), "in"))
  BY NodeMade, ZIsForm DEF Lineage, IsLineage

LEMMA NoEOMMade ==
    /\ NoEOM \in Seq(Nodes) /\ Len(NoEOM) = 1
    /\ \A i \in DOMAIN NoEOM : NoEOM[i].by = "none"
<1> DEFINE n == Node("none", "none", NoDate, "none")
<1>1. n \in Nodes /\ n.by = "none"
  <2>1. 0 \in Int
    OBVIOUS
  <2> QED
    BY <2>1, NodeMade, ZIsForm DEF NoDate
<1>2. NoEOM = <<n>>
  BY DEF NoEOM
<1> HIDE DEF n
<1>3. <<n>> \in Seq(Nodes)
  BY <1>1
<1>4. Len(<<n>>) = 1
  OBVIOUS
<1>5. \A i \in DOMAIN <<n>> : <<n>>[i].by = "none"
  <2>1. \A i \in DOMAIN <<n>> : i = 1
    OBVIOUS
  <2>2. <<n>>[1] = n
    OBVIOUS
  <2> QED
    BY <1>1, <2>1, <2>2
<1> QED
  BY <1>2, <1>3, <1>4, <1>5, Zenon

LEMMA NodeFields ==
    ASSUME NEW n \in Nodes
    PROVE  n.date.sec \in Int /\ n.end \in {"none", "in", "out"}
  BY DEF Nodes

\* A date counts as 0 or as what it says.
LEMMA ParsedLemma ==
    ASSUME NEW n \in Nodes, NEW t \in Parsed(n.date)
    PROVE  t \in Int /\ (t = 0 \/ t = n.date.sec)
<1>1. n.date.sec \in Int
  BY NodeFields
<1>2. CASE n.date.form = "Z"
  BY <1>1, <1>2 DEF Parsed
<1>3. CASE n.date.form = "fracZ"
  BY <1>1, <1>3 DEF Parsed
<1>4. CASE n.date.form # "Z" /\ n.date.form # "fracZ"
  BY <1>4 DEF Parsed
<1> QED
  BY <1>2, <1>3, <1>4

LEMMA InitIInv == Init => IInv
<1> SUFFICES ASSUME Init PROVE IInv
  OBVIOUS
<1>1. TypeOK
  <2>1. answer \in Seq(Nodes) /\ eom \in Seq(Nodes) /\ Len(eom) = 1
    BY NoEOMMade DEF Init
  <2> QED
    BY <2>1 DEF Init, TypeOK
<1>2. PointersRight
  BY DEF Init, PointersRight
<1>3. HoldersRight /\ RequestOnce
  BY NoEOMMade DEF Init, HoldersRight, RequestOnce, Holders
<1>4. HistoryKept
  BY SameAsItself DEF Init, HistoryKept
<1> QED
  BY <1>1, <1>2, <1>3, <1>4 DEF IInv

-----------------------------------------------------------------------------
(***************************************************************************)
(* One lemma per action.                                                   *)
(***************************************************************************)
LEMMA TickStep == IInv /\ Tick => IInv'
<1> SUFFICES ASSUME IInv, Tick PROVE IInv'
  OBVIOUS
<1>1. TypeOK'
  BY MaxTimeAssumption DEF IInv, TypeOK, Tick, found
<1>2. (PointersRight /\ HoldersRight /\ RequestOnce /\ HistoryKept)'
  BY DEF IInv, Tick, found, PointersRight, HoldersRight, RequestOnce, Holders, HistoryKept
<1> QED
  BY <1>1, <1>2 DEF IInv

LEMMA AnswerStep == IInv /\ Answer => IInv'
<1> SUFFICES ASSUME IInv, Answer PROVE IInv'
  OBVIOUS
<1>1. eom' \in Seq(Nodes) /\ \A i \in DOMAIN eom' : eom'[i].by # "proxy"
  <2>1. CASE eom' = NoEOM
    BY <2>1, NoEOMMade
  <2>2. CASE eom' \in Sent(clock)
    BY <2>2, SentAssumption DEF IInv, TypeOK
  <2> QED
    BY <2>1, <2>2 DEF Answer
<1>2. latest = 0 /\ space = 0 /\ request
  BY DEF IInv, PointersRight, HoldersRight, Answer
<1>3. TypeOK'
  BY <1>1, <1>2, LenProperties DEF IInv, TypeOK, Answer, found
<1>4. PointersRight'
  BY <1>2 DEF Answer, found, PointersRight
<1>5. (HoldersRight /\ RequestOnce)'
  BY <1>1, <1>2 DEF Answer, HoldersRight, RequestOnce, Holders
<1>6. HistoryKept'
  BY SameAsItself DEF Answer, HistoryKept
<1> QED
  BY <1>3, <1>4, <1>5, <1>6 DEF IInv

LEMMA NoMetadataStep == IInv /\ NoMetadata => IInv'
  BY DEF IInv, NoMetadata, found, TypeOK, PointersRight, HoldersRight, RequestOnce,
         Holders, HistoryKept

LEMMA FindUndatedStep == IInv /\ FindUndated => IInv'
  BY DEF IInv, FindUndated, found, TypeOK, PointersRight, HoldersRight, RequestOnce,
         Holders, HistoryKept

LEMMA FindLatestStep == IInv /\ FindLatest => IInv'
<1> SUFFICES ASSUME IInv, FindLatest PROVE IInv'
  OBVIOUS
<1>1. eom \in Seq(Nodes) /\ DOMAIN eom = 1..Len(eom) /\ Len(eom) \in Nat
  BY LenProperties DEF IInv, TypeOK
<1>2. latest' = 0 \/ (latest' \in DOMAIN eom /\ IsLineage(eom[latest']))
  BY DEF FindLatest, Latest
<1>3. space' = 0 \/ (space' \in DOMAIN eom /\ eom[space'].kind = "space")
  BY DEF FindLatest, LastSpace
<1>4. latest' # 0 => parsed' \in Parsed(eom[latest'].date)
  BY DEF FindLatest
<1>5. parsed' \in Int
  <2>1. CASE latest' = 0
    BY <2>1 DEF FindLatest
  <2>2. CASE latest' # 0
    BY <2>2, <1>1, <1>2, <1>4, ParsedLemma
  <2> QED
    BY <2>1, <2>2
<1>6. pc' \in {"delete", "died"} /\ (pc' = "delete" => latest' # 0)
  BY DEF FindLatest, HasSpace
<1>7. TypeOK'
  BY <1>1, <1>2, <1>3, <1>5, <1>6 DEF IInv, TypeOK, FindLatest
<1>8. PointersRight'
  BY <1>2, <1>3, <1>4, <1>6 DEF PointersRight, FindLatest
<1>9. (HoldersRight /\ RequestOnce /\ HistoryKept)'
  BY DEF IInv, FindLatest, HoldersRight, RequestOnce, Holders, HistoryKept
<1> QED
  BY <1>7, <1>8, <1>9 DEF IInv

LEMMA DeleteOwnStep == IInv /\ DeleteOwn => IInv'
<1> SUFFICES ASSUME IInv, DeleteOwn PROVE IInv'
  OBVIOUS
<1>1. /\ eom \in Seq(Nodes) /\ DOMAIN eom = 1..Len(eom) /\ Len(eom) \in Nat
      /\ latest \in 1..Len(eom) /\ space \in 0..Len(eom)
      /\ IsLineage(eom[latest])
  BY LenProperties DEF IInv, TypeOK, PointersRight, DeleteOwn
<1>2. /\ eom' \in Seq(Nodes) /\ Len(eom') = Len(eom) - 1 /\ DOMAIN eom' = 1..(Len(eom) - 1)
      /\ \A i \in DOMAIN eom' : eom'[i] = eom[IF i < latest THEN i ELSE i + 1]
      /\ \A j \in DOMAIN eom : j # latest =>
            /\ (IF j < latest THEN j ELSE j - 1) \in DOMAIN eom'
            /\ eom'[IF j < latest THEN j ELSE j - 1] = eom[j]
  BY <1>1, RemoveAtLemma, RemoveAtElements DEF DeleteOwn
<1>3. space # 0 => space # latest /\ eom[space].kind = "space"
  BY <1>1 DEF IInv, PointersRight, IsLineage
<1>4. space' \in 0..Len(eom') /\ (space' # 0 => eom'[space'].kind = "space")
  <2>1. CASE space = 0
    BY <2>1, <1>1, <1>2 DEF DeleteOwn
  <2>2. CASE space # 0
    BY <2>2, <1>1, <1>2, <1>3 DEF DeleteOwn
  <2> QED
    BY <2>1, <2>2
<1>5. TypeOK'
  BY <1>1, <1>2, <1>4 DEF IInv, TypeOK, DeleteOwn
<1>6. PointersRight'
  BY <1>4 DEF PointersRight, DeleteOwn
<1>7. \A i \in DOMAIN eom' : \E j \in DOMAIN eom : eom'[i] = eom[j]
  <2> TAKE i \in DOMAIN eom'
  <2>1. (IF i < latest THEN i ELSE i + 1) \in DOMAIN eom
    BY <1>1, <1>2
  <2> QED
    BY <1>2, <2>1
<1>8. (HoldersRight /\ RequestOnce)'
  <2>1. request /\ request' = request /\ pc' = "add"
    BY DEF IInv, HoldersRight, DeleteOwn
  <2>2. \A i \in DOMAIN eom : eom[i].by # "proxy"
    BY <2>1 DEF IInv, RequestOnce, Holders
  <2>3. \A i \in DOMAIN eom' : eom'[i].by # "proxy"
    BY <1>7, <2>2
  <2> QED
    BY <2>1, <2>3 DEF HoldersRight, RequestOnce, Holders
<1>9. ~IsOld(eom[latest], start)
  <2>1. eom[latest] \in Nodes /\ parsed \in Parsed(eom[latest].date)
    BY <1>1 DEF IInv, PointersRight, DeleteOwn
  <2>2. parsed = 0 \/ parsed = eom[latest].date.sec
    BY <2>1, ParsedLemma
  <2>3. parsed >= start /\ start \in 1..MaxTime
    BY DEF IInv, TypeOK, DeleteOwn, Recent
  <2>4. eom[latest].date.sec \in Int /\ start \in Int /\ start > 0
    <3>1. eom[latest].date.sec \in Int
      BY <2>1, NodeFields
    <3>2. start \in Int /\ start > 0
      BY <2>3, MaxTimeAssumption
    <3> QED
      BY <3>1, <3>2
  <2>5. ~(eom[latest].date.sec < start)
    BY <2>2, <2>3, <2>4
  <2> QED
    BY <2>5 DEF IsOld
<1>10. HistoryKept'
  <2>1. SameHistory(answer, RemoveAt(eom, latest), start)
    BY <1>1, <1>9, SameRemoved DEF IInv, HistoryKept
  <2> QED
    BY <2>1 DEF HistoryKept, DeleteOwn
<1> QED
  BY <1>5, <1>6, <1>8, <1>10 DEF IInv

(***************************************************************************)
(* KeepOld and AddLineage append.                                          *)
(***************************************************************************)
LEMMA KeepOldStep == IInv /\ KeepOld => IInv'
<1> SUFFICES ASSUME IInv, KeepOld PROVE IInv'
  OBVIOUS
<1> DEFINE e == Space(eom[latest].end)
<1>1. /\ eom \in Seq(Nodes) /\ DOMAIN eom = 1..Len(eom) /\ Len(eom) \in Nat
      /\ latest \in 1..Len(eom) /\ space \in 0..Len(eom)
  BY LenProperties DEF IInv, TypeOK, PointersRight, KeepOld
<1>2. e \in Nodes /\ e.by # "proxy" /\ e.kind = "space"
  <2>1. eom[latest] \in Nodes
    BY <1>1
  <2>2. eom[latest].end \in {"none", "in", "out"}
    BY <2>1, NodeFields
  <2> QED
    BY <2>2, SpaceMade
<1>3. /\ eom' \in Seq(Nodes) /\ Len(eom') = Len(eom) + 1 /\ DOMAIN eom' = 1..(Len(eom) + 1)
      /\ \A i \in 1..Len(eom) : eom'[i] = eom[i]
      /\ eom'[Len(eom) + 1] = e
  <2>1. eom' = Append(eom, e)
    BY DEF KeepOld
  <2> HIDE DEF e
  <2> QED
    BY <2>1, <1>1, <1>2, AppendLemma
<1> HIDE DEF e
<1>4. TypeOK'
  BY <1>1, <1>3 DEF IInv, TypeOK, KeepOld, found
<1>5. PointersRight'
  BY <1>1, <1>3 DEF IInv, PointersRight, KeepOld, found
<1>6. (HoldersRight /\ RequestOnce)'
  <2>1. request /\ request' = request /\ pc' = "add"
    BY DEF IInv, HoldersRight, KeepOld
  <2>2. \A i \in DOMAIN eom : eom[i].by # "proxy"
    BY <2>1 DEF IInv, RequestOnce, Holders
  <2>3. \A i \in DOMAIN eom' : eom'[i].by # "proxy"
    BY <1>1, <1>2, <1>3, <2>2
  <2> QED
    BY <2>1, <2>3 DEF HoldersRight, RequestOnce, Holders
<1>7. HistoryKept'
  <2>1. SameHistory(answer, Append(eom, e), start)
    BY <1>1, <1>2, SameAppended DEF IInv, HistoryKept, IsOld, IsLineage
  <2> QED
    BY <2>1 DEF HistoryKept, KeepOld, e
<1> QED
  BY <1>4, <1>5, <1>6, <1>7 DEF IInv

LEMMA AddLineageStep == IInv /\ AddLineage => IInv'
<1> SUFFICES ASSUME IInv, AddLineage PROVE IInv'
  OBVIOUS
<1> DEFINE e == Lineage("proxy", Text(clock, "Z"), "in")
<1>1. /\ eom \in Seq(Nodes) /\ DOMAIN eom = 1..Len(eom) /\ Len(eom) \in Nat
      /\ latest \in 0..Len(eom) /\ space \in 0..Len(eom) /\ clock \in Int
  BY LenProperties, MaxTimeAssumption DEF IInv, TypeOK
<1>2. e \in Nodes /\ e.by = "proxy" /\ IsLineage(e)
  BY <1>1, LineageMade
<1>3. /\ eom' \in Seq(Nodes) /\ Len(eom') = Len(eom) + 1 /\ DOMAIN eom' = 1..(Len(eom) + 1)
      /\ \A i \in 1..Len(eom) : eom'[i] = eom[i]
      /\ eom'[Len(eom) + 1] = e
  <2>1. eom' = Append(eom, e)
    BY DEF AddLineage
  <2> HIDE DEF e
  <2> QED
    BY <2>1, <1>1, <1>2, AppendLemma
<1> HIDE DEF e
<1>4. TypeOK'
  <2>1. latest \in 0..Len(eom') /\ space \in 0..Len(eom')
    BY <1>1, <1>3
  <2> QED
    BY <1>3, <2>1 DEF IInv, TypeOK, AddLineage, found
<1>5. PointersRight'
  BY <1>1, <1>3 DEF IInv, PointersRight, AddLineage, found
<1>6. (HoldersRight /\ RequestOnce)'
  <2>1. request /\ ~request' /\ pc' = "close"
    BY DEF IInv, HoldersRight, AddLineage
  <2>2. \A i \in DOMAIN eom : eom[i].by # "proxy"
    BY <2>1 DEF IInv, RequestOnce, Holders
  <2>3. Holders' = {Len(eom) + 1} /\ Len(eom) + 1 \in DOMAIN eom'
    BY <1>1, <1>2, <1>3, <2>2 DEF Holders
  <2>4. \A i \in DOMAIN eom' : eom'[i].by = "proxy" => IsLineage(eom'[i])
    BY <1>1, <1>2, <1>3, <2>2
  <2> QED
    BY <2>1, <2>3, <2>4 DEF HoldersRight, RequestOnce
<1>7. HistoryKept'
  <2>1. SameHistory(answer, Append(eom, e), start)
    BY <1>1, <1>2, SameAppended DEF IInv, HistoryKept, IsOld
  <2> QED
    BY <2>1 DEF HistoryKept, AddLineage, e
<1> QED
  BY <1>4, <1>5, <1>6, <1>7 DEF IInv
(***************************************************************************)
(* CloseMetadata takes a text out, and a text neither holds the request    *)
(* nor is a lineage.                                                       *)
(***************************************************************************)
LEMMA CloseMetadataStep == IInv /\ CloseMetadata => IInv'
<1> SUFFICES ASSUME IInv, CloseMetadata PROVE IInv'
  OBVIOUS
<1>1. CASE space = 0
  <2>1. UNCHANGED <<eom, space, answer, start, clock, request, latest, parsed>> /\ pc' = "done"
    BY <1>1 DEF CloseMetadata
  <2>2. TypeOK' /\ PointersRight'
    BY <2>1, <1>1 DEF IInv, TypeOK, PointersRight
  <2>3. HoldersRight' /\ RequestOnce' /\ HistoryKept'
    BY <2>1 DEF IInv, HoldersRight, RequestOnce, Holders, HistoryKept
  <2> QED
    BY <2>2, <2>3 DEF IInv
<1>2. CASE space # 0
  <2> DEFINE e == eom[space]
             t == Append(eom, e)
  <2>1. /\ eom \in Seq(Nodes) /\ DOMAIN eom = 1..Len(eom) /\ Len(eom) \in Nat
        /\ space \in 1..Len(eom) /\ latest \in 0..Len(eom)
    BY <1>2, LenProperties DEF IInv, TypeOK
  <2>2. e \in Nodes /\ e.kind = "space" /\ ~IsLineage(e) /\ e.by # "proxy"
    <3>1. e \in Nodes /\ e.kind = "space"
      BY <1>2, <2>1 DEF IInv, PointersRight
    <3>2. ~IsLineage(e)
      BY <3>1 DEF IsLineage
    <3> QED
      BY <2>1, <3>1, <3>2 DEF IInv, HoldersRight
  <2>3. eom' = RemoveAt(t, space)
    BY <1>2 DEF CloseMetadata
  <2> HIDE DEF e
  <2>4. /\ t \in Seq(Nodes) /\ Len(t) = Len(eom) + 1 /\ DOMAIN t = 1..(Len(eom) + 1)
        /\ \A i \in 1..Len(eom) : t[i] = eom[i]
        /\ t[Len(eom) + 1] = e /\ t[space] = e
    <3>1. t[space] = eom[space] /\ e = eom[space]
      BY <2>1, <2>2, AppendLemma DEF e
    <3> QED
      BY <2>1, <2>2, <3>1, AppendLemma
  <2> HIDE DEF t
  <2>5. /\ eom' \in Seq(Nodes) /\ Len(eom') = Len(eom) /\ DOMAIN eom' = 1..Len(eom)
        /\ \A i \in DOMAIN eom' : eom'[i] = t[IF i < space THEN i ELSE i + 1]
        /\ \A j \in DOMAIN t : j # space =>
              /\ (IF j < space THEN j ELSE j - 1) \in DOMAIN eom'
              /\ eom'[IF j < space THEN j ELSE j - 1] = t[j]
    <3>1. space \in 1..Len(t) /\ Len(t) - 1 = Len(eom)
      BY <2>1, <2>4
    <3>2. /\ eom' \in Seq(Nodes) /\ Len(eom') = Len(t) - 1 /\ DOMAIN eom' = 1..(Len(t) - 1)
      BY <2>3, <2>4, <3>1, RemoveAtLemma
    <3>3. /\ \A i \in DOMAIN eom' : eom'[i] = t[IF i < space THEN i ELSE i + 1]
          /\ \A j \in DOMAIN t : j # space =>
                /\ (IF j < space THEN j ELSE j - 1) \in DOMAIN eom'
                /\ eom'[IF j < space THEN j ELSE j - 1] = t[j]
      BY <2>3, <2>4, <3>1, RemoveAtElements
    <3> QED
      BY <3>1, <3>2, <3>3
  <2>6. TypeOK'
    BY <2>1, <2>5 DEF IInv, TypeOK, CloseMetadata
  <2>7. PointersRight'
    BY DEF PointersRight, CloseMetadata
  <2>8. \A i \in DOMAIN eom : eom[i] # e =>
            /\ (IF i < space THEN i ELSE i - 1) \in DOMAIN eom'
            /\ eom'[IF i < space THEN i ELSE i - 1] = eom[i]
    <3> TAKE i \in DOMAIN eom
    <3> HAVE eom[i] # e
    <3>1. i # space /\ i \in DOMAIN t /\ t[i] = eom[i]
      BY <2>1, <2>4
    <3> QED
      BY <2>5, <3>1
  <2>9. ASSUME NEW i \in DOMAIN eom', eom'[i].by = "proxy"
        PROVE  /\ (IF i < space THEN i ELSE i + 1) \in DOMAIN eom
               /\ eom'[i] = eom[IF i < space THEN i ELSE i + 1]
    <3> DEFINE k == IF i < space THEN i ELSE i + 1
    <3>1. eom'[i] = t[k] /\ k \in 1..(Len(eom) + 1)
      BY <2>1, <2>5
    <3>2. k # Len(eom) + 1
      BY <2>2, <2>4, <2>9, <3>1
    <3> QED
      BY <2>1, <2>4, <3>1, <3>2
  <2>10. HoldersRight'
    <3>1. \A i \in DOMAIN eom' : eom'[i].by = "proxy" => IsLineage(eom'[i])
      BY <2>9 DEF IInv, HoldersRight
    <3> QED
      BY <3>1 DEF HoldersRight, CloseMetadata
  <2>11. RequestOnce'
    <3>1. CASE request /\ Holders = {}
      <4>1. Holders' = {}
        BY <3>1, <2>9 DEF Holders
      <4> QED
        BY <3>1, <4>1 DEF RequestOnce, CloseMetadata
    <3>2. CASE ~request /\ \E i \in DOMAIN eom : Holders = {i}
      <4>1. PICK i \in DOMAIN eom : Holders = {i}
        BY <3>2
      <4> DEFINE k == IF i < space THEN i ELSE i - 1
      <4>2. eom[i].by = "proxy" /\ eom[i] # e
        BY <4>1, <2>2 DEF Holders
      <4>3. k \in DOMAIN eom' /\ eom'[k].by = "proxy"
        BY <4>2, <2>8
      <4>4. i # space
        BY <4>2 DEF e
      <4>5. ASSUME NEW j \in DOMAIN eom', eom'[j].by = "proxy"
            PROVE  j = k
        <5>1. (IF j < space THEN j ELSE j + 1) \in Holders
          BY <4>5, <2>9 DEF Holders
        <5>2. (IF j < space THEN j ELSE j + 1) = i
          BY <5>1, <4>1
        <5> QED
          BY <5>2, <2>1, <2>5, <4>4
      <4>6. Holders' = {k}
        <5> HIDE DEF k
        <5> QED
          BY <4>3, <4>5 DEF Holders
      <4> QED
        BY <3>2, <4>3, <4>6 DEF RequestOnce, CloseMetadata
    <3> QED
      BY <3>1, <3>2 DEF IInv, RequestOnce
  <2>12. HistoryKept'
    <3>1. ~IsOld(e, start)
      BY <2>2 DEF IsOld
    <3>2. SameHistory(answer, t, start)
      BY <2>1, <2>2, <3>1, SameAppended DEF IInv, HistoryKept, t
    <3>3. space \in 1..Len(t) /\ ~IsOld(t[space], start)
      BY <2>1, <2>4, <3>1
    <3>4. SameHistory(answer, RemoveAt(t, space), start)
      BY <2>4, <3>2, <3>3, SameRemoved
    <3> QED
      BY <2>3, <3>4 DEF HistoryKept, CloseMetadata
  <2> QED
    BY <2>6, <2>7, <2>10, <2>11, <2>12 DEF IInv
<1> QED
  BY <1>1, <1>2

LEMMA InductiveStep == IInv /\ [Next]_vars => IInv'
<1> SUFFICES ASSUME IInv, [Next]_vars PROVE IInv'
  OBVIOUS
<1>1. CASE UNCHANGED vars
  BY <1>1 DEF vars, found, IInv, TypeOK, PointersRight, HoldersRight, RequestOnce, Holders,
              HistoryKept
<1> QED
  BY <1>1, TickStep, AnswerStep, NoMetadataStep, FindUndatedStep, FindLatestStep, DeleteOwnStep,
     KeepOldStep, AddLineageStep, CloseMetadataStep DEF Next

THEOREM Inductive == Spec => []IInv
  BY InitIInv, InductiveStep, PTL DEF Spec

-----------------------------------------------------------------------------
(***************************************************************************)
(* Every reachable state is well typed; no pointer of sp_update_lineage    *)
(* leaves the list of children it points into.                             *)
(***************************************************************************)
THEOREM TypeCorrect == Spec => []TypeOK
<1>1. IInv => TypeOK
  BY DEF IInv
<1> QED
  BY <1>1, Inductive, PTL

(***************************************************************************)
(* GetCoverage is always in exactly one tree, and there once.              *)
(***************************************************************************)
THEOREM OneParent == Spec => []RequestOnce
<1>1. IInv => RequestOnce
  BY DEF IInv
<1> QED
  BY <1>1, Inductive, PTL

(***************************************************************************)
(* The lineages dated before the request stay in the answer in their       *)
(* order, for any answer of the backend: the deletion in                   *)
(* sp_update_lineage never reaches the history of the coverage.            *)
(***************************************************************************)
THEOREM HistoryStays == Spec => []HistoryKept
<1>1. IInv => HistoryKept
  BY DEF IInv
<1> QED
  BY <1>1, Inductive, PTL

-----------------------------------------------------------------------------
(***************************************************************************)
(* What happens to the lineage the backend wrote for the request: it is    *)
(* the only one, so it is the latest, so it goes.                          *)
(***************************************************************************)
NoOwn(s) == \A i \in DOMAIN s : ~Own(s[i])

OneOwn(s) == \A i, j \in DOMAIN s : Own(s[i]) /\ Own(s[j]) => i = j

OwnInv ==
    /\ OneOwn(answer)
    /\ pc \in {"find", "delete"} => eom = answer
    /\ pc = "delete" => \A i \in DOMAIN answer : Replaceable(answer, i) => latest = i /\ Recent
    /\ pc \in {"add", "close", "done"} /\ (\E i \in DOMAIN answer : Replaceable(answer, i)) =>
          NoOwn(eom)

LEMMA NoEOMHasNone == NoOwn(NoEOM) /\ OneOwn(NoEOM)
BY NoEOMMade DEF NoOwn, OneOwn, Own

LEMMA OwnStep == IInv /\ OwnInv /\ [Next]_vars => OwnInv'
<1> SUFFICES ASSUME IInv, OwnInv, [Next]_vars PROVE OwnInv'
  OBVIOUS
<1>0. eom \in Seq(Nodes) /\ DOMAIN eom = 1..Len(eom) /\ Len(eom) \in Nat
  BY LenProperties DEF IInv, TypeOK
<1>1. CASE UNCHANGED vars \/ Tick
  BY <1>1 DEF OwnInv, Tick, vars, found, Replaceable, Recent, OneOwn, NoOwn
<1>2. CASE Answer
  <2>1. OneOwn(eom')
    <3>1. CASE eom' = NoEOM
      BY <3>1, NoEOMHasNone
    <3>2. CASE eom' \in Sent(clock)
      BY <3>2, SentAssumption DEF IInv, TypeOK, OneOwn
    <3> QED
      BY <1>2, <3>1, <3>2 DEF Answer
  <2> QED
    BY <1>2, <2>1 DEF Answer, OwnInv
<1>3. CASE NoMetadata
  <2>1. NoOwn(eom)
    BY <1>3, NoEOMHasNone DEF NoMetadata
  <2>2. UNCHANGED <<answer, eom, start>> /\ pc' = "done"
    BY <1>3 DEF NoMetadata
  <2> QED
    BY <2>1, <2>2 DEF OwnInv, NoOwn, OneOwn
<1>4. CASE FindLatest
  <2>1. UNCHANGED <<answer, eom, start>> /\ eom = answer /\ pc' \in {"delete", "died"}
    BY <1>4 DEF FindLatest, OwnInv
  <2>2. ASSUME NEW i \in DOMAIN answer, Replaceable(answer, i)
        PROVE  latest' = i /\ parsed' >= start
    <3> DEFINE ls == {j \in DOMAIN eom : IsLineage(eom[j])}
    <3>1. i \in ls /\ eom = answer
      BY <2>1, <2>2 DEF Replaceable, Own, IsLineage
    <3>2. latest' \in ls /\ \A j \in ls \ {latest'} : ~Earlier(eom[latest'].date, eom[j].date)
      BY <1>4, <3>1 DEF FindLatest, Latest
    <3>3. latest' = i
      BY <2>2, <3>1, <3>2 DEF Replaceable
    <3>4. latest' # 0 /\ eom[i].date.form = "Z" /\ eom[i].date.sec >= start
      BY <1>0, <2>2, <3>1, <3>3 DEF Replaceable
    <3>5. parsed' \in Parsed(eom[i].date)
      BY <1>4, <3>3, <3>4 DEF FindLatest
    <3>6. parsed' = eom[i].date.sec
      BY <3>4, <3>5 DEF Parsed
    <3> QED
      BY <3>3, <3>4, <3>6
  <2> QED
    BY <2>1, <2>2 DEF OwnInv, Recent, Replaceable, OneOwn
<1>5. CASE DeleteOwn
  <2>1. UNCHANGED <<answer, start>> /\ pc = "delete" /\ pc' = "add" /\ eom = answer
        /\ eom' = RemoveAt(eom, latest)
    BY <1>5 DEF DeleteOwn, OwnInv
  <2>2. ASSUME NEW i \in DOMAIN answer, Replaceable(answer, i) PROVE NoOwn(eom')
    <3>1. latest = i /\ Own(eom[i]) /\ i \in 1..Len(eom)
      BY <1>0, <2>1, <2>2 DEF OwnInv, Replaceable
    <3>2. \A k \in DOMAIN eom' : eom'[k] = eom[IF k < i THEN k ELSE k + 1]
      BY <1>0, <2>1, <3>1, RemoveAtElements
    <3>3. DOMAIN eom' = 1..(Len(eom) - 1)
      BY <1>0, <2>1, <3>1, RemoveAtLemma
    <3> SUFFICES ASSUME NEW k \in DOMAIN eom' PROVE ~Own(eom'[k])
      BY DEF NoOwn
    <3>4. PICK j \in DOMAIN eom : j # i /\ eom'[k] = eom[j]
      <4>1. (IF k < i THEN k ELSE k + 1) \in DOMAIN eom /\ (IF k < i THEN k ELSE k + 1) # i
        BY <1>0, <3>1, <3>3
      <4> QED
        BY <3>2, <4>1
    <3> QED
      BY <1>0, <2>1, <3>1, <3>4 DEF OwnInv, OneOwn
  <2> QED
    BY <2>1, <2>2 DEF OwnInv, OneOwn, Replaceable
<1>6. CASE KeepOld
  BY <1>6 DEF KeepOld, OwnInv, OneOwn, Replaceable
<1>7. CASE AddLineage
  <2> DEFINE e == Lineage("proxy", Text(clock, "Z"), "in")
  <2>1. e \in Nodes /\ ~Own(e)
    BY LineageMade, MaxTimeAssumption DEF IInv, TypeOK, Own
  <2>2. eom' = Append(eom, e) /\ UNCHANGED <<answer, start>> /\ pc = "add" /\ pc' = "close"
    BY <1>7 DEF AddLineage
  <2> HIDE DEF e
  <2>3. NoOwn(eom) => NoOwn(eom')
    BY <1>0, <2>1, <2>2, AppendLemma DEF NoOwn
  <2> QED
    BY <2>2, <2>3 DEF OwnInv, OneOwn, Replaceable
<1>8. CASE CloseMetadata
  <2>1. UNCHANGED <<answer, start>> /\ pc = "close" /\ pc' = "done"
    BY <1>8 DEF CloseMetadata
  <2>2. NoOwn(eom) => NoOwn(eom')
    <3>1. CASE space = 0
      BY <1>8, <3>1 DEF CloseMetadata
    <3>2. CASE space # 0
      <4> DEFINE t == Append(eom, eom[space])
      <4>1. space \in 1..Len(eom) /\ eom[space] \in Nodes
        BY <1>0, <3>2 DEF IInv, TypeOK
      <4>2. /\ t \in Seq(Nodes) /\ Len(t) = Len(eom) + 1 /\ DOMAIN t = 1..(Len(eom) + 1)
            /\ \A i \in 1..Len(eom) : t[i] = eom[i]
            /\ t[Len(eom) + 1] = eom[space]
        BY <1>0, <4>1, AppendLemma
      <4>3. eom' = RemoveAt(t, space)
        BY <1>8, <3>2 DEF CloseMetadata
      <4> HIDE DEF t
      <4>4. NoOwn(eom) => NoOwn(t)
        BY <1>0, <4>1, <4>2 DEF NoOwn
      <4>5. DOMAIN eom' = 1..Len(eom)
            /\ \A k \in DOMAIN eom' : eom'[k] = t[IF k < space THEN k ELSE k + 1]
        <5>1. space \in 1..Len(t) /\ Len(t) - 1 = Len(eom)
          BY <1>0, <4>1, <4>2
        <5> QED
          BY <4>2, <4>3, <5>1, RemoveAtLemma, RemoveAtElements
      <4>6. \A k \in DOMAIN eom' : (IF k < space THEN k ELSE k + 1) \in DOMAIN t
        BY <1>0, <4>1, <4>2, <4>5
      <4> QED
        BY <4>4, <4>5, <4>6 DEF NoOwn
    <3> QED
      BY <3>1, <3>2
  <2> QED
    BY <2>1, <2>2 DEF OwnInv, OneOwn, Replaceable
<1>9. CASE FindUndated
  BY <1>9 DEF FindUndated, OwnInv, OneOwn
<1> QED
  BY <1>1, <1>2, <1>3, <1>4, <1>5, <1>6, <1>7, <1>8, <1>9 DEF Next

(***************************************************************************)
(* A lineage that the backend wrote for the request is gone from the       *)
(* answer, if its date is readable, not before the request and the latest, *)
(* for any coverage and any clock.                                         *)
(***************************************************************************)
THEOREM OwnGoes == Spec => []OwnReplaced
<1>1. Init => OwnInv
  BY NoEOMHasNone DEF Init, OwnInv
<1>2. OwnInv => OwnReplaced
  BY DEF OwnInv, OwnReplaced, NoOwn
<1> QED
  BY <1>1, <1>2, OwnStep, Inductive, PTL DEF Spec

-----------------------------------------------------------------------------
(***************************************************************************)
(* White space is counted.                                                 *)
(***************************************************************************)
LEMMA GapsFinite ==
    ASSUME NEW s \in Seq(Nodes)
    PROVE  IsFiniteSet(Gaps(s)) /\ Cardinality(Gaps(s)) \in Nat
<1>1. Len(s) \in Nat /\ DOMAIN s = 1..Len(s)
  BY LenProperties
<1>2. IsFiniteSet(1..Len(s))
  BY <1>1, FS_Interval
<1>3. Gaps(s) \in SUBSET (1..Len(s))
  BY <1>1 DEF Gaps
<1>4. IsFiniteSet(Gaps(s))
  BY <1>2, <1>3, FS_Subset
<1> QED
  BY <1>4, FS_CardinalityType

LEMMA GapsAppended ==
    ASSUME NEW s \in Seq(Nodes), NEW e \in Nodes
    PROVE  Cardinality(Gaps(Append(s, e))) =
              Cardinality(Gaps(s)) + IF e.kind = "space" THEN 1 ELSE 0
<1> DEFINE v == Append(s, e)
           n == Len(s) + 1
<1>1. /\ DOMAIN s = 1..Len(s) /\ Len(s) \in Nat
      /\ DOMAIN v = 1..n /\ v[n] = e
      /\ \A i \in 1..Len(s) : v[i] = s[i]
  BY AppendLemma, LenProperties
<1> HIDE DEF v
<1>2. n \notin Gaps(s) /\ \A i : i \in 1..n <=> i \in 1..Len(s) \/ i = n
  BY <1>1 DEF Gaps
<1> HIDE DEF n
<1>3. IsFiniteSet(Gaps(s)) /\ Cardinality(Gaps(s)) \in Nat
  BY GapsFinite
<1>4. CASE e.kind = "space"
  <2>1. Gaps(v) = Gaps(s) \cup {n}
    BY <1>1, <1>2, <1>4 DEF Gaps
  <2>2. Cardinality(Gaps(s) \cup {n}) = Cardinality(Gaps(s)) + 1
    BY <1>2, <1>3, FS_AddElement
  <2> QED
    BY <1>4, <2>1, <2>2 DEF v
<1>5. CASE e.kind # "space"
  <2>1. Gaps(v) = Gaps(s)
    BY <1>1, <1>2, <1>5 DEF Gaps
  <2> QED
    BY <1>3, <1>5, <2>1 DEF v
<1> QED
  BY <1>4, <1>5

LEMMA GapsRemoved ==
    ASSUME NEW s \in Seq(Nodes), NEW k \in 1..Len(s)
    PROVE  Cardinality(Gaps(RemoveAt(s, k))) =
              Cardinality(Gaps(s)) - IF s[k].kind = "space" THEN 1 ELSE 0
<1> DEFINE v == RemoveAt(s, k)
           S == Gaps(s) \ {k}
           T == Gaps(v)
           to == [i \in S |-> IF i < k THEN i ELSE i - 1]
<1>1. /\ DOMAIN s = 1..Len(s) /\ Len(s) \in Nat /\ DOMAIN v = 1..(Len(s) - 1)
      /\ \A i \in DOMAIN v : v[i] = s[IF i < k THEN i ELSE i + 1]
      /\ \A j \in DOMAIN s : j # k =>
            /\ (IF j < k THEN j ELSE j - 1) \in DOMAIN v
            /\ v[IF j < k THEN j ELSE j - 1] = s[j]
  BY RemoveAtLemma, RemoveAtElements, LenProperties
<1> HIDE DEF v
<1>2. \A i \in S : i \in 1..Len(s) /\ i # k /\ s[i].kind = "space"
  BY <1>1 DEF Gaps
<1>3. \A i \in S : (IF i < k THEN i ELSE i - 1) \in T
  BY <1>1, <1>2 DEF Gaps
<1>4. to \in [S -> T] /\ \A i \in S : to[i] = IF i < k THEN i ELSE i - 1
  BY <1>3
<1>5. \A i, j \in S : to[i] = to[j] => i = j
  BY <1>2, <1>4
<1>6. \A m \in T : \E i \in S : to[i] = m
  <2> TAKE m \in T
  <2> DEFINE i == IF m < k THEN m ELSE m + 1
  <2>1. m \in 1..(Len(s) - 1) /\ v[m].kind = "space" /\ v[m] = s[i]
    BY <1>1 DEF Gaps
  <2>2. i \in 1..Len(s) /\ i # k /\ (IF i < k THEN i ELSE i - 1) = m
    BY <1>1, <2>1
  <2> HIDE DEF i
  <2>3. i \in S
    BY <1>1, <2>1, <2>2 DEF Gaps
  <2> QED
    BY <1>4, <2>2, <2>3
<1>7. ExistsBijection(S, T)
  <2> HIDE DEF to, S, T
  <2>1. to \in Bijection(S, T)
    BY <1>4, <1>5, <1>6 DEF Bijection, Injection, Surjection, IsInjective
  <2> QED
    BY <2>1 DEF ExistsBijection
<1>8. IsFiniteSet(Gaps(s)) /\ Cardinality(Gaps(s)) \in Nat
  BY GapsFinite
<1>9. IsFiniteSet(S) /\ Cardinality(S) = IF k \in Gaps(s) THEN Cardinality(Gaps(s)) - 1
                                         ELSE Cardinality(Gaps(s))
  BY <1>8, FS_RemoveElement
<1>10. Cardinality(T) = Cardinality(S)
  <2> HIDE DEF S, T
  <2> QED
    BY <1>7, <1>9, FS_Bijection
<1>11. k \in Gaps(s) <=> s[k].kind = "space"
  BY <1>1 DEF Gaps
<1> QED
  BY <1>8, <1>9, <1>10, <1>11 DEF v

-----------------------------------------------------------------------------
(***************************************************************************)
(* How far EOMetadata has grown, and that eom_whsp_node is still the last  *)
(* white space of the answer, wherever it has moved to.                    *)
(***************************************************************************)
Grown(nodes, gaps) ==
    /\ Len(eom) = Len(answer) + nodes
    /\ Cardinality(Gaps(eom)) = Cardinality(Gaps(answer)) + gaps

SpaceRight == \A g \in DOMAIN answer : LastGap(answer, g) => space # 0 /\ eom[space] = answer[g]

CloseInv ==
    /\ answer \in Seq(Nodes) /\ start <= clock
    /\ pc \in {"find", "delete"} => eom = answer
    /\ pc \in {"delete", "add", "close"} => SpaceRight
    /\ pc = "add" => Grown(-1, 0) \/ Grown(1, 1)
    /\ pc = "close" => /\ Grown(0, 0) \/ Grown(2, 1)
                       /\ Len(eom) \in Holders /\ eom[Len(eom)].date.sec \in start..clock
    /\ ClosedRight

LEMMA LineageDated ==
    ASSUME NEW t \in Int PROVE Lineage("proxy", Text(t, "Z"), "in").date.sec = t
BY DEF Lineage, Node, Text

\* The steps before the end.
LEMMA CloseBefore ==
    /\ IInv /\ CloseInv
    /\ Tick \/ Answer \/ NoMetadata \/ FindUndated \/ FindLatest \/ UNCHANGED vars
    => CloseInv'
<1> SUFFICES ASSUME IInv, CloseInv,
                    Tick \/ Answer \/ NoMetadata \/ FindUndated \/ FindLatest \/ UNCHANGED vars
             PROVE  CloseInv'
  OBVIOUS
<1>0. clock \in Int /\ start \in Int
  BY MaxTimeAssumption DEF IInv, TypeOK
<1>1. CASE Tick \/ UNCHANGED vars
  <2>1. /\ UNCHANGED <<pc, start, answer, eom, latest, space>>
        /\ clock' \in Int /\ clock <= clock'
    BY <1>0, <1>1 DEF Tick, vars, found
  <2>2. \A n : n \in start..clock => n \in start'..clock'
    BY <1>0, <2>1
  <2>3. Holders' = Holders /\ (\A m, n : Grown(m, n)' <=> Grown(m, n)) /\ (SpaceRight' <=> SpaceRight)
    BY <2>1 DEF Holders, Grown, SpaceRight
  <2>4. Closed => Closed'
    BY <2>1, <2>2, <2>3 DEF Closed
  <2>5. ClosedRight'
    BY <2>1, <2>4 DEF CloseInv, ClosedRight
  <2>6. start' <= clock'
    BY <1>0, <2>1 DEF CloseInv
  <2> QED
    BY <2>1, <2>2, <2>3, <2>5, <2>6 DEF CloseInv
<1>2. CASE Answer
  <2>1. eom' \in Seq(Nodes)
    <3>1. CASE eom' = NoEOM
      BY <3>1, NoEOMMade
    <3>2. CASE eom' \in Sent(clock)
      BY <3>2, SentAssumption DEF IInv, TypeOK
    <3> QED
      BY <1>2, <3>1, <3>2 DEF Answer
  <2> QED
    BY <1>2, <2>1 DEF Answer, CloseInv, ClosedRight
<1>3. CASE NoMetadata
  BY <1>3 DEF NoMetadata, CloseInv, ClosedRight
<1>4. CASE FindLatest
  <2>1. /\ UNCHANGED <<clock, start, answer, eom>> /\ eom = answer
        /\ pc' \in {"delete", "died"}
    BY <1>4 DEF FindLatest, CloseInv
  <2>2. SpaceRight'
    <3> SUFFICES ASSUME NEW g \in DOMAIN answer, LastGap(answer, g)
                 PROVE  space' # 0 /\ eom[space'] = answer[g]
      BY <2>1 DEF SpaceRight
    <3> DEFINE texts == {i \in DOMAIN eom : eom[i].kind = "space"}
    <3>1. g \in texts /\ \A i \in texts : i <= g
      BY <2>1 DEF LastGap, Gaps
    <3>2. space' \in texts /\ \A j \in texts : j <= space'
      BY <1>4, <3>1 DEF FindLatest, LastSpace
    <3>3. DOMAIN eom \subseteq Nat \ {0}
      BY <2>1, LenProperties DEF CloseInv
    <3>4. g \in Nat \ {0} /\ space' \in Nat
      BY <3>1, <3>2, <3>3
    <3>5. space' = g
      BY <3>1, <3>2, <3>4
    <3> QED
      BY <2>1, <3>4, <3>5
  <2> QED
    BY <2>1, <2>2 DEF CloseInv, ClosedRight
<1>5. CASE FindUndated
  BY <1>5 DEF FindUndated, CloseInv, ClosedRight
<1> QED
  BY <1>1, <1>2, <1>3, <1>4, <1>5

LEMMA CloseDelete == IInv /\ CloseInv /\ DeleteOwn => CloseInv'
<1> SUFFICES ASSUME IInv, CloseInv, DeleteOwn PROVE CloseInv'
  OBVIOUS
<1>1. /\ eom \in Seq(Nodes) /\ DOMAIN eom = 1..Len(eom) /\ Len(eom) \in Nat
      /\ latest \in 1..Len(eom) /\ space \in 0..Len(eom) /\ IsLineage(eom[latest])
  BY LenProperties DEF IInv, TypeOK, PointersRight, DeleteOwn
<1>2. /\ UNCHANGED <<clock, start, answer>> /\ eom = answer /\ pc' = "add"
      /\ eom' = RemoveAt(eom, latest)
      /\ space' = IF latest < space THEN space - 1 ELSE space
      /\ SpaceRight
  BY DEF DeleteOwn, CloseInv
<1>3. eom[latest].kind # "space"
  BY <1>1 DEF IsLineage
<1>4. Grown(-1, 0)'
  <2>1. Len(eom') = Len(eom) - 1
    BY <1>1, <1>2, RemoveAtLemma
  <2>2. Cardinality(Gaps(eom')) = Cardinality(Gaps(eom)) - 0
    BY <1>1, <1>2, <1>3, GapsRemoved
  <2>3. Cardinality(Gaps(eom)) \in Nat
    BY <1>1, GapsFinite
  <2> QED
    BY <1>1, <1>2, <2>1, <2>2, <2>3 DEF Grown
<1>5. SpaceRight'
  <2> SUFFICES ASSUME NEW g \in DOMAIN answer, LastGap(answer, g)
               PROVE  space' # 0 /\ eom'[space'] = answer[g]
    BY <1>2 DEF SpaceRight
  <2>1. space \in 1..Len(eom) /\ eom[space] = answer[g] /\ space # latest
    <3>1. space # 0 /\ eom[space] = answer[g] /\ answer[g].kind = "space"
      BY <1>2 DEF SpaceRight, LastGap, Gaps
    <3> QED
      BY <1>1, <1>3, <3>1
  <2>2. eom'[IF space < latest THEN space ELSE space - 1] = eom[space]
    BY <1>1, <1>2, <2>1, RemoveAtElements
  <2>3. space' = (IF space < latest THEN space ELSE space - 1) /\ space' # 0
    BY <1>1, <1>2, <2>1
  <2> QED
    BY <2>1, <2>2, <2>3
<1> QED
  BY <1>2, <1>4, <1>5 DEF CloseInv, ClosedRight

LEMMA CloseKeep == IInv /\ CloseInv /\ KeepOld => CloseInv'
<1> SUFFICES ASSUME IInv, CloseInv, KeepOld PROVE CloseInv'
  OBVIOUS
<1> DEFINE e == Space(eom[latest].end)
<1>1. /\ eom \in Seq(Nodes) /\ DOMAIN eom = 1..Len(eom) /\ Len(eom) \in Nat
      /\ latest \in 1..Len(eom) /\ space \in 0..Len(eom)
  BY LenProperties DEF IInv, TypeOK, PointersRight, KeepOld
<1>2. /\ UNCHANGED <<clock, start, answer, space>> /\ eom = answer /\ pc' = "add"
      /\ eom' = Append(eom, e) /\ SpaceRight
  BY DEF KeepOld, CloseInv, found
<1>3. e \in Nodes /\ e.kind = "space"
  <2>1. eom[latest].end \in {"none", "in", "out"}
    BY <1>1, NodeFields
  <2> QED
    BY <2>1, SpaceMade
<1> HIDE DEF e
<1>4. /\ Len(eom') = Len(eom) + 1 /\ \A i \in 1..Len(eom) : eom'[i] = eom[i]
      /\ Cardinality(Gaps(eom')) = Cardinality(Gaps(eom)) + 1
  BY <1>1, <1>2, <1>3, AppendLemma, GapsAppended
<1>5. Grown(1, 1)'
  BY <1>2, <1>4 DEF Grown
<1>6. SpaceRight'
  BY <1>1, <1>2, <1>4 DEF SpaceRight
<1> QED
  BY <1>2, <1>5, <1>6 DEF CloseInv, ClosedRight

LEMMA CloseAdd == IInv /\ CloseInv /\ AddLineage => CloseInv'
<1> SUFFICES ASSUME IInv, CloseInv, AddLineage PROVE CloseInv'
  OBVIOUS
<1> DEFINE e == Lineage("proxy", Text(clock, "Z"), "in")
<1>1. /\ eom \in Seq(Nodes) /\ DOMAIN eom = 1..Len(eom) /\ Len(eom) \in Nat
      /\ space \in 0..Len(eom) /\ clock \in Int /\ start \in Int /\ start <= clock
  BY LenProperties, MaxTimeAssumption DEF IInv, TypeOK, CloseInv
<1>2. /\ UNCHANGED <<clock, start, answer, space>> /\ pc' = "close"
      /\ eom' = Append(eom, e) /\ SpaceRight /\ (Grown(-1, 0) \/ Grown(1, 1))
  BY DEF AddLineage, CloseInv, found
<1>3. e \in Nodes /\ e.by = "proxy" /\ e.kind # "space" /\ e.date.sec = clock
  BY <1>1, LineageMade, LineageDated DEF IsLineage
<1> HIDE DEF e
<1>4. /\ Len(eom') = Len(eom) + 1 /\ DOMAIN eom' = 1..(Len(eom) + 1)
      /\ \A i \in 1..Len(eom) : eom'[i] = eom[i]
      /\ eom'[Len(eom) + 1] = e
      /\ Cardinality(Gaps(eom')) = Cardinality(Gaps(eom)) + 0
  BY <1>1, <1>2, <1>3, AppendLemma, GapsAppended
<1>5. (Grown(0, 0) \/ Grown(2, 1))'
  <2>1. Len(answer) \in Nat /\ Cardinality(Gaps(answer)) \in Nat
    BY LenProperties, GapsFinite DEF CloseInv
  <2>2. Grown(-1, 0) => Grown(0, 0)'
    BY <1>2, <1>4, <2>1 DEF Grown
  <2>3. Grown(1, 1) => Grown(2, 1)'
    BY <1>2, <1>4, <2>1 DEF Grown
  <2> QED
    BY <1>2, <2>2, <2>3
<1>6. SpaceRight'
  BY <1>1, <1>2, <1>4 DEF SpaceRight
<1>7. (Len(eom) \in Holders)' /\ (eom[Len(eom)].date.sec \in start..clock)'
  <2>1. Len(eom') \in DOMAIN eom' /\ eom'[Len(eom')] = e
    BY <1>1, <1>4
  <2>2. clock \in start'..clock'
    BY <1>1, <1>2
  <2> QED
    BY <1>3, <2>1, <2>2 DEF Holders
<1> QED
  BY <1>1, <1>2, <1>5, <1>6, <1>7 DEF CloseInv, ClosedRight

LEMMA CloseEnd == IInv /\ CloseInv /\ CloseMetadata => CloseInv'
<1> SUFFICES ASSUME IInv, CloseInv, CloseMetadata PROVE CloseInv'
  OBVIOUS
<1> DEFINE n == Len(eom)
<1>1. /\ eom \in Seq(Nodes) /\ DOMAIN eom = 1..n /\ n \in Nat /\ space \in 0..n
      /\ Len(eom) = n /\ Len(answer) \in Nat /\ Cardinality(Gaps(answer)) \in Nat
  BY LenProperties, GapsFinite DEF IInv, TypeOK, CloseInv
<1>2. /\ UNCHANGED <<clock, start, answer>> /\ pc = "close" /\ pc' = "done"
      /\ eom' = IF space = 0 THEN eom ELSE RemoveAt(Append(eom, eom[space]), space)
      /\ SpaceRight /\ (Grown(0, 0) \/ Grown(2, 1))
      /\ n \in Holders /\ eom[n].date.sec \in start..clock
  BY DEF CloseMetadata, CloseInv
<1>3. n \in 1..n /\ eom[n].by = "proxy" /\ eom[n].kind # "space"
  BY <1>1, <1>2 DEF Holders, IInv, HoldersRight, IsLineage
<1> HIDE DEF n
<1>4. CASE space = 0
  <2>1. eom' = eom /\ Holders' = Holders
    BY <1>2, <1>4 DEF Holders
  <2>2. \A g \in DOMAIN answer : ~ LastGap(answer, g)
    BY <1>2, <1>4 DEF SpaceRight
  <2>3. \A i \in DOMAIN eom : ~ (i > n)
    BY <1>1
  <2>4. Closed'
    BY <1>2, <2>1, <2>2, <2>3 DEF Closed
  <2> QED
    BY <1>2, <2>4 DEF CloseInv, ClosedRight
<1>5. CASE space # 0
  <2> DEFINE e == eom[space]
             t == Append(eom, e)
  <2>1. space \in 1..n /\ e \in Nodes /\ e.kind = "space" /\ space # n
    <3>1. space \in 1..n /\ e.kind = "space"
      BY <1>1, <1>5 DEF IInv, PointersRight
    <3>2. e \in Nodes
      BY <1>1, <3>1
    <3> QED
      BY <1>3, <3>1, <3>2
  <2>2. eom' = RemoveAt(t, space)
    BY <1>2, <1>5
  <2>3. t[space] = e
    <3>1. \A i \in 1..Len(eom) : t[i] = eom[i]
      BY <1>1, <2>1, AppendLemma
    <3> HIDE DEF t
    <3> QED
      BY <1>1, <2>1, <3>1
  <2> HIDE DEF e
  <2>4. /\ t \in Seq(Nodes) /\ Len(t) = n + 1 /\ DOMAIN t = 1..(n + 1)
        /\ t[n] = eom[n] /\ t[n + 1] = e
        /\ Cardinality(Gaps(t)) = Cardinality(Gaps(eom)) + 1
    <3>1. Cardinality(Gaps(t)) = Cardinality(Gaps(eom)) + 1
      BY <1>1, <2>1, GapsAppended
    <3>2. /\ t \in Seq(Nodes) /\ Len(t) = Len(eom) + 1 /\ DOMAIN t = 1..(Len(eom) + 1)
          /\ t[Len(eom) + 1] = e /\ \A i \in 1..Len(eom) : t[i] = eom[i]
      BY <1>1, <2>1, AppendLemma
    <3> HIDE DEF t
    <3> QED
      BY <1>1, <1>3, <3>1, <3>2
  <2> HIDE DEF t
  <2>5. Len(eom') = n /\ DOMAIN eom' = 1..n
    <3>1. space \in 1..Len(t) /\ Len(t) - 1 = n
      BY <1>1, <2>1, <2>4
    <3> QED
      BY <2>2, <2>4, <3>1, RemoveAtLemma
  <2>6. \A j \in DOMAIN t : j # space =>
           /\ (IF j < space THEN j ELSE j - 1) \in DOMAIN eom'
           /\ eom'[IF j < space THEN j ELSE j - 1] = t[j]
    <3>1. space \in 1..Len(t)
      BY <1>1, <2>1, <2>4
    <3> QED
      BY <2>2, <2>4, <3>1, RemoveAtElements
  <2>7. eom'[n - 1] = eom[n] /\ n - 1 \in DOMAIN eom' /\ eom'[n] = e
    <3>1. /\ n \in DOMAIN t /\ n + 1 \in DOMAIN t /\ n + 1 # space
          /\ (IF n < space THEN n ELSE n - 1) = n - 1
          /\ (IF n + 1 < space THEN n + 1 ELSE (n + 1) - 1) = n
      BY <1>1, <1>3, <2>1, <2>4
    <3> QED
      BY <2>1, <2>4, <2>6, <3>1
  <2>8. Cardinality(Gaps(eom')) = Cardinality(Gaps(eom))
    <3>1. space \in 1..Len(t)
      BY <1>1, <2>1, <2>4
    <3>2. Cardinality(Gaps(eom')) = Cardinality(Gaps(t)) - 1
      BY <2>1, <2>2, <2>3, <2>4, <3>1, GapsRemoved
    <3>3. Cardinality(Gaps(eom)) \in Nat
      BY <1>1, GapsFinite
    <3> QED
      BY <2>4, <3>2, <3>3
  <2>9. \E k \in Holders' : /\ eom'[k].date.sec \in start'..clock'
                            /\ \A i \in DOMAIN eom' : i > k => eom'[i].kind = "space"
    <3>1. n - 1 \in Holders' /\ eom'[n - 1].date.sec \in start'..clock'
      BY <1>2, <1>3, <2>7 DEF Holders
    <3>2. \A i \in DOMAIN eom' : i > n - 1 => i = n
      BY <1>1, <2>5
    <3>3. \A i \in DOMAIN eom' : i > n - 1 => eom'[i].kind = "space"
      BY <2>1, <2>7, <3>2
    <3> QED
      BY <3>1, <3>3
  <2>10. ASSUME NEW g \in DOMAIN answer, LastGap(answer, g)
         PROVE  LET lines == Cardinality(Gaps(eom')) - Cardinality(Gaps(answer))
                IN  /\ eom'[Len(eom')] = answer[g]
                    /\ lines \in {0, 1}
                    /\ Len(eom') - Len(answer) = 2 * lines
    <3>1. eom'[Len(eom')] = answer[g]
      BY <1>2, <2>5, <2>7, <2>10 DEF SpaceRight, e
    <3>2. CASE Grown(0, 0)
      BY <1>1, <2>5, <2>8, <3>1, <3>2 DEF Grown
    <3>3. CASE Grown(2, 1)
      BY <1>1, <2>5, <2>8, <3>1, <3>3 DEF Grown
    <3> QED
      BY <1>2, <3>2, <3>3
  <2>11. Closed'
    BY <1>2, <2>9, <2>10 DEF Closed
  <2> QED
    BY <1>2, <2>11 DEF CloseInv, ClosedRight
<1> QED
  BY <1>4, <1>5

(***************************************************************************)
(* For any answer of the backend: the new lineage ends EOMetadata, dated   *)
(* since the request, and the white space is that of a lineage added in    *)
(* the place of the backend's, or of one more.                             *)
(***************************************************************************)
THEOREM ClosesRight == Spec => []ClosedRight
<1>1. Init => CloseInv
  <2> SUFFICES ASSUME Init PROVE CloseInv
    OBVIOUS
  <2>1. answer \in Seq(Nodes) /\ clock \in Int /\ start = clock /\ pc = "backend"
    BY NoEOMMade, MaxTimeAssumption DEF Init
  <2> QED
    BY <2>1 DEF CloseInv, ClosedRight
<1>2. IInv /\ CloseInv /\ [Next]_vars => CloseInv'
  BY CloseBefore, CloseDelete, CloseKeep, CloseAdd, CloseEnd DEF Next
<1>3. CloseInv => ClosedRight
  BY DEF CloseInv
<1> QED
  BY <1>1, <1>2, <1>3, Inductive, PTL DEF Spec
=============================================================================
