--------------------------- MODULE HeaderBlobProofs ---------------------------
(***************************************************************************)
(* For every buffer size, line size and stream: the head never overruns    *)
(* header_buf, it is exactly what was taken from the stream, its last      *)
(* Content-Type is found, and sp_load_header_blob never returns the -1 its *)
(* caller waits for.                                                       *)
(***************************************************************************)
EXTENDS HeaderBlob, TLAPS, WellFoundedInduction, SequenceTheorems, FiniteSetTheorems

\* A set of naturals that has a member has a least one.
LEMMA LeastNat ==
    ASSUME NEW T \in SUBSET Nat, T # {}
    PROVE  \E x \in T : \A y \in T : x <= y
<1> DEFINE R == OpToRel(<, Nat)
<1>1. \E x \in T : \A y \in T : ~ (<<y, x>> \in R)
  <2>1. IsWellFoundedOn(R, Nat)
    BY NatLessThanWellFounded
  <2> HIDE DEF R
  <2> QED
    BY <2>1, WFMin
<1>2. \A x, y \in Nat : y < x => <<y, x>> \in R
  BY DEF OpToRel
<1>3. PICK x \in T : \A y \in T : ~ (<<y, x>> \in R)
  BY <1>1
<1> HIDE DEF R
<1>4. \A y \in T : ~ (y < x)
  BY <1>2, <1>3
<1> QED
  BY <1>3, <1>4

\* The strlen of a string whose NUL is at most q characters away.
LEMMA StrlenFound ==
    ASSUME NEW m \in [0..(HeadLen - 1) -> Chars], NEW i \in 0..(HeadLen - 1),
           NEW q \in 0..(HeadLen - i - 1), m[i + q] = "nul"
    PROVE  Strlen(m, i) \in 0..q /\ m[i + Strlen(m, i)] = "nul"
<1> USE SizesAssumption
<1> DEFINE T == {k \in 0..(HeadLen - i - 1) : m[i + k] = "nul"}
<1> DEFINE Ends(k) == m[i + k] = "nul" /\ \A j \in 0..(k - 1) : m[i + j] # "nul"
<1>1. q \in T /\ T \in SUBSET Nat
  OBVIOUS
<1>2. PICK k \in T : \A y \in T : k <= y
  BY <1>1, LeastNat
<1>3. k \in 0..(HeadLen - i - 1) /\ Ends(k)
  <2>1. k \in 0..(HeadLen - i - 1) /\ m[i + k] = "nul"
    BY <1>2
  <2>2. ASSUME NEW j \in 0..(k - 1), m[i + j] = "nul" PROVE FALSE
    <3>1. j \in T
      BY <2>1, <2>2
    <3> QED
      BY <1>2, <2>1, <3>1
  <2> QED
    BY <2>1, <2>2
<1>4. /\ Strlen(m, i) \in 0..(HeadLen - i - 1)
      /\ Ends(Strlen(m, i))
  BY <1>3 DEF Strlen
<1> QED
  BY <1>4

\* What sp_copyline passes of a string whose NUL is q characters away: no
\* more than the NUL.
LEMMA PassedFound ==
    ASSUME TypeOK, NEW i \in 0..(HeadLen - 1),
           NEW q \in 0..(HeadLen - i - 1), mem[i + q] = "nul"
    PROVE  Passed(i) \in 0..(q + 1)
<1> USE SizesAssumption
<1> DEFINE Stops == {"lf", "nul"}
<1> DEFINE Stopped(k) == k = LineMax - 1 \/ (k > 0 /\ mem[i + k - 1] \in Stops)
<1> DEFINE T == {k \in 0..(LineMax - 1) : Stopped(k)}
<1>1. LineMax - 1 \in T /\ T \in SUBSET Nat
  OBVIOUS
<1>2. PICK k \in T : \A y \in T : k <= y
  BY <1>1, LeastNat
<1>3. \A j \in 0..(k - 2) : mem[i + j] \notin Stops
  <2> SUFFICES ASSUME NEW j \in 0..(k - 2), mem[i + j] \in Stops PROVE FALSE
    OBVIOUS
  <2>1. j + 1 \in 0..(LineMax - 1) /\ i + (j + 1) - 1 = i + j
    BY <1>2
  <2>2. j + 1 \in T
    BY <2>1
  <2> QED
    BY <1>2, <2>2
<1>4. /\ Passed(i) \in 0..(LineMax - 1)
      /\ \A j \in 0..(Passed(i) - 2) : mem[i + j] \notin Stops
  BY <1>2, <1>3 DEF Passed
<1> QED
  BY <1>4

(***************************************************************************)
(* The inductive invariant.                                                *)
(***************************************************************************)

\* While lines are loaded, buf_space is what the pointer leaves of the
\* buffer, the line fits in it, and a line not begun is an empty string.
Room ==
    pc \in {"getline", "line"} =>
        /\ space = HeadLen - line /\ total = line
        /\ line + pos <= HeadLen - 1
        /\ pos = 0 => mem[line] = "nul"
        /\ src = 0

\* While the parser is inside, a NUL lies before it.
Terminated ==
    pc = "parse" => \E q \in 0..(HeadLen - 1) : src <= q /\ mem[q] = "nul"

NeverTooBig == pc # "toobig"

HeadInv == TypeOK /\ Room /\ Terminated /\ NeverTooBig

LEMMA InitHead == Init => HeadInv
<1> SUFFICES ASSUME Init PROVE HeadInv
  OBVIOUS
<1> USE SizesAssumption DEF Init
<1>1. mem \in [0..(HeadLen - 1) -> Chars] /\ mem[0] = "nul"
  BY DEF Chars
<1>2. got \in Seq(Alphabet) /\ value \in Seq(Chars) \cup {NoValue}
  OBVIOUS
<1>3. line \in 0..(HeadLen - 1) /\ pos \in 0..(HeadLen - 1) /\ src \in 0..HeadLen
  OBVIOUS
<1>4. space \in 1..HeadLen /\ total \in 0..HeadLen
  OBVIOUS
<1>5. TypeOK
  BY <1>1, <1>2, <1>3, <1>4 DEF TypeOK
<1> QED
  BY <1>1, <1>5 DEF HeadInv, Room, Terminated, NeverTooBig

LEMMA StepHead == HeadInv /\ [Next]_vars => HeadInv'
<1> SUFFICES ASSUME HeadInv, [Next]_vars PROVE HeadInv'
  OBVIOUS
<1> USE SizesAssumption, AlphabetAssumption
<1>1. CASE LineFull
  BY <1>1 DEF HeadInv, TypeOK, Room, Terminated, NeverTooBig, LineFull, stream, buffer
<1>2. ASSUME NEW ch \in Chars, pc = "getline", space > pos + 1, Store(ch),
             got' \in Seq(Alphabet), ended' \in BOOLEAN, failed' \in BOOLEAN
      PROVE  HeadInv'
  <2> USE DEF HeadInv, TypeOK, Room, Terminated, NeverTooBig, Store, buffer
  <2>1. CASE ch = "cr"
    BY <1>2, <2>1
  <2>2. CASE ch # "cr"
    <3>1. line + pos \in 0..(HeadLen - 1) /\ line + pos + 1 <= HeadLen - 1
      BY <1>2
    <3>2. mem' \in [0..(HeadLen - 1) -> Chars]
      BY <1>2, <2>2, <3>1
    <3> QED
      BY <1>2, <2>2, <3>1, <3>2
  <2> QED
    BY <2>1, <2>2
<1>3. ASSUME NEW ch \in Alphabet, ReadChar(ch) PROVE HeadInv'
  <2>1. ch \in Chars /\ got' \in Seq(Alphabet)
    BY <1>3 DEF HeadInv, TypeOK, ReadChar
  <2> QED
    BY <1>2, <1>3, <2>1 DEF HeadInv, TypeOK, ReadChar
<1>4. ASSUME NEW ch \in Chars, ReadFail(ch) PROVE HeadInv'
  BY <1>2, <1>4 DEF HeadInv, TypeOK, ReadFail
<1>5. CASE ReadEnd
  BY <1>5 DEF HeadInv, TypeOK, Room, Terminated, NeverTooBig, ReadEnd, buffer
<1>6. CASE EndLine
  <2> DEFINE n == Strlen(Ended, line)
  <2> USE DEF HeadInv, TypeOK, Room, NeverTooBig
  <2>1. line + pos \in 0..(HeadLen - 1) /\ pos \in 0..(HeadLen - line - 1)
    BY <1>6 DEF EndLine
  <2>2. /\ Ended \in [0..(HeadLen - 1) -> Chars]
        /\ Ended[line + pos] = "nul"
    BY <2>1 DEF Ended, Chars
  <2>3. n \in 0..pos /\ Ended[line + n] = "nul"
    BY <2>1, <2>2, StrlenFound
  <2>4. space = HeadLen - line /\ total = line /\ src = 0
    BY <1>6 DEF EndLine
  <2>5. /\ mem' = Ended /\ space' = space - n /\ total' = total + n
        /\ UNCHANGED <<stream, c, src, value>>
    BY <1>6 DEF EndLine, TakeLine
  <2> HIDE DEF n
  <2>6. space' \in 1..HeadLen /\ total' \in 0..HeadLen
    BY <2>1, <2>3, <2>4, <2>5
  <2>7. \/ pc' = "parse" /\ UNCHANGED <<line, pos>>
        \/ pc' = "getline" /\ line' = line + n /\ pos' = 0
    BY <1>6, <2>1, <2>3, <2>4 DEF EndLine, TakeLine, n
  <2>8. Room'
    BY <2>1, <2>3, <2>4, <2>5, <2>7
  <2>9. Terminated'
    BY <2>1, <2>3, <2>4, <2>5, <2>7 DEF Terminated
  <2> QED
    BY <2>1, <2>2, <2>3, <2>5, <2>6, <2>7, <2>8, <2>9 DEF stream
<1>7. CASE ParseLine
  <2> DEFINE k == Passed(src)
  <2> USE DEF HeadInv, TypeOK
  <2>1. PICK q \in 0..(HeadLen - 1) : src <= q /\ mem[q] = "nul"
    BY <1>7 DEF ParseLine, Terminated
  <2>2. src \in 0..(HeadLen - 1) /\ q - src \in 0..(HeadLen - src - 1) /\ src + (q - src) = q
    BY <2>1
  <2>3. k \in 0..(q - src + 1)
    BY <2>1, <2>2, PassedFound
  <2>4. /\ src' = src + k /\ pc' \in {"past", "parse"}
        /\ pc' = "parse" => mem[src + k - 1] # "nul"
        /\ UNCHANGED <<stream, c, buffer>>
    BY <1>7 DEF ParseLine
  <2>5. Copied(src) \in Seq(Chars)
    <3> DEFINE n == IF k > 0 /\ mem[src + k - 1] \in {"lf", "nul"} THEN k - 1 ELSE k
    <3>1. n \in 0..(HeadLen - src)
      BY <2>1, <2>2, <2>3
    <3>2. \A j \in 1..n : mem[src + j - 1] \in Chars
      BY <2>2, <3>1
    <3>3. Copied(src) = [j \in 1..n |-> mem[src + j - 1]]
      BY DEF Copied
    <3> HIDE DEF n
    <3>4. Copied(src) \in [1..n -> Chars]
      BY <3>2, <3>3
    <3> QED
      BY <3>1, <3>4
  <2>6. value' \in Seq(Chars) \cup {NoValue}
    BY <1>7, <2>5 DEF ParseLine
  <2> HIDE DEF k
  <2>7. src' \in 0..HeadLen
    BY <2>2, <2>3, <2>4
  <2>8. Terminated'
    <3> SUFFICES ASSUME pc' = "parse" PROVE src' <= q /\ mem'[q] = "nul"
      BY <2>1 DEF Terminated
    <3>1. mem' = mem /\ q # src + k - 1
      BY <2>1, <2>4 DEF buffer
    <3> QED
      BY <2>1, <2>2, <2>3, <2>4, <3>1
  <2>9. TypeOK'
    BY <2>4, <2>6, <2>7 DEF stream, buffer
  <2> QED
    BY <2>4, <2>8, <2>9 DEF Room, NeverTooBig
<1>8. CASE ParseEnd
  BY <1>8 DEF HeadInv, TypeOK, Room, Terminated, NeverTooBig, ParseEnd, GoOn, stream, buffer
<1>9. ASSUME NEW v \in {value, <<"x">>}, ParsePast(v) PROVE HeadInv'
  <2>1. v \in Seq(Chars) \cup {NoValue}
    <3>1. <<"x">> \in Seq(Chars)
      BY DEF Chars
    <3> QED
      BY <1>9, <3>1 DEF HeadInv, TypeOK
  <2> QED
    BY <1>9, <2>1 DEF HeadInv, TypeOK, Room, Terminated, NeverTooBig, ParsePast, GoOn, stream, buffer
<1>10. CASE UNCHANGED vars
  BY <1>10 DEF HeadInv, TypeOK, Room, Terminated, NeverTooBig, vars, stream, buffer
<1> QED
  BY <1>1, <1>3, <1>4, <1>5, <1>6, <1>7, <1>8, <1>9, <1>10 DEF Next

\* Every pointer stays inside header_buf, whatever the stream holds: the room
\* sp_load_header_blob passes on is the room that is left.
THEOREM HeadFits == Spec => []TypeOK
<1> QED
  BY InitHead, StepHead, PTL DEF Spec, HeadInv

\* The branch of sp_build_response20 that reports oversized headers is dead:
\* getline always leaves room for its NUL, so buf_space never reaches 0.
THEOREM TooBigUnreachable == Spec => []NeverTooBig
<1> QED
  BY InitHead, StepHead, PTL DEF Spec, HeadInv

-----------------------------------------------------------------------------
(***************************************************************************)
(* Counting the characters that are kept.                                  *)
(***************************************************************************)
LEMMA KeptFacts ==
    ASSUME NEW r \in Seq(Chars)
    PROVE  /\ Kept(r, 0) = 0
           /\ \A k \in 0..Len(r) : Kept(r, k) \in Nat
           /\ \A k \in 1..Len(r) : r[k] # "cr" => Kept(r, k) \in 1..Kept(r, Len(r))
<1> DEFINE K(k) == {j \in 1..k : r[j] # "cr"}
<1>1. Len(r) \in Nat
  BY LenProperties
<1>2. \A k \in Nat : IsFiniteSet(K(k))
  <2> TAKE k \in Nat
  <2>1. IsFiniteSet(1..k) /\ K(k) \in SUBSET (1..k)
    BY FS_Interval
  <2> QED
    BY <2>1, FS_Subset
<1>3. \A k \in Nat : Kept(r, k) = Cardinality(K(k)) /\ Kept(r, k) \in Nat
  BY <1>2, FS_CardinalityType DEF Kept
<1>4. Kept(r, 0) = 0
  <2>1. K(0) = {}
    OBVIOUS
  <2> QED
    BY <1>3, <2>1, FS_EmptySet
<1>5. ASSUME NEW k \in 1..Len(r), r[k] # "cr" PROVE Kept(r, k) \in 1..Kept(r, Len(r))
  <2>1. k \in Nat /\ k \in K(k) /\ K(k) \in SUBSET K(Len(r))
    BY <1>1, <1>5
  <2>2. Kept(r, k) # 0
    <3>1. K(k) # {}
      BY <2>1
    <3> HIDE DEF K
    <3> QED
      BY <1>2, <1>3, <2>1, <3>1, FS_EmptySet
  <2> HIDE DEF K
  <2>3. Kept(r, k) <= Kept(r, Len(r))
    BY <1>1, <1>2, <1>3, <2>1, FS_Subset
  <2> QED
    BY <1>1, <1>3, <2>1, <2>2, <2>3
<1> HIDE DEF K
<1>6. \A k \in 0..Len(r) : Kept(r, k) \in Nat
  <2> TAKE k \in 0..Len(r)
  <2>1. k \in Nat
    BY <1>1
  <2> QED
    BY <1>3, <2>1
<1>7. \A k \in 1..Len(r) : r[k] # "cr" => Kept(r, k) \in 1..Kept(r, Len(r))
  BY <1>5
<1> QED
  BY <1>4, <1>6, <1>7

LEMMA KeptAppended ==
    ASSUME NEW r \in Seq(Chars), NEW ch \in Chars
    PROVE  LET v == Append(r, ch)
           IN  /\ v \in Seq(Chars) /\ Len(v) = Len(r) + 1
               /\ v[Len(v)] = ch
               /\ \A k \in 1..Len(r) : v[k] = r[k]
               /\ \A k \in 0..Len(r) : Kept(v, k) = Kept(r, k)
               /\ Kept(v, Len(v)) = Kept(r, Len(r)) + IF ch = "cr" THEN 0 ELSE 1
<1> DEFINE v == Append(r, ch)
           n == Len(r)
           K == {j \in 1..n : r[j] # "cr"}
           L == {j \in 1..(n + 1) : v[j] # "cr"}
<1>1. /\ v \in Seq(Chars) /\ Len(v) = n + 1 /\ n \in Nat
      /\ v[n + 1] = ch /\ \A k \in 1..n : v[k] = r[k]
  BY AppendProperties, LenProperties
<1> HIDE DEF v
<1>2. \A k \in 0..n : Kept(v, k) = Kept(r, k)
  <2> TAKE k \in 0..n
  <2>1. {j \in 1..k : v[j] # "cr"} = {j \in 1..k : r[j] # "cr"}
    BY <1>1
  <2> QED
    BY <2>1 DEF Kept
<1>3. Kept(v, n + 1) = Kept(r, n) + IF ch = "cr" THEN 0 ELSE 1
  <2>1. L = IF ch = "cr" THEN K ELSE K \cup {n + 1}
    BY <1>1
  <2>2. n + 1 \notin K
    BY <1>1
  <2>3. IsFiniteSet(K)
    <3>1. IsFiniteSet(1..n) /\ K \in SUBSET (1..n)
      BY <1>1, FS_Interval
    <3> HIDE DEF K
    <3> QED
      BY <3>1, FS_Subset
  <2>4. Kept(v, n + 1) = Cardinality(L) /\ Kept(r, n) = Cardinality(K)
    BY DEF Kept
  <2> HIDE DEF K, L
  <2>5. Cardinality(K) \in Nat
    BY <2>3, FS_CardinalityType
  <2>6. Cardinality(K \cup {n + 1}) = Cardinality(K) + 1
    BY <2>2, <2>3, FS_AddElement
  <2>7. CASE ch = "cr"
    BY <2>1, <2>4, <2>5, <2>7
  <2>8. CASE ch # "cr"
    BY <2>1, <2>4, <2>6, <2>8
  <2> QED
    BY <2>7, <2>8
<1> QED
  BY <1>1, <1>2, <1>3 DEF v

-----------------------------------------------------------------------------
(***************************************************************************)
(* What the buffer holds while it is filled and after.                     *)
(***************************************************************************)
BlankAt(m, i) == m[i] = "lf" /\ (i = 0 \/ m[i - 1] = "lf")

\* The first n characters of m are those of r that are kept.
Mirrors(m, n, r) ==
    /\ n = Kept(r, Len(r))
    /\ \A k \in 1..Len(r) : r[k] # "cr" => m[Kept(r, k) - 1] = r[k]
    /\ \A i \in 0..(n - 1) : m[i] # "nul"

Filling == pc \in {"getline", "line"}

\* A line before the current one is not blank, and the current one ends where
\* its newline, the stream or the buffer does.
Lines ==
    Filling /\ Proper =>
        /\ Mirrors(mem, line + pos, got)
        /\ line > 0 => mem[line - 1] = "lf" \/ ended \/ line = HeadLen - 1
        /\ \A i \in 0..(line - 1) : ~BlankAt(mem, i)
        /\ \A i \in line..(line + pos - 1) : mem[i] = "lf" => pc = "line" /\ i = line + pos - 1
        /\ pc = "line" =>
              (pos > 0 /\ mem[line + pos - 1] = "lf") \/ ended \/ line + pos = HeadLen - 1

Complete ==
    Loaded /\ Proper =>
        /\ total \in 0..(HeadLen - 1) /\ mem[total] = "nul"
        /\ Mirrors(mem, total, got)
        /\ \A i \in 0..(total - 2) : ~BlankAt(mem, i)
        /\ (total > 0 /\ BlankAt(mem, total - 1)) \/ ended \/ total = HeadLen - 1

ExactInv == Lines /\ Complete

LEMMA InitExact == Init => ExactInv
<1> SUFFICES ASSUME Init PROVE ExactInv
  OBVIOUS
<1>1. got = <<>> /\ Len(got) = 0 /\ got \in Seq(Chars)
  BY DEF Init
<1>2. Kept(got, Len(got)) = 0
  BY <1>1, KeptFacts
<1>3. Mirrors(mem, 0, got)
  BY <1>1, <1>2 DEF Mirrors
<1>4. line = 0 /\ pos = 0 /\ pc = "getline"
  BY DEF Init
<1> QED
  BY <1>3, <1>4 DEF ExactInv, Lines, Complete, Loaded

\* A character put behind the first n.
LEMMA MirrorsMore ==
    ASSUME NEW r \in Seq(Chars), NEW ch \in Chars, ch # "nul",
           NEW n \in 0..(HeadLen - 1), NEW m \in [0..(HeadLen - 1) -> Chars], Mirrors(m, n, r)
    PROVE  IF ch = "cr" THEN Mirrors(m, n, Append(r, ch))
           ELSE Mirrors([m EXCEPT ![n] = ch], n + 1, Append(r, ch))
<1> USE SizesAssumption
<1> DEFINE v == Append(r, ch)
           w == [m EXCEPT ![n] = ch]
<1>1. /\ v \in Seq(Chars) /\ Len(v) = Len(r) + 1 /\ Len(r) \in Nat /\ v[Len(v)] = ch
      /\ \A k \in 1..Len(r) : v[k] = r[k] /\ Kept(v, k) = Kept(r, k)
      /\ Kept(v, Len(v)) = Kept(r, Len(r)) + IF ch = "cr" THEN 0 ELSE 1
  <2>1. Len(r) \in Nat
    BY LenProperties
  <2> QED
    BY <2>1, KeptAppended
<1>2. n = Kept(r, Len(r)) /\ \A k \in 1..Len(r) : r[k] # "cr" => Kept(r, k) \in 1..n
  BY KeptFacts DEF Mirrors
<1>3. w[n] = ch /\ \A i \in 0..(n - 1) : w[i] = m[i]
  OBVIOUS
<1> HIDE DEF v, w
<1>4. CASE ch = "cr"
  <2>1. \A k \in 1..Len(v) : v[k] # "cr" => k \in 1..Len(r)
    BY <1>1, <1>4
  <2>2. \A k \in 1..Len(v) : v[k] # "cr" => m[Kept(v, k) - 1] = v[k]
    BY <1>1, <2>1 DEF Mirrors
  <2>3. n = Kept(v, Len(v))
    BY <1>1, <1>2, <1>4
  <2>4. Mirrors(m, n, v)
    BY <2>2, <2>3 DEF Mirrors
  <2> QED
    BY <1>4, <2>4 DEF v
<1>5. CASE ch # "cr"
  <2>1. n + 1 = Kept(v, Len(v))
    BY <1>1, <1>2, <1>5
  <2>2. ASSUME NEW k \in 1..Len(v), v[k] # "cr" PROVE w[Kept(v, k) - 1] = v[k]
    <3>1. CASE k = Len(v)
      BY <1>1, <1>3, <2>1, <3>1
    <3>2. CASE k # Len(v)
      <4>1. k \in 1..Len(r) /\ Kept(v, k) = Kept(r, k) /\ v[k] = r[k]
        BY <1>1, <2>2, <3>2
      <4>2. Kept(r, k) - 1 \in 0..(n - 1) /\ m[Kept(r, k) - 1] = r[k]
        BY <1>2, <2>2, <4>1 DEF Mirrors
      <4> QED
        BY <1>3, <4>1, <4>2
    <3> QED
      BY <3>1, <3>2
  <2>3. \A i \in 0..n : w[i] # "nul"
    BY <1>3 DEF Mirrors
  <2>4. Mirrors(w, n + 1, v)
    BY <2>1, <2>2, <2>3 DEF Mirrors
  <2> QED
    BY <1>5, <2>4 DEF v, w
<1> QED
  BY <1>4, <1>5

\* The NUL behind the first n changes none of them.
LEMMA MirrorsEnded ==
    ASSUME NEW r \in Seq(Chars), NEW n \in 0..(HeadLen - 1),
           NEW m \in [0..(HeadLen - 1) -> Chars], Mirrors(m, n, r)
    PROVE  Mirrors([m EXCEPT ![n] = "nul"], n, r)
<1> USE SizesAssumption
<1> DEFINE w == [m EXCEPT ![n] = "nul"]
<1>1. \A i \in 0..(n - 1) : w[i] = m[i]
  OBVIOUS
<1>2. n = Kept(r, Len(r)) /\ \A k \in 1..Len(r) : r[k] # "cr" => Kept(r, k) \in 1..n
  BY KeptFacts DEF Mirrors
<1> HIDE DEF w
<1>3. \A k \in 1..Len(r) : r[k] # "cr" => w[Kept(r, k) - 1] = r[k]
  <2> TAKE k \in 1..Len(r)
  <2> HAVE r[k] # "cr"
  <2>1. Kept(r, k) - 1 \in 0..(n - 1)
    BY <1>2
  <2> QED
    BY <1>1, <2>1 DEF Mirrors
<1>4. Mirrors(w, n, r)
  BY <1>1, <1>2, <1>3 DEF Mirrors
<1> QED
  BY <1>4 DEF w

LEMMA ReadCharExact ==
    ASSUME HeadInv, ExactInv, NEW ch \in Alphabet, ReadChar(ch) PROVE ExactInv'
<1> USE SizesAssumption
<1>1. /\ ch \in Chars /\ got \in Seq(Chars) /\ got' = Append(got, ch)
      /\ pc = "getline" /\ UNCHANGED <<ended, failed, line, space, total>>
      /\ line + pos \in 0..(HeadLen - 2) /\ line \in 0..(HeadLen - 1) /\ pos \in 0..(HeadLen - 1)
      /\ mem \in [0..(HeadLen - 1) -> Chars]
  <2>1. ch \in Chars
    BY AlphabetAssumption
  <2>2. got \in Seq(Chars)
    BY AlphabetAssumption, SeqMonotonic DEF HeadInv, TypeOK
  <2> QED
    BY <2>1, <2>2 DEF HeadInv, TypeOK, Room, ReadChar, Store, buffer
<1>2. SUFFICES ASSUME Proper' PROVE ExactInv'
  <2>1. pc' \in {"getline", "line"}
    BY <1>1 DEF ReadChar, Store
  <2> QED
    BY <1>2, <2>1 DEF ExactInv, Lines, Complete, Loaded, Filling
<1>3. Proper /\ ch # "nul"
  <2>1. /\ Len(got') = Len(got) + 1 /\ got'[Len(got) + 1] = ch /\ Len(got) \in Nat
        /\ \A k \in 1..Len(got) : got'[k] = got[k]
    BY <1>1, AppendProperties, LenProperties
  <2> QED
    BY <1>1, <1>2, <2>1 DEF Proper
<1>4. /\ Mirrors(mem, line + pos, got)
      /\ line > 0 => mem[line - 1] = "lf" \/ ended \/ line = HeadLen - 1
      /\ \A i \in 0..(line - 1) : ~BlankAt(mem, i)
      /\ \A i \in line..(line + pos - 1) : mem[i] # "lf"
  BY <1>1, <1>3 DEF ExactInv, Lines, Filling
<1>5. CASE ch = "cr"
  <2>1. UNCHANGED <<pc, mem, pos>>
    BY <1>5 DEF ReadChar, Store, buffer
  <2>2. Mirrors(mem, line + pos, got')
    BY <1>1, <1>4, <1>5, MirrorsMore, 0 <= HeadLen - 1, line + pos \in 0..(HeadLen - 1)
  <2> QED
    BY <1>1, <1>4, <2>1, <2>2 DEF ExactInv, Lines, Complete, Loaded, Filling, BlankAt
<1>6. CASE ch # "cr"
  <2>1. /\ mem' = [mem EXCEPT ![line + pos] = ch] /\ pos' = pos + 1
        /\ pc' = IF ch = "lf" THEN "line" ELSE "getline"
    BY <1>3, <1>6 DEF ReadChar, Store
  <2>2. line + pos \in 0..(HeadLen - 1)
    BY <1>1
  <2>3. Mirrors(mem', line + pos + 1, got')
    BY <1>1, <1>3, <1>4, <1>6, <2>1, <2>2, MirrorsMore
  <2>4. mem'[line + pos] = ch /\ \A i \in 0..(line + pos - 1) : mem'[i] = mem[i]
    BY <1>1, <2>1, <2>2
  <2>5. line > 0 => mem'[line - 1] = "lf" \/ ended \/ line = HeadLen - 1
    BY <1>1, <1>4, <2>4
  <2>6. \A i \in 0..(line - 1) : ~BlankAt(mem', i)
    BY <1>1, <1>4, <2>4 DEF BlankAt
  <2>7. \A i \in line..(line + pos) : mem'[i] = "lf" => pc' = "line" /\ i = line + pos
    BY <1>1, <1>4, <2>1, <2>4
  <2>8. pc' = "line" => mem'[line + pos] = "lf"
    BY <2>1, <2>4
  <2>9. line' = line /\ ended' = ended /\ line + pos' = line + pos + 1 /\ pos' > 0
        /\ line + pos' - 1 = line + pos
    BY <1>1, <2>1
  <2>10. Lines'
    BY <2>3, <2>5, <2>6, <2>7, <2>8, <2>9 DEF Lines
  <2>11. Complete'
    BY <2>1 DEF Complete, Loaded
  <2> QED
    BY <2>10, <2>11 DEF ExactInv
<1> QED
  BY <1>5, <1>6

LEMMA EndLineExact ==
    ASSUME HeadInv, ExactInv, EndLine PROVE ExactInv'
<1> USE SizesAssumption
<1> DEFINE n == Strlen(Ended, line)
<1>1. /\ pc = "line" /\ got \in Seq(Chars) /\ UNCHANGED <<got, ended, failed>>
      /\ line + pos \in 0..(HeadLen - 1) /\ line \in 0..(HeadLen - 1) /\ pos \in 0..(HeadLen - 1)
      /\ mem \in [0..(HeadLen - 1) -> Chars]
      /\ total = line /\ space = HeadLen - line
  <2>1. got \in Seq(Chars)
    BY AlphabetAssumption, SeqMonotonic DEF HeadInv, TypeOK
  <2> QED
    BY <2>1 DEF HeadInv, TypeOK, Room, EndLine, TakeLine, stream
<1>2. SUFFICES ASSUME Proper PROVE ExactInv'
  BY <1>1 DEF ExactInv, Lines, Complete, Proper
<1>3. /\ Mirrors(mem, line + pos, got)
      /\ \A i \in 0..(line - 1) : ~BlankAt(mem, i)
      /\ line > 0 => mem[line - 1] = "lf" \/ ended \/ line = HeadLen - 1
      /\ \A i \in line..(line + pos - 1) : mem[i] = "lf" => i = line + pos - 1
      /\ (pos > 0 /\ mem[line + pos - 1] = "lf") \/ ended \/ line + pos = HeadLen - 1
  BY <1>1, <1>2 DEF ExactInv, Lines, Filling
<1>4. /\ Ended \in [0..(HeadLen - 1) -> Chars] /\ Ended[line + pos] = "nul"
      /\ \A i \in 0..(line + pos - 1) : Ended[i] = mem[i] /\ mem[i] # "nul"
      /\ Mirrors(Ended, line + pos, got)
  BY <1>1, <1>3, MirrorsEnded DEF Ended, Chars, Mirrors
<1>5. n = pos
  <2>1. pos \in 0..(HeadLen - line - 1)
    BY <1>1
  <2>2. n \in 0..pos /\ Ended[line + n] = "nul"
    BY <1>1, <1>4, <2>1, StrlenFound
  <2>3. line + n \notin 0..(line + pos - 1)
    BY <1>4, <2>2
  <2> HIDE DEF n
  <2> QED
    BY <1>1, <2>2, <2>3
<1>6. mem' = Ended /\ total' = line + pos
  BY <1>1, <1>5 DEF EndLine, TakeLine, n
<1>7. space - n >= 1
  BY <1>1, <1>5
<1> HIDE DEF n
<1>8. \A i \in 0..(line - 1) : ~BlankAt(mem', i)
  BY <1>1, <1>3, <1>4, <1>6 DEF BlankAt
<1>9. CASE Ended[line] \in {"lf", "nul"}
  <2>1. pc' = "parse"
    BY <1>7, <1>9 DEF EndLine, TakeLine, n
  <2>2. CASE pos = 0
    <3>1. total' = line /\ (ended \/ line = HeadLen - 1)
      BY <1>1, <1>3, <1>6, <2>2
    <3>2. Complete'
      BY <1>1, <1>4, <1>6, <1>8, <2>2, <3>1 DEF Complete
    <3> QED
      BY <2>1, <3>2 DEF ExactInv, Lines, Filling
  <2>3. CASE pos # 0
    <3>1. Ended[line] = mem[line] /\ mem[line] = "lf" /\ pos = 1
      BY <1>1, <1>3, <1>4, <1>9, <2>3
    <3>2. \/ BlankAt(mem', line) \/ ended
      BY <1>1, <1>3, <1>4, <1>6, <3>1 DEF BlankAt
    <3>3. total' = line + 1 /\ total' - 1 = line /\ total' - 2 = line - 1 /\ total' > 0
          /\ total' \in 0..(HeadLen - 1) /\ mem'[total'] = "nul" /\ Mirrors(mem', total', got')
      BY <1>1, <1>4, <1>6, <3>1
    <3>4. Complete'
      BY <1>1, <1>8, <3>2, <3>3 DEF Complete
    <3> QED
      BY <2>1, <3>4 DEF ExactInv, Lines, Filling
  <2> QED
    BY <2>2, <2>3
<1>10. CASE Ended[line] \notin {"lf", "nul"}
  <2>1. pc' = "getline" /\ line' = line + pos /\ pos' = 0
    BY <1>5, <1>7, <1>10 DEF EndLine, TakeLine, n
  <2>2. pos # 0
    BY <1>1, <1>4, <1>10
  <2>3. mem'[line' - 1] = "lf" \/ ended' \/ line' = HeadLen - 1
    BY <1>1, <1>3, <1>4, <1>6, <2>1, <2>2
  <2>4. \A i \in 0..(line' - 1) : ~BlankAt(mem', i)
    <3> SUFFICES ASSUME NEW i \in line..(line + pos - 1), BlankAt(mem', i) PROVE FALSE
      BY <1>1, <1>8, <2>1
    <3>1. mem'[i] = mem[i] /\ mem[i] = "lf" /\ i = line + pos - 1
      BY <1>1, <1>3, <1>4, <1>6 DEF BlankAt
    <3>2. i # line
      BY <1>6, <1>10, <3>1
    <3>3. i - 1 \in line..(line + pos - 1) /\ i > 0 /\ mem[i - 1] = mem'[i - 1]
      BY <1>1, <1>4, <1>6, <3>1, <3>2
    <3>4. mem[i - 1] = "lf"
      BY <3>3 DEF BlankAt
    <3> QED
      BY <1>3, <3>1, <3>3, <3>4
  <2>5. Mirrors(mem', line' + pos', got')
    BY <1>1, <1>4, <1>6, <2>1
  <2>6. line'..(line' + pos' - 1) = {}
    BY <1>1, <2>1
  <2>7. Lines'
    BY <2>1, <2>3, <2>4, <2>5, <2>6 DEF Lines
  <2>8. Complete'
    BY <2>1 DEF Complete, Loaded
  <2> QED
    BY <2>7, <2>8 DEF ExactInv
<1> QED
  BY <1>9, <1>10

LEMMA StepExact == HeadInv /\ ExactInv /\ [Next]_vars => ExactInv'
<1> SUFFICES ASSUME HeadInv, ExactInv, [Next]_vars PROVE ExactInv'
  OBVIOUS
<1> USE SizesAssumption
<1>1. CASE LineFull
  <2>1. /\ UNCHANGED <<got, ended, failed, mem, line, pos, total>> /\ pc = "getline" /\ pc' = "line"
        /\ line + pos = HeadLen - 1
    BY <1>1 DEF LineFull, stream, buffer, HeadInv, TypeOK, Room
  <2>2. (Proper' <=> Proper) /\ Filling
    BY <2>1 DEF Proper, Filling
  <2> QED
    BY <2>1, <2>2 DEF ExactInv, Lines, Complete, Loaded, BlankAt
<1>2. ASSUME NEW ch \in Chars, ReadFail(ch) PROVE ExactInv'
  BY <1>2 DEF ReadFail, ExactInv, Lines, Complete, Proper
<1>3. CASE ReadEnd
  <2>1. /\ UNCHANGED <<got, failed, mem, line, pos, total>> /\ pc = "getline" /\ ended'
        /\ pc' = IF pos = 0 THEN "parse" ELSE "line"
    BY <1>3 DEF ReadEnd, buffer
  <2>2. (Proper' <=> Proper) /\ Filling
    BY <2>1 DEF Proper, Filling
  <2>3. CASE pos = 0
    <3>1. line + pos = line /\ mem[line] = "nul" /\ total = line /\ line \in 0..(HeadLen - 1)
      BY <2>1, <2>3 DEF HeadInv, TypeOK, Room
    <3>2. Proper => Mirrors(mem, line, got) /\ \A i \in 0..(line - 1) : ~BlankAt(mem, i)
      BY <2>2, <3>1 DEF ExactInv, Lines
    <3>3. Complete'
      BY <2>1, <2>2, <3>1, <3>2 DEF Complete, BlankAt
    <3> QED
      BY <2>1, <2>3, <3>3 DEF ExactInv, Lines, Filling
  <2>4. CASE pos # 0
    BY <2>1, <2>2, <2>4 DEF ExactInv, Lines, Complete, Loaded, BlankAt
  <2> QED
    BY <2>3, <2>4
<1>4. ASSUME Loaded, Loaded', UNCHANGED <<got, ended, failed, mem, total>> PROVE ExactInv'
  BY <1>4 DEF ExactInv, Lines, Filling, Complete, Loaded, Proper, BlankAt
<1>5. CASE ParseLine
  BY <1>4, <1>5 DEF ParseLine, Loaded, stream, buffer
<1>6. CASE ParseEnd
  BY <1>4, <1>6 DEF ParseEnd, GoOn, Loaded, stream, buffer
<1>7. ASSUME NEW v \in {value, <<"x">>}, ParsePast(v) PROVE ExactInv'
  BY <1>4, <1>7 DEF ParsePast, GoOn, Loaded, stream, buffer
<1>8. CASE UNCHANGED vars
  BY <1>8 DEF vars, stream, buffer, ExactInv, Lines, Filling, Complete, Loaded, Proper, BlankAt
<1> QED
  BY <1>1, <1>2, <1>3, <1>5, <1>6, <1>7, <1>8, ReadCharExact, EndLineExact DEF Next

-----------------------------------------------------------------------------
(***************************************************************************)
(* From the buffer to the string in it.                                    *)
(***************************************************************************)
LEMMA TextExact ==
    ASSUME HeadInv, ExactInv, Loaded, Proper
    PROVE  /\ Text(mem, 0) \in Seq(Chars) /\ Len(Text(mem, 0)) = total
           /\ \A j \in 1..total : Text(mem, 0)[j] = mem[j - 1]
<1> USE SizesAssumption
<1>1. /\ mem \in [0..(HeadLen - 1) -> Chars] /\ total \in 0..(HeadLen - 1) /\ mem[total] = "nul"
      /\ \A i \in 0..(total - 1) : mem[i] # "nul"
  BY DEF HeadInv, TypeOK, ExactInv, Complete, Mirrors
<1>2. Strlen(mem, 0) \in 0..total /\ mem[Strlen(mem, 0)] = "nul"
  <2>1. total \in 0..(HeadLen - 0 - 1) /\ mem[0 + total] = "nul" /\ 0 \in 0..(HeadLen - 1)
    BY <1>1
  <2>2. Strlen(mem, 0) \in 0..total /\ mem[0 + Strlen(mem, 0)] = "nul"
    BY <1>1, <2>1, StrlenFound
  <2> QED
    BY <2>2
<1>3. Strlen(mem, 0) = total
  BY <1>1, <1>2
<1>4. Text(mem, 0) = [j \in 1..total |-> mem[j - 1]]
  BY <1>3 DEF Text
<1>5. Text(mem, 0) \in [1..total -> Chars]
  BY <1>1, <1>4
<1> QED
  BY <1>1, <1>4, <1>5, IsASeq

\* header_buf holds the head and nothing else, and the body is untouched.
THEOREM HeadRead == Spec => []HeadExact
<1>1. HeadInv /\ ExactInv => HeadExact
  <2> SUFFICES ASSUME HeadInv, ExactInv, Loaded, Proper PROVE HeadExact
    BY DEF HeadExact
  <2> DEFINE head == Text(mem, 0)
  <2>1. /\ head \in Seq(Chars) /\ Len(head) = total
        /\ \A j \in 1..total : head[j] = mem[j - 1]
    BY TextExact
  <2>2. /\ total \in Nat /\ total = Kept(got, Len(got))
        /\ \A k \in 1..Len(got) : got[k] # "cr" => mem[Kept(got, k) - 1] = got[k]
        /\ \A i \in 0..(total - 2) : ~BlankAt(mem, i)
        /\ (total > 0 /\ BlankAt(mem, total - 1)) \/ ended \/ total = HeadLen - 1
    BY DEF ExactInv, Complete, Mirrors
  <2> HIDE DEF head
  <2>3. \A k \in 1..Len(got) : got[k] # "cr" => head[Kept(got, k)] = got[k]
    <3>1. got \in Seq(Chars)
      BY AlphabetAssumption, SeqMonotonic DEF HeadInv, TypeOK
    <3>2. \A k \in 1..Len(got) : got[k] # "cr" => Kept(got, k) \in 1..total
      BY <2>2, <3>1, KeptFacts
    <3> QED
      BY <2>1, <2>2, <3>2
  <2>4. \A i \in 1..(total - 1) : ~Whole(SubSeq(head, 1, i))
    <3> TAKE i \in 1..(total - 1)
    <3> DEFINE s == SubSeq(head, 1, i)
    <3>1. Len(s) = i /\ \A j \in 1..i : s[j] = head[j]
      <4>1. \A j \in 1..i : head[j] \in Chars
        BY <2>1, <2>2, ElementOfSeq
      <4>2. Len(s) = IF 1 <= i THEN i - 1 + 1 ELSE 0
        BY <4>1, SubSeqProperties
      <4>3. \A j \in 1..(i - 1 + 1) : s[j] = head[1 + j - 1]
        BY <4>1, SubSeqProperties
      <4> QED
        BY <4>2, <4>3
    <3> HIDE DEF s
    <3>2. ASSUME Whole(s) PROVE FALSE
      <4>1. s[i] = "lf" /\ (i = 1 \/ s[i - 1] = "lf")
        BY <3>1, <3>2 DEF Whole
      <4>2. i - 1 \in 0..(total - 2) /\ mem[i - 1] = "lf"
        BY <2>1, <2>2, <3>1, <4>1
      <4>3. i = 1 \/ mem[i - 2] = "lf"
        <5>1. i # 1 => i - 1 \in 1..i /\ i - 1 \in 1..total /\ (i - 1) - 1 = i - 2
          BY <2>2
        <5> QED
          BY <2>1, <3>1, <4>1, <5>1
      <4>4. BlankAt(mem, i - 1)
        BY <4>2, <4>3 DEF BlankAt
      <4> QED
        BY <2>2, <4>2, <4>4
    <3> QED
      BY <3>2 DEF s
  <2>5. total > 0 /\ BlankAt(mem, total - 1) => Whole(head)
    <3> SUFFICES ASSUME total > 0, BlankAt(mem, total - 1) PROVE Whole(head)
      OBVIOUS
    <3>1. head # <<>>
      BY <2>1
    <3>2. ASSUME NEW i \in 1..total
          PROVE  (head[i] = "lf" /\ (i = 1 \/ head[i - 1] = "lf")) <=> BlankAt(mem, i - 1)
      <4>1. head[i] = mem[i - 1]
        BY <2>1
      <4>2. i # 1 => i - 1 \in 1..total /\ head[i - 1] = mem[(i - 1) - 1]
        BY <2>1, <2>2
      <4> QED
        BY <4>1, <4>2 DEF BlankAt
    <3>3. \A i \in 1..total : BlankAt(mem, i - 1) <=> i = total
      <4> TAKE i \in 1..total
      <4>1. i # total => i - 1 \in 0..(total - 2)
        BY <2>2
      <4> QED
        BY <2>2, <4>1
    <3> QED
      BY <2>1, <3>1, <3>2, <3>3 DEF Whole
  <2> QED
    BY <2>1, <2>2, <2>3, <2>4, <2>5 DEF HeadExact, head
<1>2. HeadInv /\ ExactInv /\ [Next]_vars => (HeadInv /\ ExactInv)'
  BY StepHead, StepExact
<1> QED
  BY <1>1, <1>2, InitHead, InitExact, PTL DEF Spec

-----------------------------------------------------------------------------
(***************************************************************************)
(* The parser on a head that is whole and has no line longer than tmpBuf.  *)
(***************************************************************************)

\* What the caller may rely on then, by index into header_buf.
Benign ==
    /\ total > 0 /\ BlankAt(mem, total - 1)
    /\ \A i \in 0..(total - 1) :
          i + LineMax - 1 <= total => \E j \in i..(i + LineMax - 2) : mem[j] = "lf"

Start(i) == mem[i] = "key" /\ (i = 0 \/ mem[i - 1] = "lf")

\* The line that starts at i ends at e.
LineIs(i, e) == mem[e] = "lf" /\ \A j \in i..(e - 1) : mem[j] # "lf"

\* v is the value of the last Content-Type line that starts before n.
ValueOf(v, n) ==
    \/ v = NoValue /\ \A i \in 0..(n - 1) : ~Start(i)
    \/ \E i \in 0..(n - 1), e \in 0..(n - 1) :
          /\ i < e /\ Start(i) /\ LineIs(i, e)
          /\ \A j \in (i + 1)..(n - 1) : ~Start(j)
          /\ v = [j \in 1..(e - i - 1) |-> mem[i + j]]

ParserInv ==
    /\ Filling => value = NoValue
    /\ Loaded /\ Proper /\ Benign =>
          /\ pc # "past"
          /\ pc = "parse" =>
                /\ src \in 0..(total - 1) /\ (src = 0 \/ mem[src - 1] = "lf")
                /\ ValueOf(value, src)
          /\ pc \in {"no_type", "body"} => ValueOf(value, total)

\* A line behind which another follows: sp_copyline passes it and its newline.
LEMMA LinePassed ==
    ASSUME HeadInv, ExactInv, Loaded, Proper, Benign,
           NEW i \in 0..(total - 2), i = 0 \/ mem[i - 1] = "lf"
    PROVE  \E e \in (i + 1)..(total - 2) :
              /\ LineIs(i, e) /\ Passed(i) = e - i + 1
              /\ Copied(i) = [j \in 1..(e - i) |-> mem[i + j - 1]]
<1> USE SizesAssumption
<1>1. /\ total \in 0..(HeadLen - 1) /\ mem[total - 1] = "lf" /\ mem[total - 2] = "lf"
      /\ \A j \in 0..(total - 1) : mem[j] # "nul"
      /\ mem[i] # "lf"
  <2>1. /\ total \in 0..(HeadLen - 1) /\ \A j \in 0..(total - 1) : mem[j] # "nul"
        /\ \A j \in 0..(total - 2) : ~BlankAt(mem, j)
    BY DEF ExactInv, Complete, Mirrors
  <2>2. mem[total - 1] = "lf" /\ mem[total - 2] = "lf"
    BY <2>1 DEF Benign, BlankAt
  <2> QED
    BY <2>1, <2>2 DEF BlankAt
<1> DEFINE T == {j \in i..(total - 1) : mem[j] = "lf"}
<1>2. total - 2 \in T /\ T \in SUBSET Nat
  BY <1>1
<1>3. PICK e \in T : \A j \in T : e <= j
  BY <1>2, LeastNat
<1>4. e \in (i + 1)..(total - 2) /\ LineIs(i, e)
  <2>1. e \in i..(total - 2) /\ mem[e] = "lf"
    BY <1>1, <1>2, <1>3
  <2>2. \A j \in i..(e - 1) : mem[j] # "lf"
    <3> SUFFICES ASSUME NEW j \in i..(e - 1), mem[j] = "lf" PROVE FALSE
      OBVIOUS
    <3>1. j \in T
      BY <1>1, <2>1
    <3> QED
      BY <1>1, <1>3, <2>1, <3>1
  <2> QED
    BY <1>1, <2>1, <2>2 DEF LineIs
<1>5. e - i + 1 \in 0..(LineMax - 1)
  <2>1. CASE i + LineMax - 1 <= total
    <3>1. PICK j \in i..(i + LineMax - 2) : mem[j] = "lf"
      <4>1. i \in 0..(total - 1)
        BY <1>1
      <4> QED
        BY <2>1, <4>1 DEF Benign
    <3>2. j \in T
      BY <1>1, <2>1, <3>1
    <3> QED
      BY <1>1, <1>3, <1>4, <3>1, <3>2
  <2>2. CASE i + LineMax - 1 > total
    BY <1>1, <1>4, <2>2
  <2> QED
    BY <1>1, <2>1, <2>2
<1> HIDE DEF T
<1> DEFINE Stops == {"lf", "nul"}
           Fits(k) == /\ \A j \in 0..(k - 2) : mem[i + j] \notin Stops
                      /\ k = LineMax - 1 \/ (k > 0 /\ mem[i + k - 1] \in Stops)
<1>6. Fits(e - i + 1)
  <2>1. \A j \in 0..((e - i + 1) - 2) : i + j \in i..(e - 1) /\ i + j \in 0..(total - 1)
    BY <1>1, <1>4
  <2>2. i + (e - i + 1) - 1 = e /\ e - i + 1 > 0
    BY <1>1, <1>4
  <2> QED
    BY <1>1, <1>4, <2>1, <2>2 DEF LineIs
<1>7. ASSUME NEW k \in 0..(LineMax - 1), Fits(k) PROVE k = e - i + 1
  <2>1. ~ (k > e - i + 1)
    <3> SUFFICES ASSUME k > e - i + 1 PROVE FALSE
      OBVIOUS
    <3>1. e - i \in 0..(k - 2) /\ i + (e - i) = e
      BY <1>1, <1>4
    <3> QED
      BY <1>4, <1>7, <3>1 DEF LineIs
  <2>2. ~ (k < e - i + 1)
    <3> SUFFICES ASSUME k < e - i + 1 PROVE FALSE
      OBVIOUS
    <3>1. k > 0 /\ mem[i + k - 1] \in Stops
      BY <1>4, <1>5, <1>7
    <3>2. i + k - 1 \in i..(e - 1) /\ i + k - 1 \in 0..(total - 1)
      BY <1>1, <1>4, <3>1
    <3> QED
      BY <1>1, <1>4, <3>1, <3>2 DEF LineIs
  <2> QED
    BY <1>1, <1>4, <2>1, <2>2
<1>8. Passed(i) = e - i + 1
  <2>1. Passed(i) = CHOOSE k \in 0..(LineMax - 1) : Fits(k)
    BY DEF Passed
  <2> HIDE DEF Fits
  <2> QED
    BY <1>5, <1>6, <1>7, <2>1
<1>9. Copied(i) = [j \in 1..(e - i) |-> mem[i + j - 1]]
  <2>1. i + (e - i + 1) - 1 = e /\ e - i + 1 > 0 /\ (e - i + 1) - 1 = e - i
    BY <1>1, <1>4
  <2> HIDE DEF Fits
  <2> QED
    BY <1>4, <1>8, <2>1 DEF Copied, LineIs
<1> QED
  BY <1>4, <1>8, <1>9

LEMMA ParseLineFinds == HeadInv /\ ExactInv /\ ParserInv /\ ParseLine => ParserInv'
<1> SUFFICES ASSUME HeadInv, ExactInv, ParserInv, ParseLine, Proper', Benign' PROVE ParserInv'
  BY DEF ParserInv, ParseLine, Filling
<1> USE SizesAssumption
<1>1. /\ pc = "parse" /\ Copied(src) # <<>> /\ UNCHANGED <<stream, c, buffer>>
      /\ value' = IF Head(Copied(src)) = "key" THEN Tail(Copied(src)) ELSE value
      /\ src' = src + Passed(src)
      /\ pc' = IF mem[src + Passed(src) - 1] = "nul" THEN "past" ELSE "parse"
  BY DEF ParseLine
<1>2. Loaded /\ Proper /\ Benign /\ total \in 0..(HeadLen - 1)
  BY <1>1 DEF Loaded, Proper, Benign, BlankAt, stream, buffer, ExactInv, Complete
<1>3. /\ src \in 0..(total - 1) /\ (src = 0 \/ mem[src - 1] = "lf")
      /\ ValueOf(value, src)
  BY <1>1, <1>2 DEF ParserInv
<1>4. src # total - 1
  <2> SUFFICES ASSUME src = total - 1 PROVE FALSE
    OBVIOUS
  <2>1. mem[src] = "lf" /\ LineMax - 1 # 0
    <3>1. mem[src] = "lf" /\ (0 + LineMax - 1 <= total => \E j \in 0..(0 + LineMax - 2) : mem[j] = "lf")
      BY <1>2, <1>3 DEF Benign, BlankAt
    <3> QED
      BY <1>2, <3>1
  <2> DEFINE Fits(k) == /\ \A j \in 0..(k - 2) : mem[src + j] \notin {"lf", "nul"}
                        /\ k = LineMax - 1 \/ (k > 0 /\ mem[src + k - 1] \in {"lf", "nul"})
  <2>2. 1 \in 0..(LineMax - 1) /\ Fits(1)
    BY <1>3, <2>1
  <2>3. ASSUME NEW k \in 0..(LineMax - 1), Fits(k) PROVE k = 1
    <3>1. k # 0
      BY <2>1, <2>3
    <3>2. k < 2
      <4> SUFFICES ASSUME k >= 2 PROVE FALSE
        OBVIOUS
      <4>1. 0 \in 0..(k - 2) /\ src + 0 = src
        BY <1>3
      <4> QED
        BY <2>1, <2>3, <4>1
    <3> QED
      BY <3>1, <3>2
  <2>4. Passed(src) = 1
    <3>1. Passed(src) = CHOOSE k \in 0..(LineMax - 1) : Fits(k)
      BY DEF Passed
    <3> HIDE DEF Fits
    <3> QED
      BY <2>2, <2>3, <3>1
  <2>5. Copied(src) = [j \in 1..0 |-> mem[src + j - 1]]
    BY <1>3, <2>1, <2>4 DEF Copied
  <2>6. Copied(src) = <<>>
    BY <2>5
  <2> QED
    BY <1>1, <2>6
<1>5. src \in 0..(total - 2)
  BY <1>2, <1>3, <1>4
<1>6. PICK e \in (src + 1)..(total - 2) :
          /\ LineIs(src, e) /\ Passed(src) = e - src + 1
          /\ Copied(src) = [j \in 1..(e - src) |-> mem[src + j - 1]]
  BY <1>2, <1>3, <1>5, LinePassed
<1>7. /\ src' = e + 1 /\ mem[e] = "lf" /\ pc' = "parse" /\ src' - 1 = e
  <2>1. src + Passed(src) - 1 = e /\ src + Passed(src) = e + 1
    BY <1>3, <1>6
  <2> QED
    BY <1>1, <1>6, <2>1 DEF LineIs
<1>8. Head(Copied(src)) = mem[src] /\ Tail(Copied(src)) = [j \in 1..(e - src - 1) |-> mem[src + j]]
  <2> DEFINE w == Copied(src)
  <2>1. e - src \in Nat \ {0} /\ w \in Seq(Chars) /\ Len(w) = e - src
        /\ \A j \in 1..(e - src) : w[j] = mem[src + j - 1]
    <3>1. e - src \in Nat \ {0} /\ \A j \in 1..(e - src) : src + j - 1 \in 0..(HeadLen - 1)
      BY <1>2, <1>3, <1>6
    <3>2. w \in [1..(e - src) -> Chars]
      BY <1>6, <3>1 DEF HeadInv, TypeOK
    <3>3. w \in Seq(Chars) /\ Len(w) = e - src
      <4>1. e - src \in Nat /\ DOMAIN w = 1..(e - src)
        BY <1>6, <3>1
      <4> HIDE DEF w
      <4>2. w \in Seq(Chars)
        BY <3>2, <4>1
      <4>3. DOMAIN w = 1..Len(w) /\ Len(w) \in Nat
        BY <4>2, LenProperties
      <4> QED
        BY <4>1, <4>2, <4>3
    <3> QED
      BY <1>6, <3>1, <3>3
  <2> HIDE DEF w
  <2>2. Head(w) = w[1] /\ Tail(w) = [j \in 1..(Len(w) - 1) |-> w[j + 1]]
    <3>1. w # <<>>
      BY <2>1
    <3>2. /\ Tail(w) \in Seq(Chars) /\ Len(Tail(w)) = Len(w) - 1
          /\ \A j \in 1..(Len(w) - 1) : Tail(w)[j] = w[j + 1]
      BY <2>1, <3>1, HeadTailProperties
    <3>3. Tail(w) \in [1..(Len(w) - 1) -> Chars]
      BY <3>2, LenProperties
    <3>4. Head(w) = w[1]
      BY <2>1, <3>1
    <3> QED
      BY <3>2, <3>3, <3>4
  <2>3. Len(w) - 1 = e - src - 1 /\ w[1] = mem[src]
    BY <1>3, <2>1
  <2>4. \A j \in 1..(e - src - 1) : w[j + 1] = mem[src + j]
    <3> TAKE j \in 1..(e - src - 1)
    <3>1. j + 1 \in 1..(e - src) /\ src + (j + 1) - 1 = src + j
      BY <1>3, <1>6
    <3> QED
      BY <2>1, <3>1
  <2> QED
    BY <2>2, <2>3, <2>4 DEF w
<1>9. \A j \in (src + 1)..e : ~Start(j)
  <2> SUFFICES ASSUME NEW j \in (src + 1)..e, Start(j) PROVE FALSE
    OBVIOUS
  <2>1. j - 1 \in src..(e - 1) /\ j # 0
    BY <1>3, <1>6
  <2> QED
    BY <1>6, <2>1 DEF Start, LineIs
<1>10. ValueOf(value', e + 1)
  <2>1. CASE mem[src] = "key"
    <3>1. Start(src)
      BY <1>3, <2>1 DEF Start
    <3>2. value' = [j \in 1..(e - src - 1) |-> mem[src + j]]
      BY <1>1, <1>8, <2>1
    <3>3. src \in 0..((e + 1) - 1) /\ e \in 0..((e + 1) - 1) /\ src < e /\ (e + 1) - 1 = e
      BY <1>3, <1>6
    <3> QED
      BY <1>6, <1>9, <3>1, <3>2, <3>3 DEF ValueOf
  <2>2. CASE mem[src] # "key"
    <3>1. \A j \in src..e : ~Start(j)
      BY <1>3, <1>6, <1>9, <2>2 DEF Start
    <3>2. value' = value
      BY <1>1, <1>8, <2>2
    <3>3. CASE value = NoValue /\ \A i \in 0..(src - 1) : ~Start(i)
      BY <1>3, <1>6, <3>1, <3>2, <3>3 DEF ValueOf
    <3>4. ASSUME NEW i \in 0..(src - 1), NEW f \in 0..(src - 1), i < f, Start(i), LineIs(i, f),
                 \A j \in (i + 1)..(src - 1) : ~Start(j),
                 value = [j \in 1..(f - i - 1) |-> mem[i + j]]
          PROVE  ValueOf(value', e + 1)
      <4>1. i \in 0..((e + 1) - 1) /\ f \in 0..((e + 1) - 1)
        BY <1>3, <1>6
      <4>2. \A j \in (i + 1)..((e + 1) - 1) : ~Start(j)
        <5> TAKE j \in (i + 1)..((e + 1) - 1)
        <5>1. j \in (i + 1)..(src - 1) \/ j \in src..e
          BY <1>3, <1>6
        <5> QED
          BY <3>1, <3>4, <5>1
      <4> QED
        BY <3>2, <3>4, <4>1, <4>2 DEF ValueOf
    <3> QED
      BY <1>3, <3>3, <3>4 DEF ValueOf
  <2> QED
    BY <2>1, <2>2
<1>11. ValueOf(value, src)'
  <2>1. mem' = mem
    BY <1>1 DEF buffer
  <2> QED
    BY <1>7, <1>10, <2>1 DEF ValueOf, Start, LineIs
<1>12. src' \in 0..(total' - 1) /\ mem'[src' - 1] = "lf" /\ total' = total
  <2>1. mem' = mem /\ total' = total
    BY <1>1 DEF buffer
  <2>2. e + 1 \in 0..(total - 1)
    BY <1>2, <1>3, <1>6
  <2> QED
    BY <1>7, <2>1, <2>2
<1> QED
  BY <1>7, <1>11, <1>12 DEF ParserInv, Filling

LEMMA StepParser == HeadInv /\ ExactInv /\ ParserInv /\ [Next]_vars => ParserInv'
<1> SUFFICES ASSUME HeadInv, ExactInv, ParserInv, [Next]_vars PROVE ParserInv'
  OBVIOUS
<1> USE SizesAssumption
<1>1. ASSUME Filling, UNCHANGED <<src, value>>,
             pc' \in {"getline", "line", "toobig", "parse"}
      PROVE  ParserInv'
  <2>1. value = NoValue /\ src = 0
    BY <1>1 DEF ParserInv, Filling, HeadInv, Room
  <2>2. Benign' => total' \in Nat /\ total' > 0
    <3>1. total' \in Int => (Benign' => total' \in Nat /\ total' > 0)
      BY DEF Benign
    <3> QED
      BY <3>1, StepHead DEF HeadInv, TypeOK
  <2>3. ValueOf(value, src)'
    BY <1>1, <2>1 DEF ValueOf
  <2> QED
    BY <1>1, <2>1, <2>2, <2>3 DEF ParserInv, Loaded
<1>2. CASE LineFull \/ ReadEnd \/ EndLine
  BY <1>1, <1>2 DEF LineFull, ReadEnd, EndLine, TakeLine, Filling
<1>3. ASSUME NEW ch \in Chars, ReadChar(ch) \/ ReadFail(ch) PROVE ParserInv'
  <2>1. Filling /\ UNCHANGED <<src, value>> /\ pc' \in {"getline", "line"}
    BY <1>3 DEF ReadChar, ReadFail, Store, Filling
  <2> QED
    BY <1>1, <2>1
<1>4. ASSUME NEW ch \in Alphabet, ReadChar(ch) PROVE ParserInv'
  BY <1>3, <1>4, AlphabetAssumption
<1>5. CASE ParseEnd
  <2>1. /\ pc = "parse" /\ Copied(src) = <<>> /\ value' = value
        /\ pc' = IF value = NoValue THEN "no_type" ELSE "body"
        /\ UNCHANGED <<stream, c, buffer, src>>
    BY <1>5 DEF ParseEnd, GoOn
  <2> SUFFICES ASSUME Proper', Benign' PROVE ValueOf(value, total)'
    BY <2>1 DEF ParserInv, Filling
  <2>2. Loaded /\ Proper /\ Benign
    BY <2>1 DEF Loaded, Proper, Benign, BlankAt, stream, buffer
  <2>3. /\ src \in 0..(total - 1) /\ (src = 0 \/ mem[src - 1] = "lf")
        /\ ValueOf(value, src) /\ total \in 0..(HeadLen - 1)
    BY <2>1, <2>2 DEF ParserInv, ExactInv, Complete
  <2>4. src = total - 1
    <3> SUFFICES ASSUME src # total - 1 PROVE FALSE
      OBVIOUS
    <3>1. src \in 0..(total - 2)
      BY <2>3
    <3>2. PICK e \in (src + 1)..(total - 2) :
             Copied(src) = [j \in 1..(e - src) |-> mem[src + j - 1]]
      BY <2>2, <2>3, <3>1, LinePassed
    <3>3. 1 \in 1..(e - src) /\ DOMAIN Copied(src) = 1..(e - src)
      BY <2>3, <3>2
    <3> QED
      BY <2>1, <3>3
  <2>5. ~Start(src)
    BY <2>2, <2>4 DEF Benign, BlankAt, Start
  <2>6. ValueOf(value, total)
    <3>1. CASE value = NoValue /\ \A i \in 0..(src - 1) : ~Start(i)
      BY <2>3, <2>4, <2>5, <3>1 DEF ValueOf
    <3>2. ASSUME NEW i \in 0..(src - 1), NEW f \in 0..(src - 1), i < f, Start(i), LineIs(i, f),
                 \A j \in (i + 1)..(src - 1) : ~Start(j),
                 value = [j \in 1..(f - i - 1) |-> mem[i + j]]
          PROVE  ValueOf(value, total)
      <4>1. i \in 0..(total - 1) /\ f \in 0..(total - 1)
        BY <2>3
      <4>2. \A j \in (i + 1)..(total - 1) : ~Start(j)
        <5> TAKE j \in (i + 1)..(total - 1)
        <5>1. j \in (i + 1)..(src - 1) \/ j = src
          BY <2>3, <2>4
        <5> QED
          BY <2>5, <3>2, <5>1
      <4> QED
        BY <3>2, <4>1, <4>2 DEF ValueOf
    <3> QED
      BY <2>3, <3>1, <3>2 DEF ValueOf
  <2> QED
    BY <2>1, <2>6 DEF ValueOf, Start, LineIs, buffer
<1>6. ASSUME NEW v \in {value, <<"x">>}, ParsePast(v) PROVE ParserInv'
  BY <1>6 DEF ParsePast, GoOn, ParserInv, Filling, Loaded, Proper, Benign, BlankAt, stream, buffer
<1>7. CASE UNCHANGED vars
  BY <1>7 DEF vars, stream, buffer, ParserInv, Filling, Loaded, Proper, Benign, BlankAt,
              ValueOf, Start, LineIs
<1> QED
  BY <1>2, <1>3, <1>4, <1>5, <1>6, <1>7, ParseLineFinds DEF Next

\* ValueOf, in the words of LastValue.
LEMMA LastFound ==
    ASSUME NEW s \in Seq(Chars), total \in Nat, Len(s) = total, NEW v, ValueOf(v, total),
           \A j \in 1..total : s[j] = mem[j - 1]
    PROVE  v = LastValue(s)
<1> DEFINE starts == {i \in 1..Len(s) : s[i] = "key" /\ (i = 1 \/ s[i - 1] = "lf")}
<1>1. \A i \in 1..total : i \in starts <=> Start(i - 1)
  <2> TAKE i \in 1..total
  <2>1. s[i] = mem[i - 1] /\ (i # 1 => s[i - 1] = mem[(i - 1) - 1])
    OBVIOUS
  <2> QED
    BY <2>1 DEF Start
<1>2. starts \subseteq 1..total
  OBVIOUS
<1> HIDE DEF starts
<1>3. CASE v = NoValue /\ \A i \in 0..(total - 1) : ~Start(i)
  <2>1. starts = {}
    <3> SUFFICES ASSUME NEW i \in starts PROVE FALSE
      OBVIOUS
    <3>1. i \in 1..total /\ i - 1 \in 0..(total - 1)
      BY <1>2
    <3> QED
      BY <1>1, <1>3, <3>1
  <2> QED
    BY <1>3, <2>1 DEF LastValue, starts
<1>4. ASSUME NEW i \in 0..(total - 1), NEW e \in 0..(total - 1), i < e, Start(i), LineIs(i, e),
             \A j \in (i + 1)..(total - 1) : ~Start(j),
             v = [j \in 1..(e - i - 1) |-> mem[i + j]]
      PROVE  v = LastValue(s)
  <2> DEFINE start == CHOOSE a \in starts : \A j \in starts : j <= a
             Stop(a) == s[a] = "lf" /\ \A j \in start..(a - 1) : s[j] # "lf"
             stop == CHOOSE a \in start..Len(s) : Stop(a)
  <2>1. start = i + 1
    <3>1. i + 1 \in 1..total /\ (i + 1) - 1 = i
      OBVIOUS
    <3>2. i + 1 \in starts
      BY <1>1, <1>4, <3>1
    <3>3. \A j \in starts : j <= i + 1
      <4> SUFFICES ASSUME NEW j \in starts, j > i + 1 PROVE FALSE
        BY <1>2
      <4>1. j - 1 \in (i + 1)..(total - 1) /\ j \in 1..total
        BY <1>2
      <4> QED
        BY <1>1, <1>4, <4>1
    <3>4. \A a \in starts : (\A j \in starts : j <= a) => a = i + 1
      <4> SUFFICES ASSUME NEW a \in starts, \A j \in starts : j <= a PROVE a = i + 1
        OBVIOUS
      <4>1. a \in 1..total /\ a <= i + 1 /\ i + 1 <= a
        BY <1>2, <3>2, <3>3
      <4> QED
        BY <4>1
    <3> QED
      BY <3>2, <3>3, <3>4
  <2> HIDE DEF start
  <2>2. stop = e + 1
    <3>1. \A j \in (i + 1)..(e + 1) : j \in 1..total /\ j - 1 \in i..e /\ s[j] = mem[j - 1]
      OBVIOUS
    <3>2. s[e + 1] = "lf"
      BY <1>4, <3>1 DEF LineIs
    <3>3. \A j \in start..((e + 1) - 1) : s[j] # "lf"
      <4> TAKE j \in start..((e + 1) - 1)
      <4>1. j \in (i + 1)..(e + 1) /\ j - 1 \in i..(e - 1)
        BY <1>4, <2>1
      <4> QED
        BY <1>4, <3>1, <4>1 DEF LineIs
    <3>4. ASSUME NEW a \in start..Len(s), Stop(a) PROVE a = e + 1
      <4>1. ~ (a < e + 1)
        <5> SUFFICES ASSUME a < e + 1 PROVE FALSE
          OBVIOUS
        <5>1. a \in start..((e + 1) - 1)
          BY <2>1
        <5> QED
          BY <3>3, <3>4, <5>1
      <4>2. ~ (a > e + 1)
        <5> SUFFICES ASSUME a > e + 1 PROVE FALSE
          OBVIOUS
        <5>1. e + 1 \in start..(a - 1)
          BY <1>4, <2>1, <3>4
        <5> QED
          BY <3>2, <3>4, <5>1
      <4> QED
        BY <2>1, <4>1, <4>2
    <3>5. e + 1 \in start..Len(s)
      BY <1>4, <2>1
    <3> QED
      BY <3>2, <3>3, <3>4, <3>5
  <2>3. starts # {}
    <3>1. i + 1 \in 1..total /\ (i + 1) - 1 = i
      OBVIOUS
    <3> QED
      BY <1>1, <1>4, <3>1
  <2>4. LastValue(s) = SubSeq(s, start + 1, stop - 1)
    BY <2>3 DEF LastValue, starts, start
  <2> HIDE DEF stop
  <2>5. SubSeq(s, i + 2, e) = v
    <3> DEFINE u == SubSeq(s, i + 2, e)
    <3>1. u = [j \in 1..(e - i - 1) |-> s[i + 1 + j]]
      <4>1. u = [j \in 1..(e - (i + 2) + 1) |-> s[(i + 2) + j - 1]]
        BY DEF SubSeq
      <4> QED
        BY <4>1
    <3>2. \A j \in 1..(e - i - 1) : s[i + 1 + j] = mem[i + j]
      <4> TAKE j \in 1..(e - i - 1)
      <4>1. i + 1 + j \in 1..total /\ (i + 1 + j) - 1 = i + j
        OBVIOUS
      <4> QED
        BY <4>1
    <3> QED
      BY <1>4, <3>1, <3>2
  <2> QED
    BY <2>1, <2>2, <2>4, <2>5
<1> QED
  BY <1>3, <1>4 DEF ValueOf

\* In a whole head of short lines the last Content-Type is found.
THEOREM TypeFound == Spec => []TypeFromHead
<1>1. HeadInv /\ ExactInv /\ ParserInv => TypeFromHead
  <2> SUFFICES ASSUME HeadInv, ExactInv, ParserInv, Loaded, Proper,
                      Whole(Text(mem, 0)), ShortLines(Text(mem, 0))
               PROVE  /\ pc # "past"
                      /\ pc \in {"no_type", "body"} => value = LastValue(Text(mem, 0))
    BY DEF TypeFromHead
  <2> DEFINE head == Text(mem, 0)
  <2>1. /\ head \in Seq(Chars) /\ Len(head) = total
        /\ \A j \in 1..total : head[j] = mem[j - 1]
    BY TextExact
  <2>2. total \in Nat /\ Whole(head) /\ ShortLines(head)
    BY DEF ExactInv, Complete
  <2> HIDE DEF head
  <2>3. total > 0 /\ BlankAt(mem, total - 1)
    <3>1. total # 0
      BY <2>1, <2>2 DEF Whole
    <3>2. head[total] = "lf" /\ (total = 1 \/ head[total - 1] = "lf")
      BY <2>1, <2>2, <3>1 DEF Whole
    <3>3. total # 1 => total - 1 \in 1..total /\ (total - 1) - 1 = total - 2
      BY <2>2, <3>1
    <3> QED
      BY <2>1, <2>2, <3>1, <3>2, <3>3 DEF BlankAt
  <2>4. ASSUME NEW i \in 0..(total - 1), i + LineMax - 1 <= total
        PROVE  \E j \in i..(i + LineMax - 2) : mem[j] = "lf"
    <3>1. i + 1 \in 1..Len(head) /\ (i + 1) + LineMax - 2 <= Len(head)
      BY <2>1, <2>2, <2>4, SizesAssumption
    <3>2. PICK j \in (i + 1)..((i + 1) + LineMax - 2) : head[j] = "lf"
      BY <2>2, <3>1 DEF ShortLines
    <3>3. j - 1 \in i..(i + LineMax - 2) /\ j \in 1..total
      BY <2>1, <2>2, <3>1, <3>2, SizesAssumption
    <3> QED
      BY <2>1, <3>2, <3>3
  <2>5. Benign
    BY <2>3, <2>4 DEF Benign
  <2>6. pc # "past" /\ (pc \in {"no_type", "body"} => ValueOf(value, total))
    BY <2>5 DEF ParserInv
  <2>7. pc \in {"no_type", "body"} => value = LastValue(head)
    BY <2>1, <2>2, <2>6, LastFound
  <2> QED
    BY <2>6, <2>7 DEF head
<1>2. Init => ParserInv
  BY DEF Init, ParserInv, Loaded
<1>3. (HeadInv /\ ExactInv /\ ParserInv) /\ [Next]_vars => (HeadInv /\ ExactInv /\ ParserInv)'
  BY StepHead, StepExact, StepParser
<1> QED
  BY <1>1, <1>2, <1>3, InitHead, InitExact, PTL DEF Spec

-----------------------------------------------------------------------------
(***************************************************************************)
(* The loops end.                                                          *)
(***************************************************************************)

\* No more was taken than there is, and getline leaves at the first NUL it
\* stores.
Counted ==
    /\ Len(got) <= MaxIn
    /\ pc = "getline" => \A j \in 0..(pos - 1) : mem[line + j] # "nul"
    /\ pc = "line" => \A j \in 0..(pos - 2) : mem[line + j] # "nul"

LEMMA StoreCounted ==
    ASSUME HeadInv, Counted, pc = "getline", space > pos + 1, NEW ch \in Chars, Store(ch),
           Len(got') <= MaxIn
    PROVE  Counted'
<1> USE SizesAssumption DEF Counted
<1>1. /\ line \in Nat /\ pos \in Nat /\ line + pos + 1 <= HeadLen - 1
      /\ mem \in [0..(HeadLen - 1) -> Chars]
  BY DEF HeadInv, TypeOK, Room
<1>2. CASE ch = "cr"
  BY <1>2 DEF Store, buffer
<1>3. CASE ch # "cr"
  <2>1. /\ mem' = [mem EXCEPT ![line + pos] = ch] /\ pos' = pos + 1 /\ line' = line
        /\ pc' = IF ch \in {"lf", "nul"} THEN "line" ELSE "getline"
    BY <1>3 DEF Store
  <2>2. ASSUME NEW j \in 0..(pos - 1) PROVE mem'[line + j] # "nul"
    <3>1. line + j \in 0..(HeadLen - 1) /\ line + j # line + pos
      BY <1>1
    <3>2. mem[line + j] # "nul"
      OBVIOUS
    <3> HIDE DEF Counted
    <3> QED
      BY <1>1, <2>1, <3>1, <3>2
  <2>3. mem'[line + pos] = ch
    BY <1>1, <2>1
  <2>4. Len(got') <= MaxIn
    OBVIOUS
  <2>5. CASE ch \in {"lf", "nul"}
    <3>1. pc' = "line" /\ pos' - 2 = pos - 1
      BY <1>1, <2>1, <2>5
    <3> QED
      BY <2>1, <2>2, <2>4, <3>1
  <2>6. CASE ch \notin {"lf", "nul"}
    <3>1. pc' = "getline" /\ pos' - 1 = pos
      BY <1>1, <2>1, <2>6
    <3>2. ASSUME NEW j \in 0..pos PROVE mem'[line' + j] # "nul"
      <4>1. j = pos \/ j \in 0..(pos - 1)
        BY <1>1
      <4> QED
        BY <2>1, <2>2, <2>3, <2>6, <4>1
    <3> QED
      BY <2>4, <3>1, <3>2
  <2> QED
    BY <2>5, <2>6
<1> QED
  BY <1>2, <1>3

LEMMA StepCounted == HeadInv /\ Counted /\ [Next]_vars => Counted'
<1> SUFFICES ASSUME HeadInv, Counted, [Next]_vars PROVE Counted'
  OBVIOUS
<1> USE SizesAssumption, AlphabetAssumption
<1>0. /\ got \in Seq(Alphabet) /\ Len(got) \in Nat /\ line \in Nat /\ pos \in Nat
  BY LenProperties DEF HeadInv, TypeOK
<1>1. CASE LineFull
  <2>1. got' = got /\ mem' = mem /\ line' = line /\ pos' = pos /\ pc = "getline" /\ pc' = "line"
    BY <1>1 DEF LineFull, stream, buffer
  <2>2. \A j \in 0..(pos - 2) : j \in 0..(pos - 1)
    BY <1>0
  <2> QED
    BY <2>1, <2>2 DEF Counted
<1>2. CASE ReadEnd
  <2>1. got' = got /\ mem' = mem /\ line' = line /\ pos' = pos /\ pc = "getline" /\ pc' \in {"parse", "line"}
    BY <1>2 DEF ReadEnd, buffer
  <2>2. \A j \in 0..(pos - 2) : j \in 0..(pos - 1)
    BY <1>0
  <2> QED
    BY <2>1, <2>2 DEF Counted
<1>3. CASE EndLine
  BY <1>0, <1>3 DEF Counted, EndLine, TakeLine, stream, HeadInv, NeverTooBig
<1>4. CASE ParseLine
  BY <1>0, <1>4 DEF Counted, ParseLine, stream, buffer
<1>5. CASE ParseEnd
  BY <1>0, <1>5 DEF Counted, ParseEnd, GoOn, stream, buffer
<1>6. ASSUME NEW v \in {value, <<"x">>}, ParsePast(v) PROVE Counted'
  BY <1>0, <1>6 DEF Counted, ParsePast, GoOn, stream, buffer
<1>7. ASSUME NEW ch \in Alphabet, ReadChar(ch) PROVE Counted'
  <2>1. Len(got') = Len(got) + 1 /\ Len(got) < MaxIn
    BY <1>0, <1>7, AppendProperties DEF ReadChar
  <2> QED
    BY <1>0, <1>7, <2>1, StoreCounted DEF ReadChar
<1>8. ASSUME NEW ch \in Chars, ReadFail(ch) PROVE Counted'
  BY <1>8, StoreCounted DEF ReadFail, Counted
<1>9. CASE UNCHANGED vars
  BY <1>9 DEF Counted, vars, stream, buffer
<1> QED
  BY <1>1, <1>2, <1>3, <1>4, <1>5, <1>6, <1>7, <1>8, <1>9 DEF Next

\* This call of getline has not read yet, or a failed read may still change c.
Fresh == pos = 0 /\ c # "cr"

\* Steps that sp_load_header_blob and the parser can still take.
Unread == (MaxIn - Len(got)) + IF failed THEN 0 ELSE 1
Turn == IF pc = "line" THEN 0 ELSE IF Fresh THEN 2 ELSE 1

Loading == Unread + (5 * space - pos) + Turn + HeadLen + 3
Parsing == HeadLen - src + 2

Left ==
    CASE pc \in {"getline", "line"} -> Loading
      [] pc = "parse" -> Parsing
      [] pc = "past" -> 1
      [] OTHER -> 0

LEMMA LeftIs ==
    /\ pc \in {"getline", "line"} => Left = Loading
    /\ pc = "parse" => Left = Parsing
    /\ pc = "past" => Left = 1
    /\ pc' \in {"getline", "line"} => Left' = Loading'
    /\ pc' = "parse" => Left' = Parsing'
    /\ pc' = "past" => Left' = 1
BY DEF Left

LEMMA LeftType == HeadInv /\ Counted => Left \in Nat
<1> SUFFICES ASSUME HeadInv, Counted PROVE Left \in Nat
  OBVIOUS
<1> USE SizesAssumption
<1>1. /\ Len(got) \in Nat /\ Len(got) <= MaxIn /\ pos \in Nat /\ src \in 0..HeadLen
      /\ space \in Nat /\ line \in Nat
  BY LenProperties DEF HeadInv, TypeOK, Counted
<1>2. pc \in {"getline", "line"} => pos <= space
  BY <1>1 DEF HeadInv, Room
<1>3. Unread \in Nat /\ Turn \in Nat
  BY <1>1 DEF Unread, Turn
<1>4. pc \in {"getline", "line"} => Loading \in Nat
  BY <1>1, <1>2, <1>3 DEF Loading
<1>5. Parsing \in Nat
  BY <1>1 DEF Parsing
<1> QED
  BY <1>4, <1>5 DEF Left

LEMMA StoreShrinks ==
    ASSUME HeadInv, pc = "getline", NEW ch \in Chars, Store(ch),
           Unread \in Nat, Unread' \in Nat,
           \/ Unread' < Unread
           \/ Unread' = Unread /\ (ch = "cr" => Fresh)
    PROVE  Left' < Left
<1> USE SizesAssumption
<1>1. pos \in Nat /\ space \in Nat
  BY DEF HeadInv, TypeOK
<1>2. CASE ch = "cr"
  <2>1. pc' = pc /\ c' = "cr" /\ pos' = pos /\ space' = space /\ Turn' = 1 /\ (Fresh => Turn = 2)
        /\ Turn \in 1..2
    BY <1>2 DEF Store, buffer, Turn, Fresh
  <2>2. Left = Loading /\ Left' = Loading'
    BY <2>1, LeftIs
  <2>3. Turn' = 1 /\ (Turn = 1 \/ Turn = 2) /\ (Unread' < Unread \/ (Unread' = Unread /\ Turn = 2))
    BY <1>2, <2>1
  <2>4. Unread' + Turn' < Unread + Turn
    BY <2>3
  <2> DEFINE rest == (5 * space - pos) + HeadLen + 3
  <2>5. rest \in Int /\ rest' = rest
    BY <1>1, <2>1
  <2>6. Loading = (Unread + Turn) + rest /\ Loading' = (Unread' + Turn') + rest'
    BY <1>1, <2>1, <2>3 DEF Loading
  <2> HIDE DEF rest
  <2> QED
    BY <2>2, <2>3, <2>4, <2>5, <2>6
<1>3. CASE ch # "cr"
  <2>1. pos' = pos + 1 /\ space' = space /\ pc' \in {"line", "getline"}
    BY <1>3 DEF Store
  <2>2. Turn \in 1..2 /\ Turn' \in 0..1
    BY <1>1, <2>1 DEF Turn, Fresh
  <2> QED
    BY <1>1, <2>1, <2>2, LeftIs DEF Loading, Parsing
<1> QED
  BY <1>2, <1>3

LEMMA LeftStep == HeadInv /\ Counted /\ [Next]_vars => [Left' < Left]_vars
<1> SUFFICES ASSUME HeadInv, Counted, Next, ~UNCHANGED vars PROVE Left' < Left
  OBVIOUS
<1> USE SizesAssumption, AlphabetAssumption
<1>0. /\ got \in Seq(Alphabet) /\ Len(got) \in Nat /\ Len(got) <= MaxIn /\ line \in Nat /\ pos \in Nat
      /\ space \in Nat /\ src \in 0..HeadLen
      /\ pc \in {"getline", "line"} => pos < space /\ src = 0
      /\ Unread \in Nat
  BY LenProperties DEF HeadInv, TypeOK, Room, Counted, Unread
<1>1. CASE LineFull
  <2>1. /\ Unread' = Unread /\ pos' = pos /\ space' = space /\ pc = "getline" /\ pc' = "line"
        /\ Turn' = 0 /\ Turn \in 1..2
    BY <1>1 DEF LineFull, stream, buffer, Unread, Turn
  <2> QED
    BY <1>0, <2>1, LeftIs DEF Loading, Parsing
<1>2. CASE ReadEnd
  <2>1. /\ Unread' = Unread /\ pos' = pos /\ space' = space /\ src' = src /\ pc = "getline"
        /\ pc' = "parse" \/ (pc' = "line" /\ Turn' = 0)
        /\ Turn \in 1..2
    BY <1>2 DEF ReadEnd, buffer, Unread, Turn
  <2> QED
    BY <1>0, <2>1, LeftIs DEF Loading, Parsing
<1>3. CASE EndLine
  <2> DEFINE n == Strlen(Ended, line)
  <2>1. line + pos \in 0..(HeadLen - 1) /\ pos \in 0..(HeadLen - line - 1) /\ line \in 0..(HeadLen - 1)
    BY <1>3 DEF EndLine, HeadInv, TypeOK, Room
  <2>2. /\ Ended \in [0..(HeadLen - 1) -> Chars]
        /\ Ended[line + pos] = "nul"
    BY <2>1 DEF Ended, Chars, HeadInv, TypeOK
  <2>3. n \in 0..pos /\ Ended[line + n] = "nul"
    BY <2>1, <2>2, StrlenFound
  <2>4. /\ pc = "line" /\ mem' = Ended /\ space' = space - n
        /\ UNCHANGED <<stream, c, src, value>>
        /\ \/ pc' = "parse"
           \/ pc' = "getline" /\ pos' = 0 /\ Ended[line] \notin {"lf", "nul"}
    BY <1>0, <1>3, <2>1, <2>3 DEF EndLine, TakeLine
  <2> HIDE DEF n
  <2>5. CASE pc' = "parse"
    <3>1. Unread' = Unread /\ Turn = 0 /\ src' = src
      BY <2>4 DEF Unread, Turn, stream
    <3> QED
      BY <1>0, <2>4, <2>5, <3>1, LeftIs DEF Loading, Parsing
  <2>6. CASE pc' = "getline" /\ pos' = 0 /\ Ended[line] \notin {"lf", "nul"}
    <3>1. n # 0
      BY <1>0, <2>3, <2>6
    <3>2. ASSUME n < pos - 1 PROVE FALSE
      <4>1. n \in 0..(pos - 2) /\ line + n \in 0..(HeadLen - 1) /\ line + n # line + pos
        BY <1>0, <2>1, <2>3, <3>2
      <4>2. mem[line + n] # "nul"
        BY <2>4, <4>1 DEF Counted
      <4>3. Ended[line + n] = mem[line + n]
        BY <4>1 DEF Ended, HeadInv, TypeOK
      <4> QED
        BY <2>3, <4>2, <4>3
    <3>3. n \in Nat /\ n >= 1 /\ n >= pos - 1
      BY <1>0, <2>3, <3>1, <3>2
    <3>4. 5 * space' < 5 * space - pos - 2
      BY <1>0, <2>4, <3>3
    <3> QED
      <4>1. Unread' = Unread /\ Turn = 0 /\ (Turn' = 1 \/ Turn' = 2) /\ pos' = 0 /\ space' \in Int
        BY <1>0, <2>3, <2>4, <2>6 DEF Unread, Turn, stream
      <4>2. Left = Loading /\ Left' = Loading'
        BY <2>4, <2>6, LeftIs
      <4>3. space \in Nat /\ pos \in Nat /\ Unread \in Nat
        BY <1>0
      <4>4. 5 * space' + Turn' < 5 * space - pos
        <5>1. 5 * space' \in Int /\ 5 * space - pos \in Int
          BY <4>1, <4>3
        <5> QED
          BY <3>4, <4>1, <5>1
      <4> QED
        BY <4>1, <4>2, <4>3, <4>4 DEF Loading
  <2> QED
    BY <2>4, <2>5, <2>6
<1>4. CASE ParseLine
  <2> DEFINE k == Passed(src)
  <2>1. PICK q \in 0..(HeadLen - 1) : src <= q /\ mem[q] = "nul"
    BY <1>4 DEF ParseLine, HeadInv, Terminated
  <2>2. src \in 0..(HeadLen - 1) /\ q - src \in 0..(HeadLen - src - 1) /\ src + (q - src) = q
    BY <1>0, <2>1
  <2>3. k \in 0..(q - src + 1)
    BY <2>1, <2>2, PassedFound DEF HeadInv
  <2>4. k # 0
    <3> SUFFICES ASSUME k = 0 PROVE Copied(src) = <<>>
      BY <1>4 DEF ParseLine
    <3> QED
      BY DEF Copied
  <2> HIDE DEF k
  <2>5. src' = src + k /\ pc = "parse" /\ pc' \in {"past", "parse"}
    BY <1>4 DEF ParseLine, k
  <2>6. k \in Nat /\ k >= 1 /\ src + k <= HeadLen
    BY <2>1, <2>2, <2>3, <2>4
  <2> QED
    BY <1>0, <2>2, <2>5, <2>6, LeftIs DEF Loading, Parsing
<1>5. CASE ParseEnd
  BY <1>0, <1>5, LeftIs DEF ParseEnd, GoOn, Left, Parsing
<1>6. ASSUME NEW v \in {value, <<"x">>}, ParsePast(v) PROVE Left' < Left
  BY <1>6 DEF ParsePast, GoOn, Left
<1>7. ASSUME NEW ch \in Alphabet, ReadChar(ch) PROVE Left' < Left
  <2>1. /\ Len(got') = Len(got) + 1 /\ Len(got) < MaxIn /\ failed' = failed
        /\ pc = "getline" /\ Store(ch)
    BY <1>0, <1>7, AppendProperties DEF ReadChar
  <2>2. Unread' < Unread /\ Unread' \in Nat
    BY <1>0, <2>1 DEF Unread
  <2> QED
    BY <1>0, <2>1, <2>2, StoreShrinks
<1>8. ASSUME NEW ch \in Chars, ReadFail(ch) PROVE Left' < Left
  <2>1. pc = "getline" /\ Store(ch) /\ failed' = TRUE /\ got' = got /\ ended' = ended
    BY <1>8 DEF ReadFail
  <2>2. CASE ~failed
    <3>1. Unread' < Unread /\ Unread' \in Nat
      BY <1>0, <2>1, <2>2 DEF Unread
    <3> QED
      BY <1>0, <2>1, <3>1, StoreShrinks
  <2>3. CASE failed
    <3>1. Unread' = Unread
      BY <2>1, <2>3 DEF Unread
    <3>2. ASSUME ch = "cr", ~Fresh PROVE FALSE
      <4>1. c = "cr"
        BY <1>0, <1>8, <3>2 DEF ReadFail, Fresh
      <4>2. failed' = failed
        BY <2>1, <2>3 DEF HeadInv, TypeOK
      <4>3. UNCHANGED vars
        BY <2>1, <3>2, <4>1, <4>2 DEF Store, vars, stream
      <4> QED
        BY <4>3
    <3> QED
      BY <1>0, <2>1, <3>1, <3>2, StoreShrinks
  <2> QED
    BY <2>2, <2>3
<1> QED
  BY <1>1, <1>2, <1>3, <1>4, <1>5, <1>6, <1>7, <1>8 DEF Next

(***************************************************************************)
(* Whatever the stream holds and however often its reads fail, loading the *)
(* head and parsing it end: each turn of the three loops uses up stream or *)
(* buffer.  Except one: a read that fails right behind a carriage return   *)
(* changes nothing, and as long as it keeps failing sp_stream_getline goes *)
(* on reading (sp_util.c:271-278).                                         *)
(***************************************************************************)
UsesUp == [](Left \in Nat) /\ [][Left' < Left]_vars

THEOREM HeadEnds == Spec => UsesUp
<1>1. Init => Counted
  BY SizesAssumption DEF Init, Counted
<1>2. HeadInv /\ Counted => Left \in Nat
  BY LeftType
<1>3. Spec => [](Left \in Nat) /\ [][Left' < Left]_vars
  BY <1>1, <1>2, InitHead, StepHead, StepCounted, LeftStep, PTL DEF Spec
<1> QED
  BY <1>3 DEF UsesUp
=============================================================================
