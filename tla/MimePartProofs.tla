--------------------------- MODULE MimePartProofs ---------------------------
(***************************************************************************)
(* For every buffer size, boundary and file: no call writes past the       *)
(* buffer it is given (TypeOK); the image is the part, and the file is     *)
(* left where the end-boundary can be told, when no beginning of a         *)
(* boundary is in the way.                                                 *)
(***************************************************************************)
EXTENDS MimePart, TLAPS, WellFoundedInduction, SequenceTheorems

-----------------------------------------------------------------------------
(***************************************************************************)
(* What the operators of the model find.                                   *)
(***************************************************************************)

\* A set of naturals that has a member has a least one.
LEMMA LeastOf ==
    ASSUME NEW T \in SUBSET Nat, T # {}
    PROVE  /\ First(T) \in T
           /\ \A y \in T : First(T) <= y
<1> DEFINE R == OpToRel(<, Nat)
<1>1. \E x \in T : \A y \in T : ~ (<<y, x>> \in R)
  <2>1. IsWellFoundedOn(R, Nat)
    BY NatLessThanWellFounded
  <2> HIDE DEF R
  <2> QED
    BY <2>1, WFMin
<1>2. \A x, y \in Nat : y < x => <<y, x>> \in R
  BY DEF OpToRel
<1>3. PICK x \in T : \A y \in T : ~ (<<y, x>> \in R)
  BY <1>1
<1> HIDE DEF R
<1>4. \A y \in T : ~ (y < x)
  BY <1>2, <1>3
<1>5. \A y \in T : x <= y
  BY <1>3, <1>4
<1> DEFINE Least(z) == \A y \in T : z <= y
<1>6. First(T) = CHOOSE z \in T : Least(z)
  BY DEF First
<1>7. Least(x)
  BY <1>5
<1> HIDE DEF Least
<1>8. First(T) \in T /\ Least(First(T))
  BY <1>3, <1>6, <1>7
<1> QED
  BY <1>8 DEF Least

\* fgets takes a line, or what there is of it, or as much as fits.
LEMMA LineFound ==
    ASSUME file \in Seq(FileChars), NEW p \in 0..Len(file), NEW n \in Nat \ {0}
    PROVE  /\ LineLen(p, n) \in 0..(n - 1)
           /\ p + LineLen(p, n) <= Len(file)
           /\ \/ LineLen(p, n) = n - 1
              \/ p + LineLen(p, n) = Len(file)
              \/ LineLen(p, n) > 0 /\ file[p + LineLen(p, n)] = "lf"
           /\ \A j \in 1..(LineLen(p, n) - 1) : file[p + j] # "lf"
<1>0. Len(file) \in Nat
  BY LenProperties
<1> DEFINE Halts(k) == \/ k = n - 1
                       \/ p + k = Len(file)
                       \/ k > 0 /\ p + k <= Len(file) /\ file[p + k] = "lf"
           T == {k \in 0..(n - 1) : Halts(k)}
<1>1. T \in SUBSET Nat /\ n - 1 \in T
  BY <1>0
<1> DEFINE m == First(T)
<1>2. m \in T /\ \A y \in T : m <= y
  BY <1>1, LeastOf
<1> HIDE DEF m
<1>3. m \in 0..(n - 1) /\ Halts(m)
  BY <1>2
<1>4. p + m <= Len(file)
  <2> SUFFICES ASSUME p + m > Len(file) PROVE FALSE
    BY <1>0, <1>3
  <2>1. Len(file) - p \in T
    BY <1>0, <1>3
  <2> QED
    BY <1>0, <1>2, <1>3, <2>1
<1>5. \A j \in 1..(m - 1) : file[p + j] # "lf"
  <2> SUFFICES ASSUME NEW j \in 1..(m - 1), file[p + j] = "lf" PROVE FALSE
    OBVIOUS
  <2>1. j \in T
    BY <1>0, <1>3, <1>4
  <2>2. m <= j
    BY <1>2, <2>1
  <2> HIDE DEF T
  <2> QED
    BY <1>3, <2>2
<1> HIDE DEF T
<1> DEFINE Fit(k) == /\ p + k <= Len(file)
                     /\ \A j \in 1..(k - 1) : file[p + j] # "lf"
                     /\ k = n - 1 \/ p + k = Len(file) \/ (k > 0 /\ file[p + k] = "lf")
<1>6. m \in 0..(n - 1) /\ Fit(m)
  BY <1>3, <1>4, <1>5
<1>7. LineLen(p, n) = CHOOSE k \in 0..(n - 1) : Fit(k)
  BY DEF LineLen
<1>8. LineLen(p, n) \in 0..(n - 1) /\ Fit(LineLen(p, n))
  <2> HIDE DEF Fit
  <2> QED
    BY <1>6, <1>7
<1> QED
  BY <1>8

\* strlen finds the first NUL, if there is one.
LEMMA StrlenFound ==
    ASSUME NEW m \in [0..(MaxTok + 3) -> MemChars],
           NEW q \in 0..(MaxTok + 3), m[q] = "nul"
    PROVE  /\ Strlen(m) \in 0..q
           /\ m[Strlen(m)] = "nul"
<1> USE SizesAssumption
<1> DEFINE T == {k \in 0..(MaxTok + 3) : m[k] = "nul"}
           n == First(T)
           Fit(k) == m[k] = "nul" /\ \A i \in 0..(k - 1) : m[i] # "nul"
<1>1. n \in T /\ \A y \in T : n <= y
  <2>1. T \in SUBSET Nat /\ T # {}
    OBVIOUS
  <2> QED
    BY <2>1, LeastOf
<1>2. n \in 0..(MaxTok + 3) /\ m[n] = "nul" /\ n <= q
  BY <1>1
<1>3. \A i \in 0..(n - 1) : m[i] # "nul"
  <2> HIDE DEF n
  <2> QED
    BY <1>1, <1>2
<1>4. DOMAIN m = 0..(MaxTok + 3)
  OBVIOUS
<1>5. Strlen(m) \in 0..(MaxTok + 3) /\ Fit(Strlen(m))
  <2> HIDE DEF n
  <2>1. Fit(n)
    BY <1>2, <1>3
  <2>2. Strlen(m) = CHOOSE k \in 0..(MaxTok + 3) : Fit(k)
    BY <1>4 DEF Strlen
  <2> HIDE DEF Fit
  <2> QED
    BY <1>2, <2>1, <2>2
<1>6. Strlen(m) <= q
  <2> SUFFICES ASSUME q < Strlen(m) PROVE FALSE
    BY <1>5
  <2> QED
    BY <1>5
<1> QED
  BY <1>5, <1>6

\* A buffer that begins with NUL holds nothing.
LEMMA EmptyHeld ==
    ASSUME NEW m \in [0..(MaxTok + 3) -> MemChars], m[0] = "nul"
    PROVE  Strlen(m) = 0
<1>1. 0 \in 0..(MaxTok + 3)
  BY SizesAssumption
<1>2. Strlen(m) \in 0..0
  BY <1>1, StrlenFound
<1> QED
  BY <1>2

\* n characters of a sequence behind the first p.
LEMMA SliceOf ==
    ASSUME NEW S, NEW s \in Seq(S), NEW p \in Nat, NEW n \in Nat, p + n <= Len(s)
    PROVE  /\ SubSeq(s, p + 1, p + n) \in Seq(S)
           /\ Len(SubSeq(s, p + 1, p + n)) = n
           /\ \A i \in 1..n : SubSeq(s, p + 1, p + n)[i] = s[p + i]
<1> DEFINE a == p + 1
           b == p + n
<1>1. a \in Int /\ b \in Int /\ b - a + 1 = n /\ (a <= b <=> n # 0)
      /\ \A i \in 1..n : a + i - 1 = p + i
  OBVIOUS
<1>2. \A i \in a..b : s[i] \in S
  <2> SUFFICES ASSUME NEW i \in a..b PROVE s[i] \in S
    OBVIOUS
  <2>1. Len(s) \in Nat
    BY LenProperties
  <2>2. i \in 1..Len(s)
    BY <2>1
  <2> QED
    BY <2>2, ElementOfSeq
<1> HIDE DEF a, b
<1>3. /\ SubSeq(s, a, b) \in Seq(S)
      /\ Len(SubSeq(s, a, b)) = IF a <= b THEN b - a + 1 ELSE 0
      /\ \A i \in 1..(b - a + 1) : SubSeq(s, a, b)[i] = s[a + i - 1]
  BY <1>1, <1>2, SubSeqProperties
<1>4. /\ SubSeq(s, a, b) \in Seq(S) /\ Len(SubSeq(s, a, b)) = n
      /\ \A i \in 1..n : SubSeq(s, a, b)[i] = s[p + i]
  BY <1>1, <1>3
<1> QED
  BY <1>4 DEF a, b

\* How many characters of a set a sequence begins with.
LEMMA SkipFound ==
    ASSUME NEW C, NEW s \in Seq(C), NEW chars
    PROVE  /\ Skip(s, chars) \in 0..Len(s)
           /\ \A i \in 1..Skip(s, chars) : s[i] \in chars
           /\ Skip(s, chars) = Len(s) \/ s[Skip(s, chars) + 1] \notin chars
<1>0. Len(s) \in Nat
  BY LenProperties
<1> DEFINE Out(n) == n = Len(s) \/ s[n + 1] \notin chars
           T == {n \in 0..Len(s) : Out(n)}
           m == First(T)
           Fit(n) == (\A i \in 1..n : s[i] \in chars) /\ (n = Len(s) \/ s[n + 1] \notin chars)
<1>1. m \in T /\ \A y \in T : m <= y
  <2>1. T \in SUBSET Nat /\ Len(s) \in T
    BY <1>0
  <2> QED
    BY <2>1, LeastOf
<1>2. m \in 0..Len(s) /\ Out(m)
  BY <1>1
<1>3. \A i \in 1..m : s[i] \in chars
  <2> HIDE DEF m
  <2> SUFFICES ASSUME NEW i \in 1..m, s[i] \notin chars PROVE FALSE
    OBVIOUS
  <2>1. i - 1 \in 0..Len(s) /\ (i - 1) + 1 = i
    BY <1>0, <1>2
  <2>2. i - 1 \in T
    BY <2>1
  <2> HIDE DEF T
  <2>3. m <= i - 1
    BY <1>1, <2>2
  <2> QED
    BY <1>0, <1>2, <2>3
<1>4. Fit(m)
  BY <1>2, <1>3
<1>5. Skip(s, chars) = CHOOSE n \in 0..Len(s) : Fit(n)
  BY DEF Skip
<1> HIDE DEF m
<1>6. Skip(s, chars) \in 0..Len(s) /\ Fit(Skip(s, chars))
  <2> HIDE DEF Fit
  <2> QED
    BY <1>2, <1>4, <1>5
<1> QED
  BY <1>6

\* A token is made of boundary characters, and cut to the longest boundary.
LEMMA TokenFits ==
    ASSUME NEW C, NEW s \in Seq(C)
    PROVE  NextToken(s) \in Seq({"a", "blank"}) /\ Len(NextToken(s)) <= MaxTok
<1> USE SizesAssumption
<1> DEFINE p == Skip(s, {"blank"})
           t == SubSeq(s, p + 1, Len(s))
           n == Skip(t, {"a", "blank"})
           e == IF n > MaxTok THEN MaxTok ELSE n
<1>1. p \in 0..Len(s) /\ Len(s) \in Nat
  BY SkipFound, LenProperties
<1>2. t \in Seq(C)
  <2> HIDE DEF p
  <2>1. \A i \in (p + 1)..Len(s) : s[i] \in C
    BY <1>1, ElementOfSeq
  <2> QED
    BY <1>1, <2>1, SubSeqProperties
<1> HIDE DEF t
<1>3. n \in 0..Len(t) /\ \A i \in 1..n : t[i] \in {"a", "blank"}
  BY <1>2, SkipFound
<1>4. Len(t) \in Nat
  BY <1>2, LenProperties
<1> HIDE DEF n
<1>5. e \in Nat /\ e <= n /\ e <= MaxTok
  BY <1>3, <1>4
<1> HIDE DEF e
<1>6. \A i \in 1..e : t[i] \in {"a", "blank"}
  BY <1>3, <1>4, <1>5
<1>7. SubSeq(t, 1, e) \in Seq({"a", "blank"}) /\ Len(SubSeq(t, 1, e)) = IF 1 <= e THEN e - 1 + 1 ELSE 0
  BY <1>5, <1>6, SubSeqProperties
<1>8. NextToken(s) = SubSeq(t, 1, e)
  BY DEF NextToken, t, n, e
<1> QED
  BY <1>5, <1>7, <1>8

BoundChars == {"-", "a", "blank"}

\* A boundary begins with two dashes and has something behind them.
LEMMA ScanFits ==
    ASSUME NEW l \in Seq(LineChars)
    PROVE  /\ ScanBoundId(l) \in Seq(BoundChars) /\ Len(ScanBoundId(l)) <= MaxTok + 2
           /\ ScanBoundId(l) # <<>> =>
                 /\ Len(ScanBoundId(l)) >= 3
                 /\ ScanBoundId(l)[1] = "-" /\ ScanBoundId(l)[2] = "-"
<1> USE SizesAssumption
<1> DEFINE semis == {i \in DOMAIN l : l[i] = ";"}
           keys == {i \in DOMAIN l : l[i] = "boundary=" /\ (semis # {} => i > First(semis))}
           token == NextToken(SubSeq(l, First(keys) + 1, Len(l)))
<1>0. Len(l) \in Nat /\ DOMAIN l = 1..Len(l)
  BY LenProperties
<1>1. CASE keys = {} \/ token = <<>>
  <2>1. ScanBoundId(l) = <<>>
    BY <1>1 DEF ScanBoundId
  <2> QED
    BY <2>1, EmptySeq
<1>2. CASE keys # {} /\ token # <<>>
  <2>1. First(keys) \in 1..Len(l)
    <3>1. keys \in SUBSET (1..Len(l))
      BY <1>0
    <3> HIDE DEF keys
    <3>2. keys \in SUBSET Nat
      BY <3>1
    <3> QED
      BY <1>2, <3>1, <3>2, LeastOf
  <2> HIDE DEF keys
  <2>2. SubSeq(l, First(keys) + 1, Len(l)) \in Seq(LineChars)
    <3>1. \A i \in (First(keys) + 1)..Len(l) : l[i] \in LineChars
      BY <1>0, <2>1, ElementOfSeq
    <3> QED
      BY <1>0, <2>1, <3>1, SubSeqProperties
  <2>3. token \in Seq({"a", "blank"}) /\ Len(token) <= MaxTok
    BY <2>2, TokenFits
  <2>4. ScanBoundId(l) = <<"-", "-">> \o token
    BY <1>2 DEF ScanBoundId, keys
  <2> HIDE DEF token
  <2>5. token \in Seq(BoundChars) /\ Len(token) \in Nat \ {0}
    BY <1>2, <2>3, SeqMonotonic, EmptySeq DEF BoundChars
  <2>6. <<"-", "-">> \in Seq(BoundChars) /\ Len(<<"-", "-">>) = 2 
        /\ <<"-", "-">>[1] = "-" /\ <<"-", "-">>[2] = "-"
    BY DEF BoundChars
  <2> DEFINE b == <<"-", "-">> \o token
  <2>7. /\ b \in Seq(BoundChars)
        /\ Len(b) = 2 + Len(token)
        /\ \A i \in 1..(2 + Len(token)) : b[i] = IF i <= 2 THEN <<"-", "-">>[i] ELSE token[i - 2]
    BY <2>5, <2>6, ConcatProperties
  <2>8. b[1] = "-" /\ b[2] = "-"
    BY <2>5, <2>6, <2>7
  <2> HIDE DEF b
  <2>9. ScanBoundId(l) = b
    BY <2>4 DEF b
  <2> QED
    BY <2>3, <2>5, <2>7, <2>8, <2>9
<1> QED
  BY <1>1, <1>2

-----------------------------------------------------------------------------
(***************************************************************************)
(* No buffer is overrun.                                                   *)
(***************************************************************************)

\* A boundary has two dashes, and something behind them.
BoundFits == bound # <<>> => Len(bound) >= 3 /\ bound[1] = "-" /\ bound[2] = "-"

\* The read-ahead ends.
BufEnds == \E n \in 0..(MaxTok + 3) : buf[n] = "nul"

\* n_to_read counts what is still to come, unless it is the carried length negated.
Counted ==
    /\ pc = "fill" => bound # <<>> /\ room >= 0
    /\ room >= 0 => Len(piece) = Size - room
    /\ room < 0 => pc = "return" /\ Len(piece) = -room
    /\ pc \notin {"fill", "return"} => piece = <<>> /\ room = Size

PartInv == TypeOK /\ BoundFits /\ BufEnds /\ Counted

\* The facts of a state that its steps start from.
LEMMA StateFacts ==
    ASSUME PartInv
    PROVE  /\ Len(file) \in Nat /\ Len(bound) \in 0..(MaxTok + 2) /\ Len(piece) \in 0..Size
           /\ bound = <<>> <=> Len(bound) = 0
           /\ pos \in 0..Len(file) /\ room \in -(MaxTok + 3)..Size
           /\ DOMAIN buf = 0..(MaxTok + 3)
           /\ file \in Seq(MemChars)
           /\ Strlen(buf) \in 0..(MaxTok + 3)
<1>1. /\ Len(file) \in Nat /\ Len(bound) \in 0..(MaxTok + 2) /\ Len(piece) \in 0..Size
      /\ bound = <<>> <=> Len(bound) = 0
  BY LenProperties, EmptySeq, SizesAssumption DEF PartInv, TypeOK
<1>2. file \in Seq(MemChars)
  <2>1. FileChars \subseteq MemChars
    BY DEF MemChars
  <2> QED
    BY <2>1, SeqMonotonic DEF PartInv, TypeOK
<1>3. Strlen(buf) \in 0..(MaxTok + 3)
  <2>1. PICK n \in 0..(MaxTok + 3) : buf[n] = "nul"
    BY DEF PartInv, BufEnds
  <2>2. Strlen(buf) \in 0..n
    BY <2>1, StrlenFound DEF PartInv, TypeOK
  <2> QED
    BY <2>2, SizesAssumption
<1> QED
  BY <1>1, <1>2, <1>3 DEF PartInv, TypeOK

\* Bytes copies from the start of the buffer.
LEMMA BytesCopied ==
    ASSUME NEW m \in [0..(MaxTok + 3) -> MemChars], NEW n \in 0..(MaxTok + 4)
    PROVE  Bytes(m, n) \in Seq(MemChars) /\ Len(Bytes(m, n)) = n
<1>1. \A i \in 1..n : m[i - 1] \in MemChars
  BY SizesAssumption
<1>2. [i \in 1..n |-> m[i - 1]] \in [1..n -> MemChars]
  BY <1>1
<1> QED
  BY <1>2 DEF Bytes

\* The read-ahead that begins with NUL.
LEMMA EmptiedFits ==
    ASSUME NEW m \in [0..(MaxTok + 3) -> MemChars]
    PROVE  /\ Emptied(m) \in [0..(MaxTok + 3) -> MemChars]
           /\ Emptied(m)[0] = "nul" /\ 0 \in 0..(MaxTok + 3)
BY SizesAssumption DEF Emptied, MemChars

\* The line behind a candidate's first character fits buf, with its NUL.
LEMMA AheadFits ==
    ASSUME PartInv, Candidate, bound # <<>>
    PROVE  /\ RestLen \in 0..(BoundLen - 1) /\ AfterCandidate \in 1..Len(file)
           /\ BoundLen \in 3..(MaxTok + 2)
           /\ Ahead \in [0..(MaxTok + 3) -> MemChars]
           /\ RestLen + 1 \in 0..(MaxTok + 3) /\ Ahead[RestLen + 1] = "nul"
<1> USE SizesAssumption
<1>1. /\ Len(file) \in Nat /\ pos \in 0..Len(file) /\ pos < Len(file)
      /\ BoundLen \in 3..(MaxTok + 2)
  BY StateFacts DEF Candidate, BoundLen, PartInv, BoundFits
<1>2. RestLen \in 0..(BoundLen - 1) /\ pos + 1 + RestLen <= Len(file)
  <2>1. pos + 1 \in 0..Len(file) /\ BoundLen \in Nat \ {0}
    BY <1>1
  <2>2. file \in Seq(FileChars)
    BY DEF PartInv, TypeOK
  <2> QED
    BY <2>1, <2>2, LineFound DEF RestLen
<1>3. AfterCandidate \in 1..Len(file)
  BY <1>1, <1>2 DEF AfterCandidate
<1>4. \A i \in 0..RestLen : file[pos + 1 + i] \in MemChars
  <2> SUFFICES ASSUME NEW i \in 0..RestLen PROVE file[pos + 1 + i] \in MemChars
    OBVIOUS
  <2>1. pos + 1 + i \in 1..Len(file)
    BY <1>1, <1>2
  <2> QED
    BY <2>1, StateFacts, ElementOfSeq
<1>5. /\ DOMAIN buf = 0..(MaxTok + 3)
      /\ \A i \in 0..(MaxTok + 3) : buf[i] \in MemChars
  BY DEF PartInv, TypeOK
<1>6. Ahead \in [0..(MaxTok + 3) -> MemChars]
  <2>1. \A i \in 0..(MaxTok + 3) :
           (IF i <= RestLen THEN file[pos + 1 + i] ELSE IF i = RestLen + 1 THEN "nul" ELSE buf[i])
              \in MemChars
    BY <1>2, <1>4, <1>5 DEF MemChars
  <2> QED
    BY <1>5, <2>1 DEF Ahead
<1>7. RestLen + 1 \in 0..(MaxTok + 3)
  BY <1>1, <1>2
<1>8. Ahead[RestLen + 1] = "nul"
  BY <1>2, <1>5, <1>7 DEF Ahead
<1> QED
  BY <1>1, <1>2, <1>3, <1>6, <1>7, <1>8

\* A length and a count of 0..Size.
LEMMA RangesWiden == \A n \in 0..Size : n <= Size /\ n \in -(MaxTok + 3)..Size
BY SizesAssumption

\* Put leaves no more in the buffer than it counts.
LEMMA PutFits ==
    ASSUME PartInv, pc = "fill", NEW s \in Seq(MemChars), Len(s) <= room, Put(s)
    PROVE  /\ piece' \in Seq(MemChars) /\ Len(piece') \in 0..Size /\ Len(piece') = Size - room'
           /\ room' \in 0..Size /\ pc' \in {"fill", "return"}
<1> USE SizesAssumption
<1>1. Len(s) \in Nat /\ piece \in Seq(MemChars) /\ Len(piece) \in Nat
  BY LenProperties DEF PartInv, TypeOK
<1>2. piece' \in Seq(MemChars) /\ Len(piece') = Len(piece) + Len(s)
  BY <1>1, ConcatProperties DEF Put
<1>3. room \in 0..Size /\ Len(piece) = Size - room
  BY DEF PartInv, TypeOK, Counted
<1>4. room' = room - Len(s) /\ pc' \in {"fill", "return"}
  BY DEF Put
<1> QED
  BY <1>1, <1>2, <1>3, <1>4

LEMMA InitPart == Init => PartInv
<1> SUFFICES ASSUME Init PROVE PartInv
  OBVIOUS
<1> USE SizesAssumption
<1>1. line \in Seq(LineChars) /\ file \in Seq(FileChars)
  BY InputsAssumption DEF Init
<1>2. buf \in [0..(MaxTok + 3) -> MemChars] /\ buf[0] = "nul" /\ 0 \in 0..(MaxTok + 3)
  BY DEF Init, MemChars
<1>3. /\ bound = <<>> /\ piece = <<>> /\ image = <<>>
      /\ \A S : <<>> \in Seq(S) /\ Len(<<>>) = 0
  BY EmptySeq DEF Init
<1>4. Len(file) \in Nat
  BY <1>1, LenProperties
<1>5. /\ pos \in 0..Len(file) /\ start \in 0..pos /\ room \in -(MaxTok + 3)..Size
      /\ pc \in Labels /\ done \in BOOLEAN
  <2>1. room \in -(MaxTok + 3)..Size
    BY RangesWiden DEF Init
  <2>2. pos \in 0..Len(file) /\ start \in 0..pos
    BY <1>4 DEF Init
  <2> QED
    BY <2>1, <2>2 DEF Init, Labels
<1>6. Len(bound) <= MaxTok + 2 /\ Len(piece) <= Size
  BY <1>3
<1>7. TypeOK
  BY <1>1, <1>2, <1>3, <1>5, <1>6 DEF TypeOK
<1> QED
  BY <1>2, <1>3, <1>7 DEF Init, PartInv, BoundFits, BufEnds, Counted

LEMMA StepPart == PartInv /\ [Next]_vars => PartInv'
<1> SUFFICES ASSUME PartInv, [Next]_vars PROVE PartInv'
  OBVIOUS
<1> USE SizesAssumption
<1> USE DEF input, fill
<1>0. /\ TypeOK /\ BoundFits /\ BufEnds /\ Counted
      /\ Len(file) \in Nat /\ Len(bound) \in 0..(MaxTok + 2) /\ Len(piece) \in 0..Size
      /\ bound = <<>> <=> Len(bound) = 0
      /\ DOMAIN buf = 0..(MaxTok + 3)
      /\ Strlen(buf) \in 0..(MaxTok + 3)
  BY StateFacts DEF PartInv
<1>e. <<>> \in Seq(MemChars) /\ Len(<<>>) = 0
  BY EmptySeq
<1>1. CASE Scan
  <2>1. /\ ScanBoundId(line) \in Seq({"-", "a", "blank"}) /\ Len(ScanBoundId(line)) <= MaxTok + 2
        /\ ScanBoundId(line) # <<>> =>
              /\ Len(ScanBoundId(line)) >= 3
              /\ ScanBoundId(line)[1] = "-" /\ ScanBoundId(line)[2] = "-"
    BY <1>0, ScanFits DEF TypeOK, BoundChars
  <2>2. TypeOK'
    BY <1>0, <1>1, <2>1 DEF TypeOK, Scan, Labels
  <2> QED
    BY <1>0, <1>1, <2>1, <2>2 DEF PartInv, Scan, BoundFits, BufEnds, Counted
<1>2. CASE SeekLine
  <2>1. /\ LineLen(pos, LineMax) \in 0..(LineMax - 1)
        /\ pos + LineLen(pos, LineMax) <= Len(file)
    BY <1>0, LineFound DEF TypeOK
  <2>2. pos' \in 0..Len(file) /\ start' = pos' /\ pc' \in {"call", "ended", "seek"}
    <3>1. pos' = pos + LineLen(pos, LineMax) /\ start' = pos' /\ pc' \in {"call", "ended", "seek"}
      BY <1>2 DEF SeekLine
    <3>2. pos \in Nat /\ Len(file) \in Nat /\ LineMax \in Nat
      BY <1>0, StateFacts, SizesAssumption
    <3> QED
      BY <2>1, <3>1, <3>2
  <2>3. UNCHANGED <<input, bound, fill, image>> /\ pc = "seek"
    BY <1>2 DEF SeekLine
  <2>4. TypeOK'
    BY <1>0, <2>2, <2>3 DEF TypeOK, Labels
  <2> QED
    BY <1>0, <2>2, <2>3, <2>4 DEF PartInv, BoundFits, BufEnds, Counted
<1>3. CASE SeekEnd
  BY <1>0, <1>3 DEF SeekEnd, PartInv, TypeOK, Labels, BoundFits, BufEnds, Counted
<1>4. CASE CallPlain
  <2> DEFINE n == IF Len(file) - pos < Size THEN Len(file) - pos ELSE Size
  <2>1. n \in 0..Size /\ pos + n \in 0..Len(file) /\ pos \in Nat
    BY <1>0 DEF TypeOK
  <2>2. /\ piece' = SubSeq(file, pos + 1, pos + n) /\ pos' = pos + n /\ room' = Size - n
        /\ pc' = "return" /\ UNCHANGED <<input, bound, start, done, buf, image>>
    BY <1>4 DEF CallPlain
  <2> HIDE DEF n
  <2>3. \A i \in (pos + 1)..(pos + n) : file[i] \in MemChars
    <3> SUFFICES ASSUME NEW i \in (pos + 1)..(pos + n) PROVE file[i] \in MemChars
      OBVIOUS
    <3>1. i \in 1..Len(file)
      BY <1>0, <2>1
    <3> QED
      BY <3>1, StateFacts, ElementOfSeq
  <2>4. piece' \in Seq(MemChars) /\ Len(piece') = n
    BY <2>1, <2>2, <2>3, SubSeqProperties
  <2>5. TypeOK'
    BY <1>0, <2>1, <2>2, <2>4 DEF TypeOK, Labels
  <2> QED
    BY <1>0, <2>1, <2>2, <2>4, <2>5 DEF PartInv, BoundFits, BufEnds, Counted
<1>5. CASE CallFresh
  BY <1>0, <1>5, <1>e DEF CallFresh, PartInv, TypeOK, Labels, BoundFits, BufEnds, Counted
<1>6. CASE CallCarry
  <2>1. buf' \in [0..(MaxTok + 3) -> MemChars] /\ BufEnds'
    BY <1>0, <1>6, EmptiedFits DEF TypeOK, CallCarry, BufEnds
  <2>2. /\ piece' \in Seq(MemChars)
        /\ \/ room' = 0 /\ Len(piece') = Size
           \/ Strlen(buf) < Size /\ room' = -Strlen(buf) /\ Len(piece') = Strlen(buf)
        /\ Strlen(buf) > 0
    <3>1. /\ Strlen(buf) > 0
          /\ IF Size <= Strlen(buf) THEN piece' = Bytes(buf, Size) /\ room' = 0
                                    ELSE piece' = Bytes(buf, Strlen(buf)) /\ room' = -Strlen(buf)
      BY <1>6 DEF CallCarry
    <3>2. buf \in [0..(MaxTok + 3) -> MemChars]
      BY <1>0 DEF TypeOK
    <3>3. CASE Size <= Strlen(buf)
      <4>1. Size \in 0..(MaxTok + 4)
        BY <1>0, <3>3
      <4> QED
        BY <3>1, <3>2, <3>3, <4>1, BytesCopied
    <3>4. CASE ~ (Size <= Strlen(buf))
      <4>1. Strlen(buf) \in 0..(MaxTok + 4)
        BY <1>0
      <4> QED
        BY <1>0, <3>1, <3>2, <3>4, <4>1, BytesCopied
    <3> QED
      BY <3>3, <3>4
  <2>3. pc' = "return" /\ UNCHANGED <<input, bound, pos, start, done, image>>
    BY <1>6 DEF CallCarry
  <2>4. TypeOK'
    BY <1>0, <2>1, <2>2, <2>3 DEF TypeOK, Labels
  <2> QED
    BY <1>0, <2>1, <2>2, <2>3, <2>4 DEF PartInv, BoundFits, Counted
<1>s. ASSUME NEW p \in Nat, p <= Len(file), pos <= p, pc = "fill", Stop(p) PROVE PartInv'
  <2>1. buf' \in [0..(MaxTok + 3) -> MemChars] /\ BufEnds'
    BY <1>0, <1>s, EmptiedFits DEF TypeOK, Stop, BufEnds
  <2>2. TypeOK'
    BY <1>0, <1>s, <2>1 DEF TypeOK, Labels, Stop
  <2> QED
    BY <1>0, <1>s, <2>1, <2>2 DEF PartInv, BoundFits, Counted, Stop
<1>7. CASE FillEOF
  <2>1. pc = "fill" /\ (Stop(pos) \/ (pos < Len(file) /\ Stop(pos + 1)))
    BY <1>7 DEF FillEOF, Filling
  <2> QED
    BY <1>0, <1>s, <2>1 DEF TypeOK
<1>8. CASE FillChar
  <2>1. /\ pc = "fill" /\ room > 0 /\ pos < Len(file) /\ Put(<<file[pos + 1]>>)
        /\ pos' = pos + 1 /\ UNCHANGED buf
    BY <1>8 DEF FillChar, Filling
  <2>2. <<file[pos + 1]>> \in Seq(MemChars) /\ Len(<<file[pos + 1]>>) = 1
    <3>1. pos + 1 \in 1..Len(file)
      BY <1>0, <2>1 DEF TypeOK
    <3>2. file[pos + 1] \in MemChars
      BY <3>1, StateFacts, ElementOfSeq
    <3> QED
      BY <3>2
  <2>3. /\ piece' \in Seq(MemChars) /\ Len(piece') \in 0..Size /\ Len(piece') = Size - room'
        /\ room' \in 0..Size /\ pc' \in {"fill", "return"}
    <3>1. Len(<<file[pos + 1]>>) <= room
      BY <1>0, <2>1, <2>2 DEF TypeOK
    <3> QED
      BY <2>1, <2>2, <3>1, PutFits
  <2>4. UNCHANGED <<input, bound, start, done, image>>
    BY <2>1 DEF Put
  <2>5. Len(piece') <= Size /\ room' \in -(MaxTok + 3)..Size
    BY <2>3, RangesWiden
  <2>6. pos' \in 0..Len(file) /\ start <= pos'
    BY <1>0, <2>1 DEF TypeOK
  <2>7. piece' \in Seq(MemChars) /\ pc' \in {"fill", "return"}
    BY <2>3
  <2>8. TypeOK'
    BY <1>0, <2>1, <2>4, <2>5, <2>6, <2>7 DEF TypeOK, Labels
  <2> QED
    <3>1. BoundFits'
      BY <1>0, <2>4 DEF BoundFits
    <3>2. BufEnds'
      BY <2>1 DEF PartInv, BufEnds
    <3>3. bound # <<>>
      BY <2>1 DEF PartInv, Counted
    <3>4. Counted'
      BY <2>3, <2>4, <3>3 DEF Counted
    <3> QED
      BY <2>8, <3>1, <3>2, <3>4 DEF PartInv
<1>9. CASE FillLast \/ FillMatch
  <2>1. Candidate /\ (Stop(pos + 1) \/ Stop(AfterCandidate))
    BY <1>9 DEF FillLast, FillMatch
  <2>2. pc = "fill" /\ pos < Len(file) /\ bound # <<>>
    BY <1>0, <2>1 DEF Candidate, Filling, Counted
  <2>3. AfterCandidate \in 1..Len(file) /\ AfterCandidate > pos
    <3>1. RestLen \in 0..(BoundLen - 1) /\ BoundLen \in 3..(MaxTok + 2) /\ AfterCandidate \in 1..Len(file)
      BY <2>1, <2>2, AheadFits
    <3>2. pos \in Nat /\ MaxTok \in Nat
      BY <1>0, StateFacts, SizesAssumption
    <3> QED
      BY <3>1, <3>2 DEF AfterCandidate
  <2> QED
    BY <1>0, <1>s, <2>1, <2>2, <2>3 DEF TypeOK
<1>10. CASE FillMiss
  <2>1. /\ Candidate /\ pos' = AfterCandidate
        /\ IF room <= BoundLen
           THEN Put(Bytes(Ahead, room)) /\ buf' = Ahead
           ELSE Put(Bytes(Ahead, BoundLen)) /\ buf' = Emptied(Ahead)
    BY <1>10 DEF FillMiss
  <2>2. pc = "fill" /\ room > 0 /\ pos < Len(file) /\ bound # <<>>
    BY <1>0, <2>1 DEF Candidate, Filling, Counted
  <2>3. /\ RestLen \in 0..(BoundLen - 1) /\ AfterCandidate \in 1..Len(file)
        /\ BoundLen \in 3..(MaxTok + 2)
        /\ Ahead \in [0..(MaxTok + 3) -> MemChars]
        /\ RestLen + 1 \in 0..(MaxTok + 3) /\ Ahead[RestLen + 1] = "nul"
    BY <2>1, <2>2, AheadFits
  <2>4. buf' \in [0..(MaxTok + 3) -> MemChars] /\ BufEnds'
    <3>1. buf' = Ahead \/ buf' = Emptied(Ahead)
      BY <2>1
    <3> QED
      BY <2>3, <3>1, EmptiedFits DEF BufEnds
  <2>5. PICK k \in 0..(MaxTok + 4) : k <= room /\ Put(Bytes(Ahead, k))
    BY <1>0, <2>1, <2>2, <2>3 DEF TypeOK
  <2>6. Bytes(Ahead, k) \in Seq(MemChars) /\ Len(Bytes(Ahead, k)) = k
    BY <2>3, BytesCopied
  <2>7. /\ piece' \in Seq(MemChars) /\ Len(piece') \in 0..Size /\ Len(piece') = Size - room'
        /\ room' \in 0..Size /\ pc' \in {"fill", "return"}
    BY <2>2, <2>5, <2>6, PutFits
  <2>8. UNCHANGED <<input, bound, start, done, image>>
    BY <2>5 DEF Put
  <2>9. pos' \in 0..Len(file) /\ start <= pos'
    BY <1>0, <2>1, <2>3 DEF AfterCandidate, TypeOK
  <2>10. Len(piece') <= Size /\ room' \in -(MaxTok + 3)..Size
    BY <2>7, RangesWiden
  <2>11. piece' \in Seq(MemChars) /\ pc' \in {"fill", "return"}
    BY <2>7
  <2>12. TypeOK'
    BY <1>0, <2>4, <2>8, <2>9, <2>10, <2>11 DEF TypeOK, Labels
  <2> QED
    BY <1>0, <2>2, <2>4, <2>7, <2>8, <2>12 DEF PartInv, BoundFits, Counted
<1>11. CASE Return
  <2> DEFINE n == Size - room
             rest == [i \in 1..(n - Len(piece)) |-> "stack"]
  <2>1. n - Len(piece) \in Nat
    BY <1>0 DEF Counted, TypeOK
  <2>2. rest \in Seq(MemChars)
    <3>1. rest \in [1..(n - Len(piece)) -> MemChars]
      BY DEF MemChars
    <3> QED
      BY <2>1, <3>1
  <2>3. /\ image' = image \o piece \o rest /\ pc' \in {"compose", "call"}
        /\ piece' = <<>> /\ room' = Size /\ UNCHANGED <<input, bound, pos, start, done, buf>>
    BY <1>11 DEF Return
  <2> HIDE DEF rest
  <2>4. image' \in Seq(MemChars)
    BY <1>0, <2>2, <2>3, ConcatProperties DEF TypeOK
  <2>5. TypeOK'
    BY <1>0, <1>e, <2>3, <2>4 DEF TypeOK, Labels
  <2> QED
    BY <1>0, <1>e, <2>3, <2>5 DEF PartInv, BoundFits, BufEnds, Counted
<1>12. CASE Compose \/ MakeNode
  BY <1>0, <1>12 DEF Compose, MakeNode, PartInv, TypeOK, Labels, BoundFits, BufEnds, Counted
<1>13. CASE CheckEndBound
  <2>1. /\ pc' \in Verdicts /\ pos' \in 0..Len(file) /\ pos <= pos'
        /\ UNCHANGED <<input, bound, start, fill, image>>
    BY <1>0, <1>13 DEF CheckEndBound, Verdicts, TypeOK
  <2>2. pc \in {"node", "failed"}
    BY <1>13 DEF CheckEndBound
  <2>3. TypeOK'
    BY <1>0, <2>1 DEF TypeOK, Labels
  <2> QED
    BY <1>0, <2>1, <2>2, <2>3 DEF PartInv, BoundFits, BufEnds, Counted, Verdicts
<1>14. CASE UNCHANGED vars
  BY <1>0, <1>14 DEF vars, PartInv, TypeOK, BoundFits, BufEnds, Counted
<1> QED
  BY <1>1, <1>2, <1>3, <1>4, <1>5, <1>6, <1>7, <1>8, <1>9, <1>10, <1>11, <1>12, <1>13, <1>14
     DEF Next

(***************************************************************************)
(* Whatever a part holds, no call of rp_fill_buff_CB writes past the size  *)
(* it was asked for, and no line read ahead past its buffer.               *)
(***************************************************************************)
THEOREM NoOverrun == Spec => []TypeOK
<1>1. PartInv => TypeOK
  BY DEF PartInv
<1> QED
  BY InitPart, StepPart, <1>1, PTL DEF Spec

-----------------------------------------------------------------------------
(***************************************************************************)
(* The image is the part.                                                  *)
(***************************************************************************)

BoundAtEnd == Occurs(bound, PartEnd)
After == {"compose", "null", "composed", "node", "failed"}
Reading == pc \in {"call", "fill"} \/ (pc = "return" /\ ~done)
Behind == pc \in After \/ (pc = "return" /\ done)

Started == pc \in {"scan", "seek"} => image = <<>> /\ ~done /\ start = pos /\ buf[0] = "nul"

\* Without a boundary: all that was taken was delivered.
PlainInv ==
    /\ pc \in {"call", "return"} =>
          image \o piece = SubSeq(file, start + 1, pos) /\ ~done /\ room >= 0
    /\ pc = "return" /\ room = Size => pos = Len(file)
    /\ pc \in After => image = SubSeq(file, start + 1, Len(file))

\* With one: before the part's end nothing is held back, and the buffers but
\* the last are full.
BoundInv ==
    /\ Reading => /\ image \o piece = SubSeq(file, start + 1, pos)
                  /\ pos <= PartEnd /\ ~done /\ buf[0] = "nul"
                  /\ \E k \in Nat : Len(image) = k * Size
    /\ pc = "return" => room >= 0 /\ (~done => room = 0)
    /\ pc = "return" /\ done => image \o piece = SubSeq(file, start + 1, PartEnd)
    /\ pc \in After => image = SubSeq(file, start + 1, PartEnd) /\ done
    /\ Behind => (BoundAtEnd => pos = PartEnd + BoundLen)

ExactInv ==
    /\ Started
    /\ bound = <<>> => PlainInv
    /\ bound # <<>> /\ Benign => BoundInv
    /\ EndKnown

\* The part is where it was.
LEMMA SamePart ==
    ASSUME file' = file, start' = start, bound' = bound
    PROVE  /\ PartEnd' = PartEnd
           /\ Benign' <=> Benign
           /\ BoundAtEnd' <=> BoundAtEnd
<1>1. PartEnd' = PartEnd
  BY DEF PartEnd, Ends, Occurs, First
<1>2. BoundLen' = BoundLen
  BY DEF BoundLen
<1>3. Benign' <=> Benign
  BY <1>1, <1>2 DEF Benign
<1>4. BoundAtEnd' <=> BoundAtEnd
  BY <1>1 DEF BoundAtEnd, Occurs
<1> QED
  BY <1>1, <1>3, <1>4

\* A part ends at the first place where one may end.
LEMMA PartEndFound ==
    ASSUME PartInv
    PROVE  /\ PartEnd \in start..Len(file) /\ Ends(PartEnd)
           /\ \A p \in start..Len(file) : Ends(p) => PartEnd <= p
<1>1. Len(file) \in Nat /\ start \in 0..Len(file)
  BY StateFacts DEF PartInv, TypeOK
<1> DEFINE T == {p \in start..Len(file) : Ends(p)}
<1>2. T \in SUBSET Nat /\ Len(file) \in T
  BY <1>1 DEF Ends
<1>3. First(T) \in T /\ \A p \in T : First(T) <= p
  BY <1>2, LeastOf
<1>4. PartEnd = First(T)
  BY DEF PartEnd
<1> HIDE DEF T
<1>5. PartEnd \in T /\ \A p \in T : PartEnd <= p
  BY <1>3, <1>4
<1> QED
  BY <1>5 DEF T

\* A boundary stands nowhere before the part's end.
LEMMA NotYet ==
    ASSUME PartInv, pos < PartEnd
    PROVE  pos < Len(file) /\ file[pos + 1] # "ff" /\ ~Occurs(bound, pos)
<1>1. /\ Len(file) \in Nat /\ pos \in 0..Len(file) /\ start \in 0..pos
      /\ PartEnd \in start..Len(file)
  BY StateFacts, PartEndFound DEF PartInv, TypeOK
<1>2. ~Ends(pos)
  <2>1. pos \in start..Len(file)
    BY <1>1
  <2> QED
    BY <1>1, <2>1, PartEndFound
<1>3. file[pos + 1] = "ff" => Occurs(<<"ff">>, pos)
  <2>1. Len(<<"ff">>) = 1 /\ <<"ff">>[1] = "ff"
    OBVIOUS
  <2> QED
    BY <1>1, <2>1 DEF Occurs
<1> QED
  BY <1>1, <1>2, <1>3 DEF Ends

\* A candidate of a benign part is read whole: behind it is the boundary's length.
LEMMA RestWhole ==
    ASSUME PartInv, Candidate, bound # <<>>, pos + BoundLen <= Len(file),
           \A j \in (pos + 2)..(pos + BoundLen - 1) : file[j] # "lf"
    PROVE  /\ RestLen = BoundLen - 1
           /\ AfterCandidate = pos + BoundLen
           /\ Bytes(Ahead, BoundLen) = SubSeq(file, pos + 1, pos + BoundLen)
<1>1. /\ Len(file) \in Nat /\ pos \in 0..Len(file) /\ pos < Len(file)
      /\ BoundLen \in 3..(MaxTok + 2) /\ RestLen \in 0..(BoundLen - 1)
      /\ DOMAIN buf = 0..(MaxTok + 3)
  BY AheadFits, StateFacts, SizesAssumption DEF Candidate
<1>2. RestLen = BoundLen - 1
  <2>1. pos + 1 \in 0..Len(file) /\ BoundLen \in Nat \ {0} /\ file \in Seq(FileChars)
    BY <1>1 DEF PartInv, TypeOK, SizesAssumption
  <2>2. \/ RestLen = BoundLen - 1
        \/ pos + 1 + RestLen = Len(file)
        \/ RestLen > 0 /\ file[pos + 1 + RestLen] = "lf"
    BY <2>1, LineFound DEF RestLen
  <2>3. CASE RestLen > 0 /\ RestLen < BoundLen - 1
    <3>1. pos + 1 + RestLen \in (pos + 2)..(pos + BoundLen - 1)
      BY <1>1, <2>3
    <3> QED
      BY <1>1, <2>2, <2>3, <3>1
  <2> QED
    BY <1>1, <2>2, <2>3
<1>3. AfterCandidate = pos + BoundLen
  BY <1>1, <1>2 DEF AfterCandidate
<1>4. \A i \in 1..BoundLen : Ahead[i - 1] = file[pos + i]
  <2> SUFFICES ASSUME NEW i \in 1..BoundLen PROVE Ahead[i - 1] = file[pos + i]
    OBVIOUS
  <2>1. i - 1 \in 0..(MaxTok + 3) /\ i - 1 <= RestLen /\ pos + 1 + (i - 1) = pos + i
    BY <1>1, <1>2, SizesAssumption
  <2> QED
    BY <1>1, <2>1 DEF Ahead
<1>5. /\ Bytes(Ahead, BoundLen) \in Seq(MemChars) /\ Len(Bytes(Ahead, BoundLen)) = BoundLen
      /\ \A i \in 1..BoundLen : Bytes(Ahead, BoundLen)[i] = file[pos + i]
  <2>1. BoundLen \in 0..(MaxTok + 4)
    BY <1>1, SizesAssumption
  <2>2. Ahead \in [0..(MaxTok + 3) -> MemChars]
    BY AheadFits
  <2>3. \A i \in 1..BoundLen : Bytes(Ahead, BoundLen)[i] = Ahead[i - 1]
    BY DEF Bytes
  <2> QED
    BY <1>4, <2>1, <2>2, <2>3, BytesCopied
<1>6. /\ SubSeq(file, pos + 1, pos + BoundLen) \in Seq(MemChars)
      /\ Len(SubSeq(file, pos + 1, pos + BoundLen)) = BoundLen
      /\ \A i \in 1..BoundLen : SubSeq(file, pos + 1, pos + BoundLen)[i] = file[pos + i]
  BY <1>1, StateFacts, SliceOf
<1>7. Bytes(Ahead, BoundLen) = SubSeq(file, pos + 1, pos + BoundLen)
  BY <1>1, <1>5, <1>6, SeqEqual
<1> QED
  BY <1>2, <1>3, <1>7

\* What lies between two multiples of Size shares its block.
LEMMA SameBlock ==
    ASSUME NEW S \in Nat \ {0}, NEW k \in Nat, NEW q \in Nat, NEW n \in 0..(S - 1), NEW b \in Nat,
           q * S <= k * S + n, k * S + n + b < (q + 1) * S
    PROVE  n + b < S
<1>1. q <= k
  <2> SUFFICES ASSUME q >= k + 1 PROVE FALSE
    OBVIOUS
  <2>1. (k + 1) * S <= q * S
    <3>1. PICK d \in Nat : q = (k + 1) + d
      <4>1. q - (k + 1) \in Nat /\ q = (k + 1) + (q - (k + 1))
        OBVIOUS
      <4> QED
        BY <4>1
    <3>2. q * S = (k + 1) * S + d * S /\ d * S \in Nat /\ (k + 1) * S \in Nat
      BY <3>1
    <3> QED
      BY <3>2
  <2>2. (k + 1) * S = k * S + S /\ k * S \in Nat
    OBVIOUS
  <2> QED
    BY <2>1, <2>2
<1>2. k <= q
  <2> SUFFICES ASSUME k >= q + 1 PROVE FALSE
    OBVIOUS
  <2>1. (q + 1) * S <= k * S
    <3>1. PICK d \in Nat : k = (q + 1) + d
      <4>1. k - (q + 1) \in Nat /\ k = (q + 1) + (k - (q + 1))
        OBVIOUS
      <4> QED
        BY <4>1
    <3>2. k * S = (q + 1) * S + d * S /\ d * S \in Nat /\ (q + 1) * S \in Nat
      BY <3>1
    <3> QED
      BY <3>2
  <2>2. k * S \in Nat
    OBVIOUS
  <2> QED
    BY <2>1, <2>2
<1>3. k = q
  BY <1>1, <1>2
<1>4. (q + 1) * S = k * S + S /\ k * S \in Nat
  BY <1>3
<1> QED
  BY <1>4

\* What is delivered of what was taken, and n characters more.
LEMMA Taken ==
    ASSUME PartInv, image \o piece = SubSeq(file, start + 1, pos)
    PROVE  /\ Len(image) \in Nat /\ Len(image) + Len(piece) = pos - start
           /\ \A n \in Nat : pos + n <= Len(file) =>
                 image \o (piece \o SubSeq(file, pos + 1, pos + n)) = SubSeq(file, start + 1, pos + n)
<1>1. /\ Len(file) \in Nat /\ pos \in 0..Len(file) /\ start \in 0..pos
      /\ image \in Seq(MemChars) /\ piece \in Seq(MemChars) /\ file \in Seq(MemChars)
      /\ Len(image) \in Nat /\ Len(piece) \in Nat
  BY StateFacts, LenProperties DEF PartInv, TypeOK
<1>2. Len(image) + Len(piece) = pos - start
  <2>1. Len(image \o piece) = Len(image) + Len(piece)
    BY <1>1, ConcatProperties
  <2>2. pos - start \in Nat /\ start \in Nat /\ start + (pos - start) = pos
    BY <1>1
  <2>3. Len(SubSeq(file, start + 1, start + (pos - start))) = pos - start
    BY <1>1, <2>2, SliceOf
  <2> QED
    BY <2>1, <2>2, <2>3
<1>3. ASSUME NEW n \in Nat, pos + n <= Len(file)
      PROVE  image \o (piece \o SubSeq(file, pos + 1, pos + n)) = SubSeq(file, start + 1, pos + n)
  <2> DEFINE t == SubSeq(file, pos + 1, pos + n)
  <2>1. t \in Seq(MemChars)
    BY <1>1, <1>3, SliceOf
  <2>2. image \o (piece \o t) = (image \o piece) \o t
    <3>1. \A u \in Seq(MemChars) : (image \o piece) \o u = image \o (piece \o u)
      <4> SUFFICES ASSUME NEW u \in Seq(MemChars)
                   PROVE  (image \o piece) \o u = image \o (piece \o u)
        OBVIOUS
      <4>1. image \in Seq(MemChars) /\ piece \in Seq(MemChars)
        BY <1>1
      <4> QED
        BY ONLY <4>1, u \in Seq(MemChars), ConcatAssociative
    <3> QED
      BY <2>1, <3>1
  <2>3. SubSeq(file, start + 1, pos) \o t = SubSeq(file, start + 1, pos + n)
    <3>1. /\ start + 1 \in 1..(Len(file) + 1) /\ pos \in (start + 1 - 1)..Len(file)
          /\ pos + n \in pos..Len(file)
      BY <1>1, <1>3
    <3> QED
      BY <1>1, <3>1, ConcatAdjacentSubSeq
  <2> QED
    BY <2>2, <2>3
<1> QED
  BY <1>1, <1>2, <1>3

\* A candidate of a benign part is the boundary, at the part's end, or fits
\* the part and the buffer.
LEMMA CandidateBenign ==
    ASSUME PartInv, Benign, Candidate, bound # <<>>, pos <= PartEnd,
           NEW k \in Nat, Len(image) = k * Size, Len(image) + Len(piece) = pos - start
    PROVE  /\ RestLen = BoundLen - 1 /\ AfterCandidate = pos + BoundLen
           /\ AfterCandidate <= Len(file)
           /\ Bytes(Ahead, BoundLen) = SubSeq(file, pos + 1, pos + BoundLen)
           /\ \/ pos = PartEnd /\ BoundAtEnd /\ Bytes(Ahead, BoundLen) = bound
              \/ /\ pos + BoundLen <= PartEnd /\ Bytes(Ahead, BoundLen) # bound
                 /\ room > BoundLen
<1>1. /\ Len(file) \in Nat /\ pos \in 0..Len(file) /\ pos < Len(file) /\ start \in 0..pos
      /\ BoundLen \in 3..(MaxTok + 2) /\ BoundLen = Len(bound)
      /\ PartEnd \in start..Len(file) /\ Ends(PartEnd)
      /\ file[pos + 1] = "-" /\ bound[1] = "-" /\ bound \in Seq(BoundChars)
      /\ file \in Seq(MemChars) /\ pc = "fill"
  <2>1. /\ Len(file) \in Nat /\ pos \in 0..Len(file) /\ file \in Seq(MemChars)
    BY StateFacts
  <2>2. pos < Len(file) /\ file[pos + 1] = bound[1] /\ pc = "fill"
    BY DEF Candidate, Filling
  <2>3. /\ start \in 0..pos /\ bound[1] = "-" /\ bound \in Seq(BoundChars)
    BY DEF PartInv, TypeOK, BoundFits, BoundChars
  <2> QED
    BY <2>1, <2>2, <2>3, AheadFits, PartEndFound DEF BoundLen
<1>2. ASSUME pos + BoundLen <= Len(file),
             Bytes(Ahead, BoundLen) = SubSeq(file, pos + 1, pos + BoundLen)
      PROVE  Bytes(Ahead, BoundLen) = bound <=> Occurs(bound, pos)
  <2> DEFINE t == SubSeq(file, pos + 1, pos + BoundLen)
  <2>1. t \in Seq(MemChars) /\ Len(t) = BoundLen /\ \A i \in 1..BoundLen : t[i] = file[pos + i]
    <3>1. file \in Seq(MemChars) /\ pos \in Nat /\ BoundLen \in Nat
      BY <1>1, SizesAssumption
    <3>2. \A n \in Nat : pos + n <= Len(file) =>
                /\ SubSeq(file, pos + 1, pos + n) \in Seq(MemChars)
                /\ Len(SubSeq(file, pos + 1, pos + n)) = n
                /\ \A i \in 1..n : SubSeq(file, pos + 1, pos + n)[i] = file[pos + i]
      BY <3>1, SliceOf
    <3> QED
      BY <1>2, <3>1, <3>2
  <2>2. bound \in Seq(MemChars \cup BoundChars) /\ t \in Seq(MemChars \cup BoundChars)
    BY <1>1, <2>1, SeqMonotonic
  <2> HIDE DEF t
  <2>3. t = bound <=> \A i \in 1..BoundLen : t[i] = bound[i]
    BY <1>1, <2>1, <2>2, SeqEqual
  <2>4. Occurs(bound, pos) <=> \A i \in 1..BoundLen : file[pos + i] = bound[i]
    BY <1>1, <1>2 DEF Occurs
  <2>5. t = bound <=> Occurs(bound, pos)
    BY <2>1, <2>3, <2>4
  <2> QED
    BY <1>2, <2>5 DEF t
<1>3. CASE pos < PartEnd
  <2>1. pos + 1 \in (start + 1)..PartEnd /\ file[pos + 1] = bound[1]
    BY <1>1, <1>3
  <2> DEFINE i == pos + 1
  <2>2. /\ i + BoundLen - 1 <= PartEnd
        /\ \A j \in (i + 1)..(i + BoundLen - 2) : file[j] # "lf"
        /\ \E q \in 0..Len(file) : q * Size <= i - 1 - start /\ i - 1 - start + BoundLen < (q + 1) * Size
    <3>1. i \in (start + 1)..PartEnd /\ file[i] = bound[1]
      BY <2>1
    <3> HIDE DEF i
    <3> QED
      BY <3>1, Zenon DEF Benign
  <2>3. /\ pos + BoundLen <= PartEnd /\ pos + BoundLen <= Len(file)
        /\ \A j \in (pos + 2)..(pos + BoundLen - 1) : file[j] # "lf"
    <3>1. pos + BoundLen <= PartEnd
      BY <1>1, <2>2, SizesAssumption
    <3>2. (i + 1)..(i + BoundLen - 2) = (pos + 2)..(pos + BoundLen - 1)
      BY <1>1, SizesAssumption
    <3>3. pos + BoundLen <= Len(file)
      BY <1>1, <3>1, SizesAssumption
    <3> HIDE DEF i
    <3> QED
      BY <2>2, <3>1, <3>2, <3>3
  <2>4. /\ RestLen = BoundLen - 1 /\ AfterCandidate = pos + BoundLen
        /\ Bytes(Ahead, BoundLen) = SubSeq(file, pos + 1, pos + BoundLen)
    BY <2>3, RestWhole
  <2>5. Bytes(Ahead, BoundLen) # bound
    BY <1>2, <1>3, <2>3, <2>4, NotYet
  <2>6. room > BoundLen
    <3>1. PICK q \in 0..Len(file) : /\ q * Size <= pos - start
                                    /\ pos - start + BoundLen < (q + 1) * Size
      BY <1>1, <2>2
    <3>2. room \in 1..Size /\ Len(piece) = Size - room
      BY <1>1 DEF PartInv, TypeOK, Counted, Candidate, Filling
    <3>3. Len(piece) \in 0..(Size - 1) /\ Size \in Nat \ {0} /\ BoundLen \in Nat /\ q \in Nat
      BY <1>1, <3>2, SizesAssumption
    <3>4. q * Size <= k * Size + Len(piece) /\ k * Size + Len(piece) + BoundLen < (q + 1) * Size
      BY <3>1
    <3>5. Len(piece) + BoundLen < Size
      BY <3>3, <3>4, SameBlock
    <3> QED
      BY <1>1, <3>2, <3>3, <3>5, SizesAssumption
  <2> QED
    BY <2>3, <2>4, <2>5, <2>6
<1>4. CASE pos = PartEnd
  <2>1. Occurs(bound, pos)
    <3>1. pos # Len(file) /\ Ends(pos)
      BY <1>1, <1>4
    <3>2. ~Occurs(<<"ff">>, pos)
      <4>1. Len(<<"ff">>) = 1 /\ <<"ff">>[1] = "ff"
        OBVIOUS
      <4> QED
        BY <1>1, <4>1 DEF Occurs
    <3> QED
      BY <3>1, <3>2 DEF Ends
  <2>2. pos + BoundLen <= Len(file) /\ \A i \in 1..BoundLen : file[pos + i] = bound[i]
    BY <1>1, <2>1 DEF Occurs
  <2>3. \A j \in (pos + 2)..(pos + BoundLen - 1) : file[j] # "lf"
    <3> SUFFICES ASSUME NEW j \in (pos + 2)..(pos + BoundLen - 1) PROVE file[j] # "lf"
      OBVIOUS
    <3>1. j - pos \in 1..BoundLen /\ pos + (j - pos) = j
      BY <1>1, SizesAssumption
    <3>2. bound[j - pos] \in BoundChars
      BY <1>1, <3>1, ElementOfSeq
    <3>3. file[j] \in BoundChars
      BY <2>2, <3>1, <3>2
    <3> QED
      BY <3>3 DEF BoundChars
  <2>4. /\ RestLen = BoundLen - 1 /\ AfterCandidate = pos + BoundLen
        /\ Bytes(Ahead, BoundLen) = SubSeq(file, pos + 1, pos + BoundLen)
    BY <2>2, <2>3, RestWhole
  <2>5. Bytes(Ahead, BoundLen) = bound
    BY <1>2, <2>1, <2>2, <2>4
  <2> QED
    BY <1>4, <2>1, <2>2, <2>4, <2>5 DEF BoundAtEnd
<1> QED
  BY <1>1, <1>3, <1>4

LEMMA InitExact == Init => ExactInv
<1> SUFFICES ASSUME Init PROVE ExactInv
  OBVIOUS
<1>1. buf[0] = "nul"
  BY SizesAssumption DEF Init
<1> QED
  BY <1>1 DEF Init, ExactInv, Started, PlainInv, EndKnown, Verdicts, After

LEMMA EmptySlice == ASSUME NEW s, NEW p \in Nat PROVE SubSeq(s, p + 1, p) = <<>>
<1> DEFINE a == p + 1
<1>1. a \in Int /\ p < a
  OBVIOUS
<1> HIDE DEF a
<1>2. SubSeq(s, a, p) = <<>>
  BY <1>1, SubSeqEmpty
<1> QED
  BY <1>2 DEF a

\* The part begins where the file was left.
LEMMA ReadingBegins ==
    ASSUME PartInv, ExactInv, start' = pos', pos' \in 0..Len(file), pc' = "call",
           UNCHANGED <<file, fill, image>>, pc \in {"scan", "seek"}, PartInv'
    PROVE  ExactInv'
<1> USE DEF fill
<1>1. /\ image' = <<>> /\ piece' = <<>> /\ ~done' /\ buf'[0] = "nul" /\ room' = Size
  BY DEF ExactInv, Started, PartInv, Counted
<1>2. image' \o piece' = SubSeq(file', start' + 1, pos')
  <2>1. SubSeq(file', start' + 1, pos') = <<>>
    <3>1. Len(file) \in Nat
      BY StateFacts
    <3>2. pos' \in Nat
      BY <3>1
    <3> QED
      BY <3>2, EmptySlice
  <2>2. <<>> \o <<>> = <<>>
    BY EmptySeq, ConcatEmptySeq
  <2> QED
    BY <1>1, <2>1, <2>2
<1>3. pos' <= PartEnd'
  <2>1. (PartEnd \in start..Len(file))'
    BY PartEndFound, PTL
  <2> QED
    BY <2>1, StateFacts
<1>4. Len(image') = 0 * Size
  BY <1>1, EmptySeq, SizesAssumption
<1>5. room' >= 0
  BY <1>1, SizesAssumption
<1>6. BoundInv' /\ PlainInv'
  BY <1>1, <1>2, <1>3, <1>4, <1>5 DEF BoundInv, PlainInv, Reading, Behind, After
<1> QED
  BY <1>6 DEF ExactInv, Started, EndKnown, Verdicts

LEMMA StepExact == PartInv /\ PartInv' /\ ExactInv /\ [Next]_vars => ExactInv'
<1> SUFFICES ASSUME PartInv, PartInv', ExactInv, [Next]_vars PROVE ExactInv'
  OBVIOUS
<1> USE DEF input, fill
<1>0. /\ Len(file) \in Nat /\ pos \in 0..Len(file) /\ start \in 0..pos
      /\ Size \in Nat \ {0} /\ room \in -(MaxTok + 3)..Size /\ Len(piece) \in 0..Size
      /\ PartEnd \in start..Len(file)
      /\ image \in Seq(MemChars) /\ piece \in Seq(MemChars)
  BY StateFacts, PartEndFound, SizesAssumption DEF PartInv, TypeOK
<1>1. CASE Scan
  <2>1. /\ pc = "scan" /\ pc' \in {"seek", "call"} /\ UNCHANGED <<input, pos, start, fill, image>>
    BY <1>1 DEF Scan
  <2>2. CASE pc' = "seek"
    BY <2>1, <2>2 DEF ExactInv, Started, BoundInv, PlainInv, Reading, Behind, After, EndKnown, Verdicts
  <2>3. CASE pc' = "call"
    BY <1>0, <2>1, <2>3, ReadingBegins DEF ExactInv, Started
  <2> QED
    BY <2>1, <2>2, <2>3
<1>2. CASE SeekLine
  <2>1. /\ pc = "seek" /\ pc' \in {"call", "ended", "seek"} /\ start' = pos'
        /\ UNCHANGED <<input, bound, fill, image>>
    BY <1>2 DEF SeekLine
  <2>2. CASE pc' # "call"
    BY <2>1, <2>2 DEF ExactInv, Started, BoundInv, PlainInv, Reading, Behind, After, EndKnown, Verdicts
  <2>3. CASE pc' = "call"
    <3>1. pos' \in 0..Len(file)
      BY <2>1 DEF PartInv, TypeOK
    <3> QED
      BY <2>1, <2>3, <3>1, ReadingBegins
  <2> QED
    BY <2>2, <2>3
<1>3. CASE SeekEnd
  BY <1>3 DEF SeekEnd, ExactInv, Started, BoundInv, PlainInv, Reading, Behind, After, EndKnown, Verdicts
<1>4. CASE CallPlain
  <2> DEFINE n == IF Len(file) - pos < Size THEN Len(file) - pos ELSE Size
  <2>1. /\ n \in Nat /\ pos + n <= Len(file) /\ n <= Size /\ (n = 0 => pos = Len(file))
    BY <1>0
  <2>2. /\ piece' = SubSeq(file, pos + 1, pos + n) /\ pos' = pos + n /\ room' = Size - n
        /\ pc = "call" /\ pc' = "return" /\ bound = <<>>
        /\ UNCHANGED <<input, bound, start, done, buf, image>>
    BY <1>4 DEF CallPlain
  <2> HIDE DEF n
  <2>3. /\ image \o piece = SubSeq(file, start + 1, pos) /\ ~done /\ piece = <<>>
    BY <2>2 DEF ExactInv, PlainInv, PartInv, Counted
  <2>4. image' \o piece' = SubSeq(file', start' + 1, pos')
    <3>1. image \o (piece \o SubSeq(file, pos + 1, pos + n)) = SubSeq(file, start + 1, pos + n)
      BY <2>1, <2>3, Taken
    <3>2. piece' \in Seq(MemChars)
      BY DEF PartInv, TypeOK
    <3>3. piece \o piece' = piece'
      BY <2>3, <3>2, ConcatEmptySeq
    <3> QED
      BY <2>2, <3>1, <3>3
  <2>5. room' >= 0 /\ (room' = Size' => pos' = Len(file)')
    BY <1>0, <2>1, <2>2
  <2>6. PlainInv'
    BY <2>2, <2>3, <2>4, <2>5 DEF PlainInv, After
  <2> QED
    BY <2>2, <2>6 DEF ExactInv, Started, EndKnown, Verdicts
\* What a step in a part with a boundary has to show.
<1>b. ASSUME bound # <<>>, UNCHANGED <<file, start, bound>>,
             pc' \notin {"scan", "seek"} \cup Verdicts,
             Benign => BoundInv'
      PROVE  ExactInv'
  BY <1>b, SamePart DEF ExactInv, Started, EndKnown
<1>5. CASE CallFresh
  <2>1. /\ pc = "call" /\ pc' = "fill" /\ bound # <<>> /\ piece' = <<>>
        /\ UNCHANGED <<input, bound, pos, start, done, buf, image>>
    BY <1>5 DEF CallFresh
  <2>2. piece = <<>>
    BY <2>1 DEF PartInv, Counted
  <2>3. ASSUME Benign PROVE BoundInv'
    BY <2>1, <2>2, <2>3, SamePart DEF ExactInv, BoundInv, Reading, Behind, After
  <2> QED
    BY <1>b, <2>1, <2>3 DEF Verdicts
<1>6. CASE CallCarry
  <2>1. /\ pc = "call" /\ pc' = "return" /\ bound # <<>> /\ Strlen(buf) > 0
        /\ UNCHANGED <<file, start, bound>>
    BY <1>6 DEF CallCarry
  <2>2. ASSUME Benign PROVE FALSE
    <3>1. buf[0] = "nul"
      BY <2>1, <2>2 DEF ExactInv, BoundInv, Reading
    <3>2. Strlen(buf) = 0
      BY <3>1, EmptyHeld DEF PartInv, TypeOK
    <3> QED
      BY <2>1, <3>2
  <2> QED
    BY <1>b, <2>1, <2>2 DEF Verdicts
\* In the loop all that was taken was delivered, and the part has not ended.
<1>f. ASSUME pc = "fill", Benign
      PROVE  /\ bound # <<>> /\ image \o piece = SubSeq(file, start + 1, pos)
             /\ pos <= PartEnd /\ ~done /\ buf[0] = "nul" /\ room >= 0
             /\ \E k \in Nat : Len(image) = k * Size
             /\ Len(image) \in Nat /\ Len(image) + Len(piece) = pos - start
  <2>1. bound # <<>> /\ room >= 0
    BY <1>f DEF PartInv, Counted
  <2>2. /\ image \o piece = SubSeq(file, start + 1, pos) /\ pos <= PartEnd /\ ~done
        /\ buf[0] = "nul" /\ \E k \in Nat : Len(image) = k * Size
    BY <1>f, <2>1 DEF ExactInv, BoundInv, Reading
  <2> QED
    BY <2>1, <2>2, Taken
\* The part ends.
<1>s. ASSUME NEW p, pc = "fill", Stop(p), Benign => pos = PartEnd,
             Benign => (BoundAtEnd => p = PartEnd + BoundLen)
      PROVE  ExactInv'
  <2>1. bound # <<>>
    BY <1>s DEF PartInv, Counted
  <2>2. /\ pos' = p /\ done' /\ pc' = "return"
        /\ UNCHANGED <<input, bound, start, piece, room, image>>
    BY <1>s DEF Stop
  <2>3. ASSUME Benign PROVE BoundInv'
    <3>1. PartEnd' = PartEnd /\ (BoundAtEnd' <=> BoundAtEnd) /\ BoundLen' = BoundLen
      BY <2>2, SamePart DEF BoundLen
    <3>2. image' \o piece' = SubSeq(file', start' + 1, PartEnd') /\ room' >= 0
      BY <1>f, <1>s, <2>2, <2>3, <3>1
    <3> QED
      BY <1>s, <2>2, <2>3, <3>1, <3>2 DEF BoundInv, Reading, Behind, After
  <2> QED
    BY <1>b, <2>1, <2>2, <2>3 DEF Verdicts
\* n characters are taken and delivered, and the part has not ended.
<1>p. ASSUME NEW n \in Nat, pc = "fill", pos' = pos + n,
             Put(SubSeq(file, pos + 1, pos + n)),
             Benign => pos + n <= PartEnd /\ buf'[0] = "nul"
      PROVE  ExactInv'
  <2>1. bound # <<>>
    BY <1>p DEF PartInv, Counted
  <2>2. /\ piece' = piece \o SubSeq(file, pos + 1, pos + n)
        /\ room' = room - Len(SubSeq(file, pos + 1, pos + n))
        /\ pc' = (IF room = Len(SubSeq(file, pos + 1, pos + n)) THEN "return" ELSE "fill")
        /\ UNCHANGED <<input, bound, start, done, image>>
    BY <1>p DEF Put
  <2>3. ASSUME Benign PROVE BoundInv'
    <3>1. pos + n <= Len(file)
      BY <1>0, <1>p, <2>3
    <3>2. image' \o piece' = SubSeq(file', start' + 1, pos')
      BY <1>f, <1>p, <2>2, <2>3, <3>1, Taken
    <3>3. Len(SubSeq(file, pos + 1, pos + n)) = n
      <4>1. file \in Seq(MemChars) /\ pos \in Nat
        BY <1>0, StateFacts
      <4> QED
        BY <3>1, <4>1, SliceOf
    <3>4. room' = room - n /\ (pc' = "return" => room' = 0) /\ pc' \in {"fill", "return"}
      BY <1>0, <2>2, <3>3
    <3>5. pos' <= PartEnd'
      BY <1>p, <2>2, <2>3, SamePart
    <3>6. ~done' /\ \E k \in Nat : Len(image') = k * Size
      BY <1>f, <1>p, <2>2, <2>3
    <3> QED
      BY <1>p, <2>3, <3>2, <3>4, <3>5, <3>6 DEF BoundInv, Reading, Behind, After
  <2> QED
    BY <1>b, <2>1, <2>2, <2>3 DEF Verdicts
<1>7. CASE FillEOF
  <2>1. PICK p : /\ pc = "fill" /\ Stop(p)
                 /\ pos = Len(file) \/ (pos < Len(file) /\ file[pos + 1] = "ff")
    BY <1>7 DEF FillEOF, Filling
  <2>2. ASSUME Benign PROVE pos = PartEnd
    BY <1>0, <1>f, <2>1, <2>2, NotYet
  <2>3. ASSUME Benign PROVE ~BoundAtEnd
    <3>1. /\ Len(bound) >= 3 /\ bound[1] = "-" /\ Len(bound) \in Nat
      BY <1>f, <2>1, <2>3, StateFacts DEF PartInv, BoundFits
    <3>2. pos = PartEnd
      BY <2>2, <2>3
    <3>3. 1 \in 1..Len(bound)
      BY <3>1
    <3> QED
      BY <1>0, <2>1, <3>1, <3>2, <3>3 DEF BoundAtEnd, Occurs
  <2> QED
    BY <1>s, <2>1, <2>2, <2>3
<1>8. CASE FillChar
  <2>1. /\ pc = "fill" /\ pos < Len(file) /\ Put(<<file[pos + 1]>>)
        /\ pos' = pos + 1 /\ buf' = buf /\ file[pos + 1] \notin {"ff", bound[1]}
    BY <1>8 DEF FillChar, Filling
  <2>2. <<file[pos + 1]>> = SubSeq(file, pos + 1, pos + 1)
    <3> DEFINE t == SubSeq(file, pos + 1, pos + 1)
    <3>1. t \in Seq(MemChars) /\ Len(t) = 1 /\ t[1] = file[pos + 1]
      <4>1. file \in Seq(MemChars) /\ pos \in Nat /\ pos + 1 <= Len(file)
        BY <1>0, <2>1, StateFacts
      <4> QED
        BY <4>1, SliceOf
    <3> HIDE DEF t
    <3>2. t = <<t[1]>>
      BY <3>1
    <3> QED
      BY <3>1, <3>2 DEF t
  <2>3. ASSUME Benign PROVE pos + 1 <= PartEnd /\ buf'[0] = "nul"
    <3>1. pos # PartEnd
      <4>1. /\ Len(bound) >= 3 /\ Len(bound) \in Nat
        BY <1>f, <2>1, <2>3, StateFacts DEF PartInv, BoundFits
      <4>2. ~Occurs(<<"ff">>, pos)
        <5>1. Len(<<"ff">>) = 1 /\ <<"ff">>[1] = "ff"
          OBVIOUS
        <5> QED
          BY <2>1, <5>1 DEF Occurs
      <4>3. 1 \in 1..Len(bound)
        BY <4>1
      <4>4. ~Occurs(bound, pos)
        BY <2>1, <4>3 DEF Occurs
      <4>5. ~Ends(pos)
        BY <1>0, <2>1, <4>2, <4>4 DEF Ends
      <4> QED
        BY <4>5, PartEndFound
    <3> QED
      BY <1>0, <1>f, <2>1, <2>3, <3>1
  <2> QED
    BY <1>p, <2>1, <2>2, <2>3
\* A candidate of a benign part.
<1>c. ASSUME Candidate, Benign
      PROVE  /\ RestLen > 0 /\ AfterCandidate = pos + BoundLen
             /\ Bytes(Ahead, BoundLen) = SubSeq(file, pos + 1, pos + BoundLen)
             /\ \/ pos = PartEnd /\ BoundAtEnd /\ Bytes(Ahead, BoundLen) = bound
                \/ pos + BoundLen <= PartEnd /\ Bytes(Ahead, BoundLen) # bound /\ room > BoundLen
  <2>1. pc = "fill"
    BY <1>c DEF Candidate, Filling
  <2>2. PICK k \in Nat : Len(image) = k * Size
    BY <1>c, <1>f, <2>1
  <2>3. /\ RestLen = BoundLen - 1 /\ AfterCandidate = pos + BoundLen
        /\ Bytes(Ahead, BoundLen) = SubSeq(file, pos + 1, pos + BoundLen)
        /\ \/ pos = PartEnd /\ BoundAtEnd /\ Bytes(Ahead, BoundLen) = bound
           \/ pos + BoundLen <= PartEnd /\ Bytes(Ahead, BoundLen) # bound /\ room > BoundLen
    BY <1>c, <1>f, <2>1, <2>2, CandidateBenign
  <2>4. BoundLen \in 3..(MaxTok + 2)
    BY <1>c, <1>f, <2>1, AheadFits
  <2> QED
    BY <2>3, <2>4, SizesAssumption
<1>9. CASE FillLast
  <2>1. pc = "fill" /\ Candidate /\ RestLen = 0 /\ Stop(pos + 1)
    BY <1>9 DEF FillLast, Candidate, Filling
  <2>2. ~Benign
    BY <1>c, <2>1
  <2> QED
    BY <1>s, <2>1, <2>2
<1>10. CASE FillMatch
  <2>1. pc = "fill" /\ Candidate /\ Bytes(Ahead, BoundLen) = bound /\ Stop(AfterCandidate)
    BY <1>10 DEF FillMatch, Candidate, Filling
  <2>2. Benign => pos = PartEnd /\ AfterCandidate = PartEnd + BoundLen
    BY <1>c, <2>1
  <2> QED
    BY <1>s, <2>1, <2>2
<1>11. CASE FillMiss
  <2>1. /\ pc = "fill" /\ Candidate /\ Bytes(Ahead, BoundLen) # bound /\ pos' = AfterCandidate
        /\ IF room <= BoundLen
           THEN Put(Bytes(Ahead, room)) /\ buf' = Ahead
           ELSE Put(Bytes(Ahead, BoundLen)) /\ buf' = Emptied(Ahead)
    BY <1>11 DEF FillMiss, Candidate, Filling
  <2>2. bound # <<>>
    BY <2>1 DEF PartInv, Counted
  <2>3. CASE Benign
    <3>1. /\ AfterCandidate = pos + BoundLen /\ pos + BoundLen <= PartEnd /\ room > BoundLen
          /\ Bytes(Ahead, BoundLen) = SubSeq(file, pos + 1, pos + BoundLen)
      BY <1>c, <2>1, <2>3
    <3>2. BoundLen \in Nat /\ Ahead \in [0..(MaxTok + 3) -> MemChars]
      BY <2>1, <2>2, AheadFits, SizesAssumption
    <3>3. Put(SubSeq(file, pos + 1, pos + BoundLen)) /\ buf' = Emptied(Ahead)
      BY <1>0, <2>1, <3>1, <3>2
    <3>4. buf'[0] = "nul"
      BY <3>2, <3>3, EmptiedFits
    <3> QED
      BY <1>p, <2>1, <3>1, <3>2, <3>3, <3>4
  <2>4. CASE ~Benign
    <3>1. pc' \in {"fill", "return"} /\ UNCHANGED <<input, bound, start>>
      BY <2>1 DEF Put
    <3> QED
      BY <1>b, <2>2, <2>4, <3>1 DEF Verdicts
  <2> QED
    BY <2>3, <2>4
<1>12. CASE Return
  <2> DEFINE n == Size - room
             rest == [i \in 1..(n - Len(piece)) |-> "stack"]
  <2>1. /\ pc = "return" /\ image' = image \o piece \o rest
        /\ pc' = (IF n = 0 \/ done THEN "compose" ELSE "call")
        /\ piece' = <<>> /\ room' = Size /\ UNCHANGED <<input, bound, pos, start, done, buf>>
    BY <1>12 DEF Return
  <2>2. ASSUME room >= 0 PROVE image' = image \o piece
    <3>1. n - Len(piece) = 0
      BY <1>0, <2>2 DEF PartInv, Counted
    <3>2. rest \in Seq(MemChars) /\ Len(rest) = 0
      BY <3>1
    <3>3. rest = <<>>
      BY <3>2, EmptySeq
    <3> HIDE DEF rest
    <3>4. image \o piece \in Seq(MemChars)
      BY <1>0, ConcatProperties
    <3> QED
      BY <2>1, <3>3, <3>4, ConcatEmptySeq
  <2>3. image' \in Seq(MemChars) /\ image' \o piece' = image'
    <3>1. image' \in Seq(MemChars)
      BY DEF PartInv, TypeOK
    <3> QED
      BY <2>1, <3>1, ConcatEmptySeq
  <2> HIDE DEF rest
  <2>4. CASE bound = <<>>
    <3>1. /\ image \o piece = SubSeq(file, start + 1, pos) /\ ~done /\ room >= 0
          /\ room = Size => pos = Len(file)
      BY <2>1, <2>4 DEF ExactInv, PlainInv
    <3>2. image' = SubSeq(file, start + 1, pos) /\ (n = 0 => pos = Len(file))
      BY <1>0, <2>2, <3>1
    <3>3. PlainInv'
      <4>1. CASE n = 0
        <5>1. pc' = "compose" /\ image' = SubSeq(file', start' + 1, Len(file)')
          BY <2>1, <3>2, <4>1
        <5> QED
          BY <5>1 DEF PlainInv, After
      <4>2. CASE n # 0
        <5>1. pc' = "call" /\ room' >= 0 /\ ~done'
          BY <1>0, <2>1, <3>1, <4>2
        <5>2. image' \o piece' = SubSeq(file', start' + 1, pos')
          BY <2>1, <2>3, <3>2
        <5> QED
          BY <5>1, <5>2 DEF PlainInv, After
      <4> QED
        BY <4>1, <4>2
    <3> QED
      BY <2>1, <2>4, <3>3 DEF ExactInv, Started, EndKnown, Verdicts
  <2>5. CASE bound # <<>>
    <3>1. ASSUME Benign, ~done PROVE BoundInv'
      <4>1. /\ image \o piece = SubSeq(file, start + 1, pos) /\ pos <= PartEnd /\ buf[0] = "nul"
            /\ room = 0
        BY <2>1, <2>5, <3>1 DEF ExactInv, BoundInv, Reading
      <4>2. PICK k \in Nat : Len(image) = k * Size
        BY <2>1, <2>5, <3>1 DEF ExactInv, BoundInv, Reading
      <4>3. pc' = "call"
        BY <1>0, <2>1, <3>1, <4>1
      <4>4. image' = image \o piece /\ Len(piece) = Size
        BY <1>0, <2>2, <4>1 DEF PartInv, Counted
      <4>5. Len(image') = (k + 1) * Size
        <5>1. Len(image') = Len(image) + Size
          BY <1>0, <4>4, ConcatProperties
        <5>2. (k + 1) * Size = k * Size + Size
          BY <1>0
        <5> QED
          BY <4>2, <5>1, <5>2
      <4>6. \E i \in Nat : Len(image') = i * Size
        <5>1. k + 1 \in Nat
          OBVIOUS
        <5> QED
          BY <4>5, <5>1
      <4>7. image' \o piece' = SubSeq(file', start' + 1, pos')
        BY <2>1, <2>3, <4>1, <4>4
      <4>8. pos' <= PartEnd'
        BY <2>1, <4>1, SamePart
      <4> QED
        BY <2>1, <3>1, <4>1, <4>3, <4>6, <4>7, <4>8 DEF BoundInv, Reading, Behind, After
    <3>2. ASSUME Benign, done PROVE BoundInv'
      <4>1. /\ image \o piece = SubSeq(file, start + 1, PartEnd) /\ room >= 0
            /\ BoundAtEnd => pos = PartEnd + BoundLen
        BY <2>1, <2>5, <3>2 DEF ExactInv, BoundInv, Behind
      <4>2. /\ PartEnd' = PartEnd /\ (BoundAtEnd' <=> BoundAtEnd) /\ BoundLen' = BoundLen
        BY <2>1, SamePart DEF BoundLen
      <4>3. pc' = "compose" /\ image' = SubSeq(file', start' + 1, PartEnd')
        BY <2>1, <2>2, <3>2, <4>1, <4>2
      <4> QED
        BY <2>1, <3>2, <4>1, <4>2, <4>3 DEF BoundInv, Reading, Behind, After
    <3>3. pc' \in {"compose", "call"}
      BY <2>1
    <3> QED
      BY <1>b, <2>1, <2>5, <3>1, <3>2, <3>3 DEF Verdicts
  <2> QED
    BY <2>4, <2>5
<1>13. CASE Compose \/ MakeNode
  <2>1. pc \in After /\ pc' \in After /\ UNCHANGED <<input, bound, pos, start, fill, image>>
    BY <1>13 DEF Compose, MakeNode, After
  <2>2. bound = <<>> => PlainInv'
    BY <2>1 DEF ExactInv, PlainInv, After
  <2>3. CASE bound # <<>>
    <3>1. PartEnd' = PartEnd /\ (BoundAtEnd' <=> BoundAtEnd) /\ BoundLen' = BoundLen
      BY <2>1, SamePart DEF BoundLen
    <3>2. ASSUME Benign PROVE BoundInv'
      BY <2>1, <2>3, <3>1, <3>2 DEF ExactInv, BoundInv, Reading, Behind, After
    <3> QED
      BY <1>b, <2>1, <2>3, <3>2 DEF After, Verdicts
  <2> QED
    BY <2>1, <2>2, <2>3 DEF ExactInv, Started, EndKnown, Verdicts, After
<1>14. CASE CheckEndBound
  <2> DEFINE next(i) == IF pos + i <= Len(file) THEN file[pos + i] ELSE "eof"
  <2>1. /\ pc \in {"node", "failed"} /\ UNCHANGED <<input, bound, start, fill, image>>
        /\ pc' = (IF next(1) = "lf" THEN "next_part"
                  ELSE IF next(1) = "-" /\ next(2) = "-" THEN "last_part" ELSE "bad_end")
    BY <1>14 DEF CheckEndBound
  <2>2. ASSUME bound # <<>>, Benign, BoundAtEnd
        PROVE  /\ pc' = "last_part" <=> Occurs(<<"-", "-">>, PartEnd + BoundLen)
               /\ pc' = "next_part" <=> Occurs(<<"lf">>, PartEnd + BoundLen)
    <3>1. pos = PartEnd + BoundLen
      BY <2>1, <2>2 DEF ExactInv, BoundInv, Behind, After
    <3>2. Occurs(<<"lf">>, pos) <=> next(1) = "lf"
      <4>1. Len(<<"lf">>) = 1 /\ <<"lf">>[1] = "lf"
        OBVIOUS
      <4> QED
        BY <1>0, <4>1 DEF Occurs
    <3>3. Occurs(<<"-", "-">>, pos) <=> next(1) = "-" /\ next(2) = "-"
      <4>1. Len(<<"-", "-">>) = 2 /\ <<"-", "-">>[1] = "-" /\ <<"-", "-">>[2] = "-"
        OBVIOUS
      <4>2. Occurs(<<"-", "-">>, pos) <=>
               pos + 2 <= Len(file) /\ file[pos + 1] = "-" /\ file[pos + 2] = "-"
        BY <1>0, <4>1 DEF Occurs
      <4> QED
        BY <1>0, <4>2
    <3> QED
      BY <2>1, <3>1, <3>2, <3>3
  <2>3. /\ PartEnd' = PartEnd /\ (Benign' <=> Benign) /\ BoundLen' = BoundLen
        /\ Occurs(bound, PartEnd)' <=> BoundAtEnd
        /\ \A s : Occurs(s, PartEnd + BoundLen)' <=> Occurs(s, PartEnd + BoundLen)
    BY <2>1, SamePart DEF BoundLen, BoundAtEnd, Occurs
  <2>4. EndKnown'
    BY <2>1, <2>2, <2>3 DEF EndKnown
  <2>5. pc' \in Verdicts
    BY <2>1 DEF Verdicts
  <2> QED
    BY <2>1, <2>4, <2>5
       DEF ExactInv, Started, PlainInv, BoundInv, Reading, Behind, After, Verdicts
<1>15. CASE UNCHANGED vars
  <2>1. /\ UNCHANGED <<input, pc, bound, pos, start, fill, image>>
    BY <1>15 DEF vars
  <2>2. /\ PartEnd' = PartEnd /\ (Benign' <=> Benign) /\ BoundLen' = BoundLen
        /\ BoundAtEnd' <=> BoundAtEnd
        /\ Occurs(bound, PartEnd)' <=> Occurs(bound, PartEnd)
        /\ \A s : Occurs(s, PartEnd + BoundLen)' <=> Occurs(s, PartEnd + BoundLen)
    BY <2>1, SamePart DEF BoundLen, BoundAtEnd, Occurs
  <2>3. EndKnown'
    BY <2>1, <2>2 DEF ExactInv, EndKnown
  <2> QED
    BY <2>1, <2>2, <2>3 DEF ExactInv, Started, PlainInv, BoundInv, Reading, Behind
<1> QED
  BY <1>1, <1>2, <1>3, <1>4, <1>5, <1>6, <1>7, <1>8, <1>9, <1>10, <1>11, <1>12, <1>13, <1>14, <1>15
     DEF Next

LEMMA ExactAlways == Spec => [](PartInv /\ ExactInv)
BY InitPart, StepPart, InitExact, StepExact, PTL DEF Spec

(***************************************************************************)
(* For every size of the buffers: the image is all that stands before the  *)
(* boundary, and only that, however many buffers it takes.                 *)
(***************************************************************************)
THEOREM ImageIsPart == Spec => []PartExact
<1>1. ExactInv => PartExact
  BY DEF ExactInv, PlainInv, BoundInv, After, PartExact
<1> QED
  BY ExactAlways, <1>1, PTL

(***************************************************************************)
(* For every boundary: the caller is told the last part from the others.   *)
(***************************************************************************)
THEOREM LastPartTold == Spec => []EndKnown
<1>1. ExactInv => EndKnown
  BY DEF ExactInv
<1> QED
  BY ExactAlways, <1>1, PTL

-----------------------------------------------------------------------------
(***************************************************************************)
(* The scanner of the header.                                              *)
(***************************************************************************)
LEMMA SkipIs ==
    ASSUME NEW C, NEW s \in Seq(C), NEW chars, NEW n \in 0..Len(s),
           \A i \in 1..n : s[i] \in chars, n = Len(s) \/ s[n + 1] \notin chars
    PROVE  Skip(s, chars) = n
<1> DEFINE k == Skip(s, chars)
<1>1. /\ k \in 0..Len(s) /\ Len(s) \in Nat
      /\ \A i \in 1..k : s[i] \in chars
      /\ k = Len(s) \/ s[k + 1] \notin chars
  BY SkipFound, LenProperties
<1> HIDE DEF k
<1>2. ~ (k < n)
  <2> SUFFICES ASSUME k < n PROVE FALSE
    OBVIOUS
  <2>1. k + 1 \in 1..n
    BY <1>1
  <2> QED
    BY <1>1, <2>1
<1>3. ~ (k > n)
  <2> SUFFICES ASSUME k > n PROVE FALSE
    OBVIOUS
  <2>1. n + 1 \in 1..k
    BY <1>1
  <2> QED
    BY <1>1, <2>1
<1> QED
  BY <1>1, <1>2, <1>3 DEF k

\* Sequences of the same length and elements.
LEMMA SameElements ==
    ASSUME NEW S, NEW s \in Seq(S), NEW T, NEW t \in Seq(T), Len(s) = Len(t),
           \A i \in 1..Len(s) : s[i] = t[i]
    PROVE  s = t
<1>1. s \in [1..Len(s) -> S] /\ t \in [1..Len(s) -> T]
  BY LenProperties
<1> QED
  BY <1>1

\* The only member of a set is its first.
LEMMA OnlyFirst == ASSUME NEW n \in Nat PROVE First({n}) = n
BY LeastOf

\* The greatest member of a set is the last.
LEMMA GreatestOf ==
    ASSUME NEW S \in SUBSET Int, NEW n \in S, \A j \in S : j <= n
    PROVE  (CHOOSE i \in S : \A j \in S : j <= i) = n
<1>1. \A i \in S : (\A j \in S : j <= i) => i = n
  <2> SUFFICES ASSUME NEW i \in S, \A j \in S : j <= i PROVE i = n
    OBVIOUS
  <2>1. i <= n /\ n <= i /\ i \in Int /\ n \in Int
    OBVIOUS
  <2> QED
    BY <2>1
<1> QED
  BY <1>1

\* The value is declared between f and e, behind the name at b.
ValueAt(l, b, f, e) ==
    /\ {i \in DOMAIN l : l[i] = "boundary="} = {b}
    /\ b < f /\ f <= e
    /\ l[f] = "a" /\ \A i \in (b + 1)..(f - 1) : l[i] = "blank"
    /\ \A i \in f..e : l[i] \in {"a", "blank"}
    /\ e = Len(l) \/ l[e + 1] = ";"
    /\ Declared(l) = SubSeq(l, f, e)

\* Declared, behind the name.
ValueFrom(l, from) ==
    LET stop == First({i \in from..(Len(l) + 1) : i = Len(l) + 1 \/ l[i] = ";"})
        own  == {i \in from..(stop - 1) : l[i] # "blank"}
    IN  IF own = {} THEN <<>>
        ELSE SubSeq(l, First(own), CHOOSE i \in own : \A j \in own : j <= i)

LEMMA ValueFound ==
    ASSUME NEW l \in Seq(LineChars), Readable(l), NEW b \in 1..Len(l),
           {i \in DOMAIN l : l[i] = "boundary="} = {b}
    PROVE  \E f, e \in 1..Len(l) : ValueAt(l, b, f, e)
<1>1. /\ Len(l) \in Nat /\ DOMAIN l = 1..Len(l) /\ \A i \in 1..Len(l) : l[i] \in LineChars
      /\ b \in Nat /\ b <= Len(l)
  BY LenProperties, ElementOfSeq
<1>a. Len(l) \in Nat /\ b \in Nat /\ b >= 1 /\ b <= Len(l)
  BY <1>1
<1>2. /\ \A i \in 1..Len(l) : l[i] # "quote"
      /\ \A i \in 1..Len(l) : l[i] = "blank" => i < Len(l) /\ l[i + 1] \in {"a", "blank"}
      /\ Declared(l) # <<>>
  BY <1>1 DEF Readable
<1>3. \A i \in 1..Len(l) : l[i] = "boundary=" => i = b
  BY <1>1
<1> DEFINE ends == {i \in (b + 1)..(Len(l) + 1) : i = Len(l) + 1 \/ l[i] = ";"}
<1>4. PICK stop \in (b + 1)..(Len(l) + 1) :
          /\ stop = First(ends)
          /\ stop = Len(l) + 1 \/ l[stop] = ";"
          /\ \A i \in (b + 1)..(stop - 1) : i # Len(l) + 1 /\ l[i] # ";"
  <2>1. ends \in SUBSET Nat /\ Len(l) + 1 \in ends
    <3>1. (b + 1)..(Len(l) + 1) \subseteq Nat /\ Len(l) + 1 \in (b + 1)..(Len(l) + 1)
      BY <1>a
    <3> QED
      BY <3>1
  <2> DEFINE n == First(ends)
  <2>2. n \in ends /\ \A i \in ends : n <= i
    BY <2>1, LeastOf
  <2> HIDE DEF n
  <2>3. n \in (b + 1)..(Len(l) + 1) /\ (n = Len(l) + 1 \/ l[n] = ";")
    BY <2>2
  <2>4. ASSUME NEW i \in (b + 1)..(n - 1) PROVE i # Len(l) + 1 /\ l[i] # ";"
    <3>0. n \in (b + 1)..(Len(l) + 1)
      BY <2>3
    <3>1. i \in (b + 1)..(Len(l) + 1) /\ i \in Int /\ n \in Int /\ ~ (n <= i)
      BY <1>a, <3>0
    <3>2. i \notin ends
      <4> HIDE DEF ends
      <4> QED
        BY <2>2, <3>1
    <3> QED
      BY <3>1, <3>2
  <2> QED
    BY <2>3, <2>4 DEF n
<1> HIDE DEF ends
<1>5. \A i \in (b + 1)..(stop - 1) : i \in 1..Len(l) /\ l[i] \in {"a", "blank"}
  <2> TAKE i \in (b + 1)..(stop - 1)
  <2>1. i \in 1..Len(l) /\ i # b
    BY <1>1
  <2>2. l[i] # "boundary=" /\ l[i] # "quote" /\ l[i] # ";" /\ l[i] \in LineChars
    BY <1>1, <1>2, <1>3, <1>4, <2>1
  <2> QED
    BY <2>1, <2>2 DEF LineChars
<1> DEFINE own == {i \in (b + 1)..(stop - 1) : l[i] # "blank"}
<1>6. Declared(l) = IF own = {} THEN <<>>
                    ELSE SubSeq(l, First(own), CHOOSE i \in own : \A j \in own : j <= i)
  <2>1. First({i \in DOMAIN l : l[i] = "boundary="}) = b
    BY <1>1, OnlyFirst
  <2>2. Declared(l) = ValueFrom(l, First({i \in DOMAIN l : l[i] = "boundary="}) + 1)
    BY DEF Declared, ValueFrom
  <2>3. Declared(l) = ValueFrom(l, b + 1)
    BY <2>1, <2>2
  <2>4. stop = First({i \in (b + 1)..(Len(l) + 1) : i = Len(l) + 1 \/ l[i] = ";"})
    BY <1>4 DEF ends
  <2> QED
    BY <2>3, <2>4 DEF ValueFrom
<1>7. PICK f \in (b + 1)..(stop - 1) :
          /\ f = First(own) /\ l[f] # "blank"
          /\ \A i \in (b + 1)..(f - 1) : l[i] = "blank"
  <2>1. own \in SUBSET Nat /\ own # {}
    BY <1>1, <1>2, <1>6
  <2> DEFINE n == First(own)
  <2>2. n \in own /\ \A i \in own : n <= i
    BY <2>1, LeastOf
  <2> HIDE DEF n
  <2>3. n \in (b + 1)..(stop - 1) /\ l[n] # "blank"
    BY <2>2
  <2>4. ASSUME NEW i \in (b + 1)..(n - 1) PROVE l[i] = "blank"
    <3>1. i \in (b + 1)..(stop - 1) /\ i \in Int /\ n \in Int /\ ~ (n <= i)
      BY <1>a, <2>3
    <3>2. i \notin own
      <4> HIDE DEF own
      <4> QED
        BY <2>2, <3>1
    <3> QED
      BY <3>1, <3>2
  <2> QED
    BY <2>3, <2>4 DEF n
<1>8. l[stop - 1] # "blank" /\ stop - 1 \in (b + 1)..(stop - 1) /\ stop - 1 \in 1..Len(l)
  <2>1. stop - 1 \in (b + 1)..(stop - 1) /\ stop - 1 \in 1..Len(l) /\ (stop - 1) + 1 = stop
    BY <1>1, <1>5
  <2>2. ASSUME l[stop - 1] = "blank" PROVE FALSE
    <3>1. stop - 1 < Len(l) /\ l[stop] \in {"a", "blank"}
      BY <1>2, <2>1, <2>2
    <3>2. stop # Len(l) + 1
      BY <1>a, <3>1
    <3> QED
      BY <1>4, <3>1, <3>2
  <2> QED
    BY <2>1, <2>2
<1>9. (CHOOSE i \in own : \A j \in own : j <= i) = stop - 1
  <2>1. own \in SUBSET Int /\ stop - 1 \in own /\ \A j \in own : j <= stop - 1
    BY <1>1, <1>8
  <2> HIDE DEF own
  <2> QED
    BY <2>1, GreatestOf
<1>10. Declared(l) = SubSeq(l, f, stop - 1)
  <2>1. own # {}
    BY <1>8
  <2> HIDE DEF own
  <2> QED
    BY <1>6, <1>7, <1>9, <2>1
<1>11. l[f] = "a" /\ \A i \in f..(stop - 1) : l[i] \in {"a", "blank"}
  <2>1. \A i \in f..(stop - 1) : i \in (b + 1)..(stop - 1)
    BY <1>a, <1>7
  <2> QED
    BY <1>5, <1>7, <2>1
<1>12. /\ f \in 1..Len(l) /\ stop - 1 \in 1..Len(l) /\ b < f /\ f <= stop - 1
       /\ (stop - 1) + 1 = stop /\ (stop = Len(l) + 1 => stop - 1 = Len(l))
  BY <1>1, <1>5, <1>8
<1>13. ValueAt(l, b, f, stop - 1)
  BY <1>4, <1>7, <1>10, <1>11, <1>12 DEF ValueAt
<1> QED
  BY <1>12, <1>13

\* The scanner takes what is declared, behind any blanks.
LEMMA TokenTaken ==
    ASSUME NEW l \in Seq(LineChars), NEW b \in 1..Len(l), NEW f \in 1..Len(l),
           NEW e \in 1..Len(l), ValueAt(l, b, f, e), Len(Declared(l)) <= MaxTok
    PROVE  /\ NextToken(SubSeq(l, b + 1, Len(l))) = Declared(l)
           /\ Declared(l) # <<>>
<1> USE SizesAssumption
<1> DEFINE s == SubSeq(l, b + 1, Len(l))
           p == f - b - 1
           t == SubSeq(s, p + 1, Len(s))
           n == e - f + 1
           m == Len(l) - f + 1
<1>1. /\ Len(l) \in Nat /\ b \in Nat /\ f \in Nat /\ e \in Nat
      /\ b < f /\ f <= e /\ e <= Len(l)
  <2>1. Len(l) \in Nat /\ b < f /\ f <= e
    BY LenProperties DEF ValueAt
  <2> QED
    BY <2>1
<1>2. /\ s \in Seq(LineChars) /\ Len(s) = Len(l) - b
      /\ \A i \in 1..(Len(l) - b) : s[i] = l[b + i]
  <2> DEFINE k == Len(l) - b
  <2>1. k \in Nat /\ b + k = Len(l) /\ b + k <= Len(l)
    BY <1>1
  <2> HIDE DEF k
  <2>2. s = SubSeq(l, b + 1, b + k)
    BY <2>1
  <2> HIDE DEF s
  <2>3. s \in Seq(LineChars) /\ Len(s) = k /\ \A i \in 1..k : s[i] = l[b + i]
    BY <1>1, <2>1, <2>2, SliceOf
  <2> QED
    BY <2>3 DEF k
<1> HIDE DEF s
<1>3. /\ p \in Nat /\ n \in Nat \ {0} /\ m \in Nat /\ n <= m
      /\ p \in 0..Len(s) /\ p + m = Len(s) /\ b + p + 1 = f
  BY <1>1, <1>2
<1>4. Skip(s, {"blank"}) = p
  <2>1. \A i \in 1..p : i \in 1..(Len(l) - b) /\ b + i \in (b + 1)..(f - 1)
    BY <1>1
  <2>2. p + 1 \in 1..(Len(l) - b) /\ b + (p + 1) = f
    BY <1>1
  <2> HIDE DEF p
  <2>3. \A i \in 1..p : s[i] \in {"blank"}
    BY <1>2, <2>1 DEF ValueAt
  <2>4. s[p + 1] = "a"
    BY <1>2, <2>2 DEF ValueAt
  <2>5. s[p + 1] \notin {"blank"}
    BY <2>4
  <2> QED
    BY <1>2, <1>3, <2>3, <2>5, SkipIs
<1>5. /\ t \in Seq(LineChars) /\ Len(t) = m
      /\ \A i \in 1..m : t[i] = l[f - 1 + i]
  <2>1. \A i \in 1..m : p + i \in 1..(Len(l) - b) /\ b + (p + i) = f - 1 + i
    BY <1>1
  <2> HIDE DEF p, m
  <2>2. t = SubSeq(s, p + 1, p + m)
    BY <1>3
  <2> HIDE DEF t
  <2>3. /\ t \in Seq(LineChars) /\ Len(t) = m
        /\ \A i \in 1..m : t[i] = s[p + i]
    <3>1. p + m <= Len(s) /\ s \in Seq(LineChars) /\ p \in Nat /\ m \in Nat
      BY <1>2, <1>3
    <3> QED
      BY <2>2, <3>1, SliceOf
  <2>4. \A i \in 1..m : s[p + i] = l[f - 1 + i]
    BY <1>2, <2>1
  <2> QED
    BY <2>3, <2>4
<1> HIDE DEF t
<1>6. Skip(t, {"a", "blank"}) = n
  <2>1. \A i \in 1..n : i \in 1..m /\ f - 1 + i \in f..e
    BY <1>1
  <2>2. \A i \in 1..n : t[i] \in {"a", "blank"}
    BY <1>5, <2>1 DEF ValueAt
  <2>3. n = Len(t) \/ t[n + 1] \notin {"a", "blank"}
    <3>1. e = Len(l) => n = m
      BY <1>1
    <3>2. e # Len(l) => n + 1 \in 1..m /\ f - 1 + (n + 1) = e + 1
      BY <1>1
    <3> HIDE DEF n, m
    <3> QED
      BY <1>5, <3>1, <3>2 DEF ValueAt
  <2>4. n \in 0..Len(t)
    BY <1>3, <1>5
  <2> HIDE DEF n
  <2> QED
    BY <1>5, <2>2, <2>3, <2>4, SkipIs
<1>7. /\ Declared(l) \in Seq(LineChars) /\ Len(Declared(l)) = n
      /\ \A i \in 1..n : Declared(l)[i] = l[f - 1 + i]
  <2>1. /\ f - 1 \in Nat /\ (f - 1) + 1 = f /\ (f - 1) + n = e /\ n \in Nat
        /\ (f - 1) + n <= Len(l)
    BY <1>1
  <2> HIDE DEF n
  <2>2. Declared(l) = SubSeq(l, (f - 1) + 1, (f - 1) + n)
    BY <2>1 DEF ValueAt
  <2> QED
    BY <2>1, <2>2, SliceOf
<1>8. /\ SubSeq(t, 1, n) \in Seq(LineChars) /\ Len(SubSeq(t, 1, n)) = n
      /\ \A i \in 1..n : SubSeq(t, 1, n)[i] = t[i]
  <2>1. 0 \in Nat /\ 0 + 1 = 1 /\ n \in Nat /\ 0 + n = n /\ 0 + n <= Len(t)
    BY <1>3, <1>5
  <2> HIDE DEF n
  <2>2. /\ SubSeq(t, 0 + 1, 0 + n) \in Seq(LineChars) /\ Len(SubSeq(t, 0 + 1, 0 + n)) = n
        /\ \A i \in 1..n : SubSeq(t, 0 + 1, 0 + n)[i] = t[0 + i]
    BY <1>5, <2>1, SliceOf
  <2>3. \A i \in 1..n : 0 + i = i
    BY <2>1
  <2> QED
    BY <2>1, <2>2, <2>3
<1>9. SubSeq(t, 1, n) = Declared(l)
  <2>1. \A i \in 1..n : i \in 1..m
    BY <1>3
  <2> HIDE DEF n, m
  <2>2. \A i \in 1..n : SubSeq(t, 1, n)[i] = Declared(l)[i]
    BY <1>5, <1>7, <1>8, <2>1
  <2> QED
    BY <1>7, <1>8, <2>2, SameElements
<1>10. NextToken(s) = SubSeq(t, 1, n)
  <2>1. n <= MaxTok /\ n \in Nat
    BY <1>3, <1>7
  <2> HIDE DEF n
  <2>2. ~ (n > MaxTok)
    BY <2>1
  <2> QED
    BY <1>4, <1>6, <2>2 DEF NextToken, t
<1>11. Declared(l) # <<>>
  BY <1>3, <1>7, EmptySeq
<1> QED
  BY <1>9, <1>10, <1>11 DEF s

\* Of a readable parameter the scanner finds the value.
LEMMA DeclaredScanned ==
    ASSUME NEW l \in Seq(LineChars), Readable(l)
    PROVE  ScanBoundId(l) = <<"-", "-">> \o Declared(l)
<1>1. Len(l) \in Nat /\ DOMAIN l = 1..Len(l)
  BY LenProperties
<1>2. PICK b \in 1..Len(l) : l[b] = "boundary=" /\ \A j \in 1..Len(l) : l[j] = "boundary=" => j = b
  BY <1>1 DEF Readable
<1>3. PICK m \in 1..Len(l) : l[m] = ";" /\ \A j \in 1..m : l[j] # "boundary="
  BY <1>1 DEF Readable
<1>4. m < b /\ b \in Nat /\ m \in Nat
  <2>1. b \in Nat /\ m \in Nat /\ b >= 1
    BY <1>1
  <2>2. b \notin 1..m
    BY <1>2, <1>3
  <2> QED
    BY <2>1, <2>2
<1>5. {i \in DOMAIN l : l[i] = "boundary="} = {b}
  BY <1>1, <1>2
<1>6. PICK f, e \in 1..Len(l) : ValueAt(l, b, f, e)
  BY <1>5, ValueFound
<1>7. Len(Declared(l)) <= MaxTok
  BY DEF Readable
<1>8. NextToken(SubSeq(l, b + 1, Len(l))) = Declared(l) /\ Declared(l) # <<>>
  BY <1>6, <1>7, TokenTaken
<1> DEFINE semis == {i \in DOMAIN l : l[i] = ";"}
           keys == {i \in DOMAIN l : l[i] = "boundary=" /\ (semis # {} => i > First(semis))}
<1>9. First(semis) <= m /\ First(semis) \in Nat
  <2>1. semis \in SUBSET Nat /\ m \in semis
    <3>1. DOMAIN l \subseteq Nat /\ m \in DOMAIN l
      BY <1>1
    <3> QED
      BY <1>3, <3>1
  <2> HIDE DEF semis
  <2> QED
    BY <2>1, LeastOf
<1>10. keys = {b}
  <2> HIDE DEF semis
  <2>1. b > First(semis)
    BY <1>4, <1>9
  <2> QED
    BY <1>1, <1>2, <2>1
<1>11. First(keys) = b
  <2> HIDE DEF keys
  <2> QED
    BY <1>4, <1>10, OnlyFirst
<1>12. ScanBoundId(l) = IF keys = {} \/ NextToken(SubSeq(l, First(keys) + 1, Len(l))) = <<>>
                        THEN <<>> ELSE <<"-", "-">> \o NextToken(SubSeq(l, First(keys) + 1, Len(l)))
  BY DEF ScanBoundId
<1> HIDE DEF keys
<1> QED
  BY <1>8, <1>10, <1>11, <1>12

(***************************************************************************)
(* For every header: the boundary is the one declared, if it is readable.  *)
(***************************************************************************)
THEOREM DeclaredFound == Spec => []BoundDeclared
<1> DEFINE Scanned == pc # "scan" => bound = ScanBoundId(line)
<1>1. Init => Scanned
  BY DEF Init
<1>2. Scanned /\ [Next]_vars => Scanned'
  BY DEF Next, vars, input, fill, Scan, SeekLine, SeekEnd, CallPlain, CallFresh, CallCarry,
         FillEOF, FillChar, FillLast, FillMatch, FillMiss, Filling, Candidate, Stop, Put, Return,
         Compose, MakeNode, CheckEndBound
<1>3. TypeOK /\ Scanned => BoundDeclared
  BY DeclaredScanned DEF TypeOK, BoundDeclared
<1> QED
  BY <1>1, <1>2, <1>3, NoOverrun, PTL DEF Spec

-----------------------------------------------------------------------------
(***************************************************************************)
(* The line sought.                                                        *)
(***************************************************************************)
FirstMark == start \in Marks /\ \A p \in Marks : start <= p

\* seek_to_boundary is at the beginning of a line and has passed no line sought;
\* behind it, start is where the first one ends.
SeekInv ==
    /\ pc = "scan" => start = 0 /\ pos = 0
    /\ Short /\ bound # <<>> /\ pc # "scan" =>
          /\ pc = "seek" => /\ pos = 0 \/ pos = Len(file) \/ pos \in LineEnds
                            /\ \A p \in Marks : pos < p
          /\ pc = "lost" => Marks = {}
          /\ pc = "ended" => FirstMark /\ LineUpTo(start) # bound \o <<"lf">>
          /\ pc \notin {"seek", "lost", "ended"} /\ start > 0 =>
                FirstMark /\ LineUpTo(start) = bound \o <<"lf">>

\* A line goes from behind the last one's end to its own.
LEMMA LineAt ==
    ASSUME file \in Seq(FileChars), NEW p \in LineEnds, NEW a \in 0..(p - 1),
           a = 0 \/ a \in LineEnds, \A j \in (a + 1)..(p - 1) : file[j] # "lf"
    PROVE  LineUpTo(p) = SubSeq(file, a + 1, p)
<1> DEFINE before == {q \in LineEnds : q < p}
<1>1. Len(file) \in Nat /\ p \in Nat /\ a \in Nat
  <2>1. Len(file) \in Nat
    BY LenProperties
  <2>2. p \in 1..Len(file)
    BY DEF LineEnds
  <2> QED
    BY <2>1, <2>2
<1>2. \A q \in before : q \in 1..(p - 1) /\ q <= a
  <2> SUFFICES ASSUME NEW q \in before PROVE q \in 1..(p - 1) /\ q <= a
    OBVIOUS
  <2>1. q \in 1..Len(file) /\ file[q] = "lf" /\ q < p
    BY DEF LineEnds
  <2>2. q \notin (a + 1)..(p - 1)
    BY <2>1
  <2> QED
    BY <1>1, <2>1, <2>2
<1>3. LineUpTo(p) = SubSeq(file, IF before = {} THEN 1
                                 ELSE 1 + CHOOSE q \in before : \A r \in before : r <= q, p)
  BY DEF LineUpTo
<1>4. CASE a = 0
  <2> HIDE DEF before
  <2>1. before = {}
    <3> SUFFICES ASSUME NEW q \in before PROVE FALSE
      OBVIOUS
    <3>1. q \in 1..(p - 1) /\ q <= 0
      BY <1>2, <1>4
    <3> QED
      BY <1>1, <3>1
  <2> QED
    BY <1>3, <1>4, <2>1
<1>5. CASE a # 0
  <2>1. a \in before
    BY <1>1, <1>5
  <2>2. before \in SUBSET Int
    BY <1>2
  <2> HIDE DEF before
  <2>3. (CHOOSE q \in before : \A r \in before : r <= q) = a
    BY <1>2, <2>1, <2>2, GreatestOf
  <2>4. 1 + a = a + 1
    BY <1>1
  <2> QED
    BY <1>3, <2>1, <2>3, <2>4
<1> QED
  BY <1>4, <1>5

\* The two lines sought, and how they differ.
LEMMA MarkLines ==
    ASSUME PartInv, bound # <<>>
    PROVE  /\ Len(bound \o <<"lf">>) = Len(bound) + 1
           /\ Len(bound \o <<"-", "-", "lf">>) = Len(bound) + 3
           /\ (bound \o <<"lf">>)[Len(bound) + 1] = "lf"
           /\ (bound \o <<"-", "-", "lf">>)[Len(bound) + 3] = "lf"
           /\ Dashed(bound \o <<"lf">>) /\ Dashed(bound \o <<"-", "-", "lf">>)
           /\ bound \o <<"lf">> # bound \o <<"-", "-", "lf">>
<1> DEFINE Chars == {"-", "a", "blank", "lf"}
           x == <<"lf">>
           y == <<"-", "-", "lf">>
<1>1. bound \in Seq({"-", "a", "blank"}) /\ Len(bound) \in Nat
      /\ Len(bound) >= 3 /\ bound[1] = "-" /\ bound[2] = "-"
  BY LenProperties DEF PartInv, TypeOK, BoundFits
<1>2. bound \in Seq(Chars)
  BY <1>1, SeqMonotonic
<1>3. /\ x \in Seq(Chars) /\ Len(x) = 1 /\ x[1] = "lf"
      /\ y \in Seq(Chars) /\ Len(y) = 3 /\ y[3] = "lf"
  OBVIOUS
<1> HIDE DEF x, y
<1>4. \A z \in {x, y} :
         /\ Len(bound \o z) = Len(bound) + Len(z)
         /\ \A i \in 1..(Len(bound) + Len(z)) :
               (bound \o z)[i] = IF i <= Len(bound) THEN bound[i] ELSE z[i - Len(bound)]
  BY <1>2, <1>3, ConcatProperties
<1>5. \A z \in {x, y} : (bound \o z)[1] = "-" /\ (bound \o z)[2] = "-" /\ Len(bound \o z) > 1
  <2> TAKE z \in {x, y}
  <2>1. Len(z) \in Nat /\ 1 \in 1..(Len(bound) + Len(z)) /\ 2 \in 1..(Len(bound) + Len(z))
    BY <1>1, <1>3
  <2>2. (bound \o z)[1] = bound[1] /\ (bound \o z)[2] = bound[2]
    BY <1>1, <1>4, <2>1
  <2> QED
    BY <1>1, <1>4, <2>1, <2>2
<1>6. /\ Len(bound \o x) = Len(bound) + 1 /\ Len(bound \o y) = Len(bound) + 3
      /\ (bound \o x)[Len(bound) + 1] = "lf" /\ (bound \o y)[Len(bound) + 3] = "lf"
  <2>1. /\ Len(bound) + 1 \in 1..(Len(bound) + 1) /\ ~ (Len(bound) + 1 <= Len(bound))
        /\ Len(bound) + 3 \in 1..(Len(bound) + 3) /\ ~ (Len(bound) + 3 <= Len(bound))
        /\ (Len(bound) + 1) - Len(bound) = 1 /\ (Len(bound) + 3) - Len(bound) = 3
    BY <1>1
  <2>a. \A i \in 1..(Len(bound) + 1) :
           (bound \o x)[i] = IF i <= Len(bound) THEN bound[i] ELSE x[i - Len(bound)]
    BY <1>3, <1>4
  <2>b. \A i \in 1..(Len(bound) + 3) :
           (bound \o y)[i] = IF i <= Len(bound) THEN bound[i] ELSE y[i - Len(bound)]
    BY <1>3, <1>4
  <2>2. (bound \o x)[Len(bound) + 1] = x[1]
    BY <1>1, <2>1, <2>a
  <2>3. (bound \o y)[Len(bound) + 3] = y[3]
    BY <1>1, <2>1, <2>b
  <2> QED
    BY <1>3, <1>4, <2>2, <2>3
<1>7. Len(bound \o x) # Len(bound \o y)
  BY <1>1, <1>6
<1> QED
  BY <1>5, <1>6, <1>7 DEF Dashed, x, y

\* A step of seek_to_boundary from the beginning of a line.
LEMMA SeekStep ==
    ASSUME PartInv, Short, bound # <<>>, pos < Len(file),
           pos = 0 \/ pos \in LineEnds, \A p \in Marks : pos < p,
           NEW k \in Nat, k = LineLen(pos, LineMax)
    PROVE  LET s == SubSeq(file, pos + 1, pos + k) IN
           /\ pos + k \in 1..Len(file) /\ (pos + k = Len(file) \/ pos + k \in LineEnds)
           /\ \A p \in Marks : pos + k <= p
           /\ pos + k \in Marks <=> BoundLine(s) \/ LastLine(s)
           /\ BoundLine(s) => LineUpTo(pos + k) = bound \o <<"lf">>
           /\ LastLine(s) => LineUpTo(pos + k) # bound \o <<"lf">>
<1> USE SizesAssumption
<1> DEFINE s == SubSeq(file, pos + 1, pos + k)
<1> HIDE DEF s
<1>1. /\ Len(file) \in Nat /\ pos \in 0..Len(file) /\ pos \in Nat
      /\ LineMax \in Nat /\ LineMax >= 2 /\ file \in Seq(FileChars)
  <2>1. LineMax \in Nat /\ LineMax >= 2
    OBVIOUS
  <2> QED
    BY <2>1, StateFacts DEF PartInv, TypeOK
<1>2. /\ k \in 0..(LineMax - 1) /\ pos + k <= Len(file)
      /\ \/ k = LineMax - 1
         \/ pos + k = Len(file)
         \/ k > 0 /\ file[pos + k] = "lf"
      /\ \A j \in 1..(k - 1) : file[pos + j] # "lf"
  BY <1>1, LineFound
<1>3. k \in Nat /\ k >= 1 /\ pos + k \in 1..Len(file)
  <2>1. k # 0
    BY <1>1, <1>2
  <2>2. k >= 1
    BY <2>1
  <2> QED
    BY <1>1, <1>2, <2>2
<1>4. \A j \in (pos + 1)..(pos + k - 1) : file[j] # "lf"
  <2> TAKE j \in (pos + 1)..(pos + k - 1)
  <2>1. j - pos \in 1..(k - 1) /\ pos + (j - pos) = j
    BY <1>1, <1>3
  <2> QED
    BY <1>2, <2>1
<1>5. pos + k = Len(file) \/ file[pos + k] = "lf"
  <2> SUFFICES ASSUME k = LineMax - 1 PROVE file[pos + k] = "lf"
    BY <1>2
  <2>1. pos + 1 \in 1..Len(file) /\ (pos + 1) + LineMax - 2 = pos + k
    BY <1>1, <1>3
  <2>2. PICK j \in (pos + 1)..(pos + k) : file[j] = "lf"
    BY <1>2, <2>1 DEF Short
  <2>3. j = pos + k
    BY <1>1, <1>3, <1>4, <2>2
  <2> QED
    BY <2>2, <2>3
<1>6. ASSUME file[pos + k] = "lf"
      PROVE  pos + k \in LineEnds /\ LineUpTo(pos + k) = s
  <2>1. pos + k \in LineEnds
    BY <1>3, <1>6 DEF LineEnds
  <2>2. pos \in 0..((pos + k) - 1)
    BY <1>1, <1>3
  <2> DEFINE p == pos + k
  <2>3. \A j \in (pos + 1)..(p - 1) : file[j] # "lf"
    <3>1. p - 1 = pos + k - 1
      BY <1>1
    <3> HIDE DEF p
    <3> QED
      BY <1>4, <3>1
  <2>4. p \in LineEnds /\ pos \in 0..(p - 1)
    BY <2>1, <2>2
  <2> HIDE DEF p
  <2>5. LineUpTo(p) = SubSeq(file, pos + 1, p)
    BY <1>1, <2>3, <2>4, LineAt
  <2> QED
    BY <2>1, <2>5 DEF s, p
<1>7. Len(s) = k /\ s[k] = file[pos + k]
  <2>1. /\ Len(SubSeq(file, pos + 1, pos + k)) = k
        /\ \A i \in 1..k : SubSeq(file, pos + 1, pos + k)[i] = file[pos + i]
    <3>1. file \in Seq(MemChars) /\ pos \in Nat /\ k \in Nat /\ pos + k <= Len(file)
      BY <1>1, <1>2, StateFacts
    <3>2. \A n \in Nat : pos + n <= Len(file) =>
                /\ Len(SubSeq(file, pos + 1, pos + n)) = n
                /\ \A i \in 1..n : SubSeq(file, pos + 1, pos + n)[i] = file[pos + i]
      BY <3>1, SliceOf
    <3> QED
      BY <3>1, <3>2
  <2>2. k \in 1..k
    BY <1>3
  <2> QED
    BY <2>1, <2>2 DEF s
<1>8. BoundLine(s) <=> s = bound \o <<"lf">>
  BY MarkLines DEF BoundLine
<1>9. LastLine(s) <=> s = bound \o <<"-", "-", "lf">>
  BY MarkLines DEF LastLine
<1>10. BoundLine(s) \/ LastLine(s) => file[pos + k] = "lf"
  BY <1>7, <1>8, <1>9, MarkLines
<1>11. pos + k \in Marks <=> BoundLine(s) \/ LastLine(s)
  <2>1. pos + k \in Marks => file[pos + k] = "lf"
    BY DEF Marks, LineEnds
  <2> QED
    BY <1>6, <1>8, <1>9, <1>10, <2>1 DEF Marks
<1>12. \A p \in Marks : pos + k <= p
  <2> SUFFICES ASSUME NEW p \in Marks, p < pos + k PROVE FALSE
    <3>1. \A p \in Marks : p \in Int
      BY DEF Marks, LineEnds
    <3> QED
      BY <1>1, <1>3, <3>1
  <2>1. p \in 1..Len(file) /\ file[p] = "lf" /\ pos < p
    BY DEF Marks, LineEnds
  <2>2. p \in (pos + 1)..(pos + k - 1)
    BY <1>1, <1>3, <2>1
  <2> QED
    BY <1>4, <2>1, <2>2
<1>13. BoundLine(s) => LineUpTo(pos + k) = bound \o <<"lf">>
  BY <1>6, <1>8, <1>10
<1>14. LastLine(s) => LineUpTo(pos + k) # bound \o <<"lf">>
  BY <1>6, <1>9, <1>10, MarkLines
<1> QED
  BY <1>3, <1>5, <1>6, <1>11, <1>12, <1>13, <1>14 DEF s

LEMMA StepSeek == PartInv /\ SeekInv /\ [Next]_vars => SeekInv'
<1> SUFFICES ASSUME PartInv, SeekInv, [Next]_vars PROVE SeekInv'
  OBVIOUS
<1> USE DEF input, fill
<1>0. Len(file) \in Nat /\ pos \in 0..Len(file)
  BY StateFacts
<1>1. ASSUME UNCHANGED <<file, bound>>
      PROVE  /\ Marks' = Marks /\ LineEnds' = LineEnds /\ (Short' <=> Short)
             /\ \A p : LineUpTo(p)' = LineUpTo(p)
  <2>1. LineEnds' = LineEnds /\ (Short' <=> Short)
    BY <1>1 DEF LineEnds, Short
  <2>2. \A p : LineUpTo(p)' = LineUpTo(p)
    BY <1>1, <2>1 DEF LineUpTo
  <2> QED
    BY <1>1, <2>1, <2>2 DEF Marks
<1>2. CASE Scan
  <2>1. pc' \in {"seek", "call"} /\ pos' = 0 /\ start' = 0
    BY <1>2 DEF Scan, SeekInv
  <2>2. \A p \in Marks' : 0 < p
    BY DEF Marks, LineEnds
  <2> QED
    BY <2>1, <2>2 DEF SeekInv
<1>3. CASE SeekLine
  <2> DEFINE k == LineLen(pos, LineMax)
             s == SubSeq(file, pos + 1, pos + k)
  <2>1. /\ pc = "seek" /\ pos < Len(file) /\ UNCHANGED <<file, bound>>
        /\ pos' = pos + k /\ start' = pos + k
        /\ pc' = IF BoundLine(s) THEN "call" ELSE IF LastLine(s) THEN "ended" ELSE "seek"
    BY <1>3 DEF SeekLine
  <2>2. pc' # "scan" /\ pc' # "lost"
    BY <2>1
  <2> SUFFICES ASSUME Short, bound # <<>>
               PROVE  /\ pc' = "seek" => /\ pos' = 0 \/ pos' = Len(file) \/ pos' \in LineEnds
                                         /\ \A p \in Marks : pos' < p
                      /\ pc' = "ended" => FirstMark' /\ LineUpTo(start') # bound \o <<"lf">>
                      /\ pc' = "call" => FirstMark' /\ LineUpTo(start') = bound \o <<"lf">>
    BY <1>1, <2>1, <2>2 DEF SeekInv
  <2>3. (pos = 0 \/ pos \in LineEnds) /\ \A p \in Marks : pos < p
    BY <1>0, <2>1 DEF SeekInv
  <2> HIDE DEF k, s
  <2>4. /\ pos + k \in 1..Len(file) /\ (pos + k = Len(file) \/ pos + k \in LineEnds)
        /\ \A p \in Marks : pos + k <= p
        /\ pos + k \in Marks <=> BoundLine(s) \/ LastLine(s)
        /\ BoundLine(s) => LineUpTo(pos + k) = bound \o <<"lf">>
        /\ LastLine(s) => LineUpTo(pos + k) # bound \o <<"lf">>
    <3>0. LineMax \in Nat \ {0} /\ file \in Seq(FileChars)
      BY SizesAssumption DEF PartInv, TypeOK
    <3>1. k \in Nat
      BY <1>0, <3>0, LineFound DEF k
    <3> QED
      BY <2>1, <2>3, <3>1, SeekStep DEF k, s
  <2>5. pos' \in Int /\ \A p \in Marks : p \in Int
    BY <1>0, <2>1, <2>4 DEF Marks, LineEnds
  <2>6. CASE BoundLine(s) \/ LastLine(s)
    <3>1. FirstMark'
      BY <1>1, <2>1, <2>4, <2>6 DEF FirstMark
    <3> QED
      BY <2>1, <2>4, <2>6, <3>1
  <2>7. CASE ~ BoundLine(s) /\ ~ LastLine(s)
    <3>1. pos' \notin Marks
      BY <2>1, <2>4, <2>7
    <3>2. \A p \in Marks : pos' < p
      <4> TAKE p \in Marks
      <4>1. pos' <= p /\ p # pos'
        BY <2>1, <2>4, <3>1
      <4> QED
        BY <2>5, <4>1
    <3> QED
      BY <2>1, <2>4, <2>7, <3>2
  <2> QED
    BY <2>6, <2>7
<1>4. CASE SeekEnd
  <2>1. pc = "seek" /\ pos = Len(file) /\ pc' = "lost" /\ UNCHANGED <<file, bound, pos, start>>
    BY <1>4 DEF SeekEnd
  <2>2. ASSUME Short, bound # <<>> PROVE Marks = {}
    <3>1. \A p \in Marks : Len(file) < p /\ p \in 1..Len(file)
      BY <2>1, <2>2 DEF SeekInv, Marks, LineEnds
    <3> QED
      BY <1>0, <3>1
  <2> QED
    BY <1>1, <2>1, <2>2 DEF SeekInv
<1> DEFINE Out == {"scan", "seek", "lost", "ended"}
<1>5. ASSUME UNCHANGED <<file, bound, start>>, pc \notin Out, pc' \notin Out PROVE SeekInv'
  BY <1>1, <1>5 DEF SeekInv, FirstMark
<1>6. CASE CallPlain \/ CallFresh \/ CallCarry \/ FillEOF \/ FillChar \/ FillLast \/ FillMatch
  BY <1>5, <1>6 DEF CallPlain, CallFresh, CallCarry, FillEOF, FillChar, FillLast, FillMatch,
     Filling, Candidate, Stop, Put
<1>7. CASE FillMiss \/ Return \/ Compose \/ MakeNode \/ CheckEndBound
  BY <1>5, <1>7 DEF FillMiss, Filling, Candidate, Put, Return, Compose, MakeNode, CheckEndBound
<1>8. CASE UNCHANGED vars
  BY <1>1, <1>8 DEF vars, SeekInv, FirstMark
<1> QED
  BY <1>2, <1>3, <1>4, <1>6, <1>7, <1>8 DEF Next

(***************************************************************************)
(* For every file whose lines fit tmpBuf, and every boundary: the search   *)
(* ends behind the first line sought, and tells which of the two it is.    *)
(***************************************************************************)
THEOREM FirstFound == Spec => []SeekRight
<1>1. Init => SeekInv
  BY DEF Init, SeekInv
<1>2. SeekInv => SeekRight
  BY DEF SeekInv, SeekRight, FirstMark
<1> QED
  BY <1>1, <1>2, InitPart, StepPart, StepSeek, PTL DEF Spec

-----------------------------------------------------------------------------
(***************************************************************************)
(* The loops end.                                                          *)
(***************************************************************************)

Unread == Len(file) - pos
Held == IF buf[0] = "nul" THEN 0 ELSE 2

\* A call that got nothing, or came to the end of the part, is the last.
Rank ==
    CASE pc = "scan" -> 8 [] pc = "seek" -> 7
      [] pc = "return" -> IF room = Size \/ done THEN 4 ELSE 7
      [] pc = "call" -> 6 [] pc = "fill" -> 5 [] pc = "compose" -> 3
      [] pc \in {"null", "composed"} -> 2 [] pc \in {"node", "failed"} -> 1
      [] OTHER -> 0

\* Steps the reader can still take.
Left == 4 * Unread + Held + Rank

LEMMA LeftType == PartInv => Left \in Nat /\ Unread \in Nat /\ Held \in {0, 2} /\ Rank \in 0..8
<1> SUFFICES ASSUME PartInv PROVE Left \in Nat /\ Unread \in Nat /\ Held \in {0, 2} /\ Rank \in 0..8
  OBVIOUS
<1>1. Unread \in Nat
  BY StateFacts DEF Unread
<1>2. Held \in {0, 2}
  BY DEF Held
<1>3. Rank \in 0..8
  BY DEF Rank
<1> QED
  BY <1>1, <1>2, <1>3 DEF Left

\* What a step does to the three parts makes up for itself.
LEMMA Sums ==
    ASSUME NEW u \in Nat, NEW v \in Nat, NEW h \in 0..2, NEW i \in 0..2, NEW r \in 0..8, NEW s \in 0..8,
           \/ v = u /\ i + s < h + r
           \/ v < u /\ i = h /\ s < r + 4
           \/ v + 1 < u /\ s < r + 6
    PROVE  4 * v + i + s < 4 * u + h + r
OBVIOUS

LEMMA Shrinks ==
    ASSUME Unread \in Nat, Unread' \in Nat, Held \in {0, 2}, Held' \in {0, 2},
           Rank \in 0..8, Rank' \in 0..8,
           \/ Unread' = Unread /\ Held' + Rank' < Held + Rank
           \/ Unread' < Unread /\ Held' = Held /\ Rank' < Rank + 4
           \/ Unread' + 1 < Unread /\ Rank' < Rank + 6
    PROVE  Left' < Left
<1>1. Held \in 0..2 /\ Held' \in 0..2
  OBVIOUS
<1>2. 4 * Unread' + Held' + Rank' < 4 * Unread + Held + Rank
  BY <1>1, Sums
<1> QED
  BY <1>2 DEF Left

LEMMA LeftStep == PartInv /\ PartInv' /\ Next => Left' < Left
<1> SUFFICES ASSUME PartInv, PartInv', Next PROVE Left' < Left
  OBVIOUS
<1> USE SizesAssumption
<1>t. /\ Len(file) \in Nat /\ pos \in 0..Len(file) /\ Unread \in Nat
      /\ Held \in {0, 2} /\ Rank \in 0..8
      /\ buf \in [0..(MaxTok + 3) -> MemChars] /\ 0 \in 0..(MaxTok + 3)
  <2>1. buf \in [0..(MaxTok + 3) -> MemChars]
    BY DEF PartInv, TypeOK
  <2>2. 0 \in 0..(MaxTok + 3)
    OBVIOUS
  <2> QED
    BY <2>1, <2>2, StateFacts, LeftType
<1>u. /\ file' = file /\ pos' \in Nat /\ Unread' \in Nat /\ Held' \in {0, 2} /\ Rank' \in 0..8
  <2>1. file' = file
    BY DEF Next, Scan, SeekLine, SeekEnd, CallPlain, CallFresh, CallCarry, FillEOF, FillChar, FillLast,
           FillMatch, FillMiss, Return, Compose, MakeNode, CheckEndBound, Stop, Put, input
  <2>2. pos' \in 0..Len(file') /\ Len(file') \in Nat
    BY <1>t, <2>1 DEF PartInv, TypeOK
  <2> QED
    BY <2>1, <2>2 DEF Unread, Held, Rank
<1>same. ASSUME buf' = buf PROVE Held' = Held
  BY <1>same DEF Held
<1>stay. ASSUME pos' = pos, Held' + Rank' < Held + Rank PROVE Left' < Left
  BY <1>t, <1>u, <1>stay, Shrinks DEF Unread
<1>more. ASSUME pos < pos', Held' = Held, Rank' < Rank + 4 PROVE Left' < Left
  BY <1>t, <1>u, <1>more, Shrinks DEF Unread
<1>stop. ASSUME NEW p \in Nat, pos <= p, pc = "fill", Stop(p) PROVE Left' < Left
  <2>1. Held' = 0 /\ Rank = 5 /\ Rank' = 4
    <3>1. buf'[0] = "nul" /\ pc' = "return" /\ done' = TRUE
      BY <1>t, <1>stop DEF Stop, Emptied
    <3> QED
      BY <1>stop, <3>1 DEF Held, Rank
  <2>2. pos' = p
    BY <1>stop DEF Stop
  <2>3. CASE p = pos
    BY <1>t, <1>stay, <2>1, <2>2, <2>3
  <2>4. CASE pos < p
    <3>1. Unread' < Unread /\ Unread' = Len(file) - p
      BY <1>t, <1>u, <2>2, <2>4 DEF Unread
    <3>2. Left' = 4 * Unread' + 4 /\ Left = 4 * Unread + Held + 5
      BY <1>u, <2>1 DEF Left
    <3> QED
      BY <1>t, <1>u, <3>1, <3>2
  <2> QED
    BY <1>t, <1>stop, <2>3, <2>4
<1>1. CASE Scan
  <2>1. pos' = pos /\ buf' = buf /\ pc = "scan" /\ pc' \in {"seek", "call"}
    BY <1>1 DEF Scan, fill
  <2>2. Rank = 8 /\ (Rank' = 7 \/ Rank' = 6)
    BY <2>1 DEF Rank
  <2>3. Held' = Held /\ (Held = 0 \/ Held = 2)
    BY <1>t, <1>same, <2>1
  <2>4. Held' + Rank' < Held + Rank
    BY <2>2, <2>3
  <2> QED
    BY <1>stay, <2>1, <2>4
<1>2. CASE SeekLine
  <2> DEFINE k == LineLen(pos, LineMax)
  <2>1. /\ k \in 0..(LineMax - 1) /\ pos + k <= Len(file)
        /\ k = LineMax - 1 \/ pos + k = Len(file) \/ k > 0
    BY <1>t, LineFound DEF PartInv, TypeOK
  <2>2. pc = "seek" /\ pos < Len(file) /\ pos' = pos + k /\ buf' = buf
        /\ pc' \in {"call", "ended", "seek"}
    BY <1>2 DEF SeekLine, fill
  <2> HIDE DEF k
  <2>3. k > 0
    BY <1>t, <2>1, <2>2
  <2>4. Rank = 7 /\ Rank' < 8
    BY <2>2 DEF Rank
  <2> QED
    BY <1>t, <1>u, <1>same, <1>more, <2>1, <2>2, <2>3, <2>4
<1>3. CASE SeekEnd
  <2>1. pos' = pos /\ buf' = buf /\ pc = "seek" /\ pc' = "lost"
    BY <1>3 DEF SeekEnd, fill
  <2>2. Rank = 7 /\ Rank' = 0
    BY <2>1 DEF Rank
  <2> QED
    BY <1>t, <1>same, <1>stay, <2>1, <2>2
<1>4. CASE CallPlain
  <2> DEFINE n == IF Len(file) - pos < Size THEN Len(file) - pos ELSE Size
  <2>1. n \in 0..Size
    BY <1>t
  <2>2. pos' = pos + n /\ room' = Size - n /\ pc = "call" /\ pc' = "return" /\ buf' = buf
    BY <1>4 DEF CallPlain
  <2> HIDE DEF n
  <2>3. CASE n = 0
    <3>1. Rank = 6 /\ Rank' = 4
      BY <2>2, <2>3 DEF Rank
    <3> QED
      BY <1>t, <1>same, <1>stay, <2>2, <2>3, <3>1
  <2>4. CASE n # 0
    <3>1. Rank = 6 /\ Rank' <= 7
      BY <2>2 DEF Rank
    <3> QED
      BY <1>t, <1>u, <1>same, <1>more, <2>1, <2>2, <2>4, <3>1
  <2> QED
    BY <2>3, <2>4
<1>5. CASE CallFresh
  <2>1. pos' = pos /\ buf' = buf /\ pc = "call" /\ pc' = "fill"
    BY <1>5 DEF CallFresh
  <2>2. Rank = 6 /\ Rank' = 5
    BY <2>1 DEF Rank
  <2> QED
    BY <1>t, <1>same, <1>stay, <2>1, <2>2
<1>6. CASE CallCarry
  <2>1. /\ pos' = pos /\ Strlen(buf) > 0 /\ buf' = Emptied(buf)
        /\ pc = "call" /\ pc' = "return"
    BY <1>6 DEF CallCarry
  <2>2. Held = 2
    <3>1. buf[0] # "nul"
      BY <1>t, <2>1, EmptyHeld
    <3> QED
      BY <3>1 DEF Held
  <2>3. Held' = 0
    <3>1. buf'[0] = "nul"
      BY <1>t, <2>1, EmptiedFits
    <3> QED
      BY <3>1 DEF Held
  <2>4. Rank = 6 /\ Rank' <= 7
    BY <2>1 DEF Rank
  <2> QED
    BY <1>t, <1>u, <1>stay, <2>1, <2>2, <2>3, <2>4
<1>7. CASE FillEOF
  <2>1. pc = "fill" /\ (Stop(pos) \/ Stop(pos + 1))
    BY <1>7 DEF FillEOF, Filling
  <2> QED
    BY <1>t, <1>stop, <2>1
<1>8. CASE FillChar
  <2>1. pc = "fill" /\ pos' = pos + 1 /\ buf' = buf /\ pc' \in {"fill", "return"}
    BY <1>8 DEF FillChar, Filling, Put
  <2>2. Rank = 5 /\ Rank' <= 7
    BY <2>1 DEF Rank
  <2> QED
    BY <1>t, <1>u, <1>same, <1>more, <2>1, <2>2
<1>c. ASSUME Candidate PROVE pc = "fill" /\ RestLen \in Nat /\ AfterCandidate = pos + 1 + RestLen
  <2>1. pc = "fill" /\ bound # <<>>
    BY <1>c DEF Candidate, Filling, PartInv, Counted
  <2>2. RestLen \in 0..(BoundLen - 1) /\ BoundLen \in 3..(MaxTok + 2)
    BY <1>c, <2>1, AheadFits
  <2> QED
    BY <2>1, <2>2 DEF AfterCandidate
<1>9. CASE FillLast \/ FillMatch
  <2>1. Candidate /\ (Stop(pos + 1) \/ Stop(AfterCandidate))
    BY <1>9 DEF FillLast, FillMatch
  <2> QED
    BY <1>t, <1>c, <1>stop, <2>1
<1>10. CASE FillMiss
  <2>1. /\ Candidate /\ RestLen > 0 /\ pos' = AfterCandidate /\ pc' \in {"fill", "return"}
    BY <1>10 DEF FillMiss, Put
  <2>2. Rank = 5 /\ Rank' <= 7
    BY <1>c, <2>1 DEF Rank
  <2>3. Unread' + 1 < Unread
    BY <1>t, <1>u, <1>c, <2>1 DEF Unread
  <2> QED
    BY <1>t, <1>u, <2>2, <2>3, Shrinks
<1>11. CASE Return
  <2>1. /\ pos' = pos /\ buf' = buf /\ pc = "return"
        /\ pc' = IF room = Size \/ done THEN "compose" ELSE "call"
    <3>1. Size - room = 0 <=> room = Size
      BY StateFacts
    <3> QED
      BY <1>11, <3>1 DEF Return
  <2>2. Rank' < Rank
    BY <2>1 DEF Rank
  <2> QED
    BY <1>t, <1>u, <1>same, <1>stay, <2>1, <2>2
<1>12. CASE Compose
  <2>1. pos' = pos /\ buf' = buf /\ pc = "compose" /\ pc' \in {"null", "composed"}
    BY <1>12 DEF Compose, fill
  <2>2. Rank = 3 /\ Rank' = 2
    BY <2>1 DEF Rank
  <2> QED
    BY <1>t, <1>same, <1>stay, <2>1, <2>2
<1>13. CASE MakeNode
  <2>1. pos' = pos /\ buf' = buf /\ pc \in {"null", "composed"} /\ pc' \in {"node", "failed"}
    BY <1>13 DEF MakeNode, fill
  <2>2. Rank = 2 /\ Rank' = 1
    BY <2>1 DEF Rank
  <2> QED
    BY <1>t, <1>same, <1>stay, <2>1, <2>2
<1>14. CASE CheckEndBound
  <2>1. pos <= pos' /\ buf' = buf /\ pc \in {"node", "failed"} /\ pc' \in Verdicts
    BY <1>t, <1>14 DEF CheckEndBound, fill, Verdicts
  <2>2. Rank = 1 /\ Rank' = 0
    BY <2>1 DEF Rank, Verdicts
  <2> QED
    BY <1>t, <1>u, <1>same, <1>stay, <1>more, <2>1, <2>2
<1> QED
  BY <1>1, <1>2, <1>3, <1>4, <1>5, <1>6, <1>7, <1>8, <1>9, <1>10, <1>11, <1>12, <1>13, <1>14 DEF Next

(***************************************************************************)
(* Whatever the line and the file hold, the scan, the search, the reading  *)
(* of the part and the look behind it end: a turn that takes nothing from  *)
(* the file empties the read-ahead, or is the last.                        *)
(***************************************************************************)
UsesUp == [](Left \in Nat) /\ [][Left' < Left]_vars

THEOREM PartEnds == Spec => UsesUp
<1>1. PartInv => Left \in Nat
  BY LeftType
<1>2. PartInv /\ [Next]_vars => [Left' < Left]_vars
  BY StepPart, LeftStep
<1>3. Spec => [](Left \in Nat) /\ [][Left' < Left]_vars
  BY InitPart, StepPart, <1>1, <1>2, PTL DEF Spec
<1> QED
  BY <1>3 DEF UsesUp
=============================================================================
