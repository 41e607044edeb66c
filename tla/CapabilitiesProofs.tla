-------------------------- MODULE CapabilitiesProofs --------------------------
(***************************************************************************)
(* For any answer of the backend that is a tree: the edits add the address *)
(* of the proxy once to every operation with HTTP, take out the addresses  *)
(* meant, add the profiles in their place, and touch nothing else.         *)
(***************************************************************************)
EXTENDS Capabilities, TLAPS, WellFoundedInduction

-----------------------------------------------------------------------------
(***************************************************************************)
(* Trees and what is found in them.                                        *)
(***************************************************************************)

\* A set of naturals that has a member has a least one.
LEMMA LeastOf ==
    ASSUME NEW T \in SUBSET Nat, T # {}
    PROVE  First(T) \in T /\ \A y \in T : First(T) <= y
<1> DEFINE R == OpToRel(<, Nat)
<1>1. \E x \in T : \A y \in T : ~ (<<y, x>> \in R)
  <2>1. IsWellFoundedOn(R, Nat)
    BY NatLessThanWellFounded
  <2> HIDE DEF R
  <2> QED
    BY <2>1, WFMin
<1>2. \A x, y \in Nat : y < x => <<y, x>> \in R
  BY DEF OpToRel
<1>3. PICK x \in T : \A y \in T : ~ (<<y, x>> \in R)
  BY <1>1
<1> HIDE DEF R
<1>4. \A y \in T : x <= y
  <2>1. \A y \in T : ~ (y < x)
    BY <1>2, <1>3
  <2> QED
    BY <1>3, <2>1
<1> DEFINE Least(z) == \A y \in T : z <= y
<1>5. First(T) = CHOOSE z \in T : Least(z)
  BY DEF First
<1>6. Least(x)
  BY <1>4
<1> HIDE DEF Least
<1>7. First(T) \in T /\ Least(First(T))
  BY <1>3, <1>5, <1>6
<1> QED
  BY <1>7 DEF Least

LEMMA FoundIs ==
    ASSUME NEW S \in SUBSET (Nat \ {None})
    PROVE  /\ S = {} => Found(S) = None
           /\ S # {} => Found(S) \in S /\ Found(S) # None /\ \A m \in S : Found(S) <= m
           /\ \A n \in S : (\A m \in S : n <= m) => Found(S) = n
<1>1. CASE S = {}
  BY <1>1 DEF Found
<1>2. CASE S # {}
  <2>1. First(S) \in S /\ \A y \in S : First(S) <= y
    BY <1>2, LeastOf
  <2>2. Found(S) = First(S)
    BY <1>2 DEF Found
  <2> HIDE DEF Found
  <2>3. ASSUME NEW n \in S, \A m \in S : n <= m PROVE Found(S) = n
    <3>1. /\ n \in Nat /\ First(S) \in Nat
          /\ n <= First(S) /\ First(S) <= n
      BY <2>1, <2>3
    <3> QED
      BY <2>2, <3>1
  <2> QED
    BY <1>2, <2>1, <2>2, <2>3
<1> QED
  BY <1>1, <1>2

\* In a part of what was searched the same is found, if it is still there.
LEMMA FoundInPart ==
    ASSUME NEW S \in SUBSET (Nat \ {None}), NEW T \in SUBSET S, Found(S) # None => Found(S) \in T
    PROVE  Found(T) = Found(S)
<1>1. CASE S = {}
  BY <1>1
<1>2. CASE S # {}
  BY <1>2, FoundIs, T \in SUBSET (Nat \ {None})
<1> QED
  BY <1>1, <1>2

\* The nodes of a tree.
LEMMA TreeNodes ==
    ASSUME NEW t, IsTree(t)
    PROVE  /\ DOMAIN t \subseteq Nat \ {None} /\ None \notin DOMAIN t
           /\ \A n \in DOMAIN t : t[n].end \in Nat /\ n < t[n].end
BY DEF IsTree

LEMMA BelowInTree ==
    ASSUME NEW t, NEW n
    PROVE  /\ Below(t, n) \subseteq DOMAIN t /\ Kids(t, n) \subseteq Below(t, n)
           /\ Whole(t, n) \subseteq DOMAIN t
           /\ n \notin DOMAIN t => Below(t, n) = {} /\ Kids(t, n) = {} /\ Whole(t, n) = {}
BY DEF Below, Kids, Whole

LEMMA BelowEnds ==
    ASSUME NEW t, IsTree(t), NEW n, NEW m \in Below(t, n)
    PROVE  /\ n \in DOMAIN t /\ m \in DOMAIN t /\ n \in Nat /\ m \in Nat
           /\ n < m /\ m < t[m].end /\ t[m].end < t[n].end
BY TreeNodes DEF Below, IsTree

LEMMA BelowBelow ==
    ASSUME NEW t, IsTree(t), NEW n, NEW m \in Below(t, n)
    PROVE  Below(t, m) \subseteq Below(t, n)
<1> SUFFICES ASSUME NEW k \in Below(t, m) PROVE k \in Below(t, n)
  OBVIOUS
<1>1. /\ n < m /\ m < k /\ k < t[m].end /\ t[m].end < t[n].end
      /\ n \in DOMAIN t /\ k \in DOMAIN t /\ n \in Nat /\ m \in Nat /\ k \in Nat
      /\ t[m].end \in Nat /\ t[n].end \in Nat
  BY BelowEnds, TreeNodes DEF Below
<1> QED
  BY <1>1 DEF Below

LEMMA WholeIs ==
    ASSUME NEW t, IsTree(t), NEW n
    PROVE  /\ n \in DOMAIN t => Whole(t, n) = {n} \cup Below(t, n)
           /\ \A m \in Whole(t, n) : Below(t, m) \subseteq Whole(t, n)
<1>1. CASE n \in DOMAIN t
  <2>1. Whole(t, n) = {n} \cup Below(t, n)
    BY <1>1 DEF Whole, Below
  <2> QED
    BY <2>1, BelowBelow
<1>2. CASE n \notin DOMAIN t
  BY <1>2, BelowInTree
<1> QED
  BY <1>1, <1>2

\* Two nodes that overlap lie one below the other.
LEMMA Overlap ==
    ASSUME NEW t, IsTree(t), NEW m \in DOMAIN t, NEW n \in DOMAIN t, m # n,
           NEW k \in Whole(t, m), k \in Whole(t, n)
    PROVE  m \in Below(t, n) \/ n \in Below(t, m)
<1>1. /\ m <= k /\ k < t[m].end /\ n <= k /\ k < t[n].end
      /\ m \in Nat /\ n \in Nat /\ k \in Nat /\ t[m].end \in Nat /\ t[n].end \in Nat
  BY WholeIs, BelowEnds, TreeNodes DEF Below
<1>2. m < n => n \in Below(t, m)
  BY <1>1 DEF Below
<1>3. n < m => m \in Below(t, n)
  BY <1>1 DEF Below
<1> QED
  BY <1>1, <1>2, <1>3

\* A child has no node of its siblings' in common with them.
LEMMA KidsApart ==
    ASSUME NEW t, IsTree(t), NEW n, NEW k \in Kids(t, n), NEW m \in Below(t, n),
           NEW x \in Whole(t, k), x \in Whole(t, m), k # m
    PROVE  m \in Below(t, k)
<1>1. k \in Below(t, n) /\ k \in DOMAIN t /\ m \in DOMAIN t /\ k \notin Below(t, m)
  BY BelowInTree DEF Kids
<1> QED
  BY <1>1, Overlap

-----------------------------------------------------------------------------
(***************************************************************************)
(* A tree and what is left of it without some elements.                    *)
(***************************************************************************)

Part(s, t) ==
    /\ IsTree(s) /\ IsTree(t) /\ DOMAIN s \subseteq DOMAIN t
    /\ \A m \in DOMAIN s : s[m] = t[m]
    /\ \A k \in DOMAIN t \ DOMAIN s : /\ Below(t, k) \cap DOMAIN s = {}
                                      /\ \E n \in DOMAIN s : k \in Below(t, n)

LEMMA PartOfSelf ==
    ASSUME NEW t, IsTree(t)
    PROVE  Part(t, t)
BY DEF Part

LEMMA PartBelow ==
    ASSUME NEW s, NEW t, Part(s, t), NEW n \in DOMAIN s \cup {None}
    PROVE  /\ Below(s, n) = Below(t, n) \cap DOMAIN s
           /\ Kids(s, n) = Kids(t, n) \cap DOMAIN s
           /\ Whole(s, n) = Whole(t, n) \cap DOMAIN s
<1>1. \A m \in DOMAIN s \cup {None} : Below(s, m) = Below(t, m) \cap DOMAIN s
  BY TreeNodes DEF Part, Below
<1>2. Kids(s, n) \subseteq Kids(t, n) \cap DOMAIN s
  <2> SUFFICES ASSUME NEW m \in Kids(s, n), NEW k \in Below(t, n), m \in Below(t, k)
               PROVE  FALSE
    BY <1>1 DEF Kids
  <2>1. m \in Below(s, n) /\ m \in DOMAIN s /\ k \in DOMAIN t
    BY BelowInTree
  <2>2. k \in DOMAIN s
    BY <2>1 DEF Part
  <2> QED
    BY <1>1, <2>1, <2>2 DEF Kids
<1>3. Kids(t, n) \cap DOMAIN s \subseteq Kids(s, n)
  BY <1>1, BelowInTree DEF Kids
<1>4. Whole(s, n) = Whole(t, n) \cap DOMAIN s
  BY <1>1 DEF Whole, Part
<1> QED
  BY <1>1, <1>2, <1>3, <1>4

LEMMA SameRoot ==
    ASSUME NEW s, NEW t, Part(s, t)
    PROVE  Root(s) = Root(t)
<1>1. DOMAIN t \subseteq Nat \ {None} /\ DOMAIN s \subseteq DOMAIN t
  BY TreeNodes DEF Part
<1>2. CASE DOMAIN t = {}
  BY <1>1, <1>2 DEF Root
<1>3. CASE DOMAIN t # {}
  <2>1. /\ Root(t) \in DOMAIN t /\ \A m \in DOMAIN t : Root(t) <= m
    BY <1>1, <1>3, FoundIs DEF Root
  <2>2. Root(t) \in DOMAIN s
    <3> SUFFICES ASSUME NEW n \in DOMAIN s, Root(t) \in Below(t, n)
                 PROVE  FALSE
      BY <2>1 DEF Part
    <3> QED
      BY <1>1, <2>1 DEF Below
  <2> QED
    BY <1>1, <2>2, FoundInPart DEF Root
<1> QED
  BY <1>2, <1>3

\* In the part as many nodes of a name are below or children, if no other has it.
LEMMA SameNamed ==
    ASSUME NEW s, NEW t, Part(s, t), NEW n \in DOMAIN s \cup {None}, NEW name,
           \A k \in DOMAIN t \ DOMAIN s : ~Matches(name, t[k].name)
    PROVE  /\ Named(s, Below(s, n), name) = Named(t, Below(t, n), name)
           /\ Named(s, Kids(s, n), name) = Named(t, Kids(t, n), name)
<1>1. \A S \in SUBSET DOMAIN t : Named(s, S \cap DOMAIN s, name) = Named(t, S, name)
  BY DEF Named, Part
<1> QED
  BY <1>1, PartBelow, BelowInTree

\* A search below n ends at a node of the tree, or nowhere.
LEMMA DeepIs ==
    ASSUME NEW t, IsTree(t), NEW n, NEW name, NEW f, f = FindDeep(t, n, name)
    PROVE  \/ f = None /\ Named(t, Below(t, n), name) = {}
           \/ /\ f # None /\ f \in Below(t, n) /\ f \in DOMAIN t /\ Matches(name, t[f].name)
              /\ \A m \in Named(t, Below(t, n), name) : f <= m
<1> DEFINE S == Named(t, Below(t, n), name)
<1>1. S \in SUBSET (Nat \ {None}) /\ S \subseteq Below(t, n) /\ S \subseteq DOMAIN t
  BY BelowInTree, TreeNodes DEF Named
<1>2. f = Found(S)
  BY DEF FindDeep
<1>3. \A m \in S : Matches(name, t[m].name)
  BY DEF Named
<1> HIDE DEF S
<1>4. CASE S = {}
  BY <1>1, <1>2, <1>4, FoundIs DEF S
<1>5. CASE S # {}
  <2>1. f \in S /\ f # None /\ \A m \in S : f <= m
    BY <1>1, <1>2, <1>5, FoundIs
  <2> QED
    BY <1>1, <1>3, <2>1 DEF S
<1> QED
  BY <1>4, <1>5

\* The same with the children of n, or any set of nodes.
LEMMA FlatIs ==
    ASSUME NEW t, IsTree(t), NEW K \in SUBSET DOMAIN t, NEW name,
           NEW f, f = FindFlat(t, K, name)
    PROVE  \/ f = None /\ Named(t, K, name) = {}
           \/ /\ f # None /\ f \in K /\ f \in DOMAIN t /\ Matches(name, t[f].name)
              /\ f = First(Named(t, K, name))
              /\ \A m \in Named(t, K, name) : f <= m
<1> DEFINE S == Named(t, K, name)
<1>1. S \in SUBSET (Nat \ {None}) /\ S \subseteq K
  BY TreeNodes DEF Named
<1>2. f = Found(S)
  BY DEF FindFlat
<1>3. \A m \in S : Matches(name, t[m].name)
  BY DEF Named
<1> HIDE DEF S
<1>4. CASE S = {}
  BY <1>1, <1>2, <1>4, FoundIs DEF S
<1>5. CASE S # {}
  <2>1. f \in S /\ f # None /\ \A m \in S : f <= m
    BY <1>1, <1>2, <1>5, FoundIs
  <2>2. f = First(S)
    BY <1>2, <1>5 DEF Found
  <2> QED
    BY <1>1, <1>3, <2>1, <2>2 DEF S
<1> QED
  BY <1>4, <1>5

\* In the part a search finds the same, if what it found is still there.
LEMMA SameDeep ==
    ASSUME NEW s, NEW t, Part(s, t), NEW n \in DOMAIN s \cup {None}, NEW name,
           FindDeep(t, n, name) # None => FindDeep(t, n, name) \in DOMAIN s
    PROVE  FindDeep(s, n, name) = FindDeep(t, n, name)
<1> DEFINE S == Named(t, Below(t, n), name)
           T == Named(s, Below(s, n), name)
<1>1. S \in SUBSET (Nat \ {None}) /\ T = S \cap DOMAIN s
  BY BelowInTree, TreeNodes, PartBelow DEF Named, Part
<1>2. FindDeep(s, n, name) = Found(T) /\ FindDeep(t, n, name) = Found(S)
  BY DEF FindDeep
<1> HIDE DEF S, T
<1>3. Found(S) # None => Found(S) \in S
  BY <1>1, FoundIs
<1>4. Found(T) = Found(S)
  BY <1>1, <1>2, <1>3, FoundInPart
<1> QED
  BY <1>2, <1>4

LEMMA SameFlat ==
    ASSUME NEW s, NEW t, Part(s, t), NEW n \in DOMAIN s \cup {None}, NEW name,
           FindFlat(t, Kids(t, n), name) # None => FindFlat(t, Kids(t, n), name) \in DOMAIN s
    PROVE  FindFlat(s, Kids(s, n), name) = FindFlat(t, Kids(t, n), name)
<1> DEFINE S == Named(t, Kids(t, n), name)
           T == Named(s, Kids(s, n), name)
<1>1. S \in SUBSET (Nat \ {None}) /\ T = S \cap DOMAIN s
  BY BelowInTree, TreeNodes, PartBelow DEF Named, Part
<1>2. FindFlat(s, Kids(s, n), name) = Found(T) /\ FindFlat(t, Kids(t, n), name) = Found(S)
  BY DEF FindFlat
<1> HIDE DEF S, T
<1>3. Found(S) # None => Found(S) \in S
  BY <1>1, FoundIs
<1>4. Found(T) = Found(S)
  BY <1>1, <1>2, <1>3, FoundInPart
<1> QED
  BY <1>2, <1>4

-----------------------------------------------------------------------------
(***************************************************************************)
(* The edits make a tree of a tree.                                        *)
(***************************************************************************)

LEMMA WithoutPart ==
    ASSUME NEW t, IsTree(t), NEW gone \in SUBSET DOMAIN t,
           \A g \in gone : /\ Below(t, g) \subseteq gone
                           /\ \E n \in DOMAIN t \ gone : g \in Below(t, n)
    PROVE  Part(Without(t, gone), t) /\ DOMAIN Without(t, gone) = DOMAIN t \ gone
<1> DEFINE s == Without(t, gone)
<1>1. /\ DOMAIN s = DOMAIN t \ gone
      /\ \A m \in DOMAIN s : s[m] = t[m]
  BY DEF Without
<1> HIDE DEF s
<1>3. IsTree(s)
  BY <1>1 DEF IsTree
<1>4. \A k \in DOMAIN t \ DOMAIN s : /\ Below(t, k) \cap DOMAIN s = {}
                                     /\ \E n \in DOMAIN s : k \in Below(t, n)
  BY <1>1
<1>5. Part(s, t)
  BY <1>1, <1>3, <1>4 DEF Part
<1> QED
  BY <1>1, <1>5 DEF s

\* A chain of w+1 elements, each with the next one in it, written from 0 on.
Chain(s, w) == DOMAIN s = 0..w /\ \A k \in 0..w : s[k].end = 2 * w + 1 - k

\* The chain fits into t at each of the places, and they are apart.
FitsAt(t, w, at) ==
    /\ \A x \in DOMAIN t : /\ x < at \/ x > at + 2 * w + 1
                           /\ t[x].end < at \/ t[x].end > at + 2 * w + 1
    /\ \E n \in DOMAIN t : n < at /\ at < t[n].end

Fit(t, w, ats) ==
    /\ ats \subseteq Nat \ {None} /\ \A at \in ats : FitsAt(t, w, at)
    /\ \A x, y \in ats : x # y => x + 2 * w + 1 < y \/ y + 2 * w + 1 < x

\* The places of the new nodes.
Spots(ats, w) == {at + k : at \in ats, k \in 0..w}

Spot(n, ats, w) == \E at \in ats : \E k \in 0..w : n = at + k

LEMMA SpotsAre ==
    ASSUME NEW ats, NEW w, NEW n, n \in Spots(ats, w)
    PROVE  Spot(n, ats, w)
BY DEF Spots, Spot

\* u is t with the chain s of w+1 elements at each of the places in ats.
Grafted(t, w, s, ats, u) ==
    IsTree(t) /\ w \in Nat /\ Chain(s, w) /\ Fit(t, w, ats) /\ u = Graft(t, s, ats)

\* What that makes of the nodes.
NewNodes(t, w, s, ats, u) ==
    /\ DOMAIN u = DOMAIN t \cup Spots(ats, w)
    /\ \A m \in DOMAIN t : u[m] = t[m]
    /\ \A at \in ats, k \in 0..w :
          /\ at + k \in DOMAIN u \ DOMAIN t
          /\ u[at + k].end = at + 2 * w + 1 - k
          /\ u[at + k].name = s[k].name /\ u[at + k].text = s[k].text

LEMMA GraftNodes ==
    ASSUME NEW t, NEW w, NEW s, NEW ats, NEW u, Grafted(t, w, s, ats, u)
    PROVE  NewNodes(t, w, s, ats, u)
<1> IsTree(t) /\ w \in Nat /\ Chain(s, w) /\ Fit(t, w, ats) /\ u = Graft(t, s, ats)
  BY DEF Grafted
<1>1. /\ DOMAIN s = 0..w /\ DOMAIN t \subseteq Nat
      /\ ats \subseteq Nat
  BY TreeNodes DEF Chain, Fit
<1>2. DOMAIN u = DOMAIN t \cup Spots(ats, w)
  BY <1>1 DEF Graft, Spots
<1>3. \A m \in DOMAIN t : u[m] = t[m]
  BY DEF Graft
<1>4. ASSUME NEW at \in ats, NEW k \in 0..w, NEW m, m = at + k
      PROVE  /\ m \in DOMAIN u \ DOMAIN t
             /\ u[m] = Moved(s[k], at)
  <2>1. m \in DOMAIN u
    BY <1>2, <1>4 DEF Spots
  <2>2. m \notin DOMAIN t
    <3> SUFFICES ASSUME m \in DOMAIN t PROVE FALSE
      OBVIOUS
    <3>1. m < at \/ m > at + 2 * w + 1
      BY DEF Fit, FitsAt
    <3> QED
      BY <1>1, <1>4, <3>1
  <2>3. ASSUME NEW x \in ats
        PROVE  m - x \in DOMAIN s <=> x = at
    <3>1. x # at => x + 2 * w + 1 < at \/ at + 2 * w + 1 < x
      BY DEF Fit
    <3> QED
      BY <1>1, <1>4, <3>1
  <2>4. (CHOOSE x \in ats : m - x \in DOMAIN s) = at
    BY <2>3
  <2>5. m - at = k
    BY <1>1, <1>4
  <2>6. u[m] = LET x == CHOOSE x \in ats : m - x \in DOMAIN s
               IN  Moved(s[m - x], x)
    BY <2>1, <2>2 DEF Graft
  <2>7. u[m] = Moved(s[m - at], at)
    BY <2>4, <2>6
  <2> QED
    BY <2>1, <2>2, <2>5, <2>7
<1>5. ASSUME NEW at \in ats, NEW k \in 0..w
      PROVE  /\ u[at + k].end = at + 2 * w + 1 - k
             /\ u[at + k].name = s[k].name /\ u[at + k].text = s[k].text
  <2>1. s[k].end = 2 * w + 1 - k /\ at \in Nat
    BY <1>1 DEF Chain
  <2>2. s[k].end + at = at + 2 * w + 1 - k
    BY <2>1
  <2>3. /\ Moved(s[k], at).end = s[k].end + at
        /\ Moved(s[k], at).name = s[k].name /\ Moved(s[k], at).text = s[k].text
    BY DEF Moved
  <2> QED
    BY <1>4, <2>1, <2>2, <2>3
<1>6. \A at \in ats, k \in 0..w :
         /\ at + k \in DOMAIN u \ DOMAIN t
         /\ u[at + k] = Moved(s[k], at)
  BY <1>4
<1>7. \A at \in ats, k \in 0..w :
         /\ u[at + k].end = at + 2 * w + 1 - k
         /\ u[at + k].name = s[k].name /\ u[at + k].text = s[k].text
  BY <1>5
<1> QED
  <2>1. \A at \in ats, k \in 0..w :
           /\ at + k \in DOMAIN u \ DOMAIN t
           /\ u[at + k].end = at + 2 * w + 1 - k
           /\ u[at + k].name = s[k].name /\ u[at + k].text = s[k].text
      BY <1>6, <1>7
  <2> QED
    BY <1>2, <1>3, <2>1 DEF NewNodes

\* Of two of its nodes the new ones lie apart or in each other as the old ones do.
LEMMA GraftTree ==
    ASSUME NEW t, NEW w, NEW s, NEW ats, NEW u, Grafted(t, w, s, ats, u)
    PROVE  IsTree(u)
<1> IsTree(t) /\ w \in Nat /\ Chain(s, w) /\ Fit(t, w, ats) /\ u = Graft(t, s, ats)
  BY DEF Grafted
<1>0. NewNodes(t, w, s, ats, u)
  BY GraftNodes
<1> DEFINE New(m) == \E at \in ats, k \in 0..w : m = at + k /\ u[m].end = at + 2 * w + 1 - k
<1>1. /\ ats \subseteq Nat \ {None} /\ DOMAIN t \subseteq Nat \ {None}
      /\ \A n \in DOMAIN t : t[n].end \in Nat /\ n < t[n].end
  BY TreeNodes DEF Fit
<1>2. /\ \A m \in DOMAIN t : m \in DOMAIN u /\ u[m] = t[m]
      /\ \A m \in DOMAIN u : m \in DOMAIN t \/ New(m)
  <2>1. /\ DOMAIN u = DOMAIN t \cup Spots(ats, w)
        /\ \A m \in DOMAIN t : u[m] = t[m]
    BY <1>0 DEF NewNodes
  <2>2. ASSUME NEW m \in DOMAIN u, m \notin DOMAIN t
        PROVE  New(m)
    <3>1. PICK at \in ats, k \in 0..w : m = at + k
      BY <2>1, <2>2 DEF Spots
    <3>2. u[at + k].end = at + 2 * w + 1 - k
      BY <1>0 DEF NewNodes
    <3> QED
      BY <3>1, <3>2
  <2> QED
    BY <2>1, <2>2
<1> HIDE DEF New
<1>3. ASSUME NEW m \in DOMAIN u
      PROVE  m \in Nat \ {None} /\ u[m].end \in Nat /\ m < u[m].end
  <2>1. CASE m \in DOMAIN t
    BY <1>1, <1>2, <2>1
  <2>2. CASE m \notin DOMAIN t
    BY <1>1, <1>2, <2>2 DEF New, None
  <2> QED
    BY <2>1, <2>2
<1>4. ASSUME NEW m \in DOMAIN u, NEW n \in DOMAIN u, m < n
      PROVE  u[m].end < n \/ u[n].end < u[m].end
  <2>1. CASE m \in DOMAIN t /\ n \in DOMAIN t
    BY <1>2, <1>4, <2>1 DEF IsTree
  <2>2. CASE New(m) /\ n \in DOMAIN t
    <3>1. PICK at \in ats, k \in 0..w : m = at + k /\ u[m].end = at + 2 * w + 1 - k
      BY <2>2 DEF New
    <3>2. n < at \/ n > at + 2 * w + 1
      BY <2>2 DEF Fit, FitsAt
    <3> QED
      BY <1>1, <1>3, <1>4, <3>1, <3>2
  <2>3. CASE m \in DOMAIN t /\ New(n)
    <3>1. PICK at \in ats, k \in 0..w : n = at + k /\ u[n].end = at + 2 * w + 1 - k
      BY <2>3 DEF New
    <3>2. u[m].end < at \/ u[m].end > at + 2 * w + 1
      BY <1>2, <2>3 DEF Fit, FitsAt
    <3> QED
      BY <1>1, <1>3, <1>4, <3>1, <3>2
  <2>4. CASE New(m) /\ New(n)
    <3>1. PICK at \in ats, k \in 0..w : m = at + k /\ u[m].end = at + 2 * w + 1 - k
      BY <2>4 DEF New
    <3>2. PICK bt \in ats, j \in 0..w : n = bt + j /\ u[n].end = bt + 2 * w + 1 - j
      BY <2>4 DEF New
    <3>3. at # bt => at + 2 * w + 1 < bt \/ bt + 2 * w + 1 < at
      BY DEF Fit
    <3> QED
      BY <1>1, <1>3, <1>4, <3>1, <3>2, <3>3
  <2> QED
    BY <1>2, <2>1, <2>2, <2>3, <2>4
<1> QED
  BY <1>3, <1>4 DEF IsTree

\* Below a new node lie those of its chain that come after it.
LEMMA GraftBelow ==
    ASSUME NEW t, NEW w, NEW s, NEW ats, NEW u, Grafted(t, w, s, ats, u), NEW at \in ats, NEW k \in 0..w
    PROVE  /\ Below(u, at + k) = {at + j : j \in (k + 1)..w}
           /\ k < w => at + (k + 1) \in Kids(u, at + k)
<1> IsTree(t) /\ w \in Nat /\ Chain(s, w) /\ Fit(t, w, ats) /\ u = Graft(t, s, ats)
  BY DEF Grafted
<1>0. NewNodes(t, w, s, ats, u)
  BY GraftNodes
<1>1. /\ ats \subseteq Nat \ {None} /\ DOMAIN t \subseteq Nat \ {None}
  BY TreeNodes DEF Fit
<1>2. /\ DOMAIN u = DOMAIN t \cup Spots(ats, w)
  BY <1>0 DEF NewNodes
<1>3. \A j \in 0..w : at + j \in DOMAIN u /\ u[at + j].end = at + 2 * w + 1 - j
  BY <1>0 DEF NewNodes
<1>4. ASSUME NEW i \in 0..w, NEW m \in Below(u, at + i)
      PROVE  m \in {at + j : j \in (i + 1)..w}
  <2>1. m \in DOMAIN u /\ at + i < m /\ m < at + 2 * w + 1 - i
    BY <1>3, <1>4 DEF Below
  <2>2. m \notin DOMAIN t
    <3> SUFFICES ASSUME m \in DOMAIN t PROVE FALSE
      OBVIOUS
    <3>1. m < at \/ m > at + 2 * w + 1
      BY DEF Fit, FitsAt
    <3> QED
      BY <1>1, <2>1, <3>1
  <2>3. PICK bt \in ats, j \in 0..w : m = bt + j
    BY <1>2, <2>1, <2>2 DEF Spots
  <2>4. at # bt => at + 2 * w + 1 < bt \/ bt + 2 * w + 1 < at
    BY DEF Fit
  <2>5. at = bt /\ j > i
    BY <1>1, <2>1, <2>3, <2>4
  <2>6. j \in (i + 1)..w
    BY <2>5
  <2> QED
    BY <2>3, <2>5, <2>6
<1>5. ASSUME NEW i \in 0..w, NEW j \in (i + 1)..w
      PROVE  at + j \in Below(u, at + i)
  <2>1. j \in 0..w /\ at + i < at + j /\ at + j < at + 2 * w + 1 - i
    BY <1>1, <1>5
  <2> QED
    BY <1>3, <2>1 DEF Below
<1>6. Below(u, at + k) = {at + j : j \in (k + 1)..w}
  BY <1>4, <1>5
<1>7. ASSUME k < w PROVE at + (k + 1) \in Kids(u, at + k)
  <2>1. k + 1 \in (k + 1)..w
    BY <1>7
  <2>2. at + (k + 1) \in Below(u, at + k)
    BY <1>5, <2>1
  <2>3. ASSUME NEW n \in Below(u, at + k), at + (k + 1) \in Below(u, n)
        PROVE  FALSE
    <3>1. PICK j \in (k + 1)..w : n = at + j
      BY <1>6
    <3>2. n < at + (k + 1)
      BY <2>3 DEF Below
    <3> QED
      BY <1>1, <3>1, <3>2
  <2> QED
    BY <2>2, <2>3 DEF Kids
<1> QED
  BY <1>6, <1>7

LEMMA GraftPart ==
    ASSUME NEW t, NEW w, NEW s, NEW ats, NEW u, Grafted(t, w, s, ats, u)
    PROVE  /\ Part(t, u)
           /\ \A at \in ats, n \in DOMAIN t :
                 n < at /\ at < t[n].end => \A k \in 0..w : at + k \in Below(u, n)
<1> IsTree(t) /\ w \in Nat /\ Chain(s, w) /\ Fit(t, w, ats) /\ u = Graft(t, s, ats)
  BY DEF Grafted
<1>0. NewNodes(t, w, s, ats, u)
  BY GraftNodes
<1>1. /\ ats \subseteq Nat \ {None} /\ DOMAIN t \subseteq Nat \ {None}
      /\ \A n \in DOMAIN t : t[n].end \in Nat
  BY TreeNodes DEF Fit
<1>2. /\ DOMAIN u = DOMAIN t \cup Spots(ats, w)
      /\ \A m \in DOMAIN t : u[m] = t[m]
  BY <1>0 DEF NewNodes
<1>3. ASSUME NEW at \in ats, NEW n \in DOMAIN t, n < at /\ at < t[n].end, NEW k \in 0..w
      PROVE  at + k \in Below(u, n)
  <2>1. t[n].end > at + 2 * w + 1
    <3>1. t[n].end < at \/ t[n].end > at + 2 * w + 1
      BY DEF Fit, FitsAt
    <3> QED
      BY <1>1, <1>3, <3>1
  <2>2. n < at + k /\ at + k < t[n].end
    BY <1>1, <1>3, <2>1
  <2> QED
    BY <1>2, <2>2 DEF Below, Spots
<1>4. ASSUME NEW m \in DOMAIN u, m \notin DOMAIN t
      PROVE  /\ Below(u, m) \cap DOMAIN t = {}
             /\ \E n \in DOMAIN t : m \in Below(u, n)
  <2>1. PICK at \in ats, k \in 0..w : m = at + k
    BY <1>2, <1>4 DEF Spots
  <2>2. ASSUME NEW x \in Below(u, m), x \in DOMAIN t PROVE FALSE
    <3>1. x \in {at + j : j \in (k + 1)..w}
      BY <2>1, <2>2, GraftBelow
    <3>2. PICK j \in (k + 1)..w : x = at + j
      BY <3>1
    <3>3. j \in 0..w
      OBVIOUS
    <3> QED
      BY <1>0, <2>2, <3>2, <3>3 DEF NewNodes
  <2>3. PICK n \in DOMAIN t : n < at /\ at < t[n].end
    BY DEF Fit, FitsAt
  <2> QED
    BY <1>3, <2>1, <2>2, <2>3
<1>5. Part(t, u)
  BY <1>2, <1>4, GraftTree DEF Part
<1> QED
  BY <1>3, <1>5
LEMMA PartTrans ==
    ASSUME NEW s, NEW t, NEW u, Part(s, t), Part(t, u)
    PROVE  Part(s, u)
<1>1. /\ IsTree(s) /\ IsTree(t) /\ IsTree(u) /\ DOMAIN s \subseteq DOMAIN t /\ DOMAIN t \subseteq DOMAIN u
      /\ \A m \in DOMAIN s : s[m] = u[m]
  BY DEF Part
<1>2. \A n \in DOMAIN t : Below(t, n) = Below(u, n) \cap DOMAIN t
  BY PartBelow
<1>3. ASSUME NEW k \in DOMAIN t, NEW n \in DOMAIN s, k \in Below(t, n)
      PROVE  k \in Below(u, n) /\ Below(u, k) \subseteq Below(u, n)
  BY <1>1, <1>2, <1>3, BelowBelow
<1>4. ASSUME NEW k \in DOMAIN u \ DOMAIN s
      PROVE  /\ Below(u, k) \cap DOMAIN s = {}
             /\ \E n \in DOMAIN s : k \in Below(u, n)
  <2>1. CASE k \in DOMAIN t
    BY <1>1, <1>2, <1>3, <2>1 DEF Part
  <2>2. CASE k \notin DOMAIN t
    <3>1. Below(u, k) \cap DOMAIN t = {}
      BY <2>2 DEF Part
    <3>2. PICK n \in DOMAIN t : k \in Below(u, n)
      BY <2>2 DEF Part
    <3>3. CASE n \in DOMAIN s
      BY <1>1, <3>1, <3>2, <3>3
    <3>4. CASE n \notin DOMAIN s
      <4>1. PICK x \in DOMAIN s : n \in Below(t, x)
        BY <3>4 DEF Part
      <4>2. n \in Below(u, x)
        BY <1>3, <4>1
      <4>3. k \in Below(u, x)
        BY <1>1, <3>2, <4>2, BelowBelow
      <4> QED
        BY <1>1, <3>1, <4>3
    <3> QED
      BY <3>3, <3>4
  <2> QED
    BY <2>1, <2>2
<1> QED
  BY <1>1, <1>4 DEF Part

-----------------------------------------------------------------------------
(***************************************************************************)
(* rp_inject_soap_cap20.                                                   *)
(***************************************************************************)

Injected(t) == IF ServiceId(t) = None THEN t ELSE WithProfiles(t, ServiceId(t))

LEMMA ServiceIs ==
    ASSUME NEW t, IsTree(t), ServiceId(t) # None
    PROVE  /\ ServiceId(t) \in Kids(t, Root(t)) /\ ServiceId(t) \in Below(t, Root(t))
           /\ ServiceId(t) \in DOMAIN t /\ t[ServiceId(t)].name = "ServiceIdentification"
           /\ Root(t) \in DOMAIN t /\ Matches("Capabilities", t[Root(t)].name)
           /\ FindFlat(t, DOMAIN t \cap {Root(t)}, "Capabilities") = Root(t)
<1> DEFINE R == DOMAIN t \cap {Root(t)}
           cap == FindFlat(t, R, "Capabilities")
           svc == FindFlat(t, Kids(t, cap), "ServiceIdentification")
<1>1. ServiceId(t) = svc
  BY DEF ServiceId
<1>2. R \in SUBSET DOMAIN t /\ Kids(t, cap) \in SUBSET DOMAIN t
  BY BelowInTree
<1> HIDE DEF cap, svc
<1>3. /\ svc \in Kids(t, cap) /\ svc \in DOMAIN t
      /\ Matches("ServiceIdentification", t[svc].name)
  BY <1>1, <1>2, FlatIs DEF svc
<1>4. cap # None
  BY <1>3, BelowInTree, TreeNodes
<1>5. cap \in R /\ cap \in DOMAIN t /\ Matches("Capabilities", t[cap].name)
  BY <1>2, <1>4, FlatIs DEF cap
<1>6. cap = Root(t)
  BY <1>5
<1> QED
  BY <1>1, <1>3, <1>5, <1>6, BelowInTree DEF Matches, cap

\* All tags of t are away from the four places that begin at e, and e is a place
\* in svc, in no other node there, and in no HTTP element near its end.
ExtFits(t, svc, e) ==
    /\ e \in Nat \ {None}
    /\ \A x \in DOMAIN t : /\ x < e \/ x > e + 3
                           /\ t[x].end < e \/ t[x].end > e + 3
                           /\ t[x].name = "HTTP" => e + 3 <= t[x].end - 10 \/ e > t[x].end
    /\ svc < e /\ e < t[svc].end
    /\ \A k \in Below(t, svc) : e < k \/ t[k].end < e
    /\ LET was == Named(t, Kids(t, svc), "Profile")
       IN  \A n \in was : n < e <=> n = First(was)

LEMMA ExtPlace ==
    ASSUME NEW t, IsTree(t), Spaced(t), NEW svc \in DOMAIN t,
           t[svc].name = "ServiceIdentification"
    PROVE  ExtFits(t, svc, ExtAt(t, svc))
<1> DEFINE was == Named(t, Kids(t, svc), "Profile")
           p == FindFlat(t, Kids(t, svc), "Profile")
           e == ExtAt(t, svc)
<1>1. /\ DOMAIN t \subseteq Nat \ {None}
      /\ \A n \in DOMAIN t : t[n].end \in Nat /\ n < t[n].end
      /\ \A m, n \in DOMAIN t : m < n => t[m].end < n \/ t[n].end < t[m].end
  BY TreeNodes DEF IsTree
<1>2. \A m, n \in DOMAIN t :
         /\ m < n => m + 20 <= n
         /\ m < t[n].end => m + 20 <= t[n].end
         /\ t[m].end < n => t[m].end + 20 <= n
         /\ t[m].end < t[n].end => t[m].end + 20 <= t[n].end
  BY DEF Spaced, Apart, Room
<1>3. \A m, n \in DOMAIN t : m # t[n].end /\ (m # n => t[m].end # t[n].end)
  BY <1>1
<1>4. CASE p = None
  <2>1. e = t[svc].end - 9
    BY <1>4 DEF ExtAt, LastIn
  <2>2. was = {}
    BY <1>4, FlatIs, BelowInTree
  <2>3. e \in Nat \ {None} /\ svc < e /\ e < t[svc].end
    BY <1>1, <1>2, <2>1 DEF None
  <2>4. ASSUME NEW x \in DOMAIN t
        PROVE  /\ x < e \/ x > e + 3
               /\ t[x].end < e \/ t[x].end > e + 3
               /\ t[x].name = "HTTP" => e + 3 <= t[x].end - 10 \/ e > t[x].end
    <3>1. t[x].name = "HTTP" => x # svc
      OBVIOUS
    <3>2. x = svc => t[x].end = t[svc].end
      OBVIOUS
    <3>3. /\ x \in Nat /\ svc \in Nat /\ t[x].end \in Nat /\ t[svc].end \in Nat
          /\ x < t[svc].end => x + 20 <= t[svc].end
          /\ t[x].end < t[svc].end => t[x].end + 20 <= t[svc].end
          /\ t[svc].end < t[x].end => t[svc].end + 20 <= t[x].end
          /\ x # svc => t[x].end # t[svc].end
          /\ t[svc].end < x => t[svc].end + 20 <= x
          /\ x # t[svc].end
      BY <1>1, <1>2, <1>3
    <3> HIDE DEF e
    <3> QED
      BY <2>1, <3>1, <3>2, <3>3
  <2>5. ASSUME NEW k \in Below(t, svc)
        PROVE  e < k \/ t[k].end < e
    <3>1. k \in DOMAIN t /\ t[k].end < t[svc].end
      BY BelowEnds
    <3> QED
      BY <1>1, <1>2, <2>1, <3>1
  <2> QED
    BY <2>2, <2>3, <2>4, <2>5 DEF ExtFits
<1>5. CASE p # None
  <2>1. e = t[p].end + 1
    BY <1>5 DEF ExtAt, After
  <2>2. /\ p \in Kids(t, svc) /\ p \in Below(t, svc) /\ p \in DOMAIN t
        /\ t[p].name = "Profile" /\ p = First(was)
        /\ \A m \in was : p <= m
    BY <1>5, FlatIs, BelowInTree DEF Matches
  <2>3. t[p].end < t[svc].end /\ svc < p
    BY <2>2, BelowEnds
  <2>4. e \in Nat \ {None} /\ svc < e /\ e < t[svc].end
    BY <1>1, <1>2, <2>1, <2>2, <2>3 DEF None
  <2>5. ASSUME NEW x \in DOMAIN t
        PROVE  /\ x < e \/ x > e + 3
               /\ t[x].end < e \/ t[x].end > e + 3
               /\ t[x].name = "HTTP" => e + 3 <= t[x].end - 10 \/ e > t[x].end
    <3>1. t[x].name = "HTTP" => x # p
      BY <2>2
    <3>2. x = p => t[x].end = t[p].end
      OBVIOUS
    <3>3. /\ x \in Nat /\ p \in Nat /\ t[x].end \in Nat /\ t[p].end \in Nat
          /\ t[x].end < t[p].end => t[x].end + 20 <= t[p].end
          /\ t[p].end < t[x].end => t[p].end + 20 <= t[x].end
          /\ x # p => t[x].end # t[p].end
          /\ t[p].end < x => t[p].end + 20 <= x
          /\ x # t[p].end
      BY <1>1, <1>2, <1>3, <2>2
    <3> HIDE DEF e, p
    <3> QED
      BY <2>1, <3>1, <3>2, <3>3
  <2>6. ASSUME NEW k \in Below(t, svc)
        PROVE  e < k \/ t[k].end < e
    <3>1. k \in DOMAIN t
      BY BelowInTree
    <3>2. ASSUME k < p, t[p].end < t[k].end PROVE FALSE
      BY <1>1, <2>2, <3>1, <3>2 DEF Below, Kids
    <3>3. /\ k < p => t[k].end < p \/ t[p].end < t[k].end
          /\ p < k => t[p].end < k \/ t[k].end < t[p].end
          /\ t[p].end < k => t[p].end + 20 <= k
          /\ k \in Nat /\ p \in Nat /\ t[k].end \in Nat /\ t[p].end \in Nat /\ p < t[p].end
      BY <1>1, <1>2, <2>2, <3>1
    <3>4. k = p => t[k].end = t[p].end
      OBVIOUS
    <3> HIDE DEF e, p
    <3> QED
      BY <2>1, <3>2, <3>3, <3>4
  <2>7. ASSUME NEW n \in was
        PROVE  n < e <=> n = First(was)
    <3>1. n \in DOMAIN t /\ n \in Kids(t, svc) /\ n \in Below(t, svc) /\ p <= n
      BY <2>2, BelowInTree DEF Named
    <3>2. n < t[p].end => n = p
      <4> SUFFICES ASSUME n < t[p].end, n # p PROVE FALSE
        OBVIOUS
      <4>1. n \in Below(t, p)
        BY <1>1, <2>2, <3>1 DEF Below
      <4> QED
        BY <2>2, <3>1, <4>1 DEF Kids
    <3>3. /\ t[p].end < n => t[p].end + 20 <= n
          /\ n \in Nat /\ p \in Nat /\ t[p].end \in Nat /\ p < t[p].end /\ n # t[p].end
      BY <1>1, <1>2, <1>3, <2>2, <3>1
    <3> HIDE DEF e, p
    <3>4. n < e <=> n = p
      BY <2>1, <3>2, <3>3
    <3> QED
      BY <2>2, <3>4
  <2> QED
    BY <2>4, <2>5, <2>6, <2>7 DEF ExtFits
<1> QED
  BY <1>4, <1>5
\* u is t with one profile at e.
OneMore(t, e, text, u) ==
    /\ Part(t, u) /\ DOMAIN u = DOMAIN t \cup {e} /\ e \notin DOMAIN t
    /\ u[e].name = "Profile" /\ u[e].text = text /\ u[e].end = e + 1

LEMMA OneProfile ==
    ASSUME NEW t, IsTree(t), NEW e \in Nat \ {None}, FitsAt(t, 0, e), NEW text,
           NEW u, u = Graft(t, Profile(text), {e})
    PROVE  OneMore(t, e, text, u)
<1> DEFINE s == Profile(text)
<1>1. Chain(s, 0)
  BY DEF Chain, Profile
<1>2. Fit(t, 0, {e})
  BY DEF Fit
<1>3. Grafted(t, 0, s, {e}, u)
  BY <1>1, <1>2 DEF Grafted
<1>4. s[0].name = "Profile" /\ s[0].text = text
  BY DEF Profile
<1> HIDE DEF s
<1>5. Part(t, u)
  BY <1>3, GraftPart
<1>6. NewNodes(t, 0, s, {e}, u)
  BY <1>3, GraftNodes
<1>7. Spots({e}, 0) = {e} /\ e + 0 = e
  BY DEF Spots
<1>8. DOMAIN u = DOMAIN t \cup {e}
  BY <1>6, <1>7 DEF NewNodes
<1>9. /\ e + 0 \notin DOMAIN t /\ u[e + 0].name = s[0].name /\ u[e + 0].text = s[0].text
      /\ u[e + 0].end = e + 2 * 0 + 1 - 0
  BY <1>6 DEF NewNodes
<1> QED
  BY <1>4, <1>5, <1>7, <1>8, <1>9 DEF OneMore

\* j is t with the nodes N: the extension at e, and maybe one more profile.
InjectedAt(t, svc, e, N, j) ==
    /\ Part(t, j)
    /\ N = {e} \/ N = {e, e + 2}
    /\ N = {e} <=> EOFound(t, svc) = None
    /\ DOMAIN j = DOMAIN t \cup N /\ N \cap DOMAIN t = {}
    /\ \A m \in N : /\ m \in Nat /\ j[m].end = m + 1 /\ j[m].name = "Profile"
                    /\ j[m].text = IF m = e THEN SoapExt ELSE EOSoap
    /\ N \subseteq Kids(j, svc)

LEMMA InjectedIs ==
    ASSUME NEW t, IsTree(t), Spaced(t), NEW svc, svc = ServiceId(t), svc # None
    PROVE  \E N : InjectedAt(t, svc, ExtAt(t, svc), N, Injected(t))
<1> DEFINE e == ExtAt(t, svc)
           x == WithExt(t, svc)
           j == Injected(t)
<1>1. svc \in DOMAIN t /\ t[svc].name = "ServiceIdentification"
  BY ServiceIs
<1>2. ExtFits(t, svc, e)
  BY <1>1, ExtPlace
<1>3. j = IF EOFound(t, svc) = None THEN x ELSE WithEO(t, svc)
  BY DEF Injected, WithProfiles
<1>4. /\ x = Graft(t, Profile(SoapExt), {e})
      /\ WithEO(t, svc) = Graft(x, Profile(EOSoap), {x[e].end + 1})
  BY DEF WithExt, WithEO, After
<1>t. /\ DOMAIN t \subseteq Nat \ {None} /\ \A m \in DOMAIN t : t[m].end \in Nat
  BY TreeNodes
<1> HIDE DEF e, x, j
<1>5. /\ Part(t, x) /\ DOMAIN x = DOMAIN t \cup {e} /\ e \notin DOMAIN t /\ e \in Nat
      /\ x[e].name = "Profile" /\ x[e].text = SoapExt /\ x[e].end = e + 1
  <2>1. e \in Nat \ {None} /\ FitsAt(t, 0, e)
    BY <1>1, <1>2, <1>t DEF ExtFits, FitsAt
  <2>2. OneMore(t, e, SoapExt, x)
    BY <1>4, <2>1, OneProfile
  <2> QED
    BY <2>1, <2>2 DEF OneMore
<1>6. ASSUME NEW k \in Below(t, svc), NEW m \in {e, e + 2}
      PROVE  ~(k < m /\ m < t[k].end)
  <2>1. k \in DOMAIN t
    BY BelowInTree
  <2>2. /\ k < e \/ k > e + 3
        /\ t[k].end < e \/ t[k].end > e + 3
        /\ e < k \/ t[k].end < e
        /\ k \in Nat /\ t[k].end \in Nat /\ e \in Nat
    BY <1>2, <1>t, <2>1 DEF ExtFits
  <2> QED
    BY <2>2
<1>7. t[svc].end > e + 3 /\ svc < e /\ svc \in Nat /\ t[svc].end \in Nat
  BY <1>1, <1>2, <1>t DEF ExtFits
<1>8. CASE EOFound(t, svc) = None
  <2>1. j = x
    BY <1>3, <1>8
  <2>2. e \in Below(x, svc)
    BY <1>1, <1>5, <1>7 DEF Below, Part
  <2>3. ASSUME NEW k \in Below(x, svc), e \in Below(x, k)
        PROVE  FALSE
    <3>1. k \in DOMAIN x /\ k < e /\ e < x[k].end
      BY <2>3, BelowInTree DEF Below
    <3>2. k \in DOMAIN t
      BY <1>5, <3>1
    <3>3. k \in Below(t, svc) /\ x[k] = t[k]
      BY <1>1, <1>5, <2>3, <3>2, PartBelow DEF Part
    <3> QED
      BY <1>6, <3>1, <3>3
  <2>4. e \in Kids(x, svc)
    BY <2>2, <2>3 DEF Kids
  <2>5. InjectedAt(t, svc, e, {e}, x)
    BY <1>5, <1>8, <2>4 DEF InjectedAt
  <2> QED
    BY <2>1, <2>5 DEF e, j
<1>9. CASE EOFound(t, svc) # None
  <2> DEFINE f == e + 2
  <2>1. f = x[e].end + 1 /\ f \in Nat \ {None} /\ f # e /\ e < f
    BY <1>5 DEF None
  <2>2. j = Graft(x, Profile(EOSoap), {f})
    BY <1>3, <1>4, <1>9, <2>1
  <2>3. /\ Part(x, j) /\ DOMAIN j = DOMAIN x \cup {f} /\ f \notin DOMAIN x
        /\ j[f].name = "Profile" /\ j[f].text = EOSoap /\ j[f].end = f + 1
    <3>1. ASSUME NEW n \in DOMAIN x
          PROVE  /\ n < f \/ n > f + 1
                 /\ x[n].end < f \/ x[n].end > f + 1
      <4>1. CASE n = e
        BY <1>5, <4>1
      <4>2. CASE n \in DOMAIN t
        <5>1. /\ n < e \/ n > e + 3
              /\ t[n].end < e \/ t[n].end > e + 3
              /\ n \in Nat /\ t[n].end \in Nat /\ e \in Nat /\ x[n] = t[n]
          BY <1>2, <1>5, <1>t, <4>2 DEF ExtFits, Part
        <5> QED
          BY <5>1
      <4> QED
        BY <1>5, <4>1, <4>2
    <3>2. IsTree(x) /\ svc \in DOMAIN x /\ svc < f /\ f < x[svc].end
      BY <1>1, <1>5, <1>7 DEF Part
    <3> HIDE DEF f
    <3>3. FitsAt(x, 0, f)
      BY <2>1, <3>1, <3>2 DEF FitsAt
    <3>4. OneMore(x, f, EOSoap, j)
      BY <2>1, <2>2, <3>2, <3>3, OneProfile
    <3> QED
      BY <3>4 DEF OneMore
  <2>4. Part(t, j)
    BY <1>5, <2>3, PartTrans
  <2>5. /\ j[e] = x[e] /\ DOMAIN j = DOMAIN t \cup {e, f} /\ f \notin DOMAIN t
        /\ \A n \in DOMAIN t : j[n] = t[n]
    BY <1>5, <2>3, <2>4 DEF Part
  <2>6. ASSUME NEW m \in {e, f}
        PROVE  m \in Kids(j, svc)
    <3>1. m \in Below(j, svc)
      <4>1. svc < m /\ m < t[svc].end
        BY <1>5, <1>7
      <4> QED
        BY <1>1, <2>5, <4>1 DEF Below
    <3>2. ASSUME NEW k \in Below(j, svc), m \in Below(j, k)
          PROVE  FALSE
      <4>1. k \in DOMAIN j /\ k < m /\ m < j[k].end
        BY <3>2, BelowInTree DEF Below
      <4>2. CASE k \in DOMAIN t
        <5>1. k \in Below(t, svc) /\ j[k] = t[k]
          BY <1>1, <2>4, <2>5, <3>2, <4>2, PartBelow
        <5> QED
          BY <1>6, <4>1, <5>1
      <4>3. CASE k \in {e, f}
        <5>1. j[k].end = k + 1 /\ k \in Nat /\ m \in Nat
          BY <1>5, <2>1, <2>3, <2>5, <4>3
        <5> HIDE DEF f
        <5> QED
          BY <4>1, <5>1
      <4> QED
        BY <2>5, <4>1, <4>2, <4>3
    <3> QED
      BY <3>1, <3>2 DEF Kids
  <2>7. \A m \in {e, f} :
           /\ m \in Nat /\ j[m].end = m + 1 /\ j[m].name = "Profile"
           /\ j[m].text = IF m = e THEN SoapExt ELSE EOSoap
    BY <1>5, <2>1, <2>3, <2>5
  <2> DEFINE N == {e, f}
  <2>8. InjectedAt(t, svc, e, N, j)
    <3>1. /\ Part(t, j) /\ N = {e, e + 2} /\ N # {e} /\ N \cap DOMAIN t = {}
          /\ DOMAIN j = DOMAIN t \cup N /\ N \subseteq Kids(j, svc)
      BY <1>5, <2>1, <2>4, <2>5, <2>6
    <3> QED
      BY <1>9, <2>7, <3>1 DEF InjectedAt
  <2> QED
    BY <2>8 DEF e, j
<1> QED
  BY <1>8, <1>9
-----------------------------------------------------------------------------
(***************************************************************************)
(* The parts of the document the edits look for.                           *)
(***************************************************************************)

\* What the calls rely on: addresses hold none, and none is the proxy's.
Clean(t) ==
    /\ IsTree(t)
    /\ \A n \in DOMAIN t : /\ t[n].text # "proxy"
                           /\ Address(t, n) => \A m \in Below(t, n) : ~Address(t, m)

\* The tags in an HTTP element leave the places before its end free.
Roomy(t) ==
    \A h \in DOMAIN t : t[h].name = "HTTP" =>
        \A x \in DOMAIN t : /\ x <= t[h].end - 10 \/ x > t[h].end
                            /\ t[x].end <= t[h].end - 10 \/ x = h \/ t[x].end > t[h].end

\* The same elements are found in both.
Same(s, t) ==
    /\ Root(s) = Root(t) /\ ServiceId(s) = ServiceId(t)
    /\ Operations(s) = Operations(t)
    /\ \A op \in Operations(t) : Http(s, op) = Http(t, op)

Looked == {"Capabilities", "ServiceIdentification", "OperationsMetadata", "Operation", "HTTP"}

LEMMA RootIs ==
    ASSUME NEW t, IsTree(t)
    PROVE  /\ Root(t) \in DOMAIN t \cup {None}
           /\ \A n \in DOMAIN t : Root(t) \in DOMAIN t /\ Root(t) <= n
BY TreeNodes, FoundIs DEF Root

LEMMA OperationIs ==
    ASSUME NEW t, IsTree(t), NEW op \in Operations(t)
    PROVE  /\ op \in DOMAIN t /\ Matches("Operation", t[op].name)
           /\ op \in Kids(t, OperationsMetadata(t)) /\ op \in Below(t, OperationsMetadata(t))
           /\ OperationsMetadata(t) \in Below(t, Root(t)) /\ op \in Below(t, Root(t))
           /\ OperationsMetadata(t) # None
           /\ \/ Http(t, op) = None
              \/ /\ Http(t, op) \in Below(t, op) /\ Http(t, op) \in DOMAIN t
                 /\ t[Http(t, op)].name = "HTTP"
<1> DEFINE om == OperationsMetadata(t)
<1>1. /\ op \in Kids(t, om) /\ op \in Below(t, om) /\ op \in DOMAIN t
      /\ Matches("Operation", t[op].name)
  BY BelowInTree DEF Operations, Named
<1>2. om \in DOMAIN t /\ om # None
  BY <1>1, BelowInTree, TreeNodes
<1>3. om = FindDeep(t, Root(t), "OperationsMetadata")
  BY DEF OperationsMetadata
<1> HIDE DEF om
<1>4. om \in Below(t, Root(t))
  BY <1>2, <1>3, DeepIs
<1>5. op \in Below(t, Root(t))
  BY <1>1, <1>4, BelowBelow
<1> DEFINE h == Http(t, op)
<1>6. h = FindDeep(t, op, "HTTP")
  BY DEF Http
<1> HIDE DEF h
<1>7. h = None \/ (h \in Below(t, op) /\ h \in DOMAIN t /\ Matches("HTTP", t[h].name))
  BY <1>6, DeepIs
<1>8. h = None \/ (h \in Below(t, op) /\ h \in DOMAIN t /\ t[h].name = "HTTP")
  BY <1>7 DEF Matches
<1> QED
  BY <1>1, <1>2, <1>4, <1>5, <1>8 DEF om, h

\* Two operations have no node in common.
LEMMA OperationsApart ==
    ASSUME NEW t, IsTree(t), NEW o \in Operations(t), NEW p \in Operations(t),
           NEW n \in Below(t, o) \cup {o}, n \in Below(t, p) \cup {p}
    PROVE  o = p
<1> DEFINE om == OperationsMetadata(t)
<1>1. /\ o \in Kids(t, om) /\ p \in Kids(t, om) /\ o \in Below(t, om) /\ p \in Below(t, om)
      /\ o \in DOMAIN t /\ p \in DOMAIN t
  BY OperationIs
<1> HIDE DEF om
<1>2. n \in Whole(t, o) /\ n \in Whole(t, p)
  BY <1>1, WholeIs
<1>3. o # p => p \in Below(t, o)
  BY <1>1, <1>2, KidsApart
<1> QED
  BY <1>1, <1>3 DEF Kids

\* Nothing changes for the searches if all that is added has another name.
LEMMA SameLooked ==
    ASSUME NEW s, NEW t, Part(s, t), \A k \in DOMAIN t \ DOMAIN s : t[k].name \notin Looked
    PROVE  Same(s, t)
<1>1. IsTree(s) /\ IsTree(t) /\ DOMAIN s \subseteq DOMAIN t /\ \A m \in DOMAIN s : s[m] = t[m]
  BY DEF Part
<1>2. ASSUME NEW name \in Looked
      PROVE  \A k \in DOMAIN t \ DOMAIN s : ~Matches(name, t[k].name)
  BY DEF Looked, Matches
<1>3. ASSUME NEW n \in DOMAIN s \cup {None}, NEW name \in Looked
      PROVE  /\ FindDeep(s, n, name) = FindDeep(t, n, name)
             /\ Named(s, Kids(s, n), name) = Named(t, Kids(t, n), name)
             /\ FindFlat(s, Kids(s, n), name) = FindFlat(t, Kids(t, n), name)
  BY <1>2, SameNamed DEF FindDeep, FindFlat
<1>4. Root(s) = Root(t) /\ Root(s) \in DOMAIN s \cup {None}
  BY <1>1, SameRoot, RootIs
<1>5. /\ OperationsMetadata(s) = OperationsMetadata(t)
      /\ OperationsMetadata(s) \in DOMAIN s \cup {None}
  <2>1. "OperationsMetadata" \in Looked
    BY DEF Looked
  <2>2. FindDeep(s, Root(s), "OperationsMetadata") = FindDeep(t, Root(s), "OperationsMetadata")
    BY <1>3, <1>4, <2>1
  <2>3. FindDeep(s, Root(s), "OperationsMetadata") \in DOMAIN s \cup {None}
    BY <1>1, DeepIs
  <2> QED
    BY <1>4, <2>2, <2>3 DEF OperationsMetadata
<1>6. Operations(s) = Operations(t)
  BY <1>3, <1>5 DEF Operations, Looked
<1>7. ASSUME NEW op \in Operations(t)
      PROVE  Http(s, op) = Http(t, op)
  <2>1. op \in DOMAIN s /\ "HTTP" \in Looked
    BY <1>1, <1>6, OperationIs DEF Looked
  <2> QED
    BY <1>3, <2>1 DEF Http
<1>8. ServiceId(s) = ServiceId(t)
  <2> DEFINE r == Root(s)
             cs == FindFlat(s, DOMAIN s \cap {r}, "Capabilities")
             ct == FindFlat(t, DOMAIN t \cap {r}, "Capabilities")
  <2>1. DOMAIN s \cap {r} = DOMAIN t \cap {r}
    BY <1>1, <1>4, TreeNodes
  <2>2. Named(s, DOMAIN s \cap {r}, "Capabilities") = Named(t, DOMAIN t \cap {r}, "Capabilities")
    BY <1>1, <2>1 DEF Named
  <2>3. cs = ct
    BY <2>2 DEF FindFlat
  <2>4. cs \in DOMAIN s \cup {None}
    <3>1. DOMAIN s \cap {r} \in SUBSET DOMAIN s
      OBVIOUS
    <3> QED
      BY <1>1, <3>1, FlatIs
  <2> HIDE DEF cs, ct
  <2>5. "ServiceIdentification" \in Looked
    BY DEF Looked
  <2>6. FindFlat(s, Kids(s, cs), "ServiceIdentification") = FindFlat(t, Kids(t, cs), "ServiceIdentification")
    BY <1>3, <2>4, <2>5
  <2>7. /\ ServiceId(s) = FindFlat(s, Kids(s, cs), "ServiceIdentification")
        /\ ServiceId(t) = FindFlat(t, Kids(t, ct), "ServiceIdentification")
    BY <1>4 DEF ServiceId, cs, ct
  <2> QED
    BY <2>3, <2>6, <2>7
<1> QED
  BY <1>4, <1>6, <1>7, <1>8 DEF Same

-----------------------------------------------------------------------------
(***************************************************************************)
(* rp_delete_nonsoap.                                                      *)
(***************************************************************************)

\* The two elements a call deletes.
Both(t, op) == {FindDeep(t, Http(t, op), "Get"), FindDeep(t, Http(t, op), "Post")}

Gone(t) == {n \in DOMAIN t : \E op \in Operations(t) : \E g \in Both(t, op) : n \in Whole(t, g)}

LEMMA BothIs ==
    ASSUME NEW t, IsTree(t), NEW op \in Operations(t), NEW g \in Both(t, op), g # None
    PROVE  /\ Http(t, op) \in Below(t, op) /\ g \in Below(t, Http(t, op))
           /\ g \in DOMAIN t /\ Address(t, g)
           /\ Http(t, op) \notin Whole(t, g) /\ Whole(t, g) \subseteq Below(t, Http(t, op))
           /\ Whole(t, g) \subseteq Below(t, op)
<1> DEFINE h == Http(t, op)
<1>1. Matches("Get", t[g].name) \/ Matches("Post", t[g].name)
  BY DeepIs DEF Both
<1>2. g \in Below(t, h) /\ g \in DOMAIN t /\ Address(t, g)
  <2>1. g \in Below(t, h) /\ g \in DOMAIN t
    BY DeepIs DEF Both
  <2> QED
    BY <1>1, <2>1 DEF Matches, Address
<1>3. h \in DOMAIN t /\ h # None
  BY <1>2, BelowInTree, TreeNodes
<1>4. h \in Below(t, op)
  BY <1>3, OperationIs
<1>5. Whole(t, g) \subseteq Below(t, h)
  BY <1>2, WholeIs, BelowBelow
<1>6. h \notin Below(t, h)
  BY <1>3, BelowEnds, TreeNodes
<1> QED
  BY <1>2, <1>4, <1>5, <1>6, BelowBelow

\* What one call leaves.
LEMMA DeleteOne ==
    ASSUME NEW t, Clean(t), NEW op \in Operations(t)
    PROVE  DOMAIN DeleteNonSoap(t, op) =
               {n \in DOMAIN t : \A g \in Both(t, op) : n \notin Whole(t, g)}
<1> DEFINE h == Http(t, op)
           g == FindDeep(t, h, "Get")
           q == FindDeep(t, h, "Post")
           s == Without(t, Whole(t, g))
<1> IsTree(t)
  BY DEF Clean
<1>1. g \in Both(t, op) /\ q \in Both(t, op) /\ Both(t, op) = {g, q}
  BY DEF Both
<1>2. Part(s, t) /\ DOMAIN s = DOMAIN t \ Whole(t, g)
  <2>1. ASSUME NEW x \in Whole(t, g)
        PROVE  /\ Below(t, x) \subseteq Whole(t, g)
               /\ \E n \in DOMAIN t \ Whole(t, g) : x \in Below(t, n)
    <3>1. g # None
      BY <2>1, BelowInTree, TreeNodes
    <3>2. h \in DOMAIN t /\ h \notin Whole(t, g) /\ x \in Below(t, h)
      BY <1>1, <2>1, <3>1, BothIs, BelowInTree
    <3> QED
      BY <2>1, <3>2, WholeIs
  <2>2. Whole(t, g) \in SUBSET DOMAIN t
    BY BelowInTree
  <2> HIDE DEF g
  <2> QED
    BY <2>1, <2>2, WithoutPart
<1>3. h \in DOMAIN s \cup {None}
  <2>1. h \in DOMAIN t \cup {None}
    BY OperationIs
  <2>2. g = None => Whole(t, g) = {}
    BY BelowInTree, TreeNodes
  <2> QED
    BY <1>1, <1>2, <2>1, <2>2, BothIs
<1>4. q # None => q \in DOMAIN s
  <2> SUFFICES ASSUME q # None, q \in Whole(t, g) PROVE FALSE
    BY <1>1, <1>2, BothIs
  <2>1. g # None
    BY BelowInTree, TreeNodes
  <2>2. Address(t, g) /\ Address(t, q) /\ g \in DOMAIN t /\ q \in DOMAIN t
    BY <1>1, <2>1, BothIs
  <2>3. q # g
    <3>1. Matches("Get", t[g].name) /\ Matches("Post", t[q].name)
      BY <2>1, DeepIs
    <3> QED
      BY <3>1 DEF Matches
  <2>4. q \in Below(t, g)
    BY <2>2, <2>3, WholeIs
  <2> QED
    BY <2>2, <2>4 DEF Clean
<1>5. FindDeep(s, h, "Post") = q
  <2> HIDE DEF s, h
  <2> QED
    BY <1>2, <1>3, <1>4, SameDeep
<1>6. Whole(s, q) = Whole(t, q) \cap DOMAIN s
  <2> HIDE DEF s, q
  <2> QED
    BY <1>2, <1>4, PartBelow
<1>7. DeleteNonSoap(t, op) = Without(s, Whole(s, FindDeep(s, h, "Post")))
  BY DEF DeleteNonSoap, DeleteNamed
<1>8. DOMAIN DeleteNonSoap(t, op) = DOMAIN s \ Whole(s, q)
  BY <1>5, <1>7 DEF Without
<1> HIDE DEF h, g, q, s
<1> QED
  BY <1>1, <1>2, <1>6, <1>8
LEMMA DeletedNodes ==
    ASSUME NEW t, Clean(t)
    PROVE  Deleted(t) = Without(t, Gone(t)) /\ Gone(t) \subseteq DOMAIN t
<1>1. ASSUME NEW n \in DOMAIN t, NEW op \in Operations(t)
      PROVE  n \notin DOMAIN DeleteNonSoap(t, op) <=> \E g \in Both(t, op) : n \in Whole(t, g)
  BY DeleteOne
<1>2. {n \in DOMAIN t : \E op \in Operations(t) : n \notin DOMAIN DeleteNonSoap(t, op)} = Gone(t)
  BY <1>1 DEF Gone
<1> QED
  BY <1>2 DEF Deleted, Gone

\* A node that goes lies in an address of an operation, and all below it goes too.
LEMMA GoneIs ==
    ASSUME NEW t, IsTree(t), NEW n \in Gone(t)
    PROVE  \E op \in Operations(t) : \E g \in Both(t, op) :
              /\ g # None /\ n \in Whole(t, g) /\ n \in Below(t, op) /\ n \in Below(t, Http(t, op))
              /\ Below(t, n) \subseteq Gone(t)
<1>p. PICK op \in Operations(t) : \E g \in Both(t, op) : n \in Whole(t, g)
  BY DEF Gone
<1>1. PICK g \in Both(t, op) : n \in Whole(t, g)
  BY <1>p
<1>2. g # None
  BY <1>1, BelowInTree, TreeNodes
<1>3. Below(t, n) \subseteq Whole(t, g)
  BY <1>1, WholeIs
<1>4. Below(t, n) \subseteq Gone(t)
  BY <1>3, BelowInTree DEF Gone
<1> QED
  BY <1>1, <1>2, <1>4, BothIs

\* Operations and their HTTP stay, and so does what is found elsewhere.
LEMMA Stays ==
    ASSUME NEW t, IsTree(t)
    PROVE  /\ \A op \in Operations(t) : op \notin Gone(t) /\ Http(t, op) \notin Gone(t)
           /\ OperationsMetadata(t) \notin Gone(t) /\ Root(t) \notin Gone(t)
           /\ ServiceId(t) \notin Gone(t)
           /\ ServiceId(t) # None =>
                 \A n \in Kids(t, ServiceId(t)) : n \notin Gone(t)
<1>1. ASSUME NEW op \in Operations(t), op \in Gone(t)
      PROVE  FALSE
  <2>1. PICK o \in Operations(t) : op \in Below(t, o)
    BY <1>1, GoneIs
  <2>2. op = o
    BY <2>1, OperationsApart
  <2> QED
    BY <2>1, <2>2, BelowEnds
<1>2. ASSUME NEW op \in Operations(t), Http(t, op) \in Gone(t)
      PROVE  FALSE
  <2> DEFINE h == Http(t, op)
  <2>p. PICK o \in Operations(t) : \E g \in Both(t, o) :
           g # None /\ h \in Whole(t, g) /\ h \in Below(t, o)
    BY <1>2, GoneIs
  <2>1. PICK g \in Both(t, o) : g # None /\ h \in Whole(t, g) /\ h \in Below(t, o)
    BY <2>p
  <2>2. h # None
    BY <2>1, BelowInTree, TreeNodes
  <2>3. h \in Below(t, op)
    BY <2>2, OperationIs
  <2>4. op = o
    <3> HIDE DEF h
    <3> QED
      BY <2>1, <2>3, OperationsApart
  <2> QED
    BY <2>1, <2>4, BothIs
<1>3. ASSUME NEW n \in Gone(t)
      PROVE  \E op \in Operations(t) : /\ n \in Below(t, op) /\ op < n /\ Root(t) < op
                                       /\ OperationsMetadata(t) < op
                                       /\ op \in Below(t, Root(t))
                                       /\ n \in Nat /\ op \in Nat
  <2>1. PICK op \in Operations(t) : n \in Below(t, op)
    BY GoneIs
  <2>2. op \in Below(t, OperationsMetadata(t)) /\ op \in Below(t, Root(t))
    BY OperationIs
  <2> QED
    BY <2>1, <2>2, BelowEnds
<1>4. OperationsMetadata(t) \notin Gone(t) /\ Root(t) \notin Gone(t)
  BY <1>3
<1>5. CASE ServiceId(t) = None
  <2>1. ServiceId(t) \notin Gone(t)
    BY <1>5, TreeNodes DEF Gone
  <2> QED
    BY <1>1, <1>2, <1>4, <1>5, <2>1
<1>6. CASE ServiceId(t) # None
  <2> DEFINE svc == ServiceId(t)
  <2>1. /\ svc \in Kids(t, Root(t)) /\ svc \in Below(t, Root(t)) /\ svc \in DOMAIN t
        /\ t[svc].name = "ServiceIdentification"
    BY <1>6, ServiceIs
  <2> HIDE DEF svc
  <2>2. ASSUME NEW op \in Operations(t)
        PROVE  svc \notin Below(t, op) /\ svc # op /\ op \in DOMAIN t
    <3>1. op \in Below(t, Root(t)) /\ op \in DOMAIN t /\ Matches("Operation", t[op].name)
      BY OperationIs
    <3> QED
      BY <2>1, <3>1 DEF Kids, Matches
  <2>3. svc \notin Gone(t)
    BY <1>3, <2>2
  <2>4. ASSUME NEW n \in Kids(t, svc), n \in Gone(t)
        PROVE  FALSE
    <3>1. PICK op \in Operations(t) : n \in Below(t, op)
      BY <1>3, <2>4
    <3>2. n \in Below(t, svc)
      BY BelowInTree
    <3>3. n \in Whole(t, svc) /\ n \in Whole(t, op)
      BY <2>1, <2>2, <3>1, <3>2, WholeIs
    <3>4. op \in Below(t, svc)
      BY <2>1, <2>2, <3>3, Overlap
    <3> QED
      BY <3>1, <3>4 DEF Kids
  <2> QED
    BY <1>1, <1>2, <1>4, <2>3, <2>4 DEF svc
<1> QED
  BY <1>5, <1>6

LEMMA DeletedPart ==
    ASSUME NEW t, Clean(t)
    PROVE  Part(Deleted(t), t) /\ DOMAIN Deleted(t) = DOMAIN t \ Gone(t)
<1> IsTree(t)
  BY DEF Clean
<1>1. Deleted(t) = Without(t, Gone(t)) /\ Gone(t) \in SUBSET DOMAIN t
  BY DeletedNodes
<1>2. ASSUME NEW n \in Gone(t)
      PROVE  /\ Below(t, n) \subseteq Gone(t)
             /\ \E m \in DOMAIN t \ Gone(t) : n \in Below(t, m)
  <2>1. PICK op \in Operations(t) : n \in Below(t, op) /\ Below(t, n) \subseteq Gone(t)
    BY GoneIs
  <2>2. op \in DOMAIN t /\ op \notin Gone(t)
    BY OperationIs, Stays
  <2> QED
    BY <2>1, <2>2
<1> QED
  BY <1>1, <1>2, WithoutPart

\* What the edits look for is the same afterwards.
LEMMA DeletedSame ==
    ASSUME NEW t, Clean(t)
    PROVE  /\ Same(Deleted(t), t)
           /\ Profiles(Deleted(t)) = Profiles(t)
<1> IsTree(t)
  BY DEF Clean
<1> DEFINE d == Deleted(t)
<1>1. Part(d, t) /\ DOMAIN d = DOMAIN t \ Gone(t)
  BY DeletedPart
<1> HIDE DEF d
<1>2. IsTree(d) /\ DOMAIN d \subseteq DOMAIN t /\ \A m \in DOMAIN d : d[m] = t[m]
  BY <1>1 DEF Part
<1>3. Root(d) = Root(t) /\ Root(t) \in DOMAIN d \cup {None}
  BY <1>1, <1>2, SameRoot, RootIs
<1>4. /\ OperationsMetadata(d) = OperationsMetadata(t)
      /\ OperationsMetadata(t) \in DOMAIN d \cup {None}
  <2> DEFINE om == OperationsMetadata(t)
  <2>1. om = FindDeep(t, Root(t), "OperationsMetadata")
    BY DEF OperationsMetadata
  <2>2. om \in DOMAIN t \cup {None} /\ om \notin Gone(t)
    BY <2>1, DeepIs, Stays
  <2> HIDE DEF om
  <2>3. FindDeep(d, Root(t), "OperationsMetadata") = om
    BY <1>1, <1>3, <2>1, <2>2, SameDeep
  <2> QED
    BY <1>1, <1>3, <2>2, <2>3 DEF OperationsMetadata, om
<1>5. Operations(d) = Operations(t)
  <2> DEFINE om == OperationsMetadata(t)
  <2>1. Kids(d, om) = Kids(t, om) \cap DOMAIN d
    BY <1>1, <1>4, PartBelow
  <2>2. \A op \in Operations(t) : op \in DOMAIN d
    BY <1>1, OperationIs, Stays
  <2>3. /\ Operations(d) = Named(d, Kids(d, om), "Operation")
        /\ Operations(t) = Named(t, Kids(t, om), "Operation")
    BY <1>4 DEF Operations
  <2> HIDE DEF om
  <2> QED
    BY <1>2, <2>1, <2>2, <2>3 DEF Named
<1>6. ASSUME NEW op \in Operations(t)
      PROVE  Http(d, op) = Http(t, op)
  <2> DEFINE h == Http(t, op)
  <2>1. op \in DOMAIN d
    BY <1>1, OperationIs, Stays
  <2>2. h = FindDeep(t, op, "HTTP") /\ Http(d, op) = FindDeep(d, op, "HTTP")
    BY DEF Http
  <2>3. h # None => h \in DOMAIN d
    BY <1>1, OperationIs, Stays
  <2> HIDE DEF h
  <2>4. FindDeep(d, op, "HTTP") = h
    BY <1>1, <2>1, <2>2, <2>3, SameDeep
  <2> QED
    BY <2>2, <2>4 DEF h
<1>7. /\ ServiceId(d) = ServiceId(t)
      /\ ServiceId(t) \in DOMAIN d \cup {None}
  <2> DEFINE r == Root(t)
             ct == FindFlat(t, DOMAIN t \cap {r}, "Capabilities")
  <2>1. DOMAIN d \cap {r} = DOMAIN t \cap {r}
    BY <1>2, <1>3, TreeNodes
  <2>2. Named(d, DOMAIN d \cap {r}, "Capabilities") = Named(t, DOMAIN t \cap {r}, "Capabilities")
    BY <1>2, <2>1 DEF Named
  <2>3. FindFlat(d, DOMAIN d \cap {r}, "Capabilities") = ct
    BY <2>2 DEF FindFlat
  <2>4. ct \in DOMAIN d \cup {None}
    <3>1. DOMAIN t \cap {r} \in SUBSET DOMAIN t
      OBVIOUS
    <3> QED
      BY <2>1, <3>1, FlatIs
  <2>5. /\ ServiceId(d) = FindFlat(d, Kids(d, ct), "ServiceIdentification")
        /\ ServiceId(t) = FindFlat(t, Kids(t, ct), "ServiceIdentification")
    BY <1>3, <2>3 DEF ServiceId
  <2> HIDE DEF ct
  <2>6. ServiceId(t) # None => ServiceId(t) \in DOMAIN d
    BY <1>1, ServiceIs, Stays
  <2> DEFINE svc == ServiceId(t)
  <2>7. svc = FindFlat(t, Kids(t, ct), "ServiceIdentification")
    BY <2>5
  <2> HIDE DEF svc
  <2>8. FindFlat(d, Kids(d, ct), "ServiceIdentification") = svc
    BY <1>1, <2>4, <2>6, <2>7, SameFlat DEF svc
  <2> QED
    BY <2>5, <2>6, <2>8 DEF svc
<1>8. Profiles(d) = Profiles(t)
  <2> DEFINE svc == ServiceId(t)
  <2>1. Kids(d, svc) = Kids(t, svc) \cap DOMAIN d
    BY <1>1, <1>7, PartBelow
  <2>2. \A n \in Kids(t, svc) : n \in DOMAIN d
    <3>1. svc = None => Kids(t, svc) = {}
      BY BelowInTree, TreeNodes
    <3>2. svc # None => \A n \in Kids(t, svc) : n \in DOMAIN t /\ n \notin Gone(t)
      BY Stays, BelowInTree
    <3> QED
      BY <1>1, <3>1, <3>2
  <2>3. /\ Profiles(d) = Named(d, Kids(d, svc), "Profile")
        /\ Profiles(t) = Named(t, Kids(t, svc), "Profile")
    BY <1>7 DEF Profiles
  <2> HIDE DEF svc
  <2> QED
    BY <1>2, <2>1, <2>2, <2>3 DEF Named
<1> QED
  BY <1>3, <1>5, <1>6, <1>7, <1>8 DEF Same, d

\* Of the addresses below an operation the first Get and the first Post of its
\* HTTP go.
LEMMA DeletedAddresses ==
    ASSUME NEW t, Clean(t), NEW op \in Operations(t), NEW name \in {"Get", "Post"},
           NEW n \in Below(t, op), t[n].name = name
    PROVE  n \in Gone(t) <=> n = FindDeep(t, Http(t, op), name)
<1> IsTree(t)
  BY DEF Clean
<1>1. n \in DOMAIN t /\ Address(t, n)
  BY BelowInTree DEF Address
<1>2. ASSUME n = FindDeep(t, Http(t, op), name)
      PROVE  n \in Gone(t)
  <2>1. n \in Both(t, op) /\ n \in Whole(t, n)
    BY <1>1, <1>2 DEF Both, Whole
  <2> QED
    BY <1>1, <2>1 DEF Gone
<1>3. ASSUME n \in Gone(t)
      PROVE  n = FindDeep(t, Http(t, op), name)
  <2>p. PICK o \in Operations(t) : \E g \in Both(t, o) :
           g # None /\ n \in Whole(t, g) /\ n \in Below(t, o)
    BY <1>3, GoneIs
  <2>1. PICK g \in Both(t, o) : g # None /\ n \in Whole(t, g) /\ n \in Below(t, o)
    BY <2>p
  <2>2. o = op
    BY <2>1, OperationsApart
  <2>3. g \in DOMAIN t /\ Address(t, g)
    BY <2>1, BothIs
  <2>4. n = g
    BY <1>1, <2>1, <2>3, WholeIs DEF Clean
  <2>5. /\ g = FindDeep(t, Http(t, op), "Get") => t[g].name = "Get"
        /\ g = FindDeep(t, Http(t, op), "Post") => t[g].name = "Post"
    BY <2>1, DeepIs DEF Matches
  <2> QED
    BY <2>1, <2>2, <2>4, <2>5 DEF Both
<1> QED
  BY <1>2, <1>3
-----------------------------------------------------------------------------
(***************************************************************************)
(* The document before the address of the proxy is added.                  *)
(***************************************************************************)

Ready(t, del) == IF del THEN Deleted(Injected(t)) ELSE Injected(t)

LEMMA PartClean ==
    ASSUME NEW s, NEW t, Part(s, t)
    PROVE  /\ Clean(t) => Clean(s)
           /\ Roomy(t) => Roomy(s)
<1>1. IsTree(s) /\ DOMAIN s \subseteq DOMAIN t /\ \A m \in DOMAIN s : s[m] = t[m]
  BY DEF Part
<1>2. \A n \in DOMAIN s : Below(s, n) = Below(t, n) \cap DOMAIN s
  BY PartBelow
<1>3. ASSUME Clean(t) PROVE Clean(s)
  BY <1>1, <1>2, <1>3 DEF Clean, Address
<1>4. ASSUME Roomy(t) PROVE Roomy(s)
  BY <1>1, <1>4 DEF Roomy
<1> QED
  BY <1>3, <1>4

LEMMA AnswerIs ==
    ASSUME NEW t \in Answers
    PROVE  IsTree(t) /\ Spaced(t) /\ Clean(t) /\ Roomy(t)
<1>1. IsTree(t) /\ Spaced(t) /\ Clean(t)
  BY AnswersAssumption DEF Clean
<1>2. ASSUME NEW h \in DOMAIN t, NEW x \in DOMAIN t
      PROVE  /\ x <= t[h].end - 10 \/ x > t[h].end
             /\ t[x].end <= t[h].end - 10 \/ x = h \/ t[x].end > t[h].end
  <2>1. /\ x \in Nat /\ h \in Nat /\ t[x].end \in Nat /\ t[h].end \in Nat
        /\ x < t[x].end /\ h < t[h].end
    BY <1>1, TreeNodes
  <2>2. /\ x < t[h].end => x + 20 <= t[h].end
        /\ t[x].end < t[h].end => t[x].end + 20 <= t[h].end
    BY <1>1 DEF Spaced, Apart, Room
  <2>3. /\ x < h => t[x].end < h \/ t[h].end < t[x].end
        /\ h < x => t[h].end < x \/ t[x].end < t[h].end
    BY <1>1 DEF IsTree
  <2> QED
    BY <2>1, <2>2, <2>3
<1> QED
  BY <1>1, <1>2 DEF Roomy

LEMMA InjectedKeeps ==
    ASSUME NEW t \in Answers, NEW j, j = Injected(t)
    PROVE  /\ Part(t, j) /\ Same(j, t) /\ Clean(j) /\ Roomy(j)
           /\ \A k \in DOMAIN j \ DOMAIN t : j[k].name = "Profile"
<1>t. IsTree(t) /\ Spaced(t) /\ Clean(t) /\ Roomy(t)
  BY AnswerIs
<1>1. CASE ServiceId(t) = None
  <2>1. j = t
    BY <1>1 DEF Injected
  <2> QED
    BY <1>t, <2>1, PartOfSelf DEF Same
<1>2. CASE ServiceId(t) # None
  <2> DEFINE svc == ServiceId(t)
             e == ExtAt(t, svc)
  <2>1. PICK N : InjectedAt(t, svc, e, N, j)
    BY <1>t, <1>2, InjectedIs
  <2>2. svc \in DOMAIN t /\ t[svc].name = "ServiceIdentification"
    BY <1>t, <1>2, ServiceIs
  <2>3. ExtFits(t, svc, e)
    BY <1>t, <2>2, ExtPlace
  <2> HIDE DEF svc, e
  <2>4. /\ Part(t, j) /\ DOMAIN j = DOMAIN t \cup N
        /\ N = {e} \/ N = {e, e + 2}
        /\ \A m \in N : /\ m \notin DOMAIN t /\ j[m].end = m + 1 /\ j[m].name = "Profile"
                        /\ j[m].text = IF m = e THEN SoapExt ELSE EOSoap
    BY <2>1 DEF InjectedAt
  <2>5. IsTree(j) /\ \A m \in DOMAIN t : j[m] = t[m]
    BY <2>4 DEF Part
  <2>6. Same(j, t)
    <3>1. Same(t, j)
      BY <2>4, SameLooked DEF Looked
    <3> QED
      BY <3>1 DEF Same
  <2>7. Clean(j)
    <3>1. ASSUME NEW n \in DOMAIN j
          PROVE  j[n].text # "proxy"
      BY <1>t, <2>4, <2>5 DEF Clean, SoapExt, EOSoap
    <3>2. ASSUME NEW n \in DOMAIN j, Address(j, n), NEW m \in Below(j, n), Address(j, m)
          PROVE  FALSE
      <4>1. n \in DOMAIN t /\ m \in DOMAIN t /\ Address(t, n) /\ Address(t, m)
        BY <2>4, <2>5, <3>2 DEF Address
      <4>2. m \in Below(t, n)
        BY <2>4, <3>2, <4>1, PartBelow
      <4> QED
        BY <1>t, <4>1, <4>2 DEF Clean
    <3> QED
      BY <2>5, <3>1, <3>2 DEF Clean
  <2>8. Roomy(j)
    <3>1. ASSUME NEW h \in DOMAIN j, j[h].name = "HTTP", NEW x \in DOMAIN j
          PROVE  /\ x <= j[h].end - 10 \/ x > j[h].end
                 /\ j[x].end <= j[h].end - 10 \/ x = h \/ j[x].end > j[h].end
      <4>1. h \in DOMAIN t /\ j[h] = t[h] /\ t[h].end \in Nat
        BY <1>t, <2>4, <2>5, <3>1, TreeNodes
      <4>2. CASE x \in DOMAIN t
        BY <1>t, <2>5, <3>1, <4>1, <4>2 DEF Roomy
      <4>3. CASE x \in N
        <5>1. e \in Nat /\ (e + 3 <= t[h].end - 10 \/ e > t[h].end)
          BY <2>3, <3>1, <4>1 DEF ExtFits
        <5>2. j[x].end = x + 1 /\ (x = e \/ x = e + 2)
          BY <2>4, <4>3
        <5> QED
          BY <4>1, <5>1, <5>2
      <4> QED
        BY <2>4, <4>2, <4>3
    <3> QED
      BY <3>1 DEF Roomy
  <2> QED
    BY <2>4, <2>6, <2>7, <2>8
<1> QED
  BY <1>1, <1>2

LEMMA ReadyKeeps ==
    ASSUME NEW t \in Answers, NEW del \in BOOLEAN, NEW d, d = Ready(t, del)
    PROVE  /\ Part(d, Injected(t)) /\ Clean(d) /\ Roomy(d)
           /\ Same(d, t) /\ Profiles(d) = Profiles(Injected(t))
           /\ DOMAIN d = DOMAIN Injected(t) \ (IF del THEN Gone(Injected(t)) ELSE {})
<1> DEFINE j == Injected(t)
<1>1. /\ Part(t, j) /\ Same(j, t) /\ Clean(j) /\ Roomy(j) /\ IsTree(j)
  BY InjectedKeeps DEF Clean
<1>2. CASE ~del
  <2>1. d = j
    BY <1>2 DEF Ready
  <2> HIDE DEF j
  <2> QED
    BY <1>1, <1>2, <2>1, PartOfSelf DEF j
<1>3. CASE del
  <2>1. d = Deleted(j)
    BY <1>3 DEF Ready
  <2> HIDE DEF j
  <2>2. Part(d, j) /\ DOMAIN d = DOMAIN j \ Gone(j)
    BY <1>1, <2>1, DeletedPart
  <2>3. Same(d, j) /\ Profiles(d) = Profiles(j)
    BY <1>1, <2>1, DeletedSame
  <2>4. Clean(d) /\ Roomy(d)
    BY <1>1, <2>2, PartClean
  <2>5. Same(d, t)
    BY <1>1, <2>3 DEF Same
  <2> QED
    BY <1>3, <2>2, <2>3, <2>4, <2>5 DEF j
<1> QED
  BY <1>2, <1>3

-----------------------------------------------------------------------------
(***************************************************************************)
(* sp_add_soapurl.                                                         *)
(***************************************************************************)

Ats(t) == UNION {AddSoapUrl(t, op) : op \in Operations(t)}

LEMMA AtsAre ==
    ASSUME NEW t, NEW at
    PROVE  at \in Ats(t) <=> \E op \in Operations(t) :
                                Http(t, op) # None /\ at = t[Http(t, op)].end - 9
BY DEF Ats, AddSoapUrl, LastIn

LEMMA AddedIs ==
    ASSUME NEW t, Clean(t), Roomy(t)
    PROVE  Grafted(t, 3, SoapPost, Ats(t), Added(t))
<1> IsTree(t)
  BY DEF Clean
<1>1. Chain(SoapPost, 3)
  BY DEF Chain, SoapPost
<1>2. ASSUME NEW at \in Ats(t)
      PROVE  \E h \in DOMAIN t : t[h].name = "HTTP" /\ at = t[h].end - 9
  BY AtsAre, OperationIs
<1>3. /\ DOMAIN t \subseteq Nat \ {None}
      /\ \A n \in DOMAIN t : t[n].end \in Nat /\ n < t[n].end
  BY TreeNodes
<1>4. ASSUME NEW at \in Ats(t)
      PROVE  at \in Nat \ {None} /\ FitsAt(t, 3, at)
  <2>1. PICK h \in DOMAIN t : t[h].name = "HTTP" /\ at = t[h].end - 9
    BY <1>2
  <2>2. at \in Nat \ {None} /\ h < at /\ at < t[h].end
    <3>1. h <= t[h].end - 10 \/ h > t[h].end
      BY <2>1 DEF Roomy
    <3> QED
      BY <1>3, <2>1, <3>1 DEF None
  <2>3. ASSUME NEW x \in DOMAIN t
        PROVE  /\ x < at \/ x > at + 2 * 3 + 1
               /\ t[x].end < at \/ t[x].end > at + 2 * 3 + 1
    <3>1. /\ x <= t[h].end - 10 \/ x > t[h].end
          /\ t[x].end <= t[h].end - 10 \/ x = h \/ t[x].end > t[h].end
      BY <2>1 DEF Roomy
    <3>2. x = h => t[x].end = t[h].end
      OBVIOUS
    <3> QED
      BY <1>3, <2>1, <3>1, <3>2
  <2> QED
    BY <2>2, <2>3 DEF FitsAt
<1>5. ASSUME NEW x \in Ats(t), NEW y \in Ats(t), x # y
      PROVE  x + 2 * 3 + 1 < y \/ y + 2 * 3 + 1 < x
  <2>1. PICK h \in DOMAIN t : t[h].name = "HTTP" /\ x = t[h].end - 9
    BY <1>2
  <2>2. PICK g \in DOMAIN t : t[g].name = "HTTP" /\ y = t[g].end - 9
    BY <1>2
  <2>3. /\ t[g].end <= t[h].end - 10 \/ g = h \/ t[g].end > t[h].end
        /\ t[h].end <= t[g].end - 10 \/ h = g \/ t[h].end > t[g].end
    BY <2>1, <2>2 DEF Roomy
  <2>4. g # h
    BY <1>5, <2>1, <2>2
  <2> QED
    BY <1>3, <2>1, <2>2, <2>3, <2>4
<1>6. Fit(t, 3, Ats(t))
  BY <1>4, <1>5 DEF Fit
<1>7. Added(t) = Graft(t, SoapPost, Ats(t))
  BY DEF Added, Ats
<1> QED
  BY <1>1, <1>6, <1>7 DEF Grafted

\* What is added: a Post at the end of each HTTP, and what it holds.
AddedNodes(t, u) ==
    /\ Part(t, u)
    /\ \A k \in DOMAIN u \ DOMAIN t : /\ u[k].name \notin Looked \cup {"Profile", "Get"}
                                      /\ u[k].name = "Post" => k \in Ats(t)
                                      /\ \E at \in Ats(t) : k \in Whole(u, at)
    /\ \A at \in Ats(t) : /\ at \in DOMAIN u \ DOMAIN t
                          /\ u[at].name = "Post" /\ u[at].text = "proxy"
                          /\ PostEncoding(u, at)
                          /\ \A m \in Below(u, at) : u[m].name # "Post"

LEMMA AddedHas ==
    ASSUME NEW t, Clean(t), Roomy(t), NEW u, u = Added(t)
    PROVE  AddedNodes(t, u)
<1> DEFINE s == SoapPost
<1>1. Grafted(t, 3, s, Ats(t), u)
  BY AddedIs
<1>2. /\ s[0].name = "Post" /\ s[0].text = "proxy"
      /\ s[1].name = "Constraint" /\ s[1].text = "PostEncoding"
      /\ s[2].name = "AllowedValues"
      /\ s[3].name = "Value" /\ s[3].text = "SOAP"
  BY DEF SoapPost
<1> HIDE DEF s
<1>3. Part(t, u)
  BY <1>1, GraftPart
<1>4. NewNodes(t, 3, s, Ats(t), u)
  BY <1>1, GraftNodes
<1>5. Ats(t) \subseteq Nat
  BY <1>1 DEF Grafted, Fit
<1>6. ASSUME NEW at \in Ats(t), NEW k \in 0..3
      PROVE  /\ at + k \in DOMAIN u \ DOMAIN t
             /\ u[at + k].name = s[k].name /\ u[at + k].text = s[k].text
  BY <1>4 DEF NewNodes
<1>7. ASSUME NEW at \in Ats(t), NEW k \in 0..3, NEW n, n = at + k
      PROVE  /\ Below(u, n) = {at + j : j \in (k + 1)..3}
             /\ k < 3 => at + (k + 1) \in Kids(u, n)
  <2>1. /\ Below(u, at + k) = {at + j : j \in (k + 1)..3}
        /\ k < 3 => at + (k + 1) \in Kids(u, at + k)
    BY <1>1, GraftBelow
  <2> QED
    BY <1>7, <2>1
<1>8. \A k \in 0..3 : k = 0 \/ k = 1 \/ k = 2 \/ k = 3
  OBVIOUS
<1>9. ASSUME NEW n \in DOMAIN u \ DOMAIN t
      PROVE  /\ u[n].name \notin Looked \cup {"Profile", "Get"}
             /\ u[n].name = "Post" => n \in Ats(t)
             /\ \E at \in Ats(t) : n \in Whole(u, at)
  <2>s. n \in Spots(Ats(t), 3)
    BY <1>4 DEF NewNodes
  <2>e. Spot(n, Ats(t), 3)
    BY <2>s, SpotsAre
  <2>p. PICK at \in Ats(t) : \E k \in 0..3 : n = at + k
    BY <2>e DEF Spot
  <2>1. PICK k \in 0..3 : n = at + k
    BY <2>p
  <2>2. u[n].name = s[k].name
    BY <1>6, <2>1
  <2>3. /\ u[n].name \notin Looked \cup {"Profile", "Get"}
        /\ u[n].name = "Post" => k = 0
    BY <1>2, <1>8, <2>2 DEF Looked
  <2>4. at + 0 = at
    BY <1>5
  <2>5. n \in Whole(u, at)
    <3>1. CASE k = 0
      BY <2>1, <2>4, <3>1 DEF Whole
    <3>2. CASE k # 0
      <4>1. 0 \in 0..3 /\ k \in (0 + 1)..3
        BY <3>2
      <4>2. Below(u, at) = {at + j : j \in (0 + 1)..3}
        BY <1>7, <2>4, <4>1
      <4>3. n \in Below(u, at)
        BY <2>1, <4>1, <4>2
      <4> QED
        BY <4>3 DEF Whole
    <3> QED
      BY <3>1, <3>2
  <2> QED
    BY <2>1, <2>3, <2>4, <2>5
<1>10. ASSUME NEW at \in Ats(t)
       PROVE  /\ at \in DOMAIN u \ DOMAIN t
              /\ u[at].name = "Post" /\ u[at].text = "proxy"
              /\ PostEncoding(u, at)
              /\ \A m \in Below(u, at) : u[m].name # "Post"
  <2>1. 0 \in 0..3 /\ 1 \in 0..3 /\ 2 \in 0..3 /\ 3 \in 0..3
    OBVIOUS
  <2>2. at + 0 = at /\ 0 + 1 = 1 /\ 1 + 1 = 2 /\ 2 + 1 = 3
    BY <1>5
  <2>3. /\ at \in DOMAIN u \ DOMAIN t
        /\ u[at].name = "Post" /\ u[at].text = "proxy"
    <3>1. /\ at + 0 \in DOMAIN u \ DOMAIN t
          /\ u[at + 0].name = s[0].name /\ u[at + 0].text = s[0].text
      BY <1>6, <2>1
    <3> QED
      BY <1>2, <2>2, <3>1
  <2>4. at + 1 \in Kids(u, at)
    <3>1. at + (0 + 1) \in Kids(u, at)
      BY <1>7, <2>1, <2>2
    <3> QED
      BY <2>2, <3>1
  <2>5. at + 2 \in Kids(u, at + 1)
    <3>1. at + (1 + 1) \in Kids(u, at + 1)
      BY <1>7, <2>1
    <3> QED
      BY <2>2, <3>1
  <2>6. at + 3 \in Kids(u, at + 2)
    <3>1. at + (2 + 1) \in Kids(u, at + 2)
      BY <1>7, <2>1
    <3> QED
      BY <2>2, <3>1
  <2>7. /\ u[at + 1].name = "Constraint" /\ u[at + 1].text = "PostEncoding"
        /\ u[at + 2].name = "AllowedValues"
        /\ u[at + 3].name = "Value" /\ u[at + 3].text = "SOAP"
    BY <1>2, <1>6, <2>1
  <2>8. PostEncoding(u, at)
    BY <2>4, <2>5, <2>6, <2>7 DEF PostEncoding
  <2>9. ASSUME NEW m \in Below(u, at)
        PROVE  u[m].name # "Post"
    <3>1. Below(u, at) = {at + j : j \in (0 + 1)..3}
      BY <1>7, <2>1, <2>2
    <3>2. PICK j \in (0 + 1)..3 : m = at + j
      BY <2>9, <3>1
    <3>3. j \in 0..3 /\ j # 0
      OBVIOUS
    <3>4. u[m].name = s[j].name
      BY <1>6, <3>2, <3>3
    <3> QED
      BY <1>2, <1>8, <3>3, <3>4
  <2> QED
    BY <2>3, <2>8, <2>9
<1> QED
  BY <1>3, <1>9, <1>10 DEF AddedNodes
\* The Post of an operation is the last entry of its HTTP.
LEMMA PostIs ==
    ASSUME NEW t, Clean(t), Roomy(t), NEW u, u = Added(t), NEW op \in Operations(t),
           NEW h, h = Http(t, op), h # None, NEW at, at = t[h].end - 9
    PROVE  /\ at \in Ats(t) /\ at \in Kids(u, h) /\ at \in Below(u, op)
           /\ Below(u, h) \subseteq Below(u, op)
<1> IsTree(t)
  BY DEF Clean
<1>1. AddedNodes(t, u)
  BY AddedHas
<1>2. Part(t, u) /\ IsTree(u) /\ DOMAIN t \subseteq DOMAIN u /\ \A m \in DOMAIN t : u[m] = t[m]
  BY <1>1 DEF AddedNodes, Part
<1>3. h \in Below(t, op) /\ h \in DOMAIN t /\ op \in DOMAIN t /\ t[h].name = "HTTP"
  BY OperationIs
<1>4. at \in Ats(t)
  BY AtsAre
<1>5. at \in DOMAIN u \ DOMAIN t /\ u[at].name = "Post"
  BY <1>1, <1>4 DEF AddedNodes
<1>6. /\ DOMAIN t \subseteq Nat
      /\ \A n \in DOMAIN t : t[n].end \in Nat /\ n < t[n].end
  BY TreeNodes
<1>7. at \in Below(u, h)
  <2>1. h <= t[h].end - 10 \/ h > t[h].end
    BY <1>3 DEF Roomy
  <2>2. h < at /\ at < t[h].end
    BY <1>3, <1>6, <2>1
  <2> QED
    BY <1>2, <1>3, <1>5, <2>2 DEF Below
<1>8. Below(u, h) \subseteq Below(u, op)
  <2>1. h \in Below(u, op)
    BY <1>2, <1>3, PartBelow
  <2> QED
    BY <1>2, <2>1, BelowBelow
<1>9. ASSUME NEW k \in Below(u, h), at \in Below(u, k)
      PROVE  FALSE
  <2>1. k \in DOMAIN u
    BY BelowInTree
  <2>2. CASE k \in DOMAIN t
    <3>1. t[k].end < t[h].end /\ at < t[k].end /\ k # h
      <4>1. k \in Below(t, h)
        BY <1>2, <1>3, <1>9, <2>2, PartBelow
      <4>2. at < u[k].end
        BY <1>9 DEF Below
      <4> QED
        BY <1>2, <2>2, <4>1, <4>2, BelowEnds
    <3>2. t[k].end <= t[h].end - 10 \/ k = h \/ t[k].end > t[h].end
      BY <1>3, <2>2 DEF Roomy
    <3> QED
      BY <1>3, <1>6, <2>2, <3>1, <3>2
  <2>3. CASE k \notin DOMAIN t
    <3>1. PICK bt \in Ats(t) : k \in Whole(u, bt)
      BY <1>1, <2>1, <2>3 DEF AddedNodes
    <3>2. Below(u, k) \subseteq Below(u, bt)
      <4>1. k = bt \/ k \in Below(u, bt)
        BY <3>1 DEF Whole
      <4> QED
        BY <1>2, <4>1, BelowBelow
    <3> QED
      BY <1>1, <1>5, <1>9, <3>1, <3>2 DEF AddedNodes
  <2> QED
    BY <2>2, <2>3
<1> QED
  BY <1>4, <1>7, <1>8, <1>9 DEF Kids

\* A new node below an operation lies in its own new Post.
LEMMA NewBelow ==
    ASSUME NEW t, Clean(t), Roomy(t), NEW u, u = Added(t), NEW op \in Operations(t),
           NEW k \in Below(u, op), k \notin DOMAIN t
    PROVE  Http(t, op) # None /\ k \in Whole(u, t[Http(t, op)].end - 9)
<1> IsTree(t)
  BY DEF Clean
<1>1. AddedNodes(t, u) /\ Part(t, u) /\ IsTree(u) /\ k \in DOMAIN u
  BY AddedHas, BelowInTree DEF AddedNodes, Part
<1>2. Operations(u) = Operations(t)
  BY <1>1, SameLooked DEF AddedNodes, Same
<1>3. PICK at \in Ats(t) : k \in Whole(u, at)
  BY <1>1 DEF AddedNodes
<1>4. PICK o \in Operations(t) : Http(t, o) # None /\ at = t[Http(t, o)].end - 9
  BY AtsAre
<1>5. at \in Below(u, o)
  BY <1>4, PostIs
<1>6. k \in Below(u, o)
  <2>1. k = at \/ k \in Below(u, at)
    BY <1>3 DEF Whole
  <2> QED
    BY <1>1, <1>5, <2>1, BelowBelow
<1>7. o = op
  BY <1>1, <1>2, <1>6, OperationsApart
<1> QED
  BY <1>3, <1>4, <1>7

\* What is added comes to none of the places of what was deleted.
LEMMA NewPlaces ==
    ASSUME NEW s, NEW t, Part(s, t), Clean(t), Roomy(t), NEW u, u = Added(s),
           NEW k \in DOMAIN u \ DOMAIN s
    PROVE  k \notin DOMAIN t
<1> SUFFICES ASSUME k \in DOMAIN t PROVE FALSE
  OBVIOUS
<1>1. Clean(s) /\ Roomy(s) /\ DOMAIN s \subseteq DOMAIN t /\ \A m \in DOMAIN s : s[m] = t[m]
  BY PartClean DEF Part
<1>2. Grafted(s, 3, SoapPost, Ats(s), u)
  BY <1>1, AddedIs
<1>3. NewNodes(s, 3, SoapPost, Ats(s), u)
  BY <1>2, GraftNodes
<1>s. k \in Spots(Ats(s), 3)
  BY <1>3 DEF NewNodes
<1>e. Spot(k, Ats(s), 3)
  BY <1>s, SpotsAre
<1>p. PICK at \in Ats(s) : \E j \in 0..3 : k = at + j
  BY <1>e DEF Spot
<1>4. PICK j \in 0..3 : k = at + j
  BY <1>p
<1>5. PICK h \in DOMAIN s : s[h].name = "HTTP" /\ at = s[h].end - 9
  BY <1>1, AtsAre, OperationIs DEF Clean
<1>6. h \in DOMAIN t /\ t[h].name = "HTTP" /\ at = t[h].end - 9
  BY <1>1, <1>5
<1>7. k <= t[h].end - 10 \/ k > t[h].end
  BY <1>6 DEF Roomy
<1>8. t[h].end \in Nat
  BY <1>6, TreeNodes DEF Clean
<1> QED
  BY <1>4, <1>6, <1>7, <1>8
-----------------------------------------------------------------------------
(***************************************************************************)
(* The document at each step: what the edits made so far make of the       *)
(* answer.                                                                 *)
(***************************************************************************)

Edited ==
    /\ answer \in Answers /\ deleting \in BOOLEAN
    /\ pc \in {"inject", "delete", "add", "done", "died"}
    /\ pc \in {"inject", "died"} => doc = answer
    /\ pc = "delete" => deleting /\ doc = Injected(answer)
    /\ pc = "add" => doc = Ready(answer, deleting)
    /\ pc = "done" => doc = Added(Ready(answer, deleting))
    /\ pc \in {"delete", "add", "done"} =>
          ServiceId(answer) = None \/ ~Fails(answer, ServiceId(answer))

LEMMA EditedAlways == Spec => []Edited
<1>1. Init => Edited
  BY DEF Init, Edited
<1>2. Edited /\ [Next]_vars => Edited'
  <2> SUFFICES ASSUME Edited, [Next]_vars PROVE Edited'
    OBVIOUS
  <2>1. CASE InjectProfiles
    <3> DEFINE svc == ServiceId(doc)
               next == IF deleting THEN "delete" ELSE "add"
    <3>1. /\ pc = "inject" /\ doc = answer /\ answer' = answer /\ deleting' = deleting
          /\ answer \in Answers /\ deleting \in BOOLEAN
      BY <2>1 DEF InjectProfiles, Edited
    <3>2. \/ svc = None /\ doc' = doc /\ pc' = next
          \/ svc # None /\ ~Fails(doc, svc) /\ doc' = WithProfiles(doc, svc) /\ pc' = next
          \/ doc' = doc /\ pc' = "died"
      BY <2>1 DEF InjectProfiles
    <3>3. CASE doc' = doc /\ pc' = "died"
      BY <3>1, <3>3 DEF Edited
    <3>4. CASE \/ svc = None /\ doc' = doc /\ pc' = next
               \/ svc # None /\ ~Fails(doc, svc) /\ doc' = WithProfiles(doc, svc) /\ pc' = next
      <4>1. doc' = Injected(answer)
        BY <3>1, <3>4 DEF Injected
      <4>2. ServiceId(answer) = None \/ ~Fails(answer, ServiceId(answer))
        BY <3>1, <3>4
      <4>3. pc' = next
        BY <3>4
      <4>4. ~deleting => Injected(answer) = Ready(answer, deleting)
        BY DEF Ready
      <4> HIDE DEF svc
      <4> QED
        BY <3>1, <4>1, <4>2, <4>3, <4>4 DEF Edited
    <3> QED
      BY <3>2, <3>3, <3>4
  <2>2. CASE DeleteAll
    <3>1. doc' = Ready(answer, deleting)
      BY <2>2 DEF DeleteAll, Edited, Ready
    <3> QED
      BY <2>2, <3>1 DEF DeleteAll, Edited
  <2>3. CASE AddAll
    BY <2>3 DEF AddAll, Edited
  <2>4. CASE UNCHANGED vars
    BY <2>4 DEF vars, Edited
  <2> QED
    BY <2>1, <2>2, <2>3, <2>4 DEF Next
<1> QED
  BY <1>1, <1>2, PTL DEF Spec

-----------------------------------------------------------------------------
(***************************************************************************)
(* Nothing else changes.                                                   *)
(***************************************************************************)

LEMMA ReadyOthers ==
    ASSUME NEW t \in Answers, NEW del \in BOOLEAN, NEW d, d = Ready(t, del)
    PROVE  /\ \A n \in DOMAIN t : ~InAddress(t, n) => n \in DOMAIN d
           /\ \A n \in DOMAIN d \cap DOMAIN t : d[n] = t[n]
           /\ \A n \in DOMAIN d \ DOMAIN t : d[n].name = "Profile"
<1> DEFINE j == Injected(t)
<1>1. /\ Part(t, j) /\ Clean(j)
      /\ \A k \in DOMAIN j \ DOMAIN t : j[k].name = "Profile"
  BY InjectedKeeps
<1>2. /\ Part(d, j)
      /\ DOMAIN d = DOMAIN j \ (IF del THEN Gone(j) ELSE {})
  BY ReadyKeeps
<1> HIDE DEF j
<1>3. /\ IsTree(j) /\ DOMAIN t \subseteq DOMAIN j /\ \A m \in DOMAIN t : j[m] = t[m]
      /\ DOMAIN d \subseteq DOMAIN j /\ \A m \in DOMAIN d : j[m] = d[m]
  BY <1>1, <1>2 DEF Part
<1>4. ASSUME NEW n \in DOMAIN t, n \in Gone(j)
      PROVE  InAddress(t, n)
  <2>1. PICK op \in Operations(j) : \E g \in Both(j, op) : g # None /\ n \in Whole(j, g)
    BY <1>3, <1>4, GoneIs
  <2>2. PICK g \in Both(j, op) : g # None /\ n \in Whole(j, g)
    BY <2>1
  <2>3. g \in DOMAIN j /\ Address(j, g)
    BY <1>3, <2>2, BothIs
  <2>4. g \in DOMAIN t /\ Address(t, g)
    BY <1>1, <1>3, <2>3 DEF Address
  <2>5. n \in Whole(t, g)
    BY <1>1, <2>2, <2>4, PartBelow
  <2> QED
    BY <2>4, <2>5 DEF InAddress
<1> QED
  BY <1>1, <1>2, <1>3, <1>4

LEMMA AddedOthers ==
    ASSUME NEW t \in Answers, NEW del \in BOOLEAN, NEW d, d = Ready(t, del), NEW u, u = Added(d)
    PROVE  /\ \A n \in DOMAIN t : ~InAddress(t, n) => n \in DOMAIN u
           /\ \A n \in DOMAIN u \cap DOMAIN t : u[n] = t[n]
           /\ \A n \in DOMAIN u \ DOMAIN t : u[n].name = "Profile" \/ InAddress(u, n)
           /\ \A n \in DOMAIN u \ DOMAIN t : u[n].name = "Profile" => n \in DOMAIN d
           /\ \A n \in DOMAIN u \ DOMAIN d : n \notin DOMAIN t
<1> DEFINE j == Injected(t)
<1>1. /\ Part(d, j) /\ Clean(d) /\ Roomy(d)
  BY ReadyKeeps
<1>2. Part(t, j) /\ Clean(j) /\ Roomy(j)
  BY InjectedKeeps
<1> HIDE DEF j
<1>3. /\ \A n \in DOMAIN t : ~InAddress(t, n) => n \in DOMAIN d
      /\ \A n \in DOMAIN d \cap DOMAIN t : d[n] = t[n]
      /\ \A n \in DOMAIN d \ DOMAIN t : d[n].name = "Profile"
  BY ReadyOthers
<1>4. AddedNodes(d, u)
  BY <1>1, AddedHas
<1>5. /\ DOMAIN d \subseteq DOMAIN u /\ \A m \in DOMAIN d : u[m] = d[m]
  BY <1>4 DEF AddedNodes, Part
<1>6. ASSUME NEW n \in DOMAIN u \ DOMAIN d
      PROVE  n \notin DOMAIN t /\ InAddress(u, n) /\ u[n].name # "Profile"
  <2>1. n \notin DOMAIN j
    BY <1>1, <1>2, NewPlaces
  <2>2. n \notin DOMAIN t
    BY <1>2, <2>1 DEF Part
  <2>3. PICK at \in Ats(d) : n \in Whole(u, at)
    BY <1>4 DEF AddedNodes
  <2>4. at \in DOMAIN u /\ u[at].name = "Post"
    BY <1>4 DEF AddedNodes
  <2>5. u[n].name \notin Looked \cup {"Profile", "Get"}
    BY <1>4 DEF AddedNodes
  <2> QED
    BY <2>2, <2>3, <2>4, <2>5 DEF InAddress, Address
<1> QED
  BY <1>3, <1>5, <1>6

\* For any answer the edits lose, add and change nothing but profiles and what is
\* in addresses (the calls of rp_dispatch_op, src/sp_dispatch.c:85-90).
THEOREM NothingElse == Spec => []OthersKept
<1>1. Edited => OthersKept
  <2> SUFFICES ASSUME Edited PROVE OthersKept
    OBVIOUS
  <2>1. answer \in Answers /\ deleting \in BOOLEAN
    BY DEF Edited
  <2>2. CASE pc \in {"inject", "died"}
    BY <2>2 DEF Edited, OthersKept
  <2>3. ASSUME NEW del \in BOOLEAN, doc = Ready(answer, del)
        PROVE  OthersKept
    <3>1. /\ \A n \in DOMAIN answer : ~InAddress(answer, n) => n \in DOMAIN doc
          /\ \A n \in DOMAIN doc \cap DOMAIN answer : doc[n] = answer[n]
          /\ \A n \in DOMAIN doc \ DOMAIN answer : doc[n].name = "Profile"
      BY <2>1, <2>3, ReadyOthers
    <3> QED
      BY <3>1 DEF OthersKept
  <2>4. CASE pc = "delete"
    <3>1. doc = Ready(answer, FALSE)
      BY <2>4 DEF Edited, Ready
    <3> QED
      BY <2>3, <3>1
  <2>5. CASE pc = "add"
    <3>1. doc = Ready(answer, deleting)
      BY <2>5 DEF Edited
    <3> QED
      BY <2>1, <2>3, <3>1
  <2>6. CASE pc = "done"
    <3> DEFINE d == Ready(answer, deleting)
    <3>1. doc = Added(d)
      BY <2>6 DEF Edited
    <3>2. /\ \A n \in DOMAIN answer : ~InAddress(answer, n) => n \in DOMAIN doc
          /\ \A n \in DOMAIN doc \cap DOMAIN answer : doc[n] = answer[n]
          /\ \A n \in DOMAIN doc \ DOMAIN answer : doc[n].name = "Profile" \/ InAddress(doc, n)
      BY <2>1, <3>1, AddedOthers
    <3> QED
      BY <3>2 DEF OthersKept
  <2> QED
    BY <2>2, <2>4, <2>5, <2>6 DEF Edited
<1> QED
  BY <1>1, EditedAlways, PTL
-----------------------------------------------------------------------------
(***************************************************************************)
(* The addresses of the proxy and of the backend.                          *)
(***************************************************************************)

LEMMA AddedSame ==
    ASSUME NEW t \in Answers, NEW del \in BOOLEAN, NEW d, d = Ready(t, del), NEW u, u = Added(d)
    PROVE  /\ Clean(d) /\ Roomy(d) /\ AddedNodes(d, u)
           /\ Same(d, t) /\ Same(u, t)
<1>1. Clean(d) /\ Roomy(d) /\ Same(d, t)
  BY ReadyKeeps
<1>2. AddedNodes(d, u)
  BY <1>1, AddedHas
<1>3. Same(d, u)
  <2>1. /\ Part(d, u)
        /\ \A k \in DOMAIN u \ DOMAIN d : u[k].name \notin Looked
    BY <1>2 DEF AddedNodes
  <2> QED
    BY <2>1, SameLooked
<1> QED
  BY <1>1, <1>2, <1>3 DEF Same

\* For any answer every operation with HTTP ends up with the address of the
\* proxy, once and last, and no other has it (f_add_soapurl, src/sp_wcs20.c).
THEOREM SoapOffered == Spec => []OperationsOfferSoap
<1>1. Edited => OperationsOfferSoap
  <2> SUFFICES ASSUME Edited, pc = "done" PROVE
                   /\ Operations(doc) = Operations(answer)
                   /\ \A op \in Operations(doc) :
                         LET http == Http(answer, op)
                         IN  IF http = None THEN ProxyPosts(doc, op) = {}
                             ELSE \E post \in Kids(doc, http) :
                                     /\ ProxyPosts(doc, op) = {post}
                                     /\ \A k \in Kids(doc, http) : k <= post
                                     /\ PostEncoding(doc, post)
    BY DEF OperationsOfferSoap
  <2> DEFINE d == Ready(answer, deleting)
  <2>1. answer \in Answers /\ deleting \in BOOLEAN /\ doc = Added(d)
    BY DEF Edited
  <2>2. /\ Clean(d) /\ Roomy(d) /\ AddedNodes(d, doc)
        /\ Same(d, answer) /\ Same(doc, answer)
    BY <2>1, AddedSame
  <2> HIDE DEF d
  <2>3. Operations(doc) = Operations(answer) /\ Operations(d) = Operations(answer)
    BY <2>2 DEF Same
  <2>4. /\ IsTree(d) /\ IsTree(doc) /\ DOMAIN d \subseteq DOMAIN doc
        /\ \A m \in DOMAIN d : doc[m] = d[m]
        /\ \A n \in DOMAIN d : d[n].text # "proxy"
    BY <2>2 DEF AddedNodes, Part, Clean
  <2>5. ASSUME NEW op \in Operations(doc), NEW n \in ProxyPosts(doc, op)
        PROVE  /\ n \notin DOMAIN d /\ op \in Operations(d) /\ n \in Below(doc, op)
               /\ Http(d, op) # None /\ n = d[Http(d, op)].end - 9
    <3>1. n \in Below(doc, op) /\ n \in DOMAIN doc /\ doc[n].name = "Post" /\ doc[n].text = "proxy"
      BY BelowInTree DEF ProxyPosts
    <3>2. n \notin DOMAIN d /\ op \in Operations(d)
      BY <2>3, <2>4, <3>1
    <3> DEFINE at == d[Http(d, op)].end - 9
    <3>3. Http(d, op) # None /\ n \in Whole(doc, at)
      BY <2>1, <2>2, <3>1, <3>2, NewBelow
    <3>4. at \in Ats(d)
      BY <3>2, <3>3, AtsAre
    <3> HIDE DEF at
    <3>5. n \notin Below(doc, at)
      BY <2>2, <3>1, <3>4 DEF AddedNodes
    <3> QED
      BY <3>1, <3>2, <3>3, <3>5 DEF Whole, at
  <2>6. ASSUME NEW op \in Operations(doc)
        PROVE  LET http == Http(answer, op)
               IN  IF http = None THEN ProxyPosts(doc, op) = {}
                   ELSE \E post \in Kids(doc, http) :
                           /\ ProxyPosts(doc, op) = {post}
                           /\ \A k \in Kids(doc, http) : k <= post
                           /\ PostEncoding(doc, post)
    <3> DEFINE h == Http(answer, op)
               at == d[h].end - 9
    <3>1. Http(d, op) = h /\ op \in Operations(d)
      BY <2>2, <2>3 DEF Same
    <3>2. CASE h = None
      BY <2>5, <3>1, <3>2
    <3>3. CASE h # None
      <4> HIDE DEF h
      <4>1. /\ at \in Ats(d) /\ at \in Kids(doc, h) /\ at \in Below(doc, op)
            /\ Below(doc, h) \subseteq Below(doc, op)
        BY <2>1, <2>2, <3>1, <3>3, PostIs
      <4>2. doc[at].name = "Post" /\ doc[at].text = "proxy" /\ PostEncoding(doc, at)
        BY <2>2, <4>1 DEF AddedNodes
      <4>3. at \in ProxyPosts(doc, op)
        BY <4>1, <4>2 DEF ProxyPosts
      <4>4. ProxyPosts(doc, op) = {at}
        BY <2>5, <3>1, <4>3
      <4>5. ASSUME NEW k \in Kids(doc, h)
            PROVE  k <= at
        <5>1. k \in Below(doc, h) /\ k \in DOMAIN doc /\ k \in Below(doc, op) /\ at \in Below(doc, h)
          BY <4>1, BelowInTree
        <5>2. CASE k \in DOMAIN d
          <6>1. h \in DOMAIN d /\ d[h].name = "HTTP"
            BY <2>4, <3>1, <3>3, OperationIs
          <6>2. k < d[h].end
            BY <2>4, <5>1, <6>1 DEF Below
          <6>3. k <= d[h].end - 10 \/ k > d[h].end
            BY <2>2, <5>2, <6>1 DEF Roomy
          <6>4. d[h].end \in Nat /\ k \in Nat
            BY <2>4, <5>2, <6>1, TreeNodes
          <6> QED
            BY <6>2, <6>3, <6>4
        <5>3. CASE k \notin DOMAIN d
          <6>1. k \in Whole(doc, at)
            BY <2>1, <2>2, <3>1, <5>1, <5>3, NewBelow
          <6>2. k \notin Below(doc, at)
            BY <5>1 DEF Kids
          <6>3. k = at /\ k \in Nat
            BY <2>4, <5>1, <6>1, <6>2, TreeNodes DEF Whole
          <6> QED
            BY <6>3
        <5> QED
          BY <5>2, <5>3
      <4> QED
        BY <3>3, <4>1, <4>2, <4>4, <4>5 DEF h
    <3> QED
      BY <3>2, <3>3
  <2> QED
    BY <2>3, <2>6
<1> QED
  BY <1>1, EditedAlways, PTL

\* What f_delete_nonsoap (src/sp_wcs20.c) takes out: the first address of each
\* name in the operation's HTTP.
FirstGone ==
    pc = "done" =>
        \A op \in Operations(answer), name \in {"Get", "Post"} :
            LET urls == BackendURLs(answer, Http(answer, op), name)
                first == {n \in urls : \A m \in urls : n <= m}
            IN  BackendURLs(doc, op, name) =
                    BackendURLs(answer, op, name) \ (IF deleting THEN first ELSE {})

LEMMA FirstAreGone == Edited => FirstGone
<1>1. Edited => FirstGone
  <2> SUFFICES ASSUME Edited, pc = "done",
                      NEW op \in Operations(answer), NEW name \in {"Get", "Post"}
               PROVE  LET urls == BackendURLs(answer, Http(answer, op), name)
                          first == {n \in urls : \A m \in urls : n <= m}
                      IN  BackendURLs(doc, op, name) =
                              BackendURLs(answer, op, name) \ (IF deleting THEN first ELSE {})
    BY DEF FirstGone
  <2> DEFINE a == answer
             d == Ready(answer, deleting)
             j == Injected(answer)
             h == Http(answer, op)
             urls == BackendURLs(a, h, name)
             first == {n \in urls : \A m \in urls : n <= m}
             f == FindDeep(a, h, name)
  <2>1. answer \in Answers /\ deleting \in BOOLEAN /\ doc = Added(d)
    BY DEF Edited
  <2>2. /\ Clean(d) /\ Roomy(d) /\ AddedNodes(d, doc)
        /\ Same(d, a) /\ Same(doc, a)
    BY <2>1, AddedSame
  <2>3. /\ Part(a, j) /\ Same(j, a) /\ Clean(j)
        /\ \A k \in DOMAIN j \ DOMAIN a : j[k].name = "Profile"
    BY <2>1, InjectedKeeps
  <2>4. /\ Part(d, j)
        /\ DOMAIN d = DOMAIN j \ (IF deleting THEN Gone(j) ELSE {})
    BY <2>1, ReadyKeeps
  <2>5. Clean(a) /\ IsTree(a)
    BY <2>1, AnswerIs
  <2> HIDE DEF a, d, j
  <2>6. /\ op \in Operations(a) /\ op \in Operations(j) /\ op \in Operations(d)
        /\ h = Http(a, op) /\ Http(j, op) = h
        /\ IsTree(j) /\ IsTree(d)
    BY <2>2, <2>3, <2>4 DEF Same, a, Part
  <2>7. op \in DOMAIN a /\ op \in DOMAIN d /\ h \in DOMAIN a \cup {None}
    BY <2>5, <2>6, OperationIs
  <2> HIDE DEF h
  <2>8. f = FindDeep(j, h, name)
    <3>1. \A k \in DOMAIN j \ DOMAIN a : ~Matches(name, j[k].name)
      BY <2>3 DEF Matches
    <3>2. Named(a, Below(a, h), name) = Named(j, Below(j, h), name)
      BY <2>3, <2>7, <3>1, SameNamed
    <3> QED
      BY <3>2 DEF FindDeep
  <2>9. urls = Named(a, Below(a, h), name)
    <3>1. \A m \in Below(a, h) : a[m].text # "proxy" /\ (Matches(name, a[m].name) <=> a[m].name = name)
      BY <2>5, BelowInTree DEF Clean, Matches
    <3> QED
      BY <3>1 DEF BackendURLs, Named
  <2>10. first = {f} \ {None}
    <3>1. \/ f = None /\ urls = {}
          \/ f # None /\ f \in urls /\ \A m \in urls : f <= m
      BY <2>5, <2>9, DeepIs DEF Named
    <3>2. \A n \in urls : n \in Nat
      BY <2>5, BelowInTree, TreeNodes DEF BackendURLs
    <3> HIDE DEF f, urls
    <3>3. CASE f = None
      BY <3>1, <3>3
    <3>4. CASE f # None
      <4>1. f \in urls /\ \A m \in urls : f <= m
        BY <3>1, <3>4
      <4>2. ASSUME NEW n \in first PROVE n = f
        <5>1. n \in Nat /\ f \in Nat /\ n <= f /\ f <= n
          BY <3>2, <4>1
        <5> QED
          BY <5>1
      <4> QED
        BY <3>4, <4>1, <4>2
    <3> QED
      BY <3>3, <3>4
  <2> HIDE DEF urls, first, f
  <2>11. BackendURLs(doc, op, name) = {m \in Below(d, op) : d[m].name = name}
    <3>1. Below(d, op) = Below(doc, op) \cap DOMAIN d
      BY <2>2, <2>7, PartBelow DEF AddedNodes
    <3>2. \A m \in DOMAIN d : doc[m] = d[m] /\ d[m].text # "proxy"
      BY <2>2 DEF AddedNodes, Part, Clean
    <3>3. ASSUME NEW m \in Below(doc, op), doc[m].name = name, doc[m].text # "proxy"
          PROVE  m \in DOMAIN d
      <4> SUFFICES ASSUME m \notin DOMAIN d PROVE FALSE
        OBVIOUS
      <4>1. m \in DOMAIN doc \ DOMAIN d
        BY BelowInTree
      <4>2. doc[m].name # "Get"
        BY <2>2, <4>1 DEF AddedNodes
      <4>3. m \in Ats(d)
        BY <2>2, <3>3, <4>1, <4>2 DEF AddedNodes
      <4> QED
        BY <2>2, <3>3, <4>3 DEF AddedNodes
    <3> QED
      BY <3>1, <3>2, <3>3 DEF BackendURLs
  <2>12. BackendURLs(a, op, name) = {m \in Below(j, op) : j[m].name = name}
    <3>1. Below(a, op) = Below(j, op) \cap DOMAIN a
      BY <2>3, <2>7, PartBelow
    <3>2. \A m \in DOMAIN a : a[m] = j[m] /\ a[m].text # "proxy"
      BY <2>3, <2>5 DEF Part, Clean
    <3>3. \A m \in Below(j, op) : j[m].name = name => m \in DOMAIN a
      BY <2>3, BelowInTree
    <3> QED
      BY <3>1, <3>2, <3>3 DEF BackendURLs
  <2>13. ASSUME NEW m \in Below(j, op), j[m].name = name
         PROVE  m \in DOMAIN d <=> ~(deleting /\ m \in first)
    <3>1. m \in DOMAIN j /\ m # None
      BY <2>6, BelowInTree, TreeNodes
    <3>2. m \in Gone(j) <=> m = f
      BY <2>3, <2>6, <2>8, <2>13, DeletedAddresses
    <3> QED
      BY <2>4, <2>10, <3>1, <3>2
  <2>14. Below(d, op) = Below(j, op) \cap DOMAIN d /\ \A m \in DOMAIN d : d[m] = j[m]
    BY <2>4, <2>7, PartBelow DEF Part
  <2>15. BackendURLs(doc, op, name) = BackendURLs(a, op, name) \ (IF deleting THEN first ELSE {})
    BY <2>11, <2>12, <2>13, <2>14
  <2> QED
    BY <2>15 DEF a, h, urls, first
<1> QED
  BY <1>1

\* Below nothing there is nothing, and below HTTP only what is below its operation.
LEMMA UnderHttp ==
    ASSUME NEW t, IsTree(t), NEW op \in Operations(t)
    PROVE  Below(t, Http(t, op)) \subseteq Below(t, op)
<1>1. CASE Http(t, op) = None
  <2>1. None \notin DOMAIN t
    BY TreeNodes
  <2> QED
    BY <1>1, <2>1 DEF Below
<1>2. CASE Http(t, op) # None
  <2>1. Http(t, op) \in Below(t, op)
    BY <1>2, OperationIs
  <2> QED
    BY <2>1, BelowBelow
<1> QED
  BY <1>1, <1>2

\* For any answer: with DeleteNonSoapURLs an operation with one pair of addresses
\* loses both, without it no operation loses any, and none is lost from outside
\* the HTTP element that is edited (rp_delete_nonsoap, src/sp_wcs20.c).
THEOREM NonSoapDeleted == Spec => []NonSoapGone
<1>1. Edited => NonSoapGone
  <2> SUFFICES ASSUME Edited, pc = "done",
                      NEW op \in Operations(answer), NEW name \in {"Get", "Post"}
               PROVE  LET was == BackendURLs(answer, op, name)
                          left == BackendURLs(doc, op, name)
                      IN  /\ left \subseteq was
                          /\ was \ left \subseteq Below(answer, Http(answer, op))
                          /\ ~deleting => left = was
                          /\ deleting /\ OnePair(answer, op) => left = {}
    BY DEF NonSoapGone
  <2> DEFINE was == BackendURLs(answer, op, name)
             left == BackendURLs(doc, op, name)
             urls == BackendURLs(answer, Http(answer, op), name)
             first == {n \in urls : \A m \in urls : n <= m}
  <2>1. left = was \ (IF deleting THEN first ELSE {})
    BY FirstAreGone DEF FirstGone
  <2>2. IsTree(answer)
    BY AnswerIs DEF Edited
  <2>3. urls \subseteq Below(answer, Http(answer, op)) /\ urls \subseteq was
    BY <2>2, UnderHttp DEF BackendURLs
  <2>4. ASSUME OnePair(answer, op) PROVE was \subseteq first
    <3>1. was \subseteq Below(answer, Http(answer, op)) /\ \A m, n \in was : m = n
      BY <2>4 DEF OnePair
    <3>2. was \subseteq urls
      BY <3>1 DEF BackendURLs
    <3>3. \A n \in was : n \in Nat
      BY <2>2, BelowInTree, TreeNodes DEF BackendURLs
    <3> HIDE DEF was, urls
    <3> QED
      BY <2>3, <3>1, <3>2, <3>3
  <2> HIDE DEF was, left, urls, first
  <2>5. first \subseteq Below(answer, Http(answer, op))
    BY <2>3 DEF first
  <2>6. /\ left \subseteq was
        /\ was \ left \subseteq Below(answer, Http(answer, op))
        /\ ~deleting => left = was
        /\ deleting /\ OnePair(answer, op) => left = {}
    BY <2>1, <2>4, <2>5
  <2> QED
    BY <2>6 DEF was, left
<1> QED
  BY <1>1, EditedAlways, PTL

-----------------------------------------------------------------------------
(***************************************************************************)
(* The profiles.                                                           *)
(***************************************************************************)

\* ProfilesRight of the answer t and the document u.
Right(t, u) ==
    LET was == Profiles(t)
        new == {n \in DOMAIN u \ DOMAIN t : u[n].name = "Profile"}
        eo == {n \in was : t[n].text \in EOProfiles}
    IN  IF ServiceId(t) = None THEN new = {}
        ELSE /\ Profiles(u) = was \cup new
             /\ \E ext \in new :
                   /\ u[ext].text = SoapExt
                   /\ IF eo = {} THEN new = {ext}
                      ELSE \E n \in new : /\ new = {ext, n} /\ ext < n
                                          /\ u[n].text = EOSoap
             /\ \A n \in was, m \in new : n < m <=> n = First(was)

LEMMA InjectedRight ==
    ASSUME NEW t \in Answers, ServiceId(t) = None \/ ~Fails(t, ServiceId(t))
    PROVE  /\ Right(t, Injected(t))
           /\ ServiceId(t) # None => \A n \in DOMAIN Injected(t) \ DOMAIN t :
                                        n \in Kids(Injected(t), ServiceId(t))
<1> DEFINE j == Injected(t)
           svc == ServiceId(t)
           e == ExtAt(t, svc)
           was == Named(t, Kids(t, svc), "Profile")
           eo == {n \in was : t[n].text \in EOProfiles}
<1>t. IsTree(t) /\ Spaced(t)
  BY AnswerIs
<1>1. CASE svc = None
  <2>1. j = t
    BY <1>1 DEF Injected
  <2> QED
    BY <1>1, <2>1 DEF Right
<1>2. CASE svc # None
  <2>1. PICK N : InjectedAt(t, svc, e, N, j)
    BY <1>t, <1>2, InjectedIs
  <2>2. svc \in DOMAIN t /\ t[svc].name = "ServiceIdentification"
    BY <1>t, <1>2, ServiceIs
  <2>3. ExtFits(t, svc, e)
    BY <1>t, <2>2, ExtPlace
  <2>4. Same(j, t)
    BY InjectedKeeps
  <2>5. Profiles(t) = was /\ Profiles(j) = Named(j, Kids(j, svc), "Profile")
    BY <2>4 DEF Profiles, Same
  <2>6. eo = {} <=> EOFound(t, svc) = None
    <3> DEFINE S == {n \in was : t[n].text \in EOProfiles \cup {NoText}}
    <3>1. S \in SUBSET (Nat \ {None}) /\ EOFound(t, svc) = Found(S)
      BY <1>t, BelowInTree, TreeNodes DEF EOFound, Named
    <3>2. EOFound(t, svc) # None => EOFound(t, svc) \in S /\ t[EOFound(t, svc)].text # NoText
      <4> HIDE DEF S
      <4>1. EOFound(t, svc) # None => EOFound(t, svc) \in S
        BY <3>1, FoundIs
      <4> QED
        BY <1>2, <4>1 DEF Fails
    <3>3. EOFound(t, svc) = None => S = {}
      <4> HIDE DEF S
      <4> QED
        BY <3>1, FoundIs
    <3> HIDE DEF was
    <3> QED
      BY <3>2, <3>3
  <2> HIDE DEF j, svc, e
  <2>7. /\ Part(t, j) /\ DOMAIN j = DOMAIN t \cup N /\ N \cap DOMAIN t = {}
        /\ N = {e} \/ N = {e, e + 2}
        /\ N = {e} <=> EOFound(t, svc) = None
        /\ \A m \in N : /\ m \in Nat /\ j[m].name = "Profile"
                        /\ j[m].text = IF m = e THEN SoapExt ELSE EOSoap
        /\ N \subseteq Kids(j, svc)
    BY <2>1 DEF InjectedAt
  <2>8. {n \in DOMAIN j \ DOMAIN t : j[n].name = "Profile"} = N
    BY <2>7
  <2>9. Profiles(j) = was \cup N
    <3>1. Kids(t, svc) = Kids(j, svc) \cap DOMAIN t
      BY <2>2, <2>7, PartBelow
    <3>2. \A m \in DOMAIN t : j[m] = t[m]
      BY <2>7 DEF Part
    <3>3. \A m \in N : Matches("Profile", j[m].name)
      BY <2>7 DEF Matches
    <3>4. Kids(j, svc) \subseteq DOMAIN j
      BY BelowInTree
    <3> QED
      BY <2>5, <2>7, <3>1, <3>2, <3>3, <3>4 DEF Named
  <2>10. ASSUME NEW n \in was, NEW m \in N
         PROVE  n < m <=> n = First(was)
    <3>1. n < e <=> n = First(was)
      BY <2>3 DEF ExtFits
    <3>2. n \in DOMAIN t /\ n \in Nat
      BY <1>t, BelowInTree, TreeNodes DEF Named
    <3>3. (n < e \/ n > e + 3) /\ e \in Nat
      BY <2>3, <3>2 DEF ExtFits
    <3>4. m = e \/ m = e + 2
      BY <2>7
    <3> HIDE DEF was
    <3>5. n < m <=> n < e
      BY <3>2, <3>3, <3>4
    <3> QED
      BY <3>1, <3>5
  <2>11. \E ext \in N :
            /\ j[ext].text = SoapExt
            /\ IF eo = {} THEN N = {ext}
               ELSE \E n \in N : N = {ext, n} /\ ext < n /\ j[n].text = EOSoap
    <3> HIDE DEF eo
    <3>1. e \in N /\ e \in Nat /\ j[e].text = SoapExt
      BY <2>7
    <3>2. CASE eo = {}
      BY <2>6, <2>7, <3>1, <3>2
    <3>3. CASE eo # {}
      <4>1. N = {e, e + 2}
        BY <2>6, <2>7, <3>3
      <4>2. e + 2 \in N /\ e < e + 2 /\ e + 2 # e
        BY <3>1, <4>1
      <4>3. j[e + 2].text = EOSoap
        BY <2>7, <4>2
      <4> QED
        BY <3>1, <3>3, <4>1, <4>2, <4>3
    <3> QED
      BY <3>2, <3>3
  <2> HIDE DEF was
  <2>12. Right(t, j)
    BY <1>2, <2>5, <2>8, <2>9, <2>10, <2>11 DEF Right, svc
  <2> QED
    BY <1>2, <2>7, <2>12 DEF j, svc
<1> QED
  BY <1>1, <1>2

\* Right stays so while the profiles do.
LEMMA RightKept ==
    ASSUME NEW t, NEW j, NEW u, Right(t, j), Profiles(u) = Profiles(j),
           {n \in DOMAIN u \ DOMAIN t : u[n].name = "Profile"} =
               {n \in DOMAIN j \ DOMAIN t : j[n].name = "Profile"},
           \A n \in DOMAIN j \ DOMAIN t : j[n].name = "Profile" => u[n] = j[n]
    PROVE  Right(t, u)
<1> DEFINE new == {n \in DOMAIN j \ DOMAIN t : j[n].name = "Profile"}
<1>1. {n \in DOMAIN u \ DOMAIN t : u[n].name = "Profile"} = new
  OBVIOUS
<1>2. \A n \in new : u[n].text = j[n].text
  OBVIOUS
<1> HIDE DEF new
<1> QED
  BY <1>1, <1>2 DEF Right, new

LEMMA ReadyRight ==
    ASSUME NEW t \in Answers, ServiceId(t) = None \/ ~Fails(t, ServiceId(t)),
           NEW del \in BOOLEAN, NEW d, d = Ready(t, del)
    PROVE  Right(t, d)
<1> DEFINE j == Injected(t)
<1>1. /\ Right(t, j)
      /\ ServiceId(t) # None => \A n \in DOMAIN j \ DOMAIN t : n \in Kids(j, ServiceId(t))
  BY InjectedRight
<1>2. /\ Part(t, j) /\ Same(j, t) /\ Clean(j) /\ IsTree(j)
  BY InjectedKeeps DEF Clean
<1>3. /\ Part(d, j) /\ Profiles(d) = Profiles(j)
      /\ DOMAIN d = DOMAIN j \ (IF del THEN Gone(j) ELSE {})
  BY ReadyKeeps
<1>4. ServiceId(t) = None => j = t
  BY DEF Injected
<1> HIDE DEF j
<1>5. ASSUME NEW n \in DOMAIN j \ DOMAIN t
      PROVE  n \in DOMAIN d /\ d[n] = j[n]
  <2>1. n \in Kids(j, ServiceId(j)) /\ ServiceId(j) # None
    BY <1>1, <1>2, <1>4 DEF Same
  <2>2. n \notin Gone(j)
    BY <1>2, <2>1, Stays
  <2> QED
    BY <1>3, <2>2 DEF Part
<1>6. DOMAIN d \subseteq DOMAIN j /\ \A n \in DOMAIN d : d[n] = j[n]
  BY <1>3 DEF Part
<1>7. {n \in DOMAIN d \ DOMAIN t : d[n].name = "Profile"} =
          {n \in DOMAIN j \ DOMAIN t : j[n].name = "Profile"}
  BY <1>5, <1>6
<1> QED
  BY <1>1, <1>3, <1>5, <1>7, RightKept

LEMMA AddedRight ==
    ASSUME NEW t \in Answers, ServiceId(t) = None \/ ~Fails(t, ServiceId(t)),
           NEW del \in BOOLEAN, NEW d, d = Ready(t, del), NEW u, u = Added(d)
    PROVE  Right(t, u)
<1>1. Right(t, d)
  BY ReadyRight
<1>2. AddedNodes(d, u) /\ Same(d, t) /\ Same(u, t) /\ IsTree(d)
  BY AddedSame DEF Clean
<1>3. \A n \in DOMAIN u \ DOMAIN t : u[n].name = "Profile" => n \in DOMAIN d
  BY AddedOthers
<1>4. Part(d, u) /\ DOMAIN d \subseteq DOMAIN u /\ \A n \in DOMAIN d : u[n] = d[n]
  BY <1>2 DEF AddedNodes, Part
<1>5. Profiles(u) = Profiles(d)
  <2> DEFINE svc == ServiceId(t)
  <2>1. svc = ServiceId(d) /\ svc = ServiceId(u)
    BY <1>2 DEF Same
  <2>2. svc \in DOMAIN d \cup {None}
    BY <1>2, <2>1, ServiceIs
  <2>3. \A k \in DOMAIN u \ DOMAIN d : ~Matches("Profile", u[k].name)
    BY <1>2 DEF AddedNodes, Matches
  <2> HIDE DEF svc
  <2>4. Named(d, Kids(d, svc), "Profile") = Named(u, Kids(u, svc), "Profile")
    BY <1>4, <2>2, <2>3, SameNamed
  <2> QED
    BY <2>1, <2>4 DEF Profiles
<1>6. {n \in DOMAIN u \ DOMAIN t : u[n].name = "Profile"} =
          {n \in DOMAIN d \ DOMAIN t : d[n].name = "Profile"}
  BY <1>3, <1>4
<1> QED
  BY <1>1, <1>4, <1>5, <1>6, RightKept

\* For any answer the profiles are added after the first one, the EO profile only
\* where the backend has one, and stay over the other edits
\* (rp_inject_soap_cap20, src/sp_wcs20.c).
THEOREM ProfilesAdded == Spec => []ProfilesRight
<1>1. Edited => ProfilesRight
  <2> SUFFICES ASSUME Edited, pc \in {"delete", "add", "done"} PROVE Right(answer, doc)
    BY DEF ProfilesRight, Right
  <2>1. /\ answer \in Answers /\ deleting \in BOOLEAN
        /\ ServiceId(answer) = None \/ ~Fails(answer, ServiceId(answer))
    BY DEF Edited
  <2>2. CASE pc = "delete"
    <3>1. doc = Injected(answer)
      BY <2>2 DEF Edited
    <3> QED
      BY <2>1, <3>1, InjectedRight
  <2>3. CASE pc = "add"
    <3>1. doc = Ready(answer, deleting)
      BY <2>3 DEF Edited
    <3> QED
      BY <2>1, <3>1, ReadyRight
  <2>4. CASE pc = "done"
    <3> DEFINE d == Ready(answer, deleting)
    <3>1. doc = Added(d)
      BY <2>4 DEF Edited
    <3> QED
      BY <2>1, <3>1, AddedRight
  <2> QED
    BY <2>2, <2>3, <2>4
<1> QED
  BY <1>1, EditedAlways, PTL

-----------------------------------------------------------------------------
(***************************************************************************)
(* What rp_find_named_node_re computes: FindDeep, for every tree.          *)
(***************************************************************************)

\* Whatever is below n is a child of n or below one.
LEMMA UnderKid ==
    ASSUME NEW t, IsTree(t), NEW n, NEW m \in Below(t, n)
    PROVE  \E k \in Kids(t, n) : m \in Whole(t, k)
<1> DEFINE T == {k \in Below(t, n) : m \in Whole(t, k)}
<1>1. T \in SUBSET Nat /\ m \in T
  <2>1. m \in DOMAIN t /\ Below(t, n) \subseteq Nat
    BY BelowInTree, TreeNodes
  <2> QED
    BY <2>1, WholeIs
<1> DEFINE k == First(T)
<1>2. k \in T /\ \A y \in T : k <= y
  <2> HIDE DEF T
  <2> QED
    BY <1>1, LeastOf
<1> HIDE DEF k
<1>3. k \in Below(t, n) /\ m \in Whole(t, k)
  BY <1>2
<1>4. ASSUME NEW j \in Below(t, n), k \in Below(t, j) PROVE FALSE
  <2>1. m \in Whole(t, j)
    <3>1. m = k \/ m \in Below(t, k)
      BY <1>3 DEF Whole
    <3>2. m \in Below(t, j)
      BY <1>4, <3>1, BelowBelow
    <3> QED
      BY <3>2, BelowInTree DEF Whole
  <2>2. j < k /\ j \in Nat /\ k \in Nat
    BY <1>4, BelowEnds
  <2>3. k <= j
    BY <1>2, <2>1
  <2> QED
    BY <2>2, <2>3
<1>5. k \in Kids(t, n)
  BY <1>3, <1>4 DEF Kids
<1> QED
  BY <1>3, <1>5

\* A kid is looked at before what is below it.
LEMMA AtKid ==
    ASSUME NEW t, IsTree(t), NEW k \in DOMAIN t, NEW name
    PROVE  (IF Matches(name, t[k].name) THEN k ELSE FindDeep(t, k, name))
               = Found(Named(t, Whole(t, k), name))
<1> DEFINE W == Named(t, Whole(t, k), name)
<1>1. Whole(t, k) = {k} \cup Below(t, k) /\ Whole(t, k) \subseteq DOMAIN t
  BY WholeIs, BelowInTree
<1>2. CASE Matches(name, t[k].name)
  <2>1. W \in SUBSET (Nat \ {None}) /\ k \in W
    BY <1>1, <1>2, TreeNodes DEF Named
  <2>2. \A m \in W : k <= m
    BY <1>1, BelowEnds, TreeNodes DEF Named
  <2> HIDE DEF W
  <2>3. Found(W) = k
    BY <2>1, <2>2, FoundIs
  <2> QED
    BY <1>2, <2>3 DEF W
<1>3. CASE ~Matches(name, t[k].name)
  <2>1. W = Named(t, Below(t, k), name)
    BY <1>1, <1>3 DEF Named
  <2> QED
    BY <1>3, <2>1 DEF FindDeep
<1> QED
  BY <1>2, <1>3

\* One run of the loop, if the calls it makes find what they should.
LEMMA LoopFinds ==
    ASSUME NEW t, IsTree(t), NEW n \in DOMAIN t, NEW name, NEW re,
           \A k \in Kids(t, n) : re[k] = FindDeep(t, k, name)
    PROVE  OnKids(t, n, name, re) = FindDeep(t, n, name)
<1> DEFINE At(k) == IF Matches(name, t[k].name) THEN k ELSE re[k]
           W(k) == Named(t, Whole(t, k), name)
           B == Named(t, Below(t, n), name)
           hits == {k \in Kids(t, n) : At(k) # None}
<1>1. OnKids(t, n, name, re) = IF hits = {} THEN None ELSE At(First(hits))
  BY DEF OnKids
<1>2. ASSUME NEW k \in Kids(t, n) PROVE At(k) = Found(W(k)) /\ k \in Nat /\ k \in DOMAIN t
  BY AtKid, BelowInTree, TreeNodes
<1>3. ASSUME NEW k \in Kids(t, n) PROVE W(k) \in SUBSET (Nat \ {None}) /\ W(k) \subseteq B
  <2>1. Whole(t, k) \subseteq Below(t, n)
    BY BelowInTree, BelowBelow, WholeIs
  <2> QED
    BY <2>1, BelowInTree, TreeNodes DEF Named
<1>4. \A m \in B : \E k \in Kids(t, n) : m \in W(k)
  <2> SUFFICES ASSUME NEW m \in B PROVE \E k \in Kids(t, n) : m \in W(k)
    OBVIOUS
  <2>1. m \in Below(t, n) /\ Matches(name, t[m].name)
    BY DEF Named
  <2>2. PICK k \in Kids(t, n) : m \in Whole(t, k)
    BY <2>1, UnderKid
  <2> QED
    BY <2>1, <2>2 DEF Named
<1>5. B \in SUBSET (Nat \ {None}) /\ FindDeep(t, n, name) = Found(B)
  BY BelowInTree, TreeNodes DEF Named, FindDeep
<1>6. ASSUME NEW j \in Kids(t, n), NEW k \in Kids(t, n), j < k, NEW x \in W(j), NEW y \in W(k)
      PROVE  x <= y
  <2>1. x \in Whole(t, j) /\ y \in Whole(t, k) /\ x \in Nat /\ y \in Nat
    BY <1>3, <1>6 DEF Named
  <2>2. t[j].end < k
    <3>1. /\ j \in DOMAIN t /\ k \in DOMAIN t /\ j \in Nat /\ k \in Nat /\ t[j].end \in Nat
          /\ t[k].end \in Nat
      BY <1>2, TreeNodes
    <3>2. k \notin Below(t, j)
      BY BelowInTree DEF Kids
    <3>3. t[j].end < k \/ t[k].end < t[j].end
      BY <1>6, <3>1 DEF IsTree
    <3>4. k < t[k].end
      BY <3>1, TreeNodes
    <3> QED
      BY <1>6, <3>1, <3>2, <3>3, <3>4 DEF Below
  <2>3. x <= t[j].end
    BY <1>2, <2>1, TreeNodes DEF Whole, Below
  <2>4. k <= y
    BY <1>2, <2>1 DEF Whole, Below
  <2>5. j \in DOMAIN t /\ t[j].end \in Nat /\ k \in Nat
    BY <1>2, TreeNodes
  <2> QED
    BY <2>1, <2>2, <2>3, <2>4, <2>5
<1> HIDE DEF At, W, B
<1>7. CASE hits = {}
  <2>1. \A k \in Kids(t, n) : W(k) = {}
    BY <1>2, <1>3, <1>7, FoundIs
  <2>2. B = {}
    BY <1>4, <2>1
  <2> QED
    BY <1>1, <1>5, <1>7, <2>2, FoundIs
<1>8. CASE hits # {}
  <2>1. hits \in SUBSET Nat
    BY <1>2
  <2> DEFINE h == First(hits)
  <2>2. h \in hits /\ \A k \in hits : h <= k
    <3> HIDE DEF hits
    <3> QED
      BY <1>8, <2>1, LeastOf
  <2> HIDE DEF h
  <2>3. h \in Kids(t, n) /\ At(h) # None /\ At(h) = Found(W(h))
    BY <1>2, <2>2
  <2>4. At(h) \in W(h) /\ \A m \in W(h) : At(h) <= m
    BY <1>3, <2>3, FoundIs
  <2>5. ASSUME NEW m \in B PROVE At(h) <= m
    <3>1. PICK k \in Kids(t, n) : m \in W(k)
      BY <1>4
    <3>2. k \in hits
      <4>1. Found(W(k)) # None
        BY <1>3, <3>1, FoundIs
      <4> QED
        BY <1>2, <4>1
    <3>3. h <= k /\ h \in Nat /\ k \in Nat
      BY <1>2, <2>2, <2>3, <3>2
    <3>4. CASE h = k
      BY <2>4, <3>1, <3>4
    <3>5. CASE h < k
      BY <1>6, <2>3, <2>4, <3>1, <3>5
    <3> QED
      BY <3>3, <3>4, <3>5
  <2>6. At(h) \in B
    BY <1>3, <2>3, <2>4
  <2>7. Found(B) = At(h)
    BY <1>5, <2>5, <2>6, FoundIs
  <2> QED
    BY <1>1, <1>5, <1>8, <2>7 DEF h
<1> QED
  BY <1>7, <1>8

(***************************************************************************)
(* There is a function that calls itself like rp_find_named_node_re, and   *)
(* it finds the first node below n that matches, in the order of the       *)
(* document, however deep the tree.                                        *)
(***************************************************************************)
THEOREM RecursionFinds ==
    ASSUME NEW t, IsTree(t), NEW name
    PROVE  \A n \in DOMAIN t : rp_find_named_node_re(t, name)[n] = FindDeep(t, n, name)
<1> DEFINE Calls(re) == re = [n \in DOMAIN t |-> OnKids(t, n, name, re)]
           re == CHOOSE f : Calls(f)
           deep == [n \in DOMAIN t |-> FindDeep(t, n, name)]
<1>1. rp_find_named_node_re(t, name) = re
  BY DEF rp_find_named_node_re
<1>2. Calls(deep)
  <2>1. ASSUME NEW n \in DOMAIN t PROVE OnKids(t, n, name, deep) = FindDeep(t, n, name)
    <3>1. \A k \in Kids(t, n) : deep[k] = FindDeep(t, k, name)
      BY BelowInTree
    <3> HIDE DEF deep
    <3> QED
      BY <3>1, LoopFinds
  <2>2. [n \in DOMAIN t |-> OnKids(t, n, name, deep)] = [n \in DOMAIN t |-> FindDeep(t, n, name)]
    BY <2>1
  <2> QED
    BY <2>2
<1>3. Calls(re)
  <2> HIDE DEF Calls
  <2> QED
    BY <1>2
<1>4. ASSUME NEW n \in DOMAIN t PROVE re[n] = OnKids(t, n, name, re)
  <2> HIDE DEF re
  <2> QED
    BY <1>3
<1> HIDE DEF re
<1> DEFINE wrong == {n \in DOMAIN t : re[n] # FindDeep(t, n, name)}
           ends == {t[n].end : n \in wrong}
<1>5. CASE wrong # {}
  <2>1. ends \in SUBSET Nat /\ ends # {}
    BY <1>5, TreeNodes
  <2>2. First(ends) \in ends /\ \A y \in ends : First(ends) <= y
    <3> HIDE DEF ends
    <3> QED
      BY <2>1, LeastOf
  <2>3. PICK n \in wrong : First(ends) = t[n].end
    BY <2>2
  <2>4. ASSUME NEW k \in Kids(t, n) PROVE re[k] = FindDeep(t, k, name)
    <3>1. k \in Below(t, n) /\ k \in DOMAIN t
      BY BelowInTree
    <3>2. t[k].end < t[n].end /\ t[k].end \in Nat /\ t[n].end \in Nat
      BY <3>1, BelowEnds, TreeNodes
    <3>3. k \notin wrong
      <4> SUFFICES ASSUME k \in wrong PROVE FALSE
        OBVIOUS
      <4>1. t[n].end <= t[k].end
        BY <2>2, <2>3
      <4> QED
        BY <3>2, <4>1
    <3> QED
      BY <3>1, <3>3
  <2>5. re[n] = FindDeep(t, n, name)
    BY <1>4, <2>4, LoopFinds
  <2> QED
    BY <2>5
<1> QED
  BY <1>1, <1>5
=============================================================================
