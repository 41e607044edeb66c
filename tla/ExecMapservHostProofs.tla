------------------------ MODULE ExecMapservHostProofs ------------------------
(***************************************************************************)
(* What sp_execMapserv does to the descriptors and the children of the     *)
(* process that hosts it: how much the check for descriptors below 3 can   *)
(* leave open, for any number of threads, and what holds besides when the  *)
(* host has one thread only.                                               *)
(***************************************************************************)
EXTENDS ExecMapservProofs

(***************************************************************************)
(* exit(3) closes the pipes and ends every call.                           *)
(***************************************************************************)
Gone == ~up => fds = {} /\ \A w \in Workers : pc[w] = "dead"

LEMMA GoneStep == ASSUME TypeOK, Gone, [Next]_vars PROVE Gone'
<1> USE DEF TypeOK, Gone, Engaged, Busy, Unforked, Forked, Reading, Waiting, Outcomes,
            Goto, ReturnNull, EndRead, Exiting, pvars, wvars, kvars
<1>1. ASSUME NEW w \in Workers, NEW n \in 1..MaxReq, Call(w, n) PROVE Gone'
  BY <1>1 DEF Call
<1>2. ASSUME NEW w \in Workers, Refuse(w) PROVE Gone'
  BY <1>2 DEF Refuse
<1>3. ASSUME NEW w \in Workers, PipeRrFail(w) PROVE Gone'
  BY <1>3 DEF PipeRrFail
<1>4. ASSUME NEW w \in Workers, Fork(w) PROVE Gone'
  BY <1>4 DEF Fork
<1>5. ASSUME NEW w \in Workers, ForkFail(w) PROVE Gone'
  BY <1>5 DEF ForkFail
<1>6. ASSUME NEW w \in Workers, CloseUnused(w) PROVE Gone'
  BY <1>6 DEF CloseUnused
<1>7. ASSUME NEW w \in Workers, WriteReq(w) PROVE Gone'
  BY <1>7 DEF WriteReq
<1>8. ASSUME NEW w \in Workers, WriteBroken(w) PROVE Gone'
  BY <1>8 DEF WriteBroken
<1>9. ASSUME NEW w \in Workers, CloseReq(w) PROVE Gone'
  BY <1>9 DEF CloseReq
<1>10. ASSUME NEW w \in Workers, MakeTemp(w) PROVE Gone'
  BY <1>10 DEF MakeTemp
<1>11. ASSUME NEW w \in Workers, MakeTempFail(w) PROVE Gone'
  BY <1>11 DEF MakeTempFail
<1>12. ASSUME NEW w \in Workers, NEW lost \in BOOLEAN, ReadChunk(w, lost) PROVE Gone'
  BY <1>12 DEF ReadChunk
<1>13. ASSUME NEW w \in Workers, ReadEOF(w) PROVE Gone'
  BY <1>13 DEF ReadEOF
<1>14. ASSUME NEW w \in Workers, ReadRetry(w) PROVE Gone'
  BY <1>14 DEF ReadRetry
<1>15. ASSUME NEW w \in Workers, ReadBroken(w) PROVE Gone'
  BY <1>15 DEF ReadBroken
<1>16. ASSUME NEW w \in Workers, NEW z \in Kids, Wait(w, z) PROVE Gone'
  BY <1>16 DEF Wait
<1>17. ASSUME NEW w \in Workers, Fdopen(w) PROVE Gone'
  BY <1>17 DEF Fdopen
<1>18. ASSUME NEW w \in Workers, FdopenFail(w) PROVE Gone'
  BY <1>18 DEF FdopenFail
<1>19. ASSUME NEW w \in Workers, Cleanup(w) PROVE Gone'
  BY <1>19 DEF Cleanup
<1>20. ASSUME NEW w \in Workers, NEW j \in Kids, PipeRr(w, j) PROVE Gone'
  BY <1>20 DEF PipeRr
<1>21. ASSUME NEW w \in Workers, PipeWw(w) PROVE Gone'
  BY <1>21 DEF PipeWw
<1>22. ASSUME NEW w \in Workers, PipeBelow3(w) PROVE Gone'
  BY <1>22 DEF PipeBelow3
<1>23. ASSUME NEW w \in Workers, PipeWwFail(w) PROVE Gone'
  BY <1>23 DEF PipeWwFail
<1>24. ASSUME NEW k \in Kids, Exec(k) PROVE Gone'
  BY <1>24 DEF Exec
<1>25. ASSUME NEW k \in Kids, KidRead(k) PROVE Gone'
  BY <1>25 DEF KidRead
<1>26. ASSUME NEW k \in Kids, NEW n \in 0..MaxResp, KidAnswer(k, n) PROVE Gone'
  BY <1>26 DEF KidAnswer
<1>27. ASSUME NEW k \in Kids, KidWrite(k) PROVE Gone'
  BY <1>27 DEF KidWrite
<1>28. ASSUME NEW k \in Kids, KidExit(k) PROVE Gone'
  BY <1>28 DEF KidExit
<1>29. ASSUME NEW k \in Kids, KidBroken(k) PROVE Gone'
  BY <1>29 DEF KidBroken
<1>30. ASSUME NEW k \in Kids, KidFail(k) PROVE Gone'
  BY <1>30 DEF KidFail
<1>31. ASSUME NEW k \in Kids, KidZombie(k) PROVE Gone'
  BY <1>31 DEF KidZombie
<1>32. ASSUME NEW k \in Kids, Adopted(k) PROVE Gone'
  BY <1>32 DEF Adopted
<1>33. CASE UNCHANGED vars
  BY <1>33 DEF vars
<1> HIDE DEF Gone
<1> QED
  BY <1>1, <1>2, <1>3, <1>4, <1>5, <1>6, <1>7, <1>8, <1>9, <1>10,
     <1>11, <1>12, <1>13, <1>14, <1>15, <1>16, <1>17, <1>18, <1>19, <1>20,
     <1>21, <1>22, <1>23, <1>24, <1>25, <1>26, <1>27, <1>28, <1>29, <1>30,
     <1>31, <1>32, <1>33
     DEF Next, Accept, Setup, Exchange, WaitAny, Finish, Serve

LEMMA GoneAlways == Spec => []Gone
<1>1. Init => Gone
  BY DEF Init, Gone
<1>2. Bookkeeping /\ Gone /\ [Next]_vars => Gone'
  BY GoneStep DEF Bookkeeping
<1> QED
  BY <1>1, <1>2, BookkeepingAlways, PTL DEF Spec

-----------------------------------------------------------------------------
(***************************************************************************)
(* An abandoned pair of pipes is no call's, and stays open: none of its    *)
(* ends is ever closed, so its kid is never taken again.                   *)
(***************************************************************************)
GivenUp ==
    \A k \in abandoned :
        /\ \A w \in Workers : cpid[w] # k
        /\ up => <<"rr0", k>> \in fds

Unclosed == {k \in abandoned : <<"ww0", k>> \in fds}
Low3 == {w \in Workers : below3[w]}

(***************************************************************************)
(* What is paid for the numbers below 3: two for each pair left open and   *)
(* for each call that is about to leave one open, one for each number that *)
(* is still free.  A single number left over costs a pair of its own.      *)
(***************************************************************************)
Paid ==
    2 * Cardinality(Unclosed) + 2 * Cardinality(Low3) + low
        =< LowFree + IF low = 0 THEN 1 ELSE 0

\* All but the calls of pipe(2) leave the abandoned pipes and the numbers alone.
Quiet ==
    /\ UNCHANGED <<abandoned, low, below3>>
    /\ fds' \subseteq fds
    /\ \A w \in Workers : cpid'[w] \in {cpid[w], NoKid}
    /\ up' => /\ up
              /\ \A e \in PipeEnds, k \in Kids :
                    <<e, k>> \in fds => <<e, k>> \in fds' \/ \E w \in Workers : cpid[w] = k

Piping(w) == (\E k \in Kids : PipeRr(w, k)) \/ PipeWw(w) \/ PipeBelow3(w) \/ PipeWwFail(w)

LEMMA QuietStep ==
    ASSUME TypeOK, KidOwned, [Next]_vars, \A w \in Workers : ~Piping(w)
    PROVE  Quiet
<1> USE KidsAssumption
        DEF Quiet, TypeOK, KidOwned, Engaged, Busy, Unforked, Forked, Reading, Waiting, Outcomes,
            Goto, ReturnNull, EndRead, Exiting, pvars, wvars, kvars
<1>1. ASSUME NEW w \in Workers, NEW n \in 1..MaxReq, Call(w, n) PROVE Quiet
  BY <1>1 DEF Call
<1>2. ASSUME NEW w \in Workers, Refuse(w) PROVE Quiet
  BY <1>2 DEF Refuse
<1>3. ASSUME NEW w \in Workers, PipeRrFail(w) PROVE Quiet
  BY <1>3 DEF PipeRrFail
<1>4. ASSUME NEW w \in Workers, Fork(w) PROVE Quiet
  BY <1>4 DEF Fork
<1>5. ASSUME NEW w \in Workers, ForkFail(w) PROVE Quiet
  BY <1>5 DEF ForkFail
<1>6. ASSUME NEW w \in Workers, CloseUnused(w) PROVE Quiet
  BY <1>6 DEF CloseUnused
<1>7. ASSUME NEW w \in Workers, WriteReq(w) PROVE Quiet
  BY <1>7 DEF WriteReq
<1>8. ASSUME NEW w \in Workers, WriteBroken(w) PROVE Quiet
  BY <1>8 DEF WriteBroken
<1>9. ASSUME NEW w \in Workers, CloseReq(w) PROVE Quiet
  BY <1>9 DEF CloseReq
<1>10. ASSUME NEW w \in Workers, MakeTemp(w) PROVE Quiet
  BY <1>10 DEF MakeTemp
<1>11. ASSUME NEW w \in Workers, MakeTempFail(w) PROVE Quiet
  BY <1>11 DEF MakeTempFail
<1>12. ASSUME NEW w \in Workers, NEW lost \in BOOLEAN, ReadChunk(w, lost) PROVE Quiet
  BY <1>12 DEF ReadChunk
<1>13. ASSUME NEW w \in Workers, ReadEOF(w) PROVE Quiet
  BY <1>13 DEF ReadEOF
<1>14. ASSUME NEW w \in Workers, ReadRetry(w) PROVE Quiet
  BY <1>14 DEF ReadRetry
<1>15. ASSUME NEW w \in Workers, ReadBroken(w) PROVE Quiet
  BY <1>15 DEF ReadBroken
<1>16. ASSUME NEW w \in Workers, NEW z \in Kids, Wait(w, z) PROVE Quiet
  BY <1>16 DEF Wait
<1>17. ASSUME NEW w \in Workers, Fdopen(w) PROVE Quiet
  BY <1>17 DEF Fdopen
<1>18. ASSUME NEW w \in Workers, FdopenFail(w) PROVE Quiet
  BY <1>18 DEF FdopenFail
<1>19. ASSUME NEW w \in Workers, Cleanup(w) PROVE Quiet
  BY <1>19 DEF Cleanup
<1>20. ASSUME NEW k \in Kids, Exec(k) PROVE Quiet
  BY <1>20 DEF Exec
<1>21. ASSUME NEW k \in Kids, KidRead(k) PROVE Quiet
  BY <1>21 DEF KidRead
<1>22. ASSUME NEW k \in Kids, NEW n \in 0..MaxResp, KidAnswer(k, n) PROVE Quiet
  BY <1>22 DEF KidAnswer
<1>23. ASSUME NEW k \in Kids, KidWrite(k) PROVE Quiet
  BY <1>23 DEF KidWrite
<1>24. ASSUME NEW k \in Kids, KidExit(k) PROVE Quiet
  BY <1>24 DEF KidExit
<1>25. ASSUME NEW k \in Kids, KidBroken(k) PROVE Quiet
  BY <1>25 DEF KidBroken
<1>26. ASSUME NEW k \in Kids, KidFail(k) PROVE Quiet
  BY <1>26 DEF KidFail
<1>27. ASSUME NEW k \in Kids, KidZombie(k) PROVE Quiet
  BY <1>27 DEF KidZombie
<1>28. ASSUME NEW k \in Kids, Adopted(k) PROVE Quiet
  BY <1>28 DEF Adopted
<1>29. CASE UNCHANGED vars
  BY <1>29 DEF vars
<1> HIDE DEF Quiet
<1> QED
  BY <1>1, <1>2, <1>3, <1>4, <1>5, <1>6, <1>7, <1>8, <1>9, <1>10,
     <1>11, <1>12, <1>13, <1>14, <1>15, <1>16, <1>17, <1>18, <1>19, <1>20,
     <1>21, <1>22, <1>23, <1>24, <1>25, <1>26, <1>27, <1>28, <1>29
     DEF Next, Accept, Setup, Exchange, WaitAny, Finish, Serve, Piping

LEMMA GivenUpStep ==
    ASSUME TypeOK, KidOwned, OwnEnds, Gone, GivenUp, [Next]_vars
    PROVE  GivenUp'
<1> USE KidsAssumption
<1>1. CASE \A w \in Workers : ~Piping(w)
  <2>1. Quiet
    BY <1>1, QuietStep
  <2> SUFFICES ASSUME NEW k \in abandoned
               PROVE  /\ \A w \in Workers : cpid'[w] # k
                      /\ up' => <<"rr0", k>> \in fds'
    BY <2>1 DEF GivenUp, Quiet
  <2>2. k \in Kids /\ k # NoKid
    BY DEF TypeOK
  <2>3. \A w \in Workers : cpid'[w] # k
    BY <2>1, <2>2 DEF GivenUp, Quiet
  <2>4. up' => <<"rr0", k>> \in fds'
    BY <2>1, <2>2 DEF GivenUp, Quiet, PipeEnds
  <2> QED
    BY <2>3, <2>4
<1>2. ASSUME NEW w \in Workers, NEW k \in Kids, PipeRr(w, k) PROVE GivenUp'
  <2>1. /\ pc[w] = "pipe_rr" /\ k \in Free /\ cpid' = [cpid EXCEPT ![w] = k]
        /\ fds \subseteq fds' /\ UNCHANGED <<up, abandoned>>
    BY <1>2 DEF PipeRr
  <2>2. up
    BY <2>1 DEF Gone
  <2>3. k \notin abandoned
    BY <2>1, <2>2 DEF GivenUp, Free, Open, PipeEnds
  <2> QED
    BY <2>1, <2>3 DEF GivenUp, TypeOK
<1>3. ASSUME NEW w \in Workers, PipeWw(w) PROVE GivenUp'
  BY <1>3 DEF PipeWw, GivenUp, pvars, wvars
<1>4. ASSUME NEW w \in Workers, PipeBelow3(w) \/ PipeWwFail(w) PROVE GivenUp'
  <2>1. /\ pc[w] = "pipe_ww" /\ cpid' = [cpid EXCEPT ![w] = NoKid]
        /\ fds \subseteq fds' /\ abandoned' = abandoned \cup {cpid[w]} /\ up' = up
    BY <1>4 DEF PipeBelow3, PipeWwFail, ReturnNull
  <2>2. cpid[w] \in Kids /\ <<"rr0", cpid[w]>> \in fds
    BY <2>1 DEF KidOwned, OwnEnds, EndLeft, Engaged, Unforked, PipeEnds
  <2>3. \A v \in Workers \ {w} : cpid'[v] = cpid[v] /\ cpid[v] # cpid[w]
    BY <2>1, <2>2 DEF KidOwned, TypeOK
  <2>4. cpid'[w] = NoKid /\ NoKid \notin abandoned /\ NoKid # cpid[w]
    BY <2>1, <2>2 DEF TypeOK
  <2> QED
    BY <2>1, <2>2, <2>3, <2>4 DEF GivenUp
<1> QED
  BY <1>1, <1>2, <1>3, <1>4 DEF Piping

LEMMA PaidStep ==
    ASSUME TypeOK, KidOwned, OwnEnds, GivenUp, Paid, [Next]_vars
    PROVE  Paid'
<1> USE WorkersAssumption, KidsAssumption, BoundsAssumption
<1>1. /\ IsFiniteSet(Unclosed) /\ IsFiniteSet(Low3)
      /\ Cardinality(Unclosed) \in Nat /\ Cardinality(Low3) \in Nat
  <2>1. Unclosed \in SUBSET Kids /\ Low3 \in SUBSET Workers
    BY DEF Unclosed, Low3, TypeOK
  <2>2. IsFiniteSet(Unclosed) /\ IsFiniteSet(Low3)
    BY <2>1, FS_Subset
  <2> QED
    BY <2>2, FS_CardinalityType
<1>2. low \in 0..3
  BY DEF TypeOK
<1>3. CASE \A w \in Workers : ~Piping(w)
  <2>1. Quiet
    BY <1>3, QuietStep DEF TypeOK, KidOwned
  <2>2. Unclosed' \in SUBSET Unclosed /\ Low3' = Low3 /\ low' = low
    BY <2>1 DEF Quiet, Unclosed, Low3
  <2>3. Cardinality(Unclosed') \in Nat /\ Cardinality(Unclosed') <= Cardinality(Unclosed)
    <3>1. IsFiniteSet(Unclosed')
      BY <1>1, <2>2, FS_Subset
    <3> QED
      BY <1>1, <2>2, <3>1, FS_Subset, FS_CardinalityType
  <2> QED
    BY <1>1, <1>2, <2>2, <2>3 DEF Paid
<1>4. ASSUME NEW w \in Workers, NEW k \in Kids, PipeRr(w, k) PROVE Paid'
  <2>1. /\ abandoned' = abandoned /\ fds' = fds \cup {<<"rr0", k>>, <<"rr1", k>>}
        /\ low' = IF low > 2 THEN low - 2 ELSE 0
        /\ below3' = [below3 EXCEPT ![w] = @ \/ low > 0]
    BY <1>4 DEF PipeRr, TakeLow
  <2>2. Unclosed' = Unclosed
    BY <2>1 DEF Unclosed
  <2>3. Low3' = IF low > 0 THEN Low3 \cup {w} ELSE Low3
    <3>1. \A v \in Workers : below3'[v] = IF v = w /\ low > 0 THEN TRUE ELSE below3[v]
      BY <1>2, <2>1 DEF TypeOK
    <3> QED
      BY <3>1 DEF Low3
  <2>4. Cardinality(Low3 \cup {w}) \in {Cardinality(Low3), Cardinality(Low3) + 1}
    BY <1>1, FS_AddElement
  <2>5. CASE low = 0
    BY <1>1, <1>2, <2>1, <2>2, <2>3, <2>5 DEF Paid
  <2>6. CASE low > 0
    <3>1. /\ Cardinality(Low3') \in {Cardinality(Low3), Cardinality(Low3) + 1}
          /\ Cardinality(Unclosed') = Cardinality(Unclosed)
      BY <2>2, <2>3, <2>4, <2>6
    <3> QED
      BY <1>1, <1>2, <2>1, <2>6, <3>1 DEF Paid
  <2> QED
    BY <1>2, <2>5, <2>6
<1>5. ASSUME NEW w \in Workers, PipeWw(w) PROVE Paid'
  <2>1. /\ pc[w] = "pipe_ww" /\ UNCHANGED <<abandoned, low, below3>>
        /\ fds' = fds \cup {<<"ww0", cpid[w]>>, <<"ww1", cpid[w]>>}
    BY <1>5 DEF PipeWw
  <2>2. cpid[w] \notin abandoned
    BY DEF GivenUp
  <2>3. Unclosed' = Unclosed /\ Low3' = Low3
    BY <2>1, <2>2 DEF Unclosed, Low3
  <2> QED
    BY <2>1, <2>3 DEF Paid
<1>6. ASSUME NEW w \in Workers, PipeBelow3(w) PROVE Paid'
  <2>1. /\ below3[w] \/ low > 0
        /\ abandoned' = abandoned \cup {cpid[w]}
        /\ fds' = fds \cup {<<"ww0", cpid[w]>>, <<"ww1", cpid[w]>>}
        /\ low' = IF low > 2 THEN low - 2 ELSE 0
        /\ below3' = [below3 EXCEPT ![w] = FALSE]
    BY <1>6 DEF PipeBelow3
  <2>2. cpid[w] \notin Unclosed /\ Unclosed' = Unclosed \cup {cpid[w]}
    BY <2>1 DEF GivenUp, Unclosed
  <2>3. Low3' = Low3 \ {w} /\ (w \in Low3 <=> below3[w])
    BY <2>1 DEF Low3, TypeOK
  <2>4. /\ Cardinality(Unclosed') = Cardinality(Unclosed) + 1
        /\ Cardinality(Low3') = IF w \in Low3 THEN Cardinality(Low3) - 1 ELSE Cardinality(Low3)
    <3>1. Cardinality(Unclosed \cup {cpid[w]}) = Cardinality(Unclosed) + 1
      BY <1>1, <2>2, FS_AddElement
    <3>2. Cardinality(Low3 \ {w})
            = IF w \in Low3 THEN Cardinality(Low3) - 1 ELSE Cardinality(Low3)
      BY <1>1, FS_RemoveElement
    <3> QED
      BY <2>2, <2>3, <3>1, <3>2
  <2>5. CASE w \in Low3
    BY <1>1, <1>2, <2>1, <2>4, <2>5 DEF Paid
  <2>6. CASE w \notin Low3
    <3>1. low > 0
      BY <2>1, <2>3, <2>6
    <3> QED
      BY <1>1, <1>2, <2>1, <2>4, <2>6, <3>1 DEF Paid
  <2> QED
    BY <2>5, <2>6
<1>7. ASSUME NEW w \in Workers, PipeWwFail(w) PROVE Paid'
  <2>1. /\ pc[w] = "pipe_ww" /\ UNCHANGED <<low, fds>>
        /\ abandoned' = abandoned \cup {cpid[w]}
        /\ below3' = [below3 EXCEPT ![w] = FALSE]
    BY <1>7 DEF PipeWwFail
  <2>2. <<"ww0", cpid[w]>> \notin fds
    BY <2>1 DEF KidOwned, OwnEnds, EndLeft, Engaged, Unforked, Forked, Reading, PipeEnds
  <2>3. Unclosed' = Unclosed /\ Low3' = Low3 \ {w}
    BY <2>1, <2>2 DEF Unclosed, Low3, TypeOK
  <2>4. Cardinality(Low3') \in {Cardinality(Low3), Cardinality(Low3) - 1}
    <3>1. Cardinality(Low3 \ {w}) \in {Cardinality(Low3), Cardinality(Low3) - 1}
      BY <1>1, FS_RemoveElement
    <3> QED
      BY <2>3, <3>1
  <2> QED
    BY <1>1, <1>2, <2>1, <2>3, <2>4 DEF Paid
<1> QED
  BY <1>3, <1>4, <1>5, <1>6, <1>7 DEF Piping

LEMMA GivenUpAlways == Spec => []GivenUp
<1>1. Init => GivenUp
  BY DEF Init, GivenUp
<1>2. Bookkeeping /\ Gone /\ GivenUp /\ [Next]_vars => GivenUp'
  BY GivenUpStep DEF Bookkeeping
<1> QED
  BY <1>1, <1>2, BookkeepingAlways, GoneAlways, PTL DEF Spec

(***************************************************************************)
(* The check for descriptors below 3 pays for itself: what it leaves open  *)
(* takes the low numbers, two at a time, so it fails at most twice in the  *)
(* life of a host, whatever its threads do.                                *)
(***************************************************************************)
THEOREM PlugsLowNumbers == Spec => []LeakBounded
<1>1. Init => Paid
  <2> SUFFICES ASSUME Init PROVE Paid
    OBVIOUS
  <2>1. Unclosed = {} /\ Low3 = {} /\ low = LowFree
    BY DEF Init, Unclosed, Low3
  <2>2. Cardinality(Unclosed) = 0 /\ Cardinality(Low3) = 0
    BY <2>1, FS_EmptySet
  <2> QED
    BY <2>1, <2>2, BoundsAssumption DEF Paid
<1>2. Bookkeeping /\ GivenUp /\ Paid /\ [Next]_vars => Paid'
  BY PaidStep DEF Bookkeeping
<1>3. Bookkeeping /\ Paid => LeakBounded
  <2> SUFFICES ASSUME Bookkeeping, Paid PROVE LeakBounded
    OBVIOUS
  <2>1. Unclosed \in SUBSET Kids /\ Low3 \in SUBSET Workers /\ low \in 0..3
    BY DEF Unclosed, Low3, Bookkeeping, TypeOK
  <2>2. Cardinality(Unclosed) \in Nat /\ Cardinality(Low3) \in Nat
    <3>1. IsFiniteSet(Unclosed) /\ IsFiniteSet(Low3)
      BY <2>1, WorkersAssumption, KidsAssumption, FS_Subset
    <3> QED
      BY <3>1, FS_CardinalityType
  <2>3. 2 * Cardinality(Unclosed) =< LowFree + 1
    BY <2>1, <2>2, BoundsAssumption DEF Paid
  <2> QED
    BY <2>3 DEF LeakBounded, Unclosed
<1> QED
  BY <1>1, <1>2, <1>3, BookkeepingAlways, GivenUpAlways, PTL DEF Spec

-----------------------------------------------------------------------------
(***************************************************************************)
(* A host of one thread.                                                   *)
(***************************************************************************)
Alone == \A v, w \in Workers : v = w

\* A child has its own pipes and abandoned ones, since no other call had any
\* when it was forked; it has the write end of its request until it execs.
Inherited ==
    \A c \in Kids, e \in PipeEnds, k \in Kids :
        <<e, k>> \in held[c] => c = k \/ k \in abandoned

RequestEnd == \A k \in Kids : <<"rr1", k>> \in held[k] => proc[k] = "forked"

LEMMA InheritedStep ==
    ASSUME Alone, TypeOK, KidOwned, EndsOwned, Inherited, [Next]_vars
    PROVE  Inherited'
<1> USE KidsAssumption
        DEF Alone, Inherited, TypeOK, KidOwned, Engaged, Busy, Unforked, Forked, Reading,
            Waiting, Outcomes, Goto, ReturnNull, EndRead, Exiting, pvars, wvars, kvars
<1>1. ASSUME NEW w \in Workers, NEW n \in 1..MaxReq, Call(w, n) PROVE Inherited'
  BY <1>1 DEF Call
<1>2. ASSUME NEW w \in Workers, Refuse(w) PROVE Inherited'
  BY <1>2 DEF Refuse
<1>3. ASSUME NEW w \in Workers, PipeRrFail(w) PROVE Inherited'
  BY <1>3 DEF PipeRrFail
<1>4. ASSUME NEW w \in Workers, Fork(w) PROVE Inherited'
  <2>1. cpid[w] \in Kids /\ held' = [held EXCEPT ![cpid[w]] = fds] /\ abandoned' = abandoned
    BY <1>4 DEF Fork
  <2> SUFFICES ASSUME NEW c \in Kids, NEW e \in PipeEnds, NEW k \in Kids, <<e, k>> \in held'[c]
               PROVE  c = k \/ k \in abandoned
    BY <2>1 DEF Inherited
  <2>2. CASE c = cpid[w]
    BY <2>1, <2>2 DEF EndsOwned
  <2>3. CASE c # cpid[w]
    BY <2>1, <2>3 DEF Inherited
  <2> QED
    BY <2>2, <2>3
<1>5. ASSUME NEW w \in Workers, ForkFail(w) PROVE Inherited'
  BY <1>5 DEF ForkFail
<1>6. ASSUME NEW w \in Workers, CloseUnused(w) PROVE Inherited'
  BY <1>6 DEF CloseUnused
<1>7. ASSUME NEW w \in Workers, WriteReq(w) PROVE Inherited'
  BY <1>7 DEF WriteReq
<1>8. ASSUME NEW w \in Workers, WriteBroken(w) PROVE Inherited'
  BY <1>8 DEF WriteBroken
<1>9. ASSUME NEW w \in Workers, CloseReq(w) PROVE Inherited'
  BY <1>9 DEF CloseReq
<1>10. ASSUME NEW w \in Workers, MakeTemp(w) PROVE Inherited'
  BY <1>10 DEF MakeTemp
<1>11. ASSUME NEW w \in Workers, MakeTempFail(w) PROVE Inherited'
  BY <1>11 DEF MakeTempFail
<1>12. ASSUME NEW w \in Workers, NEW lost \in BOOLEAN, ReadChunk(w, lost) PROVE Inherited'
  BY <1>12 DEF ReadChunk
<1>13. ASSUME NEW w \in Workers, ReadEOF(w) PROVE Inherited'
  BY <1>13 DEF ReadEOF
<1>14. ASSUME NEW w \in Workers, ReadRetry(w) PROVE Inherited'
  BY <1>14 DEF ReadRetry
<1>15. ASSUME NEW w \in Workers, ReadBroken(w) PROVE Inherited'
  BY <1>15 DEF ReadBroken
<1>16. ASSUME NEW w \in Workers, NEW z \in Kids, Wait(w, z) PROVE Inherited'
  BY <1>16 DEF Wait
<1>17. ASSUME NEW w \in Workers, Fdopen(w) PROVE Inherited'
  BY <1>17 DEF Fdopen
<1>18. ASSUME NEW w \in Workers, FdopenFail(w) PROVE Inherited'
  BY <1>18 DEF FdopenFail
<1>19. ASSUME NEW w \in Workers, Cleanup(w) PROVE Inherited'
  BY <1>19 DEF Cleanup
<1>20. ASSUME NEW w \in Workers, NEW j \in Kids, PipeRr(w, j) PROVE Inherited'
  BY <1>20 DEF PipeRr
<1>21. ASSUME NEW w \in Workers, PipeWw(w) PROVE Inherited'
  BY <1>21 DEF PipeWw
<1>22. ASSUME NEW w \in Workers, PipeBelow3(w) PROVE Inherited'
  BY <1>22 DEF PipeBelow3
<1>23. ASSUME NEW w \in Workers, PipeWwFail(w) PROVE Inherited'
  BY <1>23 DEF PipeWwFail
<1>24. ASSUME NEW k \in Kids, Exec(k) PROVE Inherited'
  BY <1>24 DEF Exec
<1>25. ASSUME NEW k \in Kids, KidRead(k) PROVE Inherited'
  BY <1>25 DEF KidRead
<1>26. ASSUME NEW k \in Kids, NEW n \in 0..MaxResp, KidAnswer(k, n) PROVE Inherited'
  BY <1>26 DEF KidAnswer
<1>27. ASSUME NEW k \in Kids, KidWrite(k) PROVE Inherited'
  BY <1>27 DEF KidWrite
<1>28. ASSUME NEW k \in Kids, KidExit(k) PROVE Inherited'
  BY <1>28 DEF KidExit
<1>29. ASSUME NEW k \in Kids, KidBroken(k) PROVE Inherited'
  BY <1>29 DEF KidBroken
<1>30. ASSUME NEW k \in Kids, KidFail(k) PROVE Inherited'
  BY <1>30 DEF KidFail
<1>31. ASSUME NEW k \in Kids, KidZombie(k) PROVE Inherited'
  BY <1>31 DEF KidZombie
<1>32. ASSUME NEW k \in Kids, Adopted(k) PROVE Inherited'
  BY <1>32 DEF Adopted
<1>33. CASE UNCHANGED vars
  BY <1>33 DEF vars
<1> HIDE DEF Inherited
<1> QED
  BY <1>1, <1>2, <1>3, <1>4, <1>5, <1>6, <1>7, <1>8, <1>9, <1>10,
     <1>11, <1>12, <1>13, <1>14, <1>15, <1>16, <1>17, <1>18, <1>19, <1>20,
     <1>21, <1>22, <1>23, <1>24, <1>25, <1>26, <1>27, <1>28, <1>29, <1>30,
     <1>31, <1>32, <1>33
     DEF Next, Accept, Setup, Exchange, WaitAny, Finish, Serve

LEMMA RequestEndStep ==
    ASSUME TypeOK, KidOwned, RequestEnd, [Next]_vars
    PROVE  RequestEnd'
<1> USE KidsAssumption
        DEF RequestEnd, TypeOK, KidOwned, Engaged, Busy, Unforked, Forked, Reading,
            Waiting, Outcomes, Goto, ReturnNull, EndRead, Exiting, pvars, wvars, kvars
<1>1. ASSUME NEW w \in Workers, NEW n \in 1..MaxReq, Call(w, n) PROVE RequestEnd'
  BY <1>1 DEF Call
<1>2. ASSUME NEW w \in Workers, Refuse(w) PROVE RequestEnd'
  BY <1>2 DEF Refuse
<1>3. ASSUME NEW w \in Workers, PipeRrFail(w) PROVE RequestEnd'
  BY <1>3 DEF PipeRrFail
<1>4. ASSUME NEW w \in Workers, Fork(w) PROVE RequestEnd'
  BY <1>4 DEF Fork
<1>5. ASSUME NEW w \in Workers, ForkFail(w) PROVE RequestEnd'
  BY <1>5 DEF ForkFail
<1>6. ASSUME NEW w \in Workers, CloseUnused(w) PROVE RequestEnd'
  BY <1>6 DEF CloseUnused
<1>7. ASSUME NEW w \in Workers, WriteReq(w) PROVE RequestEnd'
  BY <1>7 DEF WriteReq
<1>8. ASSUME NEW w \in Workers, WriteBroken(w) PROVE RequestEnd'
  BY <1>8 DEF WriteBroken
<1>9. ASSUME NEW w \in Workers, CloseReq(w) PROVE RequestEnd'
  BY <1>9 DEF CloseReq
<1>10. ASSUME NEW w \in Workers, MakeTemp(w) PROVE RequestEnd'
  BY <1>10 DEF MakeTemp
<1>11. ASSUME NEW w \in Workers, MakeTempFail(w) PROVE RequestEnd'
  BY <1>11 DEF MakeTempFail
<1>12. ASSUME NEW w \in Workers, NEW lost \in BOOLEAN, ReadChunk(w, lost) PROVE RequestEnd'
  BY <1>12 DEF ReadChunk
<1>13. ASSUME NEW w \in Workers, ReadEOF(w) PROVE RequestEnd'
  BY <1>13 DEF ReadEOF
<1>14. ASSUME NEW w \in Workers, ReadRetry(w) PROVE RequestEnd'
  BY <1>14 DEF ReadRetry
<1>15. ASSUME NEW w \in Workers, ReadBroken(w) PROVE RequestEnd'
  BY <1>15 DEF ReadBroken
<1>16. ASSUME NEW w \in Workers, NEW z \in Kids, Wait(w, z) PROVE RequestEnd'
  BY <1>16 DEF Wait
<1>17. ASSUME NEW w \in Workers, Fdopen(w) PROVE RequestEnd'
  BY <1>17 DEF Fdopen
<1>18. ASSUME NEW w \in Workers, FdopenFail(w) PROVE RequestEnd'
  BY <1>18 DEF FdopenFail
<1>19. ASSUME NEW w \in Workers, Cleanup(w) PROVE RequestEnd'
  BY <1>19 DEF Cleanup
<1>20. ASSUME NEW w \in Workers, NEW j \in Kids, PipeRr(w, j) PROVE RequestEnd'
  BY <1>20 DEF PipeRr
<1>21. ASSUME NEW w \in Workers, PipeWw(w) PROVE RequestEnd'
  BY <1>21 DEF PipeWw
<1>22. ASSUME NEW w \in Workers, PipeBelow3(w) PROVE RequestEnd'
  BY <1>22 DEF PipeBelow3
<1>23. ASSUME NEW w \in Workers, PipeWwFail(w) PROVE RequestEnd'
  BY <1>23 DEF PipeWwFail
<1>24. ASSUME NEW k \in Kids, Exec(k) PROVE RequestEnd'
  BY <1>24 DEF Exec
<1>25. ASSUME NEW k \in Kids, KidRead(k) PROVE RequestEnd'
  BY <1>25 DEF KidRead
<1>26. ASSUME NEW k \in Kids, NEW n \in 0..MaxResp, KidAnswer(k, n) PROVE RequestEnd'
  BY <1>26 DEF KidAnswer
<1>27. ASSUME NEW k \in Kids, KidWrite(k) PROVE RequestEnd'
  BY <1>27 DEF KidWrite
<1>28. ASSUME NEW k \in Kids, KidExit(k) PROVE RequestEnd'
  BY <1>28 DEF KidExit
<1>29. ASSUME NEW k \in Kids, KidBroken(k) PROVE RequestEnd'
  BY <1>29 DEF KidBroken
<1>30. ASSUME NEW k \in Kids, KidFail(k) PROVE RequestEnd'
  BY <1>30 DEF KidFail
<1>31. ASSUME NEW k \in Kids, KidZombie(k) PROVE RequestEnd'
  BY <1>31 DEF KidZombie
<1>32. ASSUME NEW k \in Kids, Adopted(k) PROVE RequestEnd'
  BY <1>32 DEF Adopted
<1>33. CASE UNCHANGED vars
  BY <1>33 DEF vars
<1> HIDE DEF RequestEnd
<1> QED
  BY <1>1, <1>2, <1>3, <1>4, <1>5, <1>6, <1>7, <1>8, <1>9, <1>10,
     <1>11, <1>12, <1>13, <1>14, <1>15, <1>16, <1>17, <1>18, <1>19, <1>20,
     <1>21, <1>22, <1>23, <1>24, <1>25, <1>26, <1>27, <1>28, <1>29, <1>30,
     <1>31, <1>32, <1>33
     DEF Next, Accept, Setup, Exchange, WaitAny, Finish, Serve

LEMMA InheritedAlways == ASSUME Alone PROVE Spec => [](Inherited /\ RequestEnd)
<1>1. Init => Inherited /\ RequestEnd
  BY DEF Init, Inherited, RequestEnd
<1>2. Bookkeeping /\ Inherited /\ RequestEnd /\ [Next]_vars => (Inherited /\ RequestEnd)'
  BY InheritedStep, RequestEndStep DEF Bookkeeping
<1> QED
  BY <1>1, <1>2, BookkeepingAlways, PTL DEF Spec

(***************************************************************************)
(* With one thread, "Reader will see EOF" is true of every child, even one *)
(* forked after calls that left their pipes open.                          *)
(***************************************************************************)
THEOREM EOFReached == ASSUME Alone PROVE Spec => []ReaderSeesEOF
<1>1. Bookkeeping /\ GivenUp /\ Inherited /\ RequestEnd => ReaderSeesEOF
  <2> SUFFICES ASSUME Bookkeeping, GivenUp, Inherited, RequestEnd, NEW w \in Workers,
                      pc[w] \in {"mkostemp"} \cup Reading, proc[cpid[w]] # "forked"
               PROVE  ~Open("rr1", cpid[w])
    BY DEF ReaderSeesEOF
  <2>1. cpid[w] \in Kids
    BY DEF Bookkeeping, KidOwned, Engaged, Forked
  <2>2. <<"rr1", cpid[w]>> \notin fds
    BY <2>1 DEF Bookkeeping, OwnEnds, EndLeft, PipeEnds, Unforked, Reading
  <2>3. cpid[w] \notin abandoned
    BY DEF GivenUp
  <2> QED
    BY <2>1, <2>2, <2>3 DEF Open, Inherited, RequestEnd, PipeEnds
<1> QED
  BY <1>1, BookkeepingAlways, GivenUpAlways, InheritedAlways, PTL

(***************************************************************************)
(* With one thread, wait(NULL) reaps the child its own call has forked:    *)
(* there is no other left.                                                 *)
(***************************************************************************)
THEOREM OwnReaped == ASSUME Alone PROVE Spec => []OwnChildReaped
<1>1. Bookkeeping /\ Gone /\ ReapBalance => OwnChildReaped
  <2> SUFFICES ASSUME Bookkeeping, Gone, ReapBalance, NEW w \in Workers, pc[w] = "fdopen"
               PROVE  proc[cpid[w]] = "none"
    BY DEF OwnChildReaped
  <2>1. up /\ cpid[w] \in Kids
    BY DEF Gone, Bookkeeping, KidOwned, Engaged
  <2>2. Owing = {}
    BY DEF Alone, Owing, Forked, Reading, Waiting
  <2>3. Cardinality(Unreaped) = 0
    BY <2>1, <2>2, FS_EmptySet DEF ReapBalance
  <2>4. IsFiniteSet(Unreaped)
    BY KidsAssumption, FS_Subset DEF Unreaped
  <2>5. Unreaped = {}
    BY <2>3, <2>4, FS_EmptySet
  <2> QED
    BY <2>1, <2>5 DEF Unreaped
<1> QED
  BY <1>1, BookkeepingAlways, GoneAlways, ReapBalanced, PTL

-----------------------------------------------------------------------------
(***************************************************************************)
(* Who waits for whom.                                                     *)
(***************************************************************************)

\* A live child can read its request and, once it has called exec, holds no
\* copy of the other end of its answer; one that has ended holds nothing.
KidEnds ==
    \A k \in Kids :
        /\ proc[k] \in Running => <<"rr0", k>> \in held[k]
        /\ <<"ww0", k>> \in held[k] => proc[k] = "forked"
        /\ proc[k] \notin Running => held[k] = {}

\* What mapserv has yet to read is in the pipe or not yet written.
Asked ==
    \A w \in Workers :
        /\ pc[w] \in Unforked => rrpipe[cpid[w]] = 0
        /\ pc[w] \in {"mkostemp"} \cup Reading => unsent[w] = 0
        /\ pc[w] \in Forked /\ proc[cpid[w]] \in {"forked", "reading"} =>
              need[cpid[w]] = unsent[w] + rrpipe[cpid[w]]
        /\ pc[w] \in Forked /\ proc[cpid[w]] = "writing" => unsent[w] = 0

LEMMA KidEndsStep ==
    ASSUME TypeOK, KidOwned, OwnEnds, KidEnds, [Next]_vars
    PROVE  KidEnds'
<1> USE KidsAssumption, BoundsAssumption
        DEF KidEnds, KidOwned, OwnEnds, EndLeft, TypeOK, Engaged, Busy, Unforked, Forked, Reading, Waiting, Outcomes,
            Running, PipeEnds, Goto, ReturnNull, EndRead, Exiting, pvars, wvars, kvars
<1>1. ASSUME NEW w \in Workers, NEW n \in 1..MaxReq, Call(w, n) PROVE KidEnds'
  BY <1>1 DEF Call
<1>2. ASSUME NEW w \in Workers, Refuse(w) PROVE KidEnds'
  BY <1>2 DEF Refuse
<1>3. ASSUME NEW w \in Workers, PipeRrFail(w) PROVE KidEnds'
  BY <1>3 DEF PipeRrFail
<1>4. ASSUME NEW w \in Workers, Fork(w) PROVE KidEnds'
  BY <1>4 DEF Fork
<1>5. ASSUME NEW w \in Workers, ForkFail(w) PROVE KidEnds'
  BY <1>5 DEF ForkFail
<1>6. ASSUME NEW w \in Workers, CloseUnused(w) PROVE KidEnds'
  BY <1>6 DEF CloseUnused
<1>7. ASSUME NEW w \in Workers, WriteReq(w) PROVE KidEnds'
  BY <1>7 DEF WriteReq
<1>8. ASSUME NEW w \in Workers, WriteBroken(w) PROVE KidEnds'
  BY <1>8 DEF WriteBroken
<1>9. ASSUME NEW w \in Workers, CloseReq(w) PROVE KidEnds'
  BY <1>9 DEF CloseReq
<1>10. ASSUME NEW w \in Workers, MakeTemp(w) PROVE KidEnds'
  BY <1>10 DEF MakeTemp
<1>11. ASSUME NEW w \in Workers, MakeTempFail(w) PROVE KidEnds'
  BY <1>11 DEF MakeTempFail
<1>12. ASSUME NEW w \in Workers, NEW lost \in BOOLEAN, ReadChunk(w, lost) PROVE KidEnds'
  BY <1>12 DEF ReadChunk
<1>13. ASSUME NEW w \in Workers, ReadEOF(w) PROVE KidEnds'
  BY <1>13 DEF ReadEOF
<1>14. ASSUME NEW w \in Workers, ReadRetry(w) PROVE KidEnds'
  BY <1>14 DEF ReadRetry
<1>15. ASSUME NEW w \in Workers, ReadBroken(w) PROVE KidEnds'
  BY <1>15 DEF ReadBroken
<1>16. ASSUME NEW w \in Workers, NEW z \in Kids, Wait(w, z) PROVE KidEnds'
  BY <1>16 DEF Wait
<1>17. ASSUME NEW w \in Workers, Fdopen(w) PROVE KidEnds'
  BY <1>17 DEF Fdopen
<1>18. ASSUME NEW w \in Workers, FdopenFail(w) PROVE KidEnds'
  BY <1>18 DEF FdopenFail
<1>19. ASSUME NEW w \in Workers, Cleanup(w) PROVE KidEnds'
  BY <1>19 DEF Cleanup
<1>20. ASSUME NEW w \in Workers, NEW j \in Kids, PipeRr(w, j) PROVE KidEnds'
  BY <1>20 DEF PipeRr
<1>21. ASSUME NEW w \in Workers, PipeWw(w) PROVE KidEnds'
  BY <1>21 DEF PipeWw
<1>22. ASSUME NEW w \in Workers, PipeBelow3(w) PROVE KidEnds'
  BY <1>22 DEF PipeBelow3
<1>23. ASSUME NEW w \in Workers, PipeWwFail(w) PROVE KidEnds'
  BY <1>23 DEF PipeWwFail
<1>24. ASSUME NEW k \in Kids, Exec(k) PROVE KidEnds'
  BY <1>24 DEF Exec
<1>25. ASSUME NEW k \in Kids, KidRead(k) PROVE KidEnds'
  BY <1>25 DEF KidRead
<1>26. ASSUME NEW k \in Kids, NEW n \in 0..MaxResp, KidAnswer(k, n) PROVE KidEnds'
  BY <1>26 DEF KidAnswer
<1>27. ASSUME NEW k \in Kids, KidWrite(k) PROVE KidEnds'
  BY <1>27 DEF KidWrite
<1>28. ASSUME NEW k \in Kids, KidExit(k) PROVE KidEnds'
  BY <1>28 DEF KidExit
<1>29. ASSUME NEW k \in Kids, KidBroken(k) PROVE KidEnds'
  BY <1>29 DEF KidBroken
<1>30. ASSUME NEW k \in Kids, KidFail(k) PROVE KidEnds'
  BY <1>30 DEF KidFail
<1>31. ASSUME NEW k \in Kids, KidZombie(k) PROVE KidEnds'
  BY <1>31 DEF KidZombie
<1>32. ASSUME NEW k \in Kids, Adopted(k) PROVE KidEnds'
  BY <1>32 DEF Adopted
<1>33. CASE UNCHANGED vars
  BY <1>33 DEF vars
<1> HIDE DEF KidEnds
<1> QED
  BY <1>1, <1>2, <1>3, <1>4, <1>5, <1>6, <1>7, <1>8, <1>9, <1>10,
     <1>11, <1>12, <1>13, <1>14, <1>15, <1>16, <1>17, <1>18, <1>19, <1>20,
     <1>21, <1>22, <1>23, <1>24, <1>25, <1>26, <1>27, <1>28, <1>29, <1>30,
     <1>31, <1>32, <1>33
     DEF Next, Accept, Setup, Exchange, WaitAny, Finish, Serve

LEMMA AskedStep ==
    ASSUME TypeOK, KidOwned, OwnEnds, NotStarted, KidEnds, Asked, [Next]_vars
    PROVE  Asked'
<1> USE KidsAssumption, BoundsAssumption
        DEF Asked, KidOwned, NotStarted, TypeOK, Engaged, Busy, Unforked, Forked, Reading, Waiting, Outcomes,
            Running, PipeEnds, Goto, ReturnNull, EndRead, Exiting, pvars, wvars, kvars
<1>1. ASSUME NEW w \in Workers, NEW n \in 1..MaxReq, Call(w, n) PROVE Asked'
  BY <1>1 DEF Call
<1>2. ASSUME NEW w \in Workers, Refuse(w) PROVE Asked'
  BY <1>2 DEF Refuse
<1>3. ASSUME NEW w \in Workers, PipeRrFail(w) PROVE Asked'
  BY <1>3 DEF PipeRrFail
<1>4. ASSUME NEW w \in Workers, Fork(w) PROVE Asked'
  BY <1>4 DEF Fork
<1>5. ASSUME NEW w \in Workers, ForkFail(w) PROVE Asked'
  BY <1>5 DEF ForkFail
<1>6. ASSUME NEW w \in Workers, CloseUnused(w) PROVE Asked'
  BY <1>6 DEF CloseUnused
<1>7. ASSUME NEW w \in Workers, WriteReq(w) PROVE Asked'
  <2>1. /\ cpid[w] \in Kids /\ pc[w] = "write" /\ unsent[w] > 0
        /\ rrpipe' = [rrpipe EXCEPT ![cpid[w]] = @ + 1]
        /\ unsent' = [unsent EXCEPT ![w] = @ - 1]
        /\ UNCHANGED <<pc, cpid, proc, need>>
    BY <1>7 DEF WriteReq
  <2>2. CASE proc[cpid[w]] = "writing"
    BY <2>1, <2>2
  <2>3. ASSUME NEW v \in Workers, v # w
        PROVE  /\ unsent'[v] = unsent[v]
               /\ cpid[v] \in Kids => rrpipe'[cpid[v]] = rrpipe[cpid[v]]
    BY <2>1, <2>3
  <2>4. /\ unsent'[w] = unsent[w] - 1 /\ rrpipe'[cpid[w]] = rrpipe[cpid[w]] + 1
        /\ unsent[w] \in Nat /\ rrpipe[cpid[w]] \in Nat
    BY <2>1
  <2>5. unsent'[w] + rrpipe'[cpid[w]] = unsent[w] + rrpipe[cpid[w]]
    BY <2>4
  <2>6. ASSUME NEW v \in Workers, v # w, pc[v] \in Unforked \cup Forked
        PROVE  unsent'[v] = unsent[v] /\ rrpipe'[cpid[v]] = rrpipe[cpid[v]]
    BY <2>3, <2>6
  <2> QED
    BY <2>1, <2>2, <2>5, <2>6
<1>8. ASSUME NEW w \in Workers, WriteBroken(w) PROVE Asked'
  <2>1. /\ cpid[w] \in Kids /\ pc[w] = "write" /\ ~Open("rr0", cpid[w])
        /\ unsent' = [unsent EXCEPT ![w] = 0]
        /\ UNCHANGED <<pc, cpid, proc, need, rrpipe>>
    BY <1>8 DEF WriteBroken
  <2>2. proc[cpid[w]] \notin Running
    BY <2>1 DEF KidEnds, Open
  <2> QED
    BY <2>1, <2>2
<1>9. ASSUME NEW w \in Workers, CloseReq(w) PROVE Asked'
  BY <1>9 DEF CloseReq
<1>10. ASSUME NEW w \in Workers, MakeTemp(w) PROVE Asked'
  BY <1>10 DEF MakeTemp
<1>11. ASSUME NEW w \in Workers, MakeTempFail(w) PROVE Asked'
  BY <1>11 DEF MakeTempFail
<1>12. ASSUME NEW w \in Workers, NEW lost \in BOOLEAN, ReadChunk(w, lost) PROVE Asked'
  BY <1>12 DEF ReadChunk
<1>13. ASSUME NEW w \in Workers, ReadEOF(w) PROVE Asked'
  BY <1>13 DEF ReadEOF
<1>14. ASSUME NEW w \in Workers, ReadRetry(w) PROVE Asked'
  BY <1>14 DEF ReadRetry
<1>15. ASSUME NEW w \in Workers, ReadBroken(w) PROVE Asked'
  BY <1>15 DEF ReadBroken
<1>16. ASSUME NEW w \in Workers, NEW z \in Kids, Wait(w, z) PROVE Asked'
  BY <1>16 DEF Wait
<1>17. ASSUME NEW w \in Workers, Fdopen(w) PROVE Asked'
  BY <1>17 DEF Fdopen
<1>18. ASSUME NEW w \in Workers, FdopenFail(w) PROVE Asked'
  BY <1>18 DEF FdopenFail
<1>19. ASSUME NEW w \in Workers, Cleanup(w) PROVE Asked'
  BY <1>19 DEF Cleanup
<1>20. ASSUME NEW w \in Workers, NEW j \in Kids, PipeRr(w, j) PROVE Asked'
  <2>1. /\ \A v \in Workers : cpid[v] # j
        /\ cpid' = [cpid EXCEPT ![w] = j] /\ rrpipe' = [rrpipe EXCEPT ![j] = 0]
        /\ pc[w] = "pipe_rr" /\ pc' = [pc EXCEPT ![w] = "pipe_ww"]
        /\ UNCHANGED <<unsent, proc, need>>
    BY <1>20 DEF PipeRr, Free
  <2> QED
    BY <2>1
<1>21. ASSUME NEW w \in Workers, PipeWw(w) PROVE Asked'
  BY <1>21 DEF PipeWw
<1>22. ASSUME NEW w \in Workers, PipeBelow3(w) PROVE Asked'
  BY <1>22 DEF PipeBelow3
<1>23. ASSUME NEW w \in Workers, PipeWwFail(w) PROVE Asked'
  BY <1>23 DEF PipeWwFail
<1>24. ASSUME NEW k \in Kids, Exec(k) PROVE Asked'
  BY <1>24 DEF Exec
<1>25. ASSUME NEW k \in Kids, KidRead(k) PROVE Asked'
  BY <1>25 DEF KidRead
<1>26. ASSUME NEW k \in Kids, NEW n \in 0..MaxResp, KidAnswer(k, n) PROVE Asked'
  <2>1. /\ proc[k] = "reading" /\ proc' = [proc EXCEPT ![k] = "writing"]
        /\ need[k] = 0 \/ ~Open("rr1", k)
        /\ UNCHANGED <<pc, cpid, unsent, need, rrpipe>>
    BY <1>26 DEF KidAnswer
  <2>2. ASSUME NEW v \in Workers, cpid[v] = k, pc[v] \in Forked PROVE unsent[v] = 0
    <3>1. need[k] = unsent[v] + rrpipe[k] /\ unsent[v] \in Nat /\ rrpipe[k] \in Nat
      BY <2>1, <2>2
    <3>2. CASE need[k] = 0
      BY <3>1, <3>2
    <3>3. CASE ~Open("rr1", k)
      <4>1. <<"rr1", k>> \notin fds
        BY <3>3 DEF Open
      <4>2. ~EndLeft(v, "rr1")
        BY <2>2, <4>1 DEF OwnEnds
      <4>3. pc[v] \in {"mkostemp"} \cup Reading
        BY <2>2, <4>2 DEF EndLeft
      <4> QED
        BY <4>3
    <3> QED
      BY <2>1, <3>2, <3>3
  <2> QED
    BY <2>1, <2>2
<1>27. ASSUME NEW k \in Kids, KidWrite(k) PROVE Asked'
  BY <1>27 DEF KidWrite
<1>28. ASSUME NEW k \in Kids, KidExit(k) PROVE Asked'
  BY <1>28 DEF KidExit
<1>29. ASSUME NEW k \in Kids, KidBroken(k) PROVE Asked'
  BY <1>29 DEF KidBroken
<1>30. ASSUME NEW k \in Kids, KidFail(k) PROVE Asked'
  BY <1>30 DEF KidFail
<1>31. ASSUME NEW k \in Kids, KidZombie(k) PROVE Asked'
  BY <1>31 DEF KidZombie
<1>32. ASSUME NEW k \in Kids, Adopted(k) PROVE Asked'
  BY <1>32 DEF Adopted
<1>33. CASE UNCHANGED vars
  BY <1>33 DEF vars
<1> HIDE DEF Asked
<1> QED
  BY <1>1, <1>2, <1>3, <1>4, <1>5, <1>6, <1>7, <1>8, <1>9, <1>10,
     <1>11, <1>12, <1>13, <1>14, <1>15, <1>16, <1>17, <1>18, <1>19, <1>20,
     <1>21, <1>22, <1>23, <1>24, <1>25, <1>26, <1>27, <1>28, <1>29, <1>30,
     <1>31, <1>32, <1>33
     DEF Next, Accept, Setup, Exchange, WaitAny, Finish, Serve

LEMMA WaitsAlways == Spec => [](KidEnds /\ Asked)
<1>1. Init => KidEnds /\ Asked
  BY DEF Init, KidEnds, Asked, Unforked, Reading, Forked, Running
<1>2. Bookkeeping /\ KidEnds /\ Asked /\ [Next]_vars => (KidEnds /\ Asked)'
  BY KidEndsStep, AskedStep DEF Bookkeeping
<1> QED
  BY <1>1, <1>2, BookkeepingAlways, PTL DEF Spec

(***************************************************************************)
(* With one thread a call that has forked has its child until it has       *)
(* reaped it, and there is no other child.                                 *)
(***************************************************************************)
Served ==
    /\ \A w \in Workers : pc[w] \in Forked \cup Waiting => proc[cpid[w]] # "none"
    /\ \A k \in Kids : proc[k] # "none" =>
          \E w \in Workers : cpid[w] = k /\ pc[w] \in Forked \cup Waiting

LEMMA ServedStep ==
    ASSUME Alone, TypeOK, KidOwned, Gone, Served, [Next]_vars
    PROVE  Served'
<1> USE KidsAssumption, BoundsAssumption
        DEF Alone, Served, KidOwned, TypeOK, Engaged, Busy, Unforked, Forked, Reading, Waiting, Outcomes,
            Running, Goto, ReturnNull, EndRead, Exiting, pvars, wvars, kvars
<1>1. ASSUME NEW w \in Workers, NEW n \in 1..MaxReq, Call(w, n) PROVE Served'
  BY <1>1 DEF Call
<1>2. ASSUME NEW w \in Workers, Refuse(w) PROVE Served'
  BY <1>2 DEF Refuse
<1>3. ASSUME NEW w \in Workers, PipeRrFail(w) PROVE Served'
  BY <1>3 DEF PipeRrFail
<1>4. ASSUME NEW w \in Workers, Fork(w) PROVE Served'
  BY <1>4 DEF Fork
<1>5. ASSUME NEW w \in Workers, ForkFail(w) PROVE Served'
  BY <1>5 DEF ForkFail
<1>6. ASSUME NEW w \in Workers, CloseUnused(w) PROVE Served'
  BY <1>6 DEF CloseUnused
<1>7. ASSUME NEW w \in Workers, WriteReq(w) PROVE Served'
  BY <1>7 DEF WriteReq
<1>8. ASSUME NEW w \in Workers, WriteBroken(w) PROVE Served'
  BY <1>8 DEF WriteBroken
<1>9. ASSUME NEW w \in Workers, CloseReq(w) PROVE Served'
  BY <1>9 DEF CloseReq
<1>10. ASSUME NEW w \in Workers, MakeTemp(w) PROVE Served'
  BY <1>10 DEF MakeTemp
<1>11. ASSUME NEW w \in Workers, MakeTempFail(w) PROVE Served'
  BY <1>11 DEF MakeTempFail
<1>12. ASSUME NEW w \in Workers, NEW lost \in BOOLEAN, ReadChunk(w, lost) PROVE Served'
  BY <1>12 DEF ReadChunk
<1>13. ASSUME NEW w \in Workers, ReadEOF(w) PROVE Served'
  BY <1>13 DEF ReadEOF
<1>14. ASSUME NEW w \in Workers, ReadRetry(w) PROVE Served'
  BY <1>14 DEF ReadRetry
<1>15. ASSUME NEW w \in Workers, ReadBroken(w) PROVE Served'
  BY <1>15 DEF ReadBroken
<1>16. ASSUME NEW w \in Workers, NEW z \in Kids, Wait(w, z) PROVE Served'
  BY <1>16 DEF Wait
<1>17. ASSUME NEW w \in Workers, Fdopen(w) PROVE Served'
  BY <1>17 DEF Fdopen
<1>18. ASSUME NEW w \in Workers, FdopenFail(w) PROVE Served'
  BY <1>18 DEF FdopenFail
<1>19. ASSUME NEW w \in Workers, Cleanup(w) PROVE Served'
  <2>1. /\ pc[w] \in Outcomes /\ pc' = [pc EXCEPT ![w] = "idle"]
        /\ proc' = proc
    BY <1>19 DEF Cleanup
  <2>2. \A k \in Kids : proc[k] = "none"
    BY <2>1
  <2> QED
    BY <2>1, <2>2
<1>20. ASSUME NEW w \in Workers, NEW j \in Kids, PipeRr(w, j) PROVE Served'
  <2>1. /\ pc[w] = "pipe_rr" /\ pc' = [pc EXCEPT ![w] = "pipe_ww"]
        /\ proc' = proc
    BY <1>20 DEF PipeRr
  <2>2. \A k \in Kids : proc[k] = "none"
    BY <2>1
  <2> QED
    BY <2>1, <2>2
<1>21. ASSUME NEW w \in Workers, PipeWw(w) PROVE Served'
  BY <1>21 DEF PipeWw
<1>22. ASSUME NEW w \in Workers, PipeBelow3(w) PROVE Served'
  BY <1>22 DEF PipeBelow3
<1>23. ASSUME NEW w \in Workers, PipeWwFail(w) PROVE Served'
  BY <1>23 DEF PipeWwFail
<1>24. ASSUME NEW k \in Kids, Exec(k) PROVE Served'
  BY <1>24 DEF Exec
<1>25. ASSUME NEW k \in Kids, KidRead(k) PROVE Served'
  BY <1>25 DEF KidRead
<1>26. ASSUME NEW k \in Kids, NEW n \in 0..MaxResp, KidAnswer(k, n) PROVE Served'
  BY <1>26 DEF KidAnswer
<1>27. ASSUME NEW k \in Kids, KidWrite(k) PROVE Served'
  BY <1>27 DEF KidWrite
<1>28. ASSUME NEW k \in Kids, KidExit(k) PROVE Served'
  BY <1>28 DEF KidExit
<1>29. ASSUME NEW k \in Kids, KidBroken(k) PROVE Served'
  BY <1>29 DEF KidBroken
<1>30. ASSUME NEW k \in Kids, KidFail(k) PROVE Served'
  BY <1>30 DEF KidFail
<1>31. ASSUME NEW k \in Kids, KidZombie(k) PROVE Served'
  BY <1>31 DEF KidZombie
<1>32. ASSUME NEW k \in Kids, Adopted(k) PROVE Served'
  BY <1>32 DEF Adopted, Gone
<1>33. CASE UNCHANGED vars
  BY <1>33 DEF vars
<1> HIDE DEF Served
<1> QED
  BY <1>1, <1>2, <1>3, <1>4, <1>5, <1>6, <1>7, <1>8, <1>9, <1>10,
     <1>11, <1>12, <1>13, <1>14, <1>15, <1>16, <1>17, <1>18, <1>19, <1>20,
     <1>21, <1>22, <1>23, <1>24, <1>25, <1>26, <1>27, <1>28, <1>29, <1>30,
     <1>31, <1>32, <1>33
     DEF Next, Accept, Setup, Exchange, WaitAny, Finish, Serve

LEMMA ServedAlways == ASSUME Alone PROVE Spec => []Served
<1>1. Init => Served
  BY DEF Init, Served, Forked, Reading, Waiting
<1>2. Bookkeeping /\ Gone /\ Served /\ [Next]_vars => Served'
  BY ServedStep DEF Bookkeeping
<1> QED
  BY <1>1, <1>2, BookkeepingAlways, GoneAlways, PTL DEF Spec

\* The ends of a call's pipes are open in the host or in its own child.
LEMMA OpenWhere ==
    ASSUME Bookkeeping, GivenUp, Inherited, NEW w \in Workers, cpid[w] \in Kids,
           NEW e \in PipeEnds, Open(e, cpid[w])
    PROVE  EndLeft(w, e) \/ <<e, cpid[w]>> \in held[cpid[w]]
<1>1. CASE <<e, cpid[w]>> \in fds
  BY <1>1 DEF Bookkeeping, OwnEnds
<1>2. CASE \E c \in Kids : <<e, cpid[w]>> \in held[c]
  BY <1>2 DEF Inherited, GivenUp
<1> QED
  BY <1>1, <1>2 DEF Open

(***************************************************************************)
(* With one thread, a call and its child never wait for each other.        *)
(***************************************************************************)
THEOREM GoesOn == ASSUME Alone PROVE Spec => []NoStandstill
<1> DEFINE All == /\ Bookkeeping /\ GivenUp /\ Inherited /\ RequestEnd
                  /\ KidEnds /\ Asked /\ Served
<1>1. ASSUME All, NEW w \in Workers, Blocked(w)
      PROVE  /\ cpid[w] \in Kids /\ proc[cpid[w]] \in Running \cup {"exiting"}
             /\ ~KidBlocked(cpid[w])
  <2> DEFINE k == cpid[w]
  <2>1. pc[w] \in Forked \cup Waiting
    BY <1>1 DEF Blocked, Forked
  <2>2. k \in Kids /\ proc[k] # "none"
    BY <1>1, <2>1 DEF Bookkeeping, KidOwned, Engaged, Served
  <2>3. proc[k] \in Running \cup {"exiting", "zombie"} /\ rrpipe[k] \in 0..Cap
    BY <1>1, <2>2 DEF Bookkeeping, TypeOK
  <2>4. Open("rr1", k) => pc[w] \in {"close_unused", "write"} \/ proc[k] = "forked"
    BY <1>1, <2>1, <2>2, OpenWhere DEF EndLeft, RequestEnd, PipeEnds, Forked, Waiting, Reading, Unforked
  <2>5. Open("ww0", k) => pc[w] \in Forked \/ proc[k] = "forked"
    BY <1>1, <2>1, <2>2, OpenWhere DEF EndLeft, KidEnds, PipeEnds, Forked, Waiting, Reading
  <2>6. CASE pc[w] = "write"
    <3>1. unsent[w] > 0 /\ Open("rr0", k) /\ rrpipe[k] = Cap
      BY <1>1, <2>6 DEF Blocked, Reading, Waiting
    <3>2. <<"rr0", k>> \in held[k]
      BY <1>1, <2>2, <2>6, <3>1, OpenWhere DEF EndLeft, PipeEnds, Unforked, Forked, Reading
    <3>3. proc[k] \in {"forked", "reading"}
      <4>1. proc[k] \in Running
        BY <1>1, <2>2, <3>2 DEF KidEnds
      <4>2. proc[k] # "writing"
        BY <1>1, <2>6, <3>1 DEF Asked, Forked
      <4> QED
        BY <4>1, <4>2 DEF Running
    <3> QED
      BY <2>2, <3>1, <3>3, BoundsAssumption DEF KidBlocked, Running
  <2>7. CASE pc[w] \in Reading
    <3>1. wwpipe[k] = 0 /\ Open("ww1", k)
      BY <1>1, <2>7 DEF Blocked, Reading, Waiting
    <3>2. <<"ww1", k>> \in held[k]
      BY <1>1, <2>2, <2>7, <3>1, OpenWhere DEF EndLeft, PipeEnds, Reading
    <3>3. proc[k] \in Running
      BY <1>1, <2>2, <3>2 DEF KidEnds
    <3> QED
      BY <2>2, <2>4, <2>7, <3>1, <3>3, BoundsAssumption DEF KidBlocked, Reading
  <2>8. CASE pc[w] \in Waiting
    <3>1. proc[k] # "zombie"
      BY <1>1, <2>2, <2>8 DEF Blocked, Reading, Waiting
    <3> QED
      BY <2>2, <2>3, <2>4, <2>5, <2>8, <3>1 DEF KidBlocked, Waiting, Forked, Reading
  <2> QED
    BY <1>1, <2>6, <2>7, <2>8 DEF Blocked
<1>2. ASSUME All, NEW k \in Kids, KidBlocked(k)
      PROVE  \E w \in Workers : cpid[w] = k /\ pc[w] \in Forked /\ ~Blocked(w)
  <2>1. proc[k] \in {"reading", "writing"}
    BY <1>2 DEF KidBlocked
  <2>2. PICK w \in Workers : cpid[w] = k /\ pc[w] \in Forked \cup Waiting
    BY <1>2, <2>1 DEF Served
  <2>3. ~Blocked(w)
    BY <1>1, <1>2, <2>2
  <2>4. CASE pc[w] \in Waiting
    <3>1. PICK z \in Kids : proc[z] = "zombie"
      BY <2>3, <2>4 DEF Blocked
    <3>2. z = k
      BY <1>2, <2>2, <3>1 DEF Served, Alone
    <3> QED
      BY <2>1, <3>1, <3>2
  <2> QED
    BY <2>2, <2>3, <2>4
<1>3. All => NoStandstill
  BY <1>1, <1>2 DEF NoStandstill
<1> QED
  BY <1>3, BookkeepingAlways, GivenUpAlways, InheritedAlways, WaitsAlways, ServedAlways, PTL

-----------------------------------------------------------------------------
(***************************************************************************)
(* How much of a call is left: the statements it has yet to reach, two     *)
(* steps for each chunk of the request or the answer (into the pipe and    *)
(* out of it), and the life of its child.                                  *)
(***************************************************************************)
StepsFrom(l) ==
    CASE l = "pipe_rr" -> 9 [] l = "pipe_ww" -> 8 [] l = "fork" -> 7
      [] l = "close_unused" -> 6 [] l = "write" -> 5 [] l = "mkostemp" -> 4
      [] l \in Reading -> 3 [] l \in Waiting -> 2 [] l = "fdopen" -> 1
      [] OTHER -> 0

KidLeft(k) ==
    rrpipe[k] + wwpipe[k] +
    CASE proc[k] = "forked" -> 2 * MaxResp + 6
      [] proc[k] = "reading" -> 2 * MaxResp + 5
      [] proc[k] = "writing" -> 2 * todo[k] + 4
      [] proc[k] = "exiting" -> 1
      [] OTHER -> 0

Left(w) ==
    StepsFrom(pc[w]) + 2 * unsent[w] +
    CASE pc[w] \in {"pipe_rr"} \cup Unforked -> 2 * MaxResp + 6
      [] pc[w] \in Forked \cup Waiting -> KidLeft(cpid[w])
      [] OTHER -> 0

LEMMA LeftStep ==
    ASSUME Alone, "first" \notin ReadFails, TypeOK, KidOwned, NotStarted, Gone, Asked, Served,
           Next, NEW v \in Workers, pc[v] \in Busy
    PROVE  Left(v)' < Left(v)
<1> USE KidsAssumption, BoundsAssumption
        DEF Alone, TypeOK, KidOwned, Served, Engaged, Busy, Unforked, Forked, Reading,
            Waiting, Outcomes, Running, Left, KidLeft, StepsFrom,
            Goto, ReturnNull, EndRead, Exiting, pvars, wvars, kvars
<1>1. ASSUME NEW w \in Workers, NEW n \in 1..MaxReq, Call(w, n) PROVE Left(v)' < Left(v)
  BY <1>1 DEF Call
<1>2. ASSUME NEW w \in Workers, Refuse(w) PROVE Left(v)' < Left(v)
  BY <1>2 DEF Refuse
<1>3. ASSUME NEW w \in Workers, PipeRrFail(w) PROVE Left(v)' < Left(v)
  BY <1>3 DEF PipeRrFail
<1>4. ASSUME NEW w \in Workers, Fork(w) PROVE Left(v)' < Left(v)
  BY <1>4 DEF Fork, NotStarted, Asked
<1>5. ASSUME NEW w \in Workers, ForkFail(w) PROVE Left(v)' < Left(v)
  BY <1>5 DEF ForkFail
<1>6. ASSUME NEW w \in Workers, CloseUnused(w) PROVE Left(v)' < Left(v)
  BY <1>6 DEF CloseUnused
<1>7. ASSUME NEW w \in Workers, WriteReq(w) PROVE Left(v)' < Left(v)
  BY <1>7 DEF WriteReq
<1>8. ASSUME NEW w \in Workers, WriteBroken(w) PROVE Left(v)' < Left(v)
  BY <1>8 DEF WriteBroken
<1>9. ASSUME NEW w \in Workers, CloseReq(w) PROVE Left(v)' < Left(v)
  BY <1>9 DEF CloseReq
<1>10. ASSUME NEW w \in Workers, MakeTemp(w) PROVE Left(v)' < Left(v)
  BY <1>10 DEF MakeTemp
<1>11. ASSUME NEW w \in Workers, MakeTempFail(w) PROVE Left(v)' < Left(v)
  BY <1>11 DEF MakeTempFail
<1>12. ASSUME NEW w \in Workers, NEW lost \in BOOLEAN, ReadChunk(w, lost) PROVE Left(v)' < Left(v)
  BY <1>12 DEF ReadChunk
<1>13. ASSUME NEW w \in Workers, ReadEOF(w) PROVE Left(v)' < Left(v)
  BY <1>13 DEF ReadEOF
<1>14. ASSUME NEW w \in Workers, ReadRetry(w) PROVE Left(v)' < Left(v)
  BY <1>14 DEF ReadRetry
<1>15. ASSUME NEW w \in Workers, ReadBroken(w) PROVE Left(v)' < Left(v)
  BY <1>15 DEF ReadBroken
<1>16. ASSUME NEW w \in Workers, NEW z \in Kids, Wait(w, z) PROVE Left(v)' < Left(v)
  BY <1>16 DEF Wait
<1>17. ASSUME NEW w \in Workers, Fdopen(w) PROVE Left(v)' < Left(v)
  BY <1>17 DEF Fdopen
<1>18. ASSUME NEW w \in Workers, FdopenFail(w) PROVE Left(v)' < Left(v)
  BY <1>18 DEF FdopenFail
<1>19. ASSUME NEW w \in Workers, Cleanup(w) PROVE Left(v)' < Left(v)
  BY <1>19 DEF Cleanup
<1>20. ASSUME NEW w \in Workers, NEW j \in Kids, PipeRr(w, j) PROVE Left(v)' < Left(v)
  BY <1>20 DEF PipeRr
<1>21. ASSUME NEW w \in Workers, PipeWw(w) PROVE Left(v)' < Left(v)
  BY <1>21 DEF PipeWw
<1>22. ASSUME NEW w \in Workers, PipeBelow3(w) PROVE Left(v)' < Left(v)
  BY <1>22 DEF PipeBelow3
<1>23. ASSUME NEW w \in Workers, PipeWwFail(w) PROVE Left(v)' < Left(v)
  BY <1>23 DEF PipeWwFail
<1>24. ASSUME NEW k \in Kids, Exec(k) PROVE Left(v)' < Left(v)
  BY <1>24 DEF Exec
<1>25. ASSUME NEW k \in Kids, KidRead(k) PROVE Left(v)' < Left(v)
  BY <1>25 DEF KidRead
<1>26. ASSUME NEW k \in Kids, NEW n \in 0..MaxResp, KidAnswer(k, n) PROVE Left(v)' < Left(v)
  BY <1>26 DEF KidAnswer
<1>27. ASSUME NEW k \in Kids, KidWrite(k) PROVE Left(v)' < Left(v)
  BY <1>27 DEF KidWrite
<1>28. ASSUME NEW k \in Kids, KidExit(k) PROVE Left(v)' < Left(v)
  BY <1>28 DEF KidExit
<1>29. ASSUME NEW k \in Kids, KidBroken(k) PROVE Left(v)' < Left(v)
  BY <1>29 DEF KidBroken
<1>30. ASSUME NEW k \in Kids, KidFail(k) PROVE Left(v)' < Left(v)
  BY <1>30 DEF KidFail
<1>31. ASSUME NEW k \in Kids, KidZombie(k) PROVE Left(v)' < Left(v)
  BY <1>31 DEF KidZombie
<1>32. ASSUME NEW k \in Kids, Adopted(k) PROVE Left(v)' < Left(v)
  BY <1>32 DEF Adopted, Gone
<1> HIDE DEF Left
<1> QED
  BY <1>1, <1>2, <1>3, <1>4, <1>5, <1>6, <1>7, <1>8, <1>9, <1>10,
     <1>11, <1>12, <1>13, <1>14, <1>15, <1>16, <1>17, <1>18, <1>19, <1>20,
     <1>21, <1>22, <1>23, <1>24, <1>25, <1>26, <1>27, <1>28, <1>29, <1>30,
     <1>31, <1>32
     DEF Next, Accept, Setup, Exchange, WaitAny, Finish, Serve

LEMMA LeftType == ASSUME TypeOK, KidOwned, NEW w \in Workers PROVE Left(w) \in Nat
<1>1. StepsFrom(pc[w]) \in Nat
  BY DEF StepsFrom
<1>2. ASSUME NEW k \in Kids PROVE KidLeft(k) \in Nat
  BY BoundsAssumption DEF KidLeft, TypeOK, NoAnswer
<1>3. pc[w] \in Forked \cup Waiting => cpid[w] \in Kids
  BY DEF KidOwned, Engaged
<1>4. unsent[w] \in Nat
  BY BoundsAssumption DEF TypeOK
<1> HIDE DEF StepsFrom, KidLeft
<1> QED
  BY <1>1, <1>2, <1>3, <1>4, BoundsAssumption DEF Left

(***************************************************************************)
(* With one thread and a first read that does not fail, each step of the   *)
(* host or of the child uses up some of what is left of the call, so that  *)
(* it ends after no more steps than there are in Left; by NoStandstill     *)
(* there always is a next one.                                             *)
(***************************************************************************)
UsesUp ==
    /\ [](\A w \in Workers : Left(w) \in Nat)
    /\ [][\A w \in Workers : pc[w] \in Busy => Left(w)' < Left(w)]_vars

THEOREM CallShrinks ==
    ASSUME Alone, "first" \notin ReadFails
    PROVE  Spec => UsesUp
<1> DEFINE Typed == \A w \in Workers : Left(w) \in Nat
           Shrinks == \A w \in Workers : pc[w] \in Busy => Left(w)' < Left(w)
<1>1. Bookkeeping => Typed
  BY LeftType DEF Bookkeeping
<1>2. Bookkeeping /\ Gone /\ Asked /\ Served /\ [Next]_vars => [Shrinks]_vars
  BY LeftStep DEF Bookkeeping
<1>3. Spec => []Typed /\ [][Shrinks]_vars
  <2> HIDE DEF Typed, Shrinks
  <2> QED
    BY <1>1, <1>2, BookkeepingAlways, GoneAlways, WaitsAlways, ServedAlways, PTL DEF Spec
<1> QED
  BY <1>3 DEF UsesUp

-----------------------------------------------------------------------------
(***************************************************************************)
(* Any number of threads, and a mapserv that reads CONTENT_LENGTH chunks.  *)
(* Then no call stands in the way of its own child; but the answer of a    *)
(* child nobody reads any more can stay in a pipe that a third child holds *)
(* open.                                                                   *)
(***************************************************************************)
MovesOn ==
    \/ \E w \in Owing : ~Blocked(w)
    \/ \E k \in Kids : proc[k] \in Running \cup {"exiting"} /\ ~KidBlocked(k)

\* The call of k has stopped reading, after a read or mkostemp that failed.
Unheard(k) == \A w \in Workers : cpid[w] = k => pc[w] \notin Forked

StuckUnheard ==
    up /\ Owing # {} => MovesOn \/ \E k \in Kids : KidBlocked(k) /\ Unheard(k)

\* A call that has its child waiting for it can go on.
LEMMA HeardServed ==
    ASSUME ~ReadsToEOF, Bookkeeping, Asked,
           NEW w \in Workers, pc[w] \in Forked, KidBlocked(cpid[w])
    PROVE  ~Blocked(w)
<1> DEFINE k == cpid[w]
<1>1. k \in Kids /\ unsent[w] \in Nat /\ rrpipe[k] \in Nat
  BY BoundsAssumption DEF Bookkeeping, TypeOK, KidOwned, Engaged
<1>2. CASE proc[k] = "reading"
  <2>1. need[k] > 0 /\ rrpipe[k] = 0
    BY <1>2 DEF KidBlocked
  <2>2. need[k] = unsent[w] + rrpipe[k]
    BY <1>1, <1>2 DEF Asked
  <2>3. unsent[w] # 0
    BY <1>1, <2>1, <2>2
  <2>4. pc[w] \notin Reading /\ pc[w] \notin Waiting
    BY <2>3 DEF Asked, Forked, Reading, Waiting
  <2> QED
    BY <2>1, <2>4, BoundsAssumption DEF Blocked
<1>3. CASE proc[k] = "writing"
  <2>1. wwpipe[k] = Cap
    BY <1>3 DEF KidBlocked
  <2>2. unsent[w] = 0
    BY <1>3 DEF Asked
  <2> QED
    BY <2>1, <2>2, BoundsAssumption DEF Blocked, Forked, Reading, Waiting
<1> QED
  BY <1>2, <1>3 DEF KidBlocked

(***************************************************************************)
(* When no call and no child can go on, there is a child whose answer      *)
(* nobody reads: the pipes alone, full in both directions, never stop      *)
(* calls that read to the end.                                             *)
(***************************************************************************)
THEOREM OnlyUnheardStuck ==
    ASSUME ~ReadsToEOF
    PROVE  Spec => []StuckUnheard
<1>1. Bookkeeping /\ KidEnds /\ Asked /\ ReapBalance => StuckUnheard
  <2> SUFFICES ASSUME Bookkeeping, KidEnds, Asked, ReapBalance, up, Owing # {}, ~MovesOn,
                      \A k \in Kids : KidBlocked(k) => ~Unheard(k)
               PROVE  FALSE
    BY DEF StuckUnheard
  <2>1. \A k \in Kids : proc[k] \in {"none", "zombie"} /\ held[k] = {}
    <3> SUFFICES ASSUME NEW k \in Kids, proc[k] \in Running \cup {"exiting"}
                 PROVE  FALSE
      BY DEF Bookkeeping, TypeOK, KidEnds, Running
    <3>1. KidBlocked(k)
      BY DEF MovesOn
    <3>2. PICK w \in Workers : cpid[w] = k /\ pc[w] \in Forked
      BY <3>1 DEF Unheard
    <3>3. ~Blocked(w)
      BY <3>1, <3>2, HeardServed
    <3> QED
      BY <3>2, <3>3 DEF MovesOn, Owing
  <2>2. PICK w \in Owing : Blocked(w)
    BY DEF MovesOn
  <2>3. w \in Workers /\ pc[w] \in Forked \cup Waiting /\ cpid[w] \in Kids
    BY DEF Owing, Bookkeeping, KidOwned, Engaged
  <2>4. CASE pc[w] = "write"
    BY <2>1, <2>2, <2>3, <2>4
       DEF Blocked, Open, Bookkeeping, OwnEnds, EndLeft, PipeEnds, Unforked, Reading, Waiting
  <2>5. CASE pc[w] \in Reading
    BY <2>1, <2>2, <2>3, <2>5
       DEF Blocked, Open, Bookkeeping, OwnEnds, EndLeft, PipeEnds, Reading, Waiting
  <2>6. CASE pc[w] \in Waiting
    <3>1. Unreaped = {}
      BY <2>1, <2>2, <2>6 DEF Blocked, Unreaped, Reading, Waiting
    <3>2. Cardinality(Owing) = 0
      BY <3>1, FS_EmptySet DEF ReapBalance
    <3>3. IsFiniteSet(Owing)
      BY WorkersAssumption, FS_Subset DEF Owing
    <3> QED
      BY <3>2, <3>3, FS_EmptySet
  <2> QED
    BY <2>2, <2>4, <2>5, <2>6 DEF Blocked
<1> QED
  BY <1>1, BookkeepingAlways, WaitsAlways, ReapBalanced, PTL
=============================================================================
