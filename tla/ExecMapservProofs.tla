------------------------- MODULE ExecMapservProofs -------------------------
(***************************************************************************)
(* What holds of sp_execMapserv for any number of workers, kids, chunks    *)
(* and descriptors: types, the balance of fork and wait, the closing of    *)
(* descriptors, the completeness of a returned stream, and the refinement  *)
(* of BackendCall.                                                         *)
(***************************************************************************)
EXTENDS ExecMapservInvProofs, FiniteSetTheorems

(***************************************************************************)
(* Only fork() and wait() change who is owed a wait, and each changes both *)
(* sides by one.                                                           *)
(***************************************************************************)
LEMMA Uncounted ==
    ASSUME TypeOK, KidOwned, [Next]_vars,
           \A w \in Workers : ~Fork(w) /\ ~ForkFail(w) /\ ~WaitAny(w),
           \A k \in Kids : ~Adopted(k)
    PROVE  UNCHANGED <<Unreaped, Owing, up>>
<1> USE DEF TypeOK, KidOwned, Unreaped, Owing, Running, Engaged, Busy, Unforked, Forked, Reading, Waiting, Outcomes,
            Goto, ReturnNull, TakeLow,
            EndRead, Exiting, pvars, wvars, kvars
<1>1. ASSUME NEW w \in Workers, NEW n \in 1..MaxReq, Call(w, n) PROVE UNCHANGED <<Unreaped, Owing, up>>
  BY <1>1 DEF Call
<1>2. ASSUME NEW w \in Workers, Refuse(w) PROVE UNCHANGED <<Unreaped, Owing, up>>
  BY <1>2 DEF Refuse
<1>3. ASSUME NEW w \in Workers, NEW k \in Kids, PipeRr(w, k) PROVE UNCHANGED <<Unreaped, Owing, up>>
  BY <1>3 DEF PipeRr
<1>4. ASSUME NEW w \in Workers, PipeRrFail(w) PROVE UNCHANGED <<Unreaped, Owing, up>>
  BY <1>4 DEF PipeRrFail
<1>5. ASSUME NEW w \in Workers, PipeWw(w) PROVE UNCHANGED <<Unreaped, Owing, up>>
  BY <1>5 DEF PipeWw
<1>6. ASSUME NEW w \in Workers, PipeBelow3(w) PROVE UNCHANGED <<Unreaped, Owing, up>>
  BY <1>6 DEF PipeBelow3
<1>7. ASSUME NEW w \in Workers, PipeWwFail(w) PROVE UNCHANGED <<Unreaped, Owing, up>>
  BY <1>7 DEF PipeWwFail
<1>8. ASSUME NEW w \in Workers, CloseUnused(w) PROVE UNCHANGED <<Unreaped, Owing, up>>
  BY <1>8 DEF CloseUnused
<1>9. ASSUME NEW w \in Workers, WriteReq(w) PROVE UNCHANGED <<Unreaped, Owing, up>>
  BY <1>9 DEF WriteReq
<1>10. ASSUME NEW w \in Workers, WriteBroken(w) PROVE UNCHANGED <<Unreaped, Owing, up>>
  BY <1>10 DEF WriteBroken
<1>11. ASSUME NEW w \in Workers, CloseReq(w) PROVE UNCHANGED <<Unreaped, Owing, up>>
  BY <1>11 DEF CloseReq
<1>12. ASSUME NEW w \in Workers, MakeTemp(w) PROVE UNCHANGED <<Unreaped, Owing, up>>
  BY <1>12 DEF MakeTemp
<1>13. ASSUME NEW w \in Workers, MakeTempFail(w) PROVE UNCHANGED <<Unreaped, Owing, up>>
  BY <1>13 DEF MakeTempFail
<1>14. ASSUME NEW w \in Workers, NEW lost \in BOOLEAN, ReadChunk(w, lost) PROVE UNCHANGED <<Unreaped, Owing, up>>
  BY <1>14 DEF ReadChunk
<1>15. ASSUME NEW w \in Workers, ReadEOF(w) PROVE UNCHANGED <<Unreaped, Owing, up>>
  BY <1>15 DEF ReadEOF
<1>16. ASSUME NEW w \in Workers, ReadRetry(w) PROVE UNCHANGED <<Unreaped, Owing, up>>
  BY <1>16 DEF ReadRetry
<1>17. ASSUME NEW w \in Workers, ReadBroken(w) PROVE UNCHANGED <<Unreaped, Owing, up>>
  BY <1>17 DEF ReadBroken
<1>18. ASSUME NEW w \in Workers, Fdopen(w) PROVE UNCHANGED <<Unreaped, Owing, up>>
  BY <1>18 DEF Fdopen
<1>19. ASSUME NEW w \in Workers, FdopenFail(w) PROVE UNCHANGED <<Unreaped, Owing, up>>
  BY <1>19 DEF FdopenFail
<1>20. ASSUME NEW w \in Workers, Cleanup(w) PROVE UNCHANGED <<Unreaped, Owing, up>>
  BY <1>20 DEF Cleanup
<1>21. ASSUME NEW k \in Kids, Exec(k) PROVE UNCHANGED <<Unreaped, Owing, up>>
  BY <1>21 DEF Exec
<1>22. ASSUME NEW k \in Kids, KidRead(k) PROVE UNCHANGED <<Unreaped, Owing, up>>
  BY <1>22 DEF KidRead
<1>23. ASSUME NEW k \in Kids, NEW n \in 0..MaxResp, KidAnswer(k, n) PROVE UNCHANGED <<Unreaped, Owing, up>>
  BY <1>23 DEF KidAnswer
<1>24. ASSUME NEW k \in Kids, KidWrite(k) PROVE UNCHANGED <<Unreaped, Owing, up>>
  BY <1>24 DEF KidWrite
<1>25. ASSUME NEW k \in Kids, KidExit(k) PROVE UNCHANGED <<Unreaped, Owing, up>>
  BY <1>25 DEF KidExit
<1>26. ASSUME NEW k \in Kids, KidBroken(k) PROVE UNCHANGED <<Unreaped, Owing, up>>
  BY <1>26 DEF KidBroken
<1>27. ASSUME NEW k \in Kids, KidFail(k) PROVE UNCHANGED <<Unreaped, Owing, up>>
  BY <1>27 DEF KidFail
<1>28. ASSUME NEW k \in Kids, KidZombie(k) PROVE UNCHANGED <<Unreaped, Owing, up>>
  BY <1>28 DEF KidZombie
<1>29. CASE UNCHANGED vars
  BY <1>29 DEF vars
<1> HIDE DEF TypeOK, KidOwned, Unreaped, Owing, Running, Engaged, Busy, Unforked, Forked, Reading, Waiting, Outcomes,
            Goto, ReturnNull, TakeLow,
            EndRead, Exiting, pvars, wvars, kvars
<1> QED
  BY <1>1, <1>2, <1>3, <1>4, <1>5, <1>6, <1>7, <1>8, <1>9, <1>10,
     <1>11, <1>12, <1>13, <1>14, <1>15, <1>16, <1>17, <1>18, <1>19, <1>20,
     <1>21, <1>22, <1>23, <1>24, <1>25, <1>26, <1>27, <1>28, <1>29
     DEF Next, Accept, Setup, Exchange, Finish, Serve

(***************************************************************************)
(* Cardinalities follow: fork() adds one to both sides, wait() takes one   *)
(* from both, exit(3) ends the comparison.                                 *)
(***************************************************************************)
LEMMA ReapBalanceStep ==
    ASSUME TypeOK, KidOwned, NotStarted, ReapBalance, [Next]_vars
    PROVE  ReapBalance'
<1> USE WorkersAssumption, KidsAssumption
<1>1. IsFiniteSet(Unreaped) /\ IsFiniteSet(Owing)
  BY FS_Subset DEF Unreaped, Owing
<1>2. ASSUME NEW w \in Workers, Fork(w), up PROVE ReapBalance'
  <2>1. cpid[w] \in Kids /\ pc[w] = "fork"
    BY <1>2 DEF Fork, KidOwned, Engaged, Unforked
  <2>2. cpid[w] \notin Unreaped /\ Unreaped' = Unreaped \cup {cpid[w]}
    BY <1>2, <2>1 DEF Fork, Unreaped, NotStarted, Unforked, TypeOK
  <2>3. w \notin Owing /\ Owing' = Owing \cup {w}
    BY <1>2, <2>1 DEF Fork, Owing, Goto, Forked, Waiting, Reading, TypeOK
  <2>4. /\ Cardinality(Unreaped') = Cardinality(Unreaped) + 1
        /\ Cardinality(Owing') = Cardinality(Owing) + 1
    BY <1>1, <2>2, <2>3, FS_AddElement
  <2> QED
    BY <1>2, <2>4 DEF ReapBalance
<1>3. ASSUME NEW w \in Workers, NEW z \in Kids, Wait(w, z), up PROVE ReapBalance'
  <2>1. z \in Unreaped /\ Unreaped' = Unreaped \ {z}
    BY <1>3 DEF Wait, Unreaped, TypeOK
  <2>2. w \in Owing /\ pc' \in {[pc EXCEPT ![w] = "fdopen"], [pc EXCEPT ![w] = "null"]}
    BY <1>3 DEF Wait, Owing, Goto, ReturnNull
  <2>3. Owing' = Owing \ {w}
    BY <2>2 DEF Owing, Forked, Waiting, Reading, TypeOK
  <2>4. /\ Cardinality(Unreaped') = Cardinality(Unreaped) - 1
        /\ Cardinality(Owing') = Cardinality(Owing) - 1
    BY <1>1, <2>1, <2>2, <2>3, FS_RemoveElement
  <2> QED
    BY <1>3, <2>4 DEF ReapBalance
<1>4. CASE up /\ \A w \in Workers : ~Fork(w) /\ ~ForkFail(w) /\ ~WaitAny(w)
  <2>1. \A k \in Kids : ~Adopted(k)
    BY <1>4 DEF Adopted
  <2> QED
    BY <1>4, <2>1, Uncounted DEF ReapBalance
<1>5. ASSUME ~up \/ \E w \in Workers : ForkFail(w) PROVE ~up'
  BY <1>5 DEF Next, Accept, Setup, Exchange, WaitAny, Finish, Serve, vars, pvars, Call,
        Refuse, PipeRr, PipeRrFail, PipeWw, PipeBelow3, PipeWwFail, Fork, ForkFail, CloseUnused,
        WriteReq, WriteBroken, CloseReq, MakeTemp, MakeTempFail, ReadChunk, EndRead,
        ReadEOF, ReadRetry, ReadBroken, Wait, Fdopen, FdopenFail, Cleanup, Exec,
        KidRead, KidAnswer, KidWrite, Exiting, KidExit, KidBroken, KidFail, KidZombie,
        Adopted
<1> QED
  BY <1>2, <1>3, <1>4, <1>5 DEF WaitAny, ReapBalance

(***************************************************************************)
(* The invariants hold before the first call.                              *)
(***************************************************************************)
LEMMA InitInv == Init => Bookkeeping /\ Spooled /\ ReapBalance
<1> SUFFICES ASSUME Init PROVE Bookkeeping /\ Spooled /\ ReapBalance
  OBVIOUS
<1> USE BoundsAssumption, KidsAssumption DEF Init
<1>1. Bookkeeping /\ Spooled
  BY DEF Bookkeeping, TypeOK, KidOwned, OwnEnds, EndsOwned, AliveHolds, NotStarted,
         TempNamed, Spooled, Engaged, Unforked, Forked, Reading, Waiting, Running,
         PipeEnds, NoAnswer
<1>2. Unreaped = {} /\ Owing = {}
  BY DEF Unreaped, Owing, Forked, Reading, Waiting
<1> QED
  BY <1>1, <1>2 DEF ReapBalance

-----------------------------------------------------------------------------
LEMMA BookkeepingAlways == Spec => []Bookkeeping
<1>1. Init => Bookkeeping
  BY InitInv
<1>2. Bookkeeping /\ [Next]_vars => Bookkeeping'
  BY BookkeepingStep
<1> QED
  BY <1>1, <1>2, PTL DEF Spec

(***************************************************************************)
(* Every variable keeps its type: in particular no pipe holds more than    *)
(* its capacity and no call uses a pipe it does not have.                  *)
(***************************************************************************)
THEOREM TypeCorrect == Spec => []TypeOK
<1>1. Bookkeeping => TypeOK
  BY DEF Bookkeeping
<1> QED
  BY <1>1, BookkeepingAlways, PTL

(***************************************************************************)
(* sp_execMapserv forks and waits equally often, however many threads      *)
(* share the process and whichever child each wait(NULL) reaps.            *)
(***************************************************************************)
THEOREM ReapBalanced == Spec => []ReapBalance
<1>1. Init => ReapBalance
  BY InitInv
<1>2. Bookkeeping /\ ReapBalance /\ [Next]_vars => ReapBalance'
  BY ReapBalanceStep DEF Bookkeeping
<1> QED
  BY <1>1, <1>2, BookkeepingAlways, PTL DEF Spec

(***************************************************************************)
(* A call that has ended has closed its pipes and unlinked its file, but   *)
(* for the pipes the two failures before fork() abandon.                   *)
(***************************************************************************)
THEOREM NothingLeft == Spec => []NothingLeftOpen
<1>1. Bookkeeping => NothingLeftOpen
  <2> SUFFICES ASSUME Bookkeeping,
                      NEW e \in PipeEnds, NEW k \in Kids, <<e, k>> \in fds,
                      k \notin abandoned
               PROVE  \E w \in Workers : cpid[w] = k /\ pc[w] \in Unforked \cup Forked
    BY DEF NothingLeftOpen, Bookkeeping, TempNamed
  <2>1. PICK w \in Workers : cpid[w] = k
    BY DEF Bookkeeping, EndsOwned
  <2>2. EndLeft(w, e)
    BY <2>1 DEF Bookkeeping, OwnEnds
  <2> QED
    BY <2>1, <2>2 DEF EndLeft, Unforked, Forked, Reading
<1> QED
  BY <1>1, BookkeepingAlways, PTL

(***************************************************************************)
(* With a disk that does not fill up and no read error in mid-answer, the  *)
(* spooled file is complete when the stream is returned.                   *)
(***************************************************************************)
LEMMA SpooledAlways ==
    ASSUME ~DiskFills, "more" \notin ReadFails
    PROVE  Spec => []Spooled
<1>1. Init => Spooled
  BY InitInv
<1>2. Bookkeeping /\ Spooled /\ [Next]_vars => Spooled'
  BY SpooledStep DEF Bookkeeping
<1> QED
  BY <1>1, <1>2, BookkeepingAlways, PTL DEF Spec

(***************************************************************************)
(* A stream handed to rp_invokeBackend holds all that its mapserv makes.   *)
(***************************************************************************)
THEOREM StreamIsWhole ==
    ASSUME ~DiskFills, "more" \notin ReadFails
    PROVE  Spec => []StreamContract
<1>1. Spooled => StreamContract
  BY DEF Spooled, StreamContract
<1> QED
  BY <1>1, SpooledAlways, PTL

(***************************************************************************)
(* Every step of sp_execMapserv is a step of the abstract call or leaves   *)
(* its state alone.                                                        *)
(***************************************************************************)
LEMMA RefinementStep ==
    ASSUME Bookkeeping, Spooled, [Next]_vars
    PROVE  [Backend!Next]_(Backend!vars)
<1> USE KidsAssumption
        DEF Bookkeeping, TypeOK, KidOwned, callPhase, childMade, streamHolds,
            Engaged, Busy, Unforked, Forked, Reading, Waiting, Outcomes,
            Goto, ReturnNull, TakeLow,
            EndRead, Exiting, pvars, wvars, kvars
<1>1. ASSUME NEW w \in Workers, NEW n \in 1..MaxReq, Call(w, n) PROVE Backend!Next
  <2>1. Backend!Call(w)
    BY <1>1 DEF Call, Backend!Call
  <2> QED
    BY <2>1 DEF Backend!Next
<1>2. ASSUME NEW w \in Workers, Refuse(w) PROVE Backend!Next
  <2>1. Backend!Refuse(w)
    BY <1>2 DEF Refuse, Backend!Refuse
  <2> QED
    BY <2>1 DEF Backend!Next
<1>3. ASSUME NEW w \in Workers, NEW k \in Kids, PipeRr(w, k) PROVE UNCHANGED Backend!vars
  <2>1. pc[w] = "pipe_rr" /\ pc' = [pc EXCEPT ![w] = "pipe_ww"] /\ file' = file
    BY <1>3 DEF PipeRr
  <2>2. cpid' = [cpid EXCEPT ![w] = k] /\ made' = [made EXCEPT ![k] = 0]
    BY <1>3 DEF PipeRr
  <2>3. cpid[w] \notin Kids /\ \A v \in Workers : cpid[v] # k
    BY <1>3, <2>1 DEF PipeRr, Free
  <2>4. UNCHANGED <<callPhase, streamHolds>>
    BY <2>1
  <2>5. UNCHANGED childMade
    BY <2>2, <2>3
  <2> QED
    BY <2>4, <2>5 DEF Backend!vars
<1>4. ASSUME NEW w \in Workers, PipeRrFail(w) PROVE Backend!Next
  <2>1. Backend!Fail(w)
    BY <1>4 DEF PipeRrFail, Backend!Fail
  <2> QED
    BY <2>1 DEF Backend!Next
<1>5. ASSUME NEW w \in Workers, PipeWw(w) PROVE UNCHANGED Backend!vars
  BY <1>5 DEF PipeWw, Backend!vars
<1>6. ASSUME NEW w \in Workers, PipeBelow3(w) PROVE Backend!Next
  <2>1. Backend!Fail(w)
    BY <1>6 DEF PipeBelow3, Backend!Fail
  <2> QED
    BY <2>1 DEF Backend!Next
<1>7. ASSUME NEW w \in Workers, PipeWwFail(w) PROVE Backend!Next
  <2>1. Backend!Fail(w)
    BY <1>7 DEF PipeWwFail, Backend!Fail
  <2> QED
    BY <2>1 DEF Backend!Next
<1>8. ASSUME NEW w \in Workers, Fork(w) PROVE UNCHANGED Backend!vars
  BY <1>8 DEF Fork, Backend!vars
<1>9. ASSUME NEW w \in Workers, ForkFail(w) PROVE Backend!Next
  <2>1. Backend!Die
    BY <1>9 DEF ForkFail, Backend!Die
  <2> QED
    BY <2>1 DEF Backend!Next
<1>10. ASSUME NEW w \in Workers, CloseUnused(w) PROVE UNCHANGED Backend!vars
  BY <1>10 DEF CloseUnused, Backend!vars
<1>11. ASSUME NEW w \in Workers, WriteReq(w) PROVE UNCHANGED Backend!vars
  BY <1>11 DEF WriteReq, Backend!vars
<1>12. ASSUME NEW w \in Workers, WriteBroken(w) PROVE UNCHANGED Backend!vars
  BY <1>12 DEF WriteBroken, Backend!vars
<1>13. ASSUME NEW w \in Workers, CloseReq(w) PROVE UNCHANGED Backend!vars
  BY <1>13 DEF CloseReq, Backend!vars
<1>14. ASSUME NEW w \in Workers, MakeTemp(w) PROVE UNCHANGED Backend!vars
  BY <1>14 DEF MakeTemp, Backend!vars
<1>15. ASSUME NEW w \in Workers, MakeTempFail(w) PROVE UNCHANGED Backend!vars
  BY <1>15 DEF MakeTempFail, Backend!vars
<1>16. ASSUME NEW w \in Workers, NEW lost \in BOOLEAN, ReadChunk(w, lost) PROVE UNCHANGED Backend!vars
  BY <1>16 DEF ReadChunk, Backend!vars
<1>17. ASSUME NEW w \in Workers, ReadEOF(w) PROVE UNCHANGED Backend!vars
  BY <1>17 DEF ReadEOF, Backend!vars
<1>18. ASSUME NEW w \in Workers, ReadRetry(w) PROVE UNCHANGED Backend!vars
  BY <1>18 DEF ReadRetry, Backend!vars
<1>19. ASSUME NEW w \in Workers, ReadBroken(w) PROVE UNCHANGED Backend!vars
  BY <1>19 DEF ReadBroken, Backend!vars
<1>20. ASSUME NEW w \in Workers, NEW z \in Kids, Wait(w, z) PROVE [Backend!Next]_(Backend!vars)
  <2>1. CASE pc[w] = "wait"
    <3>1. UNCHANGED Backend!vars
      BY <1>20, <2>1 DEF Wait, Backend!vars
    <3> QED
      BY <3>1
  <2>2. CASE pc[w] = "wait_null"
    <3>1. pc' = [pc EXCEPT ![w] = "null"] /\ cpid' = [cpid EXCEPT ![w] = NoKid]
      BY <1>20, <2>2 DEF Wait
    <3>2. UNCHANGED <<file, made>>
      BY <1>20 DEF Wait
    <3>3. callPhase[w] = "busy" /\ callPhase' = [callPhase EXCEPT ![w] = "null"]
      BY <2>2, <3>1
    <3>4. childMade' = [childMade EXCEPT ![w] = 0]
      BY <3>1, <3>2
    <3>5. streamHolds' = streamHolds
      BY <2>2, <3>1, <3>2
    <3>6. Backend!Fail(w)
      BY <3>3, <3>4, <3>5 DEF Backend!Fail
    <3> QED
      BY <3>6 DEF Backend!Next
  <2> QED
    BY <1>20, <2>1, <2>2 DEF Wait
<1>21. ASSUME NEW w \in Workers, Fdopen(w) PROVE Backend!Next
  <2>1. pc[w] = "fdopen" /\ pc' = [pc EXCEPT ![w] = "stream"] /\ UNCHANGED <<cpid, file, made>>
    BY <1>21 DEF Fdopen
  <2>2. callPhase[w] = "busy" /\ callPhase' = [callPhase EXCEPT ![w] = "stream"]
    <3> HIDE DEF KidOwned, childMade, streamHolds
    <3> QED
      BY <2>1
  <2>3. childMade' = childMade /\ childMade[w] = file[w]
    BY <2>1 DEF Spooled
  <2>4. streamHolds' = [streamHolds EXCEPT ![w] = file[w]]
    BY <2>1
  <2>5. Backend!Answer(w)
    BY <2>2, <2>3, <2>4 DEF Backend!Answer
  <2> QED
    BY <2>5 DEF Backend!Next
<1>22. ASSUME NEW w \in Workers, FdopenFail(w) PROVE Backend!Next
  <2>1. Backend!Fail(w)
    BY <1>22 DEF FdopenFail, Backend!Fail
  <2> QED
    BY <2>1 DEF Backend!Next
<1>23. ASSUME NEW w \in Workers, Cleanup(w) PROVE Backend!Next
  <2>1. Backend!Done(w)
    BY <1>23 DEF Cleanup, Backend!Done
  <2> QED
    BY <2>1 DEF Backend!Next
<1>24. ASSUME NEW k \in Kids, Exec(k) PROVE UNCHANGED Backend!vars
  BY <1>24 DEF Exec, Backend!vars
<1>25. ASSUME NEW k \in Kids, KidRead(k) PROVE UNCHANGED Backend!vars
  BY <1>25 DEF KidRead, Backend!vars
<1>26. ASSUME NEW k \in Kids, NEW n \in 0..MaxResp, KidAnswer(k, n) PROVE UNCHANGED Backend!vars
  BY <1>26 DEF KidAnswer, Backend!vars
<1>27. ASSUME NEW k \in Kids, KidWrite(k) PROVE [Backend!Next]_(Backend!vars)
  <2>1. CASE \E w \in Workers : cpid[w] = k
    <3>1. PICK w \in Workers : cpid[w] = k
      BY <2>1
    <3>2. pc[w] \in Busy
      BY <1>27, <3>1 DEF KidWrite, Spooled, Running
    <3>3. Backend!Produce(w)
      BY <1>27, <3>1, <3>2 DEF KidWrite, Backend!Produce
    <3> QED
      BY <3>3, <3>1 DEF Backend!Next
  <2>2. CASE ~\E w \in Workers : cpid[w] = k
    <3>1. UNCHANGED Backend!vars
      BY <1>27, <2>2 DEF KidWrite, Backend!vars
    <3> QED
      BY <3>1
  <2> QED
    BY <2>1, <2>2
<1>28. ASSUME NEW k \in Kids, KidExit(k) PROVE UNCHANGED Backend!vars
  BY <1>28 DEF KidExit, Backend!vars
<1>29. ASSUME NEW k \in Kids, KidBroken(k) PROVE UNCHANGED Backend!vars
  BY <1>29 DEF KidBroken, Backend!vars
<1>30. ASSUME NEW k \in Kids, KidFail(k) PROVE UNCHANGED Backend!vars
  BY <1>30 DEF KidFail, Backend!vars
<1>31. ASSUME NEW k \in Kids, KidZombie(k) PROVE UNCHANGED Backend!vars
  BY <1>31 DEF KidZombie, Backend!vars
<1>32. ASSUME NEW k \in Kids, Adopted(k) PROVE UNCHANGED Backend!vars
  BY <1>32 DEF Adopted, Backend!vars
<1>33. CASE UNCHANGED vars
  BY <1>33 DEF vars, Backend!vars
<1> HIDE DEF Bookkeeping, TypeOK, KidOwned, callPhase, childMade, streamHolds,
            Engaged, Busy, Unforked, Forked, Reading, Waiting, Outcomes,
            Goto, ReturnNull, TakeLow,
            EndRead, Exiting, pvars, wvars, kvars
<1> QED
  BY <1>1, <1>2, <1>3, <1>4, <1>5, <1>6, <1>7, <1>8, <1>9, <1>10,
     <1>11, <1>12, <1>13, <1>14, <1>15, <1>16, <1>17, <1>18, <1>19, <1>20,
     <1>21, <1>22, <1>23, <1>24, <1>25, <1>26, <1>27, <1>28, <1>29, <1>30,
     <1>31, <1>32, <1>33
     DEF Next, Accept, Setup, Exchange, WaitAny, Finish, Serve

(***************************************************************************)
(* sp_execMapserv implements the call rp_invokeBackend relies on.          *)
(***************************************************************************)
THEOREM Refines ==
    ASSUME ~DiskFills, "more" \notin ReadFails
    PROVE  Spec => Refinement
<1>1. Init => Backend!Init
  BY KidsAssumption DEF Init, Backend!Init, callPhase, childMade, streamHolds, Busy,
     Unforked, Forked, Reading, Waiting
<1>2. Bookkeeping /\ Spooled /\ [Next]_vars => [Backend!Next]_(Backend!vars)
  BY RefinementStep
<1> QED
  BY <1>1, <1>2, BookkeepingAlways, SpooledAlways, PTL
     DEF Spec, Refinement, Backend!Spec
=============================================================================
