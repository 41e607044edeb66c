------------------------ MODULE ExecMapservInvProofs ------------------------
(***************************************************************************)
(* The inductive invariant of ExecMapserv, for any numbers of workers,     *)
(* kids and chunks: each part is preserved by every step that starts in a  *)
(* state of the parts named in its assumptions.                            *)
(***************************************************************************)
EXTENDS ExecMapserv, TLAPS

(***************************************************************************)
(* Every step keeps the variables within their types.                      *)
(***************************************************************************)
LEMMA TypeStep ==
    ASSUME TypeOK, KidOwned, [Next]_vars
    PROVE  TypeOK'
<1> USE BoundsAssumption, KidsAssumption, FaultsAssumption
        DEF TypeOK, KidOwned, Running, PipeEnds, NoAnswer,
            Engaged, Busy, Unforked, Forked, Reading,
            Waiting, Outcomes,
            Goto, ReturnNull, TakeLow,
            EndRead, Exiting, pvars, wvars, kvars
<1>1. ASSUME NEW w \in Workers, NEW n \in 1..MaxReq, Call(w, n) PROVE TypeOK'
  BY <1>1 DEF Call
<1>2. ASSUME NEW w \in Workers, Refuse(w) PROVE TypeOK'
  BY <1>2 DEF Refuse
<1>3. ASSUME NEW w \in Workers, NEW k \in Kids, PipeRr(w, k) PROVE TypeOK'
  BY <1>3 DEF PipeRr
<1>4. ASSUME NEW w \in Workers, PipeRrFail(w) PROVE TypeOK'
  BY <1>4 DEF PipeRrFail
<1>5. ASSUME NEW w \in Workers, PipeWw(w) PROVE TypeOK'
  BY <1>5 DEF PipeWw
<1>6. ASSUME NEW w \in Workers, PipeBelow3(w) PROVE TypeOK'
  BY <1>6 DEF PipeBelow3
<1>7. ASSUME NEW w \in Workers, PipeWwFail(w) PROVE TypeOK'
  BY <1>7 DEF PipeWwFail
<1>8. ASSUME NEW w \in Workers, Fork(w) PROVE TypeOK'
  BY <1>8 DEF Fork
<1>9. ASSUME NEW w \in Workers, ForkFail(w) PROVE TypeOK'
  BY <1>9 DEF ForkFail
<1>10. ASSUME NEW w \in Workers, CloseUnused(w) PROVE TypeOK'
  BY <1>10 DEF CloseUnused
<1>11. ASSUME NEW w \in Workers, WriteReq(w) PROVE TypeOK'
  BY <1>11 DEF WriteReq
<1>12. ASSUME NEW w \in Workers, WriteBroken(w) PROVE TypeOK'
  BY <1>12 DEF WriteBroken
<1>13. ASSUME NEW w \in Workers, CloseReq(w) PROVE TypeOK'
  BY <1>13 DEF CloseReq
<1>14. ASSUME NEW w \in Workers, MakeTemp(w) PROVE TypeOK'
  BY <1>14 DEF MakeTemp
<1>15. ASSUME NEW w \in Workers, MakeTempFail(w) PROVE TypeOK'
  BY <1>15 DEF MakeTempFail
<1>16. ASSUME NEW w \in Workers, NEW lost \in BOOLEAN, ReadChunk(w, lost) PROVE TypeOK'
  BY <1>16 DEF ReadChunk
<1>17. ASSUME NEW w \in Workers, ReadEOF(w) PROVE TypeOK'
  BY <1>17 DEF ReadEOF
<1>18. ASSUME NEW w \in Workers, ReadRetry(w) PROVE TypeOK'
  BY <1>18 DEF ReadRetry
<1>19. ASSUME NEW w \in Workers, ReadBroken(w) PROVE TypeOK'
  BY <1>19 DEF ReadBroken
<1>20. ASSUME NEW w \in Workers, NEW z \in Kids, Wait(w, z) PROVE TypeOK'
  BY <1>20 DEF Wait
<1>21. ASSUME NEW w \in Workers, Fdopen(w) PROVE TypeOK'
  BY <1>21 DEF Fdopen
<1>22. ASSUME NEW w \in Workers, FdopenFail(w) PROVE TypeOK'
  BY <1>22 DEF FdopenFail
<1>23. ASSUME NEW w \in Workers, Cleanup(w) PROVE TypeOK'
  BY <1>23 DEF Cleanup
<1>24. ASSUME NEW k \in Kids, Exec(k) PROVE TypeOK'
  BY <1>24 DEF Exec
<1>25. ASSUME NEW k \in Kids, KidRead(k) PROVE TypeOK'
  BY <1>25 DEF KidRead
<1>26. ASSUME NEW k \in Kids, NEW n \in 0..MaxResp, KidAnswer(k, n) PROVE TypeOK'
  BY <1>26 DEF KidAnswer
<1>27. ASSUME NEW k \in Kids, KidWrite(k) PROVE TypeOK'
  BY <1>27 DEF KidWrite
<1>28. ASSUME NEW k \in Kids, KidExit(k) PROVE TypeOK'
  BY <1>28 DEF KidExit
<1>29. ASSUME NEW k \in Kids, KidBroken(k) PROVE TypeOK'
  BY <1>29 DEF KidBroken
<1>30. ASSUME NEW k \in Kids, KidFail(k) PROVE TypeOK'
  BY <1>30 DEF KidFail
<1>31. ASSUME NEW k \in Kids, KidZombie(k) PROVE TypeOK'
  BY <1>31 DEF KidZombie
<1>32. ASSUME NEW k \in Kids, Adopted(k) PROVE TypeOK'
  BY <1>32 DEF Adopted
<1>33. CASE UNCHANGED vars
  BY <1>33 DEF vars
<1> HIDE DEF TypeOK
<1> QED
  BY <1>1, <1>2, <1>3, <1>4, <1>5, <1>6, <1>7, <1>8, <1>9, <1>10,
     <1>11, <1>12, <1>13, <1>14, <1>15, <1>16, <1>17, <1>18, <1>19, <1>20,
     <1>21, <1>22, <1>23, <1>24, <1>25, <1>26, <1>27, <1>28, <1>29, <1>30,
     <1>31, <1>32, <1>33
     DEF Next, Accept, Setup, Exchange, WaitAny, Finish, Serve

(***************************************************************************)
(* A kid leaves the pool when a call makes its first pipe and is given up  *)
(* when the call ends, so no two calls ever share one.                     *)
(***************************************************************************)
LEMMA KidOwnedStep ==
    ASSUME TypeOK, KidOwned, [Next]_vars
    PROVE  KidOwned'
<1> USE KidsAssumption DEF TypeOK, KidOwned, Engaged, Busy, Unforked, Forked, Reading,
            Waiting, Outcomes,
            Goto, ReturnNull, TakeLow,
            EndRead, Exiting, pvars, wvars, kvars
<1>1. ASSUME NEW w \in Workers, NEW n \in 1..MaxReq, Call(w, n) PROVE KidOwned'
  BY <1>1 DEF Call
<1>2. ASSUME NEW w \in Workers, Refuse(w) PROVE KidOwned'
  BY <1>2 DEF Refuse
<1>3. ASSUME NEW w \in Workers, NEW k \in Kids, PipeRr(w, k) PROVE KidOwned'
  BY <1>3 DEF PipeRr, Free
<1>4. ASSUME NEW w \in Workers, PipeRrFail(w) PROVE KidOwned'
  BY <1>4 DEF PipeRrFail
<1>5. ASSUME NEW w \in Workers, PipeWw(w) PROVE KidOwned'
  BY <1>5 DEF PipeWw
<1>6. ASSUME NEW w \in Workers, PipeBelow3(w) PROVE KidOwned'
  BY <1>6 DEF PipeBelow3
<1>7. ASSUME NEW w \in Workers, PipeWwFail(w) PROVE KidOwned'
  BY <1>7 DEF PipeWwFail
<1>8. ASSUME NEW w \in Workers, Fork(w) PROVE KidOwned'
  BY <1>8 DEF Fork
<1>9. ASSUME NEW w \in Workers, ForkFail(w) PROVE KidOwned'
  BY <1>9 DEF ForkFail
<1>10. ASSUME NEW w \in Workers, CloseUnused(w) PROVE KidOwned'
  BY <1>10 DEF CloseUnused
<1>11. ASSUME NEW w \in Workers, WriteReq(w) PROVE KidOwned'
  BY <1>11 DEF WriteReq
<1>12. ASSUME NEW w \in Workers, WriteBroken(w) PROVE KidOwned'
  BY <1>12 DEF WriteBroken
<1>13. ASSUME NEW w \in Workers, CloseReq(w) PROVE KidOwned'
  BY <1>13 DEF CloseReq
<1>14. ASSUME NEW w \in Workers, MakeTemp(w) PROVE KidOwned'
  BY <1>14 DEF MakeTemp
<1>15. ASSUME NEW w \in Workers, MakeTempFail(w) PROVE KidOwned'
  BY <1>15 DEF MakeTempFail
<1>16. ASSUME NEW w \in Workers, NEW lost \in BOOLEAN, ReadChunk(w, lost) PROVE KidOwned'
  BY <1>16 DEF ReadChunk
<1>17. ASSUME NEW w \in Workers, ReadEOF(w) PROVE KidOwned'
  BY <1>17 DEF ReadEOF
<1>18. ASSUME NEW w \in Workers, ReadRetry(w) PROVE KidOwned'
  BY <1>18 DEF ReadRetry
<1>19. ASSUME NEW w \in Workers, ReadBroken(w) PROVE KidOwned'
  BY <1>19 DEF ReadBroken
<1>20. ASSUME NEW w \in Workers, NEW z \in Kids, Wait(w, z) PROVE KidOwned'
  <2>1. CASE pc[w] = "wait"
    <3>1. pc' = [pc EXCEPT ![w] = "fdopen"] /\ cpid' = cpid
      BY <1>20, <2>1 DEF Wait
    <3> QED
      BY <2>1, <3>1
  <2>2. CASE pc[w] # "wait"
    <3>1. pc' = [pc EXCEPT ![w] = "null"] /\ cpid' = [cpid EXCEPT ![w] = NoKid]
      BY <1>20, <2>2 DEF Wait
    <3> QED
      BY <3>1
  <2> QED
    BY <2>1, <2>2
<1>21. ASSUME NEW w \in Workers, Fdopen(w) PROVE KidOwned'
  BY <1>21 DEF Fdopen
<1>22. ASSUME NEW w \in Workers, FdopenFail(w) PROVE KidOwned'
  BY <1>22 DEF FdopenFail
<1>23. ASSUME NEW w \in Workers, Cleanup(w) PROVE KidOwned'
  BY <1>23 DEF Cleanup
<1>24. ASSUME NEW k \in Kids, Exec(k) PROVE KidOwned'
  BY <1>24 DEF Exec
<1>25. ASSUME NEW k \in Kids, KidRead(k) PROVE KidOwned'
  BY <1>25 DEF KidRead
<1>26. ASSUME NEW k \in Kids, NEW n \in 0..MaxResp, KidAnswer(k, n) PROVE KidOwned'
  BY <1>26 DEF KidAnswer
<1>27. ASSUME NEW k \in Kids, KidWrite(k) PROVE KidOwned'
  BY <1>27 DEF KidWrite
<1>28. ASSUME NEW k \in Kids, KidExit(k) PROVE KidOwned'
  BY <1>28 DEF KidExit
<1>29. ASSUME NEW k \in Kids, KidBroken(k) PROVE KidOwned'
  BY <1>29 DEF KidBroken
<1>30. ASSUME NEW k \in Kids, KidFail(k) PROVE KidOwned'
  BY <1>30 DEF KidFail
<1>31. ASSUME NEW k \in Kids, KidZombie(k) PROVE KidOwned'
  BY <1>31 DEF KidZombie
<1>32. ASSUME NEW k \in Kids, Adopted(k) PROVE KidOwned'
  BY <1>32 DEF Adopted
<1>33. CASE UNCHANGED vars
  BY <1>33 DEF vars
<1> HIDE DEF KidOwned
<1> QED
  BY <1>1, <1>2, <1>3, <1>4, <1>5, <1>6, <1>7, <1>8, <1>9, <1>10,
     <1>11, <1>12, <1>13, <1>14, <1>15, <1>16, <1>17, <1>18, <1>19, <1>20,
     <1>21, <1>22, <1>23, <1>24, <1>25, <1>26, <1>27, <1>28, <1>29, <1>30,
     <1>31, <1>32, <1>33
     DEF Next, Accept, Setup, Exchange, WaitAny, Finish, Serve

(***************************************************************************)
(* Only the worker a pipe belongs to closes its ends in the process.       *)
(***************************************************************************)
LEMMA OwnEndsStep ==
    ASSUME TypeOK, KidOwned, OwnEnds, [Next]_vars
    PROVE  OwnEnds'
<1> USE KidsAssumption
        DEF TypeOK, KidOwned, OwnEnds, EndLeft, PipeEnds,
            Engaged, Busy, Unforked, Forked, Reading,
            Waiting, Outcomes,
            Goto, ReturnNull, TakeLow,
            EndRead, Exiting, pvars, wvars, kvars
<1>1. ASSUME NEW w \in Workers, NEW n \in 1..MaxReq, Call(w, n) PROVE OwnEnds'
  BY <1>1, ZenonT(40) DEF Call
<1>2. ASSUME NEW w \in Workers, Refuse(w) PROVE OwnEnds'
  BY <1>2, ZenonT(40) DEF Refuse
<1>3. ASSUME NEW w \in Workers, NEW k \in Kids, PipeRr(w, k) PROVE OwnEnds'
  BY <1>3, ZenonT(40) DEF PipeRr, Free, Open
<1>4. ASSUME NEW w \in Workers, PipeRrFail(w) PROVE OwnEnds'
  BY <1>4, ZenonT(40) DEF PipeRrFail
<1>5. ASSUME NEW w \in Workers, PipeWw(w) PROVE OwnEnds'
  BY <1>5, ZenonT(40) DEF PipeWw
<1>6. ASSUME NEW w \in Workers, PipeBelow3(w) PROVE OwnEnds'
  BY <1>6 DEF PipeBelow3
<1>7. ASSUME NEW w \in Workers, PipeWwFail(w) PROVE OwnEnds'
  BY <1>7 DEF PipeWwFail
<1>8. ASSUME NEW w \in Workers, Fork(w) PROVE OwnEnds'
  BY <1>8, ZenonT(40) DEF Fork
<1>9. ASSUME NEW w \in Workers, ForkFail(w) PROVE OwnEnds'
  BY <1>9 DEF ForkFail
<1>10. ASSUME NEW w \in Workers, CloseUnused(w) PROVE OwnEnds'
  BY <1>10, ZenonT(40) DEF CloseUnused
<1>11. ASSUME NEW w \in Workers, WriteReq(w) PROVE OwnEnds'
  BY <1>11 DEF WriteReq
<1>12. ASSUME NEW w \in Workers, WriteBroken(w) PROVE OwnEnds'
  BY <1>12 DEF WriteBroken
<1>13. ASSUME NEW w \in Workers, CloseReq(w) PROVE OwnEnds'
  BY <1>13, ZenonT(40) DEF CloseReq
<1>14. ASSUME NEW w \in Workers, MakeTemp(w) PROVE OwnEnds'
  BY <1>14, ZenonT(40) DEF MakeTemp
<1>15. ASSUME NEW w \in Workers, MakeTempFail(w) PROVE OwnEnds'
  BY <1>15, ZenonT(40) DEF MakeTempFail
<1>16. ASSUME NEW w \in Workers, NEW lost \in BOOLEAN, ReadChunk(w, lost) PROVE OwnEnds'
  BY <1>16, ZenonT(40) DEF ReadChunk
<1>17. ASSUME NEW w \in Workers, ReadEOF(w) PROVE OwnEnds'
  BY <1>17, ZenonT(40) DEF ReadEOF
<1>18. ASSUME NEW w \in Workers, ReadRetry(w) PROVE OwnEnds'
  BY <1>18 DEF ReadRetry
<1>19. ASSUME NEW w \in Workers, ReadBroken(w) PROVE OwnEnds'
  BY <1>19, ZenonT(40) DEF ReadBroken
<1>20. ASSUME NEW w \in Workers, NEW z \in Kids, Wait(w, z) PROVE OwnEnds'
  <2>1. fds' = fds /\ pc[w] \in Waiting
    BY <1>20 DEF Wait
  <2>2. pc' = [pc EXCEPT ![w] = "fdopen"] \/ pc' = [pc EXCEPT ![w] = "null"]
    BY <1>20 DEF Wait
  <2>3. \A v \in Workers : cpid'[v] \in Kids => cpid'[v] = cpid[v]
    BY <1>20 DEF Wait
  <2>4. /\ pc'[w] \in {"fdopen", "null"}
        /\ \A v \in Workers \ {w} : pc'[v] = pc[v]
    BY <2>2 DEF TypeOK
  <2> HIDE DEF TypeOK, KidOwned
  <2>5. \A v \in Workers, e \in PipeEnds : EndLeft(v, e)' <=> EndLeft(v, e)
    BY <2>1, <2>4
  <2> HIDE DEF EndLeft
  <2> QED
    BY <2>1, <2>3, <2>5 DEF OwnEnds
<1>21. ASSUME NEW w \in Workers, Fdopen(w) PROVE OwnEnds'
  BY <1>21, ZenonT(40) DEF Fdopen
<1>22. ASSUME NEW w \in Workers, FdopenFail(w) PROVE OwnEnds'
  BY <1>22 DEF FdopenFail
<1>23. ASSUME NEW w \in Workers, Cleanup(w) PROVE OwnEnds'
  BY <1>23 DEF Cleanup
<1>24. ASSUME NEW k \in Kids, Exec(k) PROVE OwnEnds'
  BY <1>24 DEF Exec
<1>25. ASSUME NEW k \in Kids, KidRead(k) PROVE OwnEnds'
  BY <1>25 DEF KidRead
<1>26. ASSUME NEW k \in Kids, NEW n \in 0..MaxResp, KidAnswer(k, n) PROVE OwnEnds'
  BY <1>26 DEF KidAnswer
<1>27. ASSUME NEW k \in Kids, KidWrite(k) PROVE OwnEnds'
  BY <1>27 DEF KidWrite
<1>28. ASSUME NEW k \in Kids, KidExit(k) PROVE OwnEnds'
  BY <1>28 DEF KidExit
<1>29. ASSUME NEW k \in Kids, KidBroken(k) PROVE OwnEnds'
  BY <1>29 DEF KidBroken
<1>30. ASSUME NEW k \in Kids, KidFail(k) PROVE OwnEnds'
  BY <1>30 DEF KidFail
<1>31. ASSUME NEW k \in Kids, KidZombie(k) PROVE OwnEnds'
  BY <1>31 DEF KidZombie
<1>32. ASSUME NEW k \in Kids, Adopted(k) PROVE OwnEnds'
  BY <1>32 DEF Adopted
<1>33. CASE UNCHANGED vars
  BY <1>33 DEF vars
<1> HIDE DEF OwnEnds
<1> QED
  BY <1>1, <1>2, <1>3, <1>4, <1>5, <1>6, <1>7, <1>8, <1>9, <1>10,
     <1>11, <1>12, <1>13, <1>14, <1>15, <1>16, <1>17, <1>18, <1>19, <1>20,
     <1>21, <1>22, <1>23, <1>24, <1>25, <1>26, <1>27, <1>28, <1>29, <1>30,
     <1>31, <1>32, <1>33
     DEF Next, Accept, Setup, Exchange, WaitAny, Finish, Serve

(***************************************************************************)
(* A call ends with its pipe ends closed, or among the abandoned ones.     *)
(***************************************************************************)
LEMMA EndsOwnedStep ==
    ASSUME TypeOK, KidOwned, OwnEnds, EndsOwned, [Next]_vars
    PROVE  EndsOwned'
<1> USE KidsAssumption
        DEF TypeOK, KidOwned, OwnEnds, EndsOwned, EndLeft, PipeEnds,
            Engaged, Busy, Unforked, Forked, Reading,
            Waiting, Outcomes,
            Goto, ReturnNull, TakeLow,
            EndRead, Exiting, pvars, wvars, kvars
<1>1. ASSUME NEW w \in Workers, NEW n \in 1..MaxReq, Call(w, n) PROVE EndsOwned'
  BY <1>1 DEF Call
<1>2. ASSUME NEW w \in Workers, Refuse(w) PROVE EndsOwned'
  <2>1. fds' = fds /\ abandoned' = abandoned /\ cpid[w] \notin Kids
    BY <1>2 DEF Refuse
  <2>2. cpid' = [cpid EXCEPT ![w] = NoKid]
    BY <1>2 DEF Refuse
  <2>3. \A v \in Workers : cpid[v] \in Kids => cpid'[v] = cpid[v]
    BY <2>1, <2>2
  <2> HIDE DEF TypeOK, KidOwned, OwnEnds, EndLeft
  <2> QED
    BY <2>1, <2>3 DEF EndsOwned
<1>3. ASSUME NEW w \in Workers, NEW k \in Kids, PipeRr(w, k) PROVE EndsOwned'
  <2>1. /\ pc[w] = "pipe_rr" /\ cpid' = [cpid EXCEPT ![w] = k]
        /\ fds' = fds \cup {<<"rr0", k>>, <<"rr1", k>>} /\ abandoned' = abandoned
    BY <1>3 DEF PipeRr
  <2>2. cpid[w] \notin Kids
    BY <2>1 DEF KidOwned
  <2> SUFFICES ASSUME NEW e \in PipeEnds, NEW j \in Kids, <<e, j>> \in fds', j \notin abandoned
               PROVE  \E v \in Workers : cpid'[v] = j
    BY <2>1 DEF EndsOwned
  <2>3. CASE j = k
    BY <2>1, <2>3
  <2>4. CASE <<e, j>> \in fds
    <3>1. PICK v \in Workers : cpid[v] = j
      BY <2>4 DEF EndsOwned
    <3>2. v # w
      BY <2>2, <3>1
    <3>3. cpid'[v] = j
      BY <2>1, <3>1, <3>2
    <3> HIDE DEF TypeOK, KidOwned, OwnEnds, EndLeft
    <3> QED
      BY <3>3
  <2> QED
    BY <2>1, <2>3, <2>4
<1>4. ASSUME NEW w \in Workers, PipeRrFail(w) PROVE EndsOwned'
  <2>1. fds' = fds /\ abandoned' = abandoned /\ cpid[w] \notin Kids
    BY <1>4 DEF PipeRrFail
  <2>2. cpid' = [cpid EXCEPT ![w] = NoKid]
    BY <1>4 DEF PipeRrFail
  <2>3. \A v \in Workers : cpid[v] \in Kids => cpid'[v] = cpid[v]
    BY <2>1, <2>2
  <2> HIDE DEF TypeOK, KidOwned, OwnEnds, EndLeft
  <2> QED
    BY <2>1, <2>3 DEF EndsOwned
<1>5. ASSUME NEW w \in Workers, PipeWw(w) PROVE EndsOwned'
  BY <1>5 DEF PipeWw
<1>6. ASSUME NEW w \in Workers, PipeBelow3(w) PROVE EndsOwned'
  BY <1>6 DEF PipeBelow3
<1>7. ASSUME NEW w \in Workers, PipeWwFail(w) PROVE EndsOwned'
  BY <1>7 DEF PipeWwFail
<1>8. ASSUME NEW w \in Workers, Fork(w) PROVE EndsOwned'
  BY <1>8 DEF Fork
<1>9. ASSUME NEW w \in Workers, ForkFail(w) PROVE EndsOwned'
  BY <1>9 DEF ForkFail
<1>10. ASSUME NEW w \in Workers, CloseUnused(w) PROVE EndsOwned'
  BY <1>10 DEF CloseUnused
<1>11. ASSUME NEW w \in Workers, WriteReq(w) PROVE EndsOwned'
  BY <1>11 DEF WriteReq
<1>12. ASSUME NEW w \in Workers, WriteBroken(w) PROVE EndsOwned'
  BY <1>12 DEF WriteBroken
<1>13. ASSUME NEW w \in Workers, CloseReq(w) PROVE EndsOwned'
  BY <1>13 DEF CloseReq
<1>14. ASSUME NEW w \in Workers, MakeTemp(w) PROVE EndsOwned'
  BY <1>14 DEF MakeTemp
<1>15. ASSUME NEW w \in Workers, MakeTempFail(w) PROVE EndsOwned'
  BY <1>15 DEF MakeTempFail
<1>16. ASSUME NEW w \in Workers, NEW lost \in BOOLEAN, ReadChunk(w, lost) PROVE EndsOwned'
  BY <1>16 DEF ReadChunk
<1>17. ASSUME NEW w \in Workers, ReadEOF(w) PROVE EndsOwned'
  BY <1>17 DEF ReadEOF
<1>18. ASSUME NEW w \in Workers, ReadRetry(w) PROVE EndsOwned'
  BY <1>18 DEF ReadRetry
<1>19. ASSUME NEW w \in Workers, ReadBroken(w) PROVE EndsOwned'
  BY <1>19 DEF ReadBroken
<1>20. ASSUME NEW w \in Workers, NEW z \in Kids, Wait(w, z) PROVE EndsOwned'
  <2>1. fds' = fds /\ abandoned' = abandoned /\ pc[w] \in Waiting
    BY <1>20 DEF Wait
  <2>2. \A v \in Workers \ {w} : cpid'[v] = cpid[v]
    <3>1. CASE pc[w] = "wait"
      BY <1>20, <3>1 DEF Wait
    <3>2. CASE pc[w] # "wait"
      <4>1. cpid' = [cpid EXCEPT ![w] = NoKid]
        BY <1>20, <3>2 DEF Wait
      <4> QED
        BY <4>1
    <3> QED
      BY <3>1, <3>2
  <2> SUFFICES ASSUME NEW e \in PipeEnds, NEW k \in Kids, <<e, k>> \in fds, k \notin abandoned
               PROVE  \E v \in Workers : cpid'[v] = k
    BY <2>1 DEF EndsOwned
  <2>3. PICK v \in Workers : cpid[v] = k
    BY DEF EndsOwned
  <2>4. ~EndLeft(w, e)
    BY <2>1 DEF EndLeft
  <2>5. v # w
    BY <2>3, <2>4 DEF OwnEnds
  <2> QED
    BY <2>2, <2>3, <2>5
<1>21. ASSUME NEW w \in Workers, Fdopen(w) PROVE EndsOwned'
  BY <1>21 DEF Fdopen
<1>22. ASSUME NEW w \in Workers, FdopenFail(w) PROVE EndsOwned'
  BY <1>22 DEF FdopenFail
<1>23. ASSUME NEW w \in Workers, Cleanup(w) PROVE EndsOwned'
  <2>1. fds' = fds /\ abandoned' = abandoned /\ pc[w] \in Outcomes
    BY <1>23 DEF Cleanup
  <2>2. \A v \in Workers \ {w} : cpid'[v] = cpid[v]
    BY <1>23 DEF Cleanup
  <2> SUFFICES ASSUME NEW e \in PipeEnds, NEW k \in Kids, <<e, k>> \in fds, k \notin abandoned
               PROVE  \E v \in Workers : cpid'[v] = k
    BY <2>1 DEF EndsOwned
  <2>3. PICK v \in Workers : cpid[v] = k
    BY DEF EndsOwned
  <2>4. ~EndLeft(w, e)
    BY <2>1 DEF EndLeft
  <2>5. v # w
    BY <2>3, <2>4 DEF OwnEnds
  <2> QED
    BY <2>2, <2>3, <2>5
<1>24. ASSUME NEW k \in Kids, Exec(k) PROVE EndsOwned'
  BY <1>24 DEF Exec
<1>25. ASSUME NEW k \in Kids, KidRead(k) PROVE EndsOwned'
  BY <1>25 DEF KidRead
<1>26. ASSUME NEW k \in Kids, NEW n \in 0..MaxResp, KidAnswer(k, n) PROVE EndsOwned'
  BY <1>26 DEF KidAnswer
<1>27. ASSUME NEW k \in Kids, KidWrite(k) PROVE EndsOwned'
  BY <1>27 DEF KidWrite
<1>28. ASSUME NEW k \in Kids, KidExit(k) PROVE EndsOwned'
  BY <1>28 DEF KidExit
<1>29. ASSUME NEW k \in Kids, KidBroken(k) PROVE EndsOwned'
  BY <1>29 DEF KidBroken
<1>30. ASSUME NEW k \in Kids, KidFail(k) PROVE EndsOwned'
  BY <1>30 DEF KidFail
<1>31. ASSUME NEW k \in Kids, KidZombie(k) PROVE EndsOwned'
  BY <1>31 DEF KidZombie
<1>32. ASSUME NEW k \in Kids, Adopted(k) PROVE EndsOwned'
  BY <1>32 DEF Adopted
<1>33. CASE UNCHANGED vars
  BY <1>33 DEF vars
<1> HIDE DEF EndsOwned
<1> QED
  BY <1>1, <1>2, <1>3, <1>4, <1>5, <1>6, <1>7, <1>8, <1>9, <1>10,
     <1>11, <1>12, <1>13, <1>14, <1>15, <1>16, <1>17, <1>18, <1>19, <1>20,
     <1>21, <1>22, <1>23, <1>24, <1>25, <1>26, <1>27, <1>28, <1>29, <1>30,
     <1>31, <1>32, <1>33
     DEF Next, Accept, Setup, Exchange, WaitAny, Finish, Serve

(***************************************************************************)
(* A child gets its stdout at fork() and has it until it exits.            *)
(***************************************************************************)
LEMMA AliveHoldsStep ==
    ASSUME TypeOK, KidOwned, OwnEnds, AliveHolds, [Next]_vars
    PROVE  AliveHolds'
<1> USE KidsAssumption
        DEF TypeOK, KidOwned, OwnEnds, EndLeft, PipeEnds, AliveHolds, Running,
            Engaged, Busy, Unforked, Forked, Reading,
            Waiting, Outcomes,
            Goto, ReturnNull, TakeLow,
            EndRead, Exiting, pvars, wvars, kvars
<1>1. ASSUME NEW w \in Workers, NEW n \in 1..MaxReq, Call(w, n) PROVE AliveHolds'
  BY <1>1 DEF Call
<1>2. ASSUME NEW w \in Workers, Refuse(w) PROVE AliveHolds'
  BY <1>2 DEF Refuse
<1>3. ASSUME NEW w \in Workers, NEW k \in Kids, PipeRr(w, k) PROVE AliveHolds'
  BY <1>3 DEF PipeRr
<1>4. ASSUME NEW w \in Workers, PipeRrFail(w) PROVE AliveHolds'
  BY <1>4 DEF PipeRrFail
<1>5. ASSUME NEW w \in Workers, PipeWw(w) PROVE AliveHolds'
  BY <1>5 DEF PipeWw
<1>6. ASSUME NEW w \in Workers, PipeBelow3(w) PROVE AliveHolds'
  BY <1>6 DEF PipeBelow3
<1>7. ASSUME NEW w \in Workers, PipeWwFail(w) PROVE AliveHolds'
  BY <1>7 DEF PipeWwFail
<1>8. ASSUME NEW w \in Workers, Fork(w) PROVE AliveHolds'
  BY <1>8 DEF Fork
<1>9. ASSUME NEW w \in Workers, ForkFail(w) PROVE AliveHolds'
  BY <1>9 DEF ForkFail
<1>10. ASSUME NEW w \in Workers, CloseUnused(w) PROVE AliveHolds'
  BY <1>10 DEF CloseUnused
<1>11. ASSUME NEW w \in Workers, WriteReq(w) PROVE AliveHolds'
  BY <1>11 DEF WriteReq
<1>12. ASSUME NEW w \in Workers, WriteBroken(w) PROVE AliveHolds'
  BY <1>12 DEF WriteBroken
<1>13. ASSUME NEW w \in Workers, CloseReq(w) PROVE AliveHolds'
  BY <1>13 DEF CloseReq
<1>14. ASSUME NEW w \in Workers, MakeTemp(w) PROVE AliveHolds'
  BY <1>14 DEF MakeTemp
<1>15. ASSUME NEW w \in Workers, MakeTempFail(w) PROVE AliveHolds'
  BY <1>15 DEF MakeTempFail
<1>16. ASSUME NEW w \in Workers, NEW lost \in BOOLEAN, ReadChunk(w, lost) PROVE AliveHolds'
  BY <1>16 DEF ReadChunk
<1>17. ASSUME NEW w \in Workers, ReadEOF(w) PROVE AliveHolds'
  BY <1>17 DEF ReadEOF
<1>18. ASSUME NEW w \in Workers, ReadRetry(w) PROVE AliveHolds'
  BY <1>18 DEF ReadRetry
<1>19. ASSUME NEW w \in Workers, ReadBroken(w) PROVE AliveHolds'
  BY <1>19 DEF ReadBroken
<1>20. ASSUME NEW w \in Workers, NEW z \in Kids, Wait(w, z) PROVE AliveHolds'
  BY <1>20 DEF Wait
<1>21. ASSUME NEW w \in Workers, Fdopen(w) PROVE AliveHolds'
  BY <1>21 DEF Fdopen
<1>22. ASSUME NEW w \in Workers, FdopenFail(w) PROVE AliveHolds'
  BY <1>22 DEF FdopenFail
<1>23. ASSUME NEW w \in Workers, Cleanup(w) PROVE AliveHolds'
  BY <1>23 DEF Cleanup
<1>24. ASSUME NEW k \in Kids, Exec(k) PROVE AliveHolds'
  BY <1>24 DEF Exec
<1>25. ASSUME NEW k \in Kids, KidRead(k) PROVE AliveHolds'
  BY <1>25 DEF KidRead
<1>26. ASSUME NEW k \in Kids, NEW n \in 0..MaxResp, KidAnswer(k, n) PROVE AliveHolds'
  BY <1>26 DEF KidAnswer
<1>27. ASSUME NEW k \in Kids, KidWrite(k) PROVE AliveHolds'
  BY <1>27 DEF KidWrite
<1>28. ASSUME NEW k \in Kids, KidExit(k) PROVE AliveHolds'
  BY <1>28 DEF KidExit
<1>29. ASSUME NEW k \in Kids, KidBroken(k) PROVE AliveHolds'
  BY <1>29 DEF KidBroken
<1>30. ASSUME NEW k \in Kids, KidFail(k) PROVE AliveHolds'
  BY <1>30 DEF KidFail
<1>31. ASSUME NEW k \in Kids, KidZombie(k) PROVE AliveHolds'
  BY <1>31 DEF KidZombie
<1>32. ASSUME NEW k \in Kids, Adopted(k) PROVE AliveHolds'
  BY <1>32 DEF Adopted
<1>33. CASE UNCHANGED vars
  BY <1>33 DEF vars
<1> HIDE DEF AliveHolds
<1> QED
  BY <1>1, <1>2, <1>3, <1>4, <1>5, <1>6, <1>7, <1>8, <1>9, <1>10,
     <1>11, <1>12, <1>13, <1>14, <1>15, <1>16, <1>17, <1>18, <1>19, <1>20,
     <1>21, <1>22, <1>23, <1>24, <1>25, <1>26, <1>27, <1>28, <1>29, <1>30,
     <1>31, <1>32, <1>33
     DEF Next, Accept, Setup, Exchange, WaitAny, Finish, Serve

(***************************************************************************)
(* Nothing happens to a kid before its call has forked.                    *)
(***************************************************************************)
LEMMA NotStartedStep ==
    ASSUME TypeOK, KidOwned, NotStarted, [Next]_vars
    PROVE  NotStarted'
<1> USE KidsAssumption
        DEF TypeOK, KidOwned, NotStarted, Running,
            Engaged, Busy, Unforked, Forked, Reading,
            Waiting, Outcomes,
            Goto, ReturnNull, TakeLow,
            EndRead, Exiting, pvars, wvars, kvars
<1>1. ASSUME NEW w \in Workers, NEW n \in 1..MaxReq, Call(w, n) PROVE NotStarted'
  BY <1>1 DEF Call
<1>2. ASSUME NEW w \in Workers, Refuse(w) PROVE NotStarted'
  BY <1>2 DEF Refuse
<1>3. ASSUME NEW w \in Workers, NEW k \in Kids, PipeRr(w, k) PROVE NotStarted'
  BY <1>3 DEF PipeRr, Free
<1>4. ASSUME NEW w \in Workers, PipeRrFail(w) PROVE NotStarted'
  BY <1>4 DEF PipeRrFail
<1>5. ASSUME NEW w \in Workers, PipeWw(w) PROVE NotStarted'
  BY <1>5 DEF PipeWw
<1>6. ASSUME NEW w \in Workers, PipeBelow3(w) PROVE NotStarted'
  BY <1>6 DEF PipeBelow3
<1>7. ASSUME NEW w \in Workers, PipeWwFail(w) PROVE NotStarted'
  BY <1>7 DEF PipeWwFail
<1>8. ASSUME NEW w \in Workers, Fork(w) PROVE NotStarted'
  BY <1>8 DEF Fork
<1>9. ASSUME NEW w \in Workers, ForkFail(w) PROVE NotStarted'
  BY <1>9 DEF ForkFail
<1>10. ASSUME NEW w \in Workers, CloseUnused(w) PROVE NotStarted'
  BY <1>10 DEF CloseUnused
<1>11. ASSUME NEW w \in Workers, WriteReq(w) PROVE NotStarted'
  BY <1>11 DEF WriteReq
<1>12. ASSUME NEW w \in Workers, WriteBroken(w) PROVE NotStarted'
  BY <1>12 DEF WriteBroken
<1>13. ASSUME NEW w \in Workers, CloseReq(w) PROVE NotStarted'
  BY <1>13 DEF CloseReq
<1>14. ASSUME NEW w \in Workers, MakeTemp(w) PROVE NotStarted'
  BY <1>14 DEF MakeTemp
<1>15. ASSUME NEW w \in Workers, MakeTempFail(w) PROVE NotStarted'
  BY <1>15 DEF MakeTempFail
<1>16. ASSUME NEW w \in Workers, NEW lost \in BOOLEAN, ReadChunk(w, lost) PROVE NotStarted'
  BY <1>16 DEF ReadChunk
<1>17. ASSUME NEW w \in Workers, ReadEOF(w) PROVE NotStarted'
  BY <1>17 DEF ReadEOF
<1>18. ASSUME NEW w \in Workers, ReadRetry(w) PROVE NotStarted'
  BY <1>18 DEF ReadRetry
<1>19. ASSUME NEW w \in Workers, ReadBroken(w) PROVE NotStarted'
  BY <1>19 DEF ReadBroken
<1>20. ASSUME NEW w \in Workers, NEW z \in Kids, Wait(w, z) PROVE NotStarted'
  BY <1>20 DEF Wait
<1>21. ASSUME NEW w \in Workers, Fdopen(w) PROVE NotStarted'
  BY <1>21 DEF Fdopen
<1>22. ASSUME NEW w \in Workers, FdopenFail(w) PROVE NotStarted'
  BY <1>22 DEF FdopenFail
<1>23. ASSUME NEW w \in Workers, Cleanup(w) PROVE NotStarted'
  BY <1>23 DEF Cleanup
<1>24. ASSUME NEW k \in Kids, Exec(k) PROVE NotStarted'
  BY <1>24 DEF Exec
<1>25. ASSUME NEW k \in Kids, KidRead(k) PROVE NotStarted'
  BY <1>25 DEF KidRead
<1>26. ASSUME NEW k \in Kids, NEW n \in 0..MaxResp, KidAnswer(k, n) PROVE NotStarted'
  BY <1>26 DEF KidAnswer
<1>27. ASSUME NEW k \in Kids, KidWrite(k) PROVE NotStarted'
  BY <1>27 DEF KidWrite
<1>28. ASSUME NEW k \in Kids, KidExit(k) PROVE NotStarted'
  BY <1>28 DEF KidExit
<1>29. ASSUME NEW k \in Kids, KidBroken(k) PROVE NotStarted'
  BY <1>29 DEF KidBroken
<1>30. ASSUME NEW k \in Kids, KidFail(k) PROVE NotStarted'
  BY <1>30 DEF KidFail
<1>31. ASSUME NEW k \in Kids, KidZombie(k) PROVE NotStarted'
  BY <1>31 DEF KidZombie
<1>32. ASSUME NEW k \in Kids, Adopted(k) PROVE NotStarted'
  BY <1>32 DEF Adopted
<1>33. CASE UNCHANGED vars
  BY <1>33 DEF vars
<1> HIDE DEF NotStarted
<1> QED
  BY <1>1, <1>2, <1>3, <1>4, <1>5, <1>6, <1>7, <1>8, <1>9, <1>10,
     <1>11, <1>12, <1>13, <1>14, <1>15, <1>16, <1>17, <1>18, <1>19, <1>20,
     <1>21, <1>22, <1>23, <1>24, <1>25, <1>26, <1>27, <1>28, <1>29, <1>30,
     <1>31, <1>32, <1>33
     DEF Next, Accept, Setup, Exchange, WaitAny, Finish, Serve

(***************************************************************************)
(* The temporary file loses its name before its call goes on to wait.      *)
(***************************************************************************)
LEMMA TempNamedStep ==
    ASSUME TypeOK, TempNamed, [Next]_vars
    PROVE  TempNamed'
<1> USE DEF TypeOK, TempNamed,
            Engaged, Busy, Unforked, Forked, Reading,
            Waiting, Outcomes,
            Goto, ReturnNull, TakeLow,
            EndRead, Exiting, pvars, wvars, kvars
<1>1. ASSUME NEW w \in Workers, NEW n \in 1..MaxReq, Call(w, n) PROVE TempNamed'
  BY <1>1 DEF Call
<1>2. ASSUME NEW w \in Workers, Refuse(w) PROVE TempNamed'
  BY <1>2 DEF Refuse
<1>3. ASSUME NEW w \in Workers, NEW k \in Kids, PipeRr(w, k) PROVE TempNamed'
  BY <1>3 DEF PipeRr
<1>4. ASSUME NEW w \in Workers, PipeRrFail(w) PROVE TempNamed'
  BY <1>4 DEF PipeRrFail
<1>5. ASSUME NEW w \in Workers, PipeWw(w) PROVE TempNamed'
  BY <1>5 DEF PipeWw
<1>6. ASSUME NEW w \in Workers, PipeBelow3(w) PROVE TempNamed'
  BY <1>6 DEF PipeBelow3
<1>7. ASSUME NEW w \in Workers, PipeWwFail(w) PROVE TempNamed'
  BY <1>7 DEF PipeWwFail
<1>8. ASSUME NEW w \in Workers, Fork(w) PROVE TempNamed'
  BY <1>8 DEF Fork
<1>9. ASSUME NEW w \in Workers, ForkFail(w) PROVE TempNamed'
  BY <1>9 DEF ForkFail
<1>10. ASSUME NEW w \in Workers, CloseUnused(w) PROVE TempNamed'
  BY <1>10 DEF CloseUnused
<1>11. ASSUME NEW w \in Workers, WriteReq(w) PROVE TempNamed'
  BY <1>11 DEF WriteReq
<1>12. ASSUME NEW w \in Workers, WriteBroken(w) PROVE TempNamed'
  BY <1>12 DEF WriteBroken
<1>13. ASSUME NEW w \in Workers, CloseReq(w) PROVE TempNamed'
  BY <1>13 DEF CloseReq
<1>14. ASSUME NEW w \in Workers, MakeTemp(w) PROVE TempNamed'
  BY <1>14 DEF MakeTemp
<1>15. ASSUME NEW w \in Workers, MakeTempFail(w) PROVE TempNamed'
  BY <1>15 DEF MakeTempFail
<1>16. ASSUME NEW w \in Workers, NEW lost \in BOOLEAN, ReadChunk(w, lost) PROVE TempNamed'
  BY <1>16 DEF ReadChunk
<1>17. ASSUME NEW w \in Workers, ReadEOF(w) PROVE TempNamed'
  BY <1>17 DEF ReadEOF
<1>18. ASSUME NEW w \in Workers, ReadRetry(w) PROVE TempNamed'
  BY <1>18 DEF ReadRetry
<1>19. ASSUME NEW w \in Workers, ReadBroken(w) PROVE TempNamed'
  BY <1>19 DEF ReadBroken
<1>20. ASSUME NEW w \in Workers, NEW z \in Kids, Wait(w, z) PROVE TempNamed'
  BY <1>20 DEF Wait
<1>21. ASSUME NEW w \in Workers, Fdopen(w) PROVE TempNamed'
  BY <1>21 DEF Fdopen
<1>22. ASSUME NEW w \in Workers, FdopenFail(w) PROVE TempNamed'
  BY <1>22 DEF FdopenFail
<1>23. ASSUME NEW w \in Workers, Cleanup(w) PROVE TempNamed'
  BY <1>23 DEF Cleanup
<1>24. ASSUME NEW k \in Kids, Exec(k) PROVE TempNamed'
  BY <1>24 DEF Exec
<1>25. ASSUME NEW k \in Kids, KidRead(k) PROVE TempNamed'
  BY <1>25 DEF KidRead
<1>26. ASSUME NEW k \in Kids, NEW n \in 0..MaxResp, KidAnswer(k, n) PROVE TempNamed'
  BY <1>26 DEF KidAnswer
<1>27. ASSUME NEW k \in Kids, KidWrite(k) PROVE TempNamed'
  BY <1>27 DEF KidWrite
<1>28. ASSUME NEW k \in Kids, KidExit(k) PROVE TempNamed'
  BY <1>28 DEF KidExit
<1>29. ASSUME NEW k \in Kids, KidBroken(k) PROVE TempNamed'
  BY <1>29 DEF KidBroken
<1>30. ASSUME NEW k \in Kids, KidFail(k) PROVE TempNamed'
  BY <1>30 DEF KidFail
<1>31. ASSUME NEW k \in Kids, KidZombie(k) PROVE TempNamed'
  BY <1>31 DEF KidZombie
<1>32. ASSUME NEW k \in Kids, Adopted(k) PROVE TempNamed'
  BY <1>32 DEF Adopted
<1>33. CASE UNCHANGED vars
  BY <1>33 DEF vars
<1> HIDE DEF TempNamed
<1> QED
  BY <1>1, <1>2, <1>3, <1>4, <1>5, <1>6, <1>7, <1>8, <1>9, <1>10,
     <1>11, <1>12, <1>13, <1>14, <1>15, <1>16, <1>17, <1>18, <1>19, <1>20,
     <1>21, <1>22, <1>23, <1>24, <1>25, <1>26, <1>27, <1>28, <1>29, <1>30,
     <1>31, <1>32, <1>33
     DEF Next, Accept, Setup, Exchange, WaitAny, Finish, Serve

(***************************************************************************)
(* Unless the disk fills up or a later read fails, what mapserv has made   *)
(* is in the pipe or in the file; at the end of file mapserv is gone       *)
(* (AliveHolds) and all of it is in the file.                              *)
(***************************************************************************)
LEMMA SpooledStep ==
    ASSUME TypeOK, KidOwned, AliveHolds, NotStarted, Spooled, [Next]_vars,
           ~DiskFills, "more" \notin ReadFails
    PROVE  Spooled'
<1> USE KidsAssumption
        DEF TypeOK, KidOwned, Spooled, Running,
            Engaged, Busy, Unforked, Forked, Reading,
            Waiting, Outcomes,
            Goto, ReturnNull, TakeLow,
            EndRead, Exiting, pvars, wvars, kvars
<1>1. ASSUME NEW w \in Workers, NEW n \in 1..MaxReq, Call(w, n) PROVE Spooled'
  BY <1>1 DEF Call
<1>2. ASSUME NEW w \in Workers, Refuse(w) PROVE Spooled'
  BY <1>2 DEF Refuse
<1>3. ASSUME NEW w \in Workers, NEW k \in Kids, PipeRr(w, k) PROVE Spooled'
  BY <1>3 DEF PipeRr, Free
<1>4. ASSUME NEW w \in Workers, PipeRrFail(w) PROVE Spooled'
  BY <1>4 DEF PipeRrFail
<1>5. ASSUME NEW w \in Workers, PipeWw(w) PROVE Spooled'
  BY <1>5 DEF PipeWw
<1>6. ASSUME NEW w \in Workers, PipeBelow3(w) PROVE Spooled'
  BY <1>6 DEF PipeBelow3
<1>7. ASSUME NEW w \in Workers, PipeWwFail(w) PROVE Spooled'
  BY <1>7 DEF PipeWwFail
<1>8. ASSUME NEW w \in Workers, Fork(w) PROVE Spooled'
  BY <1>8 DEF Fork, NotStarted
<1>9. ASSUME NEW w \in Workers, ForkFail(w) PROVE Spooled'
  BY <1>9 DEF ForkFail
<1>10. ASSUME NEW w \in Workers, CloseUnused(w) PROVE Spooled'
  BY <1>10 DEF CloseUnused
<1>11. ASSUME NEW w \in Workers, WriteReq(w) PROVE Spooled'
  BY <1>11 DEF WriteReq
<1>12. ASSUME NEW w \in Workers, WriteBroken(w) PROVE Spooled'
  BY <1>12 DEF WriteBroken
<1>13. ASSUME NEW w \in Workers, CloseReq(w) PROVE Spooled'
  BY <1>13 DEF CloseReq
<1>14. ASSUME NEW w \in Workers, MakeTemp(w) PROVE Spooled'
  BY <1>14 DEF MakeTemp
<1>15. ASSUME NEW w \in Workers, MakeTempFail(w) PROVE Spooled'
  BY <1>15 DEF MakeTempFail
<1>16. ASSUME NEW w \in Workers, NEW lost \in BOOLEAN, ReadChunk(w, lost) PROVE Spooled'
  <2>1. /\ pc[w] \in Reading /\ wwpipe[cpid[w]] > 0
        /\ pc' = [pc EXCEPT ![w] = "read_more"]
        /\ wwpipe' = [wwpipe EXCEPT ![cpid[w]] = @ - 1]
        /\ file' = [file EXCEPT ![w] = @ + 1]
        /\ UNCHANGED <<cpid, made, proc, tmp>>
    BY <1>16 DEF ReadChunk
  <2>2. cpid[w] \in Kids /\ made[cpid[w]] = file[w] + wwpipe[cpid[w]]
    BY <2>1 DEF KidOwned, Spooled
  <2>3. \A v \in Workers \ {w} :
          /\ pc'[v] = pc[v] /\ file'[v] = file[v]
          /\ cpid[v] \in Kids => wwpipe'[cpid[v]] = wwpipe[cpid[v]]
    BY <2>1, <2>2 DEF KidOwned
  <2>4. pc'[w] = "read_more" /\ made'[cpid'[w]] = file'[w] + wwpipe'[cpid'[w]]
    BY <2>1, <2>2
  <2> QED
    BY <2>1, <2>3, <2>4 DEF Spooled
<1>17. ASSUME NEW w \in Workers, ReadEOF(w) PROVE Spooled'
  BY <1>17 DEF ReadEOF, AliveHolds, Open
<1>18. ASSUME NEW w \in Workers, ReadRetry(w) PROVE Spooled'
  BY <1>18 DEF ReadRetry
<1>19. ASSUME NEW w \in Workers, ReadBroken(w) PROVE Spooled'
  BY <1>19 DEF ReadBroken
<1>20. ASSUME NEW w \in Workers, NEW z \in Kids, Wait(w, z) PROVE Spooled'
  BY <1>20 DEF Wait
<1>21. ASSUME NEW w \in Workers, Fdopen(w) PROVE Spooled'
  BY <1>21 DEF Fdopen
<1>22. ASSUME NEW w \in Workers, FdopenFail(w) PROVE Spooled'
  BY <1>22 DEF FdopenFail
<1>23. ASSUME NEW w \in Workers, Cleanup(w) PROVE Spooled'
  BY <1>23 DEF Cleanup
<1>24. ASSUME NEW k \in Kids, Exec(k) PROVE Spooled'
  BY <1>24 DEF Exec
<1>25. ASSUME NEW k \in Kids, KidRead(k) PROVE Spooled'
  BY <1>25 DEF KidRead
<1>26. ASSUME NEW k \in Kids, NEW n \in 0..MaxResp, KidAnswer(k, n) PROVE Spooled'
  BY <1>26 DEF KidAnswer
<1>27. ASSUME NEW k \in Kids, KidWrite(k) PROVE Spooled'
  BY <1>27 DEF KidWrite
<1>28. ASSUME NEW k \in Kids, KidExit(k) PROVE Spooled'
  BY <1>28 DEF KidExit
<1>29. ASSUME NEW k \in Kids, KidBroken(k) PROVE Spooled'
  BY <1>29 DEF KidBroken
<1>30. ASSUME NEW k \in Kids, KidFail(k) PROVE Spooled'
  BY <1>30 DEF KidFail
<1>31. ASSUME NEW k \in Kids, KidZombie(k) PROVE Spooled'
  BY <1>31 DEF KidZombie
<1>32. ASSUME NEW k \in Kids, Adopted(k) PROVE Spooled'
  BY <1>32 DEF Adopted
<1>33. CASE UNCHANGED vars
  BY <1>33 DEF vars
<1> HIDE DEF Spooled
<1> QED
  BY <1>1, <1>2, <1>3, <1>4, <1>5, <1>6, <1>7, <1>8, <1>9, <1>10,
     <1>11, <1>12, <1>13, <1>14, <1>15, <1>16, <1>17, <1>18, <1>19, <1>20,
     <1>21, <1>22, <1>23, <1>24, <1>25, <1>26, <1>27, <1>28, <1>29, <1>30,
     <1>31, <1>32, <1>33
     DEF Next, Accept, Setup, Exchange, WaitAny, Finish, Serve

(***************************************************************************)
(* All the parts that need no assumption on the faults.                    *)
(***************************************************************************)
LEMMA BookkeepingStep ==
    ASSUME Bookkeeping, [Next]_vars
    PROVE  Bookkeeping'
BY TypeStep, KidOwnedStep, OwnEndsStep, EndsOwnedStep, AliveHoldsStep,
   NotStartedStep, TempNamedStep DEF Bookkeeping
=============================================================================
