--------------------------- MODULE SoapProxyProofs ---------------------------
(***************************************************************************)
(* For any number of threads and any length of answer: streams are cleaned *)
(* up, NULL has a cause, coverages are whole, and no answer is read before *)
(* the body of the request was sent.  Of what the threads share: what the  *)
(* backend is given of services.xml, for strings of any length, and that a *)
(* fault finds its text, however many threads fill the table of messages   *)
(* at once, as long as the flag is stored after them.                      *)
(***************************************************************************)
EXTENDS SoapProxy, TLAPS, SequenceTheorems

\* Before anything of the answer has been read.
Fresh == {"idle", "errors", "props", "node", "dispatch", "backend", "connect", "calling"}
         \cup Sending \cup {"head", "looping"}

Reading == {"parse", "load"}
Ending == {"cleanup", "after", "reply"}

Untouched(w) == node[w] = NoNode /\ taken[w] = 0 /\ ctype[w] = "absent"

\* What holds of one thread's request at each of its statements.
Stage(w) ==
    /\ pc[w] \in Fresh => error[w] = "none" /\ Untouched(w)
    /\ pc[w] = "no_stream" => error[w] \in {"none", "MS_EXEC"} /\ Untouched(w)
    /\ pc[w] \in Reading => error[w] = "none" /\ node[w] = NoNode /\ taken[w] > 0
    /\ pc[w] = "dump" => error[w] = "CONTENTTYPE" /\ node[w] = NoNode /\ taken[w] > 0
    /\ pc[w] \in Ending => (node[w] = NoNode <=> error[w] # "none")

\* The parts of NullHasCause and BodyWhole that speak of one thread.
Blame(w) ==
    /\ error[w] = "MS_EXEC" => taken[w] = 0 /\ ctype[w] = "absent"
    /\ error[w] \in {"CONTENTTYPE", "DATA_LOAD", "PARSE"} => taken[w] > 0

Body(w) == node[w].kind = "coverage" => ends[w] = "eof" /\ node[w].body = avail[w] - 1

Stream(w) == w \in open <=> pc[w] \in Using \cup Sending

Local(w) == Stage(w) /\ Blame(w) /\ Body(w) /\ Stream(w) /\ taken[w] <= avail[w]

\* TypeOK in two parts: what a request changes, and what threads share.
Typed ==
    /\ up \in BOOLEAN
    /\ fd0 \in {"taken", "free", "lost"}
    /\ pc \in [Workers -> Labels]
    /\ op \in [Workers -> Ops]
    /\ open \in SUBSET Workers
    /\ sent \in [Workers -> SUBSET {"head", "body"}]
    /\ broken \in [Workers -> BOOLEAN]
    /\ avail \in [Workers -> 0..MaxChunks]
    /\ ends \in [Workers -> {"more", "eof", "reset"}]
    /\ taken \in [Workers -> 0..MaxChunks]
    /\ ctype \in [Workers -> Types]
    /\ node \in [Workers -> Nodes]
    /\ error \in [Workers -> Errors]
    /\ phase \in [Workers -> {"idle", "busy", "stream", "null", "dead"}]
    /\ produced \in [Workers -> 0..MaxChunks]
    /\ delivered \in [Workers -> 0..MaxChunks]

SharedTyped ==
    /\ conf \in Configurations
    /\ messages \in SUBSET Errors /\ ready \in BOOLEAN
    /\ told \in [Workers -> 0..Len(Messages)]

LEMMA TypeParts == TypeOK <=> Typed /\ SharedTyped
BY DEF TypeOK, Typed, SharedTyped

ProxyInv == Typed /\ SharedTyped /\ \A w \in Workers : Local(w)

\* What has been sent at each statement.
Sent(w) ==
    /\ pc[w] \in (Fresh \ {"send_body", "head", "looping"}) =>
          sent[w] = {} /\ ~broken[w]
    /\ pc[w] = "send_body" => sent[w] = {"head"} \/ broken[w]
    /\ pc[w] = "calling" => ~UrlMode
    /\ UrlMode /\ pc[w] \in Using => "body" \in sent[w] /\ ("head" \in sent[w] \/ broken[w])

SendInv == \A w \in Workers : Sent(w)

\* What the table is filled with.
LEMMA MessagesListed ==
    /\ Len(Messages) = 10
    /\ \A n \in 1..10 : Messages[n] \in Errors
<1>1. Messages[1] = "NO_INPUT" /\ Messages[2] = "BAD_OP" /\ Messages[3] = "BAD_REQ"
  BY DEF Messages
<1>2. Messages[4] = "DATA_LOAD" /\ Messages[5] = "PARSE" /\ Messages[6] = "CONTENTTYPE"
  BY DEF Messages
<1>3. Messages[7] = "CONTENTHEADERS" /\ Messages[8] = "MS_EXEC"
  BY DEF Messages
<1>4. Messages[9] = "PROPSLOAD" /\ Messages[10] = "NOT_IMPLEMENTED"
  BY DEF Messages
<1>5. Len(Messages) = 10
  BY DEF Messages
<1> HIDE DEF Messages
<1> QED
  BY <1>1, <1>2, <1>3, <1>4, <1>5 DEF Errors

\* The configuration does not change, nor does what depends on it.
LEMMA ModeKept == conf' = conf => UrlMode' = UrlMode /\ Runnable' = Runnable
BY DEF UrlMode, Runnable, props

\* Only rp_init_errors touches the table.
Shared == UNCHANGED table \/ \E w \in Workers : InitErrors(w)

LEMMA InitProxy == Init => ProxyInv
<1> SUFFICES ASSUME Init PROVE ProxyInv
  OBVIOUS
<1>1. Typed
  BY BoundsAssumption DEF Init, Typed, Labels, Ops, Types, Errors, Nodes, NoNode, Exec!Init
<1>2. SharedTyped
  <2>1. conf \in Configurations
    BY ConfsAssumption DEF Init
  <2>2. told \in [Workers -> 0..10]
    BY DEF Init
  <2> QED
    BY <2>1, <2>2, MessagesListed DEF Init, SharedTyped
<1>3. ASSUME NEW w \in Workers PROVE Local(w)
  <2>1. w \notin open /\ pc[w] = "idle" /\ error[w] = "none" /\ Untouched(w) /\ avail[w] = 0
    BY DEF Init, Untouched
  <2>2. NoNode.kind = "NULL"
    BY DEF NoNode
  <2> QED
    BY <2>1, <2>2
       DEF Local, Stage, Blame, Body, Stream, Untouched, Fresh, Reading, Ending, Using, Sending
<1> QED
  BY <1>1, <1>2, <1>3 DEF ProxyInv

LEMMA SharedKept == [Next]_vars => conf' = conf /\ Shared
<1> SUFFICES ASSUME [Next]_vars PROVE conf' = conf /\ Shared
  OBVIOUS
<1> USE DEF pvars, table, Shared
<1>1. ASSUME NEW w \in Workers, InitErrors(w) PROVE conf' = conf /\ Shared
  BY <1>1 DEF Stored, InitErrors
<1>2. ASSUME NEW w \in Workers, LoadProps(w) PROVE conf' = conf /\ Shared
  BY <1>2 DEF LoadProps, Step, Failed
<1>3. ASSUME NEW w \in Workers, TakeNode(w) PROVE conf' = conf /\ Shared
  BY <1>3 DEF TakeNode, Step, Failed
<1>4. ASSUME NEW w \in Workers, Dispatch(w) PROVE conf' = conf /\ Shared
  BY <1>4 DEF Dispatch, Step, Failed, Die, Exec!Die
<1>5. ASSUME NEW w \in Workers, CallExec(w) PROVE conf' = conf /\ Shared
  BY <1>5 DEF CallExec, Exec!Call, Exec!Refuse
<1>6. ASSUME NEW w \in Workers, CallSock(w) PROVE conf' = conf /\ Shared
  BY <1>6 DEF CallSock, Step, Failed
<1>7. ASSUME NEW w \in Workers, Connect(w) PROVE conf' = conf /\ Shared
  BY <1>7 DEF Connect
<1>8. ASSUME NEW w \in Workers, ConnectZero(w) PROVE conf' = conf /\ Shared
  BY <1>8 DEF ConnectZero
<1>9. ASSUME NEW w \in Workers, ConnectFail(w) PROVE conf' = conf /\ Shared
  BY <1>9 DEF ConnectFail, Step
<1>10. ASSUME NEW w \in Workers, WriteHead(w) PROVE conf' = conf /\ Shared
  BY <1>10 DEF WriteHead, Took
<1>11. ASSUME NEW w \in Workers, WriteHeadShort(w) PROVE conf' = conf /\ Shared
  BY <1>11 DEF WriteHeadShort, DropSock
<1>12. ASSUME NEW w \in Workers, WriteHeadFail(w) PROVE conf' = conf /\ Shared
  BY <1>12 DEF WriteHeadFail
<1>13. ASSUME NEW w \in Workers, WriteBody(w) PROVE conf' = conf /\ Shared
  BY <1>13 DEF WriteBody, Took
<1>14. ASSUME NEW w \in Workers, WriteBodyFail(w) PROVE conf' = conf /\ Shared
  BY <1>14 DEF WriteBodyFail, DropSock
<1>15. ASSUME NEW w \in Workers, NoStream(w) PROVE conf' = conf /\ Shared
  BY <1>15 DEF NoStream, Exec!Done
<1>16. ASSUME NEW w \in Workers, ReadBody(w) PROVE conf' = conf /\ Shared
  BY <1>16 DEF ReadBody
<1>17. ASSUME NEW w \in Workers, ParseEnd(w) PROVE conf' = conf /\ Shared
  BY <1>17 DEF ParseEnd, Drained
<1>18. ASSUME NEW w \in Workers, LoadEnd(w) PROVE conf' = conf /\ Shared
  BY <1>18 DEF LoadEnd, Drained, Built, Failed, Die, Exec!Die
<1>19. ASSUME NEW w \in Workers, DumpEnd(w) PROVE conf' = conf /\ Shared
  BY <1>19 DEF DumpEnd, Drained, Step, Die, Exec!Die
<1>20. ASSUME NEW w \in Workers, LoadReset(w) PROVE conf' = conf /\ Shared
  BY <1>20 DEF LoadReset, Die, Exec!Die
<1>21. ASSUME NEW w \in Workers, Cleanup(w) PROVE conf' = conf /\ Shared
  BY <1>21 DEF Cleanup, Exec!Done
<1>22. ASSUME NEW w \in Workers, After(w) PROVE conf' = conf /\ Shared
  BY <1>22 DEF After, Step, Die, Exec!Die
<1>23. ASSUME NEW w \in Workers, Reply(w) PROVE conf' = conf /\ Shared
  BY <1>23 DEF Reply
<1>24. ASSUME NEW w \in Workers, Produce(w) PROVE conf' = conf /\ Shared
  BY <1>24 DEF Produce, Exec!Produce
<1>25. ASSUME NEW w \in Workers, ExecAnswer(w) PROVE conf' = conf /\ Shared
  BY <1>25 DEF ExecAnswer, Exec!Answer
<1>26. ASSUME NEW w \in Workers, ExecFail(w) PROVE conf' = conf /\ Shared
  BY <1>26 DEF ExecFail, Exec!Fail
<1>27. ASSUME NEW w \in Workers, ExecDie(w) PROVE conf' = conf /\ Shared
  BY <1>27 DEF ExecDie, Die, Exec!Die
<1>28. ASSUME NEW w \in Workers, PeerSend(w) PROVE conf' = conf /\ Shared
  BY <1>28 DEF PeerSend
<1>29. ASSUME NEW w \in Workers, NEW o \in Ops, Invoke(w, o) PROVE conf' = conf /\ Shared
  BY <1>29 DEF Invoke
<1>30. ASSUME NEW w \in Workers, NEW t \in Types, ReadHead(w, t) PROVE conf' = conf /\ Shared
  BY <1>30 DEF ReadHead, Drained
<1>31. ASSUME NEW w \in Workers, NEW how \in {"eof", "reset"}, PeerEnd(w, how) PROVE conf' = conf /\ Shared
  BY <1>31 DEF PeerEnd
<1>33. ASSUME NEW w \in Workers, HeadFail(w) PROVE conf' = conf /\ Shared
  BY <1>33 DEF HeadFail, Step
<1>32. CASE UNCHANGED vars
  BY <1>32 DEF vars
<1> HIDE DEF pvars, table, Shared
<1> QED
  BY <1>1, <1>2, <1>3, <1>4, <1>5, <1>6, <1>7, <1>8, <1>9, <1>10, <1>11, <1>12, <1>13, <1>14,
     <1>15, <1>16, <1>17, <1>18, <1>19, <1>20, <1>21, <1>22, <1>23, <1>24, <1>25, <1>26, <1>27, <1>28,
     <1>29, <1>30, <1>31, <1>32, <1>33,
     AskedAssumption DEF Next, Request, Response, Forked

LEMMA TypeKept == ProxyInv /\ [Next]_vars => Typed'
<1> SUFFICES ASSUME ProxyInv, [Next]_vars PROVE Typed'
  OBVIOUS
<1>0. Typed
  BY DEF ProxyInv
<1> USE <1>0, BoundsAssumption DEF Typed, Goto, Labels, Using, Sending, evars, svars, pvars, table, Ops, Types, Errors, Nodes, NoNode
<1>load. \A w \in Workers : pc[w] \in {"parse", "load"} => taken[w] > 0
  BY DEF ProxyInv, Local, Stage, Reading
<1>step. ASSUME NEW w \in Workers, NEW l \in Labels, Step(w, l) PROVE Typed'
  BY <1>step DEF Step
<1>fail. ASSUME NEW w \in Workers, NEW e \in Errors, NEW l \in Labels, Failed(w, e, l)
         PROVE  Typed'
  BY <1>fail DEF Failed
<1>die. ASSUME Die PROVE Typed'
  <2>1. /\ phase' \in [Workers -> {"idle", "busy", "stream", "null", "dead"}]
        /\ produced' \in [Workers -> 0..MaxChunks]
        /\ delivered' \in [Workers -> 0..MaxChunks]
    BY <1>die DEF Die, Exec!Die
  <2>2. pc' \in [Workers -> Labels] /\ open' = {} /\ up' = FALSE
    BY <1>die DEF Die
  <2>3. UNCHANGED <<conf, table, fd0, op, svars, node, error>>
    BY <1>die DEF Die
  <2> QED
    BY <2>1, <2>2, <2>3
<1>built. ASSUME NEW w \in Workers, taken[w] > 0, Built(w)
          PROVE  Typed'
  <2>1. [kind |-> "coverage", body |-> taken[w] - 1] \in Nodes
    BY <1>built
  <2> HIDE DEF Nodes
  <2> QED
    BY <1>built, <2>1 DEF Built
<1>1. ASSUME NEW w \in Workers, InitErrors(w) PROVE Typed'
  BY <1>1 DEF InitErrors, Stored
<1>2. ASSUME NEW w \in Workers, LoadProps(w) PROVE Typed'
  BY <1>2, <1>step, <1>fail DEF LoadProps
<1>3. ASSUME NEW w \in Workers, TakeNode(w) PROVE Typed'
  BY <1>3, <1>step, <1>fail DEF TakeNode
<1>4. ASSUME NEW w \in Workers, Dispatch(w) PROVE Typed'
  BY <1>4, <1>step, <1>fail, <1>die DEF Dispatch
<1>5. ASSUME NEW w \in Workers, CallExec(w) PROVE Typed'
  <2>1. /\ phase' \in [Workers -> {"idle", "busy", "stream", "null", "dead"}]
        /\ produced' \in [Workers -> 0..MaxChunks]
        /\ delivered' \in [Workers -> 0..MaxChunks]
    BY <1>5 DEF CallExec, Exec!Call, Exec!Refuse
  <2>2. pc' \in [Workers -> Labels] /\ error' \in [Workers -> Errors]
    BY <1>5 DEF CallExec
  <2> QED
    BY <1>5, <2>1, <2>2 DEF CallExec
<1>6. ASSUME NEW w \in Workers, CallSock(w) PROVE Typed'
  BY <1>6, <1>step, <1>fail DEF CallSock
<1>7. ASSUME NEW w \in Workers, Connect(w) PROVE Typed'
  BY <1>7 DEF Connect
<1>8. ASSUME NEW w \in Workers, ConnectZero(w) PROVE Typed'
  BY <1>8 DEF ConnectZero
<1>9. ASSUME NEW w \in Workers, ConnectFail(w) PROVE Typed'
  BY <1>9 DEF ConnectFail, Step
<1>10. ASSUME NEW w \in Workers, WriteHead(w) PROVE Typed'
  BY <1>10 DEF WriteHead, Took
<1>11. ASSUME NEW w \in Workers, WriteHeadShort(w) PROVE Typed'
  BY <1>11 DEF WriteHeadShort, DropSock
<1>12. ASSUME NEW w \in Workers, WriteHeadFail(w) PROVE Typed'
  BY <1>12 DEF WriteHeadFail
<1>13. ASSUME NEW w \in Workers, WriteBody(w) PROVE Typed'
  BY <1>13 DEF WriteBody, Took
<1>14. ASSUME NEW w \in Workers, WriteBodyFail(w) PROVE Typed'
  BY <1>14 DEF WriteBodyFail, DropSock
<1>15. ASSUME NEW w \in Workers, NoStream(w) PROVE Typed'
  <2>1. /\ phase' \in [Workers -> {"idle", "busy", "stream", "null", "dead"}]
        /\ produced' \in [Workers -> 0..MaxChunks]
        /\ delivered' \in [Workers -> 0..MaxChunks]
    <3>1. CASE UNCHANGED evars
      BY <3>1
    <3>2. CASE Exec!Done(w)
      BY <3>2 DEF Exec!Done
    <3> QED
      BY <1>15, <3>1, <3>2 DEF NoStream
  <2>2. pc' \in [Workers -> Labels] /\ error' \in [Workers -> Errors]
    BY <1>15 DEF NoStream
  <2> QED
    BY <1>15, <2>1, <2>2 DEF NoStream
<1>16. ASSUME NEW w \in Workers, ReadBody(w) PROVE Typed'
  BY <1>16 DEF ReadBody
<1>17. ASSUME NEW w \in Workers, ParseEnd(w) PROVE Typed'
  <2>1. taken' \in [Workers -> 0..MaxChunks] /\ taken'[w] \in 0..MaxChunks
    <3>1. CASE UNCHANGED taken
      BY <3>1
    <3>2. CASE taken[w] < avail[w] /\ taken' = [taken EXCEPT ![w] = @ + 1]
      <4>1. taken[w] + 1 \in 0..MaxChunks
        BY <3>2
      <4> QED
        BY <3>2, <4>1
    <3> QED
      BY <1>17, <3>1, <3>2 DEF ParseEnd
  <2>2. \A n \in 1..(taken'[w] - 1) : [kind |-> "xml", body |-> n] \in Nodes
    BY <2>1
  <2>3. node' \in [Workers -> Nodes] /\ error' \in [Workers -> Errors]
    <3> HIDE DEF Nodes
    <3> QED
      BY <1>17, <2>2 DEF ParseEnd
  <2>4. pc' \in [Workers -> Labels]
    BY <1>17 DEF ParseEnd
  <2> QED
    BY <1>17, <2>1, <2>3, <2>4 DEF ParseEnd
<1>18. ASSUME NEW w \in Workers, LoadEnd(w) PROVE Typed'
  BY <1>18, <1>fail, <1>built, <1>load, <1>die DEF LoadEnd
<1>19. ASSUME NEW w \in Workers, DumpEnd(w) PROVE Typed'
  BY <1>19, <1>step, <1>die DEF DumpEnd
<1>20. ASSUME NEW w \in Workers, LoadReset(w) PROVE Typed'
  BY <1>20, <1>die DEF LoadReset
<1>21. ASSUME NEW w \in Workers, Cleanup(w) PROVE Typed'
  <2>1. /\ phase' \in [Workers -> {"idle", "busy", "stream", "null", "dead"}]
        /\ produced' \in [Workers -> 0..MaxChunks]
        /\ delivered' \in [Workers -> 0..MaxChunks]
    <3>1. CASE UNCHANGED evars
      BY <3>1
    <3>2. CASE Exec!Done(w)
      BY <3>2 DEF Exec!Done
    <3> QED
      BY <1>21, <3>1, <3>2 DEF Cleanup
  <2>2. pc' \in [Workers -> Labels] /\ open' \in SUBSET Workers
    BY <1>21 DEF Cleanup
  <2> QED
    BY <1>21, <2>1, <2>2 DEF Cleanup
<1>22. ASSUME NEW w \in Workers, After(w) PROVE Typed'
  BY <1>22, <1>step, <1>die DEF After
<1>23. ASSUME NEW w \in Workers, Reply(w) PROVE Typed'
  BY <1>23 DEF Reply
<1>24. ASSUME NEW w \in Workers, Produce(w) PROVE Typed'
  BY <1>24 DEF Produce, Exec!Produce
<1>25. ASSUME NEW w \in Workers, ExecAnswer(w) PROVE Typed'
  BY <1>25 DEF ExecAnswer, Exec!Answer
<1>26. ASSUME NEW w \in Workers, ExecFail(w) PROVE Typed'
  BY <1>26 DEF ExecFail, Exec!Fail
<1>27. ASSUME NEW w \in Workers, ExecDie(w) PROVE Typed'
  BY <1>27, <1>die DEF ExecDie
<1>28. ASSUME NEW w \in Workers, PeerSend(w) PROVE Typed'
  BY <1>28 DEF PeerSend
<1>29. ASSUME NEW w \in Workers, NEW o \in Ops, Invoke(w, o) PROVE Typed'
  BY <1>29 DEF Invoke
<1>30. ASSUME NEW w \in Workers, NEW t \in Types, ReadHead(w, t) PROVE Typed'
  <2>1. taken' \in [Workers -> 0..MaxChunks]
    BY <1>30 DEF ReadHead, Drained
  <2>2. ctype' \in [Workers -> Types]
    BY <1>30 DEF ReadHead
  <2>3. error' \in [Workers -> Errors]
    BY <1>30 DEF ReadHead
  <2>4. pc' \in [Workers -> Labels]
    BY <1>30 DEF ReadHead
  <2> QED
    BY <1>30, <2>1, <2>2, <2>3, <2>4 DEF ReadHead
<1>31. ASSUME NEW w \in Workers, NEW how \in {"eof", "reset"}, PeerEnd(w, how) PROVE Typed'
  BY <1>31 DEF PeerEnd
<1>33. ASSUME NEW w \in Workers, HeadFail(w) PROVE Typed'
  BY <1>33 DEF HeadFail, Step
<1>32. CASE UNCHANGED vars
  BY <1>32 DEF vars
<1> HIDE DEF Typed, Goto, Labels, Using, Sending, evars, svars, pvars, table, Ops, Types, Errors, Nodes, NoNode
<1> QED
  BY <1>1, <1>2, <1>3, <1>4, <1>5, <1>6, <1>7, <1>8, <1>9, <1>10, <1>11, <1>12, <1>13, <1>14,
     <1>15, <1>16, <1>17, <1>18, <1>19, <1>20, <1>21, <1>22, <1>23, <1>24, <1>25, <1>26, <1>27, <1>28,
     <1>29, <1>30, <1>31, <1>32, <1>33,
     AskedAssumption DEF Next, Request, Response, Forked

LEMMA LocalKept == ProxyInv /\ [Next]_vars => (\A v \in Workers : Local(v))'
<1> SUFFICES ASSUME ProxyInv, [Next]_vars, NEW v \in Workers PROVE Local(v)'
  OBVIOUS
<1>0. Typed /\ \A x \in Workers : Local(x)
  BY DEF ProxyInv
<1> USE <1>0, BoundsAssumption DEF Typed, Goto, evars, svars, pvars, table, Local, Stage, Blame, Body, Stream, Untouched, Fresh, Reading, Ending, Using, Sending
<1>node. \A k \in {"xml", "coverage"}, n \in Int :
             LET r == [kind |-> k, body |-> n] IN r # NoNode /\ r.body = n
  BY DEF NoNode
<1>1. ASSUME NEW w \in Workers, InitErrors(w) PROVE Local(v)'
  BY <1>1 DEF InitErrors, Stored
<1>2. ASSUME NEW w \in Workers, LoadProps(w) PROVE Local(v)'
  BY <1>2 DEF LoadProps, Step, Failed
<1>3. ASSUME NEW w \in Workers, TakeNode(w) PROVE Local(v)'
  BY <1>3 DEF TakeNode, Step, Failed
<1>4. ASSUME NEW w \in Workers, Dispatch(w) PROVE Local(v)'
  BY <1>4 DEF Dispatch, Step, Failed, Die, Exec!Die
<1>5. ASSUME NEW w \in Workers, CallExec(w) PROVE Local(v)'
  BY <1>5 DEF CallExec, Exec!Call, Exec!Refuse
<1>6. ASSUME NEW w \in Workers, CallSock(w) PROVE Local(v)'
  BY <1>6 DEF CallSock, Step, Failed
<1>7. ASSUME NEW w \in Workers, Connect(w) PROVE Local(v)'
  BY <1>7 DEF Connect
<1>8. ASSUME NEW w \in Workers, ConnectZero(w) PROVE Local(v)'
  BY <1>8 DEF ConnectZero
<1>9. ASSUME NEW w \in Workers, ConnectFail(w) PROVE Local(v)'
  BY <1>9 DEF ConnectFail, Step
<1>10. ASSUME NEW w \in Workers, WriteHead(w) PROVE Local(v)'
  BY <1>10 DEF WriteHead, Took
<1>11. ASSUME NEW w \in Workers, WriteHeadShort(w) PROVE Local(v)'
  BY <1>11 DEF WriteHeadShort, DropSock
<1>12. ASSUME NEW w \in Workers, WriteHeadFail(w) PROVE Local(v)'
  BY <1>12 DEF WriteHeadFail
<1>13. ASSUME NEW w \in Workers, WriteBody(w) PROVE Local(v)'
  BY <1>13 DEF WriteBody, Took
<1>14. ASSUME NEW w \in Workers, WriteBodyFail(w) PROVE Local(v)'
  BY <1>14 DEF WriteBodyFail, DropSock
<1>15. ASSUME NEW w \in Workers, NoStream(w) PROVE Local(v)'
  BY <1>15 DEF NoStream, Exec!Done
<1>16. ASSUME NEW w \in Workers, ReadBody(w) PROVE Local(v)'
  BY <1>16 DEF ReadBody
<1>17. ASSUME NEW w \in Workers, ParseEnd(w) PROVE Local(v)'
  <2>1. CASE v # w
    BY <1>17, <2>1 DEF ParseEnd, Drained
  <2>2. CASE v = w
    BY <1>17, <1>node, <2>2 DEF ParseEnd, Drained
  <2> QED
    BY <2>1, <2>2
<1>18. ASSUME NEW w \in Workers, LoadEnd(w) PROVE Local(v)'
  <2>1. CASE v # w
    BY <1>18, <2>1 DEF LoadEnd, Drained, Built, Failed, Die, Exec!Die
  <2>2. CASE v = w
    BY <1>18, <1>node, <2>2 DEF LoadEnd, Drained, Built, Failed, Die, Exec!Die
  <2> QED
    BY <2>1, <2>2
<1>19. ASSUME NEW w \in Workers, DumpEnd(w) PROVE Local(v)'
  BY <1>19 DEF DumpEnd, Drained, Step, Die, Exec!Die
<1>20. ASSUME NEW w \in Workers, LoadReset(w) PROVE Local(v)'
  BY <1>20 DEF LoadReset, Die, Exec!Die
<1>21. ASSUME NEW w \in Workers, Cleanup(w) PROVE Local(v)'
  BY <1>21 DEF Cleanup, Exec!Done
<1>22. ASSUME NEW w \in Workers, After(w) PROVE Local(v)'
  BY <1>22 DEF After, Step, Die, Exec!Die
<1>23. ASSUME NEW w \in Workers, Reply(w) PROVE Local(v)'
  BY <1>23 DEF Reply, NoNode
<1>24. ASSUME NEW w \in Workers, Produce(w) PROVE Local(v)'
  BY <1>24 DEF Produce, Exec!Produce
<1>25. ASSUME NEW w \in Workers, ExecAnswer(w) PROVE Local(v)'
  <2>1. CASE v # w
    BY <1>25, <2>1 DEF ExecAnswer
  <2>2. CASE v = w
    <3>1. taken'[w] <= avail'[w]
      BY <1>25 DEF ExecAnswer
    <3>2. node[w].kind # "coverage"
      BY <1>25 DEF ExecAnswer, NoNode
    <3> QED
      BY <1>25, <2>2, <3>1, <3>2 DEF ExecAnswer
  <2> QED
    BY <2>1, <2>2
<1>26. ASSUME NEW w \in Workers, ExecFail(w) PROVE Local(v)'
  BY <1>26 DEF ExecFail, Exec!Fail
<1>27. ASSUME NEW w \in Workers, ExecDie(w) PROVE Local(v)'
  BY <1>27 DEF ExecDie, Die, Exec!Die
<1>28. ASSUME NEW w \in Workers, PeerSend(w) PROVE Local(v)'
  BY <1>28 DEF PeerSend
<1>29. ASSUME NEW w \in Workers, NEW o \in Ops, Invoke(w, o) PROVE Local(v)'
  BY <1>29 DEF Invoke
<1>30. ASSUME NEW w \in Workers, NEW t \in Types, ReadHead(w, t) PROVE Local(v)'
  <2>1. CASE v # w
    BY <1>30, <2>1 DEF ReadHead
  <2>2. CASE v = w
    <3>1. /\ error[w] = "none" /\ Untouched(w) /\ w \in open
          /\ UNCHANGED <<open, avail, ends, node>>
      BY <1>30 DEF ReadHead
    <3>2. ctype'[w] = t /\ (taken'[w] > 0 \/ (t = "absent" /\ taken'[w] = 0))
      BY <1>30 DEF ReadHead, Drained
    <3>5. taken'[w] <= avail'[w]
      BY <1>30 DEF ReadHead
    <3>3. error'[w] = IF t = "absent" THEN "CONTENTHEADERS"
                      ELSE IF t \in {"text", "other"} THEN "CONTENTTYPE" ELSE "none"
      BY <1>30, <3>1 DEF ReadHead
    <3>4. /\ t = "xml" => pc'[w] = "parse"
          /\ t \in {"mixed", "tiff"} => pc'[w] = "load"
          /\ t = "text" => pc'[w] \in {"dump", "cleanup"}
          /\ t \in {"other", "absent"} => pc'[w] = "cleanup"
      BY <1>30 DEF ReadHead
    <3> QED
      BY <2>2, <3>1, <3>2, <3>3, <3>4, <3>5 DEF Types
  <2> QED
    BY <2>1, <2>2
<1>31. ASSUME NEW w \in Workers, NEW how \in {"eof", "reset"}, PeerEnd(w, how) PROVE Local(v)'
  BY <1>31 DEF PeerEnd
<1>33. ASSUME NEW w \in Workers, HeadFail(w) PROVE Local(v)'
  BY <1>33 DEF HeadFail, Step
<1>32. CASE UNCHANGED vars
  BY <1>32 DEF vars
<1> HIDE DEF Typed, Goto, evars, svars, pvars, table, Local, Stage, Blame, Body, Stream, Untouched, Fresh, Reading, Ending, Using, Sending
<1> QED
  BY <1>1, <1>2, <1>3, <1>4, <1>5, <1>6, <1>7, <1>8, <1>9, <1>10, <1>11, <1>12, <1>13, <1>14,
     <1>15, <1>16, <1>17, <1>18, <1>19, <1>20, <1>21, <1>22, <1>23, <1>24, <1>25, <1>26, <1>27, <1>28,
     <1>29, <1>30, <1>31, <1>32, <1>33,
     AskedAssumption DEF Next, Request, Response, Forked

LEMMA SentKept == ProxyInv /\ SendInv /\ [Next]_vars => SendInv'
<1> SUFFICES ASSUME ProxyInv, SendInv, [Next]_vars, NEW v \in Workers PROVE Sent(v)'
  BY DEF SendInv
<1>0. /\ Typed /\ \A x \in Workers : Sent(x)
      /\ conf' = conf => UrlMode' = UrlMode
  BY ModeKept DEF ProxyInv, SendInv
<1> USE <1>0, BoundsAssumption DEF Typed, Goto, evars, svars, pvars, table, Sent, Fresh, Using, Sending
<1>1. ASSUME NEW w \in Workers, InitErrors(w) PROVE Sent(v)'
  BY <1>1 DEF InitErrors, Stored
<1>2. ASSUME NEW w \in Workers, LoadProps(w) PROVE Sent(v)'
  BY <1>2 DEF LoadProps, Step, Failed
<1>3. ASSUME NEW w \in Workers, TakeNode(w) PROVE Sent(v)'
  BY <1>3 DEF TakeNode, Step, Failed
<1>4. ASSUME NEW w \in Workers, Dispatch(w) PROVE Sent(v)'
  BY <1>4 DEF Dispatch, Step, Failed, Die, Exec!Die
<1>5. ASSUME NEW w \in Workers, CallExec(w) PROVE Sent(v)'
  BY <1>5 DEF CallExec, Exec!Call, Exec!Refuse
<1>6. ASSUME NEW w \in Workers, CallSock(w) PROVE Sent(v)'
  BY <1>6 DEF CallSock, Step, Failed
<1>7. ASSUME NEW w \in Workers, Connect(w) PROVE Sent(v)'
  BY <1>7 DEF Connect
<1>8. ASSUME NEW w \in Workers, ConnectZero(w) PROVE Sent(v)'
  BY <1>8 DEF ConnectZero
<1>9. ASSUME NEW w \in Workers, ConnectFail(w) PROVE Sent(v)'
  BY <1>9 DEF ConnectFail, Step
<1>10. ASSUME NEW w \in Workers, WriteHead(w) PROVE Sent(v)'
  <2>1. CASE v # w
    BY <1>10, <2>1 DEF WriteHead, Took
  <2>2. CASE v = w
    <3>1. sent[w] = {} /\ pc'[w] = "send_body"
      BY <1>10 DEF WriteHead
    <3>3. sent'[w] = sent[w] \cup {"head"}
      BY <1>10 DEF WriteHead, Took
    <3>4. sent'[w] = {"head"}
      BY <3>1, <3>3
    <3> QED
      BY <2>2, <3>1, <3>4
  <2> QED
    BY <2>1, <2>2
<1>11. ASSUME NEW w \in Workers, WriteHeadShort(w) PROVE Sent(v)'
  BY <1>11 DEF WriteHeadShort, DropSock
<1>12. ASSUME NEW w \in Workers, WriteHeadFail(w) PROVE Sent(v)'
  BY <1>12 DEF WriteHeadFail
<1>13. ASSUME NEW w \in Workers, WriteBody(w) PROVE Sent(v)'
  BY <1>13 DEF WriteBody, Took
<1>14. ASSUME NEW w \in Workers, WriteBodyFail(w) PROVE Sent(v)'
  BY <1>14 DEF WriteBodyFail, DropSock
<1>15. ASSUME NEW w \in Workers, NoStream(w) PROVE Sent(v)'
  BY <1>15 DEF NoStream, Exec!Done
<1>16. ASSUME NEW w \in Workers, ReadBody(w) PROVE Sent(v)'
  BY <1>16 DEF ReadBody
<1>17. ASSUME NEW w \in Workers, ParseEnd(w) PROVE Sent(v)'
  BY <1>17 DEF ParseEnd, Drained
<1>18. ASSUME NEW w \in Workers, LoadEnd(w) PROVE Sent(v)'
  BY <1>18 DEF LoadEnd, Drained, Built, Failed, Die, Exec!Die
<1>19. ASSUME NEW w \in Workers, DumpEnd(w) PROVE Sent(v)'
  BY <1>19 DEF DumpEnd, Drained, Step, Die, Exec!Die
<1>20. ASSUME NEW w \in Workers, LoadReset(w) PROVE Sent(v)'
  BY <1>20 DEF LoadReset, Die, Exec!Die
<1>21. ASSUME NEW w \in Workers, Cleanup(w) PROVE Sent(v)'
  BY <1>21 DEF Cleanup, Exec!Done
<1>22. ASSUME NEW w \in Workers, After(w) PROVE Sent(v)'
  BY <1>22 DEF After, Step, Die, Exec!Die
<1>23. ASSUME NEW w \in Workers, Reply(w) PROVE Sent(v)'
  BY <1>23 DEF Reply
<1>24. ASSUME NEW w \in Workers, Produce(w) PROVE Sent(v)'
  BY <1>24 DEF Produce, Exec!Produce
<1>25. ASSUME NEW w \in Workers, ExecAnswer(w) PROVE Sent(v)'
  BY <1>25 DEF ExecAnswer, Exec!Answer
<1>26. ASSUME NEW w \in Workers, ExecFail(w) PROVE Sent(v)'
  BY <1>26 DEF ExecFail, Exec!Fail
<1>27. ASSUME NEW w \in Workers, ExecDie(w) PROVE Sent(v)'
  BY <1>27 DEF ExecDie, Die, Exec!Die
<1>28. ASSUME NEW w \in Workers, PeerSend(w) PROVE Sent(v)'
  BY <1>28 DEF PeerSend
<1>29. ASSUME NEW w \in Workers, NEW o \in Ops, Invoke(w, o) PROVE Sent(v)'
  BY <1>29 DEF Invoke
<1>30. ASSUME NEW w \in Workers, NEW t \in Types, ReadHead(w, t) PROVE Sent(v)'
  BY <1>30 DEF ReadHead, Drained
<1>31. ASSUME NEW w \in Workers, NEW how \in {"eof", "reset"}, PeerEnd(w, how) PROVE Sent(v)'
  BY <1>31 DEF PeerEnd
<1>33. ASSUME NEW w \in Workers, HeadFail(w) PROVE Sent(v)'
  BY <1>33 DEF HeadFail, Step
<1>32. CASE UNCHANGED vars
  BY <1>32 DEF vars
<1> HIDE DEF Typed, Goto, evars, svars, pvars, table, Sent, Fresh, Using, Sending
<1> QED
  BY <1>1, <1>2, <1>3, <1>4, <1>5, <1>6, <1>7, <1>8, <1>9, <1>10, <1>11, <1>12, <1>13, <1>14,
     <1>15, <1>16, <1>17, <1>18, <1>19, <1>20, <1>21, <1>22, <1>23, <1>24, <1>25, <1>26, <1>27, <1>28,
     <1>29, <1>30, <1>31, <1>32, <1>33,
     AskedAssumption DEF Next, Request, Response, Forked

\* A store of rp_init_errors is one of its messages, or the flag.
LEMMA StoreTyped ==
    ASSUME SharedTyped, NEW n \in 1..11, Store(n)
    PROVE  messages' \in SUBSET Errors /\ ready' \in BOOLEAN
<1>1. FlagAt \in 0..10
  BY MessagesListed, FlagAssumption
<1>2. CASE n = FlagAt + 1 /\ ready' = TRUE /\ UNCHANGED messages
  BY <1>2 DEF SharedTyped
<1>3. CASE n <= FlagAt /\ messages' = messages \cup {Messages[n]} /\ UNCHANGED ready
  BY <1>1, <1>3, MessagesListed DEF SharedTyped
<1>4. CASE n > FlagAt + 1 /\ messages' = messages \cup {Messages[n - 1]} /\ UNCHANGED ready
  <2>1. n - 1 \in 1..10
    BY <1>1, <1>4
  <2> QED
    BY <1>4, <2>1, MessagesListed DEF SharedTyped
<1> QED
  BY <1>2, <1>3, <1>4 DEF Store

LEMMA TableKept == ProxyInv /\ [Next]_vars => SharedTyped'
<1> SUFFICES ASSUME SharedTyped, [Next]_vars PROVE SharedTyped'
  BY DEF ProxyInv
<1>1. CASE UNCHANGED table
  BY <1>1, SharedKept DEF SharedTyped, table
<1>2. ASSUME NEW w \in Workers, InitErrors(w) PROVE SharedTyped'
  <2>1. told[w] \in 0..10
    BY MessagesListed DEF SharedTyped
  <2>2. Store(told[w] + 1) /\ Stored(w, told[w] + 1)
    BY <1>2 DEF InitErrors
  <2>3. messages' \in SUBSET Errors /\ ready' \in BOOLEAN
    BY <2>1, <2>2, StoreTyped DEF SharedTyped
  <2>4. told' \in [Workers -> 0..Len(Messages)]
    <3>1. told' = [told EXCEPT ![w] = IF told[w] + 1 = 11 THEN 0 ELSE told[w] + 1]
      BY <2>2, MessagesListed DEF Stored, Stores
    <3> QED
      BY <2>1, <3>1, MessagesListed DEF SharedTyped
  <2> QED
    BY <2>3, <2>4, SharedKept DEF SharedTyped
<1> QED
  BY <1>1, <1>2, SharedKept DEF Shared

LEMMA ProxyAlways == Spec => []ProxyInv
<1>1. ProxyInv /\ [Next]_vars => ProxyInv'
  BY TypeKept, TableKept, LocalKept DEF ProxyInv
<1> QED
  BY InitProxy, <1>1, PTL DEF Spec

\* Every reachable state is well typed.
THEOREM TypeCorrect == Spec => []TypeOK
<1>1. ProxyInv => TypeOK
  BY TypeParts DEF ProxyInv
<1> QED
  BY <1>1, ProxyAlways, PTL

\* No stream is lost or closed twice, whichever way a request ends.
THEOREM StreamsClosed == Spec => []StreamsAccounted
<1>1. ProxyInv => StreamsAccounted
  BY DEF ProxyInv, Local, Stream, StreamsAccounted, Typed
<1> QED
  BY <1>1, ProxyAlways, PTL

\* NULL comes with an error that tells where the request stopped.
THEOREM NullTold == Spec => []NullHasCause
<1>1. ProxyInv => NullHasCause
  BY DEF ProxyInv, Local, Stage, Blame, Ending, NullHasCause
<1> QED
  BY <1>1, ProxyAlways, PTL

\* A coverage handed back holds the whole body of the answer, however long, and
\* the backend has ended the answer in order (LoadEnd; of XML see ParseEnd).
THEOREM BodyKept == Spec => []BodyWhole
<1>1. ProxyInv => BodyWhole
  BY DEF ProxyInv, Local, Body, BodyWhole
<1> QED
  BY <1>1, ProxyAlways, PTL

\* No answer is read before the body of the request has been sent, nor before
\* its head has, unless a write has failed: whatever the socket takes after that
\* (sp_backend_socket looks at the result of the first write in vain).
THEOREM RequestSent == Spec => []BodySent
<1>1. Init => SendInv
  BY DEF Init, SendInv, Sent, Fresh, Using, Sending
<1>2. ProxyInv /\ SendInv /\ [Next]_vars => SendInv'
  BY SentKept
<1>3. SendInv => BodySent
  BY DEF SendInv, Sent, BodySent
<1> QED
  BY <1>1, <1>2, <1>3, ProxyAlways, PTL DEF Spec


-----------------------------------------------------------------------------
(***************************************************************************)
(* The fields of an sp_props.                                              *)
(***************************************************************************)

LEMMA ValueIsSeq ==
    ASSUME NEW x, NEW n \in Lengths
    PROVE  /\ Value(x, n) \in Seq({x})
           /\ Len(Value(x, n)) = IF n = Absent THEN 0 ELSE n
           /\ n = Absent => Value(x, n) = <<>>
<1> DEFINE k == IF n = Absent THEN 0 ELSE n
<1>1. k \in Nat
  BY DEF Lengths, Absent
<1>2. Value(x, n) \in [1..k -> {x}] /\ Value(x, n) = [i \in 1..k |-> x]
  BY DEF Value
<1> HIDE DEF k
<1>3. Value(x, n) \in Seq({x}) /\ Len(Value(x, n)) = k
  BY <1>1, <1>2, IsASeq
<1> QED
  BY <1>3, EmptySeq DEF k

LEMMA CopiedSpec ==
    ASSUME NEW S, NEW s \in Seq(S)
    PROVE  /\ Copied(s) \in Seq(S)
           /\ Len(s) <= Field => Copied(s) = s
           /\ Len(s) >= Field => Len(Copied(s)) = Field
<1>1. Len(s) \in Nat /\ Field \in Nat
  BY FieldAssumption, LenProperties
<1>2. CASE Len(s) <= Field
  <2>1. Copied(s) = SubSeq(s, 1, Len(s))
    BY <1>1, <1>2 DEF Copied
  <2>2. Copied(s) = s
    BY <2>1, SubSeqFull
  <2> QED
    BY <1>1, <1>2, <2>2
<1>3. CASE Len(s) > Field
  <2>1. Copied(s) = SubSeq(s, 1, Field)
    BY <1>1, <1>3 DEF Copied
  <2>2. \A i \in 1..Field : s[i] \in S
    BY <1>1, <1>3, ElementOfSeq
  <2>3. SubSeq(s, 1, Field) \in Seq(S) /\ Len(SubSeq(s, 1, Field)) = Field
    BY <1>1, <2>2, SubSeqProperties, FieldAssumption
  <2> QED
    BY <1>1, <1>3, <2>1, <2>3
<1> QED
  BY <1>1, <1>2, <1>3

\* Behind an empty string the memory reads as it stands.
LEMMA ReadOnEmpty ==
    ASSUME NEW S, NEW s \in Seq(S)
    PROVE  /\ ReadOn(<<>>, s) = <<>>
           /\ ReadOn(s, <<>>) = s
<1>1. Len(<<>>) = 0 /\ 0 < Field
  BY FieldAssumption
<1>2. s \o <<>> = s
  BY ConcatEmptySeq
<1> QED
  BY <1>1, <1>2 DEF ReadOn

\* A field that is not full is read as it is.
LEMMA ReadOnShort ==
    ASSUME NEW s, NEW behind, Len(s) < Field
    PROVE  ReadOn(s, behind) = s
BY DEF ReadOn

\* MapServ is read as it was copied when there is no BackendURL behind it.
LEMMA ServAlone ==
    ASSUME NEW c \in Configurations, ~UrlGiven(c)
    PROVE  rp_getMapserverExec(rp_load_props(c)) = Copied(Value("MapServ", c.MapServ))
<1> DEFINE p == rp_load_props(c)
<1>1. p.backend_url_str = Copied(Value("BackendURL", c.BackendURL))
      /\ p.mapserv = Copied(Value("MapServ", c.MapServ))
  BY DEF rp_load_props
<1>2. Value("BackendURL", c.BackendURL) = <<>> /\ <<>> \in Seq({"BackendURL"})
  BY ValueIsSeq, EmptySeq DEF Configurations, UrlGiven
<1>3. p.backend_url_str = <<>>
  <2>1. Len(<<>>) <= Field
    BY FieldAssumption
  <2>2. Copied(<<>>) = <<>>
    BY <1>2, <2>1, CopiedSpec
  <2> QED
    BY <1>1, <1>2, <2>2
<1>4. ReadOn(<<>>, rp_getSoapOpsURL(p)) = <<>>
  <2>1. Len(<<>>) < Field
    BY FieldAssumption
  <2> QED
    BY <2>1, ReadOnShort
<1>5. rp_getBackendURL(p) = <<>>
  BY <1>3, <1>4 DEF rp_getBackendURL
<1>6. Copied(Value("MapServ", c.MapServ)) \in Seq({"MapServ"})
  BY ValueIsSeq, CopiedSpec DEF Configurations
<1>7. ReadOn(p.mapserv, <<>>) = p.mapserv
  BY <1>1, <1>6, ReadOnEmpty
<1> QED
  BY <1>1, <1>5, <1>7 DEF rp_getMapserverExec

\* Nothing but a URL leaves the field of MapServ empty on purpose.
LEMMA ServCleared ==
    ASSUME NEW c \in Configurations, UrlGiven(c)
    PROVE  rp_getMapserverExec(rp_load_props(c)) = <<>>
<1>1. rp_load_props(c).mapserv = <<>>
  BY DEF rp_load_props
<1>2. Len(<<>>) < Field
  BY FieldAssumption
<1> QED
  BY <1>1, <1>2, ReadOnShort DEF rp_getMapserverExec

\* A MapFile that fills its field is read together with MapServ, and then it is
\* longer than sp_execMapserv lets pass.
LEMMA MapfileRun ==
    ASSUME NEW c \in Configurations,
           Len(rp_getMapserverExec(rp_load_props(c))) \in 3..Field,
           Len(rp_getMapfile(rp_load_props(c))) <= Field
    PROVE  /\ rp_getMapfile(rp_load_props(c)) = Value("MapFile", c.MapFile)
           /\ rp_getMapserverExec(rp_load_props(c)) = Copied(Value("MapServ", c.MapServ))
<1> DEFINE p == rp_load_props(c)
           file == Value("MapFile", c.MapFile)
           exec == rp_getMapserverExec(p)
<1>1. ~UrlGiven(c)
  BY ServCleared, EmptySeq
<1>2. exec = Copied(Value("MapServ", c.MapServ)) /\ exec \in Seq({"MapServ"})
  BY <1>1, ServAlone, ValueIsSeq, CopiedSpec DEF Configurations
<1>3. file \in Seq({"MapFile"}) /\ p.mapfile = Copied(file)
  BY ValueIsSeq DEF Configurations, rp_load_props
<1>4. Copied(file) \in Seq({"MapFile"}) /\ Len(file) \in Nat
  BY <1>3, CopiedSpec, LenProperties
<1>5. rp_getMapfile(p) = ReadOn(Copied(file), exec)
  BY <1>3 DEF rp_getMapfile
<1> HIDE DEF file, exec, p
<1>6. Len(file) < Field
  <2>1. SUFFICES ASSUME Len(file) >= Field PROVE FALSE
    BY <1>4, FieldAssumption
  <2>2. Len(Copied(file)) = Field
    BY <1>3, <2>1, CopiedSpec
  <2>3. rp_getMapfile(p) = Copied(file) \o exec
    BY <1>5, <2>2, FieldAssumption DEF ReadOn
  <2>4. Copied(file) \in Seq({"MapFile", "MapServ"}) /\ exec \in Seq({"MapFile", "MapServ"})
    BY <1>2, <1>4, SeqMonotonic
  <2>5. Len(rp_getMapfile(p)) = Field + Len(exec)
    BY <2>2, <2>3, <2>4, ConcatProperties
  <2>6. Len(exec) >= 3 /\ Len(exec) \in Nat
    BY <1>2, LenProperties DEF exec, p
  <2>7. Len(rp_getMapfile(p)) <= Field
    BY DEF p
  <2> QED
    BY <2>5, <2>6, <2>7, FieldAssumption
<1>7. Copied(file) = file
  <2>1. Len(file) <= Field
    BY <1>4, <1>6, FieldAssumption
  <2> QED
    BY <1>3, <2>1, CopiedSpec
<1>8. rp_getMapfile(p) = file
  BY <1>5, <1>6, <1>7, ReadOnShort
<1> QED
  BY <1>2, <1>8 DEF file, exec, p

\* With a URL there is nothing behind MapFile.
LEMMA MapfileUrl ==
    ASSUME NEW c \in Configurations, UrlGiven(c)
    PROVE  rp_getMapfile(rp_load_props(c)) = Copied(Value("MapFile", c.MapFile))
<1>1. Copied(Value("MapFile", c.MapFile)) \in Seq({"MapFile"})
  BY ValueIsSeq, CopiedSpec DEF Configurations
<1>2. rp_load_props(c).mapfile = Copied(Value("MapFile", c.MapFile))
  BY DEF rp_load_props
<1>3. rp_getMapserverExec(rp_load_props(c)) = <<>>
  BY ServCleared
<1> QED
  BY <1>1, <1>2, <1>3, ReadOnEmpty DEF rp_getMapfile

LEMMA Advertised ==
    ASSUME NEW c \in Configurations
    PROVE  /\ c.SOAPOperationsURL \in 0..(Field - 1) =>
                rp_getSoapOpsURL(rp_load_props(c)) = Value("SOAPOperationsURL", c.SOAPOperationsURL)
           /\ c.SOAPOperationsURL = Absent /\ c.From \in 0..(Field - 1) =>
                rp_getSoapOpsURL(rp_load_props(c)) = Value("From", c.From)
<1>1. ASSUME NEW x, NEW n \in 0..(Field - 1)
      PROVE  Copied(Value(x, n)) = Value(x, n) /\ Len(Value(x, n)) < Field /\ n # Absent
  <2>1. n \in Lengths /\ n # Absent /\ n < Field
    BY FieldAssumption DEF Lengths, Absent
  <2>2. Value(x, n) \in Seq({x}) /\ Len(Value(x, n)) < Field /\ Len(Value(x, n)) <= Field
    BY <2>1, ValueIsSeq, FieldAssumption
  <2> QED
    BY <2>1, <2>2, CopiedSpec
<1>2. ASSUME c.SOAPOperationsURL \in 0..(Field - 1)
      PROVE  rp_getSoapOpsURL(rp_load_props(c))
                 = Value("SOAPOperationsURL", c.SOAPOperationsURL)
  <2>1. rp_load_props(c).soapops_url_str = Value("SOAPOperationsURL", c.SOAPOperationsURL)
    BY <1>1, <1>2 DEF rp_load_props
  <2> QED
    BY <1>1, <1>2, <2>1, ReadOnShort DEF rp_getSoapOpsURL
<1>3. ASSUME c.SOAPOperationsURL = Absent, c.From \in 0..(Field - 1)
      PROVE  rp_getSoapOpsURL(rp_load_props(c)) = Value("From", c.From)
  <2>1. rp_load_props(c).soapops_url_str = Value("From", c.From)
    BY <1>1, <1>3 DEF rp_load_props
  <2> QED
    BY <1>1, <1>3, <2>1, ReadOnShort DEF rp_getSoapOpsURL
<1> QED
  BY <1>2, <1>3

-----------------------------------------------------------------------------
(***************************************************************************)
(* What a thread may rely on at each of its statements.                    *)
(***************************************************************************)

\* The ways from one statement of a request to the next.
Move(w) ==
    \/ pc'[w] = pc[w]
    \/ pc'[w] = "dead"
    \/ pc[w] = "idle" /\ pc'[w] = IF ready THEN "props" ELSE "errors"
    \/ InitErrors(w)
    \/ /\ pc[w] \notin {"idle", "errors", "dead"} /\ pc'[w] # "errors"
       /\ pc'[w] = "connect" => UrlMode
       /\ pc'[w] \in Sending => pc[w] \in Sending \cup {"connect"}
       /\ pc'[w] = "calling" => Runnable
       /\ pc'[w] \in Using => pc[w] \in Using \cup Sending \cup {"calling"}

LEMMA Moves == ProxyInv /\ [Next]_vars => \A v \in Workers : Move(v)
<1> SUFFICES ASSUME ProxyInv, [Next]_vars, NEW v \in Workers PROVE Move(v)
  OBVIOUS
<1>0. Typed
  BY DEF ProxyInv
<1> USE <1>0 DEF Typed, Goto, pvars, Move, Using, Sending
<1>1. ASSUME NEW w \in Workers, InitErrors(w) PROVE Move(v)
  <2>1. CASE v = w
    BY <1>1, <2>1 DEF Move
  <2>2. CASE v # w
    BY <1>1, <2>2 DEF InitErrors, Stored
  <2> QED
    BY <2>1, <2>2
<1>2. ASSUME NEW w \in Workers, LoadProps(w) PROVE Move(v)
  BY <1>2 DEF LoadProps, Step, Failed
<1>3. ASSUME NEW w \in Workers, TakeNode(w) PROVE Move(v)
  BY <1>3 DEF TakeNode, Step, Failed
<1>4. ASSUME NEW w \in Workers, Dispatch(w) PROVE Move(v)
  BY <1>4 DEF Dispatch, Step, Failed, Die, Exec!Die
<1>5. ASSUME NEW w \in Workers, CallExec(w) PROVE Move(v)
  BY <1>5 DEF CallExec, Exec!Call, Exec!Refuse
<1>6. ASSUME NEW w \in Workers, CallSock(w) PROVE Move(v)
  BY <1>6 DEF CallSock, Step, Failed
<1>7. ASSUME NEW w \in Workers, Connect(w) PROVE Move(v)
  BY <1>7 DEF Connect
<1>8. ASSUME NEW w \in Workers, ConnectZero(w) PROVE Move(v)
  BY <1>8 DEF ConnectZero
<1>9. ASSUME NEW w \in Workers, ConnectFail(w) PROVE Move(v)
  BY <1>9 DEF ConnectFail, Step
<1>10. ASSUME NEW w \in Workers, WriteHead(w) PROVE Move(v)
  BY <1>10 DEF WriteHead, Took
<1>11. ASSUME NEW w \in Workers, WriteHeadShort(w) PROVE Move(v)
  BY <1>11 DEF WriteHeadShort, DropSock
<1>12. ASSUME NEW w \in Workers, WriteHeadFail(w) PROVE Move(v)
  BY <1>12 DEF WriteHeadFail
<1>13. ASSUME NEW w \in Workers, WriteBody(w) PROVE Move(v)
  BY <1>13 DEF WriteBody, Took
<1>14. ASSUME NEW w \in Workers, WriteBodyFail(w) PROVE Move(v)
  BY <1>14 DEF WriteBodyFail, DropSock
<1>15. ASSUME NEW w \in Workers, NoStream(w) PROVE Move(v)
  BY <1>15 DEF NoStream, Exec!Done
<1>16. ASSUME NEW w \in Workers, ReadBody(w) PROVE Move(v)
  BY <1>16 DEF ReadBody
<1>17. ASSUME NEW w \in Workers, ParseEnd(w) PROVE Move(v)
  BY <1>17 DEF ParseEnd, Drained
<1>18. ASSUME NEW w \in Workers, LoadEnd(w) PROVE Move(v)
  BY <1>18 DEF LoadEnd, Drained, Built, Failed, Die, Exec!Die
<1>19. ASSUME NEW w \in Workers, DumpEnd(w) PROVE Move(v)
  BY <1>19 DEF DumpEnd, Drained, Step, Die, Exec!Die
<1>20. ASSUME NEW w \in Workers, LoadReset(w) PROVE Move(v)
  BY <1>20 DEF LoadReset, Die, Exec!Die
<1>21. ASSUME NEW w \in Workers, Cleanup(w) PROVE Move(v)
  BY <1>21 DEF Cleanup, Exec!Done
<1>22. ASSUME NEW w \in Workers, After(w) PROVE Move(v)
  BY <1>22 DEF After, Step, Die, Exec!Die
<1>23. ASSUME NEW w \in Workers, Reply(w) PROVE Move(v)
  BY <1>23 DEF Reply
<1>24. ASSUME NEW w \in Workers, Produce(w) PROVE Move(v)
  BY <1>24 DEF Produce, Exec!Produce
<1>25. ASSUME NEW w \in Workers, ExecAnswer(w) PROVE Move(v)
  BY <1>25 DEF ExecAnswer, Exec!Answer
<1>26. ASSUME NEW w \in Workers, ExecFail(w) PROVE Move(v)
  BY <1>26 DEF ExecFail, Exec!Fail
<1>27. ASSUME NEW w \in Workers, ExecDie(w) PROVE Move(v)
  BY <1>27 DEF ExecDie, Die, Exec!Die
<1>28. ASSUME NEW w \in Workers, PeerSend(w) PROVE Move(v)
  BY <1>28 DEF PeerSend
<1>29. ASSUME NEW w \in Workers, NEW o \in Ops, Invoke(w, o) PROVE Move(v)
  BY <1>29 DEF Invoke
<1>30. ASSUME NEW w \in Workers, NEW t \in Types, ReadHead(w, t) PROVE Move(v)
  BY <1>30 DEF ReadHead, Drained
<1>31. ASSUME NEW w \in Workers, NEW how \in {"eof", "reset"}, PeerEnd(w, how) PROVE Move(v)
  BY <1>31 DEF PeerEnd
<1>33. ASSUME NEW w \in Workers, HeadFail(w) PROVE Move(v)
  BY <1>33 DEF HeadFail, Step
<1>32. CASE UNCHANGED vars
  BY <1>32 DEF vars
<1> HIDE DEF Typed, Goto, pvars, Move, Using, Sending
<1> QED
  BY <1>1, <1>2, <1>3, <1>4, <1>5, <1>6, <1>7, <1>8, <1>9, <1>10, <1>11, <1>12, <1>13, <1>14,
     <1>15, <1>16, <1>17, <1>18, <1>19, <1>20, <1>21, <1>22, <1>23, <1>24, <1>25, <1>26, <1>27, <1>28,
     <1>29, <1>30, <1>31, <1>32, <1>33,
     AskedAssumption DEF Next, Request, Response, Forked

-----------------------------------------------------------------------------
(***************************************************************************)
(* The configuration.                                                      *)
(***************************************************************************)

\* A backend is used only when its part of the configuration will do.
Given(w) ==
    /\ pc[w] \in Sending \cup {"connect"} => UrlMode
    /\ pc[w] = "calling" => Runnable
    /\ pc[w] \in Using => UrlMode \/ Runnable

LEMMA GivenAlways == Spec => [](\A w \in Workers : Given(w))
<1>1. Init => \A w \in Workers : Given(w)
  BY DEF Init, Given, Sending, Using
<1>2. ProxyInv /\ (\A w \in Workers : Given(w)) /\ [Next]_vars => (\A w \in Workers : Given(w))'
  <2> SUFFICES ASSUME ProxyInv, \A w \in Workers : Given(w), [Next]_vars, NEW w \in Workers
               PROVE  Given(w)'
    OBVIOUS
  <2>1. Given(w) /\ Move(w) /\ UrlMode' = UrlMode /\ Runnable' = Runnable
    BY Moves, ModeKept, SharedKept
  <2>2. pc \in [Workers -> Labels]
    BY DEF ProxyInv, Typed
  <2>3. CASE InitErrors(w)
    <3>1. pc'[w] \in {"props", "errors"}
      BY <2>2, <2>3 DEF InitErrors, Stored, Goto
    <3> QED
      BY <3>1 DEF Given, Sending, Using
  <2>4. CASE ~InitErrors(w)
    BY <2>1, <2>4 DEF Given, Move, Sending, Using
  <2> QED
    BY <2>3, <2>4
<1> QED
  BY <1>1, <1>2, ProxyAlways, PTL DEF Spec

\* Whatever the lengths in services.xml, a child is given the MapFile that stands
\* there, or there is none; the program, the MapFile sent to a URL and the address
\* advertised are those of services.xml where they fit in their fields.
THEOREM ConfiguredGiven == Spec => []ConfiguredUsed
<1>1. ProxyInv /\ (\A w \in Workers : Given(w)) => ConfiguredUsed
  <2> SUFFICES ASSUME conf \in Configurations, NEW w \in Workers, Given(w),
                      pc[w] \in Using \cup Sending \cup {"calling"}
               PROVE  ConfiguredUsed!(w)!2
    BY DEF ProxyInv, SharedTyped, ConfiguredUsed
  <2>1. UrlMode => UrlGiven(conf)
    BY DEF UrlMode, props, rp_load_props, rp_getUrlMode
  <2>2. UrlMode \/ Runnable
    BY DEF Given
  <2>5. ASSUME NEW x, NEW n \in Lengths, n <= Field PROVE Copied(Value(x, n)) = Value(x, n)
    <3>1. Value(x, n) \in Seq({x}) /\ Len(Value(x, n)) <= Field
      BY <2>5, ValueIsSeq, FieldAssumption
    <3> QED
      BY <3>1, CopiedSpec
  <2>6. conf.MapFile \in Lengths /\ conf.MapServ \in Lengths
    BY DEF Configurations
  <2>3. CASE UrlMode
    BY <2>1, <2>3, <2>5, <2>6, MapfileUrl, Advertised DEF props
  <2>4. CASE ~UrlMode /\ Runnable
    BY <2>4, <2>5, <2>6, MapfileRun, Advertised DEF props, Runnable
  <2> QED
    BY <2>2, <2>3, <2>4
<1> QED
  BY <1>1, ProxyAlways, GivenAlways, PTL

-----------------------------------------------------------------------------
(***************************************************************************)
(* The table of messages.                                                  *)
(***************************************************************************)

\* The first n messages are in the table.
Filled(n) == \A i \in 1..n : Messages[i] \in messages

\* A thread in rp_init_errors has stored what it counts; one past it finds all.
Place(w) ==
    /\ pc[w] \notin {"idle", "errors", "dead"} => Filled(10)
    /\ pc[w] = "errors" => Filled(told[w])
    /\ pc[w] \notin {"errors", "dead"} => told[w] = 0

TableInv == (ready => Filled(10)) /\ \A w \in Workers : Place(w)

\* One store, when that of the flag comes last.
LEMMA StoreFills ==
    ASSUME FlagAt = 10, NEW n \in 1..11, Store(n), NEW k \in 0..10
    PROVE  /\ Filled(k) => Filled(k)'
           /\ n <= 10 => (Filled(n - 1) => Filled(n)') /\ ready' = ready
           /\ n = 11 => ready' = TRUE
<1>1. CASE n = 11
  <2>1. messages' = messages /\ ready' = TRUE
    BY <1>1 DEF Store
  <2> QED
    BY <1>1, <2>1 DEF Filled
<1>2. CASE n <= 10
  <2>1. messages' = messages \cup {Messages[n]} /\ ready' = ready
    BY <1>2 DEF Store
  <2>2. ASSUME Filled(n - 1) PROVE Filled(n)'
    <3> SUFFICES ASSUME NEW i \in 1..n PROVE Messages[i] \in messages'
      BY DEF Filled
    <3>1. CASE i = n
      BY <2>1, <3>1
    <3>2. CASE i # n
      BY <2>1, <2>2, <3>2 DEF Filled
    <3> QED
      BY <3>1, <3>2
  <2> QED
    BY <1>2, <2>1, <2>2 DEF Filled
<1>3. n = 11 \/ n <= 10
  OBVIOUS
<1> QED
  BY <1>1, <1>2, <1>3

LEMMA TableAlways == FlagAt = 10 => (Spec => []TableInv)
<1> SUFFICES ASSUME FlagAt = 10 PROVE Spec => []TableInv
  OBVIOUS
<1>1. Init => TableInv
  BY DEF Init, TableInv, Place, Filled
<1>2. ProxyInv /\ TableInv /\ [Next]_vars => TableInv'
  <2> SUFFICES ASSUME ProxyInv, TableInv, [Next]_vars PROVE TableInv'
    OBVIOUS
  <2>0. /\ pc \in [Workers -> Labels] /\ told \in [Workers -> 0..10]
        /\ \A v \in Workers : Move(v) /\ Place(v)
    BY Moves, MessagesListed DEF ProxyInv, Typed, SharedTyped, TableInv
  <2>1. CASE UNCHANGED table /\ ~\E w \in Workers : InitErrors(w)
    <3>1. messages' = messages /\ ready' = ready /\ told' = told
      BY <2>1 DEF table
    <3>2. \A n : Filled(n)' = Filled(n)
      BY <3>1 DEF Filled
    <3>3. Filled(0) /\ (ready => Filled(10))
      BY DEF Filled, TableInv
    <3>4. ASSUME NEW v \in Workers PROVE Place(v)'
      <4>1. Move(v) /\ Place(v) /\ ~InitErrors(v)
        BY <2>0, <2>1
      <4> QED
        BY <3>1, <3>2, <3>3, <4>1 DEF Move, Place
    <3> QED
      BY <3>1, <3>2, <3>3, <3>4 DEF TableInv
  <2>2. ASSUME NEW w \in Workers, InitErrors(w) PROVE TableInv'
    <3>0. told[w] + 1 \in 1..11 /\ Store(told[w] + 1) /\ Stored(w, told[w] + 1)
      BY <2>0, <2>2 DEF InitErrors
    <3>1. PICK n \in 1..11 : n = told[w] + 1 /\ Store(n) /\ Stored(w, n)
      BY <3>0
    <3>2. Filled(n - 1) /\ (ready => Filled(10))
      <4>1. pc[w] = "errors" /\ n - 1 = told[w]
        BY <2>0, <2>2, <3>1 DEF InitErrors
      <4> QED
        BY <2>0, <4>1 DEF Place, TableInv
    <3>3. /\ told' = [told EXCEPT ![w] = IF n = 11 THEN 0 ELSE n]
          /\ pc' = [pc EXCEPT ![w] = IF n = 11 THEN "props" ELSE "errors"]
      BY <3>1, MessagesListed DEF Stored, Stores, Goto
    <3>4. \A k \in 0..10 : Filled(k) => Filled(k)'
      BY <3>1, StoreFills
    <3>5. CASE n = 11
      <4>1. Filled(10)'
        BY <3>2, <3>4, <3>5
      <4>2. ASSUME NEW v \in Workers PROVE Place(v)'
        <5>1. CASE v = w
          BY <2>0, <3>3, <3>5, <4>1, <5>1 DEF Place
        <5>2. CASE v # w
          <6>1. pc'[v] = pc[v] /\ told'[v] = told[v] /\ told[v] \in 0..10 /\ Place(v)
            BY <2>0, <3>3, <5>2
          <6> QED
            BY <3>4, <4>1, <6>1 DEF Place
        <5> QED
          BY <5>1, <5>2
      <4> QED
        BY <4>1, <4>2 DEF TableInv
    <3>6. CASE n <= 10
      <4>1. Filled(n)' /\ ready' = ready
        <5>1. 0 \in 0..10
          OBVIOUS
        <5> QED
          BY <3>1, <3>2, <3>6, <5>1, StoreFills
      <4>2. ASSUME NEW v \in Workers PROVE Place(v)'
        <5>1. CASE v = w
          <6>1. pc'[v] = "errors" /\ told'[v] = n
            BY <2>0, <3>1, <3>3, <3>6, <5>1
          <6> QED
            BY <4>1, <6>1 DEF Place
        <5>2. CASE v # w
          <6>1. pc'[v] = pc[v] /\ told'[v] = told[v] /\ told[v] \in 0..10 /\ Place(v)
            BY <2>0, <3>3, <5>2
          <6> QED
            BY <3>4, <6>1 DEF Place
        <5> QED
          BY <5>1, <5>2
      <4> QED
        BY <3>2, <3>4, <4>1, <4>2 DEF TableInv
    <3> QED
      BY <3>1, <3>5, <3>6
  <2> QED
    BY <2>1, <2>2, SharedKept DEF Shared
<1> QED
  BY <1>1, <1>2, ProxyAlways, PTL DEF Spec

\* With any number of threads in rp_init_errors at once, a fault finds its text,
\* provided that the flag is stored after all messages, as the source has it.
THEOREM TextFound ==
    ASSUME FlagAt = Len(Messages)
    PROVE  Spec => []FaultTold
<1>1. FlagAt = 10
  BY MessagesListed
<1>2. ProxyInv /\ TableInv => FaultTold
  <2> SUFFICES ASSUME ProxyInv, TableInv, NEW w \in Workers, pc[w] = "reply",
                      error[w] \notin {"none", "INVALID_XML"}
               PROVE  error[w] \in messages
    BY DEF FaultTold
  <2>1. error[w] \in Errors
    BY DEF ProxyInv, Typed
  <2>2. Filled(10)
    BY DEF TableInv, Place
  <2>3. \E i \in 1..10 : Messages[i] = error[w]
    BY <2>1 DEF Errors, Messages
  <2> QED
    BY <2>2, <2>3 DEF Filled
<1> QED
  BY <1>1, <1>2, ProxyAlways, TableAlways, PTL

-----------------------------------------------------------------------------
(***************************************************************************)
(* A request ends.  Fairness and ENABLED are out of the prover's reach;    *)
(* what they would be applied to is not: no request waits for what cannot  *)
(* come, and every step brings the requests under way nearer to their end. *)
(***************************************************************************)

\* Where a request finds the forking backend, at each of its statements.
InTurn(w) ==
    /\ phase[w] = CASE pc[w] = "dead" -> "dead"
                    [] pc[w] = "calling" -> "busy"
                    [] pc[w] = "no_stream" /\ ~UrlMode -> "null"
                    [] pc[w] \in Using /\ ~UrlMode -> "stream"
                    [] OTHER -> "idle"
    /\ pc[w] \in Sending \cup {"connect"} => UrlMode
    /\ pc[w] = "calling" => ~UrlMode
    /\ pc[w] \in Using /\ ~UrlMode => ends[w] = "eof" /\ avail[w] = delivered[w]
    /\ pc[w] = "looping" => UrlMode /\ ends[w] = "reset"

LEMMA TurnKept ==
    ProxyInv /\ (\A w \in Workers : InTurn(w)) /\ [Next]_vars => (\A w \in Workers : InTurn(w))'
<1> SUFFICES ASSUME ProxyInv, \A v \in Workers : InTurn(v), [Next]_vars, NEW v \in Workers
             PROVE  InTurn(v)'
  BY DEF InTurn
<1> DEFINE Mine == <<pc[v], phase[v], ends[v], avail[v], delivered[v]>>
<1>0. Typed /\ InTurn(v) /\ Stream(v) /\ Stage(v)
  BY DEF ProxyInv, Local
<1>mode. UrlMode' = UrlMode
  BY ModeKept, SharedKept
<1>same. ASSUME Mine' = Mine PROVE InTurn(v)'
  BY <1>0, <1>same, <1>mode DEF InTurn
<1>die. ASSUME Die PROVE InTurn(v)'
  BY <1>die, <1>mode DEF InTurn, Die, Exec!Die, Using, Sending
<1> HIDE DEF Mine
<1>1. ASSUME NEW w \in Workers, InitErrors(w) PROVE InTurn(v)'
  <2>1. CASE v # w
    BY <1>1, <2>1, <1>same, <1>0 DEF Mine, Typed, InitErrors, Stored, Goto, evars, svars, pvars
  <2>2. CASE v = w
    BY <1>1, <2>2, <1>0, <1>mode DEF InTurn, Typed, InitErrors, Stored, Goto, Using, Sending, evars, svars, pvars
  <2> QED
    BY <2>1, <2>2
<1>2. ASSUME NEW w \in Workers, LoadProps(w) PROVE InTurn(v)'
  <2>1. CASE v # w
    BY <1>2, <2>1, <1>same, <1>0 DEF Mine, Typed, LoadProps, Step, Failed, Goto, evars, svars, pvars
  <2>2. CASE v = w
    BY <1>2, <2>2, <1>0, <1>mode DEF InTurn, Typed, LoadProps, Step, Failed, Goto, Using, Sending, evars, svars, pvars
  <2> QED
    BY <2>1, <2>2
<1>3. ASSUME NEW w \in Workers, TakeNode(w) PROVE InTurn(v)'
  <2>1. CASE v # w
    BY <1>3, <2>1, <1>same, <1>0 DEF Mine, Typed, TakeNode, Step, Failed, Goto, evars, svars, pvars
  <2>2. CASE v = w
    BY <1>3, <2>2, <1>0, <1>mode DEF InTurn, Typed, TakeNode, Step, Failed, Goto, Using, Sending, evars, svars, pvars
  <2> QED
    BY <2>1, <2>2
<1>4. ASSUME NEW w \in Workers, Dispatch(w) PROVE InTurn(v)'
  <2>1. CASE v # w
    BY <1>4, <2>1, <1>same, <1>die, <1>0 DEF Mine, Typed, Dispatch, Step, Failed, Goto, evars, svars, pvars
  <2>2. CASE v = w
    BY <1>4, <2>2, <1>0, <1>mode, <1>die DEF InTurn, Typed, Dispatch, Step, Failed, Goto, Using, Sending, evars, svars, pvars
  <2> QED
    BY <2>1, <2>2
<1>5. ASSUME NEW w \in Workers, CallExec(w) PROVE InTurn(v)'
  <2>1. CASE v # w
    BY <1>5, <2>1, <1>same, <1>0 DEF Mine, Typed, CallExec, Exec!Call, Exec!Refuse, Goto, evars, svars, pvars
  <2>2. CASE v = w
    BY <1>5, <2>2, <1>0, <1>mode DEF InTurn, Typed, CallExec, Exec!Call, Exec!Refuse, Goto, Using, Sending, evars, svars, pvars
  <2> QED
    BY <2>1, <2>2
<1>6. ASSUME NEW w \in Workers, CallSock(w) PROVE InTurn(v)'
  <2>1. CASE v # w
    BY <1>6, <2>1, <1>same, <1>0 DEF Mine, Typed, CallSock, Step, Failed, Goto, evars, svars, pvars
  <2>2. CASE v = w
    BY <1>6, <2>2, <1>0, <1>mode DEF InTurn, Typed, CallSock, Step, Failed, Goto, Using, Sending, evars, svars, pvars
  <2> QED
    BY <2>1, <2>2
<1>7. ASSUME NEW w \in Workers, Connect(w) PROVE InTurn(v)'
  <2>1. CASE v # w
    BY <1>7, <2>1, <1>same, <1>0 DEF Mine, Typed, Connect, Goto, evars, svars, pvars
  <2>2. CASE v = w
    BY <1>7, <2>2, <1>0, <1>mode DEF InTurn, Typed, Connect, Goto, Using, Sending, evars, svars, pvars
  <2> QED
    BY <2>1, <2>2
<1>8. ASSUME NEW w \in Workers, ConnectZero(w) PROVE InTurn(v)'
  <2>1. CASE v # w
    BY <1>8, <2>1, <1>same, <1>0 DEF Mine, Typed, ConnectZero, Goto, evars, svars, pvars
  <2>2. CASE v = w
    BY <1>8, <2>2, <1>0, <1>mode DEF InTurn, Typed, ConnectZero, Goto, Using, Sending, evars, svars, pvars
  <2> QED
    BY <2>1, <2>2
<1>9. ASSUME NEW w \in Workers, ConnectFail(w) PROVE InTurn(v)'
  <2>1. CASE v # w
    BY <1>9, <2>1, <1>same, <1>0 DEF Mine, Typed, ConnectFail, Step, Goto, evars, svars, pvars
  <2>2. CASE v = w
    BY <1>9, <2>2, <1>0, <1>mode DEF InTurn, Typed, ConnectFail, Step, Goto, Using, Sending, evars, svars, pvars
  <2> QED
    BY <2>1, <2>2
<1>10. ASSUME NEW w \in Workers, WriteHead(w) PROVE InTurn(v)'
  <2>1. CASE v # w
    BY <1>10, <2>1, <1>same, <1>0 DEF Mine, Typed, WriteHead, Took, Goto, evars, svars, pvars
  <2>2. CASE v = w
    BY <1>10, <2>2, <1>0, <1>mode DEF InTurn, Typed, WriteHead, Took, Goto, Using, Sending, evars, svars, pvars
  <2> QED
    BY <2>1, <2>2
<1>11. ASSUME NEW w \in Workers, WriteHeadShort(w) PROVE InTurn(v)'
  <2>1. CASE v # w
    BY <1>11, <2>1, <1>same, <1>0 DEF Mine, Typed, WriteHeadShort, DropSock, Goto, evars, svars, pvars
  <2>2. CASE v = w
    BY <1>11, <2>2, <1>0, <1>mode DEF InTurn, Typed, WriteHeadShort, DropSock, Goto, Using, Sending, evars, svars, pvars
  <2> QED
    BY <2>1, <2>2
<1>12. ASSUME NEW w \in Workers, WriteHeadFail(w) PROVE InTurn(v)'
  <2>1. CASE v # w
    BY <1>12, <2>1, <1>same, <1>0 DEF Mine, Typed, WriteHeadFail, Goto, evars, svars, pvars
  <2>2. CASE v = w
    BY <1>12, <2>2, <1>0, <1>mode DEF InTurn, Typed, WriteHeadFail, Goto, Using, Sending, evars, svars, pvars
  <2> QED
    BY <2>1, <2>2
<1>13. ASSUME NEW w \in Workers, WriteBody(w) PROVE InTurn(v)'
  <2>1. CASE v # w
    BY <1>13, <2>1, <1>same, <1>0 DEF Mine, Typed, WriteBody, Took, Goto, evars, svars, pvars
  <2>2. CASE v = w
    BY <1>13, <2>2, <1>0, <1>mode DEF InTurn, Typed, WriteBody, Took, Goto, Using, Sending, evars, svars, pvars
  <2> QED
    BY <2>1, <2>2
<1>14. ASSUME NEW w \in Workers, WriteBodyFail(w) PROVE InTurn(v)'
  <2>1. CASE v # w
    BY <1>14, <2>1, <1>same, <1>0 DEF Mine, Typed, WriteBodyFail, DropSock, Goto, evars, svars, pvars
  <2>2. CASE v = w
    BY <1>14, <2>2, <1>0, <1>mode DEF InTurn, Typed, WriteBodyFail, DropSock, Goto, Using, Sending, evars, svars, pvars
  <2> QED
    BY <2>1, <2>2
<1>15. ASSUME NEW w \in Workers, NoStream(w) PROVE InTurn(v)'
  <2>1. CASE v # w
    BY <1>15, <2>1, <1>same, <1>0 DEF Mine, Typed, NoStream, Exec!Done, Goto, evars, svars, pvars
  <2>2. CASE v = w
    BY <1>15, <2>2, <1>0, <1>mode DEF InTurn, Typed, NoStream, Exec!Done, Goto, Using, Sending, evars, svars, pvars
  <2> QED
    BY <2>1, <2>2
<1>16. ASSUME NEW w \in Workers, ReadBody(w) PROVE InTurn(v)'
  <2>1. CASE v # w
    BY <1>16, <2>1, <1>same, <1>0 DEF Mine, Typed, ReadBody, Goto, evars, svars, pvars
  <2>2. CASE v = w
    BY <1>16, <2>2, <1>0, <1>mode DEF InTurn, Typed, ReadBody, Goto, Using, Sending, evars, svars, pvars
  <2> QED
    BY <2>1, <2>2
<1>17. ASSUME NEW w \in Workers, ParseEnd(w) PROVE InTurn(v)'
  <2>1. CASE v # w
    BY <1>17, <2>1, <1>same, <1>0 DEF Mine, Typed, ParseEnd, Drained, Goto, evars, svars, pvars
  <2>2. CASE v = w
    BY <1>17, <2>2, <1>0, <1>mode DEF InTurn, Typed, ParseEnd, Drained, Goto, Using, Sending, evars, svars, pvars
  <2> QED
    BY <2>1, <2>2
<1>18. ASSUME NEW w \in Workers, LoadEnd(w) PROVE InTurn(v)'
  <2>1. CASE v # w
    BY <1>18, <2>1, <1>same, <1>die, <1>0 DEF Mine, Typed, LoadEnd, Drained, Built, Failed, Goto, evars, svars, pvars
  <2>2. CASE v = w
    BY <1>18, <2>2, <1>0, <1>mode, <1>die DEF InTurn, Typed, LoadEnd, Drained, Built, Failed, Goto, Using, Sending, evars, svars, pvars
  <2> QED
    BY <2>1, <2>2
<1>19. ASSUME NEW w \in Workers, DumpEnd(w) PROVE InTurn(v)'
  <2>1. CASE v # w
    BY <1>19, <2>1, <1>same, <1>die, <1>0 DEF Mine, Typed, DumpEnd, Drained, Step, Goto, evars, svars, pvars
  <2>2. CASE v = w
    BY <1>19, <2>2, <1>0, <1>mode, <1>die DEF InTurn, Typed, DumpEnd, Drained, Step, Goto, Using, Sending, evars, svars, pvars
  <2> QED
    BY <2>1, <2>2
<1>20. ASSUME NEW w \in Workers, LoadReset(w) PROVE InTurn(v)'
  BY <1>20, <1>die DEF LoadReset
<1>21. ASSUME NEW w \in Workers, Cleanup(w) PROVE InTurn(v)'
  <2>1. CASE v # w
    BY <1>21, <2>1, <1>same, <1>0 DEF Mine, Typed, Cleanup, Exec!Done, Goto, evars, svars, pvars
  <2>2. CASE v = w
    BY <1>21, <2>2, <1>0, <1>mode DEF InTurn, Typed, Cleanup, Exec!Done, Goto, Using, Sending, evars, svars, pvars
  <2> QED
    BY <2>1, <2>2
<1>22. ASSUME NEW w \in Workers, After(w) PROVE InTurn(v)'
  <2>1. CASE v # w
    BY <1>22, <2>1, <1>same, <1>die, <1>0 DEF Mine, Typed, After, Step, Goto, evars, svars, pvars
  <2>2. CASE v = w
    BY <1>22, <2>2, <1>0, <1>mode, <1>die DEF InTurn, Typed, After, Step, Goto, Using, Sending, evars, svars, pvars
  <2> QED
    BY <2>1, <2>2
<1>23. ASSUME NEW w \in Workers, Reply(w) PROVE InTurn(v)'
  <2>1. CASE v # w
    BY <1>23, <2>1, <1>same, <1>0 DEF Mine, Typed, Reply, Goto, evars, svars, pvars
  <2>2. CASE v = w
    BY <1>23, <2>2, <1>0, <1>mode DEF InTurn, Typed, Reply, Goto, Using, Sending, evars, svars, pvars
  <2> QED
    BY <2>1, <2>2
<1>24. ASSUME NEW w \in Workers, Produce(w) PROVE InTurn(v)'
  <2>1. CASE v # w
    BY <1>24, <2>1, <1>same, <1>0 DEF Mine, Typed, Produce, Exec!Produce, Goto, evars, svars, pvars
  <2>2. CASE v = w
    BY <1>24, <2>2, <1>0, <1>mode DEF InTurn, Typed, Produce, Exec!Produce, Goto, Using, Sending, evars, svars, pvars
  <2> QED
    BY <2>1, <2>2
<1>25. ASSUME NEW w \in Workers, ExecAnswer(w) PROVE InTurn(v)'
  <2>1. CASE v # w
    BY <1>25, <2>1, <1>same, <1>0 DEF Mine, Typed, ExecAnswer, Exec!Answer, Goto, evars, svars, pvars
  <2>2. CASE v = w
    BY <1>25, <2>2, <1>0, <1>mode DEF InTurn, Typed, ExecAnswer, Exec!Answer, Goto, Using, Sending, evars, svars, pvars
  <2> QED
    BY <2>1, <2>2
<1>26. ASSUME NEW w \in Workers, ExecFail(w) PROVE InTurn(v)'
  <2>1. CASE v # w
    BY <1>26, <2>1, <1>same, <1>0 DEF Mine, Typed, ExecFail, Exec!Fail, Goto, evars, svars, pvars
  <2>2. CASE v = w
    BY <1>26, <2>2, <1>0, <1>mode DEF InTurn, Typed, ExecFail, Exec!Fail, Goto, Using, Sending, evars, svars, pvars
  <2> QED
    BY <2>1, <2>2
<1>27. ASSUME NEW w \in Workers, ExecDie(w) PROVE InTurn(v)'
  BY <1>27, <1>die DEF ExecDie
<1>28. ASSUME NEW w \in Workers, PeerSend(w) PROVE InTurn(v)'
  <2>1. CASE v # w
    BY <1>28, <2>1, <1>same, <1>0 DEF Mine, Typed, PeerSend, Goto, evars, svars, pvars
  <2>2. CASE v = w
    BY <1>28, <2>2, <1>0, <1>mode DEF InTurn, Typed, PeerSend, Goto, Using, Sending, evars, svars, pvars
  <2> QED
    BY <2>1, <2>2
<1>29. ASSUME NEW w \in Workers, NEW o \in Ops, Invoke(w, o) PROVE InTurn(v)'
  <2>1. CASE v # w
    BY <1>29, <2>1, <1>same, <1>0 DEF Mine, Typed, Invoke, Goto, evars, svars, pvars
  <2>2. CASE v = w
    BY <1>29, <2>2, <1>0, <1>mode DEF InTurn, Typed, Invoke, Goto, Using, Sending, evars, svars, pvars
  <2> QED
    BY <2>1, <2>2
<1>30. ASSUME NEW w \in Workers, NEW t \in Types, ReadHead(w, t) PROVE InTurn(v)'
  <2>1. CASE v # w
    BY <1>30, <2>1, <1>same, <1>0 DEF Mine, Typed, ReadHead, Drained, Goto, evars, svars, pvars
  <2>2. CASE v = w
    BY <1>30, <2>2, <1>0, <1>mode DEF InTurn, Typed, ReadHead, Drained, Goto, Using, Sending, evars, svars, pvars
  <2> QED
    BY <2>1, <2>2
<1>31. ASSUME NEW w \in Workers, NEW how \in {"eof", "reset"}, PeerEnd(w, how) PROVE InTurn(v)'
  <2>1. CASE v # w
    BY <1>31, <2>1, <1>same, <1>0 DEF Mine, Typed, PeerEnd, Goto, evars, svars, pvars
  <2>2. CASE v = w
    BY <1>31, <2>2, <1>0, <1>mode DEF InTurn, Typed, PeerEnd, Goto, Using, Sending, evars, svars, pvars
  <2> QED
    BY <2>1, <2>2
<1>33. ASSUME NEW w \in Workers, HeadFail(w) PROVE InTurn(v)'
  <2>1. CASE v # w
    BY <1>33, <2>1, <1>same, <1>0 DEF Mine, Typed, HeadFail, Step, Goto, evars, svars, pvars
  <2>2. CASE v = w
    BY <1>33, <2>2, <1>0, <1>mode DEF InTurn, Typed, HeadFail, Step, Goto, Using, Sending, evars, svars, pvars
  <2> QED
    BY <2>1, <2>2
<1>32. CASE UNCHANGED vars
  BY <1>32, <1>same DEF Mine, vars, evars, svars
<1> QED
  BY <1>1, <1>2, <1>3, <1>4, <1>5, <1>6, <1>7, <1>8, <1>9, <1>10, <1>11, <1>12, <1>13, <1>14,
     <1>15, <1>16, <1>17, <1>18, <1>19, <1>20, <1>21, <1>22, <1>23, <1>24, <1>25, <1>26, <1>27, <1>28,
     <1>29, <1>30, <1>31, <1>32, <1>33,
     AskedAssumption DEF Next, Request, Response, Forked

LEMMA TurnAlways == Spec => [](\A w \in Workers : InTurn(w))
<1>1. Init => \A w \in Workers : InTurn(w)
  BY DEF Init, Exec!Init, InTurn, Using, Sending
<1>2. ProxyInv /\ (\A w \in Workers : InTurn(w)) /\ [Next]_vars => (\A w \in Workers : InTurn(w))'
  BY TurnKept
<1> QED
  BY <1>1, <1>2, ProxyAlways, PTL DEF Spec

(***************************************************************************)
(* Whoever reads from a stream has something to read, or its end, or is    *)
(* waiting for one of the three things of Awaits; those come from outside: *)
(* a server whose connection is still open and unbroken, a forked call     *)
(* that BackendCall knows to be under way, or a connection whose reads     *)
(* fail.  What BackendCall asks of its caller is given at every call: one  *)
(* that is made finds it idle, and one that is over has left a stream or   *)
(* NULL to be done with; what is read is what it delivered, to the end.    *)
(***************************************************************************)
WaitsForSome ==
    \A w \in Workers :
        /\ pc[w] \in {"head", "parse", "load", "dump"} =>
              Awaits(w) \/ taken[w] < avail[w] \/ Drained(w)
        /\ Awaits(w) =>
              \/ pc[w] = "calling" /\ phase[w] = "busy"
              \/ pc[w] = "looping" /\ UrlMode /\ w \in open /\ ends[w] = "reset"
              \/ UrlMode /\ w \in open /\ ends[w] = "more"
        /\ ~UrlMode =>
              /\ pc[w] = "backend" => phase[w] = "idle"
              /\ pc[w] \in {"cleanup", "no_stream"} => phase[w] \in {"stream", "null"}
              /\ pc[w] \in Using => ends[w] = "eof" /\ avail[w] = delivered[w]

THEOREM NobodyForgotten == Spec => []WaitsForSome
<1>1. ProxyInv /\ (\A w \in Workers : InTurn(w)) => WaitsForSome
  <2> SUFFICES ASSUME ProxyInv, NEW w \in Workers, InTurn(w) PROVE WaitsForSome!(w)
    BY DEF WaitsForSome
  <2>1. Stream(w) /\ taken[w] <= avail[w] /\ taken[w] \in Int /\ avail[w] \in Int
    BY BoundsAssumption DEF ProxyInv, Local, Typed
  <2>2. ends[w] \in {"more", "eof", "reset"}
    BY DEF ProxyInv, Typed
  <2> QED
    BY <2>1, <2>2 DEF InTurn, Stream, Awaits, Drained, Using, Sending
<1> QED
  BY <1>1, ProxyAlways, TurnAlways, PTL

\* Statements from l to the reply.
StepsFrom(l) ==
    CASE l = "errors" -> 14 [] l = "props" -> 13 [] l = "node" -> 12 [] l = "dispatch" -> 11
      [] l = "backend" -> 10 [] l \in {"connect", "calling"} -> 9
      [] l = "send_head" -> 8 [] l = "send_body" -> 7 [] l = "head" -> 6
      [] l \in {"looping", "parse", "load", "dump", "no_stream"} -> 5
      [] l = "cleanup" -> 4 [] l = "after" -> 3 [] l = "reply" -> 2 [] l = "idle" -> 1
      [] OTHER -> 0

\* Chunks and the end that may still come, and chunks that may still be read.
ToCome(w) ==
    (MaxChunks - avail[w]) + (MaxChunks - taken[w]) + IF ends[w] = "more" THEN 1 ELSE 0

\* Steps that w's request, its child and its server can still take.
Left(w) ==
    StepsFrom(pc[w]) +
    CASE pc[w] = "errors" -> Stores - told[w] + 2 * MaxChunks + 1
      [] pc[w] \in {"props", "node", "dispatch", "backend", "connect"} -> 2 * MaxChunks + 1
      [] pc[w] = "calling" -> (MaxChunks - produced[w]) + MaxChunks + 1
      [] pc[w] \in Sending \cup Using -> ToCome(w)
      [] OTHER -> 0

LEMMA LeftType ==
    ASSUME ProxyInv, NEW w \in Workers
    PROVE  Left(w) \in Nat /\ (pc[w] # "dead" => Left(w) > 0)
<1>1. Typed /\ told \in [Workers -> 0..10] /\ Stores = 11
  BY MessagesListed DEF ProxyInv, SharedTyped, Stores
<1>2. StepsFrom(pc[w]) \in Nat /\ (pc[w] # "dead" => StepsFrom(pc[w]) > 0)
  BY <1>1 DEF Typed, Labels, Using, Sending, StepsFrom
<1>3. Left(w) - StepsFrom(pc[w]) \in Nat /\ Left(w) \in Int
  BY <1>1, <1>2, BoundsAssumption DEF Typed, Left, ToCome
<1> QED
  BY <1>2, <1>3

\* A step of w, with its child or its server, or one that ends the process.
Lowers(w) ==
    /\ \A v \in Workers : pc[v] # "idle" => Left(v)' = Left(v) \/ Left(v)' < Left(v)
    /\ Left(w)' < Left(w) \/ (pc[w] = "idle" /\ pc'[w] # "idle")

LEMMA LeftStep ==
    ASSUME ProxyInv, Next
    PROVE  \E w \in Workers : Lowers(w)
<1> DEFINE Mine(v) == <<pc[v], told[v], produced[v], avail[v], taken[v], ends[v]>>
<1>0. /\ Typed /\ told \in [Workers -> 0..10] /\ Stores = 11
      /\ \A w \in Workers : Stream(w)
  BY MessagesListed DEF ProxyInv, SharedTyped, Local, Stores
<1>same. ASSUME NEW v \in Workers, Mine(v)' = Mine(v) PROVE Left(v)' = Left(v)
  BY <1>same DEF Left, ToCome
<1>die. ASSUME NEW w \in Workers, pc[w] # "dead", Die PROVE Lowers(w)
  <2>1. \A v \in Workers : Left(v)' = 0
    BY <1>die DEF Die, Left, StepsFrom, Sending, Using
  <2>2. \A v \in Workers : Left(v) \in Nat /\ (pc[v] # "dead" => Left(v) > 0)
    BY <1>0, LeftType DEF ProxyInv
  <2> QED
    BY <1>die, <2>1, <2>2 DEF Lowers
<1>step. ASSUME NEW w \in Workers, \A v \in Workers \ {w} : Mine(v)' = Mine(v), 
                pc[w] = "idle" \/ Left(w)' < Left(w), pc[w] = "idle" => pc'[w] # "idle"
         PROVE  Lowers(w)
  <2>1. \A v \in Workers \ {w} : Left(v)' = Left(v)
    BY <1>step, <1>same
  <2>2. \A v \in Workers : pc[v] # "idle" => Left(v)' = Left(v) \/ Left(v)' < Left(v)
    BY <1>step, <2>1
  <2> QED
    BY <1>step, <2>2 DEF Lowers
<1> HIDE DEF Mine
<1>1. ASSUME NEW w \in Workers, InitErrors(w) PROVE Lowers(w)
  <2>1. \A v \in Workers \ {w} : Mine(v)' = Mine(v)
    BY <1>1, <1>0 DEF Mine, Typed, InitErrors, Stored, Goto, evars, svars, pvars, table
  <2>2. pc[w] # "idle" /\ Left(w)' < Left(w)
    BY <1>1, <1>0, BoundsAssumption DEF Typed, InitErrors, Stored, Goto, Stream, Left, StepsFrom, ToCome, Using, Sending, evars, svars, pvars, table
  <2> QED
    BY <2>1, <2>2, <1>step
<1>2. ASSUME NEW w \in Workers, LoadProps(w) PROVE Lowers(w)
  <2>1. \A v \in Workers \ {w} : Mine(v)' = Mine(v)
    BY <1>2, <1>0 DEF Mine, Typed, LoadProps, Step, Failed, Goto, evars, svars, pvars, table
  <2>2. pc[w] # "idle" /\ Left(w)' < Left(w)
    BY <1>2, <1>0, BoundsAssumption DEF Typed, LoadProps, Step, Failed, Goto, Stream, Left, StepsFrom, ToCome, Using, Sending, evars, svars, pvars, table
  <2> QED
    BY <2>1, <2>2, <1>step
<1>3. ASSUME NEW w \in Workers, TakeNode(w) PROVE Lowers(w)
  <2>1. \A v \in Workers \ {w} : Mine(v)' = Mine(v)
    BY <1>3, <1>0 DEF Mine, Typed, TakeNode, Step, Failed, Goto, evars, svars, pvars, table
  <2>2. pc[w] # "idle" /\ Left(w)' < Left(w)
    BY <1>3, <1>0, BoundsAssumption DEF Typed, TakeNode, Step, Failed, Goto, Stream, Left, StepsFrom, ToCome, Using, Sending, evars, svars, pvars, table
  <2> QED
    BY <2>1, <2>2, <1>step
<1>4. ASSUME NEW w \in Workers, Dispatch(w) PROVE Lowers(w)
  <2>0. CASE Die
    BY <1>4, <2>0, <1>die DEF Dispatch
  <2>9. CASE ~Die
    <3>1. \A v \in Workers \ {w} : Mine(v)' = Mine(v)
      BY <1>4, <2>9, <1>0 DEF Mine, Typed, Dispatch, Step, Failed, Goto, evars, svars, pvars, table
    <3>2. pc[w] # "idle" /\ Left(w)' < Left(w)
      BY <1>4, <2>9, <1>0, BoundsAssumption DEF Typed, Dispatch, Step, Failed, Goto, Left, StepsFrom, ToCome, Using, Sending, evars, svars, pvars, table
    <3> QED
      BY <3>1, <3>2, <1>step
  <2> QED
    BY <2>0, <2>9
<1>5. ASSUME NEW w \in Workers, CallExec(w) PROVE Lowers(w)
  <2>1. \A v \in Workers \ {w} : Mine(v)' = Mine(v)
    BY <1>5, <1>0 DEF Mine, Typed, CallExec, Exec!Call, Exec!Refuse, Goto, evars, svars, pvars, table
  <2>2. pc[w] # "idle" /\ Left(w)' < Left(w)
    BY <1>5, <1>0, BoundsAssumption DEF Typed, CallExec, Exec!Call, Exec!Refuse, Goto, Stream, Left, StepsFrom, ToCome, Using, Sending, evars, svars, pvars, table
  <2> QED
    BY <2>1, <2>2, <1>step
<1>6. ASSUME NEW w \in Workers, CallSock(w) PROVE Lowers(w)
  <2>1. \A v \in Workers \ {w} : Mine(v)' = Mine(v)
    BY <1>6, <1>0 DEF Mine, Typed, CallSock, Step, Failed, Goto, evars, svars, pvars, table
  <2>2. pc[w] # "idle" /\ Left(w)' < Left(w)
    BY <1>6, <1>0, BoundsAssumption DEF Typed, CallSock, Step, Failed, Goto, Stream, Left, StepsFrom, ToCome, Using, Sending, evars, svars, pvars, table
  <2> QED
    BY <2>1, <2>2, <1>step
<1>7. ASSUME NEW w \in Workers, Connect(w) PROVE Lowers(w)
  <2>1. \A v \in Workers \ {w} : Mine(v)' = Mine(v)
    BY <1>7, <1>0 DEF Mine, Typed, Connect, Goto, evars, svars, pvars, table
  <2>2. pc[w] # "idle" /\ Left(w)' < Left(w)
    BY <1>7, <1>0, BoundsAssumption DEF Typed, Connect, Goto, Stream, Left, StepsFrom, ToCome, Using, Sending, evars, svars, pvars, table
  <2> QED
    BY <2>1, <2>2, <1>step
<1>8. ASSUME NEW w \in Workers, ConnectZero(w) PROVE Lowers(w)
  <2>1. \A v \in Workers \ {w} : Mine(v)' = Mine(v)
    BY <1>8, <1>0 DEF Mine, Typed, ConnectZero, Goto, evars, svars, pvars, table
  <2>2. pc[w] # "idle" /\ Left(w)' < Left(w)
    BY <1>8, <1>0, BoundsAssumption DEF Typed, ConnectZero, Goto, Stream, Left, StepsFrom, ToCome, Using, Sending, evars, svars, pvars, table
  <2> QED
    BY <2>1, <2>2, <1>step
<1>9. ASSUME NEW w \in Workers, ConnectFail(w) PROVE Lowers(w)
  <2>1. \A v \in Workers \ {w} : Mine(v)' = Mine(v)
    BY <1>9, <1>0 DEF Mine, Typed, ConnectFail, Step, Goto, evars, svars, pvars, table
  <2>2. pc[w] # "idle" /\ Left(w)' < Left(w)
    BY <1>9, <1>0, BoundsAssumption DEF Typed, ConnectFail, Step, Goto, Stream, Left, StepsFrom, ToCome, Using, Sending, evars, svars, pvars, table
  <2> QED
    BY <2>1, <2>2, <1>step
<1>10. ASSUME NEW w \in Workers, WriteHead(w) PROVE Lowers(w)
  <2>1. \A v \in Workers \ {w} : Mine(v)' = Mine(v)
    BY <1>10, <1>0 DEF Mine, Typed, WriteHead, Took, Goto, evars, svars, pvars, table
  <2>2. pc[w] # "idle" /\ Left(w)' < Left(w)
    BY <1>10, <1>0, BoundsAssumption DEF Typed, WriteHead, Took, Goto, Stream, Left, StepsFrom, ToCome, Using, Sending, evars, svars, pvars, table
  <2> QED
    BY <2>1, <2>2, <1>step
<1>11. ASSUME NEW w \in Workers, WriteHeadShort(w) PROVE Lowers(w)
  <2>1. \A v \in Workers \ {w} : Mine(v)' = Mine(v)
    BY <1>11, <1>0 DEF Mine, Typed, WriteHeadShort, DropSock, Goto, evars, svars, pvars, table
  <2>2. pc[w] # "idle" /\ Left(w)' < Left(w)
    BY <1>11, <1>0, BoundsAssumption DEF Typed, WriteHeadShort, DropSock, Goto, Stream, Left, StepsFrom, ToCome, Using, Sending, evars, svars, pvars, table
  <2> QED
    BY <2>1, <2>2, <1>step
<1>12. ASSUME NEW w \in Workers, WriteHeadFail(w) PROVE Lowers(w)
  <2>1. \A v \in Workers \ {w} : Mine(v)' = Mine(v)
    BY <1>12, <1>0 DEF Mine, Typed, WriteHeadFail, Goto, evars, svars, pvars, table
  <2>2. pc[w] # "idle" /\ Left(w)' < Left(w)
    BY <1>12, <1>0, BoundsAssumption DEF Typed, WriteHeadFail, Goto, Stream, Left, StepsFrom, ToCome, Using, Sending, evars, svars, pvars, table
  <2> QED
    BY <2>1, <2>2, <1>step
<1>13. ASSUME NEW w \in Workers, WriteBody(w) PROVE Lowers(w)
  <2>1. \A v \in Workers \ {w} : Mine(v)' = Mine(v)
    BY <1>13, <1>0 DEF Mine, Typed, WriteBody, Took, Goto, evars, svars, pvars, table
  <2>2. pc[w] # "idle" /\ Left(w)' < Left(w)
    BY <1>13, <1>0, BoundsAssumption DEF Typed, WriteBody, Took, Goto, Stream, Left, StepsFrom, ToCome, Using, Sending, evars, svars, pvars, table
  <2> QED
    BY <2>1, <2>2, <1>step
<1>14. ASSUME NEW w \in Workers, WriteBodyFail(w) PROVE Lowers(w)
  <2>1. \A v \in Workers \ {w} : Mine(v)' = Mine(v)
    BY <1>14, <1>0 DEF Mine, Typed, WriteBodyFail, DropSock, Goto, evars, svars, pvars, table
  <2>2. pc[w] # "idle" /\ Left(w)' < Left(w)
    BY <1>14, <1>0, BoundsAssumption DEF Typed, WriteBodyFail, DropSock, Goto, Stream, Left, StepsFrom, ToCome, Using, Sending, evars, svars, pvars, table
  <2> QED
    BY <2>1, <2>2, <1>step
<1>15. ASSUME NEW w \in Workers, NoStream(w) PROVE Lowers(w)
  <2>1. \A v \in Workers \ {w} : Mine(v)' = Mine(v)
    BY <1>15, <1>0 DEF Mine, Typed, NoStream, Exec!Done, Goto, evars, svars, pvars, table
  <2>2. pc[w] # "idle" /\ Left(w)' < Left(w)
    BY <1>15, <1>0, BoundsAssumption DEF Typed, NoStream, Exec!Done, Goto, Stream, Left, StepsFrom, ToCome, Using, Sending, evars, svars, pvars, table
  <2> QED
    BY <2>1, <2>2, <1>step
<1>16. ASSUME NEW w \in Workers, ReadBody(w) PROVE Lowers(w)
  <2>1. \A v \in Workers \ {w} : Mine(v)' = Mine(v)
    BY <1>16, <1>0 DEF Mine, Typed, ReadBody, Goto, evars, svars, pvars, table
  <2>2. pc[w] # "idle" /\ Left(w)' < Left(w)
    BY <1>16, <1>0, BoundsAssumption DEF Typed, ReadBody, Goto, Stream, Left, StepsFrom, ToCome, Using, Sending, evars, svars, pvars, table
  <2> QED
    BY <2>1, <2>2, <1>step
<1>17. ASSUME NEW w \in Workers, ParseEnd(w) PROVE Lowers(w)
  <2>1. \A v \in Workers \ {w} : Mine(v)' = Mine(v)
    BY <1>17, <1>0 DEF Mine, Typed, ParseEnd, Drained, Goto, evars, svars, pvars, table
  <2>2. pc[w] # "idle" /\ Left(w)' < Left(w)
    BY <1>17, <1>0, BoundsAssumption DEF Typed, ParseEnd, Drained, Goto, Stream, Left, StepsFrom, ToCome, Using, Sending, evars, svars, pvars, table
  <2> QED
    BY <2>1, <2>2, <1>step
<1>18. ASSUME NEW w \in Workers, LoadEnd(w) PROVE Lowers(w)
  <2>0. CASE Die
    BY <1>18, <2>0, <1>die DEF LoadEnd
  <2>9. CASE ~Die
    <3>1. \A v \in Workers \ {w} : Mine(v)' = Mine(v)
      BY <1>18, <2>9, <1>0 DEF Mine, Typed, LoadEnd, Drained, Built, Failed, Goto, evars, svars, pvars, table
    <3>2. pc[w] # "idle" /\ Left(w)' < Left(w)
      BY <1>18, <2>9, <1>0, BoundsAssumption DEF Typed, LoadEnd, Drained, Built, Failed, Goto, Left, StepsFrom, ToCome, Using, Sending, evars, svars, pvars, table
    <3> QED
      BY <3>1, <3>2, <1>step
  <2> QED
    BY <2>0, <2>9
<1>19. ASSUME NEW w \in Workers, DumpEnd(w) PROVE Lowers(w)
  <2>0. CASE Die
    BY <1>19, <2>0, <1>die DEF DumpEnd
  <2>9. CASE ~Die
    <3>1. \A v \in Workers \ {w} : Mine(v)' = Mine(v)
      BY <1>19, <2>9, <1>0 DEF Mine, Typed, DumpEnd, Drained, Step, Goto, evars, svars, pvars, table
    <3>2. pc[w] # "idle" /\ Left(w)' < Left(w)
      BY <1>19, <2>9, <1>0, BoundsAssumption DEF Typed, DumpEnd, Drained, Step, Goto, Left, StepsFrom, ToCome, Using, Sending, evars, svars, pvars, table
    <3> QED
      BY <3>1, <3>2, <1>step
  <2> QED
    BY <2>0, <2>9
<1>20. ASSUME NEW w \in Workers, LoadReset(w) PROVE Lowers(w)
  BY <1>20, <1>die DEF LoadReset
<1>21. ASSUME NEW w \in Workers, Cleanup(w) PROVE Lowers(w)
  <2>1. \A v \in Workers \ {w} : Mine(v)' = Mine(v)
    BY <1>21, <1>0 DEF Mine, Typed, Cleanup, Exec!Done, Goto, evars, svars, pvars, table
  <2>2. pc[w] # "idle" /\ Left(w)' < Left(w)
    BY <1>21, <1>0, BoundsAssumption DEF Typed, Cleanup, Exec!Done, Goto, Stream, Left, StepsFrom, ToCome, Using, Sending, evars, svars, pvars, table
  <2> QED
    BY <2>1, <2>2, <1>step
<1>22. ASSUME NEW w \in Workers, After(w) PROVE Lowers(w)
  <2>0. CASE Die
    BY <1>22, <2>0, <1>die DEF After
  <2>9. CASE ~Die
    <3>1. \A v \in Workers \ {w} : Mine(v)' = Mine(v)
      BY <1>22, <2>9, <1>0 DEF Mine, Typed, After, Step, Goto, evars, svars, pvars, table
    <3>2. pc[w] # "idle" /\ Left(w)' < Left(w)
      BY <1>22, <2>9, <1>0, BoundsAssumption DEF Typed, After, Step, Goto, Left, StepsFrom, ToCome, Using, Sending, evars, svars, pvars, table
    <3> QED
      BY <3>1, <3>2, <1>step
  <2> QED
    BY <2>0, <2>9
<1>23. ASSUME NEW w \in Workers, Reply(w) PROVE Lowers(w)
  <2>1. \A v \in Workers \ {w} : Mine(v)' = Mine(v)
    BY <1>23, <1>0 DEF Mine, Typed, Reply, Goto, evars, svars, pvars, table
  <2>2. pc[w] # "idle" /\ Left(w)' < Left(w)
    BY <1>23, <1>0, BoundsAssumption DEF Typed, Reply, Goto, Stream, Left, StepsFrom, ToCome, Using, Sending, evars, svars, pvars, table
  <2> QED
    BY <2>1, <2>2, <1>step
<1>24. ASSUME NEW w \in Workers, Produce(w) PROVE Lowers(w)
  <2>1. \A v \in Workers \ {w} : Mine(v)' = Mine(v)
    BY <1>24, <1>0 DEF Mine, Typed, Produce, Exec!Produce, Goto, evars, svars, pvars, table
  <2>2. pc[w] # "idle" /\ Left(w)' < Left(w)
    BY <1>24, <1>0, BoundsAssumption DEF Typed, Produce, Exec!Produce, Goto, Stream, Left, StepsFrom, ToCome, Using, Sending, evars, svars, pvars, table
  <2> QED
    BY <2>1, <2>2, <1>step
<1>25. ASSUME NEW w \in Workers, ExecAnswer(w) PROVE Lowers(w)
  <2>1. \A v \in Workers \ {w} : Mine(v)' = Mine(v)
    BY <1>25, <1>0 DEF Mine, Typed, ExecAnswer, Exec!Answer, Goto, evars, svars, pvars, table
  <2>2. pc[w] # "idle" /\ Left(w)' < Left(w)
    BY <1>25, <1>0, BoundsAssumption DEF Typed, ExecAnswer, Exec!Answer, Goto, Stream, Left, StepsFrom, ToCome, Using, Sending, evars, svars, pvars, table
  <2> QED
    BY <2>1, <2>2, <1>step
<1>26. ASSUME NEW w \in Workers, ExecFail(w) PROVE Lowers(w)
  <2>1. \A v \in Workers \ {w} : Mine(v)' = Mine(v)
    BY <1>26, <1>0 DEF Mine, Typed, ExecFail, Exec!Fail, Goto, evars, svars, pvars, table
  <2>2. pc[w] # "idle" /\ Left(w)' < Left(w)
    BY <1>26, <1>0, BoundsAssumption DEF Typed, ExecFail, Exec!Fail, Goto, Stream, Left, StepsFrom, ToCome, Using, Sending, evars, svars, pvars, table
  <2> QED
    BY <2>1, <2>2, <1>step
<1>27. ASSUME NEW w \in Workers, ExecDie(w) PROVE Lowers(w)
  BY <1>27, <1>die DEF ExecDie
<1>28. ASSUME NEW w \in Workers, PeerSend(w) PROVE Lowers(w)
  <2>1. \A v \in Workers \ {w} : Mine(v)' = Mine(v)
    BY <1>28, <1>0 DEF Mine, Typed, PeerSend, Goto, evars, svars, pvars, table
  <2>2. pc[w] # "idle" /\ Left(w)' < Left(w)
    BY <1>28, <1>0, BoundsAssumption DEF Typed, PeerSend, Goto, Stream, Left, StepsFrom, ToCome, Using, Sending, evars, svars, pvars, table
  <2> QED
    BY <2>1, <2>2, <1>step
<1>29. ASSUME NEW w \in Workers, NEW o \in Ops, Invoke(w, o) PROVE Lowers(w)
  <2>1. \A v \in Workers \ {w} : Mine(v)' = Mine(v)
    BY <1>29, <1>0 DEF Mine, Typed, Invoke, Goto, evars, svars, pvars, table
  <2>2. pc[w] = "idle" /\ pc'[w] # "idle"
    BY <1>29, <1>0 DEF Typed, Invoke, Goto
  <2> QED
    BY <2>1, <2>2, <1>step
<1>30. ASSUME NEW w \in Workers, NEW t \in Types, ReadHead(w, t) PROVE Lowers(w)
  <2>1. \A v \in Workers \ {w} : Mine(v)' = Mine(v)
    BY <1>30, <1>0 DEF Mine, Typed, ReadHead, Drained, Goto, evars, svars, pvars, table
  <2>2. pc[w] # "idle" /\ Left(w)' < Left(w)
    BY <1>30, <1>0, BoundsAssumption DEF Typed, ReadHead, Drained, Goto, Stream, Left, StepsFrom, ToCome, Using, Sending, evars, svars, pvars, table
  <2> QED
    BY <2>1, <2>2, <1>step
<1>31. ASSUME NEW w \in Workers, NEW how \in {"eof", "reset"}, PeerEnd(w, how) PROVE Lowers(w)
  <2>1. \A v \in Workers \ {w} : Mine(v)' = Mine(v)
    BY <1>31, <1>0 DEF Mine, Typed, PeerEnd, Goto, evars, svars, pvars, table
  <2>2. pc[w] # "idle" /\ Left(w)' < Left(w)
    BY <1>31, <1>0, BoundsAssumption DEF Typed, PeerEnd, Goto, Stream, Left, StepsFrom, ToCome, Using, Sending, evars, svars, pvars, table
  <2> QED
    BY <2>1, <2>2, <1>step
<1>33. ASSUME NEW w \in Workers, HeadFail(w) PROVE Lowers(w)
  <2>1. \A v \in Workers \ {w} : Mine(v)' = Mine(v)
    BY <1>33, <1>0 DEF Mine, Typed, HeadFail, Step, Goto, evars, svars, pvars, table
  <2>2. pc[w] # "idle" /\ Left(w)' < Left(w)
    BY <1>33, <1>0, BoundsAssumption DEF Typed, HeadFail, Step, Goto, Stream, Left, StepsFrom, ToCome, Using, Sending, evars, svars, pvars, table
  <2> QED
    BY <2>1, <2>2, <1>step
<1> QED
  BY <1>1, <1>2, <1>3, <1>4, <1>5, <1>6, <1>7, <1>8, <1>9, <1>10, <1>11, <1>12, <1>13, <1>14,
     <1>15, <1>16, <1>17, <1>18, <1>19, <1>20, <1>21, <1>22, <1>23, <1>24, <1>25, <1>26, <1>27, <1>28,
     <1>29, <1>30, <1>31, <1>33,
     AskedAssumption DEF Next, Request, Response, Forked

(***************************************************************************)
(* However many threads serve, however long the answers: no step adds to   *)
(* what any request has left to do, and every step uses up some of it, or  *)
(* is a new request.  So after finitely many steps each of the requests    *)
(* that have come is done, or waits for good (Awaits, NobodyForgotten):    *)
(* for a server, for a forked call, or in a head whose reads keep failing, *)
(* the one loop that may not end (HeaderBlob, HeadEnds).                   *)
(***************************************************************************)
UsesUp ==
    /\ [](\A w \in Workers : Left(w) \in Nat)
    /\ [][\E w \in Workers : Lowers(w)]_vars

THEOREM RequestShrinks == Spec => UsesUp
<1> DEFINE LeftTyped == \A w \in Workers : Left(w) \in Nat
           Some == \E w \in Workers : Lowers(w)
<1>1. ProxyInv => LeftTyped
  BY LeftType
<1>2. ProxyInv /\ [Next]_vars => [Some]_vars
  BY LeftStep
<1>3. Spec => []LeftTyped /\ [][Some]_vars
  <2> HIDE DEF LeftTyped, Some
  <2> QED
    BY <1>1, <1>2, ProxyAlways, PTL DEF Spec
<1> QED
  BY <1>3 DEF UsesUp
=============================================================================
