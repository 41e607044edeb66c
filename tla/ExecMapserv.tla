----------------------------- MODULE ExecMapserv -----------------------------
(***************************************************************************)
(* sp_execMapserv (src/sp_exec_ms.c): several worker threads of one        *)
(* hosting process each serve a call by forking mapserv, piping the        *)
(* request to it, spooling the answer into a temporary file and waiting    *)
(* for a child.  The threads share one descriptor table; every fork hands  *)
(* the whole of it to the child, because pipe(2) sets no close-on-exec     *)
(* flag, and wait(NULL) reaps whichever child of the process has exited.   *)
(*                                                                         *)
(* A kid is an identifier that stands for the two pipes of one call and    *)
(* for the child forked to serve it.  Data is counted in chunks (one       *)
(* read or write of up to SP_BUF_READSIZE bytes).                          *)
(***************************************************************************)
EXTENDS Naturals, Integers, FiniteSets

CONSTANTS
    Workers,     \* threads of the process that may be inside the call
    Kids,        \* pool of identifiers for pipes and children (a bound)
    NoKid,       \* no pipes, no child
    MaxReq,      \* longest request, in chunks (a bound)
    MaxResp,     \* longest answer of mapserv, in chunks (a bound)
    Cap,         \* capacity of a pipe, in chunks
    MaxFds,      \* descriptors the process may open for calls
    LowFree,     \* how many of descriptors 0..2 the host left closed
    NTries,      \* ntries: reads per round of the retry loop
    ReadFails,   \* which reads of the answer may fail: "first", "more"
    ReadsToEOF,  \* TRUE: mapserv reads to end of file; FALSE: CONTENT_LENGTH
    DiskFills,   \* TRUE: write(tmp_fd) may fail
    ForkFails    \* TRUE: fork() may fail

ASSUME WorkersAssumption == IsFiniteSet(Workers)
ASSUME KidsAssumption == IsFiniteSet(Kids) /\ NoKid \notin Kids
ASSUME BoundsAssumption ==
    /\ MaxReq \in Nat \ {0} /\ MaxResp \in Nat /\ Cap \in Nat \ {0}
    /\ MaxFds \in Nat /\ NTries \in Nat \ {0} /\ LowFree \in 0..3
ASSUME FaultsAssumption ==
    /\ ReadFails \subseteq {"first", "more"}
    /\ ReadsToEOF \in BOOLEAN /\ DiskFills \in BOOLEAN /\ ForkFails \in BOOLEAN

VARIABLES
    up,         \* the hosting process is running
    pc,         \* pc[w]: the next statement of w, or the outcome it returned
    cpid,       \* cpid[w]: the kid of w's call
    unsent,     \* unsent[w]: chunks of the request not yet written
    ntries,     \* ntries[w]: reads left in the current retry round
    tmp,        \* tmp[w]: the temporary file: none, named in /tmp, or unlinked
    file,       \* file[w]: chunks spooled in it
    fds,        \* pipe ends <<end, kid>> open in the hosting process
    low,        \* how many of descriptors 0..2 are still free
    below3,     \* below3[w]: a pipe end of w's call is numbered below 3
    abandoned,  \* kids whose pipe ends a failing call left open
    proc,       \* proc[k]: life of the child
    held,       \* held[k]: pipe ends open in the child
    rrpipe,     \* rrpipe[k]: chunks buffered on the way to mapserv
    wwpipe,     \* wwpipe[k]: chunks buffered on the way back
    need,       \* need[k]: chunks of CONTENT_LENGTH mapserv has yet to read
    todo,       \* todo[k]: chunks of its answer left to write, NoAnswer before
    made        \* made[k]: chunks of its answer written

pvars == <<up, abandoned, fds, low>>
wvars == <<pc, cpid, unsent, ntries, tmp, file, below3>>
kvars == <<proc, held, rrpipe, wwpipe, need, todo, made>>
vars  == <<pvars, wvars, kvars>>

PipeEnds == {"rr0", "rr1", "ww0", "ww1"}  \* rrpipe[0..1], wwpipe[0..1]
NoAnswer == -1

EndsOf(k) == PipeEnds \X {k}

Unforked == {"pipe_ww", "fork"}
Reading  == {"read_first", "read_more"}
Forked   == {"close_unused", "write", "mkostemp"} \cup Reading
Waiting  == {"wait", "wait_null"}
Busy     == {"pipe_rr", "fdopen"} \cup Unforked \cup Forked \cup Waiting
Outcomes == {"stream", "null"}
Owing    == {w \in Workers : pc[w] \in Forked \cup Waiting}

Running  == {"forked", "reading", "writing"}  \* can still run code
Unreaped == {k \in Kids : proc[k] # "none"}

\* An end is open as long as one process has it.
Open(e, k) == <<e, k>> \in fds \/ \E c \in Kids : <<e, k>> \in held[c]

\* The process may open n more descriptors.
Room(n) == Cardinality(fds) + Cardinality({w \in Workers : tmp[w] # "none"}) + n
             =< MaxFds

\* Kids that nothing refers to.
Free == {k \in Kids : /\ proc[k] = "none"
                      /\ \A w \in Workers : cpid[w] # k
                      /\ \A e \in PipeEnds : ~Open(e, k)}

TypeOK ==
    /\ up \in BOOLEAN
    /\ pc \in [Workers -> {"idle", "dead"} \cup Busy \cup Outcomes]
    /\ cpid \in [Workers -> Kids \cup {NoKid}]
    /\ unsent \in [Workers -> 0..MaxReq]
    /\ ntries \in [Workers -> 0..NTries]
    /\ tmp \in [Workers -> {"none", "named", "unlinked"}]
    /\ file \in [Workers -> Nat]
    /\ fds \subseteq PipeEnds \X Kids
    /\ low \in 0..3
    /\ below3 \in [Workers -> BOOLEAN]
    /\ abandoned \subseteq Kids
    /\ proc \in [Kids -> {"none", "exiting", "zombie"} \cup Running]
    /\ held \in [Kids -> SUBSET (PipeEnds \X Kids)]
    /\ rrpipe \in [Kids -> 0..Cap]
    /\ wwpipe \in [Kids -> 0..Cap]
    /\ need \in [Kids -> 0..MaxReq]
    /\ todo \in [Kids -> NoAnswer..MaxResp]
    /\ made \in [Kids -> Nat]

Init ==
    /\ up = TRUE
    /\ pc = [w \in Workers |-> "idle"]
    /\ cpid = [w \in Workers |-> NoKid]
    /\ unsent = [w \in Workers |-> 0]
    /\ ntries = [w \in Workers |-> NTries]
    /\ tmp = [w \in Workers |-> "none"]
    /\ file = [w \in Workers |-> 0]
    /\ fds = {}
    /\ low = LowFree
    /\ below3 = [w \in Workers |-> FALSE]
    /\ abandoned = {}
    /\ proc = [k \in Kids |-> "none"]
    /\ held = [k \in Kids |-> {}]
    /\ rrpipe = [k \in Kids |-> 0]
    /\ wwpipe = [k \in Kids |-> 0]
    /\ need = [k \in Kids |-> 0]
    /\ todo = [k \in Kids |-> NoAnswer]
    /\ made = [k \in Kids |-> 0]

Goto(w, l) == pc' = [pc EXCEPT ![w] = l]

\* w returns NULL; nothing refers to the kid any more.
ReturnNull(w) == Goto(w, "null") /\ cpid' = [cpid EXCEPT ![w] = NoKid]

-----------------------------------------------------------------------------
(* The worker, before fork().                                              *)

\* The lengths of msexec, mapfile and req pass the checks; req has n chunks.
Call(w, n) ==
    /\ pc[w] = "idle"
    /\ Goto(w, "pipe_rr")
    /\ unsent' = [unsent EXCEPT ![w] = n]
    /\ UNCHANGED <<pvars, kvars, cpid, ntries, tmp, file, below3>>

\* One of the checks fails.
Refuse(w) ==
    /\ pc[w] = "idle"
    /\ ReturnNull(w)
    /\ UNCHANGED <<pvars, kvars, unsent, ntries, tmp, file, below3>>

\* pipe() takes the lowest free numbers.
TakeLow(w) ==
    /\ low' = IF low > 2 THEN low - 2 ELSE 0
    /\ below3' = [below3 EXCEPT ![w] = @ \/ low > 0]

PipeRr(w, k) ==
    /\ pc[w] = "pipe_rr" /\ k \in Free /\ Room(2)
    /\ Goto(w, "pipe_ww")
    /\ cpid' = [cpid EXCEPT ![w] = k]
    /\ fds' = fds \cup {<<"rr0", k>>, <<"rr1", k>>}
    /\ TakeLow(w)
    /\ rrpipe' = [rrpipe EXCEPT ![k] = 0]
    /\ wwpipe' = [wwpipe EXCEPT ![k] = 0]
    /\ todo' = [todo EXCEPT ![k] = NoAnswer]
    /\ made' = [made EXCEPT ![k] = 0]
    /\ UNCHANGED <<up, abandoned, unsent, ntries, tmp, file, proc, held, need>>

PipeRrFail(w) ==
    /\ pc[w] = "pipe_rr" /\ (Free = {} \/ ~Room(2))
    /\ ReturnNull(w)
    /\ unsent' = [unsent EXCEPT ![w] = 0]
    /\ UNCHANGED <<pvars, kvars, ntries, tmp, file, below3>>

PipeWw(w) ==
    /\ pc[w] = "pipe_ww" /\ Room(2) /\ ~below3[w] /\ low = 0
    /\ Goto(w, "fork")
    /\ fds' = fds \cup {<<"ww0", cpid[w]>>, <<"ww1", cpid[w]>>}
    /\ UNCHANGED <<up, low, abandoned, cpid, unsent, ntries, tmp, file, below3, kvars>>

\* Slip: the failing call closes the first pipe only.
PipeBelow3_half(w) ==
    /\ pc[w] = "pipe_ww" /\ Room(2) /\ (below3[w] \/ low > 0)
    /\ fds' = (fds \ EndsOf(cpid[w])) \cup {<<"ww0", cpid[w]>>, <<"ww1", cpid[w]>>}
    /\ low' = IF low = 0 THEN 2 ELSE 3
    /\ abandoned' = abandoned \cup {cpid[w]}
    /\ below3' = [below3 EXCEPT ![w] = FALSE]
    /\ unsent' = [unsent EXCEPT ![w] = 0]
    /\ ReturnNull(w)
    /\ UNCHANGED <<up, ntries, tmp, file, kvars>>

\* Some end is numbered below 3: return NULL with all four ends open.
PipeBelow3(w) ==
    /\ pc[w] = "pipe_ww" /\ Room(2) /\ (below3[w] \/ low > 0)
    /\ fds' = fds \cup {<<"ww0", cpid[w]>>, <<"ww1", cpid[w]>>}
    /\ low' = IF low > 2 THEN low - 2 ELSE 0
    /\ abandoned' = abandoned \cup {cpid[w]}
    /\ below3' = [below3 EXCEPT ![w] = FALSE]
    /\ unsent' = [unsent EXCEPT ![w] = 0]
    /\ ReturnNull(w)
    /\ UNCHANGED <<up, ntries, tmp, file, kvars>>

\* The second pipe() fails: return NULL with the first pipe open.
PipeWwFail(w) ==
    /\ pc[w] = "pipe_ww" /\ ~Room(2)
    /\ abandoned' = abandoned \cup {cpid[w]}
    /\ below3' = [below3 EXCEPT ![w] = FALSE]
    /\ unsent' = [unsent EXCEPT ![w] = 0]
    /\ ReturnNull(w)
    /\ UNCHANGED <<up, fds, low, ntries, tmp, file, kvars>>

Fork(w) ==
    /\ pc[w] = "fork"
    /\ Goto(w, "close_unused")
    /\ proc' = [proc EXCEPT ![cpid[w]] = "forked"]
    /\ held' = [held EXCEPT ![cpid[w]] = fds]
    /\ need' = [need EXCEPT ![cpid[w]] = unsent[w]]
    /\ UNCHANGED <<pvars, cpid, unsent, ntries, tmp, file, below3,
                   rrpipe, wwpipe, todo, made>>

\* exit(3) ends the process, and with it every other worker's call.
ForkFail(w) ==
    /\ pc[w] = "fork" /\ ForkFails
    /\ up' = FALSE
    /\ pc' = [v \in Workers |-> "dead"]
    /\ fds' = {}
    /\ cpid' = [v \in Workers |-> NoKid]
    /\ tmp' = [v \in Workers |-> IF tmp[v] = "named" THEN "named" ELSE "none"]
    /\ file' = [v \in Workers |-> 0]
    /\ UNCHANGED <<abandoned, low, unsent, ntries, below3, kvars>>

-----------------------------------------------------------------------------
(* The worker, as the parent.                                              *)

CloseUnused(w) ==
    /\ pc[w] = "close_unused"
    /\ Goto(w, "write")
    /\ fds' = fds \ {<<"rr0", cpid[w]>>, <<"ww1", cpid[w]>>}
    /\ UNCHANGED <<up, low, abandoned, cpid, unsent, ntries, tmp, file, below3, kvars>>

\* write() blocks while the pipe is full and some process could read it.
WriteReq(w) ==
    /\ pc[w] = "write" /\ unsent[w] > 0
    /\ Open("rr0", cpid[w]) /\ rrpipe[cpid[w]] < Cap
    /\ rrpipe' = [rrpipe EXCEPT ![cpid[w]] = @ + 1]
    /\ unsent' = [unsent EXCEPT ![w] = @ - 1]
    /\ UNCHANGED <<pvars, pc, cpid, ntries, tmp, file, below3,
                   proc, held, wwpipe, need, todo, made>>

\* EPIPE: the result of write() is not looked at.
WriteBroken(w) ==
    /\ pc[w] = "write" /\ unsent[w] > 0 /\ ~Open("rr0", cpid[w])
    /\ unsent' = [unsent EXCEPT ![w] = 0]
    /\ UNCHANGED <<pvars, pc, cpid, ntries, tmp, file, below3, kvars>>

\* Slip: the write end stays open.
CloseReq_not(w) ==
    /\ pc[w] = "write" /\ unsent[w] = 0
    /\ Goto(w, "mkostemp")
    /\ UNCHANGED <<pvars, cpid, unsent, ntries, tmp, file, below3, kvars>>

CloseReq(w) ==
    /\ pc[w] = "write" /\ unsent[w] = 0
    /\ Goto(w, "mkostemp")
    /\ fds' = fds \ {<<"rr1", cpid[w]>>}
    /\ UNCHANGED <<up, low, abandoned, cpid, unsent, ntries, tmp, file, below3, kvars>>

MakeTemp(w) ==
    /\ pc[w] = "mkostemp" /\ Room(1)
    /\ Goto(w, "read_first")
    /\ tmp' = [tmp EXCEPT ![w] = "named"]
    /\ file' = [file EXCEPT ![w] = 0]
    /\ ntries' = [ntries EXCEPT ![w] = NTries]
    /\ UNCHANGED <<pvars, cpid, unsent, below3, kvars>>

\* Slip: NULL is returned without wait(NULL).
MakeTempFail_nowait(w) ==
    /\ pc[w] = "mkostemp"
    /\ ReturnNull(w)
    /\ fds' = fds \ {<<"ww0", cpid[w]>>}
    /\ UNCHANGED <<up, low, abandoned, unsent, ntries, tmp, file, below3, kvars>>

\* Slip: wwpipe[0] stays open.
MakeTempFail_leak(w) ==
    /\ pc[w] = "mkostemp"
    /\ Goto(w, "wait_null")
    /\ UNCHANGED <<pvars, cpid, unsent, ntries, tmp, file, below3, kvars>>

\* mkostemp() fails, for want of a descriptor or of room in /tmp.
MakeTempFail(w) ==
    /\ pc[w] = "mkostemp"
    /\ Goto(w, "wait_null")
    /\ fds' = fds \ {<<"ww0", cpid[w]>>}
    /\ UNCHANGED <<up, low, abandoned, cpid, unsent, ntries, tmp, file, below3, kvars>>

\* read() returns a chunk; lost: write(tmp_fd) failed, which nobody notices.
ReadChunk(w, lost) ==
    /\ pc[w] \in Reading /\ wwpipe[cpid[w]] > 0
    /\ lost => DiskFills
    /\ Goto(w, "read_more")
    /\ wwpipe' = [wwpipe EXCEPT ![cpid[w]] = @ - 1]
    /\ file' = [file EXCEPT ![w] = IF lost THEN @ ELSE @ + 1]
    /\ UNCHANGED <<pvars, cpid, unsent, ntries, tmp, below3,
                   proc, held, rrpipe, need, todo, made>>

\* Leave the loop: close(wwpipe[0]), lseek, unlink.
EndRead(w) ==
    /\ Goto(w, "wait")
    /\ fds' = fds \ {<<"ww0", cpid[w]>>}
    /\ tmp' = [tmp EXCEPT ![w] = "unlinked"]
    /\ UNCHANGED <<up, low, abandoned, cpid, unsent, ntries, file, below3, kvars>>

\* Slip: an empty pipe is taken for the end of file.
ReadEOF_early(w) ==
    /\ pc[w] \in Reading /\ wwpipe[cpid[w]] = 0
    /\ EndRead(w)

\* End of file: the pipe is empty and no process can write it.
ReadEOF(w) ==
    /\ pc[w] \in Reading
    /\ wwpipe[cpid[w]] = 0 /\ ~Open("ww1", cpid[w])
    /\ EndRead(w)

\* Slip: the first failure is taken for the end of file.
ReadRetry_never(w) ==
    /\ pc[w] = "read_first" /\ "first" \in ReadFails
    /\ EndRead(w)

\* Slip: ntries is set before the outer loop only, and counts on below zero.
ReadRetry_under(w) ==
    /\ pc[w] = "read_first" /\ "first" \in ReadFails
    /\ ntries' = [ntries EXCEPT ![w] = @ - 1]
    /\ UNCHANGED <<pvars, pc, cpid, unsent, tmp, file, below3, kvars>>

\* The first read fails: ntries more reads, then the round starts again.
ReadRetry(w) ==
    /\ pc[w] = "read_first" /\ "first" \in ReadFails
    /\ ntries' = [ntries EXCEPT ![w] = IF @ = 0 THEN NTries ELSE @ - 1]
    /\ UNCHANGED <<pvars, pc, cpid, unsent, tmp, file, below3, kvars>>

\* A later read fails: the loop ends as it does at the end of file.
ReadBroken(w) ==
    /\ pc[w] = "read_more" /\ "more" \in ReadFails
    /\ EndRead(w)

\* wait(NULL) reaps any exited child of the process.
Wait(w, z) ==
    /\ pc[w] \in Waiting /\ proc[z] = "zombie"
    /\ proc' = [proc EXCEPT ![z] = "none"]
    /\ IF pc[w] = "wait" THEN Goto(w, "fdopen") /\ UNCHANGED cpid
                         ELSE ReturnNull(w)
    /\ UNCHANGED <<pvars, unsent, ntries, tmp, file, below3,
                   held, rrpipe, wwpipe, need, todo, made>>

Fdopen(w) ==
    /\ pc[w] = "fdopen"
    /\ Goto(w, "stream")
    /\ UNCHANGED <<pvars, cpid, unsent, ntries, tmp, file, below3, kvars>>

FdopenFail(w) ==
    /\ pc[w] = "fdopen"
    /\ ReturnNull(w)
    /\ tmp' = [tmp EXCEPT ![w] = "none"]
    /\ file' = [file EXCEPT ![w] = 0]
    /\ UNCHANGED <<pvars, unsent, ntries, below3, kvars>>

\* rp_invokeBackend is done with the outcome (sp_stream_cleanup).
Cleanup(w) ==
    /\ pc[w] \in Outcomes
    /\ Goto(w, "idle")
    /\ cpid' = [cpid EXCEPT ![w] = NoKid]
    /\ tmp' = [tmp EXCEPT ![w] = "none"]
    /\ file' = [file EXCEPT ![w] = 0]
    /\ UNCHANGED <<pvars, unsent, ntries, below3, kvars>>

-----------------------------------------------------------------------------
(* The child.                                                              *)

\* Slip: the child keeps its copy of the write end of its stdin.
Exec_keeps(k) ==
    /\ proc[k] = "forked"
    /\ proc' = [proc EXCEPT ![k] = "reading"]
    /\ held' = [held EXCEPT ![k] = @ \ {<<"ww0", k>>}]
    /\ UNCHANGED <<pvars, wvars, rrpipe, wwpipe, need, todo, made>>

\* do_child: close the unused ends, dup2 the others to 0 and 1, execve.
Exec(k) ==
    /\ proc[k] = "forked"
    /\ proc' = [proc EXCEPT ![k] = "reading"]
    /\ held' = [held EXCEPT ![k] = @ \ {<<"rr1", k>>, <<"ww0", k>>}]
    /\ UNCHANGED <<pvars, wvars, rrpipe, wwpipe, need, todo, made>>

KidRead(k) ==
    /\ proc[k] = "reading" /\ rrpipe[k] > 0 /\ (ReadsToEOF \/ need[k] > 0)
    /\ rrpipe' = [rrpipe EXCEPT ![k] = @ - 1]
    /\ need' = [need EXCEPT ![k] = IF @ > 0 THEN @ - 1 ELSE 0]
    /\ UNCHANGED <<pvars, wvars, proc, held, wwpipe, todo, made>>

\* The request is read; mapserv composes an answer of n chunks.
KidAnswer(k, n) ==
    /\ proc[k] = "reading"
    /\ \/ ~ReadsToEOF /\ need[k] = 0
       \/ rrpipe[k] = 0 /\ ~Open("rr1", k)
    /\ proc' = [proc EXCEPT ![k] = "writing"]
    /\ todo' = [todo EXCEPT ![k] = n]
    /\ UNCHANGED <<pvars, wvars, held, rrpipe, wwpipe, need, made>>

KidWrite(k) ==
    /\ proc[k] = "writing" /\ todo[k] > 0
    /\ Open("ww0", k) /\ wwpipe[k] < Cap
    /\ wwpipe' = [wwpipe EXCEPT ![k] = @ + 1]
    /\ todo' = [todo EXCEPT ![k] = @ - 1]
    /\ made' = [made EXCEPT ![k] = @ + 1]
    /\ UNCHANGED <<pvars, wvars, proc, held, rrpipe, need>>

\* The kernel closes what an exiting process has open before it reports it.
Exiting(k) ==
    /\ proc' = [proc EXCEPT ![k] = "exiting"]
    /\ held' = [held EXCEPT ![k] = {}]
    /\ UNCHANGED <<pvars, wvars, rrpipe, wwpipe, need, todo, made>>

KidExit(k) == proc[k] = "writing" /\ todo[k] = 0 /\ Exiting(k)

\* SIGPIPE: nobody can read the answer any more.
KidBroken(k) ==
    proc[k] = "writing" /\ todo[k] > 0 /\ ~Open("ww0", k) /\ Exiting(k)

\* execve fails, or mapserv dies before its answer is complete.
KidFail(k) ==
    /\ \/ proc[k] \in {"forked", "reading"}
       \/ proc[k] = "writing" /\ todo[k] > 0
    /\ Exiting(k)

KidZombie(k) ==
    /\ proc[k] = "exiting"
    /\ proc' = [proc EXCEPT ![k] = "zombie"]
    /\ UNCHANGED <<pvars, wvars, held, rrpipe, wwpipe, need, todo, made>>

\* Children that outlive the process are reaped by init.
Adopted(k) ==
    /\ ~up /\ proc[k] = "zombie"
    /\ proc' = [proc EXCEPT ![k] = "none"]
    /\ UNCHANGED <<pvars, wvars, held, rrpipe, wwpipe, need, todo, made>>

-----------------------------------------------------------------------------
Accept(w) == Refuse(w) \/ \E n \in 1..MaxReq : Call(w, n)

WaitAny(w) == \E z \in Kids : Wait(w, z)

Setup(w) ==
    \/ \E k \in Kids : PipeRr(w, k)
    \/ PipeRrFail(w) \/ PipeWw(w) \/ PipeBelow3(w) \/ PipeWwFail(w)
    \/ Fork(w) \/ ForkFail(w)

Exchange(w) ==
    \/ CloseUnused(w) \/ WriteReq(w) \/ WriteBroken(w) \/ CloseReq(w)
    \/ MakeTemp(w) \/ MakeTempFail(w)
    \/ \E lost \in BOOLEAN : ReadChunk(w, lost)
    \/ ReadEOF(w) \/ ReadRetry(w) \/ ReadBroken(w)

Finish(w) == Fdopen(w) \/ FdopenFail(w) \/ Cleanup(w)

Serve(k) ==
    \/ Exec(k) \/ KidRead(k) \/ \E n \in 0..MaxResp : KidAnswer(k, n)
    \/ KidWrite(k) \/ KidExit(k) \/ KidBroken(k) \/ KidZombie(k) \/ Adopted(k)

Next ==
    \/ \E w \in Workers :
          Accept(w) \/ Setup(w) \/ Exchange(w) \/ WaitAny(w) \/ Finish(w)
    \/ \E k \in Kids : Serve(k) \/ KidFail(k)

Spec == Init /\ [][Next]_vars

(***************************************************************************)
(* Every thread and every child is scheduled.  A blocked wait(NULL) is     *)
(* woken by each exit, but another waiter may take the child first, hence  *)
(* strong fairness.  Nobody has to call, and no child has to fail.         *)
(***************************************************************************)
Fairness ==
    /\ \A w \in Workers : /\ WF_vars(Setup(w) \/ Exchange(w) \/ Finish(w))
                          /\ SF_vars(WaitAny(w))
    /\ \A k \in Kids : WF_vars(Serve(k))

FairSpec == Spec /\ Fairness

-----------------------------------------------------------------------------
(* The inductive invariant behind the properties.                          *)

\* Calls that have pipes.
Engaged == Unforked \cup Forked \cup Waiting \cup {"fdopen", "stream"}

\* A kid belongs to one call at a time, from its first pipe to its outcome.
KidOwned ==
    /\ \A w \in Workers : cpid[w] \in Kids <=> pc[w] \in Engaged
    /\ \A v, w \in Workers : cpid[v] = cpid[w] /\ cpid[w] \in Kids => v = w

\* The ends of its own pipes a worker has yet to close.
EndLeft(w, e) ==
    \/ e \in {"rr0", "rr1"} /\ pc[w] \in Unforked \cup {"close_unused"}
    \/ e = "rr1" /\ pc[w] = "write"
    \/ e = "ww0" /\ pc[w] \in {"fork"} \cup Forked
    \/ e = "ww1" /\ pc[w] \in {"fork", "close_unused"}

OwnEnds ==
    \A w \in Workers : cpid[w] \in Kids =>
        \A e \in PipeEnds : <<e, cpid[w]>> \in fds <=> EndLeft(w, e)

\* Any other end was left behind by a failing call.
EndsOwned ==
    \A e \in PipeEnds, k \in Kids : <<e, k>> \in fds =>
        k \in abandoned \/ \E w \in Workers : cpid[w] = k

\* A live child has its stdout open.
AliveHolds == \A k \in Kids : proc[k] \in Running => <<"ww1", k>> \in held[k]

\* Before fork() there is no child and nothing in the pipes.
NotStarted ==
    \A w \in Workers : pc[w] \in Unforked =>
        /\ proc[cpid[w]] = "none"
        /\ made[cpid[w]] = 0 /\ wwpipe[cpid[w]] = 0

\* What mapserv has made is in the pipe or in the file, and nowhere else.
Spooled ==
    \A w \in Workers :
        /\ pc[w] \in Forked \ Reading => made[cpid[w]] = wwpipe[cpid[w]]
        /\ pc[w] \in Reading => made[cpid[w]] = file[w] + wwpipe[cpid[w]]
        /\ pc[w] \in {"wait", "fdopen", "stream"} =>
              /\ file[w] = made[cpid[w]]
              /\ proc[cpid[w]] \notin Running
              /\ tmp[w] = "unlinked"

TempNamed == \A w \in Workers : up /\ tmp[w] = "named" => pc[w] \in Reading

Bookkeeping == /\ TypeOK /\ KidOwned /\ OwnEnds /\ EndsOwned /\ AliveHolds
               /\ NotStarted /\ TempNamed

-----------------------------------------------------------------------------
(* Properties.                                                             *)

(***************************************************************************)
(* Each wait(NULL) has a child to reap: the children not yet reaped are as *)
(* many as the workers that have forked and not yet waited, whoever reaps  *)
(* whom.  So no wait blocks for want of a child, and no zombie is left     *)
(* behind when every call has returned.                                    *)
(***************************************************************************)
ReapBalance == up => Cardinality(Unreaped) = Cardinality(Owing)

(***************************************************************************)
(* A stream handed out by sp_execMapserv is all that its own mapserv ever  *)
(* writes: the file holds every chunk made, the child can make no more,    *)
(* and the file has no name left in /tmp.                                  *)
(***************************************************************************)
StreamContract ==
    \A w \in Workers : pc[w] = "stream" =>
        /\ file[w] = made[cpid[w]]
        /\ proc[cpid[w]] \notin Running
        /\ tmp[w] = "unlinked"

(***************************************************************************)
(* A finished call leaves nothing open: every pipe end in the process      *)
(* belongs to a call under way, except those the two failures before       *)
(* fork() leave behind; and only a call that is reading its answer has a   *)
(* named file in /tmp.                                                     *)
(***************************************************************************)
NothingLeftOpen ==
    /\ \A e \in PipeEnds, k \in Kids : <<e, k>> \in fds =>
          \/ k \in abandoned
          \/ \E w \in Workers : cpid[w] = k /\ pc[w] \in Unforked \cup Forked
    /\ \A w \in Workers : up /\ tmp[w] = "named" => pc[w] \in Reading

(***************************************************************************)
(* The check for descriptors below 3 costs a call, and leaves its four     *)
(* pipe ends open, at most once for each two standard descriptors the host *)
(* had left closed: the ends left open plug them.                          *)
(***************************************************************************)
LeakBounded ==
    2 * Cardinality({k \in abandoned : <<"ww0", k>> \in fds}) =< LowFree + 1

(***************************************************************************)
(* "Reader will see EOF" (after close(rrpipe[1])): once the request end is *)
(* closed and the child has closed its own copy, nobody can write to the   *)
(* child's stdin.                                                          *)
(***************************************************************************)
ReaderSeesEOF ==
    \A w \in Workers :
        pc[w] \in {"mkostemp"} \cup Reading /\ proc[cpid[w]] # "forked"
            => ~Open("rr1", cpid[w])

(***************************************************************************)
(* "Wait for child": the child reaped at the end of a call is the one this *)
(* call has forked.                                                        *)
(***************************************************************************)
OwnChildReaped == \A w \in Workers : pc[w] = "fdopen" => proc[cpid[w]] = "none"

\* A worker in a system call that does not return as things are, and a child.
Blocked(w) ==
    \/ /\ pc[w] = "write" /\ unsent[w] > 0
       /\ Open("rr0", cpid[w]) /\ rrpipe[cpid[w]] = Cap
    \/ pc[w] \in Reading /\ wwpipe[cpid[w]] = 0 /\ Open("ww1", cpid[w])
    \/ pc[w] \in Waiting /\ \A k \in Kids : proc[k] # "zombie"

KidBlocked(k) ==
    \/ /\ proc[k] = "reading" /\ rrpipe[k] = 0 /\ Open("rr1", k)
       /\ ReadsToEOF \/ need[k] > 0
    \/ proc[k] = "writing" /\ todo[k] > 0 /\ Open("ww0", k) /\ wwpipe[k] = Cap

(***************************************************************************)
(* A call and its child never wait for each other: while write(), read()   *)
(* or wait() blocks the call, its own child is there and can go on; and    *)
(* while a pipe blocks the child, its call is there and is not blocked.    *)
(***************************************************************************)
NoStandstill ==
    /\ \A w \in Workers : Blocked(w) =>
          proc[cpid[w]] \in Running \cup {"exiting"} /\ ~KidBlocked(cpid[w])
    /\ \A k \in Kids : KidBlocked(k) =>
          \E w \in Workers : cpid[w] = k /\ pc[w] \in Forked /\ ~Blocked(w)

\* Every call comes back, whatever the other workers and children do.
CallReturns ==
    \A w \in Workers : (pc[w] \in Busy) ~> (pc[w] \notin Busy)

(***************************************************************************)
(* sp_execMapserv keeps the promise rp_invokeBackend relies on.            *)
(***************************************************************************)
callPhase == [w \in Workers |-> IF pc[w] \in Busy THEN "busy" ELSE pc[w]]
childMade == [w \in Workers |-> IF cpid[w] \in Kids THEN made[cpid[w]] ELSE 0]
streamHolds == [w \in Workers |-> IF pc[w] = "stream" THEN file[w] ELSE 0]

Backend == INSTANCE BackendCall WITH
    phase <- callPhase, produced <- childMade, delivered <- streamHolds

Refinement == Backend!Spec
=============================================================================
