----------------------------- MODULE BackendCall -----------------------------
(***************************************************************************)
(* What rp_invokeBackend (src/sp_dispatch.c) may rely on when it calls a   *)
(* backend: a call ends once, with NULL or with a stream that holds all    *)
(* the backend had produced for this call, and the stream stays as it is   *)
(* until the caller has closed it.  The answer is counted in chunks.       *)
(***************************************************************************)
EXTENDS Naturals

CONSTANT Workers   \* threads that may be inside a call

VARIABLES
    phase,       \* phase[w]: idle, busy, or the outcome of w's call
    produced,    \* produced[w]: chunks the backend has produced for w's call
    delivered    \* delivered[w]: chunks in the stream handed to w

vars == <<phase, produced, delivered>>

Init ==
    /\ phase = [w \in Workers |-> "idle"]
    /\ produced = [w \in Workers |-> 0]
    /\ delivered = [w \in Workers |-> 0]

Call(w) ==
    /\ phase[w] = "idle"
    /\ phase' = [phase EXCEPT ![w] = "busy"]
    /\ UNCHANGED <<produced, delivered>>

\* The arguments are refused before anything is started.
Refuse(w) ==
    /\ phase[w] = "idle"
    /\ phase' = [phase EXCEPT ![w] = "null"]
    /\ UNCHANGED <<produced, delivered>>

Produce(w) ==
    /\ phase[w] = "busy"
    /\ produced' = [produced EXCEPT ![w] = @ + 1]
    /\ UNCHANGED <<phase, delivered>>

Answer(w) ==
    /\ phase[w] = "busy"
    /\ phase' = [phase EXCEPT ![w] = "stream"]
    /\ delivered' = [delivered EXCEPT ![w] = produced[w]]
    /\ UNCHANGED produced

Fail(w) ==
    /\ phase[w] = "busy"
    /\ phase' = [phase EXCEPT ![w] = "null"]
    /\ produced' = [produced EXCEPT ![w] = 0]
    /\ UNCHANGED delivered

\* The caller has closed the stream, or has taken note of NULL.
Done(w) ==
    /\ phase[w] \in {"stream", "null"}
    /\ phase' = [phase EXCEPT ![w] = "idle"]
    /\ produced' = [produced EXCEPT ![w] = 0]
    /\ delivered' = [delivered EXCEPT ![w] = 0]

\* The hosting process ends, and every call with it.
Die ==
    /\ phase' = [w \in Workers |-> "dead"]
    /\ produced' = [w \in Workers |-> 0]
    /\ delivered' = [w \in Workers |-> 0]

Next ==
    \/ \E w \in Workers :
          \/ Call(w) \/ Refuse(w) \/ Produce(w)
          \/ Answer(w) \/ Fail(w) \/ Done(w)
    \/ Die

Spec == Init /\ [][Next]_vars

\* A call that has started ends.
FairSpec == Spec /\ \A w \in Workers : WF_vars(Answer(w) \/ Fail(w))
=============================================================================
