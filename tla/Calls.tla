------------------------------- MODULE Calls -------------------------------
(***************************************************************************)
(* Requests in flight.  A handler that decides on what it read and writes  *)
(* later is several steps; what it read, and how far it has come, is kept  *)
(* in req.  A process that dies, or a step that throws, ends a request     *)
(* where it stands: what it has written stays.                             *)
(***************************************************************************)
EXTENDS Naturals

CONSTANTS
  None,      \* no value
  Requests,  \* requests that may be in flight at once
  Loads      \* what clients may ask for in all: kinds of request, and how many;
             \* with it, how things stand when they start

VARIABLES
  req,    \* the requests between two of their steps
  asked   \* what clients may still ask for

callVars == <<req, asked>>

ASSUME CallsAssumption == \A l \in Loads : l.left \in Nat

Idle == [pc |-> "idle"]

CallsInit == /\ req = [r \in Requests |-> Idle]
             /\ asked \in Loads

(* A request of this kind arrives, in the first free place, and stops      *)
(* before the step next.                                                   *)
Free(r) == req[r] = Idle /\ r = CHOOSE q \in Requests : req[q] = Idle

Wanted(r, kinds) == Free(r) /\ asked.left > 0 /\ asked.of \cap kinds # {}

Ask(r, kind, next) ==
  /\ Wanted(r, {kind})
  /\ asked' = [asked EXCEPT !.left = @ - 1]
  /\ req' = [req EXCEPT ![r] = next]

(* A request that is answered in the step it arrives in: its write names a *)
(* row and fails when that has gone, so that only what the caller may do   *)
(* could be stale by then, and no property is about that.                  *)
AskOnce(r, kind) == Ask(r, kind, Idle)

At(r, pc) == req[r].pc = pc

GoOn(r, next) == /\ req' = [req EXCEPT ![r] = next]
                 /\ UNCHANGED asked

Answer(r) == GoOn(r, Idle)

(* A request ends between two steps.                                       *)
BreakOff(r) == req[r] # Idle /\ Answer(r)
=============================================================================
