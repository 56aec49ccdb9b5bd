---------------------------- MODULE Idempotency ----------------------------
(***************************************************************************)
(* The idempotency middleware of financial writes                          *)
(* (src/middlewares/idempotency.ts): a record per (workspace, endpoint,    *)
(* key) is claimed by an insert before the handler runs, and settled with  *)
(* the response before the response goes out.  Here a Key stands for that  *)
(* triple, a Body for the hash of a request's body, and the handler for    *)
(* one transaction that commits or fails.                                  *)
(*                                                                         *)
(* A retry is another request with the same key, and may arrive at any     *)
(* time.  Faults names what may go wrong in a run.                         *)
(***************************************************************************)
EXTENDS Naturals, Sequences, FiniteSets

CONSTANTS
  Senders,      \* requests that may be in progress at one time
  Keys,
  Bodies,
  Faults,       \* what may go wrong
  MaxEffects    \* bound on the handlers that commit

AllFaults == {"fail", "crash", "unsettled", "sweep"}

ASSUME IdempotencyAssumption == Faults \subseteq AllFaults /\ MaxEffects \in Nat

VARIABLES
  record,    \* idempotency_records by key
  inside,    \* the requests in the middleware or in the handler
  effects,   \* what the handlers committed, in order; live until the key expires
  answers    \* the successful responses that went out

vars == <<record, inside, effects, answers>>

Effect   == [key : Keys, body : Bodies, owner : BOOLEAN, live : BOOLEAN]
Response == [key : Keys, body : Bodies, effect : Nat]
Record   == [state : {"IN_PROGRESS"}, body : Bodies]
              \union [state : {"COMPLETED"}, body : Bodies, effect : Nat]

Outside == [pc |-> "idle"]
Request ==
  {Outside} \union [pc : {"arrived", "taken"}, key : Keys, body : Bodies]
            \union [pc : {"running", "failed"}, key : Keys, body : Bodies, owner : BOOLEAN]
            \union [pc : {"done"}, key : Keys, body : Bodies, owner : BOOLEAN, effect : Nat]

TypeOK ==
  /\ DOMAIN record \subseteq Keys
  /\ \A k \in DOMAIN record : record[k] \in Record
  /\ inside \in [Senders -> Request]
  /\ effects \in Seq(Effect)
  /\ answers \subseteq Response

-----------------------------------------------------------------------------
Become(r, state) == inside' = [inside EXCEPT ![r] = state]

Put(k, row) ==
  record' = [x \in DOMAIN record \union {k} |-> IF x = k THEN row ELSE record[x]]

Drop(k) == record' = [x \in DOMAIN record \ {k} |-> record[x]]

InHandler == {"running", "failed", "done"}

(* The requests that run under the record of a key.                        *)
Owners(k) == {r \in Senders : inside[r].pc \in InHandler /\ inside[r].key = k /\ inside[r].owner}

Running(r, owner) ==
  [pc |-> "running", key |-> inside[r].key, body |-> inside[r].body, owner |-> owner]

-----------------------------------------------------------------------------
Init ==
  /\ record = << >>
  /\ inside = [r \in Senders |-> Outside]
  /\ effects = << >>
  /\ answers = {}

Send(r, k, b) ==
  /\ inside[r] = Outside
  /\ Become(r, [pc |-> "arrived", key |-> k, body |-> b])
  /\ UNCHANGED <<record, effects, answers>>

(* The insert: the unique index lets one of the requests with a key win.   *)
Claim(r) ==
  /\ inside[r].pc = "arrived"
  /\ inside[r].key \notin DOMAIN record
  /\ Put(inside[r].key, [state |-> "IN_PROGRESS", body |-> inside[r].body])
  /\ Become(r, Running(r, TRUE))
  /\ UNCHANGED <<effects, answers>>

Taken(r) ==
  /\ inside[r].pc = "arrived"
  /\ inside[r].key \in DOMAIN record
  /\ Become(r, [inside[r] EXCEPT !.pc = "taken"])
  /\ UNCHANGED <<record, effects, answers>>

(* The record is read after the insert failed.  If it has gone the request *)
(* runs, and has no record to its name; altered form: it thinks it has.    *)
Orphan_Owns(r) == Running(r, TRUE)

Orphan(r) == Running(r, FALSE)

Gone(k) == k \notin DOMAIN record

LookupGone(r) ==
  /\ inside[r].pc = "taken"
  /\ Gone(inside[r].key)
  /\ Become(r, Orphan(r))
  /\ UNCHANGED <<record, effects, answers>>

(* Altered form of Matches: the hash of the body is not compared.          *)
Matches_Anything(row, body) == TRUE

Matches(row, body) == row.body = body

LookupDone(r) ==
  LET k == inside[r].key
  IN /\ inside[r].pc = "taken"
     /\ k \in DOMAIN record
     /\ Matches(record[k], inside[r].body)
     /\ record[k].state = "COMPLETED"
     /\ answers' = answers \union {[key |-> k, body |-> inside[r].body,
                                    effect |-> record[k].effect]}
     /\ Become(r, Outside)
     /\ UNCHANGED <<record, effects>>

(* 422 for another body, 409 while the first request runs: neither runs.   *)
Refused(row, body) == ~Matches(row, body) \/ row.state = "IN_PROGRESS"

LookupRefused(r) ==
  LET k == inside[r].key
  IN /\ inside[r].pc = "taken"
     /\ k \in DOMAIN record
     /\ Refused(record[k], inside[r].body)
     /\ Become(r, Outside)
     /\ UNCHANGED <<record, effects, answers>>

-----------------------------------------------------------------------------
Commit(r) ==
  /\ inside[r].pc = "running"
  /\ Len(effects) < MaxEffects                                      \* bound
  /\ effects' = Append(effects, [key |-> inside[r].key, body |-> inside[r].body,
                                 owner |-> inside[r].owner, live |-> TRUE])
  /\ Become(r, [pc |-> "done", key |-> inside[r].key, body |-> inside[r].body,
                owner |-> inside[r].owner, effect |-> Len(effects) + 1])
  /\ UNCHANGED <<record, answers>>

Fail(r) ==
  /\ "fail" \in Faults
  /\ inside[r].pc = "running"
  /\ Become(r, [inside[r] EXCEPT !.pc = "failed"])
  /\ UNCHANGED <<record, effects, answers>>

Respond(r) ==
  answers' = answers \union {[key |-> inside[r].key, body |-> inside[r].body,
                              effect |-> inside[r].effect]}

Completed(row, effect) == [state |-> "COMPLETED", body |-> row.body, effect |-> effect]

(* res.json of the owner after a success: the update finds the row by key, *)
(* and fails, with nothing but a line in the log, when there is none.      *)
Settle(r) ==
  LET k == inside[r].key
  IN /\ inside[r].pc = "done"
     /\ IF inside[r].owner /\ k \in DOMAIN record
        THEN Put(k, Completed(record[k], inside[r].effect))
        ELSE UNCHANGED record
     /\ Respond(r)
     /\ Become(r, Outside)
     /\ UNCHANGED effects

(* Altered form of SettleFails: the claim is dropped when it cannot be     *)
(* settled.                                                                *)
SettleFails_Releases(r) ==
  /\ "unsettled" \in Faults
  /\ inside[r].pc = "done" /\ inside[r].owner
  /\ Drop(inside[r].key)
  /\ Respond(r)
  /\ Become(r, Outside)
  /\ UNCHANGED effects

(* The same when the database refuses: the response goes out all the same. *)
SettleFails(r) ==
  /\ "unsettled" \in Faults
  /\ inside[r].pc = "done" /\ inside[r].owner
  /\ Respond(r)
  /\ Become(r, Outside)
  /\ UNCHANGED <<record, effects>>

(* A response that is not a success: the claim is dropped.                 *)
Release(r) ==
  LET k == inside[r].key
  IN /\ inside[r].pc = "failed"
     /\ IF inside[r].owner /\ k \in DOMAIN record /\ record[k].state = "IN_PROGRESS"
        THEN Drop(k)
        ELSE UNCHANGED record
     /\ Become(r, Outside)
     /\ UNCHANGED <<effects, answers>>

(* The process dies, or the handler throws where nobody catches it.        *)
Crash(r) ==
  /\ "crash" \in Faults
  /\ inside[r] # Outside
  /\ Become(r, Outside)
  /\ UNCHANGED <<record, effects, answers>>

(* Altered form of Expired: completed records only.                        *)
Expired_WhenDone(k) == Owners(k) = {} /\ record[k].state = "COMPLETED"

(* sweepIdempotencyRecords: records expire after 24 hours, long after any  *)
(* request that could still own them.  The effects under the key lie       *)
(* behind its expiry from then on.                                         *)
Expired(k) == Owners(k) = {}

Behind(k) ==
  [i \in DOMAIN effects |->
     IF effects[i].key = k THEN [effects[i] EXCEPT !.live = FALSE] ELSE effects[i]]

Sweep(k) ==
  /\ "sweep" \in Faults
  /\ k \in DOMAIN record
  /\ Expired(k)
  /\ Drop(k)
  /\ effects' = Behind(k)
  /\ UNCHANGED <<inside, answers>>

-----------------------------------------------------------------------------
Next ==
  \/ \E r \in Senders, k \in Keys, b \in Bodies : Send(r, k, b)
  \/ \E r \in Senders :
       \/ Claim(r) \/ Taken(r)
       \/ LookupGone(r) \/ LookupDone(r) \/ LookupRefused(r)
       \/ Commit(r) \/ Fail(r)
       \/ Settle(r) \/ SettleFails(r) \/ Release(r)
       \/ Crash(r)
  \/ \E k \in Keys : Sweep(k)

Spec == Init /\ [][Next]_vars

(* The hourly maintenance job runs for as long as the server does.         *)
FairSpec == Spec /\ \A k \in Keys : WF_vars(Sweep(k))

-----------------------------------------------------------------------------
(* Properties.                                                             *)

Committed(e, k, b) ==
  e \in 1 .. Len(effects) /\ effects[e].key = k /\ effects[e].body = b

(* At most one request runs under the record of a key.                     *)
OneOwner == \A k \in Keys : \A r, s \in Owners(k) : r = s

(* Whatever goes wrong, a client that is told of a success is told of one  *)
(* that is its own: of its key and of its body.                            *)
AnswersAreFaithful ==
  \A a \in answers : Committed(a.effect, a.key, a.body)

(* Parts of the inductive invariant: an owner holds its record, which is   *)
(* in progress for its body, and what is recorded as done was committed.   *)
OwnersHoldRecords ==
  \A k \in Keys : \A r \in Owners(k) :
    k \in DOMAIN record /\ record[k] = [state |-> "IN_PROGRESS", body |-> inside[r].body]

DoneIsCommitted ==
  \A r \in Senders : inside[r].pc = "done" => Committed(inside[r].effect, inside[r].key, inside[r].body)

CompletedIsCommitted ==
  \A k \in DOMAIN record :
    record[k].state = "COMPLETED" => Committed(record[k].effect, k, record[k].body)

(* Until a key expires at most one of the requests that ran under its      *)
(* record has committed, however many were sent, failed, died or could not *)
(* be settled: what the middleware promises of a client that retries.      *)
LiveEffects(k) ==
  {i \in 1 .. Len(effects) : effects[i].key = k /\ effects[i].owner /\ effects[i].live}

OwnersActOnce == \A k \in Keys : \A i, j \in LiveEffects(k) : i = j

(* While such an effect is live the record stands, and no other request    *)
(* can come to run under it.                                               *)
EffectsHoldRecords ==
  \A k \in Keys : LiveEffects(k) # {} =>
    k \in DOMAIN record /\ \A r \in Owners(k) : inside[r].pc = "done"

IInv ==
  /\ TypeOK
  /\ OneOwner
  /\ OwnersHoldRecords
  /\ OwnersActOnce
  /\ EffectsHoldRecords
  /\ DoneIsCommitted
  /\ CompletedIsCommitted
  /\ AnswersAreFaithful

(* "A client that times out and retries must not create a second entry."   *)
EffectOnce ==
  \A i, j \in 1 .. Len(effects) : effects[i].key = effects[j].key => i = j

(* A key whose request died is free again in the end.                      *)
Stuck(k) == k \in DOMAIN record /\ record[k].state = "IN_PROGRESS" /\ Owners(k) = {}

StuckKeysAreFreed == \A k \in Keys : Stuck(k) ~> ~Stuck(k)
=============================================================================
