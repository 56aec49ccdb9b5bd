------------------------------ MODULE Notices ------------------------------
(***************************************************************************)
(* Notifications: jobs in the queue (src/config/queues.ts), the worker     *)
(* that turns them into rows (src/workers/notifications.worker.ts) and     *)
(* what people do with the rows (src/modules/notifications).               *)
(*                                                                         *)
(* The queue delivers a job again when the worker fails or dies before the *)
(* job is acknowledged, Attempts times in all.                             *)
(***************************************************************************)
EXTENDS Calls, Sequences, FiniteSets, SequencesExt

CONSTANTS
  Attempts,   \* attempts of defaultJobOptions
  MaxJobs,    \* bound on jobs
  MaxFaults   \* bound on failures of the worker

VARIABLES
  job,     \* jobs of the notifications queue, in the order they were added
  notice,  \* rows of notifications
  faults   \* failures of the worker so far

noticeVars == <<job, notice, faults>>

ASSUME NoticesAssumption == {Attempts, MaxJobs, MaxFaults} \subseteq Nat

NoticesInit == job = <<>> /\ notice = <<>> /\ faults = 0

(* The types that come with a groupKey; about is what the key is made of.  *)
Grouped == {"TASK_ASSIGNMENT_REQUESTED", "TASK_ASSIGNMENT_DECIDED",
            "TASK_REPORT_SUBMITTED", "TASK_REPORT_DECIDED"}

Job(to, type, about, task) ==
  [to |-> to, type |-> type, about |-> about, task |-> task, tries |-> 0, state |-> "waiting"]

(* dispatch: fire and forget.  What was decided stands when the queue does *)
(* not answer or the process ends first, and then some are never told.     *)
(* What was asked bounds the jobs there are.                               *)
Dispatch(jobs) ==
  /\ \E taken \in SUBSET jobs : /\ Len(job) + Cardinality(taken) <= asked.jobs
                               /\ job' = job \o SetToSeq(taken)
  /\ UNCHANGED <<notice, faults>>

SameGroup(n, j) == n.type \in Grouped /\ n.to = j.to /\ n.type = j.type /\ n.about = j.about

(* The upsert on (userId, type, groupKey), or the plain insert.            *)
Written(j) ==
  IF \E n \in DOMAIN notice : SameGroup(notice[n], job[j])
  THEN [n \in DOMAIN notice |-> IF SameGroup(notice[n], job[j]) THEN [notice[n] EXCEPT !.read = FALSE]
                                ELSE notice[n]]
  ELSE Append(notice, [to |-> job[j].to, type |-> job[j].type, about |-> job[j].about,
                       task |-> job[j].task, read |-> FALSE, recent |-> TRUE])

Inserts(j) == ~\E n \in DOMAIN notice : SameGroup(notice[n], job[j])

(* Mutant: the options of the queue leave a job one attempt.               *)
Retried_Never(j) == [job[j] EXCEPT !.tries = @ + 1, !.state = "failed"]

Retried(j) == [job[j] EXCEPT !.tries = @ + 1,
                             !.state = IF job[j].tries + 1 < Attempts THEN "waiting" ELSE "failed"]

(* The worker takes a job, at a time when there are these tasks.  A row    *)
(* about a task that has gone cannot be inserted, and the job is dropped.  *)
Deliver(j, there) ==
  /\ job[j].state = "waiting"
  /\ IF Inserts(j) /\ job[j].task \notin there
     THEN job' = [job EXCEPT ![j].state = "dropped"] /\ UNCHANGED notice
     ELSE job' = [job EXCEPT ![j].state = "done"] /\ notice' = Written(j)
  /\ UNCHANGED faults

(* It fails, before it has written the row or after.                       *)
DeliverFails(j, there) ==
  /\ job[j].state = "waiting" /\ faults < MaxFaults
  /\ faults' = faults + 1
  /\ job' = [job EXCEPT ![j] = Retried(j)]
  /\ notice' \in {notice} \union IF job[j].task \in there THEN {Written(j)} ELSE {}

(* markAllRead, deleteNotification and the passing of a cooldown.          *)
MarkAllRead(u) ==
  /\ \E n \in DOMAIN notice : notice[n].to = u /\ ~notice[n].read
  /\ notice' = [n \in DOMAIN notice |-> IF notice[n].to = u THEN [notice[n] EXCEPT !.read = TRUE] ELSE notice[n]]
  /\ UNCHANGED <<job, faults>>

DeleteNotice(n) == notice' = RemoveAt(notice, n) /\ UNCHANGED <<job, faults>>

CooldownPasses ==
  /\ \E n \in DOMAIN notice : notice[n].recent
  /\ notice' = [n \in DOMAIN notice |-> [notice[n] EXCEPT !.recent = FALSE]]
  /\ UNCHANGED <<job, faults>>

-----------------------------------------------------------------------------
(* However often a job is delivered, whoever it is for is told once: no    *)
(* two rows are about the same event.                                      *)
ToldOnce ==
  \A m, n \in DOMAIN notice : m # n => ~SameGroup(notice[m], notice[n])
=============================================================================
