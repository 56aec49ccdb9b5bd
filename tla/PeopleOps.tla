------------------------------ MODULE PeopleOps ------------------------------
(***************************************************************************)
(* What people ask for and what is decided about their days: leave         *)
(* (leave.service.ts), overtime, work reports and waived flags             *)
(* (people-ops.service.ts), and the rows that sum up finished days         *)
(* (rollup.service.ts), beside the sessions of WorkTime.                   *)
(*                                                                         *)
(* A decision reads the request and then claims it, while it is pending    *)
(* and of the version that was read.  Half days, kinds of leave, the text  *)
(* of reports and billable time are left out.                              *)
(***************************************************************************)
EXTENDS WorkTime

CONSTANTS
  LeaveSpans,   \* first and last days clients ask leave for
  Minutes,      \* lengths of overtime clients ask for and approvers grant
  MaxLeaves     \* bound on the requests for leave

ASSUME PeopleOpsAssumption ==
  LeaveSpans \subseteq Days \X Days /\ Minutes \subseteq Nat \ {0} /\ MaxLeaves \in Nat

VARIABLES
  leave,     \* leave_requests in the order they were written
  booked,    \* leave_days
  overtime,  \* overtime_requests in the order they were written
  report,    \* work_reports by workspace, user and day
  dayRow     \* attendance_days by workspace, user and day

deskVars   == <<leave, booked, overtime, report, dayRow>>
peopleVars == <<vars, deskVars>>

Approvals == {"PENDING", "APPROVED", "REJECTED", "WITHDRAWN"}
Cell      == Workspaces \X Users \X Days

Leave    == [user : Users, ws : Workspaces, span : LeaveSpans, status : Approvals, version : Nat]
LeaveDay == [leave : 1 .. MaxLeaves, user : Users, ws : Workspaces, day : Days]
Overtime == [user : Users, ws : Workspaces, day : Days, asked : Minutes, granted : Minutes \union {0},
             status : Approvals, version : Nat]
Report   == [content : Nat, status : Approvals, auto : BOOLEAN, version : Nat, seen : Nat]
DayRow   == [status : {"HOLIDAY", "NON_WORKING", "ON_LEAVE", "ABSENT", "PARTIAL", "PRESENT"},
             worked : Nat, raw : Nat, counted : Nat, late : BOOLEAN]

-----------------------------------------------------------------------------
(* Leave.                                                                  *)
WorkingDays(w, u, span) == {d \in span[1] .. span[2] : Resolved(w, u, d).working}
BookedDays(w, u) == {b.day : b \in {x \in booked : x.ws = w /\ x.user = u}}

(* requestLeave: the search for a clash only spares the person a wait.     *)
RequestLeave(u, w, span) ==
  LET days == WorkingDays(w, u, span)
  IN  /\ Allowed("leave") /\ Member(u, w) /\ Len(leave) < MaxLeaves
      /\ days # {} /\ days \intersect BookedDays(w, u) = {}
      /\ leave' = Append(leave, [user |-> u, ws |-> w, span |-> span, status |-> "PENDING",
                                 version |-> 0])
      /\ Asked
      /\ UNCHANGED <<now, shiftVars, entry, policyVars, jobVars, req, booked, overtime, report, dayRow>>

WithdrawLeave(u, k) ==
  /\ Allowed("leave") /\ leave[k].user = u /\ leave[k].status = "PENDING"
  /\ leave' = [leave EXCEPT ![k].status = "WITHDRAWN"]
  /\ Asked
  /\ UNCHANGED <<now, shiftVars, entry, policyVars, jobVars, req, booked, overtime, report, dayRow>>

(* Deciding.  The days it takes are worked out before the transaction.     *)
ReviewLeave(r, a, k, approve) ==
  /\ Ready(r, "leave") /\ May(a, leave[k].ws, "APPROVE_LEAVE") /\ leave[k].status = "PENDING"
  /\ Wait(r, [pc |-> "leave", leave |-> k, version |-> leave[k].version,
              status |-> IF approve THEN "APPROVED" ELSE "REJECTED",
              days |-> IF approve THEN WorkingDays(leave[k].ws, leave[k].user, leave[k].span) ELSE {}])
  /\ UNCHANGED <<now, shiftVars, entry, policyVars, jobVars, deskVars>>

(* The claim every decision makes, and an altered form without it.         *)
Claims_Anyhow(row, version) == TRUE
Claims(row, version) == row.status = "PENDING" /\ row.version = version

(* leave_days: a person is on leave once a day; otherwise the decision is  *)
(* rolled back.  And an altered form without the constraint.               *)
MayBook_Again(w, u, days) == TRUE
MayBook(w, u, days) == days \intersect BookedDays(w, u) = {}

FinishReviewLeave(r) ==
  LET q == req[r]
      l == leave[q.leave]
  IN  /\ q.pc = "leave"
      /\ IF ~Claims(l, q.version) \/ ~MayBook(l.ws, l.user, q.days)
         THEN Refused(r) /\ UNCHANGED deskVars
         ELSE /\ leave' = [leave EXCEPT ![q.leave].status = q.status, ![q.leave].version = @ + 1]
              /\ booked' = booked \union {[leave |-> q.leave, user |-> l.user, ws |-> l.ws, day |-> d] :
                                            d \in q.days}
              /\ Finish(r)
              /\ UNCHANGED <<now, shiftVars, entry, policyVars, jobVars, overtime, report, dayRow>>

(* cancelApprovedLeave: that it was approved is read before.               *)
CancelLeave(r, a, k) ==
  /\ Ready(r, "leave")
  /\ leave[k].user = a \/ May(a, leave[k].ws, "APPROVE_LEAVE")
  /\ leave[k].status = "APPROVED"
  /\ Wait(r, [pc |-> "cancel", leave |-> k])
  /\ UNCHANGED <<now, shiftVars, entry, policyVars, jobVars, deskVars>>

FinishCancelLeave(r) ==
  /\ req[r].pc = "cancel"
  /\ booked' = {b \in booked : b.leave # req[r].leave}
  /\ leave' = [leave EXCEPT ![req[r].leave].status = "WITHDRAWN"]
  /\ Finish(r)
  /\ UNCHANGED <<now, shiftVars, entry, policyVars, jobVars, overtime, report, dayRow>>

-----------------------------------------------------------------------------
(* Overtime: overtime_requests_one_pending allows one open request a day,  *)
(* and an approver grants at most what was asked.                          *)
RequestOvertime(u, w, day, n) ==
  /\ Allowed("overtime") /\ Member(u, w)
  /\ ~\E k \in DOMAIN overtime : /\ overtime[k].user = u /\ overtime[k].ws = w /\ overtime[k].day = day
                                 /\ overtime[k].status = "PENDING"
  /\ overtime' = Append(overtime, [user |-> u, ws |-> w, day |-> day, asked |-> n, granted |-> 0,
                                   status |-> "PENDING", version |-> 0])
  /\ Asked
  /\ UNCHANGED <<now, shiftVars, entry, policyVars, jobVars, req, leave, booked, report, dayRow>>

ReviewOvertime(r, a, k, n, approve) ==
  /\ Ready(r, "overtime") /\ May(a, overtime[k].ws, "APPROVE_OVERTIME")
  /\ overtime[k].status = "PENDING"
  /\ Wait(r, [pc |-> "overtime", row |-> k, version |-> overtime[k].version,
              status |-> IF approve THEN "APPROVED" ELSE "REJECTED",
              granted |-> IF approve THEN Min({n, overtime[k].asked}) ELSE 0])
  /\ UNCHANGED <<now, shiftVars, entry, policyVars, jobVars, deskVars>>

FinishReviewOvertime(r) ==
  LET q == req[r]
  IN  /\ q.pc = "overtime"
      /\ IF ~Claims(overtime[q.row], q.version) THEN Refused(r) /\ UNCHANGED deskVars
         ELSE /\ overtime' = [overtime EXCEPT
                   ![q.row].status = q.status, ![q.row].granted = q.granted,
                   ![q.row].version = @ + 1]
              /\ Finish(r)
              /\ UNCHANGED <<now, shiftVars, entry, policyVars, jobVars, leave, booked, report, dayRow>>

-----------------------------------------------------------------------------
(* Work reports.  Submitting one again replaces what it says and opens it  *)
(* again, even when it was approved; who may approve reports approves the  *)
(* own one by submitting it.                                               *)
Submitted(x) == IF x \in DOMAIN report THEN report[x] ELSE [content |-> 0, version |-> -1]

SubmitWorkReport(u, w, day) ==
  LET x    == <<w, u, day>>
      auto == May(u, w, "APPROVE_WORK_REPORT")
  IN  /\ Allowed("report") /\ Member(u, w)
      /\ report' = [y \in DOMAIN report \union {x} |->
           IF y # x THEN report[y]
           ELSE [content |-> Submitted(x).content + 1, version |-> Submitted(x).version + 1,
                 status |-> IF auto THEN "APPROVED" ELSE "PENDING", auto |-> auto, seen |-> 0]]
      /\ Asked
      /\ UNCHANGED <<now, shiftVars, entry, policyVars, jobVars, req, leave, booked, overtime, dayRow>>

ReviewWorkReport(r, a, x, approve) ==
  /\ Ready(r, "report") /\ May(a, x[1], "APPROVE_WORK_REPORT") /\ report[x].status = "PENDING"
  /\ Wait(r, [pc |-> "report", key |-> x, version |-> report[x].version, seen |-> report[x].content,
              status |-> IF approve THEN "APPROVED" ELSE "REJECTED"])
  /\ UNCHANGED <<now, shiftVars, entry, policyVars, jobVars, deskVars>>

FinishReviewWorkReport(r) ==
  LET q == req[r]
  IN  /\ q.pc = "report"
      /\ IF ~Claims(report[q.key], q.version) THEN Refused(r) /\ UNCHANGED deskVars
         ELSE /\ report' = [report EXCEPT
                   ![q.key].status = q.status, ![q.key].seen = q.seen, ![q.key].version = @ + 1]
              /\ Finish(r)
              /\ UNCHANGED <<now, shiftVars, entry, policyVars, jobVars, leave, booked, overtime, dayRow>>

(* waiveFlag claims the flag while it is active.                           *)
WaiveFlag(a, f) ==
  /\ Allowed("waive") /\ May(a, f.ws, "WAIVE_ATTENDANCE_FLAG") /\ f.status = "ACTIVE"
  /\ flag' = (flag \ {f}) \union {[f EXCEPT !.status = "WAIVED"]}
  /\ Asked
  /\ UNCHANGED <<now, session, presence, entry, policyVars, jobVars, req, deskVars>>

-----------------------------------------------------------------------------
(* recomputeDay, which the scheduler runs for the day before and a manager *)
(* for any: sessions, leave and settings are read for everyone at once;    *)
(* then, person after person, the row is written whole and the flags that  *)
(* follow from it are raised.  Nothing refuses a row read long ago.        *)
ClosedOn(w, u, day) ==
  {s \in DOMAIN session : /\ session[s].ws = w /\ session[s].user = u /\ session[s].day = day
                          /\ ~Open(s)}

First(sessions) == CHOOSE s \in sessions : \A t \in sessions : session[s].in <= session[t].in

(* Lateness of the first arrival.  Where that one had no scheduled start,  *)
(* a later arrival the query returned before it may have left its own.     *)
LateFlags(sessions) ==
  LET due  == {s \in sessions : session[s].due # None}
      late == {session[s].in > session[s].due : s \in due}
  IN  IF sessions # {} /\ First(sessions) \in due
      THEN {session[First(sessions)].in > session[First(sessions)].due}
      ELSE {FALSE} \union late

AggregateSessions(w, u, day, late) ==
  LET mine == ClosedOn(w, u, day)
  IN  [worked |-> MapThenSumSet(LAMBDA s : session[s].worked, mine),
       raw    |-> MapThenSumSet(LAMBDA s : session[s].raw, mine), late |-> late]

RecomputeDay(r, a, w, day) ==
  /\ Ready(r, "rollup")
  /\ May(a, w, "MANAGE_ATTENDANCE") \/ day = DayOf(now) - 1
  /\ \E late \in [Users -> BOOLEAN] :
       /\ \A u \in Users : late[u] \in LateFlags(ClosedOn(w, u, day))
       /\ Wait(r, [pc |-> "rollup", ws |-> w, day |-> day, left |-> {u \in Users : Member(u, w)},
                   sums |-> [u \in Users |-> AggregateSessions(w, u, day, late[u])],
                   away |-> {u \in Users : day \in BookedDays(w, u)},
                   overtime |-> policy[w].overtime, flags |-> policy[w].flags, raise |-> {}])
  /\ UNCHANGED <<now, shiftVars, entry, policyVars, jobVars, deskVars>>

(* classify: the order matters.                                            *)
Classify(eff, sum, away) ==
  IF eff.holiday THEN "HOLIDAY"
  ELSE IF ~eff.working THEN "NON_WORKING"
  ELSE IF sum.worked = 0 THEN IF away THEN "ON_LEAVE" ELSE "ABSENT"
  ELSE IF sum.worked < eff.expected THEN "PARTIAL" ELSE "PRESENT"

(* Of several requests granted for a day, the query returns any.           *)
Granted(w, u, day) ==
  LET mine == {k \in DOMAIN overtime : /\ overtime[k].ws = w /\ overtime[k].user = u
                                       /\ overtime[k].day = day /\ overtime[k].status = "APPROVED"}
  IN  IF mine = {} THEN {0} ELSE {overtime[k].granted : k \in mine}

WriteDay(r, u) ==
  LET q      == req[r]
      sum    == q.sums[u]
      status == Classify(Resolved(q.ws, u, q.day), sum, u \in q.away)
      types  == {t \in {"ABSENT"} : status = "ABSENT"} \union {t \in {"LATE_IN"} : sum.late}
  IN  /\ q.raise = {} /\ u \in q.left
      /\ \E granted \in Granted(q.ws, u, q.day) :
           dayRow' = [x \in DOMAIN dayRow \union {<<q.ws, u, q.day>>} |->
             IF x # <<q.ws, u, q.day>> THEN dayRow[x]
             ELSE [status |-> status, worked |-> sum.worked, raw |-> sum.raw, late |-> sum.late,
                   counted |-> IF q.overtime THEN sum.raw ELSE Min({sum.raw, granted})]]
      /\ req' = [req EXCEPT
           ![r].left = @ \ {u},
           ![r].raise = IF ~q.flags THEN {}
                        ELSE {[user |-> u, ws |-> q.ws, day |-> q.day, session |-> 0, type |-> t,
                               status |-> "ACTIVE"] : t \in types}]
      /\ UNCHANGED <<now, shiftVars, entry, policyVars, jobVars, asked, leave, booked, overtime, report>>

RaiseFlags(r) ==
  /\ req[r].raise # {}
  /\ flag' = Raised(req[r].raise)
  /\ req' = [req EXCEPT ![r].raise = {}]
  /\ UNCHANGED <<now, session, presence, entry, policyVars, jobVars, asked, deskVars>>

DayWritten(r) ==
  /\ req[r].left = {} /\ req[r].raise = {}
  /\ Finish(r)
  /\ UNCHANGED <<now, shiftVars, entry, policyVars, jobVars, deskVars>>

-----------------------------------------------------------------------------
(* The routes of /attendance.                                              *)
Requesting ==
  \E u \in Users, w \in Workspaces :
    \/ \E span \in LeaveSpans : RequestLeave(u, w, span)
    \/ \E day \in Days, n \in Minutes : RequestOvertime(u, w, day, n)
    \/ \E day \in Days : SubmitWorkReport(u, w, day)

Deciding ==
  \E r \in Requests, a \in Users :
    \/ \E k \in DOMAIN leave : CancelLeave(r, a, k) \/ \E yes \in BOOLEAN : ReviewLeave(r, a, k, yes)
    \/ \E k \in DOMAIN overtime, n \in Minutes \union {0}, yes \in BOOLEAN : ReviewOvertime(r, a, k, n, yes)
    \/ \E x \in DOMAIN report, yes \in BOOLEAN : ReviewWorkReport(r, a, x, yes)

Settling ==
  \E a \in Users :
    \/ \E k \in DOMAIN leave : WithdrawLeave(a, k)
    \/ \E f \in flag : WaiveFlag(a, f)

SummingUp ==
  \E r \in Requests :
    \/ \E a \in Users, w \in Workspaces, day \in Days : RecomputeDay(r, a, w, day)
    \/ req[r].pc = "rollup" /\ (RaiseFlags(r) \/ DayWritten(r) \/ \E u \in Users : WriteDay(r, u))

Decided ==
  \E r \in Requests : \/ FinishReviewLeave(r) \/ FinishCancelLeave(r)
                      \/ FinishReviewOvertime(r) \/ FinishReviewWorkReport(r)

PeopleInit ==
  /\ Init
  /\ leave = <<>> /\ booked = {} /\ overtime = <<>> /\ report = <<>> /\ dayRow = <<>>

PeopleNext ==
  (Next /\ UNCHANGED deskVars) \/ Requesting \/ Deciding \/ Settling \/ SummingUp \/ Decided

PeopleSpec == PeopleInit /\ [][PeopleNext]_peopleVars

-----------------------------------------------------------------------------
(* The days booked as leave are those of approved requests, within their   *)
(* range, and a person is off once a day: withdrawals, cancellations and   *)
(* two approvals of overlapping requests race for the same days.           *)
PeopleTypeOK ==
  /\ \A k \in DOMAIN leave : leave[k] \in Leave
  /\ booked \subseteq LeaveDay
  /\ \A k \in DOMAIN overtime : overtime[k] \in Overtime
  /\ DOMAIN report \subseteq Cell /\ \A x \in DOMAIN report : report[x] \in Report
  /\ DOMAIN dayRow \subseteq Cell /\ \A x \in DOMAIN dayRow : dayRow[x] \in DayRow

LeaveMatches ==
  /\ PeopleTypeOK
  /\ \A b \in booked : LET l == leave[b.leave]
                       IN  /\ l.status = "APPROVED" /\ l.user = b.user /\ l.ws = b.ws
                           /\ b.day \in l.span[1] .. l.span[2]
  /\ \A b, c \in booked : b.ws = c.ws /\ b.user = c.user /\ b.day = c.day => b = c

(* A decision stands: what was refused or withdrawn stays so, approved     *)
(* leave can only be cancelled, approved overtime keeps what was granted,  *)
(* and a report decided by another is what the reviewer read, until its    *)
(* author submits it again.                                                *)
DecisionsStand ==
  [][/\ \A k \in DOMAIN leave :
          \/ leave[k].status = "PENDING" \/ leave'[k] = leave[k]
          \/ leave[k].status = "APPROVED" /\ leave'[k].status = "WITHDRAWN"
     /\ \A k \in DOMAIN overtime : overtime[k].status = "PENDING" \/ overtime'[k] = overtime[k]
     /\ \A x \in DOMAIN report' :
          report'[x].status # "PENDING" /\ ~report'[x].auto => report'[x].seen = report'[x].content
    ]_peopleVars

(* A flag is raised once for what it is about and never goes away: it can  *)
(* be waived, and a waived flag is not raised again by a late recompute, a *)
(* repeated clock-out or the sweep.                                        *)
FlagsSettle ==
  [][/\ \A f \in flag : f \in flag' \/ (f.status = "ACTIVE" /\ [f EXCEPT !.status = "WAIVED"] \in flag')
     /\ \A f, g \in flag' : SameFlag(f, g) => f = g]_peopleVars
=============================================================================
