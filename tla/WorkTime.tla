------------------------------ MODULE WorkTime ------------------------------
(***************************************************************************)
(* Attendance: work sessions, presence, timers and time entries, the       *)
(* policy they are measured against (src/modules/time-tracking,            *)
(* src/modules/attendance) and the scheduler that ends forgotten sessions  *)
(* (src/jobs/attendanceScheduler.ts).                                      *)
(*                                                                         *)
(* Instants are numbers, DayLength of them to a business day, in the zone  *)
(* of the workspace.  A handler that decides on what it read before its    *)
(* transaction is two steps, the reading and the writing; what it read is  *)
(* kept in req.  Constraints of the database refuse the writing step.      *)
(***************************************************************************)
EXTENDS Integers, Sequences, FiniteSets, FiniteSetsExt, SequencesExt, Permissions

CONSTANTS
  None,         \* no value
  Users, Workspaces,
  RoleIn,       \* the role of each user in each workspace, None for no member
  Requests,     \* requests that may be between their reading and their writing
  DayLength,    \* instants in a business day
  CloseGrace,   \* AUTO_CLOSE_GRACE_MINUTES
  Ceiling,      \* MAX_SESSION_MINUTES
  MaxTime,      \* bound on the clock
  MaxSessions, MaxIntervals,  \* bounds on rows
  MaxCrashes,   \* bound on the crashes of the scheduler
  Hours,        \* the working hours clients put in force
  Policies,     \* the attendance settings clients choose
  StartPolicy, StartHours,  \* those in force at the start
  Sites,        \* places a workspace may approve
  Positions,    \* where a client says it is: a site, the legacy fence, elsewhere, nowhere
  JobSites,     \* who may clock in where a task of theirs is: pairs of a user and a site
  Ranges,       \* the spans of time clients enter by hand
  Statuses,     \* presence statuses clients set
  EntryIds,     \* identifiers of time entries
  Loads         \* what clients may ask for in all: kinds of request, and how many

Instants == 0 .. MaxTime
Days     == 0 .. MaxTime \div DayLength

(* createScheduleSchema: a shift whose end is not after its start crosses  *)
(* midnight.  A user of None makes it the default of the workspace.        *)
HoursType ==
  [user : Users \union {None}, days : SUBSET Days, start : 0 .. DayLength - 1, end : 0 .. DayLength - 1,
   grace : Nat, expected : Nat, breakPaid : BOOLEAN, window : {None} \union (Nat \X Nat),
   outFrom : Nat \union {None}]

Fences == {"OFF", "WARN", "ENFORCE"}

(* attendanceSettingsSchema and attendanceSettingsPatchSchema.             *)
PolicyType ==
  [enforceWindow : BOOLEAN, legacyWindow : {None} \union (Nat \X Nat), legacyFence : BOOLEAN,
   fence : Fences, jobSites : BOOLEAN, flags : BOOLEAN, overtime : BOOLEAN]

PresenceStatuses == {"AVAILABLE", "BUSY", "BREAK", "LUNCH", "OFFLINE"}
AllOperations ==
  {"clockIn", "clockOut", "closeAnywhere", "manual", "adjust", "presence", "timer", "entry", "lock",
   "hours", "holiday", "policy", "site", "sweep", "leave", "overtime", "report", "rollup", "waive"}

ASSUME WorkTimeAssumption ==
  /\ RoleIn \in [Workspaces -> [Users -> WorkspaceRoles \union {None}]]
  /\ None \notin WorkspaceRoles \union Users \union PresenceStatuses \union Nat
  /\ DayLength \in Nat \ {0} /\ {CloseGrace, Ceiling, MaxTime, MaxSessions, MaxIntervals} \subseteq Nat
  /\ MaxCrashes \in Nat
  /\ \A h \in Hours \union {StartHours} : h \in HoursType
  /\ Policies \union {StartPolicy} \subseteq PolicyType
  /\ Ranges \subseteq {p \in Instants \X Instants : p[1] < p[2]}
  /\ Statuses \subseteq PresenceStatuses
  /\ Loads \subseteq [of : SUBSET AllOperations, left : Nat]

VARIABLES
  now,       \* the instant it is
  session,   \* work_sessions in the order they were written
  presence,  \* work_session_presence in the order they were written
  entry,     \* time_entries that exist, by identifier
  flag,      \* attendance_flags
  hours,     \* work_schedules of each workspace in the order they were written
  holiday,   \* holidays of each workspace
  policy,    \* attendance_settings, with the older columns of workspaces
  site,      \* attendance_sites in use, by workspace
  sweep,     \* what the running tick still has to close
  crashes,   \* crashes of the scheduler so far
  req,       \* the requests between their reading and their writing
  asked      \* what clients may still ask for

shiftVars  == <<session, presence, flag>>
policyVars == <<hours, holiday, policy, site>>
reqVars    == <<req, asked>>
jobVars    == <<sweep, crashes>>
vars       == <<now, shiftVars, entry, policyVars, jobVars, reqVars>>

Session ==
  [user : Users, ws : Workspaces, in : Instants, out : Instants \union {None}, day : Days,
   status : {"OPEN", "CLOSED", "AUTO_CLOSED", "ADMIN_CLOSED"},
   presence : PresenceStatuses \union {None}, due : Int \union {None}, end : Nat \union {None},
   expected : Nat, worked : Nat, breaks : Nat, raw : Nat, counted : Nat, adjusted : BOOLEAN]

Interval == [session : 1 .. MaxSessions, status : PresenceStatuses, from : Instants,
             to : Instants \union {None}]

Entry == [user : Users, ws : Workspaces, from : Instants, to : Instants \union {None},
          minutes : Nat \union {None}, day : Days, source : {"TIMER", "MANUAL"}, locked : BOOLEAN]

FlagTypes == {"LATE_IN", "EARLY_OUT", "OUT_OF_GEOFENCE", "MISSED_CLOCK_OUT", "ABSENT"}
Flag == [user : Users, ws : Workspaces, day : Days, session : 0 .. MaxSessions, type : FlagTypes,
         status : {"ACTIVE", "WAIVED"}]

Idle == [pc |-> "idle"]

TypeOK ==
  /\ now \in Instants /\ asked \in [of : SUBSET AllOperations, left : Nat] /\ crashes \in 0 .. MaxCrashes
  /\ \A s \in DOMAIN session : session[s] \in Session
  /\ \A i \in DOMAIN presence : presence[i] \in Interval
  /\ DOMAIN entry \subseteq EntryIds /\ \A e \in DOMAIN entry : entry[e] \in Entry
  /\ flag \subseteq Flag
  /\ policy \in [Workspaces -> PolicyType] /\ site \in [Workspaces -> SUBSET Sites]
  /\ holiday \in [Workspaces -> SUBSET Days]
  /\ \A w \in Workspaces : \A h \in Range(hours[w]) : h.plan \in HoursType

-----------------------------------------------------------------------------
(* Time, roles and the hours in force.                                     *)

DayOf(t) == t \div DayLength
At(day, time) == day * DayLength + time

Member(u, w) == RoleIn[w][u] # None
May(u, w, permission) == HasPermission(RoleIn[w][u], permission)

(* resolveSchedule: the rows in force on the day, an override of the user  *)
(* before the default, the latest first.  Hours come from the schedule on  *)
(* days off too; only the expected time is zero then.                      *)
InForce(w, u, day) ==
  {k \in DOMAIN hours[w] : /\ hours[w][k].plan.user \in {u, None}
                           /\ hours[w][k].from <= day
                           /\ hours[w][k].to = None \/ day < hours[w][k].to}

BestHours(w, u, day) ==
  CHOOSE k \in InForce(w, u, day) : \A j \in InForce(w, u, day) :
    \/ hours[w][k].plan.user # None /\ hours[w][j].plan.user = None
    \/ /\ hours[w][k].plan.user = hours[w][j].plan.user
       /\ hours[w][k].from >= hours[w][j].from

Crosses(plan) == plan.end <= plan.start

NoSchedule(w, day) ==
  [working |-> TRUE, holiday |-> day \in holiday[w], start |-> None, end |-> None, grace |-> 0,
   expected |-> 0, breakPaid |-> TRUE, window |-> None, outFrom |-> None]

Resolved(w, u, day) ==
  IF InForce(w, u, day) = {} THEN NoSchedule(w, day)
  ELSE LET plan    == hours[w][BestHours(w, u, day)].plan
           working == day \in plan.days /\ day \notin holiday[w]
       IN  [working |-> working, holiday |-> day \in holiday[w], start |-> At(day, plan.start),
            end |-> At(day + IF Crosses(plan) THEN 1 ELSE 0, plan.end), grace |-> plan.grace,
            expected |-> IF working THEN plan.expected ELSE 0, breakPaid |-> plan.breakPaid,
            window |-> plan.window, outFrom |-> plan.outFrom]

(* The check of the arrival window, which only refuses when the workspace  *)
(* asks it to, and lateness past the start and its grace.  A schedule      *)
(* without a window leaves it to the older columns of the workspace.       *)
WindowAllows(w, eff, t) ==
  LET window == IF eff.window = None THEN policy[w].legacyWindow ELSE eff.window
  IN  window # None /\ policy[w].enforceWindow =>
        At(DayOf(t), window[1]) <= t /\ t <= At(DayOf(t), window[2])

Due(eff) == IF eff.start = None THEN None ELSE eff.start + eff.grace
LateAt(eff, t) == eff.working /\ eff.start # None /\ t > Due(eff)
EarlyAt(eff, day, t) == eff.outFrom # None /\ t < At(day, eff.outFrom)

(* candidateSites and evaluateGeofence; the single fence of older          *)
(* workspaces counts only where no site is offered.                        *)
Candidates(w, u) ==
  {p \in site[w] : \/ ~\E v \in Users : <<v, p>> \in JobSites
                   \/ policy[w].jobSites /\ <<u, p>> \in JobSites}

PlaceAllows(w, u, position) ==
  IF Candidates(w, u) = {} THEN policy[w].legacyFence => position = "fence"
  ELSE position \in Candidates(w, u) \/ policy[w].fence # "ENFORCE"

LeftFence(w, position) == policy[w].legacyFence /\ position \notin {"fence", "unknown"}

-----------------------------------------------------------------------------
(* Constraints of the database and what the handlers share.                *)

Open(s) == session[s].out = None
OpenSessions(u) == {s \in DOMAIN session : session[s].user = u /\ Open(s)}

(* work_sessions_one_open_per_user, over all workspaces, and an altered    *)
(* form as it was before migration 0008.                                   *)
MayOpen_WithoutIndex(u) == TRUE
MayOpen(u) == OpenSessions(u) = {}

(* createMany with skipDuplicates: one flag of a type to a day or, for     *)
(* flags of a session, to the session, whatever has become of it.          *)
SameFlag(f, g) ==
  /\ f.type = g.type /\ f.session = g.session
  /\ f.session = 0 => f.user = g.user /\ f.ws = g.ws /\ f.day = g.day

Raised_DespiteWaiver(new) ==
  flag \union {f \in new : ~\E g \in flag : SameFlag(f, g) /\ g.status = "ACTIVE"}

Raised(new) == flag \union {f \in new : ~\E g \in flag : SameFlag(f, g)}

FlagOf(s, k, types) ==
  {[user |-> s.user, ws |-> s.ws, day |-> s.day, session |-> k, type |-> t, status |-> "ACTIVE"] :
     t \in types}

OpenIntervals(s) == {i \in DOMAIN presence : presence[i].session = s /\ presence[i].to = None}
OpenInterval(s) == IF OpenIntervals(s) = {} THEN 0 ELSE CHOOSE i \in OpenIntervals(s) : TRUE

(* The interval a handler found, ended by its identifier: whatever it has  *)
(* become since it was found.                                              *)
Ended(intervals, i, t) == IF i = 0 THEN intervals ELSE [intervals EXCEPT ![i].to = t]

Length(interval) == IF interval.to = None THEN 0 ELSE interval.to - interval.from

BreakMinutes(intervals, s) ==
  MapThenSumSet(LAMBDA i : Length(intervals[i]),
                {i \in DOMAIN intervals : /\ intervals[i].session = s
                                          /\ intervals[i].status \in {"BREAK", "LUNCH"}})

Allowed(op) == op \in asked.of /\ asked.left > 0
Ready(r, op) == req[r] = Idle /\ Allowed(op)
Asked == asked' = [asked EXCEPT !.left = @ - 1]
Wait(r, x) == req' = [req EXCEPT ![r] = x] /\ Asked
Finish(r) == req' = [req EXCEPT ![r] = Idle] /\ asked' = asked

(* A writing step the database or a re-check refuses: all is as it was.    *)
Refused(r) == Finish(r) /\ UNCHANGED <<now, shiftVars, entry, policyVars, jobVars>>

Tick ==
  /\ now < MaxTime
  /\ now' = now + 1
  /\ UNCHANGED <<shiftVars, entry, policyVars, jobVars, reqVars>>

-----------------------------------------------------------------------------
(* Clocking in: policy, schedule, place and open sessions are read first,  *)
(* then session, first interval and late flag are written together.        *)
ClockIn(r, u, w, position) ==
  LET eff == Resolved(w, u, DayOf(now))
  IN  /\ Ready(r, "clockIn") /\ Member(u, w)
      /\ WindowAllows(w, eff, now) /\ PlaceAllows(w, u, position)
      /\ OpenSessions(u) = {}
      /\ Wait(r, [pc |-> "clockIn", user |-> u, ws |-> w, at |-> now, eff |-> eff,
                  late |-> LateAt(eff, now) /\ policy[w].flags])
      /\ UNCHANGED <<now, shiftVars, entry, policyVars, jobVars>>

NewSession(q) ==
  [user |-> q.user, ws |-> q.ws, in |-> q.at, out |-> None, day |-> DayOf(q.at), status |-> "OPEN",
   presence |-> "AVAILABLE", due |-> Due(q.eff), end |-> q.eff.end, expected |-> q.eff.expected,
   worked |-> 0, breaks |-> 0, raw |-> 0, counted |-> 0, adjusted |-> FALSE]

FinishClockIn(r) ==
  LET q == req[r]
      k == Len(session) + 1
  IN  /\ q.pc = "clockIn"
      /\ IF ~MayOpen(q.user) THEN Refused(r)
         ELSE /\ k <= MaxSessions /\ Len(presence) < MaxIntervals
              /\ session' = Append(session, NewSession(q))
              /\ presence' = Append(presence, [session |-> k, status |-> "AVAILABLE",
                                               from |-> q.at, to |-> None])
              /\ flag' = IF q.late
                         THEN Raised({[f EXCEPT !.session = 0] : f \in FlagOf(NewSession(q), k, {"LATE_IN"})})
                         ELSE flag
              /\ Finish(r)
              /\ UNCHANGED <<now, entry, policyVars, jobVars>>

(* clockOut: the open session in this workspace and what the shift         *)
(* measures are read first.  The transaction then looks for the open       *)
(* interval, which this step includes: a search between the reading and    *)
(* here could only find what makes the writing step be refused.            *)
ClockOut(r, u, w, position) ==
  /\ Ready(r, "clockOut") /\ Member(u, w)
  /\ \E s \in OpenSessions(u) :
       LET eff == Resolved(w, u, session[s].day)
           end == IF session[s].end # None THEN session[s].end ELSE eff.end
           raw == IF end # None /\ now > end THEN now - end ELSE 0
       IN  /\ session[s].ws = w
           /\ Wait(r, [pc |-> "clockOut", session |-> s, at |-> now, found |-> OpenInterval(s),
                       breakPaid |-> eff.breakPaid, raw |-> raw,
                       counted |-> IF policy[w].overtime THEN raw ELSE 0,
                       flags |-> IF ~policy[w].flags THEN {}
                                 ELSE {t \in {"EARLY_OUT"} : EarlyAt(eff, session[s].day, now)}
                                        \union {t \in {"OUT_OF_GEOFENCE"} : LeftFence(w, position)}])
  /\ UNCHANGED <<now, shiftVars, entry, policyVars, jobVars>>

(* closeMyOpenSession: the session may be in any workspace, breaks are not *)
(* taken off and nothing is flagged.                                       *)
CloseMyOpenSession(r, u) ==
  /\ Ready(r, "closeAnywhere")
  /\ \E s \in OpenSessions(u) :
       Wait(r, [pc |-> "clockOut", session |-> s, at |-> now, found |-> OpenInterval(s),
                breakPaid |-> TRUE, raw |-> 0, counted |-> 0, flags |-> {}])
  /\ UNCHANGED <<now, shiftVars, entry, policyVars, jobVars>>

(* The writing step claims the session only while it is open.  First an    *)
(* altered form that writes whatever has happened.                         *)
StillOpen_Assumed(s) == TRUE
StillOpen(s) == Open(s)

FinishClockOut(r) ==
  LET q      == req[r]
      ended  == Ended(presence, q.found, q.at)
      breaks == IF q.breakPaid THEN 0 ELSE BreakMinutes(ended, q.session)
      total  == q.at - session[q.session].in
  IN  /\ q.pc = "clockOut"
      /\ IF ~StillOpen(q.session) THEN Refused(r)
         ELSE /\ presence' = ended
              /\ session' = [session EXCEPT ![q.session] =
                   [@ EXCEPT !.out = q.at, !.status = "CLOSED", !.presence = None, !.breaks = breaks,
                             !.worked = Max({0, total - breaks}), !.raw = q.raw, !.counted = q.counted]]
              /\ flag' = Raised(FlagOf(session[q.session], q.session, q.flags))
              /\ Finish(r)
              /\ UNCHANGED <<now, entry, policyVars, jobVars>>

(* setPresence: ends the open interval it found and starts another.  It is *)
(* refused when another change has started one (presence_one_open_per_     *)
(* session) and when the session was closed meanwhile.                     *)
SetPresence(r, u, w, status) ==
  /\ Ready(r, "presence")
  /\ \E s \in OpenSessions(u) :
       /\ session[s].ws = w /\ session[s].presence # status
       /\ Wait(r, [pc |-> "presence", session |-> s, at |-> now, found |-> OpenInterval(s),
                   status |-> status])
  /\ UNCHANGED <<now, shiftVars, entry, policyVars, jobVars>>

FinishSetPresence(r) ==
  LET q     == req[r]
      ended == Ended(presence, q.found, q.at)
  IN  /\ q.pc = "presence"
      /\ IF ~Open(q.session) \/ OpenIntervals(q.session) \ {q.found} # {} THEN Refused(r)
         ELSE /\ Len(presence) < MaxIntervals
              /\ presence' = Append(ended, [session |-> q.session, status |-> q.status,
                                            from |-> q.at, to |-> None])
              /\ session' = [session EXCEPT ![q.session].presence = q.status]
              /\ Finish(r)
              /\ UNCHANGED <<now, flag, entry, policyVars, jobVars>>

(* Attendance entered or corrected by hand.  The search for sessions it    *)
(* would overlap comes before the write, which nothing can refuse.  An     *)
(* adjustment ends an open session but not its interval, and keeps the     *)
(* schedule, breaks and overtime the session had.                          *)
Overlapping(u, span, except) ==
  {s \in DOMAIN session \ except : /\ session[s].user = u /\ session[s].in < span[2]
                                   /\ Open(s) \/ session[s].out > span[1]}

CreateWorkSession(r, a, u, w, span) ==
  /\ Ready(r, "manual") /\ May(a, w, "LOG_TIME_ON_BEHALF") /\ Member(u, w)
  /\ Overlapping(u, span, {}) = {}
  /\ Wait(r, [pc |-> "manual", user |-> u, ws |-> w, span |-> span])
  /\ UNCHANGED <<now, shiftVars, entry, policyVars, jobVars>>

FinishCreateWorkSession(r) ==
  LET q == req[r]
  IN  /\ q.pc = "manual"
      /\ Len(session) < MaxSessions
      /\ session' = Append(session,
           [user |-> q.user, ws |-> q.ws, in |-> q.span[1], out |-> q.span[2], day |-> DayOf(q.span[1]),
            status |-> "ADMIN_CLOSED", presence |-> None, due |-> None, end |-> None, expected |-> 0,
            worked |-> q.span[2] - q.span[1], breaks |-> 0, raw |-> 0, counted |-> 0, adjusted |-> TRUE])
      /\ Finish(r)
      /\ UNCHANGED <<now, presence, flag, entry, policyVars, jobVars>>

UpdateWorkSession(r, a, s, u, span) ==
  /\ Ready(r, "adjust") /\ May(a, session[s].ws, "EDIT_OTHERS_TIME") /\ Member(u, session[s].ws)
  /\ Overlapping(u, span, {s}) = {}
  /\ Wait(r, [pc |-> "adjust", session |-> s, user |-> u, span |-> span,
              status |-> IF session[s].status = "OPEN" THEN "ADMIN_CLOSED" ELSE session[s].status])
  /\ UNCHANGED <<now, shiftVars, entry, policyVars, jobVars>>

FinishUpdateWorkSession(r) ==
  LET q == req[r]
  IN  /\ q.pc = "adjust"
      /\ session' = [session EXCEPT ![q.session] =
           [@ EXCEPT !.user = q.user, !.in = q.span[1], !.out = q.span[2], !.day = DayOf(q.span[1]),
                     !.status = q.status, !.presence = None, !.worked = q.span[2] - q.span[1],
                     !.adjusted = TRUE]]
      /\ Finish(r)
      /\ UNCHANGED <<now, presence, flag, entry, policyVars, jobVars>>

-----------------------------------------------------------------------------
(* The scheduler.  One replica at a time runs the tick (withTickLock); it  *)
(* reads the forgotten sessions and closes them one transaction each, at   *)
(* the end of their shift, not at the time it runs.                        *)

(* autoCloseForgottenSessions: which sessions, and when they are said to   *)
(* have ended.  First an altered form that only looks at the running day.  *)
Forgotten_Today(s) ==
  Open(s) /\ session[s].day = DayOf(now) /\ session[s].end # None /\ session[s].end < now - CloseGrace

Forgotten(s) ==
  /\ Open(s)
  /\ IF session[s].end # None THEN session[s].end < now - CloseGrace
     ELSE session[s].in < now - Ceiling

CreditedEnd(s) ==
  IF session[s].end # None THEN session[s].end ELSE session[s].in + session[s].expected

SweepStart ==
  /\ "sweep" \in asked.of /\ sweep = {}
  /\ sweep' = {[session |-> s, in |-> session[s].in, end |-> CreditedEnd(s)] :
                 s \in {s \in DOMAIN session : Forgotten(s)}}
  /\ sweep' # {}
  /\ UNCHANGED <<now, shiftVars, entry, policyVars, crashes, reqVars>>

(* The rows may refuse the credited end: a session or an interval cannot   *)
(* end before it began.  The exception ends the whole tick.                *)
Refusable(x) ==
  \/ \E i \in OpenIntervals(x.session) : presence[i].from > x.end
  \/ Open(x.session) /\ session[x.session].in > x.end

SweepClose(x) ==
  /\ x \in sweep
  /\ IF Refusable(x) THEN sweep' = {} /\ UNCHANGED shiftVars
     ELSE /\ sweep' = sweep \ {x}
          /\ presence' = [i \in DOMAIN presence |->
                            IF i \in OpenIntervals(x.session) THEN [presence[i] EXCEPT !.to = x.end]
                            ELSE presence[i]]
          /\ IF StillOpen(x.session)
             THEN /\ session' = [session EXCEPT ![x.session] =
                       [@ EXCEPT !.out = x.end, !.status = "AUTO_CLOSED", !.presence = None,
                                 !.worked = Max({0, x.end - x.in})]]
                  /\ flag' = Raised(FlagOf(session[x.session], x.session, {"MISSED_CLOCK_OUT"}))
             ELSE UNCHANGED <<session, flag>>
  /\ UNCHANGED <<now, entry, policyVars, crashes, reqVars>>

(* The replica that runs the tick dies: its lock goes with it.             *)
SweepCrash ==
  /\ sweep # {} /\ crashes < MaxCrashes
  /\ sweep' = {} /\ crashes' = crashes + 1
  /\ UNCHANGED <<now, shiftVars, entry, policyVars, reqVars>>

Sweeping == SweepStart \/ \E x \in sweep : SweepClose(x)

-----------------------------------------------------------------------------
(* Policy.  Each change is one write.                                      *)
Changing(op, a, w) ==
  /\ Allowed(op) /\ May(a, w, "MANAGE_ATTENDANCE") /\ Asked
  /\ UNCHANGED <<now, shiftVars, entry, jobVars, req>>

(* createSchedule closes off the row in force at the start of the new one; *)
(* the row refuses an end that is not after its own start.                 *)
CreateSchedule(a, w, plan, day) ==
  LET current == {k \in DOMAIN hours[w] : hours[w][k].plan.user = plan.user /\ hours[w][k].to = None}
  IN  /\ Changing("hours", a, w)
      /\ plan.user = None \/ Member(plan.user, w)
      /\ \A k \in current : hours[w][k].from < day
      /\ hours' = [hours EXCEPT ![w] =
           Append([k \in DOMAIN @ |-> IF k \in current THEN [@[k] EXCEPT !.to = day] ELSE @[k]],
                  [plan |-> plan, from |-> day, to |-> None])]
      /\ UNCHANGED <<holiday, policy, site>>

CreateHoliday(a, w, day) ==
  /\ Changing("holiday", a, w) /\ day \notin holiday[w]
  /\ holiday' = [holiday EXCEPT ![w] = @ \union {day}]
  /\ UNCHANGED <<hours, policy, site>>

DeleteHoliday(a, w, day) ==
  /\ Changing("holiday", a, w) /\ day \in holiday[w]
  /\ holiday' = [holiday EXCEPT ![w] = @ \ {day}]
  /\ UNCHANGED <<hours, policy, site>>

(* updateAttendanceSettings and updateSettings, of the older columns and   *)
(* of the settings row.                                                    *)
UpdateSettings(a, w, p) ==
  /\ Changing("policy", a, w)
  /\ policy' = [policy EXCEPT ![w] = p]
  /\ UNCHANGED <<hours, holiday, site>>

(* createSite and deactivateSite: places to clock in from.                 *)
CreateSite(a, w, p) ==
  /\ Changing("site", a, w) /\ p \notin site[w]
  /\ site' = [site EXCEPT ![w] = @ \union {p}]
  /\ UNCHANGED <<hours, holiday, policy>>

DeactivateSite(a, w, p) ==
  /\ Changing("site", a, w) /\ p \in site[w]
  /\ site' = [site EXCEPT ![w] = @ \ {p}]
  /\ UNCHANGED <<hours, holiday, policy>>

ChangingPolicy ==
  \E a \in Users, w \in Workspaces :
    \/ \E plan \in Hours, day \in Days : CreateSchedule(a, w, plan, day)
    \/ \E day \in Days : CreateHoliday(a, w, day) \/ DeleteHoliday(a, w, day)
    \/ \E p \in Policies : UpdateSettings(a, w, p)
    \/ \E p \in Sites : CreateSite(a, w, p) \/ DeactivateSite(a, w, p)

-----------------------------------------------------------------------------
(* Timers and time entries.  Which task or project the time is for is left *)
(* out.  The searches for overlapping entries, and the lock, are read      *)
(* before the write; of the timer the transaction checks again and         *)
(* time_entries_one_open_timer decides.                                    *)
Mine(e, u, w) == entry[e].user = u /\ entry[e].ws = w

Running(u, w) ==
  {e \in DOMAIN entry : Mine(e, u, w) /\ entry[e].to = None /\ entry[e].source = "TIMER"}

MayRun(u, w, except) == Running(u, w) \ except = {}

Clashing(u, w, span, except) ==
  {e \in DOMAIN entry \ except : /\ Mine(e, u, w) /\ entry[e].from < span[2]
                                 /\ entry[e].to = None \/ entry[e].to > span[1]}

Free == EntryIds \ DOMAIN entry
Written(e, row) == [x \in DOMAIN entry \union {e} |-> IF x = e THEN row ELSE entry[x]]

StartTimer(u, w) ==
  /\ Allowed("timer") /\ Asked /\ Member(u, w)
  /\ MayRun(u, w, {})
  /\ \E e \in Free : entry' = Written(e, [user |-> u, ws |-> w, from |-> now, to |-> None,
                                          minutes |-> None, day |-> DayOf(now), source |-> "TIMER",
                                          locked |-> FALSE])
  /\ UNCHANGED <<now, shiftVars, policyVars, jobVars, req>>

(* stopTimer writes the length it computed from the entry it read, which   *)
(* computeMinutes keeps from being negative.                               *)
StopTimer(r, u, w) ==
  /\ Ready(r, "timer") /\ Member(u, w)
  /\ \E e \in Running(u, w) :
       /\ Clashing(u, w, <<entry[e].from, now>>, {e}) = {}
       /\ Wait(r, [pc |-> "write", entry |-> e,
                   row |-> [from |-> None, to |-> now, minutes |-> Max({0, now - entry[e].from})]])
  /\ UNCHANGED <<now, shiftVars, entry, policyVars, jobVars>>

CreateTimeEntry(r, u, w, span) ==
  /\ Ready(r, "entry") /\ Member(u, w)
  /\ Clashing(u, w, span, {}) = {}
  /\ Wait(r, [pc |-> "create", user |-> u, ws |-> w, span |-> span])
  /\ UNCHANGED <<now, shiftVars, entry, policyVars, jobVars>>

FinishCreateTimeEntry(r) ==
  LET q == req[r]
  IN  /\ q.pc = "create"
      /\ \E e \in Free : entry' = Written(e,
           [user |-> q.user, ws |-> q.ws, from |-> q.span[1], to |-> q.span[2],
            minutes |-> q.span[2] - q.span[1], day |-> DayOf(q.span[1]), source |-> "MANUAL",
            locked |-> FALSE])
      /\ Finish(r)
      /\ UNCHANGED <<now, shiftVars, policyVars, jobVars>>

(* assertCanModifyEntry and the lock, which stops its owner alone.         *)
MayModify(a, e) ==
  LET edits == May(a, entry[e].ws, "EDIT_OTHERS_TIME")
      mine  == entry[e].user = a /\ ~entry[e].locked
  IN  edits \/ mine

(* updateTimeEntry writes both times, those it read where the client gives *)
(* none, and keeps the day.  A span of None changes neither.               *)
UpdateTimeEntry(r, a, e, span) ==
  LET from == IF span = None THEN entry[e].from ELSE span[1]
      to   == IF span = None THEN entry[e].to ELSE span[2]
  IN  /\ Ready(r, "entry") /\ MayModify(a, e)
      /\ to # None => from < to /\ Clashing(entry[e].user, entry[e].ws, <<from, to>>, {e}) = {}
      /\ Wait(r, [pc |-> "write", entry |-> e,
                  row |-> [from |-> from, to |-> to,
                           minutes |-> IF to = None THEN None ELSE to - from]])
      /\ UNCHANGED <<now, shiftVars, entry, policyVars, jobVars>>

(* The write of stopTimer and of updateTimeEntry.  It fails when the entry *)
(* is gone, or when it would be a second running timer.                    *)
FinishWriteEntry(r) ==
  LET q    == req[r]
      e    == q.entry
      from == IF q.row.from = None THEN entry[e].from ELSE q.row.from
  IN  /\ q.pc = "write"
      /\ IF \/ e \notin DOMAIN entry
            \/ q.row.to = None /\ ~MayRun(entry[e].user, entry[e].ws, {e})
         THEN Refused(r)
         ELSE /\ entry' = [entry EXCEPT ![e] = [@ EXCEPT !.from = from, !.to = q.row.to,
                                                         !.minutes = q.row.minutes]]
              /\ Finish(r)
              /\ UNCHANGED <<now, shiftVars, policyVars, jobVars>>

DeleteTimeEntry(r, a, e) ==
  /\ Ready(r, "entry") /\ MayModify(a, e)
  /\ Wait(r, [pc |-> "delete", entry |-> e])
  /\ UNCHANGED <<now, shiftVars, entry, policyVars, jobVars>>

FinishDeleteTimeEntry(r) ==
  /\ req[r].pc = "delete"
  /\ entry' = [x \in DOMAIN entry \ {req[r].entry} |-> entry[x]]
  /\ Finish(r)
  /\ UNCHANGED <<now, shiftVars, policyVars, jobVars>>

SetTimeEntryLock(a, e) ==
  /\ Allowed("lock") /\ Asked /\ May(a, entry[e].ws, "EDIT_OTHERS_TIME")
  /\ entry' = [entry EXCEPT ![e].locked = ~@]
  /\ UNCHANGED <<now, shiftVars, policyVars, jobVars, req>>

-----------------------------------------------------------------------------
(* The routes: what a member asks for, and the second step of a request.   *)
Asking ==
  \E r \in Requests, a \in Users, w \in Workspaces :
    \/ \E p \in Positions : ClockIn(r, a, w, p) \/ ClockOut(r, a, w, p)
    \/ \E x \in Statuses : SetPresence(r, a, w, x)
    \/ \E u \in Users, span \in Ranges : CreateWorkSession(r, a, u, w, span)
    \/ StopTimer(r, a, w)
    \/ \E span \in Ranges : CreateTimeEntry(r, a, w, span)

AskingAboutRow ==
  \E r \in Requests, a \in Users :
    \/ CloseMyOpenSession(r, a)
    \/ \E s \in DOMAIN session, u \in Users, span \in Ranges : UpdateWorkSession(r, a, s, u, span)
    \/ \E e \in DOMAIN entry :
         \/ \E span \in Ranges \union {None} : UpdateTimeEntry(r, a, e, span)
         \/ DeleteTimeEntry(r, a, e)

AtOnce ==
  \E a \in Users :
    \/ \E w \in Workspaces : StartTimer(a, w)
    \/ \E e \in DOMAIN entry : SetTimeEntryLock(a, e)

Finishing ==
  \E r \in Requests :
    \/ FinishClockIn(r) \/ FinishClockOut(r) \/ FinishSetPresence(r)
    \/ FinishCreateWorkSession(r) \/ FinishUpdateWorkSession(r)
    \/ FinishCreateTimeEntry(r) \/ FinishWriteEntry(r) \/ FinishDeleteTimeEntry(r)

Init ==
  /\ now = 0
  /\ session = <<>> /\ presence = <<>> /\ entry = <<>> /\ flag = {}
  /\ hours = [w \in Workspaces |-> <<[plan |-> StartHours, from |-> 0, to |-> None]>>]
  /\ holiday = [w \in Workspaces |-> {}]
  /\ policy = [w \in Workspaces |-> StartPolicy]
  /\ site = [w \in Workspaces |-> {}]
  /\ asked \in Loads /\ sweep = {} /\ crashes = 0
  /\ req = [r \in Requests |-> Idle]

Next ==
  Tick \/ Asking \/ AskingAboutRow \/ AtOnce \/ Finishing \/ ChangingPolicy \/ Sweeping \/ SweepCrash

(* The timer of the scheduler fires for as long as a replica runs.         *)
Spec == Init /\ [][Next]_vars /\ WF_vars(Sweeping)

-----------------------------------------------------------------------------
(* A person is clocked in at most once, in all workspaces together, and    *)
(* runs at most one timer in each.  While a session is open its intervals  *)
(* follow one another without gap or overlap from the clock-in on, the     *)
(* last one open and in the state the session shows: clocking in, changing *)
(* presence, closing and sweeping race, and workSession.presenceStatus is  *)
(* only a copy of the open interval.                                       *)
IntervalsOf(s) == {i \in DOMAIN presence : presence[i].session = s}

Contiguous(s) ==
  /\ Cardinality(OpenIntervals(s)) = 1
  /\ presence[OpenInterval(s)].status = session[s].presence
  /\ \A i \in IntervalsOf(s) :
       \/ presence[i].from = session[s].in
       \/ \E j \in IntervalsOf(s) \ {i} : presence[j].to = presence[i].from
  /\ MapThenSumSet(LAMBDA i : Length(presence[i]), IntervalsOf(s))
       = presence[OpenInterval(s)].from - session[s].in

ShiftsSafe ==
  /\ TypeOK
  /\ \A u \in Users : /\ Cardinality(OpenSessions(u)) <= 1
                      /\ \A w \in Workspaces : Cardinality(Running(u, w)) <= 1
  /\ \A s \in DOMAIN session : IF Open(s) THEN session[s].status = "OPEN" /\ Contiguous(s)
                               ELSE session[s].status # "OPEN" /\ session[s].presence = None

(* What ended a session stands: a clock-out is not overwritten by a sweep  *)
(* that read the session while it was open, nor an automatic end by a late *)
(* clock-out; only a correction by hand moves it, which never opens it     *)
(* again and leaves the breaks and the overtime measured when it ended.    *)
Measured(s) == <<s.breaks, s.raw, s.counted>>

ClosedStands ==
  [][\A s \in DOMAIN session :
       session[s].out # None =>
         \/ session'[s] = session[s]
         \/ /\ session'[s].adjusted /\ session'[s].out # None
            /\ Measured(session'[s]) = Measured(session[s])]_vars

(* A session left open past the end of its shift and the grace, or past    *)
(* the longest a session may last, is closed in the end, on whatever day,  *)
(* however often the scheduler crashes, as long as no such session has     *)
(* rows that refuse the end it would write: that one stops every tick.     *)
Overdue(s) ==
  Open(s) /\ IF session[s].end = None THEN now - session[s].in > Ceiling
             ELSE now - session[s].end > CloseGrace

Blocking ==
  \E s \in DOMAIN session : Overdue(s) /\ Refusable([session |-> s, end |-> CreditedEnd(s)])

ForgottenEnds ==
  \A s \in 1 .. MaxSessions :
    (s \in DOMAIN session /\ Overdue(s)) ~> (s \in DOMAIN session /\ ~Open(s)) \/ Blocking
=============================================================================
