-------------------------- MODULE PeopleOpsProofs --------------------------
(* Shifts, and what is asked for and decided about days, for any staff,    *)
(* hours and policy and however the requests, the scheduler and its        *)
(* crashes interleave.  The sums over sets are those of PostingProofs.     *)
EXTENDS PeopleOps, PostingProofs, SequenceTheorems

-----------------------------------------------------------------------------
(* The inductive invariant of WorkTime.                                    *)

(* The time the intervals of a session take, as PostingProofs sums.        *)
Spanned(s) == Over([i \in IntervalsOf(s) |-> Length(presence[i])], IntervalsOf(s))

(* Contiguous, with the open interval named.                               *)
OpenShift(s) ==
  \E i \in DOMAIN presence :
    /\ OpenIntervals(s) = {i}
    /\ presence[i].status = session[s].presence
    /\ \A j \in IntervalsOf(s) :
         \/ presence[j].from = session[s].in
         \/ \E k \in IntervalsOf(s) \ {j} : presence[k].to = presence[j].from
    /\ Spanned(s) = presence[i].from - session[s].in

Shifts ==
  \A s \in DOMAIN session :
    IF Open(s) THEN session[s].status = "OPEN" /\ OpenShift(s)
    ELSE session[s].status # "OPEN" /\ session[s].presence = None

(* The rows of the tables, and what refers to them.                        *)
Clock ==
  now \in Instants /\ asked \in [of : SUBSET AllOperations, left : Nat] /\ crashes \in 0 .. MaxCrashes

ShiftRows ==
  /\ session \in Seq(Session) /\ Len(session) <= MaxSessions
  /\ presence \in Seq(Interval)
  /\ \A i \in DOMAIN presence :
       /\ presence[i].session \in DOMAIN session /\ presence[i].from <= now
       /\ presence[i].to # None => presence[i].from <= presence[i].to
  /\ \A s \in DOMAIN session : session[s].end = None => session[s].expected = 0

EntryRows == DOMAIN entry \subseteq EntryIds /\ \A e \in DOMAIN entry : entry[e] \in Entry

HoursRow == [plan : HoursType, from : Days, to : Days \union {None}]

PolicyRows ==
  /\ policy \in [Workspaces -> PolicyType] /\ site \in [Workspaces -> SUBSET Sites]
  /\ holiday \in [Workspaces -> SUBSET Days] /\ hours \in [Workspaces -> Seq(HoursRow)]

(* What the tick is about to close.                                        *)
Swept == \A x \in sweep : x.session \in DOMAIN session /\ x.in \in Instants /\ x.end \in Instants

(* The indexes: one open session to a person, one running timer to a       *)
(* person and workspace, one flag of a kind.                               *)
OneShift == \A s, t \in DOMAIN session : Open(s) /\ Open(t) /\ session[s].user = session[t].user => s = t

OneTimer ==
  \A d, e \in DOMAIN entry :
    /\ entry[d].user = entry[e].user /\ entry[d].ws = entry[e].ws
    /\ entry[d].to = None /\ entry[e].to = None
    /\ entry[d].source = "TIMER" /\ entry[e].source = "TIMER"
    => d = e

OneFlag == flag \subseteq Flag /\ \A f, g \in flag : SameFlag(f, g) => f = g

(* What a request holds that is between its reading and its writing.       *)
Found(q) ==
  /\ q.session \in DOMAIN session /\ q.at \in 0 .. now
  /\ q.found \in {0} \union IntervalsOf(q.session)
  /\ q.found # 0 => presence[q.found].from <= q.at

Fitting(eff) ==
  /\ Due(eff) \in Int \union {None} /\ eff.end \in Nat \union {None} /\ eff.expected \in Nat
  /\ eff.end = None => eff.expected = 0

ShiftSound(q) ==
  /\ q.pc = "clockIn" => q.user \in Users /\ q.ws \in Workspaces /\ q.at \in 0 .. now /\ Fitting(q.eff)
  /\ q.pc = "clockOut" => Found(q) /\ q.raw \in Nat /\ q.counted \in Nat /\ q.flags \subseteq FlagTypes
  /\ q.pc = "presence" => Found(q) /\ q.status \in PresenceStatuses
  /\ q.pc = "manual" => q.user \in Users /\ q.ws \in Workspaces /\ q.span \in Ranges
  /\ q.pc = "adjust" => /\ q.session \in DOMAIN session /\ q.user \in Users /\ q.span \in Ranges
                        /\ q.status \in {"CLOSED", "AUTO_CLOSED", "ADMIN_CLOSED"}
  /\ q.pc = "create" => q.user \in Users /\ q.ws \in Workspaces /\ q.span \in Ranges
  /\ q.pc = "write" => /\ q.row.from \in Instants \union {None} /\ q.row.to \in Instants \union {None}
                       /\ q.row.minutes \in Nat \union {None}

ShiftInv ==
  /\ Clock /\ ShiftRows /\ EntryRows /\ PolicyRows /\ Swept
  /\ Shifts /\ OneShift /\ OneTimer /\ OneFlag
  /\ DOMAIN req = Requests
  /\ \A r \in Requests : ShiftSound(req[r])

-----------------------------------------------------------------------------
(* The inductive invariant of PeopleOps.                                   *)

(* What is booked belongs to an approved request.                          *)
Bookings ==
  /\ \A b \in booked : /\ b.leave \in DOMAIN leave /\ leave[b.leave].status = "APPROVED"
                       /\ leave[b.leave].user = b.user /\ leave[b.leave].ws = b.ws
                       /\ b.day \in leave[b.leave].span[1] .. leave[b.leave].span[2]
  /\ \A b, c \in booked : b.ws = c.ws /\ b.user = c.user /\ b.day = c.day => b = c

DeskRows ==
  /\ PeopleTypeOK
  /\ leave \in Seq(Leave) /\ Len(leave) <= MaxLeaves
  /\ overtime \in Seq(Overtime)

(* A report that another decided on is what the reviewer read.             *)
Reviewed ==
  \A x \in DOMAIN report :
    report[x].status # "PENDING" /\ ~report[x].auto => report[x].seen = report[x].content

Sums == [worked : Nat, raw : Nat, late : BOOLEAN]

RollupType ==
  [pc : {"rollup"}, ws : Workspaces, day : Days, left : SUBSET Users, sums : [Users -> Sums],
   away : SUBSET Users, overtime : BOOLEAN, flags : BOOLEAN, raise : SUBSET Flag]

DeskSound(q) ==
  /\ q.pc = "leave" =>
       /\ q.leave \in DOMAIN leave /\ q.status \in {"APPROVED", "REJECTED"}
       /\ q.days \subseteq leave[q.leave].span[1] .. leave[q.leave].span[2]
       /\ q.status = "REJECTED" => q.days = {}
  /\ q.pc = "cancel" => q.leave \in DOMAIN leave /\ leave[q.leave].status \in {"APPROVED", "WITHDRAWN"}
  /\ q.pc = "overtime" => /\ q.row \in DOMAIN overtime /\ q.granted \in Minutes \union {0}
                        /\ q.status \in {"APPROVED", "REJECTED"}
  /\ q.pc = "report" =>
       /\ q.key \in DOMAIN report /\ q.status \in {"APPROVED", "REJECTED"} /\ q.seen \in Nat
       /\ q.version \in Nat /\ q.version <= report[q.key].version
       /\ q.version = report[q.key].version => q.seen = report[q.key].content
  /\ q.pc = "rollup" => q \in RollupType /\ \A f, g \in q.raise : SameFlag(f, g) => f = g

PeopleInv ==
  /\ ShiftInv /\ DeskRows /\ Bookings /\ Reviewed
  /\ \A r \in Requests : DeskSound(req[r])

-----------------------------------------------------------------------------
(* Numbers, days and the hours in force.                                   *)

LEMMA MaxNatural == \A x \in Int : Max({0, x}) \in Nat
<1> TAKE x \in Int
<1>1. \E m \in {0, x} : \A y \in {0, x} : m >= y
  BY 0 \in Int
<1>2. Max({0, x}) \in {0, x} /\ Max({0, x}) >= 0
  BY <1>1 DEF Max
<1> QED
  BY <1>2

LEMMA MinOfTwo == \A x, y \in Nat : Min({x, y}) \in {x, y}
<1> TAKE x, y \in Nat
<1>1. \E m \in {x, y} : \A z \in {x, y} : m <= z
  OBVIOUS
<1> QED
  BY <1>1 DEF Min

(* An instant of the model falls on a day of the model.                    *)
LEMMA DayOfInstant == \A t \in Instants : DayOf(t) \in Days
<1> TAKE t \in Instants
<1>1. t \in Nat /\ t <= MaxTime /\ MaxTime \in Nat /\ DayLength \in Nat /\ DayLength > 0
  BY WorkTimeAssumption DEF Instants
<1> DEFINE d == t \div DayLength
           m == MaxTime \div DayLength
<1>2. d \in Nat /\ m \in Nat
  BY <1>1
<1>3. d * DayLength <= t /\ MaxTime < (m + 1) * DayLength
  BY <1>1, <1>2
<1>4. d <= m
  <2>1. SUFFICES ASSUME m + 1 <= d PROVE FALSE
    BY <1>2
  <2>2. (m + 1) * DayLength <= d * DayLength
    BY <1>1, <1>2, <2>1
  <2> QED
    BY <1>1, <1>2, <1>3, <2>2
<1> QED
  BY <1>1, <1>2, <1>4 DEF DayOf, Days

LEMMA DayIsNatural == Days \subseteq Nat
BY DEF Days

(* Of the rows in force on a day there is always one to go by: the last    *)
(* override, or else the last default.                                     *)
LEMMA BestIsInForce ==
  ASSUME hours \in [Workspaces -> Seq(HoursRow)], NEW w \in Workspaces, NEW u, NEW day,
         InForce(w, u, day) # {}
  PROVE  BestHours(w, u, day) \in InForce(w, u, day)
<1> DEFINE S == InForce(w, u, day)
<1>1. \A k \in S : hours[w][k] \in HoursRow /\ hours[w][k].plan.user \in {u, None}
  BY DEF InForce
<1>2. \A k \in S : hours[w][k].from \in Nat
  BY <1>1, DayIsNatural DEF HoursRow
<1>3. ASSUME NEW T \in SUBSET S, T # {}
      PROVE  \E k \in T : \A j \in T : hours[w][k].from >= hours[w][j].from
  <2> DEFINE M == MaxTime \div DayLength
             P == {M - hours[w][k].from : k \in T}
  <2>1. M \in Nat /\ \A k \in S : hours[w][k].from <= M
    BY <1>1, WorkTimeAssumption DEF HoursRow, Days
  <2> HIDE DEF M
  <2>2. P \in SUBSET Nat /\ P # {}
    BY <1>2, <1>3, <2>1
  <2>3. PICK n \in P : \A m \in P : n <= m
    BY <2>2, LeastNatural
  <2>4. PICK k \in T : n = M - hours[w][k].from
    BY <2>3
  <2>5. ASSUME NEW j \in T PROVE hours[w][k].from >= hours[w][j].from
    <3>1. n <= M - hours[w][j].from
      BY <2>3
    <3>2. hours[w][j].from \in Nat /\ hours[w][k].from \in Nat
      BY <1>2
    <3> QED
      BY <2>1, <2>4, <3>1, <3>2
  <2> QED
    BY <2>5
<1> DEFINE Overrides == {k \in S : hours[w][k].plan.user # None}
           Better(k, j) == \/ hours[w][k].plan.user # None /\ hours[w][j].plan.user = None
                           \/ /\ hours[w][k].plan.user = hours[w][j].plan.user
                              /\ hours[w][k].from >= hours[w][j].from
<1>4. \E k \in S : \A j \in S : Better(k, j)
  <2>1. CASE Overrides # {}
    <3>1. PICK k \in Overrides : \A j \in Overrides : hours[w][k].from >= hours[w][j].from
      BY <2>1, <1>3
    <3> QED
      BY <1>1, <3>1
  <2>2. CASE Overrides = {}
    <3>1. PICK k \in S : \A j \in S : hours[w][k].from >= hours[w][j].from
      BY <1>3
    <3> QED
      BY <1>1, <2>2, <3>1
  <2> QED
    BY <2>1, <2>2
<1> QED
  BY <1>4 DEF BestHours

(* The hours of a day fit a session: an end or no expected time.           *)
LEMMA ResolvedFits ==
  ASSUME hours \in [Workspaces -> Seq(HoursRow)], NEW w \in Workspaces, NEW u, NEW day \in Days
  PROVE  /\ Fitting(Resolved(w, u, day))
         /\ Resolved(w, u, day).end \in Nat \union {None}
<1> DEFINE eff == Resolved(w, u, day)
<1>0. None \notin Nat /\ DayLength \in Nat /\ day \in Nat
  BY WorkTimeAssumption, DayIsNatural
<1>1. CASE InForce(w, u, day) = {}
  BY <1>0, <1>1 DEF Resolved, NoSchedule, Fitting, Due
<1>2. CASE InForce(w, u, day) # {}
  <2> DEFINE plan == hours[w][BestHours(w, u, day)].plan
             cross == IF Crosses(plan) THEN 1 ELSE 0
  <2>1. plan \in HoursType
    <3>1. BestHours(w, u, day) \in DOMAIN hours[w] /\ hours[w] \in Seq(HoursRow)
      BY <1>2, BestIsInForce DEF InForce
    <3>2. hours[w][BestHours(w, u, day)] \in HoursRow
      BY <3>1
    <3> QED
      BY <3>2 DEF HoursRow
  <2>2. plan.start \in Nat /\ plan.end \in Nat /\ plan.grace \in Nat /\ plan.expected \in Nat
    <3>1. /\ plan.start \in 0 .. DayLength - 1 /\ plan.end \in 0 .. DayLength - 1
          /\ plan.grace \in Nat /\ plan.expected \in Nat
      BY <2>1 DEF HoursType
    <3> QED
      BY <1>0, <3>1
  <2> HIDE DEF plan
  <2>3. cross \in Nat
    OBVIOUS
  <2> HIDE DEF cross
  <2>4. At(day, plan.start) \in Nat /\ At(day + cross, plan.end) \in Nat
    <3>1. \A a, b \in Nat : a * b \in Nat /\ a + b \in Nat
      OBVIOUS
    <3> QED
      BY <1>0, <2>2, <2>3, <3>1 DEF At
  <2>5. /\ eff.start = At(day, plan.start) /\ eff.end = At(day + cross, plan.end)
        /\ eff.grace = plan.grace /\ eff.expected \in {0, plan.expected}
    BY <1>2 DEF Resolved, plan, cross
  <2> QED
    BY <1>0, <2>2, <2>4, <2>5 DEF Fitting, Due
<1> QED
  BY <1>1, <1>2

-----------------------------------------------------------------------------
(* What a step leaves as it was.                                           *)

LEMMA RowsAreTyped == ShiftInv => TypeOK
<1> SUFFICES ASSUME ShiftInv PROVE TypeOK
  OBVIOUS
<1>1. /\ \A s \in DOMAIN session : session[s] \in Session
      /\ \A i \in DOMAIN presence : presence[i] \in Interval
  BY DEF ShiftInv, ShiftRows
<1>2. ASSUME NEW w \in Workspaces, NEW h \in Range(hours[w]) PROVE h.plan \in HoursType
  <2>1. hours[w] \in Seq(HoursRow)
    BY DEF ShiftInv, PolicyRows
  <2>2. PICK k \in DOMAIN hours[w] : h = hours[w][k]
    BY DEF Range
  <2>3. h \in HoursRow
    BY <2>1, <2>2
  <2> QED
    BY <2>3 DEF HoursRow
<1> QED
  BY <1>1, <1>2 DEF ShiftInv, Clock, EntryRows, PolicyRows, OneFlag, TypeOK

(* A session whose intervals, start and state are as they were.            *)
LEMMA OpenShiftStays ==
  ASSUME NEW s, OpenShift(s), IntervalsOf(s)' = IntervalsOf(s),
         \A i \in IntervalsOf(s) : presence'[i] = presence[i],
         session'[s].in = session[s].in, session'[s].presence = session[s].presence
  PROVE  OpenShift(s)'
<1>1. PICK i \in DOMAIN presence :
        /\ OpenIntervals(s) = {i}
        /\ presence[i].status = session[s].presence
        /\ \A j \in IntervalsOf(s) :
             \/ presence[j].from = session[s].in
             \/ \E k \in IntervalsOf(s) \ {j} : presence[k].to = presence[j].from
        /\ Spanned(s) = presence[i].from - session[s].in
  BY DEF OpenShift
<1>2. OpenIntervals(s) = {j \in IntervalsOf(s) : presence[j].to = None}
  BY DEF OpenIntervals, IntervalsOf
<1>3. OpenIntervals(s)' = {j \in IntervalsOf(s)' : presence'[j].to = None}
  BY DEF OpenIntervals, IntervalsOf
<1>4. OpenIntervals(s)' = {i} /\ i \in IntervalsOf(s) /\ i \in DOMAIN presence'
  <2>1. OpenIntervals(s)' = {i} /\ i \in IntervalsOf(s)
    BY <1>1, <1>2, <1>3
  <2> QED
    BY <2>1 DEF IntervalsOf
<1>5. Spanned(s)' = Spanned(s)
  <2> DEFINE S == IntervalsOf(s)
             f == [j \in S |-> Length(presence[j])]
             g == [j \in S |-> Length(presence'[j])]
  <2>1. \A j \in S : g[j] = f[j]
    OBVIOUS
  <2>2. Over(g, S) = Over(f, S)
    BY <2>1, SumSame
  <2>3. Spanned(s)' = Over(g, S)
    BY DEF Spanned, Length
  <2> QED
    BY <2>2, <2>3 DEF Spanned
<1>6. presence'[i] = presence[i]
  BY <1>4
<1> QED
  BY <1>1, <1>4, <1>5, <1>6 DEF OpenShift

(* A request a step does not write keeps what it holds, as rows are not    *)
(* taken away and an interval stays with its session and its start.        *)
SameIntervals ==
  \A i \in DOMAIN presence : /\ i \in DOMAIN presence'
                             /\ presence'[i].session = presence[i].session
                             /\ presence'[i].from = presence[i].from

LEMMA SoundStays ==
  ASSUME Clock, Clock', now <= now', NEW p, NEW q, ShiftSound(q), req'[p] = q,
         DOMAIN session \subseteq DOMAIN session', SameIntervals
  PROVE  ShiftSound(req[p])'
<1>0. 0 .. now \subseteq 0 .. now'
  BY DEF Clock, Instants
<1>1. ASSUME Found(q) PROVE Found(req[p])'
  <2>1. q.found # 0 => /\ q.found \in IntervalsOf(q.session) /\ q.found \in IntervalsOf(q.session)'
                       /\ presence'[q.found].from = presence[q.found].from
    BY <1>1 DEF Found, SameIntervals, IntervalsOf
  <2> QED
    BY <1>0, <1>1, <2>1 DEF Found, IntervalsOf
<1>2. Fitting(q.eff) => Fitting(req[p].eff)'
  BY DEF Fitting, Due
<1> QED
  BY <1>0, <1>1, <1>2 DEF ShiftSound

(* A step that leaves sessions and their intervals alone.                  *)
LEMMA ShiftsUntouched ==
  ASSUME ShiftInv, UNCHANGED <<session, presence>>, now <= now',
         Clock', EntryRows', PolicyRows', Swept', OneTimer', OneFlag',
         DOMAIN req' = Requests, \A p \in Requests : req'[p] = req[p] \/ ShiftSound(req'[p])
  PROVE  ShiftInv'
<1>1. ShiftRows'
  <2>1. \A i \in DOMAIN presence : presence[i].from <= now'
    <3>1. \A i \in DOMAIN presence : presence[i].from \in Int /\ presence[i].from <= now
      <4>1. \A i \in DOMAIN presence : presence[i] \in Interval /\ presence[i].from <= now
        BY DEF ShiftInv, ShiftRows
      <4> QED
        BY <4>1 DEF Interval, Instants
    <3> QED
      BY <3>1 DEF ShiftInv, Clock, Instants
  <2> QED
    BY <2>1 DEF ShiftInv, ShiftRows
<1>2. \A s : OpenShift(s) => OpenShift(s)'
  BY OpenShiftStays DEF IntervalsOf
<1>3. Shifts'
  BY <1>2 DEF ShiftInv, Shifts, Open
<1>4. OneShift'
  BY DEF ShiftInv, OneShift, Open
<1>5. ASSUME NEW p \in Requests PROVE ShiftSound(req[p])'
  <2>1. ShiftSound(req'[p])
    BY DEF ShiftInv
  <2>2. PICK q : q = req'[p]
    OBVIOUS
  <2>3. SameIntervals /\ DOMAIN session \subseteq DOMAIN session' /\ Clock
    BY DEF SameIntervals, ShiftInv
  <2> QED
    BY <2>1, <2>2, <2>3, SoundStays
<1> QED
  BY <1>1, <1>3, <1>4, <1>5 DEF ShiftInv

(* A step that reads: a request holds something sound, or nothing again.   *)
LEMMA RequestTakes ==
  ASSUME ShiftInv, NEW r \in Requests, NEW x, ShiftSound(x), req' = [req EXCEPT ![r] = x],
         asked' = asked \/ (asked.left > 0 /\ Asked),
         UNCHANGED <<now, shiftVars, entry, policyVars, jobVars>>
  PROVE  ShiftInv'
<1>1. Clock'
  BY DEF ShiftInv, Clock, Asked, jobVars
<1>2. EntryRows' /\ OneTimer'
  BY DEF ShiftInv, EntryRows, OneTimer
<1>3. PolicyRows' /\ Swept' /\ OneFlag'
  BY DEF ShiftInv, PolicyRows, policyVars, Swept, jobVars, shiftVars, OneFlag, SameFlag
<1>4. UNCHANGED <<session, presence>> /\ now <= now'
  BY DEF shiftVars, ShiftInv, Clock, Instants
<1>5. DOMAIN req' = Requests /\ \A p \in Requests : req'[p] = req[p] \/ ShiftSound(req'[p])
  BY DEF ShiftInv
<1> QED
  BY <1>1, <1>2, <1>3, <1>4, <1>5, ShiftsUntouched

LEMMA IdleIsSound == ShiftSound(Idle)
BY DEF ShiftSound, Idle

LEMMA RequestRefused ==
  ASSUME ShiftInv, NEW r \in Requests, Refused(r)
  PROVE  ShiftInv'
BY RequestTakes, IdleIsSound DEF Refused, Finish

(* What a search for the open interval finds.                              *)
LEMMA FoundInterval ==
  ASSUME ShiftInv, NEW s \in DOMAIN session, NEW q, q.session = s, q.at = now, q.found = OpenInterval(s)
  PROVE  Found(q)
<1>1. now \in 0 .. now
  BY DEF ShiftInv, Clock, Instants
<1>2. OpenInterval(s) \in {0} \union OpenIntervals(s)
  BY DEF OpenInterval
<1>3. OpenInterval(s) # 0 => OpenInterval(s) \in IntervalsOf(s)
  BY <1>2 DEF OpenIntervals, IntervalsOf
<1> QED
  BY <1>1, <1>3 DEF Found, ShiftInv, ShiftRows, IntervalsOf

-----------------------------------------------------------------------------
(* Asking: what each handler has read when it is about to write.           *)

LEMMA Types ==
  ASSUME ShiftInv
  PROVE  /\ now \in Nat /\ now \in Instants
         /\ \A s \in DOMAIN session : session[s] \in Session
         /\ \A i \in DOMAIN presence : presence[i] \in Interval
         /\ \A e \in DOMAIN entry : entry[e] \in Entry
         /\ None \notin Nat
BY WorkTimeAssumption DEF ShiftInv, Clock, ShiftRows, EntryRows, Instants

LEMMA InstantsAreNaturals == Instants \subseteq Nat
BY DEF Instants

LEMMA AskClockIn ==
  ASSUME ShiftInv, NEW r \in Requests, NEW u \in Users, NEW w \in Workspaces, NEW p, ClockIn(r, u, w, p)
  PROVE  ShiftInv'
<1> DEFINE eff == Resolved(w, u, DayOf(now))
           x == [pc |-> "clockIn", user |-> u, ws |-> w, at |-> now, eff |-> eff,
                 late |-> LateAt(eff, now) /\ policy[w].flags]
<1>1. Fitting(eff)
  BY ResolvedFits, DayOfInstant, Types DEF ShiftInv, PolicyRows
<1>2. ShiftSound(x)
  <2> HIDE DEF eff
  <2>1. now \in 0 .. now
    BY Types
  <2> QED
    BY <1>1, <2>1 DEF ShiftSound
<1>3. req' = [req EXCEPT ![r] = x] /\ asked.left > 0 /\ Asked
      /\ UNCHANGED <<now, shiftVars, entry, policyVars, jobVars>>
  BY DEF ClockIn, Ready, Allowed, Wait
<1> HIDE DEF x
<1> QED
  BY <1>2, <1>3, RequestTakes

LEMMA AskClockOut ==
  ASSUME ShiftInv, NEW r \in Requests, NEW u \in Users, NEW w \in Workspaces, NEW p, ClockOut(r, u, w, p)
  PROVE  ShiftInv'
<1>1. PICK s \in OpenSessions(u) :
       LET eff == Resolved(w, u, session[s].day)
           end == IF session[s].end # None THEN session[s].end ELSE eff.end
           raw == IF end # None /\ now > end THEN now - end ELSE 0
       IN  /\ session[s].ws = w
           /\ Wait(r, [pc |-> "clockOut", session |-> s, at |-> now, found |-> OpenInterval(s),
                       breakPaid |-> eff.breakPaid, raw |-> raw,
                       counted |-> IF policy[w].overtime THEN raw ELSE 0,
                       flags |-> IF ~policy[w].flags THEN {}
                                 ELSE {t \in {"EARLY_OUT"} : EarlyAt(eff, session[s].day, now)}
                                        \union {t \in {"OUT_OF_GEOFENCE"} : LeftFence(w, p)}])
  BY DEF ClockOut
<1> DEFINE eff == Resolved(w, u, session[s].day)
           end == IF session[s].end # None THEN session[s].end ELSE eff.end
           raw == IF end # None /\ now > end THEN now - end ELSE 0
           counted == IF policy[w].overtime THEN raw ELSE 0
           flags == IF ~policy[w].flags THEN {}
                    ELSE {t \in {"EARLY_OUT"} : EarlyAt(eff, session[s].day, now)}
                           \union {t \in {"OUT_OF_GEOFENCE"} : LeftFence(w, p)}
           x == [pc |-> "clockOut", session |-> s, at |-> now, found |-> OpenInterval(s),
                 breakPaid |-> eff.breakPaid, raw |-> raw, counted |-> counted, flags |-> flags]
<1>2. s \in DOMAIN session /\ session[s] \in Session
  BY Types DEF OpenSessions
<1>3. eff.end \in Nat \union {None} /\ session[s].end \in Nat \union {None}
  BY <1>2, ResolvedFits DEF ShiftInv, PolicyRows, Session
<1>4. raw \in Nat /\ counted \in Nat
  <2> HIDE DEF eff
  <2> QED
    BY <1>3, Types
<1>5. flags \subseteq FlagTypes
  BY DEF FlagTypes
<1>6. x.pc = "clockOut" /\ x.raw = raw /\ x.counted = counted /\ x.flags = flags
      /\ x.session = s /\ x.at = now /\ x.found = OpenInterval(s)
  OBVIOUS
<1>7. req' = [req EXCEPT ![r] = x] /\ asked.left > 0 /\ Asked
      /\ UNCHANGED <<now, shiftVars, entry, policyVars, jobVars>>
  BY <1>1 DEF ClockOut, Ready, Allowed, Wait
<1> HIDE DEF x, raw, counted, flags
<1>8. ShiftSound(x)
  BY <1>2, <1>4, <1>5, <1>6, FoundInterval DEF ShiftSound
<1> QED
  BY <1>7, <1>8, RequestTakes

LEMMA AskCloseAnywhere ==
  ASSUME ShiftInv, NEW r \in Requests, NEW u \in Users, CloseMyOpenSession(r, u)
  PROVE  ShiftInv'
<1>1. PICK s \in OpenSessions(u) :
        Wait(r, [pc |-> "clockOut", session |-> s, at |-> now, found |-> OpenInterval(s),
                 breakPaid |-> TRUE, raw |-> 0, counted |-> 0, flags |-> {}])
  BY DEF CloseMyOpenSession
<1> DEFINE x == [pc |-> "clockOut", session |-> s, at |-> now, found |-> OpenInterval(s),
                 breakPaid |-> TRUE, raw |-> 0, counted |-> 0, flags |-> {}]
<1>2. s \in DOMAIN session
  BY DEF OpenSessions
<1>3. ShiftSound(x)
  BY <1>2, FoundInterval DEF ShiftSound
<1>4. req' = [req EXCEPT ![r] = x] /\ asked.left > 0 /\ Asked
      /\ UNCHANGED <<now, shiftVars, entry, policyVars, jobVars>>
  BY <1>1 DEF CloseMyOpenSession, Ready, Allowed, Wait
<1> HIDE DEF x
<1> QED
  BY <1>3, <1>4, RequestTakes

LEMMA AskPresence ==
  ASSUME ShiftInv, NEW r \in Requests, NEW u \in Users, NEW w \in Workspaces, NEW status \in Statuses,
         SetPresence(r, u, w, status)
  PROVE  ShiftInv'
<1>1. PICK s \in OpenSessions(u) :
        Wait(r, [pc |-> "presence", session |-> s, at |-> now, found |-> OpenInterval(s),
                 status |-> status])
  BY DEF SetPresence
<1> DEFINE x == [pc |-> "presence", session |-> s, at |-> now, found |-> OpenInterval(s),
                 status |-> status]
<1>2. s \in DOMAIN session /\ status \in PresenceStatuses
  BY WorkTimeAssumption DEF OpenSessions
<1>3. ShiftSound(x)
  BY <1>2, FoundInterval DEF ShiftSound
<1>4. req' = [req EXCEPT ![r] = x] /\ asked.left > 0 /\ Asked
      /\ UNCHANGED <<now, shiftVars, entry, policyVars, jobVars>>
  BY <1>1 DEF SetPresence, Ready, Allowed, Wait
<1> HIDE DEF x
<1> QED
  BY <1>3, <1>4, RequestTakes

LEMMA AskByHand ==
  ASSUME ShiftInv, NEW r \in Requests, NEW a \in Users, NEW u \in Users, NEW span \in Ranges,
         \/ \E w \in Workspaces : CreateWorkSession(r, a, u, w, span)
         \/ \E s \in DOMAIN session : UpdateWorkSession(r, a, s, u, span)
         \/ \E w \in Workspaces : CreateTimeEntry(r, a, w, span)
  PROVE  ShiftInv'
<1>1. ASSUME NEW w \in Workspaces, CreateWorkSession(r, a, u, w, span) PROVE ShiftInv'
  <2> DEFINE x == [pc |-> "manual", user |-> u, ws |-> w, span |-> span]
  <2>1. ShiftSound(x)
    BY DEF ShiftSound
  <2>2. req' = [req EXCEPT ![r] = x] /\ asked.left > 0 /\ Asked
        /\ UNCHANGED <<now, shiftVars, entry, policyVars, jobVars>>
    BY <1>1 DEF CreateWorkSession, Ready, Allowed, Wait
  <2> HIDE DEF x
  <2> QED
    BY <2>1, <2>2, RequestTakes
<1>2. ASSUME NEW s \in DOMAIN session, UpdateWorkSession(r, a, s, u, span) PROVE ShiftInv'
  <2> DEFINE status == IF session[s].status = "OPEN" THEN "ADMIN_CLOSED" ELSE session[s].status
             x == [pc |-> "adjust", session |-> s, user |-> u, span |-> span, status |-> status]
  <2>1. status \in {"CLOSED", "AUTO_CLOSED", "ADMIN_CLOSED"}
    BY Types DEF Session
  <2>2. req' = [req EXCEPT ![r] = x] /\ asked.left > 0 /\ Asked
        /\ UNCHANGED <<now, shiftVars, entry, policyVars, jobVars>>
    BY <1>2 DEF UpdateWorkSession, Ready, Allowed, Wait
  <2>3. ShiftSound(x)
    <3> HIDE DEF status
    <3> QED
      BY <2>1 DEF ShiftSound
  <2> HIDE DEF x
  <2> QED
    BY <2>2, <2>3, RequestTakes
<1>3. ASSUME NEW w \in Workspaces, CreateTimeEntry(r, a, w, span) PROVE ShiftInv'
  <2> DEFINE x == [pc |-> "create", user |-> a, ws |-> w, span |-> span]
  <2>1. ShiftSound(x)
    BY DEF ShiftSound
  <2>2. req' = [req EXCEPT ![r] = x] /\ asked.left > 0 /\ Asked
        /\ UNCHANGED <<now, shiftVars, entry, policyVars, jobVars>>
    BY <1>3 DEF CreateTimeEntry, Ready, Allowed, Wait
  <2> HIDE DEF x
  <2> QED
    BY <2>1, <2>2, RequestTakes
<1> QED
  BY <1>1, <1>2, <1>3

-----------------------------------------------------------------------------
(* Timers and time entries.                                                *)

LEMMA AskTimer ==
  ASSUME ShiftInv, NEW r \in Requests, NEW u \in Users, NEW w \in Workspaces, StopTimer(r, u, w)
  PROVE  ShiftInv'
<1>1. PICK e \in Running(u, w) :
        Wait(r, [pc |-> "write", entry |-> e,
                 row |-> [from |-> None, to |-> now, minutes |-> Max({0, now - entry[e].from})]])
  BY DEF StopTimer
<1> DEFINE minutes == Max({0, now - entry[e].from})
           x == [pc |-> "write", entry |-> e, row |-> [from |-> None, to |-> now, minutes |-> minutes]]
<1>2. entry[e].from \in Nat
  BY Types, InstantsAreNaturals DEF Running, Entry
<1>3. minutes \in Nat
  BY <1>2, MaxNatural, Types
<1>4. req' = [req EXCEPT ![r] = x] /\ asked.left > 0 /\ Asked
      /\ UNCHANGED <<now, shiftVars, entry, policyVars, jobVars>>
  BY <1>1 DEF StopTimer, Ready, Allowed, Wait
<1> HIDE DEF minutes
<1>5. ShiftSound(x)
  BY <1>3, Types DEF ShiftSound
<1> HIDE DEF x
<1> QED
  BY <1>4, <1>5, RequestTakes

LEMMA AskEntry ==
  ASSUME ShiftInv, NEW r \in Requests, NEW a \in Users, NEW e \in DOMAIN entry,
         (\E span \in Ranges \union {None} : UpdateTimeEntry(r, a, e, span)) \/ DeleteTimeEntry(r, a, e)
  PROVE  ShiftInv'
<1>1. ASSUME NEW span \in Ranges \union {None}, UpdateTimeEntry(r, a, e, span) PROVE ShiftInv'
  <2> DEFINE from == IF span = None THEN entry[e].from ELSE span[1]
             to   == IF span = None THEN entry[e].to ELSE span[2]
             minutes == IF to = None THEN None ELSE to - from
             x == [pc |-> "write", entry |-> e, row |-> [from |-> from, to |-> to, minutes |-> minutes]]
  <2>1. /\ to # None => from < to
        /\ req' = [req EXCEPT ![r] = x] /\ asked.left > 0 /\ Asked
        /\ UNCHANGED <<now, shiftVars, entry, policyVars, jobVars>>
    BY <1>1 DEF UpdateTimeEntry, Ready, Allowed, Wait
  <2>2. from \in Instants /\ to \in Instants \union {None}
    <3>1. entry[e] \in Entry
      BY Types
    <3>2. span # None => span \in Instants \X Instants
      BY WorkTimeAssumption
    <3> QED
      BY <3>1, <3>2 DEF Entry
  <2>3. minutes \in Nat \union {None}
    <3>1. from \in Nat /\ to \in Nat \union {None}
      BY <2>2, InstantsAreNaturals
    <3> HIDE DEF from, to
    <3> QED
      BY <2>1, <3>1
  <2> HIDE DEF from, to, minutes
  <2>4. ShiftSound(x)
    BY <2>2, <2>3 DEF ShiftSound
  <2> HIDE DEF x
  <2> QED
    BY <2>1, <2>4, RequestTakes
<1>2. ASSUME DeleteTimeEntry(r, a, e) PROVE ShiftInv'
  <2> DEFINE x == [pc |-> "delete", entry |-> e]
  <2>1. ShiftSound(x)
    BY DEF ShiftSound
  <2>2. req' = [req EXCEPT ![r] = x] /\ asked.left > 0 /\ Asked
        /\ UNCHANGED <<now, shiftVars, entry, policyVars, jobVars>>
    BY <1>2 DEF DeleteTimeEntry, Ready, Allowed, Wait
  <2> HIDE DEF x
  <2> QED
    BY <2>1, <2>2, RequestTakes
<1> QED
  BY <1>1, <1>2

(* A step that writes entries and nothing else.                            *)
LEMMA EntryWritten ==
  ASSUME ShiftInv, UNCHANGED <<now, shiftVars, policyVars, jobVars>>, Clock', EntryRows', OneTimer',
         DOMAIN req' = Requests, \A p \in Requests : req'[p] = req[p] \/ req'[p] = Idle
  PROVE  ShiftInv'
<1>1. PolicyRows' /\ Swept' /\ OneFlag'
  BY DEF ShiftInv, PolicyRows, policyVars, Swept, jobVars, shiftVars, OneFlag, SameFlag
<1>2. UNCHANGED <<session, presence>> /\ now <= now'
  BY DEF shiftVars, ShiftInv, Clock, Instants
<1>3. \A p \in Requests : req'[p] = req[p] \/ ShiftSound(req'[p])
  BY IdleIsSound
<1> QED
  BY <1>1, <1>2, <1>3, ShiftsUntouched

LEMMA TimerStarts ==
  ASSUME ShiftInv, NEW u \in Users, NEW w \in Workspaces, StartTimer(u, w)
  PROVE  ShiftInv'
<1> DEFINE row == [user |-> u, ws |-> w, from |-> now, to |-> None, minutes |-> None,
                   day |-> DayOf(now), source |-> "TIMER", locked |-> FALSE]
<1>1. PICK e \in Free : entry' = Written(e, row)
  BY DEF StartTimer
<1>2. row \in Entry
  BY Types, DayOfInstant DEF Entry
<1>3. DOMAIN entry' = DOMAIN entry \union {e} /\ entry'[e] = row /\ e \in EntryIds /\ e \notin DOMAIN entry
      /\ \A d \in DOMAIN entry : entry'[d] = entry[d]
  BY <1>1 DEF Written, Free
<1>4. Running(u, w) = {}
  BY DEF StartTimer, MayRun
<1>5. row.user = u /\ row.ws = w
  OBVIOUS
<1>6. Clock' /\ UNCHANGED <<now, shiftVars, policyVars, jobVars, req>>
  BY DEF StartTimer, Allowed, Asked, ShiftInv, Clock, jobVars
<1> HIDE DEF row
<1>7. EntryRows'
  BY <1>2, <1>3 DEF ShiftInv, EntryRows
<1>8. \A d \in DOMAIN entry : entry[d].user = u /\ entry[d].ws = w /\ entry[d].source = "TIMER" => entry[d].to # None
  BY <1>4 DEF Running, Mine
<1>9. OneTimer'
  BY <1>3, <1>5, <1>8 DEF ShiftInv, OneTimer
<1> QED
  BY <1>6, <1>7, <1>9, EntryWritten DEF ShiftInv

LEMMA EntryLocks ==
  ASSUME ShiftInv, NEW a \in Users, NEW e \in DOMAIN entry, SetTimeEntryLock(a, e)
  PROVE  ShiftInv'
<1>1. entry[e] \in Entry
  BY Types
<1>2. entry' = [entry EXCEPT ![e].locked = ~@]
  BY DEF SetTimeEntryLock
<1>3. DOMAIN entry' = DOMAIN entry /\ entry'[e] = [entry[e] EXCEPT !.locked = ~@]
      /\ \A d \in DOMAIN entry \ {e} : entry'[d] = entry[d]
  BY <1>2
<1>4. /\ entry'[e] \in Entry /\ entry'[e].user = entry[e].user /\ entry'[e].ws = entry[e].ws
      /\ entry'[e].to = entry[e].to /\ entry'[e].source = entry[e].source
  BY <1>1, <1>3 DEF Entry
<1>5. EntryRows'
  BY <1>3, <1>4 DEF ShiftInv, EntryRows
<1>6. OneTimer'
  <2>1. \A d \in DOMAIN entry : /\ entry'[d].user = entry[d].user /\ entry'[d].ws = entry[d].ws
                               /\ entry'[d].to = entry[d].to /\ entry'[d].source = entry[d].source
    BY <1>3, <1>4
  <2> QED
    BY <1>3, <2>1 DEF ShiftInv, OneTimer
<1>7. Clock' /\ UNCHANGED <<now, shiftVars, policyVars, jobVars, req>>
  BY DEF SetTimeEntryLock, Allowed, Asked, ShiftInv, Clock, jobVars
<1> QED
  BY <1>5, <1>6, <1>7, EntryWritten DEF ShiftInv

LEMMA EntryCreated ==
  ASSUME ShiftInv, NEW r \in Requests, FinishCreateTimeEntry(r)
  PROVE  ShiftInv'
<1> DEFINE q == req[r]
           row == [user |-> q.user, ws |-> q.ws, from |-> q.span[1], to |-> q.span[2],
                   minutes |-> q.span[2] - q.span[1], day |-> DayOf(q.span[1]), source |-> "MANUAL",
                   locked |-> FALSE]
<1>1. q.pc = "create" /\ Finish(r) /\ UNCHANGED <<now, shiftVars, policyVars, jobVars>>
  BY DEF FinishCreateTimeEntry
<1>2. PICK e \in Free : entry' = Written(e, row)
  BY DEF FinishCreateTimeEntry
<1>3. q.user \in Users /\ q.ws \in Workspaces /\ q.span \in Ranges
  BY <1>1 DEF ShiftInv, ShiftSound
<1>4. q.span[1] \in Instants /\ q.span[2] \in Instants /\ q.span[1] < q.span[2]
  BY <1>3, WorkTimeAssumption
<1>5. q.span[2] - q.span[1] \in Nat /\ q.span[2] # None
  <2>1. q.span[1] \in Nat /\ q.span[2] \in Nat
    BY <1>4, InstantsAreNaturals
  <2> QED
    BY <1>4, <2>1, WorkTimeAssumption
<1>6. row \in Entry
  BY <1>3, <1>4, <1>5, DayOfInstant DEF Entry
<1>7. row.source = "MANUAL"
  OBVIOUS
<1> HIDE DEF row
<1>8. DOMAIN entry' = DOMAIN entry \union {e} /\ entry'[e] = row /\ e \in EntryIds /\ e \notin DOMAIN entry
      /\ \A d \in DOMAIN entry : entry'[d] = entry[d]
  BY <1>2 DEF Written, Free
<1>9. EntryRows'
  BY <1>6, <1>8 DEF ShiftInv, EntryRows
<1>10. OneTimer'
  BY <1>7, <1>8 DEF ShiftInv, OneTimer
<1>11. Clock' /\ DOMAIN req' = Requests /\ \A p \in Requests : req'[p] = req[p] \/ req'[p] = Idle
  BY <1>1 DEF Finish, ShiftInv, Clock, jobVars
<1> QED
  BY <1>1, <1>9, <1>10, <1>11, EntryWritten

LEMMA EntryRewritten ==
  ASSUME ShiftInv, NEW r \in Requests, FinishWriteEntry(r)
  PROVE  ShiftInv'
<1> DEFINE q == req[r]
           e == q.entry
           from == IF q.row.from = None THEN entry[e].from ELSE q.row.from
<1>1. CASE Refused(r)
  BY <1>1, RequestRefused
<1>2. CASE ~Refused(r)
  <2>1. /\ q.pc = "write" /\ e \in DOMAIN entry
        /\ q.row.to = None => Running(entry[e].user, entry[e].ws) \ {e} = {}
        /\ entry' = [entry EXCEPT ![e] = [@ EXCEPT !.from = from, !.to = q.row.to,
                                                   !.minutes = q.row.minutes]]
        /\ Finish(r) /\ UNCHANGED <<now, shiftVars, policyVars, jobVars>>
    BY <1>2 DEF FinishWriteEntry, MayRun
  <2>2. /\ q.row.from \in Instants \union {None} /\ q.row.to \in Instants \union {None}
        /\ q.row.minutes \in Nat \union {None}
    BY <2>1 DEF ShiftInv, ShiftSound
  <2>3. entry[e] \in Entry
    BY <2>1, Types
  <2>4. from \in Instants
    BY <2>2, <2>3 DEF Entry
  <2>5. /\ entry'[e] = [entry[e] EXCEPT !.from = from, !.to = q.row.to, !.minutes = q.row.minutes]
        /\ DOMAIN entry' = DOMAIN entry /\ \A d \in DOMAIN entry \ {e} : entry'[d] = entry[d]
    BY <2>1
  <2> HIDE DEF from
  <2>6. /\ entry'[e] \in Entry /\ entry'[e].user = entry[e].user /\ entry'[e].ws = entry[e].ws
        /\ entry'[e].to = q.row.to /\ entry'[e].source = entry[e].source
    <3> DEFINE y == [entry[e] EXCEPT !.from = from, !.to = q.row.to, !.minutes = q.row.minutes]
    <3>1. y \in Entry
      BY <2>2, <2>3, <2>4 DEF Entry
    <3>2. /\ y.user = entry[e].user /\ y.ws = entry[e].ws
          /\ y.to = q.row.to /\ y.source = entry[e].source
      BY <2>3 DEF Entry
    <3>3. entry'[e] = y
      BY <2>5
    <3> HIDE DEF y
    <3> QED
      BY <3>1, <3>2, <3>3
  <2>7. EntryRows'
    BY <2>5, <2>6 DEF ShiftInv, EntryRows
  <2>8. q.row.to = None => \A d \in DOMAIN entry \ {e} :
          entry[d].user = entry[e].user /\ entry[d].ws = entry[e].ws /\ entry[d].source = "TIMER"
            => entry[d].to # None
    BY <2>1 DEF Running, Mine
  <2>9. OneTimer'
    <3> SUFFICES ASSUME NEW c \in DOMAIN entry, NEW d \in DOMAIN entry, c # d,
                        entry'[c].user = entry'[d].user, entry'[c].ws = entry'[d].ws,
                        entry'[c].to = None, entry'[d].to = None,
                        entry'[c].source = "TIMER", entry'[d].source = "TIMER"
                 PROVE  FALSE
      BY <2>5 DEF OneTimer
    <3>1. CASE c # e /\ d # e
      BY <2>5, <3>1 DEF ShiftInv, OneTimer
    <3>2. CASE c = e
      BY <2>5, <2>6, <2>8, <3>2
    <3>3. CASE d = e
      BY <2>5, <2>6, <2>8, <3>3
    <3> QED
      BY <3>1, <3>2, <3>3
  <2>10. Clock' /\ DOMAIN req' = Requests /\ \A p \in Requests : req'[p] = req[p] \/ req'[p] = Idle
    BY <2>1 DEF Finish, ShiftInv, Clock, jobVars
  <2> QED
    BY <2>1, <2>7, <2>9, <2>10, EntryWritten
<1> QED
  BY <1>1, <1>2

LEMMA EntryDeleted ==
  ASSUME ShiftInv, NEW r \in Requests, FinishDeleteTimeEntry(r)
  PROVE  ShiftInv'
<1>1. DOMAIN entry' \subseteq DOMAIN entry /\ \A d \in DOMAIN entry' : entry'[d] = entry[d]
  BY DEF FinishDeleteTimeEntry
<1>2. EntryRows' /\ OneTimer'
  BY <1>1 DEF ShiftInv, EntryRows, OneTimer
<1>3. Clock' /\ DOMAIN req' = Requests /\ \A p \in Requests : req'[p] = req[p] \/ req'[p] = Idle
  BY DEF FinishDeleteTimeEntry, Finish, ShiftInv, Clock, jobVars
<1>4. UNCHANGED <<now, shiftVars, policyVars, jobVars>>
  BY DEF FinishDeleteTimeEntry
<1> QED
  BY <1>2, <1>3, <1>4, EntryWritten

-----------------------------------------------------------------------------
(* The policy, the clock, and a tick that starts or dies.                  *)

LEMMA HoursAppended ==
  ASSUME PolicyRows, NEW a, NEW w \in Workspaces, NEW plan \in Hours, NEW day \in Days,
         CreateSchedule(a, w, plan, day)
  PROVE  hours' \in [Workspaces -> Seq(HoursRow)]
<1> DEFINE current == {k \in DOMAIN hours[w] : hours[w][k].plan.user = plan.user /\ hours[w][k].to = None}
           rows == [k \in DOMAIN hours[w] |-> IF k \in current THEN [hours[w][k] EXCEPT !.to = day]
                                              ELSE hours[w][k]]
           new == [plan |-> plan, from |-> day, to |-> None]
<1>1. hours' = [hours EXCEPT ![w] = Append(rows, new)]
  BY DEF CreateSchedule
<1>2. new \in HoursRow
  BY WorkTimeAssumption DEF HoursRow
<1>3. hours[w] \in Seq(HoursRow)
  BY DEF PolicyRows
<1>4. \A k \in DOMAIN hours[w] : rows[k] \in HoursRow
  <2> SUFFICES ASSUME NEW k \in DOMAIN hours[w] PROVE rows[k] \in HoursRow
    OBVIOUS
  <2>1. hours[w][k] \in HoursRow
    BY <1>3
  <2>2. [hours[w][k] EXCEPT !.to = day] \in HoursRow
    BY <2>1 DEF HoursRow
  <2> QED
    BY <2>1, <2>2
<1>5. DOMAIN rows = 1 .. Len(hours[w]) /\ Len(hours[w]) \in Nat
  BY <1>3
<1> HIDE DEF rows, new
<1>6. rows \in Seq(HoursRow)
  <2>1. rows = [k \in 1 .. Len(hours[w]) |-> rows[k]]
    BY <1>5 DEF rows
  <2> QED
    BY <1>3, <1>4, <1>5, <2>1, IsASeq
<1>7. Append(rows, new) \in Seq(HoursRow)
  BY <1>2, <1>6, AppendProperties
<1> QED
  BY <1>1, <1>7 DEF PolicyRows

LEMMA PolicyChanged ==
  ASSUME ShiftInv, ChangingPolicy
  PROVE  ShiftInv'
<1>1. PICK a \in Users, w \in Workspaces :
        \/ \E plan \in Hours, day \in Days : CreateSchedule(a, w, plan, day)
        \/ \E day \in Days : CreateHoliday(a, w, day) \/ DeleteHoliday(a, w, day)
        \/ \E p \in Policies : UpdateSettings(a, w, p)
        \/ \E p \in Sites : CreateSite(a, w, p) \/ DeactivateSite(a, w, p)
  BY DEF ChangingPolicy
<1>2. \E op : Changing(op, a, w)
  BY <1>1 DEF CreateSchedule, CreateHoliday, DeleteHoliday, UpdateSettings, CreateSite, DeactivateSite
<1>3. /\ asked.left > 0 /\ asked' = [asked EXCEPT !.left = @ - 1]
      /\ UNCHANGED <<now, shiftVars, entry, jobVars, req>>
  BY <1>2 DEF Changing, Allowed, Asked
<1>4. Clock' /\ EntryRows' /\ OneTimer' /\ Swept' /\ OneFlag'
  BY <1>3 DEF ShiftInv, Clock, EntryRows, OneTimer, Swept, jobVars, shiftVars, OneFlag, SameFlag
<1>5. PolicyRows'
  <2>1. ASSUME NEW plan \in Hours, NEW day \in Days, CreateSchedule(a, w, plan, day) PROVE PolicyRows'
    BY <2>1, HoursAppended DEF ShiftInv, PolicyRows, CreateSchedule
  <2>2. ASSUME NEW day \in Days, CreateHoliday(a, w, day) \/ DeleteHoliday(a, w, day) PROVE PolicyRows'
    BY <2>2 DEF ShiftInv, PolicyRows, CreateHoliday, DeleteHoliday
  <2>3. ASSUME NEW p \in Policies, UpdateSettings(a, w, p) PROVE PolicyRows'
    BY <2>3, WorkTimeAssumption DEF ShiftInv, PolicyRows, UpdateSettings
  <2>4. ASSUME NEW p \in Sites, CreateSite(a, w, p) \/ DeactivateSite(a, w, p) PROVE PolicyRows'
    BY <2>4 DEF ShiftInv, PolicyRows, CreateSite, DeactivateSite
  <2> QED
    BY <1>1, <2>1, <2>2, <2>3, <2>4
<1>6. UNCHANGED <<session, presence>> /\ now <= now'
  BY <1>3 DEF shiftVars, ShiftInv, Clock, Instants
<1> QED
  BY <1>3, <1>4, <1>5, <1>6, ShiftsUntouched DEF ShiftInv

LEMMA ClockTicks ==
  ASSUME ShiftInv, Tick
  PROVE  ShiftInv'
<1>0. now \in Nat /\ MaxTime \in Nat /\ now < MaxTime /\ now' = now + 1
  BY Types, WorkTimeAssumption DEF Tick
<1>1. Clock' /\ now <= now'
  <2>1. now' \in Instants /\ now <= now'
    BY <1>0 DEF Instants
  <2> QED
    BY <2>1 DEF Tick, reqVars, jobVars, ShiftInv, Clock
<1>2. EntryRows' /\ PolicyRows' /\ OneTimer' /\ Swept' /\ OneFlag'
  BY DEF Tick, ShiftInv, EntryRows, OneTimer, Swept, jobVars, shiftVars, OneFlag, SameFlag, policyVars,
         PolicyRows
<1>3. UNCHANGED <<session, presence, req>>
  BY DEF Tick, shiftVars, reqVars
<1> QED
  BY <1>1, <1>2, <1>3, ShiftsUntouched DEF ShiftInv

(* The end a forgotten session is given lies in the past.                  *)
LEMMA CreditedEndIsPast ==
  ASSUME ShiftInv, NEW s \in DOMAIN session, Forgotten(s)
  PROVE  CreditedEnd(s) \in Instants
<1>1. now \in Nat /\ now <= MaxTime /\ CloseGrace \in Nat /\ Ceiling \in Nat
  BY WorkTimeAssumption DEF ShiftInv, Clock, Instants
<1>2. session[s] \in Session /\ (session[s].end = None => session[s].expected = 0)
  BY DEF ShiftInv, ShiftRows
<1>3. session[s].in \in Nat /\ session[s].end \in Nat \union {None}
  BY <1>2, InstantsAreNaturals DEF Session
<1>4. MaxTime \in Nat /\ None \notin Nat
  BY WorkTimeAssumption
<1>5. CASE session[s].end # None
  <2>1. session[s].end \in Nat /\ session[s].end < now - CloseGrace
    BY <1>3, <1>5 DEF Forgotten
  <2>2. session[s].end \in 0 .. MaxTime
    BY <1>1, <1>4, <2>1
  <2> QED
    BY <1>5, <2>2 DEF CreditedEnd, Instants
<1>6. CASE session[s].end = None
  <2>1. session[s].in \in Instants /\ session[s].expected = 0
    BY <1>2, <1>6 DEF Session
  <2>2. session[s].in + session[s].expected = session[s].in
    BY <1>3, <2>1
  <2> QED
    BY <1>6, <2>1, <2>2 DEF CreditedEnd
<1> QED
  BY <1>5, <1>6

LEMMA SweepTurns ==
  ASSUME ShiftInv, SweepStart \/ SweepCrash
  PROVE  ShiftInv'
<1>1. Swept'
  <2>1. CASE SweepStart
    <3>1. \A s \in DOMAIN session : session[s].in \in Instants
      BY Types DEF Session
    <3>2. \A s \in DOMAIN session : Forgotten(s) => CreditedEnd(s) \in Instants
      BY CreditedEndIsPast
    <3>3. UNCHANGED session
      BY <2>1 DEF SweepStart, shiftVars
    <3> QED
      BY <2>1, <3>1, <3>2, <3>3 DEF SweepStart, Swept
  <2>2. CASE SweepCrash
    BY <2>2 DEF SweepCrash, Swept
  <2> QED
    BY <2>1, <2>2
<1>2. Clock' /\ now <= now'
  <2>1. crashes \in Nat /\ MaxCrashes \in Nat /\ crashes <= MaxCrashes
    BY WorkTimeAssumption DEF ShiftInv, Clock
  <2>2. crashes' = crashes \/ (crashes < MaxCrashes /\ crashes' = crashes + 1)
    BY DEF SweepStart, SweepCrash
  <2>3. crashes' \in 0 .. MaxCrashes
    BY <2>1, <2>2
  <2>4. UNCHANGED <<now, asked>>
    BY DEF SweepStart, SweepCrash, reqVars
  <2>5. now <= now'
    BY <2>4, Types
  <2> QED
    BY <2>3, <2>4, <2>5 DEF ShiftInv, Clock
<1>3. EntryRows' /\ PolicyRows' /\ OneTimer' /\ OneFlag'
  BY DEF SweepStart, SweepCrash, ShiftInv, EntryRows, OneTimer, shiftVars, OneFlag, SameFlag,
         policyVars, PolicyRows
<1>4. UNCHANGED <<session, presence, req>>
  BY DEF SweepStart, SweepCrash, shiftVars, reqVars
<1> QED
  BY <1>1, <1>2, <1>3, <1>4, ShiftsUntouched DEF ShiftInv

-----------------------------------------------------------------------------
(* Writing: what each request, and the tick, does to the rows.             *)

(* A step that writes sessions, their intervals or flags.                  *)
LEMMA ShiftsTouched ==
  ASSUME ShiftInv, UNCHANGED <<now, entry, policyVars, crashes, asked>>,
         ShiftRows', Shifts', OneShift', OneFlag', Swept',
         SameIntervals, DOMAIN session \subseteq DOMAIN session',
         DOMAIN req' = Requests, \A p \in Requests : req'[p] = req[p] \/ req'[p] = Idle
  PROVE  ShiftInv'
<1>1. Clock' /\ EntryRows' /\ PolicyRows' /\ OneTimer'
  BY DEF ShiftInv, Clock, EntryRows, PolicyRows, policyVars, OneTimer
<1>2. ASSUME NEW p \in Requests PROVE ShiftSound(req[p])'
  <2>1. ShiftSound(req'[p])
    BY IdleIsSound DEF ShiftInv
  <2>2. PICK q : q = req'[p]
    OBVIOUS
  <2>3. now <= now' /\ Clock
    BY Types DEF ShiftInv
  <2> QED
    BY <1>1, <2>1, <2>2, <2>3, SoundStays
<1> QED
  BY <1>1, <1>2 DEF ShiftInv

(* Raising flags keeps them one of a kind.                                 *)
LEMMA RaisedFits ==
  ASSUME OneFlag, NEW new, new \subseteq Flag, \A f, g \in new : SameFlag(f, g) => f = g,
         flag' = Raised(new)
  PROVE  OneFlag'
<1>1. \A f, g : SameFlag(f, g) => SameFlag(g, f)
  BY DEF SameFlag
<1>2. \A f, g : SameFlag(f, g)' <=> SameFlag(f, g)
  BY DEF SameFlag
<1>3. \A f, g \in flag' : SameFlag(f, g) => f = g
  BY <1>1 DEF Raised, OneFlag
<1>4. flag' \subseteq Flag
  BY DEF Raised, OneFlag
<1> QED
  BY <1>2, <1>3, <1>4 DEF OneFlag

LEMMA FlagsOfSession ==
  ASSUME NEW s, s.user \in Users, s.ws \in Workspaces, s.day \in Days, NEW k \in 0 .. MaxSessions,
         NEW types \in SUBSET FlagTypes
  PROVE  /\ FlagOf(s, k, types) \subseteq Flag
         /\ \A f, g \in FlagOf(s, k, types) : SameFlag(f, g) => f = g
BY DEF FlagOf, Flag, SameFlag

(* What ends a found interval.                                             *)
LEMMA EndedIntervals ==
  ASSUME ShiftInv, NEW q, Found(q), NEW rows, rows = Ended(presence, q.found, q.at)
  PROVE  /\ rows \in Seq(Interval) /\ Len(rows) = Len(presence) /\ DOMAIN rows = DOMAIN presence
         /\ \A i \in DOMAIN presence :
              /\ rows[i].session = presence[i].session /\ rows[i].from = presence[i].from
              /\ rows[i].status = presence[i].status
              /\ rows[i].to # None => rows[i].from <= rows[i].to
              /\ rows[i] = presence[i] \/ (i = q.found /\ rows[i].to = q.at)
<1>1. presence \in Seq(Interval) /\ \A i \in DOMAIN presence : presence[i] \in Interval
  BY Types DEF ShiftInv, ShiftRows
<1>2. q.at \in Instants
  <2>1. q.at \in 0 .. now /\ now \in 0 .. MaxTime /\ now \in Nat /\ MaxTime \in Nat
    BY Types, WorkTimeAssumption DEF Found, Instants
  <2> QED
    BY <2>1 DEF Instants
<1>3. \A i \in DOMAIN presence : presence[i].to # None => presence[i].from <= presence[i].to
  BY DEF ShiftInv, ShiftRows
<1>4. CASE q.found = 0
  BY <1>1, <1>3, <1>4 DEF Ended
<1>5. CASE q.found # 0
  <2> DEFINE i == q.found
             y == [presence[i] EXCEPT !.to = q.at]
  <2>1. i \in DOMAIN presence /\ presence[i].from <= q.at
    BY <1>5 DEF Found, IntervalsOf
  <2>2. rows = [presence EXCEPT ![i] = y]
    BY <1>5 DEF Ended
  <2>3. y \in Interval /\ y.to = q.at /\ y.session = presence[i].session /\ y.from = presence[i].from
        /\ y.status = presence[i].status
    BY <1>1, <1>2, <2>1 DEF Interval
  <2> HIDE DEF y
  <2>4. rows \in Seq(Interval) /\ Len(rows) = Len(presence) /\ DOMAIN rows = DOMAIN presence
    BY <1>1, <2>1, <2>2, <2>3
  <2>5. rows[i] = y /\ \A j \in DOMAIN presence \ {i} : rows[j] = presence[j]
    BY <2>1, <2>2
  <2> QED
    BY <1>3, <2>1, <2>3, <2>4, <2>5
<1> QED
  BY <1>4, <1>5

(* A session whose intervals a step does not write.                        *)
LEMMA OthersStay ==
  ASSUME Shifts, NEW t \in DOMAIN session, session'[t] = session[t],
         IntervalsOf(t)' = IntervalsOf(t), \A i \in IntervalsOf(t) : presence'[i] = presence[i]
  PROVE  IF Open(t)' THEN session'[t].status = "OPEN" /\ OpenShift(t)'
         ELSE session'[t].status # "OPEN" /\ session'[t].presence = None
<1>1. Open(t)' <=> Open(t)
  BY DEF Open
<1>2. Open(t) => OpenShift(t)'
  BY OpenShiftStays DEF Shifts
<1> QED
  BY <1>1, <1>2 DEF Shifts

(* The length of an interval that does not end before it begins.           *)
LEMMA LengthNatural ==
  ASSUME NEW x \in Interval, x.to # None => x.from <= x.to
  PROVE  Length(x) \in Nat
<1>1. x.from \in Nat /\ x.to \in Nat \union {None}
  BY InstantsAreNaturals DEF Interval
<1> QED
  BY <1>1 DEF Length

(* A step that ends a session, and writes no interval of another.          *)
LEMMA SessionEnds ==
  ASSUME ShiftInv, NEW s \in DOMAIN session, NEW y \in Session,
         y.out # None, y.status # "OPEN", y.presence = None,
         y.end = session[s].end, y.expected = session[s].expected,
         session' = [session EXCEPT ![s] = y], now' = now,
         presence' \in Seq(Interval), Len(presence') = Len(presence),
         \A i \in DOMAIN presence :
           /\ presence'[i].session = presence[i].session /\ presence'[i].from = presence[i].from
           /\ presence'[i].to # None => presence'[i].from <= presence'[i].to
           /\ presence[i].session = s \/ presence'[i] = presence[i]
  PROVE  /\ ShiftRows' /\ Shifts' /\ OneShift' /\ SameIntervals
         /\ DOMAIN session' = DOMAIN session
<1>1. /\ DOMAIN session' = DOMAIN session /\ Len(session') = Len(session)
      /\ session' \in Seq(Session) /\ session'[s] = y
      /\ \A t \in DOMAIN session \ {s} : session'[t] = session[t]
  BY DEF ShiftInv, ShiftRows
<1>2. DOMAIN presence' = DOMAIN presence
  BY DEF ShiftInv, ShiftRows
<1>3. ShiftRows'
  <2>1. Len(session') <= MaxSessions
    BY <1>1 DEF ShiftInv, ShiftRows
  <2>2. \A i \in DOMAIN presence' :
          /\ presence'[i].session \in DOMAIN session' /\ presence'[i].from <= now'
          /\ presence'[i].to # None => presence'[i].from <= presence'[i].to
    BY <1>1, <1>2 DEF ShiftInv, ShiftRows
  <2>3. \A t \in DOMAIN session' : session'[t].end = None => session'[t].expected = 0
    BY <1>1 DEF ShiftInv, ShiftRows
  <2> QED
    BY <1>1, <2>1, <2>2, <2>3 DEF ShiftRows
<1>4. ASSUME NEW t \in DOMAIN session \ {s}
      PROVE  IF Open(t)' THEN session'[t].status = "OPEN" /\ OpenShift(t)'
             ELSE session'[t].status # "OPEN" /\ session'[t].presence = None
  <2>1. IntervalsOf(t)' = IntervalsOf(t)
    BY <1>2 DEF IntervalsOf
  <2>2. \A i \in IntervalsOf(t) : presence'[i] = presence[i]
    BY DEF IntervalsOf
  <2> QED
    BY <1>1, <2>1, <2>2, OthersStay DEF ShiftInv
<1>5. Shifts'
  <2>1. ~Open(s)'
    BY <1>1 DEF Open
  <2> QED
    BY <1>1, <1>4, <2>1 DEF Shifts
<1>6. OneShift'
  BY <1>1 DEF ShiftInv, OneShift, Open
<1> QED
  BY <1>1, <1>2, <1>3, <1>5, <1>6 DEF SameIntervals

(* The breaks of a session, as PostingProofs sums: a natural number.       *)
LEMMA BreaksAreNatural ==
  ASSUME NEW rows \in Seq(Interval), NEW s,
         \A i \in DOMAIN rows : rows[i].to # None => rows[i].from <= rows[i].to
  PROVE  BreakMinutes(rows, s) \in Nat
<1> DEFINE S == {i \in DOMAIN rows : rows[i].session = s /\ rows[i].status \in {"BREAK", "LUNCH"}}
           f == [i \in S |-> Length(rows[i])]
           A(h) == [x \in SUBSET S |-> IF x = {} THEN 0 ELSE Length(rows[Pick(x)]) + h[x \ {Pick(x)}]]
           B(h) == [x \in SUBSET S |-> IF x = {} THEN 0 ELSE f[Pick(x)] + h[x \ {Pick(x)}]]
<1>1. \A x \in SUBSET S : x # {} => f[Pick(x)] = Length(rows[Pick(x)])
  BY PickIn
<1>2. \A h : A(h) = B(h)
  BY <1>1
<1>3. (CHOOSE h : h = A(h)) = (CHOOSE h : h = B(h))
  BY <1>2
<1>4. BreakMinutes(rows, s) = (CHOOSE h : h = A(h))[S]
  BY DEF BreakMinutes, MapThenSumSet, MapThenFoldSet, Pick
<1>5. Over(f, S) = (CHOOSE h : h = B(h))[S]
  BY DEF Over, MapThenSumSet, MapThenFoldSet, Pick
<1>6. IsFiniteSet(S)
  <2>1. IsFiniteSet(1 .. Len(rows))
    BY FS_Interval
  <2>2. S \subseteq 1 .. Len(rows)
    OBVIOUS
  <2> HIDE DEF S
  <2> QED
    BY <2>1, <2>2, FS_Subset
<1>7. \A i \in S : f[i] \in Nat
  BY LengthNatural
<1>8. BreakMinutes(rows, s) = Over(f, S)
  BY <1>3, <1>4, <1>5
<1> HIDE DEF S, f
<1> QED
  BY <1>6, <1>7, <1>8, SumNat

LEMMA ClosesShift ==
  ASSUME ShiftInv, NEW r \in Requests, FinishClockOut(r)
  PROVE  ShiftInv'
<1> DEFINE q      == req[r]
           s      == q.session
           ended  == Ended(presence, q.found, q.at)
           breaks == IF q.breakPaid THEN 0 ELSE BreakMinutes(ended, s)
           worked == Max({0, q.at - session[s].in - breaks})
           y      == [session[s] EXCEPT !.out = q.at, !.status = "CLOSED", !.presence = None,
                        !.breaks = breaks, !.worked = worked, !.raw = q.raw, !.counted = q.counted]
<1>1. CASE Refused(r)
  BY <1>1, RequestRefused
<1>2. CASE ~Refused(r)
  <2>1. /\ q.pc = "clockOut" /\ presence' = ended /\ session' = [session EXCEPT ![s] = y]
        /\ flag' = Raised(FlagOf(session[s], s, q.flags)) /\ Finish(r)
        /\ UNCHANGED <<now, entry, policyVars, jobVars>>
    BY <1>2 DEF FinishClockOut
  <2>2. Found(q) /\ q.raw \in Nat /\ q.counted \in Nat /\ q.flags \subseteq FlagTypes
    BY <2>1 DEF ShiftInv, ShiftSound
  <2>3. s \in DOMAIN session /\ session[s] \in Session
    BY <2>2, Types DEF Found
  <2>4. q.at \in Instants /\ q.at \in Nat /\ q.at # None
    <3>1. q.at \in 0 .. now /\ now \in 0 .. MaxTime /\ now \in Nat /\ MaxTime \in Nat
      BY <2>2, Types, WorkTimeAssumption DEF Found, Instants
    <3> QED
      BY <3>1, Types DEF Instants
  <2>5. /\ ended \in Seq(Interval) /\ Len(ended) = Len(presence)
        /\ \A i \in DOMAIN presence :
             /\ ended[i].session = presence[i].session /\ ended[i].from = presence[i].from
             /\ ended[i].to # None => ended[i].from <= ended[i].to
             /\ ended[i] = presence[i] \/ i = q.found
    BY <2>2, EndedIntervals
  <2> HIDE DEF ended
  <2>6. DOMAIN ended = DOMAIN presence
    BY <2>5 DEF ShiftInv, ShiftRows
  <2>7. breaks \in Nat
    BY <2>5, <2>6, BreaksAreNatural
  <2> HIDE DEF breaks
  <2>8. worked \in Nat
    <3>1. session[s].in \in Nat
      BY <2>3, InstantsAreNaturals DEF Session
    <3>2. q.at - session[s].in - breaks \in Int
      BY <2>4, <2>7, <3>1
    <3> QED
      BY <3>2, MaxNatural
  <2> HIDE DEF worked
  <2>9. y \in Session
    BY <2>2, <2>3, <2>4, <2>7, <2>8 DEF Session
  <2>10. /\ y.out = q.at /\ y.status = "CLOSED" /\ y.presence = None /\ y.end = session[s].end
         /\ y.expected = session[s].expected
    BY <2>3 DEF Session
  <2> HIDE DEF y
  <2>11. \A i \in DOMAIN presence : presence[i].session = s \/ ended[i] = presence[i]
    BY <2>2, <2>5 DEF Found, IntervalsOf
  <2>12. /\ ShiftRows' /\ Shifts' /\ OneShift' /\ SameIntervals
         /\ DOMAIN session' = DOMAIN session
    BY <2>1, <2>3, <2>4, <2>5, <2>9, <2>10, <2>11, SessionEnds
  <2>13. OneFlag'
    <3>1. s \in 0 .. MaxSessions
      BY <2>3, WorkTimeAssumption DEF ShiftInv, ShiftRows
    <3>2. session[s].user \in Users /\ session[s].ws \in Workspaces /\ session[s].day \in Days
      BY <2>3 DEF Session
    <3> QED
      BY <2>1, <2>2, <3>1, <3>2, FlagsOfSession, RaisedFits DEF ShiftInv
  <2>14. Swept'
    BY <2>1, <2>12 DEF ShiftInv, Swept, jobVars
  <2>15. DOMAIN req' = Requests /\ \A p \in Requests : req'[p] = req[p] \/ req'[p] = Idle
    BY <2>1 DEF Finish, ShiftInv
  <2> QED
    BY <2>1, <2>12, <2>13, <2>14, <2>15, ShiftsTouched DEF jobVars, Finish
<1> QED
  BY <1>1, <1>2

LEMMA CorrectsByHand ==
  ASSUME ShiftInv, NEW r \in Requests, FinishUpdateWorkSession(r)
  PROVE  ShiftInv'
<1> DEFINE q == req[r]
           s == q.session
           worked == q.span[2] - q.span[1]
           day == DayOf(q.span[1])
           y == [session[s] EXCEPT !.user = q.user, !.in = q.span[1], !.out = q.span[2], !.day = day,
                   !.status = q.status, !.presence = None, !.worked = worked, !.adjusted = TRUE]
<1>1. /\ q.pc = "adjust" /\ session' = [session EXCEPT ![s] = y] /\ Finish(r)
      /\ UNCHANGED <<now, presence, flag, entry, policyVars, jobVars>>
  BY DEF FinishUpdateWorkSession
<1>2. /\ s \in DOMAIN session /\ q.user \in Users /\ q.span \in Ranges
      /\ q.status \in {"CLOSED", "AUTO_CLOSED", "ADMIN_CLOSED"}
  BY <1>1 DEF ShiftInv, ShiftSound
<1>3. q.span[1] \in Instants /\ q.span[2] \in Instants /\ q.span[1] < q.span[2]
  BY <1>2, WorkTimeAssumption
<1>4. q.span[1] \in Nat /\ q.span[2] \in Nat /\ q.span[2] # None
  BY <1>3, InstantsAreNaturals, Types
<1>5. worked \in Nat /\ day \in Days
  BY <1>3, <1>4, DayOfInstant
<1> HIDE DEF worked, day
<1>6. session[s] \in Session
  BY <1>2, Types
<1>7. y \in Session
  BY <1>2, <1>3, <1>5, <1>6 DEF Session
<1>8. /\ y.out = q.span[2] /\ y.status = q.status /\ y.presence = None /\ y.end = session[s].end
      /\ y.expected = session[s].expected
  BY <1>6 DEF Session
<1> HIDE DEF y
<1>9. presence' \in Seq(Interval) /\ Len(presence') = Len(presence)
  BY <1>1 DEF ShiftInv, ShiftRows
<1>10. \A i \in DOMAIN presence :
         /\ presence'[i] = presence[i]
         /\ presence'[i].to # None => presence'[i].from <= presence'[i].to
  BY <1>1 DEF ShiftInv, ShiftRows
<1>11. /\ ShiftRows' /\ Shifts' /\ OneShift' /\ SameIntervals
       /\ DOMAIN session' = DOMAIN session
  BY <1>1, <1>2, <1>4, <1>7, <1>8, <1>9, <1>10, SessionEnds
<1>12. OneFlag' /\ Swept'
  BY <1>1, <1>11 DEF ShiftInv, OneFlag, SameFlag, Swept, jobVars
<1>13. DOMAIN req' = Requests /\ \A p \in Requests : req'[p] = req[p] \/ req'[p] = Idle
  BY <1>1 DEF Finish, ShiftInv
<1> QED
  BY <1>1, <1>11, <1>12, <1>13, ShiftsTouched DEF jobVars, Finish

(* A step that writes a session, and no interval of another.               *)
LEMMA SessionAdded ==
  ASSUME ShiftInv, NEW k, k = Len(session) + 1, k <= MaxSessions, NEW y \in Session,
         y.end = None => y.expected = 0,
         session' = Append(session, y), now' = now,
         presence' \in Seq(Interval),
         \A i \in DOMAIN presence : i \in DOMAIN presence' /\ presence'[i] = presence[i],
         \A i \in DOMAIN presence' \ DOMAIN presence :
           presence'[i].session = k /\ presence'[i].from <= now /\ presence'[i].to = None,
         IF y.out = None THEN y.status = "OPEN" /\ OpenShift(k)' /\ OpenSessions(y.user) = {}
         ELSE y.status # "OPEN" /\ y.presence = None
  PROVE  /\ ShiftRows' /\ Shifts' /\ OneShift' /\ SameIntervals
         /\ DOMAIN session \subseteq DOMAIN session'
<1>1. /\ session \in Seq(Session) /\ Len(session) \in Nat /\ DOMAIN session = 1 .. Len(session)
  BY DEF ShiftInv, ShiftRows
<1>2. /\ session' \in Seq(Session) /\ Len(session') = k /\ session'[k] = y
      /\ DOMAIN session' = DOMAIN session \union {k} /\ k \notin DOMAIN session
      /\ \A t \in DOMAIN session : session'[t] = session[t]
  <2>1. DOMAIN session' = 1 .. Len(session')
    BY <1>1
  <2> QED
    BY <1>1, <2>1, AppendProperties
<1>3. SameIntervals
  BY DEF SameIntervals
<1>4. ShiftRows'
  <2>1. ASSUME NEW i \in DOMAIN presence'
        PROVE  /\ presence'[i].session \in DOMAIN session' /\ presence'[i].from <= now'
               /\ presence'[i].to # None => presence'[i].from <= presence'[i].to
    <3>1. CASE i \in DOMAIN presence
      BY <1>2, <3>1 DEF ShiftInv, ShiftRows
    <3>2. CASE i \notin DOMAIN presence
      BY <1>2, <3>2
    <3> QED
      BY <3>1, <3>2
  <2>2. \A t \in DOMAIN session' : session'[t].end = None => session'[t].expected = 0
    BY <1>2 DEF ShiftInv, ShiftRows
  <2>3. Len(session') <= MaxSessions
    BY <1>2
  <2> QED
    BY <1>2, <2>1, <2>2, <2>3 DEF ShiftRows
<1>5. ASSUME NEW t \in DOMAIN session
      PROVE  IF Open(t)' THEN session'[t].status = "OPEN" /\ OpenShift(t)'
             ELSE session'[t].status # "OPEN" /\ session'[t].presence = None
  <2>1. IntervalsOf(t)' = IntervalsOf(t)
    BY <1>2 DEF IntervalsOf
  <2>2. \A i \in IntervalsOf(t) : presence'[i] = presence[i]
    BY DEF IntervalsOf
  <2> QED
    BY <1>2, <2>1, <2>2, OthersStay DEF ShiftInv
<1>6. Shifts'
  <2>1. Open(k)' <=> y.out = None
    BY <1>2 DEF Open
  <2> QED
    BY <1>2, <1>5, <2>1 DEF Shifts
<1>7. OneShift'
  <2>1. y.out = None => \A t \in DOMAIN session : session[t].user = y.user => session[t].out # None
    BY DEF OpenSessions, Open
  <2> QED
    BY <1>2, <2>1 DEF ShiftInv, OneShift, Open
<1> QED
  BY <1>2, <1>3, <1>4, <1>6, <1>7

LEMMA WritesByHand ==
  ASSUME ShiftInv, NEW r \in Requests, FinishCreateWorkSession(r)
  PROVE  ShiftInv'
<1> DEFINE q == req[r]
           worked == q.span[2] - q.span[1]
           day == DayOf(q.span[1])
           y == [user |-> q.user, ws |-> q.ws, in |-> q.span[1], out |-> q.span[2], day |-> day,
                 status |-> "ADMIN_CLOSED", presence |-> None, due |-> None, end |-> None, expected |-> 0,
                 worked |-> worked, breaks |-> 0, raw |-> 0, counted |-> 0, adjusted |-> TRUE]
<1>1. /\ q.pc = "manual" /\ Len(session) < MaxSessions /\ session' = Append(session, y) /\ Finish(r)
      /\ UNCHANGED <<now, presence, flag, entry, policyVars, jobVars>>
  BY DEF FinishCreateWorkSession
<1>2. q.user \in Users /\ q.ws \in Workspaces /\ q.span \in Ranges
  BY <1>1 DEF ShiftInv, ShiftSound
<1>3. q.span[1] \in Instants /\ q.span[2] \in Instants /\ q.span[1] < q.span[2]
  BY <1>2, WorkTimeAssumption
<1>4. q.span[1] \in Nat /\ q.span[2] \in Nat /\ q.span[2] # None
  BY <1>3, InstantsAreNaturals, Types
<1>5. worked \in Nat /\ day \in Days
  BY <1>3, <1>4, DayOfInstant
<1> HIDE DEF worked, day
<1>6. y \in Session
  BY <1>2, <1>3, <1>5 DEF Session
<1>7. y.out # None /\ y.status = "ADMIN_CLOSED" /\ y.presence = None /\ y.expected = 0
  BY <1>4
<1> HIDE DEF y
<1>8. /\ presence' \in Seq(Interval) /\ presence' = presence
      /\ Len(session) + 1 <= MaxSessions
  <2>1. Len(session) \in Nat /\ MaxSessions \in Nat
    BY WorkTimeAssumption DEF ShiftInv, ShiftRows
  <2> QED
    BY <1>1, <2>1 DEF ShiftInv, ShiftRows
<1>9. /\ ShiftRows' /\ Shifts' /\ OneShift' /\ SameIntervals
      /\ DOMAIN session \subseteq DOMAIN session'
  BY <1>1, <1>6, <1>7, <1>8, SessionAdded
<1>10. OneFlag' /\ Swept'
  BY <1>1, <1>9 DEF ShiftInv, OneFlag, SameFlag, Swept, jobVars
<1>11. DOMAIN req' = Requests /\ \A p \in Requests : req'[p] = req[p] \/ req'[p] = Idle
  BY <1>1 DEF Finish, ShiftInv
<1> QED
  BY <1>1, <1>9, <1>10, <1>11, ShiftsTouched DEF jobVars, Finish

(* The first interval of a session follows on its start.                   *)
LEMMA FirstInterval ==
  ASSUME NEW k, NEW n, IntervalsOf(k)' = {n}, presence'[n].to = None, presence'[n].from \in Int,
         presence'[n].from = session'[k].in, presence'[n].status = session'[k].presence
  PROVE  OpenShift(k)'
<1>1. n \in DOMAIN presence' /\ presence'[n].session = k
  BY DEF IntervalsOf
<1>2. OpenIntervals(k)' = {n}
  BY <1>1 DEF OpenIntervals, IntervalsOf
<1>3. Spanned(k)' = 0
  <2> DEFINE f == [i \in {n} |-> Length(presence'[i])]
  <2>1. f[n] = 0
    BY DEF Length
  <2>2. Spanned(k)' = Over(f, {n})
    BY DEF Spanned, Length
  <2> HIDE DEF f
  <2>3. Summable(f, {n})
    <3>1. IsFiniteSet({n})
      BY FS_Singleton
    <3> QED
      BY <2>1, <3>1 DEF Summable
  <2>4. Over(f, {n}) = f[n] + Over(f, {n} \ {n})
    BY <2>3, SumRemove
  <2>5. Over(f, {n} \ {n}) = 0
    <3>1. {n} \ {n} = {}
      OBVIOUS
    <3> QED
      BY <3>1, SumEmpty
  <2> QED
    BY <2>1, <2>2, <2>4, <2>5
<1>4. \A j \in IntervalsOf(k)' : presence'[j].from = session'[k].in
  OBVIOUS
<1>5. Spanned(k)' = presence'[n].from - session'[k].in
  BY <1>3
<1> QED
  BY <1>1, <1>2, <1>4, <1>5 DEF OpenShift

LEMMA OpensShift ==
  ASSUME ShiftInv, NEW r \in Requests, FinishClockIn(r)
  PROVE  ShiftInv'
<1>0. PICK k, n : k = Len(session) + 1 /\ n = Len(presence) + 1
  OBVIOUS
<1> DEFINE q == req[r]
           y == NewSession(q)
           x == [session |-> k, status |-> "AVAILABLE", from |-> q.at, to |-> None]
           new == {[f EXCEPT !.session = 0] : f \in FlagOf(y, k, {"LATE_IN"})}
<1>1. CASE Refused(r)
  BY <1>1, RequestRefused
<1>2. CASE ~Refused(r)
  <2>1. /\ q.pc = "clockIn" /\ OpenSessions(q.user) = {} /\ k <= MaxSessions
        /\ session' = Append(session, y) /\ presence' = Append(presence, x)
        /\ flag' = Raised(new) \/ flag' = flag
        /\ Finish(r) /\ UNCHANGED <<now, entry, policyVars, jobVars>>
    BY <1>0, <1>2 DEF FinishClockIn, MayOpen
  <2>2. q.user \in Users /\ q.ws \in Workspaces /\ q.at \in 0 .. now /\ Fitting(q.eff)
    BY <2>1 DEF ShiftInv, ShiftSound
  <2>3. q.at \in Instants /\ q.at \in Nat /\ q.at <= now
    <3>1. now \in 0 .. MaxTime /\ now \in Nat /\ MaxTime \in Nat
      BY Types, WorkTimeAssumption DEF Instants
    <3> QED
      BY <2>2, <3>1 DEF Instants
  <2>4. y \in Session
    <3>1. DayOf(q.at) \in Days
      BY <2>3, DayOfInstant
    <3> QED
      BY <2>2, <2>3, <3>1 DEF NewSession, Session, Fitting, PresenceStatuses
  <2>5. /\ y.user = q.user /\ y.ws = q.ws /\ y.in = q.at /\ y.out = None /\ y.status = "OPEN"
        /\ y.presence = "AVAILABLE" /\ y.day \in Days /\ (y.end = None => y.expected = 0)
    BY <2>2, <2>3, DayOfInstant DEF NewSession, Fitting
  <2> HIDE DEF y
  <2>6. k \in Nat /\ k \in 1 .. MaxSessions /\ k \notin DOMAIN session
    <3>1. Len(session) \in Nat /\ DOMAIN session = 1 .. Len(session) /\ MaxSessions \in Nat
      BY WorkTimeAssumption DEF ShiftInv, ShiftRows
    <3> QED
      BY <1>0, <2>1, <3>1
  <2>7. x \in Interval
    BY <2>3, <2>6 DEF Interval, PresenceStatuses
  <2>8. x.session = k /\ x.status = "AVAILABLE" /\ x.from = q.at /\ x.to = None
    OBVIOUS
  <2> HIDE DEF x
  <2>9. /\ presence' \in Seq(Interval) /\ presence'[n] = x
        /\ DOMAIN presence' = DOMAIN presence \union {n} /\ n \notin DOMAIN presence
        /\ \A i \in DOMAIN presence : presence'[i] = presence[i]
    <3>1. presence \in Seq(Interval) /\ Len(presence) \in Nat /\ DOMAIN presence = 1 .. Len(presence)
      BY DEF ShiftInv, ShiftRows
    <3>2. presence' \in Seq(Interval) /\ Len(presence') = n /\ presence'[n] = x
          /\ \A i \in DOMAIN presence : presence'[i] = presence[i]
      BY <1>0, <2>1, <2>7, <3>1, AppendProperties
    <3> QED
      BY <1>0, <3>1, <3>2
  <2>10. OpenShift(k)'
    <3>1. IntervalsOf(k)' = {n}
      <4>1. \A i \in DOMAIN presence : presence[i].session # k
        BY <2>6 DEF ShiftInv, ShiftRows
      <4>2. IntervalsOf(k)' = {i \in DOMAIN presence' : presence'[i].session = k}
        BY DEF IntervalsOf
      <4> QED
        BY <2>8, <2>9, <4>1, <4>2
    <3>2. session'[k] = y
      BY <1>0, <2>1 DEF ShiftInv, ShiftRows
    <3>3. /\ presence'[n].to = None /\ presence'[n].from \in Int
          /\ presence'[n].from = session'[k].in /\ presence'[n].status = session'[k].presence
      BY <2>3, <2>5, <2>8, <2>9, <3>2
    <3> QED
      BY <3>1, <3>3, FirstInterval
  <2>11. /\ ShiftRows' /\ Shifts' /\ OneShift' /\ SameIntervals
         /\ DOMAIN session \subseteq DOMAIN session'
    <3>1. \A i \in DOMAIN presence : i \in DOMAIN presence' /\ presence'[i] = presence[i]
      BY <2>9
    <3>2. \A i \in DOMAIN presence' \ DOMAIN presence :
            presence'[i].session = k /\ presence'[i].from <= now /\ presence'[i].to = None
      BY <2>3, <2>8, <2>9
    <3>3. IF y.out = None THEN y.status = "OPEN" /\ OpenShift(k)' /\ OpenSessions(y.user) = {}
          ELSE y.status # "OPEN" /\ y.presence = None
      BY <2>1, <2>5, <2>10
    <3>4. k <= MaxSessions /\ session' = Append(session, y) /\ now' = now
      BY <2>1
    <3>5. y.end = None => y.expected = 0
      BY <2>5
    <3>6. presence' \in Seq(Interval)
      BY <2>9
    <3> QED
      BY <1>0, <2>4, <3>1, <3>2, <3>3, <3>4, <3>5, <3>6, SessionAdded
  <2>12. OneFlag'
    <3>1. new = FlagOf(y, 0, {"LATE_IN"})
      <4> DEFINE g(j) == [user |-> y.user, ws |-> y.ws, day |-> y.day, session |-> j,
                          type |-> "LATE_IN", status |-> "ACTIVE"]
      <4>1. \A j : FlagOf(y, j, {"LATE_IN"}) = {g(j)}
        BY DEF FlagOf
      <4>2. [g(k) EXCEPT !.session = 0] = g(0)
        OBVIOUS
      <4> HIDE DEF g
      <4> QED
        BY <4>1, <4>2
    <3>2. new \subseteq Flag /\ \A f, g \in new : SameFlag(f, g) => f = g
      <4>1. {"LATE_IN"} \in SUBSET FlagTypes
        BY DEF FlagTypes
      <4>2. 0 \in 0 .. MaxSessions
        BY WorkTimeAssumption
      <4> QED
        BY <2>2, <2>5, <3>1, <4>1, <4>2, FlagsOfSession
    <3> HIDE DEF new
    <3>3. CASE flag' = flag
      BY <3>3 DEF ShiftInv, OneFlag, SameFlag
    <3> QED
      BY <2>1, <3>2, <3>3, RaisedFits DEF ShiftInv
  <2>13. Swept'
    BY <2>1, <2>11 DEF ShiftInv, Swept, jobVars
  <2>14. DOMAIN req' = Requests /\ \A p \in Requests : req'[p] = req[p] \/ req'[p] = Idle
    BY <2>1 DEF Finish, ShiftInv
  <2> QED
    BY <2>1, <2>11, <2>12, <2>13, <2>14, ShiftsTouched DEF jobVars, Finish
<1> QED
  BY <1>1, <1>2

(* One summand changes and one of zero comes on.                           *)
LEMMA SumTurns ==
  ASSUME NEW S, NEW f, Summable(f, S), NEW i \in S, NEW n, n \notin S,
         NEW g, g[i] \in Int, g[n] = 0, \A j \in S \ {i} : g[j] = f[j]
  PROVE  Over(g, S \union {n}) = Over(f, S) - f[i] + g[i]
<1>1. Summable(g, S) /\ Over(g, S) = Over(f, S) - f[i] + g[i]
  BY SumChange
<1>2. Over(g, S \union {n}) = Over(g, S) + g[n]
  BY <1>1, SumOneMore
<1>3. Over(g, S) \in Int
  BY <1>1, SumType
<1> QED
  BY <1>1, <1>2, <1>3

(* An interval ends at the instant the next one of the session begins.     *)
LEMMA NextInterval ==
  ASSUME ShiftInv, NEW s, OpenShift(s), NEW i, OpenIntervals(s) = {i},
         NEW n, n \notin DOMAIN presence, NEW t \in Nat,
         DOMAIN presence' = DOMAIN presence \union {n},
         presence'[n].session = s, presence'[n].from = t, presence'[n].to = None,
         presence'[n].status = session'[s].presence, session'[s].in = session[s].in,
         session[s].in \in Nat,
         presence'[i].session = s, presence'[i].from = presence[i].from, presence'[i].to = t,
         \A j \in DOMAIN presence \ {i} : presence'[j] = presence[j]
  PROVE  OpenShift(s)'
<1>1. /\ \A j \in IntervalsOf(s) :
           \/ presence[j].from = session[s].in
           \/ \E k \in IntervalsOf(s) \ {j} : presence[k].to = presence[j].from
      /\ Spanned(s) = presence[i].from - session[s].in
  <2>1. PICK d \in DOMAIN presence :
          /\ OpenIntervals(s) = {d}
          /\ \A j \in IntervalsOf(s) :
               \/ presence[j].from = session[s].in
               \/ \E k \in IntervalsOf(s) \ {j} : presence[k].to = presence[j].from
          /\ Spanned(s) = presence[d].from - session[s].in
    BY DEF OpenShift
  <2>2. d = i
    BY <2>1
  <2> QED
    BY <2>1, <2>2
<1>2. i \in IntervalsOf(s) /\ presence[i].to = None /\ i # n
  BY DEF OpenIntervals, IntervalsOf
<1>3. \A j \in IntervalsOf(s) \ {i} : presence[j].to # None
  BY DEF OpenIntervals, IntervalsOf
<1>4. IntervalsOf(s)' = IntervalsOf(s) \union {n}
  BY <1>2 DEF IntervalsOf
<1>5. t # None /\ \A j \in DOMAIN presence : presence[j].from \in Nat /\ presence[j].from # None
  BY Types, InstantsAreNaturals DEF Interval
<1>6. OpenIntervals(s)' = {n}
  <2>1. OpenIntervals(s)' = {j \in IntervalsOf(s)' : presence'[j].to = None}
    BY DEF OpenIntervals, IntervalsOf
  <2>2. \A j \in IntervalsOf(s) : presence'[j].to # None
    BY <1>3, <1>5 DEF IntervalsOf
  <2> QED
    BY <1>4, <2>1, <2>2
<1>7. ASSUME NEW j \in IntervalsOf(s)'
      PROVE  \/ presence'[j].from = session'[s].in
             \/ \E k \in IntervalsOf(s)' \ {j} : presence'[k].to = presence'[j].from
  <2>1. CASE j = n
    BY <1>2, <1>4, <2>1
  <2>2. CASE j # n
    <3>1. j \in IntervalsOf(s) /\ presence'[j].from = presence[j].from
      BY <1>4, <2>2 DEF IntervalsOf
    <3>2. CASE presence[j].from = session[s].in
      BY <3>1, <3>2
    <3>3. CASE presence[j].from # session[s].in
      <4>1. PICK k \in IntervalsOf(s) \ {j} : presence[k].to = presence[j].from
        BY <1>1, <3>1, <3>3
      <4>2. k # i
        BY <1>2, <1>5, <3>1, <4>1 DEF IntervalsOf
      <4>3. presence'[k] = presence[k] /\ k \in IntervalsOf(s)' \ {j}
        BY <1>4, <4>1, <4>2 DEF IntervalsOf
      <4> QED
        BY <3>1, <4>1, <4>3
    <3> QED
      BY <3>2, <3>3
  <2> QED
    BY <2>1, <2>2
<1>8. Spanned(s)' = t - session[s].in
  <2> DEFINE S == IntervalsOf(s)
             f == [j \in S |-> Length(presence[j])]
             g == [j \in S \union {n} |-> Length(presence'[j])]
  <2>1. Spanned(s) = Over(f, S)
    BY DEF Spanned
  <2>2. Spanned(s)' = Over(g, S \union {n})
    BY <1>4 DEF Spanned, Length
  <2>3. IsFiniteSet(S)
    <3>1. IsFiniteSet(1 .. Len(presence)) /\ DOMAIN presence = 1 .. Len(presence)
      BY FS_Interval DEF ShiftInv, ShiftRows
    <3>2. S \subseteq DOMAIN presence
      BY DEF IntervalsOf
    <3> QED
      BY <3>1, <3>2, FS_Subset
  <2>4. \A j \in S : f[j] \in Nat
    BY LengthNatural, Types DEF IntervalsOf, ShiftInv, ShiftRows
  <2>5. f[i] = 0
    BY <1>2 DEF Length
  <2>6. g[n] = 0
    BY DEF Length
  <2>7. g[i] = t - presence[i].from /\ g[i] \in Int
    BY <1>2, <1>5 DEF Length, IntervalsOf
  <2>8. \A j \in S \ {i} : g[j] = f[j]
    BY DEF IntervalsOf
  <2>9. n \notin S /\ i \in S
    BY <1>2 DEF IntervalsOf
  <2> HIDE DEF S, f, g
  <2>10. Summable(f, S)
    BY <2>3, <2>4 DEF Summable
  <2>11. Over(g, S \union {n}) = Over(f, S) - f[i] + g[i]
    BY <2>6, <2>7, <2>8, <2>9, <2>10, SumTurns
  <2>12. Over(f, S) = presence[i].from - session[s].in
    BY <1>1, <2>1
  <2>13. presence[i].from \in Nat
    BY <1>2, <1>5 DEF IntervalsOf
  <2> QED
    BY <2>2, <2>5, <2>7, <2>11, <2>12, <2>13
<1> QED
  BY <1>4, <1>6, <1>7, <1>8 DEF OpenShift

LEMMA ChangesPresence ==
  ASSUME ShiftInv, NEW r \in Requests, FinishSetPresence(r)
  PROVE  ShiftInv'
<1>1. CASE Refused(r)
  BY <1>1, RequestRefused
<1>2. CASE ~Refused(r)
  <2>0. PICK q, s, n : q = req[r] /\ s = q.session /\ n = Len(presence) + 1
    OBVIOUS
  <2> DEFINE ended == Ended(presence, q.found, q.at)
             x == [session |-> s, status |-> q.status, from |-> q.at, to |-> None]
             y == [session[s] EXCEPT !.presence = q.status]
  <2>1. /\ q.pc = "presence" /\ Open(s) /\ OpenIntervals(s) \ {q.found} = {}
        /\ presence' = Append(ended, x) /\ session' = [session EXCEPT ![s] = y]
        /\ Finish(r) /\ UNCHANGED <<now, flag, entry, policyVars, jobVars>>
    BY <1>2, <2>0 DEF FinishSetPresence
  <2>2. Found(q) /\ q.status \in PresenceStatuses
    BY <2>0, <2>1 DEF ShiftInv, ShiftSound
  <2>3. s \in DOMAIN session /\ session[s] \in Session /\ session[s].in \in Nat
    BY <2>0, <2>2, Types, InstantsAreNaturals DEF Found, Session
  <2>4. q.at \in Instants /\ q.at \in Nat /\ q.at <= now
    <3>1. q.at \in 0 .. now /\ now \in 0 .. MaxTime /\ now \in Nat /\ MaxTime \in Nat
      BY <2>2, Types, WorkTimeAssumption DEF Found, Instants
    <3> QED
      BY <3>1 DEF Instants
  <2>5. OpenShift(s) /\ OpenIntervals(s) = {q.found} /\ q.found \in IntervalsOf(s)
    <3>1. OpenShift(s)
      BY <2>1, <2>3 DEF ShiftInv, Shifts
    <3>2. OpenIntervals(s) # {}
      BY <3>1 DEF OpenShift
    <3> QED
      BY <2>1, <3>1, <3>2 DEF OpenIntervals, IntervalsOf
  <2>6. q.found # 0 /\ q.found \in DOMAIN presence /\ presence[q.found].session = s
    <3>1. presence \in Seq(Interval)
      BY DEF ShiftInv, ShiftRows
    <3> QED
      BY <2>5, <3>1 DEF IntervalsOf
  <2>7. /\ ended \in Seq(Interval) /\ Len(ended) = Len(presence) /\ DOMAIN ended = DOMAIN presence
        /\ \A i \in DOMAIN presence :
             /\ ended[i].session = presence[i].session /\ ended[i].from = presence[i].from
             /\ ended[i].to # None => ended[i].from <= ended[i].to
             /\ ended[i] = presence[i] \/ i = q.found
    BY <2>2, EndedIntervals
  <2>8. ended[q.found].to = q.at /\ ended[q.found].session = s
        /\ ended[q.found].from = presence[q.found].from
    <3>1. presence[q.found] \in Interval /\ ended = [presence EXCEPT ![q.found].to = q.at]
      BY <2>6, Types DEF Ended
    <3> HIDE DEF ended
    <3>2. ended[q.found] = [presence[q.found] EXCEPT !.to = q.at]
      BY <2>6, <3>1
    <3>3. [presence[q.found] EXCEPT !.to = q.at].to = q.at
      BY <3>1 DEF Interval
    <3> QED
      BY <2>6, <2>7, <3>2, <3>3
  <2> HIDE DEF ended
  <2>9. x \in Interval
    <3>1. s \in 1 .. MaxSessions
      BY <2>3, WorkTimeAssumption DEF ShiftInv, ShiftRows
    <3> QED
      BY <2>2, <2>4, <3>1 DEF Interval
  <2>10. x.session = s /\ x.status = q.status /\ x.from = q.at /\ x.to = None
    OBVIOUS
  <2> HIDE DEF x
  <2>11. /\ presence' \in Seq(Interval) /\ presence'[n] = x
         /\ DOMAIN presence' = DOMAIN presence \union {n} /\ n \notin DOMAIN presence
         /\ \A i \in DOMAIN presence : presence'[i] = ended[i]
    <3>1. Len(presence) \in Nat /\ DOMAIN presence = 1 .. Len(presence)
      BY DEF ShiftInv, ShiftRows
    <3>2. presence' \in Seq(Interval) /\ Len(presence') = n /\ presence'[n] = x
          /\ \A i \in DOMAIN presence : presence'[i] = ended[i]
      BY <2>0, <2>1, <2>7, <2>9, <3>1, AppendProperties
    <3> QED
      BY <2>0, <3>1, <3>2
  <2>12. /\ y \in Session /\ y.presence = q.status /\ y.in = session[s].in /\ y.out = session[s].out
         /\ y.status = session[s].status /\ y.user = session[s].user /\ y.end = session[s].end
         /\ y.expected = session[s].expected
    BY <2>2, <2>3 DEF Session
  <2> HIDE DEF y
  <2>13. /\ session' \in Seq(Session) /\ Len(session') = Len(session) /\ DOMAIN session' = DOMAIN session
         /\ session'[s] = y /\ \A t \in DOMAIN session \ {s} : session'[t] = session[t]
    BY <2>1, <2>3, <2>12 DEF ShiftInv, ShiftRows
  <2>14. OpenShift(s)'
    <3>1. \A j \in DOMAIN presence \ {q.found} : presence'[j] = presence[j]
      BY <2>7, <2>11
    <3>2. presence'[q.found] = ended[q.found]
      BY <2>6, <2>11
    <3> QED
      BY <2>3, <2>4, <2>5, <2>8, <2>10, <2>11, <2>12, <2>13, <3>1, <3>2, NextInterval
  <2>15. SameIntervals
    BY <2>7, <2>11 DEF SameIntervals
  <2>16. ShiftRows'
    <3>1. ASSUME NEW i \in DOMAIN presence'
          PROVE  /\ presence'[i].session \in DOMAIN session' /\ presence'[i].from <= now'
                 /\ presence'[i].to # None => presence'[i].from <= presence'[i].to
      <4>1. CASE i = n
        BY <2>1, <2>3, <2>4, <2>10, <2>11, <2>13, <4>1
      <4>2. CASE i # n
        BY <2>1, <2>7, <2>11, <2>13, <4>2 DEF ShiftInv, ShiftRows
      <4> QED
        BY <4>1, <4>2
    <3>2. \A t \in DOMAIN session' : session'[t].end = None => session'[t].expected = 0
      BY <2>12, <2>13 DEF ShiftInv, ShiftRows
    <3>3. Len(session') <= MaxSessions
      BY <2>13 DEF ShiftInv, ShiftRows
    <3> QED
      BY <2>11, <2>13, <3>1, <3>2, <3>3 DEF ShiftRows
  <2>17. ASSUME NEW t \in DOMAIN session \ {s}
         PROVE  IF Open(t)' THEN session'[t].status = "OPEN" /\ OpenShift(t)'
                ELSE session'[t].status # "OPEN" /\ session'[t].presence = None
    <3>1. \A i \in IntervalsOf(t) : presence'[i] = presence[i]
      BY <2>6, <2>7, <2>11 DEF IntervalsOf
    <3>2. IntervalsOf(t)' = IntervalsOf(t)
      BY <2>7, <2>10, <2>11 DEF IntervalsOf
    <3> QED
      BY <2>13, <3>1, <3>2, OthersStay DEF ShiftInv
  <2>18. Shifts'
    <3>1. Open(s)' /\ session'[s].status = "OPEN"
      BY <2>1, <2>3, <2>12, <2>13 DEF Open, ShiftInv, Shifts
    <3> QED
      BY <2>13, <2>14, <2>17, <3>1 DEF Shifts
  <2>19. OneShift'
    <3>1. \A t \in DOMAIN session : (Open(t)' <=> Open(t)) /\ session'[t].user = session[t].user
      BY <2>12, <2>13 DEF Open
    <3> QED
      BY <2>13, <3>1 DEF ShiftInv, OneShift
  <2>20. OneFlag' /\ Swept'
    BY <2>1, <2>13 DEF ShiftInv, OneFlag, SameFlag, Swept, jobVars
  <2>21. DOMAIN req' = Requests /\ \A p \in Requests : req'[p] = req[p] \/ req'[p] = Idle
    BY <2>1 DEF Finish, ShiftInv
  <2> QED
    BY <2>1, <2>13, <2>15, <2>16, <2>18, <2>19, <2>20, <2>21, ShiftsTouched DEF jobVars, Finish
<1> QED
  BY <1>1, <1>2

LEMMA SweepCloses ==
  ASSUME ShiftInv, NEW z, SweepClose(z)
  PROVE  ShiftInv'
<1>1. CASE Refusable(z)
  <2>1. sweep' = {} /\ UNCHANGED shiftVars /\ UNCHANGED <<now, entry, policyVars, crashes, reqVars>>
    BY <1>1 DEF SweepClose
  <2>2. UNCHANGED <<now, session, presence, flag, entry, policyVars, crashes, req, asked>>
    BY <2>1 DEF shiftVars, reqVars
  <2>3. Clock' /\ now <= now'
    BY <2>2, Types DEF ShiftInv, Clock
  <2>4. EntryRows' /\ PolicyRows' /\ OneTimer' /\ OneFlag' /\ Swept'
    BY <2>1, <2>2 DEF ShiftInv, EntryRows, PolicyRows, policyVars, OneTimer, OneFlag, SameFlag, Swept
  <2> QED
    BY <2>2, <2>3, <2>4, ShiftsUntouched DEF ShiftInv
<1>2. CASE ~Refusable(z)
  <2> DEFINE s == z.session
             ended == [i \in DOMAIN presence |->
                         IF i \in OpenIntervals(s) THEN [presence[i] EXCEPT !.to = z.end]
                         ELSE presence[i]]
             worked == Max({0, z.end - z.in})
             y == [session[s] EXCEPT !.out = z.end, !.status = "AUTO_CLOSED", !.presence = None,
                                     !.worked = worked]
  <2>1. /\ z \in sweep /\ sweep' = sweep \ {z} /\ presence' = ended
        /\ IF Open(s) THEN /\ session' = [session EXCEPT ![s] = y]
                           /\ flag' = Raised(FlagOf(session[s], s, {"MISSED_CLOCK_OUT"}))
           ELSE UNCHANGED <<session, flag>>
        /\ UNCHANGED <<now, entry, policyVars, crashes, reqVars>>
    BY <1>2 DEF SweepClose, StillOpen
  <2>2. s \in DOMAIN session /\ z.in \in Instants /\ z.end \in Instants
    BY <2>1 DEF ShiftInv, Swept
  <2>3. z.in \in Nat /\ z.end \in Nat /\ z.end # None
    BY <2>2, InstantsAreNaturals, Types
  <2>4. \A i \in OpenIntervals(s) : presence[i].from <= z.end
    <3>1. \A i \in OpenIntervals(s) : presence[i].from \in Nat
      BY Types, InstantsAreNaturals DEF OpenIntervals, Interval
    <3> QED
      BY <1>2, <2>3, <3>1 DEF Refusable
  <2>5. /\ ended \in Seq(Interval) /\ Len(ended) = Len(presence)
        /\ \A i \in DOMAIN presence :
             /\ ended[i].session = presence[i].session /\ ended[i].from = presence[i].from
             /\ ended[i].to # None => ended[i].from <= ended[i].to
             /\ presence[i].session = s \/ ended[i] = presence[i]
    <3>1. presence \in Seq(Interval) /\ Len(presence) \in Nat /\ DOMAIN presence = 1 .. Len(presence)
      BY DEF ShiftInv, ShiftRows
    <3>2. ASSUME NEW i \in DOMAIN presence
          PROVE  /\ ended[i] \in Interval
                 /\ ended[i].session = presence[i].session /\ ended[i].from = presence[i].from
                 /\ ended[i].to # None => ended[i].from <= ended[i].to
                 /\ presence[i].session = s \/ ended[i] = presence[i]
      <4>1. presence[i] \in Interval /\ (presence[i].to # None => presence[i].from <= presence[i].to)
        BY Types DEF ShiftInv, ShiftRows
      <4>2. CASE i \in OpenIntervals(s)
        <5> DEFINE v == [presence[i] EXCEPT !.to = z.end]
        <5>1. v \in Interval
          BY <2>2, <4>1 DEF Interval
        <5>2. v.session = presence[i].session /\ v.from = presence[i].from /\ v.to = z.end
          BY <4>1 DEF Interval
        <5>3. ended[i] = v /\ presence[i].session = s
          BY <4>2 DEF OpenIntervals
        <5> HIDE DEF v, ended
        <5> QED
          BY <2>4, <4>2, <5>1, <5>2, <5>3
      <4>3. CASE i \notin OpenIntervals(s)
        BY <4>1, <4>3
      <4> QED
        BY <4>2, <4>3
    <3>3. ended = [i \in 1 .. Len(presence) |-> ended[i]]
      BY <3>1
    <3> HIDE DEF ended
    <3>4. ended \in Seq(Interval)
      BY <3>1, <3>2, <3>3, IsASeq
    <3>5. DOMAIN ended = 1 .. Len(presence)
      BY <3>3
    <3>6. Len(ended) = Len(presence)
      BY <3>1, <3>4, <3>5, LenProperties
    <3> QED
      BY <3>2, <3>4, <3>6
  <2> HIDE DEF ended
  <2>6. CASE Open(s)
    <3>1. session' = [session EXCEPT ![s] = y] /\ flag' = Raised(FlagOf(session[s], s, {"MISSED_CLOCK_OUT"}))
      BY <2>1, <2>6
    <3>2. session[s] \in Session
      BY <2>2, Types
    <3>3. worked \in Nat
      BY <2>3, MaxNatural
    <3> HIDE DEF worked
    <3>4. y \in Session
      BY <2>2, <3>2, <3>3 DEF Session
    <3>5. /\ y.out = z.end /\ y.status = "AUTO_CLOSED" /\ y.presence = None /\ y.end = session[s].end
          /\ y.expected = session[s].expected
      BY <3>2 DEF Session
    <3> HIDE DEF y
    <3>6. /\ ShiftRows' /\ Shifts' /\ OneShift' /\ SameIntervals
          /\ DOMAIN session' = DOMAIN session
      BY <2>1, <2>2, <2>3, <2>5, <3>1, <3>4, <3>5, SessionEnds
    <3>7. OneFlag'
      <4>1. s \in 0 .. MaxSessions
        BY <2>2, WorkTimeAssumption DEF ShiftInv, ShiftRows
      <4>2. session[s].user \in Users /\ session[s].ws \in Workspaces /\ session[s].day \in Days
        BY <3>2 DEF Session
      <4>3. {"MISSED_CLOCK_OUT"} \in SUBSET FlagTypes
        BY DEF FlagTypes
      <4> QED
        BY <3>1, <4>1, <4>2, <4>3, FlagsOfSession, RaisedFits DEF ShiftInv
    <3>8. Swept'
      BY <2>1, <3>6 DEF ShiftInv, Swept
    <3> QED
      BY <2>1, <3>6, <3>7, <3>8, ShiftsTouched DEF reqVars, ShiftInv
  <2>7. CASE ~Open(s)
    <3>1. UNCHANGED <<session, flag>>
      BY <2>1, <2>7
    <3>2. DOMAIN presence' = DOMAIN presence
      BY <2>1, <2>5 DEF ShiftInv, ShiftRows
    <3>3. SameIntervals
      BY <2>1, <2>5, <3>2 DEF SameIntervals
    <3>4. ShiftRows'
      BY <2>1, <2>5, <3>1, <3>2 DEF ShiftInv, ShiftRows
    <3>5. ASSUME NEW t \in DOMAIN session
          PROVE  IF Open(t)' THEN session'[t].status = "OPEN" /\ OpenShift(t)'
                 ELSE session'[t].status # "OPEN" /\ session'[t].presence = None
      <4>1. CASE t = s
        BY <2>7, <3>1, <4>1 DEF ShiftInv, Shifts, Open
      <4>2. CASE t # s
        <5>1. IntervalsOf(t)' = IntervalsOf(t)
          BY <2>1, <2>5, <3>2 DEF IntervalsOf
        <5>2. \A i \in IntervalsOf(t) : presence'[i] = presence[i]
          BY <2>1, <2>5, <4>2 DEF IntervalsOf
        <5> QED
          BY <3>1, <5>1, <5>2, OthersStay DEF ShiftInv
      <4> QED
        BY <4>1, <4>2
    <3>6. Shifts' /\ OneShift'
      BY <3>1, <3>5 DEF Shifts, ShiftInv, OneShift, Open
    <3>7. OneFlag' /\ Swept'
      BY <2>1, <3>1 DEF ShiftInv, OneFlag, SameFlag, Swept
    <3> QED
      BY <2>1, <3>1, <3>3, <3>4, <3>6, <3>7, ShiftsTouched DEF reqVars, ShiftInv
  <2> QED
    BY <2>6, <2>7
<1> QED
  BY <1>1, <1>2

-----------------------------------------------------------------------------
(* The invariant: at the start, and after every step.                      *)

LEMMA ShiftInit == Init => ShiftInv
<1> SUFFICES ASSUME Init PROVE ShiftInv
  OBVIOUS
<1>1. Clock
  <2>1. 0 \in Instants /\ 0 \in 0 .. MaxCrashes
    BY WorkTimeAssumption DEF Instants
  <2>2. asked \in [of : SUBSET AllOperations, left : Nat]
    BY WorkTimeAssumption DEF Init
  <2> QED
    BY <2>1, <2>2 DEF Init, Clock
<1>2. PolicyRows
  <2> DEFINE row == [plan |-> StartHours, from |-> 0, to |-> None]
  <2>1. 0 \in Days
    BY WorkTimeAssumption, DayOfInstant DEF Days
  <2>2. row \in HoursRow
    BY <2>1, WorkTimeAssumption DEF HoursRow
  <2> HIDE DEF row
  <2>3. <<row>> \in Seq(HoursRow)
    BY <2>2
  <2>4. hours = [w \in Workspaces |-> <<row>>]
    BY DEF Init, row
  <2> QED
    BY <2>3, <2>4, WorkTimeAssumption DEF Init, PolicyRows
<1>3. ShiftRows
  <2>1. session = <<>> /\ presence = <<>> /\ MaxSessions \in Nat
    BY WorkTimeAssumption DEF Init
  <2> QED
    BY <2>1 DEF ShiftRows
<1>4. Shifts /\ OneShift
  BY DEF Init, Shifts, OneShift
<1>5. EntryRows /\ OneTimer
  BY DEF Init, EntryRows, OneTimer
<1>6. Swept /\ OneFlag
  BY DEF Init, Swept, OneFlag
<1>7. DOMAIN req = Requests /\ \A r \in Requests : ShiftSound(req[r])
  BY IdleIsSound DEF Init
<1> QED
  BY <1>1, <1>2, <1>3, <1>4, <1>5, <1>6, <1>7 DEF ShiftInv

LEMMA ShiftStutters ==
  ASSUME ShiftInv, UNCHANGED vars
  PROVE  ShiftInv'
<1>1. UNCHANGED <<now, session, presence, flag, entry, policyVars, sweep, crashes, req, asked>>
  BY DEF vars, shiftVars, jobVars, reqVars
<1>2. Clock' /\ now <= now'
  BY <1>1, Types DEF ShiftInv, Clock
<1>3. EntryRows' /\ PolicyRows' /\ OneTimer' /\ OneFlag' /\ Swept'
  BY <1>1 DEF ShiftInv, EntryRows, PolicyRows, policyVars, OneTimer, OneFlag, SameFlag, Swept
<1> QED
  BY <1>1, <1>2, <1>3, ShiftsUntouched DEF ShiftInv

LEMMA ShiftStep == ShiftInv /\ [Next]_vars => ShiftInv'
<1> SUFFICES ASSUME ShiftInv, [Next]_vars PROVE ShiftInv'
  OBVIOUS
<1>1. CASE Tick
  BY <1>1, ClockTicks
<1>2. CASE Asking
  BY <1>2, AskClockIn, AskClockOut, AskPresence, AskByHand, AskTimer DEF Asking
<1>3. CASE AskingAboutRow
  <2>1. PICK r \in Requests, a \in Users :
          \/ CloseMyOpenSession(r, a)
          \/ \E s \in DOMAIN session, u \in Users, span \in Ranges : UpdateWorkSession(r, a, s, u, span)
          \/ \E e \in DOMAIN entry : \/ \E span \in Ranges \union {None} : UpdateTimeEntry(r, a, e, span)
                                     \/ DeleteTimeEntry(r, a, e)
    BY <1>3 DEF AskingAboutRow
  <2> QED
    BY <2>1, AskCloseAnywhere, AskByHand, AskEntry
<1>4. CASE AtOnce
  BY <1>4, TimerStarts, EntryLocks DEF AtOnce
<1>5. CASE Finishing
  BY <1>5, OpensShift, ClosesShift, ChangesPresence, WritesByHand, CorrectsByHand,
     EntryCreated, EntryRewritten, EntryDeleted DEF Finishing
<1>6. CASE ChangingPolicy
  BY <1>6, PolicyChanged
<1>7. CASE Sweeping
  BY <1>7, SweepTurns, SweepCloses DEF Sweeping
<1>8. CASE SweepCrash
  BY <1>8, SweepTurns
<1>9. CASE UNCHANGED vars
  BY <1>9, ShiftStutters
<1> QED
  BY <1>1, <1>2, <1>3, <1>4, <1>5, <1>6, <1>7, <1>8, <1>9 DEF Next

-----------------------------------------------------------------------------
(* What the invariant says in the words of WorkTime.                       *)

LEMMA AtMostOne ==
  ASSUME NEW S, \A x, y \in S : x = y
  PROVE  Cardinality(S) <= 1
<1>1. CASE S = {}
  <2>1. Cardinality(S) = 0
    BY <1>1, FS_EmptySet
  <2> QED
    BY <2>1
<1>2. CASE S # {}
  <2>1. PICK x : S = {x}
    BY <1>2
  <2>2. Cardinality({x}) = 1
    BY FS_Singleton
  <2> QED
    BY <2>1, <2>2
<1> QED
  BY <1>1, <1>2

LEMMA SpannedIsSum ==
  ASSUME NEW s
  PROVE  MapThenSumSet(LAMBDA i : Length(presence[i]), IntervalsOf(s)) = Spanned(s)
<1> DEFINE S == IntervalsOf(s)
           f == [i \in S |-> Length(presence[i])]
           A(h) == [x \in SUBSET S |-> IF x = {} THEN 0 ELSE Length(presence[Pick(x)]) + h[x \ {Pick(x)}]]
           B(h) == [x \in SUBSET S |-> IF x = {} THEN 0 ELSE f[Pick(x)] + h[x \ {Pick(x)}]]
<1>1. \A x \in SUBSET S : x # {} => f[Pick(x)] = Length(presence[Pick(x)])
  BY PickIn
<1>2. \A h : A(h) = B(h)
  BY <1>1
<1>3. (CHOOSE h : h = A(h)) = (CHOOSE h : h = B(h))
  BY <1>2
<1>4. MapThenSumSet(LAMBDA i : Length(presence[i]), S) = (CHOOSE h : h = A(h))[S]
  BY DEF MapThenSumSet, MapThenFoldSet, Pick
<1>5. Spanned(s) = (CHOOSE h : h = B(h))[S]
  BY DEF Spanned, Over, MapThenSumSet, MapThenFoldSet, Pick
<1> QED
  BY <1>3, <1>4, <1>5

LEMMA OpenShiftIsContiguous ==
  ASSUME NEW s, OpenShift(s)
  PROVE  Contiguous(s)
<1>1. PICK i \in DOMAIN presence :
        /\ OpenIntervals(s) = {i}
        /\ presence[i].status = session[s].presence
        /\ \A j \in IntervalsOf(s) :
             \/ presence[j].from = session[s].in
             \/ \E k \in IntervalsOf(s) \ {j} : presence[k].to = presence[j].from
        /\ Spanned(s) = presence[i].from - session[s].in
  BY DEF OpenShift
<1>2. Cardinality(OpenIntervals(s)) = 1
  BY <1>1, FS_Singleton
<1>3. OpenInterval(s) = i
  BY <1>1 DEF OpenInterval
<1> QED
  BY <1>1, <1>2, <1>3, SpannedIsSum DEF Contiguous

LEMMA ShiftInvSafe == ShiftInv => ShiftsSafe
<1> SUFFICES ASSUME ShiftInv PROVE ShiftsSafe
  OBVIOUS
<1>1. TypeOK
  BY RowsAreTyped
<1>2. \A u \in Users : Cardinality(OpenSessions(u)) <= 1
  <2> SUFFICES ASSUME NEW u \in Users PROVE Cardinality(OpenSessions(u)) <= 1
    OBVIOUS
  <2>1. \A s, t \in OpenSessions(u) : s = t
    BY DEF OpenSessions, ShiftInv, OneShift
  <2> QED
    BY <2>1, AtMostOne
<1>3. \A u \in Users : \A w \in Workspaces : Cardinality(Running(u, w)) <= 1
  <2> SUFFICES ASSUME NEW u \in Users, NEW w \in Workspaces PROVE Cardinality(Running(u, w)) <= 1
    OBVIOUS
  <2>1. \A d, e \in Running(u, w) : d = e
    BY DEF Running, Mine, ShiftInv, OneTimer
  <2> QED
    BY <2>1, AtMostOne
<1>4. \A s \in DOMAIN session : IF Open(s) THEN session[s].status = "OPEN" /\ Contiguous(s)
                                ELSE session[s].status # "OPEN" /\ session[s].presence = None
  BY OpenShiftIsContiguous DEF ShiftInv, Shifts
<1> QED
  BY <1>1, <1>2, <1>3, <1>4 DEF ShiftsSafe

(* A person is clocked in at most once in all workspaces together, runs at *)
(* most one timer in each, and an open session is covered without gap or   *)
(* overlap by intervals of which the last is open and what the session     *)
(* shows: clockIn, clockOut, setPresence, corrections by hand and the      *)
(* sweep of attendanceScheduler.ts, in any order.                          *)
THEOREM ShiftsHold == Spec => []ShiftsSafe
<1>1. Init => ShiftInv
  BY ShiftInit
<1>2. ShiftInv /\ [Next]_vars => ShiftInv'
  BY ShiftStep
<1>3. ShiftInv => ShiftsSafe
  BY ShiftInvSafe
<1> QED
  BY <1>1, <1>2, <1>3, PTL DEF Spec

-----------------------------------------------------------------------------
(* What ended a session stands.                                            *)

Stands ==
  \A s \in DOMAIN session :
    session[s].out # None =>
      \/ session'[s] = session[s]
      \/ /\ session'[s].adjusted /\ session'[s].out # None
         /\ Measured(session'[s]) = Measured(session[s])

LEMMA CorrectionStands ==
  ASSUME ShiftInv, NEW r \in Requests, FinishUpdateWorkSession(r)
  PROVE  Stands
<1> DEFINE q == req[r]
           s == q.session
           y == [session[s] EXCEPT !.user = q.user, !.in = q.span[1], !.out = q.span[2],
                   !.day = DayOf(q.span[1]), !.status = q.status, !.presence = None,
                   !.worked = q.span[2] - q.span[1], !.adjusted = TRUE]
<1>1. q.pc = "adjust" /\ session' = [session EXCEPT ![s] = y]
  BY DEF FinishUpdateWorkSession
<1>2. s \in DOMAIN session /\ q.span \in Ranges
  BY <1>1 DEF ShiftInv, ShiftSound
<1>3. q.span[2] # None
  BY <1>2, WorkTimeAssumption, InstantsAreNaturals
<1>4. session[s] \in Session
  BY <1>2, Types
<1>5. /\ y.adjusted /\ y.out = q.span[2] /\ y.breaks = session[s].breaks /\ y.raw = session[s].raw
      /\ y.counted = session[s].counted
  BY <1>4 DEF Session
<1> HIDE DEF y
<1>6. session'[s] = y /\ \A t \in DOMAIN session \ {s} : session'[t] = session[t]
  BY <1>1, <1>2
<1> QED
  BY <1>3, <1>5, <1>6 DEF Stands, Measured

(* A handler that reads writes no row, and puts down what it read.         *)
DeskSteps == {"leave", "cancel", "overtime", "report", "rollup"}

Puts(r) == \E x : x.pc \notin DeskSteps /\ req' = [req EXCEPT ![r] = x]

LEMMA AskingReads ==
  ASSUME Asking \/ AskingAboutRow
  PROVE  UNCHANGED <<now, shiftVars, entry, policyVars, jobVars>> /\ \E r \in Requests : Puts(r)
<1> DEFINE Only == UNCHANGED <<now, shiftVars, entry, policyVars, jobVars>>
<1>1. ASSUME NEW r \in Requests, NEW u, NEW w, NEW p, ClockIn(r, u, w, p) PROVE Only /\ Puts(r)
  <2> DEFINE x == [pc |-> "clockIn", user |-> u, ws |-> w, at |-> now, eff |-> Resolved(w, u, DayOf(now)),
                   late |-> LateAt(Resolved(w, u, DayOf(now)), now) /\ policy[w].flags]
  <2>1. x.pc = "clockIn"
    OBVIOUS
  <2>2. Only /\ req' = [req EXCEPT ![r] = x]
    BY <1>1 DEF ClockIn, Wait
  <2> HIDE DEF x, Only
  <2> QED
    BY <2>1, <2>2 DEF Puts, DeskSteps
<1>2. ASSUME NEW r \in Requests, NEW u, NEW w, NEW p, ClockOut(r, u, w, p) PROVE Only /\ Puts(r)
  BY <1>2 DEF ClockOut, Wait, Puts, DeskSteps
<1>3. ASSUME NEW r \in Requests, NEW u, NEW w, NEW x, SetPresence(r, u, w, x) PROVE Only /\ Puts(r)
  BY <1>3 DEF SetPresence, Wait, Puts, DeskSteps
<1>4. ASSUME NEW r \in Requests, NEW a, NEW u, NEW w, NEW span, CreateWorkSession(r, a, u, w, span)
      PROVE  Only /\ Puts(r)
  BY <1>4 DEF CreateWorkSession, Wait, Puts, DeskSteps
<1>5. ASSUME NEW r \in Requests, NEW a, NEW w, StopTimer(r, a, w) PROVE Only /\ Puts(r)
  BY <1>5 DEF StopTimer, Wait, Puts, DeskSteps
<1>6. ASSUME NEW r \in Requests, NEW a, NEW w, NEW span, CreateTimeEntry(r, a, w, span)
      PROVE  Only /\ Puts(r)
  BY <1>6 DEF CreateTimeEntry, Wait, Puts, DeskSteps
<1>7. ASSUME NEW r \in Requests, NEW a, CloseMyOpenSession(r, a) PROVE Only /\ Puts(r)
  BY <1>7 DEF CloseMyOpenSession, Wait, Puts, DeskSteps
<1>8. ASSUME NEW r \in Requests, NEW a, NEW s, NEW u, NEW span, UpdateWorkSession(r, a, s, u, span)
      PROVE  Only /\ Puts(r)
  <2> DEFINE x == [pc |-> "adjust", session |-> s, user |-> u, span |-> span,
                   status |-> IF session[s].status = "OPEN" THEN "ADMIN_CLOSED" ELSE session[s].status]
  <2>1. x.pc = "adjust"
    OBVIOUS
  <2>2. Only /\ req' = [req EXCEPT ![r] = x]
    BY <1>8 DEF UpdateWorkSession, Wait
  <2> HIDE DEF x, Only
  <2> QED
    BY <2>1, <2>2 DEF Puts, DeskSteps
<1>9. ASSUME NEW r \in Requests, NEW a, NEW e, NEW span, UpdateTimeEntry(r, a, e, span)
      PROVE  Only /\ Puts(r)
  <2> DEFINE from == IF span = None THEN entry[e].from ELSE span[1]
             to == IF span = None THEN entry[e].to ELSE span[2]
             x == [pc |-> "write", entry |-> e,
                   row |-> [from |-> from, to |-> to, minutes |-> IF to = None THEN None ELSE to - from]]
  <2>1. x.pc = "write"
    OBVIOUS
  <2>2. Only /\ req' = [req EXCEPT ![r] = x]
    BY <1>9 DEF UpdateTimeEntry, Wait
  <2> HIDE DEF x, Only
  <2> QED
    BY <2>1, <2>2 DEF Puts, DeskSteps
<1>10. ASSUME NEW r \in Requests, NEW a, NEW e, DeleteTimeEntry(r, a, e) PROVE Only /\ Puts(r)
  BY <1>10 DEF DeleteTimeEntry, Wait, Puts, DeskSteps
<1> HIDE DEF Only
<1>11. Only /\ \E r \in Requests : Puts(r)
  BY <1>1, <1>2, <1>3, <1>4, <1>5, <1>6, <1>7, <1>8, <1>9, <1>10 DEF Asking, AskingAboutRow
<1> QED
  BY <1>11 DEF Only

LEMMA PolicyAlone ==
  ASSUME ChangingPolicy
  PROVE  UNCHANGED <<now, shiftVars, entry, jobVars, req>>
<1>1. \E op, a, w : Changing(op, a, w)
  BY DEF ChangingPolicy, CreateSchedule, CreateHoliday, DeleteHoliday, UpdateSettings, CreateSite,
         DeactivateSite
<1> QED
  BY <1>1 DEF Changing

LEMMA SessionsStand == ShiftInv /\ [Next]_vars => Stands
<1> SUFFICES ASSUME ShiftInv, [Next]_vars PROVE Stands
  OBVIOUS
<1>1. ASSUME UNCHANGED session PROVE Stands
  BY <1>1 DEF Stands
<1>2. ASSUME NEW y, session' = Append(session, y) PROVE Stands
  <2>1. \A s \in DOMAIN session : session'[s] = session[s]
    BY <1>2 DEF ShiftInv, ShiftRows
  <2> QED
    BY <2>1 DEF Stands
<1>3. ASSUME NEW t, Open(t), NEW y, session' = [session EXCEPT ![t] = y] PROVE Stands
  BY <1>3 DEF Stands, Open
<1>4. CASE Tick \/ Asking \/ AskingAboutRow \/ AtOnce \/ ChangingPolicy \/ SweepStart \/ SweepCrash
           \/ UNCHANGED vars
  <2>1. CASE Tick \/ AtOnce \/ SweepStart \/ SweepCrash \/ UNCHANGED vars
    BY <1>1, <2>1 DEF Tick, AtOnce, StartTimer, SetTimeEntryLock, SweepStart, SweepCrash, vars, shiftVars
  <2>2. CASE Asking \/ AskingAboutRow
    BY <1>1, <2>2, AskingReads DEF shiftVars
  <2>3. CASE ChangingPolicy
    BY <1>1, <2>3, PolicyAlone DEF shiftVars
  <2> QED
    BY <1>4, <2>1, <2>2, <2>3
<1>5. ASSUME NEW r \in Requests,
             \/ FinishClockIn(r) \/ FinishClockOut(r) \/ FinishSetPresence(r)
             \/ FinishCreateWorkSession(r) \/ FinishUpdateWorkSession(r)
             \/ FinishCreateTimeEntry(r) \/ FinishWriteEntry(r) \/ FinishDeleteTimeEntry(r)
      PROVE  Stands
  <2>1. CASE Refused(r)
    BY <1>1, <2>1 DEF Refused, shiftVars
  <2>2. CASE FinishClockIn(r) /\ ~Refused(r)
    BY <1>2, <2>2 DEF FinishClockIn
  <2>3. CASE FinishClockOut(r) /\ ~Refused(r)
    <3>1. Open(req[r].session)
      BY <2>3 DEF FinishClockOut, StillOpen
    <3>2. \E y : session' = [session EXCEPT ![req[r].session] = y]
      BY <2>3 DEF FinishClockOut
    <3> QED
      BY <1>3, <3>1, <3>2
  <2>4. CASE FinishSetPresence(r) /\ ~Refused(r)
    <3>1. Open(req[r].session)
      BY <2>4 DEF FinishSetPresence
    <3>2. \E y : session' = [session EXCEPT ![req[r].session] = y]
      BY <2>4 DEF FinishSetPresence
    <3> QED
      BY <1>3, <3>1, <3>2
  <2>5. CASE FinishCreateWorkSession(r)
    BY <1>2, <2>5 DEF FinishCreateWorkSession
  <2>6. CASE FinishUpdateWorkSession(r)
    BY <2>6, CorrectionStands
  <2>7. CASE (FinishCreateTimeEntry(r) \/ FinishWriteEntry(r) \/ FinishDeleteTimeEntry(r)) /\ ~Refused(r)
    BY <1>1, <2>7 DEF FinishCreateTimeEntry, FinishWriteEntry, FinishDeleteTimeEntry, shiftVars
  <2> QED
    BY <1>5, <2>1, <2>2, <2>3, <2>4, <2>5, <2>6, <2>7
<1>6. ASSUME NEW z, SweepClose(z) PROVE Stands
  <2>1. UNCHANGED session \/ (Open(z.session) /\ \E y : session' = [session EXCEPT ![z.session] = y])
    BY <1>6 DEF SweepClose, shiftVars, StillOpen
  <2> QED
    BY <1>1, <1>3, <2>1
<1> QED
  BY <1>4, <1>5, <1>6 DEF Next, Finishing, Sweeping

(* What ended a session stands: neither a late clock-out nor a sweep that  *)
(* read the session while it was open writes over it; only a correction by *)
(* hand does, which never opens it again and leaves what was measured.     *)
THEOREM EndsStand == Spec => ClosedStands
<1>1. Init => ShiftInv
  BY ShiftInit
<1>2. ShiftInv /\ [Next]_vars => ShiftInv'
  BY ShiftStep
<1>3. ShiftInv /\ [Next]_vars => Stands
  BY SessionsStand
<1>4. Spec => [][Stands]_vars
  BY <1>1, <1>2, <1>3, PTL DEF Spec
<1> QED
  BY <1>4 DEF ClosedStands, Stands

-----------------------------------------------------------------------------
(* What is asked for and decided: frames.                                  *)

LEMMA DeskStepIsSound ==
  ASSUME NEW x, x.pc \in DeskSteps \union {"idle"}
  PROVE  ShiftSound(x)
BY DEF ShiftSound, DeskSteps

(* A step of PeopleOps that is none of WorkTime.                           *)
LEMMA ShiftsApart ==
  ASSUME ShiftInv, UNCHANGED <<now, session, presence, entry, policyVars, jobVars>>, OneFlag',
         asked' = asked \/ (asked.left > 0 /\ Asked),
         DOMAIN req' = Requests, \A p \in Requests : req'[p] = req[p] \/ ShiftSound(req'[p])
  PROVE  ShiftInv'
<1>1. Clock' /\ now <= now'
  BY Types DEF ShiftInv, Clock, Asked, jobVars
<1>2. EntryRows' /\ OneTimer' /\ PolicyRows' /\ Swept'
  BY DEF ShiftInv, EntryRows, OneTimer, PolicyRows, policyVars, Swept, jobVars
<1> QED
  BY <1>1, <1>2, ShiftsUntouched

(* How the rows may change that a request refers to.                       *)
RowsStay ==
  /\ \A k \in DOMAIN leave :
       /\ k \in DOMAIN leave' /\ leave'[k].span = leave[k].span
       /\ leave[k].status \in {"APPROVED", "WITHDRAWN"} => leave'[k].status \in {"APPROVED", "WITHDRAWN"}
  /\ DOMAIN overtime \subseteq DOMAIN overtime'
  /\ \A x \in DOMAIN report :
       /\ x \in DOMAIN report'
       /\ report'[x] = report[x] \/ report'[x].version = report[x].version + 1

LEMMA DeskSoundStays ==
  ASSUME DeskRows, RowsStay, NEW p, NEW q, DeskSound(q), req'[p] = q
  PROVE  DeskSound(req[p])'
<1>1. q.pc = "leave" =>
        /\ q.leave \in DOMAIN leave' /\ q.status \in {"APPROVED", "REJECTED"}
        /\ q.days \subseteq leave'[q.leave].span[1] .. leave'[q.leave].span[2]
        /\ q.status = "REJECTED" => q.days = {}
  BY DEF DeskSound, RowsStay
<1>2. q.pc = "cancel" => q.leave \in DOMAIN leave' /\ leave'[q.leave].status \in {"APPROVED", "WITHDRAWN"}
  BY DEF DeskSound, RowsStay
<1>3. q.pc = "overtime" => q.row \in DOMAIN overtime' /\ q.granted \in Minutes \union {0}
  BY DEF DeskSound, RowsStay
<1>4. q.pc = "report" =>
        /\ q.key \in DOMAIN report' /\ q.status \in {"APPROVED", "REJECTED"} /\ q.seen \in Nat
        /\ q.version \in Nat /\ q.version <= report'[q.key].version
        /\ q.version = report'[q.key].version => q.seen = report'[q.key].content
  <2> SUFFICES ASSUME q.pc = "report"
               PROVE  /\ q.key \in DOMAIN report' /\ q.status \in {"APPROVED", "REJECTED"} /\ q.seen \in Nat
                      /\ q.version \in Nat /\ q.version <= report'[q.key].version
                      /\ q.version = report'[q.key].version => q.seen = report'[q.key].content
    OBVIOUS
  <2>1. /\ q.key \in DOMAIN report /\ q.status \in {"APPROVED", "REJECTED"} /\ q.seen \in Nat
        /\ q.version \in Nat /\ q.version <= report[q.key].version
        /\ q.version = report[q.key].version => q.seen = report[q.key].content
    BY DEF DeskSound
  <2>2. report[q.key].version \in Nat
    BY <2>1 DEF DeskRows, PeopleTypeOK, Report
  <2>3. q.key \in DOMAIN report'
        /\ (report'[q.key] = report[q.key] \/ report'[q.key].version = report[q.key].version + 1)
    BY <2>1 DEF RowsStay
  <2> QED
    BY <2>1, <2>2, <2>3
<1>5. q.pc = "rollup" => q \in RollupType /\ \A f, g \in q.raise : SameFlag(f, g)' => f = g
  BY DEF DeskSound, SameFlag
<1>6. RollupType' = RollupType
  BY DEF RollupType, Sums
<1> QED
  BY <1>1, <1>2, <1>3, <1>4, <1>5, <1>6 DEF DeskSound

LEMMA DeskStep ==
  ASSUME PeopleInv, ShiftInv', DeskRows', Bookings', Reviewed', RowsStay,
         \A p \in Requests : req'[p] = req[p] \/ DeskSound(req'[p])
  PROVE  PeopleInv'
<1>1. ASSUME NEW p \in Requests PROVE DeskSound(req[p])'
  <2>1. DeskSound(req'[p])
    BY DEF PeopleInv
  <2>2. PICK q : q = req'[p]
    OBVIOUS
  <2> QED
    BY <2>1, <2>2, DeskSoundStays DEF PeopleInv
<1> QED
  BY <1>1 DEF PeopleInv

(* Neither rows of the desk nor bookings change.                           *)
LEMMA DeskKept ==
  ASSUME PeopleInv, ShiftInv', UNCHANGED deskVars,
         \A p \in Requests : req'[p] = req[p] \/ DeskSound(req'[p])
  PROVE  PeopleInv'
<1>1. UNCHANGED <<leave, booked, overtime, report, dayRow>>
  BY DEF deskVars
<1>2. DeskRows'
  BY <1>1 DEF PeopleInv, DeskRows, PeopleTypeOK
<1>3. Bookings' /\ Reviewed'
  BY <1>1 DEF PeopleInv, Bookings, Reviewed
<1>4. RowsStay
  BY <1>1 DEF RowsStay
<1> QED
  BY <1>2, <1>3, <1>4, DeskStep

LEMMA NotAtTheDesk ==
  ASSUME NEW x, x.pc \notin DeskSteps
  PROVE  DeskSound(x)
BY DEF DeskSound, DeskSteps

(* A step of WorkTime puts down nothing of the desk.                       *)
LEMMA ShiftsKeepDesk ==
  ASSUME ShiftInv, [Next]_vars, NEW p \in Requests
  PROVE  req'[p] = req[p] \/ req'[p].pc \notin DeskSteps
<1>0. DOMAIN req = Requests /\ Idle.pc \notin DeskSteps
  BY DEF ShiftInv, Idle, DeskSteps
<1>1. CASE Asking \/ AskingAboutRow
  BY <1>0, <1>1, AskingReads DEF Puts
<1>2. CASE Tick \/ AtOnce \/ ChangingPolicy \/ Sweeping \/ SweepCrash \/ UNCHANGED vars
  <2>1. UNCHANGED req
    BY <1>2, PolicyAlone DEF Tick, AtOnce, StartTimer, SetTimeEntryLock, Sweeping, SweepStart, SweepClose,
                             SweepCrash, vars, reqVars
  <2> QED
    BY <2>1
<1>3. CASE Finishing
  <2>1. PICK r \in Requests : Finish(r)
    BY <1>3 DEF Finishing, FinishClockIn, FinishClockOut, FinishSetPresence, FinishCreateWorkSession,
                FinishUpdateWorkSession, FinishCreateTimeEntry, FinishWriteEntry, FinishDeleteTimeEntry,
                Refused
  <2> QED
    BY <1>0, <2>1 DEF Finish
<1> QED
  BY <1>1, <1>2, <1>3 DEF Next

-----------------------------------------------------------------------------
(* Leave.                                                                  *)

LEMMA LeaveTypes ==
  ASSUME PeopleInv
  PROVE  /\ leave \in Seq(Leave) /\ Len(leave) \in Nat /\ DOMAIN leave = 1 .. Len(leave)
         /\ Len(leave) <= MaxLeaves /\ MaxLeaves \in Nat
         /\ \A k \in DOMAIN leave :
              /\ leave[k] \in Leave /\ leave[k].span \in LeaveSpans /\ leave[k].version \in Nat
              /\ leave[k].user \in Users /\ leave[k].ws \in Workspaces
<1>1. /\ leave \in Seq(Leave) /\ Len(leave) <= MaxLeaves /\ MaxLeaves \in Nat
      /\ \A k \in DOMAIN leave : leave[k] \in Leave
  BY PeopleOpsAssumption DEF PeopleInv, DeskRows, PeopleTypeOK
<1>2. Len(leave) \in Nat /\ DOMAIN leave = 1 .. Len(leave)
  BY <1>1
<1>3. \A k \in DOMAIN leave : /\ leave[k].span \in LeaveSpans /\ leave[k].version \in Nat
                             /\ leave[k].user \in Users /\ leave[k].ws \in Workspaces
  BY <1>1 DEF Leave
<1> QED
  BY <1>1, <1>2, <1>3

(* Writing the state of a request for leave, its version or both.          *)
LEMMA LeaveRewritten ==
  ASSUME PeopleInv, NEW k \in DOMAIN leave, NEW y \in Leave, leave' = [leave EXCEPT ![k] = y],
         y.span = leave[k].span, y.user = leave[k].user, y.ws = leave[k].ws,
         leave[k].status \in {"APPROVED", "WITHDRAWN"} => y.status = "WITHDRAWN",
         UNCHANGED <<overtime, report, dayRow>>, booked' \subseteq LeaveDay
  PROVE  /\ DeskRows' /\ Reviewed' /\ RowsStay
         /\ DOMAIN leave' = DOMAIN leave /\ leave'[k] = y
         /\ \A j \in DOMAIN leave \ {k} : leave'[j] = leave[j]
<1>1. /\ leave' \in Seq(Leave) /\ Len(leave') = Len(leave) /\ DOMAIN leave' = DOMAIN leave
      /\ leave'[k] = y /\ \A j \in DOMAIN leave \ {k} : leave'[j] = leave[j]
  BY LeaveTypes
<1>2. Reviewed'
  BY DEF PeopleInv, Reviewed
<1>3. DeskRows'
  <2>1. \A j \in DOMAIN leave' : leave'[j] \in Leave
    BY <1>1, LeaveTypes
  <2> QED
    BY <1>1, <2>1, LeaveTypes DEF PeopleInv, DeskRows, PeopleTypeOK
<1>4. RowsStay
  BY <1>1 DEF RowsStay
<1> QED
  BY <1>1, <1>2, <1>3, <1>4

LEMMA LeaveAsked ==
  ASSUME PeopleInv, NEW u \in Users, NEW w \in Workspaces, NEW span \in LeaveSpans, RequestLeave(u, w, span)
  PROVE  PeopleInv'
<1> DEFINE y == [user |-> u, ws |-> w, span |-> span, status |-> "PENDING", version |-> 0]
<1>1. /\ asked.left > 0 /\ Asked /\ Len(leave) < MaxLeaves /\ leave' = Append(leave, y)
      /\ UNCHANGED <<now, shiftVars, entry, policyVars, jobVars, req, booked, overtime, report, dayRow>>
  BY DEF RequestLeave, Allowed
<1>2. y \in Leave
  BY DEF Leave, Approvals
<1> HIDE DEF y
<1>3. /\ leave' \in Seq(Leave) /\ Len(leave') = Len(leave) + 1 /\ DOMAIN leave \subseteq DOMAIN leave'
      /\ \A k \in DOMAIN leave : leave'[k] = leave[k]
  BY <1>1, <1>2, LeaveTypes, AppendProperties
<1>4. DeskRows'
  <2>1. \A k \in DOMAIN leave' : leave'[k] \in Leave
    BY <1>3
  <2>2. Len(leave') <= MaxLeaves
    BY <1>1, <1>3, LeaveTypes
  <2> QED
    BY <1>1, <1>3, <2>1, <2>2 DEF PeopleInv, DeskRows, PeopleTypeOK
<1>5. Bookings' /\ Reviewed' /\ RowsStay
  BY <1>1, <1>3 DEF PeopleInv, Bookings, Reviewed, RowsStay
<1>6. ShiftInv'
  <2>1. OneFlag'
    BY <1>1 DEF PeopleInv, ShiftInv, OneFlag, SameFlag, shiftVars
  <2> QED
    BY <1>1, <2>1, ShiftsApart DEF PeopleInv, ShiftInv, shiftVars
<1> QED
  BY <1>1, <1>4, <1>5, <1>6, DeskStep

LEMMA LeaveWithdrawn ==
  ASSUME PeopleInv, NEW u, NEW k \in DOMAIN leave, WithdrawLeave(u, k)
  PROVE  PeopleInv'
<1> DEFINE y == [leave[k] EXCEPT !.status = "WITHDRAWN"]
<1>1. /\ asked.left > 0 /\ Asked /\ leave[k].status = "PENDING" /\ leave' = [leave EXCEPT ![k] = y]
      /\ UNCHANGED <<now, shiftVars, entry, policyVars, jobVars, req, booked, overtime, report, dayRow>>
  BY DEF WithdrawLeave, Allowed
<1>2. /\ y \in Leave /\ y.span = leave[k].span /\ y.user = leave[k].user /\ y.ws = leave[k].ws
      /\ y.status = "WITHDRAWN"
  BY LeaveTypes DEF Leave, Approvals
<1> HIDE DEF y
<1>3. /\ DeskRows' /\ Reviewed' /\ RowsStay
      /\ DOMAIN leave' = DOMAIN leave /\ leave'[k] = y
      /\ \A j \in DOMAIN leave \ {k} : leave'[j] = leave[j]
  BY <1>1, <1>2, LeaveRewritten DEF PeopleInv, DeskRows, PeopleTypeOK
<1>4. Bookings'
  <2>1. \A b \in booked : b.leave \in DOMAIN leave \ {k}
    BY <1>1 DEF PeopleInv, Bookings
  <2> QED
    BY <1>1, <1>3, <2>1 DEF PeopleInv, Bookings
<1>5. ShiftInv'
  <2>1. OneFlag'
    BY <1>1 DEF PeopleInv, ShiftInv, OneFlag, SameFlag, shiftVars
  <2> QED
    BY <1>1, <2>1, ShiftsApart DEF PeopleInv, ShiftInv, shiftVars
<1> QED
  BY <1>1, <1>3, <1>4, <1>5, DeskStep

(* A handler that reads for a decision.                                    *)
LEMMA DeskTakes ==
  ASSUME PeopleInv, NEW r \in Requests, NEW x, x.pc \in DeskSteps, DeskSound(x), Ready(r, x.pc) \/ asked.left > 0,
         Wait(r, x), UNCHANGED <<now, shiftVars, entry, policyVars, jobVars, deskVars>>
  PROVE  PeopleInv'
<1>1. asked.left > 0 /\ Asked /\ req' = [req EXCEPT ![r] = x]
  BY DEF Ready, Allowed, Wait
<1>2. ShiftInv'
  BY <1>1, DeskStepIsSound, RequestTakes DEF PeopleInv
<1>3. \A p \in Requests : req'[p] = req[p] \/ DeskSound(req'[p])
  BY <1>1 DEF PeopleInv, ShiftInv
<1> QED
  BY <1>2, <1>3, DeskKept

LEMMA LeaveReviewed ==
  ASSUME PeopleInv, NEW r \in Requests, NEW a, NEW k \in DOMAIN leave, NEW yes \in BOOLEAN,
         ReviewLeave(r, a, k, yes)
  PROVE  PeopleInv'
<1> DEFINE status == IF yes THEN "APPROVED" ELSE "REJECTED"
           days == IF yes THEN WorkingDays(leave[k].ws, leave[k].user, leave[k].span) ELSE {}
           x == [pc |-> "leave", leave |-> k, version |-> leave[k].version, status |-> status, days |-> days]
<1>1. Wait(r, x) /\ asked.left > 0 /\ UNCHANGED <<now, shiftVars, entry, policyVars, jobVars, deskVars>>
  BY DEF ReviewLeave, Ready, Allowed
<1>2. /\ status \in {"APPROVED", "REJECTED"} /\ (status = "REJECTED" => days = {})
      /\ days \subseteq leave[k].span[1] .. leave[k].span[2]
  BY DEF WorkingDays
<1> HIDE DEF status, days
<1>3. DeskSound(x) /\ x.pc \in DeskSteps
  BY <1>2 DEF DeskSound, DeskSteps
<1> HIDE DEF x
<1> QED
  BY <1>1, <1>3, DeskTakes

LEMMA CancelAsked ==
  ASSUME PeopleInv, NEW r \in Requests, NEW a, NEW k \in DOMAIN leave, CancelLeave(r, a, k)
  PROVE  PeopleInv'
<1> DEFINE x == [pc |-> "cancel", leave |-> k]
<1>1. Wait(r, x) /\ asked.left > 0 /\ UNCHANGED <<now, shiftVars, entry, policyVars, jobVars, deskVars>>
      /\ leave[k].status = "APPROVED"
  BY DEF CancelLeave, Ready, Allowed
<1>2. DeskSound(x) /\ x.pc \in DeskSteps
  BY <1>1 DEF DeskSound, DeskSteps
<1> HIDE DEF x
<1> QED
  BY <1>1, <1>2, DeskTakes

LEMMA DeskRefused ==
  ASSUME PeopleInv, NEW r \in Requests, Refused(r), UNCHANGED deskVars
  PROVE  PeopleInv'
<1>1. ShiftInv'
  BY RequestRefused DEF PeopleInv
<1>2. \A p \in Requests : req'[p] = req[p] \/ DeskSound(req'[p])
  BY NotAtTheDesk DEF Refused, Finish, Idle, DeskSteps, PeopleInv, ShiftInv
<1> QED
  BY <1>1, <1>2, DeskKept

(* A decision that writes rows of the desk alone.                          *)
LEMMA DeskFinishes ==
  ASSUME PeopleInv, NEW r \in Requests, Finish(r), UNCHANGED <<now, shiftVars, entry, policyVars, jobVars>>
  PROVE  ShiftInv' /\ \A p \in Requests : req'[p] = req[p] \/ DeskSound(req'[p])
<1>1. ShiftInv'
  BY IdleIsSound, RequestTakes DEF PeopleInv, Finish
<1>2. \A p \in Requests : req'[p] = req[p] \/ DeskSound(req'[p])
  BY NotAtTheDesk DEF Finish, Idle, DeskSteps, PeopleInv, ShiftInv
<1> QED
  BY <1>1, <1>2

LEMMA LeaveDecided ==
  ASSUME PeopleInv, NEW r \in Requests, FinishReviewLeave(r)
  PROVE  PeopleInv'
<1> DEFINE q == req[r]
           k == q.leave
           l == leave[k]
           y == [l EXCEPT !.status = q.status, !.version = @ + 1]
           new == {[leave |-> k, user |-> l.user, ws |-> l.ws, day |-> d] : d \in q.days}
<1>1. CASE ~Claims(l, q.version) \/ ~MayBook(l.ws, l.user, q.days)
  BY <1>1, DeskRefused DEF FinishReviewLeave
<1>2. CASE Claims(l, q.version) /\ MayBook(l.ws, l.user, q.days)
  <2>1. /\ q.pc = "leave" /\ l.status = "PENDING" /\ q.days \intersect BookedDays(l.ws, l.user) = {}
        /\ leave' = [leave EXCEPT ![k] = y] /\ booked' = booked \union new /\ Finish(r)
        /\ UNCHANGED <<now, shiftVars, entry, policyVars, jobVars, overtime, report, dayRow>>
    <3>1. /\ q.pc = "leave" /\ leave' = [leave EXCEPT ![k].status = q.status, ![k].version = @ + 1]
          /\ booked' = booked \union new /\ Finish(r)
          /\ UNCHANGED <<now, shiftVars, entry, policyVars, jobVars, overtime, report, dayRow>>
      BY <1>2 DEF FinishReviewLeave
    <3> QED
      BY <1>2, <3>1 DEF Claims, MayBook
  <2>2. /\ k \in DOMAIN leave /\ q.status \in {"APPROVED", "REJECTED"}
        /\ q.days \subseteq l.span[1] .. l.span[2] /\ (q.status = "REJECTED" => q.days = {})
    BY <2>1 DEF PeopleInv, DeskSound
  <2>3. l \in Leave /\ l.version \in Nat /\ l.span \in LeaveSpans /\ l.user \in Users /\ l.ws \in Workspaces
    BY <2>2, LeaveTypes
  <2>4. /\ y \in Leave /\ y.span = l.span /\ y.user = l.user /\ y.ws = l.ws /\ y.status = q.status
    <3>1. l.version + 1 \in Nat /\ q.status \in Approvals
      BY <2>2, <2>3 DEF Approvals
    <3> HIDE DEF l, q
    <3> QED
      BY <2>3, <3>1 DEF Leave
  <2> HIDE DEF y
  <2>5. new \subseteq LeaveDay
    <3>1. l.span[1] \in Days /\ l.span[2] \in Days
      BY <2>3, PeopleOpsAssumption
    <3>2. q.days \subseteq Days
      <4> DEFINE m == MaxTime \div DayLength
      <4>1. m \in Nat /\ Days = 0 .. m
        BY WorkTimeAssumption DEF Days
      <4> HIDE DEF m
      <4> QED
        BY <2>2, <3>1, <4>1
    <3>3. k \in 1 .. MaxLeaves
      BY <2>2, LeaveTypes
    <3> QED
      BY <2>3, <3>2, <3>3 DEF LeaveDay
  <2>6. booked' \subseteq LeaveDay
    BY <2>1, <2>5 DEF PeopleInv, DeskRows, PeopleTypeOK
  <2>7. /\ DeskRows' /\ Reviewed' /\ RowsStay
        /\ DOMAIN leave' = DOMAIN leave /\ leave'[k] = y
        /\ \A j \in DOMAIN leave \ {k} : leave'[j] = leave[j]
    BY <2>1, <2>2, <2>4, <2>6, LeaveRewritten
  <2>8. \A b \in booked : /\ b.leave \in DOMAIN leave \ {k} /\ leave[b.leave].status = "APPROVED"
                          /\ leave[b.leave].user = b.user /\ leave[b.leave].ws = b.ws
                          /\ b.day \in leave[b.leave].span[1] .. leave[b.leave].span[2]
    BY <2>1 DEF PeopleInv, Bookings
  <2>9. \A b \in new : /\ b.leave = k /\ b.user = l.user /\ b.ws = l.ws /\ b.day \in q.days
                       /\ q.status = "APPROVED"
    BY <2>2
  <2>10. \A b, c \in new : b.day = c.day => b = c
    OBVIOUS
  <2> HIDE DEF new
  <2>11. \A b \in booked, c \in new : b.ws = c.ws /\ b.user = c.user => b.day # c.day
    BY <2>1, <2>9 DEF BookedDays
  <2>12. Bookings'
    <3>1. ASSUME NEW b \in booked'
          PROVE  /\ b.leave \in DOMAIN leave' /\ leave'[b.leave].status = "APPROVED"
                 /\ leave'[b.leave].user = b.user /\ leave'[b.leave].ws = b.ws
                 /\ b.day \in leave'[b.leave].span[1] .. leave'[b.leave].span[2]
      <4>1. CASE b \in booked
        BY <2>7, <2>8, <4>1
      <4>2. CASE b \in new
        BY <2>2, <2>4, <2>7, <2>9, <4>2
      <4> QED
        BY <2>1, <4>1, <4>2
    <3>2. ASSUME NEW b \in booked', NEW c \in booked', b.ws = c.ws, b.user = c.user, b.day = c.day
          PROVE  b = c
      <4>1. CASE b \in booked /\ c \in booked
        BY <3>2, <4>1 DEF PeopleInv, Bookings
      <4>2. CASE b \in new /\ c \in new
        BY <2>10, <3>2, <4>2
      <4> QED
        BY <2>1, <2>11, <3>2, <4>1, <4>2
    <3> QED
      BY <3>1, <3>2 DEF Bookings
  <2> QED
    BY <2>1, <2>7, <2>12, DeskFinishes, DeskStep
<1> QED
  BY <1>1, <1>2

LEMMA LeaveCancelled ==
  ASSUME PeopleInv, NEW r \in Requests, FinishCancelLeave(r)
  PROVE  PeopleInv'
<1>0. PICK k : k = req[r].leave
  OBVIOUS
<1> DEFINE y == [leave[k] EXCEPT !.status = "WITHDRAWN"]
<1>1. /\ req[r].pc = "cancel" /\ booked' = {b \in booked : b.leave # k} /\ leave' = [leave EXCEPT ![k] = y]
      /\ Finish(r) /\ UNCHANGED <<now, shiftVars, entry, policyVars, jobVars, overtime, report, dayRow>>
  BY <1>0 DEF FinishCancelLeave
<1>2. k \in DOMAIN leave
  BY <1>0, <1>1 DEF PeopleInv, DeskSound
<1>3. /\ y \in Leave /\ y.span = leave[k].span /\ y.user = leave[k].user /\ y.ws = leave[k].ws
      /\ y.status = "WITHDRAWN"
  BY <1>2, LeaveTypes DEF Leave, Approvals
<1> HIDE DEF y
<1>4. booked' \subseteq LeaveDay
  BY <1>1 DEF PeopleInv, DeskRows, PeopleTypeOK
<1>5. /\ DeskRows' /\ Reviewed' /\ RowsStay
      /\ DOMAIN leave' = DOMAIN leave /\ leave'[k] = y
      /\ \A j \in DOMAIN leave \ {k} : leave'[j] = leave[j]
  BY <1>1, <1>2, <1>3, <1>4, LeaveRewritten
<1>6. Bookings'
  BY <1>1, <1>5 DEF PeopleInv, Bookings
<1> QED
  BY <1>1, <1>5, <1>6, DeskFinishes, DeskStep

-----------------------------------------------------------------------------
(* Overtime and reports.                                                   *)

LEMMA OvertimeTypes ==
  ASSUME PeopleInv
  PROVE  /\ overtime \in Seq(Overtime)
         /\ \A k \in DOMAIN overtime : /\ overtime[k] \in Overtime /\ overtime[k].asked \in Minutes
                                       /\ overtime[k].version \in Nat
         /\ Minutes \subseteq Nat /\ 0 \in Nat
<1>1. overtime \in Seq(Overtime)
  BY DEF PeopleInv, DeskRows
<1>2. \A k \in DOMAIN overtime : overtime[k] \in Overtime
  BY DEF PeopleInv, DeskRows, PeopleTypeOK
<1>3. \A k \in DOMAIN overtime : overtime[k].asked \in Minutes /\ overtime[k].version \in Nat
  BY <1>2 DEF Overtime
<1> QED
  BY <1>1, <1>2, <1>3, PeopleOpsAssumption

(* A step that writes overtime alone.                                      *)
LEMMA OvertimeWritten ==
  ASSUME PeopleInv, overtime' \in Seq(Overtime), DOMAIN overtime \subseteq DOMAIN overtime',
         UNCHANGED <<leave, booked, report, dayRow>>
  PROVE  DeskRows' /\ Bookings' /\ Reviewed' /\ RowsStay
<1>1. \A k \in DOMAIN overtime' : overtime'[k] \in Overtime
  OBVIOUS
<1>2. DeskRows'
  BY <1>1 DEF PeopleInv, DeskRows, PeopleTypeOK
<1>3. Bookings' /\ Reviewed' /\ RowsStay
  BY DEF PeopleInv, Bookings, Reviewed, RowsStay
<1> QED
  BY <1>2, <1>3

LEMMA OvertimeAsked ==
  ASSUME PeopleInv, NEW u \in Users, NEW w \in Workspaces, NEW day \in Days, NEW n \in Minutes,
         RequestOvertime(u, w, day, n)
  PROVE  PeopleInv'
<1> DEFINE y == [user |-> u, ws |-> w, day |-> day, asked |-> n, granted |-> 0, status |-> "PENDING",
                 version |-> 0]
<1>1. /\ asked.left > 0 /\ Asked /\ overtime' = Append(overtime, y)
      /\ UNCHANGED <<now, shiftVars, entry, policyVars, jobVars, req, leave, booked, report, dayRow>>
  BY DEF RequestOvertime, Allowed
<1>2. y \in Overtime
  BY DEF Overtime, Approvals
<1> HIDE DEF y
<1>3. overtime' \in Seq(Overtime) /\ DOMAIN overtime \subseteq DOMAIN overtime'
  BY <1>1, <1>2, OvertimeTypes, AppendProperties
<1>4. DeskRows' /\ Bookings' /\ Reviewed' /\ RowsStay
  BY <1>1, <1>3, OvertimeWritten
<1>5. ShiftInv'
  <2>1. OneFlag'
    BY <1>1 DEF PeopleInv, ShiftInv, OneFlag, SameFlag, shiftVars
  <2> QED
    BY <1>1, <2>1, ShiftsApart DEF PeopleInv, ShiftInv, shiftVars
<1> QED
  BY <1>1, <1>4, <1>5, DeskStep

LEMMA OvertimeReviewed ==
  ASSUME PeopleInv, NEW r \in Requests, NEW a, NEW k \in DOMAIN overtime, NEW n \in Minutes \union {0},
         NEW approve \in BOOLEAN, ReviewOvertime(r, a, k, n, approve)
  PROVE  PeopleInv'
<1> DEFINE granted == IF approve THEN Min({n, overtime[k].asked}) ELSE 0
           status == IF approve THEN "APPROVED" ELSE "REJECTED"
           x == [pc |-> "overtime", row |-> k, version |-> overtime[k].version, status |-> status,
                 granted |-> granted]
<1>1. Wait(r, x) /\ asked.left > 0 /\ UNCHANGED <<now, shiftVars, entry, policyVars, jobVars, deskVars>>
  BY DEF ReviewOvertime, Ready, Allowed
<1>2. granted \in Minutes \union {0}
  <2>1. n \in Nat /\ overtime[k].asked \in Nat /\ overtime[k].asked \in Minutes
    BY OvertimeTypes
  <2> QED
    BY <2>1, MinOfTwo
<1> HIDE DEF granted
<1>4. status \in {"APPROVED", "REJECTED"}
  OBVIOUS
<1> HIDE DEF status
<1>3. DeskSound(x) /\ x.pc \in DeskSteps
  BY <1>2, <1>4 DEF DeskSound, DeskSteps
<1> HIDE DEF x
<1> QED
  BY <1>1, <1>3, DeskTakes

LEMMA OvertimeDecided ==
  ASSUME PeopleInv, NEW r \in Requests, FinishReviewOvertime(r)
  PROVE  PeopleInv'
<1> DEFINE q == req[r]
           k == q.row
           status == q.status
           y == [overtime[k] EXCEPT !.status = status, !.granted = q.granted,
                                    !.version = overtime[k].version + 1]
<1>1. CASE ~Claims(overtime[k], q.version)
  BY <1>1, DeskRefused DEF FinishReviewOvertime
<1>2. CASE Claims(overtime[k], q.version)
  <2>1. /\ q.pc = "overtime" /\ Finish(r)
        /\ overtime' = [overtime EXCEPT ![k].status = status, ![k].granted = q.granted,
                                        ![k].version = @ + 1]
        /\ UNCHANGED <<now, shiftVars, entry, policyVars, jobVars, leave, booked, report, dayRow>>
    BY <1>2 DEF FinishReviewOvertime
  <2>2. k \in DOMAIN overtime /\ q.granted \in Minutes \union {0} /\ status \in {"APPROVED", "REJECTED"}
    BY <2>1 DEF PeopleInv, DeskSound
  <2>3. overtime' = [overtime EXCEPT ![k] = y]
    BY <2>1
  <2>4. y \in Overtime
    <3>1. status \in Approvals
      BY <2>2 DEF Approvals
    <3>2. overtime[k] \in Overtime /\ overtime[k].version + 1 \in Nat
      BY <2>2, OvertimeTypes
    <3> HIDE DEF status
    <3> QED
      BY <2>2, <3>1, <3>2 DEF Overtime
  <2> HIDE DEF y
  <2>5. overtime' \in Seq(Overtime) /\ DOMAIN overtime' = DOMAIN overtime
    BY <2>2, <2>3, <2>4, OvertimeTypes
  <2>6. DeskRows' /\ Bookings' /\ Reviewed' /\ RowsStay
    BY <2>1, <2>5, OvertimeWritten
  <2> QED
    BY <2>1, <2>6, DeskFinishes, DeskStep
<1> QED
  BY <1>1, <1>2

(* A step that writes one report.                                          *)
LEMMA ReportWritten ==
  ASSUME PeopleInv, NEW x \in Cell, NEW y \in Report, DOMAIN report' = DOMAIN report \union {x},
         report'[x] = y, \A z \in DOMAIN report \ {x} : report'[z] = report[z],
         x \in DOMAIN report => y.version = report[x].version + 1,
         y.status # "PENDING" /\ ~y.auto => y.seen = y.content,
         UNCHANGED <<leave, booked, overtime, dayRow>>
  PROVE  DeskRows' /\ Bookings' /\ Reviewed' /\ RowsStay
<1>1. \A z \in DOMAIN report' : z \in Cell /\ report'[z] \in Report
  BY DEF PeopleInv, DeskRows, PeopleTypeOK
<1>2. DeskRows'
  BY <1>1 DEF PeopleInv, DeskRows, PeopleTypeOK
<1>3. Bookings' /\ RowsStay
  BY DEF PeopleInv, Bookings, RowsStay
<1>4. Reviewed'
  BY DEF PeopleInv, Reviewed
<1> QED
  BY <1>2, <1>3, <1>4

LEMMA ReportSubmitted ==
  ASSUME PeopleInv, NEW u \in Users, NEW w \in Workspaces, NEW day \in Days, SubmitWorkReport(u, w, day)
  PROVE  PeopleInv'
<1> DEFINE x == <<w, u, day>>
           auto == May(u, w, "APPROVE_WORK_REPORT")
           status == IF auto THEN "APPROVED" ELSE "PENDING"
           y == [content |-> Submitted(x).content + 1, version |-> Submitted(x).version + 1,
                 status |-> status, auto |-> auto, seen |-> 0]
<1>1. /\ asked.left > 0 /\ Asked
      /\ report' = [z \in DOMAIN report \union {x} |-> IF z # x THEN report[z] ELSE y]
      /\ UNCHANGED <<now, shiftVars, entry, policyVars, jobVars, req, leave, booked, overtime, dayRow>>
  BY DEF SubmitWorkReport, Allowed
<1>2. Submitted(x).content + 1 \in Nat /\ Submitted(x).version + 1 \in Nat
      /\ (x \in DOMAIN report => Submitted(x).version = report[x].version)
  <2>1. CASE x \in DOMAIN report
    <3>1. report[x] \in Report
      BY <2>1 DEF PeopleInv, DeskRows, PeopleTypeOK
    <3>2. report[x].content \in Nat /\ report[x].version \in Nat
      BY <3>1 DEF Report
    <3> QED
      BY <2>1, <3>2 DEF Submitted
  <2>2. CASE x \notin DOMAIN report
    BY <2>2 DEF Submitted
  <2> QED
    BY <2>1, <2>2
<1>3. auto \in BOOLEAN /\ status \in Approvals /\ (status # "PENDING" => auto)
  BY DEF May, HasPermission, Approvals
<1>4. x \in Cell
  BY DEF Cell
<1> HIDE DEF auto, status
<1>5. y \in Report
  BY <1>2, <1>3 DEF Report
<1>6. y.status = status /\ y.auto = auto /\ y.version = Submitted(x).version + 1
  OBVIOUS
<1> HIDE DEF x, y
<1>7. /\ DOMAIN report' = DOMAIN report \union {x} /\ report'[x] = y
      /\ \A z \in DOMAIN report \ {x} : report'[z] = report[z]
  BY <1>1
<1>8. DeskRows' /\ Bookings' /\ Reviewed' /\ RowsStay
  BY <1>1, <1>2, <1>3, <1>4, <1>5, <1>6, <1>7, ReportWritten
<1>9. ShiftInv'
  <2>1. OneFlag'
    BY <1>1 DEF PeopleInv, ShiftInv, OneFlag, SameFlag, shiftVars
  <2> QED
    BY <1>1, <2>1, ShiftsApart DEF PeopleInv, ShiftInv, shiftVars
<1> QED
  BY <1>1, <1>8, <1>9, DeskStep

LEMMA ReportReviewed ==
  ASSUME PeopleInv, NEW r \in Requests, NEW a, NEW x \in DOMAIN report, NEW yes \in BOOLEAN,
         ReviewWorkReport(r, a, x, yes)
  PROVE  PeopleInv'
<1> DEFINE status == IF yes THEN "APPROVED" ELSE "REJECTED"
           v == [pc |-> "report", key |-> x, version |-> report[x].version, seen |-> report[x].content,
                 status |-> status]
<1>1. Wait(r, v) /\ asked.left > 0 /\ UNCHANGED <<now, shiftVars, entry, policyVars, jobVars, deskVars>>
  BY DEF ReviewWorkReport, Ready, Allowed
<1>2. status \in {"APPROVED", "REJECTED"}
  OBVIOUS
<1>3. report[x].version \in Nat /\ report[x].content \in Nat
  BY DEF PeopleInv, DeskRows, PeopleTypeOK, Report
<1> HIDE DEF status
<1>4. DeskSound(v) /\ v.pc \in DeskSteps
  BY <1>2, <1>3 DEF DeskSound, DeskSteps
<1> HIDE DEF v
<1> QED
  BY <1>1, <1>4, DeskTakes

LEMMA ReportDecided ==
  ASSUME PeopleInv, NEW r \in Requests, FinishReviewWorkReport(r)
  PROVE  PeopleInv'
<1> DEFINE q == req[r]
           x == q.key
           y == [report[x] EXCEPT !.status = q.status, !.seen = q.seen, !.version = report[x].version + 1]
<1>1. CASE ~Claims(report[x], q.version)
  BY <1>1, DeskRefused DEF FinishReviewWorkReport
<1>2. CASE Claims(report[x], q.version)
  <2>1. /\ q.pc = "report" /\ Finish(r)
        /\ report' = [report EXCEPT ![x].status = q.status, ![x].seen = q.seen, ![x].version = @ + 1]
        /\ UNCHANGED <<now, shiftVars, entry, policyVars, jobVars, leave, booked, overtime, dayRow>>
    BY <1>2 DEF FinishReviewWorkReport
  <2>2. /\ x \in DOMAIN report /\ q.status \in {"APPROVED", "REJECTED"} /\ q.seen \in Nat
        /\ q.seen = report[x].content
    BY <1>2, <2>1 DEF PeopleInv, DeskSound, Claims
  <2>3. report' = [report EXCEPT ![x] = y]
    BY <2>1
  <2>4. report[x] \in Report /\ x \in Cell
    BY <2>2 DEF PeopleInv, DeskRows, PeopleTypeOK
  <2>5. y \in Report
    <3>1. report[x].version + 1 \in Nat /\ q.status \in Approvals
      BY <2>2, <2>4 DEF Report, Approvals
    <3> QED
      BY <2>2, <2>4, <3>1 DEF Report
  <2>6. y.version = report[x].version + 1 /\ y.seen = y.content
    BY <2>2, <2>4 DEF Report
  <2> HIDE DEF y
  <2>7. /\ DOMAIN report' = DOMAIN report \union {x} /\ report'[x] = y
        /\ \A z \in DOMAIN report \ {x} : report'[z] = report[z]
    BY <2>2, <2>3
  <2>8. DeskRows' /\ Bookings' /\ Reviewed' /\ RowsStay
    BY <2>1, <2>4, <2>5, <2>6, <2>7, ReportWritten
  <2> QED
    BY <2>1, <2>8, DeskFinishes, DeskStep
<1> QED
  BY <1>1, <1>2

-----------------------------------------------------------------------------
(* Flags and the rows of finished days.                                    *)

LEMMA FlagWaived ==
  ASSUME PeopleInv, NEW a, NEW f \in flag, WaiveFlag(a, f)
  PROVE  PeopleInv'
<1> DEFINE g == [f EXCEPT !.status = "WAIVED"]
<1>1. /\ asked.left > 0 /\ Asked /\ flag' = (flag \ {f}) \union {g}
      /\ UNCHANGED <<now, session, presence, entry, policyVars, jobVars, req, deskVars>>
  BY DEF WaiveFlag, Allowed
<1>2. OneFlag
  BY DEF PeopleInv, ShiftInv
<1>3. f \in Flag
  BY <1>2 DEF OneFlag
<1>4. /\ g \in Flag /\ g.type = f.type /\ g.session = f.session /\ g.user = f.user /\ g.ws = f.ws
      /\ g.day = f.day
  BY <1>3 DEF Flag
<1> HIDE DEF g
<1>5. \A h : /\ SameFlag(h, g) <=> SameFlag(h, f)
             /\ SameFlag(g, h) <=> SameFlag(f, h)
  BY <1>4 DEF SameFlag
<1>6. \A h, i : SameFlag(h, i)' <=> SameFlag(h, i)
  BY DEF SameFlag
<1>7. \A h, i \in flag' : SameFlag(h, i) => h = i
  BY <1>1, <1>2, <1>5 DEF OneFlag
<1>8. OneFlag'
  BY <1>1, <1>2, <1>4, <1>6, <1>7 DEF OneFlag
<1>9. ShiftInv'
  BY <1>1, <1>8, ShiftsApart DEF PeopleInv, ShiftInv
<1> QED
  BY <1>1, <1>9, DeskKept

LEMMA SessionsAreFinite ==
  ASSUME ShiftInv, NEW S \in SUBSET DOMAIN session
  PROVE  IsFiniteSet(S)
<1>1. IsFiniteSet(1 .. Len(session)) /\ DOMAIN session = 1 .. Len(session)
  BY FS_Interval DEF ShiftInv, ShiftRows
<1> QED
  BY <1>1, FS_Subset

(* The sums of the sessions of a day, as PostingProofs sums.               *)
LEMMA WorkedIsNatural ==
  ASSUME ShiftInv, NEW S \in SUBSET DOMAIN session
  PROVE  MapThenSumSet(LAMBDA s : session[s].worked, S) \in Nat
<1> DEFINE f == [s \in S |-> session[s].worked]
           A(h) == [x \in SUBSET S |-> IF x = {} THEN 0 ELSE session[Pick(x)].worked + h[x \ {Pick(x)}]]
           B(h) == [x \in SUBSET S |-> IF x = {} THEN 0 ELSE f[Pick(x)] + h[x \ {Pick(x)}]]
<1>1. \A x \in SUBSET S : x # {} => f[Pick(x)] = session[Pick(x)].worked
  BY PickIn
<1>2. \A h : A(h) = B(h)
  BY <1>1
<1>3. (CHOOSE h : h = A(h)) = (CHOOSE h : h = B(h))
  BY <1>2
<1>4. MapThenSumSet(LAMBDA s : session[s].worked, S) = (CHOOSE h : h = A(h))[S]
  BY DEF MapThenSumSet, MapThenFoldSet, Pick
<1>5. Over(f, S) = (CHOOSE h : h = B(h))[S]
  BY DEF Over, MapThenSumSet, MapThenFoldSet, Pick
<1>6. \A s \in S : f[s] \in Nat
  BY Types DEF Session
<1> HIDE DEF f
<1>7. Over(f, S) \in Nat
  BY <1>6, SessionsAreFinite, SumNat
<1> QED
  BY <1>3, <1>4, <1>5, <1>7

LEMMA OverrunIsNatural ==
  ASSUME ShiftInv, NEW S \in SUBSET DOMAIN session
  PROVE  MapThenSumSet(LAMBDA s : session[s].raw, S) \in Nat
<1> DEFINE f == [s \in S |-> session[s].raw]
           A(h) == [x \in SUBSET S |-> IF x = {} THEN 0 ELSE session[Pick(x)].raw + h[x \ {Pick(x)}]]
           B(h) == [x \in SUBSET S |-> IF x = {} THEN 0 ELSE f[Pick(x)] + h[x \ {Pick(x)}]]
<1>1. \A x \in SUBSET S : x # {} => f[Pick(x)] = session[Pick(x)].raw
  BY PickIn
<1>2. \A h : A(h) = B(h)
  BY <1>1
<1>3. (CHOOSE h : h = A(h)) = (CHOOSE h : h = B(h))
  BY <1>2
<1>4. MapThenSumSet(LAMBDA s : session[s].raw, S) = (CHOOSE h : h = A(h))[S]
  BY DEF MapThenSumSet, MapThenFoldSet, Pick
<1>5. Over(f, S) = (CHOOSE h : h = B(h))[S]
  BY DEF Over, MapThenSumSet, MapThenFoldSet, Pick
<1>6. \A s \in S : f[s] \in Nat
  BY Types DEF Session
<1> HIDE DEF f
<1>7. Over(f, S) \in Nat
  BY <1>6, SessionsAreFinite, SumNat
<1> QED
  BY <1>3, <1>4, <1>5, <1>7

LEMMA DaySummed ==
  ASSUME ShiftInv, NEW w, NEW u, NEW day, NEW late \in BOOLEAN
  PROVE  AggregateSessions(w, u, day, late) \in Sums
<1> DEFINE mine == ClosedOn(w, u, day)
           worked == MapThenSumSet(LAMBDA s : session[s].worked, mine)
           raw == MapThenSumSet(LAMBDA s : session[s].raw, mine)
<1>1. mine \in SUBSET DOMAIN session
  BY DEF ClosedOn
<1>2. worked \in Nat /\ raw \in Nat
  <2> HIDE DEF mine
  <2> QED
    BY <1>1, WorkedIsNatural, OverrunIsNatural
<1>4. AggregateSessions(w, u, day, late) = [worked |-> worked, raw |-> raw, late |-> late]
  BY DEF AggregateSessions
<1> HIDE DEF worked, raw
<1> QED
  BY <1>2, <1>4 DEF Sums

LEMMA DayRecomputed ==
  ASSUME PeopleInv, NEW r \in Requests, NEW a, NEW w \in Workspaces, NEW day \in Days,
         RecomputeDay(r, a, w, day)
  PROVE  PeopleInv'
<1>0. PICK late \in [Users -> BOOLEAN] :
        Wait(r, [pc |-> "rollup", ws |-> w, day |-> day, left |-> {u \in Users : Member(u, w)},
                 sums |-> [u \in Users |-> AggregateSessions(w, u, day, late[u])],
                 away |-> {u \in Users : day \in BookedDays(w, u)},
                 overtime |-> policy[w].overtime, flags |-> policy[w].flags, raise |-> {}])
  BY DEF RecomputeDay
<1> DEFINE left == {u \in Users : Member(u, w)}
           sums == [u \in Users |-> AggregateSessions(w, u, day, late[u])]
           away == {u \in Users : day \in BookedDays(w, u)}
           x == [pc |-> "rollup", ws |-> w, day |-> day, left |-> left, sums |-> sums, away |-> away,
                 overtime |-> policy[w].overtime, flags |-> policy[w].flags, raise |-> {}]
<1>1. Wait(r, x) /\ asked.left > 0 /\ UNCHANGED <<now, shiftVars, entry, policyVars, jobVars, deskVars>>
  BY <1>0 DEF RecomputeDay, Ready, Allowed
<1>2. left \subseteq Users /\ away \subseteq Users /\ sums \in [Users -> Sums]
  BY DaySummed DEF PeopleInv
<1>3. policy[w].overtime \in BOOLEAN /\ policy[w].flags \in BOOLEAN
  BY DEF PeopleInv, ShiftInv, PolicyRows, PolicyType
<1> HIDE DEF left, sums, away
<1>4. x \in RollupType /\ x.raise = {} /\ x.pc = "rollup"
  BY <1>2, <1>3 DEF RollupType
<1> HIDE DEF x
<1>5. DeskSound(x) /\ x.pc \in DeskSteps
  BY <1>4 DEF DeskSound, DeskSteps
<1> QED
  BY <1>1, <1>5, DeskTakes

(* Of one request that is summing up a day, the next state.                *)
LEMMA RollupTakes ==
  ASSUME PeopleInv, NEW r \in Requests, NEW y \in RollupType, \A f, g \in y.raise : SameFlag(f, g) => f = g,
         req' = [req EXCEPT ![r] = y], asked' = asked, OneFlag',
         UNCHANGED <<now, session, presence, entry, policyVars, jobVars>>
  PROVE  ShiftInv' /\ \A p \in Requests : req'[p] = req[p] \/ DeskSound(req'[p])
<1>1. y.pc = "rollup"
  BY DEF RollupType
<1>2. ShiftSound(y) /\ DeskSound(y)
  BY <1>1 DEF ShiftSound, DeskSound
<1>3. \A p \in Requests : req'[p] = req[p] \/ req'[p] = y
  BY DEF PeopleInv, ShiftInv
<1>4. DOMAIN req' = Requests
  BY DEF PeopleInv, ShiftInv
<1>5. ShiftInv'
  BY <1>2, <1>3, <1>4, ShiftsApart DEF PeopleInv
<1> QED
  BY <1>2, <1>3, <1>5

LEMMA DayIsWritten ==
  ASSUME PeopleInv, NEW r \in Requests, NEW u \in Users, req[r].pc = "rollup", WriteDay(r, u)
  PROVE  PeopleInv'
<1> DEFINE q == req[r]
           sum == q.sums[u]
           status == Classify(Resolved(q.ws, u, q.day), sum, u \in q.away)
           types == {t \in {"ABSENT"} : status = "ABSENT"} \union {t \in {"LATE_IN"} : sum.late}
           Named(t) == [user |-> u, ws |-> q.ws, day |-> q.day, session |-> 0, type |-> t,
                        status |-> "ACTIVE"]
           raise == IF ~q.flags THEN {} ELSE {Named(t) : t \in types}
           y == [q EXCEPT !.left = q.left \ {u}, !.raise = raise]
           key == <<q.ws, u, q.day>>
<1>1. q \in RollupType
  BY DEF PeopleInv, DeskSound
<1>2. q.ws \in Workspaces /\ q.day \in Days /\ sum \in Sums /\ q.overtime \in BOOLEAN
  BY <1>1 DEF RollupType
<1>3. PICK granted \in Granted(q.ws, u, q.day) :
        dayRow' = [x \in DOMAIN dayRow \union {key} |->
                     IF x # key THEN dayRow[x]
                     ELSE [status |-> status, worked |-> sum.worked, raw |-> sum.raw, late |-> sum.late,
                           counted |-> IF q.overtime THEN sum.raw ELSE Min({sum.raw, granted})]]
  BY DEF WriteDay
<1>4. /\ req' = [req EXCEPT ![r].left = @ \ {u}, ![r].raise = raise]
      /\ UNCHANGED <<now, shiftVars, entry, policyVars, jobVars, asked, leave, booked, overtime, report>>
  BY DEF WriteDay
<1> DEFINE counted == IF q.overtime THEN sum.raw ELSE Min({sum.raw, granted})
           row == [status |-> status, worked |-> sum.worked, raw |-> sum.raw, late |-> sum.late,
                   counted |-> counted]
<1>5. row \in DayRow
  <2>1. granted \in Nat
    <3>1. \A k \in DOMAIN overtime : overtime[k].granted \in Nat
      BY OvertimeTypes DEF Overtime
    <3> QED
      BY <3>1 DEF Granted
  <2>2. sum.worked \in Nat /\ sum.raw \in Nat /\ sum.late \in BOOLEAN
    BY <1>2 DEF Sums
  <2>3. counted \in Nat
    BY <2>1, <2>2, MinOfTwo
  <2>4. status \in {"HOLIDAY", "NON_WORKING", "ON_LEAVE", "ABSENT", "PARTIAL", "PRESENT"}
    BY DEF Classify
  <2> HIDE DEF counted, status, sum
  <2> QED
    BY <2>2, <2>3, <2>4 DEF DayRow
<1>6. key \in Cell
  BY <1>2 DEF Cell
<1>7. /\ DOMAIN dayRow' = DOMAIN dayRow \union {key} /\ dayRow'[key] = row
      /\ \A x \in DOMAIN dayRow \ {key} : dayRow'[x] = dayRow[x]
  BY <1>3
<1>8. DeskRows'
  <2> HIDE DEF key, row
  <2>1. \A x \in DOMAIN dayRow' : x \in Cell /\ dayRow'[x] \in DayRow
    BY <1>5, <1>6, <1>7 DEF PeopleInv, DeskRows, PeopleTypeOK
  <2> QED
    BY <1>4, <2>1 DEF PeopleInv, DeskRows, PeopleTypeOK
<1>9. Bookings' /\ Reviewed' /\ RowsStay
  BY <1>4 DEF PeopleInv, Bookings, Reviewed, RowsStay
<1>10. raise \subseteq Flag /\ \A f, g \in raise : SameFlag(f, g) => f = g
  <2>1. types \subseteq {"ABSENT", "LATE_IN"}
    OBVIOUS
  <2> HIDE DEF types
  <2>2. \A t \in types : Named(t) \in Flag
    <3>1. 0 \in 0 .. MaxSessions
      BY WorkTimeAssumption
    <3> QED
      BY <1>2, <2>1, <3>1 DEF Flag, FlagTypes
  <2>3. \A s, t \in types : SameFlag(Named(s), Named(t)) => Named(s) = Named(t)
    BY DEF SameFlag
  <2> HIDE DEF Named
  <2> QED
    BY <2>2, <2>3
<1> HIDE DEF raise
<1>11. y \in RollupType /\ y.raise = raise
  BY <1>1, <1>10 DEF RollupType
<1>12. req' = [req EXCEPT ![r] = y]
  BY <1>4
<1> HIDE DEF y
<1>13. OneFlag'
  BY <1>4 DEF PeopleInv, ShiftInv, OneFlag, SameFlag, shiftVars
<1>14. ShiftInv' /\ \A p \in Requests : req'[p] = req[p] \/ DeskSound(req'[p])
  BY <1>4, <1>10, <1>11, <1>12, <1>13, RollupTakes DEF shiftVars
<1> QED
  BY <1>8, <1>9, <1>14, DeskStep

LEMMA FlagsRaised ==
  ASSUME PeopleInv, NEW r \in Requests, req[r].pc = "rollup", RaiseFlags(r)
  PROVE  PeopleInv'
<1> DEFINE q == req[r]
           y == [q EXCEPT !.raise = {}]
<1>1. q \in RollupType /\ \A f, g \in q.raise : SameFlag(f, g) => f = g
  BY DEF PeopleInv, DeskSound
<1>2. /\ flag' = Raised(q.raise) /\ req' = [req EXCEPT ![r] = y]
      /\ UNCHANGED <<now, session, presence, entry, policyVars, jobVars, asked, deskVars>>
  BY DEF RaiseFlags
<1>3. q.raise \subseteq Flag
  BY <1>1 DEF RollupType
<1>4. OneFlag'
  BY <1>1, <1>2, <1>3, RaisedFits DEF PeopleInv, ShiftInv
<1>5. y \in RollupType /\ y.raise = {}
  BY <1>1 DEF RollupType
<1> HIDE DEF y
<1>6. ShiftInv' /\ \A p \in Requests : req'[p] = req[p] \/ DeskSound(req'[p])
  BY <1>2, <1>4, <1>5, RollupTakes
<1> QED
  BY <1>2, <1>6, DeskKept

-----------------------------------------------------------------------------
(* The invariant of PeopleOps.                                             *)

LEMMA PeopleStart == PeopleInit => PeopleInv
<1> SUFFICES ASSUME PeopleInit PROVE PeopleInv
  OBVIOUS
<1>1. ShiftInv
  BY ShiftInit DEF PeopleInit
<1>2. DeskRows
  <2>1. leave = <<>> /\ overtime = <<>> /\ report = <<>> /\ dayRow = <<>> /\ booked = {}
    BY DEF PeopleInit
  <2>2. <<>> \in Seq(Leave) /\ <<>> \in Seq(Overtime) /\ Len(<<>>) = 0
    OBVIOUS
  <2> QED
    BY <2>1, <2>2, PeopleOpsAssumption DEF DeskRows, PeopleTypeOK
<1>3. Bookings /\ Reviewed
  BY DEF PeopleInit, Bookings, Reviewed
<1>4. \A r \in Requests : DeskSound(req[r])
  BY NotAtTheDesk DEF PeopleInit, Init, Idle, DeskSteps
<1> QED
  BY <1>1, <1>2, <1>3, <1>4 DEF PeopleInv

LEMMA PeopleStep == PeopleInv /\ [PeopleNext]_peopleVars => PeopleInv'
<1> SUFFICES ASSUME PeopleInv, [PeopleNext]_peopleVars PROVE PeopleInv'
  OBVIOUS
<1>1. CASE [Next]_vars /\ UNCHANGED deskVars
  <2>1. ShiftInv'
    BY <1>1, ShiftStep DEF PeopleInv
  <2>2. \A p \in Requests : req'[p] = req[p] \/ DeskSound(req'[p])
    BY <1>1, ShiftsKeepDesk, NotAtTheDesk DEF PeopleInv
  <2> QED
    BY <1>1, <2>1, <2>2, DeskKept
<1>2. CASE Requesting
  BY <1>2, LeaveAsked, OvertimeAsked, ReportSubmitted DEF Requesting
<1>3. CASE Deciding
  BY <1>3, CancelAsked, LeaveReviewed, OvertimeReviewed, ReportReviewed DEF Deciding
<1>4. CASE Settling
  BY <1>4, LeaveWithdrawn, FlagWaived DEF Settling
<1>5. CASE SummingUp
  <2>1. ASSUME NEW r \in Requests, DayWritten(r) PROVE PeopleInv'
    BY <2>1, DeskFinishes, DeskKept DEF DayWritten
  <2> QED
    BY <1>5, <2>1, DayRecomputed, FlagsRaised, DayIsWritten DEF SummingUp
<1>6. CASE Decided
  BY <1>6, LeaveDecided, LeaveCancelled, OvertimeDecided, ReportDecided DEF Decided
<1> QED
  BY <1>1, <1>2, <1>3, <1>4, <1>5, <1>6 DEF PeopleNext, peopleVars

LEMMA BookingsMatch == PeopleInv => LeaveMatches
<1> SUFFICES ASSUME PeopleInv PROVE LeaveMatches
  OBVIOUS
<1>1. PeopleTypeOK
  BY DEF PeopleInv, DeskRows
<1> QED
  BY <1>1 DEF PeopleInv, Bookings, LeaveMatches

(* The days booked as leave are within approved requests of the person     *)
(* they are booked for, and a person is off once a day: finishing reviews, *)
(* withdrawals and cancellations (leave.service.ts) in any order.          *)
THEOREM LeaveHolds == PeopleSpec => []LeaveMatches
<1>1. PeopleInit => PeopleInv
  BY PeopleStart
<1>2. PeopleInv /\ [PeopleNext]_peopleVars => PeopleInv'
  BY PeopleStep
<1>3. PeopleInv => LeaveMatches
  BY BookingsMatch
<1> QED
  BY <1>1, <1>2, <1>3, PTL DEF PeopleSpec

-----------------------------------------------------------------------------
(* Decisions stand.                                                        *)

LeaveStands ==
  \A k \in DOMAIN leave :
    \/ leave[k].status = "PENDING" \/ leave'[k] = leave[k]
    \/ leave[k].status = "APPROVED" /\ leave'[k].status = "WITHDRAWN"

GrantStands == \A k \in DOMAIN overtime : overtime[k].status = "PENDING" \/ overtime'[k] = overtime[k]

LEMMA LeaveStandsWhen ==
  ASSUME PeopleInv, NEW k \in DOMAIN leave, NEW y, leave' = [leave EXCEPT ![k] = y],
         \/ leave[k].status = "PENDING" \/ y = leave[k]
         \/ leave[k].status = "APPROVED" /\ y.status = "WITHDRAWN"
  PROVE  LeaveStands
<1>1. leave'[k] = y /\ \A j \in DOMAIN leave \ {k} : leave'[j] = leave[j]
  BY LeaveTypes
<1> QED
  BY <1>1 DEF LeaveStands

(* A cancellation that another overtook writes what is there.              *)
LEMMA CancelStands ==
  ASSUME PeopleInv, NEW r \in Requests, FinishCancelLeave(r)
  PROVE  LeaveStands
<1>0. PICK k : k = req[r].leave
  OBVIOUS
<1> DEFINE y == [leave[k] EXCEPT !.status = "WITHDRAWN"]
<1>1. req[r].pc = "cancel" /\ leave' = [leave EXCEPT ![k] = y]
  BY <1>0 DEF FinishCancelLeave
<1>2. k \in DOMAIN leave /\ leave[k].status \in {"APPROVED", "WITHDRAWN"}
  BY <1>0, <1>1 DEF PeopleInv, DeskSound
<1>3. leave[k] \in Leave
  BY <1>2, LeaveTypes
<1>4. y.status = "WITHDRAWN"
  BY <1>3 DEF Leave
<1>5. leave[k].status = "WITHDRAWN" => y = leave[k]
  BY <1>3 DEF Leave
<1> HIDE DEF y
<1> QED
  BY <1>1, <1>2, <1>4, <1>5, LeaveStandsWhen

LEMMA ReviewStands ==
  ASSUME PeopleInv, NEW r \in Requests, FinishReviewLeave(r)
  PROVE  LeaveStands
<1>0. PICK k : k = req[r].leave
  OBVIOUS
<1>1. CASE UNCHANGED leave
  BY <1>1 DEF LeaveStands
<1>2. CASE ~UNCHANGED leave
  <2>1. /\ req[r].pc = "leave" /\ leave[k].status = "PENDING"
        /\ leave' = [leave EXCEPT ![k].status = req[r].status, ![k].version = @ + 1]
    BY <1>0, <1>2 DEF FinishReviewLeave, Claims, deskVars
  <2>2. k \in DOMAIN leave
    BY <1>0, <2>1 DEF PeopleInv, DeskSound
  <2>3. \A j \in DOMAIN leave \ {k} : leave'[j] = leave[j]
    BY <2>1, LeaveTypes
  <2> QED
    BY <2>1, <2>3 DEF LeaveStands
<1> QED
  BY <1>1, <1>2

LEMMA OvertimeStands ==
  ASSUME PeopleInv, NEW r \in Requests, FinishReviewOvertime(r)
  PROVE  GrantStands
<1>0. PICK k : k = req[r].row
  OBVIOUS
<1>1. CASE UNCHANGED overtime
  BY <1>1 DEF GrantStands
<1>2. CASE ~UNCHANGED overtime
  <2> DEFINE status == req[r].status
  <2>1. /\ overtime[k].status = "PENDING"
        /\ overtime' = [overtime EXCEPT ![k].status = status, ![k].granted = req[r].granted,
                                        ![k].version = @ + 1]
    BY <1>0, <1>2 DEF FinishReviewOvertime, Claims, deskVars
  <2> HIDE DEF status
  <2>2. \A j \in DOMAIN overtime \ {k} : overtime'[j] = overtime[j]
    BY <2>1, OvertimeTypes
  <2> QED
    BY <2>1, <2>2 DEF GrantStands
<1> QED
  BY <1>1, <1>2

(* Asking adds at the end of a table.                                      *)
LEMMA RequestsStand ==
  ASSUME PeopleInv, Requesting
  PROVE  LeaveStands /\ GrantStands
<1>1. UNCHANGED leave \/ \E y : leave' = Append(leave, y)
  BY DEF Requesting, RequestLeave, RequestOvertime, SubmitWorkReport
<1>2. UNCHANGED overtime \/ \E y : overtime' = Append(overtime, y)
  BY DEF Requesting, RequestLeave, RequestOvertime, SubmitWorkReport
<1>3. \A k \in DOMAIN leave : leave'[k] = leave[k]
  BY <1>1, LeaveTypes
<1>4. \A k \in DOMAIN overtime : overtime'[k] = overtime[k]
  BY <1>2, OvertimeTypes
<1> QED
  BY <1>3, <1>4 DEF LeaveStands, GrantStands

LEMMA ChoicesStand == PeopleInv /\ [PeopleNext]_peopleVars => LeaveStands /\ GrantStands
<1> SUFFICES ASSUME PeopleInv, [PeopleNext]_peopleVars PROVE LeaveStands /\ GrantStands
  OBVIOUS
<1>1. ASSUME UNCHANGED leave PROVE LeaveStands
  BY <1>1 DEF LeaveStands
<1>2. ASSUME UNCHANGED overtime PROVE GrantStands
  BY <1>2 DEF GrantStands
<1>3. CASE UNCHANGED deskVars
  BY <1>1, <1>2, <1>3 DEF deskVars
<1>4. CASE Requesting
  BY <1>4, RequestsStand
<1>5. CASE Deciding
  BY <1>1, <1>2, <1>5 DEF Deciding, CancelLeave, ReviewLeave, ReviewOvertime, ReviewWorkReport, deskVars
<1>6. CASE Settling
  <2>1. ASSUME NEW a \in Users, NEW k \in DOMAIN leave, WithdrawLeave(a, k) PROVE LeaveStands /\ GrantStands
    <3>1. leave[k].status = "PENDING" /\ UNCHANGED overtime
          /\ leave' = [leave EXCEPT ![k] = [leave[k] EXCEPT !.status = "WITHDRAWN"]]
      BY <2>1 DEF WithdrawLeave
    <3> QED
      BY <1>2, <3>1, LeaveStandsWhen
  <2>2. ASSUME NEW a \in Users, NEW f \in flag, WaiveFlag(a, f) PROVE LeaveStands /\ GrantStands
    BY <1>1, <1>2, <2>2 DEF WaiveFlag, deskVars
  <2> QED
    BY <1>6, <2>1, <2>2 DEF Settling
<1>7. CASE SummingUp
  BY <1>1, <1>2, <1>7 DEF SummingUp, RecomputeDay, RaiseFlags, DayWritten, WriteDay, deskVars
<1>8. CASE Decided
  <2>1. PICK r \in Requests : \/ FinishReviewLeave(r) \/ FinishCancelLeave(r)
                              \/ FinishReviewOvertime(r) \/ FinishReviewWorkReport(r)
    BY <1>8 DEF Decided
  <2>2. CASE FinishReviewLeave(r)
    <3>1. UNCHANGED overtime
      BY <2>2 DEF FinishReviewLeave, deskVars
    <3> QED
      BY <1>2, <2>2, <3>1, ReviewStands
  <2>3. CASE FinishCancelLeave(r)
    BY <1>2, <2>3, CancelStands DEF FinishCancelLeave
  <2>4. CASE FinishReviewOvertime(r)
    <3>1. UNCHANGED leave
      BY <2>4 DEF FinishReviewOvertime, deskVars
    <3> QED
      BY <1>1, <2>4, <3>1, OvertimeStands
  <2>5. CASE FinishReviewWorkReport(r)
    <3>1. UNCHANGED leave /\ UNCHANGED overtime
      BY <2>5 DEF FinishReviewWorkReport, deskVars
    <3> QED
      BY <1>1, <1>2, <3>1
  <2> QED
    BY <2>1, <2>2, <2>3, <2>4, <2>5
<1> QED
  BY <1>3, <1>4, <1>5, <1>6, <1>7, <1>8 DEF PeopleNext, peopleVars

Settled ==
  /\ \A k \in DOMAIN leave :
       \/ leave[k].status = "PENDING" \/ leave'[k] = leave[k]
       \/ leave[k].status = "APPROVED" /\ leave'[k].status = "WITHDRAWN"
  /\ \A k \in DOMAIN overtime : overtime[k].status = "PENDING" \/ overtime'[k] = overtime[k]
  /\ \A x \in DOMAIN report' :
       report'[x].status # "PENDING" /\ ~report'[x].auto => report'[x].seen = report'[x].content

(* What was decided stands, though every decision is taken on a row read   *)
(* before: leave that was refused or withdrawn stays so and approved leave *)
(* can only be cancelled, overtime keeps what was granted, and a report    *)
(* another decided on is the one the reviewer read (leave.service.ts,      *)
(* people-ops.service.ts).                                                 *)
THEOREM DecisionsHold == PeopleSpec => DecisionsStand
<1>1. PeopleInit => PeopleInv
  BY PeopleStart
<1>2. PeopleInv /\ [PeopleNext]_peopleVars => PeopleInv'
  BY PeopleStep
<1>3. PeopleInv /\ [PeopleNext]_peopleVars => Settled
  BY <1>2, ChoicesStand DEF Settled, LeaveStands, GrantStands, PeopleInv, Reviewed
<1>4. PeopleSpec => [][Settled]_peopleVars
  BY <1>1, <1>2, <1>3, PTL DEF PeopleSpec
<1> QED
  BY <1>4 DEF DecisionsStand, Settled

-----------------------------------------------------------------------------
(* Flags settle.                                                           *)

FlagsLast ==
  \A f \in flag : f \in flag' \/ (f.status = "ACTIVE" /\ [f EXCEPT !.status = "WAIVED"] \in flag')

(* But for a waiver, flags are only added.                                 *)
LEMMA FlagsAreAdded == [Next]_vars => flag \subseteq flag'
<1> SUFFICES ASSUME [Next]_vars PROVE flag \subseteq flag'
  OBVIOUS
<1>1. \A S : flag \subseteq Raised(S)
  BY DEF Raised
<1>2. CASE Asking \/ AskingAboutRow
  BY <1>2, AskingReads DEF shiftVars
<1>3. CASE ChangingPolicy
  BY <1>3, PolicyAlone DEF shiftVars
<1>4. CASE Tick \/ AtOnce \/ SweepStart \/ SweepCrash \/ UNCHANGED vars
  BY <1>4 DEF Tick, AtOnce, StartTimer, SetTimeEntryLock, SweepStart, SweepCrash, vars, shiftVars
<1>5. ASSUME NEW z, SweepClose(z) PROVE flag \subseteq flag'
  BY <1>1, <1>5 DEF SweepClose, shiftVars
<1>6. CASE Finishing
  <2>1. PICK r \in Requests :
          \/ FinishClockIn(r) \/ FinishClockOut(r) \/ FinishSetPresence(r)
          \/ FinishCreateWorkSession(r) \/ FinishUpdateWorkSession(r)
          \/ FinishCreateTimeEntry(r) \/ FinishWriteEntry(r) \/ FinishDeleteTimeEntry(r)
    BY <1>6 DEF Finishing
  <2>2. CASE Refused(r)
    BY <2>2 DEF Refused, shiftVars
  <2>3. CASE FinishClockIn(r) /\ ~Refused(r)
    <3>1. UNCHANGED flag \/ \E S : flag' = Raised(S)
      BY <2>3 DEF FinishClockIn
    <3> QED
      BY <1>1, <3>1
  <2>4. CASE FinishClockOut(r) /\ ~Refused(r)
    <3>1. \E S : flag' = Raised(S)
      BY <2>4 DEF FinishClockOut
    <3> QED
      BY <1>1, <3>1
  <2>5. CASE (FinishSetPresence(r) \/ FinishCreateWorkSession(r) \/ FinishUpdateWorkSession(r)) /\ ~Refused(r)
    BY <2>5 DEF FinishSetPresence, FinishCreateWorkSession, FinishUpdateWorkSession
  <2>6. CASE (FinishCreateTimeEntry(r) \/ FinishWriteEntry(r) \/ FinishDeleteTimeEntry(r)) /\ ~Refused(r)
    BY <2>6 DEF FinishCreateTimeEntry, FinishWriteEntry, FinishDeleteTimeEntry, shiftVars
  <2> QED
    BY <2>1, <2>2, <2>3, <2>4, <2>5, <2>6
<1> QED
  BY <1>2, <1>3, <1>4, <1>5, <1>6 DEF Next, Sweeping

LEMMA FlagsStay == PeopleInv /\ [PeopleNext]_peopleVars => FlagsLast
<1> SUFFICES ASSUME PeopleInv, [PeopleNext]_peopleVars PROVE FlagsLast
  OBVIOUS
<1>1. ASSUME flag \subseteq flag' PROVE FlagsLast
  BY <1>1 DEF FlagsLast
<1>2. CASE [Next]_vars
  BY <1>1, <1>2, FlagsAreAdded
<1>3. CASE Requesting
  BY <1>1, <1>3 DEF Requesting, RequestLeave, RequestOvertime, SubmitWorkReport, shiftVars
<1>4. CASE Deciding
  BY <1>1, <1>4 DEF Deciding, CancelLeave, ReviewLeave, ReviewOvertime, ReviewWorkReport, shiftVars
<1>5. CASE Settling
  <2>1. ASSUME NEW a \in Users, NEW k \in DOMAIN leave, WithdrawLeave(a, k) PROVE FlagsLast
    BY <1>1, <2>1 DEF WithdrawLeave, shiftVars
  <2>2. ASSUME NEW a \in Users, NEW f \in flag, WaiveFlag(a, f) PROVE FlagsLast
    BY <2>2 DEF WaiveFlag, FlagsLast
  <2> QED
    BY <1>5, <2>1, <2>2 DEF Settling
<1>6. CASE SummingUp
  <2>1. ASSUME NEW r \in Requests, RaiseFlags(r) PROVE FlagsLast
    BY <1>1, <2>1 DEF RaiseFlags, Raised
  <2>2. CASE UNCHANGED flag
    BY <1>1, <2>2
  <2> QED
    BY <1>6, <2>1, <2>2 DEF SummingUp, RecomputeDay, DayWritten, WriteDay, shiftVars
<1>7. CASE Decided
  <2>1. UNCHANGED flag
    BY <1>7 DEF Decided, FinishReviewLeave, FinishCancelLeave, FinishReviewOvertime, FinishReviewWorkReport,
                Refused, shiftVars
  <2> QED
    BY <1>1, <2>1
<1> QED
  BY <1>2, <1>3, <1>4, <1>5, <1>6, <1>7 DEF PeopleNext, peopleVars

Lasting ==
  /\ \A f \in flag : f \in flag' \/ (f.status = "ACTIVE" /\ [f EXCEPT !.status = "WAIVED"] \in flag')
  /\ \A f, g \in flag' : SameFlag(f, g) => f = g

(* A flag never goes away and is never raised a second time, though the    *)
(* sweep, a late clock-out and a recompute raise it on what they read:     *)
(* all it can be is waived (rollup.service.ts, people-ops.service.ts).     *)
THEOREM FlagsHold == PeopleSpec => FlagsSettle
<1>1. PeopleInit => PeopleInv
  BY PeopleStart
<1>2. PeopleInv /\ [PeopleNext]_peopleVars => PeopleInv'
  BY PeopleStep
<1>3. PeopleInv /\ [PeopleNext]_peopleVars => Lasting
  BY <1>2, FlagsStay DEF Lasting, FlagsLast, PeopleInv, ShiftInv, OneFlag, SameFlag
<1>4. PeopleSpec => [][Lasting]_peopleVars
  BY <1>1, <1>2, <1>3, PTL DEF PeopleSpec
<1> QED
  BY <1>4 DEF FlagsSettle, Lasting
=============================================================================
