----------------------------- MODULE TaskBoard -----------------------------
(***************************************************************************)
(* The tasks and projects of one workspace (src/modules/tasks,             *)
(* src/modules/projects): who works on what, the requests to take a task   *)
(* on, the reports that end it, and whom each of these tells.              *)
(*                                                                         *)
(* Rows are read, authority is checked against what was read, and the      *)
(* write comes later.  What is deleted keeps its number and says so.       *)
(***************************************************************************)
EXTENDS Access, Notices

CONSTANTS
  Desk,          \* the workspace
  Tasks, Projects,
  Wishes, Parts, \* statuses of tasks and roles in projects that clients ask for
  Due,           \* what the deadline scan finds of each task, or None
  Limit,         \* maxConcurrentOpenTasks
  MaxRows        \* bound on rows of each of ask, report and crew

VARIABLES
  task,      \* tasks: creator, project, status, and whether completedAt is set
  assigned,  \* task_assignments: pairs of a task and a user
  ask,       \* task_assignment_requests, in the order they were written
  report,    \* task_reports, likewise
  project,   \* status of each project, or None
  crew       \* project_members, likewise

boardVars == <<task, assigned, ask, report, project, crew>>
rest == <<ask, report, project, crew>>

Statuses == {"TODO", "IN_PROGRESS", "BLOCKED", "IN_REVIEW", "DONE"}
ProjectRoles == {"PROJECT_MANAGER", "CONTRIBUTOR", "VIEWER"}

TaskRow == [by : Users, project : Projects \union {None}, status : Statuses \union {"DELETED"},
            completed : BOOLEAN]

ASSUME BoardAssumption == /\ Desk \in Workspaces /\ {Limit, MaxRows} \subseteq Nat
                          /\ Wishes \subseteq Statuses /\ Parts \subseteq ProjectRoles
                          /\ None \notin TaskRow \union Statuses

(* Some tasks, who works on them, and projects in force with their members.*)
BoardInit(tasks, work, people) ==
  /\ task = tasks /\ assigned = work /\ crew = people
  /\ project = [p \in Projects |-> IF \E c \in DOMAIN crew : crew[c].project = p THEN "ACTIVE" ELSE None]
  /\ ask = <<>> /\ report = <<>>

Here(t) == task[t] # None /\ task[t].status # "DELETED"
InForce(p) == project[p] \notin {None, "DELETED"}

-----------------------------------------------------------------------------
(* Authority.  MANAGE_TASKS and MANAGE_PROJECTS are held by the same roles *)
(* but asked for apart, and so they are here.                              *)

CrewOf(p) == {c \in DOMAIN crew : crew[c].project = p /\ crew[c].role # None}

ProjectRole(p, u) == {crew[c].role : c \in {d \in CrewOf(p) : crew[d].user = u}}

LeadsProject(p, u) == p # None /\ "PROJECT_MANAGER" \in ProjectRole(p, u)

CanView(t, u) ==
  \/ May(Desk, u, "MANAGE_TASKS") \/ task[t].by = u \/ <<t, u>> \in assigned
  \/ task[t].project # None /\ ProjectRole(task[t].project, u) # {}

CanWrite(t, u) ==
  May(Desk, u, "MANAGE_TASKS") \/ task[t].by = u \/ LeadsProject(task[t].project, u)

CanApprove(t, u) == May(Desk, u, "APPROVE_TASK_WORK") \/ LeadsProject(task[t].project, u)

(* assertCanCreateInProject, when a project is named.                      *)
CanPlace(p, u) ==
  p \in Projects => /\ InForce(p) /\ project[p] # "ARCHIVED"
                    /\ May(Desk, u, "MANAGE_TASKS") \/ ProjectRole(p, u) \ {"VIEWER"} # {}

CanLead(p, u) == InForce(p) /\ (May(Desk, u, "MANAGE_PROJECTS") \/ LeadsProject(p, u))

(* countOpenAssignments: what is in review still counts.                   *)
Carried(u, except) ==
  Cardinality({t \in Tasks \ {except} : <<t, u>> \in assigned /\ task[t].status # "DONE"})

HasCapacity(u, except) == Carried(u, except) < Limit

(* notifyApprovers: the owner, the members who may approve, the managers   *)
(* of the project, and never the one who acts.                             *)
Approvers(t, actor) ==
  {u \in Users : u = Owner[Desk] \/ CanApprove(t, u)} \ {actor}

Tell(users, type, about, t) == Dispatch({Job(u, type, about, t) : u \in users})

-----------------------------------------------------------------------------
(* Tasks.                                                                  *)

(* createTask: a task may be created done, and then without completedAt.   *)
CreateTask(r, u, t, p, status) ==
  /\ AskOnce(r, "task")
  /\ May(Desk, u, "USE_TASKS") /\ CanPlace(p, u) /\ task[t] = None
  /\ task' = [task EXCEPT ![t] = [by |-> u, project |-> p, status |-> status, completed |-> FALSE]]
  /\ UNCHANGED <<assigned, rest, noticeVars>>

(* updateTask: another project or none, a status, or both, None leaving    *)
(* either alone.  Who may write may set any status.                        *)
UpdateTaskRead(r, u, t, p, status) ==
  /\ Ask(r, "task", [pc |-> "task", task |-> t, project |-> p, status |-> status, stamp |-> status # None])
  /\ May(Desk, u, "USE_TASKS") /\ Here(t) /\ CanWrite(t, u) /\ CanPlace(p, u)
  /\ p # None \/ status # None
  /\ UNCHANGED <<boardVars, noticeVars>>

(* changeStatus: the status read decides who may move it, and whether      *)
(* completedAt is cleared.                                                 *)
ChangeStatusRead(r, u, t, status) ==
  /\ May(Desk, u, "USE_TASKS") /\ Here(t)
  /\ <<t, u>> \in assigned \/ CanWrite(t, u)
  /\ status # "IN_REVIEW"
  /\ status = "DONE" \/ task[t].status = "IN_REVIEW" => CanApprove(t, u)
  /\ Ask(r, "task", [pc |-> "task", task |-> t, project |-> None, status |-> status,
                     stamp |-> task[t].completed \/ "DONE" \in {status, task[t].status}])
  /\ UNCHANGED <<boardVars, noticeVars>>

Moved(row, q) ==
  [row EXCEPT !.project = IF q.project = None THEN @ ELSE IF q.project = "clear" THEN None ELSE q.project,
              !.status = IF q.status = None THEN @ ELSE q.status,
              !.completed = IF q.stamp THEN q.status = "DONE" ELSE @]

TaskWrite(r) ==
  /\ At(r, "task")
  /\ LET q == req[r] IN
       task' = IF Here(q.task) /\ (q.project \in Projects => InForce(q.project))
               THEN [task EXCEPT ![q.task] = Moved(@, q)] ELSE task
  /\ Answer(r)
  /\ UNCHANGED <<assigned, rest, noticeVars>>

(* An approval that has claimed a request holds its row to the end.        *)
Locked(a) == \E r \in Requests : At(r, "assign") /\ req[r].ask = a

DeletedWith(rows, t) ==
  [i \in DOMAIN rows |-> IF rows[i].task = t THEN [rows[i] EXCEPT !.status = "DELETED"] ELSE rows[i]]

(* deleteTask takes what hangs on the task along; notifications lose their *)
(* link to it.                                                             *)
DeleteTask(r, u, t) ==
  /\ AskOnce(r, "task")
  /\ May(Desk, u, "USE_TASKS") /\ Here(t) /\ CanWrite(t, u)
  /\ \A a \in DOMAIN ask : ask[a].task = t => ~Locked(a)
  /\ task' = [task EXCEPT ![t].status = "DELETED"]
  /\ assigned' = {x \in assigned : x[1] # t}
  /\ ask' = DeletedWith(ask, t) /\ report' = DeletedWith(report, t)
  /\ notice' = [n \in DOMAIN notice |-> IF notice[n].task = t THEN [notice[n] EXCEPT !.task = None] ELSE notice[n]]
  /\ UNCHANGED <<project, crew, job, faults>>

(* assignUsers checks neither the limit nor the status.                    *)
AssignRead(r, u, t, v) ==
  /\ Ask(r, "assign", [pc |-> "add", task |-> t, to |-> v, by |-> u])
  /\ May(Desk, u, "USE_TASKS") /\ Here(t) /\ CanWrite(t, u)
  /\ member[Desk][v] # None \/ v = Owner[Desk]
  /\ task[t].project # None => ProjectRole(task[t].project, v) # {}
  /\ <<t, v>> \notin assigned
  /\ UNCHANGED <<boardVars, noticeVars>>

AssignWrite(r) ==
  /\ At(r, "add")
  /\ LET q == req[r] IN
       IF Here(q.task)
       THEN /\ assigned' = assigned \union {<<q.task, q.to>>}
            /\ Tell({q.to} \ {q.by}, "TASK_ASSIGNED", None, q.task)
       ELSE UNCHANGED <<assigned, noticeVars>>
  /\ Answer(r)
  /\ UNCHANGED <<task, rest>>

Unassign(r, u, t, v) ==
  /\ AskOnce(r, "assign")
  /\ May(Desk, u, "USE_TASKS") /\ Here(t) /\ CanWrite(t, u)
  /\ <<t, v>> \in assigned
  /\ assigned' = assigned \ {<<t, v>>}
  /\ UNCHANGED <<task, rest, noticeVars>>

-----------------------------------------------------------------------------
(* Requests to take a task on.                                             *)

AskRead(r, u, t) ==
  /\ Ask(r, "ask", [pc |-> "ask", task |-> t, by |-> u])
  /\ May(Desk, u, "USE_TASKS") /\ Here(t) /\ CanView(t, u)
  /\ <<t, u>> \notin assigned /\ task[t].status # "DONE" /\ HasCapacity(u, t)
  /\ UNCHANGED <<boardVars, noticeVars>>

(* task_assignment_requests_one_pending                                    *)
AlreadyAsked(t, u) == \E a \in DOMAIN ask : ask[a] = [task |-> t, by |-> u, status |-> "PENDING"]

AskWrite(r) ==
  /\ At(r, "ask")
  /\ LET q == req[r] IN
       IF Here(q.task) /\ ~AlreadyAsked(q.task, q.by)
       THEN /\ Len(ask) < MaxRows
            /\ ask' = Append(ask, [task |-> q.task, by |-> q.by, status |-> "PENDING"])
            /\ Tell(Approvers(q.task, q.by), "TASK_ASSIGNMENT_REQUESTED", Len(ask'), q.task)
       ELSE UNCHANGED <<ask, noticeVars>>
  /\ Answer(r)
  /\ UNCHANGED <<task, assigned, report, project, crew>>

Withdraw(r, u, a) ==
  /\ AskOnce(r, "ask")
  /\ ask[a].by = u /\ ask[a].status = "PENDING" /\ ~Locked(a)
  /\ ask' = [ask EXCEPT ![a].status = "WITHDRAWN"]
  /\ UNCHANGED <<task, assigned, report, project, crew, noticeVars>>

(* reviewAssignmentRequest: authority outside the transaction, the claim   *)
(* inside it; an approval counts what the requester carries, and commits   *)
(* later.                                                                  *)
DecideRead(r, u, a, status) ==
  /\ Ask(r, "decide", [pc |-> "claim", ask |-> a, status |-> status])
  /\ ask[a].status # "DELETED" /\ May(Desk, u, "USE_TASKS") /\ CanApprove(ask[a].task, u)
  /\ UNCHANGED <<boardVars, noticeVars>>

(* Mutant: the claim does not ask for PENDING.                             *)
Claimable_AnyStatus(a) == ask[a].status # "DELETED"

Claimable(a) == ask[a].status = "PENDING"

Decided(q) == /\ ask' = [ask EXCEPT ![q.ask].status = q.status]
              /\ Tell({ask[q.ask].by}, "TASK_ASSIGNMENT_DECIDED", q.ask, ask[q.ask].task)

DecideClaim(r) ==
  /\ At(r, "claim")
  /\ LET q == req[r] IN
       /\ ~Locked(q.ask)
       /\ \/ ~Claimable(q.ask) /\ Answer(r) /\ UNCHANGED <<ask, noticeVars>>
          \/ Claimable(q.ask) /\ q.status = "REJECTED" /\ Answer(r) /\ Decided(q)
          \/ /\ Claimable(q.ask) /\ q.status = "APPROVED"
             /\ IF HasCapacity(ask[q.ask].by, ask[q.ask].task)
                THEN GoOn(r, [pc |-> "assign", ask |-> q.ask, status |-> q.status]) ELSE Answer(r)
             /\ UNCHANGED <<ask, noticeVars>>
  /\ UNCHANGED <<task, assigned, report, project, crew>>

DecideCommit(r) ==
  /\ At(r, "assign")
  /\ LET q == req[r] IN
       /\ assigned' = assigned \union {<<ask[q.ask].task, ask[q.ask].by>>}
       /\ Decided(q)
  /\ Answer(r)
  /\ UNCHANGED <<task, report, project, crew>>

-----------------------------------------------------------------------------
(* Reports that end a task.                                                *)

SubmitRead(r, u, t) ==
  /\ Ask(r, "report", [pc |-> "submit", task |-> t, by |-> u])
  /\ May(Desk, u, "USE_TASKS") /\ Here(t)
  /\ <<t, u>> \in assigned /\ task[t].status # "DONE"
  /\ UNCHANGED <<boardVars, noticeVars>>

(* Mutant: the index covers accepted reports only.                         *)
LiveReport_Accepted(t) == \E p \in DOMAIN report : report[p].task = t /\ report[p].status = "APPROVED"

(* task_reports_one_live_per_task: one accepted counts as live.            *)
LiveReport(t) == \E p \in DOMAIN report : report[p].task = t /\ report[p].status \in {"PENDING", "APPROVED"}

SubmitWrite(r) ==
  /\ At(r, "submit")
  /\ LET q == req[r] IN
       IF Here(q.task) /\ ~LiveReport(q.task)
       THEN /\ Len(report) < MaxRows
            /\ report' = Append(report, [task |-> q.task, by |-> q.by, status |-> "PENDING"])
            /\ task' = [task EXCEPT ![q.task].status = "IN_REVIEW", ![q.task].completed = FALSE]
            /\ Tell(Approvers(q.task, q.by), "TASK_REPORT_SUBMITTED", Len(report'), q.task)
       ELSE UNCHANGED <<report, task, noticeVars>>
  /\ Answer(r)
  /\ UNCHANGED <<assigned, ask, project, crew>>

ReviewRead(r, u, p, status) ==
  /\ Ask(r, "report", [pc |-> "review", report |-> p, status |-> status])
  /\ report[p].status # "DELETED" /\ May(Desk, u, "USE_TASKS") /\ CanApprove(report[p].task, u)
  /\ UNCHANGED <<boardVars, noticeVars>>

(* The claim on status and version.                                        *)
Reviewable(p) == report[p].status = "PENDING"

ReviewWrite(r) ==
  /\ At(r, "review")
  /\ LET q == req[r]  t == report[q.report].task  done == q.status = "APPROVED" IN
       IF Reviewable(q.report)
       THEN /\ report' = [report EXCEPT ![q.report].status = q.status]
            /\ task' = [task EXCEPT ![t].status = IF done THEN "DONE" ELSE "IN_PROGRESS", ![t].completed = done]
            /\ Tell({report[q.report].by}, "TASK_REPORT_DECIDED", q.report, t)
       ELSE UNCHANGED <<report, task, noticeVars>>
  /\ Answer(r)
  /\ UNCHANGED <<assigned, ask, project, crew>>

-----------------------------------------------------------------------------
(* Projects.                                                               *)

(* createProject makes its creator PROJECT_MANAGER.                        *)
CreateProject(r, u, p) ==
  /\ AskOnce(r, "project")
  /\ May(Desk, u, "MANAGE_PROJECTS") /\ project[p] = None
  /\ project' = [project EXCEPT ![p] = "ACTIVE"]
  /\ crew' = Append(crew, [project |-> p, user |-> u, role |-> "PROJECT_MANAGER"])
  /\ UNCHANGED <<task, assigned, ask, report, noticeVars>>

(* updateProject not once it is archived, unarchiveProject only then, and  *)
(* archiveProject always; each writes the status by identifier later.      *)
ProjectRead(r, u, p, status) ==
  /\ Ask(r, "project", [pc |-> "project", project |-> p, status |-> status])
  /\ May(Desk, u, "USE_PROJECTS") /\ CanLead(p, u)
  /\ project[p] = "ARCHIVED" => status # "COMPLETED"
  /\ UNCHANGED <<boardVars, noticeVars>>

ProjectWrite(r) ==
  /\ At(r, "project")
  /\ LET q == req[r] IN
       project' = IF InForce(q.project) THEN [project EXCEPT ![q.project] = q.status] ELSE project
  /\ Answer(r)
  /\ UNCHANGED <<task, assigned, ask, report, crew, noticeVars>>

(* deleteProject: its tasks stay, without a project.                       *)
DeleteProject(r, u, p) ==
  /\ AskOnce(r, "project")
  /\ May(Desk, u, "MANAGE_PROJECTS") /\ InForce(p)
  /\ project' = [project EXCEPT ![p] = "DELETED"]
  /\ crew' = [c \in DOMAIN crew |-> IF c \in CrewOf(p) THEN [crew[c] EXCEPT !.role = None] ELSE crew[c]]
  /\ task' = [t \in Tasks |-> IF Here(t) /\ task[t].project = p THEN [task[t] EXCEPT !.project = None] ELSE task[t]]
  /\ UNCHANGED <<assigned, ask, report, noticeVars>>

(* addMember                                                               *)
CrewAddRead(r, u, p, v, role) ==
  /\ Ask(r, "crew", [pc |-> "join", row |-> [project |-> p, user |-> v, role |-> role]])
  /\ May(Desk, u, "USE_PROJECTS") /\ CanLead(p, u)
  /\ member[Desk][v] # None \/ v = Owner[Desk]
  /\ ProjectRole(p, v) = {}
  /\ UNCHANGED <<boardVars, noticeVars>>

CrewAddWrite(r) ==
  /\ At(r, "join")
  /\ LET row == req[r].row IN
       IF InForce(row.project) /\ ProjectRole(row.project, row.user) = {}
       THEN Len(crew) < MaxRows /\ crew' = Append(crew, row)
       ELSE UNCHANGED crew
  /\ Answer(r)
  /\ UNCHANGED <<task, assigned, ask, report, project, noticeVars>>

(* updateMemberRole and removeMember (role None): not the only manager, as *)
(* counted before the write.                                               *)
Managers(p) == {c \in CrewOf(p) : crew[c].role = "PROJECT_MANAGER"}

CrewRead(r, u, c, role) ==
  /\ Ask(r, "crew", [pc |-> "crew", row |-> c, role |-> role])
  /\ May(Desk, u, "USE_PROJECTS") /\ CanLead(crew[c].project, u) /\ crew[c].role # None
  /\ c \in Managers(crew[c].project) /\ role # "PROJECT_MANAGER" => Cardinality(Managers(crew[c].project)) > 1
  /\ UNCHANGED <<boardVars, noticeVars>>

CrewWrite(r) ==
  /\ At(r, "crew")
  /\ LET c == req[r].row IN
       crew' = IF crew[c].role = None THEN crew ELSE [crew EXCEPT ![c].role = req[r].role]
  /\ Answer(r)
  /\ UNCHANGED <<task, assigned, ask, report, project, noticeVars>>

-----------------------------------------------------------------------------
(* The deadline scan: a task that is due and not done, each who works on   *)
(* it, unless a row of that kind was written within the cooldown.          *)

Cooling(u, type, t) ==
  \E n \in DOMAIN notice : notice[n].to = u /\ notice[n].type = type /\ notice[n].task = t /\ notice[n].recent

ScanRead(r, t, u) ==
  /\ Ask(r, "scan", [pc |-> "due", task |-> t, to |-> u])
  /\ Here(t) /\ Due[t] # None /\ task[t].status # "DONE" /\ <<t, u>> \in assigned
  /\ UNCHANGED <<boardVars, noticeVars>>

ScanAdd(r) ==
  /\ At(r, "due")
  /\ LET q == req[r] IN
       IF Cooling(q.to, Due[q.task], q.task) THEN UNCHANGED noticeVars
       ELSE Tell({q.to}, Due[q.task], None, q.task)
  /\ Answer(r)
  /\ UNCHANGED boardVars

-----------------------------------------------------------------------------
BoardAsk(r, u) ==
  \/ \E t \in Tasks :
       \/ \E p \in Projects \union {None}, status \in Wishes : CreateTask(r, u, t, p, status)
       \/ \E p \in Projects \union {None, "clear"}, status \in Wishes \union {None} :
            UpdateTaskRead(r, u, t, p, status)
       \/ \E status \in Wishes : ChangeStatusRead(r, u, t, status)
       \/ DeleteTask(r, u, t) \/ AskRead(r, u, t) \/ SubmitRead(r, u, t)
       \/ \E v \in Users : AssignRead(r, u, t, v) \/ Unassign(r, u, t, v)
  \/ \E a \in DOMAIN ask : Withdraw(r, u, a)
  \/ \E status \in {"APPROVED", "REJECTED"} :
       \/ \E a \in DOMAIN ask : DecideRead(r, u, a, status)
       \/ \E p \in DOMAIN report : ReviewRead(r, u, p, status)
  \/ \E p \in Projects :
       \/ CreateProject(r, u, p) \/ DeleteProject(r, u, p)
       \/ \E status \in {"ACTIVE", "COMPLETED", "ARCHIVED"} : ProjectRead(r, u, p, status)
       \/ \E v \in Users, role \in Parts : CrewAddRead(r, u, p, v, role)
  \/ \E c \in DOMAIN crew, role \in Parts \union {None} : CrewRead(r, u, c, role)

BoardGoOn(r) ==
  \/ TaskWrite(r) \/ AssignWrite(r) \/ AskWrite(r) \/ SubmitWrite(r)
  \/ DecideClaim(r) \/ DecideCommit(r) \/ ReviewWrite(r)
  \/ ProjectWrite(r) \/ CrewAddWrite(r) \/ CrewWrite(r)
  \/ ScanAdd(r) \/ \E t \in Tasks, u \in Users : ScanRead(r, t, u)

(* The worker, and what people do with what they are told.                 *)
There == {t \in Tasks : Here(t)}

NoticeStep ==
  \/ \E j \in DOMAIN job : Deliver(j, There) \/ DeliverFails(j, There)
  \/ \E u \in Users : MarkAllRead(u)
  \/ \E n \in DOMAIN notice : DeleteNotice(n)
  \/ CooldownPasses

-----------------------------------------------------------------------------
(* Whoever asks, withdraws, decides or deletes at the same moment: nobody  *)
(* has two requests waiting for one task, a task has one report under      *)
(* review or accepted, and nobody works on a task that is not there.       *)
BoardSafe ==
  /\ \A a, b \in DOMAIN ask :
       a # b /\ ask[a].status = "PENDING" /\ ask[b].status = "PENDING" => <<ask[a].task, ask[a].by>> # <<ask[b].task, ask[b].by>>
  /\ \A p, q \in DOMAIN report :
       p # q /\ report[p].status \in {"PENDING", "APPROVED"} /\ report[q].status \in {"PENDING", "APPROVED"} =>
         report[p].task # report[q].task
  /\ \A x \in assigned : Here(x[1])
  /\ \A a \in DOMAIN ask : ask[a].status = "PENDING" => Here(ask[a].task)

(* A request that is decided was PENDING until that step, and one that is  *)
(* accepted has its assignment in that step; a request goes unasked only   *)
(* with its task.                                                          *)
AsksStand ==
  \A a \in DOMAIN ask : ask'[a].status # ask[a].status =>
    \/ ask'[a].status = "DELETED" /\ ~Here(ask[a].task)'
    \/ /\ ask[a].status = "PENDING"
       /\ ask'[a].status = "APPROVED" => <<ask[a].task, ask[a].by>> \in assigned'

(* A report that is decided was PENDING until that step, which closes its  *)
(* task or sends it back, with completedAt to match.                       *)
ReportsStand ==
  \A p \in DOMAIN report : report'[p].status # report[p].status =>
    \/ report'[p].status = "DELETED"
    \/ /\ report[p].status = "PENDING"
       /\ LET t == report[p].task IN
            IF report'[p].status = "APPROVED"
            THEN task'[t].status = "DONE" /\ task'[t].completed
            ELSE task'[t].status = "IN_PROGRESS" /\ ~task'[t].completed

BoardStanding == AsksStand /\ ReportsStand

(* A decision stands, whoever else was deciding or withdrawing: it is made *)
(* once, from PENDING, and the step that makes it also does what it says.  *)
BoardStands == [][BoardStanding]_boardVars
=============================================================================
