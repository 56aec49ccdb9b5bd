---------------------------- MODULE MCWorkspace ----------------------------
(* Instances of Workspace small enough for TLC.                            *)
EXTENDS Workspace, TLC

CONSTANTS ann, bob, cam, dan, w1, w2, b1, b2, t1, t2, p1, p2, g1

(* Ann owns both workspaces; Bob is staff and Cam manages in one.  Dan has *)
(* not registered.                                                         *)
Owners == w1 :> ann @@ w2 :> ann
Homes  == b1 :> w1 @@ b2 :> w1
Nobody == [u \in Users |-> None]
Alone  == [w \in Workspaces |-> [Nobody EXCEPT ![ann] = "OWNER"]]
Team   == [Alone EXCEPT ![w1][bob] = "MEMBER", ![w1][cam] = "GENERAL_MANAGER"]
SomeStaffs == {Alone, Team}
Googles == {<<g1, dan>>, <<g1, ann>>}

NoTasks  == [t \in Tasks |-> None]
NewTask(p) == [by |-> bob, project |-> p, status |-> "TODO", completed |-> FALSE]
SomeDue == t1 :> "TASK_OVERDUE" @@ t2 :> None

Lead(u) == [project |-> p1, user |-> u, role |-> "PROJECT_MANAGER"]

Load(n, of, jobs) ==
  [of |-> of, left |-> n, jobs |-> jobs, accounts |-> <<ann, bob, cam>>, staff |-> Team,
   tasks |-> NoTasks, work |-> {}, crew |-> <<>>]

LoneLoad(n, of) == [Load(n, of, 0) EXCEPT !.accounts = <<ann>>, !.staff = Alone]

SignUps   == LoneLoad(3, {"register", "verify", "login", "google"})
Sessions  == LoneLoad(4, {"reset", "login", "refresh", "logout"})
Joining   == LoneLoad(3, {"google", "invite", "accept"})
People    == Load(3, {"invite", "accept", "role", "remove"}, 0)
Leaving   == [Load(3, {"remove", "assign", "decide", "ask"}, 0) EXCEPT !.tasks[t1] = NewTask(None)]
Bringing  == Load(3, {"import", "book", "remove"}, 0)
Keys      == Load(3, {"key", "book", "rotate"}, 0)
Tasking   == [Load(3, {"task", "assign"}, 0) EXCEPT !.tasks[t1] = NewTask(None)]
Asking    == [Load(4, {"ask", "decide"}, 0) EXCEPT !.tasks = [t \in Tasks |-> NewTask(None)]]
Reporting == [Load(3, {"report", "task"}, 1) EXCEPT !.tasks[t1] = NewTask(None), !.work = {<<t1, bob>>}]
Planning  == [Load(3, {"project", "crew"}, 0) EXCEPT !.tasks[t1] = NewTask(p1), !.crew = <<Lead(cam), Lead(bob)>>]
Placing   == [Load(2, {"project", "task"}, 0) EXCEPT !.tasks[t1] = NewTask(p1), !.crew = <<Lead(cam)>>]
Reminding == [Load(2, {"scan", "task"}, 2) EXCEPT !.tasks[t1] = NewTask(None), !.work = {<<t1, bob>>}]
Telling   == [Load(2, {"ask", "decide"}, 3) EXCEPT !.tasks[t1] = NewTask(None)]

Signing   == {SignUps, Sessions}
Belonging == {Joining, People, Leaving, Bringing, Keys}
Working   == {Tasking, Asking, Reporting, Planning, Placing}
Hearing   == {Reminding, Telling}

SomeLoads == Signing \union Belonging \union Working \union Hearing
=============================================================================
