----------------------------- MODULE Workspace -----------------------------
(***************************************************************************)
(* People, from the address they register with to the work they are given: *)
(* signing in, membership and keys, tasks and projects, and the            *)
(* notifications that follow, in one system of requests.  A caller is who  *)
(* the session of the request says (src/middlewares/authenticate.ts), and  *)
(* people are named by their addresses throughout.                         *)
(***************************************************************************)
EXTENDS SignIn, TaskBoard

workspaceVars == <<callVars, signInVars, accessVars, boardVars, noticeVars>>

ASSUME WorkspaceAssumption == Users = Emails

(* How things stand when clients start: each address registered once, every *)
(* member registered, and work only on tasks there are.                     *)
ASSUME LoadAssumption ==
  \A l \in Loads :
    LET people == {l.accounts[i] : i \in DOMAIN l.accounts} IN
    /\ l.accounts \in Seq(Emails) /\ IsInjective(l.accounts)
    /\ l.staff \in Staffs
    /\ \A w \in Workspaces, u \in Users : l.staff[w][u] # None => u \in people
    /\ l.tasks \in [Tasks -> TaskRow \union {None}]
    /\ l.work \subseteq {t \in Tasks : l.tasks[t] # None /\ l.tasks[t].status # "DELETED"} \X people

(* What clients may ask for names where things stand when they start.      *)
WorkspaceInit ==
  /\ CallsInit
  /\ SignInInit(asked.accounts)
  /\ AccessInit(asked.staff)
  /\ BoardInit(asked.tasks, asked.work, asked.crew)
  /\ NoticesInit

SignInPart == SignInNext /\ UNCHANGED <<accessVars, boardVars, noticeVars>>

AccessKinds == {"invite", "accept", "role", "remove", "import", "book", "key", "rotate"}
BoardKinds  == {"task", "assign", "ask", "decide", "report", "project", "crew"}

AccessPart(r) ==
  /\ \/ AccessGoOn(r)
     \/ Wanted(r, AccessKinds) /\ \E u \in Users : SignedIn(u) /\ AccessAsk(r, u)
  /\ UNCHANGED <<signInVars, boardVars, noticeVars>>

BoardPart(r) ==
  /\ \/ BoardGoOn(r)
     \/ Wanted(r, BoardKinds) /\ \E u \in Users : SignedIn(u) /\ BoardAsk(r, u)
  /\ UNCHANGED <<signInVars, accessVars>>

NoticePart == NoticeStep /\ UNCHANGED <<callVars, signInVars, accessVars, boardVars>>

WorkspaceNext ==
  \/ SignInPart \/ NoticePart
  \/ \E r \in Requests :
       \/ AccessPart(r) \/ BoardPart(r)
       \/ BreakOff(r) /\ UNCHANGED <<signInVars, accessVars, boardVars, noticeVars>>
  \/ /\ \E i \in DOMAIN invite : InviteLapses(i)
     /\ UNCHANGED <<signInVars, boardVars, noticeVars>>

(* The worker runs, and its failures come to an end: MaxFaults bounds them *)
(* below the attempts of a job.                                            *)
WorkspaceSpec ==
  /\ WorkspaceInit /\ [][WorkspaceNext]_workspaceVars
  /\ \A j \in 1 .. MaxJobs : WF_workspaceVars(j \in DOMAIN job /\ Deliver(j, There)
                                              /\ UNCHANGED <<callVars, signInVars, accessVars, boardVars>>)

-----------------------------------------------------------------------------
(* Whatever races between registering, verifying, inviting, accepting,     *)
(* importing and assigning: only somebody who has proved that an address   *)
(* is theirs comes to belong to a workspace, or to work on a task, under   *)
(* that address.                                                           *)
Proved(u) == \E a \in Known(u) : account[a].verified

MembersAreProved ==
  /\ \A w \in Workspaces, u \in Users : member[w][u] # None => Proved(u)
  /\ \A x \in assigned : Proved(x[2])

(* And whatever the queue delivers again, people are told once.            *)
WorkspaceSafe == SignInSafe /\ AccessSafe /\ MembersAreProved /\ ToldOnce

(* A job the queue has taken ends in its notification, though the worker   *)
(* fails or dies on the way, unless the task it is about is deleted.       *)
EveryoneTold ==
  \A j \in 1 .. MaxJobs :
    (j \in DOMAIN job) ~> (j \in DOMAIN job /\ (job[j].state = "done" \/ job[j].task \notin There))
=============================================================================
